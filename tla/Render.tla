------------------------------- MODULE Render -------------------------------
(***************************************************************************)
(* A deployment from its declaration to its artifacts: builder calls on    *)
(* the intents (Declaration), the planner's verdict (PlannerRules,         *)
(* RenderGates), render_deployment one operation at a time (RenderRuntime) *)
(* and the outcome, its script and its versioned artifacts                 *)
(* (src/src/render.rs, src/src/artifact/).                                 *)
(*                                                                         *)
(* The intent declares no startup dependencies, so the plan's order is the *)
(* order of operation_sort_key (Planner covers the rest).                  *)
(***************************************************************************)
EXTENDS Podman, Bags

CONSTANTS
    Setups,         \* [resources, external, connection, family]: what a caller starts from
    Calls,          \* the builder calls of a family, <<identity, call>>
    MaxCalls,       \* how many of them a behaviour makes, by family
    Targets         \* the target profiles

BuilderKinds == {"container", "pod", "network", "volume"}
\* What the builders can be asked: containers and pods are never external
\* (ExternalPrecondition::new), and a call names a field of the intent.
ASSUME SetupsAssumption ==
    \A s \in Setups :
        /\ s.family \in DOMAIN Calls
        /\ s.resources = [id \in DOMAIN s.resources |-> s.resources[id]]
        /\ IsFiniteSet(DOMAIN s.resources) /\ DOMAIN s.resources \subseteq DOMAIN KindOf
        /\ s.external \subseteq DOMAIN s.resources
        /\ \A id \in s.external : KindOf[id] \notin {"container", "pod"}
        /\ \A id \in DOMAIN s.resources :
              /\ s.resources[id].id = id
              /\ KindOf[id] \in BuilderKinds \cup {"image", "secret"}
              /\ KindOf[id] \in BuilderKinds => Intent(s.resources[id])
ASSUME CallsAssumption ==
    \A f \in DOMAIN Calls : \A c \in Calls[f] :
        LET call == c[2]
        IN  /\ KindOf[c[1]] \in BuilderKinds
            /\ \/ call[1] = "set" /\ call[2] \in OnceFields /\ (call[2] = "command" => List(call[3]))
               \/ /\ call[1] = "add" /\ call[2] \in Lists
                  /\ call[2] = "environment" => call[3].class \in EnvironmentClasses
               \/ call[1] = "pod" /\ call[3] \in DOMAIN KindOf
               \/ call[1] = "order" /\ List(call[3])

\* The environment entries of the containers of a declaration, and all that
\* can be declared.  A value stands for its origin: entries of two classes
\* have different values.
Entries(rs) ==
    UNION {Elements(rs[id].list["environment"]) : id \in {y \in DOMAIN rs : KindOf[y] = "container"}}
Added == {c[2][3] : c \in {x \in UNION {Calls[f] : f \in DOMAIN Calls} :
                              x[2][1] = "add" /\ x[2][2] = "environment"}}
Declarable == Added \cup UNION {Entries(s.resources) : s \in Setups}
ASSUME OriginAssumption == \A e, x \in Declarable : e.value = x.value => e.class = x.class

VARIABLES
    stage,          \* "declare", "planned", "render", "done" or "rejected"
    resources,      \* the declared resources, by identity
    external,       \* identities that are external preconditions
    connection,     \* option of a connection reference
    family,         \* the builder calls this caller makes
    calls,          \* calls made
    answer,         \* what the last call answered
    target,
    authorized,     \* render_deployment_with_authorization
    plan,           \* operations, in order
    next,           \* the position of the loop of render_deployment_inner
    blocked,        \* blocked_resources
    findings,       \* a bag: the final sort makes their order a function of it
    protected,      \* contains_protected_inline_environment
    deferred,
    operations,     \* rendered operations
    rendering       \* option of the complete rendering

declaration == <<resources, external, connection, family, calls, answer>>
rendered == <<blocked, findings, protected, deferred, operations, rendering>>
vars == <<stage, declaration, target, authorized, plan, next, rendered>>

-----------------------------------------------------------------------------
(* Declaring. *)

Init ==
    /\ stage = "declare"
    /\ \E s \in Setups : /\ resources = s.resources /\ external = s.external
                         /\ connection = s.connection /\ family = s.family
    /\ calls = 0 /\ answer = "none"
    /\ target = {} /\ authorized = FALSE
    /\ plan = <<>> /\ next = 1
    /\ blocked = {} /\ findings = EmptyBag /\ protected = FALSE /\ deferred = FALSE
    /\ operations = <<>> /\ rendering = {}

Call(id, call) ==
    /\ stage = "declare" /\ calls < MaxCalls[family] /\ id \in DOMAIN resources \ external
    /\ LET result == Called(resources[id], call)
       IN  resources' = [resources EXCEPT ![id] = result.intent] /\ answer' = result.answer
    /\ calls' = calls + 1
    /\ UNCHANGED <<stage, external, connection, family, target, authorized, plan, next, rendered>>

-----------------------------------------------------------------------------
(* Planning. *)

Static(n) == {f \in {"static_ipv4", "static_ipv6", "static_mac"} : n[f] # {}}
GrantTarget(g) ==
    [field |-> IF g.type = "env" THEN "environment_target" ELSE "mount_target",
     name |-> IF g.target = {} THEN 0 ELSE The(g.target).id]

\* The declared resource as the planner's rules see it.
Declared(id, r, outside, t) ==
    LET pod == id \notin outside /\ KindOf[id] = "pod"
        container == id \notin outside /\ KindOf[id] = "container"
    IN  [kind |-> KindOf[id], id |-> id, external |-> id \in outside, payload |-> 0, material |-> TRUE,
         image |-> IF container THEN r.image ELSE 0,
         pod |-> IF container /\ r.pod # {} THEN The(r.pod) ELSE 0,
         networks |-> IF ~(pod \/ container) THEN <<>>
                      ELSE Mapped(r.list["networks"], LAMBDA n : [network |-> n.network, static |-> Static(n)]),
         network_order |-> IF container /\ r.order # {} THEN The(r.order) ELSE <<>>,
         mounts |-> IF ~(pod \/ container) THEN <<>>
                    ELSE Mapped(r.list["mounts"], LAMBDA m :
                           [source |-> IF m.type = "volume" THEN m.source ELSE 0, destination |-> m.destination.id]),
         grants |-> IF ~container THEN <<>>
                    ELSE Mapped(r.list["secret_grants"], LAMBDA g : [source |-> g.source, target |-> GrantTarget(g)]),
         environment |-> IF ~container THEN {} ELSE {e.name.id : e \in Elements(r.list["environment"])},
         members |-> IF pod THEN r.list["members"] ELSE <<>>,
         exclusive |-> IF container THEN pod_exclusive(r) ELSE {},
         unsupported |-> IF container THEN validate_runtime_settings(r, t) ELSE {}]

index_resources(declared, outside, t) ==
    [id \in DOMAIN declared |-> Declared(id, declared[id], outside, t)]

\* Ordered by operation_sort_key.
Ordered(ops) ==
    [i \in 1..Cardinality(ops) |-> CHOOSE o \in ops : Cardinality({x \in ops : SortsBefore(x, o)}) = i - 1]

PlanDeployment(t) ==
    /\ stage = "declare"
    /\ target' = {t}
    /\ LET res == index_resources(resources, external, t)
           ops == {create_operation(id) : id \in DOMAIN res \ external}
                  \cup {Op("StartPod", id) : id \in StartedPods(res)}
                  \cup {Op("StartContainer", id) : id \in StartedContainers(res)}
       IN  IF validate_resources(res, t.context = "rootful") # {}
           THEN stage' = "rejected" /\ plan' = <<>>
           ELSE stage' = "planned" /\ plan' = Ordered(ops)
    /\ UNCHANGED <<declaration, authorized, next, rendered>>

-----------------------------------------------------------------------------
(* Rendering. *)

Version == The(reviewed_renderer_target_version(The(target)))
managed_image_sources ==
    [id \in {plan[i].resource : i \in {j \in DOMAIN plan : plan[j].action = "EnsureImage"}} |->
        resources[id].source]

RenderingFinding(code, id, field) == SetToBag({[code |-> code, subject |-> id, field |-> field]})

\* render_deployment and render_deployment_with_authorization
RenderDeployment(granted) ==
    /\ stage = "planned"
    /\ authorized' = granted
    /\ IF reviewed_renderer_target_version(The(target)) = {}
       THEN /\ stage' = "done"
            /\ findings' = RenderingFinding("RenderingTargetMismatch", 0, "target")
       ELSE stage' = "render" /\ UNCHANGED findings
    /\ UNCHANGED <<declaration, target, plan, next, blocked, protected, deferred, operations, rendering>>

inline_policy == authorized

Current == plan[next]
Unsupported == unsupported_fields(resources[Current.resource], Version, The(target).context, inline_policy)
AtOperation == stage = "render" /\ next <= Len(plan)

Advance == next' = next + 1

SkipBlocked ==
    /\ AtOperation /\ Current.resource \in blocked
    /\ Advance
    /\ UNCHANGED <<stage, declaration, target, authorized, plan, rendered>>

Block(id) == blocked' = blocked \cup {id}
Refusals(fields) ==
    SetToBag({[code |-> IF x = "source.portability" THEN "ImagePortabilityManual" ELSE "RenderingUnsupported",
               subject |-> Current.resource, field |-> x] : x \in fields})

RefuseOperation ==
    /\ AtOperation /\ Current.resource \notin blocked /\ Unsupported # {}
    /\ Block(Current.resource)
    /\ findings' = (findings (+) Refusals(Unsupported))
                   (+) Refusals(pushed_twice(resources[Current.resource], Version))
    /\ Advance
    /\ UNCHANGED <<stage, declaration, target, authorized, plan, protected, deferred, operations, rendering>>

\* Slip: the flag tells the last container only.
ProtectedSoFar_last(op) ==
    /\ op.action = "Create" /\ KindOf[op.resource] = "container"
    /\ \E e \in Elements(resources[op.resource].list["environment"]) : e.class = "protected"

ProtectedSoFar(op) ==
    \/ protected
    \/ /\ op.action = "Create" /\ KindOf[op.resource] = "container"
       /\ \E e \in Elements(resources[op.resource].list["environment"]) : e.class = "protected"

Prefixed(r) == [r EXCEPT !.argv = Arg("--connection", connection) \o @]

\* Slip: a failed operation is passed over in silence.
Failed_silently(id, field) == UNCHANGED findings

Failed(id, field) == findings' = findings (+) RenderingFinding("RenderingUnsupported", id, field)

RenderOperation ==
    /\ AtOperation /\ Current.resource \notin blocked /\ Unsupported = {}
    /\ LET r == render_operation(Current, resources[Current.resource], Version,
                                 managed_image_sources, inline_policy)
       IN  IF r.ok
           THEN /\ operations' = Append(operations, Prefixed(r.value))
                /\ deferred' = (deferred \/ r.value.deferred)
                /\ protected' = ProtectedSoFar(Current)
                /\ UNCHANGED findings
           ELSE /\ Failed(Current.resource, r.field)
                /\ UNCHANGED <<operations, deferred, protected>>
    /\ Advance
    /\ UNCHANGED <<stage, declaration, target, authorized, plan, blocked, rendering>>

Complete == findings = EmptyBag

FinishRendering ==
    /\ stage = "render" /\ next > Len(plan)
    /\ stage' = "done"
    /\ rendering' = IF Complete
                    THEN {[deferred |-> deferred, protected |-> protected, connection |-> connection,
                           external |-> external, operations |-> operations]}
                    ELSE {}
    /\ UNCHANGED <<declaration, target, authorized, plan, next, blocked, findings, protected, deferred,
                   operations>>

Next ==
    \/ \E c \in Calls[family] : Call(c[1], c[2])
    \/ \E t \in Targets : PlanDeployment(t)
    \/ \E granted \in BOOLEAN : RenderDeployment(granted)
    \/ SkipBlocked
    \/ RefuseOperation
    \/ RenderOperation
    \/ FinishRendering

Spec == Init /\ [][Next]_vars

-----------------------------------------------------------------------------
(* Artifacts. *)

\* ArtifactData::from_rendering
from_rendering(r) ==
    [connection |-> r.connection, external |-> r.external,
     operations |-> Mapped(r.operations, LAMBDA o :
        [op |-> o.op, deferred |-> o.deferred, argv |-> o.argv, required |-> o.input # {},
         path |-> o.path, kind |-> o.body.kind, json |-> o.body.json])]

\* Serialised bytes: version 1 has none for a rendering with protected values.
deployment_v1(r) == IF r.protected THEN {} ELSE {from_rendering(r)}
deployment_v2(r) == {from_rendering(r) ++ [protected |-> r.protected]}

\* The number of the n-th operation's secret input, and the inputs the
\* script checks before its first command.
secret_number(ops, n) == Cardinality({i \in 1..n : ops[i].input # {}})

\* Slip: the counter goes on from the checks.
command_number_continued(ops, n) == secret_number(ops, Len(ops)) + secret_number(ops, n)

\* The counter starts again for the commands.
command_number(ops, n) == secret_number(ops, n)
shell_script(r) ==
    LET checked == [i \in 1..secret_number(r.operations, Len(r.operations)) |-> <<"check", i>>]
    IN  [i \in 1..Cardinality(r.external) |-> <<"requires", 0>>]
        \o checked
        \o [i \in DOMAIN r.operations |->
              <<"podman", IF r.operations[i].input = {} THEN 0 ELSE command_number(r.operations, i)>>]

-----------------------------------------------------------------------------
(* Properties. *)

\* The mutators of an intent never lose or overwrite what was declared: an
\* accepted call adds to one field, a refused one changes nothing, and what is
\* set once keeps its first value (set_once, add_distinct and the other
\* mutators; the setters inside a value are part of its constructor).
CallsKeepDeclarations ==
    [][\A id \in DOMAIN resources \ external :
        LET before == resources[id]
            after == resources'[id]
        IN  /\ stage = "declare" /\ calls' # calls => (answer' = "ok" <=> resources' # resources)
            /\ before # after =>
                 /\ \A f \in OnceFields : before.opt[f] # {} => after.opt[f] = before.opt[f]
                 /\ \A f \in Lists : IsPrefix(before.list[f], after.list[f])
                 /\ \A f \in Lists \ FreeLists : Len(after.list[f]) <= Cap[f]
                 /\ before.pod # {} => after.pod = before.pod
                 /\ before.order # {} => after.order = before.order]_vars

Created(kind) == {o \in Elements(operations) : o.op.action = "Create" /\ KindOf[o.op.resource] = kind}
Resource(o) == resources[o.op.resource]

\* Podman reads the same container from the command line and from the Libpod
\* body of every rendered create, and it is the container that was declared,
\* from the image the plan pulls (the appenders of render.rs, two independent
\* translations of one intent, and managed_image_sources).
ContainerPlanesAgree ==
    \A o \in Created("container") :
        LET c == Resource(o)
            meant == ContainerMeant(c, IF c.image \in external THEN NameOf[c.image] ELSE resources[c.image].source)
        IN  /\ ContainerFromCli(o.argv) = meant
            /\ ContainerFromBody(o.body.json) = meant
            /\ \A ids \in c.order : LET names == Mapped(ids, LAMBDA id : NameOf[id])
                                    IN  OrderFromCli(o.argv) = names /\ OrderFromBody(o.body.json) = {names}

\* The same for pods, networks and volumes; gateways and ranges are compared
\* only where every subnet before one that has them has them too
\* (append_network_create_arguments passes them by position).
Positional(s, field) == \A i, j \in DOMAIN s : i < j /\ s[j][field] # {} => s[i][field] # {}
OtherPlanesAgree ==
    /\ \A o \in Created("pod") : /\ NetworkingFromCli(o.argv) = NetworkingMeant(Resource(o))
                                 /\ NetworkingFromBody(o.body.json) = NetworkingMeant(Resource(o))
    /\ \A o \in Created("network") :
         LET n == Resource(o)
             subnets == n.list["subnets"]
         IN  /\ RoutesFromCli(o.argv) = n.list["routes"] /\ RoutesFromBody(o.body.json) = n.list["routes"]
             /\ SubnetsFromBody(o.body.json) = subnets
             /\ Positional(subnets, "gateway") /\ Positional(subnets, "range")
                  => SubnetsFromCli(o.argv) = subnets
    /\ \A o \in Created("volume") : \A f \in OwnerFields :
         /\ Last1(o.argv, IF f = "uid" THEN "--uid" ELSE "--gid") = Resource(o).opt[f]
         /\ Member(o.body.json, IF f = "uid" THEN "UID" ELSE "GID") = Resource(o).opt[f]

\* Both planes of every rendered create mean the same resource to Podman, and
\* it is the declared one, whatever was declared in whatever order.
PlanesAgree == ContainerPlanesAgree /\ OtherPlanesAgree

\* The two planes of a network pair every subnet with its own gateway and
\* range (docs/decisions/0002: CLI and API equivalence).
SubnetPlanesAgree ==
    \A o \in Created("network") : SubnetsFromCli(o.argv) = SubnetsFromBody(o.body.json)

\* A rendering is complete or absent: it exists exactly when there is no
\* finding, and then it is the whole plan in the plan's order
\* (render_deployment_inner).
AllOrNothing ==
    stage = "done" =>
        /\ rendering # {} <=> findings = EmptyBag
        /\ \A r \in rendering : Mapped(r.operations, LAMBDA o : o.op) = plan

\* A refused resource is reported once although both its create and its
\* start meet the refusal (blocked_resources), and although two tests of
\* unsupported_fields push "network_order": the planner refuses the intent
\* that would meet both.
ReportedOnce == \A f \in BagToSet(findings) : findings[f] = 1

\* The outcome of rendering is the whole plan or its refusals, each once: no
\* refusal of several hides another or leaves a part behind.
OutcomeExact == AllOrNothing /\ ReportedOnce

\* What the planner accepted the renderer does not refuse for a rule they
\* share (validate_container and validate_runtime_settings against
\* unsupported_fields).
SharedRules ==
    {"runtime.startup_health_requires_health", "runtime.logging.driver", "runtime.logging.journald_labels",
     "runtime.logging.journald_labels.target_version", "runtime.logging.max_size",
     "runtime.resources.rlimits.unlimited.target_version", "runtime.security.privileged_capabilities",
     "runtime.security.capability_overlap", "runtime.security.read_write_tmpfs",
     "runtime.namespaces.pod_member", "networks", "ports", "dns", "host_aliases",
     "networks.static_address_requires_rootful", "environment", "secret_grants.cli_ambiguous"}
GatesAgree == \A f \in BagToSet(findings) : f.field \notin SharedRules

\* The values that a command line and a body carry in the environment.
Inlined(argv, json) ==
    {argv[i][2][2] : i \in {j \in DOMAIN argv : argv[j][1] = "--env"}}
    \cup (UNION {{env[n] : n \in DOMAIN env} : env \in Member(json, "env")})
Shown(o) == Inlined(o.argv, o.body.json)
ProtectedValues == {e.value : e \in {x \in Entries(resources) : x.class = "protected"}}
ExternalValues == {e.value : e \in {x \in Entries(resources) : x.class = "external"}}
Disclosed(ops) == UNION {Shown(o) : o \in Elements(ops)}

\* A protected value is rendered only under an authorization, an external
\* reference never (authorized_environment_value, unsupported_fields).
NoUnauthorizedDisclosure ==
    /\ ~authorized => Disclosed(operations) \cap ProtectedValues = {}
    /\ Disclosed(operations) \cap ExternalValues = {}

\* The flag says exactly whether protected values are in the rendering, so
\* version 1 of the artifact never carries one and version 2 tells
\* (contains_protected_inline_environment, deployment_v1, deployment_v2).
ArtifactsTell ==
    \A r \in rendering :
        /\ r.protected <=> Disclosed(r.operations) \cap ProtectedValues # {}
        /\ \A a \in deployment_v1(r) : \A i \in DOMAIN a.operations :
              Inlined(a.operations[i].argv, a.operations[i].json) \cap ProtectedValues = {}
        /\ \A a \in deployment_v2(r) : a.protected = r.protected

\* Protected environment values appear where they were authorized and in no
\* other environment value, and every artifact that holds one says so.
DisclosureControlled == NoUnauthorizedDisclosure /\ ArtifactsTell

\* Every secret input a command of the script reads is checked before the
\* first command, under the number the command uses, and no two commands
\* share one (shell_script).
ScriptInputsChecked ==
    \A r \in rendering :
        LET script == shell_script(r)
            reads == {i \in DOMAIN script : script[i][1] = "podman" /\ script[i][2] # 0}
        IN  /\ \A i \in reads : \E j \in 1..(i - 1) :
                 /\ script[j] = <<"check", script[i][2]>>
                 /\ \A k \in 1..j : script[k][1] # "podman"
            /\ \A i, k \in reads : i # k => script[i][2] # script[k][2]

=============================================================================
