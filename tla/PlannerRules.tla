---------------------------- MODULE PlannerRules ----------------------------
(***************************************************************************)
(* The validation rules of plan_deployment (src/src/deployment.rs), on      *)
(* indexed declarations.                                                   *)
(*                                                                         *)
(* A resource identity is a number; KindOf gives its kind and the order of *)
(* the numbers is the order of identities.  A declared resource is         *)
(*   [kind, id, external, payload, image, pod, networks, network_order,    *)
(*    mounts, grants, environment, members, exclusive, unsupported,        *)
(*    material]                                                            *)
(* with 0 for an absent reference and <<>> for an absent network order     *)
(* (set_network_order refuses an empty one).  exclusive holds the settings *)
(* a pod member may not have, unsupported the fields the runtime-settings  *)
(* checks refuse (Render computes both from the declared settings),        *)
(* payload everything else two declarations can differ in.                 *)
(***************************************************************************)
EXTENDS Integers, Sequences, FiniteSets

CONSTANTS
    KindOf      \* kind of every identity

ASSUME KindsAssumption == DOMAIN KindOf \subseteq Nat \ {0}

Elements(s) == {s[i] : i \in DOMAIN s}
Repeats(s) == \E i, j \in DOMAIN s : i # j /\ s[i] = s[j]

F(code, subject, field) == [code |-> code, subject |-> subject, field |-> field]
When(condition, finding) == IF condition THEN {finding} ELSE {}

-----------------------------------------------------------------------------
(* Operations. *)

Op(action, id) == [action |-> action, resource |-> id]
create_operation(id) == Op(IF KindOf[id] = "image" THEN "EnsureImage" ELSE "Create", id)

operation_rank(op) ==
    IF op.action = "Create" /\ KindOf[op.resource] = "network" THEN 0
    ELSE IF op.action = "Create" /\ KindOf[op.resource] = "volume" THEN 1
    ELSE IF op.action = "Create" /\ KindOf[op.resource] = "secret" THEN 2
    ELSE IF op.action = "EnsureImage" THEN 3
    ELSE IF op.action = "Create" /\ KindOf[op.resource] = "pod" THEN 4
    ELSE IF op.action = "Create" /\ KindOf[op.resource] = "container" THEN 5
    ELSE IF op.action \in {"StartPod", "StartContainer"} THEN 6
    ELSE 7

\* operation_sort_key, compared
SortsBefore(a, b) ==
    \/ operation_rank(a) < operation_rank(b)
    \/ operation_rank(a) = operation_rank(b) /\ a.resource < b.resource

\* Slip: pods without members are started too.
StartedPods_all(res) == {x \in DOMAIN res : res[x].kind = "pod"}
StartedPods(res) == {x \in DOMAIN res : res[x].kind = "pod" /\ res[x].members # <<>>}
StartedContainers(res) == {x \in DOMAIN res : res[x].kind = "container" /\ res[x].pod = 0}

-----------------------------------------------------------------------------
(* Validation. *)

resolved(res, id, kind) == id \in DOMAIN res /\ KindOf[id] = kind
is_managed(res, id) == ~(id \in DOMAIN res /\ res[id].external)

require_resolved(res, ref, kind, subject, field) ==
    When(~resolved(res, ref, kind), F("DeploymentUnresolvedPrerequisite", subject, field))

Networks(r) == {n.network : n \in Elements(r.networks)}
Sources(r) == {m.source : m \in Elements(r.mounts)} \ {0}

validate_network_attachments(r) ==
    When(Repeats([i \in DOMAIN r.networks |-> r.networks[i].network]),
         F("DeploymentDuplicateResource", r.id, "networks"))

validate_static_network_addresses(r, rootful) ==
    IF rootful THEN {}
    ELSE {F("DeploymentUnsupportedCombination", r.id, x) :
            x \in UNION {n.static : n \in Elements(r.networks)}}

validate_mounts(res, r, field) ==
    When(Repeats([i \in DOMAIN r.mounts |-> r.mounts[i].destination]),
         F("DeploymentDuplicateResource", r.id, field))
    \cup UNION {require_resolved(res, s, "volume", r.id, field) : s \in Sources(r)}

\* A grant whose target an earlier grant, or for environment targets an
\* environment assignment, already took.
validate_secret_grants(res, r) ==
    LET taken(i) == LET target == r.grants[i].target
                    IN  \/ target.name # 0 /\ \E j \in 1..(i - 1) : r.grants[j].target = target
                        \/ target.field = "environment_target" /\ target.name \in r.environment
    IN  (UNION {require_resolved(res, g.source, "secret", r.id, "secret_grants") : g \in Elements(r.grants)})
        \cup {F("DeploymentDuplicateResource", r.id, r.grants[i].target.field) :
                i \in {j \in DOMAIN r.grants : taken(j)}}

validate_pod(res, pod, rootful) ==
    UNION {validate_network_attachments(pod),
           validate_static_network_addresses(pod, rootful),
           validate_mounts(res, pod, "infra_mounts"),
           When(Repeats(pod.members), F("DeploymentDuplicateResource", pod.id, "members")),
           UNION {require_resolved(res, n, "network", pod.id, "networks") : n \in Networks(pod)},
           When(\E m \in Elements(pod.members) :
                   ~(resolved(res, m, "container") /\ res[m].pod = pod.id),
                F("DeploymentPodMembership", pod.id, "members"))}

validate_network_order(c) ==
    When(/\ c.network_order # <<>>
         /\ \/ Cardinality(Networks(c)) # Len(c.networks)
            \/ Repeats(c.network_order)
            \/ Elements(c.network_order) # Networks(c),
         F("DeploymentUnsupportedCombination", c.id, "network_order"))

\* What a container that names a pod may not have, and the two sides of its
\* membership.
validate_pod_member(res, c) ==
    IF c.pod = 0 THEN {}
    ELSE {F("DeploymentUnsupportedCombination", c.id, x) : x \in c.exclusive}
         \cup When(c.networks # <<>>, F("DeploymentUnsupportedCombination", c.id, "networks"))
         \cup When(c.network_order # <<>>, F("DeploymentUnsupportedCombination", c.id, "network_order"))
         \cup require_resolved(res, c.pod, "pod", c.id, "pod")
         \cup When(resolved(res, c.pod, "pod") /\ c.id \notin Elements(res[c.pod].members),
                   F("DeploymentPodMembership", c.id, "pod"))

validate_container(res, c, rootful) ==
    UNION {validate_network_attachments(c),
           validate_static_network_addresses(c, rootful),
           validate_mounts(res, c, "mounts"),
           validate_secret_grants(res, c),
           require_resolved(res, c.image, "image", c.id, "image"),
           validate_pod_member(res, c),
           UNION {require_resolved(res, n, "network", c.id, "networks") : n \in Networks(c)},
           validate_network_order(c),
           {F("DeploymentUnsupportedCombination", c.id, x) : x \in c.unsupported}}

validate_resources(res, rootful) ==
    LET one(r) == IF r.external THEN {}
                  ELSE IF r.kind = "secret"
                    THEN When(~r.material, F("SensitivePayloadEmbedded", r.id, "material"))
                  ELSE IF r.kind = "pod" THEN validate_pod(res, r, rootful)
                  ELSE IF r.kind = "container" THEN validate_container(res, r, rootful)
                  ELSE {}
    IN  UNION {one(res[id]) : id \in DOMAIN res}

=============================================================================
