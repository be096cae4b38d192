------------------------------ MODULE Planner ------------------------------
(***************************************************************************)
(* plan_deployment (src/src/deployment.rs): a declared intent is indexed   *)
(* and validated, its startup edges are lifted to start operations and     *)
(* checked for a cycle, and only an intent without findings is ordered     *)
(* into a plan, one ready operation at a time.                             *)
(* The records are those of PlannerRules.                                  *)
(***************************************************************************)
EXTENDS PlannerRules

CONSTANTS
    Intents     \* the intents a caller can build

\* Every declaration has an identity of its kind, an external precondition is
\* never a container or a pod (ExternalPrecondition::new), and only the intents
\* that have the fields attach, mount, grant or hold anything.
ASSUME IntentsAssumption ==
    \A it \in Intents : \A i \in DOMAIN it.resources :
        LET r == it.resources[i]
        IN  /\ r.id \in DOMAIN KindOf /\ r.kind = KindOf[r.id]
            /\ r.external \in BOOLEAN
            /\ r.external => r.kind \notin {"container", "pod"}
            /\ r.members \in Seq(Nat)
            /\ r.kind \notin {"container", "pod"} => r.networks = <<>> /\ r.mounts = <<>>
            /\ r.kind # "container" => r.image = 0 /\ r.pod = 0 /\ r.grants = <<>>
            /\ r.kind # "pod" => r.members = <<>>

VARIABLES
    intent,       \* the caller's DeploymentIntent, never changed
    phase,        \* "validate", "cycle", "order", "planned" or "rejected"
    resources,    \* the indexed declarations, by identity
    findings,     \* planning findings so far
    edges,        \* the remaining map of operation_cycle
    nodes,        \* the remaining nodes of topological_operations
    declared,     \* declared_dependencies
    plan          \* the operations pushed so far

vars == <<intent, phase, resources, findings, edges, nodes, declared, plan>>

-----------------------------------------------------------------------------
(* Indexing: identical repetitions are indexed and reported, different      *)
(* declarations of one identity are reported and left out.                  *)

Declarations(it, id) == {r \in Elements(it.resources) : r.id = id}
DeclaredIds(it) == {r.id : r \in Elements(it.resources)}

index_resources(it) ==
    [id \in {x \in DeclaredIds(it) : Cardinality(Declarations(it, x)) = 1} |->
        CHOOSE r \in Declarations(it, id) : TRUE]

index_findings(it) ==
    UNION {LET count == Cardinality({i \in DOMAIN it.resources : it.resources[i].id = id})
               same == Cardinality(Declarations(it, id)) = 1
           IN  When(count > 1 /\ same, F("DeploymentDuplicateResource", id, "resources"))
               \cup When(~same, F("DeploymentConflictingResource", id, "resources")) :
           id \in DeclaredIds(it)}

-----------------------------------------------------------------------------
(* Startup edges and the operations of a plan. *)

\* Slip: a pod member is anchored at itself instead of at its pod.
start_anchor_unlifted(res, c) ==
    IF c \notin DOMAIN res \/ KindOf[c] # "container" THEN {} ELSE {Op("StartContainer", c)}

\* The start operation of a container, as a set of at most one: its own, its
\* pod's if it has one that is declared, or none.
start_anchor(res, c) ==
    IF c \notin DOMAIN res \/ KindOf[c] # "container" THEN {}
    ELSE IF res[c].pod = 0 THEN {Op("StartContainer", c)}
    ELSE IF resolved(res, res[c].pod, "pod") THEN {Op("StartPod", res[c].pod)}
    ELSE {}

\* One lifted edge per dependency whose two anchors exist, by occurrence.
LiftedEdges(it, res) ==
    LET anchors(i) == start_anchor(res, it.startup[i].predecessor)
                        \X start_anchor(res, it.startup[i].dependent)
    IN  [i \in {j \in DOMAIN it.startup : anchors(j) # {}} |->
            CHOOSE e \in anchors(i) : TRUE]

SamePod(e) == e[1] = e[2] /\ e[1].action = "StartPod"

\* The edges the cycle check sees: same-pod edges and repetitions are only
\* findings.
StartEdges(it, res) == {e \in Elements(LiftedEdges(it, res)) : ~SamePod(e)}

validate_startup_findings(it, res) ==
    LET lifted == LiftedEdges(it, res)
    IN  (UNION {When(start_anchor(res, d.predecessor) = {},
                    F("DeploymentUnresolvedPrerequisite", d.predecessor, "startup_dependencies"))
               \cup When(start_anchor(res, d.dependent) = {},
                    F("DeploymentUnresolvedPrerequisite", d.dependent, "startup_dependencies")) :
                 d \in Elements(it.startup)})
        \cup {F("SamePodStartupDependency", it.startup[i].dependent, "startup_dependencies") :
                i \in {j \in DOMAIN lifted : SamePod(lifted[j])}}
        \cup {F("DeploymentDuplicateResource", it.startup[i].dependent, "startup_dependencies") :
                i \in {j \in DOMAIN lifted :
                         ~SamePod(lifted[j]) /\ \E k \in DOMAIN lifted : k < j /\ lifted[k] = lifted[j]}}

Predecessors(pairs, op) == {e[1] : e \in {x \in pairs : x[2] = op}}
\* Slip: a predecessor gets no entry of its own.
EdgeMap_dependents_only(pairs) ==
    [op \in {e[2] : e \in pairs} |-> Predecessors(pairs, op)]
EdgeMap(pairs) ==
    [op \in UNION {{e[1], e[2]} : e \in pairs} |-> Predecessors(pairs, op)]

\* The resources a create operation waits for.
References(r) ==
    IF r.kind = "pod" THEN Networks(r) \cup Sources(r)
    ELSE IF r.kind = "container"
      THEN ({r.image, r.pod} \ {0}) \cup Networks(r) \cup Sources(r)
             \cup {g.source : g \in Elements(r.grants)}
    ELSE {}

create_dependencies(res, r) ==
    {create_operation(x) : x \in {y \in References(r) : is_managed(res, y)}}

\* The nodes of the plan: a create for every managed resource, a start for
\* every pod with members and for every unpodded container.
OperationNodes(it, res) ==
    LET managed == {id \in DOMAIN res : ~res[id].external}
        creates == {create_operation(id) : id \in managed}
        startPods == {Op("StartPod", id) : id \in StartedPods(res)}
        startContainers == {Op("StartContainer", id) : id \in StartedContainers(res)}
        own(op) == IF op \in creates THEN create_dependencies(res, res[op.resource])
                   ELSE {create_operation(op.resource)}
                        \cup (IF op \in startPods
                                THEN {create_operation(m) : m \in {x \in Elements(res[op.resource].members) :
                                                                      is_managed(res, x)}}
                                ELSE {})
    IN  [op \in creates \cup startPods \cup startContainers |->
            own(op) \cup Predecessors(Elements(LiftedEdges(it, res)), op)]

-----------------------------------------------------------------------------
(* The two loops, one removed operation per step. *)

Ready(map) == {op \in DOMAIN map : map[op] = {}}

\* Slip: the loop takes the first key by sort order, ready or not.
LeastReady_unfiltered(map) == CHOOSE a \in DOMAIN map : \A b \in DOMAIN map : ~SortsBefore(b, a)

LeastReady(map) == CHOOSE a \in Ready(map) : \A b \in Ready(map) : ~SortsBefore(b, a)
Removed(map, op) == [x \in DOMAIN map \ {op} |-> map[x] \ {op}]

NoNodes == [op \in {} |-> {}]

Init ==
    /\ intent \in Intents
    /\ phase = "validate" /\ resources = NoNodes /\ findings = {}
    /\ edges = NoNodes /\ nodes = NoNodes /\ declared = NoNodes
    /\ plan = <<>>

Validate ==
    /\ phase = "validate"
    /\ resources' = index_resources(intent)
    /\ findings' = UNION {index_findings(intent), validate_resources(resources', intent.rootful),
                          validate_startup_findings(intent, resources')}
    /\ edges' = EdgeMap(StartEdges(intent, resources'))
    /\ phase' = "cycle"
    /\ UNCHANGED <<intent, nodes, declared, plan>>

\* One iteration of operation_cycle's loop.
operation_cycle ==
    /\ phase = "cycle"
    /\ Ready(edges) # {}
    /\ edges' = Removed(edges, LeastReady(edges))
    /\ UNCHANGED <<intent, phase, resources, findings, nodes, declared, plan>>

\* Slip: the loop goes on while anything is left.
BuildNodes_acyclic_only ==
    /\ phase = "cycle"
    /\ DOMAIN edges = {}
    /\ IF findings = {}
         THEN /\ phase' = "order"
              /\ nodes' = OperationNodes(intent, resources) /\ declared' = nodes'
         ELSE phase' = "rejected" /\ UNCHANGED <<nodes, declared>>
    /\ UNCHANGED <<intent, resources, findings, edges, plan>>

\* The loop found nothing ready: what is left is a cycle.  Only an intent
\* without findings goes on to be ordered.
BuildNodes ==
    /\ phase = "cycle"
    /\ Ready(edges) = {}
    /\ findings' = findings \cup When(DOMAIN edges # {}, F("DeploymentCycle", 0, "startup_dependencies"))
    /\ IF findings' = {}
         THEN /\ phase' = "order"
              /\ nodes' = OperationNodes(intent, resources) /\ declared' = nodes'
         ELSE phase' = "rejected" /\ UNCHANGED <<nodes, declared>>
    /\ UNCHANGED <<intent, resources, edges, plan>>

\* One iteration of topological_operations' loop, with its error arm.
topological_operations ==
    /\ phase = "order"
    /\ DOMAIN nodes # {}
    /\ IF Ready(nodes) = {}
         THEN /\ findings' = {F("DeploymentCycle", 0, "startup_dependencies")}
              /\ phase' = "rejected" /\ UNCHANGED <<nodes, plan>>
         ELSE LET op == LeastReady(nodes)
              IN  /\ nodes' = Removed(nodes, op)
                  /\ plan' = Append(plan, op)
                  /\ UNCHANGED <<phase, findings>>
    /\ UNCHANGED <<intent, resources, edges, declared>>

FinishPlan ==
    /\ phase = "order"
    /\ DOMAIN nodes = {}
    /\ phase' = "planned"
    /\ UNCHANGED <<intent, resources, findings, edges, nodes, declared, plan>>

Next == Validate \/ operation_cycle \/ BuildNodes \/ topological_operations \/ FinishPlan

Spec == Init /\ [][Next]_vars /\ WF_vars(Next)
-----------------------------------------------------------------------------
(* Properties. *)

\* The loop maps only ever hold operations of the declared nodes, and the
\* phases are the ones of the planner.
TypeOK ==
    /\ intent \in Intents
    /\ phase \in {"validate", "cycle", "order", "planned", "rejected"}
    /\ plan \in Seq(DOMAIN declared)
    /\ DOMAIN nodes \subseteq DOMAIN declared

\* Every operation of the plan, at every moment of its construction, comes
\* after every operation it depends on; nothing is emitted twice; and what is
\* neither emitted nor pending does not exist.
PlanOrdered ==
    /\ \A i \in DOMAIN plan : declared[plan[i]] \subseteq {plan[j] : j \in 1..(i - 1)}
    /\ \A i, j \in DOMAIN plan : plan[i] = plan[j] => i = j
    /\ DOMAIN nodes = DOMAIN declared \ Elements(plan)

Before(op, i) == \E j \in 1..(i - 1) : plan[j] = op

\* Carrying the plan out in order never uses a managed resource before the
\* operation that makes it: a container's image, pod, networks, volumes and
\* secrets, a pod's networks and volumes, and every member of a started pod.
PlanExecutable ==
    phase = "planned" =>
        LET made(id, i) == resources[id].external \/ Before(Op("Create", id), i) \/ Before(Op("EnsureImage", id), i)
        IN  \A i \in DOMAIN plan :
              LET r == resources[plan[i].resource]
                  attached == {r.networks[n].network : n \in DOMAIN r.networks}
                                \cup ({r.mounts[m].source : m \in DOMAIN r.mounts} \ {0})
                  granted == {r.grants[g].source : g \in DOMAIN r.grants}
              IN  /\ plan[i].action = "Create" =>
                        \A id \in attached \cup granted \cup ({r.image, r.pod} \ {0}) : made(id, i)
                  /\ plan[i].action \in {"StartPod", "StartContainer"} =>
                        /\ made(r.id, i)
                        /\ \A id \in {r.members[m] : m \in DOMAIN r.members} : made(id, i)

\* Every managed resource is created exactly once, no external one is, every
\* container is started by exactly one operation, and a pod without members is
\* never started (ADR 0009).
PlanComplete ==
    phase = "planned" =>
        LET makes(id) == {i \in DOMAIN plan : plan[i] \in {Op("Create", id), Op("EnsureImage", id)}}
            starts(c) == {i \in DOMAIN plan : \/ plan[i] = Op("StartContainer", c)
                                              \/ /\ plan[i].action = "StartPod"
                                                 /\ c \in Elements(resources[plan[i].resource].members)}
        IN  /\ \A id \in DOMAIN resources : Cardinality(makes(id)) = IF resources[id].external THEN 0 ELSE 1
            /\ \A c \in DOMAIN resources : KindOf[c] = "container" => Cardinality(starts(c)) = 1
            /\ \A i \in DOMAIN plan :
                 plan[i].action = "StartPod" => Elements(resources[plan[i].resource].members) # {}

\* A plan is all that is needed: every resource made and every container
\* started once, each from what was made before.
PlanSufficient == PlanExecutable /\ PlanComplete

Starter(i, c) ==
    \/ plan[i] = Op("StartContainer", c)
    \/ plan[i].action = "StartPod" /\ c \in Elements(resources[plan[i].resource].members)

\* Every startup dependency of the intent is kept by the plan, also when one
\* or both of its containers start with their pods.
StartupHonoured ==
    phase = "planned" =>
        \A d \in Elements(intent.startup) :
            \A i, j \in DOMAIN plan :
                Starter(i, d.predecessor) /\ Starter(j, d.dependent) => i < j

\* Validation is complete: the ordering loop always finds a ready operation in
\* an intent that validation let through, so its error arm is never taken.
OrderingNeverStuck == phase = "order" /\ DOMAIN nodes # {} => Ready(nodes) # {}

\* Some operations that each wait for another one of them.
IsCycle(C, es) == C # {} /\ \A b \in C : \E a \in C : <<a, b>> \in es
Cyclic(es) == \E C \in SUBSET (UNION {{e[1], e[2]} : e \in es}) : IsCycle(C, es)

\* A cycle is reported exactly if the lifted startup edges have one.
CycleReportedIffReal ==
    phase \in {"planned", "rejected"} =>
        (Cyclic(StartEdges(intent, resources))
          <=> F("DeploymentCycle", 0, "startup_dependencies") \in findings)

\* Validation is exact about order: it reports a cycle exactly if there is one,
\* and what it lets through can be ordered to the end.
ValidationExact == OrderingNeverStuck /\ CycleReportedIffReal

\* Planning ends for every intent.
PlanningTerminates == <>(phase \in {"planned", "rejected"})
=============================================================================
