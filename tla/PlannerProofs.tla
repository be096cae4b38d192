--------------------------- MODULE PlannerProofs ---------------------------
(***************************************************************************)
(* Proofs about Planner, for every set of intents.                         *)
(***************************************************************************)
EXTENDS Planner, FiniteSetTheorems, WellFoundedInduction, TLAPS

\* A set of natural numbers that is not empty has a least element.
LEMMA SmallestNat ==
    ASSUME NEW S, S \subseteq Nat, S # {}
    PROVE  \E i \in S : \A j \in S : i <= j
  <1>1. PICK i \in S : \A j \in S : ~(<<j, i>> \in OpToRel(<, Nat))
    BY WFMin, NatLessThanWellFounded
  <1>2. \A j \in S : ~(j < i)
    BY <1>1 DEF OpToRel
  <1> QED BY <1>2

\* Operations on identities: the loops only ever compare these.
AreOperations(S) == \A op \in S : op.resource \in Nat

\* min_by_key finds an operation among the ready ones, if there is one.
LEMMA LeastReadyExists ==
    ASSUME NEW map, AreOperations(DOMAIN map), Ready(map) # {}
    PROVE  LeastReady(map) \in Ready(map)
  <1> DEFINE R == Ready(map)
  <1>1. R \subseteq DOMAIN map
    BY DEF Ready
  <1>2. \A op \in R : operation_rank(op) \in 0..7
    BY DEF operation_rank
  <1>3. PICK r \in {operation_rank(op) : op \in R} : \A s \in {operation_rank(op) : op \in R} : r <= s
    <2>1. {operation_rank(op) : op \in R} \subseteq Nat /\ {operation_rank(op) : op \in R} # {}
      BY <1>2
    <2> HIDE DEF R
    <2> QED BY <2>1, SmallestNat
  <1> DEFINE T == {op \in R : operation_rank(op) = r}
  <1>4. PICK n \in {op.resource : op \in T} : \A m \in {op.resource : op \in T} : n <= m
    <2>1. {op.resource : op \in T} \subseteq Nat /\ {op.resource : op \in T} # {}
      BY <1>1, <1>3 DEF AreOperations
    <2> QED BY <2>1, SmallestNat
  <1>5. PICK a \in T : a.resource = n
    BY <1>4
  <1>6. \A b \in R : ~SortsBefore(b, a)
    <2> TAKE b \in R
    <2>1. operation_rank(a) = r /\ operation_rank(b) >= r
      BY <1>2, <1>3, <1>5
    <2>2. CASE operation_rank(b) = r
      <3>1. b.resource >= a.resource
        BY <1>4, <1>5, <2>2
      <3>2. a.resource \in Nat /\ b.resource \in Nat /\ r \in 0..7
        BY <1>1, <1>2, <1>3, <1>5 DEF AreOperations
      <3> QED BY <1>5, <2>2, <3>1, <3>2 DEF SortsBefore
    <2>3. CASE operation_rank(b) # r
      BY <1>2, <1>3, <2>1, <2>3 DEF SortsBefore
    <2> QED BY <2>2, <2>3
  <1> QED BY <1>5, <1>6 DEF LeastReady

-----------------------------------------------------------------------------
(* The inductive invariant. *)

\* What is pending is what was declared and is not emitted, and it still waits
\* for exactly the dependencies that are not emitted.
PendingExact ==
    /\ DOMAIN nodes = DOMAIN declared \ Elements(plan)
    /\ \A op \in DOMAIN nodes : nodes[op] = declared[op] \ Elements(plan)

\* Before the ordering starts there is nothing to order.
NothingYet ==
    phase \in {"validate", "cycle"} => nodes = NoNodes /\ declared = NoNodes /\ plan = <<>>

IInv ==
    /\ TypeOK
    /\ DOMAIN resources \subseteq Nat
    /\ AreOperations(DOMAIN declared)
    /\ NothingYet
    /\ PendingExact
    /\ PlanOrdered

\* The indexed identities are identities.
LEMMA IndexedIds ==
    ASSUME NEW it \in Intents
    PROVE  DOMAIN index_resources(it) \subseteq Nat
  <1>1. DOMAIN index_resources(it) \subseteq DeclaredIds(it)
    BY DEF index_resources
  <1>2. DeclaredIds(it) \subseteq DOMAIN KindOf
    BY IntentsAssumption DEF DeclaredIds, Elements
  <1> QED BY <1>1, <1>2, KindsAssumption

\* Every node of the plan is an operation on an indexed resource.
LEMMA NodeOperations ==
    ASSUME NEW it, NEW res, DOMAIN res \subseteq Nat
    PROVE  AreOperations(DOMAIN OperationNodes(it, res))
  BY DEF OperationNodes, AreOperations, Op, create_operation, StartedPods, StartedContainers

\* Emitting the least ready operation keeps the plan ordered and the pending
\* operations exact.
LEMMA EmitStep ==
    ASSUME IInv, topological_operations, Ready(nodes) # {}
    PROVE  IInv'
  <1> USE DEF IInv
  <1> DEFINE op == LeastReady(nodes)
  <1>1. /\ phase = "order" /\ nodes' = Removed(nodes, op) /\ plan' = Append(plan, op)
        /\ UNCHANGED <<intent, phase, resources, findings, edges, declared>>
    BY DEF topological_operations
  <1>2. op \in DOMAIN nodes /\ nodes[op] = {}
    <2>1. AreOperations(DOMAIN nodes)
      BY DEF AreOperations, PendingExact
    <2>2. op \in Ready(nodes)
      BY <2>1, LeastReadyExists
    <2> QED BY <2>2 DEF Ready
  <1>3. op \in DOMAIN declared /\ op \notin Elements(plan) /\ declared[op] \subseteq Elements(plan)
    BY <1>2 DEF PendingExact
  <1>4. plan \in Seq(DOMAIN declared) /\ plan' \in Seq(DOMAIN declared)
    BY <1>1, <1>3 DEF TypeOK
  <1>5. /\ DOMAIN plan' = 1..(Len(plan) + 1)
        /\ \A i \in DOMAIN plan : plan'[i] = plan[i]
        /\ plan'[Len(plan) + 1] = op
    BY <1>1, <1>4
  <1>6. Elements(plan') = Elements(plan) \cup {op}
    BY <1>4, <1>5 DEF Elements
  <1>7. PendingExact'
    BY <1>1, <1>6 DEF PendingExact, Removed
  <1>8. TypeOK'
    BY <1>1, <1>4 DEF TypeOK, Removed
  <1>9. PlanOrdered'
    <2>1. \A i \in DOMAIN plan' : declared[plan'[i]] \subseteq {plan'[j] : j \in 1..(i - 1)}
      <3> TAKE i \in DOMAIN plan'
      <3>1. CASE i \in DOMAIN plan
        <4>1. declared[plan[i]] \subseteq {plan[j] : j \in 1..(i - 1)}
          BY <3>1 DEF PlanOrdered
        <4>2. \A j \in 1..(i - 1) : j \in DOMAIN plan
          BY <1>4, <3>1
        <4> QED BY <1>5, <3>1, <4>1, <4>2
      <3>2. CASE i = Len(plan) + 1
        <4>1. \A j \in DOMAIN plan : j \in 1..(i - 1)
          BY <1>4, <3>2
        <4>2. Elements(plan) \subseteq {plan'[j] : j \in 1..(i - 1)}
          BY <1>5, <4>1 DEF Elements
        <4> QED BY <1>3, <1>5, <3>2, <4>2
      <3> QED BY <1>4, <1>5, <3>1, <3>2
    <2>2. \A i, j \in DOMAIN plan' : plan'[i] = plan'[j] => i = j
      BY <1>3, <1>4, <1>5 DEF PlanOrdered, Elements
    <2> QED BY <1>1, <1>7, <2>1, <2>2 DEF PlanOrdered, PendingExact
  <1> QED BY <1>1, <1>7, <1>8, <1>9 DEF NothingYet

\* The invariant is inductive: one step per action.
LEMMA IInvInductive ==
    ASSUME IInv, [Next]_vars
    PROVE  IInv'
  <1> USE DEF IInv
  <1>1. CASE Validate
    <2>1. DOMAIN resources' \subseteq Nat
      BY <1>1, IndexedIds DEF Validate, TypeOK
    <2>2. /\ phase = "validate" /\ phase' = "cycle"
          /\ UNCHANGED <<intent, nodes, declared, plan>>
      BY <1>1 DEF Validate
    <2> QED BY <2>1, <2>2 DEF TypeOK, NothingYet, PendingExact, PlanOrdered, Elements
  <1>2. CASE operation_cycle
    <2>1. UNCHANGED <<intent, phase, resources, nodes, declared, plan>>
      BY <1>2 DEF operation_cycle
    <2> QED BY <2>1 DEF TypeOK, NothingYet, PendingExact, PlanOrdered, Elements
  <1>3. CASE BuildNodes
    <2>1. phase = "cycle" /\ plan = <<>> /\ UNCHANGED <<intent, resources, plan>>
      BY <1>3 DEF BuildNodes, NothingYet
    <2>2. CASE findings' = {}
      <3>1. phase' = "order" /\ nodes' = OperationNodes(intent, resources) /\ declared' = nodes'
        BY <1>3, <2>2 DEF BuildNodes
      <3>2. AreOperations(DOMAIN declared')
        BY <3>1, NodeOperations
      <3>3. Elements(plan') = {} /\ DOMAIN plan' = {} /\ plan' \in Seq(DOMAIN declared')
        BY <2>1 DEF Elements
      <3> QED BY <2>1, <3>1, <3>2, <3>3 DEF TypeOK, NothingYet, PendingExact, PlanOrdered
    <2>3. CASE findings' # {}
      <3>1. phase' = "rejected" /\ UNCHANGED <<nodes, declared>>
        BY <1>3, <2>3 DEF BuildNodes
      <3> QED BY <2>1, <3>1 DEF TypeOK, NothingYet, PendingExact, PlanOrdered, Elements
    <2> QED BY <2>2, <2>3
  <1>4. CASE topological_operations
    <2>1. CASE Ready(nodes) # {}
      BY <1>4, <2>1, EmitStep
    <2>2. CASE Ready(nodes) = {}
      <3>1. phase' = "rejected" /\ UNCHANGED <<intent, resources, nodes, declared, plan>>
        BY <1>4, <2>2 DEF topological_operations
      <3> QED BY <3>1 DEF TypeOK, NothingYet, PendingExact, PlanOrdered, Elements
    <2> QED BY <2>1, <2>2
  <1>5. CASE FinishPlan
    <2>1. phase' = "planned" /\ UNCHANGED <<intent, resources, nodes, declared, plan>>
      BY <1>5 DEF FinishPlan
    <2> QED BY <2>1 DEF TypeOK, NothingYet, PendingExact, PlanOrdered, Elements
  <1>6. CASE UNCHANGED vars
    BY <1>6 DEF vars, TypeOK, NothingYet, PendingExact, PlanOrdered, Elements
  <1> QED BY <1>1, <1>2, <1>3, <1>4, <1>5, <1>6 DEF Next

\* The invariant holds of every intent before planning starts.
LEMMA IInvInitially == Init => IInv
  BY DEF Init, IInv, TypeOK, AreOperations, NothingYet, PendingExact, PlanOrdered, Elements, NoNodes

\* The maps of the planner stay maps of declared operations, for every intent.
THEOREM PlannerTypeCorrect == Spec => []TypeOK
  <1>1. IInv => TypeOK
    BY DEF IInv
  <1> QED BY <1>1, IInvInitially, IInvInductive, PTL DEF Spec

\* At every moment of every planning run, each emitted operation follows all
\* the operations it declares as dependencies, and none is emitted twice.
THEOREM AlwaysPlanOrdered == Spec => []PlanOrdered
  <1>1. IInv => PlanOrdered
    BY DEF IInv
  <1> QED BY <1>1, IInvInitially, IInvInductive, PTL DEF Spec

-----------------------------------------------------------------------------
(* What validation establishes. *)

\* The indexed declarations have the shape of the intents they come from.
WellFormed(res) ==
    \A id \in DOMAIN res :
        /\ id \in Nat \ {0} /\ res[id].id = id /\ res[id].kind = KindOf[id]
        /\ res[id].external \in BOOLEAN
        /\ res[id].external => KindOf[id] \notin {"container", "pod"}
        /\ res[id].members \in Seq(Nat)
        /\ KindOf[id] \notin {"container", "pod"} => res[id].networks = <<>> /\ res[id].mounts = <<>>
        /\ KindOf[id] # "container" => res[id].image = 0 /\ res[id].pod = 0 /\ res[id].grants = <<>>
        /\ KindOf[id] # "pod" => res[id].members = <<>>

\* index_resources keeps only declarations, each under its identity.
LEMMA IndexWellFormed ==
    ASSUME NEW it \in Intents
    PROVE  WellFormed(index_resources(it))
  <1> DEFINE res == index_resources(it)
  <1>1. ASSUME NEW id \in DOMAIN res
        PROVE  \E i \in DOMAIN it.resources : res[id] = it.resources[i] /\ res[id].id = id
    <2>1. id \in DeclaredIds(it) /\ res[id] = CHOOSE r \in Declarations(it, id) : TRUE
      BY DEF index_resources
    <2>2. \E r \in Declarations(it, id) : TRUE
      BY <2>1 DEF DeclaredIds, Declarations
    <2>3. res[id] \in Declarations(it, id)
      BY <2>1, <2>2
    <2> QED BY <2>3 DEF Declarations, Elements
  <1> HIDE DEF res
  <1>2. ASSUME NEW id \in DOMAIN res
        PROVE  /\ id \in Nat \ {0} /\ res[id].id = id /\ res[id].kind = KindOf[id]
               /\ res[id].external \in BOOLEAN
               /\ res[id].external => KindOf[id] \notin {"container", "pod"}
               /\ res[id].members \in Seq(Nat)
               /\ KindOf[id] \notin {"container", "pod"} => res[id].networks = <<>> /\ res[id].mounts = <<>>
               /\ KindOf[id] # "container" => res[id].image = 0 /\ res[id].pod = 0 /\ res[id].grants = <<>>
               /\ KindOf[id] # "pod" => res[id].members = <<>>
    <2>1. PICK i \in DOMAIN it.resources : res[id] = it.resources[i] /\ res[id].id = id
      BY <1>1
    <2>2. res[id].id \in DOMAIN KindOf /\ res[id].kind = KindOf[res[id].id]
      BY <2>1, IntentsAssumption
    <2> QED BY <2>1, <2>2, IntentsAssumption, KindsAssumption
  <1>3. WellFormed(res)
    BY <1>2 DEF WellFormed
  <1> QED BY <1>3 DEF res

\* What a managed resource refers to is declared and of the right kind, and
\* pods and containers agree on membership.
Sound(res) ==
    \A id \in DOMAIN res : ~res[id].external =>
        /\ \A x \in References(res[id]) :
              /\ x \in DOMAIN res
              /\ KindOf[x] \in {"image", "pod", "network", "volume", "secret"}
              /\ KindOf[id] = "pod" => KindOf[x] \in {"network", "volume"}
        /\ \A m \in Elements(res[id].members) :
              KindOf[id] = "pod" => m \in DOMAIN res /\ KindOf[m] = "container" /\ res[m].pod = id
        /\ KindOf[id] = "container" /\ res[id].pod # 0 =>
              /\ res[id].pod \in DOMAIN res /\ KindOf[res[id].pod] = "pod"
              /\ id \in Elements(res[res[id].pod].members)

\* A reference that require_resolved does not report is declared.
LEMMA NotReported ==
    ASSUME NEW res, NEW ref, NEW kind, NEW subject, NEW field,
           require_resolved(res, ref, kind, subject, field) = {}
    PROVE  ref \in DOMAIN res /\ KindOf[ref] = kind
  BY DEF require_resolved, When, resolved

\* Mounted volumes are declared volumes unless validate_mounts reports one.
LEMMA MountsSound ==
    ASSUME NEW res, NEW r, NEW field, validate_mounts(res, r, field) = {}
    PROVE  \A s \in Sources(r) : s \in DOMAIN res /\ KindOf[s] = "volume"
  <1>1. \A s \in Sources(r) : require_resolved(res, s, "volume", r.id, field) = {}
    BY DEF validate_mounts
  <1> QED BY <1>1, NotReported

\* Granted secrets likewise.
LEMMA GrantsSound ==
    ASSUME NEW res, NEW r, validate_secret_grants(res, r) = {}
    PROVE  \A g \in Elements(r.grants) : g.source \in DOMAIN res /\ KindOf[g.source] = "secret"
  <1>1. \A g \in Elements(r.grants) : require_resolved(res, g.source, "secret", r.id, "secret_grants") = {}
    BY DEF validate_secret_grants
  <1> QED BY <1>1, NotReported

\* A pod without findings.
LEMMA PodSound ==
    ASSUME NEW res, NEW pod, NEW rootful, validate_pod(res, pod, rootful) = {}, pod.kind = "pod"
    PROVE  /\ \A x \in References(pod) : x \in DOMAIN res /\ KindOf[x] \in {"network", "volume"}
           /\ \A m \in Elements(pod.members) :
                 m \in DOMAIN res /\ KindOf[m] = "container" /\ res[m].pod = pod.id
  <1>1. validate_mounts(res, pod, "infra_mounts") = {}
    BY DEF validate_pod
  <1>2. UNION {require_resolved(res, n, "network", pod.id, "networks") : n \in Networks(pod)} = {}
    BY DEF validate_pod
  <1>3. When(\E m \in Elements(pod.members) : ~(resolved(res, m, "container") /\ res[m].pod = pod.id),
             F("DeploymentPodMembership", pod.id, "members")) = {}
    BY DEF validate_pod
  <1>4. \A n \in Networks(pod) : n \in DOMAIN res /\ KindOf[n] = "network"
    <2>1. \A n \in Networks(pod) : require_resolved(res, n, "network", pod.id, "networks") = {}
      BY <1>2
    <2> QED BY <2>1, NotReported
  <1>5. \A s \in Sources(pod) : s \in DOMAIN res /\ KindOf[s] = "volume"
    BY <1>1, MountsSound
  <1> QED BY <1>3, <1>4, <1>5 DEF References, When, resolved

\* A container without findings.
LEMMA ContainerSound ==
    ASSUME NEW res, NEW c, NEW rootful, validate_container(res, c, rootful) = {}, c.kind = "container"
    PROVE  /\ \A x \in References(c) :
                 x \in DOMAIN res /\ KindOf[x] \in {"image", "pod", "network", "volume", "secret"}
           /\ c.pod # 0 => /\ c.pod \in DOMAIN res /\ KindOf[c.pod] = "pod"
                           /\ c.id \in Elements(res[c.pod].members)
  <1>1. /\ validate_mounts(res, c, "mounts") = {} /\ validate_secret_grants(res, c) = {}
        /\ require_resolved(res, c.image, "image", c.id, "image") = {}
        /\ validate_pod_member(res, c) = {}
    BY DEF validate_container
  <1>2. UNION {require_resolved(res, n, "network", c.id, "networks") : n \in Networks(c)} = {}
    BY DEF validate_container
  <1>3. \A n \in Networks(c) : n \in DOMAIN res /\ KindOf[n] = "network"
    <2>1. \A n \in Networks(c) : require_resolved(res, n, "network", c.id, "networks") = {}
      BY <1>2
    <2> QED BY <2>1, NotReported
  <1>4. \A s \in Sources(c) : s \in DOMAIN res /\ KindOf[s] = "volume"
    BY <1>1, MountsSound
  <1>5. \A g \in Elements(c.grants) : g.source \in DOMAIN res /\ KindOf[g.source] = "secret"
    BY <1>1, GrantsSound
  <1>6. c.image \in DOMAIN res /\ KindOf[c.image] = "image"
    BY <1>1, NotReported
  <1>7. c.pod # 0 => /\ c.pod \in DOMAIN res /\ KindOf[c.pod] = "pod"
                     /\ c.id \in Elements(res[c.pod].members)
    <2>1. SUFFICES ASSUME c.pod # 0
                   PROVE  c.pod \in DOMAIN res /\ KindOf[c.pod] = "pod" /\ c.id \in Elements(res[c.pod].members)
      OBVIOUS
    <2>2. /\ require_resolved(res, c.pod, "pod", c.id, "pod") = {}
          /\ When(resolved(res, c.pod, "pod") /\ c.id \notin Elements(res[c.pod].members),
                  F("DeploymentPodMembership", c.id, "pod")) = {}
      BY <1>1, <2>1 DEF validate_pod_member
    <2>3. c.pod \in DOMAIN res /\ KindOf[c.pod] = "pod"
      BY <2>2, NotReported
    <2> QED BY <2>2, <2>3 DEF When, resolved
  <1> QED BY <1>3, <1>4, <1>5, <1>6, <1>7 DEF References

\* Validation without findings makes the declarations sound.
LEMMA ValidatedSound ==
    ASSUME NEW res, NEW rootful, WellFormed(res), validate_resources(res, rootful) = {}
    PROVE  Sound(res)
  <1>1. SUFFICES ASSUME NEW id \in DOMAIN res, ~res[id].external
                 PROVE  /\ \A x \in References(res[id]) :
                              /\ x \in DOMAIN res
                              /\ KindOf[x] \in {"image", "pod", "network", "volume", "secret"}
                              /\ KindOf[id] = "pod" => KindOf[x] \in {"network", "volume"}
                        /\ \A m \in Elements(res[id].members) :
                              KindOf[id] = "pod" => m \in DOMAIN res /\ KindOf[m] = "container" /\ res[m].pod = id
                        /\ KindOf[id] = "container" /\ res[id].pod # 0 =>
                              /\ res[id].pod \in DOMAIN res /\ KindOf[res[id].pod] = "pod"
                              /\ id \in Elements(res[res[id].pod].members)
    BY DEF Sound
  <1>2. res[id].kind = KindOf[id] /\ res[id].id = id
    BY DEF WellFormed
  <1>3. CASE KindOf[id] = "pod"
    <2>1. validate_pod(res, res[id], rootful) = {}
      BY <1>1, <1>2, <1>3 DEF validate_resources
    <2> QED BY <1>2, <1>3, <2>1, PodSound
  <1>4. CASE KindOf[id] = "container"
    <2>1. validate_container(res, res[id], rootful) = {}
      BY <1>1, <1>2, <1>4 DEF validate_resources
    <2> QED BY <1>2, <1>4, <2>1, ContainerSound
  <1>5. CASE KindOf[id] \notin {"pod", "container"}
    BY <1>2, <1>5 DEF References
  <1> QED BY <1>3, <1>4, <1>5

-----------------------------------------------------------------------------
(* The nodes of a validated intent. *)

Managed(res) == {id \in DOMAIN res : ~res[id].external}

\* The operations that start something.
StartOperations(res) ==
    {Op("StartPod", id) : id \in StartedPods(res)}
        \cup {Op("StartContainer", id) : id \in StartedContainers(res)}

Waits(it, res, op) == Predecessors(Elements(LiftedEdges(it, res)), op)

\* The nodes are the creates of the managed resources and the starts.
LEMMA NodeDomain ==
    ASSUME NEW it, NEW res
    PROVE  DOMAIN OperationNodes(it, res) =
             {create_operation(id) : id \in Managed(res)} \cup StartOperations(res)
  BY DEF OperationNodes, Managed, StartOperations

\* A create is never a start.
LEMMA CreatesAndStarts ==
    ASSUME NEW res
    PROVE  /\ \A id : create_operation(id).resource = id
                      /\ create_operation(id).action \in {"Create", "EnsureImage"}
           /\ \A op \in StartOperations(res) : op.action \in {"StartPod", "StartContainer"}
           /\ \A id : create_operation(id) \notin StartOperations(res)
  <1>1. \A id : create_operation(id).resource = id
                /\ create_operation(id).action \in {"Create", "EnsureImage"}
    BY DEF create_operation, Op
  <1>2. \A op \in StartOperations(res) : op.action \in {"StartPod", "StartContainer"}
    BY DEF StartOperations, Op
  <1> QED BY <1>1, <1>2

\* What a create waits for.
LEMMA CreateNode ==
    ASSUME NEW it, NEW res, NEW id \in Managed(res)
    PROVE  /\ create_operation(id) \in DOMAIN OperationNodes(it, res)
           /\ OperationNodes(it, res)[create_operation(id)] =
                create_dependencies(res, res[id]) \cup Waits(it, res, create_operation(id))
  <1>1. create_operation(id) \in {create_operation(x) : x \in {y \in DOMAIN res : ~res[y].external}}
    BY DEF Managed
  <1>2. create_operation(id).resource = id
    BY CreatesAndStarts
  <1> QED BY <1>1, <1>2 DEF OperationNodes, Waits

\* What the start of a container waits for.
LEMMA StartContainerNode ==
    ASSUME NEW it, NEW res, NEW id \in StartedContainers(res)
    PROVE  /\ Op("StartContainer", id) \in DOMAIN OperationNodes(it, res)
           /\ OperationNodes(it, res)[Op("StartContainer", id)] =
                {create_operation(id)} \cup Waits(it, res, Op("StartContainer", id))
  <1> DEFINE op == Op("StartContainer", id)
  <1>1. op \in StartOperations(res) /\ op.resource = id
    BY DEF StartOperations, Op
  <1>2. op \notin {create_operation(x) : x \in {y \in DOMAIN res : ~res[y].external}}
    BY <1>1, CreatesAndStarts
  <1>3. op \notin {Op("StartPod", x) : x \in StartedPods(res)}
    BY DEF Op
  <1>4. op \in {Op("StartContainer", x) : x \in StartedContainers(res)}
    OBVIOUS
  <1> HIDE DEF op
  <1> QED BY <1>1, <1>2, <1>3, <1>4 DEF OperationNodes, Waits, op

\* What the start of a pod waits for: its create and its members' creates.
LEMMA StartPodNode ==
    ASSUME NEW it, NEW res, NEW id \in StartedPods(res)
    PROVE  /\ Op("StartPod", id) \in DOMAIN OperationNodes(it, res)
           /\ OperationNodes(it, res)[Op("StartPod", id)] =
                {create_operation(id)}
                  \cup {create_operation(m) : m \in {x \in Elements(res[id].members) : is_managed(res, x)}}
                  \cup Waits(it, res, Op("StartPod", id))
  <1> DEFINE op == Op("StartPod", id)
  <1>1. op \in StartOperations(res) /\ op.resource = id
    BY DEF StartOperations, Op
  <1>2. op \notin {create_operation(x) : x \in {y \in DOMAIN res : ~res[y].external}}
    BY <1>1, CreatesAndStarts
  <1>3. op \in {Op("StartPod", x) : x \in StartedPods(res)}
    OBVIOUS
  <1> HIDE DEF op
  <1> QED BY <1>1, <1>2, <1>3 DEF OperationNodes, Waits, op

\* The anchor of a container is a start of the plan: its own, or its pod's.
LEMMA AnchorIsStart ==
    ASSUME NEW res, WellFormed(res), Sound(res), NEW c, NEW a \in start_anchor(res, c)
    PROVE  /\ a \in StartOperations(res)
           /\ start_anchor(res, c) = {a}
           /\ c \in DOMAIN res
  <1>1. c \in DOMAIN res /\ KindOf[c] = "container" /\ res[c].kind = "container" /\ ~res[c].external
    BY DEF start_anchor, WellFormed
  <1>2. CASE res[c].pod = 0
    BY <1>1, <1>2 DEF start_anchor, StartOperations, StartedContainers
  <1>3. CASE res[c].pod # 0
    <2> DEFINE p == res[c].pod
    <2>1. p \in DOMAIN res /\ KindOf[p] = "pod" /\ c \in Elements(res[p].members)
      BY <1>1, <1>3 DEF Sound
    <2>2. res[p].kind = "pod" /\ res[p].members # <<>>
      BY <2>1 DEF WellFormed, Elements
    <2>3. start_anchor(res, c) = {Op("StartPod", p)}
      BY <1>1, <1>3, <2>1 DEF start_anchor, resolved
    <2> QED BY <1>1, <2>1, <2>2, <2>3 DEF StartOperations, StartedPods
  <1> QED BY <1>2, <1>3

\* Every startup dependency without findings is lifted, between two starts
\* that are not one pod's.
LEMMA EveryDependencyLifted ==
    ASSUME NEW it, NEW res, validate_startup_findings(it, res) = {}, NEW i \in DOMAIN it.startup
    PROVE  /\ i \in DOMAIN LiftedEdges(it, res)
           /\ LiftedEdges(it, res)[i] \in start_anchor(res, it.startup[i].predecessor)
                                            \X start_anchor(res, it.startup[i].dependent)
           /\ ~SamePod(LiftedEdges(it, res)[i])
  <1> DEFINE A == start_anchor(res, it.startup[i].predecessor)
             B == start_anchor(res, it.startup[i].dependent)
  <1>1. A # {} /\ B # {}
    <2>1. it.startup[i] \in Elements(it.startup)
      BY DEF Elements
    <2>2. \A d \in Elements(it.startup) :
            /\ When(start_anchor(res, d.predecessor) = {},
                    F("DeploymentUnresolvedPrerequisite", d.predecessor, "startup_dependencies")) = {}
            /\ When(start_anchor(res, d.dependent) = {},
                    F("DeploymentUnresolvedPrerequisite", d.dependent, "startup_dependencies")) = {}
      BY DEF validate_startup_findings
    <2> QED BY <2>1, <2>2 DEF When
  <1>2. A \X B # {}
    <2>1. PICK a \in A, b \in B : TRUE
      BY <1>1
    <2>2. <<a, b>> \in A \X B
      BY <2>1
    <2> QED BY <2>2
  <1>3. i \in DOMAIN LiftedEdges(it, res)
    BY <1>2 DEF LiftedEdges
  <1>4. LiftedEdges(it, res)[i] = CHOOSE e \in A \X B : TRUE
    BY <1>2 DEF LiftedEdges
  <1>5. LiftedEdges(it, res)[i] \in A \X B
    BY <1>2, <1>4
  <1>6. ~SamePod(LiftedEdges(it, res)[i])
    <2>1. {F("SamePodStartupDependency", it.startup[j].dependent, "startup_dependencies") :
             j \in {k \in DOMAIN LiftedEdges(it, res) : SamePod(LiftedEdges(it, res)[k])}} = {}
      BY DEF validate_startup_findings
    <2> QED BY <1>3, <2>1
  <1> QED BY <1>3, <1>5, <1>6

\* So what a validated operation waits for at startup are starts, and the
\* cycle check saw every such edge.
LEMMA WaitsAreEdges ==
    ASSUME NEW it, NEW res, WellFormed(res), Sound(res), validate_startup_findings(it, res) = {},
           NEW op, NEW a \in Waits(it, res, op)
    PROVE  /\ a \in StartOperations(res) /\ op \in StartOperations(res)
           /\ <<a, op>> \in StartEdges(it, res)
  <1>1. PICK e \in Elements(LiftedEdges(it, res)) : e[1] = a /\ e[2] = op
    BY DEF Waits, Predecessors
  <1>2. PICK i \in DOMAIN LiftedEdges(it, res) : LiftedEdges(it, res)[i] = e
    BY <1>1 DEF Elements
  <1>3. i \in DOMAIN it.startup
    BY <1>2 DEF LiftedEdges
  <1>4. /\ e \in start_anchor(res, it.startup[i].predecessor) \X start_anchor(res, it.startup[i].dependent)
        /\ ~SamePod(e)
    BY <1>2, <1>3, EveryDependencyLifted
  <1>5. e = <<a, op>> /\ a \in start_anchor(res, it.startup[i].predecessor)
        /\ op \in start_anchor(res, it.startup[i].dependent)
    BY <1>1, <1>4
  <1> QED BY <1>1, <1>4, <1>5, AnchorIsStart DEF StartEdges

\* Every dependency of a validated node is a node.
LEMMA NodesClosed ==
    ASSUME NEW it, NEW res, WellFormed(res), Sound(res), validate_startup_findings(it, res) = {},
           NEW op \in DOMAIN OperationNodes(it, res), NEW d \in OperationNodes(it, res)[op]
    PROVE  d \in DOMAIN OperationNodes(it, res)
  <1>0. \A x : x \in DOMAIN res /\ is_managed(res, x) =>
               create_operation(x) \in DOMAIN OperationNodes(it, res)
    BY CreateNode DEF Managed, is_managed
  <1>1. CASE d \in Waits(it, res, op)
    BY <1>1, WaitsAreEdges, NodeDomain
  <1>2. CASE op \in {create_operation(id) : id \in Managed(res)} /\ d \notin Waits(it, res, op)
    <2>1. PICK id \in Managed(res) : op = create_operation(id)
      BY <1>2
    <2>2. d \in create_dependencies(res, res[id])
      BY <1>2, <2>1, CreateNode
    <2>3. PICK x \in References(res[id]) : is_managed(res, x) /\ d = create_operation(x)
      BY <2>2 DEF create_dependencies
    <2>4. x \in DOMAIN res
      BY <2>1, <2>3 DEF Sound, Managed
    <2> QED BY <1>0, <2>3, <2>4
  <1>3. CASE op \in StartOperations(res) /\ d \notin Waits(it, res, op)
    <2>1. CASE \E id \in StartedContainers(res) : op = Op("StartContainer", id)
      <3>1. PICK id \in StartedContainers(res) : op = Op("StartContainer", id)
        BY <2>1
      <3>2. d = create_operation(id)
        BY <1>3, <3>1, StartContainerNode
      <3>3. id \in DOMAIN res /\ ~res[id].external
        BY DEF StartedContainers, WellFormed
      <3> QED BY <1>0, <3>2, <3>3 DEF is_managed
    <2>2. CASE \E id \in StartedPods(res) : op = Op("StartPod", id)
      <3>1. PICK id \in StartedPods(res) : op = Op("StartPod", id)
        BY <2>2
      <3>2. id \in DOMAIN res /\ ~res[id].external /\ KindOf[id] = "pod"
        BY DEF StartedPods, WellFormed
      <3>3. d = create_operation(id) \/ \E m \in Elements(res[id].members) :
                                            is_managed(res, m) /\ d = create_operation(m)
        BY <1>3, <3>1, StartPodNode
      <3>4. \A m \in Elements(res[id].members) : m \in DOMAIN res
        BY <3>2 DEF Sound
      <3> QED BY <1>0, <3>2, <3>3, <3>4 DEF is_managed
    <2> QED BY <1>3, <2>1, <2>2 DEF StartOperations
  <1> QED BY <1>1, <1>2, <1>3, NodeDomain

-----------------------------------------------------------------------------
(* Cycles. *)

NotCycle(S) == \A f \in S : f.code # "DeploymentCycle"

\* A single finding, or none.
LEMMA WhenCode ==
    ASSUME NEW condition, NEW code, NEW subject, NEW field, code # "DeploymentCycle"
    PROVE  NotCycle(When(condition, F(code, subject, field)))
  BY DEF NotCycle, When, F

\* Unresolved prerequisites are reported as such.
LEMMA ResolvedCode ==
    ASSUME NEW res, NEW ref, NEW kind, NEW subject, NEW field
    PROVE  NotCycle(require_resolved(res, ref, kind, subject, field))
  BY WhenCode DEF require_resolved

\* The validators of pods and containers report other codes.
LEMMA ValidatorCodes ==
    ASSUME NEW res, NEW r, NEW rootful
    PROVE  NotCycle(validate_pod(res, r, rootful)) /\ NotCycle(validate_container(res, r, rootful))
  <1>1. NotCycle(validate_network_attachments(r))
    BY WhenCode DEF validate_network_attachments
  <1>2. NotCycle(validate_static_network_addresses(r, rootful))
    BY DEF NotCycle, validate_static_network_addresses, F
  <1>3. \A field : NotCycle(validate_mounts(res, r, field))
    <2> TAKE field
    <2>1. NotCycle(When(Repeats([i \in DOMAIN r.mounts |-> r.mounts[i].destination]),
                        F("DeploymentDuplicateResource", r.id, field)))
      BY WhenCode
    <2>2. \A s \in Sources(r) : NotCycle(require_resolved(res, s, "volume", r.id, field))
      BY ResolvedCode
    <2> QED BY <2>1, <2>2 DEF NotCycle, validate_mounts
  <1>4. NotCycle(validate_secret_grants(res, r))
    <2>1. \A g \in Elements(r.grants) : NotCycle(require_resolved(res, g.source, "secret", r.id, "secret_grants"))
      BY ResolvedCode
    <2>2. \A S : NotCycle({F("DeploymentDuplicateResource", r.id, r.grants[i].target.field) : i \in S})
      BY DEF NotCycle, F
    <2> QED BY <2>1, <2>2 DEF NotCycle, validate_secret_grants
  <1>5. \A subject, field : \A n \in Networks(r) :
           NotCycle(require_resolved(res, n, "network", subject, field))
    BY ResolvedCode
  <1>6. NotCycle(validate_pod_member(res, r))
    <2>1. /\ NotCycle({F("DeploymentUnsupportedCombination", r.id, x) : x \in r.exclusive})
          /\ NotCycle(When(r.networks # <<>>, F("DeploymentUnsupportedCombination", r.id, "networks")))
          /\ NotCycle(When(r.network_order # <<>>, F("DeploymentUnsupportedCombination", r.id, "network_order")))
          /\ NotCycle(require_resolved(res, r.pod, "pod", r.id, "pod"))
          /\ NotCycle(When(resolved(res, r.pod, "pod") /\ r.id \notin Elements(res[r.pod].members),
                           F("DeploymentPodMembership", r.id, "pod")))
      BY WhenCode, ResolvedCode DEF NotCycle, F
    <2> QED BY <2>1 DEF NotCycle, validate_pod_member
  <1>7. NotCycle(validate_network_order(r))
    BY WhenCode DEF validate_network_order
  <1>8. NotCycle({F("DeploymentUnsupportedCombination", r.id, x) : x \in r.unsupported})
    BY DEF NotCycle, F
  <1>9. NotCycle(validate_container(res, r, rootful))
    <2>1. NotCycle(require_resolved(res, r.image, "image", r.id, "image"))
      BY ResolvedCode
    <2> QED BY <1>1, <1>2, <1>3, <1>4, <1>5, <1>6, <1>7, <1>8, <2>1 DEF NotCycle, validate_container
  <1>10. NotCycle(validate_pod(res, r, rootful))
    <2>1. /\ NotCycle(When(Repeats(r.members), F("DeploymentDuplicateResource", r.id, "members")))
          /\ NotCycle(When(\E m \in Elements(r.members) : ~(resolved(res, m, "container") /\ res[m].pod = r.id),
                           F("DeploymentPodMembership", r.id, "members")))
      BY WhenCode
    <2>2. NotCycle(validate_mounts(res, r, "infra_mounts"))
      BY <1>3
    <2>3. NotCycle(UNION {require_resolved(res, n, "network", r.id, "networks") : n \in Networks(r)})
      BY <1>5 DEF NotCycle
    <2> QED BY <1>1, <1>2, <2>1, <2>2, <2>3 DEF NotCycle, validate_pod
  <1> QED BY <1>9, <1>10

\* Everything Validate reports.
ValidationFindings(it, res) ==
    UNION {index_findings(it), validate_resources(res, it.rootful), validate_startup_findings(it, res)}

\* Only the cycle check reports a cycle.
LEMMA OnlyLoopReportsCycles ==
    ASSUME NEW it, NEW res
    PROVE  NotCycle(ValidationFindings(it, res))
  <1>1. NotCycle(index_findings(it))
    <2>1. \A c, s, id : /\ NotCycle(When(c, F("DeploymentDuplicateResource", id, "resources")))
                       /\ NotCycle(When(s, F("DeploymentConflictingResource", id, "resources")))
      BY WhenCode
    <2> QED BY <2>1 DEF NotCycle, index_findings
  <1>2. NotCycle(validate_resources(res, it.rootful))
    <2>1. \A r : NotCycle(When(~r.material, F("SensitivePayloadEmbedded", r.id, "material")))
      BY WhenCode
    <2> QED BY <2>1, ValidatorCodes DEF NotCycle, validate_resources
  <1>3. NotCycle(validate_startup_findings(it, res))
    BY DEF NotCycle, validate_startup_findings, When, F
  <1> QED BY <1>1, <1>2, <1>3 DEF NotCycle, ValidationFindings

\* Both ends of every edge.
Ends(es) == UNION {{e[1], e[2]} : e \in es}

\* The cycle check has removed no operation of a cycle, and what is left waits
\* for exactly its predecessors that are left.
EdgesExact(es) ==
    /\ DOMAIN edges \subseteq Ends(es)
    /\ \A op \in DOMAIN edges : edges[op] = Predecessors(es, op) \cap DOMAIN edges
    /\ \A C \in SUBSET Ends(es) : IsCycle(C, es) => C \subseteq DOMAIN edges

\* The map the loop starts with is exact.
LEMMA EdgesInitially ==
    ASSUME NEW es, edges' = EdgeMap(es)
    PROVE  EdgesExact(es)'
  <1>1. DOMAIN EdgeMap(es) = Ends(es)
    BY DEF EdgeMap, Ends
  <1>2. \A op \in Ends(es) : EdgeMap(es)[op] = Predecessors(es, op) /\ Predecessors(es, op) \subseteq Ends(es)
    BY DEF EdgeMap, Ends, Predecessors
  <1> QED BY <1>1, <1>2 DEF EdgesExact

\* Removing an operation that waits for nothing keeps the map exact.
LEMMA EdgesStep ==
    ASSUME NEW es, \A e \in es : e = <<e[1], e[2]>>, EdgesExact(es),
           NEW op \in DOMAIN edges, edges[op] = {}, edges' = Removed(edges, op)
    PROVE  EdgesExact(es)'
  <1>1. DOMAIN edges' = DOMAIN edges \ {op} /\ \A x \in DOMAIN edges' : edges'[x] = edges[x] \ {op}
    BY DEF Removed
  <1>2. ASSUME NEW C \in SUBSET Ends(es), IsCycle(C, es)
        PROVE  op \notin C
    <2>1. SUFFICES ASSUME op \in C PROVE FALSE
      OBVIOUS
    <2>2. PICK a \in C : <<a, op>> \in es
      BY <1>2, <2>1 DEF IsCycle
    <2>3. a \in DOMAIN edges
      BY <1>2 DEF EdgesExact
    <2>4. a \in Predecessors(es, op)
      <3> DEFINE e == <<a, op>>
      <3>1. e \in es /\ e[1] = a /\ e[2] = op
        BY <2>2
      <3> QED BY <3>1 DEF Predecessors
    <2> QED BY <2>3, <2>4 DEF EdgesExact
  <1>3. \A x \in DOMAIN edges' : edges'[x] = Predecessors(es, x) \cap DOMAIN edges'
    BY <1>1 DEF EdgesExact
  <1> QED BY <1>1, <1>2, <1>3 DEF EdgesExact

\* The loop stops with something left exactly if there is a cycle.
LEMMA LeftIsCycle ==
    ASSUME NEW es, \A e \in es : e = <<e[1], e[2]>>, EdgesExact(es), Ready(edges) = {}
    PROVE  Cyclic(es) <=> DOMAIN edges # {}
  <1>1. ASSUME Cyclic(es) PROVE DOMAIN edges # {}
    <2>1. PICK C \in SUBSET Ends(es) : IsCycle(C, es)
      BY <1>1 DEF Cyclic, Ends
    <2> QED BY <2>1 DEF EdgesExact, IsCycle
  <1>2. ASSUME DOMAIN edges # {} PROVE Cyclic(es)
    <2>1. ASSUME NEW b \in DOMAIN edges PROVE \E a \in DOMAIN edges : <<a, b>> \in es
      <3>1. edges[b] # {}
        BY DEF Ready
      <3>2. PICK a \in DOMAIN edges : a \in Predecessors(es, b)
        BY <3>1 DEF EdgesExact
      <3>3. PICK e \in es : e[2] = b /\ e[1] = a
        BY <3>2 DEF Predecessors
      <3>4. e = <<a, b>>
        BY <3>3
      <3> QED BY <3>3, <3>4
    <2>2. IsCycle(DOMAIN edges, es)
      BY <1>2, <2>1 DEF IsCycle
    <2>3. DOMAIN edges \in SUBSET Ends(es)
      BY DEF EdgesExact
    <2> QED BY <2>2, <2>3 DEF Cyclic, Ends
  <1> QED BY <1>1, <1>2

\* Lifted edges are pairs.
LEMMA EdgesArePairs ==
    ASSUME NEW it, NEW res
    PROVE  \A e \in StartEdges(it, res) : e = <<e[1], e[2]>>
  <1>1. SUFFICES ASSUME NEW i \in DOMAIN LiftedEdges(it, res)
                 PROVE  LiftedEdges(it, res)[i] = <<LiftedEdges(it, res)[i][1], LiftedEdges(it, res)[i][2]>>
    BY DEF StartEdges, Elements
  <1> DEFINE P == start_anchor(res, it.startup[i].predecessor) \X start_anchor(res, it.startup[i].dependent)
  <1>2. P # {} /\ LiftedEdges(it, res)[i] = CHOOSE e \in P : TRUE
    BY DEF LiftedEdges
  <1>3. LiftedEdges(it, res)[i] \in P
    BY <1>2
  <1> QED BY <1>3

\* The ends of the lifted edges are start operations on identities, also when
\* the intent is not sound.
LEMMA EndsAreOperations ==
    ASSUME NEW it, NEW res, WellFormed(res)
    PROVE  AreOperations(Ends(StartEdges(it, res)))
  <1>1. ASSUME NEW c, NEW a \in start_anchor(res, c) PROVE a.resource \in Nat
    <2>1. c \in DOMAIN res /\ a \in {Op("StartContainer", c), Op("StartPod", res[c].pod)}
      BY DEF start_anchor
    <2>2. CASE a = Op("StartContainer", c)
      BY <2>1, <2>2 DEF WellFormed, Op
    <2>3. CASE a # Op("StartContainer", c)
      <3>1. a = Op("StartPod", res[c].pod) /\ res[c].pod \in DOMAIN res
        BY <2>1, <2>3 DEF start_anchor, resolved
      <3> QED BY <3>1 DEF WellFormed, Op
    <2> QED BY <2>2, <2>3
  <1>2. ASSUME NEW e \in StartEdges(it, res) PROVE e[1].resource \in Nat /\ e[2].resource \in Nat
    <2>1. PICK i \in DOMAIN LiftedEdges(it, res) : LiftedEdges(it, res)[i] = e
      BY DEF StartEdges, Elements
    <2> DEFINE A == start_anchor(res, it.startup[i].predecessor)
               B == start_anchor(res, it.startup[i].dependent)
    <2>2. A \X B # {} /\ e = CHOOSE x \in A \X B : TRUE
      BY <2>1 DEF LiftedEdges
    <2>3. e \in A \X B
      BY <2>2
    <2>4. e[1] \in A /\ e[2] \in B
      BY <2>3
    <2> QED BY <1>1, <2>4
  <1> QED BY <1>2 DEF AreOperations, Ends

\* An ordering loop over a validated intent without a cycle always finds a
\* ready operation: creates wait only for creates of lower rank, and starts
\* that all wait for each other would be a cycle of lifted edges.
LEMMA NeverStuck ==
    ASSUME NEW it, NEW res, WellFormed(res), Sound(res), validate_startup_findings(it, res) = {},
           ~Cyclic(StartEdges(it, res)), declared = OperationNodes(it, res),
           PendingExact, DOMAIN nodes # {}
    PROVE  Ready(nodes) # {}
  <1> SUFFICES ASSUME Ready(nodes) = {} PROVE FALSE
    OBVIOUS
  <1>1. ASSUME NEW op \in DOMAIN nodes PROVE \E d \in declared[op] : d \in DOMAIN nodes
    <2>1. PICK d \in declared[op] : d \notin Elements(plan)
      BY DEF Ready, PendingExact
    <2>2. op \in DOMAIN declared
      BY DEF PendingExact
    <2>3. d \in DOMAIN declared
      BY <2>1, <2>2, NodesClosed
    <2> QED BY <2>1, <2>3 DEF PendingExact
  <1>2. ASSUME NEW id \in Managed(res), create_operation(id) \in DOMAIN nodes
        PROVE  \E x \in References(res[id]) : /\ x \in Managed(res)
                                              /\ create_operation(x) \in DOMAIN nodes
    <2>1. PICK d \in declared[create_operation(id)] : d \in DOMAIN nodes
      BY <1>1, <1>2
    <2>2. d \notin Waits(it, res, create_operation(id))
      BY WaitsAreEdges, CreatesAndStarts
    <2>3. d \in create_dependencies(res, res[id])
      BY <2>1, <2>2, CreateNode
    <2>4. PICK x \in References(res[id]) : is_managed(res, x) /\ d = create_operation(x)
      BY <2>3 DEF create_dependencies
    <2>5. x \in DOMAIN res
      BY <2>4 DEF Sound, Managed
    <2> QED BY <2>1, <2>4, <2>5 DEF Managed, is_managed
  <1>3. \A id \in Managed(res) : res[id].kind = KindOf[id]
    BY DEF Managed, WellFormed
  <1>4. ASSUME NEW id \in Managed(res), KindOf[id] \notin {"pod", "container"}
        PROVE  create_operation(id) \notin DOMAIN nodes
    <2>1. References(res[id]) = {}
      BY <1>3, <1>4 DEF References
    <2> QED BY <1>2, <2>1
  <1>5. ASSUME NEW id \in Managed(res), KindOf[id] = "pod"
        PROVE  create_operation(id) \notin DOMAIN nodes
    <2>1. \A x \in References(res[id]) : KindOf[x] \in {"network", "volume"}
      BY <1>5 DEF Sound, Managed
    <2> QED BY <1>2, <1>4, <2>1
  <1>6. ASSUME NEW id \in Managed(res)
        PROVE  create_operation(id) \notin DOMAIN nodes
    <2>1. \A x \in References(res[id]) : KindOf[x] # "container"
      BY DEF Sound, Managed
    <2> QED BY <1>2, <1>4, <1>5, <2>1
  <1>7. DOMAIN nodes \subseteq StartOperations(res)
    <2>1. DOMAIN declared = {create_operation(id) : id \in Managed(res)} \cup StartOperations(res)
      BY NodeDomain
    <2>2. DOMAIN nodes \subseteq DOMAIN declared
      BY DEF PendingExact
    <2> QED BY <1>6, <2>1, <2>2
  <1>8. ASSUME NEW b \in DOMAIN nodes
        PROVE  \E a \in DOMAIN nodes : <<a, b>> \in StartEdges(it, res)
    <2>1. PICK d \in declared[b] : d \in DOMAIN nodes
      BY <1>1
    <2>2. d \in StartOperations(res) /\ b \in StartOperations(res)
      BY <1>7, <2>1
    <2>3. \A id : d # create_operation(id)
      BY <2>2, CreatesAndStarts
    <2>4. d \in Waits(it, res, b)
      <3>1. CASE \E id \in StartedContainers(res) : b = Op("StartContainer", id)
        BY <2>1, <2>3, <3>1, StartContainerNode
      <3>2. CASE \E id \in StartedPods(res) : b = Op("StartPod", id)
        BY <2>1, <2>3, <3>2, StartPodNode
      <3> QED BY <2>2, <3>1, <3>2 DEF StartOperations
    <2> QED BY <2>1, <2>4, WaitsAreEdges
  <1>9. DOMAIN nodes \in SUBSET Ends(StartEdges(it, res))
    <2>1. ASSUME NEW b \in DOMAIN nodes PROVE b \in Ends(StartEdges(it, res))
      <3>1. PICK a \in DOMAIN nodes : <<a, b>> \in StartEdges(it, res)
        BY <1>8
      <3> DEFINE e == <<a, b>>
      <3>2. e \in StartEdges(it, res) /\ b \in {e[1], e[2]}
        BY <3>1
      <3> QED BY <3>2 DEF Ends
    <2> QED BY <2>1
  <1>10. IsCycle(DOMAIN nodes, StartEdges(it, res))
    BY <1>8 DEF IsCycle
  <1> QED BY <1>9, <1>10 DEF Cyclic, Ends

-----------------------------------------------------------------------------
(* The invariant of a whole planning run. *)

CycleFinding == F("DeploymentCycle", 0, "startup_dependencies")

\* The index is the intent's; the cycle check is exact; only an intent without
\* findings and without a cycle is ordered; a rejection tells of a cycle
\* exactly if there is one.
VerdictExact ==
    /\ phase # "validate" => resources = index_resources(intent)
    /\ phase = "cycle" => /\ findings = ValidationFindings(intent, resources)
                          /\ EdgesExact(StartEdges(intent, resources))
    /\ phase \in {"order", "planned"} =>
          /\ findings = {} /\ ValidationFindings(intent, resources) = {}
          /\ ~Cyclic(StartEdges(intent, resources))
          /\ declared = OperationNodes(intent, resources)
    /\ phase = "planned" => DOMAIN nodes = {}
    /\ phase = "rejected" =>
          (Cyclic(StartEdges(intent, resources)) <=> CycleFinding \in findings)

PlanInv == IInv /\ VerdictExact

\* What an accepted intent is like.
LEMMA AcceptedIntent ==
    ASSUME PlanInv, phase \in {"order", "planned"}
    PROVE  /\ WellFormed(resources) /\ Sound(resources)
           /\ validate_startup_findings(intent, resources) = {}
           /\ declared = OperationNodes(intent, resources)
  <1>1. intent \in Intents /\ resources = index_resources(intent)
    BY DEF PlanInv, IInv, TypeOK, VerdictExact
  <1>2. WellFormed(resources)
    BY <1>1, IndexWellFormed
  <1>3. /\ validate_resources(resources, intent.rootful) = {}
        /\ validate_startup_findings(intent, resources) = {}
    BY DEF PlanInv, VerdictExact, ValidationFindings
  <1> QED BY <1>2, <1>3, ValidatedSound DEF PlanInv, VerdictExact

\* The error arm of topological_operations is dead.
LEMMA LoopFindsReady ==
    ASSUME PlanInv, phase = "order", DOMAIN nodes # {}
    PROVE  Ready(nodes) # {}
  BY AcceptedIntent, NeverStuck DEF PlanInv, IInv, VerdictExact

\* Every action keeps the verdict exact.
LEMMA VerdictStep ==
    ASSUME PlanInv, [Next]_vars
    PROVE  VerdictExact'
  <1> DEFINE es == StartEdges(intent, resources)
  <1>0. \A e \in es : e = <<e[1], e[2]>>
    BY EdgesArePairs
  <1>1. CASE Validate
    <2>1. /\ phase' = "cycle" /\ intent' = intent /\ resources' = index_resources(intent)
          /\ findings' = ValidationFindings(intent, resources')
          /\ edges' = EdgeMap(StartEdges(intent, resources'))
      BY <1>1 DEF Validate, ValidationFindings
    <2>2. EdgesExact(StartEdges(intent, index_resources(intent)))'
      BY <2>1, EdgesInitially
    <2> QED BY <2>1, <2>2 DEF VerdictExact
  <1>2. CASE operation_cycle
    <2>1. /\ phase = "cycle" /\ Ready(edges) # {} /\ edges' = Removed(edges, LeastReady(edges))
          /\ UNCHANGED <<intent, phase, resources, findings>>
      BY <1>2 DEF operation_cycle
    <2>2. LeastReady(edges) \in DOMAIN edges /\ edges[LeastReady(edges)] = {}
      <3>1. WellFormed(resources)
        BY <2>1, IndexWellFormed DEF PlanInv, IInv, TypeOK, VerdictExact
      <3>2. AreOperations(DOMAIN edges)
        BY <2>1, <3>1, EndsAreOperations DEF PlanInv, VerdictExact, EdgesExact, AreOperations
      <3>3. LeastReady(edges) \in Ready(edges)
        BY <2>1, <3>2, LeastReadyExists
      <3> QED BY <3>3 DEF Ready
    <2>3. EdgesExact(es)'
      BY <1>0, <2>1, <2>2, EdgesStep DEF PlanInv, VerdictExact
    <2> QED BY <2>1, <2>3 DEF PlanInv, VerdictExact
  <1>3. CASE BuildNodes
    <2>1. /\ phase = "cycle" /\ Ready(edges) = {}
          /\ findings' = findings \cup When(DOMAIN edges # {}, CycleFinding)
          /\ UNCHANGED <<intent, resources, edges, plan>>
      BY <1>3 DEF BuildNodes, CycleFinding
    <2>2. findings = ValidationFindings(intent, resources) /\ EdgesExact(es)
      BY <2>1 DEF PlanInv, VerdictExact
    <2>3. Cyclic(es) <=> DOMAIN edges # {}
      BY <1>0, <2>1, <2>2, LeftIsCycle
    <2>4. CycleFinding \notin findings
      BY <2>2, OnlyLoopReportsCycles DEF NotCycle, CycleFinding, F
    <2>5. Cyclic(es) <=> CycleFinding \in findings'
      BY <2>1, <2>3, <2>4 DEF When
    <2>6. CASE findings' = {}
      <3>1. phase' = "order" /\ declared' = OperationNodes(intent, resources)
        BY <1>3, <2>6 DEF BuildNodes
      <3>2. findings = {}
        BY <2>1, <2>6
      <3> QED BY <2>1, <2>2, <2>5, <2>6, <3>1, <3>2 DEF PlanInv, VerdictExact
    <2>7. CASE findings' # {}
      <3>1. phase' = "rejected"
        BY <1>3, <2>7 DEF BuildNodes
      <3> QED BY <2>1, <2>5, <3>1 DEF PlanInv, VerdictExact
    <2> QED BY <2>6, <2>7
  <1>4. CASE topological_operations
    <2>1. Ready(nodes) # {}
      BY <1>4, LoopFindsReady DEF topological_operations
    <2>2. phase = "order" /\ UNCHANGED <<intent, phase, resources, findings, edges, declared>>
      BY <1>4, <2>1 DEF topological_operations
    <2> QED BY <2>2 DEF PlanInv, VerdictExact
  <1>5. CASE FinishPlan
    <2>1. /\ phase = "order" /\ phase' = "planned" /\ DOMAIN nodes = {}
          /\ UNCHANGED <<intent, resources, findings, edges, nodes, declared>>
      BY <1>5 DEF FinishPlan
    <2> QED BY <2>1 DEF PlanInv, VerdictExact
  <1>6. CASE UNCHANGED vars
    BY <1>6 DEF vars, PlanInv, VerdictExact, EdgesExact
  <1> QED BY <1>1, <1>2, <1>3, <1>4, <1>5, <1>6 DEF Next

\* The invariant of a whole run is an invariant.
LEMMA AlwaysPlanInv == Spec => []PlanInv
  <1>1. Init => PlanInv
    BY IInvInitially DEF PlanInv, Init, VerdictExact
  <1>2. PlanInv /\ [Next]_vars => PlanInv'
    BY IInvInductive, VerdictStep DEF PlanInv
  <1> QED BY <1>1, <1>2, PTL DEF Spec

\* For every intent: a cycle is reported exactly if the lifted startup edges
\* have one, and what validation lets through is ordered without the ordering
\* loop ever getting stuck (operation_cycle, topological_operations).
THEOREM ValidationIsExact == Spec => []ValidationExact
  <1>1. ASSUME PlanInv PROVE ValidationExact
    <2>1. OrderingNeverStuck
      BY <1>1, LoopFindsReady DEF OrderingNeverStuck
    <2>2. CycleReportedIffReal
      BY <1>1 DEF PlanInv, VerdictExact, CycleReportedIffReal, CycleFinding
    <2> QED BY <2>1, <2>2 DEF ValidationExact
  <1> QED BY <1>1, AlwaysPlanInv, PTL

-----------------------------------------------------------------------------
(* What a finished plan is good for. *)

\* An operation comes after everything it was declared to wait for.
LEMMA DependenciesBefore ==
    ASSUME PlanOrdered, NEW i \in DOMAIN plan, NEW d \in declared[plan[i]]
    PROVE  Before(d, i)
  BY DEF PlanOrdered, Before

\* In a finished plan everything declared is planned, and nothing else.
LEMMA PlanIsDeclared ==
    ASSUME PlanInv, phase = "planned"
    PROVE  Elements(plan) = {create_operation(id) : id \in Managed(resources)} \cup StartOperations(resources)
  <1>1. Elements(plan) = DOMAIN declared
    <2>1. DOMAIN declared \subseteq Elements(plan)
      BY DEF PlanInv, IInv, PendingExact, VerdictExact
    <2>2. Elements(plan) \subseteq DOMAIN declared
      BY DEF PlanInv, IInv, TypeOK, Elements
    <2> QED BY <2>1, <2>2
  <1>2. declared = OperationNodes(intent, resources)
    BY AcceptedIntent
  <1> QED BY <1>1, <1>2, NodeDomain

\* What a planned operation is.
LEMMA PlannedOperation ==
    ASSUME PlanInv, phase = "planned", NEW i \in DOMAIN plan
    PROVE  /\ plan[i].action \in {"Create", "EnsureImage"} =>
                plan[i].resource \in Managed(resources) /\ plan[i] = create_operation(plan[i].resource)
           /\ plan[i].action = "StartContainer" =>
                plan[i].resource \in StartedContainers(resources) /\ plan[i] = Op("StartContainer", plan[i].resource)
           /\ plan[i].action = "StartPod" =>
                plan[i].resource \in StartedPods(resources) /\ plan[i] = Op("StartPod", plan[i].resource)
           /\ plan[i].action \in {"Create", "EnsureImage", "StartContainer", "StartPod"}
  <1>1. plan[i] \in {create_operation(id) : id \in Managed(resources)} \cup StartOperations(resources)
    BY PlanIsDeclared DEF Elements
  <1>2. CASE plan[i] \in {create_operation(id) : id \in Managed(resources)}
    <2>1. PICK id \in Managed(resources) : plan[i] = create_operation(id)
      BY <1>2
    <2>2. plan[i].resource = id /\ plan[i].action \in {"Create", "EnsureImage"}
      BY <2>1, CreatesAndStarts
    <2> QED BY <2>1, <2>2
  <1>3. CASE plan[i] \in {Op("StartPod", id) : id \in StartedPods(resources)}
    BY <1>3 DEF Op
  <1>4. CASE plan[i] \in {Op("StartContainer", id) : id \in StartedContainers(resources)}
    BY <1>4 DEF Op
  <1> QED BY <1>1, <1>2, <1>3, <1>4 DEF StartOperations

\* What starts a container is its anchor.
LEMMA StarterIsAnchor ==
    ASSUME PlanInv, phase = "planned", NEW i \in DOMAIN plan, NEW c, Starter(i, c)
    PROVE  start_anchor(resources, c) = {plan[i]}
  <1>0. WellFormed(resources) /\ Sound(resources)
    BY AcceptedIntent
  <1>1. CASE plan[i] = Op("StartContainer", c)
    <2>1. plan[i].action = "StartContainer" /\ plan[i].resource = c
      BY <1>1 DEF Op
    <2>2. c \in DOMAIN resources /\ resources[c].kind = "container" /\ resources[c].pod = 0
      BY <2>1, PlannedOperation DEF StartedContainers
    <2> QED BY <1>0, <1>1, <2>2 DEF start_anchor, WellFormed
  <1>2. CASE plan[i].action = "StartPod" /\ c \in Elements(resources[plan[i].resource].members)
    <2> DEFINE p == plan[i].resource
    <2>1. p \in StartedPods(resources) /\ plan[i] = Op("StartPod", p)
      BY <1>2, PlannedOperation
    <2>2. p \in DOMAIN resources /\ KindOf[p] = "pod" /\ ~resources[p].external /\ p # 0
      BY <1>0, <2>1 DEF StartedPods, WellFormed
    <2>3. c \in DOMAIN resources /\ KindOf[c] = "container" /\ resources[c].pod = p
      BY <1>0, <1>2, <2>2 DEF Sound
    <2> QED BY <2>1, <2>2, <2>3 DEF start_anchor, resolved
  <1> QED BY <1>1, <1>2 DEF Starter

\* A planned operation waits for the lifted edges that end in it.
LEMMA WaitsDeclared ==
    ASSUME NEW it, NEW res, NEW op \in DOMAIN OperationNodes(it, res)
    PROVE  Waits(it, res, op) \subseteq OperationNodes(it, res)[op]
  BY DEF OperationNodes, Waits

\* For every intent: a finished plan keeps every startup dependency, also when
\* its containers are started with their pods (start_anchor).
THEOREM StartupIsHonoured == Spec => []StartupHonoured
  <1>1. ASSUME PlanInv PROVE StartupHonoured
    <2>1. SUFFICES ASSUME phase = "planned", NEW k \in DOMAIN intent.startup,
                          NEW i \in DOMAIN plan, NEW j \in DOMAIN plan,
                          Starter(i, intent.startup[k].predecessor), Starter(j, intent.startup[k].dependent)
                   PROVE  i < j
      BY DEF StartupHonoured, Elements
    <2> DEFINE e == LiftedEdges(intent, resources)[k]
    <2>2. /\ start_anchor(resources, intent.startup[k].predecessor) = {plan[i]}
          /\ start_anchor(resources, intent.startup[k].dependent) = {plan[j]}
      BY <1>1, <2>1, StarterIsAnchor
    <2>3. k \in DOMAIN LiftedEdges(intent, resources) /\ e \in {plan[i]} \X {plan[j]}
      BY <1>1, <2>1, <2>2, AcceptedIntent, EveryDependencyLifted
    <2>4. e[1] = plan[i] /\ e[2] = plan[j] /\ e \in Elements(LiftedEdges(intent, resources))
      BY <2>3 DEF Elements
    <2> HIDE DEF e
    <2>5. plan[i] \in Waits(intent, resources, plan[j])
      BY <2>4 DEF Waits, Predecessors
    <2>6. plan \in Seq(DOMAIN declared) /\ PlanOrdered /\ declared = OperationNodes(intent, resources)
      BY <1>1, <2>1, AcceptedIntent DEF PlanInv, IInv, TypeOK
    <2>7. plan[i] \in declared[plan[j]]
      BY <2>5, <2>6, WaitsDeclared
    <2>8. PICK m \in 1..(j - 1) : plan[m] = plan[i]
      BY <2>6, <2>7, DependenciesBefore DEF Before
    <2>9. m \in DOMAIN plan /\ m < j
      BY <2>6, <2>8
    <2> QED BY <2>6, <2>8, <2>9 DEF PlanOrdered
  <1> QED BY <1>1, AlwaysPlanInv, PTL

\* A managed resource that a planned operation waits for is made before it.
LEMMA MadeBefore ==
    ASSUME PlanOrdered, NEW i \in DOMAIN plan, NEW x, x \in DOMAIN resources,
           is_managed(resources, x) => create_operation(x) \in declared[plan[i]]
    PROVE  resources[x].external \/ Before(Op("Create", x), i) \/ Before(Op("EnsureImage", x), i)
  <1>1. CASE ~is_managed(resources, x)
    BY <1>1 DEF is_managed
  <1>2. CASE is_managed(resources, x)
    <2>1. Before(create_operation(x), i)
      BY <1>2, DependenciesBefore
    <2> QED BY <2>1 DEF create_operation
  <1> QED BY <1>1, <1>2

\* A finished plan never uses a managed resource before it is made.
LEMMA AlwaysExecutable ==
    ASSUME PlanInv
    PROVE  PlanExecutable
  <1> DEFINE made(id, i) == \/ resources[id].external
                            \/ Before(Op("Create", id), i) \/ Before(Op("EnsureImage", id), i)
             attached(r) == {r.networks[n].network : n \in DOMAIN r.networks}
                              \cup ({r.mounts[m].source : m \in DOMAIN r.mounts} \ {0})
             granted(r) == {r.grants[g].source : g \in DOMAIN r.grants}
             used(r) == attached(r) \cup granted(r) \cup ({r.image, r.pod} \ {0})
             held(r) == {r.members[m] : m \in DOMAIN r.members}
  <1>1. SUFFICES ASSUME phase = "planned", NEW i \in DOMAIN plan
                 PROVE  /\ plan[i].action = "Create" =>
                             \A id \in used(resources[plan[i].resource]) : made(id, i)
                        /\ plan[i].action \in {"StartPod", "StartContainer"} =>
                             /\ made(resources[plan[i].resource].id, i)
                             /\ \A id \in held(resources[plan[i].resource]) : made(id, i)
    BY DEF PlanExecutable
  <1> DEFINE id == plan[i].resource
             r == resources[id]
  <1>2. /\ WellFormed(resources) /\ Sound(resources) /\ PlanOrdered
        /\ declared = OperationNodes(intent, resources)
    BY <1>1, AcceptedIntent DEF PlanInv, IInv
  <1>3. ASSUME NEW x \in DOMAIN resources,
               is_managed(resources, x) => create_operation(x) \in declared[plan[i]]
        PROVE  made(x, i)
    BY <1>2, <1>3, MadeBefore
  <1> HIDE DEF made
  <1>4. CASE plan[i].action = "Create"
    <2>1. id \in Managed(resources) /\ plan[i] = create_operation(id)
      BY <1>1, <1>4, PlannedOperation
    <2>2. id \in DOMAIN resources /\ r.kind = KindOf[id] /\ ~r.external
      BY <1>2, <2>1 DEF Managed, WellFormed
    <2>3. used(r) \subseteq References(r)
      <3>1. CASE KindOf[id] = "container"
        BY <2>2, <3>1 DEF References, Networks, Sources, Elements
      <3>2. CASE KindOf[id] = "pod"
        <4>1. r.image = 0 /\ r.pod = 0 /\ r.grants = <<>>
          BY <1>2, <2>2, <3>2 DEF WellFormed
        <4> QED BY <2>2, <3>2, <4>1 DEF References, Networks, Sources, Elements
      <3>3. CASE KindOf[id] \notin {"container", "pod"}
        <4>1. r.image = 0 /\ r.pod = 0 /\ r.grants = <<>> /\ r.networks = <<>> /\ r.mounts = <<>>
          BY <1>2, <2>2, <3>3 DEF WellFormed
        <4>2. used(r) = {}
          BY <4>1
        <4> QED BY <4>2
      <3> QED BY <3>1, <3>2, <3>3
    <2>4. ASSUME NEW x \in used(r) PROVE made(x, i)
      <3>1. x \in References(r) /\ x \in DOMAIN resources
        BY <1>2, <2>2, <2>3 DEF Sound
      <3>2. is_managed(resources, x) => create_operation(x) \in create_dependencies(resources, r)
        BY <3>1 DEF create_dependencies
      <3>3. create_dependencies(resources, r) \subseteq declared[plan[i]]
        BY <1>2, <2>1, CreateNode
      <3> QED BY <1>3, <3>1, <3>2, <3>3
    <2> QED BY <1>4, <2>4
  <1>5. CASE plan[i].action = "StartContainer"
    <2>1. id \in StartedContainers(resources) /\ plan[i] = Op("StartContainer", id)
      BY <1>1, <1>5, PlannedOperation
    <2>2. id \in DOMAIN resources /\ r.id = id /\ r.members = <<>>
      BY <1>2, <2>1 DEF StartedContainers, WellFormed
    <2>3. made(r.id, i)
      BY <1>2, <1>3, <2>1, <2>2, StartContainerNode
    <2>4. held(r) = {}
      BY <2>2
    <2> QED BY <1>5, <2>3, <2>4
  <1>6. CASE plan[i].action = "StartPod"
    <2>1. id \in StartedPods(resources) /\ plan[i] = Op("StartPod", id)
      BY <1>1, <1>6, PlannedOperation
    <2>2. id \in DOMAIN resources /\ r.id = id /\ KindOf[id] = "pod" /\ ~r.external
      BY <1>2, <2>1 DEF StartedPods, WellFormed
    <2>3. declared[plan[i]] = {create_operation(id)}
                  \cup {create_operation(m) : m \in {x \in Elements(r.members) : is_managed(resources, x)}}
                  \cup Waits(intent, resources, plan[i])
      BY <1>2, <2>1, StartPodNode
    <2>4. made(r.id, i)
      BY <1>3, <2>2, <2>3
    <2>5. ASSUME NEW m \in held(r) PROVE made(m, i)
      <3>1. m \in Elements(r.members)
        BY DEF Elements
      <3>2. m \in DOMAIN resources
        BY <1>2, <2>2, <3>1 DEF Sound
      <3> QED BY <1>3, <2>3, <3>1, <3>2
    <2> QED BY <1>6, <2>4, <2>5
  <1> QED BY <1>1, <1>4, <1>5, <1>6, PlannedOperation

\* An operation stands at one place of the plan.
LEMMA PlannedOnce ==
    ASSUME PlanOrdered, NEW op \in Elements(plan)
    PROVE  \E k \in DOMAIN plan : {i \in DOMAIN plan : plan[i] = op} = {k}
  BY DEF PlanOrdered, Elements

\* Every managed resource is made once and no external one is.
LEMMA MadeOnce ==
    ASSUME PlanInv, phase = "planned", NEW id \in DOMAIN resources
    PROVE  Cardinality({i \in DOMAIN plan : plan[i] \in {Op("Create", id), Op("EnsureImage", id)}})
             = IF resources[id].external THEN 0 ELSE 1
  <1> DEFINE S == {i \in DOMAIN plan : plan[i] \in {Op("Create", id), Op("EnsureImage", id)}}
  <1>0. PlanOrdered
    BY DEF PlanInv, IInv
  <1>1. ASSUME NEW i \in S
        PROVE  id \in Managed(resources) /\ plan[i] = create_operation(id)
    <2>1. plan[i].resource = id /\ plan[i].action \in {"Create", "EnsureImage"}
      BY DEF Op
    <2> QED BY <2>1, PlannedOperation
  <1>2. CASE resources[id].external
    <2>1. S = {}
      BY <1>1, <1>2 DEF Managed
    <2> QED BY <1>2, <2>1, FS_EmptySet
  <1>3. CASE ~resources[id].external
    <2>1. create_operation(id) \in Elements(plan)
      BY <1>3, PlanIsDeclared DEF Managed
    <2>2. PICK k \in DOMAIN plan : {i \in DOMAIN plan : plan[i] = create_operation(id)} = {k}
      BY <1>0, <2>1, PlannedOnce
    <2>3. S = {k}
      <3>1. \A i \in S : i = k
        BY <1>1, <2>2
      <3>2. k \in S
        BY <2>2 DEF create_operation
      <3> QED BY <3>1, <3>2
    <2> QED BY <1>3, <2>3, FS_Singleton
  <1> QED BY <1>2, <1>3

\* Every container is started by one operation.
LEMMA StartedOnce ==
    ASSUME PlanInv, phase = "planned", NEW c \in DOMAIN resources, KindOf[c] = "container"
    PROVE  Cardinality({i \in DOMAIN plan : Starter(i, c)}) = 1
  <1>0. PlanOrdered /\ WellFormed(resources) /\ Sound(resources)
    BY AcceptedIntent DEF PlanInv, IInv
  <1>1. resources[c].kind = "container" /\ ~resources[c].external
    BY <1>0 DEF WellFormed
  <1>2. PICK a : /\ a \in start_anchor(resources, c)
                 /\ \/ a = Op("StartContainer", c)
                    \/ a.action = "StartPod" /\ c \in Elements(resources[a.resource].members)
    <2>1. CASE resources[c].pod = 0
      BY <2>1 DEF start_anchor
    <2>2. CASE resources[c].pod # 0
      <3> DEFINE p == resources[c].pod
                 a == Op("StartPod", p)
      <3>1. p \in DOMAIN resources /\ KindOf[p] = "pod" /\ c \in Elements(resources[p].members)
        BY <1>0, <1>1, <2>2 DEF Sound
      <3>2. a \in start_anchor(resources, c)
        BY <2>2, <3>1 DEF start_anchor, resolved
      <3>3. a.action = "StartPod" /\ a.resource = p
        BY DEF Op
      <3> QED BY <3>1, <3>2, <3>3
    <2> QED BY <2>1, <2>2
  <1>3. a \in Elements(plan)
    BY <1>0, <1>2, AnchorIsStart, PlanIsDeclared
  <1>4. PICK k \in DOMAIN plan : {i \in DOMAIN plan : plan[i] = a} = {k}
    BY <1>0, <1>3, PlannedOnce
  <1>5. plan[k] = a /\ Starter(k, c)
    BY <1>2, <1>4 DEF Starter
  <1>6. \A i \in DOMAIN plan : Starter(i, c) => i = k
    BY <1>2, <1>4, StarterIsAnchor
  <1>7. {i \in DOMAIN plan : Starter(i, c)} = {k}
    BY <1>5, <1>6
  <1> QED BY <1>7, FS_Singleton

\* For every intent: a finished plan makes every managed resource and starts
\* every container exactly once, never what is external, and each operation
\* only after everything it uses was made (operation_nodes).
THEOREM PlansAreSufficient == Spec => []PlanSufficient
  <1>1. ASSUME PlanInv PROVE PlanComplete
    <2>1. SUFFICES ASSUME phase = "planned" PROVE PlanComplete
      BY DEF PlanComplete
    <2>2. \A i \in DOMAIN plan :
             plan[i].action = "StartPod" => Elements(resources[plan[i].resource].members) # {}
      <3>1. SUFFICES ASSUME NEW i \in DOMAIN plan, plan[i].action = "StartPod"
                     PROVE  Elements(resources[plan[i].resource].members) # {}
        OBVIOUS
      <3> DEFINE ms == resources[plan[i].resource].members
      <3>2. plan[i].resource \in DOMAIN resources /\ ms # <<>>
        BY <1>1, <2>1, <3>1, PlannedOperation DEF StartedPods
      <3>3. ms \in Seq(Nat)
        BY <1>1, <2>1, <3>2, AcceptedIntent DEF WellFormed
      <3> HIDE DEF ms
      <3>4. 1 \in DOMAIN ms
        BY <3>2, <3>3
      <3> QED BY <3>4 DEF Elements, ms
    <2>3. \A id \in DOMAIN resources :
             Cardinality({i \in DOMAIN plan : plan[i] \in {Op("Create", id), Op("EnsureImage", id)}})
               = IF resources[id].external THEN 0 ELSE 1
      BY <1>1, <2>1, MadeOnce
    <2>4. \A c \in DOMAIN resources : KindOf[c] = "container" =>
             Cardinality({i \in DOMAIN plan : Starter(i, c)}) = 1
      BY <1>1, <2>1, StartedOnce
    <2> QED BY <2>2, <2>3, <2>4 DEF PlanComplete, Starter
  <1>2. PlanInv => PlanSufficient
    BY <1>1, AlwaysExecutable DEF PlanSufficient
  <1> QED BY <1>2, AlwaysPlanInv, PTL
=============================================================================
