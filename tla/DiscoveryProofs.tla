-------------------------- MODULE DiscoveryProofs --------------------------
(***************************************************************************)
(* Proofs about Discovery, for every set of inventories and requests: the  *)
(* closure, the groups, what is explained and what is reported.            *)
(***************************************************************************)
EXTENDS Discovery, FiniteSetTheorems, WellFoundedInduction, TLAPS

\* The least element of a set of natural numbers is one of its elements.
LEMMA LeastIsElement ==
    ASSUME NEW S, S \subseteq Nat, S # {}
    PROVE  Least(S) \in S
  <1>1. PICK i \in S : \A j \in S : ~(<<j, i>> \in OpToRel(<, Nat))
    BY WFMin, NatLessThanWellFounded
  <1>2. \A j \in S : ~(j < i)
    BY <1>1 DEF OpToRel
  <1>3. \A j \in S : i <= j
    BY <1>2
  <1> QED BY <1>3 DEF Least

\* What a relationship of an inventory is, and what it refers to.
LEMMA RelationshipShape ==
    ASSUME NEW recs \in Inventories, NEW r \in DOMAIN recs,
           NEW rel \in observed_relationships(recs[r])
    PROVE  /\ DOMAIN rel.refs \subseteq Nat
           /\ recs[r].kind \in {"container", "pod"}
           /\ recs[r].kind = "pod" => rel.kind \in {"container", "network"}
           /\ rel.kind \in Kinds /\ rel.path # "" /\ (rel.kind = "pod" => rel.path = "Pod")
  <1>1. /\ recs[r].kind \in {"container", "pod"}
        /\ rel.path \in IF recs[r].kind = "pod" THEN PodFields ELSE ContainerFields
        /\ rel.kind = TargetKind[rel.path] /\ rel.refs \in Seq(Nat)
    BY InventoriesAssumption
  <1>2. DOMAIN rel.refs \subseteq Nat
    BY <1>1
  <1>3. rel.path \in ContainerFields \cup PodFields
    BY <1>1
  <1>4. rel.path # "" /\ (rel.kind = "pod" => rel.path = "Pod") /\ rel.kind \in Kinds
    <2>1. /\ TargetKind["ImageName"] = "image" /\ TargetKind["Pod"] = "pod"
          /\ TargetKind["Networks"] = "network" /\ TargetKind["Mounts"] = "volume"
          /\ TargetKind["Dependencies"] = "container" /\ TargetKind["Secrets"] = "secret"
          /\ TargetKind["Containers"] = "container" /\ TargetKind["InfraNetworks"] = "network"
      BY DEF TargetKind
    <2> QED BY <1>1, <1>3, <2>1 DEF ContainerFields, PodFields, Kinds
  <1>5. recs[r].kind = "pod" => rel.kind \in {"container", "network"}
    BY <1>1 DEF PodFields, TargetKind
  <1> QED BY <1>1, <1>2, <1>4, <1>5

\* A reference that resolves does so to a record of the kind asked for.
LEMMA ReferenceResolves ==
    ASSUME NEW recs, NEW kind, NEW ref,
           resolve_reference_count(recs, kind, ref).tag = "One"
    PROVE  LET r == resolve_reference_count(recs, kind, ref).id
           IN  r \in DOMAIN recs /\ recs[r].kind = kind
  <1> DEFINE matched == {r \in DOMAIN recs :
                            /\ recs[r].kind = kind
                            /\ \/ ref \in {r, recs[r].name}
                               \/ kind = "image" /\ ref \in recs[r].aliases}
  <1>1. resolve_reference_count(recs, kind, ref) = Resolution(matched)
    BY DEF resolve_reference_count
  <1> HIDE DEF matched
  <1>2. Resolution(matched).id \in matched
    BY <1>1 DEF Resolution, None, Many, One
  <1> QED BY <1>1, <1>2 DEF matched

\* So does a relationship, whatever the number of its references.
LEMMA RelationshipResolves ==
    ASSUME NEW recs, NEW rel, DOMAIN rel.refs \subseteq Nat,
           resolve_relationship_reference(recs, rel).tag = "One"
    PROVE  LET r == resolve_relationship_reference(recs, rel).id
           IN  r \in DOMAIN recs /\ recs[r].kind = rel.kind
  <1> DEFINE outcome == [i \in DOMAIN rel.refs |->
                            resolve_reference_count(recs, rel.kind, rel.refs[i])]
             failing == {i \in DOMAIN outcome : outcome[i].tag # "One"}
             found == {outcome[i].id : i \in DOMAIN outcome \ failing}
             target == resolve_relationship_reference(recs, rel)
  <1>1. \A i \in DOMAIN outcome \ failing :
            outcome[i].id \in DOMAIN recs /\ recs[outcome[i].id].kind = rel.kind
    BY ReferenceResolves
  <1>2. failing = {}
    <2> SUFFICES ASSUME failing # {} PROVE FALSE
      OBVIOUS
    <2>1. failing \subseteq Nat
      OBVIOUS
    <2>2. Least(failing) \in failing
      <3> HIDE DEF failing
      <3> QED BY <2>1, LeastIsElement
    <2>3. target = outcome[Least(failing)]
      BY DEF resolve_relationship_reference
    <2> QED BY <2>2, <2>3
  <1>3. target = IF Cardinality(found) > 1 THEN Conflict ELSE Resolution(found)
    BY <1>2 DEF resolve_relationship_reference
  <1>4. target.id \in found
    <2> HIDE DEF found
    <2> QED BY <1>3 DEF Conflict, Resolution, None, Many, One
  <1> QED BY <1>1, <1>4

-----------------------------------------------------------------------------
(* The graph of an inventory.                                              *)

Grouped(recs, r) == r \in DOMAIN recs /\ recs[r].kind \in {"container", "pod"}

\* A dependency comes from a container or a pod, and unless it is on a shared
\* resource or on itself there is a grouping edge for it.
LEMMA DependencyShape ==
    ASSUME NEW recs \in Inventories, NEW d \in collect_dependencies(recs)
    PROVE  /\ d = <<d[1], d[2]>>
           /\ Grouped(recs, d[1]) /\ d[2] \in DOMAIN recs
           /\ is_shared_kind(recs[d[2]].kind) \/ d[1] = d[2]
              \/ {d[1], d[2]} \in grouping_edges(recs, collect_dependencies(recs))
  <1>0. PICK r \in DOMAIN recs :
            \E rel \in DependencyRels(recs, r) :
                /\ resolve_relationship_reference(recs, rel).tag = "One"
                /\ d = <<r, resolve_relationship_reference(recs, rel).id>>
    BY DEF collect_dependencies
  <1>1. PICK rel \in DependencyRels(recs, r) :
            /\ resolve_relationship_reference(recs, rel).tag = "One"
            /\ d = <<r, resolve_relationship_reference(recs, rel).id>>
    BY <1>0
  <1> DEFINE target == resolve_relationship_reference(recs, rel).id
  <1>2. rel \in observed_relationships(recs[r]) /\ ~PodMember(recs, r, rel)
    BY DEF DependencyRels
  <1>3. /\ DOMAIN rel.refs \subseteq Nat
        /\ recs[r].kind \in {"container", "pod"}
        /\ recs[r].kind = "pod" => rel.kind \in {"container", "network"}
    BY <1>2, RelationshipShape
  <1>4. target \in DOMAIN recs /\ recs[target].kind = rel.kind /\ rel.kind \in Kinds
    BY <1>1, <1>3, RelationshipResolves, InventoriesAssumption
  <1>5. ASSUME ~is_shared_kind(rel.kind), r # target
        PROVE  {r, target} \in grouping_edges(recs, collect_dependencies(recs))
    <2>1. recs[r].kind = "container" /\ rel.kind \in {"container", "pod"}
      BY <1>2, <1>3, <1>4, <1>5 DEF PodMember, is_shared_kind, Kinds
    <2>2. CASE rel.kind = "pod"
      <3>1. {r, target} \in MembershipEdges(recs)
        BY <1>1, <1>2, <2>1, <2>2 DEF MembershipEdges
      <3> QED BY <1>5, <3>1 DEF grouping_edges
    <2>3. CASE rel.kind = "container"
      <3>1. {d[1], d[2]} \in ContainerEdges(recs, collect_dependencies(recs))
        BY <1>1, <1>4, <2>1, <2>3 DEF ContainerEdges
      <3> QED BY <1>1, <1>5, <3>1 DEF grouping_edges
    <2> QED BY <2>1, <2>2, <2>3
  <1> QED BY <1>1, <1>3, <1>4, <1>5 DEF Grouped

\* Grouping edges join two containers or pods.
LEMMA EdgeShape ==
    ASSUME NEW recs \in Inventories, NEW e \in grouping_edges(recs, collect_dependencies(recs))
    PROVE  \E a, b : e = {a, b} /\ a # b /\ Grouped(recs, a) /\ Grouped(recs, b)
  <1> SUFFICES \E a, b : e = {a, b} /\ Grouped(recs, a) /\ Grouped(recs, b)
    BY DEF grouping_edges
  <1>1. CASE e \in MembershipEdges(recs)
    <2>0. PICK r \in DOMAIN recs :
              \E rel \in observed_relationships(recs[r]) :
                  /\ <<recs[r].kind, rel.kind>> \in {<<"pod", "container">>, <<"container", "pod">>}
                  /\ resolve_relationship_reference(recs, rel).tag = "One"
                  /\ e = {r, resolve_relationship_reference(recs, rel).id}
      BY <1>1 DEF MembershipEdges
    <2>1. PICK rel \in observed_relationships(recs[r]) :
              /\ <<recs[r].kind, rel.kind>> \in {<<"pod", "container">>, <<"container", "pod">>}
              /\ resolve_relationship_reference(recs, rel).tag = "One"
              /\ e = {r, resolve_relationship_reference(recs, rel).id}
      BY <2>0
    <2>2. DOMAIN rel.refs \subseteq Nat
      BY RelationshipShape
    <2> QED BY <2>1, <2>2, RelationshipResolves DEF Grouped
  <1>2. CASE e \in ContainerEdges(recs, collect_dependencies(recs))
    <2>1. PICK d \in collect_dependencies(recs) :
              /\ recs[d[1]].kind = "container" /\ recs[d[2]].kind = "container"
              /\ e = {d[1], d[2]}
      BY <1>2 DEF ContainerEdges
    <2> QED BY <2>1, DependencyShape DEF Grouped
  <1>3. CASE e \in OwnershipEdges(recs)
    <2>1. PICK r \in DOMAIN recs :
              /\ Grouped(recs, r)
              /\ \E other \in DOMAIN recs : Grouped(recs, other) /\ e = {r, other}
      BY <1>3 DEF OwnershipEdges, Grouped
    <2> QED BY <2>1
  <1> QED BY <1>1, <1>2, <1>3 DEF grouping_edges

\* Selectors pick records of the inventory.
LEMMA SelectedAreRecords ==
    ASSUME NEW recs, NEW sel
    PROVE  SelectedBy(recs, sel) \subseteq DOMAIN recs
  BY ReferenceResolves DEF SelectedBy, resolve_prefix_selector, resolve_selector

\* So do label selectors and select_all.
LEMMA RootsAreRecords ==
    ASSUME NEW recs, NEW req, NEW dependencies
    PROVE  Roots(root_origins(recs, req, dependencies)) \subseteq DOMAIN recs
  BY SelectedAreRecords DEF Roots, root_origins, LabelSelected

\* Overrides resolve to records of the inventory.
LEMMA BoundariesAreRecords == NetworkBoundaries \subseteq DOMAIN records
  BY SelectedAreRecords DEF NetworkBoundaries, resolve_network_boundaries

-----------------------------------------------------------------------------
(* The inductive invariant.                                                *)

Working == {"expand", "cross", "group"}

\* The graph is the inventory's, from the phase that computes it on.
GraphInv ==
    /\ records \in Inventories
    /\ graph = [dependencies |-> graph.dependencies, edges |-> graph.edges]
    /\ phase \in {"select"} \cup Working => graph.dependencies = collect_dependencies(records)
    /\ phase \in Working => graph.edges = grouping_edges(records, graph.dependencies)

\* What a later phase fills is still empty.
StageInv ==
    /\ phase \in {"collect", "select"} => members = {} /\ crossed = {} /\ boundaries = {}
    /\ phase \notin {"group", "done"} => remaining = {} /\ component = {} /\ groups = {}
    /\ phase \notin {"expand", "group"} => pending = {}

\* Nothing is a member that some closed set of the seeds could do without.
BoundInv ==
    phase \in Working =>
        /\ Seeds \subseteq members
        /\ crossed \subseteq NetworkBoundaries
        /\ \A T \in SUBSET DOMAIN records :
              (Seeds \subseteq T /\ ClosedUnder(T, crossed)) => members \subseteq T

EdgeClosed(edges, S) == \A e \in edges : e \cap S # {} => e \subseteq S

Consumers(n) == reverse_dependencies(graph.dependencies, n)

\* Members off the work list are expanded; in a round that has added nothing
\* every boundary but the ones still to cross is closed.
ReachInv ==
    /\ phase = "expand" =>
          \A e \in graph.edges : e \cap (members \ pending) # {} => e \subseteq members
    /\ phase = "cross" =>
          \A n \in boundaries : n \in NetworkBoundaries /\ Consumers(n) \cap members # {}
    /\ (phase = "cross" /\ members = before) =>
          ClosedUnder(members, NetworkBoundaries \ boundaries)
    /\ phase = "group" => ClosedUnder(members, NetworkBoundaries)

\* A shared resource is a member only if nobody depends on it.
SharedInv ==
    phase \in Working =>
        \A r \in members : is_shared_kind(records[r].kind) => Consumers(r) = {}

Joined(edges, S) ==
    \A part \in (SUBSET S) \ {{}, S} :
        \E e \in edges : e \subseteq S /\ e \cap part # {} /\ e \ part # {}

\* Finished groups and the remaining members are unions of components, and
\* what has been collected of the next group is connected.
PartInv ==
    phase = "group" =>
        /\ members = remaining \cup (UNION groups)
        /\ \A g \in groups : /\ g # {} /\ g \cap remaining = {}
                             /\ EdgeClosed(graph.edges, g) /\ Joined(graph.edges, g)
                             /\ \A h \in groups : g # h => g \cap h = {}
        /\ EdgeClosed(graph.edges, remaining)
        /\ Joined(graph.edges, component)
        /\ \A e \in graph.edges : e \cap (component \ pending) # {} => e \subseteq component

DiscoveryInv ==
    /\ TypeOK /\ GraphInv /\ StageInv /\ BoundInv /\ ReachInv /\ SharedInv /\ PartInv
    /\ GroupsAreComponents /\ PrerequisitesAreShared

\* Where the graph is computed, its edges are pairs of containers and pods,
\* its consumers are containers and pods.
LEMMA GraphShape ==
    ASSUME GraphInv, phase \in Working
    PROVE  /\ \A e \in graph.edges : \E a, b : /\ e = {a, b} /\ a # b
                                               /\ Grouped(records, a) /\ Grouped(records, b)
           /\ \A n : \A c \in Consumers(n) : Grouped(records, c)
  <1>1. \A d \in graph.dependencies : Grouped(records, d[1])
    BY DependencyShape DEF GraphInv, Working
  <1>2. \A e \in graph.edges : \E a, b : e = {a, b} /\ a # b /\ Grouped(records, a) /\ Grouped(records, b)
    BY EdgeShape DEF GraphInv, Working
  <1> QED BY <1>1, <1>2 DEF Consumers, reverse_dependencies

\* Every step keeps the graph that of the inventory.
LEMMA GraphStep ==
    ASSUME DiscoveryInv, [Next]_vars
    PROVE  GraphInv'
  <1> USE DEF GraphInv, Working
  <1>1. CASE RejectRequest BY <1>1 DEF RejectRequest, DiscoveryInv
  <1>2. CASE CollectDependencies BY <1>2 DEF CollectDependencies, DiscoveryInv
  <1>3. CASE SelectRoots BY <1>3 DEF SelectRoots, DiscoveryInv
  <1>4. CASE expand_group_members BY <1>4 DEF expand_group_members, DiscoveryInv
  <1>5. CASE CollectBoundaries BY <1>5 DEF CollectBoundaries, DiscoveryInv
  <1>6. CASE CrossBoundary BY <1>6 DEF CrossBoundary, DiscoveryInv
  <1>7. CASE RepeatClosure BY <1>7 DEF RepeatClosure, DiscoveryInv
  <1>8. CASE CloseClosure BY <1>8 DEF CloseClosure, DiscoveryInv
  <1>9. CASE StartGroup BY <1>9 DEF StartGroup, DiscoveryInv
  <1>10. CASE GrowGroup BY <1>10 DEF GrowGroup, DiscoveryInv
  <1>11. CASE PushGroup BY <1>11 DEF PushGroup, DiscoveryInv
  <1>12. CASE ReturnGraph BY <1>12 DEF ReturnGraph, DiscoveryInv
  <1>13. CASE UNCHANGED vars BY <1>13 DEF vars, DiscoveryInv
  <1> QED BY <1>1, <1>2, <1>3, <1>4, <1>5, <1>6, <1>7, <1>8, <1>9, <1>10, <1>11, <1>12, <1>13 DEF Next

\* Every step leaves empty what later phases fill.
LEMMA StageStep ==
    ASSUME DiscoveryInv, [Next]_vars
    PROVE  StageInv'
  <1> USE DEF StageInv, TypeOK
  <1>1. CASE RejectRequest BY <1>1 DEF RejectRequest, DiscoveryInv
  <1>2. CASE CollectDependencies BY <1>2 DEF CollectDependencies, DiscoveryInv
  <1>3. CASE SelectRoots BY <1>3 DEF SelectRoots, DiscoveryInv
  <1>4. CASE expand_group_members BY <1>4 DEF expand_group_members, DiscoveryInv
  <1>5. CASE CollectBoundaries BY <1>5 DEF CollectBoundaries, DiscoveryInv
  <1>6. CASE CrossBoundary BY <1>6 DEF CrossBoundary, DiscoveryInv
  <1>7. CASE RepeatClosure BY <1>7 DEF RepeatClosure, DiscoveryInv
  <1>8. CASE CloseClosure BY <1>8 DEF CloseClosure, DiscoveryInv
  <1>9. CASE StartGroup BY <1>9 DEF StartGroup, DiscoveryInv
  <1>10. CASE GrowGroup BY <1>10 DEF GrowGroup, DiscoveryInv
  <1>11. CASE PushGroup BY <1>11 DEF PushGroup, DiscoveryInv
  <1>12. CASE ReturnGraph BY <1>12 DEF ReturnGraph, DiscoveryInv
  <1>13. CASE UNCHANGED vars BY <1>13 DEF vars, DiscoveryInv
  <1> QED BY <1>1, <1>2, <1>3, <1>4, <1>5, <1>6, <1>7, <1>8, <1>9, <1>10, <1>11, <1>12, <1>13 DEF Next

\* Every step keeps discover's local state within the inventory.
LEMMA TypeStep ==
    ASSUME DiscoveryInv, [Next]_vars
    PROVE  TypeOK'
  <1> USE DEF TypeOK, DiscoveryInv
  <1>0. remaining # {} => Least(remaining) \in remaining
    BY LeastIsElement
  <1>1. CASE RejectRequest BY <1>1 DEF RejectRequest, StageInv
  <1>2. CASE CollectDependencies
    <2>1. collect_dependencies(records) \subseteq (DOMAIN records) \X (DOMAIN records)
      <3> SUFFICES ASSUME NEW d \in collect_dependencies(records)
                   PROVE  d \in (DOMAIN records) \X (DOMAIN records)
        OBVIOUS
      <3>1. d = <<d[1], d[2]>> /\ d[1] \in DOMAIN records /\ d[2] \in DOMAIN records
        BY DependencyShape DEF GraphInv, Grouped
      <3> QED BY <3>1
    <2>2. /\ graph'.dependencies = collect_dependencies(records)
          /\ graph'.edges = graph.edges
      BY <1>2 DEF CollectDependencies, GraphInv
    <2> QED BY <1>2, <2>1, <2>2 DEF CollectDependencies, StageInv
  <1>3. CASE SelectRoots
    <2>1. /\ graph'.dependencies = graph.dependencies
          /\ graph'.edges = grouping_edges(records, collect_dependencies(records))
          /\ graph.dependencies = collect_dependencies(records)
      BY <1>3 DEF SelectRoots, GraphInv, Working
    <2>2. graph'.edges \subseteq SUBSET DOMAIN records
      BY <2>1, EdgeShape DEF GraphInv, Grouped
    <2>3. Roots(roots') \subseteq DOMAIN records
      BY <1>3, RootsAreRecords DEF SelectRoots
    <2>4. members' \subseteq DOMAIN records
      BY <1>3, <2>3 DEF SelectRoots, InitialMembers, explicitly_selected_shared, reverse_dependencies
    <2> QED BY <1>3, <2>1, <2>2, <2>3, <2>4 DEF SelectRoots, StageInv
  <1>4. CASE expand_group_members
    BY <1>4 DEF expand_group_members, grouping_adjacency
  <1>5. CASE CollectBoundaries
    BY <1>5, BoundariesAreRecords DEF CollectBoundaries, prerequisite_networks
  <1>6. CASE CrossBoundary
    <2>1. Least(boundaries) \in boundaries
      BY <1>6, LeastIsElement DEF CrossBoundary
    <2>2. reverse_dependencies(graph.dependencies, Least(boundaries)) \subseteq DOMAIN records
      BY DEF reverse_dependencies
    <2> QED BY <1>6, <2>1, <2>2 DEF CrossBoundary, CrossedBy
  <1>7. CASE RepeatClosure BY <1>7 DEF RepeatClosure
  <1>8. CASE CloseClosure BY <1>8 DEF CloseClosure, StageInv
  <1>9. CASE StartGroup BY <1>0, <1>9 DEF StartGroup
  <1>10. CASE GrowGroup BY <1>10 DEF GrowGroup
  <1>11. CASE PushGroup BY <1>11 DEF PushGroup, StageInv
  <1>12. CASE ReturnGraph BY <1>12 DEF ReturnGraph
  <1>13. CASE UNCHANGED vars BY <1>13 DEF vars
  <1> QED BY <1>1, <1>2, <1>3, <1>4, <1>5, <1>6, <1>7, <1>8, <1>9, <1>10, <1>11, <1>12, <1>13 DEF Next

\* Every step adds only members that each closed set of the seeds holds.
LEMMA BoundStep ==
    ASSUME DiscoveryInv, [Next]_vars
    PROVE  BoundInv'
  <1> USE DEF DiscoveryInv, BoundInv, Working, Seeds, ClosedUnder, NetworkBoundaries
  <1>1. CASE RejectRequest BY <1>1 DEF RejectRequest
  <1>2. CASE CollectDependencies BY <1>2 DEF CollectDependencies
  <1>3. CASE SelectRoots
    <2>1. graph'.dependencies = graph.dependencies
      BY <1>3 DEF SelectRoots, GraphInv
    <2> QED BY <1>3, <2>1 DEF SelectRoots, StageInv
  <1>4. CASE expand_group_members
    <2>1. PICK r \in pending : members' = members \cup (grouping_adjacency(graph.edges, r) \ members)
      BY <1>4 DEF expand_group_members
    <2>2. UNCHANGED <<records, request, phase, graph, roots, crossed>> /\ phase = "expand"
      BY <1>4 DEF expand_group_members
    <2>3. r \in members
      BY <2>2 DEF TypeOK
    <2>4. ASSUME NEW T \in SUBSET DOMAIN records, Seeds \subseteq T, ClosedUnder(T, crossed)
          PROVE  members' \subseteq T
      <3>1. members \subseteq T
        BY <2>2, <2>4
      <3>2. \A e \in graph.edges : r \in e => e \subseteq T
        BY <2>3, <2>4, <3>1
      <3> QED BY <2>1, <3>1, <3>2 DEF grouping_adjacency
    <2> QED BY <2>1, <2>2, <2>4
  <1>5. CASE CollectBoundaries BY <1>5 DEF CollectBoundaries
  <1>6. CASE CrossBoundary
    <2> DEFINE network == Least(boundaries)
               consumers == reverse_dependencies(graph.dependencies, network)
    <2>1. /\ members' = members \cup consumers
          /\ crossed' = crossed \cup CrossedBy(network, consumers)
          /\ UNCHANGED <<records, request, phase, graph, roots>> /\ phase = "cross"
      BY <1>6 DEF CrossBoundary
    <2>2. network \in NetworkBoundaries /\ consumers \cap members # {}
      <3>1. network \in boundaries
        BY <1>6, LeastIsElement DEF CrossBoundary, TypeOK
      <3> QED BY <2>1, <3>1 DEF ReachInv, Consumers
    <2>3. ASSUME NEW T \in SUBSET DOMAIN records, Seeds \subseteq T, ClosedUnder(T, crossed')
          PROVE  members' \subseteq T
      <3>1. members \subseteq T
        BY <2>1, <2>3
      <3>2. consumers \subseteq T
        BY <2>1, <2>2, <2>3, <3>1 DEF CrossedBy
      <3> QED BY <2>1, <3>1, <3>2
    <2>4. crossed' \subseteq NetworkBoundaries /\ Seeds \subseteq members'
      BY <2>1, <2>2 DEF CrossedBy
    <2> QED BY <2>1, <2>3, <2>4
  <1>7. CASE RepeatClosure BY <1>7 DEF RepeatClosure
  <1>8. CASE CloseClosure BY <1>8 DEF CloseClosure
  <1>9. CASE StartGroup BY <1>9 DEF StartGroup
  <1>10. CASE GrowGroup BY <1>10 DEF GrowGroup
  <1>11. CASE PushGroup BY <1>11 DEF PushGroup
  <1>12. CASE ReturnGraph BY <1>12 DEF ReturnGraph
  <1>13. CASE UNCHANGED vars BY <1>13 DEF vars
  <1> QED BY <1>1, <1>2, <1>3, <1>4, <1>5, <1>6, <1>7, <1>8, <1>9, <1>10, <1>11, <1>12, <1>13 DEF Next

\* Every step keeps the account of what is expanded and crossed.
LEMMA ReachStep ==
    ASSUME DiscoveryInv, [Next]_vars
    PROVE  ReachInv'
  <1> USE DEF DiscoveryInv, ReachInv, ClosedUnder, NetworkBoundaries, Consumers
  <1>1. CASE RejectRequest BY <1>1 DEF RejectRequest
  <1>2. CASE CollectDependencies BY <1>2 DEF CollectDependencies
  <1>3. CASE SelectRoots BY <1>3 DEF SelectRoots
  <1>4. CASE expand_group_members
    <2>1. PICK r \in pending :
              LET new == grouping_adjacency(graph.edges, r) \ members
              IN  members' = members \cup new /\ pending' = (pending \ {r}) \cup new
      BY <1>4 DEF expand_group_members
    <2>2. UNCHANGED <<graph, phase>> /\ phase = "expand"
      BY <1>4 DEF expand_group_members
    <2>3. ASSUME NEW e \in graph.edges, NEW x \in e, x \in members', x \notin pending'
          PROVE  e \subseteq members'
      <3>1. CASE x = r
        <4>1. e \ {r} \subseteq grouping_adjacency(graph.edges, r)
          BY <2>3, <3>1 DEF grouping_adjacency
        <4>2. r \in members
          BY <2>2 DEF TypeOK
        <4> QED BY <2>1, <4>1, <4>2
      <3>2. CASE x # r
        <4>1. x \in members \ pending
          BY <2>1, <2>3, <3>2
        <4> QED BY <2>1, <2>2, <4>1
      <3> QED BY <3>1, <3>2
    <2> QED BY <2>2, <2>3
  <1>5. CASE CollectBoundaries
    BY <1>5 DEF CollectBoundaries, prerequisite_networks
  <1>6. CASE CrossBoundary
    <2> DEFINE network == Least(boundaries)
               consumers == reverse_dependencies(graph.dependencies, network)
    <2>1. /\ members' = members \cup consumers
          /\ boundaries' = boundaries \ {network}
          /\ UNCHANGED <<records, request, phase, graph, before>> /\ phase = "cross"
      BY <1>6 DEF CrossBoundary
    <2>2. ASSUME members' = before'
          PROVE  ClosedUnder(members, NetworkBoundaries \ boundaries) /\ members' = members
      BY <2>1, <2>2 DEF TypeOK
    <2> QED BY <2>1, <2>2
  <1>7. CASE RepeatClosure BY <1>7 DEF RepeatClosure
  <1>8. CASE CloseClosure BY <1>8 DEF CloseClosure, LoopAgain
  <1>9. CASE StartGroup BY <1>9 DEF StartGroup
  <1>10. CASE GrowGroup BY <1>10 DEF GrowGroup
  <1>11. CASE PushGroup BY <1>11 DEF PushGroup
  <1>12. CASE ReturnGraph BY <1>12 DEF ReturnGraph
  <1>13. CASE UNCHANGED vars BY <1>13 DEF vars
  <1> QED BY <1>1, <1>2, <1>3, <1>4, <1>5, <1>6, <1>7, <1>8, <1>9, <1>10, <1>11, <1>12, <1>13 DEF Next

\* Every step adds containers and pods, or resources nobody consumes.
LEMMA SharedStep ==
    ASSUME DiscoveryInv, [Next]_vars
    PROVE  SharedInv'
  <1> USE DEF DiscoveryInv, SharedInv, Working, Consumers
  <1>1. CASE RejectRequest BY <1>1 DEF RejectRequest
  <1>2. CASE CollectDependencies BY <1>2 DEF CollectDependencies
  <1>3. CASE SelectRoots
    <2>1. /\ graph'.dependencies = graph.dependencies
          /\ graph.dependencies = collect_dependencies(records)
          /\ members' = InitialMembers(records, roots', graph.dependencies)
          /\ records' = records
      BY <1>3 DEF SelectRoots, GraphInv
    <2>2. \A d \in graph.dependencies : ~is_shared_kind(records[d[1]].kind)
      BY <2>1, DependencyShape DEF GraphInv, Grouped, is_shared_kind
    <2>3. ASSUME NEW r \in members', is_shared_kind(records[r].kind)
          PROVE  reverse_dependencies(graph.dependencies, r) = {}
      <3>1. \A x : \A c \in reverse_dependencies(graph.dependencies, x) : ~is_shared_kind(records[c].kind)
        BY <2>2 DEF reverse_dependencies
      <3>2. r \notin Roots(roots') \ explicitly_selected_shared(records, roots')
        BY <2>3 DEF explicitly_selected_shared
      <3> QED BY <2>1, <2>3, <3>1, <3>2 DEF InitialMembers
    <2> QED BY <2>1, <2>3
  <1>4. CASE expand_group_members
    <2>1. PICK r \in pending : members' = members \cup (grouping_adjacency(graph.edges, r) \ members)
      BY <1>4 DEF expand_group_members
    <2>2. UNCHANGED <<records, phase, graph>> /\ phase = "expand"
      BY <1>4 DEF expand_group_members
    <2>3. \A x \in grouping_adjacency(graph.edges, r) : Grouped(records, x)
      BY <2>2, GraphShape DEF grouping_adjacency
    <2> QED BY <2>1, <2>2, <2>3 DEF Grouped, is_shared_kind
  <1>5. CASE CollectBoundaries BY <1>5 DEF CollectBoundaries
  <1>6. CASE CrossBoundary
    <2>1. /\ members' = members \cup reverse_dependencies(graph.dependencies, Least(boundaries))
          /\ UNCHANGED <<records, phase, graph>> /\ phase = "cross"
      BY <1>6 DEF CrossBoundary
    <2>2. \A x \in reverse_dependencies(graph.dependencies, Least(boundaries)) : Grouped(records, x)
      BY <2>1, GraphShape
    <2> QED BY <2>1, <2>2 DEF Grouped, is_shared_kind
  <1>7. CASE RepeatClosure BY <1>7 DEF RepeatClosure
  <1>8. CASE CloseClosure BY <1>8 DEF CloseClosure
  <1>9. CASE StartGroup BY <1>9 DEF StartGroup
  <1>10. CASE GrowGroup BY <1>10 DEF GrowGroup
  <1>11. CASE PushGroup BY <1>11 DEF PushGroup
  <1>12. CASE ReturnGraph BY <1>12 DEF ReturnGraph
  <1>13. CASE UNCHANGED vars BY <1>13 DEF vars
  <1> QED BY <1>1, <1>2, <1>3, <1>4, <1>5, <1>6, <1>7, <1>8, <1>9, <1>10, <1>11, <1>12, <1>13 DEF Next

\* One visit keeps what is collected of a group connected.
LEMMA GrowthIsJoined ==
    ASSUME GraphInv, phase = "group", Joined(graph.edges, component),
           NEW r \in component, NEW new, new \subseteq grouping_adjacency(graph.edges, r)
    PROVE  Joined(graph.edges, component \cup new)
  <1> DEFINE grown == component \cup new
  <1> SUFFICES ASSUME NEW part \in (SUBSET grown) \ {{}, grown}
               PROVE  \E e \in graph.edges : e \subseteq grown /\ e \cap part # {} /\ e \ part # {}
    BY DEF Joined
  <1>1. \A x \in new : {r, x} \in graph.edges
    <2> TAKE x \in new
    <2>1. PICK e \in graph.edges : r \in e /\ x \in e /\ x # r
      BY DEF grouping_adjacency
    <2>2. PICK a, b : e = {a, b}
      BY GraphShape DEF Working
    <2>3. e = {r, x}
      BY <2>1, <2>2
    <2> QED BY <2>3
  <1>2. CASE part \cap component \notin {{}, component}
    <2>1. PICK e \in graph.edges :
              /\ e \subseteq component
              /\ e \cap (part \cap component) # {} /\ e \ (part \cap component) # {}
      BY <1>2 DEF Joined
    <2> QED BY <2>1
  <1>3. CASE part \cap component = {}
    <2>1. PICK x \in part : x \in new
      BY <1>3
    <2>2. r \notin part
      BY <1>3
    <2>3. {r, x} \in graph.edges
      BY <1>1, <2>1
    <2> WITNESS {r, x} \in graph.edges
    <2> QED BY <2>1, <2>2
  <1>4. CASE part \cap component = component
    <2>1. PICK x \in new : x \notin part
      BY <1>4
    <2>2. r \in part
      BY <1>4
    <2>3. {r, x} \in graph.edges
      BY <1>1, <2>1
    <2> WITNESS {r, x} \in graph.edges
    <2> QED BY <2>1, <2>2
  <1> QED BY <1>2, <1>3, <1>4

\* Every step of grouped_members keeps groups closed and connected.
LEMMA PartStep ==
    ASSUME DiscoveryInv, [Next]_vars
    PROVE  PartInv'
  <1> USE DEF DiscoveryInv, PartInv
  <1>1. CASE RejectRequest BY <1>1 DEF RejectRequest
  <1>2. CASE CollectDependencies BY <1>2 DEF CollectDependencies
  <1>3. CASE SelectRoots BY <1>3 DEF SelectRoots
  <1>4. CASE expand_group_members BY <1>4 DEF expand_group_members
  <1>5. CASE CollectBoundaries BY <1>5 DEF CollectBoundaries
  <1>6. CASE CrossBoundary BY <1>6 DEF CrossBoundary
  <1>7. CASE RepeatClosure BY <1>7 DEF RepeatClosure
  <1>8. CASE CloseClosure
    <2>1. /\ phase' = "group" /\ remaining' = members /\ UNCHANGED <<members, component, groups, graph>>
          /\ component = {} /\ groups = {}
      BY <1>8 DEF CloseClosure, StageInv
    <2>2. EdgeClosed(graph.edges, remaining)'
      BY <1>8, <2>1 DEF CloseClosure, LoopAgain, ReachInv, ClosedUnder, EdgeClosed
    <2> QED BY <2>1, <2>2 DEF Joined
  <1>9. CASE StartGroup
    <2>1. /\ component' = {Least(remaining)} /\ pending' = component'
          /\ UNCHANGED <<phase, graph, members, remaining, groups>> /\ phase = "group"
      BY <1>9 DEF StartGroup
    <2>2. Joined(graph.edges, component)'
      BY <2>1 DEF Joined
    <2> QED BY <2>1, <2>2
  <1>10. CASE GrowGroup
    <2>1. PICK r \in pending :
              LET new == (grouping_adjacency(graph.edges, r) \cap remaining) \ component
              IN  component' = component \cup new /\ pending' = (pending \ {r}) \cup new
      BY <1>10 DEF GrowGroup
    <2>2. UNCHANGED <<phase, graph, members, remaining, groups>> /\ phase = "group"
      BY <1>10 DEF GrowGroup
    <2>3. r \in component /\ component \subseteq remaining
      BY <2>2 DEF TypeOK
    <2>4. Joined(graph.edges, component)'
      <3> DEFINE new == (grouping_adjacency(graph.edges, r) \cap remaining) \ component
      <3>1. new \subseteq grouping_adjacency(graph.edges, r)
        OBVIOUS
      <3> HIDE DEF new
      <3>2. Joined(graph.edges, component)
        BY <2>2
      <3>3. Joined(graph.edges, component \cup new)
        BY <2>2, <2>3, <3>1, <3>2, GrowthIsJoined
      <3> QED BY <2>1, <2>2, <3>3 DEF new
    <2>5. ASSUME NEW e \in graph.edges, NEW x \in e, x \in component', x \notin pending'
          PROVE  e \subseteq component'
      <3>1. CASE x = r
        <4>1. e \ {r} \subseteq grouping_adjacency(graph.edges, r)
          BY <2>5, <3>1 DEF grouping_adjacency
        <4>2. e \subseteq remaining
          BY <2>2, <2>3, <2>5, <3>1 DEF EdgeClosed
        <4> QED BY <2>1, <2>3, <4>1, <4>2
      <3>2. CASE x # r
        <4>1. x \in component \ pending
          BY <2>1, <2>5, <3>2
        <4> QED BY <2>1, <2>2, <4>1
      <3> QED BY <3>1, <3>2
    <2> QED BY <2>2, <2>4, <2>5
  <1>11. CASE PushGroup
    <2>1. /\ groups' = groups \cup {component} /\ remaining' = remaining \ component /\ component' = {}
          /\ UNCHANGED <<phase, graph, members, pending>> /\ phase = "group"
          /\ component # {} /\ pending = {} /\ component \subseteq remaining
      BY <1>11 DEF PushGroup, TypeOK
    <2>2. EdgeClosed(graph.edges, component)
      BY <2>1 DEF EdgeClosed
    <2>3. EdgeClosed(graph.edges, remaining)'
      <3> SUFFICES ASSUME NEW e \in graph.edges, NEW x \in e, x \in remaining \ component
                   PROVE  e \subseteq remaining \ component
        BY <2>1 DEF EdgeClosed
      <3> QED BY <2>1, <2>2 DEF EdgeClosed
    <2>4. Joined(graph.edges, component)'
      BY <2>1 DEF Joined
    <2>5. \A g \in groups' : /\ g # {} /\ g \cap remaining' = {}
                             /\ EdgeClosed(graph.edges, g) /\ Joined(graph.edges, g)
                             /\ \A h \in groups' : g # h => g \cap h = {}
      BY <2>1, <2>2
    <2>6. members' = remaining' \cup (UNION groups')
      BY <2>1
    <2> QED BY <2>1, <2>3, <2>4, <2>5, <2>6
  <1>12. CASE ReturnGraph BY <1>12 DEF ReturnGraph
  <1>13. CASE UNCHANGED vars
    BY <1>13 DEF vars
  <1> QED BY <1>1, <1>2, <1>3, <1>4, <1>5, <1>6, <1>7, <1>8, <1>9, <1>10, <1>11, <1>12, <1>13 DEF Next

\* The graph ReturnGraph returns has the promised groups.
LEMMA ResultStep ==
    ASSUME DiscoveryInv, [Next]_vars
    PROVE  GroupsAreComponents' /\ PrerequisitesAreShared'
  <1> USE DEF DiscoveryInv
  <1>1. CASE RejectRequest BY <1>1 DEF RejectRequest, GroupsAreComponents, PrerequisitesAreShared
  <1>2. CASE CollectDependencies BY <1>2 DEF CollectDependencies, GroupsAreComponents, PrerequisitesAreShared
  <1>3. CASE SelectRoots BY <1>3 DEF SelectRoots, GroupsAreComponents, PrerequisitesAreShared
  <1>4. CASE expand_group_members BY <1>4 DEF expand_group_members, GroupsAreComponents, PrerequisitesAreShared
  <1>5. CASE CollectBoundaries BY <1>5 DEF CollectBoundaries, GroupsAreComponents, PrerequisitesAreShared
  <1>6. CASE CrossBoundary BY <1>6 DEF CrossBoundary, GroupsAreComponents, PrerequisitesAreShared
  <1>7. CASE RepeatClosure BY <1>7 DEF RepeatClosure, GroupsAreComponents, PrerequisitesAreShared
  <1>8. CASE CloseClosure BY <1>8 DEF CloseClosure, GroupsAreComponents, PrerequisitesAreShared
  <1>9. CASE StartGroup BY <1>9 DEF StartGroup, GroupsAreComponents, PrerequisitesAreShared
  <1>10. CASE GrowGroup BY <1>10 DEF GrowGroup, GroupsAreComponents, PrerequisitesAreShared
  <1>11. CASE PushGroup BY <1>11 DEF PushGroup, GroupsAreComponents, PrerequisitesAreShared
  <1>12. CASE ReturnGraph
    <2>1. /\ phase = "group" /\ remaining = {}
          /\ UNCHANGED <<records, members>>
          /\ graph'.edges = {e \in graph.edges : e \subseteq members}
          /\ result'.groups = {ResourceGroup(g) : g \in groups}
      BY <1>12 DEF ReturnGraph
    <2>2. /\ members = UNION groups
          /\ \A g \in groups : /\ g # {} /\ EdgeClosed(graph.edges, g) /\ Joined(graph.edges, g)
                               /\ \A h \in groups : g # h => g \cap h = {}
      BY <2>1 DEF PartInv
    <2>3. GroupsAreComponents'
      <3>1. {g.members : g \in result'.groups} = groups
        <4>1. \A g \in groups : ResourceGroup(g).members = g
          BY DEF ResourceGroup
        <4> QED BY <2>1, <4>1
      <3>2. \A e \in graph'.edges : \E g \in groups : e \subseteq g
        <4> TAKE e \in graph'.edges
        <4>1. PICK a, b : e = {a, b}
          BY <2>1, GraphShape DEF Working
        <4>2. PICK g \in groups : a \in g
          BY <2>1, <2>2, <4>1
        <4> QED BY <2>1, <2>2, <4>1, <4>2 DEF EdgeClosed
      <3>3. ASSUME NEW g \in groups, NEW part \in (SUBSET g) \ {{}, g}
            PROVE  \E e \in graph'.edges : e \subseteq g /\ e \cap part # {} /\ e \ part # {}
        <4>1. PICK e \in graph.edges : e \subseteq g /\ e \cap part # {} /\ e \ part # {}
          BY <2>2, <3>3 DEF Joined
        <4>2. e \in graph'.edges
          BY <2>1, <2>2, <3>3, <4>1
        <4> QED BY <4>1, <4>2
      <3> QED BY <2>1, <2>2, <3>1, <3>2, <3>3 DEF GroupsAreComponents, AreComponents
    <2>4. PrerequisitesAreShared'
      <3>1. ASSUME NEW g \in groups, NEW d \in graph.dependencies, d[1] \in g, d[2] \notin g
            PROVE  is_shared_kind(records[d[2]].kind) /\ d[2] \notin members
        <4>1. {d[1], d[2]} \notin graph.edges
          BY <2>2, <3>1 DEF EdgeClosed
        <4>2. is_shared_kind(records[d[2]].kind)
          BY <2>1, <3>1, <4>1, DependencyShape DEF GraphInv, Working
        <4>3. d[1] \in Consumers(d[2])
          BY <3>1 DEF Consumers, reverse_dependencies
        <4> QED BY <2>1, <4>2, <4>3 DEF SharedInv, Working
      <3>2. \A g \in groups : ResourceGroup(g).prerequisites =
                {d[2] : d \in {x \in graph.dependencies : x[1] \in g /\ x[2] \notin g}}
        BY DEF ResourceGroup, GroupPrerequisites
      <3> QED BY <2>1, <3>1, <3>2 DEF PrerequisitesAreShared
    <2> QED BY <2>3, <2>4
  <1>13. CASE UNCHANGED vars
    <2>1. UNCHANGED <<phase, records, members, graph, result>>
      BY <1>13 DEF vars
    <2>2. GroupsAreComponents'
      BY <2>1 DEF GroupsAreComponents
    <2>3. PrerequisitesAreShared'
      BY <2>1 DEF PrerequisitesAreShared
    <2> QED BY <2>2, <2>3
  <1> QED BY <1>1, <1>2, <1>3, <1>4, <1>5, <1>6, <1>7, <1>8, <1>9, <1>10, <1>11, <1>12, <1>13 DEF Next

-----------------------------------------------------------------------------
(* The theorems.                                                           *)

\* The invariant holds before the first phase.
LEMMA InitialInv ==
    ASSUME Init
    PROVE  DiscoveryInv
  <1> USE DEF Init
  <1>1. TypeOK BY InventoriesAssumption DEF TypeOK, Roots
  <1>2. GraphInv /\ StageInv BY DEF GraphInv, StageInv, Working
  <1>3. BoundInv /\ ReachInv /\ SharedInv /\ PartInv
    BY DEF BoundInv, ReachInv, SharedInv, PartInv, Working
  <1>4. GroupsAreComponents /\ PrerequisitesAreShared
    BY DEF GroupsAreComponents, PrerequisitesAreShared
  <1> QED BY <1>1, <1>2, <1>3, <1>4 DEF DiscoveryInv

\* The inductive invariant of discover.
THEOREM DiscoveryInvariant == Spec => []DiscoveryInv
  <1>1. Init => DiscoveryInv BY InitialInv
  <1>2. DiscoveryInv /\ [Next]_vars => DiscoveryInv'
    BY TypeStep, GraphStep, StageStep, BoundStep, ReachStep, SharedStep, PartStep, ResultStep
    DEF DiscoveryInv
  <1> QED BY <1>1, <1>2, PTL DEF Spec

\* discover's local state stays within the inventory (discovery.rs discover).
THEOREM DiscoveryTypeCorrect == Spec => []TypeOK
  <1>1. DiscoveryInv => TypeOK BY DEF DiscoveryInv
  <1> QED BY <1>1, DiscoveryInvariant, PTL

\* The closure loop of discover ends with the least set of records that
\* holds the roots' members and is closed under grouping edges and
\* authorized networks, whatever the inventory, the request and the order
\* in which expand_group_members visits.
THEOREM ClosureIsExact == Spec => []ClosureExact
  <1>1. DiscoveryInv => ClosureExact
    <2> SUFFICES ASSUME DiscoveryInv, phase = "group"
                 PROVE  IsClosureOf(members, NetworkBoundaries)
      BY DEF ClosureExact
    <2>1. Seeds \subseteq members /\ ClosedUnder(members, NetworkBoundaries)
      BY DEF DiscoveryInv, BoundInv, ReachInv, Working
    <2>2. ASSUME NEW T \in SUBSET members, Seeds \subseteq T, ClosedUnder(T, NetworkBoundaries)
          PROVE  members \subseteq T
      <3>1. crossed \subseteq NetworkBoundaries
        BY DEF DiscoveryInv, BoundInv, Working
      <3>2. ClosedUnder(T, crossed)
        BY <2>2, <3>1 DEF ClosedUnder
      <3> QED BY <2>2, <3>2 DEF DiscoveryInv, BoundInv, TypeOK, Working
    <2> QED BY <2>1, <2>2 DEF IsClosureOf
  <1> QED BY <1>1, DiscoveryInvariant, PTL

\* An override that discover reports as unused could have been left out: the
\* closure over the crossed networks alone is the same set.
THEOREM UnusedOverridesAreRedundant == Spec => []UnusedOverridesRedundant
  <1>1. DiscoveryInv => UnusedOverridesRedundant
    <2> SUFFICES ASSUME DiscoveryInv, phase = "group"
                 PROVE  IsClosureOf(members, crossed)
      BY DEF UnusedOverridesRedundant
    <2>1. crossed \subseteq NetworkBoundaries
      BY DEF DiscoveryInv, BoundInv, Working
    <2>2. Seeds \subseteq members /\ ClosedUnder(members, crossed)
      BY <2>1 DEF DiscoveryInv, BoundInv, ReachInv, ClosedUnder, Working
    <2>3. \A T \in SUBSET members : (Seeds \subseteq T /\ ClosedUnder(T, crossed)) => members \subseteq T
      BY DEF DiscoveryInv, BoundInv, TypeOK, Working
    <2> QED BY <2>2, <2>3 DEF IsClosureOf
  <1> QED BY <1>1, DiscoveryInvariant, PTL

\* grouped_members splits the closure into exactly the connected components
\* of the grouping edges.
THEOREM GroupsAreTheComponents == Spec => []GroupsAreComponents
  <1>1. DiscoveryInv => GroupsAreComponents BY DEF DiscoveryInv
  <1> QED BY <1>1, DiscoveryInvariant, PTL

\* What a returned group needs from outside is a shared resource that no
\* group holds.
THEOREM PrerequisitesAreOutside == Spec => []PrerequisitesAreShared
  <1>1. DiscoveryInv => PrerequisitesAreShared BY DEF DiscoveryInv
  <1> QED BY <1>1, DiscoveryInvariant, PTL

-----------------------------------------------------------------------------
(* What is reported.                                                       *)

\* Relationship findings are exactly those of the whole inventory, from the
\* phase that collects them on.
FindingsInv ==
    /\ phase = "collect" => findings = {}
    /\ \A f \in findings : f.path # "" => f \in RelationshipsUnresolved(records)
    /\ phase \in {"select", "done"} \cup Working => RelationshipsUnresolved(records) \subseteq findings

\* The roots are what the request selects.
RootsInv ==
    phase \in {"done"} \cup Working =>
        roots = root_origins(records, request, collect_dependencies(records))

AllEdges == grouping_edges(records, collect_dependencies(records))

\* What a merge explanation is about.
Merged(explanations, e) ==
    \E x \in explanations : x.kind = "StrongEvidenceMerge" /\ {x.resource} \cup x.related = e

\* What the closure established still holds of the returned graph, although
\* its dependencies and edges have been narrowed to the members.
ReturnInv ==
    phase = "done" =>
        /\ InitialMembers(records, roots, collect_dependencies(records)) \subseteq members
        /\ EdgeClosed(AllEdges, members)
        /\ \A e : Merged(result.explanations, e) <=> (e \in AllEdges /\ e \subseteq members)
        /\ ExplanationsComplete

ReportInv == FindingsInv /\ RootsInv /\ ReturnInv

\* A finding about a record or a selector as a whole has no path.
LEMMA Pathless ==
    \A code, x : RecordFinding(code, x, "").path = "" /\ SelectorFinding(code, x).path = ""
  BY Zenon DEF RecordFinding, SelectorFinding

\* Findings of labels and selectors have no path.
LEMMA OtherFindings ==
    ASSUME NEW recs, NEW req,
           NEW f \in UNION {advisory_label_findings(recs), RelationshipsBlocked(recs),
                            RequestFindings(recs, req)}
    PROVE  f.path = ""
  <1>1. CASE f \in advisory_label_findings(recs)
    BY <1>1, Pathless DEF advisory_label_findings
  <1>2. CASE f \in RelationshipsBlocked(recs)
    BY <1>2, Pathless DEF RelationshipsBlocked
  <1>3. CASE f \in RequestFindings(recs, req)
    <2>1. \A sel : \A x \in SelectorFindings(recs, sel) : x.path = ""
      BY Pathless DEF SelectorFindings
    <2>2. CASE f \in UNION {SelectorFindings(recs, sel) : sel \in req.roots}
      BY <2>1, <2>2
    <2>3. CASE f \in UNION {SelectorFindings(recs, OverrideSelector(o)) : o \in req.overrides}
      BY <2>1, <2>3
    <2>4. CASE f \in {SelectorFinding("SelectorUnresolved", sel) :
                          sel \in {x \in req.label_selectors : LabelSelected(recs, x) = {}}}
      BY <2>4, Pathless
    <2> QED BY <1>3, <2>2, <2>3, <2>4 DEF RequestFindings
  <1> QED BY <1>1, <1>2, <1>3

\* No later phase takes a finding away or adds one about a relationship.
LEMMA FindingsStep ==
    ASSUME DiscoveryInv, FindingsInv, [Next]_vars
    PROVE  FindingsInv'
  <1> USE DEF FindingsInv, Working
  <1>1. CASE RejectRequest BY <1>1 DEF RejectRequest
  <1>2. CASE CollectDependencies
    <2>1. /\ findings' = UNION {advisory_label_findings(records), RelationshipsUnresolved(records),
                                RelationshipsBlocked(records)}
          /\ records' = records /\ phase' = "select"
      BY <1>2 DEF CollectDependencies
    <2>2. \A f \in findings' : f.path # "" => f \in RelationshipsUnresolved(records)
      BY <2>1, OtherFindings
    <2> QED BY <2>1, <2>2
  <1>3. CASE SelectRoots
    <2>1. findings' = findings \cup RequestFindings(records, request) /\ records' = records
          /\ phase = "select" /\ phase' = "expand"
      BY <1>3 DEF SelectRoots
    <2>2. \A f \in RequestFindings(records, request) : f.path = ""
      BY OtherFindings
    <2> QED BY <2>1, <2>2
  <1>4. CASE expand_group_members BY <1>4 DEF expand_group_members
  <1>5. CASE CollectBoundaries BY <1>5 DEF CollectBoundaries
  <1>6. CASE CrossBoundary BY <1>6 DEF CrossBoundary
  <1>7. CASE RepeatClosure BY <1>7 DEF RepeatClosure
  <1>8. CASE CloseClosure BY <1>8 DEF CloseClosure
  <1>9. CASE StartGroup BY <1>9 DEF StartGroup
  <1>10. CASE GrowGroup BY <1>10 DEF GrowGroup
  <1>11. CASE PushGroup BY <1>11 DEF PushGroup
  <1>12. CASE ReturnGraph
    <2> DEFINE unused == {SelectorFinding("BoundaryOverrideUnused", OverrideSelector(o)) : o \in UnusedOverrides}
    <2>1. findings' = findings \cup unused /\ records' = records /\ phase = "group" /\ phase' = "done"
      BY <1>12 DEF ReturnGraph
    <2>2. \A f \in unused : f.path = ""
      BY Pathless
    <2> HIDE DEF unused
    <2> QED BY <2>1, <2>2
  <1>13. CASE UNCHANGED vars BY <1>13 DEF vars
  <1> QED BY <1>1, <1>2, <1>3, <1>4, <1>5, <1>6, <1>7, <1>8, <1>9, <1>10, <1>11, <1>12, <1>13 DEF Next

\* The roots are chosen once.
LEMMA RootsStep ==
    ASSUME DiscoveryInv, RootsInv, [Next]_vars
    PROVE  RootsInv'
  <1> USE DEF RootsInv, Working
  <1>1. CASE RejectRequest BY <1>1 DEF RejectRequest
  <1>2. CASE CollectDependencies BY <1>2 DEF CollectDependencies
  <1>3. CASE SelectRoots BY <1>3 DEF SelectRoots, DiscoveryInv, GraphInv
  <1>4. CASE expand_group_members BY <1>4 DEF expand_group_members
  <1>5. CASE CollectBoundaries BY <1>5 DEF CollectBoundaries
  <1>6. CASE CrossBoundary BY <1>6 DEF CrossBoundary
  <1>7. CASE RepeatClosure BY <1>7 DEF RepeatClosure
  <1>8. CASE CloseClosure BY <1>8 DEF CloseClosure
  <1>9. CASE StartGroup BY <1>9 DEF StartGroup
  <1>10. CASE GrowGroup BY <1>10 DEF GrowGroup
  <1>11. CASE PushGroup BY <1>11 DEF PushGroup
  <1>12. CASE ReturnGraph BY <1>12 DEF ReturnGraph
  <1>13. CASE UNCHANGED vars BY <1>13 DEF vars
  <1> QED BY <1>1, <1>2, <1>3, <1>4, <1>5, <1>6, <1>7, <1>8, <1>9, <1>10, <1>11, <1>12, <1>13 DEF Next

\* The merges that are explained are the grouping edges among the members.
LEMMA MergesAreEdges ==
    ASSUME DiscoveryInv, phase = "group", NEW gs, NEW e
    PROVE  Merged(Explanations(gs), e) <=> (e \in graph.edges /\ e \subseteq members)
  <1> DEFINE merges == {Explanation("StrongEvidenceMerge", Least(x), x \ {Least(x)}) :
                            x \in {y \in graph.edges : y \subseteq members}}
  <1>1. \A x \in graph.edges : {Least(x)} \cup (x \ {Least(x)}) = x
    <2> TAKE x \in graph.edges
    <2>1. x \subseteq Nat /\ x # {}
      BY GraphShape DEF DiscoveryInv, TypeOK, Working
    <2>2. Least(x) \in x
      BY <2>1, LeastIsElement
    <2> QED BY <2>2
  <1>2. ASSUME NEW x \in Explanations(gs), x.kind = "StrongEvidenceMerge" PROVE x \in merges
    <2>1. x \notin {[Explanation("Root", o[1], {}) EXCEPT !.origin = {o[2]}] : o \in roots}
      <3>1. \A o : [Explanation("Root", o[1], {}) EXCEPT !.origin = {o[2]}].kind = "Root"
        BY DEF Explanation
      <3> QED BY <1>2, <3>1
    <2>2. x \notin {Explanation("AuthorizedSharedCrossing", r, {}) : r \in authorized_shared_crossings}
      BY <1>2 DEF Explanation
    <2>3. x \notin {Explanation("AuthorizedNetworkCrossing", r, {}) : r \in crossed}
      BY <1>2 DEF Explanation
    <2>4. x \notin UNION {GroupExplanations(g) : g \in gs}
      <3>1. ASSUME NEW g \in gs PROVE \A y \in GroupExplanations(g) : y.kind # "StrongEvidenceMerge"
        BY DEF GroupExplanations, Explanation
      <3> QED BY <1>2, <3>1
    <2> QED BY <2>1, <2>2, <2>3, <2>4 DEF Explanations
  <1>3. merges \subseteq Explanations(gs)
    BY DEF Explanations
  <1>4. ASSUME NEW x \in merges
        PROVE  \E y \in graph.edges : /\ y \subseteq members /\ x.kind = "StrongEvidenceMerge"
                                      /\ {x.resource} \cup x.related = {Least(y)} \cup (y \ {Least(y)})
    BY DEF Explanation
  <1>5. ASSUME NEW y \in graph.edges, y \subseteq members
        PROVE  \E x \in merges : /\ x.kind = "StrongEvidenceMerge"
                                 /\ {x.resource} \cup x.related = {Least(y)} \cup (y \ {Least(y)})
    <2> DEFINE x == Explanation("StrongEvidenceMerge", Least(y), y \ {Least(y)})
    <2>1. x \in merges
      BY <1>5
    <2>2. x.kind = "StrongEvidenceMerge" /\ x.resource = Least(y) /\ x.related = y \ {Least(y)}
      BY DEF Explanation
    <2> HIDE DEF merges, x
    <2> QED BY <2>1, <2>2
  <1> HIDE DEF merges
  <1>6. Merged(Explanations(gs), e) => e \in graph.edges /\ e \subseteq members
    <2> SUFFICES ASSUME NEW x \in Explanations(gs), x.kind = "StrongEvidenceMerge",
                        {x.resource} \cup x.related = e
                 PROVE  e \in graph.edges /\ e \subseteq members
      BY DEF Merged
    <2>1. PICK y \in graph.edges :
              y \subseteq members /\ {x.resource} \cup x.related = {Least(y)} \cup (y \ {Least(y)})
      BY <1>2, <1>4
    <2>2. e = y
      BY <1>1, <2>1
    <2> QED BY <2>1, <2>2
  <1>7. e \in graph.edges /\ e \subseteq members => Merged(Explanations(gs), e)
    BY <1>1, <1>3, <1>5 DEF Merged
  <1> QED BY <1>6, <1>7

\* A group without a root came in through a crossing: without one the other
\* groups alone would be closed and hold the seeds.
LEMMA UnrootedExplained ==
    ASSUME DiscoveryInv, phase = "group", remaining = {}, NEW g \in groups, g \cap Roots(roots) = {}
    PROVE  \E d \in graph.dependencies :
               d[1] \in g /\ (d[2] \in authorized_shared_crossings \/ d[2] \in crossed)
  <1> SUFFICES ASSUME \A d \in graph.dependencies :
                          d[1] \in g => d[2] \notin authorized_shared_crossings /\ d[2] \notin crossed
               PROVE  FALSE
    OBVIOUS
  <1> DEFINE T == members \ g
  <1>0. /\ members = UNION groups /\ g # {} /\ EdgeClosed(graph.edges, g)
        /\ members \subseteq DOMAIN records
        /\ Seeds \subseteq members /\ ClosedUnder(members, NetworkBoundaries)
        /\ crossed \subseteq NetworkBoundaries
        /\ \A S \in SUBSET DOMAIN records :
              (Seeds \subseteq S /\ ClosedUnder(S, crossed)) => members \subseteq S
    BY DEF DiscoveryInv, PartInv, TypeOK, BoundInv, ReachInv, Working
  <1>1. Seeds \cap g = {}
    <2> SUFFICES ASSUME NEW x \in Seeds, x \in g PROVE FALSE
      OBVIOUS
    <2>1. x \notin Roots(roots)
      OBVIOUS
    <2>2. PICK r \in explicitly_selected_shared(records, roots) :
              x \in reverse_dependencies(graph.dependencies, r)
      BY <2>1 DEF Seeds, InitialMembers, explicitly_selected_shared
    <2>3. r \in authorized_shared_crossings
      BY <2>2 DEF authorized_shared_crossings
    <2>4. PICK d \in graph.dependencies : d[1] = x /\ d[2] = r
      BY <2>2 DEF reverse_dependencies
    <2> QED BY <2>3, <2>4
  <1>2. EdgeClosed(graph.edges, T)
    BY <1>0 DEF EdgeClosed, ClosedUnder
  <1>3. ASSUME NEW n \in crossed PROVE reverse_dependencies(graph.dependencies, n) \cap g = {}
    BY DEF reverse_dependencies
  <1>4. ClosedUnder(T, crossed)
    <2>1. ASSUME NEW n \in crossed, reverse_dependencies(graph.dependencies, n) \cap T # {}
          PROVE  reverse_dependencies(graph.dependencies, n) \subseteq T
      <3>1. n \in NetworkBoundaries /\ reverse_dependencies(graph.dependencies, n) \cap members # {}
        BY <1>0, <2>1
      <3>2. reverse_dependencies(graph.dependencies, n) \subseteq members
        BY <1>0, <3>1 DEF ClosedUnder
      <3> QED BY <1>3, <3>2
    <2> QED BY <1>2, <2>1 DEF ClosedUnder, EdgeClosed
  <1>5. members \subseteq T
    <2>1. T \in SUBSET DOMAIN records /\ Seeds \subseteq T
      BY <1>0, <1>1
    <2> HIDE DEF T
    <2> QED BY <1>0, <1>4, <2>1
  <1>6. g \subseteq members
    BY <1>0
  <1> QED BY <1>0, <1>5, <1>6

\* A shared resource consumed inside and outside the members was crossed by
\* nobody: crossing it would have taken all its consumers in.
LEMMA CutIsStopped ==
    ASSUME DiscoveryInv, phase = "group", remaining = {}, NEW d \in graph.dependencies, NEW g \in groups,
           d[1] \in g, is_shared_kind(records[d[2]].kind),
           ~(reverse_dependencies(graph.dependencies, d[2]) \subseteq members)
    PROVE  d[2] \in StoppedBoundaries(ResourceGroup(g))
  <1>0. /\ members = UNION groups /\ Seeds \subseteq members
        /\ ClosedUnder(members, NetworkBoundaries) /\ crossed \subseteq NetworkBoundaries
        /\ \A r \in members : is_shared_kind(records[r].kind) => Consumers(r) = {}
    BY DEF DiscoveryInv, PartInv, BoundInv, ReachInv, SharedInv, Working
  <1>1. d[1] \in Consumers(d[2]) /\ d[1] \in members
    BY <1>0 DEF Consumers, reverse_dependencies
  <1>2. d[2] \notin members
    BY <1>0, <1>1
  <1>3. d[2] \notin g
    BY <1>0, <1>2
  <1>4. d[2] \in GroupPrerequisites(g)
    BY <1>3 DEF GroupPrerequisites
  <1>5. reverse_dependencies(graph.dependencies, d[2]) \ g # {}
    BY <1>0
  <1>6. d[2] \notin explicitly_selected_shared(records, roots)
    <2> SUFFICES ASSUME d[2] \in explicitly_selected_shared(records, roots) PROVE FALSE
      OBVIOUS
    <2>1. reverse_dependencies(graph.dependencies, d[2]) \subseteq Seeds
      BY DEF Seeds, InitialMembers
    <2> QED BY <1>0, <2>1
  <1>7. d[2] \notin crossed
    <2> SUFFICES ASSUME d[2] \in crossed PROVE FALSE
      OBVIOUS
    <2>1. d[2] \in NetworkBoundaries /\ reverse_dependencies(graph.dependencies, d[2]) \cap members # {}
      BY <1>0, <1>1 DEF Consumers
    <2> QED BY <1>0, <2>1 DEF ClosedUnder
  <1>8. ResourceGroup(g).members = g /\ ResourceGroup(g).prerequisites = GroupPrerequisites(g)
    BY DEF ResourceGroup
  <1> QED BY <1>4, <1>5, <1>6, <1>7, <1>8 DEF StoppedBoundaries

\* What is returned tells all of it.
LEMMA ReturnStep ==
    ASSUME DiscoveryInv, RootsInv, ReturnGraph
    PROVE  ReturnInv'
  <1> DEFINE gs == {ResourceGroup(g) : g \in groups}
  <1>0. /\ phase = "group" /\ remaining = {} /\ phase' = "done"
        /\ UNCHANGED <<records, request, members, roots, groups>>
        /\ graph'.dependencies = {d \in graph.dependencies : d[1] \in members}
        /\ result'.groups = gs /\ result'.explanations = Explanations(gs)
    BY DEF ReturnGraph
  <1>1. /\ graph.dependencies = collect_dependencies(records)
        /\ graph.edges = AllEdges /\ AllEdges' = AllEdges
    BY <1>0 DEF DiscoveryInv, GraphInv, Working, AllEdges
  <1>2. InitialMembers(records, roots, collect_dependencies(records))' \subseteq members'
    BY <1>0, <1>1 DEF DiscoveryInv, BoundInv, Seeds, Working
  <1>3. EdgeClosed(AllEdges, members)'
    BY <1>0, <1>1 DEF DiscoveryInv, ReachInv, ClosedUnder, EdgeClosed
  <1>4. \A e : Merged(result'.explanations, e) <=> (e \in AllEdges' /\ e \subseteq members')
    <2> TAKE e
    <2> HIDE DEF gs
    <2> QED BY <1>0, <1>1, MergesAreEdges
  <1>m. \A g \in groups : ResourceGroup(g) \in gs /\ ResourceGroup(g).members = g
    BY DEF ResourceGroup
  <1>n. members = UNION groups
    BY <1>0 DEF DiscoveryInv, PartInv
  <1>5. UnrootedGroupsExplained'
    <2> SUFFICES ASSUME NEW G \in gs, G.members \cap Roots(roots) = {}
                 PROVE  \E d \in graph'.dependencies : \E x \in result'.explanations :
                            /\ d[1] \in G.members /\ x.resource = d[2]
                            /\ x.kind \in {"AuthorizedSharedCrossing", "AuthorizedNetworkCrossing"}
      BY <1>0 DEF UnrootedGroupsExplained
    <2>1. PICK g \in groups : G = ResourceGroup(g)
      OBVIOUS
    <2>2. G.members = g
      BY <2>1, <1>m
    <2>3. PICK d \in graph.dependencies :
              d[1] \in g /\ (d[2] \in authorized_shared_crossings \/ d[2] \in crossed)
      BY <1>0, <2>2, UnrootedExplained
    <2>4. d \in graph'.dependencies
      BY <1>0, <1>n, <2>3
    <2>5. CASE d[2] \in authorized_shared_crossings
      <3> DEFINE x == Explanation("AuthorizedSharedCrossing", d[2], {})
      <3>1. x \in Explanations(gs)
        BY <2>5 DEF Explanations
      <3>2. x.resource = d[2] /\ x.kind = "AuthorizedSharedCrossing"
        BY DEF Explanation
      <3> HIDE DEF x, gs
      <3> QED BY <1>0, <2>2, <2>3, <2>4, <3>1, <3>2
    <2>6. CASE d[2] \in crossed
      <3> DEFINE x == Explanation("AuthorizedNetworkCrossing", d[2], {})
      <3>1. x \in Explanations(gs)
        BY <2>6 DEF Explanations
      <3>2. x.resource = d[2] /\ x.kind = "AuthorizedNetworkCrossing"
        BY DEF Explanation
      <3> HIDE DEF x, gs
      <3> QED BY <1>0, <2>2, <2>3, <2>4, <3>1, <3>2
    <2> QED BY <2>3, <2>5, <2>6
  <1>6. CutsExplained'
    <2> SUFFICES ASSUME NEW d \in graph'.dependencies, is_shared_kind(records[d[2]].kind),
                        ~(reverse_dependencies(collect_dependencies(records), d[2]) \subseteq members)
                 PROVE  \E x \in result'.explanations :
                            /\ x.kind = "StoppedSharedBoundary" /\ x.resource = d[2]
                            /\ \E G \in result'.groups : d[1] \in G.members /\ x.related = {G.id}
      BY <1>0 DEF CutsExplained
    <2>1. d \in graph.dependencies /\ d[1] \in members
      BY <1>0
    <2>2. PICK g \in groups : d[1] \in g
      BY <1>n, <2>1
    <2>3. d[2] \in StoppedBoundaries(ResourceGroup(g))
      BY <1>0, <1>1, <2>1, <2>2, CutIsStopped
    <2> DEFINE G == ResourceGroup(g)
               x == Explanation("StoppedSharedBoundary", d[2], {G.id})
    <2>4. G \in gs /\ G.members = g
      BY <1>m
    <2>5. x \in GroupExplanations(G)
      BY <2>3 DEF GroupExplanations
    <2>6. x.kind = "StoppedSharedBoundary" /\ x.resource = d[2] /\ x.related = {G.id}
      BY DEF Explanation
    <2> HIDE DEF G, x, gs
    <2>7. x \in Explanations(gs)
      BY <2>4, <2>5 DEF Explanations
    <2> QED BY <1>0, <2>2, <2>4, <2>6, <2>7
  <1> QED BY <1>2, <1>3, <1>4, <1>5, <1>6 DEF ReturnInv, ExplanationsComplete

\* Every step keeps what is reported.
LEMMA ReportStep ==
    ASSUME DiscoveryInv, ReportInv, [Next]_vars
    PROVE  ReportInv'
  <1>1. FindingsInv' /\ RootsInv'
    BY FindingsStep, RootsStep DEF ReportInv
  <1>2. CASE ReturnGraph
    BY <1>1, <1>2, ReturnStep DEF ReportInv
  <1>3. CASE UNCHANGED vars
    <2>1. UNCHANGED <<phase, records, request, roots, members, graph, result>>
      BY <1>3 DEF vars
    <2>2. ExplanationsComplete' <=> ExplanationsComplete
      BY <2>1 DEF ExplanationsComplete, UnrootedGroupsExplained, CutsExplained
    <2>3. AllEdges' = AllEdges
      BY <2>1 DEF AllEdges
    <2>4. ReturnInv'
      BY <2>1, <2>2, <2>3 DEF ReturnInv, ReportInv
    <2> QED BY <1>1, <2>4 DEF ReportInv
  <1>4. CASE Next /\ ~ReturnGraph
    <2>1. phase' # "done"
      BY <1>4 DEF Next, RejectRequest, CollectDependencies, SelectRoots, expand_group_members,
                  CollectBoundaries, CrossBoundary, RepeatClosure, CloseClosure, StartGroup, GrowGroup,
                  PushGroup
    <2>2. ReturnInv'
      BY <2>1 DEF ReturnInv
    <2> QED BY <1>1, <2>2 DEF ReportInv
  <1> QED BY <1>2, <1>3, <1>4

\* What discover reports and returns, in every behaviour.
THEOREM ReportInvariant == Spec => []ReportInv
  <1>1. Init => ReportInv
    BY DEF Init, ReportInv, FindingsInv, RootsInv, ReturnInv, Working
  <1>2. DiscoveryInv /\ ReportInv /\ [Next]_vars => ReportInv'
    BY ReportStep
  <1> QED BY <1>1, <1>2, DiscoveryInvariant, PTL DEF Spec

\* Whatever the inventory and the request: a group that holds no root is
\* explained by the crossing that brought it in, and a shared resource that
\* is consumed on both sides of the selection by a stopped boundary.
THEOREM ExplanationsAreComplete == Spec => []ExplanationsComplete
  <1>1. ReportInv => ExplanationsComplete
    BY DEF ReportInv, ReturnInv, ExplanationsComplete, UnrootedGroupsExplained, CutsExplained
  <1> QED BY <1>1, ReportInvariant, PTL

\* select_all misses no container in silence, whatever the evidence: one that
\* names no pod is a root, one whose pod resolves is grouped with it.
THEOREM AllIsComplete == Spec => []AllMissesOnlyReported
  <1>1. DiscoveryInv /\ ReportInv => AllMissesOnlyReported
    <2> SUFFICES ASSUME DiscoveryInv, ReportInv, phase = "done", request.all,
                        NEW r \in DOMAIN records, records[r].kind = "container", r \notin members,
                        records[r].infra \in {"absent", "false"}
                 PROVE  \E f \in findings : f.resource = r /\ f.path = "Pod"
      BY DEF AllMissesOnlyReported
    <2> DEFINE deps == collect_dependencies(records)
    <2>0. /\ records \in Inventories /\ roots = root_origins(records, request, deps)
          /\ InitialMembers(records, roots, deps) \subseteq members
          /\ EdgeClosed(AllEdges, members) /\ RelationshipsUnresolved(records) \subseteq findings
      BY DEF DiscoveryInv, GraphInv, ReportInv, RootsInv, ReturnInv, FindingsInv
    <2>1. ASSUME NEW x \in DOMAIN records, eligible_all_root(records, deps, x),
                 records[x].kind \in {"container", "pod"}
          PROVE  x \in members
      <3>1. <<x, [all |-> TRUE]>> \in roots
        BY <2>0, <2>1 DEF root_origins
      <3>2. x \in Roots(roots)
        BY <3>1 DEF Roots
      <3>3. x \notin explicitly_selected_shared(records, roots)
        BY <2>1 DEF explicitly_selected_shared, is_shared_kind
      <3> QED BY <2>0, <3>2, <3>3 DEF InitialMembers
    <2>2. PICK rel \in observed_relationships(records[r]) : rel.kind = "pod"
      BY <2>1 DEF eligible_all_root
    <2>3. DOMAIN rel.refs \subseteq Nat /\ rel.path = "Pod"
      BY <2>0, <2>2, RelationshipShape
    <2> DEFINE found == resolve_relationship_reference(records, rel)
    <2>4. CASE found.tag = "One"
      <3>1. found.id \in DOMAIN records /\ records[found.id].kind = "pod"
        BY <2>2, <2>3, <2>4, RelationshipResolves
      <3>2. found.id \in members
        BY <2>1, <3>1 DEF eligible_all_root
      <3>3. {r, found.id} \in MembershipEdges(records)
        BY <2>2, <2>4 DEF MembershipEdges
      <3>4. {r, found.id} \in AllEdges
        BY <3>1, <3>3 DEF AllEdges, grouping_edges
      <3> QED BY <2>0, <3>2, <3>4 DEF EdgeClosed
    <2>5. CASE found.tag # "One"
      <3> DEFINE f == RecordFinding(RelationshipCode[found.tag], r, rel.path)
      <3>1. f \in RelationshipsUnresolved(records)
        BY <2>5 DEF RelationshipsUnresolved
      <3>2. f.resource = r /\ f.path = rel.path
        BY DEF RecordFinding
      <3> HIDE DEF f
      <3> QED BY <2>0, <2>3, <3>1, <3>2
    <2> QED BY <2>4, <2>5
  <1> QED BY <1>1, ReportInvariant, DiscoveryInvariant, PTL

-----------------------------------------------------------------------------
(* The two resolvers.                                                      *)

\* The records of a kind that a reference selects.
Matches(recs, kind, ref) ==
    {r \in DOMAIN recs : /\ recs[r].kind = kind
                         /\ \/ ref \in {r, recs[r].name}
                            \/ kind = "image" /\ ref \in recs[r].aliases}

AllRecords(recs) == {recs[r] : r \in DOMAIN recs}

IsSingleton(S) == \E x : S = {x}

\* Discovery and acquisition select the same records: only images have aliases.
LEMMA SameCandidates ==
    ASSUME NEW recs \in Inventories, NEW kind, NEW ref
    PROVE  /\ Targets(AllRecords(recs), kind, ref) = Matches(recs, kind, ref)
           /\ IsFiniteSet(Matches(recs, kind, ref))
  <1>1. \A r \in DOMAIN recs : recs[r].id = r /\ (recs[r].kind # "image" => recs[r].aliases = {})
    BY InventoriesAssumption
  <1>2. Targets(AllRecords(recs), kind, ref) \subseteq Matches(recs, kind, ref)
    <2> SUFFICES ASSUME NEW o \in AllRecords(recs), o.kind = kind, ref \in {o.id, o.name} \cup o.aliases
                 PROVE  o.id \in Matches(recs, kind, ref)
      BY DEF Targets
    <2>1. PICK r \in DOMAIN recs : o = recs[r]
      BY DEF AllRecords
    <2> QED BY <1>1, <2>1 DEF Matches
  <1>3. Matches(recs, kind, ref) \subseteq Targets(AllRecords(recs), kind, ref)
    <2> SUFFICES ASSUME NEW r \in Matches(recs, kind, ref)
                 PROVE  r \in Targets(AllRecords(recs), kind, ref)
      OBVIOUS
    <2>1. r \in DOMAIN recs /\ recs[r].kind = kind /\ ref \in {recs[r].id, recs[r].name} \cup recs[r].aliases
      BY <1>1 DEF Matches
    <2>2. recs[r] \in AllRecords(recs) /\ recs[r].id = r
      BY <1>1, <2>1 DEF AllRecords
    <2> QED BY <2>1, <2>2 DEF Targets
  <1>4. IsFiniteSet(Matches(recs, kind, ref))
    BY InventoriesAssumption, FS_Subset DEF Matches
  <1> QED BY <1>2, <1>3, <1>4

\* What becomes of a set of candidates.
LEMMA ResolutionOf ==
    ASSUME NEW S
    PROVE  /\ Resolution(S).tag = "One" <=> IsSingleton(S)
           /\ IsSingleton(S) => S = {Resolution(S).id}
           /\ S = {} => Resolution(S).tag = "None"
           /\ S # {} /\ ~IsSingleton(S) => Resolution(S).tag = "Many"
  <1>1. CASE S = {}
    BY <1>1 DEF Resolution, IsSingleton, None
  <1>2. CASE IsSingleton(S)
    <2>1. PICK x : S = {x}
      BY <1>2 DEF IsSingleton
    <2>2. Resolution(S) = One(x)
      BY <2>1 DEF Resolution
    <2> QED BY <1>2, <2>1, <2>2 DEF One
  <1>3. CASE S # {} /\ ~IsSingleton(S)
    <2>1. Resolution(S) = Many
      BY <1>3 DEF Resolution, IsSingleton
    <2> QED BY <1>3, <2>1 DEF Many
  <1> QED BY <1>1, <1>2, <1>3

\* The size of a finite set tells the three cases apart.
LEMMA SizeOf ==
    ASSUME NEW S, IsFiniteSet(S)
    PROVE  /\ Cardinality(S) = 1 <=> IsSingleton(S)
           /\ Cardinality(S) > 1 <=> (S # {} /\ ~IsSingleton(S))
  <1>1. Cardinality(S) \in Nat
    BY FS_CardinalityType
  <1>2. Cardinality(S) = 1 <=> IsSingleton(S)
    BY FS_Singleton DEF IsSingleton
  <1>3. Cardinality(S) = 0 <=> S = {}
    BY FS_EmptySet
  <1>4. S = {} => ~IsSingleton(S)
    BY DEF IsSingleton
  <1> QED BY <1>1, <1>2, <1>3, <1>4

\* Whatever the references of a relationship, the two resolvers agree on
\* whether it resolves and on how it fails.
LEMMA ResolversAgree ==
    ASSUME NEW recs \in Inventories, NEW rel, DOMAIN rel.refs \subseteq Nat
    PROVE  LET mine == resolve_relationship_reference(recs, rel)
               theirs == resolve_relationship_target(AllRecords(recs), rel)
           IN  /\ mine.tag = "One" <=> theirs.tag = "One"
               /\ mine.tag # "One" => RelationshipCode[mine.tag] = theirs.tag
  <1> DEFINE M(i) == Matches(recs, rel.kind, rel.refs[i])
             C(i) == Targets(AllRecords(recs), rel.kind, rel.refs[i])
             outcome == [i \in DOMAIN rel.refs |-> resolve_reference_count(recs, rel.kind, rel.refs[i])]
             failing == {i \in DOMAIN outcome : outcome[i].tag # "One"}
             found == {outcome[i].id : i \in DOMAIN outcome \ failing}
             bad == {i \in DOMAIN rel.refs : Cardinality(C(i)) # 1}
             all == UNION {C(i) : i \in DOMAIN rel.refs}
             first == CHOOSE i \in bad : \A j \in bad : i <= j
             mine == resolve_relationship_reference(recs, rel)
             theirs == resolve_relationship_target(AllRecords(recs), rel)
  <1>a. mine = IF failing # {} THEN outcome[Least(failing)]
               ELSE IF Cardinality(found) > 1 THEN Conflict ELSE Resolution(found)
    BY DEF resolve_relationship_reference
  <1>b. theirs = IF bad # {} THEN (IF C(first) = {} THEN Unresolved ELSE Ambiguous)
                 ELSE IF all = {} THEN Unresolved
                 ELSE IF Cardinality(all) = 1 THEN One(CHOOSE id \in all : TRUE) ELSE Conflict
    BY DEF resolve_relationship_target
  <1>1. \A i \in DOMAIN rel.refs :
            C(i) = M(i) /\ outcome[i] = Resolution(M(i)) /\ M(i) \subseteq DOMAIN recs /\ IsFiniteSet(M(i))
    <2> TAKE i \in DOMAIN rel.refs
    <2>1. C(i) = M(i) /\ IsFiniteSet(M(i))
      BY SameCandidates
    <2>2. outcome[i] = Resolution(M(i))
      BY DEF resolve_reference_count, Matches
    <2>3. M(i) \subseteq DOMAIN recs
      BY DEF Matches
    <2> QED BY <2>1, <2>2, <2>3
  <1>2. DOMAIN outcome = DOMAIN rel.refs
    OBVIOUS
  <1>3. first = Least(bad)
    BY DEF Least
  <1>f. failing \subseteq DOMAIN rel.refs /\ (\A i \in DOMAIN rel.refs : i \in failing <=> outcome[i].tag # "One")
    BY <1>2
  <1>g. bad \subseteq DOMAIN rel.refs /\ (\A i \in DOMAIN rel.refs : i \in bad <=> Cardinality(C(i)) # 1)
    OBVIOUS
  <1>h. /\ \A x \in found : \E i \in DOMAIN rel.refs \ failing : x = outcome[i].id
        /\ \A i \in DOMAIN rel.refs \ failing : outcome[i].id \in found
    BY <1>2
  <1>k. /\ \A x \in all : \E i \in DOMAIN rel.refs : x \in C(i)
        /\ \A i \in DOMAIN rel.refs : C(i) \subseteq all
    OBVIOUS
  <1> HIDE DEF M, C, outcome, failing, found, bad, all, first, mine, theirs
  <1>4. failing = bad
    <2>1. \A i \in DOMAIN rel.refs : outcome[i].tag = "One" <=> Cardinality(C(i)) = 1
      BY <1>1, ResolutionOf, SizeOf
    <2> QED BY <1>f, <1>g, <2>1
  <1>t. /\ Unresolved.tag = "UnresolvedRelationship" /\ Ambiguous.tag = "RelationshipAmbiguous"
        /\ Conflict.tag = "RelationshipConflict" /\ (\A id : One(id).tag = "One")
        /\ RelationshipCode["None"] = "UnresolvedRelationship"
        /\ RelationshipCode["Many"] = "RelationshipAmbiguous"
        /\ RelationshipCode["RelationshipConflict"] = "RelationshipConflict"
    BY DEF Unresolved, Ambiguous, Conflict, One, RelationshipCode
  <1>5. CASE bad # {}
    <2>1. Least(bad) \in bad
      BY <1>5, <1>g, LeastIsElement
    <2> DEFINE k == Least(bad)
    <2>2. k \in DOMAIN rel.refs /\ outcome[k].tag # "One"
      BY <1>4, <1>f, <2>1
    <2>3. mine = Resolution(M(k)) /\ theirs = IF M(k) = {} THEN Unresolved ELSE Ambiguous
      BY <1>1, <1>3, <1>4, <1>5, <1>a, <1>b, <2>2
    <2>4. mine.tag # "One"
      BY <1>1, <2>2, <2>3
    <2> HIDE DEF k
    <2>5. CASE M(k) = {}
      <3>1. mine.tag = "None" /\ theirs = Unresolved
        BY <2>3, <2>5, ResolutionOf
      <3> QED BY <3>1, <1>t DEF mine, theirs
    <2>6. CASE M(k) # {}
      <3>1. mine.tag = "Many" /\ theirs = Ambiguous
        BY <2>3, <2>4, <2>6, ResolutionOf
      <3> QED BY <3>1, <1>t DEF mine, theirs
    <2> QED BY <2>5, <2>6
  <1>6. CASE bad = {}
    <2>1. \A i \in DOMAIN rel.refs : C(i) = {outcome[i].id} /\ i \notin failing
      BY <1>1, <1>4, <1>6, <1>f, ResolutionOf
    <2>2. found = all
      <3>1. ASSUME NEW x \in found PROVE x \in all
        <4>1. PICK i \in DOMAIN rel.refs \ failing : x = outcome[i].id
          BY <1>h
        <4> QED BY <1>k, <2>1, <4>1
      <3>2. ASSUME NEW x \in all PROVE x \in found
        <4>1. PICK i \in DOMAIN rel.refs : x \in C(i)
          BY <1>k
        <4>2. x = outcome[i].id /\ i \in DOMAIN rel.refs \ failing
          BY <2>1, <4>1
        <4> QED BY <1>h, <4>2
      <3> QED BY <3>1, <3>2
    <2>3. IsFiniteSet(found)
      <3>1. found \subseteq DOMAIN recs
        BY <1>1, <1>k, <2>2
      <3> QED BY <3>1, InventoriesAssumption, FS_Subset
    <2>4. /\ Cardinality(found) = 1 <=> IsSingleton(found)
          /\ Cardinality(found) > 1 <=> (found # {} /\ ~IsSingleton(found))
      BY <2>3, SizeOf
    <2>5. mine = IF Cardinality(found) > 1 THEN Conflict ELSE Resolution(found)
      BY <1>4, <1>6, <1>a
    <2>6. theirs = IF found = {} THEN Unresolved
                   ELSE IF Cardinality(found) = 1 THEN One(CHOOSE id \in found : TRUE) ELSE Conflict
      BY <1>6, <1>b, <2>2
    <2>7. CASE found = {}
      <3>1. mine.tag = "None" /\ theirs = Unresolved
        BY <2>4, <2>5, <2>6, <2>7, ResolutionOf
      <3> QED BY <3>1, <1>t DEF mine, theirs
    <2>8. CASE IsSingleton(found)
      <3>1. found # {}
        BY <2>8 DEF IsSingleton
      <3>2. mine.tag = "One" /\ theirs.tag = "One"
        BY <1>t, <2>4, <2>5, <2>6, <2>8, <3>1, ResolutionOf
      <3> QED BY <3>2 DEF mine, theirs
    <2>9. CASE found # {} /\ ~IsSingleton(found)
      <3>1. mine = Conflict /\ theirs = Conflict
        BY <2>4, <2>5, <2>6, <2>9
      <3> QED BY <3>1, <1>t DEF mine, theirs
    <2> QED BY <2>7, <2>8, <2>9
  <1> QED BY <1>5, <1>6

\* discover reports a relationship where reconcile_relationships does with
\* every section available, and with the same code.
LEMMA DiscoveredAsReconciled ==
    ASSUME DiscoveryInv, ReportInv, phase = "done", NEW r \in DOMAIN records
    PROVE  Discovered(r) = RelationshipFindings(AllRecords(records), Kinds, records[r])
  <1>0. /\ records \in Inventories /\ RelationshipsUnresolved(records) \subseteq findings
        /\ \A f \in findings : f.path # "" => f \in RelationshipsUnresolved(records)
    BY DEF DiscoveryInv, GraphInv, ReportInv, FindingsInv
  <1> DEFINE rels == observed_relationships(records[r])
             code(rel) == RelationshipCode[resolve_relationship_reference(records, rel).tag]
             reported == {f \in findings : f.resource = r /\ f.path # ""}
             theirs == RelationshipFindings(AllRecords(records), Kinds, records[r])
  <1>1. \A rel \in rels :
            /\ rel.kind \in Kinds /\ rel.path # ""
            /\ resolve_relationship_reference(records, rel).tag = "One"
                  <=> resolve_relationship_target(AllRecords(records), rel).tag = "One"
            /\ resolve_relationship_reference(records, rel).tag # "One"
                  => code(rel) = resolve_relationship_target(AllRecords(records), rel).tag
    BY <1>0, RelationshipShape, ResolversAgree
  <1>2. rels = ObservedRels(records[r])
    BY DEF observed_relationships, ObservedRels
  <1>3. \A a, b, c : /\ RecordFinding(a, b, c).code = a /\ RecordFinding(a, b, c).resource = b
                     /\ RecordFinding(a, b, c).path = c
    BY DEF RecordFinding
  <1>4. ASSUME NEW f \in reported
        PROVE  [code |-> f.code, path |-> f.path] \in theirs
    <2>1. f \in RelationshipsUnresolved(records)
      BY <1>0
    <2>2. PICK q \in DOMAIN records :
              f \in {RecordFinding(RelationshipCode[resolve_relationship_reference(records, rel).tag], q, rel.path) :
                        rel \in {x \in observed_relationships(records[q]) :
                                    resolve_relationship_reference(records, x).tag # "One"}}
      BY <2>1 DEF RelationshipsUnresolved
    <2>3. PICK rel \in observed_relationships(records[q]) :
              /\ resolve_relationship_reference(records, rel).tag # "One"
              /\ f = RecordFinding(code(rel), q, rel.path)
      BY <2>2
    <2>4. q = r /\ f.code = code(rel) /\ f.path = rel.path
      <3>1. f.resource = q /\ f.code = code(rel) /\ f.path = rel.path
        <4> DEFINE k == code(rel)
                   p == rel.path
        <4>1. f = RecordFinding(k, q, p)
          BY <2>3
        <4>2. /\ RecordFinding(k, q, p).code = k /\ RecordFinding(k, q, p).resource = q
              /\ RecordFinding(k, q, p).path = p
          <5> HIDE DEF k, p
          <5> QED BY DEF RecordFinding
        <4> HIDE DEF k, p
        <4>3. f.resource = q /\ f.code = k /\ f.path = p
          BY <4>1, <4>2
        <4> QED BY <4>3 DEF k, p
      <3>2. f.resource = r
        OBVIOUS
      <3> QED BY <3>1, <3>2
    <2>5. /\ rel \in ObservedRels(records[r]) /\ rel.kind \in Kinds
          /\ resolve_relationship_target(AllRecords(records), rel).tag # "One"
          /\ f.code = resolve_relationship_target(AllRecords(records), rel).tag
      BY <1>1, <1>2, <2>3, <2>4
    <2> QED BY <2>4, <2>5 DEF RelationshipFindings
  <1>5. ASSUME NEW t \in theirs
        PROVE  \E f \in reported : t = [code |-> f.code, path |-> f.path]
    <2>1. PICK rel \in ObservedRels(records[r]) :
              /\ resolve_relationship_target(AllRecords(records), rel).tag # "One"
              /\ t = [code |-> resolve_relationship_target(AllRecords(records), rel).tag, path |-> rel.path]
      BY DEF RelationshipFindings
    <2> DEFINE f == RecordFinding(code(rel), r, rel.path)
    <2>2. resolve_relationship_reference(records, rel).tag # "One" /\ rel.path # ""
          /\ t = [code |-> code(rel), path |-> rel.path]
      BY <1>1, <1>2, <2>1
    <2>3. f \in RelationshipsUnresolved(records)
      <3>1. rel \in {x \in observed_relationships(records[r]) :
                         resolve_relationship_reference(records, x).tag # "One"}
        BY <1>2, <2>2
      <3>2. \E q \in DOMAIN records : f \in
              {RecordFinding(RelationshipCode[resolve_relationship_reference(records, y).tag], q, y.path) :
                  y \in {x \in observed_relationships(records[q]) :
                              resolve_relationship_reference(records, x).tag # "One"}}
        BY <3>1
      <3> QED BY <3>2 DEF RelationshipsUnresolved
    <2>4. f.code = code(rel) /\ f.resource = r /\ f.path = rel.path
      BY <1>3
    <2> HIDE DEF f
    <2>5. f \in reported /\ t = [code |-> f.code, path |-> f.path]
      BY <1>0, <2>2, <2>3, <2>4
    <2> QED BY <2>5
  <1> HIDE DEF theirs, reported
  <1>6. {[code |-> f.code, path |-> f.path] : f \in reported} = theirs
    BY <1>4, <1>5
  <1> QED BY <1>6 DEF reported, theirs, Discovered

\* A reference into a section without records does not resolve.
LEMMA EmptySection ==
    ASSUME NEW recs, NEW rel, \A r \in DOMAIN recs : recs[r].kind # rel.kind
    PROVE  resolve_relationship_target(AllRecords(recs), rel) = Unresolved
  <1> DEFINE C(i) == Targets(AllRecords(recs), rel.kind, rel.refs[i])
             bad == {i \in DOMAIN rel.refs : Cardinality(C(i)) # 1}
             all == UNION {C(i) : i \in DOMAIN rel.refs}
             first == CHOOSE i \in bad : \A j \in bad : i <= j
  <1>1. \A i : C(i) = {}
    BY DEF Targets, AllRecords
  <1>2. all = {}
    BY <1>1
  <1>3. resolve_relationship_target(AllRecords(recs), rel)
            = IF bad # {} THEN (IF C(first) = {} THEN Unresolved ELSE Ambiguous)
              ELSE IF all = {} THEN Unresolved
              ELSE IF Cardinality(all) = 1 THEN One(CHOOSE id \in all : TRUE) ELSE Conflict
    BY DEF resolve_relationship_target
  <1> HIDE DEF C, bad, all, first
  <1> QED BY <1>1, <1>2, <1>3

\* How a relationship can fail to resolve.
LEMMA FailureCodes ==
    ASSUME NEW obs, NEW rel, resolve_relationship_target(obs, rel).tag # "One"
    PROVE  resolve_relationship_target(obs, rel).tag \in RelationshipCodes
  <1> DEFINE target == resolve_relationship_target(obs, rel)
  <1>1. target \in {Unresolved, Ambiguous, Conflict} \/ \E id : target = One(id)
    BY DEF resolve_relationship_target
  <1>2. \A id : One(id).tag = "One"
    BY DEF One
  <1>3. /\ Unresolved.tag = "UnresolvedRelationship" /\ Ambiguous.tag = "RelationshipAmbiguous"
        /\ Conflict.tag = "RelationshipConflict"
    BY DEF Unresolved, Ambiguous, Conflict
  <1>4. {"UnresolvedRelationship", "RelationshipAmbiguous", "RelationshipConflict"} \subseteq RelationshipCodes
    BY DEF RelationshipCodes, RelationshipCode
  <1> HIDE DEF target
  <1>5. target.tag # "One" => target.tag \in RelationshipCodes
    BY <1>1, <1>2, <1>3, <1>4
  <1> QED BY <1>5 DEF target

\* Where the images of a container disagree, its configured image resolves.
LEMMA ConfiguredImageResolves ==
    ASSUME NEW recs \in Inventories, NEW r \in DOMAIN recs,
           NEW rel \in ObservedRels(recs[r]), rel.path = "ImageName",
           ImageFindings(AllRecords(recs), recs[r]) # {}
    PROVE  resolve_relationship_target(AllRecords(recs), rel).tag = "One"
  <1> DEFINE image == [kind |-> "image", refs |-> <<recs[r].configured_image>>]
  <1>1. rel \in observed_relationships(recs[r])
    BY DEF ObservedRels, observed_relationships
  <1>2. rel.kind = TargetKind["ImageName"] /\ rel.refs = <<recs[r].configured_image>>
    BY <1>1, InventoriesAssumption
  <1>3. rel.kind = image.kind /\ rel.refs = image.refs
    BY <1>2 DEF TargetKind
  <1>4. resolve_relationship_target(AllRecords(recs), image).tag = "One"
    BY DEF ImageFindings
  <1>5. resolve_relationship_target(AllRecords(recs), rel) = resolve_relationship_target(AllRecords(recs), image)
    <2> HIDE DEF image
    <2> QED BY <1>3 DEF resolve_relationship_target
  <1> QED BY <1>4, <1>5

\* For every inventory, every request and whatever could be listed: discover
\* and reconcile_relationships report the same relationships under the same
\* codes, except that discover also reports those to sections that could not
\* be listed and reconcile_relationships compares the two images.
THEOREM FindingsAgree == Spec => []FindingsAgreeWithInventory
  <1>1. DiscoveryInv /\ ReportInv => FindingsAgreeWithInventory
    <2> SUFFICES ASSUME DiscoveryInv, ReportInv, phase = "done",
                        NEW available \in Availabilities(records), NEW r \in DOMAIN records
                 PROVE  /\ Discovered(r) \ Acquired(r, available) = Unlisted(r, available)
                        /\ Acquired(r, available) \ Discovered(r)
                              = ImageFindings(AllRecords(records), records[r])
      BY DEF FindingsAgreeWithInventory, AllRecords
    <2> DEFINE obs == AllRecords(records)
               target(rel) == resolve_relationship_target(obs, rel)
               rels == ObservedRels(records[r])
               reconciled(K) == RelationshipFindings(obs, K, records[r])
               images == ImageFindings(obs, records[r])
               unlisted == Unlisted(r, available)
    <2>0. records \in Inventories /\ available \subseteq Kinds
          /\ (\A q \in DOMAIN records : records[q].kind \in available)
      BY DEF DiscoveryInv, GraphInv, Availabilities
    <2>1. /\ rels = observed_relationships(records[r])
          /\ \A rel \in rels : rel.kind \in Kinds /\ rel.kind = TargetKind[rel.path]
      <3>1. rels = observed_relationships(records[r])
        BY DEF observed_relationships, ObservedRels
      <3>2. \A rel \in observed_relationships(records[r]) : rel.kind = TargetKind[rel.path]
        BY <2>0, InventoriesAssumption
      <3>3. \A rel \in observed_relationships(records[r]) : rel.kind \in Kinds
        BY <2>0, RelationshipShape
      <3> HIDE DEF rels
      <3> QED BY <3>1, <3>2, <3>3
    <2>2. \A K : \A t \in reconciled(K) : \E rel \in rels :
              rel.kind \in K /\ target(rel).tag # "One" /\ t = [code |-> target(rel).tag, path |-> rel.path]
      BY DEF RelationshipFindings
    <2>3. \A K : \A rel \in rels : (rel.kind \in K /\ target(rel).tag # "One")
              => [code |-> target(rel).tag, path |-> rel.path] \in reconciled(K)
      BY DEF RelationshipFindings
    <2>4. \A rel \in rels : rel.kind \notin available => target(rel) = Unresolved
      BY <2>0, EmptySection
    <2>5. Discovered(r) = reconciled(Kinds)
      BY DiscoveredAsReconciled
    <2>6. Acquired(r, available) = reconciled(available) \cup images
      <3>1. \A t \in reconciled(available) : t.code \in RelationshipCodes
        <4> SUFFICES ASSUME NEW t \in reconciled(available) PROVE t.code \in RelationshipCodes
          OBVIOUS
        <4>1. PICK rel \in rels : target(rel).tag # "One" /\ t = [code |-> target(rel).tag, path |-> rel.path]
          BY <2>2
        <4>2. target(rel).tag \in RelationshipCodes
          BY <4>1, FailureCodes
        <4> QED BY <4>1, <4>2
      <3>2. RelationshipCodes = {"UnresolvedRelationship", "RelationshipAmbiguous", "RelationshipConflict"}
        BY DEF RelationshipCodes, RelationshipCode
      <3>3. \A t \in images : t.code \in RelationshipCodes
        BY <3>2 DEF ImageFindings
      <3>4. \A t \in MemberFindings(obs, records[r]) \cup MembershipFindings(obs, records[r]) :
                t.code \notin RelationshipCodes
        BY <3>2 DEF MemberFindings, MembershipFindings
      <3>5. Acquired(r, available)
                = {f \in UNION {reconciled(available), MemberFindings(obs, records[r]),
                                MembershipFindings(obs, records[r]), images} : f.code \in RelationshipCodes}
        BY DEF Acquired, reconcile_findings, AllRecords
      <3> HIDE DEF images, reconciled, obs
      <3> QED BY <3>1, <3>3, <3>4, <3>5
    <2>7. reconciled(Kinds) = reconciled(available) \cup unlisted
      <3>1. ASSUME NEW t \in reconciled(Kinds) PROVE t \in reconciled(available) \cup unlisted
        <4>1. PICK rel \in rels : target(rel).tag # "One" /\ t = [code |-> target(rel).tag, path |-> rel.path]
          BY <2>2
        <4>2. CASE rel.kind \in available
          BY <2>3, <4>1, <4>2
        <4>3. CASE rel.kind \notin available
          <5>1. t = [code |-> "UnresolvedRelationship", path |-> rel.path]
            BY <2>4, <4>1, <4>3 DEF Unresolved
          <5> QED BY <2>1, <4>3, <5>1 DEF Unlisted
        <4> QED BY <4>2, <4>3
      <3>2. ASSUME NEW t \in unlisted PROVE t \in reconciled(Kinds)
        <4>1. PICK rel \in rels : rel.kind \notin available
                                  /\ t = [code |-> "UnresolvedRelationship", path |-> rel.path]
          BY <2>1 DEF Unlisted
        <4>2. target(rel).tag = "UnresolvedRelationship"
          BY <2>4, <4>1 DEF Unresolved
        <4> QED BY <2>1, <2>3, <4>1, <4>2
      <3>3. ASSUME NEW t \in reconciled(available) PROVE t \in reconciled(Kinds)
        BY <2>1, <2>2, <2>3
      <3> QED BY <3>1, <3>2, <3>3
    <2>8. unlisted \cap reconciled(available) = {}
      <3>1. \A t \in unlisted : TargetKind[t.path] \notin available
        BY <2>1 DEF Unlisted
      <3>2. \A t \in reconciled(available) : TargetKind[t.path] \in available
        BY <2>1, <2>2
      <3> QED BY <3>1, <3>2
    <2>9. images \cap reconciled(Kinds) = {}
      <3> SUFFICES ASSUME NEW t \in images, t \in reconciled(Kinds) PROVE FALSE
        OBVIOUS
      <3>1. t.path = "ImageName"
        BY DEF ImageFindings
      <3>2. PICK rel \in rels : target(rel).tag # "One" /\ t = [code |-> target(rel).tag, path |-> rel.path]
        BY <2>2
      <3>3. rel.path = "ImageName"
        BY <3>1, <3>2
      <3> QED BY <2>0, <3>2, <3>3, ConfiguredImageResolves
    <2> HIDE DEF obs, reconciled, images, unlisted
    <2>10. /\ Discovered(r) \ Acquired(r, available) = unlisted
           /\ Acquired(r, available) \ Discovered(r) = images
      BY <2>5, <2>6, <2>7, <2>8, <2>9
    <2> QED BY <2>10 DEF unlisted, images, obs
  <1> QED BY <1>1, ReportInvariant, DiscoveryInvariant, PTL

-----------------------------------------------------------------------------
(* The label rule.                                                         *)

\* The keys of a namespace that a label map has.
Keys(map, ns) == {ns.project, ns.service, ns.hash} \cap DOMAIN map

\* How many values two keys can have.
LEMMA PairSize ==
    ASSUME NEW a, NEW b
    PROVE  /\ Cardinality({a, b}) = 1 <=> a = b
           /\ Cardinality({a, b}) <= 1 <=> a = b
           /\ a # b => Cardinality({a, b}) = 2
  <1>1. IsFiniteSet({a}) /\ Cardinality({a}) = 1
    BY FS_Singleton
  <1>2. Cardinality({a} \cup {b}) = IF b \in {a} THEN 1 ELSE 2
    BY <1>1, FS_AddElement
  <1>3. {a} \cup {b} = {a, b}
    OBVIOUS
  <1> QED BY <1>2, <1>3

\* label_pair and namespace_hash accept a namespace exactly if it is unused
\* or has its pair and no empty value.
LEMMA CompleteNamespace ==
    ASSUME NEW map, NEW ns
    PROVE  /\ ~NamespaceIncomplete(map, ns) <=>
                  (Keys(map, ns) # {} => /\ {ns.project, ns.service} \subseteq Keys(map, ns)
                                         /\ \A key \in Keys(map, ns) : map[key] # "")
           /\ ~NamespaceIncomplete(map, ns) => (Present(map, ns.project) <=> Keys(map, ns) # {})
  <1> USE DEF Keys, Present, Filled
  <1> DEFINE pair == {ns.project, ns.service}
  <1>0. NamespaceIncomplete(map, ns) <=>
            \/ \E key \in pair : Present(map, key) /\ \E other \in pair : ~Filled(map, other)
            \/ Present(map, ns.hash) /\ (~Filled(map, ns.hash) \/ ~Present(map, ns.project))
    BY DEF NamespaceIncomplete
  <1>1. ASSUME ~NamespaceIncomplete(map, ns), Keys(map, ns) # {}
        PROVE  {ns.project, ns.service} \subseteq Keys(map, ns) /\ Present(map, ns.project)
               /\ \A key \in Keys(map, ns) : map[key] # ""
    <2>1. Present(map, ns.project) \/ Present(map, ns.service)
      BY <1>0, <1>1
    <2>2. Filled(map, ns.project) /\ Filled(map, ns.service)
      BY <1>0, <1>1, <2>1
    <2>3. Present(map, ns.hash) => Filled(map, ns.hash)
      BY <1>0, <1>1
    <2> QED BY <2>2, <2>3
  <1>2. ASSUME {ns.project, ns.service} \subseteq Keys(map, ns),
               \A key \in Keys(map, ns) : map[key] # ""
        PROVE  ~NamespaceIncomplete(map, ns)
    BY <1>0, <1>2
  <1>3. ASSUME Keys(map, ns) = {} PROVE ~NamespaceIncomplete(map, ns)
    BY <1>0, <1>3
  <1>4. Present(map, ns.project) => Keys(map, ns) # {}
    OBVIOUS
  <1> QED BY <1>1, <1>2, <1>3, <1>4

\* compose_label_status gives a record the owner of the rule, and none where
\* its labels were not observed.
LEMMA OwnerIsTheRules ==
    ASSUME NEW rec
    PROVE  compose_label_status(rec).project = OwnerByRule(observed_labels(rec))
  <1> DEFINE map == rec.labels.map
             D == DockerNamespace
             P == PodmanNamespace
             K(ns) == Keys(map, ns)
             touched == {ns \in {D, P} : K(ns) # {}}
             used == {ns \in {D, P} : Present(map, ns.project)}
             projects == {map[ns.project] : ns \in touched}
             services == {map[ns.service] : ns \in touched}
             hashes == {map[ns.hash] : ns \in {x \in touched : x.hash \in K(x)}}
             complete == /\ \A ns \in touched : {ns.project, ns.service} \subseteq K(ns)
                         /\ \A ns \in touched : \A key \in K(ns) : map[key] # ""
             consistent == Cardinality(projects) = 1 /\ Cardinality(services) = 1 /\ Cardinality(hashes) <= 1
             status == compose_label_status(rec)
  <1>1. CASE rec.labels.state # "observed"
    <2>1. status.project = ""
      BY <1>1 DEF compose_label_status
    <2>2. \A ns : {ns.project, ns.service, ns.hash} \cap DOMAIN observed_labels(rec) = {}
      BY <1>1 DEF observed_labels
    <2>3. {observed_labels(rec)[ns.project] :
              ns \in {n \in {D, P} :
                        {n.project, n.service, n.hash} \cap DOMAIN observed_labels(rec) # {}}} = {}
      BY <2>2
    <2>4. OwnerByRule(observed_labels(rec)) = ""
      <3> DEFINE m == observed_labels(rec)
                 none == {m[ns.project] : ns \in {n \in {D, P} :
                                                   {n.project, n.service, n.hash} \cap DOMAIN m # {}}}
      <3>1. Cardinality(none) # 1
        <4> HIDE DEF none
        <4>1. none = {}
          BY <2>3 DEF none
        <4> QED BY <4>1, FS_EmptySet
      <3>2. Cardinality(none) # 1 => OwnerByRule(m) = ""
        BY DEF OwnerByRule
      <3> QED BY <3>1, <3>2
    <2> QED BY <2>1, <2>4
  <1>2. CASE rec.labels.state = "observed"
    <2>1. OwnerByRule(map) = IF complete /\ consistent THEN CHOOSE p \in projects : TRUE ELSE ""
      BY DEF OwnerByRule, Keys
    <2>2. observed_labels(rec) = map
      BY <1>2 DEF observed_labels
    <2>3. /\ (\E ns \in {D, P} : NamespaceIncomplete(map, ns)) => status.project = ""
          /\ (\A ns \in {D, P} : ~NamespaceIncomplete(map, ns)) =>
                 status.project = (IF used = {} \/ (Cardinality(used) = 2 /\ ~NamespacesAgree(map)) THEN ""
                                   ELSE map[(CHOOSE ns \in used : TRUE).project])
      <3> DEFINE Err(code) == [code |-> code, project |-> ""]
                 Ok(project) == [code |-> "", project |-> project]
                 incomplete == \E ns \in {D, P} : NamespaceIncomplete(map, ns)
                 differ == Cardinality(used) = 2 /\ ~NamespacesAgree(map)
                 one == map[(CHOOSE ns \in used : TRUE).project]
      <3>1. status = IF incomplete THEN Err("AdvisoryLabelIncomplete")
                     ELSE IF used = {} THEN Ok("")
                     ELSE IF differ THEN Err("AdvisoryLabelConflict") ELSE Ok(one)
        BY <1>2 DEF compose_label_status
      <3>2. (\A c : Err(c).project = "") /\ (\A p : Ok(p).project = p)
        OBVIOUS
      <3>3. status.project = IF incomplete \/ used = {} \/ differ THEN "" ELSE one
        <4> HIDE DEF Err, Ok, incomplete, used, differ, one, status
        <4> QED BY <3>1, <3>2
      <3> QED BY <3>3
    <2>4. complete <=> \A ns \in {D, P} : ~NamespaceIncomplete(map, ns)
      BY CompleteNamespace
    <2>5. complete => used = touched
      BY <2>4, CompleteNamespace
    <2>6. CASE ~complete
      BY <2>1, <2>2, <2>3, <2>4, <2>6
    <2>7. CASE complete
      <3>0. status.project = (IF used = {} \/ (Cardinality(used) = 2 /\ ~NamespacesAgree(map)) THEN ""
                              ELSE map[(CHOOSE ns \in used : TRUE).project])
        BY <2>3, <2>4, <2>7
      <3>1. D # P
        BY DEF DockerNamespace, PodmanNamespace
      <3>2. used = touched
        BY <2>5, <2>7
      <3>3. touched \in {{}, {D}, {P}, {D, P}}
        OBVIOUS
      <3>4. OwnerByRule(map) = IF consistent THEN CHOOSE p \in projects : TRUE ELSE ""
        BY <2>1, <2>7
      <3>5. CASE touched = {}
        <4>1. projects = {}
          BY <3>5
        <4>2. ~consistent
          <5>1. Cardinality(projects) = 0
            BY <4>1, FS_EmptySet
          <5> QED BY <5>1
        <4> QED BY <2>2, <3>0, <3>2, <3>4, <3>5, <4>2
      <3>6. ASSUME NEW ns, touched = {ns} PROVE status.project = OwnerByRule(map)
        <4>1. projects = {map[ns.project]} /\ services = {map[ns.service]}
          BY <3>6
        <4>2. hashes \subseteq {map[ns.hash]}
          BY <3>6
        <4>3. Cardinality(projects) = 1 /\ Cardinality(services) = 1
          BY <4>1, FS_Singleton
        <4>4. Cardinality(hashes) <= 1
          <5>1. hashes = {} \/ hashes = {map[ns.hash]}
            BY <4>2
          <5> HIDE DEF hashes
          <5>2. Cardinality(hashes) \in {0, 1}
            BY <5>1, FS_Singleton, FS_EmptySet
          <5> QED BY <5>2
        <4>5. (CHOOSE p \in projects : TRUE) = map[ns.project]
          BY <4>1
        <4>6. used = {ns} /\ Cardinality(used) = 1 /\ (CHOOSE n \in used : TRUE) = ns
          BY <3>2, <3>6, FS_Singleton
        <4>7. status.project = map[ns.project]
          <5> DEFINE any == CHOOSE n \in used : TRUE
          <5>1. status.project = IF used = {} \/ (Cardinality(used) = 2 /\ ~NamespacesAgree(map)) THEN ""
                                 ELSE map[any.project]
            BY <3>0
          <5>2. used # {} /\ Cardinality(used) # 2 /\ any = ns
            BY <4>6
          <5> HIDE DEF used, status, any
          <5> QED BY <5>1, <5>2
        <4> QED BY <3>4, <4>3, <4>4, <4>5, <4>7
      <3>7. CASE touched = {D, P}
        <4>1. projects = {map[D.project], map[P.project]} /\ services = {map[D.service], map[P.service]}
          BY <3>7
        <4>2. Cardinality(hashes) <= 1 <=>
                  ((D.hash \in DOMAIN map /\ P.hash \in DOMAIN map) => map[D.hash] = map[P.hash])
          <5>1. \A ns : ns.hash \in K(ns) <=> ns.hash \in DOMAIN map
            BY DEF Keys
          <5>2. hashes = {map[ns.hash] : ns \in {x \in {D, P} : x.hash \in DOMAIN map}}
            BY <3>7, <5>1
          <5>3. CASE D.hash \in DOMAIN map /\ P.hash \in DOMAIN map
            <6>1. hashes = {map[D.hash], map[P.hash]}
              BY <5>2, <5>3
            <6> HIDE DEF hashes, D, P
            <6> QED BY <5>3, <6>1, PairSize
          <5>4. CASE ~(D.hash \in DOMAIN map /\ P.hash \in DOMAIN map)
            <6>1. hashes \in {{}, {map[D.hash]}, {map[P.hash]}}
              BY <5>2, <5>4
            <6> HIDE DEF hashes, D, P
            <6>2. Cardinality(hashes) \in {0, 1}
              BY <6>1, FS_Singleton, FS_EmptySet
            <6> QED BY <5>4, <6>2
          <5> QED BY <5>3, <5>4
        <4>3. NamespacesAgree(map) <=>
                  /\ map[D.project] = map[P.project] /\ map[D.service] = map[P.service]
                  /\ (D.hash \in DOMAIN map /\ P.hash \in DOMAIN map) => map[D.hash] = map[P.hash]
          BY DEF NamespacesAgree
        <4>4. consistent <=> NamespacesAgree(map)
          <5> HIDE DEF projects, services, hashes, D, P
          <5>1. Cardinality(projects) = 1 <=> map[D.project] = map[P.project]
            BY <4>1, PairSize
          <5>2. Cardinality(services) = 1 <=> map[D.service] = map[P.service]
            BY <4>1, PairSize
          <5> QED BY <4>2, <4>3, <5>1, <5>2
        <4>5. used # {} /\ Cardinality(used) = 2 /\ (CHOOSE n \in used : TRUE) \in {D, P}
          <5>1. used = {D, P}
            BY <3>2, <3>7
          <5> HIDE DEF used, D, P
          <5> QED BY <3>1, <5>1, PairSize
        <4>6. CASE NamespacesAgree(map)
          <5>1. (CHOOSE p \in projects : TRUE) = map[D.project]
            <6> HIDE DEF projects, D, P
            <6>1. projects = {map[D.project]}
              BY <4>1, <4>3, <4>6
            <6> QED BY <6>1
          <5>2. map[(CHOOSE n \in used : TRUE).project] = map[D.project]
            <6> HIDE DEF used, D, P
            <6> QED BY <4>3, <4>5, <4>6
          <5> HIDE DEF used, D, P, projects, consistent, status
          <5> QED BY <2>2, <3>0, <3>4, <4>4, <4>5, <4>6, <5>1, <5>2 DEF status
        <4>7. CASE ~NamespacesAgree(map)
          <5> HIDE DEF used, D, P, projects, consistent, status
          <5> QED BY <2>2, <3>0, <3>4, <4>4, <4>5, <4>7 DEF status
        <4> QED BY <4>6, <4>7
      <3> QED BY <2>2, <3>3, <3>5, <3>6, <3>7
    <2> QED BY <2>6, <2>7
  <1> QED BY <1>1, <1>2

\* For every inventory and whatever its labels: two members that nothing else
\* relates are merged exactly if ADR 0003 gives them one owner.
THEOREM LabelsGroup == Spec => []LabelsGroupByRule
  <1>1. DiscoveryInv /\ ReportInv => LabelsGroupByRule
    <2> SUFFICES ASSUME DiscoveryInv, ReportInv, phase = "done", NEW a \in members, NEW b \in members,
                        a # b,
                        {a, b} \notin MembershipEdges(records)
                                        \cup ContainerEdges(records, collect_dependencies(records)),
                        {records[a].kind, records[b].kind} \subseteq {"container", "pod"}
                 PROVE  (/\ OwnerByRule(observed_labels(records[a])) # ""
                         /\ OwnerByRule(observed_labels(records[a])) = OwnerByRule(observed_labels(records[b])))
                        <=> Merged(result.explanations, {a, b})
      BY DEF LabelsGroupByRule, Merged
    <2>1. Merged(result.explanations, {a, b}) <=> {a, b} \in AllEdges
      BY DEF ReportInv, ReturnInv
    <2>2. a \in DOMAIN records /\ b \in DOMAIN records
      BY DEF DiscoveryInv, TypeOK
    <2>3. {a, b} \in AllEdges <=> {a, b} \in OwnershipEdges(records)
      BY DEF AllEdges, grouping_edges
    <2> DEFINE own(r) == compose_ownership_index(records, r)
    <2>4. {a, b} \in OwnershipEdges(records) <=> own(a) # "" /\ own(a) = own(b)
      <3>1. ASSUME {a, b} \in OwnershipEdges(records) PROVE own(a) # "" /\ own(a) = own(b)
        <4>1. PICK r \in DOMAIN records :
                  own(r) # "" /\ \E other \in DOMAIN records : own(other) = own(r) /\ {a, b} = {r, other}
          <5>1. PICK r \in {x \in DOMAIN records : /\ records[x].kind \in {"container", "pod"}
                                                  /\ compose_ownership_index(records, x) # ""} :
                   {a, b} \in {{r, other} : other \in
                                  {x \in DOMAIN records :
                                      /\ records[x].kind \in {"container", "pod"}
                                      /\ compose_ownership_index(records, x) = compose_ownership_index(records, r)}}
            BY <3>1 DEF OwnershipEdges
          <5> QED BY <5>1
        <4>2. PICK other \in DOMAIN records : own(other) = own(r) /\ {a, b} = {r, other}
          BY <4>1
        <4>3. (a = r /\ b = other) \/ (a = other /\ b = r)
          BY <4>2
        <4> QED BY <4>1, <4>2, <4>3
      <3>2. ASSUME own(a) # "", own(a) = own(b) PROVE {a, b} \in OwnershipEdges(records)
        <4>1. /\ a \in {x \in DOMAIN records : /\ records[x].kind \in {"container", "pod"}
                                              /\ compose_ownership_index(records, x) # ""}
              /\ b \in {x \in DOMAIN records :
                            /\ records[x].kind \in {"container", "pod"}
                            /\ compose_ownership_index(records, x) = compose_ownership_index(records, a)}
          BY <2>2, <3>2
        <4> DEFINE owned == {x \in DOMAIN records : /\ records[x].kind \in {"container", "pod"}
                                                  /\ compose_ownership_index(records, x) # ""}
                   same(r) == {{r, other} : other \in
                                 {x \in DOMAIN records :
                                     /\ records[x].kind \in {"container", "pod"}
                                     /\ compose_ownership_index(records, x) = compose_ownership_index(records, r)}}
        <4>2. a \in owned /\ {a, b} \in same(a)
          BY <4>1
        <4>3. OwnershipEdges(records) = UNION {same(r) : r \in owned}
          BY DEF OwnershipEdges
        <4> HIDE DEF owned, same
        <4> QED BY <4>2, <4>3
      <3> QED BY <3>1, <3>2
    <2>5. /\ own(a) = OwnerByRule(observed_labels(records[a]))
          /\ own(b) = OwnerByRule(observed_labels(records[b]))
      BY OwnerIsTheRules DEF compose_ownership_index
    <2> QED BY <2>1, <2>3, <2>4, <2>5
  <1> QED BY <1>1, ReportInvariant, DiscoveryInvariant, PTL
=============================================================================
