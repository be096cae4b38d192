----------------------------- MODULE Discovery -----------------------------
(***************************************************************************)
(* discover (src/src/discovery.rs): selectors pick roots from an acquired  *)
(* inventory, roots grow to a closure along grouping evidence and across   *)
(* authorized boundaries, the closure splits into groups, and every        *)
(* boundary decision is explained.                                         *)
(*                                                                         *)
(* An identity is a number, its native id too; the order of the numbers is *)
(* the order of identities.  A record is                                   *)
(*   [id, kind, name, aliases, rels, labels, infra,                        *)
(*    configured_image, local_image]                                       *)
(* where rels is the decoded relationship list of Relationships, labels is *)
(* [state, map], infra the decoded infra marker, and the images are the    *)
(* two spellings of a container's image (0 for none; discover reads only   *)
(* the relationship).  A request is                                        *)
(*   [roots, all, overrides, label_selectors].                             *)
(* Which sections of the inventory were available discover does not read,  *)
(* so it is no part of the state: properties about it are stated for every *)
(* availability the records allow.                                         *)
(* Names are numbers too, so what starts_with answers is a parameter.      *)
(***************************************************************************)
EXTENDS Relationships

CONSTANTS
    Inventories,   \* functions from identities to records
    Requests,      \* what a caller can ask for
    StartsWith     \* <<name, prefix>> for every name and prefix of it

Kinds == {"container", "pod", "network", "volume", "image", "secret"}

observed_relationships(rec) == IF rec.rels.state = "observed" THEN rec.rels.refs ELSE {}

\* What acquisition delivers: finitely many records under their identities;
\* only images have aliases, only containers and pods have relationships,
\* and these are the ones relationship_field decodes; the relationship to an
\* image is the configured one.
ASSUME InventoriesAssumption ==
    \A inv \in Inventories :
        /\ IsFiniteSet(DOMAIN inv)
        /\ \A r \in DOMAIN inv :
              /\ r \in Nat /\ inv[r].id = r /\ inv[r].kind \in Kinds
              /\ inv[r].kind # "image" => inv[r].aliases = {}
              /\ \A rel \in observed_relationships(inv[r]) :
                    /\ inv[r].kind \in {"container", "pod"}
                    /\ rel.path \in IF inv[r].kind = "pod" THEN PodFields ELSE ContainerFields
                    /\ rel.kind = TargetKind[rel.path] /\ rel.refs \in Seq(Nat)
                    /\ rel.path = "ImageName" => rel.refs = <<inv[r].configured_image>>

VARIABLES
    records,      \* the inventory, by identity
    request,
    phase,        \* "collect", "select", "expand", "cross", "group", "done" or "rejected"
    graph,        \* dependencies and grouping edges of the whole inventory
    roots,        \* root_origins: <<identity, origin>>
    members,      \* the closure so far
    pending,      \* work list of expand_group_members and grouped_members
    before,       \* members at the start of the closure loop's iteration
    boundaries,   \* prerequisite networks still to cross in this iteration
    crossed,      \* crossed_network_boundaries
    remaining,    \* members without a group
    component,    \* the group being collected
    groups,       \* the finished groups, as sets of members
    findings,
    result        \* the groups and explanations returned

vars == <<records, request, phase, graph, roots, members, pending, before,
          boundaries, crossed, remaining, component, groups, findings, result>>

Least(S) == CHOOSE x \in S : \A y \in S : x <= y

is_shared_kind(kind) == kind \in {"network", "volume", "image", "secret"}

-----------------------------------------------------------------------------
(* References and selectors.                                               *)

None == [tag |-> "None"]
Many == [tag |-> "Many"]

Resolution(matched) ==
    IF matched = {} THEN None
    ELSE IF \E r \in matched : matched = {r} THEN One(CHOOSE r \in matched : TRUE)
    ELSE Many

resolve_reference_count(recs, kind, ref) ==
    Resolution({r \in DOMAIN recs :
                   /\ recs[r].kind = kind
                   /\ \/ ref \in {r, recs[r].name}
                      \/ kind = "image" /\ ref \in recs[r].aliases})

\* Slip: only the first of the references is resolved.
resolve_first_reference(recs, rel) == resolve_reference_count(recs, rel.kind, rel.refs[1])

\* All references of one relationship must agree on one record; the first
\* that does not resolve decides.
resolve_relationship_reference(recs, rel) ==
    LET outcome == [i \in DOMAIN rel.refs |->
                        resolve_reference_count(recs, rel.kind, rel.refs[i])]
        failing == {i \in DOMAIN outcome : outcome[i].tag # "One"}
        found == {outcome[i].id : i \in DOMAIN outcome \ failing}
    IN  IF failing # {} THEN outcome[Least(failing)]
        ELSE IF Cardinality(found) > 1 THEN Conflict
        ELSE Resolution(found)

RelationshipCode ==
    [None |-> "UnresolvedRelationship", Many |-> "RelationshipAmbiguous",
     RelationshipConflict |-> "RelationshipConflict"]

SelectorCode == [None |-> "SelectorUnresolved", Many |-> "SelectorAmbiguous"]

RecordFinding(code, r, path) == [code |-> code, resource |-> r, path |-> path, selector |-> {}]
SelectorFinding(code, sel) == [code |-> code, resource |-> 0, path |-> "", selector |-> {sel}]

resolve_selector(recs, sel) == resolve_reference_count(recs, sel.kind, sel.reference)

\* Only names have prefixes; ids and image aliases are matched exactly.
resolve_prefix_selector(recs, sel) ==
    {r \in DOMAIN recs : recs[r].kind = sel.kind /\ <<recs[r].name, sel.reference>> \in StartsWith}

SelectedBy(recs, sel) ==
    IF sel.match = "prefix" THEN resolve_prefix_selector(recs, sel)
    ELSE LET resolution == resolve_selector(recs, sel)
         IN  IF resolution.tag = "One" THEN {resolution.id} ELSE {}

SelectorFindings(recs, sel) ==
    IF SelectedBy(recs, sel) # {} THEN {}
    ELSE IF sel.match = "prefix" THEN {SelectorFinding("SelectorUnresolved", sel)}
    ELSE {SelectorFinding(SelectorCode[resolve_selector(recs, sel).tag], sel)}

observed_labels(rec) == IF rec.labels.state = "observed" THEN rec.labels.map ELSE <<>>

\* A label selector asks for a key, and for its value when exact.
LabelSelected(recs, sel) ==
    {r \in DOMAIN recs :
        /\ sel.name \in DOMAIN observed_labels(recs[r])
        /\ sel.exact => observed_labels(recs[r])[sel.name] = sel.value}

-----------------------------------------------------------------------------
(* Compose ownership labels.                                               *)

DockerNamespace == [project |-> "docker.project", service |-> "docker.service", hash |-> "docker.hash"]
PodmanNamespace == [project |-> "podman.project", service |-> "podman.service", hash |-> "podman.hash"]

Present(map, key) == key \in DOMAIN map
Filled(map, key) == key \in DOMAIN map /\ map[key] # ""

\* label_pair and namespace_hash: neither key, or both filled; a hash only
\* beside a pair and not empty.
NamespaceIncomplete(map, ns) ==
    LET pair == {ns.project, ns.service}
    IN  \/ \E key \in pair : Present(map, key) /\ \E other \in pair : ~Filled(map, other)
        \/ Present(map, ns.hash) /\ (~Filled(map, ns.hash) \/ ~Present(map, ns.project))

\* Slip: the services of the two namespaces are not compared.
NamespacesAgree_project_only(map) ==
    map[DockerNamespace.project] = map[PodmanNamespace.project]

NamespacesAgree(map) ==
    /\ map[DockerNamespace.project] = map[PodmanNamespace.project]
    /\ map[DockerNamespace.service] = map[PodmanNamespace.service]
    /\ ({DockerNamespace.hash, PodmanNamespace.hash} \subseteq DOMAIN map)
           => map[DockerNamespace.hash] = map[PodmanNamespace.hash]

\* The project that owns a record, "" for none, or the code of a finding.
compose_label_status(rec) ==
    LET map == rec.labels.map
        used == {ns \in {DockerNamespace, PodmanNamespace} : Present(map, ns.project)}
        Err(code) == [code |-> code, project |-> ""]
        Ok(project) == [code |-> "", project |-> project]
    IN  IF rec.labels.state = "absent" THEN Ok("")
        ELSE IF rec.labels.state # "observed" THEN Err("AdvisoryLabelIncomplete")
        ELSE IF \E ns \in {DockerNamespace, PodmanNamespace} : NamespaceIncomplete(map, ns)
               THEN Err("AdvisoryLabelIncomplete")
        ELSE IF used = {} THEN Ok("")
        ELSE IF Cardinality(used) = 2 /\ ~NamespacesAgree(map) THEN Err("AdvisoryLabelConflict")
        ELSE Ok(map[(CHOOSE ns \in used : TRUE).project])

compose_ownership_index(recs, r) == compose_label_status(recs[r]).project

advisory_label_findings(recs) ==
    {RecordFinding(compose_label_status(recs[r]).code, r, "") :
        r \in {x \in DOMAIN recs : compose_label_status(recs[x]).code # ""}}

-----------------------------------------------------------------------------
(* Edges.                                                                  *)

PodMember(recs, r, rel) == recs[r].kind = "pod" /\ rel.kind = "container"

\* Relationships that are dependencies: all but a pod's list of members.
DependencyRels(recs, r) == {rel \in observed_relationships(recs[r]) : ~PodMember(recs, r, rel)}

collect_dependencies(recs) ==
    UNION {{<<r, resolve_relationship_reference(recs, rel).id>> :
                rel \in {x \in DependencyRels(recs, r) :
                            resolve_relationship_reference(recs, x).tag = "One"}} :
           r \in DOMAIN recs}

\* A relationship that does not resolve is reported by collect_dependencies,
\* a pod's member by grouping_edges.
RelationshipsUnresolved(recs) ==
    UNION {{RecordFinding(RelationshipCode[resolve_relationship_reference(recs, rel).tag], r, rel.path) :
                rel \in {x \in observed_relationships(recs[r]) :
                            resolve_relationship_reference(recs, x).tag # "One"}} :
           r \in DOMAIN recs}

\* relationship_state_blocks_discovery: a record whose list was not decoded.
RelationshipsBlocked(recs) ==
    {RecordFinding("RelationshipConflict", r, "") :
        r \in {x \in DOMAIN recs : recs[x].rels.state \notin {"absent", "observed"}}}

\* Slip: only the pod's list of members is evidence of membership.
MembershipEdges_pod_side(recs) ==
    UNION {{{r, resolve_relationship_reference(recs, rel).id} :
                rel \in {x \in observed_relationships(recs[r]) :
                            /\ PodMember(recs, r, x)
                            /\ resolve_relationship_reference(recs, x).tag = "One"}} :
           r \in DOMAIN recs}

\* Either side of a pod membership is evidence for it.
MembershipEdges(recs) ==
    UNION {{{r, resolve_relationship_reference(recs, rel).id} :
                rel \in {x \in observed_relationships(recs[r]) :
                            /\ <<recs[r].kind, x.kind>> \in {<<"pod", "container">>, <<"container", "pod">>}
                            /\ resolve_relationship_reference(recs, x).tag = "One"}} :
           r \in DOMAIN recs}

ContainerEdges(recs, dependencies) ==
    {{d[1], d[2]} : d \in {x \in dependencies : recs[x[1]].kind = "container"
                                                /\ recs[x[2]].kind = "container"}}

\* Containers and pods of one project.
OwnershipEdges(recs) ==
    UNION {{{r, other} :
                other \in {x \in DOMAIN recs :
                              /\ recs[x].kind \in {"container", "pod"}
                              /\ compose_ownership_index(recs, x) = compose_ownership_index(recs, r)}} :
           r \in {x \in DOMAIN recs : /\ recs[x].kind \in {"container", "pod"}
                                     /\ compose_ownership_index(recs, x) # ""}}

\* insert_grouping_edge refuses an edge from a record to itself.
grouping_edges(recs, dependencies) ==
    {e \in MembershipEdges(recs) \cup ContainerEdges(recs, dependencies) \cup OwnershipEdges(recs) :
        \A r \in e : e # {r}}

grouping_adjacency(edges, r) == (UNION {e \in edges : r \in e}) \ {r}

reverse_dependencies(dependencies, r) == {d[1] : d \in {x \in dependencies : x[2] = r}}

-----------------------------------------------------------------------------
(* Roots.                                                                  *)

\* Slip: a container whose relationships were not decoded is left out.
eligible_all_root_decoded(recs, dependencies, r) ==
    CASE recs[r].kind = "pod" -> TRUE
      [] recs[r].kind = "container" ->
            /\ recs[r].infra \in {"absent", "false"}
            /\ recs[r].rels.state = "observed"
            /\ \A rel \in observed_relationships(recs[r]) : rel.kind # "pod"
      [] recs[r].kind = "image" -> compose_ownership_index(recs, r) # ""
      [] OTHER -> reverse_dependencies(dependencies, r) = {}

\* select_all starts from pods, from containers that are in no pod and no
\* infra containers, from unused shared resources, and from owned images.
eligible_all_root(recs, dependencies, r) ==
    CASE recs[r].kind = "pod" -> TRUE
      [] recs[r].kind = "container" ->
            /\ recs[r].infra \in {"absent", "false"}
            /\ \A rel \in observed_relationships(recs[r]) : rel.kind # "pod"
      [] recs[r].kind = "image" -> compose_ownership_index(recs, r) # ""
      [] OTHER -> reverse_dependencies(dependencies, r) = {}

root_origins(recs, req, dependencies) ==
    UNION {UNION {{<<r, sel>> : r \in SelectedBy(recs, sel)} : sel \in req.roots},
           UNION {{<<r, sel>> : r \in LabelSelected(recs, sel)} : sel \in req.label_selectors},
           {<<r, [all |-> TRUE]>> :
               r \in {x \in DOMAIN recs : req.all /\ eligible_all_root(recs, dependencies, x)}}}

Roots(origins) == {o[1] : o \in origins}

explicitly_selected_shared(recs, origins) ==
    {r \in Roots(origins) : is_shared_kind(recs[r].kind)}

\* A selected shared resource stands for its consumers, or for itself when
\* it has none.
InitialMembers(recs, origins, dependencies) ==
    LET shared == explicitly_selected_shared(recs, origins)
    IN  (Roots(origins) \ shared)
        \cup {r \in shared : reverse_dependencies(dependencies, r) = {}}
        \cup UNION {reverse_dependencies(dependencies, r) : r \in shared}

OverrideSelector(identifier) == [kind |-> "network", reference |-> identifier, match |-> "exact"]

\* <<identifier, network>> for every override that resolves.
resolve_network_boundaries(recs, req) ==
    UNION {{<<o, r>> : r \in SelectedBy(recs, OverrideSelector(o))} : o \in req.overrides}

RequestFindings(recs, req) ==
    UNION {UNION {SelectorFindings(recs, sel) : sel \in req.roots},
           UNION {SelectorFindings(recs, OverrideSelector(o)) : o \in req.overrides},
           {SelectorFinding("SelectorUnresolved", sel) :
               sel \in {x \in req.label_selectors : LabelSelected(recs, x) = {}}}}

-----------------------------------------------------------------------------
(* discover.                                                               *)

NoResult == [groups |-> {}, shared |-> {}, explanations |-> {}]

Init ==
    /\ records \in Inventories
    /\ request \in Requests
    /\ phase = "collect"
    /\ graph = [dependencies |-> {}, edges |-> {}]
    /\ roots = {} /\ members = {} /\ pending = {} /\ before = {}
    /\ boundaries = {} /\ crossed = {}
    /\ remaining = {} /\ component = {} /\ groups = {}
    /\ findings = {}
    /\ result = NoResult

RequestIsEmpty == ~request.all /\ request.roots = {} /\ request.label_selectors = {}

RejectRequest ==
    /\ phase = "collect"
    /\ RequestIsEmpty
    /\ phase' = "rejected"
    /\ UNCHANGED <<records, request, graph, roots, members, pending, before,
                   boundaries, crossed, remaining, component, groups, findings, result>>

\* The dependencies of the whole inventory, and what is wrong with its evidence.
CollectDependencies ==
    /\ phase = "collect"
    /\ ~RequestIsEmpty
    /\ phase' = "select"
    /\ graph' = [graph EXCEPT !.dependencies = collect_dependencies(records)]
    /\ findings' = UNION {advisory_label_findings(records), RelationshipsUnresolved(records),
                          RelationshipsBlocked(records)}
    /\ UNCHANGED <<records, request, roots, members, pending, before, boundaries, crossed,
                   remaining, component, groups, result>>

\* Grouping edges, roots, and the start of the closure loop's first iteration.
SelectRoots ==
    /\ phase = "select"
    /\ phase' = "expand"
    /\ graph' = [graph EXCEPT !.edges = grouping_edges(records, graph.dependencies)]
    /\ roots' = root_origins(records, request, graph.dependencies)
    /\ members' = InitialMembers(records, roots', graph.dependencies)
    /\ pending' = members'
    /\ before' = members'
    /\ findings' = findings \cup RequestFindings(records, request)
    /\ UNCHANGED <<records, request, boundaries, crossed, remaining, component, groups, result>>

\* One pop of the work list.  The code pops the last entry; the model pops
\* any, so what is shown does not depend on the visiting order.
expand_group_members ==
    /\ phase = "expand"
    /\ \E r \in pending :
          LET new == grouping_adjacency(graph.edges, r) \ members
          IN  /\ members' = members \cup new
              /\ pending' = (pending \ {r}) \cup new
    /\ UNCHANGED <<records, request, phase, graph, roots, before, boundaries, crossed,
                   remaining, component, groups, findings, result>>

NetworkBoundaries == {b[2] : b \in resolve_network_boundaries(records, request)}

\* The authorized networks a member depends on.
prerequisite_networks ==
    {n \in NetworkBoundaries : reverse_dependencies(graph.dependencies, n) \cap members # {}}

CollectBoundaries ==
    /\ phase = "expand"
    /\ pending = {}
    /\ phase' = "cross"
    /\ boundaries' = prerequisite_networks
    /\ UNCHANGED <<records, request, graph, roots, members, pending, before, crossed,
                   remaining, component, groups, findings, result>>

\* Slip: a crossing is not recorded.
CrossedBy_never(network, consumers) == {}

CrossedBy(network, consumers) == IF consumers \subseteq members THEN {} ELSE {network}

\* The direct consumers of one authorized network join, in identity order.
CrossBoundary ==
    /\ phase = "cross"
    /\ boundaries # {}
    /\ LET network == Least(boundaries)
           consumers == reverse_dependencies(graph.dependencies, network)
       IN  /\ boundaries' = boundaries \ {network}
           /\ members' = members \cup consumers
           /\ crossed' = crossed \cup CrossedBy(network, consumers)
    /\ UNCHANGED <<records, request, phase, graph, roots, pending, before,
                   remaining, component, groups, findings, result>>

\* Slip: the loop runs once.
LoopAgain_never == FALSE

\* members only grows, so equal sizes mean equal sets.
LoopAgain == members # before

\* Slip: the size to compare with is not taken again.
RepeatClosure_stale ==
    /\ phase = "cross"
    /\ boundaries = {}
    /\ LoopAgain
    /\ phase' = "expand"
    /\ pending' = members
    /\ UNCHANGED <<records, request, graph, roots, members, before, boundaries, crossed,
                   remaining, component, groups, findings, result>>

RepeatClosure ==
    /\ phase = "cross"
    /\ boundaries = {}
    /\ LoopAgain
    /\ phase' = "expand"
    /\ before' = members
    /\ pending' = members
    /\ UNCHANGED <<records, request, graph, roots, members, boundaries, crossed,
                   remaining, component, groups, findings, result>>

CloseClosure ==
    /\ phase = "cross"
    /\ boundaries = {}
    /\ ~LoopAgain
    /\ phase' = "group"
    /\ remaining' = members
    /\ UNCHANGED <<records, request, graph, roots, members, pending, before, boundaries,
                   crossed, component, groups, findings, result>>

\* grouped_members: a group starts at the least ungrouped member, ...
StartGroup ==
    /\ phase = "group"
    /\ pending = {} /\ component = {} /\ remaining # {}
    /\ component' = {Least(remaining)}
    /\ pending' = {Least(remaining)}
    /\ UNCHANGED <<records, request, phase, graph, roots, members, before, boundaries,
                   crossed, remaining, groups, findings, result>>

\* Slip: the neighbours of a neighbour are not visited.
GrowGroup_direct ==
    /\ phase = "group"
    /\ \E r \in pending :
          /\ component' = component \cup (grouping_adjacency(graph.edges, r) \cap remaining)
          /\ pending' = pending \ {r}
    /\ UNCHANGED <<records, request, phase, graph, roots, members, before, boundaries,
                   crossed, remaining, groups, findings, result>>

\* ... takes in neighbours that have no group yet, in any order, ...
GrowGroup ==
    /\ phase = "group"
    /\ \E r \in pending :
          LET new == (grouping_adjacency(graph.edges, r) \cap remaining) \ component
          IN  /\ component' = component \cup new
              /\ pending' = (pending \ {r}) \cup new
    /\ UNCHANGED <<records, request, phase, graph, roots, members, before, boundaries,
                   crossed, remaining, groups, findings, result>>

\* ... and leaves the remaining members when no neighbour is left.
PushGroup ==
    /\ phase = "group"
    /\ pending = {} /\ component # {}
    /\ groups' = groups \cup {component}
    /\ remaining' = remaining \ component
    /\ component' = {}
    /\ UNCHANGED <<records, request, phase, graph, roots, members, pending, before,
                   boundaries, crossed, findings, result>>

-----------------------------------------------------------------------------
(* The returned graph.                                                     *)

GroupPrerequisites(g) ==
    {d[2] : d \in {x \in graph.dependencies : x[1] \in g /\ x[2] \notin g}}

ResourceGroup(g) == [id |-> Least(g), members |-> g, prerequisites |-> GroupPrerequisites(g)]

\* Prerequisites of more than one group.
shared_prerequisites(gs) ==
    {r \in UNION {g.prerequisites : g \in gs} :
        \E g, h \in gs : g # h /\ r \in g.prerequisites /\ r \in h.prerequisites}

Explanation(kind, resource, related) ==
    [kind |-> kind, resource |-> resource, related |-> related, origin |-> {}]

authorized_shared_crossings ==
    {r \in explicitly_selected_shared(records, roots) :
        reverse_dependencies(graph.dependencies, r) # {}}

\* Slip: consumers are looked up in the filtered dependencies.
StoppedBoundaries_selected(g) ==
    {r \in g.prerequisites :
        /\ is_shared_kind(records[r].kind)
        /\ (reverse_dependencies(graph.dependencies, r) \cap members) \ g.members # {}
        /\ r \notin explicitly_selected_shared(records, roots) \cup crossed}

\* A shared prerequisite with consumers outside the group, crossed by nobody.
StoppedBoundaries(g) ==
    {r \in g.prerequisites :
        /\ is_shared_kind(records[r].kind)
        /\ reverse_dependencies(graph.dependencies, r) \ g.members # {}
        /\ r \notin explicitly_selected_shared(records, roots) \cup crossed}

\* The position of a group is the rank of its id.
GroupExplanations(g) ==
    {Explanation("GroupOrdering", g.id, {})}
    \cup {Explanation("IncludedMember", r, {g.id}) : r \in g.members}
    \cup {Explanation("Prerequisite", r, {g.id}) : r \in g.prerequisites}
    \cup {Explanation("StoppedSharedBoundary", r, {g.id}) : r \in StoppedBoundaries(g)}

Explanations(gs) ==
    {[Explanation("Root", o[1], {}) EXCEPT !.origin = {o[2]}] : o \in roots}
    \cup {Explanation("StrongEvidenceMerge", Least(e), e \ {Least(e)}) :
             e \in {x \in graph.edges : x \subseteq members}}
    \cup {Explanation("AuthorizedSharedCrossing", r, {}) : r \in authorized_shared_crossings}
    \cup {Explanation("AuthorizedNetworkCrossing", r, {}) : r \in crossed}
    \cup (UNION {GroupExplanations(g) : g \in gs})

UnusedOverrides ==
    {b[1] : b \in {x \in resolve_network_boundaries(records, request) : x[2] \notin crossed}}

ReturnGraph ==
    /\ phase = "group"
    /\ pending = {} /\ component = {} /\ remaining = {}
    /\ LET gs == {ResourceGroup(g) : g \in groups}
       IN  result' = [groups |-> gs, shared |-> shared_prerequisites(gs),
                      explanations |-> Explanations(gs)]
    /\ findings' = findings \cup {SelectorFinding("BoundaryOverrideUnused", OverrideSelector(o)) : o \in UnusedOverrides}
    /\ graph' = [dependencies |-> {d \in graph.dependencies : d[1] \in members},
                 edges |-> {e \in graph.edges : e \subseteq members}]
    /\ phase' = "done"
    /\ UNCHANGED <<records, request, roots, members, pending, before, boundaries,
                   crossed, remaining, component, groups>>

Next ==
    \/ RejectRequest \/ CollectDependencies \/ SelectRoots
    \/ expand_group_members \/ CollectBoundaries \/ CrossBoundary
    \/ RepeatClosure \/ CloseClosure
    \/ StartGroup \/ GrowGroup \/ PushGroup \/ ReturnGraph

Spec == Init /\ [][Next]_vars

FairSpec == Spec /\ WF_vars(Next)

-----------------------------------------------------------------------------
(* Properties.                                                             *)

Finished == phase \in {"done", "rejected"}

\* Every local variable of discover stays within the inventory, groups are
\* disjoint parts of the members, and the work lists within what they serve.
TypeOK ==
    /\ DOMAIN records \subseteq Nat /\ \A r \in DOMAIN records : records[r].id = r
    /\ phase \in {"collect", "select", "expand", "cross", "group", "done", "rejected"}
    /\ graph.dependencies \subseteq (DOMAIN records) \X (DOMAIN records)
    /\ graph.edges \subseteq SUBSET DOMAIN records
    /\ Roots(roots) \subseteq DOMAIN records
    /\ members \subseteq DOMAIN records
    /\ before \subseteq members /\ remaining \subseteq members /\ component \subseteq remaining
    /\ pending \subseteq (IF phase = "group" THEN component ELSE members)
    /\ boundaries \cup crossed \subseteq DOMAIN records
    /\ groups \subseteq SUBSET members

Seeds == InitialMembers(records, roots, graph.dependencies)

\* S is closed under grouping evidence and under crossing the given networks.
ClosedUnder(S, networks) ==
    /\ \A e \in graph.edges : e \cap S # {} => e \subseteq S
    /\ \A n \in networks :
          LET consumers == reverse_dependencies(graph.dependencies, n)
          IN  consumers \cap S # {} => consumers \subseteq S

\* S is the least closed set with the roots' members: the reference
\* definition of the closure.
IsClosureOf(S, networks) ==
    /\ Seeds \subseteq S
    /\ ClosedUnder(S, networks)
    /\ \A T \in SUBSET S : (Seeds \subseteq T /\ ClosedUnder(T, networks)) => S \subseteq T

\* When the closure loop ends, members is exactly what the roots reach along
\* grouping edges and through authorized network boundaries, whatever the
\* order of visits: nothing missed by a crossing in a later round, nothing
\* reached through a network nobody authorized.
ClosureExact ==
    (phase = "group" /\ remaining = members) => IsClosureOf(members, NetworkBoundaries)

\* An override reported as unused (PLN0033) contributed nothing: the closure
\* over the other overrides alone is the same.
UnusedOverridesRedundant ==
    (phase = "group" /\ remaining = members) => IsClosureOf(members, crossed)

\* S falls into the given parts along the edges: they are disjoint, no edge
\* joins two of them, and none falls into unconnected parts itself.
AreComponents(parts, S, edges) ==
    /\ (UNION parts) = S
    /\ \A g, h \in parts : g # h => g \cap h = {}
    /\ \A e \in edges : \E g \in parts : e \subseteq g
    /\ \A g \in parts : \A part \in (SUBSET g) \ {{}, g} :
          \E e \in edges : e \subseteq g /\ e \cap part # {} /\ e \ part # {}

\* The groups returned are the connected components of the members: no
\* grouping evidence is cut, and no group joins what nothing relates.
GroupsAreComponents ==
    phase = "done" => AreComponents({g.members : g \in result.groups}, members, graph.edges)

\* What a group needs from outside is a network, volume, image or secret
\* that is in no group: pods and containers a member depends on are in the
\* member's own group, and no resource is both grouped and a prerequisite.
PrerequisitesAreShared ==
    phase = "done" =>
        \A g \in result.groups : \A r \in g.prerequisites :
            is_shared_kind(records[r].kind) /\ r \notin members

\* A group that holds no selected root is there because a member consumes a
\* resource whose crossing is explained.
UnrootedGroupsExplained ==
    phase = "done" =>
        \A g \in result.groups :
            \/ g.members \cap Roots(roots) # {}
            \/ \E d \in graph.dependencies : \E x \in result.explanations :
                  /\ d[1] \in g.members /\ x.resource = d[2]
                  /\ x.kind \in {"AuthorizedSharedCrossing", "AuthorizedNetworkCrossing"}

\* Where a resource is consumed from inside and from outside the returned
\* groups, the cut is explained as a stopped boundary, whatever was selected
\* or authorized elsewhere.
CutsExplained ==
    phase = "done" =>
        \A d \in graph.dependencies :
            (/\ is_shared_kind(records[d[2]].kind)
             /\ ~(reverse_dependencies(collect_dependencies(records), d[2]) \subseteq members))
            => \E x \in result.explanations :
                  /\ x.kind = "StoppedSharedBoundary" /\ x.resource = d[2]
                  /\ \E g \in result.groups : d[1] \in g.members /\ x.related = {g.id}

\* Everything a caller might not expect is explained: what came in through a
\* shared resource and where the selection was cut.
ExplanationsComplete == UnrootedGroupsExplained /\ CutsExplained

\* select_all leaves out a container only if it is an infra container (or
\* its marker is unreadable) or its pod reference is reported as broken.
AllMissesOnlyReported ==
    (phase = "done" /\ request.all) =>
        \A r \in DOMAIN records :
            (records[r].kind = "container" /\ r \notin members) =>
                \/ records[r].infra \notin {"absent", "false"}
                \/ \E f \in findings : f.resource = r /\ f.path = "Pod"

\* The sections that can have been available: one that could not be listed
\* has no records.
Availabilities(recs) == {K \in SUBSET Kinds : \A r \in DOMAIN recs : recs[r].kind \in K}

RelationshipCodes == {RelationshipCode[tag] : tag \in DOMAIN RelationshipCode}

\* What discover, and what acquisition with these sections available, report
\* of the relationships of one record.
Discovered(r) ==
    {[code |-> f.code, path |-> f.path] : f \in {x \in findings : x.resource = r /\ x.path # ""}}
Acquired(r, available) ==
    {f \in reconcile_findings({records[x] : x \in DOMAIN records}, available, records[r]) :
        f.code \in RelationshipCodes}

\* Relationships to a kind that could not be listed: acquisition is silent.
Unlisted(r, available) ==
    {[code |-> "UnresolvedRelationship", path |-> rel.path] :
        rel \in {x \in observed_relationships(records[r]) : x.kind \notin available}}

\* Discovery and acquisition resolve references with two implementations and
\* report the same relationships under the same codes, whatever could be
\* listed, but for two differences: discovery also reports every relationship
\* to a section that could not be listed, and only acquisition compares the
\* configured image with the local one.
FindingsAgreeWithInventory ==
    phase = "done" =>
        \A available \in Availabilities(records) : \A r \in DOMAIN records :
            /\ Discovered(r) \ Acquired(r, available) = Unlisted(r, available)
            /\ Acquired(r, available) \ Discovered(r)
                  = ImageFindings({records[x] : x \in DOMAIN records}, records[r])

\* "A relationship cannot be resolved in an available target section"
\* (src/src/diagnostic.rs:62, of UnresolvedRelationship): the section of what
\* is missing was available.
UnresolvedIsInAvailableSection ==
    phase = "done" =>
        \A available \in Availabilities(records) : \A f \in findings :
            f.code = "UnresolvedRelationship" => TargetKind[f.path] \in available

\* The owner of a label map under the rule of ADR 0003, "" for none: a
\* complete, non-empty and consistent Compose namespace, or two that agree.
OwnerByRule(map) ==
    LET keys(ns) == {ns.project, ns.service, ns.hash} \cap DOMAIN map
        touched == {ns \in {DockerNamespace, PodmanNamespace} : keys(ns) # {}}
        projects == {map[ns.project] : ns \in touched}
    IN  IF /\ \A ns \in touched : {ns.project, ns.service} \subseteq keys(ns)
           /\ \A ns \in touched : \A key \in keys(ns) : map[key] # ""
           /\ Cardinality(projects) = 1
           /\ Cardinality({map[ns.service] : ns \in touched}) = 1
           /\ Cardinality({map[ns.hash] : ns \in {x \in touched : x.hash \in keys(x)}}) <= 1
          THEN CHOOSE p \in projects : TRUE ELSE ""

\* Two members that neither a pod nor a dependency relates are merged
\* exactly if the rule gives both the same owner: labels group by themselves
\* whenever they are unequivocal and never otherwise.
LabelsGroupByRule ==
    phase = "done" =>
        LET owner(r) == OwnerByRule(observed_labels(records[r]))
            related == MembershipEdges(records) \cup ContainerEdges(records, collect_dependencies(records))
        IN  \A a, b \in members :
                (/\ a # b /\ {a, b} \notin related
                 /\ {records[a].kind, records[b].kind} \subseteq {"container", "pod"})
                => (owner(a) # "" /\ owner(a) = owner(b)
                      <=> \E x \in result.explanations :
                             x.kind = "StrongEvidenceMerge" /\ {x.resource} \cup x.related = {a, b})

\* discover returns.
DiscoveryTerminates == <>Finished
=============================================================================
