--------------------------- MODULE Relationships ---------------------------
(***************************************************************************)
(* The native relationships of an inventory: what the decoders of          *)
(* src/src/inventory.rs retain of an inspected container or pod, how a     *)
(* reference resolves, and the findings reconcile_relationships adds once  *)
(* every section is in.                                                    *)
(*                                                                         *)
(* Identifiers and names are numbers of one space: a reference may match   *)
(* either, and ids sort.  0 stands for "no name" and "no reference".  A    *)
(* decoded field is [state, refs], state one of "absent", "observed" and   *)
(* "malformed", refs a set of reference sequences (a secret grant carries  *)
(* an id and a name, every other field one reference).                     *)
(***************************************************************************)
EXTENDS Integers, Sequences, FiniteSets

\* The relationship-bearing fields and the kind each refers to.
ContainerFields == {"ImageName", "Pod", "Networks", "Mounts", "Dependencies", "Secrets"}
PodFields == {"Containers", "InfraNetworks"}
TargetKind ==
    [ImageName |-> "image", Pod |-> "pod", Networks |-> "network",
     Mounts |-> "volume", Dependencies |-> "container", Secrets |-> "secret",
     Containers |-> "container", InfraNetworks |-> "network"]

Field(state, refs) == [state |-> state, refs |-> refs]
AbsentField == Field("absent", {})

\* A pod member's networks are the pod's: the decoder does not read its own.
ApplicableFields(kind, fields) ==
    IF kind = "container" /\ fields["Pod"].state = "observed"
      THEN DOMAIN fields \ {"Networks"}
      ELSE DOMAIN fields

\* One malformed field makes the whole relationship list malformed; no
\* supplied field makes it absent.
relationship_field(kind, fields) ==
    LET used == ApplicableFields(kind, fields)
    IN  IF \E f \in used : fields[f].state = "malformed" THEN Field("malformed", {})
        ELSE IF \A f \in used : fields[f].state = "absent" THEN AbsentField
        ELSE Field("observed",
                   UNION {{[kind |-> TargetKind[f], refs |-> r, path |-> f] : r \in fields[f].refs} :
                          f \in used})

MalformedFields(kind, fields) ==
    {f \in ApplicableFields(kind, fields) : fields[f].state = "malformed"}

-----------------------------------------------------------------------------
(* reconcile_relationships, over the set obs of every section's records.   *)

\* Slip: image tags and digests are not looked at.
Targets_without_aliases(obs, kind, ref) ==
    {o.id : o \in {x \in obs : x.kind = kind /\ ref \in {x.id, x.name}}}

\* The ids a reference selects among the records of one kind.
Targets(obs, kind, ref) ==
    {o.id : o \in {x \in obs : x.kind = kind /\ ref \in {x.id, x.name} \cup x.aliases}}

Unresolved == [tag |-> "UnresolvedRelationship"]
Ambiguous == [tag |-> "RelationshipAmbiguous"]
Conflict == [tag |-> "RelationshipConflict"]
One(id) == [tag |-> "One", id |-> id]

\* Every supplied reference must select the same single record; the first
\* reference that does not select exactly one decides how it fails.
resolve_relationship_target(obs, rel) ==
    LET candidates(i) == Targets(obs, rel.kind, rel.refs[i])
        bad == {i \in DOMAIN rel.refs : Cardinality(candidates(i)) # 1}
        all == UNION {candidates(i) : i \in DOMAIN rel.refs}
    IN  IF bad # {}
          THEN LET first == CHOOSE i \in bad : \A j \in bad : i <= j
               IN  IF candidates(first) = {} THEN Unresolved ELSE Ambiguous
        ELSE IF all = {} THEN Unresolved
        ELSE IF Cardinality(all) = 1 THEN One(CHOOSE id \in all : TRUE)
        ELSE Conflict

ObservedRels(o) == IF o.rels.state = "observed" THEN o.rels.refs ELSE {}

RelationshipFindings(obs, available, o) ==
    {[code |-> resolve_relationship_target(obs, r).tag, path |-> r.path] :
        r \in {x \in ObservedRels(o) : /\ x.kind \in available
                                       /\ resolve_relationship_target(obs, x).tag # "One"}}

\* The member check of a pod does not ask whether containers were listed.
MemberFindings(obs, o) ==
    IF /\ o.kind = "pod"
       /\ \E r \in ObservedRels(o) : /\ r.kind = "container"
                                     /\ resolve_relationship_target(obs, r).tag # "One"
      THEN {[code |-> "PodMembershipConflict", path |-> "Containers"]} ELSE {}

ResolvedTo(obs, o, kind) ==
    {resolve_relationship_target(obs, r).id :
        r \in {x \in ObservedRels(o) : /\ x.kind = kind
                                       /\ resolve_relationship_target(obs, x).tag = "One"}}

pod_members(obs, pod) ==
    UNION {ResolvedTo(obs, o, "container") : o \in {x \in obs : x.kind = "pod" /\ x.id = pod}}
container_pods(obs, container) ==
    UNION {ResolvedTo(obs, o, "pod") : o \in {x \in obs : x.kind = "container" /\ x.id = container}}

\* Slip: only the pod's side is compared.
MembershipFindings_pod_side(obs, o) ==
    IF /\ o.kind = "pod"
       /\ \E c \in pod_members(obs, o.id) : o.id \notin container_pods(obs, c)
      THEN {[code |-> "PodMembershipConflict", path |-> "PodMembership"]} ELSE {}

\* Membership asserted by one side and not by the other.
MembershipFindings(obs, o) ==
    IF \/ /\ o.kind = "pod"
          /\ \E c \in pod_members(obs, o.id) : o.id \notin container_pods(obs, c)
       \/ /\ o.kind = "container"
          /\ \E p \in container_pods(obs, o.id) : o.id \notin pod_members(obs, p)
      THEN {[code |-> "PodMembershipConflict", path |-> "PodMembership"]} ELSE {}

\* The configured image reference and the local image id name two images.
ImageFindings(obs, o) ==
    LET target(ref) == resolve_relationship_target(obs, [kind |-> "image", refs |-> <<ref>>])
    IN  IF /\ o.kind = "container" /\ o.configured_image # 0 /\ o.local_image # 0
           /\ target(o.configured_image).tag = "One"
           /\ target(o.local_image).tag = "One"
           /\ target(o.configured_image) # target(o.local_image)
          THEN {[code |-> "RelationshipConflict", path |-> "ImageName"]} ELSE {}

reconcile_findings(obs, available, o) ==
    UNION {RelationshipFindings(obs, available, o), MemberFindings(obs, o),
           MembershipFindings(obs, o), ImageFindings(obs, o)}

Observations(sections) == UNION {sections[i].observations : i \in DOMAIN sections}

AvailableKinds(sections) ==
    {sections[i].kind : i \in {j \in DOMAIN sections : sections[j].availability = "Available"}}

reconcile_relationships(sections) ==
    LET obs == Observations(sections)
        available == AvailableKinds(sections)
        reconciled(o) == [o EXCEPT !.findings = @ \cup reconcile_findings(obs, available, o)]
    IN  [i \in DOMAIN sections |->
            [sections[i] EXCEPT !.observations = {reconciled(o) : o \in @}]]
=============================================================================
