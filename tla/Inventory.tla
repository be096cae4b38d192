----------------------------- MODULE Inventory -----------------------------
(***************************************************************************)
(* acquire_inventory (src/src/inventory.rs): the probe, then one list per  *)
(* resource kind, then one inspect per listed id, then the reconciliation  *)
(* of the relationships, against a Podman service that other clients keep  *)
(* changing.  Every action that sends a request is one await point: the    *)
(* reply is computed from the service as it is at that moment, and the     *)
(* service may change before the next request.                             *)
(*                                                                         *)
(* A world is a state of the service: the versions it reports, and for     *)
(* each kind the resources it holds, a function from ids to                *)
(* [name, fields, aliases, local_image, unknown], unknown the number of    *)
(* members of the inspect response that the decoders do not model.         *)
(***************************************************************************)
EXTENDS Probe, Relationships, FiniteSetsExt

CONSTANTS
    ALL,              \* ResourceKind::ALL, the kinds in acquisition order
    Worlds,           \* the states the service can be in
    MaxRecord,        \* MAX_UNKNOWN_FIELDS_PER_RECORD
    MaxInventory,     \* MAX_UNKNOWN_FIELDS_PER_INVENTORY
    UnroutableIds,    \* ids LibpodPath::resource refuses
    PingFaults,       \* the replies to a ping other than the service's own
    VersionFaults,    \* likewise for the version request
    ListFaults,       \* the codes a list request can fail with
    ListDefects,      \* "repeat", "bad": the malformed entries lists can hold
    InspectFaults,    \* the ways an inspect request can fail
    MaxChanges        \* bound on the changes of the service

Kinds == {ALL[i] : i \in DOMAIN ALL}

\* The codes of a section whose list failed, and of an inspect that failed.
ListCodes == {"TransportUnavailable", "InvalidTransportMessage", "InventoryHttpStatus",
              "InventoryJson", "InventoryShape"}
InspectFailures == {"transport", "404", "InventoryHttpStatus", "InventoryJson",
                    "InventoryShape", "ResourceMalformed"}

ASSUME ConstantsAssumption ==
    /\ ALL \in Seq(STRING)
    /\ \A i, j \in DOMAIN ALL : ALL[i] = ALL[j] => i = j
    /\ MaxRecord \in Nat \ {0}
    /\ MaxInventory \in Nat
    /\ Len(ALL) \in 1..MaxInventory
    /\ MaxChanges \in Nat
    /\ ListFaults \subseteq ListCodes
    /\ InspectFaults \subseteq InspectFailures

\* A service holds finitely many resources of each kind; 0 is no id and no
\* reference.  Containers and pods have their reference fields, the other kinds
\* none; a reference is in a field that was supplied, carries an id or a name,
\* and is to a kind of ALL.
ASSUME WorldsAssumption ==
    \A w \in Worlds : \A k \in Kinds :
        /\ IsFiniteSet(DOMAIN w.resources[k])
        /\ \A id \in DOMAIN w.resources[k] :
             LET r == w.resources[k][id]
             IN  /\ id \in Nat \ {0}
                 /\ r.name \in Nat
                 /\ r.unknown \in Nat
                 /\ DOMAIN r.fields = IF k = "container" THEN ContainerFields
                                      ELSE IF k = "pod" THEN PodFields ELSE {}
                 /\ \A f \in DOMAIN r.fields : \A s \in r.fields[f].refs :
                       /\ r.fields[f].state = "observed" /\ TargetKind[f] \in Kinds
                       /\ s \in Seq(Nat \ {0}) /\ s # <<>>

\* The versions that replies can report.
ReportedVersions ==
    {w.engine : w \in Worlds} \cup {w.api : w \in Worlds}
    \cup {r.apis[1] : r \in {q \in PingFaults : Len(q.apis) = 1}}
    \cup {r.engines[1] : r \in {q \in VersionFaults : Len(q.engines) = 1}}

Lines == {Catalogue[i] : i \in DOMAIN Catalogue}

\* A ranged line of the catalogue starts at Podman 5.4 and API 4, and in a
\* reviewed pair of a legacy line the API is not newer than the engine.
ASSUME CatalogueAssumption ==
    /\ \A v \in ReportedVersions : v.core \in Int
    /\ \A line \in Lines : line.output_supported =>
         /\ line.minimum \in Int /\ line.minimum >= Ver(5, 4, 0)
         /\ line.minimum_api \in Int /\ line.minimum_api >= Ver(4, 0, 0)
    /\ \A line \in Lines : ~line.output_supported =>
         \A engine, a \in ReportedVersions :
             [engine |-> engine.spelling, api |-> a.spelling] \in line.reported => a.core <= engine.core

VARIABLES
    phase,        \* where the acquisition is
    failure,      \* the diagnostic of a failed probe
    api,          \* the API version the ping reported
    service,      \* the probe's ServiceObservation
    listed,       \* one list result per kind listed so far
    sections,     \* the finished sections
    todo,         \* ids of the current section not inspected yet
    current,      \* records of the current section
    remaining,    \* remaining_unknown_fields
    world,        \* the service
    changes,      \* how often the service changed
    requests      \* history: every request sent, in order

vars == <<phase, failure, api, service, listed, sections, todo, current,
          remaining, world, changes, requests>>

NoService == [engine |-> Unparsable, api |-> Unparsable, target |-> FALSE]

Init ==
    /\ phase = "ping" /\ failure = "none"
    /\ api = Unparsable /\ service = NoService
    /\ listed = <<>> /\ sections = <<>>
    /\ todo = {} /\ current = {}
    /\ remaining = MaxInventory
    /\ world \in Worlds /\ changes = 0
    /\ requests = <<>>

Sent(op, kind, id) == requests' = Append(requests, [op |-> op, kind |-> kind, id |-> id])

-----------------------------------------------------------------------------
(* The probe. *)

PingReplies ==
    {[transport |-> "ok", status |-> 200, apis |-> <<world.api>>]} \cup PingFaults
VersionReplies ==
    {[transport |-> "ok", status |-> 200, json |-> TRUE, body |-> "object",
      engines |-> <<world.engine>>]} \cup VersionFaults

Ping ==
    /\ phase = "ping"
    /\ Sent("ping", "none", 0)
    /\ \E reply \in PingReplies :
         LET result == ping_api_version(reply)
         IN  IF result.ok
               THEN phase' = "version" /\ api' = result.value /\ UNCHANGED failure
               ELSE phase' = "failed" /\ failure' = result.code /\ UNCHANGED api
    /\ UNCHANGED <<service, listed, sections, todo, current, remaining, world, changes>>

Version ==
    /\ phase = "version"
    /\ Sent("version", "none", version_probe_path(api))
    /\ \E reply \in VersionReplies :
         LET result == ServiceObservation(api, reply)
         IN  IF result.ok
               THEN phase' = "list" /\ service' = result.value /\ UNCHANGED failure
               ELSE phase' = "failed" /\ failure' = result.code /\ UNCHANGED service
    /\ UNCHANGED <<api, listed, sections, todo, current, remaining, world, changes>>

-----------------------------------------------------------------------------
(* The lists. *)

resource_kind_is_version_inapplicable(kind) ==
    kind = "secret" /\ service.engine.core < Ver(3, 1, 0)

\* An entry of a list response: an id and a name, or something that is not one.
BadEntry == [id |-> 0, name |-> 0]
Entries(kind) ==
    LET resources == world.resources[kind]
    IN  {[id |-> id, name |-> resources[id].name] : id \in DOMAIN resources}

\* The lists a service can answer with, in any order; a list may also repeat
\* an entry or hold an entry without an identity.
EntryLists(kind) ==
    LET n == Cardinality(Entries(kind))
        plain == {s \in [1..n -> Entries(kind)] :
                    \A i, j \in 1..n : s[i] = s[j] => i = j}
        extra == (IF "repeat" \in ListDefects THEN Entries(kind) ELSE {})
                 \cup (IF "bad" \in ListDefects THEN {BadEntry} ELSE {})
    IN  plain \cup {Append(s, e) : s \in plain, e \in extra}

\* decode_list: the first entry with an id wins, a repeated id and an entry
\* without one are findings; the order the ids are sorted in is their own.
decode_list(entries) ==
    LET first(i) == /\ entries[i] # BadEntry
                    /\ \A j \in 1..(i - 1) : entries[j].id # entries[i].id
        kept == {i \in DOMAIN entries : first(i)}
    IN  [ok |-> TRUE,
         identities |-> {entries[i] : i \in kept},
         findings |-> {[code |-> "ResourceMalformed", id |-> entries[i].id] :
                          i \in DOMAIN entries \ kept}]

\* list_section, after every await of one list: its result joins listed, and
\* the last one starts the inspect phase with the first kind.
IsListed(l) == l.ok
ListedIds(l) == IF IsListed(l) THEN {e.id : e \in l.identities} ELSE {}

\* Slip: the inspect phase starts one list too late.
PushListed_late(result) ==
    /\ listed' = Append(listed, result)
    /\ IF Len(listed) = Len(ALL)
         THEN phase' = "inspect" /\ todo' = ListedIds(listed'[1])
         ELSE UNCHANGED <<phase, todo>>
    /\ UNCHANGED <<failure, api, service, sections, current, remaining, world, changes>>

PushListed(result) ==
    /\ listed' = Append(listed, result)
    /\ IF Len(listed) + 1 = Len(ALL)
         THEN phase' = "inspect" /\ todo' = ListedIds(listed'[1])
         ELSE UNCHANGED <<phase, todo>>
    /\ UNCHANGED <<failure, api, service, sections, current, remaining, world, changes>>

SkipInapplicable ==
    /\ phase = "list"
    /\ resource_kind_is_version_inapplicable(ALL[Len(listed) + 1])
    /\ PushListed(Err("VersionInapplicableField"))
    /\ UNCHANGED requests

list_section ==
    /\ phase = "list"
    /\ LET kind == ALL[Len(listed) + 1]
       IN  /\ ~resource_kind_is_version_inapplicable(kind)
           /\ Sent("list", kind, 0)
           /\ \/ \E entries \in EntryLists(kind) : PushListed(decode_list(entries))
              \/ \E code \in ListFaults : PushListed(Err(code))

-----------------------------------------------------------------------------
(* The inspects. *)

sec == Len(sections) + 1

\* later_kind_unknown_field_reservations[section]: one slot for every later
\* section whose list succeeded and is not empty.
LaterListed(lists, i) == {j \in (i + 1)..Len(lists) : ListedIds(lists[j]) # {}}
\* Slip: nothing is set aside for later kinds.
Reservation_none(lists, i) == 0
Reservation(lists, i) == Cardinality(LaterListed(lists, i))

\* usize::saturating_sub and min
SaturatingSub(a, b) == IF a >= b THEN a - b ELSE 0
Least(a, b) == IF a <= b THEN a ELSE b

\* The limit inspect_observation is called with.
unknown_field_limit == Least(SaturatingSub(remaining, Reservation(listed, sec)), MaxRecord)

ListedName(id) ==
    (CHOOSE e \in listed[sec].identities : e.id = id).name

partial_observation(kind, id, code) ==
    [kind |-> kind, id |-> id, name |-> ListedName(id),
     state |-> IF code = "ResourceUnavailable" THEN "Unavailable" ELSE "Malformed",
     rels |-> AbsentField, aliases |-> {}, configured_image |-> 0, local_image |-> 0,
     unmodelled |-> 0, complete |-> FALSE,
     findings |-> {[code |-> code, path |-> "none"]}]

\* Slip: the collector compares with <= before it pushes.
UnknownFieldCollector_off_by_one(unknown, limit) ==
    [fields |-> Least(unknown, limit + 1), overflowed |-> unknown > limit]

\* The collector keeps fields up to its limit and reports that it did not
\* keep all of them.
UnknownFieldCollector(unknown, limit) ==
    [fields |-> Least(unknown, limit), overflowed |-> unknown > limit]

ReferenceOf(fields, f) ==
    IF f \in DOMAIN fields /\ fields[f].state = "observed" /\ fields[f].refs # {}
      THEN (CHOOSE r \in fields[f].refs : TRUE)[1] ELSE 0

\* The inspected name replaces the listed one; only a secret's is not
\* defaulted to it.
InspectedName(kind, id, r) ==
    IF r.name = 0 /\ kind # "secret" THEN ListedName(id) ELSE r.name

decode_observation(kind, id, r, limit) ==
    LET collected == UnknownFieldCollector(r.unknown, limit)
    IN  [kind |-> kind, id |-> id, name |-> InspectedName(kind, id, r),
         state |-> "Complete",
         rels |-> relationship_field(kind, r.fields),
         aliases |-> r.aliases,
         configured_image |-> ReferenceOf(r.fields, "ImageName"),
         local_image |-> r.local_image,
         unmodelled |-> collected.fields, complete |-> ~collected.overflowed,
         findings |-> {[code |-> "ResourceMalformed", path |-> f] : f \in MalformedFields(kind, r.fields)}
                      \cup (IF collected.overflowed
                              THEN {[code |-> "UnknownFieldOverflow", path |-> "none"]} ELSE {})
                      \cup (IF collected.fields > 0
                              THEN {[code |-> "NativeFieldUnsupported", path |-> "unmodelled"]} ELSE {})]

FaultCode(fault) ==
    IF fault \in {"transport", "404"} THEN "ResourceUnavailable" ELSE fault

\* The records an inspect of the id can produce now: a failed request, or the
\* resource as it is, if it is still there.
InspectOutcomes(kind, id) ==
    LET resources == world.resources[kind]
        faults == InspectFaults \cup (IF id \in DOMAIN resources THEN {} ELSE {"404"})
    IN  IF id \in UnroutableIds
          THEN {partial_observation(kind, id, "ResourceMalformed")}
          ELSE {partial_observation(kind, id, FaultCode(f)) : f \in faults}
               \cup (IF id \in DOMAIN resources
                       THEN {decode_observation(kind, id, resources[id], unknown_field_limit)}
                       ELSE {})

\* Slip: a resource that vanished since it was listed is left out.
inspect_skipping_missing ==
    /\ phase = "inspect"
    /\ todo # {}
    /\ LET id == CHOOSE i \in todo : \A j \in todo : i <= j
       IN  /\ IF id \in UnroutableIds THEN UNCHANGED requests ELSE Sent("inspect", ALL[sec], id)
           /\ IF id \in DOMAIN world.resources[ALL[sec]]
                THEN \E o \in InspectOutcomes(ALL[sec], id) :
                        /\ current' = current \cup {o}
                        /\ remaining' = SaturatingSub(remaining, o.unmodelled)
                ELSE UNCHANGED <<current, remaining>>
           /\ todo' = todo \ {id}
    /\ UNCHANGED <<phase, failure, api, service, listed, sections, world, changes>>

inspect_observation ==
    /\ phase = "inspect"
    /\ todo # {}
    /\ LET id == CHOOSE i \in todo : \A j \in todo : i <= j
       IN  /\ IF id \in UnroutableIds THEN UNCHANGED requests ELSE Sent("inspect", ALL[sec], id)
           /\ \E o \in InspectOutcomes(ALL[sec], id) :
                /\ current' = current \cup {o}
                /\ remaining' = SaturatingSub(remaining, o.unmodelled)
           /\ todo' = todo \ {id}
    /\ UNCHANGED <<phase, failure, api, service, listed, sections, world, changes>>

-----------------------------------------------------------------------------
(* The sections. *)

Section(l) ==
    IF l.ok
      THEN [kind |-> ALL[sec], availability |-> "Available",
            observations |-> current, findings |-> l.findings]
      ELSE [kind |-> ALL[sec],
            availability |-> IF l.code \in {"InventoryJson", "InventoryShape"}
                               THEN "Malformed" ELSE "Unavailable",
            observations |-> {}, findings |-> {[code |-> l.code, id |-> 0]}]

\* Slip: a section without records is never closed.
PushSection_nonempty ==
    /\ phase = "inspect"
    /\ todo = {} /\ current # {}
    /\ LET all == Append(sections, Section(listed[sec]))
       IN  IF Len(all) = Len(ALL)
             THEN /\ sections' = reconcile_relationships(all)
                  /\ phase' = "done" /\ UNCHANGED todo
             ELSE /\ sections' = all
                  /\ todo' = ListedIds(listed[sec + 1]) /\ UNCHANGED phase
    /\ current' = {}
    /\ UNCHANGED <<failure, api, service, listed, remaining, world, changes, requests>>

\* The current section is complete.  The last one is followed, without an
\* await, by the reconciliation.
PushSection ==
    /\ phase = "inspect"
    /\ todo = {}
    /\ LET all == Append(sections, Section(listed[sec]))
       IN  IF Len(all) = Len(ALL)
             THEN /\ sections' = reconcile_relationships(all)
                  /\ phase' = "done" /\ UNCHANGED todo
             ELSE /\ sections' = all
                  /\ todo' = ListedIds(listed[sec + 1]) /\ UNCHANGED phase
    /\ current' = {}
    /\ UNCHANGED <<failure, api, service, listed, remaining, world, changes, requests>>

\* Another client, or an upgrade, changes the service between two requests.
ServiceChanges ==
    /\ phase \notin {"done", "failed"}
    /\ changes < MaxChanges
    /\ world' \in Worlds \ {world}
    /\ changes' = changes + 1
    /\ UNCHANGED <<phase, failure, api, service, listed, sections, todo, current,
                   remaining, requests>>

Acquire ==
    Ping \/ Version \/ SkipInapplicable \/ list_section \/ inspect_observation \/ PushSection

Next == Acquire \/ ServiceChanges

Spec == Init /\ [][Next]_vars /\ WF_vars(Acquire)
-----------------------------------------------------------------------------
(* Properties. *)

Phases == {"ping", "version", "list", "inspect", "done", "failed"}

Listing ==
    [ok : {TRUE}, identities : SUBSET [id : Nat, name : Nat],
     findings : SUBSET [code : {"ResourceMalformed"}, id : Nat]]
ListFailure == [ok : {FALSE}, code : ListCodes \cup {"VersionInapplicableField"}]

IsSequence(s) == s \in Seq({s[i] : i \in DOMAIN s})

\* The control state is well formed: the list phase fills listed kind by kind,
\* later phases hold one list result per kind, and the section being built is
\* one that was listed.
TypeOK ==
    /\ phase \in Phases
    /\ listed \in Seq(Listing \cup ListFailure)
    /\ phase \in {"ping", "version", "list"} =>
          Len(listed) < Len(ALL) /\ sections = <<>> /\ remaining = MaxInventory
    /\ phase \in {"inspect", "done"} => Len(listed) = Len(ALL)
    /\ IsSequence(sections)
    /\ phase = "inspect" => Len(sections) < Len(ALL) /\ todo \subseteq ListedIds(listed[sec])
    /\ phase = "done" => Len(sections) = Len(ALL)
    /\ todo \subseteq Nat
    /\ phase # "inspect" => todo = {} /\ current = {}
    /\ remaining \in 0..MaxInventory
    /\ world \in Worlds
    /\ changes \in 0..MaxChanges

AllObservations == Observations(sections) \cup current

\* remaining_unknown_fields is exactly the budget minus what the records
\* hold, so the saturating subtractions never saturate and the inventory
\* never holds more than MAX_UNKNOWN_FIELDS_PER_INVENTORY fields.
Unmodelled(obs) == MapThenSumSet(LAMBDA o : o.unmodelled, obs)
BudgetAccounted == remaining + Unmodelled(AllObservations) = MaxInventory

\* A kind with listed resources can always keep at least one unmodelled field
\* of its first resource: the reservations of inventory.rs:580 stop the
\* earlier kinds from using up the inventory-wide budget (ADR 0011).
NoKindStarved ==
    phase = "inspect" /\ todo # {} /\ current = {} => unknown_field_limit >= 1

\* A finished inventory holds exactly one record for every id its lists
\* returned, whatever vanished, changed or failed in between, and no other.
EveryListedResourceObserved ==
    phase = "done" =>
        \A i \in DOMAIN ALL :
            /\ {o.id : o \in sections[i].observations} = ListedIds(listed[i])
            /\ Cardinality(sections[i].observations) = Cardinality(ListedIds(listed[i]))
            /\ sections[i].availability = "Available" <=> listed[i].ok

\* No request is ever repeated, no inspect precedes a list, and only ids a
\* list returned are inspected (the module documentation, inventory.rs:503).
RequestsInOrder ==
    /\ \A i, j \in DOMAIN requests : requests[i] = requests[j] => i = j
    /\ \A i, j \in DOMAIN requests :
          requests[i].op = "inspect" /\ requests[j].op # "inspect" => j < i
    /\ \A i \in DOMAIN requests : requests[i].op = "inspect" =>
          \E k \in DOMAIN listed : /\ ALL[k] = requests[i].kind
                                   /\ requests[i].id \in ListedIds(listed[k])

\* Every listed resource is asked for once and recorded once, in spite of lists
\* that repeat an id, failures, and resources that vanish or change.
EachListedOnce == EveryListedResourceObserved /\ RequestsInOrder

\* An inventory in which every section is available and no record has a
\* finding is closed: every retained reference selects exactly one record, and
\* pods and containers agree on who is whose member.  The reads were not
\* atomic, so this is what tells a caller that they fit together.
CleanInventoryIsClosed ==
    (/\ phase = "done"
     /\ AvailableKinds(sections) = Kinds
     /\ \A o \in AllObservations : o.findings = {})
    => \A o \in AllObservations :
          /\ \A r \in ObservedRels(o) :
                \E t \in AllObservations :
                    /\ t.kind = r.kind
                    /\ \A u \in AllObservations :
                         (u.kind = r.kind /\ \E i \in DOMAIN r.refs :
                              r.refs[i] \in {u.id, u.name} \cup u.aliases) => u = t
          /\ o.kind = "pod" =>
                \A c \in {x \in AllObservations : x.kind = "container"} :
                    c.id \in ResolvedTo(AllObservations, o, "container")
                      <=> o.id \in ResolvedTo(AllObservations, c, "pod")

\* Without a change of the service and without a failed request, a service
\* whose own references are consistent gives an inventory without relationship
\* findings: reconciliation raises no false alarm.
Consistent(w) ==
    \A k \in Kinds : \A id \in DOMAIN w.resources[k] :
        LET fields == w.resources[k][id].fields
        IN  \A f \in ApplicableFields(k, fields) :
              /\ fields[f].state # "malformed"
              /\ \A r \in fields[f].refs : \A i \in DOMAIN r :
                    \E t \in DOMAIN w.resources[TargetKind[f]] :
                      /\ {r[j] : j \in DOMAIN r} \subseteq
                            {t, w.resources[TargetKind[f]][t].name} \cup w.resources[TargetKind[f]][t].aliases
                      /\ f = "Pod" => \E m \in w.resources["pod"][t].fields["Containers"].refs : m = <<id>>
                      /\ f = "Containers" => w.resources["container"][t].fields["Pod"].refs = {<<id>>}
                      /\ f = "ImageName" => w.resources[k][id].local_image \in {0, t}

UniqueNames(w) ==
    \A k \in Kinds : \A x, y \in DOMAIN w.resources[k] :
        x # y => LET labels(z) == ({z, w.resources[k][z].name} \cup w.resources[k][z].aliases) \ {0}
                 IN  labels(x) \cap labels(y) = {}

RelationshipCodes == {"UnresolvedRelationship", "RelationshipAmbiguous",
                      "RelationshipConflict", "PodMembershipConflict"}

NoFalseAlarm ==
    (/\ phase = "done" /\ changes = 0 /\ Consistent(world) /\ UniqueNames(world)
     /\ AvailableKinds(sections) = Kinds
     /\ \A o \in AllObservations : o.state = "Complete")
    => \A o \in AllObservations : \A f \in o.findings : f.code \notin RelationshipCodes

\* The API version every later path is built from is never newer than the
\* engine, even if the service changed between the two probe requests, a target
\* is of a ranged line, and an older engine is read only as a reviewed pair
\* (observed_input_is_supported, TargetProfile::new).
ProbeNotTorn ==
    service # NoService =>
        /\ service.api.core <= service.engine.core
        /\ service.target => service.engine.core >= Ver(5, 4, 0) /\ service.api.core >= Ver(4, 0, 0)
        /\ service.engine.core < Ver(5, 4, 0) =>
              \E line \in Lines :
                  /\ ~line.output_supported
                  /\ [engine |-> service.engine.spelling, api |-> service.api.spelling] \in line.reported

\* A membership conflict on a pod means that container evidence contradicts it
\* (diagnostic.rs:64 "Pod and container membership evidence disagrees"), so it
\* cannot arise when the containers could not be listed at all.
ConflictNeedsEvidence ==
    phase = "done" /\ "container" \notin AvailableKinds(sections) =>
        \A o \in AllObservations : \A f \in o.findings : f.code # "PodMembershipConflict"

\* Every acquisition ends: it never waits for a list or record that a
\* concurrent change removed.
Terminates == <>(phase \in {"done", "failed"})
=============================================================================
