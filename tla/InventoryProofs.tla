-------------------------- MODULE InventoryProofs --------------------------
(***************************************************************************)
(* Proofs about Inventory, for every set of worlds and every bound.        *)
(***************************************************************************)
EXTENDS Inventory, FiniteSetTheorems, SequenceTheorems,
        WellFoundedInduction, TLAPS

\* A sequence over any set is a sequence over its own elements.
LEMMA OwnElements ==
    ASSUME NEW S, NEW s \in Seq(S)
    PROVE  IsSequence(s)
  BY DEF IsSequence

\* A function on 1..n is a sequence of length n.
LEMMA FunctionIsSeq ==
    ASSUME NEW S, NEW n \in Nat, NEW f \in [1..n -> S]
    PROVE  f \in Seq(S) /\ Len(f) = n
  OBVIOUS

\* The reservation of a section is a number, at most the number of kinds
\* after it.
LEMMA ReservationBound ==
    ASSUME NEW l, NEW i \in 1..Len(l), Len(l) \in Nat
    PROVE  /\ IsFiniteSet(LaterListed(l, i))
           /\ Reservation(l, i) \in Nat
           /\ Reservation(l, i) <= Len(l) - i
  <1>1. LaterListed(l, i) \in SUBSET ((i + 1)..Len(l))
    BY DEF LaterListed
  <1>2. IsFiniteSet((i + 1)..Len(l)) /\ Cardinality((i + 1)..Len(l)) = Len(l) - i
    BY FS_Interval
  <1>3. IsFiniteSet(LaterListed(l, i)) /\ Cardinality(LaterListed(l, i)) <= Len(l) - i
    BY <1>1, <1>2, FS_Subset
  <1>4. Cardinality(LaterListed(l, i)) \in Nat
    BY <1>3, FS_CardinalityType
  <1> QED
    BY <1>3, <1>4 DEF Reservation

\* Moving to the next section releases the slot reserved for it exactly if it
\* has resources.
LEMMA ReservationStep ==
    ASSUME NEW l, NEW i \in 1..(Len(l) - 1), Len(l) \in Nat
    PROVE  Reservation(l, i) =
             Reservation(l, i + 1) + (IF ListedIds(l[i + 1]) # {} THEN 1 ELSE 0)
  <1>1. /\ IsFiniteSet(LaterListed(l, i + 1))
        /\ Cardinality(LaterListed(l, i + 1)) \in Nat
    BY ReservationBound DEF Reservation
  <1>2. i + 1 \notin LaterListed(l, i + 1)
    BY DEF LaterListed
  <1>3. CASE ListedIds(l[i + 1]) # {}
    <2>1. LaterListed(l, i) = LaterListed(l, i + 1) \cup {i + 1}
      BY <1>3 DEF LaterListed
    <2>2. Cardinality(LaterListed(l, i)) = Cardinality(LaterListed(l, i + 1)) + 1
      BY <2>1, <1>1, <1>2, FS_AddElement
    <2> QED BY <2>2, <1>3 DEF Reservation
  <1>4. CASE ListedIds(l[i + 1]) = {}
    <2>1. LaterListed(l, i) = LaterListed(l, i + 1)
      BY <1>4 DEF LaterListed
    <2> QED BY <2>1, <1>1, <1>4 DEF Reservation
  <1> QED BY <1>3, <1>4

-----------------------------------------------------------------------------
(* The inductive invariant. *)

\* A set of natural numbers that is not empty has a least element: the next
\* id to inspect exists.
LEMMA SmallestNat ==
    ASSUME NEW S, S \subseteq Nat, S # {}
    PROVE  \E i \in S : \A j \in S : i <= j
  <1>1. PICK i \in S : \A j \in S : ~(<<j, i>> \in OpToRel(<, Nat))
    BY WFMin, NatLessThanWellFounded
  <1>2. \A j \in S : ~(j < i)
    BY <1>1 DEF OpToRel
  <1> QED BY <1>2

\* While a section is read, the budget still covers one field for every later
\* section with resources, and one for the first resource of this section.
ReservationHeld ==
    phase = "inspect" =>
        remaining >= Reservation(listed, sec) + (IF current = {} /\ todo # {} THEN 1 ELSE 0)

IInv == TypeOK /\ ReservationHeld

\* An entry list is a sequence of entries, and decoding it gives a Listing.
LEMMA DecodeListType ==
    ASSUME NEW kind \in Kinds, world \in Worlds, NEW entries \in EntryLists(kind)
    PROVE  decode_list(entries) \in Listing
  <1> DEFINE E == Entries(kind) \cup {BadEntry}
  <1>1. E \subseteq [id : Nat, name : Nat]
    BY WorldsAssumption DEF Entries, BadEntry
  <1>2. Cardinality(Entries(kind)) \in Nat
    <2>1. IsFiniteSet(DOMAIN world.resources[kind])
      BY WorldsAssumption
    <2>2. IsFiniteSet(Entries(kind))
      <3> DEFINE f == [id \in DOMAIN world.resources[kind] |->
                          [id |-> id, name |-> world.resources[kind][id].name]]
      <3>1. f \in Surjection(DOMAIN world.resources[kind], Entries(kind))
        BY DEF Entries, Surjection
      <3> QED BY <3>1, <2>1, FS_Surjection
    <2> QED BY <2>2, FS_CardinalityType
  <1>3. entries \in Seq(E)
    BY <1>2 DEF EntryLists
  <1>4. \A i \in DOMAIN entries : entries[i] \in [id : Nat, name : Nat]
    BY <1>1, <1>3
  <1> QED
    BY <1>4 DEF decode_list, Listing

\* What the assumptions say of the kinds.
LEMMA KindsFacts ==
    /\ Len(ALL) \in Nat /\ Len(ALL) >= 1 /\ Len(ALL) <= MaxInventory
    /\ MaxInventory \in Nat /\ MaxRecord \in Nat /\ MaxRecord >= 1
    /\ \A i \in 1..Len(ALL) : ALL[i] \in Kinds
  BY ConstantsAssumption DEF Kinds

\* The ids of a list result, failed or not, are ids.
LEMMA ListedIdsType ==
    ASSUME NEW l \in Listing \cup ListFailure
    PROVE  ListedIds(l) \subseteq Nat
  BY DEF ListedIds, IsListed, Listing, ListFailure

\* One list result, however obtained, keeps the invariant.
LEMMA PushListedStep ==
    ASSUME IInv, phase = "list", NEW r \in Listing \cup ListFailure, PushListed(r)
    PROVE  IInv'
  <1> USE KindsFacts DEF IInv
  <1>1. /\ listed \in Seq(Listing \cup ListFailure)
        /\ Len(listed) < Len(ALL) /\ sections = <<>> /\ remaining = MaxInventory
        /\ todo = {} /\ current = {} /\ world \in Worlds /\ changes \in 0..MaxChanges
    BY DEF TypeOK
  <1>2. /\ listed' \in Seq(Listing \cup ListFailure)
        /\ Len(listed') = Len(listed) + 1
        /\ UNCHANGED <<sections, current, remaining, world, changes>>
    BY <1>1 DEF PushListed
  <1>3. IsSequence(sections')
    BY <1>1, <1>2 DEF IsSequence
  <1>4. CASE Len(listed) + 1 = Len(ALL)
    <2>1. phase' = "inspect" /\ todo' = ListedIds(listed'[1]) /\ Len(listed') = Len(ALL)
      BY <1>2, <1>4 DEF PushListed
    <2>2. listed'[1] \in Listing \cup ListFailure
      BY <1>2, <2>1
    <2>3. todo' \subseteq Nat
      BY <2>1, <2>2, ListedIdsType
    <2>4. sec' = 1
      BY <1>1, <1>2 DEF sec
    <2>5. TypeOK'
      BY <1>1, <1>2, <1>3, <2>1, <2>3, <2>4 DEF TypeOK, Phases
    <2>6. Reservation(listed', 1) \in Nat /\ Reservation(listed', 1) <= Len(ALL) - 1
      BY <2>1, ReservationBound
    <2>7. ReservationHeld'
      BY <1>1, <1>2, <2>4, <2>6 DEF ReservationHeld
    <2> QED BY <2>5, <2>7
  <1>5. CASE Len(listed) + 1 # Len(ALL)
    <2>1. phase' = "list" /\ todo' = {}
      BY <1>1, <1>5 DEF PushListed
    <2>2. Len(listed') < Len(ALL)
      BY <1>1, <1>2, <1>5
    <2>3. TypeOK'
      BY <1>1, <1>2, <1>3, <2>1, <2>2 DEF TypeOK, Phases
    <2> QED BY <2>1, <2>3 DEF ReservationHeld
  <1> QED BY <1>4, <1>5

\* One inspected record uses at most its limit, so it leaves the reserved
\* slots alone.
LEMMA OutcomeFields ==
    ASSUME TypeOK, phase = "inspect", NEW id \in Nat, NEW o \in InspectOutcomes(ALL[sec], id)
    PROVE  o.unmodelled \in Nat /\ o.unmodelled <= unknown_field_limit
  <1> USE KindsFacts
  <1>1. sec \in 1..Len(ALL) /\ Len(listed) = Len(ALL) /\ world \in Worlds /\ remaining \in Nat
    BY DEF TypeOK, sec, IsSequence
  <1>2. Reservation(listed, sec) \in Nat
    BY <1>1, ReservationBound
  <1>3. unknown_field_limit \in Nat
    BY <1>1, <1>2 DEF unknown_field_limit, SaturatingSub, Least
  <1>4. CASE \E code : o = partial_observation(ALL[sec], id, code)
    BY <1>3, <1>4 DEF partial_observation
  <1>5. CASE /\ id \in DOMAIN world.resources[ALL[sec]]
             /\ o = decode_observation(ALL[sec], id, world.resources[ALL[sec]][id], unknown_field_limit)
    <2>1. world.resources[ALL[sec]][id].unknown \in Nat
      BY <1>1, <1>5, WorldsAssumption
    <2>2. o.unmodelled = UnknownFieldCollector(world.resources[ALL[sec]][id].unknown, unknown_field_limit).fields
      BY <1>5, Zenon DEF decode_observation
    <2> QED BY <1>3, <2>1, <2>2 DEF UnknownFieldCollector, Least
  <1> QED BY <1>4, <1>5 DEF InspectOutcomes

\* One inspect keeps the invariant: it takes at most the limit, which leaves
\* the reserved slots alone.
LEMMA InspectStep ==
    ASSUME IInv, inspect_observation
    PROVE  IInv'
  <1> USE KindsFacts DEF IInv
  <1>1. /\ phase = "inspect" /\ todo # {} /\ todo \subseteq Nat /\ todo \subseteq ListedIds(listed[sec])
        /\ sec \in 1..Len(ALL) /\ Len(listed) = Len(ALL) /\ remaining \in 0..MaxInventory
    BY DEF inspect_observation, TypeOK, sec, IsSequence
  <1> DEFINE id == CHOOSE i \in todo : \A j \in todo : i <= j
  <1>2. PICK o \in InspectOutcomes(ALL[sec], id) :
          /\ current' = current \cup {o}
          /\ remaining' = SaturatingSub(remaining, o.unmodelled)
    BY DEF inspect_observation
  <1>3. /\ todo' = todo \ {id}
        /\ UNCHANGED <<phase, listed, sections, world, changes>>
    BY DEF inspect_observation
  <1>4. id \in Nat
    <2>1. \E i \in todo : \A j \in todo : i <= j
      BY <1>1, SmallestNat
    <2> QED BY <1>1, <2>1
  <1>5. o.unmodelled \in Nat /\ o.unmodelled <= unknown_field_limit
    BY <1>1, <1>4, OutcomeFields
  <1>6. Reservation(listed, sec) \in Nat
    BY <1>1, ReservationBound
  <1>7. remaining >= Reservation(listed, sec)
    BY <1>1, <1>6 DEF ReservationHeld
  <1>8. remaining' \in 0..MaxInventory /\ remaining' >= Reservation(listed, sec)
    BY <1>1, <1>2, <1>5, <1>6, <1>7 DEF unknown_field_limit, SaturatingSub, Least
  <1>9. sec' = sec
    BY <1>3 DEF sec
  <1>10. TypeOK'
    BY <1>1, <1>3, <1>8, <1>9 DEF TypeOK, IsSequence
  <1>11. ReservationHeld'
    BY <1>2, <1>3, <1>6, <1>8, <1>9 DEF ReservationHeld
  <1> QED BY <1>10, <1>11

\* Closing a section hands the slot reserved for the next one to it.
LEMMA PushSectionStep ==
    ASSUME IInv, PushSection
    PROVE  IInv'
  <1> USE KindsFacts DEF IInv
  <1>1. /\ phase = "inspect" /\ todo = {} /\ Len(sections) < Len(ALL)
        /\ IsSequence(sections) /\ Len(sections) \in Nat
        /\ listed \in Seq(Listing \cup ListFailure) /\ Len(listed) = Len(ALL)
        /\ remaining \in 0..MaxInventory
    BY DEF PushSection, TypeOK, IsSequence
  <1>2. current' = {} /\ UNCHANGED <<listed, remaining, world, changes>>
    BY DEF PushSection
  <1> DEFINE all == Append(sections, Section(listed[sec]))
  <1>3. /\ all \in Seq({sections[i] : i \in DOMAIN sections} \cup {Section(listed[sec])})
        /\ Len(all) = Len(sections) + 1
    BY <1>1 DEF IsSequence
  <1>4. CASE Len(all) = Len(ALL)
    <2>1. phase' = "done" /\ todo' = {} /\ sections' = reconcile_relationships(all)
      BY <1>1, <1>4 DEF PushSection
    <2>2. DOMAIN sections' = 1..Len(all)
      BY <1>3, <2>1 DEF reconcile_relationships
    <2>3. sections' \in [1..Len(all) -> {sections'[i] : i \in DOMAIN sections'}]
      BY <2>1, <2>2 DEF reconcile_relationships
    <2>4. IsSequence(sections') /\ Len(sections') = Len(ALL)
      BY <1>1, <1>3, <1>4, <2>3, FunctionIsSeq DEF IsSequence
    <2>5. TypeOK'
      BY <1>1, <1>2, <2>1, <2>4 DEF TypeOK, Phases
    <2> QED BY <2>1, <2>5 DEF ReservationHeld
  <1>5. CASE Len(all) # Len(ALL)
    <2>1. phase' = "inspect" /\ sections' = all /\ todo' = ListedIds(listed[sec + 1])
      BY <1>1, <1>5 DEF PushSection
    <2>2. sec \in 1..(Len(ALL) - 1) /\ sec' = sec + 1 /\ Len(sections') < Len(ALL)
      BY <1>1, <1>3, <1>5, <2>1 DEF sec
    <2>3. IsSequence(sections')
      BY <1>3, <2>1, OwnElements
    <2>4. listed[sec + 1] \in Listing \cup ListFailure
      BY <1>1, <2>2
    <2>5. todo' \subseteq Nat
      BY <2>1, <2>4, ListedIdsType
    <2>6. TypeOK'
      BY <1>1, <1>2, <2>1, <2>2, <2>3, <2>5 DEF TypeOK, Phases
    <2>7. Reservation(listed, sec) = Reservation(listed, sec + 1)
                                     + (IF todo' # {} THEN 1 ELSE 0)
      BY <1>1, <2>1, <2>2, ReservationStep
    <2>8. Reservation(listed, sec + 1) \in Nat
      BY <1>1, <2>2, ReservationBound
    <2>9. remaining >= Reservation(listed, sec)
      BY <1>1, <2>7, <2>8 DEF ReservationHeld
    <2>10. ReservationHeld'
      BY <1>1, <1>2, <2>2, <2>7, <2>8, <2>9 DEF ReservationHeld
    <2> QED BY <2>6, <2>10
  <1> QED BY <1>4, <1>5

\* The invariant is inductive: one step per action.
LEMMA IInvInductive ==
    ASSUME IInv, [Next]_vars
    PROVE  IInv'
  <1> USE KindsFacts
  <1>1. CASE Ping
    <2>1. phase = "ping" /\ phase' \in {"version", "failed"}
          /\ UNCHANGED <<listed, sections, todo, current, remaining, world, changes>>
      BY <1>1 DEF Ping
    <2> QED BY <2>1 DEF IInv, TypeOK, Phases, ReservationHeld, IsSequence
  <1>2. CASE Version
    <2>1. phase = "version" /\ phase' \in {"list", "failed"}
          /\ UNCHANGED <<listed, sections, todo, current, remaining, world, changes>>
      BY <1>2 DEF Version
    <2> QED BY <2>1 DEF IInv, TypeOK, Phases, ReservationHeld, IsSequence
  <1>3. CASE SkipInapplicable
    <2>1. Err("VersionInapplicableField") \in ListFailure
      BY DEF Err, ListFailure
    <2> QED BY <1>3, <2>1, PushListedStep DEF SkipInapplicable
  <1>4. CASE list_section
    <2>1. phase = "list" /\ world \in Worlds /\ ALL[Len(listed) + 1] \in Kinds
      BY <1>4 DEF list_section, IInv, TypeOK
    <2>2. CASE \E entries \in EntryLists(ALL[Len(listed) + 1]) : PushListed(decode_list(entries))
      BY <2>1, <2>2, DecodeListType, PushListedStep
    <2>3. CASE \E code \in ListFaults : PushListed(Err(code))
      <3>1. \A code \in ListFaults : Err(code) \in ListFailure
        BY ConstantsAssumption DEF Err, ListFailure
      <3> QED BY <2>1, <2>3, <3>1, PushListedStep
    <2> QED BY <1>4, <2>2, <2>3 DEF list_section
  <1>5. CASE inspect_observation
    BY <1>5, InspectStep
  <1>6. CASE PushSection
    BY <1>6, PushSectionStep
  <1>7. CASE ServiceChanges
    <2>1. UNCHANGED <<phase, listed, sections, todo, current, remaining>>
          /\ world' \in Worlds /\ changes < MaxChanges /\ changes' = changes + 1
      BY <1>7 DEF ServiceChanges
    <2> QED BY <2>1, ConstantsAssumption DEF IInv, TypeOK, ReservationHeld, IsSequence, sec
  <1>8. CASE UNCHANGED vars
    BY <1>8 DEF vars, IInv, TypeOK, ReservationHeld, IsSequence, sec
  <1> QED
    BY <1>1, <1>2, <1>3, <1>4, <1>5, <1>6, <1>7, <1>8 DEF Next, Acquire

\* The invariant holds before the first request.
LEMMA IInvInitially == Init => IInv
  BY KindsFacts, ConstantsAssumption DEF Init, IInv, TypeOK, Phases, ReservationHeld, IsSequence

\* The control state of acquire_inventory stays well formed under every
\* interleaving with the service, for every number of kinds and every budget.
THEOREM TypeCorrect == Spec => []TypeOK
  <1>1. IInv => TypeOK
    BY DEF IInv
  <1> QED
    BY <1>1, IInvInitially, IInvInductive, PTL DEF Spec

\* No kind with listed resources is starved of unmodelled-field evidence by
\* the kinds read before it, whatever the service answers.
THEOREM NotStarved == Spec => []NoKindStarved
  <1>1. ASSUME IInv PROVE NoKindStarved
    <2>1. SUFFICES ASSUME phase = "inspect", todo # {}, current = {}
                   PROVE  unknown_field_limit >= 1
      BY DEF NoKindStarved
    <2>2. sec \in 1..Len(ALL) /\ Len(listed) = Len(ALL) /\ remaining \in Nat
      BY <1>1, <2>1, KindsFacts DEF IInv, TypeOK, sec, IsSequence
    <2>3. Reservation(listed, sec) \in Nat
      BY <2>2, KindsFacts, ReservationBound
    <2>4. remaining >= Reservation(listed, sec) + 1
      BY <1>1, <2>1 DEF IInv, ReservationHeld
    <2> QED
      BY <2>2, <2>3, <2>4, KindsFacts DEF unknown_field_limit, SaturatingSub, Least
  <1> QED
    BY <1>1, IInvInitially, IInvInductive, PTL DEF Spec

-----------------------------------------------------------------------------
(* One record per listed id. *)

\* The records of a section of kind k: one for every id of ids, and no other.
RecordsOf(obs, k, ids) ==
    /\ \A o \in obs : o.kind = k /\ o.id \in ids
    /\ \A id \in ids : \E o \in obs : o.id = id
    /\ \A o, p \in obs : o.id = p.id => o = p

\* A section as its list result demands it.
SectionExact(s, k, l) ==
    /\ {"kind", "availability", "observations"} \subseteq DOMAIN s
    /\ s.kind = k
    /\ s.availability = "Available" <=> l.ok
    /\ RecordsOf(s.observations, k, ListedIds(l))

\* A record has the fields every record has, and refers to kinds there are.
Genuine(o) ==
    /\ {"kind", "id", "state", "unmodelled", "findings"} \subseteq DOMAIN o
    /\ o = [x \in DOMAIN o |-> o[x]]
    /\ \A r \in ObservedRels(o) : r.kind \in Kinds

\* Lists are finite, finished sections hold one record per listed id, and the
\* current one a record for every id that is no longer to do.
RecordsExact ==
    /\ \A i \in DOMAIN listed : IsFiniteSet(ListedIds(listed[i]))
    /\ phase \in {"inspect", "done"} =>
          \A i \in DOMAIN sections : SectionExact(sections[i], ALL[i], listed[i])
    /\ phase = "inspect" =>
          /\ RecordsOf(current, ALL[sec], ListedIds(listed[sec]) \ todo)
          /\ \A o \in AllObservations : Genuine(o)

\* The references of a record are those of a field it was decoded from.
LEMMA RelsFromFields ==
    ASSUME NEW kind, NEW fields, NEW r \in relationship_field(kind, fields).refs
    PROVE  \E f \in DOMAIN fields : \E s \in fields[f].refs :
              f \in ApplicableFields(kind, fields) /\ r = [kind |-> TargetKind[f], refs |-> s, path |-> f]
  <1> DEFINE used == ApplicableFields(kind, fields)
             all == UNION {{[kind |-> TargetKind[f], refs |-> s, path |-> f] : s \in fields[f].refs} : f \in used}
  <1>1. used \subseteq DOMAIN fields
    BY DEF ApplicableFields
  <1>2. r \in all
    BY DEF relationship_field, Field, AbsentField
  <1> HIDE DEF used
  <1>3. PICK f \in used : r \in {[kind |-> TargetKind[f], refs |-> s, path |-> f] : s \in fields[f].refs}
    BY <1>2
  <1>4. PICK s \in fields[f].refs : r = [kind |-> TargetKind[f], refs |-> s, path |-> f]
    BY <1>3
  <1> QED BY <1>1, <1>3, <1>4 DEF used

\* What an inspect records is a record of the id it asked for.
LEMMA OutcomeRecord ==
    ASSUME world \in Worlds, NEW kind \in Kinds, NEW id, NEW o \in InspectOutcomes(kind, id)
    PROVE  o.id = id /\ o.kind = kind /\ Genuine(o)
  <1>1. CASE \E code : o = partial_observation(kind, id, code)
    <2>1. PICK code : o = partial_observation(kind, id, code)
      BY <1>1
    <2>2. o.id = id /\ o.kind = kind /\ {"kind", "id", "state", "unmodelled", "findings"} \subseteq DOMAIN o
          /\ o = [x \in DOMAIN o |-> o[x]]
      BY <2>1 DEF partial_observation
    <2>3. o.rels = AbsentField
      BY <2>1 DEF partial_observation
    <2>4. ObservedRels(o) = {}
      BY <2>3 DEF ObservedRels, AbsentField, Field
    <2> QED BY <2>2, <2>4 DEF Genuine
  <1>2. CASE /\ id \in DOMAIN world.resources[kind]
             /\ o = decode_observation(kind, id, world.resources[kind][id], unknown_field_limit)
    <2> DEFINE r == world.resources[kind][id]
    <2>1. o.id = id /\ o.kind = kind /\ {"kind", "id", "state", "unmodelled", "findings"} \subseteq DOMAIN o
          /\ o = [x \in DOMAIN o |-> o[x]]
      BY <1>2 DEF decode_observation
    <2>2. o.rels = relationship_field(kind, r.fields)
      BY <1>2 DEF decode_observation
    <2>3. ASSUME NEW x \in ObservedRels(o) PROVE x.kind \in Kinds
      <3>1. x \in relationship_field(kind, r.fields).refs
        BY <2>2 DEF ObservedRels
      <3>2. PICK f \in DOMAIN r.fields : \E s \in r.fields[f].refs : x.kind = TargetKind[f]
        BY <3>1, RelsFromFields
      <3>3. \A f1 \in DOMAIN r.fields : \A s1 \in r.fields[f1].refs : TargetKind[f1] \in Kinds
        BY <1>2, WorldsAssumption
      <3> QED BY <3>2, <3>3
    <2> QED BY <2>1, <2>3 DEF Genuine
  <1> QED BY <1>1, <1>2 DEF InspectOutcomes

\* The ids of a list are finitely many.
LEMMA ListIsFinite ==
    ASSUME NEW kind \in Kinds, world \in Worlds, NEW entries \in EntryLists(kind)
    PROVE  IsFiniteSet(ListedIds(decode_list(entries)))
  <1> DEFINE D == DOMAIN world.resources[kind]
  <1>1. IsFiniteSet(D)
    BY WorldsAssumption
  <1>2. IsFiniteSet(Entries(kind)) /\ Cardinality(Entries(kind)) \in Nat
    <2> DEFINE f == [id \in D |-> [id |-> id, name |-> world.resources[kind][id].name]]
    <2>1. f \in Surjection(D, Entries(kind))
      BY DEF Entries, Surjection
    <2> QED BY <2>1, <1>1, FS_Surjection, FS_CardinalityType
  <1>3. entries \in Seq(Entries(kind) \cup {BadEntry})
    BY <1>2 DEF EntryLists
  <1>4. ListedIds(decode_list(entries)) \subseteq D
    <2>1. \A i \in DOMAIN entries : entries[i] # BadEntry => entries[i] \in Entries(kind)
      BY <1>3
    <2>2. \A e \in decode_list(entries).identities : e \in Entries(kind)
      BY <2>1 DEF decode_list
    <2>3. \A e \in Entries(kind) : e.id \in D
      BY DEF Entries
    <2> QED BY <2>2, <2>3 DEF ListedIds, IsListed
  <1> QED BY <1>1, <1>4, FS_Subset

\* A record of a new id is one more record.
LEMMA RecordAdded ==
    ASSUME NEW obs, NEW k, NEW ids, RecordsOf(obs, k, ids), NEW o, o.kind = k, o.id \notin ids
    PROVE  RecordsOf(obs \cup {o}, k, ids \cup {o.id})
  BY DEF RecordsOf

\* Another list result keeps the lists finite; there are no sections yet.
LEMMA RecordsPushListed ==
    ASSUME IInv, IInv', RecordsExact, phase = "list",
           NEW r \in Listing \cup ListFailure, IsFiniteSet(ListedIds(r)), PushListed(r)
    PROVE  RecordsExact'
  <1> USE KindsFacts DEF IInv
  <1>1. /\ listed \in Seq(Listing \cup ListFailure) /\ sections = <<>> /\ current = {}
        /\ phase' \in {"list", "inspect"}
        /\ listed' = Append(listed, r) /\ sections' = <<>> /\ current' = {}
    BY DEF TypeOK, PushListed
  <1>2. \A i \in DOMAIN listed' : IsFiniteSet(ListedIds(listed'[i]))
    BY <1>1 DEF RecordsExact
  <1>3. \A i \in DOMAIN sections' : SectionExact(sections'[i], ALL[i], listed'[i])
    BY <1>1
  <1>4. CASE phase' = "inspect"
    <2>1. todo' = ListedIds(listed'[1]) /\ sec' = 1
      BY <1>1, <1>4 DEF PushListed, sec
    <2>2. ListedIds(listed'[sec']) \ todo' = {}
      BY <2>1
    <2>3. RecordsOf(current', ALL[sec'], ListedIds(listed'[sec']) \ todo')
      BY <1>1, <2>2 DEF RecordsOf
    <2>4. AllObservations' = {}
      BY <1>1 DEF AllObservations, Observations
    <2> QED BY <1>2, <1>3, <2>3, <2>4 DEF RecordsExact
  <1> QED BY <1>1, <1>2, <1>3, <1>4 DEF RecordsExact

\* An inspect turns one id to do into one record.
LEMMA RecordsInspect ==
    ASSUME IInv, RecordsExact, inspect_observation
    PROVE  RecordsExact'
  <1> USE KindsFacts DEF IInv
  <1>1. /\ phase = "inspect" /\ todo # {} /\ todo \subseteq Nat /\ todo \subseteq ListedIds(listed[sec])
        /\ sec \in 1..Len(ALL) /\ world \in Worlds
    BY DEF inspect_observation, TypeOK, sec, IsSequence
  <1> DEFINE id == CHOOSE i \in todo : \A j \in todo : i <= j
  <1>2. PICK o \in InspectOutcomes(ALL[sec], id) : current' = current \cup {o}
    BY DEF inspect_observation
  <1>3. /\ todo' = todo \ {id}
        /\ UNCHANGED <<phase, listed, sections>>
    BY DEF inspect_observation
  <1>4. id \in todo
    BY <1>1, SmallestNat
  <1> HIDE DEF id
  <1>5. o.id = id /\ o.kind = ALL[sec] /\ Genuine(o)
    BY <1>1, <1>2, OutcomeRecord
  <1>6. sec' = sec
    BY <1>3 DEF sec
  <1>7. RecordsOf(current, ALL[sec], ListedIds(listed[sec]) \ todo)
    BY <1>1 DEF RecordsExact
  <1>8. ListedIds(listed[sec]) \ todo' = (ListedIds(listed[sec]) \ todo) \cup {id}
    BY <1>1, <1>3, <1>4
  <1>9. RecordsOf(current \cup {o}, ALL[sec], (ListedIds(listed[sec]) \ todo) \cup {id})
    BY <1>4, <1>5, <1>7, RecordAdded
  <1>10. AllObservations' = AllObservations \cup {o}
    BY <1>2, <1>3 DEF AllObservations
  <1>11. \A x \in AllObservations' : Genuine(x)
    BY <1>1, <1>5, <1>10 DEF RecordsExact
  <1>12. RecordsOf(current', ALL[sec'], ListedIds(listed'[sec']) \ todo')
    BY <1>2, <1>3, <1>6, <1>8, <1>9
  <1>13. /\ \A i \in DOMAIN listed' : IsFiniteSet(ListedIds(listed'[i]))
         /\ \A i \in DOMAIN sections' : SectionExact(sections'[i], ALL[i], listed'[i])
    BY <1>1, <1>3 DEF RecordsExact
  <1> QED BY <1>1, <1>3, <1>11, <1>12, <1>13 DEF RecordsExact

\* A finding more changes nothing else of a record.
LEMMA FindingsOnly ==
    ASSUME NEW o, Genuine(o), NEW X
    PROVE  LET r == [o EXCEPT !.findings = @ \cup X]
           IN  /\ r.id = o.id /\ r.kind = o.kind /\ r.state = o.state
               /\ r.findings = o.findings \cup X
               /\ X \subseteq o.findings => r = o
  <1> DEFINE r == [o EXCEPT !.findings = @ \cup X]
  <1>1. r = [x \in DOMAIN o |-> IF x = "findings" THEN o.findings \cup X ELSE o[x]]
    BY DEF Genuine
  <1>2. r.id = o.id /\ r.kind = o.kind /\ r.state = o.state /\ r.findings = o.findings \cup X
    BY <1>1 DEF Genuine
  <1>3. ASSUME X \subseteq o.findings PROVE r = o
    <2>1. o.findings \cup X = o.findings
      BY <1>3
    <2>2. \A x \in DOMAIN o : (IF x = "findings" THEN o.findings \cup X ELSE o[x]) = o[x]
      BY <2>1
    <2>3. r = [x \in DOMAIN o |-> o[x]]
      BY <1>1, <2>2
    <2> QED BY <2>3 DEF Genuine
  <1> QED BY <1>2, <1>3

\* A record, and a section, as reconciliation leaves it.
Reconciled(obs, available, o) ==
    [o EXCEPT !.findings = @ \cup reconcile_findings(obs, available, o)]
SectionReconciled(obs, available, s) ==
    [s EXCEPT !.observations = {Reconciled(obs, available, o) : o \in @}]

\* Reconciliation keeps the records of a section.
LEMMA ReconciledSection ==
    ASSUME NEW s, NEW k, NEW l, SectionExact(s, k, l), \A o \in s.observations : Genuine(o),
           NEW obs, NEW available
    PROVE  LET t == SectionReconciled(obs, available, s)
           IN  /\ SectionExact(t, k, l)
               /\ t.observations = {Reconciled(obs, available, o) : o \in s.observations}
               /\ t.kind = s.kind /\ t.availability = s.availability
  <1> DEFINE R(o) == Reconciled(obs, available, o)
             t == SectionReconciled(obs, available, s)
  <1>1. \A o \in s.observations : R(o).id = o.id /\ R(o).kind = o.kind
    BY FindingsOnly DEF Reconciled
  <1>2. t = [x \in DOMAIN s |-> IF x = "observations" THEN {R(o) : o \in s.observations} ELSE s[x]]
    BY DEF SectionExact, SectionReconciled
  <1> HIDE DEF R, t
  <1>3. /\ t.observations = {R(o) : o \in s.observations} /\ DOMAIN t = DOMAIN s
        /\ t.kind = s.kind /\ t.availability = s.availability
    BY <1>2 DEF SectionExact
  <1>4. RecordsOf(s.observations, k, ListedIds(l))
    BY DEF SectionExact
  <1>5. RecordsOf({R(o) : o \in s.observations}, k, ListedIds(l))
    BY <1>1, <1>4 DEF RecordsOf
  <1>6. SectionExact(t, k, l)
    BY <1>3, <1>5 DEF SectionExact
  <1> QED BY <1>3, <1>6 DEF R, t

\* Reconciliation goes through the sections one by one.
LEMMA ReconciledSections ==
    ASSUME NEW all
    PROVE  /\ DOMAIN reconcile_relationships(all) = DOMAIN all
           /\ \A i \in DOMAIN all :
                 reconcile_relationships(all)[i] =
                   SectionReconciled(Observations(all), AvailableKinds(all), all[i])
  BY DEF reconcile_relationships, SectionReconciled, Reconciled

\* Closing the current section: all sections so far are exact.
LEMMA ClosedSections ==
    ASSUME IInv, RecordsExact, PushSection
    PROVE  LET all == Append(sections, Section(listed[sec]))
           IN  /\ DOMAIN all = 1..sec /\ sec \in 1..Len(ALL)
               /\ \A i \in DOMAIN all : SectionExact(all[i], ALL[i], listed[i])
               /\ \A i \in DOMAIN all : \A o \in all[i].observations : Genuine(o)
  <1> USE KindsFacts DEF IInv
  <1> DEFINE all == Append(sections, Section(listed[sec]))
  <1>1. /\ phase = "inspect" /\ todo = {} /\ IsSequence(sections) /\ Len(sections) < Len(ALL)
        /\ listed \in Seq(Listing \cup ListFailure) /\ Len(listed) = Len(ALL)
    BY DEF PushSection, TypeOK
  <1>2. /\ sec \in 1..Len(ALL) /\ DOMAIN all = 1..sec /\ DOMAIN sections = 1..(sec - 1)
        /\ \A i \in 1..(sec - 1) : all[i] = sections[i]
        /\ all[sec] = Section(listed[sec])
    BY <1>1 DEF IsSequence, sec
  <1>3. listed[sec] \in Listing \cup ListFailure
    BY <1>1, <1>2
  <1>4. RecordsOf(current, ALL[sec], ListedIds(listed[sec]))
    <2>1. ListedIds(listed[sec]) \ todo = ListedIds(listed[sec])
      BY <1>1
    <2> QED BY <1>1, <2>1 DEF RecordsExact
  <1> HIDE DEF all
  <1>5. SectionExact(all[sec], ALL[sec], listed[sec]) /\ all[sec].observations \subseteq current
    <2>1. CASE listed[sec].ok
      <3>1. Section(listed[sec]) = [kind |-> ALL[sec], availability |-> "Available",
                                    observations |-> current, findings |-> listed[sec].findings]
        BY <2>1 DEF Section
      <3> QED BY <1>2, <1>4, <2>1, <3>1 DEF SectionExact
    <2>2. CASE ~listed[sec].ok
      <3> DEFINE av == IF listed[sec].code \in {"InventoryJson", "InventoryShape"} THEN "Malformed" ELSE "Unavailable"
      <3>1. Section(listed[sec]) = [kind |-> ALL[sec], availability |-> av,
                                    observations |-> {}, findings |-> {[code |-> listed[sec].code, id |-> 0]}]
        BY <2>2 DEF Section
      <3>2. av # "Available"
        OBVIOUS
      <3>3. ListedIds(listed[sec]) = {}
        BY <2>2 DEF ListedIds, IsListed
      <3>4. RecordsOf({}, ALL[sec], ListedIds(listed[sec]))
        BY <3>3 DEF RecordsOf
      <3> HIDE DEF av
      <3> QED BY <1>2, <2>2, <3>1, <3>2, <3>4 DEF SectionExact
    <2> QED BY <2>1, <2>2
  <1>6. \A i \in 1..sec : SectionExact(all[i], ALL[i], listed[i])
    <2>1. \A i \in 1..(sec - 1) : SectionExact(sections[i], ALL[i], listed[i])
      BY <1>1, <1>2 DEF RecordsExact
    <2> QED BY <1>2, <1>5, <2>1
  <1>7. ASSUME NEW i \in 1..sec, NEW o \in all[i].observations PROVE Genuine(o)
    <2>1. CASE i = sec
      BY <1>1, <1>5, <1>7, <2>1 DEF RecordsExact, AllObservations
    <2>2. CASE i # sec
      <3>1. i \in DOMAIN sections /\ o \in sections[i].observations
        BY <1>2, <1>7, <2>2
      <3>2. o \in Observations(sections)
        BY <3>1 DEF Observations
      <3> QED BY <1>1, <3>2 DEF RecordsExact, AllObservations
    <2> QED BY <2>1, <2>2
  <1> QED BY <1>2, <1>6, <1>7 DEF all

\* Closing a section, the last one with its reconciliation, keeps the records.
LEMMA RecordsPushSection ==
    ASSUME IInv, RecordsExact, PushSection
    PROVE  RecordsExact'
  <1> USE KindsFacts
  <1> DEFINE all == Append(sections, Section(listed[sec]))
  <1>1. /\ DOMAIN all = 1..sec /\ sec \in 1..Len(ALL)
        /\ \A i \in DOMAIN all : SectionExact(all[i], ALL[i], listed[i])
        /\ \A i \in DOMAIN all : \A o \in all[i].observations : Genuine(o)
    BY ClosedSections
  <1>2. /\ phase = "inspect" /\ IsSequence(sections) /\ current' = {} /\ listed' = listed
        /\ Len(all) = sec
    BY <1>1 DEF PushSection, IInv, TypeOK, IsSequence, sec
  <1>3. \A i \in DOMAIN listed' : IsFiniteSet(ListedIds(listed'[i]))
    BY <1>2 DEF RecordsExact
  <1>4. CASE Len(all) = Len(ALL)
    <2>1. phase' = "done" /\ sections' = reconcile_relationships(all)
      BY <1>4 DEF PushSection
    <2> HIDE DEF all
    <2>2. ASSUME NEW i \in DOMAIN all
          PROVE  SectionExact(sections'[i], ALL[i], listed[i])
      <3>1. sections'[i] = SectionReconciled(Observations(all), AvailableKinds(all), all[i])
        BY <2>1, ReconciledSections
      <3> QED BY <1>1, <3>1, ReconciledSection
    <2>3. DOMAIN sections' = DOMAIN all
      BY <2>1, ReconciledSections
    <2> QED BY <1>2, <1>3, <2>1, <2>2, <2>3 DEF RecordsExact
  <1>5. CASE Len(all) # Len(ALL)
    <2>1. phase' = "inspect" /\ sections' = all /\ todo' = ListedIds(listed[sec + 1])
      BY <1>2, <1>5 DEF PushSection
    <2>2. sec' = sec + 1
      BY <1>2, <2>1 DEF sec
    <2> HIDE DEF all
    <2>3. ListedIds(listed'[sec']) \ todo' = {}
      BY <1>2, <2>1, <2>2
    <2>4. RecordsOf(current', ALL[sec'], ListedIds(listed'[sec']) \ todo')
      BY <1>2, <2>3 DEF RecordsOf
    <2>5. \A o \in AllObservations' : Genuine(o)
      BY <1>1, <1>2, <2>1 DEF AllObservations, Observations
    <2> QED BY <1>1, <1>2, <1>3, <2>1, <2>4, <2>5 DEF RecordsExact
  <1> QED BY <1>4, <1>5

\* Every step keeps the records exact.
LEMMA RecordsStep ==
    ASSUME IInv, IInv', RecordsExact, [Next]_vars
    PROVE  RecordsExact'
  <1> USE KindsFacts
  <1>1. CASE Ping \/ Version
    <2>1. phase \in {"ping", "version"} /\ phase' \in {"version", "list", "failed"}
          /\ UNCHANGED listed
      BY <1>1 DEF Ping, Version
    <2> QED BY <2>1 DEF RecordsExact
  <1>2. CASE SkipInapplicable
    <2>1. Err("VersionInapplicableField") \in ListFailure /\ ListedIds(Err("VersionInapplicableField")) = {}
      BY DEF Err, ListFailure, ListedIds, IsListed
    <2> QED BY <1>2, <2>1, FS_EmptySet, RecordsPushListed DEF SkipInapplicable
  <1>3. CASE list_section
    <2>1. phase = "list" /\ world \in Worlds /\ ALL[Len(listed) + 1] \in Kinds
      BY <1>3 DEF list_section, IInv, TypeOK
    <2>2. CASE \E entries \in EntryLists(ALL[Len(listed) + 1]) : PushListed(decode_list(entries))
      BY <2>1, <2>2, DecodeListType, ListIsFinite, RecordsPushListed
    <2>3. CASE \E code \in ListFaults : PushListed(Err(code))
      <3>1. \A code \in ListFaults : Err(code) \in ListFailure /\ ListedIds(Err(code)) = {}
        BY ConstantsAssumption DEF Err, ListFailure, ListedIds, IsListed
      <3> QED BY <2>1, <2>3, <3>1, FS_EmptySet, RecordsPushListed
    <2> QED BY <1>3, <2>2, <2>3 DEF list_section
  <1>4. CASE inspect_observation
    BY <1>4, RecordsInspect
  <1>5. CASE PushSection
    BY <1>5, RecordsPushSection
  <1>6. CASE ServiceChanges \/ UNCHANGED vars
    <2>1. UNCHANGED <<phase, listed, sections, todo, current>>
      BY <1>6 DEF ServiceChanges, vars
    <2> QED BY <2>1 DEF RecordsExact, AllObservations, sec
  <1> QED BY <1>1, <1>2, <1>3, <1>4, <1>5, <1>6 DEF Next, Acquire

-----------------------------------------------------------------------------
(* One request per thing asked. *)

\* An inspect that was sent while section n of the lists ls was read and the
\* ids of left were to do: of an id a list returned, in a section that is
\* finished, or in this one and no longer to do.
Inspected(q, ls, n, left) ==
    \E k \in DOMAIN ls :
        /\ ALL[k] = q.kind /\ q.id \in ListedIds(ls[k])
        /\ k < n \/ (k = n /\ q.id \notin left)

\* What the requests sent so far have to do with the state: before the lists
\* there is only the probe, and before the inspects only the probe and lists of
\* the kinds that are listed.
RequestsExplained ==
    /\ phase = "ping" => requests = <<>>
    /\ \A i \in DOMAIN requests :
          /\ phase \in {"ping", "version"} => requests[i].op = "ping"
          /\ requests[i].op = "list" => \E k \in DOMAIN listed : ALL[k] = requests[i].kind
          /\ requests[i].op = "inspect" => phase \in {"inspect", "done"} /\ Inspected(requests[i], listed, sec, todo)

\* None is sent twice, and inspects come last.
RequestsOnce ==
    /\ IsSequence(requests)
    /\ \A i, j \in DOMAIN requests : requests[i] = requests[j] => i = j
    /\ \A i, j \in DOMAIN requests :
          requests[i].op = "inspect" /\ requests[j].op # "inspect" => j < i

\* What sending a request does to the history.
LEMMA OneMoreRequest ==
    ASSUME IsSequence(requests), NEW q, requests' = Append(requests, q)
    PROVE  /\ IsSequence(requests') /\ DOMAIN requests = 1..Len(requests) /\ Len(requests) \in Nat
           /\ DOMAIN requests' = 1..(Len(requests) + 1)
           /\ \A i \in DOMAIN requests : requests'[i] = requests[i]
           /\ requests'[Len(requests) + 1] = q
  <1> DEFINE S == {requests[i] : i \in DOMAIN requests}
  <1>1. requests \in Seq(S)
    BY DEF IsSequence
  <1> HIDE DEF S
  <1>2. requests' \in Seq(S \cup {q})
    BY <1>1
  <1>3. IsSequence(requests')
    BY <1>2, OwnElements
  <1> QED BY <1>1, <1>3

\* A request that was not sent before, sent in its turn.
LEMMA NewRequest ==
    ASSUME RequestsOnce, NEW q, requests' = Append(requests, q),
           \A i \in DOMAIN requests : requests[i] # q,
           q.op = "inspect" \/ \A i \in DOMAIN requests : requests[i].op # "inspect"
    PROVE  RequestsOnce'
  <1> DEFINE n == Len(requests) + 1
  <1>1. /\ IsSequence(requests') /\ DOMAIN requests = 1..(n - 1) /\ n \in Nat
        /\ DOMAIN requests' = 1..n
        /\ \A i \in DOMAIN requests : requests'[i] = requests[i]
        /\ requests'[n] = q
    BY OneMoreRequest DEF RequestsOnce
  <1> HIDE DEF n
  <1>2. \A i, j \in 1..(n - 1) : requests[i] = requests[j] => i = j
    BY <1>1 DEF RequestsOnce
  <1>3. \A i, j \in 1..(n - 1) : requests[i].op = "inspect" /\ requests[j].op # "inspect" => j < i
    BY <1>1 DEF RequestsOnce
  <1>4. \A i, j \in DOMAIN requests' : requests'[i] = requests'[j] => i = j
    BY <1>1, <1>2
  <1>5. \A i, j \in DOMAIN requests' : requests'[i].op = "inspect" /\ requests'[j].op # "inspect" => j < i
    BY <1>1, <1>3
  <1> QED BY <1>1, <1>4, <1>5 DEF RequestsOnce

\* The kinds that are listed are the first ones.
LEMMA NextKindIsNew ==
    ASSUME IInv, phase = "list", NEW k \in DOMAIN listed
    PROVE  ALL[k] # ALL[Len(listed) + 1]
  <1>1. listed \in Seq(Listing \cup ListFailure) /\ Len(listed) < Len(ALL)
    BY DEF IInv, TypeOK
  <1>2. k \in DOMAIN ALL /\ Len(listed) + 1 \in DOMAIN ALL /\ k # Len(listed) + 1
    BY <1>1, ConstantsAssumption
  <1> QED BY <1>2, ConstantsAssumption

\* A list result does not change what the earlier requests were for.
LEMMA ListedGrows ==
    ASSUME IInv, phase = "list", NEW r, PushListed(r)
    PROVE  /\ DOMAIN listed \subseteq DOMAIN listed'
           /\ Len(listed) + 1 \in DOMAIN listed'
           /\ phase' \in {"list", "inspect"}
  <1>1. listed \in Seq(Listing \cup ListFailure)
    BY DEF IInv, TypeOK
  <1>2. listed' = Append(listed, r) /\ phase' \in {"list", "inspect"}
    BY DEF PushListed
  <1> QED BY <1>1, <1>2

\* Listing, or skipping, a kind.
LEMMA RequestsPushListed ==
    ASSUME IInv, RequestsExplained, RequestsOnce, phase = "list", NEW r, PushListed(r),
           requests' \in {requests, Append(requests, [op |-> "list", kind |-> ALL[Len(listed) + 1], id |-> 0])}
    PROVE  RequestsExplained' /\ RequestsOnce'
  <1> DEFINE q == [op |-> "list", kind |-> ALL[Len(listed) + 1], id |-> 0]
  <1>0. q.op = "list" /\ q.kind = ALL[Len(listed) + 1]
    OBVIOUS
  <1>1. /\ DOMAIN listed \subseteq DOMAIN listed' /\ Len(listed) + 1 \in DOMAIN listed'
        /\ phase' \in {"list", "inspect"}
    BY ListedGrows
  <1>2. \A i \in DOMAIN requests : requests[i].op # "inspect"
    BY DEF RequestsExplained
  <1>3. \A i \in DOMAIN requests :
           requests[i].op = "list" => \E k \in DOMAIN listed' : ALL[k] = requests[i].kind
    BY <1>1 DEF RequestsExplained
  <1>4. CASE requests' = requests
    BY <1>1, <1>2, <1>3, <1>4 DEF RequestsExplained, RequestsOnce, IsSequence
  <1>5. CASE requests' = Append(requests, q)
    <2>1. \A i \in DOMAIN requests : requests[i] # q
      BY <1>0, NextKindIsNew DEF RequestsExplained
    <2> HIDE DEF q
    <2>2. RequestsOnce'
      BY <1>2, <1>5, <2>1, NewRequest
    <2>3. /\ DOMAIN requests' = 1..(Len(requests) + 1) /\ DOMAIN requests = 1..Len(requests)
          /\ Len(requests) \in Nat
          /\ \A i \in DOMAIN requests : requests'[i] = requests[i]
          /\ requests'[Len(requests) + 1] = q
      BY <1>5, OneMoreRequest DEF RequestsOnce
    <2>4. ASSUME NEW i \in DOMAIN requests'
          PROVE  /\ requests'[i].op # "inspect"
                 /\ requests'[i].op = "list" => \E k \in DOMAIN listed' : ALL[k] = requests'[i].kind
      <3>1. CASE i \in DOMAIN requests
        BY <1>2, <1>3, <2>3, <3>1
      <3>2. CASE i = Len(requests) + 1
        BY <1>0, <1>1, <2>3, <3>2
      <3> QED BY <2>3, <3>1, <3>2
    <2>5. RequestsExplained'
      BY <1>1, <2>4 DEF RequestsExplained
    <2> QED BY <2>2, <2>5
  <1> QED BY <1>4, <1>5

\* Inspecting one id.
LEMMA RequestsInspect ==
    ASSUME IInv, RequestsExplained, RequestsOnce, inspect_observation
    PROVE  RequestsExplained' /\ RequestsOnce'
  <1> USE KindsFacts
  <1>1. /\ phase = "inspect" /\ todo # {} /\ todo \subseteq Nat /\ todo \subseteq ListedIds(listed[sec])
        /\ sec \in 1..Len(ALL) /\ DOMAIN listed = 1..Len(ALL)
    BY DEF inspect_observation, IInv, TypeOK, sec, IsSequence
  <1> DEFINE id == CHOOSE i \in todo : \A j \in todo : i <= j
             q == [op |-> "inspect", kind |-> ALL[sec], id |-> id]
  <1>2. id \in todo
    BY <1>1, SmallestNat
  <1>3. /\ todo' = todo \ {id} /\ UNCHANGED <<phase, listed, sections>>
        /\ requests' \in {requests, Append(requests, q)}
    BY DEF inspect_observation, Sent
  <1> HIDE DEF id
  <1>4. sec' = sec
    BY <1>3 DEF sec
  <1>5. q.op = "inspect" /\ q.kind = ALL[sec] /\ q.id = id
    OBVIOUS
  <1> HIDE DEF q
  <1>6. \A x : Inspected(x, listed, sec, todo) => Inspected(x, listed', sec', todo')
    BY <1>3, <1>4 DEF Inspected
  <1>7. Inspected(q, listed', sec', todo')
    BY <1>1, <1>2, <1>3, <1>4, <1>5 DEF Inspected
  <1>8. ASSUME NEW i \in DOMAIN requests PROVE requests[i] # q
    <2>1. SUFFICES ASSUME requests[i] = q PROVE FALSE
      OBVIOUS
    <2>2. Inspected(q, listed, sec, todo)
      BY <1>5, <2>1 DEF RequestsExplained
    <2>3. PICK k \in DOMAIN listed : /\ ALL[k] = ALL[sec]
                                     /\ k < sec \/ (k = sec /\ id \notin todo)
      BY <1>5, <2>2 DEF Inspected
    <2>4. k = sec
      BY <1>1, <2>3, ConstantsAssumption
    <2> QED BY <1>1, <1>2, <2>3, <2>4
  <1>9. CASE requests' = requests
    BY <1>3, <1>6, <1>9 DEF RequestsExplained, RequestsOnce, IsSequence
  <1>10. CASE requests' = Append(requests, q)
    <2>1. RequestsOnce'
      BY <1>5, <1>8, <1>10, NewRequest
    <2>2. /\ DOMAIN requests' = 1..(Len(requests) + 1) /\ DOMAIN requests = 1..Len(requests)
          /\ Len(requests) \in Nat
          /\ \A i \in DOMAIN requests : requests'[i] = requests[i]
          /\ requests'[Len(requests) + 1] = q
      BY <1>10, OneMoreRequest DEF RequestsOnce
    <2>3. ASSUME NEW i \in DOMAIN requests'
          PROVE  /\ requests'[i].op = "list" => \E k \in DOMAIN listed' : ALL[k] = requests'[i].kind
                 /\ requests'[i].op = "inspect" => Inspected(requests'[i], listed', sec', todo')
      <3>1. CASE i \in DOMAIN requests
        BY <1>3, <1>6, <2>2, <3>1 DEF RequestsExplained
      <3>2. CASE i = Len(requests) + 1
        BY <1>5, <1>7, <2>2, <3>2
      <3> QED BY <2>2, <3>1, <3>2
    <2>4. RequestsExplained'
      BY <1>1, <1>3, <2>3 DEF RequestsExplained
    <2> QED BY <2>1, <2>4
  <1> QED BY <1>3, <1>9, <1>10

\* Closing a section.
LEMMA RequestsPushSection ==
    ASSUME IInv, RequestsExplained, RequestsOnce, PushSection
    PROVE  RequestsExplained' /\ RequestsOnce'
  <1>1. /\ phase = "inspect" /\ phase' \in {"inspect", "done"} /\ UNCHANGED <<listed, requests>>
        /\ IsSequence(sections)
    BY DEF PushSection, IInv, TypeOK
  <1>2. sec \in Nat /\ sec' = sec + 1
    <2> DEFINE all == Append(sections, Section(listed[sec]))
    <2>1. Len(all) = Len(sections) + 1 /\ Len(sections) \in Nat /\ DOMAIN all = 1..Len(all)
      BY <1>1 DEF IsSequence
    <2>2. sections' \in {all, reconcile_relationships(all)}
      BY DEF PushSection
    <2>3. Len(sections') = Len(all)
      <3>1. CASE sections' = all
        BY <3>1
      <3>2. CASE sections' = reconcile_relationships(all)
        <4> HIDE DEF all
        <4>1. sections' \in [1..Len(all) -> {sections'[i] : i \in 1..Len(all)}]
          BY <2>1, <3>2 DEF reconcile_relationships
        <4>2. Len(all) \in Nat
          BY <2>1
        <4> QED BY <4>1, <4>2, FunctionIsSeq
      <3> QED BY <2>2, <3>1, <3>2
    <2> QED BY <2>1, <2>3 DEF sec
  <1>3. DOMAIN listed \subseteq Nat
    BY DEF IInv, TypeOK
  <1>4. \A x : Inspected(x, listed, sec, todo) => Inspected(x, listed', sec', todo')
    <2>1. SUFFICES ASSUME NEW x, Inspected(x, listed, sec, todo) PROVE Inspected(x, listed, sec', todo')
      BY <1>1
    <2>2. PICK k \in DOMAIN listed : /\ ALL[k] = x.kind /\ x.id \in ListedIds(listed[k])
                                     /\ k < sec \/ k = sec
      BY <2>1 DEF Inspected
    <2>3. k < sec'
      BY <1>2, <1>3, <2>2
    <2> QED BY <2>2, <2>3 DEF Inspected
  <1> QED BY <1>1, <1>4 DEF RequestsExplained, RequestsOnce, IsSequence

\* Every step keeps the history of requests in order.
LEMMA RequestsStep ==
    ASSUME IInv, RequestsExplained, RequestsOnce, [Next]_vars
    PROVE  RequestsExplained' /\ RequestsOnce'
  <1>1. CASE Ping \/ Version
    <2>1. PICK q : /\ requests' = Append(requests, q) /\ q.op = (IF phase = "ping" THEN "ping" ELSE "version")
      BY <1>1 DEF Ping, Version, Sent
    <2>2. /\ phase \in {"ping", "version"} /\ (phase = "ping" => phase' \in {"version", "failed"})
          /\ (phase = "version" => phase' \in {"list", "failed"})
      BY <1>1 DEF Ping, Version
    <2>3. \A i \in DOMAIN requests : requests[i].op = "ping"
      BY <2>2 DEF RequestsExplained
    <2>4. \A i \in DOMAIN requests : requests[i] # q
      BY <2>1, <2>2, <2>3 DEF RequestsExplained
    <2>5. RequestsOnce'
      BY <2>1, <2>3, <2>4, NewRequest
    <2>6. /\ DOMAIN requests' = 1..(Len(requests) + 1) /\ DOMAIN requests = 1..Len(requests)
          /\ Len(requests) \in Nat
          /\ \A i \in DOMAIN requests : requests'[i] = requests[i]
          /\ requests'[Len(requests) + 1] = q
      BY <2>1, OneMoreRequest DEF RequestsOnce
    <2>7. \A i \in DOMAIN requests' :
             /\ requests'[i].op \in {"ping", "version"}
             /\ phase' = "version" => requests'[i].op = "ping"
      BY <2>1, <2>2, <2>3, <2>6
    <2>8. RequestsExplained'
      BY <2>2, <2>7 DEF RequestsExplained
    <2> QED BY <2>5, <2>8
  <1>2. CASE SkipInapplicable
    BY <1>2, RequestsPushListed DEF SkipInapplicable
  <1>3. CASE list_section
    BY <1>3, RequestsPushListed DEF list_section, Sent
  <1>4. CASE inspect_observation
    BY <1>4, RequestsInspect
  <1>5. CASE PushSection
    BY <1>5, RequestsPushSection
  <1>6. CASE ServiceChanges \/ UNCHANGED vars
    <2>1. UNCHANGED <<phase, listed, sections, todo, requests>>
      BY <1>6 DEF ServiceChanges, vars
    <2> QED BY <2>1 DEF RequestsExplained, RequestsOnce, IsSequence, Inspected, sec
  <1> QED BY <1>1, <1>2, <1>3, <1>4, <1>5, <1>6 DEF Next, Acquire

-----------------------------------------------------------------------------
(* What a finished inventory is worth. *)

AcquisitionInv == IInv /\ RecordsExact /\ RequestsExplained /\ RequestsOnce

\* The whole invariant is an invariant.
LEMMA AlwaysAcquisitionInv == Spec => []AcquisitionInv
  <1>1. Init => AcquisitionInv
    <2>1. Init => RecordsExact /\ RequestsExplained /\ RequestsOnce
      BY DEF Init, RecordsExact, RequestsExplained, RequestsOnce, IsSequence
    <2> QED BY <2>1, IInvInitially DEF AcquisitionInv
  <1>2. AcquisitionInv /\ [Next]_vars => AcquisitionInv'
    BY IInvInductive, RecordsStep, RequestsStep DEF AcquisitionInv
  <1> QED BY <1>1, <1>2, PTL DEF Spec

\* Sections of distinct records have as many records as ids.
LEMMA AsManyRecords ==
    ASSUME NEW obs, NEW k, NEW ids, RecordsOf(obs, k, ids), IsFiniteSet(ids)
    PROVE  {o.id : o \in obs} = ids /\ Cardinality(obs) = Cardinality(ids)
  <1>1. {o.id : o \in obs} = ids
    BY DEF RecordsOf
  <1> DEFINE f == [o \in obs |-> o.id]
  <1>2. f \in Injection(obs, ids) /\ f \in Surjection(obs, ids)
    BY DEF RecordsOf, Injection, Surjection, IsInjective
  <1> QED BY <1>1, <1>2, FS_Injection

\* For every service, every interleaving and every list of kinds: a finished
\* inventory holds exactly one record per id its lists returned, and every
\* request was sent once and in its turn (acquire_inventory).
THEOREM ListedOnce == Spec => []EachListedOnce
  <1>1. ASSUME AcquisitionInv PROVE EveryListedResourceObserved
    <2>1. SUFFICES ASSUME phase = "done", NEW i \in DOMAIN ALL
                   PROVE  /\ {o.id : o \in sections[i].observations} = ListedIds(listed[i])
                          /\ Cardinality(sections[i].observations) = Cardinality(ListedIds(listed[i]))
                          /\ sections[i].availability = "Available" <=> listed[i].ok
      BY DEF EveryListedResourceObserved
    <2>2. i \in DOMAIN sections /\ i \in DOMAIN listed
      BY <1>1, <2>1, ConstantsAssumption DEF AcquisitionInv, IInv, TypeOK, IsSequence
    <2>3. SectionExact(sections[i], ALL[i], listed[i]) /\ IsFiniteSet(ListedIds(listed[i]))
      BY <1>1, <2>1, <2>2 DEF AcquisitionInv, RecordsExact
    <2>4. RecordsOf(sections[i].observations, ALL[i], ListedIds(listed[i]))
      BY <2>3 DEF SectionExact
    <2> QED BY <2>3, <2>4, AsManyRecords DEF SectionExact
  <1>2. ASSUME AcquisitionInv PROVE RequestsInOrder
    BY <1>2 DEF AcquisitionInv, RequestsExplained, RequestsOnce, RequestsInOrder, Inspected
  <1> QED BY <1>1, <1>2, AlwaysAcquisitionInv, PTL DEF EachListedOnce

\* A reference that resolves to one record selects no other, by any of its
\* spellings.
LEMMA OneTarget ==
    ASSUME NEW obs, NEW r, resolve_relationship_target(obs, r).tag = "One",
           IsFiniteSet({o.id : o \in {x \in obs : x.kind = r.kind}})
    PROVE  \E id : /\ resolve_relationship_target(obs, r).id = id
                   /\ \A i \in DOMAIN r.refs : Targets(obs, r.kind, r.refs[i]) \subseteq {id}
                   /\ \E i \in DOMAIN r.refs : id \in Targets(obs, r.kind, r.refs[i])
  <1> DEFINE C(i) == Targets(obs, r.kind, r.refs[i])
             bad == {i \in DOMAIN r.refs : Cardinality(C(i)) # 1}
             all == UNION {C(i) : i \in DOMAIN r.refs}
             ids == {o.id : o \in {x \in obs : x.kind = r.kind}}
             first == CHOOSE i \in bad : \A j \in bad : i <= j
             failed == IF C(first) = {} THEN Unresolved ELSE Ambiguous
  <1>1. resolve_relationship_target(obs, r) =
          IF bad # {} THEN failed
          ELSE IF all = {} THEN Unresolved
          ELSE IF Cardinality(all) = 1 THEN One(CHOOSE id \in all : TRUE) ELSE Conflict
    BY DEF resolve_relationship_target
  <1>2. failed.tag # "One" /\ Unresolved.tag # "One" /\ Conflict.tag # "One"
    BY DEF Unresolved, Ambiguous, Conflict
  <1>3. all \in SUBSET ids
    BY DEF Targets
  <1> HIDE DEF bad, failed, ids, all
  <1>4. Cardinality(all) = 1 /\ resolve_relationship_target(obs, r) = One(CHOOSE id \in all : TRUE)
    BY <1>1, <1>2
  <1>5. IsFiniteSet(all)
    BY <1>3, FS_Subset DEF ids
  <1>6. PICK id : all = {id}
    BY <1>4, <1>5, FS_Singleton
  <1>7. resolve_relationship_target(obs, r).id = id
    BY <1>4, <1>6 DEF One
  <1>8. /\ \A i \in DOMAIN r.refs : C(i) \subseteq {id}
        /\ \E i \in DOMAIN r.refs : id \in C(i)
    BY <1>6 DEF all
  <1> QED BY <1>7, <1>8

\* Records told apart by kind and id, finitely many of each kind.
Distinct(obs) ==
    /\ \A o, p \in obs : o.kind = p.kind /\ o.id = p.id => o = p
    /\ \A k \in Kinds : IsFiniteSet({o.id : o \in {x \in obs : x.kind = k}})

\* Records reconciliation has nothing to say about.
Clean(obs) ==
    \A o \in obs : Genuine(o) /\ o.kind \in Kinds /\ reconcile_findings(obs, Kinds, o) = {}

\* In a clean set every reference selects exactly one record.
LEMMA CleanReferences ==
    ASSUME NEW obs, Distinct(obs), Clean(obs), NEW o \in obs, NEW r \in ObservedRels(o)
    PROVE  \E t \in obs :
              /\ t.kind = r.kind
              /\ \A u \in obs : (u.kind = r.kind /\ \E i \in DOMAIN r.refs :
                                    r.refs[i] \in {u.id, u.name} \cup u.aliases) => u = t
  <1>1. r.kind \in Kinds
    BY DEF Clean, Genuine
  <1>2. RelationshipFindings(obs, Kinds, o) = {}
    BY DEF Clean, reconcile_findings
  <1>3. resolve_relationship_target(obs, r).tag = "One"
    BY <1>1, <1>2 DEF RelationshipFindings
  <1>4. PICK id : /\ \A i \in DOMAIN r.refs : Targets(obs, r.kind, r.refs[i]) \subseteq {id}
                  /\ \E i \in DOMAIN r.refs : id \in Targets(obs, r.kind, r.refs[i])
    BY <1>1, <1>3, OneTarget DEF Distinct
  <1>5. PICK t \in obs : t.kind = r.kind /\ t.id = id
    BY <1>4 DEF Targets
  <1>6. ASSUME NEW u \in obs, u.kind = r.kind, NEW i \in DOMAIN r.refs,
               r.refs[i] \in {u.id, u.name} \cup u.aliases
        PROVE  u = t
    <2>1. u.id \in Targets(obs, r.kind, r.refs[i])
      BY <1>6 DEF Targets
    <2>2. u.id = id
      BY <1>4, <2>1
    <2> QED BY <1>5, <1>6, <2>2 DEF Distinct
  <1> QED BY <1>5, <1>6

\* In a clean set pods and containers agree on their members.
LEMMA CleanMembership ==
    ASSUME NEW obs, Distinct(obs), Clean(obs), NEW o \in obs, o.kind = "pod",
           NEW c \in obs, c.kind = "container"
    PROVE  c.id \in ResolvedTo(obs, o, "container") <=> o.id \in ResolvedTo(obs, c, "pod")
  <1>1. MembershipFindings(obs, o) = {} /\ MembershipFindings(obs, c) = {}
    BY DEF Clean, reconcile_findings
  <1>2. /\ {x \in obs : x.kind = "pod" /\ x.id = o.id} = {o}
        /\ {x \in obs : x.kind = "container" /\ x.id = c.id} = {c}
    BY DEF Distinct
  <1>3. pod_members(obs, o.id) = ResolvedTo(obs, o, "container")
    BY <1>2 DEF pod_members
  <1>4. container_pods(obs, c.id) = ResolvedTo(obs, c, "pod")
    BY <1>2 DEF container_pods
  <1>5. \A x \in pod_members(obs, o.id) : o.id \in container_pods(obs, x)
    BY <1>1 DEF MembershipFindings
  <1>6. \A p \in container_pods(obs, c.id) : c.id \in pod_members(obs, p)
    BY <1>1 DEF MembershipFindings
  <1> QED BY <1>3, <1>4, <1>5, <1>6

\* Closing a section adds no record that was not read.
LEMMA ClosedIsRead ==
    ASSUME IsSequence(sections)
    PROVE  Observations(Append(sections, Section(listed[sec]))) \subseteq AllObservations
  <1> DEFINE all == Append(sections, Section(listed[sec]))
  <1>1. /\ \A i \in DOMAIN all : i \in DOMAIN sections \/ i = Len(sections) + 1
        /\ \A i \in DOMAIN sections : all[i] = sections[i]
        /\ all[Len(sections) + 1] = Section(listed[sec])
    BY DEF IsSequence
  <1>2. Section(listed[sec]).observations \subseteq current
    <2>1. CASE listed[sec].ok
      BY <2>1 DEF Section
    <2>2. CASE ~listed[sec].ok
      BY <2>2 DEF Section
    <2> QED BY <2>1, <2>2
  <1> HIDE DEF all
  <1>3. Observations(all) \subseteq Observations(sections) \cup current
    BY <1>1, <1>2 DEF Observations
  <1> QED BY <1>3 DEF AllObservations, all

\* The records of all sections are distinct.
LEMMA SectionsDistinct ==
    ASSUME IInv, RecordsExact, PushSection,
           NEW all, all = Append(sections, Section(listed[sec])), Len(all) = Len(ALL)
    PROVE  /\ Distinct(Observations(all))
           /\ \A o \in Observations(all) : Genuine(o) /\ o.kind \in Kinds
  <1> USE KindsFacts
  <1>1. /\ DOMAIN all = 1..sec /\ sec \in 1..Len(ALL)
        /\ \A i \in DOMAIN all : SectionExact(all[i], ALL[i], listed[i])
        /\ \A i \in DOMAIN all : \A o \in all[i].observations : Genuine(o)
    BY ClosedSections
  <1>2. DOMAIN all = 1..Len(ALL) /\ DOMAIN ALL = 1..Len(ALL)
        /\ \A i \in DOMAIN all : IsFiniteSet(ListedIds(listed[i]))
    <2>1. /\ IsSequence(sections) /\ listed \in Seq(Listing \cup ListFailure) /\ Len(listed) = Len(ALL)
      BY DEF PushSection, IInv, TypeOK
    <2>2. sec = Len(ALL)
      BY <2>1 DEF IsSequence, sec
    <2> QED BY <1>1, <2>1, <2>2, ConstantsAssumption DEF RecordsExact
  <1>3. \A i \in DOMAIN all : RecordsOf(all[i].observations, ALL[i], ListedIds(listed[i]))
    BY <1>1 DEF SectionExact
  <1>4. \A o \in Observations(all) : \E i \in DOMAIN all : o \in all[i].observations
    BY DEF Observations
  <1>5. \A o \in Observations(all) : Genuine(o) /\ o.kind \in Kinds
    BY <1>1, <1>2, <1>3, <1>4 DEF RecordsOf
  <1>6. ASSUME NEW o \in Observations(all), NEW p \in Observations(all), o.kind = p.kind, o.id = p.id
        PROVE  o = p
    <2>1. PICK i \in DOMAIN all : o \in all[i].observations
      BY <1>4
    <2>2. PICK j \in DOMAIN all : p \in all[j].observations
      BY <1>4
    <2>3. ALL[i] = ALL[j]
      BY <1>3, <1>6, <2>1, <2>2 DEF RecordsOf
    <2>4. i = j
      BY <1>2, <2>3, ConstantsAssumption
    <2> QED BY <1>3, <1>6, <2>1, <2>2, <2>4 DEF RecordsOf
  <1>7. ASSUME NEW k \in Kinds
        PROVE  IsFiniteSet({o.id : o \in {x \in Observations(all) : x.kind = k}})
    <2>1. PICK i \in DOMAIN all : ALL[i] = k
      BY <1>2 DEF Kinds
    <2>2. ASSUME NEW o \in Observations(all), o.kind = k PROVE o.id \in ListedIds(listed[i])
      <3>1. PICK j \in DOMAIN all : o \in all[j].observations
        BY <1>4
      <3>2. ALL[j] = k
        BY <1>3, <2>2, <3>1 DEF RecordsOf
      <3>3. j = i
        BY <1>2, <2>1, <3>2, ConstantsAssumption
      <3> QED BY <1>3, <3>1, <3>3 DEF RecordsOf
    <2>3. {o.id : o \in {x \in Observations(all) : x.kind = k}} \in SUBSET ListedIds(listed[i])
      BY <2>2
    <2> QED BY <1>2, <2>3, FS_Subset
  <1> QED BY <1>5, <1>6, <1>7 DEF Distinct

\* What reconciliation makes of all records.
LEMMA ReconciledRecords ==
    ASSUME IInv, RecordsExact, PushSection,
           NEW all, all = Append(sections, Section(listed[sec])), Len(all) = Len(ALL)
    PROVE  /\ AllObservations' = {Reconciled(Observations(all), AvailableKinds(all), o) : o \in Observations(all)}
           /\ AvailableKinds(sections') = AvailableKinds(all)
           /\ phase' = "done"
  <1> DEFINE obs == Observations(all)
             available == AvailableKinds(all)
  <1>1. sections' = reconcile_relationships(all) /\ current' = {} /\ phase' = "done"
    BY DEF PushSection
  <1>2. /\ \A i \in DOMAIN all : SectionExact(all[i], ALL[i], listed[i])
        /\ \A i \in DOMAIN all : \A o \in all[i].observations : Genuine(o)
    BY ClosedSections
  <1>3. /\ DOMAIN sections' = DOMAIN all
        /\ \A i \in DOMAIN all : sections'[i] = SectionReconciled(obs, available, all[i])
    BY <1>1, ReconciledSections
  <1>4. \A i \in DOMAIN all :
           /\ sections'[i].observations = {Reconciled(obs, available, o) : o \in all[i].observations}
           /\ sections'[i].kind = all[i].kind /\ sections'[i].availability = all[i].availability
    <2> TAKE i \in DOMAIN all
    <2> HIDE DEF obs, available
    <2> QED BY <1>2, <1>3, ReconciledSection
  <1>5. AllObservations' = Observations(sections')
    BY <1>1 DEF AllObservations
  <1>6. Observations(sections') = {Reconciled(obs, available, o) : o \in obs}
    <2>1. ASSUME NEW x
          PROVE  x \in Observations(sections') <=>
                   \E i \in DOMAIN all : \E o \in all[i].observations : x = Reconciled(obs, available, o)
      <3> HIDE DEF obs, available
      <3> QED BY <1>3, <1>4 DEF Observations
    <2>2. \A o : o \in obs <=> \E i \in DOMAIN all : o \in all[i].observations
      BY DEF Observations
    <2> HIDE DEF obs, available
    <2> QED BY <2>1, <2>2
  <1>7. AvailableKinds(sections') = AvailableKinds(all)
    BY <1>3, <1>4 DEF AvailableKinds
  <1> QED BY <1>1, <1>5, <1>6, <1>7

\* For every service and every interleaving with its changes: an inventory
\* without findings is closed under its own references, and pods and
\* containers agree on membership (reconcile_relationships).
THEOREM CleanIsClosed == Spec => []CleanInventoryIsClosed
  <1>1. ASSUME AcquisitionInv, CleanInventoryIsClosed, [Next]_vars PROVE CleanInventoryIsClosed'
    <2>1. CASE PushSection /\ Len(Append(sections, Section(listed[sec]))) = Len(ALL)
      <3> DEFINE all == Append(sections, Section(listed[sec]))
                 obs == Observations(all)
      <3>1. SUFFICES ASSUME AvailableKinds(sections') = Kinds, \A o \in AllObservations' : o.findings = {}
                     PROVE  CleanInventoryIsClosed'
        BY DEF CleanInventoryIsClosed
      <3> HIDE DEF all
      <3>2. Distinct(obs) /\ \A o \in obs : Genuine(o) /\ o.kind \in Kinds
        BY <1>1, <2>1, SectionsDistinct DEF AcquisitionInv, all
      <3>3. AllObservations' = {Reconciled(obs, Kinds, o) : o \in obs}
        BY <1>1, <2>1, <3>1, ReconciledRecords DEF AcquisitionInv, all
      <3> HIDE DEF obs
      <3>4. ASSUME NEW o \in obs
            PROVE  reconcile_findings(obs, Kinds, o) = {} /\ Reconciled(obs, Kinds, o) = o
        <4>1. Genuine(o) /\ Reconciled(obs, Kinds, o).findings = {}
          BY <3>1, <3>2, <3>3
        <4>2. reconcile_findings(obs, Kinds, o) = {}
          BY <4>1, FindingsOnly DEF Reconciled
        <4> QED BY <4>1, <4>2, FindingsOnly DEF Reconciled
      <3>5. AllObservations' = obs
        BY <3>3, <3>4
      <3>6. Clean(obs)
        BY <3>2, <3>4 DEF Clean
      <3> QED BY <3>2, <3>5, <3>6, CleanReferences, CleanMembership DEF CleanInventoryIsClosed
    <2>2. CASE ~(PushSection /\ Len(Append(sections, Section(listed[sec]))) = Len(ALL))
      <3>1. phase' # "done" \/ UNCHANGED <<phase, sections, current>>
        BY <1>1, <2>2 DEF Next, Acquire, Ping, Version, SkipInapplicable, list_section, PushListed,
                          inspect_observation, PushSection, ServiceChanges, vars
      <3> QED BY <1>1, <3>1 DEF CleanInventoryIsClosed, AllObservations
    <2> QED BY <2>1, <2>2
  <1>2. Init => CleanInventoryIsClosed
    BY DEF Init, CleanInventoryIsClosed
  <1> QED BY <1>1, <1>2, AlwaysAcquisitionInv, PTL DEF Spec

-----------------------------------------------------------------------------
(* A service that does not change is read without false alarms. *)

\* A list of everything the service has, under the names it has.
ListFaithful(l, k, w) ==
    l.ok => /\ ListedIds(l) = DOMAIN w.resources[k]
            /\ \A e \in l.identities : e.name = w.resources[k][e.id].name

\* A record of a resource as the service has it, with no relationship finding.
Mirrors(o, w) ==
    /\ o.id \in DOMAIN w.resources[o.kind]
    /\ o.name = w.resources[o.kind][o.id].name
    /\ o.aliases = w.resources[o.kind][o.id].aliases
    /\ o.rels = relationship_field(o.kind, w.resources[o.kind][o.id].fields)
    /\ o.local_image = w.resources[o.kind][o.id].local_image
    /\ o.configured_image = ReferenceOf(w.resources[o.kind][o.id].fields, "ImageName")
    /\ \A f \in o.findings : f.code \notin RelationshipCodes

\* While the service has not changed, lists and complete records are its own.
Faithful ==
    changes = 0 =>
        /\ \A i \in DOMAIN listed : ListFaithful(listed[i], ALL[i], world)
        /\ phase = "inspect" => \A o \in AllObservations : o.state = "Complete" => Mirrors(o, world)

\* A list without its malformed entries names everything there is.
LEMMA ListIsFaithful ==
    ASSUME NEW kind \in Kinds, world \in Worlds, NEW entries \in EntryLists(kind)
    PROVE  ListFaithful(decode_list(entries), kind, world)
  <1> DEFINE D == DOMAIN world.resources[kind]
             E == Entries(kind)
             n == Cardinality(E)
             l == decode_list(entries)
  <1>1. IsFiniteSet(D) /\ 0 \notin D
    BY WorldsAssumption
  <1>2. IsFiniteSet(E) /\ n \in Nat
    <2> DEFINE f == [id \in D |-> [id |-> id, name |-> world.resources[kind][id].name]]
    <2>1. f \in Surjection(D, E)
      BY DEF Entries, Surjection
    <2> QED BY <2>1, <1>1, FS_Surjection, FS_CardinalityType
  <1>3. \A e \in E : e.id \in D /\ e.name = world.resources[kind][e.id].name /\ e # BadEntry
    BY <1>1 DEF Entries, BadEntry
  <1>4. ASSUME NEW id \in D PROVE \E e \in E : e.id = id
    <2> DEFINE e == [id |-> id, name |-> world.resources[kind][id].name]
    <2>1. e \in E /\ e.id = id
      BY DEF Entries
    <2> QED BY <2>1
  <1>5. PICK s \in [1..n -> E] : /\ \A i, j \in 1..n : s[i] = s[j] => i = j
                                 /\ \/ entries = s
                                    \/ \E e \in E \cup {BadEntry} : entries = Append(s, e)
    BY DEF EntryLists
  <1> HIDE DEF E
  <1>6. \A e \in E : \E i \in 1..n : s[i] = e
    <2>1. s \in Injection(1..n, E)
      BY <1>5 DEF Injection, IsInjective
    <2>2. IsFiniteSet(1..n) /\ Cardinality(1..n) = n
      BY <1>2, FS_Interval
    <2>3. s \in Surjection(1..n, E)
      BY <1>2, <2>1, <2>2, FS_Injection
    <2> QED BY <2>3 DEF Surjection
  <1> HIDE DEF n
  <1>7. /\ DOMAIN entries \subseteq Nat /\ 1..n \subseteq DOMAIN entries
        /\ \A i \in 1..n : entries[i] = s[i]
        /\ \A i \in DOMAIN entries : entries[i] \in E \cup {BadEntry}
        /\ \A i \in DOMAIN entries : 1..(i - 1) \subseteq DOMAIN entries
        /\ \A i \in DOMAIN entries : i >= 1
    <2>1. s \in Seq(E) /\ Len(s) = n
      BY <1>2, <1>5
    <2>2. CASE entries = s
      BY <1>2, <2>1, <2>2
    <2>3. ASSUME NEW e \in E \cup {BadEntry}, entries = Append(s, e)
          PROVE  <1>7!:
      BY <1>2, <2>1, <2>3
    <2> QED BY <1>5, <2>2, <2>3
  <1>8. \A e \in l.identities : e \in E
    BY <1>7 DEF decode_list
  <1>9. ASSUME NEW id \in D PROVE \E e \in l.identities : e.id = id
    <2> DEFINE P == {i \in DOMAIN entries : entries[i].id = id}
    <2>1. P \subseteq Nat /\ P # {}
      BY <1>4, <1>6, <1>7
    <2>2. PICK i \in P : \A j \in P : i <= j
      BY <2>1, SmallestNat
    <2>3. entries[i] # BadEntry
      BY <1>1, <2>2 DEF BadEntry
    <2>4. \A j \in 1..(i - 1) : entries[j].id # entries[i].id
      BY <1>7, <2>2
    <2>5. entries[i] \in l.identities
      BY <2>2, <2>3, <2>4 DEF decode_list
    <2> QED BY <2>2, <2>5
  <1>10. ListedIds(l) = {e.id : e \in l.identities}
    BY DEF ListedIds, IsListed, decode_list
  <1> HIDE DEF l
  <1>11. ListedIds(l) = D
    BY <1>3, <1>8, <1>9, <1>10
  <1> QED BY <1>3, <1>8, <1>11 DEF ListFaithful, l

\* A list result of an unchanged service.
LEMMA FaithfulPushListed ==
    ASSUME IInv, Faithful, phase = "list", NEW r, PushListed(r),
           ListFaithful(r, ALL[Len(listed) + 1], world)
    PROVE  Faithful'
  <1>1. /\ listed \in Seq(Listing \cup ListFailure) /\ sections = <<>> /\ current = {}
        /\ listed' = Append(listed, r) /\ UNCHANGED <<sections, current, world, changes>>
    BY DEF IInv, TypeOK, PushListed
  <1>2. AllObservations' = {}
    BY <1>1 DEF AllObservations, Observations
  <1>3. \A i \in DOMAIN listed' : i \in DOMAIN listed \/ i = Len(listed) + 1
    BY <1>1
  <1>4. (\A i \in DOMAIN listed : listed'[i] = listed[i]) /\ listed'[Len(listed) + 1] = r
    BY <1>1
  <1> QED BY <1>1, <1>2, <1>3, <1>4 DEF Faithful

\* What a successful inspect of an unchanged service records.
LEMMA OutcomeMirrors ==
    ASSUME IInv, phase = "inspect", changes = 0, Faithful, NEW id \in todo,
           NEW o \in InspectOutcomes(ALL[sec], id), o.state = "Complete"
    PROVE  Mirrors(o, world)
  <1> DEFINE k == ALL[sec]
             r == world.resources[k][id]
  <1>1. /\ todo \subseteq ListedIds(listed[sec]) /\ sec \in DOMAIN listed
    BY KindsFacts DEF IInv, TypeOK, sec, IsSequence
  <1>2. \A code : partial_observation(k, id, code).state # "Complete"
    BY DEF partial_observation
  <1>3. id \in DOMAIN world.resources[k] /\ o = decode_observation(k, id, r, unknown_field_limit)
    BY <1>2 DEF InspectOutcomes
  <1>4. r.name = 0 => ListedName(id) = r.name
    <2>1. ListFaithful(listed[sec], k, world) /\ listed[sec].ok
      BY <1>1 DEF Faithful, ListedIds, IsListed
    <2>2. \E e \in listed[sec].identities : e.id = id
      BY <1>1, <2>1 DEF ListedIds, IsListed
    <2>3. \A e \in listed[sec].identities : e.id = id => e.name = r.name
      BY <2>1 DEF ListFaithful
    <2> QED BY <2>2, <2>3 DEF ListedName
  <1>5. InspectedName(k, id, r) = r.name
    BY <1>4 DEF InspectedName
  <1>6. o.kind = k /\ o.id = id
    BY <1>3 DEF decode_observation
  <1>7. o.name = InspectedName(k, id, r) /\ o.aliases = r.aliases /\ o.local_image = r.local_image
    BY <1>3 DEF decode_observation
  <1>8. o.rels = relationship_field(k, r.fields) /\ o.configured_image = ReferenceOf(r.fields, "ImageName")
    BY <1>3 DEF decode_observation
  <1>9. \A f \in o.findings : f.code \in {"ResourceMalformed", "UnknownFieldOverflow", "NativeFieldUnsupported"}
    <2> DEFINE c == UnknownFieldCollector(r.unknown, unknown_field_limit)
    <2>1. o.findings = {[code |-> "ResourceMalformed", path |-> f] : f \in MalformedFields(k, r.fields)}
                       \cup (IF c.overflowed THEN {[code |-> "UnknownFieldOverflow", path |-> "none"]} ELSE {})
                       \cup (IF c.fields > 0 THEN {[code |-> "NativeFieldUnsupported", path |-> "unmodelled"]} ELSE {})
      BY <1>3, Zenon DEF decode_observation
    <2> HIDE DEF c
    <2> QED BY <2>1
  <1> HIDE DEF k, r
  <1>10. \A f \in o.findings : f.code \notin RelationshipCodes
    BY <1>9 DEF RelationshipCodes
  <1> QED BY <1>3, <1>5, <1>6, <1>7, <1>8, <1>10 DEF Mirrors, r

\* Every step keeps what was read of an unchanged service faithful.
LEMMA FaithfulStep ==
    ASSUME IInv, RecordsExact, Faithful, [Next]_vars
    PROVE  Faithful'
  <1> USE KindsFacts
  <1>1. CASE Ping \/ Version
    <2>1. phase' # "inspect" /\ UNCHANGED <<listed, world, changes>>
      BY <1>1 DEF Ping, Version
    <2> QED BY <2>1 DEF Faithful
  <1>2. CASE SkipInapplicable
    <2>1. \A k : ListFaithful(Err("VersionInapplicableField"), k, world)
      BY DEF Err, ListFaithful
    <2> QED BY <1>2, <2>1, FaithfulPushListed DEF SkipInapplicable
  <1>3. CASE list_section
    <2>1. phase = "list" /\ world \in Worlds /\ ALL[Len(listed) + 1] \in Kinds
      BY <1>3 DEF list_section, IInv, TypeOK
    <2>2. CASE \E entries \in EntryLists(ALL[Len(listed) + 1]) : PushListed(decode_list(entries))
      BY <2>1, <2>2, ListIsFaithful, FaithfulPushListed
    <2>3. CASE \E code \in ListFaults : PushListed(Err(code))
      <3>1. \A k, code : ListFaithful(Err(code), k, world)
        BY DEF Err, ListFaithful
      <3> QED BY <2>1, <2>3, <3>1, FaithfulPushListed
    <2> QED BY <1>3, <2>2, <2>3 DEF list_section
  <1>4. CASE inspect_observation
    <2>1. phase = "inspect" /\ todo # {} /\ todo \subseteq Nat
      BY <1>4 DEF inspect_observation, IInv, TypeOK
    <2> DEFINE id == CHOOSE i \in todo : \A j \in todo : i <= j
    <2>2. PICK o \in InspectOutcomes(ALL[sec], id) : current' = current \cup {o}
      BY <1>4 DEF inspect_observation
    <2>3. id \in todo
      BY <2>1, SmallestNat
    <2> HIDE DEF id
    <2>4. UNCHANGED <<phase, listed, sections, world, changes>>
      BY <1>4 DEF inspect_observation
    <2>5. AllObservations' = AllObservations \cup {o}
      BY <2>2, <2>4 DEF AllObservations
    <2>6. changes = 0 /\ o.state = "Complete" => Mirrors(o, world)
      BY <2>1, <2>2, <2>3, OutcomeMirrors
    <2> QED BY <2>1, <2>4, <2>5, <2>6 DEF Faithful
  <1>5. CASE PushSection
    <2>1. phase = "inspect" /\ UNCHANGED <<listed, world, changes>> /\ current' = {}
      BY <1>5 DEF PushSection
    <2>2. CASE phase' = "inspect"
      <3> DEFINE all == Append(sections, Section(listed[sec]))
      <3>1. sections' = all /\ IsSequence(sections)
        BY <1>5, <2>2 DEF PushSection, IInv, TypeOK
      <3>2. Observations(all) \subseteq AllObservations
        BY <3>1, ClosedIsRead
      <3> HIDE DEF all
      <3>3. AllObservations' \subseteq AllObservations
        BY <2>1, <3>1, <3>2 DEF AllObservations
      <3> QED BY <2>1, <3>3 DEF Faithful
    <2> QED BY <2>1, <2>2 DEF Faithful
  <1>6. CASE ServiceChanges
    <2>1. changes' # 0
      BY <1>6, ConstantsAssumption DEF ServiceChanges, IInv, TypeOK
    <2> QED BY <2>1 DEF Faithful
  <1>7. CASE UNCHANGED vars
    BY <1>7 DEF vars, Faithful, AllObservations
  <1> QED BY <1>1, <1>2, <1>3, <1>4, <1>5, <1>6, <1>7 DEF Next, Acquire

\* The records obs are those of everything the service w has.
MirrorsAll(obs, w) ==
    /\ \A o \in obs : o.kind \in Kinds /\ Mirrors(o, w)
    /\ \A k \in Kinds : \A id \in DOMAIN w.resources[k] : \E o \in obs : o.kind = k /\ o.id = id

\* What a resource can be called by.
Labels(w, k, id) == {id, w.resources[k][id].name} \cup w.resources[k][id].aliases

\* With unique names a name selects one record.
LEMMA NameSelects ==
    ASSUME NEW w, NEW obs, MirrorsAll(obs, w), UniqueNames(w), NEW k \in Kinds,
           NEW t \in DOMAIN w.resources[k], NEW ref \in Labels(w, k, t), ref # 0
    PROVE  Targets(obs, k, ref) = {t}
  <1>1. ASSUME NEW o \in obs, o.kind = k, ref \in {o.id, o.name} \cup o.aliases
        PROVE  o.id = t
    <2>1. o.id \in DOMAIN w.resources[k] /\ ref \in Labels(w, k, o.id) \ {0}
      BY <1>1 DEF MirrorsAll, Mirrors, Labels
    <2>2. o.id # t => (Labels(w, k, o.id) \ {0}) \cap (Labels(w, k, t) \ {0}) = {}
      BY <2>1 DEF UniqueNames, Labels
    <2> QED BY <2>1, <2>2
  <1>2. PICK o \in obs : o.kind = k /\ o.id = t
    BY DEF MirrorsAll
  <1>3. ref \in {o.id, o.name} \cup o.aliases
    BY <1>2 DEF MirrorsAll, Mirrors, Labels
  <1> QED BY <1>1, <1>2, <1>3 DEF Targets

\* References that all select one record resolve to it.
LEMMA ResolvesTo ==
    ASSUME NEW obs, NEW r, DOMAIN r.refs # {}, NEW t,
           \A i \in DOMAIN r.refs : Targets(obs, r.kind, r.refs[i]) = {t}
    PROVE  resolve_relationship_target(obs, r) = One(t)
  <1> DEFINE C(i) == Targets(obs, r.kind, r.refs[i])
             bad == {i \in DOMAIN r.refs : Cardinality(C(i)) # 1}
             all == UNION {C(i) : i \in DOMAIN r.refs}
             first == CHOOSE i \in bad : \A j \in bad : i <= j
             failed == IF C(first) = {} THEN Unresolved ELSE Ambiguous
  <1>1. resolve_relationship_target(obs, r) =
          IF bad # {} THEN failed
          ELSE IF all = {} THEN Unresolved
          ELSE IF Cardinality(all) = 1 THEN One(CHOOSE id \in all : TRUE) ELSE Conflict
    BY DEF resolve_relationship_target
  <1>2. Cardinality({t}) = 1
    BY FS_Singleton
  <1>3. bad = {} /\ all = {t}
    BY <1>2
  <1>4. (CHOOSE id \in all : TRUE) = t
    BY <1>3
  <1> HIDE DEF bad, all, failed
  <1> QED BY <1>1, <1>2, <1>3, <1>4

\* The spelled-out consistency of one reference of a service.
Agrees(w, k, id, f, r, t) ==
    /\ t \in DOMAIN w.resources[TargetKind[f]]
    /\ {r[j] : j \in DOMAIN r} \subseteq Labels(w, TargetKind[f], t)
    /\ f = "Pod" => \E m \in w.resources["pod"][t].fields["Containers"].refs : m = <<id>>
    /\ f = "Containers" => w.resources["container"][t].fields["Pod"].refs = {<<id>>}
    /\ f = "ImageName" => w.resources[k][id].local_image \in {0, t}

\* Every reference of a consistent service is to something it has.
LEMMA ConsistentReference ==
    ASSUME NEW w \in Worlds, Consistent(w), NEW k \in Kinds, NEW id \in DOMAIN w.resources[k],
           NEW f \in ApplicableFields(k, w.resources[k][id].fields),
           NEW r \in w.resources[k][id].fields[f].refs
    PROVE  /\ TargetKind[f] \in Kinds /\ r \in Seq(Nat \ {0}) /\ r # <<>> /\ 1 \in DOMAIN r
           /\ w.resources[k][id].fields[f].state = "observed"
           /\ \E t : Agrees(w, k, id, f, r, t)
  <1> DEFINE fields == w.resources[k][id].fields
  <1>1. f \in DOMAIN fields
    BY DEF ApplicableFields
  <1>2. TargetKind[f] \in Kinds /\ r \in Seq(Nat \ {0}) /\ r # <<>> /\ fields[f].state = "observed"
    BY <1>1, WorldsAssumption
  <1>3. 1 \in DOMAIN r
    BY <1>2
  <1>4. PICK t \in DOMAIN w.resources[TargetKind[f]] :
           /\ {r[j] : j \in DOMAIN r} \subseteq
                 {t, w.resources[TargetKind[f]][t].name} \cup w.resources[TargetKind[f]][t].aliases
           /\ f = "Pod" => \E m \in w.resources["pod"][t].fields["Containers"].refs : m = <<id>>
           /\ f = "Containers" => w.resources["container"][t].fields["Pod"].refs = {<<id>>}
           /\ f = "ImageName" => w.resources[k][id].local_image \in {0, t}
    BY <1>3 DEF Consistent
  <1>5. Agrees(w, k, id, f, r, t)
    BY <1>4 DEF Agrees, Labels
  <1> QED BY <1>2, <1>3, <1>5

\* A supplied field of a consistent service is among the record's references.
LEMMA FieldObserved ==
    ASSUME NEW w \in Worlds, Consistent(w), NEW obs, MirrorsAll(obs, w), NEW o \in obs,
           NEW f \in ApplicableFields(o.kind, w.resources[o.kind][o.id].fields),
           NEW r \in w.resources[o.kind][o.id].fields[f].refs
    PROVE  [kind |-> TargetKind[f], refs |-> r, path |-> f] \in ObservedRels(o)
  <1> DEFINE fields == w.resources[o.kind][o.id].fields
             used == ApplicableFields(o.kind, fields)
             all == UNION {{[kind |-> TargetKind[g], refs |-> s, path |-> g] : s \in fields[g].refs} : g \in used}
  <1>1. o.kind \in Kinds /\ o.id \in DOMAIN w.resources[o.kind] /\ o.rels = relationship_field(o.kind, fields)
    BY DEF MirrorsAll, Mirrors
  <1>2. \A g \in used : fields[g].state # "malformed"
    BY <1>1 DEF Consistent
  <1>3. fields[f].state = "observed"
    BY <1>1, ConsistentReference
  <1>4. ~(\E g \in used : fields[g].state = "malformed") /\ ~(\A g \in used : fields[g].state = "absent")
    BY <1>2, <1>3
  <1>5. o.rels = Field("observed", all)
    BY <1>1, <1>4 DEF relationship_field
  <1>6. [kind |-> TargetKind[f], refs |-> r, path |-> f] \in all
    OBVIOUS
  <1> HIDE DEF all
  <1> QED BY <1>5, <1>6 DEF ObservedRels, Field

\* The references of a record of a consistent service resolve, each to the
\* resource the service itself means.
LEMMA ReferencesResolve ==
    ASSUME NEW w \in Worlds, Consistent(w), UniqueNames(w), NEW obs, MirrorsAll(obs, w),
           NEW o \in obs, NEW r \in ObservedRels(o)
    PROVE  \E f, t : /\ f \in ApplicableFields(o.kind, w.resources[o.kind][o.id].fields)
                     /\ r.kind = TargetKind[f] /\ Agrees(w, o.kind, o.id, f, r.refs, t)
                     /\ resolve_relationship_target(obs, r) = One(t)
  <1> DEFINE fields == w.resources[o.kind][o.id].fields
  <1>1. o.kind \in Kinds /\ o.id \in DOMAIN w.resources[o.kind] /\ o.rels = relationship_field(o.kind, fields)
    BY DEF MirrorsAll, Mirrors
  <1>2. PICK f \in DOMAIN fields : \E s \in fields[f].refs :
          f \in ApplicableFields(o.kind, fields) /\ r = [kind |-> TargetKind[f], refs |-> s, path |-> f]
    BY <1>1, RelsFromFields DEF ObservedRels
  <1>2a. PICK s \in fields[f].refs :
          f \in ApplicableFields(o.kind, fields) /\ r = [kind |-> TargetKind[f], refs |-> s, path |-> f]
    BY <1>2
  <1>3. r.kind = TargetKind[f] /\ r.refs = s
    BY <1>2a
  <1>4. /\ TargetKind[f] \in Kinds /\ s \in Seq(Nat \ {0}) /\ 1 \in DOMAIN s
        /\ \E t : Agrees(w, o.kind, o.id, f, s, t)
    BY <1>1, <1>2a, ConsistentReference
  <1>5. PICK t : Agrees(w, o.kind, o.id, f, s, t)
    BY <1>4
  <1>6. \A i \in DOMAIN s : s[i] \in Labels(w, TargetKind[f], t) /\ s[i] # 0
    BY <1>4, <1>5 DEF Agrees
  <1>7. \A i \in DOMAIN s : Targets(obs, TargetKind[f], s[i]) = {t}
    BY <1>4, <1>5, <1>6, NameSelects DEF Agrees
  <1>8. resolve_relationship_target(obs, r) = One(t)
    BY <1>3, <1>4, <1>7, ResolvesTo
  <1> QED BY <1>2a, <1>3, <1>5, <1>8

\* References are to kinds there are.
LEMMA ReferenceKind ==
    ASSUME NEW w \in Worlds, NEW obs, MirrorsAll(obs, w), NEW o \in obs, NEW r \in ObservedRels(o)
    PROVE  r.kind \in Kinds
  <1> DEFINE fields == w.resources[o.kind][o.id].fields
  <1>1. o.kind \in Kinds /\ o.id \in DOMAIN w.resources[o.kind] /\ o.rels = relationship_field(o.kind, fields)
    BY DEF MirrorsAll, Mirrors
  <1>2. PICK f \in DOMAIN fields : \E s \in fields[f].refs : r = [kind |-> TargetKind[f], refs |-> s, path |-> f]
    BY <1>1, RelsFromFields DEF ObservedRels
  <1> QED BY <1>1, <1>2, WorldsAssumption

\* An id resolves to its resource.
LEMMA IdResolves ==
    ASSUME NEW w \in Worlds, UniqueNames(w), NEW obs, MirrorsAll(obs, w), NEW k \in Kinds,
           NEW t \in DOMAIN w.resources[k], NEW r, r.kind = k, r.refs = <<t>>
    PROVE  resolve_relationship_target(obs, r) = One(t)
  <1>1. t # 0 /\ t \in Labels(w, k, t)
    BY WorldsAssumption DEF Labels
  <1>2. Targets(obs, k, t) = {t}
    BY <1>1, NameSelects
  <1>3. DOMAIN r.refs = {1} /\ r.refs[1] = t
    OBVIOUS
  <1> QED BY <1>2, <1>3, ResolvesTo

\* Both ends of a membership of a consistent service tell of it.
LEMMA MembershipAgrees ==
    ASSUME NEW w \in Worlds, Consistent(w), UniqueNames(w), NEW obs, Distinct(obs), MirrorsAll(obs, w),
           NEW o \in obs
    PROVE  MembershipFindings(obs, o) = {}
  <1>0. o.kind \in Kinds /\ o.id \in DOMAIN w.resources[o.kind]
    BY DEF MirrorsAll, Mirrors
  <1>a. \A x : One(x).id = x /\ One(x).tag = "One"
    BY DEF One
  <1>1. ASSUME o.kind = "pod", NEW c \in pod_members(obs, o.id)
        PROVE  o.id \in container_pods(obs, c)
    <2>1. PICK x \in obs : x.kind = "pod" /\ x.id = o.id /\ c \in ResolvedTo(obs, x, "container")
      BY <1>1 DEF pod_members
    <2>2. x = o
      BY <1>1, <2>1 DEF Distinct
    <2>3. PICK r \in ObservedRels(o) : /\ r.kind = "container" /\ c = resolve_relationship_target(obs, r).id
      BY <2>1, <2>2 DEF ResolvedTo
    <2>4. PICK f, t : /\ f \in ApplicableFields(o.kind, w.resources[o.kind][o.id].fields)
                      /\ r.kind = TargetKind[f] /\ Agrees(w, o.kind, o.id, f, r.refs, t)
                      /\ resolve_relationship_target(obs, r) = One(t)
      BY ReferencesResolve
    <2>5. t = c
      BY <1>a, <2>3, <2>4
    <2>6. f = "Containers"
      <3>1. f \in PodFields
        BY <1>0, <1>1, <2>4, WorldsAssumption DEF ApplicableFields
      <3> QED BY <2>3, <2>4, <3>1 DEF PodFields, TargetKind
    <2>7. c \in DOMAIN w.resources["container"] /\ w.resources["container"][c].fields["Pod"].refs = {<<o.id>>}
          /\ "container" \in Kinds
      <3>1. TargetKind["Containers"] = "container"
        BY DEF TargetKind
      <3>2. r.kind \in Kinds
        BY <1>0, ReferenceKind
      <3> QED BY <2>3, <2>4, <2>5, <2>6, <3>1, <3>2 DEF Agrees
    <2>8. PICK y \in obs : y.kind = "container" /\ y.id = c
      BY <2>7 DEF MirrorsAll
    <2>9. "Pod" \in ApplicableFields(y.kind, w.resources[y.kind][y.id].fields)
      <3>1. "Pod" \in DOMAIN w.resources["container"][c].fields
        BY <2>7, WorldsAssumption DEF ContainerFields
      <3> QED BY <2>8, <3>1 DEF ApplicableFields
    <2> DEFINE q == [kind |-> TargetKind["Pod"], refs |-> <<o.id>>, path |-> "Pod"]
    <2>10. q \in ObservedRels(y)
      BY <2>7, <2>8, <2>9, FieldObserved
    <2>11. q.kind = "pod" /\ q.refs = <<o.id>>
      BY DEF TargetKind
    <2> HIDE DEF q
    <2>12. resolve_relationship_target(obs, q) = One(o.id)
      BY <1>0, <1>1, <2>11, IdResolves
    <2>13. o.id \in ResolvedTo(obs, y, "pod")
      BY <1>a, <2>10, <2>11, <2>12 DEF ResolvedTo
    <2> QED BY <2>8, <2>13 DEF container_pods
  <1>2. ASSUME o.kind = "container", NEW p \in container_pods(obs, o.id)
        PROVE  o.id \in pod_members(obs, p)
    <2>1. PICK x \in obs : x.kind = "container" /\ x.id = o.id /\ p \in ResolvedTo(obs, x, "pod")
      BY <1>2 DEF container_pods
    <2>2. x = o
      BY <1>2, <2>1 DEF Distinct
    <2>3. PICK r \in ObservedRels(o) : /\ r.kind = "pod" /\ p = resolve_relationship_target(obs, r).id
      BY <2>1, <2>2 DEF ResolvedTo
    <2>4. PICK f, t : /\ f \in ApplicableFields(o.kind, w.resources[o.kind][o.id].fields)
                      /\ r.kind = TargetKind[f] /\ Agrees(w, o.kind, o.id, f, r.refs, t)
                      /\ resolve_relationship_target(obs, r) = One(t)
      BY ReferencesResolve
    <2>5. t = p
      BY <1>a, <2>3, <2>4
    <2>6. f = "Pod"
      <3>1. f \in ContainerFields
        BY <1>0, <1>2, <2>4, WorldsAssumption DEF ApplicableFields
      <3> QED BY <2>3, <2>4, <3>1 DEF ContainerFields, TargetKind
    <2>7. p \in DOMAIN w.resources["pod"] /\ <<o.id>> \in w.resources["pod"][p].fields["Containers"].refs
          /\ "pod" \in Kinds
      <3>1. TargetKind["Pod"] = "pod"
        BY DEF TargetKind
      <3>2. r.kind \in Kinds
        BY <1>0, ReferenceKind
      <3> QED BY <2>3, <2>4, <2>5, <2>6, <3>1, <3>2 DEF Agrees
    <2>8. PICK y \in obs : y.kind = "pod" /\ y.id = p
      BY <2>7 DEF MirrorsAll
    <2>9. "Containers" \in ApplicableFields(y.kind, w.resources[y.kind][y.id].fields)
      <3>1. "Containers" \in DOMAIN w.resources["pod"][p].fields
        BY <2>7, WorldsAssumption DEF PodFields
      <3> QED BY <2>8, <3>1 DEF ApplicableFields
    <2> DEFINE q == [kind |-> TargetKind["Containers"], refs |-> <<o.id>>, path |-> "Containers"]
    <2>10. q \in ObservedRels(y)
      BY <2>7, <2>8, <2>9, FieldObserved
    <2>11. q.kind = "container" /\ q.refs = <<o.id>>
      BY DEF TargetKind
    <2> HIDE DEF q
    <2>12. resolve_relationship_target(obs, q) = One(o.id)
      BY <1>0, <1>2, <2>11, IdResolves
    <2>13. o.id \in ResolvedTo(obs, y, "container")
      BY <1>a, <2>10, <2>11, <2>12 DEF ResolvedTo
    <2> QED BY <2>8, <2>13 DEF pod_members
  <1> QED BY <1>1, <1>2 DEF MembershipFindings

\* The configured and the local image of a container are one.
LEMMA ImagesAgree ==
    ASSUME NEW w \in Worlds, Consistent(w), UniqueNames(w), NEW obs, MirrorsAll(obs, w),
           NEW o \in obs
    PROVE  ImageFindings(obs, o) = {}
  <1> DEFINE T(ref) == resolve_relationship_target(obs, [kind |-> "image", refs |-> <<ref>>])
             fields == w.resources[o.kind][o.id].fields
  <1>1. SUFFICES ASSUME o.kind = "container", o.configured_image # 0, o.local_image # 0
                 PROVE  T(o.configured_image) = T(o.local_image)
    BY DEF ImageFindings
  <1>2. /\ o.kind \in Kinds /\ o.id \in DOMAIN w.resources[o.kind]
        /\ o.configured_image = ReferenceOf(fields, "ImageName")
        /\ o.local_image = w.resources[o.kind][o.id].local_image
    BY DEF MirrorsAll, Mirrors
  <1>3. /\ "ImageName" \in DOMAIN fields /\ fields["ImageName"].refs # {}
        /\ o.configured_image = (CHOOSE r \in fields["ImageName"].refs : TRUE)[1]
    BY <1>1, <1>2 DEF ReferenceOf
  <1>4. PICK r \in fields["ImageName"].refs : o.configured_image = r[1]
    BY <1>3
  <1>5. "ImageName" \in ApplicableFields(o.kind, fields)
    BY <1>3 DEF ApplicableFields
  <1>6. /\ TargetKind["ImageName"] \in Kinds /\ r \in Seq(Nat \ {0}) /\ 1 \in DOMAIN r
        /\ \E t : Agrees(w, o.kind, o.id, "ImageName", r, t)
    BY <1>2, <1>4, <1>5, ConsistentReference
  <1>7. PICK t : Agrees(w, o.kind, o.id, "ImageName", r, t)
    BY <1>6
  <1>8. TargetKind["ImageName"] = "image"
    BY DEF TargetKind
  <1>9. /\ "image" \in Kinds /\ t \in DOMAIN w.resources["image"]
        /\ r[1] \in Labels(w, "image", t) /\ r[1] # 0 /\ o.local_image = t
    BY <1>1, <1>2, <1>6, <1>7, <1>8 DEF Agrees
  <1>10. T(t) = One(t)
    BY <1>9, IdResolves
  <1>11. T(r[1]) = One(t)
    <2> DEFINE q == [kind |-> "image", refs |-> <<r[1]>>]
    <2>1. q.kind = "image" /\ DOMAIN q.refs = {1} /\ q.refs[1] = r[1]
      OBVIOUS
    <2>2. Targets(obs, "image", r[1]) = {t}
      BY <1>9, NameSelects
    <2> HIDE DEF q
    <2>3. resolve_relationship_target(obs, q) = One(t)
      BY <2>1, <2>2, ResolvesTo
    <2> QED BY <2>3 DEF q
  <1> QED BY <1>4, <1>9, <1>10, <1>11

\* Reconciling the records of a consistent service finds nothing.
LEMMA NothingToReport ==
    ASSUME NEW w \in Worlds, Consistent(w), UniqueNames(w), NEW obs, Distinct(obs), MirrorsAll(obs, w),
           NEW available, NEW o \in obs
    PROVE  reconcile_findings(obs, available, o) = {}
  <1>1. \A r \in ObservedRels(o) : resolve_relationship_target(obs, r).tag = "One"
    BY ReferencesResolve DEF One
  <1>2. RelationshipFindings(obs, available, o) = {} /\ MemberFindings(obs, o) = {}
    BY <1>1 DEF RelationshipFindings, MemberFindings
  <1> QED BY <1>2, MembershipAgrees, ImagesAgree DEF reconcile_findings

\* For every service and every list of kinds: if the service did not change
\* and nothing failed, consistent references with unique names are never
\* reported as unresolved, ambiguous, conflicting or one-sided.
THEOREM NeverFalseAlarm == Spec => []NoFalseAlarm
  <1>1. ASSUME AcquisitionInv, Faithful, NoFalseAlarm, [Next]_vars PROVE NoFalseAlarm'
    <2>1. CASE PushSection /\ Len(Append(sections, Section(listed[sec]))) = Len(ALL)
      <3> DEFINE all == Append(sections, Section(listed[sec]))
                 obs == Observations(all)
                 available == AvailableKinds(all)
      <3>1. /\ phase = "inspect" /\ UNCHANGED <<world, changes, listed>>
        BY <2>1 DEF PushSection
      <3>2. SUFFICES ASSUME changes = 0, Consistent(world), UniqueNames(world),
                            AvailableKinds(sections') = Kinds,
                            \A o \in AllObservations' : o.state = "Complete"
                     PROVE  \A o \in AllObservations' : \A f \in o.findings : f.code \notin RelationshipCodes
        BY <3>1 DEF NoFalseAlarm
      <3>3. world \in Worlds
        BY <1>1 DEF AcquisitionInv, IInv, TypeOK
      <3>4. /\ DOMAIN all = 1..sec /\ sec \in 1..Len(ALL)
            /\ \A i \in DOMAIN all : SectionExact(all[i], ALL[i], listed[i])
            /\ obs \subseteq AllObservations
        <4>1. IsSequence(sections)
          BY <1>1 DEF AcquisitionInv, IInv, TypeOK
        <4>2. obs \subseteq AllObservations
          BY <4>1, ClosedIsRead
        <4>3. /\ DOMAIN all = 1..sec /\ sec \in 1..Len(ALL)
              /\ \A i \in DOMAIN all : SectionExact(all[i], ALL[i], listed[i])
          BY <1>1, <2>1, ClosedSections DEF AcquisitionInv
        <4> QED BY <4>2, <4>3
      <3>5. DOMAIN all = DOMAIN ALL /\ DOMAIN ALL = DOMAIN listed
        BY <1>1, <2>1, <3>1, <3>4, ConstantsAssumption DEF AcquisitionInv, IInv, TypeOK, IsSequence, sec
      <3> HIDE DEF all
      <3>6. Distinct(obs) /\ \A o \in obs : Genuine(o) /\ o.kind \in Kinds
        BY <1>1, <2>1, SectionsDistinct DEF AcquisitionInv, all
      <3>7. /\ AllObservations' = {Reconciled(obs, available, o) : o \in obs}
            /\ available = Kinds
        BY <1>1, <2>1, <3>2, ReconciledRecords DEF AcquisitionInv, all
      <3> HIDE DEF obs, available
      <3>8. \A o \in obs : o.state = "Complete"
        <4>1. \A o \in obs : Reconciled(obs, available, o).state = o.state
          BY <3>6, FindingsOnly DEF Reconciled
        <4> QED BY <3>2, <3>7, <4>1
      <3>9. \A o \in obs : o.kind \in Kinds /\ Mirrors(o, world)
        BY <1>1, <3>1, <3>2, <3>4, <3>6, <3>8 DEF Faithful
      <3>10. ASSUME NEW k \in Kinds, NEW id \in DOMAIN world.resources[k]
             PROVE  \E o \in obs : o.kind = k /\ o.id = id
        <4>1. PICK i \in DOMAIN all : all[i].kind = k /\ all[i].availability = "Available"
          BY <3>7 DEF available, AvailableKinds
        <4>2. ALL[i] = k /\ listed[i].ok /\ RecordsOf(all[i].observations, k, ListedIds(listed[i]))
          BY <3>4, <4>1 DEF SectionExact
        <4>3. ListedIds(listed[i]) = DOMAIN world.resources[k]
          BY <1>1, <3>2, <3>5, <4>2 DEF Faithful, ListFaithful
        <4>4. PICK o \in all[i].observations : o.kind = k /\ o.id = id
          BY <4>2, <4>3 DEF RecordsOf
        <4>5. o \in obs
          BY <4>4 DEF obs, Observations
        <4> QED BY <4>4, <4>5
      <3>11. MirrorsAll(obs, world)
        BY <3>9, <3>10 DEF MirrorsAll
      <3>12. ASSUME NEW o \in obs
             PROVE  Reconciled(obs, available, o) = o
        BY <3>2, <3>3, <3>6, <3>11, NothingToReport, FindingsOnly DEF Reconciled
      <3> QED BY <3>7, <3>9, <3>12 DEF Mirrors
    <2>2. CASE ~(PushSection /\ Len(Append(sections, Section(listed[sec]))) = Len(ALL))
      <3>1. phase' # "done" \/ UNCHANGED <<phase, sections, current, changes, world>>
        BY <1>1, <2>2 DEF Next, Acquire, Ping, Version, SkipInapplicable, list_section, PushListed,
                          inspect_observation, PushSection, ServiceChanges, vars
      <3> QED BY <1>1, <3>1 DEF NoFalseAlarm, AllObservations
    <2> QED BY <2>1, <2>2
  <1>2. Init => NoFalseAlarm /\ Faithful
    BY DEF Init, NoFalseAlarm, Faithful
  <1>3. AcquisitionInv /\ Faithful /\ [Next]_vars => Faithful'
    BY FaithfulStep DEF AcquisitionInv
  <1> QED BY <1>1, <1>2, <1>3, AlwaysAcquisitionInv, PTL DEF Spec
-----------------------------------------------------------------------------
(* The probe. *)

\* The API version in hand when the engine is asked for was reported.
ProbeInv == ProbeNotTorn /\ (phase = "version" => api \in ReportedVersions)

\* The line that admits an engine is a line of the catalogue, and a ranged one
\* has the engine in its interval.
LEMMA AdmittingLine ==
    ASSUME NEW engine, NEW e \in matching_input_catalogue_entry(engine)
    PROVE  e \in Lines /\ (e.output_supported => version_in_entry(engine.core, e))
  BY DEF matching_input_catalogue_entry, Lines

LEMMA RangedLine ==
    ASSUME NEW engine, NEW e \in matching_catalogue_entry(engine)
    PROVE  e \in Lines /\ e.output_supported
  BY DEF matching_catalogue_entry, Lines

\* What the probe accepts, of any two reported versions.
LEMMA AcceptedPair ==
    ASSUME NEW engine \in ReportedVersions, NEW a \in ReportedVersions,
           observed_input_is_supported(engine, a)
    PROVE  /\ a.core <= engine.core
           /\ engine.core < Ver(5, 4, 0) =>
                \E line \in Lines :
                    /\ ~line.output_supported
                    /\ [engine |-> engine.spelling, api |-> a.spelling] \in line.reported
  <1>1. PICK e \in matching_input_catalogue_entry(engine) :
               IF e.output_supported THEN api_version_is_supported(e, engine, a)
               ELSE [engine |-> engine.spelling, api |-> a.spelling] \in e.reported
    BY DEF observed_input_is_supported
  <1>2. e \in Lines /\ (e.output_supported => version_in_entry(engine.core, e))
    BY AdmittingLine
  <1>3. engine.core \in Int /\ a.core \in Int
    BY CatalogueAssumption
  <1>4. CASE e.output_supported
    <2>1. e.minimum \in Int /\ e.minimum >= Ver(5, 4, 0)
      BY <1>2, <1>4, CatalogueAssumption
    <2>2. engine.core >= e.minimum /\ a.core <= engine.core
      BY <1>1, <1>2, <1>4 DEF version_in_entry, api_version_is_supported
    <2> QED
      BY <1>3, <2>1, <2>2 DEF Ver
  <1>5. CASE ~e.output_supported
    <2>1. [engine |-> engine.spelling, api |-> a.spelling] \in e.reported
      BY <1>1, <1>2, <1>5
    <2>2. a.core <= engine.core
      BY <1>2, <1>5, <2>1, CatalogueAssumption
    <2> QED
      BY <1>2, <1>5, <2>1, <2>2
  <1> QED
    BY <1>4, <1>5

\* A target has a ranged line, and with it the line's bounds.
LEMMA TargetBounds ==
    ASSUME NEW engine \in ReportedVersions, NEW a \in ReportedVersions, TargetProfile(engine, a)
    PROVE  engine.core >= Ver(5, 4, 0) /\ a.core >= Ver(4, 0, 0)
  <1>1. PICK e \in matching_catalogue_entry(engine) : api_version_is_supported(e, engine, a)
    BY DEF TargetProfile
  <1>2. e \in Lines /\ e.output_supported
    BY RangedLine
  <1>3. a.core \in Int /\ e.minimum_api \in Int /\ e.minimum_api >= Ver(4, 0, 0)
    BY <1>2, CatalogueAssumption
  <1>4. a.core >= e.minimum_api
    BY <1>1 DEF api_version_is_supported
  <1>5. engine.core \in Ver(5, 4, 0) .. (Ver(6, 2, 0) - 1)
    BY DEF TargetProfile, SupportedPodmanRange
  <1>6. \A n, m \in Int : \A k \in n .. m : k >= n
    OBVIOUS
  <1>7. Ver(5, 4, 0) \in Int /\ Ver(6, 2, 0) - 1 \in Int
    BY DEF Ver
  <1>8. engine.core >= Ver(5, 4, 0)
    BY <1>5, <1>6, <1>7
  <1> QED
    BY <1>3, <1>4, <1>8 DEF Ver

\* A version that the probe takes from a reply was reported.
LEMMA RepliedApi ==
    ASSUME TypeOK, NEW reply \in PingReplies, ping_api_version(reply).ok
    PROVE  ping_api_version(reply).value \in ReportedVersions
  <1>1. /\ Len(reply.apis) = 1
        /\ ping_api_version(reply).value = reply.apis[1]
    BY DEF ping_api_version, Ok, Err
  <1>2. CASE reply = [transport |-> "ok", status |-> 200, apis |-> <<world.api>>]
    BY <1>1, <1>2 DEF TypeOK, ReportedVersions
  <1>3. CASE reply \in PingFaults
    BY <1>1, <1>3 DEF ReportedVersions
  <1> QED
    BY <1>2, <1>3 DEF PingReplies

LEMMA RepliedEngine ==
    ASSUME TypeOK, NEW reply \in VersionReplies, engine_version(reply).ok
    PROVE  engine_version(reply).value \in ReportedVersions
  <1>1. /\ Len(reply.engines) = 1
        /\ engine_version(reply).value = reply.engines[1]
    BY DEF engine_version, Ok, Err
  <1>2. CASE reply = [transport |-> "ok", status |-> 200, json |-> TRUE, body |-> "object",
                      engines |-> <<world.engine>>]
    BY <1>1, <1>2 DEF TypeOK, ReportedVersions
  <1>3. CASE reply \in VersionFaults
    BY <1>1, <1>3 DEF ReportedVersions
  <1> QED
    BY <1>2, <1>3 DEF VersionReplies

LEMMA ProbePing == TypeOK /\ ProbeInv /\ Ping => ProbeInv'
  <1> SUFFICES ASSUME TypeOK, ProbeInv, Ping
               PROVE  ProbeInv'
    OBVIOUS
  <1>1. service' = service
    BY DEF Ping
  <1>2. phase' = "version" => api' \in ReportedVersions
    BY RepliedApi DEF Ping
  <1> QED
    BY <1>1, <1>2 DEF ProbeInv, ProbeNotTorn

LEMMA ProbeVersion == TypeOK /\ ProbeInv /\ Version => ProbeInv'
  <1> SUFFICES ASSUME TypeOK, ProbeInv, Version
               PROVE  ProbeInv'
    OBVIOUS
  <1>1. PICK reply \in VersionReplies :
               IF ServiceObservation(api, reply).ok
               THEN phase' = "list" /\ service' = ServiceObservation(api, reply).value
               ELSE phase' = "failed" /\ service' = service
    BY DEF Version
  <1>2. phase' # "version"
    BY <1>1
  <1>3. CASE ~ServiceObservation(api, reply).ok
    BY <1>1, <1>2, <1>3 DEF ProbeInv, ProbeNotTorn
  <1>4. CASE ServiceObservation(api, reply).ok
    <2> DEFINE engine == engine_version(reply).value
    <2>1. /\ engine_version(reply).ok /\ observed_input_is_supported(engine, api)
          /\ ServiceObservation(api, reply).value
               = [engine |-> engine, api |-> api, target |-> TargetProfile(engine, api)]
      BY <1>4 DEF ServiceObservation, Ok, Err
    <2>2. engine \in ReportedVersions /\ api \in ReportedVersions
      BY <2>1, RepliedEngine DEF ProbeInv, Version
    <2>3. /\ service'.engine = engine /\ service'.api = api
          /\ service'.target = TargetProfile(engine, api)
      BY <1>1, <1>4, <2>1
    <2> HIDE DEF engine
    <2>4. /\ api.core <= engine.core
          /\ engine.core < Ver(5, 4, 0) =>
               \E line \in Lines :
                   /\ ~line.output_supported
                   /\ [engine |-> engine.spelling, api |-> api.spelling] \in line.reported
      BY <2>1, <2>2, AcceptedPair
    <2>5. TargetProfile(engine, api) => engine.core >= Ver(5, 4, 0) /\ api.core >= Ver(4, 0, 0)
      BY <2>2, TargetBounds
    <2>6. ProbeNotTorn'
      BY <2>3, <2>4, <2>5 DEF ProbeNotTorn
    <2> QED
      BY <1>2, <2>6 DEF ProbeInv
  <1> QED
    BY <1>3, <1>4

\* The probe accepts no torn pair: whatever the service becomes between the two
\* requests of the probe, the versions kept are not contradictory, for every
\* catalogue whose lines are reviewed as CatalogueAssumption says.
THEOREM ProbeIsNotTorn == Spec => []ProbeNotTorn
  <1>1. Init => ProbeInv
    BY DEF Init, ProbeInv, ProbeNotTorn
  <1>2. TypeOK /\ ProbeInv /\ [Next]_vars => ProbeInv'
    <2> SUFFICES ASSUME TypeOK, ProbeInv, [Next]_vars
                 PROVE  ProbeInv'
      OBVIOUS
    <2>1. CASE Ping
      BY <2>1, ProbePing
    <2>2. CASE Version
      BY <2>2, ProbeVersion
    <2>3. CASE ~Ping /\ ~Version
      <3>1. service' = service /\ (phase' = "version" => phase = "version" /\ api' = api)
        BY <2>3 DEF Next, vars, Acquire, SkipInapplicable, list_section, PushListed, inspect_observation,
                    PushSection, ServiceChanges
      <3> QED
        BY <3>1 DEF ProbeInv, ProbeNotTorn
    <2> QED
      BY <2>1, <2>2, <2>3
  <1>3. ProbeInv => ProbeNotTorn
    BY DEF ProbeInv
  <1> QED
    BY <1>1, <1>2, <1>3, TypeCorrect, PTL DEF Spec

-----------------------------------------------------------------------------
(* The budget is accounted for. *)

\* The fold of Unmodelled: the record it takes first, one step of it, and the
\* sums of all parts of a set.
First(obs) == CHOOSE o \in obs : TRUE
SumStep(sums, obs) == IF obs = {} THEN 0 ELSE First(obs).unmodelled + sums[obs \ {First(obs)}]
SumsUpTo(sums, obs, n) == sums = [s \in {t \in SUBSET obs : Cardinality(t) <= n} |-> SumStep(sums, s)]
Sums(obs) == CHOOSE sums : sums = [s \in SUBSET obs |-> SumStep(sums, s)]

LEMMA UnmodelledIsSum == \A obs : Unmodelled(obs) = Sums(obs)[obs]
  BY DEF Unmodelled, Sums, SumStep, First, MapThenSumSet, MapThenFoldSet

\* Taking the first record away.
LEMMA FirstAway ==
    ASSUME NEW obs, IsFiniteSet(obs), NEW s \in SUBSET obs, s # {}
    PROVE  /\ First(s) \in s /\ s \ {First(s)} \in SUBSET obs
           /\ Cardinality(s) \in Nat /\ Cardinality(s \ {First(s)}) = Cardinality(s) - 1
           /\ Cardinality(s \ {First(s)}) \in Nat
  <1>1. First(s) \in s
    BY DEF First
  <1>2. IsFiniteSet(s)
    BY FS_Subset
  <1> QED BY <1>1, <1>2, FS_RemoveElement, FS_CardinalityType

\* The recursion of the fold has a solution on every finite set.
LEMMA SumsExist ==
    ASSUME NEW obs, IsFiniteSet(obs)
    PROVE  Sums(obs) = [s \in SUBSET obs |-> SumStep(Sums(obs), s)]
  <1> DEFINE Bad == {n \in Nat : ~\E sums : SumsUpTo(sums, obs, n)}
             Level(n) == {t \in SUBSET obs : Cardinality(t) <= n}
  <1>1. ASSUME NEW n \in Bad, \A j \in Bad : n <= j PROVE FALSE
    <2>1. CASE n = 0
      <3> DEFINE sums == [s \in Level(0) |-> 0]
      <3>1. ASSUME NEW s \in Level(0), s # {} PROVE FALSE
        <4>1. s \in SUBSET obs /\ Cardinality(s) <= 0
          OBVIOUS
        <4>2. Cardinality(s) \in Nat /\ Cardinality(s) - 1 \in Nat
          BY <3>1, <4>1, FirstAway
        <4> QED BY <4>1, <4>2
      <3>2. sums = [s \in Level(0) |-> SumStep(sums, s)]
        BY <3>1 DEF SumStep
      <3> QED BY <1>1, <2>1, <3>2 DEF SumsUpTo
    <2>2. CASE n # 0
      <3>1. n - 1 \in Nat /\ n - 1 \notin Bad
        BY <1>1, <2>2
      <3>2. PICK sums : SumsUpTo(sums, obs, n - 1)
        BY <3>1
      <3> DEFINE more == [s \in Level(n) |-> SumStep(sums, s)]
      <3>3. ASSUME NEW s \in Level(n) PROVE SumStep(sums, s) = SumStep(more, s)
        <4>1. CASE s = {}
          BY <4>1 DEF SumStep
        <4>2. CASE s # {}
          <5> DEFINE t == s \ {First(s)}
          <5>1. t \in Level(n - 1) /\ t \in Level(n)
            BY <4>2, <1>1, FirstAway
          <5>2. sums[t] = SumStep(sums, t)
            BY <3>2, <5>1 DEF SumsUpTo
          <5>3. more[t] = SumStep(sums, t)
            BY <5>1
          <5> HIDE DEF more, t
          <5>4. sums[t] = more[t]
            BY <5>2, <5>3
          <5> QED BY <4>2, <5>4 DEF SumStep, t
        <4> QED BY <4>1, <4>2
      <3>4. more = [s \in Level(n) |-> SumStep(more, s)]
        <4>1. more = [s \in Level(n) |-> SumStep(sums, s)]
          OBVIOUS
        <4> HIDE DEF more, Level
        <4> QED BY <3>3, <4>1
      <3> QED BY <1>1, <3>4 DEF SumsUpTo
    <2> QED BY <2>1, <2>2
  <1>2. Bad = {}
    <2> HIDE DEF Bad
    <2>1. Bad \subseteq Nat
      BY DEF Bad
    <2> QED BY <1>1, <2>1, SmallestNat
  <1>3. Cardinality(obs) \in Nat /\ Level(Cardinality(obs)) = SUBSET obs
    <2>1. \A s \in SUBSET obs : Cardinality(s) <= Cardinality(obs)
      BY FS_Subset
    <2> QED BY <2>1, FS_CardinalityType
  <1>4. \E sums : SumsUpTo(sums, obs, Cardinality(obs))
    BY <1>2, <1>3
  <1>5. \E sums : sums = [s \in SUBSET obs |-> SumStep(sums, s)]
    BY <1>3, <1>4 DEF SumsUpTo
  <1> QED BY <1>5 DEF Sums

\* The sum of a part is the same in every whole.
LEMMA SumOfPart ==
    ASSUME NEW obs, IsFiniteSet(obs), NEW s \in SUBSET obs
    PROVE  Sums(obs)[s] = Unmodelled(s)
  <1> DEFINE Differs(n) == \E a : IsFiniteSet(a) /\ \E t \in SUBSET a :
                              Cardinality(t) = n /\ Sums(a)[t] # Sums(t)[t]
             Bad == {n \in Nat : Differs(n)}
  <1>1. ASSUME NEW n \in Bad, \A j \in Bad : n <= j PROVE FALSE
    <2>1. PICK a : IsFiniteSet(a) /\ \E t \in SUBSET a : Cardinality(t) = n /\ Sums(a)[t] # Sums(t)[t]
      BY <1>1
    <2>2. PICK t \in SUBSET a : Cardinality(t) = n /\ Sums(a)[t] # Sums(t)[t]
      BY <2>1
    <2>3. IsFiniteSet(t) /\ t \in SUBSET t
      BY <2>1, FS_Subset
    <2>4. Sums(a)[t] = SumStep(Sums(a), t) /\ Sums(t)[t] = SumStep(Sums(t), t)
      <3>1. Sums(a) = [x \in SUBSET a |-> SumStep(Sums(a), x)]
        BY <2>1, SumsExist
      <3>2. Sums(t) = [x \in SUBSET t |-> SumStep(Sums(t), x)]
        BY <2>3, SumsExist
      <3>3. Sums(a)[t] = SumStep(Sums(a), t)
        BY <3>1
      <3>4. Sums(t)[t] = SumStep(Sums(t), t)
        BY <2>3, <3>2
      <3> QED BY <3>3, <3>4
    <2>5. t # {}
      BY <2>2, <2>4 DEF SumStep
    <2> DEFINE r == t \ {First(t)}
    <2>6. r \in SUBSET a /\ r \in SUBSET t /\ Cardinality(r) = n - 1 /\ n - 1 \in Nat
      BY <2>1, <2>2, <2>5, FirstAway
    <2>7. ~Differs(n - 1)
      BY <1>1, <2>6
    <2>8. Sums(a)[r] = Sums(r)[r] /\ Sums(t)[r] = Sums(r)[r]
      <3> HIDE DEF r
      <3> QED BY <2>1, <2>3, <2>6, <2>7
    <2>9. SumStep(Sums(a), t) = SumStep(Sums(t), t)
      BY <2>5, <2>8 DEF SumStep
    <2> QED BY <2>2, <2>4, <2>9
  <1>2. Bad = {}
    <2> HIDE DEF Bad
    <2>1. Bad \subseteq Nat
      BY DEF Bad
    <2> QED BY <1>1, <2>1, SmallestNat
  <1>3. IsFiniteSet(s) /\ Cardinality(s) \in Nat
    BY FS_Subset, FS_CardinalityType
  <1>4. ~Differs(Cardinality(s))
    BY <1>2, <1>3
  <1> QED BY <1>4, UnmodelledIsSum

\* The fold, one record at a time.
LEMMA UnmodelledStep ==
    ASSUME NEW obs, IsFiniteSet(obs)
    PROVE  /\ obs = {} => Unmodelled(obs) = 0
           /\ obs # {} => Unmodelled(obs) = First(obs).unmodelled + Unmodelled(obs \ {First(obs)})
  <1>1. Unmodelled(obs) = SumStep(Sums(obs), obs)
    BY SumsExist, UnmodelledIsSum
  <1>2. obs # {} => Sums(obs)[obs \ {First(obs)}] = Unmodelled(obs \ {First(obs)})
    BY SumOfPart
  <1> QED BY <1>1, <1>2 DEF SumStep

\* Any record can be taken away first.
LEMMA UnmodelledWithout ==
    ASSUME NEW obs, IsFiniteSet(obs), \A o \in obs : o.unmodelled \in Nat, NEW x \in obs
    PROVE  /\ Unmodelled(obs \ {x}) \in Nat
           /\ Unmodelled(obs) = x.unmodelled + Unmodelled(obs \ {x})
  <1> DEFINE Counted(t) == IsFiniteSet(t) /\ \A o \in t : o.unmodelled \in Nat
             Right(t) == /\ Unmodelled(t) \in Nat
                         /\ \A y \in t : Unmodelled(t) = y.unmodelled + Unmodelled(t \ {y})
             Bad == {n \in Nat : \E t : Counted(t) /\ Cardinality(t) = n /\ ~Right(t)}
  <1>1. ASSUME NEW n \in Bad, \A j \in Bad : n <= j PROVE FALSE
    <2>1. PICK t : Counted(t) /\ Cardinality(t) = n /\ ~Right(t)
      BY <1>1
    <2>2. ASSUME NEW y \in t
          PROVE  Counted(t \ {y}) /\ Right(t \ {y})
      <3>1. Counted(t \ {y}) /\ Cardinality(t \ {y}) = n - 1 /\ n - 1 \in Nat
        BY <2>1, FS_RemoveElement, FS_CardinalityType, FS_EmptySet
      <3>2. n - 1 \notin Bad
        BY <1>1, <3>1
      <3> HIDE DEF Right, Counted
      <3> QED BY <3>1, <3>2
    <2>3. CASE t = {}
      BY <2>1, <2>3, UnmodelledStep
    <2>4. CASE t # {}
      <3> DEFINE c == First(t)
      <3>1. c \in t /\ c.unmodelled \in Nat
        BY <2>1, <2>4 DEF First
      <3> HIDE DEF c
      <3>2. Unmodelled(t) = c.unmodelled + Unmodelled(t \ {c})
        BY <2>1, <2>4, UnmodelledStep DEF c
      <3>3. Unmodelled(t) \in Nat
        <4>1. Unmodelled(t \ {c}) \in Nat
          BY <2>2, <3>1
        <4> QED BY <3>1, <3>2, <4>1
      <3>4. ASSUME NEW y \in t, y # c PROVE Unmodelled(t) = y.unmodelled + Unmodelled(t \ {y})
        <4>1. y \in t \ {c} /\ c \in t \ {y} /\ (t \ {c}) \ {y} = (t \ {y}) \ {c}
          BY <3>1, <3>4
        <4>2. Unmodelled(t \ {c}) = y.unmodelled + Unmodelled((t \ {c}) \ {y})
          BY <2>2, <3>1, <4>1
        <4>3. Unmodelled(t \ {y}) = c.unmodelled + Unmodelled((t \ {y}) \ {c})
          BY <2>2, <4>1
        <4>4. y.unmodelled \in Nat /\ Unmodelled((t \ {y}) \ {c}) \in Nat
          <5>1. Counted(t \ {y}) /\ c \in t \ {y} /\ Right(t \ {y})
            BY <2>2, <4>1
          <5>2. Counted((t \ {y}) \ {c}) /\ Cardinality((t \ {y}) \ {c}) \in Nat
            BY <5>1, FS_RemoveElement, FS_CardinalityType
          <5>3. Cardinality((t \ {y}) \ {c}) < n
            <6>1. Cardinality(t \ {y}) = n - 1
              BY <2>1, <3>4, FS_RemoveElement
            <6>2. Cardinality((t \ {y}) \ {c}) = Cardinality(t \ {y}) - 1
              BY <5>1, FS_RemoveElement
            <6> QED BY <5>2, <6>1, <6>2
          <5>4. Cardinality((t \ {y}) \ {c}) \notin Bad
            BY <1>1, <5>2, <5>3
          <5>5. Right((t \ {y}) \ {c})
            <6> HIDE DEF Right, Counted
            <6> QED BY <5>2, <5>4
          <5> QED BY <2>1, <3>4, <5>5
        <4>5. Unmodelled((t \ {c}) \ {y}) = Unmodelled((t \ {y}) \ {c})
          BY <4>1
        <4>6. Unmodelled(t) = c.unmodelled + (y.unmodelled + Unmodelled((t \ {y}) \ {c}))
          BY <3>2, <4>2, <4>5
        <4> QED BY <3>1, <4>3, <4>4, <4>6
      <3> QED BY <2>1, <3>2, <3>3, <3>4
    <2> QED BY <2>3, <2>4
  <1>2. Bad = {}
    <2> HIDE DEF Bad
    <2>1. Bad \subseteq Nat
      BY DEF Bad
    <2> QED BY <1>1, <2>1, SmallestNat
  <1>3. \A t : Counted(t) => Right(t)
    <2> HIDE DEF Right
    <2> QED BY <1>2, FS_CardinalityType
  <1>4. IsFiniteSet(obs \ {x}) /\ \A o \in obs \ {x} : o.unmodelled \in Nat
    BY FS_RemoveElement
  <1> QED BY <1>3, <1>4

LEMMA UnmodelledNat ==
    ASSUME NEW obs, IsFiniteSet(obs), \A o \in obs : o.unmodelled \in Nat
    PROVE  Unmodelled(obs) \in Nat
  <1>1. CASE obs = {}
    <2>1. Unmodelled(obs) = 0
      BY <1>1, UnmodelledStep
    <2> QED BY <2>1
  <1>2. CASE obs # {}
    <2>1. PICK x \in obs : TRUE
      BY <1>2
    <2>2. Unmodelled(obs \ {x}) \in Nat /\ Unmodelled(obs) = x.unmodelled + Unmodelled(obs \ {x})
      BY <2>1, UnmodelledWithout
    <2> QED BY <2>1, <2>2
  <1> QED BY <1>1, <1>2

\* One more record.
LEMMA UnmodelledWith ==
    ASSUME NEW obs, IsFiniteSet(obs), \A o \in obs : o.unmodelled \in Nat,
           NEW x, x \notin obs, x.unmodelled \in Nat
    PROVE  Unmodelled(obs \cup {x}) = x.unmodelled + Unmodelled(obs)
  <1>1. IsFiniteSet(obs \cup {x}) /\ (obs \cup {x}) \ {x} = obs
    BY FS_AddElement
  <1> QED BY <1>1, UnmodelledWithout

\* Records that are changed one by one, but not in their number of fields.
LEMMA UnmodelledImage ==
    ASSUME NEW obs, IsFiniteSet(obs), NEW h, DOMAIN h = obs,
           \A o \in obs : o.unmodelled \in Nat /\ h[o].unmodelled = o.unmodelled,
           \A o, p \in obs : h[o] = h[p] => o = p
    PROVE  Unmodelled({h[o] : o \in obs}) = Unmodelled(obs)
  <1> DEFINE Image(t) == {h[o] : o \in t}
             Bad == {n \in Nat : \E t \in SUBSET obs : Cardinality(t) = n /\ Unmodelled(Image(t)) # Unmodelled(t)}
  <1>1. ASSUME NEW n \in Bad, \A j \in Bad : n <= j PROVE FALSE
    <2>1. PICK t \in SUBSET obs : Cardinality(t) = n /\ Unmodelled(Image(t)) # Unmodelled(t)
      BY <1>1
    <2>2. IsFiniteSet(t) /\ IsFiniteSet(Image(t))
      <3>1. IsFiniteSet(t)
        BY FS_Subset
      <3>2. [o \in t |-> h[o]] \in Surjection(t, Image(t))
        BY DEF Surjection
      <3> HIDE DEF Image
      <3> QED BY <3>1, <3>2, FS_Surjection
    <2>3. CASE t = {}
      <3>1. Image(t) = {}
        BY <2>3
      <3> QED BY <2>1, <2>2, <2>3, <3>1, UnmodelledStep
    <2>4. CASE t # {}
      <3>1. PICK x \in t : TRUE
        BY <2>4
      <3>2. h[x] \in Image(t) /\ Image(t) \ {h[x]} = Image(t \ {x})
        BY <2>1
      <3>3. \A o \in Image(t) : o.unmodelled \in Nat
        BY <2>1
      <3>4. t \ {x} \in SUBSET obs /\ Cardinality(t \ {x}) = n - 1 /\ n - 1 \in Nat
        <4>1. t \ {x} \in SUBSET obs /\ x \in t
          BY <2>1, <3>1
        <4>2. Cardinality(t \ {x}) = n - 1 /\ IsFiniteSet(t \ {x})
          BY <2>1, <2>2, <4>1, FS_RemoveElement
        <4>3. Cardinality(t \ {x}) \in Nat
          BY <4>2, FS_CardinalityType
        <4> QED BY <4>1, <4>2, <4>3
      <3>5. Unmodelled(Image(t \ {x})) = Unmodelled(t \ {x})
        <4> HIDE DEF Image
        <4> QED BY <1>1, <3>4
      <3>6. Unmodelled(t) = x.unmodelled + Unmodelled(t \ {x})
        BY <2>1, <2>2, UnmodelledWithout
      <3> HIDE DEF Image
      <3>7. Unmodelled(Image(t)) = h[x].unmodelled + Unmodelled(Image(t) \ {h[x]})
        BY <2>2, <3>2, <3>3, UnmodelledWithout
      <3> QED BY <2>1, <3>2, <3>5, <3>6, <3>7
    <2> QED BY <2>3, <2>4
  <1>2. Bad = {}
    <2> HIDE DEF Bad
    <2>1. Bad \subseteq Nat
      BY DEF Bad
    <2> QED BY <1>1, <2>1, SmallestNat
  <1> HIDE DEF Image
  <1>3. Unmodelled(Image(obs)) = Unmodelled(obs)
    BY <1>2, FS_CardinalityType
  <1> QED BY <1>3 DEF Image

\* What the accounting rests on: the records are finitely many and each has a
\* number of fields.
BudgetInv ==
    /\ BudgetAccounted
    /\ IsFiniteSet(AllObservations)
    /\ \A o \in AllObservations : o.unmodelled \in Nat

\* An inspect adds a record there was not, and takes its fields from the budget.
LEMMA BudgetInspect ==
    ASSUME IInv, RecordsExact, BudgetInv, inspect_observation
    PROVE  BudgetInv'
  <1> USE KindsFacts DEF IInv
  <1>1. /\ phase = "inspect" /\ todo # {} /\ todo \subseteq Nat /\ todo \subseteq ListedIds(listed[sec])
        /\ sec \in 1..Len(ALL) /\ DOMAIN sections = 1..(sec - 1) /\ world \in Worlds
        /\ remaining \in Nat /\ phase' = phase
    BY DEF inspect_observation, TypeOK, sec, IsSequence
  <1> DEFINE id == CHOOSE i \in todo : \A j \in todo : i <= j
  <1>2. PICK o \in InspectOutcomes(ALL[sec], id) :
          current' = current \cup {o} /\ remaining' = SaturatingSub(remaining, o.unmodelled)
    BY DEF inspect_observation
  <1>3. id \in todo
    BY <1>1, SmallestNat
  <1> HIDE DEF id
  <1>4. o.id = id /\ o.kind = ALL[sec]
    BY <1>1, <1>2, OutcomeRecord
  <1>5. o.unmodelled \in Nat /\ o.unmodelled <= remaining
    <2>1. o.unmodelled \in Nat /\ o.unmodelled <= unknown_field_limit
      BY <1>1, <1>2, <1>3, OutcomeFields
    <2>2. Reservation(listed, sec) \in Nat
      BY <1>1, ReservationBound DEF TypeOK
    <2> QED BY <1>1, <2>1, <2>2 DEF unknown_field_limit, SaturatingSub, Least
  <1>6. o \notin current
    BY <1>1, <1>3, <1>4 DEF RecordsExact, RecordsOf
  <1>7. ASSUME o \in Observations(sections) PROVE FALSE
    <2>1. PICK i \in DOMAIN sections : o \in sections[i].observations
      BY <1>7 DEF Observations
    <2>2. o.kind = ALL[i]
      BY <1>1, <2>1 DEF RecordsExact, SectionExact, RecordsOf
    <2>3. ALL[i] # ALL[sec]
      BY <1>1, ConstantsAssumption
    <2> QED BY <1>4, <2>2, <2>3
  <1>8. AllObservations' = AllObservations \cup {o} /\ o \notin AllObservations
    BY <1>2, <1>6, <1>7 DEF AllObservations, inspect_observation
  <1>9. Unmodelled(AllObservations') = o.unmodelled + Unmodelled(AllObservations)
    BY <1>5, <1>8, UnmodelledWith DEF BudgetInv
  <1>10. Unmodelled(AllObservations) = MaxInventory - remaining
    <2>1. Unmodelled(AllObservations) \in Nat
      BY UnmodelledNat DEF BudgetInv
    <2> QED BY <1>1, <2>1 DEF BudgetInv, BudgetAccounted
  <1>11. remaining' + Unmodelled(AllObservations') = MaxInventory
    BY <1>1, <1>2, <1>5, <1>9, <1>10 DEF SaturatingSub
  <1>12. IsFiniteSet(AllObservations')
    BY <1>8, FS_AddElement DEF BudgetInv
  <1>13. \A x \in AllObservations' : x.unmodelled \in Nat
    BY <1>5, <1>8 DEF BudgetInv
  <1> QED BY <1>1, <1>11, <1>12, <1>13 DEF BudgetInv, BudgetAccounted

\* Reconciliation adds findings to the records and no fields.
LEMMA FieldsKept ==
    ASSUME NEW o, Genuine(o), NEW obs, NEW available
    PROVE  Reconciled(obs, available, o).unmodelled = o.unmodelled
  BY DEF Genuine, Reconciled

\* Closing a section moves its records.
LEMMA ClosedIsAll ==
    ASSUME IInv, RecordsExact, PushSection,
           NEW all, all = Append(sections, Section(listed[sec]))
    PROVE  Observations(all) = AllObservations
  <1>1. DOMAIN all = 1..sec /\ sec \in Nat /\ sec >= 1
        /\ DOMAIN sections = 1..(sec - 1) /\ all[sec] = Section(listed[sec])
        /\ \A i \in 1..(sec - 1) : all[i] = sections[i]
    BY DEF PushSection, IInv, TypeOK, IsSequence, sec
  <1>2. Section(listed[sec]).observations = current
    <2>1. CASE listed[sec].ok
      BY <2>1 DEF Section
    <2>2. CASE ~listed[sec].ok
      <3>1. ListedIds(listed[sec]) = {}
        BY <2>2 DEF ListedIds, IsListed
      <3>2. current = {}
        BY <3>1 DEF RecordsExact, RecordsOf, PushSection
      <3> QED BY <2>2, <3>2 DEF Section
    <2> QED BY <2>1, <2>2
  <1>3. ASSUME NEW o PROVE o \in Observations(all) <=> o \in Observations(sections) \cup current
    <2>1. o \in Observations(all) <=> \E i \in 1..sec : o \in all[i].observations
      BY <1>1 DEF Observations
    <2>2. o \in Observations(sections) <=> \E i \in 1..(sec - 1) : o \in sections[i].observations
      BY <1>1 DEF Observations
    <2> QED BY <1>1, <1>2, <2>1, <2>2
  <1> QED BY <1>3 DEF AllObservations

\* Closing a section, the last one with its reconciliation, moves no field in
\* or out.
LEMMA BudgetPushSection ==
    ASSUME IInv, RecordsExact, BudgetInv, PushSection
    PROVE  BudgetInv'
  <1> DEFINE all == Append(sections, Section(listed[sec]))
  <1>1. Observations(all) = AllObservations
    BY ClosedIsAll
  <1>2. remaining' = remaining /\ current' = {} /\ phase = "inspect"
    BY DEF PushSection
  <1>3. CASE Len(all) # Len(ALL)
    <2>1. sections' = all /\ phase' = "inspect"
      BY <1>2, <1>3 DEF PushSection
    <2> HIDE DEF all
    <2>2. AllObservations' = AllObservations
      BY <1>1, <1>2, <2>1 DEF AllObservations
    <2> QED BY <1>2, <2>1, <2>2 DEF BudgetInv, BudgetAccounted
  <1>4. CASE Len(all) = Len(ALL)
    <2> DEFINE h == [o \in AllObservations |-> Reconciled(Observations(all), AvailableKinds(all), o)]
    <2>1. /\ AllObservations' = {Reconciled(Observations(all), AvailableKinds(all), o) : o \in AllObservations}
          /\ phase' = "done"
      BY <1>1, <1>4, ReconciledRecords
    <2>2. /\ \A o, p \in AllObservations : o.kind = p.kind /\ o.id = p.id => o = p
          /\ \A o \in AllObservations : Genuine(o)
      BY <1>1, <1>4, SectionsDistinct DEF Distinct
    <2>3. AllObservations' = {h[o] : o \in AllObservations}
      BY <2>1
    <2>4. \A o \in AllObservations : h[o].id = o.id /\ h[o].kind = o.kind
      BY <2>2, FindingsOnly DEF Reconciled
    <2>5. \A o \in AllObservations : h[o].unmodelled = o.unmodelled
      BY <2>2, FieldsKept DEF BudgetInv
    <2>6. DOMAIN h = AllObservations /\ h = [o \in AllObservations |-> h[o]]
      OBVIOUS
    <2> HIDE DEF h
    <2>7. \A o, p \in AllObservations : h[o] = h[p] => o = p
      BY <2>2, <2>4
    <2>8. Unmodelled(AllObservations') = Unmodelled(AllObservations)
      BY <2>3, <2>5, <2>6, <2>7, UnmodelledImage DEF BudgetInv
    <2>9. IsFiniteSet(AllObservations')
      <3>1. h \in Surjection(AllObservations, AllObservations')
        BY <2>3, <2>6 DEF Surjection
      <3> QED BY <3>1, FS_Surjection DEF BudgetInv
    <2>10. \A o \in AllObservations' : o.unmodelled \in Nat
      BY <2>3, <2>5 DEF BudgetInv
    <2> QED BY <1>2, <2>1, <2>8, <2>9, <2>10 DEF BudgetInv, BudgetAccounted
  <1> QED BY <1>3, <1>4

\* Every step keeps the account.
LEMMA BudgetStep ==
    ASSUME AcquisitionInv, BudgetInv, [Next]_vars
    PROVE  BudgetInv'
  <1> USE DEF AcquisitionInv
  <1>1. CASE inspect_observation
    BY <1>1, BudgetInspect
  <1>2. CASE PushSection
    BY <1>2, BudgetPushSection
  <1>3. CASE ~inspect_observation /\ ~PushSection
    <2>1. UNCHANGED <<sections, current, remaining>>
      BY <1>3 DEF Next, Acquire, vars, Ping, Version, SkipInapplicable, list_section, PushListed, ServiceChanges
    <2>2. AllObservations' = AllObservations
      BY <2>1 DEF AllObservations
    <2> QED BY <2>1, <2>2 DEF BudgetInv, BudgetAccounted
  <1> QED BY <1>1, <1>2, <1>3

\* The budget is never overdrawn and never leaks: for every service, every
\* bound and every interleaving, what is left and what the records hold is the
\* whole of it (remaining_unknown_fields).
THEOREM BudgetIsAccounted == Spec => []BudgetAccounted
  <1>1. Init => BudgetInv
    <2> SUFFICES ASSUME Init PROVE BudgetInv
      OBVIOUS
    <2>1. AllObservations = {}
      BY DEF Init, AllObservations, Observations
    <2>2. Unmodelled({}) = 0 /\ IsFiniteSet({})
      BY UnmodelledStep, FS_EmptySet
    <2> QED BY <2>1, <2>2, KindsFacts DEF Init, BudgetInv, BudgetAccounted
  <1>2. AcquisitionInv /\ BudgetInv /\ [Next]_vars => BudgetInv'
    BY BudgetStep
  <1>3. BudgetInv => BudgetAccounted
    BY DEF BudgetInv
  <1> QED
    BY <1>1, <1>2, <1>3, AlwaysAcquisitionInv, PTL DEF Spec

=============================================================================
