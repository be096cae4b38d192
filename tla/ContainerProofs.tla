-------------------------- MODULE ContainerProofs --------------------------
(***************************************************************************)
(* Proofs about Container, for every inspect response of the shape the     *)
(* decoder can be given.                                                   *)
(***************************************************************************)
EXTENDS Container, FiniteSetTheorems, TLAPS

-----------------------------------------------------------------------------
(* Sequences, findings and fields *)

\* The record of the fields, of values of any kind, and relationship_decoding.
Record(fs) == fs = [f \in Fields |-> fs[f]]
Decision(d) == d \in [supplied : BOOLEAN, malformed : BOOLEAN]

Paths(fs) == {fs[j].path : j \in DOMAIN fs}

\* The value of an observed field.
ValueOf(f) == IF IsObserved(f) THEN {f.value} ELSE {}

\* The empty sequence and the ones with one element are sequences.
LEMMA ShortSequences ==
    /\ Sequence(<<>>) /\ Paths(<<>>) = {}
    /\ \A x : Sequence(<<x>>) /\ Paths(<<x>>) = {x.path}
  <1>1. Sequence(<<>>) /\ Paths(<<>>) = {}
    BY DEF Sequence, Range, Paths
  <1>2. ASSUME NEW x
        PROVE  Sequence(<<x>>) /\ Paths(<<x>>) = {x.path}
    <2>1. <<x>> \in Seq({x}) /\ Range(<<x>>) = {x} /\ DOMAIN <<x>> = {1} /\ <<x>>[1] = x
      BY DEF Range
    <2> QED
      BY <2>1 DEF Sequence, Paths
  <1> QED
    BY <1>1, <1>2

\* What is known of a sequence of any elements.
LEMMA SequenceFacts ==
    ASSUME NEW s, Sequence(s)
    PROVE  /\ Len(s) \in Nat /\ DOMAIN s = 1..Len(s)
           /\ s \in Seq(Range(s)) /\ \A j \in DOMAIN s : s[j] \in Range(s)
  BY DEF Sequence, Range

\* The concatenation of two sequences, and its findings' paths.
LEMMA Concatenation ==
    ASSUME NEW s, Sequence(s), NEW t, Sequence(t)
    PROVE  /\ Sequence(s \o t) /\ Len(s \o t) = Len(s) + Len(t)
           /\ \A j \in 1..Len(s) : (s \o t)[j] = s[j]
           /\ \A j \in 1..Len(t) : (s \o t)[Len(s) + j] = t[j]
           /\ Paths(s \o t) = Paths(s) \cup Paths(t)
           /\ Range(s \o t) = Range(s) \cup Range(t)
  <1> DEFINE U == Range(s) \cup Range(t)
             c == s \o t
  <1>1. s \in Seq(U) /\ t \in Seq(U)
    BY SequenceFacts
  <1>2. c \in Seq(U) /\ Len(c) = Len(s) + Len(t)
    BY <1>1
  <1>3. \A j \in 1..Len(s) : c[j] = s[j]
    BY <1>1
  <1>4. \A j \in 1..Len(t) : c[Len(s) + j] = t[j]
    BY <1>1
  <1>5. /\ DOMAIN s = 1..Len(s) /\ DOMAIN t = 1..Len(t) /\ DOMAIN c = 1..(Len(s) + Len(t))
        /\ Len(s) \in Nat /\ Len(t) \in Nat
    BY <1>1, <1>2
  <1> HIDE DEF c, U
  <1>6. \A j \in DOMAIN c : j \in DOMAIN s \/ (j - Len(s) \in DOMAIN t /\ j = Len(s) + (j - Len(s)))
    BY <1>5
  <1>7. \A j \in DOMAIN s : j \in DOMAIN c
    BY <1>5
  <1>8. \A j \in DOMAIN t : Len(s) + j \in DOMAIN c
    BY <1>5
  <1>9. Range(c) = Range(s) \cup Range(t)
    BY <1>3, <1>4, <1>5, <1>6, <1>7, <1>8 DEF Range
  <1>10. Paths(c) = Paths(s) \cup Paths(t)
    BY <1>3, <1>4, <1>5, <1>6, <1>7, <1>8 DEF Paths
  <1>11. Sequence(c)
    BY <1>2, <1>9 DEF U, Sequence
  <1> QED
    BY <1>2, <1>3, <1>4, <1>9, <1>10, <1>11 DEF c

\* Append is concatenation with one element.
LEMMA Appending ==
    ASSUME NEW s, Sequence(s), NEW x
    PROVE  /\ Sequence(Append(s, x)) /\ Len(Append(s, x)) = Len(s) + 1
           /\ \A j \in 1..Len(s) : Append(s, x)[j] = s[j]
           /\ Append(s, x)[Len(s) + 1] = x
           /\ Paths(Append(s, x)) = Paths(s) \cup {x.path}
           /\ Range(Append(s, x)) = Range(s) \cup {x}
  <1>1. Append(s, x) = s \o <<x>>
    BY DEF Sequence
  <1>2. Len(<<x>>) = 1 /\ <<x>>[1] = x /\ Range(<<x>>) = {x}
    BY DEF Range
  <1> DEFINE e == <<x>>
  <1>3. Sequence(e) /\ Paths(e) = {x.path}
    BY ShortSequences
  <1> HIDE DEF e
  <1>4. /\ Sequence(s \o e) /\ Len(s \o e) = Len(s) + Len(e)
        /\ \A j \in 1..Len(s) : (s \o e)[j] = s[j]
        /\ \A j \in 1..Len(e) : (s \o e)[Len(s) + j] = e[j]
        /\ Paths(s \o e) = Paths(s) \cup Paths(e)
        /\ Range(s \o e) = Range(s) \cup Range(e)
    BY <1>3, Concatenation
  <1> QED
    BY <1>1, <1>2, <1>3, <1>4 DEF e

\* One finding, the findings of bad members, and of a refused text.
LEMMA FindingLists ==
    ASSUME NEW path, NEW k
    PROVE  /\ Sequence(NoFindings) /\ Paths(NoFindings) = {}
           /\ Sequence(Bad(path, k)) /\ Paths(Bad(path, k)) = {path}
           /\ \A field : /\ Sequence(Reported(field, path, k))
                         /\ field = Malformed => Paths(Reported(field, path, k)) = {path}
                         /\ field # Malformed => Paths(Reported(field, path, k)) = {}
  <1>1. Finding("ResourceMalformed", path, k).path = path
    BY DEF Finding
  <1> QED
    BY <1>1, ShortSequences DEF NoFindings, Bad, Reported

LEMMA MemberFindings ==
    ASSUME NEW path, NEW values, NEW names, IsFiniteSet(names), NEW k
    PROVE  /\ Sequence(Members(path, values, names, k))
           /\ Paths(Members(path, values, names, k)) \subseteq {path}
           /\ (\E m \in names : values[m] = "bad") => path \in Paths(Members(path, values, names, k))
  <1> DEFINE bad == {m \in names : values[m] = "bad"}
             n == Cardinality(bad)
             f == Finding("ResourceMalformed", path, k)
             found == [j \in 1..n |-> f]
  <1>1. f.path = path
    BY DEF Finding
  <1>2. IsFiniteSet(bad) /\ n \in Nat
    BY FS_Subset, FS_CardinalityType
  <1>3. bad # {} => n # 0
    BY <1>2, FS_EmptySet
  <1>4. Members(path, values, names, k) = found
    BY DEF Members
  <1> HIDE DEF n, f
  <1>5. found \in Seq({f})
    BY <1>2
  <1>6. DOMAIN found = 1..n /\ \A j \in 1..n : found[j] = f
    OBVIOUS
  <1> HIDE DEF found
  <1>7. Sequence(found)
    BY <1>2, <1>5, <1>6 DEF Sequence, Range
  <1>8. Paths(found) \subseteq {path}
    BY <1>1, <1>6 DEF Paths
  <1>9. bad # {} => path \in Paths(found)
    <2>1. SUFFICES ASSUME bad # {}
                   PROVE  path \in Paths(found)
      OBVIOUS
    <2>2. 1 \in 1..n
      BY <1>2, <1>3, <2>1
    <2> QED
      BY <1>1, <1>6, <2>2 DEF Paths
  <1> QED
    BY <1>4, <1>7, <1>8, <1>9

\* The members a list of names has are finitely many.
LEMMA SmallSets ==
    \A a, b, c : IsFiniteSet({a, b}) /\ IsFiniteSet({a, b, c})
  <1> SUFFICES ASSUME NEW a, NEW b, NEW c
               PROVE  IsFiniteSet({a, b}) /\ IsFiniteSet({a, b, c})
    OBVIOUS
  <1>1. IsFiniteSet({a})
    BY FS_Singleton
  <1>2. IsFiniteSet({a} \cup {b})
    BY <1>1, FS_AddElement
  <1>3. IsFiniteSet(({a} \cup {b}) \cup {c})
    BY <1>2, FS_AddElement
  <1>4. {a} \cup {b} = {a, b} /\ ({a} \cup {b}) \cup {c} = {a, b, c}
    OBVIOUS
  <1> QED
    BY <1>2, <1>3, <1>4

\* Setting one field of the record.
With(fs, g, v) == [fs EXCEPT ![g] = v]
LEMMA FieldSet ==
    ASSUME NEW fs, Record(fs), NEW g \in Fields, NEW v
    PROVE  /\ Record(With(fs, g, v)) /\ With(fs, g, v)[g] = v
           /\ \A f \in Fields : f # g => With(fs, g, v)[f] = fs[f]
  BY DEF Record, With


-----------------------------------------------------------------------------
(* The decoder's stages *)

\* The stages up to the one that writes a field.
ToReferences == {"configuration", "environment", "references"}
ToNetworks == ToReferences \cup {"network_settings", "networks"}
ToBinds == ToNetworks \cup {"attachments", "networking", "host_binds", "binds"}
ToMounts == ToBinds \cup {"mount_list", "mounts"}
ToDependencies == ToMounts \cup {"command", "scan", "image_hint", "correlate",
                                 "dependency_list", "dependencies"}
ToSecrets == ToDependencies \cup {"secret_list", "secrets"}
ToRelationships == ToSecrets \cup {"relationships"}
Stages == ToRelationships \cup {"done"}

\* The types.
TypeOK ==
    /\ native \in Containers /\ policy \in {"Redact", "Include"}
    /\ stage \in Stages /\ index \in Nat \ {0} /\ malformed \in BOOLEAN
    /\ Sequence(decoded) /\ Sequence(relationships) /\ Sequence(findings)
    /\ Record(fields) /\ Decision(decoding)

\* A loop walks a list.
ListsOK ==
    /\ stage = "environment" => native.config = "object" /\ native.env.json = "array"
    /\ stage \in {"networks", "attachments"} =>
         native.settings = "object" /\ native.networks.json = "array" /\ ~IsObserved(fields["pod"])
    /\ stage = "binds" => native.host.json = "object" /\ native.host.binds.json = "array"
    /\ stage = "mounts" => native.mounts.json = "array"
    /\ stage = "scan" => native.config = "object" /\ native.command.json = "array"
    /\ stage = "dependencies" => native.dependencies.json = "array"
    /\ stage = "secrets" => native.config = "object" /\ native.secrets.json = "array"

\* A field is Absent until its stage.
Untouched ==
    /\ stage \in ToReferences => fields["configured_image"] = Absent /\ fields["pod"] = Absent
    /\ stage \in ToNetworks => fields["networks"] = Absent
    /\ stage \in ToMounts => fields["mounts"] = Absent
    /\ stage \in ToDependencies => fields["dependencies"] = Absent
    /\ stage \in ToSecrets => fields["secrets"] = Absent
    /\ stage \in ToRelationships => fields["relationships"] = Absent

-----------------------------------------------------------------------------
(* Findings *)

\* What a loop reports under, once its flag is set.
LoopPaths == [environment |-> {"Env"}, networks |-> {"Networks"}, binds |-> {"Binds"},
              mounts |-> {"Mounts", "Binds"}, secrets |-> {"Secrets"}]

Told(f) == fields[f] = Malformed => Explaining[f] \cap Paths(findings) # {}
FieldsTold ==
    /\ \A f \in Fields \ {"image_hint"} : Told(f)
    /\ fields["image_hint"] # Malformed
FlagTold == malformed => /\ stage \in DOMAIN LoopPaths
                         /\ LoopPaths[stage] \cap Paths(findings) # {}
FamilyTold == decoding.malformed => Explaining["relationships"] \cap Paths(findings) # {}
ConfigTold == native.config = "other" /\ stage # "configuration" => "Config" \in Paths(findings)

\* The walk that reports bad members of NetworkSettings.Networks.
NetworksWalked ==
    LET items == native.networks.items IN
    /\ stage = "networks" => \A j \in 1..(index - 1) : BadAttachment(items[j]) => malformed
    /\ stage = "attachments" =>
         \A j \in 1..Len(items) : BadAttachment(items[j]) => fields["networks"] = Malformed

ReportInv == FieldsTold /\ FlagTold /\ FamilyTold /\ ConfigTold /\ NetworksWalked

-----------------------------------------------------------------------------
(* What the loops do, whatever they decode *)

\* A loop starts, or its field is written.
LEMMA Entered ==
    ASSUME TypeOK, NEW s, NEW loop, NEW field \in Fields, NEW v, NEW next, NEW path,
           Enter(s, loop, field, v, next, path)
    PROVE  /\ stage = s /\ index' = 1 /\ decoded' = <<>> /\ malformed' \in BOOLEAN /\ ~malformed'
           /\ Sequence(findings') /\ Record(fields')
           /\ \A f \in Fields : f # field => fields'[f] = fields[f]
           /\ stage' = IF v.json = "array" THEN loop ELSE next
           /\ v.json = "array" => fields' = fields /\ findings' = findings
           /\ v.json # "array" =>
                /\ fields'[field] = (IF v = None THEN Absent ELSE Malformed)
                /\ Paths(findings') = Paths(findings) \cup (IF v = None THEN {} ELSE {path})
  <1>0. malformed' = FALSE
    BY DEF Enter, Begin
  <1>1. stage = s /\ index' = 1 /\ decoded' = <<>> /\ malformed' \in BOOLEAN /\ ~malformed'
    <2>1. malformed' \in BOOLEAN /\ ~malformed'
      BY <1>0, Zenon
    <2>2. stage = s /\ index' = 1 /\ decoded' = <<>>
      BY DEF Enter, Begin
    <2> QED
      BY <2>1, <2>2
  <1>2. CASE v.json = "array"
    BY <1>1, <1>2 DEF Enter, Begin, TypeOK
  <1>3. CASE v.json # "array"
    <2> DEFINE told == IF v = None THEN NoFindings ELSE Bad(path, 0)
               state == IF v = None THEN Absent ELSE Malformed
    <2>1. Sequence(told) /\ Paths(told) = IF v = None THEN {} ELSE {path}
      BY FindingLists
    <2>2. stage' = next /\ fields' = With(fields, field, state) /\ findings' = findings \o told
      BY <1>3 DEF Enter, Begin, With
    <2> HIDE DEF told, state
    <2>3. Sequence(findings') /\ Paths(findings') = Paths(findings) \cup Paths(told)
      BY <2>1, <2>2, Concatenation DEF TypeOK
    <2>4. /\ Record(fields') /\ fields'[field] = state
          /\ \A f \in Fields : f # field => fields'[f] = fields[f]
      BY <2>2, FieldSet DEF TypeOK
    <2> QED
      BY <1>1, <1>3, <2>1, <2>2, <2>3, <2>4 DEF state
  <1> QED
    BY <1>2, <1>3

\* What a turn pushes, or refuses.
LEMMA TurnFacts ==
    /\ \A fs : Refused(fs).bad /\ Refused(fs).bad \in BOOLEAN /\ Refused(fs).findings = fs
    /\ \A v, fs : /\ ~Pushes(v, fs).bad /\ Pushes(v, fs).bad \in BOOLEAN
                  /\ Pushes(v, fs).value = v /\ Pushes(v, fs).findings = fs
  BY Zenon DEF Refused, Pushes

\* One turn of a loop.
LEMMA Turned ==
    ASSUME TypeOK, NEW s, NEW items, NEW r, Sequence(r.findings), r.bad \in BOOLEAN, Turn(s, items, r)
    PROVE  /\ stage = s /\ stage' = s /\ index <= Len(items) /\ index' = index + 1
           /\ native' = native /\ policy' = policy /\ fields' = fields
           /\ decoding' = decoding /\ relabels' = relabels /\ image' = image
           /\ r.bad => malformed' /\ decoded' = decoded
           /\ ~r.bad => /\ malformed' = malformed /\ decoded' = Append(decoded, r.value)
                        /\ Len(decoded') = Len(decoded) + 1 /\ decoded'[Len(decoded) + 1] = r.value
                        /\ \A j \in 1..Len(decoded) : decoded'[j] = decoded[j]
           /\ index' \in Nat \ {0} /\ Sequence(decoded') /\ malformed' \in BOOLEAN
           /\ Sequence(findings') /\ Paths(findings') = Paths(findings) \cup Paths(r.findings)
  <1>1. /\ stage = s /\ stage' = s /\ index <= Len(items) /\ index' = index + 1
        /\ native' = native /\ policy' = policy /\ fields' = fields
        /\ decoding' = decoding /\ relabels' = relabels /\ image' = image
    BY DEF Turn
  <1>2. Sequence(findings') /\ Paths(findings') = Paths(findings) \cup Paths(r.findings)
    BY Concatenation DEF Turn, TypeOK
  <1>3. index' \in Nat \ {0}
    BY <1>1 DEF TypeOK
  <1>4. CASE r.bad
    BY <1>1, <1>2, <1>3, <1>4 DEF Turn, TypeOK
  <1>5. CASE ~r.bad
    <2>1. decoded' = Append(decoded, r.value) /\ malformed' = malformed
      BY <1>5 DEF Turn, TypeOK
    <2>2. /\ Sequence(decoded') /\ Len(decoded') = Len(decoded) + 1 /\ decoded'[Len(decoded) + 1] = r.value
          /\ \A j \in 1..Len(decoded) : decoded'[j] = decoded[j]
      BY <2>1, Appending DEF TypeOK
    <2> QED
      BY <1>1, <1>2, <1>3, <1>5, <2>1, <2>2 DEF TypeOK
  <1> QED
    BY <1>4, <1>5

\* The end of a loop.
LEMMA Left ==
    ASSUME TypeOK, NEW s, NEW items, NEW field \in Fields, NEW next, Leave(s, items, field, next)
    PROVE  /\ stage = s /\ stage' = next /\ index > Len(items)
           /\ index' = 1 /\ decoded' = <<>> /\ malformed' \in BOOLEAN /\ ~malformed'
           /\ native' = native /\ policy' = policy /\ relationships' = relationships
           /\ relabels' = relabels /\ image' = image /\ findings' = findings
           /\ Record(fields')
           /\ \A f \in Fields : f # field => fields'[f] = fields[f]
           /\ malformed => fields'[field] = Malformed
           /\ ~malformed => fields'[field] = Observed(decoded)
  <1>0. malformed' = FALSE
    BY DEF Leave, Begin
  <1>4. malformed' \in BOOLEAN /\ ~malformed'
    BY <1>0, Zenon
  <1>1. /\ stage = s /\ stage' = next /\ index > Len(items)
        /\ index' = 1 /\ decoded' = <<>>
        /\ native' = native /\ policy' = policy /\ relationships' = relationships
        /\ relabels' = relabels /\ image' = image /\ findings' = findings
        /\ fields' = [fields EXCEPT ![field] = IF malformed THEN Malformed ELSE Observed(decoded)]
    BY DEF Leave, Begin
  <1> DEFINE state == IF malformed THEN Malformed ELSE Observed(decoded)
  <1>2. fields' = With(fields, field, state)
    BY <1>1 DEF With
  <1> HIDE DEF state
  <1>3. /\ Record(fields') /\ fields'[field] = state
        /\ \A f \in Fields : f # field => fields'[f] = fields[f]
    BY <1>2, FieldSet DEF TypeOK
  <1> QED
    BY <1>1, <1>3, <1>4 DEF state

-----------------------------------------------------------------------------
(* The shape of the state *)

ShapeInv == TypeOK /\ ListsOK /\ Untouched

LEMMA ShapeInit == Init => ShapeInv
  <1>1. SUFFICES ASSUME Init
                 PROVE  ShapeInv
    OBVIOUS
  <1>2. TypeOK
    <2>1. /\ Sequence(decoded) /\ Sequence(relationships) /\ Sequence(findings)
      BY <1>1, ShortSequences DEF Init
    <2>2. /\ index = 1 /\ malformed = FALSE /\ stage = "configuration"
          /\ native \in Containers /\ policy \in {"Redact", "Include"}
      BY <1>1 DEF Init
    <2>6. stage \in Stages
      BY <2>2 DEF Stages, ToRelationships, ToSecrets, ToDependencies, ToMounts, ToBinds, ToNetworks,
                  ToReferences
    <2>3. fields = [f \in Fields |-> Absent] /\ decoding = [supplied |-> FALSE, malformed |-> FALSE]
      BY <1>1 DEF Init
    <2>4. Record(fields) /\ Decision(decoding)
      BY <2>3 DEF Record, Decision
    <2>7. index \in Nat \ {0}
      BY <2>2
    <2>8. malformed \in BOOLEAN
      BY <2>2, Zenon
    <2> QED
      BY <2>1, <2>2, <2>4, <2>6, <2>7, <2>8 DEF TypeOK
  <1>3. ListsOK
    BY <1>1 DEF Init, ListsOK
  <1>4. Untouched
    BY <1>1 DEF Init, Untouched, Fields
  <1> QED
    BY <1>2, <1>3, <1>4 DEF ShapeInv

LEMMA StageSets ==
    /\ ToReferences = {"configuration", "environment", "references"}
    /\ ToNetworks = {"configuration", "environment", "references", "network_settings", "networks"}
    /\ ToBinds = {"configuration", "environment", "references", "network_settings", "networks",
                  "attachments", "networking", "host_binds", "binds"}
    /\ ToMounts = {"configuration", "environment", "references", "network_settings", "networks",
                   "attachments", "networking", "host_binds", "binds", "mount_list", "mounts"}
    /\ ToDependencies =
         {"configuration", "environment", "references", "network_settings", "networks", "attachments",
          "networking", "host_binds", "binds", "mount_list", "mounts", "command", "scan", "image_hint",
          "correlate", "dependency_list", "dependencies"}
    /\ ToSecrets =
         {"configuration", "environment", "references", "network_settings", "networks", "attachments",
          "networking", "host_binds", "binds", "mount_list", "mounts", "command", "scan", "image_hint",
          "correlate", "dependency_list", "dependencies", "secret_list", "secrets"}
    /\ ToRelationships =
         {"configuration", "environment", "references", "network_settings", "networks", "attachments",
          "networking", "host_binds", "binds", "mount_list", "mounts", "command", "scan", "image_hint",
          "correlate", "dependency_list", "dependencies", "secret_list", "secrets", "relationships"}
    /\ Stages =
         {"configuration", "environment", "references", "network_settings", "networks", "attachments",
          "networking", "host_binds", "binds", "mount_list", "mounts", "command", "scan", "image_hint",
          "correlate", "dependency_list", "dependencies", "secret_list", "secrets", "relationships", "done"}
  BY DEF Stages, ToRelationships, ToSecrets, ToDependencies, ToMounts, ToBinds, ToNetworks, ToReferences

\* The types after the code between two loops, and after a turn.
LEMMA BegunTypes ==
    ASSUME TypeOK, NEW next \in Stages, Begin(next), native' = native, policy' = policy,
           Sequence(relationships'), Sequence(findings'), Record(fields'), Decision(decoding')
    PROVE  TypeOK'
  <1>1. stage' = next /\ index' = 1 /\ decoded' = <<>> /\ malformed' = FALSE
    BY DEF Begin
  <1>2. malformed' \in BOOLEAN
    BY <1>1, Zenon
  <1>3. stage' \in Stages /\ index' \in Nat \ {0}
    BY <1>1
  <1>4. Sequence(decoded')
    BY <1>1, ShortSequences
  <1> QED
    BY <1>2, <1>3, <1>4 DEF TypeOK

LEMMA EnteredTypes ==
    ASSUME TypeOK, NEW s, NEW loop \in Stages, NEW field \in Fields, NEW v, NEW next \in Stages, NEW path,
           Enter(s, loop, field, v, next, path), native' = native, policy' = policy,
           relationships' = relationships, Decision(decoding')
    PROVE  TypeOK'
  <1>1. Sequence(findings') /\ Record(fields')
    BY Entered
  <1>2. Begin(loop) \/ Begin(next)
    BY DEF Enter
  <1>3. Sequence(relationships')
    BY DEF TypeOK
  <1> QED
    BY <1>1, <1>2, <1>3, BegunTypes

LEMMA TurnedTypes ==
    ASSUME TypeOK, NEW s, NEW items, NEW r, Sequence(r.findings), r.bad \in BOOLEAN, Turn(s, items, r),
           Sequence(relationships')
    PROVE  TypeOK'
  <1>1. index' \in Nat \ {0} /\ Sequence(decoded')
    BY Turned
  <1>2. malformed' \in BOOLEAN
    BY Turned
  <1>3. Sequence(findings')
    BY Turned
  <1>4. /\ stage' = stage /\ native' = native /\ policy' = policy /\ fields' = fields
        /\ decoding' = decoding
    BY DEF Turn
  <1> QED
    BY <1>1, <1>2, <1>3, <1>4 DEF TypeOK

LEMMA LeftTypes ==
    ASSUME TypeOK, NEW s, NEW items, NEW field \in Fields, NEW next \in Stages,
           Leave(s, items, field, next), Decision(decoding')
    PROVE  TypeOK'
  <1>1. Record(fields')
    BY Left
  <1>2. /\ Begin(next) /\ native' = native /\ policy' = policy /\ relationships' = relationships
        /\ findings' = findings
    BY DEF Leave
  <1>3. Sequence(relationships') /\ Sequence(findings')
    BY <1>2 DEF TypeOK
  <1> QED
    BY <1>1, <1>2, <1>3, BegunTypes

LEMMA ShapeConfiguration == ShapeInv /\ DecodeConfiguration => ShapeInv'
  <1> SUFFICES ASSUME ShapeInv, DecodeConfiguration
               PROVE  ShapeInv'
    OBVIOUS
  <1> USE DEF ShapeInv
  <1> DEFINE v == IF native.config = "object" THEN native.env
                  ELSE IF native.config = "none" THEN None ELSE Other
             path == IF native.config = "other" THEN "Config" ELSE "Env"
  <1>1. v.json = "array" => native.config = "object" /\ native.env.json = "array"
    BY DEF None, Other
  <1>2. /\ Enter("configuration", "environment", "environment", v, "references", path)
        /\ UNCHANGED <<native, policy, relationships, decoding, relabels, image>>
    BY DEF DecodeConfiguration
  <1>3. /\ "environment" \in Fields /\ "environment" \in Stages /\ "references" \in Stages
    BY StageSets DEF Fields
  <1> HIDE DEF v, path
  <1>9. stage' = IF v.json = "array" THEN "environment" ELSE "references"
    BY <1>2 DEF Enter, Begin
  <1>4. stage = "configuration" /\ stage' = IF v.json = "array" THEN "environment" ELSE "references"
    BY <1>2, <1>3, <1>9, Entered
  <1>5. \A f \in Fields : f # "environment" => fields'[f] = fields[f]
    BY <1>2, <1>3, Entered
  <1>6. TypeOK'
    BY <1>2, <1>3, EnteredTypes DEF TypeOK
  <1>7. ListsOK'
    BY <1>1, <1>2, <1>4 DEF ListsOK
  <1>8. Untouched'
    BY <1>4, <1>5, StageSets DEF Untouched, Fields
  <1> QED
    BY <1>6, <1>7, <1>8

\* A turn of a loop leaves the stage and the fields alone.
LEMMA SameStage ==
    ASSUME ListsOK, Untouched, stage' = stage, native' = native, fields' = fields
    PROVE  ListsOK' /\ Untouched'
  BY DEF ListsOK, Untouched

\* One entry of the environment.
LEMMA EnvironmentEntryFacts ==
    ASSUME NEW entry, NEW k
    PROVE  LET r == EnvironmentEntry(entry, k)
           IN  /\ r.bad \in BOOLEAN /\ Sequence(r.findings)
               /\ r.bad => Paths(r.findings) = {"Env"}
               /\ ~r.bad => /\ r.value.name = entry.name /\ entry.name # ""
                            /\ r.value.value = IF policy = "Redact" THEN "redacted" ELSE entry.value
  <1> DEFINE one == <<Finding("EnvironmentMalformed", "Env", k)>>
  <1>1. Sequence(one) /\ Paths(one) = {"Env"} /\ Sequence(NoFindings)
    BY ShortSequences DEF NoFindings, Finding
  <1> HIDE DEF one
  <1>2. CASE entry.json # "string" \/ ~entry.pair \/ entry.name = ""
    <2>1. EnvironmentEntry(entry, k) = Refused(one)
      BY <1>2 DEF EnvironmentEntry, one
    <2> QED
      BY <1>1, <2>1, TurnFacts
  <1>3. CASE ~(entry.json # "string" \/ ~entry.pair \/ entry.name = "")
    <2> DEFINE value == [name |-> entry.name,
                         value |-> IF policy = "Redact" THEN "redacted" ELSE entry.value]
    <2>1. EnvironmentEntry(entry, k) = Pushes(value, NoFindings)
      BY <1>3 DEF EnvironmentEntry
    <2>3. value.name = entry.name /\ value.value = IF policy = "Redact" THEN "redacted" ELSE entry.value
      OBVIOUS
    <2> HIDE DEF value
    <2>2. entry.name # ""
      BY <1>3, Zenon
    <2> DEFINE r == EnvironmentEntry(entry, k)
    <2>4. ~r.bad /\ r.bad \in BOOLEAN
      BY <2>1, TurnFacts
    <2>5. r.value = value /\ r.findings = NoFindings
      BY <2>1, TurnFacts
    <2> HIDE DEF r
    <2>6. Sequence(r.findings)
      BY <1>1, <2>5
    <2>7. r.value.name = entry.name
      BY <2>3, <2>5
    <2>8. r.value.value = IF policy = "Redact" THEN "redacted" ELSE entry.value
      BY <2>3, <2>5
    <2> QED
      BY <2>2, <2>4, <2>6, <2>7, <2>8, Zenon DEF r
  <1> QED
    BY <1>2, <1>3

LEMMA ShapeEnvironment == ShapeInv /\ DecodeEnvironment => ShapeInv'
  <1> SUFFICES ASSUME ShapeInv, DecodeEnvironment
               PROVE  ShapeInv'
    OBVIOUS
  <1> USE DEF ShapeInv
  <1> DEFINE items == native.env.items
             r == EnvironmentEntry(items[index], index)
  <1>1. CASE Turn("environment", items, r) /\ UNCHANGED relationships
    <2>1. r.bad \in BOOLEAN /\ Sequence(r.findings)
      BY EnvironmentEntryFacts
    <2> HIDE DEF r
    <2>2. TypeOK'
      BY <1>1, <2>1, TurnedTypes DEF TypeOK
    <2> QED
      BY <1>1, <2>2, SameStage DEF Turn
  <1>2. CASE Leave("environment", items, "environment", "references") /\ UNCHANGED decoding
    <2>1. "environment" \in Fields /\ "references" \in Stages
      BY StageSets DEF Fields
    <2> HIDE DEF items
    <2>2. stage = "environment" /\ stage' = "references"
      BY <1>2, <2>1, Left
    <2>3. \A f \in Fields : f # "environment" => fields'[f] = fields[f]
      BY <1>2, <2>1, Left
    <2>4. TypeOK'
      BY <1>2, <2>1, LeftTypes DEF TypeOK
    <2>5. ListsOK'
      BY <2>2 DEF ListsOK
    <2>6. Untouched'
      BY <2>2, <2>3, StageSets DEF Untouched, Fields
    <2> QED
      BY <2>4, <2>5, <2>6
  <1> QED
    BY <1>1, <1>2 DEF DecodeEnvironment

LEMMA ShapeReferences == ShapeInv /\ DecodeReferences => ShapeInv'
  <1> SUFFICES ASSUME ShapeInv, DecodeReferences
               PROVE  ShapeInv'
    OBVIOUS
  <1> USE DEF ShapeInv
  <1> DEFINE local == optional_string_field(native.image)
             configured == optional_string_field(native.image_name)
             pod == decode_native_reference(native.pod)
             Push(kind, f) == IF IsObserved(f) THEN <<Reference(kind, {f.value})>> ELSE <<>>
             a == Push("image", configured)
             b == Push("pod", pod)
             x == Reported(local, "Image", 0)
             y == Reported(configured, "ImageName", 0)
             z == Reported(pod, "Pod", 0)
  <1>1. /\ stage = "references" /\ Begin("network_settings") /\ native' = native /\ policy' = policy
        /\ fields' = With(With(With(fields, "local_image", local), "configured_image", configured), "pod", pod)
        /\ relationships' = a \o b
        /\ decoding' = [supplied |-> configured # Absent \/ pod # Absent,
                        malformed |-> configured = Malformed \/ pod = Malformed]
        /\ findings' = findings \o x \o y \o z
    BY DEF DecodeReferences, With
  <1>2. Sequence(a) /\ Sequence(b)
    BY ShortSequences
  <1>3. Sequence(x) /\ Sequence(y) /\ Sequence(z)
    BY FindingLists
  <1>4. Decision(decoding')
    BY <1>1 DEF Decision
  <1> HIDE DEF local, configured, pod, a, b, x, y, z
  <1>5. {"local_image", "configured_image", "pod"} \subseteq Fields /\ "network_settings" \in Stages
    BY StageSets DEF Fields
  <1>6. Record(fields')
    <2>1. Record(With(fields, "local_image", local))
      BY <1>5, FieldSet DEF TypeOK
    <2>2. Record(With(With(fields, "local_image", local), "configured_image", configured))
      BY <1>5, <2>1, FieldSet
    <2> QED
      BY <1>1, <1>5, <2>2, FieldSet
  <1>7. Sequence(relationships')
    BY <1>1, <1>2, Concatenation
  <1>8. Sequence(findings')
    <2>1. Sequence(findings \o x)
      BY <1>3, Concatenation DEF TypeOK
    <2>2. Sequence(findings \o x \o y)
      BY <1>3, <2>1, Concatenation
    <2> QED
      BY <1>1, <1>3, <2>2, Concatenation
  <1>9. TypeOK'
    BY <1>1, <1>4, <1>5, <1>6, <1>7, <1>8, BegunTypes
  <1>10. stage' = "network_settings"
    BY <1>1 DEF Begin
  <1>11. \A f \in Fields : f \notin {"local_image", "configured_image", "pod"} => fields'[f] = fields[f]
    BY <1>1 DEF With, TypeOK, Record
  <1>12. ListsOK'
    BY <1>10 DEF ListsOK
  <1>13. Untouched'
    BY <1>1, <1>10, <1>11, StageSets DEF Untouched, Fields
  <1> QED
    BY <1>9, <1>12, <1>13

-----------------------------------------------------------------------------
(* What the turns of the other loops decode *)

\* The states of a field.
LEMMA States ==
    /\ Absent.state = "Absent" /\ Malformed.state = "Malformed" /\ Unavailable.state = "Unavailable"
    /\ NotApplicable.state = "NotApplicable"
    /\ \A v : Observed(v).state = "Observed" /\ Observed(v).value = v /\ IsObserved(Observed(v))
    /\ ~IsObserved(Absent) /\ ~IsObserved(Malformed) /\ ~IsObserved(Unavailable)
    /\ ~IsObserved(NotApplicable)
    /\ \A v : Observed(v) # Malformed /\ Observed(v) # Absent /\ Observed(v) # Unavailable
    /\ Absent # Malformed /\ Unavailable # Malformed /\ NotApplicable # Malformed
    /\ Absent # Unavailable
  <1>1. /\ Absent.state = "Absent" /\ Malformed.state = "Malformed" /\ Unavailable.state = "Unavailable"
        /\ NotApplicable.state = "NotApplicable"
        /\ \A v : Observed(v).state = "Observed" /\ Observed(v).value = v
    BY DEF Absent, Malformed, Unavailable, NotApplicable, Observed
  <1>2. \A v : IsObserved(Observed(v))
    BY <1>1 DEF IsObserved
  <1>3. /\ ~IsObserved(Absent) /\ ~IsObserved(Malformed) /\ ~IsObserved(Unavailable)
        /\ ~IsObserved(NotApplicable)
    BY <1>1 DEF IsObserved
  <1> HIDE DEF Absent, Malformed, Unavailable, NotApplicable, Observed
  <1>4. /\ \A v : Observed(v) # Malformed /\ Observed(v) # Absent /\ Observed(v) # Unavailable
        /\ Absent # Malformed /\ Unavailable # Malformed /\ NotApplicable # Malformed
        /\ Absent # Unavailable
    BY <1>1
  <1> QED
    BY <1>1, <1>2, <1>3, <1>4

\* One member of NetworkSettings.Networks.
NetworkTurn(network, k) ==
    IF BadAttachment(network) THEN Refused(Bad("Networks", k)) ELSE Pushes(network.name, NoFindings)

LEMMA NetworkTurnFacts ==
    ASSUME NEW network, NEW k
    PROVE  LET r == NetworkTurn(network, k)
           IN  /\ r.bad \in BOOLEAN /\ Sequence(r.findings)
               /\ r.bad <=> BadAttachment(network)
               /\ r.bad => Paths(r.findings) = {"Networks"}
               /\ ~r.bad => r.value = network.name
  <1> DEFINE r == NetworkTurn(network, k)
  <1>1. CASE BadAttachment(network)
    <2>1. r = Refused(Bad("Networks", k))
      BY <1>1 DEF NetworkTurn
    <2> HIDE DEF r
    <2>2. r.bad /\ r.bad \in BOOLEAN
      BY <2>1, TurnFacts
    <2>3. Sequence(r.findings) /\ Paths(r.findings) = {"Networks"}
      BY <2>1, TurnFacts, FindingLists
    <2> QED
      BY <1>1, <2>2, <2>3, Zenon DEF r
  <1>2. CASE ~BadAttachment(network)
    <2>1. r = Pushes(network.name, NoFindings)
      BY <1>2 DEF NetworkTurn
    <2> HIDE DEF r
    <2>2. ~r.bad /\ r.bad \in BOOLEAN
      BY <2>1, TurnFacts
    <2>3. Sequence(r.findings) /\ r.value = network.name
      BY <2>1, TurnFacts, FindingLists
    <2> QED
      BY <1>2, <2>2, <2>3, Zenon DEF r
  <1> QED
    BY <1>1, <1>2

\* The aliases of an attachment.
LEMMA AliasFacts ==
    ASSUME NEW aliases, NEW k
    PROVE  Sequence(decode_container_network_aliases(aliases, k).findings)
  <1> DEFINE x == IF aliases = None THEN NoFindings ELSE Bad("Aliases", k)
  <1>1. Sequence(x) /\ Sequence(Bad("Aliases", k)) /\ Sequence(NoFindings)
    BY FindingLists
  <1>2. decode_container_network_aliases(aliases, k).findings \in {x, Bad("Aliases", k), NoFindings}
    BY DEF decode_container_network_aliases
  <1> HIDE DEF x
  <1> QED
    BY <1>1, <1>2

\* The relabel of a mount is malformed where it is reported, or where the
\* entries of HostConfig.Binds are.
LEMMA RelabelFacts ==
    ASSUME NEW mount, NEW kind, NEW source, NEW destination
    PROVE  LET r == decode_mount_selinux_relabel(mount, kind, source, destination)
           IN  r.field = Malformed => r.reported = TRUE \/ fields["binds"] = Malformed
  <1> DEFINE r == decode_mount_selinux_relabel(mount, kind, source, destination)
             mode == IF mount.mode = None THEN "none"
                     ELSE IF mount.mode = Other THEN "conflict" ELSE relabel_from_tokens(mount.mode.tokens)
             binds == IF kind = "bind" THEN fields["binds"] ELSE Observed(<<>>)
             ForMount == {j \in DOMAIN binds.value : /\ IsObserved(destination)
                                                     /\ binds.value[j].source = source
                                                     /\ binds.value[j].destination = destination.value}
             bind == IF ForMount = {} THEN "none" ELSE binds.value[CHOOSE j \in ForMount : TRUE].relabel
             last == [field |-> IF mode # "none" THEN Observed(mode)
                                ELSE IF bind # "none" THEN Observed(bind) ELSE Absent,
                      reported |-> FALSE]
  <1>1. r = IF mode = "conflict" THEN [field |-> Malformed, reported |-> TRUE]
            ELSE IF binds = Malformed THEN [field |-> Malformed, reported |-> FALSE]
            ELSE IF mode # "none" /\ bind # "none" /\ mode # bind
            THEN [field |-> Malformed, reported |-> TRUE]
            ELSE last
    BY DEF decode_mount_selinux_relabel
  <1>2. last.field # Malformed
    BY States
  <1>3. binds = Malformed => fields["binds"] = Malformed
    BY States
  <1> HIDE DEF mode, binds, bind, last, r
  <1>4. r = last \/ r.reported = TRUE \/ binds = Malformed
    BY <1>1
  <1> QED
    BY <1>2, <1>3, <1>4 DEF r

\* What a member of Mounts is decoded to, if it is.
Decodes(mount, value) ==
    LET kind == mount.type.text
        destination == optional_observed_string(mount.destination)
        source == IF kind = "volume" THEN mount.name ELSE mount.source
        relabel == decode_mount_selinux_relabel(mount, kind, source.text, destination)
    IN  /\ mount.json = "object" /\ mount.type.json = "string" /\ kind \in {"volume", "bind"}
        /\ source.json = "string" /\ source.text # ""
        /\ destination # Malformed /\ relabel.field # Malformed
        /\ value = [kind |-> kind, source |-> source.text, destination |-> destination,
                    relabel |-> relabel.field]

LEMMA MountTurnFacts ==
    ASSUME NEW mount, IsMount(mount), NEW k
    PROVE  LET r == MountTurn(mount, k)
           IN  /\ r.bad \in BOOLEAN /\ Sequence(r.findings)
               /\ r.bad => "Mounts" \in Paths(r.findings) \/ fields["binds"] = Malformed
               /\ ~r.bad => Decodes(mount, r.value)
  <1> DEFINE r == MountTurn(mount, k)
             kind == mount.type.text
             destination == optional_observed_string(mount.destination)
             source == IF kind = "volume" THEN mount.name ELSE mount.source
             backing == IF kind = "volume" THEN optional_observed_string(mount.source) ELSE Absent
             relabel == decode_mount_selinux_relabel(mount, kind, source.text, destination)
             a == Reported(backing, "Mounts", k)
             b == Members("Mounts", mount.members, {"RW", "Options"}, k)
             c == IF relabel.reported THEN Bad("Mounts", k) ELSE NoFindings
             d == Members("Mounts", mount.members, {"Propagation", "SubPath"}, k)
             e == Reported(destination, "Mounts", k)
             one == Bad("Mounts", k)
             other == <<Finding("NativeFieldUnsupported", "Mounts", k)>>
             broken == \/ Malformed \in {destination, backing, relabel.field}
                       \/ \E m \in DOMAIN mount.members : mount.members[m] = "bad"
             value == [kind |-> kind, source |-> source.text, destination |-> destination,
                       relabel |-> relabel.field]
  <1>1. r = IF mount.json # "object" \/ mount.type.json # "string" THEN Refused(one)
            ELSE IF kind \notin {"volume", "bind"} THEN Refused(other)
            ELSE IF source.json # "string" THEN Refused(e \o one)
            ELSE IF source.text = "" THEN Refused(e \o one)
            ELSE IF broken THEN Refused(e \o (a \o b \o c \o d))
            ELSE Pushes(value, NoFindings)
    BY DEF MountTurn
  <1>2. /\ Sequence(a) /\ Sequence(e) /\ Sequence(one) /\ Sequence(c)
        /\ Paths(one) = {"Mounts"}
        /\ backing = Malformed => Paths(a) = {"Mounts"}
        /\ destination = Malformed => Paths(e) = {"Mounts"}
    BY FindingLists
  <1>3. relabel.reported = TRUE => Paths(c) = {"Mounts"}
    BY FindingLists
  <1>4. relabel.field = Malformed => relabel.reported = TRUE \/ fields["binds"] = Malformed
    BY RelabelFacts
  <1>5. Sequence(other) /\ Paths(other) = {"Mounts"}
    BY ShortSequences DEF Finding
  <1>6. IsFiniteSet({"RW", "Options"}) /\ IsFiniteSet({"Propagation", "SubPath"})
    BY SmallSets
  <1>7. /\ Sequence(b) /\ Sequence(d)
        /\ (\E m \in {"RW", "Options"} : mount.members[m] = "bad") => "Mounts" \in Paths(b)
        /\ (\E m \in {"Propagation", "SubPath"} : mount.members[m] = "bad") => "Mounts" \in Paths(d)
    BY <1>6, MemberFindings
  <1>8. mount.json = "object" => DOMAIN mount.members = {"RW", "Options"} \cup {"Propagation", "SubPath"}
    BY DEF IsMount, MountMembers
  <1>9. Sequence(e \o one) /\ Paths(e \o one) = Paths(e) \cup {"Mounts"}
    BY <1>2, Concatenation
  <1>10. /\ Sequence(e \o (a \o b \o c \o d))
         /\ Paths(e \o (a \o b \o c \o d)) = Paths(e) \cup Paths(a) \cup Paths(b) \cup Paths(c) \cup Paths(d)
    <2> HIDE DEF a, b, c, d, e
    <2>1. Sequence(a \o b) /\ Paths(a \o b) = Paths(a) \cup Paths(b)
      BY <1>2, <1>7, Concatenation
    <2>2. Sequence(a \o b \o c) /\ Paths(a \o b \o c) = Paths(a) \cup Paths(b) \cup Paths(c)
      BY <1>2, <2>1, Concatenation
    <2>3. /\ Sequence(a \o b \o c \o d)
          /\ Paths(a \o b \o c \o d) = Paths(a) \cup Paths(b) \cup Paths(c) \cup Paths(d)
      BY <1>7, <2>2, Concatenation
    <2> QED
      BY <1>2, <2>3, Concatenation
  <1>11. mount.json = "object" /\ broken =>
           "Mounts" \in Paths(e \o (a \o b \o c \o d)) \/ fields["binds"] = Malformed
    <2> HIDE DEF a, b, c, d, e, relabel, destination, backing
    <2>1. SUFFICES ASSUME mount.json = "object", broken
                   PROVE  "Mounts" \in Paths(e \o (a \o b \o c \o d)) \/ fields["binds"] = Malformed
      OBVIOUS
    <2>2. CASE \E m \in DOMAIN mount.members : mount.members[m] = "bad"
      BY <1>7, <1>8, <1>10, <2>1, <2>2
    <2>3. CASE Malformed \in {destination, backing, relabel.field}
      BY <1>2, <1>3, <1>4, <1>10, <2>3
    <2> QED
      BY <2>1, <2>2, <2>3
  <1> DEFINE all == e \o (a \o b \o c \o d)
             two == e \o one
  <1> HIDE DEF a, b, c, d, e, one, other, r, all, two
  <1>12. CASE mount.json # "object" \/ mount.type.json # "string"
    <2>1. r = Refused(one)
      BY <1>1, <1>12
    <2> QED
      BY <1>2, <2>1, TurnFacts DEF r
  <1>13. CASE ~(mount.json # "object" \/ mount.type.json # "string") /\ kind \notin {"volume", "bind"}
    <2>1. r = Refused(other)
      BY <1>1, <1>13
    <2> QED
      BY <1>5, <2>1, TurnFacts DEF r
  <1>14. CASE /\ ~(mount.json # "object" \/ mount.type.json # "string") /\ kind \in {"volume", "bind"}
              /\ source.json # "string" \/ source.text = ""
    <2>1. r = Refused(two)
      BY <1>1, <1>14 DEF two
    <2> QED
      BY <1>9, <2>1, TurnFacts DEF r, two
  <1>15. CASE /\ ~(mount.json # "object" \/ mount.type.json # "string") /\ kind \in {"volume", "bind"}
              /\ source.json = "string" /\ source.text # "" /\ broken
    <2>1. r = Refused(all)
      BY <1>1, <1>15 DEF all
    <2>2. "Mounts" \in Paths(all) \/ fields["binds"] = Malformed
      BY <1>11, <1>15 DEF all
    <2>3. Sequence(all)
      BY <1>10 DEF all
    <2> QED
      BY <2>1, <2>2, <2>3, TurnFacts DEF r
  <1>16. CASE /\ ~(mount.json # "object" \/ mount.type.json # "string") /\ kind \in {"volume", "bind"}
              /\ source.json = "string" /\ source.text # "" /\ ~broken
    <2>1. r = Pushes(value, NoFindings)
      BY <1>1, <1>16
    <2>2. Decodes(mount, value)
      BY <1>16 DEF Decodes
    <2> HIDE DEF value
    <2>3. ~r.bad /\ r.bad \in BOOLEAN /\ r.findings = NoFindings /\ r.value = value
      BY <2>1, TurnFacts
    <2>4. Sequence(NoFindings)
      BY FindingLists
    <2>5. Decodes(mount, r.value)
      BY <2>2, <2>3
    <2>6. Sequence(r.findings)
      BY <2>3, <2>4
    <2> QED
      BY <2>3, <2>5, <2>6, Zenon DEF r
  <1> QED
    BY <1>12, <1>13, <1>14, <1>15, <1>16, Zenon

LEMMA SecretTurnFacts ==
    ASSUME NEW secret, IsGrant(secret), NEW k
    PROVE  LET r == SecretTurn(secret, k)
           IN  /\ r.bad \in BOOLEAN /\ Sequence(r.findings)
               /\ r.bad => "Secrets" \in Paths(r.findings)
               /\ ~r.bad => r.value = ValueOf(decode_native_reference(secret.id))
                                      \cup ValueOf(decode_native_reference(secret.name))
  <1> DEFINE r == SecretTurn(secret, k)
             id == decode_native_reference(secret.id)
             name == decode_native_reference(secret.name)
             references == {f.value : f \in {g \in {id, name} : IsObserved(g)}}
             unnamed == references = {} \/ Malformed \in {id, name}
             a == Reported(id, "Secrets", k)
             b == Reported(name, "Secrets", k)
             c == IF unnamed THEN Bad("Secrets", k) ELSE NoFindings
             d == Members("Secrets", secret.members, GrantMembers, k)
             one == Bad("Secrets", k)
             reported == a \o b \o c \o d
             broken == unnamed \/ \E m \in DOMAIN secret.members : secret.members[m] = "bad"
  <1>1. r = IF secret.json # "object" THEN Refused(one)
            ELSE IF broken THEN Refused(reported)
            ELSE Pushes(references, NoFindings)
    BY DEF SecretTurn
  <1>2. /\ Sequence(a) /\ Sequence(b) /\ Sequence(c) /\ Sequence(one)
        /\ Paths(one) = {"Secrets"} /\ (unnamed => Paths(c) = {"Secrets"})
    BY FindingLists
  <1>3. IsFiniteSet(GrantMembers)
    BY SmallSets DEF GrantMembers
  <1>4. /\ Sequence(d)
        /\ (\E m \in GrantMembers : secret.members[m] = "bad") => "Secrets" \in Paths(d)
    BY <1>3, MemberFindings
  <1>5. secret.json = "object" => DOMAIN secret.members = GrantMembers
    BY DEF IsGrant
  <1>6. references = ValueOf(id) \cup ValueOf(name)
    BY DEF ValueOf
  <1> HIDE DEF a, b, c, d, one, unnamed, references, r
  <1>7. /\ Sequence(reported)
        /\ Paths(reported) = Paths(a) \cup Paths(b) \cup Paths(c) \cup Paths(d)
    <2>1. Sequence(a \o b) /\ Paths(a \o b) = Paths(a) \cup Paths(b)
      BY <1>2, Concatenation
    <2>2. Sequence(a \o b \o c) /\ Paths(a \o b \o c) = Paths(a) \cup Paths(b) \cup Paths(c)
      BY <1>2, <2>1, Concatenation
    <2> QED
      BY <1>4, <2>2, Concatenation
  <1>8. secret.json = "object" /\ broken => "Secrets" \in Paths(reported)
    BY <1>2, <1>4, <1>5, <1>7
  <1> HIDE DEF reported, broken
  <1>9. CASE secret.json # "object"
    <2>1. r = Refused(one)
      BY <1>1, <1>9
    <2> QED
      BY <1>2, <2>1, TurnFacts DEF r
  <1>10. CASE secret.json = "object" /\ broken
    <2>1. r = Refused(reported)
      BY <1>1, <1>10
    <2> QED
      BY <1>7, <1>8, <1>10, <2>1, TurnFacts DEF r
  <1>11. CASE secret.json = "object" /\ ~broken
    <2>1. r = Pushes(references, NoFindings)
      BY <1>1, <1>11
    <2>2. ~r.bad /\ r.bad \in BOOLEAN /\ r.findings = NoFindings /\ r.value = references
      BY <2>1, TurnFacts
    <2>3. Sequence(r.findings)
      BY <2>2, FindingLists
    <2>4. r.value = ValueOf(id) \cup ValueOf(name)
      BY <1>6, <2>2
    <2> QED
      BY <2>2, <2>3, <2>4, Zenon DEF r
  <1> QED
    BY <1>9, <1>10, <1>11

\* One entry of HostConfig.Binds, after the ones in decoded.
LEMMA BindTurnFacts ==
    ASSUME NEW bind, NEW k
    PROVE  LET r == BindTurn(bind, k)
               Same(e) == e.source = bind.mount[1] /\ e.destination = bind.mount[2]
           IN  /\ r.bad \in BOOLEAN /\ Sequence(r.findings)
               /\ r.bad => Paths(r.findings) = {"Binds"}
               /\ ~r.bad => Sequence(r.value) /\ BindEntry(bind) # "bad"
               /\ ~r.bad =>
                    \/ BindEntry(bind) = "skip" /\ r.value = <<>>
                    \/ /\ BindEntry(bind) # "skip" /\ r.value = <<>>
                       /\ \E j \in DOMAIN decoded :
                            Same(decoded[j]) /\ decoded[j].relabel = relabel_from_tokens(bind.tokens)
                    \/ /\ BindEntry(bind) # "skip" /\ ~\E j \in DOMAIN decoded : Same(decoded[j])
                       /\ r.value = <<[source |-> bind.mount[1], destination |-> bind.mount[2],
                                       relabel |-> relabel_from_tokens(bind.tokens)]>>
  <1> DEFINE r == BindTurn(bind, k)
             relabel == relabel_from_tokens(bind.tokens)
             previous == {j \in DOMAIN decoded : /\ decoded[j].source = bind.mount[1]
                                                 /\ decoded[j].destination = bind.mount[2]}
             one == Bad("Binds", k)
             entry == <<[source |-> bind.mount[1], destination |-> bind.mount[2], relabel |-> relabel]>>
             refused == \/ BindEntry(bind) = "bad"
                        \/ BindEntry(bind) # "skip" /\ \E j \in previous : decoded[j].relabel # relabel
  <1>1. r = IF refused THEN Refused(one)
            ELSE IF BindEntry(bind) = "skip" THEN Pushes(<<>>, NoFindings)
            ELSE IF previous # {} THEN Pushes(<<>>, NoFindings)
            ELSE Pushes(entry, NoFindings)
    BY DEF BindTurn
  <1>2. Sequence(one) /\ Paths(one) = {"Binds"} /\ Sequence(NoFindings)
    BY FindingLists
  <1>3. Sequence(entry) /\ Sequence(<<>>)
    BY ShortSequences
  <1> HIDE DEF r, one
  <1>4. CASE refused
    <2>1. r = Refused(one)
      BY <1>1, <1>4
    <2> QED
      BY <1>2, <2>1, TurnFacts DEF r
  <1>5. CASE ~refused /\ BindEntry(bind) = "skip"
    <2>1. r = Pushes(<<>>, NoFindings)
      BY <1>1, <1>5
    <2>2. ~r.bad /\ r.bad \in BOOLEAN /\ r.findings = NoFindings /\ r.value = <<>>
      BY <2>1, TurnFacts
    <2>3. BindEntry(bind) # "bad"
      BY <1>5
    <2>4. Sequence(r.findings) /\ Sequence(r.value)
      BY <1>2, <1>3, <2>2
    <2> QED
      BY <1>5, <2>2, <2>3, <2>4, Zenon DEF r
  <1>6. CASE ~refused /\ BindEntry(bind) # "skip" /\ previous # {}
    <2>1. r = Pushes(<<>>, NoFindings)
      BY <1>1, <1>6
    <2>2. ~r.bad /\ r.bad \in BOOLEAN /\ r.findings = NoFindings /\ r.value = <<>>
      BY <2>1, TurnFacts
    <2>3. BindEntry(bind) # "bad"
      BY <1>6
    <2>4. Sequence(r.findings) /\ Sequence(r.value)
      BY <1>2, <1>3, <2>2
    <2>5. \E j \in DOMAIN decoded : /\ decoded[j].source = bind.mount[1] /\ decoded[j].destination = bind.mount[2]
                                    /\ decoded[j].relabel = relabel
      BY <1>6
    <2> HIDE DEF refused
    <2> QED
      BY <1>6, <2>2, <2>3, <2>4, <2>5, Zenon DEF r
  <1>7. CASE ~refused /\ BindEntry(bind) # "skip" /\ previous = {}
    <2>1. r = Pushes(entry, NoFindings)
      BY <1>1, <1>7
    <2> HIDE DEF entry
    <2>2. ~r.bad /\ r.bad \in BOOLEAN /\ r.findings = NoFindings /\ r.value = entry
      BY <2>1, TurnFacts
    <2>3. BindEntry(bind) # "bad"
      BY <1>7
    <2>4. Sequence(r.findings) /\ Sequence(r.value)
      BY <1>2, <1>3, <2>2
    <2>5. ~\E j \in DOMAIN decoded : decoded[j].source = bind.mount[1] /\ decoded[j].destination = bind.mount[2]
      BY <1>7
    <2> HIDE DEF refused
    <2> QED
      BY <1>7, <2>2, <2>3, <2>4, <2>5, Zenon DEF r, entry
  <1> QED
    BY <1>4, <1>5, <1>6, <1>7

-----------------------------------------------------------------------------
(* What the code between the loops does *)

\* Begin resets the loop's variables.
LEMMA Begun ==
    ASSUME NEW next, Begin(next)
    PROVE  stage' = next /\ index' = 1 /\ decoded' = <<>> /\ ~malformed'
  <1>1. malformed' = FALSE
    BY DEF Begin
  <1>2. ~malformed'
    BY <1>1, Zenon
  <1> QED
    BY <1>2 DEF Begin

\* A list of findings is added.
LEMMA Told1 ==
    ASSUME TypeOK, NEW fs, Sequence(fs), findings' = findings \o fs
    PROVE  Sequence(findings') /\ Paths(findings') = Paths(findings) \cup Paths(fs)
  BY Concatenation DEF TypeOK

LEMMA NetworkSettingsEffect ==
    ASSUME TypeOK, DecodeNetworkSettings
    PROVE  /\ stage = "network_settings" /\ native' = native /\ policy' = policy
           /\ relationships' = relationships /\ TypeOK'
           /\ \A f \in Fields \ {"networks", "attachments"} : fields'[f] = fields[f]
           /\ \/ /\ IsObserved(fields["pod"]) /\ Begin("networking")
                 /\ fields'["networks"] = NotApplicable /\ fields'["attachments"] = NotApplicable
                 /\ findings' = findings /\ decoding' = decoding
              \/ /\ ~IsObserved(fields["pod"]) /\ native.settings = "object" /\ native.networks.json = "array"
                 /\ Begin("networks") /\ fields' = fields /\ findings' = findings /\ decoding' = decoding
              \/ /\ ~IsObserved(fields["pod"])
                 /\ native.settings # "object" \/ native.networks.json # "array"
                 /\ Begin("networking")
                 /\ fields'["networks"] = Absent /\ fields'["attachments"] = Absent
                 /\ Paths(findings') = Paths(findings) /\ Merge(FALSE, FALSE)
              \/ /\ ~IsObserved(fields["pod"])
                 /\ native.settings # "object" \/ native.networks.json # "array"
                 /\ Begin("networking")
                 /\ fields'["networks"] = Malformed /\ fields'["attachments"] = Malformed
                 /\ \E path \in {"NetworkSettings", "Networks"} :
                      Paths(findings') = Paths(findings) \cup {path}
                 /\ Merge(TRUE, TRUE)
  <1> DEFINE path == IF native.settings = "other" THEN "NetworkSettings" ELSE "Networks"
             networks == IF native.settings = "other" THEN Other
                         ELSE IF native.settings = "none" THEN None ELSE native.networks
             Set(v) == With(With(fields, "networks", v), "attachments", v)
  <1>1. {"networks", "attachments"} \subseteq Fields /\ {"networking", "networks"} \subseteq Stages
    BY StageSets DEF Fields
  <1>2. /\ stage = "network_settings" /\ native' = native /\ policy' = policy
        /\ relationships' = relationships
    BY DEF DecodeNetworkSettings
  <1>3. ASSUME NEW v
        PROVE  /\ Record(Set(v)) /\ Set(v)["networks"] = v /\ Set(v)["attachments"] = v
               /\ \A f \in Fields \ {"networks", "attachments"} : Set(v)[f] = fields[f]
    <2> DEFINE g == With(fields, "networks", v)
    <2>1. /\ Record(g) /\ g["networks"] = v
          /\ \A f \in Fields : f # "networks" => g[f] = fields[f]
      BY <1>1, FieldSet DEF TypeOK
    <2> HIDE DEF g
    <2>2. /\ Record(With(g, "attachments", v)) /\ With(g, "attachments", v)["attachments"] = v
          /\ \A f \in Fields : f # "attachments" => With(g, "attachments", v)[f] = g[f]
      BY <1>1, <2>1, FieldSet
    <2> QED
      BY <1>1, <2>1, <2>2 DEF g
  <1>4. native.settings \in {"none", "object", "other"}
    BY ContainersAssumption DEF TypeOK
  <1>5. networks.json = "array" => native.settings = "object" /\ native.networks.json = "array"
    BY <1>4 DEF None, Other
  <1>5a. networks.json # "array" => native.settings # "object" \/ native.networks.json # "array"
    BY <1>4
  <1>6. CASE IsObserved(fields["pod"])
    <2>1. /\ fields' = Set(NotApplicable) /\ Begin("networking") /\ findings' = findings
          /\ decoding' = decoding
      BY <1>6 DEF DecodeNetworkSettings, With
    <2>2. TypeOK'
      BY <1>1, <1>2, <1>3, <2>1, BegunTypes DEF TypeOK
    <2> QED
      BY <1>2, <1>3, <1>6, <2>1, <2>2
  <1>7. CASE ~IsObserved(fields["pod"]) /\ networks.json = "array"
    <2>1. fields' = fields /\ Begin("networks") /\ findings' = findings /\ decoding' = decoding
      BY <1>7 DEF DecodeNetworkSettings
    <2>2. TypeOK'
      BY <1>1, <1>2, <2>1, BegunTypes DEF TypeOK
    <2> QED
      BY <1>2, <1>5, <1>7, <2>1, <2>2
  <1>8. CASE ~IsObserved(fields["pod"]) /\ networks.json # "array"
    <2> DEFINE state == IF networks = None THEN Absent ELSE Malformed
    <2>1. /\ fields' = Set(state) /\ Begin("networking")
          /\ findings' = findings \o Reported(state, path, 0)
          /\ Merge(state = Malformed, state = Malformed)
      BY <1>8 DEF DecodeNetworkSettings, With
    <2>2. state = Absent \/ state = Malformed
      OBVIOUS
    <2>3. /\ Sequence(Reported(state, path, 0))
          /\ state = Malformed => Paths(Reported(state, path, 0)) = {path}
          /\ state # Malformed => Paths(Reported(state, path, 0)) = {}
      BY FindingLists
    <2>4. path \in {"NetworkSettings", "Networks"}
      OBVIOUS
    <2>5. Decision(decoding')
      BY <2>1 DEF Merge, Decision, TypeOK
    <2> HIDE DEF state, path, networks
    <2>6. Sequence(findings') /\ Paths(findings') = Paths(findings) \cup Paths(Reported(state, path, 0))
      BY <2>1, <2>3, Told1
    <2>7. TypeOK'
      BY <1>1, <1>2, <1>3, <2>1, <2>5, <2>6, BegunTypes DEF TypeOK
    <2>8. CASE state = Absent
      <3>1. Paths(findings') = Paths(findings)
        BY <2>3, <2>6, <2>8, States
      <3>2. Merge(FALSE, FALSE)
        BY <2>1, <2>8, States DEF Merge
      <3> QED
        BY <1>2, <1>3, <1>5a, <1>8, <2>1, <2>7, <2>8, <3>1, <3>2
    <2>9. CASE state = Malformed
      <3>1. Paths(findings') = Paths(findings) \cup {path}
        BY <2>3, <2>6, <2>9
      <3>2. Merge(TRUE, TRUE)
        BY <2>1, <2>9 DEF Merge
      <3> QED
        BY <1>2, <1>3, <1>5a, <1>8, <2>1, <2>4, <2>7, <2>9, <3>1, <3>2
    <2> QED
      BY <2>2, <2>8, <2>9
  <1> QED
    BY <1>6, <1>7, <1>8

\* A list that is no array is missing or of another type.
LEMMA Lists ==
    ASSUME NEW v, IsList(v)
    PROVE  /\ v.json = "array" => Sequence(v.items) /\ v # None /\ v # Other
           /\ v.json # "array" => v \in {None, Other}
           /\ None # Other /\ None.json = "none" /\ Other.json = "other"
           /\ v.json # "array" /\ v # None => v = Other
  <1>1. None # Other /\ None.json = "none" /\ Other.json = "other"
    <2>1. None.json = "none" /\ Other.json = "other"
      BY DEF None, Other
    <2> HIDE DEF None, Other
    <2> QED
      BY <2>1
  <1>2. Array(v.items).json = "array"
    BY DEF Array
  <1>3. v \in {None, Other} \/ (v = Array(v.items) /\ Sequence(v.items))
    BY DEF IsList
  <1> QED
    BY <1>1, <1>2, <1>3

\* The members of a response that are lists.
LEMMA NativeLists ==
    ASSUME TypeOK
    PROVE  /\ IsList(native.env) /\ IsList(native.networks) /\ IsList(native.mounts)
           /\ IsList(native.command) /\ IsList(native.dependencies) /\ IsList(native.secrets)
           /\ IsList(native.host.binds)
           /\ native.config \in {"none", "object", "other"} /\ native.settings \in {"none", "object", "other"}
           /\ native.host.json \in {"none", "object", "other"}
  BY ContainersAssumption DEF TypeOK

LEMMA NetworkingFacts ==
    ASSUME TypeOK
    PROVE  /\ Sequence(decode_container_networking.findings)
           /\ decode_container_networking.field = Malformed =>
                "HostConfig" \in Paths(decode_container_networking.findings) \/ fields["networks"] = Malformed
  <1> DEFINE r == decode_container_networking
             members == native.host.members
             read == HostMembers \ Unmanaged(members)
             failing == read \ {"NoManageResolvConf", "NoManageHosts"}
             bad == \E m \in failing : members[m] = "bad"
             fs == IF native.host.json = "object" /\ \E m \in DOMAIN members : members[m] # "absent"
                   THEN <<Finding("NativeFieldUnsupported", "HostConfig", 0)>> ELSE NoFindings
             gs == Members("HostConfig", members, read, 0)
             last == IF native.host.json = "none" /\ fields["networks"] = Absent THEN Absent
                     ELSE Observed([networks |-> fields["networks"], attachments |-> fields["attachments"]])
             state == IF bad \/ fields["networks"] = Malformed THEN Malformed ELSE last
  <1>1. IsFiniteSet(read)
    <2>1. HostMembers = {"CreateNetNS", "NoManageResolvConf", "NoManageHosts"}
                        \cup {"PortBindings", "Dns", "DnsSearch"} \cup {"DnsOptions", "ExtraHosts"}
      BY DEF HostMembers
    <2>2. IsFiniteSet(HostMembers)
      BY <2>1, SmallSets, FS_Union
    <2> QED
      BY <2>2, FS_Subset
  <1>2. Sequence(gs) /\ (bad => "HostConfig" \in Paths(gs))
    <2>1. failing \subseteq read
      OBVIOUS
    <2> HIDE DEF read, failing
    <2>2. Sequence(gs) /\ ((\E m \in read : members[m] = "bad") => "HostConfig" \in Paths(gs))
      BY <1>1, MemberFindings
    <2> QED
      BY <2>1, <2>2
  <1>3. Sequence(fs)
    BY ShortSequences, FindingLists
  <1>4. Sequence(Bad("HostConfig", 0)) /\ Paths(Bad("HostConfig", 0)) = {"HostConfig"}
    BY FindingLists
  <1>5. last # Malformed
    BY States
  <1>6. r = IF IsObserved(fields["pod"]) THEN [field |-> NotApplicable, findings |-> fs]
            ELSE IF native.host.json = "other"
            THEN [field |-> Malformed, findings |-> Bad("HostConfig", 0)]
            ELSE [field |-> state, findings |-> gs]
    BY DEF decode_container_networking
  <1>7. state = Malformed => bad \/ fields["networks"] = Malformed
    BY <1>5
  <1> HIDE DEF r, fs, gs, bad, last, state
  <1>8. CASE IsObserved(fields["pod"])
    <2>1. r.field = NotApplicable /\ r.findings = fs
      BY <1>6, <1>8
    <2> QED
      BY <1>3, <2>1, States DEF r
  <1>9. CASE ~IsObserved(fields["pod"]) /\ native.host.json = "other"
    <2>1. r.findings = Bad("HostConfig", 0)
      BY <1>6, <1>9
    <2> QED
      BY <1>4, <2>1 DEF r
  <1>10. CASE ~IsObserved(fields["pod"]) /\ native.host.json # "other"
    <2>1. r.field = state /\ r.findings = gs
      BY <1>6, <1>10
    <2> QED
      BY <1>2, <1>7, <2>1 DEF r
  <1> QED
    BY <1>8, <1>9, <1>10

LEMMA NetworkingEffect ==
    ASSUME TypeOK, DecodeNetworking
    PROVE  /\ stage = "networking" /\ native' = native /\ policy' = policy /\ Begin("host_binds")
           /\ relationships' = relationships /\ decoding' = decoding /\ TypeOK'
           /\ \A f \in Fields \ {"networking"} : fields'[f] = fields[f]
           /\ Paths(findings) \subseteq Paths(findings')
           /\ fields'["networking"] = Malformed =>
                "HostConfig" \in Paths(findings') \/ fields["networks"] = Malformed
  <1> DEFINE r == decode_container_networking
  <1>1. /\ stage = "networking" /\ native' = native /\ policy' = policy /\ Begin("host_binds")
        /\ relationships' = relationships /\ decoding' = decoding
        /\ fields' = With(fields, "networking", r.field) /\ findings' = findings \o r.findings
    BY DEF DecodeNetworking, With
  <1>2. Sequence(r.findings) /\ (r.field = Malformed => "HostConfig" \in Paths(r.findings)
                                                       \/ fields["networks"] = Malformed)
    BY NetworkingFacts
  <1>3. "networking" \in Fields /\ "host_binds" \in Stages
    BY StageSets DEF Fields
  <1> HIDE DEF r
  <1>4. Sequence(findings') /\ Paths(findings') = Paths(findings) \cup Paths(r.findings)
    BY <1>1, <1>2, Told1
  <1>5. /\ Record(fields') /\ fields'["networking"] = r.field
        /\ \A f \in Fields : f # "networking" => fields'[f] = fields[f]
    BY <1>1, <1>3, FieldSet DEF TypeOK
  <1>6. TypeOK'
    BY <1>1, <1>3, <1>4, <1>5, BegunTypes DEF TypeOK
  <1> QED
    BY <1>1, <1>2, <1>4, <1>5, <1>6

LEMMA HostBindsEffect ==
    ASSUME TypeOK, DecodeHostBinds
    PROVE  /\ stage = "host_binds" /\ native' = native /\ policy' = policy
           /\ relationships' = relationships /\ decoding' = decoding /\ TypeOK'
           /\ \A f \in Fields \ {"binds"} : fields'[f] = fields[f]
           /\ index' = 1 /\ decoded' = <<>> /\ ~malformed'
           /\ \/ /\ native.host.json = "object" /\ native.host.binds.json = "array" /\ stage' = "binds"
                 /\ fields' = fields /\ findings' = findings
              \/ /\ native.host.json # "object" \/ native.host.binds = None
                 /\ stage' = "mount_list"
                 /\ fields'["binds"] = Observed(<<>>) /\ findings' = findings
              \/ /\ native.host.json = "object" /\ native.host.binds = Other /\ stage' = "mount_list"
                 /\ fields'["binds"] = Malformed /\ Paths(findings') = Paths(findings) \cup {"Binds"}
  <1> DEFINE binds == IF native.host.json = "object" THEN native.host.binds ELSE None
  <1>1. native' = native /\ policy' = policy /\ relationships' = relationships /\ decoding' = decoding
    BY DEF DecodeHostBinds
  <1>2. "binds" \in Fields /\ {"binds", "mount_list"} \subseteq Stages
    BY StageSets DEF Fields
  <1>3. CASE binds = None
    <2>1. /\ stage = "host_binds" /\ fields' = With(fields, "binds", Observed(<<>>))
          /\ Begin("mount_list") /\ findings' = findings
      BY <1>3 DEF DecodeHostBinds, With
    <2>2. /\ Record(fields') /\ fields'["binds"] = Observed(<<>>)
          /\ \A f \in Fields : f # "binds" => fields'[f] = fields[f]
      BY <1>2, <2>1, FieldSet DEF TypeOK
    <2>3. TypeOK'
      BY <1>1, <1>2, <2>1, <2>2, BegunTypes DEF TypeOK
    <2>4. stage' = "mount_list" /\ index' = 1 /\ decoded' = <<>> /\ ~malformed'
      BY <2>1, Begun
    <2>5. native.host.json # "object" \/ native.host.binds = None
      BY <1>3
    <2> QED
      BY <1>1, <2>1, <2>2, <2>3, <2>4, <2>5
  <1>4. CASE binds # None
    <2>1. native.host.json = "object" /\ binds = native.host.binds
      BY <1>4
    <2>2. Enter("host_binds", "binds", "binds", binds, "mount_list", "Binds")
      BY <1>4 DEF DecodeHostBinds
    <2>3. IsList(binds)
      BY <2>1, NativeLists
    <2> HIDE DEF binds
    <2>4. TypeOK'
      BY <1>1, <1>2, <2>2, EnteredTypes DEF TypeOK
    <2>5. stage = "host_binds" /\ index' = 1 /\ decoded' = <<>> /\ ~malformed'
      BY <1>2, <2>2, Entered
    <2>6. \A f \in Fields : f # "binds" => fields'[f] = fields[f]
      BY <1>2, <2>2, Entered
    <2>7. stage' = IF binds.json = "array" THEN "binds" ELSE "mount_list"
      BY <2>2 DEF Enter, Begin
    <2>8. CASE binds.json = "array"
      <3>1. fields' = fields /\ findings' = findings
        BY <1>2, <2>2, <2>8, Entered
      <3> QED
        BY <1>1, <2>1, <2>4, <2>5, <2>7, <2>8, <3>1
    <2>9. CASE binds.json # "array"
      <3>3. Paths(findings') = Paths(findings) \cup {"Binds"}
        BY <1>2, <1>4, <2>2, <2>9, Entered
      <3>4. fields'["binds"] = (IF binds = None THEN Absent ELSE Malformed)
        BY <1>2, <2>2, <2>9, Entered
      <3>1. fields'["binds"] = Malformed /\ Paths(findings') = Paths(findings) \cup {"Binds"}
        BY <1>4, <3>3, <3>4
      <3>2. binds = Other
        BY <1>4, <2>3, <2>9, Lists
      <3> QED
        BY <1>1, <2>1, <2>4, <2>5, <2>6, <2>7, <2>9, <3>1, <3>2
    <2> QED
      BY <2>8, <2>9
  <1> QED
    BY <1>3, <1>4

LEMMA BindsEffect ==
    ASSUME TypeOK, DecodeBinds, native.host.binds.json = "array"
    PROVE  LET items == native.host.binds.items
               r == BindTurn(items[index], index)
           IN  /\ TypeOK' /\ stage = "binds" /\ native' = native /\ policy' = policy
               /\ relationships' = relationships /\ decoding' = decoding
               /\ \/ /\ index \in 1..Len(items) /\ stage' = "binds" /\ fields' = fields /\ index' = index + 1
                     /\ r.bad \in BOOLEAN
                     /\ r.bad => malformed' /\ decoded' = decoded
                     /\ ~r.bad => malformed' = malformed /\ decoded' = decoded \o r.value
                     /\ Paths(findings') = Paths(findings) \cup Paths(r.findings)
                  \/ Leave("binds", items, "binds", "mount_list")
  <1> DEFINE items == native.host.binds.items
             r == BindTurn(items[index], index)
  <1>1. CASE Leave("binds", items, "binds", "mount_list") /\ UNCHANGED decoding
    <2>1. "binds" \in Fields /\ "mount_list" \in Stages
      BY StageSets DEF Fields
    <2>2. TypeOK'
      BY <1>1, <2>1, LeftTypes DEF TypeOK
    <2>3. stage = "binds" /\ native' = native /\ policy' = policy /\ relationships' = relationships
      BY <1>1 DEF Leave
    <2> QED
      BY <1>1, <2>2, <2>3
  <1>2. CASE /\ stage = "binds" /\ index <= Len(items)
             /\ decoded' = IF r.bad THEN decoded ELSE decoded \o r.value
             /\ malformed' = (malformed \/ r.bad)
             /\ findings' = findings \o r.findings
             /\ index' = index + 1
             /\ UNCHANGED <<native, policy, stage, fields, relationships, decoding, relabels, image>>
    <2>1. r.bad \in BOOLEAN /\ Sequence(r.findings) /\ (~r.bad => Sequence(r.value))
      BY BindTurnFacts
    <2>2. index \in 1..Len(items) /\ index' \in Nat \ {0}
      <3>1. Len(items) \in Nat
        BY NativeLists, Lists, SequenceFacts
      <3>2. index \in Nat \ {0} /\ index <= Len(items) /\ index' = index + 1
        BY <1>2 DEF TypeOK
      <3> HIDE DEF items
      <3> QED
        BY <3>1, <3>2
    <2> HIDE DEF r, items
    <2>3. Sequence(findings') /\ Paths(findings') = Paths(findings) \cup Paths(r.findings)
      BY <1>2, <2>1, Told1
    <2>4. r.bad => malformed' /\ decoded' = decoded
      BY <1>2
    <2>5. ~r.bad => malformed' = malformed /\ decoded' = decoded \o r.value
      BY <1>2 DEF TypeOK
    <2>6. Sequence(decoded')
      <3>1. CASE r.bad
        BY <2>4, <3>1 DEF TypeOK
      <3>2. CASE ~r.bad
        <4>1. Sequence(decoded) /\ Sequence(r.value) /\ decoded' = decoded \o r.value
          BY <2>1, <2>5, <3>2 DEF TypeOK
        <4>2. Sequence(decoded \o r.value)
          BY <4>1, Concatenation
        <4> QED
          BY <4>1, <4>2
      <3> QED
        BY <3>1, <3>2
    <2>7. malformed' \in BOOLEAN
      BY <1>2, <2>1, Zenon DEF TypeOK
    <2>8. /\ stage = "binds" /\ stage' = stage /\ native' = native /\ policy' = policy
          /\ relationships' = relationships /\ decoding' = decoding /\ fields' = fields
          /\ index' = index + 1
      BY <1>2
    <2>9. TypeOK'
      BY <2>2, <2>3, <2>6, <2>7, <2>8 DEF TypeOK
    <2> QED
      BY <2>1, <2>2, <2>3, <2>4, <2>5, <2>8, <2>9 DEF r, items
  <1> QED
    BY <1>1, <1>2 DEF DecodeBinds

LEMMA MountListEffect ==
    ASSUME TypeOK, DecodeMountList
    PROVE  /\ TypeOK' /\ stage = "mount_list" /\ native' = native /\ policy' = policy
           /\ relationships' = relationships
           /\ \A f \in Fields \ {"mounts"} : fields'[f] = fields[f]
           /\ index' = 1 /\ decoded' = <<>> /\ ~malformed'
           /\ \/ /\ native.mounts.json = "array" /\ stage' = "mounts" /\ Merge(FALSE, FALSE)
                 /\ fields' = fields /\ findings' = findings
              \/ /\ native.mounts = None /\ stage' = "command" /\ Merge(FALSE, FALSE)
                 /\ fields'["mounts"] = Absent /\ Paths(findings') = Paths(findings)
              \/ /\ native.mounts = Other /\ stage' = "command" /\ Merge(TRUE, TRUE)
                 /\ fields'["mounts"] = Malformed /\ Paths(findings') = Paths(findings) \cup {"Mounts"}
  <1> DEFINE v == native.mounts
  <1>1. /\ Enter("mount_list", "mounts", "mounts", v, "command", "Mounts")
        /\ Merge(v = Other, v = Other) /\ native' = native /\ policy' = policy
        /\ relationships' = relationships
    BY DEF DecodeMountList
  <1>2. "mounts" \in Fields /\ {"mounts", "command"} \subseteq Stages
    BY StageSets DEF Fields
  <1>3. Decision(decoding')
    BY <1>1 DEF Merge, Decision, TypeOK
  <1>4. TypeOK'
    BY <1>1, <1>2, <1>3, EnteredTypes
  <1>5. IsList(v)
    BY NativeLists
  <1>6. v = Other => Merge(TRUE, TRUE)
    BY <1>1 DEF Merge
  <1>7. v # Other => Merge(FALSE, FALSE)
    BY <1>1 DEF Merge
  <1> HIDE DEF v
  <1>8. stage = "mount_list" /\ index' = 1 /\ decoded' = <<>> /\ ~malformed'
    BY <1>1, <1>2, Entered
  <1>9. \A f \in Fields : f # "mounts" => fields'[f] = fields[f]
    BY <1>1, <1>2, Entered
  <1>10. stage' = IF v.json = "array" THEN "mounts" ELSE "command"
    BY <1>1 DEF Enter, Begin
  <1>11. CASE v.json = "array"
    <2>1. fields' = fields /\ findings' = findings
      BY <1>1, <1>2, <1>11, Entered
    <2>2. v # Other
      BY <1>5, <1>11, Lists
    <2> QED
      BY <1>1, <1>4, <1>7, <1>8, <1>10, <1>11, <2>1, <2>2 DEF v
  <1>12. CASE v.json # "array"
    <2>1. fields'["mounts"] = (IF v = None THEN Absent ELSE Malformed)
      BY <1>1, <1>2, <1>12, Entered
    <2>2. Paths(findings') = Paths(findings) \cup (IF v = None THEN {} ELSE {"Mounts"})
      BY <1>1, <1>2, <1>12, Entered
    <2>3. v \in {None, Other} /\ None # Other
      BY <1>5, <1>12, Lists
    <2>4. CASE v = None
      BY <1>1, <1>4, <1>7, <1>8, <1>9, <1>10, <1>12, <2>1, <2>2, <2>3, <2>4 DEF v
    <2>5. CASE v = Other
      BY <1>1, <1>4, <1>6, <1>8, <1>9, <1>10, <1>12, <2>1, <2>2, <2>3, <2>5 DEF v
    <2> QED
      BY <2>3, <2>4, <2>5
  <1> QED
    BY <1>11, <1>12

LEMMA DependencyListEffect ==
    ASSUME TypeOK, DecodeDependencyList
    PROVE  /\ TypeOK' /\ stage = "dependency_list" /\ native' = native /\ policy' = policy
           /\ relationships' = relationships
           /\ \A f \in Fields \ {"dependencies"} : fields'[f] = fields[f]
           /\ index' = 1 /\ decoded' = <<>> /\ ~malformed'
           /\ \/ /\ native.dependencies.json = "array" /\ stage' = "dependencies" /\ Merge(FALSE, FALSE)
                 /\ fields' = fields /\ findings' = findings
              \/ /\ native.dependencies = None /\ stage' = "secret_list" /\ Merge(FALSE, FALSE)
                 /\ fields'["dependencies"] = Absent /\ Paths(findings') = Paths(findings)
              \/ /\ native.dependencies = Other /\ stage' = "secret_list" /\ Merge(TRUE, TRUE)
                 /\ fields'["dependencies"] = Malformed
                 /\ Paths(findings') = Paths(findings) \cup {"Dependencies"}
  <1> DEFINE v == native.dependencies
  <1>1. /\ Enter("dependency_list", "dependencies", "dependencies", v, "secret_list", "Dependencies")
        /\ Merge(v = Other, v = Other) /\ native' = native /\ policy' = policy
        /\ relationships' = relationships
    BY DEF DecodeDependencyList
  <1>2. "dependencies" \in Fields /\ {"dependencies", "secret_list"} \subseteq Stages
    BY StageSets DEF Fields
  <1>3. Decision(decoding')
    BY <1>1 DEF Merge, Decision, TypeOK
  <1>4. TypeOK'
    BY <1>1, <1>2, <1>3, EnteredTypes
  <1>5. IsList(v)
    BY NativeLists
  <1>6. v = Other => Merge(TRUE, TRUE)
    BY <1>1 DEF Merge
  <1>7. v # Other => Merge(FALSE, FALSE)
    BY <1>1 DEF Merge
  <1> HIDE DEF v
  <1>8. stage = "dependency_list" /\ index' = 1 /\ decoded' = <<>> /\ ~malformed'
    BY <1>1, <1>2, Entered
  <1>9. \A f \in Fields : f # "dependencies" => fields'[f] = fields[f]
    BY <1>1, <1>2, Entered
  <1>10. stage' = IF v.json = "array" THEN "dependencies" ELSE "secret_list"
    BY <1>1 DEF Enter, Begin
  <1>11. CASE v.json = "array"
    <2>1. fields' = fields /\ findings' = findings
      BY <1>1, <1>2, <1>11, Entered
    <2>2. v # Other
      BY <1>5, <1>11, Lists
    <2> QED
      BY <1>1, <1>4, <1>7, <1>8, <1>10, <1>11, <2>1, <2>2 DEF v
  <1>12. CASE v.json # "array"
    <2>1. fields'["dependencies"] = (IF v = None THEN Absent ELSE Malformed)
      BY <1>1, <1>2, <1>12, Entered
    <2>2. Paths(findings') = Paths(findings) \cup (IF v = None THEN {} ELSE {"Dependencies"})
      BY <1>1, <1>2, <1>12, Entered
    <2>3. v \in {None, Other} /\ None # Other
      BY <1>5, <1>12, Lists
    <2>4. CASE v = None
      BY <1>1, <1>4, <1>7, <1>8, <1>9, <1>10, <1>12, <2>1, <2>2, <2>3, <2>4 DEF v
    <2>5. CASE v = Other
      BY <1>1, <1>4, <1>6, <1>8, <1>9, <1>10, <1>12, <2>1, <2>2, <2>3, <2>5 DEF v
    <2> QED
      BY <2>3, <2>4, <2>5
  <1> QED
    BY <1>11, <1>12

\* The end of the command's decoding.
LEMMA Concluded ==
    ASSUME TypeOK, NEW state, Conclude(state)
    PROVE  /\ TypeOK' /\ stage' = "dependency_list" /\ native' = native /\ policy' = policy
           /\ relationships' = relationships /\ decoding' = decoding /\ ~malformed'
           /\ \A f \in Fields \ {"creation"} : fields'[f] = fields[f]
           /\ Paths(findings) \subseteq Paths(findings')
           /\ fields'["creation"] = Malformed => "CreateCommand" \in Paths(findings')
  <1> DEFINE told == Reported(state, "CreateCommand", 0)
  <1>1. /\ fields' = With(fields, "creation", state) /\ findings' = findings \o told
        /\ Begin("dependency_list") /\ native' = native /\ policy' = policy
        /\ relationships' = relationships /\ decoding' = decoding
    BY DEF Conclude, With
  <1>2. "creation" \in Fields /\ "dependency_list" \in Stages
    BY StageSets DEF Fields
  <1>3. /\ Record(fields') /\ fields'["creation"] = state
        /\ \A f \in Fields : f # "creation" => fields'[f] = fields[f]
    BY <1>1, <1>2, FieldSet DEF TypeOK
  <1>4. Sequence(told) /\ (state = Malformed => Paths(told) = {"CreateCommand"})
    BY FindingLists
  <1> HIDE DEF told
  <1>5. Sequence(findings') /\ Paths(findings') = Paths(findings) \cup Paths(told)
    BY <1>1, <1>4, Told1
  <1>6. TypeOK'
    BY <1>1, <1>2, <1>3, <1>5, BegunTypes DEF TypeOK
  <1>7. stage' = "dependency_list" /\ ~malformed'
    BY <1>1, Begun
  <1> QED
    BY <1>1, <1>3, <1>4, <1>5, <1>6, <1>7

\* The steps that decode Config.CreateCommand touch the creation evidence only.
EvidenceStages == {"command", "scan", "image_hint", "correlate"}
EvidenceFields == {"creation", "image_hint", "relabel_hints"}
EvidenceStep ==
    /\ TypeOK' /\ native' = native /\ policy' = policy
    /\ relationships' = relationships /\ decoding' = decoding
    /\ stage \in EvidenceStages /\ stage' \in (EvidenceStages \cup {"dependency_list"}) \ {"command"}
    /\ stage' = "scan" => native.config = "object" /\ native.command.json = "array"
    /\ ~malformed => ~malformed'
    /\ \A f \in Fields \ EvidenceFields : fields'[f] = fields[f]
    /\ stage # "correlate" => fields'["relabel_hints"] = fields["relabel_hints"]
    /\ fields'["image_hint"] = fields["image_hint"] \/ fields'["image_hint"] # Malformed
    /\ \A f \in {"creation", "relabel_hints"} :
         fields'[f] = fields[f] \/ (fields'[f] = Malformed => "CreateCommand" \in Paths(findings'))
    /\ Paths(findings) \subseteq Paths(findings')

LEMMA ConcludedStep ==
    ASSUME TypeOK, NEW state, Conclude(state), stage \in EvidenceStages
    PROVE  EvidenceStep
  <1>1. /\ TypeOK' /\ stage' = "dependency_list" /\ native' = native /\ policy' = policy
        /\ relationships' = relationships /\ decoding' = decoding /\ ~malformed'
        /\ \A f \in Fields \ {"creation"} : fields'[f] = fields[f]
        /\ Paths(findings) \subseteq Paths(findings')
        /\ fields'["creation"] = Malformed => "CreateCommand" \in Paths(findings')
    BY Concluded
  <1>2. EvidenceFields \subseteq Fields
    BY DEF EvidenceFields, Fields
  <1> QED
    BY <1>1, <1>2 DEF EvidenceStep, EvidenceFields, EvidenceStages

LEMMA ParseCommandEffect ==
    ASSUME TypeOK, ListsOK, ParseCommand
    PROVE  EvidenceStep
  <1>1. stage \in EvidenceStages
    BY DEF ParseCommand, EvidenceStages
  <1>2. CASE \E state : Conclude(state)
    BY <1>1, <1>2, ConcludedStep
  <1>3. CASE ~\E state : Conclude(state)
    <2>1. /\ container_create_command.json = "array" /\ FirstOption(Arguments) # 0
          /\ stage' = "scan" /\ index' = FirstOption(Arguments)
          /\ native' = native /\ policy' = policy /\ decoded' = decoded /\ malformed' = malformed
          /\ fields' = fields /\ relationships' = relationships /\ decoding' = decoding
          /\ findings' = findings
      BY <1>3 DEF ParseCommand
    <2>2. native.config = "object" /\ native.command.json = "array"
      BY <2>1 DEF container_create_command, None, Other
    <2>3. FirstOption(Arguments) \in {0, 3, 4}
      BY DEF FirstOption
    <2>4. index' \in Nat \ {0}
      BY <2>1, <2>3
    <2>5. stage' \in Stages
      BY <2>1, StageSets
    <2>6. TypeOK'
      BY <2>1, <2>4, <2>5 DEF TypeOK
    <2> QED
      BY <1>1, <2>1, <2>2, <2>6 DEF EvidenceStep, EvidenceStages, EvidenceFields, Fields
  <1> QED
    BY <1>2, <1>3

LEMMA ScanOptionEffect ==
    ASSUME TypeOK, ListsOK, ScanOption
    PROVE  EvidenceStep
  <1> DEFINE option == Option(Arguments, index)
  <1>1. stage = "scan" /\ stage \in EvidenceStages
    BY DEF ScanOption, EvidenceStages
  <1>2. CASE Conclude([state |-> option.end])
    BY <1>1, <1>2, ConcludedStep
  <1>3. CASE ~Conclude([state |-> option.end])
    <2>1. /\ option.end = "no" /\ index' = index + option.takes /\ stage' = stage
          /\ native' = native /\ policy' = policy /\ decoded' = decoded /\ malformed' = malformed
          /\ fields' = fields /\ relationships' = relationships /\ decoding' = decoding
          /\ findings' = findings
      BY <1>3 DEF ScanOption
    <2>3. option.takes \in {0, 1, 2}
      BY DEF Option
    <2>4. index' \in Nat \ {0}
      <3> HIDE DEF option
      <3> QED
        BY <2>1, <2>3 DEF TypeOK
    <2>6. TypeOK'
      BY <2>1, <2>4 DEF TypeOK
    <2>7. native.config = "object" /\ native.command.json = "array"
      BY <1>1 DEF ListsOK
    <2> HIDE DEF option
    <2> QED
      BY <1>1, <2>1, <2>6, <2>7 DEF EvidenceStep, EvidenceStages, EvidenceFields, Fields
  <1> QED
    BY <1>2, <1>3

LEMMA EndOptionsEffect ==
    ASSUME TypeOK, ListsOK, EndOptions
    PROVE  EvidenceStep
  <1>1. stage = "scan" /\ stage \in EvidenceStages
    BY DEF EndOptions, EvidenceStages
  <1>2. CASE Conclude(Malformed)
    BY <1>1, <1>2, ConcludedStep
  <1>3. CASE ~Conclude(Malformed)
    <2>1. /\ Begin("image_hint") /\ native' = native /\ policy' = policy /\ fields' = fields
          /\ relationships' = relationships /\ decoding' = decoding /\ findings' = findings
      BY <1>3 DEF EndOptions
    <2>2. "image_hint" \in Stages
      BY StageSets
    <2>3. TypeOK'
      BY <2>1, <2>2, BegunTypes DEF TypeOK
    <2>4. stage' = "image_hint" /\ ~malformed'
      BY <2>1, Begun
    <2> QED
      BY <1>1, <2>1, <2>3, <2>4 DEF EvidenceStep, EvidenceStages, EvidenceFields, Fields
  <1> QED
    BY <1>2, <1>3

LEMMA ImageHintEffect ==
    ASSUME TypeOK, ListsOK, DecodeImageHint
    PROVE  EvidenceStep
  <1> DEFINE hint == decode_authored_image_spelling_hint(fields["configured_image"], fields["local_image"])
             one == Finding("CreationEvidenceConflict", "CreateCommand", 0)
  <1>1. /\ stage = "image_hint" /\ fields' = With(fields, "image_hint", hint) /\ Begin("correlate")
        /\ native' = native /\ policy' = policy
        /\ relationships' = relationships /\ decoding' = decoding
        /\ findings' \in {findings, Append(findings, one)}
    BY DEF DecodeImageHint, With
  <1>2. hint # Malformed
    BY States DEF decode_authored_image_spelling_hint
  <1>3. "image_hint" \in Fields /\ "correlate" \in Stages
    BY StageSets DEF Fields
  <1> HIDE DEF hint, one
  <1>4. Sequence(findings') /\ Paths(findings) \subseteq Paths(findings')
    <2>1. CASE findings' = findings
      BY <2>1 DEF TypeOK
    <2>2. CASE findings' = Append(findings, one)
      <3>1. Sequence(findings)
        BY DEF TypeOK
      <3>2. /\ Sequence(Append(findings, one))
            /\ Paths(Append(findings, one)) = Paths(findings) \cup {one.path}
        BY <3>1, Appending
      <3> QED
        BY <2>2, <3>2
    <2> QED
      BY <1>1, <2>1, <2>2
  <1>5. /\ Record(fields') /\ fields'["image_hint"] = hint
        /\ \A f \in Fields : f # "image_hint" => fields'[f] = fields[f]
    BY <1>1, <1>3, FieldSet DEF TypeOK
  <1>6. TypeOK'
    BY <1>1, <1>3, <1>4, <1>5, BegunTypes DEF TypeOK
  <1>7. stage' = "correlate" /\ ~malformed'
    BY <1>1, Begun
  <1> QED
    BY <1>1, <1>2, <1>4, <1>5, <1>6, <1>7 DEF EvidenceStep, EvidenceStages, EvidenceFields, Fields

LEMMA EvidenceEffect ==
    ASSUME TypeOK, NEW hints, NEW told, Sequence(told), Evidence(hints, told),
           hints = Malformed => "CreateCommand" \in Paths(told), stage = "correlate"
    PROVE  EvidenceStep
  <1> DEFINE evidence == Observed([image |-> fields["image_hint"], relabels |-> hints])
  <1>1. /\ fields' = With(With(fields, "relabel_hints", hints), "creation", evidence)
        /\ findings' = findings \o told /\ Begin("dependency_list")
        /\ native' = native /\ policy' = policy
        /\ relationships' = relationships /\ decoding' = decoding
    BY DEF Evidence, With
  <1>2. evidence # Malformed
    BY States
  <1>3. {"creation", "relabel_hints"} \subseteq Fields /\ "dependency_list" \in Stages
    BY StageSets DEF Fields
  <1> DEFINE g == With(fields, "relabel_hints", hints)
  <1> HIDE DEF evidence
  <1>4. /\ Record(g) /\ g["relabel_hints"] = hints
        /\ \A f \in Fields : f # "relabel_hints" => g[f] = fields[f]
    BY <1>3, FieldSet DEF TypeOK
  <1> HIDE DEF g
  <1>5. /\ Record(With(g, "creation", evidence)) /\ With(g, "creation", evidence)["creation"] = evidence
        /\ \A f \in Fields : f # "creation" => With(g, "creation", evidence)[f] = g[f]
    BY <1>3, <1>4, FieldSet
  <1>6. fields' = With(g, "creation", evidence)
    BY <1>1 DEF g
  <1>7. Sequence(findings') /\ Paths(findings') = Paths(findings) \cup Paths(told)
    BY <1>1, Told1
  <1>8. TypeOK'
    BY <1>1, <1>3, <1>5, <1>6, <1>7, BegunTypes DEF TypeOK
  <1>9. stage' = "dependency_list" /\ ~malformed'
    BY <1>1, Begun
  <1> QED
    BY <1>1, <1>2, <1>3, <1>4, <1>5, <1>6, <1>7, <1>8, <1>9
       DEF EvidenceStep, EvidenceStages, EvidenceFields, Fields

LEMMA CorrelateEffect ==
    ASSUME TypeOK, ListsOK, CorrelateMount
    PROVE  EvidenceStep
  <1>1. stage = "correlate"
    BY DEF CorrelateMount
  <1>2. CASE Evidence(Unavailable, NoFindings)
    <2>1. Sequence(NoFindings) /\ Unavailable # Malformed
      BY FindingLists, States
    <2> QED
      BY <1>1, <1>2, <2>1, EvidenceEffect
  <1>3. CASE ~Evidence(Unavailable, NoFindings)
    <2>1. /\ \E x : decoded' = Append(decoded, x)
          /\ \E k : findings' \in {findings, Append(findings, Finding("CreationEvidenceConflict", "CreateCommand", k))}
          /\ index' = index + 1 /\ stage' = stage /\ malformed' = malformed /\ fields' = fields
          /\ native' = native /\ policy' = policy
          /\ relationships' = relationships /\ decoding' = decoding
      BY <1>3 DEF CorrelateMount
    <2>2. Sequence(findings') /\ Paths(findings) \subseteq Paths(findings')
      <3>1. Sequence(findings)
        BY DEF TypeOK
      <3>2. ASSUME NEW x
            PROVE  Sequence(Append(findings, x)) /\ Paths(findings) \subseteq Paths(Append(findings, x))
        BY <3>1, Appending
      <3> QED
        BY <2>1, <3>1, <3>2
    <2>3. Sequence(decoded') /\ index' \in Nat \ {0}
      BY <2>1, Appending DEF TypeOK
    <2>4. TypeOK'
      BY <2>1, <2>2, <2>3 DEF TypeOK
    <2> QED
      BY <1>1, <2>1, <2>2, <2>4 DEF EvidenceStep, EvidenceStages, EvidenceFields, Fields
  <1> QED
    BY <1>2, <1>3

LEMMA EndCorrelationEffect ==
    ASSUME TypeOK, ListsOK, EndCorrelation
    PROVE  EvidenceStep
  <1>1. stage = "correlate"
    BY DEF EndCorrelation
  <1>2. /\ Sequence(NoFindings) /\ Sequence(Bad("CreateCommand", 0))
        /\ Paths(Bad("CreateCommand", 0)) = {"CreateCommand"}
    BY FindingLists
  <1>3. Unavailable # Malformed /\ Observed(decoded) # Malformed
    BY States
  <1>4. CASE Evidence(Malformed, Bad("CreateCommand", 0))
    BY <1>1, <1>2, <1>4, EvidenceEffect
  <1>5. CASE Evidence(Unavailable, NoFindings)
    BY <1>1, <1>2, <1>3, <1>5, EvidenceEffect
  <1>6. CASE Evidence(Observed(decoded), NoFindings)
    BY <1>1, <1>2, <1>3, <1>6, EvidenceEffect
  <1> QED
    BY <1>4, <1>5, <1>6 DEF EndCorrelation

-----------------------------------------------------------------------------
(* What the loops over networks, mounts, dependencies and grants do *)

\* The flag that a family's decoding ends with.
LEMMA Merged ==
    ASSUME TypeOK, NEW x \in BOOLEAN, NEW y \in BOOLEAN, Merge(x, y)
    PROVE  /\ Decision(decoding')
           /\ decoding'.malformed = (decoding.malformed \/ y)
           /\ decoding'.supplied = (decoding.supplied \/ x)
  <1>1. decoding' = [supplied |-> decoding.supplied \/ x, malformed |-> decoding.malformed \/ y]
    BY DEF Merge
  <1>2. decoding.supplied \in BOOLEAN /\ decoding.malformed \in BOOLEAN
    BY DEF TypeOK, Decision
  <1>3. Decision(decoding')
    BY <1>1, <1>2 DEF Decision
  <1> QED
    BY <1>1, <1>3

LEMMA NetworksEffect ==
    ASSUME TypeOK, DecodeNetworks
    PROVE  LET items == native.networks.items
               r == NetworkTurn(items[index], index)
           IN  /\ TypeOK'
               /\ \/ /\ Turn("networks", items, r)
                     /\ relationships' = IF BadAttachment(items[index]) THEN relationships
                                         ELSE Append(relationships, Reference("network", {items[index].name}))
                  \/ Leave("networks", items, "networks", "attachments") /\ Merge(TRUE, malformed)
  <1> DEFINE items == native.networks.items
             r == NetworkTurn(items[index], index)
             one == Reference("network", {items[index].name})
  <1>1. CASE /\ Turn("networks", items, r)
             /\ relationships' = IF BadAttachment(items[index]) THEN relationships
                                 ELSE Append(relationships, one)
    <2>1. r.bad \in BOOLEAN /\ Sequence(r.findings)
      BY NetworkTurnFacts
    <2> HIDE DEF one
    <2>2. Sequence(relationships) /\ Sequence(Append(relationships, one))
      BY Appending DEF TypeOK
    <2>3. Sequence(relationships')
      BY <1>1, <2>2
    <2> HIDE DEF r, items
    <2>4. TypeOK'
      BY <1>1, <2>1, <2>3, TurnedTypes
    <2> QED
      BY <1>1, <2>4 DEF r, items, one
  <1>2. CASE Leave("networks", items, "networks", "attachments") /\ Merge(TRUE, malformed)
    <2>1. "networks" \in Fields /\ "attachments" \in Stages
      BY StageSets DEF Fields
    <2>2. malformed \in BOOLEAN
      BY DEF TypeOK
    <2>3. Decision(decoding')
      BY <1>2, <2>2, Merged
    <2> HIDE DEF items
    <2>4. TypeOK'
      BY <1>2, <2>1, <2>3, LeftTypes
    <2> QED
      BY <1>2, <2>4 DEF items
  <1>3. \/ /\ Turn("networks", items, r)
           /\ relationships' = IF BadAttachment(items[index]) THEN relationships
                               ELSE Append(relationships, one)
        \/ Leave("networks", items, "networks", "attachments") /\ Merge(TRUE, malformed)
    BY DEF DecodeNetworks, NetworkTurn
  <1> QED
    BY <1>1, <1>2, <1>3

\* What DecodeAttachments decodes a member to.
AttachmentTurn(network, k) ==
    LET aliases == IF network.details = "null" THEN [field |-> Unavailable, findings |-> NoFindings]
                   ELSE decode_container_network_aliases(network.aliases, k)
    IN  Pushes([name |-> network.name, aliases |-> aliases.field], aliases.findings)

LEMMA AttachmentTurnFacts ==
    ASSUME NEW network, NEW k
    PROVE  LET r == AttachmentTurn(network, k)
           IN  ~r.bad /\ r.bad \in BOOLEAN /\ Sequence(r.findings) /\ r.value.name = network.name
  <1> DEFINE r == AttachmentTurn(network, k)
             aliases == IF network.details = "null" THEN [field |-> Unavailable, findings |-> NoFindings]
                        ELSE decode_container_network_aliases(network.aliases, k)
             value == [name |-> network.name, aliases |-> aliases.field]
  <1>1. r = Pushes(value, aliases.findings)
    BY DEF AttachmentTurn
  <1>2. Sequence(aliases.findings)
    BY AliasFacts, FindingLists
  <1>3. value.name = network.name
    OBVIOUS
  <1> HIDE DEF r, value, aliases
  <1>4. ~r.bad /\ r.bad \in BOOLEAN
    BY <1>1, TurnFacts
  <1>5. r.value = value /\ r.findings = aliases.findings
    BY <1>1, TurnFacts
  <1>6. Sequence(r.findings) /\ r.value.name = network.name
    BY <1>2, <1>3, <1>5
  <1> QED
    BY <1>4, <1>6, Zenon DEF r

LEMMA AttachmentsEffect ==
    ASSUME TypeOK, DecodeAttachments
    PROVE  LET items == native.networks.items
               r == AttachmentTurn(items[index], index)
           IN  /\ TypeOK' /\ relationships' = relationships /\ decoding' = decoding
               /\ \/ /\ ~BadAttachment(items[index]) /\ Turn("attachments", items, r)
                  \/ /\ BadAttachment(items[index]) /\ index <= Len(items) /\ stage = "attachments"
                     /\ fields' = With(fields, "attachments", Malformed)
                     /\ Begin("networking") /\ native' = native /\ policy' = policy /\ findings' = findings
                  \/ Leave("attachments", items, "attachments", "networking")
  <1> DEFINE items == native.networks.items
             r == AttachmentTurn(items[index], index)
  <1>0. "attachments" \in Fields /\ "networking" \in Stages
    BY StageSets DEF Fields
  <1>1. CASE ~BadAttachment(items[index]) /\ Turn("attachments", items, r) /\ relationships' = relationships
    <2>1. r.bad \in BOOLEAN /\ Sequence(r.findings)
      BY AttachmentTurnFacts
    <2>2. Sequence(relationships')
      BY <1>1 DEF TypeOK
    <2>3. decoding' = decoding
      BY <1>1 DEF Turn
    <2> HIDE DEF r, items
    <2>4. TypeOK'
      BY <1>1, <2>1, <2>2, TurnedTypes
    <2> QED
      BY <1>1, <2>3, <2>4 DEF r, items
  <1>2. CASE /\ BadAttachment(items[index]) /\ index <= Len(items) /\ stage = "attachments"
             /\ fields' = With(fields, "attachments", Malformed)
             /\ Begin("networking") /\ native' = native /\ policy' = policy /\ findings' = findings
             /\ relationships' = relationships /\ decoding' = decoding
    <2>1. Record(fields')
      BY <1>0, <1>2, FieldSet DEF TypeOK
    <2>2. Sequence(relationships') /\ Sequence(findings') /\ Decision(decoding')
      BY <1>2 DEF TypeOK
    <2>4. TypeOK'
      BY <1>0, <1>2, <2>1, <2>2, BegunTypes
    <2> QED
      BY <1>2, <2>4
  <1>3. CASE Leave("attachments", items, "attachments", "networking") /\ decoding' = decoding
    <2>3. Decision(decoding') /\ relationships' = relationships
      BY <1>3 DEF TypeOK, Leave
    <2> HIDE DEF items
    <2>4. TypeOK'
      BY <1>0, <1>3, <2>3, LeftTypes
    <2> QED
      BY <1>3, <2>3, <2>4 DEF items
  <1>4. \/ ~BadAttachment(items[index]) /\ Turn("attachments", items, r) /\ relationships' = relationships
        \/ /\ BadAttachment(items[index]) /\ index <= Len(items) /\ stage = "attachments"
           /\ fields' = With(fields, "attachments", Malformed)
           /\ Begin("networking") /\ native' = native /\ policy' = policy /\ findings' = findings
           /\ relationships' = relationships /\ decoding' = decoding
        \/ Leave("attachments", items, "attachments", "networking") /\ decoding' = decoding
    BY DEF DecodeAttachments, AttachmentTurn, With
  <1> QED
    BY <1>1, <1>2, <1>3, <1>4

\* The members of the lists have their shape.
LEMMA Members1 ==
    ASSUME TypeOK
    PROVE  /\ native.mounts.json = "array" => \A k \in 1..Len(native.mounts.items) : IsMount(native.mounts.items[k])
           /\ native.secrets.json = "array" => \A k \in 1..Len(native.secrets.items) : IsGrant(native.secrets.items[k])
           /\ native.dependencies.json = "array" =>
                \A k \in 1..Len(native.dependencies.items) : IsText(native.dependencies.items[k])
           /\ native.networks.json = "array" =>
                \A k \in 1..Len(native.networks.items) : IsNetwork(native.networks.items[k])
           /\ native.host.binds.json = "array" =>
                \A k \in 1..Len(native.host.binds.items) : IsBind(native.host.binds.items[k])
  <1>1. ASSUME NEW v, IsList(v), v.json = "array", NEW k \in 1..Len(v.items)
        PROVE  v.items[k] \in ItemsOf(v)
    <2>1. Sequence(v.items)
      BY <1>1, Lists
    <2>2. \A j \in DOMAIN v.items : v.items[j] \in Range(v.items)
      BY <2>1, SequenceFacts
    <2>3. DOMAIN v.items = 1..Len(v.items)
      BY <2>1, SequenceFacts
    <2> QED
      BY <1>1, <2>2, <2>3 DEF ItemsOf
  <1>2. native \in Containers
    BY DEF TypeOK
  <1>3. /\ \A m \in ItemsOf(native.mounts) : IsMount(m)
        /\ \A b \in ItemsOf(native.host.binds) : IsBind(b)
        /\ \A n \in ItemsOf(native.networks) : IsNetwork(n)
        /\ \A d \in ItemsOf(native.dependencies) : IsText(d)
        /\ \A g \in ItemsOf(native.secrets) : IsGrant(g)
    BY <1>2, ContainersAssumption
  <1>4. /\ IsList(native.mounts) /\ IsList(native.secrets) /\ IsList(native.dependencies)
        /\ IsList(native.networks) /\ IsList(native.host.binds)
    BY NativeLists
  <1>5. native.mounts.json = "array" => \A k \in 1..Len(native.mounts.items) : IsMount(native.mounts.items[k])
    BY <1>1, <1>3, <1>4
  <1>6. native.secrets.json = "array" => \A k \in 1..Len(native.secrets.items) : IsGrant(native.secrets.items[k])
    BY <1>1, <1>3, <1>4
  <1>7. native.dependencies.json = "array" =>
          \A k \in 1..Len(native.dependencies.items) : IsText(native.dependencies.items[k])
    BY <1>1, <1>3, <1>4
  <1>8. native.networks.json = "array" =>
          \A k \in 1..Len(native.networks.items) : IsNetwork(native.networks.items[k])
    BY <1>1, <1>3, <1>4
  <1>9. native.host.binds.json = "array" =>
          \A k \in 1..Len(native.host.binds.items) : IsBind(native.host.binds.items[k])
    BY <1>1, <1>3, <1>4
  <1> QED
    BY <1>5, <1>6, <1>7, <1>8, <1>9

\* A loop's position is one of its list's until the loop ends.
LEMMA Position ==
    ASSUME TypeOK, NEW v, IsList(v), v.json = "array"
    PROVE  /\ Len(v.items) \in Nat /\ DOMAIN v.items = 1..Len(v.items)
           /\ index <= Len(v.items) => index \in 1..Len(v.items)
           /\ index \in Nat \ {0}
  <1>1. Sequence(v.items)
    BY Lists
  <1>2. Len(v.items) \in Nat /\ DOMAIN v.items = 1..Len(v.items)
    BY <1>1, SequenceFacts
  <1>3. index \in Nat \ {0}
    BY DEF TypeOK
  <1> QED
    BY <1>2, <1>3

LEMMA MountsEffect ==
    ASSUME TypeOK, native.mounts.json = "array", DecodeMounts
    PROVE  LET items == native.mounts.items
               r == MountTurn(items[index], index)
           IN  /\ TypeOK'
               /\ \/ /\ Turn("mounts", items, r) /\ index \in 1..Len(items)
                     /\ r.bad \in BOOLEAN /\ Sequence(r.findings)
                     /\ r.bad => "Mounts" \in Paths(r.findings) \/ fields["binds"] = Malformed
                     /\ ~r.bad => Decodes(items[index], r.value)
                     /\ relationships' = IF r.bad \/ items[index].type.text # "volume" THEN relationships
                                         ELSE Append(relationships, Reference("volume", {r.value.source}))
                  \/ Leave("mounts", items, "mounts", "command") /\ Merge(TRUE, malformed)
  <1> DEFINE items == native.mounts.items
             r == MountTurn(items[index], index)
             one == Reference("volume", {r.value.source})
  <1>1. CASE /\ Turn("mounts", items, r)
             /\ relationships' = IF r.bad \/ items[index].type.text # "volume" THEN relationships
                                 ELSE Append(relationships, one)
    <2>5. index \in 1..Len(items)
      BY <1>1, NativeLists, Position DEF Turn
    <2>6. IsMount(items[index])
      BY <2>5, Members1
    <2>1. /\ r.bad \in BOOLEAN /\ Sequence(r.findings)
          /\ r.bad => "Mounts" \in Paths(r.findings) \/ fields["binds"] = Malformed
          /\ ~r.bad => Decodes(items[index], r.value)
      BY <2>6, MountTurnFacts
    <2> HIDE DEF one
    <2>2. Sequence(relationships) /\ Sequence(Append(relationships, one))
      BY Appending DEF TypeOK
    <2>3. Sequence(relationships')
      BY <1>1, <2>2
    <2> HIDE DEF r, items
    <2>4. TypeOK'
      BY <1>1, <2>1, <2>3, TurnedTypes
    <2> QED
      BY <1>1, <2>1, <2>4, <2>5 DEF r, items, one
  <1>2. CASE Leave("mounts", items, "mounts", "command") /\ Merge(TRUE, malformed)
    <2>1. "mounts" \in Fields /\ "command" \in Stages
      BY StageSets DEF Fields
    <2>2. malformed \in BOOLEAN
      BY DEF TypeOK
    <2>3. Decision(decoding')
      BY <1>2, <2>2, Merged
    <2> HIDE DEF items
    <2>4. TypeOK'
      BY <1>2, <2>1, <2>3, LeftTypes
    <2> QED
      BY <1>2, <2>4 DEF items
  <1>3. \/ /\ Turn("mounts", items, r)
           /\ relationships' = IF r.bad \/ items[index].type.text # "volume" THEN relationships
                               ELSE Append(relationships, one)
        \/ Leave("mounts", items, "mounts", "command") /\ Merge(TRUE, malformed)
    BY DEF DecodeMounts
  <1> QED
    BY <1>1, <1>2, <1>3

LEMMA SecretsEffect ==
    ASSUME TypeOK, native.secrets.json = "array", DecodeSecrets
    PROVE  LET items == native.secrets.items
               secret == items[index]
               r == SecretTurn(secret, index)
           IN  /\ TypeOK'
               /\ \/ /\ Turn("secrets", items, r) /\ index \in 1..Len(items)
                     /\ r.bad \in BOOLEAN /\ Sequence(r.findings)
                     /\ r.bad => "Secrets" \in Paths(r.findings)
                     /\ ~r.bad => r.value = ValueOf(decode_native_reference(secret.id))
                                            \cup ValueOf(decode_native_reference(secret.name))
                     /\ relationships' = IF r.bad THEN relationships
                                         ELSE Append(relationships, Reference("secret", r.value))
                  \/ Leave("secrets", items, "secrets", "relationships") /\ Merge(TRUE, malformed)
  <1> DEFINE items == native.secrets.items
             secret == items[index]
             r == SecretTurn(secret, index)
             one == Reference("secret", r.value)
  <1>1. CASE /\ Turn("secrets", items, r)
             /\ relationships' = IF r.bad THEN relationships ELSE Append(relationships, one)
    <2>5. index \in 1..Len(items)
      BY <1>1, NativeLists, Position DEF Turn
    <2>6. IsGrant(secret)
      BY <2>5, Members1
    <2>1. /\ r.bad \in BOOLEAN /\ Sequence(r.findings)
          /\ r.bad => "Secrets" \in Paths(r.findings)
          /\ ~r.bad => r.value = ValueOf(decode_native_reference(secret.id))
                                 \cup ValueOf(decode_native_reference(secret.name))
      BY <2>6, SecretTurnFacts
    <2> HIDE DEF one
    <2>2. Sequence(relationships) /\ Sequence(Append(relationships, one))
      BY Appending DEF TypeOK
    <2>3. Sequence(relationships')
      BY <1>1, <2>2
    <2> HIDE DEF r, items
    <2>4. TypeOK'
      BY <1>1, <2>1, <2>3, TurnedTypes
    <2> QED
      BY <1>1, <2>1, <2>4, <2>5 DEF r, items, one
  <1>2. CASE Leave("secrets", items, "secrets", "relationships") /\ Merge(TRUE, malformed)
    <2>1. "secrets" \in Fields /\ "relationships" \in Stages
      BY StageSets DEF Fields
    <2>2. malformed \in BOOLEAN
      BY DEF TypeOK
    <2>3. Decision(decoding')
      BY <1>2, <2>2, Merged
    <2> HIDE DEF items
    <2>4. TypeOK'
      BY <1>2, <2>1, <2>3, LeftTypes
    <2> QED
      BY <1>2, <2>4 DEF items
  <1>3. \/ /\ Turn("secrets", items, r)
           /\ relationships' = IF r.bad THEN relationships ELSE Append(relationships, one)
        \/ Leave("secrets", items, "secrets", "relationships") /\ Merge(TRUE, malformed)
    BY DEF DecodeSecrets
  <1> QED
    BY <1>1, <1>2, <1>3

\* The relationships a list of names is pushed as.
LEMMA MappedSequence ==
    ASSUME NEW s, Sequence(s)
    PROVE  Sequence([k \in DOMAIN s |-> Reference("container", {s[k]})])
  <1> DEFINE pushed == [k \in DOMAIN s |-> Reference("container", {s[k]})]
  <1>1. Len(s) \in Nat /\ DOMAIN s = 1..Len(s)
    BY SequenceFacts
  <1>2. pushed = [k \in 1..Len(s) |-> pushed[k]] /\ DOMAIN pushed = 1..Len(s)
    BY <1>1
  <1> HIDE DEF pushed
  <1>3. \A k \in 1..Len(s) : pushed[k] \in Range(pushed)
    BY <1>2 DEF Range
  <1>4. pushed \in [1..Len(s) -> Range(pushed)]
    BY <1>2, <1>3
  <1> QED
    BY <1>1, <1>4 DEF Sequence, pushed

LEMMA DependenciesEffect ==
    ASSUME TypeOK, native.dependencies.json = "array", DecodeDependencies
    PROVE  LET items == native.dependencies.items
               reference == decode_native_reference(items[index])
               told == Reported(reference, "Dependencies", index) \o Bad("Dependencies", 0)
           IN  /\ TypeOK' /\ stage = "dependencies" /\ native' = native /\ policy' = policy
               /\ \/ /\ index \in 1..Len(items) /\ IsObserved(reference)
                     /\ Turn("dependencies", items, Pushes(reference.value, NoFindings))
                     /\ Sequence(NoFindings) /\ relationships' = relationships
                  \/ /\ Begin("secret_list") /\ relationships' = relationships
                     /\ fields' = With(fields, "dependencies", Malformed)
                     /\ Merge(TRUE, TRUE) /\ Paths(findings') = Paths(findings) \cup {"Dependencies"}
                  \/ /\ Begin("secret_list") /\ index > Len(items)
                     /\ fields' = With(fields, "dependencies", Observed(decoded))
                     /\ relationships' = relationships
                                         \o [k \in DOMAIN decoded |-> Reference("container", {decoded[k]})]
                     /\ Merge(TRUE, FALSE) /\ findings' = findings
  <1> DEFINE items == native.dependencies.items
             reference == decode_native_reference(items[index])
             one == Reported(reference, "Dependencies", index)
             two == Bad("Dependencies", 0)
             told == one \o two
             r == Pushes(reference.value, NoFindings)
             pushed == [k \in DOMAIN decoded |-> Reference("container", {decoded[k]})]
  <1>1. "dependencies" \in Fields /\ "secret_list" \in Stages
    BY StageSets DEF Fields
  <1>2. CASE /\ index <= Len(items) /\ IsObserved(reference)
             /\ Turn("dependencies", items, r) /\ relationships' = relationships
    <2>1. index \in 1..Len(items)
      BY <1>2, NativeLists, Position
    <2>2. r.bad \in BOOLEAN /\ r.findings = NoFindings
      BY TurnFacts
    <2>3. Sequence(NoFindings)
      BY FindingLists
    <2>4. Sequence(relationships') /\ Sequence(r.findings)
      BY <1>2, <2>2, <2>3 DEF TypeOK
    <2>5. stage = "dependencies" /\ native' = native /\ policy' = policy
      BY <1>2 DEF Turn
    <2> HIDE DEF r, items
    <2>6. TypeOK'
      BY <1>2, <2>2, <2>4, TurnedTypes
    <2> QED
      BY <1>2, <2>1, <2>3, <2>5, <2>6 DEF r, items
  <1>3. CASE /\ stage = "dependencies" /\ fields' = With(fields, "dependencies", Malformed)
             /\ findings' = findings \o told /\ Merge(TRUE, TRUE) /\ Begin("secret_list")
             /\ native' = native /\ policy' = policy /\ relationships' = relationships
    <2>1. Sequence(one) /\ Sequence(two) /\ Paths(two) = {"Dependencies"}
      BY FindingLists
    <2>2. Paths(one) \subseteq {"Dependencies"}
      BY FindingLists
    <2> HIDE DEF one, two
    <2>3. Sequence(told) /\ Paths(told) = {"Dependencies"}
      BY <2>1, <2>2, Concatenation
    <2> HIDE DEF told
    <2>4. Sequence(findings') /\ Paths(findings') = Paths(findings) \cup {"Dependencies"}
      BY <1>3, <2>3, Told1
    <2>5. Decision(decoding')
      BY <1>3, Merged
    <2>6. Record(fields') /\ Sequence(relationships')
      BY <1>1, <1>3, FieldSet DEF TypeOK
    <2>7. TypeOK'
      BY <1>1, <1>3, <2>4, <2>5, <2>6, BegunTypes
    <2> QED
      BY <1>3, <2>4, <2>7
  <1>4. CASE /\ stage = "dependencies" /\ index > Len(items)
             /\ fields' = With(fields, "dependencies", Observed(decoded))
             /\ relationships' = relationships \o pushed
             /\ Merge(TRUE, FALSE) /\ Begin("secret_list")
             /\ native' = native /\ policy' = policy /\ findings' = findings
    <2>1. Sequence(pushed)
      BY MappedSequence DEF TypeOK
    <2> HIDE DEF pushed
    <2>2. Sequence(relationships) /\ Sequence(findings')
      BY <1>4 DEF TypeOK
    <2>3. Sequence(relationships \o pushed)
      BY <2>1, <2>2, Concatenation
    <2>5. Decision(decoding')
      BY <1>4, Merged
    <2>6. Record(fields')
      BY <1>1, <1>4, FieldSet DEF TypeOK
    <2>8. Sequence(relationships')
      BY <1>4, <2>3
    <2>7. TypeOK'
      BY <1>1, <1>4, <2>2, <2>5, <2>6, <2>8, BegunTypes
    <2> QED
      BY <1>4, <2>7 DEF pushed
  <1>5. \/ /\ index <= Len(items) /\ IsObserved(reference)
           /\ Turn("dependencies", items, r) /\ relationships' = relationships
        \/ /\ stage = "dependencies" /\ fields' = With(fields, "dependencies", Malformed)
           /\ findings' = findings \o one \o two /\ Merge(TRUE, TRUE) /\ Begin("secret_list")
           /\ native' = native /\ policy' = policy /\ relationships' = relationships
        \/ /\ stage = "dependencies" /\ index > Len(items)
           /\ fields' = With(fields, "dependencies", Observed(decoded))
           /\ relationships' = relationships \o pushed
           /\ Merge(TRUE, FALSE) /\ Begin("secret_list")
           /\ native' = native /\ policy' = policy /\ findings' = findings
    BY DEF DecodeDependencies, With
  <1>6. findings \o one \o two = findings \o told
    <2>1. Sequence(one) /\ Sequence(two) /\ Sequence(findings)
      BY FindingLists DEF TypeOK
    <2> DEFINE U == Range(findings) \cup Range(one) \cup Range(two)
    <2> HIDE DEF one, two
    <2>2. findings \in Seq(U) /\ one \in Seq(U) /\ two \in Seq(U)
      BY <2>1, SequenceFacts
    <2> HIDE DEF U
    <2> QED
      BY <2>2
  <1> QED
    BY <1>2, <1>3, <1>4, <1>5, <1>6

LEMMA SecretListEffect ==
    ASSUME TypeOK, DecodeSecretList
    PROVE  /\ TypeOK' /\ stage = "secret_list" /\ native' = native /\ policy' = policy
           /\ relationships' = relationships
           /\ \A f \in Fields \ {"secrets"} : fields'[f] = fields[f]
           /\ index' = 1 /\ decoded' = <<>> /\ ~malformed'
           /\ \/ /\ native.config = "object" /\ native.secrets.json = "array" /\ stage' = "secrets"
                 /\ Merge(FALSE, FALSE) /\ fields' = fields /\ findings' = findings
              \/ /\ native.config # "object" \/ native.secrets.json # "array"
                 /\ stage' = "relationships" /\ Merge(FALSE, FALSE)
                 /\ fields'["secrets"] = Absent /\ Paths(findings') = Paths(findings)
              \/ /\ native.config # "object" \/ native.secrets.json # "array"
                 /\ stage' = "relationships" /\ Merge(TRUE, TRUE)
                 /\ fields'["secrets"] = Malformed /\ Paths(findings) \subseteq Paths(findings')
                 /\ native.config = "other" \/ "Secrets" \in Paths(findings')
  <1> DEFINE v == IF native.config = "object" THEN native.secrets
                  ELSE IF native.config = "none" THEN None ELSE Other
             told == IF v = None \/ native.config = "other" THEN NoFindings ELSE Bad("Secrets", 0)
             state == IF v = None THEN Absent ELSE Malformed
  <1>1. /\ stage = "secret_list" /\ Merge(v = Other, v = Other)
        /\ native' = native /\ policy' = policy /\ relationships' = relationships
        /\ IF v.json = "array" THEN Begin("secrets") /\ fields' = fields /\ findings' = findings
           ELSE /\ fields' = With(fields, "secrets", state) /\ findings' = findings \o told
                /\ Begin("relationships")
    BY DEF DecodeSecretList, With
  <1>2. "secrets" \in Fields /\ {"secrets", "relationships"} \subseteq Stages
    BY StageSets DEF Fields
  <1>3. Decision(decoding')
    BY <1>1 DEF Merge, Decision, TypeOK
  <1>4. v.json = "array" => native.config = "object" /\ native.secrets.json = "array"
    BY DEF None, Other
  <1>5. v.json # "array" => native.config # "object" \/ native.secrets.json # "array"
    OBVIOUS
  <1>6. v = Other => Merge(TRUE, TRUE)
    BY <1>1 DEF Merge
  <1>7. v # Other => Merge(FALSE, FALSE)
    BY <1>1 DEF Merge
  <1>8. IsList(v)
    BY NativeLists DEF IsList
  <1>9. Sequence(told) /\ (told = NoFindings => Paths(told) = {}) /\ (told # NoFindings => Paths(told) = {"Secrets"})
    BY FindingLists
  <1>10. v # None => native.config = "other" \/ told = Bad("Secrets", 0)
    OBVIOUS
  <1>11. v = None => told = NoFindings /\ state = Absent
    OBVIOUS
  <1>12. v # None => state = Malformed
    OBVIOUS
  <1>13. Paths(Bad("Secrets", 0)) = {"Secrets"}
    BY FindingLists
  <1> HIDE DEF v, told, state
  <1>14. CASE v.json = "array"
    <2>1. Begin("secrets") /\ fields' = fields /\ findings' = findings
      BY <1>1, <1>14
    <2>2. Record(fields') /\ Sequence(findings') /\ Sequence(relationships')
      BY <1>1, <2>1 DEF TypeOK
    <2>3. TypeOK'
      BY <1>1, <1>2, <1>3, <2>1, <2>2, BegunTypes
    <2>4. stage' = "secrets" /\ index' = 1 /\ decoded' = <<>> /\ ~malformed'
      BY <2>1, Begun
    <2>5. v # Other
      BY <1>8, <1>14, Lists
    <2> QED
      BY <1>1, <1>4, <1>7, <1>14, <2>1, <2>3, <2>4, <2>5
  <1>15. CASE v.json # "array"
    <2>1. /\ fields' = With(fields, "secrets", state) /\ findings' = findings \o told
          /\ Begin("relationships")
      BY <1>1, <1>15
    <2>2. Sequence(findings') /\ Paths(findings') = Paths(findings) \cup Paths(told)
      BY <1>9, <2>1, Told1
    <2>3. Sequence(relationships')
      BY <1>1 DEF TypeOK
    <2>4. /\ Record(fields') /\ fields'["secrets"] = state
          /\ \A f \in Fields : f # "secrets" => fields'[f] = fields[f]
      BY <1>2, <2>1, FieldSet DEF TypeOK
    <2>5. TypeOK'
      BY <1>1, <1>2, <1>3, <2>1, <2>2, <2>3, <2>4, BegunTypes
    <2>6. stage' = "relationships" /\ index' = 1 /\ decoded' = <<>> /\ ~malformed'
      BY <2>1, Begun
    <2>7. v \in {None, Other} /\ None # Other
      BY <1>8, <1>15, Lists
    <2>8. CASE v = None
      <3>1. fields'["secrets"] = Absent /\ Paths(findings') = Paths(findings)
        BY <1>9, <1>11, <2>2, <2>4, <2>8
      <3> QED
        BY <1>1, <1>5, <1>7, <1>15, <2>4, <2>5, <2>6, <2>7, <2>8, <3>1
    <2>9. CASE v = Other
      <3>1. fields'["secrets"] = Malformed /\ Paths(findings) \subseteq Paths(findings')
        BY <1>12, <2>2, <2>4, <2>7, <2>9
      <3>2. native.config = "other" \/ "Secrets" \in Paths(findings')
        BY <1>10, <1>13, <2>2, <2>7, <2>9
      <3> QED
        BY <1>1, <1>5, <1>6, <1>15, <2>4, <2>5, <2>6, <2>7, <2>9, <3>1, <3>2
    <2> QED
      BY <2>7, <2>8, <2>9
  <1> QED
    BY <1>14, <1>15

\* relationship_field.
LEMMA RelationshipsEffect ==
    ASSUME TypeOK, DecodeRelationships
    PROVE  /\ TypeOK' /\ stage = "relationships" /\ stage' = "done" /\ native' = native /\ policy' = policy
           /\ relationships' = relationships /\ decoding' = decoding /\ findings' = findings
           /\ \A f \in Fields \ {"relationships"} : fields'[f] = fields[f]
           /\ ~malformed'
           /\ fields'["relationships"] = IF decoding.malformed THEN Malformed
                                         ELSE IF ~decoding.supplied THEN Absent
                                         ELSE Observed(relationships)
  <1> DEFINE state == IF decoding.malformed THEN Malformed
                      ELSE IF ~decoding.supplied THEN Absent
                      ELSE Observed(relationships)
  <1>1. /\ stage = "relationships" /\ Begin("done") /\ native' = native /\ policy' = policy
        /\ relationships' = relationships /\ decoding' = decoding /\ findings' = findings
        /\ fields' = With(fields, "relationships", state)
    BY DEF DecodeRelationships, With
  <1>2. "relationships" \in Fields /\ "done" \in Stages
    BY StageSets DEF Fields
  <1> HIDE DEF state
  <1>3. /\ Record(fields') /\ fields'["relationships"] = state
        /\ \A f \in Fields : f # "relationships" => fields'[f] = fields[f]
    BY <1>1, <1>2, FieldSet DEF TypeOK
  <1>4. TypeOK'
    BY <1>1, <1>2, <1>3, BegunTypes DEF TypeOK
  <1>5. stage' = "done" /\ ~malformed'
    BY <1>1, Begun
  <1> QED
    BY <1>1, <1>3, <1>4, <1>5 DEF state

\* The code between the configuration and the network settings.
LEMMA ReferencesEffect ==
    ASSUME TypeOK, DecodeReferences
    PROVE  LET local == optional_string_field(native.image)
               configured == optional_string_field(native.image_name)
               pod == decode_native_reference(native.pod)
               Push(kind, f) == IF IsObserved(f) THEN <<Reference(kind, {f.value})>> ELSE <<>>
           IN  /\ stage = "references" /\ stage' = "network_settings" /\ native' = native /\ policy' = policy
               /\ ~malformed'
               /\ fields'["local_image"] = local /\ fields'["configured_image"] = configured
               /\ fields'["pod"] = pod
               /\ \A f \in Fields : f \notin {"local_image", "configured_image", "pod"} => fields'[f] = fields[f]
               /\ relationships' = Push("image", configured) \o Push("pod", pod)
               /\ decoding'.supplied = (configured # Absent \/ pod # Absent)
               /\ decoding'.malformed = (configured = Malformed \/ pod = Malformed)
               /\ Paths(findings) \subseteq Paths(findings')
               /\ local = Malformed => "Image" \in Paths(findings')
               /\ configured = Malformed => "ImageName" \in Paths(findings')
               /\ pod = Malformed => "Pod" \in Paths(findings')
  <1> DEFINE local == optional_string_field(native.image)
             configured == optional_string_field(native.image_name)
             pod == decode_native_reference(native.pod)
             Push(kind, f) == IF IsObserved(f) THEN <<Reference(kind, {f.value})>> ELSE <<>>
             a == Push("image", configured)
             b == Push("pod", pod)
             x == Reported(local, "Image", 0)
             y == Reported(configured, "ImageName", 0)
             z == Reported(pod, "Pod", 0)
  <1>1. /\ stage = "references" /\ Begin("network_settings") /\ native' = native /\ policy' = policy
        /\ fields' = With(With(With(fields, "local_image", local), "configured_image", configured), "pod", pod)
        /\ relationships' = a \o b
        /\ decoding' = [supplied |-> configured # Absent \/ pod # Absent,
                        malformed |-> configured = Malformed \/ pod = Malformed]
        /\ findings' = findings \o x \o y \o z
    BY DEF DecodeReferences, With
  <1>2. /\ decoding'.supplied = (configured # Absent \/ pod # Absent)
        /\ decoding'.malformed = (configured = Malformed \/ pod = Malformed)
    BY <1>1
  <1>3. Sequence(x) /\ Sequence(y) /\ Sequence(z)
    BY FindingLists
  <1>4. /\ local = Malformed => Paths(x) = {"Image"}
        /\ configured = Malformed => Paths(y) = {"ImageName"}
        /\ pod = Malformed => Paths(z) = {"Pod"}
    BY FindingLists
  <1>5. relationships' = Push("image", configured) \o Push("pod", pod)
    BY <1>1
  <1> HIDE DEF local, configured, pod, a, b, x, y, z
  <1>6. {"local_image", "configured_image", "pod"} \subseteq Fields
    BY DEF Fields
  <1>7. /\ fields'["local_image"] = local /\ fields'["configured_image"] = configured
        /\ fields'["pod"] = pod
        /\ \A f \in Fields : f \notin {"local_image", "configured_image", "pod"} => fields'[f] = fields[f]
    BY <1>1, <1>6 DEF With, TypeOK, Record
  <1>8. Paths(findings') = Paths(findings) \cup Paths(x) \cup Paths(y) \cup Paths(z)
    <2>1. Sequence(findings \o x) /\ Paths(findings \o x) = Paths(findings) \cup Paths(x)
      BY <1>3, Concatenation DEF TypeOK
    <2>2. Sequence(findings \o x \o y) /\ Paths(findings \o x \o y) = Paths(findings) \cup Paths(x) \cup Paths(y)
      BY <1>3, <2>1, Concatenation
    <2>3. Paths(findings \o x \o y \o z) = Paths(findings) \cup Paths(x) \cup Paths(y) \cup Paths(z)
      BY <1>3, <2>2, Concatenation
    <2> QED
      BY <1>1, <2>3
  <1>9. stage' = "network_settings" /\ ~malformed'
    BY <1>1, Begun
  <1> QED
    BY <1>1, <1>2, <1>4, <1>5, <1>7, <1>8, <1>9 DEF local, configured, pod

-----------------------------------------------------------------------------
(* The shape of the state is an invariant *)

LEMMA ShapeNetworkSettings == ShapeInv /\ DecodeNetworkSettings => ShapeInv'
  <1> SUFFICES ASSUME ShapeInv, DecodeNetworkSettings
               PROVE  ShapeInv'
    OBVIOUS
  <1> USE DEF ShapeInv
  <1>1. /\ stage = "network_settings" /\ native' = native /\ TypeOK'
        /\ \A f \in Fields \ {"networks", "attachments"} : fields'[f] = fields[f]
    BY NetworkSettingsEffect
  <1>2. \/ stage' = "networking"
        \/ /\ stage' = "networks" /\ fields' = fields /\ ~IsObserved(fields["pod"])
           /\ native.settings = "object" /\ native.networks.json = "array"
    BY NetworkSettingsEffect, Begun
  <1>3. ListsOK'
    BY <1>1, <1>2 DEF ListsOK
  <1>4. Untouched'
    BY <1>1, <1>2, StageSets DEF Untouched, Fields
  <1> QED
    BY <1>1, <1>3, <1>4

LEMMA ShapeNetworks == ShapeInv /\ DecodeNetworks => ShapeInv'
  <1> SUFFICES ASSUME ShapeInv, DecodeNetworks
               PROVE  ShapeInv'
    OBVIOUS
  <1> USE DEF ShapeInv
  <1> DEFINE items == native.networks.items
             r == NetworkTurn(items[index], index)
  <1>1. TypeOK'
    BY NetworksEffect
  <1>2. CASE Turn("networks", items, r)
    <2>1. stage' = stage /\ native' = native /\ fields' = fields
      BY <1>2 DEF Turn
    <2> QED
      BY <1>1, <2>1, SameStage
  <1>3. CASE Leave("networks", items, "networks", "attachments")
    <2>1. "networks" \in Fields
      BY DEF Fields
    <2> HIDE DEF items
    <2>2. /\ stage = "networks" /\ stage' = "attachments" /\ native' = native
          /\ \A f \in Fields : f # "networks" => fields'[f] = fields[f]
      BY <1>3, <2>1, Left
    <2>3. "pod" \in Fields
      BY DEF Fields
    <2>4. ListsOK'
      BY <2>2, <2>3 DEF ListsOK
    <2>5. Untouched'
      BY <2>2, StageSets DEF Untouched, Fields
    <2> QED
      BY <1>1, <2>4, <2>5
  <1> QED
    BY <1>2, <1>3, NetworksEffect

LEMMA ShapeAttachments == ShapeInv /\ DecodeAttachments => ShapeInv'
  <1> SUFFICES ASSUME ShapeInv, DecodeAttachments
               PROVE  ShapeInv'
    OBVIOUS
  <1> USE DEF ShapeInv
  <1> DEFINE items == native.networks.items
             r == AttachmentTurn(items[index], index)
  <1>1. TypeOK'
    BY AttachmentsEffect
  <1>0. "attachments" \in Fields
    BY DEF Fields
  <1>2. CASE Turn("attachments", items, r)
    <2>1. stage' = stage /\ native' = native /\ fields' = fields
      BY <1>2 DEF Turn
    <2> QED
      BY <1>1, <2>1, SameStage
  <1>3. CASE Leave("attachments", items, "attachments", "networking")
    <2> HIDE DEF items
    <2>2. /\ stage = "attachments" /\ stage' = "networking" /\ native' = native
          /\ \A f \in Fields : f # "attachments" => fields'[f] = fields[f]
      BY <1>0, <1>3, Left
    <2>4. ListsOK'
      BY <2>2 DEF ListsOK
    <2>5. Untouched'
      BY <2>2, StageSets DEF Untouched, Fields
    <2> QED
      BY <1>1, <2>4, <2>5
  <1>4. CASE /\ stage = "attachments" /\ fields' = With(fields, "attachments", Malformed)
             /\ Begin("networking") /\ native' = native
    <2>2. stage' = "networking" /\ \A f \in Fields : f # "attachments" => fields'[f] = fields[f]
      BY <1>0, <1>4, FieldSet DEF TypeOK, Begin
    <2>4. ListsOK'
      BY <2>2 DEF ListsOK
    <2>5. Untouched'
      BY <1>4, <2>2, StageSets DEF Untouched, Fields
    <2> QED
      BY <1>1, <2>4, <2>5
  <1> QED
    BY <1>2, <1>3, <1>4, AttachmentsEffect

LEMMA ShapeNetworking == ShapeInv /\ DecodeNetworking => ShapeInv'
  <1> SUFFICES ASSUME ShapeInv, DecodeNetworking
               PROVE  ShapeInv'
    OBVIOUS
  <1> USE DEF ShapeInv
  <1>1. /\ stage = "networking" /\ stage' = "host_binds" /\ TypeOK'
        /\ \A f \in Fields \ {"networking"} : fields'[f] = fields[f]
    BY NetworkingEffect DEF Begin
  <1>2. ListsOK'
    BY <1>1 DEF ListsOK
  <1>3. Untouched'
    BY <1>1, StageSets DEF Untouched, Fields
  <1> QED
    BY <1>1, <1>2, <1>3

LEMMA ShapeHostBinds == ShapeInv /\ DecodeHostBinds => ShapeInv'
  <1> SUFFICES ASSUME ShapeInv, DecodeHostBinds
               PROVE  ShapeInv'
    OBVIOUS
  <1> USE DEF ShapeInv
  <1>1. /\ stage = "host_binds" /\ TypeOK' /\ native' = native
        /\ \A f \in Fields \ {"binds"} : fields'[f] = fields[f]
        /\ \/ stage' = "mount_list"
           \/ stage' = "binds" /\ native.host.json = "object" /\ native.host.binds.json = "array"
    BY HostBindsEffect
  <1>2. ListsOK'
    BY <1>1 DEF ListsOK
  <1>3. Untouched'
    BY <1>1, StageSets DEF Untouched, Fields
  <1> QED
    BY <1>1, <1>2, <1>3

LEMMA ShapeBinds == ShapeInv /\ DecodeBinds => ShapeInv'
  <1> SUFFICES ASSUME ShapeInv, DecodeBinds
               PROVE  ShapeInv'
    OBVIOUS
  <1> USE DEF ShapeInv
  <1>0. native.host.binds.json = "array" /\ "binds" \in Fields
    BY DEF DecodeBinds, ListsOK, Fields
  <1> DEFINE items == native.host.binds.items
  <1>1. TypeOK' /\ stage = "binds" /\ native' = native
    BY <1>0, BindsEffect
  <1>2. CASE stage' = "binds" /\ fields' = fields
    BY <1>1, <1>2, SameStage
  <1>3. CASE Leave("binds", items, "binds", "mount_list")
    <2> HIDE DEF items
    <2>2. /\ stage' = "mount_list"
          /\ \A f \in Fields : f # "binds" => fields'[f] = fields[f]
      BY <1>0, <1>3, Left
    <2>4. ListsOK'
      BY <2>2 DEF ListsOK
    <2>5. Untouched'
      BY <1>1, <2>2, StageSets DEF Untouched, Fields
    <2> QED
      BY <1>1, <2>4, <2>5
  <1> QED
    BY <1>0, <1>2, <1>3, BindsEffect

LEMMA ShapeMountList == ShapeInv /\ DecodeMountList => ShapeInv'
  <1> SUFFICES ASSUME ShapeInv, DecodeMountList
               PROVE  ShapeInv'
    OBVIOUS
  <1> USE DEF ShapeInv
  <1>1. /\ stage = "mount_list" /\ TypeOK' /\ native' = native
        /\ \A f \in Fields \ {"mounts"} : fields'[f] = fields[f]
        /\ stage' = "command" \/ (stage' = "mounts" /\ fields' = fields /\ native.mounts.json = "array")
    BY MountListEffect
  <1>2. ListsOK'
    BY <1>1 DEF ListsOK
  <1>3. Untouched'
    BY <1>1, StageSets DEF Untouched, Fields
  <1> QED
    BY <1>1, <1>2, <1>3

LEMMA ShapeMounts == ShapeInv /\ DecodeMounts => ShapeInv'
  <1> SUFFICES ASSUME ShapeInv, DecodeMounts
               PROVE  ShapeInv'
    OBVIOUS
  <1> USE DEF ShapeInv
  <1> DEFINE items == native.mounts.items
             r == MountTurn(items[index], index)
  <1>0. native.mounts.json = "array" /\ "mounts" \in Fields
    BY DEF DecodeMounts, ListsOK, Fields
  <1>1. TypeOK'
    BY <1>0, MountsEffect
  <1>2. CASE Turn("mounts", items, r)
    <2>1. stage' = stage /\ native' = native /\ fields' = fields
      BY <1>2 DEF Turn
    <2> QED
      BY <1>1, <2>1, SameStage
  <1>3. CASE Leave("mounts", items, "mounts", "command")
    <2> HIDE DEF items
    <2>2. /\ stage = "mounts" /\ stage' = "command"
          /\ \A f \in Fields : f # "mounts" => fields'[f] = fields[f]
      BY <1>0, <1>3, Left
    <2>4. ListsOK'
      BY <2>2 DEF ListsOK
    <2>5. Untouched'
      BY <2>2, StageSets DEF Untouched, Fields
    <2> QED
      BY <1>1, <2>4, <2>5
  <1> QED
    BY <1>0, <1>2, <1>3, MountsEffect

\* The steps that decode the command, all at once.
EvidenceNext ==
    ParseCommand \/ ScanOption \/ EndOptions \/ DecodeImageHint \/ CorrelateMount \/ EndCorrelation

LEMMA EvidenceSteps == TypeOK /\ ListsOK /\ EvidenceNext => EvidenceStep
  BY ParseCommandEffect, ScanOptionEffect, EndOptionsEffect, ImageHintEffect, CorrelateEffect,
     EndCorrelationEffect DEF EvidenceNext

LEMMA ShapeEvidence == ShapeInv /\ EvidenceNext => ShapeInv'
  <1> SUFFICES ASSUME ShapeInv, EvidenceNext
               PROVE  ShapeInv'
    OBVIOUS
  <1> USE DEF ShapeInv
  <1>1. EvidenceStep
    BY EvidenceSteps
  <1>2. /\ TypeOK' /\ native' = native
        /\ stage \in EvidenceStages /\ stage' \in (EvidenceStages \cup {"dependency_list"}) \ {"command"}
        /\ stage' = "scan" => native.config = "object" /\ native.command.json = "array"
        /\ \A f \in Fields \ EvidenceFields : fields'[f] = fields[f]
    BY <1>1 DEF EvidenceStep
  <1>3. ListsOK'
    BY <1>2 DEF ListsOK, EvidenceStages
  <1>4. Untouched'
    BY <1>2, StageSets DEF Untouched, Fields, EvidenceStages, EvidenceFields
  <1> QED
    BY <1>2, <1>3, <1>4

LEMMA ShapeDependencyList == ShapeInv /\ DecodeDependencyList => ShapeInv'
  <1> SUFFICES ASSUME ShapeInv, DecodeDependencyList
               PROVE  ShapeInv'
    OBVIOUS
  <1> USE DEF ShapeInv
  <1>1. /\ stage = "dependency_list" /\ TypeOK' /\ native' = native
        /\ \A f \in Fields \ {"dependencies"} : fields'[f] = fields[f]
        /\ \/ stage' = "secret_list"
           \/ stage' = "dependencies" /\ fields' = fields /\ native.dependencies.json = "array"
    BY DependencyListEffect
  <1>2. ListsOK'
    BY <1>1 DEF ListsOK
  <1>3. Untouched'
    BY <1>1, StageSets DEF Untouched, Fields
  <1> QED
    BY <1>1, <1>2, <1>3

LEMMA ShapeDependencies == ShapeInv /\ DecodeDependencies => ShapeInv'
  <1> SUFFICES ASSUME ShapeInv, DecodeDependencies
               PROVE  ShapeInv'
    OBVIOUS
  <1> USE DEF ShapeInv
  <1> DEFINE items == native.dependencies.items
             reference == decode_native_reference(items[index])
             r == Pushes(reference.value, NoFindings)
  <1>0. native.dependencies.json = "array" /\ "dependencies" \in Fields
    BY DEF DecodeDependencies, ListsOK, Fields, Turn
  <1>1. TypeOK' /\ stage = "dependencies" /\ native' = native
    BY <1>0, DependenciesEffect
  <1>2. CASE Turn("dependencies", items, r)
    <2>1. stage' = stage /\ native' = native /\ fields' = fields
      BY <1>2 DEF Turn
    <2> QED
      BY <1>1, <2>1, SameStage
  <1>3. CASE Begin("secret_list") /\ \E v : fields' = With(fields, "dependencies", v)
    <2>2. stage' = "secret_list" /\ \A f \in Fields : f # "dependencies" => fields'[f] = fields[f]
      BY <1>0, <1>3, FieldSet DEF TypeOK, Begin
    <2>4. ListsOK'
      BY <2>2 DEF ListsOK
    <2>5. Untouched'
      BY <1>1, <2>2, StageSets DEF Untouched, Fields
    <2> QED
      BY <1>1, <2>4, <2>5
  <1> QED
    BY <1>0, <1>2, <1>3, DependenciesEffect

LEMMA ShapeSecretList == ShapeInv /\ DecodeSecretList => ShapeInv'
  <1> SUFFICES ASSUME ShapeInv, DecodeSecretList
               PROVE  ShapeInv'
    OBVIOUS
  <1> USE DEF ShapeInv
  <1>1. /\ stage = "secret_list" /\ TypeOK' /\ native' = native
        /\ \A f \in Fields \ {"secrets"} : fields'[f] = fields[f]
        /\ \/ stage' = "relationships"
           \/ stage' = "secrets" /\ fields' = fields /\ native.config = "object" /\ native.secrets.json = "array"
    BY SecretListEffect
  <1>2. ListsOK'
    BY <1>1 DEF ListsOK
  <1>3. Untouched'
    BY <1>1, StageSets DEF Untouched, Fields
  <1> QED
    BY <1>1, <1>2, <1>3

LEMMA ShapeSecrets == ShapeInv /\ DecodeSecrets => ShapeInv'
  <1> SUFFICES ASSUME ShapeInv, DecodeSecrets
               PROVE  ShapeInv'
    OBVIOUS
  <1> USE DEF ShapeInv
  <1> DEFINE items == native.secrets.items
             r == SecretTurn(items[index], index)
  <1>0. native.secrets.json = "array" /\ "secrets" \in Fields
    BY DEF DecodeSecrets, ListsOK, Fields
  <1>1. TypeOK'
    BY <1>0, SecretsEffect
  <1>2. CASE Turn("secrets", items, r)
    <2>1. stage' = stage /\ native' = native /\ fields' = fields
      BY <1>2 DEF Turn
    <2> QED
      BY <1>1, <2>1, SameStage
  <1>3. CASE Leave("secrets", items, "secrets", "relationships")
    <2> HIDE DEF items
    <2>2. /\ stage = "secrets" /\ stage' = "relationships"
          /\ \A f \in Fields : f # "secrets" => fields'[f] = fields[f]
      BY <1>0, <1>3, Left
    <2>4. ListsOK'
      BY <2>2 DEF ListsOK
    <2>5. Untouched'
      BY <2>2, StageSets DEF Untouched, Fields
    <2> QED
      BY <1>1, <2>4, <2>5
  <1> QED
    BY <1>0, <1>2, <1>3, SecretsEffect

LEMMA ShapeRelationships == ShapeInv /\ DecodeRelationships => ShapeInv'
  <1> SUFFICES ASSUME ShapeInv, DecodeRelationships
               PROVE  ShapeInv'
    OBVIOUS
  <1> USE DEF ShapeInv
  <1>1. stage' = "done" /\ TypeOK'
    BY RelationshipsEffect
  <1>2. ListsOK'
    BY <1>1 DEF ListsOK
  <1>3. Untouched'
    BY <1>1, StageSets DEF Untouched
  <1> QED
    BY <1>1, <1>2, <1>3

LEMMA ShapeStep == ShapeInv /\ [Next]_vars => ShapeInv'
  <1>1. ShapeInv /\ UNCHANGED vars => ShapeInv'
    BY DEF ShapeInv, TypeOK, ListsOK, Untouched, vars
  <1> QED
    BY <1>1, ShapeConfiguration, ShapeEnvironment, ShapeReferences, ShapeNetworkSettings, ShapeNetworks,
       ShapeAttachments, ShapeNetworking, ShapeHostBinds, ShapeBinds, ShapeMountList, ShapeMounts,
       ShapeEvidence, ShapeDependencyList, ShapeDependencies, ShapeSecretList, ShapeSecrets,
       ShapeRelationships DEF Next, EvidenceNext

-----------------------------------------------------------------------------
(* No field is malformed in silence *)

LEMMA ExplainingFacts ==
    /\ Explaining["environment"] = {"Config", "Env"} /\ Explaining["local_image"] = {"Image"}
    /\ Explaining["configured_image"] = {"ImageName"} /\ Explaining["pod"] = {"Pod"}
    /\ Explaining["networks"] = {"NetworkSettings", "Networks"}
    /\ Explaining["attachments"] = {"NetworkSettings", "Networks"}
    /\ Explaining["networking"] = {"HostConfig", "NetworkSettings", "Networks"}
    /\ Explaining["binds"] = {"Binds"} /\ Explaining["mounts"] = {"Mounts", "Binds"}
    /\ Explaining["relabel_hints"] = {"CreateCommand"} /\ Explaining["creation"] = {"CreateCommand"}
    /\ Explaining["dependencies"] = {"Dependencies"} /\ Explaining["secrets"] = {"Config", "Secrets"}
    /\ Explaining["relationships"] = {"ImageName", "Pod", "NetworkSettings", "Networks", "Mounts", "Binds",
                                      "Dependencies", "Config", "Secrets"}
  BY DEF Explaining

LEMMA LoopPathFacts ==
    /\ DOMAIN LoopPaths = {"environment", "networks", "binds", "mounts", "secrets"}
    /\ LoopPaths["environment"] = {"Env"} /\ LoopPaths["networks"] = {"Networks"}
    /\ LoopPaths["binds"] = {"Binds"} /\ LoopPaths["mounts"] = {"Mounts", "Binds"}
    /\ LoopPaths["secrets"] = {"Secrets"}
  BY DEF LoopPaths

\* What a step keeps told that adds findings and writes the fields of S.
LEMMA ReportKept ==
    ASSUME NEW S, ReportInv, native' = native, Paths(findings) \subseteq Paths(findings'),
           \A f \in Fields \ S : fields'[f] = fields[f]
    PROVE  /\ \A f \in Fields \ (S \cup {"image_hint"}) : Told(f)'
           /\ "image_hint" \notin S => fields'["image_hint"] # Malformed
           /\ stage # "configuration" => ConfigTold'
           /\ (decoding'.malformed => decoding.malformed) => FamilyTold'
  <1>1. \A f \in Fields \ (S \cup {"image_hint"}) : Told(f)'
    BY DEF ReportInv, FieldsTold, Told
  <1>2. "image_hint" \notin S => fields'["image_hint"] # Malformed
    BY DEF ReportInv, FieldsTold, Fields
  <1>3. stage # "configuration" => ConfigTold'
    BY DEF ReportInv, ConfigTold
  <1>4. (decoding'.malformed => decoding.malformed) => FamilyTold'
    BY DEF ReportInv, FamilyTold
  <1> QED
    BY <1>1, <1>2, <1>3, <1>4

\* The flag is reset where a loop begins.
LEMMA FlagReset == ~malformed' => FlagTold'
  BY DEF FlagTold

LEMMA NotWalking == stage' \notin {"networks", "attachments"} => NetworksWalked'
  BY DEF NetworksWalked

\* A turn of a loop with a flag.
LEMMA TurnTold ==
    ASSUME ShapeInv, ReportInv, NEW s \in DOMAIN LoopPaths, NEW items, NEW r, r.bad \in BOOLEAN,
           Sequence(r.findings), Turn(s, items, r),
           r.bad => LoopPaths[s] \cap (Paths(findings) \cup Paths(r.findings)) # {}
    PROVE  FieldsTold' /\ FlagTold' /\ FamilyTold' /\ ConfigTold'
  <1>1. /\ stage = s /\ stage' = s /\ native' = native /\ fields' = fields /\ decoding' = decoding
        /\ Paths(findings') = Paths(findings) \cup Paths(r.findings)
    BY Turned DEF ShapeInv
  <1>2. malformed' => malformed \/ r.bad
    BY DEF Turn
  <1>3. s # "configuration"
    BY LoopPathFacts
  <1>4. FieldsTold'
    BY <1>1 DEF ReportInv, FieldsTold, Told
  <1>5. FlagTold'
    BY <1>1, <1>2 DEF ReportInv, FlagTold
  <1>6. FamilyTold'
    BY <1>1 DEF ReportInv, FamilyTold
  <1>7. ConfigTold'
    BY <1>1, <1>3 DEF ReportInv, ConfigTold
  <1> QED
    BY <1>4, <1>5, <1>6, <1>7

\* The end of a loop with a flag.
LEMMA LeaveTold ==
    ASSUME ShapeInv, ReportInv, NEW s \in DOMAIN LoopPaths, NEW items, NEW field \in Fields \ {"image_hint"},
           NEW next, Leave(s, items, field, next), LoopPaths[s] \subseteq Explaining[field],
           \/ decoding' = decoding
           \/ Merge(TRUE, malformed) /\ LoopPaths[s] \subseteq Explaining["relationships"]
    PROVE  FieldsTold' /\ FlagTold' /\ FamilyTold' /\ ConfigTold'
  <1>1. /\ stage = s /\ native' = native /\ findings' = findings /\ ~malformed'
        /\ \A f \in Fields : f # field => fields'[f] = fields[f]
        /\ malformed => fields'[field] = Malformed
        /\ ~malformed => fields'[field] = Observed(decoded)
    BY Left DEF ShapeInv
  <1>2. s # "configuration"
    BY LoopPathFacts
  <1>3. malformed => LoopPaths[s] \cap Paths(findings) # {}
    BY <1>1 DEF ReportInv, FlagTold
  <1>4. Told(field)'
    BY <1>1, <1>3, States DEF Told
  <1>5. /\ \A f \in Fields \ ({field} \cup {"image_hint"}) : Told(f)'
        /\ fields'["image_hint"] # Malformed
        /\ ConfigTold'
        /\ (decoding'.malformed => decoding.malformed) => FamilyTold'
    BY <1>1, <1>2, ReportKept
  <1>6. FieldsTold'
    BY <1>4, <1>5 DEF FieldsTold
  <1>7. FamilyTold'
    <2>1. CASE decoding' = decoding
      BY <1>5, <2>1
    <2>2. CASE Merge(TRUE, malformed) /\ LoopPaths[s] \subseteq Explaining["relationships"]
      <3>1. malformed \in BOOLEAN
        BY DEF ShapeInv, TypeOK
      <3>2. decoding'.malformed = (decoding.malformed \/ malformed)
        BY <2>2, <3>1, Merged DEF ShapeInv
      <3> QED
        BY <1>1, <1>3, <2>2, <3>2 DEF FamilyTold, ReportInv
    <2> QED
      BY <2>1, <2>2
  <1>8. FlagTold'
    BY <1>1, FlagReset
  <1> QED
    BY <1>5, <1>6, <1>7, <1>8

LEMMA ConfigurationEffect ==
    ASSUME TypeOK, DecodeConfiguration
    PROVE  /\ stage = "configuration" /\ stage' \in {"environment", "references"}
           /\ native' = native /\ policy' = policy /\ relationships' = relationships /\ decoding' = decoding
           /\ index' = 1 /\ decoded' = <<>> /\ ~malformed'
           /\ \A f \in Fields \ {"environment"} : fields'[f] = fields[f]
           /\ Paths(findings) \subseteq Paths(findings')
           /\ native.config = "other" => "Config" \in Paths(findings')
           /\ \/ fields' = fields
              \/ fields'["environment"] = Absent
              \/ /\ fields'["environment"] = Malformed
                 /\ {"Config", "Env"} \cap Paths(findings') # {}
  <1> DEFINE v == IF native.config = "object" THEN native.env
                  ELSE IF native.config = "none" THEN None ELSE Other
             path == IF native.config = "other" THEN "Config" ELSE "Env"
  <1>1. /\ Enter("configuration", "environment", "environment", v, "references", path)
        /\ native' = native /\ policy' = policy /\ relationships' = relationships /\ decoding' = decoding
    BY DEF DecodeConfiguration
  <1>2. "environment" \in Fields /\ path \in {"Config", "Env"}
    BY DEF Fields
  <1>3. native.config = "other" => v = Other /\ path = "Config"
    OBVIOUS
  <1>4. Other.json # "array" /\ Other # None
    BY Lists DEF IsList
  <1> HIDE DEF v, path
  <1>5. stage' \in {"environment", "references"}
    BY <1>1 DEF Enter, Begin
  <1>6. stage = "configuration" /\ index' = 1 /\ decoded' = <<>> /\ ~malformed'
    BY <1>1, <1>2, Entered
  <1>7. \A f \in Fields : f # "environment" => fields'[f] = fields[f]
    BY <1>1, <1>2, Entered
  <1>8. CASE v.json = "array"
    <2>1. fields' = fields /\ findings' = findings
      BY <1>1, <1>2, <1>8, Entered
    <2> QED
      BY <1>1, <1>3, <1>4, <1>5, <1>6, <1>8, <2>1
  <1>9. CASE v.json # "array"
    <2>1. fields'["environment"] = (IF v = None THEN Absent ELSE Malformed)
      BY <1>1, <1>2, <1>9, Entered
    <2>2. Paths(findings') = Paths(findings) \cup (IF v = None THEN {} ELSE {path})
      BY <1>1, <1>2, <1>9, Entered
    <2>3. native.config = "other" => "Config" \in Paths(findings')
      BY <1>3, <1>4, <2>2
    <2>4. Paths(findings) \subseteq Paths(findings')
      BY <2>2
    <2>5. \/ fields'["environment"] = Absent
          \/ fields'["environment"] = Malformed /\ {"Config", "Env"} \cap Paths(findings') # {}
      BY <1>2, <2>1, <2>2
    <2> QED
      BY <1>1, <1>5, <1>6, <1>7, <2>3, <2>4, <2>5
  <1> QED
    BY <1>8, <1>9

LEMMA ReportConfiguration == ShapeInv /\ ReportInv /\ DecodeConfiguration => ReportInv'
  <1> SUFFICES ASSUME ShapeInv, ReportInv, DecodeConfiguration
               PROVE  ReportInv'
    OBVIOUS
  <1>1. /\ stage' \in {"environment", "references"} /\ native' = native /\ decoding' = decoding
        /\ ~malformed'
        /\ \A f \in Fields \ {"environment"} : fields'[f] = fields[f]
        /\ Paths(findings) \subseteq Paths(findings')
        /\ native.config = "other" => "Config" \in Paths(findings')
    BY ConfigurationEffect DEF ShapeInv
  <1>2. Told("environment")'
    <2>1. \/ fields'["environment"] = fields["environment"]
          \/ fields'["environment"] = Absent
          \/ {"Config", "Env"} \cap Paths(findings') # {}
      BY ConfigurationEffect DEF ShapeInv
    <2> QED
      BY <1>1, <2>1, ExplainingFacts, States DEF Told, ReportInv, FieldsTold, Fields
  <1>3. /\ \A f \in Fields \ ({"environment"} \cup {"image_hint"}) : Told(f)'
        /\ fields'["image_hint"] # Malformed /\ FamilyTold'
    <2> DEFINE S == {"environment"}
    <2>1. "image_hint" \notin S
      OBVIOUS
    <2>2. \A f \in Fields \ S : fields'[f] = fields[f]
      BY <1>1
    <2> HIDE DEF S
    <2>3. /\ \A f \in Fields \ (S \cup {"image_hint"}) : Told(f)'
          /\ fields'["image_hint"] # Malformed /\ FamilyTold'
      BY <1>1, <2>1, <2>2, ReportKept
    <2> QED
      BY <2>3 DEF S
  <1>4. FieldsTold'
    BY <1>2, <1>3 DEF FieldsTold
  <1>5. ConfigTold'
    BY <1>1 DEF ConfigTold
  <1>6. FlagTold' /\ NetworksWalked'
    BY <1>1, FlagReset, NotWalking
  <1> QED
    BY <1>3, <1>4, <1>5, <1>6 DEF ReportInv

LEMMA ReportEnvironment == ShapeInv /\ ReportInv /\ DecodeEnvironment => ReportInv'
  <1> SUFFICES ASSUME ShapeInv, ReportInv, DecodeEnvironment
               PROVE  ReportInv'
    OBVIOUS
  <1> DEFINE items == native.env.items
             r == EnvironmentEntry(items[index], index)
  <1>1. "environment" \in DOMAIN LoopPaths /\ "environment" \in Fields \ {"image_hint"}
    BY LoopPathFacts DEF Fields
  <1>2. CASE Turn("environment", items, r)
    <2>1. r.bad \in BOOLEAN /\ Sequence(r.findings) /\ (r.bad => Paths(r.findings) = {"Env"})
      BY EnvironmentEntryFacts
    <2>2. stage' = "environment"
      BY <1>2 DEF Turn
    <2> HIDE DEF r, items
    <2>3. FieldsTold' /\ FlagTold' /\ FamilyTold' /\ ConfigTold'
      BY <1>1, <1>2, <2>1, LoopPathFacts, TurnTold
    <2> QED
      BY <2>2, <2>3, NotWalking DEF ReportInv
  <1>3. CASE Leave("environment", items, "environment", "references") /\ decoding' = decoding
    <2>1. stage' = "references"
      BY <1>3 DEF Leave, Begin
    <2> HIDE DEF items
    <2>2. FieldsTold' /\ FlagTold' /\ FamilyTold' /\ ConfigTold'
      BY <1>1, <1>3, LoopPathFacts, ExplainingFacts, LeaveTold
    <2> QED
      BY <2>1, <2>2, NotWalking DEF ReportInv
  <1> QED
    BY <1>2, <1>3 DEF DecodeEnvironment

LEMMA ReportReferences == ShapeInv /\ ReportInv /\ DecodeReferences => ReportInv'
  <1> SUFFICES ASSUME ShapeInv, ReportInv, DecodeReferences
               PROVE  ReportInv'
    OBVIOUS
  <1> DEFINE S == {"local_image", "configured_image", "pod"}
  <1>1. /\ stage = "references" /\ stage' = "network_settings" /\ native' = native /\ ~malformed'
        /\ \A f \in Fields \ S : fields'[f] = fields[f]
        /\ Paths(findings) \subseteq Paths(findings')
        /\ fields'["local_image"] = Malformed => "Image" \in Paths(findings')
        /\ fields'["configured_image"] = Malformed => "ImageName" \in Paths(findings')
        /\ fields'["pod"] = Malformed => "Pod" \in Paths(findings')
        /\ decoding'.malformed = (fields'["configured_image"] = Malformed \/ fields'["pod"] = Malformed)
    BY ReferencesEffect DEF ShapeInv
  <1>2. Told("local_image")' /\ Told("configured_image")' /\ Told("pod")'
    BY <1>1, ExplainingFacts DEF Told
  <1>3. /\ \A f \in Fields \ (S \cup {"image_hint"}) : Told(f)'
        /\ fields'["image_hint"] # Malformed /\ ConfigTold'
    <2>1. "image_hint" \notin S
      OBVIOUS
    <2> HIDE DEF S
    <2> QED
      BY <1>1, <2>1, ReportKept
  <1>4. FieldsTold'
    BY <1>2, <1>3 DEF FieldsTold
  <1>5. FamilyTold'
    BY <1>1, ExplainingFacts DEF FamilyTold
  <1>6. FlagTold' /\ NetworksWalked'
    BY <1>1, FlagReset, NotWalking
  <1> QED
    BY <1>3, <1>4, <1>5, <1>6 DEF ReportInv

LEMMA ReportNetworkSettings == ShapeInv /\ ReportInv /\ DecodeNetworkSettings => ReportInv'
  <1> SUFFICES ASSUME ShapeInv, ReportInv, DecodeNetworkSettings
               PROVE  ReportInv'
    OBVIOUS
  <1> DEFINE S == {"networks", "attachments"}
  <1>1. /\ stage = "network_settings" /\ native' = native
        /\ \A f \in Fields \ S : fields'[f] = fields[f]
    BY NetworkSettingsEffect DEF ShapeInv
  <1>2. ~malformed' /\ (stage' = "networking" \/ (stage' = "networks" /\ index' = 1))
    BY NetworkSettingsEffect, Begun DEF ShapeInv
  <1>3. /\ Paths(findings) \subseteq Paths(findings')
        /\ \A f \in S : fields'[f] = Malformed =>
             {"NetworkSettings", "Networks"} \cap Paths(findings') # {} \/ fields'[f] = fields[f]
        /\ decoding'.malformed =>
             {"NetworkSettings", "Networks"} \cap Paths(findings') # {} \/ decoding.malformed
    <2>1. CASE findings' = findings /\ decoding' = decoding
      BY <2>1, NetworkSettingsEffect, States DEF ShapeInv
    <2>2. CASE /\ Paths(findings') = Paths(findings) /\ Merge(FALSE, FALSE)
               /\ fields'["networks"] = Absent /\ fields'["attachments"] = Absent
      BY <2>2, Merged, States DEF ShapeInv
    <2>3. CASE \E path \in {"NetworkSettings", "Networks"} : Paths(findings') = Paths(findings) \cup {path}
      BY <2>3
    <2> QED
      BY <2>1, <2>2, <2>3, NetworkSettingsEffect DEF ShapeInv
  <1>4. \A f \in S : Told(f)'
    BY <1>3, ExplainingFacts DEF Told, ReportInv, FieldsTold, Fields
  <1>5. /\ \A f \in Fields \ (S \cup {"image_hint"}) : Told(f)'
        /\ fields'["image_hint"] # Malformed /\ ConfigTold'
    <2>1. "image_hint" \notin S
      OBVIOUS
    <2> HIDE DEF S
    <2> QED
      BY <1>1, <1>3, <2>1, ReportKept
  <1>6. FieldsTold'
    BY <1>4, <1>5 DEF FieldsTold
  <1>7. FamilyTold'
    BY <1>3, ExplainingFacts DEF FamilyTold, ReportInv
  <1>8. NetworksWalked'
    BY <1>2 DEF NetworksWalked
  <1> QED
    BY <1>2, <1>5, <1>6, <1>7, <1>8, FlagReset DEF ReportInv

\* A step between loops that writes one field.
LEMMA ReportOne ==
    ASSUME ReportInv, NEW g \in Fields \ {"image_hint"}, native' = native, stage # "configuration",
           Paths(findings) \subseteq Paths(findings'), ~malformed',
           stage' \notin {"networks", "attachments"},
           \A f \in Fields \ {g} : fields'[f] = fields[f],
           fields'[g] = fields[g] \/ Told(g)',
           (decoding'.malformed => decoding.malformed) \/ FamilyTold'
    PROVE  ReportInv'
  <1> DEFINE S == {g}
  <1>1. "image_hint" \notin S /\ \A f \in Fields \ S : fields'[f] = fields[f]
    OBVIOUS
  <1> HIDE DEF S
  <1>2. /\ \A f \in Fields \ (S \cup {"image_hint"}) : Told(f)'
        /\ fields'["image_hint"] # Malformed /\ ConfigTold'
        /\ (decoding'.malformed => decoding.malformed) => FamilyTold'
    BY <1>1, ReportKept
  <1>3. Told(g)'
    BY DEF Told, ReportInv, FieldsTold
  <1>4. FieldsTold'
    BY <1>2, <1>3 DEF S, FieldsTold
  <1> QED
    BY <1>2, <1>4, FlagReset, NotWalking DEF ReportInv

LEMMA ReportNetworks == ShapeInv /\ ReportInv /\ DecodeNetworks => ReportInv'
  <1> SUFFICES ASSUME ShapeInv, ReportInv, DecodeNetworks
               PROVE  ReportInv'
    OBVIOUS
  <1> DEFINE items == native.networks.items
             r == NetworkTurn(items[index], index)
  <1>1. "networks" \in DOMAIN LoopPaths /\ "networks" \in Fields \ {"image_hint"}
    BY LoopPathFacts DEF Fields
  <1>2. stage = "networks" /\ native.networks.json = "array" /\ TypeOK
    BY DEF DecodeNetworks, ListsOK, ShapeInv
  <1>3. Len(items) \in Nat /\ index \in Nat \ {0}
    BY <1>2, NativeLists, Position
  <1>4. CASE Turn("networks", items, r)
    <2>1. /\ r.bad \in BOOLEAN /\ Sequence(r.findings) /\ (r.bad => Paths(r.findings) = {"Networks"})
          /\ r.bad <=> BadAttachment(items[index])
      BY NetworkTurnFacts
    <2>2. native' = native /\ stage' = "networks" /\ index' = index + 1
      BY <1>4 DEF Turn
    <2>3. malformed' = (malformed \/ r.bad)
      BY <1>4 DEF Turn
    <2> HIDE DEF r
    <2>5. NetworksWalked'
      <3>1. SUFFICES ASSUME NEW j \in 1..index, BadAttachment(items[j])
                     PROVE  malformed'
        BY <1>3, <2>2 DEF NetworksWalked
      <3>2. CASE j = index
        BY <2>1, <2>3, <3>1, <3>2
      <3>3. CASE j # index
        <4>1. j \in 1..(index - 1)
          BY <1>3, <3>1, <3>3
        <4>2. malformed
          BY <1>2, <3>1, <4>1 DEF ReportInv, NetworksWalked
        <4> QED
          BY <2>3, <4>2
      <3> QED
        BY <3>2, <3>3
    <2> HIDE DEF items
    <2>4. FieldsTold' /\ FlagTold' /\ FamilyTold' /\ ConfigTold'
      BY <1>1, <1>4, <2>1, LoopPathFacts, TurnTold
    <2> QED
      BY <2>4, <2>5 DEF ReportInv
  <1>5. CASE Leave("networks", items, "networks", "attachments") /\ Merge(TRUE, malformed)
    <2> HIDE DEF items
    <2>2. FieldsTold' /\ FlagTold' /\ FamilyTold' /\ ConfigTold'
      BY <1>1, <1>5, LoopPathFacts, ExplainingFacts, LeaveTold
    <2>3. /\ stage' = "attachments" /\ native' = native /\ index > Len(items)
          /\ malformed => fields'["networks"] = Malformed
      BY <1>1, <1>2, <1>5, Left
    <2>4. \A j \in 1..Len(items) : BadAttachment(items[j]) => malformed
      BY <1>2, <1>3, <2>3 DEF ReportInv, NetworksWalked, items
    <2>5. NetworksWalked'
      BY <2>3, <2>4 DEF NetworksWalked, items
    <2> QED
      BY <2>2, <2>5 DEF ReportInv
  <1> QED
    BY <1>2, <1>4, <1>5, NetworksEffect

LEMMA ReportAttachments == ShapeInv /\ ReportInv /\ DecodeAttachments => ReportInv'
  <1> SUFFICES ASSUME ShapeInv, ReportInv, DecodeAttachments
               PROVE  ReportInv'
    OBVIOUS
  <1> DEFINE items == native.networks.items
             r == AttachmentTurn(items[index], index)
  <1>1. "attachments" \in Fields \ {"image_hint"}
    BY DEF Fields
  <1>2. stage = "attachments" /\ native.networks.json = "array" /\ TypeOK
    BY DEF DecodeAttachments, ListsOK, ShapeInv
  <1>3. Len(items) \in Nat /\ index \in Nat \ {0} /\ (index <= Len(items) => index \in 1..Len(items))
    BY <1>2, NativeLists, Position
  <1>4. ~malformed
    BY <1>2, LoopPathFacts DEF ReportInv, FlagTold
  <1>5. decoding' = decoding
    BY <1>2, AttachmentsEffect
  <1>6. CASE Turn("attachments", items, r)
    <2>1. ~r.bad /\ r.bad \in BOOLEAN /\ Sequence(r.findings)
      BY AttachmentTurnFacts
    <2>2. native' = native /\ stage' = "attachments" /\ fields' = fields
      BY <1>6 DEF Turn
    <2> HIDE DEF r, items
    <2>3. malformed' = malformed
      BY <1>2, <1>6, <2>1, Turned
    <2>4. Paths(findings) \subseteq Paths(findings')
      BY <1>2, <1>6, <2>1, Turned
    <2>5. FieldsTold' /\ FamilyTold' /\ ConfigTold'
      <3>1. FieldsTold'
        BY <2>2, <2>4 DEF ReportInv, FieldsTold, Told
      <3>2. FamilyTold'
        BY <1>5, <2>4 DEF ReportInv, FamilyTold
      <3>3. ConfigTold'
        BY <1>2, <2>2, <2>4 DEF ReportInv, ConfigTold
      <3> QED
        BY <3>1, <3>2, <3>3
    <2>6. NetworksWalked'
      BY <1>2, <2>2 DEF ReportInv, NetworksWalked
    <2>7. FlagTold'
      BY <1>4, <2>3 DEF FlagTold
    <2> QED
      BY <2>5, <2>6, <2>7 DEF ReportInv
  <1>7. CASE /\ BadAttachment(items[index]) /\ index <= Len(items)
             /\ fields' = With(fields, "attachments", Malformed)
             /\ Begin("networking") /\ native' = native /\ findings' = findings
    <2>1. fields["networks"] = Malformed
      BY <1>2, <1>3, <1>7 DEF ReportInv, NetworksWalked
    <2>2. Explaining["networks"] \cap Paths(findings) # {}
      BY <2>1 DEF ReportInv, FieldsTold, Told, Fields
    <2>3. Told("attachments")'
      BY <1>7, <2>2, ExplainingFacts DEF Told
    <2>4. stage' = "networking" /\ ~malformed'
      BY <1>7, Begun
    <2>5. \A f \in Fields \ {"attachments"} : fields'[f] = fields[f]
      BY <1>1, <1>2, <1>7, FieldSet DEF TypeOK
    <2>6. native' = native /\ Paths(findings) \subseteq Paths(findings')
      BY <1>7
    <2> QED
      BY <1>1, <1>2, <1>5, <2>3, <2>4, <2>5, <2>6, ReportOne
  <1>8. CASE Leave("attachments", items, "attachments", "networking")
    <2> HIDE DEF items
    <2>1. /\ stage' = "networking" /\ native' = native /\ findings' = findings /\ ~malformed'
          /\ \A f \in Fields \ {"attachments"} : fields'[f] = fields[f]
          /\ fields'["attachments"] = Observed(decoded)
      BY <1>1, <1>2, <1>4, <1>8, Left
    <2>2. Told("attachments")'
      BY <2>1, States DEF Told
    <2> QED
      BY <1>1, <1>2, <1>5, <2>1, <2>2, ReportOne
  <1> QED
    BY <1>2, <1>6, <1>7, <1>8, AttachmentsEffect

LEMMA ReportNetworking == ShapeInv /\ ReportInv /\ DecodeNetworking => ReportInv'
  <1> SUFFICES ASSUME ShapeInv, ReportInv, DecodeNetworking
               PROVE  ReportInv'
    OBVIOUS
  <1>1. /\ stage = "networking" /\ native' = native /\ Begin("host_binds") /\ decoding' = decoding
        /\ \A f \in Fields \ {"networking"} : fields'[f] = fields[f]
        /\ Paths(findings) \subseteq Paths(findings')
        /\ fields'["networking"] = Malformed =>
             "HostConfig" \in Paths(findings') \/ fields["networks"] = Malformed
    BY NetworkingEffect DEF ShapeInv
  <1>2. fields["networks"] = Malformed => Explaining["networks"] \cap Paths(findings) # {}
    BY DEF ReportInv, FieldsTold, Told, Fields
  <1>3. Told("networking")'
    BY <1>1, <1>2, ExplainingFacts DEF Told
  <1>4. stage' = "host_binds" /\ ~malformed'
    BY <1>1, Begun
  <1>5. "networking" \in Fields \ {"image_hint"}
    BY DEF Fields
  <1> QED
    BY <1>1, <1>3, <1>4, <1>5, ReportOne

LEMMA ReportHostBinds == ShapeInv /\ ReportInv /\ DecodeHostBinds => ReportInv'
  <1> SUFFICES ASSUME ShapeInv, ReportInv, DecodeHostBinds
               PROVE  ReportInv'
    OBVIOUS
  <1>1. /\ stage = "host_binds" /\ native' = native /\ decoding' = decoding /\ ~malformed'
        /\ \A f \in Fields \ {"binds"} : fields'[f] = fields[f]
        /\ stage' \in {"binds", "mount_list"}
        /\ Paths(findings) \subseteq Paths(findings')
    BY HostBindsEffect DEF ShapeInv
  <1>2. fields' = fields \/ fields'["binds"] = Observed(<<>>) \/ "Binds" \in Paths(findings')
    BY HostBindsEffect DEF ShapeInv
  <1>3. fields'["binds"] = fields["binds"] \/ Told("binds")'
    BY <1>2, ExplainingFacts, States DEF Told
  <1>5. "binds" \in Fields \ {"image_hint"}
    BY DEF Fields
  <1> QED
    BY <1>1, <1>3, <1>5, ReportOne

LEMMA ReportBinds == ShapeInv /\ ReportInv /\ DecodeBinds => ReportInv'
  <1> SUFFICES ASSUME ShapeInv, ReportInv, DecodeBinds
               PROVE  ReportInv'
    OBVIOUS
  <1> DEFINE items == native.host.binds.items
             r == BindTurn(items[index], index)
  <1>1. native.host.binds.json = "array" /\ TypeOK
    BY DEF DecodeBinds, ListsOK, ShapeInv
  <1>2. stage = "binds" /\ native' = native /\ decoding' = decoding
    BY <1>1, BindsEffect
  <1>3. "binds" \in DOMAIN LoopPaths /\ "binds" \in Fields \ {"image_hint"}
    BY LoopPathFacts DEF Fields
  <1>4. CASE /\ stage' = "binds" /\ fields' = fields /\ r.bad \in BOOLEAN
             /\ ~r.bad => malformed' = malformed
             /\ Paths(findings') = Paths(findings) \cup Paths(r.findings)
    <2>1. r.bad => Paths(r.findings) = {"Binds"}
      BY BindTurnFacts
    <2> HIDE DEF r
    <2>2. FieldsTold'
      BY <1>4 DEF ReportInv, FieldsTold, Told
    <2>3. FlagTold'
      <3>1. CASE r.bad
        BY <1>3, <1>4, <2>1, <3>1, LoopPathFacts DEF FlagTold
      <3>2. CASE ~r.bad
        BY <1>2, <1>4, <3>2 DEF FlagTold, ReportInv
      <3> QED
        BY <3>1, <3>2
    <2>4. FamilyTold'
      BY <1>2, <1>4 DEF ReportInv, FamilyTold
    <2>5. ConfigTold'
      BY <1>2, <1>4 DEF ReportInv, ConfigTold
    <2> QED
      BY <1>4, <2>2, <2>3, <2>4, <2>5, NotWalking DEF ReportInv
  <1>5. CASE Leave("binds", items, "binds", "mount_list")
    <2>1. stage' = "mount_list"
      BY <1>5 DEF Leave, Begin
    <2> HIDE DEF items
    <2>2. FieldsTold' /\ FlagTold' /\ FamilyTold' /\ ConfigTold'
      BY <1>2, <1>3, <1>5, LoopPathFacts, ExplainingFacts, LeaveTold
    <2> QED
      BY <2>1, <2>2, NotWalking DEF ReportInv
  <1> QED
    BY <1>1, <1>4, <1>5, BindsEffect

LEMMA ReportMountList == ShapeInv /\ ReportInv /\ DecodeMountList => ReportInv'
  <1> SUFFICES ASSUME ShapeInv, ReportInv, DecodeMountList
               PROVE  ReportInv'
    OBVIOUS
  <1>1. /\ stage = "mount_list" /\ native' = native /\ ~malformed'
        /\ \A f \in Fields \ {"mounts"} : fields'[f] = fields[f]
        /\ stage' \in {"mounts", "command"}
        /\ Paths(findings) \subseteq Paths(findings')
    BY MountListEffect DEF ShapeInv
  <1>2. fields' = fields \/ fields'["mounts"] = Absent \/ "Mounts" \in Paths(findings')
    BY MountListEffect DEF ShapeInv
  <1>3. fields'["mounts"] = fields["mounts"] \/ Told("mounts")'
    BY <1>2, ExplainingFacts, States DEF Told
  <1>4. (decoding'.malformed => decoding.malformed) \/ FamilyTold'
    <2>1. CASE Merge(FALSE, FALSE)
      BY <2>1, Merged DEF ShapeInv
    <2>2. CASE "Mounts" \in Paths(findings')
      BY <2>2, ExplainingFacts DEF FamilyTold
    <2> QED
      BY <2>1, <2>2, MountListEffect DEF ShapeInv
  <1>5. "mounts" \in Fields \ {"image_hint"}
    BY DEF Fields
  <1> QED
    BY <1>1, <1>3, <1>4, <1>5, ReportOne

LEMMA ReportMounts == ShapeInv /\ ReportInv /\ DecodeMounts => ReportInv'
  <1> SUFFICES ASSUME ShapeInv, ReportInv, DecodeMounts
               PROVE  ReportInv'
    OBVIOUS
  <1> DEFINE items == native.mounts.items
             r == MountTurn(items[index], index)
  <1>1. native.mounts.json = "array" /\ TypeOK
    BY DEF DecodeMounts, ListsOK, ShapeInv
  <1>3. "mounts" \in DOMAIN LoopPaths /\ "mounts" \in Fields \ {"image_hint"}
    BY LoopPathFacts DEF Fields
  <1>4. CASE /\ Turn("mounts", items, r) /\ r.bad \in BOOLEAN /\ Sequence(r.findings)
             /\ r.bad => "Mounts" \in Paths(r.findings) \/ fields["binds"] = Malformed
    <2>1. stage' = "mounts"
      BY <1>4 DEF Turn
    <2>2. fields["binds"] = Malformed => "Binds" \in Paths(findings)
      BY ExplainingFacts DEF ReportInv, FieldsTold, Told, Fields
    <2> HIDE DEF r, items
    <2>4. r.bad => LoopPaths["mounts"] \cap (Paths(findings) \cup Paths(r.findings)) # {}
      BY <1>4, <2>2, LoopPathFacts
    <2>3. FieldsTold' /\ FlagTold' /\ FamilyTold' /\ ConfigTold'
      BY <1>3, <1>4, <2>4, TurnTold
    <2> QED
      BY <2>1, <2>3, NotWalking DEF ReportInv
  <1>5. CASE Leave("mounts", items, "mounts", "command") /\ Merge(TRUE, malformed)
    <2>1. stage' = "command"
      BY <1>5 DEF Leave, Begin
    <2> HIDE DEF items
    <2>2. FieldsTold' /\ FlagTold' /\ FamilyTold' /\ ConfigTold'
      BY <1>3, <1>5, LoopPathFacts, ExplainingFacts, LeaveTold
    <2> QED
      BY <2>1, <2>2, NotWalking DEF ReportInv
  <1> QED
    BY <1>1, <1>4, <1>5, MountsEffect

LEMMA ReportEvidence == ShapeInv /\ ReportInv /\ EvidenceNext => ReportInv'
  <1> SUFFICES ASSUME ShapeInv, ReportInv, EvidenceNext
               PROVE  ReportInv'
    OBVIOUS
  <1> DEFINE S == EvidenceFields
  <1>1. EvidenceStep
    BY EvidenceSteps DEF ShapeInv
  <1>2. /\ native' = native /\ decoding' = decoding /\ stage \in EvidenceStages
        /\ stage' \in (EvidenceStages \cup {"dependency_list"}) \ {"command"}
        /\ ~malformed => ~malformed'
        /\ \A f \in Fields \ S : fields'[f] = fields[f]
        /\ fields'["image_hint"] = fields["image_hint"] \/ fields'["image_hint"] # Malformed
        /\ \A f \in {"creation", "relabel_hints"} :
             fields'[f] = fields[f] \/ (fields'[f] = Malformed => "CreateCommand" \in Paths(findings'))
        /\ Paths(findings) \subseteq Paths(findings')
    BY <1>1 DEF EvidenceStep
  <1>3. stage # "configuration" /\ stage \notin DOMAIN LoopPaths
        /\ stage' \notin {"networks", "attachments"}
    BY <1>2, LoopPathFacts DEF EvidenceStages
  <1>4. ~malformed'
    BY <1>2, <1>3 DEF ReportInv, FlagTold
  <1>5. /\ \A f \in Fields \ (S \cup {"image_hint"}) : Told(f)'
        /\ ConfigTold' /\ FamilyTold'
    <2> HIDE DEF S
    <2> QED
      BY <1>2, <1>3, ReportKept
  <1>6. \A f \in {"creation", "relabel_hints"} : Told(f)'
    BY <1>2, ExplainingFacts DEF Told, ReportInv, FieldsTold, Fields
  <1>7. FieldsTold'
    BY <1>2, <1>5, <1>6 DEF FieldsTold, ReportInv, EvidenceFields
  <1> QED
    BY <1>3, <1>4, <1>5, <1>7, FlagReset, NotWalking DEF ReportInv

LEMMA ReportDependencyList == ShapeInv /\ ReportInv /\ DecodeDependencyList => ReportInv'
  <1> SUFFICES ASSUME ShapeInv, ReportInv, DecodeDependencyList
               PROVE  ReportInv'
    OBVIOUS
  <1>1. /\ stage = "dependency_list" /\ native' = native /\ ~malformed'
        /\ \A f \in Fields \ {"dependencies"} : fields'[f] = fields[f]
        /\ stage' \in {"dependencies", "secret_list"}
        /\ Paths(findings) \subseteq Paths(findings')
    BY DependencyListEffect DEF ShapeInv
  <1>2. fields' = fields \/ fields'["dependencies"] = Absent \/ "Dependencies" \in Paths(findings')
    BY DependencyListEffect DEF ShapeInv
  <1>3. fields'["dependencies"] = fields["dependencies"] \/ Told("dependencies")'
    BY <1>2, ExplainingFacts, States DEF Told
  <1>4. (decoding'.malformed => decoding.malformed) \/ FamilyTold'
    <2>1. CASE Merge(FALSE, FALSE)
      BY <2>1, Merged DEF ShapeInv
    <2>2. CASE "Dependencies" \in Paths(findings')
      BY <2>2, ExplainingFacts DEF FamilyTold
    <2> QED
      BY <2>1, <2>2, DependencyListEffect DEF ShapeInv
  <1>5. "dependencies" \in Fields \ {"image_hint"}
    BY DEF Fields
  <1> QED
    BY <1>1, <1>3, <1>4, <1>5, ReportOne

LEMMA ReportDependencies == ShapeInv /\ ReportInv /\ DecodeDependencies => ReportInv'
  <1> SUFFICES ASSUME ShapeInv, ReportInv, DecodeDependencies
               PROVE  ReportInv'
    OBVIOUS
  <1> DEFINE items == native.dependencies.items
             reference == decode_native_reference(items[index])
             r == Pushes(reference.value, NoFindings)
  <1>1. native.dependencies.json = "array" /\ TypeOK
    BY DEF DecodeDependencies, ListsOK, ShapeInv, Turn
  <1>2. stage = "dependencies" /\ native' = native
    BY <1>1, DependenciesEffect
  <1>3. "dependencies" \in Fields \ {"image_hint"}
    BY DEF Fields
  <1>4. ~malformed
    BY <1>2, LoopPathFacts DEF ReportInv, FlagTold
  <1>5. CASE Turn("dependencies", items, r)
    <2>1. ~r.bad /\ r.bad \in BOOLEAN /\ r.findings = NoFindings
      BY TurnFacts
    <2>2. Sequence(r.findings)
      BY <2>1, FindingLists
    <2> HIDE DEF r, items
    <2>3. malformed' = malformed
      BY <1>1, <1>5, <2>1, <2>2, Turned
    <2>4. Paths(findings) \subseteq Paths(findings')
      BY <1>1, <1>5, <2>1, <2>2, Turned
    <2>5. fields' = fields /\ decoding' = decoding /\ stage' = "dependencies"
      BY <1>5 DEF Turn
    <2>6. ~malformed'
      BY <1>4, <2>3
    <2> QED
      BY <1>2, <1>3, <2>4, <2>5, <2>6, ReportOne
  <1>6. CASE /\ Begin("secret_list") /\ fields' = With(fields, "dependencies", Malformed)
             /\ Paths(findings') = Paths(findings) \cup {"Dependencies"}
    <2>1. stage' = "secret_list" /\ ~malformed'
      BY <1>6, Begun
    <2>2. \A f \in Fields \ {"dependencies"} : fields'[f] = fields[f]
      BY <1>1, <1>3, <1>6, FieldSet DEF TypeOK
    <2>3. Told("dependencies")' /\ FamilyTold'
      BY <1>6, ExplainingFacts DEF Told, FamilyTold
    <2>4. Paths(findings) \subseteq Paths(findings')
      BY <1>6
    <2> QED
      BY <1>2, <1>3, <2>1, <2>2, <2>3, <2>4, ReportOne
  <1>7. CASE /\ Begin("secret_list") /\ fields' = With(fields, "dependencies", Observed(decoded))
             /\ Merge(TRUE, FALSE) /\ findings' = findings
    <2>1. stage' = "secret_list" /\ ~malformed'
      BY <1>7, Begun
    <2>2. /\ fields'["dependencies"] = Observed(decoded)
          /\ \A f \in Fields \ {"dependencies"} : fields'[f] = fields[f]
      BY <1>1, <1>3, <1>7, FieldSet DEF TypeOK
    <2>3. Told("dependencies")'
      BY <2>2, States DEF Told
    <2>4. decoding'.malformed => decoding.malformed
      BY <1>1, <1>7, Merged
    <2>5. Paths(findings) \subseteq Paths(findings')
      BY <1>7
    <2> QED
      BY <1>2, <1>3, <2>1, <2>2, <2>3, <2>4, <2>5, ReportOne
  <1> QED
    BY <1>1, <1>5, <1>6, <1>7, DependenciesEffect

LEMMA ReportSecretList == ShapeInv /\ ReportInv /\ DecodeSecretList => ReportInv'
  <1> SUFFICES ASSUME ShapeInv, ReportInv, DecodeSecretList
               PROVE  ReportInv'
    OBVIOUS
  <1>1. /\ stage = "secret_list" /\ native' = native /\ ~malformed'
        /\ \A f \in Fields \ {"secrets"} : fields'[f] = fields[f]
        /\ stage' \in {"secrets", "relationships"}
        /\ Paths(findings) \subseteq Paths(findings')
    BY SecretListEffect DEF ShapeInv
  <1>2. native.config = "other" => "Config" \in Paths(findings)
    BY <1>1 DEF ReportInv, ConfigTold
  <1>3. \/ fields' = fields \/ fields'["secrets"] = Absent
        \/ {"Config", "Secrets"} \cap Paths(findings') # {}
    BY <1>1, <1>2, SecretListEffect DEF ShapeInv
  <1>4. fields'["secrets"] = fields["secrets"] \/ Told("secrets")'
    BY <1>3, ExplainingFacts, States DEF Told
  <1>5. (decoding'.malformed => decoding.malformed) \/ FamilyTold'
    <2>1. CASE Merge(FALSE, FALSE)
      BY <2>1, Merged DEF ShapeInv
    <2>2. CASE {"Config", "Secrets"} \cap Paths(findings') # {}
      BY <2>2, ExplainingFacts DEF FamilyTold
    <2> QED
      BY <1>1, <1>2, <2>1, <2>2, SecretListEffect DEF ShapeInv
  <1>6. "secrets" \in Fields \ {"image_hint"}
    BY DEF Fields
  <1> QED
    BY <1>1, <1>4, <1>5, <1>6, ReportOne

LEMMA ReportSecrets == ShapeInv /\ ReportInv /\ DecodeSecrets => ReportInv'
  <1> SUFFICES ASSUME ShapeInv, ReportInv, DecodeSecrets
               PROVE  ReportInv'
    OBVIOUS
  <1> DEFINE items == native.secrets.items
             r == SecretTurn(items[index], index)
  <1>1. native.secrets.json = "array" /\ TypeOK
    BY DEF DecodeSecrets, ListsOK, ShapeInv
  <1>3. "secrets" \in DOMAIN LoopPaths /\ "secrets" \in Fields \ {"image_hint"}
    BY LoopPathFacts DEF Fields
  <1>4. CASE /\ Turn("secrets", items, r) /\ r.bad \in BOOLEAN /\ Sequence(r.findings)
             /\ r.bad => "Secrets" \in Paths(r.findings)
    <2>1. stage' = "secrets"
      BY <1>4 DEF Turn
    <2> HIDE DEF r, items
    <2>4. r.bad => LoopPaths["secrets"] \cap (Paths(findings) \cup Paths(r.findings)) # {}
      BY <1>4, LoopPathFacts
    <2>3. FieldsTold' /\ FlagTold' /\ FamilyTold' /\ ConfigTold'
      BY <1>3, <1>4, <2>4, TurnTold
    <2> QED
      BY <2>1, <2>3, NotWalking DEF ReportInv
  <1>5. CASE Leave("secrets", items, "secrets", "relationships") /\ Merge(TRUE, malformed)
    <2>1. stage' = "relationships"
      BY <1>5 DEF Leave, Begin
    <2> HIDE DEF items
    <2>2. FieldsTold' /\ FlagTold' /\ FamilyTold' /\ ConfigTold'
      BY <1>3, <1>5, LoopPathFacts, ExplainingFacts, LeaveTold
    <2> QED
      BY <2>1, <2>2, NotWalking DEF ReportInv
  <1> QED
    BY <1>1, <1>4, <1>5, SecretsEffect

LEMMA ReportRelationships == ShapeInv /\ ReportInv /\ DecodeRelationships => ReportInv'
  <1> SUFFICES ASSUME ShapeInv, ReportInv, DecodeRelationships
               PROVE  ReportInv'
    OBVIOUS
  <1>1. /\ stage = "relationships" /\ stage' = "done" /\ native' = native /\ decoding' = decoding
        /\ findings' = findings /\ ~malformed'
        /\ \A f \in Fields \ {"relationships"} : fields'[f] = fields[f]
        /\ fields'["relationships"] = IF decoding.malformed THEN Malformed
                                      ELSE IF ~decoding.supplied THEN Absent
                                      ELSE Observed(relationships)
    BY RelationshipsEffect DEF ShapeInv
  <1>2. fields'["relationships"] = Malformed => decoding.malformed
    BY <1>1, States
  <1>3. Told("relationships")'
    BY <1>1, <1>2 DEF Told, ReportInv, FamilyTold
  <1>4. "relationships" \in Fields \ {"image_hint"}
    BY DEF Fields
  <1> QED
    BY <1>1, <1>3, <1>4, ReportOne

LEMMA ReportInit == Init => ReportInv
  <1> SUFFICES ASSUME Init
               PROVE  ReportInv
    OBVIOUS
  <1>1. /\ stage = "configuration" /\ malformed = FALSE /\ fields = [f \in Fields |-> Absent]
        /\ decoding = [supplied |-> FALSE, malformed |-> FALSE]
    BY DEF Init
  <1>2. ~malformed /\ ~decoding.malformed
    BY <1>1, Zenon
  <1>3. FieldsTold
    BY <1>1, States DEF FieldsTold, Told, Fields
  <1> QED
    BY <1>1, <1>2, <1>3 DEF ReportInv, FlagTold, FamilyTold, ConfigTold, NetworksWalked

LEMMA ReportStep == ShapeInv /\ ReportInv /\ [Next]_vars => ReportInv'
  <1>1. ReportInv /\ UNCHANGED vars => ReportInv'
    BY DEF ReportInv, FieldsTold, Told, FlagTold, FamilyTold, ConfigTold, NetworksWalked, vars
  <1> QED
    BY <1>1, ReportConfiguration, ReportEnvironment, ReportReferences, ReportNetworkSettings, ReportNetworks,
       ReportAttachments, ReportNetworking, ReportHostBinds, ReportBinds, ReportMountList, ReportMounts,
       ReportEvidence, ReportDependencyList, ReportDependencies, ReportSecretList, ReportSecrets,
       ReportRelationships DEF Next, EvidenceNext

\* The decoder's state keeps its shape: every loop walks a list, and a field
\* is Absent until the code that writes it has run.
THEOREM ShapeCorrect == Spec => []ShapeInv
  <1> QED
    BY ShapeInit, ShapeStep, PTL DEF Spec

\* When decode_container is done, every malformed field is explained by a
\* finding about one of the members it was decoded from.
THEOREM MalformedReported == Spec => []MalformedIsReported
  <1>1. ReportInv => MalformedIsReported
    BY DEF ReportInv, FieldsTold, Told, Paths, MalformedIsReported
  <1> QED
    BY <1>1, ShapeInit, ShapeStep, ReportInit, ReportStep, PTL DEF Spec

-----------------------------------------------------------------------------
(* What the steps of the other stages leave alone *)

Frame ==
    /\ native' = native /\ policy' = policy
    /\ stage \notin {"configuration", "environment"} => fields'["environment"] = fields["environment"]
    /\ stage # "references" => /\ fields'["local_image"] = fields["local_image"]
                               /\ fields'["configured_image"] = fields["configured_image"]
                               /\ fields'["pod"] = fields["pod"]
    /\ stage \notin {"network_settings", "networks"} => fields'["networks"] = fields["networks"]
    /\ stage \notin {"network_settings", "attachments"} => fields'["attachments"] = fields["attachments"]
    /\ stage \notin {"host_binds", "binds"} => fields'["binds"] = fields["binds"]
    /\ stage \notin {"mount_list", "mounts"} => fields'["mounts"] = fields["mounts"]
    /\ stage \notin {"dependency_list", "dependencies"} => fields'["dependencies"] = fields["dependencies"]
    /\ stage \notin {"secret_list", "secrets"} => fields'["secrets"] = fields["secrets"]
    /\ stage # "correlate" => fields'["relabel_hints"] = fields["relabel_hints"]
    /\ stage # "relationships" => fields'["relationships"] = fields["relationships"]
    /\ stage \notin {"references", "networks", "mounts", "dependencies", "secrets"} =>
         relationships' = relationships
    /\ stage \notin {"references", "network_settings", "networks", "mount_list", "mounts",
                     "dependency_list", "dependencies", "secret_list", "secrets"} => decoding' = decoding

Flow ==
    /\ stage = "configuration" => stage' \in {"environment", "references"}
    /\ stage = "environment" => stage' \in {"environment", "references"}
    /\ stage = "references" => stage' = "network_settings"
    /\ stage = "network_settings" => stage' \in {"networks", "networking"}
    /\ stage = "networks" => stage' \in {"networks", "attachments"}
    /\ stage = "attachments" => stage' \in {"attachments", "networking"}
    /\ stage = "networking" => stage' = "host_binds"
    /\ stage = "host_binds" => stage' \in {"binds", "mount_list"}
    /\ stage = "binds" => stage' \in {"binds", "mount_list"}
    /\ stage = "mount_list" => stage' \in {"mounts", "command"}
    /\ stage = "mounts" => stage' \in {"mounts", "command"}
    /\ stage \in {"command", "scan", "image_hint", "correlate"} =>
         stage' \in {"scan", "image_hint", "correlate", "dependency_list"}
    /\ stage = "dependency_list" => stage' \in {"dependencies", "secret_list"}
    /\ stage = "dependencies" => stage' \in {"dependencies", "secret_list"}
    /\ stage = "secret_list" => stage' \in {"secrets", "relationships"}
    /\ stage = "secrets" => stage' \in {"secrets", "relationships"}
    /\ stage = "relationships" => stage' = "done"
    /\ stage # "done"

\* The framing of a turn, and of the end of a loop.
LEMMA TurnFrame ==
    ASSUME NEW s, NEW items, NEW r, Turn(s, items, r)
    PROVE  /\ native' = native /\ policy' = policy /\ fields' = fields /\ decoding' = decoding
           /\ stage = s /\ stage' = s
  BY DEF Turn

LEMMA LeaveFrame ==
    ASSUME TypeOK, NEW s, NEW items, NEW field \in Fields, NEW next, Leave(s, items, field, next)
    PROVE  /\ native' = native /\ policy' = policy /\ relationships' = relationships
           /\ stage = s /\ stage' = next
           /\ \A f \in Fields \ {field} : fields'[f] = fields[f]
  BY Left

LEMMA FrameStep == ShapeInv /\ Next => Frame /\ Flow
  <1> SUFFICES ASSUME ShapeInv, Next
               PROVE  Frame /\ Flow
    OBVIOUS
  <1> USE DEF ShapeInv
  <1>0. {"environment", "local_image", "configured_image", "pod", "networks", "attachments", "networking",
         "binds", "mounts", "relabel_hints", "dependencies", "secrets", "relationships"} \subseteq Fields
    BY DEF Fields
  <1>1. CASE DecodeConfiguration
    BY <1>0, <1>1, ConfigurationEffect DEF Frame, Flow
  <1>2. CASE DecodeEnvironment
    <2> DEFINE items == native.env.items
               r == EnvironmentEntry(items[index], index)
    <2>1. CASE Turn("environment", items, r) /\ relationships' = relationships
      <3> HIDE DEF r, items
      <3> QED
        BY <2>1, TurnFrame DEF Frame, Flow
    <2>2. CASE Leave("environment", items, "environment", "references") /\ decoding' = decoding
      <3> HIDE DEF items
      <3>1. /\ native' = native /\ policy' = policy /\ relationships' = relationships
            /\ stage = "environment" /\ stage' = "references"
            /\ \A f \in Fields \ {"environment"} : fields'[f] = fields[f]
        BY <1>0, <2>2, LeaveFrame
      <3> QED
        BY <1>0, <2>2, <3>1 DEF Frame, Flow
    <2> QED
      BY <1>2, <2>1, <2>2 DEF DecodeEnvironment
  <1>3. CASE DecodeReferences
    BY <1>0, <1>3, ReferencesEffect DEF Frame, Flow
  <1>4. CASE DecodeNetworkSettings
    <2>1. stage' \in {"networks", "networking"}
      BY <1>4, NetworkSettingsEffect, Begun
    <2> QED
      BY <1>0, <1>4, <2>1, NetworkSettingsEffect DEF Frame, Flow
  <1>5. CASE DecodeNetworks
    <2> DEFINE items == native.networks.items
               r == NetworkTurn(items[index], index)
    <2>1. CASE Turn("networks", items, r)
      <3> HIDE DEF r, items
      <3> QED
        BY <2>1, TurnFrame DEF Frame, Flow
    <2>2. CASE Leave("networks", items, "networks", "attachments")
      <3> HIDE DEF items
      <3>1. /\ native' = native /\ policy' = policy /\ relationships' = relationships
            /\ stage = "networks" /\ stage' = "attachments"
            /\ \A f \in Fields \ {"networks"} : fields'[f] = fields[f]
        BY <1>0, <2>2, LeaveFrame
      <3> QED
        BY <1>0, <2>2, <3>1 DEF Frame, Flow
    <2> QED
      BY <1>5, <2>1, <2>2, NetworksEffect
  <1>6. CASE DecodeAttachments
    <2> DEFINE items == native.networks.items
               r == AttachmentTurn(items[index], index)
    <2>0. relationships' = relationships /\ decoding' = decoding
      BY <1>6, AttachmentsEffect
    <2>1. CASE Turn("attachments", items, r)
      <3> HIDE DEF r, items
      <3> QED
        BY <2>0, <2>1, TurnFrame DEF Frame, Flow
    <2>2. CASE Leave("attachments", items, "attachments", "networking")
      <3> HIDE DEF items
      <3>1. /\ native' = native /\ policy' = policy /\ relationships' = relationships
            /\ stage = "attachments" /\ stage' = "networking"
            /\ \A f \in Fields \ {"attachments"} : fields'[f] = fields[f]
        BY <1>0, <2>2, LeaveFrame
      <3> QED
        BY <1>0, <2>0, <2>2, <3>1 DEF Frame, Flow
    <2>3. CASE /\ stage = "attachments" /\ fields' = With(fields, "attachments", Malformed)
               /\ Begin("networking") /\ native' = native /\ policy' = policy
      <3>1. stage' = "networking" /\ \A f \in Fields \ {"attachments"} : fields'[f] = fields[f]
        BY <1>0, <2>3, FieldSet, Begun DEF TypeOK
      <3> QED
        BY <1>0, <2>0, <2>3, <3>1 DEF Frame, Flow
    <2> QED
      BY <1>6, <2>1, <2>2, <2>3, AttachmentsEffect
  <1>7. CASE DecodeNetworking
    <2>1. stage' = "host_binds"
      BY <1>7, NetworkingEffect, Begun
    <2> QED
      BY <1>0, <1>7, <2>1, NetworkingEffect DEF Frame, Flow
  <1>8. CASE DecodeHostBinds
    <2>1. stage' \in {"binds", "mount_list"}
      BY <1>8, HostBindsEffect
    <2> QED
      BY <1>0, <1>8, <2>1, HostBindsEffect DEF Frame, Flow
  <1>9. CASE DecodeBinds
    <2> DEFINE items == native.host.binds.items
    <2>1. native.host.binds.json = "array"
      BY <1>9 DEF DecodeBinds, ListsOK
    <2>2. /\ stage = "binds" /\ native' = native /\ policy' = policy
          /\ relationships' = relationships /\ decoding' = decoding
      BY <1>9, <2>1, BindsEffect
    <2>3. CASE stage' = "binds" /\ fields' = fields
      BY <2>2, <2>3 DEF Frame, Flow
    <2>4. CASE Leave("binds", items, "binds", "mount_list")
      <3> HIDE DEF items
      <3>1. /\ native' = native /\ policy' = policy /\ relationships' = relationships
            /\ stage = "binds" /\ stage' = "mount_list"
            /\ \A f \in Fields \ {"binds"} : fields'[f] = fields[f]
        BY <1>0, <2>4, LeaveFrame
      <3> QED
        BY <1>0, <2>2, <2>4, <3>1 DEF Frame, Flow
    <2> QED
      BY <1>9, <2>1, <2>3, <2>4, BindsEffect
  <1>10. CASE DecodeMountList
    <2>1. stage' \in {"mounts", "command"}
      BY <1>10, MountListEffect
    <2> QED
      BY <1>0, <1>10, <2>1, MountListEffect DEF Frame, Flow
  <1>11. CASE DecodeMounts
    <2> DEFINE items == native.mounts.items
               r == MountTurn(items[index], index)
    <2>0. native.mounts.json = "array"
      BY <1>11 DEF DecodeMounts, ListsOK
    <2>1. CASE Turn("mounts", items, r)
      <3> HIDE DEF r, items
      <3> QED
        BY <2>1, TurnFrame DEF Frame, Flow
    <2>2. CASE Leave("mounts", items, "mounts", "command")
      <3> HIDE DEF items
      <3>1. /\ native' = native /\ policy' = policy /\ relationships' = relationships
            /\ stage = "mounts" /\ stage' = "command"
            /\ \A f \in Fields \ {"mounts"} : fields'[f] = fields[f]
        BY <1>0, <2>2, LeaveFrame
      <3> QED
        BY <1>0, <2>2, <3>1 DEF Frame, Flow
    <2> QED
      BY <1>11, <2>0, <2>1, <2>2, MountsEffect
  <1>12. CASE EvidenceNext
    <2>1. EvidenceStep
      BY <1>12, EvidenceSteps
    <2> QED
      BY <1>0, <2>1 DEF EvidenceStep, EvidenceStages, EvidenceFields, Frame, Flow
  <1>13. CASE DecodeDependencyList
    <2>1. stage' \in {"dependencies", "secret_list"}
      BY <1>13, DependencyListEffect
    <2> QED
      BY <1>0, <1>13, <2>1, DependencyListEffect DEF Frame, Flow
  <1>14. CASE DecodeDependencies
    <2> DEFINE items == native.dependencies.items
               r == Pushes(decode_native_reference(items[index]).value, NoFindings)
    <2>0. native.dependencies.json = "array"
      BY <1>14 DEF DecodeDependencies, ListsOK, Turn
    <2>1. CASE Turn("dependencies", items, r)
      <3> HIDE DEF r, items
      <3> QED
        BY <2>1, TurnFrame DEF Frame, Flow
    <2>2. CASE Begin("secret_list") /\ \E v : fields' = With(fields, "dependencies", v)
      <3>1. stage' = "secret_list" /\ \A f \in Fields \ {"dependencies"} : fields'[f] = fields[f]
        BY <1>0, <2>2, FieldSet, Begun DEF TypeOK
      <3>2. stage = "dependencies" /\ native' = native /\ policy' = policy
        BY <1>14, <2>0, DependenciesEffect
      <3> QED
        BY <1>0, <3>1, <3>2 DEF Frame, Flow
    <2> QED
      BY <1>14, <2>0, <2>1, <2>2, DependenciesEffect
  <1>15. CASE DecodeSecretList
    <2>1. stage' \in {"secrets", "relationships"}
      BY <1>15, SecretListEffect
    <2> QED
      BY <1>0, <1>15, <2>1, SecretListEffect DEF Frame, Flow
  <1>16. CASE DecodeSecrets
    <2> DEFINE items == native.secrets.items
               r == SecretTurn(items[index], index)
    <2>0. native.secrets.json = "array"
      BY <1>16 DEF DecodeSecrets, ListsOK
    <2>1. CASE Turn("secrets", items, r)
      <3> HIDE DEF r, items
      <3> QED
        BY <2>1, TurnFrame DEF Frame, Flow
    <2>2. CASE Leave("secrets", items, "secrets", "relationships")
      <3> HIDE DEF items
      <3>1. /\ native' = native /\ policy' = policy /\ relationships' = relationships
            /\ stage = "secrets" /\ stage' = "relationships"
            /\ \A f \in Fields \ {"secrets"} : fields'[f] = fields[f]
        BY <1>0, <2>2, LeaveFrame
      <3> QED
        BY <1>0, <2>2, <3>1 DEF Frame, Flow
    <2> QED
      BY <1>16, <2>0, <2>1, <2>2, SecretsEffect
  <1>17. CASE DecodeRelationships
    BY <1>0, <1>17, RelationshipsEffect DEF Frame, Flow
  <1> QED
    BY <1>1, <1>2, <1>3, <1>4, <1>5, <1>6, <1>7, <1>8, <1>9, <1>10, <1>11, <1>12, <1>13, <1>14, <1>15,
       <1>16, <1>17 DEF Next, EvidenceNext

\* The stage tells the action.
LEMMA StageActions ==
    ASSUME ShapeInv, Next
    PROVE  /\ stage = "configuration" => DecodeConfiguration
           /\ stage = "environment" => DecodeEnvironment
           /\ stage = "references" => DecodeReferences
           /\ stage = "network_settings" => DecodeNetworkSettings
           /\ stage = "networks" => DecodeNetworks
           /\ stage = "attachments" => DecodeAttachments
           /\ stage = "host_binds" => DecodeHostBinds
           /\ stage = "binds" => DecodeBinds
           /\ stage = "mount_list" => DecodeMountList
           /\ stage = "mounts" => DecodeMounts
           /\ stage = "dependency_list" => DecodeDependencyList
           /\ stage = "dependencies" => DecodeDependencies
           /\ stage = "secret_list" => DecodeSecretList
           /\ stage = "secrets" => DecodeSecrets
           /\ stage = "relationships" => DecodeRelationships
           /\ stage = "networking" => DecodeNetworking
           /\ stage \in {"command", "scan", "image_hint", "correlate"} => EvidenceNext
  <1>1. /\ DecodeConfiguration => stage = "configuration"
        /\ DecodeReferences => stage = "references"
        /\ DecodeNetworkSettings => stage = "network_settings"
        /\ DecodeNetworking => stage = "networking"
        /\ DecodeMountList => stage = "mount_list"
        /\ DecodeDependencyList => stage = "dependency_list"
        /\ DecodeSecretList => stage = "secret_list"
        /\ DecodeRelationships => stage = "relationships"
    BY DEF DecodeConfiguration, DecodeReferences, DecodeNetworkSettings, DecodeNetworking, DecodeMountList,
           DecodeDependencyList, DecodeSecretList, DecodeRelationships, Enter
  <1>2. /\ DecodeEnvironment => stage = "environment"
        /\ DecodeNetworks => stage = "networks"
        /\ DecodeAttachments => stage = "attachments"
        /\ DecodeBinds => stage = "binds"
        /\ DecodeMounts => stage = "mounts"
        /\ DecodeDependencies => stage = "dependencies"
        /\ DecodeSecrets => stage = "secrets"
        /\ DecodeHostBinds => stage = "host_binds"
    BY DEF DecodeEnvironment, DecodeNetworks, DecodeAttachments, DecodeBinds, DecodeMounts,
           DecodeDependencies, DecodeSecrets, DecodeHostBinds, Enter
  <1>3. EvidenceNext => stage \in {"command", "scan", "image_hint", "correlate"}
    BY DEF EvidenceNext, ParseCommand, ScanOption, EndOptions, DecodeImageHint, CorrelateMount, EndCorrelation
  <1> QED
    BY <1>1, <1>2, <1>3 DEF Next, EvidenceNext

-----------------------------------------------------------------------------
(* A loop's position is at most one past its list *)

Within(v) == index <= Len(v.items) + 1
BoundInv ==
    /\ stage = "environment" => Within(native.env)
    /\ stage \in {"networks", "attachments"} => Within(native.networks)
    /\ stage = "binds" => Within(native.host.binds)
    /\ stage = "mounts" => Within(native.mounts)
    /\ stage = "dependencies" => Within(native.dependencies)
    /\ stage = "secrets" => Within(native.secrets)

\* The loops start at 1, and a turn advances by 1.
LEMMA Advances ==
    ASSUME ShapeInv, Next
    PROVE  /\ stage \in {"configuration", "network_settings", "host_binds", "mount_list", "dependency_list",
                         "secret_list"} => index' = 1
           /\ stage \in {"environment", "networks", "attachments", "binds", "mounts", "dependencies",
                         "secrets"} /\ stage' # stage => index' = 1
           /\ stage = "environment" /\ stage' = stage => index <= Len(native.env.items) /\ index' = index + 1
           /\ stage \in {"networks", "attachments"} /\ stage' = stage =>
                index <= Len(native.networks.items) /\ index' = index + 1
           /\ stage = "binds" /\ stage' = stage => index <= Len(native.host.binds.items) /\ index' = index + 1
           /\ stage = "mounts" /\ stage' = stage => index <= Len(native.mounts.items) /\ index' = index + 1
           /\ stage = "dependencies" /\ stage' = stage =>
                index <= Len(native.dependencies.items) /\ index' = index + 1
           /\ stage = "secrets" /\ stage' = stage => index <= Len(native.secrets.items) /\ index' = index + 1
  <1>1. CASE stage \in {"configuration", "host_binds", "mount_list", "dependency_list", "secret_list"}
    BY <1>1, StageActions, ConfigurationEffect, HostBindsEffect, MountListEffect,
       DependencyListEffect, SecretListEffect DEF ShapeInv
  <1>2. CASE stage = "network_settings"
    <2>1. index' = 1
      BY <1>2, StageActions, NetworkSettingsEffect, Begun DEF ShapeInv
    <2> QED
      BY <1>2, <2>1
  <1>3. CASE stage = "environment"
    <2>1. DecodeEnvironment
      BY <1>3, StageActions
    <2> QED
      BY <1>3, <2>1 DEF DecodeEnvironment, Turn, Leave, Begin
  <1>4. CASE stage = "networks"
    <2>1. DecodeNetworks
      BY <1>4, StageActions
    <2> QED
      BY <1>4, <2>1 DEF DecodeNetworks, Turn, Leave, Begin
  <1>5. CASE stage = "attachments"
    <2>1. DecodeAttachments
      BY <1>5, StageActions
    <2> QED
      BY <1>5, <2>1 DEF DecodeAttachments, Turn, Leave, Begin
  <1>6. CASE stage = "binds"
    <2>1. DecodeBinds
      BY <1>6, StageActions
    <2> QED
      BY <1>6, <2>1 DEF DecodeBinds, Leave, Begin
  <1>7. CASE stage = "mounts"
    <2>1. DecodeMounts
      BY <1>7, StageActions
    <2> QED
      BY <1>7, <2>1 DEF DecodeMounts, Turn, Leave, Begin
  <1>8. CASE stage = "dependencies"
    <2>1. DecodeDependencies
      BY <1>8, StageActions
    <2> QED
      BY <1>8, <2>1 DEF DecodeDependencies, Turn, Begin
  <1>9. CASE stage = "secrets"
    <2>1. DecodeSecrets
      BY <1>9, StageActions
    <2> QED
      BY <1>9, <2>1 DEF DecodeSecrets, Turn, Leave, Begin
  <1> QED
    BY <1>1, <1>2, <1>3, <1>4, <1>5, <1>6, <1>7, <1>8, <1>9

LEMMA BoundStep == ShapeInv /\ BoundInv /\ [Next]_vars => BoundInv'
  <1>0. BoundInv /\ UNCHANGED vars => BoundInv'
    BY DEF BoundInv, Within, vars
  <1> SUFFICES ASSUME ShapeInv, BoundInv, Next
               PROVE  BoundInv'
    BY <1>0
  <1>1. Flow /\ native' = native
    BY FrameStep DEF Frame
  <1>2. ShapeInv'
    BY ShapeStep
  <1>3. /\ stage' = "environment" => Len(native.env.items) \in Nat
        /\ stage' \in {"networks", "attachments"} => Len(native.networks.items) \in Nat
        /\ stage' = "binds" => Len(native.host.binds.items) \in Nat
        /\ stage' = "mounts" => Len(native.mounts.items) \in Nat
        /\ stage' = "dependencies" => Len(native.dependencies.items) \in Nat
        /\ stage' = "secrets" => Len(native.secrets.items) \in Nat
    <2>1. ASSUME NEW v, IsList(v), v.json = "array"
          PROVE  Len(v.items) \in Nat
      BY <2>1, Lists, SequenceFacts
    <2>2. /\ IsList(native.env) /\ IsList(native.networks) /\ IsList(native.mounts)
          /\ IsList(native.dependencies) /\ IsList(native.secrets) /\ IsList(native.host.binds)
      BY NativeLists DEF ShapeInv
    <2> QED
      BY <1>1, <1>2, <2>1, <2>2 DEF ShapeInv, ListsOK
  <1>4. stage \in Stages /\ index \in Nat
    BY DEF ShapeInv, TypeOK
  <1>5. (stage' = "environment" => Within(native.env)')
    <2>1. SUFFICES ASSUME stage' = "environment"
                   PROVE  index' <= Len(native.env.items) + 1
      BY <1>1 DEF Within
    <2>2. stage \in {"configuration", "environment"}
      BY <1>1, <1>4, <2>1, StageSets DEF Flow
    <2>3. index' = 1 \/ (index <= Len(native.env.items) /\ index' = index + 1)
      BY <2>1, <2>2, Advances
    <2> QED
      BY <1>3, <1>4, <2>1, <2>3
  <1>6. stage' \in {"networks", "attachments"} => Within(native.networks)'
    <2>1. SUFFICES ASSUME stage' \in {"networks", "attachments"}
                   PROVE  index' <= Len(native.networks.items) + 1
      BY <1>1 DEF Within
    <2>2. stage \in {"network_settings", "networks", "attachments"}
      BY <1>1, <1>4, <2>1, StageSets DEF Flow
    <2>3. index' = 1 \/ (index <= Len(native.networks.items) /\ index' = index + 1)
      BY <2>1, <2>2, Advances
    <2> QED
      BY <1>3, <1>4, <2>1, <2>3
  <1>7. stage' = "binds" => Within(native.host.binds)'
    <2>1. SUFFICES ASSUME stage' = "binds"
                   PROVE  index' <= Len(native.host.binds.items) + 1
      BY <1>1 DEF Within
    <2>2. stage \in {"host_binds", "binds"}
      BY <1>1, <1>4, <2>1, StageSets DEF Flow
    <2>3. index' = 1 \/ (index <= Len(native.host.binds.items) /\ index' = index + 1)
      BY <2>1, <2>2, Advances
    <2> QED
      BY <1>3, <1>4, <2>1, <2>3
  <1>8. stage' = "mounts" => Within(native.mounts)'
    <2>1. SUFFICES ASSUME stage' = "mounts"
                   PROVE  index' <= Len(native.mounts.items) + 1
      BY <1>1 DEF Within
    <2>2. stage \in {"mount_list", "mounts"}
      BY <1>1, <1>4, <2>1, StageSets DEF Flow
    <2>3. index' = 1 \/ (index <= Len(native.mounts.items) /\ index' = index + 1)
      BY <2>1, <2>2, Advances
    <2> QED
      BY <1>3, <1>4, <2>1, <2>3
  <1>9. stage' = "dependencies" => Within(native.dependencies)'
    <2>1. SUFFICES ASSUME stage' = "dependencies"
                   PROVE  index' <= Len(native.dependencies.items) + 1
      BY <1>1 DEF Within
    <2>2. stage \in {"dependency_list", "dependencies"}
      BY <1>1, <1>4, <2>1, StageSets DEF Flow
    <2>3. index' = 1 \/ (index <= Len(native.dependencies.items) /\ index' = index + 1)
      BY <2>1, <2>2, Advances
    <2> QED
      BY <1>3, <1>4, <2>1, <2>3
  <1>10. stage' = "secrets" => Within(native.secrets)'
    <2>1. SUFFICES ASSUME stage' = "secrets"
                   PROVE  index' <= Len(native.secrets.items) + 1
      BY <1>1 DEF Within
    <2>2. stage \in {"secret_list", "secrets"}
      BY <1>1, <1>4, <2>1, StageSets DEF Flow
    <2>3. index' = 1 \/ (index <= Len(native.secrets.items) /\ index' = index + 1)
      BY <2>1, <2>2, Advances
    <2> QED
      BY <1>3, <1>4, <2>1, <2>3
  <1> QED
    BY <1>5, <1>6, <1>7, <1>8, <1>9, <1>10 DEF BoundInv

LEMMA BoundInit == Init => BoundInv
  BY DEF Init, BoundInv

=============================================================================
