------------------------ MODULE ContainerFieldProofs ------------------------
(***************************************************************************)
(* What decode_container makes of a response: the fields it observes and   *)
(* the relationships between them, proved with the invariants of           *)
(* ContainerProofs.                                                        *)
(***************************************************************************)
EXTENDS ContainerProofs

-----------------------------------------------------------------------------
(* Relationships *)

Family == {"configured_image", "pod", "networks", "mounts", "dependencies", "secrets"}

FamilyInv ==
    /\ decoding.malformed <=> \E f \in Family : fields[f] = Malformed
    /\ ~decoding.supplied => \A f \in Family : fields[f].state \in {"Absent", "NotApplicable"}
    /\ stage = "done" => fields["relationships"] = IF decoding.malformed THEN Malformed
                                                   ELSE IF ~decoding.supplied THEN Absent
                                                   ELSE Observed(relationships)

KindOf(rs, kind) == UNION {r.references : r \in {q \in Range(rs) : q.kind = kind}}

\* The references of the items before the loop's position, and of all.
NetworkNames(items, n) == {items[j].name : j \in 1..n}
VolumeNames(items, n) == {items[j].name.text : j \in {i \in 1..n : items[i].type.text = "volume"}}
GrantNames(items, n) == UNION {ValueOf(decode_native_reference(items[j].id))
                               \cup ValueOf(decode_native_reference(items[j].name)) : j \in 1..n}

\* The relationships pushed so far, kind by kind.
OwnKinds ==
    IF stage \in ToReferences THEN relationships = <<>>
    ELSE /\ fields["configured_image"] = optional_string_field(native.image_name)
         /\ fields["pod"] = decode_native_reference(native.pod)
         /\ KindOf(relationships, "image") = ValueOf(fields["configured_image"])
         /\ KindOf(relationships, "pod") = ValueOf(fields["pod"])
NetworkKind ==
    LET items == native.networks.items
        listed == native.settings = "object" /\ native.networks.json = "array" /\ ~IsObserved(fields["pod"])
    IN  /\ stage \in ToNetworks \ {"networks"} => KindOf(relationships, "network") = {}
        /\ stage = "networks" /\ ~malformed =>
             KindOf(relationships, "network") = NetworkNames(items, index - 1)
        /\ stage \notin ToNetworks /\ fields["networks"] # Malformed =>
             KindOf(relationships, "network") = IF listed THEN NetworkNames(items, Len(items)) ELSE {}
VolumeKind ==
    LET items == native.mounts.items IN
    /\ stage \in ToMounts \ {"mounts"} => KindOf(relationships, "volume") = {}
    /\ stage = "mounts" /\ ~malformed =>
         KindOf(relationships, "volume") = VolumeNames(items, index - 1)
    /\ stage \notin ToMounts /\ fields["mounts"] # Malformed =>
         KindOf(relationships, "volume") =
             IF native.mounts.json = "array" THEN VolumeNames(items, Len(items)) ELSE {}
DependsOn(entries, items, n) ==
    /\ Len(entries) = n
    /\ \A j \in 1..n : decode_native_reference(items[j]) = Observed(entries[j])
ContainerKind ==
    /\ stage \in ToDependencies => KindOf(relationships, "container") = {}
    /\ stage = "dependencies" => DependsOn(decoded, native.dependencies.items, index - 1)
    /\ stage \notin ToDependencies /\ fields["dependencies"] # Malformed =>
         KindOf(relationships, "container") = Texts(native.dependencies)
SecretKind ==
    LET items == native.secrets.items IN
    /\ stage \in ToSecrets \ {"secrets"} => KindOf(relationships, "secret") = {}
    /\ stage = "secrets" /\ ~malformed =>
         KindOf(relationships, "secret") = GrantNames(items, index - 1)
    /\ stage \notin ToSecrets /\ fields["secrets"] # Malformed =>
         KindOf(relationships, "secret") =
             IF native.config = "object" /\ native.secrets.json = "array" THEN GrantNames(items, Len(items))
             ELSE {}
KindsInv == OwnKinds /\ NetworkKind /\ VolumeKind /\ ContainerKind /\ SecretKind

-----------------------------------------------------------------------------
(* Fields *)

\* The entries decoded from the first n items.
EnvEntries(entries, items, n, redact) ==
    /\ Len(entries) = n
    /\ \A j \in 1..n : /\ entries[j].name = items[j].name /\ items[j].name # ""
                       /\ entries[j].value = IF redact THEN "redacted" ELSE items[j].value

EnvInv ==
    /\ stage = "environment" /\ ~malformed =>
         EnvEntries(decoded, native.env.items, index - 1, policy = "Redact")
    /\ EnvironmentProtected

\* What the two walks over the networks have decoded of the first n.
Walked(entries, items, n) ==
    /\ Len(entries) = n
    /\ \A j \in 1..n : entries[j] = items[j].name /\ ~BadAttachment(items[j])
Attached(entries, items, n) ==
    /\ Len(entries) = n
    /\ \A j \in 1..n : entries[j].name = items[j].name /\ ~BadAttachment(items[j])
HasBad(items, n) == \E j \in 1..n : BadAttachment(items[j])
Agree(networks, attachments) ==
    /\ networks.state = attachments.state
    /\ IsObserved(networks) =>
         networks.value = [k \in DOMAIN attachments.value |-> attachments.value[k].name]
WalksInv ==
    LET items == native.networks.items IN
    /\ stage = "networks" =>
         /\ ~malformed => Walked(decoded, items, index - 1)
         /\ malformed => HasBad(items, index - 1)
    /\ stage = "attachments" =>
         /\ ~malformed /\ Attached(decoded, items, index - 1)
         /\ HasBad(items, Len(items)) => fields["networks"] = Malformed
         /\ ~HasBad(items, Len(items)) =>
              fields["networks"] = Observed([j \in 1..Len(items) |-> items[j].name])
    /\ stage \notin ToNetworks \cup {"attachments"} => Agree(fields["networks"], fields["attachments"])

\* What the entries of HostConfig.Binds before a position ask for.
Asks(bind, source, destination, relabel) ==
    /\ BindEntry(bind) = "relabel" /\ bind.mount = <<source, destination>>
    /\ relabel = relabel_from_tokens(bind.tokens)
TellsBinds(entries, items, n) ==
    /\ \A j \in 1..n : BindEntry(items[j]) # "bad"
    /\ \A j \in 1..n : BindEntry(items[j]) = "relabel" =>
         \E k \in 1..Len(entries) :
            Asks(items[j], entries[k].source, entries[k].destination, entries[k].relabel)
    /\ \A k \in 1..Len(entries) : \E j \in 1..n :
            Asks(items[j], entries[k].source, entries[k].destination, entries[k].relabel)
    /\ \A j, k \in 1..Len(entries) :
         entries[j].source = entries[k].source /\ entries[j].destination = entries[k].destination => j = k
BindsInv ==
    /\ stage = "binds" /\ ~malformed => TellsBinds(decoded, native.host.binds.items, index - 1)
    /\ IsObserved(fields["binds"]) =>
         /\ Sequence(fields["binds"].value)
         /\ IF native.host.json = "object" /\ native.host.binds.json = "array"
            THEN TellsBinds(fields["binds"].value, native.host.binds.items, Len(native.host.binds.items))
            ELSE fields["binds"].value = <<>>
    /\ stage \notin ToBinds => fields["binds"] = Malformed \/ IsObserved(fields["binds"])
\* The relabels a set of tokens claims, and the ones a response claims for a
\* mount: Claims(mount) of the response decoded.
ClaimsIn(response, mount) ==
    LET items == response.host.binds.items
        entries == IF response.host.json = "object" /\ response.host.binds.json = "array"
                   THEN {items[j] : j \in DOMAIN items} ELSE {}
        own == {b \in entries : /\ b.json = "string" /\ mount.destination # None
                                /\ b.mount = <<SourceOf(mount), mount.destination.text>>}
    IN  (IF mount.mode = None THEN {} ELSE Labels(mount.mode.tokens))
        \cup (IF mount.type.text = "bind" THEN UNION {Labels(b.tokens) : b \in own} ELSE {})
Faithful(response, mount, item) ==
    LET claims == ClaimsIn(response, item)
    IN  /\ mount.source = SourceOf(item) /\ item.json = "object" /\ Text(mount.source) \in {item.name, item.source}
        /\ mount.destination = optional_observed_string(item.destination)
        /\ IF claims = {} THEN mount.relabel = Absent
           ELSE mount.relabel = Observed(mount.relabel.value) /\ claims = {mount.relabel.value}
FaithfulTo(response, mounts, n) ==
    /\ Len(mounts) = n
    /\ \A j \in 1..n : Faithful(response, mounts[j], response.mounts.items[j])
MountsInv ==
    /\ stage = "mounts" /\ ~malformed => FaithfulTo(native, decoded, index - 1)
    /\ IsObserved(fields["mounts"]) =>
         /\ native.mounts.json = "array" /\ Sequence(fields["mounts"].value)
         /\ FaithfulTo(native, fields["mounts"].value, Len(native.mounts.items))

-----------------------------------------------------------------------------
(* The environment *)

LEMMA EnvInit == Init => EnvInv
  <1> SUFFICES ASSUME Init
               PROVE  EnvInv
    OBVIOUS
  <1>1. stage = "configuration" /\ fields["environment"] = Absent
    BY DEF Init, Fields
  <1> QED
    BY <1>1, States DEF EnvInv, EnvironmentProtected

LEMMA EnvKept ==
    ASSUME EnvironmentProtected, native' = native, policy' = policy,
           fields'["environment"] = fields["environment"]
    PROVE  EnvironmentProtected'
  BY DEF EnvironmentProtected

LEMMA EnvStep == ShapeInv /\ BoundInv /\ EnvInv /\ [Next]_vars => EnvInv'
  <1>0. EnvInv /\ UNCHANGED vars => EnvInv'
    <2> SUFFICES ASSUME EnvInv, UNCHANGED vars
                 PROVE  EnvInv'
      OBVIOUS
    <2>1. /\ native' = native /\ policy' = policy /\ fields' = fields /\ stage' = stage /\ index' = index
          /\ decoded' = decoded /\ malformed' = malformed
      BY DEF vars
    <2>2. EnvironmentProtected'
      BY <2>1, EnvKept DEF EnvInv
    <2> QED
      BY <2>1, <2>2 DEF EnvInv
  <1> SUFFICES ASSUME ShapeInv, BoundInv, EnvInv, Next
               PROVE  EnvInv'
    BY <1>0
  <1> DEFINE items == native.env.items
             redact == policy = "Redact"
             r == EnvironmentEntry(items[index], index)
  <1>1. Frame /\ Flow
    BY FrameStep
  <1>2. native' = native /\ policy' = policy
    BY <1>1 DEF Frame
  <1>3. TypeOK
    BY DEF ShapeInv
  <1>4. CASE stage \notin {"configuration", "environment"}
    <2>1. fields'["environment"] = fields["environment"] /\ stage' # "environment"
      BY <1>1, <1>3, <1>4, StageSets DEF Frame, Flow, TypeOK
    <2>2. EnvironmentProtected'
      BY <1>2, <2>1 DEF EnvInv, EnvironmentProtected
    <2> QED
      BY <2>1, <2>2 DEF EnvInv
  <1>5. CASE stage = "configuration"
    <2>1. DecodeConfiguration
      BY <1>5, StageActions
    <2>2. /\ index' = 1 /\ decoded' = <<>>
          /\ fields'["environment"] \in {fields["environment"], Absent, Malformed}
      BY <1>3, <2>1, ConfigurationEffect
    <2>4. EnvEntries(decoded', native'.env.items, index' - 1, policy' = "Redact")
      BY <2>2 DEF EnvEntries
    <2>3. EnvironmentProtected'
      <3>1. CASE fields'["environment"] = fields["environment"]
        BY <1>2, <3>1, EnvKept DEF EnvInv
      <3>2. CASE fields'["environment"] \in {Absent, Malformed}
        BY <3>2, States DEF EnvironmentProtected
      <3> QED
        BY <2>2, <3>1, <3>2
    <2> QED
      BY <2>3, <2>4 DEF EnvInv
  <1>6. CASE stage = "environment"
    <2>0. native.env.json = "array" /\ DecodeEnvironment /\ "environment" \in Fields
      BY <1>6, StageActions DEF ShapeInv, ListsOK, Fields
    <2>1. Len(items) \in Nat /\ DOMAIN items = 1..Len(items) /\ index \in Nat \ {0}
      BY <1>3, <2>0, NativeLists, Position
    <2>2. ~malformed => EnvEntries(decoded, items, index - 1, redact)
      BY <1>6 DEF EnvInv
    <2>3. CASE Turn("environment", items, r)
      <3>1. /\ r.bad \in BOOLEAN /\ Sequence(r.findings)
            /\ ~r.bad => /\ r.value.name = items[index].name /\ items[index].name # ""
                         /\ r.value.value = IF redact THEN "redacted" ELSE items[index].value
        BY EnvironmentEntryFacts
      <3>2. stage' = "environment" /\ fields' = fields /\ index' = index + 1
        BY <2>3 DEF Turn
      <3>3. malformed' = (malformed \/ r.bad)
        BY <2>3 DEF Turn
      <3>4. EnvironmentProtected'
        BY <1>2, <3>2 DEF EnvInv, EnvironmentProtected
      <3>5. ~malformed' => EnvEntries(decoded', items, index, redact)
        <4> HIDE DEF r, items, redact
        <4>1. SUFFICES ASSUME ~malformed'
                       PROVE  EnvEntries(decoded', items, index, redact)
          OBVIOUS
        <4>2. ~malformed /\ ~r.bad
          BY <3>3, <4>1
        <4>3. /\ Len(decoded') = Len(decoded) + 1 /\ decoded'[Len(decoded) + 1] = r.value
              /\ \A j \in 1..Len(decoded) : decoded'[j] = decoded[j]
          BY <1>3, <2>3, <3>1, <4>2, Turned
        <4>4. Len(decoded) = index - 1
          BY <2>2, <4>2 DEF EnvEntries
        <4>5. \A j \in 1..index : j \in 1..(index - 1) \/ j = index
          BY <2>1
        <4>6. decoded'[index] = r.value /\ Len(decoded') = index
          BY <2>1, <4>3, <4>4
        <4>7. \A j \in 1..(index - 1) : decoded'[j] = decoded[j]
          BY <4>3, <4>4
        <4> QED
          BY <2>2, <3>1, <4>2, <4>5, <4>6, <4>7 DEF EnvEntries
      <3>6. index' - 1 = index
        BY <2>1, <3>2
      <3>7. ~malformed' => EnvEntries(decoded', native'.env.items, index' - 1, policy' = "Redact")
        BY <1>2, <3>5, <3>6
      <3> QED
        BY <3>2, <3>4, <3>7 DEF EnvInv
    <2>4. CASE Leave("environment", items, "environment", "references")
      <3> HIDE DEF items
      <3>1. /\ stage' = "references" /\ index > Len(items)
            /\ malformed => fields'["environment"] = Malformed
            /\ ~malformed => fields'["environment"] = Observed(decoded)
        BY <1>3, <2>0, <2>4, Left
      <3>2. CASE malformed
        BY <3>1, <3>2, States DEF EnvInv, EnvironmentProtected
      <3>3. CASE ~malformed
        <4>1. fields'["environment"].value = decoded
          BY <3>1, <3>3, States
        <4>2. DOMAIN decoded = 1..Len(decoded)
          BY <1>3, SequenceFacts DEF TypeOK
        <4>3. Len(decoded) = index - 1 /\ Len(decoded) \in Nat
          BY <1>3, <2>2, <3>3, SequenceFacts DEF EnvEntries, TypeOK
        <4>4. index <= Len(items) + 1
          BY <1>6 DEF BoundInv, Within, items
        <4>5. index - 1 = Len(items)
          BY <2>1, <3>1, <4>4
        <4>6. EnvEntries(decoded, items, Len(items), redact)
          BY <2>2, <3>3, <4>5
        <4>7. DOMAIN decoded = DOMAIN items
          BY <2>1, <4>2, <4>3, <4>5
        <4>8. \A k \in DOMAIN decoded :
                /\ decoded[k].name = items[k].name /\ decoded[k].name # ""
                /\ decoded[k].value = IF redact THEN "redacted" ELSE items[k].value
          BY <2>1, <4>6, <4>7 DEF EnvEntries
        <4>9. EnvironmentProtected'
          BY <1>2, <4>1, <4>7, <4>8 DEF EnvironmentProtected, items
        <4> QED
          BY <3>1, <4>9 DEF EnvInv
      <3> QED
        BY <3>2, <3>3
    <2> QED
      BY <2>0, <2>3, <2>4 DEF DecodeEnvironment
  <1> QED
    BY <1>4, <1>5, <1>6

-----------------------------------------------------------------------------
(* The two walks over the networks *)

LEMMA WalksInit == Init => WalksInv
  BY StageSets DEF Init, WalksInv

LEMMA WalksStep == ShapeInv /\ BoundInv /\ WalksInv /\ [Next]_vars => WalksInv'
  <1>0. WalksInv /\ UNCHANGED vars => WalksInv'
    <2> SUFFICES ASSUME WalksInv, UNCHANGED vars
                 PROVE  WalksInv'
      OBVIOUS
    <2>1. /\ native' = native /\ fields' = fields /\ stage' = stage /\ index' = index
          /\ decoded' = decoded /\ malformed' = malformed
      BY DEF vars
    <2> QED
      BY <2>1 DEF WalksInv
  <1> SUFFICES ASSUME ShapeInv, BoundInv, WalksInv, Next
               PROVE  WalksInv'
    BY <1>0
  <1> DEFINE items == native.networks.items
  <1>1. Frame /\ Flow
    BY FrameStep
  <1>2. native' = native
    BY <1>1 DEF Frame
  <1>3. TypeOK /\ stage \in Stages
    BY DEF ShapeInv, TypeOK
  <1>4. CASE stage \notin {"network_settings", "networks", "attachments"}
    <2>1. /\ fields'["networks"] = fields["networks"] /\ fields'["attachments"] = fields["attachments"]
          /\ stage' \notin {"networks", "attachments"}
          /\ stage' \notin ToNetworks => stage \notin ToNetworks
      BY <1>1, <1>3, <1>4, StageSets DEF Frame, Flow
    <2> QED
      BY <1>4, <2>1 DEF WalksInv
  <1>5. CASE stage = "network_settings"
    <2>1. DecodeNetworkSettings
      BY <1>5, StageActions
    <2>2. /\ index' = 1 /\ decoded' = <<>> /\ ~malformed' /\ stage' \in {"networks", "networking"}
      BY <1>3, <2>1, NetworkSettingsEffect, Begun
    <2>3. stage' = "networking" =>
            /\ fields'["networks"] = fields'["attachments"]
            /\ fields'["networks"] \in {NotApplicable, Absent, Malformed}
      <3>1. Begin("networks") => stage' = "networks"
        BY Begun
      <3>2. SUFFICES ASSUME stage' = "networking"
                     PROVE  /\ fields'["networks"] = fields'["attachments"]
                            /\ fields'["networks"] \in {NotApplicable, Absent, Malformed}
        OBVIOUS
      <3>3. ~Begin("networks")
        BY <3>1, <3>2
      <3>4. \E v \in {NotApplicable, Absent, Malformed} :
              fields'["networks"] = v /\ fields'["attachments"] = v
        BY <1>3, <2>1, <3>3, NetworkSettingsEffect
      <3> QED
        BY <3>4
    <2>4. stage' = "networking" => Agree(fields'["networks"], fields'["attachments"])
      BY <2>3, States DEF Agree
    <2>5. Walked(decoded', items, index' - 1)
      BY <2>2 DEF Walked
    <2> QED
      BY <1>2, <2>2, <2>4, <2>5, StageSets DEF WalksInv
  <1>6. CASE stage = "networks"
    <2> DEFINE r == NetworkTurn(items[index], index)
    <2>0. native.networks.json = "array" /\ DecodeNetworks /\ "networks" \in Fields
      BY <1>6, StageActions DEF ShapeInv, ListsOK, Fields
    <2>1. Len(items) \in Nat /\ index \in Nat \ {0}
      BY <1>3, <2>0, NativeLists, Position
    <2>2. /\ ~malformed => Walked(decoded, items, index - 1)
          /\ malformed => HasBad(items, index - 1)
      BY <1>6 DEF WalksInv
    <2>3. CASE Turn("networks", items, r)
      <3>1. /\ r.bad \in BOOLEAN /\ Sequence(r.findings) /\ (r.bad <=> BadAttachment(items[index]))
            /\ ~r.bad => r.value = items[index].name
        BY NetworkTurnFacts
      <3>2. stage' = "networks" /\ index' = index + 1
        BY <2>3 DEF Turn
      <3>3. malformed' = (malformed \/ r.bad)
        BY <2>3 DEF Turn
      <3> HIDE DEF r, items
      <3>4. \A j \in 1..index : j \in 1..(index - 1) \/ j = index
        BY <2>1
      <3>5. ~malformed' => Walked(decoded', items, index)
        <4>1. SUFFICES ASSUME ~malformed'
                       PROVE  Walked(decoded', items, index)
          OBVIOUS
        <4>2. ~malformed /\ ~r.bad
          BY <3>3, <4>1
        <4>3. /\ Len(decoded') = Len(decoded) + 1 /\ decoded'[Len(decoded) + 1] = r.value
              /\ \A j \in 1..Len(decoded) : decoded'[j] = decoded[j]
          BY <1>3, <2>3, <3>1, <4>2, Turned
        <4>4. Len(decoded) = index - 1
          BY <2>2, <4>2 DEF Walked
        <4>6. decoded'[index] = r.value /\ Len(decoded') = index
          BY <2>1, <4>3, <4>4
        <4>7. \A j \in 1..(index - 1) : decoded'[j] = decoded[j]
          BY <4>3, <4>4
        <4> QED
          BY <2>2, <3>1, <3>4, <4>2, <4>6, <4>7 DEF Walked
      <3>6. malformed' => HasBad(items, index)
        <4>1. CASE r.bad
          BY <2>1, <3>1, <4>1 DEF HasBad
        <4>2. CASE malformed
          BY <2>1, <2>2, <4>2 DEF HasBad
        <4> QED
          BY <3>3, <4>1, <4>2
      <3>7. index' - 1 = index
        BY <2>1, <3>2
      <3> QED
        BY <1>2, <3>2, <3>5, <3>6, <3>7, StageSets DEF WalksInv, items
    <2>4. CASE Leave("networks", items, "networks", "attachments")
      <3> HIDE DEF items
      <3>1. /\ stage' = "attachments" /\ index > Len(items) /\ index' = 1 /\ decoded' = <<>> /\ ~malformed'
            /\ malformed => fields'["networks"] = Malformed
            /\ ~malformed => fields'["networks"] = Observed(decoded)
        BY <1>3, <2>0, <2>4, Left
      <3>2. index <= Len(items) + 1
        BY <1>6 DEF BoundInv, Within, items
      <3>3. index - 1 = Len(items)
        BY <2>1, <3>1, <3>2
      <3>4. ~malformed => ~HasBad(items, Len(items)) /\ decoded = [j \in 1..Len(items) |-> items[j].name]
        <4>1. SUFFICES ASSUME ~malformed
                       PROVE  ~HasBad(items, Len(items)) /\ decoded = [j \in 1..Len(items) |-> items[j].name]
          OBVIOUS
        <4>2. Walked(decoded, items, Len(items))
          BY <2>2, <3>3, <4>1
        <4>3. decoded \in Seq(Range(decoded))
          BY <1>3 DEF TypeOK, Sequence
        <4>4. decoded = [j \in 1..Len(decoded) |-> decoded[j]]
          BY <4>3
        <4>5. Len(decoded) = Len(items) /\ \A j \in 1..Len(items) : decoded[j] = items[j].name
          BY <4>2 DEF Walked
        <4> QED
          BY <4>2, <4>4, <4>5 DEF Walked, HasBad
      <3>5. Attached(decoded', items, index' - 1)
        BY <3>1 DEF Attached
      <3>6. malformed => HasBad(items, Len(items))
        BY <2>2, <3>3
      <3> QED
        BY <1>2, <3>1, <3>4, <3>5, <3>6 DEF WalksInv, items
    <2> QED
      BY <1>3, <2>0, <2>3, <2>4, NetworksEffect
  <1>7. CASE stage = "attachments"
    <2> DEFINE r == AttachmentTurn(items[index], index)
    <2>0. native.networks.json = "array" /\ DecodeAttachments /\ "attachments" \in Fields
      BY <1>7, StageActions DEF ShapeInv, ListsOK, Fields
    <2>1. Len(items) \in Nat /\ index \in Nat \ {0}
      BY <1>3, <2>0, NativeLists, Position
    <2>2. /\ ~malformed /\ Attached(decoded, items, index - 1)
          /\ HasBad(items, Len(items)) => fields["networks"] = Malformed
          /\ ~HasBad(items, Len(items)) =>
               fields["networks"] = Observed([j \in 1..Len(items) |-> items[j].name])
      BY <1>7 DEF WalksInv
    <2>9. fields'["networks"] = fields["networks"]
      BY <1>1, <1>7 DEF Frame
    <2>3. CASE ~BadAttachment(items[index]) /\ Turn("attachments", items, r)
      <3>1. ~r.bad /\ r.bad \in BOOLEAN /\ Sequence(r.findings) /\ r.value.name = items[index].name
        BY AttachmentTurnFacts
      <3>2. stage' = "attachments" /\ index' = index + 1 /\ fields' = fields
        BY <2>3 DEF Turn
      <3> HIDE DEF r, items
      <3>3. malformed' = malformed
        BY <1>3, <2>3, <3>1, Turned
      <3>4. \A j \in 1..index : j \in 1..(index - 1) \/ j = index
        BY <2>1
      <3>5. Attached(decoded', items, index)
        <4>3. /\ Len(decoded') = Len(decoded) + 1 /\ decoded'[Len(decoded) + 1] = r.value
              /\ \A j \in 1..Len(decoded) : decoded'[j] = decoded[j]
          BY <1>3, <2>3, <3>1, Turned
        <4>4. Len(decoded) = index - 1
          BY <2>2 DEF Attached
        <4>6. decoded'[index] = r.value /\ Len(decoded') = index
          BY <2>1, <4>3, <4>4
        <4>7. \A j \in 1..(index - 1) : decoded'[j] = decoded[j]
          BY <4>3, <4>4
        <4> QED
          BY <2>2, <2>3, <3>1, <3>4, <4>6, <4>7 DEF Attached
      <3>7. index' - 1 = index
        BY <2>1, <3>2
      <3>8. ~malformed'
        BY <2>2, <3>3
      <3> QED
        BY <1>2, <2>2, <3>2, <3>5, <3>7, <3>8, StageSets DEF WalksInv, items
    <2>4. CASE /\ BadAttachment(items[index]) /\ index <= Len(items)
               /\ fields' = With(fields, "attachments", Malformed) /\ Begin("networking")
      <3>1. stage' = "networking" /\ fields'["attachments"] = Malformed
        BY <1>3, <2>0, <2>4, FieldSet, Begun DEF TypeOK
      <3>2. HasBad(items, Len(items))
        BY <2>1, <2>4 DEF HasBad
      <3>3. Agree(fields'["networks"], fields'["attachments"])
        BY <2>2, <2>9, <3>1, <3>2, States DEF Agree
      <3> QED
        BY <3>1, <3>3 DEF WalksInv
    <2>5. CASE Leave("attachments", items, "attachments", "networking")
      <3> HIDE DEF items
      <3>1. /\ stage' = "networking" /\ index > Len(items)
            /\ fields'["attachments"] = Observed(decoded)
        BY <1>3, <2>0, <2>2, <2>5, Left
      <3>2. index <= Len(items) + 1
        BY <1>7 DEF BoundInv, Within, items
      <3>3. index - 1 = Len(items)
        BY <2>1, <3>1, <3>2
      <3>4. Attached(decoded, items, Len(items))
        BY <2>2, <3>3
      <3>5. ~HasBad(items, Len(items))
        BY <3>4 DEF HasBad, Attached
      <3>6. DOMAIN decoded = 1..Len(decoded)
        BY <1>3, SequenceFacts DEF TypeOK
      <3>7. [k \in DOMAIN decoded |-> decoded[k].name] = [j \in 1..Len(items) |-> items[j].name]
        BY <3>4, <3>6 DEF Attached
      <3> DEFINE names == [j \in 1..Len(items) |-> items[j].name]
      <3>9. fields'["networks"] = Observed(names)
        BY <2>2, <2>9, <3>5
      <3>10. [k \in DOMAIN decoded |-> decoded[k].name] = names
        BY <3>7
      <3> HIDE DEF names
      <3>8. Agree(fields'["networks"], fields'["attachments"])
        <4>1. fields'["networks"].value = names /\ fields'["attachments"].value = decoded
          BY <3>1, <3>9, States
        <4>2. fields'["networks"].state = "Observed" /\ fields'["attachments"].state = "Observed"
          BY <3>1, <3>9, States
        <4> QED
          BY <3>10, <4>1, <4>2 DEF Agree
      <3> QED
        BY <3>1, <3>8 DEF WalksInv
    <2> QED
      BY <1>3, <2>0, <2>3, <2>4, <2>5, AttachmentsEffect
  <1> QED
    BY <1>4, <1>5, <1>6, <1>7

LEMMA WalksAgree == WalksInv => NetworksAgree
  BY StageSets DEF WalksInv, NetworksAgree, Agree

-----------------------------------------------------------------------------
(* Relationships are observed all or none *)

LEMMA FamilyInit == Init => FamilyInv
  <1> SUFFICES ASSUME Init
               PROVE  FamilyInv
    OBVIOUS
  <1>1. /\ stage = "configuration" /\ fields = [f \in Fields |-> Absent]
        /\ decoding = [supplied |-> FALSE, malformed |-> FALSE]
    BY DEF Init
  <1>2. ~decoding.malformed
    BY <1>1, Zenon
  <1>3. \A f \in Family : fields[f] = Absent
    BY <1>1 DEF Family, Fields
  <1> QED
    BY <1>1, <1>2, <1>3, States DEF FamilyInv

\* One family is decoded and merged.
LEMMA FamilyOne ==
    ASSUME TypeOK, FamilyInv, NEW g \in Family, NEW x \in BOOLEAN, NEW y \in BOOLEAN, Merge(x, y),
           fields[g] = Absent, \A f \in Family \ {g} : fields'[f] = fields[f],
           y <=> fields'[g] = Malformed, ~x => fields'[g].state \in {"Absent", "NotApplicable"},
           stage' # "done"
    PROVE  FamilyInv'
  <1>1. decoding'.malformed = (decoding.malformed \/ y) /\ decoding'.supplied = (decoding.supplied \/ x)
    BY Merged
  <1>2. decoding'.malformed <=> \E f \in Family : fields'[f] = Malformed
    BY <1>1, States DEF FamilyInv
  <1>3. ~decoding'.supplied => \A f \in Family : fields'[f].state \in {"Absent", "NotApplicable"}
    BY <1>1 DEF FamilyInv
  <1> QED
    BY <1>2, <1>3 DEF FamilyInv

LEMMA FamilySame ==
    ASSUME FamilyInv, decoding' = decoding, \A f \in Family : fields'[f] = fields[f], stage' # "done"
    PROVE  FamilyInv'
  BY DEF FamilyInv

LEMMA FamilyStep == ShapeInv /\ FamilyInv /\ [Next]_vars => FamilyInv'
  <1>0. FamilyInv /\ UNCHANGED vars => FamilyInv'
    <2> SUFFICES ASSUME FamilyInv, UNCHANGED vars
                 PROVE  FamilyInv'
      OBVIOUS
    <2>1. fields' = fields /\ stage' = stage /\ decoding' = decoding /\ relationships' = relationships
      BY DEF vars
    <2> QED
      BY <2>1 DEF FamilyInv
  <1> SUFFICES ASSUME ShapeInv, FamilyInv, Next
               PROVE  FamilyInv'
    BY <1>0
  <1>1. Frame /\ Flow
    BY FrameStep
  <1>2. TypeOK /\ stage \in Stages /\ Untouched
    BY DEF ShapeInv, TypeOK
  <1>3. Family \subseteq Fields
    BY DEF Family, Fields
  <1>4. CASE stage \notin {"references", "network_settings", "networks", "mount_list", "mounts",
                           "dependency_list", "dependencies", "secret_list", "secrets", "relationships"}
    <2>1. decoding' = decoding /\ stage' # "done"
      BY <1>1, <1>2, <1>4, StageSets DEF Frame, Flow
    <2>2. \A f \in Family : fields'[f] = fields[f]
      BY <1>1, <1>4 DEF Frame, Family
    <2> QED
      BY <2>1, <2>2, FamilySame
  <1>5. CASE stage = "references"
    <2>1. DecodeReferences
      BY <1>5, StageActions
    <2>2. /\ stage' = "network_settings"
          /\ \A f \in Fields : f \notin {"local_image", "configured_image", "pod"} => fields'[f] = fields[f]
          /\ decoding'.supplied = (fields'["configured_image"] # Absent \/ fields'["pod"] # Absent)
          /\ decoding'.malformed = (fields'["configured_image"] = Malformed \/ fields'["pod"] = Malformed)
      BY <1>2, <2>1, ReferencesEffect
    <2>3. \A f \in Family \ {"configured_image", "pod"} : fields'[f] = Absent
      BY <1>2, <1>5, <2>2, StageSets DEF Untouched, Family, Fields
    <2>4. decoding'.malformed <=> \E f \in Family : fields'[f] = Malformed
      BY <2>2, <2>3, States DEF Family
    <2>5. ~decoding'.supplied => \A f \in Family : fields'[f].state \in {"Absent", "NotApplicable"}
      BY <2>2, <2>3, States DEF Family
    <2> QED
      BY <2>2, <2>4, <2>5 DEF FamilyInv
  <1>6. CASE stage = "network_settings"
    <2>1. DecodeNetworkSettings
      BY <1>6, StageActions
    <2>2. "networks" \in Family /\ fields["networks"] = Absent /\ stage' # "done"
      BY <1>1, <1>2, <1>6, StageSets DEF Untouched, Family, Flow
    <2>3. \A f \in Family \ {"networks"} : fields'[f] = fields[f]
      BY <1>1, <1>6 DEF Frame, Family
    <2>4. CASE decoding' = decoding /\ fields'["networks"] \in {NotApplicable, fields["networks"]}
      BY <2>2, <2>3, <2>4, States DEF FamilyInv
    <2>5. CASE Merge(FALSE, FALSE) /\ fields'["networks"] = Absent
      BY <1>2, <2>2, <2>3, <2>5, FamilyOne, States
    <2>6. CASE Merge(TRUE, TRUE) /\ fields'["networks"] = Malformed
      BY <1>2, <2>2, <2>3, <2>6, FamilyOne
    <2> QED
      BY <1>2, <2>1, <2>4, <2>5, <2>6, NetworkSettingsEffect
  <1>7. ASSUME NEW s, NEW items, NEW next, s \in Family, Leave(s, items, s, next), Merge(TRUE, malformed),
               fields[s] = Absent, next # "done"
        PROVE  FamilyInv'
    <2>1. s \in Fields /\ malformed \in BOOLEAN
      BY <1>2, <1>3, <1>7 DEF TypeOK
    <2>2. /\ stage' = next /\ \A f \in Fields : f # s => fields'[f] = fields[f]
          /\ malformed => fields'[s] = Malformed
          /\ ~malformed => fields'[s] = Observed(decoded)
      BY <1>2, <1>7, <2>1, Left
    <2>3. malformed <=> fields'[s] = Malformed
      BY <2>2, States
    <2>4. \A f \in Family \ {s} : fields'[f] = fields[f]
      BY <1>3, <2>2
    <2> QED
      BY <1>2, <1>7, <2>1, <2>2, <2>3, <2>4, FamilyOne
  <1>8. CASE stage = "networks"
    <2>1. DecodeNetworks /\ "networks" \in Family /\ fields["networks"] = Absent
      BY <1>2, <1>8, StageActions, StageSets DEF Family, Untouched
    <2>2. CASE Leave("networks", native.networks.items, "networks", "attachments") /\ Merge(TRUE, malformed)
      BY <1>7, <2>1, <2>2
    <2>3. CASE Turn("networks", native.networks.items, NetworkTurn(native.networks.items[index], index))
      <3>1. fields' = fields /\ decoding' = decoding /\ stage' = "networks"
        BY <2>3 DEF Turn
      <3> QED
        BY <3>1, FamilySame
    <2> QED
      BY <1>2, <2>1, <2>2, <2>3, NetworksEffect
  <1>9. CASE stage = "mount_list"
    <2>1. DecodeMountList
      BY <1>9, StageActions
    <2>2. "mounts" \in Family /\ fields["mounts"] = Absent /\ stage' # "done"
      BY <1>1, <1>2, <1>9, StageSets DEF Untouched, Family, Flow
    <2>3. \A f \in Family \ {"mounts"} : fields'[f] = fields[f]
      BY <1>1, <1>9 DEF Frame, Family
    <2>5. CASE Merge(FALSE, FALSE) /\ fields'["mounts"] = Absent
      BY <1>2, <2>2, <2>3, <2>5, FamilyOne, States
    <2>6. CASE Merge(TRUE, TRUE) /\ fields'["mounts"] = Malformed
      BY <1>2, <2>2, <2>3, <2>6, FamilyOne
    <2> QED
      BY <1>2, <2>1, <2>2, <2>5, <2>6, MountListEffect
  <1>10. CASE stage = "mounts"
    <2>1. DecodeMounts /\ "mounts" \in Family /\ fields["mounts"] = Absent /\ native.mounts.json = "array"
      BY <1>2, <1>10, StageActions, StageSets DEF Family, Untouched, ShapeInv, ListsOK
    <2>2. CASE Leave("mounts", native.mounts.items, "mounts", "command") /\ Merge(TRUE, malformed)
      BY <1>7, <2>1, <2>2
    <2>3. CASE Turn("mounts", native.mounts.items, MountTurn(native.mounts.items[index], index))
      <3>1. fields' = fields /\ decoding' = decoding /\ stage' = "mounts"
        BY <2>3 DEF Turn
      <3> QED
        BY <3>1, FamilySame
    <2> QED
      BY <1>2, <2>1, <2>2, <2>3, MountsEffect
  <1>11. CASE stage = "dependency_list"
    <2>1. DecodeDependencyList
      BY <1>11, StageActions
    <2>2. "dependencies" \in Family /\ fields["dependencies"] = Absent /\ stage' # "done"
      BY <1>1, <1>2, <1>11, StageSets DEF Untouched, Family, Flow
    <2>3. \A f \in Family \ {"dependencies"} : fields'[f] = fields[f]
      BY <1>1, <1>11 DEF Frame, Family
    <2>5. CASE Merge(FALSE, FALSE) /\ fields'["dependencies"] = Absent
      BY <1>2, <2>2, <2>3, <2>5, FamilyOne, States
    <2>6. CASE Merge(TRUE, TRUE) /\ fields'["dependencies"] = Malformed
      BY <1>2, <2>2, <2>3, <2>6, FamilyOne
    <2> QED
      BY <1>2, <2>1, <2>2, <2>5, <2>6, DependencyListEffect
  <1>12. CASE stage = "dependencies"
    <2>1. /\ DecodeDependencies /\ "dependencies" \in Family /\ fields["dependencies"] = Absent
          /\ native.dependencies.json = "array" /\ stage' # "done"
      BY <1>1, <1>2, <1>12, StageActions, StageSets DEF Family, Untouched, ShapeInv, ListsOK, Flow
    <2>2. \A f \in Family \ {"dependencies"} : fields'[f] = fields[f]
      BY <1>1, <1>12 DEF Frame, Family
    <2>3. CASE fields' = With(fields, "dependencies", Malformed) /\ Merge(TRUE, TRUE)
      <3>1. fields'["dependencies"] = Malformed
        BY <1>2, <1>3, <2>1, <2>3, FieldSet DEF TypeOK
      <3> QED
        BY <1>2, <2>1, <2>2, <2>3, <3>1, FamilyOne
    <2>4. CASE fields' = With(fields, "dependencies", Observed(decoded)) /\ Merge(TRUE, FALSE)
      <3>1. fields'["dependencies"] # Malformed
        BY <1>2, <1>3, <2>1, <2>4, FieldSet, States DEF TypeOK
      <3> QED
        BY <1>2, <2>1, <2>2, <2>4, <3>1, FamilyOne
    <2>5. CASE fields' = fields /\ decoding' = decoding
      BY <2>1, <2>5, FamilySame
    <2> QED
      BY <1>2, <2>1, <2>3, <2>4, <2>5, DependenciesEffect DEF Turn
  <1>13. CASE stage = "secret_list"
    <2>1. DecodeSecretList
      BY <1>13, StageActions
    <2>2. "secrets" \in Family /\ fields["secrets"] = Absent /\ stage' # "done"
      BY <1>1, <1>2, <1>13, StageSets DEF Untouched, Family, Flow
    <2>3. \A f \in Family \ {"secrets"} : fields'[f] = fields[f]
      BY <1>1, <1>13 DEF Frame, Family
    <2>5. CASE Merge(FALSE, FALSE) /\ fields'["secrets"] = Absent
      BY <1>2, <2>2, <2>3, <2>5, FamilyOne, States
    <2>6. CASE Merge(TRUE, TRUE) /\ fields'["secrets"] = Malformed
      BY <1>2, <2>2, <2>3, <2>6, FamilyOne
    <2> QED
      BY <1>2, <2>1, <2>2, <2>5, <2>6, SecretListEffect
  <1>14. CASE stage = "secrets"
    <2>1. DecodeSecrets /\ "secrets" \in Family /\ fields["secrets"] = Absent /\ native.secrets.json = "array"
      BY <1>2, <1>14, StageActions, StageSets DEF Family, Untouched, ShapeInv, ListsOK
    <2>2. CASE Leave("secrets", native.secrets.items, "secrets", "relationships") /\ Merge(TRUE, malformed)
      BY <1>7, <2>1, <2>2
    <2>3. CASE Turn("secrets", native.secrets.items, SecretTurn(native.secrets.items[index], index))
      <3>1. fields' = fields /\ decoding' = decoding /\ stage' = "secrets"
        BY <2>3 DEF Turn
      <3> QED
        BY <3>1, FamilySame
    <2> QED
      BY <1>2, <2>1, <2>2, <2>3, SecretsEffect
  <1>15. CASE stage = "relationships"
    <2>1. DecodeRelationships
      BY <1>15, StageActions
    <2>2. /\ decoding' = decoding /\ relationships' = relationships
          /\ fields'["relationships"] = IF decoding.malformed THEN Malformed
                                        ELSE IF ~decoding.supplied THEN Absent
                                        ELSE Observed(relationships)
      BY <1>2, <2>1, RelationshipsEffect
    <2>3. \A f \in Family : fields'[f] = fields[f]
      BY <1>1, <1>15 DEF Frame, Family
    <2> QED
      BY <2>2, <2>3 DEF FamilyInv
  <1> QED
    BY <1>4, <1>5, <1>6, <1>8, <1>9, <1>10, <1>11, <1>12, <1>13, <1>14, <1>15

-----------------------------------------------------------------------------
(* The relationships, kind by kind *)

\* The references of a kind, of no relationships, of one more and of two lists.
LEMMA KindEmpty == \A kind : KindOf(<<>>, kind) = {}
  BY DEF KindOf, Range

LEMMA KindOne ==
    ASSUME NEW k, NEW names, NEW kind
    PROVE  /\ k = kind => KindOf(<<Reference(k, names)>>, kind) = names
           /\ k # kind => KindOf(<<Reference(k, names)>>, kind) = {}
  <1> DEFINE one == Reference(k, names)
  <1>1. one.kind = k /\ one.references = names
    BY DEF Reference
  <1> HIDE DEF one
  <1>2. Range(<<one>>) = {one}
    BY DEF Range
  <1> QED
    BY <1>1, <1>2 DEF KindOf, one

LEMMA KindAppend ==
    ASSUME NEW rs, Sequence(rs), NEW k, NEW names, NEW kind
    PROVE  /\ k = kind => KindOf(Append(rs, Reference(k, names)), kind) = KindOf(rs, kind) \cup names
           /\ k # kind => KindOf(Append(rs, Reference(k, names)), kind) = KindOf(rs, kind)
  <1> DEFINE one == Reference(k, names)
  <1>1. one.kind = k /\ one.references = names
    BY DEF Reference
  <1> HIDE DEF one
  <1>2. Range(Append(rs, one)) = Range(rs) \cup {one}
    BY Appending
  <1> QED
    BY <1>1, <1>2 DEF KindOf, one

LEMMA KindConcat ==
    ASSUME NEW rs, Sequence(rs), NEW ts, Sequence(ts), NEW kind
    PROVE  KindOf(rs \o ts, kind) = KindOf(rs, kind) \cup KindOf(ts, kind)
  <1>1. Range(rs \o ts) = Range(rs) \cup Range(ts)
    BY Concatenation
  <1> QED
    BY <1>1 DEF KindOf

LEMMA KindPushed ==
    ASSUME NEW s, NEW kind
    PROVE  LET pushed == [k \in DOMAIN s |-> Reference("container", {s[k]})]
           IN  /\ kind = "container" => KindOf(pushed, kind) = {s[k] : k \in DOMAIN s}
               /\ kind # "container" => KindOf(pushed, kind) = {}
  <1> DEFINE pushed == [k \in DOMAIN s |-> Reference("container", {s[k]})]
  <1>1. /\ DOMAIN pushed = DOMAIN s
        /\ \A k \in DOMAIN s : pushed[k].kind = "container" /\ pushed[k].references = {s[k]}
    BY DEF Reference
  <1> HIDE DEF pushed
  <1>2. Range(pushed) = {pushed[k] : k \in DOMAIN s}
    BY <1>1 DEF Range
  <1>3. kind = "container" => KindOf(pushed, kind) = {s[k] : k \in DOMAIN s}
    BY <1>1, <1>2 DEF KindOf
  <1>4. kind # "container" => KindOf(pushed, kind) = {}
    BY <1>1, <1>2 DEF KindOf
  <1> QED
    BY <1>3, <1>4 DEF pushed

\* A stage pushes relationships of its own kind.
LEMMA KindFrame ==
    ASSUME ShapeInv, Next, NEW kind \in {"image", "pod", "network", "volume", "container", "secret"},
           stage # "references",
           kind = "network" => stage # "networks", kind = "volume" => stage # "mounts",
           kind = "container" => stage # "dependencies", kind = "secret" => stage # "secrets"
    PROVE  KindOf(relationships', kind) = KindOf(relationships, kind)
  <1>1. TypeOK /\ Sequence(relationships)
    BY DEF ShapeInv, TypeOK
  <1>2. CASE stage = "networks"
    <2> DEFINE items == native.networks.items
               names == {items[index].name}
    <2>1. DecodeNetworks
      BY <1>2, StageActions
    <2>2. \/ relationships' = relationships
          \/ relationships' = Append(relationships, Reference("network", names))
      <3>1. Leave("networks", items, "networks", "attachments") => relationships' = relationships
        BY DEF Leave
      <3> QED
        BY <1>1, <2>1, <3>1, NetworksEffect
    <2> HIDE DEF names
    <2>3. KindOf(Append(relationships, Reference("network", names)), kind) = KindOf(relationships, kind)
      BY <1>1, <1>2, KindAppend
    <2> QED
      BY <2>2, <2>3
  <1>3. CASE stage = "mounts"
    <2> DEFINE items == native.mounts.items
               names == {MountTurn(items[index], index).value.source}
    <2>1. DecodeMounts /\ native.mounts.json = "array"
      BY <1>3, StageActions DEF ShapeInv, ListsOK
    <2>2. \/ relationships' = relationships
          \/ relationships' = Append(relationships, Reference("volume", names))
      <3>1. Leave("mounts", items, "mounts", "command") => relationships' = relationships
        BY DEF Leave
      <3> QED
        BY <1>1, <2>1, <3>1, MountsEffect
    <2> HIDE DEF names
    <2>3. KindOf(Append(relationships, Reference("volume", names)), kind) = KindOf(relationships, kind)
      BY <1>1, <1>3, KindAppend
    <2> QED
      BY <2>2, <2>3
  <1>4. CASE stage = "dependencies"
    <2> DEFINE pushed == [k \in DOMAIN decoded |-> Reference("container", {decoded[k]})]
    <2>1. DecodeDependencies /\ native.dependencies.json = "array"
      BY <1>4, StageActions DEF ShapeInv, ListsOK
    <2>2. \/ relationships' = relationships
          \/ relationships' = relationships \o pushed
      BY <1>1, <2>1, DependenciesEffect
    <2>3. Sequence(pushed)
      BY <1>1, MappedSequence DEF TypeOK
    <2>4. KindOf(pushed, kind) = {}
      BY <1>4, KindPushed
    <2> HIDE DEF pushed
    <2>5. KindOf(relationships \o pushed, kind) = KindOf(relationships, kind)
      BY <1>1, <2>3, <2>4, KindConcat
    <2> QED
      BY <2>2, <2>5
  <1>5. CASE stage = "secrets"
    <2> DEFINE items == native.secrets.items
               names == SecretTurn(items[index], index).value
    <2>1. DecodeSecrets /\ native.secrets.json = "array"
      BY <1>5, StageActions DEF ShapeInv, ListsOK
    <2>2. \/ relationships' = relationships
          \/ relationships' = Append(relationships, Reference("secret", names))
      <3>1. Leave("secrets", items, "secrets", "relationships") => relationships' = relationships
        BY DEF Leave
      <3> QED
        BY <1>1, <2>1, <3>1, SecretsEffect
    <2> HIDE DEF names
    <2>3. KindOf(Append(relationships, Reference("secret", names)), kind) = KindOf(relationships, kind)
      BY <1>1, <1>5, KindAppend
    <2> QED
      BY <2>2, <2>3
  <1>6. CASE stage \notin {"networks", "mounts", "dependencies", "secrets"}
    <2>1. relationships' = relationships
      BY <1>6, FrameStep DEF Frame
    <2> QED
      BY <2>1
  <1> QED
    BY <1>2, <1>3, <1>4, <1>5, <1>6

\* DecodeReferences pushes the image and the pod.
LEMMA KindReferences ==
    ASSUME TypeOK, DecodeReferences
    PROVE  /\ KindOf(relationships', "image") = ValueOf(fields'["configured_image"])
           /\ KindOf(relationships', "pod") = ValueOf(fields'["pod"])
           /\ \A kind \in {"network", "volume", "container", "secret"} : KindOf(relationships', kind) = {}
  <1> DEFINE configured == optional_string_field(native.image_name)
             pod == decode_native_reference(native.pod)
             Push(kind, f) == IF IsObserved(f) THEN <<Reference(kind, {f.value})>> ELSE <<>>
             a == Push("image", configured)
             b == Push("pod", pod)
  <1>1. /\ fields'["configured_image"] = configured /\ fields'["pod"] = pod
        /\ relationships' = a \o b
    BY ReferencesEffect
  <1> HIDE DEF configured, pod
  <1>2. /\ KindOf(a, "image") = ValueOf(configured)
        /\ \A kind : kind # "image" => KindOf(a, kind) = {}
    BY KindEmpty, KindOne DEF ValueOf
  <1>3. /\ KindOf(b, "pod") = ValueOf(pod)
        /\ \A kind : kind # "pod" => KindOf(b, kind) = {}
    BY KindEmpty, KindOne DEF ValueOf
  <1>4. Sequence(a) /\ Sequence(b)
    BY ShortSequences
  <1> HIDE DEF a, b
  <1>5. \A kind : KindOf(relationships', kind) = KindOf(a, kind) \cup KindOf(b, kind)
    BY <1>1, <1>4, KindConcat
  <1> QED
    BY <1>1, <1>2, <1>3, <1>5

LEMMA OwnKindsStep == ShapeInv /\ OwnKinds /\ Next => OwnKinds'
  <1> SUFFICES ASSUME ShapeInv, OwnKinds, Next
               PROVE  OwnKinds'
    OBVIOUS
  <1>1. Frame /\ Flow
    BY FrameStep
  <1>2. TypeOK /\ stage \in Stages /\ native' = native
    BY <1>1 DEF ShapeInv, TypeOK, Frame
  <1>3. CASE stage \in {"configuration", "environment"}
    <2>1. stage' \in ToReferences /\ stage \in ToReferences /\ relationships' = relationships
      BY <1>1, <1>3, StageSets DEF Frame, Flow
    <2> QED
      BY <2>1 DEF OwnKinds
  <1>4. CASE stage = "references"
    <2>1. DecodeReferences
      BY <1>4, StageActions
    <2>2. /\ stage' \notin ToReferences
          /\ fields'["configured_image"] = optional_string_field(native.image_name)
          /\ fields'["pod"] = decode_native_reference(native.pod)
      BY <1>2, <2>1, ReferencesEffect, StageSets
    <2>3. /\ KindOf(relationships', "image") = ValueOf(fields'["configured_image"])
          /\ KindOf(relationships', "pod") = ValueOf(fields'["pod"])
      BY <1>2, <2>1, KindReferences
    <2> QED
      BY <1>2, <2>2, <2>3 DEF OwnKinds
  <1>5. CASE stage \notin ToReferences
    <2>1. stage' \notin ToReferences
      BY <1>1, <1>2, <1>5, StageSets DEF Flow
    <2>2. /\ fields'["configured_image"] = fields["configured_image"]
          /\ fields'["pod"] = fields["pod"] /\ stage # "references"
      BY <1>1, <1>5, StageSets DEF Frame
    <2>3. KindOf(relationships', "image") = KindOf(relationships, "image")
      BY <2>2, KindFrame
    <2>4. KindOf(relationships', "pod") = KindOf(relationships, "pod")
      BY <2>2, KindFrame
    <2> QED
      BY <1>2, <1>5, <2>1, <2>2, <2>3, <2>4 DEF OwnKinds
  <1> QED
    BY <1>3, <1>4, <1>5, StageSets

\* Before DecodeReferences nothing is pushed, and it pushes nothing of the
\* other kinds.
LEMMA KindsBefore ==
    ASSUME ShapeInv, OwnKinds, Next, stage \in ToReferences,
           NEW kind \in {"network", "volume", "container", "secret"}
    PROVE  /\ stage' \in {"environment", "references", "network_settings"}
           /\ KindOf(relationships', kind) = {}
  <1>1. Frame /\ Flow /\ TypeOK
    BY FrameStep DEF ShapeInv
  <1>2. CASE stage = "references"
    <2>1. DecodeReferences
      BY <1>2, StageActions
    <2> QED
      BY <1>1, <1>2, <2>1, KindReferences DEF Flow
  <1>3. CASE stage \in {"configuration", "environment"}
    <2>1. relationships' = <<>> /\ stage' \in {"environment", "references"}
      BY <1>1, <1>3, StageSets DEF Frame, Flow, OwnKinds
    <2> QED
      BY <2>1, KindEmpty
  <1> QED
    BY <1>2, <1>3, StageSets

\* The names of one more item.
LEMMA NamesGrow ==
    ASSUME NEW items, NEW n \in Nat
    PROVE  /\ NetworkNames(items, 0) = {} /\ VolumeNames(items, 0) = {} /\ GrantNames(items, 0) = {}
           /\ NetworkNames(items, n + 1) = NetworkNames(items, n) \cup {items[n + 1].name}
           /\ items[n + 1].type.text = "volume" =>
                VolumeNames(items, n + 1) = VolumeNames(items, n) \cup {items[n + 1].name.text}
           /\ items[n + 1].type.text # "volume" => VolumeNames(items, n + 1) = VolumeNames(items, n)
           /\ GrantNames(items, n + 1) =
                GrantNames(items, n) \cup ValueOf(decode_native_reference(items[n + 1].id))
                                     \cup ValueOf(decode_native_reference(items[n + 1].name))
  <1>0. 1..0 = {}
    OBVIOUS
  <1>1. 1..(n + 1) = (1..n) \cup {n + 1}
    OBVIOUS
  <1>2. NetworkNames(items, 0) = {} /\ VolumeNames(items, 0) = {} /\ GrantNames(items, 0) = {}
    BY <1>0 DEF NetworkNames, VolumeNames, GrantNames
  <1>3. NetworkNames(items, n + 1) = NetworkNames(items, n) \cup {items[n + 1].name}
    BY <1>1 DEF NetworkNames
  <1>4. /\ items[n + 1].type.text = "volume" =>
             VolumeNames(items, n + 1) = VolumeNames(items, n) \cup {items[n + 1].name.text}
        /\ items[n + 1].type.text # "volume" => VolumeNames(items, n + 1) = VolumeNames(items, n)
    BY <1>1 DEF VolumeNames
  <1> DEFINE Of(j) == ValueOf(decode_native_reference(items[j].id))
                      \cup ValueOf(decode_native_reference(items[j].name))
  <1>5. \A m : GrantNames(items, m) = UNION {Of(j) : j \in 1..m}
    BY DEF GrantNames
  <1>6. GrantNames(items, n + 1) = GrantNames(items, n) \cup Of(n + 1)
    <2> HIDE DEF Of
    <2> QED
      BY <1>1, <1>5
  <1> QED
    BY <1>2, <1>3, <1>4, <1>6

LEMMA NetworkKindStep == ShapeInv /\ BoundInv /\ OwnKinds /\ NetworkKind /\ Next => NetworkKind'
  <1> SUFFICES ASSUME ShapeInv, BoundInv, OwnKinds, NetworkKind, Next
               PROVE  NetworkKind'
    OBVIOUS
  <1> DEFINE items == native.networks.items
             names == KindOf(relationships, "network")
             listed == /\ native.settings = "object" /\ native.networks.json = "array"
                       /\ ~IsObserved(fields["pod"])
  <1>1. Frame /\ Flow
    BY FrameStep
  <1>2. TypeOK /\ stage \in Stages /\ native' = native
    BY <1>1 DEF ShapeInv, TypeOK, Frame
  <1>3. CASE stage \in ToReferences
    <2>1. stage' \in {"environment", "references", "network_settings"} /\ names' = {}
      BY <1>3, KindsBefore
    <2> QED
      BY <2>1, StageSets DEF NetworkKind
  <1>4. CASE stage = "network_settings"
    <2>1. DecodeNetworkSettings
      BY <1>4, StageActions
    <2>2. names' = {}
      <3>1. names' = names
        BY <1>4, KindFrame
      <3> QED
        BY <1>4, <3>1, StageSets DEF NetworkKind
    <2>3. index' = 1 /\ stage' \in {"networks", "networking"} /\ fields'["pod"] = fields["pod"]
      BY <1>1, <1>2, <1>4, <2>1, NetworkSettingsEffect, Begun DEF Frame
    <2>4. stage' = "networking" /\ fields'["networks"] # Malformed => ~listed
      <3>1. Begin("networks") => stage' = "networks"
        BY Begun
      <3> QED
        BY <1>2, <2>1, <3>1, NetworkSettingsEffect
    <2>5. index' - 1 = 0 /\ NetworkNames(items, 0) = {}
      BY <2>3, NamesGrow
    <2> QED
      BY <1>2, <2>2, <2>3, <2>4, <2>5, StageSets DEF NetworkKind
  <1>5. CASE stage = "networks"
    <2> DEFINE r == NetworkTurn(items[index], index)
    <2>0. native.networks.json = "array" /\ DecodeNetworks /\ "networks" \in Fields
      BY <1>5, StageActions DEF ShapeInv, ListsOK, Fields
    <2>1. Len(items) \in Nat /\ index \in Nat \ {0}
      BY <1>2, <2>0, NativeLists, Position
    <2>2. ~malformed => names = NetworkNames(items, index - 1)
      BY <1>5 DEF NetworkKind
    <2>8. Sequence(relationships)
      BY <1>2 DEF TypeOK
    <2>3. CASE /\ Turn("networks", items, r)
               /\ relationships' = IF BadAttachment(items[index]) THEN relationships
                                   ELSE Append(relationships, Reference("network", {items[index].name}))
      <3>1. r.bad \in BOOLEAN /\ (r.bad <=> BadAttachment(items[index]))
        BY NetworkTurnFacts
      <3>2. stage' = "networks" /\ index' = index + 1
        BY <2>3 DEF Turn
      <3>3. malformed' = (malformed \/ r.bad)
        BY <2>3 DEF Turn
      <3> HIDE DEF r
      <3>4. ~malformed' => names' = NetworkNames(items, index)
        <4>1. SUFFICES ASSUME ~malformed'
                       PROVE  names' = NetworkNames(items, index)
          OBVIOUS
        <4>2. ~malformed /\ ~r.bad
          BY <3>3, <4>1
        <4> DEFINE one == {items[index].name}
        <4>3. relationships' = Append(relationships, Reference("network", one))
          BY <2>3, <3>1, <4>2
        <4>5. NetworkNames(items, index) = NetworkNames(items, index - 1) \cup one
          <5> DEFINE n == index - 1
          <5>1. n \in Nat /\ index = n + 1
            BY <2>1
          <5> HIDE DEF n
          <5>2. NetworkNames(items, n + 1) = NetworkNames(items, n) \cup {items[n + 1].name}
            BY <5>1, NamesGrow
          <5> QED
            BY <5>1, <5>2 DEF n
        <4> HIDE DEF one
        <4>4. KindOf(Append(relationships, Reference("network", one)), "network") = names \cup one
          BY <2>8, KindAppend
        <4> QED
          BY <2>2, <4>2, <4>3, <4>4, <4>5
      <3>7. index' - 1 = index
        BY <2>1, <3>2
      <3> QED
        BY <1>2, <3>2, <3>4, <3>7, StageSets DEF NetworkKind
    <2>4. CASE Leave("networks", items, "networks", "attachments")
      <3> HIDE DEF items
      <3>1. /\ stage' = "attachments" /\ index > Len(items) /\ relationships' = relationships
            /\ malformed => fields'["networks"] = Malformed
        BY <1>2, <2>0, <2>4, Left
      <3>2. index <= Len(items) + 1
        BY <1>5 DEF BoundInv, Within, items
      <3>3. index - 1 = Len(items)
        BY <2>1, <3>1, <3>2
      <3>4. fields'["networks"] # Malformed => names' = NetworkNames(items, Len(items))
        BY <2>2, <3>1, <3>3
      <3> QED
        BY <1>2, <3>1, <3>4, StageSets, <1>5, <1>1 DEF NetworkKind, items, ShapeInv, ListsOK, Frame
    <2> QED
      BY <1>2, <2>0, <2>3, <2>4, NetworksEffect
  <1>6. CASE stage \notin ToNetworks
    <2>1. stage' \notin ToNetworks
      BY <1>1, <1>2, <1>6, StageSets DEF Flow
    <2>2. /\ fields'["networks"] = fields["networks"]
          /\ fields'["pod"] = fields["pod"] /\ stage \notin {"references", "networks"}
      BY <1>1, <1>6, StageSets DEF Frame
    <2>3. names' = names
      BY <2>2, KindFrame
    <2> QED
      BY <1>2, <1>6, <2>1, <2>2, <2>3, StageSets DEF NetworkKind
  <1> QED
    BY <1>2, <1>3, <1>4, <1>5, <1>6, StageSets

\* The value a member of Mounts is decoded to.
LEMMA DecodedMount ==
    ASSUME NEW mount, NEW value, Decodes(mount, value)
    PROVE  LET destination == optional_observed_string(mount.destination)
           IN  /\ mount.json = "object" /\ mount.type.json = "string" /\ mount.type.text \in {"volume", "bind"}
               /\ value.source = SourceOf(mount) /\ value.destination = destination
               /\ destination # Malformed /\ value.relabel # Malformed
               /\ value.relabel = decode_mount_selinux_relabel(mount, mount.type.text, SourceOf(mount),
                                                               destination).field
  <1> DEFINE kind == mount.type.text
             destination == optional_observed_string(mount.destination)
             source == IF kind = "volume" THEN mount.name ELSE mount.source
             relabel == decode_mount_selinux_relabel(mount, kind, source.text, destination)
  <1>1. source.text = SourceOf(mount)
    BY DEF SourceOf
  <1>2. /\ mount.json = "object" /\ mount.type.json = "string" /\ kind \in {"volume", "bind"}
        /\ destination # Malformed /\ relabel.field # Malformed
        /\ value = [kind |-> kind, source |-> source.text, destination |-> destination,
                    relabel |-> relabel.field]
    BY DEF Decodes
  <1>3. relabel.field = decode_mount_selinux_relabel(mount, kind, SourceOf(mount), destination).field
    BY <1>1
  <1> HIDE DEF relabel, destination, source
  <1>4. value.source = source.text /\ value.destination = destination /\ value.relabel = relabel.field
    BY <1>2
  <1> QED
    BY <1>1, <1>2, <1>3, <1>4 DEF destination

LEMMA VolumeKindStep == ShapeInv /\ BoundInv /\ OwnKinds /\ VolumeKind /\ Next => VolumeKind'
  <1> SUFFICES ASSUME ShapeInv, BoundInv, OwnKinds, VolumeKind, Next
               PROVE  VolumeKind'
    OBVIOUS
  <1> DEFINE items == native.mounts.items
             names == KindOf(relationships, "volume")
  <1>1. Frame /\ Flow
    BY FrameStep
  <1>2. TypeOK /\ stage \in Stages /\ native' = native
    BY <1>1 DEF ShapeInv, TypeOK, Frame
  <1>3. CASE stage \in ToReferences
    <2>1. stage' \in {"environment", "references", "network_settings"} /\ names' = {}
      BY <1>3, KindsBefore
    <2> QED
      BY <2>1, StageSets DEF VolumeKind
  <1>4. CASE stage = "mount_list"
    <2>1. DecodeMountList
      BY <1>4, StageActions
    <2>2. names' = {}
      <3>1. names' = names
        BY <1>4, KindFrame
      <3> QED
        BY <1>4, <3>1, StageSets DEF VolumeKind
    <2>3. /\ index' = 1 /\ stage' \in {"mounts", "command"}
          /\ stage' = "command" /\ fields'["mounts"] # Malformed => native.mounts = None
      BY <1>2, <2>1, MountListEffect
    <2>4. native.mounts = None => native.mounts.json # "array"
      BY DEF None
    <2>5. index' - 1 = 0 /\ VolumeNames(items, 0) = {}
      BY <2>3, NamesGrow
    <2> QED
      BY <1>2, <2>2, <2>3, <2>4, <2>5, StageSets DEF VolumeKind
  <1>5. CASE stage = "mounts"
    <2> DEFINE r == MountTurn(items[index], index)
               one == {r.value.source}
    <2>0. native.mounts.json = "array" /\ DecodeMounts /\ "mounts" \in Fields
      BY <1>5, StageActions DEF ShapeInv, ListsOK, Fields
    <2>1. Len(items) \in Nat /\ index \in Nat \ {0}
      BY <1>2, <2>0, NativeLists, Position
    <2>2. ~malformed => names = VolumeNames(items, index - 1)
      BY <1>5 DEF VolumeKind
    <2>8. Sequence(relationships)
      BY <1>2 DEF TypeOK
    <2>3. CASE /\ Turn("mounts", items, r) /\ r.bad \in BOOLEAN
               /\ ~r.bad => Decodes(items[index], r.value)
               /\ relationships' = IF r.bad \/ items[index].type.text # "volume" THEN relationships
                                   ELSE Append(relationships, Reference("volume", one))
      <3>2. stage' = "mounts" /\ index' = index + 1
        BY <2>3 DEF Turn
      <3>3. malformed' = (malformed \/ r.bad)
        BY <2>3 DEF Turn
      <3>5. ~r.bad /\ items[index].type.text = "volume" => one = {items[index].name.text}
        <4>1. ~r.bad => Decodes(items[index], r.value)
          BY <2>3
        <4> HIDE DEF r
        <4>2. Decodes(items[index], r.value) /\ items[index].type.text = "volume" =>
                r.value.source = items[index].name.text
          BY DecodedMount DEF SourceOf
        <4> QED
          BY <4>1, <4>2
      <3> HIDE DEF r, one
      <3>4. ~malformed' => names' = VolumeNames(items, index)
        <4>1. SUFFICES ASSUME ~malformed'
                       PROVE  names' = VolumeNames(items, index)
          OBVIOUS
        <4>2. ~malformed /\ ~r.bad
          BY <3>3, <4>1
        <4> DEFINE n == index - 1
        <4>3. n \in Nat /\ index = n + 1
          BY <2>1
        <4> HIDE DEF n
        <4>4. /\ items[n + 1].type.text = "volume" =>
                   VolumeNames(items, n + 1) = VolumeNames(items, n) \cup {items[n + 1].name.text}
              /\ items[n + 1].type.text # "volume" => VolumeNames(items, n + 1) = VolumeNames(items, n)
          BY <4>3, NamesGrow
        <4>5. KindOf(Append(relationships, Reference("volume", one)), "volume") = names \cup one
          BY <2>8, KindAppend
        <4>6. names = VolumeNames(items, n)
          BY <2>2, <4>2 DEF n
        <4>7. CASE items[index].type.text = "volume"
          BY <2>3, <3>5, <4>2, <4>3, <4>4, <4>5, <4>6, <4>7
        <4>8. CASE items[index].type.text # "volume"
          BY <2>3, <4>2, <4>3, <4>4, <4>6, <4>8
        <4> QED
          BY <4>7, <4>8
      <3>7. index' - 1 = index
        BY <2>1, <3>2
      <3> QED
        BY <1>2, <3>2, <3>4, <3>7, StageSets DEF VolumeKind
    <2>4. CASE Leave("mounts", items, "mounts", "command")
      <3> HIDE DEF items
      <3>1. /\ stage' = "command" /\ index > Len(items) /\ relationships' = relationships
            /\ malformed => fields'["mounts"] = Malformed
        BY <1>2, <2>0, <2>4, Left
      <3>2. index <= Len(items) + 1
        BY <1>5 DEF BoundInv, Within, items
      <3>3. index - 1 = Len(items)
        BY <2>1, <3>1, <3>2
      <3>4. fields'["mounts"] # Malformed => names' = VolumeNames(items, Len(items))
        BY <2>2, <3>1, <3>3
      <3> QED
        BY <1>2, <2>0, <3>1, <3>4, StageSets DEF VolumeKind, items
    <2> QED
      BY <1>2, <2>0, <2>3, <2>4, MountsEffect
  <1>6. CASE stage \in ToMounts \ (ToReferences \cup {"mount_list", "mounts"})
    <2>1. stage' \in ToMounts \ {"mounts"}
      BY <1>1, <1>6, StageSets DEF Flow
    <2>2. names' = names
      BY <1>6, KindFrame, StageSets
    <2> QED
      BY <1>6, <2>1, <2>2, StageSets DEF VolumeKind
  <1>7. CASE stage \notin ToMounts
    <2>1. stage' \notin ToMounts
      BY <1>1, <1>2, <1>7, StageSets DEF Flow
    <2>2. fields'["mounts"] = fields["mounts"] /\ stage \notin {"references", "mounts"}
      BY <1>1, <1>7, StageSets DEF Frame
    <2>3. names' = names
      BY <2>2, KindFrame
    <2> QED
      BY <1>2, <1>7, <2>1, <2>2, <2>3, StageSets DEF VolumeKind
  <1> QED
    BY <1>2, <1>3, <1>4, <1>5, <1>6, <1>7, StageSets

LEMMA SecretKindStep == ShapeInv /\ BoundInv /\ OwnKinds /\ SecretKind /\ Next => SecretKind'
  <1> SUFFICES ASSUME ShapeInv, BoundInv, OwnKinds, SecretKind, Next
               PROVE  SecretKind'
    OBVIOUS
  <1> DEFINE items == native.secrets.items
             names == KindOf(relationships, "secret")
  <1>1. Frame /\ Flow
    BY FrameStep
  <1>2. TypeOK /\ stage \in Stages /\ native' = native
    BY <1>1 DEF ShapeInv, TypeOK, Frame
  <1>3. CASE stage \in ToReferences
    <2>1. stage' \in {"environment", "references", "network_settings"} /\ names' = {}
      BY <1>3, KindsBefore
    <2> QED
      BY <2>1, StageSets DEF SecretKind
  <1>4. CASE stage = "secret_list"
    <2>1. DecodeSecretList
      BY <1>4, StageActions
    <2>2. names' = {}
      <3>1. names' = names
        BY <1>4, KindFrame
      <3> QED
        BY <1>4, <3>1, StageSets DEF SecretKind
    <2>3. /\ index' = 1 /\ stage' \in {"secrets", "relationships"}
          /\ stage' = "relationships" => native.config # "object" \/ native.secrets.json # "array"
      BY <1>2, <2>1, SecretListEffect
    <2>5. index' - 1 = 0 /\ GrantNames(items, 0) = {}
      BY <2>3, NamesGrow
    <2> QED
      BY <1>2, <2>2, <2>3, <2>5, StageSets DEF SecretKind
  <1>5. CASE stage = "secrets"
    <2> DEFINE secret == items[index]
               r == SecretTurn(secret, index)
    <2>0. /\ native.config = "object" /\ native.secrets.json = "array" /\ DecodeSecrets
          /\ "secrets" \in Fields
      BY <1>5, StageActions DEF ShapeInv, ListsOK, Fields
    <2>1. Len(items) \in Nat /\ index \in Nat \ {0}
      BY <1>2, <2>0, NativeLists, Position
    <2>2. ~malformed => names = GrantNames(items, index - 1)
      BY <1>5 DEF SecretKind
    <2>8. Sequence(relationships)
      BY <1>2 DEF TypeOK
    <2>3. CASE /\ Turn("secrets", items, r) /\ r.bad \in BOOLEAN
               /\ ~r.bad => r.value = ValueOf(decode_native_reference(secret.id))
                                      \cup ValueOf(decode_native_reference(secret.name))
               /\ relationships' = IF r.bad THEN relationships
                                   ELSE Append(relationships, Reference("secret", r.value))
      <3>2. stage' = "secrets" /\ index' = index + 1
        BY <2>3 DEF Turn
      <3>3. malformed' = (malformed \/ r.bad)
        BY <2>3 DEF Turn
      <3> HIDE DEF r
      <3>4. ~malformed' => names' = GrantNames(items, index)
        <4>1. SUFFICES ASSUME ~malformed'
                       PROVE  names' = GrantNames(items, index)
          OBVIOUS
        <4>2. ~malformed /\ ~r.bad
          BY <3>3, <4>1
        <4> DEFINE n == index - 1
                   one == r.value
        <4>3. n \in Nat /\ index = n + 1
          BY <2>1
        <4> HIDE DEF n, one
        <4>4. GrantNames(items, n + 1) =
                GrantNames(items, n) \cup ValueOf(decode_native_reference(items[n + 1].id))
                                     \cup ValueOf(decode_native_reference(items[n + 1].name))
          BY <4>3, NamesGrow
        <4>5. KindOf(Append(relationships, Reference("secret", one)), "secret") = names \cup one
          BY <2>8, KindAppend
        <4>6. names = GrantNames(items, n)
          BY <2>2, <4>2 DEF n
        <4>7. relationships' = Append(relationships, Reference("secret", one))
          BY <2>3, <4>2 DEF one
        <4>8. one = ValueOf(decode_native_reference(items[n + 1].id))
                    \cup ValueOf(decode_native_reference(items[n + 1].name))
          BY <2>3, <4>2, <4>3 DEF one
        <4> QED
          BY <4>3, <4>4, <4>5, <4>6, <4>7, <4>8
      <3>7. index' - 1 = index
        BY <2>1, <3>2
      <3> QED
        BY <1>2, <3>2, <3>4, <3>7, StageSets DEF SecretKind
    <2>4. CASE Leave("secrets", items, "secrets", "relationships")
      <3> HIDE DEF items
      <3>1. /\ stage' = "relationships" /\ index > Len(items) /\ relationships' = relationships
            /\ malformed => fields'["secrets"] = Malformed
        BY <1>2, <2>0, <2>4, Left
      <3>2. index <= Len(items) + 1
        BY <1>5 DEF BoundInv, Within, items
      <3>3. index - 1 = Len(items)
        BY <2>1, <3>1, <3>2
      <3>4. fields'["secrets"] # Malformed => names' = GrantNames(items, Len(items))
        BY <2>2, <3>1, <3>3
      <3> QED
        BY <1>2, <2>0, <3>1, <3>4, StageSets DEF SecretKind, items
    <2> QED
      BY <1>2, <2>0, <2>3, <2>4, SecretsEffect
  <1>6. CASE stage \in ToSecrets \ (ToReferences \cup {"secret_list", "secrets"})
    <2>1. stage' \in ToSecrets \ {"secrets"}
      BY <1>1, <1>6, StageSets DEF Flow
    <2>2. names' = names
      BY <1>6, KindFrame, StageSets
    <2> QED
      BY <1>6, <2>1, <2>2, StageSets DEF SecretKind
  <1>7. CASE stage \notin ToSecrets
    <2>1. stage' \notin ToSecrets
      BY <1>1, <1>2, <1>7, StageSets DEF Flow
    <2>2. fields'["secrets"] = fields["secrets"] /\ stage \notin {"references", "secrets"}
      BY <1>1, <1>7, StageSets DEF Frame
    <2>3. names' = names
      BY <2>2, KindFrame
    <2> QED
      BY <1>2, <1>7, <2>1, <2>2, <2>3, StageSets DEF SecretKind
  <1> QED
    BY <1>2, <1>3, <1>4, <1>5, <1>6, <1>7, StageSets

\* A text that is a reference.
LEMMA ReferenceText ==
    ASSUME NEW v, NEW e, decode_native_reference(v) = Observed(e)
    PROVE  v.json = "string" /\ v.text = e /\ e # ""
  <1>1. v # None
    BY States DEF decode_native_reference
  <1>2. v.json = "string"
    BY <1>1, States DEF decode_native_reference
  <1>3. v.text # ""
    BY <1>1, <1>2, States DEF decode_native_reference
  <1>4. Observed(v.text) = Observed(e)
    BY <1>1, <1>2, <1>3 DEF decode_native_reference
  <1>5. Observed(v.text).value = v.text /\ Observed(e).value = e
    BY States
  <1> QED
    BY <1>2, <1>3, <1>4, <1>5

LEMMA ContainerKindStep == ShapeInv /\ BoundInv /\ OwnKinds /\ ContainerKind /\ Next => ContainerKind'
  <1> SUFFICES ASSUME ShapeInv, BoundInv, OwnKinds, ContainerKind, Next
               PROVE  ContainerKind'
    OBVIOUS
  <1> DEFINE items == native.dependencies.items
             names == KindOf(relationships, "container")
  <1>1. Frame /\ Flow
    BY FrameStep
  <1>2. TypeOK /\ stage \in Stages /\ native' = native
    BY <1>1 DEF ShapeInv, TypeOK, Frame
  <1>3. CASE stage \in ToReferences
    <2>1. stage' \in {"environment", "references", "network_settings"} /\ names' = {}
      BY <1>3, KindsBefore
    <2> QED
      BY <2>1, StageSets DEF ContainerKind
  <1>4. CASE stage = "dependency_list"
    <2>1. DecodeDependencyList
      BY <1>4, StageActions
    <2>2. names' = {}
      <3>1. names' = names
        BY <1>4, KindFrame
      <3> QED
        BY <1>4, <3>1, StageSets DEF ContainerKind
    <2>3. /\ index' = 1 /\ decoded' = <<>> /\ stage' \in {"dependencies", "secret_list"}
          /\ stage' = "secret_list" /\ fields'["dependencies"] # Malformed => native.dependencies = None
      BY <1>2, <2>1, DependencyListEffect
    <2>4. native.dependencies = None => Texts(native.dependencies) = {}
      BY DEF None, Texts
    <2>5. DependsOn(decoded', items, index' - 1)
      BY <2>3 DEF DependsOn
    <2> QED
      BY <1>2, <2>2, <2>3, <2>4, <2>5, StageSets DEF ContainerKind
  <1>5. CASE stage = "dependencies"
    <2> DEFINE reference == decode_native_reference(items[index])
               r == Pushes(reference.value, NoFindings)
               pushed == [k \in DOMAIN decoded |-> Reference("container", {decoded[k]})]
    <2>0. native.dependencies.json = "array" /\ DecodeDependencies /\ "dependencies" \in Fields
      BY <1>5, StageActions DEF ShapeInv, ListsOK, Fields
    <2>1. Len(items) \in Nat /\ index \in Nat \ {0}
      BY <1>2, <2>0, NativeLists, Position
    <2>2. DependsOn(decoded, items, index - 1) /\ names = {}
      BY <1>5, StageSets DEF ContainerKind
    <2>8. Sequence(relationships) /\ Sequence(decoded)
      BY <1>2 DEF TypeOK
    <2>3. CASE /\ Turn("dependencies", items, r) /\ IsObserved(reference)
               /\ relationships' = relationships
      <3>2. stage' = "dependencies" /\ index' = index + 1
        BY <2>3 DEF Turn
      <3>3. r.bad \in BOOLEAN /\ ~r.bad /\ r.value = reference.value
        BY TurnFacts
      <3>9. Sequence(r.findings)
        <4>1. r.findings = NoFindings
          BY TurnFacts
        <4> QED
          BY <4>1, FindingLists
      <3>10. reference = Observed(reference.value)
        BY <2>3 DEF decode_native_reference, IsObserved, Observed, Absent, Malformed
      <3> HIDE DEF r
      <3>4. /\ Len(decoded') = Len(decoded) + 1 /\ decoded'[Len(decoded) + 1] = r.value
            /\ \A j \in 1..Len(decoded) : decoded'[j] = decoded[j]
        BY <1>2, <2>3, <3>3, <3>9, Turned
      <3>5. Len(decoded) = index - 1
        BY <2>2 DEF DependsOn
      <3>6. decoded'[index] = r.value /\ Len(decoded') = index
        BY <2>1, <3>4, <3>5
      <3>11. \A j \in 1..index : j \in 1..(index - 1) \/ j = index
        BY <2>1
      <3>7. index' - 1 = index
        BY <2>1, <3>2
      <3>8. DependsOn(decoded', items, index)
        <4>1. \A j \in 1..(index - 1) : decode_native_reference(items[j]) = Observed(decoded'[j])
          BY <2>2, <3>4, <3>5 DEF DependsOn
        <4>2. decode_native_reference(items[index]) = Observed(decoded'[index])
          BY <3>3, <3>6, <3>10
        <4> QED
          BY <3>6, <3>11, <4>1, <4>2 DEF DependsOn
      <3> QED
        BY <1>2, <2>2, <2>3, <3>2, <3>7, <3>8, StageSets DEF ContainerKind
    <2>4. CASE Begin("secret_list") /\ fields' = With(fields, "dependencies", Malformed)
      <3>1. stage' = "secret_list" /\ fields'["dependencies"] = Malformed
        BY <1>2, <2>0, <2>4, Begun, FieldSet DEF TypeOK
      <3> QED
        BY <3>1, StageSets DEF ContainerKind
    <2>5. CASE /\ Begin("secret_list") /\ index > Len(items)
               /\ relationships' = relationships \o pushed
      <3>1. stage' = "secret_list"
        BY <2>5, Begun
      <3>2. index <= Len(items) + 1
        BY <1>5 DEF BoundInv, Within
      <3>3. index - 1 = Len(items)
        BY <2>1, <2>5, <3>2
      <3>4. Sequence(pushed)
        BY <2>8, MappedSequence
      <3>5. KindOf(pushed, "container") = {decoded[k] : k \in DOMAIN decoded}
        BY KindPushed
      <3> HIDE DEF pushed
      <3>6. KindOf(relationships \o pushed, "container") = names \cup KindOf(pushed, "container")
        BY <2>8, <3>4, KindConcat
      <3>7. names' = {decoded[k] : k \in DOMAIN decoded}
        BY <2>2, <2>5, <3>5, <3>6
      <3>8. DOMAIN decoded = 1..Len(items) /\ DOMAIN items = 1..Len(items)
        <4>1. Len(decoded) = Len(items)
          BY <2>2, <3>3 DEF DependsOn
        <4>2. Sequence(items)
          BY <1>2, <2>0, NativeLists, Lists
        <4> QED
          BY <2>8, <4>1, <4>2, SequenceFacts
      <3>9. ASSUME NEW j \in 1..Len(items)
            PROVE  items[j].json = "string" /\ items[j].text = decoded[j]
        <4>1. decode_native_reference(items[j]) = Observed(decoded[j])
          BY <2>2, <3>3 DEF DependsOn
        <4> QED
          BY <4>1, ReferenceText
      <3>10. Texts(native.dependencies) = {decoded[k] : k \in 1..Len(items)}
        BY <2>0, <3>8, <3>9 DEF Texts
      <3> QED
        BY <1>2, <3>1, <3>7, <3>8, <3>10, StageSets DEF ContainerKind
    <2> QED
      BY <1>2, <2>0, <2>3, <2>4, <2>5, DependenciesEffect
  <1>6. CASE stage \in ToDependencies \ (ToReferences \cup {"dependency_list", "dependencies"})
    <2>1. stage' \in ToDependencies \ {"dependencies"}
      BY <1>1, <1>6, StageSets DEF Flow
    <2>2. names' = names
      BY <1>6, KindFrame, StageSets
    <2> QED
      BY <1>6, <2>1, <2>2, StageSets DEF ContainerKind
  <1>7. CASE stage \notin ToDependencies
    <2>1. stage' \notin ToDependencies
      BY <1>1, <1>2, <1>7, StageSets DEF Flow
    <2>2. fields'["dependencies"] = fields["dependencies"] /\ stage \notin {"references", "dependencies"}
      BY <1>1, <1>7, StageSets DEF Frame
    <2>3. names' = names
      BY <2>2, KindFrame
    <2> QED
      BY <1>2, <1>7, <2>1, <2>2, <2>3, StageSets DEF ContainerKind
  <1> QED
    BY <1>2, <1>3, <1>4, <1>5, <1>6, <1>7, StageSets

LEMMA KindsInit == Init => KindsInv
  <1> SUFFICES ASSUME Init
               PROVE  KindsInv
    OBVIOUS
  <1>1. stage = "configuration" /\ relationships = <<>>
    BY DEF Init
  <1>2. \A kind : KindOf(relationships, kind) = {}
    BY <1>1, KindEmpty
  <1> QED
    BY <1>1, <1>2, StageSets
    DEF KindsInv, OwnKinds, NetworkKind, VolumeKind, ContainerKind, SecretKind

LEMMA KindsStep == ShapeInv /\ BoundInv /\ KindsInv /\ [Next]_vars => KindsInv'
  <1>1. ASSUME KindsInv, UNCHANGED vars
        PROVE  KindsInv'
    <2>1. /\ native' = native /\ fields' = fields /\ stage' = stage /\ index' = index
          /\ decoded' = decoded /\ malformed' = malformed /\ relationships' = relationships
      BY <1>1 DEF vars
    <2>2. OwnKinds' /\ ContainerKind'
      BY <1>1, <2>1 DEF KindsInv, OwnKinds, ContainerKind
    <2>3. NetworkKind'
      BY <1>1, <2>1 DEF KindsInv, NetworkKind
    <2>4. VolumeKind'
      BY <1>1, <2>1 DEF KindsInv, VolumeKind
    <2>5. SecretKind'
      BY <1>1, <2>1 DEF KindsInv, SecretKind
    <2> QED
      BY <2>2, <2>3, <2>4, <2>5 DEF KindsInv
  <1> QED
    BY <1>1, OwnKindsStep, NetworkKindStep, VolumeKindStep, ContainerKindStep, SecretKindStep DEF KindsInv

\* The texts of one and of two values.
LEMMA TextsOfOne ==
    ASSUME NEW v
    PROVE  /\ v.json = "string" => Texts(Array(<<v>>)) = {v.text}
           /\ v.json # "string" => Texts(Array(<<v>>)) = {}
  <1> DEFINE items == <<v>>
  <1>1. Array(items).json = "array" /\ Array(items).items = items
    BY DEF Array
  <1>2. DOMAIN items = {1} /\ items[1] = v
    OBVIOUS
  <1> HIDE DEF items
  <1> QED
    BY <1>1, <1>2 DEF Texts, items

LEMMA TextsOfTwo ==
    ASSUME NEW v, NEW w
    PROVE  Texts(Array(<<v, w>>)) = Texts(Array(<<v>>)) \cup Texts(Array(<<w>>))
  <1> DEFINE items == <<v, w>>
  <1>1. Array(items).json = "array" /\ Array(items).items = items
    BY DEF Array
  <1>2. DOMAIN items = {1, 2} /\ items[1] = v /\ items[2] = w
    OBVIOUS
  <1> HIDE DEF items
  <1>3. Texts(Array(items)) = {items[j].text : j \in {i \in {1, 2} : items[i].json = "string"}}
    BY <1>1, <1>2 DEF Texts
  <1>4. Texts(Array(items)) = (IF v.json = "string" THEN {v.text} ELSE {})
                              \cup (IF w.json = "string" THEN {w.text} ELSE {})
    BY <1>2, <1>3
  <1> QED
    BY <1>4, TextsOfOne DEF items

\* What the field of a text is, and what is a reference.
LEMMA FieldTexts ==
    ASSUME NEW v
    PROVE  /\ optional_string_field(v) # Malformed =>
                ValueOf(optional_string_field(v)) = Texts(Array(<<v>>))
           /\ ValueOf(decode_native_reference(v)) = Texts(Array(<<v>>)) \ {""}
  <1>0. None.json # "string"
    BY DEF None
  <1>1. CASE v = None
    <2>1. Texts(Array(<<v>>)) = {}
      BY <1>0, <1>1, TextsOfOne
    <2>2. optional_string_field(v) = Absent /\ decode_native_reference(v) = Absent
      BY <1>1 DEF optional_string_field, decode_native_reference
    <2> QED
      BY <2>1, <2>2, States DEF ValueOf
  <1>2. CASE v # None /\ v.json = "string" /\ v.text # ""
    <2>1. Texts(Array(<<v>>)) = {v.text}
      BY <1>2, TextsOfOne
    <2>2. optional_string_field(v) = Observed(v.text) /\ decode_native_reference(v) = Observed(v.text)
      BY <1>2 DEF optional_string_field, decode_native_reference
    <2>3. ValueOf(Observed(v.text)) = {v.text}
      BY States DEF ValueOf
    <2> QED
      BY <1>2, <2>1, <2>2, <2>3
  <1>3. CASE v # None /\ v.json = "string" /\ v.text = ""
    <2>1. Texts(Array(<<v>>)) \ {""} = {}
      BY <1>3, TextsOfOne
    <2>2. optional_string_field(v) = Malformed /\ decode_native_reference(v) = Absent
      BY <1>3 DEF optional_string_field, decode_native_reference
    <2> QED
      BY <2>1, <2>2, States DEF ValueOf
  <1>4. CASE v # None /\ v.json # "string"
    <2>1. Texts(Array(<<v>>)) = {}
      BY <1>4, TextsOfOne
    <2>2. optional_string_field(v) = Malformed /\ decode_native_reference(v) = Malformed
      BY <1>4 DEF optional_string_field, decode_native_reference
    <2> QED
      BY <2>1, <2>2, States DEF ValueOf
  <1> QED
    BY <1>1, <1>2, <1>3, <1>4

\* The names of a whole list.
LEMMA WholeNames ==
    ASSUME NEW items, Sequence(items)
    PROVE  LET all == {items[j] : j \in DOMAIN items}
           IN  /\ NetworkNames(items, Len(items)) = {n.name : n \in all}
               /\ VolumeNames(items, Len(items)) = {m.name.text : m \in {q \in all : q.type.text = "volume"}}
               /\ GrantNames(items, Len(items)) =
                    UNION {Texts(Array(<<g.id, g.name>>)) \ {""} : g \in all}
  <1> DEFINE all == {items[j] : j \in DOMAIN items}
  <1>1. DOMAIN items = 1..Len(items)
    BY SequenceFacts
  <1>2. NetworkNames(items, Len(items)) = {n.name : n \in all}
    BY <1>1 DEF NetworkNames
  <1>3. VolumeNames(items, Len(items)) = {m.name.text : m \in {q \in all : q.type.text = "volume"}}
    BY <1>1 DEF VolumeNames
  <1> DEFINE Of(g) == ValueOf(decode_native_reference(g.id)) \cup ValueOf(decode_native_reference(g.name))
             To(g) == Texts(Array(<<g.id, g.name>>)) \ {""}
  <1>4. ASSUME NEW g
        PROVE  Of(g) = To(g)
    <2>1. Texts(Array(<<g.id, g.name>>)) = Texts(Array(<<g.id>>)) \cup Texts(Array(<<g.name>>))
      BY TextsOfTwo
    <2>2. /\ ValueOf(decode_native_reference(g.id)) = Texts(Array(<<g.id>>)) \ {""}
          /\ ValueOf(decode_native_reference(g.name)) = Texts(Array(<<g.name>>)) \ {""}
      BY FieldTexts
    <2> QED
      BY <2>1, <2>2
  <1>5. GrantNames(items, Len(items)) = UNION {Of(items[j]) : j \in DOMAIN items}
    BY <1>1 DEF GrantNames
  <1> HIDE DEF Of, To
  <1>6. GrantNames(items, Len(items)) = UNION {To(g) : g \in all}
    BY <1>4, <1>5
  <1> QED
    BY <1>2, <1>3, <1>6 DEF To

LEMMA KindsExact == ShapeInv /\ FamilyInv /\ KindsInv => RelationshipsExact
  <1> SUFFICES ASSUME ShapeInv, FamilyInv, KindsInv, stage = "done"
               PROVE  RelationshipsExact
    BY DEF RelationshipsExact
  <1> DEFINE Items(array) == {array.items[j] : j \in DOMAIN array.items}
             OfKind(kind) == UNION {r.references : r \in {q \in Range(relationships) : q.kind = kind}}
             value == fields["relationships"]
  <1>0. TypeOK
    BY DEF ShapeInv
  <1>1. value = IF decoding.malformed THEN Malformed
                ELSE IF ~decoding.supplied THEN Absent ELSE Observed(relationships)
    BY DEF FamilyInv
  <1>2. value = Malformed <=> decoding.malformed
    BY <1>1, States
  <1>3. value = Malformed <=> \E f \in Family : fields[f] = Malformed
    BY <1>2 DEF FamilyInv
  <1>4. value = Absent => \A f \in Family : fields[f].state \in {"Absent", "NotApplicable"}
    <2>1. value = Absent => ~decoding.supplied
      BY <1>1, States
    <2> QED
      BY <2>1 DEF FamilyInv
  <1>5. ASSUME IsObserved(value)
        PROVE  /\ OfKind("image") = Texts(Array(<<native.image_name>>))
               /\ OfKind("pod") = Texts(Array(<<native.pod>>)) \ {""}
               /\ OfKind("network") =
                    IF native.networks.json # "array" \/ native.settings # "object" \/ OfKind("pod") # {} THEN {}
                    ELSE {n.name : n \in Items(native.networks)}
               /\ OfKind("volume") =
                    IF native.mounts.json # "array" THEN {}
                    ELSE {m.name.text : m \in {q \in Items(native.mounts) : q.type.text = "volume"}}
               /\ OfKind("container") = Texts(native.dependencies)
               /\ OfKind("secret") =
                    IF native.secrets.json # "array" \/ native.config # "object" THEN {}
                    ELSE UNION {Texts(Array(<<g.id, g.name>>)) \ {""} : g \in Items(native.secrets)}
    <2>1. value # Malformed
      BY <1>5, States
    <2>2. \A f \in Family : fields[f] # Malformed
      BY <1>3, <2>1
    <2>3. \A kind : OfKind(kind) = KindOf(relationships, kind)
      BY DEF KindOf
    <2> HIDE DEF OfKind
    <2>4. /\ stage \notin ToReferences /\ stage \notin ToNetworks /\ stage \notin ToMounts
          /\ stage \notin ToDependencies /\ stage \notin ToSecrets
      BY StageSets
    <2>5. /\ fields["configured_image"] = optional_string_field(native.image_name)
          /\ fields["pod"] = decode_native_reference(native.pod)
          /\ OfKind("image") = ValueOf(fields["configured_image"])
          /\ OfKind("pod") = ValueOf(fields["pod"])
      BY <2>3, <2>4 DEF KindsInv, OwnKinds
    <2>6. OfKind("image") = Texts(Array(<<native.image_name>>))
      <3>1. fields["configured_image"] # Malformed
        BY <2>2 DEF Family
      <3> QED
        BY <2>5, <3>1, FieldTexts
    <2>7. OfKind("pod") = Texts(Array(<<native.pod>>)) \ {""}
      BY <2>5, FieldTexts
    <2>8. IsObserved(fields["pod"]) <=> OfKind("pod") # {}
      BY <2>5 DEF ValueOf
    <2>9. native.networks.json = "array" => Sequence(native.networks.items)
      BY <1>0, NativeLists, Lists
    <2>10. native.mounts.json = "array" => Sequence(native.mounts.items)
      BY <1>0, NativeLists, Lists
    <2>11. native.secrets.json = "array" => Sequence(native.secrets.items)
      BY <1>0, NativeLists, Lists
    <2>12. OfKind("network") =
             IF native.networks.json # "array" \/ native.settings # "object" \/ OfKind("pod") # {} THEN {}
             ELSE {n.name : n \in Items(native.networks)}
      <3>1. fields["networks"] # Malformed
        BY <2>2 DEF Family
      <3>2. OfKind("network") =
              IF native.settings = "object" /\ native.networks.json = "array" /\ ~IsObserved(fields["pod"])
              THEN NetworkNames(native.networks.items, Len(native.networks.items)) ELSE {}
        BY <2>3, <2>4, <3>1 DEF KindsInv, NetworkKind
      <3>3. native.networks.json = "array" =>
              NetworkNames(native.networks.items, Len(native.networks.items)) = {n.name : n \in Items(native.networks)}
        BY <2>9, WholeNames
      <3> HIDE DEF Items
      <3> QED
        BY <2>8, <3>2, <3>3
    <2>13. OfKind("volume") =
             IF native.mounts.json # "array" THEN {}
             ELSE {m.name.text : m \in {q \in Items(native.mounts) : q.type.text = "volume"}}
      <3>1. fields["mounts"] # Malformed
        BY <2>2 DEF Family
      <3>2. OfKind("volume") =
              IF native.mounts.json = "array"
              THEN VolumeNames(native.mounts.items, Len(native.mounts.items)) ELSE {}
        BY <2>3, <2>4, <3>1 DEF KindsInv, VolumeKind
      <3>3. native.mounts.json = "array" =>
              VolumeNames(native.mounts.items, Len(native.mounts.items)) =
                 {m.name.text : m \in {q \in Items(native.mounts) : q.type.text = "volume"}}
        BY <2>10, WholeNames
      <3> HIDE DEF Items
      <3> QED
        BY <3>2, <3>3
    <2>14. OfKind("container") = Texts(native.dependencies)
      <3>1. fields["dependencies"] # Malformed
        BY <2>2 DEF Family
      <3> QED
        BY <2>3, <2>4, <3>1 DEF KindsInv, ContainerKind
    <2>15. OfKind("secret") =
             IF native.secrets.json # "array" \/ native.config # "object" THEN {}
             ELSE UNION {Texts(Array(<<g.id, g.name>>)) \ {""} : g \in Items(native.secrets)}
      <3>1. fields["secrets"] # Malformed
        BY <2>2 DEF Family
      <3>2. OfKind("secret") =
              IF native.config = "object" /\ native.secrets.json = "array"
              THEN GrantNames(native.secrets.items, Len(native.secrets.items)) ELSE {}
        BY <2>3, <2>4, <3>1 DEF KindsInv, SecretKind
      <3>3. native.secrets.json = "array" =>
              GrantNames(native.secrets.items, Len(native.secrets.items)) =
                 UNION {Texts(Array(<<g.id, g.name>>)) \ {""} : g \in Items(native.secrets)}
        BY <2>11, WholeNames
      <3> HIDE DEF Items
      <3> QED
        BY <3>2, <3>3
    <2> QED
      BY <2>6, <2>7, <2>12, <2>13, <2>14, <2>15
  <1> HIDE DEF value, Items, OfKind
  <1> QED
    BY <1>3, <1>4, <1>5 DEF RelationshipsExact, Family, value, Items, OfKind

\* The shape of the state, the loop's position and the relationships pushed so
\* far are an inductive invariant, and at the end of decode_container they are
\* exactly the references of the record (RelationshipDecoding::merge,
\* relationship_field).
THEOREM RelationshipsAreExact == Spec => []RelationshipsExact
  <1>1. Init => ShapeInv /\ BoundInv /\ FamilyInv /\ KindsInv
    BY ShapeInit, BoundInit, FamilyInit, KindsInit
  <1>2. ShapeInv /\ BoundInv /\ FamilyInv /\ KindsInv /\ [Next]_vars
            => (ShapeInv /\ BoundInv /\ FamilyInv /\ KindsInv)'
    BY ShapeStep, BoundStep, FamilyStep, KindsStep
  <1>3. ShapeInv /\ FamilyInv /\ KindsInv => RelationshipsExact
    BY KindsExact
  <1> QED
    BY <1>1, <1>2, <1>3, PTL DEF Spec

-----------------------------------------------------------------------------
(* The binds and the mounts *)

\* An entry of HostConfig.Binds that asks for a relabel.
LEMMA BindPair ==
    ASSUME NEW bind, IsBind(bind), BindEntry(bind) \notin {"bad", "skip"}
    PROVE  /\ BindEntry(bind) = "relabel" /\ bind.json = "string"
           /\ bind.mount = <<bind.mount[1], bind.mount[2]>>
           /\ relabel_from_tokens(bind.tokens) \in {"shared", "private"}
  <1>1. bind.json = "string"
    BY DEF BindEntry
  <1>2. bind.mount # <<>> /\ relabel_from_tokens(bind.tokens) # "none"
    BY <1>1 DEF BindEntry
  <1>3. relabel_from_tokens(bind.tokens) # "conflict"
    BY <1>1, <1>2 DEF BindEntry
  <1>4. Len(bind.mount) # 1 /\ BindEntry(bind) = "relabel"
    BY <1>1, <1>2, <1>3 DEF BindEntry
  <1>5. relabel_from_tokens(bind.tokens) \in {"shared", "private"}
    BY <1>2, <1>3 DEF relabel_from_tokens
  <1>6. bind.mount \in Seq(STRING) /\ Len(bind.mount) <= 2
    BY <1>1 DEF IsBind
  <1>7. bind.mount = <<bind.mount[1], bind.mount[2]>>
    <2> DEFINE m == bind.mount
    <2> HIDE DEF m
    <2>1. m \in Seq(STRING) /\ Len(m) <= 2 /\ m # <<>> /\ Len(m) # 1
      BY <1>2, <1>4, <1>6 DEF m
    <2>4. m \in Seq(STRING) /\ Len(m) = 0 => m = <<>>
      OBVIOUS
    <2>5. Len(m) \in Nat /\ Len(m) # 0
      BY <2>1, <2>4
    <2>2. Len(m) = 2
      <3> DEFINE l == Len(m)
      <3>1. l \in Nat /\ l # 0 /\ l # 1 /\ l <= 2
        BY <2>1, <2>5
      <3> HIDE DEF l
      <3>2. l = 2
        BY <3>1
      <3> QED
        BY <3>2 DEF l
    <2>3. m = <<m[1], m[2]>>
      BY <2>1, <2>2
    <2> QED
      BY <2>3 DEF m
  <1> QED
    BY <1>1, <1>4, <1>5, <1>7

\* One more entry: skipped, told already, or told by a new one.
LEMMA BindSkipped ==
    ASSUME NEW entries, NEW items, NEW n \in Nat, TellsBinds(entries, items, n),
           \/ BindEntry(items[n + 1]) = "skip"
           \/ /\ BindEntry(items[n + 1]) = "relabel"
              /\ \E k \in 1..Len(entries) :
                   Asks(items[n + 1], entries[k].source, entries[k].destination, entries[k].relabel)
    PROVE  TellsBinds(entries, items, n + 1)
  <1>1. \A j \in 1..(n + 1) : j \in 1..n \/ j = n + 1
    OBVIOUS
  <1>2. \A j \in 1..n : j \in 1..(n + 1)
    OBVIOUS
  <1>3. \A j \in 1..(n + 1) : BindEntry(items[j]) # "bad"
    BY <1>1 DEF TellsBinds
  <1>4. \A j \in 1..(n + 1) : BindEntry(items[j]) = "relabel" =>
          \E k \in 1..Len(entries) :
             Asks(items[j], entries[k].source, entries[k].destination, entries[k].relabel)
    BY <1>1 DEF TellsBinds
  <1>5. \A k \in 1..Len(entries) : \E j \in 1..(n + 1) :
          Asks(items[j], entries[k].source, entries[k].destination, entries[k].relabel)
    BY <1>2 DEF TellsBinds
  <1> QED
    BY <1>3, <1>4, <1>5 DEF TellsBinds

LEMMA BindPushed ==
    ASSUME NEW entries, Sequence(entries), NEW items, NEW n \in Nat, TellsBinds(entries, items, n),
           NEW more, Sequence(more), Len(more) = Len(entries) + 1,
           \A k \in 1..Len(entries) : more[k] = entries[k],
           BindEntry(items[n + 1]) = "relabel",
           Asks(items[n + 1], more[Len(entries) + 1].source, more[Len(entries) + 1].destination,
                more[Len(entries) + 1].relabel),
           ~\E k \in 1..Len(entries) : /\ entries[k].source = more[Len(entries) + 1].source
                                       /\ entries[k].destination = more[Len(entries) + 1].destination
    PROVE  TellsBinds(more, items, n + 1)
  <1> DEFINE last == Len(entries) + 1
  <1>0. Len(entries) \in Nat
    BY SequenceFacts
  <1>1. /\ \A j \in 1..(n + 1) : j \in 1..n \/ j = n + 1
        /\ \A k \in 1..Len(more) : k \in 1..Len(entries) \/ k = last
        /\ \A k \in 1..Len(entries) : k \in 1..Len(more)
        /\ last \in 1..Len(more) /\ n + 1 \in 1..(n + 1)
    BY <1>0
  <1>2. \A j \in 1..n : j \in 1..(n + 1)
    OBVIOUS
  <1> DEFINE Tells(j, e) == Asks(items[j], e.source, e.destination, e.relabel)
  <1>10. /\ Tells(n + 1, more[last])
         /\ ~\E k \in 1..Len(entries) : /\ entries[k].source = more[last].source
                                        /\ entries[k].destination = more[last].destination
    OBVIOUS
  <1>6. /\ \A j \in 1..n : BindEntry(items[j]) # "bad"
        /\ \A j \in 1..n : BindEntry(items[j]) = "relabel" => \E k \in 1..Len(entries) : Tells(j, entries[k])
        /\ \A k \in 1..Len(entries) : \E j \in 1..n : Tells(j, entries[k])
        /\ \A j, k \in 1..Len(entries) :
             entries[j].source = entries[k].source /\ entries[j].destination = entries[k].destination => j = k
    BY DEF TellsBinds
  <1> HIDE DEF Tells, last
  <1>3. \A j \in 1..(n + 1) : BindEntry(items[j]) # "bad"
    BY <1>1, <1>6
  <1>4. \A j \in 1..(n + 1) : BindEntry(items[j]) = "relabel" => \E k \in 1..Len(more) : Tells(j, more[k])
    <2> TAKE j \in 1..(n + 1)
    <2> HAVE BindEntry(items[j]) = "relabel"
    <2>1. CASE j = n + 1
      BY <1>1, <1>10, <2>1
    <2>2. CASE j \in 1..n
      <3>1. PICK k \in 1..Len(entries) : Tells(j, entries[k])
        BY <1>6, <2>2
      <3>2. more[k] = entries[k] /\ k \in 1..Len(more)
        BY <1>1
      <3> QED
        BY <3>1, <3>2
    <2> QED
      BY <1>1, <2>1, <2>2
  <1>5. \A k \in 1..Len(more) : \E j \in 1..(n + 1) : Tells(j, more[k])
    <2> TAKE k \in 1..Len(more)
    <2>1. CASE k = last
      BY <1>1, <1>10, <2>1
    <2>2. CASE k \in 1..Len(entries)
      BY <1>2, <1>6, <2>2
    <2> QED
      BY <1>1, <2>1, <2>2
  <1>7. \A j, k \in 1..Len(more) :
          more[j].source = more[k].source /\ more[j].destination = more[k].destination => j = k
    BY <1>1, <1>6, <1>10
  <1> QED
    BY <1>3, <1>4, <1>5, <1>7 DEF TellsBinds, Tells

LEMMA BindsInit == Init => BindsInv
  <1> SUFFICES ASSUME Init
               PROVE  BindsInv
    OBVIOUS
  <1>1. stage = "configuration" /\ fields["binds"] = Absent
    BY DEF Init, Fields
  <1> QED
    BY <1>1, StageSets, States DEF BindsInv

\* One turn of decode_native_bind_selinux_relabels.
LEMMA BindsTurn ==
    ASSUME NEW bind, IsBind(bind), NEW n \in Nat, NEW items, bind = items[n + 1],
           TypeOK, TellsBinds(decoded, items, n), ~BindTurn(bind, n + 1).bad
    PROVE  TellsBinds(decoded \o BindTurn(bind, n + 1).value, items, n + 1)
  <1> DEFINE r == BindTurn(bind, n + 1)
             relabel == relabel_from_tokens(bind.tokens)
             Same(e) == e.source = bind.mount[1] /\ e.destination = bind.mount[2]
             e == [source |-> bind.mount[1], destination |-> bind.mount[2], relabel |-> relabel]
  <1>1. Sequence(decoded) /\ Len(decoded) \in Nat /\ DOMAIN decoded = 1..Len(decoded)
    BY SequenceFacts DEF TypeOK
  <1>2. /\ BindEntry(bind) # "bad"
        /\ \/ BindEntry(bind) = "skip" /\ r.value = <<>>
           \/ /\ BindEntry(bind) # "skip" /\ r.value = <<>>
              /\ \E j \in DOMAIN decoded : Same(decoded[j]) /\ decoded[j].relabel = relabel
           \/ /\ BindEntry(bind) # "skip" /\ ~\E j \in DOMAIN decoded : Same(decoded[j])
              /\ r.value = <<e>>
    BY BindTurnFacts
  <1>3. r.value = <<>> => decoded \o r.value = decoded
    <2>1. decoded \o <<>> = decoded
      BY <1>1 DEF Sequence
    <2> QED
      BY <2>1
  <1>4. CASE BindEntry(bind) = "skip" /\ r.value = <<>>
    <2> HIDE DEF r
    <2>1. TellsBinds(decoded, items, n + 1)
      BY <1>4, BindSkipped
    <2> QED
      BY <1>3, <1>4, <2>1 DEF r
  <1>5. CASE /\ BindEntry(bind) # "skip" /\ r.value = <<>>
             /\ \E j \in DOMAIN decoded : Same(decoded[j]) /\ decoded[j].relabel = relabel
    <2>1. /\ BindEntry(bind) = "relabel" /\ bind.mount = <<bind.mount[1], bind.mount[2]>>
      BY <1>2, <1>5, BindPair
    <2>2. PICK j \in DOMAIN decoded : Same(decoded[j]) /\ decoded[j].relabel = relabel
      BY <1>5
    <2>3. Asks(bind, decoded[j].source, decoded[j].destination, decoded[j].relabel)
      BY <2>1, <2>2 DEF Asks
    <2> HIDE DEF r, Same, relabel
    <2>4. TellsBinds(decoded, items, n + 1)
      BY <1>1, <2>1, <2>3, BindSkipped
    <2> QED
      BY <1>3, <1>5, <2>4 DEF r
  <1>6. CASE /\ BindEntry(bind) # "skip" /\ ~\E j \in DOMAIN decoded : Same(decoded[j])
             /\ r.value = <<e>>
    <2>1. /\ BindEntry(bind) = "relabel" /\ bind.mount = <<bind.mount[1], bind.mount[2]>>
      BY <1>2, <1>6, BindPair
    <2> DEFINE more == Append(decoded, e)
    <2>2. e.source = bind.mount[1] /\ e.destination = bind.mount[2] /\ e.relabel = relabel
      OBVIOUS
    <2> HIDE DEF e, r
    <2>3. more = decoded \o r.value
      BY <1>1, <1>6 DEF Sequence
    <2>4. /\ Sequence(more) /\ Len(more) = Len(decoded) + 1
          /\ \A k \in 1..Len(decoded) : more[k] = decoded[k]
          /\ more[Len(decoded) + 1] = e
      BY <1>1, Appending
    <2> HIDE DEF more
    <2>5. Asks(bind, e.source, e.destination, e.relabel)
      BY <2>1, <2>2 DEF Asks
    <2>6. ~\E k \in 1..Len(decoded) : decoded[k].source = e.source /\ decoded[k].destination = e.destination
      BY <1>1, <1>6, <2>2
    <2>7. TellsBinds(more, items, n + 1)
      BY <1>1, <2>1, <2>4, <2>5, <2>6, BindPushed
    <2> QED
      BY <2>3, <2>7 DEF r
  <1> QED
    BY <1>2, <1>4, <1>5, <1>6

LEMMA BindsStep == ShapeInv /\ BoundInv /\ BindsInv /\ [Next]_vars => BindsInv'
  <1>0. BindsInv /\ UNCHANGED vars => BindsInv'
    <2> SUFFICES ASSUME BindsInv, UNCHANGED vars
                 PROVE  BindsInv'
      OBVIOUS
    <2>1. /\ native' = native /\ fields' = fields /\ stage' = stage /\ index' = index
          /\ decoded' = decoded /\ malformed' = malformed
      BY DEF vars
    <2> QED
      BY <2>1 DEF BindsInv
  <1> SUFFICES ASSUME ShapeInv, BoundInv, BindsInv, Next
               PROVE  BindsInv'
    BY <1>0
  <1> DEFINE items == native.host.binds.items
             list == native.host.json = "object" /\ native.host.binds.json = "array"
  <1>1. Frame /\ Flow
    BY FrameStep
  <1>2. TypeOK /\ stage \in Stages /\ native' = native
    BY <1>1 DEF ShapeInv, TypeOK, Frame
  <1>3. CASE stage \notin {"host_binds", "binds"}
    <2>1. /\ fields'["binds"] = fields["binds"] /\ stage' # "binds"
          /\ stage' \notin ToBinds => stage \notin ToBinds
      BY <1>1, <1>2, <1>3, StageSets DEF Frame, Flow
    <2> QED
      BY <1>2, <2>1 DEF BindsInv
  <1>4. CASE stage = "host_binds"
    <2>1. DecodeHostBinds
      BY <1>4, StageActions
    <2>2. /\ index' = 1 /\ decoded' = <<>> /\ stage' \in {"binds", "mount_list"}
          /\ stage' = "binds" => list /\ fields' = fields
          /\ stage' = "mount_list" => \/ fields'["binds"] = Malformed
                                      \/ ~list /\ fields'["binds"] = Observed(<<>>)
      <3>1. native.host.binds = None => native.host.binds.json # "array"
        BY DEF None
      <3> QED
        BY <1>2, <2>1, <3>1, HostBindsEffect
    <2>3. TellsBinds(decoded', items, index' - 1)
      <3>1. TellsBinds(<<>>, items, 0)
        BY DEF TellsBinds
      <3> QED
        BY <2>2, <3>1
    <2>4. CASE stage' = "binds"
      BY <1>2, <2>2, <2>3, <2>4, StageSets DEF BindsInv
    <2>5. CASE stage' = "mount_list" /\ fields'["binds"] = Malformed
      BY <2>5, States, StageSets DEF BindsInv
    <2>6. CASE stage' = "mount_list" /\ ~list /\ fields'["binds"] = Observed(<<>>)
      <3>1. fields'["binds"].value = <<>> /\ IsObserved(fields'["binds"]) /\ Sequence(<<>>)
        BY <2>6, States, ShortSequences
      <3> QED
        BY <1>2, <2>6, <3>1 DEF BindsInv
    <2> QED
      BY <2>2, <2>4, <2>5, <2>6
  <1>5. CASE stage = "binds"
    <2> DEFINE r == BindTurn(items[index], index)
    <2>0. list /\ DecodeBinds /\ "binds" \in Fields
      BY <1>5, StageActions DEF ShapeInv, ListsOK, Fields
    <2>1. Len(items) \in Nat /\ index \in Nat \ {0}
      BY <1>2, <2>0, NativeLists, Position
    <2>2. ~malformed => TellsBinds(decoded, items, index - 1)
      BY <1>5 DEF BindsInv
    <2>3. CASE /\ index \in 1..Len(items) /\ stage' = "binds" /\ fields' = fields /\ index' = index + 1
               /\ r.bad => malformed'
               /\ ~r.bad => malformed' = malformed /\ decoded' = decoded \o r.value
      <3>1. IsBind(items[index])
        BY <1>2, <2>0, <2>3, Members1
      <3>2. ~malformed' => TellsBinds(decoded', items, index)
        <4>1. SUFFICES ASSUME ~malformed'
                       PROVE  TellsBinds(decoded', items, index)
          OBVIOUS
        <4>2. ~malformed /\ ~r.bad /\ decoded' = decoded \o r.value
          BY <2>3, <4>1
        <4> DEFINE n == index - 1
                   bind == items[index]
        <4>3. n \in Nat /\ index = n + 1 /\ bind = items[n + 1] /\ TellsBinds(decoded, items, n)
          BY <2>1, <2>2, <4>2
        <4>4. r = BindTurn(bind, n + 1) /\ IsBind(bind)
          BY <3>1, <4>3
        <4> HIDE DEF n, bind, items, r
        <4>5. TellsBinds(decoded \o BindTurn(bind, n + 1).value, items, n + 1)
          BY <1>2, <4>2, <4>3, <4>4, BindsTurn
        <4> QED
          BY <4>2, <4>3, <4>4, <4>5
      <3>3. index' - 1 = index
        BY <2>1, <2>3
      <3> QED
        BY <1>2, <1>5, <2>3, <3>2, <3>3, StageSets DEF BindsInv
    <2>4. CASE Leave("binds", items, "binds", "mount_list")
      <3> HIDE DEF items
      <3>1. /\ stage' = "mount_list" /\ index > Len(items)
            /\ malformed => fields'["binds"] = Malformed
            /\ ~malformed => fields'["binds"] = Observed(decoded)
        BY <1>2, <2>0, <2>4, Left
      <3>2. index <= Len(items) + 1
        BY <1>5 DEF BoundInv, Within, items
      <3>3. index - 1 = Len(items)
        BY <2>1, <3>1, <3>2
      <3>4. CASE malformed
        BY <3>1, <3>4, States, StageSets DEF BindsInv
      <3>5. CASE ~malformed
        <4>1. fields'["binds"].value = decoded /\ IsObserved(fields'["binds"])
          BY <3>1, <3>5, States
        <4>2. Sequence(decoded) /\ TellsBinds(decoded, items, Len(items))
          BY <1>2, <2>2, <3>3, <3>5 DEF TypeOK
        <4> QED
          BY <1>2, <2>0, <3>1, <4>1, <4>2 DEF BindsInv, items
      <3> QED
        BY <3>4, <3>5
    <2> QED
      BY <1>2, <2>0, <2>3, <2>4, BindsEffect
  <1> QED
    BY <1>3, <1>4, <1>5

\* The entries of HostConfig.Binds for a mount, and the one the decoder keeps.
Claimed(relabel) == IF relabel = "none" THEN {} ELSE {relabel}
Own(items, s, d) == {b \in {items[j] : j \in DOMAIN items} : b.json = "string" /\ b.mount = <<s, d>>}
Kept(binds, s, d) == {j \in DOMAIN binds : binds[j].source = s /\ binds[j].destination = d}
Choice(S) == CHOOSE j \in S : TRUE
KeptRelabel(binds, s, d) ==
    IF Kept(binds, s, d) = {} THEN "none" ELSE binds[Choice(Kept(binds, s, d))].relabel

LEMMA TokenLabels ==
    ASSUME NEW tokens, relabel_from_tokens(tokens) # "conflict"
    PROVE  Labels(tokens) = Claimed(relabel_from_tokens(tokens))
  <1>1. CASE "z" \in tokens
    <2>1. "Z" \notin tokens /\ relabel_from_tokens(tokens) = "shared"
      BY <1>1 DEF relabel_from_tokens
    <2> QED
      BY <1>1, <2>1 DEF Labels, Claimed
  <1>2. CASE "z" \notin tokens /\ "Z" \in tokens
    <2>1. relabel_from_tokens(tokens) = "private"
      BY <1>2 DEF relabel_from_tokens
    <2> QED
      BY <1>2, <2>1 DEF Labels, Claimed
  <1>3. CASE "z" \notin tokens /\ "Z" \notin tokens
    <2>1. relabel_from_tokens(tokens) = "none"
      BY <1>3 DEF relabel_from_tokens
    <2> QED
      BY <1>3, <2>1 DEF Labels, Claimed
  <1> QED
    BY <1>1, <1>2, <1>3

LEMMA OwnLabels ==
    ASSUME NEW binds, Sequence(binds), NEW items, Sequence(items), TellsBinds(binds, items, Len(items)),
           \A j \in 1..Len(items) : IsBind(items[j]), NEW s, NEW d
    PROVE  UNION {Labels(b.tokens) : b \in Own(items, s, d)} = Claimed(KeptRelabel(binds, s, d))
  <1> DEFINE kept == Kept(binds, s, d)
             own == Own(items, s, d)
  <1>1. DOMAIN binds = 1..Len(binds) /\ DOMAIN items = 1..Len(items)
    BY SequenceFacts
  <1>2. ASSUME NEW b \in own
        PROVE  \/ Labels(b.tokens) = {}
               \/ \E k \in kept : Labels(b.tokens) = {binds[k].relabel}
    <2>1. PICK j \in 1..Len(items) : b = items[j]
      BY <1>1, <1>2 DEF Own
    <2>2. b.json = "string" /\ b.mount = <<s, d>> /\ b.mount # <<>>
      <3>1. b.json = "string" /\ b.mount = <<s, d>>
        BY <1>2 DEF Own
      <3>2. Len(<<s, d>>) = 2 /\ Len(<<>>) = 0
        OBVIOUS
      <3> QED
        BY <3>1, <3>2
    <2>3. BindEntry(b) # "bad" /\ IsBind(b)
      BY <2>1 DEF TellsBinds
    <2>4. CASE BindEntry(b) = "skip"
      <3>1. relabel_from_tokens(b.tokens) = "none"
        BY <2>2, <2>4 DEF BindEntry
      <3> QED
        BY <3>1, TokenLabels DEF Claimed
    <2>5. CASE BindEntry(b) # "skip"
      <3>1. BindEntry(b) = "relabel" /\ relabel_from_tokens(b.tokens) \in {"shared", "private"}
        BY <2>3, <2>5, BindPair
      <3>2. PICK k \in 1..Len(binds) : Asks(b, binds[k].source, binds[k].destination, binds[k].relabel)
        BY <2>1, <3>1 DEF TellsBinds
      <3>3. k \in kept /\ binds[k].relabel = relabel_from_tokens(b.tokens)
        <4>1. <<s, d>> = <<binds[k].source, binds[k].destination>>
          BY <2>2, <3>2 DEF Asks
        <4>2. s = binds[k].source /\ d = binds[k].destination
          BY <4>1
        <4> QED
          BY <1>1, <3>2, <4>2 DEF Kept, Asks
      <3>4. Labels(b.tokens) = {binds[k].relabel}
        BY <3>1, <3>3, TokenLabels DEF Claimed
      <3> QED
        BY <3>3, <3>4
    <2> QED
      BY <2>4, <2>5
  <1>3. ASSUME NEW k \in kept
        PROVE  binds[k].relabel # "none" /\ \E b \in own : Labels(b.tokens) = {binds[k].relabel}
    <2>1. k \in 1..Len(binds) /\ binds[k].source = s /\ binds[k].destination = d
      BY <1>1, <1>3 DEF Kept
    <2>2. PICK j \in 1..Len(items) : Asks(items[j], binds[k].source, binds[k].destination, binds[k].relabel)
      BY <2>1 DEF TellsBinds
    <2> DEFINE b == items[j]
    <2>3. /\ BindEntry(b) = "relabel" /\ b.mount = <<s, d>>
          /\ binds[k].relabel = relabel_from_tokens(b.tokens)
      BY <2>1, <2>2 DEF Asks
    <2>4. b.json = "string" /\ relabel_from_tokens(b.tokens) \in {"shared", "private"}
      BY <2>3, BindPair
    <2>5. b \in own
      BY <1>1, <2>3, <2>4 DEF Own
    <2> HIDE DEF b
    <2>6. Labels(b.tokens) = {binds[k].relabel}
      BY <2>3, <2>4, TokenLabels DEF Claimed
    <2> QED
      BY <2>3, <2>4, <2>5, <2>6
  <1>4. \A j, k \in kept : j = k
    BY <1>1 DEF Kept, TellsBinds
  <1> HIDE DEF kept, own
  <1>5. CASE kept = {}
    <2>1. KeptRelabel(binds, s, d) = "none"
      BY <1>5 DEF KeptRelabel, kept
    <2>2. \A b \in own : Labels(b.tokens) = {}
      BY <1>2, <1>5
    <2> QED
      BY <2>1, <2>2 DEF Claimed, own
  <1>6. CASE kept # {}
    <2> DEFINE c == Choice(kept)
    <2>1. c \in kept
      BY <1>6 DEF Choice
    <2>2. KeptRelabel(binds, s, d) = binds[c].relabel
      BY <1>6 DEF KeptRelabel, kept
    <2> HIDE DEF c
    <2>3. binds[c].relabel # "none" /\ \E b \in own : Labels(b.tokens) = {binds[c].relabel}
      BY <1>3, <2>1
    <2>4. \A b \in own : Labels(b.tokens) = {} \/ Labels(b.tokens) = {binds[c].relabel}
      BY <1>2, <1>4, <2>1
    <2>5. UNION {Labels(b.tokens) : b \in own} = {binds[c].relabel}
      BY <2>3, <2>4
    <2> QED
      BY <2>2, <2>3, <2>5 DEF Claimed, own
  <1> QED
    BY <1>5, <1>6

\* A mount is decoded to the relabel its mode and its binds claim.
LEMMA DecodedFaithful ==
    ASSUME TypeOK, BindsInv, stage \notin ToBinds, NEW mount, IsMount(mount), NEW value, Decodes(mount, value)
    PROVE  Faithful(native, value, mount)
  <1> DEFINE kind == mount.type.text
             source == SourceOf(mount)
             destination == optional_observed_string(mount.destination)
             list == native.host.json = "object" /\ native.host.binds.json = "array"
             items == native.host.binds.items
             mode == IF mount.mode = None THEN "none"
                     ELSE IF mount.mode = Other THEN "conflict" ELSE relabel_from_tokens(mount.mode.tokens)
             binds == IF kind = "bind" THEN fields["binds"] ELSE Observed(<<>>)
             ForMount == {j \in DOMAIN binds.value : /\ IsObserved(destination)
                                                     /\ binds.value[j].source = source
                                                     /\ binds.value[j].destination = destination.value}
             bind == IF ForMount = {} THEN "none" ELSE binds.value[Choice(ForMount)].relabel
             relabel == decode_mount_selinux_relabel(mount, kind, source, destination)
             entries == IF list THEN {items[j] : j \in DOMAIN items} ELSE {}
             own == {b \in entries : /\ b.json = "string" /\ mount.destination # None
                                     /\ b.mount = <<source, mount.destination.text>>}
             modes == IF mount.mode = None THEN {} ELSE Labels(mount.mode.tokens)
             claimed == IF kind = "bind" THEN UNION {Labels(b.tokens) : b \in own} ELSE {}
  <1>1. /\ mount.json = "object" /\ value.source = source /\ value.destination = destination
        /\ destination # Malformed /\ value.relabel = relabel.field /\ value.relabel # Malformed
    BY DecodedMount
  <1>2. relabel = IF mode = "conflict" THEN [field |-> Malformed, reported |-> TRUE]
                  ELSE IF binds = Malformed THEN [field |-> Malformed, reported |-> FALSE]
                  ELSE IF mode # "none" /\ bind # "none" /\ mode # bind
                  THEN [field |-> Malformed, reported |-> TRUE]
                  ELSE [field |-> IF mode # "none" THEN Observed(mode)
                                  ELSE IF bind # "none" THEN Observed(bind) ELSE Absent,
                        reported |-> FALSE]
    BY DEF decode_mount_selinux_relabel, Choice
  <1>3. ClaimsIn(native, mount) = modes \cup claimed
    BY DEF ClaimsIn
  <1>4. \/ mount.destination = None /\ ~IsObserved(destination)
        \/ mount.destination # None /\ IsObserved(destination) /\ destination.value = mount.destination.text
    <2>1. CASE mount.destination = None
      BY <2>1, States DEF optional_observed_string
    <2>2. CASE mount.destination # None
      <3>1. destination = Observed(mount.destination.text)
        BY <1>1, <2>2 DEF optional_observed_string
      <3> QED
        BY <2>2, <3>1, States
    <2> QED
      BY <2>1, <2>2
  <1> HIDE DEF relabel
  <1>5. /\ mode # "conflict" /\ binds # Malformed
        /\ ~(mode # "none" /\ bind # "none" /\ mode # bind)
        /\ value.relabel = IF mode # "none" THEN Observed(mode)
                           ELSE IF bind # "none" THEN Observed(bind) ELSE Absent
    <2> HIDE DEF mode, binds, bind
    <2>1. relabel.field # Malformed
      BY <1>1
    <2>2. mode # "conflict"
      BY <1>2, <2>1
    <2>3. binds # Malformed
      BY <1>2, <2>1, <2>2
    <2>4. ~(mode # "none" /\ bind # "none" /\ mode # bind)
      BY <1>2, <2>1, <2>2, <2>3
    <2>5. relabel.field = IF mode # "none" THEN Observed(mode)
                          ELSE IF bind # "none" THEN Observed(bind) ELSE Absent
      BY <1>2, <2>2, <2>3, <2>4
    <2> QED
      BY <1>1, <2>2, <2>3, <2>4, <2>5
  <1>6. modes = Claimed(mode)
    <2>1. CASE mount.mode = None
      BY <2>1 DEF Claimed
    <2>2. CASE mount.mode # None
      <3>1. mount.mode # Other /\ mode = relabel_from_tokens(mount.mode.tokens)
        BY <1>5, <2>2
      <3> QED
        BY <1>5, <2>2, <3>1, TokenLabels
    <2> QED
      BY <2>1, <2>2
  <1>7. claimed = Claimed(bind)
    <2>1. CASE kind # "bind"
      <3>1. binds.value = <<>>
        BY <2>1, States
      <3>2. ForMount = {}
        BY <3>1
      <3> QED
        BY <2>1, <3>2 DEF Claimed
    <2>2. CASE kind = "bind" /\ mount.destination = None
      <3>1. ForMount = {} /\ own = {}
        BY <1>4, <2>2
      <3>2. bind = "none" /\ claimed = {}
        BY <3>1
      <3> QED
        BY <3>2 DEF Claimed
    <2>3. CASE kind = "bind" /\ mount.destination # None
      <3> DEFINE d == mount.destination.text
                 told == fields["binds"].value
      <3>0. binds = fields["binds"]
        BY <2>3
      <3>1. IsObserved(fields["binds"])
        BY <1>5, <3>0 DEF BindsInv
      <3>2. ForMount = Kept(told, source, d)
        BY <1>4, <2>3, <3>0 DEF Kept
      <3>3. bind = KeptRelabel(told, source, d)
        <4>1. binds.value = told
          BY <3>0
        <4> HIDE DEF ForMount, told, source, d, binds
        <4> QED
          BY <3>2, <4>1 DEF KeptRelabel
      <3>4. CASE list
        <4>1. Sequence(items) /\ \A j \in 1..Len(items) : IsBind(items[j])
          BY <3>4, NativeLists, Lists, Members1
        <4>2. own = Own(items, source, d)
          BY <2>3, <3>4 DEF Own
        <4>3. Sequence(told) /\ TellsBinds(told, items, Len(items))
          BY <3>1, <3>4 DEF BindsInv
        <4> HIDE DEF told, items, source, d, own
        <4>4. UNION {Labels(b.tokens) : b \in Own(items, source, d)} = Claimed(KeptRelabel(told, source, d))
          BY <4>1, <4>3, OwnLabels
        <4> QED
          BY <2>3, <3>3, <4>2, <4>4
      <3>5. CASE ~list
        <4>1. own = {} /\ claimed = {}
          BY <3>5
        <4>2. told = <<>>
          BY <3>1, <3>5 DEF BindsInv
        <4>3. Kept(told, source, d) = {}
          BY <4>2 DEF Kept
        <4>4. bind = "none"
          BY <3>3, <4>3 DEF KeptRelabel
        <4> QED
          BY <4>1, <4>4 DEF Claimed
      <3> QED
        BY <3>4, <3>5
    <2> QED
      BY <2>1, <2>2, <2>3
  <1> HIDE DEF mode, bind, modes, claimed
  <1>8. IF ClaimsIn(native, mount) = {} THEN value.relabel = Absent
        ELSE value.relabel = Observed(value.relabel.value) /\ ClaimsIn(native, mount) = {value.relabel.value}
    <2>1. CASE mode = "none" /\ bind = "none"
      BY <1>3, <1>5, <1>6, <1>7, <2>1 DEF Claimed
    <2>2. CASE mode # "none"
      <3>1. ClaimsIn(native, mount) = {mode} /\ value.relabel = Observed(mode)
        BY <1>3, <1>5, <1>6, <1>7, <2>2 DEF Claimed
      <3> QED
        BY <3>1, States
    <2>3. CASE mode = "none" /\ bind # "none"
      <3>1. ClaimsIn(native, mount) = {bind} /\ value.relabel = Observed(bind)
        BY <1>3, <1>5, <1>6, <1>7, <2>3 DEF Claimed
      <3> QED
        BY <3>1, States
    <2> QED
      BY <2>1, <2>2, <2>3
  <1>9. Text(value.source) \in {mount.name, mount.source}
    <2> DEFINE v == IF kind = "volume" THEN mount.name ELSE mount.source
    <2>1. v.json = "string" /\ value.source = v.text
      BY <1>1 DEF Decodes, SourceOf
    <2>2. IsText(v)
      BY <1>1 DEF IsMount
    <2> HIDE DEF v
    <2>3. v = Text(v.text)
      BY <2>1, <2>2 DEF IsText, Text, None, Other
    <2> QED
      BY <2>1, <2>3 DEF v
  <1> QED
    BY <1>1, <1>8, <1>9 DEF Faithful

LEMMA MountsInit == Init => MountsInv
  <1> SUFFICES ASSUME Init
               PROVE  MountsInv
    OBVIOUS
  <1>1. stage = "configuration" /\ fields["mounts"] = Absent
    BY DEF Init, Fields
  <1> QED
    BY <1>1, States DEF MountsInv

LEMMA MountsStep == ShapeInv /\ BoundInv /\ BindsInv /\ MountsInv /\ [Next]_vars => MountsInv'
  <1>0. MountsInv /\ UNCHANGED vars => MountsInv'
    <2> SUFFICES ASSUME MountsInv, UNCHANGED vars
                 PROVE  MountsInv'
      OBVIOUS
    <2>1. /\ native' = native /\ fields' = fields /\ stage' = stage /\ index' = index
          /\ decoded' = decoded /\ malformed' = malformed
      BY DEF vars
    <2> QED
      BY <2>1 DEF MountsInv
  <1> SUFFICES ASSUME ShapeInv, BoundInv, BindsInv, MountsInv, Next
               PROVE  MountsInv'
    BY <1>0
  <1> DEFINE items == native.mounts.items
  <1>1. Frame /\ Flow
    BY FrameStep
  <1>2. TypeOK /\ stage \in Stages /\ native' = native
    BY <1>1 DEF ShapeInv, TypeOK, Frame
  <1>3. CASE stage \notin {"mount_list", "mounts"}
    <2>1. fields'["mounts"] = fields["mounts"] /\ stage' # "mounts"
      BY <1>1, <1>2, <1>3, StageSets DEF Frame, Flow
    <2> QED
      BY <1>2, <2>1 DEF MountsInv
  <1>4. CASE stage = "mount_list"
    <2>1. DecodeMountList
      BY <1>4, StageActions
    <2>2. /\ index' = 1 /\ decoded' = <<>> /\ stage' \in {"mounts", "command"}
          /\ \/ fields' = fields \/ fields'["mounts"] = Absent \/ fields'["mounts"] = Malformed
      BY <1>2, <2>1, MountListEffect
    <2>3. FaithfulTo(native, <<>>, 0)
      BY DEF FaithfulTo
    <2>4. stage' = "mounts" => FaithfulTo(native, decoded', index' - 1)
      BY <2>2, <2>3
    <2>5. IsObserved(fields'["mounts"]) => fields' = fields
      BY <2>2, States
    <2> QED
      BY <1>2, <2>4, <2>5 DEF MountsInv
  <1>5. CASE stage = "mounts"
    <2> DEFINE r == MountTurn(items[index], index)
    <2>0. /\ native.mounts.json = "array" /\ DecodeMounts /\ "mounts" \in Fields
          /\ fields["mounts"] = Absent /\ stage \notin ToBinds
      BY <1>5, StageActions, StageSets DEF ShapeInv, ListsOK, Untouched, Fields
    <2>1. Len(items) \in Nat /\ index \in Nat \ {0}
      BY <1>2, <2>0, NativeLists, Position
    <2>2. ~malformed => FaithfulTo(native, decoded, index - 1)
      BY <1>5 DEF MountsInv
    <2>3. CASE /\ Turn("mounts", items, r) /\ index \in 1..Len(items)
               /\ r.bad \in BOOLEAN /\ Sequence(r.findings)
               /\ ~r.bad => Decodes(items[index], r.value)
      <3>1. IsMount(items[index])
        BY <1>2, <2>0, <2>3, Members1
      <3>2. stage' = "mounts" /\ index' = index + 1 /\ fields' = fields
        BY <2>3 DEF Turn
      <3>3. malformed' = (malformed \/ r.bad)
        BY <2>3 DEF Turn
      <3> DEFINE item == items[index]
                 v == r.value
      <3>4. ~r.bad => Decodes(item, v)
        BY <2>3
      <3>10. item = native.mounts.items[index]
        OBVIOUS
      <3> HIDE DEF r, items, item, v
      <3>5. ~r.bad => Faithful(native, v, item)
        BY <1>2, <2>0, <3>1, <3>4, DecodedFaithful DEF item
      <3>6. \A j \in 1..index : j \in 1..(index - 1) \/ j = index
        BY <2>1
      <3>7. ~malformed' => FaithfulTo(native, decoded', index)
        <4>1. SUFFICES ASSUME ~malformed'
                       PROVE  FaithfulTo(native, decoded', index)
          OBVIOUS
        <4>2. ~malformed /\ ~r.bad
          BY <3>3, <4>1
        <4>3. /\ Len(decoded') = Len(decoded) + 1 /\ decoded'[Len(decoded) + 1] = v
              /\ \A j \in 1..Len(decoded) : decoded'[j] = decoded[j]
          BY <1>2, <2>3, <4>2, Turned DEF v
        <4>4. Len(decoded) = index - 1
          BY <2>2, <4>2 DEF FaithfulTo
        <4>6. decoded'[index] = v /\ Len(decoded') = index
          BY <2>1, <4>3, <4>4
        <4>7. \A j \in 1..(index - 1) : decoded'[j] = decoded[j]
          BY <4>3, <4>4
        <4>8. \A j \in 1..(index - 1) : Faithful(native, decoded'[j], native.mounts.items[j])
          BY <2>2, <4>2, <4>7 DEF FaithfulTo
        <4>9. Faithful(native, decoded'[index], native.mounts.items[index])
          BY <3>5, <3>10, <4>2, <4>6
        <4> QED
          BY <3>6, <4>6, <4>8, <4>9 DEF FaithfulTo
      <3>8. index' - 1 = index
        BY <2>1, <3>2
      <3>9. ~IsObserved(fields'["mounts"])
        BY <2>0, <3>2, States
      <3> QED
        BY <1>2, <3>7, <3>8, <3>9 DEF MountsInv
    <2>4. CASE Leave("mounts", items, "mounts", "command")
      <3> HIDE DEF items
      <3>1. /\ stage' = "command" /\ index > Len(items)
            /\ malformed => fields'["mounts"] = Malformed
            /\ ~malformed => fields'["mounts"] = Observed(decoded)
        BY <1>2, <2>0, <2>4, Left
      <3>2. index <= Len(items) + 1
        BY <1>5 DEF BoundInv, Within, items
      <3>3. index - 1 = Len(items)
        BY <2>1, <3>1, <3>2
      <3>4. CASE malformed
        BY <3>1, <3>4, States DEF MountsInv
      <3>5. CASE ~malformed
        <4>1. fields'["mounts"].value = decoded
          BY <3>1, <3>5, States
        <4>2. Sequence(decoded) /\ FaithfulTo(native, decoded, Len(items))
          BY <1>2, <2>2, <3>3, <3>5 DEF TypeOK
        <4> QED
          BY <1>2, <2>0, <3>1, <4>1, <4>2 DEF MountsInv, items
      <3> QED
        BY <3>4, <3>5
    <2> QED
      BY <1>2, <2>0, <2>3, <2>4, MountsEffect
  <1> QED
    BY <1>3, <1>4, <1>5

LEMMA MountsWhole == ShapeInv /\ MountsInv => MountsFaithful
  <1> SUFFICES ASSUME ShapeInv, MountsInv, IsObserved(fields["mounts"])
               PROVE  MountsFaithful
    BY DEF MountsFaithful
  <1> DEFINE mounts == fields["mounts"].value
             items == native.mounts.items
  <1>1. /\ native.mounts.json = "array" /\ Sequence(mounts) /\ Len(mounts) = Len(items)
        /\ \A j \in 1..Len(items) : Faithful(native, mounts[j], items[j])
    BY DEF MountsInv, FaithfulTo
  <1>2. Sequence(items)
    BY <1>1, NativeLists, Lists DEF ShapeInv
  <1>3. DOMAIN mounts = 1..Len(items) /\ DOMAIN items = 1..Len(items)
    BY <1>1, <1>2, SequenceFacts
  <1>4. ASSUME NEW k \in DOMAIN mounts
        PROVE  /\ mounts[k].source = SourceOf(items[k])
               /\ mounts[k].destination = optional_observed_string(items[k].destination)
               /\ IF Claims(items[k]) = {} THEN mounts[k].relabel = Absent
                  ELSE IsObserved(mounts[k].relabel) /\ Claims(items[k]) = {mounts[k].relabel.value}
    <2>1. Faithful(native, mounts[k], items[k])
      BY <1>1, <1>3
    <2>2. Claims(items[k]) = ClaimsIn(native, items[k])
      BY DEF Claims, ClaimsIn
    <2> HIDE DEF mounts, items
    <2> QED
      BY <2>1, <2>2, States DEF Faithful
  <1> QED
    BY <1>3, <1>4 DEF MountsFaithful

\* What decode_container observes of mounts, networks and environment is the
\* whole member, entry by entry: each loop's flag and list are right about the
\* items before its position, whatever the response.
THEOREM FieldsAreFaithful == Spec => []FieldsFaithful
  <1> DEFINE Inv == ShapeInv /\ BoundInv /\ EnvInv /\ WalksInv /\ BindsInv /\ MountsInv
  <1>1. Init => Inv
    BY ShapeInit, BoundInit, EnvInit, WalksInit, BindsInit, MountsInit
  <1>2. Inv /\ [Next]_vars => Inv'
    BY ShapeStep, BoundStep, EnvStep, WalksStep, BindsStep, MountsStep
  <1>3. Inv => FieldsFaithful
    BY WalksAgree, MountsWhole DEF FieldsFaithful, EnvInv
  <1> HIDE DEF Inv
  <1> QED
    BY <1>1, <1>2, <1>3, PTL DEF Spec

=============================================================================
