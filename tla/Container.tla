----------------------------- MODULE Container -----------------------------
(***************************************************************************)
(* decode_container (src/src/inventory.rs) on one inspect response: the    *)
(* protected environment, the references to other resources, the mounts    *)
(* with their SELinux relabels, and the creation evidence read from        *)
(* Config.CreateCommand and correlated with the mounts.  One action is one *)
(* turn of a loop of the decoder, or the code between two loops.           *)
(*                                                                         *)
(* A JSON value is None (missing or null), Other (a value of another type  *)
(* than the decoder asks for), Text(s), Tokens(t) (a string the decoder    *)
(* splits at commas) or Array(items).                                      *)
(***************************************************************************)
EXTENDS CreateCommand, SequencesExt

CONSTANT Containers       \* the inspect responses

None == [json |-> "none"]
Other == [json |-> "other"]
Text(s) == [json |-> "string", text |-> s]
Tokens(t) == [json |-> "string", tokens |-> t]
Array(items) == [json |-> "array", items |-> items]

\* The shape of a response: what the decoder reads as text is text, None or
\* Other, and what it walks as a list is a finite sequence, None or Other.
\* A bind is the source and the destination before its last colon, or fewer.
Sequence(s) == s \in Seq(Range(s))
IsText(v) == v \in {None, Other} \/ v \in [json : {"string"}, text : STRING]
IsList(v) == v \in {None, Other} \/ (v = Array(v.items) /\ Sequence(v.items))
IsMode(v) == v \in {None, Other} \/ (v = Tokens(v.tokens) /\ v.tokens \in SUBSET STRING)
ItemsOf(v) == IF v.json = "array" THEN Range(v.items) ELSE {}

HostMembers == {"CreateNetNS", "NoManageResolvConf", "NoManageHosts", "PortBindings", "Dns",
                "DnsSearch", "DnsOptions", "ExtraHosts"}
MountMembers == {"RW", "Options", "Propagation", "SubPath"}
GrantMembers == {"UID", "GID", "Mode"}

IsMount(m) ==
    m.json = "object" =>
        /\ IsText(m.type) /\ IsText(m.name) /\ IsText(m.source) /\ IsText(m.destination)
        /\ IsMode(m.mode) /\ DOMAIN m.members = MountMembers
IsBind(b) == b.json = "string" => /\ b.mount \in Seq(STRING) /\ Len(b.mount) <= 2
                                   /\ b.tokens \in SUBSET STRING
IsGrant(g) == g.json = "object" => IsText(g.id) /\ IsText(g.name) /\ DOMAIN g.members = GrantMembers
\* A mount's value has one to three parts between colons.  Podman drops an
\* equals sign behind -v, and no name and no path of a mount starts with one.
IsValue(v) ==
    LET c == v.colons
    IN  /\ Sequence(v.parts)
        /\ \/ c = <<c[1]>> \/ c = <<c[1], c[2]>>
           \/ c = <<c[1], c[2], c[3]>> /\ c[3] \in SUBSET STRING
IsArgument(a) ==
    a.form # "other" =>
        /\ IsValue(a.word) /\ IsValue(a.value) /\ IsValue(a.meant)
        /\ a.form # "short+" => a.meant = a.value
        /\ DOMAIN a.meant.colons = DOMAIN a.value.colons
        /\ \A j \in DOMAIN a.value.colons \ {1} : a.meant.colons[j] = a.value.colons[j]
Apart(a, m) == a.form = "short+" /\ a.meant # a.value /\ m.json = "object" =>
                   Text(a.value.colons[1]) \notin {m.name, m.source}
IsNetwork(n) == n.name \in STRING /\ n.details \in {"object", "null", "other"} /\ IsList(n.aliases)

\* Two digest-pinned references differ in their name, tag or digest.
ASSUME PartsAssumption ==
    \A r, q \in DOMAIN Parts :
        r # q => \/ Parts[r].name # Parts[q].name \/ Parts[r].tag # Parts[q].tag
                 \/ Parts[r].digest # Parts[q].digest

ASSUME ContainersAssumption ==
    \A c \in Containers :
        /\ c.config \in {"none", "object", "other"} /\ c.settings \in {"none", "object", "other"}
        /\ IsText(c.image) /\ IsText(c.image_name) /\ IsText(c.pod)
        /\ IsList(c.env) /\ IsList(c.networks) /\ IsList(c.mounts) /\ IsList(c.command)
        /\ IsList(c.dependencies) /\ IsList(c.secrets) /\ IsList(c.host.binds)
        /\ c.host.json \in {"none", "object", "other"} /\ DOMAIN c.host.members = HostMembers
        /\ \A m \in ItemsOf(c.mounts) : IsMount(m)
        /\ \A a \in ItemsOf(c.command) : IsArgument(a) /\ \A m \in ItemsOf(c.mounts) : Apart(a, m)
        /\ \A b \in ItemsOf(c.host.binds) : IsBind(b)
        /\ \A n \in ItemsOf(c.networks) : IsNetwork(n)
        /\ \A d \in ItemsOf(c.dependencies) : IsText(d)
        /\ \A g \in ItemsOf(c.secrets) : IsGrant(g)

\* ObservationField.
Absent == [state |-> "Absent"]
Malformed == [state |-> "Malformed"]
Unavailable == [state |-> "Unavailable"]
NotApplicable == [state |-> "NotApplicable"]
Observed(v) == [state |-> "Observed", value |-> v]
IsObserved(f) == f.state = "Observed"

Fields == {"environment", "local_image", "configured_image", "pod", "networks", "attachments",
           "networking", "binds", "mounts", "image_hint", "relabel_hints", "creation",
           "dependencies", "secrets", "relationships"}

VARIABLES
    native,           \* the inspect response
    policy,           \* AcquisitionOptions::environment_values
    stage,            \* where decode_container is
    index,            \* the loop's position, from 1
    decoded,          \* what the loop pushed
    malformed,        \* the loop's flag
    fields,           \* the decoded fields
    relationships,    \* the native relationships pushed so far
    decoding,         \* relationship_decoding
    relabels,         \* ParsedCreateMountRelabels
    image,            \* the image operand of the creation command
    findings          \* the record's findings

vars == <<native, policy, stage, index, decoded, malformed, fields, relationships, decoding,
          relabels, image, findings>>

Init ==
    /\ native \in Containers
    /\ policy \in {"Redact", "Include"}
    /\ stage = "configuration" /\ index = 1 /\ decoded = <<>> /\ malformed = FALSE
    /\ fields = [f \in Fields |-> Absent]
    /\ relationships = <<>> /\ decoding = [supplied |-> FALSE, malformed |-> FALSE]
    /\ relabels = [state |-> "Observed", mounts |-> <<>>] /\ image = ""
    /\ findings = <<>>

-----------------------------------------------------------------------------
(* Fields and loops *)

\* A finding names the member of the response it is about, and the position
\* in it, 0 for the member itself.
Finding(code, path, k) == [code |-> code, path |-> path, index |-> k]
Bad(path, k) == <<Finding("ResourceMalformed", path, k)>>
NoFindings == <<>>

\* optional_string_field refuses an empty string, optional_observed_string
\* keeps it, optional_native_reference takes it for no reference.
optional_string_field(v) ==
    IF v = None THEN Absent
    ELSE IF v.json = "string" THEN IF v.text # "" THEN Observed(v.text) ELSE Malformed
    ELSE Malformed
optional_observed_string(v) ==
    IF v = None THEN Absent ELSE IF v.json = "string" THEN Observed(v.text) ELSE Malformed
decode_native_reference(v) ==
    IF v = None THEN Absent
    ELSE IF v.json = "string" THEN IF v.text # "" THEN Observed(v.text) ELSE Absent
    ELSE Malformed
Reported(field, path, k) == IF field = Malformed THEN Bad(path, k) ELSE NoFindings

\* A member that must be a boolean, a number or a list of strings: "absent",
\* "good" or "bad", one finding for each bad one.
Members(path, values, names, k) ==
    [j \in 1..Cardinality({m \in names : values[m] = "bad"}) |-> Finding("ResourceMalformed", path, k)]

\* Slip: the last family decides.
Merge_latest(supplied, bad) ==
    decoding' = [supplied |-> decoding.supplied \/ supplied, malformed |-> bad]

\* RelationshipDecoding::merge.
Merge(supplied, bad) ==
    decoding' = [supplied |-> decoding.supplied \/ supplied, malformed |-> decoding.malformed \/ bad]
Reference(kind, names) == [kind |-> kind, references |-> names]

Begin(next) == stage' = next /\ index' = 1 /\ decoded' = <<>> /\ malformed' = FALSE

\* A loop starts over the items of a JSON array.
Enter(s, loop, field, v, next, path) ==
    /\ stage = s
    /\ IF v.json = "array" THEN UNCHANGED <<fields, findings>> /\ Begin(loop)
       ELSE /\ fields' = [fields EXCEPT ![field] = IF v = None THEN Absent ELSE Malformed]
            /\ findings' = findings \o (IF v = None THEN NoFindings ELSE Bad(path, 0))
            /\ Begin(next)

\* One turn of a loop, with what the turn pushes, and the end of the loop.
Turn(s, items, r) ==
    /\ stage = s /\ index <= Len(items)
    /\ decoded' = IF r.bad THEN decoded ELSE Append(decoded, r.value)
    /\ malformed' = (malformed \/ r.bad)
    /\ findings' = findings \o r.findings
    /\ index' = index + 1
    /\ UNCHANGED <<native, policy, stage, fields, decoding, relabels, image>>
Leave(s, items, field, next) ==
    /\ stage = s /\ index > Len(items)
    /\ fields' = [fields EXCEPT ![field] = IF malformed THEN Malformed ELSE Observed(decoded)]
    /\ Begin(next)
    /\ UNCHANGED <<native, policy, relationships, relabels, image, findings>>
Pushes(value, fs) == [bad |-> FALSE, value |-> value, findings |-> fs]
Refused(fs) == [bad |-> TRUE, findings |-> fs]

-----------------------------------------------------------------------------
(* Configuration, images, membership *)

\* Slip: a Config that is no object is not reported.
DecodeConfiguration_quiet ==
    LET env == IF native.config = "object" THEN native.env ELSE None
    IN  /\ Enter("configuration", "environment", "environment", env, "references", "Env")
        /\ UNCHANGED <<native, policy, relationships, decoding, relabels, image>>

\* decode_container_configuration, up to the loop of decode_environment.
DecodeConfiguration ==
    /\ Enter("configuration", "environment", "environment",
             IF native.config = "object" THEN native.env
             ELSE IF native.config = "none" THEN None ELSE Other,
             "references", IF native.config = "other" THEN "Config" ELSE "Env")
    /\ UNCHANGED <<native, policy, relationships, decoding, relabels, image>>

\* One entry of Config.Env: NAME=value, split at the first equals sign.
EnvironmentEntry(entry, k) ==
    IF entry.json # "string" \/ ~entry.pair \/ entry.name = ""
    THEN Refused(<<Finding("EnvironmentMalformed", "Env", k)>>)
    ELSE Pushes([name |-> entry.name, value |-> IF policy = "Redact" THEN "redacted" ELSE entry.value],
                NoFindings)

DecodeEnvironment ==
    LET items == native.env.items IN
    \/ /\ stage = "environment" /\ index <= Len(items)
       /\ Turn("environment", items, EnvironmentEntry(items[index], index))
       /\ UNCHANGED relationships
    \/ /\ stage = "environment"
       /\ Leave("environment", items, "environment", "references")
       /\ UNCHANGED decoding

\* The image fields and the pod reference.
DecodeReferences ==
    LET local == optional_string_field(native.image)
        configured == optional_string_field(native.image_name)
        pod == decode_native_reference(native.pod)
        Push(kind, f) == IF IsObserved(f) THEN <<Reference(kind, {f.value})>> ELSE <<>>
    IN  /\ stage = "references"
        /\ fields' = [fields EXCEPT !["local_image"] = local, !["configured_image"] = configured,
                                    !["pod"] = pod]
        /\ relationships' = Push("image", configured) \o Push("pod", pod)
        /\ decoding' = [supplied |-> configured # Absent \/ pod # Absent,
                        malformed |-> configured = Malformed \/ pod = Malformed]
        /\ findings' = findings \o Reported(local, "Image", 0) \o Reported(configured, "ImageName", 0)
                                \o Reported(pod, "Pod", 0)
        /\ Begin("network_settings")
        /\ UNCHANGED <<native, policy, relabels, image>>

-----------------------------------------------------------------------------
(* Networks: a container of a pod has the pod's *)

\* decode_container_networks, up to its loop.
DecodeNetworkSettings ==
    LET inPod == IsObserved(fields["pod"])
        path == IF native.settings = "other" THEN "NetworkSettings" ELSE "Networks"
        networks == IF native.settings = "other" THEN Other
                    ELSE IF native.settings = "none" THEN None ELSE native.networks
    IN  /\ stage = "network_settings"
        /\ IF inPod
           THEN /\ fields' = [fields EXCEPT !["networks"] = NotApplicable,
                                            !["attachments"] = NotApplicable]
                /\ Begin("networking") /\ UNCHANGED <<findings, decoding>>
           ELSE IF networks.json = "array"
           THEN Begin("networks") /\ UNCHANGED <<fields, findings, decoding>>
           ELSE LET state == IF networks = None THEN Absent ELSE Malformed
                IN  /\ fields' = [fields EXCEPT !["networks"] = state, !["attachments"] = state]
                    /\ findings' = findings \o Reported(state, path, 0)
                    /\ Merge(state = Malformed, state = Malformed)
                    /\ Begin("networking")
        /\ UNCHANGED <<native, policy, relationships, relabels, image>>

BadAttachment(network) == network.name = "" \/ network.details \notin {"object", "null"}

\* The members of NetworkSettings.Networks, as references.
DecodeNetworks ==
    LET items == native.networks.items IN
    \/ /\ stage = "networks" /\ index <= Len(items)
       /\ LET bad == BadAttachment(items[index])
          IN  /\ Turn("networks", items, IF bad THEN Refused(Bad("Networks", index))
                                         ELSE Pushes(items[index].name, NoFindings))
              /\ relationships' = IF bad THEN relationships
                                  ELSE Append(relationships, Reference("network", {items[index].name}))
    \/ /\ stage = "networks"
       /\ Leave("networks", items, "networks", "attachments")
       /\ Merge(TRUE, malformed)

\* decode_container_network_aliases: the first bad alias ends the list.
decode_container_network_aliases(aliases, k) ==
    IF aliases.json # "array"
    THEN [field |-> IF aliases = None THEN Absent ELSE Malformed,
          findings |-> IF aliases = None THEN NoFindings ELSE Bad("Aliases", k)]
    ELSE IF \E j \in DOMAIN aliases.items : aliases.items[j].json # "string" \/ aliases.items[j].text = ""
    THEN [field |-> Malformed, findings |-> Bad("Aliases", k)]
    ELSE [field |-> Observed([j \in DOMAIN aliases.items |-> aliases.items[j].text]),
          findings |-> NoFindings]

\* decode_container_network_attachments walks the same members again and
\* ends at the first bad one, which DecodeNetworks has reported.
DecodeAttachments ==
    LET items == native.networks.items
        network == items[index]
        aliases == IF network.details = "null" THEN [field |-> Unavailable, findings |-> NoFindings]
                   ELSE decode_container_network_aliases(network.aliases, index)
    IN
    \/ /\ stage = "attachments" /\ index <= Len(items)
       /\ ~BadAttachment(network)
       /\ Turn("attachments", items,
               Pushes([name |-> network.name, aliases |-> aliases.field], aliases.findings))
       /\ UNCHANGED relationships
    \/ /\ stage = "attachments" /\ index <= Len(items)
       /\ BadAttachment(network)
       /\ fields' = [fields EXCEPT !["attachments"] = Malformed]
       /\ Begin("networking")
       /\ UNCHANGED <<native, policy, relationships, decoding, relabels, image, findings>>
    \/ /\ stage = "attachments"
       /\ Leave("attachments", items, "attachments", "networking")
       /\ UNCHANGED decoding

\* The networking members of HostConfig that are not read.
Unmanaged(members) ==
    (IF members["NoManageResolvConf"] = "true" THEN {"Dns", "DnsSearch", "DnsOptions"} ELSE {})
    \cup (IF members["NoManageHosts"] = "true" THEN {"ExtraHosts"} ELSE {})

decode_container_networking ==
    LET members == native.host.members
        read == HostMembers \ Unmanaged(members)
        failing == read \ {"NoManageResolvConf", "NoManageHosts"}
        bad == \E m \in failing : members[m] = "bad"
    IN  IF IsObserved(fields["pod"])
        THEN [field |-> NotApplicable,
              findings |-> IF native.host.json = "object" /\ \E m \in DOMAIN members : members[m] # "absent"
                           THEN <<Finding("NativeFieldUnsupported", "HostConfig", 0)>> ELSE NoFindings]
        ELSE IF native.host.json = "other"
        THEN [field |-> Malformed, findings |-> Bad("HostConfig", 0)]
        ELSE [field |-> IF bad \/ fields["networks"] = Malformed THEN Malformed
                        ELSE IF native.host.json = "none" /\ fields["networks"] = Absent THEN Absent
                        ELSE Observed([networks |-> fields["networks"],
                                       attachments |-> fields["attachments"]]),
              findings |-> Members("HostConfig", members, read, 0)]

DecodeNetworking ==
    /\ stage = "networking"
    /\ fields' = [fields EXCEPT !["networking"] = decode_container_networking.field]
    /\ findings' = findings \o decode_container_networking.findings
    /\ Begin("host_binds")
    /\ UNCHANGED <<native, policy, relationships, decoding, relabels, image>>

-----------------------------------------------------------------------------
(* Mounts and their SELinux relabels *)

\* decode_native_bind_selinux_relabels, up to its loop.  Its findings about
\* HostConfig itself are the ones of DecodeNetworking.
DecodeHostBinds ==
    LET binds == IF native.host.json = "object" THEN native.host.binds ELSE None
    IN  /\ IF binds = None
           THEN /\ stage = "host_binds"
                /\ fields' = [fields EXCEPT !["binds"] = Observed(<<>>)]
                /\ Begin("mount_list") /\ UNCHANGED findings
           ELSE Enter("host_binds", "binds", "binds", binds, "mount_list", "Binds")
        /\ UNCHANGED <<native, policy, relationships, decoding, relabels, image>>

\* One entry of HostConfig.Binds, split at its last colon and then at the
\* first: [json, mount, tokens], mount the texts before the last colon, empty
\* if there is none.  An entry that asks for no relabel is skipped.
BindEntry(bind) ==
    IF bind.json # "string" THEN "bad"
    ELSE IF bind.mount = <<>> \/ relabel_from_tokens(bind.tokens) = "none" THEN "skip"
    ELSE IF relabel_from_tokens(bind.tokens) = "conflict" THEN "bad"
    ELSE IF Len(bind.mount) = 1 \/ "" \in {bind.mount[j] : j \in DOMAIN bind.mount} THEN "bad"
    ELSE "relabel"

\* One turn of the loop: the first entry for a mount counts, a later one must
\* agree with it.  Its value is the sequence it pushes.
BindTurn(bind, k) ==
    LET relabel == relabel_from_tokens(bind.tokens)
        previous == {j \in DOMAIN decoded : /\ decoded[j].source = bind.mount[1]
                                            /\ decoded[j].destination = bind.mount[2]}
    IN  IF BindEntry(bind) = "bad" THEN Refused(Bad("Binds", k))
        ELSE IF BindEntry(bind) = "skip" THEN Pushes(<<>>, NoFindings)
        ELSE IF \E j \in previous : decoded[j].relabel # relabel THEN Refused(Bad("Binds", k))
        ELSE IF previous # {} THEN Pushes(<<>>, NoFindings)
        ELSE Pushes(<<[source |-> bind.mount[1], destination |-> bind.mount[2], relabel |-> relabel]>>,
                    NoFindings)

DecodeBinds ==
    LET items == native.host.binds.items IN
    \/ /\ stage = "binds" /\ index <= Len(items)
       /\ LET r == BindTurn(items[index], index)
          IN  /\ decoded' = IF r.bad THEN decoded ELSE decoded \o r.value
              /\ malformed' = (malformed \/ r.bad)
              /\ findings' = findings \o r.findings
       /\ index' = index + 1
       /\ UNCHANGED <<native, policy, stage, fields, relationships, decoding, relabels, image>>
    \/ /\ stage = "binds"
       /\ Leave("binds", items, "binds", "mount_list")
       /\ UNCHANGED decoding

\* decode_container_mounts, up to its loop.
DecodeMountList ==
    /\ Enter("mount_list", "mounts", "mounts", native.mounts, "command", "Mounts")
    /\ Merge(native.mounts = Other, native.mounts = Other)
    /\ UNCHANGED <<native, policy, relationships, relabels, image>>

\* Slip: the mount's own mode is enough.
decode_mount_selinux_relabel_mode(mount, kind, source, destination) ==
    LET mode == IF mount.mode = None THEN "none"
                ELSE IF mount.mode = Other THEN "conflict" ELSE relabel_from_tokens(mount.mode.tokens)
    IN  IF mode = "conflict" THEN [field |-> Malformed, reported |-> TRUE]
        ELSE [field |-> IF mode = "none" THEN Absent ELSE Observed(mode), reported |-> FALSE]

\* decode_mount_selinux_relabel: the mount's mode and, for a bind mount, the
\* entry of HostConfig.Binds for it.
decode_mount_selinux_relabel(mount, kind, source, destination) ==
    LET mode == IF mount.mode = None THEN "none"
                ELSE IF mount.mode = Other THEN "conflict" ELSE relabel_from_tokens(mount.mode.tokens)
        binds == IF kind = "bind" THEN fields["binds"] ELSE Observed(<<>>)
        ForMount == {j \in DOMAIN binds.value : /\ IsObserved(destination)
                                                /\ binds.value[j].source = source
                                                /\ binds.value[j].destination = destination.value}
        bind == IF ForMount = {} THEN "none" ELSE binds.value[CHOOSE j \in ForMount : TRUE].relabel
    IN  IF mode = "conflict" THEN [field |-> Malformed, reported |-> TRUE]
        ELSE IF binds = Malformed THEN [field |-> Malformed, reported |-> FALSE]
        ELSE IF mode # "none" /\ bind # "none" /\ mode # bind
        THEN [field |-> Malformed, reported |-> TRUE]
        ELSE [field |-> IF mode # "none" THEN Observed(mode)
                        ELSE IF bind # "none" THEN Observed(bind) ELSE Absent,
              reported |-> FALSE]

\* One member of Mounts, k its position.
MountTurn(mount, k) ==
    LET kind == mount.type.text
        destination == optional_observed_string(mount.destination)
        source == IF kind = "volume" THEN mount.name ELSE mount.source
        backing == IF kind = "volume" THEN optional_observed_string(mount.source) ELSE Absent
        relabel == decode_mount_selinux_relabel(mount, kind, source.text, destination)
        rest == Reported(backing, "Mounts", k)
                \o Members("Mounts", mount.members, {"RW", "Options"}, k)
                \o (IF relabel.reported THEN Bad("Mounts", k) ELSE NoFindings)
                \o Members("Mounts", mount.members, {"Propagation", "SubPath"}, k)
    IN  IF mount.json # "object" \/ mount.type.json # "string" THEN Refused(Bad("Mounts", k))
        ELSE IF kind \notin {"volume", "bind"}
        THEN Refused(<<Finding("NativeFieldUnsupported", "Mounts", k)>>)
        ELSE IF source.json # "string"
        THEN Refused(Reported(destination, "Mounts", k) \o Bad("Mounts", k))
        ELSE IF source.text = ""
        THEN Refused(Reported(destination, "Mounts", k) \o Bad("Mounts", k))
        ELSE IF \/ Malformed \in {destination, backing, relabel.field}
                \/ \E m \in DOMAIN mount.members : mount.members[m] = "bad"
        THEN Refused(Reported(destination, "Mounts", k) \o rest)
        ELSE Pushes([kind |-> kind, source |-> source.text, destination |-> destination,
                     relabel |-> relabel.field], NoFindings)

DecodeMounts ==
    LET items == native.mounts.items IN
    \/ /\ stage = "mounts" /\ index <= Len(items)
       /\ LET r == MountTurn(items[index], index)
          IN  /\ Turn("mounts", items, r)
              /\ relationships' = IF r.bad \/ items[index].type.text # "volume" THEN relationships
                                  ELSE Append(relationships, Reference("volume", {r.value.source}))
    \/ /\ stage = "mounts"
       /\ Leave("mounts", items, "mounts", "command")
       /\ Merge(TRUE, malformed)

-----------------------------------------------------------------------------
(* Creation evidence *)

container_create_command ==
    IF native.config = "object" THEN native.command
    ELSE IF native.config = "none" THEN None ELSE Other

Arguments == native.command.items

\* The creation evidence is state; a malformed command is reported.
Conclude(state) ==
    /\ fields' = [fields EXCEPT !["creation"] = state]
    /\ findings' = findings \o Reported(state, "CreateCommand", 0)
    /\ Begin("dependency_list")
    /\ UNCHANGED <<native, policy, relationships, decoding, relabels, image>>

\* parse_create_command, up to its loop.
ParseCommand ==
    LET value == container_create_command
        bounded == bounded_create_command_values(Arguments)
    IN  /\ stage = "command"
        /\ IF value.json # "array" THEN Conclude(IF value = None THEN Absent ELSE Malformed)
           ELSE IF bounded # "values" THEN Conclude([state |-> bounded])
           ELSE IF Arguments = <<>> THEN Conclude(Malformed)
           ELSE IF FirstOption(Arguments) = 0 THEN Conclude(Unavailable)
           ELSE /\ stage' = "scan" /\ index' = FirstOption(Arguments)
                /\ UNCHANGED <<native, policy, decoded, malformed, fields, relationships, decoding,
                               relabels, image, findings>>

AtOption == index <= Len(Arguments) /\ IsOption(Arguments[index])

\* Slip: every option is one argument.
ScanOption_single ==
    LET option == Option(Arguments, index)
    IN  /\ stage = "scan" /\ AtOption
        /\ IF option.end # "no" THEN Conclude([state |-> option.end])
           ELSE /\ relabels' = record(relabels, option.relabel)
                /\ index' = index + 1
                /\ UNCHANGED <<native, policy, stage, decoded, malformed, fields, relationships,
                               decoding, image, findings>>

ScanOption ==
    LET option == Option(Arguments, index)
    IN  /\ stage = "scan" /\ AtOption
        /\ IF option.end # "no" THEN Conclude([state |-> option.end])
           ELSE /\ relabels' = record(relabels, option.relabel)
                /\ index' = index + option.takes
                /\ UNCHANGED <<native, policy, stage, decoded, malformed, fields, relationships,
                               decoding, image, findings>>

\* After the options: the image operand.
EndOptions ==
    LET operand == IF index <= Len(Arguments) /\ Arguments[index].form = "--" THEN index + 1 ELSE index
    IN  /\ stage = "scan" /\ ~AtOption
        /\ IF operand > Len(Arguments) THEN Conclude(Malformed)
           ELSE /\ image' = Arguments[operand].name
                /\ Begin("image_hint")
                /\ UNCHANGED <<native, policy, fields, relationships, decoding, relabels, findings>>

\* Slip: one available spelling that differs is a contradiction.
decode_authored_image_spelling_hint_eager(configured, local) ==
    IF IsObserved(configured) /\ (\/ configured.value = image
                                  \/ same_image_after_digest_tag_canonicalization(image, configured.value))
    THEN Observed("MatchesConfiguredImage")
    ELSE IF IsObserved(local) /\ local.value = image THEN Observed("MatchesLocalImageId")
    ELSE IF ~IsObserved(configured) THEN Unavailable
    ELSE Observed("Contradictory")

decode_authored_image_spelling_hint(configured, local) ==
    IF IsObserved(configured) /\ (\/ configured.value = image
                                  \/ same_image_after_digest_tag_canonicalization(image, configured.value))
    THEN Observed("MatchesConfiguredImage")
    ELSE IF IsObserved(local) /\ local.value = image THEN Observed("MatchesLocalImageId")
    ELSE IF ~IsObserved(configured) \/ ~IsObserved(local) THEN Unavailable
    ELSE Observed("Contradictory")

DecodeImageHint ==
    LET hint == decode_authored_image_spelling_hint(fields["configured_image"], fields["local_image"])
    IN  /\ stage = "image_hint"
        /\ fields' = [fields EXCEPT !["image_hint"] = hint]
        /\ findings' = IF hint = Observed("Contradictory")
                       THEN Append(findings, Finding("CreationEvidenceConflict", "CreateCommand", 0))
                       ELSE findings
        /\ Begin("correlate")
        /\ UNCHANGED <<native, policy, relationships, decoding, relabels, image>>

\* ContainerCreationEvidence, its two parts independent of each other.
Evidence(hints, reported) ==
    /\ fields' = [fields EXCEPT !["relabel_hints"] = hints,
                                !["creation"] = Observed([image |-> fields["image_hint"],
                                                          relabels |-> hints])]
    /\ findings' = findings \o reported
    /\ Begin("dependency_list")
    /\ UNCHANGED <<native, policy, relationships, decoding, relabels, image>>

\* The decoded mounts a parsed mount names.
Matching(candidate) ==
    LET mounts == fields["mounts"].value
    IN  {k \in DOMAIN mounts : /\ mounts[k].source = candidate.source
                               /\ mounts[k].destination = Observed(candidate.destination)}

\* correlate_authored_mount_relabels: one parsed mount a turn.
CorrelateMount ==
    LET candidate == relabels.mounts[index]
        k == CHOOSE j \in Matching(candidate) : TRUE
        relabel == fields["mounts"].value[k].relabel
        agrees == relabel = Observed(candidate.relabel)
    IN  /\ stage = "correlate" /\ relabels.state = "Observed"
        /\ index <= Len(relabels.mounts) /\ IsObserved(fields["mounts"])
        /\ IF Cardinality(Matching(candidate)) = 1 /\ IsObserved(relabel)
           THEN /\ decoded' = Append(decoded, [hint |-> IF agrees THEN candidate.relabel ELSE "contradictory",
                                               mount |-> k])
                /\ findings' = IF agrees THEN findings
                               ELSE Append(findings, Finding("CreationEvidenceConflict", "CreateCommand", k))
                /\ index' = index + 1
                /\ UNCHANGED <<native, policy, stage, malformed, fields, relationships, decoding,
                               relabels, image>>
           ELSE Evidence(Unavailable, NoFindings)

EndCorrelation ==
    /\ stage = "correlate"
    /\ \/ /\ relabels.state = "Malformed"
          /\ Evidence(Malformed, Bad("CreateCommand", 0))
       \/ /\ relabels.state = "Unavailable"
          /\ Evidence(Unavailable, NoFindings)
       \/ /\ relabels.state = "Observed"
          /\ index <= Len(relabels.mounts) /\ ~IsObserved(fields["mounts"])
          /\ Evidence(Unavailable, NoFindings)
       \/ /\ relabels.state = "Observed" /\ index > Len(relabels.mounts)
          /\ Evidence(Observed(decoded), NoFindings)

-----------------------------------------------------------------------------
(* Dependencies and secrets *)

DecodeDependencyList ==
    /\ Enter("dependency_list", "dependencies", "dependencies", native.dependencies,
             "secret_list", "Dependencies")
    /\ Merge(native.dependencies = Other, native.dependencies = Other)
    /\ UNCHANGED <<native, policy, relationships, relabels, image>>

\* decode_native_dependencies ends at the first member that is no reference;
\* append_native_dependency_relationships pushes them all at the end.
DecodeDependencies ==
    LET items == native.dependencies.items
        reference == decode_native_reference(items[index])
    IN
    \/ /\ stage = "dependencies" /\ index <= Len(items) /\ IsObserved(reference)
       /\ Turn("dependencies", items, Pushes(reference.value, NoFindings))
       /\ UNCHANGED relationships
    \/ /\ stage = "dependencies" /\ index <= Len(items) /\ ~IsObserved(reference)
       /\ fields' = [fields EXCEPT !["dependencies"] = Malformed]
       /\ findings' = findings \o Reported(reference, "Dependencies", index) \o Bad("Dependencies", 0)
       /\ Merge(TRUE, TRUE)
       /\ Begin("secret_list")
       /\ UNCHANGED <<native, policy, relationships, relabels, image>>
    \/ /\ stage = "dependencies" /\ index > Len(items)
       /\ fields' = [fields EXCEPT !["dependencies"] = Observed(decoded)]
       /\ relationships' = relationships
                           \o [k \in DOMAIN decoded |-> Reference("container", {decoded[k]})]
       /\ Merge(TRUE, FALSE)
       /\ Begin("secret_list")
       /\ UNCHANGED <<native, policy, relabels, image, findings>>

\* decode_container_secret_grants, up to its loop.  A Config that is no object
\* was reported by DecodeConfiguration.
DecodeSecretList ==
    LET secrets == IF native.config = "object" THEN native.secrets
                   ELSE IF native.config = "none" THEN None ELSE Other
    IN  /\ stage = "secret_list"
        /\ IF secrets.json = "array" THEN Begin("secrets") /\ UNCHANGED <<fields, findings>>
           ELSE /\ fields' = [fields EXCEPT !["secrets"] = IF secrets = None THEN Absent ELSE Malformed]
                /\ findings' = findings \o (IF secrets = None \/ native.config = "other" THEN NoFindings
                                            ELSE Bad("Secrets", 0))
                /\ Begin("relationships")
        /\ Merge(secrets = Other, secrets = Other)
        /\ UNCHANGED <<native, policy, relationships, relabels, image>>

\* One secret grant: its id and name are references to the same secret.
SecretTurn(secret, k) ==
    LET id == decode_native_reference(secret.id)
        name == decode_native_reference(secret.name)
        references == {f.value : f \in {g \in {id, name} : IsObserved(g)}}
        unnamed == references = {} \/ Malformed \in {id, name}
        reported == Reported(id, "Secrets", k) \o Reported(name, "Secrets", k)
                    \o (IF unnamed THEN Bad("Secrets", k) ELSE NoFindings)
                    \o Members("Secrets", secret.members, GrantMembers, k)
    IN  IF secret.json # "object" THEN Refused(Bad("Secrets", k))
        ELSE IF unnamed \/ \E m \in DOMAIN secret.members : secret.members[m] = "bad"
        THEN Refused(reported)
        ELSE Pushes(references, NoFindings)

DecodeSecrets ==
    LET items == native.secrets.items IN
    \/ /\ stage = "secrets" /\ index <= Len(items)
       /\ LET r == SecretTurn(items[index], index)
          IN  /\ Turn("secrets", items, r)
              /\ relationships' = IF r.bad THEN relationships
                                  ELSE Append(relationships, Reference("secret", r.value))
    \/ /\ stage = "secrets"
       /\ Leave("secrets", items, "secrets", "relationships")
       /\ Merge(TRUE, malformed)

\* relationship_field.
DecodeRelationships ==
    /\ stage = "relationships"
    /\ fields' = [fields EXCEPT !["relationships"] =
                    IF decoding.malformed THEN Malformed
                    ELSE IF ~decoding.supplied THEN Absent
                    ELSE Observed(relationships)]
    /\ Begin("done")
    /\ UNCHANGED <<native, policy, relationships, decoding, relabels, image, findings>>

Next ==
    \/ DecodeConfiguration \/ DecodeEnvironment \/ DecodeReferences
    \/ DecodeNetworkSettings \/ DecodeNetworks \/ DecodeAttachments \/ DecodeNetworking
    \/ DecodeHostBinds \/ DecodeBinds \/ DecodeMountList \/ DecodeMounts
    \/ ParseCommand \/ ScanOption \/ EndOptions \/ DecodeImageHint
    \/ CorrelateMount \/ EndCorrelation
    \/ DecodeDependencyList \/ DecodeDependencies \/ DecodeSecretList \/ DecodeSecrets
    \/ DecodeRelationships

Spec == Init /\ [][Next]_vars

-----------------------------------------------------------------------------
(* What the record says, read without the decoder's order *)

\* Podman's own reading of a creation command.  The options without a value:
PodmanFlags == {"d", "i", "t", "detach", "interactive", "tty", "rm", "replace", "privileged",
                "read-only", "init", "no-hosts", "http-proxy", "quiet", "publish-all"}
Inline(argument) == argument.form \in {"long=", "short+"}
PodmanReach(argument) == IF Inline(argument) \/ argument.name \in PodmanFlags THEN 1 ELSE 2

\* The arguments it stops at: the first after the verb, and the one an option
\* before it reaches.
StopsAt(arguments, k, stops) ==
    \/ k = FirstOption(arguments)
    \/ \E j \in {k - 1, k - 2} \cap 1..Len(arguments) :
         IsOption(arguments[j]) /\ j + PodmanReach(arguments[j]) = k /\ stops[j]
PodmanStops(arguments) ==
    LET stops[k \in 0..(Len(arguments) + 2)] == StopsAt(arguments, k, stops)
    IN  {k \in 1..(Len(arguments) + 2) : stops[k]}
PodmanOptions(arguments) == {k \in PodmanStops(arguments) : k <= Len(arguments) /\ IsOption(arguments[k])}

\* The operand it takes for the image.
PodmanOperand(arguments) ==
    LET k == CHOOSE j \in PodmanStops(arguments) : j \notin PodmanOptions(arguments)
    IN  IF k <= Len(arguments) /\ arguments[k].form = "--" THEN k + 1 ELSE k

\* The options that declare a mount, and of each every source, destination and
\* relabel that its text gives.
PodmanMounts(arguments) ==
    {k \in PodmanOptions(arguments) : /\ MountOption(arguments[k]) # "none"
                                      /\ Inline(arguments[k]) \/ k < Len(arguments)}
Labels(tokens) == {IF t = "z" THEN "shared" ELSE "private" : t \in tokens \cap {"z", "Z"}}
Given(parts, keys) ==
    {parts[j].value : j \in {i \in DOMAIN parts : ~parts[i].bare /\ parts[i].key \in keys}}
PodmanMount(arguments, k) ==
    LET meant == IF Inline(arguments[k]) THEN arguments[k].meant ELSE arguments[k + 1].word
    IN  IF MountOption(arguments[k]) = "mount"
        THEN [sources |-> Given(meant.parts, SourceKeys),
              destinations |-> Given(meant.parts, DestinationKeys),
              labels |-> Given(meant.parts, {"relabel"})]
        ELSE [sources |-> {meant.colons[1]},
              destinations |-> {meant.colons[j] : j \in {2} \cap DOMAIN meant.colons},
              labels |-> IF Len(meant.colons) < 3 THEN {} ELSE Labels(meant.colons[3])]

\* The mounts the command asks to relabel, and the rank of one among them.
AskedFor(arguments) == {k \in PodmanMounts(arguments) : PodmanMount(arguments, k).labels # {}}
Rank(positions, k) == Cardinality({j \in positions : j <= k})

\* The source of a native mount, and the relabels the record claims for it.
SourceOf(mount) == IF mount.type.text = "volume" THEN mount.name.text ELSE mount.source.text
Claims(mount) ==
    LET entries == IF native.host.json = "object" /\ native.host.binds.json = "array"
                   THEN {native.host.binds.items[j] : j \in DOMAIN native.host.binds.items} ELSE {}
        own == {b \in entries : /\ b.json = "string" /\ mount.destination # None
                                /\ b.mount = <<SourceOf(mount), mount.destination.text>>}
    IN  (IF mount.mode = None THEN {} ELSE Labels(mount.mode.tokens))
        \cup (IF mount.type.text = "bind" THEN UNION {Labels(b.tokens) : b \in own} ELSE {})

Conflicts == {findings[j].index : j \in {i \in DOMAIN findings : findings[i].code = "CreationEvidenceConflict"}}

-----------------------------------------------------------------------------
(* Properties *)

\* A mount list is observed only whole: entry k is native mount k, with the
\* one relabel that its mode and the entries of HostConfig.Binds claim for it
\* (decode_container_mounts, decode_native_bind_selinux_relabels).
MountsFaithful ==
    IsObserved(fields["mounts"]) =>
        LET mounts == fields["mounts"].value
            items == native.mounts.items
        IN  /\ DOMAIN mounts = DOMAIN items
            /\ \A k \in DOMAIN mounts :
                 /\ mounts[k].source = SourceOf(items[k])
                 /\ mounts[k].destination = optional_observed_string(items[k].destination)
                 /\ IF Claims(items[k]) = {} THEN mounts[k].relabel = Absent
                    ELSE IsObserved(mounts[k].relabel) /\ Claims(items[k]) = {mounts[k].relabel.value}

\* A command that parses is read as Podman reads it: the image operand is the
\* argument Podman takes for the image, so no option's value and nothing
\* after the image is mistaken for it (parse_create_command).
ScannerReadsAsPodman ==
    image # "" =>
        LET operand == PodmanOperand(Arguments)
        IN  operand <= Len(Arguments) /\ Arguments[operand].name = image

\* The relabel hints tell of the mounts the command relabels, in its order:
\* hint k points at the native mount with that source and destination, and
\* says "contradictory" exactly if the record claims another relabel for it
\* (correlate_authored_mount_relabels after the scan and the mounts' decoding).
HintsTellTheCommand ==
    IsObserved(fields["relabel_hints"]) /\ IsObserved(fields["creation"]) =>
        LET hints == fields["relabel_hints"].value
            asked == AskedFor(Arguments)
        IN  /\ Len(hints) = Cardinality(asked)
            /\ \A p \in asked :
                 LET meant == PodmanMount(Arguments, p)
                     told == hints[Rank(asked, p)]
                     mount == native.mounts.items[told.mount]
                 IN  /\ meant.sources = {SourceOf(mount)}
                     /\ meant.destinations = {mount.destination.text}
                     /\ Claims(mount) # {}
                     /\ IF Claims(mount) = meant.labels THEN meant.labels = {told.hint}
                        ELSE told.hint = "contradictory"

\* What the scan keeps does not depend on the order of the mount options: one
\* malformed mount makes the relabels malformed, otherwise one unreadable
\* mount or more than MaxRelabels of them makes them unavailable
\* (ParsedCreateMountRelabels::record).
RelabelsOrderFree ==
    image # "" =>
        LET Of(state) == {k \in PodmanMounts(Arguments) : Option(Arguments, k).relabel.parsed = state}
        IN  IF Of("Malformed") # {} THEN relabels.state = "Malformed"
            ELSE IF Of("Unavailable") # {} \/ Cardinality(Of("Observed")) > MaxRelabels
            THEN relabels.state = "Unavailable"
            ELSE relabels.state = "Observed" /\ Len(relabels.mounts) = Cardinality(Of("Observed"))

\* The scan reads the command as Podman does: the operand, and with it every
\* option before it, and the relabels whatever their order.
CommandReadAsPodman == ScannerReadsAsPodman /\ RelabelsOrderFree

\* A conflict is reported only where the record contradicts the command: at
\* mount k, where it claims another relabel than the command asks for, and at
\* the image only if both of its spellings are known, neither is the operand,
\* and the configured one is not the operand without its tag.
ConflictsAreReal ==
    /\ \A k \in Conflicts \ {0} :
         \E p \in AskedFor(Arguments) :
             LET meant == PodmanMount(Arguments, p)
             IN  /\ SourceOf(native.mounts.items[k]) \in meant.sources
                 /\ native.mounts.items[k].destination.text \in meant.destinations
                 /\ Claims(native.mounts.items[k]) \notin {{}, meant.labels}
    /\ 0 \in Conflicts =>
         LET operand == Arguments[PodmanOperand(Arguments)].name
         IN  /\ native.image.json = "string" /\ native.image_name.json = "string"
             /\ operand \notin {native.image.text, native.image_name.text}
             /\ ~ /\ {operand, native.image_name.text} \subseteq DOMAIN Parts
                  /\ Parts[native.image_name.text].tag = ""
                  /\ Parts[native.image_name.text].name = Parts[operand].name
                  /\ Parts[native.image_name.text].digest = Parts[operand].digest

\* The references of a JSON array of resources, empty ones left out.
Texts(array) == IF array.json # "array" THEN {}
                ELSE {array.items[j].text : j \in {i \in DOMAIN array.items : array.items[i].json = "string"}}

\* Relationships are observed all or none: an observed list has one for every
\* reference the record holds, a container of a pod has none to networks, and
\* one malformed family hides them all (RelationshipDecoding::merge,
\* relationship_field).
RelationshipsExact ==
    stage = "done" =>
        LET family == {"configured_image", "pod", "networks", "mounts", "dependencies", "secrets"}
            Items(array) == {array.items[j] : j \in DOMAIN array.items}
            OfKind(kind) == UNION {r.references : r \in {q \in Range(relationships) : q.kind = kind}}
            Listed(array) == array.json = "array"
        IN  /\ fields["relationships"] = Malformed <=> \E f \in family : fields[f] = Malformed
            /\ fields["relationships"] = Absent =>
                 \A f \in family : fields[f].state \in {"Absent", "NotApplicable"}
            /\ IsObserved(fields["relationships"]) =>
                 /\ OfKind("image") = Texts(Array(<<native.image_name>>))
                 /\ OfKind("pod") = Texts(Array(<<native.pod>>)) \ {""}
                 /\ OfKind("network") =
                      IF ~Listed(native.networks) \/ native.settings # "object" \/ OfKind("pod") # {} THEN {}
                      ELSE {n.name : n \in Items(native.networks)}
                 /\ OfKind("volume") = IF ~Listed(native.mounts) THEN {}
                                       ELSE {m.name.text : m \in {q \in Items(native.mounts) : q.type.text = "volume"}}
                 /\ OfKind("container") = Texts(native.dependencies)
                 /\ OfKind("secret") = IF ~Listed(native.secrets) \/ native.config # "object" THEN {}
                                       ELSE UNION {Texts(Array(<<g.id, g.name>>)) \ {""} : g \in Items(native.secrets)}

\* The two walks over NetworkSettings.Networks tell the same networks.
NetworksAgree ==
    stage = "done" =>
        /\ fields["networks"].state = fields["attachments"].state
        /\ IsObserved(fields["networks"]) =>
             fields["networks"].value
                 = [k \in DOMAIN fields["attachments"].value |-> fields["attachments"].value[k].name]

\* The environment is observed only whole, in order, and holds no value unless
\* the caller asked for values (decode_environment).
EnvironmentProtected ==
    IsObserved(fields["environment"]) =>
        LET entries == fields["environment"].value
        IN  /\ DOMAIN entries = DOMAIN native.env.items
            /\ \A k \in DOMAIN entries :
                 /\ entries[k].name = native.env.items[k].name /\ entries[k].name # ""
                 /\ entries[k].value = IF policy = "Redact" THEN "redacted" ELSE native.env.items[k].value

\* An observed field tells its member whole, entry by entry: mounts with their
\* relabels, the networks of both walks, the environment without a value that
\* was not asked for.
FieldsFaithful == MountsFaithful /\ NetworksAgree /\ EnvironmentProtected

\* The members whose findings explain that a field is malformed.
Explaining ==
    [environment |-> {"Config", "Env"}, local_image |-> {"Image"}, configured_image |-> {"ImageName"},
     pod |-> {"Pod"}, networks |-> {"NetworkSettings", "Networks"},
     attachments |-> {"NetworkSettings", "Networks"},
     networking |-> {"HostConfig", "NetworkSettings", "Networks"},
     binds |-> {"Binds"}, mounts |-> {"Mounts", "Binds"},
     relabel_hints |-> {"CreateCommand"}, creation |-> {"CreateCommand"},
     dependencies |-> {"Dependencies"}, secrets |-> {"Config", "Secrets"},
     relationships |-> {"ImageName", "Pod", "NetworkSettings", "Networks", "Mounts", "Binds",
                        "Dependencies", "Config", "Secrets"}]

\* No field is malformed in silence: some finding of the record names the
\* member it was decoded from.
MalformedIsReported ==
    stage = "done" =>
        \A f \in Fields : fields[f] = Malformed =>
            \E j \in DOMAIN findings : findings[j].path \in Explaining[f]

=============================================================================
