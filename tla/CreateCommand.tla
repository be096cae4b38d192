--------------------------- MODULE CreateCommand ---------------------------
(***************************************************************************)
(* The closed grammar of Config.CreateCommand (src/src/inventory.rs): the  *)
(* bounds on its arguments, what one option is and how far it reaches, and *)
(* the SELinux relabel a mount option asks for.  The loop over the options *)
(* is ScanOption of Container.                                             *)
(*                                                                         *)
(* An argument is                                                          *)
(*   form    "word", "-", "--", "long" (--name), "long=" (--name=value),   *)
(*           "short" (-x), "short+" (-x and more), "other" (no string)     *)
(*   name    the option's name, or the word                                *)
(*   value   the text after the name, as a mount's value                   *)
(*   meant   that text as Podman's option parser delivers it               *)
(*   word    the whole argument, as a mount's value                        *)
(*   bytes   its length                                                    *)
(* and a mount's value is [colons, parts]: its parts between colons, the   *)
(* third a set of option tokens, and its parts between commas, each        *)
(* [bare, key, value], bare if it has no equals sign.                      *)
(***************************************************************************)
EXTENDS Naturals, Sequences, FiniteSets, FiniteSetsExt

CONSTANTS
    MaxArguments,     \* MAX_CREATE_COMMAND_ARGUMENTS
    MaxBytes,         \* MAX_CREATE_COMMAND_ARGUMENT_BYTES
    MaxValueBytes,    \* MAX_CREATE_COMMAND_ARGUMENT_BYTES_PER_VALUE
    MaxRelabels,      \* MAX_AUTHORED_MOUNT_RELABELS
    Parts             \* the digest-pinned references, as [name, tag, digest]

ASSUME BoundsAssumption ==
    /\ MaxArguments \in Nat /\ MaxBytes \in Nat
    /\ MaxValueBytes \in Nat /\ MaxRelabels \in Nat

\* selinux_relabel_from_tokens and parse_volume_relabel: the relabel a set of
\* mount options asks for, "conflict" where both are there.
relabel_from_tokens(tokens) ==
    IF {"z", "Z"} \subseteq tokens THEN "conflict"
    ELSE IF "z" \in tokens THEN "shared"
    ELSE IF "Z" \in tokens THEN "private"
    ELSE "none"

-----------------------------------------------------------------------------
(* The value of a mount option *)

Irrelevant == [parsed |-> "Irrelevant"]
Observes(source, destination, relabel) ==
    [parsed |-> "Observed", mount |-> [source |-> source, destination |-> destination,
                                       relabel |-> relabel]]
Refuses(state) == [parsed |-> state]

\* --volume: source:destination[:options].
parse_volume_mount(colons) ==
    IF Len(colons) = 1 \/ (colons[1] = "" \/ colons[2] = "") THEN Refuses("Malformed")
    ELSE IF Len(colons) = 2 THEN Irrelevant
    ELSE IF relabel_from_tokens(colons[3]) = "none" THEN Irrelevant
    ELSE IF relabel_from_tokens(colons[3]) = "conflict" THEN Refuses("Unavailable")
    ELSE Observes(colons[1], colons[2], relabel_from_tokens(colons[3]))

SourceKeys == {"source", "src"}
DestinationKeys == {"destination", "dst", "target"}
IgnoredFlags == {"ro", "rw", "bind-nonrecursive", "nosuid", "nodev", "noexec"}

\* The parts of a --mount value that set one of the given keys, before part k.
Setting(parts, keys, k) == {j \in 1..(k - 1) : ~parts[j].bare /\ parts[j].key \in keys}

\* What part k says of the whole value, "continue" if nothing.
PartVerdict(parts, k) ==
    LET part == parts[k]
        Once(keys) == IF Setting(parts, keys, k) # {} THEN "Unavailable" ELSE "continue"
    IN  IF part.bare
        THEN IF part.key \in SourceKeys \cup DestinationKeys \cup {"relabel"} THEN "Malformed"
             ELSE IF part.key \in IgnoredFlags THEN "continue"
             ELSE "Unavailable"
        ELSE IF part.key \in SourceKeys
             THEN IF part.value = "" THEN "Malformed" ELSE Once(SourceKeys)
        ELSE IF part.key \in DestinationKeys
             THEN IF part.value = "" THEN "Malformed" ELSE Once(DestinationKeys)
        ELSE IF part.key = "relabel"
             THEN IF part.value \notin {"shared", "private"} THEN "Malformed" ELSE Once({"relabel"})
        ELSE IF part.key = "type" /\ part.value = "bind" THEN "continue"
        ELSE "Unavailable"

\* Slip: a key given twice is taken from its last occurrence.
parse_structured_mount_relabel_last(parts) ==
    LET n == Len(parts) + 1
        At(keys) == parts[CHOOSE j \in Setting(parts, keys, n) :
                            \A i \in Setting(parts, keys, n) : i <= j].value
    IN  IF Setting(parts, {"relabel"}, n) = {} THEN Irrelevant
        ELSE IF Setting(parts, SourceKeys, n) = {} \/ Setting(parts, DestinationKeys, n) = {}
        THEN Refuses("Malformed")
        ELSE Observes(At(SourceKeys), At(DestinationKeys), At({"relabel"}))

\* --mount: the first part with a verdict decides.
parse_structured_mount_relabel(parts) ==
    LET stops == {k \in DOMAIN parts : PartVerdict(parts, k) # "continue"}
        n == Len(parts) + 1
        At(keys) == parts[CHOOSE j \in Setting(parts, keys, n) : TRUE].value
    IN  IF stops # {}
        THEN Refuses(PartVerdict(parts, CHOOSE k \in stops : \A j \in stops : k <= j))
        ELSE IF Setting(parts, {"relabel"}, n) = {} THEN Irrelevant
        ELSE IF Setting(parts, SourceKeys, n) = {} \/ Setting(parts, DestinationKeys, n) = {}
        THEN Refuses("Malformed")
        ELSE Observes(At(SourceKeys), At(DestinationKeys), At({"relabel"}))

parse_create_mount_relabel(kind, value) ==
    IF kind = "volume" THEN parse_volume_mount(value.colons)
    ELSE parse_structured_mount_relabel(value.parts)

\* ParsedCreateMountRelabels::record.
record(relabels, parsed) ==
    IF parsed.parsed = "Irrelevant" THEN relabels
    ELSE IF parsed.parsed = "Observed"
    THEN IF relabels.state # "Observed" THEN relabels
         ELSE IF Len(relabels.mounts) >= MaxRelabels THEN [state |-> "Unavailable", mounts |-> <<>>]
         ELSE [state |-> "Observed", mounts |-> Append(relabels.mounts, parsed.mount)]
    ELSE IF parsed.parsed = "Malformed" THEN [state |-> "Malformed", mounts |-> <<>>]
    ELSE IF relabels.state = "Malformed" THEN relabels
    ELSE [state |-> "Unavailable", mounts |-> <<>>]

\* Podman may drop the tag of a digest-pinned reference, and nothing else.
same_image_after_digest_tag_canonicalization(authored, configured) ==
    /\ {authored, configured} \subseteq DOMAIN Parts
    /\ Parts[authored].name = Parts[configured].name
    /\ Parts[authored].digest = Parts[configured].digest
    /\ Parts[authored].tag # "" /\ Parts[configured].tag = ""

-----------------------------------------------------------------------------
(* The arguments *)

\* bounded_create_command_values: the first argument that is out of bounds
\* decides, "values" if none is.
bounded_create_command_values(arguments) ==
    LET Over(k) == \/ arguments[k].form = "other"
                   \/ arguments[k].bytes > MaxValueBytes
                   \/ MapThenSumSet(LAMBDA j : arguments[j].bytes, 1..k) > MaxBytes
        over == {k \in DOMAIN arguments : Over(k)}
    IN  IF Len(arguments) > MaxArguments THEN "Unavailable"
        ELSE IF over = {} THEN "values"
        ELSE IF arguments[CHOOSE k \in over : \A j \in over : k <= j].form = "other"
        THEN "Malformed"
        ELSE "Unavailable"

\* The position after `podman [container] create|run`, 0 if the command does
\* not start like that.
FirstOption(arguments) ==
    LET verb == IF Len(arguments) > 1 /\ arguments[2].form = "word" /\ arguments[2].name = "container"
                THEN 3 ELSE 2
        Is(k, names) == k <= Len(arguments) /\ arguments[k].form = "word" /\ arguments[k].name \in names
    IN  IF Is(1, {"podman", "/usr/bin/podman"}) /\ Is(verb, {"create", "run"}) THEN verb + 1 ELSE 0

is_create_flag_without_value(argument) ==
    \/ /\ argument.form = "short"
       /\ argument.name \in {"d", "i", "t"}
    \/ /\ argument.form = "long"
       /\ argument.name \in {"detach", "interactive", "tty", "rm", "replace", "privileged",
                             "read-only", "init", "no-hosts", "http-proxy"}

is_create_flag_with_value(option) ==
    option \in {"name", "pod", "network", "network-alias", "publish", "env", "env-file", "label",
        "label-file", "annotation", "user", "workdir", "entrypoint", "hostname", "restart",
        "health-cmd", "health-interval", "health-timeout", "health-retries",
        "health-start-period", "memory", "memory-reservation", "memory-swap", "cpus",
        "cpu-shares", "cpu-period", "cpu-quota", "pids-limit", "ulimit", "security-opt",
        "cap-add", "cap-drop", "device", "dns", "dns-option", "dns-search", "add-host", "tmpfs",
        "expose", "stop-signal", "stop-timeout", "log-driver", "log-opt", "cgroup-parent",
        "cgroupns", "ipc", "pid", "uts", "userns", "gidmap", "uidmap", "shm-size", "secret",
        "credential", "pull", "authfile", "creds", "platform", "preserve-fd"}

\* The kind of mount an option declares, "none" if it declares none.
MountOption(argument) ==
    IF argument.form \in {"short", "short+"} /\ argument.name = "v" THEN "volume"
    ELSE IF argument.form \in {"long", "long="} /\ argument.name \in {"volume", "mount"}
    THEN argument.name
    ELSE "none"

\* An argument that starts with a dash and is neither - nor --.
IsOption(argument) == argument.form \in {"long", "long=", "short", "short+"}

\* One turn of the loop of parse_create_command on the option at k: how many
\* arguments it takes and the relabel it declares, or the verdict that ends
\* the parse.
Option(arguments, k) ==
    LET argument == arguments[k]
        inline == argument.form \in {"long=", "short+"}
        Takes(n, relabel) == [end |-> "no", takes |-> n, relabel |-> relabel]
        Ends(state) == [end |-> state, takes |-> 0, relabel |-> Irrelevant]
        kind == MountOption(argument)
        missing == ~inline /\ k = Len(arguments)
    IN  IF kind # "none"
        THEN IF missing THEN Ends("Malformed")
             ELSE IF inline THEN Takes(1, parse_create_mount_relabel(kind, argument.value))
             ELSE Takes(2, parse_create_mount_relabel(kind, arguments[k + 1].word))
        ELSE IF is_create_flag_without_value(argument) THEN Takes(1, Irrelevant)
        ELSE IF argument.form \in {"short", "short+"} \/ ~is_create_flag_with_value(argument.name)
        THEN Ends("Unavailable")
        ELSE IF missing THEN Ends("Malformed")
        ELSE Takes(IF inline THEN 1 ELSE 2, Irrelevant)
=============================================================================
