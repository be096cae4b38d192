--------------------------- MODULE NativeReaders ---------------------------
(***************************************************************************)
(* The readers of single members of an inspect response                    *)
(* (src/src/inventory.rs): each takes one JSON value and the path it is at *)
(* and returns the observed field, the findings and the unmodelled paths.  *)
(*                                                                         *)
(* A JSON value is a record with its type t.  A string carries what it     *)
(* spells: text (a plain word), ip, cidr, digits, stamp, pair (NAME=value),*)
(* capability, or control when it has a control character or more than 256 *)
(* bytes.  An integer carries int; a number without it is not an integer.  *)
(* A path is a sequence of member names and of positions as strings.       *)
(***************************************************************************)
EXTENDS Values, SequencesExt

CONSTANTS
    U32Max, U64Max,           \* u32::MAX, u64::MAX
    PortMax,                  \* u16::MAX
    NATIVE_CAPABILITIES,      \* the reviewed capability names
    PortKeys                  \* the spellings native_port_binding_key accepts

None == [t |-> "none"]
Null == [t |-> "null"]
Bool(b) == [t |-> "bool", bool |-> b]
Integer(n) == [t |-> "number", int |-> n]
Fraction == [t |-> "number"]
Str(s) == [t |-> "string", text |-> s]
Control == [t |-> "string", control |-> TRUE]
Spells(what, v) == [t |-> "string"] @@ (what :> v)
Arr(items) == [t |-> "array", items |-> items]
Obj(members) == [t |-> "object", members |-> members]

Get(v, k) == IF v.t = "object" /\ k \in DOMAIN v.members THEN v.members[k] ELSE None
Items(v) == IF v.t = "array" THEN v.items ELSE <<>>
Missing(v) == v.t \in {"none", "null"}
IsStr(v) == v.t = "string"
Is(what, v) == IsStr(v) /\ what \in DOMAIN v
OneOf(v, words) == Is("text", v) /\ v.text \in words
IsEmpty(v) == OneOf(v, {""})
Filled(v) == IsStr(v) /\ ~IsEmpty(v)

-----------------------------------------------------------------------------
(* Observed fields and what a reader returns. *)

Absent == [state |-> "Absent"]
Malformed == [state |-> "Malformed"]
Unmodelled == [state |-> "Unmodelled"]
NotApplicable == [state |-> "NotApplicable"]
VersionInapplicable == [state |-> "VersionInapplicable"]
Observed(v) == [state |-> "Observed", value |-> v]
IsObserved(f) == f.state = "Observed"

Result(field, findings, unmodelled) ==
    [field |-> field, findings |-> findings, unmodelled |-> unmodelled]
Just(field) == Result(field, {}, <<>>)
Finding(code, at) == [code |-> code, path |-> at]
native_malformed_field(at) == Result(Malformed, {Finding("ResourceMalformed", at)}, <<>>)
native_unmodelled_field(at) == Result(Unmodelled, {}, <<at>>)

\* None | Some(Value::Null) => Absent; a value the reader takes is observed.
Optional(v, r) == IF Missing(v) THEN Just(Absent) ELSE r
Taken(v, at, ok) == Optional(v, IF ok THEN Just(Observed(v)) ELSE native_malformed_field(at))

-----------------------------------------------------------------------------
(* Scalars. *)

as_integer(v, low, high) == "int" \in DOMAIN v /\ v.int \in low..high

native_bool_field(v, at) == Taken(v, at, v.t = "bool")
native_i64_field(v, at) == Taken(v, at, as_integer(v, -I64Max - 1, I64Max))
native_u64_field(v, at) == Taken(v, at, as_integer(v, 0, U64Max))
native_u32_field(v, at) == Taken(v, at, as_integer(v, 0, U32Max))
native_string_field(v, at) == Taken(v, at, IsStr(v))
native_ip_field(v, at) == Taken(v, at, Is("ip", v))
optional_string_field(v, at) == Taken(v, at, Filled(v))
optional_string_or_empty_field(v, at) ==
    IF IsEmpty(v) THEN Just(Absent) ELSE native_string_field(v, at)

timestamp_days_in_month(year, month) ==
    CASE month \in {4, 6, 9, 11} -> 30
      [] month = 2 -> IF year % 400 = 0 \/ (year % 4 = 0 /\ year % 100 # 0) THEN 29 ELSE 28
      [] OTHER -> 31

\* A stamp is the text cut at its separators: fraction and zone are options,
\* Z is the zone 00:00.
native_timestamp_is_rfc3339(s) ==
    /\ s.month \in 1..12
    /\ s.day \in 1..timestamp_days_in_month(s.year, s.month)
    /\ s.hour <= 23 /\ s.minute <= 59 /\ s.second <= 60
    /\ \A digits \in s.fraction : digits \in 1..9
    /\ \E z \in s.zone : z.hour <= 23 /\ z.minute <= 59
native_timestamp_field(v, at) ==
    Taken(v, at, Is("stamp", v) /\ native_timestamp_is_rfc3339(v.stamp))

\* A member of an enumeration: a word the reader does not know is unmodelled.
Keyword(v, at, words) ==
    Optional(v, IF ~IsStr(v) THEN native_malformed_field(at)
                ELSE IF OneOf(v, words) THEN Just(Observed(v))
                ELSE native_unmodelled_field(at))
restart_policy_name(v, at) == Keyword(v, at, {"", "no", "always", "on-failure", "unless-stopped"})
log_driver(v, at) == Keyword(v, at, {"journald", "k8s-file"})
decode_native_health_failure_action(v, at) == Keyword(v, at, {"none", "kill", "restart", "stop"})

native_mode_is_syntactically_valid(v) == Filled(v) /\ ~Is("control", v)
Mode(v, at, words) ==
    IF ~IsStr(v) \/ OneOf(v, words) \/ native_mode_is_syntactically_valid(v)
    THEN Keyword(v, at, words) ELSE native_malformed_field(at)
native_namespace_mode(v, at, empty_is_private) ==
    Mode(v, at, {"private", "host"} \cup (IF empty_is_private THEN {""} ELSE {}))
native_ipc_namespace_mode(v, at) == Mode(v, at, {"", "private", "host", "shareable", "none"})

\* Podman's -1 stands for the system default; 5.4 writes null.
decode_memory_swappiness(v, at, api_5_4) ==
    IF v.t = "null" /\ api_5_4
    THEN Result(VersionInapplicable, {Finding("VersionInapplicableField", at)}, <<>>)
    ELSE IF as_integer(v, -1, -1) THEN Just(Absent)
    ELSE Taken(v, at, as_integer(v, 0, 100))

\* A missing owner may mean zero, an explicit null is malformed.
decode_volume_owner(v, at) ==
    IF v.t = "none" THEN Result(Observed(None), {Finding("VolumeOwnerDefaultAmbiguous", at)}, <<>>)
    ELSE IF as_integer(v, 0, U32Max) THEN Just(Observed(v)) ELSE native_malformed_field(at)
volume_anonymous(v, at) ==
    IF v.t = "none" THEN Just(Observed(Bool(FALSE)))
    ELSE IF v.t = "bool" THEN Just(Observed(v)) ELSE native_malformed_field(at)

-----------------------------------------------------------------------------
(* Lists and maps. *)

At(at, i) == Append(at, ToString(i))
Rejects(v, Ok(_)) == {i \in DOMAIN v.items : ~Ok(v.items[i])}

\* The first element that is refused refuses the list ...
First(v, at, Ok(_)) ==
    Optional(v, IF v.t # "array" THEN native_malformed_field(at)
                ELSE IF Rejects(v, Ok) = {} THEN Just(Observed(v))
                ELSE native_malformed_field(At(at, Min(Rejects(v, Ok)))))
native_ip_list(v, at) == First(v, at, LAMBDA x : Is("ip", x))
native_string_list(v, at) == First(v, at, LAMBDA x : Filled(x) /\ ~Is("control", x))
native_network_references(v, at) == First(v, at, Filled)
native_security_options(v, at) == First(v, at, IsStr)

\* ... or every one of them is reported.
Each(v, at, Ok(_), code) ==
    Optional(v, IF v.t # "array" THEN native_malformed_field(at)
                ELSE IF Rejects(v, Ok) = {} THEN Just(Observed(v))
                ELSE Result(Malformed, {Finding(code, At(at, i)) : i \in Rejects(v, Ok)}, <<>>))
image_aliases(v, at) == Each(v, at, Filled, "ResourceMalformed")
decode_environment(v, at) == Each(v, at, LAMBDA x : Is("pair", x), "EnvironmentMalformed")
decode_pod_containers(v, at) == Each(v, at, LAMBDA x : Filled(Get(x, "Id")), "ResourceMalformed")

\* The list as a whole is taken or refused.
All(v, Ok(_)) == v.t = "array" /\ Rejects(v, Ok) = {}
decode_configured_arguments(v, at) ==
    IF Items(v) = <<>> /\ v.t = "array" THEN Just(Absent) ELSE Taken(v, at, All(v, IsStr))
decode_configured_entrypoint(v, at) ==
    IF IsEmpty(v) THEN Just(Absent) ELSE decode_configured_arguments(v, at)
native_unmodelled_string_list(v, at) ==
    Optional(v, IF All(v, IsStr) THEN Just(Unmodelled) ELSE native_malformed_field(at))

string_map(v, at) ==
    Taken(v, at, v.t = "object" /\ \A k \in DOMAIN v.members : IsStr(v.members[k]))
native_opaque_options(v, at) == Taken(v, at, v.t = "object")

native_health_command(v, at) ==
    Optional(v,
        IF ~All(v, IsStr) \/ Items(v) = <<>> THEN native_malformed_field(at)
        ELSE LET kind == v.items[1]
             IN  IF ~OneOf(kind, {"NONE", "CMD", "CMD-SHELL"}) THEN native_unmodelled_field(at)
                 ELSE IF OneOf(kind, {"NONE"}) = (Len(v.items) = 1) THEN Just(Observed(v))
                 ELSE native_malformed_field(at))

\* An element that is no string ends the loop; unknown capabilities before
\* it are recorded all the same.
native_capabilities(v, at) ==
    Optional(v,
        IF v.t # "array" THEN native_malformed_field(at)
        ELSE LET Known(x) == Is("capability", x) /\ x.capability \in NATIVE_CAPABILITIES
                 bad == Rejects(v, IsStr)
                 end == IF bad = {} THEN Len(v.items) ELSE Min(bad) - 1
                 unknown == SelectSeq([i \in 1..end |-> i], LAMBDA i : ~Known(v.items[i]))
                 paths == [k \in DOMAIN unknown |-> At(at, unknown[k])]
             IN  IF bad # {} THEN [native_malformed_field(At(at, Min(bad))) EXCEPT !.unmodelled = paths]
                 ELSE Result(IF unknown = <<>> THEN Observed(v) ELSE Unmodelled, {}, paths))

\* Keys are visited in order and the first refusal ends the reader.
host_ip_accepted(x) == Missing(x) \/ IsEmpty(x) \/ Is("ip", x)
host_port_accepted(x) ==
    Missing(x) \/ IsEmpty(x) \/ (Is("digits", x) /\ x.digits \in 1..PortMax)
PortRefusals(v, key, at) ==
    IF key \notin PortKeys \/ v.t # "array" THEN {at}
    ELSE UNION {LET x == v.items[i]
                IN  IF x.t # "object" THEN {At(at, i)}
                    ELSE IF ~host_ip_accepted(Get(x, "HostIp")) THEN {At(at, i) \o <<"HostIp">>}
                    ELSE IF ~host_port_accepted(Get(x, "HostPort")) THEN {At(at, i) \o <<"HostPort">>}
                    ELSE {} : i \in DOMAIN v.items}
native_port_bindings(v, at) ==
    Optional(v,
        IF v.t # "object" THEN native_malformed_field(at)
        ELSE LET refused == UNION {PortRefusals(v.members[k], k, Append(at, k)) : k \in DOMAIN v.members}
             IN  IF refused = {} THEN Just(Observed(v))
                 ELSE native_malformed_field(CHOOSE p \in refused : TRUE))

-----------------------------------------------------------------------------
(* Objects and lists of objects. *)

\* What the readers of several members return together: rs is a sequence of
\* <<name, result>>.
FindingsOf(rs) == UNION {rs[i][2].findings : i \in DOMAIN rs}
UnmodelledOf(rs) == FlattenSeq([i \in DOMAIN rs |-> rs[i][2].unmodelled])
FieldsOf(rs) == [m \in {rs[i][1] : i \in DOMAIN rs} |->
                    rs[CHOOSE i \in DOMAIN rs : rs[i][1] = m][2].field]
Together(rs) == Result(Observed(FieldsOf(rs)), FindingsOf(rs), UnmodelledOf(rs))
AnyMalformed(rs) == \E i \in DOMAIN rs : rs[i][2].field = Malformed
\* A malformed member makes the whole malformed.
Strictly(rs) ==
    IF AnyMalformed(rs) THEN [Together(rs) EXCEPT !.field = Malformed] ELSE Together(rs)

\* A list of objects, each read by Entry: one malformed entry makes the list
\* malformed and the others are still read.
Entries(v, at, Entry(_, _)) ==
    Optional(v,
        IF v.t # "array" THEN native_malformed_field(at)
        ELSE Strictly([i \in DOMAIN v.items |->
                 <<ToString(i), IF v.items[i].t = "object" THEN Entry(v.items[i], At(at, i))
                                ELSE native_malformed_field(At(at, i))>>]))

=============================================================================
