------------------------------- MODULE Values -------------------------------
(***************************************************************************)
(* The validating constructors of declared values (src/src/settings.rs,    *)
(* runtime.rs, networking.rs and deployment.rs): what a value that reached *)
(* an intent is known to satisfy.                                          *)
(*                                                                         *)
(* A text is [id, traits]: traits holds what a constructor or a reader of  *)
(* the text can tell apart: "empty", "overlong", "control", "colon",       *)
(* "comma", "equals", "symbol" (any other byte outside letters, digits,    *)
(* '.', '_', '-', '/'), "relative" (not an absolute normalised path) and   *)
(* "root" (the path of one slash).                                         *)
(* An Option is a set of at most one element.                              *)
(***************************************************************************)
EXTENDS Integers, Sequences, FiniteSets

CONSTANTS
    Width,      \* bits of an address, by family: u32 for 4, u128 for 6
    I32Max,     \* i32::MAX
    I64Max,     \* i64::MAX
    Cap         \* MAX_ARGUMENTS, MAX_LABELS and the other list bounds, by list

ASSUME WidthAssumption == /\ DOMAIN Width = {4, 6}
                          /\ \A f \in {4, 6} : Width[f] \in Nat \ {0}

The(option) == CHOOSE v \in option : TRUE
Free(t, refused) == t.traits \cap refused = {}

-----------------------------------------------------------------------------
(* Texts. *)

validate_identifier(t) == Free(t, {"empty", "overlong", "control"})
ArgumentArray(a) ==
    /\ a # <<>> /\ Len(a) <= Cap["arguments"]
    /\ \A i \in DOMAIN a : Free(a[i], {"overlong", "control"})
ContainerUser(t) == Free(t, {"empty", "overlong", "control", "comma", "equals", "symbol"})
is_absolute_normalized_path(t) == Free(t, {"empty", "overlong", "control", "relative"})
VolumeSubpath(t) == Free(t, {"empty", "overlong", "control", "relative", "root"})
ContainerHostname(t) ==
    Free(t, {"empty", "overlong", "control", "colon", "comma", "equals", "symbol"})
LabelKey(t) == Free(t, {"empty", "overlong", "control", "equals"})
valid_value(t) == Free(t, {"overlong", "control"})
EnvironmentName(t) ==
    Free(t, {"empty", "overlong", "control", "colon", "comma", "equals", "symbol"})
PublicHealthCommand(t) == Free(t, {"empty", "overlong", "control"})
validate_arguments(a) ==
    /\ a # <<>> /\ Len(a) <= Cap["items"]
    /\ Free(a[1], {"empty"})
    /\ \A i \in DOMAIN a : Free(a[i], {"overlong", "control"})
alias_accepted(t) == Free(t, {"empty", "overlong", "control", "comma", "colon", "equals"})
dns_text_accepted(t) == Free(t, {"empty", "overlong", "control"})
is_hostname(t) ==
    Free(t, {"empty", "overlong", "control", "colon", "comma", "equals", "symbol"})

\* classify_image_source on a spelling [bad, id, registry, components, tag,
\* digest]: bad is the first guard, id a bare image ID, the parts are "none",
\* "localhost", "valid" or "invalid".  {} is a refused spelling.
classify_image_source(s) ==
    CASE s.bad -> {}
      [] ~s.bad /\ s.id -> {"Local"}
      [] OTHER ->
           IF \/ "invalid" \in {s.registry, s.components, s.tag, s.digest}
              \/ s.digest = "valid" /\ s.tag = "valid"
           THEN {}
           ELSE CASE s.registry = "localhost" -> {"Local"}
                  [] s.registry = "none" -> {"Unqualified"}
                  [] OTHER -> IF "valid" \in {s.tag, s.digest} THEN {"Portable"} ELSE {"Tagless"}

-----------------------------------------------------------------------------
(* Numbers. *)

UnixId(n) == n <= I32Max
SecretMode(n) == n <= 511
HealthDuration(n) == n \in 1..I64Max
HealthTimeout(n) == n >= 1000000000 /\ HealthDuration(n)
HealthRetries(n) == n \in 1..I32Max
StartupHealthRetries(n) == n <= I32Max
StartupHealthSuccesses(n) == n <= I32Max
HealthStartPeriod(n) == n <= I64Max
LogSize(n) == n \in 1..I64Max
signed_positive(n) == n \in 1..I64Max

\* A limit value is [unlimited, value].
Rlimit(r) ==
    /\ ~(r.soft.unlimited /\ ~r.hard.unlimited)
    /\ ~(~r.soft.unlimited /\ ~r.hard.unlimited /\ r.soft.value > r.hard.value)

-----------------------------------------------------------------------------
(* Addresses: [family, bits].  A CIDR is [family, bits, prefix].            *)

\* Shifting a word of w bits by n: the build without overflow checks masks
\* the shift amount, so a shift by w shifts by nothing.
Shl(x, n, w) == (x * 2^(n % w)) % 2^w

Mask(prefix, w) == IF prefix = 0 THEN 0 ELSE Shl(2^w - 1, w - prefix, w)

\* address & mask, for a mask of leading ones
masked_address(a, prefix) ==
    LET w == Width[a.family]
    IN  [family |-> a.family, bits |-> a.bits - (a.bits % (2^w - Mask(prefix, w)))]

NetworkCidr(a, prefix) ==
    IF prefix > Width[a.family] THEN {}
    ELSE {[family |-> a.family, bits |-> masked_address(a, prefix).bits, prefix |-> prefix]}

has_address_family(cidr, a) == cidr.family = a.family
contains(cidr, a) ==
    /\ cidr.family = a.family
    /\ cidr.bits = masked_address(a, cidr.prefix).bits

address_precedes_or_equals(a, b) == a.family = b.family /\ a.bits <= b.bits

-----------------------------------------------------------------------------
(* Networking values. *)

NetworkAttachment(n) ==
    /\ Len(n.aliases) <= Cap["aliases"]
    /\ \A i \in DOMAIN n.aliases : alias_accepted(n.aliases[i])
    /\ \A i, j \in DOMAIN n.aliases : n.aliases[i] = n.aliases[j] => i = j
    /\ \A a \in n.static_ipv4 : a.family = 4
    /\ \A a \in n.static_ipv6 : a.family = 6
PortMapping(p) == p.host_port # 0 /\ p.container_port # 0
HostAlias(h) == is_hostname(h.hostname)

\* set_gateway and set_range
NetworkSubnet(s) ==
    /\ \A g \in s.gateway : contains(s.subnet, g)
    /\ \A r \in s.range : /\ contains(s.subnet, r[1]) /\ contains(s.subnet, r[2])
                          /\ address_precedes_or_equals(r[1], r[2])
NetworkRoute(r) ==
    IF r.route_type = "unicast"
    THEN \E g \in r.gateway : has_address_family(r.destination, g)
    ELSE r.gateway = {}

-----------------------------------------------------------------------------
(* Mounts and secret grants. *)

MountIntent(m) ==
    /\ is_absolute_normalized_path(m.destination)
    /\ m.type = "bind" => is_absolute_normalized_path(m.path)
    /\ m.subpath # {} => /\ m.type = "volume" /\ m.copy = "copy"
                         /\ VolumeSubpath(The(m.subpath))
SecretGrant(g) ==
    /\ g.type = "env" => EnvironmentName(The(g.target)) /\ g.uid \cup g.gid \cup g.mode = {}
    /\ g.type = "mount" => \A t \in g.target : is_absolute_normalized_path(t)
    /\ \A u \in g.uid \cup g.gid : UnixId(u)
    /\ \A m \in g.mode : SecretMode(m)

\* A health command is [class, form, text, arguments]; a check has options
\* for its fields, an interval is [disabled, ns].
HealthCommand(h) ==
    CASE h.class = "external" -> TRUE
      [] h.class # "external" /\ h.form = "shell" -> PublicHealthCommand(h.text)
      [] OTHER -> validate_arguments(h.arguments)
HealthInterval(i) == ~i.disabled => HealthDuration(i.ns)
ConfiguredHealthCheck(h) ==
    h.disabled \/ /\ HealthCommand(h.command)
                  /\ \A i \in h.interval : HealthInterval(i)
                  /\ \A t \in h.timeout : HealthTimeout(t)
                  /\ \A r \in h.retries : HealthRetries(r)
                  /\ \A p \in h.start_period : HealthStartPeriod(p)
StartupHealthCheck(h) ==
    /\ HealthCommand(h.command)
    /\ \A i \in h.interval : HealthInterval(i)
    /\ \A t \in h.timeout : HealthTimeout(t)
    /\ \A r \in h.retries : StartupHealthRetries(r)
    /\ \A s \in h.successes : StartupHealthSuccesses(s)

=============================================================================
