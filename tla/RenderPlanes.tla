---------------------------- MODULE RenderPlanes ----------------------------
(***************************************************************************)
(* The two renderings of one operation (src/src/render.rs): a Podman       *)
(* command line and a Libpod request body.                                 *)
(*                                                                         *)
(* A command line is a sequence of <<flag, value>>, with the flag "" for a *)
(* positional argument; a value that the code joins from parts with        *)
(* separators is the sequence or record of its parts.  A body is a         *)
(* function from member names.                                             *)
(***************************************************************************)
EXTENDS RenderGates, SequencesExt

\* Two bodies in one, and the body of one member.
f ++ g == [m \in DOMAIN f \cup DOMAIN g |-> IF m \in DOMAIN f THEN f[m] ELSE g[m]]
One(member, v) == [m \in {member} |-> v]

\* What a body or a command line gains from an option, or from a list.
Insert(member, option) == IF option = {} THEN <<>> ELSE One(member, The(option))
InsertArray(member, s) == IF s = <<>> THEN <<>> ELSE One(member, s)
Arg(flag, option) == IF option = {} THEN <<>> ELSE <<<<flag, The(option)>>>>
Args(flag, s) == [i \in DOMAIN s |-> <<flag, s[i]>>]
Mapped(s, op(_)) == [i \in DOMAIN s |-> op(s[i])]
Select(option, op(_)) == {op(v) : v \in option}
Object(s, key(_), value(_)) ==
    [k \in {key(e) : e \in Elements(s)} |-> value(CHOOSE e \in Elements(s) : key(e) = k)]

-----------------------------------------------------------------------------
(* Networks, ports, DNS and hosts. *)

\* The attachments in the explicit order; {} when one of them is not attached.
ordered_network_attachments(networks, order) ==
    IF order = {} THEN {networks}
    ELSE LET ids == The(order)
             at(id) == {i \in DOMAIN networks : networks[i].network = id}
         IN  IF \E i \in DOMAIN ids : at(ids[i]) = {} THEN {}
             ELSE {[i \in DOMAIN ids |-> networks[CHOOSE j \in at(ids[i]) : TRUE]]}

network_attachment_cli_value(n) ==
    [name |-> NameOf[n.network],
     options |-> Mapped(n.aliases, LAMBDA a : <<"alias", a>>)
                 \o Arg("ip", n.static_ipv4) \o Arg("ip6", n.static_ipv6) \o Arg("mac", n.static_mac)]

\* {} is the refusal networks.cli_ambiguous
append_network_arguments(networks, order) ==
    LET attachments == ordered_network_attachments(networks, order)
    IN  IF \/ attachments = {}
           \/ \E n \in Elements(The(attachments)) : ~Free(NameOf[n.network], {"colon", "comma"})
        THEN {}
        ELSE {Args("--network", Mapped(The(attachments), network_attachment_cli_value))}

network_configuration(networks) ==
    [name \in {NameOf[n.network] : n \in Elements(networks)} |->
        LET n == CHOOSE n \in Elements(networks) : NameOf[n.network] = name
        IN  InsertArray("aliases", n.aliases)
            ++ InsertArray("static_ips", SetToSeq(n.static_ipv4) \o SetToSeq(n.static_ipv6))
            ++ Insert("static_mac", n.static_mac)]

port_mapping_cli_value(p) == [bracketed |-> \E a \in p.host_ip : a.family = 6] ++ p
append_port_arguments(ports) == Args("--publish", Mapped(ports, port_mapping_cli_value))
append_dns_arguments(c) ==
    Args("--dns", c.list["dns_servers"]) \o Args("--dns-search", c.list["dns_search"])
    \o Args("--dns-option", c.list["dns_options"])

\* The hostname and the address, joined by a colon.
host_alias_value(h) == <<h.hostname, h.address>>
append_host_alias_arguments(hosts) == Args("--add-host", Mapped(hosts, host_alias_value))

append_networking_json(c, order) ==
    InsertArray("portmappings", Mapped(c.list["ports"], LAMBDA p : [range |-> 1] ++ p))
    ++ InsertArray("dns_server", c.list["dns_servers"])
    ++ InsertArray("dns_search", c.list["dns_search"])
    ++ InsertArray("dns_option", c.list["dns_options"])
    ++ InsertArray("hostadd", Mapped(c.list["hosts"], host_alias_value))
    ++ Insert("networkOrder", Select(order, LAMBDA ids : Mapped(ids, LAMBDA id : NameOf[id])))

-----------------------------------------------------------------------------
(* Networks to create. *)

\* The subnets that give a field, in their order.
Given(subnets, field) ==
    LET at == {i \in DOMAIN subnets : subnets[i][field] # {}}
    IN  [k \in 1..Cardinality(at) |-> subnets[CHOOSE i \in at : Cardinality({j \in at : j < i}) = k - 1]]

network_route_cli_value(r) ==
    [destination |-> r.destination,
     next_hop |-> IF r.route_type = "unicast" THEN <<"address", The(r.gateway)>> ELSE <<"word", r.route_type>>,
     metric |-> r.metric]
append_network_create_arguments(n) ==
    LET subnets == n.list["subnets"]
    IN  Args("--subnet", Mapped(subnets, LAMBDA s : s.subnet))
        \o Args("--gateway", Mapped(Given(subnets, "gateway"), LAMBDA s : The(s.gateway)))
        \o Args("--ip-range", Mapped(Given(subnets, "range"), LAMBDA s : The(s.range)))
        \o Args("--route", Mapped(n.list["routes"], network_route_cli_value))

network_create_configuration(n, typed) ==
    Insert("name", {NameOf[n.id]})
    ++ InsertArray("subnets", Mapped(n.list["subnets"], LAMBDA s :
         One("subnet", s.subnet) ++ Insert("gateway", s.gateway) ++ Insert("lease_range", s.range)))
    ++ InsertArray("routes", Mapped(n.list["routes"], LAMBDA r :
         One("destination", r.destination) ++ Insert("gateway", r.gateway) ++ Insert("metric", r.metric)
         ++ Insert("route_type", IF typed THEN {r.route_type} ELSE {})))

-----------------------------------------------------------------------------
(* Volumes, mounts and secret grants. *)

volume_create_cli_arguments(v) == Arg("--uid", v.opt["uid"]) \o Arg("--gid", v.opt["gid"])
volume_create_json(v) ==
    Insert("Name", {NameOf[v.id]}) ++ Insert("UID", v.opt["uid"]) ++ Insert("GID", v.opt["gid"])

mount_source(m) == IF m.type = "volume" THEN {NameOf[m.source]}
                   ELSE IF m.type = "bind" THEN {m.path} ELSE {}
read_only(m) == m.access = "ro"

mount_cli_value(m) ==
    Arg("type", {m.type}) \o Arg("source", mount_source(m)) \o Arg("target", {m.destination})
    \o (IF read_only(m) THEN <<<<"readonly", TRUE>>>> ELSE <<>>) \o Arg("subpath", m.subpath)

\* {} is the refusal mounts.cli_ambiguous
append_mount_arguments(mounts) ==
    LET one(m) == IF m.type = "volume" /\ m.subpath = {}
                  THEN <<"--volume", <<NameOf[m.source], m.destination, <<m.access, m.copy>>>>>>
                  ELSE <<"--mount", mount_cli_value(m)>>
    IN  IF \E m \in Elements(mounts) :
              \E t \in mount_source(m) \cup {m.destination} \cup m.subpath : ~cli_safe_mount_component(t)
        THEN {} ELSE {Mapped(mounts, one)}

mount_json(mounts) ==
    Mapped(SelectSeq(mounts, LAMBDA m : m.type = "volume"), LAMBDA m :
        [Name |-> NameOf[m.source], Dest |-> m.destination, SubPath |-> m.subpath,
         Options |-> IF m.subpath = {} THEN <<m.access, m.copy>>
                     ELSE IF read_only(m) THEN <<"ro">> ELSE <<>>])
native_mount_json(mounts) ==
    Mapped(SelectSeq(mounts, LAMBDA m : m.type # "volume"), LAMBDA m :
        [destination |-> m.destination, type |-> m.type,
         source |-> IF m.type = "bind" THEN <<"path", m.path>> ELSE <<"word", "tmpfs">>,
         options |-> IF read_only(m) THEN <<"ro">> ELSE <<"rw">>])

\* {:o}
octal(n) == <<(n \div 64) % 8, (n \div 8) % 8, n % 8>>

append_secret_grants_arguments(grants) ==
    IF secret_grants_renderable(grants)
    THEN {Args("--secret", Mapped(grants, LAMBDA g :
            <<<<"source", NameOf[g.source]>>, <<"type", g.type>>>> \o Arg("target", g.target)
            \o Arg("uid", g.uid) \o Arg("gid", g.gid) \o Arg("mode", Select(g.mode, octal))))}
    ELSE {}

secret_mode_json(g) == One("Mode", IF g.mode = {} THEN 292 ELSE The(g.mode))   \* 0o444
append_secret_grants_json(grants) ==
    LET mounts == SelectSeq(grants, LAMBDA g : g.type = "mount")
        exported == SelectSeq(grants, LAMBDA g : g.type = "env")
        last(t) == CHOOSE i \in DOMAIN exported :
                     /\ exported[i].target = {t}
                     /\ \A j \in DOMAIN exported : exported[j].target = {t} => j <= i
    IN  InsertArray("secrets", Mapped(mounts, LAMBDA g :
            One("Source", NameOf[g.source]) ++ Insert("Target", g.target) ++ Insert("UID", g.uid)
            ++ Insert("GID", g.gid) ++ secret_mode_json(g)))
        ++ Insert("secret_env",
             IF exported = <<>> THEN {}
             ELSE {[t \in UNION {g.target : g \in Elements(exported)} |-> NameOf[exported[last(t)].source]]})
=============================================================================
