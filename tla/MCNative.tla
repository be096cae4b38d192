------------------------------ MODULE MCNative ------------------------------
(***************************************************************************)
(* Inspect responses for NativeFields: for every kind of resource a        *)
(* response with every member, with one member at a time replaced by each  *)
(* of the samples, removed from its company, or joined by a stranger;      *)
(* pairs of deviations where one member decides how others are read; and   *)
(* networks with every small subnet and route.                             *)
(***************************************************************************)
EXTENDS NativeFields

MCWidth == (4 :> 3) @@ (6 :> 4)
MCCap == [f \in {"arguments", "items", "aliases"} |-> 2]
MCCapabilities == {"KILL"}
MCPortKeys == {"80/tcp", "53/udp"}

A4(n) == [family |-> 4, bits |-> n]
A6(n) == [family |-> 6, bits |-> n]
Ip(a) == Spells("ip", a)
Cidr(a, prefix) == Spells("cidr", [family |-> a.family, bits |-> a.bits, prefix |-> prefix])
Date(year, month, day, fraction, zone) ==
    Spells("stamp", [year |-> year, month |-> month, day |-> day, hour |-> 23, minute |-> 59,
                     second |-> 60, fraction |-> fraction, zone |-> zone])
Zulu == {[hour |-> 0, minute |-> 0]}
Capability(name) == Spells("capability", name)
Entry(name) == Spells("pair", name)
Digits(n) == Spells("digits", n)
Tokens(words) == Spells("mode", words)
NoMembers == [k \in {} |-> None]
Word == Str("word")
Map == Obj([k |-> Word])

Samples ==
    {Null, Bool(TRUE), Integer(-1), Integer(2), Integer(150), Integer(250), Integer(1500),
     Integer(2500), Integer(-1001), Fraction, Str(""), Word, Control, Ip(A4(1)),
     Date(2024, 2, 29, {9}, Zulu), Date(2023, 2, 29, {}, Zulu), Date(2000, 2, 29, {10}, Zulu),
     Date(1900, 2, 28, {}, {}), Date(2024, 4, 31, {}, Zulu), Date(2024, 12, 31, {}, {[hour |-> 24, minute |-> 0]}),
     Arr(<<>>), Arr(<<Word>>), Arr(<<Word, Integer(2)>>), Arr(<<Str("NONE")>>), Arr(<<Str("CMD")>>),
     Arr(<<Capability("KILL"), Capability("NEW"), Integer(2)>>),
     Obj(NoMembers), Map, Obj([k |-> Integer(2)]),
     Obj("80/tcp" :> Arr(<<Obj([HostIp |-> Str(""), HostPort |-> Digits(0)])>>)),
     Obj("80/tcp" :> Arr(<<Obj([HostIp |-> Word])>>)), Obj("word" :> Arr(<<>>))}

Ports == Obj("80/tcp" :> Arr(<<Obj([HostIp |-> Ip(A4(1)), HostPort |-> Digits(80)]), Obj([HostPort |-> Str("")])>>))
Health == [Test |-> Arr(<<Str("CMD"), Word>>), Interval |-> Integer(2), Timeout |-> Integer(2),
           Retries |-> Integer(2), StartPeriod |-> Integer(-1)]
FullContainer ==
    Obj([Id |-> Str("id"), Name |-> Word, IsInfra |-> Bool(FALSE), State |-> Map, Extra |-> Map,
         Config |-> Obj([Labels |-> Map, Env |-> Arr(<<Entry("A")>>), Cmd |-> Arr(<<Word>>),
             Entrypoint |-> Arr(<<Word>>), User |-> Word, WorkingDir |-> Word, Hostname |-> Word,
             Healthcheck |-> Obj(Health), HealthcheckOnFailureAction |-> Str("kill"),
             StartupHealthCheck |-> Obj(Health @@ [Successes |-> Integer(2)]),
             Secrets |-> Arr(<<Obj([ID |-> Word, Name |-> Word, Mode |-> Integer(2)])>>)]),
         NetworkSettings |-> Obj([Networks |-> Obj([net |-> Obj([Aliases |-> Arr(<<Word>>)])])]),
         Mounts |-> Arr(<<Obj([Type |-> Str("bind"), RW |-> Bool(FALSE), Mode |-> Tokens({"ro", "Z"})])>>),
         HostConfig |-> Obj([MemorySwappiness |-> Integer(100), CreateNetNS |-> Bool(TRUE),
             PortBindings |-> Ports, Dns |-> Arr(<<Ip(A4(1)), Ip(A6(2))>>), DnsSearch |-> Arr(<<Word>>),
             DnsOptions |-> Arr(<<Word>>), ExtraHosts |-> Arr(<<Word>>), NoManageResolvConf |-> Bool(FALSE),
             NoManageHosts |-> Bool(FALSE),
             RestartPolicy |-> Obj([Name |-> Str("always"), MaximumRetryCount |-> Integer(2)]),
             LogConfig |-> Obj([Type |-> Str("journald"), Size |-> Word]),
             Privileged |-> Bool(FALSE), CapAdd |-> Arr(<<Capability("KILL")>>), CapDrop |-> Null,
             SecurityOpt |-> Arr(<<Word>>), ReadonlyRootfs |-> Bool(TRUE), PidMode |-> Str("host"),
             IpcMode |-> Str("shareable"), UTSMode |-> Str(""), CgroupMode |-> Str("private"),
             CpuShares |-> Integer(2), CpuPeriod |-> Integer(2), CpuQuota |-> Integer(-1), Memory |-> Integer(2),
             PidsLimit |-> Integer(2),
             Ulimits |-> Arr(<<Obj([Name |-> Word, Soft |-> Integer(1), Hard |-> Integer(2)])>>)])])
FullPod ==
    Obj([Id |-> Str("id"), Name |-> Word, Labels |-> Map, Containers |-> Arr(<<Obj([Id |-> Word])>>),
         CreateInfra |-> Bool(TRUE),
         InfraConfig |-> Obj([PortBindings |-> Ports, HostNetwork |-> Bool(FALSE),
             NoManageResolvConf |-> Bool(FALSE), NoManageHosts |-> Bool(FALSE), DNSServer |-> Arr(<<Ip(A4(1))>>),
             DNSSearch |-> Arr(<<Word>>), DNSOption |-> Arr(<<Word>>), HostAdd |-> Arr(<<Word>>),
             Networks |-> Arr(<<Word>>), NetworkOptions |-> Obj([k |-> Arr(<<Word>>)]),
             StaticIP |-> Ip(A4(1)), StaticMAC |-> Null])])
FullNetwork ==
    Obj([id |-> Str("id"), name |-> Word, labels |-> Map, internal |-> Bool(TRUE), options |-> Map,
         created |-> Word, driver |-> Word,
         subnets |-> Arr(<<Obj([subnet |-> Cidr(A4(4), 1), gateway |-> Ip(A4(5)),
                                lease_range |-> Obj([start_ip |-> Ip(A4(4)), end_ip |-> Ip(A4(6))])])>>),
         routes |-> Arr(<<Obj([destination |-> Cidr(A4(0), 0), gateway |-> Ip(A4(1)), metric |-> Integer(2),
                               route_type |-> Str("unicast")])>>)])
FullVolume ==
    Obj([Name |-> Str("id"), Labels |-> Map, UID |-> Integer(2), GID |-> Integer(0), Driver |-> Word,
         CreatedAt |-> Date(2024, 2, 29, {9}, Zulu), Anonymous |-> Bool(TRUE), Mountpoint |-> Word, Options |-> Map])
FullImage ==
    Obj([Id |-> Str("id"), Labels |-> Map, Config |-> Obj([Env |-> Arr(<<Entry("A")>>), Cmd |-> Arr(<<Word>>)]),
         RepoTags |-> Arr(<<Word, Word>>), RepoDigests |-> Arr(<<Word>>), Digest |-> Word,
         Created |-> Date(2024, 2, 29, {9}, Zulu), Author |-> Word, Architecture |-> Word, Os |-> Word,
         ManifestType |-> Word, Size |-> Integer(2)])
FullSecret ==
    Obj([ID |-> Str("id"), CreatedAt |-> Date(2024, 2, 29, {9}, Zulu), UpdatedAt |-> Null, SecretData |-> Word,
         Spec |-> Obj([Name |-> Word, Labels |-> Map,
                       Driver |-> Obj([Name |-> Word, Options |-> Map, Extra |-> Word])])])

\* The positions and names below a value, and the value with one of them put in.
Steps(v) == IF v.t = "object" THEN DOMAIN v.members ELSE {}
RECURSIVE Put(_, _, _)
Put(v, path, x) ==
    IF path = <<>> THEN x
    ELSE IF v.t = "array" THEN Arr(<<Put(v.items[1], Tail(path), x)>> \o Tail(v.items))
    ELSE LET old == IF v.t = "object" THEN v.members ELSE NoMembers
             inner == IF Head(path) \in DOMAIN old THEN old[Head(path)] ELSE None
         IN  Obj((Head(path) :> Put(inner, Tail(path), x)) @@ old)
RECURSIVE Paths(_, _)
Paths(v, at) ==
    {at} \cup UNION {Paths(v.members[k], Append(at, k)) : k \in Steps(v)}
         \cup (IF Items(v) = <<>> THEN {} ELSE Paths(v.items[1], Append(at, "1")))
Bare(full) == Obj([k \in {"Id", "id", "ID", "Spec"} \cap DOMAIN full.members |-> full.members[k]]
                  @@ (IF "Mountpoint" \in DOMAIN full.members THEN "Name" :> Str("id") ELSE NoMembers))

\* One member replaced in full company and alone, or a stranger in an object.
Below(v, k) == IF v.t = "array" THEN v.items[1] ELSE Get(v, k)
Objects(full) == {p \in Paths(full, <<>>) : FoldLeft(Below, full, p).t = "object"}
Variants(full) ==
    {Put(full, p, x) : p \in Paths(full, <<>>), x \in Samples}
    \cup {Put(Bare(full), p, x) : p \in {q \in Paths(full, <<>>) : Len(q) \in 1..2}, x \in {Word, Integer(2), Map}}
    \cup {Put(full, Append(p, "Stranger"), Map) : p \in Objects(full)}
    \cup {full, Bare(full)}

\* Members that decide how others are read, with one of the others malformed.
Pairs(full, deciders, others) ==
    {Put(Put(full, d, x), o, y) :
        d \in deciders, x \in {Bool(TRUE), Bool(FALSE), Null, Word},
        o \in others, y \in {Null, Word, Map, Arr(<<Integer(2)>>)}}
ContainerPairs ==
    Pairs(FullContainer, {<<"Pod">>, <<"HostConfig", "NoManageResolvConf">>, <<"HostConfig", "NoManageHosts">>},
          HostPaths \cup {<<"HostConfig">>, <<"Config">>})
\* A mount whose mode says what the other members say, or something else.
MountModes ==
    {Put(FullContainer, <<"Mounts">>,
         Arr(<<Obj([RW |-> rw, Propagation |-> p, Options |-> options, Mode |-> Tokens(tokens)])>>)) :
        rw \in {Bool(TRUE), Bool(FALSE), Null}, p \in {Null, Str("shared")},
        options \in {Null, Arr(<<Str("ro"), Str("exec")>>)},
        tokens \in {{}, {"ro", "z"}, {"rw"}, {"shared"}, {"rw", "exec"}, {"shared", "dev"}}}
PodPairs ==
    Pairs(FullPod, {<<"CreateInfra">>, <<"InfraConfig", "NoManageResolvConf">>, <<"InfraConfig", "NoManageHosts">>},
          {<<"InfraConfig">>} \cup {<<"InfraConfig", k>> : k \in {"DNSServer", "DNSSearch", "HostAdd", "Networks", "StaticMAC"}})

\* Every small network.
Addresses == {Null, Ip(A4(1)), Ip(A4(5)), Ip(A6(9))}
Subnets ==
    {Obj([subnet |-> c, gateway |-> g, lease_range |-> r]) :
        c \in {Cidr(A4(0), 0), Cidr(A4(5), 1), Cidr(A4(5), 3), Cidr(A4(5), 4), Cidr(A6(8), 1), Cidr(A6(9), 4)},
        g \in Addresses,
        r \in {Null, Obj([start_ip |-> Ip(A4(5)), end_ip |-> Ip(A4(7))]), Obj([start_ip |-> Ip(A4(7)), end_ip |-> Ip(A4(5))]),
               Obj([start_ip |-> Ip(A4(2)), end_ip |-> Ip(A4(5))]), Obj([start_ip |-> Ip(A6(8)), end_ip |-> Ip(A6(15))]),
               Obj([start_ip |-> Ip(A4(5))]), Obj([end_ip |-> Ip(A4(1)), zone |-> Word])}}
Routes ==
    {Obj([destination |-> c, gateway |-> g, route_type |-> t]) :
        c \in {Cidr(A4(0), 0), Cidr(A4(5), 4), Cidr(A6(8), 1)}, g \in Addresses,
        t \in {Null, Str("unicast"), Str("blackhole"), Str("prohibit"), Word, Integer(2)}}
Network(members) == Obj([id |-> Str("id")] @@ members)
SmallNetworks ==
    {Network([subnets |-> Arr(<<s>>)]) : s \in Subnets}
    \cup {Network([subnets |-> Arr(<<Obj([subnet |-> Cidr(A4(0), 0)]), s>>)]) : s \in Subnets}
    \cup {Network([routes |-> Arr(<<r>>)]) : r \in Routes}
    \cup {Network([routes |-> Arr(<<Obj([destination |-> Cidr(A6(0), 0), gateway |-> Ip(A6(1))]), r>>)]) : r \in Routes}

\* CNI documents of API 3: an object or an array of one, two plugins.
Plugin(type, subnet, route) ==
    Obj([type |-> type, ipam |-> Obj([ranges |-> Arr(<<Arr(<<subnet>>), Word>>), routes |-> Arr(<<route>>)])])
Cni(plugins) == Obj([cniVersion |-> Word, name |-> Str("id"), plugins |-> plugins])
LegacyNetworks ==
    LET documents ==
        {Cni(Arr(<<Plugin(Str("bridge"), s, r), Plugin(t, s, r)>>)) : t \in {Str("bridge"), Word},
            s \in {Word, Obj([subnet |-> Cidr(A4(4), 1), gateway |-> Ip(A4(5))]),
                   Obj([subnet |-> Cidr(A4(4), 1), gateway |-> Ip(A4(1))]), Obj([subnet |-> Integer(2)])},
            r \in {Obj([dst |-> Cidr(A4(0), 0)]), Obj([dst |-> Cidr(A4(0), 0), gw |-> Ip(A4(1))]),
                   Obj([dst |-> Cidr(A4(0), 0), gw |-> Ip(A6(1))])}}
        \cup {Cni(Null), Put(Cni(Null), <<"name">>, Str(""))}
    IN  documents \cup {Arr(<<d>>) : d \in documents} \cup {Arr(<<>>), Arr(<<Word>>), FullNetwork, Word}

Respond(kinds, bodies, engines, limits) ==
    {[kind |-> kinds, engine |-> e, api_5_4 |-> FALSE, limit |-> n, body |-> b] :
        b \in bodies, e \in engines, n \in limits}
MCResponses ==
    Respond("container", UNION {Variants(FullContainer), ContainerPairs, MountModes}, {"v5"}, {2, 50})
    \cup {[r EXCEPT !.api_5_4 = TRUE] :
             r \in Respond("container", {Put(FullContainer, <<"HostConfig", "MemorySwappiness">>, x) : x \in Samples}, {"v5"}, {50})}
    \cup Respond("pod", Variants(FullPod) \cup PodPairs, {"v5", "v6", "unparsed"}, {1, 50})
    \cup Respond("network", Variants(FullNetwork) \cup SmallNetworks, {"v5", "v6"}, {0, 50})
    \cup Respond("network", LegacyNetworks, {"v3", "v5"}, {0, 50})
    \cup Respond("volume", Variants(FullVolume), {"v5"}, {0, 50})
    \cup Respond("image", Variants(FullImage), {"v5"}, {0, 50})
    \cup Respond("secret", Variants(FullSecret), {"v5"}, {0, 50})
=============================================================================
