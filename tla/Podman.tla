------------------------------- MODULE Podman -------------------------------
(***************************************************************************)
(* What Podman makes of a rendered command line and of a rendered Libpod   *)
(* body: an external reader, in the renderer's own account of Podman       *)
(* (src/src/render.rs, its comments, and the flags, members and shapes of  *)
(* its evidence catalogue).  Meaning is what the declared intent asks for. *)
(*                                                                         *)
(* A reader splits a joined value at its separators, so a part that        *)
(* contains one is not read back; lists that Podman keys by a name are     *)
(* read as sets.                                                           *)
(***************************************************************************)
EXTENDS RenderRuntime

Garbled == [garbled |-> TRUE]
Whole(parts, separators, v) == IF \A t \in parts : Free(t, separators) THEN v ELSE Garbled

Values(argv, flag) ==
    LET given == SelectSeq(argv, LAMBDA a : a[1] = flag)
    IN  [i \in DOMAIN given |-> given[i][2]]
Last1(argv, flag) == LET v == Values(argv, flag) IN IF v = <<>> THEN {} ELSE {v[Len(v)]}
Option(pairs, key) == {p[2] : p \in {q \in Elements(pairs) : q[1] = key}}
Member(o, name) == IF name \in DOMAIN o THEN {o[name]} ELSE {}
At(o, path) == FoldLeft(LAMBDA at, name : UNION {Member(v, name) : v \in at}, {o}, path)
Array(o, name) == IF name \in DOMAIN o THEN o[name] ELSE <<>>

-----------------------------------------------------------------------------
(* Fields set once: the flag and the body member of each. *)

CliOnce ==
    [entrypoint |-> "--entrypoint", user |-> "--user", workdir |-> "--workdir",
     hostname |-> "--hostname", restart_policy |-> "--restart", driver |-> "--log-driver",
     privileged |-> "--privileged", read_only_filesystem |-> "--read-only",
     read_write_tmpfs |-> "--read-only-tmpfs", pid |-> "--pid", ipc |-> "--ipc", uts |-> "--uts",
     cgroup |-> "--cgroupns", cpu_shares |-> "--cpu-shares", cpu_period |-> "--cpu-period",
     cpu_quota |-> "--cpu-quota", memory_bytes |-> "--memory", pids |-> "--pids-limit"]
BodyOnce ==
    [entrypoint |-> <<"entrypoint">>, user |-> <<"user">>, workdir |-> <<"work_dir">>,
     hostname |-> <<"hostname">>, restart_policy |-> <<"restart_policy">>,
     driver |-> <<"log_configuration", "driver">>, privileged |-> <<"privileged">>,
     read_only_filesystem |-> <<"read_only_filesystem">>, read_write_tmpfs |-> <<"read_write_tmpfs">>,
     pid |-> <<"pidns", "nsmode">>, ipc |-> <<"ipcns", "nsmode">>, uts |-> <<"utsns", "nsmode">>,
     cgroup |-> <<"cgroupns", "nsmode">>, cpu_shares |-> <<"resource_limits", "cpu", "shares">>,
     cpu_period |-> <<"resource_limits", "cpu", "period">>,
     cpu_quota |-> <<"resource_limits", "cpu", "quota">>,
     memory_bytes |-> <<"resource_limits", "memory", "limit">>,
     pids |-> <<"resource_limits", "pids", "limit">>]

-----------------------------------------------------------------------------
(* Networking. *)

NetworkFromCli(v) ==
    Whole({v.name}, {"colon", "comma"}, Whole(Option(v.options, "alias"), {"comma"},
        [name |-> v.name, mac |-> Option(v.options, "mac"),
         aliases |-> Mapped(SelectSeq(v.options, LAMBDA o : o[1] = "alias"), LAMBDA o : o[2]),
         ips |-> Option(v.options, "ip") \cup Option(v.options, "ip6")]))
NetworkFromBody(name, o) ==
    [name |-> name, mac |-> Member(o, "static_mac"), aliases |-> Array(o, "aliases"),
     ips |-> Elements(Array(o, "static_ips"))]
NetworkMeant(n) ==
    [name |-> NameOf[n.network], mac |-> n.static_mac, aliases |-> n.aliases,
     ips |-> n.static_ipv4 \cup n.static_ipv6]

PortFields == {"host_ip", "host_port", "container_port", "protocol"}
PortRead(p) == [f \in PortFields |-> p[f]]
PortFromCli(p) == IF p.bracketed = (\E a \in p.host_ip : a.family = 6) THEN PortRead(p) ELSE Garbled
HostRead(h) == Whole({h[1]}, {"colon"}, h)

NetworkingFromCli(argv) ==
    [networks |-> Elements(Mapped(Values(argv, "--network"), NetworkFromCli)),
     ports |-> Mapped(Values(argv, "--publish"), PortFromCli),
     dns |-> <<Values(argv, "--dns"), Values(argv, "--dns-search"), Values(argv, "--dns-option")>>,
     hosts |-> Mapped(Values(argv, "--add-host"), HostRead)]
NetworkingFromBody(body) ==
    [networks |-> {NetworkFromBody(name, body["Networks"][name]) : name \in DOMAIN body["Networks"]},
     ports |-> Mapped(Array(body, "portmappings"), PortRead),
     dns |-> <<Array(body, "dns_server"), Array(body, "dns_search"), Array(body, "dns_option")>>,
     hosts |-> Mapped(Array(body, "hostadd"), HostRead)]
NetworkingMeant(c) ==
    [networks |-> {NetworkMeant(n) : n \in Elements(c.list["networks"])},
     ports |-> Mapped(c.list["ports"], PortRead),
     dns |-> <<c.list["dns_servers"], c.list["dns_search"], c.list["dns_options"]>>,
     hosts |-> Mapped(c.list["hosts"], LAMBDA h : <<h.hostname, h.address>>)]

\* The attached names in the order Podman attaches them.
OrderFromCli(argv) == Mapped(Values(argv, "--network"), LAMBDA v : v.name)
OrderFromBody(body) == Member(body, "networkOrder")

\* Gateways and ranges are paired with subnets by position.
SubnetsFromCli(argv) ==
    LET gateways == Values(argv, "--gateway")
        ranges == Values(argv, "--ip-range")
        nth(s, i) == IF i \in DOMAIN s THEN {s[i]} ELSE {}
        subnets == Values(argv, "--subnet")
    IN  [i \in DOMAIN subnets |->
            [subnet |-> subnets[i], gateway |-> nth(gateways, i), range |-> nth(ranges, i)]]
SubnetsFromBody(body) ==
    Mapped(Array(body, "subnets"), LAMBDA s :
        [subnet |-> s["subnet"], gateway |-> Member(s, "gateway"), range |-> Member(s, "lease_range")])
RoutesFromCli(argv) ==
    Mapped(Values(argv, "--route"), LAMBDA r :
        [destination |-> r.destination, metric |-> r.metric,
         gateway |-> IF r.next_hop[1] = "address" THEN {r.next_hop[2]} ELSE {},
         route_type |-> IF r.next_hop[1] = "address" THEN "unicast" ELSE r.next_hop[2]])
RoutesFromBody(body) ==
    Mapped(Array(body, "routes"), LAMBDA r :
        [destination |-> r["destination"], metric |-> Member(r, "metric"), gateway |-> Member(r, "gateway"),
         route_type |-> IF "route_type" \in DOMAIN r THEN r["route_type"] ELSE "unicast"])

-----------------------------------------------------------------------------
(* Mounts and secrets. *)

MountFromCli(a) ==
    LET v == a[2]
    IN  IF a[1] = "--volume"
        THEN Whole({v[1], v[2]}, {"colon", "comma"},
                   [type |-> "volume", source |-> {v[1]}, destination |-> v[2],
                    read_only |-> v[3][1] = "ro", copy |-> v[3][2] = "copy", subpath |-> {}])
        ELSE Whole(Option(v, "source") \cup Option(v, "target") \cup Option(v, "subpath"), {"comma"},
                   [type |-> The(Option(v, "type")), source |-> Option(v, "source"),
                    destination |-> The(Option(v, "target")), copy |-> TRUE,
                    read_only |-> Option(v, "readonly") # {}, subpath |-> Option(v, "subpath")])
MountsFromCli(argv) ==
    {MountFromCli(a) : a \in {x \in Elements(argv) : x[1] \in {"--volume", "--mount"}}}
\* The source of a tmpfs is the word tmpfs, which names nothing.
MountsFromBody(body) ==
    {[type |-> "volume", source |-> {v.Name}, destination |-> v.Dest, subpath |-> v.SubPath,
      read_only |-> "ro" \in Elements(v.Options), copy |-> "nocopy" \notin Elements(v.Options)] :
        v \in Elements(Array(body, "volumes"))}
    \cup {[type |-> m.type, source |-> IF m.source[1] = "path" THEN {m.source[2]} ELSE {},
           destination |-> m.destination, subpath |-> {}, read_only |-> "ro" \in Elements(m.options), copy |-> TRUE] :
            m \in Elements(Array(body, "mounts"))}
MountsMeant(c) ==
    {[type |-> m.type, source |-> mount_source(m), destination |-> m.destination,
      subpath |-> m.subpath, read_only |-> m.access = "ro", copy |-> m.copy = "copy"] :
        m \in Elements(c.list["mounts"])}

\* An omitted owner is 0 on both planes; an omitted mode is 0444 for the
\* command line and 0 for the request.
Or(option, default) == IF option = {} THEN default ELSE The(option)
Grant(source, target, uid, gid, mode) ==
    [source |-> source, target |-> target, uid |-> Or(uid, 0), gid |-> Or(gid, 0), mode |-> mode]
octal_value(d) == 64 * d[1] + 8 * d[2] + d[3]
GrantsFromCli(argv) ==
    LET all == Elements(Values(argv, "--secret"))
        typed(t) == {g \in all : Option(g, "type") = {t}}
        parts(g) == Option(g, "source") \cup Option(g, "target")
    IN  [mounted |-> {Whole(parts(g), {"comma"},
                            Grant(The(Option(g, "source")), Option(g, "target"), Option(g, "uid"),
                                  Option(g, "gid"), Or(Select(Option(g, "mode"), octal_value), 292))) :
                        g \in typed("mount")},
         exported |-> {<<The(Option(g, "target")), The(Option(g, "source"))>> : g \in typed("env")}]
GrantsFromBody(body) ==
    [mounted |-> {Grant(g["Source"], Member(g, "Target"), Member(g, "UID"), Member(g, "GID"),
                        Or(Member(g, "Mode"), 0)) : g \in Elements(Array(body, "secrets"))},
     exported |-> LET env == Array(body, "secret_env") IN {<<t, env[t]>> : t \in DOMAIN env}]
GrantsMeant(c) ==
    LET all == Elements(c.list["secret_grants"])
    IN  [mounted |-> {Grant(NameOf[g.source], g.target, g.uid, g.gid, Or(g.mode, 292)) :
                        g \in {x \in all : x.type = "mount"}},
         exported |-> {<<The(g.target), NameOf[g.source]>> : g \in {x \in all : x.type = "env"}}]

-----------------------------------------------------------------------------
(* Labels, environment, health, logging, security and limits. *)

PairFromCli(p) == Whole({p[1]}, {"equals"}, p)
PairsFromCli(argv, flag) == Elements(Mapped(Values(argv, flag), PairFromCli))
PairsFromBody(o) == {<<k, o[k]>> : k \in DOMAIN o}

Duration(d) == d[1]     \* "disable" is 0
OnFailure == <<"none", "", "kill", "restart", "stop">>      \* by code, from 0
HealthFields3(test, interval, timeout, retries, start, failure, successes) ==
    [test |-> test, interval |-> interval, timeout |-> timeout, retries |-> retries,
     start_period |-> start, on_failure |-> failure, successes |-> successes]
HealthFromCli(argv) ==
    HealthFields3(IF Values(argv, "--no-healthcheck") # <<>> THEN {<<<<"NONE">>, <<>>>>}
                  ELSE Last1(argv, "--health-cmd"),
                  Select(Last1(argv, "--health-interval"), Duration),
                  Select(Last1(argv, "--health-timeout"), Duration), Last1(argv, "--health-retries"),
                  Select(Last1(argv, "--health-start-period"), Duration),
                  Last1(argv, "--health-on-failure"), {})
StartupFromCli(argv) ==
    HealthFields3(Last1(argv, "--health-startup-cmd"),
                  Select(Last1(argv, "--health-startup-interval"), Duration),
                  Select(Last1(argv, "--health-startup-timeout"), Duration),
                  Last1(argv, "--health-startup-retries"), {}, {}, Last1(argv, "--health-startup-success"))
HealthFromBody(body, member, failure) ==
    HealthFields3(At(body, <<member, "Test">>), At(body, <<member, "Interval">>),
                  At(body, <<member, "Timeout">>), At(body, <<member, "Retries">>),
                  At(body, <<member, "StartPeriod">>), failure, At(body, <<member, "Successes">>))
HealthMeant(checks, startup) ==
    LET on == {h \in checks : ~h.disabled}
        ns(i) == IF i.disabled THEN 0 ELSE i.ns
        all(op(_)) == UNION {op(h) : h \in on}
    IN  HealthFields3({IF h.disabled THEN <<<<"NONE">>, <<>>>>
                       ELSE IF h.command.form = "shell" THEN <<<<"CMD-SHELL">>, <<h.command.text>>>>
                       ELSE <<<<"CMD">>, h.command.arguments>> : h \in checks},
                      all(LAMBDA h : Select(h.interval, ns)), all(LAMBDA h : h.timeout),
                      all(LAMBDA h : h.retries), IF startup THEN {} ELSE all(LAMBDA h : h.start_period),
                      IF startup THEN {} ELSE all(LAMBDA h : h.on_failure),
                      IF startup THEN all(LAMBDA h : h.successes) ELSE {})

LimitMeant(r) == [type |-> IF r.kind = "nofile" THEN "RLIMIT_NOFILE" ELSE "RLIMIT_NPROC",
                  soft |-> IF r.soft.unlimited THEN -1 ELSE r.soft.value,
                  hard |-> IF r.hard.unlimited THEN -1 ELSE r.hard.value]
LimitFromCli(v) == [type |-> IF v[1] = "nofile" THEN "RLIMIT_NOFILE" ELSE "RLIMIT_NPROC",
                    soft |-> v[2], hard |-> v[3]]

-----------------------------------------------------------------------------
(* A whole container, on each plane. *)

ContainerFromCli(argv) ==
    LET positional == Values(argv, "")
        opts == Values(argv, "--log-opt")
        labels == SelectSeq(opts, LAMBDA o : o[1] = "label")
    IN  [once |-> [f \in DOMAIN CliOnce |-> Last1(argv, CliOnce[f])],
         image |-> positional[1], command |-> Tail(positional), pod |-> Last1(argv, "--pod"),
         networking |-> NetworkingFromCli(argv), mounts |-> MountsFromCli(argv),
         grants |-> GrantsFromCli(argv), labels |-> PairsFromCli(argv, "--label"),
         environment |-> PairsFromCli(argv, "--env"),
         health |-> HealthFromCli(argv), startup |-> StartupFromCli(argv),
         log |-> <<Option(opts, "max-size"), Elements(Mapped(labels, LAMBDA o : PairFromCli(o[2])))>>,
         privileges |-> Option(Values(argv, "--security-opt"), "no-new-privileges"),
         caps |-> <<Values(argv, "--cap-add"), Values(argv, "--cap-drop")>>,
         limits |-> Mapped(Values(argv, "--ulimit"), LimitFromCli)]
ContainerFromBody(body) ==
    [once |-> [f \in DOMAIN BodyOnce |-> At(body, BodyOnce[f])],
     image |-> body["image"], command |-> Array(body, "command"), pod |-> Member(body, "pod"),
     networking |-> NetworkingFromBody(IF "Networks" \in DOMAIN body THEN body ELSE One("Networks", <<>>)),
     mounts |-> MountsFromBody(body), grants |-> GrantsFromBody(body),
     labels |-> PairsFromBody(Array(body, "labels")), environment |-> PairsFromBody(Array(body, "env")),
     health |-> HealthFromBody(body, "healthconfig",
                  Select(Member(body, "health_check_on_failure_action"), LAMBDA n : OnFailure[n + 1])),
     startup |-> HealthFromBody(body, "startupHealthConfig", {}),
     log |-> <<At(body, <<"log_configuration", "size">>),
               UNION {PairsFromBody(o) : o \in At(body, <<"log_configuration", "labels">>)}>>,
     privileges |-> Member(body, "no_new_privileges"),
     caps |-> <<Array(body, "cap_add"), Array(body, "cap_drop")>>,
     limits |-> Array(body, "r_limits")]
ContainerMeant(c, image) ==
    [once |-> [f \in DOMAIN CliOnce |-> c.opt[f]],
     image |-> image, command |-> Or(c.opt["command"], <<>>), pod |-> Select(c.pod, LAMBDA p : NameOf[p]),
     networking |-> NetworkingMeant(c), mounts |-> MountsMeant(c), grants |-> GrantsMeant(c),
     labels |-> {<<l.key, l.value>> : l \in Elements(c.list["labels"])},
     environment |-> {<<e.name, e.value>> : e \in Elements(c.list["environment"])},
     health |-> HealthMeant(c.opt["health"], FALSE), startup |-> HealthMeant(c.opt["startup_health"], TRUE),
     log |-> <<c.opt["max_size"], {<<l.key, l.value>> : l \in Elements(c.list["journald_labels"])}>>,
     privileges |-> c.opt["no_new_privileges"],
     caps |-> <<c.list["cap_add"], c.list["cap_drop"]>>,
     limits |-> Mapped(c.list["rlimits"], LimitMeant)]

=============================================================================
