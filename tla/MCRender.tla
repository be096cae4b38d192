------------------------------ MODULE MCRender ------------------------------
(***************************************************************************)
(* Small deployments for Render.  Every family of builder calls starts     *)
(* from a bare and from a loaded deployment and makes a few more calls.    *)
(***************************************************************************)
EXTENDS Render, TLC

MCKindOf == (1 :> "container") @@ (2 :> "container") @@ (11 :> "pod")
            @@ (21 :> "network") @@ (22 :> "network") @@ (23 :> "network")
            @@ (31 :> "volume") @@ (41 :> "image") @@ (51 :> "secret") @@ (52 :> "secret")

Text(id, traits) == [id |-> id, traits |-> traits]
Word(id) == Text(id, {})
Path(id) == Text(id, {})
MCNameOf == [id \in DOMAIN MCKindOf |-> Text(id, IF id = 23 THEN {"colon"} ELSE {})]
MCReviewedVersions == {50400, 50500, 50600, 50700, 50806, 60000, 60100}

MCWidth == (4 :> 4) @@ (6 :> 6)
MCI32Max == 2147483647
MCI64Max == 2147483647      \* the largest number TLC knows stands in for i64::MAX
MCCap == [f \in Lists \cup {"arguments", "items", "aliases"} |-> 2]

A4(n) == [family |-> 4, bits |-> n]
A6(n) == [family |-> 6, bits |-> n]
Cidr(a, p) == The(NetworkCidr(a, p))

set(f, v) == <<"set", f, v>>
add(f, v) == <<"add", f, v>>
Build(id, made) == FoldLeft(LAMBDA c, call : Called(c, call).intent, new(id, 41), made)

\* Networking values.
Net(id, aliases, v4, v6, mac) ==
    [network |-> id, aliases |-> aliases, static_ipv4 |-> v4, static_ipv6 |-> v6, static_mac |-> mac]
Plug(id) == add("networks", Net(id, <<>>, {}, {}, {}))
Port(ip, host, protocol) == add("ports", [host_ip |-> ip, host_port |-> host, container_port |-> 80, protocol |-> protocol])
Host(id, a) == add("hosts", [hostname |-> Word(id), address |-> a])
Subnet(cidr, gateway, range) == add("subnets", [subnet |-> cidr, gateway |-> gateway, range |-> range])
Route(cidr, gateway, type, metric) ==
    add("routes", [destination |-> cidr, gateway |-> gateway, route_type |-> type, metric |-> metric])

LoadedNetworking ==
    <<add("networks", Net(21, <<Word(61), Word(62)>>, {A4(5)}, {A6(9)}, {Word(63)})), Plug(22),
      <<"order", "", <<22, 21>>>>, Port({A6(1)}, 8080, "tcp"), Port({}, 53, "udp"),
      add("dns_servers", A4(1)), add("dns_search", Word(64)), add("dns_options", Word(65)),
      Host(66, A6(2)), Host(67, A4(2))>>
NetworkingCalls ==
    {1} \X {Plug(22), Plug(23), Plug(31), add("networks", Net(21, <<Text(68, {"comma"})>>, {}, {}, {})),
            add("networks", Net(22, <<Word(61)>>, {}, {A6(4)}, {})),
            Port({A4(1)}, 8080, "tcp"), Port({}, 8080, "tcp"), Port({}, 0, "tcp"),
            add("dns_servers", A6(3)), <<"order", "", <<22>>>>, <<"order", "", <<21, 22>>>>,
            <<"pod", "", 11>>, <<"pod", "", 21>>}
    \cup {11} \X {Plug(21), add("networks", Net(22, <<>>, {A4(3)}, {A6(3)}, {Word(63)})),
                  Port({A6(2)}, 443, "sctp"), Host(66, A6(3)), add("dns_search", Word(64)),
                  add("members", 1), add("members", 22),
                  add("mounts", [type |-> "tmpfs", source |-> 0, path |-> Path(70), destination |-> Path(71),
                                 access |-> "rw", copy |-> "copy", subpath |-> {}])}

\* Network values.
SubnetA == Subnet(Cidr(A4(8), 1), {A4(9)}, {<<A4(10), A4(12)>>})
SubnetB == Subnet(Cidr(A6(0), 2), {}, {})
SubnetCalls ==
    {21} \X {SubnetA, SubnetB, Subnet(Cidr(A4(8), 1), {}, {}), Subnet(Cidr(A4(0), 0), {}, {}),
             Subnet(Cidr(A4(0), 0), {A4(15)}, {}),
             Subnet(Cidr(A4(8), 2), {A4(3)}, {}), Subnet(Cidr(A6(32), 3), {A6(33)}, {<<A6(35), A6(34)>>}),
             Subnet(Cidr(A6(32), 3), {A6(33)}, {}),
             Route(Cidr(A4(0), 0), {A4(1)}, "unicast", {100}), Route(Cidr(A4(0), 0), {A6(1)}, "unicast", {}),
             Route(Cidr(A6(0), 0), {}, "blackhole", {}), Route(Cidr(A6(0), 0), {A6(1)}, "prohibit", {}),
             Route(Cidr(A6(8), 3), {}, "unreachable", {7})}
    \cup {31} \X {set("uid", 0), set("uid", 7), set("gid", 7)}

\* Mounts, secret grants, settings and environment.
Mount(type, path, dest, access, copy, sub) ==
    add("mounts", [type |-> type, source |-> IF type = "volume" THEN 31 ELSE 0, path |-> path,
                   destination |-> dest, access |-> access, copy |-> copy, subpath |-> sub])
Grant2(type, source, at, uid, mode) ==
    add("secret_grants", [type |-> type, source |-> source, target |-> at, uid |-> uid, gid |-> {},
                          mode |-> mode])
Env(name, class, value) == add("environment", [name |-> Word(name), class |-> class, value |-> Text(value, {"equals"})])
Label(key, value) == add("labels", [key |-> key, value |-> value])
LoadedSettings ==
    <<Mount("volume", Path(0), Path(71), "rw", "nocopy", {}), Mount("bind", Path(70), Path(72), "ro", "copy", {}),
      Grant2("mount", 51, {Path(73)}, {7}, {448}), Grant2("env", 52, {Word(81)}, {}, {}),
      set("command", <<Word(1), Text(2, {"empty"})>>), set("entrypoint", <<Word(3)>>), set("user", Word(4)),
      set("workdir", Path(74)), set("hostname", Word(5)), set("restart_policy", "always"),
      Label(Word(6), Text(7, {"equals"})), Env(82, "public", 91)>>
SettingsCalls ==
    {1} \X {Mount("volume", Path(0), Path(75), "ro", "copy", {Path(76)}),
            Mount("volume", Path(0), Path(75), "rw", "nocopy", {Path(76)}),
            add("mounts", [type |-> "volume", source |-> 51, path |-> Path(0), destination |-> Path(75),
                           access |-> "rw", copy |-> "copy", subpath |-> {}]),
            Mount("tmpfs", Path(0), Path(71), "ro", "copy", {}), Mount("bind", Text(77, {"comma"}), Path(78), "rw", "copy", {}),
            Grant2("mount", 51, {}, {}, {}), Grant2("mount", 31, {}, {}, {}), Grant2("env", 51, {Word(81)}, {}, {}),
            Grant2("mount", 52, {Text(79, {"comma"})}, {}, {}), Grant2("env", 51, {Word(83)}, {}, {}),
            Env(81, "public", 92), Env(83, "protected", 93), Env(84, "external", 94), Env(82, "public", 95),
            Label(Text(8, {"equals"}), Word(9)), Label(Word(6), Word(9)), Label(Word(10), Text(11, {"empty"})),
            set("command", <<Word(12)>>), set("user", Text(13, {"symbol"})), set("hostname", Word(14)),
            <<"pod", "", 11>>}
    \cup {2} \X {Env(83, "protected", 96), set("restart_policy", "no"), set("workdir", Path(74))}

\* Runtime settings.
Shell(class, id) == [class |-> class, form |-> "shell", text |-> Word(id), arguments |-> <<>>]
Exec(a) == [class |-> "public", form |-> "exec", text |-> Word(0), arguments |-> a]
Every(ns) == {[disabled |-> FALSE, ns |-> ns]}
Check(command, interval, timeout, retries, start, failure) ==
    [disabled |-> FALSE, command |-> command, interval |-> interval, timeout |-> timeout,
     retries |-> retries, start_period |-> start, on_failure |-> failure]
Startup(command, interval, successes) ==
    [disabled |-> FALSE, command |-> command, interval |-> interval, timeout |-> {1000000000},
     retries |-> {0}, successes |-> successes]
NoCheck == Check(Shell("public", 0), {}, {}, {}, {}, {})
Limit(kind, soft, hard) ==
    add("rlimits", [kind |-> kind, soft |-> [unlimited |-> soft < 0, value |-> soft],
                    hard |-> [unlimited |-> hard < 0, value |-> hard]])
LoadedRuntime ==
    <<set("health", Check(Exec(<<Word(1), Word(2)>>), Every(5), {1000000000}, {3}, {0}, {"kill"})),
      set("startup_health", Startup(Shell("public", 3), {[disabled |-> TRUE, ns |-> 0]}, {2})),
      set("no_new_privileges", TRUE), set("read_only_filesystem", TRUE), add("cap_add", "NET_ADMIN"),
      set("cpu_shares", 2), set("memory_bytes", 4096), Limit("nproc", 10, 20)>>
RuntimeCalls ==
    {1} \X {set("health", [NoCheck EXCEPT !.disabled = TRUE]), set("health", Check(Shell("protected", 4), {}, {}, {}, {}, {})),
            set("health", Check(Shell("public", 5), {[disabled |-> TRUE, ns |-> 0]}, {}, {}, {7}, {"restart"})),
            set("health", Check(Shell("public", 5), {}, {999999999}, {}, {}, {})),
            set("startup_health", Startup(Shell("external", 6), {}, {})),
            set("driver", "journald"), set("driver", "k8s-file"), set("max_size", 1024), set("max_size", 0),
            add("journald_labels", [key |-> Word(7), value |-> Text(8, {"equals"})]),
            set("privileged", TRUE), set("read_write_tmpfs", TRUE), add("cap_drop", "NET_ADMIN"),
            add("cap_add", "NET_ADMIN"), add("cap_add", "SYS_TIME"), add("cap_add", "KILL"),
            set("uts", "host"), set("ipc", "shareable"), set("cgroup", "private"), set("hostname", Word(9)),
            set("cpu_period", 1000), set("cpu_quota", 999), set("pids", -1), set("pids", 0),
            Limit("nofile", -1, -1), Limit("nofile", 5, -1), Limit("nofile", -1, 5), Limit("nproc", 1, 1),
            <<"pod", "", 11>>}

Target(engine, api, context, cgroup) ==
    [engine |-> engine, api |-> api, build |-> FALSE, context |-> context, cgroup |-> cgroup]
V2 == {[version |-> 2, controllers |-> {"cpu", "memory", "pids"}]}
MCTargets ==
    {Target(60100, 60100, "rootful", V2), Target(50400, 50400, "rootful", V2),
     Target(50600, 50600, "rootless", {[version |-> 1, controllers |-> {"cpu"}]}),
     Target(60000, 50806, "rootful", {})}

Image(classification) ==
    [id |-> 41, source |-> Word(100), classification |-> classification, policy |-> "missing"]
Secret(id) == [id |-> id, material |-> Word(200 + id)]
Setup(f, rs, outside) == [family |-> f, resources |-> rs, external |-> outside, connection |-> {Word(150)}]
Member2 == Build(2, <<<<"pod", "", 11>>>>)
Podded == (2 :> Member2) @@ (11 :> Build(11, <<add("members", 2)>>))
Nets == (21 :> Build(21, <<>>)) @@ (22 :> Build(22, <<>>))

NetworkingSetups ==
    {Setup("networking", (1 :> Build(1, made)) @@ Podded @@ (21 :> Build(21, <<>>)) @@ (41 :> Image("Portable"))
           @@ (22 :> Build(22, <<>>)) @@ (23 :> Build(23, <<>>)), {22, 23, 41}) :
        made \in {<<>>, LoadedNetworking}}
SubnetSetups ==
    {Setup("subnet", (21 :> Build(21, made)) @@ (31 :> Build(31, <<>>)), {}) : made \in {<<>>, <<SubnetA>>}}
SettingsSetups ==
    {Setup("settings", (1 :> Build(1, made)) @@ Podded @@ (31 :> Build(31, <<>>)) @@ (41 :> image)
           @@ (51 :> Secret(51)) @@ (52 :> Secret(52)), outside) :
        made \in {<<>>, LoadedSettings}, image \in {Image("Portable")}, outside \in {{31}, {31, 41}}}
    \cup {Setup("settings", (1 :> Build(1, LoadedSettings)) @@ (31 :> Build(31, <<>>)) @@ (41 :> Image("Tagless"))
                @@ (51 :> Secret(51)) @@ (52 :> Secret(52)), {31})}
RuntimeSetups ==
    {Setup("runtime", (1 :> Build(1, made)) @@ (41 :> Image("Portable")) @@ (11 :> Build(11, <<add("members", 1)>>)), {41}) :
        made \in {<<<<"pod", "", 11>>>>}}
    \cup {Setup("runtime", (1 :> Build(1, made)) @@ (41 :> Image("Portable")), {41}) : made \in {<<>>, LoadedRuntime}}

MCSetups == NetworkingSetups \cup SubnetSetups \cup SettingsSetups \cup RuntimeSetups
MCCalls == [networking |-> NetworkingCalls, subnet |-> SubnetCalls, settings |-> SettingsCalls,
            runtime |-> RuntimeCalls]
MCMaxCalls == [networking |-> 3, subnet |-> 3, settings |-> 2, runtime |-> 3]

=============================================================================
