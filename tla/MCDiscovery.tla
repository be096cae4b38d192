---------------------------- MODULE MCDiscovery ----------------------------
(***************************************************************************)
(* Small inventories and requests for Discovery: containers over a pod,    *)
(* two networks, a volume, an image and a secret (closure), and inventories *)
(* with broken evidence and with every combination of Compose labels       *)
(* (evidence).                                                             *)
(***************************************************************************)
EXTENDS Discovery, TLC

\* Names: 101 is a container's, 121 and 122 share the prefix 120.
MCStartsWith == {<<101, 101>>, <<121, 120>>, <<122, 120>>, <<121, 121>>, <<122, 122>>}

NoLabels == [state |-> "absent", map |-> <<>>]
Labels(map) == [state |-> "observed", map |-> map]
Record(id, kind, name) ==
    [id |-> id, kind |-> kind, name |-> name, aliases |-> {}, rels |-> AbsentField,
     labels |-> NoLabels, infra |-> "absent", configured_image |-> 0, local_image |-> 0]
Rel(path, refs) == [kind |-> TargetKind[path], refs |-> refs, path |-> path]
Rels(path, ids) == {Rel(path, <<id>>) : id \in ids}
Related(rec, rels) == [rec EXCEPT !.rels = Field("observed", rels)]

Inventory(containers, podMembers, podNetworks) ==
    containers
    @@ (11 :> Related(Record(11, "pod", 111), Rels("Containers", podMembers) \cup Rels("InfraNetworks", podNetworks)))
    @@ (21 :> Record(21, "network", 121)) @@ (22 :> Record(22, "network", 122))
    @@ (31 :> Record(31, "volume", 131)) @@ (41 :> [Record(41, "image", 0) EXCEPT !.aliases = {141}])

Container(id, rels) ==
    LET images == {rel.refs[1] : rel \in {x \in rels : x.path = "ImageName"}}
    IN  [Related(Record(id, "container", 100 + id), rels) EXCEPT
            !.configured_image = IF images = {} THEN 0 ELSE CHOOSE i \in images : TRUE]

\* Every arrangement of dependencies, membership and networks of a few.
ClosureInventories ==
    {Inventory((1 :> Container(1, Rels("Networks", n1) \cup Rels("Dependencies", d1) \cup Rels("Pod", p1)
                                  \cup Rels("ImageName", {141})))
               @@ (2 :> Container(2, Rels("Networks", n2) \cup Rels("Pod", p2) \cup Rels("Mounts", {31})))
               @@ (3 :> Container(3, Rels("Networks", n3) \cup Rels("ImageName", {41}))),
               pm, {22}) :
        n1 \in {{}, {21}, {121, 122}}, d1 \in {{}, {2}}, p1 \in {{}, {111}},
        n2 \in {{21}, {22}}, p2 \in {{}, {11}},
        n3 \in {{22}, {21, 22}}, pm \in {{}, {1}, {2}}}

Exact(kind, ref) == [kind |-> kind, reference |-> ref, match |-> "exact"]
Prefix(kind, ref) == [kind |-> kind, reference |-> ref, match |-> "prefix"]
Request(selectors, all, overrides, labels) ==
    [roots |-> selectors, all |-> all, overrides |-> overrides, label_selectors |-> labels]

ClosureRequests ==
    {Request({Exact("container", 1)}, FALSE, overrides, {}) : overrides \in {{}, {21}, {21, 122}}}
    \cup {Request({Exact("container", 1), Exact("container", 103)}, FALSE, {21}, {}),
          Request({Exact("network", 121), Exact("volume", 31)}, FALSE, {22}, {})}

-----------------------------------------------------------------------------
\* Inventories with broken evidence.
Broken(state) == [Record(1, "container", 101) EXCEPT !.rels = Field(state, {})]
\* The configured image is 41, by its tag; the local one is the same, another
\* or none of the inventory.
Imaged(rec, local) == [rec EXCEPT !.configured_image = 141, !.local_image = local]
FirstContainers ==
    {Broken("malformed"), Broken("unavailable"), Record(1, "container", 101),
     Imaged(Broken("malformed"), 42), Imaged(Container(1, Rels("ImageName", {141})), 41),
     Imaged(Container(1, Rels("ImageName", {141})), 42),
     Container(1, Rels("Pod", {11})), Container(1, Rels("Pod", {99})),
     Container(1, Rels("Pod", {111, 99})), Container(1, Rels("Dependencies", {102, 1})),
     Container(1, Rels("Networks", {120}) \cup Rels("Mounts", {99})),
     Container(1, {Rel("Secrets", <<51, 151>>)}), Container(1, {Rel("Secrets", <<51, 152>>)}),
     Container(1, {Rel("Secrets", <<99, 151>>)}), Container(1, {Rel("Secrets", <<51, 99>>)})}
SecondContainers ==
    {[Container(2, Rels("Pod", {11}) \cup Rels("Networks", {21})) EXCEPT !.infra = infra, !.labels = labels] :
        infra \in {"absent", "true"},
        labels \in {Labels("app" :> "web"), Labels("app" :> ""), [state |-> "malformed", map |-> <<>>]}}
    \cup {[Record(2, "container", 102) EXCEPT !.infra = infra] : infra \in {"true", "false", "malformed"}}
Pods == {Related(Record(11, "pod", 111), Rels("Containers", m)) : m \in {{2}, {1, 2}, {99}}}
        \cup {[Record(11, "pod", 111) EXCEPT !.rels = Field("malformed", {})]}
\* Two networks of different names and a plain image, or networks of one name
\* and an owned image.
Shared(second, labels) ==
    (21 :> Record(21, "network", 121)) @@ (22 :> Record(22, "network", second))
    @@ (41 :> [Record(41, "image", 0) EXCEPT !.aliases = {141}, !.labels = labels])
    @@ (42 :> Record(42, "image", 0)) @@ (51 :> Record(51, "secret", 151)) @@ (52 :> Record(52, "secret", 152))
SharedResources ==
    {Shared(122, NoLabels), Shared(121, Labels("docker.project" :> "a" @@ "docker.service" :> "s"))}

EvidenceInventories ==
    {(1 :> c) @@ (2 :> d) @@ (11 :> p) @@ shared :
        c \in FirstContainers, d \in SecondContainers, p \in Pods, shared \in SharedResources}

EvidenceRequests ==
    {Request({}, FALSE, {}, {}), Request({}, TRUE, {}, {}),
     Request({Exact("network", 121), Exact("secret", 99)}, FALSE, {}, {}),
     Request({Prefix("network", 120), Prefix("container", 999)}, FALSE, {}, {}),
     Request({}, FALSE, {121, 98}, {[name |-> "app", exact |-> FALSE, value |-> ""],
                                    [name |-> "app", exact |-> TRUE, value |-> ""]})}

-----------------------------------------------------------------------------
\* The first container is owned by project a; the second has any labels, or
\* none and a dependency on the first.
LabelKeys == {"docker.project", "docker.service", "docker.hash",
              "podman.project", "podman.service", "podman.hash"}
LabelMaps == UNION {[keys -> {"", "a", "b"}] : keys \in SUBSET LabelKeys}
SecondLabelled == {[Record(2, "container", 102) EXCEPT !.labels = Labels(map)] : map \in LabelMaps}
LabelInventories ==
    {(1 :> [Record(1, "container", 101) EXCEPT
               !.labels = Labels("podman.project" :> "a" @@ "podman.service" :> "a")])
     @@ (2 :> second) : second \in SecondLabelled \cup {Container(2, Rels("Dependencies", {101}))}}
MCInventories == UNION {ClosureInventories, EvidenceInventories, LabelInventories}
MCRequests == ClosureRequests \cup EvidenceRequests
=============================================================================
