---------------------------- MODULE MCContainer ----------------------------
(***************************************************************************)
(* Small inspect responses.  Each set varies one family of members and     *)
(* keeps the others as Plain has them.                                     *)
(***************************************************************************)
EXTENDS Container

MCParts == ("q/i:1@d" :> [name |-> "q/i", tag |-> "1", digest |-> "d"])
           @@ ("q/i:2@d" :> [name |-> "q/i", tag |-> "2", digest |-> "d"])
           @@ ("q/i@d" :> [name |-> "q/i", tag |-> "", digest |-> "d"])

NoMembers(names) == [m \in names |-> "absent"]
Plain == [config |-> "object", env |-> None, image |-> Text("id"), image_name |-> Text("q/i@d"),
          pod |-> None, settings |-> "none", networks |-> None,
          host |-> [json |-> "object", members |-> NoMembers(HostMembers), binds |-> None],
          mounts |-> None, command |-> None, dependencies |-> None, secrets |-> None]

(* Arguments *)
Void == [colons |-> <<"x">>, parts |-> <<[bare |-> TRUE, key |-> "x", value |-> ""]>>]
Arg(form, name, value, bytes) ==
    [form |-> form, name |-> name, value |-> value, meant |-> value, bytes |-> bytes,
     word |-> IF form \in {"long=", "short+"}
              THEN [value EXCEPT !.colons[1] = "-o", !.parts[1] = [bare |-> FALSE, key |-> "-o", value |-> "x"]]
              ELSE value]
Word(name) == Arg("word", name, Void, 1)
Flag(name) == Arg("long", name, Void, 1)
Colons(s) == [colons |-> s, parts |-> <<[bare |-> TRUE, key |-> "x", value |-> ""]>>]
Key(k, v) == [bare |-> FALSE, key |-> k, value |-> v]
Comma(parts) == [colons |-> <<"x">>, parts |-> parts]
Podman == <<Word("podman"), Word("run")>>

Shared == Colons(<<"/a", "/x", {"z"}>>)
Private == Colons(<<"v", "/y", {"Z", "ro"}>>)
Structured == Comma(<<Key("type", "bind"), Key("src", "/a"), Key("dst", "/x"), Key("relabel", "shared")>>)
Twice == Comma(<<Key("src", "/b"), Key("src", "/a"), Key("dst", "/x"), Key("relabel", "shared")>>)

\* Runs of options: known and unknown ones, with and without a value, each of
\* the spellings of a mount, a value that looks like an option.
Options ==
    { <<>>, <<Flag("rm")>>, <<Flag("env"), Word("A=1")>>, <<Flag("name"), Flag("rm")>>,
      <<Arg("long=", "env", Void, 1)>>, <<Flag("quiet")>>, <<Arg("long=", "rm", Void, 1)>>,
      <<Arg("short", "d", Void, 1)>>, <<Arg("short", "e", Void, 1), Word("A=1")>>,
      <<Arg("short+", "i", Void, 1)>>, <<Flag("volume")>>, <<Flag("name")>>,
      <<Arg("short", "v", Void, 1), Arg("word", "w", Shared, 1)>>,
      <<Arg("short+", "v", Shared, 1)>>, <<Arg("long=", "volume", Private, 1)>>,
      <<[Arg("short+", "v", Colons(<<"=/a", "/x", {"z"}>>), 1) EXCEPT !.meant = Shared]>>,
      <<Flag("mount"), Arg("word", "w", Structured, 1)>>, <<Arg("long=", "mount", Structured, 1)>>,
      <<Arg("long=", "mount", Twice, 1)>>,
      <<Arg("short+", "v", Colons(<<"/a", "/x", {"z", "Z"}>>), 1)>>,
      <<Arg("short+", "v", Colons(<<"/a", "/x">>), 1)>>, <<Arg("short+", "v", Colons(<<"/x">>), 1)>>,
      <<Arg("short+", "v", Colons(<<"", "/x", {"z"}>>), 1)>>,
      <<Flag("volume"), Flag("rm")>>, <<Arg("short+", "v", Colons(<<"/a", "/y", {"z"}>>), 1)>> }
\* Values of --mount that end the reading of one mount.
Values ==
    { Comma(<<[bare |-> TRUE, key |-> "relabel", value |-> ""]>>),
      Comma(<<[bare |-> TRUE, key |-> "ro", value |-> ""], Key("dst", "/x")>>),
      Comma(<<Key("src", "")>>), Comma(<<Key("dst", "/x"), Key("dst", "/x")>>),
      Comma(<<Key("dst", "")>>), Comma(<<Key("relabel", "both")>>),
      Comma(<<Key("relabel", "shared"), Key("relabel", "private"), Key("src", "/a"), Key("dst", "/x")>>),
      Comma(<<Key("type", "volume")>>), Comma(<<Key("relabel", "shared"), Key("dst", "/x")>>) }

Commands ==
    {Podman \o o \o <<Word("q/i:1@d"), Flag("rm")>> : o \in Options}
    \cup {Podman \o o \o p \o <<Word("q/i:1@d")>> : o \in Options, p \in Options}
    \cup {Podman \o <<Arg("long=", "mount", v, 1), Word("q/i@d")>> : v \in Values}
    \cup {Podman \o <<Flag("mount"), Arg("word", "w", v, 1), Arg("short+", "v", Shared, 1), Word("id")>> : v \in Values}
    \cup {Podman \o o : o \in Options}
    \cup {Podman \o o \o <<Arg("--", "", Void, 1), Word("q/i:2@d")>> : o \in Options}
    \cup { <<>>, <<Word("docker"), Word("run")>>, <<Word("podman"), Word("pull"), Word("q/i@d")>>,
           <<Word("/usr/bin/podman"), Word("container"), Word("create"), Arg("-", "-", Void, 1)>>,
           Podman \o <<Arg("--", "", Void, 1)>>, Podman \o <<Arg("other", "", Void, 1)>>,
           Podman \o <<Arg("word", "q/i@d", Void, MaxValueBytes + 1)>>,
           Podman \o <<Flag("rm"), Flag("rm"), Flag("rm"), Flag("rm"), Arg("word", "q/i@d", Void, MaxValueBytes)>>,
           Podman \o <<Flag("rm"), Flag("rm"), Flag("rm"), Flag("rm"), Flag("rm"), Flag("rm"), Word("q/i@d")>>,
           Podman \o <<Arg("short+", "v", Shared, 1), Arg("short+", "v", Private, 1), Arg("short+", "v", Shared, 1), Word("q/i@d")>>,
           Podman \o <<Arg("short+", "v", Shared, 1), Arg("short+", "v", Private, 1), Arg("short+", "v", Shared, 1),
                       Arg("short+", "v", Colons(<<"/x">>), 1), Word("q/i@d")>> }

(* Mounts and binds *)
Mount(type, name, source, destination, mode) ==
    [json |-> "object", type |-> type, name |-> name, source |-> source, destination |-> destination,
     mode |-> mode, members |-> NoMembers({"RW", "Options", "Propagation", "SubPath"})]
BindMount(mode) == Mount(Text("bind"), None, Text("/a"), Text("/x"), mode)
VolumeMount(mode) == Mount(Text("volume"), Text("v"), Text("/var/v"), Text("/y"), mode)
Modes == {None, Other, Tokens({}), Tokens({"z"}), Tokens({"Z"}), Tokens({"z", "Z"})}
BadMounts ==
    { [BindMount(None) EXCEPT !.json = "other"], [BindMount(None) EXCEPT !.type = Other],
      [BindMount(None) EXCEPT !.type = Text("tmpfs")], [BindMount(None) EXCEPT !.source = Text("")],
      [VolumeMount(None) EXCEPT !.name = None], [VolumeMount(None) EXCEPT !.source = Other],
      [BindMount(None) EXCEPT !.destination = Other], [BindMount(None) EXCEPT !.destination = None],
      [BindMount(None) EXCEPT !.members["RW"] = "bad"], [BindMount(None) EXCEPT !.members["SubPath"] = "bad"] }
MountLists ==
    {<<BindMount(m)>> : m \in Modes} \cup {<<b, VolumeMount(Tokens({"Z"}))>> : b \in BadMounts}
    \cup {<<VolumeMount(m), BindMount(n)>> : m \in {None, Tokens({"z"}), Tokens({"Z"})}, n \in Modes}
    \cup {<<BindMount(Tokens({"z"})), BindMount(None)>>, <<>>}

Bind(mount, tokens) == [json |-> "string", mount |-> mount, tokens |-> tokens]
Binds ==
    { None, Other, Array(<<>>), Array(<<Bind(<<"/a", "/x">>, {"Z"})>>), Array(<<Bind(<<"/a", "/x">>, {"z"})>>),
      Array(<<Bind(<<"/a", "/x">>, {"Z"}), Bind(<<"/a", "/x">>, {"z"})>>),
      Array(<<Bind(<<"/a", "/x">>, {"z"}), Bind(<<"/a", "/x">>, {"z", "ro"}), Bind(<<"v", "/y">>, {"z"})>>),
      Array(<<Bind(<<"/a", "/x">>, {}), Bind(<<>>, {"z"})>>), Array(<<Bind(<<"/x">>, {"z"})>>),
      Array(<<Bind(<<"", "/x">>, {"z"})>>), Array(<<Bind(<<"/q", "/q">>, {"z", "Z"})>>),
      Array(<<[json |-> "other"], Bind(<<"/a", "/x">>, {"z"})>>) }

WithMounts(list, binds, command) ==
    [Plain EXCEPT !.mounts = Array(list), !.host.binds = binds, !.command = Array(command)]
Relabelling ==
    {Podman \o <<Arg("short+", "v", Shared, 1), Word("q/i:1@d")>>,
     Podman \o <<Arg("short+", "v", Shared, 1), Arg("long=", "volume", Private, 1), Word("id")>>,
     Podman \o <<Arg("long=", "volume", Private, 1), Arg("long=", "mount", Structured, 1), Word("id")>>}
MountRecords ==
    {WithMounts(list, binds, command) : list \in MountLists, binds \in Binds, command \in Relabelling}
    \cup {[Plain EXCEPT !.mounts = m, !.command = Array(c)] : m \in {None, Other}, c \in Relabelling}
CommandRecords ==
    {WithMounts(<<VolumeMount(Tokens({"Z"})), BindMount(Tokens({"z"}))>>, None, c) : c \in Commands}
    \cup {[Plain EXCEPT !.command = Array(Podman \o <<Word(i)>>), !.image = l, !.image_name = n] :
            i \in {"q/i:1@d", "q/i:2@d", "q/i@d", "id", "j"}, l \in {None, Other, Text("id"), Text("")},
            n \in {None, Other, Text("q/i@d"), Text("q/i:1@d"), Text("k")}}
    \cup {[Plain EXCEPT !.command = Other]}

(* The rest *)
Entry(name, value) == [json |-> "string", pair |-> TRUE, name |-> name, value |-> value]
Entries == {Entry("A", "1"), Entry("", "2"), [json |-> "string", pair |-> FALSE], Other}
ConfigRecords ==
    {[Plain EXCEPT !.config = c, !.env = e] : c \in {"none", "object", "other"},
       e \in {None, Other} \cup {Array(s) : s \in {<<>>} \cup Entries \X Entries}}

Aliases == {None, Other, Array(<<Text("a")>>), Array(<<Text("a"), Text("")>>), Array(<<Other>>)}
Network(name, details, aliases) == [name |-> name, details |-> details, aliases |-> aliases]
Networks ==
    {Network("n", "object", a) : a \in Aliases} \cup
    {Network("n", "null", None), Network("n", "other", None), Network("", "object", None)}
NetworkRecords ==
    {[Plain EXCEPT !.pod = p, !.settings = s, !.networks = n] : p \in {None, Other, Text(""), Text("p")},
       s \in {"none", "object", "other"},
       n \in {None, Other} \cup {Array(<<m, Network("k", "object", None)>>) : m \in Networks}}
    \cup {[Plain EXCEPT !.pod = p, !.settings = "object", !.networks = n,
                        !.host.json = h, !.host.members = [NoMembers(HostMembers) EXCEPT ![m] = v]] :
            p \in {None, Text("p")}, n \in {None, Array(<<Network("n", "object", None)>>)},
            h \in {"object", "other"}, m \in HostMembers, v \in {"bad", "good"}}
    \cup {[Plain EXCEPT !.host.members = [NoMembers(HostMembers) EXCEPT !["Dns"] = "bad", !["ExtraHosts"] = "bad",
                                              !["NoManageResolvConf"] = r, !["NoManageHosts"] = q]] :
            r \in {"true", "good", "bad"}, q \in {"true", "good", "bad"}}
    \cup {[Plain EXCEPT !.host.json = "none"]}

Grant(id, name) == [json |-> "object", id |-> id, name |-> name, members |-> NoMembers({"UID", "GID", "Mode"})]
Grants ==
    {Grant(i, n) : i \in {None, Other, Text(""), Text("s")}, n \in {None, Text("t"), Other}}
    \cup {[Grant(Text("s"), None) EXCEPT !.members["Mode"] = "bad"], [Grant(Text("s"), None) EXCEPT !.json = "other"]}
GrantRecords ==
    {[Plain EXCEPT !.config = c, !.secrets = s] : c \in {"object", "other"},
       s \in {None, Other} \cup {Array(<<g, Grant(Text("u"), Text("u"))>>) : g \in Grants}}
    \cup {[Plain EXCEPT !.dependencies = d] :
            d \in {None, Other, Array(<<>>), Array(<<Text("c"), Text("e")>>), Array(<<Text("c"), Text("")>>),
                   Array(<<Other, Text("c")>>)}}
    \cup {[Plain EXCEPT !.image_name = None]}

MCContainers == MountRecords \cup CommandRecords \cup ConfigRecords \cup NetworkRecords \cup GrantRecords
=============================================================================
