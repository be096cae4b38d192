----------------------------- MODULE MCPlanner -----------------------------
(***************************************************************************)
(* Small intents for Planner: three containers in every arrangement over   *)
(* two pods with every short list of startup dependencies, and a family of *)
(* intents with one defect each.                                           *)
(***************************************************************************)
EXTENDS Planner, TLC

MCKindOf == (1 :> "container") @@ (2 :> "container") @@ (3 :> "container")
            @@ (11 :> "pod") @@ (12 :> "pod") @@ (21 :> "network") @@ (22 :> "network")
            @@ (31 :> "volume") @@ (41 :> "image") @@ (51 :> "secret")

Bare(id) ==
    [kind |-> MCKindOf[id], id |-> id, external |-> FALSE, payload |-> 0,
     image |-> 0, pod |-> 0, networks |-> <<>>, network_order |-> <<>>, mounts |-> <<>>,
     grants |-> <<>>, environment |-> {}, members |-> <<>>, exclusive |-> {},
     unsupported |-> {}, material |-> TRUE]
External(id) == [Bare(id) EXCEPT !.external = TRUE]
Attached(id) == [network |-> id, static |-> {}]
Mount(source, destination) == [source |-> source, destination |-> destination]
Mounted(source, name) == [source |-> source, target |-> [field |-> "mount_target", name |-> name]]
Exported(source, name) == [source |-> source, target |-> [field |-> "environment_target", name |-> name]]

Container(id, pod) == [Bare(id) EXCEPT !.image = 41, !.pod = pod]
\* A container with one of everything.
Loaded(c) ==
    [c EXCEPT !.networks = IF c.pod = 0 THEN <<Attached(21)>> ELSE <<>>,
              !.mounts = <<Mount(31, 1), Mount(0, 2)>>,
              !.grants = <<Exported(51, 7), Mounted(51, 7)>>,
              !.environment = {8}]
Pod(id, members) == [Bare(id) EXCEPT !.members = members]

Ordered(S) == CHOOSE s \in [1..Cardinality(S) -> S] : \A i, j \in DOMAIN s : i < j => s[i] < s[j]
Members(at, p) == Ordered({c \in DOMAIN at : at[c] = p})
Dep(a, b) == [predecessor |-> a, dependent |-> b]

Intent(declarations, startup) == [resources |-> declarations, startup |-> startup, rootful |-> FALSE]

\* Every arrangement of three containers over two pods.
Arrangements == [1..3 -> {0, 11, 12}]
Arranged(at, net) ==
    <<Loaded(Container(3, at[3])), Container(1, at[1]), Container(2, at[2]),
      [Pod(11, Members(at, 11)) EXCEPT !.networks = <<Attached(21)>>], Pod(12, Members(at, 12)),
      net, Bare(41), Bare(51), Bare(31)>>

Deps == {Dep(a, b) : a, b \in 1..3}
Startups == {<<>>, <<Dep(1, 2), Dep(2, 3), Dep(3, 1)>>}
            \cup {<<d>> : d \in Deps} \cup {<<d, e>> : d, e \in Deps}
ArrangedIntents ==
    {Intent(Arranged(at, Bare(21)), s) : at \in Arrangements, s \in Startups}
    \cup {Intent(Arranged(at, External(21)), <<Dep(1, 2)>>) : at \in Arrangements}

\* One defect each, in an otherwise sound intent.
Sound == <<Loaded(Container(1, 0)), Container(2, 11), Pod(11, <<2>>), Bare(21), Bare(31),
           External(41), Bare(51)>>
Edit(i, r) == [Sound EXCEPT ![i] = r]
DefectiveResources ==
    {Append(Sound, Sound[1]), Append(Sound, [Sound[1] EXCEPT !.payload = 1]),
     Append(Sound, External(21)),
     Edit(1, Container(1, 11)), Edit(2, Container(2, 0)), Edit(2, Container(2, 12)),
     Edit(3, Pod(11, <<2, 2>>)), Edit(3, Pod(11, <<2, 3>>)), Edit(3, Pod(11, <<>>)),
     Edit(4, Bare(22)), Edit(6, Bare(22)), Edit(7, Bare(22)), Edit(5, Bare(22)),
     Edit(7, [Bare(51) EXCEPT !.material = FALSE]),
     Edit(1, [Sound[1] EXCEPT !.networks = <<Attached(21), Attached(21)>>]),
     Edit(1, [Sound[1] EXCEPT !.networks = <<[network |-> 21, static |-> {"static_mac"}]>>]),
     Edit(1, [Sound[1] EXCEPT !.network_order = <<22>>]),
     Edit(1, [Sound[1] EXCEPT !.mounts = <<Mount(31, 1), Mount(0, 1)>>]),
     Edit(1, [Sound[1] EXCEPT !.grants = <<Exported(51, 8)>>]),
     Edit(1, [Sound[1] EXCEPT !.grants = <<Mounted(51, 7), Mounted(51, 7)>>]),
     Edit(1, [Sound[1] EXCEPT !.unsupported = {"runtime.logging.driver"}]),
     Edit(2, [Container(2, 11) EXCEPT !.exclusive = {"hostname"}]),
     Edit(2, [Container(2, 11) EXCEPT !.networks = <<Attached(21)>>])}
DefectiveIntents ==
    {Intent(r, s) : r \in DefectiveResources \cup {Sound},
                    s \in {<<>>, <<Dep(1, 2)>>, <<Dep(2, 1), Dep(1, 2)>>, <<Dep(3, 1)>>}}

MCIntents == ArrangedIntents \cup DefectiveIntents
=============================================================================
