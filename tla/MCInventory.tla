---------------------------- MODULE MCInventory ----------------------------
(***************************************************************************)
(* Small instances of Inventory: one about the unmodelled-field budget,    *)
(* one about the probe and relationships under concurrent change.          *)
(***************************************************************************)
EXTENDS Inventory, TLC

Exactly(core, text) == [core |-> core, spelling |-> text]
V301 == Exactly(Ver(3, 0, 1), "3.0.1")
V300 == Exactly(Ver(3, 0, 0), "3.0.0")
V494 == Exactly(Ver(4, 9, 4), "4.9.4")
V494rhel == Exactly(Ver(4, 9, 4), "4.9.4-rhel")
V540 == Exactly(Ver(5, 4, 0), "5.4.0")
V610 == Exactly(Ver(6, 1, 0), "6.1.0")
V620 == Exactly(Ver(6, 2, 0), "6.2.0")

Legacy(v, min_api, reported) ==
    [minimum |-> v, maximum_exclusive |-> v + 1, minimum_api |-> min_api,
     output_supported |-> FALSE, reported |-> reported]
Ranged(min, max) ==
    [minimum |-> min, maximum_exclusive |-> max, minimum_api |-> Ver(4, 0, 0),
     output_supported |-> TRUE, reported |-> {}]
Pair(e, a) == [engine |-> e, api |-> a]

\* The reviewed lines of catalogue/v1/podman-capabilities.json.
ReviewedLines ==
    <<Legacy(Ver(3, 0, 1), Ver(3, 0, 0), {Pair("3.0.1", "3.0.0")}),
      Legacy(Ver(3, 4, 4), Ver(3, 1, 0), {Pair("3.4.4", "3.4.4")}),
      Legacy(Ver(4, 3, 1), Ver(4, 0, 0), {Pair("4.3.1", "4.3.1")}),
      Legacy(Ver(4, 9, 3), Ver(4, 0, 0), {Pair("4.9.3", "4.9.3")}),
      Legacy(Ver(4, 9, 4), Ver(4, 0, 0), {Pair("4.9.4", "4.9.4"), Pair("4.9.4-rhel", "4.9.4-rhel")}),
      Ranged(Ver(5, 4, 0), Ver(5, 5, 0)), Ranged(Ver(5, 5, 0), Ver(5, 6, 0)),
      Ranged(Ver(5, 6, 0), Ver(5, 7, 0)), Ranged(Ver(5, 7, 0), Ver(5, 8, 0)),
      Ranged(Ver(5, 8, 0), Ver(6, 0, 0)), Ranged(Ver(6, 0, 0), Ver(6, 1, 0)),
      Ranged(Ver(6, 1, 0), Ver(6, 2, 0))>>

None == {}
Empty == <<>>
Seen(refs) == Field("observed", {<<r>> : r \in refs})

NoContainerFields == [f \in ContainerFields |-> AbsentField]
NoPodFields == [f \in PodFields |-> AbsentField]
Resource(name, fields, unknown) ==
    [name |-> name, fields |-> fields, aliases |-> {}, local_image |-> 0, unknown |-> unknown]
Service(engine, a, resources) == [engine |-> engine, api |-> a, resources |-> resources]

-----------------------------------------------------------------------------
(* The budget: four kinds, at most two resources of a kind, more unmodelled *)
(* fields than the budget of four holds; and a Podman 3.0 service, which    *)
(* has no secrets to list.                                                  *)

BudgetALL == <<"container", "network", "volume", "secret">>
BudgetWorld(u, nets, secrets) ==
    Service(V540, V540,
        [container |-> [id \in 1..2 |-> Resource(10 + id, NoContainerFields, u)],
         network |-> [id \in nets |-> Resource(0, Empty, 2)],
         volume |-> [id \in {5} |-> Resource(5, Empty, u)],
         secret |-> [id \in secrets |-> Resource(0, Empty, 3)]])
WithoutSecrets == [BudgetWorld(3, {3}, {}) EXCEPT !.engine = V301, !.api = V300]
BudgetWorlds ==
    {BudgetWorld(u, nets, secrets) : u \in {0, 3}, nets \in {{}, {3}}, secrets \in {{}, {7, 8}}}
    \cup {WithoutSecrets}

-----------------------------------------------------------------------------
(* Relationships: containers 1 and 2, pods 4 and 5, image 7 (tag 70) and    *)
(* image 8; members leave, pods and containers vanish, tags move, and a     *)
(* container takes over another one's name.                                 *)

MemberALL == <<"container", "pod", "image">>
Member(name, pod, image, deps) ==
    Resource(name, [NoContainerFields EXCEPT !["ImageName"] = Seen({image}),
                                             !["Pod"] = Seen({pod} \ {0}),
                                             !["Dependencies"] = Seen(deps)], 0)
Unpodded(name, image, deps) ==
    [Member(name, 0, image, deps) EXCEPT !.fields["Pod"] = AbsentField]
Local(r, image) == [r EXCEPT !.local_image = image]
PodOf(name, members) ==
    Resource(name, [NoPodFields EXCEPT !["Containers"] = Seen(members)], 0)
Image(tags) == [Resource(0, Empty, 0) EXCEPT !.aliases = tags]
Resources(containers, pods, images) ==
    Service(V540, V540, [container |-> containers, pod |-> pods, image |-> images])

Images == (7 :> Image({70})) @@ (8 :> Image({}))
Moved == (7 :> Image({})) @@ (8 :> Image({70}))
AfterRemoval ==
    Resources(1 :> Local(Member(11, 4, 70, {}), 7), 4 :> PodOf(14, {1}), Images)
MemberWorlds ==
    {\* both containers in pod 4
     Resources((1 :> Local(Member(11, 4, 70, {}), 7)) @@ (2 :> Member(12, 4, 70, {1})),
               4 :> PodOf(14, {1, 2}), Images),
     \* container 2 removed
     AfterRemoval,
     \* container 2 recreated as 3, unpodded, with the name container 1 is known by
     Resources((1 :> Member(11, 4, 70, {})) @@ (3 :> Unpodded(11, 70, {11})),
               4 :> PodOf(14, {1}), Images),
     \* the pod is gone, its name taken by pod 5; the tag moved
     Resources((1 :> Local(Member(11, 5, 70, {}), 7)) @@ (2 :> Unpodded(12, 70, {})),
               5 :> PodOf(14, {1}), Moved),
     \* container 2 reports a malformed dependency list
     Resources((1 :> Member(11, 4, 70, {}))
               @@ (2 :> [Member(12, 4, 70, {}) EXCEPT !.fields["Dependencies"] = Field("malformed", {})]),
               4 :> PodOf(14, {1, 2}), Images)}

-----------------------------------------------------------------------------
(* The probe: the service replaced by any of these versions while it is     *)
(* probed or read, and every malformed reply.                               *)

ProbeVersions ==
    {<<V301, V300>>, <<V494rhel, V494rhel>>, <<V610, V494>>, <<V620, V620>>}
Replaced == {[AfterRemoval EXCEPT !.engine = v[1], !.api = v[2]] : v \in ProbeVersions}
ProbedWorlds == MemberWorlds \cup Replaced
BadPings ==
    {[transport |-> t, status |-> s, apis |-> a] :
        t \in {"ok", "TransportUnavailable"}, s \in {200, 500},
        a \in {<<>>, <<Unparsable>>, <<V540, V540>>}}
BadVersions ==
    {[transport |-> t, status |-> s, json |-> j, body |-> b, engines |-> e] :
        t \in {"ok", "InvalidTransportMessage"}, s \in {200, 500}, j \in BOOLEAN,
        b \in {"object", "ProbeJson", "ProbeShape"},
        e \in {<<>>, <<Unparsable>>, <<V540, V540>>}}
=============================================================================
