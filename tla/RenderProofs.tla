---------------------------- MODULE RenderProofs ----------------------------
(***************************************************************************)
(* Proofs about Render, for every declaration, target and sequence of      *)
(* builder calls: what the builders keep, that the planner and the         *)
(* renderer agree on the rules they share, that an outcome is whole or     *)
(* absent with every finding once, what the script checks and what of the  *)
(* environment a rendering shows.                                          *)
(***************************************************************************)
EXTENDS Render, FiniteSetTheorems, TLAPS

-----------------------------------------------------------------------------
(* Declaring: what every builder call keeps. *)

\* An intent as a record of its six fields.
Fields(c) ==
    c = [id |-> c.id, image |-> c.image, pod |-> c.pod, order |-> c.order, opt |-> c.opt, list |-> c.list]

\* What an accepted call leaves alone: values set once, what the lists
\* already hold, the caps, the pod and the network order.
Kept(before, after) ==
    /\ \A f \in OnceFields : before.opt[f] # {} => after.opt[f] = before.opt[f]
    /\ \A f \in Lists : IsPrefix(before.list[f], after.list[f])
    /\ \A f \in Lists \ FreeLists : Len(after.list[f]) <= Cap[f]
    /\ before.pod # {} => after.pod = before.pod
    /\ before.order # {} => after.order = before.order

\* What a mutator answers: a refusal and the same intent, or an acceptance
\* and another one that keeps what was declared.
Answers(c, result) ==
    \/ result.answer # "ok" /\ result.intent = c
    \/ /\ result.answer = "ok" /\ result.intent # c /\ result.intent.id = c.id
       /\ Intent(result.intent) /\ Kept(c, result.intent)

\* A refusal answers with the intent it was given.
LEMMA RefuseAnswers ==
    ASSUME NEW c, NEW code, code # "ok"
    PROVE  Answers(c, Refuse(c, code))
  BY DEF Answers, Refuse

\* A sequence is a prefix of itself.
LEMMA SamePrefix == \A s : IsPrefix(s, s)
  BY DEF IsPrefix

\* A setter of an optional field (set_once) takes one value and no second.
LEMMA SetOnceAnswers ==
    ASSUME NEW c, Intent(c), NEW field \in OnceFields, NEW v, field = "command" => List(v)
    PROVE  Answers(c, set_once(c, field, v))
  <1> DEFINE d == [c EXCEPT !.opt[field] = {v}]
  <1>1. Fields(c)
    BY DEF Intent, Fields
  <1>2. /\ d.id = c.id /\ d.image = c.image /\ d.pod = c.pod /\ d.order = c.order /\ d.list = c.list
        /\ d.opt = [c.opt EXCEPT ![field] = {v}]
    BY <1>1 DEF Fields
  <1>3. Fields(d)
    BY <1>1 DEF Fields
  <1>4. ASSUME c.opt[field] = {}
        PROVE  Answers(c, Accept(d))
    <2> HIDE DEF d
    <2>0. c.opt = [f \in OnceFields |-> c.opt[f]]
      BY DEF Intent
    <2>1. /\ d.opt[field] = {v} /\ d.opt = [f \in OnceFields |-> d.opt[f]]
          /\ \A f \in OnceFields : f # field => d.opt[f] = c.opt[f]
      BY <1>2, <2>0
    <2>2. d # c
      BY <1>4, <2>1
    <2>3. Intent(d)
      <3>1. d.order = {} \/ \E ids \in d.order : ids # <<>> /\ List(ids) /\ d.order = {ids}
        BY <1>2 DEF Intent
      <3>2. d.opt["command"] = {} \/ \E a \in d.opt["command"] : List(a) /\ d.opt["command"] = {a}
        <4>1. CASE field = "command"
          BY <2>1, <4>1
        <4>2. CASE field # "command"
          <5>1. d.opt["command"] = c.opt["command"]
            BY <2>1, <4>2 DEF OnceFields, SettingsFields
          <5> QED
            BY <5>1 DEF Intent
        <4> QED
          BY <4>1, <4>2
      <3> QED
        BY <1>2, <1>3, <2>1, <3>1, <3>2 DEF Intent, Fields
    <2>4. \A f \in Lists \ FreeLists : Len(d.list[f]) <= Cap[f]
      BY <1>2 DEF Intent
    <2>5. Kept(c, d)
      BY <1>2, <1>4, <2>1, <2>4, SamePrefix DEF Kept
    <2> QED
      BY <1>2, <2>2, <2>3, <2>5 DEF Answers, Accept
  <1> HIDE DEF d
  <1> QED
    BY <1>4, RefuseAnswers DEF set_once, d

\* set_pod takes one pod and no second.
LEMMA SetPodAnswers ==
    ASSUME NEW c, Intent(c), NEW v \in DOMAIN KindOf
    PROVE  Answers(c, set_pod(c, v))
  <1> DEFINE d == [c EXCEPT !.pod = {v}]
  <1>1. Fields(c)
    BY DEF Intent, Fields
  <1>2. /\ d.id = c.id /\ d.image = c.image /\ d.opt = c.opt /\ d.order = c.order /\ d.list = c.list
        /\ d.pod = {v}
    BY <1>1 DEF Fields
  <1>3. Fields(d)
    BY <1>1 DEF Fields
  <1>4. ASSUME c.pod = {}
        PROVE  Answers(c, Accept(d))
    <2> HIDE DEF d
    <2>2. d # c
      BY <1>4, <1>2
    <2>3. Intent(d)
      BY <1>2, <1>3 DEF Intent, Fields
    <2>4. \A f \in Lists \ FreeLists : Len(d.list[f]) <= Cap[f]
      BY <1>2 DEF Intent
    <2>5. Kept(c, d)
      BY <1>2, <1>4, <2>4, SamePrefix DEF Kept
    <2> QED
      BY <1>2, <2>2, <2>3, <2>5 DEF Answers, Accept
  <1> HIDE DEF d
  <1> QED
    BY <1>4, RefuseAnswers DEF set_pod, d

\* set_network_order takes one order, not an empty one, and no second.
LEMMA SetOrderAnswers ==
    ASSUME NEW c, Intent(c), NEW v, List(v)
    PROVE  Answers(c, set_network_order(c, v))
  <1> DEFINE d == [c EXCEPT !.order = {v}]
  <1>1. Fields(c)
    BY DEF Intent, Fields
  <1>2. /\ d.id = c.id /\ d.image = c.image /\ d.opt = c.opt /\ d.pod = c.pod /\ d.list = c.list
        /\ d.order = {v}
    BY <1>1 DEF Fields
  <1>3. Fields(d)
    BY <1>1 DEF Fields
  <1>4. ASSUME c.order = {}, v # <<>>
        PROVE  Answers(c, Accept(d))
    <2> HIDE DEF d
    <2>2. d # c
      BY <1>4, <1>2
    <2>3. Intent(d)
      BY <1>2, <1>3, <1>4 DEF Intent, Fields
    <2>4. \A f \in Lists \ FreeLists : Len(d.list[f]) <= Cap[f]
      BY <1>2 DEF Intent
    <2>5. Kept(c, d)
      BY <1>2, <1>4, <2>4, SamePrefix DEF Kept
    <2> QED
      BY <1>2, <2>2, <2>3, <2>5 DEF Answers, Accept
  <1> HIDE DEF d
  <1> QED
    BY <1>4, RefuseAnswers DEF set_network_order, d

\* The adders append one entry below the cap and refuse at it.
LEMMA AddAnswers ==
    ASSUME NEW c, Intent(c), NEW field \in Lists, NEW v,
           field = "environment" => v.class \in EnvironmentClasses
    PROVE  Answers(c, add_entry(c, field, v))
  <1> DEFINE s == c.list[field]
             e == Append(s, v)
             d == [c EXCEPT !.list[field] = e]
  <1>1. Fields(c)
    BY DEF Intent, Fields
  <1>2. /\ d.id = c.id /\ d.image = c.image /\ d.pod = c.pod /\ d.order = c.order /\ d.opt = c.opt
        /\ d.list = [c.list EXCEPT ![field] = e]
    BY <1>1 DEF Fields
  <1>3. Fields(d)
    BY <1>1 DEF Fields
  <1>4. s \in Seq(Elements(s))
    BY DEF Intent, List
  <1>5. /\ Len(e) = Len(s) + 1 /\ Len(s) \in Nat /\ e[Len(e)] = v
        /\ \A i \in 1..Len(s) : e[i] = s[i]
        /\ DOMAIN e = 1..Len(e) /\ DOMAIN s = 1..Len(s)
    BY <1>4
  <1>6. e \in Seq(Elements(e))
    <2>1. Elements(s) \subseteq Elements(e) /\ v \in Elements(e)
      BY <1>5 DEF Elements
    <2> QED
      BY <1>4, <2>1
  <1>7. IsPrefix(s, e)
    BY <1>4, <1>5 DEF IsPrefix
  <1>8. Elements(e) = Elements(s) \cup {v}
    BY <1>5 DEF Elements
  <1>9. ASSUME field \in FreeLists \/ Len(s) # Cap[field]
        PROVE  Answers(c, Accept(d))
    <2> HIDE DEF d, e
    <2>0. c.list = [f \in Lists |-> c.list[f]]
      BY DEF Intent
    <2>1. /\ d.list[field] = e /\ d.list = [f \in Lists |-> d.list[f]]
          /\ \A f \in Lists : f # field => d.list[f] = c.list[f]
      BY <1>2, <2>0
    <2>2. d # c
      BY <1>5, <2>1
    <2>3. \A f \in Lists \ FreeLists : Len(d.list[f]) <= Cap[f]
      <3> TAKE f \in Lists \ FreeLists
      <3>1. Len(c.list[f]) <= Cap[f] /\ Cap[f] \in Nat
        BY CapAssumption DEF Intent
      <3> QED
        BY <1>5, <1>9, <2>1, <3>1
    <2>4. Intent(d)
      <3>1. \A f \in Lists : List(d.list[f])
        BY <1>6, <2>1 DEF Intent, List
      <3>2. \A x \in Elements(d.list["environment"]) : x.class \in EnvironmentClasses
        <4>1. CASE field = "environment"
          BY <1>8, <2>1, <4>1 DEF Intent
        <4>2. CASE field # "environment"
          <5>1. d.list["environment"] = c.list["environment"]
            BY <2>1, <4>2 DEF Lists, SettingLists
          <5> QED
            BY <5>1 DEF Intent
        <4> QED
          BY <4>1, <4>2
      <3>3. /\ d.order = {} \/ \E ids \in d.order : ids # <<>> /\ List(ids) /\ d.order = {ids}
            /\ d.opt["command"] = {} \/ \E a \in d.opt["command"] : List(a) /\ d.opt["command"] = {a}
        BY <1>2 DEF Intent
      <3> QED
        BY <1>2, <1>3, <2>1, <2>3, <3>1, <3>2, <3>3 DEF Intent, Fields
    <2>5. Kept(c, d)
      <3>1. \A f \in Lists : IsPrefix(c.list[f], d.list[f])
        BY <1>7, <2>1, SamePrefix
      <3> QED
        BY <1>2, <2>3, <3>1 DEF Kept
    <2> QED
      BY <1>2, <2>2, <2>4, <2>5 DEF Answers, Accept
  <1> HIDE DEF d
  <1>10. \A code \in {FullCode(field), "DeploymentDuplicateResource"} : code # "ok"
    BY DEF FullCode
  <1> QED
    BY <1>9, <1>10, RefuseAnswers DEF add_entry, d

\* A call of one of the four mutators on a field it accepts.
CallShape(call) ==
    \/ call[1] = "set" /\ call[2] \in OnceFields /\ (call[2] = "command" => List(call[3]))
    \/ /\ call[1] = "add" /\ call[2] \in Lists
       /\ call[2] = "environment" => call[3].class \in EnvironmentClasses
    \/ call[1] = "pod" /\ call[3] \in DOMAIN KindOf
    \/ call[1] = "order" /\ List(call[3])

\* Every builder call answers in that way.
LEMMA CalledAnswers ==
    ASSUME NEW c, Intent(c), NEW call, CallShape(call)
    PROVE  Answers(c, Called(c, call))
  <1>1. CASE call[1] = "set" /\ call[2] \in OnceFields /\ (call[2] = "command" => List(call[3]))
    BY <1>1, SetOnceAnswers, RefuseAnswers DEF Called
  <1>2. CASE call[1] = "add" /\ call[2] \in Lists
             /\ (call[2] = "environment" => call[3].class \in EnvironmentClasses)
    BY <1>2, AddAnswers, RefuseAnswers DEF Called
  <1>3. CASE call[1] = "pod" /\ call[3] \in DOMAIN KindOf
    BY <1>3, SetPodAnswers DEF Called
  <1>4. CASE call[1] = "order" /\ List(call[3])
    BY <1>4, SetOrderAnswers DEF Called
  <1> QED
    BY <1>1, <1>2, <1>3, <1>4 DEF CallShape

\* The declared resources are a function, and every one is an intent under
\* its own identity; what is external is never a container or a pod.
ResourcesInv == resources = [id \in DOMAIN resources |-> resources[id]]
IdentitiesInv == /\ IsFiniteSet(DOMAIN resources) /\ DOMAIN resources \subseteq DOMAIN KindOf
                 /\ external \subseteq DOMAIN resources
                 /\ \A id \in external : KindOf[id] \notin {"container", "pod"}
IntentsInv ==
    \A id \in DOMAIN resources :
        /\ resources[id].id = id
        /\ KindOf[id] \in BuilderKinds \cup {"image", "secret"}
        /\ KindOf[id] \in BuilderKinds => Intent(resources[id])
DeclarationInv == family \in DOMAIN Calls /\ ResourcesInv /\ IdentitiesInv /\ IntentsInv

\* A caller starts from such declarations.
LEMMA DeclarationInit ==
    ASSUME Init
    PROVE  DeclarationInv
  BY SetupsAssumption DEF Init, DeclarationInv, ResourcesInv, IdentitiesInv, IntentsInv

\* A builder call keeps them, is accepted exactly when it changes them, and
\* keeps what it does not add.
LEMMA CallStep ==
    ASSUME DeclarationInv, NEW c \in Calls[family], Call(c[1], c[2])
    PROVE  /\ DeclarationInv'
           /\ answer' = "ok" <=> resources' # resources
           /\ \A id \in DOMAIN resources : resources'[id] # resources[id] => Kept(resources[id], resources'[id])
  <1> DEFINE at == c[1]
             result == Called(resources[at], c[2])
  <1>1. KindOf[at] \in BuilderKinds /\ CallShape(c[2])
    BY CallsAssumption DEF DeclarationInv, CallShape
  <1>2. /\ at \in DOMAIN resources /\ resources' = [resources EXCEPT ![at] = result.intent]
        /\ answer' = result.answer /\ external' = external /\ family' = family
    BY DEF Call
  <1>3. Intent(resources[at]) /\ resources[at].id = at
    <2>1. at \in DOMAIN resources /\ KindOf[at] \in BuilderKinds
      BY <1>1, <1>2
    <2> HIDE DEF at
    <2> QED
      BY <2>1 DEF DeclarationInv, IntentsInv
  <1>4. Answers(resources[at], result)
    BY <1>1, <1>3, CalledAnswers
  <1> HIDE DEF at, result
  <1>5. /\ DOMAIN resources' = DOMAIN resources /\ resources'[at] = result.intent
        /\ \A id \in DOMAIN resources : id # at => resources'[id] = resources[id]
        /\ resources' = [id \in DOMAIN resources |-> resources'[id]]
    BY <1>2
  <1>6. CASE result.answer # "ok" /\ result.intent = resources[at]
    <2>1. resources' = resources
      BY <1>5, <1>6 DEF DeclarationInv, ResourcesInv
    <2> QED
      <3>1. DeclarationInv'
        BY <1>2, <2>1 DEF DeclarationInv, ResourcesInv, IdentitiesInv, IntentsInv
      <3> QED
        BY <1>2, <1>6, <2>1, <3>1
  <1>7. CASE /\ result.answer = "ok" /\ result.intent # resources[at] /\ result.intent.id = resources[at].id
             /\ Intent(result.intent) /\ Kept(resources[at], result.intent)
    <2>1. resources' # resources
      BY <1>2, <1>5, <1>7
    <2>2. \A id \in DOMAIN resources :
            /\ resources'[id].id = id
            /\ KindOf[id] \in BuilderKinds \cup {"image", "secret"}
            /\ KindOf[id] \in BuilderKinds => Intent(resources'[id])
      BY <1>3, <1>5, <1>7 DEF DeclarationInv, IntentsInv
    <2>3. DeclarationInv'
      <3>1. ResourcesInv'
        BY <1>5 DEF ResourcesInv
      <3>2. IdentitiesInv'
        BY <1>2, <1>5 DEF DeclarationInv, IdentitiesInv
      <3>3. IntentsInv'
        BY <1>5, <2>2 DEF IntentsInv
      <3> QED
        BY <1>2, <3>1, <3>2, <3>3 DEF DeclarationInv
    <2> QED
      BY <1>2, <1>5, <1>7, <2>1, <2>3
  <1> QED
    BY <1>4, <1>6, <1>7 DEF Answers

\* Planning and rendering read the declaration and never write it.
LEMMA DeclarationStays ==
    ASSUME [Next]_vars, ~\E c \in Calls[family] : Call(c[1], c[2])
    PROVE  UNCHANGED declaration
  BY DEF Next, vars, declaration, PlanDeployment, RenderDeployment, SkipBlocked, RefuseOperation,
         RenderOperation, FinishRendering

\* The declared resources stay well formed through every sequence of builder
\* calls, planning and rendering (src/src/deployment.rs, the builders).
THEOREM DeclarationInvariant == Spec => []DeclarationInv
  <1>1. DeclarationInv /\ [Next]_vars => DeclarationInv'
    <2> SUFFICES ASSUME DeclarationInv, [Next]_vars
                 PROVE  DeclarationInv'
      OBVIOUS
    <2>1. CASE \E c \in Calls[family] : Call(c[1], c[2])
      BY <2>1, CallStep
    <2>2. CASE ~\E c \in Calls[family] : Call(c[1], c[2])
      BY <2>2, DeclarationStays DEF DeclarationInv, ResourcesInv, IdentitiesInv, IntentsInv, declaration
    <2> QED
      BY <2>1, <2>2
  <1> QED
    BY <1>1, DeclarationInit, PTL DEF Spec

\* No builder call loses or overwrites what was declared, whatever the calls,
\* the caps and the resources (set_once, add_distinct, set_pod,
\* set_network_order).
THEOREM DeclarationsAreKept == Spec => CallsKeepDeclarations
  <1>1. DeclarationInv /\ [Next]_vars =>
          [\A id \in DOMAIN resources \ external :
            LET before == resources[id]
                after == resources'[id]
            IN  /\ stage = "declare" /\ calls' # calls => (answer' = "ok" <=> resources' # resources)
                /\ before # after =>
                     /\ \A f \in OnceFields : before.opt[f] # {} => after.opt[f] = before.opt[f]
                     /\ \A f \in Lists : IsPrefix(before.list[f], after.list[f])
                     /\ \A f \in Lists \ FreeLists : Len(after.list[f]) <= Cap[f]
                     /\ before.pod # {} => after.pod = before.pod
                     /\ before.order # {} => after.order = before.order]_vars
    <2> SUFFICES ASSUME DeclarationInv, [Next]_vars, NEW id \in DOMAIN resources \ external
                 PROVE  /\ stage = "declare" /\ calls' # calls => (answer' = "ok" <=> resources' # resources)
                        /\ resources[id] # resources'[id] => Kept(resources[id], resources'[id])
      BY DEF Kept
    <2>1. CASE \E c \in Calls[family] : Call(c[1], c[2])
      BY <2>1, CallStep
    <2>2. CASE ~\E c \in Calls[family] : Call(c[1], c[2])
      BY <2>2, DeclarationStays DEF declaration
    <2> QED
      BY <2>1, <2>2
  <1> QED
    BY <1>1, DeclarationInvariant, PTL DEF Spec, CallsKeepDeclarations

-----------------------------------------------------------------------------
(* The planner's acceptance against the renderer's refusals. *)

\* What validate_resources checked of a container it accepted.
LEMMA ContainerAccepted ==
    ASSUME NEW res, NEW rootful, NEW id \in DOMAIN res, validate_resources(res, rootful) = {},
           ~res[id].external, res[id].kind = "container"
    PROVE  /\ res[id].unsupported = {}
           /\ res[id].pod # 0 => /\ res[id].exclusive = {} /\ res[id].networks = <<>>
                                 /\ res[id].network_order = <<>>
           /\ ~rootful => \A n \in Elements(res[id].networks) : n.static = {}
  <1> DEFINE c == res[id]
  <1>1. validate_container(res, c, rootful) = {}
    BY DEF validate_resources
  <1>2. /\ {F("DeploymentUnsupportedCombination", c.id, x) : x \in c.unsupported} = {}
        /\ validate_pod_member(res, c) = {}
        /\ validate_static_network_addresses(c, rootful) = {}
    BY <1>1 DEF validate_container
  <1>3. c.unsupported = {}
    BY <1>2
  <1>4. ASSUME c.pod # 0
        PROVE  c.exclusive = {} /\ c.networks = <<>> /\ c.network_order = <<>>
    <2>1. /\ {F("DeploymentUnsupportedCombination", c.id, x) : x \in c.exclusive} = {}
          /\ When(c.networks # <<>>, F("DeploymentUnsupportedCombination", c.id, "networks")) = {}
          /\ When(c.network_order # <<>>, F("DeploymentUnsupportedCombination", c.id, "network_order")) = {}
      BY <1>2, <1>4 DEF validate_pod_member
    <2> QED
      BY <2>1 DEF When
  <1>5. ASSUME ~rootful, NEW n \in Elements(c.networks)
        PROVE  n.static = {}
    <2>1. UNION {m.static : m \in Elements(c.networks)} = {}
      BY <1>2, <1>5 DEF validate_static_network_addresses
    <2> QED
      BY <2>1
  <1> QED
    BY <1>3, <1>4, <1>5

\* What validate_resources checked of a pod it accepted.
LEMMA PodAccepted ==
    ASSUME NEW res, NEW rootful, NEW id \in DOMAIN res, validate_resources(res, rootful) = {},
           ~res[id].external, res[id].kind = "pod"
    PROVE  ~rootful => \A n \in Elements(res[id].networks) : n.static = {}
  <1> DEFINE c == res[id]
  <1>1. validate_pod(res, c, rootful) = {}
    BY DEF validate_resources
  <1>2. validate_static_network_addresses(c, rootful) = {}
    BY <1>1 DEF validate_pod
  <1> SUFFICES ASSUME ~rootful, NEW n \in Elements(c.networks)
               PROVE  n.static = {}
    OBVIOUS
  <1>3. UNION {m.static : m \in Elements(c.networks)} = {}
    BY <1>2 DEF validate_static_network_addresses
  <1> QED
    BY <1>3

\* What the planner's acceptance says of a container: no refused setting, no
\* setting of its own where the pod has it, no static address without root.
Admitted(r, t) ==
    /\ validate_runtime_settings(r, t) = {}
    /\ r.pod # {} => pod_exclusive(r) = {} /\ r.list["networks"] = <<>> /\ r.order = {}
    /\ t.context # "rootful" => \A n \in Elements(r.list["networks"]) : ~has_static_address(n)

\* The renderer's tests by minor release and the planner's comparisons say the
\* same of every reviewed version: the catalogue has one patch level in each
\* of the minor releases where they could differ.
LEMMA VersionsAgree ==
    ASSUME NEW v \in ReviewedVersions
    PROVE  /\ ~supports_journald_labels(v) => v < 60000
           /\ ~supports_unlimited_rlimit(v) => v < 50600
  BY ReviewedVersionsAssumption DEF supports_journald_labels, supports_unlimited_rlimit

\* What validate_runtime_settings tested, when it found nothing.
LEMMA PlannerSettings ==
    ASSUME NEW r, NEW t, validate_runtime_settings(r, t) = {}
    PROVE  /\ ~startup_without_health(r)
           /\ logging_fields(r) = {} /\ security_fields(r) = {}
           /\ ~(Listed(r, "journald_labels") /\ t.engine < 60000)
           /\ ~(unlimited(r) /\ t.engine < 50600)
  <1>1. /\ When(startup_without_health(r), "runtime.startup_health_requires_health") = {}
        /\ logging_fields(r) = {}
        /\ When(Listed(r, "journald_labels") /\ t.engine < 60000,
                "runtime.logging.journald_labels.target_version") = {}
        /\ security_fields(r) = {}
        /\ When(unlimited(r) /\ t.engine < 50600,
                "runtime.resources.rlimits.unlimited.target_version") = {}
    BY DEF validate_runtime_settings
  <1> QED
    BY <1>1 DEF When

\* The renderer's logging tests repeat the planner's.
LEMMA LoggingAgrees ==
    ASSUME NEW r, NEW v, logging_fields(r) = {}, ~Listed(r, "journald_labels") \/ supports_journald_labels(v)
    PROVE  logging_unsupported(r, v) = {}
  <1>1. /\ When(~Has(r, "driver") /\ (Has(r, "max_size") \/ Listed(r, "journald_labels")),
                "runtime.logging.driver") = {}
        /\ When(Listed(r, "journald_labels") /\ ~Is(r, "driver", "journald"),
              "runtime.logging.journald_labels") = {}
        /\ When(Has(r, "max_size") /\ ~Is(r, "driver", "k8s-file"), "runtime.logging.max_size") = {}
    BY DEF logging_fields
  <1>2. /\ ~(r.opt["driver"] = {} /\ (r.opt["max_size"] # {} \/ Listed(r, "journald_labels")))
        /\ ~(Listed(r, "journald_labels") /\ r.opt["driver"] # {"journald"})
        /\ ~(r.opt["max_size"] # {} /\ r.opt["driver"] # {"k8s-file"})
    BY <1>1 DEF When, Has, Is
  <1> QED
    BY <1>2 DEF logging_unsupported, When

\* The renderer's security tests repeat the planner's.
LEMMA SecurityAgrees ==
    ASSUME NEW r, security_fields(r) = {}
    PROVE  security_unsupported(r) = {}
  <1>1. /\ When(Is(r, "privileged", TRUE) /\ (Listed(r, "cap_add") \/ Listed(r, "cap_drop")),
                "runtime.security.privileged_capabilities") = {}
        /\ When(Elements(r.list["cap_add"]) \cap Elements(r.list["cap_drop"]) # {},
                "runtime.security.capability_overlap") = {}
        /\ When(Is(r, "read_write_tmpfs", TRUE) /\ ~Is(r, "read_only_filesystem", TRUE),
                "runtime.security.read_write_tmpfs") = {}
    BY DEF security_fields
  <1>2. /\ ~(r.opt["privileged"] = {TRUE} /\ \E f \in {"cap_add", "cap_drop"} : Listed(r, f))
        /\ ~\E x \in Elements(r.list["cap_add"]) : x \in Elements(r.list["cap_drop"])
        /\ ~(r.opt["read_write_tmpfs"] = {TRUE} /\ r.opt["read_only_filesystem"] # {TRUE})
    BY <1>1 DEF When, Is
  <1> QED
    BY <1>2 DEF security_unsupported, When

\* Of an accepted container's runtime settings the renderer refuses only the
\* health commands it may not show.
LEMMA RuntimeAgrees ==
    ASSUME NEW r, NEW t, Admitted(r, t), t.engine \in ReviewedVersions
    PROVE  unsupported_runtime_fields(r, t.engine)
             \subseteq {"runtime.health.command", "runtime.startup_health.command"}
  <1>1. /\ ~startup_without_health(r) /\ logging_unsupported(r, t.engine) = {} /\ security_unsupported(r) = {}
        /\ ~(unlimited(r) /\ ~supports_unlimited_rlimit(t.engine))
    BY PlannerSettings, VersionsAgree, LoggingAgrees, SecurityAgrees DEF Admitted
  <1>2. ~(r.pod # {} /\ \E f \in NamespaceFields : Has(r, f))
    <2>1. r.pod # {} => When(\E f \in NamespaceFields : Has(r, f), "runtime.namespaces.pod_member") = {}
      BY DEF Admitted, pod_exclusive
    <2> QED
      BY <2>1 DEF When
  <1> QED
    BY <1>1, <1>2 DEF unsupported_runtime_fields, When

\* Of an accepted pod member it refuses only its restart policy, and no static
\* address of an accepted container.
LEMMA MemberAgrees ==
    ASSUME NEW r, NEW t, Admitted(r, t)
    PROVE  /\ member_fields(r) \subseteq {"restart_policy.pod_member"}
           /\ t.context # "rootful" => static_needs_rootful(r, t.context) = {}
  <1>1. ASSUME r.pod # {}
        PROVE  /\ ~Listed(r, "networks") /\ ~Listed(r, "ports") /\ ~dns_declared(r)
               /\ ~Listed(r, "hosts") /\ r.order = {}
    <2>1. /\ When(Listed(r, "ports"), "ports") = {} /\ When(dns_declared(r), "dns") = {}
          /\ When(Listed(r, "hosts"), "host_aliases") = {}
      BY <1>1 DEF Admitted, pod_exclusive
    <2> QED
      BY <1>1, <2>1 DEF When, Admitted, Listed
  <1>2. member_fields(r) \subseteq {"restart_policy.pod_member"}
    BY <1>1 DEF member_fields, When
  <1>3. t.context # "rootful" => static_needs_rootful(r, t.context) = {}
    BY DEF Admitted, static_needs_rootful, When
  <1> QED
    BY <1>2, <1>3

\* What the renderer may still refuse of a container the planner accepted.
Refusable ==
    {"runtime.health.command", "runtime.startup_health.command", "restart_policy.pod_member", "network_order",
     "secret_grants", "mounts.subpath_nocopy", "environment.sensitive_inline", "environment.external"}

\* unsupported_fields of an accepted container names nothing else, and its two
\* tests for network_order are never both met.
LEMMA ContainerGate ==
    ASSUME NEW r, NEW t, Admitted(r, t), t.engine \in ReviewedVersions, NEW granted
    PROVE  /\ container_fields(r, t.engine, t.context, granted) \subseteq Refusable
           /\ member_fields(r) \cap order_fields(r, t.engine) = {}
  <1>1. unsupported_runtime_fields(r, t.engine)
             \subseteq {"runtime.health.command", "runtime.startup_health.command"}
    BY RuntimeAgrees
  <1>2. member_fields(r) \subseteq {"restart_policy.pod_member"} /\ static_needs_rootful(r, t.context) = {}
    BY MemberAgrees DEF static_needs_rootful, When
  <1>3. order_fields(r, t.engine) \subseteq {"network_order"}
    BY DEF order_fields, When
  <1>4. environment_fields(r, granted) \subseteq {"environment.sensitive_inline", "environment.external"}
    BY DEF environment_fields, When
  <1>5. /\ When(~secret_grants_renderable(r.list["secret_grants"]), "secret_grants") \subseteq {"secret_grants"}
        /\ When(\E m \in Elements(r.list["mounts"]) : mount_has_unsupported_subpath(m),
                "mounts.subpath_nocopy") \subseteq {"mounts.subpath_nocopy"}
    BY DEF When
  <1>6. container_fields(r, t.engine, t.context, granted) \subseteq Refusable
    <2> SUFFICES ASSUME NEW x \in container_fields(r, t.engine, t.context, granted)
                 PROVE  x \in Refusable
      OBVIOUS
    <2>1. \/ x \in unsupported_runtime_fields(r, t.engine) \/ x \in member_fields(r)
          \/ x \in static_needs_rootful(r, t.context) \/ x \in order_fields(r, t.engine)
          \/ x \in When(~secret_grants_renderable(r.list["secret_grants"]), "secret_grants")
          \/ x \in When(\E m \in Elements(r.list["mounts"]) : mount_has_unsupported_subpath(m),
                        "mounts.subpath_nocopy")
          \/ x \in environment_fields(r, granted)
      BY DEF container_fields
    <2> QED
      BY <1>1, <1>2, <1>3, <1>4, <1>5, <2>1 DEF Refusable
  <1> QED
    BY <1>2, <1>3, <1>6

\* A container past unsupported_fields fails only for a name or a path the
\* command line cannot carry.
LEMMA ContainerRenders ==
    ASSUME NEW op, NEW r, NEW version, NEW context, NEW sources, NEW granted \in BOOLEAN, Intent(r),
           container_fields(r, version, context, granted) = {},
           ~render_container_create(op, r, version, sources, granted).ok
    PROVE  render_container_create(op, r, version, sources, granted).field
             \in {"networks.cli_ambiguous", "mounts.cli_ambiguous"}
  <1> DEFINE x == render_container_create(op, r, version, sources, granted)
  <1>1. /\ When(~secret_grants_renderable(r.list["secret_grants"]), "secret_grants") = {}
        /\ environment_fields(r, granted) = {}
        /\ unsupported_runtime_fields(r, version) = {}
    BY DEF container_fields
  <1>2. append_secret_grants_arguments(r.list["secret_grants"]) # {}
    BY <1>1 DEF append_secret_grants_arguments, When
  <1>3. append_container_setting_arguments(r, granted).ok
    <2>1. \A e \in Elements(r.list["environment"]) :
            /\ e.class \in EnvironmentClasses /\ e.class # "external"
            /\ ~granted => e.class # "protected"
      BY <1>1 DEF environment_fields, When, Intent
    <2>2. environment_shown(r, granted)
      BY <2>1 DEF environment_shown, authorized_environment_value, EnvironmentClasses
    <2> QED
      BY <2>2 DEF append_container_setting_arguments, Ok
  <1>4. append_container_runtime_arguments(r, version).ok
    <2>1. /\ When(sensitive_health(r, "health"), "runtime.health.command") = {}
          /\ When(sensitive_health(r, "startup_health"), "runtime.startup_health.command") = {}
          /\ logging_unsupported(r, version) = {}
          /\ When(unlimited(r) /\ ~supports_unlimited_rlimit(version),
                  "runtime.resources.rlimits.unlimited.target_version") = {}
      BY <1>1 DEF unsupported_runtime_fields
    <2>2. When(Listed(r, "journald_labels") /\ ~supports_journald_labels(version),
                "runtime.logging.journald_labels.target_version") = {}
      BY <2>1 DEF logging_unsupported
    <2>3. unshown_runtime(r, version) = {}
      BY <2>1, <2>2 DEF unshown_runtime, unshown_health
    <2> QED
      BY <2>3 DEF append_container_runtime_arguments, Ok
  <1>5. \A argv, path, json : Rendered(op, argv, path, json).ok
    BY DEF Rendered, Ok
  <1>6. \A field : Err(field).field = field
    BY DEF Err
  <1> QED
    BY <1>2, <1>3, <1>4, <1>5, <1>6 DEF render_container_create

\* Only a create fails to render past unsupported_fields, and not for a rule
\* the planner shares: starts and pulls always render.
LEMMA OperationFails ==
    ASSUME NEW op, NEW r, NEW version, NEW context, NEW sources, NEW granted \in BOOLEAN,
           KindOf[r.id] \in BuilderKinds \cup {"image", "secret"}, KindOf[r.id] \in BuilderKinds => Intent(r),
           op.action \in {"StartPod", "StartContainer", "EnsureImage", "Create"},
           op.action = "Create" => KindOf[r.id] # "image",
           unsupported_fields(r, version, context, granted) = {},
           ~render_operation(op, r, version, sources, granted).ok
    PROVE  /\ op.action = "Create"
           /\ render_operation(op, r, version, sources, granted).field \notin SharedRules
  <1>1. /\ \A argv, path, json : Rendered(op, argv, path, json).ok /\ Plain(op, argv, path).ok
        /\ \A v : Ok(v).ok
    BY DEF Rendered, Plain, Ok
  <1>2. op.action = "Create"
    BY <1>1 DEF render_operation
  <1>3. \A field : Err(field).field = field
    BY DEF Err
  <1>4. render_operation(op, r, version, sources, granted) = render_create(op, r, version, sources, granted)
    BY <1>2 DEF render_operation
  <1>5. KindOf[r.id] \in {"pod", "container"}
    <2>1. ~render_create(op, r, version, sources, granted).ok
      BY <1>4
    <2>2. KindOf[r.id] \notin {"network", "volume", "secret"}
      BY <1>1, <2>1 DEF render_create
    <2> QED
      BY <1>2, <2>2 DEF BuilderKinds
  <1>6. CASE KindOf[r.id] = "pod"
    <2>1. render_create(op, r, version, sources, granted) = render_pod_create(op, r)
      BY <1>6 DEF render_create
    <2>2. render_pod_create(op, r).field = "networks.cli_ambiguous"
      BY <1>1, <1>3, <1>4, <2>1 DEF render_pod_create
    <2> QED
      BY <1>2, <1>4, <2>1, <2>2 DEF SharedRules
  <1>7. CASE KindOf[r.id] = "container"
    <2>1. render_create(op, r, version, sources, granted)
            = render_container_create(op, r, version, sources, granted)
      BY <1>7 DEF render_create
    <2>2. container_fields(r, version, context, granted) = {}
      BY <1>7 DEF unsupported_fields
    <2>3. render_container_create(op, r, version, sources, granted).field
            \in {"networks.cli_ambiguous", "mounts.cli_ambiguous"}
      BY <1>4, <1>7, <2>1, <2>2, ContainerRenders DEF BuilderKinds
    <2> QED
      BY <1>2, <1>4, <2>1, <2>3 DEF SharedRules
  <1> QED
    BY <1>5, <1>6, <1>7

-----------------------------------------------------------------------------
(* From the declaration to the planner's index. *)

\* The planner accepts these declarations for target t.
Accepts(declared, outside, t) ==
    validate_resources(index_resources(declared, outside, t), t.context = "rootful") = {}

\* The attachments of a container or a pod as the planner's index has them.
Attached(s) == [i \in DOMAIN s |-> [network |-> s[i].network, static |-> Static(s[i])]]

\* An attachment with no static field has no static address.
LEMMA StaticAddress ==
    ASSUME NEW n, Static(n) = {}
    PROVE  ~has_static_address(n)
  BY DEF Static, has_static_address

\* Every attachment of the intent is in the index.
LEMMA MappedElements ==
    ASSUME NEW s, NEW n \in Elements(s)
    PROVE  [network |-> n.network, static |-> Static(n)]
             \in Elements(Attached(s))
  BY DEF Attached, Elements

\* Attachments without static fields in the index have none in the intent.
LEMMA StaticFree ==
    ASSUME NEW s, \A m \in Elements(Attached(s)) : m.static = {}
    PROVE  \A n \in Elements(s) : ~has_static_address(n)
  <1> TAKE n \in Elements(s)
  <1>1. [network |-> n.network, static |-> Static(n)].static = {}
    BY MappedElements
  <1> QED
    BY <1>1, StaticAddress

\* The index entry of a managed container.
LEMMA DeclaredContainer ==
    ASSUME NEW id, NEW r, NEW outside, NEW t, id \notin outside, KindOf[id] = "container"
    PROVE  LET d == Declared(id, r, outside, t)
           IN  /\ d.kind = "container" /\ ~d.external
               /\ d.unsupported = validate_runtime_settings(r, t)
               /\ d.exclusive = pod_exclusive(r)
               /\ d.pod = (IF r.pod # {} THEN The(r.pod) ELSE 0)
               /\ d.network_order = (IF r.order # {} THEN The(r.order) ELSE <<>>)
               /\ d.networks = Attached(r.list["networks"])
  <1> DEFINE d == Declared(id, r, outside, t)
  <1>1. d.kind = "container" /\ ~d.external
    BY DEF Declared, Mapped
  <1>2. d.unsupported = validate_runtime_settings(r, t)
    BY DEF Declared, Mapped
  <1>3. d.exclusive = pod_exclusive(r)
    BY DEF Declared, Mapped
  <1>4. d.pod = (IF r.pod # {} THEN The(r.pod) ELSE 0)
    BY DEF Declared, Mapped
  <1>5. d.network_order = (IF r.order # {} THEN The(r.order) ELSE <<>>)
    BY DEF Declared, Mapped
  <1>6. d.networks = Attached(r.list["networks"])
    BY DEF Declared, Mapped, Attached
  <1> QED
    BY <1>1, <1>2, <1>3, <1>4, <1>5, <1>6

\* The index entry of a managed pod.
LEMMA DeclaredPod ==
    ASSUME NEW id, NEW r, NEW outside, NEW t, id \notin outside, KindOf[id] = "pod"
    PROVE  LET d == Declared(id, r, outside, t)
           IN  /\ d.kind = "pod" /\ ~d.external
               /\ d.networks = Attached(r.list["networks"])
  <1> DEFINE d == Declared(id, r, outside, t)
  <1>1. d.kind = "pod" /\ ~d.external
    BY DEF Declared, Mapped
  <1>6. d.networks = Attached(r.list["networks"])
    BY DEF Declared, Mapped, Attached
  <1> QED
    BY <1>1, <1>6

\* An index entry without attachments is of an intent without attachments.
LEMMA EmptyMapped ==
    ASSUME NEW s, s \in Seq(Elements(s)),
           Attached(s) = <<>>
    PROVE  s = <<>>
  <1>1. DOMAIN Attached(s) = DOMAIN s
    BY DEF Attached
  <1>2. DOMAIN s = {}
    BY <1>1
  <1> QED
    BY <1>2

-----------------------------------------------------------------------------
(* What render_operation answers. *)

\* A successful rendering is of the operation that was asked for, with or
\* without the connection prefix.
Answered(x, op) == x.ok => /\ x.value.op = op
                           /\ Prefixed(x.value).op = op

\* It is so for the operations with and without a body.
LEMMA RenderedAnswers ==
    ASSUME NEW op, NEW argv, NEW path, NEW json
    PROVE  Answered(Rendered(op, argv, path, json), op) /\ Answered(Plain(op, argv, path), op)
  BY DEF Rendered, Plain, Ok, Answered, Prefixed

\* A failure renders nothing.
LEMMA ErrAnswers ==
    ASSUME NEW op, NEW field
    PROVE  Answered(Err(field), op)
  BY DEF Err, Answered

\* It is so for the create of a container.
LEMMA ContainerAnswers ==
    ASSUME NEW op, NEW r, NEW version, NEW sources, NEW granted
    PROVE  Answered(render_container_create(op, r, version, sources, granted), op)
  <1>1. \A x : ~x.ok => Answered(x, op)
    BY DEF Answered
  <1> QED
    BY <1>1, RenderedAnswers, ErrAnswers DEF render_container_create

\* It is so for the create of a secret.
LEMMA SecretAnswers ==
    ASSUME NEW op, NEW argv, NEW input, NEW path, NEW body
    PROVE  Answered(Ok([op |-> op, deferred |-> TRUE, argv |-> argv, input |-> input, path |-> path,
                        body |-> body]), op)
  BY DEF Ok, Answered, Prefixed

\* render_operation renders the operation it is given.
LEMMA OperationAnswers ==
    ASSUME NEW op, NEW r, NEW version, NEW sources, NEW granted
    PROVE  Answered(render_operation(op, r, version, sources, granted), op)
  BY RenderedAnswers, ErrAnswers, SecretAnswers, ContainerAnswers
     DEF render_operation, render_create, render_pod_create

-----------------------------------------------------------------------------
(* The two gates. *)

\* The planner admits every container of a plan (validate_container).
LEMMA AcceptedContainer ==
    ASSUME DeclarationInv, NEW t, Accepts(resources, external, t),
           NEW id \in DOMAIN resources, KindOf[id] = "container"
    PROVE  Admitted(resources[id], t)
  <1> DEFINE r == resources[id]
             d == Declared(id, r, external, t)
             res == index_resources(resources, external, t)
             rootful == t.context = "rootful"
  <1>1. id \notin external /\ Intent(r)
    BY DEF DeclarationInv, IdentitiesInv, IntentsInv, BuilderKinds
  <1>2. /\ d.kind = "container" /\ ~d.external
        /\ d.unsupported = validate_runtime_settings(r, t)
        /\ d.exclusive = pod_exclusive(r)
        /\ d.pod = (IF r.pod # {} THEN The(r.pod) ELSE 0)
        /\ d.network_order = (IF r.order # {} THEN The(r.order) ELSE <<>>)
        /\ d.networks = Attached(r.list["networks"])
    BY <1>1, DeclaredContainer
  <1>3. id \in DOMAIN res /\ res[id] = d
    BY <1>1 DEF index_resources
  <1>4. validate_resources(res, rootful) = {}
    BY DEF Accepts
  <1> HIDE DEF d, res
  <1>5. /\ d.unsupported = {}
        /\ d.pod # 0 => d.exclusive = {} /\ d.networks = <<>> /\ d.network_order = <<>>
        /\ t.context # "rootful" => \A n \in Elements(d.networks) : n.static = {}
    <2>1. ~res[id].external /\ res[id].kind = "container"
      BY <1>2, <1>3
    <2> HIDE DEF rootful
    <2>2. /\ res[id].unsupported = {}
          /\ res[id].pod # 0 => /\ res[id].exclusive = {} /\ res[id].networks = <<>>
                                /\ res[id].network_order = <<>>
          /\ ~rootful => \A n \in Elements(res[id].networks) : n.static = {}
      BY <1>3, <1>4, <2>1, ContainerAccepted
    <2> QED
      BY <1>3, <2>2 DEF rootful
  <1> HIDE DEF r
  <1>6. ASSUME r.pod # {}
        PROVE  pod_exclusive(r) = {} /\ r.list["networks"] = <<>> /\ r.order = {}
    <2>1. PICK p \in DOMAIN KindOf : r.pod = {p}
      BY <1>1, <1>6 DEF Intent
    <2>2. The(r.pod) = p /\ p # 0
      BY <2>1, KindsAssumption DEF The
    <2>3. d.pod # 0
      BY <1>2, <1>6, <2>2
    <2>4. r.list["networks"] \in Seq(Elements(r.list["networks"]))
      BY <1>1 DEF Intent, List, Lists, NetworkingLists
    <2>5. r.list["networks"] = <<>>
      BY <1>2, <1>5, <2>3, <2>4, EmptyMapped
    <2>6. r.order = {}
      <3>1. SUFFICES ASSUME r.order # {}
                     PROVE  FALSE
        OBVIOUS
      <3>2. PICK ids \in r.order : ids # <<>> /\ r.order = {ids}
        BY <1>1, <3>1 DEF Intent
      <3>3. The(r.order) = ids
        BY <3>2 DEF The
      <3> QED
        BY <1>2, <1>5, <2>3, <3>1, <3>2, <3>3
    <2> QED
      BY <1>2, <1>5, <2>3, <2>5, <2>6
  <1>7. t.context # "rootful" => \A n \in Elements(r.list["networks"]) : ~has_static_address(n)
    BY <1>2, <1>5, StaticFree
  <1> QED
    BY <1>2, <1>5, <1>6, <1>7 DEF Admitted, r

\* No pod of a rootless plan asks for a static address (validate_pod).
LEMMA AcceptedPod ==
    ASSUME DeclarationInv, NEW t, Accepts(resources, external, t),
           NEW id \in DOMAIN resources, KindOf[id] = "pod"
    PROVE  static_needs_rootful(resources[id], t.context) = {}
  <1> DEFINE r == resources[id]
             d == Declared(id, r, external, t)
             res == index_resources(resources, external, t)
             rootful == t.context = "rootful"
  <1>1. id \notin external
    BY DEF DeclarationInv, IdentitiesInv
  <1>2. d.kind = "pod" /\ ~d.external /\ d.networks = Attached(r.list["networks"])
    BY <1>1, DeclaredPod
  <1>3. id \in DOMAIN res /\ res[id] = d
    BY <1>1 DEF index_resources
  <1>4. validate_resources(res, rootful) = {}
    BY DEF Accepts
  <1> HIDE DEF d, res
  <1>5. t.context # "rootful" => \A n \in Elements(d.networks) : n.static = {}
    <2>1. ~res[id].external /\ res[id].kind = "pod"
      BY <1>2, <1>3
    <2> HIDE DEF rootful
    <2>2. ~rootful => \A n \in Elements(res[id].networks) : n.static = {}
      BY <1>3, <1>4, <2>1, PodAccepted
    <2> QED
      BY <1>3, <2>2 DEF rootful
  <1> HIDE DEF r
  <1>6. t.context # "rootful" => \A n \in Elements(r.list["networks"]) : ~has_static_address(n)
    BY <1>2, <1>5, StaticFree
  <1> QED
    BY <1>6 DEF static_needs_rootful, When, r

\* The renderer refuses nothing of an accepted plan for a shared rule, and
\* pushes no field twice (unsupported_fields after validate_resources).
LEMMA GateHolds ==
    ASSUME DeclarationInv, NEW t, Accepts(resources, external, t), t.engine \in ReviewedVersions,
           NEW id \in DOMAIN resources, NEW granted
    PROVE  /\ \A x \in unsupported_fields(resources[id], t.engine, t.context, granted) : x \notin SharedRules
           /\ pushed_twice(resources[id], t.engine) = {}
  <1> DEFINE r == resources[id]
             U == unsupported_fields(r, t.engine, t.context, granted)
  <1>0. r.id = id /\ KindOf[r.id] = KindOf[id]
    BY DEF DeclarationInv, IntentsInv
  <1>1. CASE KindOf[id] = "container"
    <2>1. Admitted(r, t)
      BY <1>1, AcceptedContainer
    <2>2. U = container_fields(r, t.engine, t.context, granted)
      BY <1>0, <1>1 DEF unsupported_fields
    <2>3. U \subseteq Refusable /\ member_fields(r) \cap order_fields(r, t.engine) = {}
      BY <2>1, <2>2, ContainerGate
    <2>4. pushed_twice(r, t.engine) = {}
      BY <1>0, <1>1, <2>3 DEF pushed_twice
    <2> HIDE DEF U
    <2>5. \A x \in U : x \notin SharedRules
      BY <2>3 DEF Refusable, SharedRules
    <2> QED
      BY <2>4, <2>5 DEF U
  <1>2. CASE KindOf[id] = "pod"
    <2>1. U \subseteq {"infra_mounts"}
      BY <1>0, <1>2, AcceptedPod DEF unsupported_fields, When
    <2> QED
      BY <1>0, <1>2, <2>1 DEF SharedRules, pushed_twice
  <1>3. CASE KindOf[id] \notin {"container", "pod"}
    <2>1. U \subseteq {"source.portability", "pull_policy.target_version", "owner.target_version",
                       "routes.route_type"}
      BY <1>0, <1>3 DEF unsupported_fields, When
    <2> HIDE DEF U
    <2>2. \A x \in U : x \notin SharedRules
      BY <2>1 DEF SharedRules
    <2> QED
      BY <1>0, <1>3, <2>2 DEF pushed_twice, U
  <1> QED
    BY <1>1, <1>2, <1>3

-----------------------------------------------------------------------------
(* The plan. *)

\* operation_rank is total.
LEMMA RanksAreNumbers ==
    ASSUME NEW op
    PROVE  operation_rank(op) \in 0..7
  BY DEF operation_rank

\* Sorting by operation_sort_key lists every operation once when no two
\* operations have the same key.
LEMMA OrderedLists ==
    ASSUME NEW ops, IsFiniteSet(ops), \A o \in ops : o.resource \in Nat,
           \A a, b \in ops : operation_rank(a) = operation_rank(b) /\ a.resource = b.resource => a = b
    PROVE  /\ Ordered(ops) \in Seq(ops)
           /\ \A i, j \in DOMAIN Ordered(ops) : Ordered(ops)[i] = Ordered(ops)[j] => i = j
  <1> DEFINE Before(o) == {x \in ops : SortsBefore(x, o)}
             n == Cardinality(ops)
             f == [o \in ops |-> Cardinality(Before(o))]
  <1>1. n \in Nat
    BY FS_CardinalityType
  <1>2. ASSUME NEW o \in ops
        PROVE  /\ IsFiniteSet(Before(o)) /\ o \notin Before(o)
               /\ Cardinality(Before(o)) \in 0..(n - 1)
    <2>1. o \notin Before(o)
      BY RanksAreNumbers DEF SortsBefore
    <2>2. Before(o) \subseteq ops \ {o}
      BY <2>1
    <2>3. IsFiniteSet(ops \ {o}) /\ Cardinality(ops \ {o}) = n - 1
      BY FS_RemoveElement
    <2>4. IsFiniteSet(Before(o)) /\ Cardinality(Before(o)) <= n - 1
      BY <2>2, <2>3, FS_Subset
    <2>5. Cardinality(Before(o)) \in Nat
      BY <2>4, FS_CardinalityType
    <2> QED
      BY <1>1, <2>1, <2>4, <2>5
  <1>3. ASSUME NEW a \in ops, NEW b \in ops, SortsBefore(a, b)
        PROVE  Cardinality(Before(a)) < Cardinality(Before(b))
    <2>1. a.resource \in Nat /\ b.resource \in Nat /\ \A x \in ops : x.resource \in Nat
      OBVIOUS
    <2>2. \A x \in ops : SortsBefore(x, a) => SortsBefore(x, b)
      BY <1>3, <2>1, RanksAreNumbers DEF SortsBefore
    <2>3. Before(a) \cup {a} \subseteq Before(b)
      BY <1>3, <2>2
    <2>4. Cardinality(Before(a) \cup {a}) = Cardinality(Before(a)) + 1
      BY <1>2, FS_AddElement
    <2>5. Cardinality(Before(a) \cup {a}) <= Cardinality(Before(b))
      BY <1>2, <2>3, FS_Subset
    <2>6. Cardinality(Before(a)) \in Nat /\ Cardinality(Before(b)) \in Nat
      BY <1>2, FS_CardinalityType
    <2> QED
      BY <2>4, <2>5, <2>6
  <1>4. ASSUME NEW a \in ops, NEW b \in ops, f[a] = f[b]
        PROVE  a = b
    <2>1. Cardinality(Before(a)) = Cardinality(Before(b)) /\ Cardinality(Before(a)) \in Nat
      BY <1>2, <1>4, FS_CardinalityType
    <2>2. ~SortsBefore(a, b) /\ ~SortsBefore(b, a)
      <3> HIDE DEF Before
      <3> QED
        BY <1>3, <2>1
    <2>3. a.resource \in Nat /\ b.resource \in Nat
      OBVIOUS
    <2>4. operation_rank(a) = operation_rank(b) /\ a.resource = b.resource
      BY <2>2, <2>3, RanksAreNumbers DEF SortsBefore
    <2> QED
      BY <2>4
  <1>5. f \in Injection(ops, 0..(n - 1))
    <2>1. f \in [ops -> 0..(n - 1)]
      BY <1>2
    <2> QED
      BY <1>4, <2>1 DEF Injection, IsInjective
  <1>6. IsFiniteSet(0..(n - 1)) /\ Cardinality(0..(n - 1)) = n
    BY <1>1, FS_Interval
  <1>7. f \in Surjection(ops, 0..(n - 1))
    <2> HIDE DEF f
    <2> QED
      BY <1>5, <1>6, FS_Injection
  <1>8. \A i \in 1..n : \E o \in ops : Cardinality(Before(o)) = i - 1
    <2> TAKE i \in 1..n
    <2>1. i - 1 \in 0..(n - 1)
      BY <1>1
    <2>2. PICK p \in ops : f[p] = i - 1
      BY <1>7, <2>1 DEF Surjection
    <2>3. f[p] = Cardinality(Before(p))
      OBVIOUS
    <2> WITNESS p \in ops
    <2> QED
      BY <2>2, <2>3
  <1> DEFINE pick(i) == CHOOSE o \in ops : Cardinality(Before(o)) = i - 1
  <1>9. Ordered(ops) = [i \in 1..n |-> pick(i)]
    BY DEF Ordered
  <1>10. \A i \in 1..n : pick(i) \in ops /\ Cardinality(Before(pick(i))) = i - 1
    BY <1>8
  <1> HIDE DEF Before, n, pick
  <1>11. Ordered(ops) \in [1..n -> ops]
    BY <1>9, <1>10
  <1>12. \A i, j \in 1..n : Ordered(ops)[i] = Ordered(ops)[j] => i = j
    <2> TAKE i, j \in 1..n
    <2> HAVE Ordered(ops)[i] = Ordered(ops)[j]
    <2>1. i - 1 = j - 1
      BY <1>9, <1>10
    <2> QED
      BY <1>1, <2>1
  <1>13. Ordered(ops) \in Seq(ops)
    BY <1>1, <1>11
  <1> QED
    BY <1>11, <1>12, <1>13

\* What Append does to a sequence.
LEMMA Appended ==
    ASSUME NEW s, s \in Seq(Elements(s)), NEW v
    PROVE  LET e == Append(s, v)
           IN  /\ e \in Seq(Elements(e)) /\ Len(s) \in Nat /\ Len(e) = Len(s) + 1
               /\ e[Len(s) + 1] = v /\ \A i \in 1..Len(s) : e[i] = s[i]
  <1> DEFINE e == Append(s, v)
  <1>1. /\ Len(e) = Len(s) + 1 /\ Len(s) \in Nat /\ e[Len(s) + 1] = v
        /\ \A i \in 1..Len(s) : e[i] = s[i]
        /\ DOMAIN e = 1..Len(e) /\ DOMAIN s = 1..Len(s)
    OBVIOUS
  <1>2. Elements(s) \subseteq Elements(e) /\ v \in Elements(e)
    BY <1>1 DEF Elements
  <1>3. e \in Seq(Elements(e))
    BY <1>2
  <1> QED
    BY <1>1, <1>3

\* The operations of a plan: one create for a managed resource, and starts.
Creates(op) == op = create_operation(op.resource)
Starts(op) == op.action \in {"StartPod", "StartContainer"}

\* The plan lists operations on declared resources, none twice, that the
\* planner accepted for the target; the renderer has reviewed the target.
PlanInv ==
    /\ plan \in Seq(Elements(plan))
    /\ \A i \in 1..Len(plan) :
         plan[i].resource \in DOMAIN resources /\ (Creates(plan[i]) \/ Starts(plan[i]))
    /\ \A i, j \in 1..Len(plan) : plan[i] = plan[j] => i = j
    /\ stage \in {"planned", "render", "done"} =>
         \E t \in target : target = {t} /\ Accepts(resources, external, t)
    /\ stage = "render" => The(target).engine \in ReviewedVersions /\ Version = The(target).engine

\* One operation for each of finitely many resources.
LEMMA FiniteOps ==
    ASSUME NEW S, IsFiniteSet(S)
    PROVE  /\ IsFiniteSet({create_operation(id) : id \in S})
           /\ \A action : IsFiniteSet({Op(action, id) : id \in S})
  <1>1. IsFiniteSet({create_operation(id) : id \in S})
    <2> DEFINE f == [id \in S |-> create_operation(id)]
               T == {create_operation(id) : id \in S}
    <2>1. f \in Surjection(S, T)
      BY DEF Surjection
    <2> QED
      BY <2>1, FS_Surjection
  <1>2. ASSUME NEW action
        PROVE  IsFiniteSet({Op(action, id) : id \in S})
    <2> DEFINE f == [id \in S |-> Op(action, id)]
               T == {Op(action, id) : id \in S}
    <2>1. f \in Surjection(S, T)
      BY DEF Surjection
    <2> QED
      BY <2>1, FS_Surjection
  <1> QED
    BY <1>1, <1>2

\* The operations of a deployment: finitely many, on declared resources, and
\* no two with the same sort key.
LEMMA OperationsOrder ==
    ASSUME DeclarationInv, NEW t
    PROVE  LET res == index_resources(resources, external, t)
               ops == {create_operation(id) : id \in DOMAIN res \ external}
                      \cup {Op("StartPod", id) : id \in StartedPods(res)}
                      \cup {Op("StartContainer", id) : id \in StartedContainers(res)}
           IN  /\ IsFiniteSet(ops)
               /\ \A o \in ops : /\ o.resource \in DOMAIN resources /\ (Creates(o) \/ Starts(o))
                                 /\ o.resource \in Nat
               /\ \A a, b \in ops : operation_rank(a) = operation_rank(b) /\ a.resource = b.resource => a = b
  <1> DEFINE res == index_resources(resources, external, t)
             ids == DOMAIN resources
             ops == {create_operation(id) : id \in DOMAIN res \ external}
                    \cup {Op("StartPod", id) : id \in StartedPods(res)}
                    \cup {Op("StartContainer", id) : id \in StartedContainers(res)}
  <1>1. DOMAIN res = ids
    BY DEF index_resources
  <1>2. \A id \in ids : res[id].kind = KindOf[id]
    BY DEF index_resources, Declared, Mapped
  <1> HIDE DEF res
  <1>3. /\ StartedPods(res) \subseteq {id \in ids : KindOf[id] = "pod"}
        /\ StartedContainers(res) \subseteq {id \in ids : KindOf[id] = "container"}
    BY <1>1, <1>2 DEF StartedPods, StartedContainers
  <1>4. IsFiniteSet(ops)
    <2>1. IsFiniteSet(ids)
      BY DEF DeclarationInv, IdentitiesInv
    <2>2. /\ IsFiniteSet(DOMAIN res \ external)
          /\ IsFiniteSet(StartedPods(res)) /\ IsFiniteSet(StartedContainers(res))
      BY <1>1, <1>3, <2>1, FS_Subset
    <2>3. IsFiniteSet({create_operation(id) : id \in DOMAIN res \ external})
      BY <2>2, FiniteOps
    <2>4. IsFiniteSet({Op("StartPod", id) : id \in StartedPods(res)})
      BY <2>2, FiniteOps
    <2>5. IsFiniteSet({Op("StartContainer", id) : id \in StartedContainers(res)})
      BY <2>2, FiniteOps
    <2> QED
      BY <2>3, <2>4, <2>5, FS_Union
  <1>5. \A o \in ops : \E id \in ids : /\ o.resource = id
                                       /\ \/ o = create_operation(id)
                                          \/ o = Op("StartPod", id) /\ KindOf[id] = "pod"
                                          \/ o = Op("StartContainer", id) /\ KindOf[id] = "container"
    BY <1>1, <1>3 DEF create_operation, Op
  <1> HIDE DEF ops
  <1>6. ids \subseteq Nat
    BY KindsAssumption DEF DeclarationInv, IdentitiesInv
  <1>7. \A o \in ops : o.resource \in ids /\ (Creates(o) \/ Starts(o)) /\ o.resource \in Nat
    BY <1>5, <1>6 DEF Creates, Starts, Op
  <1>8. ASSUME NEW a \in ops, NEW b \in ops, operation_rank(a) = operation_rank(b), a.resource = b.resource
        PROVE  a = b
    <2> DEFINE id == a.resource
    <2>1. \/ a = create_operation(id)
          \/ a = Op("StartPod", id) /\ KindOf[id] = "pod"
          \/ a = Op("StartContainer", id) /\ KindOf[id] = "container"
      BY <1>5
    <2>2. \/ b = create_operation(id)
          \/ b = Op("StartPod", id) /\ KindOf[id] = "pod"
          \/ b = Op("StartContainer", id) /\ KindOf[id] = "container"
      BY <1>5, <1>8
    <2>3. /\ KindOf[id] = "pod" =>
               operation_rank(create_operation(id)) = 4 /\ operation_rank(Op("StartPod", id)) = 6
          /\ KindOf[id] = "container" =>
               operation_rank(create_operation(id)) = 5 /\ operation_rank(Op("StartContainer", id)) = 6
      BY DEF operation_rank, create_operation, Op
    <2> HIDE DEF id
    <2> QED
      BY <1>8, <2>1, <2>2, <2>3
  <1> QED
    BY <1>4, <1>7, <1>8 DEF ops, res

\* There is no plan at first.
LEMMA PlanInit ==
    ASSUME Init
    PROVE  PlanInv
  BY DEF Init, PlanInv

\* Planning makes such a plan, or none (plan_deployment).
LEMMA PlanStep ==
    ASSUME DeclarationInv, NEW t \in Targets, PlanDeployment(t)
    PROVE  PlanInv'
  <1> DEFINE res == index_resources(resources, external, t)
             ops == {create_operation(id) : id \in DOMAIN res \ external}
                    \cup {Op("StartPod", id) : id \in StartedPods(res)}
                    \cup {Op("StartContainer", id) : id \in StartedContainers(res)}
  <1>1. /\ target' = {t} /\ resources' = resources /\ external' = external
        /\ \/ stage' = "rejected" /\ plan' = <<>>
           \/ stage' = "planned" /\ plan' = Ordered(ops) /\ Accepts(resources, external, t)
    BY DEF PlanDeployment, Accepts, declaration
  <1>2. CASE stage' = "rejected" /\ plan' = <<>>
    BY <1>1, <1>2 DEF PlanInv
  <1>3. CASE stage' = "planned" /\ plan' = Ordered(ops) /\ Accepts(resources, external, t)
    <2>1. /\ IsFiniteSet(ops)
          /\ \A o \in ops : /\ o.resource \in DOMAIN resources /\ (Creates(o) \/ Starts(o))
                            /\ o.resource \in Nat
          /\ \A a, b \in ops : operation_rank(a) = operation_rank(b) /\ a.resource = b.resource => a = b
      BY OperationsOrder
    <2> HIDE DEF ops
    <2>2. /\ plan' \in Seq(ops)
          /\ \A i, j \in DOMAIN plan' : plan'[i] = plan'[j] => i = j
      BY <1>3, <2>1, OrderedLists
    <2>3. /\ DOMAIN plan' = 1..Len(plan') /\ \A i \in 1..Len(plan') : plan'[i] \in ops
          /\ plan' \in [1..Len(plan') -> ops] /\ Len(plan') \in Nat
      BY <2>2
    <2>4. plan' \in Seq(Elements(plan'))
      <3>1. \A i \in DOMAIN plan' : plan'[i] \in Elements(plan')
        BY DEF Elements
      <3> QED
        BY <2>3, <3>1
    <2>5. Accepts(resources', external', t)
      BY <1>1, <1>3
    <2>6. \A i \in 1..Len(plan') :
            plan'[i].resource \in DOMAIN resources' /\ (Creates(plan'[i]) \/ Starts(plan'[i]))
      BY <1>1, <2>1, <2>3
    <2> QED
      BY <1>1, <1>3, <2>2, <2>3, <2>4, <2>5, <2>6 DEF PlanInv
  <1> QED
    BY <1>1, <1>2, <1>3

-----------------------------------------------------------------------------
(* The outcome. *)

\* The empty bag, and bags that are not.
LEMMA EmptyBagFacts == DOMAIN EmptyBag = {} /\ \A S : S # {} => SetToBag(S) # EmptyBag
  BY DEF EmptyBag, SetToBag

\* Pushing findings that are not there yet.
LEMMA BagSum ==
    ASSUME NEW B, NEW S
    PROVE  /\ DOMAIN (B (+) SetToBag(S)) = DOMAIN B \cup S
           /\ S # {} => B (+) SetToBag(S) # EmptyBag
           /\ (\A f \in DOMAIN B : B[f] = 1 /\ f \notin S) =>
                \A f \in DOMAIN B \cup S : (B (+) SetToBag(S))[f] = 1
  <1>1. DOMAIN (B (+) SetToBag(S)) = DOMAIN B \cup S
    BY DEF (+), SetToBag
  <1>2. S # {} => B (+) SetToBag(S) # EmptyBag
    BY <1>1, EmptyBagFacts
  <1>3. ASSUME \A f \in DOMAIN B : B[f] = 1 /\ f \notin S, NEW f \in DOMAIN B \cup S
        PROVE  (B (+) SetToBag(S))[f] = 1
    BY <1>3 DEF (+), SetToBag
  <1> QED
    BY <1>1, <1>2, <1>3

\* Pushing nothing.
LEMMA NothingAdded ==
    ASSUME NEW B, NEW S, S = {}, \A f \in DOMAIN B : B[f] = 1
    PROVE  /\ DOMAIN (B (+) SetToBag(S)) = DOMAIN B
           /\ \A f \in DOMAIN B : (B (+) SetToBag(S))[f] = 1
  <1>1. DOMAIN B \cup S = DOMAIN B /\ \A f \in DOMAIN B : B[f] = 1 /\ f \notin S
    OBVIOUS
  <1> QED
    BY <1>1, BagSum

\* What the renderer refuses of a resource.
Refused(id) == unsupported_fields(resources[id], Version, The(target).context, inline_policy)

\* Before the renderer's loop nothing is reported and nothing rendered.
StartInv ==
    /\ stage \in {"declare", "planned", "render", "done", "rejected"}
    /\ stage \in {"declare", "planned", "rejected"} =>
         findings = EmptyBag /\ rendering = {} /\ blocked = {} /\ next = 1 /\ operations = <<>>

\* While nothing is reported, nothing is left out: no resource is blocked and
\* the operations so far are the plan's.
WholeSoFar ==
    findings = EmptyBag =>
        /\ blocked = {} /\ operations \in Seq(Elements(operations)) /\ Len(operations) = next - 1
        /\ \A i \in 1..(next - 1) : operations[i].op = plan[i]
\* The loop of render_deployment_inner at position next.
LoopInv ==
    stage = "render" =>
        /\ rendering = {} /\ authorized \in BOOLEAN
        /\ next \in Nat /\ 1 <= next /\ next <= Len(plan) + 1
        /\ WholeSoFar

\* A finding is of a blocked resource, or of a failed create already passed.
Placed(f) ==
    \/ f.subject \in blocked
    \/ /\ Refused(f.subject) = {}
       /\ \E j \in 1..(next - 1) : plan[j] = create_operation(f.subject)
\* Every finding is there once, is of no shared rule and has such a place.
\* The place is what makes it inductive: it keeps a finding about to be
\* reported from being there already.
FindingsInv ==
    \A f \in DOMAIN findings : /\ findings[f] = 1
                               /\ f.field \notin SharedRules
                               /\ stage = "render" => Placed(f)
\* What holds of an outcome in the making.
OutcomeInv == StartInv /\ LoopInv /\ FindingsInv /\ AllOrNothing

\* At first there is no outcome.
LEMMA OutcomeInit ==
    ASSUME Init
    PROVE  OutcomeInv
  BY EmptyBagFacts DEF Init, OutcomeInv, StartInv, LoopInv, FindingsInv, AllOrNothing

\* Declaring and planning leave the outcome alone.
LEMMA DeclareStep ==
    ASSUME OutcomeInv, UNCHANGED rendered, next' = next, stage = "declare",
           stage' \in {"declare", "planned", "rejected"}
    PROVE  OutcomeInv'
  BY EmptyBagFacts DEF OutcomeInv, StartInv, LoopInv, FindingsInv, AllOrNothing, rendered

\* The renderer begins, or refuses the target with one finding.
LEMMA BeginStep ==
    ASSUME OutcomeInv, PlanInv, NEW granted \in BOOLEAN, RenderDeployment(granted)
    PROVE  OutcomeInv'
  <1>1. /\ stage = "planned" /\ authorized' = granted /\ plan' = plan /\ next' = next /\ blocked' = blocked
        /\ operations' = operations /\ rendering' = rendering
    BY DEF RenderDeployment
  <1>2. findings = EmptyBag /\ rendering = {} /\ blocked = {} /\ next = 1 /\ operations = <<>>
    BY <1>1 DEF OutcomeInv, StartInv
  <1>3. CASE stage' = "done" /\ findings' = RenderingFinding("RenderingTargetMismatch", 0, "target")
    <2> DEFINE f == [code |-> "RenderingTargetMismatch", subject |-> 0, field |-> "target"]
    <2>1. DOMAIN findings' = {f} /\ findings'[f] = 1 /\ findings' # EmptyBag
      BY <1>3, EmptyBagFacts DEF RenderingFinding, SetToBag
    <2>2. f.field \notin SharedRules
      BY DEF SharedRules
    <2> HIDE DEF f
    <2>3. FindingsInv'
      BY <1>3, <2>1, <2>2 DEF FindingsInv
    <2> QED
      BY <1>1, <1>2, <1>3, <2>1, <2>3 DEF OutcomeInv, StartInv, LoopInv, AllOrNothing
  <1>4. CASE stage' = "render" /\ findings' = findings
    <2>1. FindingsInv'
      BY <1>2, <1>4, EmptyBagFacts DEF FindingsInv
    <2>2. Len(plan) \in Nat
      BY DEF PlanInv
    <2>3. LoopInv'
      BY <1>1, <1>2, <2>2 DEF LoopInv, WholeSoFar
    <2> QED
      BY <1>4, <2>1, <2>3 DEF OutcomeInv, StartInv, AllOrNothing
  <1> QED
    BY <1>3, <1>4 DEF RenderDeployment

\* Passing over an operation of a blocked resource.
LEMMA SkipStep ==
    ASSUME OutcomeInv, PlanInv, SkipBlocked
    PROVE  OutcomeInv'
  <1>1. /\ stage = "render" /\ next <= Len(plan) /\ next' = next + 1 /\ Current.resource \in blocked
        /\ UNCHANGED <<stage, resources, target, authorized, plan, blocked, findings, operations, rendering>>
    BY DEF SkipBlocked, AtOperation, Advance, declaration, rendered
  <1>2. /\ rendering = {} /\ authorized \in BOOLEAN /\ next \in Nat /\ 1 <= next /\ Len(plan) \in Nat
        /\ findings # EmptyBag
    BY <1>1 DEF OutcomeInv, LoopInv, WholeSoFar, PlanInv
  <1>3. LoopInv'
    BY <1>1, <1>2 DEF LoopInv, WholeSoFar
  <1>4. FindingsInv'
    <2> SUFFICES ASSUME NEW f \in DOMAIN findings
                 PROVE  findings[f] = 1 /\ f.field \notin SharedRules /\ Placed(f)'
      BY <1>1 DEF FindingsInv
    <2>1. findings[f] = 1 /\ f.field \notin SharedRules /\ Placed(f)
      BY <1>1 DEF OutcomeInv, FindingsInv
    <2>2. 1..(next - 1) \subseteq 1..(next' - 1)
      BY <1>1, <1>2
    <2>3. Placed(f)'
      BY <1>1, <2>1, <2>2 DEF Placed, Refused, Version, inline_policy
    <2> QED
      BY <2>1, <2>3
  <1> QED
    BY <1>1, <1>3, <1>4 DEF OutcomeInv, StartInv, AllOrNothing

\* The operation at hand is of a declared resource the planner accepted.
LEMMA AtCurrent ==
    ASSUME OutcomeInv, PlanInv, DeclarationInv, AtOperation
    PROVE  /\ rendering = {} /\ authorized \in BOOLEAN /\ next \in Nat /\ 1 <= next /\ Len(plan) \in Nat
           /\ next \in 1..Len(plan) /\ WholeSoFar
           /\ Current.resource \in DOMAIN resources /\ (Creates(Current) \/ Starts(Current))
           /\ \E t : /\ target = {t} /\ The(target) = t /\ Accepts(resources, external, t)
                     /\ t.engine \in ReviewedVersions /\ Version = t.engine
  <1>1. stage = "render" /\ next <= Len(plan)
    BY DEF AtOperation
  <1>2. /\ rendering = {} /\ authorized \in BOOLEAN /\ next \in Nat /\ 1 <= next
        /\ Len(plan) \in Nat /\ WholeSoFar
    BY <1>1 DEF OutcomeInv, LoopInv, PlanInv
  <1>3. next \in 1..Len(plan)
    BY <1>1, <1>2
  <1>4. Current.resource \in DOMAIN resources /\ (Creates(Current) \/ Starts(Current))
    BY <1>3 DEF PlanInv, Current
  <1>5. PICK t : target = {t} /\ Accepts(resources, external, t)
    BY <1>1 DEF PlanInv
  <1>6. The(target) = t
    BY <1>5 DEF The
  <1> QED
    BY <1>1, <1>2, <1>3, <1>4, <1>5, <1>6 DEF PlanInv

\* Refusing a resource: its fields are fresh findings, because a resource with
\* refused fields is blocked from its first operation on.
LEMMA RefuseStep ==
    ASSUME OutcomeInv, PlanInv, DeclarationInv, RefuseOperation
    PROVE  OutcomeInv'
  <1> DEFINE id == Current.resource
             refusal(x) == [code |-> IF x = "source.portability" THEN "ImagePortabilityManual"
                                     ELSE "RenderingUnsupported", subject |-> id, field |-> x]
             fresh == {refusal(x) : x \in Unsupported}
  <1>1. /\ stage = "render" /\ next <= Len(plan) /\ next' = next + 1 /\ id \notin blocked /\ Unsupported # {}
        /\ blocked' = blocked \cup {id} /\ AtOperation
        /\ findings' = (findings (+) Refusals(Unsupported)) (+) Refusals(pushed_twice(resources[id], Version))
        /\ UNCHANGED <<stage, resources, target, authorized, plan, operations, rendering>>
    BY DEF RefuseOperation, AtOperation, Advance, Block, declaration
  <1>2. /\ rendering = {} /\ authorized \in BOOLEAN /\ next \in Nat /\ 1 <= next /\ Len(plan) \in Nat
        /\ id \in DOMAIN resources
    BY <1>1, AtCurrent
  <1>3. PICK t : /\ target = {t} /\ The(target) = t /\ Accepts(resources, external, t)
                 /\ t.engine \in ReviewedVersions /\ Version = t.engine
    BY <1>1, AtCurrent
  <1>4. (\A x \in Unsupported : x \notin SharedRules) /\ pushed_twice(resources[id], Version) = {}
    BY <1>2, <1>3, GateHolds DEF Unsupported
  <1>5. Unsupported = Refused(id)
    BY DEF Unsupported, Refused
  <1>6. /\ Refusals(Unsupported) = SetToBag(fresh)
        /\ Refusals(pushed_twice(resources[id], Version)) = SetToBag({})
    BY <1>4 DEF Refusals
  <1>7. fresh # {} /\ \A f \in fresh : f.subject = id /\ f.field \in Unsupported
    <2>1. \A x : refusal(x).subject = id /\ refusal(x).field = x
      OBVIOUS
    <2> HIDE DEF refusal
    <2> QED
      BY <1>1, <2>1
  <1> HIDE DEF id, fresh
  <1>8. \A f \in DOMAIN findings : findings[f] = 1 /\ f.field \notin SharedRules /\ Placed(f)
    BY <1>1 DEF OutcomeInv, FindingsInv
  <1>9. \A f \in DOMAIN findings : f \notin fresh
    BY <1>1, <1>5, <1>7, <1>8 DEF Placed
  <1> DEFINE one == findings (+) SetToBag(fresh)
  <1>10. /\ DOMAIN one = DOMAIN findings \cup fresh
         /\ \A f \in DOMAIN one : one[f] = 1
         /\ one # EmptyBag
    BY <1>7, <1>8, <1>9, BagSum
  <1> HIDE DEF one
  <1>11. findings' = one (+) SetToBag({})
    BY <1>1, <1>6 DEF one
  <1>12. DOMAIN findings' = DOMAIN findings \cup fresh /\ \A f \in DOMAIN findings' : findings'[f] = 1
    <2>1. DOMAIN findings' = DOMAIN one /\ \A f \in DOMAIN one : findings'[f] = 1
      BY <1>10, <1>11, NothingAdded
    <2> QED
      BY <1>10, <2>1
  <1>13. findings' # EmptyBag
    BY <1>7, <1>12, EmptyBagFacts
  <1>14. LoopInv'
    BY <1>1, <1>2, <1>13 DEF LoopInv, WholeSoFar
  <1>15. FindingsInv'
    <2> SUFFICES ASSUME NEW f \in DOMAIN findings'
                 PROVE  f.field \notin SharedRules /\ Placed(f)'
      BY <1>12 DEF FindingsInv
    <2>1. CASE f \in fresh
      BY <1>1, <1>4, <1>7, <2>1 DEF Placed
    <2>2. CASE f \in DOMAIN findings
      <3>1. 1..(next - 1) \subseteq 1..(next' - 1)
        BY <1>1, <1>2
      <3>2. Placed(f)'
        BY <1>1, <1>8, <2>2, <3>1 DEF Placed, Refused, Version, inline_policy
      <3> QED
        BY <1>8, <2>2, <3>2
    <2> QED
      BY <1>12, <2>1, <2>2
  <1> QED
    BY <1>1, <1>14, <1>15 DEF OutcomeInv, StartInv, AllOrNothing

\* Rendering an operation, or reporting that it failed: only a create fails,
\* and the plan has one create of a resource.
LEMMA RenderStep ==
    ASSUME OutcomeInv, PlanInv, DeclarationInv, RenderOperation
    PROVE  OutcomeInv'
  <1> DEFINE id == Current.resource
             r == render_operation(Current, resources[id], Version, managed_image_sources, inline_policy)
  <1>1. /\ stage = "render" /\ next <= Len(plan) /\ next' = next + 1 /\ id \notin blocked /\ Unsupported = {}
        /\ AtOperation
        /\ UNCHANGED <<stage, resources, target, authorized, plan, blocked, rendering>>
        /\ \/ r.ok /\ operations' = Append(operations, Prefixed(r.value)) /\ findings' = findings
           \/ /\ ~r.ok /\ operations' = operations
              /\ findings' = findings (+) RenderingFinding("RenderingUnsupported", id, r.field)
    BY DEF RenderOperation, AtOperation, Advance, Failed, declaration
  <1>2. /\ rendering = {} /\ authorized \in BOOLEAN /\ next \in Nat /\ 1 <= next /\ Len(plan) \in Nat
        /\ id \in DOMAIN resources /\ (Creates(Current) \/ Starts(Current)) /\ WholeSoFar
    BY <1>1, AtCurrent
  <1>3. Unsupported = Refused(id)
    BY DEF Unsupported, Refused
  <1>4. \A f \in DOMAIN findings : findings[f] = 1 /\ f.field \notin SharedRules /\ Placed(f)
    BY <1>1 DEF OutcomeInv, FindingsInv
  <1>5. 1..(next - 1) \subseteq 1..(next' - 1) /\ next \in 1..(next' - 1)
    BY <1>1, <1>2
  <1>6. \A f \in DOMAIN findings : Placed(f)'
    BY <1>1, <1>4, <1>5 DEF Placed, Refused, Version, inline_policy
  <1>7. CASE r.ok /\ operations' = Append(operations, Prefixed(r.value)) /\ findings' = findings
    <2>1. Prefixed(r.value).op = plan[next]
      BY <1>7, OperationAnswers DEF Answered, Current
    <2> HIDE DEF r, id
    <2>2. FindingsInv'
      BY <1>4, <1>6, <1>7 DEF FindingsInv
    <2>3. ASSUME findings' = EmptyBag
          PROVE  /\ blocked' = {} /\ operations' \in Seq(Elements(operations')) /\ Len(operations') = next' - 1
                 /\ \A i \in 1..(next' - 1) : operations'[i].op = plan'[i]
      <3>1. /\ blocked = {} /\ operations \in Seq(Elements(operations)) /\ Len(operations) = next - 1
            /\ \A i \in 1..(next - 1) : operations[i].op = plan[i]
        BY <1>2, <1>7, <2>3 DEF WholeSoFar
      <3>2. /\ operations' \in Seq(Elements(operations')) /\ Len(operations') = next
            /\ operations'[next] = Prefixed(r.value) /\ \A i \in 1..(next - 1) : operations'[i] = operations[i]
        BY <1>2, <1>7, <3>1, Appended
      <3>3. \A i \in 1..next : i = next \/ i \in 1..(next - 1)
        BY <1>2
      <3> QED
        BY <1>1, <1>2, <2>1, <3>1, <3>2, <3>3
    <2>4. LoopInv'
      BY <1>1, <1>2, <2>3 DEF LoopInv, WholeSoFar
    <2> QED
      BY <1>1, <2>2, <2>4 DEF OutcomeInv, StartInv, AllOrNothing
  <1>8. CASE /\ ~r.ok /\ operations' = operations
             /\ findings' = findings (+) RenderingFinding("RenderingUnsupported", id, r.field)
    <2> DEFINE g == [code |-> "RenderingUnsupported", subject |-> id, field |-> r.field]
    <2>1. Current.action = "Create" /\ r.field \notin SharedRules
      <3>1. /\ resources[id].id = id /\ KindOf[id] \in BuilderKinds \cup {"image", "secret"}
            /\ KindOf[id] \in BuilderKinds => Intent(resources[id])
        BY <1>2 DEF DeclarationInv, IntentsInv
      <3>2. /\ Current.action \in {"StartPod", "StartContainer", "EnsureImage", "Create"}
            /\ Current.action = "Create" => KindOf[id] # "image"
        BY <1>2 DEF Creates, Starts, create_operation, Op
      <3>3. unsupported_fields(resources[id], Version, The(target).context, inline_policy) = {}
        BY <1>1 DEF Unsupported
      <3>4. inline_policy \in BOOLEAN
        BY <1>2 DEF inline_policy
      <3> HIDE DEF id
      <3> QED
        BY <1>8, <3>1, <3>2, <3>3, <3>4, OperationFails
    <2>2. Current = create_operation(id)
      BY <1>2, <2>1 DEF Creates, Starts
    <2>3. g.subject = id /\ g.field = r.field
      OBVIOUS
    <2>4. findings' = findings (+) SetToBag({g})
      BY <1>8 DEF RenderingFinding
    <2> HIDE DEF r, id, g
    <2>5. g \notin DOMAIN findings
      <3>1. SUFFICES ASSUME g \in DOMAIN findings
                     PROVE  FALSE
        OBVIOUS
      <3>2. PICK j \in 1..(next - 1) : plan[j] = create_operation(id)
        BY <1>1, <1>4, <2>3, <3>1 DEF Placed
      <3>3. plan[j] = plan[next] /\ j \in 1..Len(plan) /\ next \in 1..Len(plan)
        BY <1>1, <1>2, <2>2, <3>2 DEF Current
      <3>4. j = next
        BY <3>3 DEF PlanInv
      <3> QED
        BY <1>2, <3>2, <3>4
    <2>6. /\ DOMAIN findings' = DOMAIN findings \cup {g} /\ findings' # EmptyBag
          /\ \A f \in DOMAIN findings' : findings'[f] = 1
      BY <1>4, <2>4, <2>5, BagSum
    <2>7. ASSUME NEW f, f = g
          PROVE  Placed(f)'
      <3>1. f.subject = id
        BY <2>3, <2>7
      <3>2. Refused(f.subject)' = {}
        BY <1>1, <1>3, <3>1 DEF Refused, Version, inline_policy
      <3>3. plan'[next] = create_operation(f.subject)
        BY <1>1, <2>2, <3>1 DEF Current
      <3> QED
        BY <1>5, <3>2, <3>3 DEF Placed
    <2>8. FindingsInv'
      <3> SUFFICES ASSUME NEW f \in DOMAIN findings'
                   PROVE  f.field \notin SharedRules /\ Placed(f)'
        BY <2>6 DEF FindingsInv
      <3> QED
        BY <1>4, <1>6, <2>1, <2>3, <2>6, <2>7
    <2>9. LoopInv'
      BY <1>1, <1>2, <2>6 DEF LoopInv, WholeSoFar
    <2> QED
      BY <1>1, <2>8, <2>9 DEF OutcomeInv, StartInv, AllOrNothing
  <1> QED
    BY <1>1, <1>7, <1>8

\* The end of the loop: the whole plan or no rendering.
LEMMA FinishStep ==
    ASSUME OutcomeInv, PlanInv, FinishRendering
    PROVE  OutcomeInv'
  <1>1. /\ stage = "render" /\ next > Len(plan) /\ stage' = "done" /\ UNCHANGED <<plan, findings>>
        /\ \/ findings = EmptyBag /\ \E x : rendering' = {x} /\ x.operations = operations
           \/ findings # EmptyBag /\ rendering' = {}
    <2> DEFINE x == [deferred |-> deferred, protected |-> protected, connection |-> connection,
                     external |-> external, operations |-> operations]
    <2>1. x.operations = operations
      OBVIOUS
    <2>2. /\ stage = "render" /\ next > Len(plan) /\ stage' = "done" /\ UNCHANGED <<plan, findings>>
          /\ rendering' = IF findings = EmptyBag THEN {x} ELSE {}
      BY DEF FinishRendering, Complete
    <2> HIDE DEF x
    <2> QED
      BY <2>1, <2>2
  <1>2. /\ next \in Nat /\ next <= Len(plan) + 1 /\ WholeSoFar /\ Len(plan) \in Nat
        /\ plan \in Seq(Elements(plan))
    BY <1>1 DEF OutcomeInv, LoopInv, PlanInv
  <1>3. ASSUME findings = EmptyBag
        PROVE  [i \in DOMAIN operations |-> operations[i].op] = plan
    <2>1. /\ operations \in Seq(Elements(operations)) /\ Len(operations) = Len(plan)
          /\ \A i \in 1..Len(plan) : operations[i].op = plan[i]
      BY <1>1, <1>2, <1>3 DEF WholeSoFar
    <2>2. DOMAIN operations = 1..Len(plan) /\ plan = [i \in 1..Len(plan) |-> plan[i]]
      BY <1>2, <2>1
    <2> QED
      BY <2>1, <2>2
  <1>4. AllOrNothing'
    BY <1>1, <1>3 DEF AllOrNothing, Mapped
  <1>5. FindingsInv'
    BY <1>1 DEF OutcomeInv, FindingsInv
  <1> QED
    BY <1>1, <1>4, <1>5 DEF OutcomeInv, StartInv, LoopInv

\* Rendering reads the plan and never writes it.
LEMMA PlanStays ==
    ASSUME PlanInv, UNCHANGED <<resources, external, target, plan>>,
           stage' = stage \/ (stage = "render" /\ stage' = "done") \/ (stage = "planned" /\ stage' = "done")
    PROVE  PlanInv'
  BY DEF PlanInv, Version

\* The renderer begins with a reviewed target.
LEMMA PlanBegins ==
    ASSUME PlanInv, NEW granted, RenderDeployment(granted)
    PROVE  PlanInv'
  <1>1. /\ stage = "planned" /\ UNCHANGED <<resources, external, target, plan>>
        /\ \/ stage' = "done"
           \/ stage' = "render" /\ reviewed_renderer_target_version(The(target)) # {}
    BY DEF RenderDeployment, declaration
  <1>2. CASE stage' = "done"
    BY <1>1, <1>2, PlanStays
  <1>3. CASE stage' = "render" /\ reviewed_renderer_target_version(The(target)) # {}
    <2>1. The(target).engine \in ReviewedVersions /\ Version = The(target).engine
      BY <1>3 DEF reviewed_renderer_target_version, Version, The
    <2>2. Version' = Version /\ The(target)' = The(target)
      BY <1>1 DEF Version
    <2> QED
      BY <1>1, <1>3, <2>1, <2>2 DEF PlanInv
  <1> QED
    BY <1>1, <1>2, <1>3

\* A builder call comes before the plan.
LEMMA PlanDeclared ==
    ASSUME PlanInv, stage = "declare", stage' = "declare", plan' = plan, DOMAIN resources' = DOMAIN resources
    PROVE  PlanInv'
  BY DEF PlanInv

\* The inductive invariant: the declaration, the plan made from it, and the
\* outcome made from both.
RenderInv == DeclarationInv /\ PlanInv /\ OutcomeInv

\* Every step keeps it.
LEMMA RenderInvStep ==
    ASSUME RenderInv, [Next]_vars
    PROVE  RenderInv'
  <1> USE DEF RenderInv
  <1>1. ASSUME NEW c \in Calls[family], Call(c[1], c[2])
        PROVE  RenderInv'
    <2>1. DeclarationInv'
      BY <1>1, CallStep
    <2>2. /\ stage = "declare" /\ stage' = "declare" /\ plan' = plan /\ next' = next /\ UNCHANGED rendered
          /\ DOMAIN resources' = DOMAIN resources
      BY <1>1 DEF Call
    <2> QED
      BY <2>1, <2>2, PlanDeclared, DeclareStep
  <1>2. ASSUME ~\E c \in Calls[family] : Call(c[1], c[2])
        PROVE  DeclarationInv' /\ UNCHANGED declaration
    BY <1>2, DeclarationStays DEF DeclarationInv, ResourcesInv, IdentitiesInv, IntentsInv, declaration
  <1> SUFFICES ASSUME ~\E c \in Calls[family] : Call(c[1], c[2])
               PROVE  PlanInv' /\ OutcomeInv'
    BY <1>1, <1>2
  <1>3. resources' = resources /\ external' = external
    BY <1>2 DEF declaration
  <1>4. ASSUME NEW t \in Targets, PlanDeployment(t)
        PROVE  PlanInv' /\ OutcomeInv'
    <2>1. stage = "declare" /\ stage' \in {"planned", "rejected"} /\ next' = next /\ UNCHANGED rendered
      BY <1>4 DEF PlanDeployment
    <2> QED
      BY <1>4, <2>1, PlanStep, DeclareStep
  <1>5. ASSUME NEW granted \in BOOLEAN, RenderDeployment(granted)
        PROVE  PlanInv' /\ OutcomeInv'
    BY <1>5, PlanBegins, BeginStep
  <1>6. CASE SkipBlocked
    BY <1>3, <1>6, PlanStays, SkipStep DEF SkipBlocked
  <1>7. CASE RefuseOperation
    BY <1>3, <1>7, PlanStays, RefuseStep DEF RefuseOperation
  <1>8. CASE RenderOperation
    BY <1>3, <1>8, PlanStays, RenderStep DEF RenderOperation
  <1>9. CASE FinishRendering
    BY <1>3, <1>9, PlanStays, FinishStep DEF FinishRendering
  <1>10. CASE UNCHANGED vars
    <2>1. UNCHANGED <<stage, resources, external, target, authorized, plan, next, blocked, findings, operations,
                      rendering>>
      BY <1>10 DEF vars, declaration, rendered
    <2>2. OutcomeInv'
      BY <2>1 DEF OutcomeInv, StartInv, LoopInv, WholeSoFar, FindingsInv, Placed, Refused, Version,
                  inline_policy, AllOrNothing, Mapped
    <2> QED
      BY <2>1, <2>2, PlanStays
  <1> QED
    BY <1>4, <1>5, <1>6, <1>7, <1>8, <1>9, <1>10 DEF Next

\* It holds in every reachable state, for every declaration, target and
\* sequence of calls.
THEOREM RenderInvariant == Spec => []RenderInv
  <1>1. Init => RenderInv
    BY DeclarationInit, PlanInit, OutcomeInit DEF RenderInv
  <1>2. RenderInv /\ [Next]_vars => RenderInv'
    BY RenderInvStep
  <1> QED
    BY <1>1, <1>2, PTL DEF Spec

\* A rendering is the whole plan in the plan's order or it is absent, exactly
\* when there is a finding, and no finding is reported twice
\* (render_deployment_inner, blocked_resources).
THEOREM OutcomesAreExact == Spec => []OutcomeExact
  <1>1. RenderInv => OutcomeExact
    BY DEF RenderInv, OutcomeInv, FindingsInv, OutcomeExact, ReportedOnce, BagToSet
  <1> QED
    BY <1>1, RenderInvariant, PTL

\* What the planner accepted the renderer never refuses for a rule they share
\* (validate_resources against unsupported_fields), for every declaration and
\* every reviewed version.
THEOREM TheGatesAgree == Spec => []GatesAgree
  <1>1. RenderInv => GatesAgree
    BY DEF RenderInv, OutcomeInv, FindingsInv, GatesAgree, BagToSet
  <1> QED
    BY <1>1, RenderInvariant, PTL

-----------------------------------------------------------------------------
(* The script. *)

\* The number of an operation's secret input counts the inputs up to it: it
\* grows with every input and never passes the total.
LEMMA SecretNumbers ==
    ASSUME NEW ops, NEW n \in Nat
    PROVE  /\ secret_number(ops, n) \in Nat
           /\ \A i \in 1..n : secret_number(ops, i) <= secret_number(ops, n)
           /\ \A i \in 1..n : ops[i].input # {} => 1 <= secret_number(ops, i)
           /\ \A i, j \in 1..n : i < j /\ ops[j].input # {} => secret_number(ops, i) < secret_number(ops, j)
           /\ \A i \in 1..n : secret_number(ops, i) \in Nat
  <1> DEFINE Before(i) == {k \in 1..i : ops[k].input # {}}
  <1>1. ASSUME NEW i \in Nat
        PROVE  /\ secret_number(ops, i) = Cardinality(Before(i)) /\ IsFiniteSet(Before(i))
               /\ Cardinality(Before(i)) \in Nat
    <2>1. IsFiniteSet(1..i)
      BY FS_Interval
    <2>2. IsFiniteSet(Before(i))
      BY <2>1, FS_Subset
    <2> QED
      BY <2>2, FS_CardinalityType DEF secret_number
  <1>2. ASSUME NEW i \in Nat, NEW j \in Nat, i <= j
        PROVE  Cardinality(Before(i)) <= Cardinality(Before(j))
    <2>1. Before(i) \subseteq Before(j)
      BY <1>2
    <2> QED
      BY <1>1, <2>1, FS_Subset
  <1>3. ASSUME NEW i \in Nat, NEW j \in Nat, i < j, ops[j].input # {}
        PROVE  Cardinality(Before(i)) < Cardinality(Before(j))
    <2>1. Before(i) \cup {j} \subseteq Before(j) /\ j \notin Before(i)
      BY <1>3
    <2>2. Cardinality(Before(i) \cup {j}) = Cardinality(Before(i)) + 1
      BY <1>1, <2>1, FS_AddElement
    <2>3. Cardinality(Before(i) \cup {j}) <= Cardinality(Before(j))
      BY <1>1, <2>1, FS_Subset
    <2>4. Cardinality(Before(i)) \in Nat /\ Cardinality(Before(j)) \in Nat
      BY <1>1
    <2> HIDE DEF Before
    <2> QED
      BY <2>2, <2>3, <2>4
  <1> HIDE DEF Before
  <1>4. \A i \in 1..n : i \in Nat /\ i <= n /\ 0 < i
    OBVIOUS
  <1>5. ASSUME NEW i \in 1..n, ops[i].input # {}
        PROVE  1 <= secret_number(ops, i)
    <2>1. Cardinality(Before(0)) < Cardinality(Before(i)) /\ Cardinality(Before(0)) \in Nat
      BY <1>1, <1>3, <1>4, <1>5
    <2> QED
      BY <1>1, <1>4, <2>1
  <1> QED
    BY <1>1, <1>2, <1>3, <1>4, <1>5

\* What the concatenation of two sequences holds.
LEMMA Joined ==
    ASSUME NEW V, NEW s \in Seq(V), NEW u \in Seq(V)
    PROVE  /\ s \o u \in Seq(V) /\ DOMAIN (s \o u) = 1..(Len(s) + Len(u))
           /\ Len(s \o u) = Len(s) + Len(u)
           /\ \A i \in 1..Len(s) : (s \o u)[i] = s[i]
           /\ \A i \in 1..Len(u) : (s \o u)[Len(s) + i] = u[i]
  <1>1. Len(s) \in Nat /\ Len(u) \in Nat
    OBVIOUS
  <1>2. s \o u \in Seq(V) /\ Len(s \o u) = Len(s) + Len(u)
    OBVIOUS
  <1>3. DOMAIN (s \o u) = 1..(Len(s) + Len(u))
    BY <1>2
  <1>4. \A i \in 1..Len(s) : (s \o u)[i] = s[i]
    OBVIOUS
  <1>5. ASSUME NEW i \in 1..Len(u)
        PROVE  (s \o u)[Len(s) + i] = u[i]
    <2>1. Len(s) + i \in 1..(Len(s) + Len(u)) /\ ~(Len(s) + i <= Len(s)) /\ (Len(s) + i) - Len(s) = i
      BY <1>1
    <2> QED
      BY <2>1
  <1> QED
    BY <1>2, <1>3, <1>4, <1>5

\* What the concatenation of three sequences holds.
LEMMA JoinedThree ==
    ASSUME NEW V, NEW a \in Seq(V), NEW b \in Seq(V), NEW c \in Seq(V), NEW s, s = (a \o b) \o c
    PROVE  /\ DOMAIN s = 1..(Len(a) + Len(b) + Len(c))
           /\ \A i \in 1..Len(a) : s[i] = a[i]
           /\ \A i \in 1..Len(b) : s[Len(a) + i] = b[i]
           /\ \A i \in 1..Len(c) : s[Len(a) + Len(b) + i] = c[i]
  <1>1. PICK ab : ab = a \o b
    OBVIOUS
  <1>2. Len(a) \in Nat /\ Len(b) \in Nat /\ Len(c) \in Nat
    OBVIOUS
  <1>3. /\ ab \in Seq(V) /\ Len(ab) = Len(a) + Len(b)
        /\ \A i \in 1..Len(a) : ab[i] = a[i]
        /\ \A i \in 1..Len(b) : ab[Len(a) + i] = b[i]
    BY <1>1, Joined
  <1>4. /\ DOMAIN s = 1..(Len(ab) + Len(c))
        /\ \A i \in 1..Len(ab) : s[i] = ab[i]
        /\ \A i \in 1..Len(c) : s[Len(ab) + i] = c[i]
    BY <1>1, <1>3, Joined
  <1>5. \A i \in 1..Len(a) : i \in 1..Len(ab)
    BY <1>2, <1>3
  <1>6. \A i \in 1..Len(b) : Len(a) + i \in 1..Len(ab)
    BY <1>2, <1>3
  <1> QED
    BY <1>3, <1>4, <1>5, <1>6

\* The lines of a script: preconditions, checks, then commands (shell_script).
LEMMA ScriptLines ==
    ASSUME NEW r, r.operations \in Seq(Elements(r.operations)), IsFiniteSet(r.external)
    PROVE  LET ops == r.operations
               E == Cardinality(r.external)
               K == secret_number(ops, Len(ops))
               script == shell_script(r)
           IN  /\ E \in Nat /\ K \in Nat /\ Len(ops) \in Nat
               /\ DOMAIN script = 1..(E + K + Len(ops))
               /\ \A i \in 1..(E + K) : script[i][1] # "podman"
               /\ \A i \in 1..K : script[E + i] = <<"check", i>>
               /\ \A i \in 1..Len(ops) :
                    script[E + K + i] = <<"podman", IF ops[i].input = {} THEN 0 ELSE secret_number(ops, i)>>
  <1> DEFINE ops == r.operations
             n == Len(ops)
             E == Cardinality(r.external)
             K == secret_number(ops, n)
  <1>1. n \in Nat /\ DOMAIN ops = 1..n
    OBVIOUS
  <1>2. E \in Nat /\ K \in Nat
    BY <1>1, SecretNumbers, FS_CardinalityType
  <1>3. PICK a, b, c :
          /\ a = [i \in 1..E |-> <<"requires", 0>>]
          /\ b = [i \in 1..K |-> <<"check", i>>]
          /\ c = [i \in 1..n |-> <<"podman", IF ops[i].input = {} THEN 0 ELSE secret_number(ops, i)>>]
          /\ shell_script(r) = (a \o b) \o c
    BY <1>1 DEF shell_script, command_number
  <1> HIDE DEF n, E, K
  <1>0. PICK V : V = {"requires", "check", "podman"} \X Int
    OBVIOUS
  <1>4. /\ \A i \in 1..E : a[i] = <<"requires", 0>>
        /\ \A i \in 1..K : b[i] = <<"check", i>>
        /\ \A i \in 1..n : c[i] = <<"podman", IF ops[i].input = {} THEN 0 ELSE secret_number(ops, i)>>
    BY <1>3
  <1>5. a \in Seq(V) /\ Len(a) = E
    BY <1>0, <1>2, <1>3
  <1>6. b \in Seq(V) /\ Len(b) = K
    BY <1>0, <1>2, <1>3
  <1>7. c \in Seq(V) /\ Len(c) = n
    <2>1. \A i \in 1..n : secret_number(ops, i) \in Nat
      BY <1>1, SecretNumbers
    <2>2. ASSUME NEW i \in 1..n
          PROVE  c[i] \in V
      <3>1. PICK m \in Nat : c[i] = <<"podman", m>>
        BY <1>4, <2>1
      <3> QED
        BY <1>0, <3>1
    <2>3. DOMAIN c = 1..n /\ c = [i \in 1..n |-> c[i]]
      <3>1. c = [i \in 1..n |-> <<"podman", IF ops[i].input = {} THEN 0 ELSE secret_number(ops, i)>>]
        BY <1>3
      <3> QED
        BY <3>1
    <2> QED
      BY <1>1, <2>2, <2>3
  <1>8. PICK s : s = shell_script(r)
    OBVIOUS
  <1>9. /\ DOMAIN s = 1..(E + K + n)
        /\ \A i \in 1..E : s[i] = a[i]
        /\ \A i \in 1..K : s[E + i] = b[i]
        /\ \A i \in 1..n : s[E + K + i] = c[i]
    <2>1. s = (a \o b) \o c /\ a \in Seq(V) /\ b \in Seq(V) /\ c \in Seq(V)
      BY <1>3, <1>5, <1>6, <1>7, <1>8
    <2>2. /\ DOMAIN s = 1..(Len(a) + Len(b) + Len(c))
          /\ \A i \in 1..Len(a) : s[i] = a[i]
          /\ \A i \in 1..Len(b) : s[Len(a) + i] = b[i]
          /\ \A i \in 1..Len(c) : s[Len(a) + Len(b) + i] = c[i]
      BY <2>1, JoinedThree
    <2> QED
      BY <1>5, <1>6, <1>7, <2>2
  <1>10. \A i \in 1..K : s[E + i] = <<"check", i>>
    BY <1>4, <1>9
  <1>11. ASSUME NEW i \in 1..(E + K)
         PROVE  s[i][1] # "podman"
    <2>1. CASE i \in 1..E
      BY <1>4, <1>9, <2>1
    <2>2. CASE i \notin 1..E
      <3>1. i - E \in 1..K /\ E + (i - E) = i
        BY <1>2, <2>2
      <3> QED
        BY <1>10, <3>1
    <2> QED
      BY <2>1, <2>2
  <1>12. \A i \in 1..n : s[E + K + i] = <<"podman", IF ops[i].input = {} THEN 0 ELSE secret_number(ops, i)>>
    BY <1>4, <1>9
  <1> QED
    BY <1>1, <1>2, <1>8, <1>9, <1>10, <1>11, <1>12 DEF n, E, K

\* Every command's input is checked first, under its own number.
LEMMA ScriptChecks ==
    ASSUME NEW r, r.operations \in Seq(Elements(r.operations)), IsFiniteSet(r.external)
    PROVE  LET script == shell_script(r)
               reads == {i \in DOMAIN script : script[i][1] = "podman" /\ script[i][2] # 0}
           IN  /\ \A i \in reads : \E j \in 1..(i - 1) :
                    /\ script[j] = <<"check", script[i][2]>>
                    /\ \A k \in 1..j : script[k][1] # "podman"
               /\ \A i, k \in reads : i # k => script[i][2] # script[k][2]
  <1> DEFINE ops == r.operations
             n == Len(ops)
             E == Cardinality(r.external)
             K == secret_number(ops, n)
             script == shell_script(r)
             reads == {i \in DOMAIN script : script[i][1] = "podman" /\ script[i][2] # 0}
  <1>1. /\ E \in Nat /\ K \in Nat /\ n \in Nat
        /\ DOMAIN script = 1..(E + K + n)
        /\ \A i \in 1..(E + K) : script[i][1] # "podman"
        /\ \A i \in 1..K : script[E + i] = <<"check", i>>
        /\ \A i \in 1..n :
             script[E + K + i] = <<"podman", IF ops[i].input = {} THEN 0 ELSE secret_number(ops, i)>>
    BY ScriptLines
  <1>2. /\ \A i \in 1..n : ops[i].input # {} => secret_number(ops, i) \in 1..K
        /\ \A i, j \in 1..n : i < j /\ ops[j].input # {} => secret_number(ops, i) < secret_number(ops, j)
        /\ \A i \in 1..n : secret_number(ops, i) \in Nat
    BY <1>1, SecretNumbers
  <1> HIDE DEF n, E, K, script, ops
  <1>3. ASSUME NEW i \in reads
        PROVE  \E p \in 1..n : /\ i = E + K + p /\ ops[p].input # {}
                               /\ script[i][2] = secret_number(ops, p)
    <2>1. i \in 1..(E + K + n) /\ i \notin 1..(E + K)
      BY <1>1
    <2>2. i - (E + K) \in 1..n /\ E + K + (i - (E + K)) = i
      BY <1>1, <2>1
    <2>3. PICK p \in 1..n : i = E + K + p
      BY <2>2
    <2>4. script[i] = <<"podman", IF ops[p].input = {} THEN 0 ELSE secret_number(ops, p)>> /\ script[i][2] # 0
      BY <1>1, <2>3
    <2> QED
      BY <2>3, <2>4
  <1>4. ASSUME NEW i \in reads
        PROVE  \E j \in 1..(i - 1) : /\ script[j] = <<"check", script[i][2]>>
                                     /\ \A k \in 1..j : script[k][1] # "podman"
    <2>1. PICK p \in 1..n : i = E + K + p /\ ops[p].input # {} /\ script[i][2] = secret_number(ops, p)
      BY <1>3
    <2>2. script[i][2] \in 1..K
      BY <1>2, <2>1
    <2>3. E + script[i][2] \in 1..(i - 1) /\ E + script[i][2] \in 1..(E + K)
      BY <1>1, <2>1, <2>2
    <2>4. script[E + script[i][2]] = <<"check", script[i][2]>>
      BY <1>1, <2>2
    <2>5. \A k \in 1..(E + script[i][2]) : script[k][1] # "podman"
      BY <1>1, <2>3
    <2> QED
      BY <2>3, <2>4, <2>5
  <1>5. ASSUME NEW i \in reads, NEW k \in reads, i # k
        PROVE  script[i][2] # script[k][2]
    <2>1. PICK p \in 1..n : i = E + K + p /\ ops[p].input # {} /\ script[i][2] = secret_number(ops, p)
      BY <1>3
    <2>2. PICK q \in 1..n : k = E + K + q /\ ops[q].input # {} /\ script[k][2] = secret_number(ops, q)
      BY <1>3
    <2>3. p < q \/ q < p
      BY <1>1, <1>5, <2>1, <2>2
    <2>4. secret_number(ops, p) \in Nat /\ secret_number(ops, q) \in Nat
      BY <1>2
    <2>5. secret_number(ops, p) # secret_number(ops, q)
      BY <1>2, <2>1, <2>2, <2>3, <2>4
    <2> QED
      BY <2>1, <2>2, <2>5
  <1> QED
    BY <1>4, <1>5 DEF script

\* What a complete rendering holds is a sequence of operations and finitely
\* many preconditions.
RenderedInv ==
    \A r \in rendering : r.operations \in Seq(Elements(r.operations)) /\ IsFiniteSet(r.external)

\* A rendering is made once, at the end of the loop.
LEMMA RenderedStep ==
    ASSUME RenderInv, RenderedInv, [Next]_vars
    PROVE  RenderedInv'
  <1>1. CASE rendering' = rendering
    BY <1>1 DEF RenderedInv
  <1>2. CASE FinishRendering /\ rendering' # rendering
    <2> DEFINE x == [deferred |-> deferred, protected |-> protected, connection |-> connection,
                     external |-> external, operations |-> operations]
    <2>1. x.operations = operations /\ x.external = external
      OBVIOUS
    <2>2. stage = "render" /\ (rendering' = {} \/ (findings = EmptyBag /\ rendering' = {x}))
      BY <1>2 DEF FinishRendering, Complete
    <2> HIDE DEF x
    <2>3. IsFiniteSet(external)
      BY FS_Subset DEF RenderInv, DeclarationInv, IdentitiesInv
    <2>4. findings = EmptyBag => operations \in Seq(Elements(operations))
      BY <2>2 DEF RenderInv, OutcomeInv, LoopInv, WholeSoFar
    <2> QED
      BY <2>1, <2>2, <2>3, <2>4 DEF RenderedInv
  <1> QED
    BY <1>1, <1>2 DEF Next, vars, rendered, Call, PlanDeployment, RenderDeployment, SkipBlocked,
                      RefuseOperation, RenderOperation

\* Every secret input a command of the script reads is checked before the
\* first command, under the number the command uses, and no two commands
\* share one (shell_script), for every complete rendering.
THEOREM ScriptsCheckInputs == Spec => []ScriptInputsChecked
  <1>1. Init => RenderedInv
    BY DEF Init, RenderedInv
  <1>2. RenderInv /\ RenderedInv /\ [Next]_vars => RenderedInv'
    BY RenderedStep
  <1>3. RenderedInv => ScriptInputsChecked
    BY ScriptChecks DEF RenderedInv, ScriptInputsChecked
  <1> QED
    BY <1>1, <1>2, <1>3, RenderInvariant, PTL DEF Spec

-----------------------------------------------------------------------------
(* The environment on a command line. *)

\* The values a command line passes as environment, and a command line that
\* passes none.
EnvOf(s) == {s[i][2][2] : i \in {j \in DOMAIN s : s[j][1] = "--env"}}
Silent(s) == List(s) /\ EnvOf(s) = {}
Indexed(s) == \E n \in Nat : DOMAIN s = 1..n

\* A list is indexed from one.
LEMMA ListIndexed ==
    ASSUME NEW s, List(s)
    PROVE  Indexed(s)
  BY DEF List, Indexed

\* A function indexed from one is a list.
LEMMA IndexedList ==
    ASSUME NEW s, Indexed(s), s = [i \in DOMAIN s |-> s[i]]
    PROVE  List(s)
  <1>1. PICK n \in Nat : DOMAIN s = 1..n
    BY DEF Indexed
  <1>2. \A i \in 1..n : s[i] \in Elements(s)
    BY <1>1 DEF Elements
  <1> QED
    BY <1>1, <1>2 DEF List

\* A concatenation passes what its two parts pass.
LEMMA JoinedEnv ==
    ASSUME NEW a, NEW b, List(a), List(b)
    PROVE  List(a \o b) /\ EnvOf(a \o b) = EnvOf(a) \cup EnvOf(b)
  <1> DEFINE V == Elements(a) \cup Elements(b)
             c == a \o b
  <1>1. a \in Seq(V) /\ b \in Seq(V)
    BY DEF List
  <1>2. Len(a) \in Nat /\ Len(b) \in Nat /\ DOMAIN a = 1..Len(a) /\ DOMAIN b = 1..Len(b)
    BY <1>1
  <1>3. /\ c \in Seq(V) /\ DOMAIN c = 1..(Len(a) + Len(b))
        /\ \A i \in 1..Len(a) : c[i] = a[i]
        /\ \A i \in 1..Len(b) : c[Len(a) + i] = b[i]
    BY <1>1, Joined
  <1> HIDE DEF c, V
  <1>4. List(c)
    <2>1. Len(a) + Len(b) \in Nat
      BY <1>2
    <2>2. Indexed(c)
      BY <1>3, <2>1 DEF Indexed
    <2>3. c = [i \in DOMAIN c |-> c[i]]
      BY <1>3
    <2> QED
      BY <2>2, <2>3, IndexedList
  <1>5. /\ \A i \in 1..Len(a) : i \in DOMAIN c
        /\ \A i \in 1..Len(b) : Len(a) + i \in DOMAIN c
        /\ \A i \in DOMAIN c : i \in 1..Len(a) \/ (i - Len(a) \in 1..Len(b) /\ i = Len(a) + (i - Len(a)))
    BY <1>2, <1>3
  <1>6. ASSUME NEW v \in EnvOf(c)
        PROVE  v \in EnvOf(a) \cup EnvOf(b)
    <2>1. PICK i \in DOMAIN c : c[i][1] = "--env" /\ v = c[i][2][2]
      BY DEF EnvOf
    <2>2. CASE i \in 1..Len(a)
      BY <1>2, <1>3, <2>1, <2>2 DEF EnvOf
    <2>3. CASE i - Len(a) \in 1..Len(b) /\ i = Len(a) + (i - Len(a))
      <3>1. PICK j \in 1..Len(b) : i = Len(a) + j
        BY <2>3
      <3> QED
        BY <1>2, <1>3, <2>1, <3>1 DEF EnvOf
    <2> QED
      BY <1>5, <2>2, <2>3
  <1>7. ASSUME NEW v \in EnvOf(a)
        PROVE  v \in EnvOf(c)
    BY <1>2, <1>3, <1>5 DEF EnvOf
  <1>8. ASSUME NEW v \in EnvOf(b)
        PROVE  v \in EnvOf(c)
    <2>1. PICK i \in 1..Len(b) : b[i][1] = "--env" /\ v = b[i][2][2]
      BY <1>2 DEF EnvOf
    <2> QED
      BY <1>3, <1>5, <2>1 DEF EnvOf
  <1> QED
    BY <1>4, <1>6, <1>7, <1>8 DEF c

\* Silent parts make a silent whole.
LEMMA SilentJoin ==
    ASSUME NEW a, NEW b, Silent(a), Silent(b)
    PROVE  Silent(a \o b)
  BY JoinedEnv DEF Silent

\* A line whose every part has another flag is silent.
LEMMA SilentLine ==
    ASSUME NEW s, Indexed(s), s = [i \in DOMAIN s |-> s[i]], \A i \in DOMAIN s : s[i][1] # "--env"
    PROVE  Silent(s)
  BY IndexedList DEF Silent, EnvOf

\* Nothing, and one or two parts with another flag.
LEMMA SilentFew ==
    /\ Silent(<<>>)
    /\ \A f, v : f # "--env" => Silent(<<<<f, v>>>>)
    /\ \A f, v, g, w : f # "--env" /\ g # "--env" => Silent(<<<<f, v>>, <<g, w>>>>)
    /\ \A f, v, g, w, h, x : f # "--env" /\ g # "--env" /\ h # "--env" =>
         Silent(<<<<f, v>>, <<g, w>>, <<h, x>>>>)
  <1>1. Silent(<<>>)
    BY DEF Silent, List, EnvOf, Elements
  <1>2. ASSUME NEW f, NEW v, f # "--env" PROVE Silent(<<<<f, v>>>>)
    <2>1. List(<<<<f, v>>>>)
      BY DEF List, Elements
    <2> QED
      BY <1>2, <2>1 DEF Silent, EnvOf
  <1>3. ASSUME NEW f, NEW v, NEW g, NEW w, f # "--env", g # "--env"
        PROVE  Silent(<<<<f, v>>, <<g, w>>>>)
    <2>1. List(<<<<f, v>>, <<g, w>>>>)
      BY DEF List, Elements
    <2> QED
      BY <1>3, <2>1 DEF Silent, EnvOf
  <1>4. ASSUME NEW f, NEW v, NEW g, NEW w, NEW h, NEW x, f # "--env", g # "--env", h # "--env"
        PROVE  Silent(<<<<f, v>>, <<g, w>>, <<h, x>>>>)
    <2>1. List(<<<<f, v>>, <<g, w>>, <<h, x>>>>)
      BY DEF List, Elements
    <2> QED
      BY <1>4, <2>1 DEF Silent, EnvOf
  <1> QED
    BY <1>1, <1>2, <1>3, <1>4

\* An option under another flag.
LEMMA SilentArg ==
    ASSUME NEW flag, flag # "--env", NEW option
    PROVE  Silent(Arg(flag, option))
  BY SilentFew DEF Arg

\* A list under another flag.
LEMMA SilentArgs ==
    ASSUME NEW flag, flag # "--env", NEW s, Indexed(s)
    PROVE  Silent(Args(flag, s))
  <1> DEFINE a == Args(flag, s)
  <1>1. DOMAIN a = DOMAIN s /\ a = [i \in DOMAIN a |-> a[i]] /\ \A i \in DOMAIN a : a[i][1] = flag
    BY DEF Args
  <1> HIDE DEF a
  <1> QED
    BY <1>1, SilentLine DEF a, Indexed

\* The attachments are passed under --network.
LEMMA SilentNetworks ==
    ASSUME NEW networks, List(networks), NEW order, order = {} \/ \E ids \in order : List(ids) /\ order = {ids},
           NEW line \in append_network_arguments(networks, order)
    PROVE  Silent(line)
  <1>1. PICK attached : /\ ordered_network_attachments(networks, order) = {attached}
                        /\ Indexed(attached)
    <2>1. ordered_network_attachments(networks, order) # {}
      BY DEF append_network_arguments
    <2>2. CASE order = {}
      BY <2>2, ListIndexed DEF ordered_network_attachments
    <2>3. CASE \E ids \in order : List(ids) /\ order = {ids}
      <3>1. PICK ids : List(ids) /\ order = {ids}
        BY <2>3
      <3>2. The(order) = ids
        BY <3>1 DEF The
      <3>3. \A x \in ordered_network_attachments(networks, order) : DOMAIN x = DOMAIN ids
        BY <2>1, <3>1, <3>2 DEF ordered_network_attachments
      <3>4. \E x : ordered_network_attachments(networks, order) = {x}
        BY <2>1, <3>1, <3>2 DEF ordered_network_attachments
      <3>5. PICK x : ordered_network_attachments(networks, order) = {x}
        BY <3>4
      <3>6. Indexed(x)
        BY <3>1, <3>3, <3>5, ListIndexed DEF Indexed
      <3> QED
        BY <3>5, <3>6
    <2> QED
      BY <2>2, <2>3
  <1>2. The(ordered_network_attachments(networks, order)) = attached
    BY <1>1 DEF The
  <1>3. line = Args("--network", Mapped(attached, network_attachment_cli_value))
    BY <1>2 DEF append_network_arguments
  <1>4. Indexed(Mapped(attached, network_attachment_cli_value))
    BY <1>1 DEF Mapped, Indexed
  <1> QED
    BY <1>3, <1>4, SilentArgs

\* Ports, DNS and hosts have flags of their own.
LEMMA SilentNetworking ==
    ASSUME NEW c, \A f \in Lists : List(c.list[f])
    PROVE  /\ Silent(append_port_arguments(c.list["ports"])) /\ Silent(append_dns_arguments(c))
           /\ Silent(append_host_alias_arguments(c.list["hosts"]))
  <1>1. \A f \in {"ports", "dns_servers", "dns_search", "dns_options", "hosts"} : Indexed(c.list[f])
    BY ListIndexed DEF Lists, NetworkingLists
  <1>2. Silent(append_port_arguments(c.list["ports"]))
    BY <1>1, SilentArgs DEF append_port_arguments, Mapped, Indexed
  <1>3. Silent(append_host_alias_arguments(c.list["hosts"]))
    BY <1>1, SilentArgs DEF append_host_alias_arguments, Mapped, Indexed
  <1>4. Silent(append_dns_arguments(c))
    BY <1>1, SilentArgs, SilentJoin DEF append_dns_arguments
  <1> QED
    BY <1>2, <1>3, <1>4

\* Mounts have --volume and --mount.
LEMMA SilentMounts ==
    ASSUME NEW mounts, List(mounts), NEW line \in append_mount_arguments(mounts)
    PROVE  Silent(line)
  <1>1. /\ DOMAIN line = DOMAIN mounts /\ line = [i \in DOMAIN line |-> line[i]]
        /\ \A i \in DOMAIN line : line[i][1] \in {"--volume", "--mount"}
    BY DEF append_mount_arguments, Mapped
  <1>2. Indexed(line)
    BY <1>1, ListIndexed DEF Indexed
  <1> QED
    BY <1>1, <1>2, SilentLine

\* Secret grants have --secret.
LEMMA SilentGrants ==
    ASSUME NEW grants, List(grants), NEW line \in append_secret_grants_arguments(grants)
    PROVE  Silent(line)
  <1>1. Indexed(grants)
    BY ListIndexed
  <1> QED
    BY <1>1, SilentArgs DEF append_secret_grants_arguments, Mapped, Indexed

\* The values of a container's declared environment.
ValuesOf(c) == {e.value : e \in Elements(c.list["environment"])}

\* The settings pass the whole environment, or fail (append_container_setting_arguments).
LEMMA SettingsEnv ==
    ASSUME NEW c, \A f \in Lists : List(c.list[f]), NEW granted,
           append_container_setting_arguments(c, granted).ok
    PROVE  LET line == append_container_setting_arguments(c, granted).value
           IN  environment_shown(c, granted) /\ List(line) /\ EnvOf(line) = ValuesOf(c)
  <1> DEFINE env == c.list["environment"]
             given == Mapped(env, LAMBDA e : <<e.name, The(authorized_environment_value(e, granted))>>)
             a == Arg("--entrypoint", c.opt["entrypoint"]) \o Arg("--user", c.opt["user"])
                  \o Arg("--workdir", c.opt["workdir"]) \o Arg("--hostname", c.opt["hostname"])
                  \o Args("--label", Mapped(c.list["labels"], LAMBDA l : <<l.key, l.value>>))
             b == Args("--env", given)
             d == Arg("--restart", c.opt["restart_policy"])
             line == append_container_setting_arguments(c, granted).value
  <1>1. environment_shown(c, granted)
    BY DEF append_container_setting_arguments, Err
  <1>2. line = (a \o b) \o d
    BY <1>1 DEF append_container_setting_arguments, Ok
  <1>3. Indexed(c.list["labels"]) /\ Indexed(env)
    BY ListIndexed DEF Lists, SettingLists
  <1>4. Silent(a)
    <2>1. Silent(Args("--label", Mapped(c.list["labels"], LAMBDA l : <<l.key, l.value>>)))
      BY <1>3, SilentArgs DEF Mapped, Indexed
    <2>2. /\ Silent(Arg("--entrypoint", c.opt["entrypoint"])) /\ Silent(Arg("--user", c.opt["user"]))
          /\ Silent(Arg("--workdir", c.opt["workdir"])) /\ Silent(Arg("--hostname", c.opt["hostname"]))
      BY SilentArg
    <2> QED
      BY <2>1, <2>2, SilentJoin
  <1>5. Silent(d)
    BY SilentArg
  <1>6. /\ DOMAIN b = DOMAIN env /\ b = [i \in DOMAIN b |-> b[i]]
        /\ \A i \in DOMAIN env : b[i] = <<"--env", <<env[i].name, The(authorized_environment_value(env[i], granted))>>>>
    BY DEF Args, Mapped
  <1>7. \A i \in DOMAIN env : The(authorized_environment_value(env[i], granted)) = env[i].value
    BY <1>1 DEF environment_shown, authorized_environment_value, The, Elements
  <1> HIDE DEF a, b, d, env, line
  <1>8. List(b)
    BY <1>3, <1>6, IndexedList DEF Indexed
  <1>9. \A i \in DOMAIN env : b[i][1] = "--env" /\ b[i][2][2] = env[i].value
    BY <1>6, <1>7
  <1>10. EnvOf(b) = ValuesOf(c)
    <2>1. EnvOf(b) = {env[i].value : i \in DOMAIN env}
      BY <1>6, <1>9 DEF EnvOf
    <2>2. ValuesOf(c) = {env[i].value : i \in DOMAIN env}
      BY DEF ValuesOf, Elements, env
    <2> QED
      BY <2>1, <2>2
  <1>11. List(a \o b) /\ EnvOf(a \o b) = ValuesOf(c)
    BY <1>4, <1>8, <1>10, JoinedEnv DEF Silent
  <1>12. List(line) /\ EnvOf(line) = ValuesOf(c)
    <2>1. PICK ab : ab = a \o b
      OBVIOUS
    <2>2. List(ab) /\ EnvOf(ab) = ValuesOf(c) /\ line = ab \o d
      BY <1>2, <1>11, <2>1
    <2>3. List(d) /\ EnvOf(d) = {}
      BY <1>5 DEF Silent
    <2>4. List(line) /\ EnvOf(line) = EnvOf(ab) \cup EnvOf(d)
      BY <2>2, <2>3, JoinedEnv
    <2> QED
      BY <2>2, <2>3, <2>4
  <1> QED
    BY <1>1, <1>12 DEF line

\* Health checks, security, namespaces and resources have flags of their own.
LEMMA SilentRuntime ==
    ASSUME NEW c, \A f \in Lists : List(c.list[f]), NEW version,
           append_container_runtime_arguments(c, version).ok
    PROVE  Silent(append_container_runtime_arguments(c, version).value)
  <1>1. \A f \in {"cap_add", "cap_drop", "rlimits", "journald_labels"} : Indexed(c.list[f])
    BY ListIndexed DEF Lists, SettingLists
  <1>2. Silent(append_security_arguments(c))
    BY <1>1, SilentArg, SilentArgs, SilentJoin DEF append_security_arguments
  <1>3. Silent(append_namespace_arguments(c))
    BY SilentArg, SilentJoin DEF append_namespace_arguments
  <1>4. Silent(append_resource_arguments(c))
    <2>1. Silent(Args("--ulimit", Mapped(c.list["rlimits"], rlimit_cli_value)))
      BY <1>1, SilentArgs DEF Mapped, Indexed
    <2> QED
      BY <2>1, SilentArg, SilentJoin DEF append_resource_arguments
  <1>5. \A h : Silent(append_health_arguments(h)) /\ Silent(append_startup_arguments(h))
    BY SilentArg, SilentJoin DEF append_health_arguments, append_startup_arguments
  <1> DEFINE health == c.opt["health"]
             startup == c.opt["startup_health"]
             h == IF health = {} THEN <<>>
                  ELSE IF The(health).disabled THEN <<<<"--no-healthcheck", TRUE>>>>
                  ELSE Arg("--health-cmd", health_command_cli(The(health).command))
                       \o append_health_arguments(The(health))
             s == IF startup = {} THEN <<>>
                  ELSE Arg("--health-startup-cmd", health_command_cli(The(startup).command))
                       \o append_startup_arguments(The(startup))
             labels == Args("--log-opt", Mapped(c.list["journald_labels"], LAMBDA l : <<"label", <<l.key, l.value>>>>))
             size == Arg("--log-opt", Select(c.opt["max_size"], LAMBDA v : <<"max-size", v>>))
  <1>6. Silent(h)
    BY <1>5, SilentFew, SilentArg, SilentJoin
  <1>7. Silent(s)
    BY <1>5, SilentFew, SilentArg, SilentJoin
  <1>8. Silent(labels)
    BY <1>1, SilentArgs DEF Mapped, Indexed
  <1>9. Silent(size) /\ Silent(Arg("--log-driver", c.opt["driver"]))
    BY SilentArg
  <1>10. append_container_runtime_arguments(c, version).value
           = h \o s \o Arg("--log-driver", c.opt["driver"]) \o size \o labels
             \o append_security_arguments(c) \o append_namespace_arguments(c) \o append_resource_arguments(c)
    BY DEF append_container_runtime_arguments, Ok, Err
  <1> HIDE DEF h, s, labels, size
  <1> QED
    BY <1>2, <1>3, <1>4, <1>6, <1>7, <1>8, <1>9, <1>10, SilentJoin

-----------------------------------------------------------------------------
(* The environment in a body. *)

\* The values a body carries as environment, and a body without the member.
EnvIn(json) == UNION {{env[n] : n \in DOMAIN env} : env \in Member(json, "env")}
Bare(json) == "env" \notin DOMAIN json

\* A body without the member carries no environment.
LEMMA BareEnv ==
    ASSUME NEW f, Bare(f)
    PROVE  EnvIn(f) = {}
  BY DEF EnvIn, Bare, Member

\* Two bodies in one carry what one of them carries, when the other is bare.
LEMMA MergedEnv ==
    ASSUME NEW f, NEW g
    PROVE  /\ Bare(f) /\ Bare(g) => Bare(f ++ g)
           /\ Bare(f) => EnvIn(f ++ g) = EnvIn(g)
           /\ Bare(g) => EnvIn(f ++ g) = EnvIn(f)
  <1>1. Bare(f) /\ Bare(g) => Bare(f ++ g)
    BY DEF Bare, ++
  <1>2. Bare(f) => Member(f ++ g, "env") = Member(g, "env")
    BY DEF Bare, Member, ++
  <1>3. Bare(g) => Member(f ++ g, "env") = Member(f, "env")
    BY DEF Bare, Member, ++
  <1> QED
    BY <1>1, <1>2, <1>3 DEF EnvIn

\* Every other member is bare.
LEMMA BareMember ==
    ASSUME NEW m, m # "env", NEW v
    PROVE  Bare(One(m, v)) /\ Bare(Insert(m, v)) /\ Bare(InsertArray(m, v))
  BY DEF Bare, One, Insert, InsertArray

\* The networking members are bare.
LEMMA BareNetworking ==
    ASSUME NEW c, NEW order
    PROVE  Bare(append_networking_json(c, order))
  BY BareMember, MergedEnv DEF append_networking_json, Mapped, Select

\* So are the runtime settings.
LEMMA BareRuntime ==
    ASSUME NEW c, NEW version, append_container_runtime_json(c, version).ok
    PROVE  Bare(append_container_runtime_json(c, version).value)
  <1>1. Bare(append_security_json(c))
    BY BareMember, MergedEnv DEF append_security_json
  <1>2. Bare(append_namespace_json(c))
    BY BareMember, MergedEnv DEF append_namespace_json, Select
  <1>3. Bare(append_resource_json(c))
    BY BareMember, MergedEnv DEF append_resource_json, Mapped, Select
  <1>4. Bare(append_logging_json(c))
    BY BareMember DEF append_logging_json, Object
  <1> QED
    BY <1>1, <1>2, <1>3, <1>4, BareMember, MergedEnv DEF append_container_runtime_json, Ok, Err, Select

\* So are the secret grants.
LEMMA BareGrants ==
    ASSUME NEW grants
    PROVE  Bare(append_secret_grants_json(grants))
  BY BareMember, MergedEnv DEF append_secret_grants_json, Mapped

\* The settings carry no value but the declared ones, each shown.
LEMMA SettingsBody ==
    ASSUME NEW c, NEW granted, environment_shown(c, granted)
    PROVE  EnvIn(append_container_setting_json(c, granted).value) \subseteq ValuesOf(c)
  <1> DEFINE env == c.list["environment"]
             object == [k \in {e.name : e \in Elements(env)} |->
                          The(authorized_environment_value(CHOOSE e \in Elements(env) : e.name = k, granted))]
             option == IF ~Listed(c, "environment") THEN {} ELSE {object}
             labels == Insert("labels", IF ~Listed(c, "labels") THEN {}
                         ELSE {Object(c.list["labels"], LAMBDA l : l.key, LAMBDA l : l.value)})
             a == Insert("command", c.opt["command"]) ++ Insert("entrypoint", c.opt["entrypoint"])
                  ++ Insert("user", c.opt["user"]) ++ Insert("work_dir", c.opt["workdir"])
                  ++ Insert("hostname", c.opt["hostname"]) ++ labels
             x == Insert("env", option)
             r == Insert("restart_policy", c.opt["restart_policy"])
             v == InsertArray("volumes", mount_json(c.list["mounts"]))
             m == InsertArray("mounts", native_mount_json(c.list["mounts"]))
             json == append_container_setting_json(c, granted).value
  <1>1. json = a ++ x ++ r ++ v ++ m
    BY DEF append_container_setting_json, Ok, Object
  <1>2. Bare(a)
    BY BareMember, MergedEnv DEF Object
  <1>3. Bare(r) /\ Bare(v) /\ Bare(m)
    BY BareMember
  <1>4. ASSUME NEW n \in DOMAIN object
        PROVE  object[n] \in ValuesOf(c)
    <2>1. PICK e \in Elements(env) : e = (CHOOSE y \in Elements(env) : y.name = n)
      OBVIOUS
    <2>2. The(authorized_environment_value(e, granted)) = e.value
      BY DEF environment_shown, authorized_environment_value, The
    <2>3. object[n] = e.value
      BY <2>1, <2>2
    <2> QED
      BY <2>3 DEF ValuesOf
  <1> HIDE DEF object
  <1>5. EnvIn(x) \subseteq ValuesOf(c)
    <2>1. Member(x, "env") \subseteq {object}
      BY DEF Member, Insert, One, The
    <2> QED
      BY <1>4, <2>1 DEF EnvIn
  <1> HIDE DEF a, x, r, v, m, json
  <1>6. EnvIn(a ++ x) = EnvIn(x)
    BY <1>2, MergedEnv
  <1>7. EnvIn(a ++ x ++ r) = EnvIn(x)
    BY <1>3, <1>6, MergedEnv
  <1>8. EnvIn(a ++ x ++ r ++ v) = EnvIn(x)
    BY <1>3, <1>7, MergedEnv
  <1>9. EnvIn(json) = EnvIn(x)
    BY <1>1, <1>3, <1>8, MergedEnv
  <1> QED
    BY <1>5, <1>9 DEF json

-----------------------------------------------------------------------------
(* What a rendered operation shows. *)

\* The values in the two renderings of an operation, with the connection prefix.
LEMMA ShownIs ==
    ASSUME NEW v, {"argv", "body"} \subseteq DOMAIN v, List(v.argv)
    PROVE  Shown(Prefixed(v)) = EnvOf(v.argv) \cup EnvIn(v.body.json)
  <1> DEFINE line == Arg("--connection", connection) \o v.argv
  <1>1. Silent(Arg("--connection", connection))
    BY SilentArg
  <1>2. EnvOf(line) = EnvOf(v.argv)
    BY <1>1, JoinedEnv DEF Silent
  <1>3. Prefixed(v).argv = line /\ Prefixed(v).body = v.body
    BY DEF Prefixed
  <1> HIDE DEF line
  <1> QED
    BY <1>2, <1>3 DEF Shown, Inlined, EnvOf, EnvIn

\* The same of the operations with a JSON body and of those without.
LEMMA RenderedShows ==
    ASSUME NEW op, NEW argv, List(argv), NEW path, NEW json
    PROVE  /\ Shown(Prefixed(Rendered(op, argv, path, json).value)) = EnvOf(argv) \cup EnvIn(json)
           /\ Shown(Prefixed(Plain(op, argv, path).value)) = EnvOf(argv)
  <1> DEFINE v == Rendered(op, argv, path, json).value
             w == Plain(op, argv, path).value
  <1>1. {"argv", "body"} \subseteq DOMAIN v /\ v.argv = argv /\ v.body.json = json
    BY DEF Rendered, Ok
  <1>2. {"argv", "body"} \subseteq DOMAIN w /\ w.argv = argv /\ w.body.json = <<>>
    BY DEF Plain, Ok
  <1>3. EnvIn(<<>>) = {}
    BY BareEnv DEF Bare
  <1>4. \A x : x \cup {} = x
    OBVIOUS
  <1> HIDE DEF v, w
  <1>5. Shown(Prefixed(v)) = EnvOf(argv) \cup EnvIn(json)
    BY <1>1, ShownIs
  <1>6. Shown(Prefixed(w)) = EnvOf(argv) \cup EnvIn(<<>>)
    BY <1>2, ShownIs
  <1> QED
    BY <1>3, <1>4, <1>5, <1>6 DEF v, w

\* The command a container is created with follows its image, without a flag.
LEMMA SilentCommand ==
    ASSUME NEW c, Intent(c)
    PROVE  Silent(Args("", IF Has(c, "command") THEN The(c.opt["command"]) ELSE <<>>))
  <1>1. CASE Has(c, "command")
    <2>1. PICK a : List(a) /\ c.opt["command"] = {a}
      BY <1>1 DEF Intent, Has
    <2>2. The(c.opt["command"]) = a
      BY <2>1 DEF The
    <2> QED
      BY <1>1, <2>1, <2>2, ListIndexed, SilentArgs
  <1>2. CASE ~Has(c, "command")
    <2>1. Indexed(<<>>)
      BY DEF Indexed
    <2> QED
      BY <1>2, <2>1, SilentArgs
  <1> QED
    BY <1>1, <1>2

\* A pod or the networking of its own: nothing of the environment.
LEMMA SilentJoining ==
    ASSUME NEW c, Intent(c), NEW line \in join_arguments(c)
    PROVE  Silent(line)
  <1>1. CASE c.pod # {}
    BY <1>1, SilentArg DEF join_arguments, Select
  <1>2. CASE c.pod = {}
    <2>1. PICK networks \in append_network_arguments(c.list["networks"], c.order) :
            line = networks \o append_port_arguments(c.list["ports"]) \o append_dns_arguments(c)
                   \o append_host_alias_arguments(c.list["hosts"])
      BY <1>2 DEF join_arguments
    <2>2. List(c.list["networks"]) /\ \A f \in Lists : List(c.list[f])
      BY DEF Intent, Lists, NetworkingLists
    <2>3. c.order = {} \/ \E ids \in c.order : List(ids) /\ c.order = {ids}
      BY DEF Intent
    <2>4. Silent(networks)
      BY <2>2, <2>3, SilentNetworks
    <2> QED
      BY <2>1, <2>2, <2>4, SilentNetworking, SilentJoin
  <1> QED
    BY <1>1, <1>2

\* A silent part before or after changes nothing.
LEMMA SilentAround ==
    ASSUME NEW a, NEW b
    PROVE  /\ Silent(a) /\ List(b) => List(a \o b) /\ EnvOf(a \o b) = EnvOf(b)
           /\ List(a) /\ Silent(b) => List(a \o b) /\ EnvOf(a \o b) = EnvOf(a)
  <1>1. ASSUME Silent(a), List(b) PROVE List(a \o b) /\ EnvOf(a \o b) = EnvOf(b)
    <2>1. List(a) /\ EnvOf(a) = {}
      BY <1>1 DEF Silent
    <2>2. List(a \o b) /\ EnvOf(a \o b) = EnvOf(a) \cup EnvOf(b)
      BY <1>1, <2>1, JoinedEnv
    <2> QED
      BY <2>1, <2>2
  <1>2. ASSUME List(a), Silent(b) PROVE List(a \o b) /\ EnvOf(a \o b) = EnvOf(a)
    <2>1. List(b) /\ EnvOf(b) = {}
      BY <1>2 DEF Silent
    <2>2. List(a \o b) /\ EnvOf(a \o b) = EnvOf(a) \cup EnvOf(b)
      BY <1>2, <2>1, JoinedEnv
    <2> QED
      BY <2>1, <2>2
  <1> QED
    BY <1>1, <1>2

\* A rendered container shows exactly its declared environment, and every
\* entry of it may be shown (render_container_create).
LEMMA ContainerShows ==
    ASSUME NEW op, NEW c, Intent(c), NEW version, NEW sources, NEW granted,
           render_container_create(op, c, version, sources, granted).ok
    PROVE  /\ environment_shown(c, granted)
           /\ Shown(Prefixed(render_container_create(op, c, version, sources, granted).value)) = ValuesOf(c)
  <1> DEFINE x == render_container_create(op, c, version, sources, granted)
             join == join_arguments(c)
             mounts == append_mount_arguments(c.list["mounts"])
             grants == append_secret_grants_arguments(c.list["secret_grants"])
             settings == append_container_setting_arguments(c, granted)
             runtime == append_container_runtime_arguments(c, version)
             image == image_named(c, sources)
             command == IF Has(c, "command") THEN The(c.opt["command"]) ELSE <<>>
             start == <<<<"container", "create">>, <<"--name", NameOf[c.id]>>, <<"--pull", "never">>>>
             argv == start \o The(join) \o The(mounts) \o The(grants) \o settings.value \o runtime.value
                     \o <<<<"", image>>>> \o Args("", command)
             body == One("image", image) ++ join_json(c)
                     ++ append_container_setting_json(c, granted).value
                     ++ append_secret_grants_json(c.list["secret_grants"])
                     ++ append_container_runtime_json(c, version).value
             path == <<"containers/create", NameOf[c.id]>>
  <1>1. \A field : ~Err(field).ok
    BY DEF Err
  <1>2. /\ join # {} /\ mounts # {} /\ grants # {} /\ settings.ok /\ runtime.ok
        /\ x = Rendered(op, argv, path, body)
    BY <1>1 DEF render_container_create
  <1>3. \A f \in Lists : List(c.list[f])
    BY DEF Intent
  <1>4. List(c.list["mounts"]) /\ List(c.list["secret_grants"])
    BY <1>3 DEF Lists, FreeLists
  <1>5. The(join) \in join /\ The(mounts) \in mounts /\ The(grants) \in grants
    BY <1>2 DEF The
  <1>6. Silent(The(join)) /\ Silent(The(mounts)) /\ Silent(The(grants))
    BY <1>4, <1>5, SilentJoining, SilentMounts, SilentGrants
  <1>7. Silent(start) /\ Silent(<<<<"", image>>>>)
    BY SilentFew
  <1>8. environment_shown(c, granted) /\ List(settings.value) /\ EnvOf(settings.value) = ValuesOf(c)
    BY <1>2, <1>3, SettingsEnv
  <1>9. Silent(runtime.value)
    BY <1>2, <1>3, SilentRuntime
  <1>10. Silent(Args("", command))
    BY SilentCommand
  <1>11. List(argv) /\ EnvOf(argv) = ValuesOf(c)
    <2>1. PICK a : a = start \o The(join) \o The(mounts) \o The(grants)
      OBVIOUS
    <2>2. PICK b : b = a \o settings.value
      OBVIOUS
    <2>3. PICK d : d = b \o runtime.value
      OBVIOUS
    <2>4. PICK e : e = d \o <<<<"", image>>>>
      OBVIOUS
    <2>5. argv = e \o Args("", command)
      BY <2>1, <2>2, <2>3, <2>4
    <2> HIDE DEF start, join, mounts, grants, settings, runtime, image, command, argv
    <2>6. Silent(a)
      BY <1>6, <1>7, <2>1, SilentJoin
    <2>7. List(b) /\ EnvOf(b) = ValuesOf(c)
      BY <1>8, <2>2, <2>6, SilentAround
    <2>8. List(d) /\ EnvOf(d) = ValuesOf(c)
      BY <1>9, <2>3, <2>7, SilentAround
    <2>9. List(e) /\ EnvOf(e) = ValuesOf(c)
      BY <1>7, <2>4, <2>8, SilentAround
    <2> QED
      BY <1>10, <2>5, <2>9, SilentAround
  <1>12. EnvIn(body) \subseteq ValuesOf(c)
    <2>1. PICK s : s = append_container_setting_json(c, granted).value
      OBVIOUS
    <2>2. EnvIn(s) \subseteq ValuesOf(c)
      BY <1>8, <2>1, SettingsBody
    <2>3. Bare(join_json(c))
      BY BareMember, BareNetworking, MergedEnv DEF join_json, Select
    <2>4. Bare(One("image", image) ++ join_json(c))
      BY <2>3, BareMember, MergedEnv
    <2>5. append_container_runtime_json(c, version).ok
      BY <1>2 DEF append_container_runtime_json, append_container_runtime_arguments, Ok, Err
    <2>6. PICK g, t : /\ g = append_secret_grants_json(c.list["secret_grants"]) /\ Bare(g)
                      /\ t = append_container_runtime_json(c, version).value /\ Bare(t)
      BY <2>5, BareGrants, BareRuntime
    <2>7. PICK a : a = One("image", image) ++ join_json(c) /\ Bare(a)
      BY <2>4
    <2>8. body = a ++ s ++ g ++ t
      BY <2>1, <2>6, <2>7
    <2> HIDE DEF body
    <2>9. EnvIn(a ++ s) = EnvIn(s)
      BY <2>7, MergedEnv
    <2>10. EnvIn(a ++ s ++ g) = EnvIn(s)
      BY <2>6, <2>9, MergedEnv
    <2>11. EnvIn(body) = EnvIn(s)
      BY <2>6, <2>8, <2>10, MergedEnv
    <2> QED
      BY <2>2, <2>11
  <1> HIDE DEF argv, body, path
  <1>13. Shown(Prefixed(x.value)) = EnvOf(argv) \cup EnvIn(body)
    BY <1>2, <1>11, RenderedShows
  <1> QED
    BY <1>8, <1>11, <1>12, <1>13

\* Subnets and routes are passed under flags of their own.
LEMMA SilentNetworkCreate ==
    ASSUME NEW n, Intent(n)
    PROVE  Silent(append_network_create_arguments(n))
  <1> DEFINE subnets == n.list["subnets"]
  <1>1. Indexed(subnets) /\ Indexed(n.list["routes"])
    BY ListIndexed DEF Intent, Lists, NetworkingLists
  <1>2. \A field : Indexed(Given(subnets, field))
    <2> SUFFICES ASSUME NEW field PROVE Indexed(Given(subnets, field))
      OBVIOUS
    <2> DEFINE at == {i \in DOMAIN subnets : subnets[i][field] # {}}
    <2>1. IsFiniteSet(DOMAIN subnets)
      BY <1>1, FS_Interval DEF Indexed
    <2>2. Cardinality(at) \in Nat
      BY <2>1, FS_Subset, FS_CardinalityType
    <2>3. DOMAIN Given(subnets, field) = 1..Cardinality(at)
      BY DEF Given
    <2> QED
      BY <2>2, <2>3 DEF Indexed
  <1>3. Silent(Args("--subnet", Mapped(subnets, LAMBDA s : s.subnet)))
    BY <1>1, SilentArgs DEF Mapped, Indexed
  <1>4. Silent(Args("--gateway", Mapped(Given(subnets, "gateway"), LAMBDA s : The(s.gateway))))
    BY <1>2, SilentArgs DEF Mapped, Indexed
  <1>5. Silent(Args("--ip-range", Mapped(Given(subnets, "range"), LAMBDA s : The(s.range))))
    BY <1>2, SilentArgs DEF Mapped, Indexed
  <1>6. Silent(Args("--route", Mapped(n.list["routes"], network_route_cli_value)))
    BY <1>1, SilentArgs DEF Mapped, Indexed
  <1> QED
    BY <1>3, <1>4, <1>5, <1>6, SilentJoin DEF append_network_create_arguments

\* Every other operation shows nothing of any environment.
LEMMA OthersShow ==
    ASSUME NEW op, NEW r, NEW version, NEW sources, NEW granted,
           KindOf[r.id] \in BuilderKinds \cup {"image", "secret"}, KindOf[r.id] \in BuilderKinds => Intent(r),
           op.action \in {"StartPod", "StartContainer", "EnsureImage", "Create"},
           op.action = "Create" => KindOf[r.id] \notin {"image", "container"},
           render_operation(op, r, version, sources, granted).ok
    PROVE  Shown(Prefixed(render_operation(op, r, version, sources, granted).value)) = {}
  <1> DEFINE x == render_operation(op, r, version, sources, granted)
  <1>1. \A argv, path, json : Silent(argv) /\ Bare(json) =>
             /\ Shown(Prefixed(Rendered(op, argv, path, json).value)) = {}
             /\ Shown(Prefixed(Plain(op, argv, path).value)) = {}
    BY RenderedShows, BareEnv DEF Silent
  <1>2. Bare(<<>>)
    BY DEF Bare
  <1>3. CASE op.action # "Create"
    <2>1. \E argv, path : Silent(argv) /\ x = Plain(op, argv, path)
      BY <1>3, SilentFew DEF render_operation
    <2> QED
      BY <1>1, <1>2, <2>1
  <1>4. CASE op.action = "Create" /\ KindOf[r.id] = "network"
    <2>1. x = Rendered(op, <<<<"network", "create">>>> \o append_network_create_arguments(r)
                           \o <<<<"", NameOf[r.id]>>>>,
                       <<"networks/create">>,
                       network_create_configuration(r, supports_network_route_type(version)))
      BY <1>4 DEF render_operation, render_create
    <2>2. Silent(<<<<"network", "create">>>> \o append_network_create_arguments(r) \o <<<<"", NameOf[r.id]>>>>)
      BY <1>4, SilentNetworkCreate, SilentFew, SilentJoin DEF BuilderKinds
    <2>3. Bare(network_create_configuration(r, supports_network_route_type(version)))
      BY BareMember, MergedEnv DEF network_create_configuration, Mapped
    <2> QED
      BY <1>1, <2>1, <2>2, <2>3
  <1>5. CASE op.action = "Create" /\ KindOf[r.id] = "volume"
    <2>1. x = Rendered(op, <<<<"volume", "create">>>> \o volume_create_cli_arguments(r)
                           \o <<<<"", NameOf[r.id]>>>>, <<"volumes/create">>, volume_create_json(r))
      BY <1>5 DEF render_operation, render_create
    <2>2. Silent(<<<<"volume", "create">>>> \o volume_create_cli_arguments(r) \o <<<<"", NameOf[r.id]>>>>)
      BY SilentArg, SilentFew, SilentJoin DEF volume_create_cli_arguments
    <2>3. Bare(volume_create_json(r))
      BY BareMember, MergedEnv DEF volume_create_json
    <2> QED
      BY <1>1, <2>1, <2>2, <2>3
  <1>6. CASE op.action = "Create" /\ KindOf[r.id] = "secret"
    <2>1. /\ {"argv", "body"} \subseteq DOMAIN x.value /\ x.value.body.json = <<>>
          /\ x.value.argv = <<<<"secret", "create">>, <<"", NameOf[r.id]>>, <<"", "-">>>>
      BY <1>6 DEF render_operation, render_create, Ok
    <2> HIDE DEF x
    <2>2. Silent(x.value.argv)
      <3>1. Silent(<<<<"secret", "create">>, <<"", NameOf[r.id]>>, <<"", "-">>>>)
        BY SilentFew
      <3> QED
        BY <2>1, <3>1
    <2>3. Shown(Prefixed(x.value)) = EnvOf(x.value.argv) \cup EnvIn(x.value.body.json)
      BY <2>1, <2>2, ShownIs DEF Silent
    <2>4. EnvOf(x.value.argv) = {} /\ EnvIn(x.value.body.json) = {}
      BY <1>2, <2>1, <2>2, BareEnv DEF Silent
    <2>5. Shown(Prefixed(x.value)) = {}
      BY <2>3, <2>4
    <2> QED
      BY <2>5 DEF x
  <1>7. CASE op.action = "Create" /\ KindOf[r.id] = "pod"
    <2> DEFINE networks == append_network_arguments(r.list["networks"], {})
               argv == <<<<"pod", "create">>, <<"--name", NameOf[r.id]>>>> \o The(networks)
                       \o append_port_arguments(r.list["ports"]) \o append_dns_arguments(r)
                       \o append_host_alias_arguments(r.list["hosts"])
               json == One("name", NameOf[r.id]) ++ One("Networks", network_configuration(r.list["networks"]))
                       ++ append_networking_json(r, {})
    <2>1. x = render_pod_create(op, r)
      BY <1>7 DEF render_operation, render_create
    <2>2. networks # {} /\ x = Rendered(op, argv, <<"pods/create">>, json)
      BY <2>1 DEF render_pod_create, Err
    <2>3. List(r.list["networks"]) /\ \A f \in Lists : List(r.list[f])
      BY <1>7 DEF Intent, Lists, NetworkingLists, BuilderKinds
    <2>4. The(networks) \in networks
      BY <2>2 DEF The
    <2>5. Silent(The(networks))
      BY <2>3, <2>4, SilentNetworks
    <2>6. Silent(argv)
      BY <2>3, <2>5, SilentNetworking, SilentFew, SilentJoin
    <2>7. Bare(json)
      BY BareMember, BareNetworking, MergedEnv
    <2> HIDE DEF argv, json
    <2> QED
      BY <1>1, <2>2, <2>6, <2>7
  <1> QED
    BY <1>3, <1>4, <1>5, <1>6, <1>7 DEF BuilderKinds

-----------------------------------------------------------------------------
(* Disclosure. *)

\* A call adds at most its own entry to the environment of its intent.
LEMMA CalledEnvironment ==
    ASSUME NEW c, Intent(c), NEW call, CallShape(call),
           NEW e \in Elements(Called(c, call).intent.list["environment"])
    PROVE  e \in Elements(c.list["environment"]) \/ (call[1] = "add" /\ call[2] = "environment" /\ e = call[3])
  <1>1. Fields(c) /\ c.list = [f \in Lists |-> c.list[f]] /\ "environment" \in Lists
    BY DEF Intent, Fields, Lists, SettingLists
  <1>2. \A code : Refuse(c, code).intent = c
    BY DEF Refuse
  <1>3. \A d : Accept(d).intent = d
    BY DEF Accept
  <1>4. CASE call[1] = "set" /\ call[2] \in OnceFields
    <2> DEFINE d == [c EXCEPT !.opt[call[2]] = {call[3]}]
    <2>1. d.list = c.list
      BY <1>1 DEF Fields
    <2>2. Called(c, call).intent \in {c, d}
      BY <1>2, <1>3, <1>4 DEF Called, set_once
    <2> HIDE DEF d
    <2> QED
      BY <2>1, <2>2
  <1>5. CASE call[1] = "add" /\ call[2] \in Lists
    <2> DEFINE field == call[2]
               s == c.list[field]
               v == call[3]
               d == [c EXCEPT !.list[field] = Append(s, v)]
    <2>1. d.list = [c.list EXCEPT ![field] = Append(s, v)]
      BY <1>1 DEF Fields
    <2>2. Called(c, call).intent \in {c, d}
      BY <1>2, <1>3, <1>5 DEF Called, add_entry
    <2>3. s \in Seq(Elements(s))
      BY <1>5 DEF Intent, List
    <2>4. \A x \in Elements(Append(s, v)) : x \in Elements(s) \/ x = v
      BY <2>3 DEF Elements
    <2> HIDE DEF d
    <2>5. CASE field = "environment" /\ Called(c, call).intent = d
      <3>1. d.list["environment"] = Append(s, v)
        BY <1>1, <2>1, <2>5
      <3> QED
        BY <1>5, <2>4, <2>5, <3>1
    <2>6. CASE field # "environment" /\ Called(c, call).intent = d
      <3>1. d.list["environment"] = c.list["environment"]
        BY <1>1, <2>1, <2>6
      <3> QED
        BY <2>6, <3>1
    <2> QED
      BY <2>2, <2>5, <2>6
  <1>6. CASE call[1] = "pod"
    <2> DEFINE d == [c EXCEPT !.pod = {call[3]}]
    <2>1. d.list = c.list
      BY <1>1 DEF Fields
    <2>2. Called(c, call).intent \in {c, d}
      BY <1>2, <1>3, <1>6 DEF Called, set_pod
    <2> HIDE DEF d
    <2> QED
      BY <2>1, <2>2
  <1>7. CASE call[1] = "order"
    <2> DEFINE d == [c EXCEPT !.order = {call[3]}]
    <2>1. d.list = c.list
      BY <1>1 DEF Fields
    <2>2. Called(c, call).intent \in {c, d}
      BY <1>2, <1>3, <1>7 DEF Called, set_network_order
    <2> HIDE DEF d
    <2> QED
      BY <2>1, <2>2
  <1> QED
    BY <1>4, <1>5, <1>6, <1>7 DEF CallShape

\* Every entry of a declared container has an origin: a setup or a call.
OriginInv == Entries(resources) \subseteq Declarable

\* A rendered operation shows nothing, or the whole environment of one
\* container, all of which may be shown.
ShowsRightly(o) ==
    \/ Shown(o) = {}
    \/ \E id \in DOMAIN resources : /\ KindOf[id] = "container" /\ environment_shown(resources[id], authorized)
                                    /\ Shown(o) = ValuesOf(resources[id])

\* The flag tells what the operations so far show, and a rendering has both.
FlagInv ==
    /\ protected \in BOOLEAN
    /\ protected <=> Disclosed(operations) \cap ProtectedValues # {}
    /\ \A r \in rendering : r.operations = operations /\ (r.protected <=> protected)
OperationsInv == List(operations) /\ \A i \in DOMAIN operations : ShowsRightly(operations[i])
DisclosureInv == OriginInv /\ OperationsInv /\ FlagInv

\* A value has the class of every entry it is the value of.
LEMMA ClassOfValue ==
    ASSUME OriginInv, NEW e \in Entries(resources), NEW x \in Entries(resources), e.value = x.value
    PROVE  e.class = x.class
  BY OriginAssumption DEF OriginInv

\* The entries of one container are among the declared ones.
LEMMA EntriesOf ==
    ASSUME NEW id \in DOMAIN resources, KindOf[id] = "container",
           NEW e \in Elements(resources[id].list["environment"])
    PROVE  e \in Entries(resources)
  BY DEF Entries

\* No operations, before the renderer begins.
LEMMA NoOperations == List(<<>>) /\ DOMAIN <<>> = {} /\ Elements(<<>>) = {}
  BY DEF List, Elements

\* Declaring adds entries with an origin, and nothing is rendered yet.
LEMMA DisclosureCall ==
    ASSUME RenderInv, DisclosureInv, NEW c \in Calls[family], Call(c[1], c[2])
    PROVE  DisclosureInv'
  <1> DEFINE at == c[1]
             result == Called(resources[at], c[2])
  <1>1. DeclarationInv /\ StartInv
    BY DEF RenderInv, OutcomeInv
  <1>2. KindOf[at] \in BuilderKinds /\ CallShape(c[2]) /\ family \in DOMAIN Calls
    BY <1>1, CallsAssumption DEF DeclarationInv, CallShape
  <1>3. /\ stage = "declare" /\ at \in DOMAIN resources
        /\ resources' = [resources EXCEPT ![at] = result.intent]
        /\ UNCHANGED <<operations, protected, rendering>>
    BY DEF Call, rendered
  <1>4. operations = <<>> /\ rendering = {}
    BY <1>1, <1>3 DEF StartInv
  <1>5. Intent(resources[at])
    <2>1. at \in DOMAIN resources /\ KindOf[at] \in BuilderKinds
      BY <1>2, <1>3
    <2> HIDE DEF at
    <2> QED
      BY <1>1, <2>1 DEF DeclarationInv, IntentsInv
  <1>6. ASSUME NEW e \in Elements(result.intent.list["environment"]), KindOf[at] = "container"
        PROVE  e \in Declarable
    <2>1. e \in Elements(resources[at].list["environment"])
            \/ (c[2][1] = "add" /\ c[2][2] = "environment" /\ e = c[2][3])
      BY <1>2, <1>5, <1>6, CalledEnvironment
    <2>2. CASE e \in Elements(resources[at].list["environment"])
      BY <1>3, <1>6, <2>2, EntriesOf DEF DisclosureInv, OriginInv
    <2>3. CASE c[2][1] = "add" /\ c[2][2] = "environment" /\ e = c[2][3]
      <3>1. c \in UNION {Calls[f] : f \in DOMAIN Calls}
        BY <1>2
      <3>2. e \in Added
        BY <2>3, <3>1 DEF Added
      <3> QED
        BY <3>2 DEF Declarable
    <2> QED
      BY <2>1, <2>2, <2>3
  <1> HIDE DEF at, result
  <1>7. OriginInv'
    <2> SUFFICES ASSUME NEW id \in DOMAIN resources', KindOf[id] = "container",
                        NEW e \in Elements(resources'[id].list["environment"])
                 PROVE  e \in Declarable
      BY DEF OriginInv, Entries
    <2>1. CASE id = at
      BY <1>3, <1>6, <2>1
    <2>2. CASE id # at
      <3>1. resources'[id] = resources[id] /\ id \in DOMAIN resources
        BY <1>3, <2>2
      <3> QED
        BY <3>1, EntriesOf DEF DisclosureInv, OriginInv
    <2> QED
      BY <2>1, <2>2
  <1>8. operations' = <<>> /\ rendering' = {} /\ protected' = protected
    BY <1>3, <1>4
  <1>9. OperationsInv' /\ Disclosed(operations') = {} /\ Disclosed(operations) = {}
    BY <1>4, <1>8, NoOperations DEF OperationsInv, Disclosed
  <1>10. FlagInv'
    <2>1. protected \in BOOLEAN /\ ~protected
      BY <1>9 DEF DisclosureInv, FlagInv
    <2> QED
      BY <1>8, <1>9, <2>1 DEF FlagInv
  <1> QED
    BY <1>7, <1>9, <1>10 DEF DisclosureInv

\* Steps that render nothing.
LEMMA DisclosureSame ==
    ASSUME DisclosureInv, UNCHANGED <<resources, operations, protected>>,
           authorized' = authorized \/ operations = <<>>,
           \A r \in rendering' : r.operations = operations /\ (r.protected <=> protected)
    PROVE  DisclosureInv'
  <1>1. OriginInv'
    BY DEF DisclosureInv, OriginInv
  <1>2. OperationsInv'
    <2>1. CASE authorized' = authorized
      BY <2>1 DEF DisclosureInv, OperationsInv, ShowsRightly
    <2>2. CASE operations = <<>>
      BY <2>2, NoOperations DEF OperationsInv
    <2> QED
      BY <2>1, <2>2
  <1>3. ProtectedValues' = ProtectedValues
    BY DEF ProtectedValues
  <1>4. FlagInv'
    BY <1>3 DEF DisclosureInv, FlagInv
  <1> QED
    BY <1>1, <1>2, <1>4 DEF DisclosureInv

\* The flag of one container: an entry of it is protected exactly if a value
\* of it is a protected one.
LEMMA ProtectedContainer ==
    ASSUME OriginInv, NEW id \in DOMAIN resources, KindOf[id] = "container"
    PROVE  (\E e \in Elements(resources[id].list["environment"]) : e.class = "protected")
             <=> ValuesOf(resources[id]) \cap ProtectedValues # {}
  <1>1. ASSUME NEW e \in Elements(resources[id].list["environment"]), e.class = "protected"
        PROVE  ValuesOf(resources[id]) \cap ProtectedValues # {}
    <2>1. e \in Entries(resources)
      BY <1>1, EntriesOf
    <2>2. e.value \in ValuesOf(resources[id]) /\ e.value \in ProtectedValues
      BY <1>1, <2>1 DEF ValuesOf, ProtectedValues
    <2> QED
      BY <2>2
  <1>2. ASSUME NEW v \in ValuesOf(resources[id]), v \in ProtectedValues
        PROVE  \E e \in Elements(resources[id].list["environment"]) : e.class = "protected"
    <2>1. PICK e \in Elements(resources[id].list["environment"]) : v = e.value
      BY <1>2 DEF ValuesOf
    <2>2. PICK x \in Entries(resources) : x.class = "protected" /\ v = x.value
      BY <1>2 DEF ProtectedValues
    <2>3. e \in Entries(resources)
      BY EntriesOf
    <2> QED
      BY <2>1, <2>2, <2>3, ClassOfValue
  <1> QED
    BY <1>1, <1>2

\* An operation shows nothing, or it creates a container and shows all of its
\* environment, which may be shown.
LEMMA OperationShows ==
    ASSUME RenderInv, AtOperation,
           render_operation(Current, resources[Current.resource], Version, managed_image_sources, inline_policy).ok
    PROVE  LET id == Current.resource
               o == Prefixed(render_operation(Current, resources[id], Version, managed_image_sources,
                                              inline_policy).value)
               container == Current.action = "Create" /\ KindOf[id] = "container"
           IN  /\ id \in DOMAIN resources
               /\ container => environment_shown(resources[id], authorized) /\ Shown(o) = ValuesOf(resources[id])
               /\ ~container => Shown(o) = {}
  <1> DEFINE id == Current.resource
             x == render_operation(Current, resources[id], Version, managed_image_sources, inline_policy)
  <1>1. id \in DOMAIN resources /\ (Creates(Current) \/ Starts(Current))
    BY AtCurrent DEF RenderInv
  <1>2. /\ resources[id].id = id /\ KindOf[id] \in BuilderKinds \cup {"image", "secret"}
        /\ KindOf[id] \in BuilderKinds => Intent(resources[id])
    BY <1>1 DEF RenderInv, DeclarationInv, IntentsInv
  <1>3. /\ Current.action \in {"StartPod", "StartContainer", "EnsureImage", "Create"}
        /\ Current.action = "Create" => KindOf[id] # "image"
    BY <1>1 DEF Creates, Starts, create_operation, Op
  <1> HIDE DEF id
  <1>4. CASE Current.action = "Create" /\ KindOf[id] = "container"
    <2>1. x = render_container_create(Current, resources[id], Version, managed_image_sources, inline_policy)
      BY <1>2, <1>4 DEF render_operation, render_create
    <2>2. Intent(resources[id])
      BY <1>2, <1>4 DEF BuilderKinds
    <2>3. x.ok
      BY DEF id
    <2>4. environment_shown(resources[id], inline_policy) /\ Shown(Prefixed(x.value)) = ValuesOf(resources[id])
      BY <2>1, <2>2, <2>3, ContainerShows
    <2> QED
      BY <1>1, <1>4, <2>4 DEF inline_policy, id
  <1>5. CASE ~(Current.action = "Create" /\ KindOf[id] = "container")
    <2>1. x.ok
      BY DEF id
    <2>2. Shown(Prefixed(x.value)) = {}
      BY <1>2, <1>3, <1>5, <2>1, OthersShow
    <2> QED
      BY <1>1, <1>5, <2>2 DEF id
  <1> QED
    BY <1>4, <1>5

\* One more operation shows one more set of values.
LEMMA DisclosedMore ==
    ASSUME NEW s, List(s), NEW o
    PROVE  /\ List(Append(s, o)) /\ Disclosed(Append(s, o)) = Disclosed(s) \cup Shown(o)
           /\ \A i \in DOMAIN Append(s, o) : Append(s, o)[i] = o \/ (i \in DOMAIN s /\ Append(s, o)[i] = s[i])
  <1> DEFINE e == Append(s, o)
  <1>1. /\ e \in Seq(Elements(e)) /\ Len(s) \in Nat /\ Len(e) = Len(s) + 1 /\ e[Len(s) + 1] = o
        /\ \A i \in 1..Len(s) : e[i] = s[i]
    BY Appended DEF List
  <1>2. DOMAIN s = 1..Len(s)
    BY DEF List
  <1> HIDE DEF e
  <1>3. DOMAIN e = 1..(Len(s) + 1)
    BY <1>1
  <1>4. \A i \in DOMAIN e : i = Len(s) + 1 \/ i \in 1..Len(s)
    BY <1>1, <1>3
  <1>5. Elements(e) = Elements(s) \cup {o}
    <2>1. Len(s) + 1 \in DOMAIN e /\ \A i \in 1..Len(s) : i \in DOMAIN e
      BY <1>1, <1>3
    <2> QED
      BY <1>1, <1>2, <1>4, <2>1 DEF Elements
  <1>6. Disclosed(e) = Disclosed(s) \cup Shown(o)
    BY <1>5 DEF Disclosed
  <1> QED
    BY <1>1, <1>2, <1>4, <1>6 DEF e, List

\* Rendering an operation keeps the flag exact.
LEMMA DisclosureRender ==
    ASSUME RenderInv, DisclosureInv, RenderOperation
    PROVE  DisclosureInv'
  <1> DEFINE id == Current.resource
             x == render_operation(Current, resources[id], Version, managed_image_sources, inline_policy)
             o == Prefixed(x.value)
             container == Current.action = "Create" /\ KindOf[id] = "container"
  <1>1. /\ AtOperation /\ stage = "render" /\ UNCHANGED <<resources, authorized, rendering>>
        /\ \/ x.ok /\ operations' = Append(operations, o) /\ protected' = ProtectedSoFar(Current)
           \/ ~x.ok /\ UNCHANGED <<operations, protected>>
    BY DEF RenderOperation, AtOperation, declaration
  <1>2. rendering = {}
    BY <1>1, AtCurrent DEF RenderInv
  <1>3. CASE ~x.ok /\ UNCHANGED <<operations, protected>>
    BY <1>1, <1>2, <1>3, DisclosureSame
  <1>4. CASE x.ok /\ operations' = Append(operations, o) /\ protected' = ProtectedSoFar(Current)
    <2>1. /\ id \in DOMAIN resources
          /\ container => environment_shown(resources[id], authorized) /\ Shown(o) = ValuesOf(resources[id])
          /\ ~container => Shown(o) = {}
      BY <1>1, <1>4, OperationShows
    <2>2. protected' <=> protected \/ (container /\ \E e \in Elements(resources[id].list["environment"]) :
                                                       e.class = "protected")
      BY <1>4 DEF ProtectedSoFar
    <2>3. protected' \in BOOLEAN
      BY <1>4 DEF ProtectedSoFar
    <2> HIDE DEF x, o, id
    <2>4. /\ List(operations') /\ Disclosed(operations') = Disclosed(operations) \cup Shown(o)
          /\ \A i \in DOMAIN operations' : operations'[i] = o \/ (i \in DOMAIN operations /\ operations'[i] = operations[i])
      BY <1>4, DisclosedMore DEF DisclosureInv, OperationsInv
    <2>5. ShowsRightly(o)
      BY <2>1 DEF ShowsRightly
    <2>6. \A y : ShowsRightly(y) => ShowsRightly(y)'
      BY <1>1 DEF ShowsRightly
    <2>7. OperationsInv'
      BY <2>4, <2>5, <2>6 DEF DisclosureInv, OperationsInv
    <2>8. ProtectedValues' = ProtectedValues
      BY <1>1 DEF ProtectedValues
    <2>9. (container /\ \E e \in Elements(resources[id].list["environment"]) : e.class = "protected")
            <=> Shown(o) \cap ProtectedValues # {}
      BY <2>1, ProtectedContainer DEF DisclosureInv
    <2>10. protected <=> Disclosed(operations) \cap ProtectedValues # {}
      BY DEF DisclosureInv, FlagInv
    <2>11. Disclosed(operations') \cap ProtectedValues' # {}
             <=> Disclosed(operations) \cap ProtectedValues # {} \/ Shown(o) \cap ProtectedValues # {}
      BY <2>4, <2>8
    <2>12. FlagInv'
      BY <1>1, <1>2, <2>2, <2>3, <2>9, <2>10, <2>11 DEF FlagInv
    <2>13. OriginInv'
      BY <1>1 DEF DisclosureInv, OriginInv
    <2> QED
      BY <2>7, <2>12, <2>13 DEF DisclosureInv
  <1> QED
    BY <1>1, <1>3, <1>4

\* Every step keeps it.
LEMMA DisclosureStep ==
    ASSUME RenderInv, DisclosureInv, [Next]_vars
    PROVE  DisclosureInv'
  <1>1. \A r \in rendering : r.operations = operations /\ (r.protected <=> protected)
    BY DEF DisclosureInv, FlagInv
  <1>2. ASSUME NEW c \in Calls[family], Call(c[1], c[2])
        PROVE  DisclosureInv'
    BY <1>2, DisclosureCall
  <1>3. ASSUME NEW t \in Targets, PlanDeployment(t)
        PROVE  DisclosureInv'
    <2>1. UNCHANGED <<resources, operations, protected, authorized, rendering>>
      BY <1>3 DEF PlanDeployment, declaration, rendered
    <2> QED
      BY <1>1, <2>1, DisclosureSame
  <1>4. ASSUME NEW granted \in BOOLEAN, RenderDeployment(granted)
        PROVE  DisclosureInv'
    <2>1. stage = "planned" /\ UNCHANGED <<resources, operations, protected, rendering>>
      BY <1>4 DEF RenderDeployment, declaration
    <2>2. operations = <<>>
      BY <2>1 DEF RenderInv, OutcomeInv, StartInv
    <2> QED
      BY <1>1, <2>1, <2>2, DisclosureSame
  <1>5. CASE SkipBlocked \/ RefuseOperation \/ UNCHANGED vars
    <2>1. UNCHANGED <<resources, operations, protected, authorized, rendering>>
      BY <1>5 DEF SkipBlocked, RefuseOperation, vars, declaration, rendered
    <2> QED
      BY <1>1, <2>1, DisclosureSame
  <1>6. CASE RenderOperation
    BY <1>6, DisclosureRender
  <1>7. CASE FinishRendering
    <2> DEFINE x == [deferred |-> deferred, protected |-> protected, connection |-> connection,
                     external |-> external, operations |-> operations]
    <2>1. x.operations = operations /\ x.protected = protected
      OBVIOUS
    <2>2. UNCHANGED <<resources, operations, protected, authorized>> /\ rendering' \subseteq {x}
      BY <1>7 DEF FinishRendering, declaration
    <2> HIDE DEF x
    <2> QED
      BY <2>1, <2>2, DisclosureSame
  <1> QED
    BY <1>2, <1>3, <1>4, <1>5, <1>6, <1>7 DEF Next

\* What is shown is of no class that may not be shown.
LEMMA NothingUnauthorized ==
    ASSUME DisclosureInv
    PROVE  NoUnauthorizedDisclosure
  <1>1. ASSUME NEW v \in Disclosed(operations), NEW x \in Entries(resources), v = x.value
        PROVE  x.class = "public" \/ (x.class = "protected" /\ authorized)
    <2>1. PICK i \in DOMAIN operations : v \in Shown(operations[i])
      BY DEF Disclosed, Elements
    <2>2. PICK id \in DOMAIN resources : /\ KindOf[id] = "container"
                                         /\ environment_shown(resources[id], authorized)
                                         /\ v \in ValuesOf(resources[id])
      BY <2>1 DEF DisclosureInv, OperationsInv, ShowsRightly
    <2>3. PICK e \in Elements(resources[id].list["environment"]) : v = e.value
      BY <2>2 DEF ValuesOf
    <2>4. e.class = x.class
      BY <1>1, <2>2, <2>3, EntriesOf, ClassOfValue DEF DisclosureInv
    <2> QED
      BY <2>2, <2>3, <2>4 DEF environment_shown, authorized_environment_value
  <1>2. ASSUME ~authorized, NEW v \in Disclosed(operations), v \in ProtectedValues
        PROVE  FALSE
    BY <1>1, <1>2 DEF ProtectedValues
  <1>3. ASSUME NEW v \in Disclosed(operations), v \in ExternalValues
        PROVE  FALSE
    BY <1>1, <1>3 DEF ExternalValues
  <1> QED
    BY <1>2, <1>3 DEF NoUnauthorizedDisclosure

\* The artifacts hold what the rendering shows, and say so.
LEMMA TheArtifactsTell ==
    ASSUME DisclosureInv
    PROVE  ArtifactsTell
  <1> SUFFICES ASSUME NEW r \in rendering
               PROVE  /\ r.protected <=> Disclosed(r.operations) \cap ProtectedValues # {}
                      /\ \A a \in deployment_v1(r) : \A i \in DOMAIN a.operations :
                            Inlined(a.operations[i].argv, a.operations[i].json) \cap ProtectedValues = {}
                      /\ \A a \in deployment_v2(r) : a.protected = r.protected
    BY DEF ArtifactsTell
  <1>1. r.protected <=> Disclosed(r.operations) \cap ProtectedValues # {}
    BY DEF DisclosureInv, FlagInv
  <1>2. ASSUME NEW a \in deployment_v1(r), NEW i \in DOMAIN a.operations
        PROVE  Inlined(a.operations[i].argv, a.operations[i].json) \cap ProtectedValues = {}
    <2>1. ~r.protected /\ a = from_rendering(r)
      BY <1>2 DEF deployment_v1
    <2>2. /\ i \in DOMAIN r.operations
          /\ a.operations[i].argv = r.operations[i].argv /\ a.operations[i].json = r.operations[i].body.json
      BY <1>2, <2>1 DEF from_rendering, Mapped
    <2>3. Inlined(a.operations[i].argv, a.operations[i].json) = Shown(r.operations[i])
      BY <2>2 DEF Shown
    <2>4. Shown(r.operations[i]) \subseteq Disclosed(r.operations)
      BY <2>2 DEF Disclosed, Elements
    <2> QED
      BY <1>1, <2>1, <2>3, <2>4
  <1>3. \A a \in deployment_v2(r) : a.protected = r.protected
    BY DEF deployment_v2, from_rendering, ++, Mapped
  <1> QED
    BY <1>1, <1>2, <1>3

\* A protected value is in a rendering only under an authorization, an
\* external reference in none, and the flag and the artifacts tell exactly
\* whether one is there (authorized_environment_value, unsupported_fields,
\* contains_protected_inline_environment, deployment_v1, deployment_v2), for
\* every declaration, target and sequence of calls.
THEOREM DisclosureIsControlled == Spec => []DisclosureControlled
  <1>1. Init => DisclosureInv
    <2> SUFFICES ASSUME Init PROVE DisclosureInv
      OBVIOUS
    <2>1. PICK s \in Setups : resources = s.resources
      BY DEF Init
    <2>2. OriginInv
      BY <2>1 DEF OriginInv, Declarable
    <2>3. operations = <<>> /\ protected = FALSE /\ rendering = {}
      BY DEF Init
    <2>4. OperationsInv /\ Disclosed(operations) = {}
      BY <2>3, NoOperations DEF OperationsInv, Disclosed
    <2> QED
      BY <2>2, <2>3, <2>4 DEF DisclosureInv, FlagInv
  <1>2. RenderInv /\ DisclosureInv /\ [Next]_vars => DisclosureInv'
    BY DisclosureStep
  <1>3. DisclosureInv => DisclosureControlled
    BY NothingUnauthorized, TheArtifactsTell DEF DisclosureControlled
  <1> QED
    BY <1>1, <1>2, <1>3, RenderInvariant, PTL DEF Spec

=============================================================================
