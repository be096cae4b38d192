----------------------------- MODULE Declaration -----------------------------
(***************************************************************************)
(* The intent builders (src/src/settings.rs, runtime.rs, networking.rs and *)
(* deployment.rs): every mutating call on an intent, its answer, and the   *)
(* intent it leaves.                                                       *)
(*                                                                         *)
(* An intent is [id, image, pod, order, opt, list]: opt holds every field  *)
(* that is set at most once, list every repeated field (mounts are a pod's *)
(* infra mounts).  A call is <<"set", field, value>>,                      *)
(* <<"add", field, value>>, <<"pod", "", identity>> or                     *)
(* <<"order", "", identities>>.  A value its own constructor refuses never *)
(* reaches the intent: the call answers "constructor".  The setters of a   *)
(* value (a gateway, static addresses, the parameters of a health check)   *)
(* are folded into its constructor: a call hands over a finished value.    *)
(***************************************************************************)
EXTENDS Values, PlannerRules

SettingsFields == {"command", "entrypoint", "user", "workdir", "hostname", "restart_policy"}
HealthFields == {"health", "startup_health"}
LoggingFields == {"driver", "max_size"}
SecurityFields == {"privileged", "no_new_privileges", "read_only_filesystem", "read_write_tmpfs"}
ResourceFields == {"cpu_shares", "cpu_period", "cpu_quota", "memory_bytes", "pids"}
NamespaceFields == {"pid", "ipc", "uts", "cgroup"}
OwnerFields == {"uid", "gid"}
OnceFields == UNION {SettingsFields, HealthFields, LoggingFields, SecurityFields,
                     ResourceFields, NamespaceFields, OwnerFields}

NetworkingLists == {"networks", "ports", "dns_servers", "dns_search", "dns_options", "hosts",
                    "subnets", "routes"}
SettingLists == {"labels", "environment", "journald_labels", "cap_add", "cap_drop", "rlimits"}
FreeLists == {"mounts", "secret_grants", "members"}
Lists == NetworkingLists \cup SettingLists \cup FreeLists
EnvironmentClasses == {"public", "protected", "external"}

ASSUME CapAssumption == \A f \in Lists \ FreeLists : Cap[f] \in Nat

new(id, image) ==
    [id |-> id, image |-> image, pod |-> {}, order |-> {},
     opt |-> [f \in OnceFields |-> {}], list |-> [f \in Lists |-> <<>>]]

List(s) == s \in Seq(Elements(s))

\* An intent as the builders make one.
Intent(c) ==
    /\ c = [id |-> c.id, image |-> c.image, pod |-> c.pod, order |-> c.order, opt |-> c.opt, list |-> c.list]
    /\ c.pod = {} \/ \E p \in DOMAIN KindOf : c.pod = {p}
    /\ c.order = {} \/ \E ids \in c.order : ids # <<>> /\ List(ids) /\ c.order = {ids}
    /\ c.opt = [f \in OnceFields |-> c.opt[f]]
    /\ c.opt["command"] = {} \/ \E a \in c.opt["command"] : List(a) /\ c.opt["command"] = {a}
    /\ c.list = [f \in Lists |-> c.list[f]]
    /\ \A f \in Lists : List(c.list[f])
    /\ \A f \in Lists \ FreeLists : Len(c.list[f]) <= Cap[f]
    /\ \A e \in Elements(c.list["environment"]) : e.class \in EnvironmentClasses

\* What a call answers and the intent it leaves.
Refuse(c, code) == [intent |-> c, answer |-> code]
Accept(c) == [intent |-> c, answer |-> "ok"]

-----------------------------------------------------------------------------
(* Fields set once. *)

\* The constructor of the field's value, or the range check of its setter.
SettingAccepted(field, v) ==
    CASE field \in {"command", "entrypoint"} -> ArgumentArray(v)
      [] field = "user" -> ContainerUser(v)
      [] field = "workdir" -> is_absolute_normalized_path(v)
      [] field = "hostname" -> ContainerHostname(v)
      [] OTHER -> TRUE
ResourceAccepted(field, v) ==
    CASE field = "cpu_shares" -> v \in 2..262144
      [] field = "cpu_period" -> v \in 1000..1000000
      [] field = "cpu_quota" -> v >= 1000
      [] field = "memory_bytes" -> signed_positive(v)
      [] OTHER -> v # 0 /\ v >= -1
OnceAccepted(field, v) ==
    CASE field \in SettingsFields -> SettingAccepted(field, v)
      [] field \in ResourceFields -> ResourceAccepted(field, v)
      [] field = "health" -> ConfiguredHealthCheck(v)
      [] field = "startup_health" -> StartupHealthCheck(v)
      [] field = "max_size" -> LogSize(v)
      [] field \in OwnerFields -> UnixId(v)
      [] OTHER -> TRUE

\* Slip: a second value replaces the first.
set_once_replacing(c, field, v) == Accept([c EXCEPT !.opt[field] = {v}])

\* set_once, and set_volume_owner, which does not tell a repetition apart
set_once(c, field, v) ==
    IF c.opt[field] = {} THEN Accept([c EXCEPT !.opt[field] = {v}])
    ELSE IF c.opt[field] = {v} /\ field \notin OwnerFields THEN Refuse(c, "DeploymentDuplicateResource")
    ELSE Refuse(c, "DeploymentUnsupportedCombination")

-----------------------------------------------------------------------------
(* Repeated fields. *)

\* The constructor of an entry that refers to a resource asks for its kind.
AttachmentAccepted(v) == KindOf[v.network] = "network" /\ NetworkAttachment(v)
MountAccepted(v) == (v.type = "volume" => KindOf[v.source] = "volume") /\ MountIntent(v)
GrantAccepted(v) == KindOf[v.source] = "secret" /\ SecretGrant(v)

EntryAccepted(field, v) ==
    CASE field = "networks" -> AttachmentAccepted(v)
      [] field = "ports" -> PortMapping(v)
      [] field \in {"dns_search", "dns_options"} -> dns_text_accepted(v)
      [] field = "hosts" -> HostAlias(v)
      [] field = "subnets" -> NetworkSubnet(v)
      [] field = "routes" -> NetworkRoute(v)
      [] field = "members" -> KindOf[v] = "container"
      [] field \in {"labels", "journald_labels"} -> LabelKey(v.key) /\ valid_value(v.value)
      [] field = "environment" ->
           EnvironmentName(v.name) /\ (v.class # "external" => valid_value(v.value))
      [] field = "rlimits" -> Rlimit(v)
      [] field = "mounts" -> MountAccepted(v)
      [] field = "secret_grants" -> GrantAccepted(v)
      [] OTHER -> TRUE

\* What two entries of a list may not share.
EntryKey(field, v) ==
    CASE field = "networks" -> <<v.network>>
      [] field = "ports" -> <<v.host_ip, v.host_port, v.protocol>>
      [] field \in {"labels", "journald_labels"} -> <<v.key>>
      [] field = "environment" -> <<v.name>>
      [] field = "subnets" -> <<v.subnet>>
      [] field = "rlimits" -> <<v.kind>>
      [] OTHER -> <<v>>

FullCode(field) ==
    IF field \in NetworkingLists THEN "DeploymentDuplicateResource" ELSE "InvalidDeploymentIntent"

\* add_attachment, add_port, add_distinct, add_label and the other list
\* mutators; mounts, secret grants and members are pushed without a check.
add_entry(c, field, v) ==
    LET s == c.list[field]
    IN  IF field \notin FreeLists /\ Len(s) = Cap[field] THEN Refuse(c, FullCode(field))
        ELSE IF /\ field \notin FreeLists
                /\ \E i \in DOMAIN s : EntryKey(field, s[i]) = EntryKey(field, v)
        THEN Refuse(c, "DeploymentDuplicateResource")
        ELSE Accept([c EXCEPT !.list[field] = Append(s, v)])

-----------------------------------------------------------------------------
(* Pod and network order. *)

set_pod(c, pod) ==
    IF KindOf[pod] # "pod" THEN Refuse(c, "InvalidDeploymentIntent")
    ELSE IF c.pod = {} THEN Accept([c EXCEPT !.pod = {pod}])
    ELSE IF c.pod = {pod} THEN Refuse(c, "DeploymentDuplicateResource")
    ELSE Refuse(c, "DeploymentUnsupportedCombination")

set_network_order(c, order) ==
    IF order = <<>> \/ \E i \in DOMAIN order : KindOf[order[i]] # "network"
    THEN Refuse(c, "InvalidDeploymentIntent")
    ELSE IF c.order # {} THEN Refuse(c, "DeploymentUnsupportedCombination")
    ELSE Accept([c EXCEPT !.order = {order}])

\* The whole call: the value's constructor first, then the mutator.
Called(c, call) ==
    LET field == call[2]
        v == call[3]
    IN  IF call[1] = "set" THEN IF OnceAccepted(field, v) THEN set_once(c, field, v)
                                ELSE Refuse(c, "constructor")
        ELSE IF call[1] = "add" THEN IF EntryAccepted(field, v) THEN add_entry(c, field, v)
                                     ELSE Refuse(c, "constructor")
        ELSE IF call[1] = "pod" THEN set_pod(c, v)
        ELSE set_network_order(c, v)

=============================================================================
