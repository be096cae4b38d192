---------------------------- MODULE NativeFields ----------------------------
(***************************************************************************)
(* decode_observation (src/src/inventory.rs) on one inspect response: the  *)
(* legacy CNI normalisation, the decoder of the resource's kind, and the   *)
(* collector that records every member no decoder reads, within the limit  *)
(* the inventory left for the record.  One action is one of the functions  *)
(* decode_observation and the decoders call in turn.                       *)
(*                                                                         *)
(* Mounts, network attachments and secret grants are searched here and     *)
(* decoded in Container.                                                   *)
(***************************************************************************)
EXTENDS NativeReaders

CONSTANT Responses     \* [kind, engine, api_5_4, limit, body]

VARIABLES
    response,      \* the response, its listed kind, the evidence and the limit
    native,        \* the object the decoders read
    stage,         \* the function to be called next
    fields,        \* the observed fields, by the path of the member
    findings,      \* [code, path]
    unmodelled,    \* the paths decode_container_b3 leaves to the collector
    collector,     \* UnknownFieldCollector: the paths recorded, overflowed
    outcome        \* "" until the record is "Complete", "Incomplete" or "Partial"

vars == <<response, native, stage, fields, findings, unmodelled, collector, outcome>>

kind == response.kind

Init ==
    /\ response \in Responses
    /\ native = response.body
    /\ stage = "normalize"
    /\ fields = <<>> /\ findings = {} /\ unmodelled = <<>>
    /\ collector = [fields |-> <<>>, overflowed |-> FALSE]
    /\ outcome = ""

-----------------------------------------------------------------------------
(* normalize_legacy_cni_network *)

Mapped(s, Op(_)) == [i \in DOMAIN s |-> Op(s[i])]
OnlyStrings(v, names) == [k \in {n \in DOMAIN names : IsStr(Get(v, names[n]))} |-> Get(v, names[k])]

LegacyIpam(configuration) ==
    Mapped(SelectSeq(Items(Get(configuration, "plugins")), LAMBDA p : OneOf(Get(p, "type"), {"bridge"})),
           LAMBDA p : Get(p, "ipam"))
LegacySubnets(ipam) ==
    Mapped(SelectSeq(FlattenSeq(Mapped(Items(Get(ipam, "ranges")), Items)),
                     LAMBDA s : IsStr(Get(s, "subnet"))),
           LAMBDA s : Obj(OnlyStrings(s, [subnet |-> "subnet", gateway |-> "gateway"])))
LegacyRoutes(ipam) ==
    Mapped(SelectSeq(Items(Get(ipam, "routes")), LAMBDA r : IsStr(Get(r, "dst")) /\ IsStr(Get(r, "gw"))),
           LAMBDA r : Obj(OnlyStrings(r, [destination |-> "dst", gateway |-> "gw"])))

IfAny(name, list) == IF list = <<>> THEN <<>> ELSE name :> Arr(list)
Normalized(c) ==
    Obj([id |-> Get(c, "name"), name |-> Get(c, "name"), CniConfig |-> c]
        @@ IfAny("subnets", FlattenSeq(Mapped(LegacyIpam(c), LegacySubnets)))
        @@ IfAny("routes", FlattenSeq(Mapped(LegacyIpam(c), LegacyRoutes))))

\* The CNI document: an object that names its cniVersion, or the one object
\* of an array.  Any other value is left as it is.
LegacyDocument(v) == IF v.t = "array" /\ Len(v.items) = 1 THEN v.items[1] ELSE v
IsLegacy(v) == v.t = "array" \/ (v.t = "object" /\ "cniVersion" \in DOMAIN v.members)

Partial(codes) ==
    /\ outcome' = "Partial" /\ findings' = {Finding(c, <<>>) : c \in codes}
    /\ stage' = "done" /\ fields' = <<>>
    /\ UNCHANGED <<response, native, unmodelled, collector>>

Normalize ==
    /\ stage = "normalize"
    /\ LET v == response.body
           c == LegacyDocument(v)
       IN  IF kind # "network" \/ response.engine # "v3" \/ ~IsLegacy(v)
           THEN /\ stage' = "identity" /\ UNCHANGED native
                /\ UNCHANGED <<response, fields, findings, unmodelled, collector, outcome>>
           ELSE IF c.t = "object" /\ Filled(Get(c, "name"))
           THEN /\ native' = Normalized(c) /\ stage' = "identity"
                /\ UNCHANGED <<response, fields, findings, unmodelled, collector, outcome>>
           ELSE Partial({"InventoryShape"})

-----------------------------------------------------------------------------
(* identity_from_inspect *)

IdKey == [container |-> "Id", pod |-> "Id", network |-> "id", volume |-> "Name",
          image |-> "Id", secret |-> "ID"]
FirstStage == [container |-> "configuration", pod |-> "pod", network |-> "network",
               volume |-> "volume", image |-> "image", secret |-> "secret"]

\* The identifier that was listed is Str("id") in every response.  A secret
\* also needs its Spec.
Identify ==
    /\ stage = "identity"
    /\ IF \/ native.t # "object" \/ ~OneOf(Get(native, IdKey[kind]), {"id"})
          \/ kind = "secret" /\ Get(native, "Spec").t # "object"
       THEN Partial(IF native.t # "object" \/ ~Filled(Get(native, IdKey[kind]))
                    THEN {"InventoryShape"} ELSE {"ResourceMalformed"})
       ELSE /\ stage' = FirstStage[kind]
            /\ UNCHANGED <<response, native, fields, findings, unmodelled, collector, outcome>>

-----------------------------------------------------------------------------
(* Decoding tables: rs is a sequence of <<path, result>>. *)

Decodes(s, rs, next) ==
    /\ stage = s /\ stage' = next
    /\ fields' = fields @@ FieldsOf(rs)
    /\ findings' = findings \cup FindingsOf(rs)
    /\ unmodelled' = unmodelled \o UnmodelledOf(rs)
    /\ UNCHANGED <<response, native, collector, outcome>>

\* The members of an object that may be missing: Table reads them, and a
\* value that is no object is malformed.
Inside(name, Table(_)) ==
    LET v == Get(native, name)
    IN  IF Missing(v) THEN <<>>
        ELSE IF v.t = "object" THEN Table(v)
        ELSE << <<<<name>>, native_malformed_field(<<name>>)>> >>

decode_container_configuration(v) ==
    LET M(k) == <<"Config", k>>
    IN  << <<M("Labels"), string_map(Get(v, "Labels"), M("Labels"))>>,
           <<M("Env"), decode_environment(Get(v, "Env"), M("Env"))>>,
           <<M("Cmd"), decode_configured_arguments(Get(v, "Cmd"), M("Cmd"))>>,
           <<M("Entrypoint"), decode_configured_entrypoint(Get(v, "Entrypoint"), M("Entrypoint"))>> >>
        \o Mapped(<<"User", "WorkingDir", "Hostname">>,
                  LAMBDA k : <<M(k), native_string_field(Get(v, k), M(k))>>)

DecodeConfiguration == Decodes("configuration", Inside("Config", decode_container_configuration), "networking")

\* decode_container_networking: in a pod the members of HostConfig belong to
\* nobody and are reported as one.
HostNetworking == <<"CreateNetNS", "PortBindings", "Dns", "DnsSearch", "DnsOptions", "ExtraHosts",
                    "NoManageResolvConf", "NoManageHosts">>
HostPaths == {<<"HostConfig", HostNetworking[i]>> : i \in DOMAIN HostNetworking}
Unmanaged(r) == IsObserved(r.field) /\ r.field.value.bool
If(managed, r) == IF managed THEN r ELSE Just(NotApplicable)

NetworkingOf(v) ==
    LET M(k) == <<"HostConfig", k>>
        resolv == native_bool_field(Get(v, "NoManageResolvConf"), M("NoManageResolvConf"))
        hosts == native_bool_field(Get(v, "NoManageHosts"), M("NoManageHosts"))
        members ==
            << <<M("CreateNetNS"), native_bool_field(Get(v, "CreateNetNS"), M("CreateNetNS"))>>,
               <<M("PortBindings"), native_port_bindings(Get(v, "PortBindings"), M("PortBindings"))>>,
               <<M("Dns"), If(~Unmanaged(resolv), native_ip_list(Get(v, "Dns"), M("Dns")))>>,
               <<M("DnsSearch"), If(~Unmanaged(resolv), native_string_list(Get(v, "DnsSearch"), M("DnsSearch")))>>,
               <<M("DnsOptions"), If(~Unmanaged(resolv), native_string_list(Get(v, "DnsOptions"), M("DnsOptions")))>>,
               <<M("ExtraHosts"), If(~Unmanaged(hosts), native_unmodelled_string_list(Get(v, "ExtraHosts"), M("ExtraHosts")))>> >>
        managed == << <<M("NoManageResolvConf"), resolv>>, <<M("NoManageHosts"), hosts>> >>
        all == members \o managed
    IN  IF AnyMalformed(members)
        THEN Mapped(all, LAMBDA r : <<r[1], [r[2] EXCEPT !.field = Malformed]>>)
        ELSE all
InPod(v) ==
    LET codes == IF \E i \in DOMAIN HostNetworking : HostNetworking[i] \in DOMAIN v.members
                 THEN {Finding("NativeFieldUnsupported", <<"HostConfig">>)} ELSE {}
    IN  Mapped(HostNetworking, LAMBDA k : <<<<"HostConfig", k>>, Result(NotApplicable, codes, <<>>)>>)

DecodeNetworking ==
    LET pod == Get(native, "Pod")
        pod_membership == IF IsEmpty(pod) THEN Just(Absent) ELSE optional_string_field(pod, <<"Pod">>)
        member == IsObserved(pod_membership.field)
    IN  Decodes("networking",
                << <<<<"Pod">>, pod_membership>> >>
                \o (IF member /\ Get(native, "HostConfig").t # "object" THEN <<>>
                    ELSE IF member THEN InPod(Get(native, "HostConfig"))
                    ELSE Inside("HostConfig", NetworkingOf)), "b3")

\* decode_container_b3 and what decode_container reads around it.
HealthMembers(v, at) ==
    << <<"Test", native_health_command(Get(v, "Test"), Append(at, "Test"))>> >>
    \o Mapped(<<"Interval", "Timeout", "StartPeriod">>,
              LAMBDA k : <<k, native_i64_field(Get(v, k), Append(at, k))>>)
    \o << <<"Retries", native_u64_field(Get(v, "Retries"), Append(at, "Retries"))>> >>
Object(v, at, rs) ==
    Optional(v, IF v.t = "object" THEN Together(rs) ELSE native_malformed_field(at))
decode_native_health_check(v, at) == Object(v, at, HealthMembers(v, at))
decode_native_startup_health_check(v, at) ==
    Object(v, at, Append(HealthMembers(v, at),
                         <<"Successes", native_u64_field(Get(v, "Successes"), Append(at, "Successes"))>>))
decode_native_restart_policy(v, at) ==
    Object(v, at, << <<"Name", restart_policy_name(Get(v, "Name"), Append(at, "Name"))>>,
                     <<"MaximumRetryCount", native_u64_field(Get(v, "MaximumRetryCount"), Append(at, "MaximumRetryCount"))>> >>)
decode_native_logging(v, at) ==
    Object(v, at, << <<"Type", log_driver(Get(v, "Type"), Append(at, "Type"))>>,
                     <<"Size", native_string_field(Get(v, "Size"), Append(at, "Size"))>> >>)
decode_native_ulimits(v, at) ==
    Entries(v, at, LAMBDA u, here :
        Strictly(<< <<"Name", native_string_field(Get(u, "Name"), Append(here, "Name"))>>,
                    <<"Soft", native_i64_field(Get(u, "Soft"), Append(here, "Soft"))>>,
                    <<"Hard", native_i64_field(Get(u, "Hard"), Append(here, "Hard"))>> >>))

ConfigB3(v) ==
    LET M(k) == <<"Config", k>>
    IN  << <<M("Healthcheck"), decode_native_health_check(Get(v, "Healthcheck"), M("Healthcheck"))>>,
           <<M("HealthcheckOnFailureAction"),
             decode_native_health_failure_action(Get(v, "HealthcheckOnFailureAction"), M("HealthcheckOnFailureAction"))>>,
           <<M("StartupHealthCheck"),
             decode_native_startup_health_check(Get(v, "StartupHealthCheck"), M("StartupHealthCheck"))>> >>

HostReader(k, v, at) ==
    CASE k = "MemorySwappiness" -> decode_memory_swappiness(v, at, response.api_5_4)
      [] k = "RestartPolicy" -> decode_native_restart_policy(v, at)
      [] k = "LogConfig" -> decode_native_logging(v, at)
      [] k \in {"Privileged", "ReadonlyRootfs"} -> native_bool_field(v, at)
      [] k \in {"CapAdd", "CapDrop"} -> native_capabilities(v, at)
      [] k = "SecurityOpt" -> native_security_options(v, at)
      [] k \in {"PidMode", "UTSMode"} -> native_namespace_mode(v, at, TRUE)
      [] k = "IpcMode" -> native_ipc_namespace_mode(v, at)
      [] k = "CgroupMode" -> native_namespace_mode(v, at, FALSE)
      [] k \in {"CpuShares", "CpuPeriod"} -> native_u64_field(v, at)
      [] k \in {"CpuQuota", "Memory", "PidsLimit"} -> native_i64_field(v, at)
      [] k = "Ulimits" -> decode_native_ulimits(v, at)
HostB3(v) ==
    Mapped(<<"MemorySwappiness", "RestartPolicy", "LogConfig", "Privileged", "CapAdd", "CapDrop",
             "SecurityOpt", "ReadonlyRootfs", "PidMode", "IpcMode", "UTSMode", "CgroupMode",
             "CpuShares", "CpuPeriod", "CpuQuota", "Memory", "PidsLimit", "Ulimits">>,
           LAMBDA k : <<<<"HostConfig", k>>, HostReader(k, Get(v, k), <<"HostConfig", k>>)>>)

decode_container_b3 ==
    Decodes("b3", Inside("Config", ConfigB3) \o Inside("HostConfig", HostB3)
                  \o << <<<<"IsInfra">>, native_bool_field(Get(native, "IsInfra"), <<"IsInfra">>)>> >>,
            "top_level")

-----------------------------------------------------------------------------
(* Pods *)

\* The networking of the infra container.
decode_native_networking(v, at) ==
    LET M(k) == Append(at, k)
        resolv == native_bool_field(Get(v, "NoManageResolvConf"), M("NoManageResolvConf"))
        hosts == native_bool_field(Get(v, "NoManageHosts"), M("NoManageHosts"))
        Inapplicable(k) ==
            Result(VersionInapplicable, IF Missing(Get(v, k)) THEN {}
                                        ELSE {Finding("VersionInapplicableField", M(k))}, <<>>)
    IN  Strictly(
          << <<"PortBindings", native_port_bindings(Get(v, "PortBindings"), M("PortBindings"))>>,
             <<"HostNetwork", native_bool_field(Get(v, "HostNetwork"), M("HostNetwork"))>>,
             <<"NoManageResolvConf", resolv>>, <<"NoManageHosts", hosts>>,
             <<"DNSServer", If(~Unmanaged(resolv), native_ip_list(Get(v, "DNSServer"), M("DNSServer")))>>,
             <<"DNSSearch", If(~Unmanaged(resolv), native_string_list(Get(v, "DNSSearch"), M("DNSSearch")))>>,
             <<"DNSOption", If(~Unmanaged(resolv), native_string_list(Get(v, "DNSOption"), M("DNSOption")))>>,
             <<"HostAdd", If(~Unmanaged(hosts), native_unmodelled_string_list(Get(v, "HostAdd"), M("HostAdd")))>>,
             <<"Networks", native_network_references(Get(v, "Networks"), M("Networks"))>>,
             <<"NetworkOptions", native_opaque_options(Get(v, "NetworkOptions"), M("NetworkOptions"))>>,
             <<"StaticIP", IF response.engine \in {"v3", "v5"} THEN native_ip_field(Get(v, "StaticIP"), M("StaticIP"))
                           ELSE Inapplicable("StaticIP")>>,
             <<"StaticMAC", Inapplicable("StaticMAC")>> >>)

\* An infra configuration goes with CreateInfra: true, and with nothing else.
decode_pod_networking(create_infra, v) ==
    CASE create_infra = Malformed -> Just(Malformed)
      [] create_infra # Malformed /\ (IsObserved(create_infra) => ~create_infra.value.bool) ->
            IF Missing(v) THEN Just(Absent) ELSE native_malformed_field(<<"InfraConfig">>)
      [] OTHER -> IF v.t = "object" THEN decode_native_networking(v, <<"InfraConfig">>)
                  ELSE native_malformed_field(<<"InfraConfig">>)

\* The relationships are one field: networks that cannot be read take the
\* containers with them.
NetworksLost(create_infra, v) ==
    IF IsObserved(create_infra) /\ create_infra.value.bool /\ v.t = "object"
    THEN native_network_references(Get(v, "Networks"), <<"InfraConfig", "Networks">>).field = Malformed
    ELSE decode_pod_networking(create_infra, v).field = Malformed
DecodePod ==
    LET create_infra == native_bool_field(Get(native, "CreateInfra"), <<"CreateInfra">>)
        infra == Get(native, "InfraConfig")
        containers == decode_pod_containers(Get(native, "Containers"), <<"Containers">>)
    IN  Decodes("pod",
          << <<<<"Labels">>, string_map(Get(native, "Labels"), <<"Labels">>)>>,
             <<<<"Containers">>, IF NetworksLost(create_infra.field, infra) THEN [containers EXCEPT !.field = Malformed]
                                 ELSE containers>>,
             <<<<"CreateInfra">>, create_infra>>,
             <<<<"InfraConfig">>, decode_pod_networking(create_infra.field, infra)>> >>, "top_level")

-----------------------------------------------------------------------------
(* Networks *)

\* Slip: the prefix of length zero is not set apart.
native_masked_address_shifted(a, prefix) ==
    LET w == Width[a.family] IN a.bits - (a.bits % (2^w - Shl(2^w - 1, w - prefix, w)))

native_masked_address(a, prefix) ==
    LET w == Width[a.family]
        mask == IF prefix = 0 THEN 0 ELSE Shl(2^w - 1, w - prefix, w)
    IN  a.bits - (a.bits % (2^w - mask))

\* NativeNetworkCidr keeps the network as it was spelled.
native_contains(cidr, a) ==
    /\ cidr.family = a.family
    /\ native_masked_address(cidr, cidr.prefix) = native_masked_address(a, cidr.prefix)
native_address_precedes_or_equals(a, b) == a.family = b.family /\ a.bits <= b.bits

native_cidr_field(v, at) ==
    IF Is("cidr", v) /\ v.cidr.prefix <= Width[v.cidr.family] THEN Just(Observed(v))
    ELSE native_malformed_field(at)

\* Two fields hold, or one of them says nothing.
Both(f, g, P(_, _)) == IsObserved(f) /\ IsObserved(g) => P(f.value, g.value)
Within(cidr, ip) == native_contains(cidr.cidr, ip.ip)

native_lease_range_field(v, cidr, at) ==
    LET start == native_ip_field(Get(v, "start_ip"), Append(at, "start_ip"))
        end == native_ip_field(Get(v, "end_ip"), Append(at, "end_ip"))
        rs == << <<"start_ip", start>>, <<"end_ip", end>> >>
    IN  Optional(v, IF v.t # "object" THEN native_malformed_field(at)
                    ELSE IF \/ AnyMalformed(rs)
                            \/ /\ Both(cidr, start.field, Within) /\ Both(cidr, end.field, Within)
                               /\ Both(start.field, end.field,
                                       LAMBDA a, b : native_address_precedes_or_equals(a.ip, b.ip))
                    THEN Strictly(rs) ELSE native_malformed_field(at))

\* An entry whose gateway does not fit is malformed, like one with a
\* malformed member.
Fitting(rs, fits, at) ==
    IF fits THEN Strictly(rs)
    ELSE Result(Malformed, FindingsOf(rs) \cup {Finding("ResourceMalformed", Append(at, "gateway"))},
                UnmodelledOf(rs))

NativeSubnet(v, at) ==
    LET cidr == native_cidr_field(Get(v, "subnet"), Append(at, "subnet"))
        gateway == native_ip_field(Get(v, "gateway"), Append(at, "gateway"))
        range == native_lease_range_field(Get(v, "lease_range"), cidr.field, Append(at, "lease_range"))
    IN  Fitting(<< <<"subnet", cidr>>, <<"gateway", gateway>>, <<"lease_range", range>> >>,
                Both(cidr.field, gateway.field, Within), at)
decode_native_network_subnets(v, at) == Entries(v, at, NativeSubnet)

RouteTypes == {"unicast", "blackhole", "unreachable", "prohibit"}
native_network_route_types_are_available == response.engine = "v6"
native_route_type_field(v, at) ==
    IF ~native_network_route_types_are_available
    THEN Result(VersionInapplicable, {Finding("VersionInapplicableField", at)}, <<>>)
    ELSE IF Missing(v) THEN Just(Observed(Str("unicast")))
    ELSE IF OneOf(v, RouteTypes) THEN Just(Observed(v))
    ELSE IF IsStr(v) THEN Just(Unmodelled) ELSE native_malformed_field(at)

\* A unicast route needs a gateway, which Podman 5 does not need to say; the
\* others may not have one.
GatewayFits(type, gateway) ==
    IF type = VersionInapplicable THEN IsObserved(gateway)
    ELSE IsObserved(type) => (IsObserved(gateway) <=> OneOf(type.value, {"unicast"}))
NativeRoute(v, at) ==
    LET destination == native_cidr_field(Get(v, "destination"), Append(at, "destination"))
        gateway == native_ip_field(Get(v, "gateway"), Append(at, "gateway"))
        type == native_route_type_field(Get(v, "route_type"), Append(at, "route_type"))
    IN  Fitting(<< <<"destination", destination>>, <<"gateway", gateway>>,
                   <<"metric", native_u32_field(Get(v, "metric"), Append(at, "metric"))>>,
                   <<"route_type", type>> >>,
                /\ Both(destination.field, gateway.field, LAMBDA d, g : d.cidr.family = g.ip.family)
                /\ GatewayFits(type.field, gateway.field), at)
decode_native_network_routes(v, at) == Entries(v, at, NativeRoute)

DecodeNetwork ==
    Decodes("network",
        << <<<<"internal">>, native_bool_field(Get(native, "internal"), <<"internal">>)>>,
           <<<<"options">>, string_map(Get(native, "options"), <<"options">>)>>,
           <<<<"subnets">>, decode_native_network_subnets(Get(native, "subnets"), <<"subnets">>)>>,
           <<<<"routes">>, decode_native_network_routes(Get(native, "routes"), <<"routes">>)>>,
           <<<<"labels">>, string_map(Get(native, "labels"), <<"labels">>)>> >>, "top_level")

-----------------------------------------------------------------------------
(* Volumes, images and secrets *)

TopReader(k, v, at) ==
    CASE k = "Labels" -> string_map(v, at)
      [] k \in {"UID", "GID"} -> decode_volume_owner(v, at)
      [] k = "Anonymous" -> volume_anonymous(v, at)
      [] k \in {"CreatedAt", "UpdatedAt", "Created"} -> native_timestamp_field(v, at)
      [] k \in {"RepoTags", "RepoDigests"} -> image_aliases(v, at)
      [] k = "Author" -> optional_string_or_empty_field(v, at)
      [] OTHER -> optional_string_field(v, at)
TopLevel(names) == Mapped(names, LAMBDA k : <<<<k>>, TopReader(k, Get(native, k), <<k>>)>>)

DecodeVolume ==
    Decodes("volume", TopLevel(<<"Labels", "UID", "GID", "Driver", "CreatedAt", "Anonymous">>), "top_level")

DecodeImage ==
    Decodes("image",
        Inside("Config", LAMBDA c : << <<<<"Config", "Env">>, decode_environment(Get(c, "Env"), <<"Config", "Env">>)>> >>)
        \o TopLevel(<<"Labels", "RepoTags", "RepoDigests", "Digest", "Created", "Author", "Architecture", "Os",
                      "ManifestType">>), "top_level")

decode_secret_driver(v, at) ==
    Object(v, at, << <<"Name", optional_string_field(Get(v, "Name"), Append(at, "Name"))>>,
                     <<"Options", string_map(Get(v, "Options"), Append(at, "Options"))>> >>)
DecodeSecret ==
    LET spec == Get(native, "Spec")
        payload == Get(native, "SecretData").t # "none" \/ Get(spec, "SecretData").t # "none"
    IN  Decodes("secret",
          << <<<<"Spec", "Labels">>, string_map(Get(spec, "Labels"), <<"Spec", "Labels">>)>>,
             <<<<"SecretData">>, Result(NotApplicable, IF payload THEN {Finding("SecretPayloadDiscarded", <<>>)} ELSE {}, <<>>)>>,
             <<<<"Spec", "Driver">>, decode_secret_driver(Get(spec, "Driver"), <<"Spec", "Driver">>)>> >>
          \o TopLevel(<<"CreatedAt", "UpdatedAt">>), "top_level")

-----------------------------------------------------------------------------
(* The collector of members nobody reads *)

Known ==
    [container |-> {"Id", "Name", "Image", "ImageName", "Pod", "NetworkSettings", "Mounts",
                    "Dependencies", "Config", "HostConfig", "IsInfra"},
     pod |-> {"Id", "Name", "Labels", "Containers", "CreateInfra", "InfraConfig"},
     network |-> {"id", "name", "labels", "internal", "options", "subnets", "routes"},
     volume |-> {"Name", "Labels", "UID", "GID", "Driver", "CreatedAt", "Anonymous"},
     image |-> {"Id", "Digest", "RepoTags", "RepoDigests", "Created", "Author", "Architecture",
                "Os", "ManifestType", "Labels", "Config"},
     secret |-> {"ID", "CreatedAt", "UpdatedAt", "Spec", "SecretData"}]
RuntimeOnly ==
    [container |-> {"AppArmorProfile", "Args", "BoundingCaps", "ConmonPidFile", "Created", "Driver",
                    "EffectiveCaps", "ExecIDs", "ExitCommand", "GraphDriver", "HostnamePath",
                    "HostsPath", "LockNumber", "MountLabel", "Namespace", "OCIConfigPath",
                    "OCIRuntime", "Path", "PidFile", "ProcessLabel", "ResolvConfPath",
                    "RestartCount", "Rootfs", "SizeRootFs", "SizeRw", "State", "StaticDir"},
     pod |-> {}, secret |-> {},
     network |-> {"containers", "created"},
     volume |-> {"LockNumber", "MountCount", "Mountpoint", "NeedsChown", "NeedsCopyUp", "Scope"},
     image |-> {"GraphDriver", "History", "NamesHistory", "Parent", "RootFS", "Size",
                "VirtualSize", "Version"}]

\* The objects that are searched for unknown members, with the known ones.
HealthKnown == {"Test", "Interval", "Timeout", "Retries", "StartPeriod"}
KnownInside ==
    [container |->
        << <<<<"Config">>, {"Labels", "Env", "Secrets", "Cmd", "Entrypoint", "User", "WorkingDir",
                            "CreateCommand", "Hostname", "Healthcheck", "HealthcheckOnFailureAction",
                            "StartupHealthCheck"}>>,
           <<<<"Config", "Healthcheck">>, HealthKnown>>,
           <<<<"Config", "StartupHealthCheck">>, HealthKnown \cup {"Successes"}>>,
           <<<<"NetworkSettings">>, {"Networks"}>>,
           <<<<"NetworkSettings", "Networks">>, {"Aliases"}>>,
           <<<<"Mounts">>, {"Type", "Name", "Source", "Destination", "RW", "Options", "Mode",
                            "Propagation", "SubPath"}>>,
           <<<<"Config", "Secrets">>, {"ID", "Name", "UID", "GID", "Mode"}>>,
           <<<<"HostConfig", "RestartPolicy">>, {"Name", "MaximumRetryCount"}>>,
           <<<<"HostConfig", "LogConfig">>, {"Type", "Size"}>>,
           <<<<"HostConfig", "Ulimits">>, {"Name", "Soft", "Hard"}>>,
           <<<<"HostConfig">>, {"MemorySwappiness", "CreateNetNS", "PortBindings", "Dns", "DnsSearch",
                                "DnsOptions", "NoManageResolvConf", "NoManageHosts", "RestartPolicy",
                                "LogConfig", "Privileged", "CapAdd", "CapDrop", "SecurityOpt",
                                "ReadonlyRootfs", "PidMode", "IpcMode", "UTSMode", "CgroupMode",
                                "CpuShares", "CpuPeriod", "CpuQuota", "Memory", "PidsLimit",
                                "Ulimits"}>> >>,
     pod |->
        << <<<<"Containers">>, {"Id"}>>,
           <<<<"InfraConfig">>, {"PortBindings", "HostNetwork", "DNSServer", "DNSSearch", "DNSOption",
                                 "Networks", "NetworkOptions", "NoManageResolvConf", "NoManageHosts",
                                 "StaticMAC", "StaticIP"}>> >>,
     network |-> << <<<<"subnets">>, {"subnet", "gateway", "lease_range"}>>,
                    <<<<"routes">>, {"destination", "gateway", "metric", "route_type"}>> >>,
     image |-> << <<<<"Config">>, {"Env"}>> >>,
     secret |-> << <<<<"Spec">>, {"Name", "Labels", "Driver", "SecretData"}>>,
                   <<<<"Spec", "Driver">>, {"Name", "Options"}>> >>,
     volume |-> <<>>]

Reach(path) == FoldLeft(Get, native, path)
unknown_object_members(v, at, known) ==
    IF v.t # "object" THEN <<>>
    ELSE Mapped(SetToSeq(DOMAIN v.members \ known), LAMBDA k : Append(at, k))
unknown_array_object_members(v, at, known) ==
    FlattenSeq([i \in DOMAIN Items(v) |-> unknown_object_members(v.items[i], At(at, i), known)])

\* One path for an attachment, whatever its unknown members.
unknown_attachments(v, at, known) ==
    Mapped(SelectSeq(SetToSeq(IF v.t = "object" THEN DOMAIN v.members ELSE {}),
                     LAMBDA name : unknown_object_members(v.members[name], at, known) # <<>>),
           LAMBDA name : Append(at, name))

Positions(v, P(_)) == SelectSeq([i \in DOMAIN Items(v) |-> i], LAMBDA i : P(v.items[i]))

\* A mode is a list of tokens; a plain word is one.
ModeTokens(v) ==
    IF Is("mode", v) THEN v.mode ELSE IF Is("text", v) THEN {v.text} \ {""} ELSE {"other"}

TokenRepresented(mount, token) ==
    CASE token \in {"z", "Z"} -> TRUE
      [] token = "ro" -> Get(mount, "RW") = Bool(FALSE)
      [] token = "rw" -> Get(mount, "RW") = Bool(TRUE)
      [] OTHER -> \/ OneOf(Get(mount, "Propagation"), {token})
                  \/ \E i \in DOMAIN Items(Get(mount, "Options")) :
                        OneOf(Get(mount, "Options").items[i], {token})
unknown_unrepresented_mount_modes(v, at) ==
    Mapped(Positions(v, LAMBDA m : /\ IsStr(Get(m, "Mode"))
                                   /\ \E token \in ModeTokens(Get(m, "Mode")) : ~TokenRepresented(m, token)),
           LAMBDA i : Append(At(at, i), "Mode"))
unknown_unsupported_mounts(v, at) ==
    Mapped(Positions(v, LAMBDA m : IsStr(Get(m, "Type")) /\ ~OneOf(Get(m, "Type"), {"volume", "bind"})),
           LAMBDA i : At(at, i))

ListPaths == {<<"Config", "Secrets">>, <<"HostConfig", "Ulimits">>, <<"Containers">>, <<"subnets">>, <<"routes">>}
UnknownInside(path, known) ==
    LET v == Reach(path)
    IN  CASE path = <<"NetworkSettings", "Networks">> -> unknown_attachments(v, path, known)
          [] path = <<"Mounts">> ->
                unknown_array_object_members(v, path, known)
                \o unknown_unrepresented_mount_modes(v, path) \o unknown_unsupported_mounts(v, path)
          [] path \in ListPaths -> unknown_array_object_members(v, path, known)
          [] OTHER -> unknown_object_members(v, path, known)


\* UnknownFieldCollector::push; a full collector refuses every later path.
push(c, path) ==
    IF Len(c.fields) >= response.limit THEN [c EXCEPT !.overflowed = TRUE]
    ELSE [c EXCEPT !.fields = Append(@, path)]
Collects(s, paths, next) ==
    /\ stage = s /\ stage' = next
    /\ collector' = FoldLeft(push, collector, paths)
    /\ UNCHANGED <<response, native, fields, findings, unmodelled, outcome>>

unknown_top_level ==
    Collects("top_level", unknown_object_members(native, <<>>, Known[kind] \cup RuntimeOnly[kind]), "nested")

unknown_nested_fields ==
    Collects("nested",
        FlattenSeq(Mapped(KnownInside[kind], LAMBDA r : UnknownInside(r[1], r[2]))),
        IF kind = "network" THEN "lease_ranges" ELSE "append")

\* The lease ranges, and the route types this service does not have.
unknown_network_nested_fields ==
    LET subnets == Items(Get(native, "subnets"))
        routes == Items(Get(native, "routes"))
        Unsupported(i) ==
            LET type == Get(routes[i], "route_type")
            IN  /\ type.t # "none"
                /\ ~native_network_route_types_are_available \/ ~OneOf(type, RouteTypes)
    IN  Collects("lease_ranges",
            FlattenSeq([i \in DOMAIN subnets |->
                unknown_object_members(Get(subnets[i], "lease_range"), At(<<"subnets">>, i) \o <<"lease_range">>,
                                       {"start_ip", "end_ip"})])
            \o Mapped(SelectSeq([i \in DOMAIN routes |-> i], Unsupported),
                      LAMBDA i : At(<<"routes">>, i) \o <<"route_type">>),
            "append")

append_container_unmodelled == Collects("append", unmodelled, "finish")

finish_unknown_fields ==
    /\ stage = "finish" /\ stage' = "done"
    /\ findings' = findings
         \cup (IF collector.overflowed THEN {Finding("UnknownFieldOverflow", <<>>)} ELSE {})
         \cup {Finding("NativeFieldUnsupported", collector.fields[i]) : i \in DOMAIN collector.fields}
    /\ outcome' = IF collector.overflowed THEN "Incomplete" ELSE "Complete"
    /\ UNCHANGED <<response, native, fields, unmodelled, collector>>

Next ==
    \/ Normalize \/ Identify
    \/ DecodeConfiguration \/ DecodeNetworking \/ decode_container_b3
    \/ DecodePod \/ DecodeNetwork \/ DecodeVolume \/ DecodeImage \/ DecodeSecret
    \/ unknown_top_level \/ unknown_nested_fields \/ unknown_network_nested_fields
    \/ append_container_unmodelled \/ finish_unknown_fields

Spec == Init /\ [][Next]_vars

-----------------------------------------------------------------------------
(* Properties *)

\* The paths of the scalars a JSON value is made of; null and an empty
\* object or array hold none.
RECURSIVE Leaves(_, _)
Leaves(v, at) ==
    CASE v.t = "object" -> UNION {Leaves(v.members[k], Append(at, k)) : k \in DOMAIN v.members}
      [] v.t = "array" -> UNION {Leaves(v.items[i], At(at, i)) : i \in DOMAIN v.items}
      [] OTHER -> IF Missing(v) THEN {} ELSE {at}

\* Is the value at path, below the member the field was read from, in the
\* field?  A field of fields answers for its members.
RECURSIVE Shows(_, _)
Shows(field, path) ==
    /\ IsObserved(field)
    /\ \/ path = <<>> \/ "t" \in DOMAIN field.value
       \/ /\ Head(path) \in DOMAIN field.value
          /\ Shows(field.value[Head(path)], Tail(path))

Comparable(p, q) == IsPrefix(p, q) \/ IsPrefix(q, p)

\* Members that are decoded into one field: a malformed one takes the others
\* with it.
PodPaths == {<<"Containers">>, <<"CreateInfra">>, <<"InfraConfig">>}
Family(path) ==
    IF path \in HostPaths THEN HostPaths ELSE IF path \in PodPaths THEN PodPaths ELSE {path}
Reported(path) ==
    \E f \in findings : /\ f.code \in {"ResourceMalformed", "EnvironmentMalformed"}
                        /\ \E q \in Family(path) : f.path # <<>> /\ Comparable(f.path, q)

\* Values that say what leaving the member out says.
SaysNothing(path) ==
    LET v == IF Len(path) <= 2 THEN Reach(path) ELSE None
    IN  \/ path \in {<<"Config", "Entrypoint">>, <<"Author">>, <<"Pod">>} /\ IsEmpty(v)
        \/ path = <<"HostConfig", "MemorySwappiness">> /\ as_integer(v, -1, -1)

\* The identity (a name that is no string falls back to the listed one), the
\* runtime projections, and what Container decodes: the rest of mounts,
\* attachments and grants is searched.
NameKey == [container |-> "Name", pod |-> "Name", network |-> "name", volume |-> "Name",
            image |-> "Id", secret |-> "ID"]
ContainerParts == {<<"Image">>, <<"ImageName">>, <<"Dependencies">>, <<"NetworkSettings">>, <<"Mounts">>,
                   <<"Config", "Secrets">>, <<"Config", "CreateCommand">>}
MembersOf(v) == IF v.t = "object" THEN DOMAIN v.members ELSE {}
Strangers ==
    LET settings == Get(native, "NetworkSettings")
        networks == Get(settings, "Networks")
        Others(v, at, read) == {Append(at, k) : k \in MembersOf(v) \ read}
        Listed(v, at, read) == UNION {Others(v.items[i], At(at, i), read) : i \in DOMAIN Items(v)}
    IN  UNION {Others(settings, <<"NetworkSettings">>, {"Networks"}),
               UNION {Others(networks.members[n], <<"NetworkSettings", "Networks", n>>, {"Aliases"}) :
                         n \in MembersOf(networks)},
               Listed(Get(native, "Mounts"), <<"Mounts">>,
                      {"Type", "Name", "Source", "Destination", "RW", "Options", "Mode", "Propagation", "SubPath"}),
               Listed(Get(Get(native, "Config"), "Secrets"), <<"Config", "Secrets">>,
                      {"ID", "Name", "UID", "GID", "Mode"})}
DecodedByContainer(path) ==
    /\ \E part \in ContainerParts : IsPrefix(part, path)
    /\ ~\E stranger \in Strangers : IsPrefix(stranger, path)
Exempt(path) ==
    \/ Head(path) \in {IdKey[kind], NameKey[kind]} \cup RuntimeOnly[kind]
    \/ kind = "secret" /\ IsPrefix(<<"Spec", "Name">>, path)
    \/ kind = "container" /\ DecodedByContainer(path)

\* The values a decoder sets aside on purpose, each only where the record
\* says why: the resolver's settings where the record shows that the resolver
\* is not managed, a pod member's own networking where HostConfig is reported,
\* and a secret's payload where its loss is.
ResolverMembers == {"Dns", "DnsSearch", "DnsOptions", "DNSServer", "DNSSearch", "DNSOption"}
FieldAt(object, member) ==
    IF <<object, member>> \in DOMAIN fields THEN fields[<<object, member>>]
    ELSE IF <<object>> \in DOMAIN fields /\ IsObserved(fields[<<object>>])
      THEN fields[<<object>>].value[member] ELSE Absent
SetAside(path) ==
    \/ /\ Len(path) > 1 /\ path[1] \in {"HostConfig", "InfraConfig"} /\ path[2] \in ResolverMembers
       /\ FieldAt(path[1], path[2]) = NotApplicable
       /\ FieldAt(path[1], "NoManageResolvConf") = Observed(Bool(TRUE))
    \/ /\ kind = "container" /\ (\E member \in HostPaths : IsPrefix(member, path)) /\ IsObserved(fields[<<"Pod">>])
       /\ Finding("NativeFieldUnsupported", <<"HostConfig">>) \in findings
    \/ /\ kind = "secret" /\ (IsPrefix(<<"SecretData">>, path) \/ IsPrefix(<<"Spec", "SecretData">>, path))
       /\ Finding("SecretPayloadDiscarded", <<>>) \in findings

Recorded(path) == \E i \in DOMAIN collector.fields : IsPrefix(collector.fields[i], path)
Told(path) ==
    \E f \in findings : /\ f.code # "NativeFieldUnsupported" /\ f.path # <<>>
                        /\ IsPrefix(f.path, path)
InField(path) ==
    \E n \in 1..Len(path) :
        LET member == SubSeq(path, 1, n)
        IN  /\ member \in DOMAIN fields
            /\ \/ Shows(fields[member], SubSeq(path, n + 1, Len(path)))
               \/ fields[member] = Malformed /\ Reported(member)
Accounted(path) ==
    Exempt(path) \/ SetAside(path) \/ Recorded(path) \/ Told(path) \/ InField(path) \/ SaysNothing(path)

\* A token of a mount's mode must be said by the mount's other members: the
\* access by RW, a propagation or an option by its list, a relabel by itself.
ModeSaid(mount) ==
    LET options == Items(Get(mount, "Options"))
        access == CASE Get(mount, "RW") = Bool(TRUE) -> {"rw"} [] Get(mount, "RW") = Bool(FALSE) -> {"ro"} [] OTHER -> {}
        said == access \cup {"z", "Z"}
                \cup {x.text : x \in {y \in {options[i] : i \in DOMAIN options} \cup {Get(mount, "Propagation")} :
                                      Is("text", y) /\ y.text \notin {"ro", "rw"}}}
    IN  IsStr(Get(mount, "Mode")) => ModeTokens(Get(mount, "Mode")) \subseteq said

\* A member of a port binding nobody reads: PortBindings, key, position, name.
PortStranger(path) ==
    \E n \in 1..Len(path) : /\ path[n] = "PortBindings" /\ Len(path) > n + 2
                            /\ path[n + 3] \notin {"HostIp", "HostPort"}


\* "An accepted object is never a blanket acceptance for its descendants"
\* (docs/decisions/0011-native-field-coverage-ledger.md:26): a member of a
\* port binding that is neither HostIp nor HostPort is recorded too.
DescendantsRetained ==
    outcome = "Complete" =>
        \A path \in Leaves(native, <<>>) : PortStranger(path) => Recorded(path) \/ Told(path)

\* What a network response says, read with the rules of the builders.
Optionally(v, what) == IF Missing(v) THEN {} ELSE {v[what]}
DeclaredCidr(v) == NetworkCidr([family |-> v.cidr.family, bits |-> v.cidr.bits], v.cidr.prefix)
Parses(v) ==
    /\ v.t = "object" /\ Is("cidr", IF Missing(Get(v, "subnet")) THEN Get(v, "destination") ELSE Get(v, "subnet"))
    /\ \A k \in {"gateway"} : Missing(Get(v, k)) \/ Is("ip", Get(v, k))
SubnetDeclarable(v) ==
    \E cidr \in DeclaredCidr(Get(v, "subnet")) :
        LET lease == Get(v, "lease_range")
        IN  NetworkSubnet([subnet |-> cidr, gateway |-> Optionally(Get(v, "gateway"), "ip"),
                           range |-> IF Missing(lease) THEN {}
                                     ELSE {<<Get(lease, "start_ip").ip, Get(lease, "end_ip").ip>>}])
RouteDeclarable(v) ==
    \E cidr \in DeclaredCidr(Get(v, "destination")) :
        NetworkRoute([destination |-> cidr, gateway |-> Optionally(Get(v, "gateway"), "ip"),
                      route_type |-> IF response.engine # "v6" \/ Missing(Get(v, "route_type")) THEN "unicast"
                                     ELSE Get(v, "route_type").text])
WholeLease(v) ==
    LET lease == Get(v, "lease_range")
    IN  Missing(lease) \/ (Is("ip", Get(lease, "start_ip")) /\ Is("ip", Get(lease, "end_ip")))
TypedRoute(v) ==
    /\ Missing(Get(v, "route_type")) \/ OneOf(Get(v, "route_type"), RouteTypes)
    /\ Missing(Get(v, "metric")) \/ as_integer(Get(v, "metric"), 0, U32Max)

\* The decoder and the builders agree on what a network may be: a list of
\* subnets or of routes that parses is observed exactly when each of them
\* could be declared (NetworkSubnet, NetworkRoute), so that an observed
\* network can be declared again and a declared one is read back.
NetworksReadBack ==
    kind = "network" /\ outcome \in {"Complete", "Incomplete"} =>
        LET subnets == Items(Get(native, "subnets"))
            routes == Items(Get(native, "routes"))
        IN  /\ (subnets # <<>> /\ \A i \in DOMAIN subnets : Parses(subnets[i]) /\ WholeLease(subnets[i])) =>
                  (IsObserved(fields[<<"subnets">>]) <=> \A i \in DOMAIN subnets : SubnetDeclarable(subnets[i]))
            /\ (routes # <<>> /\ \A i \in DOMAIN routes : Parses(routes[i]) /\ TypedRoute(routes[i])) =>
                  (IsObserved(fields[<<"routes">>]) <=> \A i \in DOMAIN routes : RouteDeclarable(routes[i]))

=============================================================================
