----------------------------- MODULE RenderGates -----------------------------
(***************************************************************************)
(* What a target admits.  The planner refuses a container's settings in    *)
(* validate_container and validate_runtime_settings (src/src/deployment.rs)*)
(* and the renderer refuses fields of a planned resource in                *)
(* unsupported_fields (src/src/render.rs); the two overlap, and each has   *)
(* its own idea of the versions.                                           *)
(*                                                                         *)
(* A version is a number, 10000 * major + 100 * minor + patch.  A target   *)
(* is [engine, api, build, context, cgroup]: build says that one of the    *)
(* two carries build metadata, cgroup is an option of                      *)
(* [version, controllers].  A resource is an intent of Declaration, or an  *)
(* image [id, source, classification, policy] or secret [id, material].    *)
(***************************************************************************)
EXTENDS Declaration

CONSTANTS
    NameOf,             \* the name, a text, of every identity
    ReviewedVersions    \* the versions of the renderer's evidence catalogue

\* The catalogue holds no second release of a line whose first one supports_*
\* name (catalogue/v1/podman-deployment-rendering.json, reviewed_lines).
ASSUME ReviewedVersionsAssumption ==
    \A v \in ReviewedVersions : /\ v \in Nat
                                /\ v < 50600 => v \in {50400, 50500}
                                /\ v >= 60000 => v \in {60000, 60100}

Is(c, field, v) == c.opt[field] = {v}
Has(c, field) == c.opt[field] # {}
Listed(c, field) == c.list[field] # <<>>

-----------------------------------------------------------------------------
(* Versions. *)

reviewed_renderer_target_version(t) ==
    IF t.engine # t.api \/ t.build \/ t.engine \notin ReviewedVersions THEN {} ELSE {t.engine}

supports_network_order(version) == version \in {60000, 60100}
supports_image_policy(version) == version \notin {50400, 50500}
supports_volume_ownership(version) == supports_image_policy(version)
supports_network_route_type(version) == supports_network_order(version)
supports_journald_labels(version) == version \in {60000, 60100}

supports_unlimited_rlimit(version) == version \notin {50400, 50500}

-----------------------------------------------------------------------------
(* The planner's side. *)

startup_without_health(c) ==
    Has(c, "startup_health") /\ (~Has(c, "health") \/ The(c.opt["health"]).disabled)
rlimit_is_unlimited(r) == r.soft.unlimited \/ r.hard.unlimited
unlimited(c) == \E r \in Elements(c.list["rlimits"]) : rlimit_is_unlimited(r)
logging_fields(c) ==
    When(~Has(c, "driver") /\ (Has(c, "max_size") \/ Listed(c, "journald_labels")),
         "runtime.logging.driver")
    \cup When(Listed(c, "journald_labels") /\ ~Is(c, "driver", "journald"),
              "runtime.logging.journald_labels")
    \cup When(Has(c, "max_size") /\ ~Is(c, "driver", "k8s-file"), "runtime.logging.max_size")
security_fields(c) ==
    When(Is(c, "privileged", TRUE) /\ (Listed(c, "cap_add") \/ Listed(c, "cap_drop")),
         "runtime.security.privileged_capabilities")
    \cup When(Elements(c.list["cap_add"]) \cap Elements(c.list["cap_drop"]) # {},
              "runtime.security.capability_overlap")
    \cup When(Is(c, "read_write_tmpfs", TRUE) /\ ~Is(c, "read_only_filesystem", TRUE),
              "runtime.security.read_write_tmpfs")

\* The controllers a container asks for, by the field that is reported.
Controller == [cpu |-> "runtime.resources.cpu", memory |-> "runtime.resources.memory_bytes",
               pids |-> "runtime.resources.pids"]
requested(c) ==
    {x \in DOMAIN Controller :
        \/ x = "cpu" /\ \E f \in {"cpu_shares", "cpu_period", "cpu_quota"} : Has(c, f)
        \/ x = "memory" /\ Has(c, "memory_bytes")
        \/ x = "pids" /\ Has(c, "pids")}

\* Without evidence the check returns after its one finding.
cgroup_fields(c, t) ==
    IF requested(c) = {} THEN {}
    ELSE IF t.cgroup = {} THEN {"runtime.resources.cgroup_evidence"}
    ELSE LET evidence == The(t.cgroup)
         IN  When(evidence.version = 1 /\ t.context # "rootful",
                  "runtime.resources.cgroup_v1_requires_rootful")
             \cup {Controller[x] : x \in requested(c) \ evidence.controllers}

namespace_fields(c, t) ==
    When(Is(c, "uts", "host") /\ Has(c, "hostname"),
         "runtime.namespaces.uts_host_with_hostname")
    \cup When(Is(c, "cgroup", "private") /\ ~\E e \in t.cgroup : e.version = 2,
              "runtime.namespaces.cgroup_private_requires_v2")

validate_runtime_settings(c, t) ==
    UNION {namespace_fields(c, t),
           When(startup_without_health(c), "runtime.startup_health_requires_health"),
           logging_fields(c),
           When(Listed(c, "journald_labels") /\ t.engine < 60000,
                "runtime.logging.journald_labels.target_version"),
           security_fields(c),
           When(unlimited(c) /\ t.engine < 50600,
                "runtime.resources.rlimits.unlimited.target_version"),
           cgroup_fields(c, t)}

dns_declared(c) == \E f \in {"dns_servers", "dns_search", "dns_options"} : Listed(c, f)

\* The settings validate_container refuses in a pod member, its networks and
\* network order apart.
pod_exclusive(c) ==
    When(\E f \in NamespaceFields : Has(c, f), "runtime.namespaces.pod_member")
    \cup When(Has(c, "hostname"), "hostname")
    \cup When(Listed(c, "ports"), "ports")
    \cup When(dns_declared(c), "dns")
    \cup When(Listed(c, "hosts"), "host_aliases")

-----------------------------------------------------------------------------
(* The renderer's side. *)

health_command_is_sensitive(h) == h.class # "public"
sensitive_health(c, field) ==
    \E h \in c.opt[field] : ~h.disabled /\ health_command_is_sensitive(h.command)

\* The renderer's own copy of the logging rules.
logging_unsupported(c, version) ==
    UNION {When(Listed(c, "journald_labels") /\ ~supports_journald_labels(version),
                "runtime.logging.journald_labels.target_version"),
           When(c.opt["driver"] = {} /\ (c.opt["max_size"] # {} \/ Listed(c, "journald_labels")),
                "runtime.logging.driver"),
           When(Listed(c, "journald_labels") /\ c.opt["driver"] # {"journald"},
                "runtime.logging.journald_labels"),
           When(c.opt["max_size"] # {} /\ c.opt["driver"] # {"k8s-file"},
                "runtime.logging.max_size")}

\* The renderer's own copy of the security rules.
security_unsupported(c) ==
    UNION {When(c.opt["privileged"] = {TRUE} /\ \E f \in {"cap_add", "cap_drop"} : Listed(c, f),
                "runtime.security.privileged_capabilities"),
           When(\E x \in Elements(c.list["cap_add"]) : x \in Elements(c.list["cap_drop"]),
                "runtime.security.capability_overlap"),
           When(c.opt["read_write_tmpfs"] = {TRUE} /\ c.opt["read_only_filesystem"] # {TRUE},
                "runtime.security.read_write_tmpfs")}

unsupported_runtime_fields(c, version) ==
    UNION {When(startup_without_health(c), "runtime.startup_health_requires_health"),
           When(sensitive_health(c, "health"), "runtime.health.command"),
           When(sensitive_health(c, "startup_health"), "runtime.startup_health.command"),
           logging_unsupported(c, version),
           When(unlimited(c) /\ ~supports_unlimited_rlimit(version),
                "runtime.resources.rlimits.unlimited.target_version"),
           security_unsupported(c),
           When(c.pod # {} /\ \E f \in NamespaceFields : Has(c, f),
                "runtime.namespaces.pod_member")}

has_static_address(n) == n.static_ipv4 \cup n.static_ipv6 \cup n.static_mac # {}
static_needs_rootful(c, context) ==
    When(context # "rootful" /\ \E n \in Elements(c.list["networks"]) : has_static_address(n),
         "networks.static_address_requires_rootful")
cli_safe_mount_component(t) == Free(t, {"colon", "comma"})
secret_grants_renderable(grants) ==
    \A g \in Elements(grants) :
        /\ cli_safe_mount_component(NameOf[g.source])
        /\ g.type = "mount" => \A t \in g.target : cli_safe_mount_component(t)
mount_has_unsupported_subpath(m) == m.type = "volume" /\ m.subpath # {} /\ m.copy = "nocopy"

\* Slip: protected values are never refused.
environment_fields_open(c, authorized) ==
    When(\E e \in Elements(c.list["environment"]) : e.class = "external",
         "environment.external")

environment_fields(c, authorized) ==
    When(~authorized /\ \E e \in Elements(c.list["environment"]) : e.class = "protected",
         "environment.sensitive_inline")
    \cup When(\E e \in Elements(c.list["environment"]) : e.class = "external",
              "environment.external")

member_fields(c) ==
    IF c.pod = {} THEN {}
    ELSE When(Listed(c, "networks"), "networks")
         \cup When(Listed(c, "ports"), "ports") \cup When(dns_declared(c), "dns")
         \cup When(Listed(c, "hosts"), "host_aliases")
         \cup When(c.order # {}, "network_order")
         \cup When(Has(c, "restart_policy"), "restart_policy.pod_member")
order_fields(c, version) ==
    When(c.order # {} /\ ~supports_network_order(version), "network_order")

container_fields(c, version, context, authorized) ==
    UNION {unsupported_runtime_fields(c, version),
           member_fields(c),
           static_needs_rootful(c, context),
           order_fields(c, version),
           When(~secret_grants_renderable(c.list["secret_grants"]), "secret_grants"),
           When(\E m \in Elements(c.list["mounts"]) : mount_has_unsupported_subpath(m),
                "mounts.subpath_nocopy"),
           environment_fields(c, authorized)}

unsupported_fields(r, version, context, authorized) ==
    IF KindOf[r.id] = "image" THEN
        When(r.classification # "Portable", "source.portability")
        \cup When(~supports_image_policy(version), "pull_policy.target_version")
    ELSE IF KindOf[r.id] = "volume" THEN
        When(~supports_volume_ownership(version) /\ (Has(r, "uid") \/ Has(r, "gid")),
             "owner.target_version")
    ELSE IF KindOf[r.id] = "network" THEN
        When(/\ ~supports_network_route_type(version)
             /\ \E route \in Elements(r.list["routes"]) : route.route_type # "unicast",
             "routes.route_type")
    ELSE IF KindOf[r.id] = "pod" THEN
        static_needs_rootful(r, context) \cup When(Listed(r, "mounts"), "infra_mounts")
    ELSE IF KindOf[r.id] = "container" THEN container_fields(r, version, context, authorized)
    ELSE {}

\* The fields that two of the tests of unsupported_fields push.
pushed_twice(r, version) ==
    IF KindOf[r.id] = "container" THEN member_fields(r) \cap order_fields(r, version) ELSE {}

=============================================================================
