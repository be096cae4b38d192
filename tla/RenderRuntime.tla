---------------------------- MODULE RenderRuntime ----------------------------
(***************************************************************************)
(* The two renderings of a container's settings and runtime settings       *)
(* (src/src/render.rs), and of a whole operation.                          *)
(* A renderer that can fail answers [ok, value] or [ok |-> FALSE, field].  *)
(***************************************************************************)
EXTENDS RenderPlanes

Ok(v) == [ok |-> TRUE, value |-> v]
Err(field) == [ok |-> FALSE, field |-> field]

-----------------------------------------------------------------------------
(* Settings and environment. *)

authorized_environment_value(e, authorized) ==
    IF e.class = "public" \/ (e.class = "protected" /\ authorized) THEN {e.value} ELSE {}

environment_shown(c, authorized) ==
    \A e \in Elements(c.list["environment"]) : authorized_environment_value(e, authorized) # {}

append_container_setting_arguments(c, authorized) ==
    IF ~environment_shown(c, authorized) THEN Err("environment")
    ELSE Ok(Arg("--entrypoint", c.opt["entrypoint"]) \o Arg("--user", c.opt["user"])
            \o Arg("--workdir", c.opt["workdir"]) \o Arg("--hostname", c.opt["hostname"])
            \o Args("--label", Mapped(c.list["labels"], LAMBDA l : <<l.key, l.value>>))
            \o Args("--env", Mapped(c.list["environment"], LAMBDA e :
                 <<e.name, The(authorized_environment_value(e, authorized))>>))
            \o Arg("--restart", c.opt["restart_policy"]))

append_container_setting_json(c, authorized) ==
    IF ~environment_shown(c, authorized) THEN Err("environment")
    ELSE Ok(Insert("command", c.opt["command"]) ++ Insert("entrypoint", c.opt["entrypoint"])
            ++ Insert("user", c.opt["user"]) ++ Insert("work_dir", c.opt["workdir"])
            ++ Insert("hostname", c.opt["hostname"])
            ++ Insert("labels", IF ~Listed(c, "labels") THEN {}
                 ELSE {Object(c.list["labels"], LAMBDA l : l.key, LAMBDA l : l.value)})
            ++ Insert("env", IF ~Listed(c, "environment") THEN {}
                 ELSE {Object(c.list["environment"], LAMBDA e : e.name,
                              LAMBDA e : The(authorized_environment_value(e, authorized)))})
            ++ Insert("restart_policy", c.opt["restart_policy"])
            ++ InsertArray("volumes", mount_json(c.list["mounts"]))
            ++ InsertArray("mounts", native_mount_json(c.list["mounts"])))

-----------------------------------------------------------------------------
(* Health checks. *)

\* The test array: a leading word, then the command.
health_command_json(h) ==
    CASE h.class # "public" -> {}
      [] h.class = "public" /\ h.form = "shell" -> {<<<<"CMD-SHELL">>, <<h.text>>>>}
      [] OTHER -> {<<<<"CMD">>, h.arguments>>}
health_command_cli(h) == health_command_json(h)

health_duration_cli(ns) == <<ns, "ns">>
health_interval_cli(i) == IF i.disabled THEN <<0, "disable">> ELSE health_duration_cli(i.ns)
health_interval_nanoseconds(i) == IF i.disabled THEN 0 ELSE i.ns
health_on_failure_code(v) == CASE v = "none" -> 0 [] v = "kill" -> 2 [] v = "restart" -> 3 [] v = "stop" -> 4

append_health_arguments(h) ==
    Arg("--health-interval", Select(h.interval, health_interval_cli))
    \o Arg("--health-timeout", Select(h.timeout, health_duration_cli))
    \o Arg("--health-retries", h.retries)
    \o Arg("--health-start-period", Select(h.start_period, health_duration_cli))
    \o Arg("--health-on-failure", h.on_failure)
append_startup_arguments(h) ==
    Arg("--health-startup-interval", Select(h.interval, health_interval_cli))
    \o Arg("--health-startup-timeout", Select(h.timeout, health_duration_cli))
    \o Arg("--health-startup-retries", h.retries) \o Arg("--health-startup-success", h.successes)

\* Slip: the two names are swapped.
append_configured_health_json_swapped(h) ==
    Insert("Timeout", Select(h.interval, health_interval_nanoseconds)) ++ Insert("Interval", h.timeout)
    ++ Insert("Retries", h.retries) ++ Insert("StartPeriod", h.start_period)

append_configured_health_json(h) ==
    Insert("Interval", Select(h.interval, health_interval_nanoseconds)) ++ Insert("Timeout", h.timeout)
    ++ Insert("Retries", h.retries) ++ Insert("StartPeriod", h.start_period)
append_startup_health_json(h) ==
    Insert("Interval", Select(h.interval, health_interval_nanoseconds)) ++ Insert("Timeout", h.timeout)
    ++ Insert("Retries", h.retries) ++ Insert("Successes", h.successes)
health_json(h) ==
    IF h.disabled THEN One("Test", <<<<"NONE">>, <<>>>>)
    ELSE Insert("Test", health_command_json(h.command)) ++ append_configured_health_json(h)

\* The first health command that cannot be shown, as a field.
unshown_health(c) ==
    When(sensitive_health(c, "health"), "runtime.health.command")
    \cup When(sensitive_health(c, "startup_health"), "runtime.startup_health.command")

-----------------------------------------------------------------------------
(* Logging, security, namespaces and resources. *)

append_security_arguments(c) ==
    Arg("--privileged", c.opt["privileged"])
    \o Arg("--security-opt", Select(c.opt["no_new_privileges"], LAMBDA v : <<"no-new-privileges", v>>))
    \o Arg("--read-only", c.opt["read_only_filesystem"])
    \o Arg("--read-only-tmpfs", c.opt["read_write_tmpfs"])
    \o Args("--cap-add", c.list["cap_add"]) \o Args("--cap-drop", c.list["cap_drop"])
append_security_json(c) ==
    Insert("privileged", c.opt["privileged"]) ++ Insert("no_new_privileges", c.opt["no_new_privileges"])
    ++ Insert("read_only_filesystem", c.opt["read_only_filesystem"])
    ++ Insert("read_write_tmpfs", c.opt["read_write_tmpfs"])
    ++ InsertArray("cap_add", c.list["cap_add"]) ++ InsertArray("cap_drop", c.list["cap_drop"])

append_namespace_arguments(c) ==
    Arg("--pid", c.opt["pid"]) \o Arg("--ipc", c.opt["ipc"]) \o Arg("--uts", c.opt["uts"])
    \o Arg("--cgroupns", c.opt["cgroup"])
append_namespace_json(c) ==
    LET mode(field) == Select(c.opt[field], LAMBDA v : [nsmode |-> v])
    IN  Insert("pidns", mode("pid")) ++ Insert("ipcns", mode("ipc"))
        ++ Insert("utsns", mode("uts")) ++ Insert("cgroupns", mode("cgroup"))

\* An unlimited value is -1 in both renderings.
rlimit_value(v) == IF v.unlimited THEN -1 ELSE v.value
rlimit_kind_name == [nofile |-> "RLIMIT_NOFILE", nproc |-> "RLIMIT_NPROC"]
rlimit_cli_value(r) == <<r.kind, rlimit_value(r.soft), rlimit_value(r.hard)>>
append_resource_arguments(c) ==
    Arg("--cpu-shares", c.opt["cpu_shares"]) \o Arg("--cpu-period", c.opt["cpu_period"])
    \o Arg("--cpu-quota", c.opt["cpu_quota"]) \o Arg("--memory", c.opt["memory_bytes"])
    \o Arg("--pids-limit", c.opt["pids"]) \o Args("--ulimit", Mapped(c.list["rlimits"], rlimit_cli_value))
append_resource_json(c) ==
    LET cpu == Insert("shares", c.opt["cpu_shares"]) ++ Insert("period", c.opt["cpu_period"])
               ++ Insert("quota", c.opt["cpu_quota"])
        limits == Insert("cpu", IF cpu = <<>> THEN {} ELSE {cpu})
                  ++ Insert("memory", Select(c.opt["memory_bytes"], LAMBDA v : [limit |-> v]))
                  ++ Insert("pids", Select(c.opt["pids"], LAMBDA v : [limit |-> v]))
    IN  Insert("resource_limits", IF limits = <<>> THEN {} ELSE {limits})
        ++ InsertArray("r_limits", Mapped(c.list["rlimits"], LAMBDA r :
             [type |-> rlimit_kind_name[r.kind], soft |-> rlimit_value(r.soft), hard |-> rlimit_value(r.hard)]))

logging_configured(c) == Has(c, "driver") \/ Has(c, "max_size") \/ Listed(c, "journald_labels")
append_logging_json(c) ==
    Insert("log_configuration",
        IF ~logging_configured(c) THEN {}
        ELSE {Insert("driver", c.opt["driver"]) ++ Insert("size", c.opt["max_size"])
              ++ Insert("labels", IF ~Listed(c, "journald_labels") THEN {}
                   ELSE {Object(c.list["journald_labels"], LAMBDA l : l.key, LAMBDA l : l.value)})})

\* The version checks repeated while appending.
unshown_runtime(c, version) ==
    unshown_health(c)
    \cup When(Listed(c, "journald_labels") /\ ~supports_journald_labels(version),
              "runtime.logging.journald_labels.target_version")
    \cup When(unlimited(c) /\ ~supports_unlimited_rlimit(version),
              "runtime.resources.rlimits.unlimited.target_version")

append_container_runtime_arguments(c, version) ==
    IF unshown_runtime(c, version) # {} THEN Err(The(unshown_runtime(c, version)))
    ELSE LET health == c.opt["health"]
             startup == c.opt["startup_health"]
         IN Ok((IF health = {} THEN <<>>
                ELSE IF The(health).disabled THEN <<<<"--no-healthcheck", TRUE>>>>
                ELSE Arg("--health-cmd", health_command_cli(The(health).command))
                     \o append_health_arguments(The(health)))
               \o (IF startup = {} THEN <<>>
                   ELSE Arg("--health-startup-cmd", health_command_cli(The(startup).command))
                        \o append_startup_arguments(The(startup)))
               \o Arg("--log-driver", c.opt["driver"])
               \o Arg("--log-opt", Select(c.opt["max_size"], LAMBDA v : <<"max-size", v>>))
               \o Args("--log-opt", Mapped(c.list["journald_labels"], LAMBDA l :
                    <<"label", <<l.key, l.value>>>>))
               \o append_security_arguments(c) \o append_namespace_arguments(c)
               \o append_resource_arguments(c))

append_container_runtime_json(c, version) ==
    IF unshown_runtime(c, version) # {} THEN Err(The(unshown_runtime(c, version)))
    ELSE LET health == c.opt["health"]
             failure == UNION {h.on_failure : h \in {x \in health : ~x.disabled}}
         IN Ok(Insert("healthconfig", Select(health, health_json))
               ++ Insert("health_check_on_failure_action", Select(failure, health_on_failure_code))
               ++ Insert("startupHealthConfig", Select(c.opt["startup_health"], LAMBDA h :
                    Insert("Test", health_command_json(h.command)) ++ append_startup_health_json(h)))
               ++ append_logging_json(c) ++ append_security_json(c)
               ++ append_namespace_json(c) ++ append_resource_json(c))

-----------------------------------------------------------------------------
(* One operation: [action, resource] with the resource's identity.  A       *)
(* rendered operation is [op, deferred, argv, input, path, body]: input is  *)
(* the option of an external secret input, body [kind, json].               *)

Rendered(op, argv, path, json) ==
    Ok([op |-> op, deferred |-> FALSE, argv |-> argv, input |-> {}, path |-> path,
        body |-> [kind |-> "json", json |-> json]])
Plain(op, argv, path) ==
    Ok([op |-> op, deferred |-> FALSE, argv |-> argv, input |-> {}, path |-> path,
        body |-> [kind |-> "empty", json |-> <<>>]])

\* managed_image_sources.get(image), else the declared name
image_named(c, sources) == IF c.image \in DOMAIN sources THEN sources[c.image] ELSE NameOf[c.image]

render_pod_create(op, p) ==
    LET networks == append_network_arguments(p.list["networks"], {})
    IN  IF networks = {} THEN Err("networks.cli_ambiguous")
        ELSE Rendered(op,
               <<<<"pod", "create">>, <<"--name", NameOf[p.id]>>>> \o The(networks)
               \o append_port_arguments(p.list["ports"]) \o append_dns_arguments(p)
               \o append_host_alias_arguments(p.list["hosts"]),
               <<"pods/create">>,
               One("name", NameOf[p.id]) ++ One("Networks", network_configuration(p.list["networks"]))
               ++ append_networking_json(p, {}))

\* The pod, or the container's own networking.
join_arguments(c) ==
    IF c.pod # {} THEN {Arg("--pod", Select(c.pod, LAMBDA p : NameOf[p]))}
    ELSE {networks \o append_port_arguments(c.list["ports"]) \o append_dns_arguments(c)
          \o append_host_alias_arguments(c.list["hosts"]) :
            networks \in append_network_arguments(c.list["networks"], c.order)}
join_json(c) ==
    IF c.pod # {} THEN Insert("pod", Select(c.pod, LAMBDA p : NameOf[p]))
    ELSE One("Networks", network_configuration(c.list["networks"])) ++ append_networking_json(c, c.order)

render_container_create(op, c, version, sources, authorized) ==
    LET join == join_arguments(c)
        mounts == append_mount_arguments(c.list["mounts"])
        grants == append_secret_grants_arguments(c.list["secret_grants"])
        settings == append_container_setting_arguments(c, authorized)
        runtime == append_container_runtime_arguments(c, version)
        image == image_named(c, sources)
        command == IF Has(c, "command") THEN The(c.opt["command"]) ELSE <<>>
    IN  IF join = {} THEN Err("networks.cli_ambiguous")
        ELSE IF mounts = {} THEN Err("mounts.cli_ambiguous")
        ELSE IF grants = {} THEN Err("secret_grants.cli_ambiguous")
        ELSE IF ~settings.ok THEN settings
        ELSE IF ~runtime.ok THEN runtime
        ELSE Rendered(op,
               <<<<"container", "create">>, <<"--name", NameOf[c.id]>>, <<"--pull", "never">>>>
               \o The(join) \o The(mounts) \o The(grants) \o settings.value \o runtime.value
               \o <<<<"", image>>>> \o Args("", command),
               <<"containers/create", NameOf[c.id]>>,
               One("image", image) ++ join_json(c)
               ++ append_container_setting_json(c, authorized).value
               ++ append_secret_grants_json(c.list["secret_grants"])
               ++ append_container_runtime_json(c, version).value)

render_create(op, r, version, sources, authorized) ==
    IF KindOf[r.id] = "network" THEN
        Rendered(op, <<<<"network", "create">>>> \o append_network_create_arguments(r)
                     \o <<<<"", NameOf[r.id]>>>>,
                 <<"networks/create">>,
                 network_create_configuration(r, supports_network_route_type(version)))
    ELSE IF KindOf[r.id] = "volume" THEN
        Rendered(op, <<<<"volume", "create">>>> \o volume_create_cli_arguments(r) \o <<<<"", NameOf[r.id]>>>>,
                 <<"volumes/create">>, volume_create_json(r))
    ELSE IF KindOf[r.id] = "secret" THEN
        Ok([op |-> op, deferred |-> TRUE,
            argv |-> <<<<"secret", "create">>, <<"", NameOf[r.id]>>, <<"", "-">>>>,
            input |-> {r.material}, path |-> <<"secrets/create", NameOf[r.id]>>,
            body |-> [kind |-> "external_sensitive_input", json |-> <<>>]])
    ELSE IF KindOf[r.id] = "pod" THEN render_pod_create(op, r)
    ELSE render_container_create(op, r, version, sources, authorized)

render_operation(op, r, version, sources, authorized) ==
    IF op.action = "StartPod" THEN
        Plain(op, <<<<"pod", "start">>, <<"", NameOf[r.id]>>>>, <<"pods/start", NameOf[r.id]>>)
    ELSE IF op.action = "StartContainer" THEN
        Plain(op, <<<<"container", "start">>, <<"", NameOf[r.id]>>>>, <<"containers/start", NameOf[r.id]>>)
    ELSE IF op.action = "EnsureImage" THEN
        Plain(op, <<<<"image", "pull">>, <<"--policy", r.policy>>, <<"", r.source>>>>,
              <<"images/pull", r.source, r.policy>>)
    ELSE render_create(op, r, version, sources, authorized)

=============================================================================
