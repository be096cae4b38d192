------------------------------- MODULE Probe -------------------------------
(***************************************************************************)
(* The service probe that precedes every acquisition (src/src/probe.rs)   *)
(* and the catalogue evidence it is judged by (src/src/version.rs and     *)
(* src/src/evidence.rs).                                                  *)
(*                                                                         *)
(* A reported version is a record [core, spelling]: core is the number    *)
(* semver compares, spelling the text the service sent.  Two spellings of *)
(* one core are different versions for the legacy catalogue lines, which  *)
(* match text, and equal ones for the ranged lines, which compare cores.  *)
(* A result is [ok |-> TRUE, value |-> v] or [ok |-> FALSE, code |-> c].  *)
(***************************************************************************)
EXTENDS Integers, Sequences

CONSTANT Catalogue    \* the reviewed lines, in catalogue order

Ok(v) == [ok |-> TRUE, value |-> v]
Err(c) == [ok |-> FALSE, code |-> c]

Ver(major, minor, patch) == 10000 * major + 100 * minor + patch
Major(v) == v.core \div 10000

\* A header or component value that no version parser accepts.
Unparsable == [core |-> -1, spelling |-> "unparsable"]

SupportedPodmanRange == Ver(5, 4, 0) .. (Ver(6, 2, 0) - 1)

version_in_entry(core, entry) ==
    core >= entry.minimum /\ core < entry.maximum_exclusive

\* Slip: the API may be newer than the engine.
api_version_unbounded(entry, engine, api) == api.core >= entry.minimum_api

api_version_is_supported(entry, engine, api) ==
    api.core >= entry.minimum_api /\ api.core <= engine.core

\* The first catalogue line that admits an engine as input, as a set of at
\* most one line: a ranged line by its interval, a legacy line only by one of
\* its reviewed spellings.
matching_input_catalogue_entry(engine) ==
    LET admits(e) == IF e.output_supported
                       THEN version_in_entry(engine.core, e)
                       ELSE \E pair \in e.reported : pair.engine = engine.spelling
        matching == {i \in DOMAIN Catalogue : admits(Catalogue[i])}
    IN  {Catalogue[i] : i \in {j \in matching : \A k \in matching : j <= k}}

observed_input_is_supported(engine, api) ==
    \E e \in matching_input_catalogue_entry(engine) :
        IF e.output_supported
          THEN api_version_is_supported(e, engine, api)
          ELSE [engine |-> engine.spelling, api |-> api.spelling] \in e.reported

\* The first output line whose interval holds the engine, likewise.
matching_catalogue_entry(engine) ==
    LET matching == {i \in DOMAIN Catalogue : /\ Catalogue[i].output_supported
                                              /\ version_in_entry(engine.core, Catalogue[i])}
    IN  {Catalogue[i] : i \in {j \in matching : \A k \in matching : j <= k}}

\* TargetProfile::new, which the probe keeps only as "there is one".
TargetProfile(engine, api) ==
    /\ engine.core \in SupportedPodmanRange
    /\ \E e \in matching_catalogue_entry(engine) : api_version_is_supported(e, engine, api)

(***************************************************************************)
(* The two replies.  transport is "ok" or the code of the transport       *)
(* error; apis holds the values of every libpod-api-version header;       *)
(* json says that there is exactly one content-type header and that it    *)
(* is JSON; engines holds one reported version per component named        *)
(* "Podman Engine", or the codes of a body that is not JSON or not the    *)
(* expected object.                                                       *)
(***************************************************************************)
ping_api_version(reply) ==
    IF reply.transport # "ok" THEN Err(reply.transport)
    ELSE IF reply.status # 200 THEN Err("ProbeHttpStatus")
    ELSE IF Len(reply.apis) = 1 /\ reply.apis[1] # Unparsable THEN Ok(reply.apis[1])
    ELSE Err("ProbeHeader")

\* The path of the second request names the API only for Podman 3.
version_probe_path(api) == IF Major(api) = 3 THEN api.core ELSE Ver(4, 0, 0)

engine_version(reply) ==
    IF reply.transport # "ok" THEN Err(reply.transport)
    ELSE IF reply.status # 200 THEN Err("ProbeHttpStatus")
    ELSE IF ~reply.json THEN Err("ProbeHeader")
    ELSE IF reply.body # "object" THEN Err(reply.body)
    ELSE IF Len(reply.engines) = 1 /\ reply.engines[1] # Unparsable THEN Ok(reply.engines[1])
    ELSE Err("ProbeComponent")

\* What the probe returns once both replies are in.
ServiceObservation(api, reply) ==
    LET engine == engine_version(reply)
    IN  IF ~engine.ok THEN engine
        ELSE IF ~observed_input_is_supported(engine.value, api) THEN Err("ObservedCompatibility")
        ELSE Ok([engine |-> engine.value, api |-> api,
                 target |-> TargetProfile(engine.value, api)])
=============================================================================
