--------------------------- MODULE UnixTransport ---------------------------
(***************************************************************************)
(* One exchange of ReadOnlyUnixTransport                                   *)
(* (src/src/read_only_unix_transport.rs): a GET is sent to a peer over a   *)
(* unix socket, in a connect, a header and a body phase, each under its    *)
(* own deadline and all under a total deadline.                            *)
(*                                                                         *)
(* The future is polled by an executor.  A poll runs it until it waits;    *)
(* then the timer of the phase is looked at, then the total timer: tokio's *)
(* timeout polls what it wraps first.  The executor (external) polls a     *)
(* woken task within Lag ticks.  hyper (external) is modelled by what the  *)
(* code awaits: a connection future that moves what the peer sent to the   *)
(* response and body futures, and ends when the peer has closed.           *)
(***************************************************************************)
EXTENDS Integers

CONSTANTS
    ConnectTimeout, HeaderTimeout, BodyTimeout, TotalTimeout,
    MaxBodyBytes,   \* TransportLimits::max_body_bytes
    Lag             \* how late the executor may poll a woken task

ASSUME TimeoutsAssumption ==
    {ConnectTimeout, HeaderTimeout, BodyTimeout, TotalTimeout} \subseteq Nat \ {0}
ASSUME LimitsAssumption == MaxBodyBytes \in Nat /\ Lag \in Nat

\* What validate_acquisition_request and build_http_request tell apart.
RequestKinds == {"get", "not_get", "bodied", "over_limits", "host_header"}

\* What the response head makes of an answer: refused by hyper's parser,
\* by convert_headers, by LibpodResponse::with_limits, or by nobody.
HeadKinds == {"unparsable", "unconvertible", "over_limits", "good"}

Unsent == "unsent"
NoAnswer == [head |-> Unsent, length |-> 0, until_close |-> FALSE, bytes |-> 0, closed |-> FALSE]

VARIABLES
    request,     \* kind of the request
    phase,       \* "idle", "connect", "headers", "body" or "done"
    outcome,     \* "none", "ok", "unavailable", "invalid_message", "read_only_rejected"
    now,         \* clock
    due,         \* deadline of the phase
    total,       \* deadline of the exchange
    polling,     \* the future is running
    driven,      \* the connection was polled since the phase's own future was
    woken,       \* when the waiting task was woken, or NotWoken
    listener,    \* external: "quiet", "accepted" or "refused"
    peer,        \* external: what the peer has put on the wire
    received,    \* what the connection has moved to the response and the body
    answered     \* history: when an acceptable answer was complete, or NotWoken

vars == <<request, phase, outcome, now, due, total, polling, driven, woken, listener, peer,
          received, answered>>

NotWoken == -1
Active == phase \in {"connect", "headers", "body"}

Init ==
    /\ request \in RequestKinds
    /\ phase = "idle" /\ outcome = "none"
    /\ now = 0 /\ due = 0 /\ total = 0
    /\ polling = FALSE /\ driven = FALSE /\ woken = NotWoken
    /\ listener = "quiet" /\ peer = NoAnswer /\ received = NoAnswer
    /\ answered = NotWoken

-----------------------------------------------------------------------------
(* What hyper reports of an answer.                                        *)

\* Slip: a body ends when the peer closes, however long it should have been.
Complete_on_close(a) == a.closed \/ (~a.until_close /\ a.bytes = a.length)

\* The framing is complete: the announced length, or the end of the stream.
Complete(a) == IF a.until_close THEN a.closed ELSE a.bytes = a.length

\* The body future resolves: complete, broken off, or over the limit.
BodyReady(a) == Complete(a) \/ a.closed \/ a.bytes > MaxBodyBytes

\* The response future resolves: a head, or the end of the connection.
HeadReady(a) == a.head # Unsent \/ a.closed

\* The connection future resolves.
ConnectionEnded(a) == a.closed \/ a.head = "unparsable"

\* classify_hyper_error: a parse error is the peer's message, an end without
\* a head is a missing peer; convert_headers comes next.
HeadOutcome(a) ==
    IF a.head = Unsent THEN "unavailable"
    ELSE IF a.head \in {"unparsable", "unconvertible"} THEN "invalid_message" ELSE "none"

\* classify_body_error and LibpodResponse::with_limits.
BodyOutcome(a) ==
    IF a.bytes <= MaxBodyBytes /\ Complete(a) /\ a.head = "good" THEN "ok" ELSE "invalid_message"

\* A complete answer within every limit.
Acceptable(a) ==
    /\ a.head = "good" /\ a.bytes <= MaxBodyBytes
    /\ IF a.until_close THEN a.closed ELSE a.bytes = a.length

-----------------------------------------------------------------------------
(* The environment.                                                        *)

Wake == woken' = IF woken = NotWoken THEN now ELSE woken

ListenerAnswers ==
    /\ phase = "connect" /\ ~polling /\ listener = "quiet"
    /\ listener' \in {"accepted", "refused"}
    /\ Wake
    /\ UNCHANGED <<request, phase, outcome, now, due, total, polling, driven, peer, received, answered>>

\* The peer answers once the connection stands; a length one above the limit
\* stands for every longer body.
PeerSends ==
    /\ phase \in {"headers", "body"} /\ ~polling /\ ~peer.closed
    /\ \/ /\ peer.head = Unsent
          /\ \E head \in HeadKinds, length \in 0..(MaxBodyBytes + 1), until_close \in BOOLEAN :
                peer' = [head |-> head, length |-> length, until_close |-> until_close,
                         bytes |-> 0, closed |-> FALSE]
       \/ /\ peer.head # Unsent /\ peer.bytes < peer.length
          /\ peer' = [peer EXCEPT !.bytes = @ + 1]
       \/ peer' = [peer EXCEPT !.closed = TRUE]
    /\ answered' = IF answered = NotWoken /\ Acceptable(peer') THEN now ELSE answered
    /\ Wake
    /\ UNCHANGED <<request, phase, outcome, now, due, total, polling, driven, listener, received>>

\* Time passes while the task waits, but not beyond the executor's promise.
Tick ==
    /\ Active /\ ~polling
    /\ woken = NotWoken \/ now < woken + Lag
    /\ now' = now + 1
    /\ woken' = IF woken = NotWoken /\ (now' >= due \/ now' >= total) THEN now' ELSE woken
    /\ UNCHANGED <<request, phase, outcome, due, total, polling, driven, listener, peer, received, answered>>

StartPoll ==
    /\ Active /\ ~polling /\ woken # NotWoken
    /\ polling' = TRUE /\ driven' = FALSE /\ woken' = NotWoken
    /\ UNCHANGED <<request, phase, outcome, now, due, total, listener, peer, received, answered>>

-----------------------------------------------------------------------------
(* The future.                                                             *)

Finish(result) ==
    /\ phase' = "done" /\ outcome' = result
    /\ polling' = FALSE /\ woken' = NotWoken

\* What the checks before the connect make of a request.
RequestOutcome(kind) ==
    IF kind = "not_get" THEN "read_only_rejected"
    ELSE IF kind \in {"bodied", "over_limits", "host_header"} THEN "invalid_message" ELSE "none"

\* Slip: a request to an unavailable peer is sent again.
Send_retrying ==
    /\ phase = "idle" \/ outcome = "unavailable"
    /\ request = "get"
    /\ total' = now + TotalTimeout
    /\ phase' = "connect" /\ outcome' = "none"
    /\ due' = now + ConnectTimeout
    /\ polling' = TRUE
    /\ UNCHANGED <<request, now, driven, woken, listener, peer, received, answered>>

\* send up to the first await: nothing is opened for a refused request.
Send ==
    /\ phase = "idle"
    /\ total' = now + TotalTimeout
    /\ IF RequestOutcome(request) # "none"
         THEN /\ Finish(RequestOutcome(request))
              /\ UNCHANGED due
         ELSE /\ phase' = "connect"
              /\ due' = now + ConnectTimeout
              /\ polling' = TRUE
              /\ UNCHANGED <<outcome, woken>>
    /\ UNCHANGED <<request, now, driven, listener, peer, received, answered>>

Connected ==
    /\ polling /\ phase = "connect" /\ listener = "accepted"
    /\ phase' = "headers"
    /\ due' = now + HeaderTimeout
    /\ UNCHANGED <<request, outcome, now, total, polling, driven, woken, listener, peer, received, answered>>

ConnectFails ==
    /\ polling /\ phase = "connect" /\ listener = "refused"
    /\ Finish("unavailable")
    /\ UNCHANGED <<request, now, due, total, driven, listener, peer, received, answered>>

\* Slip: once the head is in, nobody drives the connection.
PollConnection_head_only ==
    /\ polling /\ phase \in {"headers", "body"} /\ ~driven
    /\ IF phase = "headers" THEN ~HeadReady(received) ELSE ~BodyReady(received)
    /\ driven' = TRUE
    /\ received' = IF phase = "headers" THEN peer ELSE received
    /\ UNCHANGED <<request, phase, outcome, now, due, total, polling, woken, listener, peer, answered>>

\* The connection branch of the select, reached while the phase's own future
\* is not ready: everything on the wire is moved.
PollConnection ==
    /\ polling /\ phase \in {"headers", "body"} /\ ~driven
    /\ IF phase = "headers" THEN ~HeadReady(received) ELSE ~BodyReady(received)
    /\ driven' = TRUE
    /\ received' = peer
    /\ UNCHANGED <<request, phase, outcome, now, due, total, polling, woken, listener, peer, answered>>

\* The select is biased to the phase's own future; after the connection
\* branch that future is awaited in the same poll only if the connection
\* has ended.
PhaseFutureReady(ready) == ready /\ (~driven \/ ConnectionEnded(received))

TakeHead ==
    /\ polling /\ phase = "headers" /\ PhaseFutureReady(HeadReady(received))
    /\ IF HeadOutcome(received) # "none"
         THEN /\ Finish(HeadOutcome(received))
              /\ UNCHANGED <<due, driven>>
         ELSE /\ phase' = "body"
              /\ due' = now + BodyTimeout
              /\ driven' = FALSE
              /\ UNCHANGED <<outcome, polling, woken>>
    /\ UNCHANGED <<request, now, total, listener, peer, received, answered>>

TakeBody ==
    /\ polling /\ phase = "body" /\ PhaseFutureReady(BodyReady(received))
    /\ Finish(BodyOutcome(received))
    /\ UNCHANGED <<request, now, due, total, driven, listener, peer, received, answered>>

\* Nothing in this poll can make progress any more.
Waiting ==
    \/ phase = "connect" /\ listener = "quiet"
    \/ phase = "headers" /\ driven /\ ~PhaseFutureReady(HeadReady(received))
    \/ phase = "body" /\ driven /\ ~PhaseFutureReady(BodyReady(received))

\* Slip: the exchange as a whole has no timer.
Elapsed_phase_only == now >= due

\* The timer of the phase, then the one around send_get.
Elapsed == now >= due \/ now >= total

TimeOut ==
    /\ polling /\ Waiting /\ Elapsed
    /\ Finish("unavailable")
    /\ UNCHANGED <<request, now, due, total, driven, listener, peer, received, answered>>

\* What the connection just moved wakes the task for another poll.
Suspend ==
    /\ polling /\ Waiting /\ ~Elapsed
    /\ polling' = FALSE
    /\ woken' = IF \/ phase = "headers" /\ HeadReady(received)
                   \/ phase = "body" /\ BodyReady(received) THEN now ELSE NotWoken
    /\ UNCHANGED <<request, phase, outcome, now, due, total, driven, listener, peer, received, answered>>

RunFuture ==
    \/ StartPoll \/ Send \/ Connected \/ ConnectFails
    \/ PollConnection \/ TakeHead \/ TakeBody \/ TimeOut \/ Suspend

Next == RunFuture \/ Tick \/ ListenerAnswers \/ PeerSends

Spec == Init /\ [][Next]_vars

\* A woken task is polled and time passes; neither the listener nor the peer
\* owes an answer.
FairSpec == Spec /\ WF_vars(RunFuture) /\ WF_vars(Tick)

-----------------------------------------------------------------------------
(* Properties.                                                             *)

Answers == [head : HeadKinds \cup {Unsent}, length : 0..(MaxBodyBytes + 1), until_close : BOOLEAN,
            bytes : 0..(MaxBodyBytes + 1), closed : BOOLEAN]

\* Phases, deadlines and what is on the wire have their types; what was
\* received is never ahead of what was sent.
TypeOK ==
    /\ request \in RequestKinds
    /\ phase \in {"idle", "connect", "headers", "body", "done"}
    /\ outcome \in {"none", "ok", "unavailable", "invalid_message", "read_only_rejected"}
    /\ phase = "done" <=> outcome # "none"
    /\ {now, due, total} \subseteq Nat
    /\ polling \in BOOLEAN /\ driven \in BOOLEAN
    /\ {woken, answered} \subseteq Nat \cup {NotWoken}
    /\ listener \in {"quiet", "accepted", "refused"}
    /\ peer \in Answers /\ received \in Answers
    /\ received.bytes <= peer.bytes
    /\ received.head \in {Unsent, peer.head} /\ (received.closed => peer.closed)

\* Every outcome has its cause: a response is a complete answer within the
\* limits, an invalid message is a refused request or an answer the peer
\* spoiled, and a peer is unavailable only when it refused, closed before
\* its head, or let a deadline pass.
OutcomeExplained ==
    /\ outcome = "ok" => request = "get" /\ Acceptable(peer)
    /\ outcome = "invalid_message" =>
          \/ request # "get" /\ listener = "quiet"
          \/ peer.head \in {"unparsable", "unconvertible", "over_limits"}
          \/ peer.bytes > MaxBodyBytes
          \/ peer.closed /\ ~peer.until_close /\ peer.bytes < peer.length
    /\ outcome = "unavailable" =>
          \/ listener = "refused"
          \/ peer.closed /\ peer.head = Unsent
          \/ now >= due \/ now >= total

\* An answer that is complete on the wire early enough for one poll before
\* the deadline is not reported as unavailable, even if the peer closes
\* right behind it, and although the future may need a second poll to read
\* what the first one moved.
PromptAnswerAccepted ==
    (outcome = "unavailable" /\ answered # NotWoken) =>
        answered + Lag >= due \/ answered + Lag >= total

\* The exchange never outlives its total deadline by more than the
\* executor's lag, whatever the peer does and however the phases add up.
ExchangeBounded == phase # "idle" => now <= total + Lag

\* What the exchange promises its caller.
Promise == INSTANCE Exchange WITH
    status <- IF phase = "idle" THEN "idle" ELSE IF phase = "done" THEN outcome ELSE "pending",
    answer <- IF Acceptable(peer) THEN "complete" ELSE "incomplete"

\* The transport is a request and reply: one reply per request, a response
\* only for a complete answer, and always a reply.
ImplementsExchange == Promise!FairSpec
=============================================================================
