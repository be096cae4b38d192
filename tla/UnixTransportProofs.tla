------------------------ MODULE UnixTransportProofs ------------------------
(***************************************************************************)
(* What holds of one exchange for every choice of timeouts, of the body    *)
(* limit and of the executor's lag: the types, the bound on its duration,  *)
(* the cause of its outcome, the safety part of Exchange, and that an      *)
(* answer in time is accepted.                                             *)
(***************************************************************************)
EXTENDS UnixTransport, TLAPS

\* What the connection moved is an earlier moment of what the peer sent: its
\* head and framing are the peer's, and after a close there is nothing more.
Moment(sent, moved) ==
    /\ sent \in Answers /\ moved \in Answers
    /\ sent.bytes <= sent.length /\ moved.bytes <= sent.bytes
    /\ sent.head = Unsent => sent.bytes = 0
    /\ moved.head # Unsent =>
          /\ moved.head = sent.head /\ moved.length = sent.length
          /\ moved.until_close = sent.until_close
    /\ moved.head = Unsent => moved.bytes = 0
    /\ moved.closed => moved = sent

\* The types of what the future keeps across its awaits.
FutureTypes ==
    /\ request \in RequestKinds
    /\ phase \in {"idle", "connect", "headers", "body", "done"}
    /\ outcome \in {"none", "ok", "unavailable", "invalid_message", "read_only_rejected"}
    /\ phase = "done" <=> outcome # "none"
    /\ polling \in BOOLEAN /\ driven \in BOOLEAN
    /\ listener \in {"quiet", "accepted", "refused"}

\* The types of the clock, the deadlines and the marks set from the clock.
ClockTypes ==
    /\ now \in Nat /\ due \in Nat /\ total \in Nat
    /\ woken \in Nat \cup {NotWoken} /\ answered \in Nat \cup {NotWoken}

\* The inductive invariant of the types of send_get's state.
TypeInv == FutureTypes /\ ClockTypes /\ Moment(peer, received)

\* The inductive invariant has the types of TypeOK as a part.
LEMMA TypeInvImplies == ASSUME TypeInv PROVE TypeOK
<1>1. received.bytes <= peer.bytes /\ received.head \in {Unsent, peer.head}
  BY DEF TypeInv, Moment
<1>2. received.closed => peer.closed
  BY DEF TypeInv, Moment
<1> QED
  BY <1>1, <1>2 DEF TypeInv, TypeOK, FutureTypes, ClockTypes, Moment

\* The initial state has its types.
LEMMA TypeInit == ASSUME Init PROVE TypeInv
<1>1. NoAnswer \in Answers
  BY LimitsAssumption DEF NoAnswer, Answers, Unsent
<1>2. Moment(NoAnswer, NoAnswer)
  BY <1>1 DEF Moment, NoAnswer, Unsent
<1>3. FutureTypes
  BY DEF Init, FutureTypes
<1>4. ClockTypes
  BY DEF Init, ClockTypes
<1> QED
  BY <1>2, <1>3, <1>4 DEF Init, TypeInv

\* The future and its environment keep the types of the control state.
LEMMA FutureTypesStep == ASSUME TypeInv, Next PROVE FutureTypes'
<1> USE DEF TypeInv, FutureTypes
<1>1. CASE StartPoll
  BY <1>1 DEF StartPoll
<1>2. CASE Send
  <2>1. RequestOutcome(request) \in {"none", "invalid_message", "read_only_rejected"}
    BY DEF RequestOutcome
  <2>2. CASE RequestOutcome(request) # "none"
    BY <1>2, <2>1, <2>2 DEF Send, Finish
  <2>3. CASE RequestOutcome(request) = "none"
    BY <1>2, <2>3 DEF Send
  <2> QED
    BY <2>2, <2>3
<1>3. CASE Connected
  BY <1>3 DEF Connected
<1>4. CASE ConnectFails
  BY <1>4 DEF ConnectFails, Finish
<1>5. CASE PollConnection
  BY <1>5 DEF PollConnection
<1>6. CASE TakeHead
  <2>1. HeadOutcome(received) \in {"none", "unavailable", "invalid_message"}
    BY DEF HeadOutcome
  <2>2. CASE HeadOutcome(received) # "none"
    BY <1>6, <2>1, <2>2 DEF TakeHead, Finish
  <2>3. CASE HeadOutcome(received) = "none"
    BY <1>6, <2>3 DEF TakeHead
  <2> QED
    BY <2>2, <2>3
<1>7. CASE TakeBody
  BY <1>7 DEF TakeBody, Finish, BodyOutcome
<1>8. CASE TimeOut
  BY <1>8 DEF TimeOut, Finish
<1>9. CASE Suspend
  BY <1>9 DEF Suspend
<1>10. CASE Tick
  BY <1>10 DEF Tick
<1>11. CASE ListenerAnswers
  BY <1>11 DEF ListenerAnswers
<1>12. CASE PeerSends
  BY <1>12 DEF PeerSends
<1> QED
  BY <1>1, <1>2, <1>3, <1>4, <1>5, <1>6, <1>7, <1>8, <1>9, <1>10, <1>11, <1>12 DEF Next, RunFuture

\* Deadlines and marks are times.
LEMMA ClockTypesStep == ASSUME TypeInv, Next PROVE ClockTypes'
<1> USE TimeoutsAssumption, LimitsAssumption DEF TypeInv, ClockTypes, NotWoken
<1>1. CASE StartPoll
  BY <1>1 DEF StartPoll
<1>2. CASE Send
  BY <1>2 DEF Send, Finish
<1>3. CASE Connected
  BY <1>3 DEF Connected
<1>4. CASE ConnectFails
  BY <1>4 DEF ConnectFails, Finish
<1>5. CASE PollConnection
  BY <1>5 DEF PollConnection
<1>6. CASE TakeHead
  <2>1. due' \in {due, now + BodyTimeout} /\ woken' \in {woken, NotWoken}
    BY <1>6 DEF TakeHead, Finish
  <2> QED
    BY <1>6, <2>1 DEF TakeHead
<1>7. CASE TakeBody
  BY <1>7 DEF TakeBody, Finish
<1>8. CASE TimeOut
  BY <1>8 DEF TimeOut, Finish
<1>9. CASE Suspend
  <2>1. woken' \in {now, NotWoken}
    BY <1>9 DEF Suspend
  <2> QED
    BY <1>9, <2>1 DEF Suspend
<1>10. CASE Tick
  BY <1>10 DEF Tick
<1>11. CASE ListenerAnswers
  BY <1>11 DEF ListenerAnswers, Wake
<1>12. CASE PeerSends
  <2>1. woken' \in {now, woken} /\ answered' \in {now, answered}
    BY <1>12 DEF PeerSends, Wake
  <2> QED
    BY <1>12, <2>1 DEF PeerSends
<1> QED
  BY <1>1, <1>2, <1>3, <1>4, <1>5, <1>6, <1>7, <1>8, <1>9, <1>10, <1>11, <1>12 DEF Next, RunFuture

\* The peer's next bytes keep what was moved before a moment of what is sent.
LEMMA MomentStep == ASSUME TypeInv, Next PROVE Moment(peer, received)'
<1> USE DEF TypeInv
<1>1. CASE PollConnection
  <2>1. peer' = peer /\ received' = peer
    BY <1>1 DEF PollConnection
  <2>2. Moment(peer, peer)
    BY LimitsAssumption DEF Moment, Answers
  <2> QED
    BY <2>1, <2>2
<1>2. CASE PeerSends
  <2> received' = received /\ ~peer.closed
    BY <1>2 DEF PeerSends
  <2>1. ~received.closed
    BY DEF Moment
  <2> USE LimitsAssumption DEF Moment, Answers, HeadKinds, Unsent
  <2>2. CASE /\ peer.head = Unsent
             /\ \E head \in HeadKinds, length \in 0..(MaxBodyBytes + 1), until_close \in BOOLEAN :
                   peer' = [head |-> head, length |-> length, until_close |-> until_close,
                            bytes |-> 0, closed |-> FALSE]
    BY <2>1, <2>2
  <2>3. CASE /\ peer.head # Unsent /\ peer.bytes < peer.length
             /\ peer' = [peer EXCEPT !.bytes = @ + 1]
    <3>1. /\ peer'.head = peer.head /\ peer'.length = peer.length
          /\ peer'.until_close = peer.until_close /\ peer'.closed = peer.closed
      BY <2>3
    <3>2. peer'.bytes = peer.bytes + 1
      BY <2>3
    <3>3. peer.bytes + 1 \in 0..(MaxBodyBytes + 1)
      BY <2>3
    <3>4. peer' \in Answers
      BY <2>3, <3>3
    <3> QED
      BY <2>1, <2>3, <3>1, <3>2, <3>3, <3>4
  <2>4. CASE peer' = [peer EXCEPT !.closed = TRUE]
    <3>1. peer' \in Answers
      BY <2>4
    <3>2. /\ peer'.head = peer.head /\ peer'.length = peer.length
          /\ peer'.until_close = peer.until_close /\ peer'.bytes = peer.bytes
      BY <2>4
    <3> QED
      BY <2>1, <3>1, <3>2
  <2> QED
    BY <1>2, <2>2, <2>3, <2>4 DEF PeerSends
<1>3. CASE UNCHANGED <<peer, received>>
  BY <1>3
<1> QED
  BY <1>1, <1>2, <1>3
  DEF Next, RunFuture, StartPoll, Send, Connected, ConnectFails, TakeHead, TakeBody, TimeOut,
      Suspend, Tick, ListenerAnswers

\* Every step keeps the types.
LEMMA TypeStep == ASSUME TypeInv, [Next]_vars PROVE TypeInv'
<1>1. CASE Next
  BY <1>1, FutureTypesStep, ClockTypesStep, MomentStep DEF TypeInv
<1>2. CASE UNCHANGED vars
  BY <1>2 DEF vars, TypeInv, FutureTypes, ClockTypes
<1> QED
  BY <1>1, <1>2

\* Phases, deadlines and the wire keep their types in every behaviour of an
\* exchange, and what was received is never ahead of what was sent.
THEOREM TypeCorrect == Spec => []TypeOK
<1>1. TypeInv => TypeOK
  BY TypeInvImplies
<1>2. Init => TypeInv
  BY TypeInit
<1>3. TypeInv /\ [Next]_vars => TypeInv'
  BY TypeStep
<1> QED
  BY <1>1, <1>2, <1>3, PTL DEF Spec

-----------------------------------------------------------------------------
(* The duration of an exchange.                                            *)

\* A waiting task has not seen the total deadline pass, or was woken no later
\* than that deadline and is polled within the lag.
BoundInv ==
    /\ ExchangeBounded
    /\ Active /\ ~polling =>
          IF woken = NotWoken THEN now < total ELSE woken <= total /\ now <= woken + Lag

\* Time passes a deadline only with a wake-up, and a wake-up limits how far
\* time goes on: every action keeps the bound.
LEMMA BoundStep == ASSUME TypeInv, BoundInv, [Next]_vars PROVE BoundInv'
<1> USE TimeoutsAssumption, LimitsAssumption
    DEF TypeInv, FutureTypes, ClockTypes, BoundInv, ExchangeBounded, Active, NotWoken
<1>1. CASE StartPoll
  BY <1>1 DEF StartPoll
<1>2. CASE Send
  <2>1. phase' # "idle" /\ total' = now + TotalTimeout /\ now' = now
    BY <1>2 DEF Send, Finish
  <2>2. phase' = "done" \/ polling'
    BY <1>2 DEF Send, Finish
  <2> QED
    BY <2>1, <2>2
<1>3. CASE Connected
  BY <1>3 DEF Connected
<1>4. CASE ConnectFails
  BY <1>4 DEF ConnectFails, Finish
<1>5. CASE PollConnection
  BY <1>5 DEF PollConnection
<1>6. CASE TakeHead
  <2>1. (phase' = "done" \/ (phase' = "body" /\ polling')) /\ total' = total /\ now' = now
    BY <1>6 DEF TakeHead, Finish
  <2>2. phase # "idle"
    BY <1>6 DEF TakeHead
  <2> QED
    BY <2>1, <2>2
<1>7. CASE TakeBody
  BY <1>7 DEF TakeBody, Finish
<1>8. CASE TimeOut
  BY <1>8 DEF TimeOut, Finish, Waiting
<1>9. CASE Suspend
  <2>1. woken' \in {now, NotWoken} /\ now < total /\ now' = now /\ total' = total
    BY <1>9 DEF Suspend, Elapsed
  <2>2. CASE woken' = now
    BY <2>1, <2>2
  <2>3. CASE woken' = NotWoken
    BY <2>1, <2>3
  <2> QED
    BY <2>1, <2>2, <2>3
<1>10. CASE Tick
  <2>1. CASE woken = NotWoken
    BY <1>10, <2>1 DEF Tick
  <2>2. CASE woken # NotWoken
    BY <1>10, <2>2 DEF Tick
  <2> QED
    BY <2>1, <2>2
<1>11. CASE ListenerAnswers
  BY <1>11 DEF ListenerAnswers, Wake
<1>12. CASE PeerSends
  <2>1. /\ Active /\ ~polling /\ phase' = phase /\ total' = total /\ now' = now
        /\ woken' = IF woken = NotWoken THEN now ELSE woken
    BY <1>12 DEF PeerSends, Wake
  <2> QED
    BY <2>1
<1>13. CASE UNCHANGED vars
  BY <1>13 DEF vars
<1> QED
  BY <1>1, <1>2, <1>3, <1>4, <1>5, <1>6, <1>7, <1>8, <1>9, <1>10, <1>11, <1>12, <1>13
  DEF Next, RunFuture

\* Whatever the timeouts, the peer and the executor's lag: send_get returns no
\* later than the lag after its total deadline.
THEOREM ExchangeIsBounded == Spec => []ExchangeBounded
<1>1. Init => TypeInv /\ BoundInv
  BY TypeInit DEF Init, BoundInv, ExchangeBounded, Active
<1>2. TypeInv /\ BoundInv /\ [Next]_vars => TypeInv' /\ BoundInv'
  BY TypeStep, BoundStep
<1>3. BoundInv => ExchangeBounded
  BY DEF BoundInv
<1> QED
  BY <1>1, <1>2, <1>3, PTL DEF Spec

-----------------------------------------------------------------------------
(* The cause of an outcome.                                                *)

\* Only a GET is sent, nobody is asked before it is, and a body is read only
\* behind a head that convert_headers accepted.
CauseInv ==
    /\ OutcomeExplained
    /\ Active => request = "get"
    /\ phase = "idle" => listener = "quiet"
    /\ phase = "body" => received.head \in {"good", "over_limits"}

\* An answer the connection moved completely is complete on the wire.
LEMMA CompleteMoment ==
    ASSUME TypeInv, received.head = "good", received.bytes <= MaxBodyBytes, Complete(received)
    PROVE  Acceptable(peer)
<1> USE DEF TypeInv, Moment, Answers, Unsent
<1>1. peer.head = "good" /\ peer.until_close = received.until_close /\ peer.length = received.length
  OBVIOUS
<1>2. CASE received.until_close
  <2>1. received = peer
    BY <1>2 DEF Complete
  <2> QED
    BY <2>1 DEF Complete, Acceptable
<1>3. CASE ~received.until_close
  <2>1. received.bytes = peer.length
    BY <1>1, <1>3 DEF Complete
  <2>2. peer.bytes = peer.length
    BY <2>1, LimitsAssumption
  <2> QED
    BY <1>1, <1>3, <2>1, <2>2 DEF Acceptable
<1> QED
  BY <1>2, <1>3

\* A body that is refused was spoiled by the peer.
LEMMA SpoiledBody ==
    ASSUME TypeInv, received.head \in {"good", "over_limits"}, BodyReady(received),
           BodyOutcome(received) # "ok"
    PROVE  \/ peer.head = "over_limits"
           \/ peer.bytes > MaxBodyBytes
           \/ peer.closed /\ ~peer.until_close /\ peer.bytes < peer.length
<1> USE LimitsAssumption DEF TypeInv, Moment, Answers, Unsent
<1>1. CASE received.head = "over_limits"
  BY <1>1
<1>2. CASE received.bytes > MaxBodyBytes
  BY <1>2
<1>3. CASE received.head = "good" /\ ~(received.bytes > MaxBodyBytes)
  <2>1. ~Complete(received)
    BY <1>3 DEF BodyOutcome
  <2>2. received.closed
    BY <1>3, <2>1 DEF BodyReady
  <2>3. received = peer
    BY <2>2
  <2>4. ~peer.until_close /\ peer.bytes # peer.length
    BY <2>1, <2>2, <2>3 DEF Complete
  <2> QED
    BY <2>2, <2>3, <2>4
<1> QED
  BY <1>1, <1>2, <1>3

\* Every action that ends the exchange leaves the cause of its outcome behind,
\* and none that follows takes it away.
LEMMA CauseStep == ASSUME TypeInv, CauseInv, [Next]_vars PROVE CauseInv'
<1> USE DEF TypeInv, FutureTypes, CauseInv, OutcomeExplained, Active
<1>1. CASE StartPoll
  BY <1>1 DEF StartPoll
<1>2. CASE Send
  <2>1. CASE request = "get"
    BY <1>2, <2>1 DEF Send, RequestOutcome
  <2>2. CASE request # "get"
    <3>1. /\ phase' = "done" /\ outcome' \in {"invalid_message", "read_only_rejected"}
          /\ request' = request /\ listener' = "quiet"
      BY <1>2, <2>2 DEF Send, Finish, RequestOutcome, RequestKinds
    <3> QED
      BY <2>2, <3>1
  <2> QED
    BY <2>1, <2>2
<1>3. CASE Connected
  BY <1>3 DEF Connected
<1>4. CASE ConnectFails
  BY <1>4 DEF ConnectFails, Finish
<1>5. CASE PollConnection
  <2>1. phase = "body" => received'.head = received.head
    BY <1>5, TypeStep DEF PollConnection, Moment, Unsent
  <2> QED
    BY <1>5, <2>1 DEF PollConnection
<1>6. CASE TakeHead
  <2>1. CASE received.head = Unsent
    <3>1. received.closed /\ received = peer
      BY <1>6, <2>1 DEF TakeHead, PhaseFutureReady, HeadReady, Moment
    <3>2. phase' = "done" /\ outcome' = "unavailable" /\ peer' = peer
      BY <1>6, <2>1 DEF TakeHead, HeadOutcome, Finish
    <3> QED
      BY <2>1, <3>1, <3>2
  <2>2. CASE received.head \in {"unparsable", "unconvertible"}
    <3>1. peer.head = received.head
      BY <2>2 DEF Moment, Unsent
    <3>2. phase' = "done" /\ outcome' = "invalid_message" /\ peer' = peer
      BY <1>6, <2>2 DEF TakeHead, HeadOutcome, Finish, Unsent
    <3> QED
      BY <2>2, <3>1, <3>2
  <2>3. CASE received.head \in {"good", "over_limits"}
    <3>1. phase' = "body" /\ outcome' = outcome /\ received' = received /\ request' = request
      BY <1>6, <2>3 DEF TakeHead, HeadOutcome, Unsent
    <3>2. phase = "headers" /\ outcome = "none"
      BY <1>6 DEF TakeHead
    <3> QED
      BY <2>3, <3>1, <3>2
  <2>4. received.head \in {Unsent, "unparsable", "unconvertible", "good", "over_limits"}
    BY DEF Moment, Answers, HeadKinds
  <2> QED
    BY <2>1, <2>2, <2>3, <2>4
<1>7. CASE TakeBody
  <2>0. /\ phase' = "done" /\ outcome' = BodyOutcome(received)
        /\ request = "get" /\ request' = request /\ peer' = peer
        /\ received.head \in {"good", "over_limits"} /\ BodyReady(received)
    BY <1>7 DEF TakeBody, Finish, PhaseFutureReady
  <2>1. CASE BodyOutcome(received) = "ok"
    <3>1. received.head = "good" /\ received.bytes <= MaxBodyBytes /\ Complete(received)
      BY <2>1 DEF BodyOutcome
    <3>2. Acceptable(peer)
      BY <3>1, CompleteMoment
    <3> QED
      BY <2>0, <2>1, <3>2 DEF Acceptable
  <2>2. CASE BodyOutcome(received) # "ok"
    <3>1. outcome' = "invalid_message"
      BY <2>0, <2>2 DEF BodyOutcome
    <3> QED
      BY <2>0, <2>2, <3>1, SpoiledBody
  <2> QED
    BY <2>1, <2>2
<1>8. CASE TimeOut
  BY <1>8 DEF TimeOut, Finish, Elapsed
<1>9. CASE Suspend
  BY <1>9 DEF Suspend
<1>10. CASE Tick
  BY <1>10 DEF Tick
<1>11. CASE ListenerAnswers
  BY <1>11 DEF ListenerAnswers
<1>12. CASE PeerSends
  BY <1>12 DEF PeerSends
<1>13. CASE UNCHANGED vars
  BY <1>13 DEF vars, Acceptable
<1> QED
  BY <1>1, <1>2, <1>3, <1>4, <1>5, <1>6, <1>7, <1>8, <1>9, <1>10, <1>11, <1>12, <1>13
  DEF Next, RunFuture

\* Every outcome of send_get has its cause: no response without a complete
\* answer within the limits, no invalid message without a refused request or
\* a spoiled answer, no unavailable peer without a refusal, an early close or
\* a deadline passed.
THEOREM OutcomesAreExplained == Spec => []OutcomeExplained
<1>1. Init => TypeInv /\ CauseInv
  BY TypeInit DEF Init, CauseInv, OutcomeExplained, Active
<1>2. TypeInv /\ CauseInv /\ [Next]_vars => TypeInv' /\ CauseInv'
  BY TypeStep, CauseStep
<1>3. CauseInv => OutcomeExplained
  BY DEF CauseInv
<1> QED
  BY <1>1, <1>2, <1>3, PTL DEF Spec

-----------------------------------------------------------------------------
(* The exchange implements a request and its reply.                        *)

\* A complete answer stays complete whatever else the peer sends.
LEMMA AnswerStaysComplete ==
    ASSUME TypeInv, PeerSends, Acceptable(peer) PROVE Acceptable(peer')
<1> USE DEF Acceptable, Unsent
<1>1. ~peer.closed /\ peer.head = "good"
  BY DEF PeerSends
<1>2. ~peer.until_close /\ peer.bytes = peer.length
  BY <1>1
<1>3. peer.length \in Int
  BY LimitsAssumption DEF TypeInv, Moment, Answers
<1>4. peer' = [peer EXCEPT !.closed = TRUE]
  BY <1>1, <1>2, <1>3 DEF PeerSends
<1> QED
  BY <1>1, <1>2, <1>4 DEF TypeInv, Moment, Answers

\* Every step of the exchange is a step of the promise or invisible to it.
LEMMA PromiseStep ==
    ASSUME TypeInv, CauseInv, CauseInv', [Next]_vars
    PROVE  [Promise!Next]_(Promise!vars)
<1> DEFINE status == IF phase = "idle" THEN "idle" ELSE IF phase = "done" THEN outcome ELSE "pending"
           answer == IF Acceptable(peer) THEN "complete" ELSE "incomplete"
<1>1. CASE Send
  <2>1. answer' = answer /\ status = "idle"
    BY <1>1 DEF Send, Acceptable
  <2>2. CASE RequestOutcome(request) # "none"
    <3>1. status' \in Promise!Errors
      BY <1>1, <2>2 DEF Send, Finish, RequestOutcome, Promise!Errors
    <3> QED
      BY <2>1, <3>1 DEF Promise!Next, Promise!Begin
  <2>3. CASE RequestOutcome(request) = "none"
    <3>1. status' = "pending"
      BY <1>1, <2>3 DEF Send
    <3> QED
      BY <2>1, <3>1 DEF Promise!Next, Promise!Begin
  <2> QED
    BY <2>2, <2>3
<1>2. CASE ConnectFails \/ TimeOut
  <2>1. answer' = answer /\ status = "pending" /\ status' = "unavailable"
    BY <1>2 DEF ConnectFails, TimeOut, Waiting, Finish, Acceptable
  <2> QED
    BY <2>1 DEF Promise!Next, Promise!Reply, Promise!Errors
<1>3. CASE TakeHead
  <2>1. answer' = answer /\ status = "pending"
    BY <1>3 DEF TakeHead, Acceptable
  <2>2. status' \in {"pending", "unavailable", "invalid_message"}
    BY <1>3 DEF TakeHead, Finish, HeadOutcome
  <2> QED
    BY <2>1, <2>2 DEF Promise!Next, Promise!Reply, Promise!Errors, Promise!vars
<1>4. CASE TakeBody
  <2>1. answer' = answer /\ status = "pending" /\ status' = outcome'
    BY <1>4 DEF TakeBody, Finish, Acceptable
  <2>2. outcome' \in {"ok", "invalid_message"}
    BY <1>4 DEF TakeBody, Finish, BodyOutcome
  <2>3. outcome' = "ok" => answer = "complete"
    BY <2>1 DEF CauseInv, OutcomeExplained
  <2> QED
    BY <2>1, <2>2, <2>3 DEF Promise!Next, Promise!Reply, Promise!Errors
<1>5. CASE PeerSends
  <2>1. status' = status /\ status = "pending"
    BY <1>5 DEF PeerSends
  <2>2. answer = "complete" => answer' = "complete"
    BY <1>5, AnswerStaysComplete
  <2> QED
    BY <2>1, <2>2 DEF Promise!Next, Promise!PeerCompletes, Promise!vars
<1>6. CASE UNCHANGED <<phase, outcome, peer>>
  BY <1>6 DEF Promise!vars, Acceptable
<1>7. CASE StartPoll \/ Connected \/ PollConnection \/ Suspend \/ Tick \/ ListenerAnswers
  <2>1. status' = status /\ peer' = peer
    BY <1>7 DEF StartPoll, Connected, PollConnection, Suspend, Tick, ListenerAnswers
  <2> QED
    BY <2>1 DEF Promise!vars, Acceptable
<1> QED
  BY <1>1, <1>2, <1>3, <1>4, <1>5, <1>6, <1>7 DEF Next, RunFuture, vars

\* The transport answers a request at most once, and with a response only
\* when the peer completed its answer: the safety part of Exchange, on which
\* acquisition relies.
THEOREM TransportKeepsPromise == Spec => Promise!Spec
<1>1. Init => TypeInv /\ CauseInv
  BY TypeInit DEF Init, CauseInv, OutcomeExplained, Active
<1>2. TypeInv /\ CauseInv /\ [Next]_vars => TypeInv' /\ CauseInv'
  BY TypeStep, CauseStep
<1>3. Init => Promise!Init
  BY DEF Init, Promise!Init, Acceptable, NoAnswer, Unsent
<1>4. TypeInv /\ CauseInv /\ CauseInv' /\ [Next]_vars => [Promise!Next]_(Promise!vars)
  BY PromiseStep
<1> QED
  BY <1>1, <1>2, <1>3, <1>4, PTL DEF Spec, Promise!Spec

-----------------------------------------------------------------------------
(* An answer in time.                                                      *)

\* The connection is driven only while an answer is read, and what it moves
\* in a poll is everything on the wire; a wake-up lies in the past.
DrivenInv ==
    /\ phase \in {"idle", "connect"} => ~driven
    /\ polling /\ driven => received = peer
    /\ woken # NotWoken => woken <= now

\* Once an acceptable answer is on the wire the task is woken until it is
\* polled, and a poll that has not found the answer moved by an earlier one
\* happens within the lag.
PromptInv ==
    /\ PromptAnswerAccepted
    /\ answered # NotWoken =>
          /\ Acceptable(peer) /\ phase \in {"headers", "body", "done"}
          /\ Active /\ ~polling => woken # NotWoken /\ (woken <= answered \/ Acceptable(received))
          /\ Active /\ polling /\ (driven \/ ~Acceptable(received)) => now <= answered + Lag

\* Polls begin undriven, and nothing is sent while one runs.
LEMMA DrivenStep == ASSUME TypeInv, DrivenInv, [Next]_vars PROVE DrivenInv'
<1> USE LimitsAssumption DEF TypeInv, FutureTypes, ClockTypes, DrivenInv, NotWoken
<1>1. CASE StartPoll
  BY <1>1 DEF StartPoll
<1>2. CASE Send
  <2>1. phase = "idle" /\ driven' = driven /\ woken' \in {woken, NotWoken} /\ now' = now
    BY <1>2 DEF Send, Finish
  <2> QED
    BY <2>1
<1>3. CASE Connected
  BY <1>3 DEF Connected
<1>4. CASE ConnectFails
  BY <1>4 DEF ConnectFails, Finish
<1>5. CASE PollConnection
  BY <1>5 DEF PollConnection
<1>6. CASE TakeHead
  <2>1. phase' \in {"body", "done"} /\ peer' = peer /\ received' = received /\ now' = now
    BY <1>6 DEF TakeHead, Finish
  <2>2. woken' \in {woken, NotWoken} /\ (~polling' \/ ~driven')
    BY <1>6 DEF TakeHead, Finish
  <2> QED
    BY <2>1, <2>2
<1>7. CASE TakeBody
  BY <1>7 DEF TakeBody, Finish
<1>8. CASE TimeOut
  BY <1>8 DEF TimeOut, Finish
<1>9. CASE Suspend
  <2>1. woken' \in {now, NotWoken} /\ ~polling'
    BY <1>9 DEF Suspend
  <2> QED
    BY <1>9, <2>1 DEF Suspend
<1>10. CASE Tick
  BY <1>10 DEF Tick
<1>11. CASE ListenerAnswers
  BY <1>11 DEF ListenerAnswers, Wake
<1>12. CASE PeerSends
  <2>1. /\ phase' = phase /\ driven' = driven /\ ~polling' /\ now' = now
        /\ woken' = IF woken = NotWoken THEN now ELSE woken
    BY <1>12 DEF PeerSends, Wake
  <2> QED
    BY <2>1
<1>13. CASE UNCHANGED vars
  BY <1>13 DEF vars
<1> QED
  BY <1>1, <1>2, <1>3, <1>4, <1>5, <1>6, <1>7, <1>8, <1>9, <1>10, <1>11, <1>12, <1>13
  DEF Next, RunFuture

\* A future that waits has not found its answer: an acceptable one that was
\* moved before is ready in every phase.
LEMMA AcceptableIsReady ==
    ASSUME NEW a, Acceptable(a) PROVE HeadReady(a) /\ BodyReady(a) /\ HeadOutcome(a) = "none"
BY DEF Acceptable, HeadReady, BodyReady, Complete, HeadOutcome, Unsent

\* The answer wakes the task, the wake-up is followed by a poll within the
\* lag, and only that poll may meet a deadline: the next one finds the answer.
LEMMA PromptStep ==
    ASSUME TypeInv, BoundInv, DrivenInv, PromptInv, [Next]_vars PROVE PromptInv'
<1> USE LimitsAssumption DEF PromptInv, PromptAnswerAccepted, Active, NotWoken
<1>t. /\ now \in Nat /\ due \in Nat /\ total \in Nat
      /\ woken \in Nat \cup {NotWoken} /\ answered \in Nat \cup {NotWoken}
      /\ polling \in BOOLEAN /\ driven \in BOOLEAN
      /\ (phase = "done" <=> outcome # "none")
  BY DEF TypeInv, FutureTypes, ClockTypes
<1>1. CASE StartPoll
  <2>1. now <= woken + Lag
    BY <1>1 DEF StartPoll, BoundInv
  <2> QED
    BY <1>1, <1>t, <2>1 DEF StartPoll, Acceptable
<1>2. CASE Send
  <2>1. phase = "idle" /\ answered' = answered
    BY <1>2 DEF Send
  <2> QED
    BY <2>1
<1>3. CASE Connected
  <2>1. phase = "connect" /\ answered' = answered
    BY <1>3 DEF Connected
  <2> QED
    BY <2>1
<1>4. CASE ConnectFails
  <2>1. phase = "connect" /\ answered' = answered
    BY <1>4 DEF ConnectFails
  <2> QED
    BY <2>1
<1>5. CASE PollConnection
  <2>1. Active /\ polling /\ ~Acceptable(received)
    BY <1>5, AcceptableIsReady DEF PollConnection
  <2> QED
    BY <1>5, <1>t, <2>1 DEF PollConnection, Acceptable
<1>6. CASE TakeHead
  <2>0. /\ phase = "headers" /\ polling /\ HeadReady(received)
        /\ peer' = peer /\ received' = received /\ answered' = answered /\ now' = now
        /\ total' = total
    BY <1>6 DEF TakeHead, PhaseFutureReady
  <2>1. CASE HeadOutcome(received) = "none"
    <3>1. phase' = "body" /\ ~driven' /\ polling' /\ outcome' = outcome /\ outcome = "none"
      BY <1>6, <1>t, <2>0, <2>1 DEF TakeHead
    <3> QED
      BY <2>0, <3>1, <1>t DEF Acceptable
  <2>2. CASE HeadOutcome(received) # "none"
    <3>1. phase' = "done" /\ outcome' = HeadOutcome(received)
      BY <1>6, <2>2 DEF TakeHead, Finish
    <3>2. ASSUME answered # NotWoken PROVE outcome' # "unavailable"
      <4>1. peer.head = "good"
        BY <3>2 DEF Acceptable
      <4>2. received.head # Unsent
        BY <2>0, <4>1 DEF HeadReady, TypeInv, Moment, Unsent
      <4> QED
        BY <3>1, <4>2 DEF HeadOutcome
    <3> QED
      BY <2>0, <3>1, <3>2 DEF Acceptable
  <2> QED
    BY <2>1, <2>2
<1>7. CASE TakeBody
  <2>1. phase' = "done" /\ outcome' # "unavailable" /\ peer' = peer /\ answered' = answered
    BY <1>7 DEF TakeBody, Finish, BodyOutcome
  <2> QED
    BY <2>1 DEF Acceptable
<1>8. CASE TimeOut
  <2>0. /\ phase' = "done" /\ peer' = peer /\ answered' = answered /\ polling
        /\ due' = due /\ total' = total /\ Waiting /\ (now >= due \/ now >= total)
    BY <1>8 DEF TimeOut, Finish, Elapsed
  <2>1. ASSUME answered # NotWoken PROVE now <= answered + Lag
    BY <2>0, <2>1, <1>t DEF Waiting
  <2>2. ASSUME answered # NotWoken PROVE answered + Lag >= due \/ answered + Lag >= total
    BY <2>0, <2>1, <2>2, <1>t
  <2> QED
    BY <2>0, <2>2 DEF Acceptable
<1>9. CASE Suspend
  <2>0. /\ phase' = phase /\ peer' = peer /\ received' = received /\ answered' = answered
        /\ polling /\ ~polling' /\ outcome' = outcome /\ due' = due /\ total' = total /\ Waiting
    BY <1>9 DEF Suspend
  <2>1. ASSUME answered # NotWoken, Active PROVE woken' # NotWoken /\ Acceptable(received)
    <3>1. phase \in {"headers", "body"} /\ driven
      BY <2>0, <2>1, <1>t DEF Waiting
    <3>2. received = peer
      BY <2>0, <3>1 DEF DrivenInv
    <3>3. HeadReady(received) /\ BodyReady(received)
      BY <2>1, <3>2, AcceptableIsReady
    <3>4. woken' = now
      BY <1>9, <3>1, <3>3 DEF Suspend
    <3> QED
      BY <2>1, <3>2, <3>4, <1>t
  <2> QED
    BY <2>0, <2>1 DEF Acceptable
<1>10. CASE Tick
  <2>1. /\ phase' = phase /\ peer' = peer /\ received' = received /\ answered' = answered
        /\ ~polling' /\ outcome' = outcome /\ due' = due /\ total' = total
        /\ (woken # NotWoken => woken' = woken) /\ ~polling
    BY <1>10 DEF Tick
  <2> QED
    BY <2>1 DEF Acceptable
<1>11. CASE ListenerAnswers
  <2>1. phase = "connect" /\ phase' = phase /\ answered' = answered /\ outcome' = outcome
    BY <1>11 DEF ListenerAnswers
  <2> QED
    BY <2>1
<1>12. CASE PeerSends
  <2>0. /\ phase \in {"headers", "body"} /\ phase' = phase /\ received' = received
        /\ ~polling /\ ~polling' /\ outcome' = outcome /\ due' = due /\ total' = total
        /\ now' = now /\ woken' = (IF woken = NotWoken THEN now ELSE woken)
        /\ answered' = (IF answered = NotWoken /\ Acceptable(peer') THEN now ELSE answered)
    BY <1>12 DEF PeerSends, Wake
  <2>1. outcome' # "unavailable" /\ woken' # NotWoken
    BY <2>0, <1>t
  <2>2. CASE answered # NotWoken
    <3>1. Acceptable(peer')
      BY <1>12, <2>2, AnswerStaysComplete
    <3>2. answered' = answered /\ woken' = woken /\ (woken <= answered \/ Acceptable(received))
      BY <2>0, <2>2
    <3> QED
      BY <2>0, <2>1, <3>1, <3>2 DEF Acceptable
  <2>3. CASE answered = NotWoken /\ Acceptable(peer')
    <3>1. woken' <= answered'
      BY <2>0, <2>3, <1>t DEF DrivenInv
    <3> QED
      BY <2>0, <2>1, <2>3, <3>1
  <2>4. CASE answered = NotWoken /\ ~Acceptable(peer')
    BY <2>0, <2>1, <2>4
  <2> QED
    BY <2>2, <2>3, <2>4
<1>13. CASE UNCHANGED vars
  BY <1>13 DEF vars, Acceptable
<1> QED
  BY <1>1, <1>2, <1>3, <1>4, <1>5, <1>6, <1>7, <1>8, <1>9, <1>10, <1>11, <1>12, <1>13
  DEF Next, RunFuture

\* Whatever the timeouts and the lag: an answer that was complete more than
\* the lag before the deadlines is never reported as an unavailable peer, also
\* when send_get needs two polls to take it and the peer closes in between.
THEOREM PromptAnswersAreAccepted == Spec => []PromptAnswerAccepted
<1> DEFINE Inv == TypeInv /\ BoundInv /\ DrivenInv /\ PromptInv
<1>1. Init => Inv
  BY TypeInit
  DEF Init, BoundInv, ExchangeBounded, DrivenInv, PromptInv, PromptAnswerAccepted, Active
<1>2. Inv /\ [Next]_vars => Inv'
  BY TypeStep, BoundStep, DrivenStep, PromptStep
<1>3. Inv => PromptAnswerAccepted
  BY DEF PromptInv
<1> QED
  BY <1>1, <1>2, <1>3, PTL DEF Spec
=============================================================================
