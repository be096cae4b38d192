------------------------------ MODULE Exchange ------------------------------
(***************************************************************************)
(* What a LibpodTransport promises of one request (src/src/transport.rs):  *)
(* it is answered once, by a response that the peer completed or by an     *)
(* error, and it is answered.  Acquisition relies on nothing else.         *)
(***************************************************************************)

VARIABLES
    status,   \* "idle", "pending", "ok", or the error
    answer    \* "incomplete" or "complete": the peer's side

vars == <<status, answer>>

Errors == {"unavailable", "invalid_message", "read_only_rejected"}

Init == status = "idle" /\ answer = "incomplete"

\* A request is sent, or refused without being sent.
Begin ==
    /\ status = "idle"
    /\ status' \in {"pending"} \cup Errors
    /\ UNCHANGED answer

PeerCompletes ==
    /\ status = "pending" /\ answer = "incomplete"
    /\ answer' = "complete"
    /\ UNCHANGED status

\* A response needs a complete answer; an error can come at any time.
Reply ==
    /\ status = "pending"
    /\ \/ status' = "ok" /\ answer = "complete"
       \/ status' \in Errors
    /\ UNCHANGED answer

Next == Begin \/ PeerCompletes \/ Reply

Spec == Init /\ [][Next]_vars

FairSpec == Spec /\ WF_vars(Begin \/ Reply)
=============================================================================
