------------------------------ MODULE SseStream ------------------------------
(***************************************************************************)
(* What a streaming execution promises its client, without channels,       *)
(* goroutines or timers: the response of a request is opened once, carries *)
(* the chunks of the answer one after the other from the first, may end    *)
(* with one error event, and nothing is written once it is closed.         *)
(***************************************************************************)
EXTENDS SseEvents, Sequences

CONSTANT Requests

VARIABLES wire,     \* wire[r] : the events written to the response of r
          status    \* status[r] : "idle", "open" or "closed"

vars == <<wire, status>>

Init == /\ wire = [r \in Requests |-> <<>>]
        /\ status = [r \in Requests |-> "idle"]

Open(r) == /\ status[r] = "idle"
           /\ status' = [status EXCEPT ![r] = "open"]
           /\ UNCHANGED wire

Deliver(r) == /\ status[r] = "open"
              /\ wire' = [wire EXCEPT ![r] = Append(@, Msg(Len(@) + 1))]
              /\ UNCHANGED status

Fail(r) == /\ status[r] = "open"
           /\ wire' = [wire EXCEPT ![r] = Append(@, ErrorEvent)]
           /\ status' = [status EXCEPT ![r] = "closed"]

Close(r) == /\ status[r] = "open"
            /\ status' = [status EXCEPT ![r] = "closed"]
            /\ UNCHANGED wire

Next == \E r \in Requests : Open(r) \/ Deliver(r) \/ Fail(r) \/ Close(r)

Spec == Init /\ [][Next]_vars
==============================================================================
