------------------------------ MODULE CallProtocol ------------------------------
(***************************************************************************)
(* What two applications may rely on, whatever becomes of the requests in  *)
(* between: a call is offered once, answered at most once and only while   *)
(* offered, connected on both sides only after it was answered, and once   *)
(* over it stays over.                                                     *)
(***************************************************************************)
CONSTANT Sids
VARIABLE call    \* the state of every call

CallStates == {"none", "offered", "answered", "connected", "over"}

Init == call = [s \in Sids |-> "none"]

Move(s, from, to) == call[s] \in from /\ call' = [call EXCEPT ![s] = to]

Offer(s)   == Move(s, {"none"}, "offered")
Answer(s)  == Move(s, {"offered"}, "answered")
Connect(s) == Move(s, {"answered"}, "connected")
HangUp(s)  == Move(s, CallStates \ {"over"}, "over")

Next == \E s \in Sids : Offer(s) \/ Answer(s) \/ Connect(s) \/ HangUp(s)

Spec == Init /\ [][Next]_call
=============================================================================
