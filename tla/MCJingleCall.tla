------------------------------ MODULE MCJingleCall ------------------------------
(* Instances of JingleCall for TLC: alice draws s1, and bob s2.             *)
EXTENDS JingleCall, TLC

CONSTANTS s1, s2, alice, bob

MCSids == {s1, s2}
MCJIDs == {alice, bob}
MCAgain == {s1}
MCOwner == s1 :> alice @@ s2 :> bob

(* State constraint.  After a repeated offer the two queues stay short: no  *)
(* property says much of such a history any more.  Histories of careful     *)
(* applications, of which HangUpReaches speaks, are not cut.                *)
ShortQueues == repeated # {} => \A e \in Endpoints : Len(net[e]) <= 2
=============================================================================
