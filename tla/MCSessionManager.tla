--------------------------- MODULE MCSessionManager ---------------------------
(* Instances of SessionManager for TLC.                                     *)
EXTENDS SessionManager, TLC

CONSTANTS s1, s2, s3, alice, bob

MCSids == {s1, s2, s3}
MCTwoSids == {s1, s2}
MCJIDs == {alice, bob}

Symmetry == Permutations(Sids) \cup Permutations(JIDs)

(* State constraint.  A third object leaves one suspended activation fewer, *)
(* and histories in which the third sid is used have one at a time: they    *)
(* are for a loop over two sessions of one peer beside one of the other.    *)
Shallow ==
  /\ Len(reg.obj) = MaxSessions => Len(calls) < MaxCalls
  /\ Len(calls) <= 1 \/ \E sid \in Sids : \A i \in 1..Len(reg.obj) : reg.obj[i].sid # sid
=============================================================================
