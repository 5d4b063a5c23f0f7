------------------------------ MODULE MCLuaValue ------------------------------
(* Instances of LuaValue for TLC.                                           *)
EXTENDS LuaValue, FiniteSets, TLC

CONSTANTS i1, i2, i3

MCIds == {i1, i2, i3}
Symmetry == Permutations(MCIds)

(* State constraints.  After an unsafe liberty no property but TypeOK       *)
(* promises anything, and after a misleading one only TypeOK and Kept do:   *)
(* the states that follow either are left to the theorems about these two.  *)
(* The stacks of a callback and of the host below it are kept small.        *)
Disciplined == taken \cap (Unsafe \cup Misleading) = {} /\ Cardinality(taken) <= 1
SmallCallbacks ==
  saved # <<>> => taken = {} /\ height + saved[1].height <= 6
FewEmpty ==
  /\ Cardinality({i \in DOMAIN items : Empty(items[i])}) <= 1
  /\ \A k \in 1..Len(saved) : \A i \in DOMAIN saved[k].items : ~Empty(saved[k].items[i])
=============================================================================
