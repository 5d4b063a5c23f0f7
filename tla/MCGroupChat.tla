------------------------------ MODULE MCGroupChat ------------------------------
(* Instances of GroupChat for TLC.                                          *)
EXTENDS GroupChat

CONSTANTS r1, r2, ann

MCOneRoom == {r1}
MCRooms == {r1, r2}
MCOneOther == {ann}
=============================================================================
