---------------------------- MODULE MCLostGroups ----------------------------
(* Two turns on a pool of one slot, two tasks that confirm lost groups. *)
EXTENDS LostGroups, TLC

CONSTANTS t1, t2, q1, q2

MCTurns == {t1, t2}
MCCallers == {q1, q2}
=============================================================================
