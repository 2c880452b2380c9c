------------------------------ MODULE MCClient ------------------------------
(* Small instances of Client for TLC.                                      *)
EXTENDS Client, TLC

CONSTANTS monday, tuesday, sam, present, absent

Alike == Permutations(Statuses)
=============================================================================
