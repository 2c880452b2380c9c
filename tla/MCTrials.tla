------------------------------ MODULE MCTrials ------------------------------
(* Two browsers, two visitors and a cap of one or two Trial Schools.        *)
EXTENDS Trials, TLC

CONSTANTS b1, b2, v1, v2, g

TwoBrowsers == {b1, b2}
TwoVisitors == {v1, v2}
TwoRoles == {"school_administrator", "faculty"}

Interchangeable == Permutations(TwoBrowsers) \cup Permutations(TwoVisitors)
=============================================================================
