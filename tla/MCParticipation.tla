-------------------------- MODULE MCParticipation ---------------------------
(* Small instances of Participation for TLC.                               *)
EXTENDS Participation, TLC

CONSTANTS sara, farid, gil, r1, r2, r3

OneStudent == {sara}
OneFaculty == {farid}
OneGuardian == {gil}
TwoRequests == {r1, r2}
ThreeRequests == {r1, r2, r3}

Alike == Permutations(Requests)

All == DOMAIN Statements
OfRosters == {"roster", "move", "depart", "term"}
OfMembers == {"grant", "narrow", "revoke"}
SpreadDates == {1, 4}
AllDates == {1, 2, 3}
SomeLasts == {4, 5}
EarlyEnds == {2}
LateEnds == {3, 4}
SomeStarts == {1}
SomeEnds == {2}
SomeProfiles == {{"resultsRead"}}
=============================================================================
