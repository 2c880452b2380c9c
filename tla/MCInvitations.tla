---------------------------- MODULE MCInvitations ---------------------------
(* Small instances of Invitations for TLC.                                 *)
EXTENDS Invitations, TLC

CONSTANTS amira, bruno, ann, bob, r1, r2, r3

TwoPersons == {amira, bruno}
TwoAccounts == {ann, bob}
TwoRequests == {r1, r2}
ThreeRequests == {r1, r2, r3}

Alike == Permutations(Persons) \union Permutations(Accounts) \union Permutations(Requests)
=============================================================================
