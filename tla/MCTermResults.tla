--------------------------- MODULE MCTermResults ---------------------------
(* TermResults on small instances: the values its constants take in runs. *)
EXTENDS TermResults, TLC

CONSTANTS t1, t2,   \* transactions, alike
          s1, s2,   \* Students, alike
          r1, r2,   \* Correction requests, alike
          a,        \* a label
          whole, short \* scales

(* Two scales, one of which has dropped the one label drafts here choose *)
(* from; the labels nobody chooses are left out.                          *)
LabelsOfEach == (whole :> {a}) @@ (short :> {})
WholeAlone == whole :> {a}

Alike == Permutations(Txns) \union Permutations(Students)
TransactionsAlike == Permutations(Txns) \union Permutations(Requests)

=============================================================================
