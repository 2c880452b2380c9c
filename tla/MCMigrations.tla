---------------------------- MODULE MCMigrations ----------------------------
(* A process and one of a newer image, which both migrate; one that cannot; *)
(* and one whose second migration was edited after it was written.         *)
EXTENDS Migrations

CONSTANTS older, newer, bare, edited

Four == {older, newer, bare, edited}
Migrating == {older, newer, edited}
Images ==
  [p \in Four |->
     CASE p = newer -> <<"a", "b", "c">>
       [] p = edited -> <<"a", "x">>
       [] OTHER -> <<"a", "b">>]
=============================================================================
