---------------------------- MODULE MCMigrations ----------------------------
(* Instances of Migrations for TLC.                                        *)
EXTENDS Migrations

(* The first release, the current one, and one whose 002 was edited.       *)
SomeBuilds == {[upto |-> 1, edited |-> 0], [upto |-> 4, edited |-> 0],
               [upto |-> 3, edited |-> 2]}

CurrentBuild == {[upto |-> 4, edited |-> 0]}
=============================================================================
