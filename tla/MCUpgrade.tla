------------------------------ MODULE MCUpgrade ------------------------------
(***************************************************************************)
(* What an upgrade of the application does to its executable and to its    *)
(* database, each while the other has not begun.                           *)
(*                                                                         *)
(* Updates: two workers, and three versions of which one has a signature.  *)
(*                                                                         *)
(* Database: releases with two to five migrations of a database whose      *)
(* first two an application made before it used this package.              *)
(***************************************************************************)
EXTENDS Updates, Database, TLC

CONSTANTS w1, w2

Symmetry == Permutations(Workers)

Init == UpdatesInit /\ DatabaseInit

Next ==
  \/ UpdatesNext /\ DatabaseInit /\ app = 2 /\ schema = 0 /\ UNCHANGED databaseVars
  \/ DatabaseNext /\ UpdatesInit /\ UNCHANGED updatesVars

Spec == Init /\ [][Next]_<<updatesVars, databaseVars>>
=============================================================================
