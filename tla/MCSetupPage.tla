---- MODULE MCSetupPage ----
(* Instances of SetupPage for TLC. *)
EXTENDS SetupPage, TLC


(* The one service stays original, the other does not. *)
MCChoices == {{"bmx"}}
MCLocations == <<"/etc", "/tmp">>

JobSymmetry == Permutations(Jobs)
====
