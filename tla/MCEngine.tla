------------------------------ MODULE MCEngine ------------------------------
(* A weekend of two sessions, practice and then the race. *)
EXTENDS Engine, TLC

Weekend == 0 :> "practice" @@ 1 :> "race"
SomeFlags == {{}, {"checkered", "caution"}}
=============================================================================
