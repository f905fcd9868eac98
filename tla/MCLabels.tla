------------------------------ MODULE MCLabels ------------------------------
(* A race weekend in two sessions.  A text names everybody or the rival alone. *)
EXTENDS Labels

PracticeAndRace == <<"practice", "race">>
SomeKinds == {"session", "battle", "horizon", "own"}
SomeNamed == {Cars, Cars \ {Player}}
=============================================================================
