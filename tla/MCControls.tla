----------------------------- MODULE MCControls -----------------------------
(***************************************************************************)
(* A wheel with two buttons, and a learned binding with controls switched  *)
(* on or off; other files come from saves that fail and from restarts.     *)
(* Three presses are a capture between two requests; one is enough after   *)
(* the restart.                                                            *)
(***************************************************************************)
EXTENDS Controls

RigButtons == {<<"wheel", 1>>, <<"wheel", 2>>}
FocusOn(devices) ==
    [enabled |-> TRUE,
     bindings |-> <<[action |-> "focus_me", devices |-> devices, number |-> 1]>>]
RigFiles ==
    {FocusOn({"wheel"}), [FocusOn({"wheel"}) EXCEPT !.enabled = FALSE]}
RigHolds == <<3, 1>>
=============================================================================
