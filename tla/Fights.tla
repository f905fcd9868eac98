------------------------------- MODULE Fights -------------------------------
(***************************************************************************)
(* What a consumer of the battle events may rely on (docs/                 *)
(* publisher-event-contract.md, section 7): a fight has an id of its own,  *)
(* opens with one ENGAGED, may have CLOSING updates, ends with one BROKEN, *)
(* and a pair of cars has one fight at a time.                             *)
(***************************************************************************)
EXTENDS Integers

CONSTANTS Pairs

VARIABLES
    open,                \* the id of the fight each pair is in, or NoFight
    newest,              \* no id beyond this one has been used
    event                \* what is being said

vars == <<open, newest, event>>

NoFight == 0
Silence == [phase |-> "none"]
Say(phase, p, id) == [phase |-> phase, pair |-> p, id |-> id]

Init ==
    /\ open = [p \in Pairs |-> NoFight]
    /\ newest = 0
    /\ event = Silence

Engage(p) ==
    /\ open[p] = NoFight
    /\ newest' = newest + 1
    /\ open' = [open EXCEPT ![p] = newest']
    /\ event' = Say("ENGAGED", p, newest')

Close(p) ==
    /\ open[p] # NoFight
    /\ event' = Say("CLOSING", p, open[p])
    /\ UNCHANGED <<open, newest>>

Break(p) ==
    /\ open[p] # NoFight
    /\ open' = [open EXCEPT ![p] = NoFight]
    /\ event' = Say("BROKEN", p, open[p])
    /\ UNCHANGED newest

\* Nothing is said; an id may be used for a fight reported elsewhere.
Quiet ==
    /\ event' = Silence
    /\ newest' \in {newest, newest + 1}
    /\ UNCHANGED open

Next == Quiet \/ \E p \in Pairs : Engage(p) \/ Close(p) \/ Break(p)

FightsSpec == Init /\ [][Next]_vars
=============================================================================
