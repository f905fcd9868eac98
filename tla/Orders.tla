------------------------------- MODULE Orders -------------------------------
(***************************************************************************)
(* Choosing elements without changing their order: what Iterator::find,    *)
(* Vec::retain, a drain with a condition and a sorted collection give.     *)
(***************************************************************************)
EXTENDS Integers, Sequences, FiniteSets

(* The one enumeration of a finite set of numbers from the least to the greatest, as *)
(* a set of one.                                                                     *)
InOrder(I) ==
    {f \in [1..Cardinality(I) -> I] : \A i, j \in DOMAIN f : i < j => f[i] < f[j]}

\* The element of s at the first of the positions I.
FirstAt(s, I) == s[CHOOSE i \in I : \A j \in I : i <= j]

\* The elements of s at the positions I, in the order of s: a set of one sequence.
Picked(s, I) == {[k \in DOMAIN f |-> s[f[k]]] : f \in InOrder(I)}
=============================================================================
