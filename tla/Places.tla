------------------------------- MODULE Places -------------------------------
(***************************************************************************)
(* What a program keeps of a list, in the list's order: the list           *)
(* comprehensions with a condition of the setup programs.  An element is   *)
(* kept for the place it stands at, so that repeated elements stay         *)
(* repeated.                                                               *)
(***************************************************************************)
EXTENDS Naturals, Sequences, FiniteSets

\* The i-th smallest of some places.
Place(places, i) == CHOOSE k \in places : Cardinality({j \in places : j <= k}) = i

\* The elements of q at these places.
Among(q, places) == [i \in 1..Cardinality(places) |-> q[Place(places, i)]]

\* The elements of q that are in S.
Those(q, S) == Among(q, {i \in DOMAIN q : q[i] \in S})
=============================================================================
