-------------------------------- MODULE Lists --------------------------------
(***************************************************************************)
(* What the pages do with their lists: Array.filter and an ordered query,   *)
(* told without recursion, so that proofs can be made about them.           *)
(***************************************************************************)
EXTENDS Integers, FiniteSets, Sequences

(* The n-th smallest of a finite set of numbers *)
Nth(S, n) == CHOOSE i \in S : Cardinality({j \in S : j < i}) = n - 1

(* What stands at some places of a list, in its order *)
AtPlaces(list, places) == [n \in 1..Cardinality(places) |-> list[Nth(places, n)]]

(* A list without the elements of some ids *)
WithoutIds(list, ids) == AtPlaces(list, {n \in DOMAIN list : list[n].id \notin ids})

(* A set of numbers from the largest to the smallest *)
Descending(S) == [n \in 1..Cardinality(S) |-> Nth(S, Cardinality(S) + 1 - n)]
=============================================================================
