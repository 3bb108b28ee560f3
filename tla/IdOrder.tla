------------------------------- MODULE IdOrder -------------------------------
(***************************************************************************)
(* The values of a function on finitely many natural numbers, in the order *)
(* of the numbers: what a loop over slots and a loop over a sorted dict    *)
(* put into a batch.  SumTo finds a place by what is in front of it.        *)
(***************************************************************************)
EXTENDS Integers, SequencesExt

\* The ids before id.
Before(ids, id) == {other \in ids : other < id}

\* The k-th id.
Place(ids, k) == CHOOSE id \in ids : Cardinality(Before(ids, id)) = k - 1

InOrder(f) == [k \in 1..Cardinality(DOMAIN f) |-> f[Place(DOMAIN f, k)]]

\* The entries of a sequence at some places: what a loop with a condition visits.
Chosen(s, places) == InOrder([n \in places |-> s[n]])

\* A sequence, of whatever it holds.
IsVector(s) == s \in Seq(ToSet(s))

\* The first n numbers, added up.
SumTo(f, n) == LET sum[i \in 0..n] == IF i = 0 THEN 0 ELSE sum[i - 1] + f[i] IN sum[n]
=============================================================================
