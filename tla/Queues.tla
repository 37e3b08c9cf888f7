---- MODULE Queues ----
(***************************************************************************)
(* Filtering a list, as the comprehensions [x for x in queue if ...] of    *)
(* the scheduler and the loop do, and sums of token counts: SelectSeq and  *)
(* a fold, in a form that the provers can unfold.                          *)
(***************************************************************************)
EXTENDS Integers, Sequences, FiniteSets

\* The members of q.
Entries(q) == {q[i] : i \in 1..Len(q)}

\* Places of a list: those that pass, the rank of one, the one of a rank.
PlacesOf(q, S) == {i \in 1..Len(q) : q[i] \in S}
Rank(I, i) == Cardinality({j \in I : j <= i})
Nth(I, k) == CHOOSE i \in I : Rank(I, i) = k

\* The entries of q that are in S, in their order.
Kept(q, S) ==
  [k \in 1..Cardinality(PlacesOf(q, S)) |-> q[Nth(PlacesOf(q, S), k)]]

\* The sum of the numbers c[i], i in I: the number of units that they count.
Total(c, I) == Cardinality(UNION {{i} \X (1..c[i]) : i \in I})
====
