---------------------------- MODULE MCScheduler ----------------------------
(* Instances of Scheduler for TLC.                                          *)
EXTENDS Scheduler, TLC

CONSTANTS r1, r2, r3

\* A prompt that shares a batch, one that nearly fills the budget, one over it.
ThreePrompts == (r1 :> 1) @@ (r2 :> 2) @@ (r3 :> 4)

\* Kept is the filter of the standard module, and Total the sum, on short lists.
ASSUME KeptIsFilter ==
  \A n \in 0..4 : \A q \in [1..n -> 1..3], S \in SUBSET (1..3) :
    Kept(q, S) = SelectSeq(q, LAMBDA x : x \in S)
ASSUME TotalIsSum ==
  \A a, b, c \in 0..3 : Total(<<a, b, c>>, 1..3) = a + b + c
=============================================================================
