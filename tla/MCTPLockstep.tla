---- MODULE MCTPLockstep ----
(* Instances of TPLockstep: two ranks for lockstep, one rank for streamed text. *)
EXTENDS TPLockstep

CONSTANTS j1, j2, warm

NoStopString == <<>>
LongAndShort == [j \in {j1, j2} |-> IF j = j1 THEN 4 ELSE 1]
Four == [j \in {j1} |-> 4]
====
