---------------------------- MODULE MCEngineLoop ----------------------------
(* Instances of EngineLoop for TLC.                                         *)
EXTENDS EngineLoop, TLC

CONSTANTS r1, r2, i1, i2

UnitPrompts == [r \in Reqs |-> 1]
\* Every request under its own id, as the control plane's UUIDs give.
OwnIds == (r1 :> i1) @@ (r2 :> i2)

ASSUME IdsAssumption == DistinctIds
=============================================================================
