---- MODULE MCGateway ----
(* One request: requests share nothing here but the two processes. *)
EXTENDS Gateway

CONSTANT r1

MCRequests == {r1}
====
