---- MODULE RequestLife ----
(***************************************************************************)
(* What the service promises the client of one request, whichever way it   *)
(* is served: the request is refused, or it is served; a served request    *)
(* receives the tokens of its completion one after the other, from the     *)
(* first, with none missing, repeated or out of order; it ends once, with  *)
(* a reason or because the client left; and nothing follows the end.       *)
(*                                                                         *)
(* Gateway is shown to implement this specification.                       *)
(***************************************************************************)
EXTENDS Naturals, Sequences

CONSTANTS Requests,   \* request ids
          MaxTokens   \* the longest completion

VARIABLES life,       \* [Requests -> Lives]
          text,       \* [Requests -> Seq(Nat)], the tokens handed to the client
          outcome     \* [Requests -> Outcomes]

lifeVars == <<life, text, outcome>>

Lives == {"idle", "served", "over"}

\* "stop" is every regular finish_reason of a completion (stop, length).
Endings  == {"stop", "cancelled", "timeout", "error"}
Outcomes == Endings \cup {"none", "refused", "gone"}

InitLife ==
  /\ life = [r \in Requests |-> "idle"]
  /\ text = [r \in Requests |-> <<>>]
  /\ outcome = [r \in Requests |-> "none"]

Move(r, from, to, why) ==
  /\ life[r] = from
  /\ life' = [life EXCEPT ![r] = to]
  /\ outcome' = [outcome EXCEPT ![r] = why]

\* The text grows by any number of further tokens, possibly none.
Extend(r) ==
  \E n \in Len(text[r])..MaxTokens : text' = [text EXCEPT ![r] = [i \in 1..n |-> i]]

Refuse(r)  == Move(r, "idle", "over", "refused") /\ UNCHANGED text
Accept(r)  == Move(r, "idle", "served", "none") /\ UNCHANGED text
Deliver(r) == life[r] = "served" /\ Extend(r) /\ UNCHANGED <<life, outcome>>

\* The last frame may bring text along with the reason.
Conclude(r) == \E why \in Endings : Move(r, "served", "over", why) /\ Extend(r)
Abandon(r)  == Move(r, "served", "over", "gone") /\ UNCHANGED text

NextLife ==
  \E r \in Requests : Refuse(r) \/ Accept(r) \/ Deliver(r) \/ Conclude(r) \/ Abandon(r)

\* A served request does not stay served for ever.
SpecLife ==
  /\ InitLife /\ [][NextLife]_lifeVars
  /\ \A r \in Requests : WF_lifeVars(Conclude(r) \/ Abandon(r))
====
