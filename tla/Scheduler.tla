------------------------------ MODULE Scheduler ------------------------------
(***************************************************************************)
(* Continuous batching (engine/scheduler.py): the FIFO of admitted          *)
(* sequences, the running set, and the batch each step forms under a batch  *)
(* size and a token budget.  Pages are module RadixCache's; here a prefix   *)
(* hit is only the number of prompt tokens it saves.                        *)
(*                                                                         *)
(* A step is Step (form_batch and the merge into running), Forward, and     *)
(* one Result per member of the batch in batch order, or StepFails.  Cancel *)
(* stands for a timeout (between steps) and for a client's cancel, which    *)
(* may land while the forward runs; each of its calls is one action here    *)
(* (module EngineLoop splits them).                                         *)
(***************************************************************************)
EXTENDS Queues

CONSTANTS
  Reqs,               \* requests; each becomes at most one Sequence
  PromptLen,          \* len(input_ids) of each request
  MaxBatch,           \* max_batch_size
  MaxTokensPerBatch,  \* max_tokens_per_batch
  MaxWaiting,         \* max_waiting
  MaxPromptTokens,    \* max_prompt_tokens
  MaxTokens           \* GenParams.max_tokens, bound on the generated tokens

ASSUME SchedulerAssumption ==
  /\ IsFiniteSet(Reqs)
  /\ PromptLen \in [Reqs -> Nat \ {0}]
  /\ MaxBatch \in Nat \ {0}
  /\ MaxTokensPerBatch \in Nat \ {0}
  /\ MaxWaiting \in Nat
  /\ MaxPromptTokens \in Nat
  /\ MaxTokens \in Nat \ {0}

VARIABLES
  waiting,   \* Scheduler.waiting
  running,   \* Scheduler.running
  batch,     \* members of the step under way whose result is still to be applied
  ran,       \* run_batch returned: the results of batch are being applied
  phase,     \* life of the request; "finished" is Sequence.finished
  cancelled, \* requests whose Sequence.cancelled is set
  uncached,  \* len(input_ids) - cached_len
  out,       \* tokens sampled; output_ids is trimmed only when the sequence ends
  seqId      \* Sequence.seq_id; 0 before admission

schedVars == <<waiting, running, batch, ran, phase, cancelled, uncached, out, seqId>>

Live(r) == phase[r] # "finished"
Eligible(r) == Live(r) /\ r \notin cancelled
Without(q, gone) == Kept(q, Reqs \ gone)
Admissible(q) == Kept(q, {r \in Reqs : Eligible(r)})
KeptLive(q) == Kept(q, {r \in Reqs : Live(r)})

-----------------------------------------------------------------------------
(* BatchFormer.form_batch                                                    *)

(* The running part: each decode costs one token of the budget.              *)
DecodeLimit == IF MaxBatch < MaxTokensPerBatch THEN MaxBatch ELSE MaxTokensPerBatch
Decodes ==
  LET live == Admissible(running)
  IN  SubSeq(live, 1, IF Len(live) < DecodeLimit THEN Len(live) ELSE DecodeLimit)

(* A waiting sequence costs what is left of its prompt; an exact hit costs 1. *)
Cost(r) == IF uncached[r] > 0 THEN uncached[r] ELSE 1

(* Size and token budget after the first n entries of waiting.  The code     *)
(* clamps the budget at zero, which stops the loop as a negative one would.  *)
LiveAmong(n) == {i \in 1..n : Eligible(waiting[i])}
Size(n) == Len(Decodes) + Cardinality(LiveAmong(n))
Spent(n) == Total([i \in 1..Len(waiting) |-> Cost(waiting[i])], LiveAmong(n))
Budget(n) == MaxTokensPerBatch - Len(Decodes) - Spent(n)

\* Mutant: the budget never stops a prompt.
FitsAlways(n) == TRUE

\* Mutant: a prompt over the budget waits even when it would be alone.
FitsBudget(n) == Cost(waiting[n + 1]) <= Budget(n)

(* The while loop takes entry n+1: a finished one is dropped; a prompt over   *)
(* the budget is left for later unless it would be alone.                    *)
Fits(n) == Cost(waiting[n + 1]) <= Budget(n) \/ Size(n) = 0

\* Mutant: one member too many.
TakesOneMore(n) ==
  /\ n < Len(waiting)
  /\ Size(n) <= MaxBatch
  /\ ~Eligible(waiting[n + 1]) \/ Fits(n)

Takes(n) ==
  /\ n < Len(waiting)
  /\ Size(n) < MaxBatch
  /\ Budget(n) > 0
  /\ ~Eligible(waiting[n + 1]) \/ Fits(n)

Popped == CHOOSE n \in 0..Len(waiting) : (\A m \in 0..n - 1 : Takes(m)) /\ ~Takes(n)
Formed == Decodes \o Admissible(SubSeq(waiting, 1, Popped))

-----------------------------------------------------------------------------
InitSched ==
  /\ waiting = <<>> /\ running = <<>> /\ batch = <<>> /\ ran = FALSE
  /\ phase = [r \in Reqs |-> "new"]
  /\ cancelled = {}
  /\ uncached = [r \in Reqs |-> 0]
  /\ out = [r \in Reqs |-> 0]
  /\ seqId = [r \in Reqs |-> 0]

Admitted == {r \in Reqs : seqId[r] > 0}

\* Mutant: the queue takes one more than max_waiting.
RefusesLate(r) == Len(waiting) > MaxWaiting \/ PromptLen[r] > MaxPromptTokens

Refuses(r) == Len(waiting) >= MaxWaiting \/ PromptLen[r] > MaxPromptTokens

\* Mutant: a new request goes to the front.
AddInFront(r, hit) ==
  /\ ~Refuses(r)
  /\ waiting' = <<r>> \o waiting
  /\ seqId' = [seqId EXCEPT ![r] = Cardinality(Admitted) + 1]
  /\ uncached' = [uncached EXCEPT ![r] = PromptLen[r] - hit]
  /\ phase' = [phase EXCEPT ![r] = "live"]
  /\ UNCHANGED <<running, batch, ran, cancelled, out>>

(* add_request raises, or appends a new Sequence; hit is what match_prefix   *)
(* found.                                                                    *)
AddRequest(r, hit) ==
  /\ ~Refuses(r)
  /\ waiting' = Append(waiting, r)
  /\ seqId' = [seqId EXCEPT ![r] = Cardinality(Admitted) + 1]
  /\ uncached' = [uncached EXCEPT ![r] = PromptLen[r] - hit]
  /\ phase' = [phase EXCEPT ![r] = "live"]
  /\ UNCHANGED <<running, batch, ran, cancelled, out>>

(* Scheduler.step: form the batch, merge its new members into running.       *)
FormBatch ==
  /\ ran' = FALSE
  /\ waiting' = SubSeq(waiting, Popped + 1, Len(waiting))
  /\ \E formed \in {Formed} :
       /\ batch' = formed
       /\ running' = KeptLive(running \o Without(formed, Entries(running)))
  /\ UNCHANGED <<phase, cancelled, uncached, out, seqId>>

\* Mutant: a finished sequence stays in waiting.
FinishOnlyRunning(r) ==
  /\ phase' = [phase EXCEPT ![r] = "finished"]
  /\ running' = Without(running, {r})
  /\ UNCHANGED waiting

(* mark_finished: flag, leave running and waiting (pages: RadixCache).       *)
MarkFinished(r) ==
  /\ phase' = [phase EXCEPT ![r] = "finished"]
  /\ running' = Without(running, {r})
  /\ waiting' = Without(waiting, {r})

(* update_after_prefill, update_after_decode, _apply_stop_and_limits: the    *)
(* token may be EOS or complete a stop string, the last one must finish.     *)
ApplyToken(r) ==
  /\ uncached' = [uncached EXCEPT ![r] = 0]
  /\ out' = [out EXCEPT ![r] = @ + 1]
  /\ \/ MarkFinished(r)
     \/ out[r] + 1 < MaxTokens /\ UNCHANGED <<phase, running, waiting>>
  /\ UNCHANGED <<cancelled, seqId>>

-----------------------------------------------------------------------------
(* The scheduler on its own: one thread steps, requests come and are         *)
(* cancelled at any time.                                                    *)

Submit(r) ==
  /\ batch = <<>>
  /\ phase[r] = "new"
  /\ \/ \E hit \in 0..PromptLen[r] : AddRequest(r, hit)
     \/ /\ Refuses(r)
        /\ phase' = [phase EXCEPT ![r] = "rejected"]
        /\ UNCHANGED <<waiting, running, batch, ran, cancelled, uncached, out, seqId>>

Step == batch = <<>> /\ Formed # <<>> /\ FormBatch

(* run_batch returns one token per member.                                   *)
Forward ==
  /\ batch # <<>> /\ ~ran
  /\ ran' = TRUE
  /\ UNCHANGED <<waiting, running, batch, phase, cancelled, uncached, out, seqId>>

(* The loop over the results skips a member that was finished meanwhile.     *)
Result ==
  /\ batch # <<>> /\ ran
  /\ batch' = Tail(batch)
  /\ IF Live(Head(batch)) THEN ApplyToken(Head(batch))
     ELSE UNCHANGED <<waiting, running, phase, cancelled, uncached, out, seqId>>
  /\ UNCHANGED ran

(* run_batch raises: finish the whole batch.                                 *)
StepFails ==
  /\ batch # <<>> /\ ~ran
  /\ LET gone == Entries(batch)
     IN  /\ phase' = [r \in Reqs |-> IF r \in gone THEN "finished" ELSE phase[r]]
         /\ running' = Without(running, gone)
         /\ waiting' = Without(waiting, gone)
  /\ batch' = <<>>
  /\ UNCHANGED <<ran, cancelled, uncached, out, seqId>>

Cancel(r) ==
  /\ phase[r] = "live"
  /\ cancelled' = cancelled \cup {r}
  /\ MarkFinished(r)
  /\ UNCHANGED <<batch, ran, uncached, out, seqId>>

NextSched ==
  \/ \E r \in Reqs : Submit(r) \/ Cancel(r)
  \/ Step \/ Forward \/ Result \/ StepFails

(* _run takes a step whenever it can form a batch, a forward returns or      *)
(* raises, and its results are applied.                                      *)
SpecSched == /\ InitSched /\ [][NextSched]_schedVars
             /\ WF_schedVars(Step) /\ WF_schedVars(Forward \/ StepFails)
             /\ WF_schedVars(Result)

-----------------------------------------------------------------------------
(* Types; the waiting queue keeps to its bound.                              *)
SchedTypeOK ==
  /\ waiting \in Seq(Reqs) /\ Len(waiting) <= MaxWaiting
  /\ running \in Seq(Reqs)
  /\ batch \in Seq(Reqs)
  /\ ran \in BOOLEAN
  /\ phase \in [Reqs -> {"new", "live", "finished", "rejected"}]
  /\ cancelled \subseteq Reqs
  /\ uncached \in [Reqs -> Nat]
  /\ out \in [Reqs -> 0..MaxTokens]
  /\ seqId \in [Reqs -> Nat]

(* An admitted, unfinished sequence is in exactly one place of exactly one   *)
(* of the two queues, a finished one in none: it never costs budget twice    *)
(* and never holds a place after its end.                                    *)
Places(r) == Cardinality({i \in DOMAIN waiting : waiting[i] = r})
           + Cardinality({i \in DOMAIN running : running[i] = r})
EachOnce == \A r \in Reqs : Places(r) = IF phase[r] = "live" THEN 1 ELSE 0

(* Every running sequence decodes in the next step: prefill admission never  *)
(* lets running outgrow what one batch and one budget can hold.              *)
DecodeNeverStarved == batch = <<>> => Decodes = running

(* The tokens of a batch are within the budget, except for one prompt that   *)
(* is over it by itself and then runs alone.                                 *)
TokensOf(q) ==
  Total([i \in 1..Len(q) |-> IF q[i] \in Entries(running) THEN 1 ELSE Cost(q[i])], 1..Len(q))
BatchWithinLimits ==
  batch = <<>> => /\ Len(Formed) <= MaxBatch
                  /\ TokensOf(Formed) <= MaxTokensPerBatch \/ Len(Formed) = 1

(* form_batch keeps to both limits and leaves no running sequence out.       *)
BatchSound == BatchWithinLimits /\ DecodeNeverStarved

(* First come, first served: no sequence still waits behind a later one.     *)
NoOvertaking ==
  \A r, s \in Reqs : r \in Entries(waiting) /\ s \in Entries(running) => seqId[s] < seqId[r]

(* Every admitted sequence finishes, oversize prompts included.              *)
AllFinish == \A r \in Reqs : phase[r] = "live" ~> phase[r] = "finished"
=============================================================================
