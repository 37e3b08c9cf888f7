---- MODULE TPLockstep ----
(***************************************************************************)
(* The engine process under torchrun: every rank has its own EngineLoop,   *)
(* without a background thread, and all of them must run the same          *)
(* forwards in the same order, because a forward is a collective.  Rank 0  *)
(* owns the HTTP surface; its CUDA thread broadcasts a job, submits it to  *)
(* its own loop and pumps until idle, and the worker ranks do the same     *)
(* with what they receive.                                                 *)
(*                                                                         *)
(* A collective completes when every rank stands at it.  What a rank does  *)
(* between two collectives is its own.  Rank 0 can be told things the      *)
(* workers are not: a cancel, a drain; and every rank has its own clock.   *)
(* LiteEngine with start_loop=False is the case of one rank.               *)
(***************************************************************************)
EXTENDS DecodeBurst

CONSTANTS Workers,    \* ranks other than 0
          Jobs,       \* requests of clients
          Warm,       \* the warm-up job
          Vocab,      \* tokens the model may choose, Eos among them
          MaxTokens,  \* [Jobs -> max_tokens of a client's job]
          PromptLen,  \* tokens of a prompt
          Acts        \* which rank-local acts happen: "cancel", "drain", "expire"

ASSUME TPAssumption == /\ Warm \notin Jobs /\ 0 \notin Workers /\ Eos \in Vocab
                       /\ IsFiniteSet(Jobs)
                       /\ MaxTokens \in [Jobs -> Nat \ {0}]
                       /\ PromptLen \in Nat \ {0}

Ranks == Workers \cup {0}
AllJobs == Jobs \cup {Warm}

VARIABLES rk,      \* [Ranks -> what the rank's loop is doing]
          queue,   \* _TP_CUDA_Q
          holder,  \* [AllJobs -> what the HTTP side and the CUDA thread share]
          stream,  \* [AllJobs -> the frames of rank 0's delta queue, joined]
          local,   \* rank 0's _draining and _cancelled
          alone    \* a rank has acted on work the others still do, or left its loop (history)

tpVars == <<rk, queue, holder, stream, local, alone>>

----------------------------------------------------------------------------
Limit(j) == IF j = Warm THEN 1 ELSE MaxTokens[j]

\* st: the sequence's life in the rank's scheduler; left, toks, acc: the burst's
\* remaining steps, its unchecked tokens and the text of its frame.
Idle == [pc |-> "wait", job |-> Warm, st |-> "none", out |-> <<>>, cached |-> 0,
         prev |-> <<>>, left |-> 0, toks |-> <<>>, acc |-> <<>>]

InitTP ==
  /\ rk = [r \in Ranks |-> IF r = 0 THEN [Idle EXCEPT !.pc = "bcast"] ELSE Idle]
  /\ queue = <<>>
  /\ holder = [j \in AllJobs |-> [http |-> IF j = Warm THEN "queued" ELSE "none",
                                  done |-> FALSE]]
  /\ stream = [j \in AllJobs |-> [text |-> <<>>, fin |-> "none"]]
  /\ local = [draining |-> FALSE, cancelled |-> {}]
  /\ alone = FALSE

\* main sets READY when the warm-up has ended without an error, and serves until
\* the server stops.
Ready == /\ holder[Warm].http = "ended" /\ stream[Warm].fin # "error"
         /\ rk[0].pc # "down"

Live(r) == rk[r].st \in {"waiting", "running"}

\* _emit on rank r: only rank 0's queues have a reader, and a queue that has had
\* its last frame is gone.
Emit(r, j, text, fin) ==
  stream' = IF r # 0 \/ stream[j].fin # "none" THEN stream
            ELSE [stream EXCEPT ![j].text = @ \o text, ![j].fin = fin]

----------------------------------------------------------------------------
(* Rank 0's HTTP side *)

\* generate, _generate_tp: the checks, then the job goes to the CUDA thread.
Enqueue(j) ==
  /\ Ready /\ ~ local.draining /\ holder[j].http = "none"
  /\ queue' = Append(queue, j)
  /\ holder' = [holder EXCEPT ![j].http = "queued"]
  /\ UNCHANGED <<rk, stream, local, alone>>

\* ndjson_stream: the last frame, or an empty queue and a job that is over; the
\* finally clause waits for the job in both cases.
StreamEnds(j) ==
  /\ holder[j].http = "open" /\ holder[j].done
  /\ holder' = [holder EXCEPT ![j].http = "ended"]
  /\ UNCHANGED <<rk, queue, stream, local, alone>>

\* POST /v1/cancel, or the disconnect of the stream's client: LOOP.cancel on rank
\* 0 and nowhere else.
CancelLocal(j) ==
  /\ "cancel" \in Acts /\ holder[j].http \in {"queued", "open"}
  /\ LET hit == rk[0].job = j /\ Live(0)
     IN  /\ rk' = IF hit THEN [rk EXCEPT ![0].st = "over"] ELSE rk
         /\ IF holder[j].http = "open" THEN Emit(0, j, <<>>, "cancelled")
                                       ELSE UNCHANGED stream
         /\ local' = [local EXCEPT !.cancelled = @ \cup {j}]
         /\ alone' = (alone \/ hit)
  /\ UNCHANGED <<queue, holder>>

\* POST /v1/drain
BeginDrain ==
  /\ "drain" \in Acts /\ Ready /\ ~ local.draining
  /\ local' = [local EXCEPT !.draining = TRUE]
  /\ UNCHANGED <<rk, queue, holder, stream, alone>>

----------------------------------------------------------------------------
(* The CUDA thread of rank 0, the worker loop, and the broadcast *)

TakeJob ==
  /\ rk[0].pc = "wait" /\ queue # <<>>
  /\ rk' = [rk EXCEPT ![0] = [Idle EXCEPT !.pc = "bcast", !.job = Head(queue)]]
  /\ queue' = Tail(queue)
  /\ UNCHANGED <<holder, stream, local, alone>>

\* Mutant: rank 0 goes ahead and its job reaches nobody.
BroadcastToNobody ==
  /\ rk[0].pc = "bcast"
  /\ rk' = [rk EXCEPT ![0].pc = "submit"]
  /\ UNCHANGED <<queue, holder, stream, local, alone>>

\* broadcast_obj of a job: rank 0 sends, every worker is waiting for it.
Broadcast ==
  /\ rk[0].pc = "bcast"
  /\ \A r \in Workers : rk[r].pc = "wait"
  /\ rk' = [r \in Ranks |-> [Idle EXCEPT !.pc = "submit", !.job = rk[0].job]]
  /\ UNCHANGED <<queue, holder, stream, local, alone>>

\* broadcast_obj(None) after the server has stopped, which it does when no
\* request is open: the worker loops end.
Shutdown ==
  /\ Ready /\ rk[0].pc = "wait" /\ queue = <<>>
  /\ \A j \in AllJobs : holder[j].http \notin {"queued", "open"}
  /\ \A r \in Workers : rk[r].pc = "wait"
  /\ rk' = [r \in Ranks |-> [rk[r] EXCEPT !.pc = "down"]]
  /\ UNCHANGED <<queue, holder, stream, local, alone>>

\* _apply_generate_msg: EngineLoop.submit, which raises while rank 0 drains.
Submit(r) ==
  LET j == rk[r].job
      raises == r = 0 /\ local.draining
  IN  /\ rk[r].pc = "submit"
      /\ rk' = [rk EXCEPT ![r].pc = IF raises THEN "wait" ELSE "top",
                          ![r].st = IF raises THEN "none" ELSE "queued"]
      /\ holder' = IF r # 0 THEN holder
                   ELSE [holder EXCEPT ![j].http = IF raises THEN "ended" ELSE "open",
                                       ![j].done = raises]
      /\ alone' = (alone \/ (raises /\ Workers # {}))
      /\ UNCHANGED <<queue, stream, local>>

----------------------------------------------------------------------------
(* pump_until_idle on one rank *)

\* _admit_pending: a request cancelled while it was pending is dropped.
Admit(r) ==
  LET dropped == r = 0 /\ rk[r].job \in local.cancelled
  IN  /\ rk[r].pc = "top" /\ rk[r].st = "queued"
      /\ rk' = [rk EXCEPT ![r].st = IF dropped THEN "none" ELSE "waiting"]
      /\ local' = IF dropped THEN [local EXCEPT !.cancelled = @ \ {rk[r].job}] ELSE local
      /\ alone' = (alone \/ (dropped /\ Workers # {}))
      /\ UNCHANGED <<queue, holder, stream>>

\* Mutant: holder["done"] is set after the warm-up only.
PumpReturnsSilently(r) ==
  /\ rk[r].pc = "top" /\ rk[r].st \in {"none", "over"}
  /\ rk' = [rk EXCEPT ![r].pc = "wait"]
  /\ holder' = IF r = 0 THEN [holder EXCEPT ![Warm].done = TRUE] ELSE holder
  /\ UNCHANGED <<queue, stream, local, alone>>

\* Nothing waits or runs: the pump returns.
PumpReturns(r) ==
  /\ rk[r].pc = "top" /\ rk[r].st \in {"none", "over"}
  /\ rk' = [rk EXCEPT ![r].pc = "wait"]
  /\ holder' = IF r = 0 THEN [holder EXCEPT ![rk[r].job].done = TRUE] ELSE holder
  /\ UNCHANGED <<queue, stream, local, alone>>

\* The rank's clock passes the deadline while its forward was running:
\* _check_timeouts answers the request, ...
Expire(r) ==
  /\ "expire" \in Acts /\ rk[r].pc = "top" /\ rk[r].st = "running"
  /\ rk' = [rk EXCEPT ![r].st = "over"]
  /\ Emit(r, rk[r].job, <<>>, "timeout")
  /\ alone' = (alone \/ Workers # {})
  /\ UNCHANGED <<queue, holder, local>>

\* ... unless pump_until_idle looks at its own deadline first, which is the same
\* but for the time between submit and pump: TimeoutError.  A worker ends; rank
\* 0 keeps the sequence in its scheduler, and is not followed further.
PumpRaises(r) ==
  /\ "expire" \in Acts /\ rk[r].pc = "top" /\ rk[r].st = "running"
  /\ rk' = [rk EXCEPT ![r].pc = "down"]
  /\ holder' = IF r = 0 THEN [holder EXCEPT ![rk[r].job].done = TRUE] ELSE holder
  /\ alone' = TRUE
  /\ UNCHANGED <<queue, stream, local>>

\* scheduler.step forms the batch of one; run_batch enters the forward.
EnterForward(r) ==
  /\ rk[r].pc = "top" /\ Live(r)
  /\ rk' = [rk EXCEPT ![r].pc = "forward"]
  /\ UNCHANGED <<queue, holder, stream, local, alone>>

\* What rank r has after a forward that chose tok.  A prefill caches the prompt;
\* a decode appends its token and starts a burst when there is room for one; a
\* finished sequence (a local cancel) takes no token.
AfterRunBatch(s, tok) ==
  LET prefill == s.cached = 0
      more    == BurstExtra(Len(s.out), Limit(s.job))
      grown   == [s EXCEPT !.out = Append(@, tok), !.toks = <<tok>>,
                           !.cached = IF prefill THEN PromptLen ELSE @ + 1,
                           !.st = "running"]
  IN  IF s.st = "over" THEN [s EXCEPT !.pc = "top"]
      ELSE IF prefill \/ Burst = 1 THEN [grown EXCEPT !.pc = "apply"]
      ELSE [grown EXCEPT !.pc = IF more > 0 THEN "burst" ELSE "frame", !.left = more]

\* Mutant: cached_len is left to the end of the burst.
BurstStepKeepsCached(s, tok) ==
  [s EXCEPT !.out = Append(@, tok), !.toks = Append(@, tok), !.left = @ - 1,
            !.pc = IF tok = Eos \/ s.left = 1 THEN "frame" ELSE "burst"]

\* One step of the greedy burst: it looks at EOS and at nothing else.
AfterBurstStep(s, tok) ==
  [s EXCEPT !.out = Append(@, tok), !.toks = Append(@, tok), !.cached = @ + 1,
            !.left = @ - 1,
            !.pc = IF tok = Eos \/ s.left = 1 THEN "frame" ELSE "burst"]

AtForward(r) == rk[r].pc \in {"forward", "burst"}

\* The collective: all ranks are in a forward, and all sample the same token.
Forward ==
  /\ \A r \in Ranks : AtForward(r)
  /\ \E tok \in Vocab :
       rk' = [r \in Ranks |-> IF rk[r].pc = "forward" THEN AfterRunBatch(rk[r], tok)
                              ELSE AfterBurstStep(rk[r], tok)]
  /\ UNCHANGED <<queue, holder, stream, local, alone>>

\* An error that every rank meets in the same run_batch.
ForwardRaises ==
  /\ \A r \in Ranks : rk[r].pc = "forward"
  /\ rk' = [r \in Ranks |-> [rk[r] EXCEPT !.pc = "top", !.st = "over"]]
  /\ Emit(0, rk[0].job, <<>>, "error")
  /\ UNCHANGED <<queue, holder, local, alone>>

\* The same inside a burst: pump_once does not catch it, so that every worker ends
\* and rank 0 keeps the sequence, as after a timeout of the pump.
BurstRaises ==
  /\ \A r \in Ranks : rk[r].pc = "burst"
  /\ rk' = [r \in Ranks |-> [rk[r] EXCEPT !.pc = "down"]]
  /\ holder' = [holder EXCEPT ![rk[0].job].done = TRUE]
  /\ alone' = TRUE
  /\ UNCHANGED <<queue, stream, local>>

\* The end of pump_once: stop checks, frame, and the queues without what finished.
Settled(s, f) ==
  [s EXCEPT !.pc = "top", !.out = f.out, !.prev = f.prev, !.toks = <<>>, !.acc = <<>>,
            !.st = IF f.fin # "none" THEN "over" ELSE @]
Settle(r, f) ==
  /\ rk' = [rk EXCEPT ![r] = Settled(rk[r], f)]
  /\ Emit(r, rk[r].job, f.text, f.fin)
  /\ UNCHANGED <<queue, holder, local, alone>>

\* What the checks say of a token.
Checked(s, tok) ==
  ApplyStopAndLimits(s.out, tok, s.prev, Limit(s.job), s.st = "over")

\* The loop over the batch: one token.
ApplyOne(r) ==
  /\ rk[r].pc = "apply"
  /\ \E a \in {Checked(rk[r], Last(rk[r].toks))} : Settle(r, OneToken(a, rk[r].prev))

\* The burst branch: the tokens are checked one after the other until one of them
\* finishes the sequence; then the frame goes out.
ApplyBurst(r) ==
  /\ rk[r].pc = "frame"
  /\ \E a \in {Checked(rk[r], Head(rk[r].toks))} :
       LET f == BurstToken(a, rk[r].prev, rk[r].acc)
       IN  IF f.fin # "none" \/ Len(rk[r].toks) = 1 THEN Settle(r, f)
           ELSE /\ rk' = [rk EXCEPT ![r].toks = Tail(@), ![r].acc = f.text,
                                    ![r].prev = f.prev]
                /\ UNCHANGED <<queue, holder, stream, local, alone>>

----------------------------------------------------------------------------
RankStep(r) ==
  \/ Submit(r) \/ Admit(r) \/ PumpReturns(r) \/ EnterForward(r)
  \/ ApplyOne(r) \/ ApplyBurst(r)
Collective == Broadcast \/ Forward \/ ForwardRaises \/ BurstRaises

NextTP ==
  \/ \E j \in Jobs : Enqueue(j) \/ CancelLocal(j)
  \/ \E j \in AllJobs : StreamEnds(j)
  \/ BeginDrain \/ TakeJob \/ Shutdown \/ Collective
  \/ \E r \in Ranks : RankStep(r) \/ Expire(r) \/ PumpRaises(r)

\* Threads run, and a collective that every rank has entered completes.
SpecTP ==
  /\ InitTP /\ [][NextTP]_tpVars
  /\ WF_tpVars(Collective) /\ WF_tpVars(TakeJob)
  /\ \A j \in AllJobs : WF_tpVars(StreamEnds(j))
  /\ \A r \in Ranks : WF_tpVars(RankStep(r))

----------------------------------------------------------------------------
(* Properties *)

\* Every variable keeps its type.
TPTypeOK ==
  /\ \A r \in Ranks :
       /\ rk[r].pc \in {"wait", "bcast", "submit", "top", "forward", "burst",
                        "apply", "frame", "down"}
       /\ rk[r].job \in AllJobs /\ rk[r].left \in 0..(Burst - 1)
       /\ rk[r].st \in {"none", "queued", "waiting", "running", "over"}
       /\ rk[r].out \in Seq(Vocab) /\ rk[r].toks \in Seq(Vocab)
  /\ queue \in Seq(Jobs) /\ Len(queue) <= Cardinality(Jobs)
  /\ \A j \in AllJobs : /\ holder[j].http \in {"none", "queued", "open", "ended"}
                        /\ stream[j].fin \in {"none", "stop", "length", "cancelled",
                                              "timeout", "error"}

\* Ranks in lockstep.  As long as no rank has acted alone (rank 0 dropping work
\* the workers have, or a clock ending a request), no rank waits in a forward
\* while another stands outside it for good, and ranks inside a forward run it
\* for the same job at the same position with the same text behind them.  A
\* cancel of a finished job and a drain with no job queued are not acting alone.
Lockstep ==
  ~ alone =>
    \A r, q \in Ranks :
      AtForward(r) =>
        /\ rk[q].pc \notin {"wait", "bcast", "down"}
        /\ AtForward(q) => /\ rk[r].pc = rk[q].pc /\ rk[r].job = rk[q].job
                           /\ rk[r].cached = rk[q].cached /\ rk[r].out = rk[q].out

\* Through single steps and bursts the K/V cache holds the prompt and every output
\* token but the last, which is the next input; a burst that stops early or late
\* would leave the two apart.
KvInStep ==
  \A r \in Ranks :
    rk[r].st = "running" => rk[r].cached = PromptLen + Len(rk[r].out) - 1

\* max_tokens is never exceeded, not even inside a burst that is checked
\* afterwards, and the client's token count is that of its last frame.
LimitKept ==
  \A r \in Ranks : Len(rk[r].out) + rk[r].left <= Limit(rk[r].job)

\* K/V, output and max_tokens stay in step on every rank through bursts.  (The
\* tokens need not be those of single steps: pump_once runs the burst although its
\* first token may be EOS or complete a stop string.)
BurstsExact == KvInStep /\ LimitKept

\* Every job that was enqueued is over, and its stream closed, unless some rank
\* acted alone.
JobsEnd ==
  \A j \in Jobs : holder[j].http = "queued" ~> (holder[j].http = "ended" \/ alone)

\* What the client of a finished completion has received is the text of the
\* completion, once.
SentOnce ==
  \A j \in AllJobs :
    stream[j].fin \in {"stop", "length"} /\ rk[0].job = j /\ rk[0].st = "over"
      => stream[j].text = Text(rk[0].out)

====
