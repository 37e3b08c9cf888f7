----------------------------- MODULE EngineLoop -----------------------------
(***************************************************************************)
(* The engine loop (engine/loop.py) with its two threads: the loop thread   *)
(* (EngineLoop._run) and the event loop of the HTTP process, on which every *)
(* handler of engine/process.py runs and calls submit, cancel, begin_drain  *)
(* and stop.  The two share the submit queue, the delta queues, the         *)
(* scheduler's queues and, in some places only, EngineLoop._lock.           *)
(*                                                                         *)
(* A thread's local state is a record with its program counter; an action   *)
(* is a stretch of code that holds no other thread's turn up.  Scheduling   *)
(* is module Scheduler's; pages are module RadixCache's; V4 is left out.    *)
(***************************************************************************)
EXTENDS Scheduler

CONSTANTS
  Ids,         \* request ids
  IdOf,        \* the id each request is submitted under
  QueueSize,   \* maxsize of a delta queue
  Cancels,     \* requests whose client may cancel or disconnect
  Expiring,    \* ids whose deadline may pass
  MayStop,     \* BOOLEAN: may stop() be called
  NoReq,       \* no request
  StopItem     \* the None that stop() puts on the submit queue

ASSUME LoopAssumption ==
  /\ IdOf \in [Reqs -> Ids]
  /\ QueueSize \in Nat \ {0}
  /\ Cancels \subseteq Reqs
  /\ Expiring \subseteq Ids
  /\ MayStop \in BOOLEAN
  /\ NoReq \notin Reqs /\ StopItem \notin Reqs

\* Every request has an id of its own, as the control plane's UUIDs give: the
\* condition under which a mark in _cancelled concerns one request only.
DistinctIds == \A r, q \in Reqs : IdOf[r] = IdOf[q] => r = q

VARIABLES
  submitQ,       \* _submit_q
  deltaQs,       \* _delta_qs: the request whose queue is registered for an id
  dq,            \* each request's delta queue: "token" frames, "final" ones (with a
                 \* finish_reason), and "blank" ones, whose finish_reason is ""
  cancelledIds,  \* _cancelled
  deadline,      \* _deadlines: "none", "armed" or "past"
  byReq,         \* Scheduler._by_request
  lock,          \* holder of _lock between two actions
  draining, stopping,
  eng,           \* loop thread: pc, the request or id at hand, the frame to emit
  http,          \* event loop thread
  client,        \* the stream of each request: "new", "reading", "closed", "gone"
  asked,         \* requests whose cancel() was called
  lost           \* <<"frame", r>>: a full delta queue lost a frame of r;
                 \* <<"place", r>>: cancel's new deque left r out of waiting

loopVars == <<submitQ, deltaQs, dq, cancelledIds, deadline, byReq, lock,
              draining, stopping, eng, http, client, asked, lost>>
allVars == <<schedVars, loopVars>>

\* Groups for UNCHANGED.
httpVars == <<draining, http, client, asked>>
queues == <<waiting, running, phase, cancelled, byReq>>
progress == <<uncached, out, seqId>>

Goto(pc) == eng' = [eng EXCEPT !.pc = pc]

\* Mutant: the last frame carries no finish_reason.
EmitNoReason(id, frame, final, pc) ==
  eng' = [eng EXCEPT !.pc = "emit", !.id = id, !.frame = "token", !.final = final, !.after = pc]

(* _emit(id, frame, final), then continue at pc.                             *)
EmitThen(id, frame, final, pc) ==
  eng' = [eng EXCEPT !.pc = "emit", !.id = id, !.frame = frame, !.final = final, !.after = pc]

(* Scheduler.mark_finished and Scheduler.cancel on the loop thread.          *)
Finish(r) == MarkFinished(r) /\ byReq' = [byReq EXCEPT ![IdOf[r]] = NoReq]
CancelById(id) ==
  IF byReq[id] = NoReq
  THEN UNCHANGED <<waiting, running, phase, cancelled, byReq>>
  ELSE Finish(byReq[id]) /\ cancelled' = cancelled \cup {byReq[id]}

InitLoop ==
  /\ InitSched
  /\ submitQ = <<>>
  /\ deltaQs = [i \in Ids |-> NoReq]
  /\ dq = [r \in Reqs |-> <<>>]
  /\ cancelledIds = {}
  /\ deadline = [i \in Ids |-> "none"]
  /\ byReq = [i \in Ids |-> NoReq]
  /\ lock = "free"
  /\ draining = FALSE /\ stopping = FALSE
  /\ eng = [pc |-> "top", req |-> NoReq, id |-> NoReq, frame |-> "token",
            final |-> FALSE, after |-> "top", expired |-> {}]
  /\ http = [pc |-> "idle", req |-> NoReq, had |-> FALSE, snap |-> <<>>]
  /\ client = [r \in Reqs |-> "new"]
  /\ asked = {} /\ lost = {}

-----------------------------------------------------------------------------
(* The loop thread                                                           *)

\* Mutant: the loop ends as soon as it is told to stop.
TopStopsAtOnce ==
  /\ eng.pc = "top"
  /\ Goto(IF stopping THEN "exited" ELSE "admit")
  /\ UNCHANGED <<schedVars, submitQ, deltaQs, dq, cancelledIds, deadline, byReq, lock,
                 stopping, lost, httpVars>>

(* while not _stopping or waiting or running.                                *)
Top ==
  /\ eng.pc = "top"
  /\ Goto(IF stopping /\ waiting = <<>> /\ running = <<>> THEN "exited" ELSE "admit")
  /\ UNCHANGED <<schedVars, submitQ, deltaQs, dq, cancelledIds, deadline, byReq, lock,
                 stopping, lost, httpVars>>

(* _admit_pending: the queue is empty, holds the stop item, a request that   *)
(* was cancelled while pending, or a request to admit.                       *)
Admit ==
  /\ eng.pc = "admit"
  /\ \/ /\ submitQ = <<>>
        /\ Goto("timeouts")
        /\ UNCHANGED <<submitQ, cancelledIds, stopping>>
     \/ /\ submitQ # <<>>
        /\ submitQ' = Tail(submitQ)
        /\ LET item == Head(submitQ)
           IN \/ /\ item = StopItem
                 /\ stopping' = TRUE
                 /\ Goto("timeouts")
                 /\ UNCHANGED cancelledIds
              \/ /\ item # StopItem /\ lock = "free"
                 /\ IdOf[item] \in cancelledIds
                 /\ cancelledIds' = cancelledIds \ {IdOf[item]}
                 /\ UNCHANGED <<eng, stopping>>
              \/ /\ item # StopItem /\ lock = "free"
                 /\ IdOf[item] \notin cancelledIds
                 /\ eng' = [eng EXCEPT !.pc = "add", !.req = item]
                 /\ UNCHANGED <<cancelledIds, stopping>>
  /\ UNCHANGED <<schedVars, deltaQs, dq, deadline, byReq, lock, lost, httpVars>>

(* add_request, after the lock was given up; a refusal is emitted as error.  *)
Add ==
  /\ eng.pc = "add"
  /\ \/ /\ \E hit \in 0..PromptLen[eng.req] : AddRequest(eng.req, hit)
        /\ byReq' = [byReq EXCEPT ![IdOf[eng.req]] = eng.req]
        /\ Goto("admit")
     \/ /\ Refuses(eng.req)
        /\ EmitThen(IdOf[eng.req], "final", TRUE, "admit")
        /\ phase' = [phase EXCEPT ![eng.req] = "rejected"]
        /\ UNCHANGED <<waiting, running, batch, ran, cancelled, byReq, progress>>
  /\ UNCHANGED <<submitQ, deltaQs, dq, cancelledIds, deadline, lock, stopping, lost,
                 httpVars>>

(* _check_timeouts: every id past its deadline, also one long finished.      *)
CollectExpired ==
  /\ eng.pc = "timeouts"
  /\ eng' = [eng EXCEPT !.pc = "expire", !.expired = {i \in Ids : deadline[i] = "past"}]
  /\ UNCHANGED <<schedVars, submitQ, deltaQs, dq, cancelledIds, deadline, byReq, lock,
                 stopping, lost, httpVars>>

CancelExpired ==
  /\ eng.pc = "expire"
  /\ \/ /\ eng.expired = {}
        /\ Goto("step")
        /\ UNCHANGED <<queues>>
     \/ \E id \in eng.expired :
          /\ CancelById(id)
          /\ eng' = [eng EXCEPT !.pc = "emit", !.id = id, !.frame = "final", !.final = TRUE,
                                !.after = "expire", !.expired = @ \ {id}]
  /\ UNCHANGED <<batch, ran, submitQ, deltaQs, dq, cancelledIds, deadline, lock, stopping,
                 lost, httpVars, progress>>

\* Mutant: an empty batch ends the loop whether it is stopping or not.
ScheduleStepEnds ==
  /\ eng.pc = "step"
  /\ FormBatch
  /\ Goto(IF Formed # <<>> THEN "forward" ELSE "exited")
  /\ UNCHANGED <<submitQ, deltaQs, dq, cancelledIds, deadline, byReq, lock, stopping,
                 lost, httpVars>>

(* Scheduler.step; an empty batch ends the loop when it is stopping.         *)
ScheduleStep ==
  /\ eng.pc = "step"
  /\ FormBatch
  /\ Goto(IF Formed # <<>> THEN "forward" ELSE IF stopping THEN "exited" ELSE "top")
  /\ UNCHANGED <<submitQ, deltaQs, dq, cancelledIds, deadline, byReq, lock, stopping, lost,
                 httpVars>>

(* run_batch returns or raises.                                              *)
RunBatch ==
  /\ eng.pc = "forward"
  /\ ran' = TRUE
  /\ \E pc \in {"results", "fail"} : Goto(pc)
  /\ UNCHANGED <<batch, submitQ, deltaQs, dq, cancelledIds, deadline, lock, stopping, lost,
                 httpVars, queues, progress>>

(* The error path finishes each member and emits its error frame.            *)
FailMember ==
  /\ eng.pc = "fail"
  /\ \/ /\ batch = <<>>
        /\ Goto("top")
        /\ UNCHANGED <<waiting, running, batch, phase, byReq>>
     \/ /\ batch # <<>>
        /\ Finish(Head(batch))
        /\ batch' = Tail(batch)
        /\ EmitThen(IdOf[Head(batch)], "final", TRUE, "fail")
  /\ UNCHANGED <<ran, cancelled, submitQ, deltaQs, dq, cancelledIds, deadline, lock, stopping,
                 lost, httpVars, progress>>

(* The loop over the results: skip a finished member; at the end drop the    *)
(* finished ones from running.                                               *)
NextResult ==
  /\ eng.pc = "results"
  /\ \/ /\ batch = <<>>
        /\ running' = KeptLive(running)
        /\ Goto("top")
        /\ UNCHANGED batch
     \/ /\ batch # <<>>
        /\ batch' = Tail(batch)
        /\ IF Live(Head(batch)) THEN eng' = [eng EXCEPT !.pc = "check", !.req = Head(batch)]
           ELSE UNCHANGED eng
        /\ UNCHANGED running
  /\ UNCHANGED <<waiting, ran, phase, cancelled, submitQ, deltaQs, dq, cancelledIds, deadline,
                 byReq, lock, stopping, lost, httpVars, progress>>

\* Mutant: the loop does not look at _cancelled after a forward.
CheckNothing ==
  /\ eng.pc = "check" /\ lock = "free"
  /\ Goto("apply")
  /\ UNCHANGED <<schedVars, submitQ, deltaQs, dq, cancelledIds, deadline, byReq, lock,
                 stopping, lost, httpVars>>

(* with _lock: if the id is in _cancelled, finish the sequence and emit the  *)
(* final frame, inside the lock; else give the lock up and go on.            *)
CheckCancelled ==
  /\ eng.pc = "check" /\ lock = "free"
  /\ \/ /\ IdOf[eng.req] \in cancelledIds
        /\ Finish(eng.req)
        /\ lock' = "loop"
        /\ EmitThen(IdOf[eng.req], "final", TRUE, "unlock")
     \/ /\ IdOf[eng.req] \notin cancelledIds
        /\ Goto("apply")
        /\ UNCHANGED <<waiting, running, phase, byReq, lock>>
  /\ UNCHANGED <<batch, ran, cancelled, submitQ, deltaQs, dq, cancelledIds, deadline,
                 stopping, lost, httpVars, progress>>

Unlock ==
  /\ eng.pc = "unlock"
  /\ lock' = "free"
  /\ Goto("results")
  /\ UNCHANGED <<schedVars, submitQ, deltaQs, dq, cancelledIds, deadline, byReq, stopping,
                 lost, httpVars>>

(* update_after_*, _apply_stop_and_limits, and the frame.  A sequence whose  *)
(* cancelled flag is set ends without mark_finished; the frame then carries  *)
(* its finish_reason, which is "" until cancel() has set it.                 *)
Apply ==
  /\ eng.pc = "apply"
  /\ LET r == eng.req
     IN \/ /\ r \in cancelled
           /\ uncached' = [uncached EXCEPT ![r] = 0]
           /\ out' = [out EXCEPT ![r] = @ + 1]
           /\ EmitThen(IdOf[r], IF Live(r) THEN "blank" ELSE "final", TRUE, "results")
           /\ UNCHANGED <<seqId, queues>>
        \/ /\ r \notin cancelled
           /\ ApplyToken(r)
           /\ byReq' = IF phase'[r] = "finished" THEN [byReq EXCEPT ![IdOf[r]] = NoReq] ELSE byReq
           /\ LET over == phase'[r] = "finished"
              IN  EmitThen(IdOf[r], IF over THEN "final" ELSE "token", over, "results")
  /\ UNCHANGED <<batch, ran, submitQ, deltaQs, dq, cancelledIds, deadline, lock, stopping,
                 lost, httpVars>>

(* _emit: no queue registered, room in the queue, or full for one second,    *)
(* which cancels the sequence and loses the frame.                           *)
EmitPut ==
  /\ eng.pc = "emit"
  /\ LET q == deltaQs[eng.id]
     IN \/ /\ q = NoReq
           /\ Goto(eng.after)
           /\ UNCHANGED <<dq, lost, queues>>
        \/ /\ q # NoReq /\ Len(dq[q]) < QueueSize
           /\ dq' = [dq EXCEPT ![q] = Append(@, eng.frame)]
           /\ Goto(IF eng.final THEN "pop" ELSE eng.after)
           /\ UNCHANGED <<lost, queues>>
        \/ /\ q # NoReq /\ Len(dq[q]) >= QueueSize
           /\ CancelById(eng.id)
           /\ lost' = lost \cup {<<"frame", q>>}
           /\ Goto(IF eng.final THEN "pop" ELSE eng.after)
           /\ UNCHANGED dq
  /\ UNCHANGED <<batch, ran, submitQ, deltaQs, cancelledIds, deadline, lock, stopping,
                 httpVars, progress>>

\* Mutant: the lock is not given back.
EmitPopKeepsLock ==
  /\ eng.pc = "pop" /\ lock = "free"
  /\ deltaQs' = [deltaQs EXCEPT ![eng.id] = NoReq]
  /\ lock' = "loop"
  /\ Goto(eng.after)
  /\ UNCHANGED <<schedVars, submitQ, dq, cancelledIds, deadline, byReq, stopping, lost,
                 httpVars>>

(* if final: with _lock: _delta_qs.pop(id).                                  *)
EmitPop ==
  /\ eng.pc = "pop" /\ lock = "free"
  /\ deltaQs' = [deltaQs EXCEPT ![eng.id] = NoReq]
  /\ Goto(eng.after)
  /\ UNCHANGED <<schedVars, submitQ, dq, cancelledIds, deadline, byReq, lock, stopping,
                 lost, httpVars>>

LoopThread ==
  \/ Top \/ Admit \/ Add \/ CollectExpired \/ CancelExpired \/ ScheduleStep \/ RunBatch
  \/ FailMember \/ NextResult \/ CheckCancelled \/ Unlock \/ Apply \/ EmitPut \/ EmitPop

-----------------------------------------------------------------------------
(* The event loop thread: one handler at a time, one client stream per       *)
(* request                                                                   *)

Idle == http.pc = "idle"
GotoHttp(pc) == http' = [http EXCEPT !.pc = pc]
loopOnly == <<eng, stopping, lost>>

(* submit: refused while draining, else registers under the lock ...  An id  *)
(* is used again only after its earlier stream has ended (client discipline). *)
SubmitRegister(r) ==
  /\ Idle /\ client[r] = "new"
  /\ \A q \in Reqs : IdOf[q] = IdOf[r] => client[q] # "reading"
  /\ \/ /\ draining
        /\ client' = [client EXCEPT ![r] = "closed"]
        /\ UNCHANGED <<deltaQs, deadline, http>>
     \/ /\ ~draining /\ lock = "free"
        /\ deltaQs' = [deltaQs EXCEPT ![IdOf[r]] = r]
        /\ deadline' = [deadline EXCEPT ![IdOf[r]] = "armed"]
        /\ http' = [http EXCEPT !.pc = "put", !.req = r]
        /\ client' = [client EXCEPT ![r] = "reading"]
  /\ UNCHANGED <<schedVars, submitQ, dq, cancelledIds, byReq, lock, draining, asked, loopOnly>>

(* ... then queues the request.                                              *)
SubmitPut ==
  /\ http.pc = "put"
  /\ submitQ' = Append(submitQ, http.req)
  /\ GotoHttp("idle")
  /\ UNCHANGED <<schedVars, deltaQs, dq, cancelledIds, deadline, byReq, lock, draining,
                 client, asked, loopOnly>>

(* cancel, from POST /v1/cancel (the stream may still be read, or over) or   *)
(* from the stream's own disconnect: mark the id under the lock.             *)
CancelMark(r) ==
  /\ Idle /\ lock = "free"
  /\ r \in Cancels \ asked
  /\ client[r] # "new"
  /\ asked' = asked \cup {r}
  /\ cancelledIds' = cancelledIds \cup {IdOf[r]}
  /\ http' = [http EXCEPT !.pc = "c_flag", !.req = r, !.had = deltaQs[IdOf[r]] # NoReq]
  /\ \/ UNCHANGED client
     \/ client[r] = "reading" /\ client' = [client EXCEPT ![r] = "gone"]
  /\ UNCHANGED <<schedVars, submitQ, deltaQs, dq, deadline, byReq, lock, draining, loopOnly>>

(* Scheduler.cancel finds the sequence, or not, and sets its cancelled flag. *)
CancelFlag ==
  /\ http.pc = "c_flag"
  /\ LET seq == byReq[IdOf[http.req]]
     IN \/ /\ seq = NoReq
           /\ GotoHttp(IF http.had THEN "c_emit" ELSE "idle")
           /\ UNCHANGED cancelled
        \/ /\ seq # NoReq
           /\ cancelled' = cancelled \cup {seq}
           /\ http' = [http EXCEPT !.pc = "c_finish", !.req = seq]
  /\ UNCHANGED <<waiting, running, batch, ran, phase, progress, submitQ, deltaQs, dq,
                 cancelledIds, deadline, byReq, lock, draining, client, asked, loopOnly>>

(* mark_finished: flags, running, and the new deque built from waiting ...   *)
CancelFinish ==
  /\ http.pc = "c_finish"
  /\ phase' = [phase EXCEPT ![http.req] = "finished"]
  /\ running' = Without(running, {http.req})
  /\ http' = [http EXCEPT !.pc = "c_assign", !.snap = Without(waiting, {http.req})]
  /\ UNCHANGED <<waiting, batch, ran, cancelled, progress, submitQ, deltaQs, dq,
                 cancelledIds, deadline, byReq, lock, draining, client, asked, loopOnly>>

(* ... which replaces waiting, whatever happened to it meanwhile: a request  *)
(* that was added since is nowhere any more.                                 *)
CancelAssign ==
  /\ http.pc = "c_assign"
  /\ waiting' = http.snap
  /\ lost' = lost \cup ({"place"} \X (Entries(waiting) \ Entries(http.snap)))
  /\ byReq' = [byReq EXCEPT ![IdOf[http.req]] = NoReq]
  /\ http' = [http EXCEPT !.pc = "c_emit", !.snap = <<>>]
  /\ UNCHANGED <<running, batch, ran, phase, cancelled, progress, submitQ, deltaQs, dq,
                 cancelledIds, deadline, lock, draining, client, asked, eng, stopping>>

\* Mutant: the queue's bound is not kept.
CancelEmitUnbounded ==
  /\ http.pc = "c_emit"
  /\ LET q == deltaQs[IdOf[http.req]]
     IN \/ q = NoReq /\ GotoHttp("idle") /\ UNCHANGED dq
        \/ q # NoReq /\ dq' = [dq EXCEPT ![q] = Append(@, "final")] /\ GotoHttp("c_pop")
  /\ UNCHANGED <<schedVars, submitQ, deltaQs, cancelledIds, deadline, byReq, lock, draining,
                 client, asked, loopOnly>>

(* _emit of the "cancelled" frame.  The full-queue branch calls              *)
(* Scheduler.cancel, which finds nothing left to cancel.                     *)
CancelEmit ==
  /\ http.pc = "c_emit"
  /\ LET q == deltaQs[IdOf[http.req]]
     IN \/ /\ q = NoReq
           /\ GotoHttp("idle")
           /\ UNCHANGED <<dq, lost>>
        \/ /\ q # NoReq
           /\ IF Len(dq[q]) < QueueSize
              THEN dq' = [dq EXCEPT ![q] = Append(@, "final")] /\ UNCHANGED lost
              ELSE lost' = lost \cup {<<"frame", q>>} /\ UNCHANGED dq
           /\ GotoHttp("c_pop")
  /\ UNCHANGED <<schedVars, submitQ, deltaQs, cancelledIds, deadline, byReq, lock, draining,
                 client, asked, eng, stopping>>

CancelPop ==
  /\ http.pc = "c_pop" /\ lock = "free"
  /\ deltaQs' = [deltaQs EXCEPT ![IdOf[http.req]] = NoReq]
  /\ GotoHttp("idle")
  /\ UNCHANGED <<schedVars, submitQ, dq, cancelledIds, deadline, byReq, lock, draining,
                 client, asked, loopOnly>>

(* ndjson_stream: the client's stream reads a frame; one whose finish_reason *)
(* is not None ends it.                                                      *)
(* The get runs on an executor thread, so also while a handler is under way. *)
Read(r) ==
  /\ client[r] = "reading" /\ dq[r] # <<>>
  /\ dq' = [dq EXCEPT ![r] = Tail(@)]
  /\ client' = IF Head(dq[r]) # "token" THEN [client EXCEPT ![r] = "closed"] ELSE client
  /\ UNCHANGED <<schedVars, submitQ, deltaQs, cancelledIds, deadline, byReq, lock, draining,
                 http, asked, loopOnly>>

(* begin_drain.                                                              *)
BeginDrain ==
  /\ Idle /\ ~draining
  /\ draining' = TRUE
  /\ UNCHANGED <<schedVars, submitQ, deltaQs, dq, cancelledIds, deadline, byReq, lock, http,
                 client, asked, loopOnly>>

(* stop: its flags are set before the None is queued; the drain argument is  *)
(* not used.                                                                 *)
Stop ==
  /\ MayStop /\ Idle /\ ~stopping
  /\ draining' = TRUE /\ stopping' = TRUE
  /\ submitQ' = Append(submitQ, StopItem)
  /\ UNCHANGED <<schedVars, deltaQs, dq, cancelledIds, deadline, byReq, lock, eng, lost,
                 http, client, asked>>

HttpThread ==
  \/ \E r \in Reqs : SubmitRegister(r) \/ CancelMark(r) \/ Read(r)
  \/ SubmitPut \/ CancelFlag \/ CancelFinish \/ CancelAssign \/ CancelEmit \/ CancelPop
  \/ BeginDrain \/ Stop

(* Time passes a request's deadline.                                         *)
Expire(i) ==
  /\ i \in Expiring /\ deadline[i] = "armed"
  /\ deadline' = [deadline EXCEPT ![i] = "past"]
  /\ UNCHANGED <<schedVars, submitQ, deltaQs, dq, cancelledIds, byReq, lock, draining,
                 http, client, asked, loopOnly>>

NextLoop == LoopThread \/ HttpThread \/ \E i \in Ids : Expire(i)

(* Both threads keep running, a client keeps reading its stream, and time    *)
(* passes.  No fairness on submitting, cancelling, draining or stopping.     *)
SpecLoop ==
  /\ InitLoop /\ [][NextLoop]_allVars
  /\ WF_allVars(LoopThread)
  /\ WF_allVars(SubmitPut \/ CancelFlag \/ CancelFinish \/ CancelAssign \/ CancelEmit \/ CancelPop)
  /\ \A r \in Reqs : WF_allVars(Read(r))
  /\ \A i \in Ids : WF_allVars(Expire(i))

-----------------------------------------------------------------------------
(* Types of the loop's state.                                                *)
LoopTypeOK ==
  /\ SchedTypeOK
  /\ submitQ \in Seq(Reqs \cup {StopItem})
  /\ deltaQs \in [Ids -> Reqs \cup {NoReq}]
  /\ \A r \in Reqs : dq[r] \in Seq({"token", "final", "blank"}) /\ Len(dq[r]) <= QueueSize
  /\ cancelledIds \subseteq Ids
  /\ deadline \in [Ids -> {"none", "armed", "past"}]
  /\ byReq \in [Ids -> Reqs \cup {NoReq}]
  /\ lock \in {"free", "loop"}
  /\ client \in [Reqs -> {"new", "reading", "closed", "gone"}]
  /\ asked \subseteq Cancels /\ lost \subseteq {"frame", "place"} \X Reqs

HasFinal(r) == \E i \in DOMAIN dq[r] : dq[r][i] # "token"

(* A client that still reads has a final frame coming, in its queue or in    *)
(* one the engine still knows, unless its queue was full when a frame came.  *)
(* _emit forgets a queue after its final frame, put or not: a final frame    *)
(* that finds the queue full for a second is dropped, and its client waits   *)
(* for its own timeout.  Two threads emit, and cancel can meet the request   *)
(* pending, on its way, waiting or in a batch; only that loss may be silent. *)
NoSilentLoss ==
  \A r \in Reqs :
    client[r] = "reading" =>
      HasFinal(r) \/ deltaQs[IdOf[r]] = r \/ <<"frame", r>> \in lost

(* The loop thread never waits for the lock it holds itself.                 *)
NoSelfLock == ~(eng.pc = "pop" /\ lock = "loop")

(* When the loop thread has exited nothing it admitted is left, and a client *)
(* without an answer is one whose request it never took off the submit queue *)
(* or whose own cancel() has yet to answer.  Two losses are excepted: a      *)
(* request the second thread's cancel left out of waiting, and a frame that  *)
(* found its queue full.                                                     *)
NeverTaken(r) == r \in Entries(submitQ) \/ (http.pc = "put" /\ http.req = r)
CancelAnswers(r) == http.pc \in {"c_flag", "c_finish", "c_assign", "c_emit"} /\ http.req = r
ExitDrained ==
  eng.pc = "exited" => \A r \in Reqs :
    <<"place", r>> \notin lost =>
      /\ phase[r] # "live" \/ CancelAnswers(r)
      /\ client[r] = "reading" => \/ HasFinal(r) \/ <<"frame", r>> \in lost
                                  \/ NeverTaken(r) \/ CancelAnswers(r)

(* Once cancel() has returned, the loop never begins to apply a token to the *)
(* request, whether the cancel met it pending, on its way from the submit    *)
(* queue into the scheduler, waiting, or inside a batch.                     *)
CancelReturned(r) == r \in asked /\ ~(http.pc # "idle" /\ http.req = r)
Applying(r) == eng.pc = "apply" /\ eng.req = r
CancelIsFinal ==
  [][\A r \in Reqs : CancelReturned(r) /\ ~Applying(r) => ~Applying(r)']_allVars

(* Every accepted request is answered with a final frame, unless the engine  *)
(* is told to stop first (ExitDrained says what is lost then) or a frame of  *)
(* the request finds its queue full.                                         *)
ClientAnswered ==
  \A r \in Reqs : client[r] = "reading" ~>
    client[r] # "reading" \/ stopping \/ <<"frame", r>> \in lost

(* After stop() the loop thread exits, so that the join can return.          *)
StopEnds == stopping ~> eng.pc = "exited"
=============================================================================
