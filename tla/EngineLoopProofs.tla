-------------------------- MODULE EngineLoopProofs --------------------------
(***************************************************************************)
(* Proofs about the scheduler and about the two threads of engine/loop.py    *)
(* that drive it, for any number of requests, any limits and queue sizes and *)
(* any interleaving.                                                         *)
(*                                                                           *)
(* Of Scheduler: types, one place per live sequence, first come first        *)
(* served, and batches within the size and token limits.  SchedInv is the    *)
(* inductive invariant; its heart is that seq_id grows along running         *)
(* followed by waiting, and that running never outgrows one batch, so that   *)
(* form_batch takes all of it.                                               *)
(*                                                                           *)
(* Of EngineLoop: four invariants, each resting on the ones before:          *)
(*   LoopInv    where a request is on its way through the loop, and what a   *)
(*              mark in _cancelled means;                                    *)
(*   StreamInv  what a delta queue holds, and who still owes it a frame;     *)
(*   TellInv    who answers the client of a cancelled request;               *)
(*   DrainInv   where a live sequence is, what each client waits for, and    *)
(*              what is left when the loop thread exits.                     *)
(* Requests have ids of their own (DistinctIds, of module EngineLoop).       *)
(***************************************************************************)
EXTENDS EngineLoop, QueueProofs

-----------------------------------------------------------------------------
(* The scheduler                                                             *)


\* The sequences that are admitted and not finished.
Alive == {r \in Reqs : phase[r] = "live"}

\* They are the entries of the two queues; both are in the order of seq_id,
\* and running is ahead of waiting.
Queued ==
  /\ Entries(waiting) \cup Entries(running) = Alive
  /\ Increasing(waiting, seqId)
  /\ Increasing(running, seqId)
  /\ \A s \in Entries(running), r \in Entries(waiting) : seqId[s] < seqId[r]

\* seq_id counts the admissions.
Numbered ==
  \A r \in Reqs : /\ seqId[r] <= Cardinality(Admitted)
                  /\ phase[r] \in {"new", "rejected"} => seqId[r] = 0

\* A batch holds admitted sequences; the cancelled ones are finished; a live
\* one has tokens left to sample, a new one has sampled none.
Lives ==
  /\ \A r \in Entries(batch) : phase[r] \in {"live", "finished"}
  /\ \A r \in cancelled : phase[r] = "finished"
  /\ \A r \in Reqs : /\ phase[r] = "live" => out[r] < MaxTokens
                     /\ phase[r] = "new" => out[r] = 0

SchedInv == SchedTypeOK /\ Queued /\ Numbered /\ Lives /\ Len(running) <= DecodeLimit

-----------------------------------------------------------------------------
(* form_batch                                                                *)

\* What the invariant says of the queues, in the form the proofs use.
LEMMA QueueFacts ==
  ASSUME SchedInv
  PROVE  /\ waiting \in Seq(Reqs) /\ running \in Seq(Reqs) /\ batch \in Seq(Reqs)
         /\ \A r \in Entries(waiting) \cup Entries(running) :
              r \in Reqs /\ phase[r] = "live" /\ Eligible(r) /\ Live(r)
         /\ Entries(waiting) \cap Entries(running) = {}
         /\ seqId \in [Reqs -> Nat]
<1>1. waiting \in Seq(Reqs) /\ running \in Seq(Reqs) /\ batch \in Seq(Reqs)
      /\ seqId \in [Reqs -> Nat]
  BY DEF SchedInv, SchedTypeOK
<1>2. ASSUME NEW r \in Entries(waiting) \cup Entries(running)
      PROVE  r \in Reqs /\ phase[r] = "live"
  BY DEF SchedInv, Queued, Alive
<1>3. ASSUME NEW r \in Entries(waiting) \cup Entries(running)
      PROVE  Eligible(r) /\ Live(r)
  BY <1>2 DEF SchedInv, Lives, Eligible, Live
<1>4. ASSUME NEW r \in Entries(waiting), r \in Entries(running) PROVE FALSE
  <2>1. seqId[r] < seqId[r]
    BY <1>4 DEF SchedInv, Queued
  <2>2. seqId[r] \in Nat
    BY <1>1, <1>2
  <2> QED BY <2>1, <2>2
<1> QED BY <1>1, <1>2, <1>3, <1>4

\* form_batch decodes all of running.
LEMMA DecodesAll ==
  ASSUME SchedInv
  PROVE  Decodes = running
<1>1. running \in Seq(Reqs) /\ Entries(running) \subseteq {r \in Reqs : Eligible(r)}
  BY QueueFacts
<1>2. Admissible(running) = running
  <2> DEFINE S == {r \in Reqs : Eligible(r)}
  <2>1. Kept(running, S) = running
    <3> HIDE DEF S
    <3>1. Entries(running) \subseteq S
      BY <1>1 DEF S
    <3> QED BY <1>1, <3>1, KeptAll
  <2> QED BY <2>1 DEF Admissible
<1>3. Len(running) <= DecodeLimit /\ DecodeLimit \in Nat
  BY SchedulerAssumption DEF SchedInv, DecodeLimit
<1>4. (IF Len(running) < DecodeLimit THEN Len(running) ELSE DecodeLimit) = Len(running)
  <2>1. Len(running) \in Nat
    BY <1>1
  <2> QED BY <1>3, <2>1
<1>5. SubSeq(running, 1, Len(running)) = running
  BY <1>1
<1> QED BY <1>2, <1>4, <1>5 DEF Decodes

\* The counts of the loop over waiting: every entry is live and costs a token
\* or more.
LEMMA LoopCounts ==
  ASSUME SchedInv
  PROVE  /\ \A n \in 0..Len(waiting) :
              /\ Size(n) = Len(running) + n
              /\ Spent(n) \in Nat /\ n <= Spent(n)
              /\ Budget(n) = MaxTokensPerBatch - Len(running) - Spent(n)
         /\ Spent(0) = 0
         /\ \A n \in 0..Len(waiting) - 1 :
              /\ Cost(waiting[n + 1]) \in Nat \ {0}
              /\ Spent(n + 1) = Spent(n) + Cost(waiting[n + 1])
              /\ Eligible(waiting[n + 1])
<1> DEFINE c == [i \in 1..Len(waiting) |-> Cost(waiting[i])]
           N == Len(waiting)
<1>1. /\ N \in Nat
      /\ \A i \in 1..N : waiting[i] \in Reqs /\ Eligible(waiting[i])
  BY QueueFacts DEF Entries
<1>2. \A i \in 1..N : Cost(waiting[i]) \in Nat \ {0}
  <2> TAKE i \in 1..N
  <2>1. uncached[waiting[i]] \in Nat
    BY <1>1 DEF SchedInv, SchedTypeOK
  <2> QED BY <2>1 DEF Cost
<1>3. \A i \in 1..N : c[i] = Cost(waiting[i]) /\ c[i] \in Nat \ {0} /\ c[i] \in Nat
  BY <1>2
<1>4. \A n \in 0..N : LiveAmong(n) = 1..n
  BY <1>1 DEF LiveAmong
<1>5. \A n \in 0..N : Cardinality(1..n) = n
  <2> TAKE n \in 0..N
  <2>1. n \in Int /\ 1 \in Int /\ n \in Nat
    OBVIOUS
  <2>2. Cardinality(1..n) = IF 1 > n THEN 0 ELSE n - 1 + 1
    BY <2>1, FS_Interval
  <2> QED BY <2>1, <2>2
<1>6. Decodes = running
  BY DecodesAll
<1>7. \A n \in 0..N : Spent(n) = Total(c, 1..n)
  BY <1>4 DEF Spent
<1> HIDE DEF c, N
<1>8. /\ Total(c, 1..0) = 0
      /\ \A n \in 0..N : Total(c, 1..n) \in Nat
      /\ \A n \in 0..N - 1 : Total(c, 1..n + 1) = Total(c, 1..n) + c[n + 1]
  BY <1>1, <1>3, TotalSum
<1>9. \A n \in 0..N : n <= Total(c, 1..n)
  BY <1>1, <1>3, TotalAtLeast
<1>10. ASSUME NEW n \in 0..N
       PROVE  /\ Size(n) = Len(running) + n
              /\ Spent(n) \in Nat /\ n <= Spent(n)
              /\ Budget(n) = MaxTokensPerBatch - Len(running) - Spent(n)
  <2>1. Size(n) = Len(running) + n
    BY <1>4, <1>5, <1>6 DEF Size
  <2>2. Spent(n) \in Nat /\ n <= Spent(n)
    BY <1>7, <1>8, <1>9
  <2>3. Budget(n) = MaxTokensPerBatch - Len(running) - Spent(n)
    BY <1>6 DEF Budget
  <2> QED BY <2>1, <2>2, <2>3
<1>11. Spent(0) = 0
  BY <1>1, <1>7, <1>8
<1>12. ASSUME NEW n \in 0..N - 1
       PROVE  /\ Cost(waiting[n + 1]) \in Nat \ {0}
              /\ Spent(n + 1) = Spent(n) + Cost(waiting[n + 1])
              /\ Eligible(waiting[n + 1])
  <2>1. n \in 0..N /\ n + 1 \in 0..N /\ n + 1 \in 1..N
    BY <1>1
  <2>2. Spent(n + 1) = Spent(n) + Cost(waiting[n + 1])
    BY <1>3, <1>7, <1>8, <2>1
  <2> QED BY <1>1, <1>2, <2>1, <2>2
<1> QED BY <1>10, <1>11, <1>12 DEF N

\* The while loop stops: Popped is where it does.
LEMMA PoppedFirst ==
  ASSUME Len(waiting) \in Nat
  PROVE  /\ Popped \in 0..Len(waiting)
         /\ \A m \in 0..Popped - 1 : Takes(m)
         /\ ~ Takes(Popped)
<1> DEFINE T == {n \in 0..Len(waiting) : ~ Takes(n)}
<1>1. Len(waiting) \in T
  BY DEF Takes
<1>2. T \subseteq Nat /\ T # {}
  BY <1>1
<1>3. PICK x \in T : \A y \in T : x <= y
  <2> HIDE DEF T
  <2> QED BY <1>2, LeastNat
<1>4. ASSUME NEW m \in 0..x - 1 PROVE Takes(m)
  <2>1. m \in 0..Len(waiting) /\ ~ (x <= m)
    BY <1>3
  <2> QED BY <1>3, <2>1
<1>5. \E n \in 0..Len(waiting) : (\A m \in 0..n - 1 : Takes(m)) /\ ~ Takes(n)
  BY <1>3, <1>4
<1> QED BY <1>5 DEF Popped

\* Up to where it stops, the loop keeps to the size limit, and to the token
\* limit unless it took one prompt alone.
LEMMA LoopBounds ==
  ASSUME SchedInv
  PROVE  /\ Popped \in 0..Len(waiting)
         /\ Len(running) + Popped <= MaxBatch
         /\ \/ Len(running) + Spent(Popped) <= MaxTokensPerBatch
            \/ Len(running) + Popped = 1
<1> DEFINE d == Len(running)
           N == Len(waiting)
           S == {n \in Nat : n <= Popped => /\ d + n <= MaxBatch
                                            /\ d + Spent(n) <= MaxTokensPerBatch \/ d + n = 1}
<1>1. d \in Nat /\ N \in Nat
  BY QueueFacts
<1>2. Popped \in 0..N /\ \A m \in 0..Popped - 1 : Takes(m)
  BY <1>1, PoppedFirst
<1>3. d <= MaxBatch /\ d <= MaxTokensPerBatch /\ MaxBatch \in Nat /\ MaxTokensPerBatch \in Nat
  BY <1>1, SchedulerAssumption DEF SchedInv, DecodeLimit
<1>4. 0 \in S
  <2>1. Spent(0) = 0
    BY LoopCounts
  <2> QED BY <1>1, <1>3, <2>1
<1>5. ASSUME NEW n \in Nat, n \in S PROVE n + 1 \in S
  <2> SUFFICES ASSUME n + 1 <= Popped
               PROVE  /\ d + (n + 1) <= MaxBatch
                      /\ d + Spent(n + 1) <= MaxTokensPerBatch \/ d + (n + 1) = 1
    OBVIOUS
  <2> HIDE DEF S
  <2>1. n \in 0..Popped - 1 /\ n \in 0..N /\ n \in 0..N - 1
    BY <1>1, <1>2
  <2>2. /\ Size(n) = d + n
        /\ Spent(n) \in Nat
        /\ Budget(n) = MaxTokensPerBatch - d - Spent(n)
    BY <2>1, LoopCounts
  <2>3. /\ Cost(waiting[n + 1]) \in Nat
        /\ Spent(n + 1) = Spent(n) + Cost(waiting[n + 1])
        /\ Eligible(waiting[n + 1])
    BY <2>1, LoopCounts
  <2>4. Size(n) < MaxBatch /\ (Cost(waiting[n + 1]) <= Budget(n) \/ Size(n) = 0)
    BY <1>2, <2>1, <2>3 DEF Takes, Fits
  <2> HIDE DEF d
  <2> QED BY <1>1, <1>3, <2>2, <2>3, <2>4
<1>6. Nat \subseteq S
  <2> HIDE DEF S
  <2> QED BY <1>4, <1>5, Induct
<1>7. Popped \in S /\ Popped <= Popped
  BY <1>1, <1>2, <1>6
<1> QED BY <1>2, <1>7

\* The batch is running followed by the entries popped from waiting.
LEMMA FormedIs ==
  ASSUME SchedInv
  PROVE  Formed = running \o SubSeq(waiting, 1, Popped)
<1> DEFINE taken == SubSeq(waiting, 1, Popped)
           S == {r \in Reqs : Eligible(r)}
<1>1. waiting \in Seq(Reqs) /\ Popped \in 0..Len(waiting)
  BY QueueFacts, LoopBounds
<1>2. taken \in Seq(Reqs) /\ Entries(taken) = {waiting[i] : i \in 1..Popped}
  BY <1>1, SplitFacts
<1>3. Entries(taken) \subseteq Entries(waiting)
  <2> HIDE DEF taken
  <2>1. 1..Popped \subseteq 1..Len(waiting)
    BY <1>1
  <2> QED BY <1>2, <2>1 DEF Entries
<1>4. Entries(taken) \subseteq S
  <2> HIDE DEF taken
  <2> QED BY <1>3, QueueFacts
<1>5. Kept(taken, S) = taken
  <2> HIDE DEF taken, S
  <2> QED BY <1>2, <1>4, KeptAll
<1> QED BY <1>5, DecodesAll DEF Formed, Admissible

\* Its size and its tokens.
LEMMA FormedBounds ==
  ASSUME SchedInv
  PROVE  /\ Len(Formed) = Len(running) + Popped
         /\ TokensOf(Formed) = Len(running) + Spent(Popped)
<1> DEFINE taken == SubSeq(waiting, 1, Popped)
           F == running \o taken
           d == Len(running)
           c == [i \in 1..Len(F) |-> IF F[i] \in Entries(running) THEN 1 ELSE Cost(F[i])]
           e == [i \in 1..Len(waiting) |-> Cost(waiting[i])]
<1>1. /\ waiting \in Seq(Reqs) /\ running \in Seq(Reqs)
      /\ Popped \in 0..Len(waiting) /\ Popped \in Nat /\ d \in Nat /\ Len(waiting) \in Nat
  BY QueueFacts, LoopBounds
<1>2. /\ taken \in Seq(Reqs) /\ Len(taken) = Popped
      /\ \A i \in 1..Popped : taken[i] = waiting[i]
  BY <1>1, SplitFacts
<1> HIDE DEF taken
<1>3. /\ Len(F) = d + Popped
      /\ \A i \in 1..d : F[i] = running[i]
      /\ \A i \in d + 1..d + Popped : i - d \in 1..Popped /\ F[i] = taken[i - d]
  <2>1. /\ Len(F) = Len(running) + Len(taken)
        /\ \A i \in 1..Len(running) : F[i] = running[i]
        /\ \A i \in Len(running) + 1..Len(running) + Len(taken) :
             i - Len(running) \in 1..Len(taken) /\ F[i] = taken[i - Len(running)]
    <3>1. Len(F) = Len(running) + Len(taken) /\ Len(taken) \in Nat
      BY <1>1, <1>2
    <3>2. \A i \in 1..Len(running) : F[i] = running[i]
      BY <1>1, <1>2
    <3>3. ASSUME NEW i \in Len(running) + 1..Len(running) + Len(taken)
          PROVE  i - Len(running) \in 1..Len(taken) /\ F[i] = taken[i - Len(running)]
      <4>1. i - Len(running) \in 1..Len(taken)
        BY <1>1, <3>1
      <4> QED BY <1>1, <1>2, <4>1
    <3> QED BY <3>1, <3>2, <3>3
  <2> HIDE DEF F
  <2> QED BY <1>2, <2>1
<1>4. \A i \in 1..d : c[i] = 1
  <2> HIDE DEF F
  <2> TAKE i \in 1..d
  <2>1. i \in 1..Len(F)
    BY <1>1, <1>3
  <2>2. F[i] \in Entries(running)
    BY <1>3 DEF Entries
  <2> QED BY <2>1, <2>2
<1>5. ASSUME NEW i \in 1..Popped
      PROVE  e[i] \in Nat /\ c[d + i] = e[i]
  <2>1. d + i \in 1..d + Popped /\ d + i \in d + 1..d + Popped /\ (d + i) - d = i
    BY <1>1
  <2>2. F[d + i] = waiting[i]
    <3>1. F[d + i] = taken[i]
      BY <1>3, <2>1
    <3> QED BY <1>2, <3>1
  <2>3. i \in 1..Len(waiting) /\ waiting[i] \in Entries(waiting)
    BY <1>1 DEF Entries
  <2>4. waiting[i] \notin Entries(running)
    BY <2>3, QueueFacts
  <2>5. c[d + i] = Cost(waiting[i])
    <3> HIDE DEF F, d
    <3>1. d + i \in 1..Len(F)
      BY <1>3, <2>1
    <3> QED BY <2>2, <2>4, <3>1
  <2>6. e[i] = Cost(waiting[i])
    BY <2>3
  <2>7. Cost(waiting[i]) \in Nat
    <3>1. waiting[i] \in Reqs
      BY <1>1, <2>3
    <3>2. uncached[waiting[i]] \in Nat
      BY <3>1 DEF SchedInv, SchedTypeOK
    <3> QED BY <3>2 DEF Cost
  <2> QED BY <2>5, <2>6, <2>7
<1>6. Total(c, 1..d + Popped) = d + Total(e, 1..Popped)
  <2> DEFINE N == Popped
  <2>1. d \in Nat /\ N \in Nat
    BY <1>1
  <2>2. \A i \in 1..N : e[i] \in Nat /\ c[d + i] = e[i]
    BY <1>5
  <2> HIDE DEF c, e, d, N
  <2>3. Shifted(c, e, d, N)
    BY <1>4, <2>2 DEF Shifted
  <2>4. Total(c, 1..d + N) = d + Total(e, 1..N)
    BY <2>1, <2>3, TotalShift
  <2> QED BY <2>4 DEF N
<1>7. Formed = F
  BY FormedIs DEF taken
<1>8. TokensOf(F) = Total(c, 1..d + Popped)
  <2>1. TokensOf(F) = Total(c, 1..Len(F))
    BY DEF TokensOf
  <2> HIDE DEF c, F
  <2> QED BY <1>3, <2>1
<1>9. Spent(Popped) = Total(e, 1..Popped)
  <2>1. LiveAmong(Popped) = 1..Popped
    <3>1. \A i \in 1..Popped : Eligible(waiting[i])
      <4> TAKE i \in 1..Popped
      <4>1. waiting[i] \in Entries(waiting)
        BY <1>1 DEF Entries
      <4> QED BY <4>1, QueueFacts
    <3> QED BY <3>1 DEF LiveAmong
  <2> QED BY <2>1 DEF Spent
<1> HIDE DEF F, c, e
<1> QED BY <1>3, <1>6, <1>7, <1>8, <1>9

\* form_batch and the merge: running grows by what is popped, within one batch.
LEMMA FormBatchIs ==
  ASSUME SchedInv, FormBatch
  PROVE  /\ running' = running \o SubSeq(waiting, 1, Popped)
         /\ waiting' = SubSeq(waiting, Popped + 1, Len(waiting))
         /\ batch' = running \o SubSeq(waiting, 1, Popped)
         /\ Len(running) + Popped <= DecodeLimit
<1> DEFINE taken == SubSeq(waiting, 1, Popped)
           F == running \o taken
           A == Reqs \ Entries(running)
           L == {r \in Reqs : Live(r)}
<1>1. /\ waiting \in Seq(Reqs) /\ running \in Seq(Reqs)
      /\ Popped \in 0..Len(waiting) /\ Popped \in Nat
      /\ Len(running) \in Nat /\ Len(waiting) \in Nat
  BY QueueFacts, LoopBounds
<1>2. taken \in Seq(Reqs) /\ Entries(taken) = {waiting[i] : i \in 1..Popped}
  BY <1>1, SplitFacts
<1> HIDE DEF taken
<1>3. Entries(taken) \subseteq Entries(waiting)
  <2>1. 1..Popped \subseteq 1..Len(waiting)
    BY <1>1
  <2> QED BY <1>2, <2>1 DEF Entries
<1>4. Entries(running) \cap A = {} /\ Entries(taken) \subseteq A
  BY <1>3, QueueFacts
<1>5. Kept(F, A) = taken
  <2> HIDE DEF A
  <2> QED BY <1>1, <1>2, <1>4, KeptSecond
<1>6. F \in Seq(Reqs) /\ Entries(F) = Entries(running) \cup Entries(taken)
  BY <1>1, <1>2, ConcatFacts
<1>7. Kept(F, L) = F
  <2>1. Entries(F) \subseteq L
    <3> HIDE DEF F
    <3> QED BY <1>3, <1>6, QueueFacts
  <2> HIDE DEF F, L
  <2> QED BY <1>6, <2>1, KeptAll
<1>8. Formed = F
  BY FormedIs DEF taken
<1>9. running' = KeptLive(running \o Without(F, Entries(running))) /\ batch' = F
  BY <1>8 DEF FormBatch
<1>10. running' = F
  BY <1>5, <1>7, <1>9 DEF KeptLive, Without
<1>11. waiting' = SubSeq(waiting, Popped + 1, Len(waiting))
  BY DEF FormBatch
<1>12. Len(running) + Popped <= DecodeLimit
  <2>1. /\ Len(running) + Popped <= MaxBatch
        /\ \/ Len(running) + Spent(Popped) <= MaxTokensPerBatch
           \/ Len(running) + Popped = 1
    BY LoopBounds
  <2>2. Spent(Popped) \in Nat /\ Popped <= Spent(Popped)
    BY <1>1, LoopCounts
  <2>3. Len(running) + Popped <= MaxTokensPerBatch
    BY <1>1, <2>1, <2>2, SchedulerAssumption
  <2> QED BY <2>1, <2>3 DEF DecodeLimit
<1> QED BY <1>9, <1>10, <1>11, <1>12 DEF taken

-----------------------------------------------------------------------------
(* The steps.                                                                *)

\* The empty scheduler satisfies the invariant.
LEMMA SchedInvInit == InitSched => SchedInv
<1> SUFFICES ASSUME InitSched PROVE SchedInv
  OBVIOUS
<1>1. SchedTypeOK
  <2>1. <<>> \in Seq(Reqs) /\ Len(<<>>) = 0
    OBVIOUS
  <2>2. phase \in [Reqs -> {"new", "live", "finished", "rejected"}]
    BY DEF InitSched
  <2>3. 0 \in Nat /\ 0 \in 0..MaxTokens /\ 0 <= MaxWaiting
    BY SchedulerAssumption
  <2>4. uncached \in [Reqs -> Nat] /\ out \in [Reqs -> 0..MaxTokens] /\ seqId \in [Reqs -> Nat]
    <3> HIDE SchedulerAssumption
    <3> QED BY <2>3 DEF InitSched
  <2> QED BY <2>1, <2>2, <2>3, <2>4 DEF InitSched, SchedTypeOK
<1>2. Entries(<<>>) = {} /\ \A key : Increasing(<<>>, key)
  BY DEF Entries, Increasing
<1>3. Queued
  <2>1. Alive = {}
    BY DEF InitSched, Alive
  <2>2. waiting = <<>> /\ running = <<>>
    BY DEF InitSched
  <2> QED BY <1>2, <2>1, <2>2 DEF Queued
<1>4. Numbered
  <2>1. Admitted = {}
    BY DEF InitSched, Admitted
  <2>2. Cardinality(Admitted) = 0
    BY <2>1, FS_EmptySet
  <2> QED BY <2>2 DEF InitSched, Numbered
<1>5. Lives
  BY <1>2, SchedulerAssumption DEF InitSched, Lives
<1>6. Len(running) <= DecodeLimit
  BY SchedulerAssumption DEF InitSched, DecodeLimit
<1> QED BY <1>1, <1>3, <1>4, <1>5, <1>6 DEF SchedInv

\* Finishing a set of sequences takes them out of both queues and leaves the
\* rest in order.
LEMMA Removal ==
  ASSUME SchedInv, NEW gone,
         phase' = [r \in Reqs |-> IF r \in gone THEN "finished" ELSE phase[r]],
         running' = Without(running, gone),
         waiting' = Without(waiting, gone),
         seqId' = seqId
  PROVE  /\ waiting' \in Seq(Reqs) /\ Len(waiting') <= MaxWaiting
         /\ running' \in Seq(Reqs) /\ (Len(running) <= DecodeLimit)'
         /\ phase' \in [Reqs -> {"new", "live", "finished", "rejected"}]
         /\ Queued'
         /\ Numbered'
<1> DEFINE S == Reqs \ gone
<1>1. /\ waiting \in Seq(Reqs) /\ running \in Seq(Reqs) /\ seqId \in [Reqs -> Nat]
      /\ phase \in [Reqs -> {"new", "live", "finished", "rejected"}]
  BY DEF SchedInv, SchedTypeOK
<1>2. waiting' = Kept(waiting, S) /\ running' = Kept(running, S)
  BY DEF Without
<1> HIDE DEF S
<1>3. /\ waiting' \in Seq(Reqs) /\ Len(waiting') <= Len(waiting)
      /\ running' \in Seq(Reqs) /\ Len(running') <= Len(running)
  BY <1>1, <1>2, KeptOrder
<1>4. Len(waiting') <= MaxWaiting
  <2>1. Len(waiting) <= MaxWaiting /\ MaxWaiting \in Nat
    BY SchedulerAssumption DEF SchedInv, SchedTypeOK
  <2>2. Len(waiting) \in Nat /\ Len(waiting') \in Nat
    BY <1>1, <1>3
  <2> QED BY <1>3, <2>1, <2>2
<1>5. (Len(running) <= DecodeLimit)'
  <2>1. Len(running) <= DecodeLimit /\ DecodeLimit \in Nat /\ DecodeLimit' = DecodeLimit
    BY SchedulerAssumption DEF SchedInv, DecodeLimit
  <2>2. Len(running) \in Nat /\ Len(running') \in Nat
    BY <1>1, <1>3
  <2> QED BY <1>3, <2>1, <2>2
<1>6. phase' \in [Reqs -> {"new", "live", "finished", "rejected"}]
  BY <1>1
<1>7. Entries(waiting') = Entries(waiting) \cap S /\ Entries(running') = Entries(running) \cap S
  BY <1>1, <1>2, KeptEntries
<1>8. Queued'
  <2>1. Alive' = Alive \cap S
    BY <1>1 DEF Alive, S
  <2>2. Entries(waiting) \cup Entries(running) = Alive
    BY DEF SchedInv, Queued
  <2>3. Entries(waiting') \cup Entries(running') = Alive'
    BY <1>7, <2>1, <2>2
  <2>4. Increasing(waiting, seqId) /\ Increasing(running, seqId)
    BY DEF SchedInv, Queued
  <2>5. Increasing(waiting', seqId) /\ Increasing(running', seqId)
    BY <1>1, <1>2, <2>4, KeptIncreasing
  <2>6. \A s \in Entries(running'), r \in Entries(waiting') : seqId[s] < seqId[r]
    BY <1>7 DEF SchedInv, Queued
  <2> QED BY <2>3, <2>5, <2>6 DEF Queued
<1>9. Numbered'
  <2>1. Admitted' = Admitted
    BY DEF Admitted
  <2>2. \A r \in Reqs : phase'[r] \in {"new", "rejected"} => phase[r] \in {"new", "rejected"}
    BY <1>1
  <2> QED BY <2>1, <2>2 DEF SchedInv, Numbered
<1> QED BY <1>3, <1>4, <1>5, <1>6, <1>8, <1>9

\* mark_finished takes one sequence out of both queues, and keeps the order of
\* the rest.
LEMMA FinishIsRemoval ==
  ASSUME SchedInv, NEW r \in Reqs, MarkFinished(r), seqId' = seqId
  PROVE  /\ waiting' \in Seq(Reqs) /\ Len(waiting') <= MaxWaiting
         /\ running' \in Seq(Reqs) /\ (Len(running) <= DecodeLimit)'
         /\ phase' \in [Reqs -> {"new", "live", "finished", "rejected"}]
         /\ Queued'
         /\ Numbered'
<1>1. phase \in [Reqs -> {"new", "live", "finished", "rejected"}]
  BY DEF SchedInv, SchedTypeOK
<1>2. phase' = [x \in Reqs |-> IF x \in {r} THEN "finished" ELSE phase[x]]
  BY <1>1 DEF MarkFinished
<1>3. running' = Without(running, {r}) /\ waiting' = Without(waiting, {r})
  BY DEF MarkFinished
<1> QED BY <1>2, <1>3, Removal

\* add_request keeps the invariant: the new sequence has the highest number.
LEMMA InvAddRequest ==
  ASSUME SchedInv, NEW r \in Reqs, phase[r] = "new", NEW hit \in 0..PromptLen[r],
         AddRequest(r, hit)
  PROVE  SchedInv'
<1>0. /\ waiting \in Seq(Reqs) /\ running \in Seq(Reqs) /\ seqId \in [Reqs -> Nat]
      /\ phase \in [Reqs -> {"new", "live", "finished", "rejected"}]
      /\ Len(waiting) \in Nat
  BY DEF SchedInv, SchedTypeOK
<1>1. /\ waiting' = Append(waiting, r)
      /\ running' = running /\ batch' = batch /\ ran' = ran /\ cancelled' = cancelled
      /\ out' = out
      /\ seqId' = [seqId EXCEPT ![r] = Cardinality(Admitted) + 1]
      /\ uncached' = [uncached EXCEPT ![r] = PromptLen[r] - hit]
      /\ phase' = [phase EXCEPT ![r] = "live"]
      /\ Len(waiting) < MaxWaiting
  BY <1>0, SchedulerAssumption DEF AddRequest, Refuses
<1>2. IsFiniteSet(Admitted) /\ Cardinality(Admitted) \in Nat
  <2>1. Admitted \in SUBSET Reqs
    BY DEF Admitted
  <2> QED BY <2>1, SchedulerAssumption, FS_Subset, FS_CardinalityType
<1>3. seqId' \in [Reqs -> Nat]
  BY <1>0, <1>1, <1>2
<1>4. /\ waiting' \in Seq(Reqs) /\ Len(waiting') = Len(waiting) + 1
      /\ Entries(waiting') = Entries(waiting) \cup {r}
  BY <1>0, <1>1, AppendFacts
<1>5. SchedTypeOK'
  <2>1. Len(waiting') <= MaxWaiting
    BY <1>0, <1>1, <1>4, SchedulerAssumption
  <2>2. uncached' \in [Reqs -> Nat]
    <3>1. PromptLen[r] - hit \in Nat
      BY SchedulerAssumption
    <3> QED BY <1>1, <3>1 DEF SchedInv, SchedTypeOK
  <2>3. phase' \in [Reqs -> {"new", "live", "finished", "rejected"}]
    BY <1>0, <1>1
  <2> QED BY <1>1, <1>3, <1>4, <2>1, <2>2, <2>3 DEF SchedInv, SchedTypeOK
<1>6. /\ \A x \in Entries(waiting) \cup Entries(running) :
           x \in Reqs /\ x # r /\ seqId'[x] = seqId[x] /\ seqId[x] <= Cardinality(Admitted)
                      /\ seqId[x] \in Nat
      /\ seqId'[r] = Cardinality(Admitted) + 1
  <2>1. ASSUME NEW x \in Entries(waiting) \cup Entries(running)
        PROVE  x \in Reqs /\ phase[x] = "live"
    BY DEF SchedInv, Queued, Alive
  <2>2. \A x \in Reqs : seqId[x] <= Cardinality(Admitted)
    BY DEF SchedInv, Numbered
  <2> QED BY <1>0, <1>1, <2>1, <2>2
<1>7. \A x \in Entries(waiting) \cup Entries(running) : seqId'[x] < seqId'[r]
  <2> TAKE x \in Entries(waiting) \cup Entries(running)
  <2>1. seqId'[x] = seqId[x] /\ seqId[x] <= Cardinality(Admitted) /\ seqId[x] \in Nat
    BY <1>6
  <2> QED BY <1>2, <1>6, <2>1
<1>8. Increasing(waiting, seqId') /\ Increasing(running', seqId')
  <2>1. Increasing(waiting, seqId) /\ Increasing(running, seqId)
    BY DEF SchedInv, Queued
  <2>2. \A i \in 1..Len(waiting) : waiting[i] \in Entries(waiting)
    BY DEF Entries
  <2>3. \A i \in 1..Len(running) : running[i] \in Entries(running)
    BY DEF Entries
  <2>4. Increasing(waiting, seqId')
    BY <1>6, <2>1, <2>2 DEF Increasing
  <2>5. Increasing(running, seqId')
    BY <1>6, <2>1, <2>3 DEF Increasing
  <2> QED BY <1>1, <2>4, <2>5
<1>9. Queued'
  <2>1. Increasing(waiting', seqId')
    <3>1. \A y \in Entries(waiting) : seqId'[y] < seqId'[r]
      BY <1>7
    <3> QED BY <1>0, <1>1, <1>3, <1>8, <3>1, AppendIncreasing
  <2>2. Alive' = Alive \cup {r}
    BY <1>0, <1>1 DEF Alive
  <2>3. Entries(waiting') \cup Entries(running') = Alive'
    BY <1>1, <1>4, <2>2 DEF SchedInv, Queued
  <2>4. \A s \in Entries(running'), x \in Entries(waiting') : seqId'[s] < seqId'[x]
    <3> SUFFICES ASSUME NEW s \in Entries(running), NEW x \in Entries(waiting) \cup {r}
                 PROVE  seqId'[s] < seqId'[x]
      BY <1>1, <1>4
    <3>1. CASE x = r
      BY <1>7, <3>1
    <3>2. CASE x \in Entries(waiting)
      BY <1>6, <3>2 DEF SchedInv, Queued
    <3> QED BY <3>1, <3>2
  <2> QED BY <1>8, <2>1, <2>3, <2>4 DEF Queued
<1>10. Numbered'
  <2>1. seqId[r] = 0
    BY DEF SchedInv, Numbered
  <2>2. Admitted' = Admitted \cup {r} /\ r \notin Admitted
    <3>1. ASSUME NEW x \in Reqs PROVE x \in Admitted' <=> x \in Admitted \/ x = r
      <4>1. x \in Admitted' <=> seqId'[x] > 0
        BY DEF Admitted
      <4>2. seqId'[x] = IF x = r THEN Cardinality(Admitted) + 1 ELSE seqId[x]
        BY <1>0, <1>1
      <4>3. x \in Admitted <=> seqId[x] > 0
        BY DEF Admitted
      <4> QED BY <1>2, <4>1, <4>2, <4>3
    <3>2. Admitted \subseteq Reqs /\ Admitted' \subseteq Reqs
      BY DEF Admitted
    <3>3. r \notin Admitted
      BY <2>1 DEF Admitted
    <3> QED BY <3>1, <3>2, <3>3
  <2>3. Cardinality(Admitted') = Cardinality(Admitted) + 1
    BY <1>2, <2>2, FS_AddElement
  <2>4. \A x \in Reqs : seqId'[x] <= Cardinality(Admitted')
    <3> TAKE x \in Reqs
    <3>1. seqId[x] <= Cardinality(Admitted) /\ seqId[x] \in Nat
      BY <1>0 DEF SchedInv, Numbered
    <3>2. seqId'[x] = IF x = r THEN Cardinality(Admitted) + 1 ELSE seqId[x]
      BY <1>0, <1>1
    <3> QED BY <1>2, <2>3, <3>1, <3>2
  <2>5. \A x \in Reqs : phase'[x] \in {"new", "rejected"} => seqId'[x] = 0
    <3> TAKE x \in Reqs
    <3>1. CASE x = r
      BY <1>0, <1>1, <3>1
    <3>2. CASE x # r
      BY <1>0, <1>1, <3>2 DEF SchedInv, Numbered
    <3> QED BY <3>1, <3>2
  <2> QED BY <2>4, <2>5 DEF Numbered
<1>11. Lives'
  <2>1. \A x \in Entries(batch') : x # r
    BY <1>1 DEF SchedInv, Lives
  <2>2. r \notin cancelled'
    BY <1>1 DEF SchedInv, Lives
  <2>3. /\ \A x \in Entries(batch') : phase'[x] \in {"live", "finished"}
        /\ \A x \in cancelled' : phase'[x] = "finished"
    BY <1>0, <1>1, <2>1, <2>2 DEF SchedInv, Lives
  <2>4. \A x \in Reqs : /\ phase'[x] = "live" => out'[x] < MaxTokens
                        /\ phase'[x] = "new" => out'[x] = 0
    <3> TAKE x \in Reqs
    <3>1. CASE x = r
      BY <1>0, <1>1, <3>1, SchedulerAssumption DEF SchedInv, Lives
    <3>2. CASE x # r
      BY <1>0, <1>1, <3>2 DEF SchedInv, Lives
    <3> QED BY <3>1, <3>2
  <2> QED BY <2>3, <2>4 DEF Lives
<1>12. (Len(running) <= DecodeLimit)'
  BY <1>1 DEF SchedInv, DecodeLimit
<1> QED BY <1>5, <1>9, <1>10, <1>11, <1>12 DEF SchedInv

\* Admission that is refused only marks the request.
LEMMA InvRefuse ==
  ASSUME SchedInv, NEW r \in Reqs, phase[r] = "new",
         phase' = [phase EXCEPT ![r] = "rejected"],
         UNCHANGED <<waiting, running, batch, ran, cancelled, uncached, out, seqId>>
  PROVE  SchedInv'
<1>0. phase \in [Reqs -> {"new", "live", "finished", "rejected"}]
  BY DEF SchedInv, SchedTypeOK
<1>1. SchedTypeOK'
  BY <1>0 DEF SchedInv, SchedTypeOK
<1>2. Alive' = Alive
  BY <1>0 DEF Alive
<1>3. Queued'
  BY <1>2 DEF SchedInv, Queued
<1>4. Numbered'
  <2>1. Admitted' = Admitted
    BY DEF Admitted
  <2> QED BY <1>0, <2>1 DEF SchedInv, Numbered
<1>5. Lives'
  BY <1>0 DEF SchedInv, Lives
<1>6. (Len(running) <= DecodeLimit)'
  BY DEF SchedInv, DecodeLimit
<1> QED BY <1>1, <1>3, <1>4, <1>5, <1>6 DEF SchedInv

\* step keeps the invariant: what it admits moves from the head of waiting to
\* the end of running.
LEMMA InvStep ==
  ASSUME SchedInv, Step
  PROVE  SchedInv'
<1> DEFINE n == Popped
           taken == SubSeq(waiting, 1, n)
           rest == SubSeq(waiting, n + 1, Len(waiting))
<1>1. /\ running' = running \o taken /\ waiting' = rest /\ batch' = running \o taken
      /\ Len(running) + n <= DecodeLimit
  BY FormBatchIs DEF Step
<1>2. UNCHANGED <<phase, cancelled, uncached, out, seqId>> /\ ran' = FALSE
  BY DEF Step, FormBatch
<1>3. /\ waiting \in Seq(Reqs) /\ running \in Seq(Reqs) /\ seqId \in [Reqs -> Nat]
      /\ Len(waiting) \in Nat /\ Len(running) \in Nat
  BY QueueFacts
<1>4. n \in 0..Len(waiting) /\ n \in Nat
  BY <1>3, LoopBounds
<1> HIDE DEF n
<1>5. /\ taken \in Seq(Reqs) /\ Len(taken) = n
      /\ rest \in Seq(Reqs) /\ Len(rest) = Len(waiting) - n
      /\ Entries(taken) = {waiting[i] : i \in 1..n}
      /\ Entries(rest) = {waiting[i] : i \in n + 1..Len(waiting)}
  BY <1>3, <1>4, SplitFacts
<1>6. /\ Increasing(taken, seqId) /\ Increasing(rest, seqId)
      /\ \A x \in Entries(taken), y \in Entries(rest) : seqId[x] < seqId[y]
  BY <1>3, <1>4, SplitIncreasing DEF SchedInv, Queued
<1> HIDE DEF taken, rest
<1>7. Entries(taken) \cup Entries(rest) = Entries(waiting)
  <2>1. 1..Len(waiting) = (1..n) \cup (n + 1..Len(waiting))
    BY <1>3, <1>4
  <2> QED BY <1>5, <2>1 DEF Entries
<1>8. /\ running' \in Seq(Reqs) /\ Len(running') = Len(running) + n
      /\ Entries(running') = Entries(running) \cup Entries(taken)
  <2> DEFINE F == running \o taken
  <2>0. running \in Seq(Reqs) /\ taken \in Seq(Reqs)
    BY <1>3, <1>5
  <2>1. F \in Seq(Reqs) /\ Len(F) = Len(running) + Len(taken)
    BY <2>0
  <2>2. Entries(F) = Entries(running) \cup Entries(taken)
    BY <2>0, ConcatFacts
  <2> HIDE DEF F
  <2>3. running' = F
    BY <1>1 DEF F
  <2> QED BY <1>5, <2>1, <2>2, <2>3
<1>9. SchedTypeOK'
  <2>1. Len(waiting') <= MaxWaiting
    BY <1>1, <1>3, <1>4, <1>5, SchedulerAssumption DEF SchedInv, SchedTypeOK
  <2>2. /\ waiting' \in Seq(Reqs) /\ running' \in Seq(Reqs) /\ batch' \in Seq(Reqs)
        /\ ran' \in BOOLEAN
    BY <1>1, <1>2, <1>5, <1>8
  <2> QED BY <1>2, <2>1, <2>2 DEF SchedInv, SchedTypeOK
<1>10. Queued'
  <2>1. Alive' = Alive
    BY <1>2 DEF Alive
  <2>2. Entries(waiting') \cup Entries(running') = Alive'
    BY <1>1, <1>7, <1>8, <2>1 DEF SchedInv, Queued
  <2>3. \A x \in Entries(running), y \in Entries(waiting) : seqId[x] < seqId[y]
    BY DEF SchedInv, Queued
  <2>4. Increasing(running', seqId)
    <3>1. Increasing(running, seqId)
      BY DEF SchedInv, Queued
    <3>2. \A x \in Entries(running), y \in Entries(taken) : seqId[x] < seqId[y]
      BY <1>7, <2>3
    <3> QED BY <1>1, <1>3, <1>5, <1>6, <3>1, <3>2, ConcatIncreasing
  <2>5. \A x \in Entries(running'), y \in Entries(waiting') : seqId[x] < seqId[y]
    BY <1>1, <1>6, <1>7, <1>8, <2>3
  <2> QED BY <1>1, <1>2, <1>6, <2>2, <2>4, <2>5 DEF Queued
<1>11. Numbered'
  BY <1>2 DEF SchedInv, Numbered, Admitted
<1>12. Lives'
  <2>1. ASSUME NEW x \in Entries(batch') PROVE phase'[x] \in {"live", "finished"}
    <3>1. x \in Entries(running')
      BY <1>1
    <3>2. x \in Entries(waiting) \cup Entries(running)
      BY <1>7, <1>8, <3>1
    <3> QED BY <1>2, <3>2 DEF SchedInv, Queued, Alive
  <2> QED BY <1>2, <2>1 DEF SchedInv, Lives
<1>13. (Len(running) <= DecodeLimit)'
  BY <1>1, <1>8 DEF DecodeLimit
<1> QED BY <1>9, <1>10, <1>11, <1>12, <1>13 DEF SchedInv

\* The entries of a batch are those of its tail and its head.
LEMMA TailEntries ==
  ASSUME NEW T, NEW q \in Seq(T), q # <<>>
  PROVE  /\ Tail(q) \in Seq(T) /\ Entries(Tail(q)) \subseteq Entries(q)
         /\ Head(q) \in Entries(q) /\ Head(q) \in T
<1> DEFINE t == Tail(q)
<1>1. t \in Seq(T) /\ Len(t) = Len(q) - 1 /\ Len(q) \in Nat \ {0}
  OBVIOUS
<1>2. \A i \in 1..Len(t) : t[i] = q[i + 1]
  OBVIOUS
<1>3. Head(q) = q[1] /\ 1 \in 1..Len(q) /\ q[1] \in T
  OBVIOUS
<1>4. Entries(t) \subseteq Entries(q)
  <2> HIDE DEF t
  <2>1. \A i \in 1..Len(t) : i + 1 \in 1..Len(q)
    BY <1>1
  <2> QED BY <1>2, <2>1 DEF Entries
<1>5. Head(q) \in Entries(q)
  BY <1>3 DEF Entries
<1> QED BY <1>1, <1>3, <1>4, <1>5

\* The result of a forward keeps the invariant, also when sequences of the
\* batch were cancelled.
LEMMA InvResult ==
  ASSUME SchedInv, Result
  PROVE  SchedInv'
<1> DEFINE h == Head(batch)
<1>1. batch # <<>> /\ batch' = Tail(batch) /\ ran' = ran
  BY DEF Result
<1>2. /\ batch' \in Seq(Reqs) /\ Entries(batch') \subseteq Entries(batch)
      /\ h \in Entries(batch) /\ h \in Reqs
  BY <1>1, TailEntries DEF SchedInv, SchedTypeOK
<1> HIDE DEF h
<1>3. CASE ~ Live(h)
  <2>1. UNCHANGED <<waiting, running, phase, cancelled, uncached, out, seqId>>
    BY <1>3 DEF Result, h
  <2>2. SchedTypeOK' /\ (Len(running) <= DecodeLimit)'
    BY <1>1, <1>2, <2>1 DEF SchedInv, SchedTypeOK, DecodeLimit
  <2>3. Queued' /\ Numbered'
    BY <2>1 DEF SchedInv, Queued, Alive, Numbered, Admitted
  <2>4. Lives'
    BY <1>2, <2>1 DEF SchedInv, Lives
  <2> QED BY <2>2, <2>3, <2>4 DEF SchedInv
<1>4. CASE Live(h)
  <2>1. ApplyToken(h)
    BY <1>4 DEF Result, h
  <2>2. /\ uncached' = [uncached EXCEPT ![h] = 0]
        /\ out' = [out EXCEPT ![h] = @ + 1]
        /\ cancelled' = cancelled /\ seqId' = seqId
    BY <2>1 DEF ApplyToken
  <2>3. phase[h] = "live" /\ out[h] < MaxTokens
    BY <1>2, <1>4 DEF SchedInv, Lives, Live
  <2>4. /\ uncached \in [Reqs -> Nat] /\ out \in [Reqs -> 0..MaxTokens]
        /\ phase \in [Reqs -> {"new", "live", "finished", "rejected"}]
    BY DEF SchedInv, SchedTypeOK
  <2>5. uncached' \in [Reqs -> Nat]
    BY <1>2, <2>2, <2>4
  <2>6. out' \in [Reqs -> 0..MaxTokens]
    <3>1. out[h] + 1 \in 0..MaxTokens
      BY <1>2, <2>3, <2>4, SchedulerAssumption
    <3> QED BY <1>2, <2>2, <2>4, <3>1
  <2>7. CASE MarkFinished(h)
    <3>1. /\ waiting' \in Seq(Reqs) /\ Len(waiting') <= MaxWaiting
          /\ running' \in Seq(Reqs) /\ (Len(running) <= DecodeLimit)'
          /\ phase' \in [Reqs -> {"new", "live", "finished", "rejected"}]
          /\ Queued' /\ Numbered'
      BY <1>2, <2>2, <2>7, FinishIsRemoval
    <3>2. SchedTypeOK'
      BY <1>1, <1>2, <2>2, <2>5, <2>6, <3>1 DEF SchedInv, SchedTypeOK
    <3>3. phase' = [phase EXCEPT ![h] = "finished"]
      BY <2>7 DEF MarkFinished
    <3>4. Lives'
      <4>1. \A x \in Entries(batch) : phase[x] \in {"live", "finished"}
        BY DEF SchedInv, Lives
      <4>2. \A x \in Entries(batch') : x \in Reqs
        <5>1. Entries(batch') \subseteq Reqs
          BY <1>2 DEF Entries
        <5> QED BY <5>1
      <4>3. \A x \in Entries(batch') : phase'[x] \in {"live", "finished"}
        BY <1>2, <2>4, <3>3, <4>1, <4>2
      <4>4. \A x \in cancelled' : phase'[x] = "finished"
        BY <1>2, <2>2, <2>4, <3>3 DEF SchedInv, SchedTypeOK, Lives
      <4>5. \A x \in Reqs : /\ phase'[x] = "live" => out'[x] < MaxTokens
                            /\ phase'[x] = "new" => out'[x] = 0
        <5> TAKE x \in Reqs
        <5>1. CASE x = h
          BY <1>2, <2>4, <3>3, <5>1
        <5>2. CASE x # h
          BY <2>2, <2>4, <3>3, <5>2 DEF SchedInv, Lives
        <5> QED BY <5>1, <5>2
      <4> QED BY <4>3, <4>4, <4>5 DEF Lives
    <3> QED BY <3>1, <3>2, <3>4 DEF SchedInv
  <2>8. CASE out[h] + 1 < MaxTokens /\ UNCHANGED <<phase, running, waiting>>
    <3>1. SchedTypeOK' /\ (Len(running) <= DecodeLimit)'
      BY <1>1, <1>2, <2>2, <2>5, <2>6, <2>8 DEF SchedInv, SchedTypeOK, DecodeLimit
    <3>2. Queued' /\ Numbered'
      BY <2>2, <2>8 DEF SchedInv, Queued, Alive, Numbered, Admitted
    <3>3. \A x \in Reqs : /\ phase'[x] = "live" => out'[x] < MaxTokens
                          /\ phase'[x] = "new" => out'[x] = 0
      <4> TAKE x \in Reqs
      <4>1. CASE x = h
        BY <1>2, <2>2, <2>3, <2>4, <2>8, <4>1
      <4>2. CASE x # h
        BY <2>2, <2>4, <2>8, <4>2 DEF SchedInv, Lives
      <4> QED BY <4>1, <4>2
    <3>4. Lives'
      BY <1>2, <2>2, <2>8, <3>3 DEF SchedInv, Lives
    <3> QED BY <3>1, <3>2, <3>4 DEF SchedInv
  <2> QED BY <2>1, <2>7, <2>8 DEF ApplyToken
<1> QED BY <1>3, <1>4

\* A failing forward keeps the invariant.
LEMMA InvStepFails ==
  ASSUME SchedInv, StepFails
  PROVE  SchedInv'
<1> DEFINE gone == Entries(batch)
<1>1. /\ phase' = [r \in Reqs |-> IF r \in gone THEN "finished" ELSE phase[r]]
      /\ running' = Without(running, gone) /\ waiting' = Without(waiting, gone)
      /\ batch' = <<>>
      /\ UNCHANGED <<ran, cancelled, uncached, out, seqId>>
  BY DEF StepFails
<1>2. phase \in [Reqs -> {"new", "live", "finished", "rejected"}]
  BY DEF SchedInv, SchedTypeOK
<1> HIDE DEF gone
<1>3. /\ waiting' \in Seq(Reqs) /\ Len(waiting') <= MaxWaiting
      /\ running' \in Seq(Reqs) /\ (Len(running) <= DecodeLimit)'
      /\ phase' \in [Reqs -> {"new", "live", "finished", "rejected"}]
      /\ Queued' /\ Numbered'
  BY <1>1, Removal
<1>4. SchedTypeOK'
  <2>1. batch' \in Seq(Reqs)
    BY <1>1
  <2> QED BY <1>1, <1>3, <2>1 DEF SchedInv, SchedTypeOK
<1>5. Lives'
  <2>1. Entries(batch') = {}
    BY <1>1 DEF Entries
  <2>2. \A x \in cancelled' : phase'[x] = "finished"
    BY <1>1, <1>2 DEF SchedInv, SchedTypeOK, Lives
  <2>3. \A x \in Reqs : /\ phase'[x] = "live" => out'[x] < MaxTokens
                        /\ phase'[x] = "new" => out'[x] = 0
    BY <1>1, <1>2 DEF SchedInv, Lives
  <2> QED BY <2>1, <2>2, <2>3 DEF Lives
<1> QED BY <1>3, <1>4, <1>5 DEF SchedInv

\* cancel keeps the invariant, wherever the sequence is.
LEMMA InvCancel ==
  ASSUME SchedInv, NEW r \in Reqs, Cancel(r)
  PROVE  SchedInv'
<1>1. /\ MarkFinished(r) /\ cancelled' = cancelled \cup {r}
      /\ UNCHANGED <<batch, ran, uncached, out, seqId>>
      /\ phase' = [phase EXCEPT ![r] = "finished"]
  BY DEF Cancel, MarkFinished
<1>2. /\ phase \in [Reqs -> {"new", "live", "finished", "rejected"}]
      /\ cancelled \subseteq Reqs /\ batch \in Seq(Reqs)
  BY DEF SchedInv, SchedTypeOK
<1>3. /\ waiting' \in Seq(Reqs) /\ Len(waiting') <= MaxWaiting
      /\ running' \in Seq(Reqs) /\ (Len(running) <= DecodeLimit)'
      /\ phase' \in [Reqs -> {"new", "live", "finished", "rejected"}]
      /\ Queued' /\ Numbered'
  BY <1>1, FinishIsRemoval
<1>4. SchedTypeOK'
  BY <1>1, <1>2, <1>3 DEF SchedInv, SchedTypeOK
<1>5. Lives'
  <2>1. Entries(batch') \subseteq Reqs /\ Entries(batch') = Entries(batch)
    BY <1>1, <1>2 DEF Entries
  <2>2. \A x \in Entries(batch') : phase'[x] \in {"live", "finished"}
    BY <1>1, <1>2, <2>1 DEF SchedInv, Lives
  <2>3. \A x \in cancelled' : phase'[x] = "finished"
    BY <1>1, <1>2 DEF SchedInv, Lives
  <2>4. \A x \in Reqs : /\ phase'[x] = "live" => out'[x] < MaxTokens
                        /\ phase'[x] = "new" => out'[x] = 0
    BY <1>1, <1>2 DEF SchedInv, Lives
  <2> QED BY <2>2, <2>3, <2>4 DEF Lives
<1> QED BY <1>3, <1>4, <1>5 DEF SchedInv

\* Every step keeps the invariant.
LEMMA InvNext == SchedInv /\ [NextSched]_schedVars => SchedInv'
<1> SUFFICES ASSUME SchedInv, [NextSched]_schedVars PROVE SchedInv'
  OBVIOUS
<1>1. ASSUME NEW r \in Reqs, Submit(r) PROVE SchedInv'
  <2>1. phase[r] = "new"
    BY <1>1 DEF Submit
  <2>2. CASE \E hit \in 0..PromptLen[r] : AddRequest(r, hit)
    BY <2>1, <2>2, InvAddRequest
  <2>3. CASE phase' = [phase EXCEPT ![r] = "rejected"]
             /\ UNCHANGED <<waiting, running, batch, ran, cancelled, uncached, out, seqId>>
    BY <2>1, <2>3, InvRefuse
  <2> QED BY <1>1, <2>2, <2>3 DEF Submit
<1>2. ASSUME NEW r \in Reqs, Cancel(r) PROVE SchedInv'
  BY <1>2, InvCancel
<1>3. CASE Step
  BY <1>3, InvStep
<1>4. CASE Forward
  <2>1. UNCHANGED <<waiting, running, batch, phase, cancelled, uncached, out, seqId>>
        /\ ran' \in BOOLEAN
    BY <1>4 DEF Forward
  <2> QED BY <2>1 DEF SchedInv, SchedTypeOK, Queued, Numbered, Lives, Alive, Admitted, DecodeLimit
<1>5. CASE Result
  BY <1>5, InvResult
<1>6. CASE StepFails
  BY <1>6, InvStepFails
<1>7. CASE UNCHANGED schedVars
  BY <1>7 DEF schedVars, SchedInv, SchedTypeOK, Queued, Numbered, Lives, Alive, Admitted,
              DecodeLimit
<1> QED BY <1>1, <1>2, <1>3, <1>4, <1>5, <1>6, <1>7 DEF NextSched

-----------------------------------------------------------------------------
(* The theorems.                                                             *)

\* The invariant holds in every state the scheduler reaches.
LEMMA SchedInvAlways == SpecSched => []SchedInv
<1> QED BY SchedInvInit, InvNext, PTL DEF SpecSched

\* The variables keep their types; waiting never exceeds max_waiting and no
\* sequence samples more than max_tokens.
THEOREM SchedTyped == SpecSched => []SchedTypeOK
<1>1. SchedInv => SchedTypeOK
  BY DEF SchedInv
<1> QED BY <1>1, SchedInvAlways, PTL

\* A list in the order of its keys has an entry in one place at most.
LEMMA OnePlace ==
  ASSUME NEW T, NEW q \in Seq(T), NEW key \in [T -> Nat], Increasing(q, key), NEW x \in T
  PROVE  Cardinality({i \in DOMAIN q : q[i] = x}) = IF x \in Entries(q) THEN 1 ELSE 0
<1> DEFINE P == {i \in DOMAIN q : q[i] = x}
<1>0. DOMAIN q = 1..Len(q) /\ Len(q) \in Nat
  OBVIOUS
<1>1. CASE x \in Entries(q)
  <2>1. PICK i \in 1..Len(q) : q[i] = x
    BY <1>1 DEF Entries
  <2>2. \A j \in 1..Len(q) : q[j] = x => j = i
    <3> SUFFICES ASSUME NEW j \in 1..Len(q), q[j] = x, j # i PROVE FALSE
      OBVIOUS
    <3>1. j < i \/ i < j
      BY <1>0
    <3>2. key[x] < key[x]
      BY <2>1, <3>1 DEF Increasing
    <3>3. key[x] \in Nat
      OBVIOUS
    <3> QED BY <3>2, <3>3
  <2>3. P = {i}
    BY <1>0, <2>1, <2>2
  <2>4. Cardinality({i}) = 1
    BY FS_Singleton
  <2> QED BY <1>1, <2>3, <2>4
<1>2. CASE x \notin Entries(q)
  <2>1. P = {}
    BY <1>0, <1>2 DEF Entries
  <2>2. Cardinality({}) = 0
    BY FS_EmptySet
  <2> QED BY <1>2, <2>1, <2>2
<1> QED BY <1>1, <1>2

\* A live sequence has exactly one place in exactly one queue; a finished one,
\* however it ended, has none.
THEOREM OnePlaceEach == SpecSched => []EachOnce
<1>1. SchedInv => EachOnce
  <2> SUFFICES ASSUME SchedInv, NEW r \in Reqs
               PROVE  Places(r) = IF phase[r] = "live" THEN 1 ELSE 0
    BY DEF EachOnce
  <2>1. /\ waiting \in Seq(Reqs) /\ running \in Seq(Reqs) /\ seqId \in [Reqs -> Nat]
        /\ Entries(waiting) \cap Entries(running) = {}
    BY QueueFacts
  <2>2. Increasing(waiting, seqId) /\ Increasing(running, seqId)
    BY DEF SchedInv, Queued
  <2>3. r \in Entries(waiting) \/ r \in Entries(running) <=> phase[r] = "live"
    <3>1. Entries(waiting) \cup Entries(running) = Alive
      BY DEF SchedInv, Queued
    <3> QED BY <3>1 DEF Alive
  <2>4. Cardinality({i \in DOMAIN waiting : waiting[i] = r})
          = IF r \in Entries(waiting) THEN 1 ELSE 0
    BY <2>1, <2>2, OnePlace
  <2>5. Cardinality({i \in DOMAIN running : running[i] = r})
          = IF r \in Entries(running) THEN 1 ELSE 0
    BY <2>1, <2>2, OnePlace
  <2>6. ~ (r \in Entries(waiting) /\ r \in Entries(running))
    BY <2>1
  <2> QED BY <2>3, <2>4, <2>5, <2>6 DEF Places
<1> QED BY <1>1, SchedInvAlways, PTL

\* First come, first served: no sequence waits behind one admitted later.
THEOREM FirstComeFirstServed == SpecSched => []NoOvertaking
<1>1. SchedInv => NoOvertaking
  BY DEF SchedInv, Queued, NoOvertaking
<1> QED BY <1>1, SchedInvAlways, PTL

\* form_batch keeps to the batch size and, but for one oversize prompt alone, to
\* the token budget, and it leaves no running sequence out.
THEOREM BatchesSound == SpecSched => []BatchSound
<1>1. SchedInv => BatchSound
  <2> SUFFICES ASSUME SchedInv PROVE BatchSound
    OBVIOUS
  <2>1. DecodeNeverStarved
    BY DecodesAll DEF DecodeNeverStarved
  <2>2. /\ Len(Formed) = Len(running) + Popped
        /\ TokensOf(Formed) = Len(running) + Spent(Popped)
    BY FormedBounds
  <2>3. /\ Len(running) + Popped <= MaxBatch
        /\ \/ Len(running) + Spent(Popped) <= MaxTokensPerBatch
           \/ Len(running) + Popped = 1
    BY LoopBounds
  <2>4. BatchWithinLimits
    BY <2>2, <2>3 DEF BatchWithinLimits
  <2> QED BY <2>1, <2>4 DEF BatchSound
<1> QED BY <1>1, SchedInvAlways, PTL

-----------------------------------------------------------------------------
(* LoopInv                                                                   *)

\* The threads' program counters and frames.
Frames == {"token", "final", "blank"}
LoopPCs == {"top", "admit", "add", "timeouts", "expire", "step", "forward", "fail", "results",
            "check", "unlock", "apply", "emit", "pop", "exited"}
Returns == {"top", "admit", "expire", "fail", "unlock", "results"}
HttpPCs == {"idle", "put", "c_flag", "c_finish", "c_assign", "c_emit", "c_pop"}

\* The loop thread's record; where it works on a request or an id it has one.
EngOK ==
  /\ eng \in [pc : LoopPCs, req : Reqs \cup {NoReq}, id : Ids \cup {NoReq}, frame : Frames,
              final : BOOLEAN, after : Returns, expired : SUBSET Ids]
  /\ eng.pc \in {"add", "check", "apply"} => eng.req \in Reqs
  /\ eng.pc \in {"emit", "pop"} => eng.id \in Ids

\* The event loop thread's record; the deque cancel builds is no longer than waiting was.
HttpOK ==
  /\ http \in [pc : HttpPCs, req : Reqs \cup {NoReq}, had : BOOLEAN, snap : Seq(Reqs)]
  /\ http.pc # "idle" => http.req \in Reqs
  /\ Len(http.snap) <= MaxWaiting

\* What LoopTypeOK leaves open.
Threads ==
  /\ dq \in [Reqs -> Seq(Frames)]
  /\ draining \in BOOLEAN /\ stopping \in BOOLEAN
  /\ EngOK /\ HttpOK

\* Requests add_request has seen.
Known == {r \in Reqs : phase[r] # "new"}
\* The loop thread is about to call add_request for r.
AtAdd(r) == eng.pc = "add" /\ eng.req = r

\* Requests _admit_pending skipped: their marks in _cancelled are used up.
Skipped == {r \in asked : IdOf[r] \notin cancelledIds}

\* No request is queued twice.
Unique(q) == \A i, j \in 1..Len(q) : q[i] = q[j] /\ q[i] \in Reqs => i = j

\* A request is new, queued, at add_request, known or skipped, in that order
\* and in one place at a time.
Journey ==
  /\ \A r \in Reqs : client[r] = "new" =>
       ~NeverTaken(r) /\ ~AtAdd(r) /\ r \notin Known \cup Skipped \cup asked
  /\ \A r \in Reqs : NeverTaken(r) => ~AtAdd(r) /\ r \notin Known \cup Skipped
  /\ \A r \in Reqs : http.pc = "put" /\ http.req = r => r \notin Entries(submitQ)
  /\ Unique(submitQ)
  /\ \A r \in Reqs : AtAdd(r) => r \notin Known \cup Skipped
  /\ \A r \in Skipped : r \notin Known

\* Whatever the scheduler, the batch and cancel work on is known, and is found
\* under its own id.
Arrived ==
  /\ Entries(waiting) \subseteq Known /\ Entries(running) \subseteq Known
  /\ Entries(batch) \subseteq Known /\ Entries(http.snap) \subseteq Known
  /\ cancelled \subseteq Known
  /\ eng.pc \in {"check", "apply"} => eng.req \in Known
  /\ http.pc \in {"c_finish", "c_assign"} => http.req \in Known
  /\ \A i \in Ids : byReq[i] # NoReq => byReq[i] \in Known /\ IdOf[byReq[i]] = i

\* A mark in _cancelled stands for a client's cancel.
Marks ==
  /\ \A i \in cancelledIds : \E r \in asked : IdOf[r] = i
  /\ http.pc \notin {"idle", "put"} => http.req \in asked

\* A sequence that is not finished has tokens left, or is being cancelled.
TokensLeft ==
  /\ \A r \in Reqs : phase[r] # "finished" => out[r] < MaxTokens \/ r \in cancelled
  /\ \A r \in cancelled : phase[r] # "finished" => IdOf[r] \in cancelledIds
  /\ eng.pc = "check" => out[eng.req] < MaxTokens \/ IdOf[eng.req] \in cancelledIds
  /\ eng.pc = "apply" => out[eng.req] < MaxTokens

LoopInv == LoopTypeOK /\ Threads /\ Journey /\ Arrived /\ Marks /\ TokensLeft

-----------------------------------------------------------------------------
(* Lists                                                                     *)

\* Taking sequences out of a queue.
LEMMA WithoutFacts ==
  ASSUME NEW q \in Seq(Reqs), NEW gone
  PROVE  /\ Without(q, gone) \in Seq(Reqs)
         /\ Len(Without(q, gone)) <= Len(q)
         /\ Entries(Without(q, gone)) = Entries(q) \ gone
<1>1. Entries(q) \subseteq Reqs
  BY DEF Entries
<1> DEFINE S == Reqs \ gone
<1>2. Entries(q) \cap S = Entries(q) \ gone
  BY <1>1
<1> HIDE DEF S
<1>3. Kept(q, S) \in Seq(Reqs) /\ Len(Kept(q, S)) <= Len(q) /\ Entries(Kept(q, S)) = Entries(q) \cap S
  BY KeptOrder, KeptEntries
<1> QED BY <1>2, <1>3 DEF Without, S

\* The list comprehensions of the loop: what is still live, what may be batched.
LEMMA KeptFacts ==
  ASSUME NEW q \in Seq(Reqs)
  PROVE  /\ KeptLive(q) \in Seq(Reqs) /\ Entries(KeptLive(q)) = {r \in Entries(q) : Live(r)}
         /\ Admissible(q) \in Seq(Reqs) /\ Entries(Admissible(q)) = {r \in Entries(q) : Eligible(r)}
<1>1. Entries(q) \subseteq Reqs
  BY DEF Entries
<1>2. ASSUME NEW S PROVE Kept(q, S) \in Seq(Reqs) /\ Entries(Kept(q, S)) = Entries(q) \cap S
  BY KeptOrder, KeptEntries
<1>3. KeptLive(q) \in Seq(Reqs) /\ Entries(KeptLive(q)) = Entries(q) \cap {r \in Reqs : Live(r)}
  BY <1>2 DEF KeptLive
<1>4. Admissible(q) \in Seq(Reqs) /\ Entries(Admissible(q)) = Entries(q) \cap {r \in Reqs : Eligible(r)}
  BY <1>2 DEF Admissible
<1> QED BY <1>1, <1>3, <1>4

\* What form_batch takes, leaves and merges.
LEMMA FormFacts ==
  ASSUME waiting \in Seq(Reqs), running \in Seq(Reqs), FormBatch
  PROVE  /\ Popped \in 0..Len(waiting)
         /\ Formed \in Seq(Reqs)
         /\ Entries(Formed) = Entries(Decodes)
              \cup {r \in {waiting[i] : i \in 1..Popped} : Eligible(r)}
         /\ Entries(Decodes) \subseteq Entries(running)
         /\ waiting' \in Seq(Reqs) /\ Len(waiting') <= Len(waiting)
         /\ Entries(waiting') = {waiting[i] : i \in Popped + 1..Len(waiting)}
         /\ Entries(waiting') \subseteq Entries(waiting)
         /\ batch' = Formed
         /\ Entries(batch') \subseteq Entries(waiting) \cup Entries(running)
         /\ running' \in Seq(Reqs)
         /\ Entries(running') = {r \in Entries(running) \cup Entries(Formed) : Live(r)}
         /\ Entries(running') \subseteq Entries(waiting) \cup Entries(running)
<1>1. Popped \in 0..Len(waiting)
  BY PoppedFirst
<1>2. Decodes \in Seq(Reqs) /\ Entries(Decodes) \subseteq Entries(running)
  <2> DEFINE live == Admissible(running)
             n == IF Len(live) < DecodeLimit THEN Len(live) ELSE DecodeLimit
  <2>1. live \in Seq(Reqs) /\ Entries(live) \subseteq Entries(running)
    BY KeptFacts
  <2>2. Decodes = SubSeq(live, 1, n)
    BY DEF Decodes
  <2>3. DecodeLimit \in Nat
    BY SchedulerAssumption DEF DecodeLimit
  <2> HIDE DEF live
  <2>4. n \in 0..Len(live)
    <3>1. Len(live) \in Nat
      BY <2>1
    <3> QED BY <2>3, <3>1
  <2> HIDE DEF n
  <2>5. SubSeq(live, 1, n) \in Seq(Reqs) /\ Entries(SubSeq(live, 1, n)) = {live[i] : i \in 1..n}
    BY <2>1, <2>4, SplitFacts
  <2>6. 1..n \subseteq 1..Len(live)
    BY <2>4
  <2>7. {live[i] : i \in 1..n} \subseteq Entries(live)
    BY <2>6 DEF Entries
  <2> QED BY <2>1, <2>2, <2>5, <2>7
<1>3. /\ SubSeq(waiting, 1, Popped) \in Seq(Reqs)
      /\ Entries(SubSeq(waiting, 1, Popped)) = {waiting[i] : i \in 1..Popped}
      /\ SubSeq(waiting, Popped + 1, Len(waiting)) \in Seq(Reqs)
      /\ Len(SubSeq(waiting, Popped + 1, Len(waiting))) = Len(waiting) - Popped
      /\ Entries(SubSeq(waiting, Popped + 1, Len(waiting))) = {waiting[i] : i \in Popped + 1..Len(waiting)}
  BY <1>1, SplitFacts
<1>4. 1..Popped \subseteq 1..Len(waiting) /\ Popped + 1..Len(waiting) \subseteq 1..Len(waiting)
      /\ Len(waiting) - Popped <= Len(waiting)
  BY <1>1
<1>5. /\ {waiting[i] : i \in 1..Popped} \subseteq Entries(waiting)
      /\ {waiting[i] : i \in Popped + 1..Len(waiting)} \subseteq Entries(waiting)
  BY <1>4 DEF Entries
<1> DEFINE taken == Admissible(SubSeq(waiting, 1, Popped))
<1>6. taken \in Seq(Reqs) /\ Entries(taken) = {r \in {waiting[i] : i \in 1..Popped} : Eligible(r)}
  <2>1. Entries(taken) = {r \in Entries(SubSeq(waiting, 1, Popped)) : Eligible(r)} /\ taken \in Seq(Reqs)
    BY <1>3, KeptFacts
  <2> QED BY <1>3, <2>1
<1>7. Formed = Decodes \o taken
  BY DEF Formed
<1> HIDE DEF taken
<1>8. Formed \in Seq(Reqs) /\ Entries(Formed) = Entries(Decodes) \cup Entries(taken)
  BY <1>2, <1>6, <1>7, ConcatFacts
<1>9. waiting' = SubSeq(waiting, Popped + 1, Len(waiting)) /\ batch' = Formed
      /\ running' = KeptLive(running \o Without(Formed, Entries(running)))
  BY DEF FormBatch
<1>10. running' \in Seq(Reqs) /\ Entries(running') = {r \in Entries(running) \cup Entries(Formed) : Live(r)}
  <2> DEFINE new == Without(Formed, Entries(running))
  <2>1. new \in Seq(Reqs) /\ Entries(new) = Entries(Formed) \ Entries(running)
    BY <1>8, WithoutFacts
  <2>2. running' = KeptLive(running \o new)
    BY <1>9
  <2> HIDE DEF new
  <2>3. running \o new \in Seq(Reqs) /\ Entries(running \o new) = Entries(running) \cup Entries(new)
    BY <2>1, ConcatFacts
  <2>4. /\ KeptLive(running \o new) \in Seq(Reqs)
        /\ Entries(KeptLive(running \o new)) = {r \in Entries(running \o new) : Live(r)}
    BY <2>3, KeptFacts
  <2> QED BY <2>1, <2>2, <2>3, <2>4
<1>11. Entries(Formed) \subseteq Entries(waiting) \cup Entries(running)
  BY <1>2, <1>5, <1>6, <1>8
<1>12. Len(waiting') <= Len(waiting) /\ waiting' \in Seq(Reqs)
  BY <1>3, <1>4, <1>9
<1>13. Entries(waiting') = {waiting[i] : i \in Popped + 1..Len(waiting)}
  BY <1>3, <1>9
<1>14. Entries(Formed) = Entries(Decodes) \cup {r \in {waiting[i] : i \in 1..Popped} : Eligible(r)}
  BY <1>6, <1>8
<1>15. Entries(running') \subseteq Entries(waiting) \cup Entries(running)
  BY <1>10, <1>11
<1> QED BY <1>1, <1>2, <1>5, <1>8, <1>9, <1>10, <1>11, <1>12, <1>13, <1>14, <1>15

-----------------------------------------------------------------------------
(* Steps of the loop thread                                                  *)

\* Where a jump of the loop thread leads.
LEMMA GotoFacts ==
  ASSUME EngOK, NEW pc \in LoopPCs, Goto(pc),
         pc \in {"add", "check", "apply"} => eng.req \in Reqs,
         pc \in {"emit", "pop"} => eng.id \in Ids
  PROVE  /\ EngOK'
         /\ eng'.pc = pc /\ eng'.req = eng.req /\ eng'.id = eng.id /\ eng'.frame = eng.frame
         /\ eng'.final = eng.final /\ eng'.after = eng.after /\ eng'.expired = eng.expired
<1> DEFINE u == [eng EXCEPT !.pc = pc]
<1>1. eng' = u
  BY DEF Goto
<1>2. u = [pc |-> pc, req |-> eng.req, id |-> eng.id, frame |-> eng.frame,
           final |-> eng.final, after |-> eng.after, expired |-> eng.expired]
  BY DEF EngOK
<1> HIDE DEF u
<1>3. /\ eng'.pc = pc /\ eng'.req = eng.req /\ eng'.id = eng.id /\ eng'.frame = eng.frame
      /\ eng'.final = eng.final /\ eng'.after = eng.after /\ eng'.expired = eng.expired
  BY <1>1, <1>2
<1>4. eng' \in [pc : LoopPCs, req : Reqs \cup {NoReq}, id : Ids \cup {NoReq}, frame : Frames,
               final : BOOLEAN, after : Returns, expired : SUBSET Ids]
  BY <1>1, <1>2 DEF EngOK
<1>5. eng'.pc \in {"add", "check", "apply"} => eng'.req \in Reqs
  BY <1>3
<1>6. eng'.pc \in {"emit", "pop"} => eng'.id \in Ids
  BY <1>3
<1> QED BY <1>3, <1>4, <1>5, <1>6 DEF EngOK

\* ... and where a call of _emit leads.
LEMMA EmitFacts ==
  ASSUME EngOK, NEW id \in Ids, NEW frame \in Frames, NEW final \in BOOLEAN, NEW pc \in Returns,
         EmitThen(id, frame, final, pc)
  PROVE  /\ EngOK'
         /\ eng'.pc = "emit" /\ eng'.req = eng.req /\ eng'.id = id /\ eng'.frame = frame
         /\ eng'.final = final /\ eng'.after = pc /\ eng'.expired = eng.expired
<1> DEFINE u == [eng EXCEPT !.pc = "emit", !.id = id, !.frame = frame, !.final = final, !.after = pc]
<1>1. eng' = u
  BY DEF EmitThen
<1>a. u = [eng EXCEPT !.pc = "emit", !.id = id, !.frame = frame, !.final = final, !.after = pc]
  OBVIOUS
<1> HIDE DEF u
<1>b. eng \in [pc : LoopPCs, req : Reqs \cup {NoReq}, id : Ids \cup {NoReq}, frame : Frames,
               final : BOOLEAN, after : Returns, expired : SUBSET Ids]
  BY DEF EngOK
<1>2. u = [pc |-> "emit", req |-> eng.req, id |-> id, frame |-> frame, final |-> final,
           after |-> pc, expired |-> eng.expired]
  BY <1>a, <1>b
<1>3. eng' \in [pc : LoopPCs, req : Reqs \cup {NoReq}, id : Ids \cup {NoReq}, frame : Frames,
               final : BOOLEAN, after : Returns, expired : SUBSET Ids]
  BY <1>1, <1>2, <1>b DEF LoopPCs
<1> QED BY <1>1, <1>2, <1>3 DEF EngOK

\* What a step may do to the queues of the scheduler: sequences finish, the
\* queues hold sequences the scheduler has met, and no name is entered.
Ends ==
  /\ waiting' \in Seq(Reqs) /\ Len(waiting') <= MaxWaiting /\ Entries(waiting') \subseteq Known
  /\ running' \in Seq(Reqs) /\ Entries(running') \subseteq Known
  /\ phase' \in [Reqs -> {"new", "live", "finished", "rejected"}]
  /\ \A r \in Reqs : phase'[r] = phase[r] \/ (phase'[r] = "finished" /\ r \in Known)
  /\ byReq' \in [Ids -> Reqs \cup {NoReq}]
  /\ \A i \in Ids : byReq'[i] \in {byReq[i], NoReq}
  /\ cancelled \subseteq cancelled' /\ cancelled' \subseteq Known
  /\ \A r \in cancelled' : phase'[r] # "finished" => IdOf[r] \in cancelledIds

\* Nothing ends while the queues stay as they are.
LEMMA NoEnd ==
  ASSUME LoopInv, UNCHANGED queues
  PROVE  Ends
<1>1. waiting' = waiting /\ running' = running /\ phase' = phase /\ cancelled' = cancelled /\ byReq' = byReq
  BY DEF queues
<1> QED BY <1>1 DEF LoopInv, LoopTypeOK, SchedTypeOK, Arrived, TokensLeft, Ends

\* mark_finished ends one sequence.
LEMMA FinishEnds ==
  ASSUME LoopInv, NEW r \in Known, Finish(r), cancelled' = cancelled \/ cancelled' = cancelled \cup {r}
  PROVE  Ends /\ phase'[r] = "finished" /\ \A x \in Reqs \ {r} : phase'[x] = phase[x]
         /\ Entries(waiting') = Entries(waiting) \ {r} /\ Entries(running') = Entries(running) \ {r}
<1>0. r \in Reqs /\ IdOf[r] \in Ids
  BY LoopAssumption DEF Known
<1>1. /\ waiting \in Seq(Reqs) /\ running \in Seq(Reqs) /\ Len(waiting) <= MaxWaiting /\ MaxWaiting \in Nat
      /\ phase \in [Reqs -> {"new", "live", "finished", "rejected"}]
      /\ byReq \in [Ids -> Reqs \cup {NoReq}]
  BY SchedulerAssumption DEF LoopInv, LoopTypeOK, SchedTypeOK
<1>2. /\ waiting' = Without(waiting, {r}) /\ running' = Without(running, {r})
      /\ phase' = [phase EXCEPT ![r] = "finished"] /\ byReq' = [byReq EXCEPT ![IdOf[r]] = NoReq]
  BY DEF Finish, MarkFinished
<1>3. /\ waiting' \in Seq(Reqs) /\ Len(waiting') <= Len(waiting)
      /\ Entries(waiting') = Entries(waiting) \ {r} /\ Entries(running') = Entries(running) \ {r}
      /\ running' \in Seq(Reqs)
  BY <1>1, <1>2, WithoutFacts
<1>4. Len(waiting') <= MaxWaiting
  <2>1. Len(waiting) \in Nat /\ Len(waiting') \in Nat
    BY <1>1, <1>3
  <2> QED BY <1>1, <1>3, <2>1
<1>5. Entries(waiting') \subseteq Known /\ Entries(running') \subseteq Known
  BY <1>3 DEF LoopInv, Arrived
<1>6. phase' \in [Reqs -> {"new", "live", "finished", "rejected"}] /\ phase'[r] = "finished"
      /\ \A x \in Reqs \ {r} : phase'[x] = phase[x]
  BY <1>0, <1>1, <1>2
<1>7. byReq' \in [Ids -> Reqs \cup {NoReq}] /\ \A i \in Ids : byReq'[i] \in {byReq[i], NoReq}
  BY <1>0, <1>1, <1>2
<1>8. cancelled \subseteq cancelled' /\ cancelled' \subseteq Known
  BY DEF LoopInv, Arrived
<1>9. \A x \in cancelled' : phase'[x] # "finished" => IdOf[x] \in cancelledIds
  BY <1>6, <1>8 DEF LoopInv, TokensLeft, Known
<1> QED BY <1>0, <1>3, <1>4, <1>5, <1>6, <1>7, <1>8, <1>9 DEF Ends

\* Scheduler.cancel by id ends the sequence of that id, if there is one.
LEMMA CancelEnds ==
  ASSUME LoopInv, NEW id \in Ids, CancelById(id)
  PROVE  Ends /\ \A r \in Reqs : phase'[r] # phase[r] => IdOf[r] = id
<1>1. CASE byReq[id] = NoReq
  <2>1. UNCHANGED queues
    BY <1>1 DEF CancelById, queues
  <2> QED BY <2>1, NoEnd DEF queues
<1>2. CASE byReq[id] # NoReq
  <2>1. byReq[id] \in Known /\ IdOf[byReq[id]] = id
    BY <1>2 DEF LoopInv, Arrived
  <2>2. Finish(byReq[id]) /\ cancelled' = cancelled \cup {byReq[id]}
    BY <1>2 DEF CancelById
  <2>3. Ends /\ \A x \in Reqs \ {byReq[id]} : phase'[x] = phase[x]
    BY <2>1, <2>2, FinishEnds
  <2> QED BY <2>1, <2>3
<1> QED BY <1>1, <1>2

\* The tokens sampled keep to the bound.
Counts ==
  /\ uncached' \in [Reqs -> Nat]
  /\ out' \in [Reqs -> 0..MaxTokens]
  /\ \A r \in Reqs : phase'[r] # "finished" => out'[r] < MaxTokens \/ r \in cancelled'

\* No token is counted while the counters stay as they are.
LEMMA NoToken ==
  ASSUME LoopInv, Ends, UNCHANGED <<uncached, out>>
  PROVE  Counts
BY DEF LoopInv, LoopTypeOK, SchedTypeOK, TokensLeft, Ends, Counts

\* Where the loop thread may go, other than into Add.
LoopGoes ==
  /\ EngOK'
  /\ eng'.pc # "add"
  /\ eng'.pc \in {"check", "apply"} => eng'.req \in Known
  /\ eng'.pc = "check" => out'[eng'.req] < MaxTokens \/ IdOf[eng'.req] \in cancelledIds
  /\ eng'.pc = "apply" => out'[eng'.req] < MaxTokens

\* A jump of the loop thread to a place that holds no request.
LEMMA GoesElsewhere ==
  ASSUME EngOK', eng'.pc \notin {"add", "check", "apply"}
  PROVE  LoopGoes
BY DEF LoopGoes

\* The delta queues.
Streams ==
  /\ deltaQs' \in [Ids -> Reqs \cup {NoReq}]
  /\ dq' \in [Reqs -> Seq(Frames)]
  /\ \A r \in Reqs : Len(dq'[r]) <= QueueSize

\* Untouched delta queues stay well formed.
LEMMA SameStreams ==
  ASSUME LoopInv, UNCHANGED <<deltaQs, dq>>
  PROVE  Streams
BY DEF LoopInv, LoopTypeOK, Threads, Streams

\* Any step of the loop thread that takes nothing off the submit queue.
LEMMA LoopMoves ==
  ASSUME LoopInv, UNCHANGED <<submitQ, cancelledIds, deadline, httpVars, seqId>>,
         lost' \subseteq {"frame", "place"} \X Reqs,
         batch' \in Seq(Reqs), Entries(batch') \subseteq Known, ran' \in BOOLEAN,
         lock' \in {"free", "loop"}, stopping' \in BOOLEAN,
         Ends, Counts, Streams, LoopGoes
  PROVE  LoopInv'
<1>1. UNCHANGED <<draining, http, client, asked, submitQ, cancelledIds, deadline, seqId>>
      /\ Skipped' = Skipped
  BY DEF httpVars, Skipped
<1>2. LoopTypeOK'
  <2>1. SchedTypeOK'
    <3>1. seqId' \in [Reqs -> Nat]
      BY <1>1 DEF LoopInv, LoopTypeOK, SchedTypeOK
    <3>2. cancelled' \subseteq Reqs
      BY DEF Ends, Known
    <3> QED BY <3>1, <3>2 DEF SchedTypeOK, Ends, Counts
  <2>2. \A r \in Reqs : dq'[r] \in Seq(Frames)
    BY DEF Streams
  <2>3. /\ submitQ' \in Seq(Reqs \cup {StopItem}) /\ cancelledIds' \subseteq Ids
        /\ deadline' \in [Ids -> {"none", "armed", "past"}]
        /\ client' \in [Reqs -> {"new", "reading", "closed", "gone"}]
        /\ asked' \subseteq Cancels /\ lost' \subseteq {"frame", "place"} \X Reqs
    BY <1>1 DEF LoopInv, LoopTypeOK
  <2> QED BY <2>1, <2>2, <2>3 DEF LoopTypeOK, Ends, Streams, Frames
<1>3. Threads'
  <2>1. HttpOK' /\ draining' \in BOOLEAN
    BY <1>1 DEF LoopInv, Threads, HttpOK
  <2> QED BY <2>1 DEF Threads, Streams, LoopGoes
<1>4. Known' = Known
  BY DEF Known, Ends
<1>5. Journey'
  <2>1. \A r \in Reqs : ~AtAdd(r)'
    BY DEF AtAdd, LoopGoes
  <2>2. \A r \in Reqs : NeverTaken(r)' <=> NeverTaken(r)
    BY <1>1 DEF NeverTaken
  <2>3. Journey
    BY DEF LoopInv
  <2> QED BY <1>1, <1>4, <2>1, <2>2, <2>3 DEF Journey, Unique
<1>6. Arrived'
  <2>1. Arrived
    BY DEF LoopInv
  <2>2. byReq \in [Ids -> Reqs \cup {NoReq}]
    BY DEF LoopInv, LoopTypeOK
  <2>3. \A i \in Ids : byReq'[i] # NoReq => byReq'[i] \in Known' /\ IdOf[byReq'[i]] = i
    BY <1>4, <2>1, <2>2 DEF Arrived, Ends
  <2> QED BY <1>1, <1>4, <2>1, <2>3 DEF Arrived, Ends, LoopGoes
<1>7. Marks'
  <2>1. Marks
    BY DEF LoopInv
  <2> QED BY <1>1, <2>1 DEF Marks
<1>8. TokensLeft'
  BY <1>1 DEF TokensLeft, Counts, Ends, LoopGoes
<1> QED BY <1>2, <1>3, <1>5, <1>6, <1>7, <1>8 DEF LoopInv

\* The same for a step that loses nothing.
LEMMA LoopStep ==
  ASSUME LoopInv, UNCHANGED <<submitQ, cancelledIds, deadline, lost, httpVars, seqId>>,
         batch' \in Seq(Reqs), Entries(batch') \subseteq Known, ran' \in BOOLEAN,
         lock' \in {"free", "loop"}, stopping' \in BOOLEAN,
         Ends, Counts, Streams, LoopGoes
  PROVE  LoopInv'
<1>1. lost' \subseteq {"frame", "place"} \X Reqs
  BY DEF LoopInv, LoopTypeOK
<1> QED BY <1>1, LoopMoves

\* A step that leaves the scheduler's state alone.
LEMMA SchedStill ==
  ASSUME LoopInv, UNCHANGED <<schedVars, byReq>>
  PROVE  /\ Ends /\ Counts /\ batch' \in Seq(Reqs) /\ Entries(batch') \subseteq Known
         /\ ran' \in BOOLEAN /\ seqId' = seqId
<1>1. UNCHANGED queues /\ UNCHANGED <<uncached, out, seqId, batch, ran>>
  BY DEF schedVars, queues
<1>2. Ends
  BY <1>1, NoEnd
<1>3. Counts
  BY <1>1, <1>2, NoToken
<1>4. batch \in Seq(Reqs) /\ ran \in BOOLEAN /\ Entries(batch) \subseteq Known
  BY DEF LoopInv, LoopTypeOK, SchedTypeOK, Arrived
<1> QED BY <1>1, <1>2, <1>3, <1>4

\* What most steps use of the invariant.
LEMMA InvFacts ==
  ASSUME LoopInv
  PROVE  /\ EngOK /\ HttpOK
         /\ batch \in Seq(Reqs) /\ ran \in BOOLEAN /\ Entries(batch) \subseteq Known
         /\ waiting \in Seq(Reqs) /\ running \in Seq(Reqs)
         /\ lock \in {"free", "loop"} /\ stopping \in BOOLEAN
         /\ \A r \in Reqs : IdOf[r] \in Ids
         /\ Known \subseteq Reqs
BY LoopAssumption DEF LoopInv, Threads, LoopTypeOK, SchedTypeOK, Arrived, Known

\* LoopInv is kept by each step of the loop thread, one lemma each.
LEMMA StepTop == ASSUME LoopInv, Top PROVE LoopInv'
<1>1. /\ UNCHANGED <<schedVars, byReq>>
      /\ UNCHANGED <<deltaQs, dq>>
      /\ UNCHANGED <<submitQ, cancelledIds, deadline, lost, httpVars>>
      /\ lock' = lock /\ stopping' = stopping
  BY DEF Top
<1>2. PICK pc \in {"exited", "admit"} : Goto(pc)
  BY DEF Top
<1>3. pc \in LoopPCs /\ pc \notin {"add", "check", "apply", "emit", "pop"}
  BY <1>2 DEF LoopPCs
<1>4. EngOK' /\ eng'.pc = pc
  BY <1>2, <1>3, InvFacts, GotoFacts
<1>5. LoopGoes
  BY <1>3, <1>4, GoesElsewhere
<1> QED BY <1>1, <1>5, SchedStill, SameStreams, InvFacts, LoopStep

\* _check_timeouts collects ids.
LEMMA StepCollectExpired == ASSUME LoopInv, CollectExpired PROVE LoopInv'
<1>1. /\ UNCHANGED <<schedVars, byReq>>
      /\ UNCHANGED <<deltaQs, dq>>
      /\ UNCHANGED <<submitQ, cancelledIds, deadline, lost, httpVars>>
      /\ lock' = lock /\ stopping' = stopping
  BY DEF CollectExpired
<1> DEFINE past == {i \in Ids : deadline[i] = "past"}
           u == [eng EXCEPT !.pc = "expire", !.expired = past]
<1>2. eng' = u
  BY DEF CollectExpired
<1>3. past \in SUBSET Ids
  OBVIOUS
<1>4. u = [eng EXCEPT !.pc = "expire", !.expired = past]
  OBVIOUS
<1> HIDE DEF u, past
<1>5. eng \in [pc : LoopPCs, req : Reqs \cup {NoReq}, id : Ids \cup {NoReq}, frame : Frames,
               final : BOOLEAN, after : Returns, expired : SUBSET Ids]
  BY InvFacts DEF EngOK
<1>6. u = [pc |-> "expire", req |-> eng.req, id |-> eng.id, frame |-> eng.frame,
           final |-> eng.final, after |-> eng.after, expired |-> past]
  BY <1>4, <1>5
<1>7. EngOK' /\ eng'.pc = "expire"
  BY <1>2, <1>3, <1>5, <1>6 DEF EngOK, LoopPCs
<1>8. LoopGoes
  BY <1>7, GoesElsewhere
<1> QED BY <1>1, <1>8, SchedStill, SameStreams, InvFacts, LoopStep

\* _check_timeouts cancels one of them and calls _emit.
LEMMA StepCancelExpired == ASSUME LoopInv, CancelExpired PROVE LoopInv'
<1>1. /\ UNCHANGED <<uncached, out>> /\ seqId' = seqId
      /\ batch' = batch /\ ran' = ran
      /\ UNCHANGED <<deltaQs, dq>>
      /\ UNCHANGED <<submitQ, cancelledIds, deadline, lost, httpVars>>
      /\ lock' = lock /\ stopping' = stopping
  BY DEF CancelExpired, progress
<1>2. CASE eng.expired = {} /\ Goto("step") /\ UNCHANGED queues
  <2>1. Ends
    BY <1>2, NoEnd
  <2>2. "step" \in LoopPCs
    BY DEF LoopPCs
  <2>3. EngOK' /\ eng'.pc = "step"
    BY <1>2, <2>2, InvFacts, GotoFacts
  <2>4. LoopGoes
    BY <2>3, GoesElsewhere
  <2> QED BY <1>1, <2>1, <2>4, NoToken, SameStreams, InvFacts, LoopStep
<1>3. ASSUME NEW id \in eng.expired, CancelById(id),
             eng' = [eng EXCEPT !.pc = "emit", !.id = id, !.frame = "final", !.final = TRUE,
                                !.after = "expire", !.expired = @ \ {id}]
      PROVE  LoopInv'
  <2> DEFINE u == [eng EXCEPT !.pc = "emit", !.id = id, !.frame = "final", !.final = TRUE,
                              !.after = "expire", !.expired = @ \ {id}]
  <2>1. eng' = u
    BY <1>3
  <2>2. u = [eng EXCEPT !.pc = "emit", !.id = id, !.frame = "final", !.final = TRUE,
                        !.after = "expire", !.expired = @ \ {id}]
    OBVIOUS
  <2> HIDE DEF u
  <2>3. eng \in [pc : LoopPCs, req : Reqs \cup {NoReq}, id : Ids \cup {NoReq}, frame : Frames,
                 final : BOOLEAN, after : Returns, expired : SUBSET Ids]
    BY InvFacts DEF EngOK
  <2>4. u = [pc |-> "emit", req |-> eng.req, id |-> id, frame |-> "final",
             final |-> TRUE, after |-> "expire", expired |-> eng.expired \ {id}]
    BY <2>2, <2>3
  <2>5. id \in Ids
    BY <2>3
  <2>6. EngOK' /\ eng'.pc = "emit"
    BY <2>1, <2>3, <2>4, <2>5 DEF EngOK, LoopPCs, Frames, Returns
  <2>7. LoopGoes
    BY <2>6, GoesElsewhere
  <2>8. Ends
    BY <1>3, <2>5, CancelEnds
  <2> QED BY <1>1, <2>7, <2>8, NoToken, SameStreams, InvFacts, LoopStep
<1> QED BY <1>2, <1>3 DEF CancelExpired

\* Scheduler.step: the batch comes from waiting and running.
LEMMA StepScheduleStep == ASSUME LoopInv, ScheduleStep PROVE LoopInv'
<1>1. /\ UNCHANGED <<uncached, out>> /\ seqId' = seqId /\ phase' = phase /\ cancelled' = cancelled
      /\ ran' = FALSE /\ byReq' = byReq
      /\ UNCHANGED <<deltaQs, dq>>
      /\ UNCHANGED <<submitQ, cancelledIds, deadline, lost, httpVars>>
      /\ lock' = lock /\ stopping' = stopping /\ FormBatch
  BY DEF ScheduleStep, FormBatch
<1>2. PICK pc \in {"forward", "exited", "top"} : Goto(pc)
  BY DEF ScheduleStep
<1>3. pc \in LoopPCs /\ pc \notin {"add", "check", "apply", "emit", "pop"}
  BY <1>2 DEF LoopPCs
<1>4. EngOK' /\ eng'.pc = pc
  BY <1>2, <1>3, InvFacts, GotoFacts
<1>5. LoopGoes
  BY <1>3, <1>4, GoesElsewhere
<1>6. /\ waiting' \in Seq(Reqs) /\ Len(waiting') <= Len(waiting)
      /\ Entries(waiting') \subseteq Entries(waiting)
      /\ batch' \in Seq(Reqs)
      /\ Entries(batch') \subseteq Entries(waiting) \cup Entries(running)
      /\ running' \in Seq(Reqs)
      /\ Entries(running') \subseteq Entries(waiting) \cup Entries(running)
  BY <1>1, InvFacts, FormFacts
<1>7. Entries(waiting) \subseteq Known /\ Entries(running) \subseteq Known
  BY DEF LoopInv, Arrived
<1>8. Len(waiting') <= MaxWaiting
  <2>1. Len(waiting) \in Nat /\ MaxWaiting \in Nat
    BY InvFacts, SchedulerAssumption
  <2>2. Len(waiting) <= MaxWaiting
    BY DEF LoopInv, LoopTypeOK, SchedTypeOK
  <2>3. Len(waiting') \in Nat
    BY <1>6
  <2> QED BY <1>6, <2>1, <2>2, <2>3
<1>9. Ends
  <2>1. /\ phase \in [Reqs -> {"new", "live", "finished", "rejected"}]
        /\ byReq \in [Ids -> Reqs \cup {NoReq}]
        /\ cancelled \subseteq Known
        /\ \A r \in cancelled : phase[r] # "finished" => IdOf[r] \in cancelledIds
    BY DEF LoopInv, LoopTypeOK, SchedTypeOK, Arrived, TokensLeft
  <2>2. Entries(waiting') \subseteq Known /\ Entries(running') \subseteq Known
    BY <1>6, <1>7
  <2> QED BY <1>1, <1>6, <1>8, <2>1, <2>2 DEF Ends
<1>10. Entries(batch') \subseteq Known
  BY <1>6, <1>7
<1> QED BY <1>1, <1>5, <1>6, <1>9, <1>10, NoToken, SameStreams, InvFacts, LoopStep

\* run_batch changes nothing the loop keeps.
LEMMA StepRunBatch == ASSUME LoopInv, RunBatch PROVE LoopInv'
<1>1. /\ UNCHANGED <<uncached, out>> /\ seqId' = seqId /\ UNCHANGED queues
      /\ batch' = batch /\ ran' = TRUE
      /\ UNCHANGED <<deltaQs, dq>>
      /\ UNCHANGED <<submitQ, cancelledIds, deadline, lost, httpVars>>
      /\ lock' = lock /\ stopping' = stopping
  BY DEF RunBatch, progress
<1>2. PICK pc \in {"results", "fail"} : Goto(pc)
  BY DEF RunBatch
<1>3. pc \in LoopPCs /\ pc \notin {"add", "check", "apply", "emit", "pop"}
  BY <1>2 DEF LoopPCs
<1>4. EngOK' /\ eng'.pc = pc
  BY <1>2, <1>3, InvFacts, GotoFacts
<1>5. LoopGoes
  BY <1>3, <1>4, GoesElsewhere
<1> QED BY <1>1, <1>5, NoEnd, NoToken, SameStreams, InvFacts, LoopStep

\* The error path ends one member of the batch.
LEMMA StepFailMember == ASSUME LoopInv, FailMember PROVE LoopInv'
<1>1. /\ UNCHANGED <<uncached, out>> /\ seqId' = seqId /\ cancelled' = cancelled
      /\ ran' = ran
      /\ UNCHANGED <<deltaQs, dq>>
      /\ UNCHANGED <<submitQ, cancelledIds, deadline, lost, httpVars>>
      /\ lock' = lock /\ stopping' = stopping
  BY DEF FailMember, progress
<1>2. CASE Goto("top") /\ UNCHANGED <<waiting, running, batch, phase, byReq>>
  <2>1. UNCHANGED queues
    BY <1>1, <1>2 DEF queues
  <2>2. Ends
    BY <2>1, NoEnd
  <2>3. "top" \in LoopPCs
    BY DEF LoopPCs
  <2>4. EngOK' /\ eng'.pc = "top"
    BY <1>2, <2>3, InvFacts, GotoFacts
  <2>5. LoopGoes
    BY <2>4, GoesElsewhere
  <2> QED BY <1>1, <1>2, <2>2, <2>5, NoToken, SameStreams, InvFacts, LoopStep
<1>3. CASE /\ batch # <<>> /\ Finish(Head(batch)) /\ batch' = Tail(batch)
           /\ EmitThen(IdOf[Head(batch)], "final", TRUE, "fail")
  <2>1. /\ Tail(batch) \in Seq(Reqs) /\ Entries(Tail(batch)) \subseteq Entries(batch)
        /\ Head(batch) \in Entries(batch) /\ Head(batch) \in Reqs
    BY <1>3, InvFacts, TailEntries
  <2>2. Head(batch) \in Known /\ IdOf[Head(batch)] \in Ids /\ Entries(batch') \subseteq Known
    BY <1>3, <2>1, InvFacts
  <2>3. Ends
    BY <1>1, <1>3, <2>2, FinishEnds
  <2>4. "final" \in Frames /\ "fail" \in Returns
    BY DEF Frames, Returns
  <2>5. EngOK' /\ eng'.pc = "emit"
    BY <1>3, <2>2, <2>4, InvFacts, EmitFacts
  <2>6. LoopGoes
    BY <2>5, GoesElsewhere
  <2> QED BY <1>1, <1>3, <2>1, <2>2, <2>3, <2>6, NoToken, SameStreams, InvFacts, LoopStep
<1> QED BY <1>2, <1>3 DEF FailMember

\* The next result's request is one the scheduler knows.
LEMMA StepNextResult == ASSUME LoopInv, NextResult PROVE LoopInv'
<1>1. /\ UNCHANGED <<uncached, out>> /\ seqId' = seqId /\ cancelled' = cancelled
      /\ ran' = ran /\ waiting' = waiting /\ phase' = phase /\ byReq' = byReq
      /\ UNCHANGED <<deltaQs, dq>>
      /\ UNCHANGED <<submitQ, cancelledIds, deadline, lost, httpVars>>
      /\ lock' = lock /\ stopping' = stopping
  BY DEF NextResult, progress
<1>2. CASE running' = KeptLive(running) /\ Goto("top") /\ batch' = batch
  <2>1. running' \in Seq(Reqs) /\ Entries(running') \subseteq Entries(running)
    BY <1>2, InvFacts, KeptFacts
  <2>2. Entries(running') \subseteq Known
    BY <2>1 DEF LoopInv, Arrived
  <2>3. Ends
    BY <1>1, <2>1, <2>2 DEF LoopInv, LoopTypeOK, SchedTypeOK, Arrived, TokensLeft, Ends
  <2>4. "top" \in LoopPCs
    BY DEF LoopPCs
  <2>5. EngOK' /\ eng'.pc = "top"
    BY <1>2, <2>4, InvFacts, GotoFacts
  <2>6. LoopGoes
    BY <2>5, GoesElsewhere
  <2> QED BY <1>1, <1>2, <2>3, <2>6, NoToken, SameStreams, InvFacts, LoopStep
<1>3. CASE /\ batch # <<>> /\ batch' = Tail(batch) /\ running' = running /\ eng.pc = "results"
           /\ IF Live(Head(batch)) THEN eng' = [eng EXCEPT !.pc = "check", !.req = Head(batch)]
              ELSE UNCHANGED eng
  <2>1. /\ Tail(batch) \in Seq(Reqs) /\ Entries(Tail(batch)) \subseteq Entries(batch)
        /\ Head(batch) \in Entries(batch) /\ Head(batch) \in Reqs
    BY <1>3, InvFacts, TailEntries
  <2>2. Head(batch) \in Known /\ IdOf[Head(batch)] \in Ids /\ Entries(batch') \subseteq Known
    BY <1>3, <2>1, InvFacts
  <2>3. UNCHANGED queues
    BY <1>1, <1>3 DEF queues
  <2>4. Ends
    BY <2>3, NoEnd
  <2>5. LoopGoes
    <3>1. CASE eng' = eng
      BY <1>3, <3>1, InvFacts DEF LoopGoes, EngOK
    <3>2. CASE Live(Head(batch)) /\ eng' = [eng EXCEPT !.pc = "check", !.req = Head(batch)]
      <4> DEFINE r == Head(batch)
                 u == [eng EXCEPT !.pc = "check", !.req = r]
      <4>1. eng' = u /\ r \in Known /\ r \in Reqs /\ Live(r)
        BY <2>1, <2>2, <3>2
      <4>2. u = [eng EXCEPT !.pc = "check", !.req = r]
        OBVIOUS
      <4> HIDE DEF u, r
      <4>3. eng \in [pc : LoopPCs, req : Reqs \cup {NoReq}, id : Ids \cup {NoReq}, frame : Frames,
                     final : BOOLEAN, after : Returns, expired : SUBSET Ids]
        BY InvFacts DEF EngOK
      <4>4. u = [pc |-> "check", req |-> r, id |-> eng.id, frame |-> eng.frame,
                 final |-> eng.final, after |-> eng.after, expired |-> eng.expired]
        BY <4>2, <4>3
      <4>5. EngOK' /\ eng'.pc = "check" /\ eng'.req = r
        BY <4>1, <4>3, <4>4 DEF EngOK, LoopPCs
      <4>6. out[r] < MaxTokens \/ IdOf[r] \in cancelledIds
        BY <4>1 DEF LoopInv, TokensLeft, Live
      <4> QED BY <1>1, <4>1, <4>5, <4>6 DEF LoopGoes
    <3> QED BY <1>3, <3>1, <3>2
  <2> QED BY <1>1, <1>3, <2>1, <2>2, <2>4, <2>5, NoToken, SameStreams, InvFacts, LoopStep
<1> QED BY <1>2, <1>3 DEF NextResult

\* Past the check, a request that is not cancelled has tokens left.
LEMMA StepCheckCancelled == ASSUME LoopInv, CheckCancelled PROVE LoopInv'
<1>1. /\ UNCHANGED <<uncached, out>> /\ seqId' = seqId /\ cancelled' = cancelled
      /\ ran' = ran /\ batch' = batch
      /\ UNCHANGED <<deltaQs, dq>>
      /\ UNCHANGED <<submitQ, cancelledIds, deadline, lost, httpVars>>
      /\ stopping' = stopping
  BY DEF CheckCancelled, progress
<1>2. /\ eng.req \in Known /\ IdOf[eng.req] \in Ids /\ eng.req \in Reqs
      /\ out[eng.req] < MaxTokens \/ IdOf[eng.req] \in cancelledIds
  BY InvFacts DEF LoopInv, Arrived, TokensLeft, CheckCancelled
<1>3. CASE Finish(eng.req) /\ lock' = "loop" /\ EmitThen(IdOf[eng.req], "final", TRUE, "unlock")
  <2>1. Ends
    BY <1>1, <1>2, <1>3, FinishEnds
  <2>2. "final" \in Frames /\ "unlock" \in Returns
    BY DEF Frames, Returns
  <2>3. EngOK' /\ eng'.pc = "emit"
    BY <1>2, <1>3, <2>2, InvFacts, EmitFacts
  <2>4. LoopGoes
    BY <2>3, GoesElsewhere
  <2> QED BY <1>1, <1>3, <2>1, <2>4, NoToken, SameStreams, InvFacts, LoopStep
<1>4. CASE /\ IdOf[eng.req] \notin cancelledIds /\ Goto("apply")
           /\ UNCHANGED <<waiting, running, phase, byReq, lock>>
  <2>1. UNCHANGED queues
    BY <1>1, <1>4 DEF queues
  <2>2. Ends
    BY <2>1, NoEnd
  <2>3. "apply" \in LoopPCs
    BY DEF LoopPCs
  <2>4. EngOK' /\ eng'.pc = "apply" /\ eng'.req = eng.req
    BY <1>2, <1>4, <2>3, InvFacts, GotoFacts
  <2>5. LoopGoes
    BY <1>1, <1>2, <1>4, <2>4 DEF LoopGoes
  <2> QED BY <1>1, <1>4, <2>2, <2>5, NoToken, SameStreams, InvFacts, LoopStep
<1> QED BY <1>3, <1>4 DEF CheckCancelled

\* Giving the lock up.
LEMMA StepUnlock == ASSUME LoopInv, Unlock PROVE LoopInv'
<1>1. /\ UNCHANGED <<schedVars, byReq>>
      /\ UNCHANGED <<deltaQs, dq>>
      /\ UNCHANGED <<submitQ, cancelledIds, deadline, lost, httpVars>>
      /\ lock' = "free" /\ stopping' = stopping /\ Goto("results")
  BY DEF Unlock
<1>3. "results" \in LoopPCs
  BY DEF LoopPCs
<1>4. EngOK' /\ eng'.pc = "results"
  BY <1>1, <1>3, InvFacts, GotoFacts
<1>5. LoopGoes
  BY <1>4, GoesElsewhere
<1> QED BY <1>1, <1>5, SchedStill, SameStreams, InvFacts, LoopStep

\* update_after_*: one more token, within the limit.
LEMMA OneToken ==
  ASSUME LoopInv, Ends, NEW r \in Reqs, out[r] < MaxTokens,
         uncached' = [uncached EXCEPT ![r] = 0],
         out' = [out EXCEPT ![r] = @ + 1],
         phase'[r] # "finished" => out[r] + 1 < MaxTokens \/ r \in cancelled'
  PROVE  Counts
<1>1. uncached \in [Reqs -> Nat] /\ out \in [Reqs -> 0..MaxTokens] /\ MaxTokens \in Nat
  BY SchedulerAssumption DEF LoopInv, LoopTypeOK, SchedTypeOK
<1>2. uncached' \in [Reqs -> Nat]
  BY <1>1
<1>3. out[r] \in 0..MaxTokens /\ out[r] + 1 \in 0..MaxTokens
  BY <1>1
<1>4. out' \in [Reqs -> 0..MaxTokens] /\ out'[r] = out[r] + 1
      /\ \A x \in Reqs \ {r} : out'[x] = out[x]
  BY <1>1, <1>3
<1>5. ASSUME NEW x \in Reqs, phase'[x] # "finished" PROVE out'[x] < MaxTokens \/ x \in cancelled'
  <2>1. CASE x = r
    BY <1>4, <1>5, <2>1
  <2>2. CASE x # r
    BY <1>4, <1>5, <2>2 DEF LoopInv, TokensLeft, Ends
  <2> QED BY <2>1, <2>2
<1> QED BY <1>2, <1>4, <1>5 DEF Counts

\* A token is applied to a request that has tokens left.
LEMMA StepApply == ASSUME LoopInv, Apply PROVE LoopInv'
<1>1. /\ ran' = ran /\ batch' = batch
      /\ UNCHANGED <<deltaQs, dq>>
      /\ UNCHANGED <<submitQ, cancelledIds, deadline, lost, httpVars>>
      /\ stopping' = stopping /\ lock' = lock
  BY DEF Apply
<1> DEFINE r == eng.req
<1>2. r \in Known /\ IdOf[r] \in Ids /\ r \in Reqs /\ out[r] < MaxTokens
  BY InvFacts DEF LoopInv, Arrived, TokensLeft, Apply
<1>3. "results" \in Returns
  BY DEF Returns
<1>4. CASE /\ r \in cancelled
           /\ uncached' = [uncached EXCEPT ![r] = 0] /\ out' = [out EXCEPT ![r] = @ + 1]
           /\ EmitThen(IdOf[r], IF Live(r) THEN "blank" ELSE "final", TRUE, "results")
           /\ UNCHANGED <<seqId, queues>>
  <2>1. Ends /\ cancelled' = cancelled
    BY <1>4, NoEnd DEF queues
  <2>2. Counts
    BY <1>2, <1>4, <2>1, OneToken
  <2>3. PICK f \in Frames : EmitThen(IdOf[r], f, TRUE, "results")
    BY <1>4 DEF Frames
  <2>4. EngOK' /\ eng'.pc = "emit"
    BY <1>2, <1>3, <2>3, InvFacts, EmitFacts
  <2>5. LoopGoes
    BY <2>4, GoesElsewhere
  <2> QED BY <1>1, <1>4, <2>1, <2>2, <2>5, SameStreams, InvFacts, LoopStep
<1>5. CASE /\ r \notin cancelled /\ ApplyToken(r)
           /\ byReq' = IF phase'[r] = "finished" THEN [byReq EXCEPT ![IdOf[r]] = NoReq] ELSE byReq
           /\ LET over == phase'[r] = "finished"
              IN  EmitThen(IdOf[r], IF over THEN "final" ELSE "token", over, "results")
  <2>1. /\ uncached' = [uncached EXCEPT ![r] = 0] /\ out' = [out EXCEPT ![r] = @ + 1]
        /\ cancelled' = cancelled /\ seqId' = seqId
    BY <1>5 DEF ApplyToken
  <2>2. CASE MarkFinished(r)
    <3>1. phase'[r] = "finished"
      BY <1>2, <2>2 DEF MarkFinished, LoopInv, LoopTypeOK, SchedTypeOK
    <3>2. Finish(r)
      BY <1>5, <2>2, <3>1 DEF Finish
    <3>3. Ends
      BY <1>2, <2>1, <3>2, FinishEnds
    <3>4. Counts
      BY <1>2, <2>1, <3>1, <3>3, OneToken
    <3>5. EmitThen(IdOf[r], "final", TRUE, "results")
      BY <1>5, <3>1
    <3>6. "final" \in Frames
      BY DEF Frames
    <3>7. EngOK' /\ eng'.pc = "emit"
      BY <1>2, <1>3, <3>5, <3>6, InvFacts, EmitFacts
    <3>8. LoopGoes
      BY <3>7, GoesElsewhere
    <3> QED BY <1>1, <2>1, <3>3, <3>4, <3>8, SameStreams, InvFacts, LoopStep
  <2>3. CASE out[r] + 1 < MaxTokens /\ UNCHANGED <<phase, running, waiting>>
    <3>1. Ends
      <4>1. byReq \in [Ids -> Reqs \cup {NoReq}]
        BY DEF LoopInv, LoopTypeOK
      <4>2. byReq' \in [Ids -> Reqs \cup {NoReq}] /\ \A i \in Ids : byReq'[i] \in {byReq[i], NoReq}
        BY <1>2, <1>5, <4>1
      <4> QED BY <2>1, <2>3, <4>2 DEF LoopInv, LoopTypeOK, SchedTypeOK, Arrived, TokensLeft, Ends
    <3>2. Counts
      BY <1>2, <2>1, <2>3, <3>1, OneToken
    <3>3. \E f \in Frames, b \in BOOLEAN : EmitThen(IdOf[r], f, b, "results")
      <4>1. CASE phase'[r] = "finished"
        <5>1. EmitThen(IdOf[r], "final", TRUE, "results")
          BY <1>5, <4>1
        <5> QED BY <5>1 DEF Frames
      <4>2. CASE phase'[r] # "finished"
        <5>1. EmitThen(IdOf[r], "token", FALSE, "results")
          BY <1>5, <4>2
        <5> QED BY <5>1 DEF Frames
      <4> QED BY <4>1, <4>2
    <3>4. PICK f \in Frames, b \in BOOLEAN : EmitThen(IdOf[r], f, b, "results")
      BY <3>3
    <3>5. EngOK' /\ eng'.pc = "emit"
      BY <1>2, <1>3, <3>4, InvFacts, EmitFacts
    <3>6. LoopGoes
      BY <3>5, GoesElsewhere
    <3> QED BY <1>1, <2>1, <3>1, <3>2, <3>6, SameStreams, InvFacts, LoopStep
  <2> QED BY <1>5, <2>2, <2>3 DEF ApplyToken
<1> QED BY <1>4, <1>5 DEF Apply

\* A frame put into a delta queue that has room.
LEMMA PutFacts ==
  ASSUME LoopInv, deltaQs' = deltaQs, NEW q \in Reqs, NEW f \in Frames, Len(dq[q]) < QueueSize,
         dq' = [dq EXCEPT ![q] = Append(@, f)]
  PROVE  Streams
<1>1. dq \in [Reqs -> Seq(Frames)] /\ deltaQs \in [Ids -> Reqs \cup {NoReq}] /\ QueueSize \in Nat
      /\ \A r \in Reqs : Len(dq[r]) <= QueueSize
  BY LoopAssumption DEF LoopInv, LoopTypeOK, Threads
<1>2. Append(dq[q], f) \in Seq(Frames) /\ Len(Append(dq[q], f)) = Len(dq[q]) + 1 /\ Len(dq[q]) \in Nat
  BY <1>1
<1>3. Len(Append(dq[q], f)) <= QueueSize
  BY <1>1, <1>2
<1>4. dq' \in [Reqs -> Seq(Frames)] /\ dq'[q] = Append(dq[q], f) /\ \A r \in Reqs \ {q} : dq'[r] = dq[r]
  BY <1>1, <1>2
<1> QED BY <1>1, <1>3, <1>4 DEF Streams

\* _emit puts a frame into a queue that has room, or cancels.
LEMMA StepEmitPut == ASSUME LoopInv, EmitPut PROVE LoopInv'
<1>1. /\ UNCHANGED <<uncached, out>> /\ seqId' = seqId
      /\ ran' = ran /\ batch' = batch /\ deltaQs' = deltaQs
      /\ UNCHANGED <<submitQ, cancelledIds, deadline, httpVars>>
      /\ stopping' = stopping /\ lock' = lock
  BY DEF EmitPut, progress
<1>2. /\ eng.pc = "emit" /\ eng.id \in Ids /\ eng.after \in Returns /\ eng.frame \in Frames
      /\ deltaQs[eng.id] \in Reqs \cup {NoReq}
  BY InvFacts DEF EmitPut, EngOK, LoopInv, LoopTypeOK
<1>3. PICK pc \in Returns \cup {"pop"} : Goto(pc)
  BY <1>2 DEF EmitPut
<1>4. pc \in LoopPCs /\ pc \notin {"add", "check", "apply", "emit"}
  BY <1>3 DEF LoopPCs, Returns
<1>5. EngOK' /\ eng'.pc = pc
  BY <1>2, <1>3, <1>4, InvFacts, GotoFacts
<1>6. LoopGoes
  BY <1>4, <1>5, GoesElsewhere
<1>7. Ends /\ Streams
  <2> DEFINE q == deltaQs[eng.id]
  <2>1. CASE dq' = dq /\ UNCHANGED queues
    BY <1>1, <2>1, NoEnd, SameStreams
  <2>2. CASE q # NoReq /\ Len(dq[q]) < QueueSize /\ dq' = [dq EXCEPT ![q] = Append(@, eng.frame)]
             /\ UNCHANGED queues
    BY <1>1, <1>2, <2>2, NoEnd, PutFacts
  <2>3. CASE CancelById(eng.id) /\ dq' = dq
    BY <1>1, <1>2, <2>3, CancelEnds, SameStreams
  <2> QED BY <2>1, <2>2, <2>3 DEF EmitPut
<1>8. lost' \subseteq {"frame", "place"} \X Reqs
  <2>1. lost \subseteq {"frame", "place"} \X Reqs
    BY DEF LoopInv, LoopTypeOK
  <2>2. PICK q : q = deltaQs[eng.id]
    OBVIOUS
  <2>3. lost' = lost \/ (q # NoReq /\ lost' = lost \cup {<<"frame", q>>})
    BY <2>2 DEF EmitPut
  <2>4. q \in Reqs \cup {NoReq}
    BY <1>2, <2>2
  <2> QED BY <2>1, <2>3, <2>4
<1> QED BY <1>1, <1>6, <1>7, <1>8, NoToken, InvFacts, LoopMoves

\* _emit forgets the queue.
LEMMA StepEmitPop == ASSUME LoopInv, EmitPop PROVE LoopInv'
<1>1. /\ UNCHANGED <<schedVars, byReq>>
      /\ dq' = dq /\ deltaQs' = [deltaQs EXCEPT ![eng.id] = NoReq]
      /\ UNCHANGED <<submitQ, cancelledIds, deadline, lost, httpVars>>
      /\ lock' = lock /\ stopping' = stopping /\ Goto(eng.after)
  BY DEF EmitPop
<1>2. eng.id \in Ids /\ eng.after \in Returns
  BY InvFacts DEF EmitPop, EngOK
<1>3. eng.after \in LoopPCs /\ eng.after \notin {"add", "check", "apply", "emit", "pop"}
  BY <1>2 DEF LoopPCs, Returns
<1>4. EngOK' /\ eng'.pc = eng.after
  BY <1>1, <1>3, InvFacts, GotoFacts
<1>5. LoopGoes
  BY <1>3, <1>4, GoesElsewhere
<1>6. Streams
  BY <1>1, <1>2 DEF LoopInv, LoopTypeOK, Threads, Streams
<1> QED BY <1>1, <1>5, <1>6, SchedStill, InvFacts, LoopStep

-----------------------------------------------------------------------------
(* From the submit queue into the scheduler                                  *)

\* Taking the first item off the submit queue.
LEMMA TailOfQueue ==
  ASSUME NEW T, NEW q \in Seq(T), q # <<>>, Unique(q)
  PROVE  /\ Tail(q) \in Seq(T) /\ Unique(Tail(q)) /\ Entries(Tail(q)) \subseteq Entries(q)
         /\ Head(q) \in Entries(q) /\ Head(q) \in T
         /\ Head(q) \in Reqs => Head(q) \notin Entries(Tail(q))
<1> DEFINE t == Tail(q)
<1>1. t \in Seq(T) /\ Len(t) = Len(q) - 1 /\ Len(q) \in Nat \ {0}
  OBVIOUS
<1>2. \A i \in 1..Len(t) : t[i] = q[i + 1]
  OBVIOUS
<1>3. Head(q) = q[1]
  OBVIOUS
<1>4. Entries(t) \subseteq Entries(q) /\ Head(q) \in Entries(q) /\ Head(q) \in T
  BY TailEntries
<1> HIDE DEF t
<1>5. \A i \in 1..Len(t) : i + 1 \in 1..Len(q) /\ i + 1 # 1 /\ i \in Nat
  BY <1>1
<1>6. Unique(t)
  <2> SUFFICES ASSUME NEW i \in 1..Len(t), NEW j \in 1..Len(t), t[i] = t[j], t[i] \in Reqs
               PROVE  i = j
    BY DEF Unique
  <2>1. i + 1 = j + 1
    BY <1>2, <1>5 DEF Unique
  <2> QED BY <1>5, <2>1
<1>7. ASSUME Head(q) \in Reqs, Head(q) \in Entries(t) PROVE FALSE
  <2>1. PICK i \in 1..Len(t) : t[i] = q[1]
    BY <1>3, <1>7 DEF Entries
  <2>2. q[i + 1] = q[1] /\ q[1] \in Reqs /\ i + 1 \in 1..Len(q) /\ i + 1 # 1 /\ 1 \in 1..Len(q)
    BY <1>1, <1>2, <1>3, <1>5, <1>7, <2>1
  <2> QED BY <2>2 DEF Unique
<1> QED BY <1>1, <1>4, <1>6, <1>7 DEF t

\* _admit_pending: with ids of their own, a mark is only met by the request it was
\* made for, so that a skipped request was cancelled.
LEMMA StepAdmit == ASSUME DistinctIds, LoopInv, Admit PROVE LoopInv'
<1>1. /\ UNCHANGED <<schedVars, byReq>> /\ UNCHANGED <<deltaQs, dq>> /\ lost' = lost
      /\ deadline' = deadline /\ lock' = lock /\ UNCHANGED httpVars /\ eng.pc = "admit"
  BY DEF Admit
<1>2. CASE Goto("timeouts") /\ UNCHANGED <<submitQ, cancelledIds, stopping>>
  <2>1. "timeouts" \in LoopPCs
    BY DEF LoopPCs
  <2>2. EngOK' /\ eng'.pc = "timeouts"
    BY <1>2, <2>1, InvFacts, GotoFacts
  <2>3. LoopGoes
    BY <2>2, GoesElsewhere
  <2> QED BY <1>1, <1>2, <2>3, SchedStill, SameStreams, InvFacts, LoopStep
<1>3. CASE submitQ # <<>> /\ submitQ' = Tail(submitQ)
  <2>0. PICK item : item = Head(submitQ)
    OBVIOUS
  <2>1. submitQ \in Seq(Reqs \cup {StopItem}) /\ Unique(submitQ)
    BY DEF LoopInv, LoopTypeOK, Journey
  <2>2. /\ submitQ' \in Seq(Reqs \cup {StopItem}) /\ Unique(submitQ)'
        /\ Entries(submitQ') \subseteq Entries(submitQ)
        /\ item \in Entries(submitQ) /\ item \in Reqs \cup {StopItem}
        /\ item \in Reqs => item \notin Entries(submitQ')
    <3>1. /\ Tail(submitQ) \in Seq(Reqs \cup {StopItem}) /\ Unique(Tail(submitQ))
          /\ Entries(Tail(submitQ)) \subseteq Entries(submitQ)
          /\ Head(submitQ) \in Entries(submitQ) /\ Head(submitQ) \in Reqs \cup {StopItem}
          /\ Head(submitQ) \in Reqs => Head(submitQ) \notin Entries(Tail(submitQ))
      BY <1>3, <2>1, TailOfQueue
    <3> QED BY <1>3, <2>0, <3>1 DEF Unique
  <2>3. UNCHANGED <<waiting, running, batch, ran, phase, cancelled, uncached, out, seqId, byReq>>
        /\ UNCHANGED <<draining, http, client, asked, deltaQs, dq, deadline, lock>>
    BY <1>1 DEF schedVars, httpVars
  <2>4. Known' = Known
    BY <2>3 DEF Known
  <2>5. SchedTypeOK'
    BY <2>3 DEF LoopInv, LoopTypeOK, SchedTypeOK
  <2>6. ASSUME cancelledIds' \subseteq cancelledIds
        PROVE  LoopTypeOK'
    BY <1>1, <2>2, <2>3, <2>5, <2>6 DEF LoopInv, LoopTypeOK
  <2>7. ASSUME stopping' \in BOOLEAN, EngOK' PROVE Threads'
    BY <2>3, <2>7 DEF LoopInv, Threads, HttpOK
  <2>8. ASSUME eng'.pc \notin {"check", "apply"} PROVE Arrived'
    BY <2>3, <2>4, <2>8 DEF LoopInv, Arrived
  <2>9. \A r \in Reqs : NeverTaken(r)' => NeverTaken(r)
    BY <2>2, <2>3 DEF NeverTaken
  <2>10. item \in Reqs => NeverTaken(item) /\ ~NeverTaken(item)'
    BY <2>2, <2>3 DEF NeverTaken, LoopInv, Journey
  <2>11. Journey /\ Marks /\ TokensLeft
    BY DEF LoopInv
  <2>12. CASE item = StopItem /\ stopping' = TRUE /\ Goto("timeouts") /\ cancelledIds' = cancelledIds
    <3>1. "timeouts" \in LoopPCs
      BY DEF LoopPCs
    <3>2. EngOK' /\ eng'.pc = "timeouts"
      BY <2>12, <3>1, InvFacts, GotoFacts
    <3>3. LoopTypeOK' /\ Threads' /\ Arrived'
      BY <2>6, <2>7, <2>8, <2>12, <3>2 DEF LoopInv, LoopTypeOK
    <3>4. Journey'
      <4>1. \A r \in Reqs : ~AtAdd(r)'
        BY <3>2 DEF AtAdd
      <4>2. \A r \in Reqs : (http.pc = "put" /\ http.req = r) => r \notin Entries(submitQ')
        BY <2>2, <2>11 DEF Journey
      <4>3. Skipped' = Skipped
        BY <2>3, <2>12 DEF Skipped
      <4> QED BY <2>2, <2>3, <2>4, <2>9, <2>11, <2>12, <4>1, <4>2, <4>3 DEF Journey
    <3>5. Marks'
      BY <2>3, <2>11, <2>12 DEF Marks
    <3>6. TokensLeft'
      BY <2>3, <2>11, <2>12, <3>2 DEF TokensLeft
    <3> QED BY <3>3, <3>4, <3>5, <3>6 DEF LoopInv
  <2>13. CASE /\ item # StopItem /\ IdOf[item] \in cancelledIds
              /\ cancelledIds' = cancelledIds \ {IdOf[item]}
              /\ eng' = eng /\ stopping' = stopping
    <3>1. item \in Reqs /\ item \notin Known /\ client[item] # "new"
      BY <2>2, <2>10, <2>11, <2>13 DEF Journey
    <3>0. Skipped' \subseteq Skipped \cup {item}
      <4>1. asked \subseteq Reqs
        BY LoopAssumption DEF LoopInv, LoopTypeOK
      <4> QED BY <2>3, <2>13, <3>1, <4>1 DEF Skipped, DistinctIds
    <3>2. EngOK' /\ eng'.pc = "admit"
      BY <1>1, <2>13, InvFacts DEF EngOK
    <3>3. LoopTypeOK'
      BY <2>6, <2>13, <3>1 DEF LoopInv, LoopTypeOK
    <3>4. Threads' /\ Arrived'
      BY <2>7, <2>8, <2>13, <3>2, InvFacts
    <3>5. Journey'
      <4>1. \A r \in Reqs : ~AtAdd(r)'
        BY <3>2 DEF AtAdd
      <4>2. \A r \in Reqs : (http.pc = "put" /\ http.req = r) => r \notin Entries(submitQ')
        BY <2>2, <2>11 DEF Journey
      <4>3. \A r \in Skipped' : r \notin Known'
        BY <2>4, <2>11, <2>13, <3>0, <3>1 DEF Journey
      <4>4. \A r \in Reqs : client'[r] = "new" =>
              ~NeverTaken(r)' /\ r \notin Known' \cup Skipped' \cup asked'
        BY <2>3, <2>4, <2>9, <2>11, <2>13, <3>0, <3>1 DEF Journey
      <4>5. \A r \in Reqs : NeverTaken(r)' => r \notin Known' \cup Skipped'
        BY <2>4, <2>9, <2>10, <2>11, <2>13, <3>0, <3>1 DEF Journey
      <4> QED BY <2>2, <2>3, <4>1, <4>2, <4>3, <4>4, <4>5 DEF Journey
    <3>9. \A r \in Reqs : r # item => IdOf[r] # IdOf[item]
      BY <3>1 DEF DistinctIds
    <3>10. Marks'
      BY <2>3, <2>11, <2>13 DEF Marks
    <3>11. TokensLeft'
      <4>1. \A r \in cancelled : r \in Reqs /\ r # item
        BY <3>1, InvFacts DEF LoopInv, Arrived
      <4>2. \A r \in cancelled : phase[r] # "finished" => IdOf[r] \in cancelledIds'
        BY <2>11, <2>13, <3>9, <4>1 DEF TokensLeft
      <4> QED BY <2>3, <2>11, <3>2, <4>2 DEF TokensLeft
    <3> QED BY <3>3, <3>4, <3>5, <3>10, <3>11 DEF LoopInv
  <2>14. CASE /\ item # StopItem /\ eng' = [eng EXCEPT !.pc = "add", !.req = item]
              /\ UNCHANGED <<cancelledIds, stopping>>
    <3>1. item \in Reqs /\ item \notin Known /\ item \notin Skipped /\ client[item] # "new"
      BY <2>2, <2>10, <2>11, <2>14 DEF Journey
    <3>0. Skipped' = Skipped
      BY <2>3, <2>14 DEF Skipped
    <3> DEFINE u == [eng EXCEPT !.pc = "add", !.req = item]
    <3>2. eng' = u
      BY <2>14
    <3>3. u = [eng EXCEPT !.pc = "add", !.req = item]
      OBVIOUS
    <3> HIDE DEF u
    <3>4. eng \in [pc : LoopPCs, req : Reqs \cup {NoReq}, id : Ids \cup {NoReq}, frame : Frames,
                   final : BOOLEAN, after : Returns, expired : SUBSET Ids]
      BY InvFacts DEF EngOK
    <3>5. u = [pc |-> "add", req |-> item, id |-> eng.id, frame |-> eng.frame,
               final |-> eng.final, after |-> eng.after, expired |-> eng.expired]
      BY <3>3, <3>4
    <3>6. EngOK' /\ eng'.pc = "add" /\ eng'.req = item
      BY <3>1, <3>2, <3>4, <3>5 DEF EngOK, LoopPCs
    <3>7. LoopTypeOK'
      BY <2>6, <2>14 DEF LoopInv, LoopTypeOK
    <3>8. Threads' /\ Arrived'
      BY <2>7, <2>8, <2>14, <3>6, InvFacts
    <3>9. Journey'
      <4>1. \A r \in Reqs : AtAdd(r)' <=> r = item
        BY <3>6 DEF AtAdd
      <4>2. \A r \in Reqs : (http.pc = "put" /\ http.req = r) => r \notin Entries(submitQ')
        BY <2>2, <2>11 DEF Journey
      <4>3. \A r \in Reqs : NeverTaken(r)' => r # item
        BY <2>10
      <4> QED BY <2>2, <2>3, <2>4, <2>9, <2>11, <2>14, <3>0, <3>1, <4>1, <4>2, <4>3 DEF Journey
    <3>10. Marks'
      BY <2>3, <2>11, <2>14 DEF Marks
    <3>11. TokensLeft'
      BY <2>3, <2>11, <2>14, <3>6 DEF TokensLeft
    <3> QED BY <3>7, <3>8, <3>9, <3>10, <3>11 DEF LoopInv
  <2> QED BY <1>3, <2>0, <2>12, <2>13, <2>14 DEF Admit
<1> QED BY <1>2, <1>3 DEF Admit

\* The scheduler meets the request at hand.
LEMMA Meets ==
  ASSUME LoopInv, eng.pc = "add", NEW state \in {"live", "rejected"},
         phase' = [phase EXCEPT ![eng.req] = state],
         UNCHANGED <<submitQ, cancelledIds, httpVars, cancelled, out>>,
         EngOK', eng'.pc \notin {"add", "check", "apply"}
  PROVE  /\ Journey' /\ Marks' /\ TokensLeft' /\ Known' = Known \cup {eng.req}
         /\ phase' \in [Reqs -> {"new", "live", "finished", "rejected"}]
<1> DEFINE r == eng.req
<1>1. r \in Reqs
  BY InvFacts DEF EngOK
<1>2. phase \in [Reqs -> {"new", "live", "finished", "rejected"}]
  BY DEF LoopInv, LoopTypeOK, SchedTypeOK
<1>3. phase' \in [Reqs -> {"new", "live", "finished", "rejected"}] /\ phase'[r] = state
      /\ \A x \in Reqs \ {r} : phase'[x] = phase[x]
  BY <1>1, <1>2
<1>4. UNCHANGED <<draining, http, client, asked>> /\ Skipped' = Skipped
  BY DEF httpVars, Skipped
<1>5. Known' = Known \cup {r}
  BY <1>1, <1>3 DEF Known
<1>6. Journey /\ Marks /\ TokensLeft /\ Arrived
  BY DEF LoopInv
<1>7. r \notin Known /\ r \notin Skipped /\ client[r] # "new" /\ ~NeverTaken(r) /\ phase[r] = "new"
  BY <1>1, <1>6 DEF Journey, AtAdd, Known
<1>8. \A x \in Reqs : ~AtAdd(x)' /\ (NeverTaken(x)' <=> NeverTaken(x))
  BY <1>4 DEF AtAdd, NeverTaken
<1>9. Journey'
  <2> HIDE DEF r
  <2> QED BY <1>4, <1>5, <1>6, <1>7, <1>8 DEF Journey, Unique
<1>10. Marks'
  BY <1>4, <1>6 DEF Marks
<1>11. TokensLeft'
  <2>1. r \notin cancelled
    BY <1>6, <1>7 DEF Arrived
  <2>2. \A x \in cancelled' : phase'[x] # "finished" => IdOf[x] \in cancelledIds'
    BY <1>3, <1>6, <2>1, InvFacts DEF TokensLeft, Arrived
  <2>3. \A x \in Reqs : phase'[x] # "finished" => out'[x] < MaxTokens \/ x \in cancelled'
    BY <1>3, <1>6, <1>7 DEF TokensLeft
  <2> QED BY <2>2, <2>3 DEF TokensLeft
<1> QED BY <1>3, <1>5, <1>9, <1>10, <1>11

\* add_request: the request enters the scheduler for the first time.
LEMMA StepAdd == ASSUME LoopInv, Add PROVE LoopInv'
<1> DEFINE r == eng.req
<1>1. /\ UNCHANGED <<submitQ, deltaQs, dq, cancelledIds, deadline, lock, stopping, lost, httpVars>>
      /\ eng.pc = "add"
  BY DEF Add
<1>2. UNCHANGED <<draining, http, client, asked>>
  BY <1>1 DEF httpVars
<1>3. r \in Reqs /\ IdOf[r] \in Ids /\ EngOK
  BY <1>1, InvFacts DEF EngOK
<1>4. ASSUME EngOK' PROVE Threads'
  BY <1>1, <1>2, <1>4 DEF LoopInv, Threads, HttpOK
<1>5. ASSUME SchedTypeOK', byReq' \in [Ids -> Reqs \cup {NoReq}] PROVE LoopTypeOK'
  BY <1>1, <1>2, <1>5 DEF LoopInv, LoopTypeOK
<1>6. ASSUME NEW hit \in 0..PromptLen[r], AddRequest(r, hit),
             byReq' = [byReq EXCEPT ![IdOf[r]] = r], Goto("admit")
      PROVE  LoopInv'
  <2>1. "admit" \in LoopPCs
    BY DEF LoopPCs
  <2>2. EngOK' /\ eng'.pc = "admit"
    BY <1>3, <1>6, <2>1, GotoFacts
  <2>3. /\ waiting' = Append(waiting, r) /\ seqId' = [seqId EXCEPT ![r] = Cardinality(Admitted) + 1]
        /\ uncached' = [uncached EXCEPT ![r] = PromptLen[r] - hit]
        /\ phase' = [phase EXCEPT ![r] = "live"]
        /\ UNCHANGED <<running, batch, ran, cancelled, out>>
        /\ ~(Len(waiting) >= MaxWaiting)
    BY <1>6 DEF AddRequest, Refuses
  <2>4. /\ Journey' /\ Marks' /\ TokensLeft' /\ Known' = Known \cup {r}
        /\ phase' \in [Reqs -> {"new", "live", "finished", "rejected"}]
    BY <1>1, <2>2, <2>3, Meets
  <2>5. waiting' \in Seq(Reqs) /\ Entries(waiting') = Entries(waiting) \cup {r}
        /\ Len(waiting') = Len(waiting) + 1
    BY <1>3, <2>3, InvFacts, AppendFacts
  <2>6. Len(waiting') <= MaxWaiting
    <3>1. Len(waiting) \in Nat /\ MaxWaiting \in Nat
      BY InvFacts, SchedulerAssumption
    <3> QED BY <2>3, <2>5, <3>1
  <2>7. Cardinality(Admitted) \in Nat
    <3>1. Admitted \subseteq Reqs
      BY DEF Admitted
    <3> QED BY <3>1, SchedulerAssumption, FS_Subset, FS_CardinalityType
  <2>8. PromptLen[r] - hit \in Nat
    <3>1. PromptLen[r] \in Nat
      BY <1>3, SchedulerAssumption
    <3> QED BY <3>1
  <2>9. SchedTypeOK'
    <3>1. SchedTypeOK
      BY DEF LoopInv, LoopTypeOK
    <3>2. seqId' \in [Reqs -> Nat] /\ uncached' \in [Reqs -> Nat]
      <4>1. PICK n \in Nat : n = Cardinality(Admitted)
        BY <2>7
      <4>2. PICK m \in Nat : m = PromptLen[r] - hit
        BY <2>8
      <4>3. seqId' = [seqId EXCEPT ![r] = n + 1] /\ uncached' = [uncached EXCEPT ![r] = m]
        BY <2>3, <4>1, <4>2
      <4>4. n + 1 \in Nat
        BY <4>1
      <4>5. seqId \in [Reqs -> Nat] /\ uncached \in [Reqs -> Nat]
        BY <3>1 DEF SchedTypeOK
      <4> QED BY <4>2, <4>3, <4>4, <4>5
    <3> QED BY <2>3, <2>4, <2>5, <2>6, <3>1, <3>2 DEF SchedTypeOK
  <2>10. byReq' \in [Ids -> Reqs \cup {NoReq}] /\ byReq'[IdOf[r]] = r
         /\ \A i \in Ids : i # IdOf[r] => byReq'[i] = byReq[i]
    BY <1>3, <1>6 DEF LoopInv, LoopTypeOK
  <2>11. Arrived'
    <3>1. Arrived
      BY DEF LoopInv
    <3>2. \A i \in Ids : byReq'[i] # NoReq => byReq'[i] \in Known' /\ IdOf[byReq'[i]] = i
      BY <2>4, <2>10, <3>1 DEF Arrived
    <3> HIDE DEF r
    <3> QED BY <1>2, <2>2, <2>3, <2>4, <2>5, <3>1, <3>2 DEF Arrived
  <2> QED BY <1>4, <1>5, <2>2, <2>4, <2>9, <2>10, <2>11 DEF LoopInv
<1>7. CASE /\ EmitThen(IdOf[r], "final", TRUE, "admit")
           /\ phase' = [phase EXCEPT ![r] = "rejected"]
           /\ UNCHANGED <<waiting, running, batch, ran, cancelled, byReq, progress>>
  <2>1. "final" \in Frames /\ "admit" \in Returns
    BY DEF Frames, Returns
  <2>2. EngOK' /\ eng'.pc = "emit"
    BY <1>3, <1>7, <2>1, EmitFacts
  <2>3. UNCHANGED <<waiting, running, batch, ran, cancelled, byReq, uncached, out, seqId>>
    BY <1>7 DEF progress
  <2>4. /\ Journey' /\ Marks' /\ TokensLeft' /\ Known' = Known \cup {r}
        /\ phase' \in [Reqs -> {"new", "live", "finished", "rejected"}]
    BY <1>1, <1>7, <2>2, <2>3, Meets
  <2>5. SchedTypeOK'
    BY <2>3, <2>4 DEF LoopInv, LoopTypeOK, SchedTypeOK
  <2>6. byReq' \in [Ids -> Reqs \cup {NoReq}]
    BY <2>3 DEF LoopInv, LoopTypeOK
  <2>7. Arrived'
    <3>1. Arrived
      BY DEF LoopInv
    <3> HIDE DEF r
    <3> QED BY <1>2, <2>2, <2>3, <2>4, <3>1 DEF Arrived
  <2> QED BY <1>4, <1>5, <2>2, <2>4, <2>5, <2>6, <2>7 DEF LoopInv
<1> QED BY <1>6, <1>7 DEF Add

-----------------------------------------------------------------------------
(* Steps of the event loop thread                                            *)

\* Where a jump of the event loop thread leads.
LEMMA GotoHttpFacts ==
  ASSUME HttpOK, NEW pc \in HttpPCs, GotoHttp(pc), pc # "idle" => http.req \in Reqs
  PROVE  /\ HttpOK'
         /\ http'.pc = pc /\ http'.req = http.req /\ http'.had = http.had /\ http'.snap = http.snap
<1> DEFINE u == [http EXCEPT !.pc = pc]
<1>1. http' = u
  BY DEF GotoHttp
<1>2. u = [pc |-> pc, req |-> http.req, had |-> http.had, snap |-> http.snap]
  BY DEF HttpOK
<1> HIDE DEF u
<1> QED BY <1>1, <1>2 DEF HttpOK

\* Any step of the event loop, or of time, that leaves the submit queue and
\* the marks of cancels alone.
LEMMA HttpMoves ==
  ASSUME LoopInv,
         UNCHANGED <<batch, ran, uncached, out, seqId, submitQ, cancelledIds, asked, lock>>,
         UNCHANGED <<eng, stopping>>, lost' \subseteq {"frame", "place"} \X Reqs,
         Ends, Streams, HttpOK',
         deadline' \in [Ids -> {"none", "armed", "past"}],
         client' \in [Reqs -> {"new", "reading", "closed", "gone"}],
         \A r \in Reqs : client'[r] = "new" => client[r] = "new",
         draining' \in BOOLEAN,
         Entries(http'.snap) \subseteq Known,
         http' = http \/ http'.pc # "put",
         http'.pc \in {"c_finish", "c_assign"} => http'.req \in Known,
         http'.pc \notin {"idle", "put"} => http'.req \in asked
  PROVE  LoopInv'
<1>1. UNCHANGED <<eng, stopping>> /\ Skipped' = Skipped
  BY DEF Skipped
<1>2. LoopTypeOK'
  <2>1. SchedTypeOK'
    <3>1. cancelled' \subseteq Reqs
      BY DEF Ends, Known
    <3> QED BY <3>1 DEF LoopInv, LoopTypeOK, SchedTypeOK, Ends
  <2>2. \A r \in Reqs : dq'[r] \in Seq(Frames)
    BY DEF Streams
  <2>3. /\ submitQ' \in Seq(Reqs \cup {StopItem}) /\ cancelledIds' \subseteq Ids
        /\ lock' \in {"free", "loop"}
        /\ asked' \subseteq Cancels /\ lost' \subseteq {"frame", "place"} \X Reqs
    BY <1>1 DEF LoopInv, LoopTypeOK
  <2> QED BY <2>1, <2>2, <2>3 DEF LoopTypeOK, Ends, Streams, Frames
<1>3. Threads'
  <2>1. EngOK' /\ stopping' \in BOOLEAN
    BY <1>1 DEF LoopInv, Threads, EngOK
  <2> QED BY <2>1 DEF Threads, Streams
<1>4. Known' = Known
  BY DEF Known, Ends
<1>5. Journey'
  <2>1. \A r \in Reqs : AtAdd(r)' <=> AtAdd(r)
    BY <1>1 DEF AtAdd
  <2>2. \A r \in Reqs : NeverTaken(r)' => NeverTaken(r)
    BY DEF NeverTaken
  <2>3. Journey
    BY DEF LoopInv
  <2>4. \A r \in Reqs : http'.pc = "put" /\ http'.req = r => r \notin Entries(submitQ')
    BY <2>3 DEF Journey
  <2>5. Unique(submitQ')
    BY <2>3 DEF Journey
  <2> QED BY <1>1, <1>4, <2>1, <2>2, <2>3, <2>4, <2>5 DEF Journey, Unique
<1>6. Arrived'
  <2>1. Arrived
    BY DEF LoopInv
  <2>2. byReq \in [Ids -> Reqs \cup {NoReq}]
    BY DEF LoopInv, LoopTypeOK
  <2>3. \A i \in Ids : byReq'[i] # NoReq => byReq'[i] \in Known' /\ IdOf[byReq'[i]] = i
    BY <1>4, <2>1, <2>2 DEF Arrived, Ends
  <2>4. Entries(batch') \subseteq Known'
    BY <1>4, <2>1 DEF Arrived
  <2> QED BY <1>1, <1>4, <2>1, <2>3, <2>4 DEF Arrived, Ends
<1>7. Marks'
  <2>1. Marks
    BY DEF LoopInv
  <2> QED BY <1>1, <2>1 DEF Marks
<1>8. TokensLeft'
  <2>1. Counts
    BY NoToken
  <2> QED BY <1>1, <2>1 DEF TokensLeft, Counts, Ends, LoopInv
<1> QED BY <1>2, <1>3, <1>5, <1>6, <1>7, <1>8 DEF LoopInv

\* The same for a step that loses nothing.
LEMMA HttpStep ==
  ASSUME LoopInv,
         UNCHANGED <<batch, ran, uncached, out, seqId, submitQ, cancelledIds, asked, lock>>,
         UNCHANGED loopOnly,
         Ends, Streams, HttpOK',
         deadline' \in [Ids -> {"none", "armed", "past"}],
         client' \in [Reqs -> {"new", "reading", "closed", "gone"}],
         \A r \in Reqs : client'[r] = "new" => client[r] = "new",
         draining' \in BOOLEAN,
         Entries(http'.snap) \subseteq Known,
         http' = http \/ http'.pc # "put",
         http'.pc \in {"c_finish", "c_assign"} => http'.req \in Known,
         http'.pc \notin {"idle", "put"} => http'.req \in asked
  PROVE  LoopInv'
<1>1. UNCHANGED <<eng, stopping>> /\ lost' \subseteq {"frame", "place"} \X Reqs
  BY DEF loopOnly, LoopInv, LoopTypeOK
<1> QED BY <1>1, HttpMoves

\* The parts that a handler leaves alone, in HttpStep's terms.
LEMMA HttpStill ==
  ASSUME LoopInv
  PROVE  /\ deadline \in [Ids -> {"none", "armed", "past"}]
         /\ client \in [Reqs -> {"new", "reading", "closed", "gone"}]
         /\ draining \in BOOLEAN
         /\ Entries(http.snap) \subseteq Known
         /\ http.pc \in {"c_finish", "c_assign"} => http.req \in Known
         /\ http.pc \notin {"idle", "put"} => http.req \in asked
BY DEF LoopInv, LoopTypeOK, Threads, Arrived, Marks

\* LoopInv is kept by each step of the event loop, one lemma each: a stream reads.
LEMMA StepRead == ASSUME LoopInv, NEW r \in Reqs, Read(r) PROVE LoopInv'
<1>1. /\ UNCHANGED <<schedVars, byReq>>
      /\ UNCHANGED <<submitQ, cancelledIds, asked, lock>> /\ UNCHANGED loopOnly
      /\ deltaQs' = deltaQs /\ deadline' = deadline /\ draining' = draining /\ http' = http
      /\ dq[r] # <<>> /\ dq' = [dq EXCEPT ![r] = Tail(@)]
      /\ client' \in {client, [client EXCEPT ![r] = "closed"]}
  BY DEF Read
<1>2. UNCHANGED <<batch, ran, uncached, out, seqId>>
  BY <1>1 DEF schedVars
<1>3. Streams
  <2>1. dq \in [Reqs -> Seq(Frames)] /\ deltaQs \in [Ids -> Reqs \cup {NoReq}] /\ QueueSize \in Nat
        /\ \A x \in Reqs : Len(dq[x]) <= QueueSize
    BY LoopAssumption DEF LoopInv, LoopTypeOK, Threads
  <2>2. Tail(dq[r]) \in Seq(Frames) /\ Len(Tail(dq[r])) = Len(dq[r]) - 1 /\ Len(dq[r]) \in Nat
    BY <1>1, <2>1
  <2>3. Len(Tail(dq[r])) <= QueueSize
    BY <2>1, <2>2
  <2>4. dq' \in [Reqs -> Seq(Frames)] /\ dq'[r] = Tail(dq[r]) /\ \A x \in Reqs \ {r} : dq'[x] = dq[x]
    BY <1>1, <2>1, <2>2
  <2> QED BY <1>1, <2>1, <2>3, <2>4 DEF Streams
<1>4. client' \in [Reqs -> {"new", "reading", "closed", "gone"}]
      /\ \A x \in Reqs : client'[x] = "new" => client[x] = "new"
  BY <1>1, HttpStill
<1>5. HttpOK'
  BY <1>1, InvFacts DEF HttpOK
<1> QED BY <1>1, <1>2, <1>3, <1>4, <1>5, SchedStill, HttpStill, HttpStep

\* begin_drain.
LEMMA StepBeginDrain == ASSUME LoopInv, BeginDrain PROVE LoopInv'
<1>1. /\ UNCHANGED <<schedVars, byReq>>
      /\ UNCHANGED <<submitQ, cancelledIds, asked, lock>> /\ UNCHANGED loopOnly
      /\ UNCHANGED <<deltaQs, dq>> /\ deadline' = deadline /\ draining' = TRUE /\ http' = http
      /\ client' = client
  BY DEF BeginDrain
<1>2. UNCHANGED <<batch, ran, uncached, out, seqId>>
  BY <1>1 DEF schedVars
<1>3. HttpOK'
  BY <1>1, InvFacts DEF HttpOK
<1> QED BY <1>1, <1>2, <1>3, SchedStill, SameStreams, HttpStill, HttpStep

\* Time passes a deadline.
LEMMA StepExpire == ASSUME LoopInv, NEW i \in Ids, Expire(i) PROVE LoopInv'
<1>1. /\ UNCHANGED <<schedVars, byReq>>
      /\ UNCHANGED <<submitQ, cancelledIds, asked, lock>> /\ UNCHANGED loopOnly
      /\ UNCHANGED <<deltaQs, dq>> /\ deadline' = [deadline EXCEPT ![i] = "past"]
      /\ draining' = draining /\ http' = http /\ client' = client
  BY DEF Expire
<1>2. UNCHANGED <<batch, ran, uncached, out, seqId>>
  BY <1>1 DEF schedVars
<1>3. HttpOK'
  BY <1>1, InvFacts DEF HttpOK
<1>4. deadline' \in [Ids -> {"none", "armed", "past"}]
  BY <1>1, HttpStill
<1> QED BY <1>1, <1>2, <1>3, <1>4, SchedStill, SameStreams, HttpStill, HttpStep

\* cancel looks the sequence up; with ids of their own it is the one that was asked for.
LEMMA StepCancelFlag == ASSUME DistinctIds, LoopInv, CancelFlag PROVE LoopInv'
<1>1. /\ UNCHANGED <<waiting, running, batch, ran, phase, uncached, out, seqId>>
      /\ UNCHANGED <<submitQ, cancelledIds, asked, lock>> /\ UNCHANGED loopOnly
      /\ UNCHANGED <<deltaQs, dq>> /\ deadline' = deadline /\ draining' = draining
      /\ client' = client /\ byReq' = byReq /\ http.pc = "c_flag"
  BY DEF CancelFlag, progress
<1>2. http.req \in Reqs /\ http.req \in asked /\ IdOf[http.req] \in Ids /\ HttpOK
  BY <1>1, InvFacts DEF HttpOK, LoopInv, Marks
<1> DEFINE seq == byReq[IdOf[http.req]]
<1>3. CASE /\ GotoHttp(IF http.had THEN "c_emit" ELSE "idle") /\ cancelled' = cancelled
  <2>1. PICK pc \in {"c_emit", "idle"} : GotoHttp(pc)
    BY <1>3
  <2>2. pc \in HttpPCs
    BY <2>1 DEF HttpPCs
  <2>3. HttpOK' /\ http'.pc = pc /\ http'.req = http.req /\ http'.snap = http.snap
    BY <1>2, <2>1, <2>2, GotoHttpFacts
  <2>4. UNCHANGED queues
    BY <1>1, <1>3 DEF queues
  <2>5. Ends
    BY <2>4, NoEnd
  <2>6. http'.pc # "put" /\ http'.pc \notin {"c_finish", "c_assign"}
    BY <2>1, <2>3
  <2> QED BY <1>1, <1>2, <2>3, <2>5, <2>6, SameStreams, HttpStill, HttpStep
<1>4. CASE /\ seq # NoReq /\ cancelled' = cancelled \cup {seq}
           /\ http' = [http EXCEPT !.pc = "c_finish", !.req = seq]
  <2>1. seq \in Known /\ IdOf[seq] = IdOf[http.req]
    BY <1>2, <1>4 DEF LoopInv, Arrived
  <2>2. seq = http.req
    BY <1>2, <2>1, InvFacts DEF DistinctIds
  <2>3. IdOf[seq] \in cancelledIds
    BY <1>2, <2>1, <2>2 DEF LoopInv, Skipped, Journey
  <2>4. Ends
    <3> HIDE DEF seq
    <3> QED BY <1>1, <1>4, <2>1, <2>3 DEF LoopInv, LoopTypeOK, SchedTypeOK, Arrived, TokensLeft, Ends
  <2> DEFINE u == [http EXCEPT !.pc = "c_finish", !.req = seq]
  <2>5. http' = u
    BY <1>4
  <2>6. u = [http EXCEPT !.pc = "c_finish", !.req = seq]
    OBVIOUS
  <2> HIDE DEF u, seq
  <2>7. http \in [pc : HttpPCs, req : Reqs \cup {NoReq}, had : BOOLEAN, snap : Seq(Reqs)]
    BY <1>2 DEF HttpOK
  <2>8. u = [pc |-> "c_finish", req |-> seq, had |-> http.had, snap |-> http.snap]
    BY <2>6, <2>7
  <2>9. HttpOK' /\ http'.pc = "c_finish" /\ http'.req = seq /\ http'.snap = http.snap
    BY <1>2, <2>2, <2>5, <2>7, <2>8 DEF HttpOK, HttpPCs
  <2>10. seq \in asked
    BY <1>2, <2>2
  <2> QED BY <1>1, <2>1, <2>4, <2>9, <2>10, SameStreams, HttpStill, HttpStep
<1> QED BY <1>3, <1>4 DEF CancelFlag

\* cancel's mark_finished, up to the new deque.
LEMMA StepCancelFinish == ASSUME LoopInv, CancelFinish PROVE LoopInv'
<1>1. /\ UNCHANGED <<waiting, cancelled, byReq, batch, ran, uncached, out, seqId>>
      /\ UNCHANGED <<submitQ, cancelledIds, asked, lock>> /\ UNCHANGED loopOnly
      /\ UNCHANGED <<deltaQs, dq>> /\ deadline' = deadline /\ draining' = draining
      /\ client' = client /\ http.pc = "c_finish"
      /\ phase' = [phase EXCEPT ![http.req] = "finished"]
      /\ running' = Without(running, {http.req})
  BY DEF CancelFinish, progress
<1>2. http.req \in Known /\ http.req \in Reqs /\ http.req \in asked /\ HttpOK
  BY <1>1, InvFacts DEF LoopInv, Arrived, Marks
<1> DEFINE w == Without(waiting, {http.req})
           u == [http EXCEPT !.pc = "c_assign", !.snap = w]
<1>3. w \in Seq(Reqs) /\ Len(w) <= Len(waiting) /\ Entries(w) \subseteq Entries(waiting)
      /\ running' \in Seq(Reqs) /\ Entries(running') \subseteq Entries(running)
  BY <1>1, InvFacts, WithoutFacts
<1>4. http' = u
  BY DEF CancelFinish
<1>5. u = [http EXCEPT !.pc = "c_assign", !.snap = w]
  OBVIOUS
<1> HIDE DEF u, w
<1>6. http \in [pc : HttpPCs, req : Reqs \cup {NoReq}, had : BOOLEAN, snap : Seq(Reqs)]
  BY <1>2 DEF HttpOK
<1>7. u = [pc |-> "c_assign", req |-> http.req, had |-> http.had, snap |-> w]
  BY <1>5, <1>6
<1>8. Len(w) <= MaxWaiting
  <2>1. Len(waiting) \in Nat /\ Len(w) \in Nat /\ MaxWaiting \in Nat /\ Len(waiting) <= MaxWaiting
    BY <1>3, InvFacts, SchedulerAssumption DEF LoopInv, LoopTypeOK, SchedTypeOK
  <2> QED BY <1>3, <2>1
<1>9. HttpOK' /\ http'.pc = "c_assign" /\ http'.req = http.req /\ http'.snap = w
  BY <1>2, <1>3, <1>4, <1>6, <1>7, <1>8 DEF HttpOK, HttpPCs
<1>10. Ends
  <2>1. phase' \in [Reqs -> {"new", "live", "finished", "rejected"}] /\ phase'[http.req] = "finished"
        /\ \A x \in Reqs \ {http.req} : phase'[x] = phase[x]
    BY <1>1, <1>2 DEF LoopInv, LoopTypeOK, SchedTypeOK
  <2>2. \A x \in cancelled' : phase'[x] # "finished" => IdOf[x] \in cancelledIds
    BY <1>1, <2>1, InvFacts DEF LoopInv, TokensLeft, Arrived
  <2>3. \A r \in Reqs : phase'[r] = phase[r] \/ (phase'[r] = "finished" /\ r \in Known)
    BY <1>2, <2>1
  <2>4. Entries(running') \subseteq Known
    BY <1>3 DEF LoopInv, Arrived
  <2> QED BY <1>1, <1>3, <2>1, <2>2, <2>3, <2>4 DEF LoopInv, LoopTypeOK, SchedTypeOK, Arrived, Ends
<1>11. Entries(w) \subseteq Known
  BY <1>3 DEF LoopInv, Arrived
<1> QED BY <1>1, <1>2, <1>9, <1>10, <1>11, SameStreams, HttpStill, HttpStep

\* cancel's mark_finished assigns the deque it built.
LEMMA StepCancelAssign == ASSUME LoopInv, CancelAssign PROVE LoopInv'
<1>1. /\ UNCHANGED <<running, cancelled, phase, batch, ran, uncached, out, seqId>>
      /\ UNCHANGED <<submitQ, cancelledIds, asked, lock>> /\ UNCHANGED <<eng, stopping>>
      /\ UNCHANGED <<deltaQs, dq>> /\ deadline' = deadline /\ draining' = draining
      /\ client' = client /\ http.pc = "c_assign" /\ waiting' = http.snap
      /\ byReq' = [byReq EXCEPT ![IdOf[http.req]] = NoReq]
  BY DEF CancelAssign, progress
<1>2. http.req \in Reqs /\ http.req \in asked /\ HttpOK /\ IdOf[http.req] \in Ids
  BY <1>1, InvFacts DEF LoopInv, Marks, HttpOK
<1> DEFINE u == [http EXCEPT !.pc = "c_emit", !.snap = <<>>]
<1>3. http' = u
  BY DEF CancelAssign
<1>4. u = [http EXCEPT !.pc = "c_emit", !.snap = <<>>]
  OBVIOUS
<1> HIDE DEF u
<1>5. http \in [pc : HttpPCs, req : Reqs \cup {NoReq}, had : BOOLEAN, snap : Seq(Reqs)]
      /\ Len(http.snap) <= MaxWaiting
  BY <1>2 DEF HttpOK
<1>6. u = [pc |-> "c_emit", req |-> http.req, had |-> http.had, snap |-> <<>>]
  BY <1>4, <1>5
<1>7. <<>> \in Seq(Reqs) /\ Len(<<>>) <= MaxWaiting /\ Entries(<<>>) \subseteq Known
  BY SchedulerAssumption DEF Entries
<1>8. HttpOK' /\ http'.pc = "c_emit" /\ http'.req = http.req /\ http'.snap = <<>>
  BY <1>2, <1>3, <1>5, <1>6, <1>7 DEF HttpOK, HttpPCs
<1>9. Ends
  <2>1. byReq' \in [Ids -> Reqs \cup {NoReq}] /\ \A i \in Ids : byReq'[i] \in {byReq[i], NoReq}
    BY <1>1, <1>2 DEF LoopInv, LoopTypeOK
  <2>2. waiting' \in Seq(Reqs) /\ Len(waiting') <= MaxWaiting /\ Entries(waiting') \subseteq Known
    BY <1>1, <1>5, HttpStill
  <2> QED BY <1>1, <2>1, <2>2 DEF LoopInv, LoopTypeOK, SchedTypeOK, Arrived, TokensLeft, Ends
<1>10. lost' \subseteq {"frame", "place"} \X Reqs
  <2>1. lost \subseteq {"frame", "place"} \X Reqs
    BY DEF LoopInv, LoopTypeOK
  <2>2. PICK S : S = Entries(waiting) \ Entries(http.snap)
    OBVIOUS
  <2>3. S \subseteq Reqs
    BY <2>2, InvFacts DEF LoopInv, Arrived
  <2>4. lost' = lost \cup ({"place"} \X S)
    BY <2>2 DEF CancelAssign
  <2> QED BY <2>1, <2>3, <2>4
<1> QED BY <1>1, <1>2, <1>7, <1>8, <1>9, <1>10, SameStreams, HttpStill, HttpMoves

\* cancel's _emit.
LEMMA StepCancelEmit == ASSUME LoopInv, CancelEmit PROVE LoopInv'
<1>1. /\ UNCHANGED <<schedVars, byReq>>
      /\ UNCHANGED <<submitQ, cancelledIds, asked, lock>> /\ UNCHANGED <<eng, stopping>>
      /\ deltaQs' = deltaQs /\ deadline' = deadline /\ draining' = draining
      /\ client' = client /\ http.pc = "c_emit"
  BY DEF CancelEmit
<1>2. UNCHANGED <<batch, ran, uncached, out, seqId>>
  BY <1>1 DEF schedVars
<1>3. http.req \in Reqs /\ http.req \in asked /\ HttpOK /\ IdOf[http.req] \in Ids
      /\ deltaQs[IdOf[http.req]] \in Reqs \cup {NoReq}
  BY <1>1, InvFacts DEF LoopInv, Marks, HttpOK, LoopTypeOK
<1>4. PICK pc \in {"idle", "c_pop"} : GotoHttp(pc)
  BY DEF CancelEmit
<1>5. pc \in HttpPCs
  BY <1>4 DEF HttpPCs
<1>6. HttpOK' /\ http'.pc = pc /\ http'.req = http.req /\ http'.snap = http.snap
  BY <1>3, <1>4, <1>5, GotoHttpFacts
<1>7. Streams
  <2>1. CASE dq' = dq
    BY <1>1, <2>1, SameStreams
  <2>2. ASSUME NEW q, q = deltaQs[IdOf[http.req]], q # NoReq, Len(dq[q]) < QueueSize,
               dq' = [dq EXCEPT ![q] = Append(@, "final")]
        PROVE  Streams
    <3>1. "final" \in Frames /\ q \in Reqs
      BY <1>3, <2>2 DEF Frames
    <3> QED BY <1>1, <2>2, <3>1, PutFacts
  <2> QED BY <2>1, <2>2 DEF CancelEmit
<1>8. http'.pc # "put" /\ http'.pc \notin {"c_finish", "c_assign"}
  BY <1>4, <1>6
<1>9. lost' \subseteq {"frame", "place"} \X Reqs
  <2>1. lost \subseteq {"frame", "place"} \X Reqs
    BY DEF LoopInv, LoopTypeOK
  <2>2. PICK q : q = deltaQs[IdOf[http.req]]
    OBVIOUS
  <2>3. lost' = lost \/ (q # NoReq /\ lost' = lost \cup {<<"frame", q>>})
    BY <2>2 DEF CancelEmit
  <2>4. q \in Reqs \cup {NoReq}
    BY <1>3, <2>2
  <2> QED BY <2>1, <2>3, <2>4
<1> QED BY <1>1, <1>2, <1>3, <1>6, <1>7, <1>8, <1>9, SchedStill, HttpStill, HttpMoves

\* cancel's _emit forgets the queue.
LEMMA StepCancelPop == ASSUME LoopInv, CancelPop PROVE LoopInv'
<1>1. /\ UNCHANGED <<schedVars, byReq>>
      /\ UNCHANGED <<submitQ, cancelledIds, asked, lock>> /\ UNCHANGED loopOnly
      /\ deltaQs' = [deltaQs EXCEPT ![IdOf[http.req]] = NoReq] /\ dq' = dq
      /\ deadline' = deadline /\ draining' = draining
      /\ client' = client /\ http.pc = "c_pop" /\ GotoHttp("idle")
  BY DEF CancelPop
<1>2. UNCHANGED <<batch, ran, uncached, out, seqId>>
  BY <1>1 DEF schedVars
<1>3. http.req \in Reqs /\ HttpOK /\ IdOf[http.req] \in Ids
  BY <1>1, InvFacts DEF HttpOK
<1>4. "idle" \in HttpPCs
  BY DEF HttpPCs
<1>5. HttpOK' /\ http'.pc = "idle" /\ http'.req = http.req /\ http'.snap = http.snap
  BY <1>1, <1>3, <1>4, GotoHttpFacts
<1>6. Streams
  BY <1>1, <1>3 DEF LoopInv, LoopTypeOK, Threads, Streams
<1> QED BY <1>1, <1>2, <1>5, <1>6, SchedStill, HttpStill, HttpStep

\* What the four other handlers leave alone.
LEMMA SchedKept ==
  ASSUME LoopInv, UNCHANGED <<schedVars, byReq, lock, eng, lost>>
  PROVE  /\ SchedTypeOK' /\ EngOK' /\ Known' = Known
         /\ byReq' \in [Ids -> Reqs \cup {NoReq}] /\ lock' \in {"free", "loop"}
         /\ lost' \subseteq {"frame", "place"} \X Reqs
         /\ (/\ Entries(http'.snap) \subseteq Known
             /\ http'.pc \in {"c_finish", "c_assign"} => http'.req \in Known) => Arrived'
         /\ cancelledIds \subseteq cancelledIds' => TokensLeft'
<1>1. UNCHANGED <<waiting, running, batch, ran, phase, cancelled, uncached, out, seqId, byReq, lock, eng>>
      /\ lost' = lost
  BY DEF schedVars
<1>2. SchedTypeOK' /\ byReq' \in [Ids -> Reqs \cup {NoReq}] /\ lock' \in {"free", "loop"}
      /\ lost' \subseteq {"frame", "place"} \X Reqs
  BY <1>1 DEF LoopInv, LoopTypeOK, SchedTypeOK
<1>3. EngOK'
  BY <1>1, InvFacts DEF EngOK
<1>4. Known' = Known
  BY <1>1 DEF Known
<1>5. ASSUME Entries(http'.snap) \subseteq Known,
             http'.pc \in {"c_finish", "c_assign"} => http'.req \in Known
      PROVE  Arrived'
  BY <1>1, <1>4, <1>5 DEF LoopInv, Arrived
<1>6. ASSUME cancelledIds \subseteq cancelledIds' PROVE TokensLeft'
  BY <1>1, <1>6 DEF LoopInv, TokensLeft
<1> QED BY <1>2, <1>3, <1>4, <1>5, <1>6

\* submit registers the queue: the request is known nowhere yet.
LEMMA StepSubmitRegister == ASSUME LoopInv, NEW r \in Reqs, SubmitRegister(r) PROVE LoopInv'
<1>1. /\ UNCHANGED <<schedVars, byReq, lock>>
      /\ UNCHANGED <<submitQ, cancelledIds, asked>> /\ UNCHANGED loopOnly
      /\ dq' = dq /\ draining' = draining /\ client[r] = "new" /\ http.pc = "idle"
  BY DEF SubmitRegister, Idle
<1>2. UNCHANGED <<batch, ran, uncached, out, seqId>> /\ UNCHANGED <<eng, stopping, lost>> /\ Skipped' = Skipped
  BY <1>1 DEF schedVars, loopOnly, Skipped
<1>3. CASE client' = [client EXCEPT ![r] = "closed"] /\ UNCHANGED <<deltaQs, deadline, http>>
  <2>1. client' \in [Reqs -> {"new", "reading", "closed", "gone"}]
        /\ \A x \in Reqs : client'[x] = "new" => client[x] = "new"
    BY <1>3, HttpStill
  <2>2. HttpOK'
    BY <1>3, InvFacts DEF HttpOK
  <2> QED BY <1>1, <1>2, <1>3, <2>1, <2>2, SchedStill, SameStreams, HttpStill, HttpStep
<1>4. CASE /\ deltaQs' = [deltaQs EXCEPT ![IdOf[r]] = r]
           /\ deadline' = [deadline EXCEPT ![IdOf[r]] = "armed"]
           /\ http' = [http EXCEPT !.pc = "put", !.req = r]
           /\ client' = [client EXCEPT ![r] = "reading"]
  <2> DEFINE u == [http EXCEPT !.pc = "put", !.req = r]
  <2>1. http' = u
    BY <1>4
  <2>2. u = [http EXCEPT !.pc = "put", !.req = r]
    OBVIOUS
  <2> HIDE DEF u
  <2>3. http \in [pc : HttpPCs, req : Reqs \cup {NoReq}, had : BOOLEAN, snap : Seq(Reqs)]
        /\ Len(http.snap) <= MaxWaiting
    BY InvFacts DEF HttpOK
  <2>4. u = [pc |-> "put", req |-> r, had |-> http.had, snap |-> http.snap]
    BY <2>2, <2>3
  <2>5. HttpOK' /\ http'.pc = "put" /\ http'.req = r /\ http'.snap = http.snap
    BY <2>1, <2>3, <2>4 DEF HttpOK, HttpPCs
  <2>6. /\ deltaQs' \in [Ids -> Reqs \cup {NoReq}]
        /\ deadline' \in [Ids -> {"none", "armed", "past"}]
        /\ client' \in [Reqs -> {"new", "reading", "closed", "gone"}]
        /\ client'[r] = "reading" /\ \A x \in Reqs \ {r} : client'[x] = client[x]
    BY <1>4, InvFacts DEF LoopInv, LoopTypeOK
  <2>7. LoopTypeOK'
    BY <1>1, <1>2, <2>6, SchedKept DEF LoopInv, LoopTypeOK
  <2>8. Threads'
    BY <1>1, <1>2, <2>5, SchedKept DEF LoopInv, Threads
  <2>9. Known' = Known /\ Arrived' /\ TokensLeft'
    BY <1>1, <1>2, <2>5, SchedKept, HttpStill
  <2>10. Marks'
    BY <1>1, <1>2, <2>5 DEF LoopInv, Marks
  <2>11. Journey'
    <3>1. Journey
      BY DEF LoopInv
    <3>2. \A x \in Reqs : NeverTaken(x)' <=> (NeverTaken(x) \/ x = r)
      BY <1>1, <2>5 DEF NeverTaken
    <3>3. \A x \in Reqs : AtAdd(x)' <=> AtAdd(x)
      BY <1>2 DEF AtAdd
    <3>4. ~NeverTaken(r) /\ ~AtAdd(r) /\ r \notin Known \cup Skipped \cup asked
      BY <1>1, <3>1 DEF Journey
    <3>5. r \notin Entries(submitQ)
      BY <3>4 DEF NeverTaken
    <3>6. \A x \in Reqs : client'[x] = "new" => client[x] = "new" /\ x # r
      BY <2>6
    <3>7. Unique(submitQ)'
      BY <1>1, <3>1 DEF Journey, Unique
    <3>8. \A x \in Reqs : http'.pc = "put" /\ http'.req = x => x \notin Entries(submitQ')
      BY <1>1, <2>5, <3>5
    <3> QED BY <1>1, <1>2, <2>9, <3>1, <3>2, <3>3, <3>4, <3>6, <3>7, <3>8 DEF Journey
  <2> QED BY <2>7, <2>8, <2>9, <2>10, <2>11 DEF LoopInv
<1> QED BY <1>3, <1>4 DEF SubmitRegister

\* Appending an item that is not a queued request.
LEMMA AppendUnique ==
  ASSUME NEW q \in Seq(Reqs \cup {StopItem}), Unique(q), NEW x \in Reqs \cup {StopItem},
         x \notin Entries(q) \/ x = StopItem
  PROVE  Unique(Append(q, x)) /\ Append(q, x) \in Seq(Reqs \cup {StopItem})
         /\ Entries(Append(q, x)) = Entries(q) \cup {x}
<1> DEFINE p == Append(q, x)
<1>1. p \in Seq(Reqs \cup {StopItem}) /\ Len(p) = Len(q) + 1 /\ Len(q) \in Nat
      /\ Entries(p) = Entries(q) \cup {x}
  BY AppendFacts
<1>2. p[Len(q) + 1] = x /\ \A i \in 1..Len(q) : p[i] = q[i]
  OBVIOUS
<1> HIDE DEF p
<1>3. \A i \in 1..Len(p) : i \in 1..Len(q) \/ i = Len(q) + 1
  BY <1>1
<1>4. \A i \in 1..Len(q) : q[i] = x => x \notin Reqs
  BY LoopAssumption DEF Entries
<1>5. Unique(p)
  <2> SUFFICES ASSUME NEW i \in 1..Len(p), NEW j \in 1..Len(p), p[i] = p[j], p[i] \in Reqs
               PROVE  i = j
    BY DEF Unique
  <2>1. CASE i \in 1..Len(q) /\ j \in 1..Len(q)
    BY <1>2, <2>1 DEF Unique
  <2>2. CASE i \in 1..Len(q) /\ j = Len(q) + 1
    BY <1>2, <1>4, <2>2
  <2>3. CASE i = Len(q) + 1 /\ j \in 1..Len(q)
    BY <1>2, <1>4, <2>3
  <2> QED BY <1>3, <2>1, <2>2, <2>3
<1> QED BY <1>1, <1>5 DEF p

\* submit queues the request, once.
LEMMA StepSubmitPut == ASSUME LoopInv, SubmitPut PROVE LoopInv'
<1> DEFINE r == http.req
<1>1. /\ UNCHANGED <<schedVars, byReq, lock>>
      /\ UNCHANGED <<deltaQs, dq, cancelledIds, deadline, draining, client, asked>> /\ UNCHANGED loopOnly
      /\ submitQ' = Append(submitQ, r) /\ GotoHttp("idle") /\ http.pc = "put"
  BY DEF SubmitPut
<1>2. UNCHANGED <<eng, stopping, lost>> /\ Skipped' = Skipped
  BY <1>1 DEF loopOnly, Skipped
<1>3. r \in Reqs /\ HttpOK /\ r \notin Entries(submitQ) /\ Unique(submitQ)
      /\ submitQ \in Seq(Reqs \cup {StopItem})
  BY <1>1, InvFacts DEF HttpOK, LoopInv, Journey, LoopTypeOK
<1>4. "idle" \in HttpPCs
  BY DEF HttpPCs
<1>5. HttpOK' /\ http'.pc = "idle" /\ http'.req = http.req /\ http'.snap = http.snap
  BY <1>1, <1>3, <1>4, GotoHttpFacts
<1>6. Unique(submitQ') /\ submitQ' \in Seq(Reqs \cup {StopItem}) /\ Entries(submitQ') = Entries(submitQ) \cup {r}
  <2> HIDE DEF r
  <2>1. /\ Unique(Append(submitQ, r)) /\ Append(submitQ, r) \in Seq(Reqs \cup {StopItem})
        /\ Entries(Append(submitQ, r)) = Entries(submitQ) \cup {r}
    BY <1>3, AppendUnique
  <2> QED BY <1>1, <2>1
<1>7. LoopTypeOK'
  BY <1>1, <1>2, <1>6, SchedKept DEF LoopInv, LoopTypeOK
<1>8. Threads'
  BY <1>1, <1>2, <1>5, SchedKept DEF LoopInv, Threads
<1>9. Known' = Known /\ Arrived' /\ TokensLeft'
  BY <1>1, <1>2, <1>5, SchedKept, HttpStill
<1>10. Marks'
  BY <1>1, <1>2, <1>5 DEF LoopInv, Marks
<1>11. Journey'
  <2>1. Journey
    BY DEF LoopInv
  <2>2. \A x \in Reqs : NeverTaken(x)' <=> NeverTaken(x)
    BY <1>1, <1>5, <1>6 DEF NeverTaken
  <2>3. \A x \in Reqs : AtAdd(x)' <=> AtAdd(x)
    BY <1>2 DEF AtAdd
  <2>4. Unique(submitQ)'
    BY <1>6 DEF Unique
  <2> QED BY <1>1, <1>2, <1>5, <1>9, <2>1, <2>2, <2>3, <2>4 DEF Journey
<1> QED BY <1>7, <1>8, <1>9, <1>10, <1>11 DEF LoopInv

\* stop queues its None.
LEMMA StepStop == ASSUME LoopInv, Stop PROVE LoopInv'
<1>1. /\ UNCHANGED <<schedVars, byReq, lock>>
      /\ UNCHANGED <<deltaQs, dq, cancelledIds, deadline, client, asked, eng, lost, http>>
      /\ submitQ' = Append(submitQ, StopItem) /\ draining' = TRUE /\ stopping' = TRUE
      /\ Skipped' = Skipped
  BY DEF Stop, Skipped
<1>2. Unique(submitQ) /\ submitQ \in Seq(Reqs \cup {StopItem})
  BY DEF LoopInv, Journey, LoopTypeOK
<1>3. Unique(submitQ') /\ submitQ' \in Seq(Reqs \cup {StopItem})
      /\ Entries(submitQ') = Entries(submitQ) \cup {StopItem}
  <2>1. /\ Unique(Append(submitQ, StopItem)) /\ Append(submitQ, StopItem) \in Seq(Reqs \cup {StopItem})
        /\ Entries(Append(submitQ, StopItem)) = Entries(submitQ) \cup {StopItem}
    BY <1>2, AppendUnique
  <2> QED BY <1>1, <2>1
<1>4. LoopTypeOK'
  BY <1>1, <1>3, SchedKept DEF LoopInv, LoopTypeOK
<1>5. HttpOK'
  BY <1>1, InvFacts DEF HttpOK
<1>6. Threads'
  BY <1>1, <1>5, SchedKept DEF LoopInv, Threads
<1>7. Known' = Known /\ Arrived' /\ TokensLeft'
  BY <1>1, SchedKept, HttpStill
<1>8. Marks'
  BY <1>1 DEF LoopInv, Marks
<1>9. Journey'
  <2>1. Journey
    BY DEF LoopInv
  <2>2. \A x \in Reqs : x # StopItem
    BY LoopAssumption
  <2>3. \A x \in Reqs : NeverTaken(x)' <=> NeverTaken(x)
    BY <1>1, <1>3, <2>2 DEF NeverTaken
  <2>4. \A x \in Reqs : AtAdd(x)' <=> AtAdd(x)
    BY <1>1 DEF AtAdd
  <2>5. Unique(submitQ)'
    BY <1>3 DEF Unique
  <2>6. \A x \in Reqs : x \in Entries(submitQ') => x \in Entries(submitQ)
    BY <1>3, <2>2
  <2> QED BY <1>1, <1>7, <2>1, <2>3, <2>4, <2>5, <2>6 DEF Journey
<1> QED BY <1>4, <1>6, <1>7, <1>8, <1>9 DEF LoopInv

\* cancel marks the id.
LEMMA StepCancelMark == ASSUME LoopInv, NEW r \in Reqs, CancelMark(r) PROVE LoopInv'
<1>1. /\ UNCHANGED <<schedVars, byReq, lock>>
      /\ UNCHANGED <<submitQ, deltaQs, dq, deadline, draining>> /\ UNCHANGED loopOnly
      /\ http.pc = "idle" /\ r \in Cancels /\ client[r] # "new"
      /\ asked' = asked \cup {r} /\ cancelledIds' = cancelledIds \cup {IdOf[r]}
      /\ client' \in {client, [client EXCEPT ![r] = "gone"]}
  BY DEF CancelMark, Idle
<1>2. UNCHANGED <<eng, stopping, lost>> /\ Skipped' \subseteq Skipped
  BY <1>1 DEF loopOnly, Skipped
<1> DEFINE had == deltaQs[IdOf[r]] # NoReq
           u == [http EXCEPT !.pc = "c_flag", !.req = r, !.had = had]
<1>3. http' = u /\ had \in BOOLEAN
  BY DEF CancelMark
<1>4. u = [http EXCEPT !.pc = "c_flag", !.req = r, !.had = had]
  OBVIOUS
<1> HIDE DEF u, had
<1>5. http \in [pc : HttpPCs, req : Reqs \cup {NoReq}, had : BOOLEAN, snap : Seq(Reqs)]
      /\ Len(http.snap) <= MaxWaiting
  BY InvFacts DEF HttpOK
<1>6. u = [pc |-> "c_flag", req |-> r, had |-> had, snap |-> http.snap]
  BY <1>4, <1>5
<1>7. HttpOK' /\ http'.pc = "c_flag" /\ http'.req = r /\ http'.snap = http.snap
  BY <1>3, <1>5, <1>6 DEF HttpOK, HttpPCs
<1>8. client' \in [Reqs -> {"new", "reading", "closed", "gone"}]
      /\ \A x \in Reqs : client'[x] = "new" => client[x] = "new" /\ x # r
  BY <1>1, HttpStill
<1>9. LoopTypeOK'
  <2>1. asked' \subseteq Cancels /\ cancelledIds' \subseteq Ids
    BY <1>1, InvFacts DEF LoopInv, LoopTypeOK
  <2> QED BY <1>1, <1>2, <1>8, <2>1, SchedKept DEF LoopInv, LoopTypeOK
<1>10. Threads'
  BY <1>1, <1>2, <1>7, SchedKept DEF LoopInv, Threads
<1>11. Known' = Known /\ Arrived' /\ TokensLeft'
  BY <1>1, <1>2, <1>7, SchedKept, HttpStill
<1>12. Marks'
  BY <1>1, <1>2, <1>7 DEF LoopInv, Marks
<1>13. Journey'
  <2>1. Journey
    BY DEF LoopInv
  <2>2. \A x \in Reqs : NeverTaken(x)' <=> NeverTaken(x)
    BY <1>1, <1>7 DEF NeverTaken
  <2>3. \A x \in Reqs : AtAdd(x)' <=> AtAdd(x)
    BY <1>2 DEF AtAdd
  <2>4. Unique(submitQ)'
    BY <1>1, <2>1 DEF Journey, Unique
  <2> QED BY <1>1, <1>2, <1>7, <1>8, <1>11, <2>1, <2>2, <2>3, <2>4 DEF Journey
<1> QED BY <1>9, <1>10, <1>11, <1>12, <1>13 DEF LoopInv

-----------------------------------------------------------------------------
\* Nothing has been submitted at the start.
LEMMA LoopInvInit == InitLoop => LoopInv
<1> SUFFICES ASSUME InitLoop PROVE LoopInv
  OBVIOUS
<1>1. /\ waiting = <<>> /\ running = <<>> /\ batch = <<>> /\ ran = FALSE
      /\ phase = [r \in Reqs |-> "new"] /\ cancelled = {} /\ uncached = [r \in Reqs |-> 0]
      /\ out = [r \in Reqs |-> 0] /\ seqId = [r \in Reqs |-> 0]
  BY DEF InitLoop, InitSched
<1>2. MaxWaiting \in Nat /\ MaxTokens \in Nat \ {0} /\ QueueSize \in Nat \ {0}
  BY SchedulerAssumption, LoopAssumption
<1>3. SchedTypeOK
  BY SchedInvInit DEF InitLoop, SchedInv
<1>4. \A S : <<>> \in Seq(S)
  OBVIOUS
<1>5. Len(<<>>) = 0 /\ Entries(<<>>) = {}
  BY DEF Entries
<1>6. LoopTypeOK
  BY <1>2, <1>3, <1>4, <1>5 DEF InitLoop, LoopTypeOK
<1>7. Threads
  <2>1. EngOK
    BY DEF InitLoop, EngOK, LoopPCs, Frames, Returns
  <2>2. HttpOK
    BY <1>2, <1>4, <1>5 DEF InitLoop, HttpOK, HttpPCs
  <2> QED BY <1>4, <2>1, <2>2 DEF InitLoop, Threads
<1>8. eng.pc = "top" /\ http.pc = "idle" /\ http.snap = <<>>
  BY DEF InitLoop
<1>9. Known = {}
  BY <1>1 DEF Known
<1>10. Journey
  <2>1. Unique(submitQ)
    BY DEF InitLoop, Unique
  <2> QED BY <1>5, <1>8, <1>9, <2>1 DEF InitLoop, Journey, NeverTaken, AtAdd, Skipped
<1>11. Arrived
  BY <1>1, <1>5, <1>8, <1>9 DEF InitLoop, Arrived
<1>12. Marks
  BY <1>8 DEF InitLoop, Marks
<1>13. TokensLeft
  BY <1>1, <1>2, <1>8 DEF TokensLeft
<1> QED BY <1>6, <1>7, <1>10, <1>11, <1>12, <1>13 DEF LoopInv

\* One step, of either thread or of time.
LEMMA LoopInvNext ==
  ASSUME DistinctIds, LoopInv, [NextLoop]_allVars
  PROVE  LoopInv'
<1>1. CASE LoopThread
  BY <1>1, StepTop, StepAdmit, StepAdd, StepCollectExpired, StepCancelExpired, StepScheduleStep,
     StepRunBatch, StepFailMember, StepNextResult, StepCheckCancelled, StepUnlock, StepApply,
     StepEmitPut, StepEmitPop DEF LoopThread
<1>2. CASE HttpThread
  BY <1>2, StepSubmitRegister, StepCancelMark, StepRead, StepSubmitPut, StepCancelFlag,
     StepCancelFinish, StepCancelAssign, StepCancelEmit, StepCancelPop, StepBeginDrain, StepStop
  DEF HttpThread
<1>3. CASE \E i \in Ids : Expire(i)
  BY <1>3, StepExpire
<1>4. CASE UNCHANGED allVars
  <2>1. UNCHANGED <<schedVars, byReq>> /\ UNCHANGED <<deltaQs, dq>>
        /\ UNCHANGED <<batch, ran, uncached, out, seqId, submitQ, cancelledIds, asked, lock>>
        /\ UNCHANGED loopOnly /\ UNCHANGED <<deadline, client, draining, http>>
    BY <1>4 DEF allVars, schedVars, loopVars, loopOnly
  <2>2. HttpOK'
    BY <2>1, InvFacts DEF HttpOK
  <2> QED BY <2>1, <2>2, SchedStill, SameStreams, HttpStill, HttpStep
<1> QED BY <1>1, <1>2, <1>3, <1>4 DEF NextLoop

\* LoopInv is an invariant, for requests with ids of their own.
LEMMA LoopInvAlways == DistinctIds => (SpecLoop => []LoopInv)
<1> SUFFICES ASSUME DistinctIds PROVE SpecLoop => []LoopInv
  OBVIOUS
<1>1. LoopInv /\ [NextLoop]_allVars => LoopInv'
  BY LoopInvNext
<1> QED BY <1>1, LoopInvInit, PTL DEF SpecLoop

(* The loop's state keeps its types and bounds, the delta queues' and the     *)
(* waiting queue's among them, whatever the two threads interleave.          *)
THEOREM LoopTyped == DistinctIds => (SpecLoop => []LoopTypeOK)
<1>1. LoopInv => LoopTypeOK
  BY DEF LoopInv
<1> QED BY <1>1, LoopInvAlways, PTL

\* The loop thread begins to apply a token only from the check of _cancelled.
LEMMA OnlyFromCheck ==
  ASSUME LoopInv, LoopThread, eng'.pc = "apply"
  PROVE  eng.pc = "check" /\ eng'.req = eng.req /\ IdOf[eng.req] \notin cancelledIds
<1>1. eng \in [pc : LoopPCs, req : Reqs \cup {NoReq}, id : Ids \cup {NoReq}, frame : Frames,
               final : BOOLEAN, after : Returns, expired : SUBSET Ids]
  BY InvFacts DEF EngOK
<1>2. \A pc : Goto(pc) => pc = "apply" /\ eng'.req = eng.req
  BY <1>1 DEF Goto
<1>3. \A id, f, b, pc : ~EmitThen(id, f, b, pc)
  <2> SUFFICES ASSUME NEW id, NEW f, NEW b, NEW pc, EmitThen(id, f, b, pc) PROVE FALSE
    OBVIOUS
  <2> DEFINE u == [eng EXCEPT !.pc = "emit", !.id = id, !.frame = f, !.final = b, !.after = pc]
  <2>1. eng' = u
    BY DEF EmitThen
  <2>2. u.pc = "emit"
    BY <1>1
  <2> QED BY <2>1, <2>2
<1>4. eng.after # "apply"
  BY <1>1 DEF Returns
<1>5. CASE Top
  BY <1>2, <1>5 DEF Top
<1>6. CASE Admit
  <2>1. \/ Goto("timeouts") \/ eng' = eng
        \/ eng' = [eng EXCEPT !.pc = "add", !.req = Head(submitQ)]
    BY <1>6 DEF Admit
  <2>2. eng.pc = "admit"
    BY <1>6 DEF Admit
  <2>3. eng' # [eng EXCEPT !.pc = "add", !.req = Head(submitQ)]
    BY <1>1
  <2> QED BY <1>2, <2>1, <2>2, <2>3
<1>7. CASE Add
  <2>1. Goto("admit") \/ EmitThen(IdOf[eng.req], "final", TRUE, "admit")
    BY <1>7 DEF Add
  <2>2. ~EmitThen(IdOf[eng.req], "final", TRUE, "admit")
    BY <1>3, Zenon
  <2>3. ~Goto("admit")
    BY <1>2
  <2> QED BY <2>1, <2>2, <2>3, Zenon
<1>8. CASE CollectExpired
  <2> DEFINE past == {i \in Ids : deadline[i] = "past"}
             u == [eng EXCEPT !.pc = "expire", !.expired = past]
  <2>1. eng' = u
    BY <1>8 DEF CollectExpired
  <2> HIDE DEF past
  <2>2. u.pc = "expire"
    BY <1>1
  <2> QED BY <2>1, <2>2
<1>9. CASE CancelExpired
  <2>1. CASE Goto("step")
    BY <1>2, <2>1
  <2>2. ASSUME NEW id, eng' = [eng EXCEPT !.pc = "emit", !.id = id, !.frame = "final", !.final = TRUE,
                                          !.after = "expire", !.expired = @ \ {id}]
        PROVE  FALSE
    BY <1>1, <2>2
  <2>3. Goto("step")
        \/ \E id : eng' = [eng EXCEPT !.pc = "emit", !.id = id, !.frame = "final", !.final = TRUE,
                                      !.after = "expire", !.expired = @ \ {id}]
    BY <1>9 DEF CancelExpired
  <2> QED BY <2>1, <2>2, <2>3
<1>10. CASE ScheduleStep
  BY <1>2, <1>10 DEF ScheduleStep
<1>11. CASE RunBatch
  BY <1>2, <1>11 DEF RunBatch
<1>12. CASE FailMember
  <2>1. Goto("top") \/ EmitThen(IdOf[Head(batch)], "final", TRUE, "fail")
    BY <1>12 DEF FailMember
  <2>2. ~EmitThen(IdOf[Head(batch)], "final", TRUE, "fail")
    BY <1>3, Zenon
  <2>3. ~Goto("top")
    BY <1>2
  <2> QED BY <2>1, <2>2, <2>3, Zenon
<1>13. CASE NextResult
  <2>1. Goto("top") \/ eng' = eng \/ eng' = [eng EXCEPT !.pc = "check", !.req = Head(batch)]
    BY <1>13 DEF NextResult
  <2>2. eng.pc = "results"
    BY <1>13 DEF NextResult
  <2>3. eng' # [eng EXCEPT !.pc = "check", !.req = Head(batch)]
    BY <1>1
  <2> QED BY <1>2, <2>1, <2>2, <2>3
<1>14. CASE CheckCancelled
  BY <1>2, <1>3, <1>14 DEF CheckCancelled
<1>15. CASE Unlock
  BY <1>2, <1>15 DEF Unlock
<1>16. CASE Apply
  BY <1>3, <1>16 DEF Apply
<1>17. CASE EmitPut
  BY <1>2, <1>4, <1>17 DEF EmitPut
<1>18. CASE EmitPop
  BY <1>2, <1>4, <1>18 DEF EmitPop
<1> QED BY <1>5, <1>6, <1>7, <1>8, <1>9, <1>10, <1>11, <1>12, <1>13, <1>14, <1>15, <1>16, <1>17, <1>18
    DEF LoopThread

(* Once cancel() has returned, the loop never begins to apply a token to the *)
(* request, wherever the cancel met it.                                      *)
THEOREM CancelledNeverServed == DistinctIds => (SpecLoop => CancelIsFinal)
<1> SUFFICES ASSUME DistinctIds PROVE SpecLoop => CancelIsFinal
  OBVIOUS
<1>1. ASSUME LoopInv, [NextLoop]_allVars
      PROVE  [\A r \in Reqs : CancelReturned(r) /\ ~Applying(r) => ~Applying(r)']_allVars
  <2> SUFFICES ASSUME NEW r \in Reqs, r \in asked, ~Applying(r), Applying(r)' PROVE FALSE
    BY DEF CancelReturned
  <2>1. eng' # eng
    BY DEF Applying
  <2>2. LoopThread
    BY <1>1, <2>1 DEF NextLoop, HttpThread, SubmitRegister, CancelMark, Read, SubmitPut, CancelFlag,
       CancelFinish, CancelAssign, CancelEmit, CancelPop, BeginDrain, Stop, Expire, loopOnly,
       allVars, loopVars
  <2>3. eng.pc = "check" /\ eng.req = r /\ IdOf[r] \notin cancelledIds
    BY <1>1, <2>2, OnlyFromCheck DEF Applying
  <2>4. r \in Known
    BY <1>1, <2>3 DEF LoopInv, Arrived
  <2>5. r \in Skipped
    BY <2>3 DEF Skipped
  <2> QED BY <1>1, <2>4, <2>5 DEF LoopInv, Journey
<1>2. SpecLoop => []LoopInv
  BY LoopInvAlways
<1> QED BY <1>1, <1>2, PTL DEF SpecLoop, CancelIsFinal

-----------------------------------------------------------------------------
(* The delta queues                                                          *)

Emitting(r) == eng.pc = "emit" /\ eng.id = IdOf[r]
Popping(r) == eng.pc = "pop" /\ eng.id = IdOf[r]
HttpPopping(r) == http.pc = "c_pop" /\ http.req = r
LostFrame(r) == <<"frame", r>> \in lost

\* No frame is sent before the request is submitted.
Silent(r) ==
  /\ dq[r] = <<>> /\ deltaQs[IdOf[r]] # r /\ deadline[IdOf[r]] = "none"
  /\ ~Emitting(r) /\ ~Popping(r) /\ IdOf[r] \notin eng.expired

\* A client that reads has its final frame, a queue the engine still knows, or a
\* lost frame; a thread about to forget the queue has put the final frame or lost it.
Answered(r) ==
  /\ client[r] = "reading" => HasFinal(r) \/ deltaQs[IdOf[r]] = r \/ LostFrame(r)
  /\ client[r] = "reading" /\ (Popping(r) \/ HttpPopping(r)) => HasFinal(r) \/ LostFrame(r)

StreamOK(r) == (client[r] = "new" => Silent(r)) /\ Answered(r)

\* The queue registered under an id is its request's; the last frame says why.
StreamInv ==
  /\ \A i \in Ids : deltaQs[i] # NoReq => IdOf[deltaQs[i]] = i
  /\ eng.pc = "emit" => (eng.final <=> eng.frame # "token")
  /\ \A r \in Reqs : StreamOK(r)

\* The queues' types.
LEMMA DqTypes ==
  ASSUME LoopInv, NEW r \in Reqs
  PROVE  dq \in [Reqs -> Seq(Frames)] /\ dq[r] \in Seq(Frames) /\ IdOf[r] \in Ids
BY LoopAssumption DEF LoopInv, Threads

\* A step of the loop thread that puts no frame, and may call _emit.
LEMMA Speaks ==
  ASSUME StreamInv, UNCHANGED <<dq, deltaQs, deadline, httpVars, lost>>,
         eng.pc \notin {"emit", "pop"}, eng'.pc # "pop",
         \A r \in Reqs : client[r] = "new" => ~Emitting(r)' /\ IdOf[r] \notin eng'.expired,
         eng'.pc = "emit" => (eng'.final <=> eng'.frame # "token")
  PROVE  StreamInv'
<1>1. UNCHANGED <<http, client>>
  BY DEF httpVars
<1>2. ASSUME NEW r \in Reqs PROVE StreamOK(r)'
  <2>1. StreamOK(r) /\ ~Popping(r) /\ ~Popping(r)' /\ (HttpPopping(r)' <=> HttpPopping(r))
        /\ (HasFinal(r)' <=> HasFinal(r)) /\ (LostFrame(r)' <=> LostFrame(r))
    BY <1>1 DEF StreamInv, Popping, HttpPopping, HasFinal, LostFrame
  <2>2. client'[r] = "new" => Silent(r)'
    BY <1>1, <2>1 DEF StreamOK, Silent
  <2>3. Answered(r)'
    BY <1>1, <2>1 DEF StreamOK, Answered
  <2> QED BY <2>2, <2>3 DEF StreamOK
<1> QED BY <1>2 DEF StreamInv

\* A step of the event loop, or of time, that leaves the delta queues alone.
LEMMA Listens ==
  ASSUME LoopInv, StreamInv, UNCHANGED <<dq, deltaQs, eng>>, lost \subseteq lost',
         \A r \in Reqs : HttpPopping(r)' <=> HttpPopping(r),
         \A r \in Reqs : client'[r] = "new" => client[r] = "new",
         \A r \in Reqs : client'[r] = "reading" => client[r] = "reading",
         \A i \in Ids : deadline[i] = "none" => deadline'[i] = "none"
  PROVE  StreamInv'
<1>1. ASSUME NEW r \in Reqs PROVE StreamOK(r)'
  <2>1. StreamOK(r) /\ (Popping(r)' <=> Popping(r))
        /\ (Emitting(r)' <=> Emitting(r)) /\ (HttpPopping(r)' <=> HttpPopping(r))
        /\ (HasFinal(r)' <=> HasFinal(r)) /\ (LostFrame(r) => LostFrame(r)')
    BY DEF StreamInv, Emitting, Popping, HasFinal, LostFrame
  <2>2. client'[r] = "new" => Silent(r)'
    BY <2>1, DqTypes DEF StreamOK, Silent
  <2>3. Answered(r)'
    BY <2>1 DEF StreamOK, Answered
  <2> QED BY <2>2, <2>3 DEF StreamOK
<1> QED BY <1>1 DEF StreamInv

\* A queue that got a final frame holds one from then on ...
LEMMA FinalAppended ==
  ASSUME NEW s \in Seq(Frames), NEW f \in Frames
  PROVE  /\ Len(Append(s, f)) = Len(s) + 1 /\ Len(s) \in Nat
         /\ (\E i \in DOMAIN s : s[i] # "token") => \E i \in DOMAIN Append(s, f) : Append(s, f)[i] # "token"
         /\ f # "token" => \E i \in DOMAIN Append(s, f) : Append(s, f)[i] # "token"
<1> DEFINE t == Append(s, f)
<1>1. Len(t) = Len(s) + 1 /\ Len(s) \in Nat /\ DOMAIN t = 1..Len(t) /\ DOMAIN s = 1..Len(s)
  OBVIOUS
<1>2. t[Len(s) + 1] = f /\ \A i \in 1..Len(s) : t[i] = s[i]
  OBVIOUS
<1> HIDE DEF t
<1>3. Len(s) + 1 \in DOMAIN t /\ \A i \in 1..Len(s) : i \in DOMAIN t
  BY <1>1
<1>4. (\E i \in DOMAIN s : s[i] # "token") => \E i \in DOMAIN t : t[i] # "token"
  BY <1>1, <1>2, <1>3
<1>5. f # "token" => \E i \in DOMAIN t : t[i] # "token"
  BY <1>2, <1>3
<1> QED BY <1>1, <1>4, <1>5 DEF t

\* ... until it is read: reading a token leaves it there.
LEMMA FinalRead ==
  ASSUME NEW s \in Seq(Frames), s # <<>>, Head(s) = "token", \E i \in DOMAIN s : s[i] # "token"
  PROVE  \E i \in DOMAIN Tail(s) : Tail(s)[i] # "token"
<1> DEFINE t == Tail(s)
<1>1. Len(t) = Len(s) - 1 /\ Len(s) \in Nat \ {0} /\ DOMAIN t = 1..Len(t) /\ DOMAIN s = 1..Len(s)
  OBVIOUS
<1>2. \A i \in 1..Len(t) : t[i] = s[i + 1]
  OBVIOUS
<1>3. s[1] = "token"
  OBVIOUS
<1> HIDE DEF t
<1>4. PICK i \in 1..Len(s) : s[i] # "token"
  BY <1>1
<1>5. i # 1
  BY <1>3, <1>4
<1>6. i - 1 \in 1..Len(t) /\ (i - 1) + 1 = i
  BY <1>1, <1>5
<1>7. t[i - 1] = s[i]
  <2>1. t[i - 1] = s[(i - 1) + 1]
    BY <1>2, <1>6
  <2> QED BY <1>6, <2>1
<1> QED BY <1>1, <1>4, <1>6, <1>7 DEF t

\* A jump of the loop thread puts no frame.
LEMMA CalmGoto ==
  ASSUME LoopInv, StreamInv, UNCHANGED <<dq, deltaQs, deadline, httpVars, lost>>,
         eng.pc \notin {"emit", "pop"},
         NEW pc \in LoopPCs \ {"add", "check", "apply", "emit", "pop"}, Goto(pc)
  PROVE  StreamInv'
<1>1. eng'.pc = pc /\ eng'.expired = eng.expired
  BY InvFacts, GotoFacts
<1>2. \A r \in Reqs : ~Emitting(r)'
  BY <1>1 DEF Emitting
<1>3. \A r \in Reqs : client[r] = "new" => IdOf[r] \notin eng'.expired
  BY <1>1 DEF StreamInv, StreamOK, Silent
<1> QED BY <1>1, <1>2, <1>3, Speaks

\* Calling _emit for a request that was submitted.
LEMMA CalmEmit ==
  ASSUME DistinctIds, LoopInv, StreamInv, UNCHANGED <<dq, deltaQs, deadline, httpVars, lost>>,
         eng.pc \notin {"emit", "pop"},
         NEW r \in Reqs, client[r] # "new", NEW f \in Frames, NEW b \in BOOLEAN, NEW pc \in Returns,
         EmitThen(IdOf[r], f, b, pc), b <=> f # "token"
  PROVE  StreamInv'
<1>0. IdOf[r] \in Ids /\ EngOK
  BY InvFacts
<1>1. /\ eng'.pc = "emit" /\ eng'.id = IdOf[r] /\ eng'.frame = f /\ eng'.final = b
      /\ eng'.expired = eng.expired
  BY <1>0, EmitFacts
<1>2. \A x \in Reqs : Emitting(x)' => x = r
  BY <1>1 DEF Emitting, DistinctIds
<1>3. \A x \in Reqs : client[x] = "new" => IdOf[x] \notin eng'.expired
  BY <1>1 DEF StreamInv, StreamOK, Silent
<1> QED BY <1>1, <1>2, <1>3, Speaks

\* What the loop works on was submitted.
LEMMA SubmittedIf ==
  ASSUME LoopInv, NEW r \in Reqs, r \in Known \/ AtAdd(r)
  PROVE  client[r] # "new"
BY DEF LoopInv, Journey

\* Every step of the loop thread but those of _emit itself.
LEMMA StreamLoopThread ==
  ASSUME DistinctIds, LoopInv, StreamInv, LoopThread, ~EmitPut, ~EmitPop
  PROVE  StreamInv'
<1> USE DEF LoopPCs, Returns, Frames
<1>0. EngOK
  BY InvFacts
<1>1. CASE Top
  <2>1. PICK pc \in {"exited", "admit"} : Goto(pc)
    BY <1>1 DEF Top
  <2> QED BY <1>1, <2>1, CalmGoto DEF Top, schedVars
<1>2. CASE Admit
  <2>1. /\ UNCHANGED <<dq, deltaQs, deadline, httpVars, lost>> /\ eng.pc = "admit"
    BY <1>2 DEF Admit, schedVars
  <2>2. CASE Goto("timeouts")
    BY <2>1, <2>2, CalmGoto
  <2>3. CASE eng' = eng \/ eng' = [eng EXCEPT !.pc = "add", !.req = Head(submitQ)]
    <3>1. eng'.pc \in {"add", "admit"} /\ eng'.expired = eng.expired
      BY <1>0, <2>1, <2>3 DEF EngOK
    <3>2. \A r \in Reqs : ~Emitting(r)'
      BY <1>0, <2>1, <3>1 DEF Emitting
    <3>3. \A r \in Reqs : client[r] = "new" => IdOf[r] \notin eng'.expired
      BY <3>1 DEF StreamInv, StreamOK, Silent
    <3> QED BY <2>1, <3>1, <3>2, <3>3, Speaks
  <2> QED BY <1>2, <2>2, <2>3 DEF Admit
<1>3. CASE Add
  <2>1. /\ UNCHANGED <<dq, deltaQs, deadline, httpVars, lost>> /\ eng.pc = "add"
    BY <1>3 DEF Add, AddRequest, progress
  <2>2. CASE Goto("admit")
    BY <2>1, <2>2, CalmGoto
  <2>3. CASE EmitThen(IdOf[eng.req], "final", TRUE, "admit")
    <3>1. eng.req \in Reqs /\ client[eng.req] # "new"
      BY <1>0, <2>1, SubmittedIf DEF EngOK, AtAdd
    <3> QED BY <2>1, <2>3, <3>1, CalmEmit
  <2> QED BY <1>3, <2>2, <2>3 DEF Add
<1>4. CASE CollectExpired
  <2>1. /\ UNCHANGED <<dq, deltaQs, deadline, httpVars, lost>> /\ eng.pc = "timeouts"
    BY <1>4 DEF CollectExpired, schedVars
  <2> DEFINE past == {i \in Ids : deadline[i] = "past"}
  <2>2. eng' = [eng EXCEPT !.pc = "expire", !.expired = past]
    BY <1>4 DEF CollectExpired
  <2>a. \A r \in Reqs : client[r] = "new" => IdOf[r] \notin past
    BY DEF StreamInv, StreamOK, Silent
  <2> HIDE DEF past
  <2>3. eng'.pc = "expire" /\ eng'.expired = past
    BY <1>0, <2>2 DEF EngOK
  <2>4. \A r \in Reqs : ~Emitting(r)'
    BY <1>0, <2>1, <2>3 DEF Emitting
  <2>5. \A r \in Reqs : client[r] = "new" => IdOf[r] \notin eng'.expired
    BY <2>a, <2>3
  <2> QED BY <2>1, <2>3, <2>4, <2>5, Speaks
<1>5. CASE CancelExpired
  <2>1. /\ UNCHANGED <<dq, deltaQs, deadline, httpVars, lost>> /\ eng.pc = "expire"
    BY <1>5 DEF CancelExpired, progress
  <2>2. CASE Goto("step")
    BY <2>1, <2>2, CalmGoto
  <2>3. ASSUME NEW id \in eng.expired,
               eng' = [eng EXCEPT !.pc = "emit", !.id = id, !.frame = "final", !.final = TRUE,
                                  !.after = "expire", !.expired = @ \ {id}]
        PROVE  StreamInv'
    <3>1. eng'.pc = "emit" /\ eng'.id = id /\ eng'.frame = "final" /\ eng'.final = TRUE
          /\ eng'.expired = eng.expired \ {id}
      BY <1>0, <2>3 DEF EngOK
    <3>2. \A r \in Reqs : client[r] = "new" => IdOf[r] \notin eng.expired
      BY DEF StreamInv, StreamOK, Silent
    <3>3. \A r \in Reqs : client[r] = "new" => ~Emitting(r)' /\ IdOf[r] \notin eng'.expired
      BY <2>3, <3>1, <3>2 DEF Emitting
    <3> QED BY <2>1, <3>1, <3>3, Speaks
  <2> QED BY <1>5, <2>2, <2>3 DEF CancelExpired
<1>6. CASE ScheduleStep
  <2>1. PICK pc \in {"forward", "exited", "top"} : Goto(pc)
    BY <1>6 DEF ScheduleStep
  <2> QED BY <1>6, <2>1, CalmGoto DEF ScheduleStep, FormBatch
<1>7. CASE RunBatch
  <2>1. PICK pc \in {"results", "fail"} : Goto(pc)
    BY <1>7 DEF RunBatch
  <2> QED BY <1>7, <2>1, CalmGoto DEF RunBatch, progress
<1>8. CASE FailMember
  <2>1. /\ UNCHANGED <<dq, deltaQs, deadline, httpVars, lost>> /\ eng.pc = "fail"
    BY <1>8 DEF FailMember, progress
  <2>2. CASE Goto("top")
    BY <2>1, <2>2, CalmGoto
  <2>3. CASE batch # <<>> /\ EmitThen(IdOf[Head(batch)], "final", TRUE, "fail")
    <3>1. Head(batch) \in Entries(batch) /\ Head(batch) \in Reqs
      BY <2>3, InvFacts, TailEntries
    <3>2. client[Head(batch)] # "new"
      BY <3>1, InvFacts, SubmittedIf
    <3> QED BY <2>1, <2>3, <3>1, <3>2, CalmEmit
  <2> QED BY <1>8, <2>2, <2>3 DEF FailMember
<1>9. CASE NextResult
  <2>1. /\ UNCHANGED <<dq, deltaQs, deadline, httpVars, lost>> /\ eng.pc = "results"
    BY <1>9 DEF NextResult, progress
  <2>2. CASE Goto("top")
    BY <2>1, <2>2, CalmGoto
  <2>3. CASE eng' = eng \/ eng' = [eng EXCEPT !.pc = "check", !.req = Head(batch)]
    <3>1. eng'.pc \in {"check", "results"} /\ eng'.expired = eng.expired
      BY <1>0, <2>1, <2>3 DEF EngOK
    <3>2. \A r \in Reqs : ~Emitting(r)'
      BY <1>0, <2>1, <3>1 DEF Emitting
    <3>3. \A r \in Reqs : client[r] = "new" => IdOf[r] \notin eng'.expired
      BY <3>1 DEF StreamInv, StreamOK, Silent
    <3> QED BY <2>1, <3>1, <3>2, <3>3, Speaks
  <2> QED BY <1>9, <2>2, <2>3 DEF NextResult
<1>10. CASE CheckCancelled
  <2>1. /\ UNCHANGED <<dq, deltaQs, deadline, httpVars, lost>> /\ eng.pc = "check"
    BY <1>10 DEF CheckCancelled, progress
  <2>2. eng.req \in Reqs /\ client[eng.req] # "new"
    BY <1>0, <2>1, SubmittedIf DEF EngOK, LoopInv, Arrived
  <2>3. CASE Goto("apply")
    <3>1. eng'.pc = "apply" /\ eng'.expired = eng.expired
      BY <1>0, <2>2, <2>3, GotoFacts
    <3>2. \A r \in Reqs : ~Emitting(r)'
      BY <1>0, <2>1, <3>1 DEF Emitting
    <3>3. \A r \in Reqs : client[r] = "new" => IdOf[r] \notin eng'.expired
      BY <3>1 DEF StreamInv, StreamOK, Silent
    <3> QED BY <2>1, <3>1, <3>2, <3>3, Speaks
  <2>4. CASE EmitThen(IdOf[eng.req], "final", TRUE, "unlock")
    BY <2>1, <2>2, <2>4, CalmEmit
  <2> QED BY <1>10, <2>3, <2>4 DEF CheckCancelled
<1>11. CASE Unlock
  BY <1>11, CalmGoto DEF Unlock, schedVars
<1>12. CASE Apply
  <2>1. UNCHANGED <<dq, deltaQs, deadline, httpVars, lost>> /\ eng.pc = "apply"
    BY <1>12 DEF Apply
  <2>2. eng.req \in Reqs /\ client[eng.req] # "new"
    BY <1>0, <2>1, SubmittedIf DEF EngOK, LoopInv, Arrived
  <2>3. \E f \in Frames, b \in BOOLEAN : EmitThen(IdOf[eng.req], f, b, "results") /\ (b <=> f # "token")
    <3>1. CASE EmitThen(IdOf[eng.req], "blank", TRUE, "results")
      BY <3>1
    <3>2. CASE EmitThen(IdOf[eng.req], "final", TRUE, "results")
      BY <3>2
    <3>3. CASE EmitThen(IdOf[eng.req], "token", FALSE, "results")
      BY <3>3
    <3>4. \/ EmitThen(IdOf[eng.req], "blank", TRUE, "results")
          \/ EmitThen(IdOf[eng.req], "final", TRUE, "results")
          \/ EmitThen(IdOf[eng.req], "token", FALSE, "results")
      <4>1. CASE EmitThen(IdOf[eng.req], IF Live(eng.req) THEN "blank" ELSE "final", TRUE, "results")
        BY <4>1
      <4>2. CASE LET over == phase'[eng.req] = "finished"
                 IN  EmitThen(IdOf[eng.req], IF over THEN "final" ELSE "token", over, "results")
        <5>1. CASE phase'[eng.req] = "finished"
          BY <4>2, <5>1
        <5>2. CASE phase'[eng.req] # "finished"
          BY <4>2, <5>2
        <5> QED BY <5>1, <5>2
      <4> QED BY <1>12, <4>1, <4>2 DEF Apply
    <3> QED BY <3>1, <3>2, <3>3, <3>4
  <2>4. PICK f \in Frames, b \in BOOLEAN : EmitThen(IdOf[eng.req], f, b, "results") /\ (b <=> f # "token")
    BY <2>3
  <2> QED BY <2>1, <2>2, <2>4, CalmEmit
<1> QED BY <1>1, <1>2, <1>3, <1>4, <1>5, <1>6, <1>7, <1>8, <1>9, <1>10, <1>11, <1>12 DEF LoopThread

\* _emit puts its frame, or loses it.
LEMMA StreamEmitPut ==
  ASSUME DistinctIds, LoopInv, StreamInv, EmitPut
  PROVE  StreamInv'
<1> DEFINE q == deltaQs[eng.id]
<1>1. /\ UNCHANGED <<deltaQs, deadline, http, client>> /\ eng.pc = "emit" /\ lost \subseteq lost'
  BY DEF EmitPut, httpVars
<1>2. /\ EngOK /\ eng.id \in Ids /\ eng.after \in Returns /\ eng.frame \in Frames
      /\ q \in Reqs \cup {NoReq}
  BY <1>1, InvFacts DEF EngOK, LoopInv, LoopTypeOK
<1>3. \A r \in Reqs : /\ ~Popping(r) /\ (HttpPopping(r)' <=> HttpPopping(r))
                      /\ LostFrame(r) => LostFrame(r)'
  BY <1>1 DEF Popping, HttpPopping, LostFrame
<1>4. "pop" \in LoopPCs /\ eng.after \in LoopPCs
      /\ eng.after \notin {"add", "check", "apply", "emit", "pop"}
  BY <1>2 DEF LoopPCs, Returns
<1>5. ASSUME NEW pc \in {eng.after, "pop"}, Goto(pc)
      PROVE  eng'.pc = pc /\ eng'.id = eng.id /\ eng'.expired = eng.expired
  BY <1>2, <1>4, <1>5, GotoFacts
<1>6. \A r \in Reqs : StreamOK(r)
  BY DEF StreamInv
<1>7. CASE q = NoReq /\ Goto(eng.after) /\ dq' = dq
  <2>1. eng'.pc = eng.after /\ eng'.id = eng.id /\ eng'.expired = eng.expired
    BY <1>5, <1>7
  <2>2. \A r \in Reqs : ~Popping(r)' /\ ~Emitting(r)' /\ (HasFinal(r)' <=> HasFinal(r))
    BY <1>4, <1>7, <2>1 DEF Popping, Emitting, HasFinal
  <2>3. ASSUME NEW r \in Reqs PROVE StreamOK(r)'
    <3>1. client'[r] = "new" => Silent(r)'
      BY <1>1, <1>6, <1>7, <2>1, <2>2 DEF StreamOK, Silent
    <3>2. Answered(r)'
      BY <1>1, <1>3, <1>6, <2>2 DEF StreamOK, Answered
    <3> QED BY <3>1, <3>2 DEF StreamOK
  <2>4. eng'.pc # "emit"
    BY <1>4, <2>1
  <2> QED BY <1>1, <2>3, <2>4 DEF StreamInv
<1>8. CASE q # NoReq
  <2>1. q \in Reqs /\ IdOf[q] = eng.id /\ deltaQs[IdOf[q]] = q
    BY <1>2, <1>8 DEF StreamInv
  <2>2. PICK z \in Reqs : z = q
    BY <2>1
  <2>3. /\ \/ dq' = [dq EXCEPT ![z] = Append(@, eng.frame)]
           \/ dq' = dq /\ <<"frame", z>> \in lost'
        /\ Goto(IF eng.final THEN "pop" ELSE eng.after)
    BY <1>8, <2>2 DEF EmitPut
  <2>4. IdOf[z] = eng.id /\ deltaQs[IdOf[z]] = z /\ \A x \in Reqs \ {z} : IdOf[x] # eng.id
    BY <2>1, <2>2 DEF DistinctIds
  <2> HIDE DEF q
  <2>5. dq \in [Reqs -> Seq(Frames)] /\ dq[z] \in Seq(Frames)
    BY DqTypes
  <2>6. \A x \in Reqs \ {z} : dq'[x] = dq[x]
    BY <2>3, <2>5
  <2>7. /\ HasFinal(z) => HasFinal(z)' \/ LostFrame(z)'
        /\ eng.frame # "token" => HasFinal(z)' \/ LostFrame(z)'
    <3>1. CASE dq' = [dq EXCEPT ![z] = Append(@, eng.frame)]
      <4>1. dq'[z] = Append(dq[z], eng.frame)
        BY <2>5, <3>1
      <4> QED BY <1>2, <2>5, <4>1, FinalAppended DEF HasFinal
    <3>2. CASE <<"frame", z>> \in lost'
      BY <3>2 DEF LostFrame
    <3> QED BY <2>3, <3>1, <3>2
  <2>8. (eng.final <=> eng.frame # "token") /\ eng.final \in BOOLEAN
    BY <1>1, <1>2 DEF StreamInv, EngOK
  <2>9. /\ eng'.id = eng.id /\ eng'.expired = eng.expired
        /\ eng'.pc = IF eng.final THEN "pop" ELSE eng.after
    BY <1>5, <2>3, <2>8
  <2>10. (Popping(z)' <=> eng.final) /\ \A x \in Reqs : ~Emitting(x)'
    BY <1>4, <2>4, <2>8, <2>9 DEF Emitting, Popping
  <2>11. ASSUME NEW r \in Reqs PROVE StreamOK(r)'
    <3>1. CASE r = z
      <4>1. client[r] # "new" /\ StreamOK(z)
        BY <1>6, <2>4, <3>1 DEF StreamOK, Silent
      <4>2. Answered(r)'
        BY <1>1, <1>3, <2>4, <2>7, <2>8, <2>10, <3>1, <4>1 DEF StreamOK, Answered
      <4> QED BY <1>1, <4>1, <4>2 DEF StreamOK
    <3>2. CASE r # z
      <4>1. dq'[r] = dq[r] /\ IdOf[r] # eng.id
        BY <2>4, <2>6, <3>2
      <4>2. ~Popping(r)' /\ ~Emitting(r)' /\ (HasFinal(r)' <=> HasFinal(r))
        BY <2>9, <2>10, <4>1 DEF Popping, HasFinal
      <4>3. client'[r] = "new" => Silent(r)'
        BY <1>1, <1>6, <2>9, <4>1, <4>2 DEF StreamOK, Silent
      <4>4. Answered(r)'
        BY <1>1, <1>3, <1>6, <4>2 DEF StreamOK, Answered
      <4> QED BY <4>3, <4>4 DEF StreamOK
    <3> QED BY <3>1, <3>2
  <2>12. eng'.pc # "emit"
    BY <1>4, <2>8, <2>9
  <2> QED BY <1>1, <2>11, <2>12 DEF StreamInv
<1> QED BY <1>7, <1>8 DEF EmitPut

\* A thread that has put its final frame forgets the queue.
LEMMA Forgets ==
  ASSUME DistinctIds, LoopInv, StreamInv, NEW x \in Ids, UNCHANGED <<dq, deadline, client, lost>>,
         deltaQs' = [deltaQs EXCEPT ![x] = NoReq],
         \A r \in Reqs : IdOf[r] = x => Popping(r) \/ HttpPopping(r),
         \A r \in Reqs : IdOf[r] # x =>
            /\ Popping(r)' <=> Popping(r)
            /\ HttpPopping(r)' <=> HttpPopping(r),
         \A r \in Reqs : Popping(r)' => Popping(r),
         \A r \in Reqs : HttpPopping(r)' => HttpPopping(r),
         \A r \in Reqs : Emitting(r)' => Emitting(r),
         eng'.expired = eng.expired,
         eng'.pc = "emit" => eng' = eng
  PROVE  StreamInv'
<1>1. deltaQs \in [Ids -> Reqs \cup {NoReq}] /\ \A r \in Reqs : IdOf[r] \in Ids
  BY InvFacts DEF LoopInv, LoopTypeOK
<1>2. deltaQs'[x] = NoReq /\ \A i \in Ids \ {x} : deltaQs'[i] = deltaQs[i]
  BY <1>1
<1>3. \A i \in Ids : deltaQs'[i] # NoReq => IdOf[deltaQs'[i]] = i
  BY <1>2 DEF StreamInv
<1>4. ASSUME NEW r \in Reqs PROVE StreamOK(r)'
  <2>1. StreamOK(r) /\ (HasFinal(r)' <=> HasFinal(r)) /\ NoReq # r
        /\ (LostFrame(r)' <=> LostFrame(r))
    BY LoopAssumption DEF StreamInv, HasFinal, LostFrame
  <2>2. CASE IdOf[r] = x
    <3>1. deltaQs'[IdOf[r]] # r
      BY <1>2, <2>1, <2>2
    <3>2. client'[r] = "new" => Silent(r)'
      BY <2>1, <3>1 DEF StreamOK, Silent
    <3>3. Answered(r)'
      BY <2>1, <2>2 DEF StreamOK, Answered
    <3> QED BY <3>2, <3>3 DEF StreamOK
  <2>3. CASE IdOf[r] # x
    <3>1. deltaQs'[IdOf[r]] = deltaQs[IdOf[r]]
      BY <1>1, <1>2, <2>3
    <3>2. client'[r] = "new" => Silent(r)'
      BY <2>1, <3>1 DEF StreamOK, Silent
    <3>3. Answered(r)'
      BY <2>1, <3>1 DEF StreamOK, Answered
    <3> QED BY <3>2, <3>3 DEF StreamOK
  <2> QED BY <2>2, <2>3
<1> QED BY <1>3, <1>4 DEF StreamInv

\* The loop thread forgets a queue after its final frame ...
LEMMA StreamEmitPop ==
  ASSUME DistinctIds, LoopInv, StreamInv, EmitPop
  PROVE  StreamInv'
<1>1. /\ UNCHANGED <<dq, deadline, client, http, lost>> /\ eng.pc = "pop" /\ Goto(eng.after)
      /\ deltaQs' = [deltaQs EXCEPT ![eng.id] = NoReq]
  BY DEF EmitPop, schedVars, httpVars
<1>2. EngOK /\ eng.id \in Ids /\ eng.after \in Returns
  BY <1>1, InvFacts DEF EngOK
<1>3. eng.after \in LoopPCs /\ eng.after \notin {"add", "check", "apply", "emit", "pop"}
  BY <1>2 DEF LoopPCs, Returns
<1>4. eng'.pc = eng.after /\ eng'.expired = eng.expired
  BY <1>1, <1>2, <1>3, GotoFacts
<1>5. PICK x \in Ids : x = eng.id
  BY <1>2
<1>6. \A r \in Reqs : /\ Popping(r) <=> IdOf[r] = x
                      /\ ~Popping(r)' /\ ~Emitting(r)'
                      /\ HttpPopping(r)' <=> HttpPopping(r)
  BY <1>1, <1>3, <1>4, <1>5 DEF Popping, Emitting, HttpPopping
<1>7. deltaQs' = [deltaQs EXCEPT ![x] = NoReq]
  BY <1>1, <1>5
<1> QED BY <1>1, <1>3, <1>4, <1>6, <1>7, Forgets

\* ... and so does cancel.
LEMMA StreamCancelPop ==
  ASSUME DistinctIds, LoopInv, StreamInv, CancelPop
  PROVE  StreamInv'
<1>1. /\ UNCHANGED <<dq, deadline, client, eng, lost>> /\ http.pc = "c_pop" /\ GotoHttp("idle")
      /\ deltaQs' = [deltaQs EXCEPT ![IdOf[http.req]] = NoReq]
  BY DEF CancelPop, schedVars, loopOnly
<1>2. HttpOK /\ http.req \in Reqs /\ IdOf[http.req] \in Ids
  BY <1>1, InvFacts DEF HttpOK
<1>3. http'.pc = "idle"
  <2>1. "idle" \in HttpPCs
    BY DEF HttpPCs
  <2> QED BY <1>1, <1>2, <2>1, GotoHttpFacts
<1>4. PICK x \in Ids : x = IdOf[http.req]
  BY <1>2
<1>5. \A r \in Reqs : /\ HttpPopping(r) <=> IdOf[r] = x
                      /\ ~HttpPopping(r)'
                      /\ Popping(r)' <=> Popping(r)
                      /\ Emitting(r)' <=> Emitting(r)
  BY <1>1, <1>2, <1>3, <1>4 DEF Popping, Emitting, HttpPopping, DistinctIds
<1>6. deltaQs' = [deltaQs EXCEPT ![x] = NoReq]
  BY <1>1, <1>4
<1> QED BY <1>1, <1>5, <1>6, Forgets

\* cancel's frame is put too, or lost.
LEMMA StreamCancelEmit ==
  ASSUME DistinctIds, LoopInv, StreamInv, CancelEmit
  PROVE  StreamInv'
<1> DEFINE q == deltaQs[IdOf[http.req]]
<1>1. UNCHANGED <<deltaQs, deadline, client, eng>> /\ http.pc = "c_emit" /\ lost \subseteq lost'
  BY DEF CancelEmit
<1>2. HttpOK /\ http.req \in Reqs /\ IdOf[http.req] \in Ids /\ q \in Reqs \cup {NoReq}
  BY <1>1, InvFacts DEF HttpOK, LoopInv, LoopTypeOK
<1>3. "idle" \in HttpPCs /\ "c_pop" \in HttpPCs
  BY DEF HttpPCs
<1>4. CASE GotoHttp("idle") /\ dq' = dq
  <2>1. http'.pc = "idle"
    BY <1>2, <1>3, <1>4, GotoHttpFacts
  <2>2. \A r \in Reqs : HttpPopping(r)' <=> HttpPopping(r)
    BY <1>1, <2>1 DEF HttpPopping
  <2> QED BY <1>1, <1>4, <2>2, Listens
<1>5. CASE /\ q # NoReq /\ GotoHttp("c_pop")
           /\ \/ dq' = [dq EXCEPT ![q] = Append(@, "final")]
              \/ dq' = dq /\ <<"frame", q>> \in lost'
  <2>1. http'.pc = "c_pop" /\ http'.req = http.req
    BY <1>2, <1>3, <1>5, GotoHttpFacts
  <2>2. q \in Reqs /\ IdOf[q] = IdOf[http.req]
    BY <1>2, <1>5 DEF StreamInv
  <2>3. q = http.req
    BY <1>2, <2>2 DEF DistinctIds
  <2>4. PICK z \in Reqs : z = q /\ z = http.req
    BY <2>2, <2>3
  <2>5. deltaQs[IdOf[z]] = z
    BY <2>4
  <2>6. dq \in [Reqs -> Seq(Frames)] /\ dq[z] \in Seq(Frames) /\ "final" \in Frames
    BY DqTypes DEF Frames
  <2>7. dq' = [dq EXCEPT ![z] = Append(@, "final")] \/ (dq' = dq /\ LostFrame(z)')
    BY <1>5, <2>4 DEF LostFrame
  <2> HIDE DEF q
  <2>8. (HasFinal(z)' \/ LostFrame(z)') /\ \A x \in Reqs \ {z} : dq'[x] = dq[x]
    <3>1. CASE dq' = [dq EXCEPT ![z] = Append(@, "final")]
      <4>1. dq'[z] = Append(dq[z], "final") /\ \A x \in Reqs \ {z} : dq'[x] = dq[x]
        BY <2>6, <3>1
      <4> QED BY <2>6, <4>1, FinalAppended DEF HasFinal
    <3>2. CASE dq' = dq /\ LostFrame(z)'
      BY <3>2
    <3> QED BY <2>7, <3>1, <3>2
  <2>9. \A r \in Reqs : /\ Popping(r)' <=> Popping(r)
                        /\ Emitting(r)' <=> Emitting(r)
                        /\ HttpPopping(r)' <=> r = z
                        /\ LostFrame(r) => LostFrame(r)'
    BY <1>1, <2>1, <2>4 DEF Popping, Emitting, HttpPopping, LostFrame
  <2>10. ASSUME NEW r \in Reqs PROVE StreamOK(r)'
    <3>0. StreamOK(r)
      BY DEF StreamInv
    <3>1. CASE r = z
      <4>1. client[r] # "new"
        BY <2>5, <3>0, <3>1 DEF StreamOK, Silent
      <4>2. Answered(r)'
        BY <2>8, <3>1 DEF Answered
      <4> QED BY <1>1, <4>1, <4>2 DEF StreamOK
    <3>2. CASE r # z
      <4>1. dq'[r] = dq[r] /\ (HasFinal(r)' <=> HasFinal(r))
        BY <2>8, <3>2 DEF HasFinal
      <4>2. client'[r] = "new" => Silent(r)'
        BY <1>1, <2>9, <3>0, <4>1 DEF StreamOK, Silent
      <4>3. Answered(r)'
        BY <1>1, <2>9, <3>0, <3>2, <4>1 DEF StreamOK, Answered
      <4> QED BY <4>2, <4>3 DEF StreamOK
    <3> QED BY <3>1, <3>2
  <2> QED BY <1>1, <2>10 DEF StreamInv
<1>6. (GotoHttp("idle") /\ dq' = dq)
      \/ /\ q # NoReq /\ GotoHttp("c_pop")
         /\ \/ dq' = [dq EXCEPT ![q] = Append(@, "final")]
            \/ dq' = dq /\ <<"frame", q>> \in lost'
  BY DEF CancelEmit
<1> QED BY <1>4, <1>5, <1>6

\* A stream reads a frame; a final one ends it.
LEMMA StreamRead ==
  ASSUME LoopInv, StreamInv, NEW r \in Reqs, Read(r)
  PROVE  StreamInv'
<1>1. /\ UNCHANGED <<deltaQs, deadline, lost, eng, http>>
      /\ client[r] = "reading" /\ dq[r] # <<>> /\ dq' = [dq EXCEPT ![r] = Tail(@)]
      /\ client' = IF Head(dq[r]) # "token" THEN [client EXCEPT ![r] = "closed"] ELSE client
  BY DEF Read, schedVars, loopOnly
<1>2. dq \in [Reqs -> Seq(Frames)] /\ dq[r] \in Seq(Frames)
      /\ client \in [Reqs -> {"new", "reading", "closed", "gone"}]
  BY DqTypes, HttpStill
<1>3. dq'[r] = Tail(dq[r]) /\ \A x \in Reqs \ {r} : dq'[x] = dq[x] /\ client'[x] = client[x]
  BY <1>1, <1>2
<1>5. client'[r] # "new" /\ (client'[r] = "reading" => Head(dq[r]) = "token")
  BY <1>1, <1>2
<1>6. \A x \in Reqs : /\ Popping(x)' <=> Popping(x)
                      /\ HttpPopping(x)' <=> HttpPopping(x)
                      /\ Emitting(x)' <=> Emitting(x)
                      /\ LostFrame(x)' <=> LostFrame(x)
  BY <1>1 DEF Popping, HttpPopping, Emitting, LostFrame
<1>7. ASSUME NEW x \in Reqs PROVE StreamOK(x)'
  <2>0. StreamOK(x)
    BY DEF StreamInv
  <2>1. CASE x = r
    <3>1. client'[r] = "reading" /\ HasFinal(r) => HasFinal(r)'
      BY <1>1, <1>2, <1>3, <1>5, FinalRead DEF HasFinal
    <3>2. Answered(r)'
      BY <1>1, <1>6, <2>0, <2>1, <3>1 DEF StreamOK, Answered
    <3> QED BY <1>5, <2>1, <3>2 DEF StreamOK
  <2>2. CASE x # r
    <3>1. dq'[x] = dq[x] /\ client'[x] = client[x] /\ (HasFinal(x)' <=> HasFinal(x))
      BY <1>3, <2>2 DEF HasFinal
    <3>2. client'[x] = "new" => Silent(x)'
      BY <1>1, <1>6, <2>0, <3>1 DEF StreamOK, Silent
    <3>3. Answered(x)'
      BY <1>1, <1>6, <2>0, <3>1 DEF StreamOK, Answered
    <3> QED BY <3>2, <3>3 DEF StreamOK
  <2> QED BY <2>1, <2>2
<1> QED BY <1>1, <1>7 DEF StreamInv

\* submit registers an empty queue, of which no thread knows yet.
LEMMA StreamSubmitRegister ==
  ASSUME DistinctIds, LoopInv, StreamInv, NEW r \in Reqs, SubmitRegister(r)
  PROVE  StreamInv'
<1>1. /\ UNCHANGED <<dq, lost, eng>> /\ http.pc = "idle" /\ client[r] = "new"
  BY DEF SubmitRegister, schedVars, loopOnly, Idle
<1>2. client \in [Reqs -> {"new", "reading", "closed", "gone"}]
      /\ deltaQs \in [Ids -> Reqs \cup {NoReq}] /\ deadline \in [Ids -> {"none", "armed", "past"}]
      /\ HttpOK /\ \A x \in Reqs : IdOf[x] \in Ids
  BY HttpStill, InvFacts DEF LoopInv, LoopTypeOK
<1>3. CASE client' = [client EXCEPT ![r] = "closed"] /\ UNCHANGED <<deltaQs, deadline, http>>
  <2>1. \A x \in Reqs : client'[x] = client[x] \/ client'[x] = "closed"
    BY <1>2, <1>3
  <2>2. \A x \in Reqs : HttpPopping(x)' <=> HttpPopping(x)
    BY <1>3 DEF HttpPopping
  <2> QED BY <1>1, <1>3, <2>1, <2>2, Listens
<1>4. CASE /\ deltaQs' = [deltaQs EXCEPT ![IdOf[r]] = r]
           /\ deadline' = [deadline EXCEPT ![IdOf[r]] = "armed"]
           /\ http' = [http EXCEPT !.pc = "put", !.req = r]
           /\ client' = [client EXCEPT ![r] = "reading"]
  <2>1. PICK i \in Ids : i = IdOf[r]
    BY <1>2
  <2>2. /\ deltaQs'[i] = r /\ \A j \in Ids \ {i} : deltaQs'[j] = deltaQs[j] /\ deadline'[j] = deadline[j]
    BY <1>2, <1>4, <2>1
  <2>3. client'[r] = "reading" /\ \A x \in Reqs \ {r} : client'[x] = client[x] /\ IdOf[x] # i
    BY <1>2, <1>4, <2>1 DEF DistinctIds
  <2>4. http'.pc = "put"
    BY <1>2, <1>4 DEF HttpOK
  <2>5. \A x \in Reqs : /\ Popping(x)' <=> Popping(x)
                        /\ ~HttpPopping(x)' /\ ~HttpPopping(x)
                        /\ Emitting(x)' <=> Emitting(x)
                        /\ LostFrame(x)' <=> LostFrame(x)
                        /\ HasFinal(x)' <=> HasFinal(x)
    BY <1>1, <2>4 DEF Popping, HttpPopping, Emitting, LostFrame, HasFinal
  <2>6. ASSUME NEW x \in Reqs PROVE StreamOK(x)'
    <3>0. StreamOK(x)
      BY DEF StreamInv
    <3>1. CASE x = r
      <4>1. Silent(r)
        BY <1>1, <3>0, <3>1 DEF StreamOK
      <4>2. ~Popping(r)
        BY <4>1 DEF Silent
      <4>3. Answered(r)'
        BY <2>1, <2>2, <2>5, <4>2 DEF Answered
      <4> QED BY <2>3, <3>1, <4>3 DEF StreamOK
    <3>2. CASE x # r
      <4>1. IdOf[x] \in Ids \ {i} /\ client'[x] = client[x]
        BY <1>2, <2>3, <3>2
      <4>2. deltaQs'[IdOf[x]] = deltaQs[IdOf[x]] /\ deadline'[IdOf[x]] = deadline[IdOf[x]]
        BY <2>2, <4>1
      <4>3. client'[x] = "new" => Silent(x)'
        BY <1>1, <2>5, <3>0, <4>1, <4>2 DEF StreamOK, Silent
      <4>4. Answered(x)'
        BY <1>1, <2>5, <3>0, <4>1, <4>2 DEF StreamOK, Answered
      <4> QED BY <4>3, <4>4 DEF StreamOK
    <3> QED BY <3>1, <3>2
  <2>7. \A j \in Ids : deltaQs'[j] # NoReq => IdOf[deltaQs'[j]] = j
    BY <2>1, <2>2 DEF StreamInv
  <2> QED BY <1>1, <2>6, <2>7 DEF StreamInv
<1> QED BY <1>3, <1>4 DEF SubmitRegister

\* The other steps of the event loop, and time.
LEMMA StreamHttpThread ==
  ASSUME DistinctIds, LoopInv, StreamInv, HttpThread
  PROVE  StreamInv'
<1>0. HttpOK /\ client \in [Reqs -> {"new", "reading", "closed", "gone"}]
  BY HttpStill, InvFacts
<1> DEFINE Calm == UNCHANGED <<dq, deltaQs, eng, client, deadline>> /\ lost \subseteq lost'
<1>1. ASSUME Calm, http.pc # "c_pop", http'.pc # "c_pop" PROVE StreamInv'
  <2>1. \A x \in Reqs : HttpPopping(x)' <=> HttpPopping(x)
    BY <1>1 DEF HttpPopping
  <2>2. UNCHANGED <<dq, deltaQs, eng, client, deadline>> /\ lost \subseteq lost'
    BY <1>1
  <2> QED BY <2>1, <2>2, Listens
<1>2. CASE SubmitPut
  <2>1. http'.pc = "idle"
    BY <1>0, <1>2 DEF SubmitPut, GotoHttp, HttpOK
  <2> QED BY <1>1, <1>2, <2>1 DEF SubmitPut, schedVars, loopOnly
<1>3. CASE CancelFlag
  <2>1. http'.pc \in {"c_emit", "idle", "c_finish"}
    BY <1>0, <1>3 DEF CancelFlag, GotoHttp, HttpOK
  <2> QED BY <1>1, <1>3, <2>1 DEF CancelFlag, progress, loopOnly
<1>4. CASE CancelFinish
  <2>1. http'.pc = "c_assign"
    BY <1>0, <1>4 DEF CancelFinish, HttpOK
  <2> QED BY <1>1, <1>4, <2>1 DEF CancelFinish, progress, loopOnly
<1>5. CASE CancelAssign
  <2>1. http'.pc = "c_emit"
    BY <1>0, <1>5 DEF CancelAssign, HttpOK
  <2> QED BY <1>1, <1>5, <2>1 DEF CancelAssign, progress, loopOnly
<1>6. CASE BeginDrain
  BY <1>1, <1>6 DEF BeginDrain, schedVars, loopOnly, Idle
<1>7. CASE Stop
  BY <1>1, <1>7 DEF Stop, schedVars, Idle
<1>8. ASSUME NEW r \in Reqs, CancelMark(r) PROVE StreamInv'
  <2>1. UNCHANGED <<dq, deltaQs, eng, lost, deadline>> /\ http.pc = "idle"
    BY <1>8 DEF CancelMark, schedVars, loopOnly, Idle
  <2>2. http'.pc = "c_flag"
    <3> DEFINE u == [http EXCEPT !.pc = "c_flag", !.req = r, !.had = deltaQs[IdOf[r]] # NoReq]
    <3>1. u.pc = "c_flag"
      BY <1>0 DEF HttpOK
    <3> QED BY <1>8, <3>1 DEF CancelMark
  <2>3. \A x \in Reqs : client'[x] = client[x] \/ client'[x] = "gone"
    BY <1>0, <1>8 DEF CancelMark
  <2>4. \A x \in Reqs : HttpPopping(x)' <=> HttpPopping(x)
    BY <2>1, <2>2 DEF HttpPopping
  <2> QED BY <2>1, <2>3, <2>4, Listens
<1> QED BY <1>2, <1>3, <1>4, <1>5, <1>6, <1>7, <1>8, StreamRead, StreamSubmitRegister,
        StreamCancelEmit, StreamCancelPop DEF HttpThread

\* Time passes a deadline that was armed at submit.
LEMMA StreamExpire ==
  ASSUME LoopInv, StreamInv, NEW i \in Ids, Expire(i)
  PROVE  StreamInv'
<1>1. UNCHANGED <<dq, deltaQs, eng, lost, http, client>>
  BY DEF Expire, schedVars, loopOnly
<1>2. \A j \in Ids : deadline[j] = "none" => deadline'[j] = "none"
  BY HttpStill DEF Expire
<1>3. \A x \in Reqs : HttpPopping(x)' <=> HttpPopping(x)
  BY <1>1 DEF HttpPopping
<1> QED BY <1>1, <1>2, <1>3, Listens

\* No frame has been sent at the start.
LEMMA StreamInvInit ==
  ASSUME InitLoop
  PROVE  StreamInv
<1>1. /\ deltaQs = [i \in Ids |-> NoReq] /\ dq = [r \in Reqs |-> <<>>]
      /\ deadline = [i \in Ids |-> "none"] /\ client = [r \in Reqs |-> "new"]
      /\ eng.pc = "top" /\ eng.expired = {}
  BY DEF InitLoop
<1>2. ASSUME NEW r \in Reqs PROVE StreamOK(r)
  <2>1. IdOf[r] \in Ids /\ r # NoReq
    BY LoopAssumption
  <2>2. dq[r] = <<>> /\ deltaQs[IdOf[r]] # r /\ deadline[IdOf[r]] = "none" /\ client[r] = "new"
    BY <1>1, <2>1
  <2>3. Silent(r)
    BY <1>1, <2>2 DEF Silent, Emitting, Popping
  <2> QED BY <2>2, <2>3 DEF StreamOK, Answered
<1> QED BY <1>1, <1>2 DEF StreamInv

\* One step, of either thread or of time.
LEMMA StreamInvNext ==
  ASSUME DistinctIds, LoopInv, StreamInv, [NextLoop]_allVars
  PROVE  StreamInv'
<1>1. CASE LoopThread
  BY <1>1, StreamLoopThread, StreamEmitPut, StreamEmitPop
<1>2. CASE HttpThread
  BY <1>2, StreamHttpThread
<1>3. CASE \E i \in Ids : Expire(i)
  BY <1>3, StreamExpire
<1>4. CASE UNCHANGED allVars
  <2>1. UNCHANGED <<dq, deltaQs, eng, lost, http, client, deadline>>
    BY <1>4 DEF allVars, schedVars, loopVars
  <2>2. \A x \in Reqs : HttpPopping(x)' <=> HttpPopping(x)
    BY <2>1 DEF HttpPopping
  <2> QED BY <2>1, <2>2, Listens
<1> QED BY <1>1, <1>2, <1>3, <1>4 DEF NextLoop

\* StreamInv is an invariant, for requests with ids of their own.
LEMMA StreamInvAlways == DistinctIds => (SpecLoop => []StreamInv)
<1> SUFFICES ASSUME DistinctIds PROVE SpecLoop => []StreamInv
  OBVIOUS
<1>1. SpecLoop => []LoopInv
  BY LoopInvAlways
<1>2. LoopInv /\ StreamInv /\ [NextLoop]_allVars => StreamInv'
  BY StreamInvNext
<1> QED BY <1>1, <1>2, StreamInvInit, PTL DEF SpecLoop

(* No client is left reading a queue the engine has forgotten without a      *)
(* final frame (_emit, submit and cancel of engine/loop.py), whatever the    *)
(* threads, timeouts, cancels, failures and stops do and however small the   *)
(* queues are, except one whose full queue lost a frame.                     *)
THEOREM NoStreamForgotten == DistinctIds => (SpecLoop => []NoSilentLoss)
<1>1. StreamInv => NoSilentLoss
  BY DEF StreamInv, StreamOK, Answered, LostFrame, NoSilentLoss
<1> QED BY <1>1, StreamInvAlways, PTL

-----------------------------------------------------------------------------
(* The exit                                                                  *)

\* cancel has found the sequence and is about to finish it.
Finishing(r) == http.pc = "c_finish" /\ http.req = r
\* A new deque of cancel's left the sequence out of waiting.
LostPlace(r) == <<"place", r>> \in lost

\* The client of a cancelled request has its final frame, lost one, or gets one
\* from cancel(); a cancel() that will not emit found no queue to emit to.
TellInv ==
  /\ \A r \in asked : client[r] = "reading" => HasFinal(r) \/ LostFrame(r) \/ CancelAnswers(r)
  /\ http.pc = "c_flag" /\ ~http.had => deltaQs[IdOf[http.req]] = NoReq

\* A live sequence is in one of the scheduler's queues unless cancel is about to
\* finish it or lost its place; only such a sequence is flagged while it lives.
Held ==
  /\ \A r \in Reqs : phase[r] = "live" =>
       r \in Entries(waiting) \cup Entries(running) \/ Finishing(r) \/ LostPlace(r)
  /\ \A r \in cancelled : phase[r] = "live" => Finishing(r)

\* The loop thread is about to put the request's final frame.
Closing(r) == Emitting(r) /\ eng.final

\* A client that has no final frame yet waits for a request the loop has not
\* taken, is adding, is serving, or is closing, or for cancel()'s own frame.
Owed(r) ==
  client[r] = "reading" =>
    \/ HasFinal(r) \/ LostFrame(r) \/ NeverTaken(r) \/ AtAdd(r)
    \/ phase[r] = "live" \/ Closing(r) \/ CancelAnswers(r)

\* What the loop thread leaves behind.
Left == eng.pc = "exited" => \A r \in Reqs : phase[r] = "live" => Finishing(r) \/ LostPlace(r)

DrainInv == Held /\ Left /\ \A r \in Reqs : Owed(r)

\* The loop thread takes no frame back and forgets no loss.
LEMMA LoopQuiet ==
  ASSUME LoopInv, LoopThread
  PROVE  /\ UNCHANGED <<http, client, asked>> /\ lost \subseteq lost'
         /\ \A r \in Reqs : HasFinal(r) => HasFinal(r)'
         /\ \A i \in Ids : deltaQs[i] = NoReq => deltaQs'[i] = NoReq
<1>1. UNCHANGED <<http, client, asked>> /\ lost \subseteq lost'
  BY DEF LoopThread, Top, Admit, Add, CollectExpired, CancelExpired, ScheduleStep, RunBatch, FailMember,
     NextResult, CheckCancelled, Unlock, Apply, EmitPut, EmitPop, httpVars
<1>2. CASE EmitPut
  <2>1. PICK q : q = deltaQs[eng.id]
    OBVIOUS
  <2>2. /\ dq' = dq \/ (q # NoReq /\ dq' = [dq EXCEPT ![q] = Append(@, eng.frame)])
        /\ deltaQs' = deltaQs /\ eng.pc = "emit"
    BY <1>2, <2>1 DEF EmitPut
  <2>3. eng.frame \in Frames /\ q \in Reqs \cup {NoReq}
    BY <2>1, <2>2, InvFacts DEF EngOK, LoopInv, LoopTypeOK
  <2>4. ASSUME NEW r \in Reqs, HasFinal(r) PROVE HasFinal(r)'
    <3>1. dq \in [Reqs -> Seq(Frames)] /\ dq[r] \in Seq(Frames)
      BY DqTypes
    <3>2. dq'[r] = dq[r] \/ dq'[r] = Append(dq[r], eng.frame)
      BY <2>2, <2>3, <3>1
    <3> QED BY <2>3, <2>4, <3>1, <3>2, FinalAppended DEF HasFinal
  <2> QED BY <1>1, <2>2, <2>4
<1>3. CASE EmitPop
  <2>1. dq' = dq /\ deltaQs' = [deltaQs EXCEPT ![eng.id] = NoReq]
    BY <1>3 DEF EmitPop
  <2>2. deltaQs \in [Ids -> Reqs \cup {NoReq}]
    BY DEF LoopInv, LoopTypeOK
  <2> QED BY <1>1, <2>1, <2>2 DEF HasFinal
<1>4. CASE ~EmitPut /\ ~EmitPop
  <2>1. dq' = dq /\ deltaQs' = deltaQs
    BY <1>4 DEF LoopThread, Top, Admit, Add, CollectExpired, CancelExpired, ScheduleStep, RunBatch,
       FailMember, NextResult, CheckCancelled, Unlock, Apply
  <2> QED BY <1>1, <2>1 DEF HasFinal
<1> QED BY <1>2, <1>3, <1>4

\* A step that takes no answer away.
LEMMA Tells ==
  ASSUME TellInv, asked' = asked, lost \subseteq lost',
         \A r \in asked : client'[r] = "reading" => client[r] = "reading" /\ (HasFinal(r) => HasFinal(r)'),
         \A r \in asked : client'[r] = "reading" /\ CancelAnswers(r) =>
            CancelAnswers(r)' \/ HasFinal(r)' \/ LostFrame(r)',
         http'.pc = "c_flag" /\ ~http'.had => deltaQs'[IdOf[http'.req]] = NoReq
  PROVE  TellInv'
<1>1. ASSUME NEW r \in asked, client'[r] = "reading" PROVE HasFinal(r)' \/ LostFrame(r)' \/ CancelAnswers(r)'
  <2>1. HasFinal(r) \/ LostFrame(r) \/ CancelAnswers(r)
    BY <1>1 DEF TellInv
  <2>2. LostFrame(r) => LostFrame(r)'
    BY DEF LostFrame
  <2> QED BY <1>1, <2>1, <2>2
<1> QED BY <1>1 DEF TellInv

\* A read leaves the final frame of a stream that goes on.
LEMMA ReadKeepsFinal ==
  ASSUME LoopInv, NEW r \in Reqs, Read(r)
  PROVE  \A x \in Reqs : client'[x] = "reading" =>
           client[x] = "reading" /\ (HasFinal(x) => HasFinal(x)')
<1>1. /\ dq[r] # <<>> /\ dq' = [dq EXCEPT ![r] = Tail(@)]
      /\ client' = IF Head(dq[r]) # "token" THEN [client EXCEPT ![r] = "closed"] ELSE client
  BY DEF Read
<1>2. dq \in [Reqs -> Seq(Frames)] /\ dq[r] \in Seq(Frames)
      /\ client \in [Reqs -> {"new", "reading", "closed", "gone"}]
  BY DqTypes, HttpStill
<1>3. dq'[r] = Tail(dq[r]) /\ \A x \in Reqs \ {r} : dq'[x] = dq[x]
  BY <1>1, <1>2
<1>4. \A x \in Reqs : client'[x] = "reading" => client[x] = "reading"
  BY <1>1, <1>2
<1>5. client'[r] = "reading" => Head(dq[r]) = "token"
  BY <1>1, <1>2
<1>6. client'[r] = "reading" /\ HasFinal(r) => HasFinal(r)'
  BY <1>1, <1>2, <1>3, <1>5, FinalRead DEF HasFinal
<1>7. \A x \in Reqs \ {r} : HasFinal(x) => HasFinal(x)'
  BY <1>3 DEF HasFinal
<1> QED BY <1>4, <1>6, <1>7

\* With ids of their own, cancel finds the sequence it was called for.
LEMMA CancelFinds ==
  ASSUME DistinctIds, LoopInv, CancelFlag
  PROVE  /\ http'.pc \in {"c_emit", "idle", "c_finish"}
         /\ http'.pc # "idle" => http'.req = http.req
         /\ http'.pc = "idle" => ~http.had
         /\ http'.pc = "c_finish" => cancelled' = cancelled \cup {http.req}
         /\ http'.pc # "c_finish" => cancelled' = cancelled
<1>1. HttpOK /\ http.pc = "c_flag" /\ http.req \in Reqs /\ IdOf[http.req] \in Ids
  BY InvFacts DEF HttpOK, CancelFlag
<1>2. PICK seq : seq = byReq[IdOf[http.req]]
  OBVIOUS
<1>3. CASE seq = NoReq /\ GotoHttp(IF http.had THEN "c_emit" ELSE "idle") /\ cancelled' = cancelled
  <2>1. http'.pc = (IF http.had THEN "c_emit" ELSE "idle") /\ http'.req = http.req
    BY <1>1, <1>3 DEF GotoHttp, HttpOK
  <2> QED BY <1>3, <2>1
<1>4. CASE seq # NoReq /\ cancelled' = cancelled \cup {seq} /\ http' = [http EXCEPT !.pc = "c_finish", !.req = seq]
  <2>1. seq \in Reqs /\ IdOf[seq] = IdOf[http.req]
    BY <1>1, <1>2, <1>4, InvFacts DEF LoopInv, Arrived
  <2>2. seq = http.req
    BY <1>1, <2>1 DEF DistinctIds
  <2>3. http'.pc = "c_finish" /\ http'.req = seq
    BY <1>1, <1>4 DEF HttpOK
  <2> QED BY <1>4, <2>2, <2>3
<1> QED BY <1>2, <1>3, <1>4 DEF CancelFlag

\* cancel() answers: TellInv is kept by the event loop's steps.
LEMMA TellHttpThread ==
  ASSUME DistinctIds, LoopInv, StreamInv, StreamInv', TellInv, HttpThread
  PROVE  TellInv'
<1>0. /\ HttpOK /\ client \in [Reqs -> {"new", "reading", "closed", "gone"}] /\ asked \subseteq Reqs
      /\ NoReq \notin Reqs
  BY HttpStill, InvFacts, LoopAssumption DEF LoopInv, LoopTypeOK
<1> DEFINE Mute == UNCHANGED <<dq, client, asked>> /\ lost \subseteq lost'
<1>1. ASSUME Mute, \A r \in asked : CancelAnswers(r) => CancelAnswers(r)', http'.pc # "c_flag"
      PROVE  TellInv'
  <2>1. UNCHANGED <<dq, client, asked>> /\ lost \subseteq lost'
    BY <1>1
  <2>2. \A r \in asked : HasFinal(r) => HasFinal(r)'
    BY <2>1 DEF HasFinal
  <2> QED BY <1>1, <2>1, <2>2, Tells
<1>2. ASSUME NEW r \in Reqs, SubmitRegister(r) PROVE TellInv'
  <2>1. UNCHANGED <<dq, asked, lost>> /\ http.pc = "idle" /\ client[r] = "new"
    BY <1>2 DEF SubmitRegister, loopOnly, Idle
  <2>2. r \notin asked
    BY <2>1 DEF LoopInv, Journey
  <2>3. client' = [client EXCEPT ![r] = "closed"] \/ client' = [client EXCEPT ![r] = "reading"]
    BY <1>2 DEF SubmitRegister
  <2>4. \A x \in asked : client'[x] = client[x]
    BY <1>0, <2>2, <2>3
  <2>5. http'.pc # "c_flag"
    BY <1>0, <1>2, <2>1 DEF SubmitRegister, HttpOK
  <2>6. \A x \in asked : (HasFinal(x) => HasFinal(x)') /\ ~CancelAnswers(x)
    BY <2>1 DEF HasFinal, CancelAnswers
  <2> QED BY <2>1, <2>4, <2>5, <2>6, Tells
<1>3. ASSUME NEW r \in Reqs, CancelMark(r) PROVE TellInv'
  <2>1. UNCHANGED <<dq, deltaQs, lost>> /\ http.pc = "idle" /\ asked' = asked \cup {r}
        /\ client' \in {client, [client EXCEPT ![r] = "gone"]}
    BY <1>3 DEF CancelMark, loopOnly, Idle
  <2> DEFINE had == deltaQs[IdOf[r]] # NoReq
             u == [http EXCEPT !.pc = "c_flag", !.req = r, !.had = had]
  <2>2. http' = u
    BY <1>3 DEF CancelMark
  <2>3. u.pc = "c_flag" /\ u.req = r /\ u.had = had
    BY <1>0 DEF HttpOK
  <2> HIDE DEF u
  <2>4. http'.pc = "c_flag" /\ http'.req = r /\ (~http'.had => deltaQs'[IdOf[r]] = NoReq)
    BY <2>1, <2>2, <2>3
  <2>5. CancelAnswers(r)'
    BY <2>4 DEF CancelAnswers
  <2>6. ASSUME NEW x \in asked, client'[x] = "reading" PROVE HasFinal(x)' \/ LostFrame(x)' \/ CancelAnswers(x)'
    <3>1. client[x] = "reading" /\ ~CancelAnswers(x)
      BY <1>0, <2>1, <2>6 DEF CancelAnswers
    <3>2. HasFinal(x) \/ LostFrame(x)
      BY <3>1 DEF TellInv
    <3> QED BY <2>1, <3>2 DEF HasFinal, LostFrame
  <2> QED BY <2>1, <2>4, <2>5, <2>6 DEF TellInv
<1>4. ASSUME NEW r \in Reqs, Read(r) PROVE TellInv'
  <2>1. UNCHANGED <<deltaQs, http, asked, lost>>
    BY <1>4 DEF Read, loopOnly
  <2>2. \A x \in asked : client'[x] = "reading" => client[x] = "reading" /\ (HasFinal(x) => HasFinal(x)')
    BY <1>0, <1>4, ReadKeepsFinal
  <2>3. \A x \in asked : CancelAnswers(x) => CancelAnswers(x)'
    BY <2>1 DEF CancelAnswers
  <2>4. http'.pc = "c_flag" /\ ~http'.had => deltaQs'[IdOf[http'.req]] = NoReq
    BY <2>1 DEF TellInv
  <2> QED BY <2>1, <2>2, <2>3, <2>4, Tells
<1>5. CASE SubmitPut \/ CancelPop
  <2>1. http'.pc = "idle"
    BY <1>0, <1>5 DEF SubmitPut, CancelPop, GotoHttp, HttpOK
  <2>2. \A r \in asked : ~CancelAnswers(r)
    BY <1>5 DEF SubmitPut, CancelPop, CancelAnswers
  <2>3. Mute
    BY <1>5 DEF SubmitPut, CancelPop, loopOnly
  <2> QED BY <1>1, <2>1, <2>2, <2>3
<1>6. CASE CancelFlag
  <2>1. /\ UNCHANGED <<dq, client, asked, lost, deltaQs>> /\ http.pc = "c_flag"
    BY <1>6 DEF CancelFlag, loopOnly
  <2>2. /\ http'.pc \in {"c_emit", "idle", "c_finish"}
        /\ http'.pc # "idle" => http'.req = http.req
        /\ http'.pc = "idle" => ~http.had
    BY <1>6, CancelFinds
  <2>3. CASE http'.pc # "idle"
    <3>1. \A r \in asked : CancelAnswers(r) => CancelAnswers(r)'
      BY <2>2, <2>3 DEF CancelAnswers
    <3> QED BY <1>1, <2>1, <2>2, <3>1
  <2>4. CASE http'.pc = "idle"
    <3>1. deltaQs[IdOf[http.req]] = NoReq
      BY <2>1, <2>2, <2>4 DEF TellInv
    <3>2. ASSUME NEW r \in asked, client[r] = "reading", CancelAnswers(r) PROVE HasFinal(r)' \/ LostFrame(r)'
      <4>1. deltaQs[IdOf[r]] # r /\ r \in Reqs
        BY <1>0, <3>1, <3>2 DEF CancelAnswers
      <4>2. HasFinal(r) \/ LostFrame(r)
        BY <3>2, <4>1 DEF StreamInv, StreamOK, Answered
      <4> QED BY <2>1, <4>2 DEF HasFinal, LostFrame
    <3>3. \A r \in asked : HasFinal(r) => HasFinal(r)'
      BY <2>1 DEF HasFinal
    <3> QED BY <2>1, <2>4, <3>2, <3>3, Tells
  <2> QED BY <2>3, <2>4
<1>7. CASE CancelFinish \/ CancelAssign
  <2>1. http'.pc \in {"c_assign", "c_emit"} /\ http'.req = http.req
    BY <1>0, <1>7 DEF CancelFinish, CancelAssign, HttpOK
  <2>2. \A r \in asked : CancelAnswers(r) => CancelAnswers(r)'
    BY <2>1 DEF CancelAnswers
  <2>3. Mute
    BY <1>7 DEF CancelFinish, CancelAssign, loopOnly
  <2> QED BY <1>1, <2>1, <2>2, <2>3
<1>8. CASE CancelEmit
  <2>1. UNCHANGED <<deltaQs, client, asked>> /\ lost \subseteq lost' /\ http.pc = "c_emit"
    BY <1>8 DEF CancelEmit
  <2>2. PICK pc \in {"idle", "c_pop"} : GotoHttp(pc) /\ (pc = "idle" => dq' = dq /\ deltaQs[IdOf[http.req]] = NoReq)
    BY <1>8 DEF CancelEmit
  <2>3. http'.pc = pc /\ http'.req = http.req
    BY <1>0, <2>2 DEF GotoHttp, HttpOK
  <2>4. ASSUME NEW r \in asked, client[r] = "reading", CancelAnswers(r) PROVE HasFinal(r)' \/ LostFrame(r)'
    <3>0. http.req = r /\ r \in Reqs
      BY <1>0, <2>4 DEF CancelAnswers
    <3>1. CASE pc = "idle"
      <4>1. deltaQs'[IdOf[r]] # r
        BY <1>0, <2>1, <2>2, <3>0, <3>1
      <4> QED BY <2>1, <2>4, <3>0, <4>1 DEF StreamInv, StreamOK, Answered
    <3>2. CASE pc = "c_pop"
      <4>1. HttpPopping(r)'
        BY <2>3, <3>0, <3>2 DEF HttpPopping
      <4> QED BY <2>1, <2>4, <3>0, <4>1 DEF StreamInv, StreamOK, Answered
    <3> QED BY <2>2, <3>1, <3>2
  <2>5. ASSUME NEW r \in asked, HasFinal(r) PROVE HasFinal(r)'
    <3>1. r \in Reqs /\ dq \in [Reqs -> Seq(Frames)] /\ dq[r] \in Seq(Frames) /\ "final" \in Frames
      BY <1>0, DqTypes DEF Frames
    <3>2. PICK q : q = deltaQs[IdOf[http.req]]
      OBVIOUS
    <3>3. dq' = dq \/ dq' = [dq EXCEPT ![q] = Append(@, "final")]
      BY <1>8, <3>2 DEF CancelEmit
    <3>4. dq'[r] = dq[r] \/ dq'[r] = Append(dq[r], "final")
      BY <3>1, <3>3
    <3> QED BY <2>5, <3>1, <3>4, FinalAppended DEF HasFinal
  <2> QED BY <2>1, <2>2, <2>3, <2>4, <2>5, Tells
<1>9. CASE BeginDrain \/ Stop
  <2>1. UNCHANGED <<dq, client, asked, lost, http>> /\ http.pc = "idle"
    BY <1>9 DEF BeginDrain, Stop, loopOnly, Idle
  <2>2. \A r \in asked : ~CancelAnswers(r)
    BY <2>1 DEF CancelAnswers
  <2> QED BY <1>1, <2>1, <2>2
<1> QED BY <1>2, <1>3, <1>4, <1>5, <1>6, <1>7, <1>8, <1>9 DEF HttpThread

\* One step, of either thread or of time.
LEMMA TellInvNext ==
  ASSUME DistinctIds, LoopInv, StreamInv, StreamInv', TellInv, [NextLoop]_allVars
  PROVE  TellInv'
<1>1. CASE LoopThread
  <2>1. /\ UNCHANGED <<http, client, asked>> /\ lost \subseteq lost'
        /\ \A r \in Reqs : HasFinal(r) => HasFinal(r)'
        /\ \A i \in Ids : deltaQs[i] = NoReq => deltaQs'[i] = NoReq
    BY <1>1, LoopQuiet
  <2>2. asked \subseteq Reqs /\ (http.pc = "c_flag" => IdOf[http.req] \in Ids)
    BY InvFacts, LoopAssumption DEF LoopInv, LoopTypeOK, HttpOK
  <2>3. \A r \in asked : CancelAnswers(r) => CancelAnswers(r)'
    BY <2>1 DEF CancelAnswers
  <2>4. http'.pc = "c_flag" /\ ~http'.had => deltaQs'[IdOf[http'.req]] = NoReq
    BY <2>1, <2>2 DEF TellInv
  <2> QED BY <2>1, <2>2, <2>3, <2>4, Tells
<1>2. CASE HttpThread
  BY <1>2, TellHttpThread
<1>3. CASE (\E i \in Ids : Expire(i)) \/ UNCHANGED allVars
  <2>1. UNCHANGED <<dq, deltaQs, client, asked, lost, http>>
    BY <1>3 DEF Expire, allVars, loopVars, loopOnly
  <2> QED BY <2>1 DEF TellInv, HasFinal, LostFrame, CancelAnswers
<1> QED BY <1>1, <1>2, <1>3 DEF NextLoop


\* An empty batch means that no live sequence is left in the queues.
LEMMA EmptyBatch ==
  ASSUME LoopInv, Held, FormBatch, Formed = <<>>
  PROVE  \A r \in Reqs : phase[r] = "live" => Finishing(r) \/ LostPlace(r)
<1>1. waiting \in Seq(Reqs) /\ running \in Seq(Reqs) /\ Len(waiting) \in Nat
  BY InvFacts
<1>2. Entries(Formed) = {} /\ Len(Formed) = 0
  BY DEF Entries
<1>3. Popped \in 0..Len(waiting) /\ ~Takes(Popped)
  BY <1>1, PoppedFirst
<1>4. Entries(Decodes) = {} /\ {r \in {waiting[i] : i \in 1..Popped} : Eligible(r)} = {}
  BY <1>1, <1>2, FormFacts
<1> DEFINE live == Admissible(running)
           n == IF Len(live) < DecodeLimit THEN Len(live) ELSE DecodeLimit
<1>5. live \in Seq(Reqs) /\ Len(live) \in Nat /\ Entries(live) = {r \in Entries(running) : Eligible(r)}
  BY <1>1, KeptFacts
<1>6. DecodeLimit \in Nat \ {0} /\ MaxBatch \in Nat \ {0} /\ MaxTokensPerBatch \in Nat \ {0}
  BY SchedulerAssumption DEF DecodeLimit
<1>7. Decodes = SubSeq(live, 1, n)
  BY DEF Decodes
<1> HIDE DEF live
<1>8. n \in 0..Len(live) /\ (n = 0 => Len(live) = 0)
  BY <1>5, <1>6
<1> HIDE DEF n
<1>9. Decodes \in Seq(Reqs) /\ Len(Decodes) = n /\ Entries(Decodes) = {live[i] : i \in 1..n}
  <2>1. SubSeq(live, 1, n) \in Seq(Reqs) /\ Entries(SubSeq(live, 1, n)) = {live[i] : i \in 1..n}
    BY ONLY <1>5, <1>8, SplitFacts
  <2>2. Len(SubSeq(live, 1, n)) = n
    BY <1>5, <1>8
  <2> QED BY <1>7, <2>1, <2>2
<1>10. n = 0
  <2>1. SUFFICES ASSUME n # 0 PROVE FALSE
    OBVIOUS
  <2>2. 1 \in 1..n
    BY <1>5, <1>8, <2>1
  <2>3. live[1] \in Entries(Decodes)
    BY <1>9, <2>2
  <2> QED BY <1>4, <2>3
<1>11. Entries(live) = {}
  BY <1>8, <1>10 DEF Entries
<1>12. LiveAmong(Popped) = {}
  BY <1>4 DEF LiveAmong
<1>13. Cardinality({}) = 0
  BY FS_EmptySet
<1>14. Size(Popped) = 0
  BY <1>9, <1>10, <1>12, <1>13 DEF Size
<1>15. Budget(Popped) = MaxTokensPerBatch
  <2> DEFINE c == [i \in 1..Len(waiting) |-> Cost(waiting[i])]
  <2>1. UNION {{i} \X (1..c[i]) : i \in {}} = {}
    OBVIOUS
  <2>2. Spent(Popped) = Total(c, {})
    BY <1>12 DEF Spent
  <2> HIDE DEF c
  <2>3. Total(c, {}) = 0
    BY <1>13, <2>1 DEF Total
  <2>4. MaxTokensPerBatch - 0 - 0 = MaxTokensPerBatch
    BY <1>6
  <2> QED BY <1>9, <1>10, <2>2, <2>3, <2>4 DEF Budget
<1>16. ~(Popped < Len(waiting))
  <2>1. Size(Popped) < MaxBatch /\ Budget(Popped) > 0
    BY <1>6, <1>14, <1>15
  <2> QED BY <1>3, <1>14, <2>1 DEF Takes, Fits
<1>17. 1..Popped = 1..Len(waiting)
  BY <1>1, <1>3, <1>16
<1>18. ASSUME NEW r \in Reqs, phase[r] = "live", ~Finishing(r) PROVE LostPlace(r)
  <2>1. Eligible(r)
    BY <1>18 DEF Held, Eligible, Live
  <2>2. r \notin Entries(running)
    BY <1>5, <1>11, <2>1
  <2>3. r \notin Entries(waiting)
    BY <1>4, <1>17, <2>1 DEF Entries
  <2> QED BY <1>18, <2>2, <2>3 DEF Held
<1> QED BY <1>18

\* form_batch moves live sequences into running and loses none.
LEMMA FormHolds ==
  ASSUME LoopInv, Held, FormBatch, UNCHANGED <<http, lost>>
  PROVE  Held'
<1>1. waiting \in Seq(Reqs) /\ running \in Seq(Reqs) /\ Len(waiting) \in Nat
  BY InvFacts
<1>2. /\ Popped \in 0..Len(waiting)
      /\ Entries(Formed) = Entries(Decodes) \cup {r \in {waiting[i] : i \in 1..Popped} : Eligible(r)}
      /\ Entries(waiting') = {waiting[i] : i \in Popped + 1..Len(waiting)}
      /\ Entries(running') = {r \in Entries(running) \cup Entries(Formed) : Live(r)}
  BY <1>1, FormFacts
<1>3. phase' = phase /\ cancelled' = cancelled
  BY DEF FormBatch
<1>4. ASSUME NEW r \in Reqs, phase[r] = "live", ~Finishing(r), ~LostPlace(r)
      PROVE  r \in Entries(waiting') \cup Entries(running')
  <2>1. Live(r) /\ Eligible(r)
    BY <1>4 DEF Held, Eligible, Live
  <2>2. CASE r \in Entries(running)
    BY <1>2, <2>1, <2>2
  <2>3. CASE r \in Entries(waiting)
    <3>1. PICK i \in 1..Len(waiting) : r = waiting[i]
      BY <2>3 DEF Entries
    <3>2. CASE i \in 1..Popped
      BY <1>2, <2>1, <3>1, <3>2
    <3>3. CASE i \in Popped + 1..Len(waiting)
      BY <1>2, <3>1, <3>3
    <3> QED BY <1>1, <1>2, <3>2, <3>3
  <2> QED BY <1>4, <2>2, <2>3 DEF Held
<1>5. \A r \in Reqs : (Finishing(r)' <=> Finishing(r)) /\ (LostPlace(r)' <=> LostPlace(r))
  BY DEF Finishing, LostPlace
<1>6. cancelled \subseteq Reqs
  BY DEF LoopInv, LoopTypeOK, SchedTypeOK
<1>7. \A r \in cancelled' : phase'[r] = "live" => Finishing(r)'
  BY <1>3, <1>5, <1>6 DEF Held
<1>8. \A r \in Reqs : phase'[r] = "live" =>
         r \in Entries(waiting') \cup Entries(running') \/ Finishing(r)' \/ LostPlace(r)'
  BY <1>3, <1>4, <1>5
<1> QED BY <1>7, <1>8 DEF Held

\* A step that leaves the queues alone.
LEMMA HeldStill ==
  ASSUME Held, UNCHANGED <<waiting, running, phase, cancelled, http, lost>>
  PROVE  Held'
BY DEF Held, Finishing, LostPlace

\* mark_finished takes one sequence out of the queues and leaves the others.
LEMMA FinishHolds ==
  ASSUME LoopInv, Held, NEW z \in Reqs, MarkFinished(z),
         http' = http, lost \subseteq lost', cancelled' \subseteq cancelled \cup {z}
  PROVE  /\ Held' /\ phase'[z] = "finished"
         /\ \A r \in Reqs \ {z} : phase'[r] = phase[r]
<1>1. waiting \in Seq(Reqs) /\ running \in Seq(Reqs) /\ cancelled \subseteq Reqs
      /\ phase \in [Reqs -> {"new", "live", "finished", "rejected"}]
  BY InvFacts DEF LoopInv, LoopTypeOK, SchedTypeOK
<1>2. phase' = [phase EXCEPT ![z] = "finished"] /\ running' = Without(running, {z})
      /\ waiting' = Without(waiting, {z})
  BY DEF MarkFinished
<1>3. Entries(running') = Entries(running) \ {z} /\ Entries(waiting') = Entries(waiting) \ {z}
  BY <1>1, <1>2, WithoutFacts
<1>4. phase'[z] = "finished" /\ \A r \in Reqs \ {z} : phase'[r] = phase[r]
  BY <1>1, <1>2
<1>5. \A r \in Reqs : (Finishing(r) => Finishing(r)') /\ (LostPlace(r) => LostPlace(r)')
  BY DEF Finishing, LostPlace
<1>6. \A r \in cancelled' : phase'[r] = "live" => Finishing(r)'
  BY <1>1, <1>4, <1>5 DEF Held
<1>7. \A r \in Reqs : phase'[r] = "live" =>
         r \in Entries(waiting') \cup Entries(running') \/ Finishing(r)' \/ LostPlace(r)'
  BY <1>3, <1>4, <1>5 DEF Held
<1> QED BY <1>4, <1>6, <1>7 DEF Held

\* Scheduler.cancel on the loop thread ends the sequence of an id at most.
LEMMA CancelHolds ==
  ASSUME LoopInv, Held, NEW id \in Ids, CancelById(id), http' = http, lost \subseteq lost'
  PROVE  /\ Held'
         /\ \A r \in Reqs : phase[r] = "live" => phase'[r] = "live" \/ IdOf[r] = id
<1>1. CASE byReq[id] = NoReq
  <2>1. UNCHANGED <<waiting, running, phase, cancelled>>
    BY <1>1 DEF CancelById
  <2> QED BY <2>1 DEF Held, Finishing, LostPlace
<1>2. CASE byReq[id] # NoReq
  <2>1. byReq[id] \in Known /\ IdOf[byReq[id]] = id
    BY <1>2 DEF LoopInv, Arrived
  <2>2. PICK z \in Reqs : z = byReq[id] /\ IdOf[z] = id
    BY <2>1 DEF Known
  <2>3. MarkFinished(z) /\ cancelled' = cancelled \cup {z}
    BY <1>2, <2>2 DEF CancelById, Finish
  <2>4. Held' /\ \A r \in Reqs \ {z} : phase'[r] = phase[r]
    BY <2>3, FinishHolds
  <2> QED BY <2>2, <2>4
<1> QED BY <1>1, <1>2

\* A step of the loop thread that puts no frame passes what it owes on; a
\* request that it skips is one whose client cancelled.
LEMMA Passes ==
  ASSUME TellInv', DrainInv, UNCHANGED <<dq, http, client, asked, lost>>,
         eng.pc \notin {"emit", "exited"}, Held', Left',
         \A r \in Reqs : NeverTaken(r) => NeverTaken(r)' \/ AtAdd(r)' \/ r \in asked,
         \A r \in Reqs : AtAdd(r) => AtAdd(r)' \/ phase'[r] = "live" \/ Closing(r)',
         \A r \in Reqs : phase[r] = "live" => phase'[r] = "live" \/ Closing(r)'
  PROVE  DrainInv'
<1>1. ASSUME NEW r \in Reqs PROVE Owed(r)'
  <2>1. /\ Owed(r) /\ ~Closing(r) /\ (HasFinal(r)' <=> HasFinal(r))
        /\ (LostFrame(r)' <=> LostFrame(r)) /\ (CancelAnswers(r)' <=> CancelAnswers(r))
    BY DEF DrainInv, Closing, Emitting, HasFinal, LostFrame, CancelAnswers
  <2>2. r \in asked /\ client'[r] = "reading" => HasFinal(r)' \/ LostFrame(r)' \/ CancelAnswers(r)'
    BY DEF TellInv
  <2> QED BY <2>1, <2>2 DEF Owed
<1> QED BY <1>1 DEF DrainInv

\* A jump of the loop thread.
LEMMA PassesGoto ==
  ASSUME LoopInv, TellInv', DrainInv, UNCHANGED <<dq, httpVars, lost, submitQ, phase>>,
         eng.pc \notin {"emit", "exited", "add"}, Held',
         NEW pc \in LoopPCs \ {"add", "emit", "pop", "exited"}, Goto(pc), pc \in {"check", "apply"} => eng.req \in Reqs
  PROVE  DrainInv'
<1>1. eng'.pc = pc
  BY InvFacts, GotoFacts
<1>2. \A r \in Reqs : NeverTaken(r) => NeverTaken(r)'
  BY DEF NeverTaken, httpVars
<1>3. \A r \in Reqs : ~AtAdd(r)
  BY DEF AtAdd
<1>4. Left'
  BY <1>1 DEF Left
<1> QED BY <1>2, <1>3, <1>4, Passes DEF httpVars

\* Ending a sequence and calling _emit for it with a final frame.
LEMMA PassesEmit ==
  ASSUME DistinctIds, LoopInv, TellInv', DrainInv, UNCHANGED <<dq, httpVars, lost, submitQ>>,
         eng.pc \notin {"emit", "exited"}, Held',
         NEW z \in Reqs, NEW f \in Frames, NEW pc \in Returns,
         EmitThen(IdOf[z], f, TRUE, pc),
         \A r \in Reqs : AtAdd(r) => r = z,
         \A r \in Reqs \ {z} : phase'[r] = phase[r]
  PROVE  DrainInv'
<1>0. EngOK /\ IdOf[z] \in Ids
  BY InvFacts
<1>1. eng'.pc = "emit" /\ eng'.id = IdOf[z] /\ eng'.final = TRUE
  BY <1>0, EmitFacts
<1>2. Closing(z)' /\ Left'
  BY <1>1 DEF Closing, Emitting, Left
<1>3. \A r \in Reqs : NeverTaken(r) => NeverTaken(r)'
  BY DEF NeverTaken, httpVars
<1>4. \A r \in Reqs : AtAdd(r) => Closing(r)'
  BY <1>2
<1>5. ASSUME NEW r \in Reqs, phase[r] = "live" PROVE phase'[r] = "live" \/ Closing(r)'
  BY <1>2, <1>5
<1> QED BY <1>2, <1>3, <1>4, <1>5, Passes DEF httpVars

\* What is in a list is its head or in its tail.
LEMMA HeadOrTail ==
  ASSUME NEW T, NEW q \in Seq(T), q # <<>>
  PROVE  Entries(q) \subseteq Entries(Tail(q)) \cup {Head(q)}
<1> DEFINE t == Tail(q)
<1>1. Len(t) = Len(q) - 1 /\ Len(q) \in Nat \ {0} /\ Head(q) = q[1]
  OBVIOUS
<1>2. \A i \in 1..Len(t) : t[i] = q[i + 1]
  OBVIOUS
<1> HIDE DEF t
<1>3. ASSUME NEW i \in 1..Len(q) PROVE q[i] \in Entries(t) \cup {Head(q)}
  <2>1. CASE i = 1
    BY <1>1, <2>1
  <2>2. CASE i # 1
    <3>1. i - 1 \in 1..Len(t) /\ (i - 1) + 1 = i
      BY <1>1, <2>2
    <3>2. t[i - 1] = q[(i - 1) + 1]
      BY <1>2, <3>1
    <3>3. t[i - 1] = q[i]
      BY <3>1, <3>2
    <3> QED BY <3>1, <3>3 DEF Entries
  <2> QED BY <2>1, <2>2
<1> QED BY <1>3 DEF Entries, t

\* _admit_pending takes a request from the submit queue to add_request, or
\* meets the mark of its own client's cancel.
LEMMA DrainAdmit ==
  ASSUME DistinctIds, LoopInv, TellInv', DrainInv, Admit
  PROVE  DrainInv'
<1>1. /\ eng.pc = "admit"
      /\ UNCHANGED <<waiting, running, phase, cancelled, dq, httpVars, lost>>
  BY DEF Admit, schedVars
<1>2. Held' /\ EngOK /\ submitQ \in Seq(Reqs \cup {StopItem})
  BY <1>1, InvFacts, HeldStill DEF DrainInv, LoopInv, LoopTypeOK, httpVars
<1>0. \A r \in Reqs : ~AtAdd(r)
  BY <1>1 DEF AtAdd
<1>3. CASE submitQ' = submitQ /\ Goto("timeouts")
  BY <1>1, <1>2, <1>3, PassesGoto DEF LoopPCs
<1>4. CASE /\ submitQ # <<>> /\ submitQ' = Tail(submitQ) /\ Head(submitQ) = StopItem /\ Goto("timeouts")
  <2>1. Entries(submitQ) \subseteq Entries(submitQ') \cup {StopItem}
    BY <1>2, <1>4, HeadOrTail
  <2>2. \A r \in Reqs : NeverTaken(r) => NeverTaken(r)'
    BY <1>1, <2>1, LoopAssumption DEF NeverTaken, httpVars
  <2>3. Left'
    BY <1>2, <1>4, GotoFacts DEF LoopPCs, Left
  <2> QED BY <1>0, <1>1, <1>2, <2>2, <2>3, Passes DEF httpVars
<1>5. CASE /\ submitQ # <<>> /\ submitQ' = Tail(submitQ)
           /\ eng' = [eng EXCEPT !.pc = "add", !.req = Head(submitQ)]
  <2>1. Entries(submitQ) \subseteq Entries(submitQ') \cup {Head(submitQ)}
    BY <1>2, <1>5, HeadOrTail
  <2>2. eng'.pc = "add" /\ eng'.req = Head(submitQ)
    BY <1>2, <1>5 DEF EngOK
  <2>3. \A r \in Reqs : NeverTaken(r) => NeverTaken(r)' \/ AtAdd(r)'
    BY <1>1, <2>1, <2>2 DEF NeverTaken, AtAdd, httpVars
  <2>4. Left'
    BY <2>2 DEF Left
  <2> QED BY <1>0, <1>1, <1>2, <2>3, <2>4, Passes DEF httpVars
<1>6. CASE /\ submitQ # <<>> /\ submitQ' = Tail(submitQ) /\ eng' = eng
           /\ Head(submitQ) # StopItem /\ IdOf[Head(submitQ)] \in cancelledIds
  <2>1. PICK item : item = Head(submitQ)
    OBVIOUS
  <2>2. Entries(submitQ) \subseteq Entries(submitQ') \cup {item} /\ item \in Reqs
    BY <1>2, <1>6, <2>1, HeadOrTail
  <2>3. PICK x \in asked : IdOf[x] = IdOf[item]
    BY <1>6, <2>1 DEF LoopInv, Marks
  <2>4. asked \subseteq Reqs
    BY LoopAssumption DEF LoopInv, LoopTypeOK
  <2>5. item \in asked
    BY <2>2, <2>3, <2>4 DEF DistinctIds
  <2>6. \A r \in Reqs : NeverTaken(r) => NeverTaken(r)' \/ r \in asked
    BY <1>1, <2>2, <2>5 DEF NeverTaken, httpVars
  <2>7. Left'
    BY <1>1, <1>6 DEF Left
  <2> QED BY <1>0, <1>1, <1>2, <2>6, <2>7, Passes DEF httpVars
<1> QED BY <1>3, <1>4, <1>5, <1>6 DEF Admit

\* add_request makes it live or has its refusal emitted.
LEMMA DrainAdd ==
  ASSUME DistinctIds, LoopInv, TellInv', DrainInv, Add
  PROVE  DrainInv'
<1>1. /\ eng.pc = "add" /\ UNCHANGED <<dq, httpVars, lost, submitQ>>
  BY DEF Add
<1>2. PICK z \in Reqs : z = eng.req
  BY <1>1, InvFacts DEF EngOK
<1>3. /\ waiting \in Seq(Reqs) /\ phase \in [Reqs -> {"new", "live", "finished", "rejected"}]
      /\ EngOK /\ IdOf[z] \in Ids /\ cancelled \subseteq Reqs
  BY InvFacts DEF LoopInv, LoopTypeOK, SchedTypeOK
<1>4. \A r \in Reqs : AtAdd(r) <=> r = z
  BY <1>1, <1>2 DEF AtAdd
<1>5. z \notin cancelled
  <2>1. z \notin Known
    BY <1>4 DEF LoopInv, Journey
  <2> QED BY <2>1 DEF LoopInv, Arrived
<1>6. \A r \in Reqs : (Finishing(r)' <=> Finishing(r)) /\ (LostPlace(r)' <=> LostPlace(r))
  BY <1>1 DEF Finishing, LostPlace, httpVars
<1>7. ASSUME cancelled' = cancelled, Entries(waiting) \subseteq Entries(waiting'), running' = running,
             phase'[z] = "live" => z \in Entries(waiting'), \A r \in Reqs \ {z} : phase'[r] = phase[r]
      PROVE  Held'
  <2>1. \A r \in cancelled' : phase'[r] = "live" => Finishing(r)'
    BY <1>3, <1>5, <1>6, <1>7 DEF DrainInv, Held
  <2>2. \A r \in Reqs : phase'[r] = "live" =>
          r \in Entries(waiting') \cup Entries(running') \/ Finishing(r)' \/ LostPlace(r)'
    BY <1>6, <1>7 DEF DrainInv, Held
  <2> QED BY <2>1, <2>2 DEF Held
<1>8. CASE (\E hit \in 0..PromptLen[eng.req] : AddRequest(eng.req, hit)) /\ Goto("admit")
  <2>1. /\ waiting' = Append(waiting, z) /\ running' = running /\ phase' = [phase EXCEPT ![z] = "live"]
        /\ cancelled' = cancelled
    BY <1>2, <1>8 DEF AddRequest
  <2>2. phase'[z] = "live" /\ \A r \in Reqs \ {z} : phase'[r] = phase[r]
    BY <1>3, <2>1
  <2>3. Entries(waiting') = Entries(waiting) \cup {z}
    BY <1>3, <2>1, AppendFacts
  <2>4. Held'
    BY <1>7, <2>1, <2>2, <2>3
  <2>5. Left'
    BY <1>3, <1>8, GotoFacts DEF LoopPCs, Left
  <2>6. \A r \in Reqs : NeverTaken(r) => NeverTaken(r)'
    BY <1>1 DEF NeverTaken, httpVars
  <2> QED BY <1>1, <1>4, <2>2, <2>4, <2>5, <2>6, Passes DEF httpVars
<1>9. CASE /\ EmitThen(IdOf[eng.req], "final", TRUE, "admit")
           /\ phase' = [phase EXCEPT ![eng.req] = "rejected"] /\ UNCHANGED <<waiting, running, cancelled>>
  <2>1. phase'[z] = "rejected" /\ \A r \in Reqs \ {z} : phase'[r] = phase[r]
    BY <1>2, <1>3, <1>9
  <2>2. Held'
    BY <1>7, <1>9, <2>1
  <2>3. "final" \in Frames /\ "admit" \in Returns
    BY DEF Frames, Returns
  <2> QED BY <1>1, <1>2, <1>4, <1>9, <2>1, <2>2, <2>3, PassesEmit
<1> QED BY <1>8, <1>9 DEF Add

\* A timeout ends the sequence whose final frame it emits.
LEMMA DrainCancelExpired ==
  ASSUME DistinctIds, LoopInv, TellInv', DrainInv, CancelExpired
  PROVE  DrainInv'
<1>1. /\ eng.pc = "expire" /\ UNCHANGED <<dq, httpVars, lost, submitQ>> /\ EngOK
  BY InvFacts DEF CancelExpired
<1>2. CASE Goto("step") /\ UNCHANGED queues
  <2>1. Held'
    BY <1>1, <1>2, HeldStill DEF DrainInv, queues, httpVars
  <2> QED BY <1>1, <1>2, <2>1, PassesGoto DEF LoopPCs, queues
<1>3. ASSUME NEW id \in eng.expired, CancelById(id),
             eng' = [eng EXCEPT !.pc = "emit", !.id = id, !.frame = "final", !.final = TRUE,
                                !.after = "expire", !.expired = @ \ {id}]
      PROVE  DrainInv'
  <2>1. eng'.pc = "emit" /\ eng'.id = id /\ eng'.final = TRUE
    BY <1>1, <1>3 DEF EngOK
  <2>2. id \in Ids
    BY <1>1 DEF EngOK
  <2>3. \A r \in Reqs : (NeverTaken(r) => NeverTaken(r)') /\ ~AtAdd(r)
    BY <1>1 DEF NeverTaken, AtAdd, httpVars
  <2>4. Held' /\ \A r \in Reqs : phase[r] = "live" => phase'[r] = "live" \/ IdOf[r] = id
    BY <1>1, <1>3, <2>2, CancelHolds DEF DrainInv, httpVars
  <2>5. \A r \in Reqs : IdOf[r] = id => Closing(r)'
    BY <2>1 DEF Closing, Emitting
  <2>6. Left'
    BY <2>1 DEF Left
  <2>7. \A r \in Reqs : phase[r] = "live" => phase'[r] = "live" \/ Closing(r)'
    BY <2>4, <2>5
  <2> QED BY <1>1, <2>3, <2>4, <2>6, <2>7, Passes DEF httpVars
<1> QED BY <1>2, <1>3 DEF CancelExpired

\* The loop leaves through an empty batch only when nothing is live.
LEMMA DrainScheduleStep ==
  ASSUME LoopInv, TellInv', DrainInv, ScheduleStep
  PROVE  DrainInv'
<1>1. /\ eng.pc = "step" /\ UNCHANGED <<dq, httpVars, lost, submitQ, phase>> /\ FormBatch
      /\ Goto(IF Formed # <<>> THEN "forward" ELSE IF stopping THEN "exited" ELSE "top")
  BY DEF ScheduleStep, FormBatch
<1>2. Held'
  BY <1>1, FormHolds DEF DrainInv, httpVars
<1>3. PICK pc \in {"forward", "exited", "top"} : Goto(pc) /\ (pc = "exited" => Formed = <<>>)
  BY <1>1
<1>4. eng'.pc = pc
  BY <1>3, InvFacts, GotoFacts DEF LoopPCs
<1>5. Left'
  <2>1. \A r \in Reqs : (Finishing(r)' <=> Finishing(r)) /\ (LostPlace(r)' <=> LostPlace(r))
    BY <1>1 DEF Finishing, LostPlace, httpVars
  <2>2. pc = "exited" => \A r \in Reqs : phase[r] = "live" => Finishing(r) \/ LostPlace(r)
    BY <1>1, <1>3, EmptyBatch DEF DrainInv
  <2> QED BY <1>1, <1>4, <2>1, <2>2 DEF Left
<1>6. \A r \in Reqs : (NeverTaken(r) => NeverTaken(r)') /\ ~AtAdd(r)
  BY <1>1 DEF NeverTaken, AtAdd, httpVars
<1> QED BY <1>1, <1>2, <1>5, <1>6, Passes DEF httpVars

\* The loops over the batch: each sequence that ends has its final frame emitted.
LEMMA DrainResults ==
  ASSUME DistinctIds, LoopInv, TellInv', DrainInv, FailMember \/ NextResult \/ CheckCancelled \/ Apply
  PROVE  DrainInv'
<1> USE DEF LoopPCs, Returns, Frames
<1>0. EngOK /\ batch \in Seq(Reqs) /\ running \in Seq(Reqs) /\ phase \in [Reqs -> {"new", "live", "finished", "rejected"}]
  BY InvFacts DEF LoopInv, LoopTypeOK, SchedTypeOK
<1>1. CASE FailMember
  <2>1. eng.pc = "fail" /\ UNCHANGED <<dq, httpVars, lost, submitQ, cancelled>>
    BY <1>1 DEF FailMember
  <2>2. CASE Goto("top") /\ UNCHANGED <<waiting, running, phase>>
    <3>1. Held'
      BY <2>1, <2>2, HeldStill DEF DrainInv, httpVars
    <3> QED BY <2>1, <2>2, <3>1, PassesGoto
  <2>3. CASE batch # <<>> /\ Finish(Head(batch)) /\ EmitThen(IdOf[Head(batch)], "final", TRUE, "fail")
    <3>1. PICK z \in Reqs : z = Head(batch)
      BY <1>0, <2>3, TailEntries
    <3>2. Held' /\ \A r \in Reqs \ {z} : phase'[r] = phase[r]
      BY <2>1, <2>3, <3>1, FinishHolds DEF DrainInv, Finish, httpVars
    <3>3. \A r \in Reqs : ~AtAdd(r)
      BY <2>1 DEF AtAdd
    <3> QED BY <2>1, <2>3, <3>1, <3>2, <3>3, PassesEmit
  <2> QED BY <1>1, <2>2, <2>3 DEF FailMember
<1>2. CASE NextResult
  <2>1. eng.pc = "results" /\ UNCHANGED <<dq, httpVars, lost, submitQ, phase, cancelled, waiting>>
    BY <1>2 DEF NextResult
  <2>2. CASE running' = KeptLive(running) /\ Goto("top")
    <3>1. Entries(running') = {r \in Entries(running) : Live(r)}
      BY <1>0, <2>2, KeptFacts
    <3>2. Held'
      <4>1. \A r \in Reqs : (Finishing(r)' <=> Finishing(r)) /\ (LostPlace(r)' <=> LostPlace(r))
        BY <2>1 DEF Finishing, LostPlace, httpVars
      <4>2. cancelled \subseteq Reqs
        BY DEF LoopInv, LoopTypeOK, SchedTypeOK
      <4>3. \A r \in cancelled' : phase'[r] = "live" => Finishing(r)'
        BY <2>1, <4>1, <4>2 DEF DrainInv, Held
      <4>4. \A r \in Reqs : phase'[r] = "live" =>
              r \in Entries(waiting') \cup Entries(running') \/ Finishing(r)' \/ LostPlace(r)'
        BY <2>1, <3>1, <4>1 DEF DrainInv, Held, Live
      <4> QED BY <4>3, <4>4 DEF Held
    <3> QED BY <2>1, <2>2, <3>2, PassesGoto
  <2>3. CASE /\ running' = running
             /\ eng' = eng \/ eng' = [eng EXCEPT !.pc = "check", !.req = Head(batch)]
    <3>1. eng'.pc \in {"results", "check"}
      BY <1>0, <2>1, <2>3 DEF EngOK
    <3>2. Held' /\ Left'
      BY <2>1, <2>3, <3>1, HeldStill DEF DrainInv, Left, httpVars
    <3>3. \A r \in Reqs : (NeverTaken(r) => NeverTaken(r)') /\ ~AtAdd(r)
      BY <2>1 DEF NeverTaken, AtAdd, httpVars
    <3> QED BY <2>1, <3>1, <3>2, <3>3, Passes DEF httpVars
  <2> QED BY <1>2, <2>2, <2>3 DEF NextResult
<1>3. CASE CheckCancelled
  <2>1. eng.pc = "check" /\ UNCHANGED <<dq, httpVars, lost, submitQ, cancelled>>
    BY <1>3 DEF CheckCancelled
  <2>2. PICK z \in Reqs : z = eng.req
    BY <1>0, <2>1 DEF EngOK
  <2>3. CASE Finish(eng.req) /\ EmitThen(IdOf[eng.req], "final", TRUE, "unlock")
    <3>1. Held' /\ \A r \in Reqs \ {z} : phase'[r] = phase[r]
      BY <2>1, <2>2, <2>3, FinishHolds DEF DrainInv, Finish, httpVars
    <3>2. \A r \in Reqs : ~AtAdd(r)
      BY <2>1 DEF AtAdd
    <3> QED BY <2>1, <2>2, <2>3, <3>1, <3>2, PassesEmit
  <2>4. CASE Goto("apply") /\ UNCHANGED <<waiting, running, phase>>
    <3>1. Held'
      BY <2>1, <2>4, HeldStill DEF DrainInv, httpVars
    <3> QED BY <2>1, <2>2, <2>4, <3>1, PassesGoto
  <2> QED BY <1>3, <2>3, <2>4 DEF CheckCancelled
<1>4. CASE Apply
  <2>1. eng.pc = "apply" /\ UNCHANGED <<dq, httpVars, lost, submitQ, cancelled>>
    BY <1>4 DEF Apply, ApplyToken, queues
  <2>2. PICK z \in Reqs : z = eng.req /\ IdOf[z] \in Ids
    BY <1>0, <2>1, InvFacts DEF EngOK
  <2>3. \A r \in Reqs : (NeverTaken(r) => NeverTaken(r)') /\ ~AtAdd(r)
    BY <2>1 DEF NeverTaken, AtAdd, httpVars
  <2>4. ASSUME UNCHANGED <<waiting, running, phase>>, eng'.pc = "emit" PROVE DrainInv'
    <3>1. Held' /\ Left'
      BY <2>1, <2>4, HeldStill DEF DrainInv, Left, httpVars
    <3> QED BY <2>1, <2>3, <2>4, <3>1, Passes DEF httpVars
  <2>5. CASE z \in cancelled
    <3>1. UNCHANGED <<waiting, running, phase>>
          /\ EmitThen(IdOf[z], IF Live(z) THEN "blank" ELSE "final", TRUE, "results")
      BY <1>4, <2>2, <2>5 DEF Apply, queues
    <3>2. PICK f \in Frames : EmitThen(IdOf[z], f, TRUE, "results")
      BY <3>1
    <3>3. eng'.pc = "emit"
      BY <1>0, <2>2, <3>2, EmitFacts
    <3> QED BY <2>4, <3>1, <3>3
  <2>6. CASE z \notin cancelled
    <3>1. /\ ApplyToken(z)
          /\ LET over == phase'[z] = "finished"
             IN  EmitThen(IdOf[z], IF over THEN "final" ELSE "token", over, "results")
      BY <1>4, <2>2, <2>6 DEF Apply
    <3>2. CASE MarkFinished(z)
      <4>1. Held' /\ phase'[z] = "finished" /\ \A r \in Reqs \ {z} : phase'[r] = phase[r]
        BY <2>1, <3>2, FinishHolds DEF DrainInv, httpVars
      <4>2. EmitThen(IdOf[z], "final", TRUE, "results")
        BY <3>1, <4>1
      <4> QED BY <2>1, <2>3, <4>1, <4>2, PassesEmit
    <3>3. CASE UNCHANGED <<phase, running, waiting>>
      <4>1. CASE phase'[z] = "finished"
        <5>1. EmitThen(IdOf[z], "final", TRUE, "results")
          BY <3>1, <4>1
        <5>2. eng'.pc = "emit"
          BY <1>0, <2>2, <5>1, EmitFacts
        <5> QED BY <2>4, <3>3, <5>2
      <4>2. CASE phase'[z] # "finished"
        <5>1. EmitThen(IdOf[z], "token", FALSE, "results")
          BY <3>1, <4>2
        <5>2. eng'.pc = "emit"
          BY <1>0, <2>2, <5>1, EmitFacts
        <5> QED BY <2>4, <3>3, <5>2
      <4> QED BY <4>1, <4>2
    <3> QED BY <3>1, <3>2, <3>3 DEF ApplyToken
  <2> QED BY <2>5, <2>6
<1> QED BY <1>1, <1>2, <1>3, <1>4

\* _emit puts the frame that is owed, or loses it; the sequence a full queue
\* cancels is the one whose frame is lost.
LEMMA DrainEmitPut ==
  ASSUME DistinctIds, LoopInv, StreamInv, DrainInv, EmitPut
  PROVE  DrainInv'
<1>0. PICK q : q = deltaQs[eng.id]
  OBVIOUS
<1>1. /\ eng.pc = "emit" /\ UNCHANGED <<submitQ, http, client>>
  BY DEF EmitPut, httpVars
<1>2. /\ EngOK /\ eng.id \in Ids /\ eng.after \in Returns /\ eng.frame \in Frames /\ eng.final \in BOOLEAN
      /\ q \in Reqs \cup {NoReq}
  BY <1>0, <1>1, InvFacts DEF EngOK, LoopInv, LoopTypeOK
<1>3. /\ \A r \in Reqs : HasFinal(r) => HasFinal(r)'
      /\ lost \subseteq lost'
  BY LoopQuiet DEF LoopThread
<1>4. PICK pc \in {eng.after, "pop"} : Goto(pc)
  BY DEF EmitPut
<1>5. eng'.pc = pc /\ Left'
  <2>1. pc \in LoopPCs /\ pc \notin {"add", "check", "apply", "emit", "exited"}
    BY <1>2 DEF LoopPCs, Returns
  <2>2. eng'.pc = pc
    BY <1>2, <1>4, <2>1, GotoFacts
  <2> QED BY <2>1, <2>2 DEF Left
<1>6. q # NoReq => q \in Reqs /\ IdOf[q] = eng.id
  BY <1>0, <1>2 DEF StreamInv
<1>7. /\ Held'
      /\ \A r \in Reqs : phase[r] = "live" => phase'[r] = "live" \/ LostFrame(r)'
  <2>1. CASE UNCHANGED <<lost, queues>>
    BY <1>1, <2>1, HeldStill DEF DrainInv, queues
  <2>2. CASE q # NoReq /\ CancelById(eng.id) /\ lost' = lost \cup {<<"frame", q>>}
    <3>1. Held' /\ \A r \in Reqs : phase[r] = "live" => phase'[r] = "live" \/ IdOf[r] = eng.id
      BY <1>1, <1>2, <1>3, <2>2, CancelHolds DEF DrainInv
    <3>2. \A r \in Reqs : IdOf[r] = eng.id => LostFrame(r)'
      BY <1>6, <2>2 DEF DistinctIds, LostFrame
    <3> QED BY <3>1, <3>2
  <2> QED BY <1>0, <2>1, <2>2 DEF EmitPut
<1>8. ASSUME NEW r \in Reqs, client[r] = "reading", Closing(r) PROVE HasFinal(r)' \/ LostFrame(r)'
  <2>1. eng.id = IdOf[r] /\ eng.final
    BY <1>8 DEF Closing, Emitting
  <2>2. HasFinal(r) \/ LostFrame(r) \/ q = r
    BY <1>0, <1>8, <2>1 DEF StreamInv, StreamOK, Answered
  <2>3. CASE q = r
    <3>1. q # NoReq /\ dq \in [Reqs -> Seq(Frames)] /\ dq[r] \in Seq(Frames)
      BY <2>3, DqTypes, LoopAssumption
    <3>2. CASE dq' = [dq EXCEPT ![q] = Append(@, eng.frame)]
      <4>1. dq'[r] = Append(dq[r], eng.frame)
        BY <2>3, <3>1, <3>2
      <4>2. eng.frame # "token"
        BY <1>1, <2>1 DEF StreamInv
      <4> QED BY <1>2, <3>1, <4>1, <4>2, FinalAppended DEF HasFinal
    <3>3. CASE lost' = lost \cup {<<"frame", q>>}
      BY <2>3, <3>3 DEF LostFrame
    <3> QED BY <1>0, <3>1, <3>2, <3>3 DEF EmitPut
  <2>4. LostFrame(r) => LostFrame(r)'
    BY <1>3 DEF LostFrame
  <2> QED BY <1>3, <2>2, <2>3, <2>4
<1>9. ASSUME NEW r \in Reqs PROVE Owed(r)'
  <2>1. /\ NeverTaken(r) => NeverTaken(r)'
        /\ CancelAnswers(r) => CancelAnswers(r)'
        /\ LostFrame(r) => LostFrame(r)'
        /\ ~AtAdd(r) /\ Owed(r)
    BY <1>1, <1>3 DEF NeverTaken, CancelAnswers, LostFrame, AtAdd, DrainInv
  <2> QED BY <1>1, <1>3, <1>7, <1>8, <2>1 DEF Owed
<1> QED BY <1>5, <1>7, <1>9 DEF DrainInv

\* All steps of the loop thread.
LEMMA DrainLoopThread ==
  ASSUME DistinctIds, LoopInv, StreamInv, TellInv', DrainInv, LoopThread
  PROVE  DrainInv'
<1> USE DEF LoopPCs
<1>0. UNCHANGED <<waiting, running, phase, cancelled, http, lost>> => Held'
  BY HeldStill DEF DrainInv
<1>1. CASE Top
  <2>1. UNCHANGED <<waiting, running, phase, cancelled, dq, httpVars, lost, submitQ>> /\ eng.pc = "top"
    BY <1>1 DEF Top, schedVars
  <2>0. Held'
    BY <1>0, <2>1 DEF httpVars
  <2>2. CASE Goto("admit")
    BY <2>0, <2>1, <2>2, PassesGoto
  <2>3. CASE Goto("exited") /\ waiting = <<>> /\ running = <<>>
    <3>1. Entries(waiting) = {} /\ Entries(running) = {}
      BY <2>3 DEF Entries
    <3>2. Left'
      BY <2>0, <2>1, <3>1 DEF Held, Left
    <3>3. \A r \in Reqs : (NeverTaken(r) => NeverTaken(r)') /\ ~AtAdd(r)
      BY <2>1 DEF NeverTaken, AtAdd, httpVars
    <3> QED BY <2>0, <2>1, <3>2, <3>3, Passes DEF httpVars
  <2> QED BY <1>1, <2>2, <2>3 DEF Top
<1>2. CASE CollectExpired
  <2>1. UNCHANGED <<waiting, running, phase, cancelled, dq, httpVars, lost, submitQ>> /\ eng.pc = "timeouts"
    BY <1>2 DEF CollectExpired, schedVars
  <2>2. eng'.pc = "expire"
    <3> DEFINE past == {i \in Ids : deadline[i] = "past"}
    <3>1. eng' = [eng EXCEPT !.pc = "expire", !.expired = past]
      BY <1>2 DEF CollectExpired
    <3> HIDE DEF past
    <3> QED BY <3>1, InvFacts DEF EngOK
  <2>3. \A r \in Reqs : (NeverTaken(r) => NeverTaken(r)') /\ ~AtAdd(r)
    BY <2>1 DEF NeverTaken, AtAdd, httpVars
  <2>4. Held' /\ Left'
    BY <1>0, <2>1, <2>2 DEF Left, httpVars
  <2> QED BY <2>1, <2>3, <2>4, Passes DEF httpVars
<1>3. CASE RunBatch
  <2>1. PICK pc \in {"results", "fail"} : Goto(pc)
    BY <1>3 DEF RunBatch
  <2> QED BY <1>0, <1>3, <2>1, PassesGoto DEF RunBatch, queues, httpVars
<1>4. CASE Unlock
  BY <1>0, <1>4, PassesGoto DEF Unlock, schedVars, httpVars
<1>5. CASE EmitPop
  <2>1. eng.after \in LoopPCs \ {"add", "emit", "pop", "exited"} /\ eng.after \notin {"check", "apply"}
    BY InvFacts DEF EngOK, Returns
  <2> QED BY <1>0, <1>5, <2>1, PassesGoto DEF EmitPop, schedVars, httpVars
<1> QED BY <1>1, <1>2, <1>3, <1>4, <1>5, DrainAdmit, DrainAdd, DrainCancelExpired, DrainScheduleStep,
        DrainResults, DrainEmitPut DEF LoopThread

\* A step of the event loop, or of time: what it takes from a stream belongs to
\* a client that cancelled, and TellInv says who answers that one.
LEMMA Waits ==
  ASSUME LoopInv, TellInv', DrainInv, Held', eng' = eng, lost \subseteq lost', asked \subseteq asked',
         \A r \in Reqs : phase[r] = "live" => phase'[r] = "live" \/ r \in asked,
         \A r \in Reqs : phase'[r] = "live" => phase[r] = "live" /\ (Finishing(r) => Finishing(r)'),
         \A r \in Reqs : client'[r] = "reading" =>
            \/ client[r] = "reading" /\ (HasFinal(r) => HasFinal(r)') /\ (NeverTaken(r) => NeverTaken(r)')
            \/ NeverTaken(r)'
  PROVE  DrainInv'
<1>1. Left'
  BY DEF DrainInv, Left, LostPlace
<1>2. ASSUME NEW r \in Reqs PROVE Owed(r)'
  <2>1. Owed(r) /\ (AtAdd(r)' <=> AtAdd(r)) /\ (Closing(r)' <=> Closing(r)) /\ (LostFrame(r) => LostFrame(r)')
    BY DEF DrainInv, AtAdd, Closing, Emitting, LostFrame
  <2>2. CancelAnswers(r) => r \in asked
    BY DEF LoopInv, Marks, CancelAnswers
  <2>3. r \in asked /\ client'[r] = "reading" => HasFinal(r)' \/ LostFrame(r)' \/ CancelAnswers(r)'
    BY DEF TellInv
  <2> QED BY <2>1, <2>2, <2>3 DEF Owed
<1> QED BY <1>1, <1>2 DEF DrainInv

\* The steps of cancel() on the event loop.
LEMMA DrainCancel ==
  ASSUME DistinctIds, LoopInv, TellInv', DrainInv, CancelFlag \/ CancelFinish \/ CancelAssign \/ CancelEmit \/ CancelPop
  PROVE  DrainInv'
<1>0. /\ HttpOK /\ waiting \in Seq(Reqs) /\ running \in Seq(Reqs) /\ cancelled \subseteq Reqs
      /\ phase \in [Reqs -> {"new", "live", "finished", "rejected"}]
  BY InvFacts DEF LoopInv, LoopTypeOK, SchedTypeOK
<1>1. /\ UNCHANGED <<eng, submitQ, client, asked>> /\ lost \subseteq lost'
      /\ http.pc \notin {"idle", "put"} /\ http.req \in Reqs /\ http.req \in asked
  <2>1. http.pc \notin {"idle", "put"}
    BY DEF CancelFlag, CancelFinish, CancelAssign, CancelEmit, CancelPop
  <2>2. http.req \in Reqs /\ http.req \in asked
    BY <1>0, <2>1 DEF HttpOK, LoopInv, Marks
  <2> QED BY <2>1, <2>2 DEF CancelFlag, CancelFinish, CancelAssign, CancelEmit, CancelPop, loopOnly
<1>2. \A r \in Reqs : (NeverTaken(r) => NeverTaken(r)') /\ (LostPlace(r) => LostPlace(r)')
  BY <1>1 DEF NeverTaken, LostPlace
<1>3. CASE CancelFlag
  <2>1. UNCHANGED <<waiting, running, phase, dq>> /\ http.pc = "c_flag"
    BY <1>3 DEF CancelFlag
  <2>2. /\ http'.pc \in {"c_emit", "idle", "c_finish"}
        /\ http'.pc # "idle" => http'.req = http.req
        /\ http'.pc = "c_finish" => cancelled' = cancelled \cup {http.req}
        /\ http'.pc # "c_finish" => cancelled' = cancelled
    BY <1>3, CancelFinds
  <2>3. \A r \in Reqs : ~Finishing(r)
    BY <2>1 DEF Finishing
  <2>4. \A r \in cancelled' : phase'[r] = "live" => Finishing(r)'
    <3>1. \A r \in cancelled : phase[r] # "live"
      BY <1>0, <2>3 DEF DrainInv, Held
    <3> QED BY <2>1, <2>2, <3>1 DEF Finishing
  <2>5. Held'
    BY <1>2, <2>1, <2>3, <2>4 DEF DrainInv, Held
  <2>6. \A r \in Reqs : HasFinal(r) => HasFinal(r)'
    BY <2>1 DEF HasFinal
  <2> QED BY <1>1, <1>2, <2>1, <2>3, <2>5, <2>6, Waits
<1>4. CASE CancelFinish
  <2>1. /\ UNCHANGED <<waiting, dq, cancelled>> /\ http.pc = "c_finish"
        /\ phase' = [phase EXCEPT ![http.req] = "finished"] /\ running' = Without(running, {http.req})
    BY <1>4 DEF CancelFinish
  <2>2. phase'[http.req] = "finished" /\ \A r \in Reqs \ {http.req} : phase'[r] = phase[r]
    BY <1>0, <1>1, <2>1
  <2>3. Entries(running') = Entries(running) \ {http.req}
    BY <1>0, <2>1, WithoutFacts
  <2>4. \A r \in Reqs : Finishing(r) => r = http.req
    BY DEF Finishing
  <2>5. \A r \in cancelled' : phase'[r] = "live" => Finishing(r)'
    BY <1>0, <2>1, <2>2, <2>4 DEF DrainInv, Held
  <2>6. \A r \in Reqs : phase'[r] = "live" =>
          r \in Entries(waiting') \cup Entries(running') \/ Finishing(r)' \/ LostPlace(r)'
    BY <1>2, <2>1, <2>2, <2>3, <2>4 DEF DrainInv, Held
  <2>7. Held'
    BY <2>5, <2>6 DEF Held
  <2>8. \A r \in Reqs : HasFinal(r) => HasFinal(r)'
    BY <2>1 DEF HasFinal
  <2>9. \A r \in Reqs : phase[r] = "live" => phase'[r] = "live" \/ r \in asked
    BY <1>1, <2>2
  <2>10. \A r \in Reqs : phase'[r] = "live" => phase[r] = "live" /\ (Finishing(r) => Finishing(r)')
    BY <2>2, <2>4
  <2> QED BY <1>1, <1>2, <2>7, <2>8, <2>9, <2>10, Waits
<1>5. CASE CancelAssign
  <2>1. /\ UNCHANGED <<running, phase, dq, cancelled>> /\ http.pc = "c_assign"
        /\ waiting' = http.snap
        /\ lost' = lost \cup ({"place"} \X (Entries(waiting) \ Entries(http.snap)))
    BY <1>5 DEF CancelAssign
  <2>2. \A r \in Reqs : ~Finishing(r)
    BY <2>1 DEF Finishing
  <2>3. \A r \in Entries(waiting) : r \in Entries(waiting') \/ LostPlace(r)'
    BY <2>1 DEF LostPlace
  <2>4. \A r \in cancelled' : phase'[r] = "live" => Finishing(r)'
    BY <1>0, <2>1, <2>2 DEF DrainInv, Held
  <2>5. \A r \in Reqs : phase'[r] = "live" =>
          r \in Entries(waiting') \cup Entries(running') \/ Finishing(r)' \/ LostPlace(r)'
    BY <1>2, <2>1, <2>2, <2>3 DEF DrainInv, Held
  <2>6. Held'
    BY <2>4, <2>5 DEF Held
  <2>7. \A r \in Reqs : HasFinal(r) => HasFinal(r)'
    BY <2>1 DEF HasFinal
  <2> QED BY <1>1, <1>2, <2>1, <2>2, <2>6, <2>7, Waits
<1>6. CASE CancelEmit \/ CancelPop
  <2>1. UNCHANGED <<waiting, running, phase, cancelled>> /\ http.pc \in {"c_emit", "c_pop"}
    BY <1>6 DEF CancelEmit, CancelPop, schedVars
  <2>2. \A r \in Reqs : ~Finishing(r)
    BY <2>1 DEF Finishing
  <2>3. Held'
    BY <1>0, <1>2, <2>1, <2>2 DEF DrainInv, Held
  <2>4. ASSUME NEW r \in Reqs, HasFinal(r) PROVE HasFinal(r)'
    <3>1. dq \in [Reqs -> Seq(Frames)] /\ dq[r] \in Seq(Frames) /\ "final" \in Frames
      BY DqTypes DEF Frames
    <3>2. PICK q : q = deltaQs[IdOf[http.req]]
      OBVIOUS
    <3>3. dq' = dq \/ dq' = [dq EXCEPT ![q] = Append(@, "final")]
      BY <1>6, <3>2 DEF CancelEmit, CancelPop
    <3>4. dq'[r] = dq[r] \/ dq'[r] = Append(dq[r], "final")
      BY <3>1, <3>3
    <3> QED BY <2>4, <3>1, <3>4, FinalAppended DEF HasFinal
  <2> QED BY <1>1, <1>2, <2>1, <2>2, <2>3, <2>4, Waits
<1> QED BY <1>3, <1>4, <1>5, <1>6

\* The steps of the event loop.
LEMMA DrainHttpThread ==
  ASSUME DistinctIds, LoopInv, TellInv', DrainInv, HttpThread
  PROVE  DrainInv'
<1>0. /\ HttpOK /\ client \in [Reqs -> {"new", "reading", "closed", "gone"}]
      /\ submitQ \in Seq(Reqs \cup {StopItem}) /\ cancelled \subseteq Reqs
  BY HttpStill, InvFacts DEF LoopInv, LoopTypeOK, SchedTypeOK
<1> DEFINE Aside == /\ UNCHANGED <<waiting, running, phase, cancelled, eng, lost>>
                    /\ asked \subseteq asked' /\ \A r \in Reqs : Finishing(r) => Finishing(r)'
<1>a. ASSUME Aside,
             \A r \in Reqs : client'[r] = "reading" =>
                \/ client[r] = "reading" /\ (HasFinal(r) => HasFinal(r)') /\ (NeverTaken(r) => NeverTaken(r)')
                \/ NeverTaken(r)'
      PROVE  DrainInv'
  <2>1. Held'
    BY <1>0, <1>a DEF DrainInv, Held, LostPlace
  <2> QED BY <1>a, <2>1, Waits
<1> HIDE DEF Aside
<1>1. ASSUME NEW r \in Reqs, SubmitRegister(r) PROVE DrainInv'
  <2>1. UNCHANGED <<waiting, running, phase, cancelled, eng, lost, asked, dq, submitQ>> /\ http.pc = "idle"
    BY <1>1 DEF SubmitRegister, schedVars, loopOnly, Idle
  <2>2. \A x \in Reqs : (HasFinal(x)' <=> HasFinal(x)) /\ (NeverTaken(x) => NeverTaken(x)')
    BY <2>1 DEF HasFinal, NeverTaken
  <2>3. Aside
    BY <2>1 DEF Aside, Finishing
  <2>4. CASE client' = [client EXCEPT ![r] = "closed"]
    <3>1. \A x \in Reqs : client'[x] = "reading" => client[x] = "reading"
      BY <1>0, <2>4
    <3> QED BY <1>a, <2>2, <2>3, <3>1
  <2>5. CASE http' = [http EXCEPT !.pc = "put", !.req = r] /\ client' = [client EXCEPT ![r] = "reading"]
    <3>1. http'.pc = "put" /\ http'.req = r
      BY <1>0, <2>5 DEF HttpOK
    <3>2. NeverTaken(r)'
      BY <3>1 DEF NeverTaken
    <3>3. \A x \in Reqs \ {r} : client'[x] = client[x]
      BY <1>0, <2>5
    <3> QED BY <1>a, <2>2, <2>3, <3>2, <3>3
  <2> QED BY <1>1, <2>4, <2>5 DEF SubmitRegister
<1>2. ASSUME NEW r \in Reqs, CancelMark(r) PROVE DrainInv'
  <2>1. /\ UNCHANGED <<waiting, running, phase, cancelled, eng, lost, dq, submitQ>> /\ http.pc = "idle"
        /\ asked' = asked \cup {r} /\ client' \in {client, [client EXCEPT ![r] = "gone"]}
    BY <1>2 DEF CancelMark, schedVars, loopOnly, Idle
  <2>2. \A x \in Reqs : (HasFinal(x) => HasFinal(x)') /\ (NeverTaken(x) => NeverTaken(x)')
    BY <2>1 DEF HasFinal, NeverTaken
  <2>3. Aside
    BY <2>1 DEF Aside, Finishing
  <2>4. \A x \in Reqs : client'[x] = "reading" => client[x] = "reading"
    BY <1>0, <2>1
  <2> QED BY <1>a, <2>2, <2>3, <2>4
<1>3. ASSUME NEW r \in Reqs, Read(r) PROVE DrainInv'
  <2>1. UNCHANGED <<waiting, running, phase, cancelled, eng, lost, asked, submitQ, http>>
    BY <1>3 DEF Read, schedVars, loopOnly
  <2>2. \A x \in Reqs : client'[x] = "reading" => client[x] = "reading" /\ (HasFinal(x) => HasFinal(x)')
    BY <1>3, ReadKeepsFinal
  <2>3. \A x \in Reqs : NeverTaken(x) => NeverTaken(x)'
    BY <2>1 DEF NeverTaken
  <2>4. Aside
    BY <2>1 DEF Aside, Finishing
  <2> QED BY <1>a, <2>2, <2>3, <2>4
<1>4. CASE SubmitPut
  <2>1. /\ UNCHANGED <<waiting, running, phase, cancelled, eng, lost, asked, dq, client>> /\ http.pc = "put"
        /\ submitQ' = Append(submitQ, http.req)
    BY <1>4 DEF SubmitPut, schedVars, loopOnly
  <2>2. http.req \in Reqs \cup {StopItem}
    BY <1>0, <2>1 DEF HttpOK
  <2>3. Entries(submitQ') = Entries(submitQ) \cup {http.req}
    BY <1>0, <2>1, <2>2, AppendFacts
  <2>4. \A x \in Reqs : (HasFinal(x) => HasFinal(x)') /\ (NeverTaken(x) => NeverTaken(x)')
    BY <2>1, <2>3 DEF HasFinal, NeverTaken
  <2>5. Aside
    BY <2>1 DEF Aside, Finishing
  <2> QED BY <1>a, <2>1, <2>4, <2>5
<1>5. CASE BeginDrain
  <2>1. UNCHANGED <<waiting, running, phase, cancelled, eng, lost, asked, dq, client, submitQ, http>>
    BY <1>5 DEF BeginDrain, schedVars, loopOnly
  <2>2. \A x \in Reqs : (HasFinal(x) => HasFinal(x)') /\ (NeverTaken(x) => NeverTaken(x)')
    BY <2>1 DEF HasFinal, NeverTaken
  <2>3. Aside
    BY <2>1 DEF Aside, Finishing
  <2> QED BY <1>a, <2>1, <2>2, <2>3
<1>6. CASE Stop
  <2>1. /\ UNCHANGED <<waiting, running, phase, cancelled, eng, lost, asked, dq, client, http>>
        /\ submitQ' = Append(submitQ, StopItem)
    BY <1>6 DEF Stop, schedVars
  <2>2. Entries(submitQ') = Entries(submitQ) \cup {StopItem}
    BY <1>0, <2>1, AppendFacts
  <2>3. \A x \in Reqs : (HasFinal(x) => HasFinal(x)') /\ (NeverTaken(x) => NeverTaken(x)')
    BY <2>1, <2>2 DEF HasFinal, NeverTaken
  <2>4. Aside
    BY <2>1 DEF Aside, Finishing
  <2> QED BY <1>a, <2>1, <2>3, <2>4
<1> QED BY <1>1, <1>2, <1>3, <1>4, <1>5, <1>6, DrainCancel DEF HttpThread

\* Nothing is live and nobody has cancelled at the start.
LEMMA DrainInvInit ==
  ASSUME InitLoop
  PROVE  TellInv /\ DrainInv
<1>1. /\ phase = [r \in Reqs |-> "new"] /\ client = [r \in Reqs |-> "new"] /\ cancelled = {} /\ asked = {}
      /\ eng.pc = "top" /\ http.pc = "idle"
  BY DEF InitLoop, InitSched
<1>2. \A r \in Reqs : phase[r] # "live" /\ client[r] # "reading"
  BY <1>1
<1> QED BY <1>1, <1>2 DEF TellInv, DrainInv, Held, Left, Owed

\* One step, of either thread or of time.
LEMMA DrainInvNext ==
  ASSUME DistinctIds, LoopInv, StreamInv, TellInv', DrainInv, [NextLoop]_allVars
  PROVE  DrainInv'
<1>1. CASE LoopThread
  BY <1>1, DrainLoopThread
<1>2. CASE HttpThread
  BY <1>2, DrainHttpThread
<1>3. CASE (\E i \in Ids : Expire(i)) \/ UNCHANGED allVars
  <2>1. UNCHANGED <<waiting, running, phase, cancelled, eng, dq, client, submitQ, http, asked, lost>>
    BY <1>3 DEF Expire, allVars, loopVars, schedVars, loopOnly
  <2>2. \A x \in Reqs : (HasFinal(x) => HasFinal(x)') /\ (NeverTaken(x) => NeverTaken(x)')
    BY <2>1 DEF HasFinal, NeverTaken
  <2>3. Held' /\ \A x \in Reqs : Finishing(x) => Finishing(x)'
    BY <2>1, HeldStill DEF DrainInv, Finishing
  <2> QED BY <2>1, <2>2, <2>3, Waits
<1> QED BY <1>1, <1>2, <1>3 DEF NextLoop

(* When _run returns, nothing it admitted is left unfinished, and a client   *)
(* without an answer is one whose request it never took off the submit       *)
(* queue or whose own cancel() is still to answer: whatever cancels, full    *)
(* queues and timeouts came before, save for the losses ExitDrained names.   *)
THEOREM ExitLeavesNothing == DistinctIds => (SpecLoop => []ExitDrained)
<1> SUFFICES ASSUME DistinctIds PROVE SpecLoop => []ExitDrained
  OBVIOUS
<1>1. SpecLoop => []LoopInv
  BY LoopInvAlways
<1>2. SpecLoop => []StreamInv
  BY StreamInvAlways
<1>3. LoopInv /\ StreamInv /\ StreamInv' /\ TellInv /\ [NextLoop]_allVars => TellInv'
  BY TellInvNext
<1>4. LoopInv /\ StreamInv /\ TellInv' /\ DrainInv /\ [NextLoop]_allVars => DrainInv'
  BY DrainInvNext
<1>5. InitLoop => TellInv /\ DrainInv
  BY DrainInvInit
<1>6. DrainInv => ExitDrained
  <2> SUFFICES ASSUME DrainInv, eng.pc = "exited", NEW r \in Reqs, <<"place", r>> \notin lost
               PROVE  /\ phase[r] # "live" \/ CancelAnswers(r)
                      /\ client[r] = "reading" => \/ HasFinal(r) \/ <<"frame", r>> \in lost
                                                  \/ NeverTaken(r) \/ CancelAnswers(r)
    BY DEF ExitDrained
  <2>1. phase[r] # "live" \/ CancelAnswers(r)
    BY DEF DrainInv, Left, LostPlace, Finishing, CancelAnswers
  <2>2. Owed(r) /\ ~AtAdd(r) /\ ~Closing(r)
    BY DEF DrainInv, AtAdd, Closing, Emitting
  <2> QED BY <2>1, <2>2 DEF Owed, LostFrame
<1> QED BY <1>1, <1>2, <1>3, <1>4, <1>5, <1>6, PTL DEF SpecLoop

=============================================================================
