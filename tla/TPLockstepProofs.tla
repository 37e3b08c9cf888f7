------------------------- MODULE TPLockstepProofs -------------------------
(***************************************************************************)
(* TPLockstep.tla for any number of ranks, jobs and tokens: types, lockstep *)
(* of the ranks, and bursts that keep K/V, output and max_tokens in step.   *)
(*                                                                         *)
(* Types and bursts are facts about one rank's record (RankOK).  Lockstep   *)
(* rests on what a rank does between two collectives being a function of    *)
(* its record: all ranks stand on one path p of that function, and only     *)
(* the end of the path can be a forward or a wait (OnPath).                 *)
(***************************************************************************)
EXTENDS TPLockstep, QueueProofs, FiniteSetTheorems, FunctionTheorems

PCs == {"wait", "bcast", "submit", "top", "forward", "burst", "apply", "frame", "down"}
Lifes == {"none", "queued", "waiting", "running", "over"}
Fins == {"none", "stop", "length", "cancelled", "timeout", "error"}

\* s has the fields of Idle.
Shape(s) ==
  s = [pc |-> s.pc, job |-> s.job, st |-> s.st, out |-> s.out, cached |-> s.cached,
       prev |-> s.prev, left |-> s.left, toks |-> s.toks, acc |-> s.acc]

Typed(s) ==
  /\ s.pc \in PCs /\ s.job \in AllJobs /\ s.st \in Lifes
  /\ s.out \in Seq(Vocab) /\ s.toks \in Seq(Vocab)
  /\ s.cached \in Nat /\ s.left \in 0..Burst - 1

\* K/V, output and the steps left of a burst.
Counts(s) ==
  /\ s.st = "running" => s.cached = PromptLen + Len(s.out) - 1 /\ Len(s.out) >= 1
  /\ s.st \in {"none", "queued", "waiting"} => s.out = <<>> /\ s.cached = 0 /\ s.left = 0
  /\ Len(s.out) + s.left <= Limit(s.job)

\* Where the rank stands: a sequence that goes on has room for a token and no
\* burst under way; a burst that ends early has met EOS.
Stands(s) ==
  /\ s.pc = "submit" => s.st = "none"
  /\ s.pc \in {"top", "forward"} /\ s.st = "running" => Len(s.out) < Limit(s.job) /\ s.left = 0
  /\ s.pc = "forward" => s.st \in {"waiting", "running", "over"}
  /\ s.pc \in {"apply", "frame", "burst"} => s.st \in {"running", "over"} /\ s.toks # <<>>
  /\ s.pc = "apply" => s.left = 0 \/ s.st = "over"
  /\ s.pc = "burst" => s.left >= 1
  /\ s.pc = "frame" => s.left = 0 \/ Last(s.toks) = Eos

RankOK(s) == Shape(s) /\ Typed(s) /\ Counts(s) /\ Stands(s)

-----------------------------------------------------------------------------
(* The operators.                                                            *)

\* Every job may generate at least one token.
LEMMA LimitNat == \A j \in AllJobs : Limit(j) \in Nat \ {0}
  BY TPAssumption DEF AllJobs, Limit

\* A burst has at least one step.
LEMMA BurstNat == Burst \in Nat \ {0}
  BY BurstAssumption

\* A bounded, nonempty set of numbers has its maximum.
LEMMA MaxMember ==
  ASSUME NEW n \in Nat, NEW S \in SUBSET (0..n), S # {}
  PROVE  Max(S) \in S
<1> DEFINE T == {n - k : k \in S}
<1>1. T \subseteq Nat /\ T # {}
  <2>1. \A k \in S : k \in 0..n /\ n - k \in Nat
    OBVIOUS
  <2> QED BY <2>1
<1>2. PICK x \in T : \A y \in T : x <= y
  <2> HIDE DEF T
  <2> QED BY <1>1, LeastNat
<1>3. PICK k \in S : x = n - k
  BY <1>2
<1>4. \A y \in S : k >= y
  <2> TAKE y \in S
  <2>0. n - y \in T
    OBVIOUS
  <2>1. n - y \in T /\ y \in Int /\ k \in Int
    <3> HIDE DEF T
    <3> QED BY <2>0
  <2>2. n - k <= n - y
    BY <1>2, <1>3, <2>1
  <2> QED BY <2>1, <2>2
<1> QED BY <1>3, <1>4 DEF Max

\* Popping tokens leaves a beginning of the list.
LEMMA TrimmedShorter ==
  ASSUME NEW out \in Seq(Vocab), NEW n
  PROVE  Trimmed(out, n) \in Seq(Vocab) /\ Len(Trimmed(out, n)) <= Len(out)
<1> DEFINE S == {0} \cup {k \in 1..Len(out) : Len(Text(SubSeq(out, 1, k))) <= n}
           m == Max(S)
<1>1. Len(out) \in Nat /\ S \in SUBSET (0..Len(out)) /\ S # {}
  OBVIOUS
<1>2. m \in S
  <2> HIDE DEF S
  <2> QED BY <1>1, MaxMember
<1>3. m \in 0..Len(out)
  BY <1>1, <1>2
<1>4. Trimmed(out, n) = SubSeq(out, 1, m)
  BY DEF Trimmed
<1> HIDE DEF m
<1>5. SubSeq(out, 1, m) \in Seq(Vocab) /\ Len(SubSeq(out, 1, m)) = m
  BY <1>1, <1>3, SplitFacts
<1> QED BY <1>1, <1>3, <1>4, <1>5

\* The list never grows, and a token that does not end the sequence leaves it as
\* it is, below the limit and not at EOS.
ChecksOK(a, out, tok, limit, c) ==
  /\ a.out \in Seq(Vocab) /\ Len(a.out) <= Len(out)
  /\ a.fin \in {"none", "stop", "length", "cancelled"}
  /\ a.fin = "none" => a.out = out /\ Len(out) < limit /\ tok # Eos /\ ~ c

\* _apply_stop_and_limits does that.
LEMMA ChecksShrink ==
  ASSUME NEW out \in Seq(Vocab), NEW tok, NEW prev, NEW limit \in Nat, NEW c \in BOOLEAN
  PROVE  ChecksOK(ApplyStopAndLimits(out, tok, prev, limit, c), out, tok, limit, c)
<1> DEFINE a == ApplyStopAndLimits(out, tok, prev, limit, c)
           K(o, why) == [out |-> o, fin |-> why, delta |-> DetokenizeDelta(o, prev)]
<1>0. Len(out) \in Nat
  OBVIOUS
<1>1. Front(out) \in Seq(Vocab) /\ Len(Front(out)) <= Len(out)
  <2>1. CASE out = <<>>
    BY <2>1 DEF Front
  <2>2. CASE out # <<>>
    BY <2>2 DEF Front
  <2> QED BY <2>1, <2>2
<1>2. CASE c
  <2>1. a = [out |-> out, fin |-> "cancelled", delta |-> <<>>]
    BY <1>2 DEF ApplyStopAndLimits
  <2>2. ChecksOK(a, out, tok, limit, c)
    <3> HIDE DEF a
    <3> QED BY <1>0, <1>2, <2>1 DEF ChecksOK
  <2> QED BY <2>2
<1>3. CASE ~ c /\ Len(out) > limit
  <2>1. a = K(Front(out), "length")
    BY <1>0, <1>3 DEF ApplyStopAndLimits
  <2>2. ChecksOK(a, out, tok, limit, c)
    <3> HIDE DEF a
    <3> QED BY <1>1, <2>1 DEF ChecksOK
  <2> QED BY <2>2
<1>4. CASE ~ c /\ Len(out) = limit
  <2>1. a = K(out, "length")
    BY <1>0, <1>4 DEF ApplyStopAndLimits
  <2>2. ChecksOK(a, out, tok, limit, c)
    <3> HIDE DEF a
    <3> QED BY <1>0, <2>1 DEF ChecksOK
  <2> QED BY <2>2
<1>5. CASE ~ c /\ Len(out) < limit /\ tok = Eos
  <2>1. a = K(IF Last(out) = tok THEN Front(out) ELSE out, "stop")
    BY <1>0, <1>5 DEF ApplyStopAndLimits
  <2>2. ChecksOK(a, out, tok, limit, c)
    <3> HIDE DEF a
    <3> QED BY <1>0, <1>1, <2>1 DEF ChecksOK
  <2> QED BY <2>2
<1>6. CASE ~ c /\ Len(out) < limit /\ tok # Eos /\ StopAt(Text(out)) > 0
  <2>1. a = K(Trimmed(out, StopAt(Text(out)) - 1), "stop")
    BY <1>0, <1>6 DEF ApplyStopAndLimits
  <2>2. ChecksOK(a, out, tok, limit, c)
    <3> HIDE DEF a
    <3> QED BY <2>1, TrimmedShorter DEF ChecksOK
  <2> QED BY <2>2
<1>7. CASE ~ c /\ Len(out) < limit /\ tok # Eos /\ ~ (StopAt(Text(out)) > 0)
  <2>1. a = K(out, "none")
    BY <1>0, <1>7 DEF ApplyStopAndLimits
  <2>2. ChecksOK(a, out, tok, limit, c)
    <3> HIDE DEF a
    <3> QED BY <1>0, <1>7, <2>1 DEF ChecksOK
  <2> QED BY <2>2
<1> HIDE DEF a
<1>8. Len(out) < limit \/ Len(out) = limit \/ Len(out) > limit
  BY <1>0
<1> QED BY <1>2, <1>3, <1>4, <1>5, <1>6, <1>7, <1>8 DEF a

\* What a burst may add keeps to max_tokens and to the burst size.
LEMMA BurstExtraBounds ==
  ASSUME NEW n \in Nat, NEW limit \in Nat, n < limit
  PROVE  /\ BurstExtra(n, limit) \in 0..Burst - 1
         /\ n + 1 + BurstExtra(n, limit) <= limit
<1> DEFINE x == limit - n - 1
           y == Burst - 1
<1>1. x \in Nat /\ y \in Nat
  BY BurstNat
<1> HIDE DEF x, y
<1>2. Max({0, x}) = x
  <2>1. \E z \in {0, x} : \A w \in {0, x} : z >= w
    BY <1>1
  <2>2. Max({0, x}) \in {0, x} /\ \A w \in {0, x} : Max({0, x}) >= w
    BY <2>1 DEF Max
  <2> QED BY <1>1, <2>2
<1>3. Min({x, y}) \in {x, y} /\ \A w \in {x, y} : Min({x, y}) <= w
  <2>1. \E z \in {x, y} : \A w \in {x, y} : z <= w
    BY <1>1
  <2> QED BY <2>1 DEF Min
<1>4. BurstExtra(n, limit) = Min({x, y})
  BY <1>2 DEF BurstExtra, x, y
<1>5. BurstExtra(n, limit) \in Nat /\ BurstExtra(n, limit) <= x /\ BurstExtra(n, limit) <= y
  BY <1>1, <1>3, <1>4
<1> QED BY <1>5, BurstNat DEF x, y

-----------------------------------------------------------------------------
(* One rank's record.                                                        *)

\* The fields of a record that a step has changed.
Fields(t, pc, job, st, out, cached, left, toks) ==
  /\ Shape(t)
  /\ t.pc = pc /\ t.job = job /\ t.st = st /\ t.out = out /\ t.cached = cached
  /\ t.left = left /\ t.toks = toks

\* The fields after a change of pc, of st, or of both.
LEMMA MovedFields ==
  ASSUME NEW s, Shape(s), NEW p, NEW q
  PROVE  /\ Fields([s EXCEPT !.pc = p, !.st = q], p, s.job, q, s.out, s.cached, s.left, s.toks)
         /\ Fields([s EXCEPT !.pc = p], p, s.job, s.st, s.out, s.cached, s.left, s.toks)
         /\ Fields([s EXCEPT !.st = q], s.pc, s.job, q, s.out, s.cached, s.left, s.toks)
<1>1. Fields([s EXCEPT !.pc = p, !.st = q], p, s.job, q, s.out, s.cached, s.left, s.toks)
  <2> DEFINE t == [s EXCEPT !.pc = p, !.st = q]
  <2>1. t = [s EXCEPT !.pc = p, !.st = q]
    OBVIOUS
  <2> HIDE DEF t
  <2>2. Fields(t, p, s.job, q, s.out, s.cached, s.left, s.toks)
    BY <2>1 DEF Shape, Fields
  <2> QED BY <2>2 DEF t
<1>2. Fields([s EXCEPT !.pc = p], p, s.job, s.st, s.out, s.cached, s.left, s.toks)
  BY DEF Shape, Fields
<1>3. Fields([s EXCEPT !.st = q], s.pc, s.job, q, s.out, s.cached, s.left, s.toks)
  BY DEF Shape, Fields
<1> QED BY <1>1, <1>2, <1>3

\* An idle rank.
LEMMA IdleOK ==
  ASSUME NEW pc \in {"wait", "bcast", "submit"}, NEW j \in AllJobs
  PROVE  /\ RankOK([Idle EXCEPT !.pc = pc, !.job = j])
         /\ RankOK([Idle EXCEPT !.pc = pc])
         /\ RankOK(Idle)
<1>1. ASSUME NEW p \in {"wait", "bcast", "submit"}, NEW k \in AllJobs, NEW s,
             Fields(s, p, k, "none", <<>>, 0, 0, <<>>)
      PROVE  RankOK(s)
  <2>1. Limit(k) \in Nat \ {0} /\ 0 \in 0..Burst - 1
    BY LimitNat, BurstNat
  <2>2. s.pc = p /\ s.job = k /\ s.st = "none" /\ s.out = <<>> /\ s.cached = 0 /\ s.left = 0
        /\ s.toks = <<>> /\ Shape(s)
    BY <1>1 DEF Fields
  <2>3. Typed(s)
    BY <2>1, <2>2 DEF Typed, PCs, Lifes
  <2>4. Counts(s)
    BY <2>1, <2>2 DEF Counts
  <2>5. Stands(s)
    BY <2>2 DEF Stands
  <2> QED BY <2>2, <2>3, <2>4, <2>5 DEF RankOK
<1>2. Warm \in AllJobs
  BY DEF AllJobs
<1>3. Fields([Idle EXCEPT !.pc = pc, !.job = j], pc, j, "none", <<>>, 0, 0, <<>>)
  <2> DEFINE t == [Idle EXCEPT !.pc = pc, !.job = j]
  <2>1. t = [Idle EXCEPT !.pc = pc, !.job = j]
    OBVIOUS
  <2> HIDE DEF t
  <2>2. Fields(t, pc, j, "none", <<>>, 0, 0, <<>>)
    BY <2>1 DEF Shape, Fields, Idle
  <2> QED BY <2>2 DEF t
<1>4. Fields([Idle EXCEPT !.pc = pc], pc, Warm, "none", <<>>, 0, 0, <<>>)
  BY DEF Idle, Fields, Shape
<1>5. Fields(Idle, "wait", Warm, "none", <<>>, 0, 0, <<>>)
  BY DEF Idle, Fields, Shape
<1> QED BY <1>1, <1>2, <1>3, <1>4, <1>5

\* Moves that change only where the rank stands and the life of its sequence.
LEMMA MoveOK ==
  ASSUME NEW s, RankOK(s), NEW p, NEW q,
         \/ s.pc = "submit" /\ p = "top" /\ q = "queued"
         \/ s.pc = "submit" /\ p = "wait" /\ q = "none"
         \/ s.pc = "top" /\ p = "top" /\ s.st = "queued" /\ q \in {"none", "waiting"}
         \/ s.pc = "top" /\ p = "wait" /\ q = s.st /\ q \in {"none", "over"}
         \/ s.pc = "top" /\ p = "forward" /\ q = s.st /\ q \in {"waiting", "running"}
         \/ p = "down" /\ q = s.st
         \/ p = "top" /\ q = "over"
         \/ p = s.pc /\ q = "over" /\ s.st \in {"waiting", "running"}
         \/ p = "top" /\ q = s.st /\ s.st = "over"
  PROVE  RankOK([s EXCEPT !.pc = p, !.st = q])
<1> DEFINE t == [s EXCEPT !.pc = p, !.st = q]
<1>1. Fields(t, p, s.job, q, s.out, s.cached, s.left, s.toks)
  BY MovedFields DEF RankOK
<1> HIDE DEF t
<1>2. /\ t.pc = p /\ t.job = s.job /\ t.st = q /\ t.out = s.out /\ t.cached = s.cached
      /\ t.left = s.left /\ t.toks = s.toks /\ Shape(t)
  BY <1>1 DEF Fields
<1>3. Typed(s) /\ Counts(s) /\ Stands(s)
  BY DEF RankOK
<1>4. Typed(t)
  BY <1>2, <1>3 DEF Typed, PCs, Lifes
<1>5. Counts(t)
  BY <1>2, <1>3 DEF Counts, Stands
<1>6. Stands(t)
  BY <1>2, <1>3 DEF Counts, Stands
<1> QED BY <1>2, <1>4, <1>5, <1>6 DEF RankOK, t

\* A forward that run_batch made.
LEMMA ForwardOK ==
  ASSUME NEW s, RankOK(s), s.pc = "forward", NEW tok \in Vocab
  PROVE  RankOK(AfterRunBatch(s, tok))
<1> DEFINE t == AfterRunBatch(s, tok)
           more == BurstExtra(Len(s.out), Limit(s.job))
           c == IF s.cached = 0 THEN PromptLen ELSE s.cached + 1
           o == Append(s.out, tok)
<1>0. Shape(s) /\ Typed(s) /\ Counts(s) /\ Stands(s)
  BY DEF RankOK
<1>1. CASE s.st = "over"
  <2>1. t = [s EXCEPT !.pc = "top"]
    BY <1>1 DEF AfterRunBatch
  <2>2. [s EXCEPT !.pc = "top"] = [s EXCEPT !.pc = "top", !.st = "over"]
    BY <1>0, <1>1 DEF Shape
  <2>3. RankOK([s EXCEPT !.pc = "top", !.st = "over"])
    BY MoveOK
  <2> HIDE DEF t
  <2>4. RankOK(t)
    BY <2>1, <2>2, <2>3
  <2> QED BY <2>4 DEF t
<1>2. CASE s.st # "over"
  <2>1. s.st \in {"waiting", "running"}
    BY <1>0, <1>2 DEF Stands
  <2>2. /\ Limit(s.job) \in Nat \ {0} /\ PromptLen \in Nat \ {0} /\ Len(s.out) \in Nat
        /\ s.cached \in Nat
    BY <1>0, LimitNat, TPAssumption DEF Typed
  <2>3. /\ Len(s.out) < Limit(s.job) /\ s.left = 0
        /\ s.cached = (IF s.st = "waiting" THEN 0 ELSE PromptLen + Len(s.out) - 1)
        /\ s.st = "waiting" => Len(s.out) = 0
        /\ s.st = "running" => Len(s.out) >= 1
    BY <1>0, <2>1, <2>2 DEF Counts, Stands
  <2>4. /\ o \in Seq(Vocab) /\ Len(o) = Len(s.out) + 1 /\ <<tok>> \in Seq(Vocab) /\ <<tok>> # <<>>
    BY <1>0 DEF Typed
  <2>5. c \in Nat /\ c = PromptLen + Len(o) - 1 /\ Len(o) >= 1
    <3>1. CASE s.st = "waiting"
      BY <2>2, <2>3, <2>4, <3>1
    <3>2. CASE s.st = "running"
      BY <2>2, <2>3, <2>4, <3>2
    <3> QED BY <2>1, <3>1, <3>2
  <2>6. more \in 0..Burst - 1 /\ Len(o) + more <= Limit(s.job) /\ Len(o) <= Limit(s.job)
    <3>1. more \in 0..Burst - 1 /\ Len(s.out) + 1 + more <= Limit(s.job)
      BY <2>2, <2>3, BurstExtraBounds
    <3> HIDE DEF more
    <3> QED BY <2>2, <2>3, <2>4, <3>1, BurstNat
  <2>7. CASE s.cached = 0 \/ Burst = 1
    <3>1. t = [[s EXCEPT !.out = o, !.toks = <<tok>>, !.cached = c, !.st = "running"]
                 EXCEPT !.pc = "apply"]
      BY <1>0, <1>2, <2>7 DEF AfterRunBatch, Shape
    <3>2. Fields(t, "apply", s.job, "running", o, c, s.left, <<tok>>)
      <4> HIDE DEF t, o, c
      <4> QED BY <1>0, <3>1 DEF Fields, Shape
    <3> HIDE DEF t, o, c
    <3>3. /\ t.pc = "apply" /\ t.job = s.job /\ t.st = "running" /\ t.out = o /\ t.cached = c
          /\ t.left = 0 /\ t.toks = <<tok>> /\ Shape(t)
      BY <2>3, <3>2 DEF Fields
    <3>4. Typed(t)
      BY <1>0, <2>4, <2>5, <3>3, BurstNat DEF Typed, PCs, Lifes
    <3>5. Counts(t)
      <4>1. Len(o) + 0 <= Limit(s.job)
        BY <2>2, <2>4, <2>6
      <4> QED BY <2>5, <3>3, <4>1 DEF Counts
    <3>6. Stands(t)
      BY <2>4, <3>3 DEF Stands
    <3> QED BY <3>3, <3>4, <3>5, <3>6 DEF RankOK, t
  <2>8. CASE ~ (s.cached = 0 \/ Burst = 1)
    <3> DEFINE p == IF more > 0 THEN "burst" ELSE "frame"
    <3>1. t = [[s EXCEPT !.out = o, !.toks = <<tok>>, !.cached = c, !.st = "running"]
                 EXCEPT !.pc = p, !.left = more]
      BY <1>0, <1>2, <2>8 DEF AfterRunBatch, Shape
    <3>2. Fields(t, p, s.job, "running", o, c, more, <<tok>>)
      <4> HIDE DEF t, o, c, p, more
      <4> QED BY <1>0, <3>1 DEF Fields, Shape
    <3>a. p \in {"burst", "frame"} /\ (p = "burst" => more >= 1) /\ (p = "frame" => more = 0)
      <4> HIDE DEF more
      <4> QED BY <2>6, BurstNat
    <3> HIDE DEF t, o, c, p, more
    <3>3. /\ t.pc = p /\ t.job = s.job /\ t.st = "running" /\ t.out = o /\ t.cached = c
          /\ t.left = more /\ t.toks = <<tok>> /\ Shape(t)
      BY <3>2 DEF Fields
    <3>4. Typed(t)
      BY <1>0, <2>4, <2>5, <2>6, <3>a, <3>3 DEF Typed, PCs, Lifes
    <3>5. Counts(t)
      BY <2>5, <2>6, <3>3 DEF Counts
    <3>6. Stands(t)
      BY <2>4, <3>a, <3>3 DEF Stands
    <3> QED BY <3>3, <3>4, <3>5, <3>6 DEF RankOK, t
  <2> QED BY <2>7, <2>8
<1> QED BY <1>1, <1>2

\* A step of a burst.
LEMMA BurstStepOK ==
  ASSUME NEW s, RankOK(s), s.pc = "burst", NEW tok \in Vocab
  PROVE  RankOK(AfterBurstStep(s, tok))
<1> DEFINE t == AfterBurstStep(s, tok)
           o == Append(s.out, tok)
           b == Append(s.toks, tok)
           p == IF tok = Eos \/ s.left = 1 THEN "frame" ELSE "burst"
<1>0. Shape(s) /\ Typed(s) /\ Counts(s) /\ Stands(s)
  BY DEF RankOK
<1>1. /\ o \in Seq(Vocab) /\ Len(o) = Len(s.out) + 1
      /\ b \in Seq(Vocab) /\ b # <<>> /\ Last(b) = tok
  BY <1>0 DEF Typed, Last
<1>2. /\ Limit(s.job) \in Nat \ {0} /\ PromptLen \in Nat \ {0} /\ Len(s.out) \in Nat
      /\ s.cached \in Nat /\ s.left \in 0..Burst - 1 /\ s.left >= 1
  BY <1>0, LimitNat, TPAssumption DEF Typed, Stands
<1>3. Fields(t, p, s.job, s.st, o, s.cached + 1, s.left - 1, b)
  <2>1. t = [s EXCEPT !.out = o, !.toks = b, !.cached = s.cached + 1, !.left = s.left - 1,
                      !.pc = p]
    BY <1>0 DEF AfterBurstStep, Shape
  <2> HIDE DEF t, o, b, p
  <2> QED BY <1>0, <2>1 DEF Fields, Shape
<1>4. p \in {"frame", "burst"} /\ (p = "burst" => s.left # 1) /\ (p = "frame" => tok = Eos \/ s.left = 1)
  OBVIOUS
<1> HIDE DEF t, o, b, p
<1>5. /\ t.pc = p /\ t.job = s.job /\ t.st = s.st /\ t.out = o /\ t.cached = s.cached + 1
      /\ t.left = s.left - 1 /\ t.toks = b /\ Shape(t)
  BY <1>3 DEF Fields
<1>6. s.st \in {"running", "over"}
  BY <1>0 DEF Stands
<1>7. Typed(t)
  <2>1. s.left - 1 \in 0..Burst - 1 /\ s.cached + 1 \in Nat
    BY <1>2, BurstNat
  <2> QED BY <1>0, <1>1, <1>4, <1>5, <2>1 DEF Typed, PCs, Lifes
<1>8. Counts(t)
  <2>1. Len(o) + (s.left - 1) <= Limit(s.job)
    BY <1>0, <1>1, <1>2 DEF Counts
  <2>2. s.st = "running" => s.cached + 1 = PromptLen + Len(o) - 1 /\ Len(o) >= 1
    BY <1>0, <1>1, <1>2 DEF Counts
  <2> QED BY <1>5, <1>6, <2>1, <2>2 DEF Counts
<1>9. Stands(t)
  <2>1. p = "burst" => s.left - 1 >= 1
    BY <1>2, <1>4
  <2>2. p = "frame" => s.left - 1 = 0 \/ Last(b) = Eos
    BY <1>1, <1>2, <1>4
  <2> QED BY <1>1, <1>4, <1>5, <1>6, <2>1, <2>2 DEF Stands
<1> QED BY <1>5, <1>7, <1>8, <1>9 DEF RankOK, t

\* The end of pump_once, after checks that keep to their promise.
LEMMA SettledOK ==
  ASSUME NEW s, RankOK(s), s.st \in {"running", "over"}, NEW f,
         f.out \in Seq(Vocab), Len(f.out) <= Len(s.out),
         f.fin = "none" => /\ f.out = s.out /\ Len(s.out) < Limit(s.job)
                           /\ s.left = 0 /\ s.st = "running"
  PROVE  RankOK(Settled(s, f))
<1> DEFINE t == Settled(s, f)
           q == IF f.fin # "none" THEN "over" ELSE s.st
<1>0. Shape(s) /\ Typed(s) /\ Counts(s) /\ Stands(s)
  BY DEF RankOK
<1>1. Fields(t, "top", s.job, q, f.out, s.cached, s.left, <<>>)
  <2>1. t = [s EXCEPT !.pc = "top", !.out = f.out, !.prev = f.prev, !.toks = <<>>, !.acc = <<>>,
                      !.st = q]
    BY <1>0 DEF Settled, Shape
  <2> HIDE DEF t, q
  <2> QED BY <1>0, <2>1 DEF Fields, Shape
<1>2. q \in {"running", "over"} /\ (q = "running" => f.fin = "none")
  OBVIOUS
<1> HIDE DEF t, q
<1>3. /\ t.pc = "top" /\ t.job = s.job /\ t.st = q /\ t.out = f.out /\ t.cached = s.cached
      /\ t.left = s.left /\ t.toks = <<>> /\ Shape(t)
  BY <1>1 DEF Fields
<1>4. Typed(t)
  <2>1. <<>> \in Seq(Vocab)
    OBVIOUS
  <2> QED BY <1>0, <1>2, <1>3, <2>1 DEF Typed, PCs, Lifes
<1>5. Counts(t)
  <2>1. Len(f.out) + s.left <= Limit(s.job)
    <3>1. Len(s.out) \in Nat /\ Len(f.out) \in Nat /\ s.left \in Int /\ Limit(s.job) \in Nat
      BY <1>0, LimitNat DEF Typed
    <3>2. Len(s.out) + s.left <= Limit(s.job)
      BY <1>0 DEF Counts
    <3> QED BY <3>1, <3>2
  <2> QED BY <1>0, <1>2, <1>3, <2>1 DEF Counts
<1>6. Stands(t)
  BY <1>2, <1>3 DEF Stands
<1> QED BY <1>3, <1>4, <1>5, <1>6 DEF RankOK, t

\* What the checks say at a rank.
LEMMA CheckedOK ==
  ASSUME NEW s, RankOK(s), NEW tok
  PROVE  ChecksOK(Checked(s, tok), s.out, tok, Limit(s.job), s.st = "over")
<1>1. s.out \in Seq(Vocab) /\ Limit(s.job) \in Nat /\ (s.st = "over") \in BOOLEAN
  BY LimitNat DEF RankOK, Typed
<1> QED BY <1>1, ChecksShrink DEF Checked

\* The checks after a single step keep the rank in order, and give a known
\* finish_reason.
LEMMA ApplyOK ==
  ASSUME NEW s, RankOK(s), s.pc = "apply"
  PROVE  LET f == OneToken(Checked(s, Last(s.toks)), s.prev)
         IN  RankOK(Settled(s, f)) /\ f.fin \in Fins
<1> DEFINE a == Checked(s, Last(s.toks))
           f == OneToken(a, s.prev)
<1>1. ChecksOK(a, s.out, Last(s.toks), Limit(s.job), s.st = "over")
  BY CheckedOK
<1>2. f.out = a.out /\ f.fin = a.fin
  <2> HIDE DEF a
  <2> QED BY DEF OneToken
<1> HIDE DEF a, f
<1>3. s.st \in {"running", "over"} /\ (s.left = 0 \/ s.st = "over")
  BY DEF RankOK, Stands
<1>4. /\ f.out \in Seq(Vocab) /\ Len(f.out) <= Len(s.out) /\ f.fin \in Fins
      /\ f.fin = "none" => /\ f.out = s.out /\ Len(s.out) < Limit(s.job)
                           /\ s.left = 0 /\ s.st = "running"
  BY <1>1, <1>2, <1>3 DEF ChecksOK, Fins
<1>5. RankOK(Settled(s, f))
  BY <1>3, <1>4, SettledOK
<1> QED BY <1>4, <1>5 DEF f, a

\* A list of several entries has the last entry of its tail.
LEMMA TailLast ==
  ASSUME NEW T, NEW q \in Seq(T), q # <<>>, Len(q) # 1
  PROVE  Tail(q) \in Seq(T) /\ Tail(q) # <<>> /\ Last(Tail(q)) = Last(q)
<1> DEFINE t == Tail(q)
<1>1. Len(q) \in Nat /\ Len(q) >= 2
  <2> DEFINE n == Len(q)
  <2>1. n \in Nat /\ n # 0 /\ n # 1
    OBVIOUS
  <2> HIDE DEF n
  <2>2. n \in Nat /\ n >= 2
    BY <2>1
  <2> QED BY <2>2 DEF n
<1>2. t \in Seq(T) /\ Len(t) = Len(q) - 1 /\ \A i \in 1..Len(t) : t[i] = q[i + 1]
  OBVIOUS
<1> HIDE DEF t
<1>3. Len(t) \in 1..Len(t) /\ Len(t) + 1 = Len(q)
  BY <1>1, <1>2
<1>4. t[Len(t)] = q[Len(q)]
  BY <1>2, <1>3
<1>5. t # <<>>
  BY <1>1, <1>2
<1> QED BY <1>2, <1>4, <1>5 DEF Last, t

\* A token of a burst after the checks.
Frame(s) == BurstToken(Checked(s, Head(s.toks)), s.prev, s.acc)
Unsent(s, f) == [s EXCEPT !.toks = Tail(@), !.acc = f.text, !.prev = f.prev]
LastOne(s) == Frame(s).fin # "none" \/ Len(s.toks) = 1

\* So do the checks of one token of a burst, whether it is the last one looked
\* at or not.
LEMMA FrameOK ==
  ASSUME NEW s, RankOK(s), s.pc = "frame"
  PROVE  /\ Frame(s).fin \in Fins
         /\ LastOne(s) => RankOK(Settled(s, Frame(s)))
         /\ ~ LastOne(s) => RankOK(Unsent(s, Frame(s)))
<1> DEFINE a == Checked(s, Head(s.toks))
           f == Frame(s)
<1>1. ChecksOK(a, s.out, Head(s.toks), Limit(s.job), s.st = "over")
  BY CheckedOK
<1>2. f.out = a.out /\ f.fin = a.fin
  <2> HIDE DEF a
  <2>1. f = BurstToken(a, s.prev, s.acc)
    BY DEF Frame, a
  <2> HIDE DEF f
  <2> QED BY <2>1 DEF BurstToken
<1> HIDE DEF a, f
<1>3. /\ s.st \in {"running", "over"} /\ s.toks # <<>> /\ (s.left = 0 \/ Last(s.toks) = Eos)
      /\ s.toks \in Seq(Vocab) /\ Len(s.toks) \in Nat \ {0}
  BY DEF RankOK, Stands, Typed
<1>4. /\ f.out \in Seq(Vocab) /\ Len(f.out) <= Len(s.out) /\ f.fin \in Fins
      /\ f.fin = "none" => /\ f.out = s.out /\ Len(s.out) < Limit(s.job)
                           /\ s.st = "running" /\ Head(s.toks) # Eos
  BY <1>1, <1>2, <1>3 DEF ChecksOK, Fins
<1>5. ASSUME LastOne(s) PROVE RankOK(Settled(s, f))
  <2>1. f.fin = "none" => s.left = 0
    <3>1. f.fin = "none" => Len(s.toks) = 1
      BY <1>5 DEF LastOne, f
    <3>2. Len(s.toks) = 1 => Head(s.toks) = Last(s.toks)
      BY <1>3 DEF Last
    <3> QED BY <1>3, <1>4, <3>1, <3>2
  <2> QED BY <1>3, <1>4, <2>1, SettledOK
<1>6. ASSUME ~ LastOne(s) PROVE RankOK(Unsent(s, f))
  <2> DEFINE t == Unsent(s, f)
             b == Tail(s.toks)
  <2>0. Shape(s) /\ Typed(s) /\ Counts(s) /\ Stands(s)
    BY DEF RankOK
  <2>1. Len(s.toks) # 1
    BY <1>6 DEF LastOne
  <2>2. b \in Seq(Vocab) /\ b # <<>> /\ Last(b) = Last(s.toks)
    BY <1>3, <2>1, TailLast
  <2>3. Fields(t, s.pc, s.job, s.st, s.out, s.cached, s.left, b)
    <3>1. t = [s EXCEPT !.toks = b, !.acc = f.text, !.prev = f.prev]
      BY <2>0 DEF Unsent, Shape
    <3> HIDE DEF t, b
    <3> QED BY <2>0, <3>1 DEF Fields, Shape
  <2> HIDE DEF t, b
  <2>4. /\ t.pc = s.pc /\ t.job = s.job /\ t.st = s.st /\ t.out = s.out /\ t.cached = s.cached
        /\ t.left = s.left /\ t.toks = b /\ Shape(t)
    BY <2>3 DEF Fields
  <2>5. Typed(t)
    BY <2>0, <2>2, <2>4 DEF Typed
  <2>6. Counts(t)
    BY <2>0, <2>4 DEF Counts
  <2>7. Stands(t)
    BY <2>0, <2>2, <2>4 DEF Stands
  <2> QED BY <2>4, <2>5, <2>6, <2>7 DEF RankOK, t
<1> QED BY <1>4, <1>5, <1>6 DEF f

-----------------------------------------------------------------------------
(* What a rank does on its own.                                              *)

Moving == {"submit", "top", "apply", "frame"}

LocalNext(s) ==
  IF s.pc = "submit" THEN [s EXCEPT !.pc = "top", !.st = "queued"]
  ELSE IF s.pc = "apply" THEN Settled(s, OneToken(Checked(s, Last(s.toks)), s.prev))
  ELSE IF s.pc = "frame" THEN IF LastOne(s) THEN Settled(s, Frame(s)) ELSE Unsent(s, Frame(s))
  ELSE IF s.st = "queued" THEN [s EXCEPT !.st = "waiting"]
  ELSE IF s.st \in {"none", "over"} THEN [s EXCEPT !.pc = "wait"]
  ELSE [s EXCEPT !.pc = "forward"]

\* The ranks' records.
RankInv == rk = [r \in Ranks |-> rk[r]] /\ \A r \in Ranks : RankOK(rk[r])

\* A move of a rank on its own keeps its record in order.
LEMMA LocalNextOK ==
  ASSUME NEW s, RankOK(s), s.pc \in Moving
  PROVE  RankOK(LocalNext(s))
<1>0. Shape(s) /\ Typed(s)
  BY DEF RankOK
<1>1. CASE s.pc = "submit"
  <2>1. RankOK([s EXCEPT !.pc = "top", !.st = "queued"])
    BY <1>1, MoveOK
  <2> QED BY <1>1, <2>1 DEF LocalNext
<1>2. CASE s.pc = "apply"
  BY <1>2, ApplyOK DEF LocalNext
<1>3. CASE s.pc = "frame"
  BY <1>3, FrameOK DEF LocalNext
<1>4. CASE s.pc = "top" /\ s.st = "queued"
  <2>1. RankOK([s EXCEPT !.pc = "top", !.st = "waiting"])
    BY <1>4, MoveOK
  <2>2. [s EXCEPT !.pc = "top", !.st = "waiting"] = [s EXCEPT !.st = "waiting"]
    BY <1>0, <1>4 DEF Shape
  <2> QED BY <1>4, <2>1, <2>2 DEF LocalNext
<1>5. CASE s.pc = "top" /\ s.st \in {"none", "over"}
  <2> DEFINE q == s.st
  <2>0. q = s.st /\ q \in {"none", "over"}
    BY <1>5
  <2> HIDE DEF q
  <2>1. RankOK([s EXCEPT !.pc = "wait", !.st = q])
    BY <1>5, <2>0, MoveOK
  <2>2. [s EXCEPT !.pc = "wait", !.st = q] = [s EXCEPT !.pc = "wait"]
    BY <1>0, <2>0 DEF Shape
  <2> QED BY <1>5, <2>1, <2>2 DEF LocalNext
<1>6. CASE s.pc = "top" /\ s.st \in {"waiting", "running"}
  <2> DEFINE q == s.st
  <2>0. q = s.st /\ q \in {"waiting", "running"}
    BY <1>6
  <2> HIDE DEF q
  <2>1. RankOK([s EXCEPT !.pc = "forward", !.st = q])
    BY <1>6, <2>0, MoveOK
  <2>2. [s EXCEPT !.pc = "forward", !.st = q] = [s EXCEPT !.pc = "forward"]
    BY <1>0, <2>0 DEF Shape
  <2> QED BY <1>6, <2>1, <2>2 DEF LocalNext
<1>7. s.pc \in {"submit", "top", "apply", "frame"} /\ s.st \in Lifes
  BY <1>0 DEF Moving, Typed
<1> QED BY <1>1, <1>2, <1>3, <1>4, <1>5, <1>6, <1>7 DEF Lifes

-----------------------------------------------------------------------------
(* Types and bursts.                                                         *)

Https == {"none", "queued", "open", "ended"}

HolderInv ==
  /\ holder = [j \in AllJobs |-> [http |-> holder[j].http, done |-> holder[j].done]]
  /\ \A j \in AllJobs : holder[j].http \in Https

StreamInv ==
  /\ stream = [j \in AllJobs |-> [text |-> stream[j].text, fin |-> stream[j].fin]]
  /\ \A j \in AllJobs : stream[j].fin \in Fins

\* A client's job is queued once.
QueueInv ==
  /\ queue \in Seq(Jobs)
  /\ \A i, k \in 1..Len(queue) : queue[i] = queue[k] => i = k
  /\ \A i \in 1..Len(queue) : holder[queue[i]].http # "none"

TPInv == RankInv /\ HolderInv /\ StreamInv /\ QueueInv

\* The record of one rank changes.
LEMMA OneRank ==
  ASSUME RankInv, NEW r \in Ranks, NEW t, RankOK(t), rk' = [rk EXCEPT ![r] = t]
  PROVE  RankInv'
  BY DEF RankInv

\* _emit keeps the types.
LEMMA EmitOK ==
  ASSUME StreamInv, NEW r, NEW j \in AllJobs, NEW text, NEW fin \in Fins, Emit(r, j, text, fin)
  PROVE  StreamInv'
<1>1. CASE stream' = stream
  BY <1>1 DEF StreamInv
<1>2. CASE stream' # stream
  <2> DEFINE t == stream[j].text \o text
  <2>1. stream' = [stream EXCEPT ![j] = [text |-> t, fin |-> fin]]
    <3>1. stream' = [stream EXCEPT ![j].text = @ \o text, ![j].fin = fin]
      BY <1>2 DEF Emit
    <3>2. stream' = [stream EXCEPT ![j].text = t, ![j].fin = fin]
      BY <3>1
    <3> HIDE DEF t
    <3> DEFINE g == stream[j]
    <3>3. j \in DOMAIN stream /\ g = [text |-> g.text, fin |-> g.fin]
      BY DEF StreamInv
    <3>4. stream' = [stream EXCEPT ![j] = [g EXCEPT !.text = t, !.fin = fin]]
      BY <3>2, <3>3
    <3> HIDE DEF g
    <3>5. [g EXCEPT !.text = t, !.fin = fin] = [text |-> t, fin |-> fin]
      <4> DEFINE u == [g EXCEPT !.text = t, !.fin = fin]
      <4>1. u = [g EXCEPT !.text = t, !.fin = fin]
        OBVIOUS
      <4> HIDE DEF u
      <4>2. u = [text |-> t, fin |-> fin]
        BY <3>3, <4>1
      <4> QED BY <4>2 DEF u
    <3> QED BY <3>4, <3>5
  <2> HIDE DEF t
  <2> QED BY <2>1 DEF StreamInv
<1> QED BY <1>1, <1>2

\* A step on rank r between two collectives is LocalNext, unless it is one of
\* those with which rank 0 goes its own way.
LEMMA RankSteps ==
  ASSUME RankInv, NEW r \in Ranks, RankStep(r)
  PROVE  /\ \/ rk[r].pc \in Moving /\ rk' = [rk EXCEPT ![r] = LocalNext(rk[r])]
            \/ /\ Workers # {} => alone'
               /\ \E t : RankOK(t) /\ rk' = [rk EXCEPT ![r] = t]
         /\ alone => alone'
<1> DEFINE s == rk[r]
<1>0. RankOK(s) /\ Shape(s) /\ r \in DOMAIN rk
  BY DEF RankInv, RankOK
<1>1. CASE Submit(r)
  <2>1. CASE r = 0 /\ local.draining
    <3>1. rk' = [rk EXCEPT ![r] = [s EXCEPT !.pc = "wait", !.st = "none"]]
      BY <1>0, <1>1, <2>1 DEF Submit
    <3>2. RankOK([s EXCEPT !.pc = "wait", !.st = "none"])
      <4> HIDE DEF s
      <4>1. s.pc = "submit"
        BY <1>1 DEF Submit, s
      <4> QED BY <1>0, <4>1, MoveOK
    <3> QED BY <1>1, <2>1, <3>1, <3>2 DEF Submit
  <2>2. CASE ~ (r = 0 /\ local.draining)
    <3>1. rk' = [rk EXCEPT ![r] = [s EXCEPT !.pc = "top", !.st = "queued"]]
      BY <1>0, <1>1, <2>2 DEF Submit
    <3> QED BY <1>1, <3>1 DEF Submit, LocalNext, Moving
  <2> QED BY <2>1, <2>2
<1>2. CASE Admit(r)
  <2>1. CASE r = 0 /\ rk[r].job \in local.cancelled
    <3>1. rk' = [rk EXCEPT ![r] = [s EXCEPT !.st = "none"]]
      BY <1>0, <1>2, <2>1 DEF Admit
    <3>2. RankOK([s EXCEPT !.st = "none"])
      <4>1. s.pc = "top" /\ s.st = "queued"
        BY <1>2 DEF Admit
      <4> HIDE DEF s
      <4>2. RankOK([s EXCEPT !.pc = "top", !.st = "none"])
        BY <1>0, <4>1, MoveOK
      <4>3. [s EXCEPT !.pc = "top", !.st = "none"] = [s EXCEPT !.st = "none"]
        BY <1>0, <4>1 DEF Shape
      <4> QED BY <4>2, <4>3
    <3> QED BY <1>2, <2>1, <3>1, <3>2 DEF Admit
  <2>2. CASE ~ (r = 0 /\ rk[r].job \in local.cancelled)
    <3>1. rk' = [rk EXCEPT ![r] = [s EXCEPT !.st = "waiting"]]
      BY <1>0, <1>2, <2>2 DEF Admit
    <3> QED BY <1>2, <3>1 DEF Admit, LocalNext, Moving
  <2> QED BY <2>1, <2>2
<1>3. CASE PumpReturns(r)
  <2>1. rk' = [rk EXCEPT ![r] = [s EXCEPT !.pc = "wait"]]
    BY <1>0, <1>3 DEF PumpReturns
  <2> QED BY <1>3, <2>1 DEF PumpReturns, LocalNext, Moving
<1>4. CASE EnterForward(r)
  <2>1. rk' = [rk EXCEPT ![r] = [s EXCEPT !.pc = "forward"]]
    BY <1>0, <1>4 DEF EnterForward
  <2> QED BY <1>4, <2>1 DEF EnterForward, Live, LocalNext, Moving
<1>5. CASE ApplyOne(r)
  BY <1>5 DEF ApplyOne, Settle, LocalNext, Moving
<1>6. CASE ApplyBurst(r)
  <2>1. s.pc = "frame"
    BY <1>6 DEF ApplyBurst
  <2>2. CASE LastOne(s)
    <3>1. rk' = [rk EXCEPT ![r] = Settled(s, Frame(s))] /\ alone' = alone
      BY <1>6, <2>2 DEF ApplyBurst, Settle, LastOne, Frame
    <3> QED BY <2>1, <2>2, <3>1 DEF LocalNext, Moving
  <2>3. CASE ~ LastOne(s)
    <3> DEFINE f == Frame(s)
    <3>1. /\ rk' = [rk EXCEPT ![r].toks = Tail(@), ![r].acc = f.text, ![r].prev = f.prev]
          /\ alone' = alone
      BY <1>6, <2>3 DEF ApplyBurst, LastOne, Frame
    <3> HIDE DEF f
    <3>2. rk' = [rk EXCEPT ![r] = Unsent(s, f)]
      BY <1>0, <3>1 DEF Unsent
    <3> QED BY <2>1, <2>3, <3>1, <3>2 DEF LocalNext, Moving, f
  <2> QED BY <2>2, <2>3
<1> QED BY <1>1, <1>2, <1>3, <1>4, <1>5, <1>6 DEF RankStep

\* One entry of the holder changes, and not back to "none".
LEMMA OneHolder ==
  ASSUME HolderInv, NEW j \in AllJobs, NEW h \in Https \ {"none"}, NEW d,
         \/ holder' = [holder EXCEPT ![j].http = h, ![j].done = d]
         \/ holder' = [holder EXCEPT ![j].http = h]
         \/ holder' = [holder EXCEPT ![j].done = d]
         \/ holder' = holder
  PROVE  /\ HolderInv'
         /\ \A k \in AllJobs : holder[k].http # "none" => holder'[k].http # "none"
<1> DEFINE g == holder[j]
<1>1. j \in DOMAIN holder /\ g = [http |-> g.http, done |-> g.done] /\ g.http \in Https
  BY DEF HolderInv
<1>2. ASSUME NEW x \in Https, NEW y, g.http # "none" => x # "none",
             holder' = [holder EXCEPT ![j] = [http |-> x, done |-> y]]
      PROVE  /\ HolderInv'
             /\ \A k \in AllJobs : holder[k].http # "none" => holder'[k].http # "none"
  BY <1>2 DEF HolderInv
<1>3. CASE holder' = [holder EXCEPT ![j].http = h, ![j].done = d]
  <2>1. holder' = [holder EXCEPT ![j] = [g EXCEPT !.http = h, !.done = d]]
    BY <1>1, <1>3
  <2>2. [g EXCEPT !.http = h, !.done = d] = [http |-> h, done |-> d]
    <3> HIDE DEF g
    <3> DEFINE u == [g EXCEPT !.http = h, !.done = d]
    <3>1. u = [g EXCEPT !.http = h, !.done = d]
      OBVIOUS
    <3> HIDE DEF u
    <3>2. u = [http |-> h, done |-> d]
      BY <1>1, <3>1
    <3> QED BY <3>2 DEF u
  <2> QED BY <1>2, <2>1, <2>2
<1>4. CASE holder' = [holder EXCEPT ![j].http = h]
  <2>1. holder' = [holder EXCEPT ![j] = [g EXCEPT !.http = h]]
    BY <1>1, <1>4
  <2>2. [g EXCEPT !.http = h] = [http |-> h, done |-> g.done]
    <3> HIDE DEF g
    <3> QED BY <1>1
  <2> QED BY <1>2, <2>1, <2>2
<1>5. CASE holder' = [holder EXCEPT ![j].done = d]
  <2>1. holder' = [holder EXCEPT ![j] = [g EXCEPT !.done = d]]
    BY <1>1, <1>5
  <2>2. [g EXCEPT !.done = d] = [http |-> g.http, done |-> d]
    <3> HIDE DEF g
    <3> QED BY <1>1
  <2> QED BY <1>1, <1>2, <2>1, <2>2
<1>6. CASE holder' = holder
  BY <1>6 DEF HolderInv
<1> QED BY <1>3, <1>4, <1>5, <1>6

\* A step that leaves the queue alone.
LEMMA SameQueue ==
  ASSUME QueueInv, queue' = queue,
         \A k \in AllJobs : holder[k].http # "none" => holder'[k].http # "none"
  PROVE  QueueInv'
<1>1. \A i \in 1..Len(queue) : queue[i] \in AllJobs
  BY DEF QueueInv, AllJobs
<1> QED BY <1>1 DEF QueueInv

\* The holder after a step of rank r for its job.
LEMMA RankHolder ==
  ASSUME RankInv, HolderInv, QueueInv, queue' = queue, NEW r \in Ranks,
         NEW h \in Https \ {"none"}, NEW d,
         \/ holder' = holder
         \/ holder' = [holder EXCEPT ![rk[r].job].http = h, ![rk[r].job].done = d]
         \/ holder' = [holder EXCEPT ![rk[r].job].done = d]
  PROVE  HolderInv' /\ QueueInv'
<1> DEFINE j == rk[r].job
<1>1. j \in AllJobs
  BY DEF RankInv, RankOK, Typed
<1> HIDE DEF j
<1>2. \/ holder' = holder
      \/ holder' = [holder EXCEPT ![j].http = h, ![j].done = d]
      \/ holder' = [holder EXCEPT ![j].done = d]
  BY DEF j
<1>3. /\ HolderInv'
      /\ \A k \in AllJobs : holder[k].http # "none" => holder'[k].http # "none"
  BY <1>1, <1>2, OneHolder
<1> QED BY <1>3, SameQueue

\* What a rank's own step does to holder, stream and queue.
LEMMA RankStepRest ==
  ASSUME TPInv, NEW r \in Ranks, RankStep(r)
  PROVE  HolderInv' /\ StreamInv' /\ QueueInv'
<1> DEFINE j == rk[r].job
<1>0. RankInv /\ HolderInv /\ StreamInv /\ QueueInv /\ RankOK(rk[r]) /\ j \in AllJobs
  BY DEF TPInv, RankInv, RankOK, Typed
<1>s. ASSUME stream' = stream PROVE StreamInv'
  BY <1>0, <1>s DEF StreamInv
<1>h. ASSUME holder' = holder, queue' = queue PROVE HolderInv' /\ QueueInv'
  BY <1>0, <1>h DEF HolderInv, QueueInv
<1>1. CASE Submit(r)
  <2> DEFINE d == r = 0 /\ local.draining
             h == IF d THEN "ended" ELSE "open"
  <2>1. \/ holder' = holder
        \/ holder' = [holder EXCEPT ![rk[r].job].http = h, ![rk[r].job].done = d]
    BY <1>1 DEF Submit
  <2>2. h \in Https \ {"none"}
    BY DEF Https
  <2>3. queue' = queue /\ stream' = stream
    BY <1>1 DEF Submit
  <2> HIDE DEF h, d
  <2> QED BY <1>0, <1>s, <2>1, <2>2, <2>3, RankHolder
<1>2. CASE Admit(r)
  BY <1>2, <1>s, <1>h DEF Admit
<1>3. CASE PumpReturns(r)
  <2>1. \/ holder' = holder
        \/ holder' = [holder EXCEPT ![rk[r].job].done = TRUE]
    BY <1>3 DEF PumpReturns
  <2>2. queue' = queue /\ stream' = stream /\ "open" \in Https \ {"none"}
    BY <1>3 DEF PumpReturns, Https
  <2> QED BY <1>0, <1>s, <2>1, <2>2, RankHolder
<1>4. CASE EnterForward(r)
  BY <1>4, <1>s, <1>h DEF EnterForward
<1>5. CASE ApplyOne(r)
  <2> DEFINE f == OneToken(Checked(rk[r], Last(rk[r].toks)), rk[r].prev)
  <2>1. Emit(r, j, f.text, f.fin) /\ queue' = queue /\ holder' = holder
    BY <1>5 DEF ApplyOne, Settle
  <2>2. f.fin \in Fins
    <3>1. rk[r].pc = "apply"
      BY <1>5 DEF ApplyOne
    <3> QED BY <1>0, <3>1, ApplyOK
  <2> HIDE DEF f, j
  <2>3. StreamInv'
    BY <1>0, <2>1, <2>2, EmitOK
  <2> QED BY <1>h, <2>1, <2>3
<1>6. CASE ApplyBurst(r)
  <2> DEFINE f == Frame(rk[r])
  <2>1. queue' = queue /\ holder' = holder /\ (stream' = stream \/ Emit(r, j, f.text, f.fin))
    BY <1>6 DEF ApplyBurst, Settle, Frame
  <2>2. f.fin \in Fins
    <3>1. rk[r].pc = "frame"
      BY <1>6 DEF ApplyBurst
    <3> QED BY <1>0, <3>1, FrameOK
  <2> HIDE DEF f, j
  <2>3. StreamInv'
    BY <1>0, <1>s, <2>1, <2>2, EmitOK
  <2> QED BY <1>h, <2>1, <2>3
<1> QED BY <1>1, <1>2, <1>3, <1>4, <1>5, <1>6 DEF RankStep

\* A list without repetitions is no longer than the set it draws on.
LEMMA DistinctLength ==
  ASSUME NEW S, IsFiniteSet(S), NEW q \in Seq(S),
         \A i, k \in 1..Len(q) : q[i] = q[k] => i = k
  PROVE  Len(q) <= Cardinality(S)
<1> DEFINE n == Len(q)
<1>1. n \in Nat /\ IsFiniteSet(1..n) /\ Cardinality(1..n) = n
  <2>1. n \in Nat
    OBVIOUS
  <2> HIDE DEF n
  <2>2. 1 \in Int /\ n \in Int /\ (1 > n => n = 0) /\ n - 1 + 1 = n
    BY <2>1
  <2> QED BY <2>1, <2>2, FS_Interval
<1>2. q \in [1..n -> S]
  OBVIOUS
<1>3. q \in Injection(1..n, S)
  BY <1>2 DEF Injection, IsInjective
<1> HIDE DEF n
<1>5. Cardinality(1..n) <= Cardinality(S)
  <2> DEFINE I == 1..n
  <2>1. q \in Injection(I, S)
    BY <1>3
  <2> HIDE DEF I
  <2>2. Cardinality(I) <= Cardinality(S)
    BY <2>1, FS_Injection
  <2> QED BY <2>2 DEF I
<1>6. n <= Cardinality(S)
  BY <1>1, <1>5
<1> QED BY <1>6 DEF n

\* The start satisfies the invariant.
LEMMA TPInvInit == InitTP => TPInv
<1> SUFFICES ASSUME InitTP PROVE TPInv
  OBVIOUS
<1>1. RankInv
  <2>1. rk = [r \in Ranks |-> IF r = 0 THEN [Idle EXCEPT !.pc = "bcast"] ELSE Idle]
    BY DEF InitTP
  <2>2. RankOK([Idle EXCEPT !.pc = "bcast"]) /\ RankOK(Idle)
    BY IdleOK DEF AllJobs
  <2> QED BY <2>1, <2>2 DEF RankInv
<1>2. HolderInv
  <2>1. holder = [j \in AllJobs |-> [http |-> IF j = Warm THEN "queued" ELSE "none",
                                      done |-> FALSE]]
    BY DEF InitTP
  <2> QED BY <2>1 DEF HolderInv, Https
<1>3. StreamInv
  BY DEF InitTP, StreamInv, Fins
<1>4. QueueInv
  <2>1. queue = <<>>
    BY DEF InitTP
  <2> QED BY <2>1 DEF QueueInv
<1> QED BY <1>1, <1>2, <1>3, <1>4 DEF TPInv

\* The steps of the HTTP side and of the CUDA thread.
LEMMA FrontOK ==
  ASSUME TPInv,
         \/ \E j \in Jobs : Enqueue(j) \/ CancelLocal(j)
         \/ \E j \in AllJobs : StreamEnds(j)
         \/ BeginDrain \/ TakeJob
  PROVE  TPInv'
<1>0. RankInv /\ HolderInv /\ StreamInv /\ QueueInv /\ 0 \in Ranks /\ RankOK(rk[0])
  BY DEF TPInv, RankInv, Ranks
<1>r. ASSUME rk' = rk PROVE RankInv'
  BY <1>0, <1>r DEF RankInv
<1>s. ASSUME stream' = stream PROVE StreamInv'
  BY <1>0, <1>s DEF StreamInv
<1>h. ASSUME holder' = holder PROVE HolderInv'
  BY <1>0, <1>h DEF HolderInv
<1>q. ASSUME holder' = holder, queue' = queue PROVE QueueInv'
  BY <1>0, <1>q DEF QueueInv
<1>1. ASSUME NEW j \in Jobs, Enqueue(j) PROVE TPInv'
  <2>0. j \in AllJobs
    BY DEF AllJobs
  <2>1. holder' = [holder EXCEPT ![j].http = "queued"] /\ "queued" \in Https \ {"none"}
    BY <1>1 DEF Enqueue, Https
  <2>2. /\ HolderInv'
        /\ \A k \in AllJobs : holder[k].http # "none" => holder'[k].http # "none"
    BY <1>0, <2>0, <2>1, OneHolder
  <2>3. queue' = Append(queue, j) /\ holder[j].http = "none" /\ rk' = rk /\ stream' = stream
    BY <1>1 DEF Enqueue
  <2>4. holder'[j].http # "none"
    BY <1>0, <2>0, <2>1 DEF HolderInv
  <2>5. QueueInv'
    <3> DEFINE p == queue
               n == Append(p, j)
    <3>1. /\ p \in Seq(Jobs) /\ \A i, k \in 1..Len(p) : p[i] = p[k] => i = k
          /\ \A i \in 1..Len(p) : p[i] \in AllJobs /\ holder[p[i]].http # "none" /\ p[i] # j
      BY <1>0, <2>3 DEF QueueInv, AllJobs
    <3>2. /\ n \in Seq(Jobs) /\ Len(p) \in Nat /\ Len(n) = Len(p) + 1 /\ n[Len(n)] = j
          /\ \A i \in 1..Len(p) : n[i] = p[i]
      BY <3>1
    <3> HIDE DEF n
    <3>3. \A i \in 1..Len(n) : i \in 1..Len(p) \/ i = Len(n)
      BY <3>2
    <3>4. \A i, k \in 1..Len(n) : n[i] = n[k] => i = k
      BY <3>1, <3>2, <3>3
    <3>5. \A i \in 1..Len(n) : holder'[n[i]].http # "none"
      BY <2>2, <2>4, <3>1, <3>2, <3>3
    <3>6. queue' = n
      BY <2>3 DEF n
    <3> QED BY <3>2, <3>4, <3>5, <3>6 DEF QueueInv
  <2> QED BY <1>r, <1>s, <2>2, <2>3, <2>5 DEF TPInv
<1>2. ASSUME NEW j \in Jobs, CancelLocal(j) PROVE TPInv'
  <2>1. holder' = holder /\ queue' = queue
    BY <1>2 DEF CancelLocal
  <2>2. StreamInv'
    <3>1. j \in AllJobs /\ "cancelled" \in Fins /\ (Emit(0, j, <<>>, "cancelled") \/ stream' = stream)
      BY <1>2 DEF CancelLocal, AllJobs, Fins
    <3> QED BY <1>0, <1>s, <3>1, EmitOK
  <2>3. RankInv'
    <3>1. CASE rk[0].job = j /\ Live(0)
      <4> DEFINE s == rk[0]
      <4>1. rk' = [rk EXCEPT ![0] = [s EXCEPT !.st = "over"]]
        BY <1>0, <1>2, <3>1 DEF CancelLocal
      <4>2. s.st \in {"waiting", "running"} /\ RankOK(s)
        BY <1>0, <3>1 DEF Live
      <4> HIDE DEF s
      <4>3. RankOK([s EXCEPT !.st = "over"])
        <5> DEFINE p == s.pc
        <5>1. p = s.pc
          OBVIOUS
        <5> HIDE DEF p
        <5>2. RankOK([s EXCEPT !.pc = p, !.st = "over"])
          BY <4>2, <5>1, MoveOK
        <5>3. [s EXCEPT !.pc = p, !.st = "over"] = [s EXCEPT !.st = "over"]
          BY <4>2, <5>1 DEF RankOK, Shape
        <5> QED BY <5>2, <5>3
      <4> QED BY <1>0, <4>1, <4>3, OneRank
    <3>2. CASE ~ (rk[0].job = j /\ Live(0))
      BY <1>2, <1>r, <3>2 DEF CancelLocal
    <3> QED BY <3>1, <3>2
  <2> QED BY <1>h, <1>q, <2>1, <2>2, <2>3 DEF TPInv
<1>3. ASSUME NEW j \in AllJobs, StreamEnds(j) PROVE TPInv'
  <2>1. holder' = [holder EXCEPT ![j].http = "ended"] /\ "ended" \in Https \ {"none"}
    BY <1>3 DEF StreamEnds, Https
  <2>2. /\ HolderInv'
        /\ \A k \in AllJobs : holder[k].http # "none" => holder'[k].http # "none"
    BY <1>0, <2>1, OneHolder
  <2>3. queue' = queue /\ rk' = rk /\ stream' = stream
    BY <1>3 DEF StreamEnds
  <2> QED BY <1>0, <1>r, <1>s, <2>2, <2>3, SameQueue DEF TPInv
<1>4. CASE BeginDrain
  BY <1>4, <1>r, <1>s, <1>h, <1>q DEF BeginDrain, TPInv
<1>5. CASE TakeJob
  <2>1. /\ queue # <<>> /\ queue' = Tail(queue) /\ holder' = holder /\ stream' = stream
        /\ rk' = [rk EXCEPT ![0] = [Idle EXCEPT !.pc = "bcast", !.job = Head(queue)]]
    BY <1>5 DEF TakeJob
  <2>2. Head(queue) \in AllJobs
    BY <1>0, <2>1 DEF QueueInv, AllJobs
  <2>3. RankInv'
    <3> DEFINE j == Head(queue)
    <3> HIDE DEF j
    <3>1. RankOK([Idle EXCEPT !.pc = "bcast", !.job = j])
      BY <2>2, IdleOK DEF j
    <3>2. rk' = [rk EXCEPT ![0] = [Idle EXCEPT !.pc = "bcast", !.job = j]]
      BY <2>1 DEF j
    <3> QED BY <1>0, <3>1, <3>2, OneRank
  <2>4. QueueInv'
    <3> DEFINE p == queue
               n == Tail(p)
    <3>1. /\ p \in Seq(Jobs) /\ \A i, k \in 1..Len(p) : p[i] = p[k] => i = k
          /\ \A i \in 1..Len(p) : holder[p[i]].http # "none"
      BY <1>0 DEF QueueInv
    <3>2. /\ n \in Seq(Jobs) /\ Len(p) \in Nat /\ Len(n) = Len(p) - 1
          /\ \A i \in 1..Len(n) : n[i] = p[i + 1]
      BY <2>1, <3>1
    <3> HIDE DEF n
    <3>3. \A i \in 1..Len(n) : i + 1 \in 1..Len(p) /\ i \in Int
      BY <3>2
    <3>4. \A i, k \in 1..Len(n) : n[i] = n[k] => i = k
      <4> TAKE i, k \in 1..Len(n)
      <4> HAVE n[i] = n[k]
      <4>1. i + 1 = k + 1
        BY <3>1, <3>2, <3>3
      <4> QED BY <3>3, <4>1
    <3>5. \A i \in 1..Len(n) : holder'[n[i]].http # "none"
      BY <2>1, <3>1, <3>2, <3>3
    <3>6. queue' = n
      BY <2>1 DEF n
    <3> QED BY <3>2, <3>4, <3>5, <3>6 DEF QueueInv
  <2> QED BY <1>h, <1>s, <2>1, <2>3, <2>4 DEF TPInv
<1> QED BY <1>1, <1>2, <1>3, <1>4, <1>5

\* The steps of all ranks at once.
LEMMA TogetherOK ==
  ASSUME TPInv, Shutdown \/ Collective
  PROVE  TPInv'
<1>0. RankInv /\ HolderInv /\ StreamInv /\ QueueInv /\ 0 \in Ranks
  BY DEF TPInv, Ranks
<1>1. \A r \in Ranks : RankOK(rk[r]) /\ Shape(rk[r]) /\ rk[r].job \in AllJobs
  BY <1>0 DEF RankInv, RankOK, Typed
<1>s. ASSUME stream' = stream PROVE StreamInv'
  BY <1>0, <1>s DEF StreamInv
<1>h. ASSUME holder' = holder, queue' = queue PROVE HolderInv' /\ QueueInv'
  BY <1>0, <1>h DEF HolderInv, QueueInv
<1>d. ASSUME NEW r \in Ranks PROVE RankOK([rk[r] EXCEPT !.pc = "down"])
  <2> DEFINE s == rk[r]
             q == s.st
  <2>1. RankOK(s) /\ Shape(s) /\ q = s.st
    BY <1>1
  <2> HIDE DEF s, q
  <2>2. RankOK([s EXCEPT !.pc = "down", !.st = q])
    BY <2>1, MoveOK
  <2>3. [s EXCEPT !.pc = "down", !.st = q] = [s EXCEPT !.pc = "down"]
    BY <2>1 DEF Shape
  <2> QED BY <2>2, <2>3 DEF s
<1>e. ASSUME rk' = [r \in Ranks |-> [rk[r] EXCEPT !.pc = "down"]] PROVE RankInv'
  <2> DEFINE F(r) == [rk[r] EXCEPT !.pc = "down"]
  <2>1. rk' = [r \in Ranks |-> F(r)] /\ \A r \in Ranks : RankOK(F(r))
    BY <1>d, <1>e
  <2> HIDE DEF F
  <2> QED BY <2>1 DEF RankInv
<1>2. CASE Shutdown
  BY <1>2, <1>e, <1>s, <1>h DEF Shutdown, TPInv
<1>3. CASE Broadcast
  <2> DEFINE j == rk[0].job
             t == [Idle EXCEPT !.pc = "submit", !.job = j]
  <2>1. rk' = [r \in Ranks |-> t]
    BY <1>3 DEF Broadcast
  <2>2. RankOK(t)
    <3>1. j \in AllJobs
      BY <1>0, <1>1
    <3> HIDE DEF j
    <3> QED BY <3>1, IdleOK
  <2>3. RankInv'
    <3> HIDE DEF t
    <3> QED BY <2>1, <2>2 DEF RankInv
  <2> QED BY <1>3, <1>s, <1>h, <2>3 DEF Broadcast, TPInv
<1>4. CASE Forward
  <2>1. PICK tok \in Vocab :
          rk' = [r \in Ranks |-> IF rk[r].pc = "forward" THEN AfterRunBatch(rk[r], tok)
                                 ELSE AfterBurstStep(rk[r], tok)]
    BY <1>4 DEF Forward
  <2> DEFINE F(r) == IF rk[r].pc = "forward" THEN AfterRunBatch(rk[r], tok)
                     ELSE AfterBurstStep(rk[r], tok)
  <2>2. ASSUME NEW r \in Ranks PROVE RankOK(F(r))
    <3>1. CASE rk[r].pc = "forward"
      BY <1>1, <3>1, ForwardOK
    <3>2. CASE rk[r].pc # "forward"
      <4>1. rk[r].pc = "burst"
        BY <1>4, <3>2 DEF Forward, AtForward
      <4> QED BY <1>1, <3>2, <4>1, BurstStepOK
    <3> QED BY <3>1, <3>2
  <2>3. rk' = [r \in Ranks |-> F(r)]
    BY <2>1
  <2>4. RankInv'
    <3> HIDE DEF F
    <3> QED BY <2>2, <2>3 DEF RankInv
  <2> QED BY <1>4, <1>s, <1>h, <2>4 DEF Forward, TPInv
<1>5. CASE ForwardRaises
  <2> DEFINE F(r) == [rk[r] EXCEPT !.pc = "top", !.st = "over"]
  <2>1. rk' = [r \in Ranks |-> F(r)]
    BY <1>5 DEF ForwardRaises
  <2>2. ASSUME NEW r \in Ranks PROVE RankOK(F(r))
    BY <1>1, MoveOK
  <2>3. RankInv'
    <3> HIDE DEF F
    <3> QED BY <2>1, <2>2 DEF RankInv
  <2>4. StreamInv'
    <3> DEFINE j == rk[0].job
    <3>1. j \in AllJobs /\ "error" \in Fins /\ Emit(0, j, <<>>, "error")
      BY <1>0, <1>1, <1>5 DEF ForwardRaises, Fins
    <3> HIDE DEF j
    <3> QED BY <1>0, <3>1, EmitOK
  <2> QED BY <1>5, <1>h, <2>3, <2>4 DEF ForwardRaises, TPInv
<1>6. CASE BurstRaises
  <2>1. /\ holder' = [holder EXCEPT ![rk[0].job].done = TRUE] /\ "open" \in Https \ {"none"}
        /\ queue' = queue /\ stream' = stream
        /\ rk' = [r \in Ranks |-> [rk[r] EXCEPT !.pc = "down"]]
    BY <1>6 DEF BurstRaises, Https
  <2>2. HolderInv' /\ QueueInv'
    BY <1>0, <2>1, RankHolder
  <2> QED BY <1>e, <1>s, <2>1, <2>2 DEF TPInv
<1> QED BY <1>2, <1>3, <1>4, <1>5, <1>6 DEF Collective

\* A rank's own steps.
LEMMA OwnOK ==
  ASSUME TPInv, NEW r \in Ranks, RankStep(r) \/ Expire(r) \/ PumpRaises(r)
  PROVE  TPInv'
<1> DEFINE s == rk[r]
           j == s.job
<1>0. /\ RankInv /\ HolderInv /\ StreamInv /\ QueueInv /\ RankOK(s) /\ Shape(s)
      /\ j \in AllJobs /\ r \in DOMAIN rk
  BY DEF TPInv, RankInv, RankOK, Typed
<1>1. CASE RankStep(r)
  <2>1. HolderInv' /\ StreamInv' /\ QueueInv'
    BY <1>1, RankStepRest
  <2>2. \E t : RankOK(t) /\ rk' = [rk EXCEPT ![r] = t]
    <3>1. CASE rk[r].pc \in Moving /\ rk' = [rk EXCEPT ![r] = LocalNext(rk[r])]
      BY <1>0, <3>1, LocalNextOK
    <3> QED BY <1>0, <1>1, <3>1, RankSteps
  <2> QED BY <1>0, <2>1, <2>2, OneRank DEF TPInv
<1>2. CASE Expire(r)
  <2>1. /\ rk' = [rk EXCEPT ![r] = [s EXCEPT !.st = "over"]] /\ s.pc = "top"
        /\ holder' = holder /\ queue' = queue
        /\ Emit(r, j, <<>>, "timeout") /\ "timeout" \in Fins
    BY <1>0, <1>2 DEF Expire, Fins
  <2>2. RankOK([s EXCEPT !.st = "over"])
    <3> HIDE DEF s
    <3>1. RankOK([s EXCEPT !.pc = "top", !.st = "over"])
      BY <1>0, MoveOK
    <3>2. [s EXCEPT !.pc = "top", !.st = "over"] = [s EXCEPT !.st = "over"]
      BY <1>0, <2>1 DEF Shape
    <3> QED BY <3>1, <3>2
  <2>3. RankInv'
    <3> HIDE DEF s
    <3> QED BY <1>0, <2>1, <2>2, OneRank
  <2>4. StreamInv'
    <3> HIDE DEF j
    <3> QED BY <1>0, <2>1, EmitOK
  <2>5. HolderInv' /\ QueueInv'
    BY <1>0, <2>1 DEF HolderInv, QueueInv
  <2> QED BY <2>3, <2>4, <2>5 DEF TPInv
<1>3. CASE PumpRaises(r)
  <2>1. /\ rk' = [rk EXCEPT ![r] = [s EXCEPT !.pc = "down"]]
        /\ queue' = queue /\ stream' = stream /\ "open" \in Https \ {"none"}
        /\ holder' = holder \/ holder' = [holder EXCEPT ![rk[r].job].done = TRUE]
    BY <1>0, <1>3 DEF PumpRaises, Https
  <2>2. RankOK([s EXCEPT !.pc = "down"])
    <3> HIDE DEF s
    <3> DEFINE q == s.st
    <3>0. q = s.st
      OBVIOUS
    <3> HIDE DEF q
    <3>1. RankOK([s EXCEPT !.pc = "down", !.st = q])
      BY <1>0, <3>0, MoveOK
    <3>2. [s EXCEPT !.pc = "down", !.st = q] = [s EXCEPT !.pc = "down"]
      BY <1>0, <3>0 DEF Shape
    <3> QED BY <3>1, <3>2
  <2>3. RankInv'
    <3> HIDE DEF s
    <3> QED BY <1>0, <2>1, <2>2, OneRank
  <2>4. HolderInv' /\ QueueInv'
    BY <1>0, <2>1, RankHolder
  <2>5. StreamInv'
    BY <1>0, <2>1 DEF StreamInv
  <2> QED BY <2>3, <2>4, <2>5 DEF TPInv
<1> QED BY <1>1, <1>2, <1>3

\* Every step keeps the invariant.
LEMMA TPInvNext == TPInv /\ [NextTP]_tpVars => TPInv'
<1> SUFFICES ASSUME TPInv, [NextTP]_tpVars PROVE TPInv'
  OBVIOUS
<1>1. CASE UNCHANGED tpVars
  BY <1>1 DEF tpVars, TPInv, RankInv, HolderInv, StreamInv, QueueInv
<1>2. CASE NextTP
  BY <1>2, FrontOK, TogetherOK, OwnOK DEF NextTP
<1> QED BY <1>1, <1>2

\* The invariant holds in every reachable state.
LEMMA TPInvAlways == SpecTP => []TPInv
  BY TPInvInit, TPInvNext, PTL DEF SpecTP

\* Every variable keeps its type on every rank, and the CUDA thread's queue is
\* never longer than the clients' jobs.
THEOREM TPTyped == SpecTP => []TPTypeOK
<1>1. TPInv => TPTypeOK
  <2> SUFFICES ASSUME TPInv PROVE TPTypeOK
    OBVIOUS
  <2>1. ASSUME NEW r \in Ranks
        PROVE  /\ rk[r].pc \in PCs /\ rk[r].job \in AllJobs /\ rk[r].left \in 0..Burst - 1
               /\ rk[r].st \in Lifes /\ rk[r].out \in Seq(Vocab) /\ rk[r].toks \in Seq(Vocab)
    BY DEF TPInv, RankInv, RankOK, Typed
  <2>2. queue \in Seq(Jobs) /\ Len(queue) <= Cardinality(Jobs)
    BY DistinctLength, TPAssumption DEF TPInv, QueueInv
  <2>3. \A j \in AllJobs : holder[j].http \in Https /\ stream[j].fin \in Fins
    BY DEF TPInv, HolderInv, StreamInv
  <2> QED BY <2>1, <2>2, <2>3 DEF TPTypeOK, PCs, Lifes, Https, Fins
<1> QED BY <1>1, TPInvAlways, PTL

\* K/V stays one token behind the output and max_tokens is kept, on every rank and
\* through bursts, whatever the burst size, the limits, the stop string and the
\* tokens.
THEOREM BurstsInStep == SpecTP => []BurstsExact
<1>1. TPInv => BurstsExact
  <2> SUFFICES ASSUME TPInv PROVE BurstsExact
    OBVIOUS
  <2>1. \A r \in Ranks : Counts(rk[r])
    BY DEF TPInv, RankInv, RankOK
  <2> QED BY <2>1 DEF BurstsExact, KvInStep, LimitKept, Counts
<1> QED BY <1>1, TPInvAlways, PTL

-----------------------------------------------------------------------------
(* Lockstep.                                                                 *)

\* p is a run of one rank between two collectives, every rank stands on it, and
\* rank 0 may have taken the next job at its end.
OnPath(n, p) ==
  /\ \A i \in 0..n - 1 : p[i].pc \in Moving /\ p[i + 1] = LocalNext(p[i])
  /\ \A r \in Ranks : \/ \E i \in 0..n : rk[r] = p[i]
                      \/ r = 0 /\ rk[0].pc = "bcast" /\ p[n].pc = "wait"

Together == ~ alone /\ Workers # {} => \E n \in Nat : \E p : OnPath(n, p)

\* A rank that cannot move on its own stands at the end of the path.
LEMMA AtEnd ==
  ASSUME NEW n \in Nat, NEW p, OnPath(n, p), NEW r \in Ranks,
         rk[r].pc \notin Moving, rk[r].pc # "bcast"
  PROVE  rk[r] = p[n]
<1>1. PICK i \in 0..n : rk[r] = p[i]
  BY DEF OnPath
<1>2. i \in 0..n - 1 => p[i].pc \in Moving
  BY DEF OnPath
<1>3. i = n
  BY <1>1, <1>2
<1> QED BY <1>1, <1>3

\* One rank moves along the path, or makes it longer.
LEMMA AlongPath ==
  ASSUME RankInv, NEW n \in Nat, NEW p, OnPath(n, p), NEW r \in Ranks,
         rk[r].pc \in Moving, rk' = [rk EXCEPT ![r] = LocalNext(rk[r])]
  PROVE  \E m \in Nat : \E q : OnPath(m, q)'
<1>1. PICK i \in 0..n : rk[r] = p[i]
  BY DEF OnPath, Moving
<1>2. /\ rk'[r] = LocalNext(p[i]) /\ \A x \in Ranks : x # r => rk'[x] = rk[x]
  BY <1>1 DEF RankInv
<1>3. CASE i \in 0..n - 1
  <2>1. p[i + 1] = LocalNext(p[i]) /\ i + 1 \in 0..n
    BY <1>3 DEF OnPath
  <2>2. ASSUME NEW x \in Ranks
        PROVE  (\E k \in 0..n : rk'[x] = p[k]) \/ (x = 0 /\ rk'[0].pc = "bcast" /\ p[n].pc = "wait")
    <3>1. CASE x = r
      BY <1>2, <2>1, <3>1
    <3>2. CASE x # r
      <4>1. rk'[x] = rk[x]
        BY <1>2, <3>2
      <4> QED BY <4>1 DEF OnPath
    <3> QED BY <3>1, <3>2
  <2>3. OnPath(n, p)'
    BY <2>2 DEF OnPath
  <2> QED BY <2>3
<1>4. CASE i = n
  <2> DEFINE q == [k \in 0..n + 1 |-> IF k <= n THEN p[k] ELSE LocalNext(p[n])]
  <2>1. (\A k \in 0..n : q[k] = p[k]) /\ q[n + 1] = LocalNext(p[n]) /\ n + 1 \in Nat
    OBVIOUS
  <2> HIDE DEF q
  <2>2. p[n].pc \in Moving /\ p[n].pc # "wait"
    BY <1>1, <1>4 DEF Moving
  <2>3. ASSUME NEW k \in 0..(n + 1) - 1 PROVE q[k].pc \in Moving /\ q[k + 1] = LocalNext(q[k])
    <3>1. CASE k = n
      BY <2>1, <2>2, <3>1
    <3>2. CASE k # n
      <4>1. k \in 0..n - 1 /\ k \in 0..n /\ k + 1 \in 0..n
        BY <3>2
      <4>2. p[k].pc \in Moving /\ p[k + 1] = LocalNext(p[k])
        BY <4>1 DEF OnPath
      <4> QED BY <2>1, <4>1, <4>2
    <3> QED BY <3>1, <3>2
  <2>4. ASSUME NEW x \in Ranks PROVE \E k \in 0..n + 1 : rk'[x] = q[k]
    <3>1. CASE x = r
      <4>1. n + 1 \in 0..n + 1 /\ rk'[x] = q[n + 1]
        BY <1>2, <1>4, <2>1, <3>1
      <4> QED BY <4>1
    <3>2. CASE x # r
      <4>1. PICK k \in 0..n : rk[x] = p[k]
        BY <2>2 DEF OnPath
      <4>2. k \in 0..n + 1 /\ rk'[x] = q[k]
        BY <1>2, <2>1, <3>2, <4>1
      <4> QED BY <4>2
    <3> QED BY <3>1, <3>2
  <2>5. OnPath(n + 1, q)'
    BY <2>3, <2>4 DEF OnPath
  <2> QED BY <2>1, <2>5
<1> QED BY <1>3, <1>4

\* No step breaks the ranks apart without the history variable saying so.
LEMMA TogetherNext ==
  ASSUME TPInv, Together, [NextTP]_tpVars
  PROVE  Together'
<1> SUFFICES ASSUME ~ alone', Workers # {}
             PROVE  \E m \in Nat : \E q : OnPath(m, q)'
  BY DEF Together
<1>0. RankInv /\ 0 \in Ranks
  BY DEF TPInv, Ranks
<1>u. ASSUME rk' = rk, ~ alone PROVE \E m \in Nat : \E q : OnPath(m, q)'
  <2>1. PICK n \in Nat : \E p : OnPath(n, p)
    BY <1>u DEF Together
  <2>2. PICK p : OnPath(n, p)
    BY <2>1
  <2>3. OnPath(n, p)'
    BY <1>u, <2>2 DEF OnPath
  <2> QED BY <2>3
<1>z. ASSUME NEW t, \A r \in Ranks : rk'[r] = t
      PROVE  \E m \in Nat : \E q : OnPath(m, q)'
  <2> DEFINE p == [i \in {0} |-> t]
  <2>1. 0..0 = {0} /\ 0..0 - 1 = {} /\ p[0] = t
    OBVIOUS
  <2> HIDE DEF p
  <2>2. OnPath(0, p)'
    BY <1>z, <2>1 DEF OnPath
  <2> QED BY <2>2
<1>e. ASSUME ~ alone, NEW S, S \cap (Moving \cup {"bcast"}) = {}, \A r \in Ranks : rk[r].pc \in S
      PROVE  \A r \in Ranks : rk[r] = rk[0]
  <2>1. PICK n \in Nat : \E p : OnPath(n, p)
    BY <1>e DEF Together
  <2>2. PICK p : OnPath(n, p)
    BY <2>1
  <2>3. \A r \in Ranks : rk[r] = p[n]
    <3>1. \A r \in Ranks : rk[r].pc \notin Moving /\ rk[r].pc # "bcast"
      BY <1>e
    <3> QED BY <2>2, <3>1, AtEnd
  <2> QED BY <1>0, <2>3
<1>1. CASE UNCHANGED tpVars
  BY <1>1, <1>u DEF tpVars
<1>2. ASSUME NEW j \in Jobs, Enqueue(j) PROVE \E m \in Nat : \E q : OnPath(m, q)'
  BY <1>2, <1>u DEF Enqueue
<1>3. ASSUME NEW j \in Jobs, CancelLocal(j) PROVE \E m \in Nat : \E q : OnPath(m, q)'
  BY <1>3, <1>u DEF CancelLocal
<1>4. ASSUME NEW j \in AllJobs, StreamEnds(j) PROVE \E m \in Nat : \E q : OnPath(m, q)'
  BY <1>4, <1>u DEF StreamEnds
<1>5. CASE BeginDrain
  BY <1>5, <1>u DEF BeginDrain
<1>6. CASE TakeJob
  <2>1. ~ alone /\ rk[0].pc = "wait"
    BY <1>6 DEF TakeJob
  <2>2. PICK n \in Nat : \E p : OnPath(n, p)
    BY <2>1 DEF Together
  <2>3. PICK p : OnPath(n, p)
    BY <2>2
  <2>4. p[n].pc = "wait"
    <3>1. rk[0] = p[n]
      BY <1>0, <2>1, <2>3, AtEnd DEF Moving
    <3> QED BY <2>1, <3>1
  <2>5. /\ rk'[0].pc = "bcast" /\ \A x \in Ranks : x # 0 => rk'[x] = rk[x]
    <3> DEFINE j == Head(queue)
               t == [Idle EXCEPT !.pc = "bcast", !.job = j]
    <3>1. rk' = [rk EXCEPT ![0] = t]
      BY <1>6 DEF TakeJob
    <3>2. t.pc = "bcast"
      <4> HIDE DEF j
      <4> QED BY DEF Idle
    <3> HIDE DEF t
    <3> QED BY <1>0, <3>1, <3>2 DEF RankInv
  <2>6. ASSUME NEW x \in Ranks
        PROVE  (\E k \in 0..n : rk'[x] = p[k]) \/ (x = 0 /\ rk'[0].pc = "bcast" /\ p[n].pc = "wait")
    <3>1. CASE x = 0
      BY <2>4, <2>5, <3>1
    <3>2. CASE x # 0
      <4>1. rk'[x] = rk[x]
        BY <2>5, <3>2
      <4> QED BY <2>3, <3>2, <4>1 DEF OnPath
    <3> QED BY <3>1, <3>2
  <2>7. OnPath(n, p)'
    BY <2>3, <2>6 DEF OnPath
  <2> QED BY <2>7
<1>7. CASE Shutdown
  <2>1. ~ alone /\ \A r \in Ranks : rk[r].pc \in {"wait"}
    BY <1>7 DEF Shutdown, Ranks
  <2>2. \A r \in Ranks : rk[r] = rk[0]
    <3>1. {"wait"} \cap (Moving \cup {"bcast"}) = {}
      BY DEF Moving
    <3> QED BY <1>e, <2>1, <3>1
  <2>3. \A r \in Ranks : rk'[r] = [rk[0] EXCEPT !.pc = "down"]
    <3>1. \A r \in Ranks : rk'[r] = [rk[r] EXCEPT !.pc = "down"]
      BY <1>7 DEF Shutdown
    <3> QED BY <2>2, <3>1
  <2> QED BY <1>z, <2>3
<1>8. CASE Broadcast
  <2> DEFINE t == [Idle EXCEPT !.pc = "submit", !.job = rk[0].job]
  <2>1. \A r \in Ranks : rk'[r] = t
    BY <1>8 DEF Broadcast
  <2> HIDE DEF t
  <2> QED BY <1>z, <2>1
<1>9. CASE Forward
  <2>1. ~ alone /\ \A r \in Ranks : rk[r].pc \in {"forward", "burst"}
    BY <1>9 DEF Forward, AtForward
  <2>2. \A r \in Ranks : rk[r] = rk[0]
    <3>1. {"forward", "burst"} \cap (Moving \cup {"bcast"}) = {}
      BY DEF Moving
    <3> QED BY <1>e, <2>1, <3>1
  <2>3. PICK tok \in Vocab :
          rk' = [r \in Ranks |-> IF rk[r].pc = "forward" THEN AfterRunBatch(rk[r], tok)
                                 ELSE AfterBurstStep(rk[r], tok)]
    BY <1>9 DEF Forward
  <2> DEFINE G(s) == IF s.pc = "forward" THEN AfterRunBatch(s, tok) ELSE AfterBurstStep(s, tok)
  <2>4. rk' = [r \in Ranks |-> G(rk[r])]
    BY <2>3
  <2> HIDE DEF G
  <2>5. \A r \in Ranks : rk'[r] = G(rk[0])
    BY <2>2, <2>4
  <2> QED BY <1>z, <2>5
<1>10. CASE ForwardRaises
  <2>1. ~ alone /\ \A r \in Ranks : rk[r].pc \in {"forward"}
    BY <1>10 DEF ForwardRaises
  <2>2. \A r \in Ranks : rk[r] = rk[0]
    <3>1. {"forward"} \cap (Moving \cup {"bcast"}) = {}
      BY DEF Moving
    <3> QED BY <1>e, <2>1, <3>1
  <2> DEFINE G(s) == [s EXCEPT !.pc = "top", !.st = "over"]
  <2>4. rk' = [r \in Ranks |-> G(rk[r])]
    BY <1>10 DEF ForwardRaises
  <2> HIDE DEF G
  <2>5. \A r \in Ranks : rk'[r] = G(rk[0])
    BY <2>2, <2>4
  <2> QED BY <1>z, <2>5
<1>11. CASE BurstRaises
  BY <1>11 DEF BurstRaises
<1>12. ASSUME NEW r \in Ranks, RankStep(r) PROVE \E m \in Nat : \E q : OnPath(m, q)'
  <2>1. ~ alone /\ rk[r].pc \in Moving /\ rk' = [rk EXCEPT ![r] = LocalNext(rk[r])]
    BY <1>0, <1>12, RankSteps
  <2>2. PICK n \in Nat : \E p : OnPath(n, p)
    BY <2>1 DEF Together
  <2>3. PICK p : OnPath(n, p)
    BY <2>2
  <2> QED BY <1>0, <2>1, <2>3, AlongPath
<1>13. ASSUME NEW r \in Ranks, Expire(r) \/ PumpRaises(r) PROVE FALSE
  BY <1>13 DEF Expire, PumpRaises
<1> QED BY <1>1, <1>2, <1>3, <1>4, <1>5, <1>6, <1>7, <1>8, <1>9, <1>10, <1>11, <1>12, <1>13
        DEF NextTP, Collective

\* Ranks in lockstep, for any number of workers: as long as no rank has acted
\* alone, ranks that run a forward run the same one, and none stands outside it
\* for good.
THEOREM RanksInLockstep == SpecTP => []Lockstep
<1>1. InitTP => Together
  <2> SUFFICES ASSUME InitTP PROVE OnPath(0, [i \in {0} |-> Idle])
    BY DEF Together
  <2> DEFINE p == [i \in {0} |-> Idle]
             b == [Idle EXCEPT !.pc = "bcast"]
  <2>1. p[0] = Idle /\ Idle.pc = "wait" /\ b.pc = "bcast" /\ 0..0 = {0} /\ 0..0 - 1 = {}
    BY DEF Idle
  <2>2. rk = [r \in Ranks |-> IF r = 0 THEN b ELSE Idle] /\ 0 \in Ranks
    BY DEF InitTP, Ranks
  <2> HIDE DEF p, b
  <2>3. \A r \in Ranks : (\E i \in 0..0 : rk[r] = p[i]) \/ (r = 0 /\ rk[0].pc = "bcast" /\ p[0].pc = "wait")
    BY <2>1, <2>2
  <2>4. OnPath(0, p)
    BY <2>1, <2>3 DEF OnPath
  <2> QED BY <2>4 DEF p
<1>2. Together => Lockstep
  <2> SUFFICES ASSUME Together, ~ alone, NEW r \in Ranks, NEW q \in Ranks, AtForward(r)
               PROVE  /\ rk[q].pc \notin {"wait", "bcast", "down"}
                      /\ AtForward(q) => /\ rk[r].pc = rk[q].pc /\ rk[r].job = rk[q].job
                                         /\ rk[r].cached = rk[q].cached /\ rk[r].out = rk[q].out
    BY DEF Lockstep
  <2>0. rk[r].pc \in {"forward", "burst"}
    BY DEF AtForward
  <2>1. CASE Workers = {}
    BY <2>0, <2>1 DEF Ranks
  <2>2. CASE Workers # {}
    <3>1. PICK n \in Nat : \E p : OnPath(n, p)
      BY <2>2 DEF Together
    <3>2. PICK p : OnPath(n, p)
      BY <3>1
    <3>3. rk[r] = p[n]
      BY <2>0, <3>2, AtEnd DEF Moving
    <3>4. PICK i \in 0..n : rk[q] = p[i]
      BY <2>0, <3>2, <3>3 DEF OnPath
    <3>5. CASE i = n
      BY <2>0, <3>3, <3>4, <3>5
    <3>6. CASE i # n
      <4>1. i \in 0..n - 1
        BY <3>6
      <4>2. rk[q].pc \in Moving
        BY <3>2, <3>4, <4>1 DEF OnPath
      <4> QED BY <4>2 DEF Moving, AtForward
    <3> QED BY <3>5, <3>6
  <2> QED BY <2>1, <2>2
<1>3. TPInv /\ Together /\ [NextTP]_tpVars => Together'
  BY TogetherNext
<1> QED BY <1>1, <1>2, <1>3, TPInvAlways, PTL DEF SpecTP

====
