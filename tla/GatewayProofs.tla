---- MODULE GatewayProofs ----
(***************************************************************************)
(* What Gateway promises for any number of requests, any capacities and    *)
(* any length of a completion: queues stay within their limits, "stop"     *)
(* means that nothing was lost, work is cancelled only for clients that    *)
(* are gone or were shown an error, and every step a client can see is one *)
(* of RequestLife.                                                         *)
(*                                                                         *)
(* A request's tokens travel through five places: the engine's delta       *)
(* queue, the connection, the forwarder's hand, the channel, the client.   *)
(* The invariant says that they always hold consecutive stretches of the   *)
(* completion.  It is stated on the four records of one request, so that   *)
(* a step of one request says nothing about another.                       *)
(***************************************************************************)
EXTENDS Gateway, TLAPS

----------------------------------------------------------------------------
(* Types *)

Clients  == [st : {"new", "waiting", "gone", "answered"}, got : Seq(1..MaxTokens),
             fin : Endings \cup {"none", "refused"}]
Handlers == [mode : {"stream", "blocking"},
             hand : {"off", "recv", "cancel", "await", "cancelAgain", "awaitAgain", "done"},
             fwd : {"off", "connect", "read", "send", "await", "fail", "stub", "end"},
             held : Deltas, chan : Seq(Deltas), reason : Endings, asked : BOOLEAN]
Conns    == [up : BOOLEAN, down : BOOLEAN, wire : Seq(Deltas)]
Works    == [st : {"none", "live", "over"}, open : BOOLEAN, dq : Seq(Deltas),
             made : 0..MaxTokens]
Servers  == [pc : {"start", "waiting", "serving", "closing", "returned", "exited"},
             kind : {"spawned", "url", "stub"}, ready : BOOLEAN, draining : BOOLEAN,
             sigint : BOOLEAN]

Typed ==
  /\ srv \in Servers
  /\ child \in {"absent", "loading", "ready", "draining", "hung", "dead"}
  /\ cli \in [Requests -> Clients]
  /\ gw \in [Requests -> Handlers]
  /\ net \in [Requests -> Conns]
  /\ en \in [Requests -> Works]

\* The length of a sequence.  The proofs use it through the lemmas on it only.
Count(s) == Len(s)

Bounded(g, n, e) ==
  Count(g.chan) <= ChanCap /\ Count(n.wire) <= WireCap /\ Count(e.dq) <= QueueCap

----------------------------------------------------------------------------
(* Stretches of a completion *)

\* The first n tokens.
Upto(n) == [i \in 1..n |-> i]

\* Frame d may follow the first n tokens of the completion that e generates: it
\* brings token n + 1, or ends the stream, and says "stop" only where e stopped.
FrameOK(d, n, e) ==
  /\ d.fin = "none" => d.tok = n + 1
  /\ d.fin = "stop" => /\ e.st # "live"
                       /\ \/ d.tok = 0 /\ e.made = n
                          \/ d.tok = n + 1 /\ e.made = n + 1
  /\ d.fin \notin {"none", "stop"} => d.tok = 0

NoEnd(s) == \A i \in 1..Len(s) : s[i].fin = "none"

\* The frames of s follow the first n tokens; only the last one may end.
RunOK(s, n, e) ==
  \A i \in 1..Len(s) : FrameOK(s[i], n + i - 1, e) /\ (i < Len(s) => s[i].fin = "none")

\* The last frame of s ends the stream.
Ends(s) == s[Len(s)].fin # "none"

\* The delta queue of e follows the first n tokens, and what e generates next
\* follows the queue.
QueueOK(e, n) ==
  /\ RunOK(e.dq, n, e)
  /\ e.open => NoEnd(e.dq)
  /\ e.st = "live" => e.made = n + Count(e.dq)

----------------------------------------------------------------------------
(* The invariant, for client c, handler g, connection n and engine request e *)

\* Nothing has happened yet to a request that has not been sent, and the engine
\* knows nothing of one that has not been submitted.
Unborn(c, g, n, e) ==
  /\ c.st = "new" => /\ c.got = <<>> /\ c.fin = "none" /\ g.hand = "off" /\ g.fwd = "off"
                     /\ g.chan = <<>> /\ ~ g.asked /\ e.st = "none" /\ e.made = 0
  /\ e.st = "none" => ~ e.open /\ e.dq = <<>> /\ ~ n.down /\ n.wire = <<>>
  /\ g.fwd = "connect" => c.got = <<>> /\ g.chan = <<>> /\ e.st = "none" /\ e.made = 0
  /\ e.st = "live" => e.open

\* Where the handler stands, as the client and the forwarder see it.
Phases(c, g, e) ==
  /\ g.hand = "off" <=> c.st # "waiting"
  /\ g.hand = "recv" => c.fin = "none"
  /\ c.st = "waiting" /\ c.fin = "none" => g.hand = "recv"
  /\ g.hand \in {"cancel", "await", "cancelAgain", "awaitAgain"} => c.fin = "error"
  /\ g.fwd = "await" => g.hand = "off"
  /\ c.st # "gone" /\ g.hand # "recv" => g.fwd \in {"end", "off"}
  /\ c.fin # "none" => g.fwd \in {"end", "off"}
  /\ c.st = "answered" => c.fin # "none"
  /\ g.asked => c.st = "gone" \/ c.fin = "error"
  /\ g.fwd = "off" /\ g.hand = "recv" => e.st = "none" /\ g.chan = <<>> /\ c.got = <<>>

\* The client's text is a prefix of the completion, and all of it after "stop".
Prefix(c, g, e) ==
  /\ c.got = Upto(Count(c.got)) /\ Count(c.got) <= MaxTokens
  /\ c.fin = "stop" => e.made = Count(c.got) /\ e.st # "live" /\ g.fwd \in {"end", "off"}

\* The channel continues the client's text; the end of the forwarder leaves an
\* end in it, or generate_blocking has taken that end.
Channel(c, g, e) ==
  g.hand = "recv" =>
    /\ RunOK(g.chan, Count(c.got), e)
    /\ g.fwd # "end" => NoEnd(g.chan)
    /\ g.fwd = "end" /\ g.chan # <<>> => Ends(g.chan)
    /\ g.fwd = "end" /\ g.chan = <<>> =>
         /\ g.mode = "blocking"
         /\ g.reason = "stop" => e.made = Count(c.got) /\ e.st # "live"
    /\ g.fwd = "stub" => /\ e.st = "none" /\ e.made < MaxTokens
                         /\ e.made = Count(c.got) + Count(g.chan)

\* The tokens that have left the connection.
Behind(c, g) == Count(c.got) + Count(g.chan) + (IF g.fwd = "send" THEN 1 ELSE 0)

\* The frame in the forwarder's hand, the connection and the delta queue
\* continue the channel, as long as the forwarder has not met an end.
Transit(c, g, n, e) ==
  g.hand = "recv" =>
    /\ g.fwd = "send" => FrameOK(g.held, Count(c.got) + Count(g.chan), e)
    /\ g.fwd = "read" \/ (g.fwd = "send" /\ g.held.fin = "none") =>
         /\ RunOK(n.wire, Behind(c, g), e)
         /\ n.down => NoEnd(n.wire) /\ QueueOK(e, Behind(c, g) + Count(n.wire))

Sound(c, g, n, e) ==
  /\ Bounded(g, n, e) /\ Unborn(c, g, n, e) /\ Phases(c, g, e)
  /\ Prefix(c, g, e) /\ Channel(c, g, e) /\ Transit(c, g, n, e)

\* axum serves connections between the bind and the return of serve.
ServesWhenOpen ==
  \A r \in Requests : cli[r].st = "waiting" => srv.pc \in {"serving", "closing"}

GateInv ==
  /\ Typed /\ ServesWhenOpen
  /\ \A r \in Requests : Sound(cli[r], gw[r], net[r], en[r])

----------------------------------------------------------------------------
(* Lemmas on stretches *)

\* A frame is added at the end of a stretch that has no end yet.
LEMMA RunAppend ==
  ASSUME NEW s \in Seq(Deltas), NEW d \in Deltas, NEW n \in Nat, NEW e,
         RunOK(s, n, e), NoEnd(s), FrameOK(d, n + Count(s), e)
  PROVE  /\ RunOK(Append(s, d), n, e)
         /\ d.fin = "none" => NoEnd(Append(s, d))
<1> DEFINE t == Append(s, d)
<1>1. /\ t \in Seq(Deltas) /\ Len(t) = Len(s) + 1 /\ Len(s) \in Nat
      /\ \A i \in 1..Len(s) : t[i] = s[i]
      /\ t[Len(s) + 1] = d
  OBVIOUS
<1>2. ASSUME NEW i \in 1..Len(t)
      PROVE  FrameOK(t[i], n + i - 1, e) /\ (i < Len(t) => t[i].fin = "none")
  <2>1. CASE i = Len(s) + 1
    <3>1. n + i - 1 = n + Len(s) /\ t[i] = d /\ ~ (i < Len(t))
      BY <1>1, <2>1
    <3> QED BY <3>1 DEF Count
  <2>2. CASE i # Len(s) + 1
    <3>1. i \in 1..Len(s) /\ t[i] = s[i]
      BY <1>1, <2>2
    <3> QED BY <3>1 DEF RunOK, NoEnd
  <2> QED BY <2>1, <2>2
<1>3. RunOK(t, n, e)
  BY <1>2 DEF RunOK
<1>4. ASSUME d.fin = "none" PROVE NoEnd(t)
  <2> SUFFICES ASSUME NEW i \in 1..Len(t) PROVE t[i].fin = "none"
    BY DEF NoEnd
  <2>1. i \in 1..Len(s) \/ i = Len(s) + 1
    BY <1>1
  <2> QED BY <2>1, <1>1, <1>4 DEF NoEnd
<1> QED BY <1>3, <1>4

\* Only the empty sequence has length zero.
LEMMA LenZero ==
  ASSUME NEW S, NEW s \in Seq(S)
  PROVE  s = <<>> <=> ~ (0 < Len(s))
  OBVIOUS

\* The count of the frames grows by one with each frame added, and falls by one
\* with each frame taken.
LEMMA CountRules ==
  ASSUME NEW S, NEW s \in Seq(S)
  PROVE  /\ Count(s) \in Nat
         /\ s = <<>> <=> Count(s) = 0
         /\ \A d \in S : /\ Append(s, d) \in Seq(S) /\ Append(s, d) # <<>>
                          /\ Count(Append(s, d)) = Count(s) + 1
         /\ s # <<>> => /\ Head(s) \in S /\ Tail(s) \in Seq(S)
                        /\ Count(Tail(s)) = Count(s) - 1
<1>1. Count(s) \in Nat
  BY DEF Count
<1>2. s = <<>> <=> Count(s) = 0
  <2>1. s = <<>> <=> ~ (0 < Count(s))
    BY LenZero DEF Count
  <2> QED BY <1>1, <2>1
<1>3. ASSUME NEW d \in S
      PROVE  /\ Append(s, d) \in Seq(S) /\ Append(s, d) # <<>>
             /\ Count(Append(s, d)) = Count(s) + 1
  <2>1. Append(s, d) \in Seq(S)
    OBVIOUS
  <2>2. Len(Append(s, d)) = Len(s) + 1 /\ Len(s) \in Nat
    OBVIOUS
  <2>3. PICK w \in Seq(S) : w = Append(s, d)
    BY <2>1
  <2>4. w # <<>>
    BY <2>2, <2>3, LenZero
  <2> QED BY <2>1, <2>2, <2>3, <2>4 DEF Count
<1>4. ASSUME s # <<>>
      PROVE  Head(s) \in S /\ Tail(s) \in Seq(S) /\ Count(Tail(s)) = Count(s) - 1
  BY <1>4 DEF Count
<1> QED BY <1>1, <1>2, <1>3, <1>4

\* A frame is taken from the front of a stretch: an end is alone.
LEMMA RunTail ==
  ASSUME NEW s \in Seq(Deltas), NEW n \in Nat, NEW e, RunOK(s, n, e), s # <<>>
  PROVE  /\ FrameOK(Head(s), n, e)
         /\ Head(s).fin = "none" => RunOK(Tail(s), n + 1, e)
         /\ Head(s).fin # "none" => Tail(s) = <<>>
         /\ NoEnd(s) => NoEnd(Tail(s))
         /\ Ends(s) /\ Tail(s) # <<>> => Ends(Tail(s))
         /\ Ends(s) /\ Tail(s) = <<>> => Head(s).fin # "none"
<1> DEFINE t == Tail(s)
<1>0. Len(s) \in Nat /\ Len(s) > 0
  OBVIOUS
<1>1. /\ Len(s) \in Nat /\ Len(s) > 0 /\ Head(s) = s[1] /\ s[1] \in Deltas
      /\ t \in Seq(Deltas) /\ Len(t) = Len(s) - 1
      /\ \A i \in 1..Len(t) : t[i] = s[i + 1]
  OBVIOUS
<1>2. FrameOK(s[1], n + 1 - 1, e) /\ (1 < Len(s) => s[1].fin = "none")
  <2>1. 1 \in 1..Len(s)
    BY <1>1
  <2> QED BY <2>1 DEF RunOK
<1>a. t = <<>> <=> ~ (1 < Len(s))
  <2>1. t = <<>> <=> ~ (0 < Len(t))
    BY <1>1, LenZero
  <2>2. 0 < Len(t) <=> 1 < Len(s)
    BY <1>1
  <2> QED BY <2>1, <2>2
<1>3. FrameOK(Head(s), n, e)
  <2>1. n + 1 - 1 = n
    OBVIOUS
  <2> QED BY <1>1, <1>2, <2>1
<1>4. Head(s).fin # "none" => t = <<>>
  <2> SUFFICES ASSUME Head(s).fin # "none" PROVE t = <<>>
    OBVIOUS
  <2>1. ~ (1 < Len(s))
    <3>1. Head(s).fin = s[1].fin
      BY <1>1
    <3> QED BY <3>1, <1>2
  <2> QED BY <2>1, <1>a
<1>5. RunOK(t, n + 1, e)
  <2> SUFFICES ASSUME NEW i \in 1..Len(t)
               PROVE  FrameOK(t[i], n + 1 + i - 1, e) /\ (i < Len(t) => t[i].fin = "none")
    BY DEF RunOK
  <2>1. i + 1 \in 1..Len(s) /\ t[i] = s[i + 1] /\ (i < Len(t) => i + 1 < Len(s))
    BY <1>1
  <2>2. FrameOK(s[i + 1], n + (i + 1) - 1, e) /\ (i + 1 < Len(s) => s[i + 1].fin = "none")
    BY <2>1 DEF RunOK
  <2>3. n + (i + 1) - 1 = n + 1 + i - 1
    OBVIOUS
  <2> QED BY <2>1, <2>2, <2>3
<1>6. NoEnd(s) => NoEnd(t)
  <2> SUFFICES ASSUME NoEnd(s), NEW i \in 1..Len(t) PROVE t[i].fin = "none"
    BY DEF NoEnd
  <2>1. i + 1 \in 1..Len(s) /\ t[i] = s[i + 1]
    BY <1>1
  <2> QED BY <2>1 DEF NoEnd
<1>7. t # <<>> => t[Len(t)] = s[Len(s)]
  <2> SUFFICES ASSUME t # <<>> PROVE t[Len(t)] = s[Len(s)]
    OBVIOUS
  <2>1. Len(t) \in 1..Len(t)
    BY <1>1
  <2> QED BY <2>1, <1>1
<1>8. t = <<>> => Head(s) = s[Len(s)]
  BY <1>1, <1>a
<1> QED BY <1>3, <1>4, <1>5, <1>6, <1>7, <1>8 DEF Ends

\* The empty stretch.
LEMMA RunEmpty ==
  ASSUME NEW n, NEW e
  PROVE  RunOK(<<>>, n, e) /\ NoEnd(<<>>)
  BY DEF RunOK, NoEnd

\* What e does next leaves a stretch of its frames as it is: a frame says "stop"
\* only once e is no longer live.
Frozen(e, f) == e.st = "live" \/ (f.made = e.made /\ f.st # "live")

\* A frame stays in its place whatever e does next.
LEMMA FrameKeeps ==
  ASSUME NEW d, NEW n, NEW e, NEW f, FrameOK(d, n, e), Frozen(e, f)
  PROVE  FrameOK(d, n, f)
  BY DEF FrameOK, Frozen

\* So does a stretch of frames.
LEMMA RunKeeps ==
  ASSUME NEW s, NEW n, NEW e, NEW f, RunOK(s, n, e), Frozen(e, f)
  PROVE  RunOK(s, n, f)
  BY FrameKeeps DEF RunOK

\* The next token extends the client's text.
LEMMA UptoAppend ==
  ASSUME NEW s \in Seq(1..MaxTokens), s = Upto(Count(s)), Count(s) + 1 <= MaxTokens
  PROVE  /\ Append(s, Count(s) + 1) \in Seq(1..MaxTokens)
         /\ Append(s, Count(s) + 1) = Upto(Count(s) + 1)
         /\ Count(Append(s, Count(s) + 1)) = Count(s) + 1
<1> DEFINE n == Len(s)
           t == Append(s, n + 1)
<1>0. n \in Nat /\ MaxTokens \in Nat
  BY GatewayAssumption
<1>1. /\ n + 1 \in 1..MaxTokens
      /\ t \in Seq(1..MaxTokens) /\ Len(t) = n + 1 /\ DOMAIN t = 1..(n + 1)
      /\ t = [i \in 1..(n + 1) |-> t[i]]
      /\ \A i \in 1..n : t[i] = s[i]
      /\ t[n + 1] = n + 1
  BY <1>0 DEF Count
<1>2. ASSUME NEW i \in 1..(n + 1) PROVE t[i] = i
  <2>1. i \in 1..n \/ i = n + 1
    BY <1>0
  <2>2. ASSUME i \in 1..n PROVE s[i] = i
    BY <2>2 DEF Upto, Count
  <2> QED BY <2>1, <2>2, <1>1
<1> QED BY <1>1, <1>2 DEF Upto, Count

----------------------------------------------------------------------------
(* Steps of the engine *)

\* The capacities are numbers.
LEMMA Capacities ==
  /\ MaxTokens \in Nat \ {0} /\ ChanCap \in Nat \ {0}
  /\ QueueCap \in Nat \ {0} /\ WireCap \in Nat \ {0}
  BY GatewayAssumption

\* A frame without text is a frame.
LEMMA NoText ==
  ASSUME NEW why \in Endings
  PROVE  Delta(0, why) \in Deltas
<1>1. 0 \in 0..MaxTokens
  BY Capacities
<1> QED BY <1>1 DEF Delta, Deltas

\* The fields of the records.
LEMMA ClientFields ==
  ASSUME NEW c \in Clients
  PROVE  c.got \in Seq(1..MaxTokens) /\ Count(c.got) \in Nat
<1>1. c.got \in Seq(1..MaxTokens)
  BY DEF Clients
<1> QED BY <1>1, CountRules

\* The fields of a handler's record.
LEMMA HandlerFields ==
  ASSUME NEW g \in Handlers
  PROVE  g.chan \in Seq(Deltas) /\ Count(g.chan) \in Nat /\ g.held \in Deltas
<1>1. g.chan \in Seq(Deltas) /\ g.held \in Deltas
  BY DEF Handlers
<1> QED BY <1>1, CountRules

\* The fields of a connection's record.
LEMMA ConnFields ==
  ASSUME NEW n \in Conns
  PROVE  n.wire \in Seq(Deltas) /\ Count(n.wire) \in Nat /\ n.up \in BOOLEAN /\ n.down \in BOOLEAN
<1>1. n.wire \in Seq(Deltas) /\ n.up \in BOOLEAN /\ n.down \in BOOLEAN
  BY DEF Conns
<1> QED BY <1>1, CountRules

\* The fields of a record of the engine.
LEMMA WorkFields ==
  ASSUME NEW e \in Works
  PROVE  /\ e.dq \in Seq(Deltas) /\ Count(e.dq) \in Nat /\ e.open \in BOOLEAN
         /\ e.made \in 0..MaxTokens /\ e.made \in Nat
<1>1. e.dq \in Seq(Deltas) /\ e.open \in BOOLEAN /\ e.made \in 0..MaxTokens
  BY DEF Works
<1> QED BY <1>1, CountRules, Capacities

\* The count of tokens behind the connection is a number.
LEMMA BehindNat ==
  ASSUME NEW c \in Clients, NEW g \in Handlers
  PROVE  Behind(c, g) \in Nat
<1>1. Count(c.got) + Count(g.chan) \in Nat
  BY ClientFields, HandlerFields
<1> QED BY <1>1 DEF Behind

\* What Put does to each field.
LEMMA PutFields ==
  ASSUME NEW e \in Works, NEW d \in Deltas, NEW final \in BOOLEAN
  PROVE  /\ Put(e, d, final) \in Works
         /\ Put(e, d, final).dq = IF e.open /\ Count(e.dq) < QueueCap
                                  THEN Append(e.dq, d) ELSE e.dq
         /\ Put(e, d, final).open = (e.open /\ ~ final)
         /\ Put(e, d, final).made = e.made /\ Put(e, d, final).st = e.st
<1> DEFINE q == IF e.open /\ Count(e.dq) < QueueCap THEN Append(e.dq, d) ELSE e.dq
           o == e.open /\ ~ final
<1>1. q \in Seq(Deltas) /\ o \in BOOLEAN
  BY WorkFields
<1>2. Put(e, d, final) = [e EXCEPT !.dq = q, !.open = o]
  BY DEF Put, Works, Count
<1> HIDE DEF q, o
<1>3. /\ [e EXCEPT !.dq = q, !.open = o] \in Works
      /\ [e EXCEPT !.dq = q, !.open = o].dq = q
      /\ [e EXCEPT !.dq = q, !.open = o].open = o
      /\ [e EXCEPT !.dq = q, !.open = o].made = e.made
      /\ [e EXCEPT !.dq = q, !.open = o].st = e.st
  BY <1>1 DEF Works
<1> QED BY <1>2, <1>3 DEF q, o

\* A step inside the engine that treats its queue well disturbs nothing else.
LEMMA WorkSound ==
  ASSUME NEW c \in Clients, NEW g \in Handlers, NEW n \in Conns,
         NEW e \in Works, NEW f \in Works,
         Sound(c, g, n, e), e.st # "none", f.st # "none", f.st = "live" => f.open,
         Frozen(e, f), Count(f.dq) <= QueueCap,
         \A k \in Nat : QueueOK(e, k) => QueueOK(f, k)
  PROVE  Sound(c, g, n, f)
<1>1. Bounded(g, n, f) /\ Unborn(c, g, n, f) /\ Phases(c, g, f)
  BY DEF Sound, Bounded, Unborn, Phases
<1>2. Prefix(c, g, f)
  BY DEF Sound, Prefix, Frozen
<1>3. Channel(c, g, f)
  BY RunKeeps DEF Sound, Channel, Frozen
<1>4. Transit(c, g, n, f)
  <2>1. Behind(c, g) + Count(n.wire) \in Nat
    BY BehindNat, ConnFields
  <2> QED BY <2>1, RunKeeps, FrameKeeps DEF Sound, Transit
<1> QED BY <1>1, <1>2, <1>3, <1>4 DEF Sound

\* The engine's side of the connection closes.
LEMMA DownSound ==
  ASSUME NEW c \in Clients, NEW g \in Handlers, NEW n \in Conns, NEW e \in Works,
         Sound(c, g, n, e)
  PROVE  /\ [n EXCEPT !.down = FALSE] \in Conns
         /\ Sound(c, g, [n EXCEPT !.down = FALSE], e)
  BY DEF Sound, Bounded, Unborn, Phases, Prefix, Channel, Transit, Conns

\* _emit of a last frame that is not a regular end.
Ended(e, why) == [Put(e, Delta(0, why), TRUE) EXCEPT !.st = "over"]

\* The end of a request in the engine: Fail, Expire and EngineLoop.cancel.
LEMMA EndedSound ==
  ASSUME NEW c \in Clients, NEW g \in Handlers, NEW n \in Conns, NEW e \in Works,
         Sound(c, g, n, e), e.st # "none", NEW why \in {"error", "timeout", "cancelled"}
  PROVE  Ended(e, why) \in Works /\ Sound(c, g, n, Ended(e, why))
<1> DEFINE d == Delta(0, why)
           f == Ended(e, why)
<1>1. d \in Deltas /\ d.fin # "none" /\ d.fin # "stop" /\ d.tok = 0
  BY NoText DEF Delta, Endings
<1>2. /\ f.st = "over" /\ ~ f.open /\ f.made = e.made /\ f \in Works
      /\ f.dq = IF e.open /\ Count(e.dq) < QueueCap THEN Append(e.dq, d) ELSE e.dq
  <2> DEFINE p == Put(e, d, TRUE)
  <2>1. /\ p \in Works /\ ~ p.open /\ p.made = e.made
        /\ p.dq = IF e.open /\ Count(e.dq) < QueueCap THEN Append(e.dq, d) ELSE e.dq
    BY <1>1, PutFields
  <2>2. f = [p EXCEPT !.st = "over"]
    BY DEF Ended
  <2> HIDE DEF p, f
  <2>3. f.st = "over" /\ f.open = p.open /\ f.made = p.made /\ f.dq = p.dq /\ f \in Works
    BY <2>1, <2>2 DEF Works
  <2> QED BY <2>1, <2>3
<1>3. Count(f.dq) <= QueueCap
  BY <1>1, <1>2, Capacities, WorkFields, CountRules DEF Sound, Bounded
<1>4. Frozen(e, f)
  BY <1>2 DEF Frozen
<1>5. ASSUME NEW k \in Nat, QueueOK(e, k) PROVE QueueOK(f, k)
  <2>1. RunOK(e.dq, k, f)
    BY <1>4, <1>5, RunKeeps DEF QueueOK
  <2>2. CASE e.open /\ Count(e.dq) < QueueCap
    <3>1. NoEnd(e.dq) /\ FrameOK(d, k + Count(e.dq), f) /\ e.dq \in Seq(Deltas)
      BY <1>1, <1>5, <2>2 DEF QueueOK, FrameOK, Works
    <3>2. RunOK(Append(e.dq, d), k, f)
      BY <3>1, <2>1, <1>1, RunAppend
    <3> QED BY <3>2, <2>2, <1>2 DEF QueueOK
  <2>3. CASE ~ (e.open /\ Count(e.dq) < QueueCap)
    BY <2>1, <2>3, <1>2 DEF QueueOK
  <2> QED BY <2>2, <2>3
<1> QED BY <1>2, <1>3, <1>4, <1>5, WorkSound

\* The engine loop emits a token, or the end of the completion.
Generated(e, text, fin) ==
  [Put(e, Delta(IF text = 1 THEN e.made + 1 ELSE 0, fin), fin = "stop") EXCEPT
     !.made = @ + text, !.st = IF fin = "stop" \/ Full(e) THEN "over" ELSE "live"]

\* A step of generation.
LEMMA GeneratedSound ==
  ASSUME NEW c \in Clients, NEW g \in Handlers, NEW n \in Conns, NEW e \in Works,
         Sound(c, g, n, e), e.st = "live",
         NEW text \in {0, 1}, NEW fin \in {"none", "stop"},
         text = 1 => e.made < MaxTokens, fin = "none" => text = 1
  PROVE  Generated(e, text, fin) \in Works /\ Sound(c, g, n, Generated(e, text, fin))
<1> DEFINE d == Delta(IF text = 1 THEN e.made + 1 ELSE 0, fin)
           f == Generated(e, text, fin)
<1>0. /\ e.open /\ e.made \in 0..MaxTokens /\ e.dq \in Seq(Deltas)
      /\ Count(e.dq) <= QueueCap /\ Count(e.dq) \in Nat
  BY WorkFields DEF Sound, Unborn, Bounded
<1>1. /\ d \in Deltas /\ d.fin = fin
      /\ d.tok = IF text = 1 THEN e.made + 1 ELSE 0
  <2>1. (IF text = 1 THEN e.made + 1 ELSE 0) \in 0..MaxTokens
    BY <1>0, Capacities
  <2> QED BY <2>1 DEF Delta, Deltas, Endings
<1>2. /\ f.st = IF fin = "stop" \/ Count(e.dq) = QueueCap THEN "over" ELSE "live"
      /\ f.open = (fin # "stop") /\ f.made = e.made + text /\ f.made \in 0..MaxTokens
      /\ f.dq = IF Count(e.dq) < QueueCap THEN Append(e.dq, d) ELSE e.dq
      /\ f \in Works
  <2> DEFINE p == Put(e, d, fin = "stop")
             m == e.made + text
             x == IF fin = "stop" \/ Full(e) THEN "over" ELSE "live"
  <2>1. /\ p \in Works /\ p.open = (fin # "stop") /\ p.made = e.made
        /\ p.dq = IF Count(e.dq) < QueueCap THEN Append(e.dq, d) ELSE e.dq
    <3> HIDE DEF d
    <3>1. (fin = "stop") \in BOOLEAN
      OBVIOUS
    <3>2. ASSUME NEW z \in BOOLEAN
          PROVE  /\ Put(e, d, z) \in Works /\ Put(e, d, z).open = ~ z
                 /\ Put(e, d, z).made = e.made
                 /\ Put(e, d, z).dq = IF Count(e.dq) < QueueCap THEN Append(e.dq, d) ELSE e.dq
      BY <1>0, <1>1, PutFields
    <3> QED BY <3>1, <3>2
  <2>2. f = [p EXCEPT !.made = m, !.st = x]
    BY <2>1 DEF Generated, Works
  <2>3. m \in 0..MaxTokens
    BY <1>0, Capacities
  <2>4. /\ x = IF fin = "stop" \/ Count(e.dq) = QueueCap THEN "over" ELSE "live"
        /\ x \in {"over", "live"}
    BY <1>0 DEF Full, Count
  <2> HIDE DEF p, f, m, x
  <2>5. f.st = x /\ f.open = p.open /\ f.made = m /\ f.dq = p.dq /\ f \in Works
    BY <2>1, <2>2, <2>3, <2>4 DEF Works
  <2> QED BY <2>1, <2>3, <2>4, <2>5 DEF m
<1>3. Count(f.dq) <= QueueCap
  BY <1>0, <1>1, <1>2, Capacities, CountRules
<1>4. Frozen(e, f)
  BY DEF Frozen
<1>5. ASSUME NEW k \in Nat, QueueOK(e, k) PROVE QueueOK(f, k)
  <2>1. RunOK(e.dq, k, f) /\ NoEnd(e.dq) /\ e.made = k + Count(e.dq)
    BY <1>0, <1>4, <1>5, RunKeeps DEF QueueOK
  <2>2. CASE Count(e.dq) < QueueCap
    <3>1. FrameOK(d, k + Count(e.dq), f)
      BY <1>0, <1>1, <1>2, <2>1 DEF FrameOK
    <3> HIDE DEF d, f
    <3>a. RunOK(Append(e.dq, d), k, f) /\ (d.fin = "none" => NoEnd(Append(e.dq, d)))
      BY <3>1, <2>1, <1>0, <1>1, RunAppend
    <3>b. Count(Append(e.dq, d)) = Count(e.dq) + 1
      BY <1>0, <1>1, CountRules
    <3>2. RunOK(f.dq, k, f) /\ (f.open => NoEnd(f.dq)) /\ Count(f.dq) = Count(e.dq) + 1
      BY <3>a, <3>b, <2>2, <1>1, <1>2
    <3>3. f.st = "live" => f.made = k + Count(f.dq)
      BY <3>2, <2>1, <1>0, <1>1, <1>2
    <3> QED BY <3>2, <3>3 DEF QueueOK
  <2>3. CASE ~ (Count(e.dq) < QueueCap)
    <3>1. f.st = "over"
      BY <2>3, <1>0, <1>2, Capacities
    <3> QED BY <3>1, <2>1, <2>3, <1>2 DEF QueueOK
  <2> QED BY <2>2, <2>3
<1> QED BY <1>2, <1>3, <1>4, <1>5, WorkSound

\* ndjson_stream moves a frame from the queue to the connection.
LEMMA WriteSound ==
  ASSUME NEW c \in Clients, NEW g \in Handlers, NEW n \in Conns, NEW e \in Works,
         Sound(c, g, n, e), n.down, e.dq # <<>>, Count(n.wire) < WireCap,
         NEW m, m = [n EXCEPT !.wire = Append(n.wire, Head(e.dq)),
                              !.down = ~ IsLast(Head(e.dq))],
         NEW f, f = [e EXCEPT !.dq = Tail(e.dq)]
  PROVE  m \in Conns /\ f \in Works /\ Sound(c, g, m, f)
<1> DEFINE d == Head(e.dq)
           w == Append(n.wire, d)
           t == Tail(e.dq)
           b == Behind(c, g)
<1>1. /\ d \in Deltas /\ t \in Seq(Deltas) /\ Count(t) = Count(e.dq) - 1
      /\ w \in Seq(Deltas) /\ Count(w) = Count(n.wire) + 1 /\ Count(n.wire) \in Nat
      /\ Count(e.dq) \in Nat
  BY ConnFields, WorkFields, CountRules
<1>2. m = [n EXCEPT !.wire = w, !.down = (d.fin = "none")]
  BY DEF IsLast, Conns
<1> HIDE DEF d, w, t
<1>3. /\ m \in Conns /\ m.wire = w /\ m.up = n.up /\ m.down = (d.fin = "none")
      /\ f \in Works /\ f.st = e.st /\ f.open = e.open /\ f.made = e.made /\ f.dq = t
  BY <1>1, <1>2 DEF Conns, Works, t
<1>4. e.st # "none"
  BY DEF Sound, Unborn
<1>5. Bounded(g, m, f) /\ Unborn(c, g, m, f) /\ Phases(c, g, f)
  <2>1. Bounded(g, m, f)
    <3>1. Count(w) <= WireCap
      BY <1>1, Capacities
    <3>2. Count(e.dq) <= QueueCap /\ Count(g.chan) <= ChanCap
      BY DEF Sound, Bounded
    <3>3. Count(t) <= QueueCap
      BY <3>2, <1>1, Capacities
    <3> QED BY <3>1, <3>2, <3>3, <1>3 DEF Bounded
  <2>2. Unborn(c, g, m, f)
    BY <1>3, <1>4 DEF Sound, Unborn
  <2>3. Phases(c, g, f)
    BY <1>3 DEF Sound, Phases
  <2> QED BY <2>1, <2>2, <2>3
<1>6. \A s, k : RunOK(s, k, e) => RunOK(s, k, f)
  BY <1>3 DEF RunOK, FrameOK
<1>7. \A x, k : FrameOK(x, k, e) => FrameOK(x, k, f)
  BY <1>3 DEF FrameOK
<1>8. Prefix(c, g, f) /\ Channel(c, g, f)
  BY <1>3, <1>6 DEF Sound, Prefix, Channel
<1>9. Transit(c, g, m, f)
  <2> SUFFICES ASSUME g.hand = "recv", g.fwd = "read" \/ (g.fwd = "send" /\ g.held.fin = "none")
               PROVE  /\ RunOK(w, b, f)
                      /\ d.fin = "none" => NoEnd(w) /\ QueueOK(f, b + Count(w))
    BY <1>3, <1>7 DEF Sound, Transit
  <2>1. b \in Nat /\ b + Count(n.wire) \in Nat
    BY <1>1, BehindNat
  <2>2. /\ RunOK(n.wire, b, e) /\ NoEnd(n.wire) /\ QueueOK(e, b + Count(n.wire))
    BY DEF Sound, Transit
  <2>3. /\ FrameOK(d, b + Count(n.wire), e)
        /\ d.fin = "none" => RunOK(t, b + Count(n.wire) + 1, e)
        /\ NoEnd(e.dq) => NoEnd(t)
    BY <2>1, <2>2, WorkFields, RunTail DEF QueueOK, d, t
  <2>4. RunOK(w, b, e) /\ (d.fin = "none" => NoEnd(w))
    BY <2>1, <2>2, <2>3, <1>1, ConnFields, RunAppend DEF w
  <2>5. ASSUME d.fin = "none" PROVE QueueOK(f, b + Count(w))
    <3>1. b + Count(w) = b + Count(n.wire) + 1
      BY <1>1, <2>1
    <3>2. RunOK(t, b + Count(w), e)
      BY <2>3, <2>5, <3>1
    <3>3. e.st = "live" => f.made = b + Count(w) + Count(t)
      BY <1>1, <1>3, <2>1, <2>2, WorkFields DEF QueueOK
    <3> QED BY <3>2, <3>3, <2>2, <2>3, <1>3, <1>6 DEF QueueOK
  <2> QED BY <2>4, <2>5, <1>6
<1> QED BY <1>3, <1>5, <1>8, <1>9 DEF Sound

----------------------------------------------------------------------------
(* Steps of the client and of the forwarder *)

\* The empty sequence of frames.
LEMMA NoFrames == <<>> \in Seq(Deltas)
  OBVIOUS

\* The empty sequence has no frames.
LEMMA CountEmpty == Count(<<>>) = 0
  BY DEF Count

\* chat_completions accepts a request.
LEMMA AcceptSound ==
  ASSUME NEW c \in Clients, NEW g \in Handlers, NEW n \in Conns, NEW e \in Works,
         Sound(c, g, n, e), c.st = "new",
         NEW mode \in {"stream", "blocking"}, NEW to \in {"connect", "stub", "off"},
         NEW d, d = [c EXCEPT !.st = "waiting"],
         NEW h, h = [g EXCEPT !.mode = mode, !.hand = "recv", !.fwd = to]
  PROVE  d \in Clients /\ h \in Handlers /\ Sound(d, h, n, e)
<1>1. /\ d \in Clients /\ d.st = "waiting" /\ d.got = c.got /\ d.fin = c.fin
      /\ h \in Handlers /\ h.hand = "recv" /\ h.fwd = to /\ h.chan = g.chan
      /\ h.asked = g.asked
  BY DEF Clients, Handlers
<1>2. Bounded(h, n, e) /\ Unborn(d, h, n, e) /\ Phases(d, h, e)
  BY <1>1 DEF Sound, Bounded, Unborn, Phases
<1>3. Prefix(d, h, e)
  BY <1>1 DEF Sound, Prefix, Unborn
<1>4. Channel(d, h, e)
  BY <1>1, RunEmpty, CountEmpty, Capacities DEF Sound, Channel, Unborn
<1>5. Transit(d, h, n, e)
  BY <1>1 DEF Transit
<1> QED BY <1>1, <1>2, <1>3, <1>4, <1>5 DEF Sound

\* The client leaves.
LEMMA LeaveSound ==
  ASSUME NEW c \in Clients, NEW g \in Handlers, NEW n \in Conns, NEW e \in Works,
         Sound(c, g, n, e), c.st = "waiting",
         NEW d, d = [c EXCEPT !.st = "gone"],
         NEW h, h = [g EXCEPT !.hand = "off", !.chan = <<>>]
  PROVE  d \in Clients /\ h \in Handlers /\ Sound(d, h, n, e)
<1>1. /\ d \in Clients /\ d.st = "gone" /\ d.got = c.got /\ d.fin = c.fin
      /\ h \in Handlers /\ h.hand = "off" /\ h.fwd = g.fwd /\ h.chan = <<>>
      /\ h.asked = g.asked
  BY NoFrames DEF Clients, Handlers
<1> QED BY <1>1, CountEmpty, Capacities
        DEF Sound, Bounded, Unborn, Phases, Prefix, Channel, Transit

\* chat_completions refuses a request.
LEMMA RefuseSound ==
  ASSUME NEW c \in Clients, NEW g \in Handlers, NEW n \in Conns, NEW e \in Works,
         Sound(c, g, n, e), c.st = "new",
         NEW d, d = [c EXCEPT !.st = "answered", !.fin = "refused"]
  PROVE  d \in Clients /\ Sound(d, g, n, e)
<1>1. d \in Clients /\ d.st = "answered" /\ d.got = c.got /\ d.fin = "refused"
  BY DEF Clients
<1> QED BY <1>1 DEF Sound, Bounded, Unborn, Phases, Prefix, Channel, Transit

\* The engine takes the request.
LEMMA ConnectSound ==
  ASSUME NEW c \in Clients, NEW g \in Handlers, NEW n \in Conns, NEW e \in Works,
         Sound(c, g, n, e), g.fwd = "connect",
         NEW h, h = [g EXCEPT !.fwd = "read"],
         NEW m, m = [n EXCEPT !.up = TRUE, !.down = TRUE],
         NEW f, f = [e EXCEPT !.st = "live", !.open = TRUE]
  PROVE  h \in Handlers /\ m \in Conns /\ f \in Works /\ Sound(c, h, m, f)
<1>1. /\ h \in Handlers /\ h.hand = g.hand /\ h.fwd = "read" /\ h.chan = g.chan
      /\ h.asked = g.asked
      /\ m \in Conns /\ m.wire = n.wire
      /\ f \in Works /\ f.st = "live" /\ f.open /\ f.made = e.made /\ f.dq = e.dq
  BY DEF Handlers, Conns, Works
<1>0. /\ c.got = <<>> /\ g.chan = <<>> /\ e.st = "none" /\ e.made = 0 /\ e.dq = <<>>
      /\ n.wire = <<>>
  BY DEF Sound, Unborn
<1>2. Bounded(h, m, f) /\ Unborn(c, h, m, f) /\ Phases(c, h, f)
  BY <1>0, <1>1 DEF Sound, Bounded, Unborn, Phases
<1>3. Prefix(c, h, f)
  BY <1>1 DEF Sound, Prefix
<1>4. Channel(c, h, f)
  BY <1>0, <1>1, RunEmpty DEF Channel
<1>5. Transit(c, h, m, f)
  BY <1>0, <1>1, RunEmpty, CountEmpty DEF Transit, Behind, QueueOK
<1> QED BY <1>1, <1>2, <1>3, <1>4, <1>5 DEF Sound

\* The engine refuses the request, or the stream breaks off.
LEMMA FailSound ==
  ASSUME NEW c \in Clients, NEW g \in Handlers, NEW n \in Conns, NEW e \in Works,
         Sound(c, g, n, e), g.fwd \in {"connect", "read"},
         NEW h, h = [g EXCEPT !.fwd = "fail"]
  PROVE  h \in Handlers /\ Sound(c, h, n, e)
<1>1. /\ h \in Handlers /\ h.hand = g.hand /\ h.fwd = "fail" /\ h.chan = g.chan
      /\ h.asked = g.asked
  BY DEF Handlers
<1> QED BY <1>1 DEF Sound, Bounded, Unborn, Phases, Prefix, Channel, Transit

\* The forwarder closes its side of a connection it no longer reads.
LEMMA HangUpSound ==
  ASSUME NEW c \in Clients, NEW g \in Handlers, NEW n \in Conns, NEW e \in Works,
         Sound(c, g, n, e), g.fwd \notin {"read", "send"},
         NEW m, m = [n EXCEPT !.up = FALSE, !.wire = <<>>]
  PROVE  m \in Conns /\ Sound(c, g, m, e)
<1>1. m \in Conns /\ m.wire = <<>> /\ m.down = n.down
  BY NoFrames DEF Conns
<1> QED BY <1>1, CountEmpty, Capacities
        DEF Sound, Bounded, Unborn, Phases, Prefix, Channel, Transit

\* The forwarder reads a line.
LEMMA ReadSound ==
  ASSUME NEW c \in Clients, NEW g \in Handlers, NEW n \in Conns, NEW e \in Works,
         Sound(c, g, n, e), g.fwd = "read", n.wire # <<>>,
         NEW h, h = [g EXCEPT !.fwd = "send", !.held = Head(n.wire)],
         NEW m, m = [n EXCEPT !.wire = Tail(n.wire)]
  PROVE  h \in Handlers /\ m \in Conns /\ Sound(c, h, m, e)
<1> DEFINE d == Head(n.wire)
           t == Tail(n.wire)
           b == Count(c.got) + Count(g.chan)
<1>1. /\ d \in Deltas /\ t \in Seq(Deltas) /\ Count(t) = Count(n.wire) - 1
      /\ Count(n.wire) \in Nat /\ b \in Nat /\ Count(t) \in Nat
  BY ConnFields, ClientFields, HandlerFields, CountRules
<1> HIDE DEF d, t
<1>2. /\ h \in Handlers /\ h.hand = g.hand /\ h.fwd = "send" /\ h.chan = g.chan
      /\ h.asked = g.asked /\ h.held = d
      /\ m \in Conns /\ m.wire = t /\ m.down = n.down
  BY <1>1 DEF Handlers, Conns, d, t
<1>3. Bounded(h, m, e) /\ Unborn(c, h, m, e) /\ Phases(c, h, e)
  BY <1>1, <1>2, Capacities DEF Sound, Bounded, Unborn, Phases, t
<1>4. Prefix(c, h, e) /\ Channel(c, h, e)
  BY <1>2 DEF Sound, Prefix, Channel
<1>5. Transit(c, h, m, e)
  <2> SUFFICES ASSUME g.hand = "recv"
               PROVE  /\ FrameOK(d, b, e)
                      /\ d.fin = "none" => /\ RunOK(t, b + 1, e)
                                           /\ n.down => NoEnd(t) /\ QueueOK(e, b + 1 + Count(t))
    BY <1>2 DEF Transit, Behind
  <2>1. RunOK(n.wire, b, e) /\ (n.down => NoEnd(n.wire) /\ QueueOK(e, b + Count(n.wire)))
    <3>1. Behind(c, g) = b
      BY <1>1 DEF Behind
    <3> QED BY <3>1 DEF Sound, Transit
  <2>2. /\ FrameOK(d, b, e) /\ (d.fin = "none" => RunOK(t, b + 1, e))
        /\ NoEnd(n.wire) => NoEnd(t)
    BY <2>1, <1>1, ConnFields, RunTail DEF d, t
  <2>3. b + 1 + Count(t) = b + Count(n.wire)
    BY <1>1
  <2> QED BY <2>1, <2>2, <2>3
<1> QED BY <1>2, <1>3, <1>4, <1>5 DEF Sound

\* A frame joins the channel: an end closes it, another token is counted.
LEMMA ChannelGrows ==
  ASSUME NEW c \in Clients, NEW g \in Handlers, NEW e, NEW d \in Deltas,
         RunOK(g.chan, Count(c.got), e), NoEnd(g.chan),
         FrameOK(d, Count(c.got) + Count(g.chan), e)
  PROVE  /\ Append(g.chan, d) \in Seq(Deltas)
         /\ Append(g.chan, d) # <<>>
         /\ Count(Append(g.chan, d)) = Count(g.chan) + 1
         /\ RunOK(Append(g.chan, d), Count(c.got), e)
         /\ d.fin = "none" => NoEnd(Append(g.chan, d))
         /\ d.fin # "none" => Ends(Append(g.chan, d))
<1>1. g.chan \in Seq(Deltas) /\ Count(c.got) \in Nat
  BY HandlerFields, ClientFields
<1>2. /\ Append(g.chan, d) \in Seq(Deltas) /\ Append(g.chan, d) # <<>>
      /\ Count(Append(g.chan, d)) = Count(g.chan) + 1
  BY <1>1, CountRules
<1>3. /\ RunOK(Append(g.chan, d), Count(c.got), e)
      /\ d.fin = "none" => NoEnd(Append(g.chan, d))
  BY <1>1, RunAppend
<1>4. Append(g.chan, d)[Len(Append(g.chan, d))] = d
  BY <1>1
<1> QED BY <1>2, <1>3, <1>4 DEF Ends

\* The forwarder hands its frame to the channel; after an end it hangs up.
Sent(g) == [g EXCEPT !.chan = Append(g.chan, g.held),
                     !.fwd = IF IsLast(g.held) THEN "end" ELSE "read"]

\* tx.send of the frame in the forwarder's hand.
LEMMA SendSound ==
  ASSUME NEW c \in Clients, NEW g \in Handlers, NEW n \in Conns, NEW e \in Works,
         Sound(c, g, n, e), g.fwd = "send", g.hand # "off", Count(g.chan) < ChanCap
  PROVE  Sent(g) \in Handlers /\ Sound(c, Sent(g), n, e)
<1> DEFINE h == Sent(g)
           d == g.held
           w == Append(g.chan, d)
           b == Count(c.got) + Count(g.chan)
<1>0. g.hand = "recv"
  BY DEF Sound, Phases, Handlers
<1>1. d \in Deltas /\ b \in Nat /\ Count(g.chan) \in Nat /\ Count(c.got) \in Nat
  BY HandlerFields, ClientFields
<1>2. RunOK(g.chan, Count(c.got), e) /\ NoEnd(g.chan) /\ FrameOK(d, b, e)
  BY <1>0 DEF Sound, Channel, Transit
<1>3. /\ w \in Seq(Deltas) /\ Count(w) = Count(g.chan) + 1 /\ w # <<>>
      /\ RunOK(w, Count(c.got), e)
      /\ d.fin = "none" => NoEnd(w)
      /\ d.fin # "none" => Ends(w)
  BY <1>1, <1>2, ChannelGrows
<1>4. h = [g EXCEPT !.chan = w, !.fwd = IF d.fin # "none" THEN "end" ELSE "read"]
  BY DEF IsLast, Sent
<1> HIDE DEF d, w, h
<1>5. /\ h \in Handlers /\ h.hand = "recv" /\ h.chan = w /\ h.asked = g.asked
      /\ d.fin # "none" => h.fwd = "end"
      /\ d.fin = "none" => h.fwd = "read"
  BY <1>0, <1>3, <1>4 DEF Handlers
<1>6. Bounded(h, n, e) /\ Unborn(c, h, n, e) /\ Phases(c, h, e)
  <2>1. Bounded(h, n, e)
    <3>1. Count(w) <= ChanCap
      BY <1>1, <1>3, Capacities
    <3> QED BY <3>1, <1>5 DEF Sound, Bounded
  <2>2. Unborn(c, h, n, e)
    BY <1>0, <1>5 DEF Sound, Unborn, Phases
  <2>3. Phases(c, h, e)
    BY <1>0, <1>5 DEF Sound, Phases
  <2> QED BY <2>1, <2>2, <2>3
<1>7. Prefix(c, h, e)
  BY <1>0, <1>5 DEF Sound, Prefix, Phases
<1>8. Channel(c, h, e)
  BY <1>3, <1>5 DEF Channel
<1>9. Transit(c, h, n, e)
  <2>1. d.fin = "none" => Behind(c, h) = Behind(c, g)
    <3>1. Behind(c, g) = b + 1
      BY DEF Behind
    <3>2. d.fin = "none" => Behind(c, h) = Count(c.got) + Count(w) + 0
      BY <1>5 DEF Behind
    <3> QED BY <3>1, <3>2, <1>1, <1>3
  <2> QED BY <2>1, <1>0, <1>5 DEF Sound, Transit, d
<1> QED BY <1>5, <1>6, <1>7, <1>8, <1>9 DEF Sound, h

\* The send fails because nobody listens, and the forwarder asks for a cancel.
LEMMA AskSound ==
  ASSUME NEW c \in Clients, NEW g \in Handlers, NEW n \in Conns, NEW e \in Works,
         Sound(c, g, n, e), g.fwd = "send", g.hand = "off",
         NEW h, h = [g EXCEPT !.fwd = "await", !.asked = TRUE]
  PROVE  h \in Handlers /\ Sound(c, h, n, e)
<1>1. /\ h \in Handlers /\ h.hand = "off" /\ h.fwd = "await" /\ h.chan = g.chan /\ h.asked
  BY DEF Handlers
<1> QED BY <1>1 DEF Sound, Bounded, Unborn, Phases, Prefix, Channel, Transit

\* The error delta joins the channel.
LEMMA ErrorSound ==
  ASSUME NEW c \in Clients, NEW g \in Handlers, NEW n \in Conns, NEW e \in Works,
         Sound(c, g, n, e), g.fwd = "fail", g.hand # "off", Count(g.chan) < ChanCap,
         NEW h, h = [g EXCEPT !.fwd = "end", !.chan = Append(g.chan, Delta(0, "error"))]
  PROVE  h \in Handlers /\ Sound(c, h, n, e)
<1> DEFINE d == Delta(0, "error")
           w == Append(g.chan, d)
<1>0. g.hand = "recv"
  BY DEF Sound, Phases, Handlers
<1>1. /\ d \in Deltas /\ d.fin # "none" /\ Count(g.chan) \in Nat /\ Count(c.got) \in Nat
      /\ FrameOK(d, Count(c.got) + Count(g.chan), e)
  BY NoText, HandlerFields, ClientFields DEF Delta, Endings, FrameOK
<1>2. RunOK(g.chan, Count(c.got), e) /\ NoEnd(g.chan)
  BY <1>0 DEF Sound, Channel
<1> HIDE DEF d
<1>3. /\ w \in Seq(Deltas) /\ Count(w) = Count(g.chan) + 1 /\ w # <<>>
      /\ RunOK(w, Count(c.got), e) /\ Ends(w)
  BY <1>1, <1>2, ChannelGrows
<1> HIDE DEF w
<1>5. /\ h \in Handlers /\ h.hand = "recv" /\ h.chan = w /\ h.asked = g.asked /\ h.fwd = "end"
  BY <1>0, <1>3 DEF Handlers, w, d
<1>6. Bounded(h, n, e) /\ Unborn(c, h, n, e) /\ Phases(c, h, e)
  <2>1. Bounded(h, n, e)
    <3>1. Count(w) <= ChanCap
      BY <1>1, <1>3, Capacities
    <3> QED BY <3>1, <1>5 DEF Sound, Bounded
  <2>2. Unborn(c, h, n, e)
    BY <1>0, <1>5 DEF Sound, Unborn, Phases
  <2>3. Phases(c, h, e)
    BY <1>0, <1>5 DEF Sound, Phases
  <2> QED BY <2>1, <2>2, <2>3
<1> QED BY <1>0, <1>3, <1>5, <1>6 DEF Sound, Prefix, Phases, Channel, Transit

\* The forwarder, or the stub's task, ends without a listener.
LEMMA QuietSound ==
  ASSUME NEW c \in Clients, NEW g \in Handlers, NEW n \in Conns, NEW e \in Works,
         Sound(c, g, n, e), g.fwd \in {"await", "fail", "stub"}, g.hand = "off",
         NEW h, h = [g EXCEPT !.fwd = "end"]
  PROVE  h \in Handlers /\ Sound(c, h, n, e)
<1>1. /\ h \in Handlers /\ h.hand = "off" /\ h.fwd = "end" /\ h.chan = g.chan
      /\ h.asked = g.asked
  BY DEF Handlers
<1> QED BY <1>1 DEF Sound, Bounded, Unborn, Phases, Prefix, Channel, Transit

\* Frames that do not end anything do not depend on where the engine stopped.
LEMMA RunFree ==
  ASSUME NEW s, NEW n, NEW e, NEW f, RunOK(s, n, e), NoEnd(s)
  PROVE  RunOK(s, n, f)
  BY DEF RunOK, NoEnd, FrameOK

\* The stub's task sends a word.
StubSent(g, e, fin) == [g EXCEPT !.chan = Append(g.chan, Delta(e.made + 1, fin)),
                                 !.fwd = IF fin = "none" THEN "stub" ELSE "end"]
StubMade(e) == [e EXCEPT !.made = e.made + 1]

\* The stub engine sends a word of its reply.
LEMMA StubSound ==
  ASSUME NEW c \in Clients, NEW g \in Handlers, NEW n \in Conns, NEW e \in Works,
         Sound(c, g, n, e), g.fwd = "stub", g.hand # "off", Count(g.chan) < ChanCap,
         NEW fin \in {"none", "stop"}, fin = "none" => e.made + 1 < MaxTokens
  PROVE  /\ StubSent(g, e, fin) \in Handlers /\ StubMade(e) \in Works
         /\ Sound(c, StubSent(g, e, fin), n, StubMade(e))
<1> DEFINE h == StubSent(g, e, fin)
           f == StubMade(e)
           d == Delta(e.made + 1, fin)
           w == Append(g.chan, d)
<1>0. g.hand = "recv"
  BY DEF Sound, Phases, Handlers
<1>a. /\ e.made < MaxTokens /\ e.made \in Nat /\ e.made + 1 \in 0..MaxTokens
      /\ e.made = Count(c.got) + Count(g.chan) /\ e.st = "none"
  BY <1>0, WorkFields, Capacities DEF Sound, Channel
<1>b. f \in Works /\ f.made = e.made + 1 /\ f.st = "none" /\ f.open = e.open /\ f.dq = e.dq
  BY <1>a DEF Works, StubMade
<1> HIDE DEF f
<1>1. /\ d \in Deltas /\ d.fin = fin /\ Count(g.chan) \in Nat /\ Count(c.got) \in Nat
      /\ d.tok = e.made + 1
  BY <1>a, HandlerFields, ClientFields DEF Delta, Deltas, Endings
<1>c. FrameOK(d, Count(c.got) + Count(g.chan), f)
  BY <1>a, <1>b, <1>1 DEF FrameOK
<1>2. RunOK(g.chan, Count(c.got), f) /\ NoEnd(g.chan)
  BY <1>0, RunFree DEF Sound, Channel
<1>4. h = [g EXCEPT !.chan = w, !.fwd = IF fin = "none" THEN "stub" ELSE "end"]
  BY DEF StubSent
<1> HIDE DEF d, h
<1>3. /\ w \in Seq(Deltas) /\ Count(w) = Count(g.chan) + 1 /\ w # <<>>
      /\ RunOK(w, Count(c.got), f)
      /\ d.fin = "none" => NoEnd(w)
      /\ d.fin # "none" => Ends(w)
  BY <1>c, <1>1, <1>2, ChannelGrows
<1> HIDE DEF w
<1>5. /\ h \in Handlers /\ h.hand = "recv" /\ h.chan = w /\ h.asked = g.asked
      /\ fin = "none" => h.fwd = "stub"
      /\ fin # "none" => h.fwd = "end"
  BY <1>0, <1>3, <1>4 DEF Handlers
<1>6. Bounded(h, n, f) /\ Unborn(c, h, n, f) /\ Phases(c, h, f)
  <2>1. Bounded(h, n, f)
    <3>1. Count(w) <= ChanCap
      BY <1>1, <1>3, Capacities
    <3> QED BY <3>1, <1>5, <1>b DEF Sound, Bounded
  <2>2. Unborn(c, h, n, f)
    BY <1>0, <1>5, <1>a, <1>b DEF Sound, Unborn, Phases
  <2>3. Phases(c, h, f)
    BY <1>0, <1>5, <1>b DEF Sound, Phases
  <2> QED BY <2>1, <2>2, <2>3
<1>7. Prefix(c, h, f)
  BY <1>0, <1>5 DEF Sound, Prefix, Phases
<1>8. Channel(c, h, f)
  <2>1. fin = "none" => f.made < MaxTokens /\ f.made = Count(c.got) + Count(w)
    BY <1>a, <1>b, <1>1, <1>3
  <2> QED BY <2>1, <1>1, <1>3, <1>5, <1>b DEF Channel
<1>9. Transit(c, h, n, f)
  BY <1>5 DEF Transit
<1> QED BY <1>b, <1>5, <1>6, <1>7, <1>8, <1>9 DEF Sound, h, f

----------------------------------------------------------------------------
(* Steps of the handler *)

\* What the text becomes with frame d.
Grown(c, d) == IF d.tok = 0 THEN c.got ELSE Append(c.got, d.tok)

\* What a frame of the stretch adds to the client's text.
LEMMA GrownText ==
  ASSUME NEW c \in Clients, NEW d \in Deltas, NEW e \in Works,
         c.got = Upto(Count(c.got)), Count(c.got) <= MaxTokens, FrameOK(d, Count(c.got), e)
  PROVE  /\ Grown(c, d) \in Seq(1..MaxTokens) /\ Count(Grown(c, d)) \in Nat
         /\ Grown(c, d) = Upto(Count(Grown(c, d))) /\ Count(Grown(c, d)) <= MaxTokens
         /\ Count(c.got) <= Count(Grown(c, d))
         /\ d.fin = "none" => Count(Grown(c, d)) = Count(c.got) + 1
         /\ d.fin = "stop" => e.made = Count(Grown(c, d)) /\ e.st # "live"
         /\ d.fin \notin {"none", "stop"} => Grown(c, d) = c.got
<1>1. Count(c.got) \in Nat /\ c.got \in Seq(1..MaxTokens) /\ d.tok \in 0..MaxTokens
  BY ClientFields DEF Deltas
<1>2. CASE d.tok = 0
  <2>1. Grown(c, d) = c.got
    BY <1>2 DEF Grown
  <2>2. d.fin # "none"
    BY <1>1, <1>2 DEF FrameOK
  <2>3. d.fin = "stop" => e.made = Count(c.got) /\ e.st # "live"
    BY <1>1, <1>2 DEF FrameOK
  <2> QED BY <2>1, <2>2, <2>3, <1>1
<1>3. CASE d.tok # 0
  <2>1. d.tok = Count(c.got) + 1 /\ d.fin \in {"none", "stop"}
    BY <1>1, <1>3 DEF FrameOK
  <2>2. Count(c.got) + 1 <= MaxTokens
    BY <2>1, <1>1, Capacities
  <2>3. Grown(c, d) = Append(c.got, Count(c.got) + 1)
    BY <2>1, <1>3 DEF Grown
  <2>4. /\ Grown(c, d) \in Seq(1..MaxTokens) /\ Count(Grown(c, d)) = Count(c.got) + 1
        /\ Grown(c, d) = Upto(Count(c.got) + 1)
    BY <2>2, <2>3, <1>1, UptoAppend
  <2>5. d.fin = "stop" => e.made = Count(c.got) + 1 /\ e.st # "live"
    BY <1>1, <1>3 DEF FrameOK
  <2> HIDE DEF Grown
  <2> QED BY <2>1, <2>2, <2>4, <2>5, <1>1
<1> QED BY <1>2, <1>3

\* What a handler that receives finds at the head of the channel.
LEMMA Received ==
  ASSUME NEW c \in Clients, NEW g \in Handlers, NEW n \in Conns, NEW e \in Works,
         Sound(c, g, n, e), g.hand = "recv", g.chan # <<>>
  PROVE  /\ Head(g.chan) \in Deltas /\ Tail(g.chan) \in Seq(Deltas)
         /\ Count(Tail(g.chan)) = Count(g.chan) - 1 /\ Count(Tail(g.chan)) \in Nat
         /\ FrameOK(Head(g.chan), Count(c.got), e)
         /\ Head(g.chan).fin # "none" => g.fwd = "end" /\ Tail(g.chan) = <<>>
         /\ Head(g.chan).fin = "none" =>
              /\ RunOK(Tail(g.chan), Count(c.got) + 1, e)
              /\ g.fwd # "end" => NoEnd(Tail(g.chan))
              /\ g.fwd = "end" => Tail(g.chan) # <<>> /\ Ends(Tail(g.chan))
<1>1. /\ g.chan \in Seq(Deltas) /\ Count(c.got) \in Nat
      /\ Head(g.chan) \in Deltas /\ Tail(g.chan) \in Seq(Deltas)
      /\ Count(Tail(g.chan)) = Count(g.chan) - 1 /\ Count(Tail(g.chan)) \in Nat
  BY HandlerFields, ClientFields, CountRules
<1>2. /\ RunOK(g.chan, Count(c.got), e)
      /\ g.fwd # "end" => NoEnd(g.chan)
      /\ g.fwd = "end" => Ends(g.chan)
  BY DEF Sound, Channel
<1>3. /\ FrameOK(Head(g.chan), Count(c.got), e)
      /\ Head(g.chan).fin = "none" => RunOK(Tail(g.chan), Count(c.got) + 1, e)
      /\ Head(g.chan).fin # "none" => Tail(g.chan) = <<>>
      /\ NoEnd(g.chan) => NoEnd(Tail(g.chan))
      /\ Ends(g.chan) /\ Tail(g.chan) # <<>> => Ends(Tail(g.chan))
      /\ Ends(g.chan) /\ Tail(g.chan) = <<>> => Head(g.chan).fin # "none"
  BY <1>1, <1>2, RunTail
<1>4. NoEnd(g.chan) => Head(g.chan).fin = "none"
  <2>1. 1 \in 1..Len(g.chan) /\ Head(g.chan) = g.chan[1]
    BY <1>1
  <2> QED BY <2>1 DEF NoEnd
<1> QED BY <1>1, <1>2, <1>3, <1>4

\* A handler takes a token and goes on receiving.
LEMMA TokenSound ==
  ASSUME NEW c \in Clients, NEW g \in Handlers, NEW n \in Conns, NEW e \in Works,
         Sound(c, g, n, e), g.hand = "recv", g.chan # <<>>, Head(g.chan).fin = "none",
         NEW d \in Clients, NEW h \in Handlers,
         d.st = c.st, d.fin = "none", d.got = Grown(c, Head(g.chan)),
         h.hand = "recv", h.chan = Tail(g.chan), h.fwd = g.fwd, h.mode = g.mode,
         h.reason = g.reason, h.held = g.held, h.asked = g.asked
  PROVE  Sound(d, h, n, e)
<1> DEFINE a == Head(g.chan)
           t == Tail(g.chan)
<1>1. /\ a \in Deltas /\ t \in Seq(Deltas)
      /\ Count(t) = Count(g.chan) - 1 /\ Count(t) \in Nat
      /\ FrameOK(a, Count(c.got), e)
      /\ RunOK(t, Count(c.got) + 1, e)
      /\ g.fwd # "end" => NoEnd(t)
      /\ g.fwd = "end" => t # <<>> /\ Ends(t)
  BY Received
<1>2. c.got = Upto(Count(c.got)) /\ Count(c.got) <= MaxTokens
  BY DEF Sound, Prefix
<1> HIDE DEF a, t
<1>3. /\ d.got = Upto(Count(d.got)) /\ Count(d.got) <= MaxTokens
      /\ Count(d.got) = Count(c.got) + 1
  BY <1>1, <1>2, GrownText DEF a
<1>4. Count(c.got) \in Nat /\ Count(g.chan) \in Nat
  BY ClientFields, HandlerFields
<1>5. c.fin = "none" /\ c.st = "waiting"
  BY DEF Sound, Phases
<1>6. Bounded(h, n, e) /\ Unborn(d, h, n, e) /\ Phases(d, h, e)
  <2>1. Bounded(h, n, e)
    <3>1. Count(g.chan) <= ChanCap
      BY DEF Sound, Bounded
    <3>2. Count(t) <= ChanCap
      BY <3>1, <1>1, <1>4, Capacities
    <3> QED BY <3>2 DEF Sound, Bounded, t
  <2>2. Unborn(d, h, n, e)
    BY <1>5 DEF Sound, Unborn
  <2>3. Phases(d, h, e)
    BY <1>5 DEF Sound, Phases
  <2> QED BY <2>1, <2>2, <2>3
<1>7. Prefix(d, h, e)
  BY <1>3 DEF Prefix
<1>8. Channel(d, h, e)
  <2>1. RunOK(t, Count(d.got), e)
    BY <1>1, <1>3
  <2>2. Count(d.got) + Count(t) = Count(c.got) + Count(g.chan)
    BY <1>1, <1>3, <1>4
  <2> QED BY <2>1, <2>2, <1>1 DEF Sound, Channel, t
<1>9. Transit(d, h, n, e)
  <2>1. Count(d.got) + Count(t) = Count(c.got) + Count(g.chan)
    BY <1>1, <1>3, <1>4
  <2>2. Behind(d, h) = Behind(c, g)
    BY <2>1 DEF Behind, t
  <2> QED BY <2>1, <2>2 DEF Sound, Transit, t
<1> QED BY <1>6, <1>7, <1>8, <1>9 DEF Sound

\* A handler takes the end of the stream and tells the client.
LEMMA EndSound ==
  ASSUME NEW c \in Clients, NEW g \in Handlers, NEW n \in Conns, NEW e \in Works,
         Sound(c, g, n, e), g.hand = "recv", g.chan # <<>>, Head(g.chan).fin # "none",
         NEW d \in Clients, NEW h \in Handlers,
         d.st = c.st, d.fin = Head(g.chan).fin, d.got = Grown(c, Head(g.chan)),
         h.hand \in {"cancel", "done"}, h.hand = "cancel" => d.fin = "error",
         h.chan = <<>>, h.fwd = g.fwd, h.asked = g.asked
  PROVE  Sound(d, h, n, e)
<1> DEFINE a == Head(g.chan)
<1>1. a \in Deltas /\ FrameOK(a, Count(c.got), e) /\ g.fwd = "end"
  BY Received
<1>2. c.got = Upto(Count(c.got)) /\ Count(c.got) <= MaxTokens
  BY DEF Sound, Prefix
<1> HIDE DEF a
<1>3. /\ d.got = Upto(Count(d.got)) /\ Count(d.got) <= MaxTokens
      /\ d.fin = "stop" => e.made = Count(d.got) /\ e.st # "live"
  BY <1>1, <1>2, GrownText DEF a
<1>5. c.fin = "none" /\ c.st = "waiting"
  BY DEF Sound, Phases
<1>6. Bounded(h, n, e) /\ Unborn(d, h, n, e) /\ Phases(d, h, e)
  <2>1. Bounded(h, n, e)
    BY CountEmpty, Capacities DEF Sound, Bounded
  <2>2. Unborn(d, h, n, e)
    BY <1>1, <1>5 DEF Sound, Unborn
  <2>3. Phases(d, h, e)
    BY <1>1, <1>5 DEF Sound, Phases
  <2> QED BY <2>1, <2>2, <2>3
<1>7. Prefix(d, h, e)
  BY <1>1, <1>3 DEF Prefix
<1> QED BY <1>1, <1>6, <1>7 DEF Sound, Channel, Transit

\* generate_blocking takes the end of the stream and waits for the channel to close.
LEMMA ReasonSound ==
  ASSUME NEW c \in Clients, NEW g \in Handlers, NEW n \in Conns, NEW e \in Works,
         Sound(c, g, n, e), g.hand = "recv", g.mode = "blocking", g.chan # <<>>,
         Head(g.chan).fin # "none",
         NEW d \in Clients, NEW h \in Handlers,
         d.st = c.st, d.fin = c.fin, d.got = Grown(c, Head(g.chan)),
         h.hand = "recv", h.mode = "blocking", h.chan = Tail(g.chan),
         h.reason = Head(g.chan).fin, h.fwd = g.fwd, h.asked = g.asked
  PROVE  Sound(d, h, n, e)
<1> DEFINE a == Head(g.chan)
<1>1. a \in Deltas /\ FrameOK(a, Count(c.got), e) /\ g.fwd = "end" /\ h.chan = <<>>
  BY Received
<1>2. c.got = Upto(Count(c.got)) /\ Count(c.got) <= MaxTokens
  BY DEF Sound, Prefix
<1> HIDE DEF a
<1>3. /\ d.got = Upto(Count(d.got)) /\ Count(d.got) <= MaxTokens
      /\ h.reason = "stop" => e.made = Count(d.got) /\ e.st # "live"
  BY <1>1, <1>2, GrownText DEF a
<1>5. c.fin = "none" /\ c.st = "waiting"
  BY DEF Sound, Phases
<1>6. Bounded(h, n, e) /\ Unborn(d, h, n, e) /\ Phases(d, h, e)
  <2>1. Bounded(h, n, e)
    BY <1>1, CountEmpty, Capacities DEF Sound, Bounded
  <2>2. Unborn(d, h, n, e)
    BY <1>1, <1>5 DEF Sound, Unborn
  <2>3. Phases(d, h, e)
    BY <1>1, <1>5 DEF Sound, Phases
  <2> QED BY <2>1, <2>2, <2>3
<1>7. Prefix(d, h, e)
  BY <1>5, <1>3 DEF Prefix
<1>8. Channel(d, h, e)
  BY <1>1, <1>3, RunEmpty DEF Channel
<1> QED BY <1>1, <1>6, <1>7, <1>8 DEF Sound, Transit

\* The handler cancels after an error, and goes on when the cancel returns.
CancelAsked(g) == [g EXCEPT !.asked = TRUE,
                            !.hand = IF g.hand = "cancel" THEN "await" ELSE "awaitAgain"]
CancelOver(g) == [g EXCEPT !.hand = IF g.hand = "await" THEN "cancelAgain" ELSE "done"]

\* The handler's cancel leaves the invariant's stretches alone.
LEMMA CancelSound ==
  ASSUME NEW c \in Clients, NEW g \in Handlers, NEW n \in Conns, NEW e \in Works,
         Sound(c, g, n, e), g.hand \in {"cancel", "cancelAgain"}
  PROVE  CancelAsked(g) \in Handlers /\ Sound(c, CancelAsked(g), n, e)
<1> DEFINE h == CancelAsked(g)
<1>1. /\ h \in Handlers /\ h.hand \in {"await", "awaitAgain"} /\ h.fwd = g.fwd
      /\ h.chan = g.chan /\ h.asked
  BY DEF Handlers, CancelAsked
<1> HIDE DEF h
<1>2. Sound(c, h, n, e)
  BY <1>1 DEF Sound, Bounded, Unborn, Phases, Prefix, Channel, Transit
<1> QED BY <1>1, <1>2 DEF h

\* So does its return.
LEMMA ReturnSound ==
  ASSUME NEW c \in Clients, NEW g \in Handlers, NEW n \in Conns, NEW e \in Works,
         Sound(c, g, n, e), g.hand \in {"await", "awaitAgain"}
  PROVE  CancelOver(g) \in Handlers /\ Sound(c, CancelOver(g), n, e)
<1> DEFINE h == CancelOver(g)
<1>1. /\ h \in Handlers /\ h.hand \in {"cancelAgain", "done"} /\ h.fwd = g.fwd
      /\ h.chan = g.chan /\ h.asked = g.asked
  BY DEF Handlers, CancelOver
<1> HIDE DEF h
<1>2. Sound(c, h, n, e)
  BY <1>1 DEF Sound, Bounded, Unborn, Phases, Prefix, Channel, Transit
<1> QED BY <1>1, <1>2 DEF h

\* The channel is closed and empty, so generate_blocking has seen the end.
LEMMA ClosedSound ==
  ASSUME NEW c \in Clients, NEW g \in Handlers, NEW n \in Conns, NEW e \in Works,
         Sound(c, g, n, e), g.hand = "recv", g.chan = <<>>, g.fwd = "end",
         NEW d, d = [c EXCEPT !.fin = g.reason],
         NEW h, h = [g EXCEPT !.hand = "done"]
  PROVE  /\ g.mode = "blocking" /\ d \in Clients /\ h \in Handlers /\ Sound(d, h, n, e)
<1>1. /\ h \in Handlers /\ h.hand = "done" /\ h.fwd = "end" /\ h.chan = g.chan
      /\ h.asked = g.asked
      /\ d \in Clients /\ d.st = c.st /\ d.got = c.got /\ d.fin = g.reason
      /\ d.fin # "none"
  BY DEF Handlers, Clients, Endings
<1>2. /\ g.mode = "blocking"
      /\ g.reason = "stop" => e.made = Count(c.got) /\ e.st # "live"
  BY DEF Sound, Channel
<1> QED BY <1>1, <1>2 DEF Sound, Bounded, Unborn, Phases, Prefix, Channel, Transit

\* The answer ends the handler.
LEMMA AnswerSound ==
  ASSUME NEW c \in Clients, NEW g \in Handlers, NEW n \in Conns, NEW e \in Works,
         Sound(c, g, n, e), g.hand = "done",
         NEW d, d = [c EXCEPT !.st = "answered"],
         NEW h, h = [g EXCEPT !.hand = "off", !.chan = <<>>]
  PROVE  d \in Clients /\ h \in Handlers /\ Sound(d, h, n, e)
<1>1. /\ d \in Clients /\ d.st = "answered" /\ d.got = c.got /\ d.fin = c.fin
      /\ h \in Handlers /\ h.hand = "off" /\ h.fwd = g.fwd /\ h.chan = <<>>
      /\ h.asked = g.asked
  BY NoFrames DEF Clients, Handlers
<1> QED BY <1>1, CountEmpty, Capacities
        DEF Sound, Bounded, Unborn, Phases, Prefix, Channel, Transit

\* The stub answers a blocking request at once.
LEMMA StubAnswerSound ==
  ASSUME NEW c \in Clients, NEW g \in Handlers, NEW n \in Conns, NEW e \in Works,
         Sound(c, g, n, e), g.hand = "recv", g.fwd = "off", NEW k \in 1..MaxTokens,
         NEW d, d = [c EXCEPT !.got = Upto(k), !.fin = "stop"],
         NEW h, h = [g EXCEPT !.hand = "done"],
         NEW f, f = [e EXCEPT !.made = k]
  PROVE  d \in Clients /\ h \in Handlers /\ f \in Works /\ Sound(d, h, n, f)
<1>0. k \in Nat /\ k <= MaxTokens /\ k \in 0..MaxTokens
  BY Capacities
<1>1. Upto(k) \in Seq(1..MaxTokens) /\ Len(Upto(k)) = k
  BY <1>0, Capacities DEF Upto
<1>2. Count(Upto(k)) = k
  BY <1>1 DEF Count
<1>3. d \in Clients /\ d.st = c.st /\ d.got = Upto(k) /\ d.fin = "stop"
  BY <1>1 DEF Clients, Endings
<1>4. /\ h \in Handlers /\ h.hand = "done" /\ h.fwd = "off" /\ h.chan = g.chan
      /\ h.asked = g.asked
  BY DEF Handlers
<1>5. f \in Works /\ f.made = k /\ f.st = e.st /\ f.open = e.open /\ f.dq = e.dq
  BY <1>0 DEF Works
<1>6. e.st = "none" /\ c.st = "waiting"
  BY DEF Sound, Phases
<1>7. Bounded(h, n, f) /\ Unborn(d, h, n, f) /\ Phases(d, h, f)
  BY <1>3, <1>4, <1>5, <1>6 DEF Sound, Bounded, Unborn, Phases
<1>8. Prefix(d, h, f)
  BY <1>0, <1>2, <1>3, <1>4, <1>5, <1>6 DEF Prefix
<1> QED BY <1>3, <1>4, <1>5, <1>7, <1>8 DEF Sound, Channel, Transit

----------------------------------------------------------------------------
(* Steps of the processes *)

\* The engine process dies under a request it knows.
LEMMA DeadSound ==
  ASSUME NEW c \in Clients, NEW g \in Handlers, NEW n \in Conns, NEW e \in Works,
         Sound(c, g, n, e), e.st # "none",
         NEW f, f = [st |-> "over", open |-> FALSE, dq |-> <<>>, made |-> e.made]
  PROVE  f \in Works /\ Sound(c, g, n, f)
<1>1. /\ f \in Works /\ f.st = "over" /\ ~ f.open /\ f.dq = <<>> /\ f.made = e.made
  BY NoFrames DEF Works
<1>2. Frozen(e, f) /\ Count(f.dq) <= QueueCap
  BY <1>1, CountEmpty, Capacities DEF Frozen
<1>3. \A k \in Nat : QueueOK(f, k)
  BY <1>1, RunEmpty DEF QueueOK
<1> QED BY <1>1, <1>2, <1>3, WorkSound

\* The server process exits: nobody waits for an answer any more.
LEMMA ExitSound ==
  ASSUME NEW c \in Clients, NEW g \in Handlers, NEW n \in Conns, NEW e \in Works,
         Sound(c, g, n, e), c.st # "waiting",
         NEW h, h = [g EXCEPT !.fwd = "off", !.chan = <<>>],
         NEW m \in Conns,
         \/ m.wire = <<>> /\ ~ m.down
         \/ m.wire = n.wire /\ m.down = n.down
  PROVE  h \in Handlers /\ Sound(c, h, m, e)
<1>1. /\ h \in Handlers /\ h.hand = g.hand /\ h.fwd = "off" /\ h.chan = <<>>
      /\ h.asked = g.asked
  BY NoFrames DEF Handlers
<1>2. g.hand = "off"
  BY DEF Sound, Phases
<1>3. Bounded(h, m, e)
  BY <1>1, CountEmpty, Capacities DEF Sound, Bounded
<1>4. Unborn(c, h, m, e) /\ Phases(c, h, e) /\ Prefix(c, h, e)
  BY <1>1, <1>2 DEF Sound, Unborn, Phases, Prefix
<1> QED BY <1>1, <1>2, <1>3, <1>4 DEF Sound, Channel, Transit

----------------------------------------------------------------------------
(* The invariant holds *)

\* A step of one request, and of nothing else.
LEMMA OneRequest ==
  ASSUME GateInv, NEW r \in Requests,
         NEW d \in Clients, NEW h \in Handlers, NEW m \in Conns, NEW f \in Works,
         Sound(d, h, m, f), d.st = "waiting" => srv.pc \in {"serving", "closing"},
         cli' = [cli EXCEPT ![r] = d], gw' = [gw EXCEPT ![r] = h],
         net' = [net EXCEPT ![r] = m], en' = [en EXCEPT ![r] = f],
         UNCHANGED <<srv, child>>
  PROVE  GateInv'
<1>1. Typed'
  BY DEF GateInv, Typed
<1>2. ServesWhenOpen'
  BY DEF GateInv, Typed, ServesWhenOpen
<1>3. ASSUME NEW q \in Requests PROVE Sound(cli[q], gw[q], net[q], en[q])'
  <2>1. CASE q = r
    <3>1. cli'[q] = d /\ gw'[q] = h /\ net'[q] = m /\ en'[q] = f
      BY <2>1 DEF GateInv, Typed
    <3> QED BY <3>1
  <2>2. CASE q # r
    <3>1. cli'[q] = cli[q] /\ gw'[q] = gw[q] /\ net'[q] = net[q] /\ en'[q] = en[q]
      BY <2>2 DEF GateInv, Typed
    <3> QED BY <3>1 DEF GateInv
  <2> QED BY <2>1, <2>2
<1> QED BY <1>1, <1>2, <1>3 DEF GateInv

\* The records of a request.
LEMMA Records ==
  ASSUME GateInv, NEW r \in Requests
  PROVE  /\ cli[r] \in Clients /\ gw[r] \in Handlers /\ net[r] \in Conns /\ en[r] \in Works
         /\ Sound(cli[r], gw[r], net[r], en[r])
         /\ cli[r].st = "waiting" => srv.pc \in {"serving", "closing"}
         /\ cli = [cli EXCEPT ![r] = cli[r]] /\ gw = [gw EXCEPT ![r] = gw[r]]
         /\ net = [net EXCEPT ![r] = net[r]] /\ en = [en EXCEPT ![r] = en[r]]
  BY DEF GateInv, Typed, ServesWhenOpen

\* The steps of the engine on one request.
LEMMA EngineKeepsInv ==
  ASSUME GateInv, NEW r \in Requests, EngineHandler(r) \/ Generate(r) \/ Fail(r) \/ Expire(r)
  PROVE  GateInv'
<1> DEFINE c == cli[r]  g == gw[r]  n == net[r]  e == en[r]
<1>0. /\ c \in Clients /\ g \in Handlers /\ n \in Conns /\ e \in Works
      /\ Sound(c, g, n, e) /\ (c.st = "waiting" => srv.pc \in {"serving", "closing"})
      /\ cli = [cli EXCEPT ![r] = c] /\ gw = [gw EXCEPT ![r] = g]
      /\ net = [net EXCEPT ![r] = n] /\ en = [en EXCEPT ![r] = e]
  BY Records
<1>1. CASE HandlerWrites(r)
  <2> DEFINE m == [n EXCEPT !.wire = Append(n.wire, Head(e.dq)), !.down = ~ IsLast(Head(e.dq))]
             f == [e EXCEPT !.dq = Tail(e.dq)]
  <2>1. net' = [net EXCEPT ![r] = m] /\ en' = [en EXCEPT ![r] = f]
    BY <1>1, <1>0 DEF HandlerWrites
  <2>2. n.down /\ e.dq # <<>> /\ Count(n.wire) < WireCap /\ UNCHANGED <<srv, child, cli, gw>>
    BY <1>1 DEF HandlerWrites, Count
  <2>3. m \in Conns /\ f \in Works /\ Sound(c, g, m, f)
    <3> HIDE DEF c, g, n, e
    <3> QED BY <1>0, <2>2, WriteSound
  <2> HIDE DEF m, f, c, g, n, e
  <2> QED BY <1>0, <2>1, <2>2, <2>3, OneRequest
<1>2. CASE HandlerCancels(r)
  <2> DEFINE m == [n EXCEPT !.down = FALSE]
             f == Ended(e, "cancelled")
  <2>1. n.down /\ UNCHANGED <<srv, child, cli, gw>>
    BY <1>2 DEF HandlerCancels
  <2>2. e.st # "none"
    BY <1>0, <2>1 DEF Sound, Unborn
  <2>3. Cancelled(e) = f
    BY <1>0, <2>2 DEF Cancelled, Ended, Works
  <2>4. net' = [net EXCEPT ![r] = m] /\ en' = [en EXCEPT ![r] = f]
    BY <1>2, <1>0, <2>3 DEF HandlerCancels
  <2>5. m \in Conns /\ f \in Works /\ Sound(c, g, m, f)
    BY <1>0, <2>2, DownSound, EndedSound
  <2> HIDE DEF m, f, c, g, n, e
  <2> QED BY <1>0, <2>1, <2>4, <2>5, OneRequest
<1>3. CASE HandlerTornDown(r)
  <2> DEFINE m == [n EXCEPT !.down = FALSE]
  <2>1. net' = [net EXCEPT ![r] = m] /\ UNCHANGED <<srv, child, cli, gw, en>>
    BY <1>3, <1>0 DEF HandlerTornDown
  <2>2. m \in Conns /\ Sound(c, g, m, e)
    BY <1>0, DownSound
  <2> HIDE DEF m, c, g, n, e
  <2> QED BY <1>0, <2>1, <2>2, OneRequest
<1>4. CASE Generate(r)
  <2>1. e.st = "live" /\ UNCHANGED <<srv, child, cli, gw, net>>
    BY <1>4 DEF Generate
  <2>2. PICK text \in {0, 1}, fin \in {"none", "stop"} :
          /\ text = 1 => e.made < MaxTokens
          /\ fin = "none" => text = 1
          /\ en' = [en EXCEPT ![r] = Generated(e, text, fin)]
    BY <1>4 DEF Generate, Generated
  <2> DEFINE f == Generated(e, text, fin)
  <2>3. f \in Works /\ Sound(c, g, n, f)
    BY <1>0, <2>1, <2>2, GeneratedSound
  <2> HIDE DEF f, c, g, n, e
  <2> QED BY <1>0, <2>1, <2>2, <2>3, OneRequest DEF f
<1>5. CASE Fail(r)
  <2> DEFINE f == Ended(e, "error")
  <2>1. e.st = "live" /\ UNCHANGED <<srv, child, cli, gw, net>> /\ en' = [en EXCEPT ![r] = f]
    BY <1>5 DEF Fail, Ended
  <2>2. f \in Works /\ Sound(c, g, n, f)
    BY <1>0, <2>1, EndedSound
  <2> HIDE DEF f, c, g, n, e
  <2> QED BY <1>0, <2>1, <2>2, OneRequest
<1>6. CASE Expire(r)
  <2> DEFINE f == Ended(e, "timeout")
  <2>1. UNCHANGED <<srv, child, cli, gw, net>> /\ en' = [en EXCEPT ![r] = f]
    BY <1>6 DEF Expire, Ended
  <2>2. e.st # "none"
    BY <1>6, <1>0 DEF Expire, Sound, Unborn
  <2>3. f \in Works /\ Sound(c, g, n, f)
    BY <1>0, <2>2, EndedSound
  <2> HIDE DEF f, c, g, n, e
  <2> QED BY <1>0, <2>1, <2>3, OneRequest
<1> QED BY <1>1, <1>2, <1>3, <1>4, <1>5, <1>6 DEF EngineHandler

\* The steps of the client and of chat_completions.
LEMMA ClientKeepsInv ==
  ASSUME GateInv, NEW r \in Requests, ChatRefused(r) \/ ChatAccepted(r) \/ ClientLeaves(r)
  PROVE  GateInv'
<1> DEFINE c == cli[r]  g == gw[r]  n == net[r]  e == en[r]
<1>0. /\ c \in Clients /\ g \in Handlers /\ n \in Conns /\ e \in Works
      /\ Sound(c, g, n, e) /\ (c.st = "waiting" => srv.pc \in {"serving", "closing"})
      /\ cli = [cli EXCEPT ![r] = c] /\ gw = [gw EXCEPT ![r] = g]
      /\ net = [net EXCEPT ![r] = n] /\ en = [en EXCEPT ![r] = e]
  BY Records
<1>1. CASE ChatRefused(r)
  <2> DEFINE d == [c EXCEPT !.st = "answered", !.fin = "refused"]
  <2>1. cli' = [cli EXCEPT ![r] = d] /\ UNCHANGED <<srv, child, gw, net, en>> /\ c.st = "new"
    BY <1>1, <1>0 DEF ChatRefused
  <2>3. d \in Clients /\ Sound(d, g, n, e) /\ d.st # "waiting"
    <3> HIDE DEF c, g, n, e
    <3> QED BY <1>0, <2>1, RefuseSound DEF Clients
  <2> HIDE DEF d, c, g, n, e
  <2> QED BY <1>0, <2>1, <2>3, OneRequest
<1>2. CASE ChatAccepted(r)
  <2>1. PICK mode \in {"stream", "blocking"}, to \in {"connect", "stub", "off"} :
          /\ gw' = [gw EXCEPT ![r] = [g EXCEPT !.mode = mode, !.hand = "recv", !.fwd = to]]
          /\ cli' = [cli EXCEPT ![r] = [c EXCEPT !.st = "waiting"]]
          /\ UNCHANGED <<srv, child, net, en>> /\ c.st = "new" /\ srv.pc = "serving"
    <3>1. PICK mode \in {"stream", "blocking"} :
            gw' = [gw EXCEPT ![r].mode = mode, ![r].hand = "recv",
                             ![r].fwd = IF srv.kind # "stub" THEN "connect"
                                        ELSE IF mode = "stream" THEN "stub" ELSE "off"]
      BY <1>2 DEF ChatAccepted
    <3>2. \E to \in {"connect", "stub", "off"} :
            gw' = [gw EXCEPT ![r] = [g EXCEPT !.mode = mode, !.hand = "recv", !.fwd = to]]
      BY <3>1
    <3>3. /\ cli' = [cli EXCEPT ![r] = [c EXCEPT !.st = "waiting"]]
          /\ UNCHANGED <<srv, child, net, en>> /\ c.st = "new" /\ srv.pc = "serving"
      BY <1>2 DEF ChatAccepted
    <3> QED BY <3>2, <3>3
  <2> DEFINE d == [c EXCEPT !.st = "waiting"]
             h == [g EXCEPT !.mode = mode, !.hand = "recv", !.fwd = to]
  <2>3. d \in Clients /\ h \in Handlers /\ Sound(d, h, n, e)
    <3> HIDE DEF c, g, n, e
    <3> QED BY <1>0, <2>1, AcceptSound
  <2> HIDE DEF c, g, n, e
  <2> QED BY <1>0, <2>1, <2>3, OneRequest
<1>3. CASE ClientLeaves(r)
  <2> DEFINE d == [c EXCEPT !.st = "gone"]
             h == [g EXCEPT !.hand = "off", !.chan = <<>>]
  <2>1. /\ cli' = [cli EXCEPT ![r] = d] /\ gw' = [gw EXCEPT ![r] = h]
        /\ UNCHANGED <<srv, child, net, en>> /\ c.st = "waiting"
    BY <1>3, <1>0 DEF ClientLeaves
  <2>3. d \in Clients /\ h \in Handlers /\ Sound(d, h, n, e) /\ d.st # "waiting"
    <3> HIDE DEF c, g, n, e
    <3>1. d \in Clients /\ h \in Handlers /\ Sound(d, h, n, e)
      BY <1>0, <2>1, LeaveSound
    <3>2. d.st # "waiting"
      BY <1>0 DEF Clients
    <3> QED BY <3>1, <3>2
  <2> HIDE DEF d, h, c, g, n, e
  <2> QED BY <1>0, <2>1, <2>3, OneRequest
<1> QED BY <1>1, <1>2, <1>3

\* What POST /v1/cancel leaves of an engine request.
LEMMA PostCancelSound ==
  ASSUME GateInv, NEW r \in Requests, PostCancel(r)
  PROVE  \E f \in Works :
           /\ en' = [en EXCEPT ![r] = f]
           /\ \A c \in Clients, g \in Handlers, n \in Conns :
                Sound(c, g, n, en[r]) => Sound(c, g, n, f)
<1> DEFINE e == en[r]
           f == Ended(e, "cancelled")
<1>0. e \in Works /\ en = [en EXCEPT ![r] = e] /\ Sound(cli[r], gw[r], net[r], e)
      /\ cli[r] \in Clients /\ gw[r] \in Handlers /\ net[r] \in Conns
  BY Records
<1>1. CASE EngineUp /\ e.st # "none"
  <2>1. Cancelled(e) = f
    BY <1>0, <1>1 DEF Cancelled, Ended, Works
  <2>2. en' = [en EXCEPT ![r] = f]
    BY <1>1, <2>1 DEF PostCancel
  <2> HIDE DEF f, e
  <2>3. f \in Works
    BY <1>0, <1>1, EndedSound DEF f
  <2>4. \A c \in Clients, g \in Handlers, n \in Conns : Sound(c, g, n, e) => Sound(c, g, n, f)
    BY <1>0, <1>1, EndedSound DEF f
  <2> QED BY <2>2, <2>3, <2>4 DEF e
<1>2. CASE ~ (EngineUp /\ e.st # "none")
  <2>1. en' = [en EXCEPT ![r] = e]
    BY <1>0, <1>2 DEF PostCancel
  <2> QED BY <1>0, <2>1
<1> QED BY <1>1, <1>2

\* The steps of the forwarder, the stub's task included.
LEMMA ForwarderKeepsInv ==
  ASSUME GateInv, NEW r \in Requests, Forwarder(r)
  PROVE  GateInv'
<1> DEFINE c == cli[r]  g == gw[r]  n == net[r]  e == en[r]
<1>0. /\ c \in Clients /\ g \in Handlers /\ n \in Conns /\ e \in Works
      /\ Sound(c, g, n, e) /\ (c.st = "waiting" => srv.pc \in {"serving", "closing"})
      /\ cli = [cli EXCEPT ![r] = c] /\ gw = [gw EXCEPT ![r] = g]
      /\ net = [net EXCEPT ![r] = n] /\ en = [en EXCEPT ![r] = e]
  BY Records
<1>1. CASE Connect(r) /\ child = "ready"
  <2> DEFINE h == [g EXCEPT !.fwd = "read"]
             m == [n EXCEPT !.up = TRUE, !.down = TRUE]
             f == [e EXCEPT !.st = "live", !.open = TRUE]
  <2>1. /\ gw' = [gw EXCEPT ![r] = h] /\ net' = [net EXCEPT ![r] = m]
        /\ en' = [en EXCEPT ![r] = f] /\ UNCHANGED <<srv, child, cli>> /\ g.fwd = "connect"
    BY <1>1, <1>0 DEF Connect
  <2>3. h \in Handlers /\ m \in Conns /\ f \in Works /\ Sound(c, h, m, f)
    <3> HIDE DEF c, g, n, e
    <3> QED BY <1>0, <2>1, ConnectSound
  <2> HIDE DEF h, m, f, c, g, n, e
  <2> QED BY <1>0, <2>1, <2>3, OneRequest
<1>2. CASE Connect(r) /\ child # "ready"
  <2> DEFINE h == [g EXCEPT !.fwd = "fail"]
  <2>1. gw' = [gw EXCEPT ![r] = h] /\ UNCHANGED <<srv, child, cli, net, en>> /\ g.fwd = "connect"
    BY <1>2, <1>0 DEF Connect
  <2>3. h \in Handlers /\ Sound(c, h, n, e)
    <3> HIDE DEF c, g, n, e
    <3> QED BY <1>0, <2>1, FailSound
  <2> HIDE DEF h, c, g, n, e
  <2> QED BY <1>0, <2>1, <2>3, OneRequest
<1>3. CASE ReadLine(r)
  <2> DEFINE h == [g EXCEPT !.fwd = "send", !.held = Head(n.wire)]
             m == [n EXCEPT !.wire = Tail(n.wire)]
  <2>1. /\ gw' = [gw EXCEPT ![r] = h] /\ net' = [net EXCEPT ![r] = m]
        /\ UNCHANGED <<srv, child, cli, en>> /\ g.fwd = "read" /\ n.wire # <<>>
    BY <1>3, <1>0 DEF ReadLine
  <2>3. h \in Handlers /\ m \in Conns /\ Sound(c, h, m, e)
    <3> HIDE DEF c, g, n, e
    <3> QED BY <1>0, <2>1, ReadSound
  <2> HIDE DEF h, m, c, g, n, e
  <2> QED BY <1>0, <2>1, <2>3, OneRequest
<1>4. CASE ReadFails(r)
  <2> DEFINE h == [g EXCEPT !.fwd = "fail"]
             m == [n EXCEPT !.up = FALSE, !.wire = <<>>]
  <2>1. /\ gw' = [gw EXCEPT ![r] = h] /\ net' = [net EXCEPT ![r] = m]
        /\ UNCHANGED <<srv, child, cli, en>> /\ g.fwd = "read"
    BY <1>4, <1>0 DEF ReadFails, HangUp
  <2>3. h \in Handlers /\ m \in Conns /\ Sound(c, h, m, e)
    <3> HIDE DEF c, g, n, e
    <3>1. h \in Handlers /\ Sound(c, h, n, e) /\ h.fwd = "fail"
      BY <1>0, <2>1, FailSound DEF Handlers
    <3> HIDE DEF h
    <3> QED BY <3>1, <1>0, HangUpSound
  <2> HIDE DEF h, m, c, g, n, e
  <2> QED BY <1>0, <2>1, <2>3, OneRequest
<1>5. CASE Send(r)
  <2> DEFINE h == Sent(g)
             z == [n EXCEPT !.up = FALSE, !.wire = <<>>]
             m == IF IsLast(g.held) THEN z ELSE n
  <2>1. /\ gw' = [gw EXCEPT ![r] = h] /\ net' = [net EXCEPT ![r] = m]
        /\ UNCHANGED <<srv, child, cli, en>>
        /\ g.fwd = "send" /\ g.hand # "off" /\ Count(g.chan) < ChanCap
    BY <1>5, <1>0 DEF Send, Sent, HangUp, RxOpen, Count
  <2>3. h \in Handlers /\ m \in Conns /\ Sound(c, h, m, e)
    <3> HIDE DEF c, g, n, e
    <3>1. h \in Handlers /\ Sound(c, h, n, e)
      BY <1>0, <2>1, SendSound
    <3>2. IsLast(g.held) => h.fwd = "end"
      BY <1>0 DEF Handlers, Sent
    <3>3. IsLast(g.held) => z \in Conns /\ Sound(c, h, z, e)
      <4> HIDE DEF h
      <4> QED BY <3>1, <3>2, <1>0, HangUpSound
    <3> QED BY <3>1, <3>3, <1>0
  <2> HIDE DEF h, m, c, g, n, e
  <2> QED BY <1>0, <2>1, <2>3, OneRequest
<1>6. CASE SendCancels(r)
  <2> DEFINE h == [g EXCEPT !.fwd = "await", !.asked = TRUE]
  <2>1. /\ gw' = [gw EXCEPT ![r] = h] /\ UNCHANGED <<srv, child, cli, net>>
        /\ PostCancel(r) /\ g.fwd = "send" /\ g.hand = "off"
    BY <1>6, <1>0 DEF SendCancels, RxOpen
  <2>2. PICK f \in Works :
          /\ en' = [en EXCEPT ![r] = f]
          /\ \A a \in Clients, b \in Handlers, k \in Conns : Sound(a, b, k, e) => Sound(a, b, k, f)
    BY <2>1, PostCancelSound
  <2>3. h \in Handlers /\ Sound(c, h, n, f)
    <3> HIDE DEF c, g, n, e
    <3>1. h \in Handlers /\ Sound(c, h, n, e)
      BY <1>0, <2>1, AskSound
    <3> HIDE DEF h
    <3> QED BY <3>1, <1>0, <2>2
  <2> HIDE DEF h, c, g, n, e
  <2> QED BY <1>0, <2>1, <2>2, <2>3, OneRequest
<1>10. CASE SendReturns(r)
  <2> DEFINE h == [g EXCEPT !.fwd = "end"]
             m == [n EXCEPT !.up = FALSE, !.wire = <<>>]
  <2>1. /\ gw' = [gw EXCEPT ![r] = h] /\ net' = [net EXCEPT ![r] = m]
        /\ UNCHANGED <<srv, child, cli, en>> /\ g.fwd = "await"
    BY <1>10, <1>0 DEF SendReturns, HangUp
  <2>2. g.hand = "off"
    BY <1>0, <2>1 DEF Sound, Phases
  <2>3. h \in Handlers /\ m \in Conns /\ Sound(c, h, m, e)
    <3> HIDE DEF c, g, n, e
    <3>1. h \in Handlers /\ Sound(c, h, n, e) /\ h.fwd = "end"
      BY <1>0, <2>1, <2>2, QuietSound DEF Handlers
    <3> HIDE DEF h
    <3> QED BY <3>1, <1>0, HangUpSound
  <2> HIDE DEF h, m, c, g, n, e
  <2> QED BY <1>0, <2>1, <2>3, OneRequest
<1>7. CASE SendError(r) /\ RxOpen(r)
  <2> DEFINE h == [g EXCEPT !.fwd = "end", !.chan = Append(g.chan, Delta(0, "error"))]
  <2>1. /\ gw' = [gw EXCEPT ![r] = h] /\ UNCHANGED <<srv, child, cli, net, en>>
        /\ g.fwd = "fail" /\ g.hand # "off" /\ Count(g.chan) < ChanCap
    BY <1>7, <1>0 DEF SendError, RxOpen, Count
  <2>3. h \in Handlers /\ Sound(c, h, n, e)
    <3> HIDE DEF c, g, n, e
    <3> QED BY <1>0, <2>1, ErrorSound
  <2> HIDE DEF h, c, g, n, e
  <2> QED BY <1>0, <2>1, <2>3, OneRequest
<1>8. CASE (SendError(r) /\ ~ RxOpen(r)) \/ StubStops(r)
  <2> DEFINE h == [g EXCEPT !.fwd = "end"]
  <2>1. /\ gw' = [gw EXCEPT ![r] = h] /\ UNCHANGED <<srv, child, cli, net, en>>
        /\ g.fwd \in {"fail", "stub"} /\ g.hand = "off"
    <3>1. CASE SendError(r) /\ ~ RxOpen(r)
      <4>1. [g EXCEPT !.fwd = "end", !.chan = g.chan] = h
        BY <1>0 DEF Handlers
      <4>2. /\ gw' = [gw EXCEPT ![r] = [g EXCEPT !.fwd = "end", !.chan = g.chan]]
            /\ UNCHANGED <<srv, child, cli, net, en>> /\ g.fwd = "fail" /\ g.hand = "off"
        BY <3>1, <1>0 DEF SendError, RxOpen
      <4> QED BY <4>1, <4>2
    <3>2. CASE StubStops(r)
      BY <3>2, <1>0 DEF StubStops, RxOpen
    <3> QED BY <1>8, <3>1, <3>2
  <2>3. h \in Handlers /\ Sound(c, h, n, e)
    <3> HIDE DEF c, g, n, e
    <3> QED BY <1>0, <2>1, QuietSound
  <2> HIDE DEF h, c, g, n, e
  <2> QED BY <1>0, <2>1, <2>3, OneRequest
<1>9. CASE StubSends(r)
  <2>1. PICK fin \in {"none", "stop"} :
          /\ fin = "none" => e.made + 1 < MaxTokens
          /\ gw' = [gw EXCEPT ![r] = StubSent(g, e, fin)]
    BY <1>9 DEF StubSends, StubSent
  <2> DEFINE h == StubSent(g, e, fin)
             f == StubMade(e)
  <2>2. /\ en' = [en EXCEPT ![r] = f] /\ UNCHANGED <<srv, child, cli, net>>
        /\ g.fwd = "stub" /\ g.hand # "off" /\ Count(g.chan) < ChanCap
    BY <1>9, <1>0 DEF StubSends, StubMade, RxOpen, Count
  <2>3. h \in Handlers /\ f \in Works /\ Sound(c, h, n, f)
    <3> HIDE DEF c, g, n, e
    <3> QED BY <1>0, <2>1, <2>2, StubSound
  <2> HIDE DEF f, c, g, n, e
  <2> QED BY <1>0, <2>1, <2>2, <2>3, OneRequest
<1> QED BY <1>1, <1>2, <1>3, <1>4, <1>5, <1>6, <1>7, <1>8, <1>9, <1>10 DEF Forwarder

\* The steps of the handler.
LEMMA HandlerKeepsInv ==
  ASSUME GateInv, NEW r \in Requests, Handler(r)
  PROVE  GateInv'
<1> DEFINE c == cli[r]  g == gw[r]  n == net[r]  e == en[r]
<1>0. /\ c \in Clients /\ g \in Handlers /\ n \in Conns /\ e \in Works
      /\ Sound(c, g, n, e) /\ (c.st = "waiting" => srv.pc \in {"serving", "closing"})
      /\ cli = [cli EXCEPT ![r] = c] /\ gw = [gw EXCEPT ![r] = g]
      /\ net = [net EXCEPT ![r] = n] /\ en = [en EXCEPT ![r] = e]
  BY Records
<1>a. ASSUME g.hand = "recv", g.chan # <<>>
      PROVE  /\ Head(g.chan) \in Deltas /\ Tail(g.chan) \in Seq(Deltas)
             /\ Head(g.chan).fin # "none" => Tail(g.chan) = <<>>
             /\ Head(g.chan).fin \in Endings \cup {"none"}
             /\ Grown(c, Head(g.chan)) \in Seq(1..MaxTokens)
             /\ Head(g.chan).fin = "error" => Grown(c, Head(g.chan)) = c.got
             /\ c.fin = "none" /\ c.st = "waiting"
  <2> HIDE DEF c, g, n, e
  <2>1. /\ Head(g.chan) \in Deltas /\ Tail(g.chan) \in Seq(Deltas)
        /\ FrameOK(Head(g.chan), Count(c.got), e)
        /\ Head(g.chan).fin # "none" => Tail(g.chan) = <<>>
    BY <1>0, <1>a, Received
  <2>2. c.got = Upto(Count(c.got)) /\ Count(c.got) <= MaxTokens
    BY <1>0 DEF Sound, Prefix
  <2>3. /\ Grown(c, Head(g.chan)) \in Seq(1..MaxTokens)
        /\ Head(g.chan).fin \notin {"none", "stop"} => Grown(c, Head(g.chan)) = c.got
    BY <1>0, <2>1, <2>2, GrownText
  <2>4. c.fin = "none" /\ c.st = "waiting"
    BY <1>0, <1>a DEF Sound, Phases
  <2>5. Head(g.chan).fin \in Endings \cup {"none"}
    BY <2>1 DEF Deltas
  <2> QED BY <2>1, <2>3, <2>4, <2>5
<1>1. CASE StreamRecv(r)
  <2> DEFINE a == Head(g.chan)
             x == Grown(c, a)
             y == IF a.fin = "error" THEN "cancel" ELSE IF a.fin = "none" THEN "recv" ELSE "done"
             d == [c EXCEPT !.got = x, !.fin = a.fin]
             h == [g EXCEPT !.chan = Tail(g.chan), !.hand = y]
  <2>1. g.hand = "recv" /\ g.chan # <<>> /\ UNCHANGED <<srv, child, net, en>>
    BY <1>1 DEF StreamRecv
  <2>2. /\ a \in Deltas /\ Tail(g.chan) \in Seq(Deltas) /\ x \in Seq(1..MaxTokens)
        /\ a.fin # "none" => Tail(g.chan) = <<>>
        /\ a.fin \in Endings \cup {"none"}
        /\ a.fin = "error" => x = c.got
        /\ c.fin = "none" /\ c.st = "waiting"
    BY <1>a, <2>1
  <2>3. cli' = [cli EXCEPT ![r] = d]
    <3>1. cli' = [cli EXCEPT ![r].got = IF a.fin = "error" THEN @ ELSE Taken(r, a), ![r].fin = a.fin]
      BY <1>1 DEF StreamRecv
    <3>2. Taken(r, a) = x
      BY DEF Taken, Grown
    <3>3. (IF a.fin = "error" THEN cli[r].got ELSE Taken(r, a)) = x
      BY <3>2, <2>2
    <3> QED BY <3>1, <3>3
  <2>4. gw' = [gw EXCEPT ![r] = h]
    <3>1. gw' = [gw EXCEPT ![r].chan = Tail(@),
                           ![r].hand = CASE a.fin = "error" -> "cancel"
                                         [] a.fin = "none" -> "recv"
                                         [] OTHER -> "done"]
      BY <1>1 DEF StreamRecv
    <3>2. (CASE a.fin = "error" -> "cancel" [] a.fin = "none" -> "recv" [] OTHER -> "done") = y
      OBVIOUS
    <3> HIDE DEF y
    <3> QED BY <3>1, <3>2
  <2> HIDE DEF c, g, n, e, a, x
  <2>5. /\ d \in Clients /\ d.st = c.st /\ d.fin = a.fin /\ d.got = x
        /\ h \in Handlers /\ h.hand = y /\ h.chan = Tail(g.chan) /\ h.fwd = g.fwd
        /\ h.mode = g.mode /\ h.reason = g.reason /\ h.held = g.held /\ h.asked = g.asked
    <3>1. y \in {"cancel", "recv", "done"}
      OBVIOUS
    <3> HIDE DEF y
    <3> QED BY <3>1, <1>0, <2>2 DEF Clients, Handlers
  <2> HIDE DEF d, h
  <2>6. Sound(d, h, n, e)
    <3>1. CASE a.fin = "none"
      BY <3>1, <1>0, <2>1, <2>5, TokenSound DEF a, x
    <3>2. CASE a.fin # "none"
      BY <3>2, <1>0, <2>1, <2>2, <2>5, EndSound DEF a, x
    <3> QED BY <3>1, <3>2
  <2> QED BY <1>0, <2>1, <2>2, <2>3, <2>4, <2>5, <2>6, OneRequest
<1>2. CASE BlockingRecv(r) /\ Head(g.chan).fin = "error"
  <2> DEFINE a == Head(g.chan)
             d == [c EXCEPT !.fin = "error"]
             h == [g EXCEPT !.hand = "done", !.chan = <<>>]
  <2>1. g.hand = "recv" /\ g.chan # <<>> /\ UNCHANGED <<srv, child, net, en>>
    BY <1>2 DEF BlockingRecv
  <2>2. cli' = [cli EXCEPT ![r] = d] /\ gw' = [gw EXCEPT ![r] = h]
    BY <1>2 DEF BlockingRecv
  <2>3. a.fin = "error" /\ Grown(c, a) = c.got /\ c.st = "waiting"
    BY <1>2, <1>a, <2>1
  <2> HIDE DEF c, g, n, e, a
  <2>4. /\ d \in Clients /\ d.st = c.st /\ d.fin = "error" /\ d.got = c.got
        /\ h \in Handlers /\ h.hand = "done" /\ h.chan = <<>> /\ h.fwd = g.fwd
        /\ h.asked = g.asked
    BY <1>0, NoFrames DEF Clients, Handlers, Endings
  <2> HIDE DEF d, h
  <2>5. Sound(d, h, n, e)
    BY <1>0, <2>1, <2>3, <2>4, EndSound DEF a
  <2> QED BY <1>0, <2>1, <2>2, <2>3, <2>4, <2>5, OneRequest
<1>3. CASE BlockingRecv(r) /\ Head(g.chan).fin # "error"
  <2> DEFINE a == Head(g.chan)
             x == Grown(c, a)
             y == IF a.fin = "none" THEN g.reason ELSE a.fin
             d == [c EXCEPT !.got = x]
             h == [g EXCEPT !.chan = Tail(g.chan), !.reason = y]
  <2>1. /\ g.hand = "recv" /\ g.chan # <<>> /\ g.mode = "blocking"
        /\ UNCHANGED <<srv, child, net, en>>
    BY <1>3 DEF BlockingRecv
  <2>2. /\ a \in Deltas /\ Tail(g.chan) \in Seq(Deltas) /\ x \in Seq(1..MaxTokens)
        /\ a.fin \in Endings \cup {"none"}
        /\ c.fin = "none" /\ c.st = "waiting"
    BY <1>a, <2>1
  <2>3. cli' = [cli EXCEPT ![r] = d]
    <3>1. cli' = [cli EXCEPT ![r].got = Taken(r, a)]
      BY <1>3 DEF BlockingRecv
    <3>2. Taken(r, a) = x
      BY DEF Taken, Grown
    <3> QED BY <3>1, <3>2
  <2>4. gw' = [gw EXCEPT ![r] = h]
    BY <1>3 DEF BlockingRecv
  <2> HIDE DEF c, g, n, e, a, x
  <2>5. /\ d \in Clients /\ d.st = c.st /\ d.fin = c.fin /\ d.got = x
        /\ h \in Handlers /\ h.hand = g.hand /\ h.chan = Tail(g.chan) /\ h.fwd = g.fwd
        /\ h.mode = g.mode /\ h.reason = y /\ h.held = g.held /\ h.asked = g.asked
    <3>1. y \in Endings
      BY <1>0, <2>2 DEF Handlers
    <3> HIDE DEF y
    <3> QED BY <3>1, <1>0, <2>2 DEF Clients, Handlers
  <2> HIDE DEF d, h
  <2>6. Sound(d, h, n, e)
    <3>1. CASE a.fin = "none"
      BY <3>1, <1>0, <2>1, <2>2, <2>5, TokenSound DEF a, x
    <3>2. CASE a.fin # "none"
      BY <3>2, <1>0, <2>1, <2>2, <2>5, ReasonSound DEF a, x
    <3> QED BY <3>1, <3>2
  <2> QED BY <1>0, <2>1, <2>2, <2>3, <2>4, <2>5, <2>6, OneRequest
<1>4. CASE StubAnswers(r)
  <2>1. PICK k \in 1..MaxTokens :
          /\ cli' = [cli EXCEPT ![r] = [c EXCEPT !.got = Upto(k), !.fin = "stop"]]
          /\ en' = [en EXCEPT ![r] = [e EXCEPT !.made = k]]
    <3>1. PICK k \in 1..MaxTokens :
            /\ cli' = [cli EXCEPT ![r].got = [i \in 1..k |-> i], ![r].fin = "stop"]
            /\ en' = [en EXCEPT ![r].made = k]
      BY <1>4 DEF StubAnswers
    <3>2. Upto(k) = [i \in 1..k |-> i]
      BY DEF Upto
    <3>3. /\ cli' = [cli EXCEPT ![r] = [c EXCEPT !.got = Upto(k), !.fin = "stop"]]
          /\ en' = [en EXCEPT ![r] = [e EXCEPT !.made = k]]
      BY <3>1, <3>2
    <3> QED BY <3>3
  <2> DEFINE d == [c EXCEPT !.got = Upto(k), !.fin = "stop"]
             h == [g EXCEPT !.hand = "done"]
             f == [e EXCEPT !.made = k]
  <2>2. /\ gw' = [gw EXCEPT ![r] = h] /\ UNCHANGED <<srv, child, net>>
        /\ g.hand = "recv" /\ g.fwd = "off"
    BY <1>4, <1>0 DEF StubAnswers
  <2>3. /\ d \in Clients /\ h \in Handlers /\ f \in Works /\ Sound(d, h, n, f)
    <3> HIDE DEF c, g, n, e
    <3> QED BY <1>0, <2>2, StubAnswerSound
  <2>4. d.st = c.st
    BY <1>0 DEF Clients
  <2> HIDE DEF h, c, g, n, e
  <2> QED BY <1>0, <2>1, <2>2, <2>3, <2>4, OneRequest
<1>5. CASE HandlerCancel(r)
  <2> DEFINE h == CancelAsked(g)
  <2>1. /\ gw' = [gw EXCEPT ![r] = h] /\ UNCHANGED <<srv, child, cli, net>>
        /\ PostCancel(r) /\ g.hand \in {"cancel", "cancelAgain"}
    BY <1>5, <1>0 DEF HandlerCancel, CancelAsked
  <2>2. PICK f \in Works :
          /\ en' = [en EXCEPT ![r] = f]
          /\ \A a \in Clients, b \in Handlers, k \in Conns : Sound(a, b, k, e) => Sound(a, b, k, f)
    BY <2>1, PostCancelSound
  <2>3. h \in Handlers /\ Sound(c, h, n, e)
    <3> HIDE DEF c, g, n, e
    <3> QED BY <1>0, <2>1, CancelSound
  <2> HIDE DEF h, c, g, n, e
  <2>4. Sound(c, h, n, f)
    BY <1>0, <2>2, <2>3
  <2> QED BY <1>0, <2>1, <2>2, <2>3, <2>4, OneRequest
<1>6. CASE ChannelClosed(r)
  <2> DEFINE d == [c EXCEPT !.fin = g.reason]
             h == [g EXCEPT !.hand = "done"]
  <2>1. g.hand = "recv" /\ g.chan = <<>> /\ g.fwd = "end" /\ UNCHANGED <<srv, child, net, en>>
    BY <1>6 DEF ChannelClosed
  <2>2. /\ g.mode = "blocking" /\ d \in Clients /\ h \in Handlers /\ Sound(d, h, n, e)
    <3> HIDE DEF c, g, n, e
    <3> QED BY <1>0, <2>1, ClosedSound
  <2>3. cli' = [cli EXCEPT ![r] = d] /\ gw' = [gw EXCEPT ![r] = h]
    BY <1>6, <2>2 DEF ChannelClosed
  <2>4. d.st = c.st
    BY <1>0 DEF Clients
  <2> HIDE DEF d, h, c, g, n, e
  <2> QED BY <1>0, <2>1, <2>2, <2>3, <2>4, OneRequest
<1>7. CASE Answer(r)
  <2> DEFINE d == [c EXCEPT !.st = "answered"]
             h == [g EXCEPT !.hand = "off", !.chan = <<>>]
  <2>1. /\ cli' = [cli EXCEPT ![r] = d] /\ gw' = [gw EXCEPT ![r] = h]
        /\ UNCHANGED <<srv, child, net, en>> /\ g.hand = "done"
    BY <1>7, <1>0 DEF Answer
  <2>2. /\ d \in Clients /\ h \in Handlers /\ Sound(d, h, n, e)
    <3> HIDE DEF c, g, n, e
    <3> QED BY <1>0, <2>1, AnswerSound
  <2>3. d.st = "answered"
    BY <1>0 DEF Clients
  <2> HIDE DEF d, h, c, g, n, e
  <2> QED BY <1>0, <2>1, <2>2, <2>3, OneRequest
<1>8. CASE CancelReturns(r)
  <2> DEFINE h == CancelOver(g)
  <2>1. /\ gw' = [gw EXCEPT ![r] = h] /\ UNCHANGED <<srv, child, cli, net, en>>
        /\ g.hand \in {"await", "awaitAgain"}
    BY <1>8, <1>0 DEF CancelReturns, CancelOver
  <2>3. h \in Handlers /\ Sound(c, h, n, e)
    <3> HIDE DEF c, g, n, e
    <3> QED BY <1>0, <2>1, ReturnSound
  <2> HIDE DEF h, c, g, n, e
  <2> QED BY <1>0, <2>1, <2>3, OneRequest
<1> QED BY <1>1, <1>2, <1>3, <1>4, <1>5, <1>6, <1>7, <1>8 DEF Handler

\* The steps of the server process that do not end it, and the engine's own.
LEMMA ProcessKeepsInv ==
  ASSUME GateInv, UNCHANGED <<cli, gw, net, en>>, srv' \in Servers,
         child' \in {"absent", "loading", "ready", "draining", "hung", "dead"},
         \A r \in Requests : cli[r].st = "waiting" => srv'.pc \in {"serving", "closing"}
  PROVE  GateInv'
  BY DEF GateInv, Typed, ServesWhenOpen

\* The steps of the server process that leave requests alone.
LEMMA ServerKeepsInv ==
  ASSUME GateInv, Server \/ Interrupt \/ EngineWarm \/ EngineHangs \/ EngineDrain, ~ DropChild
  PROVE  GateInv'
<1>0. /\ srv \in Servers
      /\ child \in {"absent", "loading", "ready", "draining", "hung", "dead"}
      /\ \A r \in Requests : cli[r].st = "waiting" => srv.pc \in {"serving", "closing"}
  BY DEF GateInv, Typed, ServesWhenOpen
<1>1. CASE Start
  BY <1>0, <1>1, ProcessKeepsInv DEF Start, Servers
<1>2. CASE EngineReady
  BY <1>0, <1>2, ProcessKeepsInv DEF EngineReady, Servers
<1>3. CASE ReadyTimeout
  BY <1>0, <1>3, ProcessKeepsInv DEF ReadyTimeout, Servers
<1>4. CASE Interrupt
  BY <1>0, <1>4, ProcessKeepsInv DEF Interrupt, Servers
<1>5. CASE SetDraining
  BY <1>0, <1>5, ProcessKeepsInv DEF SetDraining, Servers
<1>6. CASE StopAccepting
  BY <1>0, <1>6, ProcessKeepsInv DEF StopAccepting, Servers
<1>7. CASE ServeReturns
  BY <1>0, <1>7, ProcessKeepsInv DEF ServeReturns, Servers
<1>8. CASE EngineWarm
  BY <1>0, <1>8, ProcessKeepsInv DEF EngineWarm
<1>9. CASE EngineDrain
  BY <1>0, <1>9, ProcessKeepsInv DEF EngineDrain
<1>10. CASE EngineHangs
  BY <1>0, <1>10, ProcessKeepsInv DEF EngineHangs
<1> QED BY <1>1, <1>2, <1>3, <1>4, <1>5, <1>6, <1>7, <1>8, <1>9, <1>10 DEF Server

\* The engine process dies.
LEMMA DeathKeepsInv ==
  ASSUME GateInv, EngineDies
  PROVE  GateInv'
<1>1. /\ child' = "dead" /\ UNCHANGED <<srv, cli, gw>>
      /\ en' = [r \in Requests |-> IF en[r].st = "none" THEN en[r] ELSE Dead(r)]
      /\ net' = [r \in Requests |-> [net[r] EXCEPT !.down = FALSE]]
  BY DEF EngineDies, EngineGone
<1>2. ASSUME NEW r \in Requests
      PROVE  net'[r] \in Conns /\ en'[r] \in Works /\ Sound(cli[r], gw[r], net'[r], en'[r])
  <2> DEFINE c == cli[r]  g == gw[r]  n == net[r]  e == en[r]
             m == [n EXCEPT !.down = FALSE]
  <2>1. c \in Clients /\ g \in Handlers /\ n \in Conns /\ e \in Works /\ Sound(c, g, n, e)
    BY Records
  <2>2. net'[r] = m /\ en'[r] = IF e.st = "none" THEN e ELSE Dead(r)
    BY <1>1
  <2>3. Dead(r) = [st |-> "over", open |-> FALSE, dq |-> <<>>, made |-> e.made]
    BY DEF Dead
  <2> HIDE DEF c, g, n, e
  <2>4. m \in Conns /\ Sound(c, g, m, e)
    BY <2>1, DownSound
  <2> HIDE DEF m
  <2>5. CASE e.st = "none"
    BY <2>1, <2>2, <2>4, <2>5 DEF c, g
  <2>6. CASE e.st # "none"
    <3>1. Dead(r) \in Works /\ Sound(c, g, m, Dead(r))
      BY <2>1, <2>3, <2>4, <2>6, DeadSound
    <3> QED BY <2>2, <2>4, <2>6, <3>1 DEF c, g
  <2> QED BY <2>5, <2>6
<1>3. Typed'
  BY <1>1, <1>2 DEF GateInv, Typed
<1>4. ServesWhenOpen'
  BY <1>1 DEF GateInv, ServesWhenOpen
<1>5. \A r \in Requests : Sound(cli[r], gw[r], net[r], en[r])'
  BY <1>1, <1>2
<1> QED BY <1>3, <1>4, <1>5 DEF GateInv

\* The server process exits.
LEMMA ExitKeepsInv ==
  ASSUME GateInv, DropChild
  PROVE  GateInv'
<1>1. /\ srv.pc = "returned" /\ srv' = [srv EXCEPT !.pc = "exited"] /\ UNCHANGED cli
      /\ gw' = [r \in Requests |-> [gw[r] EXCEPT !.fwd = "off", !.chan = <<>>]]
  BY DEF DropChild
<1>2. \A r \in Requests : cli[r].st # "waiting"
  BY <1>1 DEF GateInv, ServesWhenOpen
<1>3. child' \in {"absent", "loading", "ready", "draining", "hung", "dead"} /\ srv' \in Servers
  BY <1>1 DEF DropChild, GateInv, Typed, Servers
<1>4. ASSUME NEW r \in Requests
      PROVE  /\ gw'[r] \in Handlers /\ net'[r] \in Conns /\ en'[r] \in Works
             /\ Sound(cli[r], gw'[r], net'[r], en'[r])
  <2> DEFINE c == cli[r]  g == gw[r]  n == net[r]  e == en[r]
             h == [g EXCEPT !.fwd = "off", !.chan = <<>>]
  <2>1. /\ c \in Clients /\ g \in Handlers /\ n \in Conns /\ e \in Works
        /\ Sound(c, g, n, e) /\ c.st # "waiting"
    BY <1>2, Records
  <2>2. gw'[r] = h
    BY <1>1
  <2>3. CASE srv.kind = "spawned"
    <3> DEFINE m == [up |-> FALSE, down |-> FALSE, wire |-> <<>>]
    <3>1. /\ net'[r] = m /\ en'[r] = IF e.st = "none" THEN e ELSE Dead(r)
          /\ Dead(r) = [st |-> "over", open |-> FALSE, dq |-> <<>>, made |-> e.made]
      BY <2>3 DEF DropChild, Dead
    <3>2. m \in Conns /\ m.wire = <<>> /\ ~ m.down
      BY NoFrames DEF Conns
    <3> HIDE DEF c, g, n, e, m
    <3>3. h \in Handlers /\ Sound(c, h, m, e)
      BY <2>1, <3>2, ExitSound
    <3> HIDE DEF h
    <3>4. CASE e.st = "none"
      BY <2>1, <2>2, <3>1, <3>2, <3>3, <3>4 DEF c
    <3>5. CASE e.st # "none"
      <4>1. Dead(r) \in Works /\ Sound(c, h, m, Dead(r))
        BY <2>1, <3>1, <3>2, <3>3, <3>5, DeadSound
      <4> QED BY <4>1, <2>2, <3>1, <3>2, <3>3, <3>5 DEF c
    <3> QED BY <3>4, <3>5
  <2>4. CASE srv.kind # "spawned"
    <3> DEFINE m == [n EXCEPT !.up = FALSE]
    <3>1. net'[r] = m /\ en'[r] = e
      BY <2>4 DEF DropChild
    <3>2. m \in Conns /\ m.wire = n.wire /\ m.down = n.down
      BY <2>1 DEF Conns
    <3> HIDE DEF c, g, n, e, m
    <3>3. h \in Handlers /\ Sound(c, h, m, e)
      BY <2>1, <3>2, ExitSound
    <3> HIDE DEF h
    <3> QED BY <2>1, <2>2, <3>1, <3>2, <3>3 DEF c
  <2> QED BY <2>3, <2>4
<1>5. Typed'
  <2>1. net' = [r \in Requests |-> net'[r]] /\ en' = [r \in Requests |-> en'[r]]
    BY DEF DropChild, GateInv, Typed
  <2> QED BY <2>1, <1>1, <1>3, <1>4 DEF GateInv, Typed
<1>6. ServesWhenOpen'
  BY <1>1, <1>2 DEF ServesWhenOpen
<1>7. \A r \in Requests : Sound(cli[r], gw[r], net[r], en[r])'
  BY <1>1, <1>4
<1> QED BY <1>5, <1>6, <1>7 DEF GateInv

\* Every step of the gateway keeps the invariant.
LEMMA GateStep ==
  ASSUME GateInv, [NextGateway]_gwVars
  PROVE  GateInv'
<1>1. CASE UNCHANGED gwVars
  BY <1>1 DEF gwVars, GateInv, Typed, ServesWhenOpen
<1>2. CASE DropChild
  BY <1>2, ExitKeepsInv
<1>3. CASE (Server \/ Interrupt \/ EngineWarm \/ EngineHangs \/ EngineDrain) /\ ~ DropChild
  BY <1>3, ServerKeepsInv
<1>4. CASE EngineDies
  BY <1>4, DeathKeepsInv
<1>5. ASSUME NEW r \in Requests,
             \/ ChatRefused(r) \/ ChatAccepted(r) \/ ClientLeaves(r)
             \/ Handler(r) \/ Forwarder(r)
             \/ EngineHandler(r) \/ Generate(r) \/ Fail(r) \/ Expire(r)
      PROVE  GateInv'
  BY <1>5, ClientKeepsInv, HandlerKeepsInv, ForwarderKeepsInv, EngineKeepsInv
<1> QED BY <1>1, <1>2, <1>3, <1>4, <1>5 DEF NextGateway

\* Nothing has happened yet in an initial state.
LEMMA GateStart ==
  ASSUME InitGateway
  PROVE  GateInv
<1> DEFINE c == [st |-> "new", got |-> <<>>, fin |-> "none"]
           n == [up |-> FALSE, down |-> FALSE, wire |-> <<>>]
           e == [st |-> "none", open |-> FALSE, dq |-> <<>>, made |-> 0]
<1>0. <<>> \in Seq(1..MaxTokens) /\ 0 \in 0..MaxTokens /\ Delta(0, "none") \in Deltas
  <2>1. 0 \in 0..MaxTokens
    BY Capacities
  <2> QED BY <2>1 DEF Delta, Deltas
<1>1. c \in Clients /\ NoHandler \in Handlers /\ n \in Conns /\ e \in Works
  BY <1>0, NoFrames DEF Clients, Handlers, Conns, Works, NoHandler, Endings
<1>2. /\ NoHandler.hand = "off" /\ NoHandler.fwd = "off" /\ NoHandler.chan = <<>>
      /\ ~ NoHandler.asked
  BY DEF NoHandler
<1>3. Upto(0) = <<>>
  BY DEF Upto
<1>4. Sound(c, NoHandler, n, e)
  BY <1>2, <1>3, CountEmpty, Capacities
     DEF Sound, Bounded, Unborn, Phases, Prefix, Channel, Transit
<1>5. /\ cli = [r \in Requests |-> c] /\ gw = [r \in Requests |-> NoHandler]
      /\ net = [r \in Requests |-> n] /\ en = [r \in Requests |-> e]
  BY DEF InitGateway
<1>6. srv \in Servers /\ child \in {"absent", "loading", "ready", "draining", "hung", "dead"}
  BY DEF InitGateway, Servers
<1>7. ServesWhenOpen
  BY <1>5 DEF ServesWhenOpen
<1> HIDE DEF c, n, e
<1> QED BY <1>1, <1>4, <1>5, <1>6, <1>7 DEF GateInv, Typed

\* The invariant holds in every state.
LEMMA GateAlways == SpecGateway => []GateInv
  BY GateStart, GateStep, PTL DEF SpecGateway

----------------------------------------------------------------------------
(* What follows *)

\* Every variable keeps its type, and the channel, the delta queue and the
\* connection's buffer keep to their capacities, whatever these are.
THEOREM GateTyped == SpecGateway => []GateTypeOK
<1>1. ASSUME GateInv PROVE GateTypeOK
  <2>1. srv \in Servers /\ child \in {"absent", "loading", "ready", "draining", "hung", "dead"}
    BY <1>1 DEF GateInv, Typed
  <2>2. ASSUME NEW r \in Requests
        PROVE  /\ cli[r].st \in {"new", "waiting", "gone", "answered"}
               /\ cli[r].fin \in Endings \cup {"none", "refused"}
               /\ gw[r].hand \in {"off", "recv", "cancel", "await", "cancelAgain", "awaitAgain",
                                  "done"}
               /\ gw[r].fwd \in {"off", "connect", "read", "send", "await", "fail", "stub", "end"}
               /\ gw[r].held \in Deltas /\ gw[r].reason \in Endings
               /\ Len(gw[r].chan) <= ChanCap /\ Len(net[r].wire) <= WireCap
               /\ Len(en[r].dq) <= QueueCap /\ en[r].made \in 0..MaxTokens
               /\ en[r].st \in {"none", "live", "over"}
    <3> DEFINE c == cli[r]  g == gw[r]  n == net[r]  e == en[r]
    <3>1. /\ c \in Clients /\ g \in Handlers /\ n \in Conns /\ e \in Works
          /\ Sound(c, g, n, e)
      BY <1>1, Records
    <3> HIDE DEF c, g, n, e
    <3>2. /\ c.st \in {"new", "waiting", "gone", "answered"}
          /\ c.fin \in Endings \cup {"none", "refused"}
          /\ g.hand \in {"off", "recv", "cancel", "await", "cancelAgain", "awaitAgain", "done"}
          /\ g.fwd \in {"off", "connect", "read", "send", "await", "fail", "stub", "end"}
          /\ g.held \in Deltas /\ g.reason \in Endings
          /\ e.made \in 0..MaxTokens /\ e.st \in {"none", "live", "over"}
      BY <3>1 DEF Clients, Handlers, Works
    <3>3. Len(g.chan) <= ChanCap /\ Len(n.wire) <= WireCap /\ Len(e.dq) <= QueueCap
      BY <3>1 DEF Sound, Bounded, Count
    <3> QED BY <3>2, <3>3 DEF c, g, n, e
  <2> QED BY <2>1, <2>2 DEF GateTypeOK, Servers
<1> QED BY <1>1, GateAlways, PTL

\* A client that is told "stop" has every token the engine generated for it, for
\* any number of requests, any capacities and any length of the completion.
THEOREM StopComplete == SpecGateway => []StopMeansComplete
<1>1. ASSUME GateInv PROVE StopMeansComplete
  <2> SUFFICES ASSUME NEW r \in Requests, cli[r].fin = "stop"
               PROVE  cli[r].got = [i \in 1..en[r].made |-> i]
    BY DEF StopMeansComplete
  <2>1. cli[r].got = Upto(Count(cli[r].got)) /\ en[r].made = Count(cli[r].got)
    BY <1>1, Records DEF Sound, Prefix
  <2> QED BY <2>1 DEF Upto
<1> QED BY <1>1, GateAlways, PTL

\* The gateway asks the engine to cancel only for a client that has left or has
\* been shown an error.
THEOREM CancelJustified == SpecGateway => []CancelOnlyAbandoned
<1>1. ASSUME GateInv PROVE CancelOnlyAbandoned
  BY <1>1, Records DEF CancelOnlyAbandoned, Sound, Phases
<1> QED BY <1>1, GateAlways, PTL

----------------------------------------------------------------------------
(* The gateway implements RequestLife, step by step *)

\* The variables of RequestLife.
LifeOf(c) == CASE c.st = "new" -> "idle"
               [] c.st = "waiting" /\ c.fin = "none" -> "served"
               [] OTHER -> "over"
OutcomeOf(c) == IF c.st = "gone" /\ c.fin = "none" THEN "gone" ELSE c.fin

\* A step that leaves the client's side alone leaves RequestLife alone.
LEMMA LifeStutter ==
  ASSUME UNCHANGED cli
  PROVE  UNCHANGED Life!lifeVars
  BY DEF Life!lifeVars

\* A step of one client's side that is a step of RequestLife or changes nothing in it.
LEMMA LifeMove ==
  ASSUME cli \in [Requests -> Clients], NEW r \in Requests, NEW d \in Clients,
         cli' = [cli EXCEPT ![r] = d],
         \/ /\ LifeOf(d) = LifeOf(cli[r]) /\ OutcomeOf(d) = OutcomeOf(cli[r])
            /\ d.got = cli[r].got
         \/ /\ LifeOf(cli[r]) = "idle" /\ d.got = cli[r].got
            /\ \/ LifeOf(d) = "over" /\ OutcomeOf(d) = "refused"
               \/ LifeOf(d) = "served" /\ OutcomeOf(d) = "none"
         \/ /\ LifeOf(cli[r]) = "served" /\ d.got = cli[r].got
            /\ LifeOf(d) = "over" /\ OutcomeOf(d) = "gone"
         \/ /\ LifeOf(cli[r]) = "served"
            /\ \E k \in Len(cli[r].got)..MaxTokens : d.got = [i \in 1..k |-> i]
            /\ \/ LifeOf(d) = "served" /\ OutcomeOf(d) = OutcomeOf(cli[r])
               \/ LifeOf(d) = "over" /\ OutcomeOf(d) \in Endings
  PROVE  [Life!NextLife]_(Life!lifeVars)
<1> DEFINE life == [q \in Requests |->
                      CASE cli[q].st = "new" -> "idle"
                        [] cli[q].st = "waiting" /\ cli[q].fin = "none" -> "served"
                        [] OTHER -> "over"]
           text == [q \in Requests |-> cli[q].got]
           outcome == [q \in Requests |->
                         IF cli[q].st = "gone" /\ cli[q].fin = "none" THEN "gone" ELSE cli[q].fin]
<1>1. /\ life = [q \in Requests |-> LifeOf(cli[q])]
      /\ outcome = [q \in Requests |-> OutcomeOf(cli[q])]
      /\ life' = [q \in Requests |-> LifeOf(cli'[q])]
      /\ outcome' = [q \in Requests |-> OutcomeOf(cli'[q])]
      /\ text' = [q \in Requests |-> cli'[q].got]
  BY DEF LifeOf, OutcomeOf
<1>2. /\ life' = [life EXCEPT ![r] = LifeOf(d)]
      /\ outcome' = [outcome EXCEPT ![r] = OutcomeOf(d)]
      /\ text' = [text EXCEPT ![r] = d.got]
      /\ life[r] = LifeOf(cli[r]) /\ outcome[r] = OutcomeOf(cli[r]) /\ text[r] = cli[r].got
  <2>1. \A q \in Requests : cli'[q] = IF q = r THEN d ELSE cli[q]
    OBVIOUS
  <2> HIDE DEF LifeOf, OutcomeOf
  <2>2. /\ [q \in Requests |-> LifeOf(cli'[q])] = [[q \in Requests |-> LifeOf(cli[q])] EXCEPT ![r] = LifeOf(d)]
    BY <2>1
  <2>3. /\ [q \in Requests |-> OutcomeOf(cli'[q])] = [[q \in Requests |-> OutcomeOf(cli[q])] EXCEPT ![r] = OutcomeOf(d)]
    BY <2>1
  <2>4. text' = [text EXCEPT ![r] = d.got] /\ text[r] = cli[r].got
    BY <2>1, <1>1
  <2>5. life[r] = LifeOf(cli[r]) /\ outcome[r] = OutcomeOf(cli[r])
    BY <1>1
  <2> QED BY <1>1, <2>2, <2>3, <2>4, <2>5
<1>3. UNCHANGED Life!lifeVars <=> life' = life /\ text' = text /\ outcome' = outcome
  BY DEF Life!lifeVars
<1>4. /\ \A a, b, w : Life!Move(r, a, b, w) <=>
           life[r] = a /\ life' = [life EXCEPT ![r] = b] /\ outcome' = [outcome EXCEPT ![r] = w]
      /\ Life!Extend(r) <=>
           \E k \in Len(text[r])..MaxTokens : text' = [text EXCEPT ![r] = [i \in 1..k |-> i]]
      /\ Life!Refuse(r) <=> Life!Move(r, "idle", "over", "refused") /\ text' = text
      /\ Life!Accept(r) <=> Life!Move(r, "idle", "served", "none") /\ text' = text
      /\ Life!Deliver(r) <=>
           life[r] = "served" /\ Life!Extend(r) /\ life' = life /\ outcome' = outcome
      /\ Life!Conclude(r) <=>
           \E why \in Endings : Life!Move(r, "served", "over", why) /\ Life!Extend(r)
      /\ Life!Abandon(r) <=> Life!Move(r, "served", "over", "gone") /\ text' = text
  BY DEF Life!Move, Life!Extend, Life!Refuse, Life!Accept, Life!Deliver, Life!Conclude,
         Life!Abandon, Life!Endings, Endings
<1>5. life = [life EXCEPT ![r] = life[r]] /\ text = [text EXCEPT ![r] = text[r]]
      /\ outcome = [outcome EXCEPT ![r] = outcome[r]]
  OBVIOUS
<1>a. ASSUME d.got = cli[r].got PROVE text' = text
  <2>1. [text EXCEPT ![r] = d.got] = [text EXCEPT ![r] = text[r]]
    BY <1>a, <1>2
  <2> QED BY <2>1, <1>2, <1>5
<1>b. ASSUME LifeOf(d) = LifeOf(cli[r]) PROVE life' = life
  BY <1>b, <1>2, <1>5
<1>c. ASSUME OutcomeOf(d) = OutcomeOf(cli[r]) PROVE outcome' = outcome
  BY <1>c, <1>2, <1>5
<1> HIDE DEF life, text, outcome
<1>6. CASE /\ LifeOf(d) = LifeOf(cli[r]) /\ OutcomeOf(d) = OutcomeOf(cli[r])
           /\ d.got = cli[r].got
  BY <1>a, <1>b, <1>c, <1>3, <1>6
<1>7. CASE /\ LifeOf(cli[r]) = "idle" /\ d.got = cli[r].got
           /\ \/ LifeOf(d) = "over" /\ OutcomeOf(d) = "refused"
              \/ LifeOf(d) = "served" /\ OutcomeOf(d) = "none"
  <2>1. Life!Refuse(r) \/ Life!Accept(r)
    BY <1>a, <1>2, <1>4, <1>7
  <2> QED BY <2>1 DEF Life!NextLife
<1>8. CASE /\ LifeOf(cli[r]) = "served" /\ d.got = cli[r].got
           /\ LifeOf(d) = "over" /\ OutcomeOf(d) = "gone"
  <2>1. Life!Abandon(r)
    BY <1>a, <1>2, <1>4, <1>8
  <2> QED BY <2>1 DEF Life!NextLife
<1>9. CASE /\ LifeOf(cli[r]) = "served"
           /\ \E k \in Len(cli[r].got)..MaxTokens : d.got = [i \in 1..k |-> i]
           /\ \/ LifeOf(d) = "served" /\ OutcomeOf(d) = OutcomeOf(cli[r])
              \/ LifeOf(d) = "over" /\ OutcomeOf(d) \in Endings
  <2>1. Life!Extend(r)
    BY <1>2, <1>4, <1>9
  <2>2. Life!Deliver(r) \/ Life!Conclude(r)
    BY <2>1, <1>b, <1>c, <1>2, <1>4, <1>9
  <2> QED BY <2>2 DEF Life!NextLife
<1> QED BY <1>6, <1>7, <1>8, <1>9

\* A served client is handed text, or is told the end.
LEMMA LifeGrows ==
  ASSUME cli \in [Requests -> Clients], NEW r \in Requests, NEW d \in Clients,
         cli' = [cli EXCEPT ![r] = d],
         cli[r].st = "waiting", cli[r].fin = "none", d.st = "waiting",
         d.fin \in Endings \cup {"none"},
         NEW k \in Nat, Count(cli[r].got) <= k, k <= MaxTokens, d.got = Upto(k)
  PROVE  [Life!NextLife]_(Life!lifeVars)
<1>1. k \in Len(cli[r].got)..MaxTokens /\ d.got = [i \in 1..k |-> i]
  <2>1. Count(cli[r].got) \in Nat /\ MaxTokens \in Nat
    BY ClientFields, Capacities
  <2> QED BY <2>1 DEF Count, Upto
<1>2. LifeOf(cli[r]) = "served" /\ OutcomeOf(cli[r]) = "none"
  BY DEF LifeOf, OutcomeOf
<1>3. OutcomeOf(d) = d.fin /\ LifeOf(d) = IF d.fin = "none" THEN "served" ELSE "over"
  BY DEF LifeOf, OutcomeOf
<1>4. \E j \in Len(cli[r].got)..MaxTokens : d.got = [i \in 1..j |-> i]
  BY <1>1
<1>5. CASE d.fin = "none"
  BY <1>2, <1>3, <1>4, <1>5, LifeMove
<1>6. CASE d.fin # "none"
  <2>1. LifeOf(d) = "over" /\ OutcomeOf(d) \in Endings
    BY <1>3, <1>6
  <2> QED BY <1>2, <2>1, <1>4, LifeMove
<1> QED BY <1>5, <1>6

\* Every step of the gateway is, for the clients, a step of RequestLife.
LEMMA LifeStep ==
  ASSUME GateInv, [NextGateway]_gwVars
  PROVE  [Life!NextLife]_(Life!lifeVars)
<1>0. cli \in [Requests -> Clients]
  BY DEF GateInv, Typed
<1>1. CASE UNCHANGED cli
  BY <1>1, LifeStutter
<1>2. ASSUME NEW r \in Requests, ChatRefused(r) \/ ChatAccepted(r) \/ ClientLeaves(r)
      PROVE  [Life!NextLife]_(Life!lifeVars)
  <2> DEFINE c == cli[r]
  <2>0. c \in Clients /\ (c.st = "new" => c.fin = "none")
    BY Records DEF Sound, Unborn
  <2>1. CASE ChatRefused(r)
    <3> DEFINE d == [c EXCEPT !.st = "answered", !.fin = "refused"]
    <3>1. cli' = [cli EXCEPT ![r] = d] /\ c.st = "new"
      BY <2>1 DEF ChatRefused
    <3>2. d \in Clients /\ d.st = "answered" /\ d.fin = "refused" /\ d.got = c.got
      BY <2>0 DEF Clients
    <3> HIDE DEF d
    <3>3. LifeOf(c) = "idle" /\ LifeOf(d) = "over" /\ OutcomeOf(d) = "refused"
      BY <3>1, <3>2 DEF LifeOf, OutcomeOf
    <3> QED BY <1>0, <3>1, <3>2, <3>3, LifeMove
  <2>2. CASE ChatAccepted(r)
    <3> DEFINE d == [c EXCEPT !.st = "waiting"]
    <3>1. cli' = [cli EXCEPT ![r] = d] /\ c.st = "new"
      BY <2>2 DEF ChatAccepted
    <3>2. d \in Clients /\ d.st = "waiting" /\ d.fin = "none" /\ d.got = c.got
      BY <2>0, <3>1 DEF Clients
    <3> HIDE DEF d
    <3>3. LifeOf(c) = "idle" /\ LifeOf(d) = "served" /\ OutcomeOf(d) = "none"
      BY <3>1, <3>2 DEF LifeOf, OutcomeOf
    <3> QED BY <1>0, <3>1, <3>2, <3>3, LifeMove
  <2>3. CASE ClientLeaves(r)
    <3> DEFINE d == [c EXCEPT !.st = "gone"]
    <3>1. cli' = [cli EXCEPT ![r] = d] /\ c.st = "waiting"
      BY <2>3 DEF ClientLeaves
    <3>2. d \in Clients /\ d.st = "gone" /\ d.fin = c.fin /\ d.got = c.got
      BY <2>0 DEF Clients
    <3> HIDE DEF d
    <3>3. CASE c.fin = "none"
      <4>1. LifeOf(c) = "served" /\ LifeOf(d) = "over" /\ OutcomeOf(d) = "gone"
        BY <3>1, <3>2, <3>3 DEF LifeOf, OutcomeOf
      <4> QED BY <1>0, <3>1, <3>2, <4>1, LifeMove
    <3>4. CASE c.fin # "none"
      <4>1. LifeOf(c) = "over" /\ LifeOf(d) = "over" /\ OutcomeOf(d) = OutcomeOf(c)
        BY <3>1, <3>2, <3>4 DEF LifeOf, OutcomeOf
      <4> QED BY <1>0, <3>1, <3>2, <4>1, LifeMove
    <3> QED BY <3>3, <3>4
  <2> QED BY <1>2, <2>1, <2>2, <2>3
<1>3. ASSUME NEW r \in Requests, Handler(r)
      PROVE  [Life!NextLife]_(Life!lifeVars)
  <2> DEFINE c == cli[r]  g == gw[r]  n == net[r]  e == en[r]
  <2>0. /\ c \in Clients /\ g \in Handlers /\ n \in Conns /\ e \in Works
        /\ Sound(c, g, n, e)
    BY Records
  <2>1. /\ c.got = Upto(Count(c.got)) /\ Count(c.got) <= MaxTokens /\ Count(c.got) \in Nat
        /\ g.hand = "recv" => c.st = "waiting" /\ c.fin = "none"
        /\ g.hand = "done" => c.st = "waiting" /\ c.fin # "none"
    <3> HIDE DEF c, g, n, e
    <3>1. Count(c.got) \in Nat
      BY <2>0, ClientFields
    <3> QED BY <2>0, <3>1 DEF Sound, Prefix, Phases
  <2>a. ASSUME g.hand = "recv", g.chan # <<>>
        PROVE  /\ Head(g.chan).fin \in Endings \cup {"none"}
               /\ Grown(c, Head(g.chan)) \in Seq(1..MaxTokens)
               /\ Head(g.chan).fin = "error" => Grown(c, Head(g.chan)) = c.got
               /\ \E k \in Nat : /\ Count(c.got) <= k /\ k <= MaxTokens
                                 /\ Grown(c, Head(g.chan)) = Upto(k)
    <3> HIDE DEF c, g, n, e
    <3>1. Head(g.chan) \in Deltas /\ FrameOK(Head(g.chan), Count(c.got), e)
      BY <2>0, <2>a, Received
    <3>2. /\ Grown(c, Head(g.chan)) \in Seq(1..MaxTokens)
          /\ Count(Grown(c, Head(g.chan))) \in Nat
          /\ Grown(c, Head(g.chan)) = Upto(Count(Grown(c, Head(g.chan))))
          /\ Count(Grown(c, Head(g.chan))) <= MaxTokens
          /\ Count(c.got) <= Count(Grown(c, Head(g.chan)))
          /\ Head(g.chan).fin \notin {"none", "stop"} => Grown(c, Head(g.chan)) = c.got
      BY <2>0, <2>1, <3>1, GrownText
    <3>3. Head(g.chan).fin \in Endings \cup {"none"}
      BY <3>1 DEF Deltas
    <3> QED BY <3>2, <3>3
  <2>2. CASE StreamRecv(r)
    <3> DEFINE a == Head(g.chan)
               x == Grown(c, a)
               d == [c EXCEPT !.got = x, !.fin = a.fin]
    <3>1. g.hand = "recv" /\ g.chan # <<>>
      BY <2>2 DEF StreamRecv
    <3>2. /\ a.fin \in Endings \cup {"none"} /\ x \in Seq(1..MaxTokens)
          /\ a.fin = "error" => x = c.got
      BY <2>a, <3>1
    <3>3. PICK k \in Nat : Count(c.got) <= k /\ k <= MaxTokens /\ x = Upto(k)
      BY <2>a, <3>1
    <3>4. cli' = [cli EXCEPT ![r] = d]
      <4>1. cli' = [cli EXCEPT ![r].got = IF a.fin = "error" THEN @ ELSE Taken(r, a), ![r].fin = a.fin]
        BY <2>2 DEF StreamRecv
      <4>2. (IF a.fin = "error" THEN cli[r].got ELSE Taken(r, a)) = x
        BY <3>2 DEF Taken, Grown
      <4> QED BY <4>1, <4>2
    <3> HIDE DEF a, x
    <3>5. d \in Clients /\ d.st = c.st /\ d.fin = a.fin /\ d.got = x
      BY <2>0, <3>2 DEF Clients
    <3> HIDE DEF d
    <3> QED BY <1>0, <2>1, <3>1, <3>2, <3>3, <3>4, <3>5, LifeGrows
  <2>3. CASE BlockingRecv(r)
    <3> DEFINE a == Head(g.chan)
               x == Grown(c, a)
               d == IF a.fin = "error" THEN [c EXCEPT !.fin = "error"] ELSE [c EXCEPT !.got = x]
    <3>1. g.hand = "recv" /\ g.chan # <<>>
      BY <2>3 DEF BlockingRecv
    <3>2. x \in Seq(1..MaxTokens) /\ (a.fin = "error" => x = c.got)
      BY <2>a, <3>1
    <3>3. PICK k \in Nat : Count(c.got) <= k /\ k <= MaxTokens /\ x = Upto(k)
      BY <2>a, <3>1
    <3>4. cli' = [cli EXCEPT ![r] = d]
      <4>1. CASE a.fin = "error"
        BY <2>3, <4>1 DEF BlockingRecv
      <4>2. CASE a.fin # "error"
        <5>1. cli' = [cli EXCEPT ![r].got = Taken(r, a)]
          BY <2>3, <4>2 DEF BlockingRecv
        <5>2. Taken(r, a) = x
          BY DEF Taken, Grown
        <5> QED BY <4>2, <5>1, <5>2
      <4> QED BY <4>1, <4>2
    <3> HIDE DEF x
    <3>5. /\ d \in Clients /\ d.st = c.st /\ d.fin \in {"error", c.fin}
          /\ d.got = x
      <4>1. CASE a.fin = "error"
        <5>1. d = [c EXCEPT !.fin = "error"]
          BY <4>1
        <5> HIDE DEF d, a, c
        <5> QED BY <4>1, <5>1, <2>0, <3>2 DEF Clients, Endings
      <4>2. CASE a.fin # "error"
        <5>1. d = [c EXCEPT !.got = x]
          BY <4>2
        <5> HIDE DEF d, a, c
        <5> QED BY <5>1, <2>0, <3>2 DEF Clients
      <4> QED BY <4>1, <4>2
    <3>6. d.fin \in Endings \cup {"none"}
      BY <2>1, <3>1, <3>5 DEF Endings
    <3> HIDE DEF d, a
    <3> QED BY <1>0, <2>1, <3>1, <3>3, <3>4, <3>5, <3>6, LifeGrows
  <2>4. CASE StubAnswers(r)
    <3>1. PICK k \in 1..MaxTokens :
            cli' = [cli EXCEPT ![r] = [c EXCEPT !.got = Upto(k), !.fin = "stop"]]
      <4>1. PICK k \in 1..MaxTokens :
              cli' = [cli EXCEPT ![r].got = [i \in 1..k |-> i], ![r].fin = "stop"]
        BY <2>4 DEF StubAnswers
      <4>2. Upto(k) = [i \in 1..k |-> i]
        BY DEF Upto
      <4>3. cli' = [cli EXCEPT ![r] = [c EXCEPT !.got = Upto(k), !.fin = "stop"]]
        BY <4>1, <4>2
      <4> QED BY <4>3
    <3> DEFINE d == [c EXCEPT !.got = Upto(k), !.fin = "stop"]
    <3>2. g.hand = "recv" /\ g.fwd = "off"
      BY <2>4 DEF StubAnswers
    <3> DEFINE h == [g EXCEPT !.hand = "done"]
               f == [e EXCEPT !.made = k]
    <3>3. d \in Clients /\ h \in Handlers /\ f \in Works /\ Sound(d, h, n, f)
      <4> HIDE DEF c, g, n, e
      <4> QED BY <2>0, <3>2, StubAnswerSound
    <3>4. d.st = c.st /\ d.fin = "stop" /\ d.got = Upto(k)
      BY <2>0 DEF Clients
    <3>5. c.got = <<>>
      <4> HIDE DEF c, g, n, e
      <4> QED BY <2>0, <3>2 DEF Sound, Phases
    <3>6. k \in Nat /\ Count(c.got) <= k /\ k <= MaxTokens
      <4>1. Count(c.got) = 0
        BY <3>5 DEF Count
      <4> QED BY <4>1, Capacities
    <3> HIDE DEF d
    <3> QED BY <1>0, <2>1, <3>1, <3>2, <3>3, <3>4, <3>6, LifeGrows DEF d, Endings
  <2>5. CASE HandlerCancel(r)
    BY <2>5, LifeStutter DEF HandlerCancel
  <2>8. CASE CancelReturns(r)
    BY <2>8, LifeStutter DEF CancelReturns
  <2>6. CASE ChannelClosed(r)
    <3> DEFINE d == [c EXCEPT !.fin = g.reason]
    <3>1. g.hand = "recv" /\ g.chan = <<>> /\ g.fwd = "end"
      BY <2>6 DEF ChannelClosed
    <3>2. g.mode = "blocking" /\ d \in Clients
      <4> HIDE DEF c, g, n, e
      <4> QED BY <2>0, <3>1, ClosedSound
    <3>3. cli' = [cli EXCEPT ![r] = d]
      BY <2>6, <3>2 DEF ChannelClosed
    <3>4. d.st = c.st /\ d.got = c.got /\ d.fin \in Endings
      BY <2>0 DEF Clients, Handlers
    <3> HIDE DEF d
    <3>5. d.got = Upto(Count(c.got)) /\ Count(c.got) <= Count(c.got)
      BY <2>1, <3>4
    <3> QED BY <1>0, <2>1, <3>1, <3>2, <3>3, <3>4, <3>5, LifeGrows
  <2>7. CASE Answer(r)
    <3> DEFINE d == [c EXCEPT !.st = "answered"]
    <3>1. cli' = [cli EXCEPT ![r] = d] /\ g.hand = "done"
      BY <2>7 DEF Answer
    <3>2. d \in Clients /\ d.st = "answered" /\ d.fin = c.fin /\ d.got = c.got
      BY <2>0 DEF Clients
    <3> HIDE DEF d
    <3>3. LifeOf(c) = "over" /\ LifeOf(d) = "over" /\ OutcomeOf(d) = OutcomeOf(c)
      BY <2>1, <3>1, <3>2 DEF LifeOf, OutcomeOf
    <3> QED BY <1>0, <3>1, <3>2, <3>3, LifeMove
  <2> QED BY <1>3, <2>2, <2>3, <2>4, <2>5, <2>6, <2>7, <2>8 DEF Handler
<1>4. ASSUME NEW r \in Requests, Forwarder(r) \/ EngineHandler(r) \/ Generate(r) \/ Fail(r) \/ Expire(r)
      PROVE  UNCHANGED cli
  BY <1>4 DEF Forwarder, EngineHandler, Generate, Fail, Expire, Connect, ReadLine, ReadFails,
       Send, SendCancels, SendReturns, SendError, StubSends, StubStops, HandlerWrites, HandlerCancels,
       HandlerTornDown
<1>5. ASSUME Server \/ Interrupt \/ EngineWarm \/ EngineDies \/ EngineHangs \/ EngineDrain
      PROVE  UNCHANGED cli
  BY <1>5 DEF Server, Start, EngineReady, ReadyTimeout, SetDraining, StopAccepting,
       ServeReturns, DropChild, Interrupt, EngineWarm, EngineDies, EngineHangs,
       EngineDrain
<1>6. UNCHANGED gwVars => UNCHANGED cli
  BY DEF gwVars
<1> QED BY <1>1, <1>2, <1>3, <1>4, <1>5, <1>6 DEF NextGateway

\* Nothing has happened to any request when the server starts.
LEMMA LifeStart == InitGateway => Life!InitLife
<1> SUFFICES ASSUME InitGateway PROVE Life!InitLife
  OBVIOUS
<1>1. cli = [r \in Requests |-> [st |-> "new", got |-> <<>>, fin |-> "none"]]
  BY DEF InitGateway
<1> QED BY <1>1 DEF Life!InitLife

\* Whatever the processes, tasks, connections and timeouts do, a client sees a
\* behaviour of RequestLife: it is refused or served, it receives the tokens of
\* its completion from the first, in order and once each, and then one end, after
\* which nothing follows.  (The liveness of RequestLife is checked by TLC.)
THEOREM GatewayImplementsLife ==
  SpecGateway => Life!InitLife /\ [][Life!NextLife]_(Life!lifeVars)
BY LifeStart, LifeStep, GateAlways, PTL DEF SpecGateway

====
