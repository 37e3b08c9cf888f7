---- MODULE Gateway ----
(***************************************************************************)
(* The Rust server around the engine process: sglang-lite-serving starts   *)
(* the engine and waits for it, the control plane turns a chat request     *)
(* into a generation request, and a forwarder task copies the engine's     *)
(* NDJSON lines through a bounded channel to the handler, which passes     *)
(* them to the client as server-sent events or collects them for one       *)
(* answer.  Clients leave, lines stall, deadlines pass on both sides, the  *)
(* engine process dies or hangs, and the server is interrupted, at any     *)
(* moment.                                                                 *)
(*                                                                         *)
(* The engine is kept to what its HTTP surface shows: a bounded delta      *)
(* queue per request, filled by the engine loop (EngineLoop has the        *)
(* detail) and emptied by the ndjson_stream of its handler.                *)
(***************************************************************************)
EXTENDS Naturals, Sequences

CONSTANTS Requests,    \* ids of chat requests; chat_completions makes a new one each time
          MaxTokens,   \* max_tokens
          ChanCap,     \* capacity of the forwarder's channel (128 in the code)
          QueueCap,    \* maxsize of a delta queue (256)
          WireCap      \* lines the connection buffers before the writer waits

ASSUME GatewayAssumption == {MaxTokens, ChanCap, QueueCap, WireCap} \subseteq Nat \ {0}

VARIABLES srv,     \* the server process: pc, engine kind, ready, draining, sigint
          child,   \* the engine process: absent, loading, ready, draining, hung or dead
          cli,     \* [Requests -> the client's side]
          gw,      \* [Requests -> handler and forwarder of the request]
          net,     \* [Requests -> the connection to the engine]
          en       \* [Requests -> the request inside the engine]

gwVars == <<srv, child, cli, gw, net, en>>

----------------------------------------------------------------------------
(* Data *)

Endings == {"stop", "cancelled", "timeout", "error"}

\* A TokenDelta: a token's text (0: no text), and a finish_reason ("none": none).
\* An error always comes with finish_reason "error".
Delta(t, f) == [tok |-> t, fin |-> f]
Deltas == [tok : 0..MaxTokens, fin : Endings \cup {"none"}]
IsLast(d) == d.fin # "none"

EngineUp == child \in {"ready", "draining"}

NoHandler == [mode |-> "stream", hand |-> "off", fwd |-> "off", held |-> Delta(0, "none"),
              chan |-> <<>>, reason |-> "stop", asked |-> FALSE]

InitGateway ==
  /\ \E kind \in {"spawned", "url", "stub"} :
       /\ srv = [pc |-> "start", kind |-> kind, ready |-> FALSE,
                 draining |-> FALSE, sigint |-> FALSE]
       /\ child = IF kind = "url" THEN "loading" ELSE "absent"
  /\ cli = [r \in Requests |-> [st |-> "new", got |-> <<>>, fin |-> "none"]]
  /\ gw  = [r \in Requests |-> NoHandler]
  /\ net = [r \in Requests |-> [up |-> FALSE, down |-> FALSE, wire |-> <<>>]]
  /\ en  = [r \in Requests |-> [st |-> "none", open |-> FALSE, dq |-> <<>>, made |-> 0]]

----------------------------------------------------------------------------
(* The server process (serving/src/main.rs) *)

\* spawn_python_engine, or nothing to do for a running engine and for --stub.
Start ==
  /\ srv.pc = "start"
  /\ srv' = [srv EXCEPT !.pc = IF srv.kind = "stub" THEN "serving" ELSE "waiting",
                        !.ready = srv.kind = "stub"]
  /\ child' = IF srv.kind = "spawned" THEN "loading" ELSE child
  /\ UNCHANGED <<cli, gw, net, en>>

\* wait_engine_ready sees 200 from /readyz; the server then binds its port.
EngineReady ==
  /\ srv.pc = "waiting" /\ child = "ready"
  /\ srv' = [srv EXCEPT !.pc = "serving", !.ready = TRUE]
  /\ UNCHANGED <<child, cli, gw, net, en>>

\* wait_engine_ready gives up: run_serve returns the error and drops the child.
\* It looks at its clock between two GETs, which have no timeout of their own.
ReadyTimeout ==
  /\ srv.pc = "waiting" /\ child # "hung"
  /\ srv' = [srv EXCEPT !.pc = "returned"]
  /\ UNCHANGED <<child, cli, gw, net, en>>

\* SIGINT wakes two tasks, in any order: one sets the flags, ...
Interrupt ==
  /\ srv.pc = "serving" /\ ~ srv.sigint
  /\ srv' = [srv EXCEPT !.sigint = TRUE]
  /\ UNCHANGED <<child, cli, gw, net, en>>

SetDraining ==
  /\ srv.sigint /\ ~ srv.draining
  /\ srv' = [srv EXCEPT !.draining = TRUE, !.ready = FALSE]
  /\ UNCHANGED <<child, cli, gw, net, en>>

\* ... the other starts axum's graceful shutdown: no new connection.
StopAccepting ==
  /\ srv.sigint /\ srv.pc = "serving"
  /\ srv' = [srv EXCEPT !.pc = "closing"]
  /\ UNCHANGED <<child, cli, gw, net, en>>

\* axum::serve returns when the last connection is closed.
ServeReturns ==
  /\ srv.pc = "closing"
  /\ \A r \in Requests : cli[r].st # "waiting"
  /\ srv' = [srv EXCEPT !.pc = "returned"]
  /\ UNCHANGED <<child, cli, gw, net, en>>

\* What the death of the engine process does to its requests and connections.
Dead(r) == [st |-> "over", open |-> FALSE, dq |-> <<>>, made |-> en[r].made]
EngineGone ==
  /\ child' = "dead"
  /\ en'  = [r \in Requests |-> IF en[r].st = "none" THEN en[r] ELSE Dead(r)]
  /\ net' = [r \in Requests |-> [net[r] EXCEPT !.down = FALSE]]

\* EngineChild::drop: SIGTERM, then SIGKILL after five seconds.  The exit of the
\* server process ends its forwarder tasks too.
DropChild ==
  /\ srv.pc = "returned"
  /\ srv' = [srv EXCEPT !.pc = "exited"]
  /\ gw' = [r \in Requests |-> [gw[r] EXCEPT !.fwd = "off", !.chan = <<>>]]
  /\ IF srv.kind = "spawned"
     THEN /\ child' = "dead"
          /\ en'  = [r \in Requests |-> IF en[r].st = "none" THEN en[r] ELSE Dead(r)]
          /\ net' = [r \in Requests |-> [up |-> FALSE, down |-> FALSE, wire |-> <<>>]]
     ELSE /\ net' = [r \in Requests |-> [net[r] EXCEPT !.up = FALSE]]
          /\ UNCHANGED <<child, en>>
  /\ UNCHANGED cli

----------------------------------------------------------------------------
(* The engine process (engine/process.py) *)

\* main: READY after build_loop and _warmup; an exception in either ends it.
EngineWarm ==
  /\ child = "loading"
  /\ child' = "ready"
  /\ UNCHANGED <<srv, cli, gw, net, en>>

EngineDies ==
  /\ child \in {"loading", "ready", "draining", "hung"}
  /\ EngineGone
  /\ UNCHANGED <<srv, cli, gw>>

\* The engine loop waits for a lock it holds (EngineLoop has how), and the first
\* route that calls cancel or submit stops the event loop at the same lock: the
\* process lives, generates nothing and answers nothing any more.
EngineHangs ==
  /\ EngineUp
  /\ child' = "hung"
  /\ UNCHANGED <<srv, cli, gw, net, en>>

\* POST /v1/drain
EngineDrain ==
  /\ child = "ready"
  /\ child' = "draining"
  /\ UNCHANGED <<srv, cli, gw, net, en>>

\* Mutant of Put: a delta queue without maxsize.
PutUnbounded(e, d, final) ==
  [e EXCEPT !.dq = IF e.open THEN Append(@, d) ELSE @, !.open = e.open /\ ~ final]

\* EngineLoop._emit of frame d: a full queue loses it.
Put(e, d, final) ==
  [e EXCEPT !.dq = IF e.open /\ Len(e.dq) < QueueCap THEN Append(@, d) ELSE @,
            !.open = e.open /\ ~ final]

\* Mutant of Full: the full queue loses the frame, and generation goes on.
FullIgnored(e) == FALSE

\* The put of _emit raises queue.Full.
Full(e) == e.open /\ Len(e.dq) = QueueCap

\* The engine loop emits the next token of a request; the last frame carries the
\* finish_reason and may have no text.  A frame that finds its queue full for a
\* second is dropped and the sequence cancelled.
Generate(r) ==
  /\ EngineUp /\ en[r].st = "live"
  /\ \E text \in {0, 1}, f \in {"none", "stop"} :
       LET d == Delta(IF text = 1 THEN en[r].made + 1 ELSE 0, f)
       IN  /\ text = 1 => en[r].made < MaxTokens
           /\ f = "none" => text = 1 /\ en[r].made + 1 < MaxTokens
           /\ en' = [en EXCEPT ![r] = [Put(en[r], d, f = "stop") EXCEPT
                       !.made = @ + text,
                       !.st = IF f = "stop" \/ Full(en[r]) THEN "over" ELSE "live"]]
  /\ UNCHANGED <<srv, child, cli, gw, net>>

\* The batch of the request fails, or its admission does.
Fail(r) ==
  /\ EngineUp /\ en[r].st = "live"
  /\ en' = [en EXCEPT ![r] = [Put(en[r], Delta(0, "error"), TRUE) EXCEPT !.st = "over"]]
  /\ UNCHANGED <<srv, child, cli, gw, net>>

\* _check_timeouts; timeout_s is 300 s, like the forwarder's own timeout.
Expire(r) ==
  /\ EngineUp
  /\ en[r].st = "live" \/ en[r].open
  /\ en' = [en EXCEPT ![r] = [Put(en[r], Delta(0, "timeout"), TRUE) EXCEPT !.st = "over"]]
  /\ UNCHANGED <<srv, child, cli, gw, net>>

\* EngineLoop.cancel
Cancelled(e) == [Put(e, Delta(0, "cancelled"), TRUE) EXCEPT
                   !.st = IF e.st = "live" THEN "over" ELSE e.st]

\* ndjson_stream: the next frame goes to the connection; the last one ends it.
HandlerWrites(r) ==
  /\ EngineUp /\ net[r].down /\ net[r].up
  /\ en[r].dq # <<>> /\ Len(net[r].wire) < WireCap
  /\ net' = [net EXCEPT ![r].wire = Append(@, Head(en[r].dq)),
                        ![r].down = ~ IsLast(Head(en[r].dq))]
  /\ en' = [en EXCEPT ![r].dq = Tail(@)]
  /\ UNCHANGED <<srv, child, cli, gw>>

\* request.is_disconnected() at the top of its loop: cancel and stop.
HandlerCancels(r) ==
  /\ EngineUp /\ net[r].down /\ ~ net[r].up
  /\ net' = [net EXCEPT ![r].down = FALSE]
  /\ en' = [en EXCEPT ![r] = Cancelled(@)]
  /\ UNCHANGED <<srv, child, cli, gw>>

\* The web framework ends the stream of a closed connection before the loop
\* comes back to its test: nothing is cancelled.
HandlerTornDown(r) ==
  /\ EngineUp /\ net[r].down /\ ~ net[r].up
  /\ net' = [net EXCEPT ![r].down = FALSE]
  /\ UNCHANGED <<srv, child, cli, gw, en>>

----------------------------------------------------------------------------
(* chat_completions (control/src/lib.rs) *)

\* The checks in their order; the request's own ones are the choice of valid.
Refuses(valid) == srv.draining \/ ~ srv.ready \/ ~ valid

ChatRefused(r) ==
  /\ srv.pc = "serving" /\ cli[r].st = "new"
  /\ \E valid \in BOOLEAN : Refuses(valid)
  /\ cli' = [cli EXCEPT ![r].st = "answered", ![r].fin = "refused"]
  /\ UNCHANGED <<srv, child, gw, net, en>>

ChatAccepted(r) ==
  /\ srv.pc = "serving" /\ cli[r].st = "new"
  /\ ~ Refuses(TRUE)
  /\ \E mode \in {"stream", "blocking"} :
       gw' = [gw EXCEPT ![r].mode = mode, ![r].hand = "recv",
                        ![r].fwd = IF srv.kind # "stub" THEN "connect"
                                   ELSE IF mode = "stream" THEN "stub" ELSE "off"]
  /\ cli' = [cli EXCEPT ![r].st = "waiting"]
  /\ UNCHANGED <<srv, child, net, en>>

\* The client closes its connection: the handler, and with it the receiver of
\* the channel, is dropped where it stands; nothing after that point runs.
ClientLeaves(r) ==
  /\ cli[r].st = "waiting"
  /\ cli' = [cli EXCEPT ![r].st = "gone"]
  /\ gw' = [gw EXCEPT ![r].hand = "off", ![r].chan = <<>>]
  /\ UNCHANGED <<srv, child, net, en>>

RxOpen(r) == gw[r].hand # "off"

\* POST /v1/cancel of the gateway; without effect when the engine is not there or
\* does not come to the request.
PostCancel(r) ==
  en' = IF EngineUp /\ en[r].st # "none" THEN [en EXCEPT ![r] = Cancelled(@)] ELSE en

\* The POST has no timeout: it ends with the answer, or with the connection of
\* an engine process that is gone.
Replied == child # "hung"

----------------------------------------------------------------------------
(* The forwarder task (http_engine.rs generate_stream) *)

\* The engine's generate: refused while draining or not ready, else submitted.
Connect(r) ==
  /\ gw[r].fwd = "connect"
  /\ IF child = "ready"
     THEN /\ en' = [en EXCEPT ![r].st = "live", ![r].open = TRUE]
          /\ net' = [net EXCEPT ![r].up = TRUE, ![r].down = TRUE]
          /\ gw' = [gw EXCEPT ![r].fwd = "read"]
     ELSE /\ gw' = [gw EXCEPT ![r].fwd = "fail"]
          /\ UNCHANGED <<en, net>>
  /\ UNCHANGED <<srv, child, cli>>

ReadLine(r) ==
  /\ gw[r].fwd = "read" /\ net[r].wire # <<>>
  /\ gw' = [gw EXCEPT ![r].fwd = "send", ![r].held = Head(net[r].wire)]
  /\ net' = [net EXCEPT ![r].wire = Tail(@)]
  /\ UNCHANGED <<srv, child, cli, en>>

HangUp(r) == net' = [net EXCEPT ![r].up = FALSE, ![r].wire = <<>>]

\* Mutant of ReadFails: no request timeout, only a stream that has ended.
ReadFailsAtEnd(r) ==
  /\ gw[r].fwd = "read" /\ ~ net[r].down /\ net[r].wire = <<>>
  /\ gw' = [gw EXCEPT ![r].fwd = "fail"]
  /\ HangUp(r)
  /\ UNCHANGED <<srv, child, cli, en>>

\* The stream ends, breaks, or the request timeout of 300 s passes.
ReadFails(r) ==
  /\ gw[r].fwd = "read"
  /\ gw' = [gw EXCEPT ![r].fwd = "fail"]
  /\ HangUp(r)
  /\ UNCHANGED <<srv, child, cli, en>>

\* tx.send(delta): waits while the channel is full.
Send(r) ==
  /\ gw[r].fwd = "send" /\ RxOpen(r) /\ Len(gw[r].chan) < ChanCap
  /\ gw' = [gw EXCEPT ![r].chan = Append(@, gw[r].held),
                      ![r].fwd = IF IsLast(gw[r].held) THEN "end" ELSE "read"]
  /\ IF IsLast(gw[r].held) THEN HangUp(r) ELSE UNCHANGED net
  /\ UNCHANGED <<srv, child, cli, en>>

\* tx.send fails: the receiver is gone, so cancel the engine's work ...
SendCancels(r) ==
  /\ gw[r].fwd = "send" /\ ~ RxOpen(r)
  /\ PostCancel(r)
  /\ gw' = [gw EXCEPT ![r].fwd = "await", ![r].asked = TRUE]
  /\ UNCHANGED <<srv, child, cli, net>>

\* ... and return, which drops the stream, once the cancel is answered.
SendReturns(r) ==
  /\ gw[r].fwd = "await" /\ Replied
  /\ gw' = [gw EXCEPT ![r].fwd = "end"]
  /\ HangUp(r)
  /\ UNCHANGED <<srv, child, cli, en>>

\* Mutant of SendError: the task returns without the error delta.
SendErrorSilent(r) ==
  /\ gw[r].fwd = "fail"
  /\ gw' = [gw EXCEPT ![r].fwd = "end"]
  /\ UNCHANGED <<srv, child, cli, net, en>>

\* The error delta for everything that went wrong above.
SendError(r) ==
  /\ gw[r].fwd = "fail"
  /\ RxOpen(r) => Len(gw[r].chan) < ChanCap
  /\ gw' = [gw EXCEPT ![r].fwd = "end",
              ![r].chan = IF RxOpen(r) THEN Append(@, Delta(0, "error")) ELSE @]
  /\ UNCHANGED <<srv, child, cli, net, en>>

\* The stub engine's task: words of its reply, the last one with a finish_reason.
StubSends(r) ==
  /\ gw[r].fwd = "stub" /\ RxOpen(r) /\ Len(gw[r].chan) < ChanCap
  /\ \E f \in {"none", "stop"} :
       /\ f = "none" => en[r].made + 1 < MaxTokens
       /\ gw' = [gw EXCEPT ![r].chan = Append(@, Delta(en[r].made + 1, f)),
                           ![r].fwd = IF f = "none" THEN "stub" ELSE "end"]
  /\ en' = [en EXCEPT ![r].made = @ + 1]
  /\ UNCHANGED <<srv, child, cli, net>>

\* StubEngineClient::generate_blocking answers at once, without a channel.
StubAnswers(r) ==
  /\ gw[r].hand = "recv" /\ gw[r].fwd = "off"
  /\ \E n \in 1..MaxTokens :
       /\ cli' = [cli EXCEPT ![r].got = [i \in 1..n |-> i], ![r].fin = "stop"]
       /\ en' = [en EXCEPT ![r].made = n]
  /\ gw' = [gw EXCEPT ![r].hand = "done"]
  /\ UNCHANGED <<srv, child, net>>

StubStops(r) ==
  /\ gw[r].fwd = "stub" /\ ~ RxOpen(r)
  /\ gw' = [gw EXCEPT ![r].fwd = "end"]
  /\ UNCHANGED <<srv, child, cli, net, en>>

Forwarder(r) ==
  \/ Connect(r) \/ ReadLine(r) \/ ReadFails(r) \/ Send(r) \/ SendCancels(r)
  \/ SendReturns(r) \/ SendError(r) \/ StubSends(r) \/ StubStops(r)

----------------------------------------------------------------------------
(* The handler (lib.rs stream_chat, http_engine.rs generate_blocking) *)

\* The text of a delta reaches the client, or the text collected for it.
Taken(r, d) == IF d.tok = 0 THEN cli[r].got ELSE Append(cli[r].got, d.tok)

\* Mutant of StreamRecv: saw_finish is not set at a finish_reason.
StreamRecvForgets(r) ==
  /\ gw[r].mode = "stream" /\ gw[r].hand = "recv" /\ gw[r].chan # <<>>
  /\ LET d == Head(gw[r].chan)
     IN  /\ gw' = [gw EXCEPT ![r].chan = Tail(@),
                             ![r].hand = CASE d.fin = "error" -> "cancel"
                                           [] d.fin = "none" -> "recv"
                                           [] OTHER -> "cancelAgain"]
         /\ cli' = [cli EXCEPT ![r].got = IF d.fin = "error" THEN @ ELSE Taken(r, d),
                               ![r].fin = d.fin]
  /\ UNCHANGED <<srv, child, net, en>>

\* stream_chat: an error event, then a cancel; a finish_reason ends the loop.
StreamRecv(r) ==
  /\ gw[r].mode = "stream" /\ gw[r].hand = "recv" /\ gw[r].chan # <<>>
  /\ LET d == Head(gw[r].chan)
     IN  /\ gw' = [gw EXCEPT ![r].chan = Tail(@),
                             ![r].hand = CASE d.fin = "error" -> "cancel"
                                           [] d.fin = "none" -> "recv"
                                           [] OTHER -> "done"]
         /\ cli' = [cli EXCEPT ![r].got = IF d.fin = "error" THEN @ ELSE Taken(r, d),
                               ![r].fin = d.fin]
  /\ UNCHANGED <<srv, child, net, en>>

\* The cancel of the error branch, and the one after the loop: saw_finish is
\* still false when the loop ended by an error or by a closed channel.
HandlerCancel(r) ==
  /\ gw[r].hand \in {"cancel", "cancelAgain"}
  /\ PostCancel(r)
  /\ gw' = [gw EXCEPT ![r].asked = TRUE,
              ![r].hand = IF gw[r].hand = "cancel" THEN "await" ELSE "awaitAgain"]
  /\ UNCHANGED <<srv, child, cli, net>>

\* The handler goes on when its cancel returns.
CancelReturns(r) ==
  /\ gw[r].hand \in {"await", "awaitAgain"} /\ Replied
  /\ gw' = [gw EXCEPT ![r].hand = IF gw[r].hand = "await" THEN "cancelAgain" ELSE "done"]
  /\ UNCHANGED <<srv, child, cli, net, en>>

\* generate_blocking collects text and finish_reason until the channel closes,
\* and stops at an error.
BlockingRecv(r) ==
  /\ gw[r].mode = "blocking" /\ gw[r].hand = "recv" /\ gw[r].chan # <<>>
  /\ LET d == Head(gw[r].chan)
     IN  IF d.fin = "error"
         THEN /\ gw' = [gw EXCEPT ![r].hand = "done", ![r].chan = <<>>]
              /\ cli' = [cli EXCEPT ![r].fin = "error"]
         ELSE /\ gw' = [gw EXCEPT ![r].chan = Tail(@),
                                  ![r].reason = IF d.fin = "none" THEN @ ELSE d.fin]
              /\ cli' = [cli EXCEPT ![r].got = Taken(r, d)]
  /\ UNCHANGED <<srv, child, net, en>>

\* The channel is closed and empty.
ChannelClosed(r) ==
  /\ gw[r].hand = "recv" /\ gw[r].chan = <<>> /\ gw[r].fwd = "end"
  /\ gw' = [gw EXCEPT ![r].hand = IF gw[r].mode = "stream" THEN "cancelAgain" ELSE "done"]
  /\ cli' = IF gw[r].mode = "stream" THEN cli ELSE [cli EXCEPT ![r].fin = gw[r].reason]
  /\ UNCHANGED <<srv, child, net, en>>

\* [DONE], or the JSON answer.
Answer(r) ==
  /\ gw[r].hand = "done"
  /\ gw' = [gw EXCEPT ![r].hand = "off", ![r].chan = <<>>]
  /\ cli' = [cli EXCEPT ![r].st = "answered"]
  /\ UNCHANGED <<srv, child, net, en>>

Handler(r) ==
  \/ StreamRecv(r) \/ BlockingRecv(r) \/ StubAnswers(r)
  \/ HandlerCancel(r) \/ CancelReturns(r) \/ ChannelClosed(r) \/ Answer(r)

----------------------------------------------------------------------------
Server == Start \/ EngineReady \/ ReadyTimeout \/ SetDraining \/ StopAccepting
          \/ ServeReturns \/ DropChild
EngineHandler(r) == HandlerWrites(r) \/ HandlerCancels(r) \/ HandlerTornDown(r)

NextGateway ==
  \/ Server \/ Interrupt
  \/ EngineWarm \/ EngineDies \/ EngineHangs \/ EngineDrain
  \/ \E r \in Requests :
       \/ ChatRefused(r) \/ ChatAccepted(r) \/ ClientLeaves(r)
       \/ Handler(r) \/ Forwarder(r)
       \/ EngineHandler(r) \/ Generate(r) \/ Fail(r) \/ Expire(r)

\* Tasks and processes that can run do run, a client that stays connected reads,
\* and time passes: the timeouts of both sides are among the fair actions.
SpecGateway ==
  /\ InitGateway /\ [][NextGateway]_gwVars
  /\ WF_gwVars(Server)
  /\ \A r \in Requests :
       /\ WF_gwVars(Handler(r)) /\ WF_gwVars(Forwarder(r))
       /\ WF_gwVars(EngineHandler(r)) /\ WF_gwVars(Expire(r))

----------------------------------------------------------------------------
(* Properties *)

\* Every variable keeps its type, and the channel, the delta queue and the
\* connection's buffer keep to their capacities.
GateTypeOK ==
  /\ srv \in [pc : {"start", "waiting", "serving", "closing", "returned", "exited"},
              kind : {"spawned", "url", "stub"}, ready : BOOLEAN, draining : BOOLEAN,
              sigint : BOOLEAN]
  /\ child \in {"absent", "loading", "ready", "draining", "hung", "dead"}
  /\ \A r \in Requests :
       /\ cli[r].st \in {"new", "waiting", "gone", "answered"}
       /\ cli[r].fin \in Endings \cup {"none", "refused"}
       /\ gw[r].hand \in {"off", "recv", "cancel", "await", "cancelAgain", "awaitAgain",
                         "done"}
       /\ gw[r].fwd \in {"off", "connect", "read", "send", "await", "fail", "stub", "end"}
       /\ gw[r].held \in Deltas /\ gw[r].reason \in Endings
       /\ Len(gw[r].chan) <= ChanCap /\ Len(net[r].wire) <= WireCap
       /\ Len(en[r].dq) <= QueueCap /\ en[r].made \in 0..MaxTokens
       /\ en[r].st \in {"none", "live", "over"}

\* A client that is told its completion is complete (finish_reason stop or length,
\* generate_blocking's default included) has received every token the engine
\* generated for it: none was lost in a full queue, a full channel, a closed
\* connection or a drained engine on the way.
StopMeansComplete ==
  \A r \in Requests :
    cli[r].fin = "stop" => cli[r].got = [i \in 1..en[r].made |-> i]

\* The gateway cancels the engine's work only for a client that has left or has
\* been shown an error, never behind the back of one that is still served, and
\* never after a regular finish (which would leave the id in _cancelled).
CancelOnlyAbandoned ==
  \A r \in Requests :
    gw[r].asked => cli[r].st = "gone" \/ cli[r].fin = "error"

\* What the client of r sees, in the terms of RequestLife.
Life == INSTANCE RequestLife WITH
  life <- [r \in Requests |->
             CASE cli[r].st = "new" -> "idle"
               [] cli[r].st = "waiting" /\ cli[r].fin = "none" -> "served"
               [] OTHER -> "over"],
  text <- [r \in Requests |-> cli[r].got],
  outcome <- [r \in Requests |->
                IF cli[r].st = "gone" /\ cli[r].fin = "none" THEN "gone" ELSE cli[r].fin]

\* Streams and collected answers keep the promise of RequestLife: tokens from the
\* first on, in order, once each; one end; and an end for everybody who stays,
\* whatever the engine process does.  The end is the finish_reason or the error
\* the client is shown; that its stream is closed after an error is not promised
\* (ShutdownEnds has the case).
RefinesLife == Life!SpecLife

\* A stream that has shown its error and waits for the answer to its cancel from
\* an engine that hangs: stream_chat sends the POST without a timeout.
HeldByCancel(r) == gw[r].hand \in {"await", "awaitAgain"} /\ child = "hung"

\* After SIGINT the server exits: the open streams end by themselves, whether
\* their engine generates, fails, drains, dies or hangs, with one exception: a
\* stream whose cancel waits for the answer of a hung engine keeps the graceful
\* shutdown waiting until the engine is killed or the client leaves.  Collected
\* answers are never the exception.
ShutdownEnds ==
  srv.sigint ~> \/ srv.pc = "exited"
                \/ \E r \in Requests : gw[r].mode = "stream" /\ HeldByCancel(r)

====
