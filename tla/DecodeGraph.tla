---- MODULE DecodeGraph ----
(***************************************************************************)
(* Single-token decode on FlashInfer's paged kernels: the metadata buffers *)
(* of fixed capacity that FlashInferBackend keeps for a batch of one, the  *)
(* wrapper that is bound to them, and the CUDA graph that                  *)
(* PagedDecodeCudaGraph captures over the model body and replays without   *)
(* running any Python.  What a replay reads is what the captured addresses *)
(* hold, so a buffer that was replaced, not refilled, or is not an input   *)
(* of the step shows up as another sequence's token or page.               *)
(*                                                                         *)
(* The token of sequence s at position p is <<s, p>>.  K/V of a token is   *)
(* the token.  Whether a page is shared with the radix tree is a free      *)
(* choice (RadixCache models it).  A forward is planned in one step and    *)
(* run in another: a cancel() on the HTTP thread in between gives the       *)
(* sequence an empty table and its pages back to the pool, but the plan     *)
(* keeps the old list, and the body writes into pages that have no owner.   *)
(***************************************************************************)
EXTENDS Integers, Sequences, SequencesExt, FiniteSets, FiniteSetsExt

CONSTANTS Seqs, Pages,   \* sequences; page ids
          PageSize,
          PromptLen,     \* tokens of a prompt
          MaxLen,        \* prompt and completion
          Caps,          \* capacities the static buffers may have: 8, 16, 32, ...
          Ceiling,       \* SGLANG_LITE_PAGED_MAX_PAGES
          WarmupNeed,    \* eager steps before a capture (2)
          GraphOn,       \* SGLANG_LITE_CUDA_GRAPH_DECODE
          Native         \* PagedNativeDecode writes the next token into its input

\* Pages that n tokens take.
NPages(n) == (n + PageSize - 1) \div PageSize

ASSUME GraphAssumption ==
  /\ {PageSize, PromptLen, Ceiling} \subseteq Nat \ {0}
  /\ {MaxLen, WarmupNeed} \subseteq Nat /\ PromptLen < MaxLen
  /\ GraphOn \in BOOLEAN /\ Native \in BOOLEAN
  /\ Caps \subseteq Nat /\ \E c \in Caps : c >= Ceiling /\ c >= NPages(MaxLen)

VARIABLES seq,     \* [Seqs -> state, block_table, cached_len]
          kv,      \* [Pages -> [0..PageSize-1 -> token]]: the K/V cache
          tree,    \* pages that copy-on-write left to their other holders
          st,      \* the backend's bookkeeping of its static buffers
          mem,     \* [generation -> contents of the buffers allocated then]
          tokBuf,  \* DecodeInputBuffer
          cg,      \* PagedDecodeCudaGraph
          fwd,     \* the planned forward, Nothing between forwards
          burst,   \* the sequence of the burst in progress, Nothing if none
          ran,     \* what the last forward of one sequence read (history)
          lost     \* [Seqs -> positions whose K/V a graph got wrong] (history)

gVars == <<seq, kv, tree, st, mem, tokBuf, cg, fwd, burst, ran, lost>>

----------------------------------------------------------------------------
Nothing == <<>>
NoToken == <<"garbage", 0>>
Token(s, p) == <<s, p>>
Tokens == {Token(s, p) : s \in Seqs, p \in 0..MaxLen} \cup {NoToken}

\* The page of position p in a list of pages.
PageAt(pages, p) == pages[p \div PageSize + 1]

MaxGen == 1 + NPages(MaxLen)
Blank == [pages |-> <<>>, n |-> 0, pos |-> 0]
NoGraph == [captured |-> FALSE, gen |-> -1, cap |-> -1, warm |-> 0, tok |-> "none"]

InitGraph ==
  /\ seq = [s \in Seqs |-> [st |-> "new", table |-> <<>>, cached |-> 0]]
  /\ kv = [p \in Pages |-> [o \in 0..(PageSize - 1) |-> NoToken]]
  /\ tree = {}
  /\ st = [gen |-> 0, cap |-> 0, host |-> <<>>, wrapper |-> -1]
  /\ mem = [g \in 1..MaxGen |-> Blank]
  /\ tokBuf = NoToken
  /\ cg = [graph |-> NoGraph, disabled |-> FALSE]
  /\ fwd = Nothing /\ burst = Nothing /\ ran = Nothing
  /\ lost = [s \in Seqs |-> {}]

\* Mutant: pages of block tables count as free.
FreeForgetsTables == Pages \ tree

\* Pages that neither a block table nor the radix tree holds.
Free == Pages \ (tree \cup UNION {ToSet(seq[s].table) : s \in Seqs})

\* Pages that a table lacks to hold n tokens, and the lists allocate_blocks may
\* return for k pages: none if too few are free.
Missing(table, n) == Max({0, NPages(n) - Len(table)})
Fresh(k) == {t \in [1..k -> Free] : IsInjective(t)}

\* K/V with tok at position p of the page list.
Written(cache, pages, p, tok) ==
  [cache EXCEPT ![PageAt(pages, p)][p % PageSize] = tok]

----------------------------------------------------------------------------
(* Forwards of any shape: metadata made afresh for each of them *)

\* _prefill_one, _batch_prefill: the block table is copied, the prefill wrapper planned.
Prefill(s) ==
  /\ fwd = Nothing /\ burst = Nothing
  /\ seq[s].st = "new"
  /\ \E table \in Fresh(NPages(PromptLen)) :
       /\ seq' = [seq EXCEPT ![s] = [st |-> "running", table |-> table,
                                     cached |-> PromptLen]]
       /\ kv' = [p \in Pages |-> [o \in 0..(PageSize - 1) |->
                   LET at == {i \in 0..(PromptLen - 1) :
                                PageAt(table, i) = p /\ i % PageSize = o}
                   IN  IF at = {} THEN kv[p][o] ELSE Token(s, CHOOSE i \in at : TRUE)]]
  /\ ran' = Nothing
  /\ UNCHANGED <<tree, st, mem, tokBuf, cg, fwd, burst, lost>>

\* A decode step needs one page more, or a private copy of the page it writes to
\* (cow_block_if_shared); the block table with that page.
Extends(s) == Missing(seq[s].table, seq[s].cached + 1) = 1
Copied(table, p, page) == [table EXCEPT ![p \div PageSize + 1] = page]
Repaged(s, page) ==
  IF Extends(s) THEN Append(seq[s].table, page)
  ELSE Copied(seq[s].table, seq[s].cached, page)

\* The members of a group that need a page take the pages new.
GroupTable(new, s) == IF s \in DOMAIN new THEN Repaged(s, new[s]) ELSE seq[s].table

\* The members that copy a shared page, the page they leave, and the K/V of page p
\* when the copies are made.
Copies(new) == {s \in DOMAIN new : ~ Extends(s)}
Left(s) == PageAt(seq[s].table, seq[s].cached)
CopiedKV(new, p) ==
  LET to == {s \in Copies(new) : new[s] = p}
  IN  IF to = {} THEN kv[p] ELSE kv[Left(CHOOSE s \in to : TRUE)]

\* The K/V when every member has written its token.
GroupKV(group, new) ==
  [p \in Pages |-> [o \in 0..(PageSize - 1) |->
     LET here == {s \in group : /\ PageAt(GroupTable(new, s), seq[s].cached) = p
                                /\ seq[s].cached % PageSize = o}
         s == CHOOSE s \in here : TRUE
     IN  IF here = {} THEN CopiedKV(new, p)[o] ELSE Token(s, seq[s].cached)]]

\* _batch_decode of a group of several sequences of equal cached_len: the general
\* wrapper, planned with _page_metadata.
DecodeGroup(group) ==
  /\ fwd = Nothing /\ burst = Nothing /\ Cardinality(group) > 1
  /\ \A s \in group : seq[s].st = "running" /\ seq[s].cached < MaxLen
  /\ \A s, t \in group : seq[s].cached = seq[t].cached
  /\ \E need \in SUBSET group : \E new \in [need -> Free] :
       /\ \A s \in group : Extends(s) => s \in need
       /\ IsInjective(new)
       /\ seq' = [s \in Seqs |-> IF s \notin group THEN seq[s]
                    ELSE [seq[s] EXCEPT !.table = GroupTable(new, s), !.cached = @ + 1]]
       /\ kv' = GroupKV(group, new)
       /\ tree' = tree \cup {Left(s) : s \in Copies(new)}
  /\ ran' = Nothing
  /\ UNCHANGED <<st, mem, tokBuf, cg, fwd, burst, lost>>

----------------------------------------------------------------------------
(* begin_forward for a batch of one *)

\* The smallest capacity is doubled as often as need be.
CapFor(need) == Min({c \in Caps : c >= need})

\* _ensure_decode_static: larger buffers are new buffers, and hold no pages yet.
EnsureDecodeStatic(b, n) ==
  IF b.gen > 0 /\ b.cap >= n THEN b
  ELSE [b EXCEPT !.cap = CapFor(Max({n, Ceiling})), !.gen = @ + 1, !.host = <<>>]

\* Mutant: a list of the same length is taken for the same list.
SameLength(pages, host) == Len(pages) = Len(host)

\* The page list is copied to the device only when it differs from the last one.
SamePages(pages, host) == pages = host

\* The buffers after the plan of a forward at position p over table.
Planned(b, table, p) ==
  LET pages == SubSeq(table, 1, NPages(p + 1))
      held  == mem[b.gen].pages
  IN  [pages |-> IF SamePages(pages, b.host) THEN held ELSE pages,
       n |-> Len(pages), pos |-> p]

\* Where a step's input token comes from: _batch_decode makes a tensor of its own,
\* a burst feeds the static buffer.
Source(s) == IF burst = <<s>> THEN "static" ELSE "fresh"

\* begin_forward (static buffers, the wrapper bound to them, plan) and set_position
\* for a decode step of s over its block table.
Plan(s, table) ==
  LET p == seq[s].cached
      b == EnsureDecodeStatic(st, Max({NPages(p + 1), Len(table)}))
  IN  /\ seq' = [seq EXCEPT ![s].table = table]
      /\ mem' = [mem EXCEPT ![b.gen] = Planned(b, table, p)]
      /\ st' = [b EXCEPT !.host = SubSeq(table, 1, NPages(p + 1)), !.wrapper = b.gen]
      /\ fwd' = [s |-> s, src |-> Source(s), n |-> NPages(p + 1)]
      /\ ran' = Nothing
      /\ UNCHANGED <<tokBuf, cg, burst, lost>>

\* One decode step of s up to the model body: pages, copy-on-write, the plan.  A
\* burst does not look whether its sequence has been cancelled; it gives an empty
\* block table new pages, and copies only at the start of a page.  A cancel that
\* falls between the pages and begin_forward makes the latter raise with nothing
\* planned: that is Finish, and in a burst EndBurst.
PlanOne(s) ==
  /\ fwd = Nothing /\ burst \in {Nothing, <<s>>}
  /\ seq[s].st = "running" \/ burst = <<s>>
  /\ seq[s].cached < MaxLen
  /\ \E more \in Fresh(Missing(seq[s].table, seq[s].cached + 1)) :
       LET p     == seq[s].cached
           table == seq[s].table \o more
       IN  \/ /\ Plan(s, table)
              /\ UNCHANGED <<kv, tree>>
           \/ /\ burst = <<s>> => p % PageSize = 0
              /\ \E page \in Free \ ToSet(more) :
                   /\ Plan(s, Copied(table, p, page))
                   /\ kv' = [kv EXCEPT ![page] = kv[PageAt(table, p)]]
              /\ tree' = tree \cup {PageAt(table, p)}

----------------------------------------------------------------------------
(* The model body: eager, captured, or replayed *)

\* Mutant: a captured graph is kept whatever became of the buffers.
InvalidatedNever(g, n) == g

\* maybe_run drops a graph of other buffers, or of too few pages.
Invalidated(g, n) ==
  IF g.captured /\ (n > g.cap \/ g.gen # st.gen \/ g.cap # st.cap) THEN NoGraph ELSE g

Now == Invalidated(cg.graph, fwd.n)
InBody == fwd # Nothing
Disabled == cg.disabled \/ ~ GraphOn

\* The step's own token, and what is left to do when the body has run: the K/V of
\* tok goes to the page and place that the buffers of generation g name, the step's
\* end_forward drops the plan, cached_len advances, and a burst, or the native
\* body of a graph over the static buffer, puts the next token into that buffer.
Own == Token(fwd.s, seq[fwd.s].cached)
Finishes(kind, g, tok, writes) ==
  LET s == fwd.s
      p == mem[g].pos
  IN  /\ kv' = IF tok = NoToken /\ kind = "capture" THEN kv
               ELSE Written(kv, mem[g].pages, p, tok)
      /\ seq' = [seq EXCEPT ![s].cached = @ + 1]
      /\ ran' = [s |-> s, kind |-> kind, pages |-> SubSeq(mem[g].pages, 1, mem[g].n),
                 pos |-> p]
      /\ lost' = IF tok = Own THEN lost ELSE [lost EXCEPT ![s] = @ \cup {p}]
      /\ tokBuf' = IF fwd.src = "static" \/ writes THEN Token(s, p + 1) ELSE tokBuf
      /\ fwd' = Nothing
      /\ UNCHANGED <<tree, st, mem, burst>>

\* The input of a body that Python runs.
InputToken == IF fwd.src = "static" THEN tokBuf ELSE Own

\* Graphs are off, or the graph is being warmed up.  The length check of
\* _append_one_layer is on the list of the plan: it passes whatever a cancel did.
RunEager ==
  /\ InBody
  /\ Disabled \/ (~ Now.captured /\ Now.warm < WarmupNeed)
  /\ cg' = IF Disabled THEN cg
           ELSE [cg EXCEPT !.graph = [Now EXCEPT !.warm = @ + 1]]
  /\ Finishes("eager", st.wrapper, InputToken, FALSE)

\* The body raises, for whatever reason.  end_forward runs.  run_batch's caller
\* then ends the sequence with an error; nobody does after a burst, whose sequence
\* stays in running.
BodyRaises ==
  /\ InBody /\ (Disabled \/ ~ Now.captured)
  /\ cg' = IF Disabled THEN cg
           ELSE IF Now.warm < WarmupNeed THEN [cg EXCEPT !.graph = [Now EXCEPT !.warm = @ + 1]]
           ELSE [graph |-> NoGraph, disabled |-> TRUE]
  /\ seq' = IF fwd.src = "static" THEN seq
            ELSE [seq EXCEPT ![fwd.s] = [@ EXCEPT !.st = "done", !.table = <<>>]]
  /\ fwd' = Nothing /\ burst' = Nothing /\ ran' = Nothing
  /\ UNCHANGED <<kv, tree, st, mem, tokBuf, lost>>

\* Capture records the kernels and runs none of them: no K/V is written, and the
\* static output that is returned holds no logits yet.
RunCapture ==
  /\ InBody /\ ~ Disabled
  /\ ~ Now.captured /\ Now.warm = WarmupNeed
  /\ cg' = [cg EXCEPT !.graph = [captured |-> TRUE, gen |-> st.gen, cap |-> st.cap,
                                 warm |-> WarmupNeed, tok |-> fwd.src]]
  /\ Finishes("capture", st.wrapper, NoToken, FALSE)

\* Capture raises: graphs are off for the session, and the step runs eagerly.
CaptureFails ==
  /\ InBody /\ ~ Disabled
  /\ ~ Now.captured /\ Now.warm = WarmupNeed
  /\ cg' = [graph |-> NoGraph, disabled |-> TRUE]
  /\ Finishes("eager", st.wrapper, InputToken, FALSE)

\* Replay reads the captured addresses: the static token buffer, or a tensor that
\* has been freed since and may or may not hold the step's token.
RunReplay ==
  /\ InBody /\ ~ Disabled /\ Now.captured
  /\ cg' = cg
  /\ \E tok \in IF cg.graph.tok = "static" THEN {tokBuf} ELSE {Own, NoToken} :
       Finishes("replay", cg.graph.gen, tok, Native /\ cg.graph.tok = "static")

----------------------------------------------------------------------------
(* The loop around it *)

\* Mutant: the burst starts with what the token buffer holds.
StartBurstUnseeded(s) ==
  /\ fwd = Nothing /\ burst = Nothing
  /\ seq[s].st = "running" /\ seq[s].cached < MaxLen
  /\ \A t \in Seqs \ {s} : seq[t].st # "running"
  /\ burst' = <<s>>
  /\ UNCHANGED <<seq, kv, tree, st, mem, tokBuf, cg, fwd, ran, lost>>

\* run_decode_burst, when s is the only sequence of the batch.
StartBurst(s) ==
  /\ fwd = Nothing /\ burst = Nothing
  /\ seq[s].st = "running" /\ seq[s].cached < MaxLen
  /\ \A t \in Seqs \ {s} : seq[t].st # "running"
  /\ burst' = <<s>> /\ tokBuf' = Token(s, seq[s].cached)
  /\ UNCHANGED <<seq, kv, tree, st, mem, cg, fwd, ran, lost>>

\* The burst's steps are done, or EOS.
EndBurst ==
  /\ fwd = Nothing /\ burst # Nothing
  /\ burst' = Nothing
  /\ UNCHANGED <<seq, kv, tree, st, mem, tokBuf, cg, fwd, ran, lost>>

\* mark_finished frees the pages: at the end of a step, or from cancel(), also
\* while a forward is planned.  (Cancels that overlap page operations themselves
\* are in RadixCache.)
Finish(s) ==
  /\ seq[s].st = "running"
  /\ seq' = [seq EXCEPT ![s].st = "done", ![s].table = <<>>]
  /\ ran' = Nothing
  /\ UNCHANGED <<kv, tree, st, mem, tokBuf, cg, fwd, burst, lost>>

NextGraph ==
  \/ \E s \in Seqs : Prefill(s) \/ PlanOne(s) \/ StartBurst(s) \/ Finish(s)
  \/ \E group \in SUBSET Seqs : DecodeGroup(group)
  \/ RunEager \/ BodyRaises \/ RunCapture \/ CaptureFails \/ RunReplay \/ EndBurst

SpecGraph == InitGraph /\ [][NextGraph]_gVars

----------------------------------------------------------------------------
(* Properties *)

\* Every variable keeps its type.
GraphTypeOK ==
  /\ \A s \in Seqs : /\ seq[s].st \in {"new", "running", "done"}
                     /\ seq[s].table \in Seq(Pages) /\ IsInjective(seq[s].table)
                     /\ seq[s].cached \in 0..MaxLen
  /\ \A p \in Pages, o \in 0..(PageSize - 1) : kv[p][o] \in Tokens
  /\ tree \subseteq Pages /\ tokBuf \in Tokens
  /\ st.gen \in 0..MaxGen /\ cg.graph.warm \in 0..WarmupNeed

\* The page list, the length and the position that a decode of one sequence
\* really used are those of the sequence, however the body ran: the list was
\* refilled when copy-on-write or another sequence changed it, and a replayed
\* graph reads the buffers that were planned just before and not ones that have
\* been replaced since its capture.
PlanCurrent ==
  (ran # Nothing /\ seq[ran.s].st = "running") =>
    /\ ran.pos = seq[ran.s].cached - 1
    /\ ran.pages = SubSeq(seq[ran.s].table, 1, NPages(seq[ran.s].cached))

\* Every cached position of a running sequence holds the K/V of its own token,
\* but for the positions at which its own step was a capture or a replay with a
\* wrong input.  In particular no step of another sequence, graph or not, writes
\* into its pages, not even the body of a sequence that was cancelled after its
\* plan: the pages it still writes go to nobody before the step is over.
HistoryIntact ==
  \A s \in Seqs : seq[s].st = "running" =>
    \A p \in 0..(seq[s].cached - 1) :
      p \in lost[s] \/ kv[PageAt(seq[s].table, p)][p % PageSize] = Token(s, p)

\* Without replays nothing is lost but the step of the capture: eager steps, in a
\* burst too, feed the token that the step before produced.
EagerFaithful ==
  [][\A s \in Seqs : lost'[s] # lost[s] => ran'.kind # "eager"]_gVars

====
