------------------------------ MODULE V4Prefix ------------------------------
(***************************************************************************)
(* The hybrid DeepSeek-V4 path of the engine: K/V lives in rows ("slots")    *)
(* of the official attention modules, prompts are snapshotted into a prefix  *)
(* cache, and the snapshot's K/V rows go to reference-counted dual-pool      *)
(* pages (engine/v4_prefix_cache.py, engine/v4_dual_pool.py, the V4 branches *)
(* of engine/runner.py and engine/loop.py).                                  *)
(*                                                                         *)
(* One engine step is: Schedule (form the batch), one SkipFinished, ExactHit *)
(* or Classify per member, the prefill groups, the decode groups, each       *)
(* followed by SavePrefix or AppendDecode per member, then Emit per member.  *)
(* An exception in a forward finishes the whole batch (ForwardRaises).       *)
(*                                                                         *)
(* Data abstraction.  A K/V row is the token prefix it was computed from,    *)
(* and so are the compressor state of a slot and a row of logits; <<>> is a  *)
(* zeroed row.  A forward that reads anything but one prefix computes Junk.  *)
(* All layers and both packed pools of a page hold the same rows, so one of  *)
(* each is kept.  Positions stay below the attention window.  The radix tree *)
(* is empty on this path, so evict frees nothing and allocate_blocks fails   *)
(* when no page is free.  Token budgets and refusals are module Scheduler's. *)
(***************************************************************************)
EXTENDS Naturals, Sequences, FiniteSets, Queues

CONSTANTS
  Pages,       \* physical pages of the pool
  BlockSize,   \* tokens per page
  Prompts,     \* the prompts requests may carry, sequences of strings
  OutTokens,   \* the tokens sampling may return
  Seqs,        \* one scheduler Sequence per request
  MaxTokens,   \* GenParams.max_tokens
  MaxEntries,  \* V4PrefixCache.max_entries
  MaxBatch,    \* Scheduler.max_batch_size, also the number of slots
  MaxLen       \* bound on prompt and output together: the rows of a slot

ASSUME V4Assumption ==
  /\ IsFiniteSet(Pages) /\ IsFiniteSet(Seqs)
  /\ {BlockSize, MaxTokens, MaxEntries, MaxBatch, MaxLen} \subseteq Nat \ {0}
  /\ \A p \in Prompts : p \in Seq(STRING) /\ Len(p) > 0 /\ Len(p) + MaxTokens <= MaxLen

VARIABLES
  entries,  \* V4PrefixCache._entries, oldest first
  ref,      \* KVBlock.ref_count of each page; 0 for a free page
  page,     \* restore_bf16_cache: the rows of each page
  slot,     \* kv_cache rows and kv_state / score_state of each batch row
  seq,      \* the Sequences, with their _v4_* attributes
  waiting,  \* Scheduler.waiting
  running,  \* Scheduler.running
  step,     \* where the loop thread is in its iteration
  batch,    \* the batch of this iteration
  todo,     \* members that the current loop over the batch has still to visit
  pres,     \* prefill_idxs not yet in a group
  ones,     \* members of a group that _prefill_one runs one after the other
  decs,     \* decode_idxs not yet in a group
  post      \* <<member, batch_slot>> whose pages are written after a forward

queues == <<waiting, running>>
work == <<step, batch, todo, pres, ones, decs, post>>
vars == <<entries, ref, page, slot, seq, waiting, running,
          step, batch, todo, pres, ones, decs, post>>

Positions == 1..MaxLen
Slots == 0..MaxBatch - 1
Junk == <<"junk">>
ZeroRows == [i \in Positions |-> <<>>]
ZeroPage == [o \in 0..BlockSize - 1 |-> <<>>]
NoEntry == [toks |-> <<>>, logits |-> <<>>, st |-> <<>>, kv |-> ZeroRows, pages |-> <<>>]

Members(q) == {q[i] : i \in DOMAIN q}
Without(q, S) == Kept(q, Seqs \ S)
Text(s) == seq[s].prompt \o seq[s].out
Prompted(s) == seq[s].prompt # <<>>

\* A slot or a snapshot that holds the K/V and the state of exactly `text'.
HoldsText(kv, st, text) ==
  st = text /\ \A i \in 1..Len(text) : kv[i] = SubSeq(text, 1, i)

-----------------------------------------------------------------------------
(* Pages: allocate_dual_pool_pages, fork_blocks, release_blocks              *)

Free == {p \in Pages : ref[p] = 0}
PagesForTokens(n) == (n + BlockSize - 1) \div BlockSize

\* The lists allocate_blocks(k) may return; none if the pool has too few pages.
Fresh(k) == {t \in [1..k -> Free] : \A i, j \in 1..k : t[i] = t[j] => i = j}

Held(t, p) == IF p \in Members(t) THEN 1 ELSE 0

\* The row of position i in the pages of a handle.
PageRow(h, i) == page[h[(i - 1) \div BlockSize + 1]][(i - 1) % BlockSize]

\* write_restore_bf16 puts position i of the pages t at offset o of page p.
GoesTo(t, i, p, o) == t[(i - 1) \div BlockSize + 1] = p /\ (i - 1) % BlockSize = o

(* write_dual_pool_layer of rows first..last of `kv' into the pages t.       *)
RowsWritten(t, kv, first, last) ==
  [p \in Pages |-> [o \in 0..BlockSize - 1 |->
     LET here == {i \in first..last : GoesTo(t, i, p, o)}
     IN IF here = {} THEN page[p][o] ELSE kv[CHOOSE i \in here : TRUE]]]

-----------------------------------------------------------------------------
(* Slots: clear_v4_kv_slot, _v4_ensure_restored, _v4_stage_pages..., forward *)

ClearedSlot == [kv |-> ZeroRows, st |-> <<>>]
SpoiledSlot == [kv |-> [i \in Positions |-> Junk], st |-> Junk]

(* Rows 1..n of a slot copied from the pages of a handle.                    *)
RowsFromPages(h, n, kv) == [i \in Positions |-> IF i <= n THEN PageRow(h, i) ELSE kv[i]]

(* restore_v4_kv: the snapshot's buffers, except K/V rows restored from pages. *)
FromSnapshot(e, v, paged) == [kv |-> IF paged THEN v.kv ELSE e.kv, st |-> e.st]

(* A prefix hit's restore: the K/V rows come from the pages of the sequence's *)
(* own handle if it has one, the rest from the snapshot.                     *)
Restored(s, v) ==
  LET q == seq[s]
  IN IF q.handle = <<>> THEN FromSnapshot(q.hit, v, FALSE)
     ELSE FromSnapshot(q.hit,
            [v EXCEPT !.kv = RowsFromPages(q.handle, Len(q.hit.toks), @)], TRUE)

EnsureRestored(s, v) ==
  IF seq[s].pending THEN Restored(s, v)
  ELSE IF seq[s].cached = 0 /\ ~seq[s].prepared THEN ClearedSlot
  ELSE v

NeedsStage(s) == seq[s].handle # <<>> /\ (seq[s].need \/ seq[s].pending)

(* Before a forward at start_pos > 0, once after a restore from pages.       *)
Staged(s, v) ==
  IF NeedsStage(s) THEN [v EXCEPT !.kv = RowsFromPages(seq[s].handle, seq[s].hlen, @)] ELSE v

Ready(s, v) ==
  IF seq[s].cached > 0 THEN Staged(s, EnsureRestored(s, v)) ELSE EnsureRestored(s, v)

(* The model's forward over `new' at start_pos: it reads the rows below      *)
(* start_pos and the compressor state, and writes the rows of `new'.         *)
Forward(v, start, new) ==
  LET sound == Len(v.st) = start /\ HoldsText(v.kv, v.st, v.st)
      text == IF sound THEN v.st \o new ELSE Junk
  IN [kv |-> [i \in Positions |->
                IF i \notin start + 1..start + Len(new) THEN v.kv[i]
                ELSE IF sound THEN SubSeq(text, 1, i) ELSE Junk],
      st |-> text]

NewTokens(s) ==
  IF seq[s].out = <<>> THEN SubSeq(seq[s].prompt, seq[s].cached + 1, Len(seq[s].prompt))
  ELSE <<seq[s].out[Len(seq[s].out)]>>

AfterForward(s, v) == Forward(Ready(s, v), seq[s].cached, NewTokens(s))

\* The sequence once its slot is restored, staged and forwarded.
Forwarded(s, v) ==
  [seq[s] EXCEPT !.pending = FALSE, !.prepared = TRUE, !.need = FALSE,
                 !.cached = @ + Len(NewTokens(s)), !.heard = AfterForward(s, v).st]

(* A group is forwarded in one batch: its i-th member uses slot i - 1.       *)
GroupSlots(g) ==
  [b \in Slots |-> IF b < Len(g) THEN AfterForward(g[b + 1], slot[b]) ELSE slot[b]]
GroupSeqs(g) ==
  [s \in Seqs |-> IF s \in Members(g)
                  THEN Forwarded(s, slot[(CHOOSE i \in DOMAIN g : g[i] = s) - 1])
                  ELSE seq[s]]

\* The first group of a list: its members whose cached_len is that of the head.
Alike(q) == {s \in Seqs : seq[s].cached = seq[Head(q)].cached}
FirstGroup(q) == Kept(q, Alike(q))
AfterGroup(q) == Without(q, Alike(q))

(* One forward serves the group: equal lengths, and at start_pos > 0 the     *)
(* official model takes a single token.                                      *)
Uniform(g) ==
  /\ \A s \in Members(g) : Len(NewTokens(s)) = Len(NewTokens(g[1]))
  /\ seq[g[1]].cached > 0 => Len(NewTokens(g[1])) = 1

-----------------------------------------------------------------------------
(* Admission: _admit_pending, V4PrefixCache.match, fork_dual_pool_for_hit    *)

IsPrefixOf(a, b) == Len(a) <= Len(b) /\ SubSeq(b, 1, Len(a)) = a

Hits(p) == {i \in DOMAIN entries : IsPrefixOf(entries[i].toks, p)}

Best(p) == IF Hits(p) = {} THEN NoEntry
           ELSE entries[CHOOSE i \in Hits(p) :
                          \A j \in Hits(p) : Len(entries[j].toks) <= Len(entries[i].toks)]

\* Mutant: the hit shares the entry's pages without counting itself.
NotForked(t) == ref

Forked(t) == [p \in Pages |-> ref[p] + Held(t, p)]

\* Mutant: the hit restores from the entry, whose snapshot may be slim.
NoHandle(e) == <<>>

HitHandle(e) == e.pages

Admit(s, p) ==
  /\ ~Prompted(s)
  /\ seq' = [seq EXCEPT ![s] =
       [@ EXCEPT !.prompt = p, !.hit = Best(p), !.cached = Len(Best(p).toks),
                 !.heard = Best(p).logits, !.pending = Hits(p) # {},
                 !.handle = HitHandle(Best(p)), !.hlen = Len(Best(p).toks)]]
  /\ ref' = Forked(Best(p).pages)
  /\ waiting' = Append(waiting, s)
  /\ UNCHANGED <<entries, page, slot, running, work>>

-----------------------------------------------------------------------------
(* The end of a sequence: mark_finished, then the final frame of _emit       *)

\* Mutant: the sequence is found, and slot 0 is cleared whoever uses it.
StillQueuedAlways(s, live) == TRUE

StillQueued(s, live) == s \in live

\* release_blocks of the pages of a handle; a page nobody holds is zeroed.
RefsReleased(t) == [p \in Pages |-> ref[p] - Held(t, p)]
ZeroedFree(r, pg) == [p \in Pages |-> IF r[p] = 0 THEN ZeroPage ELSE pg[p]]

(* v4_release_seq(batch_slot=0) for a sequence that is already finished.     *)
Release(s) ==
  /\ slot' = [slot EXCEPT ![0] = ClearedSlot]
  /\ ref' = RefsReleased(seq[s].handle)
  /\ page' = ZeroedFree(RefsReleased(seq[s].handle), page)
  /\ seq' = [seq EXCEPT ![s] = [@ EXCEPT !.fin = TRUE, !.handle = <<>>, !.hlen = 0,
                   !.hit = NoEntry, !.pending = FALSE, !.prepared = FALSE]]

(* mark_finished takes the sequence off the queues; _emit then looks for it  *)
(* there, and releases it only if it finds it.                               *)
Finish(s) ==
  /\ waiting' = Without(waiting, {s})
  /\ running' = Without(running, {s})
  /\ IF StillQueued(s, Members(waiting') \cup Members(running'))
     THEN Release(s)
     ELSE /\ seq' = [seq EXCEPT ![s].fin = TRUE]
          /\ UNCHANGED <<ref, page, slot>>

(* EngineLoop.cancel or a deadline, at any moment of an iteration.           *)
Cancel(s) ==
  /\ Prompted(s) /\ ~seq[s].fin
  /\ Finish(s)
  /\ UNCHANGED <<entries, work>>

-----------------------------------------------------------------------------
(* One iteration of _run: form_batch, run_batch, then the results            *)

Schedule ==
  /\ step = "idle"
  /\ Len(running) + Len(waiting) > 0
  /\ LET room == MaxBatch - Len(running)
         k == IF Len(waiting) < room THEN Len(waiting) ELSE room
         b == running \o SubSeq(waiting, 1, k)
     IN /\ batch' = b
        /\ running' = b
        /\ todo' = b
        /\ waiting' = SubSeq(waiting, k + 1, Len(waiting))
  /\ step' = "classify"
  /\ UNCHANGED <<entries, ref, page, slot, seq, pres, ones, decs, post>>

Visited ==
  /\ step = "classify"
  /\ todo # <<>>
  /\ todo' = Tail(todo)
  /\ UNCHANGED <<entries, ref, page, queues, step, batch, ones, post>>

Exact(s) == seq[s].out = <<>> /\ seq[s].heard # <<>> /\ seq[s].cached >= Len(seq[s].prompt)

SkipFinished ==
  /\ Visited
  /\ seq[Head(todo)].fin
  /\ UNCHANGED <<slot, seq, pres, decs>>

(* The first token comes from the stored logits; the slot is restored now.   *)
ExactHit ==
  /\ Visited
  /\ LET s == Head(todo)
     IN /\ ~seq[s].fin /\ Exact(s)
        /\ slot' = [slot EXCEPT ![0] = EnsureRestored(s, slot[0])]
        /\ seq' = [seq EXCEPT ![s] = [@ EXCEPT !.need = NeedsStage(s), !.pending = FALSE,
                                              !.prepared = TRUE]]
  /\ UNCHANGED <<pres, decs>>

Classify ==
  /\ Visited
  /\ LET s == Head(todo)
         fill == seq[s].cached < Len(seq[s].prompt)
     IN /\ ~seq[s].fin /\ ~Exact(s)
        /\ pres' = IF fill THEN Append(pres, s) ELSE pres
        /\ decs' = IF fill THEN decs ELSE Append(decs, s)
  /\ UNCHANGED <<slot, seq>>

InGroups ==
  /\ step = "classify"
  /\ todo = <<>> /\ post = <<>>

WithSlots(g) == [i \in DOMAIN g |-> <<g[i], i - 1>>]

BatchPrefill ==
  /\ InGroups /\ ones = <<>> /\ pres # <<>>
  /\ LET g == FirstGroup(pres)
     IN /\ Uniform(g)
        /\ slot' = GroupSlots(g)
        /\ seq' = GroupSeqs(g)
        /\ post' = WithSlots(g)
  /\ pres' = AfterGroup(pres)
  /\ UNCHANGED <<entries, ref, page, queues, step, batch, todo, ones, decs>>

SplitGroup ==
  /\ InGroups /\ ones = <<>> /\ pres # <<>>
  /\ ~Uniform(FirstGroup(pres))
  /\ ones' = FirstGroup(pres)
  /\ pres' = AfterGroup(pres)
  /\ UNCHANGED <<entries, ref, page, slot, seq, queues, step, batch, todo, decs, post>>

(* _prefill_one, in slot 0: at start_pos > 0 one forward per token, the      *)
(* pages staged before the first.                                            *)
PrefillOne ==
  /\ InGroups /\ ones # <<>>
  /\ slot' = GroupSlots(<<Head(ones)>>)
  /\ seq' = GroupSeqs(<<Head(ones)>>)
  /\ post' = WithSlots(<<Head(ones)>>)
  /\ ones' = Tail(ones)
  /\ UNCHANGED <<entries, ref, page, queues, step, batch, todo, pres, decs>>

BatchDecode ==
  /\ InGroups /\ ones = <<>> /\ pres = <<>> /\ decs # <<>>
  /\ LET g == FirstGroup(decs)
     IN /\ slot' = GroupSlots(g)
        /\ seq' = GroupSeqs(g)
        /\ post' = WithSlots(g)
  /\ decs' = AfterGroup(decs)
  /\ UNCHANGED <<entries, ref, page, queues, step, batch, todo, pres, ones>>

(* A forward raises: its slots are left half written, and every member of    *)
(* the batch is finished with "error".                                       *)
ForwardRaises ==
  /\ InGroups
  /\ ones # <<>> \/ pres # <<>> \/ decs # <<>>
  /\ LET g == IF ones # <<>> THEN <<Head(ones)>>
              ELSE IF pres # <<>> THEN FirstGroup(pres) ELSE FirstGroup(decs)
     IN slot' = [b \in Slots |-> IF b < Len(g) THEN SpoiledSlot ELSE slot[b]]
  /\ waiting' = Without(waiting, Members(batch))
  /\ running' = Without(running, Members(batch))
  /\ seq' = [s \in Seqs |-> [seq[s] EXCEPT !.fin = @ \/ s \in Members(batch)]]
  /\ step' = "idle"
  /\ batch' = <<>>
  /\ pres' = <<>> /\ ones' = <<>> /\ decs' = <<>>
  /\ UNCHANGED <<entries, ref, page, todo, post>>

-----------------------------------------------------------------------------
(* After a forward: _v4_maybe_save_prefix and _v4_dual_append_decode         *)

SameKey(e) == {i \in DOMAIN entries : entries[i].toks = e.toks}

(* V4PrefixCache.insert: an entry with the same tokens is replaced, else the *)
(* oldest goes when the cache is full.                                       *)
Dropped(e) ==
  IF SameKey(e) # {} THEN entries[CHOOSE i \in SameKey(e) : TRUE].pages
  ELSE IF Len(entries) >= MaxEntries THEN entries[1].pages ELSE <<>>

\* Mutant: nothing is evicted.
InsertedUnbounded(e) ==
  IF SameKey(e) # {} THEN [i \in DOMAIN entries |-> IF i \in SameKey(e) THEN e ELSE entries[i]]
  ELSE Append(entries, e)

Inserted(e) ==
  IF SameKey(e) # {} THEN [i \in DOMAIN entries |-> IF i \in SameKey(e) THEN e ELSE entries[i]]
  ELSE Append(IF Len(entries) >= MaxEntries THEN Tail(entries) ELSE entries, e)

(* The writer's reference, the cache's fork, and the dropped entry's release. *)
RefsSaved(e) == [p \in Pages |-> ref[p] + 2 * Held(e.pages, p) - Held(Dropped(e), p)]

\* Mutant: the K/V rows are dropped from the snapshot even without pages.
SlimRowsAlways(t, kv) == ZeroRows

(* slim_snapshot_buffers: K/V rows that pages hold leave the snapshot.       *)
SlimRows(t, kv) == IF t = <<>> THEN kv ELSE ZeroRows

Snapshot(s, b, t) ==
  [toks |-> seq[s].prompt, logits |-> seq[s].heard, st |-> slot[b].st,
   kv |-> SlimRows(t, slot[b].kv), pages |-> t]

(* dual_write_from_model: the slot's rows go to the new pages, if there are  *)
(* any (without enough pages the export is skipped).                         *)
DualWritten(t, b, n) == IF t = <<>> THEN page ELSE RowsWritten(t, slot[b].kv, 1, n)

(* The pages of the prompt are allocated and written, the snapshot keeps the *)
(* state only, and the sequence's handle is replaced.  Without enough pages  *)
(* the snapshot keeps the K/V rows too.                                      *)
SavePrefix ==
  /\ post # <<>> /\ step = "classify"
  /\ LET s == Head(post)[1]
         b == Head(post)[2]
         n == seq[s].cached
         k == PagesForTokens(n)
     IN /\ seq[s].out = <<>>
        /\ \E t \in IF Fresh(k) = {} THEN {<<>>} ELSE Fresh(k) :
             LET e == Snapshot(s, b, t)
             IN /\ entries' = Inserted(e)
                /\ ref' = RefsSaved(e)
                /\ page' = ZeroedFree(RefsSaved(e), DualWritten(t, b, n))
                /\ seq' = IF t = <<>> THEN seq
                          ELSE [seq EXCEPT ![s] = [@ EXCEPT !.handle = t, !.hlen = n]]
  /\ post' = Tail(post)
  /\ UNCHANGED <<slot, queues, step, batch, todo, pres, ones, decs>>

(* ensure_dual_pool_capacity: the lists that make a handle cover n tokens.   *)
Grown(h, n) ==
  LET k == PagesForTokens(n)
  IN Fresh(IF k > Len(h) THEN k - Len(h) ELSE 0)

\* dual_append_from_model: row i of slot b goes to the pages h, shared or not.
Appended(h, b, i) == RowsWritten(h, slot[b].kv, i, i)

(* The row of the decoded token goes to the handle's pages, which grow if    *)
(* they must; without a free page nothing is written.                        *)
AppendDecode ==
  /\ post # <<>> /\ step = "classify"
  /\ LET s == Head(post)[1]
         b == Head(post)[2]
         h == seq[s].handle
         i == seq[s].cached
     IN /\ seq[s].out # <<>>
        /\ \/ /\ h = <<>> \/ Grown(h, i) = {}
              /\ UNCHANGED <<ref, page, seq>>
           \/ /\ h # <<>>
              /\ \E t \in Grown(h, i) :
                   /\ ref' = [p \in Pages |-> ref[p] + Held(t, p)]
                   /\ page' = Appended(h \o t, b, i)
                   /\ seq' = [seq EXCEPT ![s] =
                        [@ EXCEPT !.handle = h \o t, !.hlen = IF seq[s].hlen < i THEN i ELSE seq[s].hlen]]
  /\ post' = Tail(post)
  /\ UNCHANGED <<entries, slot, queues, step, batch, todo, pres, ones, decs>>

-----------------------------------------------------------------------------
(* The results: append the token, check the limits, emit                     *)

RunDone ==
  /\ InGroups /\ batch # <<>> /\ ones = <<>> /\ pres = <<>> /\ decs = <<>>
  /\ step' = "apply"
  /\ todo' = batch
  /\ UNCHANGED <<entries, ref, page, slot, seq, queues, batch, pres, ones, decs, post>>

(* A member is skipped if it is finished, gets a token and goes on, or gets  *)
(* its last one (a stop, or max_tokens).                                     *)
Emit ==
  /\ step = "apply" /\ todo # <<>>
  /\ LET s == Head(todo)
     IN \/ /\ seq[s].fin
           /\ UNCHANGED <<ref, page, slot, seq, queues>>
        \/ \E t \in OutTokens :
             /\ ~seq[s].fin
             /\ Len(seq[s].out) + 1 < MaxTokens
             /\ seq' = [seq EXCEPT ![s].out = Append(@, t)]
             /\ UNCHANGED <<ref, page, slot, queues>>
        \/ ~seq[s].fin /\ Finish(s)
  /\ todo' = Tail(todo)
  /\ UNCHANGED <<entries, step, batch, pres, ones, decs, post>>

EndStep ==
  /\ step = "apply" /\ todo = <<>>
  /\ step' = "idle"
  /\ batch' = <<>>
  /\ UNCHANGED <<entries, ref, page, slot, seq, queues, todo, pres, ones, decs, post>>

-----------------------------------------------------------------------------
NewSequence ==
  [prompt |-> <<>>, out |-> <<>>, cached |-> 0, heard |-> <<>>, hit |-> NoEntry,
   pending |-> FALSE, handle |-> <<>>, hlen |-> 0, need |-> FALSE, prepared |-> FALSE,
   fin |-> FALSE]

Init ==
  /\ entries = <<>>
  /\ ref = [p \in Pages |-> 0]
  /\ page = [p \in Pages |-> ZeroPage]
  /\ slot = [b \in Slots |-> ClearedSlot]
  /\ seq = [s \in Seqs |-> NewSequence]
  /\ waiting = <<>> /\ running = <<>>
  /\ step = "idle"
  /\ batch = <<>> /\ todo = <<>> /\ pres = <<>> /\ ones = <<>> /\ decs = <<>> /\ post = <<>>

Next ==
  \/ \E s \in Seqs, p \in Prompts : Admit(s, p)
  \/ \E s \in Seqs : Cancel(s)
  \/ Schedule
  \/ SkipFinished \/ ExactHit \/ Classify
  \/ BatchPrefill \/ SplitGroup \/ PrefillOne \/ BatchDecode \/ ForwardRaises
  \/ SavePrefix \/ AppendDecode
  \/ RunDone \/ Emit \/ EndStep

SpecV4 == Init /\ [][Next]_vars

-----------------------------------------------------------------------------
(* Properties                                                                *)

Histories == Seq(OutTokens \cup {"junk"} \cup UNION {Members(p) : p \in Prompts})
Rows == [Positions -> Histories]

(* The state has its type, and the prefix cache keeps to max_entries         *)
(* (V4PrefixCache.insert).                                                   *)
V4TypeOK ==
  /\ Len(entries) <= MaxEntries
  /\ \A i \in DOMAIN entries :
       entries[i] \in [toks : Prompts, logits : Histories, st : Histories, kv : Rows,
                       pages : Seq(Pages)]
  /\ ref \in [Pages -> Nat]
  /\ page \in [Pages -> [0..BlockSize - 1 -> Histories]]
  /\ slot \in [Slots -> [kv : Rows, st : Histories]]
  /\ \A s \in Seqs : seq[s].handle \in Seq(Pages) /\ seq[s].cached \in 0..MaxLen
  /\ step \in {"idle", "classify", "apply"}
  /\ \A q \in {waiting, running, batch, todo, pres, ones, decs} : q \in Seq(Seqs)
  /\ Len(batch) <= MaxBatch

(* Every token of a live sequence is sampled from logits that the model      *)
(* computed from that sequence's own text, whatever ran in its slot before   *)
(* and however it was restored (_v4_ensure_restored, _v4_stage_pages...,     *)
(* _batch_prefill, _batch_decode).                                           *)
OwnHistory ==
  \A s \in Seqs :
    ~seq[s].fin /\ seq[s].heard # <<>> => seq[s].heard = SubSeq(Text(s), 1, seq[s].cached)

EntryRows(e) == IF e.pages = <<>> THEN e.kv ELSE [i \in 1..Len(e.toks) |-> PageRow(e.pages, i)]

(* A stored prefix can always be served: its pages or its snapshot, its      *)
(* state and its logits belong to its tokens, also while other sequences     *)
(* append to pages they share with it (_v4_dual_append_decode writes without *)
(* copying) and when the pool had no page for it.                            *)
EntriesIntact ==
  \A i \in DOMAIN entries :
    LET e == entries[i]
    IN e.logits = e.toks /\ HoldsText(EntryRows(e), e.st, e.toks)

(* A hit that waits for its turn can still be restored when it comes, even   *)
(* if its entry was evicted or replaced in between.                          *)
PendingIntact ==
  \A s \in Seqs :
    seq[s].pending /\ ~seq[s].fin =>
      LET v == Restored(s, SpoiledSlot)
      IN HoldsText(v.kv, v.st, SubSeq(seq[s].prompt, 1, seq[s].cached))

(* What the prefix cache stores, and what it has promised to a hit that      *)
(* waits, can be restored.                                                   *)
SnapshotsIntact == EntriesIntact /\ PendingIntact

Holders(p) ==
  Cardinality({i \in DOMAIN entries : p \in Members(entries[i].pages)})
    + Cardinality({s \in Seqs : p \in Members(seq[s].handle)})

(* No page is handed out while an entry or a sequence lists it: the count    *)
(* covers every holder (fork_blocks on insert and on a hit, release on       *)
(* replacement and eviction).                                                *)
PagesCovered == \A p \in Pages : Holders(p) <= ref[p]

=============================================================================
