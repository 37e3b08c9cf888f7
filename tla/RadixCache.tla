------------------------------ MODULE RadixCache ------------------------------
(***************************************************************************)
(* The paged KV cache of the engine: the pool of reference-counted pages,   *)
(* the radix index over committed prompts, and the sequences that read and  *)
(* write pages through their block tables (engine/kv_cache.py, the cache    *)
(* calls of engine/scheduler.py, and the paged path of engine/runner.py).   *)
(*                                                                         *)
(* One engine step is: StartStep (form the batch), any number of EnsurePage *)
(* / Cow, one PrefillForward or DecodeForward per sequence, then Insert and *)
(* Emit per sequence.  An exception inside run_batch finishes every member  *)
(* of the batch (FinishFailed).  Which waiting sequences join a batch is    *)
(* left open here (module Scheduler fixes the policy), and so is the order  *)
(* of the members inside the prefill and the decode phase of run_batch.     *)
(*                                                                         *)
(* Two threads.  A client's cancel runs mark_finished on the HTTP thread    *)
(* with no lock against the step.  Where it falls between two page          *)
(* operations of the loop thread it is one step (Cancel, CancelMidStep).    *)
(* Where it overlaps them it is taken apart: CancelBegins, one              *)
(* CancelReleases per page, CancelClears, with every action of the loop     *)
(* thread, the second mark_finished (FinishTwice) and the stages of a copy  *)
(* (CowChecks, CowTakes, CowStores) in between.  Such a cancel really       *)
(* spoils counts; `suspect' collects the pages it can have reached, and the *)
(* properties say that the damage stays there.                              *)
(*                                                                         *)
(* Data abstraction.  The K/V of a position is a function of the tokens up  *)
(* to it, so a page slot holds that token prefix; <<>> is a zeroed slot.    *)
(* _free_blocks and the ids _next_block_id has not reached yet are one set  *)
(* `free': which free page is taken is never observable.                    *)
(***************************************************************************)
EXTENDS Naturals, Sequences, FiniteSets

CONSTANTS
  Blocks,        \* physical pages, range(num_blocks)
  BlockSize,     \* tokens per page
  Prompts,       \* the prompts requests may carry
  OutTokens,     \* the tokens sampling may return
  Seqs,          \* one scheduler Sequence per request
  MaxTokens,     \* GenParams.max_tokens: bound on the generated tokens
  CancelInStep,  \* BOOLEAN: may EngineLoop.cancel run while a step is under way
  MaxOverlaps,   \* bound on the cancels that overlap the loop's work on pages
  OverlapCrowd,  \* bound on the requests of a run in which one does
  NoNode         \* "evict removed nothing"

(* Every nonempty prefix of a prompt: the possible nodes of the radix tree.  *)
Paths == UNION {{SubSeq(p, 1, n) : n \in 1..Len(p)} : p \in Prompts}

Tokens == OutTokens \cup UNION {{p[i] : i \in 1..Len(p)} : p \in Prompts}

ASSUME PoolAssumption ==
  /\ IsFiniteSet(Blocks)
  /\ BlockSize \in Nat \ {0}
  /\ MaxTokens \in Nat \ {0}
  /\ CancelInStep \in BOOLEAN
  /\ MaxOverlaps \in Nat
  /\ OverlapCrowd \in Nat

ASSUME PromptAssumption ==
  /\ \A p \in Prompts : p \in Seq(Tokens) /\ Len(p) > 0
  /\ IsFiniteSet(Paths)
  /\ NoNode \notin Paths

ASSUME SeqAssumption == IsFiniteSet(Seqs)

(* Prompts that agree on the first token of a page agree on the whole of it:  *)
(* they part at page boundaries only.  prefill writes a shared page without   *)
(* copying it, so the contents of pages are proved under this condition.      *)
PartAtPages(Q) ==
  \A p, q \in Q : \A i, j \in 1..Len(p) :
    /\ j <= i /\ i <= Len(q)
    /\ (j - 1) \div BlockSize = (i - 1) \div BlockSize
    /\ SubSeq(p, 1, j) = SubSeq(q, 1, j)
    => SubSeq(p, 1, i) = SubSeq(q, 1, i)

VARIABLES
  ref,        \* KVBlock.ref_count of each page; 0 for a page without a KVBlock
  free,       \* pages without a KVBlock: the complement of _allocated_blocks
  page,       \* contents of k_cache / v_cache, one token prefix per slot
  tree,       \* RadixTree: ref_count and block_ids of each node
  table,      \* Sequence.block_table
  toks,       \* Sequence.input_ids followed by output_ids
  plen,       \* len(Sequence.input_ids); 0 before the request arrives
  cachedLen,  \* Sequence.cached_len
  st,         \* where the sequence is in its life and in the current step
  cancelled,  \* sequences finished by cancel() while the loop thread was busy
  failed,     \* run_batch raised: the batch is being finished with "error"
  leaving,    \* sequences whose cancel the HTTP thread is carrying out page by page
  owed,       \* pages such a cancel has still to release
  hand,       \* the cow_block_if_shared the loop thread is inside of, if any
  suspect     \* history: pages whose count such a cancel may have spoiled

pool == <<ref, free, page, tree>>
race == <<leaving, owed, hand, suspect>>
vars == <<ref, free, page, tree, table, toks, plen, cachedLen, st, cancelled, failed,
          leaving, owed, hand, suspect>>

Slots == 0..BlockSize - 1
ZeroPage == [i \in Slots |-> <<>>]

(* A node exists iff insert_path counted it at least once since it was last  *)
(* unlinked: insert_path is the only creator and always adds one.            *)
AbsentNode == [refs |-> 0, blocks |-> <<>>]
Present(n) == tree[n].refs > 0

\* Work of the current step that run_batch has still to do, and what it has done.
Running == {"prefill", "decode"}
Computed == {"prefilled", "sampled"}
InRun == hand # {} \/ \E s \in Seqs : st[s] \in Running
InStep(s) == st[s] \in Running \cup Computed
Arrived == {s \in Seqs : st[s] # "new"}
Boundary == ~failed /\ hand = {} /\ \A s \in Seqs : ~InStep(s)

-----------------------------------------------------------------------------
(* Pages: allocate_blocks, release_blocks, fork_blocks, evict                *)

PagesOf(t) == {t[i] : i \in DOMAIN t}
PagesFor(n) == (n + BlockSize - 1) \div BlockSize

\* Mutant: a page is freed while one other holder is left.
FreedBySharedToo(S) == {b \in S \ free : ref[b] <= 2}

(* release_blocks(S): a page listed twice is released once, a page without a *)
(* KVBlock is skipped, a page whose count reaches zero is zeroed and freed.  *)
FreedBy(S) == {b \in S \ free : ref[b] <= 1}
RefsReleased(S) ==
  [b \in Blocks |-> IF b \in FreedBy(S) THEN 0
                    ELSE IF b \in S \ free THEN ref[b] - 1 ELSE ref[b]]
FreeReleased(S) == free \cup FreedBy(S)
PagesReleased(S) == [b \in Blocks |-> IF b \in FreedBy(S) THEN ZeroPage ELSE page[b]]

(* fork_blocks and the tail of match_prefix: every entry of the list adds a   *)
(* reference to its page, if the page has a KVBlock.                         *)
Occurrences(t, b) == Cardinality({i \in DOMAIN t : t[i] = b})

\* Mutant: a prefix hit shares pages without counting itself.
RefsNotForked(t) == ref

RefsForked(t) ==
  [b \in Blocks |-> IF b \in free THEN ref[b] ELSE ref[b] + Occurrences(t, b)]

Leaf(n) == \A m \in Paths : Present(m) /\ Len(m) = Len(n) + 1 => SubSeq(m, 1, Len(n)) # n

\* Mutant: evict any node that has a private page.
CandidatesInner ==
  {n \in Paths : Present(n) /\ \E b \in PagesOf(tree[n].blocks) \ free : ref[b] <= 1}

(* evict(1): a childless node inserted once that has a page nobody else      *)
(* holds.  Present nodes have refs >= 1, so sorting by refs leaves the order *)
(* of the walk, which is left open here; one victim satisfies needed = 1.    *)
Candidates ==
  {n \in Paths : /\ Present(n)
                 /\ tree[n].refs <= 1
                 /\ Leaf(n)
                 /\ \E b \in PagesOf(tree[n].blocks) \ free : ref[b] <= 1}

Victims == IF free # {} THEN {NoNode} ELSE Candidates
Dropped(v) == IF v = NoNode THEN {} ELSE PagesOf(tree[v].blocks)
TreeWithout(v) == IF v = NoNode THEN tree ELSE [tree EXCEPT ![v] = AbsentNode]

(* allocate_blocks(1) after evicting v (or nothing) and taking page b.       *)
CanTake(v, b) == v \in Victims /\ b \in FreeReleased(Dropped(v))
RefsTaken(v, b) == [RefsReleased(Dropped(v)) EXCEPT ![b] = 1]
FreeTaken(v, b) == FreeReleased(Dropped(v)) \ {b}

-----------------------------------------------------------------------------
(* The radix index: walk, match_prefix, insert_path                          *)

(* RadixTree.walk: the first n tokens of p have nodes, the next one has none. *)
WalksTo(p, n) ==
  /\ \A k \in 1..n : Present(SubSeq(p, 1, k))
  /\ n < Len(p) => ~Present(SubSeq(p, 1, n + 1))

(* match_prefix after a walk of n tokens: the deepest node is reusable iff    *)
(* its own pages cover it.  The walk back to an ancestor (lines 270-292)      *)
(* requires best_len == i, which only the deepest node satisfies, and that   *)
(* node is the one without pages: it never changes the result.  The paged    *)
(* runner sets last_logits before every insert, so an exact hit has logits.  *)
Reusable(p, n) == n > 0 /\ Len(tree[SubSeq(p, 1, n)].blocks) >= PagesFor(n)

\* Mutant: a hit takes only the full pages of the prefix.
HitFullBlocks(p, n) == SubSeq(tree[SubSeq(p, 1, n)].blocks, 1, n \div BlockSize)

HitBlocks(p, n) == SubSeq(tree[SubSeq(p, 1, n)].blocks, 1, PagesFor(n))

(* insert_path counts every node on the path; insert_or_update then gives    *)
(* the last one the sequence's pages.                                        *)
OnPath(n, p) == Len(n) <= Len(p) /\ SubSeq(p, 1, Len(n)) = n
TreeInserted(p, blks) ==
  [n \in Paths |-> [refs   |-> IF OnPath(n, p) THEN tree[n].refs + 1 ELSE tree[n].refs,
                    blocks |-> IF n = p THEN blks ELSE tree[n].blocks]]

-----------------------------------------------------------------------------
Prompt(s) == SubSeq(toks[s], 1, plen[s])
NumOut(s) == Len(toks[s]) - plen[s]

(* run_batch prefills every group before it decodes the first one, and takes  *)
(* up the next page when it is through with the last one.                    *)
Turn(s) == hand = {} /\ (st[s] = "prefill" \/ \A r \in Seqs : st[r] # "prefill")

(* The pages a forward of s needs: the whole prompt, or one more position.   *)
Target(s) == IF st[s] = "prefill" THEN plen[s] ELSE cachedLen[s] + 1
NeedsPage(s) == st[s] \in Running /\ Len(table[s]) < PagesFor(Target(s))

(* write_kv_layer for positions lo..hi-1 through table t: no ownership check. *)
(* Only an overlapping cancel leaves a table that lists a page twice; which   *)
(* of two writes to one slot it keeps is then of no account.                 *)
PagesWritten(s, lo, hi) ==
  [b \in Blocks |-> [i \in Slots |->
     LET hits == {pos \in lo..hi - 1 : table[s][pos \div BlockSize + 1] = b
                                       /\ pos % BlockSize = i}
     IN IF hits = {} THEN page[b][i]
        ELSE SubSeq(toks[s], 1, (CHOOSE pos \in hits : TRUE) + 1)]]

Init ==
  /\ ref = [b \in Blocks |-> 0]
  /\ free = Blocks
  /\ page = [b \in Blocks |-> ZeroPage]
  /\ tree = [n \in Paths |-> AbsentNode]
  /\ table = [s \in Seqs |-> <<>>]
  /\ toks = [s \in Seqs |-> <<>>]
  /\ plen = [s \in Seqs |-> 0]
  /\ cachedLen = [s \in Seqs |-> 0]
  /\ st = [s \in Seqs |-> "new"]
  /\ cancelled = {}
  /\ failed = FALSE
  /\ leaving = {}
  /\ owed = [s \in Seqs |-> {}]
  /\ hand = {}
  /\ suspect = {}

(* Scheduler.add_request: admission runs between steps.                      *)
AddRequest(s, p) ==
  /\ Boundary
  /\ st[s] = "new"
  /\ suspect # {} => Cardinality(Arrived) < OverlapCrowd
  /\ \E n \in 0..Len(p) :
       /\ WalksTo(p, n)
       /\ \/ /\ Reusable(p, n)
             /\ cachedLen' = [cachedLen EXCEPT ![s] = n]
             /\ table' = [table EXCEPT ![s] = HitBlocks(p, n)]
             /\ ref' = RefsForked(HitBlocks(p, n))
          \/ /\ ~Reusable(p, n)
             /\ UNCHANGED <<cachedLen, table, ref>>
  /\ toks' = [toks EXCEPT ![s] = p]
  /\ plen' = [plen EXCEPT ![s] = Len(p)]
  /\ st' = [st EXCEPT ![s] = "waiting"]
  /\ UNCHANGED <<free, page, tree, cancelled, failed, race>>

(* Scheduler.step and the classification at the head of run_batch: every      *)
(* running sequence and some of the waiting ones.  An exact hit samples from  *)
(* the stored logits and needs no forward.                                   *)
StartStep(W) ==
  /\ Boundary
  /\ W \subseteq {s \in Seqs : st[s] = "waiting"}
  /\ W # {} \/ \E s \in Seqs : st[s] = "running"
  /\ st' = [s \in Seqs |-> IF st[s] = "running" THEN "decode"
                           ELSE IF s \notin W THEN st[s]
                           ELSE IF cachedLen[s] < plen[s] THEN "prefill" ELSE "sampled"]
  /\ UNCHANGED <<pool, table, toks, plen, cachedLen, cancelled, failed, race>>

(* One turn of ModelRunner._ensure_blocks.  The list is looked up before the  *)
(* page is allocated: of a cancel under way it is the list being released,   *)
(* and the new page is released with it if the walk over the list is not     *)
(* through, and otherwise lost when the cancel binds an empty list.          *)
EnsurePage(s) ==
  /\ ~failed
  /\ Turn(s) /\ NeedsPage(s)
  /\ \E v \in Victims, b \in Blocks :
       /\ CanTake(v, b)
       /\ ref' = RefsTaken(v, b)
       /\ free' = FreeTaken(v, b)
       /\ page' = PagesReleased(Dropped(v))
       /\ tree' = TreeWithout(v)
       /\ table' = [table EXCEPT ![s] = Append(@, b)]
       /\ \E Q \in {owed[s], owed[s] \cup {b}} :
            /\ s \notin leaving => Q = owed[s]
            /\ s \in leaving /\ owed[s] # {} => b \in Q
            /\ owed' = [owed EXCEPT ![s] = Q]
       /\ suspect' = IF s \in leaving THEN suspect \cup {b} ELSE suspect
  /\ UNCHANGED <<toks, plen, cachedLen, st, cancelled, failed, leaving, hand>>

(* The page the next token of s goes to, and whether it has other holders.   *)
WriteIndex(s) == cachedLen[s] \div BlockSize + 1

\* Mutant: no copy on write.
NeverShared(s) == FALSE

WriteShared(s) ==
  /\ WriteIndex(s) \in DOMAIN table[s]
  /\ ref[table[s][WriteIndex(s)]] > 1

(* cow_block_if_shared on the page the next token goes to.  The count of the *)
(* old page drops by one after the allocation, whatever eviction did to it,  *)
(* and nothing here frees the old page.                                      *)
Cow(s) ==
  /\ ~failed
  /\ Turn(s) /\ st[s] = "decode"
  /\ ~NeedsPage(s)
  /\ WriteShared(s)
  /\ s \notin leaving
  /\ LET old == table[s][WriteIndex(s)]
     IN \E v \in Victims, b \in Blocks :
          /\ CanTake(v, b)
          /\ ref' = [RefsTaken(v, b) EXCEPT ![old] = @ - 1]
          /\ free' = FreeTaken(v, b)
          /\ page' = [PagesReleased(Dropped(v)) EXCEPT ![b] = page[old]]
          /\ tree' = TreeWithout(v)
          /\ table' = [table EXCEPT ![s][WriteIndex(s)] = b]
          /\ suspect' = IF old \in suspect THEN suspect \cup {b} ELSE suspect
  /\ UNCHANGED <<toks, plen, cachedLen, st, cancelled, failed, leaving, owed, hand>>

(* _batch_prefill / _prefill_one: write the rest of the prompt, no COW.      *)
PrefillForward(s) ==
  /\ ~failed
  /\ Turn(s) /\ st[s] = "prefill"
  /\ ~NeedsPage(s)
  /\ page' = PagesWritten(s, cachedLen[s], plen[s])
  /\ cachedLen' = [cachedLen EXCEPT ![s] = plen[s]]
  /\ st' = [st EXCEPT ![s] = "prefilled"]
  /\ UNCHANGED <<ref, free, tree, table, toks, plen, cancelled, failed, race>>

(* _batch_decode / _decode_one: write the K/V of the last token.             *)
DecodeForward(s) ==
  /\ ~failed
  /\ Turn(s) /\ st[s] = "decode"
  /\ ~NeedsPage(s)
  /\ ~WriteShared(s)
  /\ page' = PagesWritten(s, cachedLen[s], cachedLen[s] + 1)
  /\ cachedLen' = [cachedLen EXCEPT ![s] = @ + 1]
  /\ st' = [st EXCEPT ![s] = "sampled"]
  /\ UNCHANGED <<ref, free, tree, table, toks, plen, cancelled, failed, race>>

(* allocate_blocks raises MemoryError: no free page, nothing to evict.       *)
OutOfPages(s) ==
  /\ ~failed
  /\ Turn(s)
  /\ \/ NeedsPage(s)
     \/ st[s] = "decode" /\ ~NeedsPage(s) /\ WriteShared(s)
  /\ free = {}
  /\ Candidates = {}
  /\ failed' = TRUE
  /\ UNCHANGED <<pool, table, toks, plen, cachedLen, st, cancelled, race>>

(* Any other exception out of run_batch (the model's forward).               *)
ForwardRaises ==
  /\ ~failed
  /\ InRun /\ hand = {}
  /\ failed' = TRUE
  /\ UNCHANGED <<pool, table, toks, plen, cachedLen, st, cancelled, race>>

(* Scheduler.mark_finished, as far as the cache is concerned.                *)
ReleaseTable(s) ==
  /\ ref' = RefsReleased(PagesOf(table[s]))
  /\ free' = FreeReleased(PagesOf(table[s]))
  /\ page' = PagesReleased(PagesOf(table[s]))
  /\ table' = [table EXCEPT ![s] = <<>>]

\* Mutant: a failed member is finished without giving its pages back.
FinishKeepsPages(s) ==
  /\ failed
  /\ InStep(s)
  /\ st' = [st EXCEPT ![s] = "done"]
  /\ failed' = \E r \in Seqs \ {s} : InStep(r)
  /\ UNCHANGED <<pool, table, toks, plen, cachedLen, cancelled, race>>

(* EngineLoop._run after an exception: finish every member of the batch.     *)
FinishFailed(s) ==
  /\ failed
  /\ InStep(s)
  /\ ReleaseTable(s)
  /\ st' = [st EXCEPT ![s] = "done"]
  /\ failed' = \E r \in Seqs \ {s} : InStep(r)
  /\ UNCHANGED <<tree, toks, plen, cachedLen, cancelled, race>>

\* Mutant: a skipped sequence is left in a status nothing handles.
SkipToNowhere(s) ==
  /\ ~failed /\ ~InRun
  /\ st[s] \in Computed
  /\ s \in cancelled
  /\ st' = [st EXCEPT ![s] = "skipped"]
  /\ UNCHANGED <<pool, table, toks, plen, cachedLen, cancelled, failed, race>>

(* run_batch (before it gave the sequence a page) and later EngineLoop._run   *)
(* pass over a sequence that is already finished.                            *)
SkipFinished(s) ==
  /\ ~failed
  /\ s \in cancelled /\ hand = {}
  /\ \/ st[s] \in Running /\ (table[s] = <<>> \/ s \in leaving)
     \/ st[s] \in Computed /\ ~InRun
  /\ st' = [st EXCEPT ![s] = "done"]
  /\ UNCHANGED <<pool, table, toks, plen, cachedLen, cancelled, failed, race>>

(* update_after_prefill -> insert_or_update.  A cancel that lands after the   *)
(* finished check leaves an empty table to insert.                           *)
Insert(s) ==
  /\ ~failed /\ ~InRun
  /\ st[s] = "prefilled"
  /\ s \in cancelled => table[s] = <<>> \/ s \in leaving
  /\ LET node == Prompt(s)
         old  == PagesOf(tree[node].blocks)
     IN /\ tree' = TreeInserted(node, table[s])
        /\ IF tree[node].blocks = table[s]
           THEN UNCHANGED <<ref, free, page>>
           ELSE /\ ref' = [b \in Blocks |->
                             IF b \in FreeReleased(old) THEN RefsReleased(old)[b]
                             ELSE RefsReleased(old)[b] + Occurrences(table[s], b)]
                /\ free' = FreeReleased(old)
                /\ page' = PagesReleased(old)
  /\ st' = [st EXCEPT ![s] = "sampled"]
  /\ UNCHANGED <<table, toks, plen, cachedLen, cancelled, failed, race>>

(* update_after_decode and _apply_stop_and_limits: append the sampled token;  *)
(* EOS or a stop string may end the sequence, max_tokens must.               *)
Emit(s, t) ==
  /\ ~failed /\ ~InRun
  /\ st[s] = "sampled"
  /\ s \notin cancelled
  /\ toks' = [toks EXCEPT ![s] = Append(@, t)]
  /\ \/ /\ NumOut(s) + 1 < MaxTokens
        /\ st' = [st EXCEPT ![s] = "running"]
        /\ UNCHANGED <<ref, free, page, table>>
     \/ /\ ReleaseTable(s)
        /\ st' = [st EXCEPT ![s] = "done"]
  /\ UNCHANGED <<tree, plen, cachedLen, cancelled, failed, race>>

(* Scheduler.cancel for a timeout or a client cancel, between two steps or   *)
(* (from the HTTP thread) of a sequence that is not in the batch.             *)
Cancel(s) ==
  /\ Boundary \/ CancelInStep
  /\ st[s] \in {"waiting", "running"}
  /\ ReleaseTable(s)
  /\ st' = [st EXCEPT ![s] = "done"]
  /\ UNCHANGED <<tree, toks, plen, cachedLen, cancelled, failed, race>>

(* Scheduler.cancel from the HTTP thread between two page operations of the  *)
(* step that holds the sequence: the step goes on with the emptied table.    *)
CancelMidStep(s) ==
  /\ CancelInStep
  /\ InStep(s)
  /\ s \notin cancelled
  /\ ReleaseTable(s)
  /\ cancelled' = cancelled \cup {s}
  /\ UNCHANGED <<tree, toks, plen, cachedLen, st, failed, race>>

(* A cancel that overlaps the loop thread's work on pages.  mark_finished is  *)
(* not atomic: it finds the table non-empty, releases the pages it lists one *)
(* by one, and then binds a new empty list to seq.block_table.               *)
CancelBegins(s) ==
  /\ CancelInStep
  /\ Cardinality(cancelled) < MaxOverlaps /\ Cardinality(Arrived) <= OverlapCrowd
  /\ s \notin cancelled
  /\ st[s] \notin {"new", "done"}
  /\ table[s] # <<>>
  /\ leaving' = leaving \cup {s}
  /\ owed' = [owed EXCEPT ![s] = PagesOf(table[s])]
  /\ suspect' = suspect \cup PagesOf(table[s])
  /\ cancelled' = cancelled \cup {s}
  /\ st' = IF InStep(s) THEN st ELSE [st EXCEPT ![s] = "done"]
  /\ UNCHANGED <<pool, table, toks, plen, cachedLen, failed, hand>>

(* One turn of release_blocks on the HTTP thread.  (Two threads that both    *)
(* found the page allocated may append it to the free list twice; `free' is  *)
(* a set and does not show it.  The page is suspect in any case.)            *)
CancelReleases(s, b) ==
  /\ b \in owed[s]
  /\ ref' = RefsReleased({b})
  /\ free' = FreeReleased({b})
  /\ page' = PagesReleased({b})
  /\ owed' = [owed EXCEPT ![s] = @ \ {b}]
  /\ UNCHANGED <<tree, table, toks, plen, cachedLen, st, cancelled, failed, leaving, hand, suspect>>

(* seq.block_table = []: whatever the list got meanwhile is dropped with it. *)
CancelClears(s) ==
  /\ s \in leaving
  /\ owed[s] = {}
  /\ table' = [table EXCEPT ![s] = <<>>]
  /\ leaving' = leaving \ {s}
  /\ UNCHANGED <<pool, toks, plen, cachedLen, st, cancelled, failed, owed, hand, suspect>>

(* The loop thread's own mark_finished (a timeout, a limit or EOS) of a      *)
(* sequence whose cancel is under way: both found the table non-empty.        *)
FinishTwice(s) ==
  /\ s \in leaving
  /\ Boundary \/ (~failed /\ ~InRun /\ st[s] = "sampled")
  /\ ReleaseTable(s)
  /\ st' = [st EXCEPT ![s] = "done"]
  /\ UNCHANGED <<tree, toks, plen, cachedLen, cancelled, failed, race>>

(* cow_block_if_shared taken apart, where a cancel is releasing the page or   *)
(* the list it is in.  First the count is checked.                           *)
CowChecks(s) ==
  /\ ~failed
  /\ Turn(s) /\ st[s] = "decode"
  /\ ~NeedsPage(s)
  /\ WriteShared(s)
  /\ LET old == table[s][WriteIndex(s)]
     IN /\ s \in leaving \/ \E r \in leaving : old \in owed[r]
        /\ hand' = {[seq |-> s, stage |-> "checked", blk |-> old]}
  /\ UNCHANGED <<pool, table, toks, plen, cachedLen, st, cancelled, failed, leaving, owed, suspect>>

(* Then a page is allocated and copied to, and the count of the old KVBlock  *)
(* lowered, which is of no effect if the page was freed since the check.     *)
CowTakes(h) ==
  /\ h.stage = "checked"
  /\ \E v \in Victims, b \in Blocks :
       /\ CanTake(v, b)
       /\ ref' = IF h.blk \in FreeReleased(Dropped(v)) THEN RefsTaken(v, b)
                 ELSE [RefsTaken(v, b) EXCEPT ![h.blk] = @ - 1]
       /\ free' = FreeTaken(v, b)
       /\ page' = [PagesReleased(Dropped(v)) EXCEPT ![b] = PagesReleased(Dropped(v))[h.blk]]
       /\ tree' = TreeWithout(v)
       /\ hand' = {[h EXCEPT !.stage = "taken", !.blk = b]}
       /\ suspect' = suspect \cup {b}
  /\ UNCHANGED <<table, toks, plen, cachedLen, st, cancelled, failed, leaving, owed>>

(* The new id goes into what is by then the block table; a release that has  *)
(* not come to that entry finds the new page there.                          *)
CowStores(h) ==
  LET s == h.seq
      w == WriteIndex(h.seq)
  IN /\ h.stage = "taken"
     /\ w \in DOMAIN table[s]
     /\ table' = [table EXCEPT ![s][w] = h.blk]
     /\ owed' = IF table[s][w] \in owed[s]
                THEN [owed EXCEPT ![s] = (@ \ {table[s][w]}) \cup {h.blk}] ELSE owed
     /\ hand' = {}
     /\ UNCHANGED <<pool, toks, plen, cachedLen, st, cancelled, failed, leaving, suspect>>

(* MemoryError from the allocation, IndexError from the assignment.          *)
CowRaises(h) ==
  /\ \/ h.stage = "checked" /\ free = {} /\ Candidates = {}
     \/ h.stage = "taken" /\ WriteIndex(h.seq) \notin DOMAIN table[h.seq]
  /\ hand' = {}
  /\ failed' = TRUE
  /\ UNCHANGED <<pool, table, toks, plen, cachedLen, st, cancelled, leaving, owed, suspect>>

Next ==
  \/ \E s \in Seqs :
       \/ \E p \in Prompts : AddRequest(s, p)
       \/ EnsurePage(s) \/ Cow(s) \/ PrefillForward(s) \/ DecodeForward(s)
       \/ OutOfPages(s) \/ FinishFailed(s) \/ SkipFinished(s) \/ Insert(s)
       \/ \E t \in OutTokens : Emit(s, t)
       \/ Cancel(s) \/ CancelMidStep(s)
       \/ CancelBegins(s) \/ CancelClears(s) \/ \E b \in Blocks : CancelReleases(s, b)
       \/ FinishTwice(s) \/ CowChecks(s)
  \/ \E h \in hand : CowTakes(h) \/ CowStores(h) \/ CowRaises(h)
  \/ \E W \in SUBSET Seqs : StartStep(W)
  \/ ForwardRaises

Spec == Init /\ [][Next]_vars

-----------------------------------------------------------------------------
(* Properties                                                                *)

SeqHolders(b) == {s \in Seqs : b \in PagesOf(table[s])}
NodeHolders(b) == {n \in Paths : b \in PagesOf(tree[n].blocks)}

(* Types of the cache state and of the sequences' cache fields.              *)
TypeOK ==
  /\ ref \in [Blocks -> Nat]
  /\ free \subseteq Blocks
  /\ page \in [Blocks -> [Slots -> Seq(Tokens)]]
  /\ tree \in [Paths -> [refs : Nat, blocks : Seq(Blocks)]]
  /\ table \in [Seqs -> Seq(Blocks)]
  /\ toks \in [Seqs -> Seq(Tokens)]
  /\ plen \in [Seqs -> Nat]
  /\ cachedLen \in [Seqs -> Nat]
  /\ st \in [Seqs -> {"new", "waiting", "running", "done"} \cup Running \cup Computed]
  /\ cancelled \subseteq Seqs
  /\ failed \in BOOLEAN
  /\ leaving \subseteq Seqs
  /\ owed \in [Seqs -> SUBSET Blocks]
  /\ hand \subseteq [seq : Seqs, stage : {"checked", "taken"}, blk : Blocks]
  /\ suspect \subseteq Blocks

(* The count of every page is the number of block tables and radix nodes     *)
(* that list it, through hits, inserts, COW, eviction, errors and cancels;   *)
(* an overlapping cancel spoils only the pages its sequence had, got or was   *)
(* copying while it ran.                                                     *)
RefCountsExact ==
  \A b \in Blocks \ suspect : ref[b] = Cardinality(SeqHolders(b)) + Cardinality(NodeHolders(b))

(* No page on the free list is reachable from a block table or a radix node: *)
(* allocate_blocks never hands out a page somebody still reads, except pages  *)
(* that an overlapping cancel released twice.                                *)
FreePagesUnheld == \A b \in free \ suspect : SeqHolders(b) = {} /\ NodeHolders(b) = {}

(* A request that is over holds no page, however it ended, unless the cancel *)
(* landed inside a step (then _ensure_blocks may give it pages again).       *)
DoneHoldsNothing ==
  \A s \in Seqs : st[s] = "done" /\ s \notin cancelled => table[s] = <<>>

(* read_kv never raises for a live sequence: its table covers cached_len.    *)
TableCoversCache ==
  \A s \in Seqs : st[s] \notin {"new", "done"} /\ s \notin cancelled
                    => Len(table[s]) >= PagesFor(cachedLen[s])

(* A block table covers what its sequence has cached for as long as the      *)
(* sequence lives, and nothing afterwards.                                   *)
TableFollowsLife == TableCoversCache /\ DoneHoldsNothing

(* A list without a page that an overlapping cancel may have spoiled.        *)
Sound(t) == PagesOf(t) \cap suspect = {}

Slot(t, pos) == page[t[pos \div BlockSize + 1]][pos % BlockSize]

(* What a live sequence reads back is the K/V of its own tokens: no other    *)
(* sequence, eviction or reuse of a page changed what it cached.             *)
SequenceIntact ==
  \A s \in Seqs : st[s] \notin {"new", "done"} /\ s \notin cancelled /\ Sound(table[s]) =>
    \A pos \in 0..cachedLen[s] - 1 : Slot(table[s], pos) = SubSeq(toks[s], 1, pos + 1)

(* What a prefix hit hands out is the K/V of that prefix.                    *)
PrefixIntact ==
  \A n \in Paths : tree[n].blocks # <<>> /\ Sound(tree[n].blocks) =>
    \A pos \in 0..Len(n) - 1 : Slot(tree[n].blocks, pos) = SubSeq(n, 1, pos + 1)

(* Sharing, copying, evicting and reusing pages never changes the K/V that a *)
(* sequence or a prefix relies on, as long as it lists no page that an       *)
(* overlapping cancel may have freed under it.                               *)
ContentsIntact == SequenceIntact /\ PrefixIntact

(* Eviction unlinks leaves only: the parent of a node is in the tree.        *)
TreeClosed ==
  \A n \in Paths : Present(n) /\ Len(n) > 1 => Present(SubSeq(n, 1, Len(n) - 1))

-----------------------------------------------------------------------------
(* The inductive invariant behind RefCountsExact (module RadixCacheProofs).  *)

(* No list names a page twice, so counting entries is counting holders.      *)
Distinct(t, X) == \A i, j \in DOMAIN t : t[i] = t[j] /\ t[i] \notin X => i = j

ListsDistinct ==
  /\ \A s \in Seqs : Distinct(table[s], suspect)
  /\ \A n \in Paths : Distinct(tree[n].blocks, suspect)

(* Lengths of the token lists, and the node a prompt belongs to.             *)
Lengths ==
  \A s \in Seqs :
    /\ st[s] = "new" => table[s] = <<>> /\ cachedLen[s] = 0
    /\ plen[s] <= Len(toks[s])
    /\ cachedLen[s] <= Len(toks[s])
    /\ st[s] \notin {"new", "done"} => Prompt(s) \in Paths
    /\ st[s] \in {"running", "decode"} => cachedLen[s] < Len(toks[s])

FreeUncounted == \A b \in free : ref[b] = 0

(* Every page that two threads may be counting at once is suspect.           *)
RaceMarked ==
  /\ leaving # {} => suspect # {}
  /\ \A s \in Seqs : owed[s] \subseteq suspect
  /\ \A s \in leaving : st[s] # "new" /\ PagesOf(table[s]) \subseteq suspect
  /\ \A h \in hand :
       /\ h.blk \in suspect
       /\ h.stage = "checked" /\ h.blk \notin free => ref[h.blk] > 0
       /\ WriteIndex(h.seq) \in DOMAIN table[h.seq]
            => table[h.seq][WriteIndex(h.seq)] \in suspect

IndInv ==
  TypeOK /\ Lengths /\ ListsDistinct /\ FreeUncounted /\ RefCountsExact /\ RaceMarked
=============================================================================
