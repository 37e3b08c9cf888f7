-------------------------- MODULE RadixCacheProofs --------------------------
(***************************************************************************)
(* Theorems about RadixCache, for every pool, prompt set and number of      *)
(* sequences: the types, the exactness of the reference counts of all pages *)
(* that no overlapping cancel has reached, the shape of the radix tree under *)
(* insert and eviction, what block tables cover, and (if prompts part at    *)
(* page boundaries only, while no cancel has overlapped page work) that no  *)
(* step changes the K/V somebody relies on.                                 *)
(***************************************************************************)
EXTENDS RadixCache, FiniteSetTheorems, TLAPS

Node == [refs : Nat, blocks : Seq(Blocks)]

\* Holders of page b in the block tables T, and in the radix tree T.
SeqsWith(T, b) == {s \in Seqs : b \in PagesOf(T[s])}
NodesWith(T, b) == {n \in Paths : b \in PagesOf(T[n].blocks)}
Bit(c) == IF c THEN 1 ELSE 0

-----------------------------------------------------------------------------
(* Counting                                                                  *)

(* Two finite sets that agree outside x differ by x's membership in size.    *)
LEMMA OneMember ==
  ASSUME NEW S, IsFiniteSet(S), NEW T, NEW x, S \ {x} = T \ {x}
  PROVE  /\ IsFiniteSet(T)
         /\ Cardinality(S) \in Nat
         /\ Cardinality(T) \in Nat
         /\ Cardinality(T) = Cardinality(S) - Bit(x \in S) + Bit(x \in T)
<1>1. IsFiniteSet(S \ {x}) /\ Cardinality(S \ {x}) = Cardinality(S) - Bit(x \in S)
  BY FS_RemoveElement, FS_CardinalityType DEF Bit
<1>2. T = IF x \in T THEN (S \ {x}) \cup {x} ELSE S \ {x}
  OBVIOUS
<1>3. x \notin S \ {x}
  OBVIOUS
<1>4. IsFiniteSet(T) /\ Cardinality(T) = Cardinality(S \ {x}) + Bit(x \in T)
  <2>1. CASE x \in T
    <3>1. T = (S \ {x}) \cup {x}
      BY <1>2, <2>1
    <3>2. /\ IsFiniteSet((S \ {x}) \cup {x})
          /\ Cardinality((S \ {x}) \cup {x}) = Cardinality(S \ {x}) + 1
      BY <1>1, <1>3, FS_AddElement
    <3>3. QED BY <2>1, <3>1, <3>2 DEF Bit
  <2>2. CASE x \notin T
    <3>1. T = S \ {x}
      BY <1>2, <2>2
    <3>2. Cardinality(S \ {x}) \in Nat
      BY <1>1, FS_CardinalityType
    <3>3. QED BY <1>1, <2>2, <3>1, <3>2 DEF Bit
  <2>3. QED BY <2>1, <2>2
<1>5. Cardinality(S) \in Nat /\ Cardinality(T) \in Nat
  BY <1>4, FS_CardinalityType
<1>6. QED BY <1>1, <1>4, <1>5 DEF Bit

(* Changing one block table changes the table count of b by that table only. *)
LEMMA SeqsWithExcept ==
  ASSUME NEW T \in [Seqs -> Seq(Blocks)], NEW s \in Seqs, NEW t \in Seq(Blocks), NEW b
  PROVE  LET U == [T EXCEPT ![s] = t]
         IN  /\ Cardinality(SeqsWith(T, b)) \in Nat
             /\ Cardinality(SeqsWith(U, b)) \in Nat
             /\ Cardinality(SeqsWith(U, b))
                  = Cardinality(SeqsWith(T, b)) - Bit(b \in PagesOf(T[s])) + Bit(b \in PagesOf(t))
<1> DEFINE U == [T EXCEPT ![s] = t]
           A == SeqsWith(T, b)
           B == SeqsWith(U, b)
<1>1. IsFiniteSet(A)
  BY SeqAssumption, FS_Subset DEF SeqsWith
<1>2. A \ {s} = B \ {s}
  BY DEF SeqsWith
<1>3. (s \in A) = (b \in PagesOf(T[s])) /\ (s \in B) = (b \in PagesOf(t))
  BY DEF SeqsWith
<1> HIDE DEF A, B, U
<1>4. /\ Cardinality(A) \in Nat
      /\ Cardinality(B) \in Nat
      /\ Cardinality(B) = Cardinality(A) - Bit(s \in A) + Bit(s \in B)
  BY <1>1, <1>2, OneMember
<1>5. QED BY <1>3, <1>4 DEF A, B, U

(* Changing the pages of one radix node changes the node count by that node. *)
LEMMA NodesWithChange ==
  ASSUME NEW T, NEW U, NEW n \in Paths, NEW b,
         NodesWith(T, b) \ {n} = NodesWith(U, b) \ {n}
  PROVE  /\ Cardinality(NodesWith(T, b)) \in Nat
         /\ Cardinality(NodesWith(U, b)) \in Nat
         /\ Cardinality(NodesWith(U, b))
              = Cardinality(NodesWith(T, b)) - Bit(b \in PagesOf(T[n].blocks))
                                             + Bit(b \in PagesOf(U[n].blocks))
<1> DEFINE A == NodesWith(T, b)
           B == NodesWith(U, b)
<1>1. IsFiniteSet(A)
  BY PromptAssumption, FS_Subset DEF NodesWith
<1>2. A \ {n} = B \ {n}
  OBVIOUS
<1>3. (n \in A) = (b \in PagesOf(T[n].blocks)) /\ (n \in B) = (b \in PagesOf(U[n].blocks))
  BY DEF NodesWith
<1> HIDE DEF A, B
<1>4. /\ Cardinality(A) \in Nat
      /\ Cardinality(B) \in Nat
      /\ Cardinality(B) = Cardinality(A) - Bit(n \in A) + Bit(n \in B)
  BY <1>1, <1>2, OneMember
<1>5. QED BY <1>3, <1>4 DEF A, B

(* A list names a page that is not suspect once or not at all.               *)
LEMMA OccursOnce ==
  ASSUME NEW t \in Seq(Blocks), NEW X, Distinct(t, X), NEW b, b \notin X
  PROVE  Occurrences(t, b) = Bit(b \in PagesOf(t))
<1> DEFINE I == {i \in DOMAIN t : t[i] = b}
<1>1. CASE b \in PagesOf(t)
  <2>1. PICK k \in DOMAIN t : t[k] = b
    BY <1>1 DEF PagesOf
  <2>2. I = {k}
    BY <2>1 DEF Distinct
  <2>3. Cardinality({k}) = 1
    BY FS_Singleton
  <2>4. QED BY <1>1, <2>2, <2>3 DEF Occurrences, Bit
<1>2. CASE b \notin PagesOf(t)
  <2>1. I = {}
    BY <1>2 DEF PagesOf
  <2>2. QED BY <1>2, <2>1, FS_EmptySet DEF Occurrences, Bit
<1>3. QED BY <1>1, <1>2

-----------------------------------------------------------------------------
(* The pool operators under the invariant                                    *)

(* The number of holders of b.                                               *)
Held(T, R, b) == Cardinality(SeqsWith(T, b)) + Cardinality(NodesWith(R, b))

(* RefCountsExact in terms of Held, the number of lists a page is on.        *)
LEMMA HeldIsRef ==
  ASSUME RefCountsExact, NEW b \in Blocks \ suspect
  PROVE  ref[b] = Held(table, tree, b)
BY DEF RefCountsExact, Held, SeqHolders, NodeHolders, SeqsWith, NodesWith

(* A page on a list is counted, so it has a KVBlock.                         *)
LEMMA ListedIsCounted ==
  ASSUME IndInv, NEW b \in Blocks \ suspect,
         \/ \E s \in Seqs : b \in PagesOf(table[s])
         \/ \E n \in Paths : b \in PagesOf(tree[n].blocks)
  PROVE  ref[b] > 0 /\ b \notin free
<1> DEFINE A == SeqsWith(table, b)
           B == NodesWith(tree, b)
<1>1. IsFiniteSet(A) /\ IsFiniteSet(B)
  BY SeqAssumption, PromptAssumption, FS_Subset DEF SeqsWith, NodesWith
<1>2. A # {} \/ B # {}
  BY DEF SeqsWith, NodesWith
<1> HIDE DEF A, B
<1>3. Cardinality(A) \in Nat /\ Cardinality(B) \in Nat
  BY <1>1, FS_CardinalityType
<1>4. Cardinality(A) # 0 \/ Cardinality(B) # 0
  BY <1>1, <1>2, FS_EmptySet
<1>5. ref[b] = Cardinality(A) + Cardinality(B)
  BY HeldIsRef DEF IndInv, Held, A, B
<1>6. QED BY <1>3, <1>4, <1>5 DEF IndInv, FreeUncounted

(* Releasing listed pages takes one from each count and frees only pages     *)
(* whose count is then zero.                                                 *)
LEMMA ReleaseCounts ==
  ASSUME IndInv, NEW S \in SUBSET Blocks, \A b \in S \ suspect : ref[b] > 0 /\ b \notin free
  PROVE  /\ RefsReleased(S) \in [Blocks -> Nat]
         /\ \A b \in Blocks \ suspect : RefsReleased(S)[b] = ref[b] - Bit(b \in S)
         /\ FreeReleased(S) \in SUBSET Blocks
         /\ \A b \in FreeReleased(S) : RefsReleased(S)[b] = 0
<1>1. ref \in [Blocks -> Nat] /\ free \subseteq Blocks
  BY DEF IndInv, TypeOK
<1>2. \A b \in free : ref[b] = 0
  BY DEF IndInv, FreeUncounted
<1>3. QED BY <1>1, <1>2 DEF RefsReleased, FreeReleased, FreedBy, Bit

(* The pages on a list of pages are pages.                                   *)
LEMMA PagesOfType ==
  ASSUME NEW t \in Seq(Blocks)
  PROVE  PagesOf(t) \in SUBSET Blocks
BY DEF PagesOf

(* Evicting v (or nothing) keeps the counts equal to the remaining holders.  *)
LEMMA EvictCounts ==
  ASSUME IndInv, NEW v \in Victims
  PROVE  LET D == Dropped(v)
         IN  /\ RefsReleased(D) \in [Blocks -> Nat]
             /\ FreeReleased(D) \in SUBSET Blocks
             /\ \A b \in FreeReleased(D) : RefsReleased(D)[b] = 0
             /\ \A b \in Blocks \ suspect : RefsReleased(D)[b] = Held(table, TreeWithout(v), b)
             /\ TreeWithout(v) \in [Paths -> Node]
             /\ \A n \in Paths : Distinct(TreeWithout(v)[n].blocks, suspect)
<1> DEFINE D == Dropped(v)
<1>t. /\ tree \in [Paths -> Node]
      /\ \A n \in Paths : Distinct(tree[n].blocks, suspect)
      /\ RefCountsExact
  BY DEF IndInv, TypeOK, Node, ListsDistinct
<1>1. CASE v = NoNode
  <2>1. D = {} /\ TreeWithout(v) = tree
    BY <1>1 DEF Dropped, TreeWithout
  <2>2. /\ RefsReleased({}) \in [Blocks -> Nat]
        /\ \A b \in Blocks \ suspect : RefsReleased({})[b] = ref[b] - Bit(b \in {})
        /\ FreeReleased({}) \in SUBSET Blocks
        /\ \A b \in FreeReleased({}) : RefsReleased({})[b] = 0
    BY ReleaseCounts
  <2>3. \A b \in Blocks \ suspect : ref[b] \in Nat /\ ref[b] = Held(table, tree, b)
    BY <1>t, HeldIsRef DEF IndInv, TypeOK
  <2>4. \A b \in Blocks \ suspect : RefsReleased({})[b] = Held(table, tree, b)
    BY <2>2, <2>3 DEF Bit
  <2>5. QED BY <1>t, <2>1, <2>2, <2>4
<1>2. CASE v # NoNode
  <2>1. v \in Paths
    BY <1>2 DEF Victims, Candidates
  <2>2. D = PagesOf(tree[v].blocks) /\ TreeWithout(v) = [tree EXCEPT ![v] = AbsentNode]
    BY <1>2 DEF Dropped, TreeWithout
  <2>3. tree[v].blocks \in Seq(Blocks)
    BY <1>t, <2>1 DEF Node
  <2>4. D \in SUBSET Blocks
    BY <2>2, <2>3, PagesOfType
  <2>5. \A b \in D \ suspect : ref[b] > 0 /\ b \notin free
    BY <2>1, <2>2, <2>4, ListedIsCounted
  <2> HIDE DEF D
  <2>6. /\ RefsReleased(D) \in [Blocks -> Nat]
        /\ \A b \in Blocks \ suspect : RefsReleased(D)[b] = ref[b] - Bit(b \in D)
        /\ FreeReleased(D) \in SUBSET Blocks
        /\ \A b \in FreeReleased(D) : RefsReleased(D)[b] = 0
    BY <2>4, <2>5, ReleaseCounts
  <2>7. TreeWithout(v) \in [Paths -> Node] /\ TreeWithout(v)[v].blocks = <<>>
        /\ \A m \in Paths \ {v} : TreeWithout(v)[m] = tree[m]
    BY <1>t, <2>1, <2>2 DEF AbsentNode, Node
  <2>8. \A n \in Paths : Distinct(TreeWithout(v)[n].blocks, suspect)
    BY <1>t, <2>7 DEF Distinct
  <2>9. ASSUME NEW b \in Blocks \ suspect
        PROVE  RefsReleased(D)[b] = Held(table, TreeWithout(v), b)
    <3>1. b \notin PagesOf(TreeWithout(v)[v].blocks)
      BY <2>7 DEF PagesOf
    <3>2. /\ Cardinality(NodesWith(tree, b)) \in Nat
          /\ Cardinality(NodesWith(TreeWithout(v), b))
               = Cardinality(NodesWith(tree, b)) - Bit(b \in PagesOf(tree[v].blocks))
                   + Bit(b \in PagesOf(TreeWithout(v)[v].blocks))
      <4>1. NodesWith(tree, b) \ {v} = NodesWith(TreeWithout(v), b) \ {v}
        BY <2>7 DEF NodesWith
      <4>2. QED BY <2>1, <4>1, NodesWithChange
    <3>3. Cardinality(SeqsWith(table, b)) \in Nat
      BY SeqAssumption, FS_Subset, FS_CardinalityType DEF SeqsWith
    <3>4. ref[b] = Held(table, tree, b)
      BY <1>t, HeldIsRef
    <3>5. QED BY <2>2, <2>6, <3>1, <3>2, <3>3, <3>4 DEF Held, Bit, D
  <2>10. QED BY <2>6, <2>7, <2>8, <2>9 DEF D
<1>3. QED BY <1>1, <1>2

-----------------------------------------------------------------------------
(* Steps.  PoolInv is the part of IndInv about pages and lists.              *)

PoolTypes ==
  /\ ref \in [Blocks -> Nat]
  /\ free \subseteq Blocks
  /\ page \in [Blocks -> [Slots -> Seq(Tokens)]]
  /\ tree \in [Paths -> Node]
  /\ table \in [Seqs -> Seq(Blocks)]

PoolInv == PoolTypes /\ ListsDistinct /\ FreeUncounted /\ RefCountsExact

SeqTypes ==
  /\ toks \in [Seqs -> Seq(Tokens)]
  /\ plen \in [Seqs -> Nat]
  /\ cachedLen \in [Seqs -> Nat]
  /\ st \in [Seqs -> {"new", "waiting", "running", "done"} \cup Running \cup Computed]
  /\ cancelled \subseteq Seqs
  /\ failed \in BOOLEAN

SeqInv == SeqTypes /\ Lengths

RaceTypes ==
  /\ leaving \subseteq Seqs
  /\ owed \in [Seqs -> SUBSET Blocks]
  /\ hand \subseteq [seq : Seqs, stage : {"checked", "taken"}, blk : Blocks]
  /\ suspect \subseteq Blocks

RaceInv == RaceTypes /\ RaceMarked

(* IndInv split into the parts about the pool, the sequences and the races.  *)
LEMMA IndInvParts == IndInv <=> PoolInv /\ SeqInv /\ RaceInv
BY DEF IndInv, PoolInv, SeqInv, RaceInv, TypeOK, PoolTypes, SeqTypes, RaceTypes, Node

(* IndInvParts in the next state.                                            *)
LEMMA IndInvPartsPrime == IndInv' <=> PoolInv' /\ SeqInv' /\ RaceInv'
BY DEF IndInv, PoolInv, SeqInv, RaceInv, TypeOK, PoolTypes, SeqTypes, RaceTypes, Node

(* A step of the loop thread between two page operations keeps the marks if   *)
(* the tables of cancels under way only take suspect pages.                  *)
LEMMA RaceKept ==
  ASSUME RaceInv, hand = {}, hand' = {}, leaving' = leaving,
         owed' \in [Seqs -> SUBSET Blocks], \A s \in Seqs : owed'[s] \subseteq owed[s] \cup suspect',
         suspect' \subseteq Blocks, suspect \subseteq suspect',
         \A s \in leaving : st'[s] # "new" /\ PagesOf(table'[s]) \subseteq suspect'
  PROVE  RaceInv'
<1>1. RaceTypes'
  BY DEF RaceInv, RaceTypes
<1>2. RaceMarked'
  BY DEF RaceInv, RaceMarked, WriteIndex
<1>3. QED BY <1>1, <1>2 DEF RaceInv

(* HeldIsRef in the next state.                                              *)
LEMMA HeldIsRefPrime ==
  ASSUME \A b \in Blocks \ suspect' : ref'[b] = Held(table', tree', b)
  PROVE  RefCountsExact'
BY DEF RefCountsExact, Held, SeqHolders, NodeHolders, SeqsWith, NodesWith

(* release_blocks leaves page contents of the right type.                    *)
LEMMA ReleasedPageType ==
  ASSUME PoolTypes, NEW S
  PROVE  PagesReleased(S) \in [Blocks -> [Slots -> Seq(Tokens)]]
<1>1. ZeroPage \in [Slots -> Seq(Tokens)]
  BY DEF ZeroPage
<1>2. QED BY <1>1 DEF PoolTypes, PagesReleased

(* mark_finished: releasing a block table.                                   *)
LEMMA ReleaseTableStep ==
  ASSUME IndInv, NEW s \in Seqs, ReleaseTable(s), tree' = tree, suspect' = suspect
  PROVE  PoolInv'
<1> DEFINE S == PagesOf(table[s])
<1>t. PoolInv
  BY IndInvParts
<1>1. table[s] \in Seq(Blocks) /\ S \in SUBSET Blocks
  BY <1>t, PagesOfType DEF PoolInv, PoolTypes
<1>2. \A b \in S \ suspect : ref[b] > 0 /\ b \notin free
  BY <1>1, ListedIsCounted
<1>3. ref' = RefsReleased(S) /\ free' = FreeReleased(S) /\ page' = PagesReleased(S)
  BY DEF ReleaseTable
<1>4. <<>> \in Seq(Blocks) /\ table' = [table EXCEPT ![s] = <<>>]
  BY DEF ReleaseTable
<1>h. S = PagesOf(table[s])
  OBVIOUS
<1> HIDE DEF S
<1>5. /\ RefsReleased(S) \in [Blocks -> Nat]
      /\ \A b \in Blocks \ suspect : RefsReleased(S)[b] = ref[b] - Bit(b \in S)
      /\ FreeReleased(S) \in SUBSET Blocks
      /\ \A b \in FreeReleased(S) : RefsReleased(S)[b] = 0
  BY <1>1, <1>2, ReleaseCounts
<1>6. PoolTypes'
  <2>1. page' \in [Blocks -> [Slots -> Seq(Tokens)]]
    BY <1>t, <1>3, ReleasedPageType DEF PoolInv
  <2>2. table' \in [Seqs -> Seq(Blocks)]
    BY <1>t, <1>4 DEF PoolInv, PoolTypes
  <2>3. QED BY <1>t, <1>3, <1>5, <2>1, <2>2 DEF PoolInv, PoolTypes
<1>7. ListsDistinct'
  <2>1. \A r \in Seqs : Distinct(table'[r], suspect)
    BY <1>t, <1>4 DEF PoolInv, PoolTypes, ListsDistinct, Distinct
  <2>2. QED BY <1>t, <2>1 DEF PoolInv, ListsDistinct
<1>8. FreeUncounted'
  BY <1>3, <1>5 DEF FreeUncounted
<1>9. ASSUME NEW b \in Blocks \ suspect'
      PROVE  ref'[b] = Held(table', tree', b)
  <2>1. /\ Cardinality(SeqsWith(table, b)) \in Nat
        /\ Cardinality(SeqsWith(table', b))
             = Cardinality(SeqsWith(table, b)) - Bit(b \in PagesOf(table[s])) + Bit(b \in PagesOf(<<>>))
    BY <1>t, <1>4, SeqsWithExcept DEF PoolInv, PoolTypes
  <2>2. b \notin PagesOf(<<>>)
    BY DEF PagesOf
  <2>3. Cardinality(NodesWith(tree, b)) \in Nat
    BY PromptAssumption, FS_Subset, FS_CardinalityType DEF NodesWith
  <2>4. ref[b] = Held(table, tree, b)
    BY <1>t, HeldIsRef DEF PoolInv
  <2>5. QED BY <1>3, <1>5, <1>h, <2>1, <2>2, <2>3, <2>4 DEF Held, Bit
<1>10. RefCountsExact'
  BY <1>9, HeldIsRefPrime
<1>11. QED BY <1>6, <1>7, <1>8, <1>10 DEF PoolInv

(* PagesFor is a natural number.                                             *)
LEMMA PagesForType ==
  ASSUME NEW n \in Nat
  PROVE  PagesFor(n) \in Nat
BY PoolAssumption DEF PagesFor

(* add_request on a hit: the new table shares the node's first pages.        *)
LEMMA HitStep ==
  ASSUME IndInv, NEW s \in Seqs, NEW p \in Prompts, NEW n \in 1..Len(p),
         table[s] = <<>>,
         Reusable(p, n),
         table' = [table EXCEPT ![s] = HitBlocks(p, n)],
         ref' = RefsForked(HitBlocks(p, n)),
         UNCHANGED <<free, page, tree, suspect>>
  PROVE  PoolInv'
<1> DEFINE node == SubSeq(p, 1, n)
           blks == tree[node].blocks
           k == PagesFor(n)
           h == HitBlocks(p, n)
<1>t. PoolInv
  BY IndInvParts
<1>1. node \in Paths
  BY DEF Paths
<1>2. blks \in Seq(Blocks) /\ Distinct(blks, suspect)
  BY <1>t, <1>1 DEF PoolInv, PoolTypes, Node, ListsDistinct
<1>3. k \in Nat /\ k <= Len(blks)
  <2>1. n \in Nat /\ Len(p) \in Nat
    BY PromptAssumption
  <2>2. QED BY <1>2, <2>1, PagesForType DEF Reusable
<1>4. h = SubSeq(blks, 1, k)
  BY DEF HitBlocks
<1> HIDE DEF node, blks, k, h
<1>5. /\ h \in Seq(Blocks)
      /\ DOMAIN h = 1..k
      /\ \A i \in 1..k : h[i] = blks[i]
  BY <1>2, <1>3, <1>4
<1>6. Distinct(h, suspect)
  BY <1>2, <1>3, <1>5 DEF Distinct
<1>7. \A b \in Blocks \ suspect : b \in PagesOf(h) => ref[b] > 0 /\ b \notin free
  <2>1. \A b \in Blocks : b \in PagesOf(h) => b \in PagesOf(blks)
    BY <1>2, <1>3, <1>5 DEF PagesOf
  <2>2. QED BY <1>1, <2>1, ListedIsCounted DEF blks
<1>8. \A b \in Blocks \ suspect : ref'[b] = ref[b] + Bit(b \in PagesOf(h))
  <2>1. \A b \in Blocks \ suspect : Occurrences(h, b) = Bit(b \in PagesOf(h))
    BY <1>5, <1>6, OccursOnce
  <2>2. ref' = RefsForked(h)
    BY DEF h
  <2>3. QED BY <1>t, <1>7, <2>1, <2>2 DEF RefsForked, Bit, PoolInv, PoolTypes
<1>9. PoolTypes'
  <2>1. ref' \in [Blocks -> Nat]
    <3>1. ref' = RefsForked(h) /\ DOMAIN ref' = Blocks
      BY DEF h, RefsForked
    <3>2. \A b \in Blocks : Occurrences(h, b) \in Nat
      <4>1. IsFiniteSet(1..k)
        BY <1>3, FS_Interval
      <4>2. ASSUME NEW b PROVE Occurrences(h, b) \in Nat
        <5>1. IsFiniteSet({i \in DOMAIN h : h[i] = b})
          BY <1>5, <4>1, FS_Subset
        <5> QED BY <5>1, FS_CardinalityType DEF Occurrences
      <4> QED BY <4>2
    <3>3. \A b \in Blocks : ref[b] \in Nat
      BY <1>t DEF PoolInv, PoolTypes
    <3>4. QED BY <3>1, <3>2, <3>3 DEF RefsForked
  <2>2. table' \in [Seqs -> Seq(Blocks)]
    BY <1>t, <1>5 DEF PoolInv, PoolTypes, h
  <2>3. QED BY <1>t, <2>1, <2>2 DEF PoolInv, PoolTypes
<1>10. ListsDistinct'
  BY <1>t, <1>6 DEF PoolInv, PoolTypes, ListsDistinct, h
<1>11. FreeUncounted'
  <2>1. \A b \in free : b \in Blocks /\ ref[b] = 0
    BY <1>t DEF PoolInv, PoolTypes, FreeUncounted
  <2>2. QED BY <2>1 DEF FreeUncounted, RefsForked
<1>12. ASSUME NEW b \in Blocks \ suspect'
       PROVE  ref'[b] = Held(table', tree', b)
  <2>1. /\ Cardinality(SeqsWith(table, b)) \in Nat
        /\ Cardinality(SeqsWith(table', b))
             = Cardinality(SeqsWith(table, b)) - Bit(b \in PagesOf(table[s])) + Bit(b \in PagesOf(h))
    <3>1. PICK T \in [Seqs -> Seq(Blocks)] : T = table
      BY <1>t DEF PoolInv, PoolTypes
    <3>2. PICK g \in Seq(Blocks) : g = h
      BY <1>5
    <3>3. /\ Cardinality(SeqsWith(T, b)) \in Nat
          /\ Cardinality(SeqsWith([T EXCEPT ![s] = g], b))
               = Cardinality(SeqsWith(T, b)) - Bit(b \in PagesOf(T[s])) + Bit(b \in PagesOf(g))
      BY ONLY SeqsWithExcept, T \in [Seqs -> Seq(Blocks)], s \in Seqs, g \in Seq(Blocks)
    <3>4. table' = [T EXCEPT ![s] = g]
      BY <3>1, <3>2 DEF h
    <3> QED BY <3>1, <3>2, <3>3, <3>4
  <2>2. b \notin PagesOf(table[s])
    BY DEF PagesOf
  <2>3. Cardinality(NodesWith(tree, b)) \in Nat
    BY PromptAssumption, FS_Subset, FS_CardinalityType DEF NodesWith
  <2>4. ref[b] = Held(table, tree, b)
    BY <1>t, HeldIsRef DEF PoolInv
  <2>5. QED BY <1>8, <2>1, <2>2, <2>3, <2>4 DEF Held, Bit
<1>13. RefCountsExact'
  BY <1>12, HeldIsRefPrime
<1>14. QED BY <1>9, <1>10, <1>11, <1>13 DEF PoolInv

(* allocate_blocks(1): the page taken has no holder left.                    *)
LEMMA TakenPageUnheld ==
  ASSUME IndInv, NEW v, NEW b \in Blocks, CanTake(v, b)
  PROVE  /\ v \in Victims
         /\ RefsReleased(Dropped(v))[b] = 0
         /\ b \notin suspect => /\ Cardinality(SeqsWith(table, b)) = 0
                               /\ Cardinality(NodesWith(TreeWithout(v), b)) = 0
                               /\ \A s \in Seqs : b \notin PagesOf(table[s])
<1>1. v \in Victims /\ b \in FreeReleased(Dropped(v))
  BY DEF CanTake
<1>2. RefsReleased(Dropped(v))[b] = 0 /\ (b \notin suspect => RefsReleased(Dropped(v))[b] = Held(table, TreeWithout(v), b))
  BY <1>1, EvictCounts
<1>3. IsFiniteSet(SeqsWith(table, b)) /\ IsFiniteSet(NodesWith(TreeWithout(v), b))
  BY SeqAssumption, PromptAssumption, FS_Subset DEF SeqsWith, NodesWith
<1>4. Cardinality(SeqsWith(table, b)) \in Nat /\ Cardinality(NodesWith(TreeWithout(v), b)) \in Nat
  BY <1>3, FS_CardinalityType
<1>5. b \notin suspect => /\ Cardinality(SeqsWith(table, b)) = 0
                         /\ Cardinality(NodesWith(TreeWithout(v), b)) = 0
  BY <1>2, <1>4 DEF Held
<1>6. b \notin suspect => SeqsWith(table, b) = {}
  BY <1>3, <1>5, FS_EmptySet
<1>7. QED BY <1>1, <1>2, <1>5, <1>6 DEF SeqsWith

(* _ensure_blocks: one page appended to the table of s.                      *)
LEMMA EnsureStep ==
  ASSUME IndInv, NEW s \in Seqs, EnsurePage(s)
  PROVE  PoolInv'
<1>t. PoolInv
  BY IndInvParts
<1>1. PICK v \in Victims, b \in Blocks :
        /\ CanTake(v, b)
        /\ ref' = RefsTaken(v, b)
        /\ free' = FreeTaken(v, b)
        /\ page' = PagesReleased(Dropped(v))
        /\ tree' = TreeWithout(v)
        /\ table' = [table EXCEPT ![s] = Append(@, b)]
        /\ suspect' = IF s \in leaving THEN suspect \cup {b} ELSE suspect
  BY DEF EnsurePage
<1> DEFINE R == RefsReleased(Dropped(v))
           F == FreeReleased(Dropped(v))
<1>2. /\ R[b] = 0
      /\ b \notin suspect => /\ Cardinality(SeqsWith(table, b)) = 0
                            /\ Cardinality(NodesWith(TreeWithout(v), b)) = 0
                            /\ b \notin PagesOf(table[s])
  BY <1>1, TakenPageUnheld
<1>3. /\ R \in [Blocks -> Nat]
      /\ F \in SUBSET Blocks
      /\ \A c \in F : R[c] = 0
      /\ \A c \in Blocks \ suspect : R[c] = Held(table, TreeWithout(v), c)
      /\ TreeWithout(v) \in [Paths -> Node]
      /\ \A n \in Paths : Distinct(TreeWithout(v)[n].blocks, suspect)
  BY EvictCounts
<1>4. ref' = [R EXCEPT ![b] = 1] /\ free' = F \ {b}
  BY <1>1 DEF RefsTaken, FreeTaken
<1> HIDE DEF R, F
<1>5. /\ table[s] \in Seq(Blocks)
      /\ Distinct(table[s], suspect)
      /\ table' = [table EXCEPT ![s] = Append(table[s], b)]
  BY <1>t, <1>1 DEF PoolInv, PoolTypes, ListsDistinct
<1>6. Append(table[s], b) \in Seq(Blocks)
  BY <1>5
<1>7. Distinct(Append(table[s], b), suspect) /\ PagesOf(Append(table[s], b)) = PagesOf(table[s]) \cup {b}
  <2> DEFINE t == table[s]
             u == Append(t, b)
  <2>1. DOMAIN t = 1..Len(t) /\ DOMAIN u = 1..Len(t) + 1 /\ Len(t) \in Nat
    BY <1>5
  <2>2. u[Len(t) + 1] = b /\ \A i \in 1..Len(t) : u[i] = t[i]
    BY <1>5
  <2>3. b \notin suspect => \A i \in 1..Len(t) : t[i] # b
    BY <1>2, <2>1 DEF PagesOf
  <2>4. \A i, j \in 1..Len(t) : t[i] = t[j] /\ t[i] \notin suspect => i = j
    BY <1>5, <2>1 DEF Distinct
  <2> HIDE DEF t, u
  <2>5. \A i \in 1..Len(t) + 1 : i \in 1..Len(t) \/ i = Len(t) + 1
    BY <2>1
  <2>6. Distinct(u, suspect)
    BY <2>1, <2>2, <2>3, <2>4, <2>5 DEF Distinct
  <2>7. PagesOf(u) = PagesOf(t) \cup {b}
    BY <2>1, <2>2, <2>5 DEF PagesOf
  <2>8. QED BY <2>6, <2>7 DEF u, t
<1>8. PoolTypes'
  <2>1. page' \in [Blocks -> [Slots -> Seq(Tokens)]]
    BY <1>t, <1>1, ReleasedPageType DEF PoolInv
  <2>2. table' \in [Seqs -> Seq(Blocks)]
    BY <1>t, <1>5, <1>6 DEF PoolInv, PoolTypes
  <2>3. ref' \in [Blocks -> Nat] /\ free' \subseteq Blocks
    BY <1>3, <1>4
  <2>4. QED BY <1>1, <1>3, <2>1, <2>2, <2>3 DEF PoolTypes
<1>9. ListsDistinct'
  <2>1. suspect \subseteq suspect'
    BY <1>1
  <2>2. \A r \in Seqs : Distinct(table'[r], suspect)
    BY <1>t, <1>5, <1>7 DEF PoolInv, PoolTypes, ListsDistinct
  <2>3. \A n \in Paths : Distinct(tree'[n].blocks, suspect)
    BY <1>1, <1>3
  <2> QED BY <2>1, <2>2, <2>3 DEF ListsDistinct, Distinct
<1>10. FreeUncounted'
  BY <1>3, <1>4 DEF FreeUncounted
<1>11. ASSUME NEW c \in Blocks \ suspect'
       PROVE  ref'[c] = Held(table', tree', c)
  <2>0. c \in Blocks \ suspect
    BY <1>1
  <2>1. /\ Cardinality(SeqsWith(table, c)) \in Nat
        /\ Cardinality(SeqsWith(table', c))
             = Cardinality(SeqsWith(table, c)) - Bit(c \in PagesOf(table[s]))
                 + Bit(c \in PagesOf(Append(table[s], b)))
    BY <1>t, <1>5, <1>6, SeqsWithExcept DEF PoolInv, PoolTypes
  <2>2. Cardinality(SeqsWith(table', c)) = Cardinality(SeqsWith(table, c)) + Bit(c = b)
    BY <1>2, <1>7, <2>0, <2>1 DEF Bit
  <2>3. R[c] = Held(table, tree', c)
    BY <1>1, <1>3, <2>0
  <2>4. Cardinality(NodesWith(tree', c)) \in Nat
    BY PromptAssumption, FS_Subset, FS_CardinalityType DEF NodesWith
  <2>5. CASE c = b
    BY <1>1, <1>2, <1>3, <1>4, <2>0, <2>2, <2>5 DEF Held, Bit
  <2>6. CASE c # b
    BY <1>3, <1>4, <2>0, <2>1, <2>2, <2>3, <2>4, <2>6 DEF Held, Bit
  <2>7. QED BY <2>5, <2>6
<1>12. RefCountsExact'
  BY <1>11, HeldIsRefPrime
<1>13. QED BY <1>8, <1>9, <1>10, <1>12 DEF PoolInv

(* cow_block_if_shared: s trades one page of its table for a fresh one.      *)
LEMMA CowStep ==
  ASSUME IndInv, NEW s \in Seqs, Cow(s)
  PROVE  PoolInv'
<1> DEFINE w == WriteIndex(s)
           old == table[s][w]
<1>t. PoolInv
  BY IndInvParts
<1>1. PICK v \in Victims, b \in Blocks :
        /\ CanTake(v, b)
        /\ ref' = [RefsTaken(v, b) EXCEPT ![old] = @ - 1]
        /\ free' = FreeTaken(v, b)
        /\ page' = [PagesReleased(Dropped(v)) EXCEPT ![b] = page[old]]
        /\ tree' = TreeWithout(v)
        /\ table' = [table EXCEPT ![s][w] = b]
        /\ suspect' = IF old \in suspect THEN suspect \cup {b} ELSE suspect
  BY DEF Cow
<1>w. w \in DOMAIN table[s] /\ ref[old] > 1
  BY DEF Cow, WriteShared
<1> HIDE DEF w
<1>2. /\ table[s] \in Seq(Blocks)
      /\ Distinct(table[s], suspect)
      /\ old \in Blocks
      /\ old \in PagesOf(table[s])
  BY <1>t, <1>w DEF PoolInv, PoolTypes, ListsDistinct, PagesOf
<1> DEFINE R == RefsReleased(Dropped(v))
           F == FreeReleased(Dropped(v))
           u == [table[s] EXCEPT ![w] = b]
<1>3. /\ R[b] = 0
      /\ b \notin suspect => /\ Cardinality(SeqsWith(table, b)) = 0
                            /\ Cardinality(NodesWith(TreeWithout(v), b)) = 0
                            /\ b \notin PagesOf(table[s])
  BY <1>1, TakenPageUnheld
<1>4. /\ R \in [Blocks -> Nat]
      /\ F \in SUBSET Blocks
      /\ \A c \in F : R[c] = 0
      /\ \A c \in Blocks \ suspect : R[c] = Held(table, TreeWithout(v), c)
      /\ TreeWithout(v) \in [Paths -> Node]
      /\ \A n \in Paths : Distinct(TreeWithout(v)[n].blocks, suspect)
  BY EvictCounts
<1>r. R[old] > 0
  <2>1. ref \in [Blocks -> Nat] /\ old \notin free
    BY <1>t, <1>w DEF PoolInv, PoolTypes, FreeUncounted
  <2> QED BY <1>2, <1>w, <2>1 DEF RefsReleased, FreedBy
<1>5. old # b
  BY <1>3, <1>r
<1>6. ref' = [[R EXCEPT ![b] = 1] EXCEPT ![old] = @ - 1] /\ free' = F \ {b}
  BY <1>1 DEF RefsTaken, FreeTaken
<1>7. table' = [table EXCEPT ![s] = u]
  BY <1>1
<1> HIDE DEF R, F
<1>8. u \in Seq(Blocks) /\ DOMAIN u = DOMAIN table[s] /\ u[w] = b
      /\ \A i \in DOMAIN u : i # w => u[i] = table[s][i]
  BY <1>2, <1>w
<1> HIDE DEF u
<1>9. Distinct(u, suspect)
  BY <1>2, <1>3, <1>8 DEF Distinct, PagesOf
<1>10. \A c \in Blocks \ suspect :
         c \in PagesOf(u) <=> (c \in PagesOf(table[s]) /\ c # old) \/ c = b
  BY <1>2, <1>3, <1>5, <1>8, <1>w DEF Distinct, PagesOf
<1>h. old = table[s][w]
  OBVIOUS
<1> HIDE DEF old
<1>11. ASSUME NEW c \in Blocks \ suspect
       PROVE  /\ Cardinality(SeqsWith(table, c)) \in Nat
              /\ Cardinality(SeqsWith(table', c)) \in Nat
              /\ Cardinality(NodesWith(tree', c)) \in Nat
              /\ Cardinality(SeqsWith(table', c))
                   = Cardinality(SeqsWith(table, c)) - Bit(c = old) + Bit(c = b)
              /\ R[c] = Cardinality(SeqsWith(table, c)) + Cardinality(NodesWith(tree', c))
  <2>1. /\ Cardinality(SeqsWith(table, c)) \in Nat
        /\ Cardinality(SeqsWith(table', c)) \in Nat
        /\ Cardinality(SeqsWith(table', c))
             = Cardinality(SeqsWith(table, c)) - Bit(c \in PagesOf(table[s])) + Bit(c \in PagesOf(u))
    <3>1. PICK T \in [Seqs -> Seq(Blocks)] : T = table
      BY <1>t DEF PoolInv, PoolTypes
    <3>2. PICK g \in Seq(Blocks) : g = u
      BY <1>8
    <3>3. /\ Cardinality(SeqsWith(T, c)) \in Nat
          /\ Cardinality(SeqsWith([T EXCEPT ![s] = g], c)) \in Nat
          /\ Cardinality(SeqsWith([T EXCEPT ![s] = g], c))
               = Cardinality(SeqsWith(T, c)) - Bit(c \in PagesOf(T[s])) + Bit(c \in PagesOf(g))
      BY ONLY SeqsWithExcept, T \in [Seqs -> Seq(Blocks)], s \in Seqs, g \in Seq(Blocks)
    <3>4. table' = [T EXCEPT ![s] = g]
      BY <1>7, <3>1, <3>2
    <3> QED BY <3>1, <3>2, <3>3, <3>4
  <2>2. Bit(c \in PagesOf(u)) = Bit(c \in PagesOf(table[s])) - Bit(c = old) + Bit(c = b)
    <3>1. c = old => c \in PagesOf(table[s])
      BY <1>2
    <3>2. c = b => c \notin PagesOf(table[s])
      BY <1>3
    <3>3. c \in PagesOf(u) <=> (c \in PagesOf(table[s]) /\ c # old) \/ c = b
      BY <1>10
    <3>4. CASE c = b
      BY <1>5, <3>2, <3>3, <3>4 DEF Bit
    <3>5. CASE c # b /\ c = old
      BY <3>1, <3>3, <3>5 DEF Bit
    <3>6. CASE c # b /\ c # old
      BY <3>3, <3>6 DEF Bit
    <3> QED BY <3>4, <3>5, <3>6
  <2>3. Cardinality(NodesWith(tree', c)) \in Nat
    BY PromptAssumption, FS_Subset, FS_CardinalityType DEF NodesWith
  <2>4. R[c] = Held(table, tree', c)
    BY <1>1, <1>4
  <2>5. QED BY <2>1, <2>2, <2>3, <2>4 DEF Held, Bit
<1>12. \A c \in Blocks : ref'[c] = R[c] - Bit(c = old) + Bit(c = b)
  <2>1. \A c \in Blocks : R[c] \in Nat
    BY <1>4
  <2>2. \A c \in Blocks : ref'[c] = IF c = old THEN R[c] - 1 ELSE IF c = b THEN 1 ELSE R[c]
    BY <1>2, <1>4, <1>5, <1>6
  <2>3. QED BY <1>3, <1>5, <2>1, <2>2 DEF Bit
<1>13. /\ \A c \in Blocks \ suspect : ref'[c] = Held(table', tree', c)
       /\ \A c \in Blocks : ref'[c] \in Nat
  <2>1. \A c \in Blocks : ref'[c] \in Nat
    BY <1>4, <1>12, <1>r DEF Bit
  <2>2. ASSUME NEW c \in Blocks \ suspect PROVE ref'[c] = Held(table', tree', c)
    BY <1>11, <1>12 DEF Held, Bit
  <2> QED BY <2>1, <2>2
<1>s. suspect \subseteq suspect'
  BY <1>1
<1>14. PoolTypes'
  <2>1. PagesReleased(Dropped(v)) \in [Blocks -> [Slots -> Seq(Tokens)]]
    BY <1>t, ReleasedPageType DEF PoolInv
  <2>2. page[old] \in [Slots -> Seq(Tokens)]
    BY <1>t, <1>2 DEF PoolInv, PoolTypes
  <2>3. page' \in [Blocks -> [Slots -> Seq(Tokens)]]
    BY <1>1, <2>1, <2>2 DEF old
  <2>4. table' \in [Seqs -> Seq(Blocks)]
    BY <1>t, <1>7, <1>8 DEF PoolInv, PoolTypes
  <2>5. ref' = [c \in Blocks |-> ref'[c]]
    BY <1>4, <1>6
  <2>6. ref' \in [Blocks -> Nat]
    BY <1>13, <2>5
  <2>7. QED BY <1>1, <1>4, <1>6, <2>3, <2>4, <2>6 DEF PoolTypes
<1>15. ListsDistinct'
  <2>1. \A r \in Seqs : Distinct(table'[r], suspect)
    BY <1>t, <1>7, <1>9 DEF PoolInv, PoolTypes, ListsDistinct
  <2>2. \A n \in Paths : Distinct(tree'[n].blocks, suspect)
    BY <1>1, <1>4
  <2> QED BY <1>s, <2>1, <2>2 DEF ListsDistinct, Distinct
<1>16. FreeUncounted'
  <2>1. ASSUME NEW c \in free'
        PROVE  ref'[c] = 0
    <3>1. c \in Blocks /\ c # b /\ R[c] = 0
      BY <1>4, <1>6
    <3>2. ref'[c] \in Nat /\ ref'[c] = R[c] - Bit(c = old) + Bit(c = b)
      BY <1>12, <1>13, <3>1
    <3>3. QED BY <3>1, <3>2 DEF Bit
  <2>2. QED BY <2>1 DEF FreeUncounted
<1>17. RefCountsExact'
  <2>1. \A c \in Blocks \ suspect' : ref'[c] = Held(table', tree', c)
    BY <1>13, <1>s
  <2> QED BY <2>1, HeldIsRefPrime
<1>18. QED BY <1>14, <1>15, <1>16, <1>17 DEF PoolInv

(* insert_or_update: the node drops its old pages and takes the table of s.  *)
LEMMA InsertStep ==
  ASSUME IndInv, NEW s \in Seqs, Insert(s)
  PROVE  PoolInv'
<1>t. PoolInv /\ SeqInv
  BY IndInvParts
<1>1. PICK node \in Paths : node = Prompt(s)
  BY <1>t DEF Insert, SeqInv, Lengths
<1> DEFINE old == PagesOf(tree[node].blocks)
<1>2. /\ tree' = TreeInserted(node, table[s])
      /\ table' = table /\ suspect' = suspect
      /\ \/ tree[node].blocks = table[s] /\ UNCHANGED <<ref, free, page>>
         \/ /\ ref' = [b \in Blocks |->
                           IF b \in FreeReleased(old) THEN RefsReleased(old)[b]
                           ELSE RefsReleased(old)[b] + Occurrences(table[s], b)]
            /\ free' = FreeReleased(old)
            /\ page' = PagesReleased(old)
  BY <1>1 DEF Insert, race
<1>3. table[s] \in Seq(Blocks) /\ Distinct(table[s], suspect)
  BY <1>t DEF PoolInv, PoolTypes, ListsDistinct
<1>4. tree[node].blocks \in Seq(Blocks) /\ old \in SUBSET Blocks
  BY <1>t, <1>1, PagesOfType DEF PoolInv, PoolTypes, Node
<1>5. /\ tree' \in [Paths -> Node]
      /\ tree'[node].blocks = table[s]
      /\ \A m \in Paths \ {node} : tree'[m].blocks = tree[m].blocks
  <2>1. \A n \in Paths : tree[n].refs \in Nat /\ tree[n].blocks \in Seq(Blocks)
    BY <1>t DEF PoolInv, PoolTypes, Node
  <2>2. QED BY <1>1, <1>2, <1>3, <2>1 DEF TreeInserted, Node
<1>6. ListsDistinct'
  BY <1>t, <1>2, <1>3, <1>5 DEF PoolInv, ListsDistinct
<1>7. ASSUME NEW b \in Blocks \ suspect
      PROVE  /\ Cardinality(SeqsWith(table, b)) \in Nat
             /\ Cardinality(NodesWith(tree, b)) \in Nat
             /\ Cardinality(NodesWith(tree', b)) \in Nat
             /\ Cardinality(NodesWith(tree', b))
                  = Cardinality(NodesWith(tree, b)) - Bit(b \in old) + Bit(b \in PagesOf(table[s]))
             /\ ref[b] = Cardinality(SeqsWith(table, b)) + Cardinality(NodesWith(tree, b))
  <2>1. Cardinality(SeqsWith(table, b)) \in Nat
    BY SeqAssumption, FS_Subset, FS_CardinalityType DEF SeqsWith
  <2>2. /\ Cardinality(NodesWith(tree, b)) \in Nat
        /\ Cardinality(NodesWith(tree', b)) \in Nat
        /\ Cardinality(NodesWith(tree', b))
             = Cardinality(NodesWith(tree, b)) - Bit(b \in PagesOf(tree[node].blocks))
                 + Bit(b \in PagesOf(tree'[node].blocks))
    <3>1. PICK U : U = tree'
      OBVIOUS
    <3>2. node \in Paths /\ NodesWith(tree, b) \ {node} = NodesWith(U, b) \ {node}
      BY <1>1, <1>5, <3>1 DEF NodesWith
    <3>3. /\ Cardinality(NodesWith(tree, b)) \in Nat
          /\ Cardinality(NodesWith(U, b)) \in Nat
          /\ Cardinality(NodesWith(U, b))
               = Cardinality(NodesWith(tree, b)) - Bit(b \in PagesOf(tree[node].blocks))
                   + Bit(b \in PagesOf(U[node].blocks))
      BY <3>2, NodesWithChange
    <3>4. QED BY <3>1, <3>3
  <2>3. ref[b] = Held(table, tree, b)
    BY <1>t, HeldIsRef DEF PoolInv
  <2>4. QED BY <1>5, <2>1, <2>2, <2>3 DEF Held
<1>8. CASE tree[node].blocks = table[s] /\ UNCHANGED <<ref, free, page>>
  <2>1. \A b \in Blocks \ suspect' : ref'[b] = Held(table', tree', b)
    BY <1>2, <1>7, <1>8 DEF Held, Bit
  <2>2. RefCountsExact'
    BY <2>1, HeldIsRefPrime
  <2>3. PoolTypes' /\ FreeUncounted'
    BY <1>t, <1>2, <1>5, <1>8 DEF PoolInv, PoolTypes, FreeUncounted
  <2>4. QED BY <1>6, <2>2, <2>3 DEF PoolInv
<1>9. CASE /\ ref' = [b \in Blocks |->
                         IF b \in FreeReleased(old) THEN RefsReleased(old)[b]
                         ELSE RefsReleased(old)[b] + Occurrences(table[s], b)]
           /\ free' = FreeReleased(old)
           /\ page' = PagesReleased(old)
  <2>1. \A b \in old \ suspect : ref[b] > 0 /\ b \notin free
    BY <1>1, <1>4, ListedIsCounted
  <2>2. /\ RefsReleased(old) \in [Blocks -> Nat]
        /\ \A b \in Blocks \ suspect : RefsReleased(old)[b] = ref[b] - Bit(b \in old)
        /\ FreeReleased(old) \in SUBSET Blocks
        /\ \A b \in FreeReleased(old) : RefsReleased(old)[b] = 0
    BY <1>4, <2>1, ReleaseCounts
  <2>3. /\ \A b \in Blocks \ suspect : Occurrences(table[s], b) = Bit(b \in PagesOf(table[s]))
        /\ \A b \in Blocks : Occurrences(table[s], b) \in Nat
    <3>1. ASSUME NEW b PROVE Occurrences(table[s], b) \in Nat
      <4>1. IsFiniteSet(DOMAIN table[s])
        BY <1>3, FS_Interval
      <4>2. IsFiniteSet({i \in DOMAIN table[s] : table[s][i] = b})
        BY <4>1, FS_Subset
      <4> QED BY <4>2, FS_CardinalityType DEF Occurrences
    <3> QED BY <1>3, <3>1, OccursOnce
  <2>4. ASSUME NEW b \in FreeReleased(old) \ suspect
        PROVE  b \in Blocks /\ b \notin PagesOf(table[s])
    <3>1. b \in Blocks
      BY <2>2
    <3>2. /\ Cardinality(SeqsWith(table, b)) \in Nat
          /\ Cardinality(NodesWith(tree, b)) >= Bit(b \in old)
      <4>1. CASE b \in old
        <5>1. node \in NodesWith(tree, b)
          BY <1>1, <4>1 DEF NodesWith
        <5>2. IsFiniteSet(NodesWith(tree, b))
          BY PromptAssumption, FS_Subset DEF NodesWith
        <5>3. Cardinality(NodesWith(tree, b)) # 0
          BY <5>1, <5>2, FS_EmptySet
        <5>4. QED BY <1>7, <3>1, <4>1, <5>3 DEF Bit
      <4>2. CASE b \notin old
        BY <1>7, <3>1, <4>2 DEF Bit
      <4>3. QED BY <1>7, <3>1, <4>1, <4>2
    <3>3. Cardinality(SeqsWith(table, b)) = 0
      BY <1>7, <2>2, <3>1, <3>2 DEF Bit
    <3>4. IsFiniteSet(SeqsWith(table, b))
      BY SeqAssumption, FS_Subset DEF SeqsWith
    <3>5. SeqsWith(table, b) = {}
      BY <3>3, <3>4, FS_EmptySet
    <3>6. QED BY <3>1, <3>5 DEF SeqsWith
  <2>5. \A b \in Blocks \ suspect : ref'[b] = RefsReleased(old)[b] + Bit(b \in PagesOf(table[s]))
    BY <1>9, <2>2, <2>3, <2>4 DEF Bit
  <2> HIDE DEF old
  <2>6. /\ \A b \in Blocks \ suspect' : ref'[b] = Held(table', tree', b)
        /\ \A b \in Blocks : ref'[b] \in Nat
    <3>1. \A b \in Blocks : ref'[b] \in Nat
      BY <1>9, <2>2, <2>3
    <3>2. ASSUME NEW b \in Blocks \ suspect PROVE ref'[b] = Held(table', tree', b)
      BY <1>2, <1>7, <2>2, <2>5 DEF Held, Bit
    <3> QED BY <1>2, <3>1, <3>2
  <2>7. RefCountsExact'
    BY <2>6, HeldIsRefPrime
  <2>8. PoolTypes'
    <3>1. page' \in [Blocks -> [Slots -> Seq(Tokens)]]
      BY <1>t, <1>9, ReleasedPageType DEF PoolInv
    <3>2. ref' = [b \in Blocks |-> ref'[b]]
      BY <1>9
    <3>3. ref' \in [Blocks -> Nat]
      BY <2>6, <3>2
    <3>4. QED BY <1>t, <1>2, <1>5, <1>9, <2>2, <3>1, <3>3 DEF PoolInv, PoolTypes
  <2>9. FreeUncounted'
    BY <1>9, <2>2 DEF FreeUncounted
  <2>10. QED BY <1>6, <2>7, <2>8, <2>9 DEF PoolInv
<1>10. QED BY <1>2, <1>8, <1>9

(* A forward writes page contents only.                                      *)
LEMMA WriteStep ==
  ASSUME IndInv, NEW s \in Seqs, NEW lo \in Nat, NEW hi \in Nat, hi <= Len(toks[s]),
         page' = PagesWritten(s, lo, hi),
         UNCHANGED <<ref, free, tree, table, suspect>>
  PROVE  PoolInv'
<1>t. PoolInv /\ SeqInv
  BY IndInvParts
<1>1. toks[s] \in Seq(Tokens)
  BY <1>t DEF SeqInv, SeqTypes
<1>2. \A pos \in lo..hi - 1 : SubSeq(toks[s], 1, pos + 1) \in Seq(Tokens)
  BY <1>1
<1>3. page' \in [Blocks -> [Slots -> Seq(Tokens)]]
  <2>1. ASSUME NEW b \in Blocks, NEW i \in Slots
        PROVE  PagesWritten(s, lo, hi)[b][i] \in Seq(Tokens)
    <3> DEFINE hits == {pos \in lo..hi - 1 : table[s][pos \div BlockSize + 1] = b
                                             /\ pos % BlockSize = i}
    <3>1. PagesWritten(s, lo, hi)[b][i]
            = IF hits = {} THEN page[b][i]
              ELSE SubSeq(toks[s], 1, (CHOOSE pos \in hits : TRUE) + 1)
      BY DEF PagesWritten
    <3>2. page[b][i] \in Seq(Tokens)
      BY <1>t DEF PoolInv, PoolTypes
    <3>3. hits # {} => (CHOOSE pos \in hits : TRUE) \in lo..hi - 1
      OBVIOUS
    <3> HIDE DEF hits
    <3>4. QED BY <1>2, <3>1, <3>2, <3>3
  <2>2. page' = [b \in Blocks |-> [i \in Slots |-> PagesWritten(s, lo, hi)[b][i]]]
    BY DEF PagesWritten
  <2>3. QED BY <2>1, <2>2
<1>4. PoolTypes' /\ ListsDistinct' /\ FreeUncounted' /\ RefCountsExact'
  BY <1>t, <1>3 DEF PoolInv, PoolTypes, ListsDistinct, FreeUncounted, RefCountsExact,
                    SeqHolders, NodeHolders
<1>5. QED BY <1>4 DEF PoolInv

(* Steps that leave the pool and the tables alone.                           *)
LEMMA PoolUnchanged ==
  ASSUME PoolInv, UNCHANGED <<ref, free, page, tree, table, suspect>>
  PROVE  PoolInv'
BY DEF PoolInv, PoolTypes, ListsDistinct, FreeUncounted, RefCountsExact, SeqHolders, NodeHolders

-----------------------------------------------------------------------------
(* The sequences                                                             *)

Status == {"new", "waiting", "running", "done"} \cup Running \cup Computed

\* What Lengths says of one sequence with tokens x, prompt length n, cached length c.
LengthsOf(x, n, c, t, q) ==
  /\ q = "new" => t = <<>> /\ c = 0
  /\ n <= Len(x)
  /\ c <= Len(x)
  /\ q \notin {"new", "done"} => SubSeq(x, 1, n) \in Paths
  /\ q \in {"running", "decode"} => c < Len(x)

(* Lengths, one sequence at a time.                                          *)
LEMMA LengthsParts ==
  Lengths <=> \A s \in Seqs : LengthsOf(toks[s], plen[s], cachedLen[s], table[s], st[s])
BY DEF Lengths, LengthsOf, Prompt

(* LengthsParts in the next state.                                           *)
LEMMA LengthsPartsPrime ==
  Lengths' <=> \A s \in Seqs : LengthsOf(toks'[s], plen'[s], cachedLen'[s], table'[s], st'[s])
BY DEF Lengths, LengthsOf, Prompt

(* A step that changes the fields of one sequence only.                      *)
LEMMA OneSequence ==
  ASSUME SeqInv, PoolTypes, NEW s \in Seqs,
         NEW x \in Seq(Tokens), NEW n \in Nat, NEW c \in Nat, NEW t, NEW q \in Status,
         toks' = [toks EXCEPT ![s] = x],
         plen' = [plen EXCEPT ![s] = n],
         cachedLen' = [cachedLen EXCEPT ![s] = c],
         table' = [table EXCEPT ![s] = t],
         st' = [st EXCEPT ![s] = q],
         cancelled' \subseteq Seqs,
         failed' \in BOOLEAN,
         LengthsOf(x, n, c, t, q)
  PROVE  SeqInv'
<1>1. SeqTypes'
  BY DEF SeqInv, SeqTypes, Status
<1>2. \A r \in Seqs : LengthsOf(toks'[r], plen'[r], cachedLen'[r], table'[r], st'[r])
  BY LengthsParts DEF SeqInv, SeqTypes, PoolTypes
<1>3. Lengths'
  BY <1>2, LengthsPartsPrime
<1>4. QED BY <1>1, <1>3 DEF SeqInv

(* A step that leaves the tokens and lengths of s alone and ends its life or *)
(* moves it on inside the step.                                              *)
LEMMA QuietSequence ==
  ASSUME SeqInv, PoolTypes, NEW s \in Seqs, NEW t, NEW q \in Status,
         st[s] # "new",
         UNCHANGED <<toks, plen, cachedLen>>,
         table' = [table EXCEPT ![s] = t],
         st' = [st EXCEPT ![s] = q],
         q = "done" \/ q = st[s] \/ (st[s] # "done" /\ q \in Computed),
         cancelled' \subseteq Seqs,
         failed' \in BOOLEAN
  PROVE  SeqInv'
<1>1. LengthsOf(toks[s], plen[s], cachedLen[s], table[s], st[s])
  BY LengthsParts DEF SeqInv
<1>2. LengthsOf(toks[s], plen[s], cachedLen[s], t, q)
  BY <1>1 DEF LengthsOf, Computed
<1>3. /\ toks[s] \in Seq(Tokens) /\ plen[s] \in Nat /\ cachedLen[s] \in Nat
      /\ toks' = [toks EXCEPT ![s] = toks[s]]
      /\ plen' = [plen EXCEPT ![s] = plen[s]]
      /\ cachedLen' = [cachedLen EXCEPT ![s] = cachedLen[s]]
  BY DEF SeqInv, SeqTypes
<1>4. QED BY <1>2, <1>3, OneSequence

(* add_request, on a miss or on a hit, preserves the invariant.              *)
LEMMA AddRequestStep ==
  ASSUME IndInv, NEW s \in Seqs, NEW p \in Prompts, AddRequest(s, p)
  PROVE  IndInv'
<1>t. PoolInv /\ SeqInv /\ RaceInv
  BY IndInvParts
<1>1. p \in Seq(Tokens) /\ Len(p) \in Nat /\ Len(p) > 0
  BY PromptAssumption
<1>2. SubSeq(p, 1, Len(p)) \in Paths
  BY <1>1 DEF Paths
<1>3. PICK n \in 0..Len(p) :
        \/ /\ Reusable(p, n)
           /\ cachedLen' = [cachedLen EXCEPT ![s] = n]
           /\ table' = [table EXCEPT ![s] = HitBlocks(p, n)]
           /\ ref' = RefsForked(HitBlocks(p, n))
        \/ UNCHANGED <<cachedLen, table, ref>>
  BY DEF AddRequest
<1>4. /\ st[s] = "new" /\ table[s] = <<>> /\ cachedLen[s] = 0
      /\ UNCHANGED <<free, page, tree, suspect, cancelled, failed>>
      /\ toks' = [toks EXCEPT ![s] = p]
      /\ plen' = [plen EXCEPT ![s] = Len(p)]
      /\ st' = [st EXCEPT ![s] = "waiting"]
      /\ cancelled' \subseteq Seqs /\ failed' \in BOOLEAN
  BY <1>t DEF AddRequest, SeqInv, SeqTypes, Lengths, race
<1>r. ASSUME NEW t, table' = [table EXCEPT ![s] = t] PROVE RaceInv'
  <2>1. s \notin leaving /\ hand = {} /\ UNCHANGED <<leaving, owed, hand, suspect>>
    BY <1>t DEF AddRequest, Boundary, race, RaceInv, RaceMarked
  <2>2. \A x \in leaving : st'[x] # "new" /\ PagesOf(table'[x]) \subseteq suspect
    BY <1>t, <1>4, <1>r, <2>1 DEF RaceInv, RaceTypes, RaceMarked, SeqInv, SeqTypes, PoolInv, PoolTypes
  <2> QED BY <1>t, <2>1, <2>2, RaceKept DEF RaceInv, RaceTypes
<1>5. ASSUME NEW c \in 0..Len(p), NEW t
      PROVE  c \in Nat /\ "waiting" \in Status /\ LengthsOf(p, Len(p), c, t, "waiting")
  <2>1. c \in Nat /\ Len(p) <= Len(p) /\ c <= Len(p)
    BY <1>1
  <2>2. QED BY <1>2, <2>1 DEF LengthsOf, Status
<1>6. CASE /\ Reusable(p, n)
           /\ cachedLen' = [cachedLen EXCEPT ![s] = n]
           /\ table' = [table EXCEPT ![s] = HitBlocks(p, n)]
           /\ ref' = RefsForked(HitBlocks(p, n))
  <2>1. n \in 1..Len(p)
    BY <1>1, <1>3, <1>6 DEF Reusable
  <2>2. PoolInv'
    BY <1>4, <1>6, <2>1, HitStep
  <2>3. SeqInv'
    BY <1>t, <1>1, <1>3, <1>4, <1>5, <1>6, OneSequence DEF PoolInv
  <2>4. QED BY <1>6, <1>r, <2>2, <2>3, IndInvPartsPrime
<1>7. CASE UNCHANGED <<cachedLen, table, ref>>
  <2>1. PoolInv'
    BY <1>t, <1>4, <1>7, PoolUnchanged
  <2>2. /\ cachedLen' = [cachedLen EXCEPT ![s] = 0]
        /\ table' = [table EXCEPT ![s] = <<>>]
        /\ 0 \in 0..Len(p)
    BY <1>t, <1>1, <1>4, <1>7 DEF SeqInv, SeqTypes, PoolInv, PoolTypes
  <2>3. SeqInv'
    BY <1>t, <1>1, <1>4, <1>5, <2>2, OneSequence DEF PoolInv
  <2>4. QED BY <1>r, <2>1, <2>2, <2>3, IndInvPartsPrime
<1>8. QED BY <1>3, <1>6, <1>7

(* Scheduler.step touches no page: it only moves sequences into the batch.   *)
LEMMA StartStepStep ==
  ASSUME IndInv, NEW W, StartStep(W)
  PROVE  IndInv'
<1>t. PoolInv /\ SeqInv /\ RaceInv
  BY IndInvParts
<1>1. PoolInv'
  BY <1>t, PoolUnchanged DEF StartStep, pool, race
<1>2. UNCHANGED <<toks, plen, cachedLen, table, cancelled, failed>>
  BY DEF StartStep
<1>3. \A s \in Seqs : \/ st'[s] = st[s]
                      \/ st[s] = "running" /\ st'[s] = "decode"
                      \/ st[s] = "waiting" /\ st'[s] \in {"prefill", "sampled"}
  BY DEF StartStep
<1>4. SeqTypes'
  <2>1. st' = [s \in Seqs |-> st'[s]]
    BY DEF StartStep
  <2>2. \A s \in Seqs : st'[s] \in Status
    BY <1>t, <1>3 DEF SeqInv, SeqTypes, Status, Running, Computed
  <2>3. st' \in [Seqs -> Status]
    BY <2>1, <2>2
  <2>4. QED BY <1>t, <1>2, <2>3 DEF SeqInv, SeqTypes, Status
<1>5. \A s \in Seqs : LengthsOf(toks'[s], plen'[s], cachedLen'[s], table'[s], st'[s])
  BY <1>t, <1>2, <1>3, LengthsParts DEF SeqInv, LengthsOf
<1>6. RaceInv'
  <2>1. hand = {} /\ UNCHANGED <<leaving, owed, hand, suspect>>
    BY DEF StartStep, Boundary, race
  <2>2. \A x \in leaving : st'[x] # "new" /\ PagesOf(table'[x]) \subseteq suspect
    BY <1>t, <1>2, <1>3 DEF RaceInv, RaceTypes, RaceMarked
  <2> QED BY <1>t, <2>1, <2>2, RaceKept DEF RaceInv, RaceTypes
<1>7. QED BY <1>1, <1>4, <1>5, <1>6, LengthsPartsPrime, IndInvPartsPrime DEF SeqInv

(* A prefill or decode forward preserves the invariant.                      *)
LEMMA ForwardStep ==
  ASSUME IndInv, NEW s \in Seqs, PrefillForward(s) \/ DecodeForward(s)
  PROVE  IndInv'
<1>t. PoolInv /\ SeqInv /\ RaceInv
  BY IndInvParts
<1>1. /\ toks[s] \in Seq(Tokens) /\ Len(toks[s]) \in Nat
      /\ plen[s] \in Nat /\ cachedLen[s] \in Nat
      /\ LengthsOf(toks[s], plen[s], cachedLen[s], table[s], st[s])
  BY <1>t, LengthsParts DEF SeqInv, SeqTypes
<1>2. PICK c \in Nat, q \in Computed :
        /\ st[s] \in Running
        /\ c <= Len(toks[s])
        /\ page' = PagesWritten(s, cachedLen[s], c)
        /\ cachedLen' = [cachedLen EXCEPT ![s] = c]
        /\ st' = [st EXCEPT ![s] = q]
        /\ hand = {}
        /\ UNCHANGED <<ref, free, tree, table, toks, plen, cancelled, failed, leaving, owed, hand, suspect>>
  <2>1. CASE PrefillForward(s)
    <3>1. plen[s] <= Len(toks[s])
      BY <1>1 DEF LengthsOf
    <3>2. QED BY <1>1, <2>1, <3>1 DEF PrefillForward, Turn, race, Running, Computed
  <2>2. CASE DecodeForward(s)
    <3>1. cachedLen[s] + 1 <= Len(toks[s]) /\ cachedLen[s] + 1 \in Nat
      BY <1>1, <2>2 DEF DecodeForward, LengthsOf
    <3>2. cachedLen' = [cachedLen EXCEPT ![s] = cachedLen[s] + 1]
      BY <2>2 DEF DecodeForward
    <3>3. QED BY <1>1, <2>2, <3>1, <3>2 DEF DecodeForward, Turn, race, Running, Computed
  <2>3. QED BY <2>1, <2>2
<1>3. PoolInv'
  BY <1>1, <1>2, WriteStep
<1>4. LengthsOf(toks[s], plen[s], c, table[s], q) /\ q \in Status
  BY <1>1, <1>2 DEF LengthsOf, Running, Computed, Status
<1>5. /\ toks' = [toks EXCEPT ![s] = toks[s]]
      /\ plen' = [plen EXCEPT ![s] = plen[s]]
      /\ table' = [table EXCEPT ![s] = table[s]]
      /\ cancelled' \subseteq Seqs /\ failed' \in BOOLEAN
  BY <1>t, <1>2 DEF SeqInv, SeqTypes, PoolInv, PoolTypes
<1>6. SeqInv'
  BY <1>t, <1>1, <1>2, <1>4, <1>5, OneSequence DEF PoolInv
<1>7. RaceInv'
  <2>1. \A x \in leaving : st'[x] # "new" /\ PagesOf(table'[x]) \subseteq suspect
    BY <1>t, <1>2 DEF RaceInv, RaceTypes, RaceMarked, SeqInv, SeqTypes, Computed
  <2> QED BY <1>t, <1>2, <2>1, RaceKept DEF RaceInv, RaceTypes
<1>8. QED BY <1>3, <1>6, <1>7, IndInvPartsPrime

(* Releasing a table leaves the page a copy was decided on counted or free.  *)
LEMMA RaceReleased ==
  ASSUME IndInv, NEW s \in Seqs, NEW S \in SUBSET Blocks,
         ref' = RefsReleased(S), free' = FreeReleased(S),
         table' = table \/ table' = [table EXCEPT ![s] = <<>>],
         \A r \in leaving' : st'[r] # "new",
         leaving' \subseteq leaving, \A r \in Seqs : owed'[r] \subseteq owed[r],
         owed' \in [Seqs -> SUBSET Blocks],
         UNCHANGED <<hand, suspect, cachedLen>>
  PROVE  RaceInv'
<1>t. PoolInv /\ SeqInv /\ RaceInv
  BY IndInvParts
<1>1. RaceTypes'
  BY <1>t DEF RaceInv, RaceTypes
<1>2. \A r \in Seqs : table'[r] = table[r] \/ table'[r] = <<>>
  BY <1>t DEF PoolInv, PoolTypes
<1>3. \A r \in leaving' : st'[r] # "new" /\ PagesOf(table'[r]) \subseteq suspect'
  BY <1>t, <1>1, <1>2 DEF RaceInv, RaceTypes, RaceMarked, PagesOf
<1>4. ASSUME NEW h \in hand
      PROVE  /\ h.blk \in suspect'
             /\ h.stage = "checked" /\ h.blk \notin free' => ref'[h.blk] > 0
             /\ WriteIndex(h.seq)' \in DOMAIN table'[h.seq]
                  => table'[h.seq][WriteIndex(h.seq)'] \in suspect'
  <2>1. /\ h.blk \in suspect /\ h.blk \in Blocks /\ h.seq \in Seqs
        /\ h.stage = "checked" /\ h.blk \notin free => ref[h.blk] > 0
        /\ WriteIndex(h.seq) \in DOMAIN table[h.seq]
             => table[h.seq][WriteIndex(h.seq)] \in suspect
    BY <1>t DEF RaceInv, RaceTypes, RaceMarked
  <2>2. ref \in [Blocks -> Nat]
    BY <1>t DEF PoolInv, PoolTypes
  <2>3. h.stage = "checked" /\ h.blk \notin free' => ref'[h.blk] > 0
    BY <2>1, <2>2 DEF RefsReleased, FreeReleased, FreedBy
  <2>4. WriteIndex(h.seq)' = WriteIndex(h.seq)
    BY DEF WriteIndex
  <2>5. WriteIndex(h.seq)' \in DOMAIN table'[h.seq] => table'[h.seq][WriteIndex(h.seq)'] \in suspect'
    <3>1. CASE table'[h.seq] = table[h.seq]
      BY <2>1, <2>4, <3>1
    <3>2. CASE table'[h.seq] = <<>>
      <4>1. DOMAIN table'[h.seq] = {}
        BY <3>2
      <4> QED BY <4>1
    <3> QED BY <1>2, <2>1, <3>1, <3>2
  <2> QED BY <2>1, <2>3, <2>5
<1>5. RaceMarked'
  BY <1>t, <1>3, <1>4 DEF RaceInv, RaceTypes, RaceMarked
<1> QED BY <1>1, <1>5 DEF RaceInv

(* The steps that release a whole table: error, cancel.                      *)
LEMMA FinishStep ==
  ASSUME IndInv, NEW s \in Seqs, FinishFailed(s) \/ FinishTwice(s) \/ Cancel(s) \/ CancelMidStep(s)
  PROVE  IndInv'
<1>t. PoolInv /\ SeqInv /\ RaceInv
  BY IndInvParts
<1>1. /\ ReleaseTable(s) /\ UNCHANGED <<tree, toks, plen, cachedLen, leaving, owed, hand, suspect>>
      /\ st[s] # "new"
      /\ st' = [st EXCEPT ![s] = "done"] \/ st' = st
      /\ cancelled' \subseteq Seqs /\ failed' \in BOOLEAN
  BY <1>t DEF FinishFailed, FinishTwice, Cancel, CancelMidStep, InStep, Running, Computed, race,
              SeqInv, SeqTypes, RaceInv, RaceMarked
<1>2. PoolInv'
  BY <1>1, ReleaseTableStep
<1>3. PICK q \in Status : st' = [st EXCEPT ![s] = q] /\ (q = "done" \/ q = st[s])
  <2>1. st[s] \in Status /\ st = [st EXCEPT ![s] = st[s]] /\ "done" \in Status
    BY <1>t DEF SeqInv, SeqTypes, Status
  <2>2. QED BY <1>1, <2>1
<1>4. table' = [table EXCEPT ![s] = <<>>]
  BY <1>1 DEF ReleaseTable
<1>5. SeqInv'
  BY <1>t, <1>1, <1>3, <1>4, QuietSequence DEF PoolInv
<1>6. RaceInv'
  <2>1. PICK S \in SUBSET Blocks : ref' = RefsReleased(S) /\ free' = FreeReleased(S)
    BY <1>t, <1>1, PagesOfType DEF ReleaseTable, PoolInv, PoolTypes
  <2>2. \A r \in leaving' : st'[r] # "new"
    BY <1>t, <1>1 DEF RaceInv, RaceTypes, RaceMarked, SeqInv, SeqTypes
  <2> QED BY <1>t, <1>1, <1>4, <2>1, <2>2, RaceReleased DEF RaceInv, RaceTypes
<1>7. QED BY <1>2, <1>5, <1>6, IndInvPartsPrime

(* Appending the sampled token, and mark_finished if it was the last.        *)
LEMMA EmitStep ==
  ASSUME IndInv, NEW s \in Seqs, NEW t \in OutTokens, Emit(s, t)
  PROVE  IndInv'
<1>t. PoolInv /\ SeqInv /\ RaceInv
  BY IndInvParts
<1> DEFINE x == Append(toks[s], t)
<1>1. /\ toks[s] \in Seq(Tokens) /\ Len(toks[s]) \in Nat /\ t \in Tokens
      /\ plen[s] \in Nat /\ cachedLen[s] \in Nat
      /\ LengthsOf(toks[s], plen[s], cachedLen[s], table[s], "sampled")
  <2>1. LengthsOf(toks[s], plen[s], cachedLen[s], table[s], st[s]) /\ st[s] = "sampled"
    BY <1>t, LengthsParts DEF SeqInv, Emit
  <2>2. t \in Tokens
    BY DEF Tokens
  <2>3. QED BY <1>t, <2>1, <2>2 DEF SeqInv, SeqTypes
<1>2. x \in Seq(Tokens) /\ Len(x) = Len(toks[s]) + 1
  BY <1>1
<1>3. SubSeq(x, 1, plen[s]) = SubSeq(toks[s], 1, plen[s])
  <2>1. plen[s] <= Len(toks[s])
    BY <1>1 DEF LengthsOf
  <2>2. QED BY <1>1, <1>2, <2>1
<1>4. /\ toks' = [toks EXCEPT ![s] = x]
      /\ plen' = [plen EXCEPT ![s] = plen[s]]
      /\ cachedLen' = [cachedLen EXCEPT ![s] = cachedLen[s]]
      /\ tree' = tree /\ cancelled' \subseteq Seqs /\ failed' \in BOOLEAN
      /\ hand = {} /\ UNCHANGED <<leaving, owed, hand, suspect>>
  BY <1>t DEF Emit, InRun, race, SeqInv, SeqTypes
<1>r. ASSUME NEW u, NEW q \in {"running", "done"}, u = table[s] \/ u = <<>>,
             table' = [table EXCEPT ![s] = u], st' = [st EXCEPT ![s] = q]
      PROVE  RaceInv'
  <2>1. \A y \in leaving : st'[y] # "new" /\ PagesOf(table'[y]) \subseteq suspect
    BY <1>t, <1>r DEF RaceInv, RaceTypes, RaceMarked, SeqInv, SeqTypes, PoolInv, PoolTypes, PagesOf
  <2> QED BY <1>t, <1>4, <2>1, RaceKept DEF RaceInv, RaceTypes
<1> HIDE DEF x
<1>5. ASSUME NEW u, NEW q \in {"running", "done"}
      PROVE  LengthsOf(x, plen[s], cachedLen[s], u, q) /\ q \in Status
  <2>1. /\ plen[s] <= Len(toks[s]) /\ cachedLen[s] <= Len(toks[s])
        /\ SubSeq(toks[s], 1, plen[s]) \in Paths
    BY <1>1 DEF LengthsOf
  <2>2. plen[s] <= Len(x) /\ cachedLen[s] <= Len(x) /\ cachedLen[s] < Len(x)
    BY <1>1, <1>2, <2>1
  <2>3. SubSeq(x, 1, plen[s]) \in Paths
    BY <1>3, <2>1
  <2>4. QED BY <2>2, <2>3 DEF LengthsOf, Status
<1>6. CASE st' = [st EXCEPT ![s] = "running"] /\ UNCHANGED <<ref, free, page, table>>
  <2>1. PoolInv'
    BY <1>t, <1>4, <1>6, PoolUnchanged
  <2>2. table' = [table EXCEPT ![s] = table[s]]
    BY <1>t, <1>6 DEF PoolInv, PoolTypes
  <2>3. SeqInv'
    BY <1>t, <1>1, <1>2, <1>4, <1>5, <1>6, <2>2, OneSequence DEF PoolInv
  <2>4. RaceInv'
    BY <1>6, <1>r, <2>2
  <2>5. QED BY <2>1, <2>3, <2>4, IndInvPartsPrime
<1>7. CASE st' = [st EXCEPT ![s] = "done"] /\ ReleaseTable(s)
  <2>1. PoolInv'
    BY <1>4, <1>7, ReleaseTableStep
  <2>2. table' = [table EXCEPT ![s] = <<>>]
    BY <1>7 DEF ReleaseTable
  <2>3. SeqInv'
    BY <1>t, <1>1, <1>2, <1>4, <1>5, <1>7, <2>2, OneSequence DEF PoolInv
  <2>4. RaceInv'
    BY <1>7, <1>r, <2>2
  <2>5. QED BY <2>1, <2>3, <2>4, IndInvPartsPrime
<1>8. QED BY <1>6, <1>7 DEF Emit

(* The steps that only move s on, or raise, and the two that take a page.    *)
LEMMA QuietStep ==
  ASSUME IndInv, NEW s \in Seqs,
         EnsurePage(s) \/ Cow(s) \/ Insert(s) \/ SkipFinished(s) \/ OutOfPages(s) \/ ForwardRaises
  PROVE  IndInv'
<1>t. PoolInv /\ SeqInv /\ RaceInv
  BY IndInvParts
<1>0. table = [table EXCEPT ![s] = table[s]] /\ st = [st EXCEPT ![s] = st[s]] /\ st[s] \in Status
  BY <1>t DEF PoolInv, PoolTypes, SeqInv, SeqTypes, Status
<1>r. ASSUME hand = {}, UNCHANGED <<leaving, hand>>, owed' \in [Seqs -> SUBSET Blocks],
             \A x \in Seqs : owed'[x] \subseteq owed[x] \cup suspect', NEW q \in Status, NEW u,
             table' = [table EXCEPT ![s] = u], st' = [st EXCEPT ![s] = q], q # "new",
             suspect \subseteq suspect', suspect' \subseteq Blocks,
             s \in leaving => PagesOf(u) \subseteq suspect'
      PROVE  RaceInv'
  <2>1. \A y \in leaving : st'[y] # "new" /\ PagesOf(table'[y]) \subseteq suspect'
    BY <1>t, <1>r DEF RaceInv, RaceTypes, RaceMarked, SeqInv, SeqTypes, PoolInv, PoolTypes
  <2> QED BY <1>t, <1>r, <2>1, RaceKept
<1>m. s \in leaving => PagesOf(table[s]) \subseteq suspect
  BY <1>t DEF RaceInv, RaceMarked
<1>1. CASE EnsurePage(s)
  <2>1. /\ UNCHANGED <<toks, plen, cachedLen, st>>
        /\ st[s] # "new" /\ st' = [st EXCEPT ![s] = st[s]]
        /\ cancelled' \subseteq Seqs /\ failed' \in BOOLEAN
    BY <1>t, <1>0, <1>1 DEF EnsurePage, NeedsPage, Running, SeqInv, SeqTypes
  <2>2. PICK c : table' = [table EXCEPT ![s] = Append(table[s], c)]
    BY <1>1 DEF EnsurePage
  <2>3. SeqInv'
    BY <1>t, <1>0, <2>1, <2>2, QuietSequence DEF PoolInv
  <2>4. RaceInv'
    <3>1. PICK b \in Blocks : /\ table' = [table EXCEPT ![s] = Append(table[s], b)]
                              /\ suspect' = IF s \in leaving THEN suspect \cup {b} ELSE suspect
                              /\ \E Q \in {owed[s], owed[s] \cup {b}} :
                                   /\ s \notin leaving => Q = owed[s]
                                   /\ owed' = [owed EXCEPT ![s] = Q]
      BY <1>1 DEF EnsurePage
    <3>2. hand = {} /\ UNCHANGED <<leaving, hand>>
      BY <1>1 DEF EnsurePage, Turn
    <3>o. owed \in [Seqs -> SUBSET Blocks]
      BY <1>t DEF RaceInv, RaceTypes
    <3>q. /\ owed' \in [Seqs -> SUBSET Blocks]
          /\ \A x \in Seqs : owed'[x] \subseteq owed[x] \cup suspect'
      BY <3>1, <3>o
    <3>3. PagesOf(Append(table[s], b)) \subseteq PagesOf(table[s]) \cup {b}
      <4>1. table[s] \in Seq(Blocks)
        BY <1>t DEF PoolInv, PoolTypes
      <4> QED BY <4>1 DEF PagesOf
    <3>4. suspect \subseteq suspect' /\ suspect' \subseteq Blocks
      BY <1>t, <3>1 DEF RaceInv, RaceTypes
    <3>5. s \in leaving => PagesOf(Append(table[s], b)) \subseteq suspect'
      BY <1>m, <3>1, <3>3
    <3> QED BY <1>0, <1>r, <2>1, <3>1, <3>2, <3>4, <3>5, <3>q
  <2>5. QED BY <1>1, <2>3, <2>4, EnsureStep, IndInvPartsPrime
<1>2. CASE Cow(s)
  <2>1. /\ UNCHANGED <<toks, plen, cachedLen, st>>
        /\ st[s] # "new" /\ st' = [st EXCEPT ![s] = st[s]]
        /\ cancelled' \subseteq Seqs /\ failed' \in BOOLEAN
    BY <1>t, <1>0, <1>2 DEF Cow, SeqInv, SeqTypes
  <2>2. PICK t : table' = [table EXCEPT ![s] = t]
    BY <1>2 DEF Cow
  <2>3. SeqInv'
    BY <1>t, <1>0, <2>1, <2>2, QuietSequence DEF PoolInv
  <2>4. RaceInv'
    <3>1. hand = {} /\ UNCHANGED <<leaving, owed, hand>> /\ s \notin leaving
      BY <1>2 DEF Cow, Turn
    <3>2. suspect \subseteq suspect' /\ suspect' \subseteq Blocks
      BY <1>t, <1>2 DEF Cow, RaceInv, RaceTypes
    <3> QED BY <1>t, <1>0, <1>r, <2>1, <2>2, <3>1, <3>2 DEF RaceInv, RaceTypes
  <2>5. QED BY <1>2, <2>3, <2>4, CowStep, IndInvPartsPrime
<1>3. CASE Insert(s)
  <2>1. /\ UNCHANGED <<toks, plen, cachedLen, table>>
        /\ st[s] = "prefilled" /\ st' = [st EXCEPT ![s] = "sampled"]
        /\ cancelled' \subseteq Seqs /\ failed' \in BOOLEAN
    BY <1>t, <1>3 DEF Insert, SeqInv, SeqTypes
  <2>2. "sampled" \in Status /\ "sampled" \in Computed
    BY DEF Status, Computed
  <2>3. SeqInv'
    BY <1>t, <1>0, <2>1, <2>2, QuietSequence DEF PoolInv
  <2>4. RaceInv'
    <3>1. hand = {} /\ UNCHANGED <<leaving, owed, hand, suspect>>
      BY <1>3 DEF Insert, InRun, race
    <3> QED BY <1>t, <1>0, <1>m, <1>r, <2>1, <2>2, <3>1 DEF RaceInv, RaceTypes
  <2>5. QED BY <1>3, <2>3, <2>4, InsertStep, IndInvPartsPrime
<1>4. CASE SkipFinished(s)
  <2>1. /\ UNCHANGED <<ref, free, page, tree, toks, plen, cachedLen, table>>
        /\ st[s] # "new" /\ st' = [st EXCEPT ![s] = "done"]
        /\ cancelled' \subseteq Seqs /\ failed' \in BOOLEAN
        /\ hand = {} /\ UNCHANGED <<leaving, owed, hand, suspect>>
    BY <1>t, <1>4 DEF SkipFinished, Running, Computed, pool, race, SeqInv, SeqTypes
  <2>2. "done" \in Status
    BY DEF Status
  <2>3. SeqInv'
    BY <1>t, <1>0, <2>1, <2>2, QuietSequence DEF PoolInv
  <2>4. PoolInv'
    BY <1>t, <2>1, PoolUnchanged
  <2>5. RaceInv'
    BY <1>t, <1>0, <1>m, <1>r, <2>1, <2>2 DEF RaceInv, RaceTypes
  <2>6. QED BY <2>3, <2>4, <2>5, IndInvPartsPrime
<1>5. CASE OutOfPages(s) \/ ForwardRaises
  <2>1. /\ UNCHANGED <<ref, free, page, tree, table, toks, plen, cachedLen, st, cancelled>>
        /\ failed' \in BOOLEAN
        /\ hand = {} /\ UNCHANGED <<leaving, owed, hand, suspect>>
    BY <1>5 DEF OutOfPages, ForwardRaises, Turn, pool, race
  <2>2. PoolInv'
    BY <1>t, <2>1, PoolUnchanged
  <2>3. SeqInv'
    BY <1>t, <2>1 DEF SeqInv, SeqTypes, Lengths, Prompt
  <2>4. RaceInv'
    <3>1. \A y \in leaving : st'[y] # "new" /\ PagesOf(table'[y]) \subseteq suspect
      BY <1>t, <2>1 DEF RaceInv, RaceMarked
    <3> QED BY <1>t, <2>1, <3>1, RaceKept DEF RaceInv, RaceTypes
  <2>5. QED BY <2>2, <2>3, <2>4, IndInvPartsPrime
<1>6. QED BY <1>1, <1>2, <1>3, <1>4, <1>5

-----------------------------------------------------------------------------
(* A cancel and a copy taken apart                                           *)

\* What the marks promise about a copy under way.
CopyMarked(h) ==
  /\ h.blk \in suspect
  /\ h.stage = "checked" /\ h.blk \notin free => ref[h.blk] > 0
  /\ WriteIndex(h.seq) \in DOMAIN table[h.seq] => table[h.seq][WriteIndex(h.seq)] \in suspect

(* RaceInv, one copy and one cancel at a time.                               *)
LEMMA RaceParts ==
  RaceInv <=> /\ RaceTypes
              /\ leaving # {} => suspect # {}
              /\ \A s \in Seqs : owed[s] \subseteq suspect
              /\ \A s \in leaving : st[s] # "new" /\ PagesOf(table[s]) \subseteq suspect
              /\ \A h \in hand : CopyMarked(h)
BY DEF RaceInv, RaceMarked, CopyMarked

(* RaceParts in the next state.                                              *)
LEMMA RacePartsPrime ==
  RaceInv' <=> /\ RaceTypes'
               /\ leaving' # {} => suspect' # {}
               /\ \A s \in Seqs : owed'[s] \subseteq suspect'
               /\ \A s \in leaving' : st'[s] # "new" /\ PagesOf(table'[s]) \subseteq suspect'
               /\ \A h \in hand' : CopyMarked(h)'
BY DEF RaceInv, RaceMarked, CopyMarked

(* More suspect pages, everything else about pages and lists unchanged.      *)
LEMMA PoolMoreSuspect ==
  ASSUME PoolInv, UNCHANGED <<ref, free, page, tree, table>>, suspect \subseteq suspect'
  PROVE  PoolInv'
<1>1. PoolTypes' /\ FreeUncounted'
  BY DEF PoolInv, PoolTypes, FreeUncounted
<1>2. ListsDistinct'
  BY DEF PoolInv, ListsDistinct, Distinct
<1>3. RefCountsExact'
  BY DEF PoolInv, RefCountsExact, SeqHolders, NodeHolders
<1> QED BY <1>1, <1>2, <1>3 DEF PoolInv

(* The cancel finds the table non-empty: every page it lists is suspect.     *)
LEMMA CancelBeginsStep ==
  ASSUME IndInv, NEW s \in Seqs, CancelBegins(s)
  PROVE  IndInv'
<1>t. PoolInv /\ SeqInv /\ RaceInv
  BY IndInvParts
<1>1. /\ UNCHANGED <<ref, free, page, tree, table, toks, plen, cachedLen, failed, hand>>
      /\ leaving' = leaving \cup {s} /\ owed' = [owed EXCEPT ![s] = PagesOf(table[s])]
      /\ suspect' = suspect \cup PagesOf(table[s]) /\ cancelled' = cancelled \cup {s}
      /\ st[s] \notin {"new", "done"} /\ table[s] # <<>>
      /\ st' = IF InStep(s) THEN st ELSE [st EXCEPT ![s] = "done"]
  BY DEF CancelBegins, pool
<1>2. PoolInv'
  BY <1>t, <1>1, PoolMoreSuspect
<1>3. table[s] \in Seq(Blocks) /\ PagesOf(table[s]) \subseteq Blocks
  BY <1>t, PagesOfType DEF PoolInv, PoolTypes
<1>4. PagesOf(table[s]) # {}
  <2>1. Len(table[s]) \in Nat /\ Len(table[s]) # 0 /\ DOMAIN table[s] = 1..Len(table[s])
    BY <1>1, <1>3
  <2>2. 1 \in DOMAIN table[s]
    BY <2>1
  <2> QED BY <2>2 DEF PagesOf
<1>5. st' = [st EXCEPT ![s] = st'[s]] /\ st'[s] \in {st[s], "done"}
  BY <1>t, <1>1 DEF SeqInv, SeqTypes
<1>6. SeqInv'
  <2>1. SeqTypes'
    BY <1>t, <1>1, <1>5 DEF SeqInv, SeqTypes, Status
  <2>2. Lengths'
    BY <1>t, <1>1, <1>5 DEF SeqInv, SeqTypes, Lengths, Prompt
  <2> QED BY <2>1, <2>2 DEF SeqInv
<1>7. RaceInv'
  <2>1. RaceTypes'
    BY <1>t, <1>1, <1>3 DEF RaceInv, RaceTypes
  <2>2. leaving' # {} => suspect' # {}
    BY <1>1, <1>4
  <2>3. \A r \in Seqs : owed'[r] \subseteq suspect'
    BY <1>t, <1>1 DEF RaceInv, RaceTypes, RaceMarked
  <2>4. \A r \in leaving' : st'[r] # "new" /\ PagesOf(table'[r]) \subseteq suspect'
    BY <1>t, <1>1, <1>5 DEF RaceInv, RaceTypes, RaceMarked, SeqInv, SeqTypes
  <2>5. \A h \in hand' : CopyMarked(h)'
    BY <1>t, <1>1, RaceParts DEF CopyMarked, WriteIndex
  <2> QED BY <2>1, <2>2, <2>3, <2>4, <2>5, RacePartsPrime
<1> QED BY <1>2, <1>6, <1>7, IndInvPartsPrime

(* One suspect page is released: no other count changes.                     *)
LEMMA CancelReleasesStep ==
  ASSUME IndInv, NEW s \in Seqs, NEW b \in Blocks, CancelReleases(s, b)
  PROVE  IndInv'
<1>t. PoolInv /\ SeqInv /\ RaceInv
  BY IndInvParts
<1> DEFINE S == {b}
<1>1. /\ b \in owed[s] /\ ref' = RefsReleased(S) /\ free' = FreeReleased(S)
      /\ page' = PagesReleased(S) /\ owed' = [owed EXCEPT ![s] = @ \ {b}]
      /\ UNCHANGED <<tree, table, toks, plen, cachedLen, st, cancelled, failed, leaving, hand, suspect>>
  BY DEF CancelReleases
<1>2. S \in SUBSET Blocks
  OBVIOUS
<1>3. b \in suspect
  BY <1>t, <1>1 DEF RaceInv, RaceMarked
<1> HIDE DEF S
<1>4. PoolTypes'
  <2>1. ref' \in [Blocks -> Nat] /\ free' \subseteq Blocks
    BY <1>t, <1>1, <1>2 DEF PoolInv, PoolTypes, RefsReleased, FreeReleased, FreedBy
  <2>2. page' \in [Blocks -> [Slots -> Seq(Tokens)]]
    BY <1>t, <1>1, ReleasedPageType DEF PoolInv, PoolTypes
  <2> QED BY <1>t, <1>1, <2>1, <2>2 DEF PoolInv, PoolTypes
<1>5. FreeUncounted'
  BY <1>t, <1>1, <1>2 DEF PoolInv, PoolTypes, FreeUncounted, RefsReleased, FreeReleased, FreedBy
<1>6. ListsDistinct'
  BY <1>t, <1>1 DEF PoolInv, ListsDistinct
<1>7. RefCountsExact'
  <2>1. \A c \in Blocks \ suspect : ref'[c] = ref[c]
    BY <1>1, <1>3 DEF RefsReleased, FreedBy, S
  <2> QED BY <1>t, <1>1, <2>1 DEF PoolInv, RefCountsExact, SeqHolders, NodeHolders
<1>8. SeqInv'
  BY <1>t, <1>1 DEF SeqInv, SeqTypes, Lengths, Prompt
<1>9. RaceInv'
  <2>1. owed' \in [Seqs -> SUBSET Blocks] /\ \A r \in Seqs : owed'[r] \subseteq owed[r]
    BY <1>t, <1>1 DEF RaceInv, RaceTypes
  <2>2. \A r \in leaving' : st'[r] # "new"
    BY <1>t, <1>1 DEF RaceInv, RaceMarked
  <2> QED BY <1>1, <1>2, <2>1, <2>2, RaceReleased
<1> QED BY <1>4, <1>5, <1>6, <1>7, <1>8, <1>9, IndInvPartsPrime DEF PoolInv

(* The list a cancel drops names suspect pages only.                         *)
LEMMA CancelClearsStep ==
  ASSUME IndInv, NEW s \in Seqs, CancelClears(s)
  PROVE  IndInv'
<1>t. PoolInv /\ SeqInv /\ RaceInv
  BY IndInvParts
<1>1. /\ s \in leaving /\ table' = [table EXCEPT ![s] = <<>>] /\ leaving' = leaving \ {s}
      /\ UNCHANGED <<ref, free, page, tree, toks, plen, cachedLen, st, cancelled, failed, owed, hand, suspect>>
  BY DEF CancelClears, pool
<1>2. PagesOf(table[s]) \subseteq suspect /\ PagesOf(<<>>) = {}
  BY <1>t, <1>1 DEF RaceInv, RaceMarked, PagesOf
<1>3. \A r \in Seqs : table'[r] = IF r = s THEN <<>> ELSE table[r]
  BY <1>t, <1>1 DEF PoolInv, PoolTypes
<1>4. PoolTypes' /\ FreeUncounted'
  BY <1>t, <1>1 DEF PoolInv, PoolTypes, FreeUncounted
<1>5. ListsDistinct'
  <2>1. Distinct(<<>>, suspect)
    BY DEF Distinct
  <2> QED BY <1>t, <1>1, <1>3, <2>1 DEF PoolInv, ListsDistinct
<1>6. RefCountsExact'
  <2>1. ASSUME NEW b \in Blocks \ suspect PROVE SeqHolders(b)' = SeqHolders(b)
    BY <1>2, <1>3 DEF SeqHolders
  <2>2. \A b \in Blocks \ suspect : NodeHolders(b)' = NodeHolders(b)
    BY <1>1 DEF NodeHolders
  <2> QED BY <1>t, <1>1, <2>1, <2>2 DEF PoolInv, RefCountsExact
<1>7. SeqInv'
  <2>1. SeqTypes'
    BY <1>t, <1>1 DEF SeqInv, SeqTypes
  <2>2. Lengths'
    BY <1>t, <1>1, <1>3 DEF SeqInv, Lengths, Prompt
  <2> QED BY <2>1, <2>2 DEF SeqInv
<1>8. RaceInv'
  <2>1. RaceTypes' /\ (leaving' # {} => suspect' # {}) /\ \A r \in Seqs : owed'[r] \subseteq suspect'
    BY <1>t, <1>1 DEF RaceInv, RaceTypes, RaceMarked
  <2>2. \A r \in leaving' : st'[r] # "new" /\ PagesOf(table'[r]) \subseteq suspect'
    BY <1>t, <1>1, <1>3 DEF RaceInv, RaceTypes, RaceMarked
  <2>3. ASSUME NEW h \in hand' PROVE CopyMarked(h)'
    <3>1. h.seq \in Seqs /\ CopyMarked(h) /\ WriteIndex(h.seq)' = WriteIndex(h.seq)
      BY <1>t, <1>1, RaceParts DEF RaceTypes, WriteIndex
    <3>2. table'[h.seq] = table[h.seq] \/ table'[h.seq] = <<>>
      BY <1>3, <3>1
    <3>3. DOMAIN <<>> = {}
      OBVIOUS
    <3> QED BY <1>1, <3>1, <3>2, <3>3 DEF CopyMarked
  <2> QED BY <2>1, <2>2, <2>3, RacePartsPrime
<1> QED BY <1>4, <1>5, <1>6, <1>7, <1>8, IndInvPartsPrime DEF PoolInv

(* A copy is only taken apart on a page that a cancel is releasing.          *)
LEMMA CowChecksStep ==
  ASSUME IndInv, NEW s \in Seqs, CowChecks(s)
  PROVE  IndInv'
<1>t. PoolInv /\ SeqInv /\ RaceInv
  BY IndInvParts
<1> DEFINE w == WriteIndex(s)
           old == table[s][WriteIndex(s)]
<1>1. /\ UNCHANGED <<ref, free, page, tree, table, toks, plen, cachedLen, st, cancelled, failed,
                     leaving, owed, suspect>>
      /\ w \in DOMAIN table[s] /\ ref[old] > 1
      /\ s \in leaving \/ \E r \in leaving : old \in owed[r]
      /\ hand' = {[seq |-> s, stage |-> "checked", blk |-> old]}
  BY DEF CowChecks, WriteShared, pool
<1>2. old \in Blocks /\ old \in PagesOf(table[s])
  BY <1>t, <1>1 DEF PoolInv, PoolTypes, PagesOf
<1>3. old \in suspect
  BY <1>t, <1>1, <1>2 DEF RaceInv, RaceTypes, RaceMarked
<1>4. PoolInv'
  BY <1>t, <1>1, PoolUnchanged
<1>5. SeqInv'
  BY <1>t, <1>1 DEF SeqInv, SeqTypes, Lengths, Prompt
<1>6. RaceInv'
  <2>1. RaceTypes'
    BY <1>t, <1>1, <1>2 DEF RaceInv, RaceTypes
  <2>2. /\ leaving' # {} => suspect' # {}
        /\ \A r \in Seqs : owed'[r] \subseteq suspect'
        /\ \A r \in leaving' : st'[r] # "new" /\ PagesOf(table'[r]) \subseteq suspect'
    BY <1>t, <1>1 DEF RaceInv, RaceMarked
  <2>3. ASSUME NEW h \in hand' PROVE CopyMarked(h)'
    <3>1. h.seq = s /\ h.stage = "checked" /\ h.blk = old
      BY <1>1
    <3>2. WriteIndex(h.seq)' = w
      BY <1>1, <3>1 DEF WriteIndex
    <3>3. h.blk \in suspect'
      BY <1>1, <1>3, <3>1
    <3>4. ref'[h.blk] > 0
      <4>1. ref[old] \in Nat
        BY <1>t, <1>2 DEF PoolInv, PoolTypes
      <4> QED BY <1>1, <3>1, <4>1
    <3>5. table'[h.seq][WriteIndex(h.seq)'] \in suspect'
      BY <1>1, <1>3, <3>1, <3>2
    <3> QED BY <3>3, <3>4, <3>5 DEF CopyMarked
  <2> QED BY <2>1, <2>2, <2>3, RacePartsPrime
<1> QED BY <1>4, <1>5, <1>6, IndInvPartsPrime

(* The page a copy takes is suspect from then on, and so was the old one.    *)
LEMMA CowTakesStep ==
  ASSUME IndInv, NEW h \in hand, CowTakes(h)
  PROVE  IndInv'
<1>t. PoolInv /\ SeqInv /\ RaceInv
  BY IndInvParts
<1>0. h.seq \in Seqs /\ h.blk \in Blocks /\ CopyMarked(h)
  BY <1>t, RaceParts DEF RaceTypes
<1>1. PICK v \in Victims, b \in Blocks :
        /\ CanTake(v, b)
        /\ ref' = IF h.blk \in FreeReleased(Dropped(v)) THEN RefsTaken(v, b)
                  ELSE [RefsTaken(v, b) EXCEPT ![h.blk] = @ - 1]
        /\ free' = FreeTaken(v, b)
        /\ page' = [PagesReleased(Dropped(v)) EXCEPT ![b] = PagesReleased(Dropped(v))[h.blk]]
        /\ tree' = TreeWithout(v)
        /\ hand' = {[h EXCEPT !.stage = "taken", !.blk = b]}
        /\ suspect' = suspect \cup {b}
  BY DEF CowTakes
<1>2. /\ h.stage = "checked"
      /\ UNCHANGED <<table, toks, plen, cachedLen, st, cancelled, failed, leaving, owed>>
  BY DEF CowTakes
<1> DEFINE R == RefsReleased(Dropped(v))
           F == FreeReleased(Dropped(v))
<1>3. /\ R \in [Blocks -> Nat] /\ F \subseteq Blocks
      /\ \A c \in F : R[c] = 0
      /\ \A c \in Blocks \ suspect : R[c] = Held(table, TreeWithout(v), c)
      /\ \A n \in Paths : Distinct(TreeWithout(v)[n].blocks, suspect)
      /\ TreeWithout(v) \in [Paths -> Node]
  BY EvictCounts
<1>4. Dropped(v) \subseteq Blocks
  BY <1>t, PagesOfType DEF Dropped, Victims, Candidates, PoolInv, PoolTypes, Node
<1>5. b \in F /\ ref' = [c \in Blocks |-> IF c = b THEN 1
                                          ELSE IF c = h.blk /\ h.blk \notin F THEN R[c] - 1
                                          ELSE R[c]]
  <2>1. b \in F
    BY <1>1 DEF CanTake
  <2> QED BY <1>0, <1>1, <1>3, <2>1 DEF RefsTaken
<1>6. h.blk \notin F => R[h.blk] > 0
  <2>1. ref \in [Blocks -> Nat]
    BY <1>t DEF PoolInv, PoolTypes
  <2> QED BY <1>0, <1>2, <2>1 DEF CopyMarked, RefsReleased, FreeReleased, FreedBy
<1>7. /\ ref' \in [Blocks -> Nat] /\ free' \subseteq Blocks
      /\ \A c \in free' : ref'[c] = 0
      /\ \A c \in Blocks \ suspect' : ref'[c] = R[c]
  <2>1. free' = F \ {b}
    BY <1>1 DEF FreeTaken
  <2>2. h.blk \in suspect
    BY <1>0 DEF CopyMarked
  <2>3. ASSUME NEW c \in Blocks PROVE ref'[c] \in Nat
    <3>1. R[c] \in Nat /\ ref'[c] = IF c = b THEN 1
                                     ELSE IF c = h.blk /\ h.blk \notin F THEN R[c] - 1 ELSE R[c]
      BY <1>3, <1>5
    <3> HIDE DEF R, F
    <3> QED BY <1>6, <3>1
  <2>4. ref' \in [Blocks -> Nat]
    <3>1. ref' = [c \in Blocks |-> ref'[c]]
      BY <1>5
    <3> QED BY <2>3, <3>1
  <2> HIDE DEF R, F
  <2>5. \A c \in F \ {b} : ref'[c] = 0
    BY <1>3, <1>5
  <2>6. \A c \in Blocks \ suspect' : ref'[c] = R[c]
    BY <1>1, <1>5, <2>2
  <2> QED BY <1>3, <2>1, <2>4, <2>5, <2>6
<1>8. page' \in [Blocks -> [Slots -> Seq(Tokens)]]
  <2>1. PagesReleased(Dropped(v)) \in [Blocks -> [Slots -> Seq(Tokens)]]
    BY <1>t, ReleasedPageType DEF PoolInv, PoolTypes
  <2> QED BY <1>0, <1>1, <2>1
<1>9. PoolInv'
  <2>1. PoolTypes'
    BY <1>t, <1>1, <1>2, <1>3, <1>7, <1>8 DEF PoolInv, PoolTypes
  <2>2. FreeUncounted'
    BY <1>7 DEF FreeUncounted
  <2>3. ListsDistinct'
    BY <1>t, <1>1, <1>2, <1>3 DEF PoolInv, ListsDistinct, Distinct
  <2>4. RefCountsExact'
    <3>1. \A c \in Blocks \ suspect' : ref'[c] = Held(table', tree', c)
      BY <1>1, <1>2, <1>3, <1>7
    <3> QED BY <3>1, HeldIsRefPrime
  <2> QED BY <2>1, <2>2, <2>3, <2>4 DEF PoolInv
<1>10. SeqInv'
  BY <1>t, <1>2 DEF SeqInv, SeqTypes, Lengths, Prompt
<1>11. RaceInv'
  <2>1. PICK k : k = [h EXCEPT !.stage = "taken", !.blk = b]
    OBVIOUS
  <2>2. k.seq = h.seq /\ k.stage = "taken" /\ k.blk = b
        /\ k \in [seq : Seqs, stage : {"checked", "taken"}, blk : Blocks]
    BY <1>t, <1>0, <2>1 DEF RaceInv, RaceTypes
  <2>3. hand' = {k}
    BY <1>1, <2>1
  <2>4. RaceTypes'
    BY <1>t, <1>1, <1>2, <2>2, <2>3 DEF RaceInv, RaceTypes
  <2>5. /\ leaving' # {} => suspect' # {}
        /\ \A r \in Seqs : owed'[r] \subseteq suspect'
        /\ \A r \in leaving' : st'[r] # "new" /\ PagesOf(table'[r]) \subseteq suspect'
    BY <1>t, <1>1, <1>2 DEF RaceInv, RaceMarked
  <2>6. CopyMarked(k)'
    <3>1. WriteIndex(h.seq)' = WriteIndex(h.seq)
      BY <1>2 DEF WriteIndex
    <3> QED BY <1>0, <1>1, <1>2, <2>2, <3>1 DEF CopyMarked
  <2> QED BY <2>3, <2>4, <2>5, <2>6, RacePartsPrime
<1> QED BY <1>9, <1>10, <1>11, IndInvPartsPrime

(* The entry a copy replaces and the page it stores are both suspect.        *)
LEMMA CowStoresStep ==
  ASSUME IndInv, NEW h \in hand, CowStores(h)
  PROVE  IndInv'
<1>t. PoolInv /\ SeqInv /\ RaceInv
  BY IndInvParts
<1>0. h.seq \in Seqs /\ h.blk \in Blocks /\ CopyMarked(h)
  BY <1>t, RaceParts DEF RaceTypes
<1>1. PICK s \in Seqs : s = h.seq
  BY <1>0
<1>2. PICK w : w = WriteIndex(s)
  OBVIOUS
<1>3. PICK b \in Blocks : b = h.blk
  BY <1>0
<1>4. /\ w \in DOMAIN table[s] /\ table' = [table EXCEPT ![s][w] = b]
      /\ owed' = IF table[s][w] \in owed[s]
                 THEN [owed EXCEPT ![s] = (@ \ {table[s][w]}) \cup {b}] ELSE owed
      /\ hand' = {}
      /\ UNCHANGED <<ref, free, page, tree, toks, plen, cachedLen, st, cancelled, failed, leaving, suspect>>
  BY <1>1, <1>2, <1>3 DEF CowStores, pool
<1>5. b \in suspect /\ table[s][w] \in suspect
  BY <1>0, <1>1, <1>2, <1>3, <1>4 DEF CopyMarked
<1>6. PICK t : t = table[s]
  OBVIOUS
<1>7. t \in Seq(Blocks) /\ table \in [Seqs -> Seq(Blocks)]
  BY <1>t, <1>6 DEF PoolInv, PoolTypes
<1>8. PICK u : u = [t EXCEPT ![w] = b]
  OBVIOUS
<1>9. u \in Seq(Blocks) /\ DOMAIN u = DOMAIN t /\ \A i \in DOMAIN t : u[i] = IF i = w THEN b ELSE t[i]
  BY <1>4, <1>6, <1>7, <1>8
<1>10. \A r \in Seqs : table'[r] = IF r = s THEN u ELSE table[r]
  BY <1>4, <1>6, <1>7, <1>8
<1>11. \A c \in Blocks \ suspect : c \in PagesOf(u) <=> c \in PagesOf(t)
  BY <1>4, <1>5, <1>6, <1>9 DEF PagesOf
<1>12. PoolInv'
  <2>1. PoolTypes' /\ FreeUncounted'
    BY <1>t, <1>4, <1>6, <1>7, <1>8, <1>9 DEF PoolInv, PoolTypes, FreeUncounted
  <2>2. ListsDistinct'
    <3>1. Distinct(t, suspect)
      BY <1>t, <1>6 DEF PoolInv, ListsDistinct
    <3>2. Distinct(u, suspect)
      BY <1>5, <1>9, <3>1 DEF Distinct
    <3> QED BY <1>t, <1>4, <1>10, <3>2 DEF PoolInv, ListsDistinct
  <2>3. RefCountsExact'
    <3>1. ASSUME NEW c \in Blocks \ suspect PROVE SeqHolders(c)' = SeqHolders(c)
      BY <1>6, <1>10, <1>11 DEF SeqHolders
    <3>2. \A c \in Blocks \ suspect : NodeHolders(c)' = NodeHolders(c)
      BY <1>4 DEF NodeHolders
    <3> QED BY <1>t, <1>4, <3>1, <3>2 DEF PoolInv, RefCountsExact
  <2> QED BY <2>1, <2>2, <2>3 DEF PoolInv
<1>13. SeqInv'
  <2>1. SeqTypes'
    BY <1>t, <1>4 DEF SeqInv, SeqTypes
  <2>2. t # <<>>
    BY <1>4, <1>6
  <2>3. Lengths'
    BY <1>t, <1>4, <1>6, <1>10, <2>2 DEF SeqInv, Lengths, Prompt
  <2> QED BY <2>1, <2>3 DEF SeqInv
<1>14. RaceInv'
  <2>1. RaceTypes'
    BY <1>t, <1>4 DEF RaceInv, RaceTypes
  <2>2. (leaving' # {} => suspect' # {}) /\ \A r \in Seqs : owed'[r] \subseteq suspect'
    BY <1>t, <1>4, <1>5 DEF RaceInv, RaceTypes, RaceMarked
  <2>3. PagesOf(u) \subseteq PagesOf(t) \cup {b}
    BY <1>9 DEF PagesOf
  <2>4. \A r \in leaving' : st'[r] # "new" /\ PagesOf(table'[r]) \subseteq suspect'
    BY <1>t, <1>4, <1>5, <1>6, <1>10, <2>3 DEF RaceInv, RaceTypes, RaceMarked
  <2> QED BY <1>4, <2>1, <2>2, <2>4, RacePartsPrime
<1> QED BY <1>12, <1>13, <1>14, IndInvPartsPrime

(* A copy that fails leaves pages and lists as they are.                     *)
LEMMA CowRaisesStep ==
  ASSUME IndInv, NEW h \in hand, CowRaises(h)
  PROVE  IndInv'
<1>t. PoolInv /\ SeqInv /\ RaceInv
  BY IndInvParts
<1>1. /\ UNCHANGED <<ref, free, page, tree, table, toks, plen, cachedLen, st, cancelled, leaving, owed, suspect>>
      /\ hand' = {} /\ failed' = TRUE
  BY DEF CowRaises, pool
<1>2. PoolInv'
  BY <1>t, <1>1, PoolUnchanged
<1>3. SeqInv'
  BY <1>t, <1>1 DEF SeqInv, SeqTypes, Lengths, Prompt
<1>4. RaceInv'
  BY <1>t, <1>1 DEF RaceInv, RaceTypes, RaceMarked
<1> QED BY <1>2, <1>3, <1>4, IndInvPartsPrime

-----------------------------------------------------------------------------
(* The empty pool satisfies the invariant.                                   *)
LEMMA InitIndInv == Init => IndInv
<1> SUFFICES ASSUME Init PROVE IndInv
  OBVIOUS
<1>1. PoolTypes
  <2>1. ZeroPage \in [Slots -> Seq(Tokens)]
    BY DEF ZeroPage
  <2>2. AbsentNode \in Node
    BY DEF AbsentNode, Node
  <2>3. QED BY <2>1, <2>2 DEF Init, PoolTypes
<1>2. ListsDistinct /\ FreeUncounted
  BY DEF Init, ListsDistinct, FreeUncounted, Distinct, AbsentNode
<1>3. \A b \in Blocks : SeqHolders(b) = {} /\ NodeHolders(b) = {}
  BY DEF Init, SeqHolders, NodeHolders, PagesOf, AbsentNode
<1>4. RefCountsExact
  <2>1. Cardinality({}) = 0
    BY FS_EmptySet
  <2>2. ASSUME NEW b \in Blocks
        PROVE  Cardinality(SeqHolders(b)) = 0 /\ Cardinality(NodeHolders(b)) = 0
    BY <1>3, <2>1
  <2>3. \A b \in Blocks : ref[b] = 0
    BY DEF Init
  <2>4. QED BY <2>2, <2>3 DEF RefCountsExact
<1>5. SeqInv
  <2>1. <<>> \in Seq(Tokens) /\ "new" \in Status /\ Len(<<>>) = 0
    BY DEF Status
  <2>2. SeqTypes
    BY <2>1 DEF Init, SeqTypes, Status
  <2>3. Lengths
    BY <2>1 DEF Init, Lengths
  <2>4. QED BY <2>2, <2>3 DEF SeqInv
<1>6. RaceInv
  BY DEF Init, RaceInv, RaceTypes, RaceMarked
<1>7. QED BY <1>1, <1>2, <1>4, <1>5, <1>6, IndInvParts DEF PoolInv

(* Every action preserves the invariant: one case per operation of the code. *)
LEMMA NextIndInv == IndInv /\ [Next]_vars => IndInv'
<1> SUFFICES ASSUME IndInv, [Next]_vars PROVE IndInv'
  OBVIOUS
<1>1. CASE UNCHANGED vars
  BY <1>1 DEF vars, IndInv, TypeOK, Lengths, Prompt, ListsDistinct, FreeUncounted,
              RefCountsExact, SeqHolders, NodeHolders, RaceMarked, WriteIndex
<1>2. ASSUME NEW s \in Seqs, NEW p \in Prompts, AddRequest(s, p) PROVE IndInv'
  BY <1>2, AddRequestStep
<1>3. ASSUME NEW s \in Seqs, PrefillForward(s) \/ DecodeForward(s) PROVE IndInv'
  BY <1>3, ForwardStep
<1>4. ASSUME NEW s \in Seqs, FinishFailed(s) \/ FinishTwice(s) \/ Cancel(s) \/ CancelMidStep(s) PROVE IndInv'
  BY <1>4, FinishStep
<1>5. ASSUME NEW s \in Seqs, NEW t \in OutTokens, Emit(s, t) PROVE IndInv'
  BY <1>5, EmitStep
<1>6. ASSUME NEW s \in Seqs,
             EnsurePage(s) \/ Cow(s) \/ Insert(s) \/ SkipFinished(s) \/ OutOfPages(s)
      PROVE  IndInv'
  BY <1>6, QuietStep
<1>7. ASSUME NEW W \in SUBSET Seqs, StartStep(W) PROVE IndInv'
  BY <1>7, StartStepStep
<1>8. CASE ForwardRaises
  <2>1. PICK s \in Seqs : TRUE
    BY <1>8 DEF ForwardRaises, InRun
  <2>2. QED BY <1>8, <2>1, QuietStep
<1>9. ASSUME NEW s \in Seqs, CancelBegins(s) \/ CancelClears(s) \/ CowChecks(s) PROVE IndInv'
  BY <1>9, CancelBeginsStep, CancelClearsStep, CowChecksStep
<1>10. ASSUME NEW s \in Seqs, NEW b \in Blocks, CancelReleases(s, b) PROVE IndInv'
  BY <1>10, CancelReleasesStep
<1>11. ASSUME NEW h \in hand, CowTakes(h) \/ CowStores(h) \/ CowRaises(h) PROVE IndInv'
  BY <1>11, CowTakesStep, CowStoresStep, CowRaisesStep
<1>12. QED BY <1>1, <1>2, <1>3, <1>4, <1>5, <1>6, <1>7, <1>8, <1>9, <1>10, <1>11 DEF Next

(* IndInv holds in every reachable state, for every pool, page size, set of  *)
(* prompts and set of requests.  Types, counts and free pages follow from    *)
(* it at once; the tree's shape and the tables' need an induction on top.    *)
THEOREM Inductive == Spec => []IndInv
BY InitIndInv, NextIndInv, PTL DEF Spec

(* Every variable of the cache and of the sequences keeps its type.          *)
THEOREM TypeCorrect == Spec => []TypeOK
<1>1. IndInv => TypeOK
  BY DEF IndInv
<1>2. QED BY <1>1, Inductive, PTL

(* For every pool size, page size, prompt set and number of requests, the    *)
(* count of a page is exactly the number of block tables and radix nodes     *)
(* that list it, through sharing, COW, eviction, errors and cancels, unless  *)
(* an overlapping cancel has reached the page: what such a cancel spoils is   *)
(* confined to the pages its sequence had, got or was copying.               *)
THEOREM ReferenceCounts == Spec => []RefCountsExact
<1>1. IndInv => RefCountsExact
  BY DEF IndInv
<1>2. QED BY <1>1, Inductive, PTL

(* No free page is on a list.                                                *)
LEMMA FreeUnheld == IndInv => FreePagesUnheld
<1> SUFFICES ASSUME IndInv, NEW b \in free \ suspect
               PROVE  SeqHolders(b) = {} /\ NodeHolders(b) = {}
  BY DEF FreePagesUnheld
<1>1. b \in Blocks \ suspect
  BY DEF IndInv, TypeOK
<1>2. /\ ~\E s \in Seqs : b \in PagesOf(table[s])
      /\ ~\E n \in Paths : b \in PagesOf(tree[n].blocks)
  BY <1>1, ListedIsCounted
<1> QED BY <1>2 DEF SeqHolders, NodeHolders

(* allocate_blocks never hands out a page that a table or a node lists, but  *)
(* for the pages an overlapping cancel has reached.                          *)
THEOREM FreePages == Spec => []FreePagesUnheld
BY FreeUnheld, Inductive, PTL

-----------------------------------------------------------------------------
(* The radix tree                                                            *)

(* A node is a nonempty list of tokens.                                      *)
LEMMA PathType == \A n \in Paths : n \in Seq(Tokens) /\ Len(n) \in Nat \ {0}
<1> TAKE n \in Paths
<1>0. PICK p \in Prompts : n \in {SubSeq(p, 1, k) : k \in 1..Len(p)}
  BY DEF Paths
<1>1. PICK k \in 1..Len(p) : n = SubSeq(p, 1, k)
  BY <1>0
<1>2. p \in Seq(Tokens) /\ Len(p) \in Nat
  BY PromptAssumption
<1>3. SubSeq(p, 1, k) \in Seq(Tokens) /\ Len(SubSeq(p, 1, k)) = k
  BY <1>2
<1> QED BY <1>1, <1>2, <1>3

(* The parent of a node is a node.                                           *)
LEMMA ParentInPaths ==
  ASSUME NEW n \in Paths, Len(n) > 1
  PROVE  n \in Seq(Tokens) /\ SubSeq(n, 1, Len(n) - 1) \in Paths
<1>0. PICK p \in Prompts : n \in {SubSeq(p, 1, k) : k \in 1..Len(p)}
  BY DEF Paths
<1>1. PICK k \in 1..Len(p) : n = SubSeq(p, 1, k)
  BY <1>0
<1>2. p \in Seq(Tokens) /\ Len(p) \in Nat
  BY PromptAssumption
<1>3. Len(n) = k
  BY <1>1, <1>2
<1>4. SubSeq(n, 1, k - 1) = SubSeq(p, 1, k - 1) /\ k - 1 \in 1..Len(p)
  BY <1>1, <1>2, <1>3
<1>5. SubSeq(p, 1, k - 1) \in Paths
  BY <1>4 DEF Paths
<1> QED BY <1>3, <1>4, <1>5, PathType

(* evict unlinks a leaf or nothing.                                          *)
LEMMA WithoutClosed ==
  ASSUME IndInv, TreeClosed, NEW v \in Victims, tree' = TreeWithout(v)
  PROVE  TreeClosed'
<1>t. tree \in [Paths -> Node]
  BY DEF IndInv, TypeOK, Node
<1>1. CASE v = NoNode
  BY <1>1 DEF TreeWithout, TreeClosed, Present
<1>2. CASE v # NoNode
  <2>1. v \in Paths /\ Leaf(v) /\ tree' = [tree EXCEPT ![v] = AbsentNode]
    BY <1>2 DEF Victims, Candidates, TreeWithout
  <2>2. \A n \in Paths : Present(n)' => n # v /\ Present(n)
    BY <1>t, <2>1 DEF Present, AbsentNode
  <2>3. \A n \in Paths : n # v /\ Present(n) => Present(n)'
    BY <1>t, <2>1 DEF Present
  <2> SUFFICES ASSUME NEW n \in Paths, Present(n)', Len(n) > 1
               PROVE  Present(SubSeq(n, 1, Len(n) - 1))'
    BY DEF TreeClosed
  <2> DEFINE m == SubSeq(n, 1, Len(n) - 1)
  <2>4. Present(n) /\ Present(m)
    BY <2>2 DEF TreeClosed
  <2>5. n \in Seq(Tokens) /\ m \in Paths
    BY ParentInPaths
  <2>6. Len(m) = Len(n) - 1 /\ Len(n) \in Nat
    BY <2>5
  <2>7. m # v
    <3> SUFFICES ASSUME m = v PROVE FALSE
      OBVIOUS
    <3>1. Len(n) = Len(v) + 1 /\ SubSeq(n, 1, Len(v)) = v
      BY <2>6
    <3> QED BY <2>1, <2>4, <3>1 DEF Leaf
  <2> HIDE DEF m
  <2>8. Present(m)'
    BY <2>3, <2>4, <2>5, <2>7
  <2> QED BY <2>8 DEF m
<1> QED BY <1>1, <1>2

(* insert_path counts the parent of every node it counts.                    *)
LEMMA InsertedClosed ==
  ASSUME IndInv, TreeClosed, NEW p \in Paths, NEW t, tree' = TreeInserted(p, t)
  PROVE  TreeClosed'
<1>t. tree \in [Paths -> Node]
  BY DEF IndInv, TypeOK, Node
<1>1. \A n \in Paths : tree[n].refs \in Nat
  BY <1>t DEF Node
<1>2. \A n \in Paths : tree'[n].refs = IF OnPath(n, p) THEN tree[n].refs + 1 ELSE tree[n].refs
  BY DEF TreeInserted
<1> SUFFICES ASSUME NEW n \in Paths, Present(n)', Len(n) > 1
             PROVE  Present(SubSeq(n, 1, Len(n) - 1))'
  BY DEF TreeClosed
<1> DEFINE m == SubSeq(n, 1, Len(n) - 1)
<1>3. n \in Seq(Tokens) /\ m \in Paths /\ p \in Seq(Tokens)
  BY ParentInPaths, PathType
<1>4. OnPath(n, p) => OnPath(m, p)
  <2> SUFFICES ASSUME OnPath(n, p) PROVE OnPath(m, p)
    OBVIOUS
  <2>1. Len(n) <= Len(p) /\ SubSeq(p, 1, Len(n)) = n /\ Len(n) \in Nat /\ Len(p) \in Nat
    BY <1>3 DEF OnPath
  <2>2. Len(m) = Len(n) - 1
    BY <1>3, <2>1
  <2>3. SubSeq(SubSeq(p, 1, Len(n)), 1, Len(n) - 1) = SubSeq(p, 1, Len(n) - 1)
    BY <1>3, <2>1
  <2> QED BY <2>1, <2>2, <2>3 DEF OnPath
<1> HIDE DEF m
<1>5. OnPath(n, p) \/ Present(n)
  BY <1>2 DEF Present
<1>6. Present(n) => Present(m)
  BY DEF TreeClosed, m
<1>7. OnPath(m, p) \/ Present(m)
  BY <1>4, <1>5, <1>6
<1>8. Present(m)'
  BY <1>1, <1>2, <1>3, <1>7 DEF Present
<1> QED BY <1>8 DEF m

(* A match by walk never finds a node whose parent was evicted.              *)
THEOREM ParentsPresent == Spec => []TreeClosed
<1>1. Init => TreeClosed
  BY DEF Init, TreeClosed, Present, AbsentNode
<1>2. IndInv /\ TreeClosed /\ [Next]_vars => TreeClosed'
  <2> SUFFICES ASSUME IndInv, TreeClosed, [Next]_vars PROVE TreeClosed'
    OBVIOUS
  <2>1. ASSUME tree' = tree PROVE TreeClosed'
    BY <2>1 DEF TreeClosed, Present
  <2>2. ASSUME NEW s \in Seqs, EnsurePage(s) \/ Cow(s) PROVE TreeClosed'
    <3>1. PICK v \in Victims : tree' = TreeWithout(v)
      BY <2>2 DEF EnsurePage, Cow
    <3> QED BY <3>1, WithoutClosed
  <2>3. ASSUME NEW s \in Seqs, Insert(s) PROVE TreeClosed'
    <3>1. Prompt(s) \in Paths
      BY <2>3 DEF IndInv, Lengths, Insert
    <3>2. tree' = TreeInserted(Prompt(s), table[s])
      BY <2>3 DEF Insert
    <3> QED BY <3>1, <3>2, InsertedClosed
  <2>4. CASE UNCHANGED vars
    BY <2>1, <2>4 DEF vars
  <2>5. ASSUME NEW s \in Seqs, NEW p \in Prompts, AddRequest(s, p) PROVE TreeClosed'
    BY <2>1, <2>5 DEF AddRequest
  <2>6. ASSUME NEW s \in Seqs,
               \/ PrefillForward(s) \/ DecodeForward(s) \/ OutOfPages(s) \/ FinishFailed(s)
               \/ SkipFinished(s) \/ Cancel(s) \/ CancelMidStep(s)
        PROVE  TreeClosed'
    BY <2>1, <2>6 DEF PrefillForward, DecodeForward, OutOfPages, FinishFailed, SkipFinished,
                      Cancel, CancelMidStep, pool
  <2>7. ASSUME NEW s \in Seqs, NEW t \in OutTokens, Emit(s, t) PROVE TreeClosed'
    BY <2>1, <2>7 DEF Emit
  <2>8. ASSUME NEW W \in SUBSET Seqs, StartStep(W) PROVE TreeClosed'
    BY <2>1, <2>8 DEF StartStep, pool
  <2>9. CASE ForwardRaises
    BY <2>1, <2>9 DEF ForwardRaises, pool
  <2>10. ASSUME NEW s \in Seqs, \/ CancelBegins(s) \/ CancelClears(s) \/ FinishTwice(s) \/ CowChecks(s)
                               \/ \E b \in Blocks : CancelReleases(s, b)
         PROVE  TreeClosed'
    BY <2>1, <2>10 DEF CancelBegins, CancelClears, FinishTwice, CowChecks, CancelReleases, pool
  <2>11. ASSUME NEW h \in hand, CowTakes(h) PROVE TreeClosed'
    <3>1. PICK v \in Victims : tree' = TreeWithout(v)
      BY <2>11 DEF CowTakes
    <3> QED BY <3>1, WithoutClosed
  <2>12. ASSUME NEW h \in hand, CowStores(h) \/ CowRaises(h) PROVE TreeClosed'
    BY <2>1, <2>12 DEF CowStores, CowRaises, pool
  <2> QED BY <2>2, <2>3, <2>4, <2>5, <2>6, <2>7, <2>8, <2>9, <2>10, <2>11, <2>12 DEF Next
<1> QED BY <1>1, <1>2, Inductive, PTL DEF Spec

-----------------------------------------------------------------------------
(* Block tables and lives                                                    *)

\* TableFollowsLife for one sequence.
Follows(t, c, q, gone) ==
  /\ q \notin {"new", "done"} /\ ~gone => Len(t) >= PagesFor(c)
  /\ q = "done" /\ ~gone => t = <<>>

(* TableFollowsLife, one sequence at a time.                                 *)
LEMMA FollowsParts ==
  TableFollowsLife <=> \A s \in Seqs : Follows(table[s], cachedLen[s], st[s], s \in cancelled)
BY DEF TableFollowsLife, TableCoversCache, DoneHoldsNothing, Follows

(* FollowsParts in the next state.                                           *)
LEMMA FollowsPartsPrime ==
  TableFollowsLife' <=>
    \A s \in Seqs : Follows(table'[s], cachedLen'[s], st'[s], s \in cancelled')
BY DEF TableFollowsLife, TableCoversCache, DoneHoldsNothing, Follows

(* A step that changes the fields of one sequence only.                      *)
LEMMA FollowsOne ==
  ASSUME IndInv, TableFollowsLife, NEW s \in Seqs, NEW t, NEW c, NEW q,
         table' = [table EXCEPT ![s] = t],
         cachedLen' = [cachedLen EXCEPT ![s] = c],
         st' = [st EXCEPT ![s] = q],
         cancelled' \ {s} = cancelled \ {s},
         Follows(t, c, q, s \in cancelled')
  PROVE  TableFollowsLife'
<1>1. DOMAIN table = Seqs /\ DOMAIN cachedLen = Seqs /\ DOMAIN st = Seqs
  BY DEF IndInv, TypeOK
<1>2. ASSUME NEW r \in Seqs PROVE Follows(table'[r], cachedLen'[r], st'[r], r \in cancelled')
  <2>1. CASE r = s
    BY <1>1, <2>1
  <2>2. CASE r # s
    <3>1. /\ table'[r] = table[r] /\ cachedLen'[r] = cachedLen[r] /\ st'[r] = st[r]
          /\ (r \in cancelled') = (r \in cancelled)
      BY <1>1, <2>2
    <3>2. Follows(table[r], cachedLen[r], st[r], r \in cancelled)
      BY FollowsParts
    <3> QED BY <3>1, <3>2
  <2> QED BY <2>1, <2>2
<1> QED BY <1>2, FollowsPartsPrime

(* Nothing cached needs no page.                                             *)
LEMMA NoPages == PagesFor(0) = 0
BY PoolAssumption DEF PagesFor

OnRecord == leaving \subseteq cancelled

(* A sequence whose cancel is under way is on record as cancelled.           *)
LEMMA LeavingCancelled == Spec => []OnRecord
<1>1. Init => OnRecord
  BY DEF Init, OnRecord
<1>2. OnRecord /\ [Next]_vars => OnRecord'
  <2> SUFFICES ASSUME leaving \subseteq cancelled, [Next]_vars PROVE leaving' \subseteq cancelled'
    BY DEF OnRecord
  <2>1. CASE UNCHANGED vars
    BY <2>1 DEF vars
  <2>2. ASSUME NEW s \in Seqs,
               \/ \E p \in Prompts : AddRequest(s, p)
               \/ EnsurePage(s) \/ Cow(s) \/ PrefillForward(s) \/ DecodeForward(s)
               \/ OutOfPages(s) \/ FinishFailed(s) \/ SkipFinished(s) \/ Insert(s)
               \/ \E t \in OutTokens : Emit(s, t)
        PROVE  leaving' \subseteq cancelled'
    BY <2>2 DEF AddRequest, EnsurePage, Cow, PrefillForward, DecodeForward, OutOfPages,
                FinishFailed, SkipFinished, Insert, Emit, race
  <2>3. ASSUME NEW s \in Seqs,
               \/ Cancel(s) \/ CancelMidStep(s) \/ CancelBegins(s) \/ CancelClears(s)
               \/ \E b \in Blocks : CancelReleases(s, b)
               \/ FinishTwice(s) \/ CowChecks(s)
        PROVE  leaving' \subseteq cancelled'
    BY <2>3 DEF Cancel, CancelMidStep, CancelBegins, CancelClears, CancelReleases, FinishTwice,
                CowChecks, race
  <2>4. ASSUME NEW h \in hand, CowTakes(h) \/ CowStores(h) \/ CowRaises(h)
        PROVE  leaving' \subseteq cancelled'
    BY <2>4 DEF CowTakes, CowStores, CowRaises
  <2>5. ASSUME ForwardRaises \/ \E W \in SUBSET Seqs : StartStep(W)
        PROVE  leaving' \subseteq cancelled'
    BY <2>5 DEF ForwardRaises, StartStep, race
  <2> QED BY <2>1, <2>2, <2>3, <2>4, <2>5 DEF Next
<1> QED BY <1>1, <1>2, PTL DEF Spec

(* A block table covers what its sequence has cached while the sequence      *)
(* lives, and is empty once it is over, for every pool and page size.        *)
THEOREM TablesFollowLives == Spec => []TableFollowsLife
<1>1. Init => TableFollowsLife
  BY DEF Init, TableFollowsLife, TableCoversCache, DoneHoldsNothing
<1>2. IndInv /\ OnRecord /\ TableFollowsLife /\ [Next]_vars => TableFollowsLife'
  <2> SUFFICES ASSUME IndInv, leaving \subseteq cancelled, TableFollowsLife, [Next]_vars PROVE TableFollowsLife'
    BY DEF OnRecord
  <2>t. /\ table \in [Seqs -> Seq(Blocks)] /\ cachedLen \in [Seqs -> Nat] /\ plen \in [Seqs -> Nat]
        /\ st \in [Seqs -> Status]
    BY DEF IndInv, TypeOK, Status
  <2>f. \A s \in Seqs : Follows(table[s], cachedLen[s], st[s], s \in cancelled)
    BY FollowsParts
  <2>r. ASSUME NEW s \in Seqs, ReleaseTable(s), cachedLen' = cachedLen, NEW q,
               st' = [st EXCEPT ![s] = q], cancelled' \ {s} = cancelled \ {s},
               q = "done" \/ s \in cancelled'
        PROVE  TableFollowsLife'
    <3>1. /\ table' = [table EXCEPT ![s] = <<>>]
          /\ cachedLen' = [cachedLen EXCEPT ![s] = cachedLen[s]]
      BY <2>t, <2>r DEF ReleaseTable
    <3>2. Follows(<<>>, cachedLen[s], q, s \in cancelled')
      BY <2>r DEF Follows
    <3> QED BY <2>r, <3>1, <3>2, FollowsOne
  <2>1. CASE UNCHANGED vars
    BY <2>1 DEF vars, TableFollowsLife, TableCoversCache, DoneHoldsNothing
  <2>2. ASSUME NEW s \in Seqs, NEW p \in Prompts, AddRequest(s, p) PROVE TableFollowsLife'
    <3>0. /\ st' = [st EXCEPT ![s] = "waiting"] /\ cancelled' = cancelled
          /\ table[s] = <<>> /\ cachedLen[s] = 0
      BY <2>2 DEF AddRequest, IndInv, Lengths
    <3>1. PICK n \in 0..Len(p) :
            \/ /\ Reusable(p, n)
               /\ cachedLen' = [cachedLen EXCEPT ![s] = n]
               /\ table' = [table EXCEPT ![s] = HitBlocks(p, n)]
            \/ UNCHANGED <<cachedLen, table>>
      BY <2>2 DEF AddRequest
    <3>2. CASE /\ Reusable(p, n)
               /\ cachedLen' = [cachedLen EXCEPT ![s] = n]
               /\ table' = [table EXCEPT ![s] = HitBlocks(p, n)]
      <4> DEFINE blks == tree[SubSeq(p, 1, n)].blocks
                 k == PagesFor(n)
                 h == HitBlocks(p, n)
      <4>1. n \in 1..Len(p)
        <5>1. n > 0 /\ Len(p) \in Nat
          BY <3>2, PromptAssumption DEF Reusable
        <5> QED BY <3>1, <5>1
      <4>2. blks \in Seq(Blocks)
        <5>1. SubSeq(p, 1, n) \in Paths
          BY <4>1 DEF Paths
        <5> QED BY <5>1 DEF IndInv, TypeOK
      <4>3. k \in Nat /\ k <= Len(blks)
        <5>1. n \in Nat
          BY <4>1
        <5> QED BY <3>2, <4>2, <5>1, PagesForType DEF Reusable
      <4>4. h = SubSeq(blks, 1, k)
        BY DEF HitBlocks
      <4> HIDE DEF blks, k
      <4>5. Len(h) = k
        BY <4>2, <4>3, <4>4
      <4> HIDE DEF h
      <4>6. Follows(h, n, "waiting", s \in cancelled')
        BY <4>3, <4>5 DEF Follows, k
      <4>7. table' = [table EXCEPT ![s] = h]
        BY <3>2 DEF h
      <4> QED BY <3>0, <3>2, <4>6, <4>7, FollowsOne
    <3>3. CASE UNCHANGED <<cachedLen, table>>
      <4>1. /\ table' = [table EXCEPT ![s] = <<>>] /\ cachedLen' = [cachedLen EXCEPT ![s] = 0]
        BY <2>t, <3>0, <3>3
      <4>2. Follows(<<>>, 0, "waiting", s \in cancelled')
        BY NoPages DEF Follows
      <4> QED BY <3>0, <4>1, <4>2, FollowsOne
    <3> QED BY <3>1, <3>2, <3>3
  <2>3. ASSUME NEW s \in Seqs, EnsurePage(s) PROVE TableFollowsLife'
    <3>1. PICK b \in Blocks : table' = [table EXCEPT ![s] = Append(table[s], b)]
      BY <2>t, <2>3 DEF EnsurePage
    <3>2. /\ st[s] \notin {"new", "done"} /\ st' = [st EXCEPT ![s] = st[s]]
          /\ cachedLen' = [cachedLen EXCEPT ![s] = cachedLen[s]] /\ cancelled' = cancelled
      BY <2>t, <2>3 DEF EnsurePage, NeedsPage, Running
    <3>3. Follows(Append(table[s], b), cachedLen[s], st[s], s \in cancelled')
      <4>1. Len(Append(table[s], b)) = Len(table[s]) + 1 /\ Len(table[s]) \in Nat
        BY <2>t
      <4>2. PagesFor(cachedLen[s]) \in Nat
        BY <2>t, PagesForType
      <4>3. Len(table[s]) >= PagesFor(cachedLen[s]) => Len(Append(table[s], b)) >= PagesFor(cachedLen[s])
        BY <4>1, <4>2
      <4> QED BY <2>f, <3>2, <4>3 DEF Follows
    <3> QED BY <3>1, <3>2, <3>3, FollowsOne
  <2>4. ASSUME NEW s \in Seqs, Cow(s) PROVE TableFollowsLife'
    <3>1. PICK b \in Blocks : table' = [table EXCEPT ![s][WriteIndex(s)] = b]
      BY <2>4 DEF Cow
    <3> DEFINE t == [table[s] EXCEPT ![WriteIndex(s)] = b]
    <3>2. /\ st[s] = "decode" /\ st' = [st EXCEPT ![s] = st[s]]
          /\ cachedLen' = [cachedLen EXCEPT ![s] = cachedLen[s]] /\ cancelled' = cancelled
      BY <2>t, <2>4 DEF Cow
    <3>3. table' = [table EXCEPT ![s] = t] /\ Len(t) = Len(table[s])
      BY <2>t, <3>1
    <3> HIDE DEF t
    <3>4. Follows(t, cachedLen[s], st[s], s \in cancelled')
      BY <2>f, <3>2, <3>3 DEF Follows
    <3> QED BY <3>2, <3>3, <3>4, FollowsOne
  <2>5. ASSUME NEW s \in Seqs, PrefillForward(s) \/ DecodeForward(s) PROVE TableFollowsLife'
    <3>0. table' = [table EXCEPT ![s] = table[s]] /\ cancelled' = cancelled
      BY <2>t, <2>5 DEF PrefillForward, DecodeForward
    <3>1. PICK c, q : /\ cachedLen' = [cachedLen EXCEPT ![s] = c] /\ st' = [st EXCEPT ![s] = q]
                      /\ q \in Computed /\ c \in Nat /\ ~(Len(table[s]) < PagesFor(c))
      BY <2>t, <2>5 DEF PrefillForward, DecodeForward, NeedsPage, Target, Computed, Running
    <3>2. Len(table[s]) >= PagesFor(c)
      <4>1. Len(table[s]) \in Nat /\ PagesFor(c) \in Nat
        BY <2>t, <3>1, PagesForType
      <4> QED BY <3>1, <4>1
    <3>3. Follows(table[s], c, q, s \in cancelled')
      BY <3>1, <3>2 DEF Follows, Computed
    <3> QED BY <3>0, <3>1, <3>3, FollowsOne
  <2>6. ASSUME NEW s \in Seqs, FinishFailed(s) \/ FinishTwice(s) \/ Cancel(s) PROVE TableFollowsLife'
    <3>1. /\ ReleaseTable(s) /\ cachedLen' = cachedLen /\ st' = [st EXCEPT ![s] = "done"]
          /\ cancelled' = cancelled
      BY <2>6 DEF FinishFailed, FinishTwice, Cancel
    <3> QED BY <2>r, <3>1
  <2>7. ASSUME NEW s \in Seqs, CancelMidStep(s) PROVE TableFollowsLife'
    <3>1. /\ ReleaseTable(s) /\ cachedLen' = cachedLen /\ st' = [st EXCEPT ![s] = st[s]]
          /\ cancelled' = cancelled \cup {s}
      BY <2>t, <2>7 DEF CancelMidStep
    <3> QED BY <2>r, <3>1
  <2>8. ASSUME NEW s \in Seqs, NEW t \in OutTokens, Emit(s, t) PROVE TableFollowsLife'
    <3>0. cachedLen' = cachedLen /\ cancelled' = cancelled /\ st[s] = "sampled"
      BY <2>8 DEF Emit
    <3>1. CASE ReleaseTable(s) /\ st' = [st EXCEPT ![s] = "done"]
      BY <2>r, <3>0, <3>1
    <3>2. CASE table' = table /\ st' = [st EXCEPT ![s] = "running"]
      <4>1. /\ table' = [table EXCEPT ![s] = table[s]]
            /\ cachedLen' = [cachedLen EXCEPT ![s] = cachedLen[s]]
        BY <2>t, <3>0, <3>2
      <4>2. Follows(table[s], cachedLen[s], "running", s \in cancelled')
        BY <2>f, <3>0 DEF Follows
      <4> QED BY <3>0, <3>2, <4>1, <4>2, FollowsOne
    <3> QED BY <2>8, <3>1, <3>2 DEF Emit
  <2>9. ASSUME NEW s \in Seqs, Insert(s) \/ SkipFinished(s) PROVE TableFollowsLife'
    <3>1. PICK q : /\ st' = [st EXCEPT ![s] = q]
                   /\ \/ q = "sampled" /\ st[s] = "prefilled"
                      \/ s \in cancelled
      BY <2>9 DEF Insert, SkipFinished
    <3>2. /\ table' = [table EXCEPT ![s] = table[s]]
          /\ cachedLen' = [cachedLen EXCEPT ![s] = cachedLen[s]] /\ cancelled' = cancelled
      BY <2>t, <2>9 DEF Insert, SkipFinished
    <3>3. Follows(table[s], cachedLen[s], q, s \in cancelled')
      BY <2>f, <3>1, <3>2 DEF Follows
    <3> QED BY <3>1, <3>2, <3>3, FollowsOne
  <2>10. ASSUME NEW W \in SUBSET Seqs, StartStep(W) PROVE TableFollowsLife'
    <3>1. table' = table /\ cachedLen' = cachedLen /\ cancelled' = cancelled
      BY <2>10 DEF StartStep
    <3>2. \A s \in Seqs : \/ st'[s] = st[s]
                          \/ st[s] \in {"running", "waiting"} /\ st'[s] \notin {"new", "done"}
      BY <2>10 DEF StartStep
    <3>3. \A s \in Seqs : Follows(table'[s], cachedLen'[s], st'[s], s \in cancelled')
      BY <2>f, <3>1, <3>2 DEF Follows
    <3> QED BY <3>3, FollowsPartsPrime
  <2>11. ASSUME ForwardRaises \/ \E s \in Seqs : OutOfPages(s) PROVE TableFollowsLife'
    BY <2>11 DEF ForwardRaises, OutOfPages, TableFollowsLife, TableCoversCache, DoneHoldsNothing
  <2>12. ASSUME NEW s \in Seqs, CancelBegins(s) PROVE TableFollowsLife'
    <3>1. /\ table' = [table EXCEPT ![s] = table[s]]
          /\ cachedLen' = [cachedLen EXCEPT ![s] = cachedLen[s]] /\ cancelled' = cancelled \cup {s}
          /\ st' = [st EXCEPT ![s] = st'[s]]
      BY <2>t, <2>12 DEF CancelBegins
    <3>2. Follows(table[s], cachedLen[s], st'[s], s \in cancelled')
      BY <3>1 DEF Follows
    <3> QED BY <3>1, <3>2, FollowsOne
  <2>13. ASSUME NEW s \in Seqs, CancelClears(s) PROVE TableFollowsLife'
    <3>1. /\ table' = [table EXCEPT ![s] = <<>>] /\ s \in cancelled
          /\ cachedLen' = [cachedLen EXCEPT ![s] = cachedLen[s]] /\ cancelled' = cancelled
          /\ st' = [st EXCEPT ![s] = st[s]]
      BY <2>t, <2>13 DEF CancelClears
    <3>2. Follows(<<>>, cachedLen[s], st[s], s \in cancelled')
      BY <3>1 DEF Follows
    <3> QED BY <3>1, <3>2, FollowsOne
  <2>14. ASSUME NEW s \in Seqs, CowChecks(s) \/ \E b \in Blocks : CancelReleases(s, b)
         PROVE  TableFollowsLife'
    BY <2>14 DEF CowChecks, CancelReleases, TableFollowsLife, TableCoversCache, DoneHoldsNothing
  <2>15. ASSUME NEW h \in hand, CowTakes(h) \/ CowRaises(h) PROVE TableFollowsLife'
    BY <2>15 DEF CowTakes, CowRaises, TableFollowsLife, TableCoversCache, DoneHoldsNothing
  <2>16. ASSUME NEW h \in hand, CowStores(h) PROVE TableFollowsLife'
    <3>0. PICK s \in Seqs : s = h.seq
      BY DEF IndInv, TypeOK
    <3>1. PICK w, b : /\ table' = [table EXCEPT ![s][w] = b] /\ w \in DOMAIN table[s]
                      /\ UNCHANGED <<cachedLen, st, cancelled>> /\ b = h.blk
      BY <2>16, <3>0 DEF CowStores
    <3> DEFINE t == [table[s] EXCEPT ![w] = b]
    <3>2. b \in Blocks
      BY <3>1 DEF IndInv, TypeOK
    <3>3. table' = [table EXCEPT ![s] = t] /\ Len(t) = Len(table[s]) /\ table[s] # <<>> /\ t # <<>>
      BY <2>t, <3>1, <3>2
    <3> HIDE DEF t
    <3>4. Follows(t, cachedLen[s], st[s], s \in cancelled')
      BY <2>f, <3>1, <3>3 DEF Follows
    <3>5. st' = [st EXCEPT ![s] = st[s]] /\ cachedLen' = [cachedLen EXCEPT ![s] = cachedLen[s]]
      BY <2>t, <3>1
    <3>6. cancelled' \ {s} = cancelled \ {s}
      BY <3>1
    <3> QED BY <3>3, <3>4, <3>5, <3>6, FollowsOne
  <2> QED BY <2>1, <2>2, <2>3, <2>4, <2>5, <2>6, <2>7, <2>8, <2>9, <2>10, <2>11, <2>12, <2>13,
             <2>14, <2>15, <2>16 DEF Next
<1> QED BY <1>1, <1>2, LeavingCancelled, Inductive, PTL DEF Spec
-----------------------------------------------------------------------------
(* Page contents.  A shared page may be written by a prefill (there is no     *)
(* copy on write there), so ContentsIntact needs to know which pages are      *)
(* shared, that a shared page has one place in all lists, and that those who  *)
(* share a position of it agree on the rest of it.                           *)

\* The place in a block table that position pos is stored at.
Place(pos) == pos \div BlockSize + 1

\* Through table t and the pages g, the first c positions read back as text x.
Reads(t, c, x, g) ==
  \A pos \in 0..c - 1 : g[t[Place(pos)]][pos % BlockSize] = SubSeq(x, 1, pos + 1)

(* Division with remainder.                                                  *)
LEMMA Divided ==
  ASSUME NEW n \in Nat, NEW k \in Nat \ {0}
  PROVE  n \div k \in Nat /\ n % k \in 0..k - 1 /\ n = k * (n \div k) + (n % k)
OBVIOUS

(* Multiples of a page.                                                      *)
LEMMA Multiplied ==
  ASSUME NEW k \in Nat \ {0}, NEW q \in Nat, NEW r \in Nat
  PROVE  k * q \in Nat /\ (q < r => k * q + k <= k * r)
OBVIOUS

(* A quotient is determined by its bounds.                                   *)
LEMMA Quotient ==
  ASSUME NEW k \in Nat \ {0}, NEW q \in Nat, NEW n \in Nat, k * q <= n, n < k * q + k
  PROVE  n \div k = q
<1>1. PICK r \in Nat : r = n \div k /\ k * r \in Nat /\ k * q \in Nat /\ k * r <= n /\ n < k * r + k
  <2>1. PICK r \in Nat : r = n \div k
    BY Divided
  <2>2. PICK m \in Nat : m = n % k /\ m < k
    BY Divided
  <2>3. k * r \in Nat /\ k * q \in Nat
    BY Multiplied
  <2>4. n = k * r + m
    BY <2>1, <2>2, Divided
  <2>5. PICK a \in Nat : a = k * r
    BY <2>3
  <2>6. a <= n /\ n < a + k
    BY <2>2, <2>4, <2>5
  <2> QED BY <2>1, <2>3, <2>5, <2>6
<1>2. (q < r => k * q + k <= k * r) /\ (r < q => k * r + k <= k * q)
  BY Multiplied
<1>3. PICK a \in Nat, b \in Nat : a = k * q /\ b = k * r
  BY <1>1
<1>4. ~(q < r) /\ ~(r < q)
  BY <1>1, <1>2, <1>3
<1> QED BY <1>1, <1>4

(* The pages of n positions: bounds of PagesFor.                             *)
LEMMA PagesForBounds ==
  ASSUME NEW n \in Nat
  PROVE  /\ PagesFor(n) \in Nat
         /\ BlockSize * PagesFor(n) \in Nat
         /\ n <= BlockSize * PagesFor(n)
         /\ BlockSize * PagesFor(n) < n + BlockSize
<1>0. BlockSize \in Nat \ {0}
  BY PoolAssumption
<1>1. PICK m \in Nat : m = n + BlockSize - 1
  BY <1>0
<1>2. PICK q \in Nat : q = m \div BlockSize /\ q = PagesFor(n)
  BY <1>0, <1>1, Divided DEF PagesFor
<1>3. PICK r \in Nat : r = m % BlockSize /\ r < BlockSize
  BY <1>0, Divided
<1>4. PICK a \in Nat : a = BlockSize * q
  BY <1>0, Multiplied
<1>5. m = a + r
  BY <1>0, <1>2, <1>3, <1>4, Divided
<1>6. n <= a /\ a < n + BlockSize
  BY <1>0, <1>1, <1>3, <1>5
<1> QED BY <1>2, <1>4, <1>6

(* A position lies in one of the pages of the text it belongs to, and every  *)
(* one of those pages has a position.                                        *)
LEMMA PlaceFacts ==
  ASSUME NEW n \in Nat
  PROVE  /\ \A pos \in 0..n - 1 : Place(pos) \in 1..PagesFor(n) /\ pos % BlockSize \in Slots
         /\ \A k \in 1..PagesFor(n) : \E pos \in 0..n - 1 : Place(pos) = k
<1>0. BlockSize \in Nat \ {0}
  BY PoolAssumption
<1>1. PICK c \in Nat : c = PagesFor(n)
  BY PagesForBounds
<1>2. PICK y \in Nat : y = BlockSize * c /\ n <= y /\ y < n + BlockSize
  BY <1>1, PagesForBounds
<1>3. ASSUME NEW pos \in 0..n - 1
      PROVE  Place(pos) \in 1..c /\ pos % BlockSize \in Slots
  <2>1. pos \in Nat /\ pos < n
    OBVIOUS
  <2>2. PICK q \in Nat : q = pos \div BlockSize
    BY <1>0, <2>1, Divided
  <2>3. pos % BlockSize \in Slots /\ pos % BlockSize \in Nat
    BY <1>0, <2>1, Divided DEF Slots
  <2>4. PICK a \in Nat : a = BlockSize * q
    BY <1>0, Multiplied
  <2>5. pos = a + (pos % BlockSize)
    BY <1>0, <2>1, <2>2, <2>4, Divided
  <2>6. a <= pos
    BY <2>1, <2>3, <2>4, <2>5
  <2>7. (c < q => BlockSize * c + BlockSize <= BlockSize * q)
    BY <1>0, Multiplied
  <2>8. c # q
    BY <1>2, <2>1, <2>4, <2>6
  <2>9. ~(c < q)
    BY <1>0, <1>2, <2>1, <2>4, <2>6, <2>7
  <2>10. q + 1 \in 1..c
    BY <2>8, <2>9
  <2> QED BY <2>2, <2>3, <2>10 DEF Place
<1>4. ASSUME NEW k \in 1..c
      PROVE  \E pos \in 0..n - 1 : Place(pos) = k
  <2>1. PICK j \in Nat : j = k - 1 /\ j < c
    OBVIOUS
  <2>2. PICK a \in Nat : a = BlockSize * j
    BY <1>0, Multiplied
  <2>3. a + BlockSize <= y
    <3>1. BlockSize * j + BlockSize <= BlockSize * c
      BY <1>0, <2>1, Multiplied
    <3> QED BY <1>2, <2>2, <3>1
  <2>4. a < n
    BY <1>0, <1>2, <2>3
  <2>5. a \div BlockSize = j
    <3>1. BlockSize * j <= a /\ a < BlockSize * j + BlockSize
      BY <1>0, <2>2
    <3> QED BY <1>0, <3>1, Quotient
  <2>6. a \in 0..n - 1
    BY <2>4
  <2>7. Place(a) = k
    BY <2>1, <2>5 DEF Place
  <2> QED BY <2>6, <2>7
<1> QED BY <1>1, <1>3, <1>4

(* More positions need no fewer pages.                                       *)
LEMMA PagesForGrows ==
  ASSUME NEW m \in Nat, NEW n \in Nat, m <= n
  PROVE  PagesFor(m) <= PagesFor(n)
<1>0. BlockSize \in Nat \ {0}
  BY PoolAssumption
<1>1. PICK c \in Nat, d \in Nat : c = PagesFor(m) /\ d = PagesFor(n)
  BY PagesForBounds
<1>2. PICK a \in Nat, b \in Nat : a = BlockSize * c /\ b = BlockSize * d
  BY <1>0, Multiplied
<1>3. a < m + BlockSize /\ n <= b
  BY <1>1, <1>2, PagesForBounds
<1>4. d < c => BlockSize * d + BlockSize <= BlockSize * c
  BY <1>0, Multiplied
<1>5. d < c => b + BlockSize <= a
  BY <1>2, <1>4
<1>6. ~(d < c)
  BY <1>0, <1>3, <1>5
<1> QED BY <1>1, <1>6

(* Two positions at the same place and slot are the same position.           *)
LEMMA SamePosition ==
  ASSUME NEW i \in Nat, NEW j \in Nat, Place(i) = Place(j), i % BlockSize = j % BlockSize
  PROVE  i = j
<1>1. i \div BlockSize \in Nat /\ j \div BlockSize \in Nat
  BY PoolAssumption, Divided
<1>2. i \div BlockSize = j \div BlockSize
  BY <1>1 DEF Place
<1>3. /\ i = BlockSize * (i \div BlockSize) + (i % BlockSize)
      /\ j = BlockSize * (j \div BlockSize) + (j % BlockSize)
  BY PoolAssumption, Divided
<1> QED BY <1>2, <1>3

(* Reading depends only on the pages that hold the text.                     *)
LEMMA ReadsMoved ==
  ASSUME NEW t, NEW u, NEW c \in Nat, NEW x, NEW g, NEW h,
         Reads(t, c, x, g), \A k \in 1..PagesFor(c) : h[u[k]] = g[t[k]]
  PROVE  Reads(u, c, x, h)
<1> SUFFICES ASSUME NEW pos \in 0..c - 1
             PROVE  h[u[Place(pos)]][pos % BlockSize] = SubSeq(x, 1, pos + 1)
  BY DEF Reads
<1>1. Place(pos) \in 1..PagesFor(c)
  BY PlaceFacts
<1>2. g[t[Place(pos)]][pos % BlockSize] = SubSeq(x, 1, pos + 1)
  BY DEF Reads
<1>3. h[u[Place(pos)]] = g[t[Place(pos)]]
  BY <1>1
<1> QED BY <1>2, <1>3

(* Reading of a text is reading of every text with the same start.           *)
LEMMA ReadsSameText ==
  ASSUME NEW t, NEW c \in Nat, NEW x, NEW y, NEW g, Reads(t, c, x, g),
         \A m \in 1..c : SubSeq(y, 1, m) = SubSeq(x, 1, m)
  PROVE  Reads(t, c, y, g)
<1> SUFFICES ASSUME NEW pos \in 0..c - 1
             PROVE  g[t[Place(pos)]][pos % BlockSize] = SubSeq(y, 1, pos + 1)
  BY DEF Reads
<1>1. pos + 1 \in 1..c
  OBVIOUS
<1>2. g[t[Place(pos)]][pos % BlockSize] = SubSeq(x, 1, pos + 1)
  BY DEF Reads
<1> QED BY <1>1, <1>2

(* A start of a start.                                                       *)
LEMMA StartOfStart ==
  ASSUME NEW x \in Seq(Tokens), NEW n \in Nat, n <= Len(x), NEW m \in 0..n
  PROVE  SubSeq(SubSeq(x, 1, n), 1, m) = SubSeq(x, 1, m) /\ Len(SubSeq(x, 1, n)) = n
OBVIOUS

(* A start of an extended text.                                              *)
LEMMA StartOfAppend ==
  ASSUME NEW x \in Seq(Tokens), NEW a \in Tokens, NEW m \in 0..Len(x)
  PROVE  SubSeq(Append(x, a), 1, m) = SubSeq(x, 1, m)
OBVIOUS

(* Radix nodes part at page boundaries if the prompts do.                    *)
LEMMA PathsPart ==
  ASSUME PartAtPages(Prompts), NEW n \in Paths, NEW m \in Paths,
         NEW i \in Nat, NEW j \in Nat, j <= i, i < Len(n), i < Len(m), Place(i) = Place(j),
         SubSeq(n, 1, j + 1) = SubSeq(m, 1, j + 1)
  PROVE  SubSeq(n, 1, i + 1) = SubSeq(m, 1, i + 1)
<1>0. BlockSize \in Nat \ {0}
  BY PoolAssumption
<1>1. PICK p \in Prompts : n \in {SubSeq(p, 1, k) : k \in 1..Len(p)}
  BY DEF Paths
<1>2. PICK q \in Prompts : m \in {SubSeq(q, 1, k) : k \in 1..Len(q)}
  BY DEF Paths
<1>3. PICK a \in 1..Len(p) : n = SubSeq(p, 1, a)
  BY <1>1
<1>4. PICK b \in 1..Len(q) : m = SubSeq(q, 1, b)
  BY <1>2
<1>5. p \in Seq(Tokens) /\ q \in Seq(Tokens) /\ Len(p) \in Nat /\ Len(q) \in Nat
  BY PromptAssumption
<1>6. a \in Nat /\ a <= Len(p) /\ b \in Nat /\ b <= Len(q)
  BY <1>5
<1>7. Len(n) = a /\ Len(m) = b
  BY <1>3, <1>4, <1>5, <1>6
<1>8. i + 1 \in 0..a /\ i + 1 \in 0..b /\ j + 1 \in 0..a /\ j + 1 \in 0..b
  BY <1>6, <1>7
<1>9. /\ SubSeq(n, 1, i + 1) = SubSeq(p, 1, i + 1) /\ SubSeq(n, 1, j + 1) = SubSeq(p, 1, j + 1)
      /\ SubSeq(m, 1, i + 1) = SubSeq(q, 1, i + 1) /\ SubSeq(m, 1, j + 1) = SubSeq(q, 1, j + 1)
  BY <1>3, <1>4, <1>5, <1>6, <1>8, StartOfStart
<1>10. PICK e \in Nat, f \in Nat : e = i + 1 /\ f = j + 1 /\ e - 1 = i /\ f - 1 = j
  OBVIOUS
<1>11. e \in 1..Len(p) /\ f \in 1..Len(p) /\ f <= e /\ e <= Len(q)
  BY <1>5, <1>6, <1>7, <1>10
<1>12. (f - 1) \div BlockSize = (e - 1) \div BlockSize
  <2>1. i \div BlockSize \in Nat /\ j \div BlockSize \in Nat
    BY <1>0, Divided
  <2> QED BY <1>10, <2>1 DEF Place
<1>13. SubSeq(p, 1, f) = SubSeq(q, 1, f)
  BY <1>9, <1>10
<1>14. SubSeq(p, 1, e) = SubSeq(q, 1, e)
  BY <1>11, <1>12, <1>13 DEF PartAtPages
<1> QED BY <1>9, <1>10, <1>14

\* Page b is on no list but the block table of s.
Alone(T, R, s, b) ==
  /\ \A r \in Seqs : b \in PagesOf(T[r]) => r = s
  /\ \A n \in Paths : b \notin PagesOf(R[n].blocks)

\* Of c cached positions, those at place k are prompt positions, and there is one.
PromptPlace(k, c, n) ==
  /\ \E pos \in 0..c - 1 : Place(pos) = k
  /\ \A pos \in 0..c - 1 : Place(pos) = k => pos < n

\* What Sharing says of the table of s, its cached and prompt lengths, C the cancelled.
Shares(T, R, s, c, n, C) ==
  \A k \in 1..Len(T[s]) :
    Alone(T, R, s, T[s][k]) \/ (s \notin C /\ PromptPlace(k, c, n))

(* A page that a table shares holds prompt positions of that table only.     *)
Sharing == \A s \in Seqs : Shares(table, tree, s, cachedLen[s], plen[s], cancelled)

\* x gives every page of list t its place in the list.
Placed(x, t) == \A k \in 1..Len(t) : x[t[k]] = k
AllPlaced(x, T, R) ==
  (\A s \in Seqs : Placed(x, T[s])) /\ (\A n \in Paths : Placed(x, R[n].blocks))

(* A page has the same place in every list it is on.                         *)
Places == \E x \in [Blocks -> Nat] : AllPlaced(x, table, tree)

\* What Stages says of a sequence with status q, lengths c, n and len pages.
Stage(q, gone, c, n, len) ==
  /\ q \in {"new", "waiting", "running"} => ~gone
  /\ q \in {"waiting", "prefill"} => c <= n
  /\ q = "prefilled" => c = n
  /\ q \in {"waiting", "prefill", "prefilled"} => len <= PagesFor(n)

(* How far a sequence has come, and the pages it has until it decodes.       *)
Stages == \A s \in Seqs : Stage(st[s], s \in cancelled, cachedLen[s], plen[s], Len(table[s]))

Covered(R) == \A n \in Paths : R[n].blocks # <<>> => PagesFor(Len(n)) <= Len(R[n].blocks)

(* The pages of a node cover its text.                                       *)
NodesCovered == Covered(tree)

\* Sequences whose cache is still read.
Live(q, gone) == q \notin {"new", "done"} /\ ~gone

\* ContentsIntact in terms of Reads, with no list left out.
ReadBack ==
  /\ \A s \in Seqs : Live(st[s], s \in cancelled) => Reads(table[s], cachedLen[s], toks[s], page)
  /\ \A n \in Paths : tree[n].blocks # <<>> => Reads(tree[n].blocks, Len(n), n, page)


ShareInv == Sharing /\ Places /\ Stages /\ NodesCovered
ContentInv == ShareInv /\ ReadBack

\* No cancel has overlapped the loop thread's work on pages so far.
Calm == IndInv /\ suspect = {}
Base == Calm /\ TableFollowsLife

(* Reading everything back is more than ContentsIntact asks for.             *)
LEMMA ReadBackIntact == ReadBack => ContentsIntact
BY DEF ContentsIntact, SequenceIntact, PrefixIntact, ReadBack, Live, Reads, Slot, Place

(* A calm state has no cancel and no copy under way.                         *)
LEMMA CalmIsStill == Calm => leaving = {} /\ hand = {}
<1> SUFFICES ASSUME Calm PROVE leaving = {} /\ hand = {}
  OBVIOUS
<1>1. RaceMarked /\ suspect = {}
  BY DEF Calm, IndInv
<1> QED BY <1>1 DEF RaceMarked

\* The state functions of the invariant have their types.
BaseTypes ==
  /\ page \in [Blocks -> [Slots -> Seq(Tokens)]]
  /\ tree \in [Paths -> Node]
  /\ table \in [Seqs -> Seq(Blocks)]
  /\ toks \in [Seqs -> Seq(Tokens)]
  /\ plen \in [Seqs -> Nat]
  /\ cachedLen \in [Seqs -> Nat]
  /\ st \in [Seqs -> Status]
  /\ cancelled \subseteq Seqs

(* The types of the invariant.                                               *)
LEMMA BaseTyped == Calm => BaseTypes
BY DEF Calm, IndInv, TypeOK, BaseTypes, Status, Node

(* BaseTyped in the next state.                                              *)
LEMMA BaseTypedPrime == Calm' => BaseTypes'
BY DEF Calm, IndInv, TypeOK, BaseTypes, Status, Node

(* FreeUnheld in the next state.                                             *)
LEMMA FreeUnheldPrime ==
  Calm' => \A b \in free' : /\ \A s \in Seqs : b \notin PagesOf(table'[s])
                            /\ \A n \in Paths : b \notin PagesOf(tree'[n].blocks)
<1>0. Calm => FreePagesUnheld
  BY FreeUnheld DEF Calm
<1>1. Calm' => FreePagesUnheld'
  BY <1>0, PTL
<1>s. Calm' => suspect' = {}
  BY DEF Calm
<1>2. FreePagesUnheld' /\ suspect' = {} => \A b \in free' : /\ \A s \in Seqs : b \notin PagesOf(table'[s])
                                                            /\ \A n \in Paths : b \notin PagesOf(tree'[n].blocks)
  BY DEF FreePagesUnheld, SeqHolders, NodeHolders
<1> QED BY <1>1, <1>s, <1>2

(* A page counted once is on the one list that names it.                     *)
LEMMA CountedOnce ==
  ASSUME Calm, NEW s \in Seqs, NEW b \in Blocks, b \in PagesOf(table[s]), ~(ref[b] > 1)
  PROVE  Alone(table, tree, s, b)
<1> DEFINE A == SeqsWith(table, b)
           B == NodesWith(tree, b)
<1>1. IsFiniteSet(A) /\ IsFiniteSet(B)
  BY SeqAssumption, PromptAssumption, FS_Subset DEF SeqsWith, NodesWith
<1>2. Cardinality(A) \in Nat /\ Cardinality(B) \in Nat
  BY <1>1, FS_CardinalityType
<1>3. ref[b] = Cardinality(A) + Cardinality(B)
  BY HeldIsRef DEF Calm, IndInv, Held
<1>4. s \in A
  BY DEF SeqsWith
<1>5. A = SeqsWith(table, b) /\ B = NodesWith(tree, b)
  OBVIOUS
<1> HIDE DEF A, B
<1>6. IsFiniteSet(A \ {s}) /\ Cardinality(A \ {s}) = Cardinality(A) - 1
  BY <1>1, <1>4, FS_RemoveElement
<1>7. Cardinality(A \ {s}) \in Nat
  BY <1>6, FS_CardinalityType
<1>8. Cardinality(A \ {s}) = 0 /\ Cardinality(B) = 0
  BY <1>2, <1>3, <1>6, <1>7
<1>9. A \ {s} = {} /\ B = {}
  BY <1>1, <1>6, <1>8, FS_EmptySet
<1> QED BY <1>5, <1>9 DEF Alone, SeqsWith, NodesWith

(* An initial state: nothing is cached.                                      *)
LEMMA InitContent == Init => ContentInv
<1> SUFFICES ASSUME Init PROVE ContentInv
  OBVIOUS
<1>1. Sharing /\ NodesCovered
  BY DEF Init, Sharing, Shares, NodesCovered, Covered, AbsentNode
<1>2. Places
  <2> DEFINE x == [b \in Blocks |-> 0]
  <2>1. x \in [Blocks -> Nat]
    OBVIOUS
  <2>2. AllPlaced(x, table, tree)
    BY DEF Init, AllPlaced, Placed, AbsentNode
  <2> QED BY <2>1, <2>2 DEF Places
<1>3. Stages
  BY NoPages DEF Init, Stages, Stage
<1>4. ReadBack
  BY DEF Init, ReadBack, Live, AbsentNode
<1> QED BY <1>1, <1>2, <1>3, <1>4 DEF ContentInv, ShareInv

(* Releasing pages changes no page that is still on a list.                  *)
LEMMA ReleasedUntouched ==
  ASSUME Calm, Calm', NEW S, page' = PagesReleased(S), FreeReleased(S) \subseteq free'
  PROVE  /\ \A r \in Seqs : \A b \in PagesOf(table'[r]) : page'[b] = page[b]
         /\ \A n \in Paths : \A b \in PagesOf(tree'[n].blocks) : page'[b] = page[b]
<1>1. BaseTypes'
  BY BaseTypedPrime
<1>2. ASSUME NEW b \in Blocks, b \notin free' PROVE page'[b] = page[b]
  BY <1>2 DEF PagesReleased, FreeReleased
<1>3. /\ \A r \in Seqs : PagesOf(table'[r]) \subseteq Blocks
      /\ \A n \in Paths : PagesOf(tree'[n].blocks) \subseteq Blocks
  BY <1>1, PagesOfType DEF BaseTypes, Node
<1>4. \A b \in free' : /\ \A r \in Seqs : b \notin PagesOf(table'[r])
                       /\ \A n \in Paths : b \notin PagesOf(tree'[n].blocks)
  BY FreeUnheldPrime
<1>5. ASSUME NEW r \in Seqs, NEW b \in PagesOf(table'[r]) PROVE page'[b] = page[b]
  BY <1>2, <1>3, <1>4
<1>6. ASSUME NEW n \in Paths, NEW b \in PagesOf(tree'[n].blocks) PROVE page'[b] = page[b]
  BY <1>2, <1>3, <1>4
<1> QED BY <1>5, <1>6

(* A list of pages that did not change and lost no page reads as before.     *)
LEMMA ReadsUntouched ==
  ASSUME NEW t \in Seq(Blocks), NEW c \in Nat, NEW x, NEW g, NEW h,
         Reads(t, c, x, g), PagesFor(c) <= Len(t), \A b \in PagesOf(t) : h[b] = g[b]
  PROVE  Reads(t, c, x, h)
<1>1. PagesFor(c) \in Nat
  BY PagesForType
<1>2. \A k \in 1..PagesFor(c) : t[k] \in PagesOf(t)
  BY <1>1 DEF PagesOf
<1> QED BY <1>2, ReadsMoved

(* What a live sequence reads does not change with pages it does not list.   *)
LEMMA SeqCarried ==
  ASSUME Base, ReadBack, NEW r \in Seqs, Live(st[r], r \in cancelled), NEW h,
         \A b \in PagesOf(table[r]) : h[b] = page[b]
  PROVE  Reads(table[r], cachedLen[r], toks[r], h)
<1>1. table[r] \in Seq(Blocks) /\ cachedLen[r] \in Nat
  BY BaseTyped DEF Base, BaseTypes
<1>2. Reads(table[r], cachedLen[r], toks[r], page)
  BY DEF ReadBack
<1>3. Follows(table[r], cachedLen[r], st[r], r \in cancelled)
  BY FollowsParts DEF Base
<1>4. PagesFor(cachedLen[r]) <= Len(table[r])
  <2>1. Len(table[r]) >= PagesFor(cachedLen[r])
    BY <1>3 DEF Follows, Live
  <2>2. Len(table[r]) \in Nat
    BY <1>1
  <2>3. PagesFor(cachedLen[r]) \in Nat
    BY <1>1, PagesForType
  <2> QED BY <2>1, <2>2, <2>3
<1> QED BY <1>1, <1>2, <1>4, ReadsUntouched

(* Nor does what a prefix hit would read.                                    *)
LEMMA NodeCarried ==
  ASSUME Base, NodesCovered, ReadBack, NEW n \in Paths, tree[n].blocks # <<>>, NEW h,
         \A b \in PagesOf(tree[n].blocks) : h[b] = page[b]
  PROVE  Reads(tree[n].blocks, Len(n), n, h)
<1>1. tree[n].blocks \in Seq(Blocks) /\ Len(n) \in Nat
  BY BaseTyped, PathType DEF Base, BaseTypes, Node
<1>2. Reads(tree[n].blocks, Len(n), n, page)
  BY DEF ReadBack
<1>3. PagesFor(Len(n)) <= Len(tree[n].blocks)
  BY DEF NodesCovered, Covered
<1> QED BY <1>1, <1>2, <1>3, ReadsUntouched

(* Steps that move sequences along and touch neither pages nor lists.        *)
LEMMA QuietContent ==
  ASSUME Base, ContentInv, UNCHANGED <<page, tree, table, toks, plen, cachedLen, cancelled>>,
         \A s \in Seqs : /\ Live(st'[s], s \in cancelled) => Live(st[s], s \in cancelled)
                         /\ Stage(st'[s], s \in cancelled, cachedLen[s], plen[s], Len(table[s]))
  PROVE  ContentInv'
<1>1. Sharing' /\ Places' /\ NodesCovered'
  BY DEF ContentInv, ShareInv, Sharing, Places, NodesCovered
<1>2. Stages'
  BY DEF Stages
<1>3. ReadBack'
  BY DEF ReadBack, ContentInv
<1> QED BY <1>1, <1>2, <1>3 DEF ContentInv, ShareInv

(* Scheduler.step, errors, and the steps that pass over a finished sequence. *)
LEMMA QuietActions ==
  ASSUME Base, ContentInv,
         \/ \E W \in SUBSET Seqs : StartStep(W)
         \/ ForwardRaises
         \/ \E s \in Seqs : OutOfPages(s) \/ SkipFinished(s)
         \/ UNCHANGED vars
  PROVE  ContentInv'
<1>t. BaseTypes
  BY BaseTyped DEF Base
<1>s. \A s \in Seqs : Stage(st[s], s \in cancelled, cachedLen[s], plen[s], Len(table[s]))
  BY DEF ContentInv, ShareInv, Stages
<1>1. ASSUME NEW W, StartStep(W) PROVE ContentInv'
  <2>1. UNCHANGED <<page, tree, table, toks, plen, cachedLen, cancelled>>
    BY <1>1 DEF StartStep, pool
  <2>2. \A s \in Seqs : \/ st'[s] = st[s]
                        \/ st[s] = "running" /\ st'[s] = "decode"
                        \/ st[s] = "waiting" /\ st'[s] \in {"prefill", "sampled"}
    BY <1>1 DEF StartStep
  <2>3. \A s \in Seqs : /\ Live(st'[s], s \in cancelled) => Live(st[s], s \in cancelled)
                        /\ Stage(st'[s], s \in cancelled, cachedLen[s], plen[s], Len(table[s]))
    BY <1>s, <2>2 DEF Live, Stage
  <2> QED BY <2>1, <2>3, QuietContent
<1>2. ASSUME st' = st, UNCHANGED <<page, tree, table, toks, plen, cachedLen, cancelled>>
      PROVE  ContentInv'
  BY <1>s, <1>2, QuietContent
<1>3. ASSUME NEW s \in Seqs, SkipFinished(s) PROVE ContentInv'
  <2>1. UNCHANGED <<page, tree, table, toks, plen, cachedLen, cancelled>>
    BY <1>3 DEF SkipFinished, pool
  <2>2. \A r \in Seqs : st'[r] = IF r = s THEN "done" ELSE st[r]
    BY <1>t, <1>3 DEF SkipFinished, BaseTypes
  <2>3. \A r \in Seqs : /\ Live(st'[r], r \in cancelled) => Live(st[r], r \in cancelled)
                        /\ Stage(st'[r], r \in cancelled, cachedLen[r], plen[r], Len(table[r]))
    BY <1>s, <2>2 DEF Live, Stage
  <2> QED BY <2>1, <2>3, QuietContent
<1>4. CASE ForwardRaises \/ (\E s \in Seqs : OutOfPages(s)) \/ UNCHANGED vars
  <2>1. st' = st /\ UNCHANGED <<page, tree, table, toks, plen, cachedLen, cancelled>>
    BY <1>4 DEF ForwardRaises, OutOfPages, pool, vars
  <2> QED BY <1>2, <2>1
<1> QED BY <1>1, <1>3, <1>4

(* Losing list entries leaves a table as it was and its pages at least as    *)
(* much alone.                                                               *)
LEMMA SharesFewer ==
  ASSUME NEW T, NEW U, NEW R, NEW Q, NEW s, NEW c, NEW n, NEW C, NEW D,
         Shares(T, R, s, c, n, C), s \in D <=> s \in C, U[s] = T[s], NEW X,
         \A k \in 1..Len(T[s]) : Alone(T, R, s, T[s][k]) => T[s][k] \notin X,
         \A r \in Seqs \ {s} : PagesOf(U[r]) \subseteq PagesOf(T[r]) \cup X,
         \A m \in Paths : PagesOf(Q[m].blocks) \subseteq PagesOf(R[m].blocks) \cup X
  PROVE  Shares(U, Q, s, c, n, D)
<1> SUFFICES ASSUME NEW k \in 1..Len(T[s]), Alone(T, R, s, T[s][k])
             PROVE  Alone(U, Q, s, T[s][k])
  BY DEF Shares
<1>1. PICK b : b = T[s][k] /\ b \notin X
  OBVIOUS
<1>2. Alone(T, R, s, b)
  BY <1>1
<1>3. \A r \in Seqs : b \in PagesOf(U[r]) => r = s
  BY <1>1, <1>2 DEF Alone
<1>4. \A m \in Paths : b \notin PagesOf(Q[m].blocks)
  BY <1>1, <1>2 DEF Alone
<1> QED BY <1>1, <1>3, <1>4 DEF Alone

(* mark_finished: a table is given back.                                     *)
LEMMA ReleaseContent ==
  ASSUME Base, Calm', ContentInv, NEW s \in Seqs, ReleaseTable(s), NEW q,
         UNCHANGED <<tree, plen, cachedLen>>,
         st' = [st EXCEPT ![s] = q],
         \A r \in Seqs \ {s} : toks'[r] = toks[r] /\ (r \in cancelled' <=> r \in cancelled),
         ~Live(q, s \in cancelled'),
         Stage(q, s \in cancelled', cachedLen[s], plen[s], 0)
  PROVE  ContentInv'
<1>t. BaseTypes
  BY BaseTyped DEF Base
<1>1. /\ table'[s] = <<>> /\ st'[s] = q
      /\ \A r \in Seqs \ {s} : table'[r] = table[r] /\ st'[r] = st[r]
  BY <1>t DEF ReleaseTable, BaseTypes
<1>2. /\ \A r \in Seqs : \A b \in PagesOf(table'[r]) : page'[b] = page[b]
      /\ \A n \in Paths : \A b \in PagesOf(tree'[n].blocks) : page'[b] = page[b]
  BY ReleasedUntouched DEF ReleaseTable, Base
<1>3. Sharing'
  <2> SUFFICES ASSUME NEW r \in Seqs
               PROVE  Shares(table', tree', r, cachedLen'[r], plen'[r], cancelled')
    BY DEF Sharing
  <2>1. CASE r = s
    BY <1>1, <2>1 DEF Shares
  <2>2. CASE r # s
    <3>1. Shares(table, tree, r, cachedLen[r], plen[r], cancelled)
      BY DEF ContentInv, ShareInv, Sharing
    <3>2. /\ table'[r] = table[r] /\ cachedLen'[r] = cachedLen[r] /\ plen'[r] = plen[r]
          /\ (r \in cancelled' <=> r \in cancelled)
      BY <1>1, <2>2
    <3>0. PICK X : X = {}
      OBVIOUS
    <3>3. \A i \in Seqs \ {r} : PagesOf(table'[i]) \subseteq PagesOf(table[i]) \cup X
      <4>1. PagesOf(table'[s]) = {}
        BY <1>1 DEF PagesOf
      <4> QED BY <1>1, <4>1
    <3>4. \A m \in Paths : PagesOf(tree'[m].blocks) \subseteq PagesOf(tree[m].blocks) \cup X
      OBVIOUS
    <3>5. \A k \in 1..Len(table[r]) : Alone(table, tree, r, table[r][k]) => table[r][k] \notin X
      BY <3>0
    <3>6. Shares(table', tree', r, cachedLen[r], plen[r], cancelled')
      BY <3>1, <3>2, <3>3, <3>4, <3>5, SharesFewer
    <3> QED BY <3>2, <3>6
  <2> QED BY <2>1, <2>2
<1>4. Places'
  <2>1. PICK x \in [Blocks -> Nat] : AllPlaced(x, table, tree)
    BY DEF ContentInv, ShareInv, Places
  <2>2. AllPlaced(x, table', tree')
    BY <1>1, <2>1 DEF AllPlaced, Placed
  <2> QED BY <2>1, <2>2 DEF Places
<1>5. Stages'
  <2>1. \A r \in Seqs : Stage(st[r], r \in cancelled, cachedLen[r], plen[r], Len(table[r]))
    BY DEF ContentInv, ShareInv, Stages
  <2> SUFFICES ASSUME NEW r \in Seqs
               PROVE  Stage(st'[r], r \in cancelled', cachedLen'[r], plen'[r], Len(table'[r]))
    BY DEF Stages
  <2>2. CASE r = s
    <3>1. Len(table'[r]) = 0 /\ st'[r] = q /\ cachedLen'[r] = cachedLen[s] /\ plen'[r] = plen[s]
      BY <1>1, <2>2
    <3> QED BY <2>2, <3>1
  <2>3. CASE r # s
    <3>1. (r \in cancelled') = (r \in cancelled)
      BY <2>3
    <3> QED BY <1>1, <2>1, <2>3, <3>1
  <2> QED BY <2>2, <2>3
<1>6. NodesCovered'
  BY DEF ContentInv, ShareInv, NodesCovered
<1>7. ReadBack'
  <2>1. ASSUME NEW r \in Seqs, Live(st'[r], r \in cancelled')
        PROVE  Reads(table'[r], cachedLen'[r], toks'[r], page')
    <3>1. r # s
      BY <1>1, <2>1
    <3>2. /\ table'[r] = table[r] /\ cachedLen'[r] = cachedLen[r] /\ toks'[r] = toks[r]
          /\ st'[r] = st[r] /\ (r \in cancelled') = (r \in cancelled)
      BY <1>1, <3>1
    <3>3. Live(st[r], r \in cancelled)
      BY <2>1, <3>2
    <3>4. Reads(table[r], cachedLen[r], toks[r], page')
      BY <1>2, <3>2, <3>3, SeqCarried DEF ContentInv
    <3> QED BY <3>2, <3>4
  <2>2. ASSUME NEW n \in Paths, tree'[n].blocks # <<>>
        PROVE  Reads(tree'[n].blocks, Len(n), n, page')
    BY <1>2, <2>2, NodeCarried DEF ContentInv, ShareInv
  <2> QED BY <2>1, <2>2 DEF ReadBack
<1> QED BY <1>3, <1>4, <1>5, <1>6, <1>7 DEF ContentInv, ShareInv

(* Errors and cancels give a table back.                                     *)
LEMMA FinishContent ==
  ASSUME Base, Calm', ContentInv, NEW s \in Seqs,
         FinishFailed(s) \/ Cancel(s) \/ CancelMidStep(s)
  PROVE  ContentInv'
<1>t. BaseTypes
  BY BaseTyped DEF Base
<1>0. Stage(st[s], s \in cancelled, cachedLen[s], plen[s], Len(table[s]))
  BY DEF ContentInv, ShareInv, Stages
<1>1. CASE FinishFailed(s) \/ Cancel(s)
  <2>1. /\ ReleaseTable(s) /\ UNCHANGED <<tree, plen, cachedLen, toks, cancelled>>
        /\ st' = [st EXCEPT ![s] = "done"]
    BY <1>1 DEF FinishFailed, Cancel
  <2>2. /\ ~Live("done", s \in cancelled')
        /\ Stage("done", s \in cancelled', cachedLen[s], plen[s], 0)
    BY DEF Live, Stage
  <2> QED BY <2>1, <2>2, ReleaseContent
<1>2. CASE CancelMidStep(s)
  <2>1. /\ ReleaseTable(s) /\ UNCHANGED <<tree, plen, cachedLen, toks>>
        /\ cancelled' = cancelled \cup {s}
        /\ st' = [st EXCEPT ![s] = st[s]]
        /\ st[s] \in Running \cup Computed
    BY <1>t, <1>2 DEF CancelMidStep, InStep, BaseTypes
  <2>2. ~Live(st[s], s \in cancelled')
    BY <2>1 DEF Live
  <2>3. PagesFor(plen[s]) \in Nat
    BY <1>t, PagesForType DEF BaseTypes
  <2>4. Stage(st[s], s \in cancelled', cachedLen[s], plen[s], 0)
    BY <1>0, <2>1, <2>3 DEF Stage, Running, Computed
  <2>5. \A r \in Seqs \ {s} : toks'[r] = toks[r] /\ (r \in cancelled' <=> r \in cancelled)
    BY <2>1
  <2>6. PICK q : q = st[s]
    OBVIOUS
  <2>7. st' = [st EXCEPT ![s] = q] /\ ~Live(q, s \in cancelled')
        /\ Stage(q, s \in cancelled', cachedLen[s], plen[s], 0)
    BY <2>1, <2>2, <2>4, <2>6
  <2> QED BY <2>1, <2>5, <2>7, ReleaseContent
<1> QED BY <1>1, <1>2

(* update_after_decode: the sampled token follows what is cached.            *)
LEMMA EmitContent ==
  ASSUME Base, Calm', ContentInv, NEW s \in Seqs, NEW a \in OutTokens, Emit(s, a)
  PROVE  ContentInv'
<1>t. BaseTypes
  BY BaseTyped DEF Base
<1>0. /\ UNCHANGED <<tree, plen, cachedLen, cancelled>> /\ st[s] = "sampled" /\ s \notin cancelled
      /\ toks'[s] = Append(toks[s], a)
      /\ \A r \in Seqs \ {s} : toks'[r] = toks[r]
  BY <1>t DEF Emit, BaseTypes
<1>1. CASE ReleaseTable(s) /\ st' = [st EXCEPT ![s] = "done"]
  <2>1. /\ ~Live("done", s \in cancelled')
        /\ Stage("done", s \in cancelled', cachedLen[s], plen[s], 0)
    BY DEF Live, Stage
  <2> QED BY <1>0, <1>1, <2>1, ReleaseContent
<1>2. CASE UNCHANGED <<page, table>> /\ st' = [st EXCEPT ![s] = "running"]
  <2>1. Sharing' /\ Places' /\ NodesCovered'
    BY <1>0, <1>2 DEF ContentInv, ShareInv, Sharing, Places, NodesCovered
  <2>2. \A r \in Seqs : st'[r] = IF r = s THEN "running" ELSE st[r]
    BY <1>t, <1>2 DEF BaseTypes
  <2>3. Stages'
    <3>1. \A r \in Seqs : Stage(st[r], r \in cancelled, cachedLen[r], plen[r], Len(table[r]))
      BY DEF ContentInv, ShareInv, Stages
    <3>2. \A r \in Seqs : Stage(st'[r], r \in cancelled, cachedLen[r], plen[r], Len(table[r]))
      BY <1>0, <2>2, <3>1 DEF Stage
    <3> QED BY <1>0, <1>2, <3>2 DEF Stages
  <2>4. \A r \in Seqs : Live(st'[r], r \in cancelled') => Live(st[r], r \in cancelled)
    BY <1>0, <2>2 DEF Live
  <2>5. ASSUME NEW r \in Seqs, Live(st'[r], r \in cancelled')
        PROVE  Reads(table'[r], cachedLen'[r], toks'[r], page')
    <3>1. Reads(table[r], cachedLen[r], toks[r], page)
      BY <2>4, <2>5 DEF ContentInv, ReadBack
    <3>2. CASE r = s
      <4>0. a \in Tokens
        BY DEF Tokens
      <4>1. toks[s] \in Seq(Tokens) /\ cachedLen[s] \in Nat /\ Len(toks[s]) \in Nat
        BY <1>t DEF BaseTypes
      <4>2. cachedLen[s] <= Len(toks[s])
        BY DEF Base, Calm, IndInv, Lengths
      <4>3. \A m \in 1..cachedLen[s] : m \in 0..Len(toks[s])
        BY <4>1, <4>2
      <4>4. \A m \in 1..cachedLen[s] : SubSeq(toks'[s], 1, m) = SubSeq(toks[s], 1, m)
        BY <1>0, <4>0, <4>1, <4>3, StartOfAppend
      <4>5. Reads(table[s], cachedLen[s], toks'[s], page)
        BY <3>1, <3>2, <4>1, <4>4, ReadsSameText
      <4> QED BY <1>0, <1>2, <3>2, <4>5
    <3>3. CASE r # s
      BY <1>0, <1>2, <3>1, <3>3
    <3> QED BY <3>2, <3>3
  <2>6. \A n \in Paths : tree'[n].blocks # <<>> => Reads(tree'[n].blocks, Len(n), n, page')
    BY <1>0, <1>2 DEF ContentInv, ReadBack
  <2>7. ReadBack'
    BY <2>5, <2>6 DEF ReadBack
  <2> QED BY <2>1, <2>3, <2>7 DEF ContentInv, ShareInv
<1> QED BY <1>1, <1>2 DEF Emit

(* Pages that allocate_blocks may hand out are on no list, and eviction      *)
(* changes no page that is still on one.                                     *)
LEMMA NewPage ==
  ASSUME Calm, NEW v, NEW b \in Blocks, CanTake(v, b), tree' = TreeWithout(v)
  PROVE  /\ \A r \in Seqs : b \notin PagesOf(table[r])
         /\ \A n \in Paths : b \notin PagesOf(tree'[n].blocks)
         /\ \A n \in Paths : tree'[n].blocks = tree[n].blocks \/ tree'[n].blocks = <<>>
         /\ \A r \in Seqs : \A c \in PagesOf(table[r]) : PagesReleased(Dropped(v))[c] = page[c]
         /\ \A n \in Paths : \A c \in PagesOf(tree'[n].blocks) : PagesReleased(Dropped(v))[c] = page[c]
<1>t. BaseTypes
  BY BaseTyped
<1>1. ASSUME NEW c \in Blocks, CanTake(v, c)
      PROVE  /\ \A r \in Seqs : c \notin PagesOf(table[r])
             /\ \A n \in Paths : c \notin PagesOf(tree'[n].blocks)
  <2>1. Cardinality(NodesWith(TreeWithout(v), c)) = 0 /\ \A r \in Seqs : c \notin PagesOf(table[r])
    BY <1>1, TakenPageUnheld DEF Calm
  <2>2. IsFiniteSet(NodesWith(TreeWithout(v), c))
    BY PromptAssumption, FS_Subset DEF NodesWith
  <2>3. NodesWith(TreeWithout(v), c) = {}
    BY <2>1, <2>2, FS_EmptySet
  <2> QED BY <2>1, <2>3 DEF NodesWith
<1>2. v \in Victims
  BY DEF CanTake
<1>3. ASSUME NEW c \in Blocks, ~CanTake(v, c) PROVE PagesReleased(Dropped(v))[c] = page[c]
  BY <1>2, <1>3 DEF CanTake, FreeReleased, PagesReleased
<1>4. TreeWithout(v) \in [Paths -> Node]
  BY <1>2, EvictCounts DEF Calm
<1>5. ASSUME NEW n \in Paths PROVE tree'[n].blocks = tree[n].blocks \/ tree'[n].blocks = <<>>
  BY <1>t DEF TreeWithout, AbsentNode, BaseTypes
<1>6. ASSUME NEW r \in Seqs, NEW c \in PagesOf(table[r]) PROVE PagesReleased(Dropped(v))[c] = page[c]
  <2>1. c \in Blocks
    BY <1>t, PagesOfType DEF BaseTypes
  <2> QED BY <1>1, <1>3, <2>1
<1>7. ASSUME NEW n \in Paths, NEW c \in PagesOf(tree'[n].blocks)
      PROVE  PagesReleased(Dropped(v))[c] = page[c]
  <2>1. tree'[n].blocks \in Seq(Blocks)
    BY <1>4 DEF Node
  <2>2. c \in Blocks
    BY <2>1, PagesOfType
  <2> QED BY <1>1, <1>3, <2>2
<1> QED BY <1>1, <1>5, <1>6, <1>7

\* u is the table t with fresh page b at place w, either a new or an old one.
Takes(t, u, w, b) ==
  /\ u \in Seq(Blocks) /\ Len(t) <= Len(u)
  /\ w \in 1..Len(u) /\ u[w] = b
  /\ \A k \in 1..Len(u) : k # w => k \in 1..Len(t) /\ u[k] = t[k]

(* A sequence takes a fresh page: the invariant but for the contents.        *)
LEMMA TakeShares ==
  ASSUME Base, ShareInv, NEW s \in Seqs, NEW u, NEW w, NEW b \in Blocks,
         Takes(table[s], u, w, b),
         table' = [table EXCEPT ![s] = u],
         \A r \in Seqs : b \notin PagesOf(table[r]),
         \A n \in Paths : b \notin PagesOf(tree'[n].blocks),
         \A n \in Paths : tree'[n].blocks = tree[n].blocks \/ tree'[n].blocks = <<>>,
         UNCHANGED <<plen, cachedLen, st, cancelled>>,
         Stage(st[s], s \in cancelled, cachedLen[s], plen[s], Len(u))
  PROVE  ShareInv'
<1>t. BaseTypes
  BY BaseTyped DEF Base
<1>1. table'[s] = u /\ \A r \in Seqs \ {s} : table'[r] = table[r]
  BY <1>t DEF BaseTypes
<1>2. \A n \in Paths : PagesOf(tree'[n].blocks) \subseteq PagesOf(tree[n].blocks)
  BY DEF PagesOf
<1>3. Sharing'
  <2> SUFFICES ASSUME NEW r \in Seqs
               PROVE  Shares(table', tree', r, cachedLen'[r], plen'[r], cancelled')
    BY DEF Sharing
  <2>0. Shares(table, tree, r, cachedLen[r], plen[r], cancelled)
    BY DEF ShareInv, Sharing
  <2>1. CASE r = s
    <3> SUFFICES ASSUME NEW k \in 1..Len(u)
                 PROVE  \/ Alone(table', tree', s, u[k])
                        \/ s \notin cancelled /\ PromptPlace(k, cachedLen[s], plen[s])
      BY <1>1, <2>1 DEF Shares
    <3>1. CASE k = w
      <4>1. u[k] = b
        BY <3>1 DEF Takes
      <4>2. Alone(table', tree', s, b)
        BY <1>1 DEF Alone
      <4> QED BY <4>1, <4>2
    <3>2. CASE k # w
      <4>1. k \in 1..Len(table[s]) /\ u[k] = table[s][k]
        BY <3>2 DEF Takes
      <4>2. PICK c : c = table[s][k]
        OBVIOUS
      <4>3. Alone(table, tree, s, c) => Alone(table', tree', s, c)
        BY <1>1, <1>2 DEF Alone
      <4> QED BY <2>0, <2>1, <4>1, <4>2, <4>3 DEF Shares
    <3> QED BY <3>1, <3>2
  <2>2. CASE r # s
    <3>1. PICK X : X = {b}
      OBVIOUS
    <3>2. \A k \in 1..Len(table[r]) : Alone(table, tree, r, table[r][k]) => table[r][k] \notin X
      <4>1. \A k \in 1..Len(table[r]) : table[r][k] \in PagesOf(table[r])
        BY <1>t DEF BaseTypes, PagesOf
      <4> QED BY <3>1, <4>1
    <3>3. PagesOf(u) \subseteq PagesOf(table[s]) \cup X
      <4>1. \A k \in 1..Len(u) : u[k] = b \/ (k \in 1..Len(table[s]) /\ u[k] = table[s][k])
        BY DEF Takes
      <4>2. DOMAIN u = 1..Len(u) /\ DOMAIN table[s] = 1..Len(table[s])
        BY <1>t DEF Takes, BaseTypes
      <4> QED BY <3>1, <4>1, <4>2 DEF PagesOf
    <3>4. \A i \in Seqs \ {r} : PagesOf(table'[i]) \subseteq PagesOf(table[i]) \cup X
      BY <1>1, <3>3
    <3>5. \A m \in Paths : PagesOf(tree'[m].blocks) \subseteq PagesOf(tree[m].blocks) \cup X
      BY <1>2
    <3>6. table'[r] = table[r] /\ (r \in cancelled <=> r \in cancelled)
      BY <1>1, <2>2
    <3>7. Shares(table', tree', r, cachedLen[r], plen[r], cancelled)
      BY <2>0, <3>2, <3>4, <3>5, <3>6, SharesFewer
    <3> QED BY <3>7
  <2> QED BY <2>1, <2>2
<1>4. Places'
  <2>1. PICK x \in [Blocks -> Nat] : AllPlaced(x, table, tree)
    BY DEF ShareInv, Places
  <2> DEFINE y == [x EXCEPT ![b] = w]
  <2>2. w \in Nat
    BY DEF Takes
  <2>3. y \in [Blocks -> Nat] /\ y[b] = w /\ \A c \in Blocks \ {b} : y[c] = x[c]
    BY <2>1, <2>2
  <2> HIDE DEF y
  <2>4. ASSUME NEW t \in Seq(Blocks), b \notin PagesOf(t), Placed(x, t) PROVE Placed(y, t)
    BY <2>3, <2>4 DEF Placed, PagesOf
  <2>5. \A r \in Seqs \ {s} : Placed(y, table'[r])
    BY <1>t, <1>1, <2>1, <2>4 DEF AllPlaced, BaseTypes
  <2>6. Placed(y, u)
    <3> SUFFICES ASSUME NEW k \in 1..Len(u) PROVE y[u[k]] = k
      BY DEF Placed
    <3>1. CASE k = w
      BY <2>3, <3>1 DEF Takes
    <3>2. CASE k # w
      <4>1. k \in 1..Len(table[s]) /\ u[k] = table[s][k]
        BY <3>2 DEF Takes
      <4>2. x[table[s][k]] = k
        BY <2>1, <4>1 DEF AllPlaced, Placed
      <4>3. table[s][k] \in Blocks /\ table[s][k] # b
        BY <1>t, <4>1 DEF BaseTypes, PagesOf
      <4> QED BY <2>3, <4>1, <4>2, <4>3
    <3> QED BY <3>1, <3>2
  <2>7. ASSUME NEW n \in Paths PROVE Placed(y, tree'[n].blocks)
    <3>1. CASE tree'[n].blocks = tree[n].blocks
      <4>1. tree[n].blocks \in Seq(Blocks)
        BY <1>t DEF BaseTypes, Node
      <4> QED BY <2>1, <2>4, <3>1, <4>1 DEF AllPlaced
    <3>2. CASE tree'[n].blocks = <<>>
      BY <3>2 DEF Placed
    <3> QED BY <3>1, <3>2
  <2>8. AllPlaced(y, table', tree')
    BY <1>1, <2>5, <2>6, <2>7 DEF AllPlaced
  <2> QED BY <2>3, <2>8 DEF Places
<1>5. Stages'
  <2>1. \A r \in Seqs : Stage(st[r], r \in cancelled, cachedLen[r], plen[r], Len(table[r]))
    BY DEF ShareInv, Stages
  <2>2. \A r \in Seqs : Stage(st[r], r \in cancelled, cachedLen[r], plen[r], Len(table'[r]))
    BY <1>1, <2>1
  <2> QED BY <2>2 DEF Stages
<1>6. NodesCovered'
  BY DEF ShareInv, NodesCovered, Covered
<1> QED BY <1>3, <1>4, <1>5, <1>6 DEF ShareInv

(* A sequence takes a fresh page: the contents.                              *)
LEMMA TakeReads ==
  ASSUME Base, ContentInv, NEW s \in Seqs, NEW u,
         table' = [table EXCEPT ![s] = u],
         \A k \in 1..Len(table[s]) : page'[u[k]] = page[table[s][k]],
         \A r \in Seqs : \A c \in PagesOf(table[r]) : page'[c] = page[c],
         \A n \in Paths : \A c \in PagesOf(tree'[n].blocks) : page'[c] = page[c],
         \A n \in Paths : tree'[n].blocks = tree[n].blocks \/ tree'[n].blocks = <<>>,
         UNCHANGED <<toks, cachedLen, st, cancelled>>
  PROVE  ReadBack'
<1>t. BaseTypes
  BY BaseTyped DEF Base
<1>1. table'[s] = u /\ \A r \in Seqs \ {s} : table'[r] = table[r]
  BY <1>t DEF BaseTypes
<1>2. ASSUME NEW r \in Seqs, Live(st'[r], r \in cancelled')
      PROVE  Reads(table'[r], cachedLen'[r], toks'[r], page')
  <2>0. Live(st[r], r \in cancelled)
    BY <1>2
  <2>1. CASE r = s
    <3>1. Reads(table[s], cachedLen[s], toks[s], page)
      BY <2>0, <2>1 DEF ContentInv, ReadBack
    <3>2. cachedLen[s] \in Nat /\ Len(table[s]) \in Nat
      BY <1>t DEF BaseTypes
    <3>3. PagesFor(cachedLen[s]) \in Nat
      BY <3>2, PagesForType
    <3>0. Follows(table[s], cachedLen[s], st[s], s \in cancelled)
      BY FollowsParts DEF Base
    <3>4. Len(table[s]) >= PagesFor(cachedLen[s])
      BY <2>0, <2>1, <3>0 DEF Follows, Live
    <3>5. \A k \in 1..PagesFor(cachedLen[s]) : k \in 1..Len(table[s])
      BY <3>2, <3>3, <3>4
    <3>6. \A k \in 1..PagesFor(cachedLen[s]) : page'[u[k]] = page[table[s][k]]
      BY <3>5
    <3>7. Reads(u, cachedLen[s], toks[s], page')
      <4>1. PICK t, g, h, x : t = table[s] /\ g = page /\ h = page' /\ x = toks[s]
        OBVIOUS
      <4>2. PICK c \in Nat : c = cachedLen[s]
        BY <3>2
      <4>3. Reads(t, c, x, g) /\ \A k \in 1..PagesFor(c) : h[u[k]] = g[t[k]]
        BY <3>1, <3>6, <4>1, <4>2
      <4>4. Reads(u, c, x, h)
        BY <4>3, ReadsMoved
      <4> QED BY <4>1, <4>2, <4>4
    <3> QED BY <1>1, <2>1, <3>7
  <2>2. CASE r # s
    <3>1. Reads(table[r], cachedLen[r], toks[r], page')
      BY <2>0, SeqCarried DEF ContentInv
    <3> QED BY <1>1, <2>2, <3>1
  <2> QED BY <2>1, <2>2
<1>3. ASSUME NEW n \in Paths, tree'[n].blocks # <<>>
      PROVE  Reads(tree'[n].blocks, Len(n), n, page')
  <2>1. tree'[n].blocks = tree[n].blocks
    BY <1>3
  <2>2. Reads(tree[n].blocks, Len(n), n, page')
    BY <1>3, <2>1, NodeCarried DEF ContentInv, ShareInv
  <2> QED BY <2>1, <2>2
<1> QED BY <1>2, <1>3 DEF ReadBack

(* _ensure_blocks.                                                           *)
LEMMA EnsureContent ==
  ASSUME Base, ContentInv, NEW s \in Seqs, EnsurePage(s)
  PROVE  ContentInv'
<1>t. BaseTypes
  BY BaseTyped DEF Base
<1>1. PICK v \in Victims, b \in Blocks :
        /\ CanTake(v, b)
        /\ page' = PagesReleased(Dropped(v))
        /\ tree' = TreeWithout(v)
        /\ table' = [table EXCEPT ![s] = Append(@, b)]
  BY DEF EnsurePage
<1>2. /\ \A r \in Seqs : b \notin PagesOf(table[r])
      /\ \A n \in Paths : b \notin PagesOf(tree'[n].blocks)
      /\ \A n \in Paths : tree'[n].blocks = tree[n].blocks \/ tree'[n].blocks = <<>>
      /\ \A r \in Seqs : \A c \in PagesOf(table[r]) : page'[c] = page[c]
      /\ \A n \in Paths : \A c \in PagesOf(tree'[n].blocks) : page'[c] = page[c]
  BY <1>1, NewPage DEF Base
<1>3. UNCHANGED <<toks, plen, cachedLen, st, cancelled>>
  BY DEF EnsurePage
<1>4. table[s] \in Seq(Blocks) /\ Len(table[s]) \in Nat
  BY <1>t DEF BaseTypes
<1>5. PICK u : u = Append(table[s], b)
  OBVIOUS
<1>6. table' = [table EXCEPT ![s] = u]
  BY <1>t, <1>1, <1>5 DEF BaseTypes
<1>7. /\ Len(u) = Len(table[s]) + 1 /\ u \in Seq(Blocks) /\ u[Len(table[s]) + 1] = b
      /\ \A k \in 1..Len(table[s]) : u[k] = table[s][k]
  BY <1>4, <1>5
<1>8. Takes(table[s], u, Len(table[s]) + 1, b)
  <2>1. PICK l \in Nat : l = Len(table[s])
    BY <1>4
  <2>2. \A k \in 1..l + 1 : k # l + 1 => k \in 1..l
    OBVIOUS
  <2>3. l <= l + 1 /\ l + 1 \in 1..l + 1
    OBVIOUS
  <2> QED BY <1>7, <2>1, <2>2, <2>3 DEF Takes
<1>9. Stage(st[s], s \in cancelled, cachedLen[s], plen[s], Len(u))
  <2>1. Stage(st[s], s \in cancelled, cachedLen[s], plen[s], Len(table[s]))
    BY DEF ContentInv, ShareInv, Stages
  <2>2. st[s] \in Running /\ (st[s] = "prefill" => Len(table[s]) < PagesFor(plen[s]))
    BY DEF EnsurePage, NeedsPage, Target
  <2>3. PagesFor(plen[s]) \in Nat
    BY <1>t, PagesForType DEF BaseTypes
  <2>4. st[s] = "prefill" => Len(u) <= PagesFor(plen[s])
    BY <1>4, <1>7, <2>2, <2>3
  <2> QED BY <2>1, <2>2, <2>4 DEF Stage, Running
<1>10. ShareInv'
  BY <1>2, <1>3, <1>6, <1>8, <1>9, TakeShares DEF ContentInv
<1>11. \A k \in 1..Len(table[s]) : page'[u[k]] = page[table[s][k]]
  <2>1. \A k \in 1..Len(table[s]) : table[s][k] \in PagesOf(table[s])
    BY <1>4 DEF PagesOf
  <2> QED BY <1>2, <1>7, <2>1
<1>12. ReadBack'
  BY <1>2, <1>3, <1>6, <1>11, TakeReads
<1> QED BY <1>10, <1>12 DEF ContentInv

(* cow_block_if_shared: the fresh page starts as a copy.                     *)
LEMMA CowContent ==
  ASSUME Base, ContentInv, NEW s \in Seqs, Cow(s)
  PROVE  ContentInv'
<1>t. BaseTypes
  BY BaseTyped DEF Base
<1>w. PICK w : w = WriteIndex(s) /\ w \in DOMAIN table[s]
  BY DEF Cow, WriteShared
<1>1. PICK v \in Victims, b \in Blocks :
        /\ CanTake(v, b)
        /\ page' = [PagesReleased(Dropped(v)) EXCEPT ![b] = page[table[s][w]]]
        /\ tree' = TreeWithout(v)
        /\ table' = [table EXCEPT ![s][w] = b]
  BY <1>w DEF Cow
<1>2. PICK g : g = PagesReleased(Dropped(v))
  OBVIOUS
<1>3. /\ \A r \in Seqs : b \notin PagesOf(table[r])
      /\ \A n \in Paths : b \notin PagesOf(tree'[n].blocks)
      /\ \A n \in Paths : tree'[n].blocks = tree[n].blocks \/ tree'[n].blocks = <<>>
      /\ \A r \in Seqs : \A c \in PagesOf(table[r]) : g[c] = page[c]
      /\ \A n \in Paths : \A c \in PagesOf(tree'[n].blocks) : g[c] = page[c]
  BY <1>1, <1>2, NewPage DEF Base
<1>4. DOMAIN g = Blocks
  BY <1>2 DEF PagesReleased
<1>5. page'[b] = page[table[s][w]] /\ \A c \in Blocks \ {b} : page'[c] = g[c]
  BY <1>1, <1>2, <1>4
<1>6. UNCHANGED <<toks, plen, cachedLen, st, cancelled>> /\ st[s] = "decode"
  BY DEF Cow
<1>7. table[s] \in Seq(Blocks) /\ Len(table[s]) \in Nat /\ w \in 1..Len(table[s])
  BY <1>t, <1>w DEF BaseTypes
<1>8. PICK u : u = [table[s] EXCEPT ![w] = b]
  OBVIOUS
<1>9. table' = [table EXCEPT ![s] = u]
  BY <1>t, <1>1, <1>8 DEF BaseTypes
<1>10. /\ Len(u) = Len(table[s]) /\ u \in Seq(Blocks) /\ u[w] = b
       /\ \A k \in 1..Len(table[s]) : k # w => u[k] = table[s][k]
  BY <1>7, <1>8
<1>11. Takes(table[s], u, w, b)
  BY <1>7, <1>10 DEF Takes
<1>12. Stage(st[s], s \in cancelled, cachedLen[s], plen[s], Len(u))
  BY <1>6 DEF Stage
<1>13. ShareInv'
  BY <1>3, <1>6, <1>9, <1>11, <1>12, TakeShares DEF ContentInv
<1>14. \A r \in Seqs : \A c \in PagesOf(table[r]) : page'[c] = page[c]
  <2>1. \A r \in Seqs : PagesOf(table[r]) \subseteq Blocks \ {b}
    BY <1>t, <1>3, PagesOfType DEF BaseTypes
  <2> QED BY <1>3, <1>5, <2>1
<1>15. \A n \in Paths : \A c \in PagesOf(tree'[n].blocks) : page'[c] = page[c]
  <2>1. \A n \in Paths : tree[n].blocks \in Seq(Blocks)
    BY <1>t DEF BaseTypes, Node
  <2>2. <<>> \in Seq(Blocks)
    OBVIOUS
  <2>3. \A n \in Paths : tree'[n].blocks \in Seq(Blocks)
    BY <1>3, <2>1, <2>2
  <2>4. \A n \in Paths : PagesOf(tree'[n].blocks) \subseteq Blocks \ {b}
    BY <1>3, <2>3, PagesOfType
  <2> QED BY <1>3, <1>5, <2>4
<1>16. \A k \in 1..Len(table[s]) : page'[u[k]] = page[table[s][k]]
  <2>1. \A k \in 1..Len(table[s]) : table[s][k] \in PagesOf(table[s])
    BY <1>7 DEF PagesOf
  <2> QED BY <1>5, <1>10, <1>14, <2>1
<1>17. ReadBack'
  BY <1>3, <1>6, <1>9, <1>14, <1>15, <1>16, TakeReads
<1> QED BY <1>13, <1>17 DEF ContentInv

\* The text that list t shows at pos once s has written lo..hi-1.
WrittenText(s, lo, hi, t, pos) ==
  IF pos \in lo..hi - 1 /\ table[s][Place(pos)] = t[Place(pos)]
  THEN SubSeq(toks[s], 1, pos + 1)
  ELSE page[t[Place(pos)]][pos % BlockSize]

(* write_kv_layer: where a list names the page of s at the same place, it     *)
(* now shows the text of s; everywhere else it shows what it did.            *)
LEMMA WrittenSlot ==
  ASSUME Base, NEW s \in Seqs, NEW x, Placed(x, table[s]),
         NEW lo \in Nat, NEW hi \in Nat, PagesFor(hi) <= Len(table[s]),
         NEW t \in Seq(Blocks), Placed(x, t), NEW pos \in Nat, Place(pos) \in 1..Len(t)
  PROVE  PagesWritten(s, lo, hi)[t[Place(pos)]][pos % BlockSize]
           = WrittenText(s, lo, hi, t, pos)
<1>t. BaseTypes
  BY BaseTyped DEF Base
<1>1. PICK b \in Blocks : b = t[Place(pos)]
  OBVIOUS
<1>2. PICK i \in Slots : i = pos % BlockSize
  BY PoolAssumption, Divided DEF Slots
<1> DEFINE hits == {q \in lo..hi - 1 : table[s][q \div BlockSize + 1] = b /\ q % BlockSize = i}
<1>3. PagesWritten(s, lo, hi)[b][i]
        = IF hits = {} THEN page[b][i] ELSE SubSeq(toks[s], 1, (CHOOSE q \in hits : TRUE) + 1)
  BY DEF PagesWritten
<1>4. ASSUME NEW q \in hits PROVE q = pos
  <2>1. q \in Nat /\ q \in 0..hi - 1 /\ table[s][Place(q)] = b /\ q % BlockSize = i
    BY DEF Place
  <2>2. Place(q) \in 1..PagesFor(hi)
    BY <2>1, PlaceFacts
  <2>3. Len(table[s]) \in Nat /\ PagesFor(hi) \in Nat
    BY <1>t, PagesForType DEF BaseTypes
  <2>4. Place(q) \in 1..Len(table[s])
    BY <2>2, <2>3
  <2>5. x[table[s][Place(q)]] = Place(q)
    BY <2>4 DEF Placed
  <2>6. x[t[Place(pos)]] = Place(pos)
    BY DEF Placed
  <2>7. Place(q) = Place(pos) /\ q % BlockSize = pos % BlockSize
    BY <1>1, <1>2, <2>1, <2>5, <2>6
  <2> QED BY <2>1, <2>7, SamePosition
<1>5. CASE pos \in lo..hi - 1 /\ table[s][Place(pos)] = t[Place(pos)]
  <2>1. pos \in hits
    BY <1>1, <1>2, <1>5 DEF Place
  <2>2. hits # {} /\ (CHOOSE q \in hits : TRUE) \in hits
    BY <2>1
  <2>3. (CHOOSE q \in hits : TRUE) = pos
    BY <1>4, <2>2
  <2>4. PagesWritten(s, lo, hi)[b][i] = SubSeq(toks[s], 1, pos + 1)
    BY <1>3, <2>2, <2>3
  <2> QED BY <1>1, <1>2, <1>5, <2>4 DEF WrittenText
<1>6. CASE ~(pos \in lo..hi - 1 /\ table[s][Place(pos)] = t[Place(pos)])
  <2>1. pos \notin hits
    BY <1>1, <1>6 DEF Place
  <2>2. hits = {}
    BY <1>4, <2>1
  <2>3. PagesWritten(s, lo, hi)[b][i] = page[b][i]
    BY <1>3, <2>2
  <2> QED BY <1>1, <1>2, <1>6, <2>3 DEF WrittenText
<1> QED BY <1>5, <1>6

(* Two texts that share a written position of a page share the page.         *)
LEMMA SharedText ==
  ASSUME PartAtPages(Prompts), Base, ReadBack,
         NEW s \in Seqs, Live(st[s], s \in cancelled),
         NEW j \in Nat, j < cachedLen[s], NEW i \in Nat, j <= i, i < plen[s], Place(i) = Place(j),
         NEW m \in Paths, i < Len(m),
         page[table[s][Place(j)]][j % BlockSize] = SubSeq(m, 1, j + 1)
  PROVE  SubSeq(toks[s], 1, i + 1) = SubSeq(m, 1, i + 1)
<1>t. BaseTypes
  BY BaseTyped DEF Base
<1>0. toks[s] \in Seq(Tokens) /\ plen[s] \in Nat /\ cachedLen[s] \in Nat /\ plen[s] <= Len(toks[s])
  BY <1>t DEF BaseTypes, Base, Calm, IndInv, Lengths
<1>1. Reads(table[s], cachedLen[s], toks[s], page)
  BY DEF ReadBack
<1>2. j \in 0..cachedLen[s] - 1
  BY <1>0
<1>3. SubSeq(toks[s], 1, j + 1) = SubSeq(m, 1, j + 1)
  BY <1>1, <1>2 DEF Reads
<1>4. PICK n \in Paths : n = SubSeq(toks[s], 1, plen[s])
  BY DEF Base, Calm, IndInv, Lengths, Live, Prompt
<1>5. PICK e \in Nat : e = plen[s]
  BY <1>0
<1>6. i + 1 \in 0..e /\ j + 1 \in 0..e /\ e <= Len(toks[s]) /\ i < e
  BY <1>0, <1>5
<1>7. Len(n) = e /\ SubSeq(n, 1, i + 1) = SubSeq(toks[s], 1, i + 1)
      /\ SubSeq(n, 1, j + 1) = SubSeq(toks[s], 1, j + 1)
  BY <1>0, <1>4, <1>5, <1>6, StartOfStart
<1>8. SubSeq(n, 1, i + 1) = SubSeq(m, 1, i + 1)
  BY <1>3, <1>6, <1>7, PathsPart
<1> QED BY <1>7, <1>8

(* A page of s that another list names at place k holds a prompt position.    *)
LEMMA SharedPlace ==
  ASSUME Base, ShareInv, NEW s \in Seqs, NEW k \in 1..Len(table[s]),
         ~Alone(table, tree, s, table[s][k])
  PROVE  s \notin cancelled /\ PromptPlace(k, cachedLen[s], plen[s])
         /\ Live(st[s], s \in cancelled)
<1>1. s \notin cancelled /\ PromptPlace(k, cachedLen[s], plen[s])
  BY DEF ShareInv, Sharing, Shares
<1>2. table[s] # <<>>
  OBVIOUS
<1>3. st[s] # "new"
  BY <1>2 DEF Base, Calm, IndInv, Lengths
<1>4. st[s] # "done"
  <2>1. Follows(table[s], cachedLen[s], st[s], s \in cancelled)
    BY FollowsParts DEF Base
  <2> QED BY <1>1, <1>2, <2>1 DEF Follows
<1> QED BY <1>1, <1>3, <1>4 DEF Live

\* What a forward of s up to position c may write: pages of its own, or pages
\* shared with texts that agree with its prompt on the whole page.
MayWrite(s, c) ==
  \A pos \in cachedLen[s]..c - 1 :
    \/ Alone(table, tree, s, table[s][Place(pos)])
    \/ PartAtPages(Prompts) /\ pos < plen[s]

(* A forward keeps every text that is read.                                  *)
LEMMA WriteContent ==
  ASSUME Base, ContentInv, NEW s \in Seqs, NEW c \in Nat, NEW q,
         st[s] \in Running, MayWrite(s, c),
         page' = PagesWritten(s, cachedLen[s], c),
         cachedLen' = [cachedLen EXCEPT ![s] = c],
         st' = [st EXCEPT ![s] = q],
         UNCHANGED <<tree, table, toks, cancelled>>,
         PagesFor(c) <= Len(table[s])
  PROVE  ReadBack'
<1>t. BaseTypes
  BY BaseTyped DEF Base
<1>0. PICK lo \in Nat : lo = cachedLen[s]
  BY <1>t DEF BaseTypes
<1>1. /\ cachedLen'[s] = c /\ st'[s] = q
      /\ \A r \in Seqs \ {s} : cachedLen'[r] = cachedLen[r] /\ st'[r] = st[r]
  BY <1>t DEF BaseTypes
<1>2. PICK x \in [Blocks -> Nat] : AllPlaced(x, table, tree)
  BY DEF ContentInv, ShareInv, Places
<1>3. \A r \in Seqs : table[r] \in Seq(Blocks) /\ Placed(x, table[r]) /\ Len(table[r]) \in Nat
  BY <1>t, <1>2 DEF AllPlaced, BaseTypes
<1>4. PICK g : g = page'
  OBVIOUS
<1>5. ASSUME NEW t \in Seq(Blocks), Placed(x, t), NEW pos \in Nat, Place(pos) \in 1..Len(t)
      PROVE  g[t[Place(pos)]][pos % BlockSize]
               = IF pos \in lo..c - 1 /\ table[s][Place(pos)] = t[Place(pos)]
                 THEN SubSeq(toks[s], 1, pos + 1)
                 ELSE page[t[Place(pos)]][pos % BlockSize]
  <2>1. g = PagesWritten(s, lo, c)
    BY <1>0, <1>4
  <2>2. Placed(x, table[s])
    BY <1>3
  <2>3. PagesWritten(s, lo, c)[t[Place(pos)]][pos % BlockSize] = WrittenText(s, lo, c, t, pos)
    BY <1>5, <2>2, WrittenSlot
  <2> QED BY <2>1, <2>3 DEF WrittenText
<1>6. \A pos \in 0..c - 1 : Place(pos) \in 1..Len(table[s])
  <2>1. PagesFor(c) \in Nat /\ Len(table[s]) \in Nat
    BY <1>3, PagesForType
  <2>2. \A k \in 1..PagesFor(c) : k \in 1..Len(table[s])
    BY <2>1
  <2> QED BY <2>2, PlaceFacts
\* The page at the place of pos, written by s and named by another list.
<1>7. ASSUME NEW pos \in Nat, pos \in lo..c - 1, ~Alone(table, tree, s, table[s][Place(pos)])
      PROVE  /\ PartAtPages(Prompts) /\ pos < plen[s] /\ Live(st[s], s \in cancelled)
             /\ \E j \in Nat : j < lo /\ j <= pos /\ Place(j) = Place(pos)
  <2>1. PartAtPages(Prompts) /\ pos < plen[s]
    BY <1>0, <1>7 DEF MayWrite
  <2>2. pos \in 0..c - 1
    BY <1>7
  <2>3. PICK k : k = Place(pos) /\ k \in 1..Len(table[s])
    BY <1>6, <2>2
  <2>4. PromptPlace(k, cachedLen[s], plen[s]) /\ Live(st[s], s \in cancelled)
    BY <1>7, <2>3, SharedPlace DEF ContentInv
  <2>5. PICK j \in 0..lo - 1 : Place(j) = k
    BY <1>0, <2>4 DEF PromptPlace
  <2>6. j \in Nat /\ j < lo /\ j <= pos
    BY <1>7
  <2> QED BY <2>1, <2>3, <2>4, <2>5, <2>6
<1>8. ASSUME NEW r \in Seqs, Live(st'[r], r \in cancelled')
      PROVE  Reads(table'[r], cachedLen'[r], toks'[r], page')
  <2>1. CASE r = s
    <3>0. Live(st[s], s \in cancelled)
      BY <1>8, <2>1 DEF Live, Running
    <3>1. Reads(table[s], lo, toks[s], page)
      BY <1>0, <3>0 DEF ContentInv, ReadBack
    <3>2. ASSUME NEW pos \in 0..c - 1
          PROVE  g[table[s][Place(pos)]][pos % BlockSize] = SubSeq(toks[s], 1, pos + 1)
      <4>1. pos \in Nat /\ Place(pos) \in 1..Len(table[s])
        BY <1>6
      <4>2. g[table[s][Place(pos)]][pos % BlockSize]
               = IF pos \in lo..c - 1 THEN SubSeq(toks[s], 1, pos + 1)
                 ELSE page[table[s][Place(pos)]][pos % BlockSize]
        BY <1>3, <1>5, <4>1
      <4>3. pos \notin lo..c - 1 => pos \in 0..lo - 1
        BY <4>1
      <4> QED BY <3>1, <4>2, <4>3 DEF Reads
    <3>3. Reads(table[s], c, toks[s], g)
      BY <3>2 DEF Reads
    <3> QED BY <1>1, <1>4, <2>1, <3>3
  <2>2. CASE r # s
    <3>0. Live(st[r], r \in cancelled)
      BY <1>1, <1>8, <2>2
    <3>1. Reads(table[r], cachedLen[r], toks[r], page)
      BY <3>0 DEF ContentInv, ReadBack
    <3>c. PICK d \in Nat : d = cachedLen[r]
      BY <1>t DEF BaseTypes
    <3>2. \A pos \in 0..d - 1 : Place(pos) \in 1..Len(table[r])
      <4>1. Follows(table[r], cachedLen[r], st[r], r \in cancelled)
        BY FollowsParts DEF Base
      <4>2. Len(table[r]) >= PagesFor(d)
        BY <3>0, <3>c, <4>1 DEF Follows, Live
      <4>3. PagesFor(d) \in Nat /\ Len(table[r]) \in Nat
        BY <1>3, PagesForType
      <4>4. \A k \in 1..PagesFor(d) : k \in 1..Len(table[r])
        BY <4>2, <4>3
      <4> QED BY <4>4, PlaceFacts
    <3>3. ASSUME NEW pos \in 0..d - 1
          PROVE  g[table[r][Place(pos)]][pos % BlockSize] = SubSeq(toks[r], 1, pos + 1)
      <4>1. pos \in Nat /\ Place(pos) \in 1..Len(table[r])
        BY <3>2
      <4>2. page[table[r][Place(pos)]][pos % BlockSize] = SubSeq(toks[r], 1, pos + 1)
        BY <3>1, <3>c DEF Reads
      <4>3. ASSUME pos \in lo..c - 1, table[s][Place(pos)] = table[r][Place(pos)]
            PROVE  SubSeq(toks[s], 1, pos + 1) = SubSeq(toks[r], 1, pos + 1)
        <5>1. table[r][Place(pos)] \in PagesOf(table[r])
          BY <1>3, <4>1 DEF PagesOf
        <5>2. ~Alone(table, tree, s, table[s][Place(pos)])
          BY <2>2, <4>3, <5>1 DEF Alone
        <5>3. PICK j \in Nat : /\ j < lo /\ j <= pos /\ Place(j) = Place(pos)
                               /\ PartAtPages(Prompts) /\ pos < plen[s]
                               /\ Live(st[s], s \in cancelled)
          BY <1>7, <4>1, <4>3, <5>2
        <5>4. pos \in 0..c - 1
          BY <4>1, <4>3
        <5>5. table[s][Place(pos)] \in PagesOf(table[s])
          BY <1>3, <1>6, <5>4 DEF PagesOf
        <5>6. ~Alone(table, tree, r, table[r][Place(pos)])
          BY <2>2, <4>3, <5>5 DEF Alone
        <5>7. PromptPlace(Place(pos), d, plen[r])
          BY <3>c, <4>1, <5>6, SharedPlace DEF ContentInv
        <5>8. pos < plen[r]
          BY <5>7 DEF PromptPlace
        <5>9. PICK m \in Paths : m = SubSeq(toks[r], 1, plen[r])
          BY <3>0 DEF Base, Calm, IndInv, Lengths, Live, Prompt
        <5>10. toks[r] \in Seq(Tokens) /\ plen[r] \in Nat /\ plen[r] <= Len(toks[r])
          BY <1>t DEF BaseTypes, Base, Calm, IndInv, Lengths
        <5>11. PICK e \in Nat : e = plen[r]
          BY <5>10
        <5>12. pos + 1 \in 0..e /\ j + 1 \in 0..e /\ e <= Len(toks[r])
          BY <4>1, <5>3, <5>8, <5>10, <5>11
        <5>13. /\ Len(m) = e /\ SubSeq(m, 1, pos + 1) = SubSeq(toks[r], 1, pos + 1)
               /\ SubSeq(m, 1, j + 1) = SubSeq(toks[r], 1, j + 1)
          BY <5>9, <5>10, <5>11, <5>12, StartOfStart
        <5>14. j \in 0..d - 1
          BY <4>1, <5>3
        <5>15. page[table[r][Place(j)]][j % BlockSize] = SubSeq(toks[r], 1, j + 1)
          BY <3>1, <3>c, <5>14 DEF Reads
        <5>16. page[table[s][Place(j)]][j % BlockSize] = SubSeq(m, 1, j + 1)
          BY <4>3, <5>3, <5>13, <5>15
        <5>17. pos < Len(m) /\ j < cachedLen[s]
          BY <1>0, <5>3, <5>8, <5>11, <5>13
        <5>18. SubSeq(toks[s], 1, pos + 1) = SubSeq(m, 1, pos + 1)
          BY <4>1, <5>3, <5>16, <5>17, SharedText DEF ContentInv
        <5> QED BY <5>13, <5>18
      <4>4. g[table[r][Place(pos)]][pos % BlockSize]
               = IF pos \in lo..c - 1 /\ table[s][Place(pos)] = table[r][Place(pos)]
                 THEN SubSeq(toks[s], 1, pos + 1)
                 ELSE page[table[r][Place(pos)]][pos % BlockSize]
        BY <1>3, <1>5, <4>1
      <4> QED BY <4>2, <4>3, <4>4
    <3>4. Reads(table[r], d, toks[r], g)
      BY <3>3 DEF Reads
    <3> QED BY <1>1, <1>4, <2>2, <3>c, <3>4
  <2> QED BY <2>1, <2>2
<1>9. ASSUME NEW n \in Paths, tree'[n].blocks # <<>>
      PROVE  Reads(tree'[n].blocks, Len(n), n, page')
  <2>1. PICK t : t = tree[n].blocks
    OBVIOUS
  <2>2. t \in Seq(Blocks) /\ Placed(x, t) /\ Len(t) \in Nat
    BY <1>t, <1>2, <2>1 DEF AllPlaced, BaseTypes, Node
  <2>3. Reads(t, Len(n), n, page)
    BY <1>9, <2>1 DEF ContentInv, ReadBack
  <2>4. PICK d \in Nat : d = Len(n)
    BY PathType
  <2>5. \A pos \in 0..d - 1 : Place(pos) \in 1..Len(t)
    <3>1. PagesFor(d) <= Len(t)
      BY <1>9, <2>1, <2>4 DEF ContentInv, ShareInv, NodesCovered, Covered
    <3>2. PagesFor(d) \in Nat
      BY PagesForType
    <3>3. \A k \in 1..PagesFor(d) : k \in 1..Len(t)
      BY <2>2, <3>1, <3>2
    <3> QED BY <3>3, PlaceFacts
  <2>6. ASSUME NEW pos \in 0..d - 1
        PROVE  g[t[Place(pos)]][pos % BlockSize] = SubSeq(n, 1, pos + 1)
    <3>1. pos \in Nat /\ Place(pos) \in 1..Len(t)
      BY <2>5
    <3>2. page[t[Place(pos)]][pos % BlockSize] = SubSeq(n, 1, pos + 1)
      BY <2>3, <2>4 DEF Reads
    <3>3. ASSUME pos \in lo..c - 1, table[s][Place(pos)] = t[Place(pos)]
          PROVE  SubSeq(toks[s], 1, pos + 1) = SubSeq(n, 1, pos + 1)
      <4>1. t[Place(pos)] \in PagesOf(t)
        BY <2>2, <3>1 DEF PagesOf
      <4>2. ~Alone(table, tree, s, table[s][Place(pos)])
        BY <2>1, <3>3, <4>1 DEF Alone
      <4>3. PICK j \in Nat : /\ j < lo /\ j <= pos /\ Place(j) = Place(pos)
                             /\ PartAtPages(Prompts) /\ pos < plen[s]
                             /\ Live(st[s], s \in cancelled)
        BY <1>7, <3>1, <3>3, <4>2
      <4>4. j \in 0..d - 1
        BY <3>1, <4>3
      <4>5. page[t[Place(j)]][j % BlockSize] = SubSeq(n, 1, j + 1)
        BY <2>3, <2>4, <4>4 DEF Reads
      <4>6. page[table[s][Place(j)]][j % BlockSize] = SubSeq(n, 1, j + 1)
        BY <3>3, <4>3, <4>5
      <4>7. pos < Len(n) /\ j < cachedLen[s]
        BY <1>0, <2>4, <4>3
      <4> QED BY <3>1, <4>3, <4>6, <4>7, SharedText DEF ContentInv
    <3>4. g[t[Place(pos)]][pos % BlockSize]
             = IF pos \in lo..c - 1 /\ table[s][Place(pos)] = t[Place(pos)]
               THEN SubSeq(toks[s], 1, pos + 1)
               ELSE page[t[Place(pos)]][pos % BlockSize]
      BY <1>5, <2>2, <3>1
    <3> QED BY <3>2, <3>3, <3>4
  <2>7. Reads(t, d, n, g)
    BY <2>6 DEF Reads
  <2> QED BY <1>4, <2>1, <2>4, <2>7
<1> QED BY <1>8, <1>9 DEF ReadBack

(* The pages and lists of s stay; its cached length becomes c.               *)
LEMMA LongerShares ==
  ASSUME Base, ShareInv, NEW s \in Seqs, NEW c \in Nat, NEW q,
         cachedLen' = [cachedLen EXCEPT ![s] = c],
         st' = [st EXCEPT ![s] = q],
         UNCHANGED <<tree, table, plen, cancelled>>,
         \A k \in 1..Len(table[s]) :
           Alone(table, tree, s, table[s][k])
             \/ (PromptPlace(k, cachedLen[s], plen[s]) => PromptPlace(k, c, plen[s])),
         Stage(q, s \in cancelled, c, plen[s], Len(table[s]))
  PROVE  ShareInv'
<1>t. BaseTypes
  BY BaseTyped DEF Base
<1>1. /\ cachedLen'[s] = c /\ st'[s] = q
      /\ \A r \in Seqs \ {s} : cachedLen'[r] = cachedLen[r] /\ st'[r] = st[r]
  BY <1>t DEF BaseTypes
<1>2. Sharing'
  <2> SUFFICES ASSUME NEW r \in Seqs
               PROVE  Shares(table, tree, r, cachedLen'[r], plen[r], cancelled)
    BY DEF Sharing
  <2>0. Shares(table, tree, r, cachedLen[r], plen[r], cancelled)
    BY DEF ShareInv, Sharing
  <2>1. CASE r = s
    BY <1>1, <2>0, <2>1 DEF Shares
  <2>2. CASE r # s
    BY <1>1, <2>0, <2>2
  <2> QED BY <2>1, <2>2
<1>3. Places' /\ NodesCovered'
  BY DEF ShareInv, Places, NodesCovered
<1>4. Stages'
  <2>1. \A r \in Seqs : Stage(st[r], r \in cancelled, cachedLen[r], plen[r], Len(table[r]))
    BY DEF ShareInv, Stages
  <2>2. \A r \in Seqs : Stage(st'[r], r \in cancelled, cachedLen'[r], plen[r], Len(table[r]))
    BY <1>1, <2>1
  <2> QED BY <2>2 DEF Stages
<1> QED BY <1>2, <1>3, <1>4 DEF ShareInv

(* prefill writes the rest of the prompt, into shared pages too: the texts   *)
(* that share them go on with the same tokens.                               *)
LEMMA PrefillContent ==
  ASSUME PartAtPages(Prompts), Base, ContentInv, NEW s \in Seqs, PrefillForward(s)
  PROVE  ContentInv'
<1>t. BaseTypes
  BY BaseTyped DEF Base
<1>0. PICK c \in Nat : c = plen[s]
  BY <1>t DEF BaseTypes
<1>1. /\ st[s] = "prefill" /\ st[s] \in Running
      /\ page' = PagesWritten(s, cachedLen[s], c)
      /\ cachedLen' = [cachedLen EXCEPT ![s] = c]
      /\ st' = [st EXCEPT ![s] = "prefilled"]
      /\ UNCHANGED <<tree, table, toks, plen, cancelled>>
      /\ ~(Len(table[s]) < PagesFor(c))
  BY <1>0 DEF PrefillForward, NeedsPage, Target, Running
<1>2. PagesFor(c) <= Len(table[s])
  <2>1. Len(table[s]) \in Nat
    BY <1>t DEF BaseTypes
  <2>2. PagesFor(c) \in Nat
    BY PagesForType
  <2> QED BY <1>1, <2>1, <2>2
<1>3. MayWrite(s, c)
  <2>1. \A pos \in cachedLen[s]..c - 1 : pos < c
    BY <1>t DEF BaseTypes
  <2> QED BY <1>0, <2>1 DEF MayWrite
<1>4. ReadBack'
  BY <1>1, <1>2, <1>3, WriteContent
<1>5. Stage(st[s], s \in cancelled, cachedLen[s], plen[s], Len(table[s]))
  BY DEF ContentInv, ShareInv, Stages
<1>6. Stage("prefilled", s \in cancelled, c, plen[s], Len(table[s])) /\ cachedLen[s] <= c
  BY <1>0, <1>1, <1>5 DEF Stage
<1>7. ASSUME NEW k, PromptPlace(k, cachedLen[s], plen[s]) PROVE PromptPlace(k, c, plen[s])
  <2>1. PICK pos \in 0..cachedLen[s] - 1 : Place(pos) = k
    BY <1>7 DEF PromptPlace
  <2>2. pos \in 0..c - 1
    <3>1. cachedLen[s] \in Nat
      BY <1>t DEF BaseTypes
    <3> QED BY <1>6, <2>1, <3>1
  <2>3. \A i \in 0..c - 1 : i < plen[s]
    BY <1>0
  <2> QED BY <2>1, <2>2, <2>3 DEF PromptPlace
<1>8. ShareInv'
  BY <1>1, <1>6, <1>7, LongerShares DEF ContentInv
<1> QED BY <1>4, <1>8 DEF ContentInv

(* decode writes one position, after COW in a page nobody shares.            *)
LEMMA DecodeContent ==
  ASSUME Base, ContentInv, NEW s \in Seqs, DecodeForward(s)
  PROVE  ContentInv'
<1>t. BaseTypes
  BY BaseTyped DEF Base
<1>l. PICK l \in Nat : l = cachedLen[s]
  BY <1>t DEF BaseTypes
<1>0. PICK c \in Nat : c = l + 1
  OBVIOUS
<1>1. /\ st[s] = "decode" /\ st[s] \in Running
      /\ page' = PagesWritten(s, cachedLen[s], c)
      /\ cachedLen' = [cachedLen EXCEPT ![s] = c]
      /\ st' = [st EXCEPT ![s] = "sampled"]
      /\ UNCHANGED <<tree, table, toks, plen, cancelled>>
      /\ ~(Len(table[s]) < PagesFor(c))
      /\ ~WriteShared(s)
  BY <1>0, <1>l DEF DecodeForward, NeedsPage, Target, Running
<1>2. table[s] \in Seq(Blocks) /\ Len(table[s]) \in Nat /\ PagesFor(c) \in Nat
  <2>1. PagesFor(c) \in Nat
    BY PagesForType
  <2> QED BY <1>t, <2>1 DEF BaseTypes
<1>3. PagesFor(c) <= Len(table[s])
  BY <1>1, <1>2
<1>4. Place(l) \in 1..Len(table[s])
  <2>1. l \in 0..c - 1
    BY <1>0
  <2>2. Place(l) \in 1..PagesFor(c)
    BY <2>1, PlaceFacts
  <2> QED BY <1>2, <1>3, <2>2
<1>5. Alone(table, tree, s, table[s][Place(l)])
  <2>1. PICK b \in Blocks : b = table[s][Place(l)]
    BY <1>2, <1>4
  <2>2. b \in PagesOf(table[s])
    BY <1>2, <1>4, <2>1 DEF PagesOf
  <2>3. WriteIndex(s) = Place(l) /\ WriteIndex(s) \in DOMAIN table[s]
    BY <1>l, <1>2, <1>4 DEF WriteIndex, Place
  <2>4. ~(ref[b] > 1)
    BY <1>1, <2>1, <2>3 DEF WriteShared
  <2>5. Alone(table, tree, s, b)
    BY <2>2, <2>4, CountedOnce DEF Base
  <2> QED BY <2>1, <2>5
<1>6. MayWrite(s, c)
  <2>1. \A pos \in l..c - 1 : pos = l
    BY <1>0
  <2> QED BY <1>l, <1>5, <2>1 DEF MayWrite
<1>7. ReadBack'
  BY <1>1, <1>3, <1>6, WriteContent
<1>8. Stage("sampled", s \in cancelled, c, plen[s], Len(table[s]))
  BY DEF Stage
<1>9. ASSUME NEW k \in 1..Len(table[s])
      PROVE  Alone(table, tree, s, table[s][k])
               \/ (PromptPlace(k, cachedLen[s], plen[s]) => PromptPlace(k, c, plen[s]))
  <2>1. CASE k = Place(l)
    BY <1>5, <2>1
  <2>2. CASE k # Place(l)
    <3> SUFFICES ASSUME PromptPlace(k, l, plen[s]) PROVE PromptPlace(k, c, plen[s])
      BY <1>l
    <3>1. \A i \in 0..c - 1 : i \in 0..l - 1 \/ i = l
      BY <1>0
    <3>2. \A i \in 0..l - 1 : i \in 0..c - 1
      BY <1>0
    <3> QED BY <2>2, <3>1, <3>2 DEF PromptPlace
  <2> QED BY <2>1, <2>2
<1>10. ShareInv'
  BY <1>1, <1>8, <1>9, LongerShares DEF ContentInv
<1> QED BY <1>7, <1>10 DEF ContentInv

(* add_request: on a hit the table is the start of the node's page list.     *)
LEMMA AddContent ==
  ASSUME Base, ContentInv, NEW s \in Seqs, NEW p \in Prompts, AddRequest(s, p)
  PROVE  ContentInv'
<1>t. BaseTypes
  BY BaseTyped DEF Base
<1>1. /\ st[s] = "new" /\ table[s] = <<>> /\ cachedLen[s] = 0
      /\ UNCHANGED <<page, tree, cancelled>>
      /\ toks' = [toks EXCEPT ![s] = p]
      /\ plen' = [plen EXCEPT ![s] = Len(p)]
      /\ st' = [st EXCEPT ![s] = "waiting"]
  BY DEF AddRequest, Base, Calm, IndInv, Lengths
<1>2. p \in Seq(Tokens) /\ Len(p) \in Nat
  BY PromptAssumption
<1>3. s \notin cancelled
  BY <1>1 DEF ContentInv, ShareInv, Stages, Stage
<1>4. PICK n, u :
        /\ n \in 0..Len(p)
        /\ cachedLen' = [cachedLen EXCEPT ![s] = n]
        /\ table' = [table EXCEPT ![s] = u]
        /\ \/ Reusable(p, n) /\ u = HitBlocks(p, n)
           \/ n = 0 /\ u = <<>>
  <2>1. CASE \E n \in 0..Len(p) : /\ Reusable(p, n)
                                  /\ cachedLen' = [cachedLen EXCEPT ![s] = n]
                                  /\ table' = [table EXCEPT ![s] = HitBlocks(p, n)]
    BY <2>1
  <2>2. CASE UNCHANGED <<cachedLen, table>>
    <3>1. cachedLen' = [cachedLen EXCEPT ![s] = 0] /\ table' = [table EXCEPT ![s] = <<>>]
      BY <1>t, <1>1, <2>2 DEF BaseTypes
    <3>2. 0 \in 0..Len(p)
      BY <1>2
    <3> QED BY <3>1, <3>2
  <2> QED BY <2>1, <2>2 DEF AddRequest
<1>n. n \in Nat /\ n <= Len(p) /\ PagesFor(n) \in Nat
  BY <1>2, <1>4, PagesForType
\* The table of s: as many pages as the hit needs, those of a node that reads as p does.
<1>5. /\ u \in Seq(Blocks) /\ Len(u) = PagesFor(n)
      /\ Reads(u, n, p, page)
      /\ u = <<>> \/ \E m \in Paths : /\ Len(u) <= Len(tree[m].blocks)
                                      /\ \A k \in 1..Len(u) : u[k] = tree[m].blocks[k]
  <2>1. CASE Reusable(p, n) /\ u = HitBlocks(p, n)
    <3>1. PICK m : m = SubSeq(p, 1, n)
      OBVIOUS
    <3>2. n \in 1..Len(p)
      BY <1>n, <1>2, <2>1 DEF Reusable
    <3>3. m \in Paths
      BY <3>1, <3>2 DEF Paths
    <3>4. Len(m) = n
      BY <1>2, <1>n, <3>1
    <3>5. PICK t : t = tree[m].blocks /\ t \in Seq(Blocks)
      BY <1>t, <3>3 DEF BaseTypes, Node
    <3>6. Len(t) \in Nat /\ PagesFor(n) <= Len(t)
      BY <1>n, <2>1, <3>1, <3>5 DEF Reusable
    <3>7. u = SubSeq(t, 1, PagesFor(n))
      BY <2>1, <3>1, <3>5 DEF HitBlocks
    <3>8. PICK e \in Nat : e = PagesFor(n)
      BY <1>n
    <3>9. u \in Seq(Blocks) /\ Len(u) = e /\ \A k \in 1..e : u[k] = t[k]
      BY <3>5, <3>6, <3>7, <3>8
    <3>10. t # <<>>
      <4>1. 0 \in 0..n - 1
        BY <3>2
      <4>2. Place(0) \in 1..PagesFor(n)
        BY <1>n, <4>1, PlaceFacts
      <4> QED BY <1>n, <3>6, <4>2
    <3>11. Reads(t, n, m, page)
      BY <3>3, <3>4, <3>5, <3>10 DEF ContentInv, ReadBack
    <3>12. \A k \in 1..PagesFor(n) : page[u[k]] = page[t[k]]
      BY <3>8, <3>9
    <3>13. Reads(u, n, m, page)
      <4>1. PICK g : g = page
        OBVIOUS
      <4>2. Reads(t, n, m, g) /\ \A k \in 1..PagesFor(n) : g[u[k]] = g[t[k]]
        BY <3>11, <3>12, <4>1
      <4>3. Reads(u, n, m, g)
        BY <1>n, <4>2, ReadsMoved
      <4> QED BY <4>1, <4>3
    <3>14. \A i \in 1..n : SubSeq(p, 1, i) = SubSeq(m, 1, i)
      <4>1. \A i \in 1..n : i \in 0..n
        BY <1>n
      <4> QED BY <1>2, <1>n, <3>1, <4>1, StartOfStart
    <3>15. Reads(u, n, p, page)
      BY <1>n, <3>13, <3>14, ReadsSameText
    <3> QED BY <3>3, <3>5, <3>6, <3>8, <3>9, <3>15
  <2>2. CASE n = 0 /\ u = <<>>
    <3>1. u \in Seq(Blocks) /\ Len(u) = 0
      BY <2>2
    <3>2. Reads(u, n, p, page)
      BY <2>2 DEF Reads
    <3> QED BY <2>2, <3>1, <3>2, NoPages
  <2> QED BY <1>4, <2>1, <2>2
<1>6. /\ table'[s] = u /\ cachedLen'[s] = n /\ plen'[s] = Len(p) /\ toks'[s] = p
      /\ st'[s] = "waiting"
      /\ \A r \in Seqs \ {s} : /\ table'[r] = table[r] /\ cachedLen'[r] = cachedLen[r]
                               /\ plen'[r] = plen[r] /\ toks'[r] = toks[r] /\ st'[r] = st[r]
  BY <1>t, <1>1, <1>4 DEF BaseTypes
<1>7. Sharing'
  <2> SUFFICES ASSUME NEW r \in Seqs
               PROVE  Shares(table', tree', r, cachedLen'[r], plen'[r], cancelled')
    BY DEF Sharing
  <2>1. CASE r = s
    <3>1. ASSUME NEW k \in 1..Len(u) PROVE PromptPlace(k, n, Len(p))
      <4>1. k \in 1..PagesFor(n)
        BY <1>5, <3>1
      <4>2. \E pos \in 0..n - 1 : Place(pos) = k
        BY <1>n, <4>1, PlaceFacts
      <4>3. \A pos \in 0..n - 1 : pos < Len(p)
        BY <1>2, <1>n
      <4> QED BY <4>2, <4>3 DEF PromptPlace
    <3> QED BY <1>1, <1>3, <1>6, <2>1, <3>1 DEF Shares
  <2>2. CASE r # s
    <3>0. Shares(table, tree, r, cachedLen[r], plen[r], cancelled)
      BY DEF ContentInv, ShareInv, Sharing
    <3>1. PICK X : X = PagesOf(u)
      OBVIOUS
    <3>2. ASSUME NEW b \in X PROVE \E m \in Paths : b \in PagesOf(tree[m].blocks)
      <4>1. PICK k \in 1..Len(u) : b = u[k]
        BY <1>5, <3>1 DEF PagesOf
      <4>2. u # <<>>
        BY <4>1
      <4>3. PICK m \in Paths : /\ Len(u) <= Len(tree[m].blocks)
                               /\ \A i \in 1..Len(u) : u[i] = tree[m].blocks[i]
        BY <1>5, <4>2
      <4>4. tree[m].blocks \in Seq(Blocks) /\ Len(u) \in Nat
        BY <1>t, <1>5 DEF BaseTypes, Node
      <4>5. k \in DOMAIN tree[m].blocks /\ b = tree[m].blocks[k]
        BY <4>1, <4>3, <4>4
      <4> QED BY <4>5 DEF PagesOf
    <3>3. \A k \in 1..Len(table[r]) : Alone(table, tree, r, table[r][k]) => table[r][k] \notin X
      BY <3>2 DEF Alone
    <3>4. \A i \in Seqs \ {r} : PagesOf(table'[i]) \subseteq PagesOf(table[i]) \cup X
      BY <1>6, <3>1
    <3>5. \A m \in Paths : PagesOf(tree'[m].blocks) \subseteq PagesOf(tree[m].blocks) \cup X
      BY <1>1
    <3>6. table'[r] = table[r] /\ (r \in cancelled' <=> r \in cancelled)
      BY <1>1, <1>6, <2>2
    <3>7. Shares(table', tree', r, cachedLen[r], plen[r], cancelled')
      BY <3>0, <3>3, <3>4, <3>5, <3>6, SharesFewer
    <3> QED BY <1>6, <2>2, <3>7
  <2> QED BY <2>1, <2>2
<1>8. Places'
  <2>1. PICK x \in [Blocks -> Nat] : AllPlaced(x, table, tree)
    BY DEF ContentInv, ShareInv, Places
  <2>2. Placed(x, u)
    <3>1. CASE u = <<>>
      BY <3>1 DEF Placed
    <3>2. CASE u # <<>>
      <4>1. PICK m \in Paths : /\ Len(u) <= Len(tree[m].blocks)
                               /\ \A i \in 1..Len(u) : u[i] = tree[m].blocks[i]
        BY <1>5, <3>2
      <4>2. PICK t : t = tree[m].blocks /\ t \in Seq(Blocks)
        BY <1>t DEF BaseTypes, Node
      <4>3. Placed(x, t)
        BY <2>1, <4>2 DEF AllPlaced
      <4>4. \A i \in 1..Len(u) : i \in 1..Len(t) /\ u[i] = t[i]
        BY <1>5, <4>1, <4>2
      <4> QED BY <4>3, <4>4 DEF Placed
    <3> QED BY <3>1, <3>2
  <2>3. AllPlaced(x, table', tree')
    BY <1>1, <1>6, <2>1, <2>2 DEF AllPlaced
  <2> QED BY <2>1, <2>3 DEF Places
<1>9. Stages'
  <2>1. \A r \in Seqs : Stage(st[r], r \in cancelled, cachedLen[r], plen[r], Len(table[r]))
    BY DEF ContentInv, ShareInv, Stages
  <2>2. Len(u) <= PagesFor(Len(p))
    BY <1>2, <1>5, <1>n, PagesForGrows
  <2>3. Stage("waiting", s \in cancelled, n, Len(p), Len(u))
    BY <1>3, <1>n, <2>2 DEF Stage
  <2> SUFFICES ASSUME NEW r \in Seqs
               PROVE  Stage(st'[r], r \in cancelled', cachedLen'[r], plen'[r], Len(table'[r]))
    BY DEF Stages
  <2>4. CASE r = s
    BY <1>1, <1>6, <2>3, <2>4
  <2>5. CASE r # s
    BY <1>1, <1>6, <2>1, <2>5
  <2> QED BY <2>4, <2>5
<1>10. NodesCovered'
  BY <1>1 DEF ContentInv, ShareInv, NodesCovered
<1>11. ReadBack'
  <2>1. ASSUME NEW r \in Seqs, Live(st'[r], r \in cancelled')
        PROVE  Reads(table'[r], cachedLen'[r], toks'[r], page')
    <3>1. CASE r = s
      BY <1>1, <1>5, <1>6, <3>1
    <3>2. CASE r # s
      <4>1. Live(st[r], r \in cancelled)
        BY <1>1, <1>6, <2>1, <3>2
      <4>2. Reads(table[r], cachedLen[r], toks[r], page)
        BY <4>1 DEF ContentInv, ReadBack
      <4> QED BY <1>1, <1>6, <3>2, <4>2
    <3> QED BY <3>1, <3>2
  <2>2. \A m \in Paths : tree'[m].blocks # <<>> => Reads(tree'[m].blocks, Len(m), m, page')
    BY <1>1 DEF ContentInv, ReadBack
  <2> QED BY <2>1, <2>2 DEF ReadBack
<1> QED BY <1>7, <1>8, <1>9, <1>10, <1>11 DEF ContentInv, ShareInv

(* insert_or_update: the node takes over the pages of the finished prefill.  *)
LEMMA InsertContent ==
  ASSUME Base, Calm', ContentInv, NEW s \in Seqs, Insert(s)
  PROVE  ContentInv'
<1>t. BaseTypes
  BY BaseTyped DEF Base
<1>1. PICK node \in Paths : node = Prompt(s)
  BY DEF Insert, Base, Calm, IndInv, Lengths
<1>2. /\ tree' = TreeInserted(node, table[s])
      /\ UNCHANGED <<table, toks, plen, cachedLen, cancelled>>
      /\ st[s] = "prefilled" /\ (s \in cancelled => table[s] = <<>>)
      /\ st' = [st EXCEPT ![s] = "sampled"]
  <2>1. leaving = {}
    BY CalmIsStill DEF Base
  <2> QED BY <1>1, <2>1 DEF Insert
<1>3. tree'[node].blocks = table[s] /\ \A m \in Paths \ {node} : tree'[m].blocks = tree[m].blocks
  BY <1>2 DEF TreeInserted
<1>4. /\ \A r \in Seqs : \A b \in PagesOf(table'[r]) : page'[b] = page[b]
      /\ \A n \in Paths : \A b \in PagesOf(tree'[n].blocks) : page'[b] = page[b]
  <2>1. CASE page' = page
    BY <2>1
  <2>2. CASE \E S : page' = PagesReleased(S) /\ free' = FreeReleased(S)
    <3>1. PICK S : page' = PagesReleased(S) /\ free' = FreeReleased(S)
      BY <2>2
    <3> QED BY <3>1, ReleasedUntouched DEF Base
  <2> QED BY <2>1, <2>2 DEF Insert
<1>5. /\ Len(table[s]) \in Nat /\ plen[s] \in Nat /\ table[s] \in Seq(Blocks)
      /\ toks[s] \in Seq(Tokens) /\ cachedLen[s] \in Nat
  BY <1>t DEF BaseTypes
<1>6. cachedLen[s] = plen[s] /\ Len(table[s]) <= PagesFor(plen[s]) /\ PagesFor(plen[s]) \in Nat
  <2>1. Stage(st[s], s \in cancelled, cachedLen[s], plen[s], Len(table[s]))
    BY DEF ContentInv, ShareInv, Stages
  <2>2. PagesFor(plen[s]) \in Nat
    BY <1>5, PagesForType
  <2> QED BY <1>2, <2>1, <2>2 DEF Stage
<1>7. \A r \in Seqs : st'[r] = IF r = s THEN "sampled" ELSE st[r]
  BY <1>t, <1>2 DEF BaseTypes
<1>8. plen[s] <= Len(toks[s]) /\ Len(node) = plen[s]
      /\ \A i \in 1..plen[s] : SubSeq(node, 1, i) = SubSeq(toks[s], 1, i)
  <2>1. plen[s] <= Len(toks[s])
    BY DEF Base, Calm, IndInv, Lengths
  <2>2. node = SubSeq(toks[s], 1, plen[s])
    BY <1>1 DEF Prompt
  <2>3. PICK e \in Nat : e = plen[s]
    BY <1>5
  <2>4. \A i \in 1..e : i \in 0..e
    OBVIOUS
  <2>5. e \in 0..e
    OBVIOUS
  <2>6. Len(node) = e
    BY <1>5, <2>1, <2>2, <2>3, <2>5, StartOfStart
  <2>7. \A i \in 1..e : SubSeq(node, 1, i) = SubSeq(toks[s], 1, i)
    BY <1>5, <2>1, <2>2, <2>3, <2>4, StartOfStart
  <2> QED BY <2>1, <2>3, <2>6, <2>7
<1>9. Sharing'
  <2> SUFFICES ASSUME NEW r \in Seqs
               PROVE  Shares(table, tree', r, cachedLen[r], plen[r], cancelled)
    BY <1>2 DEF Sharing
  <2>1. CASE r = s
    <3>1. ASSUME NEW k \in 1..Len(table[s])
          PROVE  s \notin cancelled /\ PromptPlace(k, plen[s], plen[s])
      <4>1. s \notin cancelled
        BY <1>2
      <4>2. k \in 1..PagesFor(plen[s])
        BY <1>5, <1>6
      <4>3. \E pos \in 0..plen[s] - 1 : Place(pos) = k
        BY <1>5, <4>2, PlaceFacts
      <4>4. \A pos \in 0..plen[s] - 1 : pos < plen[s]
        BY <1>5
      <4> QED BY <4>1, <4>3, <4>4 DEF PromptPlace
    <3> QED BY <1>6, <2>1, <3>1 DEF Shares
  <2>2. CASE r # s
    <3>0. Shares(table, tree, r, cachedLen[r], plen[r], cancelled)
      BY DEF ContentInv, ShareInv, Sharing
    <3>1. PICK X : X = PagesOf(table[s])
      OBVIOUS
    <3>2. \A k \in 1..Len(table[r]) : Alone(table, tree, r, table[r][k]) => table[r][k] \notin X
      BY <2>2, <3>1 DEF Alone
    <3>3. \A i \in Seqs \ {r} : PagesOf(table[i]) \subseteq PagesOf(table[i]) \cup X
      OBVIOUS
    <3>4. \A m \in Paths : PagesOf(tree'[m].blocks) \subseteq PagesOf(tree[m].blocks) \cup X
      BY <1>3, <3>1
    <3> QED BY <3>0, <3>2, <3>3, <3>4, SharesFewer
  <2> QED BY <2>1, <2>2
<1>10. Places'
  <2>1. PICK x \in [Blocks -> Nat] : AllPlaced(x, table, tree)
    BY DEF ContentInv, ShareInv, Places
  <2>2. \A n \in Paths : tree'[n].blocks = table[s] \/ tree'[n].blocks = tree[n].blocks
    BY <1>3
  <2>3. AllPlaced(x, table', tree')
    BY <1>2, <2>1, <2>2 DEF AllPlaced
  <2> QED BY <2>1, <2>3 DEF Places
<1>11. Stages'
  <2>1. \A r \in Seqs : Stage(st[r], r \in cancelled, cachedLen[r], plen[r], Len(table[r]))
    BY DEF ContentInv, ShareInv, Stages
  <2>2. \A r \in Seqs : Stage(st'[r], r \in cancelled, cachedLen[r], plen[r], Len(table[r]))
    BY <1>7, <2>1 DEF Stage
  <2> QED BY <1>2, <2>2 DEF Stages
<1>12. table[s] # <<>> => Live(st[s], s \in cancelled)
  BY <1>2 DEF Live
<1>13. NodesCovered'
  <2>1. ASSUME table[s] # <<>> PROVE PagesFor(Len(node)) <= Len(table[s])
    <3>1. Follows(table[s], cachedLen[s], st[s], s \in cancelled)
      BY FollowsParts DEF Base
    <3>2. Len(table[s]) >= PagesFor(plen[s])
      BY <1>6, <1>12, <2>1, <3>1 DEF Follows, Live
    <3>3. PagesFor(plen[s]) <= Len(table[s])
      BY <1>5, <1>6, <3>2
    <3> QED BY <1>8, <3>3
  <2>2. \A n \in Paths : tree[n].blocks # <<>> => PagesFor(Len(n)) <= Len(tree[n].blocks)
    BY DEF ContentInv, ShareInv, NodesCovered, Covered
  <2>3. ASSUME NEW n \in Paths, tree'[n].blocks # <<>>
        PROVE  PagesFor(Len(n)) <= Len(tree'[n].blocks)
    <3>1. CASE n = node
      BY <1>3, <2>1, <2>3, <3>1
    <3>2. CASE n # node
      BY <1>3, <2>2, <2>3, <3>2
    <3> QED BY <3>1, <3>2
  <2> QED BY <2>3 DEF NodesCovered, Covered
<1>14. ReadBack'
  <2>1. ASSUME NEW r \in Seqs, Live(st[r], r \in cancelled)
        PROVE  Reads(table[r], cachedLen[r], toks[r], page')
    BY <1>2, <1>4, <2>1, SeqCarried DEF ContentInv
  <2>2. ASSUME NEW r \in Seqs, Live(st'[r], r \in cancelled')
        PROVE  Reads(table'[r], cachedLen'[r], toks'[r], page')
    <3>1. Live(st[r], r \in cancelled)
      BY <1>2, <1>7, <2>2 DEF Live
    <3> QED BY <1>2, <2>1, <3>1
  <2>3. ASSUME NEW n \in Paths, tree'[n].blocks # <<>>
        PROVE  Reads(tree'[n].blocks, Len(n), n, page')
    <3>1. CASE n = node
      <4>1. Reads(table[s], plen[s], toks[s], page')
        BY <1>3, <1>6, <1>12, <2>1, <2>3, <3>1
      <4>2. Reads(table[s], plen[s], node, page')
        <5>1. PICK e, t, x, g : e \in Nat /\ e = plen[s] /\ t = table[s] /\ x = toks[s] /\ g = page'
          BY <1>5
        <5>2. Reads(t, e, x, g) /\ \A i \in 1..e : SubSeq(node, 1, i) = SubSeq(x, 1, i)
          BY <1>8, <4>1, <5>1
        <5>3. Reads(t, e, node, g)
          BY <5>1, <5>2, ReadsSameText
        <5> QED BY <5>1, <5>3
      <4> QED BY <1>3, <1>8, <3>1, <4>2
    <3>2. CASE n # node
      <4>1. tree'[n].blocks = tree[n].blocks
        BY <1>3, <3>2
      <4>2. Reads(tree[n].blocks, Len(n), n, page')
        BY <1>4, <2>3, <4>1, NodeCarried DEF ContentInv, ShareInv
      <4> QED BY <4>1, <4>2
    <3> QED BY <3>1, <3>2
  <2> QED BY <2>2, <2>3 DEF ReadBack
<1> QED BY <1>9, <1>10, <1>11, <1>13, <1>14 DEF ContentInv, ShareInv

(* A page once suspect stays so.                                             *)
LEMMA SuspectGrows == [Next]_vars => suspect \subseteq suspect'
<1> SUFFICES ASSUME [Next]_vars PROVE suspect \subseteq suspect'
  OBVIOUS
<1>1. CASE UNCHANGED vars
  BY <1>1 DEF vars
<1>2. ASSUME NEW s \in Seqs,
             \/ \E p \in Prompts : AddRequest(s, p)
             \/ EnsurePage(s) \/ Cow(s) \/ PrefillForward(s) \/ DecodeForward(s)
             \/ OutOfPages(s) \/ FinishFailed(s) \/ SkipFinished(s) \/ Insert(s)
             \/ \E t \in OutTokens : Emit(s, t)
      PROVE  suspect \subseteq suspect'
  BY <1>2 DEF AddRequest, EnsurePage, Cow, PrefillForward, DecodeForward, OutOfPages,
              FinishFailed, SkipFinished, Insert, Emit, race
<1>3. ASSUME NEW s \in Seqs,
             \/ Cancel(s) \/ CancelMidStep(s) \/ CancelBegins(s) \/ CancelClears(s)
             \/ \E b \in Blocks : CancelReleases(s, b)
             \/ FinishTwice(s) \/ CowChecks(s)
      PROVE  suspect \subseteq suspect'
  BY <1>3 DEF Cancel, CancelMidStep, CancelBegins, CancelClears, CancelReleases, FinishTwice,
              CowChecks, race
<1>4. ASSUME NEW h \in hand, CowTakes(h) \/ CowStores(h) \/ CowRaises(h)
      PROVE  suspect \subseteq suspect'
  BY <1>4 DEF CowTakes, CowStores, CowRaises
<1>5. ASSUME ForwardRaises \/ \E W \in SUBSET Seqs : StartStep(W)
      PROVE  suspect \subseteq suspect'
  BY <1>5 DEF ForwardRaises, StartStep, race
<1> QED BY <1>1, <1>2, <1>3, <1>4, <1>5 DEF Next

(* If prompts part at page boundaries only, no sharing, copying, eviction,   *)
(* reuse, error or cancel changes the K/V that a live sequence or a prefix   *)
(* hit reads, for every pool, page size and set of requests, for as long as  *)
(* no cancel has overlapped the loop thread's work on pages.  (The run       *)
(* RadixDivergent shows that the condition on prompts is needed.)            *)
THEOREM ContentsStayIntact ==
  PartAtPages(Prompts) => (Spec => [](suspect = {} => ContentsIntact))
<1> DEFINE Kept == suspect = {} => ContentInv
           Life == IndInv /\ TableFollowsLife
<1> SUFFICES ASSUME PartAtPages(Prompts) PROVE Spec => [](suspect = {} => ContentsIntact)
  OBVIOUS
<1>1. Init => Kept
  BY InitContent
<1>2. Life /\ IndInv' /\ Kept /\ [Next]_vars => Kept'
  <2> SUFFICES ASSUME Life, IndInv', Kept, [Next]_vars, suspect' = {} PROVE ContentInv'
    OBVIOUS
  <2>a. suspect = {}
    BY SuspectGrows
  <2>b. Base /\ Calm' /\ ContentInv /\ leaving = {} /\ hand = {}
    BY <2>a, CalmIsStill DEF Base, Calm
  <2>1. ASSUME NEW s \in Seqs, NEW p \in Prompts, AddRequest(s, p) PROVE ContentInv'
    BY <2>b, <2>1, AddContent
  <2>2. ASSUME NEW s \in Seqs, EnsurePage(s) PROVE ContentInv'
    BY <2>b, <2>2, EnsureContent
  <2>3. ASSUME NEW s \in Seqs, Cow(s) PROVE ContentInv'
    BY <2>b, <2>3, CowContent
  <2>4. ASSUME NEW s \in Seqs, PrefillForward(s) PROVE ContentInv'
    BY <2>b, <2>4, PrefillContent
  <2>5. ASSUME NEW s \in Seqs, DecodeForward(s) PROVE ContentInv'
    BY <2>b, <2>5, DecodeContent
  <2>6. ASSUME NEW s \in Seqs, FinishFailed(s) \/ Cancel(s) \/ CancelMidStep(s) PROVE ContentInv'
    BY <2>b, <2>6, FinishContent
  <2>7. ASSUME NEW s \in Seqs, Insert(s) PROVE ContentInv'
    BY <2>b, <2>7, InsertContent
  <2>8. ASSUME NEW s \in Seqs, NEW a \in OutTokens, Emit(s, a) PROVE ContentInv'
    BY <2>b, <2>8, EmitContent
  <2>9. CASE \/ \E W \in SUBSET Seqs : StartStep(W)
             \/ ForwardRaises
             \/ \E s \in Seqs : OutOfPages(s) \/ SkipFinished(s)
             \/ UNCHANGED vars
    BY <2>b, <2>9, QuietActions
  <2>10. ASSUME NEW s \in Seqs, CancelBegins(s) PROVE FALSE
    <3>1. Calm' /\ leaving' # {}
      BY <2>b, <2>10 DEF CancelBegins
    <3>2. Calm' => leaving' = {}
      BY DEF Calm, IndInv, RaceMarked
    <3> QED BY <3>1, <3>2
  <2>11. ASSUME NEW s \in Seqs,
                \/ CancelClears(s) \/ FinishTwice(s) \/ CowChecks(s)
                \/ \E b \in Blocks : CancelReleases(s, b)
         PROVE  FALSE
    <3>1. owed[s] = {}
      BY <2>a DEF IndInv, RaceMarked
    <3> QED BY <2>b, <2>11, <3>1 DEF CancelClears, FinishTwice, CowChecks, CancelReleases
  <2> QED BY <2>b, <2>1, <2>2, <2>3, <2>4, <2>5, <2>6, <2>7, <2>8, <2>9, <2>10, <2>11 DEF Next
<1>3. Spec => []Life
  BY Inductive, TablesFollowLives, PTL
<1>4. Kept => (suspect = {} => ContentsIntact)
  BY ReadBackIntact DEF ContentInv
<1>5. Life => IndInv
  OBVIOUS
<1> QED BY <1>1, <1>2, <1>3, <1>4, <1>5, PTL DEF Spec
=============================================================================
