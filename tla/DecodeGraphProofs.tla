---- MODULE DecodeGraphProofs ----
(***************************************************************************)
(* Proofs about DecodeGraph, for any pool, page size, capacities and number *)
(* of sequences: the types, PlanCurrent, HistoryIntact and EagerFaithful.   *)
(* The inductive invariant says who owns the pages (no page is in two block *)
(* tables, or in one and the tree), that the buffers of the latest          *)
(* generation hold the page list the host believes they hold, and that a    *)
(* planned forward is planned for its sequence as it is now, unless a       *)
(* cancel has emptied the table since.                                      *)
(***************************************************************************)
EXTENDS DecodeGraph, QueueProofs, TLAPS

(* The inductive invariant *)

SeqRecs == [st : {"new", "running", "done"}, table : Seq(Pages), cached : 0..MaxLen]
Graphs == [captured : BOOLEAN, gen : Int, cap : Int, warm : 0..WarmupNeed,
           tok : {"none", "static", "fresh"}]
Offsets == 0..(PageSize - 1)

GTypes ==
  /\ seq \in [Seqs -> SeqRecs]
  /\ kv \in [Pages -> [Offsets -> Tokens]]
  /\ tree \subseteq Pages
  /\ st \in [gen : 0..MaxGen, cap : Nat, host : Seq(Pages), wrapper : Int]
  /\ mem \in [1..MaxGen -> [pages : Seq(Pages), n : Nat, pos : Nat]]
  /\ tokBuf \in Tokens
  /\ cg \in [graph : Graphs, disabled : BOOLEAN]
  /\ fwd # Nothing => fwd \in [s : Seqs, src : {"static", "fresh"}, n : Nat]
  /\ lost \in [Seqs -> SUBSET Nat]

\* The block table of one sequence.
TableOK(s) ==
  /\ IsInjective(seq[s].table) /\ Len(seq[s].table) <= NPages(MaxLen)
  /\ seq[s].st = "new" => seq[s].table = <<>>
  /\ seq[s].st # "new" => seq[s].cached > 0
  /\ seq[s].st = "running" => Len(seq[s].table) >= NPages(seq[s].cached)

\* No page is in two tables, or in a table and in the tree.
Apart(s, t) == \A p \in Pages : ~ (p \in ToSet(seq[s].table) /\ p \in ToSet(seq[t].table))
Owned ==
  /\ \A s \in Seqs : TableOK(s)
  /\ \A s, t \in Seqs : s # t => Apart(s, t)
  /\ \A s \in Seqs, p \in tree : p \notin ToSet(seq[s].table)

\* The latest buffers hold what the host believes; later ones are untouched.
Buffers ==
  /\ st.gen > 0 => st.gen <= st.cap /\ mem[st.gen].pages = st.host
  /\ \A g \in 1..MaxGen : g > st.gen => mem[g].pages = <<>>

\* A planned forward of s.
PlannedFor(s) ==
  /\ seq[s].st # "new" /\ seq[s].cached < MaxLen /\ fwd.n = NPages(seq[s].cached + 1)
  /\ st.gen > 0 /\ st.wrapper = st.gen
  /\ mem[st.gen].n = fwd.n /\ mem[st.gen].pos = seq[s].cached
  /\ Len(st.host) = fwd.n
  /\ \/ fwd.n <= Len(seq[s].table) /\ st.host = SubSeq(seq[s].table, 1, fwd.n)
     \/ seq[s].table = <<>> /\ seq[s].st = "done"
  /\ \A t \in Seqs \ {s}, p \in Pages : ~ (p \in ToSet(st.host) /\ p \in ToSet(seq[t].table))
  /\ \/ fwd.src = "static" /\ burst = <<s>>
     \/ fwd.src = "fresh" /\ burst = Nothing
Forward == fwd # Nothing => PlannedFor(fwd.s)

\* A burst is fed the token of its sequence.
BurstFed ==
  \A s \in Seqs : burst = <<s>> => seq[s].st # "new" /\ tokBuf = Token(s, seq[s].cached)

GraphInv ==
  GTypes /\ Owned /\ Buffers /\ Forward /\ BurstFed /\ PlanCurrent /\ HistoryIntact

----------------------------------------------------------------------------
(* Arithmetic of pages, and sequences *)

\* A number is its quotient and its remainder.
LEMMA DivMod ==
  ASSUME NEW n \in Nat, NEW k \in Nat \ {0}
  PROVE  n \div k \in Nat /\ n % k \in 0..k - 1 /\ n = k * (n \div k) + (n % k)
  OBVIOUS

\* Products with a positive number keep the order.
LEMMA MulBelow ==
  ASSUME NEW k \in Nat \ {0}, NEW q \in Nat, NEW r \in Nat
  PROVE  k * q \in Nat /\ (q < r => k * q + k <= k * r)
  OBVIOUS

\* Positions in the same page at the same offset are the same.
LEMMA SamePlace ==
  ASSUME NEW i \in Nat, NEW j \in Nat,
         i \div PageSize = j \div PageSize, i % PageSize = j % PageSize
  PROVE  i = j
<1> PageSize \in Nat \ {0}
  BY GraphAssumption
<1>1. i = PageSize * (i \div PageSize) + (i % PageSize)
  BY DivMod
<1>2. j = PageSize * (j \div PageSize) + (j % PageSize)
  BY DivMod
<1> QED BY <1>1, <1>2

\* The place of a position, and how the number of pages grows with the tokens.
LEMMA PageFacts ==
  ASSUME NEW n \in Nat
  PROVE  /\ NPages(n) \in Nat /\ NPages(n + 1) = n \div PageSize + 1
         /\ n \div PageSize \in Nat /\ n % PageSize \in Offsets
         /\ NPages(n + 1) >= 1
         /\ \A m \in Nat : m < n => m \div PageSize + 1 \in 1..NPages(n)
         /\ \A m \in Nat : m <= n => NPages(m) <= NPages(n)
         /\ NPages(n) <= NPages(n + 1) /\ NPages(n + 1) <= NPages(n) + 1
<1> DEFINE k == PageSize
           q(m) == m \div k
<1>0. k \in Nat \ {0}
  BY GraphAssumption
<1>1. \A m \in Nat : /\ q(m) \in Nat /\ m % k \in 0..k - 1 /\ m = k * q(m) + (m % k)
                     /\ k * q(m) \in Nat
  BY <1>0, DivMod, MulBelow
<1>2. \A a, b \in Nat : k * a + k > k * b => b <= a
  BY <1>0, MulBelow
<1>3. \A m \in Nat : k * q(m) <= m /\ m < k * q(m) + k
  <2> TAKE m \in Nat
  <2>1. q(m) \in Nat /\ m % k \in 0..k - 1 /\ m = k * q(m) + (m % k) /\ k * q(m) \in Nat
    BY <1>1
  <2>2. m % k \in Nat /\ m % k < k
    BY <2>1, <1>0
  <2> DEFINE a == k * q(m)
             b == m % k
  <2>3. a \in Nat /\ b \in Nat /\ b < k /\ m = a + b
    BY <2>1, <2>2
  <2> HIDE DEF a, b, k, q
  <2>4. a <= m /\ m < a + k
    BY <2>3, <1>0
  <2> QED BY <2>4 DEF a, k
<1>4. \A a, b \in Nat : a <= b => q(a) <= q(b)
  <2> TAKE a \in Nat, b \in Nat
  <2> HAVE a <= b
  <2>1. k * q(a) <= a /\ b < k * q(b) + k
    BY <1>3
  <2>2. q(a) \in Nat /\ q(b) \in Nat /\ k * q(a) \in Nat /\ k * q(b) \in Nat
    BY <1>1
  <2>3. k * q(b) + k > k * q(a)
    <3> HIDE DEF q, k
    <3> QED BY <1>0, <2>1, <2>2
  <2> QED BY <2>2, <2>3, <1>2
<1>5. \A m \in Nat : q(m + k) = q(m) + 1
  <2> TAKE m \in Nat
  <2>1. m + k \in Nat
    BY <1>0
  <2>2. /\ k * q(m) <= m /\ m < k * q(m) + k
        /\ k * q(m + k) <= m + k /\ m + k < k * q(m + k) + k
    BY <2>1, <1>3
  <2>3. q(m) \in Nat /\ q(m + k) \in Nat /\ k * q(m) \in Nat /\ k * q(m + k) \in Nat
    BY <2>1, <1>1
  <2>4. /\ k * (q(m) + 1) = k * q(m) + k /\ k * (q(m + k) + 1) = k * q(m + k) + k
        /\ k * (q(m) + 2) = k * q(m) + k + k
    BY <1>0, <2>3
  <2>5. k * q(m + k) + k > k * (q(m) + 1) /\ k * (q(m) + 1) + k > k * q(m + k)
    <3> HIDE DEF q, k
    <3> QED BY <2>2, <2>3, <2>4, <1>0
  <2>6. q(m) + 1 <= q(m + k) /\ q(m + k) <= q(m) + 1
    BY <2>3, <2>5, <1>2
  <2> QED BY <2>3, <2>6
<1>6. \A m \in Nat : NPages(m + 1) = q(m) + 1 /\ NPages(m) = q(m + k - 1) /\ m + k - 1 \in Nat
  <2> TAKE m \in Nat
  <2>1. (m + 1) + k - 1 = m + k /\ m + k - 1 \in Nat
    BY <1>0
  <2> QED BY <2>1, <1>5 DEF NPages
<1>7. \A a, b \in Nat : a <= b => NPages(a) <= NPages(b)
  <2> TAKE a \in Nat, b \in Nat
  <2> HAVE a <= b
  <2>1. a + k - 1 <= b + k - 1 /\ a + k - 1 \in Nat /\ b + k - 1 \in Nat
    BY <1>0
  <2> QED BY <2>1, <1>4, <1>6
<1>8. \A m \in Nat : NPages(m) \in Nat /\ NPages(m + 1) <= NPages(m) + 1
  <2> TAKE m \in Nat
  <2>1. NPages(m + 1) = q(m) + 1 /\ NPages(m) = q(m + k - 1) /\ m + k - 1 \in Nat
    BY <1>6
  <2>2. m <= m + k - 1
    BY <1>0
  <2>3. q(m) <= q(m + k - 1) /\ q(m) \in Nat /\ q(m + k - 1) \in Nat
    BY <2>1, <2>2, <1>4, <1>1
  <2> QED BY <2>1, <2>3
<1>9. \A m \in Nat : m < n => m \div k + 1 \in 1..NPages(n)
  <2> TAKE m \in Nat
  <2> HAVE m < n
  <2>1. NPages(m + 1) <= NPages(n) /\ NPages(n) \in Nat
    BY <1>7, <1>8
  <2>2. NPages(m + 1) = q(m) + 1 /\ q(m) \in Nat
    BY <1>6, <1>1
  <2> QED BY <2>1, <2>2
<1>10. n % k \in Offsets
  BY <1>1 DEF Offsets
<1>11. n + 1 \in Nat /\ n <= n + 1
  OBVIOUS
<1>12. NPages(n) \in Nat /\ NPages(n + 1) = n \div PageSize + 1
  BY <1>6, <1>8
<1>13. n \div PageSize \in Nat /\ NPages(n + 1) >= 1
  BY <1>1, <1>12
<1>14. NPages(n) <= NPages(n + 1) /\ NPages(n + 1) <= NPages(n) + 1
  BY <1>7, <1>8, <1>11
<1>15. \A m \in Nat : m <= n => NPages(m) <= NPages(n)
  BY <1>7
<1> QED
  BY <1>9, <1>10, <1>12, <1>13, <1>14, <1>15

\* The place of the position that comes next.
LEMMA PlaceFacts ==
  ASSUME NEW p \in Nat
  PROVE  /\ p \div PageSize + 1 \in 1..NPages(p + 1) /\ p % PageSize \in Offsets
         /\ NPages(p + 1) \in Nat \ {0} /\ NPages(p + 1) = p \div PageSize + 1
<1>1. p % PageSize \in Offsets /\ NPages(p + 1) = p \div PageSize + 1 /\ p \div PageSize \in Nat
  BY PageFacts
<1> QED BY <1>1

\* The larger of two numbers.
LEMMA MaxTwo ==
  ASSUME NEW a \in Int, NEW b \in Int
  PROVE  Max({a, b}) = IF a >= b THEN a ELSE b
  BY DEF Max

\* The capacity of new buffers is at least what is needed.
LEMMA CapFacts ==
  ASSUME NEW n \in Nat, n <= NPages(MaxLen)
  PROVE  CapFor(Max({n, Ceiling})) \in Nat /\ CapFor(Max({n, Ceiling})) >= n
<1> DEFINE m == Max({n, Ceiling})
           S == {c \in Caps : c >= m}
<1>1. m \in Nat /\ m >= n /\ (m = n \/ m = Ceiling)
  BY MaxTwo, GraphAssumption
<1>2. PICK c \in Caps : c >= Ceiling /\ c >= NPages(MaxLen)
  BY GraphAssumption
<1>3. Caps \subseteq Nat /\ Ceiling \in Nat /\ NPages(MaxLen) \in Nat
  BY GraphAssumption, PageFacts
<1>4. c \in S
  BY <1>1, <1>2, <1>3
<1>5. PICK x \in S : \A y \in S : x <= y
  BY <1>3, <1>4, LeastNat
<1>6. Min(S) \in S
  BY <1>5 DEF Min
<1>7. CapFor(m) = Min(S)
  BY DEF CapFor
<1> HIDE DEF m
<1>8. CapFor(m) \in Nat /\ CapFor(m) >= m
  BY <1>3, <1>6, <1>7
<1>9. CapFor(m) >= n
  BY <1>1, <1>8
<1> QED BY <1>8, <1>9 DEF m

\* A prefix of a list of pages, and the whole of it.
LEMMA PrefixFacts ==
  ASSUME NEW t \in Seq(Pages), NEW n \in Nat, n <= Len(t)
  PROVE  /\ SubSeq(t, 1, n) \in Seq(Pages) /\ Len(SubSeq(t, 1, n)) = n
         /\ \A i \in 1..n : SubSeq(t, 1, n)[i] = t[i]
         /\ n = Len(t) => SubSeq(t, 1, n) = t
         /\ ToSet(SubSeq(t, 1, n)) \subseteq ToSet(t)
<1>1. /\ SubSeq(t, 1, n) \in Seq(Pages) /\ Len(SubSeq(t, 1, n)) = n
      /\ \A i \in 1..n : SubSeq(t, 1, n)[i] = t[i]
  BY SplitFacts
<1>2. n = Len(t) => SubSeq(t, 1, n) = t
  OBVIOUS
<1>3. ToSet(SubSeq(t, 1, n)) \subseteq ToSet(t)
  BY <1>1 DEF ToSet
<1> QED BY <1>1, <1>2, <1>3

----------------------------------------------------------------------------
(* The end of a forward *)

\* The step's own token is not garbage.
LEMMA OwnIsToken ==
  ASSUME NEW s, NEW p \in Nat \ {0}
  PROVE  Token(s, p) # NoToken
  BY DEF Token, NoToken

\* A forward of s at position p ends.
EndsFor(kind, tok, writes, s, p) ==
  /\ s = fwd.s /\ p = seq[s].cached /\ p < MaxLen /\ Own = Token(s, p)
  /\ st.gen \in 1..MaxGen
  /\ mem[st.gen] = [pages |-> st.host, n |-> NPages(p + 1), pos |-> p]
  /\ Len(st.host) = NPages(p + 1) /\ st.host \in Seq(Pages)
  /\ PageAt(st.host, p) \in Pages /\ p % PageSize \in Offsets
  /\ seq' = [seq EXCEPT ![s].cached = p + 1]
  /\ kv' = (IF tok = NoToken /\ kind = "capture" THEN kv
            ELSE [kv EXCEPT ![PageAt(st.host, p)][p % PageSize] = tok])
  /\ ran' = [s |-> s, kind |-> kind, pages |-> SubSeq(st.host, 1, NPages(p + 1)), pos |-> p]
  /\ lost' = IF tok = Token(s, p) THEN lost ELSE [lost EXCEPT ![s] = @ \cup {p}]
  /\ tokBuf' = IF fwd.src = "static" \/ writes THEN Token(s, p + 1) ELSE tokBuf

\* What the end of a forward does to the sequences and to the K/V.
LEMMA FinishesFacts ==
  ASSUME GraphInv, fwd # Nothing, NEW kind, NEW tok \in Tokens, NEW writes \in BOOLEAN,
         Finishes(kind, st.gen, tok, writes)
  PROVE  \E s \in Seqs, p \in Nat \ {0} :
           EndsFor(kind, tok, writes, s, p)
<1> DEFINE s == fwd.s
           p == seq[s].cached
<1>1. s \in Seqs /\ PlannedFor(s) /\ TableOK(s)
  BY DEF GraphInv, GTypes, Forward, Owned
<1>2. seq[s] \in SeqRecs
  BY <1>1 DEF GraphInv, GTypes
<1>3. p \in Nat \ {0} /\ p < MaxLen
  BY <1>1, <1>2, GraphAssumption DEF PlannedFor, TableOK, SeqRecs
<1>4. st.gen \in 1..MaxGen /\ st.host \in Seq(Pages)
  BY <1>1 DEF GraphInv, GTypes, PlannedFor
<1>5. mem[st.gen] \in [pages : Seq(Pages), n : Nat, pos : Nat]
  BY <1>4 DEF GraphInv, GTypes
<1>6. mem[st.gen].pages = st.host /\ mem[st.gen].n = NPages(p + 1) /\ mem[st.gen].pos = p
      /\ Len(st.host) = NPages(p + 1)
  BY <1>1, <1>4 DEF GraphInv, Buffers, PlannedFor
<1>7. mem[st.gen] = [pages |-> st.host, n |-> NPages(p + 1), pos |-> p]
  BY <1>5, <1>6
<1>8. p % PageSize \in Offsets /\ p \div PageSize + 1 \in 1..Len(st.host)
  <2>1. \A x \in Nat : x % PageSize \in Offsets /\ x \div PageSize + 1 \in 1..NPages(x + 1)
    BY PlaceFacts
  <2> QED BY <2>1, <1>3, <1>6
<1>9. PageAt(st.host, p) \in Pages
  BY <1>4, <1>8 DEF PageAt
<1>10. Own = Token(s, p)
  BY DEF Own
<1>11. seq' = [seq EXCEPT ![s].cached = p + 1]
  BY <1>1 DEF Finishes, GraphInv, GTypes
<1>12. kv' = (IF tok = NoToken /\ kind = "capture" THEN kv
                     ELSE [kv EXCEPT ![PageAt(st.host, p)][p % PageSize] = tok])
  BY <1>6 DEF Finishes, Written
<1>13. ran' = [s |-> s, kind |-> kind, pages |-> SubSeq(st.host, 1, NPages(p + 1)), pos |-> p]
  BY <1>6 DEF Finishes
<1>14. lost' = IF tok = Token(s, p) THEN lost ELSE [lost EXCEPT ![s] = @ \cup {p}]
  BY <1>6, <1>10 DEF Finishes
<1>15. tokBuf' = IF fwd.src = "static" \/ writes THEN Token(s, p + 1) ELSE tokBuf
  BY <1>6 DEF Finishes
<1> HIDE DEF s, p
<1>16. s = fwd.s /\ p = seq[s].cached
  BY DEF s, p
<1> QED
  BY <1>1, <1>3, <1>4, <1>6, <1>7, <1>8, <1>9, <1>10, <1>11, <1>12, <1>13, <1>14, <1>15, <1>16
  DEF EndsFor

\* The end of a forward keeps the invariant: it writes at the place of the next
\* position of its own sequence, or into pages that nobody has any more.
LEMMA FinishesKeeps ==
  ASSUME GraphInv, fwd # Nothing, NEW kind, NEW tok \in Tokens, NEW writes \in BOOLEAN,
         Finishes(kind, st.gen, tok, writes), cg' \in [graph : Graphs, disabled : BOOLEAN]
  PROVE  GraphInv'
<1>1. PICK s \in Seqs, p \in Nat \ {0} :
        EndsFor(kind, tok, writes, s, p)
  BY FinishesFacts
<1> USE DEF EndsFor
<1>2. PICK pg \in Pages, o \in Offsets : pg = PageAt(st.host, p) /\ o = p % PageSize
  BY <1>1
<1>3. seq \in [Seqs -> SeqRecs] /\ kv \in [Pages -> [Offsets -> Tokens]]
      /\ lost \in [Seqs -> SUBSET Nat]
  BY DEF GraphInv, GTypes
<1>4. UNCHANGED <<tree, st, mem, burst>> /\ fwd' = Nothing
  BY DEF Finishes
<1>5. /\ \A t \in Seqs : seq'[t].st = seq[t].st /\ seq'[t].table = seq[t].table
      /\ \A t \in Seqs \ {s} : seq'[t] = seq[t]
      /\ seq'[s].cached = p + 1
      /\ seq' \in [Seqs -> SeqRecs]
  <2>1. seq[s] \in SeqRecs /\ MaxLen \in Nat /\ p + 1 \in 0..MaxLen
    BY <1>1, <1>3, GraphAssumption
  <2> DEFINE u == [seq[s] EXCEPT !.cached = p + 1]
  <2>2. u \in SeqRecs /\ u.st = seq[s].st /\ u.table = seq[s].table /\ u.cached = p + 1
    BY <2>1 DEF SeqRecs
  <2>3. seq' = [seq EXCEPT ![s] = u]
    BY <1>1
  <2> HIDE DEF u
  <2> QED BY <2>2, <2>3, <1>3
<1>6. /\ kv' \in [Pages -> [Offsets -> Tokens]]
      /\ \A q \in Pages \ {pg} : kv'[q] = kv[q]
      /\ \A x \in Offsets \ {o} : kv'[pg][x] = kv[pg][x]
      /\ tok = Token(s, p) => kv'[pg][o] = Token(s, p)
  <2>1. CASE tok = NoToken /\ kind = "capture"
    <3>1. tok # Token(s, p)
      BY <2>1, OwnIsToken
    <3>2. kv' = kv
      BY <1>1, <2>1
    <3> QED BY <3>1, <3>2, <1>3
  <2>2. CASE ~ (tok = NoToken /\ kind = "capture")
    <3>1. kv' = [kv EXCEPT ![pg][o] = tok]
      BY <1>1, <1>2, <2>2
    <3> DEFINE u == [kv[pg] EXCEPT ![o] = tok]
    <3>2. u \in [Offsets -> Tokens] /\ u[o] = tok /\ \A x \in Offsets \ {o} : u[x] = kv[pg][x]
      BY <1>3
    <3>3. kv' = [kv EXCEPT ![pg] = u]
      BY <3>1
    <3> HIDE DEF u
    <3> QED BY <3>2, <3>3, <1>3
  <2> QED BY <2>1, <2>2
<1>7. /\ \A t \in Seqs \ {s} : lost'[t] = lost[t]
      /\ \A i \in lost[s] : i \in lost'[s]
      /\ tok # Token(s, p) => p \in lost'[s]
      /\ lost' \in [Seqs -> SUBSET Nat]
  BY <1>1, <1>3
<1>8. PlannedFor(s) /\ fwd \in [s : Seqs, src : {"static", "fresh"}, n : Nat]
  BY <1>1 DEF GraphInv, GTypes, Forward
<1>9. tokBuf' \in Tokens /\ (burst = <<s>> => tokBuf' = Token(s, p + 1))
  <2>1. Token(s, p + 1) \in Tokens
    <3>1. p + 1 \in 0..MaxLen
      BY <1>1, GraphAssumption
    <3> QED BY <3>1 DEF Tokens
  <2>2. burst = <<s>> => fwd.src = "static"
    BY <1>8 DEF PlannedFor, Nothing
  <2> QED BY <2>1, <2>2, <1>1 DEF GraphInv, GTypes
<1>10. GTypes'
  BY <1>4, <1>5, <1>6, <1>7, <1>9 DEF GraphInv, GTypes
<1>11. seq[s].st = "running" =>
         /\ NPages(p + 1) <= Len(seq[s].table) /\ st.host = SubSeq(seq[s].table, 1, NPages(p + 1))
  BY <1>1, <1>8 DEF PlannedFor
<1>12. Owned'
  <2>1. \A t \in Seqs : TableOK(t)'
    <3> TAKE t \in Seqs
    <3>1. TableOK(t)
      BY DEF GraphInv, Owned
    <3>2. CASE t # s
      BY <3>1, <3>2, <1>5 DEF TableOK
    <3>3. CASE t = s
      BY <3>1, <3>3, <1>5, <1>11 DEF TableOK
    <3> QED BY <3>2, <3>3
  <2>2. \A t, v \in Seqs : t # v => Apart(t, v)'
    BY <1>5 DEF GraphInv, Owned, Apart
  <2>3. \A t \in Seqs, q \in tree' : q \notin ToSet(seq'[t].table)
    BY <1>4, <1>5 DEF GraphInv, Owned
  <2> QED BY <2>1, <2>2, <2>3 DEF Owned
<1>13. Buffers'
  BY <1>4 DEF GraphInv, Buffers
<1>14. Forward'
  BY <1>4 DEF Forward
<1>15. BurstFed'
  <2> SUFFICES ASSUME NEW t \in Seqs, burst' = <<t>>
               PROVE  seq'[t].st # "new" /\ tokBuf' = Token(t, seq'[t].cached)
    BY DEF BurstFed
  <2>1. burst = <<t>> /\ (burst = <<s>> \/ burst = <<>>)
    BY <1>4, <1>8 DEF PlannedFor, Nothing
  <2>2. t = s
    BY <2>1
  <2>3. seq[s].st # "new"
    BY <1>8 DEF PlannedFor
  <2> QED BY <2>1, <2>2, <2>3, <1>5, <1>9
<1>16. PlanCurrent'
  <2>1. ran'.s = s /\ ran'.pos = p /\ ran'.pages = SubSeq(st.host, 1, NPages(p + 1))
    BY <1>1
  <2>2. SubSeq(st.host, 1, NPages(p + 1)) = st.host
    <3>1. NPages(p + 1) \in Nat
      BY PlaceFacts
    <3> QED BY <3>1, <1>1, PrefixFacts
  <2>3. p = seq'[s].cached - 1
    BY <1>5
  <2> QED BY <2>1, <2>2, <2>3, <1>5, <1>11 DEF PlanCurrent
<1>17. HistoryIntact'
  <2> SUFFICES ASSUME NEW t \in Seqs, seq'[t].st = "running", NEW i \in 0..(seq'[t].cached - 1)
               PROVE  i \in lost'[t] \/ kv'[PageAt(seq'[t].table, i)][i % PageSize] = Token(t, i)
    BY DEF HistoryIntact
  <2>1. seq[t].st = "running" /\ seq'[t].table = seq[t].table /\ TableOK(t) /\ i \in Nat
        /\ seq[t] \in SeqRecs /\ seq[t].table \in Seq(Pages) /\ seq[t].cached \in Nat
    BY <1>5, <1>3 DEF GraphInv, Owned, SeqRecs
  <2> DEFINE tb == seq[t].table
             place == i \div PageSize + 1
  <2>2. CASE t # s
    <3>1. i \in 0..(seq[t].cached - 1) /\ lost'[t] = lost[t]
      BY <2>2, <1>5, <1>7
    <3>2. i \in lost[t] \/ kv[PageAt(tb, i)][i % PageSize] = Token(t, i)
      BY <2>1, <3>1 DEF GraphInv, HistoryIntact
    <3>3. place \in 1..Len(tb)
      <4>1. place \in 1..NPages(seq[t].cached) /\ NPages(seq[t].cached) \in Nat
        <5>1. \A n, m \in Nat : m < n => m \div PageSize + 1 \in 1..NPages(n) /\ NPages(n) \in Nat
          BY PageFacts
        <5>2. i < seq[t].cached
          BY <2>1, <3>1
        <5> QED BY <5>1, <5>2, <2>1
      <4>2. Len(tb) \in Nat /\ NPages(seq[t].cached) <= Len(tb)
        BY <2>1 DEF TableOK
      <4> QED BY <4>1, <4>2
    <3>4. tb[place] \in Pages /\ tb[place] \in ToSet(tb)
      BY <3>3, <2>1 DEF ToSet
    <3>5. pg \in ToSet(st.host)
      <4>1. p \div PageSize + 1 \in DOMAIN st.host
        BY <1>1, PlaceFacts
      <4> QED BY <4>1, <1>2 DEF ToSet, PageAt
    <3>6. tb[place] # pg
      BY <3>4, <3>5, <2>2, <1>8 DEF PlannedFor
    <3>7. kv'[tb[place]] = kv[tb[place]]
      BY <3>4, <3>6, <1>6
    <3> QED BY <3>1, <3>2, <3>7, <2>1 DEF PageAt
  <2>3. CASE t = s
    <3>1. NPages(p + 1) \in Nat /\ NPages(p + 1) <= Len(tb) /\ st.host = SubSeq(tb, 1, NPages(p + 1))
      BY <2>1, <2>3, <1>11, PlaceFacts
    <3>2. \A k \in 1..NPages(p + 1) : st.host[k] = tb[k]
      BY <3>1, <2>1, PrefixFacts
    <3>3. p \div PageSize + 1 \in 1..NPages(p + 1) /\ pg = tb[p \div PageSize + 1]
      BY <3>2, <1>2, PlaceFacts DEF PageAt
    <3>4. CASE i = p
      BY <3>3, <3>4, <1>2, <1>6, <1>7, <2>1, <2>3 DEF PageAt
    <3>5. CASE i # p
      <4>1. i \in 0..(p - 1)
        BY <3>5, <2>3, <1>5
      <4>2. i \in lost[t] \/ kv[PageAt(tb, i)][i % PageSize] = Token(t, i)
        BY <2>1, <4>1, <2>3, <1>1 DEF GraphInv, HistoryIntact
      <4>3. place \in 1..NPages(p + 1) /\ i % PageSize \in Offsets /\ i \div PageSize \in Nat
        <5>1. p + 1 \in Nat /\ i < p + 1
          BY <4>1
        <5> QED BY <5>1, <2>1, PageFacts
      <4>4. place \in DOMAIN tb /\ p \div PageSize + 1 \in DOMAIN tb /\ tb[place] \in Pages
        BY <4>3, <3>3, <3>1, <2>1
      <4>5. tb[place] = pg => i % PageSize # o
        <5> SUFFICES ASSUME tb[place] = pg, i % PageSize = o PROVE FALSE
          OBVIOUS
        <5>1. place = p \div PageSize + 1
          BY <4>4, <3>3, <2>1 DEF TableOK, IsInjective
        <5>2. p \div PageSize \in Nat
          BY PageFacts
        <5>3. i \div PageSize = p \div PageSize
          BY <5>1, <5>2, <4>3
        <5>4. i = p
          BY <5>3, <1>2, <2>1, SamePlace
        <5> QED BY <5>4, <3>5
      <4>6. kv'[tb[place]][i % PageSize] = kv[tb[place]][i % PageSize]
        BY <4>3, <4>4, <4>5, <1>6
      <4> QED BY <4>2, <4>6, <2>1, <2>3, <1>7 DEF PageAt
    <3> QED BY <3>4, <3>5
  <2> QED BY <2>2, <2>3
<1> QED
  BY <1>10, <1>12, <1>13, <1>14, <1>15, <1>16, <1>17 DEF GraphInv

\* The graph that maybe_run goes on with.
LEMMA NowFacts ==
  ASSUME GraphInv
  PROVE  /\ Now \in Graphs /\ NoGraph \in Graphs /\ NoGraph.captured = FALSE
         /\ cg.graph \in Graphs /\ cg.disabled \in BOOLEAN /\ WarmupNeed \in Nat
         /\ Now.captured => Now = cg.graph /\ cg.graph.gen = st.gen
<1>1. WarmupNeed \in Nat /\ 0 \in 0..WarmupNeed
  BY GraphAssumption
<1>2. cg.graph \in Graphs /\ cg.disabled \in BOOLEAN
  BY DEF GraphInv, GTypes
<1>3. NoGraph \in Graphs
  BY <1>1 DEF NoGraph, Graphs
<1>4. NoGraph.captured = FALSE
  BY DEF NoGraph
<1>5. Now \in {cg.graph, NoGraph}
  BY DEF Now, Invalidated
<1>6. Now.captured => Now = cg.graph /\ cg.graph.gen = st.gen
  <2> SUFFICES ASSUME Now.captured PROVE Now = cg.graph /\ cg.graph.gen = st.gen
    OBVIOUS
  <2>1. Now = cg.graph
    BY <1>4, <1>5
  <2>2. cg.graph.captured
    BY <2>1
  <2>3. ~ (fwd.n > cg.graph.cap \/ cg.graph.gen # st.gen \/ cg.graph.cap # st.cap)
    <3> SUFFICES ASSUME fwd.n > cg.graph.cap \/ cg.graph.gen # st.gen \/ cg.graph.cap # st.cap
                 PROVE FALSE
      OBVIOUS
    <3>1. Now = NoGraph
      BY <2>2 DEF Now, Invalidated
    <3> QED BY <3>1, <1>4
  <2> QED BY <2>1, <2>3
<1> QED BY <1>1, <1>2, <1>3, <1>4, <1>5, <1>6

\* The token that an eager step is fed: its own.
LEMMA InputIsOwn ==
  ASSUME GraphInv, fwd # Nothing
  PROVE  InputToken = Own /\ Own \in Tokens /\ st.wrapper = st.gen /\ fwd.src \in {"static", "fresh"}
<1>1. fwd \in [s : Seqs, src : {"static", "fresh"}, n : Nat] /\ PlannedFor(fwd.s)
      /\ fwd.s \in Seqs
  BY DEF GraphInv, GTypes, Forward
<1>2. seq[fwd.s] \in SeqRecs
  BY <1>1 DEF GraphInv, GTypes
<1>3. Own \in Tokens
  BY <1>1, <1>2 DEF Own, Tokens, SeqRecs
<1>4. InputToken = Own
  <2>1. CASE fwd.src = "static"
    <3>1. burst = <<fwd.s>>
      BY <1>1, <2>1 DEF PlannedFor
    <3>2. tokBuf = Token(fwd.s, seq[fwd.s].cached)
      BY <1>1, <3>1 DEF GraphInv, BurstFed
    <3> QED BY <3>2, <2>1 DEF InputToken, Own
  <2>2. CASE fwd.src # "static"
    BY <2>2 DEF InputToken
  <2> QED BY <2>1, <2>2
<1> QED BY <1>1, <1>3, <1>4 DEF PlannedFor

\* Warming the graph up by one more step keeps its type.
LEMMA WarmerType ==
  ASSUME GraphInv, Now.warm < WarmupNeed
  PROVE  [cg EXCEPT !.graph = [Now EXCEPT !.warm = @ + 1]] \in [graph : Graphs, disabled : BOOLEAN]
<1>1. Now \in Graphs /\ WarmupNeed \in Nat
  BY NowFacts
<1>2. Now.warm + 1 \in 0..WarmupNeed
  BY <1>1 DEF Graphs
<1>3. [Now EXCEPT !.warm = @ + 1] \in Graphs
  BY <1>1, <1>2 DEF Graphs
<1>4. cg \in [graph : Graphs, disabled : BOOLEAN]
  BY DEF GraphInv, GTypes
<1> QED BY <1>3, <1>4

\* An eager step keeps the invariant.
LEMMA RunEagerKeeps ==
  ASSUME GraphInv, RunEager
  PROVE  GraphInv'
<1>1. fwd # Nothing
  BY DEF RunEager, InBody
<1>2. cg \in [graph : Graphs, disabled : BOOLEAN]
  BY DEF GraphInv, GTypes
<1>3. cg' \in [graph : Graphs, disabled : BOOLEAN]
  BY <1>2, WarmerType DEF RunEager
<1>4. Finishes("eager", st.gen, InputToken, FALSE) /\ InputToken \in Tokens
  BY <1>1, InputIsOwn DEF RunEager
<1>5. FALSE \in BOOLEAN
  OBVIOUS
<1> QED BY <1>1, <1>3, <1>4, <1>5, FinishesKeeps

\* A capture keeps the invariant.
LEMMA RunCaptureKeeps ==
  ASSUME GraphInv, RunCapture
  PROVE  GraphInv'
<1>1. fwd # Nothing
  BY DEF RunCapture, InBody
<1>2. cg \in [graph : Graphs, disabled : BOOLEAN] /\ st.gen \in Int /\ st.cap \in Int
  BY DEF GraphInv, GTypes
<1>3. [captured |-> TRUE, gen |-> st.gen, cap |-> st.cap, warm |-> WarmupNeed, tok |-> fwd.src]
        \in Graphs
  <2>1. fwd.src \in {"static", "fresh"} /\ WarmupNeed \in 0..WarmupNeed
    BY <1>1, InputIsOwn, GraphAssumption
  <2> QED BY <1>2, <2>1 DEF Graphs
<1>4. cg' \in [graph : Graphs, disabled : BOOLEAN]
  BY <1>2, <1>3 DEF RunCapture
<1>5. Finishes("capture", st.gen, NoToken, FALSE) /\ NoToken \in Tokens
  <2>1. NoToken \in Tokens
    BY DEF Tokens
  <2> QED BY <1>1, <2>1, InputIsOwn DEF RunCapture
<1>6. FALSE \in BOOLEAN
  OBVIOUS
<1> QED BY <1>1, <1>4, <1>5, <1>6, FinishesKeeps

\* A capture that fails, and the eager step in its place, keep it.
LEMMA CaptureFailsKeeps ==
  ASSUME GraphInv, CaptureFails
  PROVE  GraphInv'
<1>1. fwd # Nothing
  BY DEF CaptureFails, InBody
<1>2. cg' \in [graph : Graphs, disabled : BOOLEAN]
  BY NowFacts DEF CaptureFails
<1>3. Finishes("eager", st.gen, InputToken, FALSE) /\ InputToken \in Tokens
  BY <1>1, InputIsOwn DEF CaptureFails
<1>4. FALSE \in BOOLEAN
  OBVIOUS
<1> QED BY <1>1, <1>2, <1>3, <1>4, FinishesKeeps

\* A replay keeps it: the graph is of the latest buffers, or has been dropped.
LEMMA RunReplayKeeps ==
  ASSUME GraphInv, RunReplay
  PROVE  GraphInv'
<1>1. fwd # Nothing
  BY DEF RunReplay, InBody
<1>2. cg' \in [graph : Graphs, disabled : BOOLEAN]
  BY DEF RunReplay, GraphInv, GTypes
<1>3. cg.graph.gen = st.gen
  BY NowFacts DEF RunReplay
<1>4. PICK tok \in {tokBuf, Own, NoToken} :
        Finishes("replay", st.gen, tok, Native /\ cg.graph.tok = "static")
  BY <1>3 DEF RunReplay
<1>5. tok \in Tokens
  <2>1. tokBuf \in Tokens /\ NoToken \in Tokens
    BY DEF GraphInv, GTypes, Tokens
  <2> QED BY <1>1, <2>1, InputIsOwn
<1>6. PICK w \in BOOLEAN : Finishes("replay", st.gen, tok, w)
  <2>1. (Native /\ cg.graph.tok = "static") \in BOOLEAN
    OBVIOUS
  <2> QED BY <1>4, <2>1
<1> QED BY <1>1, <1>2, <1>5, <1>6, FinishesKeeps

----------------------------------------------------------------------------
(* The end of a sequence, and the burst *)

\* s ends: its table is emptied.
Ends(s) ==
  /\ seq' \in [Seqs -> SeqRecs]
  /\ \A t \in Seqs \ {s} : seq'[t] = seq[t]
  /\ seq'[s].st = "done" /\ seq'[s].table = <<>> /\ seq'[s].cached = seq[s].cached

\* mark_finished's change of the sequence.
LEMMA EndsFacts ==
  ASSUME GraphInv, NEW s \in Seqs,
         \/ seq' = [seq EXCEPT ![s].st = "done", ![s].table = <<>>]
         \/ seq' = [seq EXCEPT ![s] = [@ EXCEPT !.st = "done", !.table = <<>>]]
  PROVE  Ends(s)
<1>1. seq \in [Seqs -> SeqRecs] /\ seq[s] \in SeqRecs /\ <<>> \in Seq(Pages)
  BY DEF GraphInv, GTypes
<1> DEFINE u == [seq[s] EXCEPT !.st = "done", !.table = <<>>]
<1>2. u \in SeqRecs /\ u.st = "done" /\ u.table = <<>> /\ u.cached = seq[s].cached
  BY <1>1 DEF SeqRecs
<1>3. seq' = [seq EXCEPT ![s] = u]
  BY <1>1
<1> HIDE DEF u
<1> QED BY <1>1, <1>2, <1>3 DEF Ends

\* A sequence that ends takes nothing from the others.
LEMMA EndsKeeps ==
  ASSUME GraphInv, NEW s \in Seqs, Ends(s), seq[s].st # "new", UNCHANGED <<kv, tree, lost>>
  PROVE  Owned' /\ HistoryIntact'
<1> USE DEF Ends
<1>0. ToSet(<<>>) = {} /\ IsInjective(<<>>) /\ Len(<<>>) = 0 /\ NPages(MaxLen) \in Nat
  BY PageFacts, GraphAssumption DEF ToSet, IsInjective
<1>1. \A t \in Seqs : TableOK(t)'
  <2> TAKE t \in Seqs
  <2>1. TableOK(t)
    BY DEF GraphInv, Owned
  <2>2. CASE t # s
    BY <2>1, <2>2 DEF TableOK
  <2>3. CASE t = s
    BY <2>1, <2>3, <1>0 DEF TableOK
  <2> QED BY <2>2, <2>3
<1>2. \A t \in Seqs : seq'[t].table = seq[t].table \/ ToSet(seq'[t].table) = {}
  BY <1>0
<1>3. \A t, v \in Seqs : t # v => Apart(t, v)'
  BY <1>2 DEF GraphInv, Owned, Apart
<1>4. \A t \in Seqs, q \in tree' : q \notin ToSet(seq'[t].table)
  BY <1>2 DEF GraphInv, Owned
<1>5. HistoryIntact'
  BY DEF GraphInv, HistoryIntact
<1> QED BY <1>1, <1>3, <1>4, <1>5 DEF Owned

\* mark_finished keeps it, at the end of a step or between plan and body.
LEMMA FinishKeeps ==
  ASSUME GraphInv, NEW s \in Seqs, Finish(s)
  PROVE  GraphInv'
<1>1. Ends(s) /\ seq[s].st = "running"
  BY EndsFacts DEF Finish
<1>2. UNCHANGED <<kv, tree, st, mem, tokBuf, cg, fwd, burst, lost>> /\ ran' = Nothing
  BY DEF Finish
<1>3. Owned' /\ HistoryIntact'
  BY <1>1, <1>2, EndsKeeps
<1>4. GTypes'
  BY <1>1, <1>2 DEF GraphInv, GTypes, Ends
<1>5. Buffers' /\ PlanCurrent'
  BY <1>2 DEF GraphInv, Buffers, PlanCurrent
<1>6. BurstFed'
  BY <1>1, <1>2 DEF GraphInv, BurstFed, Ends
<1>7. Forward'
  <2> SUFFICES ASSUME fwd # Nothing PROVE PlannedFor(fwd.s)'
    BY <1>2 DEF Forward
  <2>1. PICK x \in Seqs : x = fwd.s
    BY DEF GraphInv, GTypes
  <2>2. PlannedFor(x) /\ seq[x] \in SeqRecs /\ seq[s] \in SeqRecs
    BY <2>1 DEF GraphInv, Forward, GTypes
  <2>3. \A t \in Seqs, p \in Pages : p \in ToSet(seq'[t].table) => p \in ToSet(seq[t].table)
    <3>1. ToSet(<<>>) = {}
      BY DEF ToSet
    <3> QED BY <1>1, <3>1 DEF Ends
  <2>4. CASE x = s
    BY <2>1, <2>2, <2>3, <2>4, <1>1, <1>2 DEF PlannedFor, Ends
  <2>5. CASE x # s
    BY <2>1, <2>2, <2>3, <2>5, <1>1, <1>2 DEF PlannedFor, Ends
  <2> QED BY <2>4, <2>5
<1> QED BY <1>3, <1>4, <1>5, <1>6, <1>7 DEF GraphInv

\* A body that raises keeps the invariant.
LEMMA BodyRaisesKeeps ==
  ASSUME GraphInv, BodyRaises
  PROVE  GraphInv'
<1>1. UNCHANGED <<kv, tree, st, mem, tokBuf, lost>>
      /\ fwd' = Nothing /\ burst' = Nothing /\ ran' = Nothing
  BY DEF BodyRaises
<1>2. cg' \in [graph : Graphs, disabled : BOOLEAN]
  <2>1. cg \in [graph : Graphs, disabled : BOOLEAN]
    BY DEF GraphInv, GTypes
  <2>2. [graph |-> NoGraph, disabled |-> TRUE] \in [graph : Graphs, disabled : BOOLEAN]
    BY NowFacts
  <2> QED BY <2>1, <2>2, WarmerType DEF BodyRaises
<1>3. Buffers' /\ PlanCurrent' /\ Forward'
  BY <1>1 DEF GraphInv, Buffers, PlanCurrent, Forward
<1>4. BurstFed'
  BY <1>1 DEF BurstFed, Nothing
<1>5. PICK s \in Seqs : s = fwd.s /\ PlannedFor(s)
  BY DEF BodyRaises, InBody, GraphInv, GTypes, Forward
<1>6. seq' = seq \/ Ends(s)
  BY <1>5, EndsFacts DEF BodyRaises
<1>7. CASE seq' = seq
  <2>1. GTypes'
    BY <1>1, <1>2, <1>7 DEF GraphInv, GTypes
  <2>2. Owned' /\ HistoryIntact'
    BY <1>1, <1>7 DEF GraphInv, Owned, TableOK, Apart, HistoryIntact
  <2> QED BY <2>1, <2>2, <1>3, <1>4 DEF GraphInv
<1>8. CASE Ends(s)
  <2>1. GTypes'
    BY <1>1, <1>2, <1>8 DEF GraphInv, GTypes, Ends
  <2>2. Owned' /\ HistoryIntact'
    BY <1>1, <1>5, <1>8, EndsKeeps DEF PlannedFor
  <2> QED BY <2>1, <2>2, <1>3, <1>4 DEF GraphInv
<1> QED BY <1>6, <1>7, <1>8

\* A burst that starts has put the token of its sequence into the buffer.
LEMMA StartBurstKeeps ==
  ASSUME GraphInv, NEW s \in Seqs, StartBurst(s)
  PROVE  GraphInv'
<1>1. /\ UNCHANGED <<seq, kv, tree, st, mem, cg, fwd, ran, lost>> /\ fwd = Nothing
      /\ burst' = <<s>> /\ tokBuf' = Token(s, seq[s].cached) /\ seq[s].st = "running"
  BY DEF StartBurst
<1>2. tokBuf' \in Tokens
  <2>1. seq[s].cached \in 0..MaxLen
    BY DEF GraphInv, GTypes, SeqRecs
  <2> QED BY <1>1, <2>1 DEF Tokens
<1>3. GTypes'
  BY <1>1, <1>2 DEF GraphInv, GTypes
<1>4. Owned' /\ HistoryIntact' /\ Buffers' /\ PlanCurrent'
  BY <1>1 DEF GraphInv, Owned, TableOK, Apart, HistoryIntact, Buffers, PlanCurrent
<1>5. Forward'
  BY <1>1 DEF Forward
<1>6. BurstFed'
  <2> SUFFICES ASSUME NEW t \in Seqs, burst' = <<t>>
               PROVE  seq'[t].st # "new" /\ tokBuf' = Token(t, seq'[t].cached)
    BY DEF BurstFed
  <2>1. t = s
    BY <1>1
  <2> QED BY <2>1, <1>1
<1> QED BY <1>3, <1>4, <1>5, <1>6 DEF GraphInv

\* The end of a burst keeps the invariant.
LEMMA EndBurstKeeps ==
  ASSUME GraphInv, EndBurst
  PROVE  GraphInv'
<1>1. /\ UNCHANGED <<seq, kv, tree, st, mem, tokBuf, cg, fwd, ran, lost>> /\ fwd = Nothing
      /\ burst' = Nothing
  BY DEF EndBurst
<1>2. GTypes'
  BY <1>1 DEF GraphInv, GTypes
<1>3. Owned' /\ HistoryIntact' /\ Buffers' /\ PlanCurrent'
  BY <1>1 DEF GraphInv, Owned, TableOK, Apart, HistoryIntact, Buffers, PlanCurrent
<1>4. Forward' /\ BurstFed'
  BY <1>1 DEF Forward, BurstFed, Nothing
<1> QED BY <1>2, <1>3, <1>4 DEF GraphInv

----------------------------------------------------------------------------
(* Pages that are handed out *)

\* The place of a cached position is in the table of a running sequence.
LEMMA HeldPlace ==
  ASSUME NEW t, TableOK(t), seq[t].st = "running", seq[t] \in SeqRecs,
         NEW i \in 0..(seq[t].cached - 1)
  PROVE  i \div PageSize + 1 \in 1..Len(seq[t].table) /\ i % PageSize \in Offsets
<1>1. seq[t].cached \in Nat /\ i \in Nat /\ i < seq[t].cached /\ seq[t].table \in Seq(Pages)
  BY DEF SeqRecs
<1>2. \A n, m \in Nat : m < n => /\ m \div PageSize + 1 \in 1..NPages(n) /\ NPages(n) \in Nat
                                 /\ m % PageSize \in Offsets
  BY PageFacts
<1>3. /\ i \div PageSize + 1 \in 1..NPages(seq[t].cached) /\ NPages(seq[t].cached) \in Nat
      /\ i % PageSize \in Offsets
  BY <1>1, <1>2
<1>4. Len(seq[t].table) \in Nat /\ NPages(seq[t].cached) <= Len(seq[t].table)
  BY <1>1 DEF TableOK
<1> QED BY <1>3, <1>4

\* What allocate_blocks returns: distinct pages that nobody has.
LEMMA FreshFacts ==
  ASSUME NEW k \in Nat, NEW t \in Fresh(k)
  PROVE  /\ t \in Seq(Pages) /\ Len(t) = k /\ IsInjective(t)
         /\ \A p \in ToSet(t) : p \in Free
<1>1. t \in [1..k -> Free] /\ IsInjective(t) /\ Free \subseteq Pages
  BY DEF Fresh, Free
<1>2. t \in Seq(Pages) /\ Len(t) = k /\ DOMAIN t = 1..k
  BY <1>1
<1> QED BY <1>1, <1>2 DEF ToSet

\* A free page is in no table and not in the tree.
LEMMA FreeFacts ==
  ASSUME NEW p \in Free
  PROVE  p \in Pages /\ p \notin tree /\ \A s \in Seqs : p \notin ToSet(seq[s].table)
  BY DEF Free

\* The K/V after the prefill of s into the pages of table.
PromptWritten(s, table, k) ==
  [p \in Pages |-> [o \in 0..(PageSize - 1) |->
     LET at == {i \in 0..(PromptLen - 1) : PageAt(table, i) = p /\ i % PageSize = o}
     IN  IF at = {} THEN k[p][o] ELSE Token(s, CHOOSE i \in at : TRUE)]]

\* The prompt's K/V goes to its own pages, one place for each position.
LEMMA PrefillWrites ==
  ASSUME NEW s \in Seqs, NEW table \in Seq(Pages), Len(table) = NPages(PromptLen),
         IsInjective(table), NEW k \in [Pages -> [Offsets -> Tokens]]
  PROVE  /\ PromptWritten(s, table, k) \in [Pages -> [Offsets -> Tokens]]
         /\ \A p \in Pages, o \in Offsets :
              p \notin ToSet(table) => PromptWritten(s, table, k)[p][o] = k[p][o]
         /\ \A i \in 0..(PromptLen - 1) :
              /\ i \div PageSize + 1 \in 1..Len(table)
              /\ PromptWritten(s, table, k)[PageAt(table, i)][i % PageSize] = Token(s, i)
<1> DEFINE k2 == PromptWritten(s, table, k)
<1> DEFINE at(p, o) == {i \in 0..(PromptLen - 1) : PageAt(table, i) = p /\ i % PageSize = o}
           cell(p, o) == IF at(p, o) = {} THEN k[p][o] ELSE Token(s, CHOOSE i \in at(p, o) : TRUE)
<1>1. k2 = [p \in Pages |-> [o \in Offsets |-> cell(p, o)]]
  BY DEF Offsets, PromptWritten
<1>a. \A p \in Pages : k2[p] = [o \in Offsets |-> cell(p, o)]
  <2> HIDE DEF cell, k2
  <2> QED BY <1>1
<1>b. \A p \in Pages, o \in Offsets : k2[p][o] = cell(p, o)
  <2> HIDE DEF cell, k2
  <2> QED BY <1>a
<1>c. k2 = [p \in Pages |-> k2[p]]
  <2> DEFINE row(p) == [o \in Offsets |-> cell(p, o)]
  <2>1. k2 = [p \in Pages |-> row(p)]
    BY <1>1
  <2> HIDE DEF row, k2
  <2> QED BY <2>1
<1> HIDE DEF k2
<1>2. PromptLen \in Nat /\ MaxLen \in Nat /\ PromptLen < MaxLen
  BY GraphAssumption
<1>3. \A i \in 0..(PromptLen - 1) :
        /\ i \div PageSize + 1 \in 1..Len(table) /\ i % PageSize \in Offsets
        /\ PageAt(table, i) \in ToSet(table) /\ PageAt(table, i) \in Pages
  <2> TAKE i \in 0..(PromptLen - 1)
  <2>1. i \in Nat /\ i < PromptLen
    BY <1>2
  <2>2. i \div PageSize + 1 \in 1..Len(table) /\ i % PageSize \in Offsets
    BY <2>1, <1>2, PageFacts
  <2> QED BY <2>2 DEF PageAt, ToSet
<1>4. \A i, j \in 0..(PromptLen - 1) :
        PageAt(table, i) = PageAt(table, j) /\ i % PageSize = j % PageSize => i = j
  <2> TAKE i \in 0..(PromptLen - 1), j \in 0..(PromptLen - 1)
  <2> HAVE PageAt(table, i) = PageAt(table, j) /\ i % PageSize = j % PageSize
  <2>1. i \in Nat /\ j \in Nat
    BY <1>2
  <2>2. i \div PageSize + 1 = j \div PageSize + 1
    BY <1>3 DEF PageAt, IsInjective
  <2>3. i \div PageSize \in Nat /\ j \div PageSize \in Nat
    BY <2>1, PageFacts
  <2> QED BY <2>1, <2>2, <2>3, SamePlace
<1>5. \A p \in Pages, o \in Offsets : cell(p, o) \in Tokens
  <2> TAKE p \in Pages, o \in Offsets
  <2>1. CASE at(p, o) = {}
    BY <2>1
  <2>2. CASE at(p, o) # {}
    <3>1. (CHOOSE i \in at(p, o) : TRUE) \in at(p, o)
      BY <2>2
    <3>2. PICK x \in 0..(PromptLen - 1) : x = (CHOOSE i \in at(p, o) : TRUE)
      BY <3>1
    <3>3. x \in 0..MaxLen
      BY <1>2
    <3>4. cell(p, o) = Token(s, x)
      BY <2>2, <3>2
    <3>5. Token(s, x) \in Tokens
      BY <3>3 DEF Tokens
    <3> QED BY <3>4, <3>5
  <2> QED BY <2>1, <2>2
<1>6. k2 \in [Pages -> [Offsets -> Tokens]]
  <2> HIDE DEF cell
  <2>1. \A p \in Pages : k2[p] \in [Offsets -> Tokens]
    BY <1>a, <1>5
  <2> QED BY <1>c, <2>1
<1>7. \A p \in Pages, o \in Offsets : p \notin ToSet(table) => k2[p][o] = k[p][o]
  <2> TAKE p \in Pages, o \in Offsets
  <2> HAVE p \notin ToSet(table)
  <2>1. at(p, o) = {}
    BY <1>3
  <2>2. cell(p, o) = k[p][o]
    BY <2>1
  <2> HIDE DEF cell
  <2> QED BY <1>b, <2>2
<1>8. \A i \in 0..(PromptLen - 1) : k2[PageAt(table, i)][i % PageSize] = Token(s, i)
  <2> TAKE i \in 0..(PromptLen - 1)
  <2>1. PICK p \in Pages, o \in Offsets : p = PageAt(table, i) /\ o = i % PageSize
    BY <1>3
  <2>2. at(p, o) = {i}
    BY <1>4, <2>1
  <2>3. cell(p, o) = Token(s, i)
    BY <2>2
  <2> HIDE DEF cell
  <2>4. k2[p][o] = cell(p, o)
    BY <1>b
  <2> QED BY <2>1, <2>3, <2>4
<1> QED BY <1>3, <1>6, <1>7, <1>8 DEF k2

\* A prefill into free pages keeps the invariant.
LEMMA PrefillKeeps ==
  ASSUME GraphInv, NEW s \in Seqs, Prefill(s)
  PROVE  GraphInv'
<1> DEFINE n == NPages(PromptLen)
<1>0. /\ PromptLen \in Nat \ {0} /\ MaxLen \in Nat /\ PromptLen \in 0..MaxLen
      /\ n \in Nat /\ NPages(MaxLen) \in Nat /\ n <= NPages(MaxLen)
  BY GraphAssumption, PageFacts
<1>1. PICK table \in Fresh(n) :
        /\ seq' = [seq EXCEPT ![s] = [st |-> "running", table |-> table, cached |-> PromptLen]]
        /\ kv' = PromptWritten(s, table, kv)
  BY DEF Prefill, PromptWritten
<1>2. /\ UNCHANGED <<tree, st, mem, tokBuf, cg, fwd, burst, lost>> /\ ran' = Nothing
      /\ fwd = Nothing /\ burst = Nothing
  BY DEF Prefill
<1>3. /\ table \in Seq(Pages) /\ Len(table) = n /\ IsInjective(table)
      /\ \A p \in ToSet(table) : p \in Free
  BY <1>0, FreshFacts
<1>4. kv \in [Pages -> [Offsets -> Tokens]] /\ seq \in [Seqs -> SeqRecs]
  BY DEF GraphInv, GTypes
<1>5. /\ kv' \in [Pages -> [Offsets -> Tokens]]
      /\ \A p \in Pages, o \in Offsets : p \notin ToSet(table) => kv'[p][o] = kv[p][o]
      /\ \A i \in 0..(PromptLen - 1) :
              /\ i \div PageSize + 1 \in 1..Len(table)
              /\ kv'[PageAt(table, i)][i % PageSize] = Token(s, i)
  BY <1>1, <1>3, <1>4, PrefillWrites
<1>6. /\ seq' \in [Seqs -> SeqRecs] /\ \A t \in Seqs \ {s} : seq'[t] = seq[t]
      /\ seq'[s].st = "running" /\ seq'[s].table = table /\ seq'[s].cached = PromptLen
  <2> DEFINE u == [st |-> "running", table |-> table, cached |-> PromptLen]
  <2>1. u \in SeqRecs /\ u.st = "running" /\ u.table = table /\ u.cached = PromptLen
    BY <1>0, <1>3 DEF SeqRecs
  <2>2. seq' = [seq EXCEPT ![s] = u]
    BY <1>1
  <2> HIDE DEF u
  <2> QED BY <2>1, <2>2, <1>4
<1>7. GTypes'
  BY <1>2, <1>5, <1>6 DEF GraphInv, GTypes
<1>8. \A p \in ToSet(table) : p \notin tree /\ \A t \in Seqs : p \notin ToSet(seq[t].table)
  BY <1>3, FreeFacts
<1>9. Owned'
  <2>1. \A t \in Seqs : TableOK(t)'
    <3> TAKE t \in Seqs
    <3>1. TableOK(t)
      BY DEF GraphInv, Owned
    <3>2. CASE t # s
      BY <3>1, <3>2, <1>6 DEF TableOK
    <3>3. CASE t = s
      BY <3>3, <1>0, <1>3, <1>6 DEF TableOK
    <3> QED BY <3>2, <3>3
  <2>2. \A t, v \in Seqs : t # v => Apart(t, v)'
    <3> TAKE t \in Seqs, v \in Seqs
    <3> HAVE t # v
    <3>1. Apart(t, v)
      BY DEF GraphInv, Owned
    <3>2. CASE t # s /\ v # s
      BY <3>1, <3>2, <1>6 DEF Apart
    <3>3. CASE t = s
      BY <3>3, <1>6, <1>8 DEF Apart
    <3>4. CASE v = s
      BY <3>4, <1>6, <1>8 DEF Apart
    <3> QED BY <3>2, <3>3, <3>4
  <2>3. \A t \in Seqs, p \in tree' : p \notin ToSet(seq'[t].table)
    BY <1>2, <1>6, <1>8 DEF GraphInv, Owned
  <2> QED BY <2>1, <2>2, <2>3 DEF Owned
<1>10. Buffers' /\ PlanCurrent' /\ Forward'
  BY <1>2 DEF GraphInv, Buffers, PlanCurrent, Forward
<1>11. BurstFed'
  BY <1>2 DEF BurstFed, Nothing
<1>12. HistoryIntact'
  <2> SUFFICES ASSUME NEW t \in Seqs, seq'[t].st = "running", NEW i \in 0..(seq'[t].cached - 1)
               PROVE  i \in lost'[t] \/ kv'[PageAt(seq'[t].table, i)][i % PageSize] = Token(t, i)
    BY DEF HistoryIntact
  <2>1. CASE t = s
    BY <2>1, <1>5, <1>6
  <2>2. CASE t # s
    <3>1. /\ seq'[t] = seq[t] /\ seq[t].st = "running" /\ seq[t] \in SeqRecs /\ TableOK(t)
          /\ seq[t].table \in Seq(Pages) /\ seq[t].cached \in Nat /\ i \in 0..(seq[t].cached - 1)
      BY <2>2, <1>6, <1>4 DEF GraphInv, Owned, SeqRecs
    <3>2. i \in lost[t] \/ kv[PageAt(seq[t].table, i)][i % PageSize] = Token(t, i)
      BY <3>1 DEF GraphInv, HistoryIntact
    <3>3. i \div PageSize + 1 \in 1..Len(seq[t].table) /\ i % PageSize \in Offsets
      BY <3>1, HeldPlace
    <3>4. /\ PageAt(seq[t].table, i) \in Pages
          /\ PageAt(seq[t].table, i) \in ToSet(seq[t].table)
      BY <3>1, <3>3 DEF PageAt, ToSet
    <3>5. PageAt(seq[t].table, i) \notin ToSet(table)
      BY <3>4, <1>8
    <3> QED BY <3>1, <3>2, <3>3, <3>4, <3>5, <1>2, <1>5
  <2> QED BY <2>1, <2>2
<1> QED BY <1>7, <1>9, <1>10, <1>11, <1>12 DEF GraphInv

----------------------------------------------------------------------------
(* The plan of a forward *)

\* The record of the buffers with other fields.
LEMMA BufferRecord ==
  ASSUME NEW A, NEW B, NEW C, NEW D, NEW b \in [gen : A, cap : B, host : C, wrapper : D],
         NEW g \in A, NEW c \in B, NEW h \in C
  PROVE  [b EXCEPT !.cap = c, !.gen = g, !.host = h] \in [gen : A, cap : B, host : C, wrapper : D]
  OBVIOUS

\* The static buffers for n pages: a generation that exists, holds what the host
\* believes, and has the capacity; a new one only if the old was too small.
LEMMA StaticFacts ==
  ASSUME GraphInv, NEW n \in Nat \ {0}, n <= NPages(MaxLen)
  PROVE  /\ EnsureDecodeStatic(st, n)
              \in [gen : 0..MaxGen, cap : Nat, host : Seq(Pages), wrapper : Int]
         /\ EnsureDecodeStatic(st, n).gen \in 1..MaxGen
         /\ EnsureDecodeStatic(st, n).gen >= st.gen
         /\ EnsureDecodeStatic(st, n).gen <= EnsureDecodeStatic(st, n).cap
         /\ mem[EnsureDecodeStatic(st, n).gen].pages = EnsureDecodeStatic(st, n).host
<1>0. /\ st \in [gen : 0..MaxGen, cap : Nat, host : Seq(Pages), wrapper : Int]
      /\ MaxGen \in Nat /\ NPages(MaxLen) \in Nat /\ MaxGen = 1 + NPages(MaxLen)
      /\ <<>> \in Seq(Pages)
  <2>1. st \in [gen : 0..MaxGen, cap : Nat, host : Seq(Pages), wrapper : Int]
    BY DEF GraphInv, GTypes
  <2>2. MaxLen \in Nat
    BY GraphAssumption
  <2>3. NPages(MaxLen) \in Nat
    BY <2>2, PageFacts
  <2> QED BY <2>1, <2>3 DEF MaxGen
<1>1. CASE st.gen > 0 /\ st.cap >= n
  <2>1. EnsureDecodeStatic(st, n) = st
    BY <1>1 DEF EnsureDecodeStatic
  <2>2. st.gen <= st.cap /\ mem[st.gen].pages = st.host
    BY <1>1 DEF GraphInv, Buffers
  <2> QED BY <2>1, <2>2, <1>0, <1>1
<1>2. CASE ~ (st.gen > 0 /\ st.cap >= n)
  <2> DEFINE c == CapFor(Max({n, Ceiling}))
             b == [st EXCEPT !.cap = c, !.gen = st.gen + 1, !.host = <<>>]
  <2>1. EnsureDecodeStatic(st, n) = b
    BY <1>2 DEF EnsureDecodeStatic
  <2>2. c \in Nat /\ c >= n
    BY CapFacts
  <2>3. st.gen + 1 <= n
    <3>1. CASE st.gen = 0
      BY <3>1
    <3>2. CASE st.gen > 0
      <4>1. st.gen <= st.cap /\ st.cap < n
        BY <3>2, <1>2, <1>0 DEF GraphInv, Buffers
      <4> QED BY <4>1, <1>0
    <3> QED BY <3>1, <3>2, <1>0
  <2>4. st.gen + 1 \in 1..MaxGen /\ st.gen + 1 <= c
    BY <2>2, <2>3, <1>0
  <2> HIDE DEF c
  <2>5. b.gen = st.gen + 1 /\ b.cap = c /\ b.host = <<>>
    BY <1>0
  <2>6. b \in [gen : 0..MaxGen, cap : Nat, host : Seq(Pages), wrapper : Int]
    <3>1. st.gen + 1 \in 0..MaxGen
      BY <2>4, <1>0
    <3> QED BY <3>1, <2>2, <1>0, BufferRecord
  <2>7. mem[st.gen + 1].pages = <<>>
    BY <2>4, <1>0 DEF GraphInv, Buffers
  <2> HIDE DEF b
  <2> QED BY <2>1, <2>4, <2>5, <2>6, <2>7, <1>0
<1> QED BY <1>1, <1>2

\* What a plan for s over a list of its own pages leaves behind.
LEMMA PlanFacts ==
  ASSUME GraphInv, NEW s \in Seqs, NEW table \in Seq(Pages), Plan(s, table),
         seq[s].st # "new", seq[s].cached < MaxLen,
         Len(table) >= NPages(seq[s].cached + 1), Len(table) <= NPages(MaxLen)
  PROVE  /\ seq' \in [Seqs -> SeqRecs] /\ \A t \in Seqs \ {s} : seq'[t] = seq[t]
         /\ seq'[s].table = table /\ seq'[s].st = seq[s].st /\ seq'[s].cached = seq[s].cached
         /\ st' \in [gen : 0..MaxGen, cap : Nat, host : Seq(Pages), wrapper : Int]
         /\ mem' \in [1..MaxGen -> [pages : Seq(Pages), n : Nat, pos : Nat]]
         /\ fwd' = [s |-> s, src |-> Source(s), n |-> NPages(seq[s].cached + 1)]
         /\ st'.gen \in 1..MaxGen /\ st'.wrapper = st'.gen
         /\ st'.host = SubSeq(table, 1, NPages(seq[s].cached + 1))
         /\ mem'[st'.gen] = [pages |-> st'.host, n |-> NPages(seq[s].cached + 1),
                             pos |-> seq[s].cached]
         /\ Buffers'
<1>1. PICK p \in Nat : p = seq[s].cached /\ p < MaxLen
  BY GraphAssumption DEF GraphInv, GTypes, SeqRecs
<1>2. PICK k \in Nat \ {0} : k = NPages(p + 1)
  BY PlaceFacts
<1>3. PICK n \in Nat \ {0} : n = Max({NPages(p + 1), Len(table)}) /\ n <= NPages(MaxLen)
  <2>1. Max({NPages(p + 1), Len(table)}) = Len(table)
    BY <1>1, <1>2, MaxTwo
  <2>2. Len(table) \in Nat \ {0}
    BY <1>1, <1>2
  <2> QED BY <2>1, <2>2
<1>4. PICK b : b = EnsureDecodeStatic(st, n)
  OBVIOUS
<1>5. /\ b \in [gen : 0..MaxGen, cap : Nat, host : Seq(Pages), wrapper : Int]
      /\ b.gen \in 1..MaxGen /\ b.gen >= st.gen /\ b.gen <= b.cap
      /\ mem[b.gen].pages = b.host
  BY <1>3, <1>4, StaticFacts
<1>6. PICK host : host = SubSeq(table, 1, k)
  OBVIOUS
<1>7. host \in Seq(Pages) /\ Len(host) = k
  BY <1>1, <1>2, <1>6, PrefixFacts
<1>8. Planned(b, table, p) = [pages |-> host, n |-> k, pos |-> p]
  BY <1>2, <1>5, <1>6, <1>7 DEF Planned, SamePages
<1>9. /\ seq' = [seq EXCEPT ![s].table = table]
      /\ mem' = [mem EXCEPT ![b.gen] = [pages |-> host, n |-> k, pos |-> p]]
      /\ st' = [b EXCEPT !.host = host, !.wrapper = b.gen]
      /\ fwd' = [s |-> s, src |-> Source(s), n |-> k]
  BY <1>1, <1>2, <1>3, <1>4, <1>6, <1>8 DEF Plan
<1>10. /\ seq' \in [Seqs -> SeqRecs] /\ \A t \in Seqs \ {s} : seq'[t] = seq[t]
       /\ seq'[s].table = table /\ seq'[s].st = seq[s].st /\ seq'[s].cached = seq[s].cached
  <2>1. seq \in [Seqs -> SeqRecs] /\ seq[s] \in SeqRecs
    BY DEF GraphInv, GTypes
  <2> DEFINE u == [seq[s] EXCEPT !.table = table]
  <2>2. u \in SeqRecs /\ u.table = table /\ u.st = seq[s].st /\ u.cached = seq[s].cached
    BY <2>1 DEF SeqRecs
  <2>3. seq' = [seq EXCEPT ![s] = u]
    BY <1>9
  <2> HIDE DEF u
  <2> QED BY <2>1, <2>2, <2>3
<1>11. /\ st' \in [gen : 0..MaxGen, cap : Nat, host : Seq(Pages), wrapper : Int]
       /\ st'.gen = b.gen /\ st'.wrapper = b.gen /\ st'.host = host /\ st'.cap = b.cap
  <2>1. b.gen \in Int
    BY <1>5
  <2> QED BY <1>5, <1>7, <1>9, <2>1
<1>12. /\ mem' \in [1..MaxGen -> [pages : Seq(Pages), n : Nat, pos : Nat]]
       /\ mem'[b.gen] = [pages |-> host, n |-> k, pos |-> p]
       /\ \A g \in 1..MaxGen : g # b.gen => mem'[g] = mem[g]
  <2> DEFINE u == [pages |-> host, n |-> k, pos |-> p]
  <2>1. u \in [pages : Seq(Pages), n : Nat, pos : Nat]
    BY <1>7
  <2>2. mem \in [1..MaxGen -> [pages : Seq(Pages), n : Nat, pos : Nat]]
    BY DEF GraphInv, GTypes
  <2>3. mem' = [mem EXCEPT ![b.gen] = u]
    BY <1>9
  <2> HIDE DEF u
  <2>4. mem' \in [1..MaxGen -> [pages : Seq(Pages), n : Nat, pos : Nat]] /\ mem'[b.gen] = u
        /\ \A g \in 1..MaxGen : g # b.gen => mem'[g] = mem[g]
    BY <2>1, <2>2, <2>3, <1>5
  <2> QED BY <2>4 DEF u
<1>13. Buffers'
  <2>1. mem'[st'.gen].pages = st'.host /\ st'.gen <= st'.cap
    BY <1>5, <1>11, <1>12
  <2>2. \A g \in 1..MaxGen : g > st'.gen => mem'[g].pages = <<>>
    <3> TAKE g \in 1..MaxGen
    <3> HAVE g > st'.gen
    <3>1. g # b.gen /\ g > st.gen
      <4>1. st.gen \in Int /\ b.gen \in Int /\ b.gen >= st.gen /\ g > b.gen
        BY <1>5, <1>11 DEF GraphInv, GTypes
      <4> QED BY <4>1
    <3> QED BY <3>1, <1>12 DEF GraphInv, Buffers
  <2> QED BY <2>1, <2>2 DEF Buffers
<1> QED
  BY <1>1, <1>2, <1>5, <1>6, <1>9, <1>10, <1>11, <1>12, <1>13

\* A list of pages that s may use for its next position: distinct, enough, and in
\* no other table.
OwnList(s, tb) ==
  /\ tb \in Seq(Pages) /\ IsInjective(tb)
  /\ Len(tb) >= NPages(seq[s].cached + 1) /\ Len(tb) <= NPages(MaxLen)
  /\ \A p \in ToSet(tb) : \A t \in Seqs \ {s} : p \notin ToSet(seq[t].table)

\* A plan over such a list, with the K/V of the sequences intact, keeps the
\* invariant.
LEMMA PlanKeeps ==
  ASSUME GraphInv, NEW s \in Seqs, NEW table, OwnList(s, table), Plan(s, table),
         seq[s].st # "new", seq[s].cached < MaxLen, fwd = Nothing,
         burst \in {Nothing, <<s>>},
         tree' \subseteq Pages, \A p \in tree' : p \notin ToSet(table),
         \A t \in Seqs \ {s}, p \in tree' : p \notin ToSet(seq[t].table),
         kv' \in [Pages -> [Offsets -> Tokens]], HistoryIntact'
  PROVE  GraphInv'
<1>1. /\ table \in Seq(Pages) /\ IsInjective(table)
      /\ Len(table) >= NPages(seq[s].cached + 1) /\ Len(table) <= NPages(MaxLen)
      /\ \A p \in ToSet(table) : \A t \in Seqs \ {s} : p \notin ToSet(seq[t].table)
  BY DEF OwnList
<1>2. /\ seq' \in [Seqs -> SeqRecs] /\ \A t \in Seqs \ {s} : seq'[t] = seq[t]
      /\ seq'[s].table = table /\ seq'[s].st = seq[s].st /\ seq'[s].cached = seq[s].cached
      /\ st' \in [gen : 0..MaxGen, cap : Nat, host : Seq(Pages), wrapper : Int]
      /\ mem' \in [1..MaxGen -> [pages : Seq(Pages), n : Nat, pos : Nat]]
      /\ fwd' = [s |-> s, src |-> Source(s), n |-> NPages(seq[s].cached + 1)]
      /\ st'.gen \in 1..MaxGen /\ st'.wrapper = st'.gen
      /\ st'.host = SubSeq(table, 1, NPages(seq[s].cached + 1))
      /\ mem'[st'.gen] = [pages |-> st'.host, n |-> NPages(seq[s].cached + 1),
                          pos |-> seq[s].cached]
      /\ Buffers'
  BY <1>1, PlanFacts
<1>3. UNCHANGED <<tokBuf, cg, burst, lost>> /\ ran' = Nothing
  BY DEF Plan
<1>4. PICK c \in Nat : c = seq[s].cached
  BY DEF GraphInv, GTypes, SeqRecs
<1>5. PICK k \in Nat \ {0} : k = NPages(c + 1)
  BY PlaceFacts
<1>6. NPages(c) \in Nat /\ NPages(c) <= k
  BY <1>5, PageFacts
<1>7. st'.host \in Seq(Pages) /\ Len(st'.host) = k /\ ToSet(st'.host) \subseteq ToSet(table)
  BY <1>1, <1>2, <1>4, <1>5, PrefixFacts
<1>8. Source(s) \in {"static", "fresh"} /\ (Source(s) = "static" <=> burst = <<s>>)
  BY DEF Source
<1>9. fwd' \in [s : Seqs, src : {"static", "fresh"}, n : Nat] /\ fwd'.s = s /\ fwd'.n = k
      /\ fwd'.src = Source(s)
  BY <1>2, <1>4, <1>5, <1>8
<1>10. GTypes'
  BY <1>2, <1>3, <1>9 DEF GraphInv, GTypes
<1>11. Owned'
  <2>1. \A t \in Seqs : TableOK(t)'
    <3> TAKE t \in Seqs
    <3>1. TableOK(t)
      BY DEF GraphInv, Owned
    <3>2. CASE t # s
      BY <3>1, <3>2, <1>2 DEF TableOK
    <3>3. CASE t = s
      BY <3>1, <3>3, <1>1, <1>2, <1>4, <1>5, <1>6 DEF TableOK
    <3> QED BY <3>2, <3>3
  <2>2. \A t, v \in Seqs : t # v => Apart(t, v)'
    <3> TAKE t \in Seqs, v \in Seqs
    <3> HAVE t # v
    <3>1. Apart(t, v)
      BY DEF GraphInv, Owned
    <3>2. CASE t # s /\ v # s
      BY <3>1, <3>2, <1>2 DEF Apart
    <3>3. CASE t = s
      BY <3>3, <1>1, <1>2 DEF Apart
    <3>4. CASE v = s
      BY <3>4, <1>1, <1>2 DEF Apart
    <3> QED BY <3>2, <3>3, <3>4
  <2>3. \A t \in Seqs, p \in tree' : p \notin ToSet(seq'[t].table)
    BY <1>2
  <2> QED BY <2>1, <2>2, <2>3 DEF Owned
<1>12. Forward'
  <2>1. PlannedFor(s)'
    <3>1. /\ seq'[s].st # "new" /\ seq'[s].cached < MaxLen
          /\ fwd'.n = NPages(seq'[s].cached + 1)
      BY <1>2, <1>4, <1>5, <1>9
    <3>2. st'.gen > 0 /\ st'.wrapper = st'.gen
      BY <1>2
    <3>3. mem'[st'.gen].n = fwd'.n /\ mem'[st'.gen].pos = seq'[s].cached /\ Len(st'.host) = fwd'.n
      BY <1>2, <1>4, <1>5, <1>7, <1>9
    <3>4. fwd'.n <= Len(seq'[s].table) /\ st'.host = SubSeq(seq'[s].table, 1, fwd'.n)
      BY <1>1, <1>2, <1>4, <1>5, <1>9
    <3>5. \A t \in Seqs \ {s}, p \in Pages :
            ~ (p \in ToSet(st'.host) /\ p \in ToSet(seq'[t].table))
      BY <1>1, <1>2, <1>7
    <3>6. \/ fwd'.src = "static" /\ burst' = <<s>>
          \/ fwd'.src = "fresh" /\ burst' = Nothing
      BY <1>3, <1>8, <1>9
    <3> QED BY <3>1, <3>2, <3>3, <3>4, <3>5, <3>6 DEF PlannedFor
  <2> QED BY <2>1, <1>9 DEF Forward
<1>13. BurstFed'
  BY <1>2, <1>3 DEF GraphInv, BurstFed
<1>14. PlanCurrent'
  BY <1>3 DEF PlanCurrent
<1> QED BY <1>2, <1>10, <1>11, <1>12, <1>13, <1>14 DEF GraphInv

\* The table of s with the pages it lacks for its next position.
LEMMA GrownFacts ==
  ASSUME GraphInv, NEW s \in Seqs, seq[s].cached < MaxLen,
         NEW more \in Fresh(Missing(seq[s].table, seq[s].cached + 1))
  PROVE  /\ OwnList(s, seq[s].table \o more)
         /\ \A i \in 1..Len(seq[s].table) : (seq[s].table \o more)[i] = seq[s].table[i]
         /\ ToSet(seq[s].table \o more) = ToSet(seq[s].table) \cup ToSet(more)
         /\ \A p \in ToSet(seq[s].table \o more) : p \notin tree
         /\ Len(seq[s].table) <= Len(seq[s].table \o more)
<1>1. PICK tb \in Seq(Pages) : tb = seq[s].table
  BY DEF GraphInv, GTypes, SeqRecs
<1>2. PICK c \in Nat : c = seq[s].cached /\ c + 1 <= MaxLen /\ MaxLen \in Nat
  BY GraphAssumption DEF GraphInv, GTypes, SeqRecs
<1>3. NPages(c + 1) \in Nat /\ NPages(MaxLen) \in Nat /\ NPages(c + 1) <= NPages(MaxLen)
  <2>1. \A n, m \in Nat : NPages(n) \in Nat /\ (m <= n => NPages(m) <= NPages(n))
    BY PageFacts
  <2>2. c + 1 \in Nat /\ MaxLen \in Nat /\ c + 1 <= MaxLen
    BY <1>2
  <2> QED BY <2>1, <2>2
<1>4. PICK k \in Nat : /\ k = Missing(tb, c + 1)
                       /\ k = IF NPages(c + 1) > Len(tb) THEN NPages(c + 1) - Len(tb) ELSE 0
  <2>1. NPages(c + 1) - Len(tb) \in Int /\ Len(tb) \in Nat
    BY <1>3
  <2>2. Missing(tb, c + 1) = IF 0 >= NPages(c + 1) - Len(tb) THEN 0 ELSE NPages(c + 1) - Len(tb)
    BY <2>1, MaxTwo DEF Missing
  <2> QED BY <2>1, <2>2, <1>3
<1>5. more \in Seq(Pages) /\ Len(more) = k /\ IsInjective(more) /\ \A p \in ToSet(more) : p \in Free
  BY <1>1, <1>2, <1>4, FreshFacts
<1>6. TableOK(s) /\ \A t \in Seqs : s # t => Apart(s, t)
  BY DEF GraphInv, Owned
<1>7. /\ tb \o more \in Seq(Pages) /\ Len(tb \o more) = Len(tb) + k
      /\ \A i \in 1..Len(tb) : (tb \o more)[i] = tb[i]
      /\ \A i \in Len(tb) + 1..Len(tb) + k :
           i - Len(tb) \in 1..k /\ (tb \o more)[i] = more[i - Len(tb)]
  BY <1>5, ConcatFacts
<1>8. Len(tb) \in Nat /\ DOMAIN tb = 1..Len(tb) /\ DOMAIN more = 1..k
      /\ DOMAIN (tb \o more) = 1..Len(tb) + k
  BY <1>5, <1>7
<1>9. \A p \in ToSet(more) : p \notin ToSet(tb) /\ p \notin tree /\ p \in Pages
                             /\ \A t \in Seqs : p \notin ToSet(seq[t].table)
  BY <1>1, <1>5, FreeFacts
<1> DEFINE cat == tb \o more
<1>10. \A i \in 1..Len(tb) + k : \/ i \in 1..Len(tb) /\ cat[i] = tb[i] /\ cat[i] \in ToSet(tb)
                                 \/ /\ i - Len(tb) \in 1..k /\ cat[i] = more[i - Len(tb)]
                                    /\ cat[i] \in ToSet(more)
  <2> TAKE i \in 1..Len(tb) + k
  <2>1. CASE i <= Len(tb)
    BY <2>1, <1>7, <1>8 DEF ToSet
  <2>2. CASE i > Len(tb)
    <3>1. i \in Len(tb) + 1..Len(tb) + k
      BY <2>2, <1>8
    <3> QED BY <3>1, <1>7, <1>8 DEF ToSet
  <2> QED BY <2>1, <2>2, <1>8
<1> HIDE DEF cat
<1>11. IsInjective(cat)
  <2> SUFFICES ASSUME NEW i \in 1..Len(tb) + k, NEW j \in 1..Len(tb) + k, cat[i] = cat[j]
               PROVE  i = j
    BY <1>8 DEF IsInjective, cat
  <2>1. CASE i \in 1..Len(tb) /\ cat[i] = tb[i] /\ cat[i] \in ToSet(tb)
    <3>1. j \in 1..Len(tb) /\ cat[j] = tb[j]
      BY <2>1, <1>9, <1>10
    <3>2. tb[i] = tb[j]
      BY <2>1, <3>1
    <3> QED BY <2>1, <3>1, <3>2, <1>1, <1>6, <1>8 DEF TableOK, IsInjective
  <2>2. CASE i - Len(tb) \in 1..k /\ cat[i] = more[i - Len(tb)] /\ cat[i] \in ToSet(more)
    <3>1. j - Len(tb) \in 1..k /\ cat[j] = more[j - Len(tb)]
      BY <2>2, <1>9, <1>10
    <3>2. i - Len(tb) = j - Len(tb)
      BY <2>2, <3>1, <1>5, <1>8 DEF IsInjective
    <3> QED BY <3>2, <1>8
  <2> QED BY <2>1, <2>2, <1>10
<1>12. ToSet(cat) = ToSet(tb) \cup ToSet(more)
  <2>1. ToSet(cat) \subseteq ToSet(tb) \cup ToSet(more)
    <3> SUFFICES ASSUME NEW i \in 1..Len(tb) + k PROVE cat[i] \in ToSet(tb) \cup ToSet(more)
      BY <1>8 DEF ToSet, cat
    <3> QED BY <1>10
  <2>2. ToSet(tb) \subseteq ToSet(cat)
    <3> SUFFICES ASSUME NEW i \in 1..Len(tb) PROVE tb[i] \in ToSet(cat)
      BY <1>8 DEF ToSet
    <3>1. i \in 1..Len(tb) + k /\ cat[i] = tb[i]
      BY <1>7, <1>8 DEF cat
    <3> QED BY <3>1, <1>8 DEF ToSet, cat
  <2>3. ToSet(more) \subseteq ToSet(cat)
    <3> SUFFICES ASSUME NEW i \in 1..k PROVE more[i] \in ToSet(cat)
      BY <1>8 DEF ToSet
    <3>1. Len(tb) + i \in Len(tb) + 1..Len(tb) + k /\ (Len(tb) + i) - Len(tb) = i
          /\ Len(tb) + i \in 1..Len(tb) + k
      BY <1>8
    <3>2. cat[Len(tb) + i] = more[i]
      BY <3>1, <1>7 DEF cat
    <3> QED BY <3>1, <3>2, <1>8 DEF ToSet, cat
  <2> QED BY <2>1, <2>2, <2>3
<1>13. \A p \in ToSet(tb) : p \in Pages /\ p \notin tree
                            /\ \A t \in Seqs \ {s} : p \notin ToSet(seq[t].table)
  <2>1. \A p \in ToSet(tb) : p \in Pages
    BY <1>1 DEF ToSet
  <2> QED BY <2>1, <1>1, <1>6 DEF Apart, GraphInv, Owned
<1>14. Len(cat) >= NPages(c + 1) /\ Len(cat) <= NPages(MaxLen)
  <2>1. Len(tb) <= NPages(MaxLen)
    BY <1>1, <1>6 DEF TableOK
  <2> QED BY <2>1, <1>3, <1>4, <1>7, <1>8 DEF cat
<1>15. OwnList(s, cat)
  <2>1. \A p \in ToSet(cat) : \A t \in Seqs \ {s} : p \notin ToSet(seq[t].table)
    BY <1>9, <1>12, <1>13
  <2> QED BY <2>1, <1>2, <1>7, <1>11, <1>14 DEF OwnList, cat
<1>16. \A p \in ToSet(cat) : p \notin tree
  BY <1>9, <1>12, <1>13
<1>17. Len(tb) <= Len(tb \o more)
  BY <1>7, <1>8
<1> QED BY <1>1, <1>7, <1>12, <1>15, <1>16, <1>17 DEF cat

\* A list with another page at one place.
LEMMA CopiedFacts ==
  ASSUME NEW tb \in Seq(Pages), IsInjective(tb), NEW p \in Nat,
         p \div PageSize + 1 \in 1..Len(tb), NEW page \in Pages, page \notin ToSet(tb)
  PROVE  /\ Copied(tb, p, page) \in Seq(Pages) /\ IsInjective(Copied(tb, p, page))
         /\ Len(Copied(tb, p, page)) = Len(tb)
         /\ Copied(tb, p, page)[p \div PageSize + 1] = page
         /\ \A i \in 1..Len(tb) : i # p \div PageSize + 1 => Copied(tb, p, page)[i] = tb[i]
         /\ ToSet(Copied(tb, p, page)) \subseteq ToSet(tb) \cup {page}
         /\ tb[p \div PageSize + 1] \notin ToSet(Copied(tb, p, page))
<1>1. PICK k \in 1..Len(tb) : k = p \div PageSize + 1
  OBVIOUS
<1> DEFINE c == Copied(tb, p, page)
<1>2. c = [tb EXCEPT ![k] = page]
  BY <1>1 DEF Copied
<1>3. c \in Seq(Pages) /\ Len(c) = Len(tb) /\ DOMAIN c = 1..Len(tb) /\ DOMAIN tb = 1..Len(tb)
      /\ c[k] = page /\ \A i \in 1..Len(tb) : i # k => c[i] = tb[i]
  BY <1>2
<1> HIDE DEF c
<1>4. \A i \in 1..Len(tb) : tb[i] \in ToSet(tb)
  BY <1>3 DEF ToSet
<1>5. IsInjective(c)
  BY <1>3, <1>4 DEF IsInjective
<1>6. ToSet(c) \subseteq ToSet(tb) \cup {page}
  BY <1>3, <1>4 DEF ToSet
<1>7. tb[k] \notin ToSet(c)
  BY <1>3, <1>4 DEF ToSet, IsInjective
<1> QED BY <1>1, <1>3, <1>5, <1>6, <1>7 DEF c

\* The plan of a step of one sequence, with or without copy-on-write, keeps it.
LEMMA PlanOneKeeps ==
  ASSUME GraphInv, NEW s \in Seqs, PlanOne(s)
  PROVE  GraphInv'
<1>1. /\ fwd = Nothing /\ burst \in {Nothing, <<s>>} /\ seq[s].cached < MaxLen
      /\ seq[s].st # "new"
  BY DEF PlanOne, GraphInv, BurstFed
<1>2. PICK more \in Fresh(Missing(seq[s].table, seq[s].cached + 1)) :
        \/ Plan(s, seq[s].table \o more) /\ UNCHANGED <<kv, tree>>
        \/ /\ \E page \in Free \ ToSet(more) :
                /\ Plan(s, Copied(seq[s].table \o more, seq[s].cached, page))
                /\ kv' = [kv EXCEPT ![page] = kv[PageAt(seq[s].table \o more, seq[s].cached)]]
           /\ tree' = tree \cup {PageAt(seq[s].table \o more, seq[s].cached)}
  BY DEF PlanOne
<1>3. PICK tb : tb = seq[s].table \o more
  OBVIOUS
<1>4. PICK p \in Nat : p = seq[s].cached
  BY DEF GraphInv, GTypes, SeqRecs
<1>5. /\ OwnList(s, tb) /\ ToSet(tb) = ToSet(seq[s].table) \cup ToSet(more)
      /\ \A i \in 1..Len(seq[s].table) : tb[i] = seq[s].table[i]
      /\ \A q \in ToSet(tb) : q \notin tree
  BY <1>1, <1>3, GrownFacts
<1>6. /\ tb \in Seq(Pages) /\ IsInjective(tb) /\ Len(tb) >= NPages(p + 1)
      /\ Len(tb) <= NPages(MaxLen)
      /\ \A q \in ToSet(tb) : \A t \in Seqs \ {s} : q \notin ToSet(seq[t].table)
  BY <1>4, <1>5 DEF OwnList
<1>7. /\ p \div PageSize + 1 \in 1..Len(tb) /\ tb[p \div PageSize + 1] \in Pages
      /\ tb[p \div PageSize + 1] \in ToSet(tb)
  <2>1. p \div PageSize + 1 \in 1..NPages(p + 1) /\ NPages(p + 1) \in Nat
    BY PlaceFacts
  <2>2. p \div PageSize + 1 \in 1..Len(tb)
    BY <2>1, <1>6
  <2> QED BY <2>2, <1>6 DEF ToSet
<1>8. /\ kv \in [Pages -> [Offsets -> Tokens]] /\ tree \subseteq Pages
      /\ \A t \in Seqs : seq[t] \in SeqRecs /\ TableOK(t)
      /\ \A t \in Seqs, q \in tree : q \notin ToSet(seq[t].table)
  BY DEF GraphInv, GTypes, Owned
<1>9. CASE Plan(s, tb) /\ UNCHANGED <<kv, tree>>
  <2>1. /\ \A t \in Seqs \ {s} : seq'[t] = seq[t]
        /\ seq'[s].table = tb /\ seq'[s].st = seq[s].st /\ seq'[s].cached = seq[s].cached
    BY <1>1, <1>4, <1>6, <1>9, PlanFacts
  <2>2. lost' = lost
    BY <1>9 DEF Plan
  <2>3. HistoryIntact'
    <3> SUFFICES ASSUME NEW t \in Seqs, seq'[t].st = "running", NEW i \in 0..(seq'[t].cached - 1)
                 PROVE  i \in lost'[t] \/ kv'[PageAt(seq'[t].table, i)][i % PageSize] = Token(t, i)
      BY DEF HistoryIntact
    <3>1. seq[t].st = "running" /\ seq'[t].cached = seq[t].cached
      BY <2>1
    <3>2. i \in lost[t] \/ kv[PageAt(seq[t].table, i)][i % PageSize] = Token(t, i)
      BY <3>1 DEF GraphInv, HistoryIntact
    <3>3. i \div PageSize + 1 \in 1..Len(seq[t].table)
      BY <3>1, <1>8, HeldPlace
    <3>4. PageAt(seq'[t].table, i) = PageAt(seq[t].table, i)
      BY <3>3, <2>1, <1>5 DEF PageAt
    <3> QED BY <3>2, <3>4, <2>2, <1>9
  <2>4. /\ tree' \subseteq Pages /\ \A q \in tree' : q \notin ToSet(tb)
        /\ \A t \in Seqs \ {s}, q \in tree' : q \notin ToSet(seq[t].table)
        /\ kv' \in [Pages -> [Offsets -> Tokens]]
    BY <1>5, <1>8, <1>9
  <2> QED BY <1>1, <1>5, <1>9, <2>3, <2>4, PlanKeeps
<1>10. ASSUME NEW page \in Free \ ToSet(more), Plan(s, Copied(tb, p, page)),
              kv' = [kv EXCEPT ![page] = kv[PageAt(tb, p)]],
              tree' = tree \cup {PageAt(tb, p)}
       PROVE  GraphInv'
  <2>1. page \in Pages /\ page \notin tree /\ page \notin ToSet(tb)
        /\ \A t \in Seqs : page \notin ToSet(seq[t].table)
    BY <1>5, <1>10, FreeFacts
  <2>2. PICK k \in 1..Len(tb) : k = p \div PageSize + 1
    BY <1>7
  <2>3. PICK c : c = Copied(tb, p, page)
    OBVIOUS
  <2>4. /\ c \in Seq(Pages) /\ IsInjective(c) /\ Len(c) = Len(tb) /\ c[k] = page
        /\ \A i \in 1..Len(tb) : i # k => c[i] = tb[i]
        /\ ToSet(c) \subseteq ToSet(tb) \cup {page}
        /\ tb[k] \notin ToSet(c)
    BY <2>1, <2>2, <2>3, <1>6, <1>7, CopiedFacts
  <2>5. OwnList(s, c)
    BY <2>1, <2>4, <1>4, <1>6 DEF OwnList
  <2>6. PICK old \in Pages : old = tb[k] /\ old = PageAt(tb, p) /\ old \in ToSet(tb)
    BY <2>2, <1>7 DEF PageAt
  <2>7. /\ tree' \subseteq Pages /\ \A q \in tree' : q \notin ToSet(c)
        /\ \A t \in Seqs \ {s}, q \in tree' : q \notin ToSet(seq[t].table)
    BY <1>5, <1>6, <1>8, <1>10, <2>1, <2>4, <2>6
  <2>8. /\ kv' \in [Pages -> [Offsets -> Tokens]] /\ kv'[page] = kv[old]
        /\ \A q \in Pages \ {page} : kv'[q] = kv[q]
    BY <1>8, <1>10, <2>1, <2>6
  <2>9. /\ \A t \in Seqs \ {s} : seq'[t] = seq[t]
        /\ seq'[s].table = c /\ seq'[s].st = seq[s].st /\ seq'[s].cached = seq[s].cached
    BY <1>1, <1>4, <1>6, <1>10, <2>3, <2>4, PlanFacts
  <2>10. lost' = lost
    BY <1>10 DEF Plan
  <2>11. HistoryIntact'
    <3> SUFFICES ASSUME NEW t \in Seqs, seq'[t].st = "running", NEW i \in 0..(seq'[t].cached - 1)
                 PROVE  i \in lost'[t] \/ kv'[PageAt(seq'[t].table, i)][i % PageSize] = Token(t, i)
      BY DEF HistoryIntact
    <3>1. seq[t].st = "running" /\ seq'[t].cached = seq[t].cached
      BY <2>9
    <3>2. i \in lost[t] \/ kv[PageAt(seq[t].table, i)][i % PageSize] = Token(t, i)
      BY <3>1 DEF GraphInv, HistoryIntact
    <3>3. PICK j \in 1..Len(seq[t].table) : j = i \div PageSize + 1
      BY <3>1, <1>8, HeldPlace
    <3>4. seq[t].table \in Seq(Pages) /\ seq[t].table[j] \in Pages
          /\ seq[t].table[j] \in ToSet(seq[t].table)
      BY <1>8 DEF SeqRecs, ToSet
    <3>5. kv'[seq'[t].table[j]] = kv[seq[t].table[j]]
      <4>1. CASE t # s
        BY <4>1, <3>4, <2>1, <2>8, <2>9
      <4>2. CASE t = s /\ j = k
        BY <4>2, <1>5, <2>4, <2>6, <2>8, <2>9
      <4>3. CASE t = s /\ j # k
        <5>1. tb[j] = seq[s].table[j] /\ j \in 1..Len(tb) /\ tb[j] # page
          <6>1. Len(seq[s].table) <= Len(tb) /\ Len(seq[s].table) \in Nat /\ Len(tb) \in Nat
            BY <1>1, <1>3, <1>8, <1>6, GrownFacts DEF SeqRecs
          <6> QED BY <6>1, <4>3, <3>4, <1>5, <2>1
        <5> QED BY <5>1, <4>3, <3>4, <2>4, <2>8, <2>9
      <4> QED BY <4>1, <4>2, <4>3
    <3> QED BY <3>2, <3>3, <3>5, <2>10 DEF PageAt
  <2>12. Plan(s, c)
    BY <1>10, <2>3
  <2> QED BY <1>1, <2>5, <2>7, <2>8, <2>11, <2>12, PlanKeeps
<1> QED BY <1>2, <1>3, <1>4, <1>9, <1>10

----------------------------------------------------------------------------
(* A group of several sequences *)

\* The pages a group takes: free, distinct, for members of the group.
Taken(group, new) ==
  /\ group \subseteq Seqs /\ DOMAIN new \subseteq group
  /\ \A s \in DOMAIN new : new[s] \in Free
  /\ IsInjective(new)
  /\ \A s \in group : Extends(s) => s \in DOMAIN new
  /\ \A s \in group : seq[s].st = "running" /\ seq[s].cached < MaxLen

\* The place where member s writes.
Place(s) == seq[s].cached \div PageSize + 1

\* The table of one member.
MemberOK(new, s) ==
  /\ GroupTable(new, s) \in Seq(Pages) /\ IsInjective(GroupTable(new, s))
  /\ Len(GroupTable(new, s)) >= NPages(seq[s].cached + 1)
  /\ Len(GroupTable(new, s)) <= NPages(MaxLen)
  /\ \A p \in ToSet(GroupTable(new, s)) :
       p \in ToSet(seq[s].table) \/ (s \in DOMAIN new /\ p = new[s])
  /\ Place(s) \in 1..Len(GroupTable(new, s))
  /\ s \in Copies(new) =>
       /\ Place(s) \in 1..Len(seq[s].table)
       /\ GroupTable(new, s)[Place(s)] = new[s]
       /\ Left(s) \notin ToSet(GroupTable(new, s))
  /\ \A j \in 1..Len(seq[s].table) :
       j # Place(s) \/ s \notin Copies(new) => GroupTable(new, s)[j] = seq[s].table[j]

\* The table of a member: long enough, without repetition, its own pages and at
\* most one new one, at the place it writes to when it is a copy.
LEMMA MemberFacts ==
  ASSUME GraphInv, NEW group, NEW new, Taken(group, new), NEW s \in group
  PROVE  MemberOK(new, s)
<1>1. PICK tb \in Seq(Pages) : tb = seq[s].table
  BY DEF GraphInv, GTypes, SeqRecs, Taken
<1>2. PICK c \in Nat : c = seq[s].cached /\ c + 1 <= MaxLen /\ MaxLen \in Nat
  BY GraphAssumption DEF GraphInv, GTypes, SeqRecs, Taken
<1>3. PICK k \in Nat \ {0} : k = NPages(c + 1) /\ k = c \div PageSize + 1
  BY PlaceFacts
<1>4. Place(s) = k /\ Left(s) = tb[k]
  BY <1>1, <1>2, <1>3 DEF Place, Left, PageAt
<1>5. k <= NPages(MaxLen) /\ NPages(MaxLen) \in Nat /\ k <= NPages(c) + 1 /\ NPages(c) \in Nat
  <2>1. \A n, m \in Nat : /\ NPages(n) \in Nat /\ (m <= n => NPages(m) <= NPages(n))
                          /\ NPages(m + 1) <= NPages(m) + 1
    BY PageFacts
  <2>2. c + 1 \in Nat
    OBVIOUS
  <2>3. NPages(c + 1) <= NPages(MaxLen) /\ NPages(c + 1) <= NPages(c) + 1
    BY <2>1, <2>2, <1>2
  <2>4. NPages(MaxLen) \in Nat /\ NPages(c) \in Nat
    BY <2>1, <1>2
  <2> QED BY <2>3, <2>4, <1>3
<1>6. TableOK(s) /\ seq[s].st = "running"
  BY DEF GraphInv, Owned, Taken
<1>7. IsInjective(tb) /\ Len(tb) \in Nat /\ Len(tb) <= NPages(MaxLen) /\ Len(tb) + 1 >= k
  BY <1>1, <1>2, <1>5, <1>6 DEF TableOK
<1>8. Extends(s) <=> k = Len(tb) + 1
  <2>1. Missing(tb, c + 1) = IF 0 >= k - Len(tb) THEN 0 ELSE k - Len(tb)
    BY <1>3, <1>7, MaxTwo DEF Missing
  <2> QED BY <2>1, <1>1, <1>2, <1>7 DEF Extends
<1>9. \A j \in 1..Len(tb) : tb[j] \in ToSet(tb)
  BY DEF ToSet
<1>10. CASE s \notin DOMAIN new
  <2>1. GroupTable(new, s) = tb /\ s \notin Copies(new)
    BY <1>1, <1>10 DEF GroupTable, Copies
  <2>2. k <= Len(tb) /\ k \in 1..Len(tb)
    BY <1>7, <1>8, <1>10 DEF Taken
  <2> QED BY <2>1, <2>2, <1>1, <1>2, <1>3, <1>4, <1>7 DEF MemberOK
<1>11. CASE s \in DOMAIN new
  <2>1. PICK page \in Pages : page = new[s] /\ page \notin ToSet(tb)
    BY <1>1, <1>11, FreeFacts DEF Taken
  <2>2. CASE Extends(s)
    <3>1. PICK g : g = Append(tb, page)
      OBVIOUS
    <3>2. GroupTable(new, s) = g /\ s \notin Copies(new)
      BY <3>1, <2>1, <2>2, <1>1, <1>11 DEF GroupTable, Copies, Repaged
    <3>3. /\ g \in Seq(Pages) /\ Len(g) = Len(tb) + 1 /\ g[Len(tb) + 1] = page
          /\ \A j \in 1..Len(tb) : g[j] = tb[j]
      BY <3>1
    <3>4. DOMAIN g = 1..Len(tb) + 1 /\ DOMAIN tb = 1..Len(tb)
      BY <3>3
    <3>5. IsInjective(g)
      <4> SUFFICES ASSUME NEW i \in 1..Len(tb) + 1, NEW j \in 1..Len(tb) + 1, g[i] = g[j]
                   PROVE  i = j
        BY <3>4 DEF IsInjective
      <4>1. CASE i \in 1..Len(tb) /\ j \in 1..Len(tb)
        BY <4>1, <3>3, <3>4, <1>7 DEF IsInjective
      <4>2. CASE i = Len(tb) + 1 /\ j \in 1..Len(tb)
        BY <4>2, <3>3, <1>9, <2>1
      <4>3. CASE j = Len(tb) + 1 /\ i \in 1..Len(tb)
        BY <4>3, <3>3, <1>9, <2>1
      <4> QED BY <4>1, <4>2, <4>3, <1>7
    <3>6. \A p \in ToSet(g) : p \in ToSet(tb) \/ p = page
      <4> SUFFICES ASSUME NEW i \in 1..Len(tb) + 1 PROVE g[i] \in ToSet(tb) \/ g[i] = page
        BY <3>4 DEF ToSet
      <4> QED BY <3>3, <1>7, <1>9
    <3>7. Len(g) >= k /\ Len(g) <= NPages(MaxLen) /\ k \in 1..Len(g)
      BY <3>3, <2>2, <1>5, <1>7, <1>8
    <3> QED BY <3>2, <3>3, <3>5, <3>6, <3>7, <2>1, <1>1, <1>2, <1>3, <1>4, <1>11 DEF MemberOK
  <2>3. CASE ~ Extends(s)
    <3>1. k \in 1..Len(tb) /\ k <= Len(tb)
      BY <2>3, <1>7, <1>8
    <3>2. PICK g : g = Copied(tb, c, page)
      OBVIOUS
    <3>3. GroupTable(new, s) = g
      BY <3>2, <2>1, <2>3, <1>1, <1>2, <1>11 DEF GroupTable, Repaged
    <3>4. /\ g \in Seq(Pages) /\ IsInjective(g) /\ Len(g) = Len(tb) /\ g[k] = page
          /\ \A i \in 1..Len(tb) : i # k => g[i] = tb[i]
          /\ ToSet(g) \subseteq ToSet(tb) \cup {page}
          /\ tb[k] \notin ToSet(g)
      BY <3>1, <3>2, <2>1, <1>3, <1>7, CopiedFacts
    <3>5. s \in Copies(new)
      BY <2>3, <1>11 DEF Copies
    <3> QED BY <3>1, <3>3, <3>4, <3>5, <2>1, <1>1, <1>2, <1>3, <1>4, <1>7, <1>11 DEF MemberOK
  <2> QED BY <2>2, <2>3
<1> QED BY <1>10, <1>11

\* What the group's step leaves of the K/V: a copy where a page was copied, the
\* tokens at the places of the members, and everything else as it was.
LEMMA GroupWrites ==
  ASSUME GraphInv, NEW group, NEW new, Taken(group, new),
         \A s, t \in group : s # t =>
           \A p \in Pages : ~ (p \in ToSet(GroupTable(new, s)) /\ p \in ToSet(GroupTable(new, t)))
  PROVE  /\ GroupKV(group, new) \in [Pages -> [Offsets -> Tokens]]
         /\ \A p \in Pages, o \in Offsets :
              (\A s \in group : ~ (GroupTable(new, s)[Place(s)] = p /\ seq[s].cached % PageSize = o))
              => GroupKV(group, new)[p][o] = CopiedKV(new, p)[o]
         /\ \A s \in group :
              GroupKV(group, new)[GroupTable(new, s)[Place(s)]][seq[s].cached % PageSize]
                = Token(s, seq[s].cached)
         /\ \A p \in Pages : (\A s \in Copies(new) : new[s] # p) => CopiedKV(new, p) = kv[p]
         /\ \A s \in Copies(new) : CopiedKV(new, new[s]) = kv[Left(s)]
<1> DEFINE wp(s) == GroupTable(new, s)[Place(s)]
           here(p, o) == {s \in group : PageAt(GroupTable(new, s), seq[s].cached) = p
                                        /\ seq[s].cached % PageSize = o}
           cell(p, o) == IF here(p, o) = {} THEN CopiedKV(new, p)[o]
                         ELSE Token(CHOOSE s \in here(p, o) : TRUE,
                                    seq[CHOOSE s \in here(p, o) : TRUE].cached)
           k2 == GroupKV(group, new)
<1>0. kv \in [Pages -> [Offsets -> Tokens]] /\ group \subseteq Seqs
  BY DEF GraphInv, GTypes, Taken
<1>1. \A s \in group : PageAt(GroupTable(new, s), seq[s].cached) = wp(s)
  BY DEF PageAt, Place
<1>2. \A s \in group : MemberOK(new, s)
  BY MemberFacts
<1>3. \A s \in group : wp(s) \in Pages /\ wp(s) \in ToSet(GroupTable(new, s))
  BY <1>2 DEF MemberOK, ToSet
<1>4. \A s, t \in group : wp(s) = wp(t) => s = t
  BY <1>3
<1>5. \A s \in group : seq[s].cached \in 0..MaxLen /\ seq[s].cached % PageSize \in Offsets
  <2> TAKE s \in group
  <2>1. seq[s].cached \in 0..MaxLen /\ MaxLen \in Nat
    BY <1>0, GraphAssumption DEF GraphInv, GTypes, SeqRecs
  <2>2. \A n \in Nat : n % PageSize \in Offsets
    BY PageFacts
  <2> QED BY <2>1, <2>2
<1>6. \A s \in Copies(new) : s \in group /\ new[s] \in Pages /\ Left(s) \in Pages
  <2> TAKE s \in Copies(new)
  <2>1. s \in group /\ new[s] \in Pages
    BY FreeFacts DEF Copies, Taken
  <2>2. Place(s) \in 1..Len(seq[s].table) /\ seq[s].table \in Seq(Pages)
    BY <2>1, <1>0, <1>2 DEF MemberOK, GraphInv, GTypes, SeqRecs
  <2> QED BY <2>1, <2>2 DEF Left, PageAt, Place
<1>7. \A p \in Pages : (\A s \in Copies(new) : new[s] # p) => CopiedKV(new, p) = kv[p]
  <2> TAKE p \in Pages
  <2> HAVE \A s \in Copies(new) : new[s] # p
  <2>1. {s \in Copies(new) : new[s] = p} = {}
    OBVIOUS
  <2> QED BY <2>1 DEF CopiedKV
<1>8. \A s \in Copies(new) : CopiedKV(new, new[s]) = kv[Left(s)]
  <2> TAKE s \in Copies(new)
  <2>1. \A t \in Copies(new) : new[t] = new[s] => t = s
    BY DEF Copies, Taken, IsInjective
  <2>2. {t \in Copies(new) : new[t] = new[s]} = {s}
    BY <2>1
  <2>3. (CHOOSE t \in {s} : TRUE) = s
    OBVIOUS
  <2> QED BY <2>2, <2>3 DEF CopiedKV
<1>9. \A p \in Pages : CopiedKV(new, p) \in [Offsets -> Tokens]
  <2> TAKE p \in Pages
  <2>1. CASE \A s \in Copies(new) : new[s] # p
    BY <2>1, <1>0, <1>7
  <2>2. CASE \E s \in Copies(new) : new[s] = p
    BY <2>2, <1>0, <1>6, <1>8
  <2> QED BY <2>1, <2>2
<1>10. k2 = [p \in Pages |-> [o \in Offsets |-> cell(p, o)]]
  BY DEF GroupKV, Offsets
<1>11. \A p \in Pages : k2[p] = [o \in Offsets |-> cell(p, o)]
  <2> HIDE DEF cell, k2
  <2> QED BY <1>10
<1>12. \A p \in Pages, o \in Offsets : k2[p][o] = cell(p, o)
  <2> HIDE DEF cell, k2
  <2> QED BY <1>11
<1>13. k2 = [p \in Pages |-> k2[p]]
  <2> DEFINE row(p) == [o \in Offsets |-> cell(p, o)]
  <2>1. k2 = [p \in Pages |-> row(p)]
    BY <1>10
  <2> HIDE DEF row, k2
  <2> QED BY <2>1
<1> HIDE DEF k2
<1>14. \A p \in Pages, o \in Offsets : cell(p, o) \in Tokens
  <2> TAKE p \in Pages, o \in Offsets
  <2>1. CASE here(p, o) = {}
    <3>1. CopiedKV(new, p)[o] \in Tokens
      BY <1>9
    <3> QED BY <2>1, <3>1
  <2>2. CASE here(p, o) # {}
    <3>1. PICK s \in here(p, o) : s = CHOOSE x \in here(p, o) : TRUE
      BY <2>2
    <3>2. cell(p, o) = Token(s, seq[s].cached)
      BY <2>2, <3>1
    <3>3. s \in Seqs /\ seq[s].cached \in 0..MaxLen
      BY <1>0, <1>5
    <3>4. PICK n \in 0..MaxLen : n = seq[s].cached
      BY <3>3
    <3>5. Token(s, n) \in Tokens
      BY <3>3 DEF Tokens
    <3> HIDE DEF cell
    <3> QED BY <3>2, <3>4, <3>5
  <2> QED BY <2>1, <2>2
<1>15. k2 \in [Pages -> [Offsets -> Tokens]]
  <2> HIDE DEF cell
  <2>1. \A p \in Pages : k2[p] \in [Offsets -> Tokens]
    BY <1>11, <1>14
  <2> QED BY <1>13, <2>1
<1>16. \A p \in Pages, o \in Offsets :
         (\A s \in group : ~ (wp(s) = p /\ seq[s].cached % PageSize = o))
         => k2[p][o] = CopiedKV(new, p)[o]
  <2> TAKE p \in Pages, o \in Offsets
  <2> HAVE \A s \in group : ~ (wp(s) = p /\ seq[s].cached % PageSize = o)
  <2>1. here(p, o) = {}
    BY <1>1
  <2>2. cell(p, o) = CopiedKV(new, p)[o]
    BY <2>1
  <2> HIDE DEF cell
  <2> QED BY <1>12, <2>2
<1>17. \A s \in group : k2[wp(s)][seq[s].cached % PageSize] = Token(s, seq[s].cached)
  <2> TAKE s \in group
  <2>1. PICK p \in Pages, o \in Offsets : p = wp(s) /\ o = seq[s].cached % PageSize
    BY <1>3, <1>5
  <2>2. here(p, o) = {s}
    BY <1>1, <1>4, <2>1
  <2>3. (CHOOSE t \in here(p, o) : TRUE) = s
    BY <2>2
  <2>4. cell(p, o) = Token(s, seq[s].cached)
    BY <2>2, <2>3
  <2> HIDE DEF cell
  <2> QED BY <1>12, <2>1, <2>4
<1> QED BY <1>7, <1>8, <1>15, <1>16, <1>17 DEF k2

\* The tables of the group share no page with one another, with the tables of the
\* others, or with the tree.
LEMMA GroupApart ==
  ASSUME GraphInv, NEW group, NEW new, Taken(group, new), NEW s \in group, NEW p \in Pages,
         p \in ToSet(GroupTable(new, s))
  PROVE  /\ \A t \in group : t # s => p \notin ToSet(GroupTable(new, t))
         /\ \A t \in Seqs : t # s => p \notin ToSet(seq[t].table)
         /\ p \notin tree
         /\ \A t \in Copies(new) : p # Left(t)
<1>1. /\ \A t \in group : MemberOK(new, t)
      /\ group \subseteq Seqs /\ s \in Seqs
  BY MemberFacts DEF Taken
<1>2. \A t \in DOMAIN new : /\ new[t] \in Pages /\ new[t] \notin tree
                            /\ \A v \in Seqs : new[t] \notin ToSet(seq[v].table)
  BY FreeFacts DEF Taken
<1>3. \A t, v \in DOMAIN new : new[t] = new[v] => t = v
  BY DEF Taken, IsInjective
<1>4. \A t \in group : \A q \in ToSet(GroupTable(new, t)) :
        q \in ToSet(seq[t].table) \/ (t \in DOMAIN new /\ q = new[t])
  BY <1>1 DEF MemberOK
<1>5. \A t, v \in Seqs, q \in Pages :
        t # v => ~ (q \in ToSet(seq[t].table) /\ q \in ToSet(seq[v].table))
  BY DEF GraphInv, Owned, Apart
<1>6. \A t \in Seqs, q \in tree : q \notin ToSet(seq[t].table)
  BY DEF GraphInv, Owned
<1>7. p \in ToSet(seq[s].table) \/ (s \in DOMAIN new /\ p = new[s])
  BY <1>4
<1>8. \A t \in group : t # s => p \notin ToSet(GroupTable(new, t))
  BY <1>1, <1>2, <1>3, <1>4, <1>5, <1>7
<1>9. \A t \in Seqs : t # s => p \notin ToSet(seq[t].table)
  BY <1>1, <1>2, <1>5, <1>7
<1>10. p \notin tree
  BY <1>1, <1>2, <1>6, <1>7
<1>11. \A t \in Copies(new) : p # Left(t)
  <2> TAKE t \in Copies(new)
  <2>1. t \in group /\ t \in Seqs
    BY <1>1 DEF Copies, Taken
  <2>2. Place(t) \in 1..Len(seq[t].table) /\ seq[t].table \in Seq(Pages)
        /\ Left(t) \notin ToSet(GroupTable(new, t))
    BY <2>1, <1>1 DEF MemberOK, GraphInv, GTypes, SeqRecs
  <2>3. Left(t) \in ToSet(seq[t].table)
    BY <2>2 DEF Left, PageAt, Place, ToSet
  <2>4. CASE t = s
    BY <2>2, <2>4
  <2>5. CASE t # s
    BY <2>1, <2>3, <2>5, <1>9
  <2> QED BY <2>4, <2>5
<1> QED BY <1>8, <1>9, <1>10, <1>11

\* The members' records after the group's step.
GroupSeq(group, new) ==
  [s \in Seqs |-> IF s \notin group THEN seq[s]
                  ELSE [seq[s] EXCEPT !.table = GroupTable(new, s), !.cached = @ + 1]]

\* They have their types; only the members change.
LEMMA GroupSeqFacts ==
  ASSUME GraphInv, NEW group, NEW new, Taken(group, new)
  PROVE  /\ GroupSeq(group, new) \in [Seqs -> SeqRecs]
         /\ \A t \in Seqs \ group : GroupSeq(group, new)[t] = seq[t]
         /\ \A t \in group : /\ GroupSeq(group, new)[t].st = "running"
                             /\ GroupSeq(group, new)[t].table = GroupTable(new, t)
                             /\ GroupSeq(group, new)[t].cached = seq[t].cached + 1
<1> DEFINE m(t) == [seq[t] EXCEPT !.table = GroupTable(new, t), !.cached = @ + 1]
           q(t) == IF t \notin group THEN seq[t] ELSE m(t)
           g == GroupSeq(group, new)
<1>1. \A t \in Seqs : seq[t] \in SeqRecs
  BY DEF GraphInv, GTypes
<1>2. group \subseteq Seqs
  BY DEF Taken
<1>3. \A t \in group : /\ m(t) \in SeqRecs /\ m(t).st = "running" /\ m(t).table = GroupTable(new, t)
                       /\ m(t).cached = seq[t].cached + 1
  <2> TAKE t \in group
  <2>1. GroupTable(new, t) \in Seq(Pages)
    BY MemberFacts DEF MemberOK
  <2>2. seq[t] \in [st : {"new", "running", "done"}, table : Seq(Pages), cached : 0..MaxLen]
    BY <1>1, <1>2 DEF SeqRecs
  <2>3. seq[t].st = "running" /\ seq[t].cached + 1 \in 0..MaxLen
    BY <2>2, GraphAssumption DEF Taken
  <2>4. PICK c \in 0..MaxLen : c = seq[t].cached + 1
    BY <2>3
  <2>5. PICK tb \in Seq(Pages) : tb = GroupTable(new, t)
    BY <2>1
  <2>6. m(t) = [seq[t] EXCEPT !.table = tb, !.cached = c]
    BY <2>4, <2>5
  <2>7. [seq[t] EXCEPT !.table = tb, !.cached = c] \in SeqRecs
    BY <2>2 DEF SeqRecs
  <2> QED BY <2>2, <2>3, <2>4, <2>5, <2>6, <2>7
<1>4. g = [t \in Seqs |-> q(t)]
  BY DEF GroupSeq
<1>5. \A t \in Seqs : q(t) \in SeqRecs
  <2> HIDE DEF m
  <2> QED BY <1>1, <1>3
<1>6. \A t \in group : q(t) = m(t)
  OBVIOUS
<1>7. \A t \in Seqs \ group : q(t) = seq[t]
  OBVIOUS
<1> HIDE DEF q, m, g
<1>8. g \in [Seqs -> SeqRecs] /\ \A t \in Seqs : g[t] = q(t)
  BY <1>4, <1>5
<1> QED BY <1>2, <1>3, <1>6, <1>7, <1>8 DEF g

\* A position that a member has cached keeps its K/V: nobody writes there, and a
\* page that is replaced has been copied.
LEMMA GroupHistory ==
  ASSUME GraphInv, NEW group, NEW new, Taken(group, new), NEW t \in group,
         NEW i \in 0..(seq[t].cached - 1)
  PROVE  GroupKV(group, new)[PageAt(GroupTable(new, t), i)][i % PageSize]
           = kv[PageAt(seq[t].table, i)][i % PageSize]
<1>1. /\ \A s \in group : MemberOK(new, s)
      /\ group \subseteq Seqs /\ t \in Seqs
  BY MemberFacts DEF Taken
<1>2. seq[t] \in SeqRecs /\ TableOK(t) /\ seq[t].st = "running" /\ seq[t].table \in Seq(Pages)
  BY <1>1 DEF GraphInv, GTypes, Owned, SeqRecs, Taken
<1>3. PICK c \in Nat : c = seq[t].cached /\ i \in Nat /\ i < c
  BY <1>2, GraphAssumption DEF SeqRecs
<1>4. PICK j \in 1..Len(seq[t].table), o \in Offsets : j = i \div PageSize + 1 /\ o = i % PageSize
  BY <1>2, HeldPlace
<1>5. PICK g \in Seq(Pages) : g = GroupTable(new, t) /\ IsInjective(g)
  BY <1>1 DEF MemberOK
<1>6. /\ PageAt(g, i) = g[j] /\ PageAt(seq[t].table, i) = seq[t].table[j]
  BY <1>4 DEF PageAt
<1>7. /\ Place(t) \in 1..Len(g)
      /\ t \in Copies(new) => /\ Place(t) \in 1..Len(seq[t].table) /\ g[Place(t)] = new[t]
      /\ j # Place(t) \/ t \notin Copies(new) => g[j] = seq[t].table[j]
  BY <1>1, <1>5 DEF MemberOK
<1>8. j \in 1..Len(g)
  <2>1. \A n, m \in Nat : /\ m < n => m \div PageSize + 1 \in 1..NPages(n)
                          /\ NPages(n) \in Nat /\ NPages(n) <= NPages(n + 1)
    BY PageFacts
  <2>a. c + 1 \in Nat
    OBVIOUS
  <2>2. j \in 1..NPages(c) /\ NPages(c) <= NPages(c + 1) /\ NPages(c) \in Nat /\ NPages(c + 1) \in Nat
    BY <2>1, <2>a, <1>3, <1>4
  <2>3. Len(g) >= NPages(c + 1) /\ Len(g) \in Nat
    BY <1>1, <1>3, <1>5 DEF MemberOK
  <2> QED BY <2>2, <2>3
<1>9. PICK p \in Pages : p = g[j] /\ p \in ToSet(g)
  BY <1>8 DEF ToSet
<1>10. \A s, v \in group : s # v =>
         \A q \in Pages : ~ (q \in ToSet(GroupTable(new, s)) /\ q \in ToSet(GroupTable(new, v)))
  BY GroupApart
<1>11. \A s \in group : ~ (GroupTable(new, s)[Place(s)] = p /\ seq[s].cached % PageSize = o)
  <2> TAKE s \in group
  <2>1. CASE s # t
    <3>1. GroupTable(new, s) \in Seq(Pages) /\ Place(s) \in 1..Len(GroupTable(new, s))
      BY <1>1 DEF MemberOK
    <3>2. GroupTable(new, s)[Place(s)] \in ToSet(GroupTable(new, s))
      BY <3>1 DEF ToSet
    <3> QED BY <2>1, <3>2, <1>5, <1>9, <1>10
  <2>2. CASE s = t /\ j = Place(t)
    <3>1. i \div PageSize = c \div PageSize
      <4>1. \A n \in Nat : n \div PageSize \in Nat
        BY PageFacts
      <4>2. PICK a \in Nat, b \in Nat : a = i \div PageSize /\ b = c \div PageSize
        BY <4>1, <1>3
      <4>3. a + 1 = b + 1
        BY <4>2, <2>2, <1>3, <1>4 DEF Place
      <4> QED BY <4>2, <4>3
    <3>2. i % PageSize # c % PageSize
      BY <3>1, <1>3, SamePlace
    <3> QED BY <3>2, <2>2, <1>3, <1>4
  <2>3. CASE s = t /\ j # Place(t)
    <3>1. g[j] # g[Place(t)]
      BY <2>3, <1>5, <1>7, <1>8 DEF IsInjective
    <3> QED BY <3>1, <2>3, <1>5, <1>9
  <2> QED BY <2>1, <2>2, <2>3
<1>12. GroupKV(group, new)[p][o] = CopiedKV(new, p)[o]
  BY <1>10, <1>11, GroupWrites
<1>13. CopiedKV(new, p) = kv[seq[t].table[j]]
  <2>1. CASE t \in Copies(new) /\ j = Place(t)
    <3>1. p = new[t] /\ Left(t) = seq[t].table[j]
      BY <2>1, <1>7, <1>9 DEF Left, PageAt, Place
    <3> QED BY <3>1, <2>1, <1>10, GroupWrites
  <2>2. CASE ~ (t \in Copies(new) /\ j = Place(t))
    <3>1. p = seq[t].table[j] /\ p \in ToSet(seq[t].table)
      BY <2>2, <1>2, <1>7, <1>9 DEF ToSet
    <3>2. \A s \in Copies(new) : new[s] # p
      BY <3>1, <1>1, FreeFacts DEF Copies, Taken
    <3> QED BY <3>1, <3>2, <1>10, GroupWrites
  <2> QED BY <2>1, <2>2
<1> QED BY <1>4, <1>5, <1>6, <1>9, <1>12, <1>13

\* The pages of the sequences outside the group are not touched.
LEMMA OthersHistory ==
  ASSUME GraphInv, NEW group, NEW new, Taken(group, new), NEW t \in Seqs \ group,
         NEW p \in Pages, p \in ToSet(seq[t].table), NEW o \in Offsets
  PROVE  GroupKV(group, new)[p][o] = kv[p][o]
<1>1. \A s \in group : MemberOK(new, s)
  BY MemberFacts DEF Taken
<1>2. \A s, v \in group : s # v =>
        \A q \in Pages : ~ (q \in ToSet(GroupTable(new, s)) /\ q \in ToSet(GroupTable(new, v)))
  BY GroupApart
<1>3. \A s \in group : GroupTable(new, s)[Place(s)] # p
  <2> TAKE s \in group
  <2>1. GroupTable(new, s) \in Seq(Pages) /\ Place(s) \in 1..Len(GroupTable(new, s))
    BY <1>1 DEF MemberOK
  <2>2. GroupTable(new, s)[Place(s)] \in ToSet(GroupTable(new, s))
    BY <2>1 DEF ToSet
  <2>3. p \notin ToSet(GroupTable(new, s))
    BY GroupApart DEF Taken
  <2> QED BY <2>2, <2>3
<1>4. \A s \in Copies(new) : new[s] # p
  BY FreeFacts DEF Copies, Taken
<1>5. GroupKV(group, new)[p][o] = CopiedKV(new, p)[o]
  BY <1>2, <1>3, GroupWrites
<1>6. CopiedKV(new, p) = kv[p]
  BY <1>2, <1>4, GroupWrites
<1> QED BY <1>5, <1>6

\* The choices of DecodeGroup.
GroupStep(group, need, new) ==
  /\ \A s \in group : Extends(s) => s \in need
  /\ IsInjective(new)
  /\ seq' = GroupSeq(group, new)
  /\ kv' = GroupKV(group, new)
  /\ tree' = tree \cup {Left(s) : s \in Copies(new)}

\* A decode of a group keeps the invariant.
LEMMA DecodeGroupKeeps ==
  ASSUME GraphInv, NEW group \in SUBSET Seqs, DecodeGroup(group)
  PROVE  GraphInv'
<1>1. /\ UNCHANGED <<st, mem, tokBuf, cg, fwd, burst, lost>> /\ ran' = Nothing
      /\ fwd = Nothing /\ burst = Nothing
  BY DEF DecodeGroup
<1>a. PICK need \in SUBSET group : \E new \in [need -> Free] : GroupStep(group, need, new)
  BY DEF DecodeGroup, GroupSeq, GroupStep
<1>2. PICK new \in [need -> Free] : GroupStep(group, need, new)
  BY <1>a
<1>b. /\ \A s \in group : Extends(s) => s \in need
      /\ IsInjective(new)
      /\ seq' = GroupSeq(group, new)
      /\ kv' = GroupKV(group, new)
      /\ tree' = tree \cup {Left(s) : s \in Copies(new)}
  BY <1>2 DEF GroupStep
<1>3. Taken(group, new)
  <2>1. \A s \in group : seq[s].st = "running" /\ seq[s].cached < MaxLen
    BY DEF DecodeGroup
  <2> QED BY <1>b, <2>1 DEF Taken
<1>4. \A s, v \in group : s # v =>
        \A q \in Pages : ~ (q \in ToSet(GroupTable(new, s)) /\ q \in ToSet(GroupTable(new, v)))
  BY <1>3, GroupApart
<1>5. /\ seq' \in [Seqs -> SeqRecs]
      /\ \A t \in Seqs \ group : seq'[t] = seq[t]
      /\ \A t \in group : /\ seq'[t].st = "running" /\ seq'[t].table = GroupTable(new, t)
                          /\ seq'[t].cached = seq[t].cached + 1
  BY <1>b, <1>3, GroupSeqFacts
<1>6. kv' \in [Pages -> [Offsets -> Tokens]]
  BY <1>b, <1>3, <1>4, GroupWrites
<1>7. \A s \in group : MemberOK(new, s)
  BY <1>3, MemberFacts
<1>8. \A s \in Copies(new) : s \in group /\ Left(s) \in Pages /\ Left(s) \in ToSet(seq[s].table)
  <2> TAKE s \in Copies(new)
  <2>1. s \in group
    BY <1>3 DEF Copies, Taken
  <2>2. Place(s) \in 1..Len(seq[s].table) /\ seq[s].table \in Seq(Pages)
    BY <2>1, <1>7 DEF MemberOK, GraphInv, GTypes, SeqRecs
  <2> QED BY <2>1, <2>2 DEF Left, PageAt, Place, ToSet
<1>9. tree' \subseteq Pages
  BY <1>b, <1>8 DEF GraphInv, GTypes
<1>10. GTypes'
  BY <1>1, <1>5, <1>6, <1>9 DEF GraphInv, GTypes
<1>11. \A t \in Seqs : seq[t] \in SeqRecs /\ seq[t].table \in Seq(Pages) /\ seq[t].cached \in 0..MaxLen
  BY DEF GraphInv, GTypes, SeqRecs
<1>12. Owned'
  <2>1. \A t \in Seqs : TableOK(t)'
    <3> TAKE t \in Seqs
    <3>1. TableOK(t)
      BY DEF GraphInv, Owned
    <3>2. CASE t \notin group
      BY <3>1, <3>2, <1>5 DEF TableOK
    <3>3. CASE t \in group
      <4>1. PICK c \in Nat : c = seq[t].cached
        BY <1>11
      <4>2. /\ IsInjective(GroupTable(new, t)) /\ Len(GroupTable(new, t)) >= NPages(c + 1)
            /\ Len(GroupTable(new, t)) <= NPages(MaxLen)
        BY <4>1, <3>3, <1>7 DEF MemberOK
      <4>3. seq'[t].cached = c + 1 /\ c + 1 > 0
        BY <4>1, <3>3, <1>5
      <4> QED BY <4>2, <4>3, <3>3, <1>5 DEF TableOK
    <3> QED BY <3>2, <3>3
  <2>2. \A t, v \in Seqs : t # v => Apart(t, v)'
    <3> TAKE t \in Seqs, v \in Seqs
    <3> HAVE t # v
    <3>1. Apart(t, v)
      BY DEF GraphInv, Owned
    <3>2. CASE t \notin group /\ v \notin group
      BY <3>1, <3>2, <1>5 DEF Apart
    <3>3. CASE t \in group /\ v \in group
      BY <3>3, <1>4, <1>5 DEF Apart
    <3>4. CASE t \in group /\ v \notin group
      BY <3>4, <1>3, <1>5, GroupApart DEF Apart
    <3>5. CASE t \notin group /\ v \in group
      BY <3>5, <1>3, <1>5, GroupApart DEF Apart
    <3> QED BY <3>2, <3>3, <3>4, <3>5
  <2>3. ASSUME NEW t \in Seqs, NEW p \in tree'
        PROVE  p \notin ToSet(seq'[t].table)
    <3>1. p \in Pages
      BY <1>9
    <3>2. p \in tree \/ \E s \in Copies(new) : p = Left(s)
      BY <1>b
    <3>3. CASE t \in group
      BY <3>1, <3>2, <3>3, <1>3, <1>5, GroupApart
    <3>4. CASE t \notin group
      <4>1. p \in tree => p \notin ToSet(seq[t].table)
        BY DEF GraphInv, Owned
      <4>2. ASSUME NEW s \in Copies(new), p = Left(s) PROVE p \notin ToSet(seq[t].table)
        <5>1. s \in Seqs /\ s # t /\ p \in ToSet(seq[s].table)
          BY <4>2, <1>8, <3>4
        <5> QED BY <5>1, <3>1 DEF GraphInv, Owned, Apart
      <4> QED BY <4>1, <4>2, <3>2, <3>4, <1>5
    <3> QED BY <3>3, <3>4
  <2> QED BY <2>1, <2>2, <2>3 DEF Owned
<1>13. Buffers' /\ PlanCurrent' /\ Forward'
  BY <1>1 DEF GraphInv, Buffers, PlanCurrent, Forward
<1>14. BurstFed'
  BY <1>1 DEF BurstFed, Nothing
<1>15. HistoryIntact'
  <2> SUFFICES ASSUME NEW t \in Seqs, seq'[t].st = "running", NEW i \in 0..(seq'[t].cached - 1)
               PROVE  i \in lost'[t] \/ kv'[PageAt(seq'[t].table, i)][i % PageSize] = Token(t, i)
    BY DEF HistoryIntact
  <2>1. CASE t \notin group
    <3>1. /\ seq'[t] = seq[t] /\ seq[t].st = "running" /\ seq[t] \in SeqRecs /\ TableOK(t)
          /\ seq[t].table \in Seq(Pages) /\ i \in 0..(seq[t].cached - 1)
      BY <2>1, <1>5, <1>11 DEF GraphInv, Owned
    <3>2. i \in lost[t] \/ kv[PageAt(seq[t].table, i)][i % PageSize] = Token(t, i)
      BY <3>1 DEF GraphInv, HistoryIntact
    <3>3. i \div PageSize + 1 \in 1..Len(seq[t].table) /\ i % PageSize \in Offsets
      BY <3>1, HeldPlace
    <3>4. /\ PageAt(seq[t].table, i) \in Pages
          /\ PageAt(seq[t].table, i) \in ToSet(seq[t].table)
      BY <3>1, <3>3 DEF PageAt, ToSet
    <3>5. GroupKV(group, new)[PageAt(seq[t].table, i)][i % PageSize]
            = kv[PageAt(seq[t].table, i)][i % PageSize]
      BY <3>3, <3>4, <2>1, <1>3, OthersHistory
    <3> QED BY <3>1, <3>2, <3>5, <1>1, <1>b
  <2>2. CASE t \in group
    <3>1. seq'[t].table = GroupTable(new, t) /\ seq'[t].cached = seq[t].cached + 1
          /\ seq[t].cached \in Nat /\ i \in Nat /\ i <= seq[t].cached
      BY <2>2, <1>5, <1>11
    <3>2. CASE i = seq[t].cached
      <4>1. PageAt(GroupTable(new, t), i) = GroupTable(new, t)[Place(t)]
        BY <3>2 DEF PageAt, Place
      <4>2. GroupKV(group, new)[GroupTable(new, t)[Place(t)]][seq[t].cached % PageSize]
              = Token(t, seq[t].cached)
        BY <2>2, <1>3, <1>4, GroupWrites
      <4> QED BY <4>1, <4>2, <3>1, <3>2, <1>b
    <3>3. CASE i < seq[t].cached
      <4>1. i \in 0..(seq[t].cached - 1) /\ seq[t].st = "running"
        BY <3>1, <3>3, <2>2, <1>3 DEF Taken
      <4>2. i \in lost[t] \/ kv[PageAt(seq[t].table, i)][i % PageSize] = Token(t, i)
        BY <4>1 DEF GraphInv, HistoryIntact
      <4>3. GroupKV(group, new)[PageAt(GroupTable(new, t), i)][i % PageSize]
              = kv[PageAt(seq[t].table, i)][i % PageSize]
        BY <4>1, <2>2, <1>3, GroupHistory
      <4> QED BY <4>2, <4>3, <3>1, <1>1, <1>b
    <3> QED BY <3>1, <3>2, <3>3
  <2> QED BY <2>1, <2>2
<1> QED BY <1>10, <1>12, <1>13, <1>14, <1>15 DEF GraphInv

----------------------------------------------------------------------------
(* The theorems *)

\* The engine starts in a state of the invariant.
LEMMA GraphInvInit == InitGraph => GraphInv
<1> SUFFICES ASSUME InitGraph PROVE GraphInv
  OBVIOUS
<1> USE DEF InitGraph
<1>0. /\ MaxLen \in Nat /\ WarmupNeed \in Nat /\ 0 \in 0..WarmupNeed /\ 0 \in 0..MaxLen
      /\ NPages(MaxLen) \in Nat /\ MaxGen \in Nat /\ 0 \in 0..MaxGen
  <2>1. MaxLen \in Nat /\ WarmupNeed \in Nat
    BY GraphAssumption
  <2>2. NPages(MaxLen) \in Nat
    BY <2>1, PageFacts
  <2> QED BY <2>1, <2>2 DEF MaxGen
<1>1. \A s \in Seqs : seq[s] = [st |-> "new", table |-> <<>>, cached |-> 0]
  OBVIOUS
<1>2. \A s \in Seqs : seq[s].st = "new" /\ seq[s].table = <<>> /\ seq[s].cached = 0
  BY <1>1
<1>3. GTypes
  <2>1. [st |-> "new", table |-> <<>>, cached |-> 0] \in SeqRecs
    BY <1>0 DEF SeqRecs
  <2>2. seq \in [Seqs -> SeqRecs]
    BY <2>1
  <2>3. kv \in [Pages -> [Offsets -> Tokens]]
    <3> DEFINE row == [o \in 0..(PageSize - 1) |-> NoToken]
    <3>1. row \in [Offsets -> Tokens]
      BY DEF Offsets, Tokens
    <3>2. kv = [p \in Pages |-> row]
      OBVIOUS
    <3> HIDE DEF row
    <3> QED BY <3>1, <3>2
  <2>4. st \in [gen : 0..MaxGen, cap : Nat, host : Seq(Pages), wrapper : Int]
    BY <1>0
  <2>5. mem \in [1..MaxGen -> [pages : Seq(Pages), n : Nat, pos : Nat]]
    <3>1. Blank \in [pages : Seq(Pages), n : Nat, pos : Nat]
      BY DEF Blank
    <3> QED BY <3>1
  <2>6. tokBuf \in Tokens
    BY DEF Tokens
  <2>7. cg \in [graph : Graphs, disabled : BOOLEAN]
    <3>1. NoGraph \in Graphs
      BY <1>0 DEF NoGraph, Graphs
    <3> QED BY <3>1
  <2> QED BY <2>2, <2>3, <2>4, <2>5, <2>6, <2>7 DEF GTypes
<1>4. Owned
  <2>1. ToSet(<<>>) = {} /\ IsInjective(<<>>) /\ Len(<<>>) = 0
    BY DEF ToSet, IsInjective
  <2>2. \A s \in Seqs : TableOK(s)
    BY <1>0, <1>2, <2>1 DEF TableOK
  <2> QED BY <1>2, <2>1, <2>2 DEF Owned, Apart
<1>5. Buffers
  <2>1. st.gen = 0
    OBVIOUS
  <2>2. \A g \in 1..MaxGen : mem[g].pages = <<>>
    BY DEF Blank
  <2> QED BY <2>1, <2>2 DEF Buffers
<1>6. Forward /\ PlanCurrent
  BY DEF Forward, PlanCurrent
<1>7. BurstFed
  BY DEF BurstFed, Nothing
<1>8. HistoryIntact
  BY <1>2 DEF HistoryIntact
<1> QED BY <1>3, <1>4, <1>5, <1>6, <1>7, <1>8 DEF GraphInv

\* Every step keeps it.
LEMMA GraphInvNext == GraphInv /\ [NextGraph]_gVars => GraphInv'
<1> SUFFICES ASSUME GraphInv, [NextGraph]_gVars PROVE GraphInv'
  OBVIOUS
<1>1. ASSUME NEW s \in Seqs, Prefill(s) PROVE GraphInv'
  BY <1>1, PrefillKeeps
<1>2. ASSUME NEW s \in Seqs, PlanOne(s) PROVE GraphInv'
  BY <1>2, PlanOneKeeps
<1>3. ASSUME NEW s \in Seqs, StartBurst(s) PROVE GraphInv'
  BY <1>3, StartBurstKeeps
<1>4. ASSUME NEW s \in Seqs, Finish(s) PROVE GraphInv'
  BY <1>4, FinishKeeps
<1>5. ASSUME NEW group \in SUBSET Seqs, DecodeGroup(group) PROVE GraphInv'
  BY <1>5, DecodeGroupKeeps
<1>6. CASE RunEager
  BY <1>6, RunEagerKeeps
<1>7. CASE BodyRaises
  BY <1>7, BodyRaisesKeeps
<1>8. CASE RunCapture
  BY <1>8, RunCaptureKeeps
<1>9. CASE CaptureFails
  BY <1>9, CaptureFailsKeeps
<1>10. CASE RunReplay
  BY <1>10, RunReplayKeeps
<1>11. CASE EndBurst
  BY <1>11, EndBurstKeeps
<1>12. CASE UNCHANGED gVars
  BY <1>12 DEF gVars, GraphInv, GTypes, Owned, TableOK, Apart, Buffers, Forward, PlannedFor,
               BurstFed, PlanCurrent, HistoryIntact
<1> QED
  BY <1>1, <1>2, <1>3, <1>4, <1>5, <1>6, <1>7, <1>8, <1>9, <1>10, <1>11, <1>12 DEF NextGraph

\* The invariant always holds.
LEMMA GraphInvAlways == SpecGraph => []GraphInv
  BY GraphInvInit, GraphInvNext, PTL DEF SpecGraph

\* Every variable keeps its type, for any number of sequences, pages and
\* capacities: no page twice in a block table, the generation of the static
\* buffers is bounded although nothing counts their replacements.
THEOREM GraphTyped == SpecGraph => []GraphTypeOK
<1>1. ASSUME GraphInv PROVE GraphTypeOK
  <2>1. \A s \in Seqs : /\ seq[s].st \in {"new", "running", "done"}
                        /\ seq[s].table \in Seq(Pages) /\ IsInjective(seq[s].table)
                        /\ seq[s].cached \in 0..MaxLen
    BY <1>1 DEF GraphInv, GTypes, SeqRecs, Owned, TableOK
  <2>2. \A p \in Pages, o \in 0..(PageSize - 1) : kv[p][o] \in Tokens
    <3>1. kv \in [Pages -> [Offsets -> Tokens]]
      BY <1>1 DEF GraphInv, GTypes
    <3>2. \A p \in Pages : kv[p] \in [Offsets -> Tokens]
      BY <3>1
    <3> QED BY <3>2 DEF Offsets
  <2>3. tree \subseteq Pages /\ tokBuf \in Tokens /\ st.gen \in 0..MaxGen
    BY <1>1 DEF GraphInv, GTypes
  <2>4. cg.graph.warm \in 0..WarmupNeed
    BY <1>1 DEF GraphInv, GTypes, Graphs
  <2> QED BY <2>1, <2>2, <2>3, <2>4 DEF GraphTypeOK
<1> QED BY <1>1, GraphInvAlways, PTL

\* What a decode of one sequence used, eager, captured or replayed, is the page
\* list and the position of that sequence.
THEOREM PlanIsCurrent == SpecGraph => []PlanCurrent
<1>1. GraphInv => PlanCurrent
  BY DEF GraphInv
<1> QED BY <1>1, GraphInvAlways, PTL

\* The K/V of a running sequence is its own, but for positions whose own step was
\* a capture or a replay of a wrong input; no other sequence's step, graph or
\* cancelled burst writes into its pages.
THEOREM HistoryIsIntact == SpecGraph => []HistoryIntact
<1>1. GraphInv => HistoryIntact
  BY DEF GraphInv
<1> QED BY <1>1, GraphInvAlways, PTL

\* The end of an eager step loses nothing.
LEMMA EagerLosesNothing ==
  ASSUME GraphInv, fwd # Nothing, Finishes("eager", st.wrapper, InputToken, FALSE)
  PROVE  lost' = lost
<1>1. InputToken = Own
  BY InputIsOwn
<1> QED BY <1>1 DEF Finishes

\* An eager step, in a burst or not, never loses a position.
THEOREM EagerIsFaithful == SpecGraph => EagerFaithful
<1> DEFINE A == \A s \in Seqs : lost'[s] # lost[s] => ran'.kind # "eager"
<1>1. ASSUME GraphInv, [NextGraph]_gVars PROVE [A]_gVars
  <2>1. CASE UNCHANGED gVars
    BY <2>1
  <2>2. CASE \/ \E s \in Seqs : Prefill(s) \/ PlanOne(s) \/ StartBurst(s) \/ Finish(s)
             \/ \E group \in SUBSET Seqs : DecodeGroup(group)
             \/ BodyRaises \/ EndBurst
    <3>1. ASSUME NEW s \in Seqs, Prefill(s) PROVE lost' = lost
      BY <3>1 DEF Prefill
    <3>2. ASSUME NEW s \in Seqs, PlanOne(s) PROVE lost' = lost
      <4>1. \A table : Plan(s, table) => lost' = lost
        BY DEF Plan
      <4> QED BY <3>2, <4>1 DEF PlanOne
    <3>3. ASSUME NEW s \in Seqs, StartBurst(s) PROVE lost' = lost
      BY <3>3 DEF StartBurst
    <3>4. ASSUME NEW s \in Seqs, Finish(s) PROVE lost' = lost
      BY <3>4 DEF Finish
    <3>5. ASSUME NEW group \in SUBSET Seqs, DecodeGroup(group) PROVE lost' = lost
      BY <3>5 DEF DecodeGroup
    <3>6. ASSUME BodyRaises \/ EndBurst PROVE lost' = lost
      BY <3>6 DEF BodyRaises, EndBurst
    <3>7. lost' = lost
      BY <2>2, <3>1, <3>2, <3>3, <3>4, <3>5, <3>6
    <3> QED BY <3>7
  <2>3. CASE RunEager
    <3>1. lost' = lost
      BY <1>1, <2>3, EagerLosesNothing DEF RunEager, InBody
    <3> QED BY <3>1
  <2>4. CASE CaptureFails
    <3>1. lost' = lost
      BY <1>1, <2>4, EagerLosesNothing DEF CaptureFails, InBody
    <3> QED BY <3>1
  <2>5. CASE RunCapture
    <3>1. ran'.kind = "capture"
      BY <2>5 DEF RunCapture, Finishes
    <3> QED BY <3>1
  <2>6. CASE RunReplay
    <3>1. ran'.kind = "replay"
      BY <2>6 DEF RunReplay, Finishes
    <3> QED BY <3>1
  <2> QED BY <1>1, <2>1, <2>2, <2>3, <2>4, <2>5, <2>6 DEF NextGraph
<1>2. GraphInv /\ [NextGraph]_gVars => [A]_gVars
  BY <1>1
<1> HIDE DEF A
<1>3. SpecGraph => [][A]_gVars
  BY <1>2, GraphInvAlways, PTL DEF SpecGraph
<1> QED BY <1>3 DEF EagerFaithful, A
====
