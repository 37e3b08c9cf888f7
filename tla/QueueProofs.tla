---- MODULE QueueProofs ----
(***************************************************************************)
(* What filtering a list preserves: the entries that pass and only those,  *)
(* in their order.  Also the least-number principle, in the form in which  *)
(* the other proofs use it.                                                *)
(***************************************************************************)
EXTENDS Queues, FiniteSetTheorems, TLAPS

\* A nonempty set of natural numbers has a least member.
LEMMA LeastNat ==
  ASSUME NEW T, T \subseteq Nat, T # {}
  PROVE  \E x \in T : \A y \in T : x <= y
<1> DEFINE R == OpToRel(<, Nat)
<1>1. IsWellFoundedOn(R, Nat)
  BY NatLessThanWellFounded
<1>2. \A x, y \in Nat : x < y => <<x, y>> \in R
  BY DEF OpToRel
<1> HIDE DEF R
<1>3. PICK x \in T : \A y \in T : ~ (<<y, x>> \in R)
  BY <1>1, WFMin
<1>4. \A y \in T : x <= y
  <2> TAKE y \in T
  <2>1. ~ (y < x)
    BY <1>2, <1>3
  <2> QED BY <2>1
<1> QED BY <1>4

\* A set that holds 0, and with a number the next one, holds all numbers.
LEMMA Induct ==
  ASSUME NEW S, 0 \in S, \A n \in Nat : n \in S => n + 1 \in S
  PROVE  Nat \subseteq S
<1> SUFFICES ASSUME Nat \ S # {} PROVE FALSE
  OBVIOUS
<1>1. PICK x \in Nat \ S : \A y \in Nat \ S : x <= y
  BY LeastNat
<1>2. x # 0 /\ x - 1 \in Nat /\ x - 1 \in S
  BY <1>1
<1> QED BY <1>1, <1>2

\* A set of places is finite, and its members have the ranks 1, 2, ... in their order.
LEMMA RankFacts ==
  ASSUME NEW n \in Nat, NEW I \in SUBSET (1..n)
  PROVE  /\ Cardinality(I) \in Nat /\ Cardinality(I) <= n
         /\ \A i \in I : Rank(I, i) \in 1..Cardinality(I)
         /\ \A i, j \in I : i < j => Rank(I, i) < Rank(I, j)
         /\ \A k \in 1..Cardinality(I) : Nth(I, k) \in I /\ Rank(I, Nth(I, k)) = k
<1> DEFINE C == Cardinality(I)
           U(i) == {j \in I : j <= i}
<1>0. \A i \in I : i \in Int
  OBVIOUS
<1>1. IsFiniteSet(I) /\ C \in Nat /\ C <= n
  <2>1. IsFiniteSet(1..n) /\ Cardinality(1..n) = n
    BY FS_Interval
  <2> QED BY <2>1, FS_Subset, FS_CardinalityType
<1>2. ASSUME NEW i \in I
      PROVE  U(i) \in SUBSET I /\ IsFiniteSet(U(i)) /\ Rank(I, i) \in 1..C
  <2>1. U(i) \in SUBSET I /\ i \in U(i)
    OBVIOUS
  <2>2. IsFiniteSet(U(i)) /\ Cardinality(U(i)) <= C
    BY <1>1, <2>1, FS_Subset
  <2>3. Cardinality(U(i)) \in Nat /\ Cardinality(U(i)) # 0
    BY <2>1, <2>2, FS_CardinalityType, FS_EmptySet
  <2> QED BY <1>1, <2>1, <2>2, <2>3 DEF Rank
<1>3. ASSUME NEW i \in I, NEW j \in I, i < j
      PROVE  Rank(I, i) < Rank(I, j)
  <2>1. U(i) \in SUBSET U(j) /\ j \in U(j) /\ j \notin U(i)
    <3>1. \A x \in U(i) : x \in U(j)
      <4> SUFFICES ASSUME NEW x \in I, x <= i PROVE x <= j
        OBVIOUS
      <4> QED BY <1>0, <1>3
    <3>2. j <= j /\ ~ (j <= i)
      BY <1>0, <1>3
    <3> QED BY <3>1, <3>2
  <2>2. IsFiniteSet(U(j)) /\ Rank(I, i) \in 1..C /\ Rank(I, j) \in 1..C
    BY <1>2
  <2>3. Cardinality(U(i)) <= Cardinality(U(j)) /\ Cardinality(U(i)) # Cardinality(U(j))
    BY <2>1, <2>2, FS_Subset
  <2> QED BY <1>1, <2>2, <2>3 DEF Rank
<1>4. ASSUME NEW k \in 1..C
      PROVE  \E i \in I : Rank(I, i) = k
  <2> DEFINE f == [i \in I |-> Rank(I, i)]
  <2>1. f \in [I -> 1..C]
    BY <1>2
  <2>2. \A i, j \in I : f[i] = f[j] => i = j
    <3> SUFFICES ASSUME NEW i \in I, NEW j \in I, i # j PROVE f[i] # f[j]
      OBVIOUS
    <3>1. i < j \/ j < i
      BY <1>0
    <3>2. Rank(I, i) \in Int /\ Rank(I, j) \in Int
      <4>1. Rank(I, i) \in 1..C /\ Rank(I, j) \in 1..C
        BY <1>2
      <4> HIDE DEF C
      <4> QED BY <1>1, <4>1
    <3> QED BY <3>1, <3>2, <1>3
  <2>3. f \in Injection(I, 1..C)
    BY <2>1, <2>2 DEF Injection, IsInjective
  <2>4. IsFiniteSet(1..C) /\ Cardinality(1..C) = C
    BY <1>1, FS_Interval
  <2>5. f \in Surjection(I, 1..C)
    BY <2>3, <2>4, FS_Injection
  <2> QED BY <2>5 DEF Surjection
<1>5. ASSUME NEW k \in 1..C
      PROVE  Nth(I, k) \in I /\ Rank(I, Nth(I, k)) = k
  BY <1>4 DEF Nth
<1> QED BY <1>1, <1>2, <1>3, <1>5

\* Filtering gives a list whose entries are those of q that pass, taken from
\* increasing places of q, all of them.
LEMMA KeptOrder ==
  ASSUME NEW T, NEW q \in Seq(T), NEW S
  PROVE  /\ Kept(q, S) \in Seq(T) /\ Len(Kept(q, S)) <= Len(q)
         /\ \E f \in [1..Len(Kept(q, S)) -> 1..Len(q)] :
              /\ \A i, j \in 1..Len(Kept(q, S)) : i < j => f[i] < f[j]
              /\ \A i \in 1..Len(Kept(q, S)) : Kept(q, S)[i] = q[f[i]] /\ q[f[i]] \in S
              /\ \A p \in 1..Len(q) : q[p] \in S => \E i \in 1..Len(Kept(q, S)) : f[i] = p
<1> DEFINE I == PlacesOf(q, S)
           C == Cardinality(I)
           f == [k \in 1..C |-> Nth(I, k)]
<1>0. Len(q) \in Nat /\ I \in SUBSET (1..Len(q)) /\ \A i \in I : q[i] \in T /\ q[i] \in S
  BY DEF PlacesOf
<1>a. \A i \in I : i \in Int
  BY <1>0
<1>1. /\ C \in Nat /\ C <= Len(q)
      /\ \A i \in I : Rank(I, i) \in 1..C
      /\ \A i, j \in I : i < j => Rank(I, i) < Rank(I, j)
      /\ \A k \in 1..C : Nth(I, k) \in I /\ Rank(I, Nth(I, k)) = k
  <2> HIDE DEF I
  <2> QED BY <1>0, RankFacts
<1>2. Kept(q, S) = [k \in 1..C |-> q[Nth(I, k)]]
  BY DEF Kept
<1> HIDE DEF I, C
<1>3. Kept(q, S) \in Seq(T) /\ Len(Kept(q, S)) = C
  <2>1. Kept(q, S) \in [1..C -> T]
    BY <1>0, <1>1, <1>2
  <2> QED BY <1>1, <2>1
<1>4. f \in [1..C -> 1..Len(q)]
  BY <1>0, <1>1
<1>5. ASSUME NEW i \in 1..C, NEW j \in 1..C, i < j PROVE f[i] < f[j]
  <2>1. f[i] \in I /\ f[j] \in I /\ Rank(I, f[i]) = i /\ Rank(I, f[j]) = j
    BY <1>1
  <2>2. f[i] \in Int /\ f[j] \in Int
    BY <2>1, <1>a
  <2>3. f[j] < f[i] => j < i
    <3> HIDE DEF f
    <3>1. f[j] < f[i] => Rank(I, f[j]) < Rank(I, f[i])
      BY <2>1, <1>1
    <3> QED BY <2>1, <3>1
  <2>4. f[i] = f[j] => i = j
    <3> HIDE DEF f
    <3> QED BY <2>1
  <2>5. i \in Int /\ j \in Int
    OBVIOUS
  <2> HIDE DEF f
  <2> QED BY <2>2, <2>3, <2>4, <2>5, <1>5
<1>6. \A i \in 1..C : Kept(q, S)[i] = q[f[i]] /\ q[f[i]] \in S
  BY <1>0, <1>1, <1>2
<1>7. ASSUME NEW p \in 1..Len(q), q[p] \in S PROVE \E i \in 1..C : f[i] = p
  <2>1. p \in I
    BY <1>7 DEF I, PlacesOf
  <2> DEFINE k == Rank(I, p)
  <2>2. k \in 1..C
    BY <2>1, <1>1
  <2>3. f[k] \in I /\ Rank(I, f[k]) = k
    BY <2>2, <1>1
  <2>4. ~ (f[k] < p) /\ ~ (p < f[k])
    <3>1. k \in Int
      BY <1>1, <2>2
    <3> HIDE DEF f
    <3>2. /\ f[k] < p => Rank(I, f[k]) < Rank(I, p)
          /\ p < f[k] => Rank(I, p) < Rank(I, f[k])
      BY <2>1, <2>3, <1>1
    <3> QED BY <3>1, <3>2, <2>3
  <2>5. f[k] \in Int /\ p \in Int
    BY <2>1, <2>3, <1>a
  <2>6. f[k] = p
    <3> HIDE DEF f, k
    <3> QED BY <2>4, <2>5
  <2> QED BY <2>2, <2>6
<1> QED
  <2> HIDE DEF f
  <2> QED BY <1>1, <1>3, <1>4, <1>5, <1>6, <1>7

\* The places that pass form one stretch of the list: filtering cuts it out.
LEMMA KeptStretch ==
  ASSUME NEW T, NEW q \in Seq(T), NEW S, NEW a \in 1..Len(q) + 1,
         PlacesOf(q, S) = a..Len(q)
  PROVE  Kept(q, S) = SubSeq(q, a, Len(q))
<1> DEFINE n == Len(q)
           I == a..n
<1>0. n \in Nat /\ a \in Nat /\ a <= n + 1 /\ a >= 1
  OBVIOUS
<1>1. Cardinality(I) = n + 1 - a
  <2> HIDE DEF n
  <2>1. Cardinality(a..n) = IF a > n THEN 0 ELSE n - a + 1
    BY <1>0, FS_Interval
  <2> QED BY <1>0, <2>1
<1>2. ASSUME NEW i \in I PROVE Rank(I, i) = i + 1 - a
  <2> HIDE DEF n
  <2>0. i \in Nat /\ a <= i /\ i <= n
    BY <1>0
  <2>1. {j \in I : j <= i} = a..i
    BY <1>0, <2>0
  <2>2. Cardinality(a..i) = IF a > i THEN 0 ELSE i - a + 1
    BY <1>0, <2>0, FS_Interval
  <2>3. Rank(I, i) = Cardinality(a..i)
    <3> HIDE DEF I
    <3> QED BY <2>1 DEF Rank
  <2> QED BY <1>0, <2>0, <2>2, <2>3
<1>3. ASSUME NEW k \in 1..(n + 1 - a) PROVE Nth(I, k) = a + k - 1
  <2> HIDE DEF n
  <2>0. k \in Int /\ 1 <= k /\ k <= n + 1 - a
    BY <1>0
  <2>1. a + k - 1 \in I
    BY <1>0, <2>0
  <2>2. Rank(I, a + k - 1) = k
    <3>1. Rank(I, a + k - 1) = a + k - 1 + 1 - a
      BY <1>2, <2>1
    <3> QED BY <3>1, <1>0, <2>0
  <2>3. Nth(I, k) \in I /\ Rank(I, Nth(I, k)) = k
    BY <2>1, <2>2 DEF Nth
  <2>4. Nth(I, k) + 1 - a = k /\ Nth(I, k) \in Int
    BY <1>2, <2>3
  <2> QED BY <1>0, <2>0, <2>4
<1>4. Kept(q, S) = [k \in 1..(n + 1 - a) |-> q[a + k - 1]]
  <2>1. Kept(q, S) = [k \in 1..Cardinality(I) |-> q[Nth(I, k)]]
    BY DEF Kept
  <2> HIDE DEF I, n
  <2> QED BY <1>1, <1>3, <2>1
<1>5. SubSeq(q, a, n) = [k \in 1..(n + 1 - a) |-> q[a + k - 1]]
  <2> DEFINE p == SubSeq(q, a, n)
  <2>1. p \in Seq(T) /\ Len(p) = (IF a <= n THEN n - a + 1 ELSE 0)
    BY <1>0
  <2>2. \A k \in 1..Len(p) : p[k] = q[a + k - 1]
    BY <1>0
  <2>3. Len(p) = n + 1 - a
    <3> HIDE DEF p, n
    <3> QED BY <1>0, <2>1
  <2>4. p = [k \in 1..Len(p) |-> p[k]]
    <3> HIDE DEF p
    <3> QED BY <2>1
  <2>5. p = [k \in 1..(n + 1 - a) |-> p[k]]
    <3> HIDE DEF p, n
    <3> QED BY <2>3, <2>4
  <2>6. \A k \in 1..(n + 1 - a) : p[k] = q[a + k - 1]
    <3> HIDE DEF p, n
    <3> QED BY <2>2, <2>3
  <2>7. p = [k \in 1..(n + 1 - a) |-> q[a + k - 1]]
    <3> HIDE DEF p, n
    <3> QED BY <2>5, <2>6
  <2> QED BY <2>7
<1> QED BY <1>4, <1>5

\* A list all of whose entries pass is kept as it is.
LEMMA KeptAll ==
  ASSUME NEW T, NEW q \in Seq(T), NEW S, Entries(q) \subseteq S
  PROVE  Kept(q, S) = q
<1>1. PlacesOf(q, S) = 1..Len(q)
  BY DEF PlacesOf, Entries
<1>2. Kept(q, S) = SubSeq(q, 1, Len(q))
  <2>1. 1 \in 1..Len(q) + 1
    OBVIOUS
  <2> QED BY <1>1, <2>1, KeptStretch
<1>3. SubSeq(q, 1, Len(q)) = q
  OBVIOUS
<1> QED BY <1>2, <1>3

\* Of two lists put together, none of the first and all of the second pass.
LEMMA KeptSecond ==
  ASSUME NEW T, NEW p \in Seq(T), NEW q \in Seq(T), NEW S,
         Entries(p) \cap S = {}, Entries(q) \subseteq S
  PROVE  Kept(p \o q, S) = q
<1> DEFINE pq == p \o q
<1>1. pq \in Seq(T) /\ Len(pq) = Len(p) + Len(q)
  OBVIOUS
<1>2. \A i \in 1..Len(p) : pq[i] = p[i] /\ pq[i] \notin S
  BY DEF Entries
<1>3. \A i \in Len(p) + 1..Len(pq) : pq[i] = q[i - Len(p)] /\ pq[i] \in S
  <2> TAKE i \in Len(p) + 1..Len(pq)
  <2>1. i - Len(p) \in 1..Len(q)
    BY <1>1
  <2>2. pq[i] = q[i - Len(p)]
    BY <1>1, <2>1
  <2> QED BY <2>1, <2>2 DEF Entries
<1>4. PlacesOf(pq, S) = Len(p) + 1..Len(pq)
  <2> HIDE DEF pq
  <2> QED BY <1>1, <1>2, <1>3 DEF PlacesOf
<1>5. Kept(pq, S) = SubSeq(pq, Len(p) + 1, Len(pq))
  <2> HIDE DEF pq
  <2>1. Len(p) + 1 \in 1..Len(pq) + 1
    BY <1>1
  <2> QED BY <1>1, <1>4, <2>1, KeptStretch
<1>6. SubSeq(pq, Len(p) + 1, Len(pq)) = q
  OBVIOUS
<1> QED BY <1>5, <1>6

\* The entries that filtering keeps are those that pass.
LEMMA KeptEntries ==
  ASSUME NEW T, NEW q \in Seq(T), NEW S
  PROVE  Entries(Kept(q, S)) = Entries(q) \cap S
<1> DEFINE p == Kept(q, S)
<1>1. PICK f \in [1..Len(p) -> 1..Len(q)] :
              /\ \A i \in 1..Len(p) : p[i] = q[f[i]] /\ q[f[i]] \in S
              /\ \A k \in 1..Len(q) : q[k] \in S => \E i \in 1..Len(p) : f[i] = k
  BY KeptOrder
<1>2. Entries(p) = {p[i] : i \in 1..Len(p)}
  BY DEF Entries
<1>3. \A x \in Entries(p) : x \in Entries(q) /\ x \in S
  <2> HIDE DEF p
  <2> QED BY <1>1, <1>2 DEF Entries
<1>4. ASSUME NEW x \in Entries(q), x \in S PROVE x \in Entries(p)
  <2>1. PICK k \in 1..Len(q) : q[k] = x
    BY DEF Entries
  <2>2. PICK i \in 1..Len(p) : f[i] = k
    BY <1>1, <1>4, <2>1
  <2>3. p[i] = x
    <3> HIDE DEF p
    <3> QED BY <1>1, <2>1, <2>2
  <2> HIDE DEF p
  <2> QED BY <1>2, <2>2, <2>3
<1> HIDE DEF p
<1>5. Entries(p) = Entries(q) \cap S
  BY <1>3, <1>4
<1> QED BY <1>5 DEF p

-----------------------------------------------------------------------------
(* Lists whose keys grow from entry to entry.                                *)

\* The keys of the entries of q grow along q.
Increasing(q, key) == \A i, j \in 1..Len(q) : i < j => key[q[i]] < key[q[j]]

\* Filtering leaves a list in the order of its keys.
LEMMA KeptIncreasing ==
  ASSUME NEW T, NEW q \in Seq(T), NEW S, NEW key \in [T -> Nat], Increasing(q, key)
  PROVE  Increasing(Kept(q, S), key)
<1> DEFINE p == Kept(q, S)
<1>1. PICK f \in [1..Len(p) -> 1..Len(q)] :
              /\ \A i, j \in 1..Len(p) : i < j => f[i] < f[j]
              /\ \A i \in 1..Len(p) : p[i] = q[f[i]] /\ q[f[i]] \in S
  BY KeptOrder
<1>2. ASSUME NEW i \in 1..Len(p), NEW j \in 1..Len(p), i < j
      PROVE  key[p[i]] < key[p[j]]
  <2> HIDE DEF p
  <2>1. f[i] \in 1..Len(q) /\ f[j] \in 1..Len(q) /\ f[i] < f[j]
    BY <1>1, <1>2
  <2>2. key[q[f[i]]] < key[q[f[j]]]
    BY <2>1 DEF Increasing
  <2> QED BY <1>1, <2>2
<1> HIDE DEF p
<1>3. Increasing(p, key)
  BY <1>2 DEF Increasing
<1> QED BY <1>3 DEF p

\* Appending adds the entry, in order when its key is above all others.
LEMMA AppendFacts ==
  ASSUME NEW T, NEW q \in Seq(T), NEW x \in T
  PROVE  /\ Append(q, x) \in Seq(T) /\ Len(Append(q, x)) = Len(q) + 1
         /\ Entries(Append(q, x)) = Entries(q) \cup {x}
<1> DEFINE p == Append(q, x)
<1>1. p \in Seq(T) /\ Len(p) = Len(q) + 1 /\ Len(q) \in Nat
  OBVIOUS
<1>2. p[Len(q) + 1] = x /\ \A i \in 1..Len(q) : p[i] = q[i]
  OBVIOUS
<1>3. Entries(p) = Entries(q) \cup {x}
  <2> HIDE DEF p
  <2>1. 1..Len(p) = (1..Len(q)) \cup {Len(q) + 1}
    BY <1>1
  <2> QED BY <1>2, <2>1 DEF Entries
<1> QED BY <1>1, <1>3

\* A number above all entries goes to the end of an increasing list.
LEMMA AppendIncreasing ==
  ASSUME NEW T, NEW q \in Seq(T), NEW x \in T, NEW key \in [T -> Nat],
         Increasing(q, key), \A y \in Entries(q) : key[y] < key[x]
  PROVE  Increasing(Append(q, x), key)
<1> DEFINE p == Append(q, x)
<1>1. Len(p) = Len(q) + 1 /\ Len(q) \in Nat
  OBVIOUS
<1>2. p[Len(q) + 1] = x /\ \A i \in 1..Len(q) : p[i] = q[i]
  OBVIOUS
<1> HIDE DEF p
<1>3. ASSUME NEW i \in 1..Len(p), NEW j \in 1..Len(p), i < j
      PROVE  key[p[i]] < key[p[j]]
  <2>1. i \in 1..Len(q) /\ p[i] = q[i]
    BY <1>1, <1>2, <1>3
  <2>2. CASE j = Len(q) + 1
    BY <1>2, <2>1, <2>2 DEF Entries
  <2>3. CASE j \in 1..Len(q)
    BY <1>2, <1>3, <2>1, <2>3 DEF Increasing
  <2> QED BY <1>1, <2>2, <2>3
<1>4. Increasing(p, key)
  BY <1>3 DEF Increasing
<1> QED BY <1>4 DEF p

\* Putting two lists together: entries and order.
LEMMA ConcatFacts ==
  ASSUME NEW T, NEW p \in Seq(T), NEW q \in Seq(T)
  PROVE  /\ p \o q \in Seq(T) /\ Len(p \o q) = Len(p) + Len(q)
         /\ \A i \in 1..Len(p) : (p \o q)[i] = p[i]
         /\ \A i \in Len(p) + 1..Len(p) + Len(q) :
              i - Len(p) \in 1..Len(q) /\ (p \o q)[i] = q[i - Len(p)]
         /\ Entries(p \o q) = Entries(p) \cup Entries(q)
<1> DEFINE pq == p \o q
<1>1. pq \in Seq(T) /\ Len(pq) = Len(p) + Len(q) /\ Len(p) \in Nat /\ Len(q) \in Nat
  OBVIOUS
<1>2. \A i \in 1..Len(p) : pq[i] = p[i]
  OBVIOUS
<1>3. \A i \in Len(p) + 1..Len(p) + Len(q) :
        i - Len(p) \in 1..Len(q) /\ pq[i] = q[i - Len(p)]
  <2> TAKE i \in Len(p) + 1..Len(p) + Len(q)
  <2>1. i - Len(p) \in 1..Len(q)
    BY <1>1
  <2>2. pq[i] = q[i - Len(p)]
    BY <1>1, <2>1
  <2> QED BY <2>1, <2>2
<1>4. Entries(pq) = Entries(p) \cup Entries(q)
  <2> HIDE DEF pq
  <2>1. \A x \in Entries(pq) : x \in Entries(p) \/ x \in Entries(q)
    <3> SUFFICES ASSUME NEW i \in 1..Len(pq) PROVE pq[i] \in Entries(p) \/ pq[i] \in Entries(q)
      BY DEF Entries
    <3>1. CASE i <= Len(p)
      <4>1. i \in 1..Len(p)
        BY <1>1, <3>1
      <4> QED BY <4>1, <1>2 DEF Entries
    <3>2. CASE i > Len(p)
      <4>1. i \in Len(p) + 1..Len(p) + Len(q)
        BY <1>1, <3>2
      <4> QED BY <4>1, <1>3 DEF Entries
    <3> QED BY <1>1, <3>1, <3>2
  <2>2. \A x \in Entries(p) : x \in Entries(pq)
    <3> SUFFICES ASSUME NEW i \in 1..Len(p) PROVE p[i] \in Entries(pq)
      BY DEF Entries
    <3>1. i \in 1..Len(pq)
      BY <1>1
    <3> QED BY <3>1, <1>2 DEF Entries
  <2>3. \A x \in Entries(q) : x \in Entries(pq)
    <3> SUFFICES ASSUME NEW i \in 1..Len(q) PROVE q[i] \in Entries(pq)
      BY DEF Entries
    <3> DEFINE k == Len(p) + i
    <3>1. k \in 1..Len(pq) /\ k \in Len(p) + 1..Len(p) + Len(q) /\ k - Len(p) = i
      BY <1>1
    <3>2. pq[k] = q[i]
      BY <3>1, <1>3
    <3> HIDE DEF k
    <3> QED BY <3>1, <3>2 DEF Entries
  <2> QED BY <2>1, <2>2, <2>3
<1> QED BY <1>1, <1>2, <1>3, <1>4

\* Two increasing lists, the second above the first, joined are increasing.
LEMMA ConcatIncreasing ==
  ASSUME NEW T, NEW p \in Seq(T), NEW q \in Seq(T), NEW key \in [T -> Nat],
         Increasing(p, key), Increasing(q, key),
         \A x \in Entries(p), y \in Entries(q) : key[x] < key[y]
  PROVE  Increasing(p \o q, key)
<1> DEFINE pq == p \o q
<1>1. /\ Len(pq) = Len(p) + Len(q) /\ Len(p) \in Nat /\ Len(q) \in Nat
      /\ \A i \in 1..Len(p) : pq[i] = p[i]
      /\ \A i \in Len(p) + 1..Len(p) + Len(q) :
           i - Len(p) \in 1..Len(q) /\ pq[i] = q[i - Len(p)]
  BY ConcatFacts
<1> HIDE DEF pq
<1>2. ASSUME NEW i \in 1..Len(pq), NEW j \in 1..Len(pq), i < j
      PROVE  key[pq[i]] < key[pq[j]]
  <2>1. CASE j <= Len(p)
    <3>1. i \in 1..Len(p) /\ j \in 1..Len(p)
      BY <1>1, <1>2, <2>1
    <3> QED BY <3>1, <1>1, <1>2 DEF Increasing
  <2>2. CASE i > Len(p)
    <3>1. i \in Len(p) + 1..Len(p) + Len(q) /\ j \in Len(p) + 1..Len(p) + Len(q)
      BY <1>1, <1>2, <2>2
    <3>2. i - Len(p) < j - Len(p)
      BY <1>1, <1>2
    <3> QED BY <3>1, <3>2, <1>1 DEF Increasing
  <2>3. CASE i <= Len(p) /\ j > Len(p)
    <3>1. i \in 1..Len(p) /\ j \in Len(p) + 1..Len(p) + Len(q)
      BY <1>1, <1>2, <2>3
    <3>2. pq[i] \in Entries(p) /\ pq[j] \in Entries(q)
      BY <3>1, <1>1 DEF Entries
    <3> QED BY <3>2
  <2> QED BY <1>1, <2>1, <2>2, <2>3
<1>3. Increasing(pq, key)
  BY <1>2 DEF Increasing
<1> QED BY <1>3 DEF pq

\* Cutting an ordered list in two: both parts are in order, and the first is
\* below the second.
LEMMA SplitFacts ==
  ASSUME NEW T, NEW q \in Seq(T), NEW n \in 0..Len(q)
  PROVE  /\ SubSeq(q, 1, n) \in Seq(T) /\ Len(SubSeq(q, 1, n)) = n
         /\ \A i \in 1..n : SubSeq(q, 1, n)[i] = q[i]
         /\ SubSeq(q, n + 1, Len(q)) \in Seq(T)
         /\ Len(SubSeq(q, n + 1, Len(q))) = Len(q) - n
         /\ \A i \in 1..Len(q) - n : SubSeq(q, n + 1, Len(q))[i] = q[n + i]
         /\ Entries(SubSeq(q, 1, n)) = {q[i] : i \in 1..n}
         /\ Entries(SubSeq(q, n + 1, Len(q))) = {q[i] : i \in n + 1..Len(q)}
<1> DEFINE a == SubSeq(q, 1, n)
           b == SubSeq(q, n + 1, Len(q))
<1>0. Len(q) \in Nat /\ n \in Nat /\ n <= Len(q)
  OBVIOUS
<1>1. a \in Seq(T) /\ Len(a) = n /\ \A i \in 1..n : a[i] = q[i]
  BY <1>0
<1>2. b \in Seq(T)
  BY <1>0
<1>3. Len(b) = Len(q) - n
  <2>1. CASE n = Len(q)
    BY <1>0, <2>1
  <2>2. CASE n < Len(q)
    BY <1>0, <2>2
  <2> QED BY <1>0, <2>1, <2>2
<1>4. \A i \in 1..Len(q) - n : b[i] = q[n + i]
  BY <1>0, <1>3
<1> HIDE DEF a, b
<1>5. Entries(a) = {q[i] : i \in 1..n}
  BY <1>1 DEF Entries
<1>6. Entries(b) = {q[i] : i \in n + 1..Len(q)}
  <2>1. Entries(b) = {b[i] : i \in 1..Len(q) - n}
    BY <1>3 DEF Entries
  <2>2. \A i \in n + 1..Len(q) : i - n \in 1..Len(q) - n /\ b[i - n] = q[i]
    <3> TAKE i \in n + 1..Len(q)
    <3>1. i - n \in 1..Len(q) - n /\ n + (i - n) = i
      BY <1>0
    <3> QED BY <3>1, <1>4
  <2>3. \A i \in 1..Len(q) - n : n + i \in n + 1..Len(q)
    BY <1>0
  <2>4. \A x : x \in Entries(b) => x \in {q[i] : i \in n + 1..Len(q)}
    <3> SUFFICES ASSUME NEW i \in 1..Len(q) - n PROVE \E k \in n + 1..Len(q) : b[i] = q[k]
      BY <2>1
    <3> QED BY <2>3, <1>4
  <2>5. \A x : x \in {q[i] : i \in n + 1..Len(q)} => x \in Entries(b)
    BY <2>1, <2>2
  <2> QED BY <2>4, <2>5
<1> QED BY <1>1, <1>2, <1>3, <1>4, <1>5, <1>6 DEF a, b

\* Both parts of an increasing list are increasing.
LEMMA SplitIncreasing ==
  ASSUME NEW T, NEW q \in Seq(T), NEW n \in 0..Len(q), NEW key \in [T -> Nat],
         Increasing(q, key)
  PROVE  /\ Increasing(SubSeq(q, 1, n), key)
         /\ Increasing(SubSeq(q, n + 1, Len(q)), key)
         /\ \A x \in Entries(SubSeq(q, 1, n)), y \in Entries(SubSeq(q, n + 1, Len(q))) :
              key[x] < key[y]
<1> DEFINE a == SubSeq(q, 1, n)
           b == SubSeq(q, n + 1, Len(q))
<1>0. Len(q) \in Nat /\ n \in Nat /\ n <= Len(q)
  OBVIOUS
<1>1. /\ Len(a) = n
      /\ \A i \in 1..n : a[i] = q[i]
      /\ Len(b) = Len(q) - n
      /\ \A i \in 1..Len(q) - n : b[i] = q[n + i]
      /\ Entries(a) = {q[i] : i \in 1..n}
      /\ Entries(b) = {q[i] : i \in n + 1..Len(q)}
  BY SplitFacts
<1> HIDE DEF a, b
<1>2. Increasing(a, key)
  <2> SUFFICES ASSUME NEW i \in 1..n, NEW j \in 1..n, i < j PROVE key[a[i]] < key[a[j]]
    BY <1>1 DEF Increasing
  <2>1. i \in 1..Len(q) /\ j \in 1..Len(q)
    BY <1>0
  <2> QED BY <1>1, <2>1 DEF Increasing
<1>3. Increasing(b, key)
  <2> SUFFICES ASSUME NEW i \in 1..Len(q) - n, NEW j \in 1..Len(q) - n, i < j
               PROVE  key[b[i]] < key[b[j]]
    BY <1>1 DEF Increasing
  <2>1. n + i \in 1..Len(q) /\ n + j \in 1..Len(q) /\ n + i < n + j
    BY <1>0
  <2>2. key[q[n + i]] < key[q[n + j]]
    BY <2>1 DEF Increasing
  <2> QED BY <1>1, <2>2
<1>4. ASSUME NEW x \in Entries(a), NEW y \in Entries(b) PROVE key[x] < key[y]
  <2>1. PICK i \in 1..n : x = q[i]
    BY <1>1
  <2>2. PICK j \in n + 1..Len(q) : y = q[j]
    BY <1>1
  <2>3. i \in 1..Len(q) /\ j \in 1..Len(q) /\ i < j
    BY <1>0
  <2> QED BY <2>1, <2>2, <2>3 DEF Increasing
<1> QED BY <1>2, <1>3, <1>4 DEF a, b

-----------------------------------------------------------------------------
(* Sums.                                                                     *)

\* A sum is a number, and it grows by the count of the place that is added.
LEMMA TotalNext ==
  ASSUME NEW c, NEW n \in Nat, \A i \in 1..n + 1 : c[i] \in Nat,
         IsFiniteSet(UNION {{i} \X (1..c[i]) : i \in 1..n})
  PROVE  /\ IsFiniteSet(UNION {{i} \X (1..c[i]) : i \in 1..n + 1})
         /\ Total(c, 1..n + 1) = Total(c, 1..n) + c[n + 1]
<1> DEFINE U(m) == UNION {{i} \X (1..c[i]) : i \in 1..m}
           k == n + 1
           V == {k} \X (1..c[k])
<1>1. k \in Nat /\ c[k] \in Nat /\ 1..k = (1..n) \cup {k} /\ k \notin 1..n
  OBVIOUS
<1>2. IsFiniteSet(V) /\ Cardinality(V) = c[k]
  <2>1. IsFiniteSet({k}) /\ Cardinality({k}) = 1
    BY FS_Singleton
  <2>2. IsFiniteSet(1..c[k]) /\ Cardinality(1..c[k]) = c[k]
    <3> DEFINE m == c[k]
    <3>1. m \in Int /\ m \in Nat /\ 1 \in Int
      BY <1>1
    <3> HIDE DEF m
    <3>2. IsFiniteSet(1..m) /\ Cardinality(1..m) = IF 1 > m THEN 0 ELSE m - 1 + 1
      BY <3>1, FS_Interval
    <3>3. IsFiniteSet(1..m) /\ Cardinality(1..m) = m
      BY <3>1, <3>2
    <3> QED BY <3>3 DEF m
  <2>3. IsFiniteSet(V) /\ Cardinality(V) = 1 * c[k]
    <3> HIDE DEF k
    <3> QED BY <2>1, <2>2, FS_Product
  <2> QED BY <1>1, <2>3
<1>3. U(k) = U(n) \cup V
  <2> HIDE DEF k
  <2>1. U(k) = UNION {{i} \X (1..c[i]) : i \in (1..n) \cup {k}}
    BY <1>1
  <2> QED BY <2>1
<1>4. U(n) \cap V = {}
  <2> HIDE DEF k
  <2> SUFFICES ASSUME NEW i \in 1..n, NEW x \in {i} \X (1..c[i]), x \in {k} \X (1..c[k])
               PROVE  FALSE
    OBVIOUS
  <2>1. x[1] = i /\ x[1] = k
    OBVIOUS
  <2> QED BY <1>1, <2>1
<1>5. /\ IsFiniteSet(U(n) \cup V)
      /\ Cardinality(U(n) \cup V) = Cardinality(U(n)) + Cardinality(V) - Cardinality(U(n) \cap V)
  <2> HIDE DEF V
  <2> QED BY <1>2, FS_Union
<1>6. Cardinality(U(n)) \in Nat /\ Cardinality({}) = 0
  BY FS_CardinalityType, FS_EmptySet
<1>7. Cardinality(U(k)) = Cardinality(U(n)) + c[k]
  <2>1. Cardinality(U(k)) = Cardinality(U(n) \cup V)
    BY <1>3
  <2>2. Cardinality(U(n) \cap V) = 0
    BY <1>4, <1>6
  <2> HIDE DEF U, V, k
  <2>3. Cardinality(U(n) \cup V) = Cardinality(U(n)) + c[k] - 0
    BY <1>2, <1>5, <2>2
  <2> QED BY <1>1, <1>6, <2>1, <2>3
<1> QED BY <1>3, <1>5, <1>7 DEF Total

\* Totals start at 0 and grow by one cost at a time.
LEMMA TotalSum ==
  ASSUME NEW c, NEW N \in Nat, \A i \in 1..N : c[i] \in Nat
  PROVE  /\ Total(c, 1..0) = 0
         /\ \A n \in 0..N : Total(c, 1..n) \in Nat
         /\ \A n \in 0..N - 1 : Total(c, 1..n + 1) = Total(c, 1..n) + c[n + 1]
<1> DEFINE U(m) == UNION {{i} \X (1..c[i]) : i \in 1..m}
           S == {n \in Nat : n <= N => IsFiniteSet(U(n))}
<1>1. 1..0 = {} /\ U(0) = {}
  OBVIOUS
<1>2. IsFiniteSet(U(0)) /\ Cardinality(U(0)) = 0
  BY <1>1, FS_EmptySet
<1>3. 0 \in S
  BY <1>2
<1>4. ASSUME NEW n \in Nat, n \in S PROVE n + 1 \in S
  <2> SUFFICES ASSUME n + 1 <= N PROVE IsFiniteSet(U(n + 1))
    OBVIOUS
  <2>1. IsFiniteSet(U(n)) /\ \A i \in 1..n + 1 : c[i] \in Nat
    BY <1>4
  <2> QED BY <2>1, TotalNext
<1>5. Nat \subseteq S
  <2> HIDE DEF S
  <2> QED BY <1>3, <1>4, Induct
<1>6. ASSUME NEW n \in 0..N PROVE IsFiniteSet(U(n)) /\ Total(c, 1..n) \in Nat
  <2>1. IsFiniteSet(U(n))
    <3>1. n \in S
      BY <1>5
    <3> QED BY <3>1
  <2>2. Cardinality(U(n)) \in Nat
    BY <2>1, FS_CardinalityType
  <2> QED BY <2>1, <2>2 DEF Total
<1>7. ASSUME NEW n \in 0..N - 1 PROVE Total(c, 1..n + 1) = Total(c, 1..n) + c[n + 1]
  <2>1. n \in Nat /\ n \in 0..N /\ \A i \in 1..n + 1 : c[i] \in Nat
    OBVIOUS
  <2> QED BY <1>6, <2>1, TotalNext
<1>8. Total(c, 1..0) = 0
  BY <1>2 DEF Total
<1> QED BY <1>6, <1>7, <1>8

\* A sum of positive counts is at least the number of places.
LEMMA TotalAtLeast ==
  ASSUME NEW c, NEW N \in Nat, \A i \in 1..N : c[i] \in Nat \ {0}
  PROVE  \A n \in 0..N : n <= Total(c, 1..n)
<1> DEFINE S == {n \in Nat : n <= N => n <= Total(c, 1..n)}
<1>1. \A i \in 1..N : c[i] \in Nat
  OBVIOUS
<1>2. /\ Total(c, 1..0) = 0
      /\ \A n \in 0..N : Total(c, 1..n) \in Nat
      /\ \A n \in 0..N - 1 : Total(c, 1..n + 1) = Total(c, 1..n) + c[n + 1]
  BY <1>1, TotalSum
<1>3. 0 \in S
  BY <1>2
<1>4. ASSUME NEW n \in Nat, n \in S PROVE n + 1 \in S
  <2> SUFFICES ASSUME n + 1 <= N PROVE n + 1 <= Total(c, 1..n + 1)
    OBVIOUS
  <2>1. n \in 0..N - 1 /\ n \in 0..N /\ n + 1 \in 1..N
    OBVIOUS
  <2>2. n <= Total(c, 1..n) /\ c[n + 1] \in Nat \ {0} /\ Total(c, 1..n) \in Nat
    BY <1>2, <1>4, <2>1
  <2>3. Total(c, 1..n + 1) = Total(c, 1..n) + c[n + 1]
    BY <1>2, <2>1
  <2> HIDE DEF S
  <2> QED BY <2>2, <2>3
<1>5. Nat \subseteq S
  <2> HIDE DEF S
  <2> QED BY <1>3, <1>4, Induct
<1> QED BY <1>5

\* c starts with d ones and goes on as the first N of e.
Shifted(c, e, d, N) ==
  /\ \A i \in 1..d : c[i] = 1
  /\ \A i \in 1..N : e[i] \in Nat /\ c[d + i] = e[i]

\* Then it sums to d more.
LEMMA TotalShift ==
  ASSUME NEW c, NEW e, NEW d \in Nat, NEW N \in Nat, Shifted(c, e, d, N)
  PROVE  Total(c, 1..d + N) = d + Total(e, 1..N)
<1> USE DEF Shifted
<1> DEFINE S == {n \in Nat : n <= d => Total(c, 1..n) = n}
           R == {n \in Nat : n <= N => Total(c, 1..d + n) = d + Total(e, 1..n)}
<1>1. \A i \in 1..d + N : c[i] \in Nat
  <2> TAKE i \in 1..d + N
  <2>1. CASE i <= d
    BY <2>1
  <2>2. CASE i > d
    <3>1. i - d \in 1..N /\ d + (i - d) = i
      BY <2>2
    <3>2. c[d + (i - d)] = e[i - d] /\ e[i - d] \in Nat
      BY <3>1
    <3> QED BY <3>1, <3>2
  <2> QED BY <2>1, <2>2
<1>2. d + N \in Nat
  OBVIOUS
<1>3. /\ Total(c, 1..0) = 0
      /\ \A n \in 0..d + N : Total(c, 1..n) \in Nat
      /\ \A n \in 0..d + N - 1 : Total(c, 1..n + 1) = Total(c, 1..n) + c[n + 1]
  <2> DEFINE M == d + N
  <2>1. M \in Nat /\ \A i \in 1..M : c[i] \in Nat
    BY <1>1, <1>2
  <2> HIDE DEF M
  <2>2. /\ Total(c, 1..0) = 0
        /\ \A n \in 0..M : Total(c, 1..n) \in Nat
        /\ \A n \in 0..M - 1 : Total(c, 1..n + 1) = Total(c, 1..n) + c[n + 1]
    BY <2>1, TotalSum
  <2> QED BY <2>2 DEF M
<1>4. /\ Total(e, 1..0) = 0
      /\ \A n \in 0..N : Total(e, 1..n) \in Nat
      /\ \A n \in 0..N - 1 : Total(e, 1..n + 1) = Total(e, 1..n) + e[n + 1]
  BY TotalSum
<1>5. 0 \in S
  BY <1>3
<1>6. ASSUME NEW n \in Nat, n \in S PROVE n + 1 \in S
  <2> SUFFICES ASSUME n + 1 <= d PROVE Total(c, 1..n + 1) = n + 1
    OBVIOUS
  <2>1. n \in 0..d + N - 1 /\ n + 1 \in 1..d
    OBVIOUS
  <2>2. Total(c, 1..n + 1) = Total(c, 1..n) + c[n + 1]
    BY <1>3, <2>1
  <2>3. c[n + 1] = 1 /\ Total(c, 1..n) = n
    BY <1>6, <2>1
  <2> QED BY <2>2, <2>3
<1>7. Nat \subseteq S
  <2> HIDE DEF S
  <2> QED BY <1>5, <1>6, Induct
<1>8. Total(c, 1..d) = d
  BY <1>7
<1>9. 0 \in R
  BY <1>4, <1>8
<1>10. ASSUME NEW n \in Nat, n \in R PROVE n + 1 \in R
  <2> SUFFICES ASSUME n + 1 <= N PROVE Total(c, 1..d + (n + 1)) = d + Total(e, 1..n + 1)
    OBVIOUS
  <2>1. d + n \in 0..d + N - 1 /\ n + 1 \in 1..N /\ n \in 0..N - 1 /\ n \in 0..N
    OBVIOUS
  <2>2. Total(c, 1..(d + n) + 1) = Total(c, 1..d + n) + c[(d + n) + 1]
    BY <1>3, <2>1
  <2>3. Total(e, 1..n + 1) = Total(e, 1..n) + e[n + 1]
    BY <1>4, <2>1
  <2>4. c[d + (n + 1)] = e[n + 1] /\ e[n + 1] \in Nat /\ Total(e, 1..n) \in Nat
    BY <1>4, <2>1
  <2>5. Total(c, 1..d + n) = d + Total(e, 1..n)
    BY <1>10, <2>1
  <2>6. (d + n) + 1 = d + (n + 1)
    OBVIOUS
  <2> HIDE DEF R
  <2> QED BY <2>2, <2>3, <2>4, <2>5, <2>6
<1>11. Nat \subseteq R
  <2> HIDE DEF R
  <2> QED BY <1>9, <1>10, Induct
<1> QED BY <1>11

====
