---------------------------- MODULE V4PrefixProofs ----------------------------
(***************************************************************************)
(* Proofs about V4Prefix.  For every pool, batch size, cache size and set of *)
(* prompts: the types, and that the count of a page covers its holders.  For *)
(* batches of one sequence: every token comes from the sequence's own text,  *)
(* and stored prefixes can be restored.                                      *)
(***************************************************************************)
EXTENDS V4Prefix, QueueProofs, SequenceTheorems, TLAPS

(* The inductive invariant, for any batch size                               *)

Vocab == OutTokens \cup {"junk"} \cup UNION {Members(p) : p \in Prompts}
AnyPrompt == Prompts \cup {<<>>}
EntryRecs(T) == [toks : T, logits : Histories, st : Histories, kv : Rows, pages : Seq(Pages)]
SlotRecs == [kv : Rows, st : Histories]
SeqRecs ==
  [prompt : AnyPrompt, out : Seq(OutTokens), cached : Nat, heard : Histories,
   hit : EntryRecs(AnyPrompt), pending : BOOLEAN, handle : Seq(Pages), hlen : Nat,
   need : BOOLEAN, prepared : BOOLEAN, fin : BOOLEAN]

VTypes ==
  /\ entries \in Seq(EntryRecs(Prompts)) /\ Len(entries) <= MaxEntries
  /\ ref \in [Pages -> Nat] /\ page \in [Pages -> [0..BlockSize - 1 -> Histories]]
  /\ slot \in [Slots -> SlotRecs]
  /\ seq \in [Seqs -> SeqRecs]
  /\ step \in {"idle", "classify", "apply"}
  /\ waiting \in Seq(Seqs) /\ running \in Seq(Seqs) /\ batch \in Seq(Seqs)
  /\ todo \in Seq(Seqs) /\ pres \in Seq(Seqs) /\ ones \in Seq(Seqs) /\ decs \in Seq(Seqs)
  /\ post \in Seq(Seqs \X Slots)

\* The pages of an entry hold its tokens; no two entries have the same tokens.
EntryOK(e) ==
  e.logits # <<>> /\ (e.pages # <<>> => PagesForTokens(Len(e.toks)) <= Len(e.pages))
EntriesOK ==
  /\ \A i \in 1..Len(entries) : EntryOK(entries[i])
  /\ \A i, j \in 1..Len(entries) : entries[i].toks = entries[j].toks => i = j

\* One sequence: K/V is never ahead of the text, and the handle covers its length.
SeqOK(q) ==
  /\ q.prompt = <<>> => q = NewSequence
  /\ Len(q.out) < MaxTokens /\ q.cached <= Len(q.prompt) + Len(q.out)
  /\ q.out # <<>> => Len(q.prompt) <= q.cached
  /\ q.cached > 0 => q.heard # <<>>
  /\ q.handle # <<>> => PagesForTokens(q.hlen) <= Len(q.handle)
  /\ q.pending => q.hlen = Len(q.hit.toks)
SeqsOK == \A s \in Seqs : SeqOK(seq[s])

\* A sequence whose turn is to come has a token to compute.
Behind(s) ==
  IF seq[s].out = <<>> THEN seq[s].cached <= Len(seq[s].prompt)
  ELSE seq[s].cached < Len(seq[s].prompt) + Len(seq[s].out)
Waits(s) ==
  \/ s \notin Members(batch)
  \/ step = "classify" /\ s \in Members(todo)
  \/ step = "apply" /\ s \notin Members(todo)
Behinds == \A s \in Seqs : ~seq[s].fin /\ Waits(s) => Behind(s)

\* A sequence whose turn is over has the K/V of its prompt, or is in a list.
Filled ==
  \A s \in Seqs : ~seq[s].fin /\ ~Waits(s) =>
    \/ s \in Members(pres) \cup Members(ones) \cup Members(decs)
    \/ Len(seq[s].prompt) <= seq[s].cached

\* The lists of an iteration.
Listed ==
  Members(waiting) \cup Members(running) \cup Members(batch)
Listing ==
  /\ \A s \in Listed : Prompted(s)
  /\ Len(running) <= MaxBatch /\ Len(batch) <= MaxBatch
  /\ \A s \in Members(todo) \cup Members(pres) \cup Members(ones) \cup Members(decs) :
       s \in Members(batch)
  /\ step = "classify" => Len(todo) + Len(pres) + Len(decs) <= MaxBatch
  /\ step # "classify" => pres = <<>> /\ ones = <<>> /\ decs = <<>> /\ post = <<>>
  /\ step = "idle" => todo = <<>> /\ batch = <<>>
  /\ step = "classify" /\ todo # <<>> => ones = <<>> /\ post = <<>>
  /\ \A s \in Members(ones) : s \notin Members(pres)

\* What the lists say of their members.
FillsOK(s) == seq[s].out = <<>> /\ seq[s].cached < Len(seq[s].prompt)
OnesOK(s) == seq[s].out = <<>> /\ seq[s].cached <= Len(seq[s].prompt)
DecsOK(s) == seq[s].out # <<>> /\ seq[s].cached < Len(seq[s].prompt) + Len(seq[s].out)
PostOK(s) ==
  /\ Prompted(s) /\ ~seq[s].pending /\ seq[s].cached > 0
  /\ seq[s].out = <<>> => seq[s].cached = Len(seq[s].prompt)
Listeds ==
  /\ \A s \in Members(pres) : FillsOK(s)
  /\ \A s \in Members(ones) : OnesOK(s)
  /\ \A s \in Members(decs) : DecsOK(s)
  /\ \A i \in 1..Len(post) : PostOK(post[i][1])

VInv ==
  /\ VTypes /\ EntriesOK /\ SeqsOK
  /\ Behinds /\ Filled /\ Listing /\ Listeds
  /\ PagesCovered

-----------------------------------------------------------------------------
(* Lists                                                                     *)

\* The members of a list, and of the empty one.
LEMMA MembersFacts ==
  ASSUME NEW T, NEW q \in Seq(T)
  PROVE  /\ Members(q) = Entries(q) /\ Members(q) \subseteq T
         /\ \A x : x \in Members(q) <=> \E i \in 1..Len(q) : q[i] = x
         /\ \A i \in 1..Len(q) : q[i] \in Members(q)
         /\ q = <<>> <=> Len(q) = 0
         /\ Len(q) \in Nat
<1>1. DOMAIN q = 1..Len(q) /\ Len(q) \in Nat
  OBVIOUS
<1>2. Members(q) = Entries(q)
  BY <1>1 DEF Members, Entries
<1> QED BY <1>1, <1>2 DEF Members

\* The empty list.
LEMMA NoMembers == Members(<<>>) = {}
  BY DEF Members

\* The list without some of its members, and the others.
LEMMA KeptFacts ==
  ASSUME NEW T, NEW q \in Seq(T), NEW S
  PROVE  /\ Kept(q, S) \in Seq(T) /\ Len(Kept(q, S)) <= Len(q) /\ Len(Kept(q, S)) \in Nat
         /\ Members(Kept(q, S)) = Members(q) \cap S
<1>1. Kept(q, S) \in Seq(T) /\ Len(Kept(q, S)) <= Len(q)
  BY KeptOrder
<1>2. Entries(Kept(q, S)) = Entries(q) \cap S
  BY KeptEntries
<1>3. Members(q) = Entries(q)
  BY MembersFacts
<1>4. Members(Kept(q, S)) = Entries(Kept(q, S)) /\ Len(Kept(q, S)) \in Nat
  BY <1>1, MembersFacts
<1> QED BY <1>1, <1>2, <1>3, <1>4

\* The list without the members of S.
LEMMA WithoutFacts ==
  ASSUME NEW q \in Seq(Seqs), NEW S
  PROVE  /\ Without(q, S) \in Seq(Seqs) /\ Len(Without(q, S)) <= Len(q)
         /\ Len(Without(q, S)) \in Nat
         /\ Members(Without(q, S)) = Members(q) \ S
<1>1. Members(q) \subseteq Seqs
  BY MembersFacts
<1> QED BY <1>1, KeptFacts DEF Without

\* One more member.
LEMMA MembersAppend ==
  ASSUME NEW T, NEW q \in Seq(T), NEW x \in T
  PROVE  /\ Append(q, x) \in Seq(T) /\ Len(Append(q, x)) = Len(q) + 1
         /\ Members(Append(q, x)) = Members(q) \cup {x}
<1>1. /\ Append(q, x) \in Seq(T) /\ Len(Append(q, x)) = Len(q) + 1
      /\ Entries(Append(q, x)) = Entries(q) \cup {x}
  BY AppendFacts
<1>2. Members(q) = Entries(q) /\ Members(Append(q, x)) = Entries(Append(q, x))
  BY <1>1, MembersFacts
<1> QED BY <1>1, <1>2

\* The head and the rest.
LEMMA HeadTail ==
  ASSUME NEW T, NEW q \in Seq(T), q # <<>>
  PROVE  /\ Head(q) \in T /\ Head(q) = q[1] /\ Head(q) \in Members(q)
         /\ Tail(q) \in Seq(T) /\ Len(Tail(q)) = Len(q) - 1
         /\ Members(q) = {Head(q)} \cup Members(Tail(q))
         /\ \A i \in 1..Len(q) - 1 : Tail(q)[i] = q[i + 1]
<1>1. Len(q) \in Nat /\ Len(q) >= 1
  OBVIOUS
<1>2. Head(q) = q[1] /\ q[1] \in T /\ 1 \in 1..Len(q)
  BY <1>1
<1>3. Tail(q) \in Seq(T) /\ Len(Tail(q)) = Len(q) - 1
  BY <1>1
<1>4. \A i \in 1..Len(q) - 1 : Tail(q)[i] = q[i + 1]
  OBVIOUS
<1>5. \A x : x \in Members(q) <=> \E i \in 1..Len(q) : q[i] = x
  BY MembersFacts
<1>6. \A x : x \in Members(Tail(q)) <=> \E i \in 1..Len(q) - 1 : Tail(q)[i] = x
  <2>1. PICK r \in Seq(T) : r = Tail(q)
    BY <1>3
  <2>2. \A x : x \in Members(r) <=> \E i \in 1..Len(r) : r[i] = x
    BY MembersFacts
  <2> QED BY <2>1, <2>2, <1>3
<1>7. ASSUME NEW x, x \in Members(q) PROVE x = Head(q) \/ x \in Members(Tail(q))
  <2>1. PICK i \in 1..Len(q) : q[i] = x
    BY <1>5, <1>7
  <2>2. CASE i = 1
    BY <2>1, <2>2, <1>2
  <2>3. CASE i # 1
    <3>1. i - 1 \in 1..Len(q) - 1 /\ (i - 1) + 1 = i
      BY <2>3, <1>1
    <3>2. Tail(q)[i - 1] = x
      BY <3>1, <2>1, <1>4
    <3> QED BY <3>1, <3>2, <1>6
  <2> QED BY <2>2, <2>3
<1>8. ASSUME NEW x, x \in Members(Tail(q)) PROVE x \in Members(q)
  <2>1. PICK i \in 1..Len(q) - 1 : Tail(q)[i] = x
    BY <1>6, <1>8
  <2>2. i + 1 \in 1..Len(q) /\ q[i + 1] = x
    BY <2>1, <1>1, <1>4
  <2> QED BY <2>2, <1>5
<1> QED BY <1>2, <1>3, <1>4, <1>5, <1>7, <1>8

\* Two lists in a row.
LEMMA MembersConcat ==
  ASSUME NEW T, NEW p \in Seq(T), NEW q \in Seq(T)
  PROVE  /\ p \o q \in Seq(T) /\ Len(p \o q) = Len(p) + Len(q)
         /\ Members(p \o q) = Members(p) \cup Members(q)
<1>1. p \o q \in Seq(T) /\ Len(p \o q) = Len(p) + Len(q) /\ Entries(p \o q) = Entries(p) \cup Entries(q)
  BY ConcatFacts
<1>2. Members(p \o q) = Entries(p \o q) /\ Members(p) = Entries(p) /\ Members(q) = Entries(q)
  BY <1>1, MembersFacts
<1> QED BY <1>1, <1>2

\* A list cut in two.
LEMMA MembersSplit ==
  ASSUME NEW T, NEW q \in Seq(T), NEW n \in 0..Len(q)
  PROVE  /\ SubSeq(q, 1, n) \in Seq(T) /\ Len(SubSeq(q, 1, n)) = n
         /\ SubSeq(q, n + 1, Len(q)) \in Seq(T) /\ Len(SubSeq(q, n + 1, Len(q))) = Len(q) - n
         /\ Members(SubSeq(q, 1, n)) \subseteq Members(q)
         /\ Members(SubSeq(q, n + 1, Len(q))) \subseteq Members(q)
<1>1. /\ SubSeq(q, 1, n) \in Seq(T) /\ Len(SubSeq(q, 1, n)) = n
      /\ SubSeq(q, n + 1, Len(q)) \in Seq(T) /\ Len(SubSeq(q, n + 1, Len(q))) = Len(q) - n
      /\ Entries(SubSeq(q, 1, n)) = {q[i] : i \in 1..n}
      /\ Entries(SubSeq(q, n + 1, Len(q))) = {q[i] : i \in n + 1..Len(q)}
  BY SplitFacts
<1>2. /\ Members(SubSeq(q, 1, n)) = Entries(SubSeq(q, 1, n))
      /\ Members(SubSeq(q, n + 1, Len(q))) = Entries(SubSeq(q, n + 1, Len(q)))
      /\ \A i \in 1..Len(q) : q[i] \in Members(q)
      /\ Len(q) \in Nat
  BY <1>1, MembersFacts
<1> QED BY <1>1, <1>2

-----------------------------------------------------------------------------
(* Rows, pages and texts                                                     *)

\* A number is its quotient and its remainder.
LEMMA Divided ==
  ASSUME NEW n \in Nat, NEW k \in Nat \ {0}
  PROVE  n \div k \in Nat /\ n % k \in 0..k - 1 /\ n = k * (n \div k) + (n % k)
  OBVIOUS

\* Products keep the order.
LEMMA Multiplied ==
  ASSUME NEW k \in Nat \ {0}, NEW q \in Nat, NEW r \in Nat
  PROVE  k * q \in Nat /\ (q < r => k * q + k <= k * r)
  OBVIOUS

\* The place of a row, and the pages that n rows take.
LEMMA RowPlace ==
  ASSUME NEW n \in Nat
  PROVE  /\ PagesForTokens(n) \in Nat
         /\ \A i \in 1..n : /\ (i - 1) \div BlockSize + 1 \in 1..PagesForTokens(n)
                            /\ (i - 1) % BlockSize \in 0..BlockSize - 1
         /\ n > 0 => PagesForTokens(n) > 0
<1> DEFINE k == BlockSize
           q(m) == m \div k
<1>0. k \in Nat \ {0}
  BY V4Assumption
<1>1. \A m \in Nat : /\ q(m) \in Nat /\ m % k \in 0..k - 1 /\ m = k * q(m) + (m % k)
                     /\ k * q(m) \in Nat
  BY <1>0, Divided, Multiplied
<1>2. \A a, b \in Nat : k * a + k > k * b => b <= a
  BY <1>0, Multiplied
<1>3. \A m \in Nat : k * q(m) <= m /\ m < k * q(m) + k
  <2> TAKE m \in Nat
  <2>1. q(m) \in Nat /\ m % k \in 0..k - 1 /\ m = k * q(m) + (m % k) /\ k * q(m) \in Nat
    BY <1>1
  <2>2. m % k \in Nat /\ m % k < k
    BY <2>1, <1>0
  <2> DEFINE a == k * q(m)
             b == m % k
  <2>3. a \in Nat /\ b \in Nat /\ b < k /\ m = a + b
    BY <2>1, <2>2
  <2> HIDE DEF a, b, k, q
  <2>4. a <= m /\ m < a + k
    BY <2>3, <1>0
  <2> QED BY <2>4 DEF a, k
<1>4. PICK c \in Nat : c = PagesForTokens(n)
  <2>1. n + k - 1 \in Nat
    BY <1>0
  <2> QED BY <2>1, <1>1 DEF PagesForTokens
<1>5. n + k - 1 \in Nat /\ c = q(n + k - 1) /\ n + k - 1 < k * c + k /\ k * c \in Nat
  <2>1. n + k - 1 \in Nat
    BY <1>0
  <2>2. c = q(n + k - 1)
    BY <1>4 DEF PagesForTokens
  <2> HIDE DEF q
  <2> QED BY <2>1, <2>2, <1>1, <1>3
<1>6. ASSUME NEW i \in 1..n
      PROVE  q(i - 1) + 1 \in 1..c /\ (i - 1) % k \in 0..k - 1
  <2>1. i - 1 \in Nat /\ i - 1 < n
    OBVIOUS
  <2>2. PICK j \in Nat : j = i - 1
    BY <2>1
  <2>3. PICK a \in Nat : a = q(j) /\ k * a \in Nat /\ k * a <= j
    BY <1>1, <1>3
  <2>4. j % k \in 0..k - 1
    BY <1>1
  <2>5. k * c > k * a
    <3>1. PICK x \in Nat, y \in Nat : x = k * c /\ y = k * a
      BY <1>5, <2>3
    <3> HIDE DEF k, q
    <3>2. n + k - 1 < x + k /\ y <= j /\ j < n
      BY <3>1, <1>5, <2>1, <2>2, <2>3
    <3>3. x > y
      BY <3>2, <1>0
    <3> QED BY <3>1, <3>3
  <2>6. a < c
    <3>1. c <= a => k * c <= k * a
      <4>1. c < a => k * c + k <= k * a
        BY <1>0, Multiplied
      <4>2. k * c \in Nat /\ k * a \in Nat
        BY <1>5, <2>3
      <4> HIDE DEF k
      <4> QED BY <4>1, <4>2, <1>0
    <3>2. k * c \in Nat /\ k * a \in Nat
      BY <1>5, <2>3
    <3> HIDE DEF k
    <3> QED BY <3>1, <3>2, <2>5
  <2> HIDE DEF q
  <2> QED BY <2>2, <2>3, <2>4, <2>6
<1>7. n > 0 => c > 0
  <2> SUFFICES ASSUME n > 0 PROVE c > 0
    OBVIOUS
  <2>1. 1 \in 1..n
    OBVIOUS
  <2>2. q(1 - 1) + 1 \in 1..c
    BY <2>1, <1>6
  <2> HIDE DEF q
  <2> QED BY <2>2
<1> QED BY <1>4, <1>6, <1>7

\* Rows at the same place of the same pages are the same.
LEMMA SameRow ==
  ASSUME NEW i \in Nat \ {0}, NEW j \in Nat \ {0},
         (i - 1) \div BlockSize = (j - 1) \div BlockSize, (i - 1) % BlockSize = (j - 1) % BlockSize
  PROVE  i = j
<1>1. PICK a \in Nat, b \in Nat : a = i - 1 /\ b = j - 1
  OBVIOUS
<1>2. /\ a = BlockSize * (a \div BlockSize) + (a % BlockSize)
      /\ b = BlockSize * (b \div BlockSize) + (b % BlockSize)
  BY V4Assumption, Divided
<1>3. a = b
  BY <1>1, <1>2
<1> QED BY <1>1, <1>3

\* Texts, and the parts and continuations of texts.
LEMMA HistoryFacts ==
  /\ Histories = Seq(Vocab)
  /\ <<>> \in Histories /\ Junk \in Histories /\ Junk # <<>>
  /\ Prompts \subseteq Histories /\ Seq(OutTokens) \subseteq Histories
  /\ AnyPrompt \subseteq Histories
  /\ \A p \in Prompts : p # <<>> /\ Len(p) > 0 /\ Len(p) + MaxTokens <= MaxLen
<1>1. Histories = Seq(Vocab)
  BY DEF Histories, Vocab
<1>2. Junk \in Seq(Vocab) /\ Junk # <<>>
  BY DEF Junk, Vocab
<1>3. ASSUME NEW p \in Prompts
      PROVE  p \in Seq(Vocab) /\ p # <<>> /\ Len(p) > 0 /\ Len(p) + MaxTokens <= MaxLen
  <2>1. p \in Seq(STRING) /\ Len(p) > 0 /\ Len(p) + MaxTokens <= MaxLen
    BY V4Assumption
  <2>2. \A i \in 1..Len(p) : p[i] \in Members(p)
    BY <2>1, MembersFacts
  <2>3. \A i \in 1..Len(p) : p[i] \in Vocab
    BY <2>2 DEF Vocab
  <2>4. p \in Seq(Vocab)
    BY <2>1, <2>3
  <2> QED BY <2>1, <2>4
<1>4. ASSUME NEW p \in Seq(OutTokens) PROVE p \in Seq(Vocab)
  <2>1. \A i \in 1..Len(p) : p[i] \in Vocab
    BY DEF Vocab
  <2> QED BY <2>1
<1>5. <<>> \in Seq(Vocab)
  OBVIOUS
<1> QED BY <1>1, <1>2, <1>3, <1>4, <1>5 DEF AnyPrompt

\* The parts of a text.
LEMMA PartFacts ==
  ASSUME NEW T, NEW h \in Seq(T), NEW n \in 0..Len(h)
  PROVE  /\ SubSeq(h, 1, n) \in Seq(T) /\ Len(SubSeq(h, 1, n)) = n
         /\ \A i \in 1..n : SubSeq(h, 1, n)[i] = h[i]
         /\ SubSeq(h, n + 1, Len(h)) \in Seq(T) /\ Len(SubSeq(h, n + 1, Len(h))) = Len(h) - n
         /\ \A i \in 1..Len(h) - n : SubSeq(h, n + 1, Len(h))[i] = h[n + i]
  BY SplitFacts

\* The constants.
LEMMA Constants ==
  /\ BlockSize \in Nat \ {0} /\ MaxTokens \in Nat \ {0} /\ MaxEntries \in Nat \ {0}
  /\ MaxBatch \in Nat \ {0} /\ MaxLen \in Nat \ {0}
  /\ IsFiniteSet(Seqs) /\ IsFiniteSet(Pages) /\ 0 \in Slots
  BY V4Assumption DEF Slots

\* A forward leaves rows and a state, and a state that is not empty.
LEMMA ForwardTyped ==
  ASSUME NEW v \in SlotRecs, NEW start \in Nat, NEW new \in Histories
  PROVE  /\ Forward(v, start, new) \in SlotRecs
         /\ start + Len(new) > 0 => Forward(v, start, new).st # <<>>
<1> DEFINE sound == Len(v.st) = start /\ HoldsText(v.kv, v.st, v.st)
           text == IF sound THEN v.st \o new ELSE Junk
           n == Len(new)
           row(i) == IF i \notin start + 1..start + n THEN v.kv[i]
                     ELSE IF sound THEN SubSeq(text, 1, i) ELSE Junk
           f == [i \in Positions |-> row(i)]
<1>1. Forward(v, start, new) = [kv |-> f, st |-> text]
  BY DEF Forward
<1>2. v.kv \in [Positions -> Histories] /\ v.st \in Histories
  BY DEF SlotRecs, Rows
<1>3. Histories = Seq(Vocab) /\ Junk \in Histories /\ Junk # <<>>
  BY HistoryFacts
<1>4. n \in Nat
  BY <1>3
<1>5. text \in Histories /\ (sound => Len(text) = start + n)
  <2>1. CASE sound
    <3>1. text = v.st \o new /\ Len(v.st) = start
      BY <2>1
    <3>2. v.st \in Seq(Vocab) /\ new \in Seq(Vocab)
      BY <1>2, <1>3
    <3>3. v.st \o new \in Seq(Vocab) /\ Len(v.st \o new) = Len(v.st) + Len(new)
      BY <3>2
    <3> HIDE DEF text, sound
    <3> QED BY <3>1, <3>3, <1>3
  <2>2. CASE ~sound
    BY <2>2, <1>3
  <2> QED BY <2>1, <2>2
<1>6. start + n > 0 => text # <<>>
  <2>1. CASE sound
    <3>1. Len(text) = start + n
      BY <2>1, <1>5
    <3> QED BY <3>1, <1>4
  <2>2. CASE ~sound
    BY <2>2, <1>3
  <2> QED BY <2>1, <2>2
<1> HIDE DEF text, sound
<1>7. \A i \in Positions : row(i) \in Histories
  <2> TAKE i \in Positions
  <2>1. CASE i \notin start + 1..start + n
    BY <2>1, <1>2
  <2>2. CASE i \in start + 1..start + n /\ sound
    <3>1. i \in 0..Len(text)
      BY <2>2, <1>4, <1>5
    <3>2. SubSeq(text, 1, i) \in Histories
      BY <3>1, <1>3, <1>5, PartFacts
    <3> QED BY <3>2, <2>2
  <2>3. CASE i \in start + 1..start + n /\ ~sound
    BY <2>3, <1>3
  <2> QED BY <2>1, <2>2, <2>3
<1> HIDE DEF row, n
<1>8. f \in [Positions -> Histories]
  BY <1>7
<1> HIDE DEF f
<1>9. [kv |-> f, st |-> text] \in SlotRecs
  BY <1>5, <1>8 DEF SlotRecs, Rows
<1> QED BY <1>1, <1>6, <1>9 DEF n

\* Rows from the pages of a handle that covers them.
LEMMA PagedTyped ==
  ASSUME page \in [Pages -> [0..BlockSize - 1 -> Histories]], NEW h \in Seq(Pages), NEW n \in Nat,
         PagesForTokens(n) <= Len(h), NEW kv \in Rows
  PROVE  RowsFromPages(h, n, kv) \in Rows
<1> DEFINE row(i) == IF i <= n THEN PageRow(h, i) ELSE kv[i]
<1>1. RowsFromPages(h, n, kv) = [i \in Positions |-> row(i)]
  BY DEF RowsFromPages
<1>2. \A i \in Positions : row(i) \in Histories
  <2> TAKE i \in Positions
  <2>1. CASE i <= n
    <3>1. i \in 1..n
      BY <2>1 DEF Positions
    <3>2. PICK j, o : j = (i - 1) \div BlockSize + 1 /\ o = (i - 1) % BlockSize
      OBVIOUS
    <3>3. j \in 1..PagesForTokens(n) /\ o \in 0..BlockSize - 1 /\ PagesForTokens(n) \in Nat
      BY <3>1, <3>2, RowPlace
    <3>4. j \in 1..Len(h)
      BY <3>3
    <3>5. h[j] \in Pages
      BY <3>4
    <3>6. page[h[j]] \in [0..BlockSize - 1 -> Histories]
      BY <3>5
    <3>7. page[h[j]][o] \in Histories
      BY <3>3, <3>6
    <3> QED BY <3>2, <3>7, <2>1 DEF PageRow
  <2>2. CASE ~(i <= n)
    BY <2>2 DEF Rows
  <2> QED BY <2>1, <2>2
<1> HIDE DEF row
<1> QED BY <1>1, <1>2 DEF Rows

\* Types of the constants of the model.
LEMMA BlankTyped ==
  /\ ZeroRows \in Rows /\ ClearedSlot \in SlotRecs /\ SpoiledSlot \in SlotRecs
  /\ ZeroPage \in [0..BlockSize - 1 -> Histories]
  /\ NoEntry \in EntryRecs(AnyPrompt)
  /\ NewSequence \in SeqRecs
<1>1. <<>> \in Histories /\ Junk \in Histories
  BY HistoryFacts
<1>2. ZeroRows \in Rows /\ [i \in Positions |-> Junk] \in Rows
  BY <1>1 DEF ZeroRows, Rows
<1>3. ClearedSlot \in SlotRecs
  BY <1>1, <1>2 DEF ClearedSlot, SlotRecs
<1>4. SpoiledSlot \in SlotRecs
  BY <1>1, <1>2 DEF SpoiledSlot, SlotRecs
<1>5. ZeroPage \in [0..BlockSize - 1 -> Histories]
  BY <1>1 DEF ZeroPage
<1>6. NoEntry \in EntryRecs(AnyPrompt)
  <2>1. <<>> \in AnyPrompt /\ <<>> \in Seq(Pages)
    BY DEF AnyPrompt
  <2> QED BY <2>1, <1>1, <1>2 DEF NoEntry, EntryRecs
<1>7. NewSequence \in SeqRecs
  <2>1. <<>> \in AnyPrompt /\ <<>> \in Seq(Pages) /\ <<>> \in Seq(OutTokens)
    BY DEF AnyPrompt
  <2> QED BY <2>1, <1>1, <1>6 DEF NewSequence, SeqRecs
<1> QED BY <1>2, <1>3, <1>4, <1>5, <1>6, <1>7

\* A slot that has been made ready for a sequence.
LEMMA ReadyTyped ==
  ASSUME page \in [Pages -> [0..BlockSize - 1 -> Histories]], NEW s \in Seqs,
         seq[s] \in SeqRecs, SeqOK(seq[s]), NEW v \in SlotRecs
  PROVE  EnsureRestored(s, v) \in SlotRecs /\ Ready(s, v) \in SlotRecs
<1>1. PICK h \in Seq(Pages), n \in Nat : h = seq[s].handle /\ n = seq[s].hlen
  BY DEF SeqRecs
<1>2. h # <<>> => PagesForTokens(n) <= Len(h)
  BY <1>1 DEF SeqOK
<1>3. PICK e \in EntryRecs(AnyPrompt) : e = seq[s].hit
  BY DEF SeqRecs
<1>4. \A w \in SlotRecs : w.kv \in Rows /\ w.st \in Histories
  BY DEF SlotRecs
<1>5. \A w \in SlotRecs, r \in Rows : [w EXCEPT !.kv = r] \in SlotRecs /\ [w EXCEPT !.kv = r].kv = r
  BY DEF SlotRecs
<1>6. e.kv \in Rows /\ e.st \in Histories
  BY DEF EntryRecs
<1>7. \A r \in Rows, x \in Histories : [kv |-> r, st |-> x] \in SlotRecs
  BY DEF SlotRecs
<1>8. seq[s].pending => Restored(s, v) \in SlotRecs
  <2> SUFFICES ASSUME seq[s].pending PROVE Restored(s, v) \in SlotRecs
    OBVIOUS
  <2>1. Len(e.toks) = n
    BY <1>1, <1>3 DEF SeqOK
  <2>2. CASE h = <<>>
    <3>1. Restored(s, v) = [kv |-> e.kv, st |-> e.st]
      BY <2>2, <1>1, <1>3 DEF Restored, FromSnapshot
    <3> QED BY <3>1, <1>6, <1>7
  <2>3. CASE h # <<>>
    <3>1. PICK r \in Rows : r = RowsFromPages(h, n, v.kv)
      BY <2>3, <1>2, <1>4, PagedTyped
    <3>2. Restored(s, v) = [kv |-> r, st |-> e.st]
      <4>1. Restored(s, v) = FromSnapshot(e, [v EXCEPT !.kv = RowsFromPages(h, Len(e.toks), @)], TRUE)
        BY <2>3, <1>1, <1>3 DEF Restored
      <4>2. [v EXCEPT !.kv = RowsFromPages(h, Len(e.toks), @)] = [v EXCEPT !.kv = r]
        BY <3>1, <2>1
      <4>3. [v EXCEPT !.kv = r].kv = r
        BY <1>5
      <4> QED BY <4>1, <4>2, <4>3 DEF FromSnapshot
    <3> QED BY <3>2, <1>6, <1>7
  <2> QED BY <2>2, <2>3
<1>9. EnsureRestored(s, v) \in SlotRecs
  BY <1>8, BlankTyped DEF EnsureRestored
<1>10. ASSUME NEW w \in SlotRecs PROVE Staged(s, w) \in SlotRecs
  <2>1. CASE NeedsStage(s)
    <3>1. h # <<>>
      BY <2>1, <1>1 DEF NeedsStage
    <3>2. PICK r \in Rows : r = RowsFromPages(h, n, w.kv)
      BY <3>1, <1>2, <1>4, PagedTyped
    <3>3. Staged(s, w) = [w EXCEPT !.kv = r]
      BY <2>1, <3>2, <1>1 DEF Staged
    <3> QED BY <3>3, <1>5
  <2>2. CASE ~NeedsStage(s)
    BY <2>2 DEF Staged
  <2> QED BY <2>1, <2>2
<1> QED BY <1>9, <1>10 DEF Ready

-----------------------------------------------------------------------------
(* The forward of a group                                                    *)

\* The tokens of a forward.
LEMMA NewTokensFacts ==
  ASSUME NEW s \in Seqs, seq[s] \in SeqRecs,
         seq[s].out = <<>> => seq[s].cached <= Len(seq[s].prompt)
  PROVE  /\ NewTokens(s) \in Histories
         /\ Len(NewTokens(s)) = IF seq[s].out = <<>> THEN Len(seq[s].prompt) - seq[s].cached ELSE 1
<1>1. PICK p \in Histories, x \in Seq(OutTokens), c \in Nat :
        p = seq[s].prompt /\ x = seq[s].out /\ c = seq[s].cached
  BY HistoryFacts DEF SeqRecs
<1>2. Histories = Seq(Vocab) /\ x \in Seq(Vocab)
  BY HistoryFacts
<1>3. CASE x = <<>>
  <2>1. c \in 0..Len(p)
    BY <1>1, <1>2, <1>3
  <2>2. NewTokens(s) = SubSeq(p, c + 1, Len(p))
    BY <1>1, <1>3 DEF NewTokens
  <2>3. SubSeq(p, c + 1, Len(p)) \in Seq(Vocab) /\ Len(SubSeq(p, c + 1, Len(p))) = Len(p) - c
    BY <2>1, <1>2, PartFacts
  <2> QED BY <2>2, <2>3, <1>1, <1>2, <1>3
<1>4. CASE x # <<>>
  <2>1. Len(x) \in 1..Len(x)
    BY <1>4
  <2>2. PICK y \in Vocab : y = x[Len(x)]
    BY <2>1, <1>2
  <2>3. NewTokens(s) = <<y>>
    BY <2>2, <1>1, <1>4 DEF NewTokens
  <2>4. <<y>> \in Seq(Vocab) /\ Len(<<y>>) = 1
    OBVIOUS
  <2> QED BY <2>3, <2>4, <1>1, <1>2, <1>4
<1> QED BY <1>3, <1>4

\* A sequence that may be forwarded.
Fit(s) ==
  /\ Prompted(s)
  /\ IF seq[s].out = <<>> THEN seq[s].cached <= Len(seq[s].prompt)
     ELSE seq[s].cached < Len(seq[s].prompt) + Len(seq[s].out)

\* The sequence after its forward: K/V up to the end of its text at most.
Fed(s, q) ==
  /\ q \in SeqRecs
  /\ q.prompt = seq[s].prompt /\ q.out = seq[s].out /\ q.hit = seq[s].hit
  /\ q.handle = seq[s].handle /\ q.hlen = seq[s].hlen /\ q.fin = seq[s].fin
  /\ ~q.pending /\ q.prepared /\ ~q.need
  /\ q.cached = seq[s].cached + Len(NewTokens(s)) /\ q.cached > 0
  /\ q.cached <= Len(q.prompt) + Len(q.out)
  /\ q.out = <<>> => q.cached = Len(q.prompt)
  /\ q.heard # <<>>

\* What a forward makes of a sequence and of its slot.
LEMMA ForwardedFacts ==
  ASSUME VInv, NEW s \in Seqs, Fit(s), NEW v \in SlotRecs
  PROVE  /\ AfterForward(s, v) \in SlotRecs
         /\ Fed(s, Forwarded(s, v)) /\ Forwarded(s, v).heard = AfterForward(s, v).st
<1>1. seq[s] \in SeqRecs /\ SeqOK(seq[s]) /\ page \in [Pages -> [0..BlockSize - 1 -> Histories]]
  BY DEF VInv, VTypes, SeqsOK
<1>2. PICK p \in Histories, x \in Seq(OutTokens), c \in Nat :
        p = seq[s].prompt /\ x = seq[s].out /\ c = seq[s].cached
  BY <1>1, HistoryFacts DEF SeqRecs
<1>3. /\ NewTokens(s) \in Histories
      /\ Len(NewTokens(s)) = IF x = <<>> THEN Len(p) - c ELSE 1
  BY <1>1, <1>2, NewTokensFacts DEF Fit
<1>4. Len(p) \in Nat /\ Len(x) \in Nat /\ (x # <<>> => Len(x) > 0) /\ (x = <<>> => Len(x) = 0)
  BY HistoryFacts
<1>5. Len(p) > 0
  <2>1. p \in Prompts
    BY <1>1, <1>2 DEF Fit, Prompted, SeqRecs, AnyPrompt
  <2> QED BY <2>1, HistoryFacts
<1>6. PICK n \in Nat : n = c + Len(NewTokens(s)) /\ n > 0 /\ n <= Len(p) + Len(x)
                       /\ (x = <<>> => n = Len(p))
  <2>1. CASE x = <<>>
    <3>1. c <= Len(p) /\ Len(NewTokens(s)) = Len(p) - c
      BY <2>1, <1>2, <1>3 DEF Fit
    <3> QED BY <3>1, <2>1, <1>4, <1>5
  <2>2. CASE x # <<>>
    <3>1. c < Len(p) + Len(x) /\ Len(NewTokens(s)) = 1
      BY <2>2, <1>2, <1>3 DEF Fit
    <3> QED BY <3>1, <2>2, <1>4
  <2> QED BY <2>1, <2>2
<1>7. Ready(s, v) \in SlotRecs
  BY <1>1, ReadyTyped
<1>8. PICK a \in SlotRecs : a = AfterForward(s, v) /\ a.st # <<>> /\ a.st \in Histories
  <2>1. /\ Forward(Ready(s, v), c, NewTokens(s)) \in SlotRecs
        /\ c + Len(NewTokens(s)) > 0 => Forward(Ready(s, v), c, NewTokens(s)).st # <<>>
    BY <1>3, <1>7, ForwardTyped
  <2>2. AfterForward(s, v) = Forward(Ready(s, v), c, NewTokens(s))
    BY <1>2 DEF AfterForward
  <2>3. \A w \in SlotRecs : w.st \in Histories
    BY DEF SlotRecs
  <2> QED BY <2>1, <2>2, <2>3, <1>6
<1> DEFINE q == [seq[s] EXCEPT !.pending = FALSE, !.prepared = TRUE, !.need = FALSE,
                               !.cached = n, !.heard = a.st]
<1>9. Forwarded(s, v) = q
  BY <1>2, <1>6, <1>8 DEF Forwarded
<1>10. /\ q \in SeqRecs
       /\ q.prompt = p /\ q.out = x /\ q.hit = seq[s].hit
       /\ q.handle = seq[s].handle /\ q.hlen = seq[s].hlen /\ q.fin = seq[s].fin
       /\ ~q.pending /\ q.prepared /\ ~q.need /\ q.cached = n /\ q.heard = a.st
  BY <1>1, <1>2, <1>8 DEF SeqRecs
<1> HIDE DEF q
<1>11. Fed(s, q)
  BY <1>2, <1>6, <1>8, <1>10 DEF Fed
<1> QED BY <1>8, <1>9, <1>10, <1>11

\* A group that may be forwarded, each member in a slot of its own.
GroupFit(g) == g \in Seq(Seqs) /\ Len(g) <= MaxBatch /\ \A s \in Members(g) : Fit(s)

\* What a forward makes of a group.
LEMMA GroupFacts ==
  ASSUME VInv, NEW g, GroupFit(g)
  PROVE  /\ GroupSlots(g) \in [Slots -> SlotRecs]
         /\ GroupSeqs(g) \in [Seqs -> SeqRecs]
         /\ \A s \in Seqs \ Members(g) : GroupSeqs(g)[s] = seq[s]
         /\ \A s \in Members(g) : Fed(s, GroupSeqs(g)[s])
         /\ WithSlots(g) \in Seq(Seqs \X Slots) /\ Len(WithSlots(g)) = Len(g)
         /\ \A i \in 1..Len(g) : WithSlots(g)[i] = <<g[i], i - 1>>
<1>1. g \in Seq(Seqs) /\ Len(g) \in Nat /\ Len(g) <= MaxBatch /\ MaxBatch \in Nat /\ DOMAIN g = 1..Len(g)
  BY Constants DEF GroupFit
<1>2. slot \in [Slots -> SlotRecs] /\ seq \in [Seqs -> SeqRecs]
  BY DEF VInv, VTypes
<1>3. /\ \A s \in Members(g) : Fit(s) /\ s \in Seqs /\ \E i \in 1..Len(g) : g[i] = s
      /\ \A i \in 1..Len(g) : g[i] \in Members(g) /\ i - 1 \in Slots
  <2>1. \A i \in 1..Len(g) : i - 1 \in Slots
    BY <1>1 DEF Slots
  <2> QED BY <1>1, <2>1, MembersFacts DEF GroupFit
<1>4. \A s \in Members(g), v \in SlotRecs : AfterForward(s, v) \in SlotRecs /\ Fed(s, Forwarded(s, v))
  BY <1>3, ForwardedFacts
<1>5. GroupSlots(g) \in [Slots -> SlotRecs]
  <2> DEFINE w(b) == IF b < Len(g) THEN AfterForward(g[b + 1], slot[b]) ELSE slot[b]
  <2>1. \A b \in Slots : w(b) \in SlotRecs
    <3> TAKE b \in Slots
    <3>1. CASE b < Len(g)
      <4>1. b + 1 \in 1..Len(g)
        BY <3>1, <1>1 DEF Slots
      <4>2. g[b + 1] \in Members(g) /\ slot[b] \in SlotRecs
        BY <4>1, <1>2, <1>3
      <4>3. AfterForward(g[b + 1], slot[b]) \in SlotRecs
        BY <4>2, <1>4
      <4> QED BY <4>3, <3>1
    <3>2. CASE ~(b < Len(g))
      BY <3>2, <1>2
    <3> QED BY <3>1, <3>2
  <2>2. GroupSlots(g) = [b \in Slots |-> w(b)]
    BY DEF GroupSlots
  <2> HIDE DEF w
  <2> QED BY <2>1, <2>2
<1>6. /\ GroupSeqs(g) \in [Seqs -> SeqRecs]
      /\ \A s \in Seqs \ Members(g) : GroupSeqs(g)[s] = seq[s]
      /\ \A s \in Members(g) : Fed(s, GroupSeqs(g)[s])
  <2> DEFINE at(s) == CHOOSE i \in DOMAIN g : g[i] = s
             f(s) == Forwarded(s, slot[at(s) - 1])
             w(s) == IF s \in Members(g) THEN f(s) ELSE seq[s]
  <2>1. ASSUME NEW s \in Members(g) PROVE Fed(s, f(s))
    <3>1. at(s) \in 1..Len(g)
      BY <2>1, <1>1, <1>3
    <3>2. slot[at(s) - 1] \in SlotRecs
      BY <3>1, <1>2, <1>3
    <3> QED BY <3>2, <2>1, <1>4
  <2>2. GroupSeqs(g) = [s \in Seqs |-> w(s)]
    BY DEF GroupSeqs
  <2>3. \A s \in Members(g) : f(s) \in SeqRecs
    BY <2>1 DEF Fed
  <2> HIDE DEF f
  <2>4. /\ \A s \in Seqs : w(s) \in SeqRecs
        /\ \A s \in Seqs \ Members(g) : w(s) = seq[s]
        /\ \A s \in Members(g) : w(s) = f(s)
    BY <2>3, <1>2
  <2> HIDE DEF w
  <2> QED BY <2>1, <2>2, <2>4, <1>3
<1>7. /\ WithSlots(g) \in Seq(Seqs \X Slots) /\ Len(WithSlots(g)) = Len(g)
      /\ \A i \in 1..Len(g) : WithSlots(g)[i] = <<g[i], i - 1>>
  <2>1. WithSlots(g) = [i \in 1..Len(g) |-> <<g[i], i - 1>>]
    BY <1>1 DEF WithSlots
  <2>2. \A i \in 1..Len(g) : <<g[i], i - 1>> \in Seqs \X Slots
    BY <1>1, <1>3
  <2> DEFINE pr(i) == <<g[i], i - 1>>
  <2>3. WithSlots(g) = [i \in 1..Len(g) |-> pr(i)] /\ \A i \in 1..Len(g) : pr(i) \in Seqs \X Slots
    BY <2>1, <2>2
  <2> HIDE DEF pr
  <2>4. /\ WithSlots(g) \in Seq(Seqs \X Slots) /\ Len(WithSlots(g)) = Len(g)
        /\ \A i \in 1..Len(g) : WithSlots(g)[i] = pr(i)
    BY <2>3, <1>1
  <2> QED BY <2>4 DEF pr
<1> QED BY <1>5, <1>6, <1>7

-----------------------------------------------------------------------------
(* Counting the holders of a page                                            *)

Listers(q, p) == {i \in 1..Len(q) : p \in Members(q[i].pages)}
Keepers(f, p) == {s \in Seqs : p \in Members(f[s].handle)}
Bit(c) == IF c THEN 1 ELSE 0

\* The two counts, of the entries and of the handles.
LEMMA HoldersFacts ==
  ASSUME VTypes, NEW p
  PROVE  Holders(p) = Cardinality(Listers(entries, p)) + Cardinality(Keepers(seq, p))
<1>1. DOMAIN entries = 1..Len(entries)
  BY DEF VTypes
<1> QED BY <1>1 DEF Holders, Listers, Keepers

\* Two finite sets that agree outside x differ by x at most.
LEMMA OneApart ==
  ASSUME NEW S, IsFiniteSet(S), NEW T, NEW x, S \ {x} = T \ {x}
  PROVE  /\ IsFiniteSet(T) /\ Cardinality(S) \in Nat /\ Cardinality(T) \in Nat
         /\ Cardinality(T) + Bit(x \in S) = Cardinality(S) + Bit(x \in T)
<1>1. IsFiniteSet(S \ {x}) /\ Cardinality(S \ {x}) + Bit(x \in S) = Cardinality(S)
  <2>1. Cardinality(S \ {x}) = IF x \in S THEN Cardinality(S) - 1 ELSE Cardinality(S)
    BY FS_RemoveElement
  <2> QED BY <2>1, FS_RemoveElement, FS_CardinalityType DEF Bit
<1>2. IsFiniteSet(T) /\ Cardinality(T) = Cardinality(S \ {x}) + Bit(x \in T)
  <2> DEFINE R == S \ {x}
  <2>1. x \notin R /\ IsFiniteSet(R) /\ Cardinality(R) \in Nat
    BY <1>1, FS_CardinalityType
  <2>2. T = IF x \in T THEN R \cup {x} ELSE R
    OBVIOUS
  <2> HIDE DEF R
  <2>3. IsFiniteSet(R \cup {x}) /\ Cardinality(R \cup {x}) = Cardinality(R) + 1
    BY <2>1, FS_AddElement
  <2>4. IsFiniteSet(T) /\ Cardinality(T) = Cardinality(R) + Bit(x \in T)
    <3>1. CASE x \in T
      BY <3>1, <2>2, <2>3 DEF Bit
    <3>2. CASE x \notin T
      BY <3>2, <2>1, <2>2 DEF Bit
    <3> QED BY <3>1, <3>2
  <2> QED BY <2>4 DEF R
<1>3. Cardinality(S) \in Nat /\ Cardinality(T) \in Nat /\ Cardinality(S \ {x}) \in Nat
  BY <1>1, <1>2, FS_CardinalityType
<1>4. Bit(x \in S) \in Nat /\ Bit(x \in T) \in Nat
  BY DEF Bit
<1> QED BY <1>1, <1>2, <1>3, <1>4

\* Only the handle of s may differ.
Elsewhere(f, g, s) == \A r \in Seqs \ {s} : g[r].handle = f[r].handle

\* A handle that changes.
LEMMA KeepersExcept ==
  ASSUME NEW f, NEW g, NEW s \in Seqs, Elsewhere(f, g, s), NEW p
  PROVE  /\ Cardinality(Keepers(f, p)) \in Nat /\ Cardinality(Keepers(g, p)) \in Nat
         /\ Cardinality(Keepers(g, p)) + Held(f[s].handle, p)
              = Cardinality(Keepers(f, p)) + Held(g[s].handle, p)
<1> DEFINE S == Keepers(f, p)
           T == Keepers(g, p)
<1>1. IsFiniteSet(S)
  BY Constants, FS_Subset DEF Keepers
<1>2. S \ {s} = T \ {s}
  BY DEF Keepers, Elsewhere
<1>3. Bit(s \in S) = Held(f[s].handle, p) /\ Bit(s \in T) = Held(g[s].handle, p)
  BY DEF Keepers, Bit, Held
<1> HIDE DEF S, T
<1>4. /\ Cardinality(S) \in Nat /\ Cardinality(T) \in Nat
      /\ Cardinality(T) + Bit(s \in S) = Cardinality(S) + Bit(s \in T)
  BY <1>1, <1>2, OneApart
<1> QED BY <1>3, <1>4 DEF S, T

\* No handle changes.
LEMMA KeepersSame ==
  ASSUME NEW f, NEW g, \A r \in Seqs : g[r].handle = f[r].handle, NEW p
  PROVE  Keepers(g, p) = Keepers(f, p)
  BY DEF Keepers

\* The places of a list that name a page.
LEMMA ListersFinite ==
  ASSUME NEW T, NEW q \in Seq(T), NEW p
  PROVE  IsFiniteSet(Listers(q, p)) /\ Cardinality(Listers(q, p)) \in Nat
<1>1. IsFiniteSet(1..Len(q))
  BY FS_Interval
<1> QED BY <1>1, FS_Subset, FS_CardinalityType DEF Listers

\* One more entry.
LEMMA ListersAppend ==
  ASSUME NEW T, NEW q \in Seq(T), NEW e \in T, NEW p
  PROVE  Cardinality(Listers(Append(q, e), p)) = Cardinality(Listers(q, p)) + Held(e.pages, p)
<1>1. PICK n \in Nat : n = Len(q)
  OBVIOUS
<1> DEFINE u == Append(q, e)
           A == Listers(q, p)
           B == Listers(u, p)
<1>2. Len(u) = n + 1 /\ u[n + 1] = e /\ \A i \in 1..n : u[i] = q[i]
  BY <1>1
<1> HIDE DEF u
<1>3. A \ {n + 1} = B \ {n + 1}
  BY <1>1, <1>2 DEF Listers
<1>4. ~(n + 1 \in A) /\ Bit(n + 1 \in B) = Held(e.pages, p)
  BY <1>1, <1>2 DEF Listers, Bit, Held
<1>5. IsFiniteSet(A)
  BY ListersFinite
<1> HIDE DEF A, B
<1>6. /\ Cardinality(A) \in Nat /\ Cardinality(B) \in Nat
      /\ Cardinality(B) + Bit(n + 1 \in A) = Cardinality(A) + Bit(n + 1 \in B)
  BY <1>3, <1>5, OneApart
<1>7. Bit(n + 1 \in A) = 0
  BY <1>4 DEF Bit
<1> QED BY <1>4, <1>6, <1>7 DEF A, B, u

\* An entry replaced.
LEMMA ListersReplace ==
  ASSUME NEW T, NEW q \in Seq(T), NEW u, Len(u) = Len(q), NEW k \in 1..Len(q),
         \A i \in 1..Len(q) \ {k} : u[i] = q[i], NEW p
  PROVE  Cardinality(Listers(u, p)) + Held(q[k].pages, p)
           = Cardinality(Listers(q, p)) + Held(u[k].pages, p)
<1> DEFINE A == Listers(q, p)
           B == Listers(u, p)
<1>1. A \ {k} = B \ {k}
  BY DEF Listers
<1>2. Bit(k \in A) = Held(q[k].pages, p) /\ Bit(k \in B) = Held(u[k].pages, p)
  BY DEF Listers, Bit, Held
<1>3. IsFiniteSet(A)
  BY ListersFinite
<1> HIDE DEF A, B
<1>4. Cardinality(B) + Bit(k \in A) = Cardinality(A) + Bit(k \in B)
  BY <1>1, <1>3, OneApart
<1> QED BY <1>2, <1>4 DEF A, B

\* The oldest entry dropped.
LEMMA ListersTail ==
  ASSUME NEW T, NEW q \in Seq(T), q # <<>>, NEW p
  PROVE  Cardinality(Listers(Tail(q), p)) + Held(q[1].pages, p) = Cardinality(Listers(q, p))
<1>1. PICK n \in Nat : n = Len(q) /\ n > 0
  OBVIOUS
<1> DEFINE u == Tail(q)
           A == Listers(q, p)
           B == Listers(u, p)
           C == A \ {1}
<1>2. u \in Seq(T) /\ Len(u) = n - 1 /\ \A i \in 1..n - 1 : u[i] = q[i + 1]
  BY <1>1, HeadTail
<1> HIDE DEF u
<1>3. IsFiniteSet(A) /\ IsFiniteSet(B) /\ Cardinality(A) \in Nat /\ Cardinality(B) \in Nat
  BY <1>2, ListersFinite
<1>4. \A i \in B : i \in 1..n - 1 /\ i + 1 \in C
  BY <1>1, <1>2 DEF Listers
<1>5. \A j \in C : j \in 2..n /\ j - 1 \in B /\ (j - 1) + 1 = j
  <2> TAKE j \in C
  <2>1. j \in 2..n /\ p \in Members(q[j].pages)
    BY <1>1 DEF Listers
  <2>2. j - 1 \in 1..n - 1 /\ (j - 1) + 1 = j
    BY <2>1, <1>1
  <2>3. u[j - 1] = q[j]
    BY <2>2, <1>2
  <2>4. j - 1 \in 1..Len(u) /\ p \in Members(u[j - 1].pages)
    BY <2>1, <2>2, <2>3, <1>2
  <2> QED BY <2>1, <2>2, <2>4 DEF Listers
<1> HIDE DEF B, C
<1> DEFINE f == [i \in B |-> i + 1]
<1>6. f \in Bijection(B, C)
  <2>1. f \in [B -> C]
    BY <1>4
  <2>2. \A i, j \in B : f[i] = f[j] => i = j
    BY <1>4
  <2>3. \A j \in C : \E i \in B : f[i] = j
    BY <1>5
  <2> HIDE DEF f
  <2> QED BY <2>1, <2>2, <2>3 DEF Bijection, Injection, Surjection, IsInjective
<1>7. Cardinality(C) = Cardinality(B)
  BY <1>3, <1>6, FS_Bijection DEF ExistsBijection
<1>8. C \ {1} = A \ {1} /\ IsFiniteSet(C)
  BY <1>3, FS_Subset DEF C
<1>9. Cardinality(C) + Bit(1 \in A) = Cardinality(A) + Bit(1 \in C)
  <2> HIDE DEF A
  <2> QED BY <1>3, <1>8, OneApart
<1>10. Bit(1 \in A) = Held(q[1].pages, p) /\ Bit(1 \in C) = 0
  BY <1>1 DEF Bit, Held, Listers, C
<1> HIDE DEF A
<1> QED BY <1>3, <1>7, <1>9, <1>10 DEF A, B, u

\* A page that somebody holds is not free.
LEMMA FreeUnheld ==
  ASSUME VTypes, PagesCovered, NEW p \in Pages, ref[p] = 0
  PROVE  /\ \A i \in 1..Len(entries) : p \notin Members(entries[i].pages)
         /\ \A s \in Seqs : p \notin Members(seq[s].handle)
<1> DEFINE A == Listers(entries, p)
           B == Keepers(seq, p)
<1>1. IsFiniteSet(A) /\ Cardinality(A) \in Nat
  BY ListersFinite DEF VTypes
<1>2. IsFiniteSet(B) /\ Cardinality(B) \in Nat
  BY Constants, FS_Subset, FS_CardinalityType DEF Keepers
<1>3. Cardinality(A) + Cardinality(B) <= 0
  BY HoldersFacts DEF PagesCovered
<1>4. A = {} /\ B = {}
  <2> HIDE DEF A, B
  <2>1. Cardinality(A) = 0 /\ Cardinality(B) = 0
    BY <1>1, <1>2, <1>3
  <2> QED BY <2>1, <1>1, <1>2, FS_EmptySet
<1> QED BY <1>4 DEF Listers, Keepers

-----------------------------------------------------------------------------
(* The steps keep the invariant: admission and the end of a sequence         *)

\* A count that covers its holders goes on doing so when neither changes.
LEMMA CoveredStep ==
  ASSUME PagesCovered, entries' = entries, ref' = ref, \A s \in Seqs : seq'[s].handle = seq[s].handle
  PROVE  PagesCovered'
<1>1. \A p : {s \in Seqs : p \in Members(seq'[s].handle)} = {s \in Seqs : p \in Members(seq[s].handle)}
  OBVIOUS
<1>2. \A p : Holders(p)' = Holders(p)
  BY <1>1 DEF Holders
<1> QED BY <1>2 DEF PagesCovered

\* The holders of a page in the next state.
LEMMA HoldersNext ==
  ASSUME NEW T, entries' \in Seq(T), NEW p
  PROVE  Holders(p)' = Cardinality(Listers(entries', p)) + Cardinality(Keepers(seq', p))
<1>1. DOMAIN entries' = 1..Len(entries')
  OBVIOUS
<1> QED BY <1>1 DEF Holders, Listers, Keepers

\* The best entry for a prompt that has one.
LEMMA BestHit ==
  ASSUME VInv, NEW p \in Prompts, Hits(p) # {}
  PROVE  \E k \in 1..Len(entries) :
           /\ Best(p) = entries[k] /\ IsPrefixOf(entries[k].toks, p)
           /\ entries[k] \in EntryRecs(Prompts) /\ Len(entries[k].toks) \in Nat
<1> entries \in Seq(EntryRecs(Prompts))
  BY DEF VInv, VTypes
<1> DEFINE L(i) == Len(entries[i].toks)
           top(i) == \A j \in Hits(p) : L(j) <= L(i)
<1>1. Hits(p) \subseteq 1..Len(entries) /\ \A i \in Hits(p) : IsPrefixOf(entries[i].toks, p)
  BY DEF Hits
<1>2. \A i \in 1..Len(entries) : entries[i] \in EntryRecs(Prompts) /\ entries[i].toks \in Prompts
  <2>1. \A i \in 1..Len(entries) : entries[i] \in EntryRecs(Prompts)
    OBVIOUS
  <2> QED BY <2>1 DEF EntryRecs
<1>3. \A i \in Hits(p) : L(i) \in Nat /\ L(i) <= Len(p)
  <2> TAKE i \in Hits(p)
  <2>1. entries[i].toks \in Seq(Vocab) /\ IsPrefixOf(entries[i].toks, p)
    BY <1>1, <1>2, HistoryFacts
  <2> QED BY <2>1 DEF IsPrefixOf
<1>4. \E i \in Hits(p) : top(i)
  <2> DEFINE D == {Len(p) - L(i) : i \in Hits(p)}
  <2>1. Len(p) \in Nat
    BY HistoryFacts
  <2>2. D \subseteq Nat /\ D # {}
    BY <2>1, <1>3
  <2>3. PICK x \in D : \A y \in D : x <= y
    <3> HIDE DEF D
    <3> QED BY <2>2, LeastNat
  <2>4. PICK i \in Hits(p) : x = Len(p) - L(i)
    BY <2>3
  <2>5. \A j \in Hits(p) : Len(p) - L(i) <= Len(p) - L(j)
    BY <2>3, <2>4
  <2> HIDE DEF L
  <2>6. \A j \in Hits(p) : L(j) <= L(i)
    BY <2>1, <2>5, <1>3
  <2> QED BY <2>6
<1>5. PICK k \in Hits(p) : Best(p) = entries[k]
  <2>1. Best(p) = entries[CHOOSE i \in Hits(p) : top(i)]
    BY DEF Best
  <2>2. (CHOOSE i \in Hits(p) : top(i)) \in Hits(p)
    <3> HIDE DEF top
    <3> QED BY <1>4
  <2> QED BY <2>1, <2>2
<1> QED BY <1>1, <1>2, <1>3, <1>5

\* The best entry for a prompt, or none.
LEMMA BestFacts ==
  ASSUME VInv, NEW p \in Prompts
  PROVE  /\ Best(p) \in EntryRecs(AnyPrompt)
         /\ Len(Best(p).toks) \in Nat /\ Len(Best(p).toks) <= Len(p)
         /\ Len(Best(p).toks) > 0 => Best(p).logits # <<>>
         /\ Best(p).pages # <<>> => PagesForTokens(Len(Best(p).toks)) <= Len(Best(p).pages)
         /\ (Hits(p) # {}) \in BOOLEAN
<1>1. entries \in Seq(EntryRecs(Prompts)) /\ \A i \in 1..Len(entries) : EntryOK(entries[i])
  BY DEF VInv, VTypes, EntriesOK
<1>2. CASE Hits(p) = {}
  <2>1. Best(p) = NoEntry
    BY <1>2 DEF Best
  <2>2. NoEntry.toks = <<>> /\ NoEntry.pages = <<>> /\ Len(<<>>) = 0
    BY DEF NoEntry
  <2>3. Len(p) \in Nat
    BY HistoryFacts
  <2> QED BY <2>1, <2>2, <2>3, BlankTyped
<1>3. CASE Hits(p) # {}
  <2>1. PICK k \in 1..Len(entries) :
           /\ Best(p) = entries[k] /\ IsPrefixOf(entries[k].toks, p)
           /\ entries[k] \in EntryRecs(Prompts) /\ Len(entries[k].toks) \in Nat
    BY <1>3, BestHit
  <2>2. Len(entries[k].toks) <= Len(p)
    BY <2>1 DEF IsPrefixOf
  <2>3. EntryOK(entries[k])
    BY <1>1
  <2>4. EntryRecs(Prompts) \subseteq EntryRecs(AnyPrompt)
    BY DEF EntryRecs, AnyPrompt
  <2> QED BY <2>1, <2>2, <2>3, <2>4 DEF EntryOK
<1> QED BY <1>2, <1>3

\* The members whose pages are to be written.
LEMMA PostFacts ==
  ASSUME VInv
  PROVE  /\ post \in Seq(Seqs \X Slots)
         /\ \A i \in 1..Len(post) : PostOK(post[i][1]) /\ post[i][1] \in Seqs
<1>1. post \in Seq(Seqs \X Slots)
  BY DEF VInv, VTypes
<1>2. \A i \in 1..Len(post) : post[i] \in Seqs \X Slots
  BY <1>1
<1> QED BY <1>1, <1>2 DEF VInv, Listeds

\* Admission.
LEMMA AdmitKeeps ==
  ASSUME VInv, NEW s \in Seqs, NEW p \in Prompts, Admit(s, p)
  PROVE  VInv'
<1> DEFINE u == [seq[s] EXCEPT !.prompt = p, !.hit = Best(p), !.cached = Len(Best(p).toks),
                               !.heard = Best(p).logits, !.pending = Hits(p) # {},
                               !.handle = HitHandle(Best(p)), !.hlen = Len(Best(p).toks)]
<1>1. PICK e \in EntryRecs(AnyPrompt) : e = Best(p)
  BY BestFacts
<1>2. PICK n \in Nat : /\ n = Len(e.toks) /\ n <= Len(p) /\ (n > 0 => e.logits # <<>>)
                       /\ (e.pages # <<>> => PagesForTokens(n) <= Len(e.pages))
  BY <1>1, BestFacts
<1>3. PICK c \in BOOLEAN : c = (Hits(p) # {})
  OBVIOUS
<1>4. seq[s] = NewSequence /\ seq \in [Seqs -> SeqRecs] /\ seq[s].prompt = <<>>
  BY DEF Admit, Prompted, VInv, SeqsOK, SeqOK, VTypes
<1>5. e.logits \in Histories /\ e.pages \in Seq(Pages)
  BY DEF EntryRecs
<1>6. p \in AnyPrompt /\ p # <<>> /\ Len(p) \in Nat
  BY HistoryFacts DEF AnyPrompt
<1>7. u = [seq[s] EXCEPT !.prompt = p, !.hit = e, !.cached = n, !.heard = e.logits,
                         !.pending = c, !.handle = e.pages, !.hlen = n]
  BY <1>1, <1>2, <1>3 DEF HitHandle
<1>8. /\ u \in SeqRecs /\ u.prompt = p /\ u.out = <<>> /\ u.cached = n /\ u.heard = e.logits
      /\ u.handle = e.pages /\ u.hlen = n /\ u.hit = e /\ u.pending = c
  <2>1. seq[s] \in SeqRecs /\ seq[s].out = <<>>
    <3>1. NewSequence.out = <<>>
      BY DEF NewSequence
    <3> QED BY <3>1, <1>4
  <2> QED BY <2>1, <1>5, <1>6, <1>7 DEF SeqRecs
<1>9. seq' = [seq EXCEPT ![s] = u] /\ waiting' = Append(waiting, s) /\ ref' = Forked(e.pages)
  BY <1>1 DEF Admit
<1>10. /\ UNCHANGED <<entries, page, slot, running, step, batch, todo, pres, ones, decs, post>>
  BY DEF Admit, work
<1> HIDE DEF u
<1>11. seq' \in [Seqs -> SeqRecs] /\ seq'[s] = u /\ \A r \in Seqs \ {s} : seq'[r] = seq[r]
  BY <1>4, <1>8, <1>9
<1>12. ref' \in [Pages -> Nat] /\ \A x \in Pages : ref'[x] = ref[x] + Held(e.pages, x)
  BY <1>9 DEF Forked, Held, VInv, VTypes
<1>13. waiting' \in Seq(Seqs) /\ Members(waiting') = Members(waiting) \cup {s}
  BY <1>9, MembersAppend DEF VInv, VTypes
<1>14. VTypes'
  BY <1>10, <1>11, <1>12, <1>13 DEF VInv, VTypes
<1>15. EntriesOK'
  BY <1>10 DEF VInv, EntriesOK
<1>16. SeqsOK'
  <2>1. SeqOK(u)
    <3>1. Len(<<>>) = 0 /\ MaxTokens \in Nat \ {0}
      BY Constants
    <3> QED BY <3>1, <1>2, <1>6, <1>8 DEF SeqOK
  <2> QED BY <2>1, <1>11 DEF VInv, SeqsOK
<1>17. \A r \in Members(batch) : r # s /\ r \in Seqs
  <2>1. \A r \in Members(batch) : Prompted(r) /\ r \in Seqs
    BY MembersFacts DEF VInv, Listing, Listed, VTypes
  <2> QED BY <2>1, <1>4 DEF Prompted
<1>18. Behinds'
  <2> SUFFICES ASSUME NEW r \in Seqs, ~seq'[r].fin, Waits(r)' PROVE Behind(r)'
    BY DEF Behinds
  <2>1. CASE r = s
    BY <2>1, <1>2, <1>8, <1>11 DEF Behind
  <2>2. CASE r # s
    <3>1. seq'[r] = seq[r] /\ Waits(r)
      BY <2>2, <1>10, <1>11 DEF Waits
    <3>2. Behind(r)
      BY <3>1 DEF VInv, Behinds
    <3> QED BY <3>1, <3>2 DEF Behind
  <2> QED BY <2>1, <2>2
<1>19. Filled'
  <2> SUFFICES ASSUME NEW r \in Seqs, ~seq'[r].fin, ~Waits(r)'
               PROVE  \/ r \in Members(pres) \cup Members(ones) \cup Members(decs)
                      \/ Len(seq'[r].prompt) <= seq'[r].cached
    BY <1>10 DEF Filled
  <2>1. ~Waits(r) /\ r # s /\ seq'[r] = seq[r]
    BY <1>10, <1>11, <1>17 DEF Waits
  <2> QED BY <2>1 DEF VInv, Filled
<1>20. Listing'
  <2>1. \A r \in Listed' : r \in Listed \/ r = s
    BY <1>10, <1>13 DEF Listed
  <2>2. \A r \in Listed : Prompted(r) /\ r \in Seqs
    BY MembersFacts DEF VInv, Listing, Listed, VTypes
  <2>3. \A r \in Listed' : Prompted(r)'
    BY <2>1, <2>2, <1>6, <1>8, <1>11 DEF Prompted
  <2> QED BY <2>3, <1>10 DEF VInv, Listing
<1>21. Listeds'
  <2>1. /\ \A r \in Members(pres) \cup Members(ones) \cup Members(decs) : seq'[r] = seq[r]
    BY <1>11, <1>17 DEF VInv, Listing
  <2>2. \A i \in 1..Len(post) : PostOK(post[i][1]) /\ post[i][1] \in Seqs
    BY PostFacts
  <2>3. \A i \in 1..Len(post) : seq'[post[i][1]] = seq[post[i][1]]
    BY <2>2, <1>4, <1>11 DEF PostOK, Prompted
  <2>4. \A i \in 1..Len(post) : PostOK(post[i][1])'
    BY <2>2, <2>3, <1>10 DEF PostOK, Prompted
  <2> QED BY <2>1, <2>4, <1>10 DEF VInv, Listeds, FillsOK, OnesOK, DecsOK
<1>22. PagesCovered'
  <2> SUFFICES ASSUME NEW x \in Pages PROVE Holders(x)' <= ref'[x]
    BY DEF PagesCovered
  <2>1. Holders(x)' = Cardinality(Listers(entries, x)) + Cardinality(Keepers(seq', x))
    BY <1>10, HoldersNext DEF VInv, VTypes
  <2>2. Holders(x) = Cardinality(Listers(entries, x)) + Cardinality(Keepers(seq, x))
    BY HoldersFacts DEF VInv
  <2>3. /\ Cardinality(Keepers(seq, x)) \in Nat /\ Cardinality(Keepers(seq', x)) \in Nat
        /\ Cardinality(Keepers(seq', x)) + Held(seq[s].handle, x)
             = Cardinality(Keepers(seq, x)) + Held(seq'[s].handle, x)
    <3>1. PICK f, g : f = seq /\ g = seq'
      OBVIOUS
    <3>2. Elsewhere(f, g, s)
      BY <3>1, <1>11 DEF Elsewhere
    <3>3. /\ Cardinality(Keepers(f, x)) \in Nat /\ Cardinality(Keepers(g, x)) \in Nat
          /\ Cardinality(Keepers(g, x)) + Held(f[s].handle, x)
               = Cardinality(Keepers(f, x)) + Held(g[s].handle, x)
      BY <3>2, KeepersExcept
    <3> QED BY <3>1, <3>3
  <2>4. Held(seq[s].handle, x) = 0
    BY <1>4, NoMembers DEF NewSequence, Held
  <2>5. Cardinality(Listers(entries, x)) \in Nat
    BY ListersFinite DEF VInv, VTypes
  <2>6. Holders(x) <= ref[x] /\ ref[x] \in Nat
    BY DEF VInv, PagesCovered, VTypes
  <2>7. Held(seq'[s].handle, x) = Held(e.pages, x) /\ Held(e.pages, x) \in {0, 1}
    BY <1>8, <1>11 DEF Held
  <2>8. Cardinality(Keepers(seq', x)) = Cardinality(Keepers(seq, x)) + Held(e.pages, x)
    BY <2>3, <2>4, <2>7
  <2> QED BY <2>1, <2>2, <2>3, <2>5, <2>6, <2>7, <2>8, <1>12
<1> QED BY <1>14, <1>15, <1>16, <1>18, <1>19, <1>20, <1>21, <1>22 DEF VInv

\* The prompt, the output and the position of a sequence stay as they are.
SameText(r) ==
  seq'[r].prompt = seq[r].prompt /\ seq'[r].out = seq[r].out /\ seq'[r].cached = seq[r].cached

\* What depends on them only.
LEMMA SameTextFacts ==
  ASSUME NEW r, SameText(r)
  PROVE  /\ Behind(r) => Behind(r)'
         /\ FillsOK(r) => FillsOK(r)'
         /\ OnesOK(r) => OnesOK(r)'
         /\ DecsOK(r) => DecsOK(r)'
         /\ Prompted(r) => Prompted(r)'
         /\ PostOK(r) /\ ~seq'[r].pending => PostOK(r)'
         /\ Len(seq[r].prompt) <= seq[r].cached => Len(seq'[r].prompt) <= seq'[r].cached
  BY DEF SameText, Behind, FillsOK, OnesOK, DecsOK, PostOK, Prompted

\* Some sequences are marked finished; the lists of the iteration lose members at most.
LEMMA MarkKeeps ==
  ASSUME VInv, NEW f \in [Seqs -> BOOLEAN], \A r \in Seqs : seq[r].fin => f[r],
         \A r \in Seqs : f[r] => seq[r].fin \/ Prompted(r),
         seq' = [r \in Seqs |-> [seq[r] EXCEPT !.fin = f[r]]]
  PROVE  /\ seq' \in [Seqs -> SeqRecs] /\ SeqsOK'
         /\ \A r \in Seqs : SameText(r) /\ seq'[r].handle = seq[r].handle /\ seq'[r].fin = f[r]
         /\ \A r \in Seqs : seq'[r].pending = seq[r].pending
<1>1. seq \in [Seqs -> SeqRecs] /\ \A r \in Seqs : SeqOK(seq[r])
  BY DEF VInv, VTypes, SeqsOK
<1> DEFINE u(r) == [seq[r] EXCEPT !.fin = f[r]]
<1>2. ASSUME NEW r \in Seqs
      PROVE  /\ u(r) \in SeqRecs /\ SeqOK(u(r)) /\ u(r).prompt = seq[r].prompt /\ u(r).out = seq[r].out
             /\ u(r).cached = seq[r].cached /\ u(r).handle = seq[r].handle /\ u(r).fin = f[r]
             /\ u(r).pending = seq[r].pending
  <2>1. PICK q \in SeqRecs, b \in BOOLEAN : q = seq[r] /\ b = f[r]
    BY <1>1
  <2>2. q.fin => b
    BY <2>1
  <2>3. PICK v : v = [q EXCEPT !.fin = b]
    OBVIOUS
  <2>4. /\ v \in SeqRecs /\ v.prompt = q.prompt /\ v.out = q.out /\ v.cached = q.cached
        /\ v.handle = q.handle /\ v.fin = b /\ v.pending = q.pending /\ v.hlen = q.hlen
        /\ v.heard = q.heard /\ v.hit = q.hit /\ (b = q.fin => v = q)
    BY <2>3 DEF SeqRecs
  <2>5. q.prompt = <<>> => v = q
    <3> SUFFICES ASSUME q.prompt = <<>> PROVE v = q
      OBVIOUS
    <3>1. b => q.fin
      BY <2>1 DEF Prompted
    <3>2. b = q.fin
      <4>1. b \in BOOLEAN /\ q.fin \in BOOLEAN
        BY DEF SeqRecs
      <4> QED BY <4>1, <3>1, <2>2
    <3> QED BY <3>2, <2>4
  <2>6. SeqOK(q)
    BY <2>1, <1>1
  <2>7. SeqOK(v)
    BY <2>4, <2>5, <2>6 DEF SeqOK
  <2> QED BY <2>1, <2>3, <2>4, <2>7
<1>3. seq' = [r \in Seqs |-> u(r)]
  OBVIOUS
<1> HIDE DEF u
<1>4. \A r \in Seqs : seq'[r] = u(r)
  BY <1>3
<1>5. seq' \in [Seqs -> SeqRecs]
  BY <1>2, <1>3
<1> QED BY <1>2, <1>4, <1>5 DEF SeqsOK, SameText

\* The end of a sequence: it is off the queues, so its pages and its slot stay.
LEMMA FinishFacts ==
  ASSUME VInv, NEW s \in Seqs, Prompted(s), Finish(s)
  PROVE  /\ UNCHANGED <<ref, page, slot>>
         /\ waiting' \in Seq(Seqs) /\ running' \in Seq(Seqs) /\ Len(running') <= Len(running)
         /\ Len(running') \in Nat
         /\ Members(waiting') = Members(waiting) \ {s} /\ Members(running') = Members(running) \ {s}
         /\ seq' \in [Seqs -> SeqRecs] /\ SeqsOK'
         /\ seq' = [seq EXCEPT ![s].fin = TRUE]
         /\ \A r \in Seqs : SameText(r) /\ seq'[r].handle = seq[r].handle
         /\ \A r \in Seqs : seq'[r].fin = (r = s \/ seq[r].fin) /\ seq'[r].pending = seq[r].pending
<1>1. /\ waiting \in Seq(Seqs) /\ running \in Seq(Seqs) /\ seq \in [Seqs -> SeqRecs]
  BY DEF VInv, VTypes
<1>2. /\ waiting' \in Seq(Seqs) /\ running' \in Seq(Seqs) /\ Len(running') <= Len(running)
      /\ Len(running') \in Nat
      /\ Members(waiting') = Members(waiting) \ {s} /\ Members(running') = Members(running) \ {s}
  BY <1>1, WithoutFacts DEF Finish
<1>3. ~StillQueued(s, Members(waiting') \cup Members(running'))
  BY <1>2 DEF StillQueued
<1>4. seq' = [seq EXCEPT ![s].fin = TRUE] /\ UNCHANGED <<ref, page, slot>>
  BY <1>3 DEF Finish
<1> DEFINE f == [r \in Seqs |-> (r = s \/ seq[r].fin)]
<1>5. \A r \in Seqs : seq[r] \in SeqRecs /\ seq[r].fin \in BOOLEAN
  BY <1>1 DEF SeqRecs
<1>6. f \in [Seqs -> BOOLEAN] /\ \A r \in Seqs : f[r] = (r = s \/ seq[r].fin)
  BY <1>5
<1>7. \A r \in Seqs : (seq[r].fin => f[r]) /\ (f[r] => seq[r].fin \/ Prompted(r))
  BY <1>6
<1>8. seq' = [r \in Seqs |-> [seq[r] EXCEPT !.fin = f[r]]]
  <2> DEFINE g == [r \in Seqs |-> [seq[r] EXCEPT !.fin = f[r]]]
             h == [seq EXCEPT ![s].fin = TRUE]
  <2>1. DOMAIN g = Seqs /\ DOMAIN h = Seqs
    BY <1>1
  <2>2. ASSUME NEW r \in Seqs PROVE g[r] = h[r]
    <3>1. PICK q \in SeqRecs : q = seq[r]
      BY <1>5
    <3>2. g[r] = [q EXCEPT !.fin = f[r]]
      BY <3>1
    <3>3. CASE r = s
      <4>1. f[r] = TRUE
        BY <3>3, <1>6
      <4>2. h[r] = [q EXCEPT !.fin = TRUE]
        BY <3>1, <3>3, <1>1
      <4> QED BY <4>1, <4>2, <3>2
    <3>4. CASE r # s
      <4>1. f[r] = q.fin
        BY <3>1, <3>4, <1>5, <1>6
      <4>2. h[r] = q
        BY <3>1, <3>4, <1>1
      <4>3. [q EXCEPT !.fin = q.fin] = q
        BY DEF SeqRecs
      <4> QED BY <4>1, <4>2, <4>3, <3>2
    <3> QED BY <3>3, <3>4
  <2>3. g \in [Seqs -> {g[r] : r \in Seqs}] /\ h \in [Seqs -> {h[r] : r \in Seqs}]
    BY <1>1
  <2> HIDE DEF g, h
  <2>4. g = h
    BY <2>1, <2>2, <2>3
  <2> QED BY <2>4, <1>4 DEF g, h
<1> HIDE DEF f
<1>9. /\ seq' \in [Seqs -> SeqRecs] /\ SeqsOK'
      /\ \A r \in Seqs : SameText(r) /\ seq'[r].handle = seq[r].handle /\ seq'[r].fin = f[r]
      /\ \A r \in Seqs : seq'[r].pending = seq[r].pending
  BY <1>6, <1>7, <1>8, MarkKeeps
<1> QED BY <1>2, <1>4, <1>6, <1>9

\* A cancel or a deadline.
LEMMA CancelKeeps ==
  ASSUME VInv, NEW s \in Seqs, Cancel(s)
  PROVE  VInv'
<1>1. Prompted(s) /\ Finish(s)
  BY DEF Cancel
<1>2. UNCHANGED <<entries, step, batch, todo, pres, ones, decs, post>>
  BY DEF Cancel, work
<1>3. /\ UNCHANGED <<ref, page, slot>>
      /\ waiting' \in Seq(Seqs) /\ running' \in Seq(Seqs) /\ Len(running') <= Len(running)
      /\ Len(running') \in Nat
      /\ Members(waiting') = Members(waiting) \ {s} /\ Members(running') = Members(running) \ {s}
      /\ seq' \in [Seqs -> SeqRecs] /\ SeqsOK'
      /\ \A r \in Seqs : SameText(r) /\ seq'[r].handle = seq[r].handle
      /\ \A r \in Seqs : seq'[r].fin = (r = s \/ seq[r].fin) /\ seq'[r].pending = seq[r].pending
  BY <1>1, FinishFacts
<1>4. VTypes'
  BY <1>2, <1>3 DEF VInv, VTypes
<1>5. EntriesOK'
  BY <1>2 DEF VInv, EntriesOK
<1>6. \A r \in Seqs : ~seq'[r].fin => ~seq[r].fin
  BY <1>3
<1>7. Behinds'
  <2> SUFFICES ASSUME NEW r \in Seqs, ~seq'[r].fin, Waits(r)' PROVE Behind(r)'
    BY DEF Behinds
  <2>1. Waits(r)
    BY <1>2 DEF Waits
  <2> QED BY <2>1, <1>3, <1>6, SameTextFacts DEF VInv, Behinds
<1>8. Filled'
  <2> SUFFICES ASSUME NEW r \in Seqs, ~seq'[r].fin, ~Waits(r)'
               PROVE  \/ r \in Members(pres) \cup Members(ones) \cup Members(decs)
                      \/ Len(seq'[r].prompt) <= seq'[r].cached
    BY <1>2 DEF Filled
  <2>1. ~Waits(r)
    BY <1>2 DEF Waits
  <2> QED BY <2>1, <1>3, <1>6, SameTextFacts DEF VInv, Filled
<1>9. \A r \in Listed : r \in Seqs /\ Prompted(r)
  BY MembersFacts DEF VInv, Listing, Listed, VTypes
<1>10. Listing'
  <2>1. \A r \in Listed' : Prompted(r)'
    BY <1>2, <1>3, <1>9, SameTextFacts DEF Listed
  <2>2. Len(running') <= MaxBatch
    BY <1>3, Constants DEF VInv, Listing, VTypes
  <2> QED BY <2>1, <2>2, <1>2 DEF VInv, Listing
<1>11. Listeds'
  <2>1. \A r \in Members(pres) \cup Members(ones) \cup Members(decs) : r \in Seqs
    BY MembersFacts DEF VInv, VTypes
  <2>2. \A i \in 1..Len(post) : PostOK(post[i][1]) /\ post[i][1] \in Seqs
    BY PostFacts
  <2>3. \A i \in 1..Len(post) : ~seq'[post[i][1]].pending
    BY <2>2, <1>3 DEF PostOK
  <2>4. ASSUME NEW i \in 1..Len(post) PROVE PostOK(post[i][1])'
    <3>1. PICK r \in Seqs : r = post[i][1]
      BY <2>2
    <3>2. PostOK(r) /\ ~seq'[r].pending /\ SameText(r)
      BY <3>1, <2>2, <2>3, <1>3
    <3>3. PostOK(r)'
      BY <3>2, SameTextFacts
    <3>4. post'[i][1] = r
      BY <3>1, <1>2
    <3> QED BY <3>3, <3>4 DEF PostOK, Prompted
  <2> QED BY <2>1, <2>4, <1>2, <1>3, SameTextFacts DEF VInv, Listeds
<1>12. PagesCovered'
  BY <1>2, <1>3, CoveredStep DEF VInv
<1> QED BY <1>3, <1>4, <1>5, <1>7, <1>8, <1>10, <1>11, <1>12 DEF VInv

-----------------------------------------------------------------------------
(* The steps keep the invariant: the lists of an iteration                   *)

\* A step that leaves the sequences, the slots and the pages alone.
LEMMA SameData ==
  ASSUME VInv, UNCHANGED <<entries, ref, page, slot, seq>>
  PROVE  /\ EntriesOK' /\ SeqsOK' /\ PagesCovered'
         /\ \A r \in Seqs : SameText(r) /\ seq'[r] = seq[r]
         /\ \A r \in Seqs : /\ Behind(r) => Behind(r)'
                            /\ FillsOK(r) => FillsOK(r)'
                            /\ OnesOK(r) => OnesOK(r)'
                            /\ DecsOK(r) => DecsOK(r)'
                            /\ Prompted(r) => Prompted(r)'
<1>1. EntriesOK' /\ SeqsOK'
  BY DEF VInv, EntriesOK, SeqsOK
<1>2. PagesCovered'
  BY CoveredStep DEF VInv
<1>3. \A r \in Seqs : SameText(r) /\ seq'[r] = seq[r]
  BY DEF SameText
<1> QED BY <1>1, <1>2, <1>3, SameTextFacts

\* The members of the lists are sequences, and the lists of an iteration come from the batch.
LEMMA ListFacts ==
  ASSUME VInv
  PROVE  /\ Listed \subseteq Seqs /\ \A r \in Listed : Prompted(r)
         /\ Members(todo) \subseteq Members(batch) /\ Members(pres) \subseteq Members(batch)
         /\ Members(ones) \subseteq Members(batch) /\ Members(decs) \subseteq Members(batch)
         /\ Members(batch) \subseteq Listed
  BY MembersFacts DEF VInv, VTypes, Listing, Listed

\* The batch of an iteration: the running sequences, then the first of the waiting ones.
LEMMA ScheduleFacts ==
  ASSUME VInv, Schedule
  PROVE  \E n \in 0..Len(waiting) : \E b \in Seq(Seqs) :
           /\ batch' = b /\ running' = b /\ todo' = b
           /\ waiting' = SubSeq(waiting, n + 1, Len(waiting))
           /\ Members(b) = Members(running) \cup Members(SubSeq(waiting, 1, n))
           /\ Len(b) <= MaxBatch
<1>2. step = "idle" /\ step' = "classify" /\ waiting \in Seq(Seqs) /\ running \in Seq(Seqs)
  BY DEF Schedule, VInv, VTypes
<1>3. /\ batch = <<>> /\ pres = <<>> /\ ones = <<>> /\ decs = <<>> /\ post = <<>>
      /\ Len(running) <= MaxBatch
  BY <1>2 DEF VInv, Listing
<1>4. PICK room : room = MaxBatch - Len(running)
  OBVIOUS
<1>5. PICK n \in 0..Len(waiting) :
        /\ n <= MaxBatch - Len(running)
        /\ n = IF Len(waiting) < room THEN Len(waiting) ELSE room
  <2>1. Len(waiting) \in Nat /\ Len(running) \in Nat /\ MaxBatch \in Nat
    BY <1>2, Constants
  <2> QED BY <2>1, <1>3, <1>4
<1>6. PICK a \in Seq(Seqs) : /\ a = SubSeq(waiting, 1, n) /\ Len(a) = n
                             /\ Members(a) \subseteq Members(waiting)
  BY <1>2, MembersSplit
<1>7. PICK b \in Seq(Seqs) : /\ b = running \o a /\ Len(b) = Len(running) + n
                             /\ Members(b) = Members(running) \cup Members(a)
  <2>1. PICK q \in Seq(Seqs) : q = running
    BY <1>2
  <2>2. q \o a \in Seq(Seqs) /\ Len(q \o a) = Len(q) + Len(a) /\ Members(q \o a) = Members(q) \cup Members(a)
    BY MembersConcat
  <2> QED BY <2>1, <2>2, <1>6
<1>8. /\ batch' = b /\ running' = b /\ todo' = b
      /\ waiting' = SubSeq(waiting, n + 1, Len(waiting))
  <2> DEFINE k == IF Len(waiting) < MaxBatch - Len(running) THEN Len(waiting)
                  ELSE MaxBatch - Len(running)
             c == running \o SubSeq(waiting, 1, k)
  <2>1. /\ batch' = c /\ running' = c /\ todo' = c
        /\ waiting' = SubSeq(waiting, k + 1, Len(waiting))
    BY DEF Schedule
  <2>2. k = n
    BY <1>4, <1>5
  <2> HIDE DEF k
  <2>3. c = b
    BY <2>2, <1>6, <1>7
  <2> QED BY <2>1, <2>2, <2>3
<1>9. Len(b) <= MaxBatch
  BY <1>2, <1>3, <1>5, <1>7, Constants
<1> QED BY <1>6, <1>7, <1>8, <1>9

\* form_batch.
LEMMA ScheduleKeeps ==
  ASSUME VInv, Schedule
  PROVE  VInv'
<1>1. UNCHANGED <<entries, ref, page, slot, seq, pres, ones, decs, post>>
  BY DEF Schedule
<1>2. step = "idle" /\ step' = "classify" /\ waiting \in Seq(Seqs) /\ running \in Seq(Seqs)
  BY DEF Schedule, VInv, VTypes
<1>3. /\ batch = <<>> /\ pres = <<>> /\ ones = <<>> /\ decs = <<>> /\ post = <<>>
      /\ Len(running) <= MaxBatch
  BY <1>2 DEF VInv, Listing
<1>4. PICK n \in 0..Len(waiting), b \in Seq(Seqs) :
        /\ batch' = b /\ running' = b /\ todo' = b
        /\ waiting' = SubSeq(waiting, n + 1, Len(waiting))
        /\ Members(b) = Members(running) \cup Members(SubSeq(waiting, 1, n))
        /\ Len(b) <= MaxBatch
  BY ScheduleFacts
<1>5. Members(b) \subseteq Members(running) \cup Members(waiting)
  BY <1>2, <1>4, MembersSplit
<1>8. batch' = b /\ running' = b /\ todo' = b
  BY <1>4
<1>9. waiting' \in Seq(Seqs) /\ Members(waiting') \subseteq Members(waiting)
  BY <1>2, <1>4, MembersSplit
<1>10. Len(b) <= MaxBatch
  BY <1>4
<1>11. VTypes'
  BY <1>1, <1>2, <1>8, <1>9 DEF VInv, VTypes
<1>12. /\ EntriesOK' /\ SeqsOK' /\ PagesCovered'
       /\ \A r \in Seqs : seq'[r] = seq[r] /\ (Behind(r) => Behind(r)') /\ (Prompted(r) => Prompted(r)')
  BY <1>1, SameData
<1>13. Behinds'
  <2>1. \A r : Waits(r)
    BY <1>3, NoMembers DEF Waits
  <2> QED BY <2>1, <1>12 DEF VInv, Behinds
<1>14. Filled'
  <2>1. \A r : Waits(r)'
    BY <1>2, <1>8 DEF Waits
  <2> QED BY <2>1 DEF Filled
<1>15. Listing'
  <2>1. Listed' \subseteq Listed
    BY <1>5, <1>8, <1>9 DEF Listed
  <2>2. \A r \in Listed' : Prompted(r)'
    BY <2>1, <1>12, ListFacts
  <2>3. Len(todo') + Len(pres') + Len(decs') <= MaxBatch
    BY <1>1, <1>3, <1>8, <1>10, Constants
  <2> QED BY <2>2, <2>3, <1>1, <1>2, <1>3, <1>8, <1>10, NoMembers DEF Listing
<1>16. Listeds'
  BY <1>1, <1>3, NoMembers DEF Listeds
<1> QED BY <1>11, <1>12, <1>13, <1>14, <1>15, <1>16 DEF VInv

\* What a visit of a member does to the lists.
LEMMA VisitedFacts ==
  ASSUME VInv, Visited
  PROVE  /\ UNCHANGED <<entries, ref, page, waiting, running, step, batch, ones, post>>
         /\ step = "classify" /\ todo # <<>> /\ ones = <<>> /\ post = <<>>
         /\ Head(todo) \in Seqs /\ Head(todo) \in Members(batch) /\ Head(todo) \in Members(todo)
         /\ todo' \in Seq(Seqs) /\ Len(todo') + 1 = Len(todo) /\ Len(todo') \in Nat
         /\ Members(todo) = {Head(todo)} \cup Members(todo')
         /\ \A r : Waits(r)' => Waits(r)
         /\ \A r : ~Waits(r)' /\ r # Head(todo) => ~Waits(r)
<1>1. /\ UNCHANGED <<entries, ref, page, waiting, running, step, batch, ones, post>>
      /\ step = "classify" /\ todo # <<>> /\ todo' = Tail(todo) /\ todo \in Seq(Seqs)
  BY DEF Visited, queues, VInv, VTypes
<1>2. ones = <<>> /\ post = <<>>
  BY <1>1 DEF VInv, Listing
<1>3. /\ Head(todo) \in Seqs /\ todo' \in Seq(Seqs) /\ Len(todo') = Len(todo) - 1
      /\ Members(todo) = {Head(todo)} \cup Members(todo')
  BY <1>1, HeadTail
<1>4. Head(todo) \in Members(batch)
  BY <1>3, ListFacts
<1>5. /\ \A r : Waits(r)' => Waits(r)
      /\ \A r : ~Waits(r)' /\ r # Head(todo) => ~Waits(r)
  BY <1>1, <1>3 DEF Waits
<1>6. Len(todo) \in Nat /\ Len(todo') \in Nat
  BY <1>1, <1>3
<1> QED BY <1>1, <1>2, <1>3, <1>4, <1>5, <1>6

\* A finished member is passed over.
LEMMA SkipFinishedKeeps ==
  ASSUME VInv, SkipFinished
  PROVE  VInv'
<1>1. /\ Visited /\ UNCHANGED <<slot, seq, pres, decs>>
      /\ seq[Head(todo)].fin
  BY DEF SkipFinished
<1>2. /\ UNCHANGED <<entries, ref, page, waiting, running, step, batch, ones, post>>
      /\ step = "classify" /\ todo # <<>> /\ ones = <<>> /\ post = <<>>
      /\ todo' \in Seq(Seqs) /\ Len(todo') + 1 = Len(todo) /\ Len(todo') \in Nat
      /\ Members(todo) = {Head(todo)} \cup Members(todo')
      /\ \A r : Waits(r)' => Waits(r)
      /\ \A r : ~Waits(r)' /\ r # Head(todo) => ~Waits(r)
  BY <1>1, VisitedFacts
<1>3. VTypes'
  BY <1>1, <1>2 DEF VInv, VTypes
<1>4. /\ EntriesOK' /\ SeqsOK' /\ PagesCovered'
      /\ \A r \in Seqs : /\ seq'[r] = seq[r] /\ (Behind(r) => Behind(r)') /\ (Prompted(r) => Prompted(r)')
                         /\ (FillsOK(r) => FillsOK(r)') /\ (DecsOK(r) => DecsOK(r)')
  BY <1>1, <1>2, SameData
<1>5. Behinds'
  BY <1>2, <1>4 DEF VInv, Behinds
<1>6. Filled'
  BY <1>1, <1>2, <1>4 DEF VInv, Filled
<1>7. Listing'
  <2>1. Listed' = Listed
    BY <1>2 DEF Listed
  <2>2. \A r \in Listed' : Prompted(r)'
    BY <2>1, <1>4, ListFacts
  <2>3. Len(todo') + Len(pres') + Len(decs') <= MaxBatch
    <3>1. Len(todo) + Len(pres) + Len(decs) <= MaxBatch
      BY <1>2 DEF VInv, Listing
    <3>2. Len(pres) \in Nat /\ Len(decs) \in Nat /\ MaxBatch \in Nat
      BY Constants DEF VInv, VTypes
    <3> QED BY <3>1, <3>2, <1>1, <1>2
  <2> QED BY <2>2, <2>3, <1>1, <1>2 DEF VInv, Listing
<1>8. Listeds'
  <2>1. \A r \in Members(pres) \cup Members(decs) : r \in Seqs
    BY ListFacts
  <2> QED BY <2>1, <1>1, <1>2, <1>4, NoMembers DEF VInv, Listeds
<1> QED BY <1>3, <1>4, <1>5, <1>6, <1>7, <1>8 DEF VInv

\* An exact hit: its slot is restored now.
LEMMA ExactHitKeeps ==
  ASSUME VInv, ExactHit
  PROVE  VInv'
<1>1. Visited /\ UNCHANGED <<pres, decs>>
  BY DEF ExactHit
<1>2. PICK s \in Seqs : s = Head(todo)
  BY <1>1, VisitedFacts
<1>3. /\ UNCHANGED <<entries, ref, page, waiting, running, step, batch, ones, post>>
      /\ step = "classify" /\ todo # <<>> /\ ones = <<>> /\ post = <<>>
      /\ s \in Members(batch) /\ s \in Members(todo)
      /\ todo' \in Seq(Seqs) /\ Len(todo') + 1 = Len(todo) /\ Len(todo') \in Nat
      /\ Members(todo) = {s} \cup Members(todo')
      /\ \A r : Waits(r)' => Waits(r)
      /\ \A r : ~Waits(r)' /\ r # s => ~Waits(r)
  BY <1>1, <1>2, VisitedFacts
<1>4. Exact(s) /\ slot' = [slot EXCEPT ![0] = EnsureRestored(s, slot[0])]
  BY <1>2 DEF ExactHit
<1>5. PICK b \in BOOLEAN : b = NeedsStage(s)
  BY DEF NeedsStage
<1>6. PICK q \in SeqRecs : q = seq[s] /\ SeqOK(q)
  BY DEF VInv, VTypes, SeqsOK
<1> DEFINE u == [q EXCEPT !.need = b, !.pending = FALSE, !.prepared = TRUE]
<1>7. seq' = [seq EXCEPT ![s] = u]
  BY <1>2, <1>5, <1>6 DEF ExactHit
<1>8. /\ u \in SeqRecs /\ u.prompt = q.prompt /\ u.out = q.out /\ u.cached = q.cached
      /\ u.heard = q.heard /\ u.handle = q.handle /\ u.hlen = q.hlen /\ u.hit = q.hit
      /\ ~u.pending /\ u.fin = q.fin
  <2>1. FALSE \in BOOLEAN /\ TRUE \in BOOLEAN
    OBVIOUS
  <2> QED BY <2>1 DEF SeqRecs
<1> HIDE DEF u
<1>9. /\ seq \in [Seqs -> SeqRecs] /\ seq' \in [Seqs -> SeqRecs]
      /\ seq'[s] = u /\ \A r \in Seqs \ {s} : seq'[r] = seq[r]
  BY <1>7, <1>8 DEF VInv, VTypes
<1>10. \A r \in Seqs : SameText(r) /\ seq'[r].handle = seq[r].handle /\ seq'[r].fin = seq[r].fin
  BY <1>6, <1>8, <1>9 DEF SameText
<1>11. slot' \in [Slots -> SlotRecs]
  <2>1. slot \in [Slots -> SlotRecs] /\ slot[0] \in SlotRecs
    BY Constants DEF VInv, VTypes
  <2>2. EnsureRestored(s, slot[0]) \in SlotRecs
    BY <2>1, <1>6, ReadyTyped DEF VInv, VTypes
  <2> QED BY <2>1, <2>2, <1>4
<1>12. VTypes'
  BY <1>1, <1>3, <1>9, <1>11 DEF VInv, VTypes
<1>13. EntriesOK'
  BY <1>3 DEF VInv, EntriesOK
<1>14. SeqsOK'
  <2>1. q.prompt # <<>>
    BY <1>3, <1>6, ListFacts DEF Prompted
  <2>2. SeqOK(u)
    BY <2>1, <1>6, <1>8 DEF SeqOK
  <2> QED BY <2>2, <1>9 DEF VInv, SeqsOK
<1>15. PagesCovered'
  BY <1>3, <1>10, CoveredStep DEF VInv
<1>16. Behinds'
  BY <1>3, <1>10, SameTextFacts DEF VInv, Behinds
<1>17. Filled'
  <2> SUFFICES ASSUME NEW r \in Seqs, ~seq'[r].fin, ~Waits(r)'
               PROVE  \/ r \in Members(pres) \cup Members(ones) \cup Members(decs)
                      \/ Len(seq'[r].prompt) <= seq'[r].cached
    BY <1>1, <1>3 DEF Filled
  <2>1. CASE r = s
    <3>1. seq[s].cached >= Len(seq[s].prompt)
      BY <1>4 DEF Exact
    <3>2. Len(seq[s].prompt) \in Nat /\ seq[s].cached \in Nat
      <4>1. q.prompt \in Histories /\ q.cached \in Nat
        BY HistoryFacts DEF SeqRecs
      <4> QED BY <4>1, <1>6, HistoryFacts
    <3>3. Len(seq[s].prompt) <= seq[s].cached
      BY <3>1, <3>2
    <3> QED BY <3>3, <2>1, <1>10 DEF SameText
  <2>2. CASE r # s
    BY <2>2, <1>3, <1>10, SameTextFacts DEF VInv, Filled
  <2> QED BY <2>1, <2>2
<1>18. Listing'
  <2>1. Listed' = Listed
    BY <1>3 DEF Listed
  <2>2. \A r \in Listed' : Prompted(r)'
    BY <2>1, <1>10, ListFacts, SameTextFacts
  <2>3. Len(todo') + Len(pres') + Len(decs') <= MaxBatch
    <3>1. Len(todo) + Len(pres) + Len(decs) <= MaxBatch
      BY <1>3 DEF VInv, Listing
    <3>2. Len(pres) \in Nat /\ Len(decs) \in Nat /\ MaxBatch \in Nat
      BY Constants DEF VInv, VTypes
    <3> QED BY <3>1, <3>2, <1>1, <1>3
  <2> QED BY <2>2, <2>3, <1>1, <1>3 DEF VInv, Listing
<1>19. Listeds'
  <2>1. \A r \in Members(pres) \cup Members(decs) : r \in Seqs
    BY ListFacts
  <2> QED BY <2>1, <1>1, <1>3, <1>10, SameTextFacts, NoMembers DEF VInv, Listeds
<1> QED BY <1>12, <1>13, <1>14, <1>15, <1>16, <1>17, <1>18, <1>19 DEF VInv

\* The other members go to the prefill or to the decode list.
LEMMA ClassifyKeeps ==
  ASSUME VInv, Classify
  PROVE  VInv'
<1>1. Visited /\ UNCHANGED <<slot, seq>>
  BY DEF Classify
<1>2. PICK s \in Seqs : s = Head(todo)
  BY <1>1, VisitedFacts
<1>3. /\ UNCHANGED <<entries, ref, page, waiting, running, step, batch, ones, post>>
      /\ step = "classify" /\ todo # <<>> /\ ones = <<>> /\ post = <<>>
      /\ s \in Members(batch) /\ s \in Members(todo)
      /\ todo' \in Seq(Seqs) /\ Len(todo') + 1 = Len(todo) /\ Len(todo') \in Nat
      /\ Members(todo) = {s} \cup Members(todo')
      /\ \A r : Waits(r)' => Waits(r)
      /\ \A r : ~Waits(r)' /\ r # s => ~Waits(r)
  BY <1>1, <1>2, VisitedFacts
<1> DEFINE fill == seq[s].cached < Len(seq[s].prompt)
<1>5. /\ ~seq[s].fin /\ ~Exact(s)
      /\ pres' = IF fill THEN Append(pres, s) ELSE pres
      /\ decs' = IF fill THEN decs ELSE Append(decs, s)
  BY <1>2 DEF Classify
<1>6. PICK q \in SeqRecs : q = seq[s] /\ SeqOK(q)
  BY DEF VInv, VTypes, SeqsOK
<1>7. PICK c \in Nat, n \in Nat : c = q.cached /\ n = Len(q.prompt) /\ n > 0
  <2>1. q.prompt \in Prompts /\ q.cached \in Nat
    BY <1>3, <1>6, ListFacts DEF Prompted, SeqRecs, AnyPrompt
  <2> QED BY <2>1, HistoryFacts
<1>8. Behind(s)
  <2>1. Waits(s)
    BY <1>3 DEF Waits
  <2> QED BY <2>1, <1>5 DEF VInv, Behinds
<1>9. fill => FillsOK(s)
  <2>1. q.out # <<>> => n <= c
    BY <1>6, <1>7 DEF SeqOK
  <2> QED BY <2>1, <1>6, <1>7 DEF FillsOK
<1>10. ~fill => DecsOK(s)
  <2> SUFFICES ASSUME ~fill PROVE DecsOK(s)
    OBVIOUS
  <2>1. c >= n /\ c > 0
    BY <1>6, <1>7
  <2>2. q.heard # <<>>
    BY <2>1, <1>6, <1>7 DEF SeqOK
  <2>3. q.out # <<>>
    BY <2>1, <2>2, <1>5, <1>6, <1>7 DEF Exact
  <2> QED BY <2>3, <1>6, <1>8 DEF Behind, DecsOK
<1> HIDE DEF fill
<1>11. /\ pres \in Seq(Seqs) /\ decs \in Seq(Seqs)
       /\ pres' \in Seq(Seqs) /\ decs' \in Seq(Seqs)
       /\ Members(pres') = Members(pres) \cup (IF fill THEN {s} ELSE {})
       /\ Members(decs') = Members(decs) \cup (IF fill THEN {} ELSE {s})
       /\ Len(pres') + Len(decs') = Len(pres) + Len(decs) + 1
       /\ Len(pres') \in Nat /\ Len(decs') \in Nat
  <2>1. pres \in Seq(Seqs) /\ decs \in Seq(Seqs) /\ Len(pres) \in Nat /\ Len(decs) \in Nat
    BY DEF VInv, VTypes
  <2>2. /\ Append(pres, s) \in Seq(Seqs) /\ Len(Append(pres, s)) = Len(pres) + 1
        /\ Members(Append(pres, s)) = Members(pres) \cup {s}
    BY <2>1, MembersAppend
  <2>3. /\ Append(decs, s) \in Seq(Seqs) /\ Len(Append(decs, s)) = Len(decs) + 1
        /\ Members(Append(decs, s)) = Members(decs) \cup {s}
    BY <2>1, MembersAppend
  <2>4. CASE fill
    <3>1. pres' = Append(pres, s) /\ decs' = decs
      BY <2>4, <1>5
    <3> QED BY <3>1, <2>1, <2>2, <2>4
  <2>5. CASE ~fill
    <3>1. pres' = pres /\ decs' = Append(decs, s)
      BY <2>5, <1>5
    <3> QED BY <3>1, <2>1, <2>3, <2>5
  <2> QED BY <2>4, <2>5
<1>12. VTypes'
  BY <1>1, <1>3, <1>11 DEF VInv, VTypes
<1>13. /\ EntriesOK' /\ SeqsOK' /\ PagesCovered'
       /\ \A r \in Seqs : /\ seq'[r] = seq[r] /\ (Behind(r) => Behind(r)') /\ (Prompted(r) => Prompted(r)')
                          /\ (FillsOK(r) => FillsOK(r)') /\ (DecsOK(r) => DecsOK(r)')
  BY <1>1, <1>3, SameData
<1>14. Behinds'
  BY <1>3, <1>13 DEF VInv, Behinds
<1>15. Filled'
  <2> SUFFICES ASSUME NEW r \in Seqs, ~seq'[r].fin, ~Waits(r)'
               PROVE  \/ r \in Members(pres') \cup Members(ones') \cup Members(decs')
                      \/ Len(seq'[r].prompt) <= seq'[r].cached
    BY DEF Filled
  <2>1. CASE r = s
    BY <2>1, <1>11
  <2>2. CASE r # s
    <3>1. \/ r \in Members(pres) \cup Members(ones) \cup Members(decs)
          \/ Len(seq[r].prompt) <= seq[r].cached
      BY <2>2, <1>3, <1>13 DEF VInv, Filled
    <3> QED BY <3>1, <1>3, <1>11, <1>13
  <2> QED BY <2>1, <2>2
<1>16. Listing'
  <2>1. Listed' = Listed
    BY <1>3 DEF Listed
  <2>2. \A r \in Listed' : Prompted(r)'
    BY <2>1, <1>13, ListFacts
  <2>3. Len(todo') + Len(pres') + Len(decs') <= MaxBatch
    <3>1. Len(todo) + Len(pres) + Len(decs) <= MaxBatch
      BY <1>3 DEF VInv, Listing
    <3>2. Len(pres) \in Nat /\ Len(decs) \in Nat /\ MaxBatch \in Nat
      BY Constants DEF VInv, VTypes
    <3> QED BY <3>1, <3>2, <1>3, <1>11
  <2>4. \A r \in Members(todo') \cup Members(pres') \cup Members(ones') \cup Members(decs') :
          r \in Members(batch')
    BY <1>3, <1>11, ListFacts
  <2>5. Len(running') <= MaxBatch /\ Len(batch') <= MaxBatch
    BY <1>3 DEF VInv, Listing
  <2> QED BY <2>2, <2>3, <2>4, <2>5, <1>3, NoMembers DEF Listing
<1>17. Listeds'
  <2>1. \A r \in Members(pres) \cup Members(decs) : r \in Seqs
    BY ListFacts
  <2>2. \A r \in Members(pres') : FillsOK(r)'
    BY <2>1, <1>9, <1>11, <1>13 DEF VInv, Listeds
  <2>3. \A r \in Members(decs') : DecsOK(r)'
    BY <2>1, <1>10, <1>11, <1>13 DEF VInv, Listeds
  <2> QED BY <2>2, <2>3, <1>3, NoMembers DEF Listeds
<1> QED BY <1>12, <1>13, <1>14, <1>15, <1>16, <1>17 DEF VInv

-----------------------------------------------------------------------------
(* The steps keep the invariant: the groups                                  *)

\* The lists after a group has been taken from them.
GroupTaken(g) ==
  /\ pres' \in Seq(Seqs) /\ ones' \in Seq(Seqs) /\ decs' \in Seq(Seqs)
  /\ Len(pres') <= Len(pres) /\ Len(decs') <= Len(decs)
  /\ Members(pres') \subseteq Members(pres) \ Members(g)
  /\ Members(decs') \subseteq Members(decs) \ Members(g)
  /\ Members(ones') \subseteq Members(ones)
  /\ Members(pres) \cup Members(ones) \cup Members(decs)
       \subseteq Members(pres') \cup Members(ones') \cup Members(decs') \cup Members(g)

\* A forward of a group, whichever list it comes from.
LEMMA ForwardKeeps ==
  ASSUME VInv, InGroups, NEW g, GroupFit(g), Members(g) \subseteq Members(batch), GroupTaken(g),
         slot' = GroupSlots(g), seq' = GroupSeqs(g), post' = WithSlots(g),
         UNCHANGED <<entries, ref, page, queues, step, batch, todo>>
  PROVE  VInv'
<1>1. /\ slot' \in [Slots -> SlotRecs] /\ seq' \in [Seqs -> SeqRecs]
      /\ \A r \in Seqs \ Members(g) : seq'[r] = seq[r]
      /\ \A r \in Members(g) : Fed(r, seq'[r])
      /\ post' \in Seq(Seqs \X Slots) /\ Len(post') = Len(g)
      /\ \A i \in 1..Len(g) : post'[i] = <<g[i], i - 1>>
  BY GroupFacts
<1>2. /\ UNCHANGED <<entries, ref, page, waiting, running, step, batch, todo>>
      /\ step = "classify" /\ todo = <<>> /\ post = <<>>
  BY DEF queues, InGroups
<1>3. /\ pres' \in Seq(Seqs) /\ ones' \in Seq(Seqs) /\ decs' \in Seq(Seqs)
  BY DEF GroupTaken
<1>4. Members(g) \subseteq Seqs /\ \A i \in 1..Len(g) : g[i] \in Members(g)
  BY MembersFacts DEF GroupFit
<1>5. VTypes'
  BY <1>1, <1>2, <1>3 DEF VInv, VTypes
<1>6. EntriesOK'
  BY <1>2 DEF VInv, EntriesOK
<1>7. ASSUME NEW r \in Members(g)
      PROVE  /\ SeqOK(seq'[r]) /\ seq'[r].handle = seq[r].handle /\ seq'[r].prompt = seq[r].prompt
             /\ seq'[r].out = seq[r].out /\ seq'[r].prompt # <<>> /\ ~seq'[r].pending
             /\ seq'[r].cached > 0 /\ Len(seq'[r].prompt) <= seq'[r].cached
             /\ (seq'[r].out = <<>> => seq'[r].cached = Len(seq'[r].prompt))
  <2>1. PICK q \in SeqRecs, v \in SeqRecs : q = seq[r] /\ v = seq'[r] /\ SeqOK(q) /\ Fed(r, v)
    BY <1>1, <1>4, <1>7 DEF VInv, VTypes, SeqsOK
  <2>2. /\ v.prompt = q.prompt /\ v.out = q.out /\ v.handle = q.handle /\ v.hlen = q.hlen
        /\ ~v.pending /\ v.cached > 0 /\ v.cached <= Len(v.prompt) + Len(v.out) /\ v.heard # <<>>
        /\ (v.out = <<>> => v.cached = Len(v.prompt)) /\ v.cached = q.cached + Len(NewTokens(r))
    BY <2>1 DEF Fed
  <2>3. q.prompt # <<>>
    BY <2>1, <1>7 DEF GroupFit, Fit, Prompted
  <2>4. Len(v.prompt) <= v.cached
    <3>1. Len(q.prompt) \in Nat /\ q.cached \in Nat /\ v.cached \in Nat
      <4>1. q.prompt \in Histories
        BY HistoryFacts DEF SeqRecs
      <4> QED BY <4>1, HistoryFacts DEF SeqRecs
    <3>2. CASE q.out = <<>>
      BY <3>1, <3>2, <2>2
    <3>3. CASE q.out # <<>>
      <4>1. Len(q.prompt) <= q.cached
        BY <3>3, <2>1 DEF SeqOK
      <4>2. Len(NewTokens(r)) = 1
        <5>1. seq[r].out # <<>>
          BY <3>3, <2>1
        <5> QED BY <5>1 DEF NewTokens
      <4> QED BY <4>1, <4>2, <3>1, <2>2
    <3> QED BY <3>2, <3>3
  <2>5. SeqOK(v)
    BY <2>1, <2>2, <2>3, <2>4 DEF SeqOK
  <2> QED BY <2>1, <2>2, <2>3, <2>4, <2>5
<1>8. SeqsOK'
  BY <1>1, <1>7 DEF VInv, SeqsOK
<1>9. PagesCovered'
  <2>1. \A r \in Seqs : seq'[r].handle = seq[r].handle
    BY <1>1, <1>7
  <2> QED BY <2>1, <1>2, CoveredStep DEF VInv
<1>10. \A r \in Seqs : Waits(r)' => r \notin Members(g) /\ Waits(r)
  BY <1>2, NoMembers DEF Waits
<1>11. Behinds'
  <2> SUFFICES ASSUME NEW r \in Seqs, ~seq'[r].fin, Waits(r)' PROVE Behind(r)'
    BY DEF Behinds
  <2>1. seq'[r] = seq[r] /\ Waits(r)
    BY <1>1, <1>10
  <2>2. Behind(r)
    BY <2>1 DEF VInv, Behinds
  <2> QED BY <2>1, <2>2 DEF Behind
<1>12. Filled'
  <2> SUFFICES ASSUME NEW r \in Seqs, ~seq'[r].fin, ~Waits(r)'
               PROVE  \/ r \in Members(pres') \cup Members(ones') \cup Members(decs')
                      \/ Len(seq'[r].prompt) <= seq'[r].cached
    BY DEF Filled
  <2>1. CASE r \in Members(g)
    BY <2>1, <1>7
  <2>2. CASE r \notin Members(g)
    <3>1. seq'[r] = seq[r] /\ ~Waits(r)
      BY <2>2, <1>1, <1>2 DEF Waits
    <3>2. \/ r \in Members(pres) \cup Members(ones) \cup Members(decs)
          \/ Len(seq[r].prompt) <= seq[r].cached
      BY <3>1 DEF VInv, Filled
    <3> QED BY <3>1, <3>2, <2>2 DEF GroupTaken
  <2> QED BY <2>1, <2>2
<1>13. \A r \in Seqs : Prompted(r) => Prompted(r)'
  BY <1>1, <1>7 DEF Prompted
<1>14. Listing'
  <2>1. Listed' = Listed
    BY <1>2 DEF Listed
  <2>2. \A r \in Listed' : Prompted(r)'
    BY <2>1, <1>13, ListFacts
  <2>3. Len(todo') + Len(pres') + Len(decs') <= MaxBatch
    <3>1. Len(todo) + Len(pres) + Len(decs) <= MaxBatch
      BY <1>2 DEF VInv, Listing
    <3>2. /\ Len(todo) \in Nat /\ Len(pres) \in Nat /\ Len(decs) \in Nat /\ MaxBatch \in Nat
          /\ Len(pres') \in Nat /\ Len(decs') \in Nat
      BY <1>3, Constants DEF VInv, VTypes
    <3>3. todo' = todo /\ Len(pres') <= Len(pres) /\ Len(decs') <= Len(decs)
      BY <1>2 DEF GroupTaken
    <3> QED BY <3>1, <3>2, <3>3
  <2>4. \A r \in Members(todo') \cup Members(pres') \cup Members(ones') \cup Members(decs') :
          r \in Members(batch')
    BY <1>2, ListFacts DEF GroupTaken
  <2>5. Len(running') <= MaxBatch /\ Len(batch') <= MaxBatch
    BY <1>2 DEF VInv, Listing
  <2>6. \A r \in Members(ones') : r \notin Members(pres')
    BY DEF GroupTaken, VInv, Listing
  <2> QED BY <2>2, <2>3, <2>4, <2>5, <2>6, <1>2 DEF Listing
<1>15. Listeds'
  <2>1. Members(pres) \cup Members(ones) \cup Members(decs) \subseteq Seqs
    BY ListFacts
  <2>2. \A r \in Members(pres') : FillsOK(r) /\ seq'[r] = seq[r]
    BY <2>1, <1>1 DEF GroupTaken, VInv, Listeds
  <2>3. \A r \in Members(decs') : DecsOK(r) /\ seq'[r] = seq[r]
    BY <2>1, <1>1 DEF GroupTaken, VInv, Listeds
  <2>4. ASSUME NEW r \in Members(ones') PROVE OnesOK(r)'
    <3>1. OnesOK(r) /\ r \in Seqs
      BY <2>1 DEF GroupTaken, VInv, Listeds
    <3>2. CASE r \in Members(g)
      <4>1. seq'[r].out = <<>> /\ seq'[r].cached = Len(seq'[r].prompt)
        BY <3>1, <3>2, <1>7 DEF OnesOK
      <4>2. seq'[r].cached \in Nat
        <5>1. seq'[r] \in SeqRecs
          BY <3>1, <1>1
        <5> QED BY <5>1 DEF SeqRecs
      <4> QED BY <4>1, <4>2 DEF OnesOK
    <3>3. CASE r \notin Members(g)
      BY <3>1, <3>3, <1>1 DEF OnesOK
    <3> QED BY <3>2, <3>3
  <2>5. ASSUME NEW i \in 1..Len(g) PROVE PostOK(post[i][1])'
    <3>1. PICK r \in Members(g) : r = g[i]
      BY <1>4
    <3>2. post'[i][1] = r
      BY <3>1, <1>1
    <3>3. PostOK(r)'
      BY <1>7 DEF PostOK, Prompted
    <3> QED BY <3>2, <3>3 DEF PostOK, Prompted
  <2>6. \A i \in 1..Len(post') : PostOK(post[i][1])'
    BY <2>5, <1>1
  <2>7. (\A r \in Members(pres') : FillsOK(r)') /\ (\A r \in Members(decs') : DecsOK(r)')
    BY <2>2, <2>3 DEF FillsOK, DecsOK
  <2> QED BY <2>4, <2>6, <2>7 DEF Listeds
<1> QED BY <1>5, <1>6, <1>8, <1>9, <1>11, <1>12, <1>14, <1>15 DEF VInv

\* The members of the first group of a list, and the rest of the list.
LEMMA FirstGroupFacts ==
  ASSUME NEW q \in Seq(Seqs)
  PROVE  /\ FirstGroup(q) \in Seq(Seqs) /\ Len(FirstGroup(q)) <= Len(q) /\ Len(FirstGroup(q)) \in Nat
         /\ AfterGroup(q) \in Seq(Seqs) /\ Len(AfterGroup(q)) <= Len(q) /\ Len(AfterGroup(q)) \in Nat
         /\ Members(FirstGroup(q)) \subseteq Members(q)
         /\ Members(AfterGroup(q)) = Members(q) \ Members(FirstGroup(q))
<1>1. /\ FirstGroup(q) \in Seq(Seqs) /\ Len(FirstGroup(q)) <= Len(q) /\ Len(FirstGroup(q)) \in Nat
      /\ Members(FirstGroup(q)) = Members(q) \cap Alike(q)
  BY KeptFacts DEF FirstGroup
<1>2. /\ AfterGroup(q) \in Seq(Seqs) /\ Len(AfterGroup(q)) <= Len(q) /\ Len(AfterGroup(q)) \in Nat
      /\ Members(AfterGroup(q)) = Members(q) \ Alike(q)
  BY WithoutFacts DEF AfterGroup
<1> QED BY <1>1, <1>2

\* Every list of prompts to fill, or of sequences to decode, may be forwarded.
LEMMA ListsFit ==
  ASSUME VInv
  PROVE  /\ \A r \in Members(pres) : Fit(r) /\ seq[r].out = <<>>
         /\ \A r \in Members(ones) : Fit(r) /\ seq[r].out = <<>>
         /\ \A r \in Members(decs) : Fit(r) /\ seq[r].out # <<>>
         /\ step = "classify" => Len(pres) <= MaxBatch /\ Len(decs) <= MaxBatch
<1>1. \A r \in Members(pres) \cup Members(ones) \cup Members(decs) : Prompted(r) /\ r \in Seqs
  BY ListFacts
<1>2. \A r \in Members(pres) : FillsOK(r)
  BY DEF VInv, Listeds
<1>3. \A r \in Members(ones) : OnesOK(r)
  BY DEF VInv, Listeds
<1>4. \A r \in Members(decs) : DecsOK(r)
  BY DEF VInv, Listeds
<1>5. \A r \in Seqs : Len(seq[r].prompt) \in Nat /\ seq[r].cached \in Nat
  <2> TAKE r \in Seqs
  <2>1. seq[r] \in SeqRecs
    BY DEF VInv, VTypes
  <2>2. seq[r].prompt \in Histories /\ seq[r].cached \in Nat
    BY <2>1, HistoryFacts DEF SeqRecs
  <2> QED BY <2>2, HistoryFacts
<1>6. step = "classify" => Len(pres) <= MaxBatch /\ Len(decs) <= MaxBatch
  <2>1. Len(todo) \in Nat /\ Len(pres) \in Nat /\ Len(decs) \in Nat /\ MaxBatch \in Nat
    BY Constants DEF VInv, VTypes
  <2>2. step = "classify" => Len(todo) + Len(pres) + Len(decs) <= MaxBatch
    BY DEF VInv, Listing
  <2> QED BY <2>1, <2>2
<1>7. \A r \in Members(pres) : seq[r].cached <= Len(seq[r].prompt)
  BY <1>1, <1>2, <1>5 DEF FillsOK
<1> QED BY <1>1, <1>2, <1>3, <1>4, <1>6, <1>7 DEF Fit, FillsOK, OnesOK, DecsOK

\* One forward for the prompts of a group.
LEMMA BatchPrefillKeeps ==
  ASSUME VInv, BatchPrefill
  PROVE  VInv'
<1>1. PICK g : g = FirstGroup(pres)
  OBVIOUS
<1>2. /\ InGroups /\ ones = <<>> /\ slot' = GroupSlots(g) /\ seq' = GroupSeqs(g)
      /\ post' = WithSlots(g) /\ pres' = AfterGroup(pres) /\ ones' = ones /\ decs' = decs
      /\ UNCHANGED <<entries, ref, page, queues, step, batch, todo>>
  BY <1>1 DEF BatchPrefill
<1>3. pres \in Seq(Seqs) /\ ones \in Seq(Seqs) /\ decs \in Seq(Seqs) /\ step = "classify"
  BY <1>2 DEF VInv, VTypes, InGroups
<1>4. /\ g \in Seq(Seqs) /\ Len(g) <= Len(pres) /\ Len(g) \in Nat /\ Members(g) \subseteq Members(pres)
      /\ pres' \in Seq(Seqs) /\ Len(pres') <= Len(pres)
      /\ Members(pres') = Members(pres) \ Members(g)
  BY <1>1, <1>2, <1>3, FirstGroupFacts
<1>5. GroupFit(g)
  <2>1. Len(pres) \in Nat /\ MaxBatch \in Nat /\ Len(pres) <= MaxBatch
    BY <1>3, Constants, ListsFit
  <2> QED BY <2>1, <1>4, ListsFit DEF GroupFit
<1>6. GroupTaken(g)
  <2>1. Members(decs) \cap Members(g) = {}
    BY <1>4, ListsFit
  <2>2. Len(decs) <= Len(decs)
    BY <1>3
  <2> QED BY <2>1, <2>2, <1>2, <1>3, <1>4 DEF GroupTaken
<1>7. Members(g) \subseteq Members(batch)
  BY <1>4, ListFacts
<1> QED BY <1>2, <1>5, <1>6, <1>7, ForwardKeeps

\* One member of a split group.
LEMMA PrefillOneKeeps ==
  ASSUME VInv, PrefillOne
  PROVE  VInv'
<1>1. PICK g : g = <<Head(ones)>>
  OBVIOUS
<1>2. /\ InGroups /\ ones # <<>> /\ slot' = GroupSlots(g) /\ seq' = GroupSeqs(g)
      /\ post' = WithSlots(g) /\ ones' = Tail(ones) /\ pres' = pres /\ decs' = decs
      /\ UNCHANGED <<entries, ref, page, queues, step, batch, todo>>
  BY <1>1 DEF PrefillOne
<1>3. pres \in Seq(Seqs) /\ ones \in Seq(Seqs) /\ decs \in Seq(Seqs)
  BY DEF VInv, VTypes
<1>4. /\ Head(ones) \in Seqs /\ Head(ones) \in Members(ones) /\ ones' \in Seq(Seqs)
      /\ Members(ones) = {Head(ones)} \cup Members(ones')
  BY <1>2, <1>3, HeadTail
<1>5. g \in Seq(Seqs) /\ Len(g) = 1 /\ Members(g) = {Head(ones)}
  <2>1. PICK x \in Seqs : x = Head(ones)
    BY <1>4
  <2>2. <<x>> \in Seq(Seqs) /\ Len(<<x>>) = 1
    OBVIOUS
  <2>3. Members(<<x>>) = {x}
    BY DEF Members
  <2> QED BY <2>1, <2>2, <2>3, <1>1
<1>6. GroupFit(g)
  <2>1. 1 <= MaxBatch
    BY Constants
  <2> QED BY <2>1, <1>4, <1>5, ListsFit DEF GroupFit
<1>7. GroupTaken(g)
  <2>1. Members(decs) \cap Members(g) = {}
    BY <1>4, <1>5, ListsFit
  <2>2. Members(pres) \cap Members(g) = {}
    BY <1>4, <1>5 DEF VInv, Listing
  <2>3. Len(decs) <= Len(decs) /\ Len(pres) <= Len(pres)
    BY <1>3
  <2> QED BY <2>1, <2>2, <2>3, <1>2, <1>3, <1>4, <1>5 DEF GroupTaken
<1>8. Members(g) \subseteq Members(batch)
  BY <1>4, <1>5, ListFacts
<1> QED BY <1>2, <1>6, <1>7, <1>8, ForwardKeeps

\* One forward for a group of decodes.
LEMMA BatchDecodeKeeps ==
  ASSUME VInv, BatchDecode
  PROVE  VInv'
<1>1. PICK g : g = FirstGroup(decs)
  OBVIOUS
<1>2. /\ InGroups /\ ones = <<>> /\ pres = <<>> /\ slot' = GroupSlots(g) /\ seq' = GroupSeqs(g)
      /\ post' = WithSlots(g) /\ decs' = AfterGroup(decs) /\ ones' = ones /\ pres' = pres
      /\ UNCHANGED <<entries, ref, page, queues, step, batch, todo>>
  BY <1>1 DEF BatchDecode
<1>3. pres \in Seq(Seqs) /\ ones \in Seq(Seqs) /\ decs \in Seq(Seqs) /\ step = "classify"
  BY <1>2 DEF VInv, VTypes, InGroups
<1>4. /\ g \in Seq(Seqs) /\ Len(g) <= Len(decs) /\ Len(g) \in Nat /\ Members(g) \subseteq Members(decs)
      /\ decs' \in Seq(Seqs) /\ Len(decs') <= Len(decs)
      /\ Members(decs') = Members(decs) \ Members(g)
  BY <1>1, <1>2, <1>3, FirstGroupFacts
<1>5. GroupFit(g)
  <2>1. Len(decs) \in Nat /\ MaxBatch \in Nat /\ Len(decs) <= MaxBatch
    BY <1>3, Constants, ListsFit
  <2> QED BY <2>1, <1>4, ListsFit DEF GroupFit
<1>6. GroupTaken(g)
  <2>1. Members(pres) \cap Members(g) = {}
    BY <1>4, ListsFit
  <2>2. Len(pres) <= Len(pres)
    BY <1>3
  <2> QED BY <2>1, <2>2, <1>2, <1>3, <1>4 DEF GroupTaken
<1>7. Members(g) \subseteq Members(batch)
  BY <1>4, ListFacts
<1> QED BY <1>2, <1>5, <1>6, <1>7, ForwardKeeps

\* A group that one forward cannot serve is split.
LEMMA SplitGroupKeeps ==
  ASSUME VInv, SplitGroup
  PROVE  VInv'
<1>1. /\ InGroups /\ ones = <<>> /\ ones' = FirstGroup(pres) /\ pres' = AfterGroup(pres)
      /\ UNCHANGED <<entries, ref, page, slot, seq, queues, step, batch, todo, decs, post>>
  BY DEF SplitGroup
<1>2. /\ UNCHANGED <<waiting, running>> /\ step = "classify" /\ todo = <<>> /\ post = <<>>
  BY <1>1 DEF queues, InGroups
<1>3. pres \in Seq(Seqs) /\ decs \in Seq(Seqs)
  BY DEF VInv, VTypes
<1>4. /\ ones' \in Seq(Seqs) /\ Members(ones') \subseteq Members(pres)
      /\ pres' \in Seq(Seqs) /\ Len(pres') <= Len(pres) /\ Len(pres') \in Nat
      /\ Members(pres') = Members(pres) \ Members(ones')
  BY <1>1, <1>3, FirstGroupFacts
<1>5. VTypes'
  BY <1>1, <1>2, <1>4 DEF VInv, VTypes
<1>6. /\ EntriesOK' /\ SeqsOK' /\ PagesCovered'
      /\ \A r \in Seqs : /\ seq'[r] = seq[r] /\ (Behind(r) => Behind(r)') /\ (Prompted(r) => Prompted(r)')
                         /\ (FillsOK(r) => FillsOK(r)') /\ (DecsOK(r) => DecsOK(r)')
                         /\ (OnesOK(r) => OnesOK(r)')
  BY <1>1, SameData
<1>7. \A r : Waits(r)' <=> Waits(r)
  BY <1>1 DEF Waits
<1>8. Behinds'
  BY <1>6, <1>7 DEF VInv, Behinds
<1>9. Filled'
  <2> SUFFICES ASSUME NEW r \in Seqs, ~seq'[r].fin, ~Waits(r)'
               PROVE  \/ r \in Members(pres') \cup Members(ones') \cup Members(decs')
                      \/ Len(seq'[r].prompt) <= seq'[r].cached
    BY DEF Filled
  <2>1. \/ r \in Members(pres) \cup Members(ones) \cup Members(decs)
        \/ Len(seq[r].prompt) <= seq[r].cached
    BY <1>6, <1>7 DEF VInv, Filled
  <2> QED BY <2>1, <1>1, <1>4, <1>6, NoMembers
<1>10. Listing'
  <2>1. Listed' = Listed
    BY <1>1, <1>2 DEF Listed
  <2>2. \A r \in Listed' : Prompted(r)'
    BY <2>1, <1>6, ListFacts
  <2>3. Len(todo') + Len(pres') + Len(decs') <= MaxBatch
    <3>1. Len(todo) + Len(pres) + Len(decs) <= MaxBatch
      BY <1>2 DEF VInv, Listing
    <3>2. Len(todo) \in Nat /\ Len(pres) \in Nat /\ Len(decs) \in Nat /\ MaxBatch \in Nat
      BY Constants DEF VInv, VTypes
    <3> QED BY <3>1, <3>2, <1>1, <1>4
  <2>4. \A r \in Members(todo') \cup Members(pres') \cup Members(ones') \cup Members(decs') :
          r \in Members(batch')
    BY <1>1, <1>4, ListFacts
  <2>5. Len(running') <= MaxBatch /\ Len(batch') <= MaxBatch
    BY <1>1, <1>2 DEF VInv, Listing
  <2>6. \A r \in Members(ones') : r \notin Members(pres')
    BY <1>4
  <2>7. todo' = <<>> /\ step' = "classify"
    BY <1>1, <1>2
  <2> QED BY <2>2, <2>3, <2>4, <2>5, <2>6, <2>7 DEF Listing
<1>11. Listeds'
  <2>1. Members(pres) \subseteq Seqs /\ Members(decs) \subseteq Seqs
    BY ListFacts
  <2>2. \A r \in Members(pres) : FillsOK(r) /\ OnesOK(r)
    BY ListsFit DEF Fit, OnesOK, VInv, Listeds
  <2>3. (\A r \in Members(pres') : FillsOK(r)') /\ (\A r \in Members(ones') : OnesOK(r)')
    BY <2>1, <2>2, <1>4, <1>6
  <2>4. \A r \in Members(decs') : DecsOK(r)'
    BY <2>1, <1>1, <1>6 DEF VInv, Listeds
  <2>5. post' = <<>>
    BY <1>1, <1>2
  <2> QED BY <2>3, <2>4, <2>5 DEF Listeds
<1> QED BY <1>5, <1>6, <1>8, <1>9, <1>10, <1>11 DEF VInv

\* An exception in a forward.
LEMMA ForwardRaisesKeeps ==
  ASSUME VInv, ForwardRaises
  PROVE  VInv'
<1>1. PICK g : g = IF ones # <<>> THEN <<Head(ones)>>
                   ELSE IF pres # <<>> THEN FirstGroup(pres) ELSE FirstGroup(decs)
  OBVIOUS
<1>2. /\ InGroups /\ step' = "idle" /\ batch' = <<>> /\ pres' = <<>> /\ ones' = <<>> /\ decs' = <<>>
      /\ waiting' = Without(waiting, Members(batch)) /\ running' = Without(running, Members(batch))
      /\ seq' = [s \in Seqs |-> [seq[s] EXCEPT !.fin = @ \/ s \in Members(batch)]]
      /\ slot' = [b \in Slots |-> IF b < Len(g) THEN SpoiledSlot ELSE slot[b]]
      /\ UNCHANGED <<entries, ref, page, todo, post>>
  BY <1>1 DEF ForwardRaises
<1>3. step = "classify" /\ todo = <<>> /\ post = <<>> /\ seq \in [Seqs -> SeqRecs]
  BY <1>2 DEF InGroups, VInv, VTypes
<1>4. /\ waiting' \in Seq(Seqs) /\ running' \in Seq(Seqs) /\ Len(running') <= Len(running)
      /\ Len(running') \in Nat /\ Len(running) \in Nat
      /\ Members(waiting') \subseteq Members(waiting) /\ Members(running') \subseteq Members(running)
  BY <1>2, WithoutFacts DEF VInv, VTypes
<1>5. slot' \in [Slots -> SlotRecs]
  <2> DEFINE w(b) == IF b < Len(g) THEN SpoiledSlot ELSE slot[b]
  <2>1. \A b \in Slots : w(b) \in SlotRecs
    BY BlankTyped DEF VInv, VTypes
  <2>2. slot' = [b \in Slots |-> w(b)]
    BY <1>2
  <2> HIDE DEF w
  <2> QED BY <2>1, <2>2
<1> DEFINE f == [r \in Seqs |-> (seq[r].fin \/ r \in Members(batch))]
<1>6. \A r \in Seqs : seq[r].fin \in BOOLEAN
  <2>1. \A r \in Seqs : seq[r] \in SeqRecs
    BY <1>3
  <2> QED BY <2>1 DEF SeqRecs
<1>7. /\ f \in [Seqs -> BOOLEAN] /\ \A r \in Seqs : f[r] = (seq[r].fin \/ r \in Members(batch))
  BY <1>6
<1>8. \A r \in Seqs : (seq[r].fin => f[r]) /\ (f[r] => seq[r].fin \/ Prompted(r))
  BY <1>7, ListFacts
<1>9. seq' = [r \in Seqs |-> [seq[r] EXCEPT !.fin = f[r]]]
  <2>1. \A r \in Seqs : [seq[r] EXCEPT !.fin = @ \/ r \in Members(batch)] = [seq[r] EXCEPT !.fin = f[r]]
    BY <1>7
  <2> HIDE DEF f
  <2> QED BY <2>1, <1>2
<1> HIDE DEF f
<1>10. /\ seq' \in [Seqs -> SeqRecs] /\ SeqsOK'
       /\ \A r \in Seqs : SameText(r) /\ seq'[r].handle = seq[r].handle /\ seq'[r].fin = f[r]
  BY <1>7, <1>8, <1>9, MarkKeeps
<1>11. VTypes'
  <2>1. <<>> \in Seq(Seqs)
    OBVIOUS
  <2> QED BY <2>1, <1>2, <1>3, <1>4, <1>5, <1>10 DEF VInv, VTypes
<1>12. EntriesOK'
  BY <1>2 DEF VInv, EntriesOK
<1>13. PagesCovered'
  BY <1>2, <1>10, CoveredStep DEF VInv
<1>14. Behinds'
  <2> SUFFICES ASSUME NEW r \in Seqs, ~seq'[r].fin PROVE Behind(r)'
    BY DEF Behinds
  <2>1. ~seq[r].fin /\ Waits(r)
    BY <1>7, <1>10 DEF Waits
  <2> QED BY <2>1, <1>10, SameTextFacts DEF VInv, Behinds
<1>15. Filled'
  <2>1. \A r : Waits(r)'
    BY <1>2, NoMembers DEF Waits
  <2> QED BY <2>1 DEF Filled
<1>16. Listing'
  <2>1. Listed' \subseteq Listed
    BY <1>2, <1>4, NoMembers DEF Listed
  <2>2. \A r \in Listed' : Prompted(r)'
    BY <2>1, <1>10, ListFacts, SameTextFacts
  <2>3. Len(running') <= MaxBatch /\ Len(batch') <= MaxBatch
    <3>1. Len(running) <= MaxBatch /\ MaxBatch \in Nat /\ Len(<<>>) = 0
      BY Constants DEF VInv, Listing
    <3> QED BY <3>1, <1>2, <1>4
  <2> QED BY <2>2, <2>3, <1>2, <1>3, NoMembers DEF Listing
<1>17. Listeds'
  BY <1>2, <1>3, NoMembers DEF Listeds
<1> QED BY <1>10, <1>11, <1>12, <1>13, <1>14, <1>15, <1>16, <1>17 DEF VInv

-----------------------------------------------------------------------------
(* The steps keep the invariant: the results                                 *)

\* Every group is done.
LEMMA RunDoneKeeps ==
  ASSUME VInv, RunDone
  PROVE  VInv'
<1>1. /\ InGroups /\ ones = <<>> /\ pres = <<>> /\ decs = <<>> /\ step' = "apply" /\ todo' = batch
      /\ UNCHANGED <<entries, ref, page, slot, seq, queues, batch, pres, ones, decs, post>>
  BY DEF RunDone
<1>2. /\ UNCHANGED <<waiting, running>> /\ step = "classify" /\ todo = <<>> /\ post = <<>>
  BY <1>1 DEF queues, InGroups
<1>3. VTypes'
  BY <1>1, <1>2 DEF VInv, VTypes
<1>4. /\ EntriesOK' /\ SeqsOK' /\ PagesCovered'
      /\ \A r \in Seqs : seq'[r] = seq[r] /\ (Behind(r) => Behind(r)') /\ (Prompted(r) => Prompted(r)')
  BY <1>1, SameData
<1>5. \A r : Waits(r)' <=> Waits(r)
  BY <1>1, <1>2, NoMembers DEF Waits
<1>6. Behinds'
  BY <1>4, <1>5 DEF VInv, Behinds
<1>7. Filled'
  BY <1>1, <1>4, <1>5 DEF VInv, Filled
<1>8. Listing'
  <2>1. Listed' = Listed
    BY <1>1, <1>2 DEF Listed
  <2>2. \A r \in Listed' : Prompted(r)'
    BY <2>1, <1>4, ListFacts
  <2>3. Len(running') <= MaxBatch /\ Len(batch') <= MaxBatch
    BY <1>1, <1>2 DEF VInv, Listing
  <2> QED BY <2>2, <2>3, <1>1, <1>2, NoMembers DEF Listing
<1>9. Listeds'
  BY <1>1, <1>2, NoMembers DEF Listeds
<1> QED BY <1>3, <1>4, <1>6, <1>7, <1>8, <1>9 DEF VInv

\* The end of the iteration.
LEMMA EndStepKeeps ==
  ASSUME VInv, EndStep
  PROVE  VInv'
<1>1. /\ step = "apply" /\ todo = <<>> /\ step' = "idle" /\ batch' = <<>>
      /\ UNCHANGED <<entries, ref, page, slot, seq, waiting, running, todo, pres, ones, decs, post>>
  BY DEF EndStep, queues
<1>2. pres = <<>> /\ ones = <<>> /\ decs = <<>> /\ post = <<>>
  BY <1>1 DEF VInv, Listing
<1>3. VTypes'
  <2>1. <<>> \in Seq(Seqs)
    OBVIOUS
  <2> QED BY <2>1, <1>1 DEF VInv, VTypes
<1>4. /\ EntriesOK' /\ SeqsOK' /\ PagesCovered'
      /\ \A r \in Seqs : seq'[r] = seq[r] /\ (Behind(r) => Behind(r)') /\ (Prompted(r) => Prompted(r)')
  BY <1>1, SameData
<1>5. \A r : Waits(r)' /\ Waits(r)
  BY <1>1, NoMembers DEF Waits
<1>6. Behinds'
  BY <1>4, <1>5 DEF VInv, Behinds
<1>7. Filled'
  BY <1>5 DEF Filled
<1>8. Listing'
  <2>1. Listed' \subseteq Listed
    BY <1>1, NoMembers DEF Listed
  <2>2. \A r \in Listed' : Prompted(r)'
    BY <2>1, <1>4, ListFacts
  <2>3. Len(running') <= MaxBatch /\ Len(batch') <= MaxBatch
    <3>1. Len(running) <= MaxBatch /\ MaxBatch \in Nat /\ Len(<<>>) = 0
      BY Constants DEF VInv, Listing
    <3> QED BY <3>1, <1>1
  <2> QED BY <2>2, <2>3, <1>1, <1>2, NoMembers DEF Listing
<1>9. Listeds'
  BY <1>1, <1>2, NoMembers DEF Listeds
<1> QED BY <1>3, <1>4, <1>6, <1>7, <1>8, <1>9 DEF VInv

\* A member's result: skipped, appended, or the last.
LEMMA EmitKeeps ==
  ASSUME VInv, Emit
  PROVE  VInv'
<1>1. /\ step = "apply" /\ todo # <<>> /\ todo' = Tail(todo) /\ todo \in Seq(Seqs)
      /\ UNCHANGED <<entries, step, batch, pres, ones, decs, post>>
  BY DEF Emit, VInv, VTypes
<1>2. pres = <<>> /\ ones = <<>> /\ decs = <<>> /\ post = <<>>
  BY <1>1 DEF VInv, Listing
<1>3. PICK s \in Seqs : s = Head(todo) /\ s \in Members(todo) /\ s \in Members(batch) /\ Prompted(s)
  <2>1. Head(todo) \in Seqs /\ Head(todo) \in Members(todo)
    BY <1>1, HeadTail
  <2> QED BY <2>1, ListFacts
<1>4. todo' \in Seq(Seqs) /\ Members(todo) = {s} \cup Members(todo')
  BY <1>1, <1>3, HeadTail
<1>5. EntriesOK'
  BY <1>1 DEF VInv, EntriesOK
<1>6. Listeds'
  BY <1>1, <1>2, NoMembers DEF Listeds
<1>7. \A r : Waits(r)' /\ r # s => Waits(r)
  BY <1>1, <1>4 DEF Waits
<1>8. \A r : ~Waits(r)' => ~Waits(r)
  BY <1>1, <1>4 DEF Waits
<1>9. Len(running) \in Nat /\ Len(running) <= MaxBatch /\ Len(batch) <= MaxBatch /\ MaxBatch \in Nat
  BY Constants DEF VInv, VTypes, Listing
<1>10. ASSUME Members(waiting') \subseteq Members(waiting), Members(running') \subseteq Members(running),
              Len(running') \in Nat, Len(running') <= Len(running),
              \A r \in Seqs : Prompted(r) => Prompted(r)'
       PROVE  Listing'
  <2>1. Listed' \subseteq Listed
    BY <1>1, <1>10 DEF Listed
  <2>2. \A r \in Listed' : Prompted(r)'
    BY <2>1, <1>10, ListFacts
  <2>3. Len(running') <= MaxBatch /\ Len(batch') <= MaxBatch
    BY <1>1, <1>9, <1>10
  <2>4. \A r \in Members(todo') : r \in Members(batch')
    BY <1>1, <1>4, ListFacts
  <2> QED BY <2>2, <2>3, <2>4, <1>1, <1>2, NoMembers DEF Listing
<1>11. CASE seq[s].fin /\ UNCHANGED <<ref, page, slot, seq, queues>>
  <2>1. UNCHANGED <<ref, page, slot, seq, waiting, running>>
    BY <1>11 DEF queues
  <2>2. VTypes'
    BY <2>1, <1>1, <1>4 DEF VInv, VTypes
  <2>3. /\ SeqsOK' /\ PagesCovered'
        /\ \A r \in Seqs : seq'[r] = seq[r] /\ (Behind(r) => Behind(r)') /\ (Prompted(r) => Prompted(r)')
    BY <2>1, <1>1, SameData
  <2>4. Behinds'
    BY <2>3, <1>7, <1>11 DEF VInv, Behinds
  <2>5. Filled'
    BY <2>3, <1>1, <1>8 DEF VInv, Filled
  <2>6. Listing'
    BY <2>1, <2>3, <1>9, <1>10
  <2> QED BY <2>2, <2>3, <2>4, <2>5, <2>6, <1>5, <1>6 DEF VInv
<1>12. ASSUME NEW t \in OutTokens, ~seq[s].fin, Len(seq[s].out) + 1 < MaxTokens,
              seq' = [seq EXCEPT ![s].out = Append(@, t)],
              UNCHANGED <<ref, page, slot, queues>>
       PROVE  VInv'
  <2>1. UNCHANGED <<ref, page, slot, waiting, running>>
    BY <1>12 DEF queues
  <2>2. PICK q \in SeqRecs : q = seq[s] /\ SeqOK(q) /\ q.prompt # <<>>
    BY <1>3 DEF VInv, VTypes, SeqsOK, Prompted
  <2>3. PICK x \in Seq(OutTokens) : x = Append(q.out, t) /\ Len(x) = Len(q.out) + 1 /\ x # <<>>
    <3>1. PICK y \in Seq(OutTokens) : y = q.out
      BY DEF SeqRecs
    <3>2. Append(y, t) \in Seq(OutTokens) /\ Len(Append(y, t)) = Len(y) + 1 /\ Append(y, t) # <<>>
      <4>1. Append(y, t) \in Seq(OutTokens) /\ Len(Append(y, t)) = Len(y) + 1 /\ Len(y) \in Nat
        BY MembersAppend
      <4>2. Len(Append(y, t)) # Len(<<>>)
        BY <4>1
      <4> QED BY <4>1, <4>2
    <3> QED BY <3>1, <3>2
  <2> DEFINE u == [q EXCEPT !.out = x]
  <2>4. seq' = [seq EXCEPT ![s] = u]
    <3>1. [seq[s] EXCEPT !.out = Append(seq[s].out, t)] = u
      BY <2>2, <2>3
    <3>2. seq' = [seq EXCEPT ![s] = [seq[s] EXCEPT !.out = Append(seq[s].out, t)]]
      BY <1>12
    <3> HIDE DEF u
    <3> QED BY <3>1, <3>2
  <2>5. /\ u \in SeqRecs /\ u.prompt = q.prompt /\ u.out = x /\ u.cached = q.cached
        /\ u.heard = q.heard /\ u.handle = q.handle /\ u.hlen = q.hlen /\ u.hit = q.hit
        /\ u.pending = q.pending /\ u.fin = q.fin
    BY DEF SeqRecs
  <2> HIDE DEF u
  <2>6. /\ seq \in [Seqs -> SeqRecs] /\ seq' \in [Seqs -> SeqRecs]
        /\ seq'[s] = u /\ \A r \in Seqs \ {s} : seq'[r] = seq[r]
    BY <2>4, <2>5 DEF VInv, VTypes
  <2>7. VTypes'
    BY <2>1, <2>6, <1>1, <1>4 DEF VInv, VTypes
  <2>15. PICK c \in Nat, n \in Nat, m \in Nat : c = q.cached /\ n = Len(q.prompt) /\ m = Len(q.out)
    <3>1. q.cached \in Nat /\ q.prompt \in Seq(Vocab) /\ q.out \in Seq(OutTokens)
      BY HistoryFacts DEF SeqRecs
    <3>2. Len(q.prompt) \in Nat /\ Len(q.out) \in Nat
      BY <3>1
    <3> QED BY <3>1, <3>2
  <2>8. c <= n + m /\ n <= c
    <3>2. q.cached <= Len(q.prompt) + Len(q.out)
      BY <2>2 DEF SeqOK
    <3>3. Len(q.prompt) <= q.cached
      <4>1. ~Waits(s)
        BY <1>1, <1>3 DEF Waits
      <4>2. Len(seq[s].prompt) <= seq[s].cached
        BY <4>1, <1>2, <1>12, NoMembers DEF VInv, Filled
      <4> QED BY <4>2, <2>2
    <3> QED BY <2>15, <3>2, <3>3
  <2>9. SeqOK(u)
    <3>1. Len(u.out) < MaxTokens
      <4>1. Len(seq[s].out) = m
        BY <2>2, <2>15
      <4>2. m + 1 < MaxTokens
        BY <4>1, <1>12
      <4> QED BY <4>2, <2>3, <2>5, <2>15
    <3>2. u.cached <= Len(u.prompt) + Len(u.out)
      <4>1. u.cached = c /\ Len(u.prompt) = n /\ Len(u.out) = m + 1
        BY <2>3, <2>5, <2>15
      <4>2. c <= n + (m + 1)
        BY <2>8
      <4> QED BY <4>1, <4>2
    <3> QED BY <3>1, <3>2, <2>2, <2>5, <2>8, <2>15 DEF SeqOK
  <2>10. SeqsOK'
    BY <2>6, <2>9 DEF VInv, SeqsOK
  <2>11. PagesCovered'
    BY <2>1, <2>2, <2>5, <2>6, <1>1, CoveredStep DEF VInv
  <2>12. Behinds'
    <3> SUFFICES ASSUME NEW r \in Seqs, ~seq'[r].fin, Waits(r)' PROVE Behind(r)'
      BY DEF Behinds
    <3>1. CASE r = s
      <4>1. c < n + (m + 1)
        BY <2>8
      <4>2. seq'[r].out # <<>> /\ seq'[r].cached < Len(seq'[r].prompt) + Len(seq'[r].out)
        BY <4>1, <3>1, <2>3, <2>5, <2>6, <2>8, <2>15
      <4> QED BY <4>2 DEF Behind
    <3>2. CASE r # s
      <4>1. Waits(r) /\ seq'[r] = seq[r]
        BY <3>2, <2>6, <1>7
      <4>2. Behind(r)
        BY <4>1 DEF VInv, Behinds
      <4> QED BY <4>1, <4>2 DEF Behind
    <3> QED BY <3>1, <3>2
  <2>13. Filled'
    <3> SUFFICES ASSUME NEW r \in Seqs, ~seq'[r].fin, ~Waits(r)'
                 PROVE  \/ r \in Members(pres) \cup Members(ones) \cup Members(decs)
                        \/ Len(seq'[r].prompt) <= seq'[r].cached
      BY <1>1 DEF Filled
    <3>1. CASE r = s
      BY <3>1, <2>5, <2>6, <2>8, <2>15
    <3>2. CASE r # s
      BY <3>2, <2>6, <1>8 DEF VInv, Filled
    <3> QED BY <3>1, <3>2
  <2>14. Listing'
    <3>1. \A r \in Seqs : Prompted(r) => Prompted(r)'
      BY <2>2, <2>5, <2>6 DEF Prompted
    <3> QED BY <3>1, <2>1, <1>9, <1>10
  <2> QED BY <2>7, <2>10, <2>11, <2>12, <2>13, <2>14, <1>5, <1>6 DEF VInv
<1>13. CASE ~seq[s].fin /\ Finish(s)
  <2>1. /\ UNCHANGED <<ref, page, slot>>
        /\ waiting' \in Seq(Seqs) /\ running' \in Seq(Seqs) /\ Len(running') <= Len(running)
        /\ Len(running') \in Nat
        /\ Members(waiting') = Members(waiting) \ {s} /\ Members(running') = Members(running) \ {s}
        /\ seq' \in [Seqs -> SeqRecs] /\ SeqsOK'
        /\ \A r \in Seqs : SameText(r) /\ seq'[r].handle = seq[r].handle
        /\ \A r \in Seqs : seq'[r].fin = (r = s \/ seq[r].fin)
    BY <1>3, <1>13, FinishFacts
  <2>2. VTypes'
    BY <2>1, <1>1, <1>4 DEF VInv, VTypes
  <2>3. \A r \in Seqs : ~seq'[r].fin => ~seq[r].fin /\ r # s
    BY <2>1
  <2>4. PagesCovered'
    BY <2>1, <1>1, CoveredStep DEF VInv
  <2>5. Behinds'
    BY <2>1, <2>3, <1>7, SameTextFacts DEF VInv, Behinds
  <2>6. Filled'
    BY <2>1, <2>3, <1>1, <1>8, SameTextFacts DEF VInv, Filled
  <2>7. Listing'
    <3>1. \A r \in Seqs : Prompted(r) => Prompted(r)'
      BY <2>1, SameTextFacts
    <3> QED BY <3>1, <2>1, <1>10
  <2> QED BY <2>1, <2>2, <2>4, <2>5, <2>6, <2>7, <1>5, <1>6 DEF VInv
<1>14. \/ seq[s].fin /\ UNCHANGED <<ref, page, slot, seq, queues>>
       \/ \E t \in OutTokens :
            /\ ~seq[s].fin
            /\ Len(seq[s].out) + 1 < MaxTokens
            /\ seq' = [seq EXCEPT ![s].out = Append(@, t)]
            /\ UNCHANGED <<ref, page, slot, queues>>
       \/ ~seq[s].fin /\ Finish(s)
  BY <1>3 DEF Emit
<1> QED BY <1>11, <1>12, <1>13, <1>14

-----------------------------------------------------------------------------
(* The steps keep the invariant: pages and snapshots after a forward         *)

\* Pages that allocate_blocks may return.
LEMMA FreshFacts ==
  ASSUME NEW k \in Nat, NEW t \in Fresh(k)
  PROVE  /\ t \in Seq(Pages) /\ Len(t) = k
         /\ \A x \in Members(t) : x \in Pages /\ ref[x] = 0
         /\ \A i, j \in 1..Len(t) : t[i] = t[j] => i = j
<1>1. t \in [1..k -> Free] /\ \A i, j \in 1..k : t[i] = t[j] => i = j
  BY DEF Fresh
<1>2. t \in Seq(Free) /\ Len(t) = k
  BY <1>1
<1>3. Free \subseteq Pages /\ \A x \in Free : ref[x] = 0
  BY DEF Free
<1>4. t \in Seq(Pages)
  BY <1>2, <1>3
<1>5. Members(t) \subseteq Free
  BY <1>2, MembersFacts
<1> QED BY <1>1, <1>2, <1>3, <1>4, <1>5

\* Rows written to pages are rows.
LEMMA WrittenTyped ==
  ASSUME VInv, NEW t, NEW kv \in Rows, NEW first \in Nat \ {0}, NEW last \in Nat, last <= MaxLen
  PROVE  RowsWritten(t, kv, first, last) \in [Pages -> [0..BlockSize - 1 -> Histories]]
<1> DEFINE here(p, o) == {i \in first..last : GoesTo(t, i, p, o)}
           at(p, o) == CHOOSE i \in here(p, o) : TRUE
           cell(p, o) == IF here(p, o) = {} THEN page[p][o] ELSE kv[at(p, o)]
           row(p) == [o \in 0..BlockSize - 1 |-> cell(p, o)]
<1>1. RowsWritten(t, kv, first, last) = [p \in Pages |-> row(p)]
  BY DEF RowsWritten
<1>2. page \in [Pages -> [0..BlockSize - 1 -> Histories]] /\ kv \in [Positions -> Histories]
  BY DEF VInv, VTypes, Rows
<1>3. \A p, o : here(p, o) \subseteq Positions
  BY Constants DEF Positions
<1> HIDE DEF here
<1>4. \A p, o : here(p, o) # {} => at(p, o) \in Positions
  BY <1>3
<1> HIDE DEF at
<1>5. \A p \in Pages, o \in 0..BlockSize - 1 : cell(p, o) \in Histories
  BY <1>2, <1>4
<1> HIDE DEF cell
<1>6. \A p \in Pages : row(p) \in [0..BlockSize - 1 -> Histories]
  BY <1>5
<1> HIDE DEF row
<1> QED BY <1>1, <1>6

\* V4PrefixCache.insert: the bound, the keys, and the pages that the entries name.
LEMMA InsertedFacts ==
  ASSUME VInv, NEW e \in EntryRecs(Prompts), EntryOK(e)
  PROVE  /\ Inserted(e) \in Seq(EntryRecs(Prompts)) /\ Len(Inserted(e)) <= MaxEntries
         /\ \A i \in 1..Len(Inserted(e)) : EntryOK(Inserted(e)[i])
         /\ \A i, j \in 1..Len(Inserted(e)) : Inserted(e)[i].toks = Inserted(e)[j].toks => i = j
         /\ \A i \in 1..Len(Inserted(e)) :
              Inserted(e)[i] = e \/ \E j \in 1..Len(entries) : Inserted(e)[i] = entries[j]
         /\ \A x : Cardinality(Listers(Inserted(e), x)) + Held(Dropped(e), x)
                     = Cardinality(Listers(entries, x)) + Held(e.pages, x)
         /\ \A x : Cardinality(Listers(Inserted(e), x)) \in Nat
<1> DEFINE T == EntryRecs(Prompts)
<1>1. PICK q \in Seq(T) : q = entries
  BY DEF VInv, VTypes
<1>2. PICK n \in Nat : n = Len(q) /\ DOMAIN q = 1..n /\ n <= MaxEntries
  <2>1. Len(q) \in Nat /\ DOMAIN q = 1..Len(q)
    OBVIOUS
  <2> QED BY <2>1, <1>1 DEF VInv, VTypes
<1>3. /\ \A i \in 1..n : EntryOK(q[i]) /\ q[i] \in T
      /\ \A i, j \in 1..n : q[i].toks = q[j].toks => i = j
  BY <1>1, <1>2 DEF VInv, EntriesOK
<1>4. SameKey(e) = {i \in 1..n : q[i].toks = e.toks}
  BY <1>1, <1>2 DEF SameKey
<1> HIDE DEF T
<1> DEFINE Good(u, d) ==
             /\ u \in Seq(T) /\ Len(u) <= MaxEntries
             /\ \A i \in 1..Len(u) : EntryOK(u[i])
             /\ \A i, j \in 1..Len(u) : u[i].toks = u[j].toks => i = j
             /\ \A i \in 1..Len(u) : u[i] = e \/ \E j \in 1..n : u[i] = q[j]
             /\ \A x : Cardinality(Listers(u, x)) + Held(d, x)
                         = Cardinality(Listers(q, x)) + Held(e.pages, x)
<1>5. e \in T
  BY DEF T
<1>6. ASSUME SameKey(e) # {} PROVE Good(Inserted(e), Dropped(e))
  <2>1. PICK k \in 1..n : q[k].toks = e.toks
    BY <1>4, <1>6
  <2>2. \A i \in SameKey(e) : i = k
    BY <2>1, <1>3, <1>4
  <2>3. SameKey(e) = {k} /\ (CHOOSE i \in SameKey(e) : TRUE) = k
    BY <2>2, <1>6
  <2> DEFINE c(i) == IF i = k THEN e ELSE q[i]
             u == [i \in 1..n |-> c(i)]
  <2>4. Inserted(e) = u
    <3>1. Inserted(e) = [i \in DOMAIN entries |-> IF i \in SameKey(e) THEN e ELSE entries[i]]
      BY <1>6 DEF Inserted
    <3> QED BY <3>1, <2>3, <1>1, <1>2
  <2>5. Dropped(e) = q[k].pages
    BY <2>3, <1>1, <1>6 DEF Dropped
  <2>6. \A i \in 1..n : c(i) \in T /\ EntryOK(c(i)) /\ c(i).toks = q[i].toks
    BY <2>1, <1>3, <1>5
  <2>7. c(k) = e /\ \A i \in 1..n \ {k} : c(i) = q[i]
    OBVIOUS
  <2> HIDE DEF c
  <2>8. u \in Seq(T) /\ Len(u) = n /\ \A i \in 1..n : u[i] = c(i)
    BY <2>6
  <2> HIDE DEF u
  <2>9. ASSUME NEW x
        PROVE  Cardinality(Listers(u, x)) + Held(q[k].pages, x) = Cardinality(Listers(q, x)) + Held(e.pages, x)
    <3>1. \A i \in 1..Len(q) \ {k} : u[i] = q[i]
      BY <2>7, <2>8, <1>2
    <3>2. Cardinality(Listers(u, x)) + Held(q[k].pages, x) = Cardinality(Listers(q, x)) + Held(u[k].pages, x)
      BY <3>1, <2>8, <1>2, ListersReplace
    <3>3. u[k] = e
      BY <2>7, <2>8
    <3> QED BY <3>2, <3>3
  <2>10. Good(u, q[k].pages)
    BY <2>6, <2>7, <2>8, <2>9, <1>2, <1>3
  <2> HIDE DEF Good
  <2> QED BY <2>4, <2>5, <2>10
<1>7. ASSUME SameKey(e) = {} PROVE Good(Inserted(e), Dropped(e))
  <2> DEFINE full == n >= MaxEntries
             b == IF full THEN Tail(q) ELSE q
             d == IF full THEN q[1].pages ELSE <<>>
  <2>1. Inserted(e) = Append(b, e) /\ Dropped(e) = d
    BY <1>1, <1>2, <1>7 DEF Inserted, Dropped
  <2>2. \A i \in 1..n : q[i].toks # e.toks
    BY <1>4, <1>7
  <2>3. /\ b \in Seq(T) /\ Len(b) + 1 <= MaxEntries /\ Len(b) \in Nat
        /\ \A i \in 1..Len(b) : \E j \in 1..n : b[i] = q[j]
        /\ \A i, j \in 1..Len(b) : b[i].toks = b[j].toks => i = j
        /\ \A x : Cardinality(Listers(b, x)) + Held(d, x) = Cardinality(Listers(q, x))
    <3>1. CASE full
      <4>1. n > 0 /\ q # <<>> /\ n = MaxEntries
        BY <3>1, <1>2, Constants
      <4>9. /\ Tail(q) \in Seq(T) /\ Len(Tail(q)) = Len(q) - 1
            /\ \A i \in 1..Len(q) - 1 : Tail(q)[i] = q[i + 1]
        BY <4>1, HeadTail
      <4>2. PICK r \in Seq(T) : r = Tail(q) /\ Len(r) = n - 1 /\ \A i \in 1..n - 1 : r[i] = q[i + 1]
        BY <4>9, <1>2
      <4>3. \A i \in 1..n - 1 : i + 1 \in 1..n
        BY <4>1
      <4>4. \A i, j \in 1..n - 1 : r[i].toks = r[j].toks => i = j
        <5> TAKE i \in 1..n - 1, j \in 1..n - 1
        <5> HAVE r[i].toks = r[j].toks
        <5>1. i + 1 = j + 1
          BY <4>2, <4>3, <1>3
        <5> QED BY <5>1
      <4>5. \A x : Cardinality(Listers(r, x)) + Held(q[1].pages, x) = Cardinality(Listers(q, x))
        BY <4>1, <4>2, ListersTail
      <4>6. b = r /\ d = q[1].pages
        BY <3>1, <4>2
      <4> HIDE DEF b, d
      <4>7. Len(b) = n - 1 /\ Len(b) \in Nat /\ Len(b) + 1 <= MaxEntries
        BY <4>1, <4>2, <4>6, Constants
      <4>8. \A i \in 1..n - 1 : \E j \in 1..n : r[i] = q[j]
        BY <4>2, <4>3
      <4> QED BY <4>2, <4>4, <4>5, <4>6, <4>7, <4>8
    <3>2. CASE ~full
      <4>1. b = q /\ d = <<>> /\ n + 1 <= MaxEntries
        BY <3>2, <1>2, Constants
      <4>2. \A x : Held(<<>>, x) = 0
        BY NoMembers DEF Held
      <4>3. \A x : Cardinality(Listers(q, x)) \in Nat
        BY ListersFinite
      <4> HIDE DEF b, d
      <4> QED BY <4>1, <4>2, <4>3, <1>2, <1>3
    <3> QED BY <3>1, <3>2
  <2> HIDE DEF b, d
  <2>4. PICK m \in Nat : m = Len(b)
    BY <2>3
  <2> DEFINE u == Append(b, e)
  <2>5. u \in Seq(T) /\ Len(u) = m + 1 /\ u[m + 1] = e /\ \A i \in 1..m : u[i] = b[i]
    BY <2>3, <2>4, <1>5
  <2>6. \A x : Cardinality(Listers(u, x)) = Cardinality(Listers(b, x)) + Held(e.pages, x)
    BY <2>3, <1>5, ListersAppend
  <2> HIDE DEF u
  <2>7. \A i \in 1..m + 1 : i = m + 1 \/ i \in 1..m
    BY <2>4
  <2>8. \A i \in 1..m : b[i] \in T /\ EntryOK(b[i]) /\ b[i].toks # e.toks /\ \E j \in 1..n : b[i] = q[j]
    BY <2>2, <2>3, <2>4, <1>3
  <2>9. \A i \in 1..m + 1 : EntryOK(u[i]) /\ (u[i] = e \/ \E j \in 1..n : u[i] = q[j])
    BY <2>5, <2>7, <2>8
  <2>10. \A i, j \in 1..m + 1 : u[i].toks = u[j].toks => i = j
    <3> TAKE i \in 1..m + 1, j \in 1..m + 1
    <3>1. CASE i = m + 1 /\ j = m + 1
      BY <3>1
    <3>2. CASE i = m + 1 /\ j \in 1..m
      BY <3>2, <2>5, <2>8
    <3>3. CASE i \in 1..m /\ j = m + 1
      BY <3>3, <2>5, <2>8
    <3>4. CASE i \in 1..m /\ j \in 1..m
      BY <3>4, <2>3, <2>4, <2>5
    <3> QED BY <3>1, <3>2, <3>3, <3>4, <2>7
  <2>11. ASSUME NEW x
         PROVE  Cardinality(Listers(u, x)) + Held(d, x) = Cardinality(Listers(q, x)) + Held(e.pages, x)
    <3>1. Held(d, x) \in Nat /\ Held(e.pages, x) \in Nat
      BY DEF Held
    <3>2. Cardinality(Listers(b, x)) \in Nat
      BY <2>3, ListersFinite
    <3> QED BY <3>1, <3>2, <2>3, <2>6
  <2>12. Good(u, d)
    BY <2>3, <2>4, <2>5, <2>9, <2>10, <2>11
  <2> HIDE DEF Good
  <2> QED BY <2>1, <2>12 DEF u
<1>8. Good(Inserted(e), Dropped(e))
  <2> HIDE DEF Good
  <2> QED BY <1>6, <1>7
<1>9. \A x : Cardinality(Listers(Inserted(e), x)) \in Nat
  BY <1>8, ListersFinite
<1> QED BY <1>1, <1>2, <1>8, <1>9 DEF T

\* What remains of the invariant after a step that writes pages and changes one handle.
LEMMA HandleKeeps ==
  ASSUME VInv, post # <<>>, step = "classify", NEW s \in Seqs, s = Head(post)[1],
         post' = Tail(post), UNCHANGED <<slot, queues, step, batch, todo, pres, ones, decs>>,
         NEW h \in Seq(Pages), NEW n \in Nat, h # <<>> => PagesForTokens(n) <= Len(h),
         seq' = [seq EXCEPT ![s] = [@ EXCEPT !.handle = h, !.hlen = n]],
         entries' \in Seq(EntryRecs(Prompts)), Len(entries') <= MaxEntries, EntriesOK',
         page' \in [Pages -> [0..BlockSize - 1 -> Histories]],
         \A x \in Pages : Holders(x)' <= ref'[x] /\ ref'[x] \in Nat, ref' = [x \in Pages |-> ref'[x]]
  PROVE  VInv'
<1>1. UNCHANGED <<waiting, running>> /\ ref' \in [Pages -> Nat]
  BY DEF queues
<1>2. /\ post \in Seq(Seqs \X Slots) /\ \A i \in 1..Len(post) : PostOK(post[i][1]) /\ post[i][1] \in Seqs
  BY PostFacts
<1>3. /\ Head(post) = post[1] /\ post' \in Seq(Seqs \X Slots) /\ Len(post') = Len(post) - 1
      /\ \A i \in 1..Len(post) - 1 : post'[i] = post[i + 1]
  BY <1>2, HeadTail
<1>4. Len(post) \in Nat /\ Len(post) > 0 /\ 1 \in 1..Len(post)
  BY <1>2
<1>5. PostOK(s)
  BY <1>2, <1>3, <1>4
<1>6. PICK q \in SeqRecs : q = seq[s] /\ SeqOK(q)
  BY DEF VInv, VTypes, SeqsOK
<1> DEFINE u == [q EXCEPT !.handle = h, !.hlen = n]
<1>7. seq' = [seq EXCEPT ![s] = u]
  BY <1>6
<1>8. /\ u \in SeqRecs /\ u.prompt = q.prompt /\ u.out = q.out /\ u.cached = q.cached
      /\ u.heard = q.heard /\ u.handle = h /\ u.hlen = n /\ u.hit = q.hit
      /\ u.pending = q.pending /\ u.fin = q.fin
  BY DEF SeqRecs
<1> HIDE DEF u
<1>9. /\ seq \in [Seqs -> SeqRecs] /\ seq' \in [Seqs -> SeqRecs]
      /\ seq'[s] = u /\ \A r \in Seqs \ {s} : seq'[r] = seq[r]
  <2>1. PICK f \in [Seqs -> SeqRecs] : f = seq
    BY DEF VInv, VTypes
  <2>2. PICK g : g = [f EXCEPT ![s] = u]
    OBVIOUS
  <2>3. g \in [Seqs -> SeqRecs] /\ g[s] = u /\ \A r \in Seqs \ {s} : g[r] = f[r]
    BY <2>2, <1>8
  <2>4. seq' = g
    BY <2>1, <2>2, <1>7
  <2> QED BY <2>1, <2>3, <2>4
<1>10. \A r \in Seqs : SameText(r) /\ seq'[r].fin = seq[r].fin /\ seq'[r].pending = seq[r].pending
  BY <1>6, <1>8, <1>9 DEF SameText
<1>11. VTypes'
  BY <1>1, <1>3, <1>9 DEF VInv, VTypes
<1>12. SeqsOK'
  <2>1. SeqOK(u)
    BY <1>5, <1>6, <1>8 DEF SeqOK, PostOK, Prompted
  <2> QED BY <2>1, <1>9 DEF VInv, SeqsOK
<1>13. \A r : Waits(r)' <=> Waits(r)
  BY DEF Waits
<1>14. Behinds'
  BY <1>10, <1>13, SameTextFacts DEF VInv, Behinds
<1>15. Filled'
  BY <1>10, <1>13, SameTextFacts DEF VInv, Filled
<1>16. Listing'
  <2>1. Listed' = Listed
    BY <1>1 DEF Listed
  <2>2. \A r \in Listed' : Prompted(r)'
    BY <2>1, <1>10, ListFacts, SameTextFacts
  <2>3. todo = <<>>
    BY DEF VInv, Listing
  <2> QED BY <2>2, <2>3, <1>1 DEF VInv, Listing
<1>17. Listeds'
  <2>1. \A r \in Members(pres) \cup Members(ones) \cup Members(decs) : r \in Seqs
    BY ListFacts
  <2>2. ASSUME NEW i \in 1..Len(post') PROVE PostOK(post[i][1])'
    <3>1. i \in 1..Len(post) - 1 /\ i + 1 \in 1..Len(post)
      BY <1>3, <1>4
    <3>2. PICK r \in Seqs : r = post[i + 1][1] /\ PostOK(r)
      BY <3>1, <1>2
    <3>3. post'[i][1] = r
      BY <3>1, <3>2, <1>3
    <3>4. PostOK(r)'
      BY <3>2, <1>10, SameTextFacts DEF PostOK
    <3> QED BY <3>3, <3>4 DEF PostOK, Prompted
  <2> QED BY <2>1, <2>2, <1>10, SameTextFacts DEF VInv, Listeds
<1>18. PagesCovered'
  BY DEF PagesCovered
<1> QED BY <1>11, <1>12, <1>14, <1>15, <1>16, <1>17, <1>18 DEF VInv

\* Writing its own handle again leaves a sequence as it is.
LEMMA SameHandle ==
  ASSUME VInv, NEW s \in Seqs
  PROVE  /\ seq[s].handle \in Seq(Pages) /\ seq[s].hlen \in Nat
         /\ seq[s].handle # <<>> => PagesForTokens(seq[s].hlen) <= Len(seq[s].handle)
         /\ seq = [seq EXCEPT ![s] = [@ EXCEPT !.handle = seq[s].handle, !.hlen = seq[s].hlen]]
<1>1. PICK f \in [Seqs -> SeqRecs] : f = seq /\ SeqOK(f[s])
  BY DEF VInv, VTypes, SeqsOK
<1>2. PICK q \in SeqRecs : q = f[s]
  OBVIOUS
<1>3. q.handle \in Seq(Pages) /\ q.hlen \in Nat /\ [q EXCEPT !.handle = q.handle, !.hlen = q.hlen] = q
  BY DEF SeqRecs
<1>4. [f EXCEPT ![s] = q] = f
  BY <1>2
<1>5. SeqOK(q)
  BY <1>1, <1>2
<1>6. q.handle # <<>> => PagesForTokens(q.hlen) <= Len(q.handle)
  BY <1>5 DEF SeqOK
<1> QED BY <1>1, <1>2, <1>3, <1>4, <1>6

\* The sequence whose pages are written after a forward.
LEMMA PostHead ==
  ASSUME VInv, post # <<>>
  PROVE  /\ Head(post)[1] \in Seqs /\ PostOK(Head(post)[1]) /\ Head(post)[2] \in Slots
         /\ seq[Head(post)[1]].cached \in Nat \ {0} /\ seq[Head(post)[1]].cached <= MaxLen
         /\ seq[Head(post)[1]].prompt \in Prompts /\ seq[Head(post)[1]].heard \in Histories
         /\ seq[Head(post)[1]].heard # <<>>
<1>1. PICK c : c = Head(post)
  OBVIOUS
<1>2. c \in Seqs \X Slots /\ PostOK(c[1])
  <2>1. post \in Seq(Seqs \X Slots) /\ \A i \in 1..Len(post) : PostOK(post[i][1])
    BY PostFacts
  <2>2. Head(post) = post[1] /\ Head(post) \in Seqs \X Slots
    BY <2>1, HeadTail
  <2>3. 1 \in 1..Len(post)
    BY <2>1
  <2> QED BY <2>1, <2>2, <2>3, <1>1
<1>3. PICK q \in SeqRecs : q = seq[c[1]] /\ SeqOK(q)
  <2>1. c[1] \in Seqs
    BY <1>2
  <2> QED BY <2>1 DEF VInv, VTypes, SeqsOK
<1>4. q.prompt # <<>> /\ q.cached > 0 /\ Len(q.out) < MaxTokens /\ q.cached <= Len(q.prompt) + Len(q.out)
      /\ q.heard # <<>>
  BY <1>2, <1>3 DEF PostOK, Prompted, SeqOK
<1>5. q.prompt \in Prompts /\ q.heard \in Histories /\ q.cached \in Nat /\ q.out \in Seq(OutTokens)
  BY <1>4 DEF SeqRecs, AnyPrompt
<1>6. Len(q.prompt) \in Nat /\ Len(q.prompt) + MaxTokens <= MaxLen /\ Len(q.out) \in Nat
  <2>1. q.prompt \in Seq(Vocab) /\ Len(q.prompt) + MaxTokens <= MaxLen
    BY <1>5, HistoryFacts
  <2> QED BY <2>1, <1>5
<1>7. q.cached <= MaxLen
  <2>1. PICK x \in Nat, y \in Nat, z \in Nat : x = q.cached /\ y = Len(q.prompt) /\ z = Len(q.out)
    BY <1>5, <1>6
  <2>2. x <= y + z /\ z < MaxTokens /\ y + MaxTokens <= MaxLen /\ MaxTokens \in Nat /\ MaxLen \in Nat
    BY <2>1, <1>4, <1>6, Constants
  <2>3. x <= MaxLen
    BY <2>2
  <2> QED BY <2>1, <2>3
<1>8. q.cached \in Nat \ {0}
  BY <1>4, <1>5
<1> QED BY <1>1, <1>2, <1>3, <1>4, <1>5, <1>7, <1>8

\* Pages freed by a release are zeroed; the others keep their rows.
LEMMA ZeroedTyped ==
  ASSUME NEW r, NEW pg \in [Pages -> [0..BlockSize - 1 -> Histories]]
  PROVE  ZeroedFree(r, pg) \in [Pages -> [0..BlockSize - 1 -> Histories]]
  BY BlankTyped DEF ZeroedFree

\* What a save makes of the entry, for the pages t.
Saves(s, b, t) ==
  LET e == Snapshot(s, b, t)
  IN /\ entries' = Inserted(e)
     /\ ref' = RefsSaved(e)
     /\ page' = ZeroedFree(RefsSaved(e), DualWritten(t, b, seq[s].cached))
     /\ seq' = IF t = <<>> THEN seq
               ELSE [seq EXCEPT ![s] = [@ EXCEPT !.handle = t, !.hlen = seq[s].cached]]

\* The new snapshot is an entry.
LEMMA SnapshotFacts ==
  ASSUME VInv, post # <<>>, NEW s \in Seqs, NEW b \in Slots, s = Head(post)[1], seq[s].out = <<>>,
         NEW t \in Seq(Pages), t # <<>> => Len(t) = PagesForTokens(seq[s].cached)
  PROVE  /\ Snapshot(s, b, t) \in EntryRecs(Prompts) /\ EntryOK(Snapshot(s, b, t))
         /\ Snapshot(s, b, t).pages = t /\ Snapshot(s, b, t).toks = seq[s].prompt
<1>1. PICK v \in SlotRecs : v = slot[b]
  BY DEF VInv, VTypes
<1>2. v.kv \in Rows /\ v.st \in Histories
  BY DEF SlotRecs
<1>3. SlimRows(t, v.kv) \in Rows
  BY <1>2, BlankTyped DEF SlimRows
<1>4. PICK p \in Prompts, w \in Histories : p = seq[s].prompt /\ w = seq[s].heard /\ w # <<>>
  BY PostHead
<1>5. seq[s].cached = Len(p)
  BY <1>4, PostHead DEF PostOK
<1> DEFINE e == [toks |-> p, logits |-> w, st |-> v.st, kv |-> SlimRows(t, v.kv), pages |-> t]
<1>6. Snapshot(s, b, t) = e
  BY <1>1, <1>4 DEF Snapshot
<1>7. e \in EntryRecs(Prompts) /\ e.pages = t /\ e.toks = p /\ e.logits = w
  BY <1>2, <1>3 DEF EntryRecs
<1> HIDE DEF e
<1>8. t # <<>> => PagesForTokens(Len(p)) <= Len(t)
  <2>1. Len(t) \in Nat
    OBVIOUS
  <2> QED BY <2>1, <1>5
<1>9. EntryOK(e)
  BY <1>4, <1>7, <1>8 DEF EntryOK
<1> QED BY <1>4, <1>6, <1>7, <1>9

\* A prompt is saved: which sequence, from which slot, to which pages.
LEMMA SaveFacts ==
  ASSUME VInv, SavePrefix
  PROVE  /\ post # <<>> /\ step = "classify" /\ post' = Tail(post)
         /\ UNCHANGED <<slot, queues, step, batch, todo, pres, ones, decs>>
         /\ \E s \in Seqs, b \in Slots, t \in Seq(Pages) :
              /\ s = Head(post)[1] /\ b = Head(post)[2] /\ seq[s].out = <<>> /\ Saves(s, b, t)
              /\ t # <<>> => Len(t) = PagesForTokens(seq[s].cached)
              /\ \A x \in Members(t) : x \in Pages /\ ref[x] = 0
              /\ \A i, j \in 1..Len(t) : t[i] = t[j] => i = j
<1>1. /\ post # <<>> /\ step = "classify" /\ post' = Tail(post)
      /\ UNCHANGED <<slot, queues, step, batch, todo, pres, ones, decs>>
  BY DEF SavePrefix
<1>2. PICK s \in Seqs, b \in Slots : s = Head(post)[1] /\ b = Head(post)[2]
  BY <1>1, PostHead
<1>3. PICK n \in Nat \ {0} : n = seq[s].cached
  BY <1>1, <1>2, PostHead
<1>4. PICK k \in Nat : k = PagesForTokens(n)
  BY RowPlace
<1>5. seq[s].out = <<>> /\ \E t \in (IF Fresh(k) = {} THEN {<<>>} ELSE Fresh(k)) : Saves(s, b, t)
  BY <1>2, <1>3, <1>4 DEF SavePrefix, Saves
<1>6. PICK t : (t = <<>> \/ t \in Fresh(k)) /\ Saves(s, b, t)
  BY <1>5
<1>7. /\ t \in Seq(Pages) /\ (t # <<>> => Len(t) = k)
      /\ \A x \in Members(t) : x \in Pages /\ ref[x] = 0
      /\ \A i, j \in 1..Len(t) : t[i] = t[j] => i = j
  <2>1. CASE t = <<>>
    <3>1. Len(t) = 0 /\ 1..0 = {}
      BY <2>1
    <3> QED BY <2>1, <3>1, NoMembers
  <2>2. CASE t \in Fresh(k)
    BY <2>2, FreshFacts
  <2> QED BY <2>1, <2>2, <1>6
<1> QED BY <1>1, <1>2, <1>3, <1>4, <1>5, <1>6, <1>7

\* The snapshot of a prompt is saved.
LEMMA SavePrefixKeeps ==
  ASSUME VInv, SavePrefix
  PROVE  VInv'
<1>1. /\ post # <<>> /\ step = "classify" /\ post' = Tail(post)
      /\ UNCHANGED <<slot, queues, step, batch, todo, pres, ones, decs>>
  BY SaveFacts
<1>2. PICK s \in Seqs, b \in Slots, t \in Seq(Pages) :
        /\ s = Head(post)[1] /\ b = Head(post)[2] /\ seq[s].out = <<>> /\ Saves(s, b, t)
        /\ t # <<>> => Len(t) = PagesForTokens(seq[s].cached)
        /\ \A x \in Members(t) : x \in Pages /\ ref[x] = 0
  BY SaveFacts
<1>3. PICK n \in Nat \ {0} : n = seq[s].cached /\ n <= MaxLen
  BY <1>1, <1>2, PostHead
<1>4. PICK k \in Nat : k = PagesForTokens(n)
  BY RowPlace
<1>5. seq[s].out = <<>>
  BY <1>2
<1>6. Saves(s, b, t)
  BY <1>2
<1>7. /\ t \in Seq(Pages) /\ (t # <<>> => Len(t) = k)
      /\ \A x \in Members(t) : x \in Pages /\ ref[x] = 0
  BY <1>2, <1>3, <1>4
<1>8. PICK e \in EntryRecs(Prompts) : e = Snapshot(s, b, t) /\ EntryOK(e) /\ e.pages = t
  BY <1>1, <1>2, <1>3, <1>4, <1>5, <1>7, SnapshotFacts
<1>9. /\ entries' = Inserted(e) /\ ref' = RefsSaved(e)
      /\ page' = ZeroedFree(RefsSaved(e), DualWritten(t, b, n))
      /\ seq' = IF t = <<>> THEN seq ELSE [seq EXCEPT ![s] = [@ EXCEPT !.handle = t, !.hlen = n]]
  BY <1>3, <1>6, <1>8 DEF Saves
<1>10. /\ entries' \in Seq(EntryRecs(Prompts)) /\ Len(entries') <= MaxEntries
       /\ \A x : Cardinality(Listers(entries', x)) + Held(Dropped(e), x)
                   = Cardinality(Listers(entries, x)) + Held(t, x)
       /\ \A x : Cardinality(Listers(entries', x)) \in Nat
       /\ EntriesOK'
  <2>1. PICK u : u = Inserted(e)
    OBVIOUS
  <2>2. /\ u \in Seq(EntryRecs(Prompts)) /\ Len(u) <= MaxEntries
        /\ \A i \in 1..Len(u) : EntryOK(u[i])
        /\ \A i, j \in 1..Len(u) : u[i].toks = u[j].toks => i = j
        /\ \A x : Cardinality(Listers(u, x)) + Held(Dropped(e), x)
                    = Cardinality(Listers(entries, x)) + Held(e.pages, x)
        /\ \A x : Cardinality(Listers(u, x)) \in Nat
    BY <2>1, <1>8, InsertedFacts
  <2>3. entries' = u
    BY <2>1, <1>9
  <2> QED BY <2>2, <2>3, <1>8 DEF EntriesOK
<1>11. page' \in [Pages -> [0..BlockSize - 1 -> Histories]]
  <2>1. slot[b].kv \in Rows
    <3>1. slot[b] \in SlotRecs
      BY DEF VInv, VTypes
    <3> QED BY <3>1 DEF SlotRecs
  <2>2. 1 \in Nat \ {0} /\ n \in Nat
    OBVIOUS
  <2>3. RowsWritten(t, slot[b].kv, 1, n) \in [Pages -> [0..BlockSize - 1 -> Histories]]
    BY <2>1, <2>2, <1>3, WrittenTyped
  <2>4. DualWritten(t, b, n) \in [Pages -> [0..BlockSize - 1 -> Histories]]
    BY <2>3 DEF DualWritten, VInv, VTypes
  <2> QED BY <2>4, <1>9, ZeroedTyped
<1>12. PICK h \in Seq(Pages), m \in Nat :
         /\ h # <<>> => PagesForTokens(m) <= Len(h)
         /\ seq' = [seq EXCEPT ![s] = [@ EXCEPT !.handle = h, !.hlen = m]]
         /\ \A x : Held(h, x) <= Held(seq[s].handle, x) + Held(t, x)
  <2>0. \A y, x : Held(y, x) \in {0, 1}
    BY DEF Held
  <2>1. CASE t = <<>>
    <3>1. seq' = seq
      BY <2>1, <1>9
    <3>2. \A x : Held(seq[s].handle, x) <= Held(seq[s].handle, x) + Held(t, x)
      BY <2>0
    <3> QED BY <3>1, <3>2, SameHandle
  <2>2. CASE t # <<>>
    <3>1. seq' = [seq EXCEPT ![s] = [@ EXCEPT !.handle = t, !.hlen = n]]
      BY <2>2, <1>9
    <3>2. PagesForTokens(n) <= Len(t)
      BY <2>2, <1>4, <1>7
    <3>3. \A x : Held(t, x) <= Held(seq[s].handle, x) + Held(t, x)
      BY <2>0
    <3>4. n \in Nat
      OBVIOUS
    <3> QED BY <3>1, <3>2, <3>3, <3>4, <1>7
  <2> QED BY <2>1, <2>2
<1>13. \A x \in Pages : ref'[x] = ref[x] + 2 * Held(t, x) - Held(Dropped(e), x)
  BY <1>8, <1>9 DEF RefsSaved
<1>14. ASSUME NEW x \in Pages PROVE Holders(x)' <= ref'[x] /\ ref'[x] \in Nat
  <2>1. Holders(x)' = Cardinality(Listers(entries', x)) + Cardinality(Keepers(seq', x))
    BY <1>10, HoldersNext
  <2>2. Holders(x) = Cardinality(Listers(entries, x)) + Cardinality(Keepers(seq, x))
    BY HoldersFacts DEF VInv
  <2>3. PICK f, g : f = seq /\ g = seq'
    OBVIOUS
  <2>4. g[s].handle = h /\ Elsewhere(f, g, s)
    <3>1. PICK w : w = [seq[s] EXCEPT !.handle = h, !.hlen = m]
      OBVIOUS
    <3>2. seq \in [Seqs -> SeqRecs] /\ seq[s] \in SeqRecs
      BY DEF VInv, VTypes
    <3>3. w.handle = h
      BY <3>1, <3>2 DEF SeqRecs
    <3>4. g = [f EXCEPT ![s] = w]
      BY <3>1, <2>3, <1>12
    <3>5. f \in [Seqs -> SeqRecs]
      BY <3>2, <2>3
    <3>6. g[s] = w /\ \A r \in Seqs \ {s} : g[r] = f[r]
      BY <3>4, <3>5
    <3> QED BY <3>3, <3>6 DEF Elsewhere
  <2>5. /\ Cardinality(Keepers(f, x)) \in Nat /\ Cardinality(Keepers(g, x)) \in Nat
        /\ Cardinality(Keepers(g, x)) + Held(f[s].handle, x)
             = Cardinality(Keepers(f, x)) + Held(g[s].handle, x)
    BY <2>4, KeepersExcept
  <2>6. PICK a \in Nat, a1 \in Nat, c \in Nat, c1 \in Nat, rx \in Nat :
          /\ a = Cardinality(Listers(entries, x)) /\ a1 = Cardinality(Listers(entries', x))
          /\ c = Cardinality(Keepers(f, x)) /\ c1 = Cardinality(Keepers(g, x)) /\ rx = ref[x]
    <3>1. Cardinality(Listers(entries, x)) \in Nat
      BY ListersFinite DEF VInv, VTypes
    <3>2. ref[x] \in Nat
      BY DEF VInv, VTypes
    <3> QED BY <3>1, <3>2, <2>5, <1>10
  <2>7. PICK d \in {0, 1}, e1 \in {0, 1}, h0 \in {0, 1}, h1 \in {0, 1} :
          d = Held(Dropped(e), x) /\ e1 = Held(t, x) /\ h0 = Held(f[s].handle, x) /\ h1 = Held(h, x)
    BY DEF Held
  <2>8. /\ a1 + d = a + e1 /\ c1 + h0 = c + h1 /\ h1 <= h0 + e1 /\ a + c <= rx
        /\ ref'[x] = rx + 2 * e1 - d
    <3>1. a1 + d = a + e1
      BY <2>6, <2>7, <1>10
    <3>2. c1 + h0 = c + h1
      BY <2>4, <2>5, <2>6, <2>7
    <3>3. h1 <= h0 + e1
      BY <2>3, <2>7, <1>12
    <3>4. a + c <= rx
      BY <2>2, <2>3, <2>6 DEF VInv, PagesCovered
    <3>5. ref'[x] = rx + 2 * e1 - d
      BY <2>6, <2>7, <1>13
    <3> QED BY <3>1, <3>2, <3>3, <3>4, <3>5
  <2>9. a1 + c1 <= rx + 2 * e1 - d /\ rx + 2 * e1 - d \in Nat
    BY <2>8
  <2> QED BY <2>1, <2>3, <2>6, <2>8, <2>9
<1>15. ref' = [x \in Pages |-> ref'[x]]
  BY <1>9 DEF RefsSaved
<1> QED BY <1>1, <1>2, <1>10, <1>11, <1>12, <1>14, <1>15, HandleKeeps

\* The row of a decoded token is appended.
LEMMA AppendDecodeKeeps ==
  ASSUME VInv, AppendDecode
  PROVE  VInv'
<1>1. /\ post # <<>> /\ step = "classify" /\ post' = Tail(post) /\ entries' = entries
      /\ UNCHANGED <<slot, queues, step, batch, todo, pres, ones, decs>>
  BY DEF AppendDecode
<1>2. PICK s \in Seqs, b \in Slots : s = Head(post)[1] /\ b = Head(post)[2]
  BY <1>1, PostHead
<1>3. PICK n \in Nat \ {0} : n = seq[s].cached /\ n <= MaxLen
  BY <1>1, <1>2, PostHead
<1>4. PICK h \in Seq(Pages), m \in Nat :
        h = seq[s].handle /\ m = seq[s].hlen /\ (h # <<>> => PagesForTokens(m) <= Len(h))
  BY SameHandle
<1>5. /\ entries' \in Seq(EntryRecs(Prompts)) /\ Len(entries') <= MaxEntries /\ EntriesOK'
      /\ ref \in [Pages -> Nat] /\ page \in [Pages -> [0..BlockSize - 1 -> Histories]]
      /\ \A x \in Pages : Holders(x) <= ref[x]
  BY <1>1 DEF VInv, VTypes, EntriesOK, PagesCovered
<1>6. \/ UNCHANGED <<ref, page, seq>>
      \/ /\ h # <<>>
         /\ \E t \in Grown(h, n) :
              /\ ref' = [p \in Pages |-> ref[p] + Held(t, p)]
              /\ page' = Appended(h \o t, b, n)
              /\ seq' = [seq EXCEPT ![s] = [@ EXCEPT !.handle = h \o t, !.hlen = IF m < n THEN n ELSE m]]
  BY <1>2, <1>3, <1>4 DEF AppendDecode
<1>7. CASE UNCHANGED <<ref, page, seq>>
  <2>1. seq' = [seq EXCEPT ![s] = [@ EXCEPT !.handle = h, !.hlen = m]]
    BY <1>4, <1>7, SameHandle
  <2>2. \A x : Holders(x)' = Holders(x)
    BY <1>1, <1>7 DEF Holders
  <2>3. \A x \in Pages : Holders(x)' <= ref'[x] /\ ref'[x] \in Nat
    BY <2>2, <1>5, <1>7
  <2>4. ref' = [x \in Pages |-> ref'[x]] /\ page' \in [Pages -> [0..BlockSize - 1 -> Histories]]
    BY <1>5, <1>7
  <2> QED BY <2>1, <2>3, <2>4, <1>1, <1>2, <1>4, <1>5, HandleKeeps
<1>8. ASSUME h # <<>>, NEW t \in Grown(h, n), ref' = [p \in Pages |-> ref[p] + Held(t, p)],
             page' = Appended(h \o t, b, n),
             seq' = [seq EXCEPT ![s] = [@ EXCEPT !.handle = h \o t, !.hlen = IF m < n THEN n ELSE m]]
      PROVE  VInv'
  <2>1. PICK k \in Nat : k = PagesForTokens(n)
    BY RowPlace
  <2>2. PICK l \in Nat : l = Len(h)
    OBVIOUS
  <2>3. PICK j \in Nat : j = (IF k > l THEN k - l ELSE 0) /\ t \in Fresh(j)
    <3>1. (IF k > l THEN k - l ELSE 0) \in Nat
      OBVIOUS
    <3> QED BY <3>1, <2>1, <2>2, <1>8 DEF Grown
  <2>4. t \in Seq(Pages) /\ Len(t) = j
    BY <2>3, FreshFacts
  <2>5. PICK g \in Seq(Pages) : /\ g = h \o t /\ Len(g) = l + j
                                /\ Members(g) = Members(h) \cup Members(t)
    BY <2>2, <2>4, MembersConcat
  <2>6. PICK i \in Nat : i = IF m < n THEN n ELSE m
    OBVIOUS
  <2>7. PagesForTokens(i) <= Len(g)
    <3>1. PagesForTokens(m) \in Nat /\ PagesForTokens(m) <= l
      BY <2>2, <1>4, <1>8, RowPlace
    <3>2. k <= l + j /\ l <= l + j
      BY <2>3
    <3>3. CASE m < n
      BY <3>2, <3>3, <2>1, <2>5, <2>6
    <3>4. CASE ~(m < n)
      BY <3>1, <3>2, <3>4, <2>5, <2>6
    <3> QED BY <3>3, <3>4
  <2>8. seq' = [seq EXCEPT ![s] = [@ EXCEPT !.handle = g, !.hlen = i]]
    BY <2>5, <2>6, <1>8
  <2>9. page' \in [Pages -> [0..BlockSize - 1 -> Histories]]
    <3>1. slot[b].kv \in Rows
      <4>1. slot[b] \in SlotRecs
        BY DEF VInv, VTypes
      <4> QED BY <4>1 DEF SlotRecs
    <3>2. n \in Nat
      OBVIOUS
    <3>3. RowsWritten(g, slot[b].kv, n, n) \in [Pages -> [0..BlockSize - 1 -> Histories]]
      BY <3>1, <3>2, <1>3, WrittenTyped
    <3> QED BY <3>3, <2>5, <1>8 DEF Appended
  <2>10. ASSUME NEW x \in Pages PROVE Holders(x)' <= ref'[x] /\ ref'[x] \in Nat
    <3>1. Holders(x)' = Cardinality(Listers(entries, x)) + Cardinality(Keepers(seq', x))
      BY <1>1, <1>5, HoldersNext
    <3>2. Holders(x) = Cardinality(Listers(entries, x)) + Cardinality(Keepers(seq, x))
      BY HoldersFacts DEF VInv
    <3>3. PICK f, f1 : f = seq /\ f1 = seq'
      OBVIOUS
    <3>4. f1[s].handle = g /\ Elsewhere(f, f1, s)
      <4>1. PICK w : w = [seq[s] EXCEPT !.handle = g, !.hlen = i]
        OBVIOUS
      <4>2. seq \in [Seqs -> SeqRecs] /\ seq[s] \in SeqRecs
        BY DEF VInv, VTypes
      <4>3. w.handle = g
        BY <4>1, <4>2 DEF SeqRecs
      <4>4. f1 = [f EXCEPT ![s] = w]
        BY <4>1, <3>3, <2>8
      <4>5. f \in [Seqs -> SeqRecs]
        BY <4>2, <3>3
      <4>6. f1[s] = w /\ \A r \in Seqs \ {s} : f1[r] = f[r]
        BY <4>4, <4>5
      <4> QED BY <4>3, <4>6 DEF Elsewhere
    <3>5. /\ Cardinality(Keepers(f, x)) \in Nat /\ Cardinality(Keepers(f1, x)) \in Nat
          /\ Cardinality(Keepers(f1, x)) + Held(f[s].handle, x)
               = Cardinality(Keepers(f, x)) + Held(f1[s].handle, x)
      BY <3>4, KeepersExcept
    <3>6. PICK a \in Nat, c \in Nat, c1 \in Nat, rx \in Nat :
            /\ a = Cardinality(Listers(entries, x))
            /\ c = Cardinality(Keepers(f, x)) /\ c1 = Cardinality(Keepers(f1, x)) /\ rx = ref[x]
      <4>1. Cardinality(Listers(entries, x)) \in Nat
        BY ListersFinite DEF VInv, VTypes
      <4> QED BY <4>1, <3>5, <1>5
    <3>7. PICK e1 \in {0, 1}, h0 \in {0, 1}, h1 \in {0, 1} :
            e1 = Held(t, x) /\ h0 = Held(h, x) /\ h1 = Held(g, x) /\ h1 <= h0 + e1
      BY <2>5 DEF Held
    <3>8. c1 + h0 = c + h1 /\ a + c <= rx /\ ref'[x] = rx + e1
      <4>1. c1 + h0 = c + h1
        BY <3>3, <3>4, <3>5, <3>6, <3>7, <1>4
      <4>2. a + c <= rx
        BY <3>2, <3>3, <3>6, <1>5
      <4>3. ref'[x] = rx + e1
        BY <3>6, <3>7, <1>8
      <4> QED BY <4>1, <4>2, <4>3
    <3>9. a + c1 <= rx + e1 /\ rx + e1 \in Nat
      <4>1. h1 <= h0 + e1
        BY <3>7
      <4>2. c1 <= c + e1
        BY <4>1, <3>8
      <4> QED BY <4>2, <3>8
    <3> QED BY <3>1, <3>3, <3>6, <3>8, <3>9
  <2>11. ref' = [x \in Pages |-> ref'[x]]
    BY <1>8
  <2> QED BY <2>7, <2>8, <2>9, <2>10, <2>11, <1>1, <1>2, <1>5, HandleKeeps
<1> QED BY <1>6, <1>7, <1>8

-----------------------------------------------------------------------------
(* Theorems for any batch size                                               *)

\* The engine starts in the invariant.
LEMMA InitVInv == Init => VInv
<1> SUFFICES ASSUME Init PROVE VInv
  OBVIOUS
<1>1. /\ entries = <<>> /\ ref = [p \in Pages |-> 0] /\ page = [p \in Pages |-> ZeroPage]
      /\ slot = [b \in Slots |-> ClearedSlot] /\ seq = [s \in Seqs |-> NewSequence]
      /\ waiting = <<>> /\ running = <<>> /\ step = "idle" /\ batch = <<>> /\ todo = <<>>
      /\ pres = <<>> /\ ones = <<>> /\ decs = <<>> /\ post = <<>>
  BY DEF Init
<1>2. Len(<<>>) = 0 /\ \A T : <<>> \in Seq(T)
  OBVIOUS
<1>3. \A s \in Seqs : seq[s] = NewSequence
  BY <1>1
<1>4. VTypes
  <2>1. /\ ref \in [Pages -> Nat] /\ page \in [Pages -> [0..BlockSize - 1 -> Histories]]
        /\ slot \in [Slots -> SlotRecs] /\ seq \in [Seqs -> SeqRecs]
    BY <1>1, BlankTyped
  <2>2. entries \in Seq(EntryRecs(Prompts)) /\ Len(entries) <= MaxEntries
    BY <1>1, <1>2, Constants
  <2> QED BY <2>1, <2>2, <1>1, <1>2 DEF VTypes
<1>5. EntriesOK
  BY <1>1, <1>2 DEF EntriesOK
<1>6. /\ NewSequence.prompt = <<>> /\ NewSequence.out = <<>> /\ NewSequence.cached = 0
      /\ NewSequence.handle = <<>> /\ ~NewSequence.pending
  BY DEF NewSequence
<1>7. SeqOK(NewSequence)
  BY <1>2, <1>6, Constants DEF SeqOK
<1>8. SeqsOK
  BY <1>3, <1>7 DEF SeqsOK
<1>9. Behinds
  <2>1. ASSUME NEW s \in Seqs PROVE Behind(s)
    <3>1. seq[s].out = <<>> /\ seq[s].cached = 0 /\ seq[s].prompt = <<>>
      BY <1>3, <1>6
    <3>2. seq[s].cached <= Len(seq[s].prompt)
      BY <3>1, <1>2
    <3> QED BY <3>1, <3>2 DEF Behind
  <2> QED BY <2>1 DEF Behinds
<1>10. Filled
  BY <1>1, NoMembers DEF Filled, Waits
<1>11. Listing
  <2>1. Len(running) <= MaxBatch /\ Len(batch) <= MaxBatch
    BY <1>1, <1>2, Constants
  <2> QED BY <2>1, <1>1, NoMembers DEF Listing, Listed
<1>12. Listeds
  BY <1>1, <1>2, NoMembers DEF Listeds
<1>13. PagesCovered
  <2> SUFFICES ASSUME NEW p \in Pages PROVE Holders(p) <= ref[p]
    BY DEF PagesCovered
  <2>1. {i \in DOMAIN entries : p \in Members(entries[i].pages)} = {}
    BY <1>1
  <2>2. {s \in Seqs : p \in Members(seq[s].handle)} = {}
    BY <1>3, <1>6, NoMembers
  <2>3. Cardinality({}) = 0
    BY FS_EmptySet
  <2> DEFINE A == {i \in DOMAIN entries : p \in Members(entries[i].pages)}
             B == {s \in Seqs : p \in Members(seq[s].handle)}
  <2>5. A = {} /\ B = {} /\ Holders(p) = Cardinality(A) + Cardinality(B)
    BY <2>1, <2>2 DEF Holders
  <2> HIDE DEF A, B
  <2>6. Cardinality(A) = 0 /\ Cardinality(B) = 0
    BY <2>3, <2>5
  <2>4. Holders(p) = 0
    BY <2>5, <2>6
  <2> QED BY <2>4, <1>1
<1> QED BY <1>4, <1>5, <1>8, <1>9, <1>10, <1>11, <1>12, <1>13 DEF VInv

\* Every step keeps it.
LEMMA NextVInv == VInv /\ [Next]_vars => VInv'
<1> SUFFICES ASSUME VInv, [Next]_vars PROVE VInv'
  OBVIOUS
<1>1. CASE UNCHANGED vars
  <2>1. \A s \in Seqs : /\ Behind(s)' <=> Behind(s)
                        /\ Waits(s)' <=> Waits(s)
    BY <1>1 DEF vars, Behind, Waits
  <2>2. VTypes' /\ EntriesOK' /\ SeqsOK'
    BY <1>1 DEF vars, VInv, VTypes, EntriesOK, SeqsOK
  <2>3. Behinds' /\ Filled'
    BY <2>1, <1>1 DEF vars, VInv, Behinds, Filled
  <2>4. Listing' /\ Listeds'
    BY <1>1 DEF vars, VInv, Listing, Listed, Listeds, Prompted, FillsOK, OnesOK, DecsOK, PostOK
  <2>5. PagesCovered'
    BY <1>1, CoveredStep DEF vars, VInv
  <2> QED BY <2>2, <2>3, <2>4, <2>5 DEF VInv
<1>2. CASE \E s \in Seqs, p \in Prompts : Admit(s, p)
  BY <1>2, AdmitKeeps
<1>3. CASE \E s \in Seqs : Cancel(s)
  BY <1>3, CancelKeeps
<1>4. CASE Schedule \/ SkipFinished \/ ExactHit \/ Classify
  BY <1>4, ScheduleKeeps, SkipFinishedKeeps, ExactHitKeeps, ClassifyKeeps
<1>5. CASE BatchPrefill \/ SplitGroup \/ PrefillOne \/ BatchDecode \/ ForwardRaises
  BY <1>5, BatchPrefillKeeps, SplitGroupKeeps, PrefillOneKeeps, BatchDecodeKeeps, ForwardRaisesKeeps
<1>6. CASE SavePrefix \/ AppendDecode \/ RunDone \/ Emit \/ EndStep
  BY <1>6, SavePrefixKeeps, AppendDecodeKeeps, RunDoneKeeps, EmitKeeps, EndStepKeeps
<1> QED BY <1>1, <1>2, <1>3, <1>4, <1>5, <1>6 DEF Next

\* The invariant has the types of the state in it.
LEMMA VInvTyped == VInv => V4TypeOK
<1> SUFFICES ASSUME VInv PROVE V4TypeOK
  OBVIOUS
<1>1. VTypes /\ Len(batch) <= MaxBatch
  BY DEF VInv, Listing
<1>2. \A i \in DOMAIN entries : entries[i] \in EntryRecs(Prompts)
  BY <1>1 DEF VTypes
<1>3. ASSUME NEW s \in Seqs PROVE seq[s].handle \in Seq(Pages) /\ seq[s].cached \in 0..MaxLen
  <2>1. PICK q \in SeqRecs : q = seq[s] /\ SeqOK(q)
    BY DEF VInv, VTypes, SeqsOK
  <2>2. q.handle \in Seq(Pages) /\ q.cached \in Nat /\ q.prompt \in AnyPrompt /\ q.out \in Seq(OutTokens)
    BY DEF SeqRecs
  <2>3. CASE q.prompt = <<>>
    <3>1. q.cached = 0
      BY <2>1, <2>3 DEF SeqOK, NewSequence
    <3> QED BY <3>1, <2>1, <2>2, Constants
  <2>4. CASE q.prompt # <<>>
    <3>1. q.prompt \in Prompts
      BY <2>2, <2>4 DEF AnyPrompt
    <3>2. q.prompt \in Seq(Vocab) /\ Len(q.prompt) + MaxTokens <= MaxLen
      BY <3>1, HistoryFacts
    <3>3. PICK x \in Nat, y \in Nat, z \in Nat : x = q.cached /\ y = Len(q.prompt) /\ z = Len(q.out)
      BY <3>2, <2>2
    <3>4. x <= y + z /\ z < MaxTokens /\ y + MaxTokens <= MaxLen /\ MaxTokens \in Nat /\ MaxLen \in Nat
      BY <3>2, <3>3, <2>1, Constants DEF SeqOK
    <3>5. x \in 0..MaxLen
      BY <3>4
    <3> QED BY <3>3, <3>5, <2>1, <2>2
  <2> QED BY <2>3, <2>4
<1>4. \A q \in {waiting, running, batch, todo, pres, ones, decs} : q \in Seq(Seqs)
  BY <1>1 DEF VTypes
<1>5. slot \in [Slots -> [kv : Rows, st : Histories]]
  BY <1>1 DEF VTypes, SlotRecs
<1> QED BY <1>1, <1>2, <1>3, <1>4, <1>5 DEF V4TypeOK, VTypes, EntryRecs

(* The state of the V4 path keeps its type whatever the pool, the batch size *)
(* and the prompts, and insert keeps the prefix cache to max_entries.        *)
THEOREM V4Typed == SpecV4 => []V4TypeOK
<1>1. SpecV4 => []VInv
  BY InitVInv, NextVInv, PTL DEF SpecV4
<1> QED BY <1>1, VInvTyped, PTL

(* No page is handed out while an entry or a sequence lists it, for any pool *)
(* and batch size: fork_blocks and release_blocks keep the count of a page   *)
(* at or above the number of its holders, so allocate_blocks, which takes    *)
(* pages of count 0, never gives one away twice.                             *)
THEOREM PagesStayCovered == SpecV4 => []PagesCovered
<1>1. SpecV4 => []VInv
  BY InitVInv, NextVInv, PTL DEF SpecV4
<1>2. VInv => PagesCovered
  BY DEF VInv
<1> QED BY <1>1, <1>2, PTL

-----------------------------------------------------------------------------
(* Batches of one sequence: the inductive invariant                          *)

\* The first n tokens of a sequence, and the row of position i in pages.
Upto(q, n) == SubSeq(q.prompt \o q.out, 1, n)
Row(pg, h, i) == pg[h[(i - 1) \div BlockSize + 1]][(i - 1) % BlockSize]
RowsOf(pg, h, text, n) == \A i \in 1..n : Row(pg, h, i) = SubSeq(text, 1, i)

\* A prefix hit: its state, and without pages its K/V rows, are in the snapshot.
HitOK(q) ==
  /\ q.hlen = q.cached /\ Len(q.hit.toks) = q.cached
  /\ q.hit.st = SubSeq(q.prompt, 1, q.cached)
  /\ q.handle = <<>> => \A i \in 1..q.cached : q.hit.kv[i] = SubSeq(q.prompt, 1, i)

\* One sequence: its logits come from its own text, and the pages that a hit
\* has still to read hold its prompt.
SeqSound(q, pg) ==
  /\ q.heard = Upto(q, q.cached)
  /\ q.out # <<>> => Len(q.prompt) + Len(q.out) <= q.cached + 1
  /\ q.prepared => ~q.pending
  /\ ~q.prepared => q.out = <<>> /\ ~q.need /\ (q.cached > 0 => q.pending)
  /\ q.pending => HitOK(q)
  /\ (q.pending \/ q.need) /\ q.handle # <<>> =>
       q.hlen <= Len(q.prompt) /\ RowsOf(pg, q.handle, q.prompt, q.hlen)
Sounds == \A s \in Seqs : SeqSound(seq[s], page)

\* One entry: its logits, its state and its rows are those of its tokens.
EntrySound(e, pg) ==
  /\ e.logits = e.toks /\ e.st = e.toks
  /\ e.pages = <<>> => \A i \in 1..Len(e.toks) : e.kv[i] = SubSeq(e.toks, 1, i)
  /\ e.pages # <<>> => RowsOf(pg, e.pages, e.toks, Len(e.toks))
EntriesSound == \A i \in 1..Len(entries) : EntrySound(entries[i], page)

\* One sequence is served at a time; nothing is prepared while it waits.
Serving == Members(running) \cup Members(batch)
Turns ==
  /\ \A s, r \in Serving : s = r
  /\ Len(todo) <= 1
  /\ \A i, j \in 1..Len(waiting) : waiting[i] = waiting[j] => i = j
  /\ \A s \in Members(waiting) : ~seq[s].prepared /\ s \notin Serving

\* The sequence has the K/V of its whole text in its slot.
Done(q) == q.prepared /\ Len(q.prompt) + Len(q.out) <= q.cached
Written(q) == Done(q) /\ ~q.need /\ (q.out # <<>> => Len(q.prompt) < q.cached)
InLists(s) == s \in Members(pres) \cup Members(ones) \cup Members(decs)
Paced ==
  /\ \A s \in Seqs : ~seq[s].fin /\ ~Waits(s) => InLists(s) \/ Done(seq[s])
  /\ \A i \in 1..Len(post) : post[i][1] \in Members(batch) /\ Written(seq[post[i][1]])

\* The one slot holds the text of the sequence that is served.
Keeps(v, q) == v.st = Upto(q, q.cached) /\ \A i \in 1..q.cached : v.kv[i] = Upto(q, i)
SlotHolds(v, q) == q.prepared => Keeps(v, q)
SlotSound == \A s \in Serving : SlotHolds(slot[0], seq[s])

\* Every page has one place in all lists, and a fill f that the readers of the
\* list do not exceed and its writers do not write below.
LaidEntry(x, f, e) ==
  \A k \in 1..Len(e.pages) : x[e.pages[k]] = k /\ f[e.pages[k]] = Len(e.toks)
LaidSeq(x, f, q) ==
  \A k \in 1..Len(q.handle) :
    /\ x[q.handle[k]] = k /\ f[q.handle[k]] <= Len(q.prompt)
    /\ q.pending \/ q.need => q.hlen <= f[q.handle[k]]
Laid(x, f) ==
  /\ \A i \in 1..Len(entries) : LaidEntry(x, f, entries[i])
  /\ \A s \in Seqs : LaidSeq(x, f, seq[s])
SharedSoundly == \E x, f \in [Pages -> Nat] : Laid(x, f)

SInv == Sounds /\ EntriesSound /\ Turns /\ Paced /\ SlotSound /\ SharedSoundly

-----------------------------------------------------------------------------
(* Texts                                                                     *)

\* Texts that agree on their first n tokens.
LEMMA SamePrefix ==
  ASSUME NEW T, NEW a \in Seq(T), NEW b \in Seq(T), NEW n \in Nat, n <= Len(a), n <= Len(b),
         \A i \in 1..n : a[i] = b[i]
  PROVE  SubSeq(a, 1, n) = SubSeq(b, 1, n)
<1>1. n \in 0..Len(a) /\ n \in 0..Len(b)
  OBVIOUS
<1>2. /\ SubSeq(a, 1, n) \in Seq(T) /\ Len(SubSeq(a, 1, n)) = n
      /\ \A i \in 1..n : SubSeq(a, 1, n)[i] = a[i]
  BY <1>1, PartFacts
<1>3. /\ SubSeq(b, 1, n) \in Seq(T) /\ Len(SubSeq(b, 1, n)) = n
      /\ \A i \in 1..n : SubSeq(b, 1, n)[i] = b[i]
  BY <1>1, PartFacts
<1> QED BY <1>2, <1>3, SeqEqual

\* The prefixes of a text and of its prefixes.
LEMMA PrefixFacts ==
  ASSUME NEW T, NEW a \in Seq(T), NEW n \in 0..Len(a)
  PROVE  /\ SubSeq(a, 1, n) \in Seq(T) /\ Len(SubSeq(a, 1, n)) = n
         /\ \A i \in 0..n : SubSeq(SubSeq(a, 1, n), 1, i) = SubSeq(a, 1, i)
         /\ SubSeq(a, 1, Len(a)) = a
<1> DEFINE b == SubSeq(a, 1, n)
<1>1. b \in Seq(T) /\ Len(b) = n /\ \A i \in 1..n : b[i] = a[i]
  BY PartFacts
<1> HIDE DEF b
<1>2. ASSUME NEW i \in 0..n PROVE SubSeq(b, 1, i) = SubSeq(a, 1, i)
  <2>1. i \in Nat /\ i <= Len(b) /\ i <= Len(a) /\ \A j \in 1..i : b[j] = a[j]
    BY <1>1
  <2> QED BY <2>1, <1>1, SamePrefix
<1>3. SubSeq(a, 1, Len(a)) = a
  BY SubSeqFull
<1> QED BY <1>1, <1>2, <1>3 DEF b

\* A text is a prefix and the rest.
LEMMA PrefixAndRest ==
  ASSUME NEW T, NEW a \in Seq(T), NEW n \in 0..Len(a), NEW u \in Seq(T), Len(u) = Len(a) - n,
         \A i \in 1..Len(u) : u[i] = a[n + i]
  PROVE  SubSeq(a, 1, n) \o u = a
<1> DEFINE b == SubSeq(a, 1, n)
<1>1. b \in Seq(T) /\ Len(b) = n /\ \A i \in 1..n : b[i] = a[i]
  BY PartFacts
<1> HIDE DEF b
<1>2. /\ b \o u \in Seq(T) /\ Len(b \o u) = Len(b) + Len(u)
      /\ \A i \in 1..Len(b) : (b \o u)[i] = b[i]
      /\ \A i \in Len(b) + 1..Len(b) + Len(u) : i - Len(b) \in 1..Len(u) /\ (b \o u)[i] = u[i - Len(b)]
  BY <1>1, ConcatFacts
<1>3. PICK c \in Seq(T) :
         /\ c = b \o u /\ Len(c) = n + Len(u)
         /\ \A i \in 1..n : c[i] = b[i]
         /\ \A i \in n + 1..n + Len(u) : i - n \in 1..Len(u) /\ c[i] = u[i - n]
  BY <1>1, <1>2
<1>4. Len(c) = Len(a)
  BY <1>1, <1>3
<1>5. ASSUME NEW i \in 1..Len(a) PROVE c[i] = a[i]
  <2>1. CASE i <= n
    BY <2>1, <1>1, <1>3
  <2>2. CASE i > n
    <3>1. i \in n + 1..n + Len(u)
      BY <2>2, <1>1
    <3>2. PICK j \in 1..Len(u) : j = i - n /\ c[i] = u[j]
      BY <3>1, <1>3
    <3>3. n + j = i
      BY <3>2
    <3>4. u[j] = a[n + j]
      OBVIOUS
    <3> QED BY <3>2, <3>3, <3>4
  <2> QED BY <2>1, <2>2
<1> QED BY <1>3, <1>4, <1>5, SeqEqual DEF b

\* The text of a sequence: its prompt, then its output.
LEMMA TextFacts ==
  ASSUME NEW q \in SeqRecs
  PROVE  /\ q.prompt \in Seq(Vocab) /\ q.out \in Seq(Vocab) /\ q.prompt \o q.out \in Seq(Vocab)
         /\ Len(q.prompt) \in Nat /\ Len(q.out) \in Nat /\ q.cached \in Nat /\ q.hlen \in Nat
         /\ Len(q.prompt \o q.out) = Len(q.prompt) + Len(q.out)
         /\ \A n \in 0..Len(q.prompt) : Upto(q, n) = SubSeq(q.prompt, 1, n)
         /\ \A n \in 0..Len(q.prompt) + Len(q.out) :
              /\ Upto(q, n) \in Seq(Vocab) /\ Len(Upto(q, n)) = n
              /\ \A i \in 0..n : SubSeq(Upto(q, n), 1, i) = Upto(q, i)
<1>1. PICK p \in Seq(Vocab), x \in Seq(Vocab) : p = q.prompt /\ x = q.out
  BY HistoryFacts DEF SeqRecs
<1>2. /\ p \o x \in Seq(Vocab) /\ Len(p \o x) = Len(p) + Len(x) /\ Len(p) \in Nat /\ Len(x) \in Nat
      /\ \A i \in 1..Len(p) : (p \o x)[i] = p[i]
  BY ConcatFacts
<1>3. PICK t \in Seq(Vocab) : t = p \o x
  BY <1>2
<1>4. ASSUME NEW n \in 0..Len(p) PROVE SubSeq(t, 1, n) = SubSeq(p, 1, n)
  <2>1. n \in Nat /\ n <= Len(p) /\ n <= Len(t) /\ \A i \in 1..n : t[i] = p[i]
    BY <1>2, <1>3
  <2> QED BY <2>1, SamePrefix
<1>5. \A n \in 0..Len(t) : /\ SubSeq(t, 1, n) \in Seq(Vocab) /\ Len(SubSeq(t, 1, n)) = n
                           /\ \A i \in 0..n : SubSeq(SubSeq(t, 1, n), 1, i) = SubSeq(t, 1, i)
  BY PrefixFacts
<1>6. \A n : Upto(q, n) = SubSeq(t, 1, n)
  BY <1>1, <1>3 DEF Upto
<1>7. q.cached \in Nat /\ q.hlen \in Nat
  BY DEF SeqRecs
<1>8. \A n \in 0..Len(p) : Upto(q, n) = SubSeq(p, 1, n)
  BY <1>4, <1>6
<1>9. \A n \in 0..Len(p) + Len(x) :
         /\ Upto(q, n) \in Seq(Vocab) /\ Len(Upto(q, n)) = n
         /\ \A i \in 0..n : SubSeq(Upto(q, n), 1, i) = Upto(q, i)
  <2> TAKE n \in 0..Len(p) + Len(x)
  <2>1. n \in 0..Len(t)
    BY <1>2, <1>3
  <2>2. Upto(q, n) = SubSeq(t, 1, n) /\ \A i \in 0..n : Upto(q, i) = SubSeq(t, 1, i)
    BY <1>6
  <2> HIDE DEF Upto
  <2> QED BY <2>1, <2>2, <1>5
<1> QED BY <1>1, <1>2, <1>7, <1>8, <1>9

-----------------------------------------------------------------------------
(* Restoring a slot and forwarding a sequence in it                          *)

\* A restored slot, and one made ready for a forward, hold the sequence's text.
LEMMA ReadyHolds ==
  ASSUME VInv, NEW s \in Seqs, SeqSound(seq[s], page), NEW v \in SlotRecs, SlotHolds(v, seq[s])
  PROVE  Keeps(EnsureRestored(s, v), seq[s]) /\ Keeps(Ready(s, v), seq[s])
<1>1. PICK q \in SeqRecs : q = seq[s] /\ SeqOK(q) /\ SeqSound(q, page) /\ SlotHolds(v, q)
  BY DEF VInv, VTypes, SeqsOK
<1>2. PICK c \in Nat, m \in Nat, n \in Nat : c = q.cached /\ m = Len(q.prompt) /\ n = q.hlen
  BY TextFacts
<1>3. c <= MaxLen /\ MaxLen \in Nat
  <2>1. V4TypeOK
    BY VInvTyped
  <2> QED BY <2>1, <1>1, <1>2, Constants DEF V4TypeOK
<1>4. \A i \in 0..m : Upto(q, i) = SubSeq(q.prompt, 1, i)
  BY <1>2, TextFacts
<1>5. PICK h \in Seq(Pages), e \in EntryRecs(AnyPrompt) : h = q.handle /\ e = q.hit
  BY DEF SeqRecs
<1>6. (q.pending \/ q.need) /\ h # <<>> => n <= m /\ \A i \in 1..n : PageRow(h, i) = Upto(q, i)
  <2> SUFFICES ASSUME q.pending \/ q.need, h # <<>>
               PROVE  n <= m /\ \A i \in 1..n : PageRow(h, i) = Upto(q, i)
    OBVIOUS
  <2>1. n <= m /\ \A i \in 1..n : Row(page, h, i) = SubSeq(q.prompt, 1, i)
    BY <1>1, <1>2, <1>5 DEF SeqSound, RowsOf
  <2>2. \A i : PageRow(h, i) = Row(page, h, i)
    BY DEF PageRow, Row
  <2> QED BY <2>1, <2>2, <1>4
<1>7. ASSUME q.pending PROVE Keeps(Restored(s, v), q)
  <2>1. q.out = <<>> /\ HitOK(q)
    BY <1>1, <1>7 DEF SeqSound
  <2>2. c <= m
    <3>1. c <= m + Len(q.out) /\ Len(q.out) = 0
      BY <2>1, <1>1, <1>2 DEF SeqOK
    <3> QED BY <3>1
  <2>3. /\ n = c /\ Len(e.toks) = c /\ e.st = Upto(q, c)
        /\ h = <<>> => \A i \in 1..c : e.kv[i] = Upto(q, i)
    <3>1. /\ n = c /\ Len(e.toks) = c /\ e.st = SubSeq(q.prompt, 1, c)
          /\ h = <<>> => \A i \in 1..c : e.kv[i] = SubSeq(q.prompt, 1, i)
      BY <2>1, <1>2, <1>5 DEF HitOK
    <3> QED BY <3>1, <2>2, <1>4
  <2>4. CASE h = <<>>
    <3>1. PICK w : w = [kv |-> e.kv, st |-> e.st]
      OBVIOUS
    <3>2. Restored(s, v) = w
      BY <2>4, <3>1, <1>1, <1>5 DEF Restored, FromSnapshot
    <3>3. w.kv = e.kv /\ w.st = e.st
      BY <3>1
    <3> QED BY <3>2, <3>3, <2>3, <2>4, <1>2 DEF Keeps
  <2>5. CASE h # <<>>
    <3>1. PICK r : r = RowsFromPages(h, c, v.kv)
      OBVIOUS
    <3>2. [v EXCEPT !.kv = r].kv = r
      BY DEF SlotRecs
    <3>3. PICK w : w = [kv |-> r, st |-> e.st]
      OBVIOUS
    <3>4. Restored(s, v) = w
      <4>1. Restored(s, v) = FromSnapshot(e, [v EXCEPT !.kv = RowsFromPages(h, Len(e.toks), @)], TRUE)
        BY <2>5, <1>1, <1>5 DEF Restored
      <4>2. [v EXCEPT !.kv = RowsFromPages(h, Len(e.toks), @)] = [v EXCEPT !.kv = r]
        BY <3>1, <2>3
      <4> QED BY <4>1, <4>2, <3>2, <3>3 DEF FromSnapshot
    <3>5. ASSUME NEW i \in 1..c PROVE r[i] = Upto(q, i)
      <4>1. i \in Positions /\ i <= c /\ i \in 1..n
        BY <2>3, <1>3 DEF Positions
      <4>2. r[i] = PageRow(h, i)
        BY <4>1, <3>1 DEF RowsFromPages
      <4> QED BY <4>1, <4>2, <2>5, <1>6, <1>7
    <3>6. w.kv = r /\ w.st = e.st
      BY <3>3
    <3> QED BY <3>4, <3>5, <3>6, <2>3, <1>2 DEF Keeps
  <2> QED BY <2>4, <2>5
<1>8. Keeps(EnsureRestored(s, v), q)
  <2>1. CASE q.pending
    BY <2>1, <1>1, <1>7 DEF EnsureRestored
  <2>2. CASE ~q.pending /\ ~q.prepared
    <3>1. c = 0
      BY <2>2, <1>1, <1>2 DEF SeqSound
    <3>2. EnsureRestored(s, v) = ClearedSlot
      BY <2>2, <3>1, <1>1, <1>2 DEF EnsureRestored
    <3>3. ClearedSlot.st = <<>>
      BY DEF ClearedSlot
    <3>4. Upto(q, 0) = <<>>
      <4>1. 0 \in 0..Len(q.prompt) + Len(q.out)
        <5>1. PICK j \in Nat, k \in Nat : j = Len(q.prompt) /\ k = Len(q.out)
          BY TextFacts
        <5>2. 0 \in 0..j + k
          OBVIOUS
        <5> QED BY <5>1, <5>2
      <4>2. PICK y \in Seq(Vocab) : y = Upto(q, 0) /\ Len(y) = 0
        BY <4>1, TextFacts
      <4>3. y = <<>>
        BY <4>2, MembersFacts
      <4> QED BY <4>2, <4>3
    <3> QED BY <3>1, <3>2, <3>3, <3>4, <1>2 DEF Keeps
  <2>3. CASE ~q.pending /\ q.prepared
    <3>1. EnsureRestored(s, v) = v
      BY <2>3, <1>1 DEF EnsureRestored
    <3> QED BY <3>1, <2>3, <1>1 DEF SlotHolds
  <2> QED BY <2>1, <2>2, <2>3
<1>9. ASSUME NEW w \in SlotRecs, Keeps(w, q) PROVE Keeps(Staged(s, w), q)
  <2>1. CASE NeedsStage(s)
    <3>1. (q.pending \/ q.need) /\ h # <<>>
      BY <2>1, <1>1, <1>5 DEF NeedsStage
    <3>2. PICK r : r = RowsFromPages(h, n, w.kv)
      OBVIOUS
    <3>3. Staged(s, w) = [w EXCEPT !.kv = r]
      BY <2>1, <3>2, <1>1, <1>2, <1>5 DEF Staged
    <3>4. [w EXCEPT !.kv = r].kv = r /\ [w EXCEPT !.kv = r].st = w.st
      BY DEF SlotRecs
    <3>5. w.st = Upto(q, c) /\ \A i \in 1..c : w.kv[i] = Upto(q, i)
      BY <1>2, <1>9 DEF Keeps
    <3>6. ASSUME NEW i \in 1..c PROVE r[i] = Upto(q, i)
      <4>1. i \in Positions
        BY <1>3 DEF Positions
      <4>2. r[i] = IF i <= n THEN PageRow(h, i) ELSE w.kv[i]
        BY <4>1, <3>2 DEF RowsFromPages
      <4>3. i <= n => PageRow(h, i) = Upto(q, i)
        BY <3>1, <1>6
      <4> QED BY <4>2, <4>3, <3>5
    <3> HIDE DEF Upto
    <3> QED BY <3>3, <3>4, <3>5, <3>6, <1>2 DEF Keeps
  <2>2. CASE ~NeedsStage(s)
    BY <2>2, <1>9 DEF Staged
  <2> QED BY <2>1, <2>2
<1>10. EnsureRestored(s, v) \in SlotRecs
  BY <1>1, ReadyTyped DEF VInv, VTypes
<1>11. Keeps(Ready(s, v), q)
  BY <1>8, <1>9, <1>10 DEF Ready
<1> QED BY <1>1, <1>8, <1>11

\* The tokens a forward adds complete the text.
LEMMA TextCompleted ==
  ASSUME VInv, NEW s \in Seqs, Fit(s), SeqSound(seq[s], page)
  PROVE  /\ Upto(seq[s], seq[s].cached) \o NewTokens(s) = seq[s].prompt \o seq[s].out
         /\ seq[s].cached + Len(NewTokens(s)) = Len(seq[s].prompt) + Len(seq[s].out)
         /\ Len(seq[s].prompt) + Len(seq[s].out) <= MaxLen
<1>1. PICK q \in SeqRecs : q = seq[s] /\ SeqOK(q) /\ SeqSound(q, page)
  BY DEF VInv, VTypes, SeqsOK
<1>2. PICK p \in Seq(Vocab), x \in Seq(Vocab), c \in Nat : p = q.prompt /\ x = q.out /\ c = q.cached
  BY TextFacts
<1>3. PICK u \in Seq(Vocab) :
        u = NewTokens(s) /\ Len(u) = IF x = <<>> THEN Len(p) - c ELSE 1
  BY <1>1, <1>2, NewTokensFacts, HistoryFacts DEF Fit
<1>4. /\ Len(p) \in Nat /\ Len(x) \in Nat /\ (x # <<>> => Len(x) > 0) /\ (x = <<>> => Len(x) = 0)
  OBVIOUS
<1>5. /\ p \o x \in Seq(Vocab) /\ Len(p \o x) = Len(p) + Len(x)
      /\ \A i \in 1..Len(p) : (p \o x)[i] = p[i]
      /\ \A i \in Len(p) + 1..Len(p) + Len(x) : i - Len(p) \in 1..Len(x) /\ (p \o x)[i] = x[i - Len(p)]
  BY ConcatFacts
<1>6. PICK a \in Seq(Vocab) :
        /\ a = p \o x /\ Len(a) = Len(p) + Len(x) /\ \A i \in 1..Len(p) : a[i] = p[i]
        /\ \A i \in Len(p) + 1..Len(p) + Len(x) : i - Len(p) \in 1..Len(x) /\ a[i] = x[i - Len(p)]
  BY <1>5
<1>7. c <= Len(a) /\ Len(u) = Len(a) - c /\ \A i \in 1..Len(u) : u[i] = a[c + i]
  <2>1. CASE x = <<>>
    <3>1. c <= Len(p) /\ u = SubSeq(p, c + 1, Len(p))
      BY <2>1, <1>1, <1>2, <1>3 DEF Fit, NewTokens
    <3>2. c \in 0..Len(p)
      BY <3>1, <1>4
    <3>3. \A i \in 1..Len(p) - c : SubSeq(p, c + 1, Len(p))[i] = p[c + i]
      BY <3>2, PartFacts
    <3>4. Len(u) = Len(p) - c /\ Len(a) = Len(p)
      BY <2>1, <1>3, <1>4, <1>6
    <3>5. ASSUME NEW i \in 1..Len(u) PROVE u[i] = a[c + i]
      <4>1. i \in 1..Len(p) - c /\ c + i \in 1..Len(p)
        BY <3>1, <3>4, <1>4
      <4> QED BY <4>1, <3>1, <3>3, <1>6
    <3> QED BY <3>1, <3>4, <3>5
  <2>2. CASE x # <<>>
    <3>1. c < Len(p) + Len(x) /\ Len(p) + Len(x) <= c + 1 /\ u = <<x[Len(x)]>>
      BY <2>2, <1>1, <1>2, <1>3 DEF Fit, NewTokens, SeqSound
    <3>2. c + 1 = Len(p) + Len(x) /\ Len(u) = 1 /\ u[1] = x[Len(x)]
      BY <3>1, <2>2, <1>3, <1>4
    <3>3. c + 1 \in Len(p) + 1..Len(p) + Len(x) /\ (c + 1) - Len(p) = Len(x)
      BY <2>2, <3>2, <1>4
    <3>4. a[c + 1] = x[Len(x)]
      BY <3>3, <1>6
    <3> QED BY <3>2, <3>4, <1>4, <1>6
  <2> QED BY <2>1, <2>2
<1>8. c \in 0..Len(a)
  BY <1>7
<1>9. SubSeq(a, 1, c) \o u = a
  BY <1>7, <1>8, PrefixAndRest
<1>10. Upto(q, c) = SubSeq(a, 1, c)
  BY <1>2, <1>6 DEF Upto
<1>11. c + Len(u) = Len(p) + Len(x)
  BY <1>6, <1>7
<1>12. Len(p) + Len(x) <= MaxLen
  <2>1. p \in Prompts
    BY <1>1, <1>2 DEF Fit, Prompted, SeqRecs, AnyPrompt
  <2>2. Len(p) + MaxTokens <= MaxLen /\ Len(x) < MaxTokens
    BY <2>1, <1>1, <1>2, HistoryFacts DEF SeqOK
  <2> QED BY <2>2, <1>4, Constants
<1> QED BY <1>1, <1>2, <1>3, <1>6, <1>9, <1>10, <1>11, <1>12

\* A forward leaves the slot and the logits of the whole text.
LEMMA FeedHolds ==
  ASSUME VInv, NEW s \in Seqs, Fit(s), SeqSound(seq[s], page), NEW v \in SlotRecs,
         SlotHolds(v, seq[s])
  PROVE  /\ Keeps(AfterForward(s, v), Forwarded(s, v))
         /\ SeqSound(Forwarded(s, v), page) /\ Written(Forwarded(s, v))
<1>1. PICK q \in SeqRecs : q = seq[s] /\ SeqOK(q)
  BY DEF VInv, VTypes, SeqsOK
<1>2. PICK u \in SeqRecs : u = Forwarded(s, v) /\ Fed(s, u) /\ u.heard = AfterForward(s, v).st
  BY ForwardedFacts DEF Fed
<1>3. PICK p \in Seq(Vocab), x \in Seq(Vocab), c \in Nat : p = q.prompt /\ x = q.out /\ c = q.cached
  BY TextFacts
<1>4. PICK n \in Nat : n = Len(p) + Len(x)
  OBVIOUS
<1>5. p = q.prompt /\ x = q.out /\ c = q.cached /\ n = Len(p) + Len(x)
  BY <1>3, <1>4
<1>6. PICK y \in Seq(Vocab) : y = NewTokens(s)
  BY <1>1, NewTokensFacts, HistoryFacts DEF Fit
<1>7. Upto(q, c) \o y = p \o x /\ c + Len(y) = n /\ n <= MaxLen /\ c <= n
  <2>1. Upto(q, c) \o y = p \o x /\ c + Len(y) = Len(p) + Len(x) /\ Len(p) + Len(x) <= MaxLen
    BY <1>1, <1>5, <1>6, TextCompleted
  <2>2. c <= Len(p) + Len(x)
    BY <1>1, <1>5 DEF SeqOK
  <2> QED BY <2>1, <2>2, <1>5
<1>8. /\ \A j \in 0..n : /\ Upto(q, j) \in Seq(Vocab) /\ Len(Upto(q, j)) = j
                         /\ \A i \in 0..j : SubSeq(Upto(q, j), 1, i) = Upto(q, i)
      /\ Upto(q, n) = p \o x
  <2>1. \A j \in 0..Len(p) + Len(x) :
           /\ Upto(q, j) \in Seq(Vocab) /\ Len(Upto(q, j)) = j
           /\ \A i \in 0..j : SubSeq(Upto(q, j), 1, i) = Upto(q, i)
    BY <1>5, TextFacts
  <2>2. p \o x \in Seq(Vocab) /\ Len(p \o x) = Len(p) + Len(x)
    BY ConcatFacts
  <2>3. SubSeq(p \o x, 1, Len(p \o x)) = p \o x
    BY <2>2, SubSeqFull
  <2>4. Upto(q, n) = p \o x
    BY <2>2, <2>3, <1>5 DEF Upto
  <2> QED BY <2>1, <2>4, <1>5
<1>9. PICK r \in SlotRecs : r = Ready(s, v) /\ Keeps(r, q)
  BY <1>1, ReadyHolds, ReadyTyped DEF VInv, VTypes
<1>10. r.st = Upto(q, c) /\ \A i \in 1..c : r.kv[i] = Upto(q, i)
  BY <1>5, <1>9 DEF Keeps
<1>11. Len(r.st) = c /\ HoldsText(r.kv, r.st, r.st)
  <2>1. c \in 0..n
    BY <1>7
  <2>2. Len(r.st) = c
    BY <2>1, <1>8, <1>10
  <2>3. ASSUME NEW i \in 1..c PROVE r.kv[i] = SubSeq(r.st, 1, i)
    <3>1. i \in 0..c
      OBVIOUS
    <3> QED BY <3>1, <2>1, <1>8, <1>10
  <2> QED BY <2>2, <2>3 DEF HoldsText
<1> DEFINE w == [kv |-> [i \in Positions |->
                           IF i \notin c + 1..c + Len(y) THEN r.kv[i] ELSE SubSeq(p \o x, 1, i)],
                 st |-> p \o x]
<1>12. AfterForward(s, v) = w
  <2>1. r.st \o y = p \o x
    BY <1>7, <1>10
  <2>2. AfterForward(s, v) = Forward(r, c, y)
    BY <1>1, <1>5, <1>6, <1>9 DEF AfterForward
  <2> QED BY <2>1, <2>2, <1>11 DEF Forward
<1>13. /\ w.st = p \o x
       /\ \A i \in Positions : w.kv[i] = IF i \notin c + 1..c + Len(y) THEN r.kv[i]
                                         ELSE SubSeq(p \o x, 1, i)
  OBVIOUS
<1> HIDE DEF w
<1>14. u.prompt = p /\ u.out = x /\ u.cached = n /\ u.heard = p \o x /\ u.prepared /\ ~u.pending /\ ~u.need
  BY <1>1, <1>2, <1>5, <1>6, <1>7, <1>12, <1>13 DEF Fed
<1>15. \A j : Upto(u, j) = Upto(q, j) /\ Upto(q, j) = SubSeq(p \o x, 1, j)
  BY <1>5, <1>14 DEF Upto
<1> HIDE DEF Upto
<1>16. ASSUME NEW i \in 1..n PROVE w.kv[i] = Upto(u, i)
  <2>1. i \in Positions
    BY <1>7, Constants DEF Positions
  <2>2. CASE i <= c
    <3>1. i \in 1..c /\ i \notin c + 1..c + Len(y)
      BY <2>2
    <3> QED BY <3>1, <2>1, <1>10, <1>13, <1>15
  <2>3. CASE i > c
    <3>1. i \in c + 1..c + Len(y)
      BY <2>3, <1>7
    <3> QED BY <3>1, <2>1, <1>13, <1>15
  <2> QED BY <2>2, <2>3
<1>17. Keeps(w, u)
  BY <1>8, <1>13, <1>14, <1>15, <1>16 DEF Keeps
<1>18. Len(p) \in Nat /\ Len(x) \in Nat /\ (x # <<>> => Len(x) > 0)
  OBVIOUS
<1>19. SeqSound(u, page)
  <2>1. u.heard = Upto(u, u.cached)
    BY <1>8, <1>14, <1>15
  <2>2. Len(u.prompt) + Len(u.out) <= u.cached + 1
    <3>1. Len(p) + Len(x) <= n + 1
      BY <1>4
    <3> QED BY <3>1, <1>14
  <2> QED BY <2>1, <2>2, <1>14 DEF SeqSound
<1>20. Written(u)
  <2>1. Len(p) + Len(x) <= n /\ (x # <<>> => Len(p) < n)
    BY <1>4, <1>18
  <2> QED BY <2>1, <1>14 DEF Written, Done
<1> QED BY <1>2, <1>12, <1>17, <1>19, <1>20
-----------------------------------------------------------------------------
(* What a step leaves alone                                                  *)

\* A sequence that differs in `fin' only.
SameWork(q, u) ==
  /\ u.prompt = q.prompt /\ u.out = q.out /\ u.cached = q.cached /\ u.heard = q.heard
  /\ u.hit = q.hit /\ u.pending = q.pending /\ u.handle = q.handle /\ u.hlen = q.hlen
  /\ u.need = q.need /\ u.prepared = q.prepared

\* It is as sound, as far and as well laid out as before.
LEMMA WorkFacts ==
  ASSUME NEW q, NEW u, SameWork(q, u)
  PROVE  /\ \A pg : SeqSound(q, pg) => SeqSound(u, pg)
         /\ \A x, f : LaidSeq(x, f, q) => LaidSeq(x, f, u)
         /\ \A v : SlotHolds(v, q) => SlotHolds(v, u)
         /\ Done(q) => Done(u)
         /\ Written(q) => Written(u)
<1>1. \A n : Upto(u, n) = Upto(q, n)
  BY DEF SameWork, Upto
<1>2. ASSUME NEW pg, SeqSound(q, pg) PROVE SeqSound(u, pg)
  <2>1. HitOK(q) => HitOK(u)
    BY DEF SameWork, HitOK
  <2> HIDE DEF HitOK
  <2> QED BY <1>1, <1>2, <2>1 DEF SameWork, SeqSound
<1>3. \A x, f : LaidSeq(x, f, q) => LaidSeq(x, f, u)
  BY DEF SameWork, LaidSeq
<1>4. \A v : SlotHolds(v, q) => SlotHolds(v, u)
  BY <1>1 DEF SameWork, SlotHolds, Keeps
<1>5. Done(q) => Done(u)
  BY DEF SameWork, Done
<1>6. Written(q) => Written(u)
  BY <1>5 DEF SameWork, Written
<1> QED BY <1>2, <1>3, <1>4, <1>5, <1>6

\* The entries and the pages stay, and the sequences stay sound.
LEMMA DataKept ==
  ASSUME SInv, entries' = entries, page' = page,
         \A r \in Seqs : SeqSound(seq'[r], page),
         \A x, f : Laid(x, f) => \A r \in Seqs : LaidSeq(x, f, seq'[r])
  PROVE  Sounds' /\ EntriesSound' /\ SharedSoundly'
<1>1. Sounds'
  BY DEF Sounds
<1>2. EntriesSound'
  BY DEF SInv, EntriesSound
<1>3. PICK x \in [Pages -> Nat], f \in [Pages -> Nat] : Laid(x, f)
  BY DEF SInv, SharedSoundly
<1>4. Laid(x, f)'
  BY <1>3 DEF Laid
<1> QED BY <1>1, <1>2, <1>4 DEF SharedSoundly

\* Only `fin' changes, if anything.
LEMMA DataSame ==
  ASSUME SInv, entries' = entries, page' = page, \A r \in Seqs : SameWork(seq[r], seq'[r])
  PROVE  Sounds' /\ EntriesSound' /\ SharedSoundly'
<1>1. \A r \in Seqs : SeqSound(seq'[r], page)
  BY WorkFacts DEF SInv, Sounds
<1>2. \A x, f : Laid(x, f) => \A r \in Seqs : LaidSeq(x, f, seq'[r])
  BY WorkFacts DEF Laid
<1> QED BY <1>1, <1>2, DataKept

\* One sequence changes.
LEMMA DataOne ==
  ASSUME SInv, entries' = entries, page' = page, NEW s \in Seqs,
         \A r \in Seqs \ {s} : seq'[r] = seq[r], SeqSound(seq'[s], page),
         \A x, f : LaidSeq(x, f, seq[s]) => LaidSeq(x, f, seq'[s])
  PROVE  Sounds' /\ EntriesSound' /\ SharedSoundly'
<1>1. \A r \in Seqs : SeqSound(seq'[r], page)
  BY DEF SInv, Sounds
<1>2. \A x, f : Laid(x, f) => \A r \in Seqs : LaidSeq(x, f, seq'[r])
  BY DEF Laid
<1> QED BY <1>1, <1>2, DataKept

\* Nobody starts to wait or to be served.
LEMMA TurnsKept ==
  ASSUME SInv, Serving' \subseteq Serving, Members(waiting') \subseteq Members(waiting),
         \A i, j \in 1..Len(waiting') : waiting'[i] = waiting'[j] => i = j,
         \A r \in Members(waiting) : ~seq[r].prepared => ~seq'[r].prepared,
         Len(todo') <= 1
  PROVE  Turns'
<1>1. /\ \A s, r \in Serving : s = r
      /\ \A s \in Members(waiting) : ~seq[s].prepared /\ s \notin Serving
  BY DEF SInv, Turns
<1>2. \A s, r \in Serving' : s = r
  BY <1>1
<1>3. \A s \in Members(waiting') : ~seq'[s].prepared /\ s \notin Serving'
  BY <1>1
<1> QED BY <1>2, <1>3 DEF Turns

\* The slot stays, and so does the text of the sequence served.
LEMMA SlotKept ==
  ASSUME SInv, Serving' \subseteq Serving, slot' = slot,
         \A r \in Serving : SlotHolds(slot[0], seq[r]) => SlotHolds(slot[0], seq'[r])
  PROVE  SlotSound'
<1>1. \A s \in Serving : SlotHolds(slot[0], seq[s])
  BY DEF SInv, SlotSound
<1>2. \A s \in Serving' : SlotHolds(slot[0], seq'[s])
  BY <1>1
<1> QED BY <1>2 DEF SlotSound

\* What the invariants say of the one sequence served.
LEMMA Served ==
  ASSUME VInv, SInv
  PROVE  /\ Serving \subseteq Seqs /\ Members(batch) \subseteq Serving
         /\ \A r, s \in Serving : r = s
         /\ \A r \in Serving : r \notin Members(waiting) /\ Prompted(r) /\ SlotHolds(slot[0], seq[r])
         /\ \A r \in Seqs : SeqSound(seq[r], page) /\ seq[r] \in SeqRecs /\ SeqOK(seq[r])
         /\ slot[0] \in SlotRecs
         /\ \A i, j \in 1..Len(waiting) : waiting[i] = waiting[j] => i = j
         /\ Len(todo) \in Nat /\ Len(todo) <= 1
<1>1. Listed \subseteq Seqs /\ \A r \in Listed : Prompted(r)
  BY ListFacts
<1>2. Serving \subseteq Listed /\ Members(batch) \subseteq Serving
  BY DEF Serving, Listed
<1>3. slot[0] \in SlotRecs
  BY Constants DEF VInv, VTypes
<1>4. \A r \in Serving : SlotHolds(slot[0], seq[r])
  BY DEF SInv, SlotSound
<1>5. /\ \A r, s \in Serving : r = s
      /\ \A r \in Serving : r \notin Members(waiting)
      /\ \A i, j \in 1..Len(waiting) : waiting[i] = waiting[j] => i = j
      /\ Len(todo) <= 1
  BY DEF SInv, Turns
<1>6. \A r \in Seqs : SeqSound(seq[r], page) /\ seq[r] \in SeqRecs /\ SeqOK(seq[r])
  BY DEF SInv, Sounds, VInv, VTypes, SeqsOK
<1>7. Len(todo) \in Nat
  BY DEF VInv, VTypes
<1> QED BY <1>1, <1>2, <1>3, <1>4, <1>5, <1>6, <1>7

\* Where the members of a list without some of them come from.
LEMMA WithoutPlaces ==
  ASSUME NEW q \in Seq(Seqs), NEW S
  PROVE  \E f \in [1..Len(Without(q, S)) -> 1..Len(q)] :
           /\ \A i, j \in 1..Len(Without(q, S)) : i < j => f[i] < f[j]
           /\ \A i \in 1..Len(Without(q, S)) : Without(q, S)[i] = q[f[i]]
<1> DEFINE Z == Seqs \ S
           p == Kept(q, Z)
<1> HIDE DEF Z
<1>1. PICK f \in [1..Len(p) -> 1..Len(q)] :
        /\ \A i, j \in 1..Len(p) : i < j => f[i] < f[j]
        /\ \A i \in 1..Len(p) : p[i] = q[f[i]] /\ q[f[i]] \in Z
  BY KeptOrder
<1>2. p = Without(q, S)
  BY DEF Without, Z
<1> HIDE DEF p
<1> QED BY <1>1, <1>2

\* A list without some of its members has no member twice if it had none.
LEMMA WithoutOnce ==
  ASSUME NEW q \in Seq(Seqs), \A i, j \in 1..Len(q) : q[i] = q[j] => i = j, NEW S
  PROVE  \A i, j \in 1..Len(Without(q, S)) : Without(q, S)[i] = Without(q, S)[j] => i = j
<1> DEFINE p == Without(q, S)
<1>1. Len(p) \in Nat
  BY WithoutFacts
<1>2. PICK f \in [1..Len(p) -> 1..Len(q)] :
        /\ \A i, j \in 1..Len(p) : i < j => f[i] < f[j]
        /\ \A i \in 1..Len(p) : p[i] = q[f[i]]
  BY WithoutPlaces
<1> HIDE DEF p
<1>3. ASSUME NEW i \in 1..Len(p), NEW j \in 1..Len(p), p[i] = p[j] PROVE i = j
  <2>1. f[i] \in 1..Len(q) /\ f[j] \in 1..Len(q) /\ q[f[i]] = q[f[j]]
    BY <1>2, <1>3
  <2>2. f[i] = f[j] /\ f[i] \in Int
    BY <2>1
  <2>3. ~(i < j) /\ ~(j < i)
    BY <2>2, <1>2
  <2> QED BY <2>3, <1>1
<1> QED BY <1>3 DEF p

-----------------------------------------------------------------------------
(* The steps keep the second invariant: the lists                            *)

\* Nothing changes but the queues and the lists of the iteration.
LEMMA ListsOnly ==
  ASSUME VInv, SInv, UNCHANGED <<entries, page, slot>>, \A r \in Seqs : SameWork(seq[r], seq'[r]),
         Serving' \subseteq Serving, Members(waiting') \subseteq Members(waiting),
         \A i, j \in 1..Len(waiting') : waiting'[i] = waiting'[j] => i = j,
         Len(todo') <= 1, Paced'
  PROVE  SInv'
<1>1. Serving \subseteq Seqs /\ Members(waiting) \subseteq Seqs
  BY ListFacts DEF Serving, Listed
<1>2. Sounds' /\ EntriesSound' /\ SharedSoundly'
  BY DataSame
<1>3. Turns'
  <2>1. \A r \in Members(waiting) : ~seq[r].prepared => ~seq'[r].prepared
    BY <1>1 DEF SameWork
  <2> QED BY <2>1, TurnsKept
<1>4. SlotSound'
  <2>1. \A r \in Serving : SlotHolds(slot[0], seq[r]) => SlotHolds(slot[0], seq'[r])
    BY <1>1, WorkFacts
  <2> QED BY <2>1, SlotKept
<1> QED BY <1>2, <1>3, <1>4 DEF SInv

\* The pace when the sequences that wait no more were not waiting before.
LEMMA PacedKept ==
  ASSUME VInv, SInv, \A r \in Seqs : SameWork(seq[r], seq'[r]) /\ (seq[r].fin => seq'[r].fin),
         \A r \in Seqs : ~seq'[r].fin /\ ~Waits(r)' => ~Waits(r) \/ InLists(r)',
         \A r \in Seqs : ~seq'[r].fin /\ ~Waits(r)' /\ InLists(r) => InLists(r)',
         post' = <<>> \/ (post' = post /\ batch' = batch)
  PROVE  Paced'
<1>1. ASSUME NEW r \in Seqs, ~seq'[r].fin, ~Waits(r)' PROVE InLists(r)' \/ Done(seq'[r])
  <2>1. ~seq[r].fin
    BY <1>1
  <2>2. CASE ~Waits(r)
    <3>1. InLists(r) \/ Done(seq[r])
      BY <2>1, <2>2 DEF SInv, Paced
    <3> QED BY <3>1, <1>1, WorkFacts
  <2>3. CASE InLists(r)'
    BY <2>3
  <2> QED BY <2>2, <2>3, <1>1
<1>2. ASSUME NEW i \in 1..Len(post') PROVE post'[i][1] \in Members(batch') /\ Written(seq'[post'[i][1]])
  <2>1. post' = post /\ batch' = batch
    BY <1>2
  <2>2. post[i][1] \in Members(batch) /\ Written(seq[post[i][1]])
    BY <2>1, <1>2 DEF SInv, Paced
  <2>3. post[i][1] \in Seqs
    BY <2>1, <1>2, PostFacts
  <2> QED BY <2>1, <2>2, <2>3, WorkFacts
<1> QED BY <1>1, <1>2 DEF Paced

\* Sequences that stay as they are.
LEMMA SameSeq ==
  ASSUME seq' = seq
  PROVE  \A r \in Seqs : SameWork(seq[r], seq'[r]) /\ (seq[r].fin => seq'[r].fin)
  BY DEF SameWork

\* A batch is formed: a sequence that was waiting has nothing in the slot yet.
LEMMA ScheduleSound ==
  ASSUME MaxBatch = 1, VInv, SInv, Schedule
  PROVE  SInv'
<1>1. /\ UNCHANGED <<entries, page, slot, seq, pres, ones, decs, post>>
      /\ step = "idle" /\ step' = "classify"
  BY DEF Schedule
<1>2. PICK n \in 0..Len(waiting), b \in Seq(Seqs) :
        /\ batch' = b /\ running' = b /\ todo' = b
        /\ waiting' = SubSeq(waiting, n + 1, Len(waiting))
        /\ Members(b) = Members(running) \cup Members(SubSeq(waiting, 1, n))
        /\ Len(b) <= MaxBatch
  BY ScheduleFacts
<1>3. PICK w \in Seq(Seqs) : w = waiting /\ \A i, j \in 1..Len(w) : w[i] = w[j] => i = j
  BY Served DEF VInv, VTypes
<1>4. n \in 0..Len(w)
  BY <1>3
<1>5. PICK a \in Seq(Seqs), c \in Seq(Seqs) :
        /\ a = SubSeq(w, 1, n) /\ Len(a) = n /\ \A i \in 1..n : a[i] = w[i]
        /\ c = SubSeq(w, n + 1, Len(w)) /\ Len(c) = Len(w) - n
        /\ \A i \in 1..Len(w) - n : c[i] = w[n + i]
  <2>1. /\ SubSeq(w, 1, n) \in Seq(Seqs) /\ Len(SubSeq(w, 1, n)) = n
        /\ \A i \in 1..n : SubSeq(w, 1, n)[i] = w[i]
        /\ SubSeq(w, n + 1, Len(w)) \in Seq(Seqs) /\ Len(SubSeq(w, n + 1, Len(w))) = Len(w) - n
        /\ \A i \in 1..Len(w) - n : SubSeq(w, n + 1, Len(w))[i] = w[n + i]
    BY <1>4, PartFacts
  <2> QED BY <2>1, Zenon
<1>6. waiting' = c /\ Members(b) = Members(running) \cup Members(a)
  BY <1>2, <1>3, <1>5
<1>7. Serving' = Members(b) /\ \A r, s \in Members(b) : r = s
  <2>1. Len(b) <= 1 /\ Len(b) \in Nat
    BY <1>2
  <2>2. ASSUME NEW r \in Members(b), NEW s \in Members(b) PROVE r = s
    <3>1. PICK i \in 1..Len(b), j \in 1..Len(b) : b[i] = r /\ b[j] = s
      BY MembersFacts
    <3>2. i = 1 /\ j = 1
      BY <2>1
    <3> QED BY <3>1, <3>2
  <2> QED BY <2>2, <1>2 DEF Serving
<1>8. \A i, j \in 1..Len(c) : c[i] = c[j] => i = j
  <2> TAKE i, j \in 1..Len(c)
  <2>1. n + i \in 1..Len(w) /\ n + j \in 1..Len(w) /\ i \in 1..Len(w) - n /\ j \in 1..Len(w) - n
    BY <1>4, <1>5
  <2>2. c[i] = w[n + i] /\ c[j] = w[n + j]
    BY <2>1, <1>5
  <2>3. w[n + i] = w[n + j] => n + i = n + j
    BY <2>1, <1>3
  <2>4. n \in Nat /\ i \in Nat /\ j \in Nat
    BY <1>4
  <2> QED BY <2>2, <2>3, <2>4
<1>9. /\ Members(a) \subseteq Members(waiting) /\ Members(c) \subseteq Members(waiting)
      /\ Members(a) \cap Members(c) = {}
  <2>1. ASSUME NEW r, r \in Members(a), r \in Members(c) PROVE FALSE
    <3>1. PICK i \in 1..Len(a), j \in 1..Len(c) : a[i] = r /\ c[j] = r
      BY <2>1, MembersFacts
    <3>2. i \in 1..n /\ j \in 1..Len(w) - n /\ i \in 1..Len(w) /\ n + j \in 1..Len(w) /\ i # n + j
      BY <1>4, <1>5
    <3>3. a[i] = w[i] /\ c[j] = w[n + j]
      BY <3>2, <1>5
    <3> QED BY <3>1, <3>2, <3>3, <1>3
  <2>2. Members(a) \subseteq Members(w) /\ Members(c) \subseteq Members(w)
    BY <1>4, <1>5, MembersSplit
  <2> QED BY <2>1, <2>2, <1>3
<1>10. /\ \A r \in Members(waiting) : ~seq[r].prepared /\ r \notin Members(running)
       /\ \A r \in Members(running) : SlotHolds(slot[0], seq[r])
  BY DEF SInv, Turns, SlotSound, Serving
<1>11. Turns'
  <2>1. \A r \in Members(waiting') : ~seq'[r].prepared /\ r \notin Serving'
    BY <1>1, <1>6, <1>7, <1>9, <1>10
  <2>2. Len(todo') <= 1
    BY <1>2
  <2>3. \A i, j \in 1..Len(waiting') : waiting'[i] = waiting'[j] => i = j
    BY <1>6, <1>8
  <2>4. \A r, s \in Serving' : r = s
    BY <1>7
  <2> QED BY <2>1, <2>2, <2>3, <2>4 DEF Turns
<1>12. SlotSound'
  <2>1. ASSUME NEW r \in Members(b) PROVE SlotHolds(slot[0], seq[r])
    <3>1. CASE r \in Members(running)
      BY <3>1, <1>10
    <3>2. CASE r \in Members(a)
      BY <3>2, <1>9, <1>10 DEF SlotHolds
    <3> QED BY <3>1, <3>2, <1>6
  <2> QED BY <2>1, <1>1, <1>7 DEF SlotSound
<1>13. Paced'
  <2>1. \A r : Waits(r)'
    BY <1>1, <1>2 DEF Waits
  <2>2. post' = <<>>
    BY <1>1 DEF VInv, Listing
  <2> QED BY <2>1, <2>2 DEF Paced
<1>14. Sounds' /\ EntriesSound' /\ SharedSoundly'
  BY <1>1, SameSeq, DataSame
<1> QED BY <1>11, <1>12, <1>13, <1>14 DEF SInv

\* A finished member is passed over.
LEMMA SkipFinishedSound ==
  ASSUME VInv, SInv, SkipFinished
  PROVE  SInv'
<1>1. Visited /\ seq[Head(todo)].fin /\ UNCHANGED <<slot, seq, pres, decs>>
  BY DEF SkipFinished
<1>2. /\ UNCHANGED <<entries, page, slot, seq, waiting, running, batch, pres, ones, decs, post>>
      /\ Len(todo') + 1 = Len(todo) /\ Len(todo') \in Nat
      /\ \A r : ~Waits(r)' /\ r # Head(todo) => ~Waits(r)
  BY <1>1, VisitedFacts
<1>3. \A r : InLists(r)' = InLists(r)
  BY <1>2 DEF InLists
<1>4. \A r \in Seqs : ~seq'[r].fin /\ ~Waits(r)' => ~Waits(r)
  BY <1>1, <1>2
<1>5. Paced'
  BY <1>2, <1>3, <1>4, SameSeq, PacedKept
<1>6. Serving' = Serving /\ Len(todo') <= 1
  BY <1>2, Served DEF Serving
<1> QED BY <1>2, <1>5, <1>6, SameSeq, Served, ListsOnly

\* A member joins the prefill or the decode list.
LEMMA ClassifySound ==
  ASSUME VInv, SInv, Classify
  PROVE  SInv'
<1>1. PICK s : s = Head(todo)
  OBVIOUS
<1>2. Visited /\ UNCHANGED <<slot, seq>>
  BY DEF Classify
<1>3. \/ pres' = Append(pres, s) /\ decs' = decs
      \/ pres' = pres /\ decs' = Append(decs, s)
  BY <1>1 DEF Classify
<1>4. /\ UNCHANGED <<entries, page, slot, seq, waiting, running, batch, ones, post>>
      /\ Len(todo') + 1 = Len(todo) /\ Len(todo') \in Nat /\ s \in Seqs
      /\ \A r : ~Waits(r)' /\ r # s => ~Waits(r)
  BY <1>1, <1>2, VisitedFacts
<1>5. InLists(s)' /\ \A r : InLists(r) => InLists(r)'
  <2>1. pres \in Seq(Seqs) /\ decs \in Seq(Seqs)
    BY DEF VInv, VTypes
  <2>2. Members(Append(pres, s)) = Members(pres) \cup {s} /\ Members(Append(decs, s)) = Members(decs) \cup {s}
    BY <2>1, <1>4, MembersAppend
  <2> QED BY <2>2, <1>3, <1>4 DEF InLists
<1>6. \A r \in Seqs : ~seq'[r].fin /\ ~Waits(r)' => ~Waits(r) \/ InLists(r)'
  BY <1>4, <1>5
<1>7. Paced'
  BY <1>4, <1>5, <1>6, SameSeq, PacedKept
<1>8. Serving' = Serving /\ Len(todo') <= 1
  BY <1>4, Served DEF Serving
<1> QED BY <1>4, <1>7, <1>8, SameSeq, Served, ListsOnly

\* The group of unequal lengths becomes the list of members forwarded one by one.
LEMMA SplitGroupSound ==
  ASSUME VInv, SInv, SplitGroup
  PROVE  SInv'
<1>1. /\ UNCHANGED <<entries, page, slot, seq, waiting, running, step, batch, todo, decs, post>>
      /\ ones = <<>> /\ ones' = FirstGroup(pres) /\ pres' = AfterGroup(pres)
  BY DEF SplitGroup, queues
<1>2. \A r : InLists(r) => InLists(r)'
  <2>1. Members(pres') = Members(pres) \ Members(ones')
    BY <1>1, FirstGroupFacts DEF VInv, VTypes
  <2> QED BY <2>1, <1>1, NoMembers DEF InLists
<1>3. \A r : Waits(r)' = Waits(r)
  BY <1>1 DEF Waits
<1>4. Paced'
  BY <1>1, <1>2, <1>3, SameSeq, PacedKept
<1>5. Serving' = Serving /\ Len(todo') <= 1
  BY <1>1, Served DEF Serving
<1> QED BY <1>1, <1>4, <1>5, SameSeq, Served, ListsOnly

\* The lists are empty: the results are applied next.
LEMMA RunDoneSound ==
  ASSUME MaxBatch = 1, VInv, SInv, RunDone
  PROVE  SInv'
<1>1. /\ UNCHANGED <<entries, page, slot, seq, waiting, running, batch, pres, ones, decs, post>>
      /\ step = "classify" /\ step' = "apply" /\ todo = <<>> /\ todo' = batch
  BY DEF RunDone, InGroups, queues
<1>2. \A r : InLists(r)' = InLists(r)
  BY <1>1 DEF InLists
<1>3. \A r : ~Waits(r)' => ~Waits(r)
  BY <1>1, NoMembers DEF Waits
<1>4. Paced'
  BY <1>1, <1>2, <1>3, SameSeq, PacedKept
<1>5. Serving' = Serving /\ Len(todo') <= 1
  BY <1>1 DEF Serving, VInv, Listing
<1> QED BY <1>1, <1>4, <1>5, SameSeq, Served, ListsOnly

\* The iteration ends.
LEMMA EndStepSound ==
  ASSUME VInv, SInv, EndStep
  PROVE  SInv'
<1>1. /\ UNCHANGED <<entries, page, slot, seq, waiting, running, todo, pres, ones, decs, post>>
      /\ step = "apply" /\ batch' = <<>>
  BY DEF EndStep, queues
<1>2. post' = <<>>
  BY <1>1 DEF VInv, Listing
<1>3. \A r : Waits(r)'
  BY <1>1, NoMembers DEF Waits
<1>4. Paced'
  BY <1>2, <1>3 DEF Paced
<1>5. Serving' \subseteq Serving /\ Len(todo') <= 1
  BY <1>1, Served, NoMembers DEF Serving
<1> QED BY <1>1, <1>4, <1>5, SameSeq, Served, ListsOnly

-----------------------------------------------------------------------------
(* The steps keep the second invariant: the end of a sequence                *)

\* Only `fin' changes.
LEMMA MarkWork ==
  ASSUME VInv, NEW f, seq' = [r \in Seqs |-> [seq[r] EXCEPT !.fin = f[r]]]
  PROVE  \A r \in Seqs : SameWork(seq[r], seq'[r])
<1> TAKE r \in Seqs
<1>1. PICK q \in SeqRecs : q = seq[r]
  BY DEF VInv, VTypes
<1>2. seq'[r] = [q EXCEPT !.fin = f[r]]
  BY <1>1
<1>3. SameWork(q, [q EXCEPT !.fin = f[r]])
  BY DEF SameWork, SeqRecs
<1> QED BY <1>1, <1>2, <1>3

\* A sequence is finished: it leaves the queues, and keeps its pages and its slot.
LEMMA FinishSound ==
  ASSUME VInv, SInv, NEW s \in Seqs, Prompted(s), Finish(s), UNCHANGED <<entries, batch, pres, ones, decs, post>>,
         Len(todo') <= 1, \A r \in Seqs \ {s} : ~Waits(r)' => ~Waits(r)
  PROVE  SInv'
<1>1. /\ UNCHANGED <<page, slot>> /\ seq' = [seq EXCEPT ![s].fin = TRUE]
      /\ Members(waiting') = Members(waiting) \ {s} /\ Members(running') = Members(running) \ {s}
      /\ \A r \in Seqs : seq'[r].fin = (r = s \/ seq[r].fin)
  BY FinishFacts
<1>2. waiting' = Without(waiting, {s})
  BY DEF Finish
<1>3. \A i, j \in 1..Len(waiting') : waiting'[i] = waiting'[j] => i = j
  <2>1. PICK w \in Seq(Seqs) : w = waiting
    BY DEF VInv, VTypes
  <2>2. \A i, j \in 1..Len(w) : w[i] = w[j] => i = j
    BY <2>1, Served
  <2>3. \A i, j \in 1..Len(Without(w, {s})) : Without(w, {s})[i] = Without(w, {s})[j] => i = j
    BY <2>2, WithoutOnce
  <2> QED BY <2>1, <2>3, <1>2
<1>4. \A r \in Seqs : SameWork(seq[r], seq'[r])
  <2>1. seq \in [Seqs -> SeqRecs]
    BY DEF VInv, VTypes
  <2>2. \A r \in Seqs \ {s} : seq'[r] = seq[r]
    BY <2>1, <1>1
  <2>3. PICK q \in SeqRecs : q = seq[s]
    BY <2>1
  <2>4. seq'[s] = [q EXCEPT !.fin = TRUE]
    BY <2>1, <2>3, <1>1
  <2>5. SameWork(q, [q EXCEPT !.fin = TRUE])
    BY DEF SameWork, SeqRecs
  <2>6. \A r \in Seqs \ {s} : SameWork(seq[r], seq'[r])
    BY <2>2 DEF SameWork
  <2> QED BY <2>3, <2>4, <2>5, <2>6
<1>5. Paced'
  <2>1. \A r : InLists(r)' = InLists(r)
    BY DEF InLists
  <2>2. \A r \in Seqs : SameWork(seq[r], seq'[r]) /\ (seq[r].fin => seq'[r].fin)
    BY <1>1, <1>4
  <2>3. \A r \in Seqs : ~seq'[r].fin /\ ~Waits(r)' => ~Waits(r)
    BY <1>1
  <2> QED BY <2>1, <2>2, <2>3, PacedKept
<1>6. Serving' \subseteq Serving /\ Members(waiting') \subseteq Members(waiting)
  BY <1>1 DEF Serving
<1> QED BY <1>1, <1>3, <1>4, <1>5, <1>6, ListsOnly

\* A cancellation, at any moment of an iteration.
LEMMA CancelSound ==
  ASSUME VInv, SInv, NEW s \in Seqs, Cancel(s)
  PROVE  SInv'
<1>1. /\ Prompted(s) /\ Finish(s) /\ UNCHANGED <<entries, step, batch, todo, pres, ones, decs, post>>
  BY DEF Cancel, work
<1>2. \A r : Waits(r)' = Waits(r)
  BY <1>1 DEF Waits
<1>3. Len(todo') <= 1
  BY <1>1, Served
<1> QED BY <1>1, <1>2, <1>3, FinishSound

\* A forward raises: the sequence that was served is finished, whatever is in the slot.
LEMMA ForwardRaisesSound ==
  ASSUME VInv, SInv, ForwardRaises
  PROVE  SInv'
<1>1. /\ UNCHANGED <<entries, page, todo, post>> /\ post = <<>> /\ batch' = <<>> /\ step' = "idle"
      /\ ones # <<>> \/ pres # <<>> \/ decs # <<>>
      /\ waiting' = Without(waiting, Members(batch)) /\ running' = Without(running, Members(batch))
  BY DEF ForwardRaises, InGroups
<1>2. \A r \in Seqs : SameWork(seq[r], seq'[r])
  <2> DEFINE f == [r \in Seqs |-> seq[r].fin \/ r \in Members(batch)]
  <2>1. \A r \in Seqs : f[r] = (seq[r].fin \/ r \in Members(batch))
    OBVIOUS
  <2>2. seq' = [r \in Seqs |-> [seq[r] EXCEPT !.fin = @ \/ r \in Members(batch)]]
    BY DEF ForwardRaises
  <2> HIDE DEF f
  <2>3. seq' = [r \in Seqs |-> [seq[r] EXCEPT !.fin = f[r]]]
    BY <2>1, <2>2
  <2> QED BY <2>3, MarkWork
<1>3. waiting \in Seq(Seqs) /\ running \in Seq(Seqs)
  BY DEF VInv, VTypes
<1>4. Members(waiting') \subseteq Members(waiting) /\ Members(running') = Members(running) \ Members(batch)
  BY <1>1, <1>3, WithoutFacts
<1>5. Serving' = {}
  <2>1. PICK s : s \in Members(batch)
    <3>1. pres \in Seq(Seqs) /\ ones \in Seq(Seqs) /\ decs \in Seq(Seqs)
      BY DEF VInv, VTypes
    <3>2. \E s : s \in Members(pres) \cup Members(ones) \cup Members(decs)
      BY <3>1, <1>1, HeadTail
    <3> QED BY <3>2, ListFacts
  <2>2. \A r \in Members(running) : r = s
    BY <2>1, Served DEF Serving
  <2> QED BY <2>1, <2>2, <1>1, <1>4, NoMembers DEF Serving
<1>6. \A i, j \in 1..Len(waiting') : waiting'[i] = waiting'[j] => i = j
  <2>1. PICK w \in Seq(Seqs), S \in {Members(batch)} : w = waiting
    BY <1>3
  <2>2. \A i, j \in 1..Len(w) : w[i] = w[j] => i = j
    BY <2>1, Served
  <2>3. \A i, j \in 1..Len(Without(w, S)) : Without(w, S)[i] = Without(w, S)[j] => i = j
    BY <2>2, WithoutOnce
  <2> QED BY <2>1, <2>3, <1>1
<1>7. Turns'
  <2>1. \A r \in Members(waiting) : ~seq[r].prepared => ~seq'[r].prepared
    <3>1. Members(waiting) \subseteq Seqs
      BY <1>3, MembersFacts
    <3> QED BY <3>1, <1>2 DEF SameWork
  <2>2. Len(todo') <= 1
    BY <1>1, Served
  <2> QED BY <2>1, <2>2, <1>4, <1>5, <1>6, TurnsKept
<1>8. SlotSound'
  BY <1>5 DEF SlotSound
<1>9. Paced'
  <2>1. \A r : Waits(r)'
    BY <1>1, NoMembers DEF Waits
  <2> QED BY <2>1, <1>1 DEF Paced
<1>10. Sounds' /\ EntriesSound' /\ SharedSoundly'
  BY <1>1, <1>2, DataSame
<1> QED BY <1>7, <1>8, <1>9, <1>10 DEF SInv

-----------------------------------------------------------------------------
(* The steps keep the second invariant: the slot                             *)

\* The sequence that is served changes in its slot: the slot holds its text.
LEMMA ServedChanges ==
  ASSUME VInv, SInv, UNCHANGED <<entries, page, waiting, running, batch>>,
         NEW s \in Members(batch), \A r \in Seqs \ {s} : seq'[r] = seq[r],
         SeqSound(seq'[s], page), \A x, f : LaidSeq(x, f, seq[s]) => LaidSeq(x, f, seq'[s]),
         Keeps(slot'[0], seq'[s]), Len(todo') <= 1, Paced'
  PROVE  SInv'
<1>1. /\ s \in Seqs /\ Serving \subseteq Seqs /\ s \in Serving /\ s \notin Members(waiting)
      /\ \A r \in Serving : r = s
  BY Served
<1>2. Serving' = Serving /\ Members(waiting) \subseteq Seqs
  BY ListFacts DEF Serving, Listed
<1>3. Sounds' /\ EntriesSound' /\ SharedSoundly'
  BY <1>1, DataOne
<1>4. Turns'
  <2>1. \A r \in Members(waiting) : ~seq[r].prepared => ~seq'[r].prepared
    BY <1>1, <1>2
  <2>2. \A i, j \in 1..Len(waiting') : waiting'[i] = waiting'[j] => i = j
    BY Served
  <2> QED BY <2>1, <2>2, <1>2, TurnsKept
<1>5. SlotSound'
  <2>1. \A r \in Serving' : r = s
    BY <1>1, <1>2
  <2> QED BY <2>1 DEF SlotSound, SlotHolds
<1> QED BY <1>3, <1>4, <1>5 DEF SInv

\* An exact hit: the slot is restored, and its pages may still have to be staged.
LEMMA ExactHitSound ==
  ASSUME VInv, SInv, ExactHit
  PROVE  SInv'
<1>1. PICK s : s = Head(todo)
  OBVIOUS
<1>2. /\ Visited /\ ~seq[s].fin /\ Exact(s) /\ UNCHANGED <<pres, decs>>
      /\ slot' = [slot EXCEPT ![0] = EnsureRestored(s, slot[0])]
      /\ seq' = [seq EXCEPT ![s] = [@ EXCEPT !.need = NeedsStage(s), !.pending = FALSE,
                                            !.prepared = TRUE]]
  BY <1>1 DEF ExactHit
<1>3. /\ UNCHANGED <<entries, page, waiting, running, batch, ones, post>>
      /\ s \in Seqs /\ s \in Members(batch) /\ post = <<>>
      /\ Len(todo') + 1 = Len(todo) /\ Len(todo') \in Nat
      /\ \A r : ~Waits(r)' /\ r # s => ~Waits(r)
  BY <1>1, <1>2, VisitedFacts
<1>4. PICK q \in SeqRecs : /\ q = seq[s] /\ SeqOK(q) /\ SeqSound(q, page)
                           /\ SlotHolds(slot[0], q) /\ slot[0] \in SlotRecs
  BY <1>3, Served
<1>5. PICK n \in BOOLEAN : n = (q.handle # <<>> /\ (q.need \/ q.pending))
  OBVIOUS
<1>6. NeedsStage(s) = n
  BY <1>4, <1>5 DEF NeedsStage
<1> DEFINE u == [q EXCEPT !.need = n, !.pending = FALSE, !.prepared = TRUE]
<1>7. /\ u.prompt = q.prompt /\ u.out = q.out /\ u.cached = q.cached /\ u.heard = q.heard
      /\ u.hit = q.hit /\ u.handle = q.handle /\ u.hlen = q.hlen
      /\ ~u.pending /\ u.need = n /\ u.prepared
  BY DEF SeqRecs
<1>8. seq'[s] = u /\ \A r \in Seqs \ {s} : seq'[r] = seq[r]
  <2>1. seq \in [Seqs -> SeqRecs]
    BY DEF VInv, VTypes
  <2> QED BY <2>1, <1>2, <1>3, <1>4, <1>6
<1> HIDE DEF u
<1>9. \A i : Upto(u, i) = Upto(q, i)
  BY <1>7 DEF Upto
<1>10. SeqSound(u, page)
  BY <1>4, <1>5, <1>7, <1>9 DEF SeqSound
<1>11. \A x, f : LaidSeq(x, f, q) => LaidSeq(x, f, u)
  BY <1>5, <1>7 DEF LaidSeq
<1>12. slot'[0] = EnsureRestored(s, slot[0])
  <2>1. slot \in [Slots -> SlotRecs] /\ 0 \in Slots
    BY Constants DEF VInv, VTypes
  <2> QED BY <2>1, <1>2
<1>13. Keeps(slot'[0], u)
  <2>1. Keeps(slot'[0], q)
    BY <1>3, <1>4, <1>12, ReadyHolds
  <2> QED BY <2>1, <1>7, <1>9 DEF Keeps
<1>14. Done(u)
  <2>1. q.out = <<>> /\ Len(q.prompt) <= q.cached
    BY <1>2, <1>4, TextFacts DEF Exact
  <2>2. Len(q.prompt) + Len(q.out) <= q.cached
    <3>1. PICK a \in Nat, b \in Nat, c \in Nat : a = Len(q.prompt) /\ b = Len(q.out) /\ c = q.cached
      BY TextFacts
    <3>2. b = 0 /\ a <= c
      BY <2>1, <3>1
    <3>3. a + b <= c
      BY <3>2
    <3> QED BY <3>1, <3>3
  <2> QED BY <2>2, <1>7 DEF Done
<1>15. Paced'
  <2>1. ASSUME NEW r \in Seqs, ~seq'[r].fin, ~Waits(r)' PROVE InLists(r)' \/ Done(seq'[r])
    <3>1. CASE r = s
      BY <3>1, <1>8, <1>14
    <3>2. CASE r # s
      <4>1. seq'[r] = seq[r] /\ ~Waits(r)
        BY <3>2, <2>1, <1>3, <1>8
      <4>2. InLists(r) \/ Done(seq[r])
        BY <4>1, <2>1 DEF SInv, Paced
      <4>3. InLists(r)' = InLists(r)
        BY <1>2, <1>3 DEF InLists
      <4> QED BY <4>1, <4>2, <4>3
    <3> QED BY <3>1, <3>2
  <2>2. post' = <<>>
    BY <1>3
  <2> QED BY <2>1, <2>2 DEF Paced
<1>16. Len(todo') <= 1
  BY <1>3, Served
<1>17. SeqSound(seq'[s], page) /\ Keeps(slot'[0], seq'[s])
       /\ \A x, f : LaidSeq(x, f, seq[s]) => LaidSeq(x, f, seq'[s])
  BY <1>4, <1>8, <1>10, <1>11, <1>13
<1> QED BY <1>3, <1>8, <1>15, <1>16, <1>17, ServedChanges

\* A forward of the sequence that is served, in slot 0.
LEMMA ForwardSound ==
  ASSUME VInv, SInv, NEW s \in Members(batch), Fit(s),
         UNCHANGED <<entries, page, waiting, running, batch, todo>>,
         slot' = GroupSlots(<<s>>), seq' = GroupSeqs(<<s>>), post' = WithSlots(<<s>>)
  PROVE  SInv'
<1>1. /\ s \in Seqs /\ SeqSound(seq[s], page) /\ slot[0] \in SlotRecs /\ SlotHolds(slot[0], seq[s])
      /\ \A r \in Members(batch) : r = s
  BY Served
<1>2. PICK g : g = <<s>> /\ Len(g) = 1 /\ g[1] = s /\ DOMAIN g = {1} /\ Members(g) = {s}
  BY DEF Members
<1>3. slot'[0] = AfterForward(s, slot[0])
  <2>1. 0 \in Slots /\ 0 < Len(g) /\ g[0 + 1] = s
    BY <1>2, Constants
  <2>2. slot' = GroupSlots(g)
    BY <1>2
  <2> QED BY <2>1, <2>2 DEF GroupSlots
<1>4. seq'[s] = Forwarded(s, slot[0]) /\ \A r \in Seqs \ {s} : seq'[r] = seq[r]
  <2>1. seq' = GroupSeqs(g)
    BY <1>2
  <2>2. PICK j : j = CHOOSE i \in DOMAIN g : g[i] = s
    OBVIOUS
  <2>3. j = 1
    <3>1. \E i \in DOMAIN g : g[i] = s
      BY <1>2
    <3>2. j \in DOMAIN g
      BY <3>1, <2>2
    <3> QED BY <3>2, <1>2
  <2>4. j - 1 = 0
    BY <2>3
  <2>5. seq'[s] = Forwarded(s, slot[j - 1])
    BY <2>1, <2>2, <1>1, <1>2 DEF GroupSeqs
  <2>6. \A r \in Seqs \ {s} : seq'[r] = seq[r]
    BY <2>1, <1>2 DEF GroupSeqs
  <2> QED BY <2>4, <2>5, <2>6
<1>5. /\ Keeps(slot'[0], seq'[s]) /\ SeqSound(seq'[s], page) /\ Written(seq'[s])
  BY <1>1, <1>3, <1>4, FeedHolds
<1>6. \A x, f : LaidSeq(x, f, seq[s]) => LaidSeq(x, f, seq'[s])
  <2>1. Fed(s, seq'[s])
    BY <1>1, <1>4, ForwardedFacts
  <2> QED BY <2>1 DEF Fed, LaidSeq
<1>7. Paced'
  <2>1. \A r \in Seqs : ~Waits(r)' => r = s
    BY <1>1 DEF Waits
  <2>2. Done(seq'[s])
    BY <1>5 DEF Written
  <2>3. Len(post') = 1 /\ post'[1] = <<s, 0>>
    <3>1. post' = [i \in {1} |-> <<g[i], i - 1>>]
      BY <1>2 DEF WithSlots
    <3>2. post' \in Seq(Seqs \X {0}) /\ Len(post') = 1 /\ post'[1] = <<s, 0>>
      <4>1. post' = <<<<s, 0>>>>
        BY <3>1, <1>2
      <4> QED BY <4>1, <1>1
    <3> QED BY <3>2
  <2>4. ASSUME NEW i \in 1..Len(post') PROVE post'[i][1] = s
    BY <2>3
  <2>5. \A i \in 1..Len(post') : post'[i][1] \in Members(batch') /\ Written(seq'[post'[i][1]])
    BY <2>4, <1>5
  <2> QED BY <2>1, <2>2, <2>5 DEF Paced
<1>8. Len(todo') <= 1
  BY Served
<1> QED BY <1>4, <1>5, <1>6, <1>7, <1>8, ServedChanges

\* The first group of a list of one.
LEMMA OneGroup ==
  ASSUME NEW q \in Seq(Seqs), q # <<>>, Len(q) <= 1
  PROVE  \E s \in Members(q) : FirstGroup(q) = <<s>>
<1>1. Head(q) \in Seqs /\ Head(q) \in Members(q)
  BY HeadTail
<1>2. PICK g \in Seq(Seqs) : /\ g = FirstGroup(q) /\ Len(g) <= 1 /\ Len(g) \in Nat
                             /\ Members(g) = Members(q) \cap Alike(q)
  <2>1. PICK A : A = Alike(q)
    OBVIOUS
  <2>2. /\ Kept(q, A) \in Seq(Seqs) /\ Len(Kept(q, A)) <= Len(q) /\ Len(Kept(q, A)) \in Nat
        /\ Members(Kept(q, A)) = Members(q) \cap A
    BY KeptFacts
  <2>3. FirstGroup(q) = Kept(q, A)
    BY <2>1 DEF FirstGroup
  <2>4. Len(Kept(q, A)) <= 1
    BY <2>2
  <2> QED BY <2>1, <2>2, <2>3, <2>4
<1>3. Head(q) \in Members(g)
  BY <1>1, <1>2 DEF Alike
<1>4. Len(g) = 1
  <2>1. g # <<>>
    BY <1>3, NoMembers
  <2>2. Len(g) # 0
    BY <2>1, MembersFacts
  <2>3. PICK n \in Nat : n = Len(g) /\ n <= 1
    BY <1>2
  <2>4. n = 1
    BY <2>2, <2>3
  <2> QED BY <2>3, <2>4
<1>5. g = <<g[1]>> /\ g[1] \in Members(g)
  BY <1>4, MembersFacts
<1> QED BY <1>2, <1>5

\* The three forwards serve one sequence each.
LEMMA ForwardsSound ==
  ASSUME MaxBatch = 1, VInv, SInv, BatchPrefill \/ PrefillOne \/ BatchDecode
  PROVE  SInv'
<1>1. PICK s \in Members(pres) \cup Members(ones) \cup Members(decs) :
        /\ slot' = GroupSlots(<<s>>) /\ seq' = GroupSeqs(<<s>>) /\ post' = WithSlots(<<s>>)
        /\ UNCHANGED <<entries, page, waiting, running, batch, todo>>
  <2>1. pres \in Seq(Seqs) /\ ones \in Seq(Seqs) /\ decs \in Seq(Seqs)
    BY DEF VInv, VTypes
  <2>2. CASE BatchPrefill
    <3>1. pres # <<>> /\ Len(pres) <= 1
      BY <2>2, ListsFit DEF BatchPrefill, InGroups
    <3>2. PICK s \in Members(pres) : FirstGroup(pres) = <<s>>
      BY <3>1, <2>1, OneGroup
    <3> QED BY <3>2, <2>1, <2>2 DEF BatchPrefill, queues
  <2>3. CASE PrefillOne
    <3>1. Head(ones) \in Members(ones)
      BY <2>1, <2>3, HeadTail DEF PrefillOne
    <3> QED BY <3>1, <2>1, <2>3 DEF PrefillOne, queues
  <2>4. CASE BatchDecode
    <3>1. decs # <<>> /\ Len(decs) <= 1
      BY <2>4, ListsFit DEF BatchDecode, InGroups
    <3>2. PICK s \in Members(decs) : FirstGroup(decs) = <<s>>
      BY <3>1, <2>1, OneGroup
    <3> QED BY <3>2, <2>1, <2>4 DEF BatchDecode, queues
  <2> QED BY <2>2, <2>3, <2>4
<1>2. s \in Members(batch) /\ Fit(s)
  BY <1>1, ListFacts, ListsFit
<1> QED BY <1>1, <1>2, ForwardSound

\* A token joins the text: what came before it stays.
LEMMA TokenAdded ==
  ASSUME NEW q \in SeqRecs, NEW t \in OutTokens, NEW u \in SeqRecs, u = [q EXCEPT !.out = Append(q.out, t)]
  PROVE  /\ \A n \in 0..Len(q.prompt) + Len(q.out) : Upto(u, n) = Upto(q, n)
         /\ Len(u.out) = Len(q.out) + 1 /\ u.out # <<>>
         /\ u.prompt = q.prompt /\ u.cached = q.cached /\ u.heard = q.heard /\ u.hit = q.hit
         /\ u.pending = q.pending /\ u.handle = q.handle /\ u.hlen = q.hlen
         /\ u.need = q.need /\ u.prepared = q.prepared
<1>1. PICK p \in Seq(Vocab), x \in Seq(Vocab), y \in Seq(Vocab) : p = q.prompt /\ x = q.out /\ y = u.out
  BY TextFacts
<1>2. /\ u.out = Append(q.out, t) /\ u.prompt = q.prompt /\ u.cached = q.cached /\ u.heard = q.heard
      /\ u.hit = q.hit /\ u.pending = q.pending /\ u.handle = q.handle /\ u.hlen = q.hlen
      /\ u.need = q.need /\ u.prepared = q.prepared
  BY DEF SeqRecs
<1>3. Len(y) = Len(x) + 1 /\ \A i \in 1..Len(x) : y[i] = x[i]
  BY <1>1, <1>2
<1>4. /\ p \o x \in Seq(Vocab) /\ Len(p \o x) = Len(p) + Len(x)
      /\ \A i \in 1..Len(p) : (p \o x)[i] = p[i]
      /\ \A i \in Len(p) + 1..Len(p) + Len(x) : i - Len(p) \in 1..Len(x) /\ (p \o x)[i] = x[i - Len(p)]
  BY ConcatFacts
<1>5. /\ p \o y \in Seq(Vocab) /\ Len(p \o y) = Len(p) + Len(y)
      /\ \A i \in 1..Len(p) : (p \o y)[i] = p[i]
      /\ \A i \in Len(p) + 1..Len(p) + Len(y) : i - Len(p) \in 1..Len(y) /\ (p \o y)[i] = y[i - Len(p)]
  BY ConcatFacts
<1>6. PICK a \in Seq(Vocab), b \in Seq(Vocab) : a = p \o x /\ b = p \o y
  BY <1>4, <1>5
<1>7. Len(p) \in Nat /\ Len(x) \in Nat /\ Len(y) \in Nat
  OBVIOUS
<1>8. ASSUME NEW i \in 1..Len(p) + Len(x) PROVE b[i] = a[i]
  <2>1. CASE i <= Len(p)
    <3>1. i \in 1..Len(p)
      BY <2>1, <1>7
    <3> QED BY <3>1, <1>4, <1>5, <1>6
  <2>2. CASE i > Len(p)
    <3>1. /\ i \in Len(p) + 1..Len(p) + Len(x) /\ i \in Len(p) + 1..Len(p) + Len(y)
      BY <2>2, <1>3, <1>7
    <3>2. PICK j \in 1..Len(x) : j = i - Len(p) /\ a[i] = x[j]
      BY <3>1, <1>4, <1>6
    <3>3. b[i] = y[j]
      BY <3>1, <3>2, <1>5, <1>6
    <3> QED BY <3>2, <3>3, <1>3
  <2> QED BY <2>1, <2>2, <1>7
<1>9. ASSUME NEW n \in 0..Len(p) + Len(x) PROVE Upto(u, n) = Upto(q, n)
  <2>1. n \in Nat /\ n <= Len(a) /\ n <= Len(b)
    BY <1>3, <1>4, <1>5, <1>6, <1>7
  <2>2. \A i \in 1..n : b[i] = a[i]
    <3> TAKE i \in 1..n
    <3>1. i \in 1..Len(p) + Len(x)
      BY <1>7
    <3> QED BY <3>1, <1>8
  <2>3. SubSeq(b, 1, n) = SubSeq(a, 1, n)
    BY <2>1, <2>2, SamePrefix
  <2> QED BY <2>3, <1>1, <1>2, <1>6 DEF Upto
<1>10. y # <<>>
  BY <1>3, <1>7
<1> QED BY <1>1, <1>2, <1>3, <1>9, <1>10

\* A result is applied: the member is skipped, gets a token, or is finished.
LEMMA EmitSound ==
  ASSUME VInv, SInv, Emit
  PROVE  SInv'
<1>1. /\ step = "apply" /\ todo # <<>> /\ todo' = Tail(todo)
      /\ UNCHANGED <<entries, step, batch, pres, ones, decs, post>>
  BY DEF Emit
<1>2. PICK s \in Seqs : s = Head(todo) /\ s \in Members(todo) /\ s \in Members(batch)
  BY <1>1, HeadTail, ListFacts DEF VInv, VTypes
<1>3. Len(todo') = 0 /\ todo' = <<>>
  <2>1. PICK q \in Seq(Seqs) : q = todo
    BY DEF VInv, VTypes
  <2>2. PICK n \in Nat : n = Len(q) /\ n <= 1
    BY <2>1, Served
  <2>3. Tail(q) \in Seq(Seqs) /\ Len(Tail(q)) = Len(q) - 1
    BY <2>1, <1>1, HeadTail
  <2>4. PICK m \in Nat : m = Len(Tail(q)) /\ m = n - 1
    BY <2>2, <2>3
  <2>5. m = 0
    BY <2>2, <2>4
  <2>6. Tail(q) = <<>>
    BY <2>3, <2>4, <2>5, MembersFacts
  <2> QED BY <2>1, <2>4, <2>5, <2>6, <1>1
<1>4. \A r : Waits(r)'
  BY <1>1, <1>3, NoMembers DEF Waits
<1>5. post = <<>> /\ pres = <<>> /\ ones = <<>> /\ decs = <<>>
  BY <1>1 DEF VInv, Listing
<1>6. Paced'
  BY <1>1, <1>4, <1>5 DEF Paced
<1>7. Len(todo') <= 1
  BY <1>3
<1>8. \/ UNCHANGED <<page, slot, seq, waiting, running>>
      \/ \E t \in OutTokens : /\ ~seq[s].fin /\ seq' = [seq EXCEPT ![s].out = Append(@, t)]
                              /\ UNCHANGED <<page, slot, waiting, running>>
      \/ Finish(s)
  BY <1>2 DEF Emit, queues
<1>9. CASE UNCHANGED <<page, slot, seq, waiting, running>>
  <2>1. Serving' = Serving
    BY <1>1, <1>9 DEF Serving
  <2> QED BY <2>1, <1>1, <1>6, <1>7, <1>9, SameSeq, Served, ListsOnly
<1>10. CASE Finish(s)
  <2>1. Prompted(s)
    BY <1>2, Served
  <2> QED BY <2>1, <1>1, <1>4, <1>7, <1>10, FinishSound
<1>11. CASE \E t \in OutTokens : /\ ~seq[s].fin /\ seq' = [seq EXCEPT ![s].out = Append(@, t)]
                                 /\ UNCHANGED <<page, slot, waiting, running>>
  <2>1. PICK t \in OutTokens : /\ ~seq[s].fin /\ seq' = [seq EXCEPT ![s].out = Append(@, t)]
                               /\ UNCHANGED <<page, slot, waiting, running>>
    BY <1>11
  <2>2. PICK q \in SeqRecs : /\ q = seq[s] /\ SeqOK(q) /\ SeqSound(q, page) /\ SlotHolds(slot[0], q)
    BY <1>2, Served
  <2>3. PICK u : u = [q EXCEPT !.out = Append(q.out, t)]
    OBVIOUS
  <2>4. u \in SeqRecs
    <3>1. Append(q.out, t) \in Seq(OutTokens)
      BY DEF SeqRecs
    <3> QED BY <3>1, <2>3 DEF SeqRecs
  <2>5. seq'[s] = u /\ \A r \in Seqs \ {s} : seq'[r] = seq[r]
    <3>1. seq \in [Seqs -> SeqRecs]
      BY DEF VInv, VTypes
    <3> QED BY <3>1, <2>1, <2>2, <2>3
  <2>6. Done(q)
    <3>1. ~Waits(s)
      BY <1>1, <1>2 DEF Waits
    <3>2. ~InLists(s)
      BY <1>5, NoMembers DEF InLists
    <3> QED BY <3>1, <3>2, <2>1, <2>2 DEF SInv, Paced
  <2>7. /\ \A n \in 0..Len(q.prompt) + Len(q.out) : Upto(u, n) = Upto(q, n)
        /\ Len(u.out) = Len(q.out) + 1 /\ u.out # <<>>
        /\ u.prompt = q.prompt /\ u.cached = q.cached /\ u.heard = q.heard /\ u.hit = q.hit
        /\ u.pending = q.pending /\ u.handle = q.handle /\ u.hlen = q.hlen
        /\ u.need = q.need /\ u.prepared = q.prepared
    BY <2>3, <2>4, TokenAdded
  <2>8. PICK a \in Nat, b \in Nat, c \in Nat : a = Len(q.prompt) /\ b = Len(q.out) /\ c = q.cached
    BY TextFacts
  <2>9. c <= a + b /\ a + b <= c
    BY <2>2, <2>6, <2>8 DEF SeqOK, Done
  <2>10. Upto(u, c) = Upto(q, c) /\ \A i \in 1..c : Upto(u, i) = Upto(q, i)
    <3>1. \A i \in 0..a + b : Upto(u, i) = Upto(q, i)
      BY <2>7, <2>8
    <3>2. c \in 0..a + b /\ \A i \in 1..c : i \in 0..a + b
      BY <2>9
    <3> QED BY <3>1, <3>2
  <2>11. q.prepared /\ ~q.pending
    BY <2>2, <2>6 DEF Done, SeqSound
  <2>12. Len(u.prompt) + Len(u.out) <= u.cached + 1
    <3>1. a + (b + 1) <= c + 1
      BY <2>9
    <3> QED BY <3>1, <2>7, <2>8
  <2>13. SeqSound(u, page)
    BY <2>2, <2>7, <2>8, <2>10, <2>11, <2>12 DEF SeqSound
  <2>14. Keeps(slot[0], u)
    <3>1. Keeps(slot[0], q)
      BY <2>2, <2>11 DEF SlotHolds
    <3> HIDE DEF Upto
    <3> QED BY <3>1, <2>7, <2>8, <2>10 DEF Keeps
  <2>15. \A x, f : LaidSeq(x, f, q) => LaidSeq(x, f, u)
    BY <2>7 DEF LaidSeq
  <2>16. /\ SeqSound(seq'[s], page) /\ Keeps(slot'[0], seq'[s])
         /\ \A x, f : LaidSeq(x, f, seq[s]) => LaidSeq(x, f, seq'[s])
    BY <2>1, <2>2, <2>5, <2>13, <2>14, <2>15
  <2> QED BY <2>1, <2>5, <2>16, <1>1, <1>2, <1>6, <1>7, ServedChanges
<1> QED BY <1>8, <1>9, <1>10, <1>11

-----------------------------------------------------------------------------
(* The steps keep the second invariant: admission                            *)

\* What the cache serves for a prompt: a prefix of it, its state and its rows.
LEMMA BestSound ==
  ASSUME VInv, SInv, NEW p \in Prompts
  PROVE  LET e == Best(p)
             n == Len(e.toks)
         IN /\ n \in Nat /\ n <= Len(p) /\ e.logits = SubSeq(p, 1, n)
            /\ Hits(p) = {} => n = 0 /\ e.pages = <<>>
            /\ Hits(p) # {} =>
                 /\ e.st = SubSeq(p, 1, n)
                 /\ e.pages = <<>> => \A i \in 1..n : e.kv[i] = SubSeq(p, 1, i)
                 /\ e.pages # <<>> => RowsOf(page, e.pages, p, n)
            /\ \A x, f : Laid(x, f) => \A k \in 1..Len(e.pages) : x[e.pages[k]] = k /\ f[e.pages[k]] = n
<1>1. p \in Seq(Vocab) /\ Len(p) \in Nat
  BY HistoryFacts
<1>2. CASE Hits(p) = {}
  <2>1. PICK e : e = Best(p) /\ e = NoEntry
    BY <1>2 DEF Best
  <2>2. e.toks = <<>> /\ e.logits = <<>> /\ e.pages = <<>> /\ Len(e.toks) = 0 /\ Len(e.pages) = 0
    BY <2>1 DEF NoEntry
  <2>3. SubSeq(p, 1, 0) = <<>>
    <3>1. SubSeq(p, 1, 0) \in Seq(Vocab) /\ Len(SubSeq(p, 1, 0)) = 0
      BY <1>1, PartFacts
    <3> QED BY <3>1, MembersFacts
  <2> QED BY <2>1, <2>2, <2>3, <1>1, <1>2
<1>3. CASE Hits(p) # {}
  <2>1. PICK k \in 1..Len(entries) :
          /\ Best(p) = entries[k] /\ IsPrefixOf(entries[k].toks, p)
          /\ entries[k] \in EntryRecs(Prompts) /\ Len(entries[k].toks) \in Nat
    BY <1>3, BestHit
  <2>2. PICK e \in EntryRecs(Prompts) : e = entries[k] /\ EntrySound(e, page) /\ e = Best(p)
    BY <2>1 DEF SInv, EntriesSound
  <2>3. PICK n \in Nat, t \in Seq(Vocab) : n = Len(e.toks) /\ t = e.toks
    BY <2>1, <2>2, HistoryFacts DEF EntryRecs
  <2>4. n <= Len(p) /\ t = SubSeq(p, 1, n)
    BY <2>1, <2>2, <2>3 DEF IsPrefixOf
  <2>5. n \in 0..Len(p)
    BY <2>4, <1>1
  <2>6. \A i \in 1..n : SubSeq(t, 1, i) = SubSeq(p, 1, i)
    <3>1. \A i \in 0..n : SubSeq(t, 1, i) = SubSeq(p, 1, i)
      BY <2>4, <2>5, <1>1, PrefixFacts
    <3>2. \A i \in 1..n : i \in 0..n
      OBVIOUS
    <3> QED BY <3>1, <3>2
  <2>7. e.logits = t /\ e.st = t
    BY <2>2, <2>3 DEF EntrySound
  <2>8. e.pages = <<>> => \A i \in 1..n : e.kv[i] = SubSeq(p, 1, i)
    <3>1. e.pages = <<>> => \A i \in 1..n : e.kv[i] = SubSeq(t, 1, i)
      BY <2>2, <2>3 DEF EntrySound
    <3> QED BY <3>1, <2>6
  <2>9. e.pages # <<>> => RowsOf(page, e.pages, p, n)
    <3>1. e.pages # <<>> => RowsOf(page, e.pages, t, n)
      BY <2>2, <2>3 DEF EntrySound
    <3> QED BY <3>1, <2>6 DEF RowsOf
  <2>10. \A x, f : Laid(x, f) => \A j \in 1..Len(e.pages) : x[e.pages[j]] = j /\ f[e.pages[j]] = n
    <3> TAKE x, f
    <3> SUFFICES ASSUME Laid(x, f) PROVE \A j \in 1..Len(e.pages) : x[e.pages[j]] = j /\ f[e.pages[j]] = n
      OBVIOUS
    <3>1. LaidEntry(x, f, e)
      BY <2>1, <2>2 DEF Laid
    <3> QED BY <3>1, <2>3 DEF LaidEntry
  <2> QED BY <2>2, <2>3, <2>4, <2>7, <2>8, <2>9, <2>10, <1>3
<1> QED BY <1>2, <1>3

\* Admission: a hit is promised the entry's state and shares its pages.
LEMMA AdmitSound ==
  ASSUME VInv, SInv, NEW s \in Seqs, NEW p \in Prompts, Admit(s, p)
  PROVE  SInv'
<1>1. PICK e \in EntryRecs(AnyPrompt), n \in Nat :
        /\ e = Best(p) /\ n = Len(e.toks) /\ n <= Len(p) /\ e.logits = SubSeq(p, 1, n)
        /\ Hits(p) = {} => n = 0 /\ e.pages = <<>>
        /\ Hits(p) # {} =>
             /\ e.st = SubSeq(p, 1, n)
             /\ e.pages = <<>> => \A i \in 1..n : e.kv[i] = SubSeq(p, 1, i)
             /\ e.pages # <<>> => RowsOf(page, e.pages, p, n)
        /\ \A x, f : Laid(x, f) => \A k \in 1..Len(e.pages) : x[e.pages[k]] = k /\ f[e.pages[k]] = n
  BY BestFacts, BestSound
<1>2. PICK c \in BOOLEAN : c = (Hits(p) # {})
  OBVIOUS
<1>3. seq[s] = NewSequence /\ seq \in [Seqs -> SeqRecs] /\ ~Prompted(s)
  BY DEF Admit, Prompted, VInv, SeqsOK, SeqOK, VTypes
<1>4. PICK q \in SeqRecs : q = seq[s] /\ q.out = <<>> /\ ~q.need /\ ~q.prepared
  <2>1. NewSequence.out = <<>> /\ ~NewSequence.need /\ ~NewSequence.prepared
    BY DEF NewSequence
  <2> QED BY <2>1, <1>3
<1> DEFINE u == [q EXCEPT !.prompt = p, !.hit = e, !.cached = n, !.heard = e.logits,
                          !.pending = c, !.handle = e.pages, !.hlen = n]
<1>5. /\ u.prompt = p /\ u.out = <<>> /\ u.cached = n /\ u.heard = e.logits /\ u.hit = e
      /\ u.handle = e.pages /\ u.hlen = n /\ u.pending = c /\ ~u.need /\ ~u.prepared
  BY <1>4 DEF SeqRecs
<1>6. seq' = [seq EXCEPT ![s] = u] /\ waiting' = Append(waiting, s)
  BY <1>1, <1>2, <1>4 DEF Admit, HitHandle
<1>7. UNCHANGED <<entries, page, slot, running, step, batch, todo, pres, ones, decs, post>>
  BY DEF Admit, work
<1> HIDE DEF u
<1>8. seq'[s] = u /\ \A r \in Seqs \ {s} : seq'[r] = seq[r]
  BY <1>3, <1>6
<1>9. p \in Seq(Vocab) /\ Len(p) \in Nat /\ n \in 0..Len(p)
  BY <1>1, HistoryFacts
<1>10. Upto(u, n) = SubSeq(p, 1, n)
  <2>1. PICK a \in Seq(Vocab), b \in Seq(Vocab) : a = p /\ b = <<>>
    BY <1>9, HistoryFacts
  <2>2. /\ a \o b \in Seq(Vocab) /\ Len(a \o b) = Len(a) + Len(b)
        /\ \A i \in 1..Len(a) : (a \o b)[i] = a[i]
    BY ConcatFacts
  <2>3. PICK d \in Seq(Vocab) : d = a \o b /\ Len(d) = Len(a) /\ \A i \in 1..Len(a) : d[i] = a[i]
    BY <2>1, <2>2
  <2>4. n \in Nat /\ n <= Len(d) /\ n <= Len(a) /\ \A i \in 1..n : d[i] = a[i]
    BY <2>1, <2>3, <1>9
  <2>5. SubSeq(d, 1, n) = SubSeq(a, 1, n)
    BY <2>4, SamePrefix
  <2> QED BY <2>1, <2>3, <2>5, <1>5 DEF Upto
<1>11. SeqSound(u, page)
  <2>1. u.heard = Upto(u, u.cached)
    BY <1>1, <1>5, <1>10
  <2>2. u.pending => HitOK(u)
    BY <1>1, <1>2, <1>5 DEF HitOK
  <2>3. u.cached > 0 => u.pending
    <3>1. ~c => n = 0
      BY <1>1, <1>2
    <3> QED BY <3>1, <1>5
  <2>4. u.pending /\ u.handle # <<>> => u.hlen <= Len(u.prompt) /\ RowsOf(page, u.handle, u.prompt, u.hlen)
    BY <1>1, <1>2, <1>5
  <2> QED BY <2>1, <2>2, <2>3, <2>4, <1>5 DEF SeqSound
<1>12. \A x, f : Laid(x, f) => LaidSeq(x, f, u)
  <2> TAKE x, f
  <2> SUFFICES ASSUME Laid(x, f) PROVE LaidSeq(x, f, u)
    OBVIOUS
  <2>1. \A k \in 1..Len(e.pages) : x[e.pages[k]] = k /\ f[e.pages[k]] = n
    BY <1>1
  <2>2. n <= Len(p) /\ n <= n
    BY <1>1
  <2> QED BY <2>1, <2>2, <1>5 DEF LaidSeq
<1>13. Sounds' /\ EntriesSound' /\ SharedSoundly'
  <2>1. \A r \in Seqs : SeqSound(seq'[r], page)
    BY <1>8, <1>11, Served
  <2>2. \A x, f : Laid(x, f) => \A r \in Seqs : LaidSeq(x, f, seq'[r])
    BY <1>8, <1>12 DEF Laid
  <2> QED BY <2>1, <2>2, <1>7, DataKept
<1>14. s \notin Serving /\ s \notin Members(waiting) /\ Serving \subseteq Seqs /\ Members(waiting) \subseteq Seqs
  BY <1>3, ListFacts DEF Serving, Listed
<1>15. Serving' = Serving
  BY <1>7 DEF Serving
<1>16. PICK w \in Seq(Seqs) : w = waiting
  BY DEF VInv, VTypes
<1>17. Turns'
  <2>1. Members(waiting') = Members(waiting) \cup {s}
    BY <1>6, <1>16, MembersAppend
  <2>2. \A r \in Members(waiting) : ~seq[r].prepared /\ r \notin Serving
    BY DEF SInv, Turns
  <2>3. \A r \in Members(waiting') : ~seq'[r].prepared /\ r \notin Serving'
    BY <2>1, <2>2, <1>5, <1>8, <1>14, <1>15
  <2>4. \A i, j \in 1..Len(w) : w[i] = w[j] => i = j
    BY <1>16, Served
  <2>5. \A i \in 1..Len(w) : w[i] # s
    BY <1>14, <1>16, MembersFacts
  <2>6. \A i, j \in 1..Len(Append(w, s)) : Append(w, s)[i] = Append(w, s)[j] => i = j
    <3> TAKE i, j \in 1..Len(Append(w, s))
    <3>1. Len(w) \in Nat /\ Len(Append(w, s)) = Len(w) + 1 /\ Append(w, s)[Len(w) + 1] = s
          /\ \A k \in 1..Len(w) : Append(w, s)[k] = w[k]
      OBVIOUS
    <3>2. PICK b : b = Append(w, s)
      OBVIOUS
    <3>3. /\ i \in 1..Len(w) \/ i = Len(w) + 1
          /\ j \in 1..Len(w) \/ j = Len(w) + 1
      BY <3>1
    <3>4. CASE i \in 1..Len(w) /\ j \in 1..Len(w)
      BY <3>1, <3>4, <2>4
    <3>5. CASE i \in 1..Len(w) /\ j = Len(w) + 1
      BY <3>1, <3>5, <2>5
    <3>6. CASE i = Len(w) + 1 /\ j \in 1..Len(w)
      BY <3>1, <3>6, <2>5
    <3>7. CASE i = Len(w) + 1 /\ j = Len(w) + 1
      BY <3>7
    <3> QED BY <3>3, <3>4, <3>5, <3>6, <3>7
  <2>7. \A i, j \in 1..Len(waiting') : waiting'[i] = waiting'[j] => i = j
    BY <2>6, <1>6, <1>16
  <2>8. Len(todo') <= 1 /\ \A r, y \in Serving' : r = y
    BY <1>7, <1>15, Served
  <2> QED BY <2>3, <2>7, <2>8 DEF Turns
<1>18. SlotSound'
  <2>1. \A r \in Serving : SlotHolds(slot[0], seq[r]) /\ seq'[r] = seq[r]
    BY <1>8, <1>14, Served
  <2> QED BY <2>1, <1>7, <1>15 DEF SlotSound
<1>19. Paced'
  <2>1. \A r : Waits(r)' = Waits(r) /\ InLists(r)' = InLists(r)
    BY <1>7 DEF Waits, InLists
  <2>2. \A r \in Members(batch) : r # s /\ r \in Seqs
    BY <1>14, Served
  <2>3. ASSUME NEW r \in Seqs, ~seq'[r].fin, ~Waits(r)' PROVE InLists(r)' \/ Done(seq'[r])
    <3>1. ~Waits(r) /\ r # s
      BY <2>1, <2>2, <2>3 DEF Waits
    <3>2. seq'[r] = seq[r]
      BY <3>1, <1>8
    <3> QED BY <3>1, <3>2, <2>1, <2>3 DEF SInv, Paced
  <2>4. ASSUME NEW i \in 1..Len(post) PROVE post[i][1] \in Members(batch) /\ Written(seq'[post[i][1]])
    <3>1. post[i][1] \in Members(batch) /\ Written(seq[post[i][1]])
      BY DEF SInv, Paced
    <3> QED BY <3>1, <2>2, <1>8
  <2> QED BY <2>3, <2>4, <1>7 DEF Paced
<1> QED BY <1>13, <1>17, <1>18, <1>19 DEF SInv

-----------------------------------------------------------------------------
(* Writing pages                                                             *)

\* Nobody lists a free page.
Unheld ==
  \A p \in Pages : ref[p] = 0 =>
    /\ \A i \in 1..Len(entries) : p \notin Members(entries[i].pages)
    /\ \A s \in Seqs : p \notin Members(seq[s].handle)

\* The counts cover the holders, in this state and in the next.
LEMMA VInvUnheld == VInv => Unheld
  BY FreeUnheld DEF VInv, Unheld

\* The same in the next state.
LEMMA UnheldNext == VInv' => Unheld'
  BY VInvUnheld, PTL

\* Rows of pages that nobody writes.
LEMMA RowsFrame ==
  ASSUME NEW h \in Seq(Pages), NEW n \in Nat, PagesForTokens(n) <= Len(h), NEW pg, NEW pg2,
         \A p \in Members(h) : pg2[p] = pg[p], NEW text, RowsOf(pg, h, text, n)
  PROVE  RowsOf(pg2, h, text, n)
<1> SUFFICES ASSUME NEW i \in 1..n PROVE Row(pg2, h, i) = SubSeq(text, 1, i)
  BY DEF RowsOf
<1>1. PICK k : k = (i - 1) \div BlockSize + 1
  OBVIOUS
<1>2. k \in 1..Len(h)
  <2>1. k \in 1..PagesForTokens(n) /\ PagesForTokens(n) \in Nat
    BY <1>1, RowPlace
  <2> QED BY <2>1
<1>3. h[k] \in Members(h)
  BY <1>2, MembersFacts
<1>4. Row(pg, h, i) = SubSeq(text, 1, i)
  BY DEF RowsOf
<1> QED BY <1>1, <1>3, <1>4 DEF Row

\* A sequence whose pages nobody writes.
LEMMA SoundFrame ==
  ASSUME NEW q \in SeqRecs, SeqOK(q), NEW pg, NEW pg2, SeqSound(q, pg),
         \A p \in Members(q.handle) : pg2[p] = pg[p]
  PROVE  SeqSound(q, pg2)
<1>1. q.handle \in Seq(Pages) /\ q.hlen \in Nat
  BY DEF SeqRecs
<1>2. (q.pending \/ q.need) /\ q.handle # <<>> => RowsOf(pg2, q.handle, q.prompt, q.hlen)
  <2> SUFFICES ASSUME q.pending \/ q.need, q.handle # <<>> PROVE RowsOf(pg2, q.handle, q.prompt, q.hlen)
    OBVIOUS
  <2>1. PagesForTokens(q.hlen) <= Len(q.handle) /\ RowsOf(pg, q.handle, q.prompt, q.hlen)
    BY DEF SeqOK, SeqSound
  <2> QED BY <2>1, <1>1, RowsFrame
<1> QED BY <1>2 DEF SeqSound

\* An entry whose pages nobody writes.
LEMMA EntryFrame ==
  ASSUME NEW e \in EntryRecs(Prompts), EntryOK(e), NEW pg, NEW pg2, EntrySound(e, pg),
         \A p \in Members(e.pages) : pg2[p] = pg[p]
  PROVE  EntrySound(e, pg2)
<1>1. e.pages \in Seq(Pages) /\ Len(e.toks) \in Nat
  <2>1. e.pages \in Seq(Pages) /\ e.toks \in Seq(Vocab)
    BY HistoryFacts DEF EntryRecs
  <2> QED BY <2>1
<1>2. e.pages # <<>> => RowsOf(pg2, e.pages, e.toks, Len(e.toks))
  <2> SUFFICES ASSUME e.pages # <<>> PROVE RowsOf(pg2, e.pages, e.toks, Len(e.toks))
    OBVIOUS
  <2>1. PagesForTokens(Len(e.toks)) <= Len(e.pages) /\ RowsOf(pg, e.pages, e.toks, Len(e.toks))
    BY DEF EntryOK, EntrySound
  <2> QED BY <2>1, <1>1, RowsFrame
<1> QED BY <1>2 DEF EntrySound

\* A page outside the list written keeps its rows.
LEMMA WrittenElsewhere ==
  ASSUME VInv, NEW t \in Seq(Pages), NEW kv, NEW first \in Nat \ {0}, NEW last \in Nat,
         PagesForTokens(last) <= Len(t), NEW p \in Pages, p \notin Members(t)
  PROVE  RowsWritten(t, kv, first, last)[p] = page[p]
<1> DEFINE here(o) == {i \in first..last : GoesTo(t, i, p, o)}
<1>1. ASSUME NEW o PROVE here(o) = {}
  <2> SUFFICES ASSUME NEW i \in first..last, GoesTo(t, i, p, o) PROVE FALSE
    OBVIOUS
  <2>1. i \in 1..last
    OBVIOUS
  <2>2. PICK k : k = (i - 1) \div BlockSize + 1
    OBVIOUS
  <2>3. k \in 1..Len(t)
    <3>1. k \in 1..PagesForTokens(last) /\ PagesForTokens(last) \in Nat
      BY <2>1, <2>2, RowPlace
    <3> QED BY <3>1
  <2>4. t[k] = p
    BY <2>2 DEF GoesTo
  <2> QED BY <2>3, <2>4, MembersFacts
<1>2. RowsWritten(t, kv, first, last)[p]
        = [o \in 0..BlockSize - 1 |-> IF here(o) = {} THEN page[p][o] ELSE kv[CHOOSE i \in here(o) : TRUE]]
  BY DEF RowsWritten
<1> HIDE DEF here
<1>3. page[p] \in [0..BlockSize - 1 -> Histories]
  BY DEF VInv, VTypes
<1>4. [o \in 0..BlockSize - 1 |-> IF here(o) = {} THEN page[p][o] ELSE kv[CHOOSE i \in here(o) : TRUE]]
        = [o \in 0..BlockSize - 1 |-> page[p][o]]
  BY <1>1
<1> QED BY <1>2, <1>3, <1>4

\* The rows written to a list of different pages are found there.
LEMMA WrittenThere ==
  ASSUME NEW t \in Seq(Pages), \A i, j \in 1..Len(t) : t[i] = t[j] => i = j, NEW kv, NEW n \in Nat,
         PagesForTokens(n) <= Len(t), NEW i \in 1..n
  PROVE  Row(RowsWritten(t, kv, 1, n), t, i) = kv[i]
<1>0. /\ PagesForTokens(n) \in Nat
      /\ \A j \in 1..n : /\ (j - 1) \div BlockSize + 1 \in 1..PagesForTokens(n)
                         /\ (j - 1) % BlockSize \in 0..BlockSize - 1
  BY RowPlace
<1>1. PICK k, o : k = (i - 1) \div BlockSize + 1 /\ o = (i - 1) % BlockSize
  OBVIOUS
<1>2. \A j \in 1..n : (j - 1) \div BlockSize + 1 \in 1..Len(t)
  <2> TAKE j \in 1..n
  <2>1. PICK m : m = (j - 1) \div BlockSize + 1
    OBVIOUS
  <2>2. m \in 1..PagesForTokens(n)
    BY <2>1, <1>0
  <2>3. m \in 1..Len(t)
    BY <2>2, <1>0
  <2> QED BY <2>1, <2>3
<1>3. k \in 1..Len(t) /\ o \in 0..BlockSize - 1 /\ t[k] \in Pages
  <2>1. k \in 1..Len(t)
    BY <1>1, <1>2
  <2> QED BY <2>1, <1>0, <1>1
<1> DEFINE here == {j \in 1..n : GoesTo(t, j, t[k], o)}
<1>4. i \in here
  BY <1>1 DEF GoesTo
<1>5. ASSUME NEW j \in here PROVE j = i
  <2>1. PICK m : m = (j - 1) \div BlockSize
    OBVIOUS
  <2>2. t[m + 1] = t[k] /\ (j - 1) % BlockSize = o /\ j \in 1..n
    BY <2>1 DEF GoesTo
  <2>3. m + 1 \in 1..Len(t)
    BY <2>1, <2>2, <1>2
  <2>4. m + 1 = k
    BY <2>2, <2>3, <1>3
  <2>5. PICK m1 : m1 = (i - 1) \div BlockSize
    OBVIOUS
  <2>6. m \in Int /\ m1 \in Int
    <3>1. j - 1 \in Nat /\ i - 1 \in Nat /\ BlockSize \in Nat \ {0}
      BY <2>2, Constants
    <3>2. (j - 1) \div BlockSize \in Nat /\ (i - 1) \div BlockSize \in Nat
      BY <3>1, Divided
    <3> QED BY <3>2, <2>1, <2>5
  <2>7. m = m1
    BY <2>4, <2>5, <2>6, <1>1
  <2>8. j \in Nat \ {0} /\ i \in Nat \ {0}
    BY <2>2
  <2> QED BY <2>1, <2>2, <2>5, <2>7, <2>8, <1>1, SameRow
<1>6. here # {} /\ (CHOOSE j \in here : TRUE) = i
  BY <1>4, <1>5
<1>7. RowsWritten(t, kv, 1, n)[t[k]][o] = IF here = {} THEN page[t[k]][o] ELSE kv[CHOOSE j \in here : TRUE]
  BY <1>3 DEF RowsWritten
<1> HIDE DEF here
<1> QED BY <1>1, <1>6, <1>7 DEF Row

\* A list of different pages; and new places and fills for them.
Apart(t) == \A i, j \in 1..Len(t) : t[i] = t[j] => i = j
RelaidBy(x, f, t, d, m) ==
  \E x2, f2 \in [Pages -> Nat] :
    /\ \A k \in 1..Len(t) : x2[t[k]] = d + k /\ f2[t[k]] = m
    /\ \A p \in Pages : p \notin Members(t) => x2[p] = x[p] /\ f2[p] = f[p]

\* Pages in no list get a place and a fill.
LEMMA Relaid ==
  ASSUME NEW x \in [Pages -> Nat], NEW f \in [Pages -> Nat], NEW t \in Seq(Pages),
         Apart(t), NEW d \in Nat, NEW m \in Nat
  PROVE  RelaidBy(x, f, t, d, m)
<1> DEFINE at(p) == CHOOSE k \in 1..Len(t) : t[k] = p
           x2 == [p \in Pages |-> IF p \in Members(t) THEN d + at(p) ELSE x[p]]
           f2 == [p \in Pages |-> IF p \in Members(t) THEN m ELSE f[p]]
<1>1. ASSUME NEW p \in Members(t) PROVE at(p) \in 1..Len(t) /\ t[at(p)] = p
  <2>1. \E k \in 1..Len(t) : t[k] = p
    BY MembersFacts
  <2> QED BY <2>1
<1>2. \A k \in 1..Len(t) : t[k] \in Members(t) /\ t[k] \in Pages
  BY MembersFacts
<1>3. \A k \in 1..Len(t) : at(t[k]) = k
  <2> TAKE k \in 1..Len(t)
  <2>1. at(t[k]) \in 1..Len(t) /\ t[at(t[k])] = t[k]
    BY <1>1, <1>2
  <2> HIDE DEF at
  <2> QED BY <2>1 DEF Apart
<1> HIDE DEF at
<1>4. x2 \in [Pages -> Nat] /\ f2 \in [Pages -> Nat]
  <2>1. \A p \in Members(t) : d + at(p) \in Nat
    BY <1>1
  <2> QED BY <2>1
<1>5. /\ \A k \in 1..Len(t) : x2[t[k]] = d + k /\ f2[t[k]] = m
      /\ \A p \in Pages : p \notin Members(t) => x2[p] = x[p] /\ f2[p] = f[p]
  BY <1>2, <1>3
<1> HIDE DEF x2, f2
<1> QED BY <1>4, <1>5 DEF RelaidBy

\* Pages in their places, filled below i; or to n at least and not among t.
PlacedBelow(x, f, h, i) == \A k \in 1..Len(h) : x[h[k]] = k /\ f[h[k]] < i
PlacedAbove(x, f, g, n, t) ==
  \A k \in 1..Len(g) : x[g[k]] = k /\ n <= f[g[k]] /\ g[k] \notin Members(t)

\* The place of a row past the fill of the pages it goes to is read by nobody.
LEMMA AppendFrame ==
  ASSUME NEW x, NEW f \in [Pages -> Nat], NEW h \in Seq(Pages), NEW t \in Seq(Pages), NEW kv,
         NEW i \in Nat \ {0}, PagesForTokens(i) <= Len(h \o t),
         PlacedBelow(x, f, h, i),
         NEW g \in Seq(Pages), NEW n \in Nat, PagesForTokens(n) <= Len(g), PlacedAbove(x, f, g, n, t),
         NEW text, RowsOf(page, g, text, n)
  PROVE  RowsOf(RowsWritten(h \o t, kv, i, i), g, text, n)
<1> SUFFICES ASSUME NEW j \in 1..n
             PROVE  Row(RowsWritten(h \o t, kv, i, i), g, j) = SubSeq(text, 1, j)
  BY DEF RowsOf
<1>0. BlockSize \in Nat \ {0}
  BY Constants
<1>1. PICK k, o : k = (j - 1) \div BlockSize + 1 /\ o = (j - 1) % BlockSize
  OBVIOUS
<1>2. k \in 1..Len(g) /\ o \in 0..BlockSize - 1 /\ g[k] \in Pages
  <2>1. k \in 1..PagesForTokens(n) /\ PagesForTokens(n) \in Nat /\ o \in 0..BlockSize - 1
    BY <1>1, RowPlace
  <2>2. k \in 1..Len(g)
    BY <2>1
  <2> QED BY <2>1, <2>2
<1>3. PICK p \in Pages : p = g[k] /\ x[p] = k /\ n <= f[p] /\ p \notin Members(t)
  BY <1>2 DEF PlacedAbove
<1> DEFINE here == {b \in i..i : GoesTo(h \o t, b, p, o)}
<1>4. here = {}
  <2> SUFFICES ASSUME GoesTo(h \o t, i, p, o) PROVE FALSE
    OBVIOUS
  <2>1. PICK a : a = (i - 1) \div BlockSize + 1
    OBVIOUS
  <2>2. (h \o t)[a] = p /\ (i - 1) % BlockSize = o
    BY <2>1 DEF GoesTo
  <2>3. /\ Len(h \o t) = Len(h) + Len(t) /\ \A b \in 1..Len(h) : (h \o t)[b] = h[b]
        /\ \A b \in Len(h) + 1..Len(h) + Len(t) : b - Len(h) \in 1..Len(t) /\ (h \o t)[b] = t[b - Len(h)]
    BY ConcatFacts
  <2>4. a \in 1..PagesForTokens(i) /\ PagesForTokens(i) \in Nat
    <3>1. i \in 1..i
      OBVIOUS
    <3> QED BY <3>1, <2>1, RowPlace
  <2>5. PICK c \in Nat, e \in Nat : c = Len(h) /\ e = Len(t)
    <3>1. Len(h) \in Nat /\ Len(t) \in Nat
      BY MembersFacts
    <3> QED BY <3>1
  <2>6. a \in 1..c + e
    <3>1. PICK z : z = Len(h \o t) /\ PagesForTokens(i) <= z
      OBVIOUS
    <3>2. z = c + e
      BY <3>1, <2>3, <2>5
    <3> QED BY <3>1, <3>2, <2>4
  <2>7. CASE a <= c
    <3>1. a \in 1..Len(h)
      BY <2>5, <2>6, <2>7
    <3>2. h[a] = p
      BY <3>1, <2>2, <2>3
    <3>3. a = k /\ f[p] < i
      BY <3>1, <3>2, <1>3 DEF PlacedBelow
    <3>4. PICK m, m1 : m = (i - 1) \div BlockSize /\ m1 = (j - 1) \div BlockSize
      OBVIOUS
    <3>5. m \in Nat /\ m1 \in Nat
      <4>1. i - 1 \in Nat /\ j - 1 \in Nat
        OBVIOUS
      <4>2. (i - 1) \div BlockSize \in Nat /\ (j - 1) \div BlockSize \in Nat
        BY <4>1, <1>0, Divided
      <4> QED BY <4>2, <3>4
    <3>6. m = m1
      <4>1. m + 1 = m1 + 1
        BY <3>3, <3>4, <2>1, <1>1
      <4> QED BY <4>1, <3>5
    <3>7. j \in Nat \ {0}
      OBVIOUS
    <3>8. i = j
      BY <3>4, <3>6, <3>7, <2>2, <1>1, SameRow
    <3>9. f[p] \in Nat
      OBVIOUS
    <3> QED BY <3>3, <3>8, <3>9, <1>3
  <2>8. CASE a > c
    <3>1. a \in Len(h) + 1..Len(h) + Len(t)
      BY <2>5, <2>6, <2>8
    <3>2. PICK b \in 1..Len(t) : (h \o t)[a] = t[b]
      BY <3>1, <2>3
    <3>3. t[b] \in Members(t)
      BY MembersFacts
    <3> QED BY <3>2, <3>3, <2>2, <1>3
  <2> QED BY <2>6, <2>7, <2>8
<1>5. RowsWritten(h \o t, kv, i, i)[p][o] = IF here = {} THEN page[p][o] ELSE kv[CHOOSE b \in here : TRUE]
  BY <1>2 DEF RowsWritten
<1> HIDE DEF here
<1>6. Row(page, g, j) = SubSeq(text, 1, j)
  BY DEF RowsOf
<1> QED BY <1>1, <1>3, <1>4, <1>5, <1>6 DEF Row

\* The pages of a member are written, or not: its text and its slot stay.
SamePace(q, u) ==
  /\ u.prompt = q.prompt /\ u.out = q.out /\ u.cached = q.cached /\ u.need = q.need
  /\ u.prepared = q.prepared /\ u.fin = q.fin

\* Then so do the turns, the slot and the pace.
LEMMA PostDone ==
  ASSUME VInv, SInv, post # <<>>, post' = Tail(post),
         UNCHANGED <<slot, waiting, running, step, batch, todo, pres, ones, decs>>,
         \A r \in Seqs : SamePace(seq[r], seq'[r])
  PROVE  Turns' /\ SlotSound' /\ Paced'
<1>1. Serving' = Serving /\ Serving \subseteq Seqs /\ Members(waiting) \subseteq Seqs
  BY ListFacts DEF Serving, Listed
<1>2. Turns'
  <2>1. \A r \in Members(waiting) : ~seq[r].prepared => ~seq'[r].prepared
    BY <1>1 DEF SamePace
  <2>2. Len(todo') <= 1 /\ \A i, j \in 1..Len(waiting') : waiting'[i] = waiting'[j] => i = j
    BY Served
  <2> QED BY <2>1, <2>2, <1>1, TurnsKept
<1>3. ASSUME NEW r \in Seqs
      PROVE  /\ \A v : SlotHolds(v, seq[r]) => SlotHolds(v, seq'[r])
             /\ Done(seq[r]) => Done(seq'[r])
             /\ Written(seq[r]) => Written(seq'[r])
  <2>1. PICK q, u : q = seq[r] /\ u = seq'[r] /\ SamePace(q, u)
    OBVIOUS
  <2>2. \A n : Upto(u, n) = Upto(q, n)
    BY <2>1 DEF SamePace, Upto
  <2>3. \A v : SlotHolds(v, q) => SlotHolds(v, u)
    BY <2>1, <2>2 DEF SamePace, SlotHolds, Keeps
  <2>4. Done(q) => Done(u)
    BY <2>1 DEF SamePace, Done
  <2>5. Written(q) => Written(u)
    BY <2>1, <2>4 DEF SamePace, Written
  <2> QED BY <2>1, <2>3, <2>4, <2>5
<1>4. SlotSound'
  BY <1>1, <1>3, SlotKept
<1>5. \A r : Waits(r)' = Waits(r) /\ InLists(r)' = InLists(r)
  BY DEF Waits, InLists
<1>6. ASSUME NEW r \in Seqs, ~seq'[r].fin, ~Waits(r)' PROVE InLists(r)' \/ Done(seq'[r])
  <2>1. ~seq[r].fin /\ ~Waits(r)
    BY <1>5, <1>6 DEF SamePace
  <2>2. InLists(r) \/ Done(seq[r])
    BY <2>1 DEF SInv, Paced
  <2> QED BY <2>2, <1>3, <1>5
<1>7. ASSUME NEW i \in 1..Len(post') PROVE post'[i][1] \in Members(batch') /\ Written(seq'[post'[i][1]])
  <2>1. PICK z \in Seq(Seqs \X Slots) : z = post
    BY PostFacts
  <2>2. /\ Len(Tail(z)) = Len(z) - 1 /\ \A k \in 1..Len(z) - 1 : Tail(z)[k] = z[k + 1]
    BY <2>1, HeadTail
  <2>3. i \in 1..Len(z) - 1 /\ i + 1 \in 1..Len(z)
    BY <2>1, <2>2, <1>7
  <2>4. post'[i] = post[i + 1] /\ i + 1 \in 1..Len(post)
    BY <2>1, <2>2, <2>3
  <2>5. post[i + 1][1] \in Members(batch) /\ Written(seq[post[i + 1][1]]) /\ post[i + 1][1] \in Seqs
    BY <2>4, PostFacts DEF SInv, Paced
  <2> QED BY <2>4, <2>5, <1>3
<1>8. Paced'
  BY <1>6, <1>7 DEF Paced
<1> QED BY <1>2, <1>4, <1>8

\* The member whose pages are to be written is the one served, and is complete.
LEMMA PostServed ==
  ASSUME VInv, SInv, post # <<>>
  PROVE  LET s == Head(post)[1]
         IN /\ s \in Seqs /\ s \in Members(batch) /\ Written(seq[s]) /\ ~seq[s].pending
            /\ Keeps(slot[0], seq[s]) /\ seq[s].prompt \in Prompts /\ seq[s].cached \in Nat \ {0}
            /\ seq[s].out = <<>> => seq[s].cached = Len(seq[s].prompt)
<1>1. PICK z \in Seq(Seqs \X Slots) : z = post /\ Len(z) \in Nat /\ z # <<>>
  BY PostFacts
<1>2. Head(z) = z[1] /\ 1 \in 1..Len(z)
  BY <1>1
<1>3. PICK s : s = post[1][1]
  OBVIOUS
<1>4. s \in Members(batch) /\ Written(seq[s])
  BY <1>1, <1>2, <1>3 DEF SInv, Paced
<1>5. /\ s \in Seqs /\ PostOK(s) /\ seq[s].cached \in Nat \ {0} /\ seq[s].prompt \in Prompts
  BY <1>1, <1>2, <1>3, PostHead
<1>6. SlotHolds(slot[0], seq[s])
  BY <1>4, Served
<1>7. Keeps(slot[0], seq[s])
  BY <1>4, <1>6 DEF SlotHolds, Written, Done
<1> QED BY <1>1, <1>2, <1>3, <1>4, <1>5, <1>7 DEF PostOK

\* A sequence that has nothing to restore is sound whatever its pages hold.
LEMMA SoundAnywhere ==
  ASSUME NEW q, NEW u, NEW pg, SeqSound(q, pg), SamePace(q, u), u.heard = q.heard,
         ~q.pending, ~u.pending, ~q.need, NEW pg2
  PROVE  SeqSound(u, pg2)
<1>1. \A n : Upto(u, n) = Upto(q, n)
  BY DEF SamePace, Upto
<1> QED BY <1>1 DEF SeqSound, SamePace

\* One entry of the cache.
LEMMA EntryAt ==
  ASSUME VInv, SInv, NEW j \in 1..Len(entries)
  PROVE  entries[j] \in EntryRecs(Prompts) /\ EntrySound(entries[j], page) /\ EntryOK(entries[j])
<1>1. entries \in Seq(EntryRecs(Prompts))
  BY DEF VInv, VTypes
<1>2. EntrySound(entries[j], page)
  BY DEF SInv, EntriesSound
<1>3. EntryOK(entries[j])
  BY DEF VInv, EntriesOK
<1>4. entries[j] \in EntryRecs(Prompts)
  BY <1>1
<1> QED BY <1>2, <1>3, <1>4

\* A prompt is saved: its entry and its pages hold the prompt, the others stay.
LEMMA SavePrefixSound ==
  ASSUME MaxBatch = 1, VInv, VInv', SInv, SavePrefix
  PROVE  SInv'
<1>1. /\ post # <<>> /\ post' = Tail(post)
      /\ UNCHANGED <<slot, waiting, running, step, batch, todo, pres, ones, decs>>
  BY SaveFacts DEF queues
<1>2. PICK s \in Seqs, b \in Slots, t \in Seq(Pages) :
        /\ s = Head(post)[1] /\ b = Head(post)[2] /\ seq[s].out = <<>> /\ Saves(s, b, t)
        /\ t # <<>> => Len(t) = PagesForTokens(seq[s].cached)
        /\ \A x \in Members(t) : x \in Pages /\ ref[x] = 0
        /\ \A i, j \in 1..Len(t) : t[i] = t[j] => i = j
  BY SaveFacts
<1>3. b = 0
  BY DEF Slots
<1>4. PICK q \in SeqRecs : q = seq[s] /\ SeqSound(q, page) /\ SeqOK(q)
  BY Served
<1>5. PICK p \in Prompts, n \in Nat \ {0} :
        /\ p = q.prompt /\ n = q.cached /\ n = Len(p) /\ q.out = <<>> /\ Written(q) /\ ~q.pending
        /\ Keeps(slot[0], q)
  BY <1>1, <1>2, <1>4, PostServed
<1>6. PICK e \in EntryRecs(Prompts) : e = Snapshot(s, b, t) /\ EntryOK(e)
  BY <1>1, <1>2, SnapshotFacts
<1>7. e.toks = p /\ e.logits = q.heard /\ e.st = slot[0].st /\ e.kv = SlimRows(t, slot[0].kv) /\ e.pages = t
  BY <1>3, <1>4, <1>5, <1>6 DEF Snapshot
<1>8. /\ p \in Seq(Vocab) /\ q.heard = p /\ slot[0].st = p
      /\ \A i \in 1..n : slot[0].kv[i] = SubSeq(p, 1, i)
  <2>1. p \in Seq(Vocab)
    BY HistoryFacts
  <2>2. \A i \in 0..n : Upto(q, i) = SubSeq(p, 1, i)
    BY <1>5, TextFacts
  <2>3. SubSeq(p, 1, n) = p
    BY <2>1, <1>5, SubSeqFull
  <2>4. n \in 0..n /\ \A i \in 1..n : i \in 0..n
    OBVIOUS
  <2>5. Upto(q, n) = p /\ \A i \in 1..n : Upto(q, i) = SubSeq(p, 1, i)
    BY <2>2, <2>3, <2>4
  <2>6. q.heard = Upto(q, n) /\ slot[0].st = Upto(q, n) /\ \A i \in 1..n : slot[0].kv[i] = Upto(q, i)
    BY <1>4, <1>5 DEF SeqSound, Keeps
  <2> QED BY <2>1, <2>5, <2>6
<1>9. /\ entries' = Inserted(e) /\ ref' = RefsSaved(e)
      /\ page' = ZeroedFree(RefsSaved(e), DualWritten(t, 0, n))
      /\ seq' = IF t = <<>> THEN seq ELSE [seq EXCEPT ![s] = [@ EXCEPT !.handle = t, !.hlen = n]]
  BY <1>2, <1>3, <1>4, <1>5, <1>6 DEF Saves
<1>10. \A i \in 1..Len(entries') : entries'[i] = e \/ \E j \in 1..Len(entries) : entries'[i] = entries[j]
  BY <1>6, <1>9, InsertedFacts
<1>11. \A x \in Pages : ref'[x] # 0 => page'[x] = DualWritten(t, 0, n)[x]
  BY <1>9 DEF ZeroedFree
<1>12. \A x \in Pages : x \notin Members(t) => DualWritten(t, 0, n)[x] = page[x]
  <2> SUFFICES ASSUME NEW x \in Pages, x \notin Members(t), t # <<>>
               PROVE  RowsWritten(t, slot[0].kv, 1, n)[x] = page[x]
    BY DEF DualWritten
  <2>1. PagesForTokens(n) <= Len(t)
    <3>1. Len(t) = PagesForTokens(n) /\ Len(t) \in Nat
      BY <1>2, <1>4, <1>5
    <3> QED BY <3>1
  <2>2. 1 \in Nat \ {0} /\ n \in Nat
    OBVIOUS
  <2> QED BY <2>1, <2>2, WrittenElsewhere
<1>13. Unheld /\ Unheld'
  BY VInvUnheld, UnheldNext
<1>14. \A x \in Pages : x \notin Members(t) /\ ref'[x] # 0 => page'[x] = page[x]
  BY <1>11, <1>12
<1>15. PICK u \in SeqRecs :
         /\ seq'[s] = u /\ SamePace(q, u) /\ u.heard = q.heard /\ ~u.pending
         /\ t = <<>> => u = q
         /\ t # <<>> => u.handle = t
  <2>1. seq \in [Seqs -> SeqRecs] /\ n \in Nat
    BY DEF VInv, VTypes
  <2>2. CASE t = <<>>
    <3>1. SamePace(q, q)
      BY DEF SamePace
    <3> QED BY <2>2, <3>1, <1>4, <1>5, <1>9
  <2>3. CASE t # <<>>
    <3>1. PICK u : u = [q EXCEPT !.handle = t, !.hlen = n]
      OBVIOUS
    <3>2. u \in SeqRecs /\ SamePace(q, u) /\ u.heard = q.heard /\ u.handle = t /\ u.pending = q.pending
      BY <3>1, <2>1 DEF SeqRecs, SamePace
    <3>3. seq'[s] = u
      BY <2>1, <2>3, <3>1, <1>4, <1>9
    <3> QED BY <2>3, <3>2, <3>3, <1>5
  <2> QED BY <2>2, <2>3
<1>16. \A r \in Seqs \ {s} : seq'[r] = seq[r]
  <2>1. seq \in [Seqs -> SeqRecs]
    BY DEF VInv, VTypes
  <2> QED BY <2>1, <1>9
<1>17. Sounds'
  <2> SUFFICES ASSUME NEW r \in Seqs PROVE SeqSound(seq'[r], page')
    BY DEF Sounds
  <2>1. CASE r = s
    <3>1. ~q.need
      BY <1>5 DEF Written
    <3> QED BY <2>1, <3>1, <1>4, <1>5, <1>15, SoundAnywhere
  <2>2. CASE r # s
    <3>1. PICK v \in SeqRecs : v = seq[r] /\ seq'[r] = v /\ SeqSound(v, page) /\ SeqOK(v)
      BY <2>2, <1>16, Served
    <3>2. ASSUME NEW x \in Members(v.handle) PROVE page'[x] = page[x]
      <4>1. x \in Pages
        <5>1. v.handle \in Seq(Pages)
          BY DEF SeqRecs
        <5> QED BY <5>1, MembersFacts
      <4>2. ref[x] # 0 /\ ref'[x] # 0
        BY <4>1, <3>1, <3>2, <1>13 DEF Unheld
      <4> QED BY <4>1, <4>2, <1>2, <1>14
    <3> QED BY <3>1, <3>2, SoundFrame
  <2> QED BY <2>1, <2>2
<1>18. EntrySound(e, page')
  <2>1. CASE t = <<>>
    <3>1. e.kv = slot[0].kv
      BY <2>1, <1>7 DEF SlimRows
    <3> QED BY <2>1, <3>1, <1>5, <1>7, <1>8 DEF EntrySound
  <2>2. CASE t # <<>>
    <3>1. PICK pg : pg = RowsWritten(t, slot[0].kv, 1, n)
      OBVIOUS
    <3>2. DualWritten(t, 0, n) = pg
      BY <2>2, <3>1 DEF DualWritten
    <3>3. \A x \in Members(t) : page'[x] = pg[x]
      <4> TAKE x \in Members(t)
      <4>1. x \in Pages /\ x \in Members(seq'[s].handle)
        BY <2>2, <1>2, <1>15
      <4>2. ref'[x] # 0
        BY <4>1, <1>13 DEF Unheld
      <4> QED BY <4>1, <4>2, <3>2, <1>11
    <3>4. PagesForTokens(n) <= Len(t)
      <4>1. Len(t) = PagesForTokens(n) /\ Len(t) \in Nat
        BY <2>2, <1>2, <1>4, <1>5
      <4> QED BY <4>1
    <3>5. RowsOf(pg, t, p, n)
      <4> SUFFICES ASSUME NEW i \in 1..n PROVE Row(pg, t, i) = SubSeq(p, 1, i)
        BY DEF RowsOf
      <4>1. n \in Nat /\ \A j, k \in 1..Len(t) : t[j] = t[k] => j = k
        BY <1>2
      <4>2. PICK kv : kv = slot[0].kv
        OBVIOUS
      <4>3. Row(RowsWritten(t, kv, 1, n), t, i) = kv[i]
        BY <4>1, <3>4, WrittenThere
      <4> QED BY <4>2, <4>3, <3>1, <1>8
    <3>6. RowsOf(page', t, p, n)
      BY <3>3, <3>4, <3>5, RowsFrame
    <3> QED BY <2>2, <3>6, <1>5, <1>7, <1>8 DEF EntrySound
  <2> QED BY <2>1, <2>2
<1>19. EntriesSound'
  <2> SUFFICES ASSUME NEW i \in 1..Len(entries') PROVE EntrySound(entries'[i], page')
    BY DEF EntriesSound
  <2>1. CASE entries'[i] = e
    BY <2>1, <1>18
  <2>2. CASE \E j \in 1..Len(entries) : entries'[i] = entries[j]
    <3>1. PICK j \in 1..Len(entries) : entries'[i] = entries[j]
      BY <2>2
    <3>2. PICK d \in EntryRecs(Prompts) : d = entries[j] /\ EntrySound(d, page) /\ EntryOK(d)
      BY EntryAt
    <3>3. ASSUME NEW x \in Members(d.pages) PROVE page'[x] = page[x]
      <4>1. x \in Pages
        <5>1. d.pages \in Seq(Pages)
          BY DEF EntryRecs
        <5> QED BY <5>1, MembersFacts
      <4>2. ref[x] # 0
        BY <4>1, <3>2, <3>3, <1>13 DEF Unheld
      <4>3. ref'[x] # 0
        BY <4>1, <3>1, <3>2, <3>3, <1>13 DEF Unheld
      <4> QED BY <4>1, <4>2, <4>3, <1>2, <1>14
    <3> QED BY <3>1, <3>2, <3>3, EntryFrame
  <2> QED BY <2>1, <2>2, <1>10
<1>20. SharedSoundly'
  <2>1. PICK x \in [Pages -> Nat], f \in [Pages -> Nat] : Laid(x, f)
    BY DEF SInv, SharedSoundly
  <2>2. PICK x2 \in [Pages -> Nat], f2 \in [Pages -> Nat] :
          /\ \A k \in 1..Len(t) : x2[t[k]] = 0 + k /\ f2[t[k]] = n
          /\ \A y \in Pages : y \notin Members(t) => x2[y] = x[y] /\ f2[y] = f[y]
    <3>1. 0 \in Nat /\ n \in Nat /\ Apart(t)
      BY <1>2 DEF Apart
    <3>2. RelaidBy(x, f, t, 0, n)
      BY <3>1, Relaid
    <3> QED BY <3>2 DEF RelaidBy
  <2>3. \A k \in 1..Len(t) : x2[t[k]] = k /\ f2[t[k]] = n
    BY <2>2
  <2>4. ASSUME NEW d \in EntryRecs(Prompts), NEW j \in 1..Len(entries), d = entries[j]
        PROVE  LaidEntry(x2, f2, d)
    <3> SUFFICES ASSUME NEW k \in 1..Len(d.pages)
                 PROVE  x2[d.pages[k]] = k /\ f2[d.pages[k]] = Len(d.toks)
      BY DEF LaidEntry
    <3>1. d.pages[k] \in Pages /\ d.pages[k] \in Members(d.pages)
      <4>1. d.pages \in Seq(Pages)
        BY DEF EntryRecs
      <4> QED BY <4>1, MembersFacts
    <3>2. d.pages[k] \notin Members(t)
      BY <3>1, <2>4, <1>2, <1>13 DEF Unheld
    <3>3. LaidEntry(x, f, d)
      BY <2>1, <2>4 DEF Laid
    <3>4. x[d.pages[k]] = k /\ f[d.pages[k]] = Len(d.toks)
      BY <3>3 DEF LaidEntry
    <3> QED BY <3>1, <3>2, <3>4, <2>2
  <2>5. LaidEntry(x2, f2, e)
    BY <2>3, <1>5, <1>7 DEF LaidEntry
  <2>6. ASSUME NEW r \in Seqs PROVE LaidSeq(x2, f2, seq[r])
    <3>1. PICK v \in SeqRecs : v = seq[r]
      BY Served
    <3>2. LaidSeq(x, f, v)
      BY <2>1, <3>1 DEF Laid
    <3>3. ASSUME NEW k \in 1..Len(v.handle)
          PROVE  /\ x2[v.handle[k]] = k /\ f2[v.handle[k]] <= Len(v.prompt)
                 /\ v.pending \/ v.need => v.hlen <= f2[v.handle[k]]
      <4>1. v.handle[k] \in Pages /\ v.handle[k] \in Members(v.handle)
        <5>1. v.handle \in Seq(Pages)
          BY DEF SeqRecs
        <5> QED BY <5>1, MembersFacts
      <4>2. v.handle[k] \notin Members(t)
        BY <4>1, <3>1, <1>2, <1>13 DEF Unheld
      <4>3. /\ x[v.handle[k]] = k /\ f[v.handle[k]] <= Len(v.prompt)
            /\ v.pending \/ v.need => v.hlen <= f[v.handle[k]]
        BY <3>2 DEF LaidSeq
      <4>4. x2[v.handle[k]] = x[v.handle[k]] /\ f2[v.handle[k]] = f[v.handle[k]]
        BY <4>1, <4>2, <2>2
      <4> QED BY <4>3, <4>4
    <3> QED BY <3>1, <3>3 DEF LaidSeq
  <2>7. LaidSeq(x2, f2, u)
    <3>1. CASE t = <<>>
      BY <3>1, <2>6, <1>4, <1>15
    <3>2. CASE t # <<>>
      <4>1. u.handle = t /\ ~u.pending /\ ~u.need /\ u.prompt = p
        BY <3>2, <1>5, <1>15 DEF SamePace, Written
      <4>2. n <= Len(p)
        BY <1>5
      <4> QED BY <4>1, <4>2, <2>3 DEF LaidSeq
    <3> QED BY <3>1, <3>2
  <2>8. Laid(x2, f2)'
    <3>1. \A i \in 1..Len(entries') : LaidEntry(x2, f2, entries'[i])
      <4> TAKE i \in 1..Len(entries')
      <4>1. \A j \in 1..Len(entries) : entries[j] \in EntryRecs(Prompts)
        BY EntryAt
      <4> QED BY <4>1, <2>4, <2>5, <1>10
    <3>2. \A r \in Seqs : LaidSeq(x2, f2, seq'[r])
      BY <2>6, <2>7, <1>15, <1>16
    <3> QED BY <3>1, <3>2 DEF Laid
  <2> QED BY <2>8 DEF SharedSoundly
<1>21. Turns' /\ SlotSound' /\ Paced'
  <2>1. \A r \in Seqs : SamePace(seq[r], seq'[r])
    <3>1. \A r \in Seqs \ {s} : SamePace(seq[r], seq'[r])
      BY <1>16 DEF SamePace
    <3> QED BY <3>1, <1>4, <1>15
  <2> QED BY <2>1, <1>1, PostDone
<1> QED BY <1>17, <1>19, <1>20, <1>21 DEF SInv

\* The pages a handle grows by.
LEMMA GrownFacts ==
  ASSUME NEW h \in Seq(Pages), NEW n \in Nat, NEW t \in Grown(h, n)
  PROVE  /\ t \in Seq(Pages) /\ Apart(t) /\ PagesForTokens(n) <= Len(h \o t)
         /\ \A x \in Members(t) : x \in Pages /\ ref[x] = 0
<1>1. PICK k \in Nat : k = PagesForTokens(n)
  BY RowPlace
<1>2. PICK l \in Nat : l = Len(h)
  BY MembersFacts
<1>3. PICK j \in Nat : j = (IF k > l THEN k - l ELSE 0) /\ t \in Fresh(j)
  <2>1. (IF k > l THEN k - l ELSE 0) \in Nat
    OBVIOUS
  <2> QED BY <2>1, <1>1, <1>2 DEF Grown
<1>4. t \in Seq(Pages) /\ Len(t) = j /\ \A x \in Members(t) : x \in Pages /\ ref[x] = 0
  BY <1>3, FreshFacts
<1>5. Apart(t)
  BY <1>3, FreshFacts DEF Apart
<1>6. Len(h \o t) = l + j
  BY <1>2, <1>4, MembersConcat
<1>7. k <= l + j
  BY <1>3
<1> QED BY <1>1, <1>4, <1>5, <1>6, <1>7

\* Two lists of pages joined.
LEMMA Joined ==
  ASSUME NEW h \in Seq(Pages), NEW t \in Seq(Pages)
  PROVE  \E g \in Seq(Pages) :
           /\ g = h \o t /\ Len(g) = Len(h) + Len(t) /\ \A b \in 1..Len(h) : g[b] = h[b]
           /\ \A b \in Len(h) + 1..Len(h) + Len(t) : b - Len(h) \in 1..Len(t) /\ g[b] = t[b - Len(h)]
<1>1. /\ h \o t \in Seq(Pages) /\ Len(h \o t) = Len(h) + Len(t)
      /\ \A b \in 1..Len(h) : (h \o t)[b] = h[b]
      /\ \A b \in Len(h) + 1..Len(h) + Len(t) : b - Len(h) \in 1..Len(t) /\ (h \o t)[b] = t[b - Len(h)]
  BY ConcatFacts
<1> QED BY <1>1

\* A sequence that is past its prompt writes past the fill of its pages.
LEMMA WriterBelow ==
  ASSUME NEW x, NEW f \in [Pages -> Nat], NEW q \in SeqRecs, LaidSeq(x, f, q),
         NEW i \in Nat, Len(q.prompt) < i
  PROVE  PlacedBelow(x, f, q.handle, i)
<1> SUFFICES ASSUME NEW k \in 1..Len(q.handle) PROVE x[q.handle[k]] = k /\ f[q.handle[k]] < i
  BY DEF PlacedBelow
<1>1. x[q.handle[k]] = k /\ f[q.handle[k]] <= Len(q.prompt)
  BY DEF LaidSeq
<1>2. q.handle[k] \in Pages
  <2>1. q.handle \in Seq(Pages)
    BY DEF SeqRecs
  <2> QED BY <2>1
<1>3. PICK a \in Nat, b \in Nat : a = f[q.handle[k]] /\ b = Len(q.prompt)
  BY <1>2, TextFacts
<1>4. a <= b /\ b < i
  BY <1>1, <1>3
<1>5. a < i
  BY <1>4
<1> QED BY <1>1, <1>3, <1>5

\* The row of a decoded token goes to the pages of its sequence, past what the
\* other holders of these pages read.
LEMMA AppendedSound ==
  ASSUME VInv, VInv', SInv, NEW s \in Seqs, NEW h \in Seq(Pages), NEW t \in Seq(Pages),
         NEW i \in Nat \ {0}, NEW m \in Nat, NEW kv, h = seq[s].handle, Len(seq[s].prompt) < i,
         ~seq[s].pending, ~seq[s].need, PagesForTokens(i) <= Len(h \o t), Apart(t),
         \A y \in Members(t) : y \in Pages /\ ref[y] = 0,
         entries' = entries, page' = RowsWritten(h \o t, kv, i, i),
         seq' = [seq EXCEPT ![s] = [@ EXCEPT !.handle = h \o t, !.hlen = m]]
  PROVE  /\ Sounds' /\ EntriesSound' /\ SharedSoundly'
         /\ \A r \in Seqs : SamePace(seq[r], seq'[r])
<1>1. PICK q \in SeqRecs : q = seq[s] /\ SeqSound(q, page) /\ ~q.pending /\ ~q.need /\ q.handle = h
  BY Served
<1>2. PICK g \in Seq(Pages) :
        /\ g = h \o t /\ Len(g) = Len(h) + Len(t) /\ \A b \in 1..Len(h) : g[b] = h[b]
        /\ \A b \in Len(h) + 1..Len(h) + Len(t) : b - Len(h) \in 1..Len(t) /\ g[b] = t[b - Len(h)]
  BY Joined
<1>3. PICK u \in SeqRecs :
        /\ seq'[s] = u /\ SamePace(q, u) /\ u.heard = q.heard /\ ~u.pending /\ ~u.need /\ u.handle = g
        /\ u.prompt = q.prompt
  <2>1. seq \in [Seqs -> SeqRecs]
    BY DEF VInv, VTypes
  <2>2. PICK u : u = [q EXCEPT !.handle = g, !.hlen = m]
    OBVIOUS
  <2>3. /\ u \in SeqRecs /\ SamePace(q, u) /\ u.heard = q.heard /\ u.handle = g /\ u.pending = q.pending
        /\ u.need = q.need /\ u.prompt = q.prompt
    BY <2>2 DEF SeqRecs, SamePace
  <2>4. seq'[s] = u
    BY <2>1, <2>2, <1>1, <1>2
  <2> QED BY <2>3, <2>4, <1>1
<1>4. \A r \in Seqs \ {s} : seq'[r] = seq[r]
  <2>1. seq \in [Seqs -> SeqRecs]
    BY DEF VInv, VTypes
  <2> QED BY <2>1
<1>5. PICK x \in [Pages -> Nat], f \in [Pages -> Nat] : Laid(x, f)
  BY DEF SInv, SharedSoundly
<1>6. Unheld
  BY VInvUnheld
<1>7. PlacedBelow(x, f, h, i)
  <2>1. LaidSeq(x, f, q)
    BY <1>1, <1>5 DEF Laid
  <2>2. Len(q.prompt) < i /\ i \in Nat
    BY <1>1
  <2> QED BY <2>1, <2>2, <1>1, WriterBelow
<1>8. ASSUME NEW r \in Seqs \ {s} PROVE SeqSound(seq'[r], page')
  <2>1. PICK v \in SeqRecs : v = seq[r] /\ seq'[r] = v /\ SeqSound(v, page) /\ SeqOK(v) /\ LaidSeq(x, f, v)
    BY <1>4, <1>5, Served DEF Laid
  <2>2. PICK w \in Seq(Pages), n \in Nat : w = v.handle /\ n = v.hlen
    BY DEF SeqRecs
  <2>3. ASSUME v.pending \/ v.need, w # <<>> PROVE RowsOf(page', w, v.prompt, n)
    <3>1. PagesForTokens(n) <= Len(w) /\ RowsOf(page, w, v.prompt, n)
      BY <2>1, <2>2, <2>3 DEF SeqOK, SeqSound
    <3>2. \A k \in 1..Len(w) : x[w[k]] = k /\ n <= f[w[k]] /\ w[k] \notin Members(t)
      <4> TAKE k \in 1..Len(w)
      <4>1. x[w[k]] = k /\ n <= f[w[k]]
        BY <2>1, <2>2, <2>3 DEF LaidSeq
      <4>2. w[k] \in Pages /\ w[k] \in Members(w)
        BY MembersFacts
      <4>3. w[k] \notin Members(t)
        BY <4>2, <2>1, <2>2, <1>6 DEF Unheld
      <4> QED BY <4>1, <4>3
    <3>3. PlacedAbove(x, f, w, n, t) /\ PlacedBelow(x, f, h, i)
      BY <3>2, <1>7 DEF PlacedAbove
    <3> QED BY <3>1, <3>3, AppendFrame
  <2>4. SeqSound(v, page')
    BY <2>1, <2>2, <2>3 DEF SeqSound
  <2> QED BY <2>1, <2>4
<1>9. Sounds'
  <2>1. SeqSound(seq'[s], page')
    BY <1>1, <1>3, SoundAnywhere
  <2> QED BY <2>1, <1>8 DEF Sounds
<1>10. ASSUME NEW j \in 1..Len(entries) PROVE EntrySound(entries[j], page')
  <2>1. PICK d \in EntryRecs(Prompts) : d = entries[j] /\ EntrySound(d, page) /\ EntryOK(d) /\ LaidEntry(x, f, d)
    BY <1>5, EntryAt DEF Laid
  <2>2. PICK w \in Seq(Pages), n \in Nat : w = d.pages /\ n = Len(d.toks)
    <3>1. d.pages \in Seq(Pages) /\ d.toks \in Seq(Vocab)
      BY HistoryFacts DEF EntryRecs
    <3> QED BY <3>1, MembersFacts
  <2>3. ASSUME w # <<>> PROVE RowsOf(page', w, d.toks, n)
    <3>1. PagesForTokens(n) <= Len(w) /\ RowsOf(page, w, d.toks, n)
      BY <2>1, <2>2, <2>3 DEF EntryOK, EntrySound
    <3>2. \A k \in 1..Len(w) : x[w[k]] = k /\ n <= f[w[k]] /\ w[k] \notin Members(t)
      <4> TAKE k \in 1..Len(w)
      <4>1. x[w[k]] = k /\ f[w[k]] = n
        BY <2>1, <2>2 DEF LaidEntry
      <4>2. w[k] \in Pages /\ w[k] \in Members(w)
        BY MembersFacts
      <4>3. w[k] \notin Members(t)
        BY <4>2, <2>1, <2>2, <1>6 DEF Unheld
      <4>4. n <= f[w[k]]
        BY <4>1
      <4> QED BY <4>1, <4>3, <4>4
    <3>3. PlacedAbove(x, f, w, n, t) /\ PlacedBelow(x, f, h, i)
      BY <3>2, <1>7 DEF PlacedAbove
    <3> QED BY <3>1, <3>3, AppendFrame
  <2> QED BY <2>1, <2>2, <2>3 DEF EntrySound
<1>11. EntriesSound'
  BY <1>10 DEF EntriesSound
<1>12. PICK c \in Nat : c = Len(h)
  BY MembersFacts
<1>13. PICK x2 \in [Pages -> Nat], f2 \in [Pages -> Nat] :
         /\ \A k \in 1..Len(t) : x2[t[k]] = c + k /\ f2[t[k]] = 0
         /\ \A y \in Pages : y \notin Members(t) => x2[y] = x[y] /\ f2[y] = f[y]
  <2>1. 0 \in Nat
    OBVIOUS
  <2>2. RelaidBy(x, f, t, c, 0)
    BY <2>1, Relaid
  <2> QED BY <2>2 DEF RelaidBy
<1>14. ASSUME NEW j \in 1..Len(entries) PROVE LaidEntry(x2, f2, entries[j])
  <2>1. PICK d \in EntryRecs(Prompts) : d = entries[j] /\ LaidEntry(x, f, d)
    BY <1>5, EntryAt DEF Laid
  <2>2. ASSUME NEW k \in 1..Len(d.pages) PROVE x2[d.pages[k]] = k /\ f2[d.pages[k]] = Len(d.toks)
    <3>1. d.pages[k] \in Pages /\ d.pages[k] \in Members(d.pages)
      <4>1. d.pages \in Seq(Pages)
        BY DEF EntryRecs
      <4> QED BY <4>1, MembersFacts
    <3>2. d.pages[k] \notin Members(t)
      BY <3>1, <2>1, <1>6 DEF Unheld
    <3>3. x[d.pages[k]] = k /\ f[d.pages[k]] = Len(d.toks)
      BY <2>1 DEF LaidEntry
    <3> QED BY <3>1, <3>2, <3>3, <1>13
  <2> QED BY <2>1, <2>2 DEF LaidEntry
<1>15. ASSUME NEW r \in Seqs PROVE LaidSeq(x2, f2, seq[r])
  <2>1. PICK v \in SeqRecs : v = seq[r] /\ LaidSeq(x, f, v)
    BY <1>5, Served DEF Laid
  <2>2. ASSUME NEW k \in 1..Len(v.handle)
        PROVE  /\ x2[v.handle[k]] = k /\ f2[v.handle[k]] <= Len(v.prompt)
               /\ v.pending \/ v.need => v.hlen <= f2[v.handle[k]]
    <3>1. v.handle[k] \in Pages /\ v.handle[k] \in Members(v.handle)
      <4>1. v.handle \in Seq(Pages)
        BY DEF SeqRecs
      <4> QED BY <4>1, MembersFacts
    <3>2. v.handle[k] \notin Members(t)
      BY <3>1, <2>1, <1>6 DEF Unheld
    <3>3. /\ x[v.handle[k]] = k /\ f[v.handle[k]] <= Len(v.prompt)
          /\ v.pending \/ v.need => v.hlen <= f[v.handle[k]]
      BY <2>1 DEF LaidSeq
    <3>4. x2[v.handle[k]] = x[v.handle[k]] /\ f2[v.handle[k]] = f[v.handle[k]]
      BY <3>1, <3>2, <1>13
    <3> QED BY <3>3, <3>4
  <2> QED BY <2>1, <2>2 DEF LaidSeq
<1>16. ASSUME NEW k \in 1..Len(g) PROVE x2[g[k]] = k /\ f2[g[k]] <= Len(q.prompt)
  <2>1. PICK e \in Nat : e = Len(t) /\ Len(g) = c + e
    <3>1. Len(t) \in Nat
      BY MembersFacts
    <3> QED BY <3>1, <1>2, <1>12
  <2>2. CASE k <= c
    <3>1. k \in 1..Len(h)
      BY <2>2, <1>12
    <3>2. g[k] = q.handle[k] /\ k \in 1..Len(q.handle)
      BY <3>1, <1>1, <1>2
    <3>3. LaidSeq(x2, f2, q)
      BY <1>1, <1>15
    <3>4. x2[q.handle[k]] = k /\ f2[q.handle[k]] <= Len(q.prompt)
      BY <3>2, <3>3 DEF LaidSeq
    <3> QED BY <3>2, <3>4
  <2>3. CASE k > c
    <3>1. k \in c + 1..c + e
      BY <2>1, <2>3
    <3>2. PICK b \in 1..e : b = k - c /\ g[k] = t[b]
      BY <3>1, <2>1, <1>2, <1>12
    <3>3. x2[t[b]] = c + b /\ f2[t[b]] = 0
      BY <2>1, <1>13
    <3>4. c + b = k
      BY <3>2
    <3>5. PICK a \in Nat : a = Len(q.prompt)
      BY TextFacts
    <3>6. 0 <= a
      OBVIOUS
    <3> QED BY <3>2, <3>3, <3>4, <3>5, <3>6
  <2>4. k <= c \/ k > c
    OBVIOUS
  <2> QED BY <2>2, <2>3, <2>4
<1>17. LaidSeq(x2, f2, u)
  BY <1>3, <1>16 DEF LaidSeq
<1>18. SharedSoundly'
  <2>1. \A r \in Seqs : LaidSeq(x2, f2, seq'[r])
    BY <1>3, <1>4, <1>15, <1>17
  <2>2. Laid(x2, f2)'
    BY <2>1, <1>14 DEF Laid
  <2> QED BY <2>2 DEF SharedSoundly
<1>19. \A r \in Seqs : SamePace(seq[r], seq'[r])
  <2>1. \A r \in Seqs \ {s} : SamePace(seq[r], seq'[r])
    BY <1>4 DEF SamePace
  <2> QED BY <2>1, <1>1, <1>3
<1> QED BY <1>9, <1>11, <1>18, <1>19

\* A decoded token's row is appended, or no page is free for it.
LEMMA AppendDecodeSound ==
  ASSUME MaxBatch = 1, VInv, VInv', SInv, AppendDecode
  PROVE  SInv'
<1>1. /\ post # <<>> /\ post' = Tail(post) /\ entries' = entries
      /\ UNCHANGED <<slot, waiting, running, step, batch, todo, pres, ones, decs>>
  BY DEF AppendDecode, queues
<1>2. PICK s \in Seqs, b \in Slots : s = Head(post)[1] /\ b = Head(post)[2] /\ seq[s].out # <<>>
  BY <1>1, PostHead DEF AppendDecode
<1>3. PICK n \in Nat \ {0} : n = seq[s].cached /\ Written(seq[s]) /\ ~seq[s].pending
  BY <1>1, <1>2, PostServed
<1>4. PICK h \in Seq(Pages), m \in Nat : h = seq[s].handle /\ m = seq[s].hlen
  BY SameHandle
<1>5. \/ UNCHANGED <<ref, page, seq>>
      \/ \E t \in Grown(h, n) :
           /\ page' = Appended(h \o t, b, n)
           /\ seq' = [seq EXCEPT ![s] = [@ EXCEPT !.handle = h \o t, !.hlen = IF m < n THEN n ELSE m]]
  BY <1>2, <1>3, <1>4 DEF AppendDecode
<1>6. CASE UNCHANGED <<ref, page, seq>>
  <2>1. \A r \in Seqs : SameWork(seq[r], seq'[r]) /\ SamePace(seq[r], seq'[r])
    BY <1>6 DEF SameWork, SamePace
  <2>2. Sounds' /\ EntriesSound' /\ SharedSoundly'
    BY <2>1, <1>1, <1>6, DataSame
  <2>3. Turns' /\ SlotSound' /\ Paced'
    BY <2>1, <1>1, PostDone
  <2> QED BY <2>2, <2>3 DEF SInv
<1>7. ASSUME NEW t \in Grown(h, n), page' = Appended(h \o t, b, n),
             seq' = [seq EXCEPT ![s] = [@ EXCEPT !.handle = h \o t, !.hlen = IF m < n THEN n ELSE m]]
      PROVE  SInv'
  <2>1. /\ t \in Seq(Pages) /\ Apart(t) /\ PagesForTokens(n) <= Len(h \o t)
        /\ \A x \in Members(t) : x \in Pages /\ ref[x] = 0
    <3>1. n \in Nat
      OBVIOUS
    <3> QED BY <3>1, GrownFacts
  <2>2. PICK l \in Nat : l = IF m < n THEN n ELSE m
    OBVIOUS
  <2>3. PICK kv : kv = slot[b].kv
    OBVIOUS
  <2>4. Len(seq[s].prompt) < n /\ ~seq[s].need
    BY <1>2, <1>3 DEF Written
  <2>5. page' = RowsWritten(h \o t, kv, n, n)
    BY <2>3, <1>7 DEF Appended
  <2>6. seq' = [seq EXCEPT ![s] = [@ EXCEPT !.handle = h \o t, !.hlen = l]]
    BY <2>2, <1>7
  <2>7. /\ Sounds' /\ EntriesSound' /\ SharedSoundly'
        /\ \A r \in Seqs : SamePace(seq[r], seq'[r])
    BY <2>1, <2>4, <2>5, <2>6, <1>1, <1>3, <1>4, AppendedSound
  <2>8. Turns' /\ SlotSound' /\ Paced'
    BY <2>7, <1>1, PostDone
  <2> QED BY <2>7, <2>8 DEF SInv
<1> QED BY <1>5, <1>6, <1>7

-----------------------------------------------------------------------------
(* Theorems for batches of one sequence                                      *)

\* The engine starts in the invariant.
LEMMA InitSInv == Init => SInv
<1> SUFFICES ASSUME Init PROVE SInv
  OBVIOUS
<1>1. /\ entries = <<>> /\ seq = [s \in Seqs |-> NewSequence] /\ waiting = <<>> /\ running = <<>>
      /\ step = "idle" /\ batch = <<>> /\ todo = <<>> /\ post = <<>>
  BY DEF Init
<1>2. Len(<<>>) = 0 /\ 1..0 = {}
  OBVIOUS
<1>3. \A s \in Seqs : seq[s] = NewSequence
  BY <1>1
<1>4. PICK q : /\ q = NewSequence /\ q.prompt = <<>> /\ q.out = <<>> /\ q.cached = 0 /\ q.heard = <<>>
               /\ q.handle = <<>> /\ ~q.pending /\ ~q.need /\ ~q.prepared
  <2>1. /\ NewSequence.prompt = <<>> /\ NewSequence.out = <<>> /\ NewSequence.cached = 0
        /\ NewSequence.heard = <<>> /\ NewSequence.handle = <<>>
        /\ ~NewSequence.pending /\ ~NewSequence.need /\ ~NewSequence.prepared
    BY DEF NewSequence
  <2> QED BY <2>1
<1>5. Upto(q, 0) = <<>>
  <2>1. <<>> \o <<>> \in Seq(Vocab) /\ SubSeq(<<>> \o <<>>, 1, 0) = <<>>
    OBVIOUS
  <2> QED BY <2>1, <1>4 DEF Upto
<1>6. Sounds
  <2>1. SeqSound(q, page)
    BY <1>4, <1>5 DEF SeqSound
  <2> QED BY <2>1, <1>3, <1>4 DEF Sounds
<1>7. EntriesSound
  BY <1>1, <1>2 DEF EntriesSound
<1>8. Serving = {} /\ Members(waiting) = {}
  BY <1>1, NoMembers DEF Serving
<1>9. Turns /\ SlotSound
  <2>1. Len(todo) <= 1 /\ 1..Len(waiting) = {}
    BY <1>1, <1>2
  <2> QED BY <2>1, <1>8 DEF Turns, SlotSound
<1>10. Paced
  <2>1. \A s \in Seqs : Waits(s)
    BY <1>1, NoMembers DEF Waits
  <2>2. 1..Len(post) = {}
    BY <1>1, <1>2
  <2> QED BY <2>1, <2>2 DEF Paced
<1>11. SharedSoundly
  <2>1. PICK x : x = [p \in Pages |-> 0]
    OBVIOUS
  <2>2. x \in [Pages -> Nat]
    BY <2>1
  <2>3. LaidSeq(x, x, q)
    BY <1>2, <1>4 DEF LaidSeq
  <2>4. Laid(x, x)
    BY <2>3, <1>1, <1>2, <1>3, <1>4 DEF Laid
  <2> QED BY <2>2, <2>4 DEF SharedSoundly
<1> QED BY <1>6, <1>7, <1>9, <1>10, <1>11 DEF SInv

\* A step that changes nothing.
LEMMA StutterSound ==
  ASSUME VInv, SInv, UNCHANGED vars
  PROVE  SInv'
<1>1. /\ UNCHANGED <<entries, page, slot, seq, waiting, running, step, batch, todo, pres, ones, decs, post>>
  BY DEF vars
<1>2. Sounds' /\ EntriesSound' /\ SharedSoundly'
  BY <1>1 DEF SInv, Sounds, EntriesSound, SharedSoundly, Laid
<1>3. Turns' /\ SlotSound'
  BY <1>1 DEF SInv, Turns, SlotSound, Serving
<1>4. Paced'
  BY <1>1 DEF SInv, Paced, Waits, InLists
<1> QED BY <1>2, <1>3, <1>4 DEF SInv

\* Every step keeps it, when one sequence is served at a time.
LEMMA NextSInv ==
  ASSUME MaxBatch = 1, VInv, SInv, [Next]_vars
  PROVE  VInv' /\ SInv'
<1>1. VInv'
  BY NextVInv
<1>2. CASE UNCHANGED vars
  BY <1>1, <1>2, StutterSound
<1>3. CASE \E s \in Seqs, p \in Prompts : Admit(s, p)
  BY <1>1, <1>3, AdmitSound
<1>4. CASE \E s \in Seqs : Cancel(s)
  BY <1>1, <1>4, CancelSound
<1>5. CASE Schedule \/ SkipFinished \/ ExactHit \/ Classify
  BY <1>1, <1>5, ScheduleSound, SkipFinishedSound, ExactHitSound, ClassifySound
<1>6. CASE BatchPrefill \/ SplitGroup \/ PrefillOne \/ BatchDecode \/ ForwardRaises
  BY <1>1, <1>6, ForwardsSound, SplitGroupSound, ForwardRaisesSound
<1>7. CASE SavePrefix \/ AppendDecode \/ RunDone \/ Emit \/ EndStep
  BY <1>1, <1>7, SavePrefixSound, AppendDecodeSound, RunDoneSound, EmitSound, EndStepSound
<1> QED BY <1>2, <1>3, <1>4, <1>5, <1>6, <1>7 DEF Next

\* So it always holds.
LEMMA SpecSInv == MaxBatch = 1 => (SpecV4 => [](VInv /\ SInv))
<1>1. Init => VInv /\ SInv
  BY InitVInv, InitSInv
<1>2. MaxBatch = 1 => (VInv /\ SInv /\ [Next]_vars => (VInv /\ SInv)')
  BY NextSInv
<1> SUFFICES ASSUME MaxBatch = 1 PROVE SpecV4 => [](VInv /\ SInv)
  OBVIOUS
<1>3. VInv /\ SInv /\ [Next]_vars => (VInv /\ SInv)'
  BY <1>2
<1> QED BY <1>1, <1>3, PTL DEF SpecV4

\* The logits are those of the text.
LEMMA SoundHistory == SInv => OwnHistory
<1> SUFFICES ASSUME SInv, NEW s \in Seqs PROVE seq[s].heard = SubSeq(Text(s), 1, seq[s].cached)
  BY DEF OwnHistory
<1> QED BY DEF SInv, Sounds, SeqSound, Upto, Text

\* The entries can be restored.
LEMMA SoundEntries ==
  ASSUME VInv, SInv
  PROVE  EntriesIntact
<1> SUFFICES ASSUME NEW i \in 1..Len(entries)
             PROVE  entries[i].logits = entries[i].toks
                    /\ HoldsText(EntryRows(entries[i]), entries[i].st, entries[i].toks)
  <2>1. entries \in Seq(EntryRecs(Prompts))
    BY DEF VInv, VTypes
  <2>2. DOMAIN entries = 1..Len(entries)
    BY <2>1
  <2> QED BY <2>2 DEF EntriesIntact
<1>1. PICK e \in EntryRecs(Prompts) : e = entries[i] /\ EntrySound(e, page)
  BY EntryAt
<1>2. ASSUME NEW j \in 1..Len(e.toks) PROVE EntryRows(e)[j] = SubSeq(e.toks, 1, j)
  <2>1. CASE e.pages = <<>>
    BY <2>1, <1>1 DEF EntryRows, EntrySound
  <2>2. CASE e.pages # <<>>
    <3>1. EntryRows(e)[j] = PageRow(e.pages, j)
      BY <2>2 DEF EntryRows
    <3>2. Row(page, e.pages, j) = SubSeq(e.toks, 1, j)
      BY <2>2, <1>1 DEF EntrySound, RowsOf
    <3> QED BY <3>1, <3>2 DEF PageRow, Row
  <2> QED BY <2>1, <2>2
<1>3. e.logits = e.toks /\ e.st = e.toks
  BY <1>1 DEF EntrySound
<1> QED BY <1>1, <1>2, <1>3 DEF HoldsText

\* The hits that wait can be restored, whatever is in the slot.
LEMMA SoundPending ==
  ASSUME VInv, SInv
  PROVE  PendingIntact
<1> SUFFICES ASSUME NEW s \in Seqs, seq[s].pending
             PROVE  HoldsText(Restored(s, SpoiledSlot).kv, Restored(s, SpoiledSlot).st,
                              SubSeq(seq[s].prompt, 1, seq[s].cached))
  BY DEF PendingIntact
<1>1. PICK q \in SeqRecs : q = seq[s] /\ SeqSound(q, page) /\ SeqOK(q) /\ q.pending
  BY Served
<1>2. PICK w : w = Restored(s, SpoiledSlot)
  OBVIOUS
<1>3. Keeps(w, q)
  <2>1. SpoiledSlot \in SlotRecs
    BY BlankTyped
  <2>2. SlotHolds(SpoiledSlot, q)
    BY <1>1 DEF SlotHolds, SeqSound
  <2>3. EnsureRestored(s, SpoiledSlot) = w
    BY <1>2 DEF EnsureRestored
  <2> QED BY <2>1, <2>2, <2>3, <1>1, ReadyHolds
<1>4. PICK c \in Nat, m \in Nat : c = q.cached /\ m = Len(q.prompt)
  BY TextFacts
<1>5. q.out = <<>> /\ c <= m
  <2>1. q.out = <<>>
    BY <1>1 DEF SeqSound
  <2>2. c <= m + Len(q.out) /\ Len(q.out) = 0
    BY <2>1, <1>1, <1>4 DEF SeqOK
  <2> QED BY <2>1, <2>2
<1>6. PICK p \in Seq(Vocab) : p = q.prompt
  BY TextFacts
<1>7. c \in 0..Len(p)
  BY <1>4, <1>5, <1>6
<1>8. PICK a : a = SubSeq(p, 1, c) /\ Len(a) = c /\ \A i \in 0..c : SubSeq(a, 1, i) = SubSeq(p, 1, i)
  <2>1. /\ Len(SubSeq(p, 1, c)) = c
        /\ \A i \in 0..c : SubSeq(SubSeq(p, 1, c), 1, i) = SubSeq(p, 1, i)
    BY <1>7, PrefixFacts
  <2> QED BY <2>1
<1>9. \A i \in 0..c : Upto(q, i) = SubSeq(p, 1, i)
  <2> TAKE i \in 0..c
  <2>1. i \in 0..m
    BY <1>5
  <2> QED BY <2>1, <1>4, <1>6, TextFacts
<1>10. w.st = a
  <2>1. c \in 0..c /\ w.st = Upto(q, c)
    BY <1>3, <1>4 DEF Keeps
  <2> QED BY <2>1, <1>8, <1>9
<1>11. ASSUME NEW i \in 1..c PROVE w.kv[i] = SubSeq(a, 1, i)
  <2>1. i \in 0..c /\ w.kv[i] = Upto(q, i)
    BY <1>3, <1>4 DEF Keeps
  <2> QED BY <2>1, <1>8, <1>9
<1>12. HoldsText(w.kv, w.st, a)
  BY <1>8, <1>10, <1>11 DEF HoldsText
<1> QED BY <1>1, <1>2, <1>4, <1>6, <1>8, <1>12

(* With batches of one sequence every token of a live sequence is sampled    *)
(* from logits of its own text, for any prompts, pool, page size and cache   *)
(* limit: _v4_ensure_restored and _v4_stage_pages rebuild the slot from what *)
(* the hit was promised, whoever used the slot in between.                   *)
THEOREM HistoriesAreOwn == MaxBatch = 1 => (SpecV4 => []OwnHistory)
<1> SUFFICES ASSUME MaxBatch = 1 PROVE SpecV4 => []OwnHistory
  OBVIOUS
<1>1. SpecV4 => [](VInv /\ SInv)
  BY SpecSInv
<1>2. VInv /\ SInv => OwnHistory
  BY SoundHistory
<1> QED BY <1>1, <1>2, PTL

(* Under the same hypothesis a stored prefix can always be served, and a hit *)
(* that waits can be restored when its turn comes, even though               *)
(* _v4_dual_append_decode writes to shared pages without copying them: the   *)
(* row it writes lies past what any other holder of the page reads.          *)
THEOREM SnapshotsStayIntact == MaxBatch = 1 => (SpecV4 => []SnapshotsIntact)
<1> SUFFICES ASSUME MaxBatch = 1 PROVE SpecV4 => []SnapshotsIntact
  OBVIOUS
<1>1. SpecV4 => [](VInv /\ SInv)
  BY SpecSInv
<1>2. VInv /\ SInv => SnapshotsIntact
  BY SoundEntries, SoundPending DEF SnapshotsIntact
<1> QED BY <1>1, <1>2, PTL
=============================================================================
