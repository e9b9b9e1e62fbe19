----------------------------- MODULE ListLemmas -----------------------------
(***************************************************************************)
(* What inserting into and removing from a sequence does to its length and *)
(* its elements: the facts about the order lists that the proofs rest on.  *)
(***************************************************************************)
EXTENDS Integers, Sequences, SequencesExt, SequenceTheorems, WellFoundedInduction, TLAPS

\* The singleton is a sequence of one element.
LEMMA SingletonSeq ==
  ASSUME NEW S, NEW e \in S
  PROVE  <<e>> \in Seq(S) /\ Len(<<e>>) = 1 /\ <<e>>[1] = e
OBVIOUS

\* InsertAt puts one element at its place and moves the later ones up.
LEMMA InsertAtFacts ==
  ASSUME NEW S, NEW s \in Seq(S), NEW e \in S, NEW i \in 1..(Len(s) + 1)
  PROVE  /\ InsertAt(s, i, e) \in Seq(S)
         /\ Len(InsertAt(s, i, e)) = Len(s) + 1
         /\ \A j \in 1..(Len(s) + 1) :
              InsertAt(s, i, e)[j] = IF j < i THEN s[j] ELSE IF j = i THEN e ELSE s[j - 1]
<1> DEFINE front == SubSeq(s, 1, i - 1)
           back  == SubSeq(s, i, Len(s))
<1>1. Len(s) \in Nat /\ i \in Int /\ \A k \in 1..Len(s) : s[k] \in S
  BY LenProperties, ElementOfSeq
<1>2. /\ front \in Seq(S)
      /\ Len(front) = i - 1
      /\ \A k \in 1..(i - 1) : front[k] = s[k]
  <2>1. \A k \in 1..(i - 1) : s[k] \in S
    BY <1>1
  <2>2. /\ front \in Seq(S)
        /\ Len(front) = IF 1 <= i - 1 THEN (i - 1) - 1 + 1 ELSE 0
        /\ \A k \in 1..((i - 1) - 1 + 1) : front[k] = s[1 + k - 1]
    BY <1>1, <2>1, SubSeqProperties
  <2> QED
    BY <1>1, <2>2
<1>3. /\ back \in Seq(S)
      /\ Len(back) = Len(s) - i + 1
      /\ \A k \in 1..(Len(s) - i + 1) : back[k] = s[i + k - 1]
  <2>1. \A k \in i..Len(s) : s[k] \in S
    BY <1>1
  <2>2. /\ back \in Seq(S)
        /\ Len(back) = IF i <= Len(s) THEN Len(s) - i + 1 ELSE 0
        /\ \A k \in 1..(Len(s) - i + 1) : back[k] = s[i + k - 1]
    BY <1>1, <2>1, SubSeqProperties
  <2> QED
    BY <1>1, <2>2
<1>4. <<e>> \in Seq(S) /\ Len(<<e>>) = 1 /\ <<e>>[1] = e
  BY SingletonSeq
<1> HIDE DEF front, back
<1>5. /\ front \o <<e>> \in Seq(S)
      /\ Len(front \o <<e>>) = i
      /\ \A k \in 1..i : (front \o <<e>>)[k] = IF k < i THEN s[k] ELSE e
  <2>1. /\ front \o <<e>> \in Seq(S)
        /\ Len(front \o <<e>>) = Len(front) + Len(<<e>>)
        /\ \A k \in 1..(Len(front) + Len(<<e>>)) :
             (front \o <<e>>)[k] = IF k <= Len(front) THEN front[k] ELSE <<e>>[k - Len(front)]
    BY <1>2, <1>4, ConcatProperties
  <2> QED
    BY <1>1, <1>2, <1>4, <2>1
<1> DEFINE head == front \o <<e>>
<1> HIDE DEF head
<1>6. /\ head \o back \in Seq(S)
      /\ Len(head \o back) = Len(head) + Len(back)
      /\ \A j \in 1..(Len(head) + Len(back)) :
           (head \o back)[j] = IF j <= Len(head) THEN head[j] ELSE back[j - Len(head)]
  <2>1. head \in Seq(S)
    BY <1>5 DEF head
  <2> QED
    BY <1>3, <2>1, ConcatProperties
<1>7. InsertAt(s, i, e) = head \o back
  BY DEF InsertAt, front, back, head
<1>8. /\ head \in Seq(S)
      /\ Len(head) = i
      /\ \A k \in 1..i : head[k] = IF k < i THEN s[k] ELSE e
  BY <1>5 DEF head
<1>9. Len(head) + Len(back) = Len(s) + 1
  BY <1>1, <1>3, <1>8
<1>10. ASSUME NEW j \in 1..(Len(s) + 1)
       PROVE  InsertAt(s, i, e)[j] = IF j < i THEN s[j] ELSE IF j = i THEN e ELSE s[j - 1]
  <2>1. InsertAt(s, i, e)[j] = IF j <= i THEN head[j] ELSE back[j - i]
    BY <1>6, <1>7, <1>8, <1>9
  <2>2. CASE j <= i
    BY <1>1, <1>8, <2>1, <2>2
  <2>3. CASE j > i
    <3>1. j - i \in 1..(Len(s) - i + 1)
      BY <1>1, <2>3
    <3>2. back[j - i] = s[i + (j - i) - 1]
      BY <1>3, <3>1
    <3> QED
      BY <1>1, <2>1, <2>3, <3>2
  <2> QED
    BY <1>1, <2>2, <2>3
<1> QED
  BY <1>6, <1>7, <1>9, <1>10

\* RemoveAt takes one element out and moves the later ones down.
LEMMA RemoveAtFacts ==
  ASSUME NEW S, NEW s \in Seq(S), NEW i \in 1..Len(s)
  PROVE  /\ RemoveAt(s, i) \in Seq(S)
         /\ Len(RemoveAt(s, i)) = Len(s) - 1
         /\ \A j \in 1..(Len(s) - 1) :
              RemoveAt(s, i)[j] = IF j < i THEN s[j] ELSE s[j + 1]
<1> DEFINE front == SubSeq(s, 1, i - 1)
           back  == SubSeq(s, i + 1, Len(s))
<1>1. Len(s) \in Nat /\ i \in Int /\ \A k \in 1..Len(s) : s[k] \in S
  BY LenProperties, ElementOfSeq
<1>2. /\ front \in Seq(S)
      /\ Len(front) = i - 1
      /\ \A k \in 1..(i - 1) : front[k] = s[k]
  <2>1. \A k \in 1..(i - 1) : s[k] \in S
    BY <1>1
  <2>2. /\ front \in Seq(S)
        /\ Len(front) = IF 1 <= i - 1 THEN (i - 1) - 1 + 1 ELSE 0
        /\ \A k \in 1..((i - 1) - 1 + 1) : front[k] = s[1 + k - 1]
    BY <1>1, <2>1, SubSeqProperties
  <2> QED
    BY <1>1, <2>2
<1>3. /\ back \in Seq(S)
      /\ Len(back) = Len(s) - i
      /\ \A k \in 1..(Len(s) - i) : back[k] = s[i + k]
  <2>1. \A k \in (i + 1)..Len(s) : s[k] \in S
    BY <1>1
  <2>2. /\ back \in Seq(S)
        /\ Len(back) = IF i + 1 <= Len(s) THEN Len(s) - (i + 1) + 1 ELSE 0
        /\ \A k \in 1..(Len(s) - (i + 1) + 1) : back[k] = s[(i + 1) + k - 1]
    BY <1>1, <2>1, SubSeqProperties
  <2> QED
    BY <1>1, <2>2
<1> HIDE DEF front, back
<1>4. /\ front \o back \in Seq(S)
      /\ Len(front \o back) = Len(front) + Len(back)
      /\ \A j \in 1..(Len(front) + Len(back)) :
           (front \o back)[j] = IF j <= Len(front) THEN front[j] ELSE back[j - Len(front)]
  BY <1>2, <1>3, ConcatProperties
<1>5. RemoveAt(s, i) = front \o back
  BY DEF RemoveAt, front, back
<1>6. Len(front) + Len(back) = Len(s) - 1
  BY <1>1, <1>2, <1>3
<1>7. ASSUME NEW j \in 1..(Len(s) - 1)
      PROVE  RemoveAt(s, i)[j] = IF j < i THEN s[j] ELSE s[j + 1]
  <2>1. RemoveAt(s, i)[j] = IF j <= i - 1 THEN front[j] ELSE back[j - (i - 1)]
    BY <1>2, <1>4, <1>5, <1>6
  <2>2. CASE j < i
    BY <1>1, <1>2, <2>1, <2>2
  <2>3. CASE j >= i
    <3>1. j - (i - 1) \in 1..(Len(s) - i)
      BY <1>1, <2>3
    <3>2. back[j - (i - 1)] = s[i + (j - (i - 1))]
      BY <1>3, <3>1
    <3> QED
      BY <1>1, <2>1, <2>3, <3>2
  <2> QED
    BY <1>1, <2>2, <2>3
<1> QED
  BY <1>4, <1>5, <1>6, <1>7

\* A nonempty set of natural numbers has a least element.
LEMMA LeastNatural ==
  ASSUME NEW T \in SUBSET Nat, T # {}
  PROVE  \E x \in T : \A y \in T : x <= y
<1>1. IsWellFoundedOn(OpToRel(<, Nat), Nat)
  BY NatLessThanWellFounded
<1>2. \E x \in T : \A y \in T : ~ (<<y, x>> \in OpToRel(<, Nat))
  BY <1>1, WFMin
<1>3. \A x, y \in Nat : ~ (<<y, x>> \in OpToRel(<, Nat)) => x <= y
  BY DEF OpToRel
<1> QED
  BY <1>2, <1>3

-----------------------------------------------------------------------------
(* Lists without repetition, ordered by a value p of their elements.       *)

Distinct(s)   == \A a, b \in DOMAIN s : s[a] = s[b] => a = b
OrderedBy(s, p) == \A a, b \in DOMAIN s : a < b => p[s[a]] <= p[s[b]]

\* There is a place for a value v in any list: the first element above v,
\* or the end.
LEMMA PlaceExists ==
  ASSUME NEW S, NEW s \in Seq(S), NEW p \in [S -> Int], NEW v \in Int
  PROVE  \E i \in 1..(Len(s) + 1) :
           /\ \A j \in 1..(i - 1) : p[s[j]] <= v
           /\ i <= Len(s) => p[s[i]] > v
<1> DEFINE T == {i \in 1..(Len(s) + 1) : i <= Len(s) => p[s[i]] > v}
<1>1. Len(s) \in Nat /\ \A k \in 1..Len(s) : p[s[k]] \in Int
  BY LenProperties, ElementOfSeq
<1>2. Len(s) + 1 \in T
  BY <1>1
<1>3. PICK i \in T : \A y \in T : i <= y
  <2>1. T \in SUBSET Nat /\ T # {}
    BY <1>1, <1>2
  <2> HIDE DEF T
  <2> QED
    BY <2>1, LeastNatural
<1>4. ASSUME NEW j \in 1..(i - 1)
      PROVE  p[s[j]] <= v
  <2>1. j \in 1..Len(s) /\ j \notin T
    BY <1>1, <1>3
  <2> QED
    BY <1>1, <2>1
<1> QED
  BY <1>3, <1>4

\* A new element put at its place leaves the list in order, with that
\* element and the old ones.
LEMMA InsertInPlace ==
  ASSUME NEW S, NEW s \in Seq(S), NEW e \in S, NEW p \in [S -> Int],
         NEW i \in 1..(Len(s) + 1),
         Distinct(s), OrderedBy(s, p), e \notin ToSet(s),
         \A j \in 1..(i - 1) : p[s[j]] <= p[e],
         i <= Len(s) => p[s[i]] > p[e]
  PROVE  /\ Distinct(InsertAt(s, i, e))
         /\ OrderedBy(InsertAt(s, i, e), p)
         /\ ToSet(InsertAt(s, i, e)) = ToSet(s) \cup {e}
<1> DEFINE r == InsertAt(s, i, e)
           n == Len(s)
<1>1. n \in Nat /\ DOMAIN s = 1..n /\ i \in Int
      /\ \A k \in 1..n : s[k] \in S /\ p[s[k]] \in Int
  BY LenProperties, ElementOfSeq
<1>2. /\ DOMAIN r = 1..(n + 1)
      /\ \A j \in 1..(n + 1) : r[j] = IF j < i THEN s[j] ELSE IF j = i THEN e ELSE s[j - 1]
  <2>1. /\ r \in Seq(S)
        /\ Len(r) = n + 1
        /\ \A j \in 1..(n + 1) : r[j] = IF j < i THEN s[j] ELSE IF j = i THEN e ELSE s[j - 1]
    BY InsertAtFacts
  <2> HIDE DEF r
  <2> QED
    BY <2>1, LenProperties
<1>3. /\ \A k \in 1..n : s[k] # e /\ s[k] \in ToSet(s)
      /\ \A x \in ToSet(s) : \E k \in 1..n : x = s[k]
      /\ \A a, b \in 1..n : s[a] = s[b] => a = b
      /\ \A a, b \in 1..n : a < b => p[s[a]] <= p[s[b]]
  BY <1>1 DEF ToSet, Distinct, OrderedBy
<1>4. \A k \in i..n : p[s[k]] > p[e]
  BY <1>1 DEF OrderedBy
<1> HIDE DEF r, n
<1>5. Distinct(r)
  <2> SUFFICES ASSUME NEW a \in 1..(n + 1), NEW b \in 1..(n + 1), r[a] = r[b], a < b
               PROVE  FALSE
    BY <1>1, <1>2 DEF Distinct
  <2>1. CASE b < i
    BY <1>1, <1>2, <2>1 DEF Distinct
  <2>2. CASE b = i
    BY <1>1, <1>2, <1>3, <2>2
  <2>3. CASE b > i
    <3>1. r[b] = s[b - 1] /\ b - 1 \in 1..n /\ b - 1 >= i
      BY <1>1, <1>2, <2>3
    <3>2. CASE a = i
      BY <1>1, <1>2, <1>3, <3>1, <3>2
    <3>3. CASE a < i
      <4>1. r[a] = s[a] /\ a \in 1..n
        BY <1>1, <1>2, <3>3
      <4> QED
        BY <1>1, <1>3, <3>1, <3>3, <4>1
    <3>4. CASE a > i
      <4>1. r[a] = s[a - 1] /\ a - 1 \in 1..n
        BY <1>1, <1>2, <3>4
      <4> QED
        BY <1>1, <1>3, <3>1, <4>1
    <3> QED
      BY <1>1, <3>2, <3>3, <3>4
  <2> QED
    BY <1>1, <2>1, <2>2, <2>3
<1>6. OrderedBy(r, p)
  <2> SUFFICES ASSUME NEW a \in 1..(n + 1), NEW b \in 1..(n + 1), a < b
               PROVE  p[r[a]] <= p[r[b]]
    BY <1>1, <1>2 DEF OrderedBy
  <2>0. p[e] \in Int
    OBVIOUS
  <2>1. CASE b < i
    <3>1. r[a] = s[a] /\ r[b] = s[b] /\ a \in 1..n /\ b \in 1..n
      BY <1>1, <1>2, <2>1
    <3> QED
      BY <1>3, <3>1
  <2>2. CASE b = i
    BY <1>1, <1>2, <2>2
  <2>3. CASE b > i /\ a = i
    <3>1. r[a] = e /\ r[b] = s[b - 1] /\ b - 1 \in i..n
      BY <1>1, <1>2, <2>3
    <3> QED
      BY <1>1, <1>4, <2>0, <3>1
  <2>4. CASE b > i /\ a < i
    <3>1. r[a] = s[a] /\ r[b] = s[b - 1] /\ b - 1 \in 1..n /\ a \in 1..n /\ a <= b - 1
      <4>1. b - 1 \in 1..n /\ a \in 1..n /\ a <= b - 1
        BY <1>1, <2>4
      <4>2. r[a] = s[a]
        BY <1>2, <2>4
      <4>3. ~(b < i) /\ b # i
        BY <1>1, <2>4
      <4>4. r[b] = s[b - 1]
        BY <1>2, <4>3
      <4> QED
        BY <4>1, <4>2, <4>4
    <3> QED
      BY <1>1, <1>3, <3>1
  <2>5. CASE b > i /\ a > i
    <3>1. r[a] = s[a - 1] /\ r[b] = s[b - 1] /\ b - 1 \in 1..n /\ a - 1 \in 1..n /\ a - 1 < b - 1
      <4>1. b - 1 \in 1..n /\ a - 1 \in 1..n /\ a - 1 < b - 1
        BY <1>1, <2>5
      <4>2. ~(a < i) /\ a # i /\ ~(b < i) /\ b # i
        BY <1>1, <2>5
      <4>3. r[a] = s[a - 1] /\ r[b] = s[b - 1]
        BY <1>2, <4>2
      <4> QED
        BY <4>1, <4>3
    <3> QED
      BY <1>1, <1>3, <3>1
  <2> QED
    BY <1>1, <2>1, <2>2, <2>3, <2>4, <2>5
<1>7. ToSet(r) = ToSet(s) \cup {e}
  <2>1. ASSUME NEW x \in ToSet(r)
        PROVE  x \in ToSet(s) \cup {e}
    <3>1. PICK j \in 1..(n + 1) : x = r[j]
      BY <1>2 DEF ToSet
    <3>2. CASE j < i
      <4>1. x = s[j] /\ j \in 1..n
        BY <1>1, <1>2, <3>1, <3>2
      <4> QED
        BY <1>3, <4>1
    <3>3. CASE j = i
      BY <1>1, <1>2, <3>1, <3>3
    <3>4. CASE j > i
      <4>1. x = s[j - 1] /\ j - 1 \in 1..n
        BY <1>1, <1>2, <3>1, <3>4
      <4> QED
        BY <1>3, <4>1
    <3> QED
      BY <1>1, <3>2, <3>3, <3>4
  <2>2. ASSUME NEW x \in ToSet(s)
        PROVE  x \in ToSet(r)
    <3>1. PICK j \in 1..n : x = s[j]
      BY <1>3
    <3>2. CASE j < i
      <4>1. r[j] = x /\ j \in 1..(n + 1)
        BY <1>1, <1>2, <3>1, <3>2
      <4> QED
        BY <1>2, <4>1 DEF ToSet
    <3>3. CASE j >= i
      <4>1. r[j + 1] = x /\ j + 1 \in 1..(n + 1)
        BY <1>1, <1>2, <3>1, <3>3
      <4> QED
        BY <1>2, <4>1 DEF ToSet
    <3> QED
      BY <1>1, <3>2, <3>3
  <2>3. e \in ToSet(r)
    <3>1. r[i] = e /\ i \in 1..(n + 1)
      BY <1>1, <1>2 DEF n
    <3> QED
      BY <1>2, <3>1 DEF ToSet
  <2> QED
    BY <2>1, <2>2, <2>3
<1> QED
  BY <1>5, <1>6, <1>7 DEF r

\* Taking an element out leaves the list in order, with the other elements.
LEMMA RemoveInPlace ==
  ASSUME NEW S, NEW s \in Seq(S), NEW p \in [S -> Int], NEW i \in 1..Len(s),
         Distinct(s), OrderedBy(s, p)
  PROVE  /\ Distinct(RemoveAt(s, i))
         /\ OrderedBy(RemoveAt(s, i), p)
         /\ ToSet(RemoveAt(s, i)) = ToSet(s) \ {s[i]}
<1> DEFINE r == RemoveAt(s, i)
           n == Len(s)
           old(j) == IF j < i THEN j ELSE j + 1
<1>1. n \in Nat /\ DOMAIN s = 1..n /\ i \in 1..n
  BY LenProperties
<1>2. DOMAIN r = 1..(n - 1) /\ \A j \in 1..(n - 1) : r[j] = s[old(j)]
  <2>1. /\ r \in Seq(S)
        /\ Len(r) = n - 1
        /\ \A j \in 1..(n - 1) : r[j] = IF j < i THEN s[j] ELSE s[j + 1]
    BY RemoveAtFacts
  <2> HIDE DEF r
  <2>2. DOMAIN r = 1..(n - 1)
    BY <2>1, LenProperties
  <2> QED
    BY <2>1, <2>2
<1>3. /\ \A j \in 1..(n - 1) : old(j) \in 1..n /\ old(j) # i
      /\ \A a, b \in 1..(n - 1) : a < b => old(a) < old(b)
      /\ \A a, b \in 1..(n - 1) : old(a) = old(b) => a = b
      /\ \A k \in 1..n : k # i => \E j \in 1..(n - 1) : old(j) = k
  <2>1. ASSUME NEW k \in 1..n, k # i
        PROVE  \E j \in 1..(n - 1) : old(j) = k
    <3>1. CASE k < i
      <4>1. k \in 1..(n - 1) /\ old(k) = k
        BY <1>1, <3>1
      <4> QED
        BY <4>1
    <3>2. CASE k > i
      <4>1. k - 1 \in 1..(n - 1) /\ old(k - 1) = k
        BY <1>1, <3>2
      <4> QED
        BY <4>1
    <3> QED
      BY <1>1, <2>1, <3>1, <3>2
  <2> QED
    BY <1>1, <2>1
<1> HIDE DEF r, n, old
<1>4. Distinct(r)
  BY <1>1, <1>2, <1>3 DEF Distinct
<1>5. OrderedBy(r, p)
  BY <1>1, <1>2, <1>3 DEF OrderedBy
<1>6. ToSet(r) = ToSet(s) \ {s[i]}
  <2>1. \A a, b \in 1..n : s[a] = s[b] => a = b
    BY <1>1 DEF Distinct
  <2>2. ASSUME NEW x \in ToSet(r)
        PROVE  x \in ToSet(s) \ {s[i]}
    <3>1. PICK j \in 1..(n - 1) : x = r[j]
      BY <1>2 DEF ToSet
    <3>2. x = s[old(j)] /\ old(j) \in 1..n /\ old(j) # i
      BY <1>2, <1>3, <3>1
    <3> QED
      BY <1>1, <2>1, <3>2 DEF ToSet
  <2>3. ASSUME NEW x \in ToSet(s) \ {s[i]}
        PROVE  x \in ToSet(r)
    <3>1. PICK k \in 1..n : x = s[k]
      BY <1>1 DEF ToSet
    <3>2. PICK j \in 1..(n - 1) : old(j) = k
      BY <1>1, <1>3, <3>1
    <3> QED
      BY <1>2, <3>1, <3>2 DEF ToSet
  <2> QED
    BY <2>2, <2>3
<1> QED
  BY <1>4, <1>5, <1>6 DEF r, n
=============================================================================
