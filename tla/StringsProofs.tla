---------------------------- MODULE StringsProofs ----------------------------
(***************************************************************************)
(* Proofs about Strings, for every sequence of bytes, UTF-8 or not: what a  *)
(* walk from the start, the cursor or the end arrives at is the place of    *)
(* the character it was to arrive at, so that the cursor is always at the   *)
(* character it counts, a character has one spelling, and every method      *)
(* answers as Text does.                                                    *)
(***************************************************************************)
EXTENDS Strings, SequenceTheorems, FiniteSetTheorems, WellFoundedInduction, TLAPS

Width(s, i) == ob_utf8_decode(s, i).width

\* Where character j begins, and for the number of characters, where the string ends.
Place(s, j) == Append(Starts(s), Len(s))[j + 1]

-----------------------------------------------------------------------------
(* Sequences *)

\* A set of numbers that is not empty has a least one.
LEMMA Least ==
  ASSUME NEW S \in SUBSET Nat, S # {}
  PROVE  \E k \in S : \A j \in S : k <= j
<1>1. PICK k \in S : \A j \in S : <<j, k>> \notin OpToRel(<, Nat)
  BY WFMin, NatLessThanWellFounded
<1>2. \A j \in S : ~(j < k)
  BY <1>1 DEF OpToRel
<1> QED
  BY <1>2

\* A sequence with one element more, at either end.
LEMMA OneMore ==
  ASSUME NEW S, NEW s \in Seq(S), NEW e \in S
  PROVE  /\ Len(s) \in Nat
         /\ Append(s, e) \in Seq(S) /\ Len(Append(s, e)) = Len(s) + 1
         /\ \A j \in 1..Len(s) : Append(s, e)[j] = s[j]
         /\ Append(s, e)[Len(s) + 1] = e
         /\ <<e>> \o s \in Seq(S) /\ Len(<<e>> \o s) = Len(s) + 1
         /\ (<<e>> \o s)[1] = e
         /\ \A j \in 1..Len(s) : (<<e>> \o s)[j + 1] = s[j]
<1>1. <<e>> \in Seq(S) /\ Len(<<e>>) = 1 /\ <<e>>[1] = e
  OBVIOUS
<1>2. Len(s) \in Nat
  BY LenProperties
<1>3. /\ <<e>> \o s \in Seq(S) /\ Len(<<e>> \o s) = 1 + Len(s)
      /\ \A i \in 1..1 + Len(s) : (<<e>> \o s)[i] = IF i <= 1 THEN <<e>>[i] ELSE s[i - 1]
  BY <1>1, ConcatProperties
<1>4. /\ (<<e>> \o s)[1] = e
      /\ \A j \in 1..Len(s) : (<<e>> \o s)[j + 1] = s[j]
  <2>1. \A j \in 1..Len(s) : j + 1 \in 1..1 + Len(s) /\ ~(j + 1 <= 1) /\ (j + 1) - 1 = j
    BY <1>2
  <2>2. 1 \in 1..1 + Len(s)
    BY <1>2
  <2> QED
    BY <1>1, <1>3, <2>1, <2>2
<1>5. /\ Append(s, e) \in Seq(S) /\ Len(Append(s, e)) = Len(s) + 1
      /\ \A j \in 1..Len(s) : Append(s, e)[j] = s[j]
      /\ Append(s, e)[Len(s) + 1] = e
  BY <1>2
<1> QED
  BY <1>2, <1>3, <1>4, <1>5

-----------------------------------------------------------------------------
(* UTF-8 *)

LEMMA AnnouncedIs ==
  ASSUME NEW c \in Octet
  PROVE  /\ Announced(c) \in 0..4
         /\ Announced(c) = 1 <=> c < 128
         /\ Announced(c) = 2 <=> c \in 192..223
         /\ Announced(c) = 3 <=> c \in 224..239
         /\ Announced(c) = 4 <=> c \in 240..247
         /\ IsContinuation(c) <=> c \in 128..191
BY DEF Octet, Announced, IsContinuation

\* What is decoded lies in the string, all but its first byte continue, and that
\* does not if the string is well formed here.
LEMMA DecodeIs ==
  ASSUME NEW s \in Seq(Octet), NEW i \in 0..Len(s) - 1
  PROVE  LET d == ob_utf8_decode(s, i)
         IN  /\ d.width \in 1..4 /\ i + d.width <= Len(s)
             /\ \A k \in 1..d.width - 1 : IsContinuation(s[i + 1 + k])
             /\ d.width > 1 \/ d.cp < 128 => ~IsContinuation(s[i + 1])
<1> DEFINE c == s[i + 1]
           w == Announced(c)
           d == ob_utf8_decode(s, i)
           Whole == i + w <= Len(s) /\ \A k \in 1..w - 1 : IsContinuation(s[i + 1 + k])
<1>1. Len(s) \in Nat /\ i + 1 \in 1..Len(s) /\ i \in Nat
  BY LenProperties
<1>2. c \in Octet
  BY <1>1, ElementOfSeq
<1>3. /\ w \in 0..4
      /\ w = 1 <=> c < 128
      /\ w = 2 <=> c \in 192..223
      /\ w = 3 <=> c \in 224..239
      /\ w = 4 <=> c \in 240..247
      /\ IsContinuation(c) <=> c \in 128..191
  BY <1>2, AnnouncedIs
<1>4. \/ d.width = w /\ w > 1 /\ Whole
      \/ d.width = 1 /\ d.cp = c
  BY DEF ob_utf8_decode
<1>5. c \in 0..255
  BY <1>2 DEF Octet
<1> HIDE DEF c, w, d
<1>6. w > 1 \/ c < 128 => ~IsContinuation(c)
  BY <1>3, <1>5
<1>7. CASE d.width = w /\ w > 1 /\ Whole
  <2>1. d.width \in 1..4 /\ i + d.width <= Len(s)
    BY <1>3, <1>7
  <2> QED
    BY <1>6, <1>7, <2>1 DEF c, d
<1>8. CASE d.width = 1 /\ d.cp = c
  <2>1. \A k \in 1..d.width - 1 : FALSE
    BY <1>8
  <2>2. d.width \in 1..4 /\ i + d.width <= Len(s)
    BY <1>1, <1>8
  <2>3. d.width > 1 \/ d.cp < 128 => c < 128
    BY <1>8
  <2> QED
    BY <1>6, <2>1, <2>2, <2>3 DEF c, d
<1> QED
  BY <1>4, <1>7, <1>8 DEF d

LEMMA WidthIs ==
  ASSUME NEW s \in Seq(Octet), NEW i \in 0..Len(s) - 1
  PROVE  Width(s, i) \in 1..4 /\ i + Width(s, i) \in 1..Len(s)
<1>1. Width(s, i) \in 1..4 /\ i + Width(s, i) <= Len(s)
  BY DecodeIs DEF Width
<1>2. Len(s) \in Nat
  BY LenProperties
<1> QED
  BY <1>1, <1>2

-----------------------------------------------------------------------------
(* The places of characters *)

\* Where the (j+1)-th character of those that begin at q ends or begins.
Edge(s, q, j) == IF j < Len(q) THEN q[j + 1] ELSE Len(s)

\* q is where the characters begin from byte i on.
AreStarts(s, i, q) ==
  /\ q \in Seq(0..Len(s) - 1)
  /\ Edge(s, q, 0) = i
  /\ \A j \in 0..Len(q) - 1 : Edge(s, q, j + 1) = Edge(s, q, j) + Width(s, Edge(s, q, j))

LEMMA NoStarts ==
  ASSUME NEW s \in Seq(Octet)
  PROVE  AreStarts(s, Len(s), <<>>)
BY DEF AreStarts, Edge

LEMMA StartsBefore ==
  ASSUME NEW s \in Seq(Octet), NEW i \in 0..Len(s) - 1, NEW q,
         AreStarts(s, i + Width(s, i), q)
  PROVE  AreStarts(s, i, <<i>> \o q)
<1> DEFINE r == <<i>> \o q
<1>1. q \in Seq(0..Len(s) - 1)
  BY DEF AreStarts
<1>2. /\ Len(q) \in Nat
      /\ r \in Seq(0..Len(s) - 1) /\ Len(r) = Len(q) + 1 /\ r[1] = i
      /\ \A j \in 1..Len(q) : r[j + 1] = q[j]
  BY <1>1, OneMore
<1> HIDE DEF r
<1>3. Edge(s, r, 0) = i
  BY <1>2 DEF Edge
<1>4. \A j \in 0..Len(q) : Edge(s, r, j + 1) = Edge(s, q, j)
  <2> SUFFICES ASSUME NEW j \in 0..Len(q) PROVE Edge(s, r, j + 1) = Edge(s, q, j)
    OBVIOUS
  <2>1. CASE j < Len(q)
    <3>1. j + 1 \in 1..Len(q) /\ j + 1 < Len(r)
      BY <1>2, <2>1
    <3>2. r[(j + 1) + 1] = q[j + 1]
      BY <1>2, <3>1
    <3> QED
      BY <2>1, <3>1, <3>2 DEF Edge
  <2>2. CASE ~(j < Len(q))
    <3>1. ~(j + 1 < Len(r))
      BY <1>2, <2>2
    <3> QED
      BY <2>2, <3>1 DEF Edge
  <2> QED
    BY <2>1, <2>2
<1>5. Edge(s, r, 0 + 1) = i + Width(s, i)
  BY <1>2, <1>4 DEF AreStarts
<1>6. ASSUME NEW j \in 0..Len(r) - 1
      PROVE  Edge(s, r, j + 1) = Edge(s, r, j) + Width(s, Edge(s, r, j))
  <2>1. CASE j = 0
    BY <1>3, <1>5, <2>1
  <2>2. CASE j # 0
    <3>1. j - 1 \in 0..Len(q) - 1 /\ (j - 1) + 1 = j /\ j - 1 \in 0..Len(q) /\ j \in 0..Len(q)
      BY <1>2, <2>2
    <3>2. Edge(s, r, j) = Edge(s, q, j - 1) /\ Edge(s, r, j + 1) = Edge(s, q, j)
      BY <1>4, <3>1
    <3>3. Edge(s, q, j) = Edge(s, q, j - 1) + Width(s, Edge(s, q, j - 1))
      BY <3>1 DEF AreStarts
    <3> QED
      BY <3>2, <3>3
  <2> QED
    BY <2>1, <2>2
<1> QED
  BY <1>2, <1>3, <1>6 DEF r, AreStarts

\* The walk of ob_sclen comes to an end, so that Starts is defined.
LEMMA StartsExist ==
  ASSUME NEW s \in Seq(Octet)
  PROVE  \E g : g = [i \in 0..Len(s) |->
                       IF i = Len(s) THEN <<>> ELSE <<i>> \o g[i + ob_utf8_decode(s, i).width]]
<1> DEFINE L == Len(s)
           At(g, i) == IF i = L THEN <<>> ELSE <<i>> \o g[i + Width(s, i)]
           From(m) == \E g : g = [i \in m..L |-> At(g, i)]
           Missing == {k \in 0..L : ~From(L - k)}
<1>1. L \in Nat
  BY LenProperties
<1>2. From(L)
  <2> DEFINE g == [i \in L..L |-> <<>>]
  <2>1. \A i \in L..L : i = L
    BY <1>1
  <2>2. g = [i \in L..L |-> At(g, i)]
    BY <2>1
  <2> QED
    BY <2>2
<1>3. ASSUME NEW m \in 0..L - 1, From(m + 1)
      PROVE  From(m)
  <2>1. PICK g : g = [i \in m + 1..L |-> At(g, i)]
    BY <1>3
  <2> DEFINE h == [i \in m..L |-> IF i = m THEN At(g, m) ELSE g[i]]
  <2>2. \A i \in m + 1..L : g[i] = At(g, i)
    BY <2>1
  <2>3. ASSUME NEW i \in m..L PROVE h[i] = At(h, i)
    <3>1. CASE i = L
      <4>1. i # m /\ i \in m + 1..L
        BY <1>1, <3>1
      <4> QED
        BY <2>2, <3>1, <4>1
    <3>2. CASE i # L
      <4>1. i \in 0..Len(s) - 1
        BY <1>1, <3>2
      <4>2. Width(s, i) \in 1..4 /\ i + Width(s, i) \in 1..Len(s)
        BY <4>1, WidthIs
      <4> DEFINE e == i + Width(s, i)
      <4>3. e \in m..L /\ e # m
        BY <1>1, <4>1, <4>2
      <4> HIDE DEF e
      <4>4. h[e] = g[e]
        BY <4>3
      <4>5. h[i] = <<i>> \o g[e]
        <5>1. CASE i = m
          BY <3>2, <5>1 DEF e
        <5>2. CASE i # m
          <6>1. i \in m + 1..L
            BY <1>1, <5>2
          <6> QED
            BY <2>2, <3>2, <5>2, <6>1 DEF e
        <5> QED
          BY <5>1, <5>2
      <4> QED
        BY <3>2, <4>4, <4>5 DEF e
    <3> QED
      BY <3>1, <3>2
  <2>4. h = [i \in m..L |-> At(h, i)]
    <3> HIDE DEF At
    <3> QED
      BY <2>3
  <2> QED
    BY <2>4
<1>4. From(0)
  <2> SUFFICES ASSUME ~From(0) PROVE FALSE
    OBVIOUS
  <2> HIDE DEF From
  <2>1. L \in Missing
    BY <1>1
  <2>2. Missing \in SUBSET Nat
    OBVIOUS
  <2>3. PICK k \in Missing : \A j \in Missing : k <= j
    BY <2>1, <2>2, Least
  <2>4. k # 0
    BY <1>1, <1>2
  <2>5. k - 1 \in 0..L /\ k - 1 \notin Missing
    BY <1>1, <2>3, <2>4
  <2>6. From(L - (k - 1))
    BY <2>5
  <2>7. L - k \in 0..L - 1 /\ L - (k - 1) = (L - k) + 1
    BY <1>1, <2>3, <2>4
  <2>8. From(L - k)
    BY <1>3, <2>6, <2>7
  <2> QED
    BY <2>3, <2>8
<1> QED
  BY <1>4 DEF Width

LEMMA StartsAre ==
  ASSUME NEW s \in Seq(Octet)
  PROVE  AreStarts(s, 0, Starts(s))
<1> DEFINE L == Len(s)
           f == CHOOSE g : g = [i \in 0..Len(s) |->
                       IF i = Len(s) THEN <<>> ELSE <<i>> \o g[i + ob_utf8_decode(s, i).width]]
           Wrong == {k \in 0..L : ~AreStarts(s, L - k, f[L - k])}
<1>1. L \in Nat
  BY LenProperties
<1>2. f = [i \in 0..Len(s) |->
             IF i = Len(s) THEN <<>> ELSE <<i>> \o f[i + ob_utf8_decode(s, i).width]]
  BY StartsExist
<1>3. Starts(s) = f[0]
  BY DEF Starts
<1> HIDE DEF f
<1>4. f[L] = <<>> /\ \A i \in 0..L - 1 : f[i] = <<i>> \o f[i + Width(s, i)]
  <2>1. L \in 0..Len(s) /\ \A i \in 0..L - 1 : i \in 0..Len(s) /\ i # Len(s)
    BY <1>1
  <2>2. \A i \in 0..Len(s) :
          f[i] = IF i = Len(s) THEN <<>> ELSE <<i>> \o f[i + ob_utf8_decode(s, i).width]
    BY <1>2, Zenon
  <2> QED
    BY <2>1, <2>2 DEF Width
<1>5. Wrong = {}
  <2> SUFFICES ASSUME Wrong # {} PROVE FALSE
    OBVIOUS
  <2>1. Wrong \in SUBSET Nat
    OBVIOUS
  <2>2. PICK k \in Wrong : \A j \in Wrong : k <= j
    BY <2>1, Least
  <2> DEFINE i == L - k
  <2>3. k # 0
    BY <1>1, <1>4, NoStarts
  <2>4. i \in 0..Len(s) - 1
    BY <1>1, <2>3
  <2>5. Width(s, i) \in 1..4 /\ i + Width(s, i) \in 1..Len(s)
    BY <2>4, WidthIs
  <2>6. k - Width(s, i) \in 0..L /\ L - (k - Width(s, i)) = i + Width(s, i) /\ ~(k <= k - Width(s, i))
    BY <1>1, <2>4, <2>5
  <2>7. k - Width(s, i) \notin Wrong
    BY <2>2, <2>6
  <2>8. AreStarts(s, i + Width(s, i), f[i + Width(s, i)])
    BY <2>6, <2>7
  <2>9. AreStarts(s, i, <<i>> \o f[i + Width(s, i)])
    BY <2>4, <2>8, StartsBefore
  <2>10. AreStarts(s, i, f[i])
    BY <1>4, <2>4, <2>9
  <2> QED
    BY <2>2, <2>10
<1>6. L \in 0..L /\ L - L = 0
  BY <1>1
<1> QED
  BY <1>3, <1>5, <1>6

\* Where characters begin: the first at 0, each where the one before it ends, the
\* last ends with the string.
LEMMA PlaceIs ==
  ASSUME NEW s \in Seq(Octet)
  PROVE  /\ Starts(s) \in Seq(0..Len(s) - 1) /\ Len(Starts(s)) \in Nat /\ Len(s) \in Nat
         /\ Place(s, 0) = 0
         /\ Place(s, Len(Starts(s))) = Len(s)
         /\ \A j \in 0..Len(Starts(s)) : Place(s, j) \in 0..Len(s)
         /\ \A j \in 0..Len(Starts(s)) - 1 :
              /\ Place(s, j) = Starts(s)[j + 1]
              /\ Place(s, j) \in 0..Len(s) - 1
              /\ Place(s, j + 1) = Place(s, j) + Width(s, Place(s, j))
<1> DEFINE q == Starts(s)
           L == Len(s)
           n == Len(q)
<1>1. AreStarts(s, 0, q)
  BY StartsAre
<1>2. q \in Seq(0..L - 1) /\ L \in Nat /\ n \in Nat
  BY <1>1, LenProperties DEF AreStarts
<1>3. q \in Seq(0..L) /\ L \in 0..L
  <2>1. 0..L - 1 \subseteq 0..L
    BY <1>2
  <2> QED
    BY <1>2, <2>1, SeqMonotonic
<1> HIDE DEF q, n
<1>4. /\ \A j \in 1..n : Append(q, L)[j] = q[j]
      /\ Append(q, L)[n + 1] = L
  BY <1>3, OneMore DEF n
<1>5. \A j \in 0..n : Place(s, j) = Edge(s, q, j)
  BY <1>2, <1>4 DEF Place, Edge, n, q
<1>6. \A j \in 0..n - 1 : j + 1 \in 1..n /\ q[j + 1] \in 0..L - 1
  <2>1. \A k \in 1..n : q[k] \in 0..L - 1
    BY <1>2, ElementOfSeq DEF n
  <2> QED
    BY <1>2, <2>1
<1>7. \A j \in 0..n - 1 : Edge(s, q, j) = q[j + 1]
  BY <1>2 DEF Edge, n
<1>8. Edge(s, q, n) = L
  BY <1>2 DEF Edge, n
<1>9. \A j \in 0..n - 1 :
        /\ Place(s, j) = q[j + 1] /\ Place(s, j) \in 0..L - 1
        /\ Place(s, j + 1) = Place(s, j) + Width(s, Place(s, j))
  <2> SUFFICES ASSUME NEW j \in 0..n - 1
               PROVE  /\ Place(s, j) = q[j + 1] /\ Place(s, j) \in 0..L - 1
                      /\ Place(s, j + 1) = Place(s, j) + Width(s, Place(s, j))
    OBVIOUS
  <2>1. j \in 0..n /\ j + 1 \in 0..n
    BY <1>2
  <2>2. Edge(s, q, j + 1) = Edge(s, q, j) + Width(s, Edge(s, q, j))
    BY <1>1 DEF AreStarts, n
  <2> QED
    BY <1>5, <1>6, <1>7, <2>1, <2>2
<1>10. Place(s, n) = L
  BY <1>2, <1>5, <1>8
<1>11. Place(s, 0) = 0
  BY <1>1, <1>2, <1>5 DEF AreStarts
<1>12. \A j \in 0..n : Place(s, j) \in 0..L
  <2> SUFFICES ASSUME NEW j \in 0..n PROVE Place(s, j) \in 0..L
    OBVIOUS
  <2>1. CASE j = n
    BY <1>2, <1>10, <2>1
  <2>2. CASE j # n
    <3>1. j \in 0..n - 1
      BY <1>2, <2>2
    <3>2. Place(s, j) \in 0..L - 1
      BY <1>9, <3>1
    <3> QED
      BY <1>2, <3>2
  <2> QED
    BY <2>1, <2>2
<1> QED
  BY <1>2, <1>9, <1>10, <1>11, <1>12 DEF q, n

\* A character has a byte or more, before it and behind it.
LEMMA PlacesGrow ==
  ASSUME NEW s \in Seq(Octet), NEW j \in 0..Len(Starts(s))
  PROVE  j <= Place(s, j) /\ Len(Starts(s)) - j <= Len(s) - Place(s, j)
<1> DEFINE n == Len(Starts(s))
           L == Len(s)
           Low == {k \in 0..n : ~(k <= Place(s, k))}
           High == {k \in 0..n : ~(k <= L - Place(s, n - k))}
<1>1. /\ n \in Nat /\ L \in Nat /\ Place(s, 0) = 0 /\ Place(s, n) = L
      /\ \A k \in 0..n : Place(s, k) \in 0..L
  BY PlaceIs
<1>2. \A k \in 0..n - 1 : Place(s, k + 1) > Place(s, k)
  <2> SUFFICES ASSUME NEW k \in 0..n - 1 PROVE Place(s, k + 1) > Place(s, k)
    OBVIOUS
  <2>1. Place(s, k) \in 0..Len(s) - 1 /\ Place(s, k + 1) = Place(s, k) + Width(s, Place(s, k))
    BY PlaceIs
  <2>2. Width(s, Place(s, k)) \in 1..4
    BY <2>1, WidthIs
  <2> QED
    BY <1>1, <2>1, <2>2
<1> HIDE DEF n
<1>3. Low = {}
  <2> SUFFICES ASSUME Low # {} PROVE FALSE
    OBVIOUS
  <2>1. Low \in SUBSET Nat
    BY <1>1
  <2>2. PICK k \in Low : \A m \in Low : k <= m
    BY <2>1, Least
  <2>3. k # 0
    BY <1>1
  <2>4. k - 1 \in 0..n /\ k - 1 \in 0..n - 1 /\ (k - 1) + 1 = k /\ k - 1 \notin Low
    BY <1>1, <2>2, <2>3
  <2>5. Place(s, k) > Place(s, k - 1) /\ k - 1 <= Place(s, k - 1)
    BY <1>2, <2>4
  <2>6. Place(s, k) \in 0..L /\ Place(s, k - 1) \in 0..L
    BY <1>1, <2>4
  <2> QED
    BY <1>1, <2>2, <2>4, <2>5, <2>6
<1>4. High = {}
  <2> SUFFICES ASSUME High # {} PROVE FALSE
    OBVIOUS
  <2>1. High \in SUBSET Nat
    BY <1>1
  <2>2. PICK k \in High : \A m \in High : k <= m
    BY <2>1, Least
  <2>3. k # 0
    BY <1>1
  <2>4. k - 1 \in 0..n /\ n - k \in 0..n - 1 /\ (n - k) + 1 = n - (k - 1) /\ k - 1 \notin High
    BY <1>1, <2>2, <2>3
  <2>5. Place(s, n - (k - 1)) > Place(s, n - k) /\ k - 1 <= L - Place(s, n - (k - 1))
    BY <1>2, <2>4
  <2>6. Place(s, n - k) \in 0..L /\ Place(s, n - (k - 1)) \in 0..L
    BY <1>1, <2>4
  <2> QED
    BY <1>1, <2>2, <2>4, <2>5, <2>6
<1>5. j \in 0..n /\ n - j \in 0..n /\ n - (n - j) = j
  BY <1>1 DEF n
<1> QED
  BY <1>1, <1>3, <1>4, <1>5 DEF n

\* Places are in the order of characters.
LEMMA PlacesOrdered ==
  ASSUME NEW s \in Seq(Octet), NEW j \in 0..Len(Starts(s)), NEW k \in j..Len(Starts(s))
  PROVE  Place(s, j) <= Place(s, k)
<1> DEFINE n == Len(Starts(s))
           Back == {m \in 0..n - j : ~(Place(s, j) <= Place(s, j + m))}
<1>1. n \in Nat /\ Len(s) \in Nat /\ \A m \in 0..n : Place(s, m) \in 0..Len(s)
  BY PlaceIs
<1> HIDE DEF n
<1>2. Back = {}
  <2> SUFFICES ASSUME Back # {} PROVE FALSE
    OBVIOUS
  <2>1. Back \in SUBSET Nat
    OBVIOUS
  <2>2. PICK m \in Back : \A l \in Back : m <= l
    BY <2>1, Least
  <2>3. m # 0
    BY <1>1 DEF n
  <2> DEFINE l == j + (m - 1)
  <2>4. /\ m - 1 \in 0..n - j /\ m - 1 \notin Back
        /\ l \in 0..n - 1 /\ l + 1 = j + m /\ j \in 0..n
    <3>1. n \in Nat /\ j \in 0..n
      BY <1>1 DEF n
    <3>2. m \in 0..n - j
      BY <2>2
    <3>3. m - 1 \in 0..n - j /\ l \in 0..n - 1 /\ l + 1 = j + m /\ ~(m <= m - 1)
      BY <2>3, <3>1, <3>2
    <3>4. m - 1 \notin Back
      BY <2>2, <3>3
    <3> QED
      BY <3>1, <3>3, <3>4
  <2>5. Place(s, j) <= Place(s, l)
    BY <2>4
  <2> HIDE DEF l
  <2>6. Place(s, l) \in 0..Len(s) - 1 /\ Place(s, l + 1) = Place(s, l) + Width(s, Place(s, l))
    BY <2>4, PlaceIs DEF n
  <2>7. Width(s, Place(s, l)) \in 1..4
    BY <2>6, WidthIs
  <2>8. Place(s, j) \in 0..Len(s)
    BY <1>1, <2>4
  <2>9. Place(s, j) <= Place(s, l + 1)
    BY <1>1, <2>5, <2>6, <2>7, <2>8
  <2>10. ~(Place(s, j) <= Place(s, l + 1))
    BY <2>2, <2>4
  <2> QED
    BY <2>9, <2>10
<1>3. k - j \in 0..n - j /\ j + (k - j) = k
  BY <1>1 DEF n
<1> QED
  BY <1>2, <1>3

-----------------------------------------------------------------------------
(* Walks *)

\* Forwards from one character to another.
LEMMA AheadIs ==
  ASSUME NEW s \in Seq(Octet), NEW j \in 0..Len(Starts(s)), NEW k \in 0..Len(Starts(s)) - j
  PROVE  Ahead(s, Place(s, j), k) = Place(s, j + k)
<1> DEFINE i == Place(s, j)
           n == Len(Starts(s))
           f == CHOOSE g : g = [m \in 0..k |-> IF m = 0 THEN i
                                               ELSE g[m - 1] + ob_utf8_decode(s, g[m - 1]).width]
           Wrong == {m \in 0..k : f[m] # Place(s, j + m)}
<1>1. n \in Nat
  BY PlaceIs
<1> HIDE DEF n
<1>2. \A m \in 1..k : Place(s, j + m) = Place(s, j + (m - 1)) + Width(s, Place(s, j + (m - 1)))
  <2> SUFFICES ASSUME NEW m \in 1..k
               PROVE  Place(s, j + m) = Place(s, j + (m - 1)) + Width(s, Place(s, j + (m - 1)))
    OBVIOUS
  <2>1. j + (m - 1) \in 0..Len(Starts(s)) - 1 /\ (j + (m - 1)) + 1 = j + m
    BY <1>1 DEF n
  <2> QED
    BY <2>1, PlaceIs
<1>3. f = [m \in 0..k |-> IF m = 0 THEN i ELSE f[m - 1] + ob_utf8_decode(s, f[m - 1]).width]
  <2> DEFINE g == [m \in 0..k |-> Place(s, j + m)]
  <2>1. \A m \in 0..k :
          g[m] = IF m = 0 THEN i ELSE g[m - 1] + ob_utf8_decode(s, g[m - 1]).width
    <3> SUFFICES ASSUME NEW m \in 0..k
                 PROVE  g[m] = IF m = 0 THEN i
                               ELSE g[m - 1] + ob_utf8_decode(s, g[m - 1]).width
      OBVIOUS
    <3>1. CASE m = 0
      <4>1. j + 0 = j
        OBVIOUS
      <4> QED
        BY <3>1, <4>1
    <3>2. CASE m # 0
      <4>1. m \in 1..k /\ m - 1 \in 0..k
        BY <3>2
      <4>2. g[m - 1] = Place(s, j + (m - 1)) /\ g[m] = Place(s, j + m)
        BY <4>1
      <4> QED
        BY <1>2, <3>2, <4>1, <4>2 DEF Width
    <3> QED
      BY <3>1, <3>2
  <2>2. \E h : h = [m \in 0..k |-> IF m = 0 THEN i ELSE h[m - 1] + ob_utf8_decode(s, h[m - 1]).width]
    <3>1. g = [m \in 0..k |-> g[m]]
      OBVIOUS
    <3> HIDE DEF g
    <3>2. g = [m \in 0..k |-> IF m = 0 THEN i ELSE g[m - 1] + ob_utf8_decode(s, g[m - 1]).width]
      BY <2>1, <3>1
    <3> QED
      BY <3>2
  <2> QED
    BY <2>2
<1>4. Ahead(s, i, k) = f[k]
  BY DEF Ahead
<1> HIDE DEF f
<1>5. \A m \in 0..k : f[m] = IF m = 0 THEN i ELSE f[m - 1] + ob_utf8_decode(s, f[m - 1]).width
  BY <1>3, Zenon
<1>6. Wrong = {}
  <2> SUFFICES ASSUME Wrong # {} PROVE FALSE
    OBVIOUS
  <2>1. Wrong \in SUBSET Nat
    OBVIOUS
  <2>2. PICK m \in Wrong : \A l \in Wrong : m <= l
    BY <2>1, Least
  <2>3. m # 0
    <3>1. j + 0 = j /\ 0 \in 0..k
      OBVIOUS
    <3> QED
      BY <1>5, <2>2, <3>1
  <2>4. m - 1 \in 0..k /\ m \in 1..k /\ m \in 0..k /\ m - 1 \notin Wrong
    BY <2>2, <2>3
  <2>5. f[m - 1] = Place(s, j + (m - 1))
    BY <2>4
  <2>6. f[m] = f[m - 1] + Width(s, f[m - 1])
    BY <1>5, <2>3, <2>4 DEF Width
  <2>7. f[m] = Place(s, j + m)
    BY <1>2, <2>4, <2>5, <2>6
  <2> QED
    BY <2>2, <2>7
<1> QED
  BY <1>4, <1>6

\* In a well-formed string, the byte a character begins with is the last before the
\* next character that does not continue one.
LEMMA BeforeIs ==
  ASSUME NEW s \in Seq(Octet), WellFormed(s), NEW j \in 1..Len(Starts(s))
  PROVE  Max({b \in 0..Place(s, j) - 1 : b = 0 \/ ~IsContinuation(s[b + 1])}) = Place(s, j - 1)
<1> DEFINE p == Place(s, j - 1)
           S == {b \in 0..Place(s, j) - 1 : b = 0 \/ ~IsContinuation(s[b + 1])}
           d == ob_utf8_decode(s, p)
<1>1. j - 1 \in 0..Len(Starts(s)) - 1 /\ (j - 1) + 1 = j /\ Len(Starts(s)) \in Nat
  BY PlaceIs
<1>2. p = Starts(s)[j] /\ p \in 0..Len(s) - 1 /\ Place(s, j) = p + d.width
  BY <1>1, PlaceIs DEF Width
<1>3. d.width > 1 \/ d.cp < 128
  <2>1. Starts(s) \in Seq(0..Len(s) - 1)
    BY PlaceIs
  <2>2. DOMAIN Starts(s) = 1..Len(Starts(s))
    BY <2>1, LenProperties
  <2>3. p \in Range(Starts(s))
    BY <1>2, <2>2 DEF Range
  <2> QED
    BY <2>3 DEF WellFormed
<1>4. /\ d.width \in 1..4
      /\ \A k \in 1..d.width - 1 : IsContinuation(s[p + 1 + k])
      /\ ~IsContinuation(s[p + 1])
  BY <1>2, <1>3, DecodeIs
<1> HIDE DEF p, d
<1>5. p \in S
  BY <1>2, <1>4
<1>6. \A b \in S : b <= p
  <2> SUFFICES ASSUME NEW b \in S, ~(b <= p) PROVE FALSE
    OBVIOUS
  <2> DEFINE w == d.width
  <2>0. w \in 1..4 /\ p \in Nat /\ b \in 0..p + w - 1
    BY <1>2, <1>4
  <2> HIDE DEF w
  <2>1. b - p \in 1..w - 1 /\ p + 1 + (b - p) = b + 1 /\ b # 0
    BY <2>0
  <2>2. IsContinuation(s[b + 1])
    BY <1>4, <2>1 DEF w
  <2> QED
    BY <2>1, <2>2
<1>7. \A x \in S : (\A y \in S : x >= y) => x = p
  BY <1>2, <1>5, <1>6
<1>8. \A y \in S : p >= y
  BY <1>2, <1>6
<1>9. Max(S) = p
  <2> HIDE DEF S
  <2> QED
    BY <1>5, <1>7, <1>8 DEF Max
<1> QED
  BY <1>9 DEF p

\* Backwards from one character to another, in a well-formed string.
LEMMA BehindIs ==
  ASSUME NEW s \in Seq(Octet), WellFormed(s), NEW j \in 0..Len(Starts(s)), NEW k \in 0..j
  PROVE  Behind(s, Place(s, j), k) = Place(s, j - k)
<1> DEFINE i == Place(s, j)
           B(e) == Max({b \in 0..e - 1 : b = 0 \/ ~IsContinuation(s[b + 1])})
           f == CHOOSE g : g = [m \in 0..k |-> IF m = 0 THEN i ELSE B(g[m - 1])]
           Wrong == {m \in 0..k : f[m] # Place(s, j - m)}
<1>1. \A m \in 1..k : Place(s, j - m) = B(Place(s, j - (m - 1)))
  <2> SUFFICES ASSUME NEW m \in 1..k
               PROVE  Place(s, j - m) = B(Place(s, j - (m - 1)))
    OBVIOUS
  <2>1. Len(Starts(s)) \in Nat
    BY PlaceIs
  <2>2. j - (m - 1) \in 1..Len(Starts(s)) /\ (j - (m - 1)) - 1 = j - m
    BY <2>1
  <2> QED
    BY <2>2, BeforeIs
<1>2. Behind(s, i, k) = f[k]
  BY DEF Behind
<1> HIDE DEF B
<1>3. f = [m \in 0..k |-> IF m = 0 THEN i ELSE B(f[m - 1])]
  <2> DEFINE g == [m \in 0..k |-> Place(s, j - m)]
  <2>1. \A m \in 0..k : g[m] = IF m = 0 THEN i ELSE B(g[m - 1])
    <3> SUFFICES ASSUME NEW m \in 0..k PROVE g[m] = IF m = 0 THEN i ELSE B(g[m - 1])
      OBVIOUS
    <3>1. CASE m = 0
      <4>1. j - 0 = j
        OBVIOUS
      <4> QED
        BY <3>1, <4>1
    <3>2. CASE m # 0
      <4>1. m \in 1..k /\ m - 1 \in 0..k
        BY <3>2
      <4>2. g[m - 1] = Place(s, j - (m - 1)) /\ g[m] = Place(s, j - m)
        BY <4>1
      <4> QED
        BY <1>1, <3>2, <4>1, <4>2
    <3> QED
      BY <3>1, <3>2
  <2>2. \E h : h = [m \in 0..k |-> IF m = 0 THEN i ELSE B(h[m - 1])]
    <3>1. g = [m \in 0..k |-> g[m]]
      OBVIOUS
    <3> HIDE DEF g
    <3>2. g = [m \in 0..k |-> IF m = 0 THEN i ELSE B(g[m - 1])]
      BY <2>1, <3>1
    <3> QED
      BY <3>2
  <2> QED
    BY <2>2
<1> HIDE DEF f
<1>4. \A m \in 0..k : f[m] = IF m = 0 THEN i ELSE B(f[m - 1])
  BY <1>3, Zenon
<1>5. Wrong = {}
  <2> SUFFICES ASSUME Wrong # {} PROVE FALSE
    OBVIOUS
  <2>1. Wrong \in SUBSET Nat
    OBVIOUS
  <2>2. PICK m \in Wrong : \A l \in Wrong : m <= l
    BY <2>1, Least
  <2>3. m # 0
    <3>1. j - 0 = j /\ 0 \in 0..k
      OBVIOUS
    <3> QED
      BY <1>4, <2>2, <3>1
  <2>4. m - 1 \in 0..k /\ m \in 1..k /\ m \in 0..k /\ m - 1 \notin Wrong
    BY <2>2, <2>3
  <2>5. f[m - 1] = Place(s, j - (m - 1))
    BY <2>4
  <2>6. f[m] = B(f[m - 1])
    BY <1>4, <2>3, <2>4
  <2>7. f[m] = Place(s, j - m)
    BY <1>1, <2>4, <2>5, <2>6
  <2> QED
    BY <2>2, <2>7
<1> QED
  BY <1>2, <1>5

-----------------------------------------------------------------------------
(* The cursor *)

\* What a header says of the string it belongs to.
Tells(s, h) ==
  /\ h \in [cps : Nat \cup {Unset}, cur_cp : Nat, cur_byte : Nat, wf : BOOLEAN]
  /\ h.cur_cp <= Len(Starts(s))
  /\ h.cur_byte = Place(s, h.cur_cp)
  /\ h.cps # Unset => h.cps = Len(Starts(s)) /\ h.wf = WellFormed(s)

LEMMA FreshTells ==
  ASSUME NEW s \in Seq(Octet)
  PROVE  Tells(s, Fresh)
<1>1. Place(s, 0) = 0 /\ Len(Starts(s)) \in Nat
  BY PlaceIs
<1> QED
  BY <1>1 DEF Tells, Fresh, Unset

LEMMA CountedTells ==
  ASSUME bytes \in Seq(Octet), Tells(bytes, hdr)
  PROVE  Tells(bytes, Counted) /\ Counted.cps # Unset
<1>1. Len(Starts(bytes)) \in Nat
  BY PlaceIs
<1>2. WellFormed(bytes) \in BOOLEAN
  BY DEF WellFormed
<1>3. CASE hdr.cps # Unset
  BY <1>3 DEF Counted
<1>4. CASE hdr.cps = Unset
  <2> DEFINE h == [hdr EXCEPT !.cps = Len(Starts(bytes)), !.wf = WellFormed(bytes)]
  <2>1. Counted = h
    BY <1>4 DEF Counted
  <2>2. h \in [cps : Nat \cup {Unset}, cur_cp : Nat, cur_byte : Nat, wf : BOOLEAN]
    BY <1>1, <1>2 DEF Tells
  <2>3. /\ h.cps = Len(Starts(bytes)) /\ h.wf = WellFormed(bytes)
        /\ h.cur_cp = hdr.cur_cp /\ h.cur_byte = hdr.cur_byte
    BY DEF Tells
  <2> HIDE DEF h
  <2>4. h.cps # Unset
    BY <1>1, <2>3 DEF Unset
  <2> QED
    BY <2>1, <2>2, <2>3, <2>4 DEF Tells
<1> QED
  BY <1>3, <1>4

\* Where a walk starts is the place of a character, and one that goes backwards is in
\* a well-formed string.
LEMMA AnchorIs ==
  ASSUME bytes \in Seq(Octet), NEW h, Tells(bytes, h), h.cps # Unset,
         NEW k \in 0..Len(Starts(bytes))
  PROVE  LET a == Anchor(h, k)
         IN  /\ a[1] \in 0..Len(Starts(bytes)) /\ a[2] = Place(bytes, a[1])
             /\ a[1] > k => WellFormed(bytes)
<1> DEFINE n == Len(Starts(bytes))
           a == Anchor(h, k)
<1>1. n \in Nat /\ Place(bytes, 0) = 0 /\ Place(bytes, n) = Len(bytes)
  BY PlaceIs
<1>2. /\ h.cps = n /\ h.wf = WellFormed(bytes) /\ h.cur_cp \in 0..n
      /\ h.cur_byte = Place(bytes, h.cur_cp)
  BY DEF Tells
<1>3. \/ a = <<0, 0>>
      \/ a = <<h.cur_cp, h.cur_byte>> /\ (h.cur_cp <= k \/ h.wf)
      \/ a = <<h.cps, Len(bytes)>> /\ h.wf
  BY DEF Anchor
<1> HIDE DEF a, n
<1>4. CASE a = <<0, 0>>
  BY <1>1, <1>4 DEF a, n
<1>5. CASE a = <<h.cur_cp, h.cur_byte>> /\ (h.cur_cp <= k \/ h.wf)
  BY <1>1, <1>2, <1>5 DEF a, n
<1>6. CASE a = <<h.cps, Len(bytes)>> /\ h.wf
  BY <1>1, <1>2, <1>6 DEF a, n
<1> QED
  BY <1>3, <1>4, <1>5, <1>6 DEF a

(***************************************************************************)
(* ob_cp_to_byte finds the place of a character from wherever it starts,   *)
(* and leaves a header that tells the truth.                               *)
(***************************************************************************)
LEMMA FindsPlace ==
  ASSUME bytes \in Seq(Octet), NEW h, Tells(bytes, h), h.cps # Unset,
         NEW k \in 0..Len(Starts(bytes))
  PROVE  LET p == ob_cp_to_byte(h, k)
         IN  p.at = Place(bytes, k) /\ Tells(bytes, p.hdr) /\ p.hdr.cps # Unset
<1> DEFINE n == Len(Starts(bytes))
           a == Anchor(h, k)
           at == IF a[1] <= k THEN Ahead(bytes, a[2], k - a[1])
                 ELSE Behind(bytes, a[2], a[1] - k)
           g == [h EXCEPT !.cur_cp = k, !.cur_byte = at]
           p == ob_cp_to_byte(h, k)
<1>1. /\ n \in Nat /\ Len(bytes) \in Nat /\ Place(bytes, n) = Len(bytes)
      /\ Place(bytes, k) \in 0..Len(bytes)
  BY PlaceIs
<1>2. h.cps = n
  BY DEF Tells
<1>3. CASE k >= h.cps
  <2>1. p = [at |-> Len(bytes), hdr |-> h] /\ k = n
    BY <1>1, <1>2, <1>3 DEF ob_cp_to_byte
  <2> QED
    BY <1>1, <2>1
<1>4. CASE ~(k >= h.cps) /\ h.cps = Len(bytes)
  <2>1. p = [at |-> k, hdr |-> h]
    BY <1>4 DEF ob_cp_to_byte
  <2>2. k <= Place(bytes, k) /\ n - k <= Len(bytes) - Place(bytes, k)
    BY PlacesGrow
  <2>3. Place(bytes, k) = k
    BY <1>1, <1>2, <1>4, <2>2
  <2> QED
    BY <2>1, <2>3
<1>5. CASE ~(k >= h.cps) /\ h.cps # Len(bytes)
  <2>1. p = [at |-> at, hdr |-> g]
    BY <1>5 DEF ob_cp_to_byte
  <2>2. a[1] \in 0..n /\ a[2] = Place(bytes, a[1]) /\ (a[1] > k => WellFormed(bytes))
    BY AnchorIs
  <2> HIDE DEF a
  <2>3. at = Place(bytes, k)
    <3>1. CASE a[1] <= k
      <4>1. k - a[1] \in 0..n - a[1] /\ a[1] + (k - a[1]) = k
        BY <1>1, <2>2, <3>1
      <4>2. Ahead(bytes, Place(bytes, a[1]), k - a[1]) = Place(bytes, a[1] + (k - a[1]))
        BY <2>2, <4>1, AheadIs
      <4> QED
        BY <2>2, <3>1, <4>1, <4>2
    <3>2. CASE ~(a[1] <= k)
      <4>1. a[1] - k \in 0..a[1] /\ a[1] - (a[1] - k) = k /\ a[1] > k
        BY <1>1, <2>2, <3>2
      <4>2. Behind(bytes, Place(bytes, a[1]), a[1] - k) = Place(bytes, a[1] - (a[1] - k))
        BY <2>2, <4>1, BehindIs
      <4> QED
        BY <2>2, <3>2, <4>1, <4>2
    <3> QED
      BY <3>1, <3>2
  <2> HIDE DEF at
  <2>4. /\ g \in [cps : Nat \cup {Unset}, cur_cp : Nat, cur_byte : Nat, wf : BOOLEAN]
        /\ g.cps = h.cps /\ g.wf = h.wf /\ g.cur_cp = k /\ g.cur_byte = at
    <3>1. h \in [cps : Nat \cup {Unset}, cur_cp : Nat, cur_byte : Nat, wf : BOOLEAN]
      BY DEF Tells
    <3>2. at \in Nat /\ k \in Nat
      BY <1>1, <2>3
    <3> QED
      BY <3>1, <3>2
  <2> HIDE DEF g
  <2>5. Tells(bytes, g)
    BY <1>1, <2>3, <2>4 DEF Tells
  <2> QED
    BY <2>1, <2>3, <2>4, <2>5
<1> QED
  BY <1>3, <1>4, <1>5

-----------------------------------------------------------------------------
(* Strings made of strings *)

\* The pieces of a string are strings.
LEMMA PieceIs ==
  ASSUME NEW s \in Seq(Octet), NEW i \in 0..Len(s), NEW e \in 0..Len(s)
  PROVE  SubSeq(s, i + 1, e) \in Seq(Octet)
<1>1. Len(s) \in Nat
  BY LenProperties
<1>2. \A j \in i + 1..e : s[j] \in Octet
  <2>1. \A j \in i + 1..e : j \in 1..Len(s)
    BY <1>1
  <2> QED
    BY <2>1, ElementOfSeq
<1>3. i + 1 \in Int /\ e \in Int
  BY <1>1
<1> QED
  BY <1>2, <1>3, SubSeqProperties

\* What strings are joined to is a string.
LEMMA FlatIs ==
  ASSUME NEW S, NEW t \in Seq(Seq(S))
  PROVE  FlattenSeq(t) \in Seq(S)
<1> DEFINE n == Len(t)
           Made(m, g) == g \in [1..m -> Seq(S)]
                         /\ \A i \in 1..m : g[i] = IF i = 1 THEN t[i] ELSE g[i - 1] \o t[i]
           Missing == {m \in 0..n : ~\E g : Made(m, g)}
           f == CHOOSE g : g = [i \in 1..Len(t) |-> IF i = 1 THEN t[i] ELSE g[i - 1] \o t[i]]
           Wrong == {i \in 1..n : f[i] \notin Seq(S)}
<1>1. n \in Nat /\ \A i \in 1..n : t[i] \in Seq(S)
  BY LenProperties, ElementOfSeq
<1>2. CASE n = 0
  <2>1. t = <<>>
    BY <1>2, EmptySeq
  <2>2. FlattenSeq(t) = t
    BY <1>2 DEF FlattenSeq
  <2> QED
    BY <2>1, <2>2, EmptySeq
<1>3. CASE n # 0
  <2>1. Made(0, [i \in 1..0 |-> <<>>])
    OBVIOUS
  <2>2. ASSUME NEW m \in 1..n, NEW g, Made(m - 1, g)
        PROVE  \E h : Made(m, h)
    <3> DEFINE new == IF m = 1 THEN t[m] ELSE g[m - 1] \o t[m]
               h == [i \in 1..m |-> IF i = m THEN new ELSE g[i]]
    <3>1. t[m] \in Seq(S)
      BY <1>1
    <3>2. new \in Seq(S)
      <4>1. CASE m = 1
        BY <3>1, <4>1
      <4>2. CASE m # 1
        <5>1. m - 1 \in 1..m - 1
          BY <1>1, <4>2
        <5>2. g[m - 1] \in Seq(S)
          BY <2>2, <5>1
        <5>3. g[m - 1] \o t[m] \in Seq(S)
          BY <3>1, <5>2, ConcatProperties
        <5> QED
          BY <4>2, <5>3
      <4> QED
        BY <4>1, <4>2
    <3> HIDE DEF new
    <3>3. \A i \in 1..m : i # m => i \in 1..m - 1
      BY <1>1
    <3>4. h \in [1..m -> Seq(S)]
      BY <2>2, <3>2, <3>3
    <3>5. ASSUME NEW i \in 1..m PROVE h[i] = IF i = 1 THEN t[i] ELSE h[i - 1] \o t[i]
      <4>1. i # 1 => i - 1 \in 1..m /\ i - 1 # m
        BY <1>1
      <4>2. i # 1 => h[i - 1] = g[i - 1]
        BY <4>1
      <4>3. CASE i = m
        BY <4>2, <4>3 DEF new
      <4>4. CASE i # m
        <5>1. h[i] = g[i] /\ i \in 1..m - 1
          BY <3>3, <4>4
        <5>2. g[i] = IF i = 1 THEN t[i] ELSE g[i - 1] \o t[i]
          BY <2>2, <5>1
        <5> QED
          BY <4>2, <5>1, <5>2
      <4> QED
        BY <4>3, <4>4
    <3> HIDE DEF h
    <3> QED
      BY <3>4, <3>5
  <2> HIDE DEF Made
  <2>3. Missing = {}
    <3> SUFFICES ASSUME Missing # {} PROVE FALSE
      OBVIOUS
    <3>1. Missing \in SUBSET Nat
      OBVIOUS
    <3>2. PICK m \in Missing : \A l \in Missing : m <= l
      BY <3>1, Least
    <3>3. m # 0
      BY <2>1, <3>2
    <3>4. m \in 1..n /\ m - 1 \in 0..n /\ m - 1 \notin Missing
      <4>1. m \in 0..n
        OBVIOUS
      <4> HIDE DEF Missing, n
      <4> QED
        BY <1>1, <3>2, <3>3, <4>1
    <3>5. \E h : Made(m, h)
      BY <2>2, <3>4
    <3> QED
      BY <3>2, <3>5
  <2>4. PICK g : Made(n, g)
    BY <1>1, <2>3
  <2>5. g = [i \in 1..Len(t) |-> IF i = 1 THEN t[i] ELSE g[i - 1] \o t[i]]
    BY <2>4 DEF Made
  <2>6. f = [i \in 1..Len(t) |-> IF i = 1 THEN t[i] ELSE f[i - 1] \o t[i]]
    <3> HIDE DEF n
    <3> QED
      BY <2>5
  <2>7. FlattenSeq(t) = f[n]
    BY <1>3 DEF FlattenSeq
  <2> HIDE DEF f
  <2>8. \A i \in 1..n : f[i] = IF i = 1 THEN t[i] ELSE f[i - 1] \o t[i]
    BY <2>6, Zenon
  <2>9. Wrong = {}
    <3> SUFFICES ASSUME Wrong # {} PROVE FALSE
      OBVIOUS
    <3>1. Wrong \in SUBSET Nat
      OBVIOUS
    <3>2. PICK m \in Wrong : \A l \in Wrong : m <= l
      BY <3>1, Least
    <3>3. m \in 1..n /\ t[m] \in Seq(S)
      BY <1>1, <3>2
    <3>4. m # 1
      BY <2>8, <3>2, <3>3
    <3>5. m - 1 \in 1..n /\ m - 1 \notin Wrong
      BY <1>1, <3>2, <3>3, <3>4
    <3>6. f[m - 1] \in Seq(S)
      BY <3>5
    <3>7. f[m] = f[m - 1] \o t[m]
      BY <2>8, <3>3, <3>4
    <3>8. f[m] \in Seq(S)
      BY <3>3, <3>6, <3>7, ConcatProperties
    <3> QED
      BY <3>2, <3>8
  <2> QED
    BY <1>1, <1>3, <2>7, <2>9
<1> QED
  BY <1>2, <1>3

\* The characters of a string are strings, in any order.
LEMMA CharactersAre ==
  ASSUME NEW s \in Seq(Octet)
  PROVE  Bytes(Reverse(Characters(s))) \in Seq(Octet)
<1> DEFINE q == Starts(s)
           n == Len(q)
           b == Append(q, Len(s))
           c == Characters(s)
<1>1. n \in Nat /\ Len(s) \in Nat /\ q \in Seq(0..Len(s) - 1)
  BY PlaceIs
<1>2. q \in Seq(0..Len(s)) /\ Len(s) \in 0..Len(s)
  <2>1. 0..Len(s) - 1 \subseteq 0..Len(s)
    BY <1>1
  <2> QED
    BY <1>1, <2>1, SeqMonotonic
<1>3. b \in Seq(0..Len(s)) /\ Len(b) = n + 1
  BY <1>2, OneMore
<1>4. \A k \in 1..n + 1 : b[k] \in 0..Len(s)
  BY <1>3, ElementOfSeq
<1>5. c = [k \in 1..Len(b) - 1 |-> SubSeq(s, b[k] + 1, b[k + 1])]
  BY DEF Characters
<1>6. Len(b) - 1 = n
  BY <1>1, <1>3
<1> HIDE DEF n, b, c
<1>7. c = [k \in 1..n |-> SubSeq(s, b[k] + 1, b[k + 1])]
  BY <1>5, <1>6
<1>8. \A k \in 1..n : SubSeq(s, b[k] + 1, b[k + 1]) \in Seq(Octet)
  <2> SUFFICES ASSUME NEW k \in 1..n PROVE SubSeq(s, b[k] + 1, b[k + 1]) \in Seq(Octet)
    OBVIOUS
  <2>1. b[k] \in 0..Len(s) /\ b[k + 1] \in 0..Len(s)
    BY <1>1, <1>4
  <2> QED
    BY <2>1, PieceIs
<1>9. c \in [1..n -> Seq(Octet)]
  BY <1>7, <1>8
<1>10. c \in Seq(Seq(Octet)) /\ Len(c) = n
  BY <1>1, <1>9
<1> DEFINE r == Reverse(c)
<1>11. r = [i \in 1..n |-> c[(n - i) + 1]]
  BY <1>10 DEF Reverse
<1>12. \A i \in 1..n : c[(n - i) + 1] \in Seq(Octet)
  <2>1. \A i \in 1..n : (n - i) + 1 \in 1..n
    BY <1>1
  <2> QED
    BY <1>9, <2>1
<1> HIDE DEF r
<1>13. r \in [1..n -> Seq(Octet)]
  BY <1>11, <1>12
<1>14. r \in Seq(Seq(Octet))
  BY <1>1, <1>13
<1> QED
  BY <1>14, FlatIs DEF Bytes, r, c

-----------------------------------------------------------------------------
(* Spelling *)

\* Six more bits.
Shift(x, y) == x * 64 + y

LEMMA Payload ==
  ASSUME NEW b \in 0..255
  PROVE  /\ b \in 128..191 => b % 64 = b - 128
         /\ b \in 192..223 => b % 32 = b - 192
         /\ b \in 224..239 => b % 16 = b - 224
         /\ b \in 240..247 => b % 8 = b - 240
OBVIOUS

\* What ob_utf8_encode writes, from the digits of a code point.
LEMMA TwoBytes ==
  ASSUME NEW x \in 0..31, NEW y \in 0..63, Shift(x, y) >= Lowest[2]
  PROVE  ob_utf8_encode(Shift(x, y)) = <<192 + x, 128 + y>>
<1> DEFINE v == Shift(x, y)
<1>0. v = x * 64 + y /\ v >= 128
  BY DEF Shift, Lowest
<1> HIDE DEF v
<1>1. v \in Nat /\ 128 <= v /\ v < 2048
  BY <1>0, SMT
<1>2. v \div 64 = x /\ v % 64 = y /\ v \div 1 = v
  BY <1>0, SMT
<1>3. ob_utf8_encode(v) = <<192 + v \div 64, 128 + ((v \div 1) % 64)>>
  BY <1>1, SMT DEF ob_utf8_encode
<1> QED
  BY <1>1, <1>2, <1>3 DEF v

Three(x, y, z) ==
  /\ x \in 0..15 /\ y \in 0..63 /\ z \in 0..63
  /\ Shift(Shift(x, y), z) >= Lowest[3]

LEMMA ThreeBytes ==
  ASSUME NEW x, NEW y, NEW z, Three(x, y, z)
  PROVE  ob_utf8_encode(Shift(Shift(x, y), z)) = <<224 + x, 128 + y, 128 + z>>
<1> DEFINE v == Shift(Shift(x, y), z)
           u == x * 64 + y
<1>0. /\ x \in 0..15 /\ y \in 0..63 /\ z \in 0..63
      /\ v = u * 64 + z /\ v >= 2048
  BY DEF Three, Shift, Lowest
<1> HIDE DEF v
<1>1. v \in Nat /\ 2048 <= v /\ v < 65536 /\ v = u * 64 + z
  BY <1>0, SMT
<1>2. u \in 0..1023 /\ u \div 64 = x /\ u % 64 = y
  BY <1>0, SMT
<1> HIDE DEF u
<1>3. v \div 64 = u /\ v % 64 = z
  BY <1>0, <1>1, <1>2, SMT
<1>4. v \div 4096 = (v \div 64) \div 64 /\ v \div 1 = v
  BY <1>1, SMT
<1>5. ob_utf8_encode(v) = <<224 + v \div 4096, 128 + ((v \div 64) % 64), 128 + ((v \div 1) % 64)>>
  BY <1>1, SMT DEF ob_utf8_encode
<1> QED
  BY <1>0, <1>1, <1>2, <1>3, <1>4, <1>5 DEF v

Four(x, y, z, r) ==
  /\ x \in 0..7 /\ y \in 0..63 /\ z \in 0..63 /\ r \in 0..63
  /\ Shift(Shift(Shift(x, y), z), r) >= Lowest[4]

LEMMA FourBytes ==
  ASSUME NEW x, NEW y, NEW z, NEW r, Four(x, y, z, r)
  PROVE  ob_utf8_encode(Shift(Shift(Shift(x, y), z), r)) = <<240 + x, 128 + y, 128 + z, 128 + r>>
<1> DEFINE v == Shift(Shift(Shift(x, y), z), r)
           u == x * 64 + y
           t == u * 64 + z
<1>0. /\ x \in 0..7 /\ y \in 0..63 /\ z \in 0..63 /\ r \in 0..63
      /\ v = t * 64 + r /\ v >= 65536
  BY SMT DEF Four, Shift, Lowest
<1> HIDE DEF v
<1>1. v \in Nat /\ v >= 65536 /\ v = t * 64 + r
  BY <1>0, SMT
<1>2. u \in Nat /\ u \div 64 = x /\ u % 64 = y
  BY <1>0, SMT
<1> HIDE DEF u
<1>3. t \in Nat /\ t \div 64 = u /\ t % 64 = z
  BY <1>0, <1>2, SMT
<1> HIDE DEF t
<1>4. v \div 64 = t /\ v % 64 = r
  BY <1>0, <1>1, <1>3, SMT
<1>5. v \div 4096 = (v \div 64) \div 64 /\ v \div 262144 = (v \div 4096) \div 64 /\ v \div 1 = v
  BY <1>1, SMT
<1>6. ob_utf8_encode(v) =
        <<240 + v \div 262144, 128 + ((v \div 4096) % 64), 128 + ((v \div 64) % 64),
          128 + ((v \div 1) % 64)>>
  BY <1>1, SMT DEF ob_utf8_encode
<1> QED
  BY <1>0, <1>1, <1>2, <1>3, <1>4, <1>5, <1>6, SMT DEF v

Read2(c, b1) == (c % 32) * 64 + (b1 % 64)
Read3(c, b1, b2) == ((c % 16) * 64 + (b1 % 64)) * 64 + (b2 % 64)
Read4(c, b1, b2, b3) == (((c % 8) * 64 + (b1 % 64)) * 64 + (b2 % 64)) * 64 + (b3 % 64)

LEMMA SpelledIs ==
  ASSUME NEW s, NEW i
  PROVE  /\ Spelled(s, i, 2) = Read2(s[i + 1], s[i + 1 + 1])
         /\ Spelled(s, i, 3) = Read3(s[i + 1], s[i + 1 + 1], s[i + 1 + 2])
         /\ Spelled(s, i, 4) = Read4(s[i + 1], s[i + 1 + 1], s[i + 1 + 2], s[i + 1 + 3])
BY SMT DEF Spelled, Read2, Read3, Read4


\* A sequence by its elements.
LEMMA PieceOf ==
  ASSUME NEW s \in Seq(Octet), NEW i \in Nat, NEW w \in 2..4, i + w <= Len(s)
  PROVE  /\ w = 2 => SubSeq(s, i + 1, i + w) = <<s[i + 1], s[i + 1 + 1]>>
         /\ w = 3 => SubSeq(s, i + 1, i + w) = <<s[i + 1], s[i + 1 + 1], s[i + 1 + 2]>>
         /\ w = 4 => SubSeq(s, i + 1, i + w) = <<s[i + 1], s[i + 1 + 1], s[i + 1 + 2], s[i + 1 + 3]>>
<1> DEFINE r == SubSeq(s, i + 1, i + w)
<1>1. Len(s) \in Nat
  BY LenProperties
<1>2. \A j \in i + 1..i + w : s[j] \in Octet
  <2>1. \A j \in i + 1..i + w : j \in 1..Len(s)
    BY <1>1
  <2> QED
    BY <2>1, ElementOfSeq
<1>3. i + 1 \in Int /\ i + w \in Int /\ i + 1 <= i + w /\ (i + w) - (i + 1) + 1 = w
  OBVIOUS
<1>4. r \in Seq(Octet) /\ Len(r) = w /\ \A j \in 1..w : r[j] = s[(i + 1) + j - 1]
  BY <1>2, <1>3, SubSeqProperties
<1> HIDE DEF r
<1>5. /\ (i + 1) + 1 - 1 = i + 1 /\ (i + 1) + 2 - 1 = i + 1 + 1
      /\ (i + 1) + 3 - 1 = i + 1 + 2 /\ (i + 1) + 4 - 1 = i + 1 + 3
  OBVIOUS
<1>6. r[1] = s[i + 1] /\ r[2] = s[i + 1 + 1]
      /\ (w >= 3 => r[3] = s[i + 1 + 2]) /\ (w >= 4 => r[4] = s[i + 1 + 3])
  BY <1>4, <1>5
<1>7. \A j \in 1..w : r[j] \in Octet
  BY <1>4, ElementOfSeq
<1>8. CASE w = 2
  <2>1. <<r[1], r[2]>> \in Seq(Octet)
    BY <1>7, <1>8
  <2>2. r = <<r[1], r[2]>>
    BY <1>4, <1>8, <2>1, SeqEqual
  <2> QED
    BY <1>6, <1>8, <2>2 DEF r
<1>9. CASE w = 3
  <2>1. <<r[1], r[2], r[3]>> \in Seq(Octet)
    BY <1>7, <1>9
  <2>2. r = <<r[1], r[2], r[3]>>
    BY <1>4, <1>9, <2>1, SeqEqual
  <2> QED
    BY <1>6, <1>9, <2>2 DEF r
<1>10. CASE w = 4
  <2>1. <<r[1], r[2], r[3], r[4]>> \in Seq(Octet)
    BY <1>7, <1>10
  <2>2. r = <<r[1], r[2], r[3], r[4]>>
    BY <1>4, <1>10, <2>1, SeqEqual
  <2> QED
    BY <1>6, <1>10, <2>2 DEF r
<1> QED
  BY <1>8, <1>9, <1>10

\* ... and from the bytes themselves.
LEMMA TwoRead ==
  ASSUME NEW c \in 192..223, NEW b1 \in 128..191,
         Read2(c, b1) >= Lowest[2]
  PROVE  ob_utf8_encode(Read2(c, b1)) = <<c, b1>>
<1> DEFINE x == c - 192
           y == b1 - 128
<1>1. c % 32 = x /\ b1 % 64 = y
  BY SMT
<1>2. /\ x \in 0..31 /\ y \in 0..63
      /\ 192 + x = c /\ 128 + y = b1
  BY SMT
<1> HIDE DEF x, y
<1>3. Read2(c, b1) = Shift(x, y)
  BY <1>1, SMT DEF Read2, Shift
<1>4. Shift(x, y) >= Lowest[2]
  BY <1>3
<1>5. ob_utf8_encode(Shift(x, y)) = <<192 + x, 128 + y>>
  BY <1>2, <1>4, TwoBytes
<1> QED
  BY <1>2, <1>3, <1>5

LEMMA ThreeRead ==
  ASSUME NEW c \in 224..239, NEW b1 \in 128..191, NEW b2 \in 128..191,
         Read3(c, b1, b2) >= Lowest[3]
  PROVE  ob_utf8_encode(Read3(c, b1, b2)) = <<c, b1, b2>>
<1> DEFINE x == c - 224
           y == b1 - 128
           z == b2 - 128
<1>1. c % 16 = x /\ b1 % 64 = y /\ b2 % 64 = z
  BY SMT
<1>2. /\ x \in 0..15 /\ y \in 0..63 /\ z \in 0..63
      /\ 224 + x = c /\ 128 + y = b1 /\ 128 + z = b2
  BY SMT
<1> HIDE DEF x, y, z
<1>3. Read3(c, b1, b2) = Shift(Shift(x, y), z)
  BY <1>1, SMT DEF Read3, Shift
<1>4. Three(x, y, z)
  BY <1>2, <1>3, SMT DEF Three
<1>5. ob_utf8_encode(Shift(Shift(x, y), z)) = <<224 + x, 128 + y, 128 + z>>
  BY <1>4, ThreeBytes, SMT
<1> QED
  BY <1>2, <1>3, <1>5

LEMMA FourRead ==
  ASSUME NEW c \in 240..247, NEW b1 \in 128..191, NEW b2 \in 128..191, NEW b3 \in 128..191,
         Read4(c, b1, b2, b3) >= Lowest[4]
  PROVE  ob_utf8_encode(Read4(c, b1, b2, b3)) = <<c, b1, b2, b3>>
<1> DEFINE x == c - 240
           y == b1 - 128
           z == b2 - 128
           r == b3 - 128
<1>1. c % 8 = x /\ b1 % 64 = y /\ b2 % 64 = z /\ b3 % 64 = r
  BY SMT
<1>2. x \in 0..7 /\ y \in 0..63 /\ z \in 0..63 /\ r \in 0..63
  BY SMT
<1>6. /\ 240 + x = c /\ 128 + y = b1 /\ 128 + z = b2 /\ 128 + r = b3
  BY SMT
<1> HIDE DEF x, y, z, r
<1>3. Read4(c, b1, b2, b3) = Shift(Shift(Shift(x, y), z), r)
  BY <1>1, SMT DEF Read4, Shift
<1>4. Four(x, y, z, r)
  BY <1>2, <1>3, SMT DEF Four
<1>5. ob_utf8_encode(Shift(Shift(Shift(x, y), z), r)) = <<240 + x, 128 + y, 128 + z, 128 + r>>
  BY <1>4, FourBytes, SMT
<1> QED
  BY <1>3, <1>5, <1>6

(***************************************************************************)
(* What decodes to more than a byte is what its code point is encoded to.  *)
(***************************************************************************)
LEMMA DecodedIsEncoded ==
  ASSUME NEW s \in Seq(Octet), NEW i \in 0..Len(s) - 1, ob_utf8_decode(s, i).width > 1
  PROVE  LET d == ob_utf8_decode(s, i)
         IN  SubSeq(s, i + 1, i + d.width) = ob_utf8_encode(d.cp)
<1> DEFINE c == s[i + 1]
           b1 == s[i + 1 + 1]
           b2 == s[i + 1 + 2]
           b3 == s[i + 1 + 3]
           w == Announced(c)
           d == ob_utf8_decode(s, i)
           v == Spelled(s, i, w)
<1>1. /\ d = [cp |-> v, width |-> w] /\ w > 1 /\ i + w <= Len(s) /\ Proper(v, w)
      /\ \A k \in 1..w - 1 : IsContinuation(s[i + 1 + k])
  BY DEF ob_utf8_decode
<1>2. Len(s) \in Nat /\ i \in Nat /\ i + 1 \in 1..Len(s)
  BY LenProperties
<1>3. c \in Octet
  BY <1>2, ElementOfSeq
<1> HIDE DEF c
<1>4. /\ w \in 0..4
      /\ w = 2 <=> c \in 192..223
      /\ w = 3 <=> c \in 224..239
      /\ w = 4 <=> c \in 240..247
  BY <1>3, AnnouncedIs
<1> HIDE DEF w
<1>5. w \in 2..4
  BY <1>1, <1>4
<1>6. ASSUME NEW k \in 1..w - 1
      PROVE  s[i + 1 + k] \in 128..191
  <2>1. i + 1 + k \in 1..Len(s)
    BY <1>1, <1>2, <1>5
  <2>2. s[i + 1 + k] \in Octet
    BY <2>1, ElementOfSeq
  <2> QED
    BY <1>1, <2>2, AnnouncedIs
<1>7. SubSeq(s, i + 1, i + w) = ob_utf8_encode(v)
  <2> HIDE DEF b1, b2, b3
  <2>1. CASE w = 2
    <3>1. b1 \in 128..191 /\ c \in 192..223
      BY <1>4, <1>6, <2>1 DEF b1
    <3>2. SubSeq(s, i + 1, i + w) = <<c, b1>>
      BY <1>1, <1>2, <2>1, PieceOf DEF b1, c
    <3>3. v = Read2(c, b1)
      BY <2>1, SpelledIs DEF b1, c
    <3>4. v >= Lowest[2]
      <4> HIDE DEF v
      <4> QED
        BY <1>1, <2>1 DEF Proper
    <3> HIDE DEF v
    <3> QED
      BY <3>1, <3>2, <3>3, <3>4, TwoRead, Zenon
  <2>2. CASE w = 3
    <3>1. b1 \in 128..191 /\ b2 \in 128..191 /\ c \in 224..239
      BY <1>4, <1>6, <2>2 DEF b1, b2
    <3>2. SubSeq(s, i + 1, i + w) = <<c, b1, b2>>
      BY <1>1, <1>2, <2>2, PieceOf DEF b1, b2, c
    <3>3. v = Read3(c, b1, b2)
      BY <2>2, SpelledIs DEF b1, b2, c
    <3>4. v >= Lowest[3]
      <4> HIDE DEF v
      <4> QED
        BY <1>1, <2>2 DEF Proper
    <3> HIDE DEF v
    <3> QED
      BY <3>1, <3>2, <3>3, <3>4, ThreeRead, Zenon
  <2>3. CASE w = 4
    <3>1. b1 \in 128..191 /\ b2 \in 128..191 /\ b3 \in 128..191 /\ c \in 240..247
      BY <1>4, <1>6, <2>3 DEF b1, b2, b3
    <3>2. SubSeq(s, i + 1, i + w) = <<c, b1, b2, b3>>
      BY <1>1, <1>2, <2>3, PieceOf DEF b1, b2, b3, c
    <3>3. v = Read4(c, b1, b2, b3)
      BY <2>3, SpelledIs DEF b1, b2, b3, c
    <3>4. v >= Lowest[4]
      <4> HIDE DEF v
      <4> QED
        BY <1>1, <2>3 DEF Proper
    <3> HIDE DEF v
    <3> QED
      BY <3>1, <3>2, <3>3, <3>4, FourRead, Zenon
  <2> QED
    BY <1>5, <2>1, <2>2, <2>3
<1> QED
  BY <1>1, <1>7

\* Reading what was written.
LEMMA TwoWritten ==
  ASSUME NEW v \in Nat, 128 <= v, v < 2048
  PROVE  LET e == ob_utf8_encode(v)
         IN  /\ Len(e) = 2 /\ e[1] \in 192..223 /\ \A k \in 2..2 : e[k] \in 128..191
             /\ Read2(e[1], e[2]) = v
<1> DEFINE c == 192 + v \div 64
           b1 == 128 + ((v \div 1) % 64)
           e == ob_utf8_encode(v)
<1>1. e = <<c, b1>>
  BY SMT DEF ob_utf8_encode
<1>2. /\ c \in 192..223 /\ b1 \in 128..191
      /\ c % 32 = v \div 64 /\ b1 % 64 = v % 64
  BY SMT
<1>3. v = (v \div 64) * 64 + (v % 64)
  BY SMT
<1> HIDE DEF c, b1, e
<1>4. Read2(c, b1) = v
  BY <1>2, <1>3, SMT DEF Read2
<1>5. Len(e) = 2 /\ e[1] = c /\ e[2] = b1
  BY <1>1, SMT
<1>6. \A k \in 2..2 : k = 2
  BY SMT
<1> QED
  BY <1>2, <1>4, <1>5, <1>6, SMT DEF e

LEMMA ThreeWritten ==
  ASSUME NEW v \in Nat, 2048 <= v, v < 65536
  PROVE  LET e == ob_utf8_encode(v)
         IN  /\ Len(e) = 3 /\ e[1] \in 224..239 /\ \A k \in 2..3 : e[k] \in 128..191
             /\ Read3(e[1], e[2], e[3]) = v
<1> DEFINE c == 224 + v \div 4096
           b1 == 128 + ((v \div 64) % 64)
           b2 == 128 + ((v \div 1) % 64)
           e == ob_utf8_encode(v)
<1>1. e = <<c, b1, b2>>
  BY SMT DEF ob_utf8_encode
<1>2. /\ c \in 224..239 /\ b1 \in 128..191 /\ b2 \in 128..191
      /\ c % 16 = v \div 4096 /\ b1 % 64 = (v \div 64) % 64 /\ b2 % 64 = v % 64
  BY SMT
<1>3. v = ((v \div 4096) * 64 + ((v \div 64) % 64)) * 64 + (v % 64)
  BY SMT
<1> HIDE DEF c, b1, b2, e
<1>4. Read3(c, b1, b2) = v
  BY <1>2, <1>3, SMT DEF Read3
<1>5. Len(e) = 3 /\ e[1] = c /\ e[2] = b1 /\ e[3] = b2
  BY <1>1, SMT
<1>6. \A k \in 2..3 : k = 2 \/ k = 3
  BY SMT
<1> QED
  BY <1>2, <1>4, <1>5, <1>6, SMT DEF e

LEMMA FourWritten ==
  ASSUME NEW v \in Nat, 65536 <= v, v <= 1114111
  PROVE  LET e == ob_utf8_encode(v)
         IN  /\ Len(e) = 4 /\ e[1] \in 240..247 /\ \A k \in 2..4 : e[k] \in 128..191
             /\ Read4(e[1], e[2], e[3], e[4]) = v
<1> DEFINE c == 240 + v \div 262144
           b1 == 128 + ((v \div 4096) % 64)
           b2 == 128 + ((v \div 64) % 64)
           b3 == 128 + ((v \div 1) % 64)
           e == ob_utf8_encode(v)
<1>1. e = <<c, b1, b2, b3>>
  BY SMT DEF ob_utf8_encode
<1>2. /\ c \in 240..247 /\ b1 \in 128..191 /\ b2 \in 128..191 /\ b3 \in 128..191
      /\ c % 8 = v \div 262144 /\ b1 % 64 = (v \div 4096) % 64 /\ b2 % 64 = (v \div 64) % 64 /\ b3 % 64 = v % 64
  BY SMT
<1>3. v = (((v \div 262144) * 64 + ((v \div 4096) % 64)) * 64 + ((v \div 64) % 64)) * 64 + (v % 64)
  BY SMT
<1> HIDE DEF c, b1, b2, b3, e
<1>4. Read4(c, b1, b2, b3) = v
  BY <1>2, <1>3, SMT DEF Read4
<1>5. Len(e) = 4 /\ e[1] = c /\ e[2] = b1 /\ e[3] = b2 /\ e[4] = b3
  BY <1>1, SMT
<1>6. \A k \in 2..4 : k = 2 \/ k = 3 \/ k = 4
  BY SMT
<1> QED
  BY <1>2, <1>4, <1>5, <1>6, SMT DEF e

\* A string that is one character of w bytes.
LEMMA DecodesWhole ==
  ASSUME NEW s, NEW w \in 2..4, Len(s) = w, Announced(s[0 + 1]) = w,
         \A k \in 1..w - 1 : IsContinuation(s[0 + 1 + k]), Proper(Spelled(s, 0, w), w)
  PROVE  ob_utf8_decode(s, 0) = [cp |-> Spelled(s, 0, w), width |-> w]
<1>1. w > 1 /\ 0 + w <= Len(s)
  OBVIOUS
<1> QED
  BY <1>1, Zenon DEF ob_utf8_decode

(***************************************************************************)
(* chr() of a code point is one character, of that code point.             *)
(***************************************************************************)
LEMMA EncodedDecodes ==
  ASSUME NEW v \in Nat, Proper(v, 1)
  PROVE  ob_utf8_decode(ob_utf8_encode(v), 0) = [cp |-> v, width |-> Len(ob_utf8_encode(v))]
<1> DEFINE e == ob_utf8_encode(v)
<1>1. v \in Nat /\ v <= 1114111
  BY SMT DEF Proper
<1>2. CASE v < 128
  <2>1. e = <<v>>
    BY <1>1, <1>2, SMT DEF ob_utf8_encode
  <2>2. v \in Octet
    BY <1>1, <1>2, SMT DEF Octet
  <2>3. Announced(v) = 1
    BY <1>2, <2>2, AnnouncedIs, SMT
  <2>4. e[0 + 1] = v /\ Len(e) = 1
    BY <2>1, SMT
  <2>5. ~(Announced(e[0 + 1]) > 1)
    BY <2>3, <2>4, SMT
  <2> HIDE DEF e
  <2>6. ob_utf8_decode(e, 0) = [cp |-> e[0 + 1], width |-> 1]
    BY <2>5, SMT DEF ob_utf8_decode
  <2> QED
    BY <2>4, <2>6, SMT DEF e
<1>3. CASE 128 <= v /\ v < 2048
  <2>1. /\ Len(e) = 2 /\ e[1] \in 192..223 /\ \A k \in 2..2 : e[k] \in 128..191
        /\ Read2(e[1], e[2]) = v
    BY <1>1, <1>3, TwoWritten, SMT
  <2>2. Proper(v, 2)
    BY <1>1, <1>3, SMT DEF Proper, Lowest
  <2> HIDE DEF e
  <2>3. Spelled(e, 0, 2) = v
    BY <2>1, SpelledIs, SMT
  <2>4. Announced(e[0 + 1]) = 2
    <3>1. e[1] \in Octet
      BY <2>1, SMT DEF Octet
    <3> QED
      BY <2>1, <3>1, AnnouncedIs, SMT
  <2>5. ASSUME NEW k \in 1..2 - 1 PROVE IsContinuation(e[0 + 1 + k])
    <3>1. 0 + 1 + k \in 2..2 /\ e[0 + 1 + k] \in 128..191
      BY <2>1, SMT
    <3>2. e[0 + 1 + k] \in Octet
      BY <3>1, SMT DEF Octet
    <3> QED
      BY <3>1, <3>2, AnnouncedIs, SMT
  <2>6. ob_utf8_decode(e, 0) = [cp |-> Spelled(e, 0, 2), width |-> 2]
    BY <2>1, <2>2, <2>3, <2>4, <2>5, DecodesWhole, SMT
  <2> QED
    BY <2>1, <2>3, <2>6, SMT DEF e
<1>4. CASE 2048 <= v /\ v < 65536
  <2>1. /\ Len(e) = 3 /\ e[1] \in 224..239 /\ \A k \in 2..3 : e[k] \in 128..191
        /\ Read3(e[1], e[2], e[3]) = v
    BY <1>1, <1>4, ThreeWritten, SMT
  <2>2. Proper(v, 3)
    BY <1>1, <1>4, SMT DEF Proper, Lowest
  <2> HIDE DEF e
  <2>3. Spelled(e, 0, 3) = v
    BY <2>1, SpelledIs, SMT
  <2>4. Announced(e[0 + 1]) = 3
    <3>1. e[1] \in Octet
      BY <2>1, SMT DEF Octet
    <3> QED
      BY <2>1, <3>1, AnnouncedIs, SMT
  <2>5. ASSUME NEW k \in 1..3 - 1 PROVE IsContinuation(e[0 + 1 + k])
    <3>1. 0 + 1 + k \in 2..3 /\ e[0 + 1 + k] \in 128..191
      BY <2>1, SMT
    <3>2. e[0 + 1 + k] \in Octet
      BY <3>1, SMT DEF Octet
    <3> QED
      BY <3>1, <3>2, AnnouncedIs, SMT
  <2>6. ob_utf8_decode(e, 0) = [cp |-> Spelled(e, 0, 3), width |-> 3]
    BY <2>1, <2>2, <2>3, <2>4, <2>5, DecodesWhole, SMT
  <2> QED
    BY <2>1, <2>3, <2>6, SMT DEF e
<1>5. CASE 65536 <= v
  <2>1. /\ Len(e) = 4 /\ e[1] \in 240..247 /\ \A k \in 2..4 : e[k] \in 128..191
        /\ Read4(e[1], e[2], e[3], e[4]) = v
    BY <1>1, <1>5, FourWritten, SMT
  <2>2. Proper(v, 4)
    BY <1>1, <1>5, SMT DEF Proper, Lowest
  <2> HIDE DEF e
  <2>3. Spelled(e, 0, 4) = v
    BY <2>1, SpelledIs, SMT
  <2>4. Announced(e[0 + 1]) = 4
    <3>1. e[1] \in Octet
      BY <2>1, SMT DEF Octet
    <3> QED
      BY <2>1, <3>1, AnnouncedIs, SMT
  <2>5. ASSUME NEW k \in 1..4 - 1 PROVE IsContinuation(e[0 + 1 + k])
    <3>1. 0 + 1 + k \in 2..4 /\ e[0 + 1 + k] \in 128..191
      BY <2>1, SMT
    <3>2. e[0 + 1 + k] \in Octet
      BY <3>1, SMT DEF Octet
    <3> QED
      BY <3>1, <3>2, AnnouncedIs, SMT
  <2>6. ob_utf8_decode(e, 0) = [cp |-> Spelled(e, 0, 4), width |-> 4]
    BY <2>1, <2>2, <2>3, <2>4, <2>5, DecodesWhole, SMT
  <2> QED
    BY <2>1, <2>3, <2>6, SMT DEF e
<1> QED
  BY <1>1, <1>2, <1>3, <1>4, <1>5, SMT

(***************************************************************************)
(* Any bytes at all: a character has one spelling.                         *)
(***************************************************************************)
LEMMA SpelledOnce ==
  ASSUME bytes \in Seq(Octet)
  PROVE  OneSpelling
<1>1. ASSUME NEW i \in Range(Starts(bytes)), ob_utf8_decode(bytes, i).width > 1
      PROVE  SubSeq(bytes, i + 1, i + ob_utf8_decode(bytes, i).width)
               = ob_utf8_encode(ob_utf8_decode(bytes, i).cp)
  <2>1. Starts(bytes) \in Seq(0..Len(bytes) - 1)
    BY PlaceIs
  <2>2. i \in 0..Len(bytes) - 1
    BY <1>1, <2>1 DEF Range
  <2> QED
    BY <1>1, <2>2, DecodedIsEncoded, Zenon
<1>2. ASSUME NEW c \in CodePoints
      PROVE  ob_utf8_decode(ob_utf8_encode(c), 0)
               = [cp |-> c, width |-> Len(ob_utf8_encode(c))]
  <2>1. c \in Nat /\ Proper(c, 1)
    BY StringsAssumption, Zenon
  <2> QED
    BY <2>1, EncodedDecodes, Zenon
<1> QED
  BY <1>1, <1>2, Zenon DEF OneSpelling

-----------------------------------------------------------------------------
(* The methods *)

Givers == {"value", "substr", "slice", "reverse"}

\* What the caller may go on with is a string again.
StringInv ==
  /\ bytes \in Seq(Octet)
  /\ Tells(bytes, hdr)
  /\ asked # <<>> /\ asked[1] \in Givers /\ answer # Nothing => answer \in Seq(Octet)

\* A call that leaves a header that tells of the string, and gives a string if any.
LEMMA AskedSafe ==
  ASSUME StringInv, NEW c, NEW h, NEW r, Asked(c, h, r), Tells(bytes, h),
         c[1] \in Givers /\ r # Nothing => r \in Seq(Octet)
  PROVE  StringInv'
<1>1. asked' = c /\ hdr' = h /\ answer' = r /\ bytes' = bytes
  BY DEF Asked
<1>2. Tells(bytes, hdr)'
  BY <1>1 DEF Tells, Place
<1> QED
  BY <1>1, <1>2 DEF StringInv

LEMMA LenSafe == ASSUME StringInv, len PROVE StringInv'
<1>1. Tells(bytes, Counted)
  BY CountedTells DEF StringInv
<1>2. Asked(<<"len">>, Counted, Counted.cps)
  BY DEF len
<1>3. <<"len">>[1] \notin Givers
  BY DEF Givers
<1> QED
  BY <1>1, <1>2, <1>3, AskedSafe

LEMMA ReverseSafe == ASSUME StringInv, ob_str_reverse PROVE StringInv'
<1>1. Bytes(Reverse(Characters(bytes))) \in Seq(Octet) /\ Tells(bytes, hdr)
  BY CharactersAre DEF StringInv
<1>2. Asked(<<"reverse">>, hdr, Bytes(Reverse(Characters(bytes))))
  BY DEF ob_str_reverse
<1> QED
  BY <1>1, <1>2, AskedSafe

LEMMA SplitSafe == ASSUME StringInv, NEW w, ob_str_split(w) PROVE StringInv'
<1>1. Tells(bytes, hdr)
  BY DEF StringInv
<1> DEFINE r == IF w = <<>> THEN Characters(bytes) ELSE Pieces(Bytes(w))
<1>2. Asked(<<"split", w>>, hdr, r)
  BY DEF ob_str_split
<1>3. <<"split", w>>[1] \notin Givers
  BY DEF Givers
<1> HIDE DEF r
<1> QED
  BY <1>1, <1>2, <1>3, AskedSafe

LEMMA IndexOfSafe == ASSUME StringInv, NEW w, ob_str_index_of(w) PROVE StringInv'
<1>1. Tells(bytes, hdr) /\ Tells(bytes, Counted)
  BY CountedTells DEF StringInv
<1>2. \/ Asked(<<"index_of", w>>, hdr, -1)
      \/ Asked(<<"index_of", w>>, Counted, ob_byte_to_cp(Min(Hits(Bytes(w)))))
  BY Zenon DEF ob_str_index_of
<1>3. <<"index_of", w>>[1] \notin Givers
  BY DEF Givers
<1>4. CASE Asked(<<"index_of", w>>, hdr, -1)
  BY <1>1, <1>3, <1>4, AskedSafe
<1>5. CASE Asked(<<"index_of", w>>, Counted, ob_byte_to_cp(Min(Hits(Bytes(w)))))
  BY <1>1, <1>3, <1>5, AskedSafe
<1> QED
  BY <1>2, <1>4, <1>5

LEMMA ValueSafe == ASSUME StringInv, NEW k \in Indices, ob_iter_value(k) PROVE StringInv'
<1> DEFINE n == Len(Starts(bytes))
           p == ob_cp_to_byte(Counted, k)
           w == Width(bytes, p.at)
           piece == SubSeq(bytes, p.at + 1, p.at + w)
<1>1. bytes \in Seq(Octet) /\ Tells(bytes, Counted) /\ Counted.cps # Unset /\ Counted.cps = n
  BY CountedTells DEF StringInv, Tells
<1>2. n \in Nat
  BY <1>1, PlaceIs
<1>3. k \in Int
  BY <1>2 DEF Indices
<1>4. CASE k < 0 \/ k >= Counted.cps
  <2>1. Asked(<<"value", k>>, Counted, Nothing)
    BY <1>4, Zenon DEF ob_iter_value
  <2> QED
    BY <1>1, <2>1, AskedSafe
<1>5. CASE ~(k < 0 \/ k >= Counted.cps)
  <2>1. Asked(<<"value", k>>, p.hdr, piece)
    BY <1>5, Zenon DEF ob_iter_value, Width
  <2>2. k \in 0..n /\ k \in 0..n - 1
    BY <1>1, <1>2, <1>3, <1>5
  <2> HIDE DEF n
  <2>3. p.at = Place(bytes, k) /\ Tells(bytes, p.hdr)
    BY <1>1, <2>2, FindsPlace DEF n
  <2>4. Place(bytes, k) \in 0..Len(bytes) - 1
    BY <1>1, <2>2, PlaceIs DEF n
  <2> HIDE DEF p
  <2>5. w \in 1..4 /\ p.at + w \in 1..Len(bytes) /\ p.at \in 0..Len(bytes) - 1
    BY <1>1, <2>3, <2>4, WidthIs
  <2> HIDE DEF w
  <2>6. p.at \in 0..Len(bytes) /\ p.at + w \in 0..Len(bytes)
    BY <1>1, <2>5
  <2>7. piece \in Seq(Octet)
    BY <1>1, <2>6, PieceIs
  <2> HIDE DEF piece
  <2> QED
    BY <2>1, <2>3, <2>7, AskedSafe
<1> QED
  BY <1>4, <1>5

\* The piece from one character to another, both found by a walk.
LEMMA SubstrSafe ==
  ASSUME StringInv, NEW c, NEW start \in Int, NEW l0 \in Int, Substr(c, start, l0)
  PROVE  StringInv'
<1> DEFINE n == Counted.cps
           a == Clamp(start, n)
           l == IF l0 < 0 THEN 0 ELSE IF a + l0 > n THEN n - a ELSE l0
           from == ob_cp_to_byte(Counted, a)
           to == ob_cp_to_byte(from.hdr, a + l)
           piece == SubSeq(bytes, from.at + 1, to.at)
<1>1. /\ bytes \in Seq(Octet) /\ Tells(bytes, Counted) /\ Counted.cps # Unset
      /\ n = Len(Starts(bytes))
  BY CountedTells DEF StringInv, Tells
<1>2. n \in Nat
  BY <1>1, PlaceIs
<1>3. Asked(c, to.hdr, piece)
  BY Zenon DEF Substr
<1> HIDE DEF n
<1>4. a \in 0..n
  BY <1>2 DEF Clamp
<1> HIDE DEF a
<1>5. a + l \in 0..n
  BY <1>2, <1>4
<1> HIDE DEF l
<1>6. a \in 0..Len(Starts(bytes)) /\ a + l \in 0..Len(Starts(bytes))
  BY <1>1, <1>4, <1>5
<1>7. from.at = Place(bytes, a) /\ Tells(bytes, from.hdr) /\ from.hdr.cps # Unset
  BY <1>1, <1>6, FindsPlace
<1> HIDE DEF from
<1>8. to.at = Place(bytes, a + l) /\ Tells(bytes, to.hdr)
  BY <1>1, <1>6, <1>7, FindsPlace
<1> HIDE DEF to
<1>9. from.at \in 0..Len(bytes) /\ to.at \in 0..Len(bytes)
  BY <1>1, <1>6, <1>7, <1>8, PlaceIs
<1>10. piece \in Seq(Octet)
  BY <1>1, <1>9, PieceIs
<1> HIDE DEF piece
<1> QED
  BY <1>3, <1>8, <1>10, AskedSafe

LEMMA StrSubstrSafe ==
  ASSUME StringInv, NEW a \in Int, NEW l \in Int, ob_str_substr(a, l)
  PROVE  StringInv'
BY SubstrSafe DEF ob_str_substr

LEMMA SliceSafe ==
  ASSUME StringInv, NEW a0 \in Int, NEW b0 \in Int, ob_m_slice(a0, b0)
  PROVE  StringInv'
<1> DEFINE a == IF a0 < 0 THEN 0 ELSE a0
           b == IF b0 > Counted.cps THEN Counted.cps ELSE b0
           l == IF b > a THEN b - a ELSE 0
<1>1. Substr(<<"slice", a0, b0>>, a, l)
  BY Zenon DEF ob_m_slice
<1>2. Tells(bytes, Counted) /\ Counted.cps # Unset
  BY CountedTells DEF StringInv
<1>3. Counted.cps \in Int
  BY <1>2 DEF Tells
<1>4. a \in Int /\ b \in Int
  BY <1>3
<1> HIDE DEF a, b
<1>5. l \in Int
  BY <1>4
<1> HIDE DEF l
<1> QED
  BY <1>1, <1>4, <1>5, SubstrSafe

LEMMA ReturnSafe == ASSUME StringInv, Return PROVE StringInv'
<1>1. asked' = <<>>
  BY DEF Return
<1>2. CASE UNCHANGED <<bytes, hdr>>
  <2>1. Tells(bytes, hdr)'
    BY <1>2 DEF StringInv, Tells, Place
  <2> QED
    BY <1>1, <1>2, <2>1 DEF StringInv
<1>3. CASE /\ asked[1] \in {"value", "substr", "slice", "reverse"} /\ answer # Nothing
           /\ bytes' = answer /\ hdr' = Fresh
  <2>1. asked # <<>>
    BY DEF Return
  <2>2. bytes' \in Seq(Octet)
    BY <1>3, <2>1 DEF StringInv, Givers
  <2>3. Tells(bytes', Fresh)
    BY <2>2, FreshTells
  <2>4. Tells(bytes, hdr)'
    BY <1>3, <2>3 DEF Tells, Place
  <2> QED
    BY <1>1, <2>2, <2>4 DEF StringInv
<1> QED
  BY <1>2, <1>3 DEF Return

-----------------------------------------------------------------------------
(* The theorem *)

LEMMA StringInitSafe == ASSUME StringInit PROVE StringInv
<1>1. bytes \in Seq(Octet) /\ hdr = Fresh /\ asked = <<>>
  BY StringsAssumption DEF StringInit
<1>2. Tells(bytes, hdr)
  BY <1>1, FreshTells
<1> QED
  BY <1>1, <1>2 DEF StringInv

LEMMA StringStepSafe == ASSUME StringInv, [StringNext]_stringVars PROVE StringInv'
<1>1. Indices \subseteq Int
  <2>1. Len(Starts(bytes)) \in Nat
    BY PlaceIs DEF StringInv
  <2> QED
    BY <2>1 DEF Indices
<1>2. CASE len
  BY <1>2, LenSafe
<1>3. CASE ob_str_reverse
  BY <1>3, ReverseSafe
<1>4. CASE Return
  BY <1>4, ReturnSafe
<1>5. ASSUME NEW k \in Indices, ob_iter_value(k) PROVE StringInv'
  BY <1>5, ValueSafe
<1>6. ASSUME NEW a \in Indices, NEW b \in Indices, ob_str_substr(a, b) PROVE StringInv'
  BY <1>1, <1>6, StrSubstrSafe
<1>7. ASSUME NEW a \in Indices, NEW b \in Indices, ob_m_slice(a, b) PROVE StringInv'
  BY <1>1, <1>7, SliceSafe
<1>8. ASSUME NEW w \in Words, ob_str_index_of(w) PROVE StringInv'
  BY <1>8, IndexOfSafe
<1>9. ASSUME NEW w \in Words, ob_str_split(w) PROVE StringInv'
  BY <1>9, SplitSafe
<1>10. CASE UNCHANGED stringVars
  <2>1. bytes' = bytes /\ hdr' = hdr /\ asked' = asked /\ answer' = answer
    BY <1>10 DEF stringVars
  <2>2. Tells(bytes, hdr)'
    BY <2>1 DEF StringInv, Tells, Place
  <2> QED
    BY <2>1, <2>2 DEF StringInv
<1> QED
  BY <1>2, <1>3, <1>4, <1>5, <1>6, <1>7, <1>8, <1>9, <1>10 DEF StringNext

LEMMA StringInvImplies == ASSUME StringInv PROVE CursorIsPlace
<1>1. CursorTrue
  BY DEF StringInv, Tells, CursorTrue, Place
<1>2. OneSpelling
  BY SpelledOnce DEF StringInv
<1> QED
  BY <1>1, <1>2 DEF CursorIsPlace

(***************************************************************************)
(* For every string of bytes, and whatever methods were called before: the *)
(* cursor in the header (ob_cp_to_byte) is the number and the offset of one *)
(* and the same character, the count and the flag ob_sclen remembers are of *)
(* this string, what decodes to more than a byte is what chr() writes for   *)
(* that code point, and what chr() writes decodes to it.                   *)
(***************************************************************************)
THEOREM CursorStaysTrue == StringSpec => []CursorIsPlace
<1>1. StringInit => StringInv
  BY StringInitSafe
<1>2. StringInv /\ [StringNext]_stringVars => StringInv'
  BY StringStepSafe
<1>3. StringInv => CursorIsPlace
  BY StringInvImplies
<1> QED
  BY <1>1, <1>2, <1>3, PTL DEF StringSpec
-----------------------------------------------------------------------------
(* Joining *)

\* Sequences are joined to g if g is what those before are joined to, for all of them.
LEMMA FlatBy ==
  ASSUME NEW S, NEW t \in Seq(Seq(S)), NEW g, g[0] = <<>>,
         \A i \in 1..Len(t) : g[i - 1] \in Seq(S) /\ g[i] = g[i - 1] \o t[i]
  PROVE  FlattenSeq(t) = g[Len(t)]
<1> DEFINE n == Len(t)
           h == [i \in 1..n |-> g[i]]
           f == CHOOSE e : e = [i \in 1..Len(t) |-> IF i = 1 THEN t[i] ELSE e[i - 1] \o t[i]]
           Wrong == {i \in 1..n : f[i] # g[i]}
<1>1. n \in Nat /\ \A i \in 1..n : t[i] \in Seq(S)
  BY LenProperties, ElementOfSeq
<1>2. CASE n = 0
  <2>1. t = <<>>
    BY <1>2, EmptySeq
  <2> QED
    BY <1>2, <2>1 DEF FlattenSeq
<1>3. CASE n # 0
  <2>1. ASSUME NEW i \in 1..n PROVE g[i] = IF i = 1 THEN t[i] ELSE g[i - 1] \o t[i]
    <3>1. CASE i = 1
      <4>1. g[0] = <<>> /\ g[1] = g[0] \o t[1]
        <5>1. 1 \in 1..Len(t) /\ 1 - 1 = 0
          BY <3>1
        <5> QED
          BY <5>1
      <4>2. t[1] \in Seq(S)
        BY <1>1, <3>1
      <4>3. <<>> \o t[1] = t[1]
        BY <4>2, EmptySeq, ConcatEmptySeq
      <4> QED
        BY <3>1, <4>1, <4>3
    <3>2. CASE i # 1
      BY <3>2
    <3> QED
      BY <3>1, <3>2
  <2>2. \A i \in 1..n : i # 1 => i - 1 \in 1..n
    BY <1>1
  <2>3. \A i \in 1..n : h[i] = g[i]
    OBVIOUS
  <2>4. \A i \in 1..n : h[i] = IF i = 1 THEN t[i] ELSE h[i - 1] \o t[i]
    <3> HIDE DEF h
    <3> QED
      BY <2>1, <2>2, <2>3
  <2>5. h = [i \in 1..Len(t) |-> IF i = 1 THEN t[i] ELSE h[i - 1] \o t[i]]
    <3>1. h = [i \in 1..n |-> h[i]]
      OBVIOUS
    <3> HIDE DEF h
    <3> QED
      BY <2>4, <3>1, Zenon DEF n
  <2> HIDE DEF h
  <2>6. f = [i \in 1..Len(t) |-> IF i = 1 THEN t[i] ELSE f[i - 1] \o t[i]]
    <3> HIDE DEF n
    <3> QED
      BY <2>5
  <2>7. FlattenSeq(t) = f[n]
    BY <1>3 DEF FlattenSeq
  <2> HIDE DEF f
  <2>8. \A i \in 1..n : f[i] = IF i = 1 THEN t[i] ELSE f[i - 1] \o t[i]
    BY <2>6, Zenon
  <2>9. Wrong = {}
    <3> SUFFICES ASSUME Wrong # {} PROVE FALSE
      OBVIOUS
    <3>1. Wrong \in SUBSET Nat
      OBVIOUS
    <3>2. PICK m \in Wrong : \A l \in Wrong : m <= l
      BY <3>1, Least
    <3>3. m \in 1..n /\ f[m] # g[m]
      BY <3>2
    <3>4. m # 1
      BY <2>1, <2>8, <3>3
    <3>5. m - 1 \in 1..n /\ m - 1 \notin Wrong
      BY <1>1, <3>2, <3>3, <3>4
    <3>6. f[m - 1] = g[m - 1]
      BY <3>5
    <3> QED
      BY <2>1, <2>8, <3>3, <3>4, <3>6
  <2> QED
    BY <1>1, <1>3, <2>7, <2>9
<1> QED
  BY <1>2, <1>3
-----------------------------------------------------------------------------
(* Characters *)

LEMMA CharactersIs ==
  ASSUME NEW s \in Seq(Octet)
  PROVE  /\ Characters(s) \in Seq(Seq(Octet)) /\ Len(Characters(s)) = Len(Starts(s))
         /\ \A k \in 0..Len(Starts(s)) - 1 :
              Characters(s)[k + 1] = SubSeq(s, Place(s, k) + 1, Place(s, k + 1))
<1> DEFINE q == Starts(s)
           n == Len(q)
           b == Append(q, Len(s))
           c == Characters(s)
<1>1. n \in Nat /\ Len(s) \in Nat /\ q \in Seq(0..Len(s) - 1)
  BY PlaceIs
<1>2. Len(b) - 1 = n
  <2>1. Len(b) = n + 1
    BY <1>1, AppendProperties
  <2> QED
    BY <1>1, <2>1
<1>3. c = [k \in 1..Len(b) - 1 |-> SubSeq(s, b[k] + 1, b[k + 1])]
  BY DEF Characters
<1>4. \A k \in 0..n : b[k + 1] = Place(s, k)
  BY DEF Place
<1>5. \A k \in 0..n : Place(s, k) \in 0..Len(s)
  BY PlaceIs
<1> HIDE DEF n, b, c
<1>6. c = [k \in 1..n |-> SubSeq(s, b[k] + 1, b[k + 1])]
  BY <1>2, <1>3
<1>7. ASSUME NEW k \in 0..n - 1
      PROVE  c[k + 1] = SubSeq(s, Place(s, k) + 1, Place(s, k + 1))
  <2>1. k + 1 \in 1..n /\ k \in 0..n /\ k + 1 \in 0..n
    BY <1>1
  <2>2. c[k + 1] = SubSeq(s, b[k + 1] + 1, b[(k + 1) + 1])
    BY <1>6, <2>1
  <2> QED
    BY <1>4, <2>1, <2>2
<1>8. \A k \in 1..n : c[k] \in Seq(Octet)
  <2> SUFFICES ASSUME NEW k \in 1..n PROVE c[k] \in Seq(Octet)
    OBVIOUS
  <2>1. k - 1 \in 0..n - 1 /\ (k - 1) + 1 = k /\ k - 1 \in 0..n /\ k \in 0..n
    BY <1>1
  <2>2. c[k] = SubSeq(s, Place(s, k - 1) + 1, Place(s, k))
    BY <1>7, <2>1
  <2>3. Place(s, k - 1) \in 0..Len(s) /\ Place(s, k) \in 0..Len(s)
    BY <1>5, <2>1
  <2> QED
    BY <2>2, <2>3, PieceIs
<1>9. c \in [1..n -> Seq(Octet)]
  BY <1>6, <1>8
<1>10. c \in Seq(Seq(Octet)) /\ Len(c) = n
  BY <1>1, <1>9
<1> QED
  BY <1>7, <1>10 DEF c, n

\* Characters next to each other are joined to the piece of the string they are in.
LEMMA FlatPlaces ==
  ASSUME NEW s \in Seq(Octet), NEW j \in 0..Len(Starts(s)), NEW e \in j..Len(Starts(s))
  PROVE  Bytes(SubSeq(Characters(s), j + 1, e)) = SubSeq(s, Place(s, j) + 1, Place(s, e))
<1> DEFINE n == Len(Starts(s))
           c == Characters(s)
           t == SubSeq(c, j + 1, e)
           g == [i \in 0..e - j |-> SubSeq(s, Place(s, j) + 1, Place(s, j + i))]
<1>1. n \in Nat /\ Len(s) \in Nat /\ \A m \in 0..n : Place(s, m) \in 0..Len(s)
  BY PlaceIs
<1>2. c \in Seq(Seq(Octet)) /\ Len(c) = n
  BY CharactersIs
<1>3. \A k \in 0..n - 1 : c[k + 1] = SubSeq(s, Place(s, k) + 1, Place(s, k + 1))
  BY CharactersIs
<1>4. j \in 0..n /\ e \in j..n
  OBVIOUS
<1> HIDE DEF n, c
<1>5. t \in Seq(Seq(Octet)) /\ Len(t) = e - j /\ \A i \in 1..e - j : t[i] = c[j + i]
  <2>1. \A m \in j + 1..e : c[m] \in Seq(Octet)
    <3>1. \A m \in j + 1..e : m \in 1..Len(c)
      BY <1>1, <1>2, <1>4
    <3> QED
      BY <1>2, <3>1, ElementOfSeq
  <2>2. j + 1 \in Int /\ e \in Int
    BY <1>1, <1>4
  <2>3. t \in Seq(Seq(Octet))
    BY <2>1, <2>2, SubSeqProperties
  <2>4. Len(t) = e - j
    <3>1. Len(t) = IF j + 1 <= e THEN (e - (j + 1)) + 1 ELSE 0
      BY <2>1, <2>2, SubSeqProperties
    <3> QED
      BY <1>1, <1>4, <3>1
  <2>5. \A i \in 1..e - j : t[i] = c[j + i]
    <3>1. \A i \in 1..(e - (j + 1)) + 1 : t[i] = c[((j + 1) + i) - 1]
      BY <2>1, <2>2, SubSeqProperties
    <3>2. \A i \in 1..e - j : i \in 1..(e - (j + 1)) + 1 /\ ((j + 1) + i) - 1 = j + i
      BY <1>1, <1>4
    <3> QED
      BY <3>1, <3>2
  <2> QED
    BY <2>3, <2>4, <2>5
<1>6. \A i \in 0..e - j : g[i] = SubSeq(s, Place(s, j) + 1, Place(s, j + i))
  OBVIOUS
<1> HIDE DEF t, g
<1>7. g[0] = <<>>
  <2>1. 0 \in 0..e - j /\ j + 0 = j
    BY <1>1, <1>4
  <2>2. Place(s, j) \in Int /\ Place(s, j) < Place(s, j) + 1
    BY <1>1, <1>4
  <2>3. SubSeq(s, Place(s, j) + 1, Place(s, j)) = <<>>
    BY <2>2, SubSeqEmpty
  <2> QED
    BY <1>6, <2>1, <2>3
<1>8. ASSUME NEW i \in 1..e - j PROVE g[i - 1] \in Seq(Octet) /\ g[i] = g[i - 1] \o t[i]
  <2> DEFINE k == j + (i - 1)
  <2>1. /\ i - 1 \in 0..e - j /\ i \in 0..e - j /\ k \in 0..n - 1 /\ k \in 0..n /\ k + 1 \in 0..n
        /\ k + 1 = j + i /\ k \in j..n /\ k + 1 \in k..n
    BY <1>1, <1>4
  <2>2. g[i - 1] = SubSeq(s, Place(s, j) + 1, Place(s, k))
    BY <1>6, <2>1
  <2>3. g[i] = SubSeq(s, Place(s, j) + 1, Place(s, k + 1))
    BY <1>6, <2>1
  <2>4. t[i] = SubSeq(s, Place(s, k) + 1, Place(s, k + 1))
    <3>1. t[i] = c[k + 1]
      BY <1>5, <2>1
    <3> QED
      BY <1>3, <2>1, <3>1
  <2> HIDE DEF k
  <2>5. Place(s, j) <= Place(s, k) /\ Place(s, k) <= Place(s, k + 1)
    BY <2>1, PlacesOrdered DEF n
  <2>6. Place(s, j) \in 0..Len(s) /\ Place(s, k) \in 0..Len(s) /\ Place(s, k + 1) \in 0..Len(s)
    BY <1>1, <1>4, <2>1
  <2>7. SubSeq(s, Place(s, j) + 1, Place(s, k)) \o SubSeq(s, Place(s, k) + 1, Place(s, k + 1))
          = SubSeq(s, Place(s, j) + 1, Place(s, k + 1))
    <3>1. /\ Place(s, j) + 1 \in 1..Len(s) + 1
          /\ Place(s, k) \in (Place(s, j) + 1) - 1..Len(s)
          /\ Place(s, k + 1) \in Place(s, k)..Len(s)
      BY <1>1, <2>5, <2>6
    <3> QED
      BY <3>1, ConcatAdjacentSubSeq
  <2>8. g[i - 1] \in Seq(Octet)
    BY <2>2, <2>6, PieceIs
  <2> QED
    BY <2>2, <2>3, <2>4, <2>7, <2>8
<1>9. FlattenSeq(t) = g[e - j]
  <2>1. \A i \in 1..Len(t) : g[i - 1] \in Seq(Octet) /\ g[i] = g[i - 1] \o t[i]
    BY <1>5, <1>8
  <2>2. FlattenSeq(t) = g[Len(t)]
    BY <1>5, <1>7, <2>1, FlatBy
  <2> QED
    BY <1>5, <2>2
<1>10. e - j \in 0..e - j /\ j + (e - j) = e
  BY <1>1, <1>4
<1> QED
  BY <1>6, <1>9, <1>10 DEF Bytes, t, c

\* All of them are the string.
LEMMA FlatWhole ==
  ASSUME NEW s \in Seq(Octet)
  PROVE  Bytes(Characters(s)) = s
<1> DEFINE n == Len(Starts(s))
<1>1. n \in Nat /\ Len(s) \in Nat /\ Place(s, 0) = 0 /\ Place(s, n) = Len(s)
  BY PlaceIs
<1>2. Characters(s) \in Seq(Seq(Octet)) /\ Len(Characters(s)) = n
  BY CharactersIs
<1>3. SubSeq(Characters(s), 0 + 1, n) = Characters(s)
  BY <1>1, <1>2, SubSeqFull
<1>4. SubSeq(s, 0 + 1, Len(s)) = s
  BY <1>1, SubSeqFull
<1>5. 0 \in 0..n /\ n \in 0..n
  BY <1>1
<1>6. Bytes(SubSeq(Characters(s), 0 + 1, n)) = SubSeq(s, Place(s, 0) + 1, Place(s, n))
  BY <1>5, FlatPlaces
<1> QED
  BY <1>1, <1>3, <1>4, <1>6
-----------------------------------------------------------------------------
(* Searching *)

\* In a well-formed string, a character begins with an octet that continues none.
LEMMA WellStart ==
  ASSUME NEW s \in Seq(Octet), WellFormed(s), NEW j \in 0..Len(Starts(s)) - 1
  PROVE  LET d == ob_utf8_decode(s, Place(s, j))
         IN  (d.width > 1 \/ d.cp < 128) /\ ~IsContinuation(s[Place(s, j) + 1])
<1> DEFINE p == Place(s, j)
           d == ob_utf8_decode(s, p)
<1>1. p = Starts(s)[j + 1] /\ p \in 0..Len(s) - 1 /\ Len(Starts(s)) \in Nat
  BY PlaceIs
<1>2. j + 1 \in 1..Len(Starts(s))
  BY <1>1
<1>3. d.width > 1 \/ d.cp < 128
  <2>1. Starts(s) \in Seq(0..Len(s) - 1)
    BY PlaceIs
  <2>2. DOMAIN Starts(s) = 1..Len(Starts(s))
    BY <2>1, LenProperties
  <2>3. p \in Range(Starts(s))
    BY <1>1, <1>2, <2>2 DEF Range
  <2> QED
    BY <2>3 DEF WellFormed
<1>4. ~IsContinuation(s[p + 1])
  BY <1>1, <1>3, DecodeIs
<1> QED
  BY <1>3, <1>4

\* An octet that continues none begins a character, in any string.
LEMMA LeadIsPlace ==
  ASSUME NEW s \in Seq(Octet), NEW i \in 0..Len(s) - 1, ~IsContinuation(s[i + 1])
  PROVE  \E k \in 0..Len(Starts(s)) - 1 : Place(s, k) = i
<1> DEFINE n == Len(Starts(s))
           Past == {m \in 0..n : Place(s, m) > i}
<1>1. /\ n \in Nat /\ Len(s) \in Nat /\ Place(s, 0) = 0 /\ Place(s, n) = Len(s)
  BY PlaceIs
<1>2. \A j \in 0..n - 1 : Place(s, j) \in 0..Len(s) - 1
                           /\ Place(s, j + 1) = Place(s, j) + Width(s, Place(s, j))
  BY PlaceIs
<1> HIDE DEF n
<1>3. n \in Past
  BY <1>1
<1>4. PICK m \in Past : \A l \in Past : m <= l
  <2>1. Past \in SUBSET Nat /\ Past # {}
    BY <1>3
  <2> QED
    BY <2>1, Least
<1> DEFINE k == m - 1
<1>5. m \in 0..n /\ Place(s, m) > i /\ m # 0
  BY <1>1, <1>4
<1>6. k \in 0..n - 1 /\ k \in 0..n /\ k + 1 = m /\ k \in Nat /\ ~(m <= k)
  BY <1>1, <1>5
<1>7. k \notin Past
  BY <1>4, <1>6
<1> HIDE DEF k
<1> DEFINE p == Place(s, k)
           w == Width(s, p)
<1>8. p \in 0..Len(s) - 1 /\ Place(s, m) = p + w
  BY <1>2, <1>6
<1>9. ~(p > i)
  BY <1>6, <1>7
<1> HIDE DEF p
<1>10. w \in 1..4 /\ \A d \in 1..w - 1 : IsContinuation(s[p + 1 + d])
  BY <1>8, DecodeIs DEF Width
<1> HIDE DEF w
<1>11. CASE p = i
  BY <1>6, <1>11 DEF p, n
<1>12. CASE p # i
  <2>1. i - p \in 1..w - 1 /\ p + 1 + (i - p) = i + 1
    BY <1>1, <1>5, <1>8, <1>9, <1>10, <1>12
  <2> QED
    BY <1>10, <2>1
<1> QED
  BY <1>11, <1>12

\* b is in s, from byte i on.
Stands(s, i, b) == i \in 0..Len(s) - Len(b) /\ \A m \in 1..Len(b) : s[i + m] = b[m]

LEMMA StandsIs ==
  ASSUME NEW s \in Seq(Octet), NEW b \in Seq(Octet), NEW i \in 0..Len(s) - Len(b)
  PROVE  SubSeq(s, i + 1, i + Len(b)) = b <=> Stands(s, i, b)
<1>1. Len(s) \in Nat /\ Len(b) \in Nat
  BY LenProperties
<1> DEFINE c == SubSeq(s, i + 1, i + Len(b))
<1>2. \A m \in i + 1..i + Len(b) : s[m] \in Octet
  <2>1. \A m \in i + 1..i + Len(b) : m \in 1..Len(s)
    BY <1>1
  <2> QED
    BY <2>1, ElementOfSeq
<1>3. i + 1 \in Int /\ i + Len(b) \in Int
  BY <1>1
<1>4. /\ c \in Seq(Octet)
      /\ Len(c) = IF i + 1 <= i + Len(b) THEN ((i + Len(b)) - (i + 1)) + 1 ELSE 0
      /\ \A m \in 1..((i + Len(b)) - (i + 1)) + 1 : c[m] = s[((i + 1) + m) - 1]
  BY <1>2, <1>3, SubSeqProperties
<1>5. Len(c) = Len(b)
  BY <1>1, <1>4
<1>6. \A m \in 1..Len(b) : c[m] = s[i + m]
  <2>1. \A m \in 1..Len(b) : m \in 1..((i + Len(b)) - (i + 1)) + 1 /\ ((i + 1) + m) - 1 = i + m
    BY <1>1
  <2> QED
    BY <1>4, <2>1
<1>7. c \in Seq(Octet)
  BY <1>4
<1> HIDE DEF c
<1>8. ASSUME c = b PROVE Stands(s, i, b)
  BY <1>6, <1>8 DEF Stands
<1>9. ASSUME Stands(s, i, b) PROVE c = b
  <2>1. \A m \in 1..Len(c) : c[m] = b[m]
    BY <1>5, <1>6, <1>9 DEF Stands
  <2> QED
    BY <1>5, <1>7, <2>1, SeqEqual
<1> QED
  BY <1>8, <1>9 DEF c

\* A well-formed character is read alike wherever it stands.
LEMMA ReadAlike ==
  ASSUME NEW s \in Seq(Octet), NEW b \in Seq(Octet), NEW i, Stands(s, i, b),
         NEW p \in 0..Len(b) - 1,
         ob_utf8_decode(b, p).width > 1 \/ ob_utf8_decode(b, p).cp < 128
  PROVE  i + p \in 0..Len(s) - 1 /\ Width(s, i + p) = Width(b, p)
<1> DEFINE w == Announced(b[p + 1])
           j == i + p
<1>1. Len(s) \in Nat /\ Len(b) \in Nat /\ i \in 0..Len(s) - Len(b) /\ p \in 0..Len(b) - 1
  BY LenProperties DEF Stands
<1>2. j \in 0..Len(s) - 1
  BY <1>1
<1>3. ASSUME NEW k \in Nat, p + 1 + k <= Len(b) PROVE s[j + 1 + k] = b[p + 1 + k]
  <2>1. p + 1 + k \in 1..Len(b) /\ i + (p + 1 + k) = j + 1 + k
    BY <1>1, <1>3
  <2> QED
    BY <2>1 DEF Stands
<1>4. s[j + 1] = b[p + 1]
  <2>1. p + 1 + 0 <= Len(b) /\ p + 1 + 0 = p + 1 /\ j + 1 + 0 = j + 1
    BY <1>1, <1>2
  <2> HIDE DEF j
  <2> QED
    BY <1>3, <2>1
<1>5. b[p + 1] \in Octet
  <2>1. p + 1 \in 1..Len(b)
    BY <1>1
  <2> QED
    BY <2>1, ElementOfSeq
<1>6. w \in 0..4 /\ (w = 1 <=> b[p + 1] < 128)
  BY <1>5, AnnouncedIs
<1> DEFINE Whole == /\ w > 1 /\ p + w <= Len(b)
                    /\ \A k \in 1..w - 1 : IsContinuation(b[p + 1 + k])
                    /\ Proper(Spelled(b, p, w), w)
<1>7. CASE Whole
  <2>1. ob_utf8_decode(b, p) = [cp |-> Spelled(b, p, w), width |-> w]
    BY <1>7, Zenon DEF ob_utf8_decode
  <2>2. j + w <= Len(s) /\ Announced(s[j + 1]) = w
    BY <1>1, <1>4, <1>6, <1>7
  <2>3. \A k \in 1..w - 1 : s[j + 1 + k] = b[p + 1 + k]
    <3> SUFFICES ASSUME NEW k \in 1..w - 1 PROVE s[j + 1 + k] = b[p + 1 + k]
      OBVIOUS
    <3>1. k \in Nat /\ p + 1 + k <= Len(b)
      <4> HIDE DEF w
      <4> QED
        BY <1>1, <1>6, <1>7
    <3> QED
      BY <1>3, <3>1
  <2>4. w \in 2..4
    BY <1>6, <1>7
  <2>5. Spelled(s, j, w) = Spelled(b, p, w)
    <3> HIDE DEF w, j
    <3>1. CASE w = 2
      <4>1. 1 \in 1..2 - 1
        OBVIOUS
      <4>2. s[j + 1 + 1] = b[p + 1 + 1]
        BY <2>3, <3>1, <4>1
      <4> QED
        BY <1>4, <3>1, <4>2, SpelledIs
    <3>2. CASE w = 3
      <4>1. 1 \in 1..3 - 1 /\ 2 \in 1..3 - 1
        OBVIOUS
      <4>2. s[j + 1 + 1] = b[p + 1 + 1] /\ s[j + 1 + 2] = b[p + 1 + 2]
        BY <2>3, <3>2, <4>1
      <4> QED
        BY <1>4, <3>2, <4>2, SpelledIs
    <3>3. CASE w = 4
      <4>1. 1 \in 1..4 - 1 /\ 2 \in 1..4 - 1 /\ 3 \in 1..4 - 1
        OBVIOUS
      <4>2. /\ s[j + 1 + 1] = b[p + 1 + 1] /\ s[j + 1 + 2] = b[p + 1 + 2]
            /\ s[j + 1 + 3] = b[p + 1 + 3]
        BY <2>3, <3>3, <4>1
      <4> QED
        BY <1>4, <3>3, <4>2, SpelledIs
    <3> QED
      BY <2>4, <3>1, <3>2, <3>3
  <2>6. \A k \in 1..w - 1 : IsContinuation(s[j + 1 + k])
    BY <1>7, <2>3, Zenon
  <2>7. Proper(Spelled(s, j, w), w) /\ w > 1
    BY <1>7, <2>5, Zenon
  <2> HIDE DEF w, j
  <2>8. ob_utf8_decode(s, j) = [cp |-> Spelled(s, j, w), width |-> w]
    BY <2>2, <2>6, <2>7, Zenon DEF ob_utf8_decode
  <2> QED
    BY <1>2, <2>1, <2>8 DEF Width, j
<1>8. CASE ~Whole
  <2>1. ob_utf8_decode(b, p) = [cp |-> b[p + 1], width |-> 1]
    BY <1>8, Zenon DEF ob_utf8_decode
  <2>2. b[p + 1] < 128
    BY <2>1
  <2>3. ~(Announced(s[j + 1]) > 1)
    BY <1>4, <1>6, <2>2
  <2> HIDE DEF j
  <2>4. ob_utf8_decode(s, j) = [cp |-> s[j + 1], width |-> 1]
    BY <2>3, Zenon DEF ob_utf8_decode
  <2> QED
    BY <1>2, <2>1, <2>4 DEF Width, j
<1> QED
  BY <1>7, <1>8

\* Where well-formed text stands at the place of a character, so do all its characters.
LEMMA StepsAlike ==
  ASSUME NEW s \in Seq(Octet), NEW b \in Seq(Octet), WellFormed(b), NEW k \in 0..Len(Starts(s)),
         Stands(s, Place(s, k), b), NEW j \in 0..Len(Starts(b))
  PROVE  k + j \in 0..Len(Starts(s)) /\ Place(s, k + j) = Place(s, k) + Place(b, j)
<1> DEFINE n == Len(Starts(s))
           r == Len(Starts(b))
           i == Place(s, k)
           Good(m) == k + m \in 0..n /\ Place(s, k + m) = i + Place(b, m)
           Bad == {m \in 0..r : ~Good(m)}
<1>1. /\ n \in Nat /\ Len(s) \in Nat /\ Place(s, n) = Len(s)
      /\ \A m \in 0..n : Place(s, m) \in 0..Len(s)
  BY PlaceIs
<1>2. \A m \in 0..n - 1 : Place(s, m + 1) = Place(s, m) + Width(s, Place(s, m))
  BY PlaceIs
<1>3. r \in Nat /\ Len(b) \in Nat /\ Place(b, 0) = 0
  BY PlaceIs
<1>4. \A m \in 0..r - 1 : /\ Place(b, m) \in 0..Len(b) - 1
                           /\ Place(b, m + 1) = Place(b, m) + Width(b, Place(b, m))
  BY PlaceIs
<1>5. k \in 0..n /\ i \in 0..Len(s)
  BY <1>1
<1>6. Good(0)
  <2>1. k + 0 = k
    BY <1>5
  <2> QED
    BY <1>3, <1>5, <2>1
<1>7. ASSUME NEW m \in 0..r - 1, Good(m) PROVE Good(m + 1)
  <2> DEFINE p == Place(b, m)
             w == Width(b, p)
  <2>1. p \in 0..Len(b) - 1 /\ Place(b, m + 1) = p + w
    BY <1>4
  <2>2. ob_utf8_decode(b, p).width > 1 \/ ob_utf8_decode(b, p).cp < 128
    BY WellStart
  <2> HIDE DEF p
  <2>3. i + p \in 0..Len(s) - 1 /\ Width(s, i + p) = w
    BY <2>1, <2>2, ReadAlike
  <2>4. w \in 1..4
    BY <2>1, WidthIs
  <2>5. k + m \in 0..n /\ Place(s, k + m) = i + p
    BY <1>7 DEF p
  <2>6. k + m # n
    <3>1. k + m = n => i + p = Len(s)
      BY <1>1, <2>5
    <3>2. i + p # Len(s)
      <4> HIDE DEF i
      <4> QED
        BY <1>1, <2>3
    <3> QED
      BY <3>1, <3>2
  <2>7. k + m \in 0..n - 1 /\ (k + m) + 1 = k + (m + 1) /\ k + (m + 1) \in 0..n
    BY <1>1, <1>3, <1>5, <2>5, <2>6
  <2>8. Place(s, k + (m + 1)) = (i + p) + w
    BY <1>2, <2>3, <2>5, <2>7
  <2>9. (i + p) + w = i + (p + w)
    BY <1>5, <2>1, <2>4
  <2> QED
    BY <2>1, <2>7, <2>8, <2>9
<1> HIDE DEF n, r, Good
<1>8. Bad = {}
  <2> SUFFICES ASSUME Bad # {} PROVE FALSE
    OBVIOUS
  <2>1. Bad \in SUBSET Nat
    OBVIOUS
  <2>2. PICK m \in Bad : \A l \in Bad : m <= l
    BY <2>1, Least
  <2>3. m \in 0..r /\ ~Good(m)
    BY <2>2
  <2>4. m # 0
    BY <1>6, <2>3
  <2>5. m - 1 \in 0..r - 1 /\ m - 1 \in 0..r /\ (m - 1) + 1 = m /\ ~(m <= m - 1)
    BY <1>3, <2>3, <2>4
  <2>6. Good(m - 1)
    BY <2>2, <2>5
  <2> QED
    BY <1>7, <2>3, <2>5, <2>6
<1>9. j \in 0..r
  BY DEF r
<1> QED
  BY <1>8, <1>9 DEF Good, n

\* Where characters of s are found.
Seen(s, w) == {k \in 0..Len(Characters(s)) - Len(w) : SubSeq(Characters(s), k + 1, k + Len(w)) = w}

LEMMA SeenStands ==
  ASSUME NEW s \in Seq(Octet), NEW b \in Seq(Octet), NEW k \in Seen(s, Characters(b))
  PROVE  k \in 0..Len(Starts(s)) /\ Stands(s, Place(s, k), b)
<1> DEFINE n == Len(Starts(s))
           r == Len(Starts(b))
           e == k + r
<1>1. /\ n \in Nat /\ Len(s) \in Nat /\ \A m \in 0..n : Place(s, m) \in 0..Len(s)
  BY PlaceIs
<1>2. r \in Nat /\ Len(b) \in Nat
  BY PlaceIs
<1>3. Len(Characters(s)) = n /\ Len(Characters(b)) = r
  BY CharactersIs
<1>4. k \in 0..n - r /\ SubSeq(Characters(s), k + 1, e) = Characters(b)
  BY <1>3 DEF Seen
<1>5. k \in 0..n /\ e \in 0..n /\ e \in k..n
  BY <1>1, <1>2, <1>4
<1> HIDE DEF e
<1>6. Bytes(SubSeq(Characters(s), k + 1, e)) = SubSeq(s, Place(s, k) + 1, Place(s, e))
  BY <1>5, FlatPlaces
<1>7. SubSeq(s, Place(s, k) + 1, Place(s, e)) = b
  BY <1>4, <1>6, FlatWhole
<1>8. Place(s, k) <= Place(s, e)
  BY <1>5, PlacesOrdered
<1> DEFINE p == Place(s, k)
           q == Place(s, e)
<1>9. p \in 0..Len(s) /\ q \in 0..Len(s) /\ p <= q
  BY <1>1, <1>5, <1>8
<1>10. SubSeq(s, p + 1, q) = b
  BY <1>7
<1> HIDE DEF p, q, n
<1>11. Len(b) = q - p
  <2>1. \A m \in p + 1..q : m \in 1..Len(s)
    BY <1>1, <1>9
  <2>2. \A m \in p + 1..q : s[m] \in Octet
    BY <2>1, ElementOfSeq
  <2>3. p + 1 \in Int /\ q \in Int
    BY <1>9
  <2>4. Len(SubSeq(s, p + 1, q)) = IF p + 1 <= q THEN (q - (p + 1)) + 1 ELSE 0
    BY <2>2, <2>3, SubSeqProperties
  <2> QED
    BY <1>9, <1>10, <2>4
<1>12. p \in 0..Len(s) - Len(b) /\ q = p + Len(b)
  BY <1>1, <1>2, <1>9, <1>11
<1>13. Stands(s, p, b)
  BY <1>10, <1>12, StandsIs
<1> QED
  BY <1>5, <1>13 DEF p, n

LEMMA StandsSeen ==
  ASSUME NEW s \in Seq(Octet), NEW b \in Seq(Octet), WellFormed(b), NEW k \in 0..Len(Starts(s)),
         Stands(s, Place(s, k), b)
  PROVE  k \in Seen(s, Characters(b))
<1> DEFINE n == Len(Starts(s))
           r == Len(Starts(b))
           c == Characters(s)
           w == Characters(b)
           i == Place(s, k)
<1>1. /\ n \in Nat /\ Len(s) \in Nat /\ \A m \in 0..n : Place(s, m) \in 0..Len(s)
  BY PlaceIs
<1>2. r \in Nat /\ Len(b) \in Nat /\ \A m \in 0..r : Place(b, m) \in 0..Len(b)
  BY PlaceIs
<1>3. c \in Seq(Seq(Octet)) /\ Len(c) = n /\ w \in Seq(Seq(Octet)) /\ Len(w) = r
  BY CharactersIs
<1>4. \A m \in 0..n - 1 : c[m + 1] = SubSeq(s, Place(s, m) + 1, Place(s, m + 1))
  BY CharactersIs
<1>5. \A m \in 0..r - 1 : w[m + 1] = SubSeq(b, Place(b, m) + 1, Place(b, m + 1))
  BY CharactersIs
<1>6. \A j \in 0..r : k + j \in 0..n /\ Place(s, k + j) = i + Place(b, j)
  BY StepsAlike
<1>7. k \in 0..n /\ i \in 0..Len(s) - Len(b) /\ \A m \in 1..Len(b) : s[i + m] = b[m]
  BY DEF Stands
<1> HIDE DEF n, r, c, w, i
<1>8. r \in 0..r
  BY <1>2
<1>9. k + r \in 0..n
  BY <1>6, <1>8
<1>10. k \in 0..n - r
  BY <1>1, <1>2, <1>7, <1>9
<1>11. ASSUME NEW j \in 1..r PROVE c[k + j] = w[j]
  <2> DEFINE m == j - 1
             p == Place(b, m)
             q == Place(b, m + 1)
  <2>1. m \in 0..r - 1 /\ m \in 0..r /\ m + 1 \in 0..r /\ m + 1 = j /\ m \in Nat
    BY <1>2
  <2>2. p \in 0..Len(b) /\ q \in 0..Len(b)
    BY <1>2, <2>1
  <2>3. w[j] = SubSeq(b, p + 1, q)
    BY <1>5, <2>1
  <2>4. k + m \in 0..n /\ Place(s, k + m) = i + p
    BY <1>6, <2>1
  <2>5. k + (m + 1) \in 0..n /\ Place(s, k + (m + 1)) = i + q
    BY <1>6, <2>1
  <2> HIDE DEF m
  <2>6. k + m \in 0..n - 1 /\ (k + m) + 1 = k + (m + 1) /\ k + (m + 1) = k + j
    BY <1>1, <1>7, <2>1, <2>4, <2>5
  <2>7. c[k + j] = SubSeq(s, (i + p) + 1, i + q)
    BY <1>4, <2>4, <2>5, <2>6
  <2> HIDE DEF p, q
  <2>8. SubSeq(s, (i + p) + 1, i + q) = SubSeq(b, p + 1, q)
    <3> DEFINE x == SubSeq(s, (i + p) + 1, i + q)
               y == SubSeq(b, p + 1, q)
    <3>1. /\ (i + p) + 1 \in Int /\ i + q \in Int /\ p + 1 \in Int /\ q \in Int
          /\ p \in Nat /\ q \in Nat /\ i \in Nat
      BY <1>1, <1>2, <1>7, <2>2
    <3>2. \A l \in (i + p) + 1..i + q : l \in 1..Len(s)
      BY <1>1, <1>2, <1>7, <2>2
    <3>3. \A l \in p + 1..q : l \in 1..Len(b)
      BY <1>2, <2>2
    <3>4. \A l \in (i + p) + 1..i + q : s[l] \in Octet
      BY <3>2, ElementOfSeq
    <3>5. \A l \in p + 1..q : b[l] \in Octet
      BY <3>3, ElementOfSeq
    <3>6. /\ x \in Seq(Octet)
          /\ Len(x) = IF (i + p) + 1 <= i + q THEN ((i + q) - ((i + p) + 1)) + 1 ELSE 0
          /\ \A l \in 1..((i + q) - ((i + p) + 1)) + 1 : x[l] = s[(((i + p) + 1) + l) - 1]
      BY <3>1, <3>4, SubSeqProperties
    <3>7. /\ y \in Seq(Octet)
          /\ Len(y) = IF p + 1 <= q THEN (q - (p + 1)) + 1 ELSE 0
          /\ \A l \in 1..(q - (p + 1)) + 1 : y[l] = b[((p + 1) + l) - 1]
      <4>1. p + 1 \in Int /\ q \in Int
        BY <3>1
      <4> QED
        BY <3>5, <4>1, SubSeqProperties
    <3> HIDE DEF x, y
    <3>8. Len(x) = Len(y)
      BY <3>1, <3>6, <3>7
    <3>9. ASSUME NEW l \in 1..Len(x) PROVE x[l] = y[l]
      <4>1. /\ l \in 1..((i + q) - ((i + p) + 1)) + 1 /\ l \in 1..(q - (p + 1)) + 1
            /\ (((i + p) + 1) + l) - 1 = i + (p + l) /\ ((p + 1) + l) - 1 = p + l
            /\ p + l \in 1..Len(b)
        <5>1. l \in 1..q - p
          BY <3>1, <3>6
        <5> QED
          BY <1>2, <2>2, <3>1, <5>1
      <4>2. x[l] = s[i + (p + l)] /\ y[l] = b[p + l]
        BY <3>6, <3>7, <4>1
      <4> QED
        BY <1>7, <4>1, <4>2
    <3> QED
      BY <3>6, <3>7, <3>8, <3>9, SeqEqual DEF x, y
  <2> QED
    BY <2>3, <2>7, <2>8
<1>12. SubSeq(c, k + 1, k + r) = w
  <2> DEFINE x == SubSeq(c, k + 1, k + r)
  <2>1. \A l \in k + 1..k + r : l \in 1..Len(c)
    BY <1>1, <1>2, <1>3, <1>7, <1>9
  <2>2. \A l \in k + 1..k + r : c[l] \in Seq(Octet)
    BY <1>3, <2>1, ElementOfSeq
  <2>3. k + 1 \in Int /\ k + r \in Int
    BY <1>1, <1>2, <1>7
  <2>4. /\ x \in Seq(Seq(Octet))
        /\ Len(x) = IF k + 1 <= k + r THEN ((k + r) - (k + 1)) + 1 ELSE 0
        /\ \A l \in 1..((k + r) - (k + 1)) + 1 : x[l] = c[((k + 1) + l) - 1]
    BY <2>2, <2>3, SubSeqProperties
  <2>5. Len(x) = r
    BY <1>1, <1>2, <1>7, <2>4
  <2>6. \A l \in 1..r : x[l] = w[l]
    <3> SUFFICES ASSUME NEW l \in 1..r PROVE x[l] = w[l]
      OBVIOUS
    <3>1. l \in 1..((k + r) - (k + 1)) + 1 /\ ((k + 1) + l) - 1 = k + l
      BY <1>1, <1>2, <1>7
    <3>2. x[l] = c[k + l]
      BY <2>4, <3>1
    <3> QED
      BY <1>11, <3>2
  <2> HIDE DEF x
  <2>7. x = w
    BY <1>3, <2>4, <2>5, <2>6, SeqEqual
  <2> QED
    BY <2>7 DEF x
<1>13. k \in 0..Len(c) - Len(w) /\ SubSeq(c, k + 1, k + Len(w)) = w
  BY <1>3, <1>10, <1>12
<1> QED
  BY <1>13 DEF Seen, c, w

\* Later characters begin later.
LEMMA PlacesRise ==
  ASSUME NEW s \in Seq(Octet), NEW j \in 0..Len(Starts(s)), NEW m \in 0..Len(Starts(s)), j < m
  PROVE  Place(s, j) < Place(s, m)
<1>1. Len(Starts(s)) \in Nat /\ Len(s) \in Nat
  BY PlaceIs
<1>2. j \in 0..Len(Starts(s)) - 1 /\ j + 1 \in 0..Len(Starts(s)) /\ m \in j + 1..Len(Starts(s))
  BY <1>1
<1>3. /\ Place(s, j) \in 0..Len(s) - 1
      /\ Place(s, j + 1) = Place(s, j) + Width(s, Place(s, j))
  BY <1>2, PlaceIs
<1>4. Width(s, Place(s, j)) \in 1..4
  BY <1>3, WidthIs
<1>5. Place(s, j + 1) <= Place(s, m)
  BY <1>2, PlacesOrdered
<1>6. Place(s, j + 1) \in 0..Len(s) /\ Place(s, m) \in 0..Len(s)
  BY <1>2, PlaceIs
<1> QED
  BY <1>1, <1>3, <1>4, <1>5, <1>6

\* A place has as many characters before it as it counts.
LEMMA PlaceCounts ==
  ASSUME bytes \in Seq(Octet), NEW k \in 0..Len(Starts(bytes))
  PROVE  ob_byte_to_cp(Place(bytes, k)) = k
<1> DEFINE n == Len(Starts(bytes))
           q == Starts(bytes)
           p == Place(bytes, k)
           S == {i \in Range(q) : i < p}
           f == [j \in 1..k |-> Place(bytes, j - 1)]
<1>1. n \in Nat /\ Len(bytes) \in Nat /\ p \in 0..Len(bytes) /\ q \in Seq(0..Len(bytes) - 1)
  BY PlaceIs
<1>2. k \in 0..n /\ k \in Nat
  BY <1>1
<1>3. CASE n = Len(bytes)
  <2>1. k <= p /\ n - k <= Len(bytes) - p
    BY PlacesGrow
  <2>2. p = k
    BY <1>1, <1>2, <1>3, <2>1
  <2> QED
    BY <1>3, <2>2 DEF ob_byte_to_cp
<1>4. CASE n # Len(bytes)
  <2>1. ASSUME NEW j \in 1..k
        PROVE  j - 1 \in 0..n /\ j - 1 < k /\ Place(bytes, j - 1) = q[j] /\ j \in 1..n
    <3>1. j - 1 \in 0..n - 1 /\ j - 1 \in 0..n /\ j - 1 < k /\ (j - 1) + 1 = j /\ j \in 1..n
      BY <1>1, <1>2
    <3>2. Place(bytes, j - 1) = q[(j - 1) + 1]
      BY <3>1, PlaceIs
    <3> QED
      BY <3>1, <3>2
  <2>2. ASSUME NEW j \in 1..k PROVE f[j] \in S
    <3>1. f[j] = q[j] /\ q[j] \in Range(q)
      <4>1. DOMAIN q = 1..n
        BY <1>1, LenProperties
      <4> QED
        BY <2>1, <4>1 DEF Range
    <3>2. Place(bytes, j - 1) < p
      BY <1>2, <2>1, PlacesRise
    <3> QED
      BY <3>1, <3>2
  <2>3. ASSUME NEW i \in S PROVE \E j \in 1..k : f[j] = i
    <3>1. PICK j \in 1..n : q[j] = i
      <4>1. DOMAIN q = 1..n
        BY <1>1, LenProperties
      <4> QED
        BY <4>1 DEF Range
    <3>2. j - 1 \in 0..n - 1 /\ j - 1 \in 0..n /\ (j - 1) + 1 = j
      BY <1>1
    <3>3. Place(bytes, j - 1) = i
      BY <3>1, <3>2, PlaceIs
    <3>4. i < p
      OBVIOUS
    <3>5. k < j => FALSE
      <4> SUFFICES ASSUME k < j PROVE FALSE
        OBVIOUS
      <4>1. k \in 0..n /\ j - 1 \in k..n
        BY <1>1, <1>2, <3>2
      <4>2. p <= Place(bytes, j - 1)
        BY <4>1, PlacesOrdered
      <4>3. Place(bytes, j - 1) \in 0..Len(bytes)
        BY <3>2, PlaceIs
      <4> HIDE DEF p, S
      <4> QED
        BY <1>1, <3>3, <3>4, <4>2, <4>3
    <3>6. j \in 1..k
      BY <1>1, <1>2, <3>5
    <3> QED
      BY <3>3, <3>6
  <2>4. \A j, l \in 1..k : j < l => f[j] < f[l]
    <3> SUFFICES ASSUME NEW j \in 1..k, NEW l \in 1..k, j < l PROVE f[j] < f[l]
      OBVIOUS
    <3>1. j - 1 \in 0..n /\ l - 1 \in 0..n /\ j - 1 < l - 1
      BY <1>1, <1>2
    <3>2. Place(bytes, j - 1) < Place(bytes, l - 1)
      BY <3>1, PlacesRise
    <3> QED
      BY <3>2
  <2>5. \A j \in 1..k : f[j] \in Int
    <3> SUFFICES ASSUME NEW j \in 1..k PROVE f[j] \in Int
      OBVIOUS
    <3>1. Place(bytes, j - 1) \in 0..Len(bytes)
      BY <2>1, PlaceIs
    <3> QED
      BY <1>1, <3>1
  <2>6. f \in [1..k -> S]
    BY <2>2
  <2> HIDE DEF f, S, p
  <2>7. \A j, l \in 1..k : f[j] = f[l] => j = l
    BY <2>4, <2>5
  <2>8. DOMAIN f = 1..k
    BY <2>6
  <2>9. f \in Bijection(1..k, S)
    <3>1. IsInjective(f)
      BY <2>7, <2>8 DEF IsInjective
    <3>2. \A i \in S : \E j \in 1..k : f[j] = i
      BY <2>3
    <3> QED
      BY <2>6, <3>1, <3>2 DEF Bijection, Injection, Surjection
  <2>10. IsFiniteSet(1..k) /\ Cardinality(1..k) = k
    BY <1>2, FS_Interval
  <2>11. Cardinality(S) = k
    BY <2>9, <2>10, FS_Bijection DEF ExistsBijection
  <2> QED
    BY <1>4, <2>11 DEF ob_byte_to_cp, S, p
<1> QED
  BY <1>3, <1>4

LEMMA MinIs ==
  ASSUME NEW S \in SUBSET Nat, NEW x \in S, \A y \in S : x <= y
  PROVE  Min(S) = x
<1>1. \A z \in S : (\A y \in S : z <= y) => z = x
  OBVIOUS
<1> QED
  BY <1>1, Zenon DEF Min

\* Octets are searched for, and characters are found: the first hit is the place of the
\* first finding.
LEMMA FirstHit ==
  ASSUME bytes \in Seq(Octet), NEW b \in Seq(Octet), WellFormed(b), Hits(b) # {}
  PROVE  \E k \in 0..Len(Starts(bytes)) :
           /\ Min(Hits(b)) = Place(bytes, k)
           /\ k \in Seen(bytes, Characters(b)) /\ Min(Seen(bytes, Characters(b))) = k
<1> DEFINE n == Len(Starts(bytes))
           H == Hits(b)
           F == Seen(bytes, Characters(b))
<1>1. /\ n \in Nat /\ Len(bytes) \in Nat /\ Place(bytes, 0) = 0
      /\ \A m \in 0..n : Place(bytes, m) \in 0..Len(bytes)
  BY PlaceIs
<1>2. Len(b) \in Nat
  BY LenProperties
<1>3. H \in SUBSET Nat /\ H # {}
  <2>1. \A i \in 0..Len(bytes) - Len(b) : i \in Nat
    BY <1>1, <1>2
  <2>2. \A i \in H : i \in 0..Len(bytes) - Len(b)
    BY DEF Hits
  <2> QED
    BY <2>1, <2>2
<1>4. PICK i \in H : \A h \in H : i <= h
  BY <1>3, Least
<1>5. Min(H) = i
  BY <1>3, <1>4, MinIs
<1>6. i \in 0..Len(bytes) - Len(b) /\ Stands(bytes, i, b)
  <2>1. i \in 0..Len(bytes) - Len(b) /\ SubSeq(bytes, i + 1, i + Len(b)) = b
    BY <1>4 DEF Hits
  <2> QED
    BY <2>1, StandsIs
<1>7. \E k \in 0..n : Place(bytes, k) = i
  <2>1. CASE Len(b) = 0
    <3>1. 0 \in 0..Len(bytes) - Len(b) /\ \A m \in 1..Len(b) : FALSE
      BY <1>1, <2>1
    <3>2. Stands(bytes, 0, b)
      BY <3>1 DEF Stands
    <3>3. SubSeq(bytes, 0 + 1, 0 + Len(b)) = b
      BY <3>1, <3>2, StandsIs
    <3>4. 0 \in H
      BY <3>1, <3>3 DEF Hits
    <3>5. i = 0
      BY <1>3, <1>4, <3>4
    <3> QED
      BY <1>1, <3>5
  <2>2. CASE Len(b) # 0
    <3>1. 1 \in 1..Len(b) /\ i \in 0..Len(bytes) - 1
      BY <1>1, <1>2, <1>6, <2>2
    <3>2. bytes[i + 1] = b[1]
      BY <1>6, <3>1 DEF Stands
    <3>3. Len(Starts(b)) \in Nat /\ Place(b, 0) = 0 /\ Place(b, Len(Starts(b))) = Len(b)
      BY PlaceIs
    <3>4. 0 \in 0..Len(Starts(b)) - 1
      BY <2>2, <3>3
    <3>5. ~IsContinuation(b[Place(b, 0) + 1])
      BY <3>4, WellStart
    <3>6. ~IsContinuation(bytes[i + 1])
      BY <3>2, <3>3, <3>5
    <3>7. PICK k \in 0..n - 1 : Place(bytes, k) = i
      BY <3>1, <3>6, LeadIsPlace
    <3> QED
      BY <1>1, <3>7
  <2> QED
    BY <2>1, <2>2
<1>8. PICK k \in 0..n : Place(bytes, k) = i
  BY <1>7
<1>9. k \in F
  BY <1>6, <1>8, StandsSeen
<1>10. ASSUME NEW m \in F PROVE k <= m
  <2>1. m \in 0..n /\ Stands(bytes, Place(bytes, m), b)
    BY SeenStands
  <2>2. Place(bytes, m) \in H
    <3>1. Place(bytes, m) \in 0..Len(bytes) - Len(b)
      BY <2>1 DEF Stands
    <3>2. SubSeq(bytes, Place(bytes, m) + 1, Place(bytes, m) + Len(b)) = b
      BY <2>1, <3>1, StandsIs
    <3> QED
      BY <3>1, <3>2 DEF Hits
  <2>3. i <= Place(bytes, m)
    BY <1>4, <2>2
  <2>4. m < k => Place(bytes, m) < i
    BY <1>8, <2>1, PlacesRise
  <2>5. Place(bytes, m) \in Int /\ i \in Int
    BY <1>3, <2>2
  <2>6. ~(m < k)
    BY <2>3, <2>4, <2>5
  <2> QED
    BY <1>1, <2>1, <2>6
<1>11. F \in SUBSET Nat
  <2>1. \A m \in F : m \in 0..n
    BY SeenStands
  <2> QED
    BY <1>1, <2>1
<1> HIDE DEF F, H
<1>12. Min(F) = k
  BY <1>9, <1>10, <1>11, MinIs
<1> QED
  BY <1>5, <1>8, <1>9, <1>12 DEF F, H

LEMMA NoHit ==
  ASSUME bytes \in Seq(Octet), NEW b \in Seq(Octet), Hits(b) = {}
  PROVE  Seen(bytes, Characters(b)) = {}
<1> SUFFICES ASSUME NEW k \in Seen(bytes, Characters(b)) PROVE FALSE
  OBVIOUS
<1>1. Stands(bytes, Place(bytes, k), b)
  BY SeenStands
<1>2. Place(bytes, k) \in 0..Len(bytes) - Len(b)
  BY <1>1 DEF Stands
<1>3. SubSeq(bytes, Place(bytes, k) + 1, Place(bytes, k) + Len(b)) = b
  BY <1>1, <1>2, StandsIs
<1> QED
  BY <1>2, <1>3 DEF Hits
-----------------------------------------------------------------------------
(* Splitting *)

\* The separators from byte i on, and the byte behind the first of them.
Later(b, i) == {h \in Hits(b) : h >= i}
Beyond(b, i) == Min(Later(b, i)) + Len(b)

LEMMA HitsAre ==
  ASSUME bytes \in Seq(Octet), NEW b \in Seq(Octet)
  PROVE  /\ Hits(b) \in SUBSET Nat
         /\ \A h \in Hits(b) : h \in 0..Len(bytes) - Len(b) /\ h + Len(b) \in 0..Len(bytes)
                                /\ SubSeq(bytes, h + 1, h + Len(b)) = b
<1>1. Len(bytes) \in Nat /\ Len(b) \in Nat
  BY LenProperties
<1>2. \A h \in Hits(b) : h \in 0..Len(bytes) - Len(b) /\ SubSeq(bytes, h + 1, h + Len(b)) = b
  BY DEF Hits
<1>3. \A h \in 0..Len(bytes) - Len(b) : h \in Nat /\ h + Len(b) \in 0..Len(bytes)
  BY <1>1
<1> QED
  BY <1>2, <1>3

LEMMA LaterIs ==
  ASSUME bytes \in Seq(Octet), NEW b \in Seq(Octet), Len(b) # 0, NEW i \in 0..Len(bytes),
         Later(b, i) # {}
  PROVE  LET h == Min(Later(b, i))
         IN  /\ h \in Hits(b) /\ h >= i /\ h \in 0..Len(bytes)
             /\ Beyond(b, i) = h + Len(b) /\ Beyond(b, i) \in i + 1..Len(bytes)
             /\ \A l \in Hits(b) : l >= i => h <= l
<1> DEFINE S == Later(b, i)
<1>1. Hits(b) \in SUBSET Nat /\ \A h \in Hits(b) : h \in 0..Len(bytes) - Len(b)
                                                   /\ h + Len(b) \in 0..Len(bytes)
  BY HitsAre
<1>2. S \in SUBSET Nat
  BY <1>1 DEF Later
<1>3. PICK h \in S : \A l \in S : h <= l
  BY <1>2, Least
<1>4. Min(S) = h
  BY <1>2, <1>3, MinIs
<1>5. h \in Hits(b) /\ h >= i /\ \A l \in Hits(b) : l >= i => h <= l
  BY <1>3 DEF Later
<1> HIDE DEF S
<1>6. Len(bytes) \in Nat /\ Len(b) \in Nat
  BY LenProperties
<1>7. h \in 0..Len(bytes) /\ h + Len(b) \in i + 1..Len(bytes)
  BY <1>1, <1>5, <1>6
<1> QED
  BY <1>4, <1>5, <1>7 DEF S, Beyond

\* What is left of the string from byte i on, cut; g is what is left from later bytes on.
CutBy(b, g, i) ==
  IF Later(b, i) = {} THEN <<SubSeq(bytes, i + 1, Len(bytes))>>
  ELSE <<SubSeq(bytes, i + 1, Min(Later(b, i)))>> \o g[Beyond(b, i)]

\* The walk of ob_str_split comes to an end.
LEMMA CutsExist ==
  ASSUME bytes \in Seq(Octet), NEW b \in Seq(Octet), Len(b) # 0
  PROVE  \E g : g = [i \in 0..Len(bytes) |-> CutBy(b, g, i)]
<1> DEFINE L == Len(bytes)
           From(m) == \E g : g = [i \in m..L |-> CutBy(b, g, i)]
           Missing == {k \in 0..L + 1 : ~From((L + 1) - k)}
<1>1. L \in Nat
  BY LenProperties
<1>2. From(L + 1)
  <2> DEFINE g == [i \in L + 1..L |-> <<>>]
  <2>1. \A i \in L + 1..L : FALSE
    BY <1>1
  <2>2. g = [i \in L + 1..L |-> CutBy(b, g, i)]
    BY <2>1
  <2> QED
    BY <2>2
<1>3. ASSUME NEW m \in 0..L, From(m + 1)
      PROVE  From(m)
  <2>1. PICK g : g = [i \in m + 1..L |-> CutBy(b, g, i)]
    BY <1>3
  <2> DEFINE h == [i \in m..L |-> IF i = m THEN CutBy(b, g, m) ELSE g[i]]
  <2>2. \A i \in m + 1..L : g[i] = CutBy(b, g, i)
    BY <2>1
  <2>3. ASSUME NEW i \in m..L PROVE h[i] = CutBy(b, h, i)
    <3>1. i \in 0..Len(bytes)
      BY <1>1
    <3>2. Later(b, i) # {} => Beyond(b, i) \in m..L /\ Beyond(b, i) # m
      <4> SUFFICES ASSUME Later(b, i) # {} PROVE Beyond(b, i) \in m..L /\ Beyond(b, i) # m
        OBVIOUS
      <4>1. Beyond(b, i) \in i + 1..Len(bytes)
        BY <3>1, LaterIs
      <4> QED
        BY <1>1, <4>1
    <3>3. Later(b, i) # {} => h[Beyond(b, i)] = g[Beyond(b, i)]
      BY <3>2
    <3>4. CutBy(b, h, i) = CutBy(b, g, i)
      <4> HIDE DEF h
      <4> QED
        BY <3>3, Zenon DEF CutBy
    <3>5. h[i] = CutBy(b, g, i)
      <4>1. CASE i = m
        BY <4>1
      <4>2. CASE i # m
        <5>1. i \in m + 1..L
          BY <1>1, <4>2
        <5> QED
          BY <2>2, <4>2, <5>1
      <4> QED
        BY <4>1, <4>2
    <3> QED
      BY <3>4, <3>5
  <2>4. h = [i \in m..L |-> CutBy(b, h, i)]
    <3>1. h = [i \in m..L |-> h[i]]
      OBVIOUS
    <3> HIDE DEF h
    <3> QED
      BY <2>3, <3>1, Zenon
  <2> HIDE DEF h
  <2> QED
    BY <2>4
<1>4. From(0)
  <2> SUFFICES ASSUME ~From(0) PROVE FALSE
    OBVIOUS
  <2> HIDE DEF From
  <2>1. L + 1 \in Missing
    BY <1>1
  <2>2. Missing \in SUBSET Nat
    OBVIOUS
  <2>3. PICK k \in Missing : \A j \in Missing : k <= j
    BY <2>1, <2>2, Least
  <2>4. k \in 0..L + 1 /\ ~From((L + 1) - k)
    BY <2>3
  <2>5. k # 0
    BY <1>1, <1>2, <2>4
  <2>6. k - 1 \in 0..L + 1 /\ ~(k <= k - 1)
    BY <1>1, <2>4, <2>5
  <2>7. k - 1 \notin Missing
    BY <2>3, <2>6
  <2>8. From((L + 1) - (k - 1))
    BY <2>6, <2>7
  <2>9. (L + 1) - k \in 0..L /\ (L + 1) - (k - 1) = ((L + 1) - k) + 1
    BY <1>1, <2>4, <2>5
  <2>10. From((L + 1) - k)
    BY <1>3, <2>8, <2>9
  <2> QED
    BY <2>4, <2>10
<1> QED
  BY <1>4

\* p are the pieces of the string from byte i on, ending at e: what is between two of
\* them is b, and b is nowhere else.
Cut(b, i, p, e) ==
  /\ p \in Seq(Seq(Octet)) /\ Len(p) \in Nat \ {0}
  /\ e \in [0..Len(p) -> Int] /\ e[0] + Len(b) = i /\ e[Len(p)] = Len(bytes)
  /\ \A k \in 1..Len(p) :
       /\ e[k - 1] + Len(b) \in 0..Len(bytes) /\ e[k] \in e[k - 1] + Len(b)..Len(bytes)
       /\ p[k] = SubSeq(bytes, e[k - 1] + Len(b) + 1, e[k])
       /\ \A h \in Hits(b) : ~(e[k - 1] + Len(b) <= h /\ h < e[k])
  /\ \A k \in 1..Len(p) - 1 : e[k] \in Hits(b)

LEMMA LastCut ==
  ASSUME bytes \in Seq(Octet), NEW b \in Seq(Octet), Len(b) # 0, NEW i \in 0..Len(bytes),
         Later(b, i) = {}
  PROVE  \E e : Cut(b, i, <<SubSeq(bytes, i + 1, Len(bytes))>>, e)
<1> DEFINE L == Len(bytes)
           c == SubSeq(bytes, i + 1, L)
           p == <<c>>
           e == [k \in 0..1 |-> IF k = 0 THEN i - Len(b) ELSE L]
<1>1. L \in Nat /\ Len(b) \in Nat /\ i \in 0..L
  BY LenProperties
<1>2. c \in Seq(Octet)
  BY <1>1, PieceIs
<1>3. \A h \in Hits(b) : ~(i <= h /\ h < L)
  BY DEF Later
<1> HIDE DEF c, L
<1>4. p \in Seq(Seq(Octet)) /\ Len(p) = 1 /\ p[1] = c
  BY <1>2
<1>5. e \in [0..1 -> Int] /\ e[0] = i - Len(b) /\ e[1] = L
  BY <1>1
<1> HIDE DEF p, e
<1>6. e[0] + Len(b) = i
  BY <1>1, <1>5
<1>7. ASSUME NEW k \in 1..Len(p)
      PROVE  /\ e[k - 1] + Len(b) \in 0..Len(bytes) /\ e[k] \in e[k - 1] + Len(b)..Len(bytes)
             /\ p[k] = SubSeq(bytes, e[k - 1] + Len(b) + 1, e[k])
             /\ \A h \in Hits(b) : ~(e[k - 1] + Len(b) <= h /\ h < e[k])
  <2>1. k = 1 /\ k - 1 = 0
    BY <1>4
  <2>2. e[k - 1] + Len(b) = i /\ e[k] = L /\ p[k] = c
    BY <1>4, <1>5, <1>6, <2>1
  <2>3. L \in i..L
    BY <1>1
  <2> QED
    BY <1>1, <1>3, <2>2, <2>3 DEF L, c
<1>8. \A k \in 1..Len(p) - 1 : FALSE
  BY <1>4
<1>9. Cut(b, i, p, e)
  BY <1>4, <1>5, <1>6, <1>7, <1>8 DEF Cut, L
<1> QED
  BY <1>9 DEF p, c, L

LEMMA CutBefore ==
  ASSUME bytes \in Seq(Octet), NEW b \in Seq(Octet), Len(b) # 0, NEW i \in 0..Len(bytes),
         Later(b, i) # {}, NEW p, NEW e, Cut(b, Beyond(b, i), p, e)
  PROVE  \E d : Cut(b, i, <<SubSeq(bytes, i + 1, Min(Later(b, i)))>> \o p, d)
<1> DEFINE L == Len(bytes)
           h == Min(Later(b, i))
           c == SubSeq(bytes, i + 1, h)
           q == <<c>> \o p
           d == [k \in 0..Len(q) |-> IF k = 0 THEN i - Len(b) ELSE e[k - 1]]
<1>1. L \in Nat /\ Len(b) \in Nat /\ i \in 0..L
  BY LenProperties
<1>2. /\ h \in Hits(b) /\ h >= i /\ h \in 0..L /\ Beyond(b, i) = h + Len(b)
      /\ \A l \in Hits(b) : l >= i => h <= l
  BY LaterIs
<1>3. p \in Seq(Seq(Octet)) /\ Len(p) \in Nat \ {0} /\ e \in [0..Len(p) -> Int]
  BY DEF Cut
<1>4. e[0] + Len(b) = Beyond(b, i) /\ e[Len(p)] = L
  BY DEF Cut
<1>5. \A k \in 1..Len(p) :
       /\ e[k - 1] + Len(b) \in 0..Len(bytes) /\ e[k] \in e[k - 1] + Len(b)..Len(bytes)
       /\ p[k] = SubSeq(bytes, e[k - 1] + Len(b) + 1, e[k])
       /\ \A l \in Hits(b) : ~(e[k - 1] + Len(b) <= l /\ l < e[k])
  BY DEF Cut
<1>6. \A k \in 1..Len(p) - 1 : e[k] \in Hits(b)
  BY DEF Cut
<1>7. Hits(b) \in SUBSET Nat
  BY HitsAre
<1> HIDE DEF h
<1>8. c \in Seq(Octet)
  BY <1>1, <1>2, PieceIs
<1> HIDE DEF c
<1>9. /\ q \in Seq(Seq(Octet)) /\ Len(q) = Len(p) + 1 /\ q[1] = c
      /\ \A k \in 1..Len(p) : q[k + 1] = p[k]
  BY <1>3, <1>8, OneMore
<1> HIDE DEF q, L
<1>10. e[0] = h
  <2>1. 0 \in 0..Len(p)
    BY <1>3
  <2>2. e[0] \in Int
    BY <1>3, <2>1
  <2>3. h \in Int
    BY <1>1, <1>2
  <2> QED
    BY <1>1, <1>2, <1>4, <2>2, <2>3
<1>11. /\ d[0] = i - Len(b) /\ d[1] = h /\ d[Len(q)] = L
       /\ \A k \in 0..Len(p) : d[k + 1] = e[k]
  <2>1. 0 \in 0..Len(q) /\ 1 \in 0..Len(q) /\ Len(q) \in 0..Len(q) /\ Len(q) # 0 /\ Len(q) - 1 = Len(p)
    BY <1>3, <1>9
  <2>2. \A k \in 0..Len(p) : k + 1 \in 0..Len(q) /\ k + 1 # 0 /\ (k + 1) - 1 = k
    BY <1>3, <1>9
  <2>3. 1 - 1 = 0
    OBVIOUS
  <2> QED
    BY <1>4, <1>10, <2>1, <2>2, <2>3
<1>12. d \in [0..Len(q) -> Int]
  <2>1. \A k \in 0..Len(q) : k # 0 => k - 1 \in 0..Len(p)
    BY <1>3, <1>9
  <2>2. i - Len(b) \in Int
    BY <1>1
  <2> QED
    BY <1>3, <2>1, <2>2
<1> HIDE DEF d
<1>13. d[0] + Len(b) = i
  BY <1>1, <1>11
<1>14. ASSUME NEW k \in 1..Len(q)
       PROVE  /\ d[k - 1] + Len(b) \in 0..Len(bytes) /\ d[k] \in d[k - 1] + Len(b)..Len(bytes)
              /\ q[k] = SubSeq(bytes, d[k - 1] + Len(b) + 1, d[k])
              /\ \A l \in Hits(b) : ~(d[k - 1] + Len(b) <= l /\ l < d[k])
  <2>1. CASE k = 1
    <3>1. d[k - 1] + Len(b) = i /\ d[k] = h /\ q[k] = c
      BY <1>9, <1>11, <1>13, <2>1
    <3>2. h \in i..L
      BY <1>1, <1>2
    <3>3. \A l \in Hits(b) : ~(i <= l /\ l < h)
      BY <1>1, <1>2, <1>7
    <3> QED
      BY <1>1, <3>1, <3>2, <3>3 DEF c, L
  <2>2. CASE k # 1
    <3> DEFINE m == k - 1
    <3>1. m \in 1..Len(p) /\ m - 1 \in 0..Len(p) /\ m \in 0..Len(p) /\ m + 1 = k /\ (m - 1) + 1 = k - 1
      BY <1>3, <1>9, <2>2
    <3>2. d[k - 1] = e[m - 1] /\ d[k] = e[m] /\ q[k] = p[m]
      BY <1>9, <1>11, <3>1
    <3> HIDE DEF m
    <3> QED
      BY <1>5, <3>1, <3>2
  <2> QED
    BY <2>1, <2>2
<1>15. ASSUME NEW k \in 1..Len(q) - 1 PROVE d[k] \in Hits(b)
  <2>1. CASE k = 1
    BY <1>2, <1>11, <2>1
  <2>2. CASE k # 1
    <3>1. k - 1 \in 1..Len(p) - 1 /\ k - 1 \in 0..Len(p) /\ (k - 1) + 1 = k
      BY <1>3, <1>9, <2>2
    <3>2. d[k] = e[k - 1]
      BY <1>11, <3>1
    <3> QED
      BY <1>6, <3>1, <3>2
  <2> QED
    BY <2>1, <2>2
<1>16. Len(q) \in Nat \ {0}
  BY <1>3, <1>9
<1>17. Cut(b, i, q, d)
  BY <1>9, <1>11, <1>12, <1>13, <1>14, <1>15, <1>16 DEF Cut, L
<1> QED
  BY <1>17 DEF q, c, h

LEMMA PiecesAre ==
  ASSUME bytes \in Seq(Octet), NEW b \in Seq(Octet), Len(b) # 0
  PROVE  \E e : Cut(b, 0, Pieces(b), e)
<1> DEFINE L == Len(bytes)
           f == CHOOSE g : g = [i \in 0..Len(bytes) |->
                  LET hits == {h \in Hits(b) : h >= i}
                  IN IF hits = {} THEN <<SubSeq(bytes, i + 1, Len(bytes))>>
                     ELSE <<SubSeq(bytes, i + 1, Min(hits))>> \o g[Min(hits) + Len(b)]]
           Good(i) == \E e : Cut(b, i, f[i], e)
           Wrong == {k \in 0..L : ~Good(L - k)}
<1>1. L \in Nat
  BY LenProperties
<1>2. f = [i \in 0..Len(bytes) |-> CutBy(b, f, i)]
  BY CutsExist DEF CutBy, Later, Beyond
<1>3. Pieces(b) = f[0]
  BY DEF Pieces
<1> HIDE DEF f
<1>4. \A i \in 0..L : f[i] = CutBy(b, f, i)
  BY <1>2, Zenon
<1>5. ASSUME NEW i \in 0..L, \A j \in i + 1..L : Good(j)
      PROVE  Good(i)
  <2>1. CASE Later(b, i) = {}
    <3>1. f[i] = <<SubSeq(bytes, i + 1, Len(bytes))>>
      BY <1>4, <2>1 DEF CutBy
    <3>2. \E e : Cut(b, i, <<SubSeq(bytes, i + 1, Len(bytes))>>, e)
      BY <2>1, LastCut
    <3> QED
      BY <3>1, <3>2
  <2>2. CASE Later(b, i) # {}
    <3>1. f[i] = <<SubSeq(bytes, i + 1, Min(Later(b, i)))>> \o f[Beyond(b, i)]
      BY <1>4, <2>2 DEF CutBy
    <3>2. Beyond(b, i) \in i + 1..L
      BY <2>2, LaterIs
    <3>3. PICK e : Cut(b, Beyond(b, i), f[Beyond(b, i)], e)
      BY <1>5, <3>2
    <3>4. \E d : Cut(b, i, <<SubSeq(bytes, i + 1, Min(Later(b, i)))>> \o f[Beyond(b, i)], d)
      BY <2>2, <3>3, CutBefore
    <3> QED
      BY <3>1, <3>4
  <2> QED
    BY <2>1, <2>2
<1> HIDE DEF Good
<1>6. Wrong = {}
  <2> SUFFICES ASSUME Wrong # {} PROVE FALSE
    OBVIOUS
  <2>1. Wrong \in SUBSET Nat
    OBVIOUS
  <2>2. PICK k \in Wrong : \A j \in Wrong : k <= j
    BY <2>1, Least
  <2>3. k \in 0..L /\ ~Good(L - k)
    BY <2>2
  <2>4. ASSUME NEW j \in (L - k) + 1..L PROVE Good(j)
    <3>1. L - j \in 0..L /\ ~(k <= L - j) /\ L - (L - j) = j
      BY <1>1, <2>3
    <3>2. L - j \notin Wrong
      BY <2>2, <3>1
    <3>3. Good(L - (L - j))
      BY <3>1, <3>2
    <3> QED
      BY <3>1, <3>3
  <2>5. L - k \in 0..L
    BY <1>1, <2>3
  <2> QED
    BY <1>5, <2>3, <2>4, <2>5
<1>7. L \in 0..L /\ L - L = 0
  BY <1>1
<1>8. Good(0)
  BY <1>6, <1>7
<1> QED
  BY <1>3, <1>8 DEF Good

\* Joined with b between them, the pieces are the string.
LEMMA CutJoins ==
  ASSUME bytes \in Seq(Octet), NEW b \in Seq(Octet), NEW p, NEW e, Cut(b, 0, p, e)
  PROVE  FlattenSeq([k \in DOMAIN p |-> IF k = 1 THEN p[k] ELSE b \o p[k]]) = bytes
<1> DEFINE L == Len(bytes)
           m == Len(p)
           t == [k \in DOMAIN p |-> IF k = 1 THEN p[k] ELSE b \o p[k]]
           g == [k \in 0..m |-> IF k = 0 THEN <<>> ELSE SubSeq(bytes, 1, e[k])]
<1>1. /\ L \in Nat /\ Len(b) \in Nat /\ m \in Nat \ {0} /\ p \in Seq(Seq(Octet)) /\ DOMAIN p = 1..m
      /\ e \in [0..m -> Int]
  BY LenProperties DEF Cut
<1>2. e[0] + Len(b) = 0 /\ e[m] = L
  BY DEF Cut
<1>3. \A k \in 1..m :
        /\ e[k - 1] + Len(b) \in 0..L /\ e[k] \in e[k - 1] + Len(b)..L
        /\ p[k] = SubSeq(bytes, e[k - 1] + Len(b) + 1, e[k])
  BY DEF Cut
<1>4. \A k \in 1..m - 1 : e[k] \in Hits(b)
  BY DEF Cut
<1> HIDE DEF m
<1>5. \A k \in 1..m : p[k] \in Seq(Octet)
  BY <1>1, ElementOfSeq DEF m
<1>6. \A k \in 1..m : e[k] \in 0..L
  <2> SUFFICES ASSUME NEW k \in 1..m PROVE e[k] \in 0..L
    OBVIOUS
  <2>1. e[k - 1] + Len(b) \in 0..L /\ e[k] \in e[k - 1] + Len(b)..L
    BY <1>3
  <2> QED
    BY <1>1, <2>1
<1>7. t = [k \in 1..m |-> IF k = 1 THEN p[k] ELSE b \o p[k]]
  BY <1>1
<1>8. \A k \in 1..m : t[k] = IF k = 1 THEN p[k] ELSE b \o p[k]
  BY <1>7
<1>9. \A k \in 1..m : b \o p[k] \in Seq(Octet)
  BY <1>5, ConcatProperties
<1>10. t \in [1..m -> Seq(Octet)]
  <2>1. \A k \in 1..m : t[k] \in Seq(Octet)
    BY <1>5, <1>8, <1>9
  <2>2. t = [k \in 1..m |-> t[k]]
    BY <1>7
  <2> HIDE DEF t
  <2> QED
    BY <2>1, <2>2
<1> HIDE DEF t
<1>11. t \in Seq(Seq(Octet)) /\ Len(t) = m
  BY <1>1, <1>10
<1>12. g[0] = <<>> /\ \A k \in 1..m : g[k] = SubSeq(bytes, 1, e[k])
  BY <1>1
<1> HIDE DEF g, L
<1>13. ASSUME NEW k \in 1..m PROVE g[k - 1] \in Seq(Octet) /\ g[k] = g[k - 1] \o t[k]
  <2>1. g[k] = SubSeq(bytes, 0 + 1, e[k])
    BY <1>12
  <2>2. CASE k = 1
    <3>1. g[k - 1] = <<>> /\ t[k] = p[k]
      BY <1>8, <1>12, <2>2
    <3>2. p[k] = SubSeq(bytes, 0 + 1, e[k])
      <4>1. k - 1 = 0
        BY <2>2
      <4>2. e[k - 1] + Len(b) = 0
        BY <1>2, <4>1
      <4> QED
        BY <1>3, <4>2
    <3>3. <<>> \o p[k] = p[k]
      BY <1>5, ConcatEmptySeq
    <3>4. <<>> \in Seq(Octet)
      BY EmptySeq
    <3> QED
      BY <2>1, <3>1, <3>2, <3>3, <3>4
  <2>3. CASE k # 1
    <3> DEFINE x == e[k - 1]
               y == e[k]
    <3>1. k - 1 \in 1..m - 1 /\ k - 1 \in 1..m
      BY <1>1, <2>3
    <3>2. x \in Hits(b) /\ x \in 0..L
      BY <1>4, <1>6, <3>1
    <3>3. x + Len(b) \in 0..L /\ SubSeq(bytes, x + 1, x + Len(b)) = b
      BY <3>2, HitsAre DEF L
    <3>4. y \in x + Len(b)..L /\ p[k] = SubSeq(bytes, (x + Len(b)) + 1, y)
      BY <1>3
    <3>5. g[k - 1] = SubSeq(bytes, 1, x)
      BY <1>12, <3>1
    <3>6. t[k] = b \o p[k]
      BY <1>8, <2>3
    <3>7. g[k] = SubSeq(bytes, 1, y)
      BY <1>12
    <3> HIDE DEF x, y
    <3>8. b \o p[k] = SubSeq(bytes, x + 1, y)
      <4>1. /\ x + 1 \in 1..Len(bytes) + 1 /\ x + Len(b) \in (x + 1) - 1..Len(bytes)
            /\ y \in x + Len(b)..Len(bytes)
        BY <1>1, <3>2, <3>3, <3>4 DEF L
      <4>2. /\ SubSeq(bytes, x + 1, x + Len(b)) \o SubSeq(bytes, (x + Len(b)) + 1, y)
               = SubSeq(bytes, x + 1, y)
        BY <4>1, ConcatAdjacentSubSeq
      <4> QED
        BY <3>3, <3>4, <4>2
    <3>9. SubSeq(bytes, 1, x) \o SubSeq(bytes, x + 1, y) = SubSeq(bytes, 1, y)
      <4>1. /\ 1 \in 1..Len(bytes) + 1 /\ x \in 1 - 1..Len(bytes) /\ y \in x..Len(bytes)
        BY <1>1, <3>2, <3>3, <3>4 DEF L
      <4> QED
        BY <4>1, ConcatAdjacentSubSeq
    <3>10. g[k - 1] \in Seq(Octet)
      <4>1. 0 \in 0..Len(bytes) /\ x \in 0..Len(bytes) /\ 0 + 1 = 1
        BY <1>1, <3>2 DEF L
      <4>2. SubSeq(bytes, 0 + 1, x) \in Seq(Octet)
        BY <4>1, PieceIs
      <4> QED
        BY <3>5, <4>1, <4>2
    <3> QED
      BY <3>5, <3>6, <3>7, <3>8, <3>9, <3>10
  <2> QED
    BY <2>2, <2>3
<1>14. FlattenSeq(t) = g[m]
  <2>1. \A k \in 1..Len(t) : g[k - 1] \in Seq(Octet) /\ g[k] = g[k - 1] \o t[k]
    BY <1>11, <1>13
  <2>2. FlattenSeq(t) = g[Len(t)]
    BY <1>11, <1>12, <2>1, FlatBy
  <2> QED
    BY <1>11, <2>2
<1>15. g[m] = SubSeq(bytes, 1, Len(bytes))
  BY <1>1, <1>2, <1>12 DEF L
<1> QED
  BY <1>14, <1>15, SubSeqFull DEF t

\* b is in none of the pieces.
LEMMA CutBare ==
  ASSUME bytes \in Seq(Octet), NEW b \in Seq(Octet), Len(b) # 0, NEW p, NEW e, Cut(b, 0, p, e),
         NEW k \in 1..Len(p)
  PROVE  {j \in 0..Len(p[k]) - Len(b) : SubSeq(p[k], j + 1, j + Len(b)) = b} = {}
<1> DEFINE L == Len(bytes)
           x == e[k - 1] + Len(b)
           y == e[k]
           c == p[k]
<1>1. /\ x \in 0..L /\ y \in x..L /\ c = SubSeq(bytes, x + 1, y)
      /\ \A h \in Hits(b) : ~(x <= h /\ h < y)
  BY DEF Cut
<1>2. L \in Nat /\ Len(b) \in Nat
  BY LenProperties
<1> HIDE DEF x, y, c, L
<1>3. \A l \in x + 1..y : bytes[l] \in Octet
  <2>1. \A l \in x + 1..y : l \in 1..Len(bytes)
    BY <1>1, <1>2 DEF L
  <2> QED
    BY <2>1, ElementOfSeq
<1>4. x + 1 \in Int /\ y \in Int
  BY <1>1, <1>2
<1>5. /\ c \in Seq(Octet)
      /\ Len(c) = IF x + 1 <= y THEN (y - (x + 1)) + 1 ELSE 0
      /\ \A l \in 1..(y - (x + 1)) + 1 : c[l] = bytes[((x + 1) + l) - 1]
  BY <1>1, <1>3, <1>4, SubSeqProperties
<1>6. Len(c) = y - x
  BY <1>1, <1>2, <1>5
<1>7. \A l \in 1..y - x : c[l] = bytes[x + l]
  <2>1. \A l \in 1..y - x : l \in 1..(y - (x + 1)) + 1 /\ ((x + 1) + l) - 1 = x + l
    BY <1>1, <1>2
  <2> QED
    BY <1>5, <2>1
<1>8. ASSUME NEW j \in 0..Len(c) - Len(b), SubSeq(c, j + 1, j + Len(b)) = b PROVE FALSE
  <2>1. Stands(c, j, b)
    BY <1>5, <1>8, StandsIs
  <2>2. x + j \in 0..L - Len(b) /\ x <= x + j /\ x + j < y
    BY <1>1, <1>2, <1>6
  <2>3. ASSUME NEW l \in 1..Len(b) PROVE bytes[(x + j) + l] = b[l]
    <3>1. j + l \in 1..y - x /\ x + (j + l) = (x + j) + l
      BY <1>1, <1>2, <1>6
    <3>2. c[j + l] = b[l]
      BY <2>1 DEF Stands
    <3> QED
      BY <1>7, <3>1, <3>2
  <2>4. Stands(bytes, x + j, b)
    BY <2>2, <2>3 DEF Stands, L
  <2>5. SubSeq(bytes, (x + j) + 1, (x + j) + Len(b)) = b
    BY <2>2, <2>4, StandsIs DEF L
  <2>6. x + j \in Hits(b)
    BY <2>2, <2>5 DEF Hits, L
  <2> QED
    BY <1>1, <2>2, <2>6
<1> QED
  BY <1>8 DEF c
-----------------------------------------------------------------------------
(* Every method is the method of Text *)

LEMMA SameWords ==
  /\ \A t : Characterwise!Bytes(t) = Bytes(t)
  /\ \A a, m : Characterwise!Clamp(a, m) = Clamp(a, m)
  /\ \A S : Characterwise!Min(S) = Min(S)
  /\ \A t : Characterwise!FlattenSeq(t) = FlattenSeq(t)
  /\ \A s, w : Characterwise!Found(Characters(s), w) = Seen(s, w)
<1>1. ASSUME NEW t PROVE Characterwise!Bytes(t) = Bytes(t)
  BY DEF Bytes, Characterwise!Bytes, FlattenSeq, Characterwise!FlattenSeq
<1>2. ASSUME NEW a, NEW m PROVE Characterwise!Clamp(a, m) = Clamp(a, m)
  BY DEF Clamp, Characterwise!Clamp
<1>3. ASSUME NEW S PROVE Characterwise!Min(S) = Min(S)
  BY DEF Min, Characterwise!Min
<1>4. ASSUME NEW s, NEW w PROVE Characterwise!Found(Characters(s), w) = Seen(s, w)
  BY DEF Seen, Characterwise!Found
<1>5. ASSUME NEW t PROVE Characterwise!FlattenSeq(t) = FlattenSeq(t)
  BY DEF FlattenSeq, Characterwise!FlattenSeq
<1> QED
  BY <1>1, <1>2, <1>3, <1>4, <1>5

\* A call of a method of Text, for the step it is made in.
LEMMA AskedRefines ==
  ASSUME NEW c, NEW h, NEW r, Asked(c, h, r), asked' = c /\ answer' = r => Characterwise!Ask
  PROVE  Characterwise!Next
<1>1. asked = <<>> /\ asked' = c /\ answer' = r /\ bytes' = bytes
  BY DEF Asked
<1>2. Characters(bytes)' = Characters(bytes)
  BY <1>1
<1> QED
  BY <1>1, <1>2 DEF Characterwise!Next

LEMMA LenRefines == ASSUME StringInv, len PROVE Characterwise!Next
<1>1. Tells(bytes, Counted) /\ Counted.cps # Unset /\ bytes \in Seq(Octet)
  BY CountedTells DEF StringInv
<1>2. Counted.cps = Len(Characters(bytes))
  BY <1>1, CharactersIs DEF Tells
<1>3. Asked(<<"len">>, Counted, Counted.cps)
  BY DEF len
<1>4. asked' = <<"len">> /\ answer' = Counted.cps => Characterwise!Ask
  BY <1>2 DEF Characterwise!Ask, Characterwise!Length
<1> QED
  BY <1>3, <1>4, AskedRefines

LEMMA ReverseRefines == ASSUME StringInv, ob_str_reverse PROVE Characterwise!Next
<1> DEFINE r == Bytes(Reverse(Characters(bytes)))
<1>1. Asked(<<"reverse">>, hdr, r)
  BY DEF ob_str_reverse
<1>2. Characterwise!Bytes(Characterwise!Reverse(Characters(bytes))) = r
  <2>1. Characterwise!Reverse(Characters(bytes)) = Reverse(Characters(bytes))
    BY DEF Reverse, Characterwise!Reverse
  <2> QED
    BY <2>1, SameWords
<1>3. asked' = <<"reverse">> /\ answer' = r => Characterwise!Ask
  <2> HIDE DEF r
  <2> QED
    BY <1>2 DEF Characterwise!Ask, Characterwise!Reversed
<1> HIDE DEF r
<1> QED
  BY <1>1, <1>3, AskedRefines

LEMMA ValueRefines ==
  ASSUME StringInv, NEW k \in Indices, ob_iter_value(k) PROVE Characterwise!Next
<1> DEFINE n == Len(Starts(bytes))
           c == Characters(bytes)
           p == ob_cp_to_byte(Counted, k)
           r == IF k \in 0..Len(c) - 1 THEN c[k + 1] ELSE Nothing
<1>1. bytes \in Seq(Octet) /\ Tells(bytes, Counted) /\ Counted.cps # Unset /\ Counted.cps = n
  BY CountedTells DEF StringInv, Tells
<1>2. n \in Nat /\ Len(c) = n
  BY <1>1, PlaceIs, CharactersIs
<1>3. k \in Int /\ k \in Characterwise!Indices
  BY <1>2 DEF Indices, Characterwise!Indices
<1>4. asked' = <<"value", k>> /\ answer' = r => Characterwise!Ask
  BY <1>3 DEF Characterwise!Ask, Characterwise!Character
<1>5. CASE k < 0 \/ k >= Counted.cps
  <2>1. Asked(<<"value", k>>, Counted, Nothing)
    BY <1>5, Zenon DEF ob_iter_value
  <2>2. r = Nothing
    BY <1>1, <1>2, <1>3, <1>5
  <2> HIDE DEF r
  <2> QED
    BY <1>4, <2>1, <2>2, AskedRefines
<1>6. CASE ~(k < 0 \/ k >= Counted.cps)
  <2>1. Asked(<<"value", k>>, p.hdr, SubSeq(bytes, p.at + 1, p.at + Width(bytes, p.at)))
    BY <1>6, Zenon DEF ob_iter_value, Width
  <2>2. k \in 0..n - 1 /\ k \in 0..n
    BY <1>1, <1>2, <1>3, <1>6
  <2>3. r = c[k + 1]
    BY <1>2, <2>2
  <2>4. c[k + 1] = SubSeq(bytes, Place(bytes, k) + 1, Place(bytes, k + 1))
    BY <1>1, <2>2, CharactersIs
  <2>5. p.at = Place(bytes, k)
    BY <1>1, <2>2, FindsPlace
  <2>6. Place(bytes, k + 1) = Place(bytes, k) + Width(bytes, Place(bytes, k))
    BY <1>1, <2>2, PlaceIs
  <2> HIDE DEF p, r
  <2>7. SubSeq(bytes, p.at + 1, p.at + Width(bytes, p.at)) = r
    BY <2>3, <2>4, <2>5, <2>6
  <2> QED
    BY <1>4, <2>1, <2>7, AskedRefines
<1> QED
  BY <1>5, <1>6

\* What ob_str_substr gives, in characters.
LEMMA SubstrIs ==
  ASSUME StringInv, NEW c, NEW start \in Int, NEW l0 \in Int, Substr(c, start, l0)
  PROVE  LET n == Len(Starts(bytes))
             a == Clamp(start, n)
             l == IF l0 < 0 THEN 0 ELSE IF a + l0 > n THEN n - a ELSE l0
         IN  \E h : Asked(c, h, Bytes(SubSeq(Characters(bytes), a + 1, a + l)))
<1> DEFINE n == Len(Starts(bytes))
           a == Clamp(start, n)
           l == IF l0 < 0 THEN 0 ELSE IF a + l0 > n THEN n - a ELSE l0
           from == ob_cp_to_byte(Counted, a)
           to == ob_cp_to_byte(from.hdr, a + l)
<1>1. bytes \in Seq(Octet) /\ Tells(bytes, Counted) /\ Counted.cps # Unset /\ Counted.cps = n
  BY CountedTells DEF StringInv, Tells
<1>2. n \in Nat
  BY <1>1, PlaceIs
<1>3. Asked(c, to.hdr, SubSeq(bytes, from.at + 1, to.at))
  BY <1>1, Zenon DEF Substr
<1> HIDE DEF n
<1>4. a \in 0..n
  BY <1>2 DEF Clamp
<1> HIDE DEF a
<1>5. a + l \in 0..n /\ a + l \in a..n
  BY <1>2, <1>4
<1> HIDE DEF l
<1>6. a \in 0..Len(Starts(bytes)) /\ a + l \in 0..Len(Starts(bytes)) /\ a + l \in a..Len(Starts(bytes))
  BY <1>4, <1>5 DEF n
<1>7. from.at = Place(bytes, a) /\ Tells(bytes, from.hdr) /\ from.hdr.cps # Unset
  BY <1>1, <1>6, FindsPlace
<1> HIDE DEF from
<1>8. to.at = Place(bytes, a + l)
  BY <1>1, <1>6, <1>7, FindsPlace
<1> HIDE DEF to
<1>9. Bytes(SubSeq(Characters(bytes), a + 1, a + l))
        = SubSeq(bytes, Place(bytes, a) + 1, Place(bytes, a + l))
  BY <1>1, <1>6, FlatPlaces
<1>10. Asked(c, to.hdr, Bytes(SubSeq(Characters(bytes), a + 1, a + l)))
  BY <1>3, <1>7, <1>8, <1>9
<1> QED
  BY <1>10 DEF a, l, n

LEMMA StrSubstrRefines ==
  ASSUME StringInv, NEW a0 \in Indices, NEW l0 \in Indices, ob_str_substr(a0, l0)
  PROVE  Characterwise!Next
<1> DEFINE n == Len(Starts(bytes))
           t == Characters(bytes)
           a == Clamp(a0, n)
           l == IF l0 < 0 THEN 0 ELSE IF a + l0 > n THEN n - a ELSE l0
           r == Bytes(SubSeq(t, a + 1, a + l))
<1>1. n \in Nat /\ Len(t) = n
  BY PlaceIs, CharactersIs DEF StringInv
<1>2. a0 \in Int /\ l0 \in Int /\ a0 \in Characterwise!Indices /\ l0 \in Characterwise!Indices
  BY <1>1 DEF Indices, Characterwise!Indices
<1>3. \E h : Asked(<<"substr", a0, l0>>, h, r)
  BY <1>2, SubstrIs DEF ob_str_substr
<1> HIDE DEF n
<1>4. a \in 0..n
  BY <1>1, <1>2 DEF Clamp
<1> HIDE DEF a
<1>5. Clamp(l0, n - a) = l
  BY <1>1, <1>2, <1>4 DEF Clamp
<1> HIDE DEF l
<1>6. LET from == Characterwise!Clamp(a0, Len(t))
      IN  Characterwise!Bytes(SubSeq(t, from + 1, from + Characterwise!Clamp(l0, Len(t) - from))) = r
  BY <1>1, <1>5, SameWords DEF a
<1> HIDE DEF r
<1>7. asked' = <<"substr", a0, l0>> /\ answer' = r => Characterwise!Ask
  BY <1>2, <1>6 DEF Characterwise!Ask, Characterwise!Substring, t
<1> QED
  BY <1>3, <1>7, AskedRefines

LEMMA SliceRefines ==
  ASSUME StringInv, NEW a0 \in Indices, NEW b0 \in Indices, ob_m_slice(a0, b0)
  PROVE  Characterwise!Next
<1> DEFINE n == Len(Starts(bytes))
           t == Characters(bytes)
           a == IF a0 < 0 THEN 0 ELSE a0
           b == IF b0 > n THEN n ELSE b0
           d == IF b > a THEN b - a ELSE 0
           x == Clamp(a, n)
           l == IF d < 0 THEN 0 ELSE IF x + d > n THEN n - x ELSE d
           r == Bytes(SubSeq(t, x + 1, x + l))
<1>1. n \in Nat /\ Len(t) = n
  BY PlaceIs, CharactersIs DEF StringInv
<1>2. a0 \in Int /\ b0 \in Int /\ a0 \in Characterwise!Indices /\ b0 \in Characterwise!Indices
  BY <1>1 DEF Indices, Characterwise!Indices
<1>3. a \in Nat /\ b \in Int /\ d \in Int
  BY <1>1, <1>2
<1>4. Substr(<<"slice", a0, b0>>, a, d)
  <2>1. Counted.cps = n
    BY CountedTells DEF StringInv, Tells
  <2> QED
    BY <2>1, Zenon DEF ob_m_slice
<1>5. \E h : Asked(<<"slice", a0, b0>>, h, r)
  <2> HIDE DEF a, d
  <2> QED
    BY <1>3, <1>4, SubstrIs
<1>6. Bytes(SubSeq(t, a + 1, Clamp(b0, n))) = r
  <2> HIDE DEF n, t
  <2>1. CASE b > a
    <3>1. x = a /\ l = b - a /\ x + l = b /\ Clamp(b0, n) = b
      BY <1>1, <1>2, <2>1 DEF Clamp
    <3> HIDE DEF a, b, x, l
    <3> QED
      BY <3>1
  <2>2. CASE ~(b > a)
    <3>1. l = 0 /\ x \in Int /\ Clamp(b0, n) \in Int /\ Clamp(b0, n) < a + 1 /\ a + 1 \in Int
      BY <1>1, <1>2, <2>2 DEF Clamp
    <3> HIDE DEF a, b, l, x
    <3>2. x + l = x /\ x + l < x + 1 /\ x + 1 \in Int /\ x + l \in Int
      BY <3>1
    <3>3. SubSeq(t, a + 1, Clamp(b0, n)) = <<>> /\ SubSeq(t, x + 1, x + l) = <<>>
      BY <3>1, <3>2, SubSeqEmpty
    <3> QED
      BY <3>3
  <2> QED
    BY <2>1, <2>2
<1>7. Characterwise!Bytes(SubSeq(t, a + 1, Characterwise!Clamp(b0, Len(t)))) = r
  <2> HIDE DEF r, t, a, n
  <2> QED
    BY <1>1, <1>6, SameWords
<1> HIDE DEF r
<1>8. asked' = <<"slice", a0, b0>> /\ answer' = r => Characterwise!Ask
  BY <1>2, <1>7 DEF Characterwise!Ask, Characterwise!Slice
<1> QED
  BY <1>5, <1>8, AskedRefines

LEMMA WordIs ==
  ASSUME NEW w \in Words
  PROVE  /\ Bytes(w) \in Seq(Octet) /\ WellFormed(Bytes(w)) /\ w = Characters(Bytes(w))
         /\ w # <<>> => Len(Bytes(w)) # 0
<1> DEFINE b == Bytes(w)
<1>1. b \in Seq(Octet) /\ WellFormed(b) /\ w = Characters(b)
  BY WordsAssumption
<1> HIDE DEF b
<1>2. ASSUME Len(b) = 0 PROVE w = <<>>
  <2>1. Len(Starts(b)) \in Nat /\ Place(b, 0) = 0
    BY <1>1, PlaceIs
  <2>2. 0 \in 0..Len(Starts(b))
    BY <2>1
  <2>3. Len(Starts(b)) - 0 <= Len(b) - Place(b, 0)
    BY <1>1, <2>2, PlacesGrow
  <2>4. Len(Starts(b)) = 0
    BY <1>2, <2>1, <2>3
  <2>5. w \in Seq(Seq(Octet)) /\ Len(w) = 0
    BY <1>1, <2>4, CharactersIs
  <2> QED
    BY <2>5, EmptySeq
<1> QED
  BY <1>1, <1>2 DEF b

LEMMA IndexOfRefines ==
  ASSUME StringInv, NEW w \in Words, ob_str_index_of(w) PROVE Characterwise!Next
<1> DEFINE t == Characters(bytes)
           b == Bytes(w)
           F == Characterwise!Found(t, w)
           r == IF F = {} THEN -1 ELSE Characterwise!Min(F)
<1>1. bytes \in Seq(Octet) /\ b \in Seq(Octet) /\ WellFormed(b) /\ w = Characters(b)
  BY WordIs DEF StringInv
<1>2. F = Seen(bytes, Characters(b))
  BY <1>1, SameWords
<1>3. asked' = <<"index_of", w>> /\ answer' = r => Characterwise!Ask
  BY DEF Characterwise!Ask, Characterwise!IndexOf
<1> HIDE DEF b, F
<1>4. CASE Hits(b) = {}
  <2>1. Asked(<<"index_of", w>>, hdr, -1)
    BY <1>4, Zenon DEF ob_str_index_of, b
  <2>2. F = {}
    BY <1>1, <1>2, <1>4, NoHit
  <2> QED
    BY <1>3, <2>1, <2>2, AskedRefines
<1>5. CASE Hits(b) # {}
  <2>1. Asked(<<"index_of", w>>, Counted, ob_byte_to_cp(Min(Hits(b))))
    BY <1>5, Zenon DEF ob_str_index_of, b
  <2>2. PICK k \in 0..Len(Starts(bytes)) :
          Min(Hits(b)) = Place(bytes, k) /\ k \in F /\ Min(F) = k
    BY <1>1, <1>2, <1>5, FirstHit
  <2>3. ob_byte_to_cp(Min(Hits(b))) = k
    BY <1>1, <2>2, PlaceCounts
  <2>4. r = k
    BY <2>2, SameWords
  <2> HIDE DEF r
  <2> QED
    BY <1>3, <2>1, <2>3, <2>4, AskedRefines
<1> QED
  BY <1>4, <1>5

LEMMA SplitRefines ==
  ASSUME StringInv, NEW w \in Words, ob_str_split(w) PROVE Characterwise!Next
<1> DEFINE t == Characters(bytes)
           b == Bytes(w)
<1>1. bytes \in Seq(Octet) /\ b \in Seq(Octet)
  BY WordIs DEF StringInv
<1>2. CASE w = <<>>
  <2>1. Asked(<<"split", w>>, hdr, t)
    BY <1>2, Zenon DEF ob_str_split
  <2>2. asked' = <<"split", w>> /\ answer' = t => Characterwise!Ask
    BY <1>2 DEF Characterwise!Ask, Characterwise!Split
  <2> QED
    BY <2>1, <2>2, AskedRefines
<1>3. CASE w # <<>>
  <2> DEFINE p == Pieces(b)
  <2>1. Asked(<<"split", w>>, hdr, p)
    BY <1>3, Zenon DEF ob_str_split
  <2>2. Len(b) # 0
    BY <1>3, WordIs
  <2>3. PICK e : Cut(b, 0, p, e)
    BY <1>1, <2>2, PiecesAre
  <2> HIDE DEF p, b
  <2>4. Characterwise!Join(p, b) = bytes
    <3>1. FlattenSeq([k \in DOMAIN p |-> IF k = 1 THEN p[k] ELSE b \o p[k]]) = bytes
      BY <1>1, <2>3, CutJoins
    <3> DEFINE j == [k \in DOMAIN p |-> IF k = 1 THEN p[k] ELSE b \o p[k]]
    <3>2. Characterwise!Join(p, b) = Characterwise!FlattenSeq(j)
      BY Zenon DEF Characterwise!Join
    <3> HIDE DEF j
    <3>3. Characterwise!FlattenSeq(j) = FlattenSeq(j)
      BY SameWords
    <3> QED
      BY <3>1, <3>2, <3>3 DEF j
  <2>5. bytes = Characterwise!Bytes(t)
    BY <1>1, FlatWhole, SameWords
  <2>6. ASSUME NEW k \in DOMAIN p PROVE Characterwise!Found(p[k], b) = {}
    <3>1. p \in Seq(Seq(Octet))
      BY <2>3 DEF Cut
    <3>2. k \in 1..Len(p)
      BY <3>1, LenProperties
    <3>3. {j \in 0..Len(p[k]) - Len(b) : SubSeq(p[k], j + 1, j + Len(b)) = b} = {}
      BY <1>1, <2>2, <2>3, <3>2, CutBare
    <3> QED
      BY <3>3, Zenon DEF Characterwise!Found
  <2>7. b = Characterwise!Bytes(w)
    BY SameWords DEF b
  <2> HIDE DEF t
  <2>8. asked' = <<"split", w>> /\ answer' = p => Characterwise!Ask
    <3> SUFFICES ASSUME asked' = <<"split", w>>, answer' = p PROVE Characterwise!Split(w)
      BY DEF Characterwise!Ask
    <3> QED
      BY <1>3, <2>4, <2>5, <2>6, <2>7, Zenon DEF Characterwise!Split, t
  <2> QED
    BY <2>1, <2>8, AskedRefines
<1> QED
  BY <1>2, <1>3

LEMMA ReturnRefines == ASSUME StringInv, Return PROVE Characterwise!Next
<1>1. asked # <<>> /\ asked' = <<>> /\ answer' = Nothing
  BY DEF Return
<1>2. CASE UNCHANGED <<bytes, hdr>>
  <2>1. bytes' = bytes
    BY <1>2
  <2>2. Characters(bytes)' = Characters(bytes)
    BY <2>1
  <2> QED
    BY <1>1, <2>2 DEF Characterwise!Next, Characterwise!Return
<1>3. CASE /\ asked[1] \in {"value", "substr", "slice", "reverse"} /\ answer # Nothing
           /\ bytes' = answer /\ hdr' = Fresh
  <2>1. answer \in Seq(Octet)
    BY <1>1, <1>3 DEF StringInv, Givers
  <2>2. Bytes(Characters(answer)) = answer
    BY <2>1, FlatWhole
  <2>3. Characters(bytes)' = Characters(answer)
    BY <1>3
  <2>4. Characterwise!Bytes(Characters(bytes)') = answer
    BY <2>2, <2>3, SameWords
  <2> QED
    BY <1>1, <1>3, <2>4 DEF Characterwise!Next, Characterwise!Return
<1> QED
  BY <1>2, <1>3 DEF Return

LEMMA TextStep ==
  ASSUME StringInv, [StringNext]_stringVars
  PROVE  [Characterwise!Next]_(Characterwise!textVars)
<1>1. CASE StringNext
  <2>1. CASE len
    BY <2>1, LenRefines
  <2>2. CASE ob_str_reverse
    BY <2>2, ReverseRefines
  <2>3. CASE Return
    BY <2>3, ReturnRefines
  <2>4. ASSUME NEW k \in Indices, ob_iter_value(k) PROVE Characterwise!Next
    BY <2>4, ValueRefines
  <2>5. ASSUME NEW a \in Indices, NEW b \in Indices, ob_str_substr(a, b)
        PROVE  Characterwise!Next
    BY <2>5, StrSubstrRefines
  <2>6. ASSUME NEW a \in Indices, NEW b \in Indices, ob_m_slice(a, b)
        PROVE  Characterwise!Next
    BY <2>6, SliceRefines
  <2>7. ASSUME NEW w \in Words, ob_str_index_of(w) PROVE Characterwise!Next
    BY <2>7, IndexOfRefines
  <2>8. ASSUME NEW w \in Words, ob_str_split(w) PROVE Characterwise!Next
    BY <2>8, SplitRefines
  <2> QED
    BY <1>1, <2>1, <2>2, <2>3, <2>4, <2>5, <2>6, <2>7, <2>8 DEF StringNext
<1>2. CASE UNCHANGED stringVars
  <2>1. bytes' = bytes /\ asked' = asked /\ answer' = answer
    BY <1>2 DEF stringVars
  <2>2. Characters(bytes)' = Characters(bytes)
    BY <2>1
  <2> QED
    BY <2>1, <2>2 DEF Characterwise!textVars
<1> QED
  BY <1>1, <1>2

(***************************************************************************)
(* For every string of bytes, every word of well-formed characters and any  *)
(* order of calls: len, iteration, substr, slice, index_of, reverse and     *)
(* split answer as Text does of the string's characters. A search among the *)
(* bytes (strstr) finds characters and no parts of them, the number of      *)
(* which ob_byte_to_cp gives back; and what split gives, joined again, is   *)
(* the string, with no separator left in a piece.                          *)
(***************************************************************************)
THEOREM StringsAreText == StringSpec => IsText
<1>1. StringInit => StringInv
  BY StringInitSafe
<1>2. StringInv /\ [StringNext]_stringVars => StringInv'
  BY StringStepSafe
<1>3. StringInit => Characterwise!Init
  BY DEF StringInit, Characterwise!Init
<1>4. StringInv /\ [StringNext]_stringVars => [Characterwise!Next]_(Characterwise!textVars)
  BY TextStep
<1> QED
  BY <1>1, <1>2, <1>3, <1>4, PTL DEF StringSpec, IsText, Characterwise!Spec
=============================================================================
