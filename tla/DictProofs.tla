----------------------------- MODULE DictProofs -----------------------------
(***************************************************************************)
(* Proofs about Dict, for every set of keys, every hash function and every *)
(* OB_DICT_INDEX_MIN: the index of a dict always knows its entries, a      *)
(* probe always ends, and the dict implements OrderedMap.  And about       *)
(* DictWalk: what a `for' over a dict visits while its body changes it.    *)
(***************************************************************************)
EXTENDS DictWalk, FiniteSetTheorems, SequenceTheorems, TLAPS

Entry == [key : Keys, value : Values]

\* No key has two entries.
Distinct(es) == \A z, j \in DOMAIN es : es[z].key = es[j].key => z = j

\* The p-th slot a probe for k looks at, in an index of c slots.
Probed(h, k, p, c) == (h[k] + p) % c

\* No slot a probe for k looks at before its p-th is empty.
FullBefore(h, ix, k, p, c) == \A q \in 0..(p - 1) : ix[Probed(h, k, q, c)] # 0

(***************************************************************************)
(* An index of c slots that knows the first m entries of es, and no other: *)
(* each is in one slot, which the probe for its key gets to.               *)
(***************************************************************************)
Knows(h, es, ix, c, m) ==
  /\ ix \in [0..(c - 1) -> 0..m]
  /\ \A s, t \in 0..(c - 1) : ix[s] = ix[t] /\ ix[s] # 0 => s = t
  /\ \A z \in 1..m : \E p \in 0..(c - 1) :
       ix[Probed(h, es[z].key, p, c)] = z /\ FullBefore(h, ix, es[z].key, p, c)

(***************************************************************************)
(* The inductive invariant.  That a probe ends needs a slot to be empty,   *)
(* which follows from the load and from no entry having two slots; that an *)
(* entry is found needs that the slots before its own stay full.           *)
(***************************************************************************)
Loaded == 4 * Len(entries) < 3 * cap(index) /\ 2 * IndexMin <= cap(index)

DictInv ==
  /\ TypeOK
  /\ Distinct(entries)
  /\ index # <<>> => Loaded /\ Knows(hash, entries, index, cap(index), Len(entries))

-----------------------------------------------------------------------------

(***************************************************************************)
(* Powers of two.                                                          *)
(***************************************************************************)

\* The subsets of 1..w number 2^w.
LEMMA Subsets ==
  ASSUME NEW w \in Nat
  PROVE  /\ IsFiniteSet(SUBSET (1..w))
         /\ Cardinality(SUBSET (1..w)) = 2^w
<1>1. IsFiniteSet(1..w) /\ Cardinality(1..w) = w
  BY FS_Interval
<1> QED
  BY <1>1, FS_SUBSET

LEMMA Doubled ==
  ASSUME NEW w \in Nat
  PROVE  2^(w + 1) = 2 * 2^w /\ 2^w \in Nat
<1> DEFINE Old == SUBSET (1..w)
           New == {T \cup {w + 1} : T \in Old}
<1>1. IsFiniteSet(Old) /\ Cardinality(Old) = 2^w /\ Cardinality(Old) \in Nat
  BY Subsets, FS_CardinalityType
<1>2. Cardinality(SUBSET (1..(w + 1))) = 2^(w + 1)
  BY Subsets
<1>3. IsFiniteSet(New) /\ Cardinality(New) = Cardinality(Old)
  <2> DEFINE f == [T \in Old |-> T \cup {w + 1}]
  <2>1. w + 1 \notin 1..w
    OBVIOUS
  <2>2. f \in [Old -> New]
    OBVIOUS
  <2>3. \A S, T \in Old : f[S] = f[T] => S = T
    <3> SUFFICES ASSUME NEW S \in Old, NEW T \in Old, f[S] = f[T]
                 PROVE  S = T
      OBVIOUS
    <3>1. S \cup {w + 1} = T \cup {w + 1}
      OBVIOUS
    <3>2. w + 1 \notin S /\ w + 1 \notin T
      BY <2>1
    <3> QED
      BY <3>1, <3>2
  <2>4. \A t \in New : \E s \in Old : f[s] = t
    OBVIOUS
  <2>5. ExistsBijection(Old, New)
    BY <2>2, <2>3, <2>4
    DEF ExistsBijection, Bijection, Injection, Surjection, IsInjective
  <2> QED
    BY <1>1, <2>5, FS_Bijection
<1>4. SUBSET (1..(w + 1)) = Old \cup New
  <2>1. 1..(w + 1) = (1..w) \cup {w + 1}
    OBVIOUS
  <2>2. ASSUME NEW T \in SUBSET (1..(w + 1))
        PROVE  T \in Old \cup New
    <3>1. CASE w + 1 \notin T
      BY <2>1, <3>1
    <3>2. CASE w + 1 \in T
      <4>1. T \ {w + 1} \in Old
        BY <2>1
      <4>2. T = (T \ {w + 1}) \cup {w + 1}
        BY <3>2
      <4> QED
        BY <4>1, <4>2
    <3> QED
      BY <3>1, <3>2
  <2>3. ASSUME NEW T \in Old \cup New
        PROVE  T \in SUBSET (1..(w + 1))
    BY <2>1
  <2> QED
    BY <2>2, <2>3
<1>5. Old \cap New = {}
  <2>1. w + 1 \notin 1..w
    OBVIOUS
  <2> QED
    BY <2>1
<1>6. Cardinality(Old \cap New) = 0
  BY <1>5, FS_EmptySet
<1> HIDE DEF Old, New
<1>7. Cardinality(Old \cup New) =
        Cardinality(Old) + Cardinality(New) - Cardinality(Old \cap New)
  BY <1>1, <1>3, FS_Union
<1>8. 2^(w + 1) = Cardinality(Old) + Cardinality(Old) - 0
  BY <1>2, <1>3, <1>4, <1>6, <1>7
<1>9. 2^w \in Nat
  BY <1>1
<1> QED
  BY <1>1, <1>8, <1>9

LEMMA TwiceAPower ==
  ASSUME NEW c \in Nat, IsPowerOfTwo(c)
  PROVE  IsPowerOfTwo(2 * c) /\ c > 0
<1>1. PICK w \in 0..c : c = 2^w
  BY DEF IsPowerOfTwo
<1>2. 2 * c = 2^(w + 1)
  BY <1>1, Doubled
<1>3. c > 0
  <2>1. {} \in SUBSET (1..w)
    OBVIOUS
  <2>2. IsFiniteSet(SUBSET (1..w)) /\ SUBSET (1..w) # {}
    BY <2>1, Subsets
  <2>3. Cardinality(SUBSET (1..w)) # 0
    BY <2>2, FS_EmptySet, Zenon
  <2>4. Cardinality(SUBSET (1..w)) = c
    <3>1. w \in Nat
      OBVIOUS
    <3> QED
      BY <1>1, <3>1, Subsets, Zenon
  <2> QED
    BY <2>3, <2>4
<1>4. w + 1 \in 0..(2 * c)
  BY <1>3
<1> QED
  BY <1>2, <1>3, <1>4 DEF IsPowerOfTwo

-----------------------------------------------------------------------------

(***************************************************************************)
(* Probing.                                                                *)
(***************************************************************************)

\* A set of numbers that is not empty has a least one.
LEMMA Least ==
  ASSUME NEW S \in SUBSET Nat, S # {}
  PROVE  \E k \in S : \A j \in S : k <= j
<1>1. PICK k \in S : \A j \in S : <<j, k>> \notin OpToRel(<, Nat)
  BY WFMin, NatLessThanWellFounded
<1>2. \A j \in S : ~(j < k)
  BY <1>1 DEF OpToRel
<1> QED
  BY <1>2

\* A probe starts at the key's own slot and goes round.
LEMMA Round ==
  ASSUME NEW h \in Nat, NEW c \in Nat \ {0}, NEW p \in 0..(c - 1)
  PROVE  /\ h % c \in 0..(c - 1)
         /\ (h + p) % c = IF (h % c) + p < c THEN (h % c) + p ELSE (h % c) + p - c
<1>1. PICK a, r \in Int : a = h \div c /\ r = h % c
  OBVIOUS
<1>2. r \in 0..(c - 1) /\ h = c * a + r
  BY <1>1
<1>3. PICK b, t \in Int : b = (h + p) \div c /\ t = (h + p) % c
  OBVIOUS
<1>4. t \in 0..(c - 1) /\ h + p = c * b + t
  BY <1>3
<1>5. c * (b - a) = r + p - t
  BY <1>2, <1>4
<1>6. b - a \in Int /\ r + p - t < 2 * c /\ r + p - t > -c
  BY <1>2, <1>4
<1>7. b - a = 0 \/ b - a = 1
  <2>1. PICK d \in Int : d = b - a
    BY <1>6
  <2>2. c * d < 2 * c /\ c * d > -c
    BY <1>5, <1>6, <2>1
  <2>3. d < 2
    BY <2>2
  <2>4. d > -1
    BY <2>2
  <2> QED
    BY <2>1, <2>3, <2>4
<1>8. CASE b - a = 0
  <2>1. c * (b - a) = 0
    BY <1>8
  <2>2. t = r + p
    BY <1>2, <1>4, <1>5, <2>1
  <2>3. r + p < c
    BY <1>4, <2>2
  <2> QED
    BY <1>1, <1>2, <1>3, <2>2, <2>3
<1>9. CASE b - a = 1
  BY <1>1, <1>2, <1>3, <1>4, <1>5, <1>9
<1> QED
  BY <1>7, <1>8, <1>9

\* So it looks at every slot, and at each once.
LEMMA Everywhere ==
  ASSUME NEW h \in Nat, NEW c \in Nat \ {0}
  PROVE  /\ \A p \in 0..(c - 1) : (h + p) % c \in 0..(c - 1)
         /\ \A s \in 0..(c - 1) : \E p \in 0..(c - 1) : (h + p) % c = s
         /\ \A p, q \in 0..(c - 1) : (h + p) % c = (h + q) % c => p = q
<1>1. PICK r \in 0..(c - 1) : r = h % c
  OBVIOUS
<1>2. \A p \in 0..(c - 1) : (h + p) % c = IF r + p < c THEN r + p ELSE r + p - c
  BY <1>1, Round
<1>3. \A p \in 0..(c - 1) : (h + p) % c \in 0..(c - 1)
  BY <1>2
<1>4. ASSUME NEW s \in 0..(c - 1)
      PROVE  \E p \in 0..(c - 1) : (h + p) % c = s
  <2>1. CASE s >= r
    <3>1. s - r \in 0..(c - 1) /\ r + (s - r) < c /\ r + (s - r) = s
      BY <2>1
    <3>2. (h + (s - r)) % c = s
      BY <1>2, <3>1
    <3> QED
      BY <3>1, <3>2
  <2>2. CASE s < r
    <3>1. s - r + c \in 0..(c - 1) /\ ~(r + (s - r + c) < c) /\ r + (s - r + c) - c = s
      BY <2>2
    <3>2. (h + (s - r + c)) % c = s
      BY <1>2, <3>1
    <3> QED
      BY <3>1, <3>2
  <2> QED
    BY <2>1, <2>2
<1>5. ASSUME NEW p \in 0..(c - 1), NEW q \in 0..(c - 1), (h + p) % c = (h + q) % c
      PROVE  p = q
  <2>1. PICK x, y \in Int : /\ x = (IF r + p < c THEN r + p ELSE r + p - c)
                            /\ y = (IF r + q < c THEN r + q ELSE r + q - c)
    OBVIOUS
  <2>2. x = y
    BY <1>2, <1>5, <2>1
  <2> QED
    BY <2>1, <2>2
<1> QED
  BY <1>3, <1>4, <1>5

-----------------------------------------------------------------------------

(***************************************************************************)
(* What an index knows.                                                    *)
(***************************************************************************)

\* An index of more slots than entries it knows has an empty slot.
LEMMA SlotLeft ==
  ASSUME NEW h, NEW es, NEW ix, NEW c \in Nat, NEW m \in Nat, m < c,
         Knows(h, es, ix, c, m)
  PROVE  \E s \in 0..(c - 1) : ix[s] = 0
<1> SUFFICES ASSUME \A s \in 0..(c - 1) : ix[s] # 0
             PROVE  FALSE
  OBVIOUS
<1>1. ix \in [0..(c - 1) -> 1..m]
  BY DEF Knows
<1>2. IsFiniteSet(0..(c - 1)) /\ Cardinality(0..(c - 1)) = c
  <2>1. 0 \in Int /\ c - 1 \in Int /\ (IF 0 > c - 1 THEN 0 ELSE c - 1 - 0 + 1) = c
    OBVIOUS
  <2> QED
    BY <2>1, FS_Interval, Zenon
<1>3. IsFiniteSet(1..m) /\ Cardinality(1..m) = m
  BY FS_Interval
<1>4. \E x, y \in 0..(c - 1) : x # y /\ ix[x] = ix[y]
  BY <1>1, <1>2, <1>3, FS_PigeonHole
<1> QED
  BY <1>4 DEF Knows

\* The number of slots of an index.
LEMMA Slots ==
  ASSUME NEW c \in Nat, NEW S, NEW ix \in [0..(c - 1) -> S]
  PROVE  cap(ix) = c
BY FS_Interval DEF cap

\* The probe for k stops at its p-th slot.
StopsAt(es, ix, k, p, c) ==
  /\ slot(es, ix, k) = Probed(hash, k, p, c)
  /\ slot(es, ix, k) \in 0..(c - 1)
  /\ ix[slot(es, ix, k)] = 0 \/ es[ix[slot(es, ix, k)]].key = k
  /\ FullBefore(hash, ix, k, p, c)
  /\ \A q \in 0..(p - 1) : es[ix[Probed(hash, k, q, c)]].key # k

(***************************************************************************)
(* ob_dict_slot stops at the first slot on its way that is empty or holds  *)
(* the key, if some slot is empty.                                         *)
(***************************************************************************)
LEMMA SlotStops ==
  ASSUME NEW es, NEW c \in Nat, NEW m \in Nat, NEW ix \in [0..(c - 1) -> 0..m],
         NEW k, hash[k] \in Nat,
         \E s \in 0..(c - 1) : ix[s] = 0
  PROVE  \E p \in 0..(c - 1) : StopsAt(es, ix, k, p, c)
<1>1. cap(ix) = c
  BY Slots
<1>2. PICK h \in Nat : h = hash[k]
  OBVIOUS
<1>3. PICK s \in 0..(c - 1) : ix[s] = 0
  OBVIOUS
<1>4. c \in Nat \ {0}
  OBVIOUS
<1> DEFINE S == {p \in 0..(c - 1) : ix[(h + p) % c] = 0 \/ es[ix[(h + p) % c]].key = k}
<1>5. Stops(es, ix, k) = S
  BY <1>1, <1>2 DEF Stops
<1>6. S \in SUBSET Nat /\ S # {}
  <2>1. PICK p \in 0..(c - 1) : (h + p) % c = s
    BY <1>4, Everywhere
  <2>2. ix[(h + p) % c] = 0
    BY <1>3, <2>1
  <2>3. p \in S
    BY <2>2
  <2>4. S \in SUBSET Nat
    OBVIOUS
  <2> HIDE DEF S
  <2> QED
    BY <2>3, <2>4
<1>7. PICK p \in S : \A j \in S : p <= j
  <2> HIDE DEF S
  <2> QED
    BY <1>6, Least
<1>8. Min(S) = p
  <2> HIDE DEF S
  <2>1. \A x \in S : (\A j \in S : x <= j) => x = p
    BY <1>6, <1>7
  <2> QED
    BY <1>7, <2>1 DEF Min
<1>9. slot(es, ix, k) = (h + p) % c
  BY <1>1, <1>2, <1>5, <1>8 DEF slot
<1>10. (h + p) % c \in 0..(c - 1)
  BY <1>4, Everywhere
<1>11. \A q \in 0..(p - 1) : q \in 0..(c - 1) /\ q \notin S
  BY <1>7
<1> QED
  BY <1>2, <1>9, <1>10, <1>11 DEF Probed, FullBefore, StopsAt

\* So it finds an entry the index knows,
LEMMA SlotOfEntry ==
  ASSUME NEW es, NEW c \in Nat, NEW m \in Nat, m < c, NEW ix,
         Knows(hash, es, ix, c, m), 1..m \subseteq DOMAIN es, Distinct(es),
         NEW z \in 1..m, hash[es[z].key] \in Nat
  PROVE  ix[slot(es, ix, es[z].key)] = z
<1>0. PICK k : k = es[z].key /\ hash[k] \in Nat
  OBVIOUS
<1>1. \E s \in 0..(c - 1) : ix[s] = 0
  BY SlotLeft
<1>2. ix \in [0..(c - 1) -> 0..m]
  BY DEF Knows
<1>3. PICK p \in 0..(c - 1) : StopsAt(es, ix, k, p, c)
  BY <1>0, <1>1, <1>2, SlotStops
<1>4. PICK r \in 0..(c - 1) : ix[Probed(hash, k, r, c)] = z /\ FullBefore(hash, ix, k, r, c)
  BY <1>0 DEF Knows
<1>5. ~(r < p)
  <2>1. r < p => r \in 0..(p - 1)
    OBVIOUS
  <2> QED
    BY <1>0, <1>3, <1>4, <2>1 DEF StopsAt
<1>6. p < r => ix[Probed(hash, k, p, c)] # 0
  <2>1. p < r => p \in 0..(r - 1)
    OBVIOUS
  <2> QED
    BY <1>4, <2>1 DEF FullBefore
<1>7. ix[slot(es, ix, k)] # 0
  BY <1>3, <1>4, <1>5, <1>6 DEF StopsAt
<1>8. ix[slot(es, ix, k)] \in 1..m
  BY <1>2, <1>3, <1>7 DEF StopsAt
<1> QED
  BY <1>0, <1>3, <1>7, <1>8 DEF Distinct, StopsAt

\* and an empty slot for a key that has none.
LEMMA SlotOfNone ==
  ASSUME NEW es, NEW c \in Nat, NEW m \in Nat, m < c, NEW ix,
         Knows(hash, es, ix, c, m),
         NEW k, hash[k] \in Nat, \A z \in 1..m : es[z].key # k
  PROVE  \E p \in 0..(c - 1) :
           /\ slot(es, ix, k) = Probed(hash, k, p, c)
           /\ slot(es, ix, k) \in 0..(c - 1)
           /\ ix[slot(es, ix, k)] = 0
           /\ FullBefore(hash, ix, k, p, c)
<1>1. \E s \in 0..(c - 1) : ix[s] = 0
  BY SlotLeft
<1>2. ix \in [0..(c - 1) -> 0..m]
  BY DEF Knows
<1>3. PICK p \in 0..(c - 1) : StopsAt(es, ix, k, p, c)
  BY <1>1, <1>2, SlotStops
<1>4. ix[slot(es, ix, k)] # 0 => ix[slot(es, ix, k)] \in 1..m
  BY <1>2, <1>3 DEF StopsAt
<1> QED
  BY <1>3, <1>4 DEF StopsAt

\* What an index knows depends on the keys alone.
LEMMA SameKeys ==
  ASSUME NEW h, NEW es, NEW fs, NEW ix, NEW c, NEW m,
         \A z \in 1..m : es[z].key = fs[z].key,
         Knows(h, es, ix, c, m)
  PROVE  Knows(h, fs, ix, c, m)
BY DEF Knows

(***************************************************************************)
(* The next entry, whose key none of the others has, put in the slot the   *)
(* probe for it ends at, is known like the others: none of them moves, and *)
(* no slot that was full is emptied.                                       *)
(***************************************************************************)
LEMMA Stored ==
  ASSUME NEW es, NEW c \in Nat, NEW m \in Nat, m < c, NEW ix,
         Knows(hash, es, ix, c, m),
         \A z \in 1..(m + 1) : hash[es[z].key] \in Nat,
         \A z \in 1..m : es[z].key # es[m + 1].key
  PROVE  Knows(hash, es, [ix EXCEPT ![slot(es, ix, es[m + 1].key)] = m + 1], c, m + 1)
<1> DEFINE k == es[m + 1].key
           jx == [ix EXCEPT ![slot(es, ix, k)] = m + 1]
<1>0. hash[k] \in Nat /\ c \in Nat \ {0}
  OBVIOUS
<1>1. PICK p \in 0..(c - 1) :
        /\ slot(es, ix, k) = Probed(hash, k, p, c)
        /\ slot(es, ix, k) \in 0..(c - 1)
        /\ ix[slot(es, ix, k)] = 0
        /\ FullBefore(hash, ix, k, p, c)
  BY <1>0, SlotOfNone
<1>2. PICK s \in 0..(c - 1) : s = slot(es, ix, k)
  BY <1>1
<1>3. ix \in [0..(c - 1) -> 0..m]
  BY DEF Knows
<1>4. /\ jx \in [0..(c - 1) -> 0..(m + 1)]
      /\ jx[s] = m + 1
      /\ \A t \in 0..(c - 1) : t # s => jx[t] = ix[t]
  BY <1>2, <1>3
<1>5. \A t \in 0..(c - 1) : ix[t] # 0 => jx[t] = ix[t] /\ jx[t] # 0
  BY <1>1, <1>2, <1>4
<1> HIDE DEF jx
<1>7. ASSUME NEW a \in 0..(c - 1), NEW b \in 0..(c - 1), jx[a] = jx[b], jx[a] # 0
      PROVE  a = b
  <2>1. CASE a # s /\ b # s
    BY <1>4, <1>7, <2>1 DEF Knows
  <2>2. \A t \in 0..(c - 1) : t # s => jx[t] # m + 1
    BY <1>3, <1>4
  <2> QED
    BY <1>4, <1>7, <2>1, <2>2
<1>9. ASSUME NEW l, hash[l] \in Nat, NEW r \in 0..(c - 1), FullBefore(hash, ix, l, r, c)
      PROVE  FullBefore(hash, jx, l, r, c)
  <2>1. PICK h \in Nat : h = hash[l]
    BY <1>9
  <2>2. \A q \in 0..(r - 1) : q \in 0..(c - 1)
    OBVIOUS
  <2>3. \A q \in 0..(r - 1) : (h + q) % c \in 0..(c - 1)
    BY <2>2, Everywhere
  <2> QED
    BY <1>5, <1>9, <2>1, <2>3 DEF FullBefore, Probed
<1>10. ASSUME NEW z \in 1..(m + 1), hash[es[z].key] \in Nat
       PROVE  \E r \in 0..(c - 1) : jx[Probed(hash, es[z].key, r, c)] = z
                                      /\ FullBefore(hash, jx, es[z].key, r, c)
  <2>1. CASE z = m + 1
    BY <1>0, <1>1, <1>2, <1>4, <1>9, <2>1
  <2>2. CASE z \in 1..m
    <3>1. PICK r \in 0..(c - 1) : /\ ix[Probed(hash, es[z].key, r, c)] = z
                                  /\ FullBefore(hash, ix, es[z].key, r, c)
      BY <2>2 DEF Knows
    <3>2. Probed(hash, es[z].key, r, c) \in 0..(c - 1)
      <4>1. PICK h \in Nat : h = hash[es[z].key]
        BY <1>10
      <4> QED
        BY <1>0, <4>1, Everywhere DEF Probed
    <3>3. jx[Probed(hash, es[z].key, r, c)] = z
      BY <1>5, <2>2, <3>1, <3>2
    <3> QED
      BY <1>9, <1>10, <3>1, <3>3
  <2> QED
    BY <2>1, <2>2
<1> QED
  BY <1>4, <1>7, <1>10 DEF Knows, jx

-----------------------------------------------------------------------------

(***************************************************************************)
(* ob_dict_reindex.                                                        *)
(***************************************************************************)

\* The index after the first z entries: a recursive function, which exists.
Put(es, ix, z) == [ix EXCEPT ![slot(es, ix, es[z].key)] = z]

Empty(c) == [s \in 0..(c - 1) |-> 0]

IsFilling(f, es, c, w) ==
  f = [z \in 0..w |-> IF z = 0 THEN Empty(c) ELSE Put(es, f[z - 1], z)]

LEMMA FillingExists ==
  ASSUME NEW es, NEW c, NEW w \in Nat
  PROVE  \E f : IsFilling(f, es, c, w)
<1> DEFINE Bad == {m \in Nat : ~ \E f : IsFilling(f, es, c, m)}
<1> SUFFICES ASSUME w \in Bad
             PROVE  FALSE
  OBVIOUS
<1>1. PICK m \in Bad : \A j \in Bad : m <= j
  <2>1. Bad \in SUBSET Nat /\ Bad # {}
    OBVIOUS
  <2> HIDE DEF Bad
  <2> QED
    BY <2>1, Least
<1>2. m # 0
  <2>1. SUFFICES \E f : IsFilling(f, es, c, 0)
    BY <1>1
  <2> DEFINE f == [z \in 0..0 |-> Empty(c)]
  <2>2. f = [z \in 0..0 |-> IF z = 0 THEN Empty(c) ELSE Put(es, f[z - 1], z)]
    OBVIOUS
  <2> QED
    BY <2>2 DEF IsFilling
<1>3. PICK g : IsFilling(g, es, c, m - 1)
  <2>1. m - 1 \in Nat /\ ~(m <= m - 1)
    BY <1>1, <1>2
  <2> QED
    BY <1>1, <2>1
<1> DEFINE f == [z \in 0..m |-> IF z = m THEN Put(es, g[m - 1], m) ELSE g[z]]
<1>4. \A z \in 0..m : f[z] = IF z = 0 THEN Empty(c) ELSE Put(es, f[z - 1], z)
  <2> SUFFICES ASSUME NEW z \in 0..m
               PROVE  f[z] = IF z = 0 THEN Empty(c) ELSE Put(es, f[z - 1], z)
    OBVIOUS
  <2>1. CASE z = m
    <3>1. m - 1 \in 0..m /\ m - 1 # m
      BY <1>1, <1>2
    <3>2. f[m - 1] = g[m - 1]
      BY <3>1
    <3> QED
      BY <1>2, <2>1, <3>2
  <2>2. CASE z # m
    <3>1. z \in 0..(m - 1) /\ (z # 0 => z - 1 \in 0..m /\ z - 1 # m)
      BY <1>1, <2>2
    <3>2. g[z] = IF z = 0 THEN Empty(c) ELSE Put(es, g[z - 1], z)
      BY <1>3, <3>1 DEF IsFilling
    <3>3. f[z] = g[z] /\ (z # 0 => f[z - 1] = g[z - 1])
      BY <2>2, <3>1
    <3> QED
      BY <3>2, <3>3
  <2> QED
    BY <2>1, <2>2
<1>5. IsFilling(f, es, c, m)
  <2> DEFINE u == [z \in 0..m |-> IF z = 0 THEN Empty(c) ELSE Put(es, f[z - 1], z)]
  <2>1. \A z \in 0..m : f[z] = u[z]
    BY <1>4
  <2>2. DOMAIN f = 0..m /\ DOMAIN u = 0..m
    OBVIOUS
  <2>3. f = u
    BY <2>1, <2>2
  <2> QED
    BY <2>3 DEF IsFilling
<1> QED
  BY <1>1, <1>5

\* The rebuilt index knows every entry.
LEMMA Reindexed ==
  ASSUME NEW es \in Seq(Entry), NEW c \in Nat, Len(es) < c, Distinct(es),
         \A k \in Keys : hash[k] \in Nat
  PROVE  Knows(hash, es, reindexed(es, c), c, Len(es))
<1> DEFINE w == Len(es)
           F == CHOOSE f : IsFilling(f, es, c, w)
<1>1. w \in Nat
  OBVIOUS
<1>2. IsFilling(F, es, c, w)
  <2>1. \E f : IsFilling(f, es, c, w)
    BY <1>1, FillingExists
  <2> QED
    BY <2>1
<1>3. reindexed(es, c) = F[w]
  BY DEF reindexed, IsFilling, Put, Empty
<1> HIDE DEF F
<1> DEFINE Bad == {m \in 0..w : ~Knows(hash, es, F[m], c, m)}
<1>4. Bad = {}
  <2> SUFFICES ASSUME Bad # {}
               PROVE  FALSE
    OBVIOUS
  <2>1. PICK m \in Bad : \A j \in Bad : m <= j
    <3>1. Bad \in SUBSET Nat
      BY <1>1
    <3> HIDE DEF Bad
    <3> QED
      BY <3>1, Least
  <2>2. \A z \in 1..w : es[z].key \in Keys /\ hash[es[z].key] \in Nat
    <3>1. \A z \in 1..w : es[z] \in Entry
      OBVIOUS
    <3>2. \A e \in Entry : e.key \in Keys
      BY DEF Entry
    <3> QED
      BY <3>1, <3>2
  <2>3. m # 0
    <3>1. F[0] = Empty(c)
      BY <1>1, <1>2 DEF IsFilling
    <3>2. Knows(hash, es, Empty(c), c, 0)
      BY DEF Knows, Empty
    <3> QED
      BY <2>1, <3>1, <3>2
  <2>4. PICK l \in Nat : m = l + 1 /\ l < c /\ l \in 0..w /\ l + 1 \in 1..w
    <3>1. m - 1 \in Nat /\ m = (m - 1) + 1
      BY <1>1, <2>1, <2>3
    <3>2. m - 1 < c /\ m - 1 \in 0..w /\ m \in 1..w
      BY <1>1, <2>1, <2>3
    <3> QED
      BY <3>1, <3>2
  <2>5. Knows(hash, es, F[l], c, l)
    BY <2>1, <2>4
  <2>6. \A z \in 1..l : es[z].key # es[l + 1].key
    BY <2>4 DEF Distinct
  <2>7. \A z \in 1..(l + 1) : hash[es[z].key] \in Nat
    BY <2>2, <2>4
  <2>8. Knows(hash, es, Put(es, F[l], l + 1), c, l + 1)
    BY <2>4, <2>5, <2>6, <2>7, Stored DEF Put
  <2>9. F[l + 1] = Put(es, F[l], l + 1)
    <3>1. l + 1 \in 0..w /\ l + 1 # 0 /\ (l + 1) - 1 = l
      BY <2>4
    <3> QED
      BY <1>2, <3>1 DEF IsFilling
  <2> QED
    BY <2>1, <2>4, <2>8, <2>9
<1>5. w \in 0..w
  BY <1>1
<1>6. Knows(hash, es, F[w], c, w)
  BY <1>4, <1>5
<1> QED
  BY <1>3, <1>6

-----------------------------------------------------------------------------

(***************************************************************************)
(* The entries: finding, appending, changing and removing one.             *)
(***************************************************************************)

LEMMA EntryOf ==
  ASSUME NEW es \in Seq(Entry), NEW z \in 1..Len(es)
  PROVE  es[z] \in Entry /\ es[z].key \in Keys /\ es[z].value \in Values
<1>1. es[z] \in Entry
  OBVIOUS
<1> QED
  BY <1>1 DEF Entry

LEMMA Hashed ==
  ASSUME TypeOK
  PROVE  /\ \A k \in Keys : hash[k] \in Nat
         /\ entries \in Seq(Entry) /\ Len(entries) \in Nat
<1>1. hash \in [Keys -> Nat]
  BY DictAssumption DEF TypeOK
<1>2. entries \in Seq(Entry)
  BY DEF TypeOK, Entry
<1> QED
  BY <1>1, <1>2

\* An index for the entries es: DictInv of it.
Indexed(h, es, ix) ==
  /\ cap(ix) \in Nat /\ IsPowerOfTwo(cap(ix)) /\ DOMAIN ix = 0..(cap(ix) - 1)
  /\ 4 * Len(es) < 3 * cap(ix) /\ 2 * IndexMin <= cap(ix)
  /\ Knows(h, es, ix, cap(ix), Len(es))

LEMMA IndexShape ==
  ASSUME DictInv, index # <<>>
  PROVE  Indexed(hash, entries, index)
<1> DEFINE c == cap(index)
<1>1. IsPowerOfTwo(c) /\ DOMAIN index = 0..(c - 1)
  BY DEF DictInv, TypeOK
<1>2. IsFiniteSet(DOMAIN index)
  <2>1. PICK m \in 0..c : c = 2^m
    BY <1>1 DEF IsPowerOfTwo
  <2>2. m \in Nat
    OBVIOUS
  <2>3. c \in Nat
    BY <2>1, <2>2, Doubled
  <2>4. 0 \in Int /\ c - 1 \in Int
    BY <2>3
  <2> QED
    BY <1>1, <2>4, FS_Interval, Zenon
<1>3. c \in Nat
  BY <1>2, FS_CardinalityType DEF cap
<1> QED
  BY <1>1, <1>3 DEF DictInv, Indexed, Loaded

\* A rebuilt index is one, if it is large enough.
LEMMA Rebuilt ==
  ASSUME NEW es \in Seq(Entry), Distinct(es), \A k \in Keys : hash[k] \in Nat,
         NEW c \in Nat, IsPowerOfTwo(c), 4 * Len(es) < 3 * c, 2 * IndexMin <= c
  PROVE  Indexed(hash, es, reindexed(es, c))
<1> DEFINE ix == reindexed(es, c)
<1>1. Len(es) < c
  OBVIOUS
<1>2. Knows(hash, es, ix, c, Len(es))
  BY <1>1, Reindexed
<1> HIDE DEF ix
<1>3. ix \in [0..(c - 1) -> 0..Len(es)]
  BY <1>2 DEF Knows
<1>4. cap(ix) = c /\ DOMAIN ix = 0..(c - 1)
  BY <1>3, Slots
<1>5. Indexed(hash, es, ix)
  BY <1>2, <1>4 DEF Indexed
<1> QED
  BY <1>5 DEF ix

\* With an index or without it, find gives the entry of the key.
LEMMA Finds ==
  ASSUME DictInv, NEW k \in Keys
  PROVE  \/ find(k) = 0 /\ \A z \in 1..Len(entries) : entries[z].key # k
         \/ find(k) \in 1..Len(entries) /\ entries[find(k)].key = k
<1> DEFINE w == Len(entries)
<1>1. /\ \A l \in Keys : hash[l] \in Nat
      /\ entries \in Seq(Entry) /\ w \in Nat /\ Distinct(entries)
  BY Hashed DEF DictInv
<1>2. DOMAIN entries = 1..w
  BY <1>1
<1> DEFINE At == {z \in 1..w : entries[z].key = k}
<1>3. CASE index = <<>>
  <2>1. find(k) = IF At = {} THEN 0 ELSE Min(At)
    BY <1>2, <1>3 DEF find, scan
  <2>2. CASE At = {}
    BY <2>1, <2>2
  <2>3. CASE At # {}
    <3>1. PICK z \in At : \A j \in At : z <= j
      <4>1. At \in SUBSET Nat
        OBVIOUS
      <4> HIDE DEF At
      <4> QED
        BY <2>3, <4>1, Least
    <3>2. Min(At) \in At
      <4> HIDE DEF At
      <4> QED
        BY <3>1 DEF Min
    <3> QED
      BY <2>1, <2>3, <3>2
  <2> QED
    BY <2>2, <2>3
<1>4. CASE index # <<>>
  <2> DEFINE c == cap(index)
  <2>1. c \in Nat /\ w < c /\ Knows(hash, entries, index, c, w)
    BY <1>1, <1>4, IndexShape DEF Indexed
  <2>2. find(k) = index[slot(entries, index, k)]
    BY <1>4 DEF find
  <2>3. CASE \E z \in 1..w : entries[z].key = k
    <3>1. PICK z \in 1..w : entries[z].key = k
      BY <2>3
    <3>2. index[slot(entries, index, entries[z].key)] = z
      BY <1>1, <1>2, <2>1, <3>1, SlotOfEntry
    <3> QED
      BY <2>2, <3>1, <3>2
  <2>4. CASE \A z \in 1..w : entries[z].key # k
    <3>1. index[slot(entries, index, k)] = 0
      BY <1>1, <2>1, <2>4, SlotOfNone
    <3> QED
      BY <2>2, <2>4, <3>1
  <2> QED
    BY <2>3, <2>4
<1> QED
  BY <1>3, <1>4

LEMMA Appended ==
  ASSUME NEW es \in Seq(Entry), Distinct(es), NEW e \in Entry,
         \A z \in 1..Len(es) : es[z].key # e.key
  PROVE  /\ Append(es, e) \in Seq(Entry) /\ Len(Append(es, e)) = Len(es) + 1
         /\ Append(es, e)[Len(es) + 1] = e
         /\ \A z \in 1..Len(es) : Append(es, e)[z] = es[z]
         /\ Distinct(Append(es, e))
<1>1. /\ Append(es, e) \in Seq(Entry) /\ Len(Append(es, e)) = Len(es) + 1
      /\ Append(es, e)[Len(es) + 1] = e
      /\ \A z \in 1..Len(es) : Append(es, e)[z] = es[z]
  OBVIOUS
<1>2. PICK fs \in Seq(Entry) : fs = Append(es, e)
  BY <1>1
<1>3. Len(es) \in Nat /\ DOMAIN fs = 1..(Len(es) + 1) /\ DOMAIN es = 1..Len(es)
  BY <1>1, <1>2
<1>4. ASSUME NEW z \in DOMAIN fs, NEW j \in DOMAIN fs, fs[z].key = fs[j].key
      PROVE  z = j
  <2>1. CASE z = Len(es) + 1
    BY <1>1, <1>2, <1>3, <1>4, <2>1
  <2>2. CASE j = Len(es) + 1
    BY <1>1, <1>2, <1>3, <1>4, <2>2
  <2>3. CASE z \in 1..Len(es) /\ j \in 1..Len(es)
    BY <1>1, <1>2, <1>3, <1>4, <2>3 DEF Distinct
  <2> QED
    BY <1>3, <2>1, <2>2, <2>3
<1> QED
  BY <1>1, <1>2, <1>4 DEF Distinct

LEMMA Changed ==
  ASSUME NEW es \in Seq(Entry), Distinct(es), NEW z \in 1..Len(es), NEW v \in Values
  PROVE  LET fs == [es EXCEPT ![z].value = v]
         IN  /\ fs \in Seq(Entry) /\ Len(fs) = Len(es)
             /\ \A j \in 1..Len(es) : fs[j].key = es[j].key
             /\ Distinct(fs)
<1> DEFINE fs == [es EXCEPT ![z].value = v]
           e == [es[z] EXCEPT !.value = v]
<1>1. e \in Entry /\ e.key = es[z].key
  BY EntryOf DEF Entry
<1>2. fs = [es EXCEPT ![z] = e]
  OBVIOUS
<1> HIDE DEF e, fs
<1>3. fs \in Seq(Entry) /\ Len(fs) = Len(es) /\ DOMAIN fs = DOMAIN es
  BY <1>1, <1>2
<1>4. \A j \in 1..Len(es) : fs[j].key = es[j].key
  BY <1>1, <1>2
<1>5. Distinct(fs)
  BY <1>3, <1>4 DEF Distinct
<1> QED
  BY <1>3, <1>4, <1>5 DEF fs

LEMMA Removed ==
  ASSUME NEW es \in Seq(Entry), Distinct(es), NEW z \in 1..Len(es)
  PROVE  /\ RemoveAt(es, z) \in Seq(Entry) /\ Len(RemoveAt(es, z)) = Len(es) - 1
         /\ Distinct(RemoveAt(es, z))
         /\ \A j \in 1..(Len(es) - 1) :
              RemoveAt(es, z)[j] = IF j < z THEN es[j] ELSE es[j + 1]
<1> DEFINE a == SubSeq(es, 1, z - 1)
           b == SubSeq(es, z + 1, Len(es))
           fs == RemoveAt(es, z)
<1>1. a \in Seq(Entry) /\ Len(a) = z - 1 /\ \A j \in 1..(z - 1) : a[j] = es[j]
  OBVIOUS
<1>2. b \in Seq(Entry) /\ Len(b) = Len(es) - z
  OBVIOUS
<1>3. \A j \in 1..(Len(es) - z) : b[j] = es[z + j]
  OBVIOUS
<1>4. fs = a \o b
  BY DEF RemoveAt
<1> HIDE DEF a, b, fs
<1>5. fs \in Seq(Entry) /\ Len(fs) = Len(es) - 1
  <2>1. fs \in Seq(Entry)
    BY <1>1, <1>2, <1>4
  <2>2. Len(fs) = Len(a) + Len(b)
    BY <1>1, <1>2, <1>4, ConcatProperties, Zenon
  <2> QED
    BY <1>1, <1>2, <2>1, <2>2
<1>6. \A j \in 1..(Len(es) - 1) : fs[j] = IF j < z THEN es[j] ELSE es[j + 1]
  <2> SUFFICES ASSUME NEW j \in 1..(Len(es) - 1)
               PROVE  fs[j] = IF j < z THEN es[j] ELSE es[j + 1]
    OBVIOUS
  <2>1. CASE j < z
    BY <1>1, <1>2, <1>4, <2>1
  <2>2. CASE ~(j < z)
    <3>1. j - (z - 1) \in 1..(Len(es) - z) /\ z + (j - (z - 1)) = j + 1
      BY <2>2
    <3>2. fs[j] = b[j - (z - 1)]
      BY <1>1, <1>2, <1>4, <2>2
    <3> QED
      BY <1>3, <2>2, <3>1, <3>2
  <2> QED
    BY <2>1, <2>2
<1>7. ASSUME NEW j \in DOMAIN fs, NEW k \in DOMAIN fs, fs[j].key = fs[k].key
      PROVE  j = k
  <2>1. DOMAIN fs = 1..(Len(es) - 1) /\ DOMAIN es = 1..Len(es)
    BY <1>5
  <2>2. PICK x, y \in 1..Len(es) : /\ x = (IF j < z THEN j ELSE j + 1)
                                   /\ y = (IF k < z THEN k ELSE k + 1)
    BY <2>1
  <2>3. fs[j] = es[x] /\ fs[k] = es[y]
    BY <1>6, <2>1, <2>2
  <2>4. x = y
    BY <1>7, <2>1, <2>3 DEF Distinct
  <2> QED
    BY <2>1, <2>2, <2>4
<1> QED
  BY <1>5, <1>6, <1>7 DEF Distinct, fs

-----------------------------------------------------------------------------

(***************************************************************************)
(* The invariant.                                                          *)
(***************************************************************************)

LEMMA IndexMinimum == IndexMin \in Nat \ {0} /\ IsPowerOfTwo(2 * IndexMin)
BY DictAssumption, TwiceAPower

LEMMA NoIndex == cap(<<>>) = 0
<1>1. DOMAIN <<>> = {}
  OBVIOUS
<1> QED
  BY <1>1, FS_EmptySet DEF cap

\* The invariant again, of what a step leaves.
LEMMA Left ==
  ASSUME hash' = hash, TypeOK,
         entries' \in Seq(Entry), Distinct(entries'),
         \/ index' = <<>> /\ Len(entries') < IndexMin
         \/ Indexed(hash, entries', index'),
         ret' \in Values \cup {Null} \cup BOOLEAN
  PROVE  DictInv'
<1>1. hash' \in Hashes
  BY DEF TypeOK
<1>2. index' = <<>> => Len(entries') < IndexMin
  <2>1. Indexed(hash, entries', index') => index' # <<>>
    <3>1. SUFFICES ASSUME Indexed(hash, entries', <<>>)
                   PROVE  FALSE
      OBVIOUS
    <3>2. 2 * IndexMin <= 0
      BY <3>1, NoIndex DEF Indexed
    <3> QED
      BY <3>2, IndexMinimum
  <2> QED
    BY <2>1
<1>3. ASSUME index' # <<>>
      PROVE  /\ IsPowerOfTwo(cap(index')) /\ DOMAIN index' = 0..(cap(index') - 1)
             /\ \A s \in DOMAIN index' : index'[s] \in 0..Len(entries')
             /\ 4 * Len(entries') < 3 * cap(index') /\ 2 * IndexMin <= cap(index')
             /\ Knows(hash', entries', index', cap(index'), Len(entries'))
  <2>1. Indexed(hash, entries', index')
    BY <1>3
  <2>2. index' \in [0..(cap(index') - 1) -> 0..Len(entries')]
    BY <2>1 DEF Indexed, Knows
  <2> QED
    BY <2>1, <2>2 DEF Indexed
<1>4. TypeOK'
  BY <1>1, <1>2, <1>3 DEF TypeOK, Entry
<1>5. (index # <<>>)' => Loaded'
  BY <1>3 DEF Loaded
<1> QED
  BY <1>3, <1>4, <1>5 DEF DictInv

LEMMA SetStep ==
  ASSUME DictInv, NEW k \in Keys, NEW v \in Values, ob_dict_set(k, v)
  PROVE  DictInv'
<1> DEFINE es == Append(entries, [key |-> k, value |-> v])
           w == Len(es)
           c == cap(index)
<1>1. /\ TypeOK /\ \A l \in Keys : hash[l] \in Nat
      /\ entries \in Seq(Entry) /\ Len(entries) \in Nat /\ Distinct(entries)
  BY Hashed DEF DictInv
<1>2. hash' = hash /\ ret' \in Values \cup {Null} \cup BOOLEAN
  BY DEF ob_dict_set
<1>3. \/ index = <<>> /\ Len(entries) < IndexMin
      \/ Indexed(hash, entries, index)
  BY IndexShape DEF DictInv, TypeOK
<1>4. CASE find(k) # 0
  <2>1. find(k) \in 1..Len(entries)
    BY <1>4, Finds
  <2>2. entries' = [entries EXCEPT ![find(k)].value = v] /\ index' = index
    BY <1>4 DEF ob_dict_set
  <2>3. /\ entries' \in Seq(Entry) /\ Len(entries') = Len(entries) /\ Distinct(entries')
        /\ \A j \in 1..Len(entries) : entries'[j].key = entries[j].key
    <3> DEFINE fs == [entries EXCEPT ![find(k)].value = v]
    <3>1. /\ fs \in Seq(Entry) /\ Len(fs) = Len(entries) /\ Distinct(fs)
          /\ \A j \in 1..Len(entries) : fs[j].key = entries[j].key
      BY <1>1, <2>1, Changed
    <3>2. entries' = fs
      BY <2>2
    <3> QED
      BY <3>1, <3>2
  <2>4. Indexed(hash, entries, index) => Indexed(hash, entries', index')
    <3>1. SUFFICES ASSUME Indexed(hash, entries, index)
                   PROVE  Knows(hash, entries', index, cap(index), Len(entries))
      BY <2>2, <2>3 DEF Indexed
    <3> QED
      BY <2>3, <3>1, SameKeys DEF Indexed
  <2> QED
    BY <1>1, <1>2, <1>3, <2>2, <2>3, <2>4, Left
<1>5. CASE find(k) = 0
  <2>1. \A z \in 1..Len(entries) : entries[z].key # k
    BY <1>5, Finds
  <2>2. /\ es \in Seq(Entry) /\ w = Len(entries) + 1 /\ Distinct(es)
        /\ es[w].key = k
        /\ \A z \in 1..Len(entries) : es[z] = entries[z]
    <3>1. [key |-> k, value |-> v] \in Entry
      BY DEF Entry
    <3> QED
      BY <1>1, <2>1, <3>1, Appended
  <2>3. /\ entries' = es
        /\ index' = IF ~full(w, c) THEN [index EXCEPT ![slot(es, index, k)] = w]
                    ELSE IF w < IndexMin THEN index
                    ELSE reindexed(es, IF c = 0 THEN IndexMin * 2 ELSE c * 2)
    BY <1>5 DEF ob_dict_set
  <2> HIDE DEF es
  <2>4. index = <<>> => c = 0
    BY NoIndex
  <2>5. CASE ~full(w, c)
    <3>1. 4 * w < 3 * c
      <4>1. c \in Nat
        BY <1>3, <2>4 DEF Indexed
      <4> QED
        BY <1>1, <2>2, <2>5, <4>1 DEF full
    <3>2. Indexed(hash, entries, index)
      BY <1>1, <1>3, <2>2, <2>4, <3>1
    <3>3. Knows(hash, es, index, c, Len(entries))
      BY <2>2, <3>2, SameKeys DEF Indexed
    <3>4. Len(entries) < c /\ c \in Nat
      BY <1>1, <2>2, <3>1, <3>2 DEF Indexed
    <3>5. \A z \in 1..w : hash[es[z].key] \in Nat
      BY <1>1, <2>2, EntryOf
    <3>6. \A z \in 1..Len(entries) : es[z].key # es[Len(entries) + 1].key
      BY <2>1, <2>2
    <3>7. Knows(hash, es, index', c, w)
      BY <1>1, <2>2, <2>3, <2>5, <3>3, <3>4, <3>5, <3>6, Stored
    <3>8. index' \in [0..(c - 1) -> 0..w]
      BY <3>7 DEF Knows
    <3>9. cap(index') = c
      BY <3>4, <3>8, Slots
    <3>10. Indexed(hash, es, index')
      BY <3>1, <3>2, <3>7, <3>8, <3>9 DEF Indexed
    <3> QED
      BY <1>1, <1>2, <2>2, <2>3, <3>10, Left
  <2>6. CASE full(w, c) /\ w < IndexMin
    <3>1. index = <<>>
      <4> SUFFICES ASSUME Indexed(hash, entries, index)
                   PROVE  FALSE
        BY <1>3
      <4>1. c \in Nat /\ 2 * IndexMin <= c /\ w * 4 >= c * 3 /\ w \in Nat
        BY <1>1, <2>2, <2>6 DEF Indexed, full
      <4> QED
        BY <2>6, <4>1, IndexMinimum
    <3> QED
      BY <1>1, <1>2, <2>2, <2>3, <2>6, <3>1, Left
  <2>7. CASE full(w, c) /\ ~(w < IndexMin)
    <3> DEFINE d == IF c = 0 THEN IndexMin * 2 ELSE c * 2
    <3>1. index' = reindexed(es, d)
      BY <2>3, <2>7
    <3>2. d \in Nat /\ IsPowerOfTwo(d) /\ 4 * w < 3 * d /\ 2 * IndexMin <= d
      <4>1. CASE index = <<>> /\ Len(entries) < IndexMin
        <5>1. d = 2 * IndexMin
          BY <2>4, <4>1, IndexMinimum
        <5> QED
          BY <1>1, <2>2, <4>1, <5>1, IndexMinimum
      <4>2. CASE Indexed(hash, entries, index)
        <5>1. c \in Nat /\ c > 1 /\ IsPowerOfTwo(c)
          BY <4>2, IndexMinimum DEF Indexed
        <5>2. IsPowerOfTwo(2 * c)
          BY <5>1, TwiceAPower
        <5>3. d = 2 * c
          BY <5>1
        <5>4. 4 * Len(entries) < 3 * c /\ 2 * IndexMin <= c
          BY <4>2 DEF Indexed
        <5>5. 4 * w < 3 * d /\ 2 * IndexMin <= d
          BY <1>1, <2>2, <5>1, <5>3, <5>4, IndexMinimum
        <5> QED
          BY <5>1, <5>2, <5>3, <5>5
      <4> QED
        BY <1>3, <4>1, <4>2
    <3> HIDE DEF d
    <3>3. Indexed(hash, es, index')
      BY <1>1, <2>2, <3>1, <3>2, Rebuilt
    <3> QED
      BY <1>1, <1>2, <2>2, <2>3, <3>3, Left
  <2> QED
    BY <2>5, <2>6, <2>7
<1> QED
  BY <1>4, <1>5

LEMMA RemoveStep ==
  ASSUME DictInv, NEW k \in Keys, ob_dict_remove(k)
  PROVE  DictInv'
<1>1. /\ TypeOK /\ \A l \in Keys : hash[l] \in Nat
      /\ entries \in Seq(Entry) /\ Len(entries) \in Nat /\ Distinct(entries)
  BY Hashed DEF DictInv
<1>2. hash' = hash
  BY DEF ob_dict_remove
<1>3. \/ index = <<>> /\ Len(entries) < IndexMin
      \/ Indexed(hash, entries, index)
  BY IndexShape DEF DictInv, TypeOK
<1>4. CASE find(k) = 0
  <2>1. entries' = entries /\ index' = index /\ ret' = Null
    BY <1>4 DEF ob_dict_remove
  <2> QED
    BY <1>1, <1>2, <1>3, <2>1, Left
<1>5. CASE find(k) # 0
  <2>1. find(k) \in 1..Len(entries)
    BY <1>5, Finds
  <2>2. /\ ret' = entries[find(k)].value
        /\ entries' = RemoveAt(entries, find(k))
        /\ index' = IF index = <<>> THEN index ELSE reindexed(entries', cap(index))
    BY <1>5 DEF ob_dict_remove
  <2>3. ret' \in Values
    BY <1>1, <2>1, <2>2, EntryOf
  <2>4. /\ entries' \in Seq(Entry) /\ Len(entries') = Len(entries) - 1
        /\ Distinct(entries')
    BY <1>1, <2>1, <2>2, Removed
  <2>5. CASE index = <<>>
    <3>1. Len(entries) < IndexMin
      BY <1>1, <2>5 DEF TypeOK
    <3>2. index' = <<>> /\ Len(entries') < IndexMin
      BY <1>1, <2>2, <2>4, <2>5, <3>1, IndexMinimum
    <3> QED
      BY <1>1, <1>2, <2>3, <2>4, <3>2, Left
  <2>6. CASE index # <<>>
    <3>1. /\ cap(index) \in Nat /\ IsPowerOfTwo(cap(index))
          /\ 4 * Len(entries) < 3 * cap(index) /\ 2 * IndexMin <= cap(index)
      BY <2>6, IndexShape DEF Indexed
    <3>2. 4 * Len(entries') < 3 * cap(index)
      BY <1>1, <2>4, <3>1
    <3>3. Indexed(hash, entries', index')
      BY <1>1, <2>2, <2>4, <2>6, <3>1, <3>2, Rebuilt
    <3> QED
      BY <1>1, <1>2, <2>3, <2>4, <3>3, Left
  <2> QED
    BY <2>5, <2>6
<1> QED
  BY <1>4, <1>5

LEMMA InitStep ==
  ASSUME Init
  PROVE  DictInv
<1>1. /\ hash \in Hashes /\ entries = <<>> /\ index = <<>> /\ ret = Null
      /\ entries \in Seq(Entry) /\ Len(entries) = 0
  BY DEF Init
<1>2. TypeOK
  BY <1>1, IndexMinimum DEF TypeOK, Entry
<1>3. Distinct(entries)
  BY <1>1 DEF Distinct
<1> QED
  BY <1>1, <1>2, <1>3 DEF DictInv

LEMMA NextStep ==
  ASSUME DictInv, [Next]_vars
  PROVE  DictInv'
<1>1. /\ TypeOK /\ entries \in Seq(Entry) /\ Distinct(entries)
      /\ \/ index = <<>> /\ Len(entries) < IndexMin
         \/ Indexed(hash, entries, index)
  BY Hashed, IndexShape DEF DictInv, TypeOK
<1>2. CASE UNCHANGED vars
  <2>1. /\ hash' = hash /\ entries' = entries /\ index' = index
        /\ ret' \in Values \cup {Null} \cup BOOLEAN
    BY <1>1, <1>2 DEF vars, TypeOK
  <2> QED
    BY <1>1, <2>1, Left
<1>3. ASSUME NEW k \in Keys, ob_dict_get(k)
      PROVE  DictInv'
  <2>1. hash' = hash /\ entries' = entries /\ index' = index
    BY <1>3 DEF ob_dict_get
  <2>2. ret' \in Values \cup {Null} \cup BOOLEAN
    <3>1. find(k) # 0 => entries[find(k)].value \in Values
      BY <1>1, Finds, EntryOf
    <3> QED
      BY <1>3, <3>1 DEF ob_dict_get
  <2> QED
    BY <1>1, <2>1, <2>2, Left
<1>4. ASSUME NEW k \in Keys, ob_dict_has(k)
      PROVE  DictInv'
  <2>1. hash' = hash /\ entries' = entries /\ index' = index
    BY <1>4 DEF ob_dict_has
  <2>2. ret' \in BOOLEAN
    BY <1>4 DEF ob_dict_has
  <2> QED
    BY <1>1, <2>1, <2>2, Left
<1> QED
  BY <1>2, <1>3, <1>4, RemoveStep, SetStep DEF Next

(***************************************************************************)
(* Whatever is stored, removed and looked up, in any order and under any   *)
(* hash, the index and the entries stay as DictInv has them.               *)
(***************************************************************************)
THEOREM Invariance == Spec => []DictInv
BY InitStep, NextStep, PTL DEF Spec

(***************************************************************************)
(* Every position an index holds is that of an entry, and some slot is     *)
(* empty: no probe reads entries[] past its end, and every probe ends.     *)
(***************************************************************************)
THEOREM ProbesEndSafely == Spec => []IndexSound
<1>1. DictInv => IndexSound
  <2> SUFFICES ASSUME DictInv
               PROVE  IndexSound
    OBVIOUS
  <2>1. ASSUME index # <<>>
        PROVE  \E s \in DOMAIN index : index[s] = 0
    <3>1. Indexed(hash, entries, index)
      BY <2>1, IndexShape
    <3>2. /\ cap(index) \in Nat /\ Len(entries) \in Nat /\ Len(entries) < cap(index)
          /\ Knows(hash, entries, index, cap(index), Len(entries))
      BY <3>1, Hashed DEF Indexed, DictInv
    <3> QED
      BY <3>1, <3>2, SlotLeft DEF Indexed
  <2> QED
    BY <2>1 DEF DictInv, IndexSound, ProbesEnd
<1> QED
  BY <1>1, Invariance, PTL

-----------------------------------------------------------------------------

(***************************************************************************)
(* The refinement.                                                         *)
(***************************************************************************)

LEMMA FindsAt ==
  ASSUME DictInv, NEW k \in Keys
  PROVE  \/ find(k) = 0 /\ Map!At(k) = {}
         \/ find(k) # 0 /\ find(k) \in Map!At(k)
<1>1. DOMAIN entries = 1..Len(entries)
  BY Hashed DEF DictInv
<1> QED
  BY <1>1, Finds DEF Map!At

(***************************************************************************)
(* A dict is an ordered map: the index is used, grown and rebuilt without  *)
(* any caller seeing it, and the entries are what OrderedMap calls list.   *)
(***************************************************************************)
THEOREM ImplementsOrderedMap == Spec => IsOrderedMap
<1>1. Init => Map!Init
  BY DEF Init, Map!Init
<1>2. DictInv /\ [Next]_vars => [Map!Next]_<<entries, call, ret>>
  <2> SUFFICES ASSUME DictInv, [Next]_vars
               PROVE  [Map!Next]_<<entries, call, ret>>
    OBVIOUS
  <2>1. CASE UNCHANGED vars
    BY <2>1 DEF vars
  <2>2. ASSUME NEW k \in Keys, ob_dict_get(k)
        PROVE  Map!Lookup(k)
    BY <2>2, FindsAt DEF ob_dict_get, Map!Lookup
  <2>3. ASSUME NEW k \in Keys, ob_dict_has(k)
        PROVE  Map!Holds(k)
    BY <2>3, FindsAt DEF ob_dict_has, Map!Holds
  <2>4. ASSUME NEW k \in Keys, ob_dict_remove(k)
        PROVE  Map!Drop(k)
    <3>1. CASE find(k) = 0 /\ Map!At(k) = {}
      BY <2>4, <3>1 DEF ob_dict_remove, Map!Drop
    <3>2. CASE find(k) # 0 /\ find(k) \in Map!At(k)
      <4>1. ret' = entries[find(k)].value /\ entries' = RemoveAt(entries, find(k))
        BY <2>4, <3>2 DEF ob_dict_remove
      <4>2. call' = <<"remove", k>>
        BY <2>4 DEF ob_dict_remove
      <4> QED
        BY <3>2, <4>1, <4>2, Zenon DEF Map!Drop, Map!RemoveAt, RemoveAt
    <3> QED
      BY <3>1, <3>2, FindsAt
  <2>5. ASSUME NEW k \in Keys, NEW v \in Values, ob_dict_set(k, v)
        PROVE  Map!Store(k, v)
    BY <2>5, FindsAt DEF ob_dict_set, Map!Store
  <2> QED
    BY <2>1, <2>2, <2>3, <2>4, <2>5 DEF Next, Map!Next
<1> QED
  BY <1>1, <1>2, Invariance, PTL DEF Spec, IsOrderedMap, Map!Spec

-----------------------------------------------------------------------------

(***************************************************************************)
(* DictWalk: what a `for' over a dict visits while its body stores into    *)
(* the dict and removes from it, for any number of changes.                *)
(***************************************************************************)

\* The keys of the entries the loop has still to come to.
Window == {entries[j].key : j \in {q \in 1..Len(entries) : i < q /\ q <= n}}

\* The keys there were that the loop has not had and will not come to.
Passed == Range(first) \ (Range(visited) \cup Window)

\* Its iterations without an entry.
Blanks == {j \in DOMAIN visited : visited[j] = Null}

AtMost(S, m) == IsFiniteSet(S) /\ Cardinality(S) <= m

(***************************************************************************)
(* The inductive invariant.  Each removal may push one key out of what is  *)
(* still ahead, and may cost one iteration at the end: so what has been    *)
(* lost and what is certain to be lost are counted together.               *)
(***************************************************************************)
Looping ==
  /\ n \in Nat /\ i \in 0..n /\ drops \in Nat
  /\ first \in Seq(Keys) /\ Len(first) = n
  /\ visited \in Seq(Keys \cup {Null}) /\ Len(visited) = i

InOrder ==
  drops = 0 =>
    /\ n <= Len(entries)
    /\ \A j \in 1..n : entries[j].key = first[j]
    /\ \A j \in 1..i : visited[j] = first[j]

FewPassed == AtMost(Passed, drops)

FewBlanks ==
  /\ AtMost(Blanks, drops)
  /\ \/ AtMost(Blanks, drops - (n - i))
     \/ AtMost(Blanks, drops - (n - Len(entries)))

Unbegun == i = 0 /\ visited = <<>> /\ first = <<>> /\ drops = 0

WalkInv ==
  /\ DictInv
  /\ IF n = NotYet THEN Unbegun ELSE Looping /\ InOrder /\ FewPassed /\ FewBlanks

-----------------------------------------------------------------------------

(***************************************************************************)
(* Counting.                                                               *)
(***************************************************************************)

LEMMA Fewer ==
  ASSUME NEW S, NEW T, T \subseteq S, NEW a \in Int, NEW b \in Int, a <= b, AtMost(S, a)
  PROVE  AtMost(T, b)
<1>1. IsFiniteSet(T) /\ Cardinality(T) <= Cardinality(S)
  BY FS_Subset DEF AtMost
<1>2. Cardinality(T) \in Nat /\ Cardinality(S) \in Nat
  BY <1>1, FS_CardinalityType DEF AtMost
<1> QED
  BY <1>1, <1>2 DEF AtMost

LEMMA OneMore ==
  ASSUME NEW S, NEW T, NEW x, T \subseteq S \cup {x}, NEW a \in Int, AtMost(S, a)
  PROVE  AtMost(T, a + 1)
<1>1. AtMost(S \cup {x}, a + 1)
  <2>1. IsFiniteSet(S \cup {x}) /\ Cardinality(S \cup {x}) <= Cardinality(S) + 1
    <3>1. /\ IsFiniteSet(S \cup {x})
          /\ Cardinality(S \cup {x}) = IF x \in S THEN Cardinality(S) ELSE Cardinality(S) + 1
      BY FS_AddElement DEF AtMost
    <3>2. Cardinality(S) \in Nat
      BY FS_CardinalityType DEF AtMost
    <3> QED
      BY <3>1, <3>2
  <2>2. Cardinality(S) \in Nat /\ Cardinality(S \cup {x}) \in Nat
    BY <2>1, FS_CardinalityType DEF AtMost
  <2> QED
    BY <2>1, <2>2 DEF AtMost
<1> QED
  BY <1>1, Fewer

LEMMA Nothing == AtMost({}, 0)
BY FS_EmptySet DEF AtMost

-----------------------------------------------------------------------------

(***************************************************************************)
(* What the body of a loop does to the entries.                            *)
(***************************************************************************)

\* A store leaves the keys there are where they are.
LEMMA StoreKeeps ==
  ASSUME DictInv, NEW k \in Keys, NEW v \in Values, ob_dict_set(k, v)
  PROVE  /\ Len(entries) \in Nat /\ Len(entries') \in Nat
         /\ Len(entries') >= Len(entries)
         /\ \A j \in 1..Len(entries) : entries'[j].key = entries[j].key
<1>1. entries \in Seq(Entry) /\ Len(entries) \in Nat /\ Distinct(entries)
  BY Hashed DEF DictInv
<1>2. CASE find(k) # 0
  <2>1. find(k) \in 1..Len(entries)
    BY <1>2, Finds
  <2>2. entries' = [entries EXCEPT ![find(k)].value = v]
    BY <1>2 DEF ob_dict_set
  <2> DEFINE fs == [entries EXCEPT ![find(k)].value = v]
  <2>3. /\ Len(fs) = Len(entries)
        /\ \A j \in 1..Len(entries) : fs[j].key = entries[j].key
    BY <1>1, <2>1, Changed
  <2> QED
    BY <1>1, <2>2, <2>3
<1>3. CASE find(k) = 0
  <2> DEFINE e == [key |-> k, value |-> v]
  <2>1. entries' = Append(entries, e)
    BY <1>3 DEF ob_dict_set
  <2>2. e \in Entry /\ \A j \in 1..Len(entries) : entries[j].key # e.key
    BY <1>3, Finds DEF Entry
  <2> HIDE DEF e
  <2>3. /\ Len(Append(entries, e)) = Len(entries) + 1
        /\ \A j \in 1..Len(entries) : Append(entries, e)[j] = entries[j]
    BY <1>1, <2>2, Appended
  <2> QED
    BY <1>1, <2>1, <2>3
<1> QED
  BY <1>2, <1>3

\* A removal closes the gap.
LEMMA RemovalShifts ==
  ASSUME DictInv, NEW k \in Keys, find(k) # 0, ob_dict_remove(k)
  PROVE  \E p \in 1..Len(entries) :
           /\ Len(entries) \in Nat /\ Len(entries') = Len(entries) - 1
           /\ \A j \in 1..(Len(entries) - 1) :
                entries'[j] = IF j < p THEN entries[j] ELSE entries[j + 1]
<1>1. entries \in Seq(Entry) /\ Len(entries) \in Nat /\ Distinct(entries)
  BY Hashed DEF DictInv
<1>2. find(k) \in 1..Len(entries) /\ entries' = RemoveAt(entries, find(k))
  BY Finds DEF ob_dict_remove
<1> QED
  BY <1>1, <1>2, Removed

-----------------------------------------------------------------------------

(***************************************************************************)
(* The steps.                                                              *)
(***************************************************************************)

LEMMA BeginStep ==
  ASSUME WalkInv, Begin
  PROVE  WalkInv'
<1>1. /\ n' = Len(entries) /\ first' = KeysOf(entries) /\ Unbegun
      /\ UNCHANGED <<vars, i, visited, drops>>
  BY DEF Begin, WalkInv
<1>2. entries \in Seq(Entry) /\ Len(entries) \in Nat /\ DOMAIN entries = 1..Len(entries)
  BY Hashed DEF WalkInv, DictInv
<1>3. DictInv' /\ entries' = entries
  BY <1>1, NextStep DEF WalkInv, vars
<1>4. /\ first' \in Seq(Keys) /\ Len(first') = n' /\ DOMAIN first' = 1..n'
      /\ \A j \in 1..n' : first'[j] = entries[j].key
  <2>1. \A j \in 1..Len(entries) : entries[j].key \in Keys
    BY <1>2, EntryOf
  <2>2. first' = [j \in 1..Len(entries) |-> entries[j].key]
    BY <1>1, <1>2 DEF KeysOf
  <2> QED
    BY <1>1, <1>2, <2>1, <2>2
<1>5. Looping'
  BY <1>1, <1>2, <1>4 DEF Looping, Unbegun
<1>6. InOrder'
  BY <1>1, <1>2, <1>3, <1>4 DEF InOrder, Unbegun
<1>7. FewPassed'
  <2>1. Range(first') \subseteq Window'
    BY <1>1, <1>2, <1>3, <1>4 DEF Range, Window, Unbegun
  <2>2. Passed' = {}
    BY <2>1 DEF Passed
  <2> QED
    BY <1>1, <2>2, Nothing DEF FewPassed, Unbegun
<1>8. FewBlanks'
  <2>1. Blanks' = {}
    BY <1>1 DEF Blanks, Unbegun
  <2>2. drops' = 0 /\ drops' - (n' - Len(entries')) = 0
    BY <1>1, <1>2, <1>3 DEF Unbegun
  <2> QED
    BY <2>1, <2>2, Nothing DEF FewBlanks
<1>9. n' # NotYet
  BY <1>1, <1>2 DEF NotYet
<1> QED
  BY <1>3, <1>5, <1>6, <1>7, <1>8, <1>9 DEF WalkInv

\* Once begun.
LEMMA Begun ==
  ASSUME WalkInv, i > 0 \/ i < n
  PROVE  /\ n # NotYet /\ Looping /\ InOrder /\ FewPassed /\ FewBlanks
         /\ Len(entries) \in Nat /\ DOMAIN first = 1..n /\ DOMAIN visited = 1..i
<1>1. n # NotYet
  BY DEF WalkInv, Unbegun, NotYet
<1>2. Looping
  BY <1>1 DEF WalkInv
<1> QED
  BY <1>1, <1>2, Hashed DEF WalkInv, DictInv, Looping

LEMMA IterateStep ==
  ASSUME WalkInv, Iterate
  PROVE  WalkInv'
<1> DEFINE key == iter(i)
<1>1. /\ i < n /\ visited' = Append(visited, key) /\ i' = i + 1
      /\ UNCHANGED <<vars, n, first, drops>>
  BY DEF Iterate
<1>2. /\ n # NotYet /\ Looping /\ InOrder /\ FewPassed /\ FewBlanks
      /\ Len(entries) \in Nat /\ DOMAIN first = 1..n /\ DOMAIN visited = 1..i
  BY <1>1, Begun
<1>3. DictInv' /\ entries' = entries
  BY <1>1, NextStep DEF WalkInv, vars
<1>4. n \in Nat /\ i \in Nat /\ drops \in Nat
  BY <1>2 DEF Looping
<1>5. IF i >= Len(entries) THEN key = Null ELSE key = entries[i + 1].key /\ key \in Keys
  <2>1. i < Len(entries) => entries[i + 1].key \in Keys
    <3>1. entries \in Seq(Entry)
      BY Hashed DEF WalkInv, DictInv
    <3> QED
      BY <1>2, <1>4, <3>1, EntryOf
  <2> QED
    BY <1>2, <1>4, <2>1 DEF iter
<1> HIDE DEF key
<1>6. /\ visited' \in Seq(Keys \cup {Null}) /\ Len(visited') = i + 1
      /\ DOMAIN visited' = 1..(i + 1) /\ visited'[i + 1] = key
      /\ \A j \in 1..i : visited'[j] = visited[j]
  <2>1. visited \in Seq(Keys \cup {Null}) /\ Len(visited) = i /\ key \in Keys \cup {Null}
    BY <1>2, <1>5 DEF Looping
  <2> QED
    BY <1>1, <2>1
<1>7. Looping'
  BY <1>1, <1>2, <1>4, <1>6 DEF Looping
<1>8. InOrder'
  <2> SUFFICES ASSUME drops = 0
               PROVE  \A j \in 1..(i + 1) : visited'[j] = first[j]
    BY <1>1, <1>2, <1>3 DEF InOrder
  <2>1. /\ n <= Len(entries) /\ \A j \in 1..n : entries[j].key = first[j]
        /\ \A j \in 1..i : visited[j] = first[j]
    BY <1>2 DEF InOrder
  <2>2. key = first[i + 1]
    BY <1>1, <1>2, <1>4, <1>5, <2>1
  <2>3. \A j \in 1..(i + 1) : j \in 1..i \/ j = i + 1
    BY <1>4
  <2> QED
    BY <1>6, <2>1, <2>2, <2>3
<1>9. FewPassed'
  <2>1. Range(visited') = Range(visited) \cup {key}
    <3>1. 1..(i + 1) = (1..i) \cup {i + 1}
      BY <1>4
    <3> QED
      BY <1>2, <1>6, <3>1 DEF Range
  <2>2. Window \subseteq Window' \cup {key}
    <3>1. ASSUME NEW q \in 1..Len(entries), i < q, q <= n
          PROVE  (i + 1 < q /\ q <= n) \/ entries[q].key = key
      BY <1>2, <1>4, <1>5, <3>1
    <3> QED
      BY <1>1, <1>3, <3>1 DEF Window
  <2>3. Passed' \subseteq Passed
    BY <1>1, <1>3, <2>1, <2>2 DEF Passed
  <2> QED
    BY <1>1, <1>2, <1>4, <2>3, Fewer DEF FewPassed
<1>10. FewBlanks'
  <2>1. Blanks' = IF key = Null THEN Blanks \cup {i + 1} ELSE Blanks
    <3>1. 1..(i + 1) = (1..i) \cup {i + 1} /\ i + 1 \notin 1..i
      BY <1>4
    <3> QED
      BY <1>2, <1>6, <3>1 DEF Blanks
  <2>2. CASE i >= Len(entries)
    <3>1. AtMost(Blanks, drops - (n - i))
      BY <1>2, <1>4, <2>2, Fewer DEF FewBlanks
    <3>2. AtMost(Blanks', (drops - (n - i)) + 1)
      BY <1>4, <2>1, <3>1, OneMore
    <3>3. (drops - (n - i)) + 1 = drops - (n - (i + 1)) /\ (drops - (n - i)) + 1 <= drops
      BY <1>1, <1>4
    <3>4. AtMost(Blanks', drops - (n - (i + 1)))
      BY <3>2, <3>3
    <3>5. AtMost(Blanks', drops)
      BY <1>4, <3>2, <3>3, Fewer
    <3> QED
      BY <1>1, <3>4, <3>5 DEF FewBlanks
  <2>3. CASE ~(i >= Len(entries))
    <3>1. Blanks' = Blanks
      BY <1>5, <2>1, <2>3, WalkAssumption
    <3>2. AtMost(Blanks, drops - (n - i)) => AtMost(Blanks, drops - (n - (i + 1)))
      BY <1>4, Fewer
    <3> QED
      BY <1>1, <1>2, <1>3, <3>1, <3>2 DEF FewBlanks
  <2> QED
    BY <2>2, <2>3
<1> QED
  BY <1>1, <1>2, <1>3, <1>7, <1>8, <1>9, <1>10 DEF WalkInv

LEMMA BodySetsStep ==
  ASSUME WalkInv, BodySets
  PROVE  WalkInv'
<1>1. PICK k \in Keys, v \in Values : ob_dict_set(k, v)
  BY DEF BodySets
<1>2. i > 0 /\ UNCHANGED <<n, i, visited, first, drops>>
  BY DEF BodySets, loop
<1>3. DictInv'
  BY <1>1, SetStep DEF WalkInv
<1>4. /\ n # NotYet /\ Looping /\ InOrder /\ FewPassed /\ FewBlanks
      /\ Len(entries) \in Nat /\ DOMAIN first = 1..n /\ DOMAIN visited = 1..i
  BY <1>2, Begun
<1>5. n \in Nat /\ i \in Nat /\ drops \in Nat
  BY <1>4 DEF Looping
<1>6. /\ Len(entries') \in Nat /\ Len(entries') >= Len(entries)
      /\ \A j \in 1..Len(entries) : entries'[j].key = entries[j].key
  BY <1>1, StoreKeeps DEF WalkInv
<1>7. Looping'
  BY <1>2, <1>4 DEF Looping
<1>8. InOrder'
  BY <1>2, <1>4, <1>5, <1>6 DEF InOrder
<1>9. FewPassed'
  <2>1. Window \subseteq Window'
    <3>1. ASSUME NEW q \in 1..Len(entries), i < q, q <= n
          PROVE  entries[q].key \in Window'
      BY <1>2, <1>4, <1>6, <3>1 DEF Window
    <3> QED
      BY <3>1 DEF Window
  <2>2. Passed' \subseteq Passed
    BY <1>2, <2>1 DEF Passed
  <2> QED
    BY <1>2, <1>4, <1>5, <2>2, Fewer DEF FewPassed
<1>10. FewBlanks'
  <2>1. Blanks' = Blanks
    BY <1>2 DEF Blanks
  <2>2. drops - (n - Len(entries)) <= drops - (n - Len(entries'))
    BY <1>4, <1>5, <1>6
  <2>3. /\ drops - (n - Len(entries)) \in Int /\ drops - (n - Len(entries')) \in Int
    BY <1>4, <1>5, <1>6
  <2>4. AtMost(Blanks, drops - (n - Len(entries))) => AtMost(Blanks, drops - (n - Len(entries')))
    BY <2>2, <2>3, Fewer
  <2> QED
    BY <1>2, <1>4, <2>1, <2>4 DEF FewBlanks
<1> QED
  BY <1>2, <1>3, <1>4, <1>7, <1>8, <1>9, <1>10 DEF WalkInv

LEMMA BodyRemovesStep ==
  ASSUME WalkInv, BodyRemoves
  PROVE  WalkInv'
<1>1. PICK k \in Keys : find(k) # 0 /\ ob_dict_remove(k)
  BY DEF BodyRemoves
<1>2. i > 0 /\ drops' = drops + 1 /\ UNCHANGED <<n, i, visited, first>>
  BY DEF BodyRemoves
<1>3. DictInv'
  BY <1>1, RemoveStep DEF WalkInv
<1>4. /\ n # NotYet /\ Looping /\ InOrder /\ FewPassed /\ FewBlanks
      /\ Len(entries) \in Nat /\ DOMAIN first = 1..n /\ DOMAIN visited = 1..i
  BY <1>2, Begun
<1>5. n \in Nat /\ i \in Nat /\ drops \in Nat
  BY <1>4 DEF Looping
<1>6. PICK p \in 1..Len(entries) :
        /\ Len(entries) \in Nat /\ Len(entries') = Len(entries) - 1
        /\ \A j \in 1..(Len(entries) - 1) :
             entries'[j] = IF j < p THEN entries[j] ELSE entries[j + 1]
  BY <1>1, RemovalShifts DEF WalkInv
<1>7. Looping'
  BY <1>2, <1>4 DEF Looping
<1>8. InOrder'
  BY <1>2, <1>5 DEF InOrder
<1>9. FewPassed'
  <2> DEFINE lost == entries[IF p <= i THEN i + 1 ELSE p].key
  <2>1. Window \subseteq Window' \cup {lost}
    <3>1. ASSUME NEW q \in 1..Len(entries), i < q, q <= n
          PROVE  entries[q].key \in Window' \cup {lost}
      <4>1. CASE q < p
        <5>1. q \in 1..Len(entries') /\ entries'[q] = entries[q]
          BY <1>5, <1>6, <4>1
        <5> QED
          BY <1>2, <3>1, <5>1 DEF Window
      <4>2. CASE q = p
        BY <1>5, <3>1, <4>2
      <4>3. CASE q > p /\ q - 1 > i
        <5>1. q - 1 \in 1..Len(entries') /\ entries'[q - 1] = entries[q]
          BY <1>5, <1>6, <4>3
        <5>2. i < q - 1 /\ q - 1 <= n
          BY <1>5, <3>1, <4>3
        <5> QED
          BY <1>2, <5>1, <5>2 DEF Window
      <4>4. CASE q > p /\ ~(q - 1 > i)
        <5>1. q = i + 1 /\ p <= i
          BY <1>5, <3>1, <4>4
        <5> QED
          BY <5>1
      <4> QED
        BY <4>1, <4>2, <4>3, <4>4
    <3> QED
      BY <3>1 DEF Window
  <2> HIDE DEF lost
  <2>2. Passed' \subseteq Passed \cup {lost}
    BY <1>2, <2>1 DEF Passed
  <2>3. AtMost(Passed, drops) /\ drops \in Int
    BY <1>4, <1>5 DEF FewPassed
  <2> HIDE DEF Passed, AtMost
  <2>4. AtMost(Passed', drops + 1)
    BY <2>2, <2>3, OneMore, Zenon
  <2> QED
    BY <1>2, <2>4 DEF FewPassed
<1>10. FewBlanks'
  <2>1. Blanks' = Blanks
    BY <1>2 DEF Blanks
  <2>2. /\ drops <= drops + 1 /\ drops - (n - i) <= (drops + 1) - (n - i)
        /\ drops - (n - Len(entries)) <= (drops + 1) - (n - Len(entries'))
        /\ drops - (n - i) \in Int /\ (drops + 1) - (n - i) \in Int
        /\ drops - (n - Len(entries)) \in Int
        /\ (drops + 1) - (n - Len(entries')) \in Int
    BY <1>4, <1>5, <1>6
  <2>3. AtMost(Blanks, drops + 1)
    BY <1>4, <1>5, <2>2, Fewer DEF FewBlanks
  <2>4. \/ AtMost(Blanks, (drops + 1) - (n - i))
        \/ AtMost(Blanks, (drops + 1) - (n - Len(entries')))
    BY <1>4, <2>2, Fewer DEF FewBlanks
  <2> QED
    BY <1>2, <2>1, <2>3, <2>4 DEF FewBlanks
<1> QED
  BY <1>2, <1>3, <1>4, <1>7, <1>8, <1>9, <1>10 DEF WalkInv

LEMMA WalkStep ==
  ASSUME WalkInv, [WalkNext]_walkVars
  PROVE  WalkInv'
<1>1. CASE Before
  <2>1. n = NotYet /\ Unbegun /\ UNCHANGED <<n, i, visited, first, drops>>
    BY <1>1 DEF Before, WalkInv, loop
  <2>2. DictInv'
    BY <1>1, NextStep DEF Before, WalkInv
  <2> QED
    BY <2>1, <2>2 DEF WalkInv, Unbegun
<1>2. CASE UNCHANGED walkVars
  <2>1. DictInv'
    BY <1>2, NextStep DEF WalkInv, walkVars
  <2>2. UNCHANGED <<entries, n, i, visited, first, drops>>
    BY <1>2 DEF walkVars, vars, loop
  <2> QED
    BY <2>1, <2>2 DEF WalkInv, Unbegun, Looping, InOrder, FewPassed, FewBlanks, Passed,
       Window, Blanks
<1> QED
  BY <1>1, <1>2, BeginStep, IterateStep, BodySetsStep, BodyRemovesStep DEF WalkNext

LEMMA WalkHolds == WalkSpec => []WalkInv
<1>1. WalkInit => WalkInv
  BY InitStep DEF WalkInit, WalkInv, Unbegun
<1> QED
  BY <1>1, WalkStep, PTL DEF WalkSpec

(***************************************************************************)
(* Whatever the dict and its hash function: a loop whose body removes      *)
(* nothing visits the keys there were, each once and in order; and each    *)
(* removal costs it at most one of the keys that stay and at most one      *)
(* iteration without an entry.                                             *)
(***************************************************************************)
THEOREM VisitsWhatItMay == WalkSpec => []LoopVisits
<1>1. WalkInv => LoopVisits
  <2> SUFFICES ASSUME WalkInv
               PROVE  LoopVisits
    OBVIOUS
  <2>1. CASE n = NotYet
    <3>1. Unbegun
      BY <2>1 DEF WalkInv
    <3> QED
      BY <2>1, <3>1 DEF LoopVisits, VisitsAllOnce, LossesBounded, Unbegun, NotYet
  <2>2. CASE n # NotYet
    <3>1. Looping /\ InOrder /\ FewPassed /\ FewBlanks
      BY <2>2 DEF WalkInv
    <3>2. VisitsAllOnce
      <4> SUFFICES ASSUME drops = 0
                   PROVE  visited = SubSeq(first, 1, i) /\ i <= Len(first)
        BY DEF VisitsAllOnce
      <4>1. /\ first \in Seq(Keys) /\ i \in 0..Len(first)
            /\ visited \in Seq(Keys \cup {Null}) /\ Len(visited) = i
            /\ \A j \in 1..i : visited[j] = first[j]
        BY <3>1 DEF Looping, InOrder
      <4> QED
        BY <4>1
    <3>3. LossesBounded
      <4> SUFFICES ASSUME i = n
                   PROVE  /\ AtMost((Range(first) \cap Range(KeysOf(entries))) \ Range(visited),
                                    drops)
                          /\ AtMost(Blanks, drops)
        BY DEF LossesBounded, AtMost, Blanks
      <4>1. Window = {}
        <5>1. n \in Nat /\ Len(entries) \in Nat
          BY <3>1, Hashed DEF Looping, WalkInv, DictInv
        <5> QED
          BY <5>1 DEF Window
      <4>2. (Range(first) \cap Range(KeysOf(entries))) \ Range(visited) \subseteq Passed
        BY <4>1 DEF Passed
      <4>3. drops \in Int
        BY <3>1 DEF Looping
      <4> QED
        BY <3>1, <4>2, <4>3, Fewer DEF FewPassed, FewBlanks
    <3> QED
      BY <3>2, <3>3 DEF LoopVisits
  <2> QED
    BY <2>1, <2>2
<1> QED
  BY <1>1, WalkHolds, PTL

=============================================================================
