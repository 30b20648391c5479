--------------------------- MODULE FunctionsProofs ---------------------------
(***************************************************************************)
(* Proofs of what MCFunctions checks over small inputs: for every three    *)
(* versions and every constraint the code can parse, how versions are      *)
(* ordered and what a constraint reaches; for every size of the machine's  *)
(* word and every set of widths, that sized integers behave as the         *)
(* documents say and that a variable of a sized type holds that type.      *)
(***************************************************************************)
EXTENDS MCWaktanimra, MCNumbers, WaktanimraProofs,
        SequenceTheorems, FiniteSetTheorems

-----------------------------------------------------------------------------

(***************************************************************************)
(* Versions and constraints.                                               *)
(***************************************************************************)

\* Versions that compare equal have one triple, and both are tagged or neither.
LEMMA EqualTriples ==
  ASSUME NEW x \in Version, NEW y \in Version, waktanimra_cmp(x, y) = 0
  PROVE  triple(x) = triple(y) /\ (has_tag(x) <=> has_tag(y))
<1>1. cmp_tagged(x, y) = 0 => (has_tag(x) <=> has_tag(y))
  BY DEF cmp_tagged, has_tag
<1> QED
  BY <1>1 DEF waktanimra_cmp, sign, triple, Version

\* ... and stand in the same place against every other.
LEMMA EqualPlaces ==
  ASSUME NEW x \in Version, NEW y \in Version, NEW z \in Version,
         waktanimra_cmp(x, y) = 0
  PROVE  waktanimra_cmp(x, z) = waktanimra_cmp(y, z)
<1>1. waktanimra_cmp(y, x) = 0
  BY CmpNegates, CmpRange
<1>2. waktanimra_cmp(x, z) <= 0 <=> waktanimra_cmp(y, z) <= 0
  BY <1>1, CmpTransitive, CmpRange
<1>3. waktanimra_cmp(z, x) <= 0 <=> waktanimra_cmp(z, y) <= 0
  BY <1>1, CmpTransitive, CmpRange
<1>4. /\ waktanimra_cmp(x, z) = -waktanimra_cmp(z, x)
      /\ waktanimra_cmp(y, z) = -waktanimra_cmp(z, y)
  BY CmpNegates
<1> QED
  BY <1>2, <1>3, <1>4, CmpRange

LEMMA ReleaseIsVersion ==
  ASSUME NEW x \in Nat, NEW y \in Nat, NEW z \in Nat
  PROVE  /\ release(x, y, z) \in Version /\ ~has_tag(release(x, y, z))
         /\ release(x, y, z).major = x /\ release(x, y, z).minor = y
         /\ release(x, y, z).patch = z
<1>1. <<>> \in Tag
  BY DEF Tag
<1> QED
  BY <1>1 DEF release, Version, has_tag

\* Where the triple of one version is below that of another.
Lower(x, y) ==
  \/ x.major < y.major
  \/ x.major = y.major /\ x.minor < y.minor
  \/ x.major = y.major /\ x.minor = y.minor /\ x.patch < y.patch

\* The triples come first, and are all there is without tags.
LEMMA TriplesFirst ==
  ASSUME NEW x \in Version, NEW y \in Version
  PROVE  /\ Lower(x, y) => waktanimra_cmp(x, y) = -1
         /\ ~has_tag(x) /\ ~has_tag(y) /\ waktanimra_cmp(x, y) < 0 => Lower(x, y)
<1>1. ~has_tag(x) /\ ~has_tag(y) => cmp_tagged(x, y) = 0
  <2>1. <<>> \in Tag
    BY DEF Tag
  <2>2. cmp_tag(<<>>, <<>>) = 0
    BY <2>1, TagNegates, TagRange
  <2> QED
    BY <2>2 DEF cmp_tagged, has_tag
<1>2. waktanimra_cmp(x, y) < 0 => Lower(x, y) \/ cmp_tagged(x, y) # 0
  BY DEF waktanimra_cmp, sign, Version, Lower
<1>3. Lower(x, y) => waktanimra_cmp(x, y) = -1
  BY DEF waktanimra_cmp, sign, Version, Lower
<1> QED
  BY <1>1, <1>2, <1>3

(***************************************************************************)
(* waktanimra_cmp orders all versions: swapping the arguments negates it,  *)
(* it is transitive, spellings it takes for equal are interchangeable in   *)
(* every constraint, and a tagged version leads up to its release.         *)
(***************************************************************************)
THEOREM VersionsOrdered ==
  ASSUME u \in Version, v \in Version, w \in Version, c \in Constraint
  PROVE  VersionOrder
<1>1. TotalOrder
  BY CmpNegates, CmpTransitive DEF TotalOrder
<1>2. EqualIsInterchangeable
  <2> SUFFICES ASSUME waktanimra_cmp(u, v) = 0
               PROVE  /\ constraint_match(c, u) <=> constraint_match(c, v)
                      /\ waktanimra_cmp(u, w) = waktanimra_cmp(v, w)
    BY DEF EqualIsInterchangeable
  <2>1. caret_upper(c.base) \in Version /\ c.base \in Version
    <3>1. c.base \in Version /\ c.base.major \in Nat /\ c.base.minor \in Nat
          /\ c.base.patch \in Nat
      BY DEF Constraint, Version
    <3> DEFINE b == c.base
    <3>2. /\ b.major + 1 \in Nat /\ b.minor + 1 \in Nat /\ b.patch + 1 \in Nat /\ 0 \in Nat
      BY <3>1
    <3>3. /\ release(b.major + 1, 0, 0) \in Version
          /\ release(0, b.minor + 1, 0) \in Version
          /\ release(0, 0, b.patch + 1) \in Version
      BY <3>2, ReleaseIsVersion
    <3> QED
      BY <3>1, <3>3 DEF caret_upper
  <2>2. /\ waktanimra_cmp(u, c.base) = waktanimra_cmp(v, c.base)
        /\ waktanimra_cmp(u, caret_upper(c.base)) = waktanimra_cmp(v, caret_upper(c.base))
        /\ waktanimra_cmp(u, w) = waktanimra_cmp(v, w)
    BY <2>1, EqualPlaces
  <2>3. triple(u) = triple(v) /\ (has_tag(u) <=> has_tag(v))
    BY EqualTriples
  <2>4. tag_opted_in(c, u) <=> tag_opted_in(c, v)
    BY <2>3 DEF tag_opted_in
  <2> QED
    BY <2>2, <2>4 DEF constraint_match
<1>3. TagLeadsUpToRelease
  <2> DEFINE r == [u EXCEPT !.tag = <<>>]
  <2> SUFFICES ASSUME has_tag(u)
               PROVE  /\ waktanimra_cmp(u, r) = -1
                      /\ waktanimra_cmp(v, r) = -1 /\ ~has_tag(v) => waktanimra_cmp(v, u) = -1
    BY DEF TagLeadsUpToRelease
  <2>1. /\ r \in Version /\ ~has_tag(r)
        /\ r.major = u.major /\ r.minor = u.minor /\ r.patch = u.patch
    <3>1. <<>> \in Tag
      BY DEF Tag
    <3> QED
      BY <3>1 DEF Version, has_tag
  <2>2. waktanimra_cmp(u, r) = -1
    <3>1. cmp_tagged(u, r) = -1
      BY <2>1 DEF cmp_tagged
    <3> QED
      BY <2>1, <3>1 DEF waktanimra_cmp, Version
  <2>3. ASSUME waktanimra_cmp(v, r) = -1, ~has_tag(v)
        PROVE  waktanimra_cmp(v, u) = -1
    <3>1. Lower(v, r)
      BY <2>1, <2>3, TriplesFirst
    <3>2. Lower(v, u)
      BY <2>1, <3>1 DEF Lower
    <3> QED
      BY <3>2, TriplesFirst
  <2> QED
    BY <2>2, <2>3
<1> QED
  BY <1>1, <1>2, <1>3 DEF VersionOrder

(***************************************************************************)
(* A caret reaches exactly the releases not below its base that keep the   *)
(* base's leading component, and no constraint reaches a pre-release of a  *)
(* release it does not name.                                               *)
(***************************************************************************)
THEOREM ConstraintsReach ==
  ASSUME u \in Version, c \in Constraint
  PROVE  ConstraintReach
<1>1. PrereleaseOnRequest
  BY DEF PrereleaseOnRequest, constraint_match, tag_opted_in
<1>2. CaretKeepsLeading
  <2> SUFFICES ASSUME c.kind = "caret", ~has_tag(u)
               PROVE  constraint_match(c, u)
                        <=> /\ waktanimra_cmp(u, c.base) >= 0
                            /\ \A k \in 1..leading(c.base) : triple(u)[k] = triple(c.base)[k]
    BY DEF CaretKeepsLeading
  <2> DEFINE b == c.base
  <2>1. b \in Version
    BY DEF Constraint
  <2>2. constraint_match(c, u)
          <=> waktanimra_cmp(u, b) >= 0 /\ waktanimra_cmp(u, caret_upper(b)) < 0
    BY DEF constraint_match, tag_opted_in
  <2>3. ASSUME waktanimra_cmp(u, b) >= 0
        PROVE  waktanimra_cmp(u, caret_upper(b)) < 0
                 <=> \A k \in 1..leading(b) : triple(u)[k] = triple(b)[k]
    <3> DEFINE top == caret_upper(b)
    <3>1. b.major \in Nat /\ b.minor \in Nat /\ b.patch \in Nat
      BY <2>1 DEF Version
    <3>2. top \in Version /\ ~has_tag(top)
      <4>1. b.major + 1 \in Nat /\ b.minor + 1 \in Nat /\ b.patch + 1 \in Nat /\ 0 \in Nat
        BY <3>1
      <4>2. \/ top = release(b.major + 1, 0, 0)
            \/ top = release(0, b.minor + 1, 0)
            \/ top = release(0, 0, b.patch + 1)
        BY DEF caret_upper
      <4> QED
        BY <4>1, <4>2, ReleaseIsVersion
    <3>3. waktanimra_cmp(u, top) < 0 <=> Lower(u, top)
      BY <3>2, TriplesFirst
    <3>4. ~Lower(u, b)
      BY <2>1, <2>3, TriplesFirst
    <3>5. u.major \in Nat /\ u.minor \in Nat /\ u.patch \in Nat
      BY DEF Version
    <3>6. CASE b.major # 0
      <4>1. top.major = b.major + 1 /\ top.minor = 0 /\ top.patch = 0
        <5>1. top = release(b.major + 1, 0, 0)
          BY <3>6 DEF caret_upper
        <5> QED
          BY <5>1 DEF release
      <4>2. Lower(u, top) <=> u.major = b.major
        BY <3>1, <3>4, <3>5, <4>1 DEF Lower
      <4> QED
        BY <3>3, <3>6, <4>2 DEF leading, triple
    <3>7. CASE b.major = 0 /\ b.minor # 0
      <4>1. top.major = 0 /\ top.minor = b.minor + 1 /\ top.patch = 0
        <5>1. top = release(0, b.minor + 1, 0)
          BY <3>7 DEF caret_upper
        <5> QED
          BY <5>1 DEF release
      <4>2. Lower(u, top) <=> u.major = b.major /\ u.minor = b.minor
        BY <3>1, <3>4, <3>5, <3>7, <4>1 DEF Lower
      <4> QED
        BY <3>3, <3>7, <4>2 DEF leading, triple
    <3>8. CASE b.major = 0 /\ b.minor = 0
      <4>1. top.major = 0 /\ top.minor = 0 /\ top.patch = b.patch + 1
        BY <3>8 DEF caret_upper, release
      <4>2. Lower(u, top) <=> u.major = b.major /\ u.minor = b.minor /\ u.patch = b.patch
        BY <3>1, <3>4, <3>5, <3>8, <4>1 DEF Lower
      <4> QED
        BY <3>3, <3>8, <4>2 DEF leading, triple
    <3> QED
      BY <3>1, <3>6, <3>7, <3>8
  <2> QED
    BY <2>2, <2>3
<1> QED
  BY <1>1, <1>2 DEF ConstraintReach

-----------------------------------------------------------------------------

(***************************************************************************)
(* Powers of two.                                                          *)
(***************************************************************************)

\* The subsets of 1..a number 2^a.
LEMMA SubsetsCounted ==
  ASSUME NEW a \in Nat
  PROVE  /\ IsFiniteSet(SUBSET (1..a)) /\ Cardinality(SUBSET (1..a)) = 2^a
         /\ 2^a \in Nat \ {0}
<1>1. IsFiniteSet(1..a) /\ Cardinality(1..a) = a
  BY FS_Interval
<1>2. IsFiniteSet(SUBSET (1..a)) /\ Cardinality(SUBSET (1..a)) = 2^a
  BY <1>1, FS_SUBSET
<1>3. SUBSET (1..a) # {}
  <2>1. {} \in SUBSET (1..a)
    OBVIOUS
  <2> QED
    BY <2>1
<1>4. Cardinality(SUBSET (1..a)) # 0
  BY <1>2, <1>3, FS_EmptySet, Zenon
<1>5. Cardinality(SUBSET (1..a)) \in Nat
  BY <1>2, FS_CardinalityType
<1> QED
  BY <1>2, <1>4, <1>5

LEMMA PowerNext ==
  ASSUME NEW a \in Nat
  PROVE  2^(a + 1) = 2 * 2^a
<1> DEFINE Old == SUBSET (1..a)
           New == {S \cup {a + 1} : S \in Old}
<1>1. IsFiniteSet(Old) /\ Cardinality(Old) = 2^a /\ 2^a \in Nat
  BY SubsetsCounted
<1>2. Cardinality(SUBSET (1..(a + 1))) = 2^(a + 1)
  BY SubsetsCounted
<1>3. IsFiniteSet(New) /\ Cardinality(New) = Cardinality(Old)
  <2> DEFINE f == [S \in Old |-> S \cup {a + 1}]
  <2>1. f \in [Old -> New] /\ \A t \in New : \E S \in Old : f[S] = t
    OBVIOUS
  <2>2. ASSUME NEW S \in Old, NEW T \in Old, f[S] = f[T]
        PROVE  S = T
    <3>1. S \cup {a + 1} = T \cup {a + 1}
      BY <2>2
    <3>2. a + 1 \notin S /\ a + 1 \notin T
      OBVIOUS
    <3> QED
      BY <3>1, <3>2
  <2>3. ExistsBijection(Old, New)
    BY <2>1, <2>2 DEF ExistsBijection, Bijection, Injection, Surjection, IsInjective
  <2> QED
    BY <1>1, <2>3, FS_Bijection
<1>4. SUBSET (1..(a + 1)) = Old \cup New
  <2>1. 1..(a + 1) = (1..a) \cup {a + 1}
    OBVIOUS
  <2>2. ASSUME NEW S \in SUBSET (1..(a + 1))
        PROVE  S \in Old \cup New
    <3>1. CASE a + 1 \notin S
      BY <2>1, <3>1
    <3>2. CASE a + 1 \in S
      <4>1. S \ {a + 1} \in Old /\ S = (S \ {a + 1}) \cup {a + 1}
        BY <2>1, <3>2
      <4> QED
        BY <4>1
    <3> QED
      BY <3>1, <3>2
  <2>3. ASSUME NEW S \in Old \cup New
        PROVE  S \in SUBSET (1..(a + 1))
    BY <2>1
  <2> QED
    BY <2>2, <2>3
<1>5. Cardinality(Old \cap New) = 0
  <2>1. Old \cap New = {}
    OBVIOUS
  <2> QED
    BY <2>1, FS_EmptySet
<1> HIDE DEF Old, New
<1>6. Cardinality(Old \cup New) =
        Cardinality(Old) + Cardinality(New) - Cardinality(Old \cap New)
  BY <1>1, <1>3, FS_Union
<1>7. 2^(a + 1) = Cardinality(Old) + Cardinality(Old) - 0
  BY <1>2, <1>3, <1>4, <1>5, <1>6
<1> QED
  BY <1>1, <1>7

\* What holds of a power holds of the next: stated for the sums of exponents.
LEMMA PowerOfSum ==
  ASSUME NEW a \in Nat, NEW b \in Nat
  PROVE  2^(a + b) = 2^a * 2^b
<1> DEFINE Wrong == {k \in Nat : 2^(a + k) # 2^a * 2^k}
<1>1. SUFFICES ASSUME Wrong # {}
               PROVE  FALSE
  OBVIOUS
<1>2. PICK k \in Wrong : \A j \in Wrong : ~(j < k)
  <2>1. Wrong \subseteq Nat
    OBVIOUS
  <2> HIDE DEF Wrong
  <2>2. PICK k \in Wrong : \A j \in Wrong : <<j, k>> \notin OpToRel(<, Nat)
    BY <1>1, <2>1, WFMin, NatLessThanWellFounded
  <2>3. \A j \in Wrong : ~(j < k)
    BY <2>1, <2>2 DEF OpToRel
  <2> QED
    BY <2>3
<1>3. CASE k = 0
  <2>1. 2^0 = 1
    <3>1. SUBSET (1..0) = {{}}
      OBVIOUS
    <3>2. Cardinality({{}}) = 1
      BY FS_Singleton
    <3> QED
      BY <3>1, <3>2, SubsetsCounted
  <2> QED
    BY <1>3, <2>1, SubsetsCounted
<1>4. CASE k # 0
  <2>1. k - 1 \in Nat /\ a + (k - 1) \in Nat /\ a + k = (a + (k - 1)) + 1 /\ k = (k - 1) + 1
    BY <1>4
  <2>2. k - 1 \notin Wrong
    BY <1>2, <2>1
  <2>3. 2^(a + (k - 1)) = 2^a * 2^(k - 1)
    BY <2>1, <2>2
  <2>4. 2^(a + k) = 2 * 2^(a + (k - 1)) /\ 2^k = 2 * 2^(k - 1)
    BY <2>1, PowerNext
  <2>5. 2^a \in Nat /\ 2^(k - 1) \in Nat
    BY <2>1, SubsetsCounted
  <2> QED
    BY <2>3, <2>4, <2>5
<1> QED
  BY <1>3, <1>4

LEMMA Power ==
  ASSUME NEW a \in Nat, NEW b \in Nat, a <= b
  PROVE  /\ 2^a \in Nat \ {0} /\ 2^b \in Nat \ {0} /\ 2^(b - a) \in Nat \ {0}
         /\ 2^b = 2^(b - a) * 2^a /\ 2^a <= 2^b
<1>1. b - a \in Nat /\ b = (b - a) + a
  OBVIOUS
<1>2. 2^a \in Nat \ {0} /\ 2^b \in Nat \ {0} /\ 2^(b - a) \in Nat \ {0}
  BY <1>1, SubsetsCounted
<1>3. 2^b = 2^(b - a) * 2^a
  BY <1>1, PowerOfSum
<1>4. PICK x, y \in Nat \ {0} : x = 2^(b - a) /\ y = 2^a
  BY <1>2
<1>5. x * y >= y
  OBVIOUS
<1> QED
  BY <1>2, <1>3, <1>4, <1>5

-----------------------------------------------------------------------------

(***************************************************************************)
(* Numbers that differ by a multiple of d.                                 *)
(***************************************************************************)
Cong(x, y, d) == \E k \in Int : x - y = k * d

LEMMA CongItself ==
  ASSUME NEW x \in Int, NEW d \in Nat
  PROVE  Cong(x, x, d)
<1>1. x - x = 0 * d
  OBVIOUS
<1> QED
  BY <1>1 DEF Cong

LEMMA CongBack ==
  ASSUME NEW x \in Int, NEW y \in Int, NEW d \in Nat, Cong(x, y, d)
  PROVE  Cong(y, x, d)
<1>1. PICK k \in Int : x - y = k * d
  BY DEF Cong
<1>2. y - x = (-k) * d /\ -k \in Int
  BY <1>1
<1> QED
  BY <1>2 DEF Cong

LEMMA CongOn ==
  ASSUME NEW x \in Int, NEW y \in Int, NEW z \in Int, NEW d \in Nat,
         Cong(x, y, d), Cong(y, z, d)
  PROVE  Cong(x, z, d)
<1>1. PICK k \in Int : x - y = k * d
  BY DEF Cong
<1>2. PICK j \in Int : y - z = j * d
  BY DEF Cong
<1>3. x - z = (k + j) * d /\ k + j \in Int
  BY <1>1, <1>2
<1> QED
  BY <1>3 DEF Cong

LEMMA CongSum ==
  ASSUME NEW x \in Int, NEW y \in Int, NEW a \in Int, NEW b \in Int, NEW d \in Nat,
         Cong(x, y, d), Cong(a, b, d)
  PROVE  Cong(x + a, y + b, d) /\ Cong(x - a, y - b, d)
<1>1. PICK k \in Int : x - y = k * d
  BY DEF Cong
<1>2. PICK j \in Int : a - b = j * d
  BY DEF Cong
<1>3. /\ (x + a) - (y + b) = (k + j) * d /\ k + j \in Int
      /\ (x - a) - (y - b) = (k - j) * d /\ k - j \in Int
  BY <1>1, <1>2
<1> QED
  BY <1>3 DEF Cong

LEMMA CongProduct ==
  ASSUME NEW x \in Int, NEW y \in Int, NEW a \in Int, NEW b \in Int, NEW d \in Nat,
         Cong(x, y, d), Cong(a, b, d)
  PROVE  Cong(x * a, y * b, d)
<1>1. PICK k \in Int : x - y = k * d
  BY DEF Cong
<1>2. PICK j \in Int : a - b = j * d
  BY DEF Cong
<1>3. x = y + k * d /\ a = b + j * d
  BY <1>1, <1>2
<1>4. x * a = y * b + (y * j + k * b + k * j * d) * d
  BY <1>3
<1>5. x * a - y * b = (y * j + k * b + k * j * d) * d /\ y * j + k * b + k * j * d \in Int
  BY <1>4
<1> QED
  BY <1>5 DEF Cong

LEMMA CongLess ==
  ASSUME NEW x \in Int, NEW y \in Int, NEW d \in Nat, NEW q \in Nat, Cong(x, y, q * d)
  PROVE  Cong(x, y, d)
<1>1. PICK k \in Int : x - y = k * (q * d)
  BY DEF Cong
<1>2. x - y = (k * q) * d /\ k * q \in Int
  BY <1>1
<1> QED
  BY <1>2 DEF Cong

LEMMA CongUnique ==
  ASSUME NEW x \in Int, NEW y \in Int, NEW d \in Nat \ {0}, Cong(x, y, d),
         x - y < d, y - x < d
  PROVE  x = y
<1>1. PICK k \in Int : x - y = k * d
  BY DEF Cong
<1>2. k * d < d /\ k * d > -d
  BY <1>1
<1>3. k < 1
  BY <1>2
<1>4. k > -1
  BY <1>2
<1>5. k * d = 0
  BY <1>3, <1>4
<1> QED
  BY <1>1, <1>5

LEMMA Remainder ==
  ASSUME NEW x \in Int, NEW d \in Nat \ {0}
  PROVE  x % d \in 0..(d - 1) /\ Cong(x % d, x, d)
<1>1. PICK k, r \in Int : k = x \div d /\ r = x % d
  OBVIOUS
<1>2. r \in 0..(d - 1) /\ x = d * k + r
  BY <1>1
<1>3. r - x = (-k) * d /\ -k \in Int
  BY <1>2
<1> QED
  BY <1>1, <1>2, <1>3 DEF Cong

LEMMA SameIsCong ==
  ASSUME NEW w1 \in Nat, NEW x \in Int, NEW y \in Int
  PROVE  Same(w1, x, y) <=> Cong(x, y, 2^w1)
<1>1. PICK d \in Nat \ {0} : d = 2^w1
  BY SubsetsCounted
<1>2. PICK e, r \in Int : e = x - y /\ r = e % d
  OBVIOUS
<1>3. r \in 0..(d - 1) /\ Cong(r, e, d)
  BY <1>2, Remainder
<1>4. CASE r = 0
  <2>1. PICK k \in Int : 0 - e = k * d
    BY <1>3, <1>4 DEF Cong
  <2>2. x - y = (-k) * d /\ -k \in Int
    BY <1>2, <2>1
  <2> QED
    BY <1>1, <1>2, <1>4, <2>2 DEF Same, Cong
<1>5. CASE r # 0
  <2>1. ~Cong(x, y, d)
    <3> SUFFICES ASSUME Cong(x, y, d)
                 PROVE  FALSE
      OBVIOUS
    <3>1. PICK k \in Int : x - y = k * d
      BY DEF Cong
    <3>2. e - 0 = k * d
      BY <1>2, <3>1
    <3>3. Cong(e, 0, d)
      BY <3>2 DEF Cong
    <3>4. Cong(r, 0, d)
      BY <1>3, <3>3, CongOn
    <3>5. r - 0 < d /\ 0 - r < d
      BY <1>3
    <3> QED
      BY <1>5, <3>4, <3>5, CongUnique
  <2> QED
    BY <1>1, <1>2, <1>5, <2>1 DEF Same
<1> QED
  BY <1>4, <1>5

-----------------------------------------------------------------------------

(***************************************************************************)
(* Words and what they stand for.                                          *)
(***************************************************************************)

\* The width of a type, where that of a plain int is the word's.
Size(w1) == IF w1 = 0 THEN Full ELSE w1

IsType(w1, flag) == w1 \in Widths \cup {0} /\ flag \in BOOLEAN /\ (w1 = 0 => ~flag)

LEMMA Sizes ==
  ASSUME NEW w1, NEW flag, IsType(w1, flag)
  PROVE  /\ Full \in Nat /\ Full > 1 /\ w1 \in Nat
         /\ Size(w1) \in Nat /\ 1 <= Size(w1) /\ Size(w1) <= Full
         /\ Size(w1) # Full => Size(w1) = w1 /\ w1 <= Full - 1 /\ w1 >= 1 /\ w1 - 1 \in Nat
BY NumbersAssumption DEF IsType, Size

LEMMA UnsignedIs ==
  ASSUME NEW x \in Int, NEW a \in Nat
  PROVE  Unsigned(x, a) \in 0..(2^a - 1) /\ Cong(Unsigned(x, a), x, 2^a)
BY SubsetsCounted, Remainder DEF Unsigned

LEMMA SignedIs ==
  ASSUME NEW x \in Int, NEW a \in Nat \ {0}
  PROVE  /\ Signed(x, a) \in -(2^(a - 1))..(2^(a - 1) - 1)
         /\ Cong(Signed(x, a), x, 2^a)
         /\ 2^a = 2 * 2^(a - 1)
<1>0. a - 1 \in Nat /\ (a - 1) + 1 = a
  OBVIOUS
<1>1. PICK h \in Nat \ {0} : h = 2^(a - 1)
  BY <1>0, SubsetsCounted
<1>2. 2^a = 2 * h /\ 2 * h \in Nat \ {0}
  BY <1>0, <1>1, PowerNext
<1>3. PICK r \in 0..(2 * h - 1) : r = x % (2 * h) /\ Cong(r, x, 2 * h)
  BY <1>2, Remainder
<1>4. Signed(x, a) = IF r >= h THEN r - 2 * h ELSE r
  BY <1>1, <1>2, <1>3 DEF Signed
<1>5. Cong(r - 2 * h, x, 2 * h)
  <2>1. PICK k \in Int : r - x = k * (2 * h)
    BY <1>3 DEF Cong
  <2>2. (r - 2 * h) - x = (k - 1) * (2 * h) /\ k - 1 \in Int
    BY <2>1
  <2> QED
    BY <2>2 DEF Cong
<1>6. CASE r >= h
  BY <1>1, <1>2, <1>3, <1>4, <1>5, <1>6
<1>7. CASE ~(r >= h)
  BY <1>1, <1>2, <1>3, <1>4, <1>7
<1> QED
  BY <1>6, <1>7

\* What is stored as a type: a word, in the type's range, that differs by a
\* multiple of its size from what was to be stored.
LEMMA Wraps ==
  ASSUME NEW x \in Int, NEW w1, NEW flag, IsType(w1, flag)
  PROVE  LET a == ob_int_sized(x, w1, flag)
         IN  /\ a.i \in Words /\ Words \subseteq Int
             /\ Value(a) \in RangeOf(w1, flag) /\ RangeOf(w1, flag) \subseteq Int
             /\ Cong(a.i, x, 2^Size(w1)) /\ Cong(Value(a), x, 2^Size(w1))
<1> DEFINE a == ob_int_sized(x, w1, flag)
<1>1. /\ Full \in Nat \ {0} /\ Full > 1 /\ Full - 1 \in Nat /\ w1 \in Nat
      /\ Size(w1) \in Nat /\ 1 <= Size(w1) /\ Size(w1) <= Full
      /\ Size(w1) # Full => Size(w1) = w1 /\ w1 <= Full - 1 /\ w1 >= 1 /\ w1 - 1 \in Nat
  BY Sizes
<1>2. a.i = ob_wrap(x, w1, flag) /\ a.unsigned = flag /\ a.width = w1
  BY DEF ob_int_sized
<1>3. PICK h \in Nat \ {0} : h = 2^(Full - 1) /\ 2^Full = 2 * h
  BY <1>1, SubsetsCounted, SignedIs
<1>4. Words = (-h)..(h - 1)
  BY <1>3 DEF Words
<1>5. CASE Size(w1) = Full
  <2>1. a.i = Signed(x, Full) /\ w1 \in {0, Full}
    BY <1>1, <1>2, <1>5 DEF ob_wrap, Size
  <2>2. a.i \in Words /\ Cong(a.i, x, 2^Full)
    BY <1>1, <1>3, <1>4, <2>1, SignedIs
  <2>3. CASE flag
    <3>1. w1 = Full
      BY <2>1, <2>3 DEF IsType
    <3>2. Value(a) = Unsigned(a.i, Full) /\ RangeOf(w1, flag) = 0..(2^Full - 1)
      BY <1>1, <1>2, <2>3, <3>1 DEF Value, RangeOf
    <3>3. Value(a) \in 0..(2^Full - 1) /\ Cong(Value(a), a.i, 2^Full)
      <4>1. a.i \in Int /\ Full \in Nat
        BY <1>1, <1>4, <2>2
      <4> QED
        BY <3>2, <4>1, UnsignedIs
    <3>4. Cong(Value(a), x, 2^Full)
      BY <1>3, <1>4, <2>2, <3>3, CongOn
    <3> QED
      BY <1>3, <1>4, <1>5, <2>2, <3>2, <3>3, <3>4
  <2>4. CASE ~flag
    <3>1. Value(a) = a.i
      BY <1>2, <2>4 DEF Value
    <3>2. RangeOf(w1, flag) = Words
      BY <1>1, <2>1, <2>4 DEF RangeOf, Words
    <3> QED
      BY <1>4, <1>5, <2>2, <3>1, <3>2
  <2> QED
    BY <2>3, <2>4 DEF IsType
<1>6. CASE Size(w1) # Full
  <2>1. /\ Size(w1) = w1 /\ w1 # 0 /\ w1 # Full
        /\ a.i = IF flag THEN Unsigned(x, w1) ELSE Signed(x, w1)
    BY <1>1, <1>2, <1>6 DEF ob_wrap
  <2>2. PICK g \in Nat \ {0} : 2^w1 = g /\ g <= h
    BY <1>1, <1>3, <1>6, Power
  <2>3. CASE flag
    <3>1. RangeOf(w1, flag) = 0..(g - 1)
      BY <2>1, <2>2, <2>3 DEF RangeOf
    <3>2. a.i \in 0..(g - 1) /\ Cong(a.i, x, g)
      BY <1>1, <2>1, <2>2, <2>3, UnsignedIs
    <3>3. Value(a) = Unsigned(a.i, Full)
      BY <1>2, <2>3 DEF Value
    <3>4. PICK y \in 0..(2 * h - 1) : y = Value(a) /\ Cong(y, a.i, 2 * h)
      <4>1. a.i \in Int /\ Full \in Nat
        BY <1>1, <3>2
      <4> QED
        BY <1>3, <3>3, <4>1, UnsignedIs
    <3>5. y = a.i
      BY <2>2, <3>2, <3>4, CongUnique
    <3> QED
      BY <1>4, <2>1, <2>2, <3>1, <3>2, <3>4, <3>5
  <2>4. CASE ~flag
    <3>1. PICK f \in Nat \ {0} : f = 2^(w1 - 1) /\ g = 2 * f
      BY <1>1, <1>6, <2>2, SubsetsCounted, SignedIs
    <3>2. RangeOf(w1, flag) = (-f)..(f - 1)
      BY <2>1, <2>4, <3>1 DEF RangeOf
    <3>3. a.i \in (-f)..(f - 1) /\ Cong(a.i, x, g)
      BY <1>1, <2>1, <2>2, <2>4, <3>1, SignedIs
    <3>4. Value(a) = a.i
      BY <1>2, <2>4 DEF Value
    <3> QED
      BY <1>4, <2>1, <2>2, <3>1, <3>2, <3>3, <3>4
  <2> QED
    BY <2>3, <2>4 DEF IsType
<1> QED
  BY <1>5, <1>6

\* A range has as many numbers as its size has words.
LEMMA RangeIsShort ==
  ASSUME NEW w1, NEW flag, IsType(w1, flag),
         NEW x \in RangeOf(w1, flag), NEW y \in RangeOf(w1, flag)
  PROVE  x \in Int /\ y \in Int /\ x - y < 2^Size(w1) /\ 2^Size(w1) \in Nat \ {0}
<1>1. Size(w1) \in Nat /\ Size(w1) - 1 \in Nat /\ Size(w1) # 0 /\ Full \in Nat \ {0}
  BY Sizes
<1>2. PICK h \in Nat \ {0} : h = 2^(Size(w1) - 1)
  BY <1>1, SubsetsCounted
<1>3. 2^Size(w1) = 2 * h
  <2>1. (Size(w1) - 1) + 1 = Size(w1)
    BY <1>1
  <2> QED
    BY <1>1, <1>2, <2>1, PowerNext
<1>4. RangeOf(w1, flag) = IF flag THEN 0..(2 * h - 1) ELSE (-h)..(h - 1)
  BY <1>1, <1>2, <1>3 DEF RangeOf, Words, Size, IsType
<1> QED
  BY <1>2, <1>3, <1>4 DEF IsType

\* So a number of the type is stored as it is.
LEMMA Keeps ==
  ASSUME NEW x \in Int, NEW w1, NEW flag, IsType(w1, flag),
         NEW y \in RangeOf(w1, flag), Cong(y, x, 2^Size(w1))
  PROVE  Value(ob_int_sized(x, w1, flag)) = y
<1>1. PICK z \in RangeOf(w1, flag) :
        z = Value(ob_int_sized(x, w1, flag)) /\ Cong(z, x, 2^Size(w1))
  BY Wraps
<1>2. y \in Int /\ z \in Int /\ y - z < 2^Size(w1) /\ z - y < 2^Size(w1)
  BY RangeIsShort
<1>3. PICK d \in Nat \ {0} : d = 2^Size(w1)
  BY RangeIsShort
<1>4. Cong(y, z, d)
  BY <1>1, <1>2, <1>3, CongBack, CongOn
<1> QED
  BY <1>1, <1>2, <1>3, <1>4, CongUnique

-----------------------------------------------------------------------------

(***************************************************************************)
(* The integers of the runtime.                                            *)
(***************************************************************************)

\* Read by its sign, a word differs from itself by a multiple of a word's size,
\* and only if it is negative.
LEMMA Reads ==
  ASSUME NEW x \in Words
  PROVE  /\ x \in Int /\ x < 2^Full /\ -x < 2^Full /\ 2^Full \in Nat \ {0} /\ Full \in Nat
         /\ Unsigned(x, Full) \in 0..(2^Full - 1) /\ Cong(Unsigned(x, Full), x, 2^Full)
         /\ x >= 0 => Unsigned(x, Full) = x
         /\ x # 0 => Unsigned(x, Full) # 0
<1>1. Full \in Nat \ {0} /\ Full \in Nat /\ Full - 1 \in Nat
  BY NumbersAssumption
<1>2. PICK h \in Nat \ {0} : h = 2^(Full - 1) /\ 2^Full = 2 * h
  <2>1. (Full - 1) + 1 = Full
    BY <1>1
  <2>2. 2^(Full - 1) \in Nat \ {0}
    BY <1>1, SubsetsCounted
  <2>3. 2^Full = 2 * 2^(Full - 1)
    BY <1>1, <2>1, PowerNext
  <2> QED
    BY <2>2, <2>3
<1>3. x \in Int /\ -h <= x /\ x < h
  BY <1>2 DEF Words
<1>4. PICK y \in 0..(2 * h - 1) : y = Unsigned(x, Full) /\ Cong(y, x, 2 * h)
  BY <1>1, <1>2, <1>3, UnsignedIs
<1>5. y - x < 2 * h /\ x - y < 2 * h => y = x
  <2>1. 2 * h \in Nat \ {0} /\ y \in Int
    OBVIOUS
  <2> QED
    BY <1>3, <1>4, <2>1, CongUnique
<1> QED
  BY <1>1, <1>2, <1>3, <1>4, <1>5

\* A type is one.
LEMMA TypesAre ==
  ASSUME NEW t \in Types
  PROVE  IsType(t.width, t.unsigned)
<1>1. CASE t = [width |-> 0, unsigned |-> FALSE]
  <2>1. t.width = 0 /\ t.unsigned = FALSE
    BY <1>1
  <2> QED
    BY <2>1 DEF IsType
<1>2. CASE t \in [width : Widths, unsigned : BOOLEAN]
  <2>1. t.width \in Widths /\ t.unsigned \in BOOLEAN
    BY <1>2
  <2>2. t.width # 0
    BY <2>1, NumbersAssumption
  <2> QED
    BY <2>1, <2>2 DEF IsType
<1> QED
  BY <1>1, <1>2 DEF Types

\* What it is to be an integer: the word of its type that stands for a number of
\* the type.
LEMMA NumberIs ==
  ASSUME NEW a \in Numbers
  PROVE  /\ IsType(a.width, a.unsigned) /\ a.i \in Words /\ a.i \in Int /\ Value(a) \in Int
         /\ InRange(a) /\ Cong(Value(a), a.i, 2^Full)
         /\ ~a.unsigned => Value(a) = a.i
         /\ a.i >= 0 => Value(a) = a.i
         /\ a.unsigned => Value(a) = Unsigned(a.i, Full) /\ Value(a) >= 0
         /\ a.unsigned /\ a.width # Full => a.i >= 0
<1>1. PICK x \in Words, t \in Types :
        a = [i |-> ob_wrap(x, t.width, t.unsigned), width |-> t.width, unsigned |-> t.unsigned]
  BY DEF Numbers
<1>2. IsType(t.width, t.unsigned)
  BY TypesAre
<1>3. a = ob_int_sized(x, t.width, t.unsigned) /\ a.width = t.width /\ a.unsigned = t.unsigned
      /\ a.i = ob_wrap(x, t.width, t.unsigned)
  BY <1>1 DEF ob_int_sized
<1>4. x \in Int
  BY Reads
<1>5. a.i \in Words /\ Value(a) \in RangeOf(t.width, t.unsigned) /\ Value(a) \in Int
  <2>1. /\ ob_int_sized(x, t.width, t.unsigned).i \in Words
        /\ Value(ob_int_sized(x, t.width, t.unsigned)) \in RangeOf(t.width, t.unsigned)
        /\ RangeOf(t.width, t.unsigned) \subseteq Int
    BY <1>2, <1>4, Wraps
  <2> QED
    BY <1>3, <2>1
<1>6. /\ a.i \in Int /\ 2^Full \in Nat /\ Unsigned(a.i, Full) \in 0..(2^Full - 1)
      /\ Cong(Unsigned(a.i, Full), a.i, 2^Full)
      /\ a.i >= 0 => Unsigned(a.i, Full) = a.i
  BY <1>5, Reads
<1>7. Cong(a.i, a.i, 2^Full)
  BY <1>6, CongItself
<1>8. a.unsigned \in BOOLEAN
  BY <1>2, <1>3 DEF IsType
<1>9. ASSUME a.unsigned, a.width # Full
      PROVE  a.i >= 0
  <2>1. t.width \in Nat /\ a.i = Unsigned(x, t.width)
    BY <1>2, <1>3, <1>9, Sizes DEF ob_wrap, IsType
  <2>2. a.i \in 0..(2^t.width - 1)
    BY <1>4, <2>1, UnsignedIs
  <2> QED
    BY <2>2
<1>10. InRange(a)
  BY <1>3, <1>5 DEF InRange
<1> QED
  BY <1>2, <1>3, <1>5, <1>6, <1>7, <1>8, <1>9, <1>10 DEF Value

\* Whatever is stored as a type is one.
LEMMA SizedIsNumber ==
  ASSUME NEW x \in Int, NEW w1, NEW flag, IsType(w1, flag)
  PROVE  ob_int_sized(x, w1, flag) \in Numbers
<1> DEFINE a == ob_int_sized(x, w1, flag)
           b == ob_int_sized(a.i, w1, flag)
<1>1. PICK d \in Nat \ {0} : d = 2^Size(w1)
  BY Sizes, SubsetsCounted
<1>2. /\ a.i \in Words /\ Value(a) \in RangeOf(w1, flag) /\ RangeOf(w1, flag) \subseteq Int
      /\ Cong(a.i, x, d) /\ Cong(Value(a), x, d)
  BY <1>1, Wraps
<1>3. a.i \in Int /\ Value(a) \in Int
  BY <1>2, Reads
<1>4. Cong(Value(a), a.i, d)
  BY <1>1, <1>2, <1>3, CongBack, CongOn
<1>5. Value(b) = Value(a)
  BY <1>1, <1>2, <1>3, <1>4, Keeps
<1>6. b.i \in Words
  BY <1>3, Wraps
<1>7. a.unsigned = flag /\ b.unsigned = flag /\ flag \in BOOLEAN
  BY DEF ob_int_sized, IsType
<1>8. b.i = a.i
  <2>1. CASE flag
    <3>1. Value(b) = Unsigned(b.i, Full) /\ Value(a) = Unsigned(a.i, Full)
      BY <1>7, <2>1 DEF Value
    <3>2. PICK c1 \in Nat \ {0} : c1 = 2^Full
      BY <1>2, Reads
    <3>3. /\ b.i \in Int /\ Value(b) \in Int /\ Cong(Value(b), b.i, c1)
          /\ Cong(Value(a), a.i, c1)
      BY <1>2, <1>3, <1>5, <1>6, <3>1, <3>2, Reads
    <3>4. Cong(b.i, a.i, c1)
      <4>1. Cong(b.i, Value(b), c1)
        BY <3>3, CongBack
      <4> QED
        BY <1>3, <1>5, <3>3, <4>1, CongOn
    <3>5. b.i - a.i < c1 /\ a.i - b.i < c1
      <4>1. PICK h \in Nat \ {0} : h = 2^(Full - 1) /\ c1 = 2 * h
        <5>1. Full - 1 \in Nat /\ (Full - 1) + 1 = Full
          BY NumbersAssumption
        <5>2. 2^(Full - 1) \in Nat \ {0} /\ 2^Full = 2 * 2^(Full - 1)
          BY <5>1, SubsetsCounted, PowerNext
        <5> QED
          BY <3>2, <5>2
      <4> QED
        BY <1>2, <1>6, <4>1 DEF Words
    <3> QED
      BY <1>3, <3>3, <3>4, <3>5, CongUnique
  <2>2. CASE ~flag
    BY <1>5, <1>7, <2>2 DEF Value
  <2> QED
    BY <1>7, <2>1, <2>2
<1>9. a.i = ob_wrap(a.i, w1, flag)
  BY <1>8 DEF ob_int_sized
<1>10. PICK t \in Types : t.width = w1 /\ t.unsigned = flag
  <2>1. [width |-> w1, unsigned |-> flag] \in Types
    BY DEF IsType, Types
  <2> QED
    BY <2>1
<1>11. a = [i |-> ob_wrap(a.i, t.width, t.unsigned), width |-> t.width, unsigned |-> t.unsigned]
  BY <1>9, <1>10 DEF ob_int_sized
<1> QED
  BY <1>2, <1>11 DEF Numbers

-----------------------------------------------------------------------------

(***************************************************************************)
(* What a computation makes of the word it computes.                       *)
(***************************************************************************)

LEMMA Larger ==
  ASSUME NEW x \in Int, NEW y \in Int
  PROVE  Max({x, y}) = IF x >= y THEN x ELSE y
<1> DEFINE z == IF x >= y THEN x ELSE y
<1>1. z \in {x, y} /\ \A t \in {x, y} : z >= t
  OBVIOUS
<1>2. \A t \in {x, y} : (\A r \in {x, y} : t >= r) => t = z
  OBVIOUS
<1> HIDE DEF z
<1>3. Max({x, y}) = z
  BY <1>1, <1>2 DEF Max
<1> QED
  BY <1>3 DEF z

\* The type of a result: as wide as the wider operand; where it is not unsigned,
\* an unsigned operand is the narrower.
LEMMA Promotes ==
  ASSUME NEW a \in Numbers, NEW b \in Numbers
  PROVE  /\ IsType(ob_promote(a, b).width, ob_promote(a, b).unsigned)
         /\ Size(ob_promote(a, b).width) = Wider(a, b)
         /\ Wider(a, b) \in Nat /\ Wider(a, b) <= Full
         /\ ~ob_promote(a, b).unsigned =>
              /\ a.unsigned => a.width # Full
              /\ b.unsigned => b.width # Full
<1>1. IsType(a.width, a.unsigned) /\ IsType(b.width, b.unsigned)
  BY NumberIs
<1>2. ob_eff_width(a) = Size(a.width) /\ ob_eff_width(b) = Size(b.width)
  BY DEF ob_eff_width, Size
<1>3. /\ Full \in Nat /\ Full # 0 /\ a.width \in Nat /\ b.width \in Nat
      /\ Size(a.width) \in Nat /\ Size(a.width) <= Full /\ Size(a.width) >= 1
      /\ Size(b.width) \in Nat /\ Size(b.width) <= Full /\ Size(b.width) >= 1
  BY <1>1, Sizes
<1>4. Wider(a, b) = IF Size(a.width) >= Size(b.width) THEN Size(a.width) ELSE Size(b.width)
  BY <1>2, <1>3, Larger DEF Wider
<1>5. /\ Wider(a, b) \in Nat /\ Wider(a, b) <= Full
      /\ Wider(a, b) \in {Size(a.width), Size(b.width)}
      /\ Wider(a, b) # 0 /\ Size(a.width) <= Wider(a, b) /\ Size(b.width) <= Wider(a, b)
  BY <1>3, <1>4
<1>6. CASE a.width = 0 /\ b.width = 0
  <2>1. ob_promote(a, b) = [width |-> 0, unsigned |-> FALSE]
    BY <1>6 DEF ob_promote
  <2>2. ob_promote(a, b).width = 0 /\ ob_promote(a, b).unsigned = FALSE
    BY <2>1
  <2>3. Wider(a, b) = Full
    BY <1>5, <1>6 DEF Size
  <2> QED
    BY <1>3, <1>5, <1>6, <2>2, <2>3 DEF IsType, Size
<1>7. CASE ~(a.width = 0 /\ b.width = 0)
  <2> DEFINE s == \E x \in {a, b} : ob_eff_width(x) = Wider(a, b) /\ x.unsigned
  <2>1. ob_promote(a, b) = [width |-> Wider(a, b), unsigned |-> s]
    BY <1>7 DEF ob_promote, Wider
  <2>2. ob_promote(a, b).width = Wider(a, b) /\ ob_promote(a, b).unsigned = s /\ s \in BOOLEAN
    BY <2>1
  <2>3. Wider(a, b) \in Widths
    BY <1>1, <1>5, NumbersAssumption DEF Size, IsType
  <2>4. ASSUME ~s
        PROVE  /\ a.unsigned => a.width # Full
               /\ b.unsigned => b.width # Full
    <3>1. a.unsigned => ob_eff_width(a) # Wider(a, b)
      BY <2>4
    <3>2. b.unsigned => ob_eff_width(b) # Wider(a, b)
      BY <2>4
    <3>3. a.width = Full => Size(a.width) = Wider(a, b)
      BY <1>3, <1>5 DEF Size
    <3>4. b.width = Full => Size(b.width) = Wider(a, b)
      BY <1>3, <1>5 DEF Size
    <3> QED
      BY <1>2, <3>1, <3>2, <3>3, <3>4
  <2> HIDE DEF s
  <2>5. IsType(Wider(a, b), s) /\ Size(Wider(a, b)) = Wider(a, b)
    BY <1>5, <2>2, <2>3 DEF IsType, Size
  <2> QED
    BY <1>5, <2>2, <2>4, <2>5
<1> QED
  BY <1>6, <1>7

LEMMA PlainIsSized ==
  ASSUME NEW x \in Int
  PROVE  ob_int(x) = ob_int_sized(x, 0, FALSE)
BY DEF ob_int, ob_int_sized, ob_wrap

\* The result of two operands.
LEMMA Results ==
  ASSUME NEW a \in Numbers, NEW b \in Numbers, NEW x \in Int
  PROVE  /\ ob_int_result(a, b, x) \in Numbers
         /\ Cong(Value(ob_int_result(a, b, x)), x, 2^Wider(a, b))
<1> DEFINE t == ob_promote(a, b)
<1>1. IsType(t.width, t.unsigned) /\ Size(t.width) = Wider(a, b)
  BY Promotes
<1>2. t.width = 0 => ~t.unsigned
  BY <1>1 DEF IsType
<1>3. ob_int_result(a, b, x) = ob_int_sized(x, t.width, t.unsigned)
  <2>1. CASE t.width = 0
    <3>1. t.unsigned = FALSE
      BY <1>1, <1>2, <2>1 DEF IsType
    <3> QED
      BY <2>1, <3>1, PlainIsSized DEF ob_int_result
  <2>2. CASE t.width # 0
    BY <2>2 DEF ob_int_result
  <2> QED
    BY <2>1, <2>2
<1> HIDE DEF t
<1> QED
  BY <1>1, <1>3, SizedIsNumber, Wraps

\* The result of one.
LEMMA ResultsOfOne ==
  ASSUME NEW a \in Numbers, NEW x \in Int
  PROVE  /\ ob_shift_result(a, x) = ob_int_sized(x, a.width, a.unsigned)
         /\ ob_shift_result(a, x) \in Numbers
         /\ Cong(Value(ob_shift_result(a, x)), x, 2^Size(a.width))
<1>1. IsType(a.width, a.unsigned)
  BY NumberIs
<1>2. ob_shift_result(a, x) = ob_int_sized(x, a.width, a.unsigned)
  <2>1. CASE a.width = 0
    <3>1. a.unsigned = FALSE
      BY <1>1, <2>1 DEF IsType
    <3> QED
      BY <2>1, <3>1, PlainIsSized DEF ob_shift_result
  <2>2. CASE a.width # 0
    BY <2>2 DEF ob_shift_result
  <2> QED
    BY <2>1, <2>2
<1> QED
  BY <1>1, <1>2, SizedIsNumber, Wraps

\* What is the same to a word's bits is the same to fewer.
LEMMA Narrower ==
  ASSUME NEW x \in Int, NEW y \in Int, NEW w1 \in Nat, w1 <= Full, Cong(x, y, 2^Full)
  PROVE  Cong(x, y, 2^w1)
<1>1. Full \in Nat
  BY NumbersAssumption
<1>2. PICK d, q \in Nat : d = 2^w1 /\ q = 2^(Full - w1) /\ 2^Full = q * d
  BY <1>1, Power
<1> QED
  BY <1>2, CongLess

\* Sums, differences and products.
LEMMA Computes ==
  ASSUME NEW a \in Numbers, NEW b \in Numbers
  PROVE  /\ ob_add(a, b) \in Numbers /\ ob_sub(a, b) \in Numbers /\ ob_mul(a, b) \in Numbers
         /\ Same(Wider(a, b), Value(ob_add(a, b)), Value(a) + Value(b))
         /\ Same(Wider(a, b), Value(ob_sub(a, b)), Value(a) - Value(b))
         /\ Same(Wider(a, b), Value(ob_mul(a, b)), Value(a) * Value(b))
<1>1. /\ a.i \in Int /\ b.i \in Int /\ Value(a) \in Int /\ Value(b) \in Int
      /\ Cong(Value(a), a.i, 2^Full) /\ Cong(Value(b), b.i, 2^Full)
  BY NumberIs
<1>2. Wider(a, b) \in Nat /\ Wider(a, b) <= Full
  BY Promotes
<1>3. PICK d \in Nat \ {0} : d = 2^Wider(a, b)
  BY <1>2, SubsetsCounted
<1>4. Cong(a.i, Value(a), d) /\ Cong(b.i, Value(b), d)
  <2>1. Cong(Value(a), a.i, d) /\ Cong(Value(b), b.i, d)
    BY <1>1, <1>2, <1>3, Narrower
  <2> QED
    BY <1>1, <2>1, CongBack
<1>5. ASSUME NEW x \in Int, NEW y \in Int, Cong(x, y, d)
      PROVE  /\ ob_int_result(a, b, x) \in Numbers
             /\ Same(Wider(a, b), Value(ob_int_result(a, b, x)), y)
  <2>1. ob_int_result(a, b, x) \in Numbers /\ Cong(Value(ob_int_result(a, b, x)), x, d)
    BY <1>3, Results
  <2>2. Value(ob_int_result(a, b, x)) \in Int
    BY <2>1, NumberIs
  <2>3. Cong(Value(ob_int_result(a, b, x)), y, d)
    BY <1>5, <2>1, <2>2, CongOn
  <2> QED
    BY <1>2, <1>3, <2>1, <2>2, <2>3, SameIsCong
<1>6. /\ a.i + b.i \in Int /\ a.i - b.i \in Int /\ a.i * b.i \in Int
      /\ Value(a) + Value(b) \in Int /\ Value(a) - Value(b) \in Int
      /\ Value(a) * Value(b) \in Int
  BY <1>1
<1>7. /\ Cong(a.i + b.i, Value(a) + Value(b), d)
      /\ Cong(a.i - b.i, Value(a) - Value(b), d)
  BY <1>1, <1>4, CongSum
<1>8. Cong(a.i * b.i, Value(a) * Value(b), d)
  BY <1>1, <1>4, CongProduct
<1> QED
  BY <1>5, <1>6, <1>7, <1>8 DEF ob_add, ob_sub, ob_mul

LEMMA Dividends ==
  ASSUME NEW a, NEW b, NEW x \in Words
  PROVE  /\ Dividend(a, b, x) \in Int /\ Cong(Dividend(a, b, x), x, 2^Full)
         /\ x # 0 => Dividend(a, b, x) # 0
<1>1. /\ x \in Int /\ 2^Full \in Nat /\ Unsigned(x, Full) \in 0..(2^Full - 1)
      /\ Cong(Unsigned(x, Full), x, 2^Full)
      /\ x # 0 => Unsigned(x, Full) # 0
  BY Reads
<1>2. Cong(x, x, 2^Full)
  BY <1>1, CongItself
<1>3. CASE ob_promote(a, b).unsigned
  <2>1. Dividend(a, b, x) = Unsigned(x, Full)
    BY <1>3 DEF Dividend
  <2> QED
    BY <1>1, <2>1
<1>4. CASE ~ob_promote(a, b).unsigned
  BY <1>1, <1>2, <1>4 DEF Dividend
<1> QED
  BY <1>3, <1>4

LEMMA QuotientIs ==
  ASSUME NEW x \in Int, NEW y \in Int, y # 0
  PROVE  Quotient(x, y) \in Int
<1>1. PICK p, q \in Nat : /\ p = IF x < 0 THEN -x ELSE x
                         /\ q = IF y < 0 THEN -y ELSE y
  OBVIOUS
<1>2. q # 0
  BY <1>1
<1>3. p \div q \in Int
  BY <1>2
<1> QED
  BY <1>1, <1>3 DEF Quotient

\* What is divided is the quotient times the divisor and the remainder.
LEMMA Divided ==
  ASSUME NEW a \in Numbers, NEW b \in Numbers, Divides(a, b)
  PROVE  /\ ob_div(a, b) \in Numbers /\ ob_mod(a, b) \in Numbers
         /\ Same(Wider(a, b), Value(ob_div(a, b)) * Value(b) + Value(ob_mod(a, b)), Value(a))
<1>1. /\ a.i \in Int /\ b.i \in Int /\ Value(a) \in Int /\ Value(b) \in Int
      /\ a.i \in Words /\ b.i \in Words
      /\ Cong(Value(a), a.i, 2^Full) /\ Cong(Value(b), b.i, 2^Full)
  BY NumberIs
<1>2. Wider(a, b) \in Nat /\ Wider(a, b) <= Full
  BY Promotes
<1>3. PICK d \in Nat \ {0} : d = 2^Wider(a, b)
  BY <1>2, SubsetsCounted
<1>4. b.i # 0
  BY DEF Divides
<1>5. PICK x \in Int : x = Dividend(a, b, a.i) /\ Cong(x, a.i, 2^Full)
  BY <1>1, Dividends
<1>6. PICK y \in Int : y = Dividend(a, b, b.i) /\ Cong(y, b.i, 2^Full) /\ y # 0
  BY <1>1, <1>4, Dividends
<1>7. PICK q \in Int : q = Quotient(x, y)
  BY <1>6, QuotientIs
<1>8. x - y * q \in Int
  OBVIOUS
<1>9. PICK e \in Numbers : e = ob_div(a, b) /\ Cong(Value(e), q, d)
  BY <1>3, <1>5, <1>6, <1>7, Results DEF ob_div
<1>10. PICK f \in Numbers : f = ob_mod(a, b) /\ Cong(Value(f), x - y * q, d)
  BY <1>3, <1>5, <1>6, <1>7, <1>8, Results DEF ob_mod
<1>11. Value(e) \in Int /\ Value(f) \in Int
  BY NumberIs
<1>12. Cong(Value(b), y, d)
  <2>1. Cong(Value(b), b.i, d) /\ Cong(y, b.i, d)
    BY <1>1, <1>2, <1>3, <1>6, Narrower
  <2>2. Cong(b.i, y, d)
    BY <1>1, <2>1, CongBack
  <2> QED
    BY <1>1, <2>1, <2>2, CongOn
<1>13. Cong(x, Value(a), d)
  <2>1. Cong(Value(a), a.i, d) /\ Cong(x, a.i, d)
    BY <1>1, <1>2, <1>3, <1>5, Narrower
  <2>2. Cong(a.i, Value(a), d)
    BY <1>1, <2>1, CongBack
  <2> QED
    BY <1>1, <2>1, <2>2, CongOn
<1>14. PICK r \in Int : r = Value(e) * Value(b) /\ Cong(r, q * y, d)
  BY <1>1, <1>9, <1>11, <1>12, CongProduct
<1>15. Cong(r + Value(f), q * y + (x - y * q), d)
  <2>1. q * y \in Int
    OBVIOUS
  <2> QED
    BY <1>8, <1>10, <1>11, <1>14, <2>1, CongSum
<1>16. q * y + (x - y * q) = x
  OBVIOUS
<1>17. r + Value(f) \in Int
  BY <1>11
<1>18. Cong(r + Value(f), Value(a), d)
  BY <1>1, <1>13, <1>15, <1>16, <1>17, CongOn
<1> QED
  BY <1>1, <1>2, <1>3, <1>9, <1>10, <1>14, <1>17, <1>18, SameIsCong

LEMMA OneOperand ==
  ASSUME NEW a \in Numbers
  PROVE  ob_neg(a) \in Numbers /\ ob_bnot(a) \in Numbers
<1>1. -a.i \in Int /\ -a.i - 1 \in Int
  BY NumberIs
<1> QED
  BY <1>1, ResultsOfOne DEF ob_neg, ob_bnot

\* Division by d rounding down.
LEMMA RoundsDown ==
  ASSUME NEW x \in Int, NEW d \in Nat \ {0}
  PROVE  /\ x \div d \in Int
         /\ x >= 0 => 0 <= x \div d /\ x \div d <= x
         /\ x < 0 => x <= x \div d /\ x \div d <= -1
         /\ 0 <= x /\ x < d => x \div d = 0
         /\ x < 0 /\ -d <= x => x \div d = -1
<1>1. PICK k \in Int, r \in 0..(d - 1) : k = x \div d /\ x = d * k + r
  OBVIOUS
<1>2. k >= 0 => d * k >= k
  OBVIOUS
<1>4. k >= 1 => d * k >= d
  OBVIOUS
<1>5. k <= -1 => d * k <= -d
  OBVIOUS
<1>6. k <= -2 => d * k <= -d - d
  OBVIOUS
<1>7. x < 0 => x <= k /\ k <= -1
  <2> SUFFICES ASSUME x < 0
               PROVE  x <= k /\ k <= -1
    OBVIOUS
  <2>1. k <= -1
    BY <1>1, <1>2
  <2>2. x <= k
    <3>1. PICK j \in Nat : k = -1 - j
      BY <2>1
    <3>2. d * k = -d - d * j /\ d * j >= j
      BY <3>1
    <3> QED
      BY <1>1, <3>1, <3>2
  <2> QED
    BY <2>1, <2>2
<1>8. x >= 0 => 0 <= k /\ k <= x
  BY <1>1, <1>2, <1>5
<1>9. 0 <= x /\ x < d => k = 0
  BY <1>1, <1>4, <1>5
<1>10. x < 0 /\ -d <= x => k = -1
  BY <1>1, <1>6, <1>7
<1> QED
  BY <1>1, <1>7, <1>8, <1>9, <1>10

\* Shifts multiply by a power of two to the width, and divide by it rounding down.
LEMMA Shifted ==
  ASSUME NEW a \in Numbers, NEW b \in Numbers
  PROVE  /\ ob_shl(a, b) \in Numbers /\ ob_shr(a, b) \in Numbers
         /\ b.i >= 0 => /\ Value(ob_shr(a, b)) = Value(a) \div 2^b.i
                        /\ Same(ob_eff_width(a), Value(ob_shl(a, b)), Value(a) * 2^b.i)
<1>1. /\ IsType(a.width, a.unsigned) /\ a.i \in Int /\ Value(a) \in Int /\ b.i \in Int
      /\ Value(a) \in RangeOf(a.width, a.unsigned)
      /\ Cong(Value(a), a.i, 2^Full) /\ a.i \in Words
      /\ a.unsigned \in BOOLEAN
  BY NumberIs DEF InRange, IsType
<1>2. /\ Full \in Nat /\ Size(a.width) \in Nat /\ Size(a.width) <= Full
      /\ Size(a.width) >= 1 /\ ob_eff_width(a) = Size(a.width)
  BY <1>1, Sizes DEF ob_eff_width, Size
<1>3. PICK d \in Nat \ {0} : d = 2^Size(a.width)
  BY <1>2, SubsetsCounted
<1> DEFINE left == IF b.i \in 0..Full - 1 THEN a.i * 2^b.i ELSE 0
           right == IF b.i < 0 THEN 0
                    ELSE IF b.i >= Full THEN (IF ~a.unsigned /\ a.i < 0 THEN -1 ELSE 0)
                    ELSE Value(a) \div 2^b.i
<1>4. ASSUME b.i >= 0
      PROVE  b.i \in Nat /\ 2^b.i \in Nat \ {0}
  <2>1. b.i \in Nat
    BY <1>1, <1>4
  <2> QED
    BY <2>1, SubsetsCounted
<1>5. left \in Int
  BY <1>1, <1>4
<1>6. right \in Int
  <2>1. CASE b.i >= 0
    BY <1>1, <1>4, <2>1, RoundsDown
  <2>2. CASE b.i < 0
    BY <2>2
  <2> QED
    BY <1>1, <2>1, <2>2
<1>7. ob_shl(a, b) = ob_shift_result(a, left) /\ ob_shr(a, b) = ob_shift_result(a, right)
  BY DEF ob_shl, ob_shr
<1>8. ASSUME b.i >= 0
      PROVE  Same(Size(a.width), Value(ob_shl(a, b)), Value(a) * 2^b.i)
  <2>1. PICK z \in Nat \ {0} : z = 2^b.i
    BY <1>4, <1>8
  <2>2. Cong(Value(a) * z, a.i * z, d)
    <3>1. Cong(Value(a), a.i, d)
      BY <1>1, <1>2, <1>3, Narrower
    <3>2. Cong(z, z, d) /\ z \in Int /\ d \in Nat
      BY CongItself
    <3> QED
      BY <1>1, <3>1, <3>2, CongProduct
  <2>3. Cong(left, a.i * z, d)
    <3>1. CASE b.i \in 0..Full - 1
      <4>1. left = a.i * z
        BY <2>1, <3>1
      <4> QED
        BY <1>5, <4>1, CongItself
    <3>2. CASE b.i \notin 0..Full - 1
      <4>1. left = 0 /\ Size(a.width) <= b.i
        BY <1>1, <1>2, <1>8, <3>2
      <4>2. PICK q \in Nat : z = q * d
        BY <1>2, <1>3, <1>4, <1>8, <2>1, <4>1, Power
      <4>3. left - a.i * z = (-(a.i * q)) * d /\ -(a.i * q) \in Int
        BY <1>1, <4>1, <4>2
      <4> QED
        BY <4>3 DEF Cong
    <3> QED
      BY <3>1, <3>2
  <2>4. PICK r \in Int : r = Value(ob_shl(a, b)) /\ Cong(r, left, d)
    BY <1>3, <1>5, <1>7, ResultsOfOne, NumberIs
  <2> HIDE DEF left
  <2>5. a.i * z \in Int /\ Value(a) * z \in Int
    BY <1>1
  <2>6. Cong(r, a.i * z, d)
    BY <1>5, <2>3, <2>4, <2>5, CongOn
  <2>7. Cong(a.i * z, Value(a) * z, d)
    BY <2>2, <2>5, CongBack
  <2>8. Cong(r, Value(a) * z, d)
    BY <2>5, <2>6, <2>7, CongOn
  <2> QED
    BY <1>2, <1>3, <2>1, <2>4, <2>5, <2>8, SameIsCong
<1>9. ASSUME b.i >= 0
      PROVE  Value(ob_shr(a, b)) = Value(a) \div 2^b.i
  <2>1. PICK z \in Nat \ {0} : z = 2^b.i
    BY <1>4, <1>9
  <2>2. PICK y \in Int : /\ y = Value(a) \div z
                         /\ Value(a) >= 0 => 0 <= y /\ y <= Value(a)
                         /\ Value(a) < 0 => Value(a) <= y /\ y <= -1
                         /\ 0 <= Value(a) /\ Value(a) < z => y = 0
                         /\ Value(a) < 0 /\ -z <= Value(a) => y = -1
    BY <1>1, RoundsDown
  <2>3. right = y
    <3>1. CASE b.i < Full
      BY <1>1, <1>2, <1>9, <2>1, <2>2, <3>1
    <3>2. CASE b.i >= Full
      <4>1. PICK e \in Nat \ {0} : e = 2^Full /\ e <= z
        BY <1>2, <1>4, <1>9, <2>1, <3>2, Power
      <4>2. a.unsigned => Value(a) \in 0..(e - 1)
        BY <1>1, <4>1, NumberIs, Reads
      <4>3. ~a.unsigned => Value(a) = a.i
        BY NumberIs
      <4>4. a.i < e /\ -a.i < e
        BY <1>1, <4>1, Reads
      <4> QED
        BY <1>1, <1>2, <1>9, <2>2, <3>2, <4>1, <4>2, <4>3, <4>4
    <3> QED
      BY <1>1, <1>2, <3>1, <3>2
  <2>4. y \in RangeOf(a.width, a.unsigned)
    <3>1. Size(a.width) - 1 \in Nat /\ (Size(a.width) - 1) + 1 = Size(a.width)
      BY <1>2
    <3>2. PICK h \in Nat \ {0} : h = 2^(Size(a.width) - 1)
      BY <3>1, SubsetsCounted
    <3>3. d = 2 * h
      BY <1>3, <3>1, <3>2, PowerNext
    <3>4. RangeOf(a.width, a.unsigned) = IF a.unsigned THEN 0..(2 * h - 1) ELSE (-h)..(h - 1)
      BY <1>1, <1>3, <3>2, <3>3 DEF RangeOf, Words, Size, IsType
    <3> QED
      BY <1>1, <2>2, <3>4
  <2>5. Cong(y, y, d)
    BY CongItself
  <2>6. Value(ob_int_sized(y, a.width, a.unsigned)) = y
    BY <1>1, <1>3, <2>4, <2>5, Keeps
  <2> HIDE DEF right
  <2> QED
    BY <1>7, <2>1, <2>2, <2>3, <2>6, ResultsOfOne
<1> HIDE DEF left, right
<1> QED
  BY <1>2, <1>5, <1>6, <1>7, <1>8, <1>9, ResultsOfOne

\* `x is int8' and the like ask whether x is of that type's range.
LEMMA AsksRange ==
  ASSUME NEW a \in Numbers, NEW w1 \in Widths, NEW flag \in BOOLEAN
  PROVE  ob_is_int_width(a, w1, flag) <=> Value(ob_coerce_int(a, w1, flag)) = Value(a)
<1>1. /\ a.i \in Int /\ a.i \in Words /\ Value(a) \in Int /\ Cong(Value(a), a.i, 2^Full)
      /\ ~a.unsigned => Value(a) = a.i
      /\ a.unsigned => Value(a) = Unsigned(a.i, Full) /\ Value(a) >= 0
  BY NumberIs
<1>2. w1 # 0 /\ IsType(w1, flag) /\ Size(w1) = w1
  BY NumbersAssumption DEF IsType, Size
<1>3. Full \in Nat /\ w1 \in Nat /\ w1 <= Full
  BY <1>2, Sizes
<1>4. Value(ob_coerce_int(a, w1, flag)) \in RangeOf(w1, flag)
  BY <1>1, <1>2, Wraps DEF ob_coerce_int
<1>5. Value(a) \in RangeOf(w1, flag) => Value(ob_coerce_int(a, w1, flag)) = Value(a)
  <2>1. Cong(Value(a), a.i, 2^Size(w1))
    BY <1>1, <1>2, <1>3, Narrower
  <2> QED
    BY <1>1, <1>2, <2>1, Keeps DEF ob_coerce_int
<1>6. PICK h \in Nat \ {0} : h = 2^(w1 - 1) /\ 2^w1 = 2 * h
  <2>1. w1 - 1 \in Nat /\ (w1 - 1) + 1 = w1
    BY <1>2, <1>3
  <2>2. 2^(w1 - 1) \in Nat \ {0} /\ 2^w1 = 2 * 2^(w1 - 1)
    BY <2>1, SubsetsCounted, PowerNext
  <2> QED
    BY <2>2
<1>7. RangeOf(w1, flag) = IF flag THEN 0..(2 * h - 1) ELSE (-h)..(h - 1)
  BY <1>2, <1>6 DEF RangeOf
<1>8. w1 = Full => a.i \in (-h)..(h - 1)
  BY <1>1, <1>6 DEF Words
<1>9. ob_is_int_width(a, w1, flag) <=> Value(a) \in RangeOf(w1, flag)
  <2>1. CASE a.unsigned
    <3>1. ob_is_int_width(a, w1, flag) <=> Value(a) <= IF flag THEN 2 * h - 1 ELSE h - 1
      BY <1>6, <2>1 DEF ob_is_int_width
    <3> QED
      BY <1>1, <1>7, <2>1, <3>1
  <2>2. CASE ~a.unsigned
    <3>1. ob_is_int_width(a, w1, flag) <=>
            IF flag THEN a.i >= 0 /\ (w1 = Full \/ a.i <= 2 * h - 1)
            ELSE w1 = Full \/ a.i \in (-h)..(h - 1)
      BY <1>6, <2>2 DEF ob_is_int_width
    <3> QED
      BY <1>1, <1>7, <1>8, <2>2, <3>1
  <2> QED
    BY <2>1, <2>2
<1> QED
  BY <1>4, <1>5, <1>9

\* Integers compare by value, except a negative one with an unsigned one that is as
\* wide or wider.
LEMMA ComparesByValue ==
  ASSUME NEW a \in Numbers, NEW b \in Numbers
  PROVE  \/ ob_num_cmp(a, b) = Compare(Value(a), Value(b))
         \/ ob_promote(a, b).unsigned /\ (Value(a) < 0 \/ Value(b) < 0)
<1> DEFINE p == ob_promote(a, b).unsigned
<1>1. ASSUME NEW e \in Numbers, p => Value(e) >= 0, ~p /\ e.unsigned => e.width # Full
      PROVE  Dividend(a, b, e.i) = Value(e)
  <2>1. /\ e.i \in Words /\ e.i \in Int
        /\ ~e.unsigned => Value(e) = e.i
        /\ e.i >= 0 => Value(e) = e.i
        /\ e.unsigned => Value(e) = Unsigned(e.i, Full)
        /\ e.unsigned /\ e.width # Full => e.i >= 0
    BY NumberIs
  <2>2. e.i >= 0 => Unsigned(e.i, Full) = e.i
    BY <2>1, Reads
  <2>3. CASE p
    <3>1. Dividend(a, b, e.i) = Unsigned(e.i, Full)
      BY <2>3 DEF Dividend
    <3> QED
      BY <1>1, <2>1, <2>2, <2>3, <3>1
  <2>4. CASE ~p
    <3>1. Dividend(a, b, e.i) = e.i
      BY <2>4 DEF Dividend
    <3> QED
      BY <1>1, <2>1, <2>4, <3>1
  <2> QED
    BY <2>3, <2>4
<1>2. ~p => (a.unsigned => a.width # Full) /\ (b.unsigned => b.width # Full)
  BY Promotes
<1>3. Value(a) \in Int /\ Value(b) \in Int
  BY NumberIs
<1> HIDE DEF p
<1>4. CASE p /\ (Value(a) < 0 \/ Value(b) < 0)
  BY <1>4 DEF p
<1>5. CASE ~p \/ (Value(a) >= 0 /\ Value(b) >= 0)
  <2>1. Dividend(a, b, a.i) = Value(a) /\ Dividend(a, b, b.i) = Value(b)
    BY <1>1, <1>2, <1>5
  <2> QED
    BY <2>1 DEF ob_num_cmp
<1> QED
  BY <1>3, <1>4, <1>5

-----------------------------------------------------------------------------

\* However integers were computed, they are integers.
BothNumbers == m \in Numbers /\ n \in Numbers

LEMMA NumbersStep ==
  ASSUME BothNumbers, [NumbersNext]_<<m, n, op>>
  PROVE  BothNumbers'
<1> USE DEF BothNumbers
<1>1. CASE NumbersNext
  <2>1. m' \in Numbers /\ n' = n
    <3>1. /\ ob_add(m, n) \in Numbers /\ ob_sub(m, n) \in Numbers /\ ob_mul(m, n) \in Numbers
          /\ ob_shl(m, n) \in Numbers /\ ob_shr(m, n) \in Numbers
          /\ ob_neg(m) \in Numbers /\ ob_bnot(m) \in Numbers
          /\ Divides(m, n) => ob_div(m, n) \in Numbers /\ ob_mod(m, n) \in Numbers
      BY Computes, Shifted, OneOperand, Divided
    <3>2. \A t \in Types : ob_coerce_int(m, t.width, t.unsigned) \in Numbers
      <4> TAKE t \in Types
      <4>1. IsType(t.width, t.unsigned)
        BY TypesAre
      <4>2. m.i \in Int
        BY NumberIs
      <4> QED
        BY <4>1, <4>2, SizedIsNumber DEF ob_coerce_int
    <3> QED
      BY <1>1, <3>1, <3>2 DEF NumbersNext, Do
  <2> QED
    BY <2>1
<1>2. CASE UNCHANGED <<m, n, op>>
  BY <1>2
<1> QED
  BY <1>1, <1>2

\* A sized integer behaves as the documents say at every width and sign, for every
\* size of the machine's word and every set of widths: computing, storing, shifting,
\* testing and comparing agree on what number it is (ob_wrap and all that ends in
\* it, oboe_runtime.c).
THEOREM IntegersAreSized ==
  NumbersInit /\ [][NumbersNext]_<<m, n, op>> => []SizedIntegers
<1>1. NumbersInit => BothNumbers
  BY DEF NumbersInit, BothNumbers
<1>2. BothNumbers /\ [NumbersNext]_<<m, n, op>> => BothNumbers'
  BY NumbersStep
<1>3. BothNumbers => SizedIntegers
  <2> SUFFICES ASSUME BothNumbers
               PROVE  SizedIntegers
    OBVIOUS
  <2>1. m \in Numbers /\ n \in Numbers
    BY DEF BothNumbers
  <2>2. Wrapped
    BY <2>1, NumberIs DEF Wrapped
  <2>3. Exact
    BY <2>1, Computes, Divided DEF Exact
  <2>4. Shifts
    BY <2>1, Shifted DEF Shifts
  <2>5. Asks
    BY <2>1, AsksRange DEF Asks
  <2>6. ByValue
    BY <2>1, ComparesByValue DEF ByValue
  <2> QED
    BY <2>2, <2>3, <2>4, <2>5, <2>6 DEF SizedIntegers
<1> QED
  BY <1>1, <1>2, <1>3, PTL

-----------------------------------------------------------------------------

(***************************************************************************)
(* Stores of any integer to variables of any name and type, where Statics  *)
(* are the names of the static fields.                                     *)
(***************************************************************************)
Store(name, type, a, Statics) ==
  \/ TopLevelLet(name, type, a) \/ Let(name, type, a)
  \/ bind_params(name, type, a) \/ OperatorCalled(name, type, a)
  \/ BlockWith(name, a) \/ Assign(name, a)
  \/ name \in Statics /\ (Startup(name, type, a) \/ AssignStatic(name, a))
  \/ name \notin Statics /\ AssignField(name, type, a)

StoreNext(Names, Statics) ==
  \/ \E name \in Names, type \in Types, a \in Numbers : Store(name, type, a, Statics)
  \/ Branch \/ pop_scope

\* The variables that keep to their type, and scopes of them.
Kept == {e \in [declared : Types, prim : Types, value : Numbers] :
           e.prim = e.declared => Fits(e)}

ScopesOf(Names) == UNION {[D -> Kept] : D \in SUBSET Names}

\* Each variable of each scope keeps to its type, and so does each field; of a
\* static field the compiler keeps no type.
StoresInv(Names, Statics) ==
  /\ scopes \in Seq(ScopesOf(Names))
  /\ fields \in ScopesOf(Names)
  /\ \A x \in DOMAIN fields \cap Statics : fields[x].prim = Plain

LEMMA PlainIsType == Plain \in Types /\ Plain.width = 0 /\ Plain.unsigned = FALSE
BY DEF Plain, Types

\* What is coerced to a sized type is of that type.
LEMMA Coerces ==
  ASSUME NEW type \in Types, NEW a \in Numbers
  PROVE  /\ apply_numeric_coercion(type, a) \in Numbers
         /\ type.width # 0 =>
              Value(apply_numeric_coercion(type, a)) \in RangeOf(type.width, type.unsigned)
<1>1. a.i \in Int /\ IsType(type.width, type.unsigned)
  BY NumberIs, TypesAre
<1>2. CASE type.width = 0
  BY <1>2 DEF apply_numeric_coercion
<1>3. CASE type.width # 0
  <2>1. apply_numeric_coercion(type, a) = ob_int_sized(a.i, type.width, type.unsigned)
    BY <1>3 DEF apply_numeric_coercion, ob_coerce_int
  <2> QED
    BY <1>1, <2>1, SizedIsNumber, Wraps
<1> QED
  BY <1>2, <1>3

LEMMA VariablesKept ==
  ASSUME NEW type \in Types, NEW a \in Numbers
  PROVE  /\ define_var_full(type, a) \in Kept /\ define_var(type, a) \in Kept
         /\ define_var(type, a).prim = Plain
<1> DEFINE q == apply_numeric_coercion(type, a)
           d == define_var_full(type, a)
           e == define_var(type, a)
<1>1. q \in Numbers /\ (type.width # 0 => Value(q) \in RangeOf(type.width, type.unsigned))
  BY Coerces
<1>2. d = [declared |-> type, prim |-> type, value |-> q]
  BY DEF define_var_full, Variable
<1>3. e = [declared |-> type, prim |-> Plain, value |-> a]
  BY DEF define_var, Variable
<1>4. /\ d \in [declared : Types, prim : Types, value : Numbers]
      /\ d.declared = type /\ d.value = q
  BY <1>1, <1>2
<1>5. /\ e \in [declared : Types, prim : Types, value : Numbers]
      /\ e.declared = type /\ e.prim = Plain
  BY <1>3, PlainIsType
<1> HIDE DEF d, e, q
<1>6. Fits(d)
  BY <1>1, <1>4 DEF Fits
<1>7. e.prim = e.declared => Fits(e)
  BY <1>5, PlainIsType DEF Fits
<1>8. d \in Kept
  BY <1>4, <1>6 DEF Kept
<1>9. e \in Kept
  BY <1>5, <1>7 DEF Kept
<1> QED
  BY <1>5, <1>8, <1>9 DEF d, e

\* What is stored to a variable is coerced to the type the compiler keeps of it.
LEMMA StoredKept ==
  ASSUME NEW e \in Kept, NEW a \in Numbers
  PROVE  [e EXCEPT !.value = apply_numeric_coercion(e.prim, a)] \in Kept
<1> DEFINE q == apply_numeric_coercion(e.prim, a)
           d == [e EXCEPT !.value = q]
<1>1. e \in [declared : Types, prim : Types, value : Numbers]
  BY DEF Kept
<1>2. e.prim \in Types
  BY <1>1
<1>3. q \in Numbers /\ (e.prim.width # 0 => Value(q) \in RangeOf(e.prim.width, e.prim.unsigned))
  BY <1>2, Coerces
<1> HIDE DEF q
<1>4. /\ d \in [declared : Types, prim : Types, value : Numbers]
      /\ d.declared = e.declared /\ d.prim = e.prim /\ d.value = q
  BY <1>1, <1>3
<1> HIDE DEF d
<1>5. d.prim = d.declared => Fits(d)
  BY <1>3, <1>4 DEF Fits
<1>6. d \in Kept
  BY <1>4, <1>5 DEF Kept
<1> QED
  BY <1>6 DEF d, q

LEMMA ScopeWith ==
  ASSUME NEW Names, NEW f \in ScopesOf(Names), NEW x \in Names, NEW e \in Kept
  PROVE  /\ With(f, x, e) \in ScopesOf(Names)
         /\ DOMAIN With(f, x, e) = {x} \cup DOMAIN f
         /\ With(f, x, e)[x] = e
         /\ \A y \in DOMAIN f : y # x => With(f, x, e)[y] = f[y]
<1>1. PICK D \in SUBSET Names : f \in [D -> Kept]
  BY DEF ScopesOf
<1>2. With(f, x, e) = [y \in {x} \cup D |-> IF y = x THEN e ELSE f[y]]
  BY <1>1 DEF With
<1>3. With(f, x, e) \in [{x} \cup D -> Kept]
  BY <1>1, <1>2
<1>4. {x} \cup D \in SUBSET Names
  OBVIOUS
<1>5. With(f, x, e) \in ScopesOf(Names)
  BY <1>3, <1>4 DEF ScopesOf
<1> QED
  BY <1>1, <1>2, <1>5

LEMMA NoScope ==
  ASSUME NEW Names
  PROVE  << >> \in ScopesOf(Names) /\ DOMAIN << >> = {}
<1>1. << >> \in [{} -> Kept]
  OBVIOUS
<1>2. {} \in SUBSET Names
  OBVIOUS
<1> QED
  BY <1>1, <1>2 DEF ScopesOf

LEMMA StoreStep ==
  ASSUME NEW Names, NEW Statics, StoresInv(Names, Statics),
         [StoreNext(Names, Statics)]_stores
  PROVE  StoresInv(Names, Statics)'
<1> DEFINE Scopes == ScopesOf(Names)
           Of(x) == \A y \in DOMAIN x \cap Statics : x[y].prim = Plain
<1>1. scopes \in Seq(Scopes) /\ fields \in Scopes /\ Of(fields)
  BY DEF StoresInv
<1>2. << >> \in Scopes /\ DOMAIN << >> = {}
  BY NoScope
<1>3. \A f \in Scopes, x \in Names, e \in Kept :
        /\ With(f, x, e) \in Scopes /\ DOMAIN With(f, x, e) = {x} \cup DOMAIN f
        /\ With(f, x, e)[x] = e
        /\ \A y \in DOMAIN f : y # x => With(f, x, e)[y] = f[y]
  <2> TAKE f \in Scopes, x \in Names, e \in Kept
  <2> QED
    BY ScopeWith
<1>4. \A f \in Scopes : Append(scopes, f) \in Seq(Scopes)
  BY <1>1, AppendProperties
<1>5. SUFFICES scopes' \in Seq(Scopes) /\ fields' \in Scopes /\ Of(fields')
  BY DEF StoresInv
<1>6. CASE UNCHANGED stores
  BY <1>1, <1>6 DEF stores
<1>7. CASE Branch
  <2>1. scopes' = Append(scopes, << >>) /\ fields' = fields
    BY <1>7 DEF Branch, Push
  <2> HIDE DEF Scopes
  <2> QED
    BY <1>1, <1>2, <1>4, <2>1
<1>8. CASE pop_scope
  <2>1. Len(scopes) > 1 /\ scopes' = Front(scopes) /\ fields' = fields
    BY <1>8 DEF pop_scope
  <2>3. Front(scopes) \in Seq(Scopes)
    BY <1>1, <2>1 DEF Front
  <2> QED
    BY <1>1, <2>1, <2>3
<1>9. ASSUME NEW name \in Names, NEW type \in Types, NEW a \in Numbers,
             Store(name, type, a, Statics)
      PROVE  scopes' \in Seq(Scopes) /\ fields' \in Scopes /\ Of(fields')
  <2> DEFINE d == define_var_full(type, a)
             e == define_var(type, a)
             g == define_var(Plain, a)
  <2>1. d \in Kept /\ e \in Kept /\ e.prim = Plain /\ g \in Kept
    BY VariablesKept, PlainIsType
  <2>2. With(<< >>, name, d) \in Scopes /\ With(<< >>, name, e) \in Scopes
        /\ With(<< >>, name, g) \in Scopes
    BY <1>2, <1>3, <2>1
  <2> HIDE DEF Scopes
  <2>3. CASE TopLevelLet(name, type, a)
    <3>1. Len(scopes) = 1 /\ scopes' = <<With(scopes[1], name, e)>> /\ fields' = fields
      BY <2>3 DEF TopLevelLet
    <3>2. scopes[1] \in Scopes
      BY <1>1, <3>1
    <3>3. With(scopes[1], name, e) \in Scopes
      BY <1>3, <2>1, <3>2
    <3> QED
      BY <1>1, <3>1, <3>3
  <2>4. CASE Let(name, type, a)
    <3>1. /\ Len(scopes) > 1 /\ fields' = fields
          /\ scopes' = Append(Front(scopes), With(Last(scopes), name, d))
      BY <2>4 DEF Let
    <3>3. Front(scopes) \in Seq(Scopes) /\ Last(scopes) \in Scopes
      BY <1>1, <3>1 DEF Front, Last
    <3>4. With(Last(scopes), name, d) \in Scopes
      BY <1>3, <2>1, <3>3
    <3>5. scopes' \in Seq(Scopes)
      BY <3>1, <3>3, <3>4, AppendProperties
    <3> QED
      BY <1>1, <3>1, <3>5
  <2>5. CASE bind_params(name, type, a)
    <3>1. scopes' = Append(scopes, With(<< >>, name, d)) /\ fields' = fields
      BY <2>5 DEF bind_params, Push
    <3> QED
      BY <1>1, <1>4, <2>2, <3>1
  <2>6. CASE OperatorCalled(name, type, a)
    <3>1. scopes' = Append(scopes, With(<< >>, name, e)) /\ fields' = fields
      BY <2>6 DEF OperatorCalled, Push
    <3> QED
      BY <1>1, <1>4, <2>2, <3>1
  <2>7. CASE BlockWith(name, a)
    <3>1. scopes' = Append(scopes, With(<< >>, name, g)) /\ fields' = fields
      BY <2>7 DEF BlockWith, Push
    <3> QED
      BY <1>1, <1>4, <2>2, <3>1
  <2>8. CASE Assign(name, a)
    <3>1. PICK i : /\ i = Innermost(scopes, name) /\ fields' = fields
                   /\ scopes' = [scopes EXCEPT ![i][name].value =
                                   apply_numeric_coercion(lookup_var_prim(scopes, name), a)]
      BY <2>8 DEF Assign
    <3>2. scopes' = [scopes EXCEPT ![i] = [scopes[i] EXCEPT ![name] =
                       [scopes[i][name] EXCEPT !.value =
                          apply_numeric_coercion(scopes[i][name].prim, a)]]]
      BY <3>1 DEF lookup_var_prim
    <3>3. CASE i \in 1..Len(scopes)
      <4>1. scopes[i] \in Scopes
        BY <1>1, <3>3
      <4>2. PICK D \in SUBSET Names : scopes[i] \in [D -> Kept]
        BY <4>1 DEF Scopes, ScopesOf
      <4> DEFINE q == [scopes[i][name] EXCEPT !.value =
                         apply_numeric_coercion(scopes[i][name].prim, a)]
                 f == [scopes[i] EXCEPT ![name] = q]
      <4>3. name \in D => q \in Kept
        <5>1. name \in D => scopes[i][name] \in Kept
          BY <4>2
        <5> QED
          BY <5>1, StoredKept
      <4>4. scopes' = [scopes EXCEPT ![i] = f]
        BY <3>2
      <4> HIDE DEF q
      <4>5. f \in [D -> Kept]
        BY <4>2, <4>3
      <4> HIDE DEF f
      <4>6. f \in Scopes
        BY <4>5 DEF Scopes, ScopesOf
      <4>7. scopes' \in Seq(Scopes)
        BY <1>1, <3>3, <4>4, <4>6, ExceptSeq
      <4> QED
        BY <1>1, <3>1, <4>7
    <3>4. CASE i \notin 1..Len(scopes)
      <4>1. scopes' = scopes
        <5>1. scopes = [j \in 1..Len(scopes) |-> scopes[j]]
          BY <1>1
        <5> QED
          BY <1>1, <3>2, <3>4, <5>1
      <4> QED
        BY <1>1, <3>1, <4>1
    <3> QED
      BY <3>3, <3>4
  <2>9. CASE name \in Statics /\ Startup(name, type, a)
    <3>1. scopes' = << << >> >> /\ fields' = With(<< >>, name, e)
      BY <2>9 DEF Startup
    <3>2. DOMAIN fields' = {name} /\ fields'[name] = e
      <4>1. /\ DOMAIN With(<< >>, name, e) = {name} \cup DOMAIN << >>
            /\ With(<< >>, name, e)[name] = e
        BY <1>2, <1>3, <2>1, Zenon
      <4> QED
        BY <1>2, <3>1, <4>1
    <3>3. Of(fields')
      BY <2>1, <3>2
    <3>4. << << >> >> \in Seq(Scopes)
      BY <1>2
    <3> QED
      BY <2>2, <3>1, <3>3, <3>4
  <2>10. CASE name \in Statics /\ AssignStatic(name, a)
    <3>1. /\ name \in DOMAIN fields /\ scopes' = scopes
          /\ fields' = [fields EXCEPT ![name] = [fields[name] EXCEPT !.value = a]]
      BY <2>10 DEF AssignStatic
    <3>2. PICK D \in SUBSET Names : fields \in [D -> Kept]
      BY <1>1 DEF Scopes, ScopesOf
    <3>3. fields[name] \in Kept /\ fields[name].prim = Plain
      BY <1>1, <2>10, <3>1, <3>2
    <3>4. PICK q \in Kept : q = [fields[name] EXCEPT !.value = a] /\ q.prim = Plain
      <4>1. [fields[name] EXCEPT !.value = apply_numeric_coercion(Plain, a)] \in Kept
        BY <3>3, StoredKept
      <4>2. apply_numeric_coercion(Plain, a) = a
        BY PlainIsType DEF apply_numeric_coercion
      <4>3. fields[name] \in [declared : Types, prim : Types, value : Numbers]
        BY <3>3 DEF Kept
      <4>4. [fields[name] EXCEPT !.value = a].prim = Plain
        BY <3>3, <4>3
      <4> QED
        BY <4>1, <4>2, <4>4
    <3>5. fields' = [fields EXCEPT ![name] = q]
      BY <3>1, <3>4
    <3>6. fields' \in [D -> Kept] /\ \A y \in D : fields'[y] = IF y = name THEN q ELSE fields[y]
      BY <3>2, <3>4, <3>5
    <3>7. Of(fields')
      BY <1>1, <3>2, <3>4, <3>6
    <3>8. fields' \in Scopes
      BY <3>6 DEF Scopes, ScopesOf
    <3> QED
      BY <1>1, <3>1, <3>7, <3>8
  <2>11. CASE name \notin Statics /\ AssignField(name, type, a)
    <3>1. fields' = With(fields, name, d) /\ scopes' = scopes
      BY <2>11 DEF AssignField
    <3>2. /\ fields' \in Scopes /\ DOMAIN fields' = {name} \cup DOMAIN fields
          /\ \A y \in DOMAIN fields : y # name => fields'[y] = fields[y]
      BY <1>1, <1>3, <2>1, <3>1
    <3>3. Of(fields')
      BY <1>1, <2>11, <3>2
    <3> QED
      BY <1>1, <3>1, <3>2, <3>3
  <2> QED
    BY <1>9, <2>3, <2>4, <2>5, <2>6, <2>7, <2>8, <2>9, <2>10, <2>11 DEF Store
<1> QED
  BY <1>6, <1>7, <1>8, <1>9 DEF StoreNext

LEMMA StoresStart ==
  ASSUME NEW Names, NEW Statics, NoStores
  PROVE  StoresInv(Names, Statics)
<1>1. << >> \in ScopesOf(Names) /\ DOMAIN << >> = {}
  BY NoScope
<1>2. scopes = << >> /\ fields = << >>
  BY DEF NoStores
<1>3. scopes \in Seq(ScopesOf(Names))
  BY <1>2
<1> QED
  BY <1>1, <1>2, <1>3 DEF StoresInv

LEMMA StoresKept ==
  ASSUME NEW Names, NEW Statics, StoresInv(Names, Statics)
  PROVE  KeepsItsType
<1> SUFFICES ASSUME NEW e \in Live, e.prim = e.declared
             PROVE  Fits(e)
  BY DEF KeepsItsType
<1>1. scopes \in Seq(ScopesOf(Names)) /\ fields \in ScopesOf(Names)
  BY DEF StoresInv
<1>2. \A f \in ScopesOf(Names) : \A x \in DOMAIN f : f[x] \in Kept
  BY DEF ScopesOf
<1>3. \A i \in DOMAIN scopes : scopes[i] \in ScopesOf(Names)
  BY <1>1
<1>4. e \in Kept
  <2>1. CASE \E x \in DOMAIN fields : e = fields[x]
    BY <1>1, <1>2, <2>1
  <2>2. CASE \E i \in DOMAIN scopes : \E x \in DOMAIN scopes[i] : e = scopes[i][x]
    BY <1>2, <1>3, <2>2
  <2> DEFINE Scoped == UNION {{scopes[i][x] : x \in DOMAIN scopes[i]} : i \in DOMAIN scopes}
             Fielded == {fields[x] : x \in DOMAIN fields}
  <2>3. Live = Scoped \cup Fielded
    BY Zenon DEF Live
  <2>4. e \in Scoped => \E i \in DOMAIN scopes : \E x \in DOMAIN scopes[i] : e = scopes[i][x]
    BY Zenon
  <2>5. e \in Fielded => \E x \in DOMAIN fields : e = fields[x]
    BY Zenon
  <2> HIDE DEF Scoped, Fielded
  <2>6. e \in Scoped \/ e \in Fielded
    BY <2>3
  <2> QED
    BY <2>1, <2>2, <2>4, <2>5, <2>6
<1> QED
  BY <1>4 DEF Kept

\* Whatever it shadows and wherever it is stored to from, a variable whose type the
\* compiler keeps holds a value of that type, for every size of the machine's word,
\* every name, type and integer and any depth of scopes (legacy/codegen.c:
\* define_var_full, lookup_var_prim, gen_expr's assignment).
THEOREM VariablesKeepTheirType ==
  ASSUME NEW Names, NEW Statics
  PROVE  NoStores /\ [][StoreNext(Names, Statics)]_stores => []KeepsItsType
<1>1. NoStores => StoresInv(Names, Statics)
  BY StoresStart
<1>2. StoresInv(Names, Statics) /\ [StoreNext(Names, Statics)]_stores
        => StoresInv(Names, Statics)'
  BY StoreStep
<1>3. StoresInv(Names, Statics) => KeepsItsType
  BY StoresKept
<1> QED
  BY <1>1, <1>2, <1>3, PTL

\* The stores of MCNumbers are such.
LEMMA ModelStores ==
  StoresNext => StoreNext({"x", "static", "instance"}, {"static"})
<1> DEFINE Names == {"x", "static", "instance"}
<1>1. Min(Widths) \in Widths /\ Min(Widths) \in Nat
  <2>1. Widths # {} /\ Widths \subseteq Nat
    BY NumbersAssumption
  <2>2. PICK k \in Widths : \A j \in Widths : <<j, k>> \notin OpToRel(<, Nat)
    BY <2>1, WFMin, NatLessThanWellFounded
  <2>3. \A j \in Widths : ~(j < k)
    BY <2>1, <2>2 DEF OpToRel
  <2>4. \A j \in Widths : k <= j
    BY <2>1, <2>3
  <2> QED
    BY <2>1, <2>4 DEF Min
<1>2. Stored \subseteq Numbers
  <2>1. IsType(0, FALSE)
    BY DEF IsType
  <2>2. \A x \in Int : ob_int(x) \in Numbers
    BY <2>1, PlainIsSized, SizedIsNumber
  <2>3. -1 \in Int /\ 2^Min(Widths) + 2 \in Int
    BY <1>1, SubsetsCounted
  <2> QED
    BY <2>2, <2>3 DEF Stored
<1>3. Declarable \subseteq Types /\ [width |-> Min(Widths), unsigned |-> FALSE] \in Types
  BY <1>1, PlainIsType DEF Declarable, Types
<1>4. "x" \in Names /\ "static" \in Names /\ "instance" \in Names
      /\ "x" \notin {"static"} /\ "static" \in {"static"} /\ "instance" \notin {"static"}
  OBVIOUS
<1> SUFFICES ASSUME StoresNext
             PROVE  StoreNext(Names, {"static"})
  OBVIOUS
<1> HIDE DEF Names
<1>5. ASSUME NEW type \in Declarable, NEW a \in Stored,
             \/ Startup("static", type, a)
             \/ TopLevelLet("x", type, a) \/ Let("x", type, a)
             \/ bind_params("x", type, a) \/ OperatorCalled("x", type, a)
             \/ AssignField("instance", [width |-> Min(Widths), unsigned |-> FALSE], a)
      PROVE  StoreNext(Names, {"static"})
  <2>1. type \in Types /\ a \in Numbers
    BY <1>2, <1>3
  <2>2. \/ Store("static", type, a, {"static"}) \/ Store("x", type, a, {"static"})
        \/ Store("instance", [width |-> Min(Widths), unsigned |-> FALSE], a, {"static"})
    BY <1>4, <1>5 DEF Store
  <2> QED
    BY <1>3, <1>4, <2>1, <2>2 DEF StoreNext
<1>6. ASSUME NEW a \in Stored,
             Assign("x", a) \/ AssignStatic("static", a) \/ BlockWith("x", a)
      PROVE  StoreNext(Names, {"static"})
  <2>1. a \in Numbers /\ Plain \in Types
    BY <1>2, PlainIsType
  <2>2. Store("static", Plain, a, {"static"}) \/ Store("x", Plain, a, {"static"})
    BY <1>4, <1>6 DEF Store
  <2> QED
    BY <1>4, <2>1, <2>2 DEF StoreNext
<1>7. ASSUME Branch \/ pop_scope
      PROVE  StoreNext(Names, {"static"})
  BY <1>7 DEF StoreNext
<1> QED
  BY <1>5, <1>6, <1>7 DEF StoresNext

\* So it is in the model that is checked, whatever the sizes of its words and however
\* deep its scopes.
THEOREM ModelKeepsItsType ==
  NoStores /\ [][StoresNext]_stores => []KeepsItsType
<1> DEFINE Inv == StoresInv({"x", "static", "instance"}, {"static"})
<1>1. NoStores => Inv
  BY StoresStart
<1>2. Inv /\ [StoresNext]_stores => Inv'
  BY ModelStores, StoreStep
<1>3. Inv => KeepsItsType
  BY StoresKept
<1> QED
  BY <1>1, <1>2, <1>3, PTL

=============================================================================
