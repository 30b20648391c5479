-------------------------- MODULE WaktanimraProofs --------------------------
(***************************************************************************)
(* Facts about the order of versions and about constraints, for every      *)
(* version, tagged or not (compiler/src/izim.c).                           *)
(***************************************************************************)
EXTENDS Waktanimra, WellFoundedInduction, TLAPS

\* Two tags differ in their k-th fields, and in none before.
DifferAt(s, t, k) ==
  /\ k \in DOMAIN s \cap DOMAIN t /\ s[k] # t[k]
  /\ \A j \in 1..(k - 1) : s[j] = t[j]

\* They differ in no field that both have.
Agree(s, t) == \A k \in DOMAIN s \cap DOMAIN t : s[k] = t[k]

\* Lexicographic order, the shorter of two that agree first.
Below(s, t) ==
  \/ \E k \in Nat : DifferAt(s, t, k) /\ cmp_field(s[k], t[k]) <= 0
  \/ Agree(s, t) /\ Len(s) <= Len(t)

-----------------------------------------------------------------------------
(* Fields and tags *)

LEMMA SignNegates ==
  ASSUME NEW x \in Int, NEW y \in Int
  PROVE  sign(x, y) \in {-1, 0, 1} /\ sign(x, y) = -sign(y, x)
BY DEF sign

LEMMA FieldNegates ==
  ASSUME NEW f \in Field, NEW g \in Field
  PROVE  cmp_field(f, g) \in {-1, 0, 1} /\ cmp_field(f, g) = -cmp_field(g, f)
BY DEF cmp_field, sign, Field

LEMMA FieldEqual ==
  ASSUME NEW f \in Field, NEW g \in Field
  PROVE  cmp_field(f, g) = 0 <=> f = g
BY DEF cmp_field, sign, Field

LEMMA FieldTransitive ==
  ASSUME NEW f \in Field, NEW g \in Field, NEW h \in Field,
         cmp_field(f, g) <= 0, cmp_field(g, h) <= 0
  PROVE  /\ cmp_field(f, h) <= 0
         /\ f # g \/ g # h => cmp_field(f, h) = -1
BY DEF cmp_field, sign, Field

\* What the loop sees of a tag is a tag.
LEMMA SeenIsTag ==
  ASSUME NEW t \in Tag
  PROVE  fields_seen(t) \in Tag
BY DEF fields_seen, Tag

\* A set of numbers that is not empty has a least one.
LEMMA Least ==
  ASSUME NEW S \in SUBSET Nat, S # {}
  PROVE  \E k \in S : \A j \in S : k <= j
<1>1. PICK k \in S : \A j \in S : <<j, k>> \notin OpToRel(<, Nat)
  BY WFMin, NatLessThanWellFounded
<1>2. \A j \in S : ~(j < k)
  BY <1>1 DEF OpToRel
<1> QED
  BY <1>2

\* cmp_tag looks at the first fields that differ, or else at the lengths.
LEMMA TagCases ==
  ASSUME NEW a \in Tag, NEW b \in Tag
  PROVE  LET s == fields_seen(a)
             t == fields_seen(b)
         IN \/ \E k \in Nat : DifferAt(s, t, k) /\ cmp_tag(a, b) = cmp_field(s[k], t[k])
            \/ Agree(s, t) /\ cmp_tag(a, b) = sign(Len(s), Len(t))
<1> DEFINE s == fields_seen(a)
           t == fields_seen(b)
           differ == {k \in DOMAIN s \cap DOMAIN t : cmp_field(s[k], t[k]) # 0}
           first == CHOOSE k \in differ : \A j \in differ : k <= j
<1>1. s \in Tag /\ t \in Tag
  BY SeenIsTag
<1>2. \A k \in DOMAIN s \cap DOMAIN t : cmp_field(s[k], t[k]) # 0 <=> s[k] # t[k]
  <2> HIDE DEF s, t
  <2> QED
    BY <1>1, FieldEqual DEF Tag
<1>3. CASE differ = {}
  BY <1>2, <1>3 DEF cmp_tag, Agree
<1>4. CASE differ # {}
  <2>1. first \in differ /\ \A j \in differ : first <= j
    <3>1. differ \in SUBSET Nat
      <4> HIDE DEF s, t
      <4> QED
        BY <1>1 DEF Tag
    <3> HIDE DEF differ
    <3> QED
      BY <3>1, <1>4, Least
  <2>2. cmp_tag(a, b) = cmp_field(s[first], t[first])
    BY <1>4 DEF cmp_tag
  <2>3. DifferAt(s, t, first) /\ first \in Nat
    <3>1. first \in DOMAIN s \cap DOMAIN t /\ s[first] # t[first]
      BY <1>2, <2>1
    <3>2. ASSUME NEW j \in 1..(first - 1) PROVE s[j] = t[j]
      <4> HIDE DEF s, t
      <4>1. first \in Nat /\ j \in DOMAIN s \cap DOMAIN t /\ ~(first <= j)
        BY <1>1, <3>1, <3>2 DEF Tag
      <4> QED
        BY <4>1, <1>2, <2>1
    <3>3. first \in Nat
      <4> HIDE DEF s, t
      <4> QED
        BY <3>1, <1>1 DEF Tag
    <3> QED
      BY <3>1, <3>2, <3>3 DEF DifferAt
  <2> QED
    BY <2>2, <2>3
<1> QED
  BY <1>3, <1>4

LEMMA TagRange ==
  ASSUME NEW a \in Tag, NEW b \in Tag
  PROVE  cmp_tag(a, b) \in {-1, 0, 1}
<1> DEFINE s == fields_seen(a)
           t == fields_seen(b)
<1>1. s \in Tag /\ t \in Tag
  BY SeenIsTag
<1>2. \/ \E k \in Nat : DifferAt(s, t, k) /\ cmp_tag(a, b) = cmp_field(s[k], t[k])
      \/ Agree(s, t) /\ cmp_tag(a, b) = sign(Len(s), Len(t))
  BY TagCases
<1> HIDE DEF s, t
<1> QED
  BY <1>1, <1>2, FieldNegates, SignNegates DEF Tag, DifferAt

LEMMA TagNegates ==
  ASSUME NEW a \in Tag, NEW b \in Tag
  PROVE  cmp_tag(a, b) = -cmp_tag(b, a)
<1> DEFINE s == fields_seen(a)
           t == fields_seen(b)
<1>1. s \in Tag /\ t \in Tag
  BY SeenIsTag
<1>2. \/ \E k \in Nat : DifferAt(s, t, k) /\ cmp_tag(a, b) = cmp_field(s[k], t[k])
      \/ Agree(s, t) /\ cmp_tag(a, b) = sign(Len(s), Len(t))
  BY TagCases
<1>3. \/ \E k \in Nat : DifferAt(t, s, k) /\ cmp_tag(b, a) = cmp_field(t[k], s[k])
      \/ Agree(t, s) /\ cmp_tag(b, a) = sign(Len(t), Len(s))
  BY TagCases
<1> HIDE DEF s, t
<1>4. ASSUME NEW k \in Nat, DifferAt(s, t, k), NEW j \in Nat, DifferAt(t, s, j)
      PROVE  k = j /\ s[k] \in Field /\ t[k] \in Field
  BY <1>1, <1>4 DEF Tag, DifferAt
<1>5. Agree(s, t) <=> Agree(t, s)
  BY DEF Agree
<1>6. \A k \in Nat : (DifferAt(s, t, k) => ~Agree(s, t)) /\ (DifferAt(t, s, k) => ~Agree(s, t))
  BY DEF Agree, DifferAt
<1>7. CASE Agree(s, t)
  BY <1>1, <1>2, <1>3, <1>5, <1>6, <1>7, SignNegates DEF Tag
<1>8. CASE ~Agree(s, t)
  BY <1>2, <1>3, <1>4, <1>5, <1>8, FieldNegates
<1> QED
  BY <1>7, <1>8

\* Below is cmp_tag's "not above".
LEMMA TagBelow ==
  ASSUME NEW a \in Tag, NEW b \in Tag
  PROVE  cmp_tag(a, b) <= 0 <=> Below(fields_seen(a), fields_seen(b))
<1> DEFINE s == fields_seen(a)
           t == fields_seen(b)
<1>1. s \in Tag /\ t \in Tag
  BY SeenIsTag
<1>2. \/ \E k \in Nat : DifferAt(s, t, k) /\ cmp_tag(a, b) = cmp_field(s[k], t[k])
      \/ Agree(s, t) /\ cmp_tag(a, b) = sign(Len(s), Len(t))
  BY TagCases
<1> HIDE DEF s, t
<1>3. \A k, j \in Nat : DifferAt(s, t, k) /\ DifferAt(s, t, j) => k = j
  BY <1>1 DEF Tag, DifferAt
<1>4. \A k \in Nat : DifferAt(s, t, k) => ~Agree(s, t)
  BY DEF Agree, DifferAt
<1>5. ASSUME Agree(s, t) PROVE cmp_tag(a, b) <= 0 <=> Below(s, t)
  BY <1>1, <1>2, <1>4, <1>5 DEF Below, Tag, sign
<1>6. ASSUME ~Agree(s, t) PROVE cmp_tag(a, b) <= 0 <=> Below(s, t)
  BY <1>2, <1>3, <1>6 DEF Below
<1> QED
  BY <1>5, <1>6 DEF s, t

LEMMA BelowTransitive ==
  ASSUME NEW s \in Tag, NEW t \in Tag, NEW u \in Tag, Below(s, t), Below(t, u)
  PROVE  Below(s, u)
<1>1. CASE Agree(s, t) /\ Len(s) <= Len(t) /\ Agree(t, u) /\ Len(t) <= Len(u)
  BY <1>1 DEF Below, Agree, Tag
<1>2. ASSUME NEW k \in Nat, DifferAt(s, t, k), cmp_field(s[k], t[k]) <= 0,
             Agree(t, u), Len(t) <= Len(u)
      PROVE  Below(s, u)
  <2>1. DifferAt(s, u, k) /\ u[k] = t[k]
    BY <1>2 DEF DifferAt, Agree, Tag
  <2> QED
    BY <1>2, <2>1 DEF Below
<1>3. ASSUME NEW k \in Nat, DifferAt(t, u, k), cmp_field(t[k], u[k]) <= 0,
             Agree(s, t), Len(s) <= Len(t)
      PROVE  Below(s, u)
  <2>1. CASE k <= Len(s)
    <3>1. DifferAt(s, u, k) /\ s[k] = t[k]
      BY <1>3, <2>1 DEF DifferAt, Agree, Tag
    <3> QED
      BY <1>3, <3>1 DEF Below
  <2>2. CASE k > Len(s)
    BY <1>3, <2>2 DEF Below, DifferAt, Agree, Tag
  <2> QED
    BY <2>1, <2>2 DEF Tag
<1>4. ASSUME NEW k \in Nat, DifferAt(s, t, k), cmp_field(s[k], t[k]) <= 0,
             NEW j \in Nat, DifferAt(t, u, j), cmp_field(t[j], u[j]) <= 0
      PROVE  Below(s, u)
  <2>1. CASE k < j
    <3>1. DifferAt(s, u, k) /\ u[k] = t[k]
      BY <1>4, <2>1 DEF DifferAt, Tag
    <3> QED
      BY <1>4, <3>1 DEF Below
  <2>2. CASE j < k
    <3>1. DifferAt(s, u, j) /\ s[j] = t[j]
      BY <1>4, <2>2 DEF DifferAt, Tag
    <3> QED
      BY <1>4, <3>1 DEF Below
  <2>3. CASE j = k
    <3>1. s[k] \in Field /\ t[k] \in Field /\ u[k] \in Field /\ s[k] # t[k]
      BY <1>4, <2>3 DEF DifferAt, Tag
    <3>2. cmp_field(s[k], u[k]) = -1
      BY <1>4, <2>3, <3>1, FieldTransitive
    <3>3. s[k] # u[k]
      BY <3>1, <3>2, FieldEqual
    <3>4. DifferAt(s, u, k)
      BY <1>4, <2>3, <3>3 DEF DifferAt, Tag
    <3> QED
      BY <3>2, <3>4 DEF Below
  <2> QED
    BY <2>1, <2>2, <2>3
<1> QED
  BY <1>1, <1>2, <1>3, <1>4 DEF Below

-----------------------------------------------------------------------------
(* Versions *)

\* waktanimra_cmp answers -1, 0 or 1.
LEMMA CmpRange ==
  ASSUME NEW v \in Version, NEW w \in Version
  PROVE  waktanimra_cmp(v, w) \in {-1, 0, 1}
<1>1. cmp_tagged(v, w) \in {-1, 0, 1}
  BY TagRange DEF cmp_tagged, Version
<1> QED
  BY <1>1 DEF waktanimra_cmp, sign, Version

\* Swapping the arguments negates the answer.
LEMMA CmpNegates ==
  ASSUME NEW v \in Version, NEW w \in Version
  PROVE  waktanimra_cmp(v, w) = -waktanimra_cmp(w, v)
<1>1. cmp_tagged(v, w) = -cmp_tagged(w, v)
  <2>1. cmp_tag(v.tag, w.tag) = -cmp_tag(w.tag, v.tag)
    BY TagNegates DEF Version
  <2> QED
    BY <2>1 DEF cmp_tagged, has_tag
<1>2. cmp_tagged(v, w) \in {-1, 0, 1}
  BY TagRange DEF cmp_tagged, Version
<1> QED
  BY <1>1, <1>2 DEF waktanimra_cmp, sign, Version

\* A version is as high as itself.
LEMMA CmpReflexive ==
  ASSUME NEW v \in Version
  PROVE  waktanimra_cmp(v, v) = 0
BY CmpRange, CmpNegates

LEMMA TaggedTransitive ==
  ASSUME NEW u \in Version, NEW v \in Version, NEW w \in Version,
         cmp_tagged(u, v) <= 0, cmp_tagged(v, w) <= 0
  PROVE  cmp_tagged(u, w) <= 0
<1>1. cmp_tag(u.tag, v.tag) <= 0 /\ cmp_tag(v.tag, w.tag) <= 0 => cmp_tag(u.tag, w.tag) <= 0
  BY TagBelow, BelowTransitive, SeenIsTag DEF Version
<1> QED
  BY <1>1 DEF cmp_tagged, has_tag

\* The order of versions is transitive.
LEMMA CmpTransitive ==
  ASSUME NEW u \in Version, NEW v \in Version, NEW w \in Version,
         waktanimra_cmp(u, v) <= 0, waktanimra_cmp(v, w) <= 0
  PROVE  waktanimra_cmp(u, w) <= 0
<1>1. cmp_tagged(u, v) <= 0 /\ cmp_tagged(v, w) <= 0 => cmp_tagged(u, w) <= 0
  BY TaggedTransitive
<1> QED
  BY <1>1 DEF waktanimra_cmp, sign, Version

\* ^X.Y.Z admits X.Y.Z.
LEMMA CaretAdmitsBase ==
  ASSUME NEW v \in Version
  PROVE  constraint_match([kind |-> "caret", base |-> v], v)
<1>1. waktanimra_cmp(v, caret_upper(v)) < 0
  BY DEF waktanimra_cmp, sign, Version, caret_upper, release
<1> QED
  BY <1>1, CmpReflexive DEF constraint_match, tag_opted_in
=============================================================================
