----------------------------- MODULE Waktanimra -----------------------------
(***************************************************************************)
(* Package versions ("waktanimra") and the constraints that select them,   *)
(* as compiler/src/izim.c orders and matches them.                         *)
(*                                                                         *)
(* A version is a triple and an optional tag.  The tag is kept as its      *)
(* '.'-separated fields: a field made of digits only carries its value, so *)
(* leading zeros are already gone; any other field carries its rank in     *)
(* ASCII order, the empty field having rank 0.  The empty sequence stands  *)
(* for "no tag", which no parsed tag is.                                   *)
(***************************************************************************)
EXTENDS Integers, Sequences

Field == [num : BOOLEAN, val : Nat]

Tag == Seq(Field)

Version == [major : Nat, minor : Nat, patch : Nat, tag : Tag]

Kinds == {"any", "eq", "ge", "caret"}

Constraint == [kind : Kinds, base : Version]

has_tag(v) == v.tag # <<>>

release(x, y, z) == [major |-> x, minor |-> y, patch |-> z, tag |-> <<>>]

sign(x, y) == IF x < y THEN -1 ELSE IF x > y THEN 1 ELSE 0

(***************************************************************************)
(* cmp_tag.  Fields are compared pairwise; the loop stops as soon as one   *)
(* side has nothing left, so an empty last field ("rc.") is never seen.   *)
(***************************************************************************)
empty_field == [num |-> FALSE, val |-> 0]

fields_seen(t) ==
  IF Len(t) > 1 /\ t[Len(t)] = empty_field
  THEN SubSeq(t, 1, Len(t) - 1) ELSE t

\* A bug in the mixed case: the numeric side is not looked at.
cmp_field_onesided(f, g) ==
  IF f.num # g.num THEN -1 ELSE sign(f.val, g.val)

cmp_field(f, g) ==
  IF f.num # g.num THEN (IF f.num THEN -1 ELSE 1) ELSE sign(f.val, g.val)

cmp_tag(a, b) ==
  LET s == fields_seen(a)
      t == fields_seen(b)
      differ == {k \in DOMAIN s \cap DOMAIN t : cmp_field(s[k], t[k]) # 0}
  IN IF differ = {} THEN sign(Len(s), Len(t))
     ELSE LET k == CHOOSE k \in differ : \A j \in differ : k <= j
          IN cmp_field(s[k], t[k])

cmp_tagged(v, w) ==
  IF has_tag(v) # has_tag(w) THEN (IF has_tag(v) THEN -1 ELSE 1)
  ELSE cmp_tag(v.tag, w.tag)

triple(v) == <<v.major, v.minor, v.patch>>

waktanimra_cmp(v, w) ==
  CASE v.major # w.major -> sign(v.major, w.major)
    [] v.major = w.major /\ v.minor # w.minor -> sign(v.minor, w.minor)
    [] v.major = w.major /\ v.minor = w.minor /\ v.patch # w.patch ->
         sign(v.patch, w.patch)
    [] OTHER -> cmp_tagged(v, w)

(***************************************************************************)
(* Constraints.                                                            *)
(***************************************************************************)
\* A bug in the bound: semantic versioning's 1.0 rule applied to 0.x as well.
caret_upper_major(b) == release(b.major + 1, 0, 0)

caret_upper(b) ==
  IF b.major # 0 THEN release(b.major + 1, 0, 0)
  ELSE IF b.minor # 0 THEN release(0, b.minor + 1, 0)
  ELSE release(0, 0, b.patch + 1)

tag_opted_in(c, v) ==
  has_tag(v) => /\ c.kind # "any"
                /\ has_tag(c.base)
                /\ triple(c.base) = triple(v)

constraint_match(c, v) ==
  /\ tag_opted_in(c, v)
  /\ \/ c.kind = "any"
     \/ c.kind = "eq"    /\ waktanimra_cmp(v, c.base) = 0
     \/ c.kind = "ge"    /\ waktanimra_cmp(v, c.base) >= 0
     \/ c.kind = "caret" /\ waktanimra_cmp(v, c.base) >= 0
                         /\ waktanimra_cmp(v, caret_upper(c.base)) < 0
=============================================================================
