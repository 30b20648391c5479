---------------------------- MODULE MCWaktanimra ----------------------------
(***************************************************************************)
(* Every triple of versions and every constraint over a small set of       *)
(* versions, visited one change at a time: u, v and w are versions met in  *)
(* registry records, c is a constraint met in a project or a record.       *)
(***************************************************************************)
EXTENDS Waktanimra

rc == [num |-> FALSE, val |-> 2]
beta == [num |-> FALSE, val |-> 1]
one == [num |-> TRUE, val |-> 1]
ten == [num |-> TRUE, val |-> 10]

pre(v, t) == [v EXCEPT !.tag = t]

\* 1.0.0-rc, -rc., -rc.1, -rc.10, -1, -beta and -.rc among the tagged ones.
Versions ==
  {release(0, 0, 0), release(0, 0, 1), release(0, 1, 0), release(0, 1, 1),
   release(0, 2, 0), release(1, 0, 0), release(1, 2, 0), release(2, 0, 0)}
  \cup {pre(release(1, 0, 0), t) :
          t \in {<<rc>>, <<rc, empty_field>>, <<rc, one>>, <<rc, ten>>,
                 <<one>>, <<beta>>, <<empty_field, rc>>}}
  \cup {pre(release(2, 0, 0), <<rc>>), pre(release(0, 1, 0), <<one>>)}

VARIABLES u, v, w, c

VersionsInit == /\ u = release(0, 0, 0) /\ v = u /\ w = u
        /\ c = [kind |-> "any", base |-> u]

\* One of the versions is exchanged for another, or a constraint is put on w.
Exchange == /\ \E x \in Versions : \/ u' = x /\ UNCHANGED <<v, w>>
                                   \/ v' = x /\ UNCHANGED <<u, w>>
                                   \/ w' = x /\ UNCHANGED <<u, v>>
            /\ c.kind = "any"
            /\ c' = [c EXCEPT !.base = w']

Constrain == /\ c.kind = "any"
             /\ \E k \in {"eq", "ge", "caret"} : c' = [kind |-> k, base |-> w]
             /\ UNCHANGED <<u, v, w>>

Lift == /\ c.kind # "any"
        /\ c' = [kind |-> "any", base |-> w]
        /\ UNCHANGED <<u, v, w>>

VersionsNext == Exchange \/ Constrain \/ Lift

(***************************************************************************)
(* waktanimra_cmp is a total order on versions up to spelling: swapping    *)
(* the arguments negates it and it is transitive.  "The highest release"   *)
(* of resolve_local means nothing otherwise, since its scan compares each  *)
(* record with the best so far only (izim.c:131-199).                      *)
(***************************************************************************)
TotalOrder ==
  /\ waktanimra_cmp(u, v) = -waktanimra_cmp(v, u)
  /\ waktanimra_cmp(u, v) <= 0 /\ waktanimra_cmp(v, w) <= 0
       => waktanimra_cmp(u, w) <= 0

(***************************************************************************)
(* Two spellings that compare equal ("1.0.0-rc" and "1.0.0-rc.") are taken *)
(* or refused by the same constraints, and stand in the same place against *)
(* every third version, so which of them a record lists first changes the  *)
(* text of a pin and nothing else.                                         *)
(***************************************************************************)
EqualIsInterchangeable ==
  waktanimra_cmp(u, v) = 0
    => /\ constraint_match(c, u) <=> constraint_match(c, v)
       /\ waktanimra_cmp(u, w) = waktanimra_cmp(v, w)

(***************************************************************************)
(* A tagged version lies strictly between its release and every version    *)
(* below that release's triple: it "precedes the release it leads up to"   *)
(* (izim.c:193) and follows everything the release follows.                *)
(***************************************************************************)
TagLeadsUpToRelease ==
  has_tag(u)
    => LET r == [u EXCEPT !.tag = <<>>] IN
         /\ waktanimra_cmp(u, r) = -1
         /\ waktanimra_cmp(v, r) = -1 /\ ~has_tag(v) => waktanimra_cmp(v, u) = -1

(***************************************************************************)
(* What the comment above caret_upper says of ^X.Y.Z, stated without the   *)
(* bound: a release matches iff it is not below the base and agrees with   *)
(* it on every component up to the leftmost non-zero one.                  *)
(***************************************************************************)
leading(b) == IF b.major # 0 THEN 1 ELSE IF b.minor # 0 THEN 2 ELSE 3

CaretKeepsLeading ==
  c.kind = "caret" /\ ~has_tag(u)
    => (constraint_match(c, u)
          <=> /\ waktanimra_cmp(u, c.base) >= 0
              /\ \A k \in 1..leading(c.base) : triple(u)[k] = triple(c.base)[k])

(***************************************************************************)
(* A pre-release is only ever chosen on request, and only of the release   *)
(* the request names: ^1.2.0 does not reach 2.0.0-rc although 2.0.0-rc is  *)
(* below the bound 2.0.0 (izim.c:269-278).                                 *)
(***************************************************************************)
PrereleaseOnRequest ==
  constraint_match(c, u) /\ has_tag(u)
    => has_tag(c.base) /\ c.kind # "any" /\ triple(c.base) = triple(u)

(***************************************************************************)
(* What "the highest release that the constraints admit" rests on: one     *)
(* order of all versions (izim.c:131-199) ...                              *)
(***************************************************************************)
VersionOrder == TotalOrder /\ EqualIsInterchangeable /\ TagLeadsUpToRelease

(* ... and how far a constraint reaches in it (izim.c:239-290). *)
ConstraintReach == CaretKeepsLeading /\ PrereleaseOnRequest
=============================================================================
