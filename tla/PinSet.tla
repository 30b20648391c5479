------------------------------- MODULE PinSet -------------------------------
(***************************************************************************)
(* Sets of pinned releases, as functions from package names, and when such *)
(* a set answers a request: it holds the package asked for at a version    *)
(* the request accepts, and with each release everything that release      *)
(* depends on.                                                             *)
(***************************************************************************)
EXTENDS Waktanimra

CONSTANTS Names,    \* package names
          BadLine,  \* a `cizujo' line that does not parse
          NoPin     \* no release of this package in the set

NoPins == [n \in Names |-> NoPin]

Pinned(s) == {n \in Names : s[n] # NoPin}

\* Each dependency of a pinned release is pinned at a version it accepts.
Closed(s) ==
  \A n \in Pinned(s) : \A k \in DOMAIN s[n].cizujo :
    LET d == s[n].cizujo[k] IN
      d # BadLine => s[d.izim] # NoPin /\ constraint_match(d.cons, s[d.izim].ver)

Answers(s, izim, cons) ==
  /\ s[izim] # NoPin /\ constraint_match(cons, s[izim].ver)
  /\ Closed(s)
=============================================================================
