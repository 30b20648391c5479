------------------------------- MODULE Octets -------------------------------
(* Octets as numbers, for what is ordered or parsed octet by octet.  A word    *)
(* that no property looks into (a magic, a name) stands as one octet.          *)
EXTENDS Integers, SequencesExt

LF == 10
Space == 32
Dot == 46
Slash == 47
Zero == 48
Colon == 58
Backslash == 92
Delete == 127

\* a sorts before b, octet by octet, a prefix first.
OctetLess(a, b) ==
  \/ IsStrictPrefix(a, b)
  \/ \E n \in DOMAIN a \cap DOMAIN b :
       a[n] < b[n] /\ \A m \in 1..(n - 1) : a[m] = b[m]

\* The pieces of s between the octets c; s[i..j] is one.
Pieces(s, c) ==
  {SubSeq(s, i, j - 1) : <<i, j>> \in
     {x \in (1..Len(s) + 1) \X (1..Len(s) + 1) :
        /\ x[1] <= x[2]
        /\ x[1] = 1 \/ s[x[1] - 1] = c
        /\ x[2] = Len(s) + 1 \/ s[x[2]] = c
        /\ \A k \in x[1]..(x[2] - 1) : s[k] # c}}
=============================================================================
