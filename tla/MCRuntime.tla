------------------------------ MODULE MCRuntime ------------------------------
(* The two kinds of values that remember where things are: dicts, with the     *)
(* loops over them, and strings.  A behaviour is about one of them.            *)
EXTENDS DictWalk, Strings

(***************************************************************************)
(* Four keys and an index from two entries on: it is built with four slots *)
(* at two entries, rebuilt with eight at three, and the fourth entry goes  *)
(* into it as it is.                                                       *)
(***************************************************************************)
MCKeys == {"a", "b", "c", "d"}

hashed(a, b, c, d) ==
  [k \in MCKeys |-> CASE k = "a" -> a [] k = "b" -> b [] k = "c" -> c [] OTHER -> d]

\* All in one chain that wraps around; two chains that meet; chains that part
\* as the index grows.
MCHashes == {hashed(7, 7, 7, 7), hashed(3, 6, 7, 3), hashed(1, 5, 9, 13)}

\* The values are interchangeable.
Swapped == Permutations(Values)

(***************************************************************************)
(* Strings of three characters of one to three bytes; of four, in which a  *)
(* place may be nearer to the cursor behind it than to the beginning; of   *)
(* up to two pieces, the parts of characters among them, which side by     *)
(* side may make one; and a character of four bytes, an overlong one and   *)
(* half of a surrogate pair.                                               *)
(***************************************************************************)
letter == <<97>>
two == <<195, 169>>
three == <<226, 130, 172>>
four == <<240, 159, 152, 128>>

Character == {letter, two, three}
Part == {<<169>>, <<195>>, <<226, 130>>}
MCPayloads ==
  {FlattenSeq(p) : p \in [1..3 -> Character] \cup UNION {[1..j -> Character \cup Part] : j \in 0..2}}
    \cup {letter \o two \o three \o letter, three \o two \o two \o three}
    \cup {four \o two, <<192, 175>> \o two, <<237, 160, 128>> \o two}

MCWords == {<<>>, <<letter>>, <<two>>, <<three, letter>>, <<letter, two>>, <<two, two>>}

MCCodePoints ==
  {1, 127, 128, 2047, 2048, 55295, 57344, 65535, 65536, 1114111}

-----------------------------------------------------------------------------

VARIABLE family

RuntimeInit ==
  \/ /\ family = "dict" /\ WalkInit
     /\ bytes = <<>> /\ hdr = Fresh /\ asked = <<>> /\ answer = Nothing
  \/ /\ family = "string" /\ StringInit
     /\ WalkInit /\ hash = CHOOSE h \in Hashes : TRUE

RuntimeNext ==
  /\ \/ family = "dict" /\ WalkNext /\ UNCHANGED stringVars
     \/ family = "string" /\ StringNext /\ UNCHANGED walkVars
  /\ UNCHANGED family

RuntimeSpec == RuntimeInit /\ [][RuntimeNext]_<<walkVars, stringVars, family>>
=============================================================================
