----------------------------- MODULE OrderedMap -----------------------------
(***************************************************************************)
(* What a program sees of an Oboe dict: keys and values in the order in    *)
(* which the keys were first stored.  Storing under a key that is there    *)
(* changes its value in place; a key that was removed comes back last.     *)
(***************************************************************************)
EXTENDS Integers, Sequences, SequencesExt

CONSTANTS Keys, Values, Null

VARIABLES
  list,   \* the entries, a sequence of [key, value]
  call,   \* the last operation and its arguments
  ret     \* and what it returned

Entry == [key : Keys, value : Values]

At(k) == {i \in DOMAIN list : list[i].key = k}

Init == list = <<>> /\ call = <<>> /\ ret = Null

Store(k, v) ==
  /\ call' = <<"set", k, v>>
  /\ \/ At(k) = {} /\ list' = Append(list, [key |-> k, value |-> v])
     \/ \E i \in At(k) : list' = [list EXCEPT ![i].value = v]
  /\ ret' = Null

Lookup(k) ==
  /\ call' = <<"get", k>>
  /\ \/ At(k) = {} /\ ret' = Null
     \/ \E i \in At(k) : ret' = list[i].value
  /\ UNCHANGED list

Holds(k) ==
  /\ call' = <<"has", k>>
  /\ ret' = (At(k) # {})
  /\ UNCHANGED list

Drop(k) ==
  /\ call' = <<"remove", k>>
  /\ \/ At(k) = {} /\ ret' = Null /\ UNCHANGED list
     \/ \E i \in At(k) : ret' = list[i].value /\ list' = RemoveAt(list, i)

Next == \E k \in Keys : Lookup(k) \/ Holds(k) \/ Drop(k) \/ \E v \in Values : Store(k, v)

Spec == Init /\ [][Next]_<<list, call, ret>>
=============================================================================
