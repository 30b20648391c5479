------------------------------ MODULE DictWalk ------------------------------
(***************************************************************************)
(* `for (k, v in pairs(d)) { ... }' over a dict whose body may change it:  *)
(* the loop the compiler emits around ob_iter_len, ob_iter_key and         *)
(* ob_iter_value.  The length is taken once, before the first iteration.   *)
(* Before it and in its body the dict is changed by its own operations.    *)
(***************************************************************************)
EXTENDS Dict

CONSTANTS
  MaxStart,  \* bound: entries the dict has when the loop begins
  MaxDrops   \* bound: entries the body removes

\* A key is a string, never null.
ASSUME WalkAssumption == Null \notin Keys

NotYet == -1

VARIABLES
  n,         \* __n: the length when the loop began, or NotYet
  i,         \* __i, counted from 0; n when the loop is over
  visited,   \* the loop's keys so far, Null where there was no entry
  first,     \* the keys, in order, when the loop began
  drops      \* how many entries the body has removed

loop == <<n, i, visited, first, drops>>
walkVars == <<vars, loop>>

KeysOf(l) == [j \in DOMAIN l |-> l[j].key]

WalkInit ==
  /\ Init
  /\ n = NotYet /\ i = 0 /\ visited = <<>> /\ first = <<>> /\ drops = 0

Before == n = NotYet /\ Next /\ UNCHANGED loop

Begin ==
  /\ n = NotYet /\ Len(entries) <= MaxStart
  /\ n' = Len(entries)
  /\ first' = KeysOf(entries)
  /\ UNCHANGED <<vars, i, visited, drops>>

\* ob_iter_key: null past the end, as is ob_iter_value.
iter(j) == IF j >= Len(entries) THEN Null ELSE entries[j + 1].key

\* A bug: the index moves on before the entry is read.
Iterate_ahead ==
  /\ i < n
  /\ visited' = Append(visited, iter(i + 1))
  /\ i' = i + 1
  /\ UNCHANGED <<vars, n, first, drops>>

Iterate ==
  /\ i < n
  /\ visited' = Append(visited, iter(i))
  /\ i' = i + 1
  /\ UNCHANGED <<vars, n, first, drops>>

BodySets ==
  /\ i > 0
  /\ \E k \in Keys, v \in Values : ob_dict_set(k, v)
  /\ UNCHANGED loop

BodyRemoves ==
  /\ i > 0 /\ drops < MaxDrops
  /\ \E k \in Keys : find(k) # 0 /\ ob_dict_remove(k)
  /\ drops' = drops + 1
  /\ UNCHANGED <<n, i, visited, first>>

WalkNext == Before \/ Begin \/ Iterate \/ BodySets \/ BodyRemoves

WalkSpec == WalkInit /\ [][WalkNext]_walkVars

-----------------------------------------------------------------------------

(***************************************************************************)
(* A loop whose body stores what it likes but removes nothing binds the    *)
(* keys there were at its start, each once and in order; entries its body  *)
(* adds are not visited.                                                   *)
(***************************************************************************)
VisitsAllOnce ==
  drops = 0 => /\ visited = SubSeq(first, 1, i)
               /\ i <= Len(first)

(***************************************************************************)
(* A body that removes entries makes the loop pass over others and run on  *)
(* with null in its variables, but each removal costs at most one entry    *)
(* that was there throughout, and at most one iteration without an entry.  *)
(***************************************************************************)
LossesBounded ==
  i = n => /\ Cardinality((Range(first) \cap Range(KeysOf(entries))) \ Range(visited)) <= drops
           /\ Cardinality({j \in DOMAIN visited : visited[j] = Null}) <= drops

\* What a loop visits, whatever its body does to the dict.
LoopVisits == VisitsAllOnce /\ LossesBounded
=============================================================================
