-------------------------------- MODULE Dict --------------------------------
(***************************************************************************)
(* OboeDict (compiler/runtime/oboe_runtime.c): a dense array of entries in *)
(* insertion order and, once there are OB_DICT_INDEX_MIN of them, an open- *)
(* addressed index into it, whose slots hold an entry's position, counted  *)
(* from 1, or 0.  The index has a power of two of slots, is probed         *)
(* linearly from the key's hash, and is rebuilt when it is three quarters  *)
(* full and after every removal.                                           *)
(***************************************************************************)
EXTENDS Integers, Sequences, FiniteSetsExt, SequencesExt

CONSTANTS
  Keys, Values,
  Null,         \* what a lookup of an absent key returns
  Hashes,       \* the hash functions considered, each in [Keys -> Nat]
  IndexMin      \* OB_DICT_INDEX_MIN, a power of two

IsPowerOfTwo(c) == \E n \in 0..c : c = 2^n

ASSUME DictAssumption ==
  /\ Hashes \subseteq [Keys -> Nat]
  /\ IndexMin \in Nat /\ IsPowerOfTwo(IndexMin)

VARIABLES
  hash,       \* the hash function
  entries,    \* entries[0..count-1], numbered from 1 here
  index,      \* slot -> 0 or the number of an entry; <<>>: there is none
  call,       \* the last operation and its arguments
  ret         \* and what it returned

vars == <<hash, entries, index, call, ret>>

cap(ix) == Cardinality(DOMAIN ix)

(***************************************************************************)
(* ob_dict_slot: the first slot, from the key's own on, that is empty or   *)
(* holds the key.  The loop does not end when there is none.               *)
(***************************************************************************)
Stops(es, ix, k) ==
  {p \in 0..(cap(ix) - 1) :
     LET s == (hash[k] + p) % cap(ix) IN ix[s] = 0 \/ es[ix[s]].key = k}

\* A bug: the probe gives up after the key's own slot.
slot_noprobe(es, ix, k) == hash[k] % cap(ix)

slot(es, ix, k) == (hash[k] + Min(Stops(es, ix, k))) % cap(ix)

\* ob_dict_reindex: the entries are put into an empty index one by one.
reindexed(es, c) ==
  LET filled[i \in 0..Len(es)] ==
        IF i = 0 THEN [s \in 0..(c - 1) |-> 0]
        ELSE LET ix == filled[i - 1] IN [ix EXCEPT ![slot(es, ix, es[i].key)] = i]
  IN filled[Len(es)]

scan(es, k) ==
  LET at == {i \in DOMAIN es : es[i].key = k} IN IF at = {} THEN 0 ELSE Min(at)

\* ob_dict_find, counted from 1; 0 when the key is not there.
find(k) == IF index = <<>> THEN scan(entries, k) ELSE index[slot(entries, index, k)]

\* A bug in the load factor: the index may fill up.
full_late(n, c) == n > c

full(n, c) == n * 4 >= c * 3

Init ==
  /\ hash \in Hashes
  /\ entries = <<>>
  /\ index = <<>>
  /\ call = <<>> /\ ret = Null

ob_dict_set(k, v) ==
  /\ call' = <<"set", k, v>>
  /\ IF find(k) # 0
     THEN entries' = [entries EXCEPT ![find(k)].value = v] /\ index' = index
     ELSE LET es == Append(entries, [key |-> k, value |-> v])
              n == Len(es)
              c == cap(index)
          IN /\ entries' = es
             /\ index' = IF ~full(n, c) THEN [index EXCEPT ![slot(es, index, k)] = n]
                         ELSE IF n < IndexMin THEN index
                         ELSE reindexed(es, IF c = 0 THEN IndexMin * 2 ELSE c * 2)
  /\ ret' = Null
  /\ UNCHANGED hash

ob_dict_get(k) ==
  /\ call' = <<"get", k>>
  /\ ret' = IF find(k) = 0 THEN Null ELSE entries[find(k)].value
  /\ UNCHANGED <<hash, entries, index>>

ob_dict_has(k) ==
  /\ call' = <<"has", k>>
  /\ ret' = (find(k) # 0)
  /\ UNCHANGED <<hash, entries, index>>

ob_dict_remove(k) ==
  /\ call' = <<"remove", k>>
  /\ IF find(k) = 0
     THEN ret' = Null /\ UNCHANGED <<entries, index>>
     ELSE /\ ret' = entries[find(k)].value
          /\ entries' = RemoveAt(entries, find(k))
          /\ index' = IF index = <<>> THEN index ELSE reindexed(entries', cap(index))
  /\ UNCHANGED hash

Next == \E k \in Keys : ob_dict_get(k) \/ ob_dict_has(k) \/ ob_dict_remove(k) \/ \E v \in Values : ob_dict_set(k, v)

Spec == Init /\ [][Next]_vars

-----------------------------------------------------------------------------

(***************************************************************************)
(* Types, with the shape of the index: a power of two of slots, present    *)
(* whenever there are IndexMin entries, and every stored position in       *)
(* range, so that no probe reads entries[] past its end.                   *)
(***************************************************************************)
TypeOK ==
  /\ hash \in Hashes
  /\ entries \in Seq([key : Keys, value : Values])
  /\ index = <<>> => Len(entries) < IndexMin
  /\ index # <<>> =>
       /\ IsPowerOfTwo(cap(index)) /\ DOMAIN index = 0..(cap(index) - 1)
       /\ \A s \in DOMAIN index : index[s] \in 0..Len(entries)
  /\ ret \in Values \cup {Null} \cup BOOLEAN

(***************************************************************************)
(* A probe always ends: whatever was stored and removed, some slot of the  *)
(* index is empty.                                                         *)
(***************************************************************************)
ProbesEnd == index # <<>> => \E s \in DOMAIN index : index[s] = 0

IndexSound == TypeOK /\ ProbesEnd

(***************************************************************************)
(* Behind the index or without it, a dict is an ordered map: what it       *)
(* returns, and the order it keeps, do not depend on the hash.             *)
(***************************************************************************)
Map == INSTANCE OrderedMap WITH list <- entries

IsOrderedMap == Map!Spec
=============================================================================
