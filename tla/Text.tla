-------------------------------- MODULE Text --------------------------------
(***************************************************************************)
(* What an Oboe string promises: a sequence of characters, each a sequence  *)
(* of bytes, that is read by character number, counted from 0.  How bytes   *)
(* make characters is Strings' business, where it is that strings start.    *)
(***************************************************************************)
EXTENDS Integers, SequencesExt, FiniteSetsExt

CONSTANTS
  Words,     \* strings that are searched for: sequences of characters
  Null       \* what is read past the end

VARIABLES
  text,      \* the string that the operations are about
  call, ret  \* the last operation and what it returned

textVars == <<text, call, ret>>

Bytes(t) == FlattenSeq(t)
Clamp(a, n) == IF a < 0 THEN 0 ELSE IF a > n THEN n ELSE a
Indices == -1..Len(text) + 1

Join(pieces, sep) ==
  FlattenSeq([k \in DOMAIN pieces |-> IF k = 1 THEN pieces[k] ELSE sep \o pieces[k]])

\* Where word is found in t.
Found(t, word) ==
  {k \in 0..Len(t) - Len(word) : SubSeq(t, k + 1, k + Len(word)) = word}

Init == call = <<>> /\ ret = Null

Length == call' = <<"len">> /\ ret' = Len(text)

Character(k) ==
  /\ call' = <<"value", k>>
  /\ ret' = IF k \in 0..Len(text) - 1 THEN text[k + 1] ELSE Null

\* Starts and lengths out of range are clamped.
Substring(a, l) ==
  LET from == Clamp(a, Len(text))
  IN /\ call' = <<"substr", a, l>>
     /\ ret' = Bytes(SubSeq(text, from + 1, from + Clamp(l, Len(text) - from)))

Slice(a, b) ==
  LET from == IF a < 0 THEN 0 ELSE a
  IN /\ call' = <<"slice", a, b>>
     /\ ret' = Bytes(SubSeq(text, from + 1, Clamp(b, Len(text))))

IndexOf(word) ==
  /\ call' = <<"index_of", word>>
  /\ ret' = IF Found(text, word) = {} THEN -1 ELSE Min(Found(text, word))

Reversed == call' = <<"reverse">> /\ ret' = Bytes(Reverse(text))

\* The pieces have the separator between them and none inside.
Split(sep) ==
  /\ call' = <<"split", sep>>
  /\ IF sep = <<>> THEN ret' = text
     ELSE /\ Join(ret', Bytes(sep)) = Bytes(text)
          /\ \A k \in DOMAIN ret' : Found(ret'[k], Bytes(sep)) = {}

\* The caller goes on with the same string, or with the result.
Return ==
  /\ call # <<>> /\ call' = <<>> /\ ret' = Null
  /\ \/ UNCHANGED text
     \/ /\ call[1] \in {"value", "substr", "slice", "reverse"} /\ ret # Null
        /\ Bytes(text') = ret

Ask == \/ Length \/ Reversed
       \/ \E k \in Indices : Character(k)
       \/ \E a, b \in Indices : Substring(a, b) \/ Slice(a, b)
       \/ \E w \in Words : IndexOf(w) \/ Split(w)

Next == (call = <<>> /\ Ask /\ UNCHANGED text) \/ Return

Spec == Init /\ [][Next]_textVars
=============================================================================
