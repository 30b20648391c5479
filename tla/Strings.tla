------------------------------- MODULE Strings -------------------------------
(***************************************************************************)
(* Strings of the runtime (compiler/runtime/oboe_runtime.c): bytes, decoded *)
(* as UTF-8 where they are UTF-8 and byte by byte where they are not, with  *)
(* a header that remembers how many characters there are, whether they are  *)
(* all well formed, and a cursor: the number of a character and the offset  *)
(* of its first byte, from where the next walk may start.                   *)
(***************************************************************************)
EXTENDS Integers, SequencesExt, FiniteSetsExt

CONSTANTS Payloads,   \* the strings to start with: sequences of bytes
          CodePoints, \* what chr() is asked for
          Words,      \* what is searched for: sequences of characters
          Nothing     \* what is read past the end

Octet == 0..255

Unset == -1           \* OB_CPS_UNSET

VARIABLES
  bytes, hdr, \* the payload and its OboeStrHdr
  asked, answer \* the last call and what it returned

stringVars == <<bytes, hdr, asked, answer>>

-----------------------------------------------------------------------------
(* UTF-8 *)

\* The width that a first byte announces, 0 if it is none.
Announced(c) == CASE c < 128 -> 1
                  [] c \div 32 = 6 -> 2
                  [] c \div 16 = 14 -> 3
                  [] c \div 8 = 30 -> 4
                  [] OTHER -> 0

Lowest == <<0, 128, 2048, 65536>>
IsContinuation(b) == b \div 64 = 2

\* A bug: a character may be written with more bytes than it needs.
Proper_overlong(v, width) == v <= 1114111 /\ v \notin 55296..57343
Proper(v, width) == v >= Lowest[width] /\ v <= 1114111 /\ v \notin 55296..57343

\* chr() refuses 0, what is past the last code point, and halves of surrogates.
ASSUME StringsAssumption ==
  /\ Payloads \subseteq Seq(Octet)
  /\ \A c \in CodePoints : c \in Nat \ {0} /\ Proper(c, 1)

\* What w bytes from byte i on spell; bytes are counted from 0.
Spelled(s, i, w) ==
  LET low(k) == s[i + 1 + k] % 64
  IN CASE w = 2 -> (s[i + 1] % 32) * 64 + low(1)
       [] w = 3 -> ((s[i + 1] % 16) * 64 + low(1)) * 64 + low(2)
       [] OTHER -> (((s[i + 1] % 8) * 64 + low(1)) * 64 + low(2)) * 64 + low(3)

ob_utf8_decode(s, i) ==
  LET w == Announced(s[i + 1])
  IN IF /\ w > 1 /\ i + w <= Len(s)
        /\ \A k \in 1..w - 1 : IsContinuation(s[i + 1 + k])
        /\ Proper(Spelled(s, i, w), w)
     THEN [cp |-> Spelled(s, i, w), width |-> w]
     ELSE [cp |-> s[i + 1], width |-> 1]

ob_utf8_encode(cp) ==
  LET low(unit) == 128 + ((cp \div unit) % 64)
  IN CASE cp < 128 -> <<cp>>
       [] 128 <= cp /\ cp < 2048 -> <<192 + cp \div 64, low(1)>>
       [] 2048 <= cp /\ cp < 65536 -> <<224 + cp \div 4096, low(64), low(1)>>
       [] OTHER -> <<240 + cp \div 262144, low(4096), low(64), low(1)>>

\* The byte after so many characters from byte i on.
Ahead(s, i, n) ==
  LET f[k \in 0..n] == IF k = 0 THEN i ELSE f[k - 1] + ob_utf8_decode(s, f[k - 1]).width
  IN f[n]

\* Where the characters begin.
Starts(s) ==
  LET f[i \in 0..Len(s)] ==
        IF i = Len(s) THEN <<>> ELSE <<i>> \o f[i + ob_utf8_decode(s, i).width]
  IN f[0]

Characters(s) ==
  LET b == Append(Starts(s), Len(s))
  IN [k \in 1..Len(b) - 1 |-> SubSeq(s, b[k] + 1, b[k + 1])]

WellFormed(s) ==
  \A i \in Range(Starts(s)) : LET d == ob_utf8_decode(s, i) IN d.width > 1 \/ d.cp < 128

-----------------------------------------------------------------------------
(* The header *)

Bytes(t) == FlattenSeq(t)

\* Words are text: well-formed characters.
ASSUME WordsAssumption ==
  \A w \in Words : LET b == Bytes(w)
                   IN b \in Seq(Octet) /\ WellFormed(b) /\ w = Characters(b)

Clamp(a, n) == IF a < 0 THEN 0 ELSE IF a > n THEN n ELSE a
Indices == -1..Len(Starts(bytes)) + 1

Fresh == [cps |-> Unset, cur_cp |-> 0, cur_byte |-> 0, wf |-> FALSE]

\* The header after ob_sclen.
Counted == IF hdr.cps # Unset THEN hdr
           ELSE [hdr EXCEPT !.cps = Len(Starts(bytes)), !.wf = WellFormed(bytes)]

\* A bug: the walk goes backwards in any string.
Anchor_anywhere(h, k) ==
  LET back == h.cur_cp > k /\ h.cur_cp - k < k
      near == IF (h.cur_cp <= k /\ h.cur_cp > 0) \/ back
              THEN <<h.cur_cp, h.cur_byte>> ELSE <<0, 0>>
      far == IF near[1] <= k THEN k - near[1] ELSE near[1] - k
  IN IF h.wf /\ h.cps - k < far THEN <<h.cps, Len(bytes)>> ELSE near

\* Where the walk to character k starts: the start, the cursor or the end,
\* whichever is nearest, the last two not from behind unless all is well formed.
Anchor(h, k) ==
  LET back == h.wf /\ h.cur_cp > k /\ h.cur_cp - k < k
      near == IF (h.cur_cp <= k /\ h.cur_cp > 0) \/ back
              THEN <<h.cur_cp, h.cur_byte>> ELSE <<0, 0>>
      far == IF near[1] <= k THEN k - near[1] ELSE near[1] - k
  IN IF h.wf /\ h.cps - k < far THEN <<h.cps, Len(bytes)>> ELSE near

\* Back over continuation bytes to the n-th character before byte i.
Behind(s, i, n) ==
  LET Before(j) == Max({b \in 0..j - 1 : b = 0 \/ ~IsContinuation(s[b + 1])})
      f[k \in 0..n] == IF k = 0 THEN i ELSE Before(f[k - 1])
  IN f[n]

\* The offset of character k, and the header afterwards.
ob_cp_to_byte(h, k) ==
  IF k >= h.cps THEN [at |-> Len(bytes), hdr |-> h]
  ELSE IF h.cps = Len(bytes) THEN [at |-> k, hdr |-> h]
  ELSE LET a == Anchor(h, k)
           at == IF a[1] <= k THEN Ahead(bytes, a[2], k - a[1])
                 ELSE Behind(bytes, a[2], a[1] - k)
       IN [at |-> at, hdr |-> [h EXCEPT !.cur_cp = k, !.cur_byte = at]]

ob_byte_to_cp(off) ==
  IF Len(Starts(bytes)) = Len(bytes) THEN off
  ELSE Cardinality({i \in Range(Starts(bytes)) : i < off})

-----------------------------------------------------------------------------
(* The methods *)

Asked(c, h, r) == asked = <<>> /\ asked' = c /\ hdr' = h /\ answer' = r /\ UNCHANGED bytes

len == Asked(<<"len">>, Counted, Counted.cps)

ob_iter_value(k) ==
  LET p == ob_cp_to_byte(Counted, k)
  IN IF k < 0 \/ k >= Counted.cps THEN Asked(<<"value", k>>, Counted, Nothing)
     ELSE Asked(<<"value", k>>, p.hdr,
                SubSeq(bytes, p.at + 1, p.at + ob_utf8_decode(bytes, p.at).width))

\* ob_str_substr, called as c.
Substr(c, start, l0) ==
  LET n == Counted.cps
      a == Clamp(start, n)
      l == IF l0 < 0 THEN 0 ELSE IF a + l0 > n THEN n - a ELSE l0
      from == ob_cp_to_byte(Counted, a)
      to == ob_cp_to_byte(from.hdr, a + l)
  IN Asked(c, to.hdr, SubSeq(bytes, from.at + 1, to.at))

ob_str_substr(a, l) == Substr(<<"substr", a, l>>, a, l)

ob_m_slice(a0, b0) ==
  LET a == IF a0 < 0 THEN 0 ELSE a0
      b == IF b0 > Counted.cps THEN Counted.cps ELSE b0
  IN Substr(<<"slice", a0, b0>>, a, IF b > a THEN b - a ELSE 0)

\* strstr: where b is in the string.
Hits(b) == {i \in 0..Len(bytes) - Len(b) : SubSeq(bytes, i + 1, i + Len(b)) = b}

ob_str_index_of(word) ==
  LET hits == Hits(Bytes(word))
  IN IF hits = {} THEN Asked(<<"index_of", word>>, hdr, -1)
     ELSE Asked(<<"index_of", word>>, Counted, ob_byte_to_cp(Min(hits)))

ob_str_reverse == Asked(<<"reverse">>, hdr, Bytes(Reverse(Characters(bytes))))

Pieces(sep) ==
  LET f[i \in 0..Len(bytes)] ==
        LET hits == {h \in Hits(sep) : h >= i}
        IN IF hits = {} THEN <<SubSeq(bytes, i + 1, Len(bytes))>>
           ELSE <<SubSeq(bytes, i + 1, Min(hits))>> \o f[Min(hits) + Len(sep)]
  IN f[0]

ob_str_split(word) ==
  Asked(<<"split", word>>, hdr, IF word = <<>> THEN Characters(bytes) ELSE Pieces(Bytes(word)))

\* The caller goes on with the same string, or with the result, whose header
\* is fresh.
Return ==
  /\ asked # <<>> /\ asked' = <<>> /\ answer' = Nothing
  /\ \/ UNCHANGED <<bytes, hdr>>
     \/ /\ asked[1] \in {"value", "substr", "slice", "reverse"} /\ answer # Nothing
        /\ bytes' = answer /\ hdr' = Fresh

StringInit == bytes \in Payloads /\ hdr = Fresh /\ asked = <<>> /\ answer = Nothing

StringNext ==
  \/ len \/ ob_str_reverse \/ Return
  \/ \E k \in Indices : ob_iter_value(k)
  \/ \E a, b \in Indices : ob_str_substr(a, b) \/ ob_m_slice(a, b)
  \/ \E w \in Words : ob_str_index_of(w) \/ ob_str_split(w)

StringSpec == StringInit /\ [][StringNext]_stringVars

-----------------------------------------------------------------------------

\* Wherever the cursor has been left by earlier calls, it is the number and the
\* offset of one and the same character.
CursorTrue ==
  /\ hdr.cur_byte = Append(Starts(bytes), Len(bytes))[hdr.cur_cp + 1]
  /\ hdr.cps # Unset => hdr.cps = Len(Starts(bytes)) /\ hdr.wf = WellFormed(bytes)

\* A character has one spelling: what decodes to more than a byte is what chr() of
\* its code point is, and chr() of any code point is one character.
OneSpelling ==
  /\ \A i \in Range(Starts(bytes)) :
       LET d == ob_utf8_decode(bytes, i)
       IN d.width > 1 => SubSeq(bytes, i + 1, i + d.width) = ob_utf8_encode(d.cp)
  /\ \A c \in CodePoints :
       ob_utf8_decode(ob_utf8_encode(c), 0) = [cp |-> c, width |-> Len(ob_utf8_encode(c))]

(***************************************************************************)
(* What a string remembers beside its bytes never shows: the cursor is at  *)
(* the character it counts, whatever was called before, and a character has *)
(* one spelling, so that bytes and characters say the same.                *)
(***************************************************************************)
CursorIsPlace == CursorTrue /\ OneSpelling

(***************************************************************************)
(* Every method answers as if the string were its characters, whatever its  *)
(* bytes, the calls before and where they left the cursor: a search for     *)
(* well-formed text finds characters, not parts of them, and gives a number *)
(* that substr() understands; and what is split joins to the string again.  *)
(***************************************************************************)
Characterwise == INSTANCE Text
  WITH text <- Characters(bytes), call <- asked, ret <- answer, Null <- Nothing

IsText == Characterwise!Spec
=============================================================================
