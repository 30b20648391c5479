------------------------------- MODULE Records -------------------------------
(* `key: value' bodies (record.c): lines, and blank lines between records.     *)
(* A record is a sequence of [key, value].                                     *)
EXTENDS Octets

CONSTANT KeyMax     \* RECORD_KEY_MAX

key_valid(k) == Len(k) \in 1..(KeyMax - 1) /\ \A i \in DOMAIN k : k[i] \in 97..122

\* A field is appended, or the record stays as it is.
record_put(r, key, value) ==
  IF key_valid(key) /\ value # <<>> THEN Append(r, [key |-> key, value |-> value]) ELSE r

record_format(r) ==
  FlattenSeq([i \in DOMAIN r |-> r[i].key \o <<Colon, Space>> \o r[i].value \o <<LF>>])

\* One line without its end, as a field: the key ends at the first colon.
ParseField(line) ==
  LET colon == SelectInSeq(line, LAMBDA c : c = Colon)
      key == SubSeq(line, 1, colon - 1)
      value == SubSeq(line, colon + 2, Len(line))
  IN [ok |-> colon # 0 /\ key_valid(key) /\ value # <<>> /\ line[colon + 1] = Space,
      field |-> [key |-> key, value |-> value]]

\* A bug: a blank line does not close the record.
CloseRecord_not(set, cur) == set

\* The record that is open is closed.
CloseRecord(set, cur) == IF cur = <<>> THEN set ELSE Append(set, cur)

RECURSIVE ParseLines(_, _, _)
ParseLines(body, set, cur) ==
  LET end == SelectInSeq(body, LAMBDA c : c = LF)
      line == SubSeq(body, 1, end - 1)
      rest == SubSeq(body, end + 1, Len(body))
  IN IF body = <<>> THEN [ok |-> TRUE, records |-> CloseRecord(set, cur)]
     ELSE IF end = 0 THEN [ok |-> FALSE, records |-> <<>>]
     ELSE IF line = <<>> THEN ParseLines(rest, CloseRecord(set, cur), <<>>)
     ELSE IF ParseField(line).ok THEN ParseLines(rest, set, Append(cur, ParseField(line).field))
     ELSE [ok |-> FALSE, records |-> <<>>]

record_set_parse(body) == ParseLines(body, <<>>, <<>>)
=============================================================================
