-------------------------------- MODULE Lexer --------------------------------
(* Tokens (legacy/lexer.c) and what a string literal is made of                *)
(* (legacy/parser.c).  A text is a sequence of characters; the word `operator' *)
(* stands as one.  A token is [type, text, line].                              *)
EXTENDS Integers, SequencesExt, FiniteSetsExt

Newline == "\n"
Quote == "\""
Letters == {"a", "n", "operator"}
Figures == {"1"}
Wordly == Letters \cup Figures
Blanks == {" ", Newline}

is_op_char(c) == c \in {"+", "-", "*", "/", "%", "<", ">", "=", "!", "&", "|", "^", "~",
                        "?", "@", "#", "$", ":", "."}

\* The operators that the lexer knows by itself.
Pairs == {<<"=", "=">>, <<"!", "=">>, <<"<", "=">>, <<">", "=">>, <<"<", "<">>, <<">", ">">>,
          <<"&", "&">>, <<"|", "|">>, <<"?", "?">>, <<"?", ".">>, <<"-", ">">>}
Singles == {"+", "-", "*", "/", "%", "<", ">", "=", "!", "&", "|", "^", "~", "?", ":", "."}
Brackets == {"{", "}", "(", ")", "[", "]", ",", ";"}

is_builtin_op(s) == s \in Pairs \/ (Len(s) = 1 /\ s[1] \in Singles)

\* How many characters at the front of s are in a class, and s without n of them.
Run(s, Test(_)) ==
  LET other == SelectInSeq(s, LAMBDA c : ~Test(c))
  IN IF other = 0 THEN Len(s) ELSE other - 1
Skip(s, n) == SubSeq(s, n + 1, Len(s))
Take(s, n) == SubSeq(s, 1, n)

\* The operator characters behind the word that ends at s[i].
SignBehind(s, i) ==
  LET rest == Skip(s, i)
      sign == Skip(rest, Run(rest, LAMBDA c : c \in Blanks))
  IN Take(sign, Run(sign, is_op_char))

register_custom_op(signs) == {s \in signs \ {<<>>} : ~is_builtin_op(s)}

\* What follows each word `operator' in a text and is no operator already, code
\* or not.
prescan_custom_ops(s) ==
  register_custom_op({SignBehind(s, i) : i \in {j \in DOMAIN s :
    /\ s[j] = "operator"
    /\ j > 1 => s[j - 1] \notin Wordly
    /\ j < Len(s) => s[j + 1] \notin Wordly}})

\* A bug: the shortest one is taken.
match_custom_op_shortest(known, s) ==
  LET lengths == {Len(o) : o \in {k \in known : IsPrefix(k, s)}}
  IN IF lengths = {} THEN 0 ELSE Min(lengths)

\* The length of the longest custom operator at the front of s, or 0.
match_custom_op(known, s) ==
  LET lengths == {Len(o) : o \in {k \in known : IsPrefix(k, s)}}
  IN IF lengths = {} THEN 0 ELSE Max(lengths)

-----------------------------------------------------------------------------
(* String literals *)

\* The number of characters from an opening brace's content to its closing
\* brace, or to the end.
RECURSIVE ToBrace(_, _)
ToBrace(s, depth) ==
  IF s = <<>> THEN 0
  ELSE LET d == depth + (IF s[1] = "{" THEN 1 ELSE IF s[1] = "}" THEN -1 ELSE 0)
       IN IF d = 0 THEN 0 ELSE 1 + ToBrace(Tail(s), d)

Decoded(c) == IF c = "n" THEN Newline ELSE c

Opens(s) == IsPrefix(<<"$", "{">>, s)

RECURSIVE read_string_body(_)
\* The body of the literal at the front of s, the lines that are counted in it
\* and what follows it.  An escape is decoded, and an interpolation copied as it
\* stands, to the end of s where nothing closes it.
read_string_body(s) ==
  LET then(text, n, lines) ==
        LET more == read_string_body(Skip(s, n))
        IN [more EXCEPT !.text = text \o @, !.lines = @ + lines]
      inside == Min({ToBrace(Skip(s, 2), 1) + 3, Len(s)})
  IN IF s = <<>> \/ s[1] = Quote THEN [text |-> <<>>, lines |-> 0, rest |-> Skip(s, 1)]
     ELSE IF s[1] = "\\" /\ Len(s) > 1 THEN then(<<Decoded(s[2])>>, 2, 0)
     ELSE IF Opens(s) THEN then(Take(s, inside), inside, 0)
     ELSE then(<<s[1]>>, 1, IF s[1] = Newline THEN 1 ELSE 0)

\* A piece of text is put behind the parts, joined to a piece of text there.
Literal(parts, c) ==
  IF parts # <<>> /\ ~Last(parts).is_expr
  THEN [parts EXCEPT ![Len(parts)].text = Append(@, c)]
  ELSE Append(parts, [is_expr |-> FALSE, text |-> <<c>>])
Code(parts, text) == Append(parts, [is_expr |-> TRUE, text |-> text])

\* The parts of the decoded body: the code inside each interpolation is lexed
\* and parsed on its own.
RECURSIVE Parts(_, _)
Parts(raw, parts) ==
  LET n == ToBrace(Skip(raw, 2), 1)
  IN IF raw = <<>> THEN parts
     ELSE IF Opens(raw) THEN Parts(Skip(raw, n + 3), Code(parts, SubSeq(raw, 3, n + 2)))
     ELSE Parts(Tail(raw), Literal(parts, raw[1]))

parse_string_literal_parts(raw) == Parts(raw, <<>>)

-----------------------------------------------------------------------------
(* Tokens *)

\* A number, with a fraction where a digit follows the dot.
NumberLength(s) ==
  LET digit(c) == c \in Figures
      whole == Run(s, digit)
      fraction == Run(Skip(s, whole + 1), digit)
  IN IF Skip(s, whole) # <<>> /\ s[whole + 1] = "." /\ fraction > 0
     THEN whole + 1 + fraction ELSE whole

\* What is at the front of s: its type and length; nothing to emit is "none".
TokenAt(known, s) ==
  LET c == s[1]
      custom == IF is_op_char(c) THEN match_custom_op(known, s) ELSE 0
      is(type, length) == [type |-> type, length |-> length]
  IN IF c \in Blanks THEN is("none", 1)
     ELSE IF IsPrefix(<<"/", "/">>, s) THEN is("none", Run(s, LAMBDA d : d # Newline))
     ELSE IF custom > 0 THEN is("T_CUSTOMOP", custom)
     ELSE IF c = Quote THEN is("T_STRING", Len(s) - Len(read_string_body(Tail(s)).rest))
     ELSE IF c \in Figures
          THEN is(IF \E i \in 1..NumberLength(s) : s[i] = "." THEN "T_FLOAT" ELSE "T_INT",
                  NumberLength(s))
     ELSE IF c \in Letters THEN is("T_IDENT", Run(s, LAMBDA d : d \in Wordly))
     ELSE IF \E p \in Pairs : IsPrefix(p, s) THEN is("sign", 2)
     ELSE IF c \in Singles \cup Brackets THEN is("sign", 1)
     ELSE is("unexpected character", 0)

RECURSIVE Tokens(_, _, _)
\* The tokens of s; an unexpected character ends the compiler.
Tokens(known, s, line) ==
  IF s = <<>> THEN <<>>
  ELSE LET t == TokenAt(known, s)
           body == read_string_body(Tail(s))
           text == IF t.type = "T_STRING" THEN body.text ELSE Take(s, t.length)
           end == line + (IF t.type = "T_STRING" THEN body.lines
                          ELSE IF s[1] = Newline THEN 1 ELSE 0)
           token == [type |-> t.type, text |-> text, line |-> end]
       IN IF t.length = 0 THEN <<token>>
          ELSE (IF t.type = "none" THEN <<>> ELSE <<token>>)
                 \o Tokens(known, Skip(s, t.length), end)

\* With the operators that were known before, and those of the text.
lex_all(known, s) == Tokens(known \cup prescan_custom_ops(s), s, 1)
=============================================================================
