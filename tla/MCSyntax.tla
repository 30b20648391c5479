------------------------------ MODULE MCSyntax ------------------------------
(***************************************************************************)
(* What the compiler reads: every short text and string literal, every     *)
(* expression of up to two operators, and pairs of declarations and        *)
(* statements.                                                             *)
(***************************************************************************)
EXTENDS Lexer, Grammar

CONSTANTS TextMax, LiteralMax

Known == {<<"|", "|", ">">>, <<"-", "-">>, <<"-", ">", "-">>, <<"@">>}

Texts == BoundedSeq({"a", "1", ".", "-", ">", "|", "@", "/", Newline}, TextMax)
Declared == BoundedSeq({"operator", "a", "|", "-", "/", " ", Newline}, TextMax)
Literals == BoundedSeq({"a", "n", "\\", "$", "{", "}", Quote}, LiteralMax)

VARIABLES text, literal

NoText == text = <<>>
NoLiteral == literal = <<>>

LexerInit == \/ text \in Texts \cup Declared /\ NoLiteral
             \/ literal \in Literals /\ NoText

\* s spells one token.
Spells(s) ==
  LET digits(r) == r # <<>> /\ Range(r) \subseteq Figures
  IN \/ s \in Known \cup Pairs \cup prescan_custom_ops(text) \cup {<<c>> : c \in Singles}
     \/ s[1] \in Letters /\ Range(s) \subseteq Wordly
     \/ digits(s)
     \/ \E i \in DOMAIN s : s[i] = "." /\ digits(Take(s, i - 1)) /\ digits(Skip(s, i))

RECURSIVE Longest(_)
\* The longest token at the front, then those of the rest; a comment and
\* blanks are none.
Longest(s) ==
  IF s = <<>> THEN <<>>
  ELSE IF s[1] \in Blanks THEN Longest(Tail(s))
  ELSE IF IsPrefix(<<"/", "/">>, s) THEN Longest(Skip(s, Run(s, LAMBDA c : c # Newline)))
  ELSE LET n == Max({0} \cup {k \in DOMAIN s : Spells(Take(s, k))})
       IN IF n = 0 THEN <<>> ELSE <<Take(s, n)>> \o Longest(Skip(s, n))

\* A text is lexed from left to right, each token the longest that stands there:
\* `|||>' with `||>' known is `|' and `||>' only where `|||>' is not, `1..n' is a
\* number and two dots, and an operator that somebody declares cannot end one that
\* is longer (lexer.c:169-182, 313-320, 330-358).
TakesTheLongest ==
  ~NoText => \E tokens \in {lex_all(Known, text)} :
               [i \in DOMAIN tokens |-> tokens[i].text] = Longest(text)

\* The scan of the text and the tokens agree on what `operator' declares, or a
\* declaration would be parsed with pieces of its own symbol: whatever the scan
\* registers stands as one token behind the word, and whatever custom operator
\* stands there was registered.  Texts with a comment are left out: the scan reads
\* those too.
RegistersDeclared ==
  LET comment == \E i \in 2..Len(text) : text[i - 1] = "/" /\ text[i] = "/"
  IN NoText \/ comment \/ \E tokens \in {lex_all({}, text)} :
       prescan_custom_ops(text) = {tokens[i].text : i \in {j \in DOMAIN tokens :
         /\ tokens[j].type = "T_CUSTOMOP"
         /\ j > 1 /\ tokens[j - 1].text = <<"operator">>}}

\* What a literal means, read once from left to right: an escape is a character
\* whatever follows it.
RECURSIVE Meant(_, _)
Meant(s, parts) ==
  LET n == ToBrace(Skip(s, 2), 1)
  IN IF s = <<>> THEN parts
     ELSE IF s[1] = "\\" THEN Meant(Skip(s, 2), Literal(parts, Decoded(s[2])))
     ELSE IF Opens(s) THEN Meant(Skip(s, n + 3), Code(parts, SubSeq(s, 3, n + 2)))
     ELSE Meant(Tail(s), Literal(parts, s[1]))

\* A dollar and a brace stand together in s, and one of them is an escape.
RECURSIVE Forged(_)
Forged(s) ==
  LET n == IF Opens(s) THEN ToBrace(Skip(s, 2), 1) + 3 ELSE IF s[1] = "\\" THEN 2 ELSE 1
      rest == Skip(s, n)
  IN s # <<>> /\ \/ /\ ~Opens(s) /\ s[n] = "$"
                    /\ rest # <<>> /\ (rest[1] = "{" \/ IsPrefix(<<"\\", "{">>, rest))
                    /\ ~(n = 1 /\ rest[1] = "{")
                 \/ Forged(rest)

\* Decoding a literal and cutting it at its interpolations are two passes
\* (lexer.c:207-289, parser.c:93-149).  They agree with one pass exactly on the
\* literals in which no escape makes a `${': there the second pass takes for an
\* interpolation what was written as text.
StringMeans ==
  ~NoLiteral => \E body \in {read_string_body(literal \o <<Quote, Newline>>)} :
     body.rest = <<Newline>> =>
       (parse_string_literal_parts(body.text) = Meant(literal, <<>>) <=> ~Forged(literal))

\* A text is cut into the tokens, and a literal into the pieces, that a reader sees
\* in them (lexer.c, parse_string_literal_parts).
LexedAsMeant == TakesTheLongest /\ RegistersDeclared /\ StringMeans

-----------------------------------------------------------------------------

A == Leaf("a")
B == Leaf("b")
C == Leaf("c")

\* Every kind of expression over the operands p, q and r.
Forms(p, q, r) ==
  {Node(op, <<p, q>>) : op \in UNION Range(Binary) \ {"is"}}
    \cup {Node(op, <<p>>) : op \in {"!", "-", "~"}}
    \cup {Node("?", <<p, q, r>>), Node("=", <<p, q>>), Node("is", <<p, Leaf("T")>>),
          Node(".", <<p, Leaf("f")>>), Node("?.", <<p, Leaf("f")>>), Node("index", <<p, q>>),
          Node("call", <<p, Node("args", <<q, Node("by name", <<Leaf("x"), r>>)>>)>>),
          Node("array", <<p, q>>), Node("dict", <<Node("pair", <<p, q>>)>>)}

One == Forms(A, B, C)
Two == UNION {Forms(e, B, C) \cup Forms(A, e, C) \cup Forms(A, B, e) : e \in One}

Block(s) == Node("block", s)
Expr(e) == Node("expr", <<e>>)
X == Expr(Node("=", <<Leaf("x"), Leaf("1")>>))
Params == Node("params", <<Node("param", <<Node("typed", <<Leaf("T"), A>>), None>>),
                           Node("param", <<B, Leaf("1")>>)>>)
Thrown == Node("type", <<Leaf("m"), Leaf("E")>>)
Empty == Block(<<>>)
Doc == Node("string", <<Leaf("text")>>)
Members ==
  Block(<<Node("member", <<Node("modifiers", <<Leaf("static")>>), Node("var", <<A, None>>)>>),
          Node("member", <<Node("modifiers", <<>>), Node("var", <<Node("typed", <<Leaf("T"), B>>), B>>)>>),
          Node("member", <<Node("modifiers", <<Leaf("private")>>),
                                   Node("func", <<Leaf("T"), Leaf("f"), Params, Doc, Empty>>)>>)>>)

Statements ==
  { Node("var", <<A, None>>), Node("var", <<A, B>>), Node("var", <<Node("typed", <<Leaf("T"), A>>), B>>),
    Node("const", <<A, Node("is", <<B, Leaf("T")>>)>>), X, Expr(A), Expr(Node("=", <<B, C>>)),
    Expr(Node("call", <<A, Node("args", <<>>)>>)), Expr(Node("-", <<A>>)),
    Expr(Node("index", <<Node("array", <<A>>), B>>)), Expr(Node(".", <<Node("+", <<A, B>>), C>>)),
    Node("return", <<None>>), Node("return", <<A>>), Leaf("break"),
    Node("throw", <<Thrown, None>>), Node("throw", <<Thrown, A>>),
    Node("if", <<A, Block(<<X>>), None>>),
    Node("if", <<A, Empty, Block(<<Node("if", <<B, Empty, Block(<<X>>)>>)>>)>>),
    Node("while", <<A, Block(<<Leaf("continue")>>)>>),
    Node("for", <<Node("vars", <<A>>), Node("each", <<B>>), Empty>>),
    Node("for", <<Node("vars", <<A>>), Node("range", <<B, C>>), Empty>>),
    Node("for", <<Node("vars", <<A, B>>), Node("pairs", <<C>>), Empty>>),
    Node("switch", <<A, Block(<<Node("case", <<B, Empty>>), Node("case", <<C, Block(<<X>>)>>)>>)>>),
    Node("try", <<Block(<<X>>), Node("catches", <<Node("catch", <<Thrown, A, Empty>>)>>), Block(<<X>>)>>),
    Node("try", <<Empty, Node("catches", <<>>), Block(<<X>>)>>), Block(<<X, X>>) }

Declarations ==
  { Node("func", <<None, Leaf("f"), Params, None, Block(<<X>>)>>),
    Node("func", <<Leaf("T"), Leaf("f"), Node("params", <<>>), Doc, Empty>>),
    Node("operator", <<Leaf("<+>"), Params, None, Empty>>),
    Node("class", <<Leaf("T"), Leaf("E"), Doc, Members>>), Node("class", <<Leaf("T"), None, None, Empty>>),
    Node("import", <<Leaf("m"), None>>), Node("import", <<Leaf("m"), Leaf("a")>>),
    Node("from", <<Leaf("m"), A, B>>), Node("from", <<Leaf("m"), A>>),
    Node("cimport", <<A, Leaf("lib")>>), Node("event", <<Leaf("E"), Params>>),
    Node("on", <<Leaf("m"), Leaf("E"), A, Block(<<X>>)>>), Node("on", <<None, Leaf("E"), None, Empty>>) }

\* Statements stand in a file and in a block.
Programs ==
  {Block(<<Node("return", <<e>>)>>) : e \in One \cup Two}
    \cup {Block(<<p, q>>) : p, q \in Statements \cup Declarations}
    \cup {Block(<<Node("while", <<A, Block(<<p, q>>)>>)>>) : p, q \in Statements}

VARIABLES program, semi

SyntaxInit == program \in Programs /\ semi = Sign(";")

NoSyntax == program = Block(<<X>>) /\ semi = <<>>

\* The same, without semicolons.
Bare == semi # <<>> /\ semi' = <<>> /\ UNCHANGED program

(***************************************************************************)
(* The parser reads back every tree that is written with as few parentheses *)
(* as the documented strengths of the operators allow.  Without semicolons  *)
(* it does so exactly when no line goes on with what the next one begins    *)
(* with, and GoesOn names all of those: there is no other way to write two  *)
(* lines that are taken for one (parser.c:274, 343, 624, 914, 1258).        *)
(***************************************************************************)
ReadsBack ==
  ~NoSyntax =>
    ((semi # <<>> \/ FileEnds(program)) <=>
       \E t \in {Source(program, semi)} : \E r \in {parse_program(t)} :
          r.ok /\ r.node = program)
=============================================================================
