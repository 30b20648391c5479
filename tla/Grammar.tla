------------------------------- MODULE Grammar -------------------------------
(***************************************************************************)
(* How a tree of Syntax is written, from what the documents say of Oboe's   *)
(* syntax (SPEC.md:97, 314, 345, compiler/README.md:109): the operators     *)
(* from the weakest to the strongest, with parentheses only where they are  *)
(* needed, a line for each statement, and semicolons or none.               *)
(***************************************************************************)
EXTENDS Syntax, FiniteSetsExt, SequencesExt

\* Strengths: 0 for an assignment, 1 for a conditional, then these.
Binary == <<{"??"}, {"||"}, {"&&"}, {"<+>"}, {"|"}, {"^"}, {"&"}, {"==", "!="},
            {"<", "<=", ">", ">="}, {"is"}, {"<<", ">>"}, {"+", "-"}, {"*", "/", "%", "x"}>>
Conditional == 1
Unary == Len(Binary) + 2
Postfixed == Unary + 1

Names == {"a", "b", "c", "f", "x", "y", "E", "T", "m", "this"}
Token(is, text) == <<[is |-> is, text |-> text]>>
Sign(s) == Token(s, s)
Word(s) == IF s \in Names THEN Token("IDENT", s)
           ELSE IF s = "<+>" THEN Token("CUSTOMOP", s)
           ELSE IF s = "1" THEN Token("INT", s)
           ELSE IF s = "" THEN <<>> ELSE Sign(s)
NewLine == Sign("newline")

RECURSIVE Commas(_)
Commas(parts) == IF Len(parts) <= 1 THEN FlattenSeq(parts)
                 ELSE parts[1] \o Sign(",") \o Commas(Tail(parts))

StrengthOf(op) == CHOOSE p \in DOMAIN Binary : op \in Binary[p]

RECURSIVE Expression(_, _)
\* An expression where one of strength p or more must stand.
Expression(n, p) ==
  LET K(k, q) == Expression(n.kids[k], q)
      All == Commas([k \in DOMAIN n.kids |-> K(k, IF n.op = "args" THEN Conditional ELSE 0)])
      In(strength, ts) == IF strength < p THEN Sign("(") \o ts \o Sign(")") ELSE ts
  IN CASE n.kids = <<>> /\ n.op \notin {"array", "dict", "args"} -> Word(n.op)
       [] n.op = "string" -> Token("STRING", n.kids[1].op)
       [] n.op = "=" -> In(0, K(1, 1) \o Sign("=") \o K(2, 0))
       [] n.op = "?" -> In(Conditional, K(1, 2) \o Sign("?") \o K(2, 1) \o Sign(":") \o K(3, 1))
       [] n.op = "is" -> In(StrengthOf("is") + 1,
                            K(1, StrengthOf("is") + 2) \o Sign("is") \o K(2, 0))
       [] n.op \in {".", "?."} -> K(1, Postfixed) \o Sign(n.op) \o K(2, 0)
       [] n.op = "call" -> K(1, Postfixed) \o K(2, 0)
       [] n.op = "args" -> Sign("(") \o All \o Sign(")")
       [] n.op = "index" -> K(1, Postfixed) \o Sign("[") \o K(2, 0) \o Sign("]")
       [] n.op = "array" -> Sign("[") \o All \o Sign("]")
       [] n.op = "dict" -> Sign("{") \o All \o Sign("}")
       [] n.op = "pair" -> K(1, 0) \o Sign(":") \o K(2, 0)
       [] n.op = "by name" -> K(1, 0) \o Sign("=") \o K(2, 0)
       [] Len(n.kids) = 1 -> In(Unary, Sign(n.op) \o K(1, Unary))
       [] OTHER -> LET q == StrengthOf(n.op) + 1
                   IN In(q, K(1, q) \o (IF n.op = "x" THEN Token("IDENT", "x") ELSE Word(n.op))
                              \o K(2, q + 1))

\* A body with its doc.
Documented(doc, block) ==
  IF doc = None THEN block ELSE Node("block", <<Node("expr", <<doc>>)>> \o block.kids)

RECURSIVE Written(_, _)
\* A statement or declaration, semi behind it where one may stand.
Written(n, semi) ==
  LET S(k) == Written(n.kids[k], semi)
      X(k) == Expression(n.kids[k], 0)
      Each == FlattenSeq([k \in DOMAIN n.kids |-> S(k)])
      Opt(sign, k) == IF n.kids[k] = None THEN <<>> ELSE Sign(sign) \o X(k)
  IN CASE n.kids = <<>> /\ n.op \in Names -> Word(n.op)
       [] n.op = "typed" -> X(1) \o X(2)
       [] n.op = "block" ->
            Sign("{") \o FlattenSeq([k \in DOMAIN n.kids |-> NewLine \o S(k)]) \o NewLine \o Sign("}")
       [] n.op \in {"var", "const"} /\ n.kids # <<>> ->
            (IF n.op = "var" /\ n.kids[1].op = "typed" /\ n.kids[2] # None THEN <<>> ELSE Sign(n.op))
              \o S(1) \o Opt("=", 2) \o semi
       [] n.op = "expr" -> X(1) \o semi
       [] n.op = "return" -> Sign("return") \o X(1) \o semi
       [] n.op \in {"break", "continue"} -> Sign(n.op) \o semi
       [] n.op = "throw" ->
            Sign("throw") \o S(1) \o (IF n.kids[2] = None THEN <<>>
                                        ELSE Sign("(") \o X(2) \o Sign(")")) \o semi
       [] n.op = "type" -> FlattenSeq([k \in DOMAIN n.kids |->
                                         (IF k = 1 THEN <<>> ELSE Sign(".")) \o X(k)])
       [] n.op \in {"if", "while"} ->
            Sign(n.op) \o Sign("(") \o X(1) \o Sign(")") \o S(2)
              \o (IF n.op = "while" \/ n.kids[3] = None THEN <<>>
                  ELSE Sign("else") \o (IF n.kids[3].kids # <<>> /\ n.kids[3].kids[1].op = "if"
                                          THEN Written(n.kids[3].kids[1], semi) ELSE S(3)))
       [] n.op = "for" -> Sign("for") \o Sign("(") \o S(1) \o Sign("in") \o S(2) \o Sign(")") \o S(3)
       [] n.op = "vars" -> Commas([k \in DOMAIN n.kids |-> X(k)])
       [] n.op = "each" -> X(1)
       [] n.op \in {"range", "pairs", "ipairs"} ->
            Token("IDENT", n.op) \o Sign("(") \o Commas([k \in DOMAIN n.kids |-> X(k)]) \o Sign(")")
       [] n.op = "switch" -> Sign("switch") \o X(1) \o S(2)
       [] n.op = "case" -> Sign("case") \o X(1) \o S(2)
       [] n.op = "try" -> Sign("try") \o S(1) \o S(2)
                            \o (IF n.kids[3].kids = <<>> THEN <<>> ELSE Sign("finally") \o S(3))
       [] n.op = "catches" -> Each
       [] n.op = "catch" -> Sign("catch") \o Sign("(") \o S(1) \o X(2) \o Sign(")") \o S(3)
       [] n.op = "params" -> Sign("(") \o Commas([k \in DOMAIN n.kids |-> S(k)]) \o Sign(")")
       [] n.op = "param" -> S(1) \o Opt("=", 2)
       [] n.op = "func" -> X(1) \o Sign("func") \o X(2) \o S(3)
                             \o Written(Documented(n.kids[4], n.kids[5]), semi)
       [] n.op = "operator" -> Sign("operator") \o X(1) \o S(2)
                                 \o Written(Documented(n.kids[3], n.kids[4]), semi)
       [] n.op = "class" ->
            Sign("class") \o X(1) \o Opt("extends", 2) \o Sign("{") \o X(3)
              \o FlattenSeq([k \in DOMAIN n.kids[4].kids |-> NewLine \o Written(n.kids[4].kids[k], semi)])
              \o Sign("}")
       [] n.op = "member" -> S(1) \o S(2)
       [] n.op = "modifiers" -> FlattenSeq([k \in DOMAIN n.kids |-> Sign(n.kids[k].op)])
       [] n.op = "import" -> Sign("import") \o X(1) \o Opt("as", 2) \o semi
       [] n.op = "from" -> Sign("import") \o Commas([k \in 1..Len(n.kids) - 1 |-> X(k + 1)])
                             \o Sign("from") \o X(1) \o semi
       [] n.op = "cimport" -> Sign("cimport") \o X(1) \o Sign("from")
                                \o Token("STRING", n.kids[2].op) \o semi
       [] n.op = "event" -> Sign("event") \o X(1) \o Sign("=") \o Sign("event") \o S(2) \o semi
       [] n.op = "on" -> Sign("on") \o (IF n.kids[1] = None THEN <<>> ELSE X(1) \o Sign("."))
                           \o X(2) \o Opt("as", 3) \o S(4)
       [] OTHER -> X(1)

\* The tokens of a file, each with its line.
Source(program, semi) ==
  LET Put(r, tk) == IF tk.is = "newline" THEN [r EXCEPT !.line = @ + 1]
                    ELSE [r EXCEPT !.out = Append(@, [is |-> tk.is, text |-> tk.text, line |-> r.line])]
      ts == FlattenSeq([k \in DOMAIN program.kids |-> Written(program.kids[k], semi) \o NewLine])
  IN FoldLeft(Put, [line |-> 1, out |-> <<>>], ts \o <<[is |-> "EOF", text |-> ""]>>).out

-----------------------------------------------------------------------------
(* Where a line does not end a statement *)

RECURSIVE Closed(_)
\* Behind the type of an `is' no operand goes on.
Closed(e) ==
  \/ e.op = "is"
  \/ e.op \in {"=", "?"} \cup UNION {Binary[p] : p \in 1..StrengthOf("is") - 1} /\ Closed(Last(e.kids))

\* The expression s ends in, if it does.
EndValue(s) == IF s.op \in {"expr", "return"} THEN s.kids[1]
            ELSE IF s.op \in {"var", "const"} /\ s.kids # <<>> THEN s.kids[2]
            ELSE None

BareReturn == Node("return", <<None>>)

\* Without a semicolon, s may go on with what follows it.
GoesOn(s, next) ==
  LET first == Written(next, <<>>)[1]
  IN \/ EndValue(s) # None /\ ~Closed(EndValue(s)) /\ (first.is \in {"(", "[", "-"} \/ first.text = "x")
     \/ s = BareReturn
     \/ s.op = "throw" /\ s.kids[2] = None /\ first.is = "("
     \/ s.op = "expr" /\ s.kids[1].kids = <<>>
          /\ (first.is = "func" \/ (next.op = "expr" /\ next.kids[1].op = "="))

RECURSIVE LinesEnd(_)
\* No statement of the tree goes on.
LinesEnd(n) ==
  /\ \A k \in DOMAIN n.kids : LinesEnd(n.kids[k])
  /\ n.op = "block" => \A k \in 1..Len(n.kids) - 1 : ~GoesOn(n.kids[k], n.kids[k + 1])

\* Nor is the end of the file taken for a value to return.
FileEnds(program) == LinesEnd(program) /\ Last(program.kids) # BareReturn
=============================================================================
