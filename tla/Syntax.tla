------------------------------- MODULE Syntax -------------------------------
(***************************************************************************)
(* The parser (compiler/legacy/parser.c, which selfhost/parser.oboe repeats *)
(* in Oboe): expressions, statements and declarations read from a sequence  *)
(* of tokens.  A token is [is, text, line], its type, its text if it is a   *)
(* name or a literal, and its line; the last is of type "EOF".  A tree is   *)
(* [op, kids].  A parse function takes the tokens and a position; it gives  *)
(* a tree and the position behind it, or fails, which ends the compiler.    *)
(***************************************************************************)
EXTENDS Integers, Sequences

Node(op, kids) == [op |-> op, kids |-> kids]
Leaf(text) == Node(text, <<>>)
None == Leaf("")

Ok(node, i) == [ok |-> TRUE, node |-> node, i |-> i]
Fail == [ok |-> FALSE, node |-> None, i |-> 0]

\* r, then F with its tree and position; r is evaluated once.
Then(r, F(_, _)) ==
  CHOOSE q \in {IF s.ok THEN F(s.node, s.i) ELSE s : s \in {r}} : TRUE

\* peekAt, which stays at the last token.
At(t, i) == t[IF i > Len(t) THEN Len(t) ELSE i]
Is(t, i, type) == At(t, i).is = type
IsName(t, i) == Is(t, i, "IDENT")
Name(t, i) == Leaf(At(t, i).text)

\* expect, where nothing is made of the token.
Expect(t, i, type, r) == IF Is(t, i, type) THEN r ELSE Fail

\* match: behind the token if it is there.
Past(t, i, type) == IF Is(t, i, type) THEN i + 1 ELSE i

RECURSIVE parse_expression(_, _), parse_statement(_, _), parse_unary(_, _), parse_level(_, _, _),
          parse_ternary(_, _), parse_if(_, _)

-----------------------------------------------------------------------------
(* Lists *)

RECURSIVE Items(_, _, _, _, _, _)
\* One or more items, read by Item, with commas between them, and the close.
Items(Item(_, _), op, sofar, t, i, close) ==
  Then(Item(t, i), LAMBDA e, j :
    IF Is(t, j, ",") THEN Items(Item, op, Append(sofar, e), t, j + 1, close)
    ELSE Expect(t, j, close, Ok(Node(op, Append(sofar, e)), j + 1)))

List(Item(_, _), op, t, i, close) ==
  IF Is(t, i, close) THEN Ok(Node(op, <<>>), i + 1) ELSE Items(Item, op, <<>>, t, i, close)

\* `name = value' in a call binds a parameter.
parse_arg(t, i) ==
  IF IsName(t, i) /\ Is(t, i + 1, "=")
  THEN Then(parse_expression(t, i + 2), LAMBDA e, j : Ok(Node("by name", <<Name(t, i), e>>), j))
  ELSE parse_expression(t, i)

parse_pair(t, i) ==
  Then(parse_expression(t, i), LAMBDA k, j :
    Expect(t, j, ":", Then(parse_expression(t, j + 1), LAMBDA v, l : Ok(Node("pair", <<k, v>>), l))))

-----------------------------------------------------------------------------
(* Expressions *)

parse_primary(t, i) ==
  CASE At(t, i).is \in {"INT", "FLOAT", "true", "false", "null", "IDENT"} ->
         Ok(Name(t, i), i + 1)
    [] Is(t, i, "STRING") -> Ok(Node("string", <<Name(t, i)>>), i + 1)
    [] Is(t, i, "(") ->
         Then(parse_expression(t, i + 1), LAMBDA e, j : Expect(t, j, ")", Ok(e, j + 1)))
    [] Is(t, i, "[") -> List(parse_expression, "array", t, i + 1, "]")
    [] Is(t, i, "{") -> List(parse_pair, "dict", t, i + 1, "}")
    [] OTHER -> Fail

RECURSIVE Postfix(_, _, _)
Postfix(e, t, i) ==
  CASE At(t, i).is \in {".", "?."} ->
         Expect(t, i + 1, "IDENT", Postfix(Node(At(t, i).is, <<e, Name(t, i + 1)>>), t, i + 2))
    [] Is(t, i, "(") ->
         Then(List(parse_arg, "args", t, i + 1, ")"), LAMBDA a, j :
           Postfix(Node("call", <<e, a>>), t, j))
    [] Is(t, i, "[") ->
         Then(parse_expression(t, i + 1), LAMBDA x, j :
           Expect(t, j, "]", Postfix(Node("index", <<e, x>>), t, j + 1)))
    [] OTHER -> Ok(e, i)

parse_postfix(t, i) == Then(parse_primary(t, i), LAMBDA e, j : Postfix(e, t, j))

parse_unary(t, i) ==
  IF At(t, i).is \in {"!", "-", "~"}
  THEN Then(parse_unary(t, i + 1), LAMBDA e, j : Ok(Node(At(t, i).is, <<e>>), j))
  ELSE parse_postfix(t, i)

\* The operators of each level of the chain of parse functions.
parse_nullish == {"??"}
parse_or == {"||", "or"}
parse_and == {"&&", "and"}
parse_custom_op == {"CUSTOMOP"}
parse_bitor == {"|"}
parse_bitxor == {"^"}
parse_bitand == {"&"}
parse_equality == {"==", "!="}
parse_comparison == {"<", "<=", ">", ">="}
parse_is == {"is"}
parse_shift == {"<<", ">>"}
parse_additive == {"+", "-"}
parse_term == {"*", "/", "%", "x"}

\* A bug: & binds tighter than ==, as it does not in C.
Chain_swapped == <<parse_nullish, parse_or, parse_and, parse_custom_op, parse_bitor, parse_bitxor,
           parse_equality, parse_bitand, parse_comparison, parse_is, parse_shift,
           parse_additive, parse_term>>

Chain == <<parse_nullish, parse_or, parse_and, parse_custom_op, parse_bitor, parse_bitxor,
           parse_bitand, parse_equality, parse_comparison, parse_is, parse_shift,
           parse_additive, parse_term>>

\* x, the repetition operator, is a name to the lexer.
Operator(t, i) == IF IsName(t, i) /\ At(t, i).text = "x" THEN "x" ELSE At(t, i).is

\* What the tree calls it.
Spelled(t, i) == CASE Is(t, i, "or") -> "||"
                   [] Is(t, i, "and") -> "&&"
                   [] Is(t, i, "CUSTOMOP") -> At(t, i).text
                   [] OTHER -> Operator(t, i)

RECURSIVE Operands(_, _, _, _)
Operands(n, e, t, i) ==
  IF Operator(t, i) \notin Chain[n] THEN Ok(e, i)
  ELSE Then(parse_level(n + 1, t, i + 1), LAMBDA r, j :
         Operands(n, Node(Spelled(t, i), <<e, r>>), t, j))

\* parse_binary_level: operands of the next level, associated to the left.
\* `is' takes a type's name, once.
parse_level(n, t, i) ==
  IF n > Len(Chain) THEN parse_unary(t, i)
  ELSE Then(parse_level(n + 1, t, i), LAMBDA e, j :
         IF Chain[n] # parse_is THEN Operands(n, e, t, j)
         ELSE IF ~Is(t, j, "is") THEN Ok(e, j)
         ELSE Expect(t, j + 1, "IDENT", Ok(Node("is", <<e, Name(t, j + 1)>>), j + 2)))

parse_ternary(t, i) ==
  Then(parse_level(1, t, i), LAMBDA c, j :
    IF ~Is(t, j, "?") THEN Ok(c, j)
    ELSE Then(parse_ternary(t, j + 1), LAMBDA a, k :
           Expect(t, k, ":", Then(parse_ternary(t, k + 1), LAMBDA b, l :
             Ok(Node("?", <<c, a, b>>), l)))))

parse_expression(t, i) ==
  Then(parse_ternary(t, i), LAMBDA e, j :
    IF ~Is(t, j, "=") THEN Ok(e, j)
    ELSE Then(parse_expression(t, j + 1), LAMBDA v, k : Ok(Node("=", <<e, v>>), k)))

-----------------------------------------------------------------------------
(* Names, parameters and blocks *)

\* `type name' or `name'; both on one line.
parse_typed_name(t, i) ==
  Expect(t, i, "IDENT",
    IF IsName(t, i + 1) /\ At(t, i + 1).line = At(t, i).line
    THEN Ok(Node("typed", <<Name(t, i), Name(t, i + 1)>>), i + 2)
    ELSE Ok(Name(t, i), i + 1))

\* `= value', or nothing.
Default(t, i) == IF Is(t, i, "=") THEN parse_expression(t, i + 1) ELSE Ok(None, i)

parse_param(t, i) ==
  Then(parse_typed_name(t, Past(t, i, "var")), LAMBDA n, j :
    Then(Default(t, j), LAMBDA d, k : Ok(Node("param", <<n, d>>), k)))

\* Behind a default all have one, but for `this'.
DefaultsLast(params) ==
  LET this(n) == n.op = "this" \/ (n.op = "typed" /\ n.kids[2].op = "this")
  IN \A a, b \in DOMAIN params :
       a < b /\ params[a].kids[2] # None
         => params[b].kids[2] # None \/ this(params[b].kids[1])

parse_params(t, i) ==
  Expect(t, i, "(", Then(List(parse_param, "params", t, i + 1, ")"), LAMBDA p, j :
    IF DefaultsLast(p.kids) THEN Ok(p, j) ELSE Fail))

RECURSIVE Until(_, _, _, _, _)
\* What Item reads, again and again up to the close or the end.
Until(Item(_, _), sofar, t, i, close) ==
  IF Is(t, i, close) \/ Is(t, i, "EOF") THEN Expect(t, i, close, Ok(Node("block", sofar), i + 1))
  ELSE Then(Item(t, i), LAMBDA s, j : Until(Item, Append(sofar, s), t, j, close))

parse_block(t, i) == Expect(t, i, "{", Until(parse_statement, <<>>, t, i + 1, "}"))

-----------------------------------------------------------------------------
(* Statements *)

parse_let(t, i, op) ==
  Then(parse_typed_name(t, Past(t, i, "var")), LAMBDA n, j :
    Then(Default(t, j), LAMBDA v, k : Ok(Node(op, <<n, v>>), Past(t, k, ";"))))

\* `( expression )' and what follows.
Parenthesised(t, i, F(_, _)) ==
  Expect(t, i, "(", Then(parse_expression(t, i + 1), LAMBDA e, j :
    Expect(t, j, ")", F(e, j + 1))))

parse_if(t, i) ==
  Parenthesised(t, i, LAMBDA c, j : Then(parse_block(t, j), LAMBDA b, k :
    IF ~Is(t, k, "else") THEN Ok(Node("if", <<c, b, None>>), k)
    ELSE Then(IF Is(t, k + 1, "if")
              THEN Then(parse_if(t, k + 2), LAMBDA s, l : Ok(Node("block", <<s>>), l))
              ELSE parse_block(t, k + 1),
              LAMBDA e, l : Ok(Node("if", <<c, b, e>>), l))))

parse_while(t, i) ==
  Parenthesised(t, i, LAMBDA c, j :
    Then(parse_block(t, j), LAMBDA b, k : Ok(Node("while", <<c, b>>), k)))

\* range(), pairs() and ipairs() are the loop's, if a parenthesis follows.
Over(t, i) ==
  LET over == IF IsName(t, i) /\ Is(t, i + 1, "(") THEN At(t, i).text ELSE ""
  IN CASE over = "range" ->
            Then(List(parse_expression, "range", t, i + 2, ")"), LAMBDA r, j :
              IF Len(r.kids) = 2 THEN Ok(r, j) ELSE Fail)
       [] over \in {"pairs", "ipairs"} ->
            Parenthesised(t, i + 1, LAMBDA e, j : Ok(Node(over, <<e>>), j))
       [] OTHER -> Then(parse_expression(t, i), LAMBDA e, j : Ok(Node("each", <<e>>), j))

parse_for(t, i) ==
  LET two == Is(t, i + 2, ",")
      n == IF two THEN i + 4 ELSE i + 2
      vars == IF two THEN <<Name(t, i + 1), Name(t, i + 3)>> ELSE <<Name(t, i + 1)>>
  IN IF ~Is(t, i, "(") \/ ~IsName(t, i + 1) \/ (two /\ ~IsName(t, i + 3)) \/ ~Is(t, n, "in")
     THEN Fail
     ELSE Then(Over(t, n + 1), LAMBDA o, j :
            IF two # (o.op \in {"pairs", "ipairs"}) \/ ~Is(t, j, ")") THEN Fail
            ELSE Then(parse_block(t, j + 1), LAMBDA b, k :
                   Ok(Node("for", <<Node("vars", vars), o, b>>), k)))

parse_case(t, i) ==
  Expect(t, i, "case", Then(parse_expression(t, i + 1), LAMBDA v, j :
    Then(parse_block(t, j), LAMBDA b, k : Ok(Node("case", <<v, b>>), k))))

parse_switch(t, i) ==
  Then(parse_expression(t, i), LAMBDA e, j :
    Expect(t, j, "{", Then(Until(parse_case, <<>>, t, j + 1, "}"), LAMBDA c, k :
      Ok(Node("switch", <<e, c>>), k))))

RECURSIVE Dotted(_, _, _)
\* The type of an exception: names with dots between them.
Dotted(sofar, t, i) ==
  IF Is(t, i, ".") /\ IsName(t, i + 1) THEN Dotted(Append(sofar, Name(t, i + 1)), t, i + 2)
  ELSE Ok(Node("type", sofar), i)

ExceptionType(t, i) == Expect(t, i, "IDENT", Dotted(<<Name(t, i)>>, t, i + 1))

RECURSIVE Catches(_, _, _)
Catches(sofar, t, i) ==
  IF ~Is(t, i, "catch") THEN Ok(Node("catches", sofar), i)
  ELSE Expect(t, i + 1, "(", Then(ExceptionType(t, i + 2), LAMBDA e, j :
         IF ~IsName(t, j) \/ ~Is(t, j + 1, ")") THEN Fail
         ELSE Then(parse_block(t, j + 2), LAMBDA b, k :
                Catches(Append(sofar, Node("catch", <<e, Name(t, j), b>>)), t, k))))

parse_try(t, i) ==
  Then(parse_block(t, i), LAMBDA b, j : Then(Catches(<<>>, t, j), LAMBDA c, k :
    IF ~Is(t, k, "finally") THEN Ok(Node("try", <<b, c, Node("block", <<>>)>>), k)
    ELSE Then(parse_block(t, k + 1), LAMBDA f, l : Ok(Node("try", <<b, c, f>>), l))))

parse_throw(t, i) ==
  Then(ExceptionType(t, i), LAMBDA e, j :
    CASE ~Is(t, j, "(") -> Ok(Node("throw", <<e, None>>), Past(t, j, ";"))
      [] Is(t, j, "(") /\ Is(t, j + 1, ")") -> Ok(Node("throw", <<e, None>>), Past(t, j + 2, ";"))
      [] OTHER -> Parenthesised(t, j, LAMBDA v, k : Ok(Node("throw", <<e, v>>), Past(t, k, ";"))))

parse_expr_stmt(t, i) ==
  Then(parse_expression(t, i), LAMBDA e, j : Ok(Node("expr", <<e>>), Past(t, j, ";")))

parse_statement(t, i) ==
  CASE Is(t, i, "var") /\ IsName(t, i + 1) /\ Is(t, i + 2, ".") -> parse_expr_stmt(t, i + 1)
    [] Is(t, i, "var") /\ ~(IsName(t, i + 1) /\ Is(t, i + 2, ".")) -> parse_let(t, i + 1, "var")
    [] Is(t, i, "const") -> parse_let(t, i + 1, "const")
    [] IsName(t, i) /\ IsName(t, i + 1) /\ Is(t, i + 2, "=") -> parse_let(t, i, "var")
    [] Is(t, i, "return") ->
         IF At(t, i + 1).is \in {"}", ";"}
         THEN Ok(Node("return", <<None>>), Past(t, i + 1, ";"))
         ELSE Then(parse_expression(t, i + 1), LAMBDA e, j :
                Ok(Node("return", <<e>>), Past(t, j, ";")))
    [] Is(t, i, "if") -> parse_if(t, i + 1)
    [] Is(t, i, "while") -> parse_while(t, i + 1)
    [] Is(t, i, "for") -> parse_for(t, i + 1)
    [] Is(t, i, "switch") -> parse_switch(t, i + 1)
    [] Is(t, i, "try") -> parse_try(t, i + 1)
    [] Is(t, i, "throw") -> parse_throw(t, i + 1)
    [] At(t, i).is \in {"break", "continue"} -> Ok(Leaf(At(t, i).is), Past(t, i + 1, ";"))
    [] Is(t, i, "{") -> parse_block(t, i)
    [] OTHER -> parse_expr_stmt(t, i)

-----------------------------------------------------------------------------
(* Declarations *)

\* A string that comes first in a body is its doc.  Gives <<doc, block>>.
take_doc(block) ==
  LET b == block.kids
  IN IF b # <<>> /\ b[1].op = "expr" /\ b[1].kids[1].op = "string"
     THEN <<b[1].kids[1], Node("block", Tail(b))>>
     ELSE <<None, block>>

\* Parameters and a body.
Signature(t, i, op, head) ==
  Then(parse_params(t, i), LAMBDA p, j : Then(parse_block(t, j), LAMBDA b, k :
    Ok(Node(op, head \o <<p>> \o take_doc(b)), k)))

\* `[Type] func name'
IsFunc(t, i) == Is(t, i, "func") \/ (IsName(t, i) /\ Is(t, i + 1, "func"))

parse_func(t, i) ==
  LET j == IF IsName(t, i) THEN i + 2 ELSE i + 1
  IN Expect(t, j, "IDENT",
       Signature(t, j + 1, "func", <<IF IsName(t, i) THEN Name(t, i) ELSE None, Name(t, j)>>))

\* A symbol is any token with a text, parentheses apart.
parse_operator_decl(t, i) ==
  IF At(t, i).text = "" \/ Is(t, i, "(") THEN Fail
  ELSE Signature(t, i + 1, "operator", <<Name(t, i)>>)

RECURSIVE Modifiers(_, _, _)
Modifiers(sofar, t, i) ==
  IF At(t, i).is \in {"static", "private"}
  THEN Modifiers(Append(sofar, Leaf(At(t, i).is)), t, i + 1)
  ELSE Ok(Node("modifiers", sofar), i)

parse_member(t, i) ==
  Then(Modifiers(<<>>, t, i), LAMBDA m, j : Then(
    CASE IsFunc(t, j) -> parse_func(t, j)
      [] Is(t, j, "operator") -> parse_operator_decl(t, j + 1)
      [] Is(t, j, "const") -> parse_let(t, j + 1, "const")
      [] Is(t, j, "var") -> parse_let(t, j + 1, "var")
      [] IsName(t, j) /\ IsName(t, j + 1) -> parse_let(t, j, "var")
      [] OTHER -> Fail,
    LAMBDA e, k : Ok(Node("member", <<m, e>>), k)))

parse_class(t, i) ==
  LET extends == Is(t, i + 1, "extends")
      j == IF extends THEN i + 3 ELSE i + 1
      doc == Is(t, j + 1, "STRING")
  IN IF ~IsName(t, i) \/ (extends /\ ~IsName(t, i + 2)) \/ ~Is(t, j, "{") THEN Fail
     ELSE Then(Until(parse_member, <<>>, t, IF doc THEN j + 2 ELSE j + 1, "}"), LAMBDA b, k :
            Ok(Node("class", <<Name(t, i), IF extends THEN Name(t, i + 2) ELSE None,
                               IF doc THEN Node("string", <<Name(t, j + 1)>>) ELSE None, b>>), k))

RECURSIVE NamesFrom(_, _)
\* Behind names with commas between them.
NamesFrom(t, i) == IF Is(t, i + 1, ",") /\ IsName(t, i + 2) THEN NamesFrom(t, i + 2) ELSE i + 1

\* `a, b from module' or `module [as name]'.
parse_import(t, i) ==
  LET from == NamesFrom(t, i)
      alias == Is(t, i + 1, "as")
  IN IF ~IsName(t, i) THEN Fail
     ELSE IF Is(t, from, "from")
     THEN Expect(t, from + 1, "IDENT",
            Ok(Node("from", <<Name(t, from + 1)>>
                              \o [n \in 1..(from - i + 1) \div 2 |-> Name(t, i + 2 * n - 2)]),
               Past(t, from + 2, ";")))
     ELSE IF alias
     THEN Expect(t, i + 2, "IDENT",
            Ok(Node("import", <<Name(t, i), Name(t, i + 2)>>), Past(t, i + 3, ";")))
     ELSE Ok(Node("import", <<Name(t, i), None>>), Past(t, i + 1, ";"))

parse_cimport(t, i) ==
  IF IsName(t, i) /\ Is(t, i + 1, "from") /\ Is(t, i + 2, "STRING")
  THEN Ok(Node("cimport", <<Name(t, i), Name(t, i + 2)>>), Past(t, i + 3, ";"))
  ELSE Fail

\* `event Name = event(parameters)'
parse_event(t, i) ==
  IF IsName(t, i) /\ Is(t, i + 1, "=") /\ Is(t, i + 2, "event")
  THEN Then(parse_params(t, i + 3), LAMBDA p, j :
         Ok(Node("event", <<Name(t, i), p>>), Past(t, j, ";")))
  ELSE Fail

\* `on [module.]Event [as e] { ... }'
parse_on(t, i) ==
  LET dot == Is(t, i + 1, ".")
      e == IF dot THEN i + 2 ELSE i
      as == Is(t, e + 1, "as")
  IN IF ~IsName(t, i) \/ ~IsName(t, e) \/ (as /\ ~IsName(t, e + 2)) THEN Fail
     ELSE Then(parse_block(t, IF as THEN e + 3 ELSE e + 1), LAMBDA b, j :
            Ok(Node("on", <<IF dot THEN Name(t, i) ELSE None, Name(t, e),
                            IF as THEN Name(t, e + 2) ELSE None, b>>), j))

parse_declaration(t, i) ==
  CASE Is(t, i, "import") -> parse_import(t, i + 1)
    [] Is(t, i, "cimport") -> parse_cimport(t, i + 1)
    [] Is(t, i, "operator") -> parse_operator_decl(t, i + 1)
    [] Is(t, i, "event") -> parse_event(t, i + 1)
    [] Is(t, i, "on") -> parse_on(t, i + 1)
    [] Is(t, i, "class") -> parse_class(t, i + 1)
    [] IsFunc(t, i) -> parse_func(t, i)
    [] OTHER -> parse_statement(t, i)

\* The declarations of a file, in a block.
parse_program(t) == Until(parse_declaration, <<>>, t, 1, "EOF")
=============================================================================
