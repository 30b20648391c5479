------------------------------ MODULE MCControl ------------------------------
(* Small programs for TLC: a try with every way to leave it, in a loop and a try. *)
EXTENDS Meaning, TLC

\* Each statement marks what it prints by a number of its own.
Exits == {<<Do(1)>>, <<Throw("A")>>, <<Throw("B")>>, <<Return>>, <<Break>>, <<Continue>>,
          <<Call("f")>>}
Catches == {<<>>} \cup {<<Catch("A", c)>> : c \in {<<Do(2)>>, <<Throw("B")>>, <<Return>>, <<Break>>}}
                \cup {<<Catch("B", <<Do(2)>>), Catch("Exception", <<Continue>>)>>}
Inner == {Try(b, c, f) : b \in Exits, c \in Catches, f \in {<<>>, <<Do(3)>>, <<Break>>}}

\* The loop inside a try, and a try inside the loop.
Mains(i) ==
  { <<Try(<<Loop(2, <<i, Do(4)>>), Do(5)>>, <<Catch("Exception", <<Do(6)>>)>>, <<Do(7)>>), Do(8)>>,
    <<Set(1), Loop(2, <<Try(<<i, Do(4)>>, <<Catch("B", <<Show>>)>>, <<>>)>>), Throw("A")>> }

\* What a call may do to the frames of its caller.
Functions ==
  { <<Try(<<Try(<<Return>>, <<>>, <<>>)>>, <<>>, <<Do(9)>>)>>,
    <<Set(2), Loop(1, <<Try(<<Try(<<Break>>, <<>>, <<>>)>>, <<>>, <<>>)>>), Throw("B")>> }

\* The last lets its exception out.
Handlers == [h1 |-> <<Do(10)>>, h2 |-> <<Try(<<Throw("C")>>, <<Catch("C", <<Do(11)>>)>>, <<>>)>>,
             h3 |-> <<Throw("B")>>]

ProgramWith(main, f, handlers) ==
  [functions |-> [main |-> main, f |-> f] @@ Handlers, handlers |-> handlers]
Program(main, f) == ProgramWith(main, f, <<"h1", "h2">>)

\* Programs whose handlers throw: into a try, or into the end of the program.
Escaping ==
  UNION {{ProgramWith(m, f, <<"h1", "h3", "h2">>) : m \in Mains(i), f \in Functions} :
           i \in {Try(<<Call("f")>>, <<Catch("A", <<Do(2)>>)>>, <<Do(3)>>)}}

MCPrograms ==
  Escaping \cup UNION {{Program(m, f) : m \in Mains(i), f \in Functions} : i \in Inner}

RECURSIVE Within(_)
\* The statements of a block and of the blocks in it.
Within(block) ==
  UNION {{block[k]} \cup
           CASE block[k].is = "loop" -> Within(block[k].body)
             [] block[k].is = "try" -> Within(block[k].body) \cup Within(block[k].final)
                  \cup UNION {Within(block[k].catches[c].body) : c \in DOMAIN block[k].catches}
             [] OTHER -> {} : k \in DOMAIN block}

StatementsOf(programs) ==
  {Call("h1"), Call("h2"), Call("h3")}
    \cup UNION {UNION {Within(p.functions[f]) : f \in DOMAIN p.functions} : p \in programs}

MCStatements == StatementsOf(MCPrograms)

\* A finally that throws and catches an exception of its own.
Clobbering ==
  {Program(<<Try(<<Throw("A")>>, <<>>, <<Try(<<Throw("B")>>, <<Catch("B", <<Do(1)>>)>>, <<>>)>>)>>,
           <<>>)}
ClobberingStatements == StatementsOf(Clobbering)
=============================================================================
