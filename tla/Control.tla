------------------------------- MODULE Control -------------------------------
(***************************************************************************)
(* try, catch, finally, throw, loops, calls and ^C in a compiled program:   *)
(* the C that gen_stmt emits (legacy/codegen.c; selfhost/codegen.oboe emits *)
(* the same bytes) running on the exception stack of oboe_runtime.c.        *)
(* Statements are records; what they compute is left out but for marks that *)
(* a program prints and one variable local to each function.                *)
(***************************************************************************)
EXTENDS Integers, Sequences

CONSTANTS Programs,    \* [functions : name -> statements, handlers : sequence of names]
          Statements,  \* what stands in them, at any depth
          Exceptions, None

Do(m) == [is |-> "do", mark |-> m]
Set(v) == [is |-> "set", value |-> v]              \* the local variable is assigned
Show == [is |-> "show"]                            \* and printed
Throw(e) == [is |-> "throw", type |-> e]
Call(f) == [is |-> "call", function |-> f]
Return == [is |-> "return"]
Break == [is |-> "break"]
Continue == [is |-> "continue"]
Loop(n, body) == [is |-> "loop", times |-> n, body |-> body]
Catch(e, body) == [type |-> e, body |-> body]      \* "Exception" catches all
Try(body, catches, final) ==
  [is |-> "try", body |-> body, catches |-> catches, final |-> final]

Blocks == Seq(Statements)
Clauses == [type : Exceptions \cup {"Exception"}, body : Blocks]

\* What the grammar makes of a program; every function that is called is there.
ASSUME ControlAssumption ==
  /\ \A s \in Statements :
       /\ s.is = "do" => s.mark \in Int
       /\ s.is = "set" => s.value \in Int
       /\ s.is = "throw" => s.type \in Exceptions
       /\ s.is = "call" => \A p \in Programs : s.function \in DOMAIN p.functions
       /\ s.is = "loop" => s.times \in Nat /\ s.body \in Blocks
       /\ s.is = "try" => /\ s.body \in Blocks /\ s.final \in Blocks
                          /\ s.catches \in Seq(Clauses)
  /\ \A p \in Programs :
       /\ "main" \in DOMAIN p.functions
       /\ \A f \in DOMAIN p.functions : p.functions[f] \in Blocks
       /\ [k \in DOMAIN p.handlers |-> Call(p.handlers[k])] \in Blocks

VARIABLES
  program,
  stack,     \* C's: activations, the innermost last
  exc,       \* ob_exc_stack and what its prev leads to, the innermost first
  current,   \* ob_current_exception_type
  interrupted, \* ob_in_sigint
  status,    \* "run", or how the program ended
  out        \* what it printed

vars == <<program, stack, exc, current, interrupted, status, out>>

-----------------------------------------------------------------------------
(* What is left to run in an activation is a sequence of items, each with the *)
(* g_try_depth and g_loop_try_depth at which its code was generated.          *)

Code(s, d, l) == [at |-> "code", body |-> s, d |-> d, l |-> l]
Iterations(n, s, d) == [at |-> "loop", times |-> n, body |-> s, d |-> d]
EndOfBody(d) == [at |-> "end", d |-> d]
Rethrow(d) == [at |-> "rethrow", d |-> d]

\* A bug: an exception that no catch wanted ends with the finally.
Finish_swallows(t, d, l, rethrow) == <<Code(t.final, d + 1, l)>>

\* The rest of a try behind its body or catches: finally, and the rethrow.
Finish(t, d, l, rethrow) ==
  <<Code(t.final, d + 1, l)>> \o (IF rethrow THEN <<Rethrow(d)>> ELSE <<>>)

Top == stack[Len(stack)]
Item == Top.todo[1]
Rest == Tail(Top.todo)
Running == status = "run" /\ Top.todo # <<>>
Ready(kind) == Running /\ Item.at = "code" /\ Item.body # <<>> /\ Item.body[1].is = kind
Statement == Item.body[1]
\* What follows the statement.
After == <<[Item EXCEPT !.body = Tail(@)]>> \o Rest

GoOn(todo) == stack' = [stack EXCEPT ![Len(stack)].todo = todo]

\* slots[d] is the prev of __frame_d.
Activation(s) == [todo |-> <<Code(s, 0, -1)>>, slots |-> <<>>, local |-> 0, isr |-> FALSE]

Init ==
  /\ program \in Programs
  /\ stack = <<Activation(program.functions["main"])>>
  /\ exc = <<>> /\ current = None
  /\ interrupted = FALSE /\ status = "run" /\ out = <<>>

-----------------------------------------------------------------------------
(* ob_throw: the innermost frame is popped and longjmp goes to it, into the   *)
(* catch that matches or past all of them.  The local variable, which is not  *)
(* volatile, has its value at setjmp or a later one.                          *)

Matching(catches, e) ==
  LET C == {k \in DOMAIN catches : catches[k].type \in {e, "Exception"}}
  IN IF C = {} THEN 0 ELSE CHOOSE k \in C : \A j \in C : k <= j

Landing(f, e) ==
  LET k == Matching(f.t.catches, e)
  IN (IF k = 0 THEN <<>> ELSE <<Code(f.t.catches[k].body, f.d + 1, f.l)>>)
       \o Finish(f.t, f.d, f.l, k = 0) \o f.todo

ob_throw(e) ==
  /\ current' = e
  /\ IF exc = <<>>
     THEN status' = "uncaught" /\ UNCHANGED <<stack, exc>>
     ELSE /\ exc' = Tail(exc)
          /\ \E x \in {exc[1].local, stack[exc[1].level].local} :
               stack' = [SubSeq(stack, 1, exc[1].level) EXCEPT
                           ![exc[1].level].todo = Landing(exc[1], e),
                           ![exc[1].level].local = x]
          /\ UNCHANGED status
  /\ UNCHANGED <<program, interrupted, out>>

DoThrow == Ready("throw") /\ ob_throw(Statement.type)

DoRethrow == Running /\ Item.at = "rethrow" /\ ob_throw(current)

-----------------------------------------------------------------------------
(* try *)

\* Frame d is declared, or declared again, and its prev is set.
Declared(slots, d) == [k \in DOMAIN slots \cup {d} |-> IF k = d THEN exc ELSE slots[k]]

\* The frame is pushed before setjmp.
DoTry ==
  /\ Ready("try")
  /\ LET d == Item.d
         frame == [level |-> Len(stack), todo |-> After, t |-> Statement,
                   d |-> d, l |-> Item.l, local |-> Top.local]
     IN /\ exc' = <<frame>> \o exc
        /\ stack' = [stack EXCEPT
                       ![Len(stack)].slots = Declared(@, d),
                       ![Len(stack)].todo =
                          <<Code(Statement.body, d + 1, Item.l), EndOfBody(d)>>
                            \o Finish(Statement, d, Item.l, FALSE) \o After]
  /\ UNCHANGED <<program, current, interrupted, status, out>>

\* The body is done: its frame is popped.
DoEndOfBody ==
  /\ Running /\ Item.at = "end"
  /\ exc' = Top.slots[Item.d]
  /\ GoOn(Rest)
  /\ UNCHANGED <<program, current, interrupted, status, out>>

-----------------------------------------------------------------------------
(* Loops and jumps *)

DoLoop ==
  /\ Ready("loop")
  /\ GoOn(<<Iterations(Statement.times, Statement.body, Item.d)>> \o After)
  /\ UNCHANGED <<program, exc, current, interrupted, status, out>>

Iterate ==
  /\ Running /\ Item.at = "loop"
  /\ GoOn(IF Item.times = 0 THEN Rest
          ELSE <<Code(Item.body, Item.d, Item.d), [Item EXCEPT !.times = @ - 1]>> \o Rest)
  /\ UNCHANGED <<program, exc, current, interrupted, status, out>>

Leave(n) == SubSeq(Top.todo, n, Len(Top.todo))
InnermostLoop == CHOOSE n \in DOMAIN Top.todo :
                   /\ Top.todo[n].at = "loop"
                   /\ \A j \in 1..n - 1 : Top.todo[j].at # "loop"

\* Outside a loop neither compiles.
InLoop == Item.l # -1

\* A bug: the frames of the loop's tries are left behind, as they once were.
UnwoundToLoop_not == exc

\* break and continue drop the frames of the tries opened since the loop began.
UnwoundToLoop == IF Item.d > Item.l THEN Top.slots[Item.l] ELSE exc

DoBreak ==
  /\ Ready("break") /\ InLoop
  /\ exc' = UnwoundToLoop
  /\ GoOn(Leave(InnermostLoop + 1))
  /\ UNCHANGED <<program, current, interrupted, status, out>>

DoContinue ==
  /\ Ready("continue") /\ InLoop
  /\ exc' = UnwoundToLoop
  /\ GoOn(Leave(InnermostLoop))
  /\ UNCHANGED <<program, current, interrupted, status, out>>

-----------------------------------------------------------------------------
(* Calls and the end of the program *)

\* A return drops the frames of all the tries of its function.
Unwound == IF Item.d > 0 THEN Top.slots[0] ELSE exc

\* A bug: the signal handler returns to what it interrupted.
Pop_resumes ==
  /\ stack' = SubSeq(stack, 1, Len(stack) - 1)
  /\ status' = IF Len(stack) = 1 THEN "done" ELSE status

\* The last function returns from main; the signal handler ends the program.
Pop ==
  IF Top.isr
  THEN status' = "interrupted" /\ UNCHANGED stack
  ELSE /\ stack' = SubSeq(stack, 1, Len(stack) - 1)
       /\ status' = IF Len(stack) = 1 THEN "done" ELSE status

DoReturn ==
  /\ Ready("return")
  /\ exc' = Unwound
  /\ Pop
  /\ UNCHANGED <<program, current, interrupted, out>>

FallOff ==
  /\ status = "run" /\ Top.todo = <<>>
  /\ Pop
  /\ UNCHANGED <<program, exc, current, interrupted, out>>

DoCall ==
  /\ Ready("call")
  /\ stack' = Append([stack EXCEPT ![Len(stack)].todo = After],
                     Activation(program.functions[Statement.function]))
  /\ UNCHANGED <<program, exc, current, interrupted, status, out>>

-----------------------------------------------------------------------------
(* Other statements *)

EndOfBlock ==
  /\ Running /\ Item.at = "code" /\ Item.body = <<>>
  /\ GoOn(Rest)
  /\ UNCHANGED <<program, exc, current, interrupted, status, out>>

DoPrint ==
  /\ Ready("do") \/ Ready("show")
  /\ out' = Append(out, IF Statement.is = "do" THEN Statement.mark ELSE Top.local)
  /\ GoOn(After)
  /\ UNCHANGED <<program, exc, current, interrupted, status>>

DoSet ==
  /\ Ready("set")
  /\ stack' = [stack EXCEPT ![Len(stack)].todo = After, ![Len(stack)].local = Statement.value]
  /\ UNCHANGED <<program, exc, current, interrupted, status, out>>

-----------------------------------------------------------------------------
(* ob_sigint_handler: ^C arrives anywhere.  The first runs the handlers of    *)
(* KeyboardInterruptEvent on top of what it interrupted, each a function, and *)
(* exits; the second exits at once.                                           *)

Interrupt ==
  /\ status = "run"
  /\ IF interrupted
     THEN status' = "interrupted" /\ UNCHANGED <<stack, interrupted>>
     ELSE /\ interrupted' = TRUE
          /\ stack' = Append(stack,
               [Activation([k \in DOMAIN program.handlers |-> Call(program.handlers[k])])
                  EXCEPT !.isr = TRUE])
          /\ UNCHANGED status
  /\ UNCHANGED <<program, exc, current, out>>

Step == \/ DoThrow \/ DoRethrow \/ DoTry \/ DoEndOfBody \/ DoLoop \/ Iterate
        \/ DoBreak \/ DoContinue \/ DoReturn \/ FallOff \/ DoCall
        \/ EndOfBlock \/ DoPrint \/ DoSet

Next == Step \/ Interrupt

\* The processor runs the program.
FairSpec == Init /\ [][Next]_vars /\ WF_vars(Step)

-----------------------------------------------------------------------------
(* Properties *)

\* Where, in what is left to run in activation k, the body of a try ends.
BodyEnds(k) == {n \in DOMAIN stack[k].todo : stack[k].todo[n].at = "end"}

\* The exception stack is the tries whose bodies are being run, over all
\* activations and one for one, the innermost first: no frame outlives its C
\* block, and none is missing.
FramesLive ==
  status = "run" =>
    /\ {<<exc[i].level, exc[i].d>> : i \in DOMAIN exc}
         = UNION {{<<k, stack[k].todo[n].d>> : n \in BodyEnds(k)} : k \in DOMAIN stack}
    /\ \A i, j \in DOMAIN exc :
         i < j => \/ exc[i].level > exc[j].level
                  \/ exc[i].level = exc[j].level /\ exc[i].d > exc[j].d
    /\ \A k \in DOMAIN stack :
         \A m, n \in BodyEnds(k) : m < n => stack[k].todo[m].d > stack[k].todo[n].d
=============================================================================
