------------------------------- MODULE Meaning -------------------------------
(***************************************************************************)
(* What the statements of Control mean: what they print and how they end.   *)
(* A finally is run when its body or a catch ends normally and when an      *)
(* exception of the body matches no catch, not when a jump or a second      *)
(* exception leaves.                                                        *)
(***************************************************************************)
EXTENDS Control

RECURSIVE Run(_, _)
RunTimes(n, body, x) ==
  LET f[k \in 0..n, y \in Int] ==
        IF k = 0 THEN [out |-> <<>>, end |-> "normal", x |-> y]
        ELSE LET r == Run(body, y) IN
             CASE r.end = "break" -> [r EXCEPT !.end = "normal"]
               [] r.end \in {"normal", "continue"} ->
                    LET q == f[k - 1, r.x] IN [q EXCEPT !.out = r.out \o @]
               [] OTHER -> r
  IN f[n, x]

\* r, then statements s if r ended normally; with r's end if they do.
Then(r, s, end) ==
  LET q == Run(s, r.x)
  IN [out |-> r.out \o q.out, end |-> IF q.end = "normal" THEN end ELSE q.end, x |-> q.x]

RunTry(t, x) ==
  LET r == Run(t.body, x)
      k == IF r.end \in Exceptions THEN Matching(t.catches, r.end) ELSE 0
      c == Then(r, t.catches[k].body, "normal")
  IN CASE r.end = "normal" -> Then(r, t.final, "normal")
       [] r.end \in Exceptions /\ k = 0 -> Then(r, t.final, r.end)
       [] r.end \in Exceptions /\ k # 0 ->
            IF c.end = "normal" THEN Then(c, t.final, "normal") ELSE c
       [] OTHER -> r

RunOne(s, x) ==
  LET Ends(end, printed) == [out |-> printed, end |-> end, x |-> x]
  IN CASE s.is = "do" -> Ends("normal", <<s.mark>>)
       [] s.is = "show" -> Ends("normal", <<x>>)
       [] s.is = "set" -> [Ends("normal", <<>>) EXCEPT !.x = s.value]
       [] s.is = "throw" -> Ends(s.type, <<>>)
       [] s.is \in {"return", "break", "continue"} -> Ends(s.is, <<>>)
       [] s.is = "loop" -> RunTimes(s.times, s.body, x)
       [] s.is = "try" -> RunTry(s, x)
       [] s.is = "call" ->
            LET r == Run(program.functions[s.function], 0)
            IN [r EXCEPT !.end = IF @ \in Exceptions THEN @ ELSE "normal", !.x = x]

Run(s, x) ==
  IF s = <<>> THEN [out |-> <<>>, end |-> "normal", x |-> x]
  ELSE LET r == RunOne(s[1], x)
       IN IF r.end = "normal" THEN Then(r, Tail(s), "normal") ELSE r

-----------------------------------------------------------------------------

\* A program that is left alone prints what its statements mean, and ends so.
MeansWhatItSays ==
  status \in {"done", "uncaught"} /\ ~interrupted
    => LET r == Run(program.functions["main"], 0)
       IN /\ out = r.out
          /\ status = IF r.end \in Exceptions THEN "uncaught" ELSE "done"
          /\ status = "uncaught" => current = r.end

\* No handler of this program lets an exception out.
HandlersReturn ==
  Run([k \in DOMAIN program.handlers |-> Call(program.handlers[k])], 0).end \notin Exceptions

\* After ^C a program whose handlers let no exception out goes no further and quits,
\* wherever it was and whatever its handlers throw and catch among themselves
\* (oboe_runtime.c ob_sigint_handler): nothing of theirs leads back into it.  An
\* exception they do let out is thrown in the program, which goes on with it.
InterruptQuits ==
  /\ [][interrupted /\ HandlersReturn => stack'[1] = stack[1]]_vars
  /\ interrupted /\ HandlersReturn ~> (status = "interrupted")
=============================================================================
