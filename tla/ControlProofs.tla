---------------------------- MODULE ControlProofs ----------------------------
(***************************************************************************)
(* Proofs about Control: however a program leaves its tries, by an         *)
(* exception, a jump, a return or their end, in a function, a caller or    *)
(* under a signal handler, the exception stack is left as the blocks are.  *)
(***************************************************************************)
EXTENDS Control, SequenceTheorems, WellFoundedInduction, TLAPS

Levels == Nat \cup {-1}

Items == [at : {"code"}, body : Blocks, d : Nat, l : Levels]
           \cup [at : {"loop"}, times : Int, body : Blocks, d : Nat]
           \cup [at : {"end", "rethrow"}, d : Nat]

Tries == {s \in Statements : s.is = "try"}

Frames == [level : Nat, todo : Seq(Items), t : Tries, d : Nat, l : Levels, local : Int]

Activations == [todo : Seq(Items), slots : UNION {[D -> Seq(Frames)] : D \in SUBSET Nat},
                local : Int, isr : BOOLEAN]

-----------------------------------------------------------------------------
(* The inductive invariant *)

\* How many frames of its activation an item may have been generated in.
Reach(i) == IF i.at = "end" THEN i.d + 1 ELSE i.d

\* What is left to run leaves the tries one after another: nothing behind an item
\* is deeper than the item, and behind the end of a body and the finally of its
\* try, nothing is as deep as the body.
Descends(todo) ==
  \A m, n \in DOMAIN todo : m < n => Reach(todo[n]) <= Reach(todo[m])

Closed(todo) ==
  \A n \in DOMAIN todo : todo[n].at = "end" =>
    /\ n + 1 \in DOMAIN todo /\ todo[n + 1].at = "code" /\ todo[n + 1].d = todo[n].d + 1
    /\ \A m \in DOMAIN todo : m > n + 1 => Reach(todo[m]) <= todo[n].d

\* The innermost loop behind item n, at the depth that its code believes.
LoopOf(todo, n, l) ==
  \E m \in DOMAIN todo :
    /\ m > n /\ todo[m].at = "loop" /\ todo[m].d = l
    /\ \A j \in DOMAIN todo : n < j /\ j < m => todo[j].at # "loop"

Looped(todo) ==
  \A n \in DOMAIN todo : todo[n].at = "code" /\ todo[n].l # -1 => LoopOf(todo, n, todo[n].l)

Nested(todo) == Descends(todo) /\ Closed(todo) /\ Looped(todo)

\* Frame f belongs to a try that is at depth j of activation k or inside of it.
Inside(f, k, j) == f.level > k \/ (f.level = k /\ f.d >= j)

\* q is ex without those.
Remains(ex, k, j, q) ==
  \E m \in 0..Len(ex) :
    /\ q = SubSeq(ex, m + 1, Len(ex))
    /\ \A i \in DOMAIN ex : Inside(ex[i], k, j) <=> i <= m

Ordered(ex) ==
  \A i, j \in DOMAIN ex : i < j => Inside(ex[i], ex[j].level, ex[j].d + 1)

\* The end of the body of f's try, and the finally behind it, are still to run in
\* the activation that f names, and so is what f will go on with.
EndOf(f, todo, n) ==
  /\ todo[n] = EndOfBody(f.d)
  /\ n + 1 \in DOMAIN todo /\ todo[n + 1] = Code(f.t.final, f.d + 1, f.l)
  /\ f.todo = SubSeq(todo, n + 2, Len(todo))

Backed(f, st) ==
  f.level \in DOMAIN st /\ \E n \in DOMAIN st[f.level].todo : EndOf(f, st[f.level].todo, n)

\* The end of a body has its frame.
Pushed(st, ex) ==
  \A k \in DOMAIN st : \A n \in DOMAIN st[k].todo :
    st[k].todo[n].at = "end" => \E i \in DOMAIN ex : ex[i].level = k /\ ex[i].d = st[k].todo[n].d

\* The prev of every frame that is declared around an item is what remains of the
\* exception stack outside of that frame's try.
Linked(st, ex) ==
  \A k \in DOMAIN st : \A n \in DOMAIN st[k].todo : \A j \in 0..Reach(st[k].todo[n]) - 1 :
    j \in DOMAIN st[k].slots /\ Remains(ex, k, j, st[k].slots[j])

Sound(st, ex) ==
  /\ st \in Seq(Activations) /\ ex \in Seq(Frames)
  /\ \A k \in DOMAIN st : Nested(st[k].todo)
  /\ Ordered(ex)
  /\ \A i \in DOMAIN ex : Backed(ex[i], st)
  /\ Pushed(st, ex)
  /\ Linked(st, ex)

TypeOK ==
  /\ program \in Programs
  /\ current \in Exceptions \cup {None}
  /\ interrupted \in BOOLEAN
  /\ status \in {"run", "done", "uncaught", "interrupted"}

ControlInv == TypeOK /\ (status = "run" => stack # <<>> /\ Sound(stack, exc))
-----------------------------------------------------------------------------
(* Sequences of items *)

From(s, p) == SubSeq(s, p + 1, Len(s))

LEMMA FromIs ==
  ASSUME NEW S, NEW s \in Seq(S), NEW p \in 0..Len(s)
  PROVE  /\ From(s, p) \in Seq(S) /\ Len(From(s, p)) = Len(s) - p
         /\ \A n \in 1..Len(s) - p : From(s, p)[n] = s[p + n]
BY DEF From

LEMMA ConsIs ==
  ASSUME NEW S, NEW i \in S, NEW s \in Seq(S)
  PROVE  /\ <<i>> \o s \in Seq(S) /\ Len(<<i>> \o s) = Len(s) + 1
         /\ (<<i>> \o s)[1] = i
         /\ \A n \in 1..Len(s) : (<<i>> \o s)[n + 1] = s[n]
OBVIOUS

LEMMA PairIs ==
  ASSUME NEW S, NEW b \in S, NEW e \in S
  PROVE  <<b, e>> = <<b>> \o <<e>>
<1> DEFINE x == <<b>>
           y == <<e>>
           z == x \o y
<1>1. x \in Seq(S) /\ y \in Seq(S) /\ Len(x) = 1 /\ Len(y) = 1 /\ x[1] = b /\ y[1] = e
  OBVIOUS
<1> HIDE DEF x, y
<1>2. /\ z \in Seq(S) /\ Len(z) = 1 + 1
      /\ \A i \in 1..1 + 1 : z[i] = IF i <= 1 THEN x[i] ELSE y[i - 1]
  <2>1. x \in Seq(S) /\ y \in Seq(S)
    BY <1>1
  <2>2. /\ z \in Seq(S) /\ Len(z) = Len(x) + Len(y)
        /\ \A i \in 1..Len(x) + Len(y) : z[i] = IF i <= Len(x) THEN x[i] ELSE y[i - Len(x)]
    BY <2>1, ConcatProperties
  <2> HIDE DEF z
  <2> QED
    BY <1>1, <2>2
<1> HIDE DEF z
<1>3. z \in Seq(S) /\ Len(z) = 2 /\ z[1] = b /\ z[2] = e
  BY <1>1, <1>2
<1>4. z = <<b, e>>
  BY <1>3
<1> QED
  BY <1>4 DEF z, x, y

LEMMA ConsFrom ==
  ASSUME NEW S, NEW i \in S, NEW s \in Seq(S)
  PROVE  From(<<i>> \o s, 1) = s
BY ConsIs, FromIs DEF From

LEMMA FromFrom ==
  ASSUME NEW S, NEW s \in Seq(S), NEW p \in 0..Len(s), NEW q \in 0..Len(s) - p
  PROVE  From(From(s, p), q) = From(s, p + q)
<1>1. From(s, p) \in Seq(S) /\ Len(From(s, p)) = Len(s) - p
  BY FromIs
<1>2. p + q \in 0..Len(s)
  OBVIOUS
<1>3. /\ From(From(s, p), q) \in Seq(S) /\ Len(From(From(s, p), q)) = Len(s) - p - q
      /\ \A n \in 1..Len(s) - p - q : From(From(s, p), q)[n] = s[p + q + n]
  <2> DEFINE u == From(s, p)
  <2>1. u \in Seq(S) /\ Len(u) = Len(s) - p /\ q \in 0..Len(u)
    BY <1>1
  <2>2. \A n \in 1..Len(s) - p : u[n] = s[p + n]
    BY FromIs
  <2>3. /\ From(u, q) \in Seq(S) /\ Len(From(u, q)) = Len(u) - q
        /\ \A n \in 1..Len(u) - q : From(u, q)[n] = u[q + n]
    BY <2>1, FromIs
  <2> HIDE DEF u
  <2>4. \A n \in 1..Len(s) - p - q : q + n \in 1..Len(s) - p /\ p + (q + n) = p + q + n
    OBVIOUS
  <2>5. From(u, q) \in Seq(S) /\ Len(From(u, q)) = Len(s) - p - q
    BY <2>1, <2>3
  <2>6. \A n \in 1..Len(s) - p - q : From(u, q)[n] = s[p + q + n]
    BY <2>1, <2>2, <2>3, <2>4
  <2> QED
    BY <2>5, <2>6 DEF u
<1>4. /\ From(s, p + q) \in Seq(S) /\ Len(From(s, p + q)) = Len(s) - p - q
      /\ \A n \in 1..Len(s) - p - q : From(s, p + q)[n] = s[p + q + n]
  <2> DEFINE r == p + q
  <2>1. r \in 0..Len(s) /\ Len(s) - r = Len(s) - p - q
    BY <1>2
  <2> HIDE DEF r
  <2>2. /\ From(s, r) \in Seq(S) /\ Len(From(s, r)) = Len(s) - r
        /\ \A n \in 1..Len(s) - r : From(s, r)[n] = s[r + n]
    BY <2>1, FromIs
  <2>3. /\ From(s, r) \in Seq(S) /\ Len(From(s, r)) = Len(s) - p - q
        /\ \A n \in 1..Len(s) - p - q : From(s, r)[n] = s[r + n]
    BY <2>1, <2>2
  <2> QED
    BY <2>3 DEF r
<1> DEFINE a == From(From(s, p), q)
           b == From(s, p + q)
           L == Len(s) - p - q
<1>5. /\ a \in Seq(S) /\ b \in Seq(S) /\ Len(a) = L /\ Len(b) = L
      /\ \A n \in 1..L : a[n] = b[n]
  BY <1>3, <1>4
<1> HIDE DEF a, b, L
<1>6. a = b
  BY <1>5, SeqEqual
<1> QED
  BY <1>6 DEF a, b

LEMMA ItemIs ==
  ASSUME NEW i \in Items
  PROVE  /\ i.at \in {"code", "loop", "end", "rethrow"}
         /\ i.d \in Nat /\ Reach(i) \in Nat
         /\ i.at = "code" => i = Code(i.body, i.d, i.l) /\ i.body \in Blocks /\ i.l \in Levels
         /\ i.at = "loop" => i = Iterations(i.times, i.body, i.d) /\ i.times \in Int /\ i.body \in Blocks
         /\ i.at = "end" => i = EndOfBody(i.d)
         /\ i.at = "rethrow" => i = Rethrow(i.d)
BY DEF Items, Reach, Code, Iterations, EndOfBody, Rethrow

LEMMA CodeIs ==
  ASSUME NEW s \in Blocks, NEW d \in Nat, NEW l \in Levels, NEW t \in Int
  PROVE  /\ Code(s, d, l) \in Items /\ Reach(Code(s, d, l)) = d
         /\ Code(s, d, l).at = "code" /\ Code(s, d, l).d = d /\ Code(s, d, l).l = l
         /\ Code(s, d, l).body = s
         /\ Iterations(t, s, d) \in Items /\ Reach(Iterations(t, s, d)) = d
         /\ Iterations(t, s, d).at = "loop" /\ Iterations(t, s, d).d = d
         /\ EndOfBody(d) \in Items /\ Reach(EndOfBody(d)) = d + 1
         /\ EndOfBody(d).at = "end" /\ EndOfBody(d).d = d
         /\ Rethrow(d) \in Items /\ Reach(Rethrow(d)) = d
         /\ Rethrow(d).at = "rethrow" /\ Rethrow(d).d = d
BY DEF Items, Reach, Code, Iterations, EndOfBody, Rethrow

\* What is behind an item is nested, and so is what has an item put before it that
\* reaches as far, when the item is no end of a body ...
LEMMA NestedFrom ==
  ASSUME NEW todo \in Seq(Items), Nested(todo), NEW p \in 0..Len(todo)
  PROVE  Nested(From(todo, p))
<1> DEFINE u == From(todo, p)
<1>1. /\ u \in Seq(Items) /\ Len(u) = Len(todo) - p
      /\ DOMAIN u = 1..Len(todo) - p /\ DOMAIN todo = 1..Len(todo) /\ Len(todo) \in Nat
      /\ \A n \in DOMAIN u : u[n] = todo[p + n] /\ p + n \in DOMAIN todo
  <2>1. u \in Seq(Items) /\ Len(u) = Len(todo) - p
    BY FromIs
  <2>2. \A n \in 1..Len(todo) - p : u[n] = todo[p + n]
    BY FromIs
  <2> HIDE DEF u
  <2>3. Len(todo) \in Nat /\ DOMAIN todo = 1..Len(todo) /\ DOMAIN u = 1..Len(u)
    BY <2>1
  <2>4. DOMAIN u = 1..Len(todo) - p
    BY <2>1, <2>3
  <2>5. \A n \in 1..Len(todo) - p : p + n \in DOMAIN todo
    BY <2>3
  <2> QED
    BY <2>1, <2>2, <2>3, <2>4, <2>5
<1> HIDE DEF u
<1>2. Descends(u)
  BY <1>1 DEF Nested, Descends
<1>3. Closed(u)
  <2> SUFFICES ASSUME NEW n \in DOMAIN u, u[n].at = "end"
               PROVE  /\ n + 1 \in DOMAIN u /\ u[n + 1].at = "code" /\ u[n + 1].d = u[n].d + 1
                      /\ \A m \in DOMAIN u : m > n + 1 => Reach(u[m]) <= u[n].d
    BY DEF Closed
  <2>1. /\ p + n + 1 \in DOMAIN todo /\ todo[p + n + 1].at = "code"
        /\ todo[p + n + 1].d = todo[p + n].d + 1
        /\ \A m \in DOMAIN todo : m > p + n + 1 => Reach(todo[m]) <= todo[p + n].d
    BY <1>1 DEF Nested, Closed
  <2>2. n + 1 \in DOMAIN u /\ u[n + 1] = todo[p + n + 1]
    BY <1>1, <2>1
  <2>3. u[n] = todo[p + n]
    BY <1>1
  <2>4. ASSUME NEW m \in DOMAIN u, m > n + 1
        PROVE  Reach(u[m]) <= u[n].d
    <3>1. p + m \in DOMAIN todo /\ p + m > p + n + 1 /\ u[m] = todo[p + m]
      BY <1>1, <2>4
    <3> QED
      BY <2>1, <2>3, <3>1
  <2> QED
    BY <2>1, <2>2, <2>3, <2>4
<1>4. Looped(u)
  <2> SUFFICES ASSUME NEW n \in DOMAIN u, u[n].at = "code", u[n].l # -1
               PROVE  LoopOf(u, n, u[n].l)
    BY DEF Looped
  <2>1. PICK m \in DOMAIN todo :
          /\ m > p + n /\ todo[m].at = "loop" /\ todo[m].d = u[n].l
          /\ \A j \in DOMAIN todo : p + n < j /\ j < m => todo[j].at # "loop"
    BY <1>1 DEF Nested, Looped, LoopOf
  <2>2. /\ m - p \in DOMAIN u /\ m - p > n /\ p + (m - p) = m
        /\ u[m - p].at = "loop" /\ u[m - p].d = u[n].l
    <3>1. m \in 1..Len(todo) /\ m > p + n /\ n >= 1
      BY <1>1, <2>1
    <3>2. m - p \in DOMAIN u /\ m - p > n /\ p + (m - p) = m
      BY <1>1, <3>1
    <3>3. u[m - p] = todo[m]
      BY <1>1, <3>2
    <3> QED
      BY <2>1, <3>2, <3>3
  <2>3. ASSUME NEW j \in DOMAIN u, n < j, j < m - p
        PROVE  u[j].at # "loop"
    <3>1. p + n < p + j /\ p + j < m /\ p + j \in DOMAIN todo /\ u[j] = todo[p + j]
      BY <1>1, <2>1, <2>3
    <3> QED
      BY <2>1, <3>1
  <2> QED
    BY <2>2, <2>3 DEF LoopOf
<1> QED
  BY <1>2, <1>3, <1>4 DEF Nested, u

LEMMA NestedCons ==
  ASSUME NEW i \in Items, NEW u \in Seq(Items), Nested(u),
         \A n \in DOMAIN u : Reach(u[n]) <= Reach(i),
         i.at = "end" => /\ u # <<>> /\ u[1].at = "code" /\ u[1].d = i.d + 1
                         /\ \A n \in DOMAIN u : n > 1 => Reach(u[n]) <= i.d,
         i.at = "code" /\ i.l # -1 => LoopOf(u, 0, i.l)
  PROVE  Nested(<<i>> \o u)
<1> DEFINE t == <<i>> \o u
<1>1. /\ t \in Seq(Items) /\ Len(t) = Len(u) + 1 /\ t[1] = i
      /\ \A n \in DOMAIN u : t[n + 1] = u[n]
      /\ \A n \in DOMAIN t : n # 1 => n - 1 \in DOMAIN u /\ t[n] = u[n - 1]
      /\ DOMAIN u = 1..Len(u) /\ DOMAIN t = 1..Len(u) + 1 /\ Len(u) \in Nat
  <2>1. t \in Seq(Items) /\ Len(t) = Len(u) + 1 /\ t[1] = i
    BY ConsIs
  <2>2. \A n \in 1..Len(u) : t[n + 1] = u[n]
    BY ConsIs
  <2> HIDE DEF t
  <2>3. Len(u) \in Nat /\ DOMAIN u = 1..Len(u) /\ DOMAIN t = 1..Len(t)
    BY <2>1
  <2>4. DOMAIN t = 1..Len(u) + 1
    BY <2>1, <2>3
  <2>5. ASSUME NEW n \in DOMAIN t, n # 1
        PROVE  n - 1 \in DOMAIN u /\ t[n] = u[n - 1]
    <3>1. n - 1 \in 1..Len(u) /\ (n - 1) + 1 = n
      BY <2>3, <2>4, <2>5
    <3> QED
      BY <2>2, <2>3, <3>1
  <2> QED
    BY <2>1, <2>2, <2>3, <2>4, <2>5
<1> HIDE DEF t
<1>2. Descends(t)
  <2> SUFFICES ASSUME NEW m \in DOMAIN t, NEW n \in DOMAIN t, m < n
               PROVE  Reach(t[n]) <= Reach(t[m])
    BY DEF Descends
  <2> QED
    BY <1>1 DEF Nested, Descends
<1>3. Closed(t)
  <2> SUFFICES ASSUME NEW n \in DOMAIN t, t[n].at = "end"
               PROVE  /\ n + 1 \in DOMAIN t /\ t[n + 1].at = "code" /\ t[n + 1].d = t[n].d + 1
                      /\ \A m \in DOMAIN t : m > n + 1 => Reach(t[m]) <= t[n].d
    BY DEF Closed
  <2>1. CASE n = 1
    <3>1. i.at = "end" /\ t[n] = i
      BY <1>1, <2>1
    <3>2. 1 \in DOMAIN u /\ 2 \in DOMAIN t /\ t[2] = u[1]
      BY <1>1, <3>1
    <3>3. ASSUME NEW m \in DOMAIN t, m > 2
          PROVE  Reach(t[m]) <= i.d
      <4>1. m - 1 \in DOMAIN u /\ m - 1 > 1 /\ t[m] = u[m - 1]
        BY <1>1, <3>3
      <4> QED
        BY <3>1, <4>1
    <3> QED
      BY <2>1, <3>1, <3>2, <3>3
  <2>2. CASE n # 1
    <3>1. n - 1 \in DOMAIN u /\ u[n - 1] = t[n]
      BY <1>1, <2>2
    <3>2. /\ n \in DOMAIN u /\ u[n].at = "code" /\ u[n].d = t[n].d + 1
          /\ \A m \in DOMAIN u : m > n => Reach(u[m]) <= t[n].d
      <4>1. (n - 1) + 1 = n
        BY <1>1
      <4> QED
        BY <3>1, <4>1 DEF Nested, Closed
    <3>3. n + 1 \in DOMAIN t /\ t[n + 1] = u[n]
      BY <1>1, <3>2
    <3>4. ASSUME NEW m \in DOMAIN t, m > n + 1
          PROVE  Reach(t[m]) <= t[n].d
      <4>1. m - 1 \in DOMAIN u /\ m - 1 > n /\ t[m] = u[m - 1]
        BY <1>1, <3>4
      <4> QED
        BY <3>2, <4>1
    <3> QED
      BY <3>2, <3>3, <3>4
  <2> QED
    BY <2>1, <2>2
<1>4. Looped(t)
  <2> SUFFICES ASSUME NEW n \in DOMAIN t, t[n].at = "code", t[n].l # -1
               PROVE  LoopOf(t, n, t[n].l)
    BY DEF Looped
  <2>1. n - 1 \in Nat /\ LoopOf(u, n - 1, t[n].l)
    BY <1>1 DEF Nested, Looped
  <2>2. PICK m \in DOMAIN u :
          /\ m > n - 1 /\ u[m].at = "loop" /\ u[m].d = t[n].l
          /\ \A j \in DOMAIN u : n - 1 < j /\ j < m => u[j].at # "loop"
    BY <2>1 DEF LoopOf
  <2>3. m + 1 \in DOMAIN t /\ m + 1 > n /\ t[m + 1] = u[m]
    BY <1>1, <2>2
  <2>4. ASSUME NEW j \in DOMAIN t, n < j, j < m + 1
        PROVE  t[j].at # "loop"
    <3>1. j - 1 \in DOMAIN u /\ n - 1 < j - 1 /\ j - 1 < m /\ t[j] = u[j - 1]
      BY <1>1, <2>4
    <3> QED
      BY <2>2, <3>1
  <2> QED
    BY <2>2, <2>3, <2>4 DEF LoopOf
<1> QED
  BY <1>2, <1>3, <1>4 DEF Nested, t

LEMMA LoopFrom ==
  ASSUME NEW todo \in Seq(Items), NEW n \in 0..Len(todo), NEW l \in Nat, LoopOf(todo, n, l)
  PROVE  LoopOf(From(todo, n), 0, l)
<1> DEFINE u == From(todo, n)
<1>1. /\ u \in Seq(Items) /\ Len(u) = Len(todo) - n
      /\ \A i \in 1..Len(todo) - n : u[i] = todo[n + i]
  BY FromIs
<1> HIDE DEF u
<1>2. DOMAIN u = 1..Len(todo) - n /\ DOMAIN todo = 1..Len(todo) /\ Len(todo) \in Nat
  BY <1>1
<1>3. PICK m \in DOMAIN todo :
        /\ m > n /\ todo[m].at = "loop" /\ todo[m].d = l
        /\ \A j \in DOMAIN todo : n < j /\ j < m => todo[j].at # "loop"
  BY DEF LoopOf
<1>4. m - n \in DOMAIN u /\ m - n > 0 /\ u[m - n] = todo[m]
  <2>1. m - n \in DOMAIN u /\ m - n > 0 /\ n + (m - n) = m
    BY <1>2, <1>3
  <2> QED
    BY <1>1, <1>2, <2>1
<1>5. ASSUME NEW j \in DOMAIN u, 0 < j, j < m - n
      PROVE  u[j].at # "loop"
  <2>1. n + j \in DOMAIN todo /\ n < n + j /\ n + j < m /\ u[j] = todo[n + j]
    BY <1>1, <1>2, <1>3, <1>5
  <2> QED
    BY <1>3, <2>1
<1> QED
  BY <1>3, <1>4, <1>5 DEF LoopOf, u

LEMMA LoopCons ==
  ASSUME NEW i \in Items, NEW u \in Seq(Items), NEW l \in Nat,
         IF i.at = "loop" THEN i.d = l ELSE LoopOf(u, 0, l)
  PROVE  LoopOf(<<i>> \o u, 0, l)
<1> DEFINE t == <<i>> \o u
<1>1. /\ t \in Seq(Items) /\ Len(t) = Len(u) + 1 /\ t[1] = i
      /\ \A n \in 1..Len(u) : t[n + 1] = u[n]
  BY ConsIs
<1> HIDE DEF t
<1>2. DOMAIN u = 1..Len(u) /\ DOMAIN t = 1..Len(u) + 1 /\ Len(u) \in Nat
  BY <1>1
<1>3. CASE i.at = "loop"
  <2>1. 1 \in DOMAIN t /\ \A j \in DOMAIN t : ~(0 < j /\ j < 1)
    BY <1>2
  <2> QED
    BY <1>1, <1>3, <2>1 DEF LoopOf, t
<1>4. CASE i.at # "loop"
  <2>1. PICK m \in DOMAIN u :
          /\ m > 0 /\ u[m].at = "loop" /\ u[m].d = l
          /\ \A j \in DOMAIN u : 0 < j /\ j < m => u[j].at # "loop"
    BY <1>4 DEF LoopOf
  <2>2. m + 1 \in DOMAIN t /\ m + 1 > 0 /\ t[m + 1] = u[m]
    BY <1>1, <1>2
  <2>3. ASSUME NEW j \in DOMAIN t, 0 < j, j < m + 1
        PROVE  t[j].at # "loop"
    <3>1. CASE j = 1
      BY <1>1, <1>4, <3>1
    <3>2. CASE j # 1
      <4>1. j - 1 \in DOMAIN u /\ 0 < j - 1 /\ j - 1 < m /\ t[j] = u[j - 1]
        BY <1>1, <1>2, <2>3, <3>2
      <4> QED
        BY <2>1, <4>1
    <3> QED
      BY <3>1, <3>2
  <2> QED
    BY <2>1, <2>2, <2>3 DEF LoopOf, t
<1> QED
  BY <1>3, <1>4

-----------------------------------------------------------------------------
(* What remains of the exception stack *)

LEMMA FrameIs ==
  ASSUME NEW f \in Frames
  PROVE  /\ f.level \in Nat /\ f.d \in Nat /\ f.l \in Levels /\ f.local \in Int
         /\ f.todo \in Seq(Items) /\ f.t \in Statements /\ f.t.is = "try"
         /\ f.t.body \in Blocks /\ f.t.final \in Blocks /\ f.t.catches \in Seq(Clauses)
BY ControlAssumption DEF Frames, Tries

LEMMA RemainsIs ==
  ASSUME NEW ex \in Seq(Frames), Ordered(ex), NEW k, NEW j, NEW q, Remains(ex, k, j, q)
  PROVE  /\ q \in Seq(Frames) /\ Ordered(q)
         /\ \A i \in DOMAIN q : ~Inside(q[i], k, j) /\ \E h \in DOMAIN ex : q[i] = ex[h]
         /\ \A h \in DOMAIN ex : Inside(ex[h], k, j) \/ \E i \in DOMAIN q : q[i] = ex[h]
<1>1. PICK m \in 0..Len(ex) : /\ q = From(ex, m)
                              /\ \A i \in DOMAIN ex : Inside(ex[i], k, j) <=> i <= m
  BY DEF Remains, From
<1>2. /\ q \in Seq(Frames) /\ Len(q) = Len(ex) - m
      /\ \A i \in 1..Len(ex) - m : q[i] = ex[m + i]
  BY <1>1, FromIs
<1>3. DOMAIN ex = 1..Len(ex) /\ DOMAIN q = 1..Len(ex) - m /\ Len(ex) \in Nat
  BY <1>2
<1>4. \A i \in DOMAIN q : m + i \in DOMAIN ex /\ ~(m + i <= m) /\ q[i] = ex[m + i]
  BY <1>2, <1>3
<1>5. \A h \in DOMAIN ex : ~(h <= m) => h - m \in DOMAIN q /\ q[h - m] = ex[h]
  <2> SUFFICES ASSUME NEW h \in DOMAIN ex, ~(h <= m)
               PROVE  h - m \in DOMAIN q /\ q[h - m] = ex[h]
    OBVIOUS
  <2>1. h - m \in DOMAIN q /\ m + (h - m) = h
    BY <1>3
  <2> QED
    BY <1>4, <2>1
<1>6. Ordered(q)
  <2> SUFFICES ASSUME NEW h \in DOMAIN q, NEW i \in DOMAIN q, h < i
               PROVE  Inside(q[h], q[i].level, q[i].d + 1)
    BY DEF Ordered
  <2>1. m + h < m + i
    BY <1>3
  <2> QED
    BY <1>4, <2>1 DEF Ordered
<1> QED
  BY <1>1, <1>2, <1>4, <1>5, <1>6

\* What is taken away first does not matter.
LEMMA RemainsOfRest ==
  ASSUME NEW ex \in Seq(Frames), NEW k, NEW j, NEW q, Remains(ex, k, j, q),
         NEW k2, NEW j2, NEW r, Remains(ex, k2, j2, r),
         \A i \in DOMAIN ex : Inside(ex[i], k, j) => Inside(ex[i], k2, j2)
  PROVE  Remains(q, k2, j2, r)
<1>1. PICK m \in 0..Len(ex) : /\ q = From(ex, m)
                              /\ \A i \in DOMAIN ex : Inside(ex[i], k, j) <=> i <= m
  BY DEF Remains, From
<1>2. PICK n \in 0..Len(ex) : /\ r = From(ex, n)
                              /\ \A i \in DOMAIN ex : Inside(ex[i], k2, j2) <=> i <= n
  BY DEF Remains, From
<1>3. m <= n
  <2>1. CASE m = 0
    BY <2>1
  <2>2. CASE m # 0
    BY <1>1, <1>2, <2>2
  <2> QED
    BY <2>1, <2>2
<1>4. n - m \in 0..Len(ex) - m /\ m + (n - m) = n
  BY <1>3
<1>5. r = From(q, n - m)
  BY <1>1, <1>2, <1>4, FromFrom
<1>6. /\ q \in Seq(Frames) /\ Len(q) = Len(ex) - m
      /\ \A i \in 1..Len(ex) - m : q[i] = ex[m + i]
  BY <1>1, FromIs
<1>7. ASSUME NEW i \in DOMAIN q
      PROVE  Inside(q[i], k2, j2) <=> i <= n - m
  <2>1. i \in 1..Len(ex) - m /\ m + i \in DOMAIN ex /\ (m + i <= n <=> i <= n - m)
    BY <1>6
  <2> QED
    BY <1>2, <1>6, <2>1
<1>8. n - m \in 0..Len(q)
  BY <1>4, <1>6
<1> QED
  BY <1>5, <1>7, <1>8 DEF Remains, From

\* Nothing is taken away where nothing is inside.
LEMMA RemainsAll ==
  ASSUME NEW ex \in Seq(Frames), NEW k, NEW j, \A i \in DOMAIN ex : ~Inside(ex[i], k, j)
  PROVE  Remains(ex, k, j, ex)
<1>1. 0 \in 0..Len(ex) /\ \A i \in DOMAIN ex : ~(i <= 0)
  OBVIOUS
<1>2. ex = SubSeq(ex, 0 + 1, Len(ex))
  BY SubSeqFull
<1> QED
  BY <1>1, <1>2 DEF Remains

LEMMA RemainsCons ==
  ASSUME NEW ex \in Seq(Frames), NEW f \in Frames, NEW k, NEW j, NEW q,
         Remains(ex, k, j, q), Inside(f, k, j)
  PROVE  Remains(<<f>> \o ex, k, j, q)
<1> DEFINE e == <<f>> \o ex
<1>1. PICK m \in 0..Len(ex) : /\ q = From(ex, m)
                              /\ \A i \in DOMAIN ex : Inside(ex[i], k, j) <=> i <= m
  BY DEF Remains, From
<1>2. /\ e \in Seq(Frames) /\ Len(e) = Len(ex) + 1 /\ e[1] = f
      /\ \A n \in 1..Len(ex) : e[n + 1] = ex[n]
  BY ConsIs
<1>3. q = From(e, m + 1)
  <2>1. From(e, 1) = ex
    BY ConsFrom
  <2>2. From(From(e, 1), m) = From(e, 1 + m)
    <3>1. 1 \in 0..Len(e) /\ m \in 0..Len(e) - 1
      BY <1>2
    <3> QED
      BY <1>2, <3>1, FromFrom
  <2> QED
    BY <1>1, <2>1, <2>2
<1> HIDE DEF e
<1>4. ASSUME NEW i \in DOMAIN e
      PROVE  Inside(e[i], k, j) <=> i <= m + 1
  <2>1. CASE i = 1
    BY <1>2, <2>1
  <2>2. CASE i # 1
    <3>1. i - 1 \in DOMAIN ex /\ e[i] = ex[i - 1] /\ (i <= m + 1 <=> i - 1 <= m)
      BY <1>2, <2>2
    <3> QED
      BY <1>1, <3>1
  <2> QED
    BY <2>1, <2>2
<1>5. m + 1 \in 0..Len(e)
  BY <1>2
<1> QED
  BY <1>3, <1>4, <1>5 DEF Remains, From, e

-----------------------------------------------------------------------------
(* What a step does to activations and frames *)

LEMMA ActivationIs ==
  ASSUME NEW st \in Seq(Activations), NEW k \in DOMAIN st
  PROVE  st[k] \in Activations /\ st[k].todo \in Seq(Items)
<1>1. st[k] \in Activations
  OBVIOUS
<1> QED
  BY <1>1 DEF Activations

\* Two sequences that agree behind their first items, and a try in one of them.
LEMMA Aligned ==
  ASSUME NEW t \in Seq(Items), NEW u \in Seq(Items), NEW p \in 0..Len(t), NEW q \in 0..Len(u),
         From(u, q) = From(t, p), NEW n \in DOMAIN t, n > p
  PROVE  \E r \in DOMAIN u : /\ r > q /\ u[r] = t[n] /\ r - q = n - p
                             /\ From(u, r) = From(t, n)
<1>1. /\ Len(From(t, p)) = Len(t) - p
      /\ \A i \in 1..Len(t) - p : From(t, p)[i] = t[p + i]
  BY FromIs
<1>2. /\ Len(From(u, q)) = Len(u) - q
      /\ \A i \in 1..Len(u) - q : From(u, q)[i] = u[q + i]
  BY FromIs
<1>3. Len(t) - p = Len(u) - q /\ n - p \in 1..Len(t) - p /\ p + (n - p) = n
  <2>1. n \in 1..Len(t) /\ p \in Nat /\ Len(t) \in Nat
    OBVIOUS
  <2>2. Len(t) - p = Len(u) - q
    BY <1>1, <1>2
  <2> QED
    BY <2>1, <2>2
<1> DEFINE r == q + (n - p)
<1>4. r \in DOMAIN u /\ r > q /\ r - q = n - p
  BY <1>3
<1>5. u[r] = t[n]
  BY <1>1, <1>2, <1>3
<1>6. n - p \in 0..Len(t) - p /\ n - p \in 0..Len(u) - q
  BY <1>3
<1>7. From(From(t, p), n - p) = From(t, p + (n - p))
  BY <1>6, FromFrom
<1>8. From(From(u, q), n - p) = From(u, r)
  BY <1>6, FromFrom
<1> QED
  BY <1>3, <1>4, <1>5, <1>7, <1>8

LEMMA EndMoves ==
  ASSUME NEW t \in Seq(Items), NEW u \in Seq(Items), NEW p \in 0..Len(t), NEW q \in 0..Len(u),
         From(u, q) = From(t, p), NEW n \in DOMAIN t, n > p, NEW f, EndOf(f, t, n)
  PROVE  \E r \in DOMAIN u : EndOf(f, u, r)
<1>1. PICK r \in DOMAIN u : r > q /\ u[r] = t[n] /\ r - q = n - p /\ From(u, r) = From(t, n)
  BY Aligned
<1>2. n + 1 \in DOMAIN t /\ n + 1 > p
  BY DEF EndOf
<1>3. PICK m \in DOMAIN u : /\ m > q /\ u[m] = t[n + 1] /\ m - q = (n + 1) - p
                            /\ From(u, m) = From(t, n + 1)
  BY <1>2, Aligned
<1>4. m = r + 1
  BY <1>1, <1>3
<1>5. SubSeq(u, r + 2, Len(u)) = SubSeq(t, n + 2, Len(t))
  <2>1. (r + 1) + 1 = r + 2 /\ (n + 1) + 1 = n + 2
    BY <1>1
  <2> QED
    BY <1>3, <1>4, <2>1 DEF From
<1> QED
  BY <1>1, <1>3, <1>4, <1>5 DEF EndOf

\* The frames of an activation are less deep than what is left to run reaches.
LEMMA FrameBelow ==
  ASSUME NEW st, NEW ex, Sound(st, ex), NEW i \in DOMAIN ex, NEW d \in Nat,
         NEW k \in DOMAIN st, ex[i].level = k,
         \A n \in DOMAIN st[k].todo : Reach(st[k].todo[n]) <= d
  PROVE  ex[i].d < d
<1>1. PICK n \in DOMAIN st[k].todo : EndOf(ex[i], st[k].todo, n)
  BY DEF Sound, Backed
<1>2. ex[i] \in Frames
  BY DEF Sound
<1>3. Reach(st[k].todo[n]) = ex[i].d + 1
  BY <1>1, <1>2, FrameIs DEF EndOf, Reach, EndOfBody
<1> QED
  BY <1>2, <1>3, FrameIs

(***************************************************************************)
(* Activation k becomes the innermost, and the first p items of what it    *)
(* had left to run, which end its tries from depth j on, are replaced by q *)
(* others, among them no end of a body.                                    *)
(***************************************************************************)
Cuts(st, k, j, st2, p, q) ==
  LET T == st[k].todo
      U == st2[k].todo
  IN /\ Len(st2) = k
     /\ \A i \in 1..k - 1 : st2[i] = st[i]
     /\ st2[k].slots = st[k].slots
     /\ Nested(U)
     /\ p \in 0..Len(T) /\ q \in 0..Len(U) /\ From(U, q) = From(T, p)
     /\ \A i \in 1..q : U[i].at # "end"
     /\ \A i \in DOMAIN T : T[i].at = "end" => (i <= p <=> T[i].d >= j)
     /\ \A i \in DOMAIN U : /\ Reach(U[i]) <= j + 1
                            /\ \E m \in DOMAIN T : Reach(U[i]) <= Reach(T[m])

LEMMA SoundCut ==
  ASSUME NEW st, NEW ex, Sound(st, ex), NEW k \in DOMAIN st, NEW j \in Nat,
         NEW ex2, Remains(ex, k, j, ex2),
         NEW st2 \in Seq(Activations), NEW p, NEW q, Cuts(st, k, j, st2, p, q)
  PROVE  Sound(st2, ex2)
<1> DEFINE T == st[k].todo
           U == st2[k].todo
<1>d. /\ Len(st2) = k
      /\ \A i \in 1..k - 1 : st2[i] = st[i]
      /\ st2[k].slots = st[k].slots
      /\ Nested(U)
  BY DEF Cuts
<1>1. /\ st \in Seq(Activations) /\ ex \in Seq(Frames) /\ Ordered(ex)
      /\ k \in 1..Len(st) /\ Len(st) \in Nat /\ DOMAIN st2 = 1..k
      /\ T \in Seq(Items) /\ U \in Seq(Items)
  <2>1. k \in 1..Len(st) /\ DOMAIN st2 = 1..k /\ k \in DOMAIN st2
    BY <1>d DEF Sound
  <2> QED
    BY <2>1, ActivationIs DEF Sound
<1>2. /\ ex2 \in Seq(Frames) /\ Ordered(ex2)
      /\ \A i \in DOMAIN ex2 : ~Inside(ex2[i], k, j) /\ \E h \in DOMAIN ex : ex2[i] = ex[h]
      /\ \A h \in DOMAIN ex : Inside(ex[h], k, j) \/ \E i \in DOMAIN ex2 : ex2[i] = ex[h]
  BY <1>1, RemainsIs
<1>0. /\ p \in Nat /\ q \in Nat /\ p <= Len(T) /\ q <= Len(U)
      /\ Len(T) \in Nat /\ Len(U) \in Nat /\ DOMAIN T = 1..Len(T) /\ DOMAIN U = 1..Len(U)
      /\ p \in 0..Len(T) /\ q \in 0..Len(U) /\ From(U, q) = From(T, p)
  <2>1. p \in 0..Len(T) /\ q \in 0..Len(U) /\ From(U, q) = From(T, p)
    BY DEF Cuts
  <2> HIDE DEF T, U
  <2> QED
    BY <1>1, <2>1
<1>a. /\ \A i \in 1..q : U[i].at # "end"
      /\ \A i \in DOMAIN T : T[i].at = "end" => (i <= p <=> T[i].d >= j)
      /\ \A i \in DOMAIN U : /\ Reach(U[i]) <= j + 1
                            /\ \E m \in DOMAIN T : Reach(U[i]) <= Reach(T[m])
  BY DEF Cuts
<1>4. \A i \in DOMAIN st2 : Nested(st2[i].todo)
  <2> SUFFICES ASSUME NEW i \in DOMAIN st2 PROVE Nested(st2[i].todo)
    OBVIOUS
  <2>1. CASE i = k
    BY <1>d, <2>1
  <2>2. CASE i # k
    <3>1. i \in 1..k - 1 /\ i \in DOMAIN st
      BY <1>1, <2>2
    <3> QED
      BY <1>d, <3>1 DEF Sound
  <2> QED
    BY <2>1, <2>2
<1>b. /\ \A n \in DOMAIN T : T[n].at = "end" =>
           \E h \in DOMAIN ex : ex[h].level = k /\ ex[h].d = T[n].d
      /\ \A n \in DOMAIN T : \A g \in 0..Reach(T[n]) - 1 :
           g \in DOMAIN st[k].slots /\ Remains(ex, k, g, st[k].slots[g])
  BY DEF Sound, Pushed, Linked
<1>c. st2[k].todo = U /\ st[k].todo = T
  OBVIOUS
<1> HIDE DEF T, U
<1>5. ASSUME NEW i \in DOMAIN ex2
      PROVE  Backed(ex2[i], st2)
  <2>1. PICK h \in DOMAIN ex : ex2[i] = ex[h]
    BY <1>2
  <2> DEFINE f == ex[h]
  <2>2. f \in Frames /\ f.level \in Nat /\ f.d \in Nat
    BY <1>1, FrameIs
  <2>3. ~(f.level > k) /\ (f.level = k => ~(f.d >= j))
    BY <1>2, <2>1 DEF Inside
  <2>4. f.level \in DOMAIN st /\ \E n \in DOMAIN st[f.level].todo : EndOf(f, st[f.level].todo, n)
    BY DEF Sound, Backed
  <2>5. f.level \in 1..k /\ f.level \in DOMAIN st2
    BY <1>1, <2>2, <2>3, <2>4
  <2>6. CASE f.level # k
    <3>0. f.level \in 1..k - 1
      BY <1>1, <2>5, <2>6
    <3>1. st2[f.level] = st[f.level]
      BY <1>d, <3>0
    <3> QED
      BY <2>1, <2>4, <2>5, <3>1 DEF Backed
  <2>7. CASE f.level = k
    <3>1. PICK n \in DOMAIN T : EndOf(f, T, n)
      BY <1>c, <2>4, <2>7
    <3>2. T[n].at = "end" /\ T[n].d = f.d
      BY <3>1 DEF EndOf, EndOfBody
    <3>3. n \in 1..Len(T) /\ n > p
      <4>1. ~(n <= p)
        BY <1>a, <2>3, <2>7, <3>2
      <4> QED
        BY <1>0, <4>1
    <3>4. \E r \in DOMAIN U : EndOf(f, U, r)
      BY <1>0, <1>1, <3>1, <3>3, EndMoves
    <3> QED
      BY <1>c, <2>1, <2>5, <2>7, <3>4 DEF Backed
  <2> QED
    BY <2>6, <2>7
<1>6. Pushed(st2, ex2)
  <2> SUFFICES ASSUME NEW i \in DOMAIN st2, NEW n \in DOMAIN st2[i].todo,
                      st2[i].todo[n].at = "end"
               PROVE  \E h \in DOMAIN ex2 : ex2[h].level = i /\ ex2[h].d = st2[i].todo[n].d
    BY DEF Pushed
  <2>1. i \in DOMAIN st /\ i \in 1..k
    BY <1>1
  <2>2. CASE i # k
    <3>0. i \in 1..k - 1 /\ ~(i > k)
      BY <1>1, <2>1, <2>2
    <3>1. st2[i] = st[i] /\ ~(i > k)
      BY <1>d, <3>0
    <3>2. PICK h \in DOMAIN ex : ex[h].level = i /\ ex[h].d = st2[i].todo[n].d
      <4>1. n \in DOMAIN st[i].todo /\ st[i].todo[n].at = "end"
        BY <3>1
      <4>2. Pushed(st, ex)
        BY DEF Sound
      <4>3. \E h \in DOMAIN ex : ex[h].level = i /\ ex[h].d = st[i].todo[n].d
        BY <2>1, <4>1, <4>2 DEF Pushed
      <4> QED
        BY <3>1, <4>3
    <3>3. ~Inside(ex[h], k, j)
      BY <2>2, <3>1, <3>2 DEF Inside
    <3> QED
      BY <1>2, <3>2, <3>3
  <2>3. CASE i = k
    <3>1. n \in DOMAIN U /\ n > q
      BY <1>0, <1>a, <1>c, <2>3
    <3>2. PICK m \in DOMAIN T : m > p /\ T[m] = U[n]
      BY <1>0, <1>1, <3>1, Aligned
    <3>3. T[m].at = "end" /\ ~(U[n].d >= j)
      <4>1. ~(m <= p)
        BY <1>0, <3>2
      <4> QED
        BY <1>a, <1>c, <2>3, <3>2, <4>1
    <3>4. PICK h \in DOMAIN ex : ex[h].level = k /\ ex[h].d = U[n].d
      BY <1>b, <3>2, <3>3
    <3>5. ~Inside(ex[h], k, j)
      BY <1>1, <3>3, <3>4 DEF Inside
    <3> QED
      BY <1>2, <1>c, <2>3, <3>4, <3>5
  <2> QED
    BY <2>2, <2>3
<1>7. Linked(st2, ex2)
  <2> SUFFICES ASSUME NEW i \in DOMAIN st2, NEW n \in DOMAIN st2[i].todo,
                      NEW g \in 0..Reach(st2[i].todo[n]) - 1
               PROVE  g \in DOMAIN st2[i].slots /\ Remains(ex2, i, g, st2[i].slots[g])
    BY DEF Linked
  <2>1. i \in DOMAIN st /\ i \in 1..k
    BY <1>1
  <2>2. CASE i # k
    <3>0. i \in 1..k - 1 /\ i < k
      BY <1>1, <2>1, <2>2
    <3>1. st2[i] = st[i] /\ i < k
      BY <1>d, <3>0
    <3>2. g \in DOMAIN st[i].slots /\ Remains(ex, i, g, st[i].slots[g])
      BY <2>1, <3>1 DEF Sound, Linked
    <3>3. ASSUME NEW h \in DOMAIN ex, Inside(ex[h], k, j)
          PROVE  Inside(ex[h], i, g)
      <4>1. ex[h].level \in Nat
        BY <1>1, FrameIs
      <4> QED
        BY <1>1, <2>1, <3>1, <3>3, <4>1 DEF Inside
    <3> QED
      BY <1>1, <3>1, <3>2, <3>3, RemainsOfRest
  <2>3. CASE i = k
    <3>1. PICK m \in DOMAIN T : Reach(U[n]) <= Reach(T[m])
      BY <1>a, <1>c, <2>3
    <3>2. Reach(U[n]) \in Nat /\ Reach(T[m]) \in Nat /\ Reach(U[n]) <= j + 1
      <4>1. U[n] \in Items /\ T[m] \in Items
        BY <1>1, <1>c, <2>3
      <4> QED
        BY <1>a, <1>c, <2>3, <4>1, ItemIs
    <3>3. g \in 0..Reach(T[m]) - 1 /\ g <= j /\ g \in Nat
      BY <1>c, <2>3, <3>1, <3>2
    <3>4. g \in DOMAIN st[k].slots /\ Remains(ex, k, g, st[k].slots[g])
      BY <1>b, <3>3
    <3>5. ASSUME NEW h \in DOMAIN ex, Inside(ex[h], k, j)
          PROVE  Inside(ex[h], k, g)
      <4>1. ex[h].level \in Nat /\ ex[h].d \in Nat
        BY <1>1, FrameIs
      <4> QED
        BY <1>1, <3>3, <3>5, <4>1 DEF Inside
    <3> QED
      BY <1>d, <1>1, <2>3, <3>4, <3>5, RemainsOfRest
  <2> QED
    BY <2>2, <2>3
<1> QED
  BY <1>2, <1>4, <1>5, <1>6, <1>7 DEF Sound

\* The innermost activation ends, and its frames are dropped.
LEMMA SoundPop ==
  ASSUME NEW st, NEW ex, Sound(st, ex), st # <<>>, NEW ex2, Remains(ex, Len(st), 0, ex2)
  PROVE  Sound(SubSeq(st, 1, Len(st) - 1), ex2)
<1> DEFINE K == Len(st)
           st2 == SubSeq(st, 1, K - 1)
<1>1. /\ st \in Seq(Activations) /\ ex \in Seq(Frames) /\ Ordered(ex)
      /\ K \in Nat /\ K # 0 /\ DOMAIN st = 1..K
  BY DEF Sound
<1>2. /\ ex2 \in Seq(Frames) /\ Ordered(ex2)
      /\ \A i \in DOMAIN ex2 : ~Inside(ex2[i], K, 0) /\ \E h \in DOMAIN ex : ex2[i] = ex[h]
      /\ \A h \in DOMAIN ex : Inside(ex[h], K, 0) \/ \E i \in DOMAIN ex2 : ex2[i] = ex[h]
  BY <1>1, RemainsIs
<1>3. /\ st2 \in Seq(Activations) /\ DOMAIN st2 = 1..K - 1
      /\ \A i \in 1..K - 1 : i \in DOMAIN st /\ st2[i] = st[i]
  BY <1>1
<1> HIDE DEF st2, K
<1>4. \A i \in DOMAIN st2 : Nested(st2[i].todo)
  BY <1>3 DEF Sound
<1>5. ASSUME NEW i \in DOMAIN ex2
      PROVE  Backed(ex2[i], st2)
  <2>1. PICK h \in DOMAIN ex : ex2[i] = ex[h]
    BY <1>2
  <2>2. ex[h].level \in Nat /\ ex[h].d \in Nat
    BY <1>1, FrameIs
  <2>3. Backed(ex[h], st)
    BY DEF Sound
  <2>4. ex[h].level \in 1..K - 1
    BY <1>1, <1>2, <2>1, <2>2, <2>3 DEF Inside, Backed
  <2>5. ex[h].level \in DOMAIN st2 /\ st2[ex[h].level] = st[ex[h].level]
    BY <1>3, <2>4
  <2> QED
    BY <2>1, <2>3, <2>5 DEF Backed
<1>6. Pushed(st2, ex2)
  <2> SUFFICES ASSUME NEW k \in DOMAIN st2, NEW n \in DOMAIN st2[k].todo,
                      st2[k].todo[n].at = "end"
               PROVE  \E h \in DOMAIN ex2 : ex2[h].level = k /\ ex2[h].d = st2[k].todo[n].d
    BY DEF Pushed
  <2>1. k \in DOMAIN st /\ st2[k] = st[k] /\ k < K /\ k \in Nat
    BY <1>1, <1>3
  <2>2. PICK h \in DOMAIN ex : ex[h].level = k /\ ex[h].d = st2[k].todo[n].d
    BY <2>1 DEF Sound, Pushed
  <2>3. ~Inside(ex[h], K, 0)
    BY <1>1, <2>1, <2>2 DEF Inside
  <2> QED
    BY <1>2, <2>2, <2>3
<1>7. Linked(st2, ex2)
  <2> SUFFICES ASSUME NEW k \in DOMAIN st2, NEW n \in DOMAIN st2[k].todo,
                      NEW g \in 0..Reach(st2[k].todo[n]) - 1
               PROVE  g \in DOMAIN st2[k].slots /\ Remains(ex2, k, g, st2[k].slots[g])
    BY DEF Linked
  <2>1. k \in DOMAIN st /\ st2[k] = st[k] /\ k < K /\ k \in Nat
    BY <1>1, <1>3
  <2>2. g \in DOMAIN st[k].slots /\ Remains(ex, k, g, st[k].slots[g])
    BY <2>1 DEF Sound, Linked
  <2>3. ASSUME NEW h \in DOMAIN ex, Inside(ex[h], K, 0)
        PROVE  Inside(ex[h], k, g)
    <3>1. ex[h].level \in Nat
      BY <1>1, FrameIs
    <3> QED
      BY <1>1, <2>1, <2>3, <3>1 DEF Inside
  <2>4. Remains(ex, K, 0, ex2)
    BY DEF K
  <2> QED
    BY <1>1, <2>1, <2>2, <2>3, <2>4, RemainsOfRest
<1> QED
  BY <1>2, <1>3, <1>4, <1>5, <1>6, <1>7 DEF Sound, st2, K

\* A function is called, or a signal arrives.
LEMMA SoundPush ==
  ASSUME NEW st, NEW ex, Sound(st, ex), NEW a \in Activations, NEW s \in Blocks,
         a.todo = <<Code(s, 0, -1)>>
  PROVE  Sound(Append(st, a), ex)
<1> DEFINE st2 == Append(st, a)
<1>1. /\ st \in Seq(Activations) /\ ex \in Seq(Frames) /\ Ordered(ex)
      /\ st2 \in Seq(Activations) /\ Len(st) \in Nat
      /\ DOMAIN st = 1..Len(st) /\ DOMAIN st2 = 1..Len(st) + 1
      /\ \A i \in DOMAIN st : st2[i] = st[i] /\ i \in DOMAIN st2
      /\ st2[Len(st) + 1] = a
  BY DEF Sound
<1> HIDE DEF st2
<1>2. /\ Code(s, 0, -1) \in Items /\ Reach(Code(s, 0, -1)) = 0
      /\ Code(s, 0, -1).at = "code" /\ Code(s, 0, -1).l = -1
  <2>1. 0 \in Nat /\ -1 \in Levels /\ 0 \in Int
    BY DEF Levels
  <2> QED
    BY <2>1, CodeIs
<1>3. /\ DOMAIN a.todo = {1} /\ a.todo[1] = Code(s, 0, -1) /\ a.todo \in Seq(Items)
  BY <1>2
<1>4. Nested(a.todo)
  BY <1>2, <1>3 DEF Nested, Descends, Closed, Looped
<1>5. \A k \in DOMAIN st2 : k \in DOMAIN st \/ st2[k] = a
  BY <1>1
<1>6. \A k \in DOMAIN st2 : Nested(st2[k].todo)
  BY <1>1, <1>4, <1>5 DEF Sound
<1>7. \A i \in DOMAIN ex : Backed(ex[i], st2)
  BY <1>1 DEF Sound, Backed
<1>8. Pushed(st2, ex)
  BY <1>1, <1>2, <1>3, <1>5 DEF Sound, Pushed
<1>9. Linked(st2, ex)
  <2> SUFFICES ASSUME NEW k \in DOMAIN st2, NEW n \in DOMAIN st2[k].todo,
                      NEW g \in 0..Reach(st2[k].todo[n]) - 1
               PROVE  g \in DOMAIN st2[k].slots /\ Remains(ex, k, g, st2[k].slots[g])
    BY DEF Linked
  <2>1. CASE k \in DOMAIN st
    BY <1>1, <2>1 DEF Sound, Linked
  <2>2. CASE st2[k] = a
    BY <1>2, <1>3, <2>2
  <2> QED
    BY <1>5, <2>1, <2>2
<1> QED
  BY <1>1, <1>6, <1>7, <1>8, <1>9 DEF Sound, st2

-----------------------------------------------------------------------------
(* The innermost activation and what it runs *)

LEMMA TopIs ==
  ASSUME NEW st, NEW ex, Sound(st, ex), st # <<>>
  PROVE  /\ st \in Seq(Activations) /\ ex \in Seq(Frames)
         /\ Len(st) \in Nat /\ Len(st) # 0 /\ Len(st) \in DOMAIN st /\ DOMAIN st = 1..Len(st)
         /\ st[Len(st)] \in Activations
         /\ st[Len(st)].todo \in Seq(Items) /\ Nested(st[Len(st)].todo)
<1>1. st \in Seq(Activations) /\ ex \in Seq(Frames) /\ Len(st) \in DOMAIN st
  BY DEF Sound
<1> QED
  BY <1>1, ActivationIs DEF Sound

LEMMA FirstIs ==
  ASSUME NEW T \in Seq(Items), Nested(T), T # <<>>
  PROVE  /\ 1 \in DOMAIN T /\ 1 \in 0..Len(T) /\ Len(T) \in Nat /\ DOMAIN T = 1..Len(T)
         /\ T[1] \in Items /\ T[1].d \in Nat
         /\ \A n \in DOMAIN T : Reach(T[n]) <= Reach(T[1])
         /\ Tail(T) = From(T, 1)
<1>1. 1 \in DOMAIN T /\ 1 \in 0..Len(T) /\ Len(T) \in Nat /\ DOMAIN T = 1..Len(T) /\ T[1] \in Items
  OBVIOUS
<1>2. \A n \in DOMAIN T : Reach(T[n]) <= Reach(T[1])
  <2> SUFFICES ASSUME NEW n \in DOMAIN T PROVE Reach(T[n]) <= Reach(T[1])
    OBVIOUS
  <2>1. CASE n = 1
    BY <1>1, <2>1, ItemIs
  <2>2. CASE n # 1
    BY <1>1, <2>2 DEF Nested, Descends
  <2> QED
    BY <2>1, <2>2
<1>3. Tail(T) = From(T, 1)
  BY <1>1 DEF From
<1> QED
  BY <1>1, <1>2, <1>3, ItemIs

\* What follows a statement is nested as the statement was.
Following(T, a) == <<Code(a, T[1].d, T[1].l)>> \o From(T, 1)

LEMMA AfterIs ==
  ASSUME NEW T \in Seq(Items), Nested(T), T # <<>>, T[1].at = "code", NEW a \in Blocks
  PROVE  LET A == Following(T, a) IN
         /\ A \in Seq(Items) /\ Nested(A) /\ Len(A) = Len(T)
         /\ From(A, 1) = From(T, 1)
         /\ A[1] = Code(a, T[1].d, T[1].l) /\ A # <<>>
         /\ \A n \in DOMAIN A : Reach(A[n]) <= T[1].d
         /\ T[1].l # -1 => LoopOf(A, 0, T[1].l)
<1> DEFINE i == Code(a, T[1].d, T[1].l)
           u == From(T, 1)
           A == Following(T, a)
<1>1. /\ T[1] \in Items /\ T[1].d \in Nat /\ T[1].l \in Levels /\ Reach(T[1]) = T[1].d
      /\ \A n \in DOMAIN T : Reach(T[n]) <= T[1].d
      /\ 1 \in 0..Len(T) /\ DOMAIN T = 1..Len(T) /\ Len(T) \in Nat
  <2>1. /\ 1 \in 0..Len(T) /\ DOMAIN T = 1..Len(T) /\ Len(T) \in Nat
        /\ T[1] \in Items /\ T[1].d \in Nat
        /\ \A n \in DOMAIN T : Reach(T[n]) <= Reach(T[1])
    BY FirstIs
  <2>2. T[1].l \in Levels
    BY <2>1, ItemIs
  <2>3. Reach(T[1]) = T[1].d
    BY DEF Reach
  <2> QED
    BY <2>1, <2>2, <2>3
<1>2. i \in Items /\ Reach(i) = T[1].d /\ i.at = "code" /\ i.l = T[1].l
  BY <1>1 DEF Code, Items, Reach
<1>3. /\ u \in Seq(Items) /\ Len(u) = Len(T) - 1 /\ Nested(u)
      /\ \A n \in 1..Len(T) - 1 : u[n] = T[1 + n]
  <2>1. 1 \in 0..Len(T)
    BY <1>1
  <2>2. /\ u \in Seq(Items) /\ Len(u) = Len(T) - 1
        /\ \A n \in 1..Len(T) - 1 : u[n] = T[1 + n]
    BY <2>1, FromIs
  <2>3. Nested(u)
    BY <2>1, NestedFrom
  <2> QED
    BY <2>2, <2>3
<1> HIDE DEF i, u, A
<1>4. \A n \in DOMAIN u : Reach(u[n]) <= T[1].d
  <2> SUFFICES ASSUME NEW n \in DOMAIN u PROVE Reach(u[n]) <= T[1].d
    OBVIOUS
  <2>1. n \in 1..Len(T) - 1 /\ 1 + n \in DOMAIN T
    BY <1>1, <1>3
  <2> QED
    BY <1>1, <1>3, <2>1
<1>5. T[1].l # -1 => T[1].l \in Nat /\ LoopOf(u, 0, T[1].l)
  <2> SUFFICES ASSUME T[1].l # -1 PROVE T[1].l \in Nat /\ LoopOf(u, 0, T[1].l)
    OBVIOUS
  <2>1. T[1].l \in Nat /\ 1 \in DOMAIN T
    BY <1>1 DEF Levels
  <2>2. LoopOf(T, 1, T[1].l)
    BY <2>1 DEF Nested, Looped
  <2> QED
    BY <1>1, <2>1, <2>2, LoopFrom DEF u
<1>6. A = <<i>> \o u
  BY DEF i, u, A, Following
<1>7. Nested(A)
  BY <1>2, <1>3, <1>4, <1>5, <1>6, NestedCons
<1>8. /\ A \in Seq(Items) /\ Len(A) = Len(u) + 1 /\ A[1] = i
      /\ \A n \in 1..Len(u) : A[n + 1] = u[n]
  <2>1. /\ <<i>> \o u \in Seq(Items) /\ Len(<<i>> \o u) = Len(u) + 1 /\ (<<i>> \o u)[1] = i
        /\ \A n \in 1..Len(u) : (<<i>> \o u)[n + 1] = u[n]
    BY <1>2, <1>3, ConsIs
  <2> QED
    BY <1>6, <2>1
<1>9. From(A, 1) = u
  BY <1>2, <1>3, <1>6, ConsFrom
<1>10. \A n \in DOMAIN A : Reach(A[n]) <= T[1].d
  <2> SUFFICES ASSUME NEW n \in DOMAIN A PROVE Reach(A[n]) <= T[1].d
    OBVIOUS
  <2>1. CASE n = 1
    BY <1>1, <1>2, <1>8, <2>1
  <2>2. CASE n # 1
    <3>1. n - 1 \in 1..Len(u) /\ (n - 1) + 1 = n /\ n - 1 \in DOMAIN u
      BY <1>1, <1>3, <1>8, <2>2
    <3> QED
      BY <1>4, <1>8, <3>1
  <2> QED
    BY <2>1, <2>2
<1>11. T[1].l # -1 => LoopOf(A, 0, T[1].l)
  BY <1>2, <1>3, <1>5, <1>6, LoopCons
<1>12. Len(A) = Len(T) /\ A # <<>>
  <2>1. Len(A) = Len(T)
    <3>1. Len(A) = Len(u) + 1 /\ Len(u) = Len(T) - 1 /\ Len(T) \in Nat
      BY <1>1, <1>3, <1>8
    <3> QED
      BY <3>1
  <2>2. Len(T) # 0
    BY <1>1
  <2>3. A = <<>> => Len(A) = 0
    OBVIOUS
  <2> QED
    BY <2>1, <2>2, <2>3
<1> QED
  BY <1>7, <1>8, <1>9, <1>10, <1>11, <1>12 DEF i, u, A

\* U is T with its first p items replaced by q that reach no further than d.
Refilled(T, p, U, q, d) ==
  /\ T \in Seq(Items) /\ p \in 0..Len(T)
  /\ U \in Seq(Items) /\ q \in 0..Len(U)
  /\ From(T, p) = From(U, q)
  /\ d \in Nat
  /\ \A n \in DOMAIN T : Reach(T[n]) <= d
  /\ \A i \in 1..q : Reach(U[i]) <= d

LEMMA StillBelow ==
  ASSUME NEW T, NEW p, NEW U, NEW q, NEW d, Refilled(T, p, U, q, d)
  PROVE  \A i \in DOMAIN U : Reach(U[i]) <= d
<1> USE DEF Refilled
<1> SUFFICES ASSUME NEW i \in DOMAIN U, i > q PROVE Reach(U[i]) <= d
  <2>1. \A i \in DOMAIN U : i \in 1..q \/ i > q
    OBVIOUS
  <2> QED
    BY <2>1
<1>1. \E r \in DOMAIN T : /\ r > p /\ T[r] = U[i] /\ r - p = i - q
                         /\ From(T, r) = From(U, i)
  BY Aligned
<1> QED
  BY <1>1

\* The first item of the innermost activation gives way to others no deeper.
LEMMA SoundStay ==
  ASSUME NEW st, NEW ex, Sound(st, ex), st # <<>>,
         NEW T, T = st[Len(st)].todo, T # <<>>, T[1].at \in {"code", "loop"},
         NEW st2 \in Seq(Activations), Len(st2) = Len(st),
         \A i \in 1..Len(st) - 1 : st2[i] = st[i],
         st2[Len(st)].slots = st[Len(st)].slots,
         NEW U, U = st2[Len(st)].todo, Nested(U),
         NEW q \in 0..Len(U), From(U, q) = From(T, 1),
         \A i \in 1..q : U[i].at # "end" /\ Reach(U[i]) <= T[1].d
  PROVE  Sound(st2, ex)
<1> DEFINE K == Len(st)
           d == T[1].d
<1>1. /\ st \in Seq(Activations) /\ ex \in Seq(Frames) /\ K \in Nat /\ K \in DOMAIN st
      /\ T \in Seq(Items) /\ Nested(T) /\ DOMAIN st = 1..K
  BY TopIs
<1>2. U \in Seq(Items)
  <2>1. Len(st) \in DOMAIN st2
    BY <1>1
  <2> QED
    BY <2>1, ActivationIs
<1>3. /\ 1 \in DOMAIN T /\ 1 \in 0..Len(T) /\ Len(T) \in Nat /\ DOMAIN T = 1..Len(T)
      /\ d \in Nat /\ Reach(T[1]) = d
      /\ \A n \in DOMAIN T : Reach(T[n]) <= d
  BY <1>1, FirstIs DEF Reach
<1>4. ASSUME NEW i \in DOMAIN ex
      PROVE  ~Inside(ex[i], K, d)
  <2>1. ex[i].level \in Nat /\ ex[i].d \in Nat
    BY <1>1, FrameIs
  <2>2. ex[i].level \in 1..K
    BY <1>1 DEF Sound, Backed
  <2>3. ex[i].level = K => ex[i].d < d
    BY <1>1, <1>3, FrameBelow
  <2> HIDE DEF K, d
  <2> QED
    BY <1>1, <1>3, <2>1, <2>2, <2>3 DEF Inside
<1>5. Remains(ex, K, d, ex)
  BY <1>1, <1>4, RemainsAll
<1>6. \A i \in DOMAIN T : T[i].at = "end" => (i <= 1 <=> T[i].d >= d)
  <2> SUFFICES ASSUME NEW i \in DOMAIN T, T[i].at = "end"
               PROVE  i <= 1 <=> T[i].d >= d
    OBVIOUS
  <2>1. i \in 1..Len(T) /\ i # 1
    BY <1>3
  <2>2. T[i].d \in Nat /\ Reach(T[i]) = T[i].d + 1 /\ Reach(T[i]) <= d
    BY <1>1, <1>3, ItemIs DEF Reach
  <2> HIDE DEF d
  <2> QED
    BY <1>3, <2>1, <2>2
<1>7. \A i \in DOMAIN U : Reach(U[i]) <= d
  <2>1. From(T, 1) = From(U, q) /\ \A i \in 1..q : Reach(U[i]) <= d
    OBVIOUS
  <2>2. q \in 0..Len(U) /\ 1 \in 0..Len(T) /\ d \in Nat /\ \A n \in DOMAIN T : Reach(T[n]) <= d
    BY <1>3
  <2>3. T \in Seq(Items) /\ U \in Seq(Items)
    BY <1>1, <1>2
  <2> HIDE DEF d, K
  <2>4. Refilled(T, 1, U, q, d)
    BY <2>1, <2>2, <2>3 DEF Refilled
  <2> QED
    BY <2>4, StillBelow
<1>8. \A i \in DOMAIN U : /\ Reach(U[i]) <= d + 1
                          /\ \E m \in DOMAIN T : Reach(U[i]) <= Reach(T[m])
  <2> SUFFICES ASSUME NEW i \in DOMAIN U
               PROVE  Reach(U[i]) <= d + 1 /\ Reach(U[i]) <= Reach(T[1])
    BY <1>3
  <2>1. U[i] \in Items /\ Reach(U[i]) \in Nat
    BY <1>2, ItemIs
  <2> QED
    BY <1>3, <1>7, <2>1
<1>9. Cuts(st, K, d, st2, 1, q)
  <2>1. st2[K].todo = U /\ st[K].todo = T
    OBVIOUS
  <2>2. \A i \in 1..q : U[i].at # "end"
    OBVIOUS
  <2> HIDE DEF d
  <2> QED
    BY <1>3, <1>6, <1>8, <2>1, <2>2 DEF Cuts
<1> HIDE DEF d, K
<1> QED
  BY <1>1, <1>3, <1>5, <1>9, SoundCut

-----------------------------------------------------------------------------
(* try *)

\* What a try leaves to run when its body begins, with rest behind it.
Entered(t, d, l, rest) ==
  <<Code(t.body, d + 1, l)>> \o (<<EndOfBody(d)>> \o (<<Code(t.final, d + 1, l)>> \o rest))

LEMMA TryIs ==
  ASSUME NEW t \in Tries
  PROVE  t \in Statements /\ t.body \in Blocks /\ t.final \in Blocks /\ t.catches \in Seq(Clauses)
BY ControlAssumption DEF Tries

\* A is what may stand behind the items of a try of depth d and loop l.
Fits(A, d, l) ==
  /\ A \in Seq(Items) /\ Nested(A)
  /\ d \in Nat /\ l \in Levels
  /\ \A n \in DOMAIN A : Reach(A[n]) <= d
  /\ l # -1 => LoopOf(A, 0, l)

LEMMA FinalIs ==
  ASSUME NEW A, NEW d, NEW l, Fits(A, d, l), NEW s \in Blocks
  PROVE  LET B == <<Code(s, d + 1, l)>> \o A IN
         /\ B \in Seq(Items) /\ Nested(B) /\ Len(B) = Len(A) + 1 /\ From(B, 1) = A
         /\ B[1] = Code(s, d + 1, l) /\ B # <<>>
         /\ B[1].at = "code" /\ B[1].d = d + 1
         /\ \A n \in DOMAIN B : Reach(B[n]) <= d + 1 /\ (n > 1 => Reach(B[n]) <= d)
         /\ l # -1 => LoopOf(B, 0, l)
<1> DEFINE i == Code(s, d + 1, l)
           B == <<i>> \o A
<1> USE DEF Fits
<1>1. d + 1 \in Nat /\ 0 \in Int
  OBVIOUS
<1>2. /\ i \in Items /\ Reach(i) = d + 1 /\ i.at = "code" /\ i.l = l /\ i.d = d + 1
      /\ i.at # "end" /\ i.at # "loop"
  BY <1>1, CodeIs
<1> HIDE DEF i
<1>3. \A n \in DOMAIN A : Reach(A[n]) \in Nat
  BY ItemIs
<1>4. l # -1 => l \in Nat
  BY DEF Levels
<1>5. Nested(B)
  <2>1. \A n \in DOMAIN A : Reach(A[n]) <= Reach(i)
    BY <1>2, <1>3
  <2> QED
    BY <1>2, <2>1, NestedCons
<1>6. B \in Seq(Items) /\ Len(B) = Len(A) + 1 /\ B[1] = i /\ \A n \in 1..Len(A) : B[n + 1] = A[n]
  BY <1>2, ConsIs
<1>7. From(B, 1) = A
  BY <1>2, ConsFrom
<1>8. l # -1 => LoopOf(B, 0, l)
  BY <1>2, <1>4, LoopCons
<1> HIDE DEF B
<1>9. \A n \in DOMAIN B : Reach(B[n]) <= d + 1 /\ (n > 1 => Reach(B[n]) <= d)
  <2> SUFFICES ASSUME NEW n \in DOMAIN B
               PROVE  Reach(B[n]) <= d + 1 /\ (n > 1 => Reach(B[n]) <= d)
    OBVIOUS
  <2>1. CASE n = 1
    BY <1>2, <1>6, <2>1
  <2>2. CASE n # 1
    <3>1. n - 1 \in 1..Len(A) /\ (n - 1) + 1 = n /\ n - 1 \in DOMAIN A
      BY <1>6, <2>2
    <3>2. B[n] = A[n - 1] /\ Reach(A[n - 1]) <= d /\ Reach(A[n - 1]) \in Nat
      BY <1>3, <1>6, <3>1
    <3> QED
      BY <3>2
  <2> QED
    BY <2>1, <2>2
<1>10. B # <<>>
  <2>1. B = <<>> => Len(B) = 0
    OBVIOUS
  <2> QED
    BY <1>6, <2>1
<1> QED
  BY <1>2, <1>5, <1>6, <1>7, <1>8, <1>9, <1>10 DEF B, i

LEMMA EnteredIs ==
  ASSUME NEW A, NEW d, NEW l, Fits(A, d, l), NEW t \in Tries
  PROVE  LET U == Entered(t, d, l, A) IN
         /\ U \in Seq(Items) /\ Nested(U) /\ Len(U) = Len(A) + 3 /\ From(U, 3) = A
         /\ U[1] = Code(t.body, d + 1, l) /\ U[2] = EndOfBody(d)
         /\ U[3] = Code(t.final, d + 1, l)
         /\ \A n \in DOMAIN U : Reach(U[n]) <= d + 1
<1> DEFINE B == <<Code(t.final, d + 1, l)>> \o A
           C == <<EndOfBody(d)>> \o B
           i == Code(t.body, d + 1, l)
           U == <<i>> \o C
<1>0. /\ A \in Seq(Items) /\ Nested(A)
      /\ d \in Nat /\ l \in Levels
      /\ \A n \in DOMAIN A : Reach(A[n]) <= d
      /\ l # -1 => LoopOf(A, 0, l)
  BY DEF Fits
<1> USE <1>0
<1>1. t.body \in Blocks /\ t.final \in Blocks /\ d + 1 \in Nat /\ 0 \in Int
  BY TryIs
<1>2. /\ B \in Seq(Items) /\ Nested(B) /\ Len(B) = Len(A) + 1 /\ From(B, 1) = A
      /\ B[1] = Code(t.final, d + 1, l) /\ B # <<>>
      /\ B[1].at = "code" /\ B[1].d = d + 1
      /\ \A n \in DOMAIN B : Reach(B[n]) <= d + 1 /\ (n > 1 => Reach(B[n]) <= d)
      /\ l # -1 => LoopOf(B, 0, l)
  BY <1>1, FinalIs
<1> HIDE DEF B
<1>3. /\ EndOfBody(d) \in Items /\ Reach(EndOfBody(d)) = d + 1
      /\ EndOfBody(d).at = "end" /\ EndOfBody(d).d = d
      /\ EndOfBody(d).at # "code" /\ EndOfBody(d).at # "loop"
  BY <1>1, CodeIs
<1>4. /\ i \in Items /\ Reach(i) = d + 1 /\ i.at = "code" /\ i.l = l /\ i.at # "end" /\ i.at # "loop"
  BY <1>1, CodeIs
<1> HIDE DEF i
<1>5. C \in Seq(Items) /\ Len(C) = Len(B) + 1 /\ C[1] = EndOfBody(d)
      /\ \A n \in 1..Len(B) : C[n + 1] = B[n]
  BY <1>2, <1>3, ConsIs
<1>6. From(C, 1) = B
  BY <1>2, <1>3, ConsFrom
<1>7. Nested(C)
  <2>1. \A n \in DOMAIN B : Reach(B[n]) <= Reach(EndOfBody(d))
    BY <1>2, <1>3
  <2>2. EndOfBody(d).at = "end" => /\ B # <<>> /\ B[1].at = "code" /\ B[1].d = EndOfBody(d).d + 1
                                   /\ \A n \in DOMAIN B : n > 1 => Reach(B[n]) <= EndOfBody(d).d
    BY <1>2, <1>3
  <2> QED
    BY <1>2, <1>3, <2>1, <2>2, NestedCons
<1>8. l # -1 => LoopOf(C, 0, l)
  <2> SUFFICES ASSUME l # -1 PROVE LoopOf(C, 0, l)
    OBVIOUS
  <2>1. l \in Nat /\ LoopOf(B, 0, l)
    BY <1>2 DEF Levels
  <2> QED
    BY <1>2, <1>3, <2>1, LoopCons
<1> HIDE DEF C
<1>9. \A n \in DOMAIN C : Reach(C[n]) <= d + 1
  <2> SUFFICES ASSUME NEW n \in DOMAIN C PROVE Reach(C[n]) <= d + 1
    OBVIOUS
  <2>1. CASE n = 1
    BY <1>3, <1>5, <2>1
  <2>2. CASE n # 1
    <3>1. n - 1 \in 1..Len(B) /\ (n - 1) + 1 = n /\ n - 1 \in DOMAIN B
      BY <1>5, <2>2
    <3> QED
      BY <1>2, <1>5, <3>1
  <2> QED
    BY <2>1, <2>2
<1>10. Nested(U)
  BY <1>4, <1>5, <1>7, <1>8, <1>9, NestedCons
<1>11. U \in Seq(Items) /\ Len(U) = Len(C) + 1 /\ U[1] = i /\ \A n \in 1..Len(C) : U[n + 1] = C[n]
  BY <1>4, <1>5, ConsIs
<1>12. From(U, 1) = C
  BY <1>4, <1>5, ConsFrom
<1> HIDE DEF U
<1>13. \A n \in DOMAIN U : Reach(U[n]) <= d + 1
  <2> SUFFICES ASSUME NEW n \in DOMAIN U PROVE Reach(U[n]) <= d + 1
    OBVIOUS
  <2>1. CASE n = 1
    BY <1>4, <1>11, <2>1
  <2>2. CASE n # 1
    <3>1. n - 1 \in 1..Len(C) /\ (n - 1) + 1 = n /\ n - 1 \in DOMAIN C
      BY <1>11, <2>2
    <3> QED
      BY <1>9, <1>11, <3>1
  <2> QED
    BY <2>1, <2>2
<1>14. Len(A) \in Nat /\ Len(C) = Len(A) + 2 /\ Len(U) = Len(A) + 3
  BY <1>2, <1>5, <1>11
<1>15. U[2] = EndOfBody(d) /\ U[3] = Code(t.final, d + 1, l)
  <2>1. 1 \in 1..Len(C) /\ 2 \in 1..Len(C) /\ 1 \in 1..Len(B) /\ 1 + 1 = 2 /\ 2 + 1 = 3
    BY <1>2, <1>14
  <2> QED
    BY <1>2, <1>5, <1>11, <2>1
<1>16. From(U, 3) = A
  <2>1. 1 \in 0..Len(C) /\ 1 \in 0..Len(U) /\ 2 \in 0..Len(U) - 1 /\ 1 \in 0..Len(C) - 1
    BY <1>14
  <2>2. From(C, 2) = A
    BY <1>2, <1>5, <1>6, <2>1, FromFrom
  <2>3. From(U, 3) = From(C, 2)
    BY <1>11, <1>12, <2>1, FromFrom
  <2> QED
    BY <2>2, <2>3
<1>17. U = Entered(t, d, l, A)
  BY DEF U, C, B, i, Entered
<1> QED
  BY <1>10, <1>11, <1>13, <1>14, <1>15, <1>16, <1>17 DEF i

\* A try is entered: its frame is put on the exception stack, which becomes the
\* prev of the frame.
Enters(st, ex, f, st2) ==
  /\ Len(st2) = f.level
  /\ \A i \in 1..f.level - 1 : st2[i] = st[i]
  /\ st2[f.level].todo = Entered(f.t, f.d, f.l, f.todo)
  /\ DOMAIN st2[f.level].slots = DOMAIN st[f.level].slots \cup {f.d}
  /\ \A g \in DOMAIN st2[f.level].slots :
       st2[f.level].slots[g] = IF g = f.d THEN ex ELSE st[f.level].slots[g]

LEMMA SoundTry ==
  ASSUME NEW st, NEW ex, Sound(st, ex), st # <<>>,
         NEW T, T = st[Len(st)].todo, T # <<>>, T[1].at = "code",
         NEW t \in Tries, NEW a \in Blocks,
         NEW f \in Frames, f.level = Len(st), f.t = t, f.d = T[1].d, f.l = T[1].l,
         f.todo = Following(T, a),
         NEW st2 \in Seq(Activations), Enters(st, ex, f, st2)
  PROVE  Sound(st2, <<f>> \o ex)
<1> DEFINE K == Len(st)
           d == T[1].d
           A == Following(T, a)
           U == Entered(t, d, T[1].l, A)
           e == <<f>> \o ex
           old == st[K].slots
           new == st2[K].slots
<1>1. /\ st \in Seq(Activations) /\ ex \in Seq(Frames) /\ K \in Nat /\ K # 0 /\ K \in DOMAIN st
      /\ T \in Seq(Items) /\ Nested(T) /\ DOMAIN st = 1..K
  BY TopIs
<1>2. /\ 1 \in DOMAIN T /\ 1 \in 0..Len(T) /\ Len(T) \in Nat /\ DOMAIN T = 1..Len(T)
      /\ d \in Nat /\ Reach(T[1]) = d
      /\ \A n \in DOMAIN T : Reach(T[n]) <= d
  BY <1>1, FirstIs DEF Reach
<1>3. /\ A \in Seq(Items) /\ Nested(A) /\ Len(A) = Len(T)
      /\ From(A, 1) = From(T, 1)
      /\ \A n \in DOMAIN A : Reach(A[n]) <= d
      /\ T[1].l # -1 => LoopOf(A, 0, T[1].l)
  BY <1>1, AfterIs
<1>4. f.l \in Levels /\ T[1].l \in Levels
  BY FrameIs
<1> HIDE DEF A
<1>5. /\ U \in Seq(Items) /\ Nested(U) /\ Len(U) = Len(A) + 3 /\ From(U, 3) = A
      /\ U[1] = Code(t.body, d + 1, T[1].l) /\ U[2] = EndOfBody(d)
      /\ U[3] = Code(t.final, d + 1, T[1].l)
      /\ \A n \in DOMAIN U : Reach(U[n]) <= d + 1
  <2>1. Fits(A, d, T[1].l)
    BY <1>2, <1>3, <1>4 DEF Fits
  <2> QED
    BY <2>1, EnteredIs
<1>6. /\ st2[K].todo = U /\ st[K].todo = T /\ Len(st2) = K /\ DOMAIN st2 = 1..K
      /\ \A i \in 1..K - 1 : st2[i] = st[i]
      /\ f.level = K /\ f.t = t /\ f.d = d /\ f.l = T[1].l /\ f.todo = A
      /\ DOMAIN new = DOMAIN old \cup {d}
      /\ \A g \in DOMAIN new : new[g] = IF g = d THEN ex ELSE old[g]
  BY <1>1 DEF A, Enters
<1> HIDE DEF U, d, K, old, new
<1>7. /\ From(U, 4) = From(T, 1)
      /\ 4 \in 0..Len(U)
  <2>0. Len(U) = Len(T) + 3 /\ Len(T) \in Nat /\ Len(T) >= 1
    BY <1>2, <1>3, <1>5
  <2>1. 3 \in 0..Len(U) /\ 1 \in 0..Len(U) - 3 /\ 3 + 1 = 4 /\ 4 \in 0..Len(U)
    BY <2>0
  <2>2. From(From(U, 3), 1) = From(U, 3 + 1)
    BY <1>5, <2>1, FromFrom
  <2> QED
    BY <1>3, <1>5, <2>1, <2>2
<1>8. \A i \in DOMAIN ex : ex[i] \in Frames /\ ex[i].level \in 1..K /\ (ex[i].level = K => ex[i].d < d)
  <2> SUFFICES ASSUME NEW i \in DOMAIN ex
               PROVE  ex[i] \in Frames /\ ex[i].level \in 1..K /\ (ex[i].level = K => ex[i].d < d)
    OBVIOUS
  <2>1. ex[i] \in Frames
    BY <1>1
  <2>2. ex[i].level \in 1..K
    BY <1>1 DEF Sound, Backed
  <2>3. ex[i].level = K => ex[i].d < d
    BY <1>1, <1>2, <1>6, FrameBelow
  <2> QED
    BY <2>1, <2>2, <2>3
<1>9. /\ e \in Seq(Frames) /\ Len(e) = Len(ex) + 1 /\ e[1] = f /\ 1 \in DOMAIN e
      /\ \A i \in DOMAIN ex : i + 1 \in DOMAIN e /\ e[i + 1] = ex[i]
      /\ \A i \in DOMAIN e : i # 1 => i - 1 \in DOMAIN ex /\ e[i] = ex[i - 1] /\ i > 1
  <2>1. /\ e \in Seq(Frames) /\ Len(e) = Len(ex) + 1 /\ e[1] = f
        /\ \A i \in 1..Len(ex) : e[i + 1] = ex[i]
    BY <1>1, ConsIs
  <2> HIDE DEF e
  <2>2. DOMAIN e = 1..Len(ex) + 1 /\ DOMAIN ex = 1..Len(ex) /\ Len(ex) \in Nat
    BY <1>1, <2>1
  <2>3. \A i \in DOMAIN e : i # 1 => i - 1 \in DOMAIN ex /\ (i - 1) + 1 = i /\ i > 1
    BY <2>2
  <2>4. \A i \in DOMAIN ex : i + 1 \in DOMAIN e
    BY <2>2
  <2>5. 1 \in DOMAIN e
    BY <2>2
  <2>6. \A i \in DOMAIN e : i # 1 => i - 1 \in DOMAIN ex /\ e[i] = ex[i - 1] /\ i > 1
    <3> SUFFICES ASSUME NEW i \in DOMAIN e, i # 1
                 PROVE  i - 1 \in DOMAIN ex /\ e[i] = ex[i - 1] /\ i > 1
      OBVIOUS
    <3>1. i - 1 \in DOMAIN ex /\ (i - 1) + 1 = i /\ i > 1
      BY <2>3
    <3>2. e[(i - 1) + 1] = ex[i - 1]
      BY <2>1, <2>2, <3>1
    <3> QED
      BY <3>1, <3>2
  <2> QED
    BY <2>1, <2>2, <2>4, <2>5, <2>6
<1> HIDE DEF e
<1>10. \A i \in DOMAIN st2 : Nested(st2[i].todo)
  <2> SUFFICES ASSUME NEW i \in DOMAIN st2 PROVE Nested(st2[i].todo)
    OBVIOUS
  <2>1. CASE i = K
    BY <1>5, <1>6, <2>1
  <2>2. CASE i # K
    <3>1. i \in 1..K - 1 /\ i \in DOMAIN st
      BY <1>1, <1>6, <2>2
    <3> QED
      BY <1>6, <3>1 DEF Sound
  <2> QED
    BY <2>1, <2>2
<1>11. Ordered(e)
  <2> SUFFICES ASSUME NEW h \in DOMAIN e, NEW i \in DOMAIN e, h < i
               PROVE  Inside(e[h], e[i].level, e[i].d + 1)
    BY DEF Ordered
  <2>0. i # 1
    <3>1. h \in 1..Len(e) /\ i \in 1..Len(e)
      BY <1>9
    <3> QED
      BY <3>1
  <2>1. i - 1 \in DOMAIN ex /\ e[i] = ex[i - 1]
    BY <1>9, <2>0
  <2>2. CASE h = 1
    <3>1. ex[i - 1].level \in 1..K /\ (ex[i - 1].level = K => ex[i - 1].d < d)
      BY <1>8, <2>1
    <3>2. ex[i - 1].d \in Nat
      BY <1>1, <2>1, FrameIs
    <3>3. ex[i - 1].level < K \/ (ex[i - 1].level = K /\ d >= ex[i - 1].d + 1)
      BY <1>1, <1>2, <3>1, <3>2
    <3>4. e[h] = f /\ f.level = K /\ f.d = d
      BY <1>6, <1>9, <2>2
    <3> QED
      BY <1>1, <2>1, <3>1, <3>3, <3>4 DEF Inside
  <2>3. CASE h # 1
    <3>1. h - 1 \in DOMAIN ex /\ e[h] = ex[h - 1]
      BY <1>9, <2>3
    <3>2. h - 1 < i - 1
      BY <1>9
    <3> QED
      BY <2>1, <3>1, <3>2 DEF Sound, Ordered
  <2> QED
    BY <2>2, <2>3
<1>12. ASSUME NEW i \in DOMAIN e
       PROVE  Backed(e[i], st2)
  <2>1. CASE i = 1
    <3>1. 2 \in DOMAIN U /\ 2 + 1 \in DOMAIN U /\ 2 + 1 = 3 /\ 2 + 2 = 3 + 1
      <4>1. Len(U) = Len(T) + 3 /\ DOMAIN U = 1..Len(U)
        BY <1>3, <1>5
      <4> QED
        BY <1>2, <4>1
    <3>2. U[2 + 1] = Code(f.t.final, f.d + 1, f.l) /\ U[2] = EndOfBody(f.d)
      BY <1>5, <1>6, <3>1
    <3>3. f.todo = SubSeq(U, 2 + 2, Len(U))
      BY <1>5, <1>6, <3>1 DEF From
    <3>4. EndOf(f, U, 2)
      BY <3>1, <3>2, <3>3 DEF EndOf
    <3>5. f.level \in DOMAIN st2 /\ st2[f.level].todo = U
      BY <1>1, <1>6
    <3> QED
      BY <1>9, <2>1, <3>1, <3>4, <3>5 DEF Backed
  <2>2. CASE i # 1
    <3>1. i - 1 \in DOMAIN ex /\ e[i] = ex[i - 1]
      BY <1>9, <2>2
    <3> DEFINE g == ex[i - 1]
    <3>2. Backed(g, st) /\ g.level \in 1..K
      BY <1>8, <3>1 DEF Sound
    <3> HIDE DEF g
    <3>3. CASE g.level = K
      <4>1. PICK n \in DOMAIN T : EndOf(g, T, n)
        BY <1>6, <3>2, <3>3 DEF Backed
      <4>2. n > 1
        <5>1. T[n].at = "end"
          BY <4>1 DEF EndOf, EndOfBody
        <5>2. n # 1
          BY <5>1
        <5> QED
          BY <1>2, <5>2
      <4>3. \E r \in DOMAIN U : EndOf(g, U, r)
        <5>1. /\ T \in Seq(Items) /\ U \in Seq(Items) /\ 1 \in 0..Len(T) /\ 4 \in 0..Len(U)
              /\ From(U, 4) = From(T, 1) /\ n \in DOMAIN T /\ n > 1 /\ EndOf(g, T, n)
          BY <1>1, <1>2, <1>5, <1>7, <4>1, <4>2
        <5> QED
          BY <5>1, EndMoves
      <4>4. g.level \in DOMAIN st2 /\ st2[g.level].todo = U
        BY <1>1, <1>6, <3>3
      <4> QED
        BY <3>1, <4>3, <4>4 DEF Backed, g
    <3>4. CASE g.level # K
      <4>1. g.level \in 1..K - 1
        BY <1>1, <3>2, <3>4
      <4>2. g.level \in DOMAIN st2 /\ st2[g.level] = st[g.level]
        BY <1>1, <1>6, <4>1
      <4> QED
        BY <3>1, <3>2, <4>2 DEF Backed, g
    <3> QED
      BY <3>3, <3>4
  <2> QED
    BY <2>1, <2>2
<1>13. Pushed(st2, e)
  <2> SUFFICES ASSUME NEW k \in DOMAIN st2, NEW n \in DOMAIN st2[k].todo,
                      st2[k].todo[n].at = "end"
               PROVE  \E i \in DOMAIN e : e[i].level = k /\ e[i].d = st2[k].todo[n].d
    BY DEF Pushed
  <2>0. Pushed(st, ex)
    BY DEF Sound
  <2>1. CASE k # K
    <3>1. k \in 1..K - 1 /\ k \in DOMAIN st
      BY <1>1, <1>6, <2>1
    <3>2. st2[k] = st[k]
      BY <1>6, <3>1
    <3>3. PICK i \in DOMAIN ex : ex[i].level = k /\ ex[i].d = st[k].todo[n].d
      BY <2>0, <3>1, <3>2 DEF Pushed
    <3> QED
      BY <1>9, <3>2, <3>3
  <2>2. CASE k = K
    <3>1. n \in DOMAIN U /\ U[n].at = "end" /\ n \in 1..Len(U)
      BY <1>5, <1>6, <2>2
    <3>2. CASE n = 2
      <4>1. U[n].d = d
        BY <1>5, <3>2 DEF EndOfBody
      <4>2. e[1].level = k /\ e[1].d = st2[k].todo[n].d
        BY <1>6, <1>9, <2>2, <4>1
      <4> QED
        BY <1>9, <4>2
    <3>3. CASE n # 2
      <4>0. n # 1 /\ n # 3
        BY <1>5, <3>1 DEF Code
      <4>1. n = 4 \/ n > 4
        BY <3>1, <3>3, <4>0
      <4>2. CASE n = 4
        <5>1. U[4] = A[1] /\ A[1].at = "code"
          <6>1. 1 \in 1..Len(U) - 3 /\ 3 \in 0..Len(U)
            BY <1>2, <1>3, <1>5
          <6>2. From(U, 3)[1] = U[3 + 1]
            <7>1. \A m \in 1..Len(U) - 3 : From(U, 3)[m] = U[3 + m]
              <8>1. U \in Seq(Items) /\ 3 \in 0..Len(U)
                BY <1>5, <6>1
              <8> QED
                BY <8>1, FromIs
            <7> QED
              BY <6>1, <7>1
          <6>3. A[1] = Code(a, T[1].d, T[1].l)
            BY <1>1, AfterIs DEF A
          <6> QED
            BY <1>5, <6>2, <6>3 DEF Code
        <5> QED
          BY <3>1, <4>2, <5>1
      <4>3. CASE n > 4
        <5>1. \E r \in DOMAIN T : r > 1 /\ T[r] = U[n] /\ r - 1 = n - 4 /\ From(T, r) = From(U, n)
          <6>1. From(T, 1) = From(U, 4) /\ 4 \in 0..Len(U)
            BY <1>7
          <6>2. T \in Seq(Items) /\ U \in Seq(Items) /\ 1 \in 0..Len(T)
            BY <1>1, <1>2, <1>5
          <6>3. n \in DOMAIN U /\ n > 4
            BY <3>1, <4>3
          <6> QED
            BY <6>1, <6>2, <6>3, Aligned
        <5>2. PICK i \in DOMAIN ex : ex[i].level = K /\ ex[i].d = U[n].d
          <6>1. PICK r \in DOMAIN T : T[r] = U[n]
            BY <5>1
          <6>2. K \in DOMAIN st /\ st[K].todo = T /\ T[r].at = "end"
            BY <1>1, <3>1, <6>1
          <6> QED
            BY <2>0, <6>1, <6>2 DEF Pushed
        <5> QED
          BY <1>6, <1>9, <2>2, <5>2
      <4> QED
        BY <4>1, <4>2, <4>3
    <3> QED
      BY <3>2, <3>3
  <2> QED
    BY <2>1, <2>2
<1>14. Linked(st2, e)
  <2> SUFFICES ASSUME NEW k \in DOMAIN st2, NEW n \in DOMAIN st2[k].todo,
                      NEW g \in 0..Reach(st2[k].todo[n]) - 1
               PROVE  g \in DOMAIN st2[k].slots /\ Remains(e, k, g, st2[k].slots[g])
    BY DEF Linked
  <2>0. Linked(st, ex) /\ f \in Frames
    BY DEF Sound
  <2>1. CASE k # K
    <3>1. k \in 1..K - 1 /\ k \in DOMAIN st /\ k < K
      BY <1>1, <1>6, <2>1
    <3>2. st2[k] = st[k]
      BY <1>6, <3>1
    <3>3. g \in DOMAIN st[k].slots /\ Remains(ex, k, g, st[k].slots[g])
      BY <2>0, <3>1, <3>2 DEF Linked
    <3>4. Inside(f, k, g)
      BY <1>1, <1>6, <3>1 DEF Inside
    <3> QED
      BY <1>1, <2>0, <3>2, <3>3, <3>4, RemainsCons DEF e
  <2>2. CASE k = K
    <3>1. n \in DOMAIN U /\ g \in 0..Reach(U[n]) - 1
      BY <1>6, <2>2
    <3>2. Reach(U[n]) \in Nat /\ Reach(U[n]) <= d + 1
      BY <1>5, <3>1, ItemIs
    <3>3. g \in Nat /\ g <= d
      BY <1>2, <3>1, <3>2
    <3>4. Inside(f, K, g)
      BY <1>1, <1>2, <1>6, <3>3 DEF Inside
    <3>5. CASE g = d
      <4>1. \A i \in DOMAIN ex : ~Inside(ex[i], K, d)
        <5> SUFFICES ASSUME NEW i \in DOMAIN ex PROVE ~Inside(ex[i], K, d)
          OBVIOUS
        <5>1. ex[i].d \in Nat /\ ex[i].level \in 1..K /\ (ex[i].level = K => ex[i].d < d)
          BY <1>1, <1>8, FrameIs
        <5>2. ~(ex[i].level > K) /\ (ex[i].level = K => ~(ex[i].d >= d))
          BY <1>1, <1>2, <5>1
        <5> QED
          BY <5>2 DEF Inside
      <4>2. Remains(ex, K, g, ex)
        BY <1>1, <3>5, <4>1, RemainsAll
      <4>3. Remains(e, K, g, ex)
        BY <1>1, <2>0, <3>4, <4>2, RemainsCons DEF e
      <4> QED
        BY <1>6, <2>2, <3>5, <4>3 DEF new
    <3>6. CASE g # d
      <4>1. g \in 0..Reach(T[1]) - 1
        BY <1>2, <3>3, <3>6
      <4>2. g \in DOMAIN old /\ Remains(ex, K, g, old[g])
        BY <1>1, <1>2, <1>6, <2>0, <4>1 DEF Linked, old
      <4>3. Remains(e, K, g, old[g])
        BY <1>1, <2>0, <3>4, <4>2, RemainsCons DEF e
      <4> QED
        BY <1>6, <2>2, <3>6, <4>2, <4>3 DEF new
    <3> QED
      BY <3>5, <3>6
  <2> QED
    BY <2>1, <2>2
<1>15. e \in Seq(Frames) /\ st2 \in Seq(Activations)
  BY <1>9
<1> QED
  BY <1>10, <1>11, <1>12, <1>13, <1>14, <1>15 DEF Sound, e

-----------------------------------------------------------------------------
(* Exceptions and jumps *)

\* A set of numbers that is not empty has a least one.
LEMMA Least ==
  ASSUME NEW C \in SUBSET Nat, C # {}
  PROVE  \E j \in C : \A g \in C : j <= g
<1>1. PICK j \in C : \A g \in C : <<g, j>> \notin OpToRel(<, Nat)
  BY WFMin, NatLessThanWellFounded
<1>2. \A g \in C : ~(g < j)
  BY <1>1 DEF OpToRel
<1> QED
  BY <1>2


\* Where an exception goes, with the catch, the finally and the rethrow in front.
LEMMA LandingIs ==
  ASSUME NEW f \in Frames, Nested(f.todo), NEW e,
         \A n \in DOMAIN f.todo : Reach(f.todo[n]) <= f.d,
         f.l # -1 => LoopOf(f.todo, 0, f.l)
  PROVE  LET U == Landing(f, e) IN
         /\ U \in Seq(Items) /\ Nested(U)
         /\ \A n \in DOMAIN U : Reach(U[n]) <= f.d + 1
         /\ \E q \in 0..Len(U) : /\ From(U, q) = f.todo
                                 /\ \A i \in 1..q : U[i].at # "end"
<1> DEFINE d == f.d
           l == f.l
           A == f.todo
           k == Matching(f.t.catches, e)
           F == <<Code(f.t.final, d + 1, l)>>
           R == <<Rethrow(d)>>
<1>1. /\ d \in Nat /\ l \in Levels /\ A \in Seq(Items) /\ f.t.final \in Blocks
      /\ f.t.catches \in Seq(Clauses) /\ d + 1 \in Nat /\ 0 \in Int
  BY FrameIs
<1>2. /\ Nested(A) /\ \A n \in DOMAIN A : Reach(A[n]) <= d
      /\ l # -1 => LoopOf(A, 0, l)
  OBVIOUS
<1> HIDE DEF d, l, A
<1>3. Code(f.t.final, d + 1, l) \in Items /\ Code(f.t.final, d + 1, l).at # "end"
  BY <1>1, CodeIs
<1>4. CASE k = 0
  <2> DEFINE i == Rethrow(d)
             B == <<i>> \o A
             U == <<Code(f.t.final, d + 1, l)>> \o B
  <2>1. /\ i \in Items /\ Reach(i) = d /\ i.at = "rethrow"
    BY <1>1, CodeIs
  <2>2. Landing(f, e) = U
    <3>1. Landing(f, e) = (<<>> \o (F \o R)) \o A
      BY <1>4 DEF Landing, Finish, d, l, A
    <3>2. F \in Seq(Items) /\ R \in Seq(Items)
      BY <1>3, <2>1
    <3>3. <<>> \o (F \o R) = F \o R
      BY <3>2
    <3>4. (F \o R) \o A = F \o (R \o A)
      BY <1>1, <3>2, ConcatAssociative
    <3> QED
      BY <3>1, <3>3, <3>4
  <2> HIDE DEF i
  <2>3. i.at # "end" /\ i.at # "code" /\ i.at # "loop"
    BY <2>1
  <2>4. B \in Seq(Items) /\ Len(B) = Len(A) + 1 /\ B[1] = i /\ \A n \in 1..Len(A) : B[n + 1] = A[n]
    BY <1>1, <2>1, ConsIs
  <2>5. From(B, 1) = A
    BY <1>1, <2>1, ConsFrom
  <2>6. Nested(B)
    BY <1>1, <1>2, <2>1, <2>3, NestedCons
  <2>7. l # -1 => LoopOf(B, 0, l)
    <3> SUFFICES ASSUME l # -1 PROVE LoopOf(B, 0, l)
      OBVIOUS
    <3>1. l \in Nat /\ LoopOf(A, 0, l)
      BY <1>1, <1>2 DEF Levels
    <3> QED
      BY <1>1, <2>1, <2>3, <3>1, LoopCons
  <2> HIDE DEF B
  <2>8. \A n \in DOMAIN B : Reach(B[n]) <= d
    <3> SUFFICES ASSUME NEW n \in DOMAIN B PROVE Reach(B[n]) <= d
      OBVIOUS
    <3>1. CASE n = 1
      BY <1>1, <2>1, <2>4, <3>1
    <3>2. CASE n # 1
      <4>1. n - 1 \in 1..Len(A) /\ (n - 1) + 1 = n /\ n - 1 \in DOMAIN A
        BY <1>1, <2>4, <3>2
      <4> QED
        BY <1>2, <2>4, <4>1
    <3> QED
      BY <3>1, <3>2
  <2>9. /\ U \in Seq(Items) /\ Nested(U) /\ Len(U) = Len(B) + 1 /\ From(U, 1) = B
        /\ U[1] = Code(f.t.final, d + 1, l)
        /\ \A n \in DOMAIN U : Reach(U[n]) <= d + 1
    <3>1. B \in Seq(Items) /\ d \in Nat /\ l \in Levels /\ f.t.final \in Blocks
      BY <1>1, <2>4
    <3> QED
      <4>1. Fits(B, d, l)
        BY <2>6, <2>7, <2>8, <3>1 DEF Fits
      <4> QED
        BY <3>1, <4>1, FinalIs
  <2> HIDE DEF U
  <2>10. 1 \in 0..Len(U) /\ 1 \in 0..Len(U) - 1 /\ 2 \in 0..Len(U) /\ 1 \in 1..Len(A) + 1 /\ 1 + 1 = 2
    BY <1>1, <2>4, <2>9
  <2>11. From(U, 2) = A
    <3>1. From(From(U, 1), 1) = From(U, 1 + 1)
      BY <2>9, <2>10, FromFrom
    <3> QED
      BY <2>5, <2>9, <2>10, <3>1
  <2>12. U[2] = i
    <3>1. From(U, 1)[1] = U[1 + 1]
      <4>1. \A m \in 1..Len(U) - 1 : From(U, 1)[m] = U[1 + m]
        BY <2>9, <2>10, FromIs
      <4>2. 1 \in 1..Len(U) - 1
        BY <2>4, <2>9
      <4> QED
        BY <4>1, <4>2
    <3> QED
      BY <2>4, <2>9, <2>10, <3>1
  <2>13. \A n \in 1..2 : U[n].at # "end"
    BY <1>3, <2>3, <2>9, <2>12
  <2> QED
    BY <2>2, <2>9, <2>10, <2>11, <2>13 DEF d, A
<1>5. CASE k # 0
  <2> DEFINE s == f.t.catches[k].body
             B == <<Code(f.t.final, d + 1, l)>> \o A
             i == Code(s, d + 1, l)
             U == <<i>> \o B
  <2>1. s \in Blocks
    <3>1. k \in DOMAIN f.t.catches
      <4> DEFINE C == {j \in DOMAIN f.t.catches : f.t.catches[j].type \in {e, "Exception"}}
      <4>1. C # {} /\ k = CHOOSE j \in C : \A g \in C : j <= g
        BY <1>5 DEF Matching
      <4>2. \E j \in C : \A g \in C : j <= g
        <5>1. C \subseteq Nat
          BY <1>1
        <5> QED
          BY <4>1, <5>1, Least
      <4>3. k \in C
        BY <4>1, <4>2
      <4> QED
        BY <4>3, Zenon
    <3>2. f.t.catches[k] \in Clauses
      BY <1>1, <3>1
    <3> QED
      BY <3>2 DEF Clauses
  <2>2. i \in Items /\ Reach(i) = d + 1 /\ i.at = "code" /\ i.l = l /\ i.at # "end" /\ i.at # "loop"
    <3> HIDE DEF s
    <3>1. s \in Blocks /\ d + 1 \in Nat /\ l \in Levels /\ 0 \in Int
      BY <1>1, <2>1
    <3> QED
      BY <3>1, CodeIs
  <2>3. Landing(f, e) = U
    <3>1. Landing(f, e) = (<<i>> \o (F \o <<>>)) \o A
      BY <1>5 DEF Landing, Finish, d, l, A
    <3>2. F \in Seq(Items) /\ <<i>> \in Seq(Items)
      BY <1>3, <2>2
    <3>3. F \o <<>> = F
      BY <3>2
    <3>4. (<<i>> \o F) \o A = <<i>> \o (F \o A)
      BY <1>1, <3>2, ConcatAssociative
    <3> QED
      BY <3>1, <3>3, <3>4
  <2> HIDE DEF i, s
  <2>4. /\ B \in Seq(Items) /\ Nested(B) /\ Len(B) = Len(A) + 1 /\ From(B, 1) = A
        /\ B[1] = Code(f.t.final, d + 1, l)
        /\ \A n \in DOMAIN B : Reach(B[n]) <= d + 1
        /\ l # -1 => LoopOf(B, 0, l)
    <3>1. Fits(A, d, l) /\ f.t.final \in Blocks
      BY <1>1, <1>2 DEF Fits
    <3> QED
      BY <3>1, FinalIs
  <2> HIDE DEF B
  <2>5. Nested(U)
    <3>1. \A n \in DOMAIN B : Reach(B[n]) <= Reach(i)
      BY <2>2, <2>4
    <3> QED
      BY <2>2, <2>4, <3>1, NestedCons
  <2>6. U \in Seq(Items) /\ Len(U) = Len(B) + 1 /\ U[1] = i /\ \A n \in 1..Len(B) : U[n + 1] = B[n]
    BY <2>2, <2>4, ConsIs
  <2>7. From(U, 1) = B
    BY <2>2, <2>4, ConsFrom
  <2> HIDE DEF U
  <2>8. \A n \in DOMAIN U : Reach(U[n]) <= d + 1
    <3> SUFFICES ASSUME NEW n \in DOMAIN U PROVE Reach(U[n]) <= d + 1
      OBVIOUS
    <3>1. CASE n = 1
      BY <1>1, <2>2, <2>6, <3>1
    <3>2. CASE n # 1
      <4>1. n - 1 \in 1..Len(B) /\ (n - 1) + 1 = n /\ n - 1 \in DOMAIN B
        BY <2>4, <2>6, <3>2
      <4> QED
        BY <2>4, <2>6, <4>1
    <3> QED
      BY <3>1, <3>2
  <2>9. /\ 1 \in 0..Len(U) /\ 1 \in 0..Len(U) - 1 /\ 2 \in 0..Len(U) /\ 1 \in 1..Len(B)
        /\ 1 + 1 = 2
    BY <1>1, <2>4, <2>6
  <2>10. From(U, 2) = A
    <3>1. From(From(U, 1), 1) = From(U, 1 + 1)
      BY <2>6, <2>9, FromFrom
    <3> QED
      BY <2>4, <2>7, <2>9, <3>1
  <2>11. U[2] = Code(f.t.final, d + 1, l)
    BY <2>4, <2>6, <2>9
  <2>12. \A n \in 1..2 : U[n].at # "end"
    BY <1>3, <2>2, <2>6, <2>11
  <2> QED
    BY <2>3, <2>5, <2>6, <2>8, <2>9, <2>10, <2>12 DEF d, A
<1> QED
  BY <1>4, <1>5

\* What is left to run is replaced, and the local variable too.
WithTodo(st, k, U) == [st EXCEPT ![k].todo = U]
WithLocal(st, k, U, x) == [st EXCEPT ![k].todo = U, ![k].local = x]

LEMMA TodoIs ==
  ASSUME NEW st \in Seq(Activations), NEW k \in DOMAIN st, NEW U \in Seq(Items), NEW x \in Int
  PROVE  LET st1 == WithTodo(st, k, U)
             st2 == WithLocal(st, k, U, x)
         IN /\ st1 \in Seq(Activations) /\ Len(st1) = Len(st)
            /\ \A i \in DOMAIN st : i # k => st1[i] = st[i]
            /\ st1[k].todo = U /\ st1[k].slots = st[k].slots /\ st1[k].isr = st[k].isr
            /\ st2 \in Seq(Activations) /\ Len(st2) = Len(st)
            /\ \A i \in DOMAIN st : i # k => st2[i] = st[i]
            /\ st2[k].todo = U /\ st2[k].slots = st[k].slots
<1> DEFINE a1 == [st[k] EXCEPT !.todo = U]
           a2 == [st[k] EXCEPT !.todo = U, !.local = x]
<1>1. st[k] \in Activations
  OBVIOUS
<1>2. /\ a1 \in Activations /\ a1.todo = U /\ a1.slots = st[k].slots /\ a1.isr = st[k].isr
      /\ a2 \in Activations /\ a2.todo = U /\ a2.slots = st[k].slots
  BY <1>1 DEF Activations
<1>3. WithTodo(st, k, U) = [st EXCEPT ![k] = a1]
  BY DEF WithTodo
<1>4. WithLocal(st, k, U, x) = [st EXCEPT ![k] = a2]
  BY DEF WithLocal
<1> HIDE DEF a1, a2
<1> DEFINE st1 == [st EXCEPT ![k] = a1]
           st2 == [st EXCEPT ![k] = a2]
<1>5. /\ st1 \in Seq(Activations) /\ Len(st1) = Len(st) /\ st1[k] = a1
      /\ \A i \in DOMAIN st : i # k => st1[i] = st[i]
  BY <1>2
<1>6. /\ st2 \in Seq(Activations) /\ Len(st2) = Len(st) /\ st2[k] = a2
      /\ \A i \in DOMAIN st : i # k => st2[i] = st[i]
  BY <1>2
<1> HIDE DEF st1, st2
<1> QED
  BY <1>2, <1>3, <1>4, <1>5, <1>6 DEF st1, st2

\* An exception that goes to frame f replaces T, what was left to run there, by U.
Lands(f, T, U) ==
  /\ T \in Seq(Items) /\ Nested(T)
  /\ U \in Seq(Items) /\ Nested(U) /\ \A i \in DOMAIN U : Reach(U[i]) <= f.d + 1
  /\ \E n \in DOMAIN T :
       /\ EndOf(f, T, n) /\ n + 1 \in 0..Len(T)
       /\ \A m \in DOMAIN T : m > n + 1 => Reach(T[m]) <= f.d
       /\ \E q \in 0..Len(U) : /\ From(U, q) = From(T, n + 1)
                               /\ \A i \in 1..q : U[i].at # "end"

LEMMA LandingOf ==
  ASSUME NEW st, NEW ex, Sound(st, ex), ex # <<>>, NEW e
  PROVE  /\ ex[1] \in Frames /\ ex[1].level \in DOMAIN st
         /\ Lands(ex[1], st[ex[1].level].todo, Landing(ex[1], e))
<1> DEFINE f == ex[1]
           j == f.d
           k == f.level
           T == st[k].todo
           U == Landing(f, e)
<1>1. /\ st \in Seq(Activations) /\ ex \in Seq(Frames) /\ f \in Frames /\ j \in Nat /\ 1 \in DOMAIN ex
  <2>1. ex \in Seq(Frames) /\ 1 \in DOMAIN ex
    BY DEF Sound
  <2>2. ex[1] \in Frames
    BY <2>1
  <2> QED
    BY <2>1, <2>2, FrameIs DEF Sound
<1>2. k \in DOMAIN st /\ \E n \in DOMAIN st[k].todo : EndOf(f, st[k].todo, n)
  BY <1>1 DEF Sound, Backed
<1>3. /\ T \in Seq(Items) /\ Nested(T) /\ DOMAIN T = 1..Len(T) /\ Len(T) \in Nat
  BY <1>1, <1>2, ActivationIs DEF Sound
<1>4. PICK n \in DOMAIN T : EndOf(f, T, n)
  BY <1>2
<1>5. /\ T[n] = EndOfBody(j) /\ n + 1 \in DOMAIN T
      /\ T[n + 1] = Code(f.t.final, j + 1, f.l)
      /\ f.todo = SubSeq(T, n + 2, Len(T))
  BY <1>4 DEF EndOf
<1> HIDE DEF f, j, T, U
<1>8. f.todo = From(T, n + 1) /\ n + 1 \in 0..Len(T) /\ n \in Nat
  <2>1. (n + 1) + 1 = n + 2 /\ n + 1 \in 0..Len(T) /\ n \in Nat
    BY <1>3, <1>5
  <2> QED
    BY <1>5, <2>1 DEF From
<1>9. T[n].at = "end" /\ T[n].d = j /\ Reach(T[n]) = j + 1
  BY <1>5 DEF EndOfBody, Reach
<1>10. \A m \in DOMAIN T : m > n + 1 => Reach(T[m]) <= j
  BY <1>3, <1>9 DEF Nested, Closed
<1>11. Nested(f.todo)
  BY <1>3, <1>8, NestedFrom
<1>12. \A m \in DOMAIN f.todo : Reach(f.todo[m]) <= j
  <2> SUFFICES ASSUME NEW m \in DOMAIN f.todo PROVE Reach(f.todo[m]) <= j
    OBVIOUS
  <2>1. /\ f.todo \in Seq(Items) /\ Len(f.todo) = Len(T) - (n + 1)
        /\ \A i \in 1..Len(T) - (n + 1) : f.todo[i] = T[(n + 1) + i]
    <3>1. T \in Seq(Items) /\ n + 1 \in 0..Len(T)
      BY <1>3, <1>8
    <3> DEFINE u == From(T, n + 1)
    <3>2. /\ u \in Seq(Items) /\ Len(u) = Len(T) - (n + 1)
          /\ \A i \in 1..Len(T) - (n + 1) : u[i] = T[(n + 1) + i]
      BY <3>1, FromIs
    <3>3. f.todo = u
      BY <1>8
    <3> HIDE DEF u
    <3> QED
      BY <3>2, <3>3
  <2>2. m \in 1..Len(T) - (n + 1)
    BY <2>1
  <2>3. (n + 1) + m \in DOMAIN T /\ (n + 1) + m > n + 1
    <3>1. DOMAIN T = 1..Len(T) /\ Len(T) \in Nat /\ n \in Nat
      BY <1>3, <1>8
    <3> QED
      BY <2>2, <3>1
  <2> QED
    BY <1>10, <2>1, <2>2, <2>3
<1>13. f.l # -1 => LoopOf(f.todo, 0, f.l)
  <2> SUFFICES ASSUME f.l # -1 PROVE LoopOf(f.todo, 0, f.l)
    OBVIOUS
  <2>1. f.l \in Nat
    BY <1>1, FrameIs DEF Levels
  <2>2. LoopOf(T, n + 1, f.l)
    BY <1>3, <1>5 DEF Nested, Looped, Code
  <2> QED
    BY <1>3, <1>8, <2>1, <2>2, LoopFrom
<1>14. /\ U \in Seq(Items) /\ Nested(U)
       /\ \A i \in DOMAIN U : Reach(U[i]) <= j + 1
       /\ \E q \in 0..Len(U) : /\ From(U, q) = f.todo
                               /\ \A i \in 1..q : U[i].at # "end"
  BY <1>1, <1>11, <1>12, <1>13, LandingIs DEF U, j
<1> QED
  BY <1>1, <1>2, <1>3, <1>4, <1>8, <1>10, <1>14 DEF Lands, f, j, T, U

\* An exception goes to its innermost frame.
LEMMA SoundThrow ==
  ASSUME NEW st, NEW ex, Sound(st, ex), ex # <<>>, NEW e, NEW k, k = ex[1].level,
         NEW st2 \in Seq(Activations), Len(st2) = k,
         \A i \in 1..k - 1 : st2[i] = st[i],
         st2[k].slots = st[k].slots, st2[k].todo = Landing(ex[1], e)
  PROVE  Sound(st2, Tail(ex))
<1> DEFINE f == ex[1]
           j == f.d
           T == st[k].todo
           U == Landing(f, e)
<1>1. /\ st \in Seq(Activations) /\ ex \in Seq(Frames) /\ f \in Frames /\ j \in Nat /\ 1 \in DOMAIN ex
  <2>1. ex \in Seq(Frames) /\ 1 \in DOMAIN ex
    BY DEF Sound
  <2>2. ex[1] \in Frames
    BY <2>1
  <2> QED
    BY <2>1, <2>2, FrameIs DEF Sound
<1>2. /\ k \in DOMAIN st /\ T \in Seq(Items) /\ Nested(T)
      /\ U \in Seq(Items) /\ Nested(U) /\ \A i \in DOMAIN U : Reach(U[i]) <= j + 1
      /\ \E n \in DOMAIN T :
           /\ EndOf(f, T, n) /\ n + 1 \in 0..Len(T)
           /\ \A m \in DOMAIN T : m > n + 1 => Reach(T[m]) <= j
           /\ \E q \in 0..Len(U) : /\ From(U, q) = From(T, n + 1)
                                   /\ \A i \in 1..q : U[i].at # "end"
  <2>1. ex[1].level \in DOMAIN st /\ Lands(ex[1], st[ex[1].level].todo, Landing(ex[1], e))
    BY LandingOf
  <2>2. k \in DOMAIN st /\ Lands(f, T, U)
    BY <2>1
  <2> HIDE DEF f, T, U
  <2> QED
    BY <2>2 DEF Lands
<1>6. /\ \A i \in 1..Len(st2) - 1 : st2[i] = st[i]
      /\ st2[k].slots = st[k].slots /\ st2[k].todo = U /\ st[k].todo = T /\ Len(st2) = k
      /\ f.level = k
  OBVIOUS
<1>7. Remains(ex, k, j, Tail(ex))
  <2>1. Tail(ex) = SubSeq(ex, 1 + 1, Len(ex)) /\ 1 \in 0..Len(ex)
    BY <1>1
  <2>2. ASSUME NEW i \in DOMAIN ex
        PROVE  Inside(ex[i], k, j) <=> i <= 1
    <3>1. CASE i = 1
      <4>1. f.d >= j
        BY <1>1
      <4> QED
        BY <1>6, <3>1, <4>1 DEF Inside
    <3>2. CASE i # 1
      <4>1. 1 < i /\ ~(i <= 1)
        BY <1>1, <3>2
      <4>2. Inside(f, ex[i].level, ex[i].d + 1)
        BY <1>1, <4>1 DEF Sound, Ordered
      <4>3. ex[i].level \in Nat /\ ex[i].d \in Nat /\ f.level \in Nat
        BY <1>1, FrameIs
      <4> HIDE DEF f, j
      <4>4. ~Inside(ex[i], k, j)
        BY <1>1, <1>6, <4>2, <4>3 DEF Inside, j
      <4> QED
        BY <4>1, <4>4
    <3> QED
      BY <3>1, <3>2
  <2> QED
    BY <2>1, <2>2 DEF Remains
<1> HIDE DEF f, j, T, U
<1>3. DOMAIN T = 1..Len(T) /\ Len(T) \in Nat
  BY <1>2
<1>4. PICK n \in DOMAIN T :
        /\ EndOf(f, T, n) /\ n + 1 \in 0..Len(T)
        /\ \A m \in DOMAIN T : m > n + 1 => Reach(T[m]) <= j
        /\ \E q \in 0..Len(U) : /\ From(U, q) = From(T, n + 1)
                                /\ \A i \in 1..q : U[i].at # "end"
  BY <1>2
<1>5. PICK q \in 0..Len(U) : From(U, q) = From(T, n + 1) /\ \A i \in 1..q : U[i].at # "end"
  BY <1>4
<1>8. /\ T[n] = EndOfBody(j) /\ n + 1 \in DOMAIN T
      /\ T[n + 1] = Code(f.t.final, j + 1, f.l) /\ n \in Nat
  BY <1>3, <1>4 DEF EndOf, j
<1>9. T[n].at = "end" /\ T[n].d = j /\ Reach(T[n]) = j + 1
  BY <1>8 DEF EndOfBody, Reach
<1>10. \A i \in DOMAIN T : T[i].at = "end" => (i <= n + 1 <=> T[i].d >= j)
  <2> SUFFICES ASSUME NEW i \in DOMAIN T, T[i].at = "end"
               PROVE  i <= n + 1 <=> T[i].d >= j
    OBVIOUS
  <2>1. T[i].d \in Nat /\ Reach(T[i]) = T[i].d + 1
    BY <1>2, ItemIs DEF Reach
  <2>2. i # n + 1
    BY <1>8 DEF Code
  <2>3. i \in Nat
    BY <1>3
  <2>4. CASE i < n
    <3>1. Reach(T[n]) <= Reach(T[i])
      BY <1>2, <2>4 DEF Nested, Descends
    <3>2. j + 1 <= T[i].d + 1
      BY <1>9, <2>1, <3>1
    <3>3. T[i].d >= j
      BY <1>1, <2>1, <3>2
    <3>4. i <= n + 1
      BY <1>8, <2>3, <2>4
    <3> QED
      BY <3>3, <3>4
  <2>5. CASE i = n
    BY <1>1, <1>8, <1>9, <2>5
  <2>6. CASE i > n + 1
    <3>1. Reach(T[i]) <= j
      BY <1>4, <2>6
    <3> QED
      BY <1>1, <1>8, <2>1, <2>3, <2>6, <3>1
  <2> QED
    BY <1>8, <2>2, <2>3, <2>4, <2>5, <2>6
<1>11. Cuts(st, k, j, st2, n + 1, q)
  BY <1>2, <1>4, <1>5, <1>6, <1>8, <1>9, <1>10 DEF Cuts
<1> QED
  BY <1>1, <1>2, <1>7, <1>11, SoundCut

\* A jump goes to the innermost loop, or behind it.
LEMMA SoundJump ==
  ASSUME NEW st, NEW ex, Sound(st, ex), st # <<>>,
         NEW T, T = st[Len(st)].todo, T # <<>>, T[1].at = "code",
         NEW l \in Nat, l = T[1].l,
         NEW m \in DOMAIN T, T[m].at = "loop", \A j \in 1..m - 1 : T[j].at # "loop",
         NEW p \in {m - 1, m},
         NEW st2 \in Seq(Activations), Len(st2) = Len(st),
         \A i \in 1..Len(st) - 1 : st2[i] = st[i],
         st2[Len(st)].slots = st[Len(st)].slots, st2[Len(st)].todo = From(T, p)
  PROVE  Sound(st2, IF T[1].d > l THEN st[Len(st)].slots[l] ELSE ex)
<1> DEFINE K == Len(st)
           d == T[1].d
           U == From(T, p)
<1>1. /\ st \in Seq(Activations) /\ ex \in Seq(Frames) /\ K \in Nat /\ K \in DOMAIN st
      /\ T \in Seq(Items) /\ Nested(T) /\ DOMAIN st = 1..K
  BY TopIs
<1>2. /\ 1 \in DOMAIN T /\ 1 \in 0..Len(T) /\ Len(T) \in Nat /\ DOMAIN T = 1..Len(T)
      /\ d \in Nat /\ Reach(T[1]) = d
      /\ \A n \in DOMAIN T : Reach(T[n]) <= d
  BY <1>1, FirstIs DEF Reach
<1>3. /\ st2[K].slots = st[K].slots /\ st2[K].todo = U /\ st[K].todo = T /\ Len(st2) = K
      /\ \A i \in 1..K - 1 : st2[i] = st[i]
  OBVIOUS
<1>4. T[m].d = l /\ Reach(T[m]) = l /\ l <= d
  <2>1. LoopOf(T, 1, l)
    <3>1. Looped(T) /\ 1 \in DOMAIN T /\ T[1].at = "code"
      BY <1>1, <1>2 DEF Nested
    <3>2. T[1].l # -1 /\ T[1].l = l
      OBVIOUS
    <3> QED
      BY <3>1, <3>2 DEF Looped
  <2>2. PICK n \in DOMAIN T :
          /\ n > 1 /\ T[n].at = "loop" /\ T[n].d = l
          /\ \A j \in DOMAIN T : 1 < j /\ j < n => T[j].at # "loop"
    BY <2>1 DEF LoopOf
  <2>3. m > 1
    <3>1. m # 1
      OBVIOUS
    <3> QED
      BY <1>2, <3>1
  <2>4. ~(m < n) /\ ~(n < m)
    <3>1. ~(m < n)
      BY <2>2, <2>3
    <3>2. n < m => n \in 1..m - 1
      BY <1>2
    <3> QED
      BY <2>2, <3>1, <3>2
  <2>5. m = n
    BY <1>2, <2>4
  <2> QED
    BY <1>2, <2>2, <2>5 DEF Reach
<1>5. p \in 0..Len(T) /\ m \in Nat /\ m > 0 /\ p \in Nat
  BY <1>2
<1> HIDE DEF K, d, U
<1>6. Nested(U) /\ U \in Seq(Items)
  BY <1>1, <1>5, NestedFrom, FromIs DEF U
<1>7. \A i \in DOMAIN T : T[i].at = "end" => (i <= p <=> T[i].d >= l)
  <2> SUFFICES ASSUME NEW i \in DOMAIN T, T[i].at = "end"
               PROVE  i <= p <=> T[i].d >= l
    OBVIOUS
  <2>1. T[i].d \in Nat /\ Reach(T[i]) = T[i].d + 1 /\ i \in Nat /\ i # m
    BY <1>1, <1>2, ItemIs DEF Reach
  <2>2. CASE i < m
    <3>1. /\ T[i + 1].at = "code"
          /\ \A n \in DOMAIN T : n > i + 1 => Reach(T[n]) <= T[i].d
      BY <1>1 DEF Nested, Closed
    <3>2. m # i + 1
      BY <3>1
    <3>3. m > i + 1
      BY <1>5, <2>1, <2>2, <3>2
    <3>4. l <= T[i].d
      BY <1>4, <3>1, <3>3
    <3> QED
      BY <1>5, <2>1, <2>2, <3>4
  <2>3. CASE i > m
    <3>1. Reach(T[i]) <= l
      BY <1>1, <1>4, <2>3 DEF Nested, Descends
    <3> QED
      BY <1>5, <2>1, <2>3, <3>1
  <2> QED
    BY <1>5, <2>1, <2>2, <2>3
<1>8. \A i \in DOMAIN U : Reach(U[i]) <= l + 1 /\ Reach(U[i]) <= Reach(T[m])
  <2> SUFFICES ASSUME NEW i \in DOMAIN U
               PROVE  Reach(U[i]) <= l + 1 /\ Reach(U[i]) <= Reach(T[m])
    OBVIOUS
  <2>1. /\ Len(U) = Len(T) - p
        /\ \A n \in 1..Len(T) - p : U[n] = T[p + n]
    <3>1. T \in Seq(Items) /\ p \in 0..Len(T)
      BY <1>1, <1>5
    <3>2. \A s \in Seq(Items) : \A k \in 0..Len(s) :
            /\ Len(From(s, k)) = Len(s) - k
            /\ \A n \in 1..Len(s) - k : From(s, k)[n] = s[k + n]
      <4> SUFFICES ASSUME NEW s \in Seq(Items), NEW k \in 0..Len(s)
                   PROVE  /\ Len(From(s, k)) = Len(s) - k
                          /\ \A n \in 1..Len(s) - k : From(s, k)[n] = s[k + n]
        OBVIOUS
      <4> QED
        BY FromIs
    <3> QED
      BY <3>1, <3>2 DEF U
  <2>2. i \in 1..Len(T) - p /\ p + i \in DOMAIN T /\ (p + i = m \/ m < p + i)
    <3>1. i \in 1..Len(T) - p
      BY <1>6, <2>1
    <3>2. p + i \in DOMAIN T
      BY <1>2, <1>5, <3>1
    <3>3. p = m \/ p = m - 1
      OBVIOUS
    <3>4. p + i = m \/ m < p + i
      BY <1>5, <3>1, <3>3
    <3> QED
      BY <3>1, <3>2, <3>4
  <2>3. Reach(T[p + i]) \in Nat
    <3>1. T[p + i] \in Items
      BY <1>1, <2>2
    <3> QED
      BY <3>1, ItemIs
  <2>4. p + i = m \/ Reach(T[p + i]) <= Reach(T[m])
    BY <1>1, <2>2 DEF Nested, Descends
  <2>5. U[i] = T[p + i]
    BY <2>1, <2>2
  <2> QED
    BY <1>4, <2>3, <2>4, <2>5
<1>9. From(U, 0) = From(T, p) /\ 0 \in 0..Len(U)
  <2>1. From(U, 0) = U
    BY <1>6, SubSeqFull DEF From
  <2> QED
    BY <1>6, <2>1 DEF U
<1>10. Cuts(st, K, l, st2, p, 0)
  BY <1>3, <1>5, <1>6, <1>7, <1>8, <1>9 DEF Cuts
<1>11. Remains(ex, K, l, IF d > l THEN st[K].slots[l] ELSE ex)
  <2>1. CASE d > l
    <3>1. l \in 0..Reach(T[1]) - 1
      BY <1>2, <2>1
    <3>2. Linked(st, ex)
      BY DEF Sound
    <3>3. Remains(ex, K, l, st[K].slots[l])
      BY <1>1, <1>2, <1>3, <3>1, <3>2 DEF Linked
    <3>4. (IF d > l THEN st[K].slots[l] ELSE ex) = st[K].slots[l]
      BY <2>1
    <3> QED
      BY <3>3, <3>4, Zenon
  <2>2. CASE ~(d > l)
    <3>1. \A n \in DOMAIN T : Reach(T[n]) <= l
      <4>1. d = l
        BY <1>2, <1>4, <2>2
      <4> QED
        BY <1>2, <4>1
    <3>2. ASSUME NEW i \in DOMAIN ex PROVE ~Inside(ex[i], K, l)
      <4>1. ex[i].level \in 1..K
        BY <1>1 DEF Sound, Backed
      <4>2. ex[i].level = K => ex[i].d < l
        BY <1>1, <1>3, <3>1, FrameBelow
      <4>3. ex[i].d \in Nat
        BY <1>1, FrameIs
      <4> QED
        BY <1>1, <4>1, <4>2, <4>3 DEF Inside
    <3>3. Remains(ex, K, l, ex)
      BY <1>1, <3>2, RemainsAll
    <3>4. (IF d > l THEN st[K].slots[l] ELSE ex) = ex
      BY <2>2, Zenon
    <3> QED
      BY <3>3, <3>4
  <2> QED
    BY <2>1, <2>2, Zenon
<1>12. Sound(st2, IF d > l THEN st[K].slots[l] ELSE ex)
  <2> DEFINE r == IF d > l THEN st[K].slots[l] ELSE ex
  <2>1. Remains(ex, K, l, r)
    BY <1>11, Zenon
  <2>2. Sound(st, ex) /\ K \in DOMAIN st
    BY <1>1
  <2> HIDE DEF r, K, d
  <2>3. Sound(st2, r)
    BY <1>10, <2>1, <2>2, SoundCut
  <2> QED
    BY <2>3, Zenon DEF r
<1> QED
  BY <1>12 DEF d, K

-----------------------------------------------------------------------------
(* The steps *)

LEMMA RunningIs ==
  ASSUME ControlInv, status = "run"
  PROVE  LET T == Top.todo IN
         /\ Sound(stack, exc) /\ stack # <<>>
         /\ stack \in Seq(Activations) /\ exc \in Seq(Frames)
         /\ Len(stack) \in DOMAIN stack /\ DOMAIN stack = 1..Len(stack)
         /\ T \in Seq(Items) /\ Nested(T) /\ T = stack[Len(stack)].todo
         /\ T # <<>> => /\ Item = T[1] /\ Item \in Items /\ Item.d \in Nat
                        /\ 1 \in 0..Len(T) /\ Rest = From(T, 1)
<1>1. Sound(stack, exc) /\ stack # <<>>
  BY DEF ControlInv
<1>2. /\ stack \in Seq(Activations) /\ exc \in Seq(Frames)
      /\ Len(stack) \in DOMAIN stack /\ DOMAIN stack = 1..Len(stack)
      /\ stack[Len(stack)].todo \in Seq(Items) /\ Nested(stack[Len(stack)].todo)
  BY <1>1, TopIs
<1>3. Top.todo = stack[Len(stack)].todo
  BY DEF Top
<1>4. Top.todo # <<>> => /\ Item = Top.todo[1] /\ Item \in Items /\ Item.d \in Nat
                         /\ 1 \in 0..Len(Top.todo) /\ Rest = From(Top.todo, 1)
  BY <1>2, <1>3, FirstIs DEF Item, Rest
<1> QED
  BY <1>1, <1>2, <1>3, <1>4

LEMMA ReadyIs ==
  ASSUME ControlInv, NEW kind, Ready(kind)
  PROVE  /\ status = "run" /\ Top.todo # <<>> /\ Item.at = "code"
         /\ Statement \in Statements /\ Statement.is = kind
         /\ Item.l \in Levels /\ Tail(Item.body) \in Blocks
         /\ After = Following(Top.todo, Tail(Item.body))
<1>1. status = "run" /\ Top.todo # <<>> /\ Item.at = "code" /\ Item.body # <<>> /\ Statement.is = kind
  BY DEF Ready, Running, Statement
<1>2. Item = Top.todo[1] /\ Item \in Items /\ Rest = From(Top.todo, 1)
  BY <1>1, RunningIs
<1>3. Item = Code(Item.body, Item.d, Item.l) /\ Item.body \in Seq(Statements) /\ Item.l \in Levels
  BY <1>1, <1>2, ItemIs DEF Blocks
<1>4. Statement \in Statements /\ Tail(Item.body) \in Blocks
  BY <1>1, <1>3 DEF Statement, Blocks
<1>5. [Item EXCEPT !.body = Tail(@)] = Code(Tail(Item.body), Item.d, Item.l)
  <2>1. ASSUME NEW b, NEW d, NEW l
        PROVE  [Code(b, d, l) EXCEPT !.body = Tail(@)] = Code(Tail(b), d, l)
    <3>1. ASSUME NEW t PROVE [Code(b, d, l) EXCEPT !.body = t] = Code(t, d, l)
      BY DEF Code
    <3>2. Code(b, d, l).body = b
      BY DEF Code
    <3>3. [Code(b, d, l) EXCEPT !.body = Tail(@)] = [Code(b, d, l) EXCEPT !.body = Tail(b)]
      BY <3>2
    <3> QED
      BY <3>1, <3>3
  <2> DEFINE b == Item.body
             d == Item.d
             l == Item.l
  <2>2. Item = Code(b, d, l)
    BY <1>3
  <2> HIDE DEF b, d, l
  <2>3. [Item EXCEPT !.body = Tail(@)] = Code(Tail(b), d, l)
    BY <2>1, <2>2
  <2> QED
    BY <2>3 DEF b, d, l
<1> QED
  BY <1>1, <1>2, <1>3, <1>4, <1>5 DEF After, Following

\* The first item gives way to others, and the frames stay.
LEMMA GoesOn ==
  ASSUME ControlInv, status = "run", Top.todo # <<>>, Item.at \in {"code", "loop"},
         NEW U \in Seq(Items), Nested(U), NEW q \in 0..Len(U), From(U, q) = From(Top.todo, 1),
         \A i \in 1..q : U[i].at # "end" /\ Reach(U[i]) <= Item.d,
         NEW st2 \in Seq(Activations), Len(st2) = Len(stack),
         \A i \in DOMAIN stack : i # Len(stack) => st2[i] = stack[i],
         st2[Len(stack)].slots = stack[Len(stack)].slots, st2[Len(stack)].todo = U
  PROVE  Sound(st2, exc) /\ st2 # <<>>
<1> DEFINE T == Top.todo
           K == Len(stack)
<1>1. /\ Sound(stack, exc) /\ stack # <<>> /\ stack \in Seq(Activations)
      /\ K \in DOMAIN stack /\ DOMAIN stack = 1..K
      /\ T \in Seq(Items) /\ Nested(T) /\ T = stack[K].todo /\ T # <<>> /\ Item = T[1]
  BY RunningIs
<1>2. T[1].at \in {"code", "loop"} /\ \A i \in 1..q : U[i].at # "end" /\ Reach(U[i]) <= T[1].d
  BY <1>1
<1>3. From(U, q) = From(T, 1)
  OBVIOUS
<1>4. Len(st2) = K /\ st2[K].slots = stack[K].slots /\ st2[K].todo = U
  OBVIOUS
<1>5. \A i \in 1..K - 1 : st2[i] = stack[i]
  BY <1>1
<1> HIDE DEF T, K
<1>6. Sound(st2, exc)
  BY <1>1, <1>2, <1>3, <1>4, <1>5, SoundStay DEF K
<1>7. st2 # <<>>
  <2>1. K # 0
    BY <1>1
  <2>2. st2 = <<>> => Len(st2) = 0
    OBVIOUS
  <2> QED
    BY <1>4, <2>1, <2>2
<1> QED
  BY <1>6, <1>7

\* An activation goes on with what follows a statement.
LEMMA FollowingIs ==
  ASSUME ControlInv, NEW kind, Ready(kind)
  PROVE  /\ After \in Seq(Items) /\ Nested(After) /\ 1 \in 0..Len(After)
         /\ From(After, 1) = From(Top.todo, 1)
         /\ \A n \in DOMAIN After : Reach(After[n]) <= Item.d
         /\ \A i \in 1..1 : After[i].at # "end" /\ Reach(After[i]) <= Item.d
<1>1. /\ status = "run" /\ Top.todo # <<>> /\ Item.at = "code"
      /\ Tail(Item.body) \in Blocks
      /\ After = Following(Top.todo, Tail(Item.body))
  BY ReadyIs
<1>2. /\ Top.todo \in Seq(Items) /\ Nested(Top.todo) /\ Item = Top.todo[1] /\ Item \in Items
      /\ 1 \in 0..Len(Top.todo)
  BY <1>1, RunningIs
<1>3. /\ After \in Seq(Items) /\ Nested(After) /\ Len(After) = Len(Top.todo)
      /\ From(After, 1) = From(Top.todo, 1)
      /\ After[1] = Code(Tail(Item.body), Item.d, Item.l)
      /\ \A n \in DOMAIN After : Reach(After[n]) <= Item.d
  BY <1>1, <1>2, AfterIs
<1>4. 1 \in 0..Len(After) /\ 1 \in DOMAIN After
  BY <1>1, <1>2, <1>3
<1>5. After[1].at # "end"
  BY <1>3 DEF Code
<1> QED
  BY <1>3, <1>4, <1>5

LEMMA GoOnSound ==
  ASSUME ControlInv, status = "run", Top.todo # <<>>, Item.at \in {"code", "loop"},
         NEW U \in Seq(Items), Nested(U), NEW q \in 0..Len(U), From(U, q) = From(Top.todo, 1),
         \A i \in 1..q : U[i].at # "end" /\ Reach(U[i]) <= Item.d,
         GoOn(U), exc' = exc
  PROVE  Sound(stack', exc') /\ stack' # <<>>
<1>1. stack' = WithTodo(stack, Len(stack), U) /\ 0 \in Int
  BY DEF GoOn, WithTodo
<1>0. stack \in Seq(Activations) /\ Len(stack) \in DOMAIN stack
  BY RunningIs
<1>2. /\ stack' \in Seq(Activations) /\ Len(stack') = Len(stack)
      /\ \A i \in DOMAIN stack : i # Len(stack) => stack'[i] = stack[i]
      /\ stack'[Len(stack)].todo = U /\ stack'[Len(stack)].slots = stack[Len(stack)].slots
  BY <1>0, <1>1, TodoIs
<1>3. Sound(stack', exc) /\ stack' # <<>>
  BY <1>2, GoesOn
<1> QED
  BY <1>3

Safe == status' = "run" => stack' # <<>> /\ Sound(stack', exc')

LEMMA PrintSafe == ASSUME ControlInv, DoPrint PROVE Safe
<1>1. PICK kind : Ready(kind)
  BY DEF DoPrint
<1>2. GoOn(After) /\ exc' = exc
  BY DEF DoPrint
<1>3. status = "run" /\ Top.todo # <<>> /\ Item.at \in {"code", "loop"}
  BY <1>1, ReadyIs
<1> QED
  BY <1>1, <1>2, <1>3, FollowingIs, GoOnSound DEF Safe

LEMMA SetSafe == ASSUME ControlInv, DoSet PROVE Safe
<1>1. Ready("set") /\ exc' = exc
  BY DEF DoSet
<1>2. stack' = WithLocal(stack, Len(stack), After, Statement.value)
  BY DEF DoSet, WithLocal
<1>3. status = "run" /\ Top.todo # <<>> /\ Item.at \in {"code", "loop"} /\ Statement.value \in Int
  BY <1>1, ReadyIs, ControlAssumption
<1>4. stack \in Seq(Activations) /\ Len(stack) \in DOMAIN stack
  BY <1>3, RunningIs
<1>5. /\ After \in Seq(Items) /\ Nested(After) /\ 1 \in 0..Len(After)
      /\ From(After, 1) = From(Top.todo, 1)
      /\ \A i \in 1..1 : After[i].at # "end" /\ Reach(After[i]) <= Item.d
  BY <1>1, FollowingIs
<1>6. /\ stack' \in Seq(Activations) /\ Len(stack') = Len(stack)
      /\ \A i \in DOMAIN stack : i # Len(stack) => stack'[i] = stack[i]
      /\ stack'[Len(stack)].todo = After /\ stack'[Len(stack)].slots = stack[Len(stack)].slots
  BY <1>2, <1>3, <1>4, <1>5, TodoIs
<1>7. Sound(stack', exc) /\ stack' # <<>>
  BY <1>3, <1>5, <1>6, GoesOn
<1> QED
  BY <1>1, <1>7 DEF Safe

\* An item is done with.
LEMMA RestSafe ==
  ASSUME ControlInv, status = "run", Top.todo # <<>>, Item.at \in {"code", "loop"},
         GoOn(Rest), exc' = exc
  PROVE  Safe
<1>1. /\ Top.todo \in Seq(Items) /\ Nested(Top.todo) /\ 1 \in 0..Len(Top.todo)
      /\ Rest = From(Top.todo, 1)
  BY RunningIs
<1>2. Rest \in Seq(Items) /\ Nested(Rest)
  BY <1>1, FromIs, NestedFrom
<1>3. From(Rest, 0) = From(Top.todo, 1) /\ 0 \in 0..Len(Rest)
  <2>1. From(Rest, 0) = Rest
    BY <1>2, SubSeqFull DEF From
  <2> QED
    BY <1>1, <1>2, <2>1
<1>4. \A i \in 1..0 : Rest[i].at # "end" /\ Reach(Rest[i]) <= Item.d
  OBVIOUS
<1> QED
  BY <1>2, <1>3, <1>4, GoOnSound DEF Safe

LEMMA EndOfBlockSafe == ASSUME ControlInv, EndOfBlock PROVE Safe
BY RestSafe DEF EndOfBlock, Running

\* A loop at depth d of its activation, put before what follows it.
LEMMA LoopIs ==
  ASSUME NEW A \in Seq(Items), Nested(A), NEW d \in Nat, \A n \in DOMAIN A : Reach(A[n]) <= d,
         NEW t \in Int, NEW s \in Blocks
  PROVE  LET U == <<Iterations(t, s, d)>> \o A IN
         /\ U \in Seq(Items) /\ Nested(U) /\ Len(U) = Len(A) + 1 /\ From(U, 1) = A
         /\ U[1] = Iterations(t, s, d) /\ U[1].at = "loop"
         /\ \A n \in DOMAIN U : Reach(U[n]) <= d
         /\ LoopOf(U, 0, d)
<1> DEFINE i == Iterations(t, s, d)
           U == <<i>> \o A
<1>1. 0 \in Levels
  BY DEF Levels
<1>2. /\ i \in Items /\ Reach(i) = d /\ i.at = "loop" /\ i.d = d
      /\ i.at # "end" /\ i.at # "code"
  BY <1>1, CodeIs
<1> HIDE DEF i
<1>3. Nested(U)
  BY <1>2, NestedCons
<1>4. U \in Seq(Items) /\ Len(U) = Len(A) + 1 /\ U[1] = i /\ \A n \in 1..Len(A) : U[n + 1] = A[n]
  BY <1>2, ConsIs
<1>5. From(U, 1) = A
  BY <1>2, ConsFrom
<1>6. LoopOf(U, 0, d)
  BY <1>2, LoopCons
<1> HIDE DEF U
<1>7. \A n \in DOMAIN U : Reach(U[n]) <= d
  <2> SUFFICES ASSUME NEW n \in DOMAIN U PROVE Reach(U[n]) <= d
    OBVIOUS
  <2>1. CASE n = 1
    BY <1>2, <1>4, <2>1
  <2>2. CASE n # 1
    <3>1. n - 1 \in 1..Len(A) /\ (n - 1) + 1 = n /\ n - 1 \in DOMAIN A
      BY <1>4, <2>2
    <3> QED
      BY <1>4, <3>1
  <2> QED
    BY <2>1, <2>2
<1> QED
  BY <1>2, <1>3, <1>4, <1>5, <1>6, <1>7 DEF U, i

LEMMA LoopSafe == ASSUME ControlInv, DoLoop PROVE Safe
<1> DEFINE A == After
           t == Statement.times
           s == Statement.body
           d == Item.d
           U == <<Iterations(t, s, d)>> \o A
<1>1. Ready("loop") /\ GoOn(U) /\ exc' = exc
  BY DEF DoLoop
<1>2. /\ status = "run" /\ Top.todo # <<>> /\ Item.at \in {"code", "loop"}
      /\ t \in Int /\ s \in Blocks
  BY <1>1, ReadyIs, ControlAssumption
<1>3. d \in Nat
  BY <1>2, RunningIs
<1>4. /\ A \in Seq(Items) /\ Nested(A) /\ 1 \in 0..Len(A)
      /\ From(A, 1) = From(Top.todo, 1)
      /\ \A n \in DOMAIN A : Reach(A[n]) <= d
      /\ \A i \in 1..1 : A[i].at # "end" /\ Reach(A[i]) <= d
  BY <1>1, FollowingIs
<1> HIDE DEF A, t, s
<1>5. /\ U \in Seq(Items) /\ Nested(U) /\ Len(U) = Len(A) + 1 /\ From(U, 1) = A
      /\ U[1] = Iterations(t, s, d) /\ U[1].at = "loop"
      /\ \A n \in DOMAIN U : Reach(U[n]) <= d
  BY <1>2, <1>3, <1>4, LoopIs
<1> HIDE DEF U
<1>6. 1 \in 0..Len(U) /\ 1 \in 0..Len(U) - 1 /\ 2 \in 0..Len(U) /\ 1 + 1 = 2
      /\ 1 \in 1..Len(U) - 1 /\ DOMAIN U = 1..Len(U) /\ Len(U) >= 2
  BY <1>4, <1>5
<1>7. From(U, 2) = From(Top.todo, 1)
  <2>1. From(From(U, 1), 1) = From(U, 1 + 1)
    BY <1>5, <1>6, FromFrom
  <2> QED
    BY <1>4, <1>5, <1>6, <2>1
<1>8. U[2] = A[1]
  <2>1. \A m \in 1..Len(U) - 1 : From(U, 1)[m] = U[1 + m]
    <3>1. U \in Seq(Items) /\ 1 \in 0..Len(U)
      BY <1>5, <1>6
    <3> QED
      BY <3>1, FromIs
  <2> QED
    BY <1>5, <1>6, <2>1
<1>9. \A i \in 1..2 : U[i].at # "end" /\ Reach(U[i]) <= d
  <2>1. A[1].at # "end"
    BY <1>4
  <2>2. \A i \in 1..2 : i = 1 \/ i = 2
    OBVIOUS
  <2>3. \A i \in 1..2 : i \in DOMAIN U
    BY <1>6
  <2> QED
    BY <1>5, <1>8, <2>1, <2>2, <2>3
<1> QED
  BY <1>1, <1>2, <1>5, <1>6, <1>7, <1>9, GoOnSound DEF Safe

LEMMA IterateSafe == ASSUME ControlInv, Iterate PROVE Safe
<1>1. /\ status = "run" /\ Top.todo # <<>> /\ Item.at = "loop" /\ exc' = exc
      /\ GoOn(IF Item.times = 0 THEN Rest
              ELSE <<Code(Item.body, Item.d, Item.d), [Item EXCEPT !.times = @ - 1]>> \o Rest)
  BY DEF Iterate, Running
<1>2. CASE Item.times = 0
  BY <1>1, <1>2, RestSafe
<1>3. CASE Item.times # 0
  <2> DEFINE T == Top.todo
             A == Rest
             d == Item.d
             s == Item.body
             t == Item.times - 1
             B == <<Iterations(t, s, d)>> \o A
             i == Code(s, d, d)
             U == <<i>> \o B
  <2>1. /\ T \in Seq(Items) /\ Nested(T) /\ 1 \in 0..Len(T) /\ T # <<>> /\ Item = T[1]
        /\ A = From(T, 1) /\ Item \in Items /\ d \in Nat
    BY <1>1, RunningIs
  <2>2. Item = Iterations(Item.times, s, d) /\ s \in Blocks /\ t \in Int
    BY <1>1, <2>1, ItemIs
  <2>3. A \in Seq(Items) /\ Nested(A) /\ \A n \in DOMAIN A : Reach(A[n]) <= d
    <3>1. A \in Seq(Items) /\ Nested(A)
      BY <2>1, FromIs, NestedFrom
    <3>2. \A n \in DOMAIN T : Reach(T[n]) <= d
      BY <1>1, <2>1, FirstIs DEF Reach
    <3>3. From(T, 1) = From(A, 0) /\ 0 \in 0..Len(A)
      <4>1. From(A, 0) = A
        BY <3>1, SubSeqFull DEF From
      <4> QED
        BY <2>1, <3>1, <4>1
    <3>4. \A n \in 1..0 : Reach(A[n]) <= d
      OBVIOUS
    <3> HIDE DEF T, A, d
    <3> QED
      <4>1. Refilled(T, 1, A, 0, d)
        BY <2>1, <3>1, <3>2, <3>3, <3>4 DEF Refilled
      <4> QED
        BY <3>1, <4>1, StillBelow
  <2>4. GoOn(U)
    <3>1. [Item EXCEPT !.times = @ - 1] = Iterations(t, s, d)
      <4>1. ASSUME NEW n, NEW b, NEW e, NEW m
            PROVE  [Iterations(n, b, e) EXCEPT !.times = m] = Iterations(m, b, e)
        BY DEF Iterations
      <4>2. [Item EXCEPT !.times = @ - 1] = [Item EXCEPT !.times = t]
        OBVIOUS
      <4> DEFINE n == Item.times
      <4>3. Item = Iterations(n, s, d)
        BY <2>2
      <4> HIDE DEF n, s, d, t
      <4>4. [Item EXCEPT !.times = t] = Iterations(t, s, d)
        BY <4>1, <4>3
      <4> QED
        BY <4>2, <4>4
    <3> HIDE DEF A, d, s, t
    <3>2. Iterations(t, s, d) \in Items /\ Code(s, d, d) \in Items
      BY <2>1, <2>2, CodeIs DEF Levels
    <3>3. <<Code(s, d, d), Iterations(t, s, d)>> = <<Code(s, d, d)>> \o <<Iterations(t, s, d)>>
      BY <3>2, PairIs
    <3>4. (<<Code(s, d, d)>> \o <<Iterations(t, s, d)>>) \o A = U
      <4>1. <<Code(s, d, d)>> \in Seq(Items) /\ <<Iterations(t, s, d)>> \in Seq(Items)
        BY <3>2
      <4> QED
        BY <2>3, <4>1, ConcatAssociative
    <3> QED
      BY <1>1, <1>3, <3>1, <3>3, <3>4 DEF A, d, s
  <2> HIDE DEF T, A, t, s, d
  <2>5. /\ B \in Seq(Items) /\ Nested(B) /\ Len(B) = Len(A) + 1 /\ From(B, 1) = A
        /\ B[1] = Iterations(t, s, d) /\ B[1].at = "loop"
        /\ \A n \in DOMAIN B : Reach(B[n]) <= d
        /\ LoopOf(B, 0, d)
    BY <2>1, <2>2, <2>3, LoopIs
  <2> HIDE DEF B
  <2>6. /\ i \in Items /\ Reach(i) = d /\ i.at = "code" /\ i.l = d /\ i.at # "end"
    <3>1. d \in Levels /\ 0 \in Int
      BY <2>1 DEF Levels
    <3>2. /\ Code(s, d, d) \in Items /\ Reach(Code(s, d, d)) = d
          /\ Code(s, d, d).at = "code" /\ Code(s, d, d).l = d
      BY <2>1, <2>2, <3>1, CodeIs
    <3> QED
      BY <3>2 DEF i
  <2> HIDE DEF i
  <2>7. Nested(U)
    BY <2>5, <2>6, NestedCons
  <2>8. U \in Seq(Items) /\ Len(U) = Len(B) + 1 /\ U[1] = i /\ \A n \in 1..Len(B) : U[n + 1] = B[n]
    BY <2>5, <2>6, ConsIs
  <2>9. From(U, 1) = B
    BY <2>5, <2>6, ConsFrom
  <2> HIDE DEF U
  <2>10. 1 \in 0..Len(U) /\ 1 \in 0..Len(U) - 1 /\ 2 \in 0..Len(U) /\ 1 \in 1..Len(B) /\ 1 + 1 = 2
         /\ 1 \in DOMAIN B
    BY <2>3, <2>5, <2>8
  <2>11. From(U, 2) = From(Top.todo, 1)
    <3>1. From(From(U, 1), 1) = From(U, 1 + 1)
      BY <2>8, <2>10, FromFrom
    <3> QED
      BY <2>1, <2>5, <2>9, <2>10, <3>1 DEF T
  <2>12. \A n \in 1..2 : U[n].at # "end" /\ Reach(U[n]) <= d
    <3>1. U[2] = B[1]
      BY <2>8, <2>10
    <3>2. \A n \in 1..2 : n = 1 \/ n = 2
      OBVIOUS
    <3> QED
      BY <2>1, <2>5, <2>6, <2>8, <2>10, <3>1, <3>2
  <2> QED
    BY <1>1, <2>4, <2>7, <2>8, <2>10, <2>11, <2>12, GoOnSound DEF Safe, d
<1> QED
  BY <1>2, <1>3

LEMMA TrySafe == ASSUME ControlInv, DoTry PROVE Safe
<1> DEFINE T == Top.todo
           K == Len(stack)
           a == Tail(Item.body)
           d == Item.d
           f == [level |-> K, todo |-> After, t |-> Statement,
                 d |-> d, l |-> Item.l, local |-> Top.local]
           U == <<Code(Statement.body, d + 1, Item.l), EndOfBody(d)>>
                  \o Finish(Statement, d, Item.l, FALSE) \o After
           s2 == Declared(stack[K].slots, d)
           a2 == [stack[K] EXCEPT !.slots = s2, !.todo = U]
<1>1. Ready("try")
  BY DEF DoTry
<1>2. /\ status = "run" /\ T # <<>> /\ Item.at = "code"
      /\ Statement \in Statements /\ Statement.is = "try"
      /\ Item.l \in Levels /\ a \in Blocks /\ After = Following(T, a)
  BY <1>1, ReadyIs
<1>3. /\ Sound(stack, exc) /\ stack # <<>> /\ stack \in Seq(Activations) /\ exc \in Seq(Frames)
      /\ K \in DOMAIN stack /\ DOMAIN stack = 1..K
      /\ T \in Seq(Items) /\ Nested(T) /\ T = stack[K].todo
      /\ Item = T[1] /\ d \in Nat
  BY <1>2, RunningIs
<1>4. Statement \in Tries
  BY <1>2 DEF Tries
<1>5. stack[K] \in Activations /\ Top = stack[K]
  BY <1>3, ActivationIs DEF Top
<1>6. /\ exc' = <<f>> \o exc
      /\ stack' = [stack EXCEPT ![K] = a2]
  <2>1. exc' = <<f>> \o exc
    BY DEF DoTry
  <2>2. stack' = [stack EXCEPT ![K].slots = Declared(@, d), ![K].todo = U]
    BY DEF DoTry
  <2> HIDE DEF U, d, K
  <2>3. [stack EXCEPT ![K].slots = Declared(@, d), ![K].todo = U]
          = [stack EXCEPT ![K] = [stack[K] EXCEPT !.slots = Declared(stack[K].slots, d), !.todo = U]]
    OBVIOUS
  <2> QED
    BY <2>1, <2>2, <2>3
<1>7. After \in Seq(Items) /\ Nested(After) /\ \A n \in DOMAIN After : Reach(After[n]) <= d
  BY <1>1, FollowingIs
<1>8. U = Entered(Statement, d, Item.l, After)
  <2> DEFINE b == Code(Statement.body, d + 1, Item.l)
             e == EndOfBody(d)
             c == Code(Statement.final, d + 1, Item.l)
  <2>1. Statement.body \in Blocks /\ Statement.final \in Blocks /\ d + 1 \in Nat /\ 0 \in Int
    BY <1>3, <1>4, TryIs
  <2>2. b \in Items /\ e \in Items /\ c \in Items
    <3>1. d \in Nat /\ Item.l \in Levels
      BY <1>2, <1>3
    <3>2. b \in Items /\ c \in Items
      BY <2>1, <3>1, CodeIs
    <3>3. e \in Items
      BY <3>1 DEF Items, EndOfBody
    <3> QED
      BY <3>2, <3>3
  <2>3. U = (<<b, e>> \o (<<c>> \o <<>>)) \o After
    BY DEF Finish
  <2>4. Entered(Statement, d, Item.l, After) = <<b>> \o (<<e>> \o (<<c>> \o After))
    BY DEF Entered
  <2> HIDE DEF b, e, c, U
  <2>5. <<c>> \o <<>> = <<c>> /\ <<b, e>> = <<b>> \o <<e>>
    <3>1. <<c>> \o <<>> = <<c>>
      OBVIOUS
    <3>2. <<b, e>> = <<b>> \o <<e>>
      BY <2>2, PairIs
    <3> QED
      BY <3>1, <3>2
  <2>6. <<b>> \in Seq(Items) /\ <<e>> \in Seq(Items) /\ <<c>> \in Seq(Items)
    BY <2>2
  <2>7. <<e>> \o <<c>> \in Seq(Items) /\ <<b>> \o <<e>> \in Seq(Items)
    BY <2>6, ConcatProperties
  <2>8. ((<<b>> \o <<e>>) \o <<c>>) \o After = (<<b>> \o <<e>>) \o (<<c>> \o After)
    BY <1>7, <2>6, <2>7, ConcatAssociative
  <2>9. <<c>> \o After \in Seq(Items)
    BY <1>7, <2>6, ConcatProperties
  <2>10. (<<b>> \o <<e>>) \o (<<c>> \o After) = <<b>> \o (<<e>> \o (<<c>> \o After))
    BY <2>6, <2>9, ConcatAssociative
  <2> QED
    BY <2>3, <2>4, <2>5, <2>8, <2>10
<1>9. U \in Seq(Items)
  <2>1. Item.l # -1 => LoopOf(After, 0, Item.l)
    BY <1>2, <1>3, AfterIs
  <2>2. /\ After \in Seq(Items) /\ Nested(After) /\ d \in Nat /\ Item.l \in Levels
        /\ Statement \in Tries /\ \A n \in DOMAIN After : Reach(After[n]) <= d
    BY <1>2, <1>3, <1>4, <1>7
  <2> HIDE DEF d, U
  <2>3. Entered(Statement, d, Item.l, After) \in Seq(Items)
    BY <2>1, <2>2, EnteredIs DEF Fits
  <2> QED
    BY <1>8, <2>3
<1>10. f \in Frames /\ K \in Nat
  <2>1. K \in Nat /\ Top.local \in Int
    BY <1>3, <1>5 DEF Activations
  <2> HIDE DEF K, d
  <2> QED
    BY <1>2, <1>3, <1>4, <1>7, <2>1 DEF Frames
<1>11. f.level = K /\ f.t = Statement /\ f.d = T[1].d /\ f.l = T[1].l /\ f.todo = Following(T, a)
  <2>1. f.level = K /\ f.t = Statement /\ f.d = d /\ f.l = Item.l /\ f.todo = After
    BY DEF f
  <2> QED
    BY <1>2, <1>3, <2>1
<1>12. /\ DOMAIN s2 = DOMAIN stack[K].slots \cup {d}
       /\ \A g \in DOMAIN s2 : s2[g] = IF g = d THEN exc ELSE stack[K].slots[g]
  BY <1>5 DEF Declared
<1>13. s2 \in UNION {[D -> Seq(Frames)] : D \in SUBSET Nat}
  <2>1. PICK D \in SUBSET Nat : stack[K].slots \in [D -> Seq(Frames)]
    BY <1>5 DEF Activations
  <2>2. D \cup {d} \in SUBSET Nat
    BY <1>3
  <2>3. s2 \in [D \cup {d} -> Seq(Frames)]
    BY <1>3, <1>5, <2>1 DEF Declared
  <2> QED
    BY <2>2, <2>3
<1> HIDE DEF f, U, s2, T, K, a, d
<1>14. a2 \in Activations /\ a2.slots = s2 /\ a2.todo = U
  BY <1>5, <1>9, <1>13 DEF Activations
<1> HIDE DEF a2
<1>15. /\ stack' \in Seq(Activations) /\ Len(stack') = K
       /\ \A i \in 1..K - 1 : stack'[i] = stack[i]
       /\ stack'[K] = a2 /\ K # 0
  <2>1. K = Len(stack)
    BY DEF K
  <2> QED
    BY <1>3, <1>6, <1>10, <1>14, <2>1
<1>16. Enters(stack, exc, f, stack')
  <2>1. f.level = K /\ f.t = Statement /\ f.d = d /\ f.l = Item.l /\ f.todo = After
    BY <1>2, <1>3, <1>11 DEF d
  <2>2. stack'[K].todo = U /\ stack'[K].slots = s2
    BY <1>14, <1>15
  <2> QED
    BY <1>8, <1>12, <1>15, <2>1, <2>2 DEF Enters
<1>17. T[1].at = "code" /\ K = Len(stack)
  BY <1>2, <1>3 DEF K
<1>18. Sound(stack', <<f>> \o exc)
  <2>1. /\ Sound(stack, exc) /\ stack # <<>> /\ T = stack[Len(stack)].todo /\ T # <<>>
        /\ T[1].at = "code" /\ Statement \in Tries /\ a \in Blocks
    BY <1>2, <1>3, <1>4, <1>17
  <2>2. /\ f \in Frames /\ f.level = Len(stack) /\ f.t = Statement /\ f.d = T[1].d
        /\ f.l = T[1].l /\ f.todo = Following(T, a)
    BY <1>10, <1>11, <1>17
  <2>3. stack' \in Seq(Activations)
    BY <1>15
  <2> QED
    BY <1>16, <2>1, <2>2, <2>3, SoundTry
<1>19. stack' # <<>>
  <2>1. K # 0
    BY <1>3, <1>10
  <2>2. stack' = <<>> => Len(stack') = 0
    OBVIOUS
  <2> QED
    BY <1>15, <2>1, <2>2
<1> QED
  BY <1>6, <1>18, <1>19 DEF Safe

\* The end of a body drops its frame.
LEMMA EndOfBodySafe == ASSUME ControlInv, DoEndOfBody PROVE Safe
<1> DEFINE T == Top.todo
           K == Len(stack)
           d == Item.d
           U == Rest
<1>1. /\ status = "run" /\ T # <<>> /\ Item.at = "end"
      /\ exc' = Top.slots[d] /\ GoOn(U)
  BY DEF DoEndOfBody, Running
<1>2. /\ Sound(stack, exc) /\ stack # <<>> /\ stack \in Seq(Activations) /\ exc \in Seq(Frames)
      /\ K \in DOMAIN stack /\ DOMAIN stack = 1..K
      /\ T \in Seq(Items) /\ Nested(T) /\ T = stack[K].todo /\ Top = stack[K]
      /\ Item = T[1] /\ d \in Nat /\ 1 \in 0..Len(T) /\ U = From(T, 1)
  BY <1>1, RunningIs DEF Top
<1>3. /\ 1 \in DOMAIN T /\ Len(T) \in Nat /\ DOMAIN T = 1..Len(T) /\ Reach(T[1]) = d + 1
      /\ \A n \in DOMAIN T : Reach(T[n]) <= d + 1
  BY <1>1, <1>2, FirstIs DEF Reach
<1> HIDE DEF U, T, d
<1>4. U \in Seq(Items) /\ Nested(U)
  BY <1>2, FromIs, NestedFrom
<1>5. stack' = WithTodo(stack, K, U) /\ 0 \in Int
  BY <1>1 DEF GoOn, WithTodo
<1> HIDE DEF K
<1>6. /\ stack' \in Seq(Activations) /\ Len(stack') = Len(stack)
      /\ \A i \in DOMAIN stack : i # K => stack'[i] = stack[i]
      /\ stack'[K].todo = U /\ stack'[K].slots = stack[K].slots
  <2>1. stack \in Seq(Activations) /\ K \in DOMAIN stack /\ U \in Seq(Items) /\ 0 \in Int
    BY <1>2, <1>4
  <2> QED
    BY <1>5, <2>1, TodoIs
<1>7. Remains(exc, K, d, exc')
  <2>1. d \in 0..Reach(T[1]) - 1
    BY <1>2, <1>3
  <2> QED
    BY <1>1, <1>2, <1>3, <2>1 DEF Sound, Linked
<1>8. /\ T[2].at = "code"
      /\ \A m \in DOMAIN T : m > 2 => Reach(T[m]) <= d
  <2>1. T[1].at = "end" /\ T[1].d = d /\ 1 + 1 = 2
    BY <1>1, <1>2 DEF d
  <2> QED
    BY <1>2, <1>3, <2>1 DEF Nested, Closed
<1>9. \A i \in DOMAIN T : T[i].at = "end" => (i <= 1 <=> T[i].d >= d)
  <2> SUFFICES ASSUME NEW i \in DOMAIN T, T[i].at = "end"
               PROVE  i <= 1 <=> T[i].d >= d
    OBVIOUS
  <2>1. T[i].d \in Nat /\ Reach(T[i]) = T[i].d + 1 /\ i \in Nat /\ i >= 1 /\ i # 2
    BY <1>2, <1>3, <1>8, ItemIs DEF Reach
  <2>2. CASE i = 1
    <3>1. T[1].d = d
      BY <1>2 DEF d
    <3> QED
      BY <1>2, <2>2, <3>1
  <2>3. CASE i > 2
    BY <1>2, <1>8, <2>1, <2>3
  <2> QED
    BY <2>1, <2>2, <2>3
<1>10. From(U, 0) = From(T, 1) /\ 0 \in 0..Len(U)
  <2>1. From(U, 0) = U
    BY <1>4, SubSeqFull DEF From
  <2> QED
    BY <1>2, <1>4, <2>1
<1>11. \A i \in DOMAIN U : Reach(U[i]) <= d + 1 /\ Reach(U[i]) <= Reach(T[1])
  <2>1. \A n \in 1..0 : Reach(U[n]) <= d + 1
    OBVIOUS
  <2>2. From(T, 1) = From(U, 0) /\ d + 1 \in Nat
    BY <1>2, <1>10
  <2>3. \A i \in DOMAIN U : Reach(U[i]) <= d + 1
    <3> DEFINE h == d + 1
    <3>1. Refilled(T, 1, U, 0, h)
      BY <1>2, <1>3, <1>4, <1>10, <2>1, <2>2 DEF Refilled
    <3> HIDE DEF h
    <3>2. \A i \in DOMAIN U : Reach(U[i]) <= h
      BY <3>1, StillBelow
    <3> QED
      BY <3>2 DEF h
  <2> QED
    BY <1>3, <2>3
<1>12. Cuts(stack, K, d, stack', 1, 0)
  <2>1. Len(stack') = K /\ \A i \in 1..K - 1 : stack'[i] = stack[i]
    <3>1. K = Len(stack) /\ K \in Nat
      BY <1>2 DEF K
    <3>2. \A i \in 1..K - 1 : i \in DOMAIN stack /\ i # K
      <4>1. DOMAIN stack = 1..K
        BY <1>2
      <4> QED
        BY <3>1, <4>1
    <3> QED
      BY <1>6, <3>1, <3>2
  <2>2. stack[K].todo = T /\ 1 \in 0..Len(T) /\ 1 \in DOMAIN T
    BY <1>2, <1>3
  <2>3. \A n \in 1..0 : U[n].at # "end"
    OBVIOUS
  <2> QED
    BY <1>4, <1>6, <1>9, <1>10, <1>11, <2>1, <2>2, <2>3 DEF Cuts
<1>13. Sound(stack', exc')
  BY <1>2, <1>6, <1>7, <1>12, SoundCut
<1>14. stack' # <<>>
  <2>1. Len(stack') # 0
    BY <1>2, <1>6 DEF K
  <2> QED
    BY <2>1
<1> QED
  BY <1>13, <1>14 DEF Safe

\* An exception is thrown, anew or again.
LEMMA ThrowSafe == ASSUME ControlInv, status = "run", NEW e, ob_throw(e) PROVE Safe
<1>1. CASE exc = <<>>
  BY <1>1 DEF ob_throw, Safe
<1>2. CASE exc # <<>>
  <2> DEFINE f == exc[1]
             k == f.level
             U == Landing(f, e)
             st == SubSeq(stack, 1, k)
  <2>1. Sound(stack, exc) /\ stack # <<>> /\ stack \in Seq(Activations) /\ exc \in Seq(Frames)
    BY RunningIs
  <2>2. f \in Frames /\ 1 \in DOMAIN exc
    BY <1>2, <2>1
  <2>3. k \in DOMAIN stack /\ k \in 1..Len(stack)
    BY <2>1, <2>2 DEF Sound, Backed
  <2>4. /\ st \in Seq(Activations) /\ Len(st) = k /\ k \in Nat /\ k # 0 /\ k \in DOMAIN st
        /\ \A i \in 1..k : st[i] = stack[i]
    <3> HIDE DEF k
    <3>1. /\ st \in Seq(Activations) /\ Len(st) = k /\ k \in Nat /\ k # 0
          /\ \A i \in 1..k : st[i] = stack[i]
      BY <2>1, <2>3
    <3> HIDE DEF st
    <3> QED
      BY <3>1
  <2>5. exc' = Tail(exc)
    BY <1>2, Zenon DEF ob_throw
  <2>6. PICK x \in {f.local, stack[k].local} : stack' = WithLocal(st, k, U, x)
    BY <1>2, Zenon DEF ob_throw, WithLocal
  <2>7. x \in Int
    <3>1. f.local \in Int
      BY <2>2, FrameIs
    <3>2. stack[k].local \in Int
      BY <2>1, <2>3, ActivationIs DEF Activations
    <3> QED
      BY <3>1, <3>2
  <2>8. U \in Seq(Items)
    BY <1>2, <2>1, LandingOf DEF Lands
  <2> HIDE DEF U, st, f
  <2>9. /\ stack' \in Seq(Activations) /\ Len(stack') = Len(st)
        /\ \A i \in DOMAIN st : i # k => stack'[i] = st[i]
        /\ stack'[k].todo = U /\ stack'[k].slots = st[k].slots
    BY <2>4, <2>6, <2>7, <2>8, TodoIs
  <2>10. Len(stack') = k /\ \A i \in 1..k - 1 : stack'[i] = stack[i]
    <3>1. \A i \in 1..k - 1 : i \in DOMAIN st /\ i # k /\ i \in 1..k
      BY <2>4
    <3> QED
      BY <2>4, <2>9, <3>1
  <2>11. stack'[k].slots = stack[k].slots
    <3>1. k \in 1..k
      BY <2>4
    <3> QED
      BY <2>4, <2>9, <3>1
  <2>12. Sound(stack', Tail(exc))
    BY <1>2, <2>1, <2>9, <2>10, <2>11, SoundThrow DEF U, f
  <2>13. stack' # <<>>
    <3>1. Len(stack') # 0
      BY <2>4, <2>10
    <3> QED
      BY <3>1
  <2> QED
    BY <2>5, <2>12, <2>13 DEF Safe
<1> QED
  BY <1>1, <1>2

LEMMA InnermostIs ==
  ASSUME ControlInv, NEW kind, Ready(kind), InLoop
  PROVE  LET T == Top.todo
             m == InnermostLoop
         IN /\ m \in DOMAIN T /\ T[m].at = "loop" /\ \A j \in 1..m - 1 : T[j].at # "loop"
            /\ Item.l \in Nat /\ Item = T[1]
<1> DEFINE T == Top.todo
           Is(m) == T[m].at = "loop" /\ \A j \in 1..m - 1 : T[j].at # "loop"
<1>1. status = "run" /\ T # <<>> /\ Item.at = "code" /\ Item.l \in Nat
  BY ReadyIs DEF InLoop, Levels
<1>2. T \in Seq(Items) /\ Nested(T) /\ Item = T[1]
  BY <1>1, RunningIs
<1> HIDE DEF T
<1>3. 1 \in DOMAIN T /\ DOMAIN T = 1..Len(T) /\ Len(T) \in Nat
  BY <1>1, <1>2
<1>4. PICK m \in DOMAIN T : /\ m > 1 /\ T[m].at = "loop"
                            /\ \A j \in DOMAIN T : 1 < j /\ j < m => T[j].at # "loop"
  <2>1. LoopOf(T, 1, Item.l)
    BY <1>1, <1>2, <1>3 DEF Nested, Looped
  <2> QED
    BY <2>1 DEF LoopOf
<1>5. \A j \in 1..m - 1 : T[j].at # "loop"
  <2> SUFFICES ASSUME NEW j \in 1..m - 1 PROVE T[j].at # "loop"
    OBVIOUS
  <2>1. j \in DOMAIN T /\ j < m /\ (j = 1 \/ 1 < j)
    BY <1>3
  <2> QED
    BY <1>1, <1>2, <1>4, <2>1
<1>6. InnermostLoop = CHOOSE n \in DOMAIN T : Is(n)
  BY DEF InnermostLoop, T
<1>7. \E n \in DOMAIN T : Is(n)
  BY <1>4, <1>5
<1> HIDE DEF Is
<1>8. InnermostLoop \in DOMAIN T /\ Is(InnermostLoop)
  BY <1>6, <1>7
<1> QED
  BY <1>1, <1>2, <1>8 DEF T, Is

\* break and continue.
LEMMA JumpSafe ==
  ASSUME ControlInv, NEW kind, Ready(kind), InLoop, exc' = UnwoundToLoop,
         NEW p \in {InnermostLoop - 1, InnermostLoop}, GoOn(Leave(p + 1))
  PROVE  Safe
<1> DEFINE T == Top.todo
           K == Len(stack)
           m == InnermostLoop
           U == From(T, p)
           l == Item.l
<1>1. status = "run" /\ T # <<>> /\ Item.at = "code"
  BY ReadyIs
<1>2. /\ Sound(stack, exc) /\ stack # <<>> /\ stack \in Seq(Activations)
      /\ K \in DOMAIN stack /\ DOMAIN stack = 1..K
      /\ T \in Seq(Items) /\ Nested(T) /\ T = stack[K].todo /\ Top = stack[K]
  BY <1>1, RunningIs DEF Top
<1>3. /\ m \in DOMAIN T /\ T[m].at = "loop" /\ \A j \in 1..m - 1 : T[j].at # "loop"
      /\ l \in Nat /\ Item = T[1]
  BY InnermostIs
<1>4. p \in {m - 1, m}
  OBVIOUS
<1>5. stack' = WithTodo(stack, K, U) /\ 0 \in Int
  BY DEF GoOn, WithTodo, Leave, From
<1>6. exc' = IF T[1].d > l THEN stack[K].slots[l] ELSE exc
  BY <1>2, <1>3 DEF UnwoundToLoop
<1> HIDE DEF T, K, m, l
<1>7. p \in 0..Len(T)
  BY <1>2, <1>3, <1>4
<1>8. U \in Seq(Items)
  BY <1>2, <1>7, FromIs
<1> HIDE DEF U
<1>9. /\ stack' \in Seq(Activations) /\ Len(stack') = Len(stack)
      /\ \A i \in DOMAIN stack : i # K => stack'[i] = stack[i]
      /\ stack'[K].todo = U /\ stack'[K].slots = stack[K].slots
  <2>1. stack \in Seq(Activations) /\ K \in DOMAIN stack /\ 0 \in Int
    BY <1>2
  <2> QED
    BY <1>5, <1>8, <2>1, TodoIs
<1>10. K = Len(stack) /\ K \in Nat /\ K # 0
  BY <1>2 DEF K
<1>11. \A i \in 1..K - 1 : stack'[i] = stack[i]
  <2>1. \A i \in 1..K - 1 : i \in DOMAIN stack /\ i # K
    <3>1. DOMAIN stack = 1..K
      BY <1>2
    <3> QED
      BY <1>10, <3>1
  <2> QED
    BY <1>9, <2>1
<1>12. Sound(stack', IF T[1].d > l THEN stack[K].slots[l] ELSE exc)
  <2>1. /\ T = stack[Len(stack)].todo /\ T # <<>> /\ T[1].at = "code" /\ l \in Nat /\ l = T[1].l
    BY <1>1, <1>2, <1>3, <1>10 DEF l, T
  <2>2. /\ stack' \in Seq(Activations) /\ Len(stack') = Len(stack)
        /\ \A i \in 1..Len(stack) - 1 : stack'[i] = stack[i]
        /\ stack'[Len(stack)].slots = stack[Len(stack)].slots
        /\ stack'[Len(stack)].todo = From(T, p)
    BY <1>9, <1>10, <1>11 DEF U
  <2>3. Sound(stack', IF T[1].d > l THEN stack[Len(stack)].slots[l] ELSE exc)
    <3>1. /\ Sound(stack, exc) /\ stack # <<>> /\ m \in DOMAIN T /\ T[m].at = "loop"
          /\ \A j \in 1..m - 1 : T[j].at # "loop"
          /\ p \in {m - 1, m}
      BY <1>2, <1>3, <1>4 DEF m
    <3> QED
      BY <2>1, <2>2, <3>1, SoundJump
  <2> QED
    BY <1>10, <2>3
<1>13. stack' # <<>>
  <2>1. Len(stack') # 0
    BY <1>9, <1>10
  <2> QED
    BY <2>1
<1> QED
  BY <1>6, <1>12, <1>13 DEF Safe

LEMMA BreakSafe == ASSUME ControlInv, DoBreak PROVE Safe
<1>1. Ready("break") /\ InLoop /\ exc' = UnwoundToLoop /\ GoOn(Leave(InnermostLoop + 1))
  BY DEF DoBreak
<1> QED
  BY <1>1, JumpSafe

LEMMA ContinueSafe == ASSUME ControlInv, DoContinue PROVE Safe
<1>1. Ready("continue") /\ InLoop /\ exc' = UnwoundToLoop /\ GoOn(Leave(InnermostLoop))
  BY DEF DoContinue
<1>2. (InnermostLoop - 1) + 1 = InnermostLoop
  <2>1. InnermostLoop \in DOMAIN Top.todo /\ status = "run"
    BY <1>1, InnermostIs, ReadyIs
  <2>2. Top.todo \in Seq(Items)
    BY <2>1, RunningIs
  <2>3. InnermostLoop \in Nat
    BY <2>1, <2>2
  <2> QED
    BY <2>3
<1>3. GoOn(Leave((InnermostLoop - 1) + 1)) /\ InnermostLoop - 1 \in {InnermostLoop - 1, InnermostLoop}
  BY <1>1, <1>2
<1> QED
  BY <1>1, <1>3, JumpSafe

\* The innermost activation ends.
LEMMA PopSafe ==
  ASSUME ControlInv, status = "run", Pop, Remains(exc, Len(stack), 0, exc')
  PROVE  Safe
<1>1. Sound(stack, exc) /\ stack # <<>> /\ stack \in Seq(Activations)
  BY RunningIs
<1>2. CASE Top.isr
  BY <1>2 DEF Pop, Safe
<1>3. CASE ~Top.isr
  <2>1. /\ stack' = SubSeq(stack, 1, Len(stack) - 1)
        /\ status' = IF Len(stack) = 1 THEN "done" ELSE status
    BY <1>3 DEF Pop
  <2>2. CASE Len(stack) = 1
    BY <2>1, <2>2 DEF Safe
  <2>3. CASE Len(stack) # 1
    <3>1. Sound(stack', exc')
      BY <1>1, <2>1, SoundPop
    <3>2. stack' # <<>>
      <4>1. Len(stack') = Len(stack) - 1 /\ Len(stack) \in Nat
        <5>1. Len(stack) \in Nat /\ Len(stack) # 0
          BY <1>1
        <5>2. Len(stack) - 1 \in 0..Len(stack)
          BY <5>1
        <5>3. Len(SubSeq(stack, 1, Len(stack) - 1)) = Len(stack) - 1
          <6> DEFINE L == Len(stack)
          <6>1. stack \in Seq(Activations) /\ L = Len(stack) /\ L \in Nat /\ L # 0
            BY <1>1, <5>1
          <6> HIDE DEF L
          <6>2. L - 1 \in 0..Len(stack) /\ 1 \in 1..Len(stack) + 1
            BY <6>1
          <6>3. Len(SubSeq(stack, 1, L - 1)) = IF 1 <= L - 1 THEN (L - 1) - 1 + 1 ELSE 0
            BY <6>1, <6>2, SubSeqProperties
          <6>4. Len(SubSeq(stack, 1, L - 1)) = L - 1
            BY <6>1, <6>3
          <6> QED
            BY <6>4 DEF L
        <5> QED
          BY <2>1, <5>1, <5>3
      <4>2. Len(stack) # 0
        BY <1>1
      <4>3. Len(stack') # 0
        BY <2>3, <4>1
      <4> QED
        BY <4>3
    <3> QED
      BY <3>1, <3>2 DEF Safe
  <2> QED
    BY <2>2, <2>3
<1> QED
  BY <1>2, <1>3

\* There are no frames of an activation whose code is outside of all tries.
LEMMA NoneInside ==
  ASSUME ControlInv, status = "run", \A n \in DOMAIN Top.todo : Reach(Top.todo[n]) <= 0
  PROVE  Remains(exc, Len(stack), 0, exc)
<1> DEFINE K == Len(stack)
<1>1. /\ Sound(stack, exc) /\ exc \in Seq(Frames) /\ stack \in Seq(Activations)
      /\ K \in DOMAIN stack /\ DOMAIN stack = 1..K /\ Top.todo = stack[K].todo
  BY RunningIs
<1> HIDE DEF K
<1>2. ASSUME NEW i \in DOMAIN exc PROVE ~Inside(exc[i], K, 0)
  <2>1. exc[i].level \in 1..K /\ exc[i].d \in Nat
    <3>1. exc[i] \in Frames
      BY <1>1
    <3>2. exc[i].level \in DOMAIN stack
      BY <1>1 DEF Sound, Backed
    <3> QED
      BY <1>1, <3>1, <3>2, FrameIs
  <2>2. \A n \in DOMAIN stack[K].todo : Reach(stack[K].todo[n]) <= 0
    BY <1>1
  <2>3. exc[i].level = K => exc[i].d < 0
    BY <1>1, <2>2, FrameBelow
  <2>4. ~(exc[i].level > K) /\ exc[i].level # K
    <3>1. K \in Nat
      BY <1>1
    <3> QED
      BY <2>1, <2>3, <3>1
  <2> QED
    BY <2>4 DEF Inside
<1>3. Remains(exc, K, 0, exc)
  BY <1>1, <1>2, RemainsAll
<1> QED
  BY <1>3 DEF K

LEMMA ReturnSafe == ASSUME ControlInv, DoReturn PROVE Safe
<1> DEFINE T == Top.todo
           K == Len(stack)
           d == Item.d
<1>1. Ready("return") /\ exc' = Unwound /\ Pop
  BY DEF DoReturn
<1>2. status = "run" /\ T # <<>> /\ Item.at = "code"
  BY <1>1, ReadyIs
<1>3. /\ Sound(stack, exc) /\ K \in DOMAIN stack
      /\ T \in Seq(Items) /\ Nested(T) /\ T = stack[K].todo /\ Top = stack[K]
      /\ Item = T[1] /\ d \in Nat
  BY <1>2, RunningIs DEF Top
<1> HIDE DEF T
<1>4. 1 \in DOMAIN T /\ Reach(T[1]) = d /\ \A n \in DOMAIN T : Reach(T[n]) <= d
  BY <1>2, <1>3, FirstIs DEF Reach
<1>5. Remains(exc, K, 0, exc')
  <2>1. CASE d > 0
    <3>1. 0 \in 0..Reach(T[1]) - 1 /\ exc' = stack[K].slots[0]
      BY <1>1, <1>3, <1>4, <2>1 DEF Unwound
    <3> QED
      BY <1>3, <1>4, <3>1 DEF Sound, Linked
  <2>2. CASE ~(d > 0)
    <3>1. d = 0 /\ exc' = exc
      BY <1>1, <1>3, <2>2 DEF Unwound
    <3>2. \A n \in DOMAIN Top.todo : Reach(Top.todo[n]) <= 0
      BY <1>4, <3>1 DEF T
    <3> QED
      BY <1>2, <3>1, <3>2, NoneInside
  <2> QED
    BY <2>1, <2>2
<1> QED
  BY <1>1, <1>2, <1>5, PopSafe

LEMMA FallOffSafe == ASSUME ControlInv, FallOff PROVE Safe
<1>1. status = "run" /\ Top.todo = <<>> /\ Pop /\ exc' = exc
  BY DEF FallOff
<1>2. \A n \in DOMAIN Top.todo : Reach(Top.todo[n]) <= 0
  BY <1>1
<1> QED
  BY <1>1, <1>2, NoneInside, PopSafe

LEMMA CalledIs ==
  ASSUME NEW s \in Blocks, NEW b \in BOOLEAN
  PROVE  LET a == [Activation(s) EXCEPT !.isr = b] IN
         /\ a \in Activations /\ a.todo = <<Code(s, 0, -1)>>
         /\ Activation(s) \in Activations /\ Activation(s).todo = <<Code(s, 0, -1)>>
<1>1. Code(s, 0, -1) \in Items
  <2>1. 0 \in Nat /\ -1 \in Levels /\ 0 \in Int
    BY DEF Levels
  <2> QED
    BY <2>1, CodeIs
<1>2. <<>> \in UNION {[D -> Seq(Frames)] : D \in SUBSET Nat}
  <2>1. <<>> \in [{} -> Seq(Frames)] /\ {} \in SUBSET Nat
    OBVIOUS
  <2> QED
    BY <2>1
<1> DEFINE t == <<Code(s, 0, -1)>>
           r(x) == [todo |-> t, slots |-> <<>>, local |-> 0, isr |-> x]
<1>3. t \in Seq(Items)
  BY <1>1
<1>4. Activation(s) = r(FALSE) /\ [Activation(s) EXCEPT !.isr = b] = r(b)
  BY DEF Activation
<1> HIDE DEF t
<1>5. \A x \in BOOLEAN : r(x) \in Activations
  <2> DEFINE X == UNION {[D -> Seq(Frames)] : D \in SUBSET Nat}
  <2>0. <<>> \in X
    BY <1>2
  <2> HIDE DEF X
  <2>1. <<>> \in X /\ 0 \in Int
    BY <2>0
  <2>2. \A x \in BOOLEAN : r(x) \in [todo : Seq(Items), slots : X, local : Int, isr : BOOLEAN]
    BY <1>3, <2>1
  <2> QED
    BY <2>2 DEF Activations, X
<1> QED
  BY <1>4, <1>5 DEF t

LEMMA PushedOn ==
  ASSUME NEW st, NEW ex, Sound(st, ex), NEW a \in Activations, NEW s \in Blocks,
         a.todo = <<Code(s, 0, -1)>>
  PROVE  Sound(Append(st, a), ex) /\ Append(st, a) # <<>>
<1>1. st \in Seq(Activations)
  BY DEF Sound
<1>2. Len(Append(st, a)) = Len(st) + 1 /\ Len(st) \in Nat
  BY <1>1
<1>3. Append(st, a) # <<>>
  <2>1. Append(st, a) = <<>> => Len(Append(st, a)) = 0
    OBVIOUS
  <2> QED
    BY <1>2, <2>1
<1> QED
  BY <1>3, SoundPush

LEMMA CallSafe == ASSUME ControlInv, DoCall PROVE Safe
<1> DEFINE st == WithTodo(stack, Len(stack), After)
           s == program.functions[Statement.function]
           a == Activation(s)
<1>1. Ready("call") /\ exc' = exc
  BY DEF DoCall
<1>2. stack' = Append(st, a)
  BY DEF DoCall, WithTodo
<1>3. /\ status = "run" /\ Top.todo # <<>> /\ Item.at \in {"code", "loop"}
      /\ Statement \in Statements /\ Statement.is = "call"
  BY <1>1, ReadyIs
<1>4. s \in Blocks
  BY <1>3, ControlAssumption DEF ControlInv, TypeOK
<1>5. stack \in Seq(Activations) /\ Len(stack) \in DOMAIN stack /\ 0 \in Int
  BY <1>3, RunningIs
<1>6. /\ After \in Seq(Items) /\ Nested(After) /\ 1 \in 0..Len(After)
      /\ From(After, 1) = From(Top.todo, 1)
      /\ \A i \in 1..1 : After[i].at # "end" /\ Reach(After[i]) <= Item.d
  BY <1>1, FollowingIs
<1>7. /\ st \in Seq(Activations) /\ Len(st) = Len(stack)
      /\ \A i \in DOMAIN stack : i # Len(stack) => st[i] = stack[i]
      /\ st[Len(stack)].todo = After /\ st[Len(stack)].slots = stack[Len(stack)].slots
  BY <1>5, <1>6, TodoIs
<1> HIDE DEF st, s
<1>8. Sound(st, exc)
  BY <1>3, <1>6, <1>7, GoesOn
<1>9. a \in Activations /\ a.todo = <<Code(s, 0, -1)>>
  BY <1>4, CalledIs
<1> HIDE DEF a
<1>10. Sound(Append(st, a), exc) /\ Append(st, a) # <<>>
  BY <1>4, <1>8, <1>9, PushedOn
<1> QED
  BY <1>1, <1>2, <1>10 DEF Safe

LEMMA InterruptSafe == ASSUME ControlInv, Interrupt PROVE Safe
<1> DEFINE s == [k \in DOMAIN program.handlers |-> Call(program.handlers[k])]
           a == [Activation(s) EXCEPT !.isr = TRUE]
<1>1. status = "run" /\ exc' = exc
  BY DEF Interrupt
<1>2. Sound(stack, exc)
  BY <1>1, RunningIs
<1>3. s \in Blocks
  BY ControlAssumption DEF ControlInv, TypeOK
<1>4. status' = "interrupted" \/ stack' = Append(stack, a)
  BY DEF Interrupt
<1> HIDE DEF s
<1>5. a \in Activations /\ a.todo = <<Code(s, 0, -1)>>
  BY <1>3, CalledIs
<1> HIDE DEF a
<1>6. Sound(Append(stack, a), exc) /\ Append(stack, a) # <<>>
  BY <1>2, <1>3, <1>5, PushedOn
<1> QED
  BY <1>1, <1>4, <1>6 DEF Safe

-----------------------------------------------------------------------------
(* The theorem *)

LEMMA InitSound == Init => ControlInv
<1> SUFFICES ASSUME Init PROVE ControlInv
  OBVIOUS
<1> DEFINE s == program.functions["main"]
           a == Activation(s)
<1>1. TypeOK
  BY DEF Init, TypeOK
<1>2. s \in Blocks
  BY ControlAssumption DEF Init
<1>3. stack = Append(<<>>, a) /\ exc = <<>>
  BY DEF Init
<1> HIDE DEF s
<1>4. a \in Activations /\ a.todo = <<Code(s, 0, -1)>>
  BY <1>2, CalledIs
<1> HIDE DEF a
<1>5. Sound(<<>>, <<>>)
  BY DEF Sound, Ordered, Pushed, Linked
<1>6. Sound(stack, exc) /\ stack # <<>>
  BY <1>2, <1>3, <1>4, <1>5, PushedOn
<1> QED
  BY <1>1, <1>6 DEF ControlInv

LEMMA TypeStep == ASSUME ControlInv, Next PROVE TypeOK'
<1> USE DEF TypeOK
<1>0. TypeOK
  BY DEF ControlInv
<1>1. ASSUME Pop PROVE status' \in {"run", "done", "uncaught", "interrupted"}
  BY <1>0, <1>1 DEF Pop
<1>2. ASSUME NEW e \in Exceptions \cup {None}, ob_throw(e) PROVE TypeOK'
  BY <1>0, <1>2 DEF ob_throw
<1>3. CASE DoThrow
  <2>1. Statement.type \in Exceptions
    BY <1>3, ReadyIs, ControlAssumption DEF DoThrow
  <2> QED
    BY <1>2, <1>3, <2>1 DEF DoThrow
<1>4. CASE DoRethrow
  BY <1>0, <1>2, <1>4 DEF DoRethrow
<1>5. CASE DoTry
  BY <1>0, <1>5 DEF DoTry
<1>6. CASE DoEndOfBody
  BY <1>0, <1>6 DEF DoEndOfBody
<1>7. CASE DoLoop \/ Iterate
  BY <1>0, <1>7 DEF DoLoop, Iterate
<1>8. CASE DoBreak \/ DoContinue
  BY <1>0, <1>8 DEF DoBreak, DoContinue
<1>9. CASE DoReturn
  BY <1>0, <1>1, <1>9 DEF DoReturn
<1>10. CASE FallOff
  BY <1>0, <1>1, <1>10 DEF FallOff
<1>11. CASE DoCall
  BY <1>0, <1>11 DEF DoCall
<1>12. CASE EndOfBlock \/ DoPrint \/ DoSet
  BY <1>0, <1>12 DEF EndOfBlock, DoPrint, DoSet
<1>13. CASE Interrupt
  BY <1>0, <1>13 DEF Interrupt
<1> QED
  BY <1>3, <1>4, <1>5, <1>6, <1>7, <1>8, <1>9, <1>10, <1>11, <1>12, <1>13 DEF Next, Step

LEMMA StepSound == ASSUME ControlInv, [Next]_vars PROVE ControlInv'
<1>1. CASE Next
  <2>1. TypeOK'
    BY <1>1, TypeStep
  <2>2. ASSUME DoThrow \/ DoRethrow PROVE Safe
    <3>1. CASE DoThrow
      BY <3>1, ReadyIs, ThrowSafe DEF DoThrow
    <3>2. CASE DoRethrow
      BY <3>2, ThrowSafe DEF DoRethrow, Running
    <3> QED
      BY <2>2, <3>1, <3>2
  <2>3. Safe
    BY <1>1, <2>2, TrySafe, EndOfBodySafe, LoopSafe, IterateSafe, BreakSafe, ContinueSafe,
       ReturnSafe, FallOffSafe, CallSafe, EndOfBlockSafe, PrintSafe, SetSafe, InterruptSafe
       DEF Next, Step
  <2> QED
    BY <2>1, <2>3 DEF Safe, ControlInv
<1>2. CASE UNCHANGED vars
  BY <1>2 DEF vars, ControlInv, TypeOK
<1> QED
  BY <1>1, <1>2

\* However a program is run, interrupted and left, the invariant holds.
THEOREM ControlCorrect == FairSpec => []ControlInv
<1> QED
  BY InitSound, StepSound, PTL DEF FairSpec

\* The invariant says what the exception stack is.
LEMMA LiveFrames == ASSUME ControlInv PROVE FramesLive
<1> SUFFICES ASSUME status = "run" PROVE FramesLive
  BY DEF FramesLive
<1>1. /\ Sound(stack, exc) /\ stack \in Seq(Activations) /\ exc \in Seq(Frames)
  BY RunningIs
<1>2. Ordered(exc) /\ Pushed(stack, exc) /\ \A i \in DOMAIN exc : Backed(exc[i], stack)
  BY <1>1 DEF Sound
<1>3. \A k \in DOMAIN stack : stack[k].todo \in Seq(Items) /\ Nested(stack[k].todo)
  BY <1>1, ActivationIs DEF Sound
<1> DEFINE F == {<<exc[i].level, exc[i].d>> : i \in DOMAIN exc}
           E == UNION {{<<k, stack[k].todo[n].d>> : n \in BodyEnds(k)} : k \in DOMAIN stack}
<1>4. ASSUME NEW i \in DOMAIN exc PROVE <<exc[i].level, exc[i].d>> \in E
  <2> DEFINE k == exc[i].level
  <2>1. k \in DOMAIN stack /\ \E n \in DOMAIN stack[k].todo : EndOf(exc[i], stack[k].todo, n)
    BY <1>2 DEF Backed
  <2>2. PICK n \in DOMAIN stack[k].todo : EndOf(exc[i], stack[k].todo, n)
    BY <2>1
  <2>3. n \in BodyEnds(k) /\ stack[k].todo[n].d = exc[i].d
    BY <2>2 DEF EndOf, EndOfBody, BodyEnds
  <2> HIDE DEF k
  <2>4. <<k, exc[i].d>> \in E
    BY <2>1, <2>3
  <2> QED
    BY <2>4 DEF k
<1>5. ASSUME NEW k \in DOMAIN stack, NEW n \in BodyEnds(k)
      PROVE  <<k, stack[k].todo[n].d>> \in F
  <2>1. n \in DOMAIN stack[k].todo /\ stack[k].todo[n].at = "end"
    BY DEF BodyEnds
  <2>2. PICK i \in DOMAIN exc : exc[i].level = k /\ exc[i].d = stack[k].todo[n].d
    BY <1>2, <2>1 DEF Pushed
  <2> QED
    BY <2>2
<1>6. F = E
  <2>1. \A x \in F : x \in E
    BY <1>4
  <2>2. \A x \in E : x \in F
    BY <1>5
  <2> HIDE DEF F, E
  <2> QED
    BY <2>1, <2>2
<1>7. ASSUME NEW i \in DOMAIN exc, NEW j \in DOMAIN exc, i < j
      PROVE  \/ exc[i].level > exc[j].level
             \/ exc[i].level = exc[j].level /\ exc[i].d > exc[j].d
  <2>1. Inside(exc[i], exc[j].level, exc[j].d + 1)
    BY <1>2, <1>7 DEF Ordered
  <2>2. exc[i].d \in Nat /\ exc[j].d \in Nat
    <3>1. exc[i] \in Frames /\ exc[j] \in Frames
      BY <1>1
    <3> QED
      BY <3>1, FrameIs
  <2> QED
    BY <2>1, <2>2 DEF Inside
<1>8. ASSUME NEW k \in DOMAIN stack, NEW m \in BodyEnds(k), NEW n \in BodyEnds(k), m < n
      PROVE  stack[k].todo[m].d > stack[k].todo[n].d
  <2> DEFINE T == stack[k].todo
  <2>1. /\ m \in DOMAIN T /\ T[m].at = "end" /\ n \in DOMAIN T /\ T[n].at = "end"
        /\ T \in Seq(Items) /\ Nested(T)
    BY <1>3 DEF BodyEnds
  <2> HIDE DEF T
  <2>2. T[m + 1].at = "code" /\ \A i \in DOMAIN T : i > m + 1 => Reach(T[i]) <= T[m].d
    BY <2>1 DEF Nested, Closed
  <2>3. n > m + 1
    <3>1. n # m + 1
      BY <2>1, <2>2
    <3>2. m \in Nat /\ n \in Nat
      BY <2>1
    <3> QED
      BY <1>8, <3>1, <3>2
  <2>4. T[n].d \in Nat /\ T[m].d \in Nat /\ Reach(T[n]) = T[n].d + 1
    <3>1. T[n] \in Items /\ T[m] \in Items
      BY <2>1
    <3> QED
      BY <2>1, <3>1, ItemIs DEF Reach
  <2>5. T[n].d + 1 <= T[m].d
    BY <2>1, <2>2, <2>3, <2>4
  <2> QED
    BY <2>4, <2>5 DEF T
<1> HIDE DEF F, E
<1> QED
  BY <1>6, <1>7, <1>8 DEF FramesLive, F, E

\* The exception stack is always the tries whose bodies are being run, one for one
\* over all activations, the innermost first.
THEOREM FramesStayLive == FairSpec => []FramesLive
<1> QED
  BY ControlCorrect, LiveFrames, PTL
=============================================================================
