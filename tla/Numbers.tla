------------------------------- MODULE Numbers -------------------------------
(***************************************************************************)
(* Integers of the runtime (compiler/runtime/oboe_runtime.c): a machine     *)
(* word of Full bits read as signed, the width it was declared with, 0 for  *)
(* a plain int, and whether it is unsigned.                                 *)
(***************************************************************************)
EXTENDS Integers, FiniteSetsExt

CONSTANTS Full,    \* 64
          Widths   \* the sized widths, Full the largest

ASSUME NumbersAssumption ==
  Full \in Nat \ {0, 1} /\ Widths \subseteq 1..Full /\ Full \in Widths

Unsigned(x, w) == x % 2^w
Signed(x, w) == IF x % 2^w >= 2^(w - 1) THEN (x % 2^w) - 2^w ELSE x % 2^w

Words == -(2^(Full - 1))..2^(Full - 1) - 1

\* What the word stands for.
Value(a) == IF a.unsigned THEN Unsigned(a.i, Full) ELSE a.i

-----------------------------------------------------------------------------

ob_int(x) == [i |-> Signed(x, Full), width |-> 0, unsigned |-> FALSE]

ob_wrap(x, w, u) == IF w \in {0, Full} THEN Signed(x, Full)
                    ELSE IF u THEN Unsigned(x, w) ELSE Signed(x, w)

ob_int_sized(x, w, u) == [i |-> ob_wrap(x, w, u), width |-> w, unsigned |-> u]

ob_eff_width(a) == IF a.width = 0 THEN Full ELSE a.width

\* A bug: the first operand decides.
ob_promote_first(a, b) == [width |-> a.width, unsigned |-> a.unsigned]

ob_promote(a, b) ==
  LET w == Max({ob_eff_width(a), ob_eff_width(b)})
  IN IF a.width = 0 /\ b.width = 0 THEN [width |-> 0, unsigned |-> FALSE]
     ELSE [width |-> w,
           unsigned |-> \E x \in {a, b} : ob_eff_width(x) = w /\ x.unsigned]

ob_int_result(a, b, x) ==
  LET t == ob_promote(a, b)
  IN IF t.width = 0 THEN ob_int(x) ELSE ob_int_sized(x, t.width, t.unsigned)

ob_shift_result(a, x) ==
  IF a.width = 0 THEN ob_int(x) ELSE ob_int_sized(x, a.width, a.unsigned)

ob_add(a, b) == ob_int_result(a, b, a.i + b.i)
ob_sub(a, b) == ob_int_result(a, b, a.i - b.i)
ob_mul(a, b) == ob_int_result(a, b, a.i * b.i)
ob_neg(a) == ob_shift_result(a, -a.i)
ob_bnot(a) == ob_shift_result(a, -a.i - 1)

\* C's division cuts off towards zero.
Quotient(x, y) ==
  LET q == (IF x < 0 THEN -x ELSE x) \div (IF y < 0 THEN -y ELSE y)
  IN IF (x < 0) = (y < 0) THEN q ELSE -q

\* Division by zero ends the program, and the least int by -1 traps.
Divides(a, b) == /\ b.i # 0
                 /\ ob_promote(a, b).unsigned \/ b.i # -1 \/ a.i # -(2^(Full - 1))

\* The words that are divided.
Dividend(a, b, x) == IF ob_promote(a, b).unsigned THEN Unsigned(x, Full) ELSE x

\* Under ob_promote's unsigned the words are divided as they are, not as
\* the narrower type's.
ob_div(a, b) ==
  ob_int_result(a, b, Quotient(Dividend(a, b, a.i), Dividend(a, b, b.i)))

ob_mod(a, b) ==
  LET x == Dividend(a, b, a.i)
      y == Dividend(a, b, b.i)
  IN ob_int_result(a, b, x - y * Quotient(x, y))

ob_shl(a, b) ==
  ob_shift_result(a, IF b.i \in 0..Full - 1 THEN a.i * 2^b.i ELSE 0)

ob_shr(a, b) ==
  ob_shift_result(a, IF b.i < 0 THEN 0
                     ELSE IF b.i >= Full THEN (IF ~a.unsigned /\ a.i < 0 THEN -1 ELSE 0)
                     ELSE Value(a) \div 2^b.i)

ob_coerce_int(a, w, u) == ob_int_sized(a.i, w, u)

ob_is_int_width(a, w, u) ==
  IF a.unsigned
  THEN Value(a) <= IF u THEN 2^w - 1 ELSE 2^(w - 1) - 1
  ELSE IF u THEN a.i >= 0 /\ (w = Full \/ a.i <= 2^w - 1)
       ELSE w = Full \/ a.i \in -(2^(w - 1))..2^(w - 1) - 1

Compare(x, y) == IF x < y THEN -1 ELSE IF x > y THEN 1 ELSE 0

ob_num_cmp(a, b) ==
  Compare(Dividend(a, b, a.i), Dividend(a, b, b.i))

-----------------------------------------------------------------------------

\* The values of the type that width w and u make.
RangeOf(w, u) == IF w = 0 THEN Words
                 ELSE IF u THEN 0..2^w - 1 ELSE -(2^(w - 1))..2^(w - 1) - 1

InRange(a) == Value(a) \in RangeOf(a.width, a.unsigned)

\* x and y are the same number to w bits.
Same(w, x, y) == (x - y) % 2^w = 0

Wider(a, b) == Max({ob_eff_width(a), ob_eff_width(b)})

Types == {[width |-> 0, unsigned |-> FALSE]} \cup [width : Widths, unsigned : BOOLEAN]
Numbers == {[i |-> ob_wrap(x, t.width, t.unsigned), width |-> t.width, unsigned |-> t.unsigned] :
              x \in Words, t \in Types}
=============================================================================
