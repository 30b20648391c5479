----------------------------- MODULE MCNumbers -----------------------------
(* Every pair of integers of small machine words, and everything that is       *)
(* computed from them; and stores of integers to variables.                    *)
EXTENDS Stores

VARIABLES m, n, op

NoNumbers == m = ob_int(0) /\ n = m /\ op = "none"

NumbersInit == m \in Numbers /\ n \in Numbers /\ op = "none"

Do(o, r) == op' = o /\ m' = r /\ UNCHANGED n

NumbersNext ==
  \/ Do("+", ob_add(m, n)) \/ Do("-", ob_sub(m, n)) \/ Do("*", ob_mul(m, n))
  \/ Do("~", ob_bnot(m)) \/ Do("neg", ob_neg(m))
  \/ Do("<<", ob_shl(m, n)) \/ Do(">>", ob_shr(m, n))
  \/ Divides(m, n) /\ (Do("/", ob_div(m, n)) \/ Do("%", ob_mod(m, n)))
  \/ \E t \in Types : Do("store", ob_coerce_int(m, t.width, t.unsigned))

\* However values were computed, a value of a sized type is in the range of that
\* type ("int8/int16/int32/int64 and the unsigned spellings are genuinely that
\* wide", codegen.c:804-805).
Wrapped == InRange(m)

\* Sums, differences and products are those of the numbers, to the width of the
\* wider operand ("Arithmetic promotes to the wider operand", oboe_runtime.c:84),
\* whatever the widths and signs; what is divided is the quotient times the divisor
\* and the remainder (ob_add to ob_mod).
Exact ==
  /\ Same(Wider(m, n), Value(ob_add(m, n)), Value(m) + Value(n))
  /\ Same(Wider(m, n), Value(ob_sub(m, n)), Value(m) - Value(n))
  /\ Same(Wider(m, n), Value(ob_mul(m, n)), Value(m) * Value(n))
  /\ Divides(m, n) =>
       Same(Wider(m, n), Value(ob_div(m, n)) * Value(n) + Value(ob_mod(m, n)), Value(m))

\* A shift multiplies by a power of two to the width, or divides by it rounding
\* down, with no exception where the count is that of the word or more (in C that
\* has no meaning; oboe_runtime.c ob_shl, ob_shr).
Shifts ==
  n.i >= 0 => /\ Value(ob_shr(m, n)) = Value(m) \div 2^n.i
              /\ Same(ob_eff_width(m), Value(ob_shl(m, n)), Value(m) * 2^n.i)

\* `x is int8' asks whether storing x as an int8 keeps its value, for every width
\* and sign of x (codegen.c:875-876: "whether the value fits the range, not how it
\* was declared").
Asks == \A w \in Widths, u \in BOOLEAN :
          ob_is_int_width(m, w, u) <=> Value(ob_coerce_int(m, w, u)) = Value(m)

\* Integers compare by value, except where the wider one is unsigned and the other
\* negative (oboe_runtime.c:1310-1330).
ByValue ==
  \/ ob_num_cmp(m, n) = Compare(Value(m), Value(n))
  \/ ob_promote(m, n).unsigned /\ (Value(m) < 0 \/ Value(n) < 0)

\* A sized integer behaves as the documents say at every width and sign: computing,
\* storing, shifting, testing and comparing agree on what number it is.
SizedIntegers == Wrapped /\ Exact /\ Shifts /\ Asks /\ ByValue

-----------------------------------------------------------------------------

(***************************************************************************)
(* One name at every depth up to StoresMax scopes, a static and an         *)
(* instance field, and integers that do not fit the types they are stored  *)
(* to.                                                                     *)
(***************************************************************************)
CONSTANT StoresMax

Declarable == {Plain} \cup [width : {Min(Widths)}, unsigned : BOOLEAN]
Stored == {ob_int(-1), ob_int(2^Min(Widths) + 2)}

NoStores == scopes = <<>> /\ fields = <<>>

StoresNext ==
  \/ \E type \in Declarable, a \in Stored :
       \/ Startup("static", type, a)
       \/ TopLevelLet("x", type, a) \/ Let("x", type, a)
       \/ Len(scopes) < StoresMax /\ (bind_params("x", type, a) \/ OperatorCalled("x", type, a))
       \/ AssignField("instance", [width |-> Min(Widths), unsigned |-> FALSE], a)
  \/ \E a \in Stored : Assign("x", a) \/ AssignStatic("static", a)
  \/ Len(scopes) < StoresMax /\ (Branch \/ \E a \in Stored : BlockWith("x", a))
  \/ pop_scope
=============================================================================
