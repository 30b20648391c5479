-------------------------------- MODULE Stores --------------------------------
(***************************************************************************)
(* Where the compiler remembers a declared integer type and coerces what is *)
(* stored (legacy/codegen.c: its scopes, gen_stmt, bind_params, the         *)
(* assignment of gen_expr, codegen_compile).  A C block is open exactly     *)
(* while its scope is, so that one chain stands for the compiler's scopes   *)
(* and for the variables that live at run time.                             *)
(***************************************************************************)
EXTENDS Numbers, SequencesExt

VARIABLES scopes,  \* from the unit's to the innermost: name -> variable
          fields   \* of one class and one object of it: name -> variable

stores == <<scopes, fields>>

\* A type of width 0 is `int' or none: nothing to enforce.
Plain == [width |-> 0, unsigned |-> FALSE]

apply_numeric_coercion(type, a) ==
  IF type.width = 0 THEN a ELSE ob_coerce_int(a, type.width, type.unsigned)

\* A variable of the type it was declared with, of which the compiler keeps prim.
Variable(declared, prim, a) == [declared |-> declared, prim |-> prim, value |-> a]

define_var_full(type, a) == Variable(type, type, apply_numeric_coercion(type, a))
define_var(type, a) == Variable(type, Plain, a)

\* A bug: the outermost declaration is taken.
lookup_var_prim_outermost(s, name) ==
  s[SelectInSeq(s, LAMBDA scope : name \in DOMAIN scope)][name].prim

Innermost(s, name) == SelectLastInSeq(s, LAMBDA scope : name \in DOMAIN scope)

lookup_var_prim(s, name) == s[Innermost(s, name)][name].prim

\* A scope in which name is this variable.
With(scope, name, e) ==
  [x \in {name} \cup DOMAIN scope |-> IF x = name THEN e ELSE scope[x]]

Push(scope) == scopes' = Append(scopes, scope) /\ UNCHANGED fields

-----------------------------------------------------------------------------

\* Static fields are initialised before anything runs, as they are.
Startup(static, type, a) ==
  /\ scopes = <<>>
  /\ scopes' = << <<>> >>
  /\ fields' = With(<<>>, static, define_var(type, a))

\* A top-level declaration, which is a variable of the whole unit.
TopLevelLet(name, type, a) ==
  /\ Len(scopes) = 1 /\ name \notin DOMAIN scopes[1]
  /\ scopes' = <<With(scopes[1], name, define_var(type, a))>>
  /\ UNCHANGED fields

\* Any other declaration.
Let(name, type, a) ==
  /\ Len(scopes) > 1 /\ name \notin DOMAIN Last(scopes)
  /\ scopes' = Append(Front(scopes), With(Last(scopes), name, define_var_full(type, a)))
  /\ UNCHANGED fields

\* A function or method starts; its names are its parameters and the unit's.
bind_params(name, type, a) == Len(scopes) = 1 /\ Push(With(<<>>, name, define_var_full(type, a)))

\* So does an operator, declared at top level or by a class.
OperatorCalled(name, type, a) == Len(scopes) = 1 /\ Push(With(<<>>, name, define_var(type, a)))

\* A branch, a loop's body or a block.
Branch == Len(scopes) > 0 /\ Push(<<>>)

\* A body with a variable of its own: a loop's or a caught exception.
BlockWith(name, a) == Len(scopes) > 0 /\ Push(With(<<>>, name, define_var(Plain, a)))

\* The end of a block or a function.
pop_scope == Len(scopes) > 1 /\ scopes' = Front(scopes) /\ UNCHANGED fields

\* In C the innermost variable of the name is stored to.
Assign(name, a) ==
  LET i == Innermost(scopes, name)
  IN /\ i > 0
     /\ scopes' = [scopes EXCEPT ![i][name].value =
                     apply_numeric_coercion(lookup_var_prim(scopes, name), a)]
     /\ UNCHANGED fields

\* o.f = a, where the class of o is known; f may come to be by it.
AssignField(name, type, a) ==
  /\ Len(scopes) > 0
  /\ fields' = With(fields, name, define_var_full(type, a))
  /\ UNCHANGED scopes

\* C.f = a: a class's name has no class.
AssignStatic(name, a) ==
  /\ name \in DOMAIN fields
  /\ fields' = [fields EXCEPT ![name].value = a]
  /\ UNCHANGED scopes

-----------------------------------------------------------------------------

Live == (UNION {{scopes[i][x] : x \in DOMAIN scopes[i]} : i \in DOMAIN scopes})
             \cup {fields[x] : x \in DOMAIN fields}

\* What a variable of a sized type holds is of that type.
Fits(e) == e.declared.width # 0 =>
             Value(e.value) \in RangeOf(e.declared.width, e.declared.unsigned)

\* Whatever it shadows and wherever it is stored to from, a variable keeps to its
\* declared type, "on every later assignment, not just its declaration"
\* (codegen.c:1896-1897), where the compiler knows the type at all.
KeepsItsType == \A e \in Live : e.prim = e.declared => Fits(e)

\* "storing into a variable, parameter or field annotated with one of them coerces
\* the value" (codegen.c:799-800, SPEC.md:139): it is violated by a variable at top
\* level, an operator's parameter and a static field.
StoresCoerce == \A e \in Live : Fits(e)
=============================================================================
