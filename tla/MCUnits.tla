------------------------------- MODULE MCUnits -------------------------------
(* What the compiler does with the units it loads and with their classes.      *)
EXTENDS Imports, Classes

(***************************************************************************)
(* Projects of a main file, two modules, a library with a module of its    *)
(* own that may have another's name, and a standard module.                *)
(***************************************************************************)
Holds(is, name, file) == [is |-> is, name |-> name, file |-> file]
Unit(dir, imports, seen, declares) ==
  [dir |-> dir, imports |-> imports, seen |-> seen, declares |-> declares]

\* What a file may import: up to two modules, in either order.
Lists(S) == {<<>>} \cup {<<a>> : a \in S} \cup {<<a, b>> : a, b \in S}

\* inner is the module in the library's own directory; missed, whether the scan
\* misses what the main file imports first; found, whether the main file is where
\* an import of its name finds it.
Tree(top, left, right, library, inner, missed, found) ==
  [files |-> "main" :> Unit("app", top, IF missed /\ top # <<>> THEN Tail(top) ELSE top, {})
               @@ "left" :> Unit("app", left, left, {"<+>"})
               @@ "right" :> Unit("app", right, right, {"||>"})
               @@ "lib" :> Unit("lib", library, library, {})
               @@ "inner" :> Unit("lib", <<>>, <<>>, {"<+>"}),
   entries |-> "app" :> {Holds("file", "left", "left"), Holds("file", "right", "right")}
                           \cup (IF found THEN {Holds("file", "main", "main")} ELSE {})
                 @@ "libs" :> {Holds("project", "lib", "lib")}
                 @@ "lib" :> {Holds("os", inner, "inner")},
   libraries |-> "libs"]

VARIABLE project

ImportsInit ==
  \E top \in Lists({"left", "right", "lib"}), left \in Lists({"right", "lib", "main"}),
     right \in Lists({"left", "math"}), library \in {<<>>, <<"inner">>, <<"inner", "left">>},
     inner \in {"inner", "left", "math"}, missed, found \in BOOLEAN :
    /\ ~found => "main" \in Range(left)
    /\ project = Tree(top, left, right, library, inner, missed, found)

NoImports == project = Tree(<<>>, <<>>, <<>>, <<>>, "inner", FALSE, TRUE)

-----------------------------------------------------------------------------

(***************************************************************************)
(* Programs of three classes in any order of the text, and calls of a      *)
(* class that has its parent's constructors.                               *)
(***************************************************************************)
Class(name, parent, fields, assigns, inits) ==
  [name |-> name, parent |-> parent, fields |-> fields,
   assigns |-> assigns, inits |-> inits]
Sets(f, v) == [field |-> f, value |-> v]
Slot(f, s) == [name |-> f, type |-> Untyped, static |-> s]

Assigned == {<<>>, <<Sets("f", "A")>>, <<Sets("f", "other")>>, <<Sets("g", "C")>>,
             <<Sets("g", "other"), Sets("f", "C")>>}
DeclaredFields == {<<>>, <<Slot("f", FALSE)>>, <<Slot("g", TRUE)>>}

Families ==
  {<<Class("A", "none", d, a, <<>>), Class("B", "A", <<>>, b, <<>>),
     Class("C", up, e, c, <<>>)>> :
     d \in DeclaredFields, e \in {<<>>, <<Slot("f", FALSE)>>}, a, b, c \in Assigned, up \in {"A", "B"}}
Orders == {<<1, 2, 3>>, <<3, 2, 1>>, <<2, 3, 1>>}

\* n parameters, those from the m-th on with a default.
Parameters(n, m) == [i \in 1..n |-> [name |-> <<"x", "y", "z">>[i], optional |-> i >= m]]
ParameterLists(n) == {Parameters(k, m) : k \in 0..n, m \in 1..(n + 1)}

\* A child that takes its constructors from a class two above.
Below(inits) == <<Class("C", "B", <<>>, <<>>, <<>>), Class("B", "A", <<>>, <<>>, <<>>),
                  Class("A", "none", <<>>, <<>>, inits)>>

Calls == UNION {[1..n -> {ByPosition, "x", "y", "z", "w"}] : n \in 0..3}
           \cup [1..4 -> {ByPosition, "x"}]

VARIABLES classes, call

NoClasses == classes = Below(<<>>) /\ call = <<>>

ClassesInit ==
  \/ \E fam \in Families, o \in Orders : classes = [i \in 1..3 |-> fam[o[i]]] /\ call = <<>>
  \/ \E q \in ParameterLists(3) : classes = Below(<<q>>) /\ call \in Calls
  \/ \E q, r, s \in ParameterLists(2) : /\ classes = Below(<<q, r, s>>)
                                    /\ call \in {[i \in 1..n |-> ByPosition] : n \in 0..3}
  \/ NoClasses

\* The arguments of the call.
Given == [i \in DOMAIN call |-> [name |-> call[i], value |-> i]]

\* k is c or above it.
AtOrAbove(k, c) == k \in Range(Ancestry(classes, c))

\* However the classes are ordered, a field is in one place: a class whose parent
\* is declared further down, or in a module that is read later, shares the field
\* that a method above it assigns, and no class has two of a name unless it
\* declares it.  What any class above can see is what the class sees, and it lies
\* where the whole object has it, apart from all others.  Its type is a class that
\* some method assigns to it, wherever one does.
OneSlot ==
  ~NoClasses => \E s \in {Fields(classes)} :
    \A c \in DOMAIN classes, v \in DOMAIN classes, name \in {"f", "g"} :
      LET owner == find_field_owner(classes, s, v, name)
          static == s[owner][find_field_local(s, owner, name)].static
          redeclared == \E k \in Range(Ancestry(classes, c)) :
                          /\ \E d \in Range(classes[k].fields) : d.name = name
                          /\ find_field_owner(classes, s, Parent(classes, k), name) # 0
      IN AtOrAbove(v, c) =>
           /\ (\E a \in Range(classes[v].assigns) : a.field = name) => owner # 0
           /\ owner # 0 /\ ~redeclared => find_field_owner(classes, s, c, name) = owner
           /\ owner # 0 /\ ~static =>
                emit_class_struct(classes, s, c)[Offset(classes, s, v, name)] = name
           /\ owner # 0 /\ ~static /\ ~redeclared =>
                Cardinality({i \in DOMAIN emit_class_struct(classes, s, c) :
                               emit_class_struct(classes, s, c)[i] = name}) = 1
           /\ owner # 0 =>
                LET type == s[owner][find_field_local(s, owner, name)].type
                    hints == {field_type_hint(classes, a.value) :
                                a \in UNION {{b \in Range(classes[k].assigns) : b.field = name} :
                                  k \in {j \in DOMAIN classes :
                                          find_field_owner(classes, s, j, name) = owner}}}
                IN IF hints \subseteq {Untyped} THEN type = Untyped ELSE type \in hints \ {Untyped}

\* A class that has no constructor of its own is made by the nearest one above it.
\* Arguments by position find an overload exactly when one takes as many, one that
\* takes exactly so many before one that fills up with defaults (SPEC.md:196, 276,
\* 285), and the one that is found can be called with them.
OverloadTakesThem ==
  LET made == constructor_call(classes, 1, Given)
      inits == classes[find_init_owner(classes, 1)].inits
      takes(q) == Len(call) <= Len(q) /\ \A i \in DOMAIN q : i > Len(call) => q[i].optional
  IN find_init_owner(classes, 1) # 0 /\ Range(call) \subseteq {ByPosition} =>
       /\ made.ok <=> \E q \in Range(inits) : takes(q)
       /\ made.ok => /\ takes(inits[made.init])
                     /\ (\E q \in Range(inits) : Len(q) = Len(call))
                          => Len(inits[made.init]) = Len(call)
                     /\ super_call(classes, 1, Given) = made

\* A call is an error exactly where the documentation says so, and otherwise each
\* parameter gets the argument that stands in its place or names it, or its
\* default (SPEC.md:173-196).
BindsAsDocumented ==
  LET params == classes[find_init_owner(classes, 1)].inits[1]
      bound == bind_call_args(params, Given)
      places == {i \in DOMAIN call : call[i] = ByPosition}
      names == DOMAIN call \ places
      for(j) == {i \in places : i = j} \cup {i \in names : call[i] = params[j].name}
  IN find_init_owner(classes, 1) # 0 =>
       /\ bound.ok <=> /\ \A i \in places, n \in names : i < n
                       /\ Cardinality(places) <= Len(params)
                       /\ \A n \in names : \E j \in DOMAIN params : n \in for(j)
                       /\ \A j \in DOMAIN params : \/ Cardinality(for(j)) = 1
                                                   \/ for(j) = {} /\ params[j].optional
       /\ bound.ok => \A j \in DOMAIN params :
                        \/ bound.args[j] \in for(j)
                        \/ for(j) = {} /\ bound.args[j] = ItsDefault

\* A call of a class reaches the constructor it fits, and its arguments the
\* parameters they are meant for.
CallsReach == OverloadTakesThem /\ BindsAsDocumented
=============================================================================
