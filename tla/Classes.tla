------------------------------- MODULE Classes -------------------------------
(***************************************************************************)
(* Classes in the legacy compiler (legacy/codegen.c): who owns a field or a *)
(* constructor, which fields come into being because a method assigns them, *)
(* where a field lies in an object, and how arguments meet parameters.      *)
(*                                                                          *)
(* A program is a sequence of classes [name, parent, fields, assigns,       *)
(* inits]: its declared fields [name, type, static], what its methods       *)
(* assign to `this' in the order of the text, each [field, value], and the  *)
(* parameters of each of its constructors.                                  *)
(***************************************************************************)
EXTENDS Integers, SequencesExt, FiniteSetsExt

Untyped == "untyped"

find_class(p, name) == SelectInSeq(p, LAMBDA c : c.name = name)

\* The class above c, or 0; a parent that nobody declares is none.
Parent(p, c) == find_class(p, p[c].parent)

RECURSIVE Ancestry(_, _)
\* c and what is above it, c first.
Ancestry(p, c) == IF c = 0 THEN <<>> ELSE <<c>> \o Ancestry(p, Parent(p, c))

Nearest(p, c, Has(_)) ==
  LET up == Ancestry(p, c)
      i == SelectInSeq(up, Has)
  IN IF i = 0 THEN 0 ELSE up[i]

\* Here s[c] are the fields of class c that are known by now.
find_field_local(s, c, name) == SelectInSeq(s[c], LAMBDA f : f.name = name)
find_field_owner(p, s, c, name) == Nearest(p, c, LAMBDA k : find_field_local(s, k, name) # 0)
find_init_owner(p, c) == Nearest(p, c, LAMBDA k : p[k].inits # <<>>)

-----------------------------------------------------------------------------
(* Fields *)

\* A value is the class that is constructed, the declared type of a parameter,
\* or anything else.
field_type_hint(p, value) == IF find_class(p, value) = 0 THEN Untyped ELSE value

\* An inherited field is used again, and typed by the first hint there is.
note_field(p, s, c, name, hint) ==
  LET owner == find_field_owner(p, s, c, name)
      i == find_field_local(s, owner, name)
  IN IF owner = 0
     THEN [s EXCEPT ![c] = <<[name |-> name, type |-> hint, static |-> FALSE]>> \o @]
     ELSE IF s[owner][i].type = Untyped THEN [s EXCEPT ![owner][i].type = hint]
     ELSE s

scan_for_fields(p, s, c) ==
  FoldLeft(LAMBDA t, a : note_field(p, t, c, a.field, field_type_hint(p, a.value)),
           s, p[c].assigns)

RECURSIVE infer_instance_fields_alone(_, _, _), infer_instance_fields(_, _, _)
\* A bug: a class is scanned before what is above it.
infer_instance_fields_alone(p, k, c) ==
  IF c \in k.inferred THEN k
  ELSE [slots |-> scan_for_fields(p, k.slots, c), inferred |-> k.inferred \cup {c}]

\* k is [slots, inferred]: the parent first, whatever the order of the text.
infer_instance_fields(p, k, c) ==
  LET begun == [k EXCEPT !.inferred = @ \cup {c}]
      above == IF Parent(p, c) = 0 THEN begun ELSE infer_instance_fields(p, begun, Parent(p, c))
  IN IF c \in k.inferred THEN k
     ELSE [above EXCEPT !.slots = scan_for_fields(p, @, c)]

Fields(p) ==
  FoldLeft(LAMBDA k, c : infer_instance_fields(p, k, c),
           [slots |-> [c \in DOMAIN p |-> p[c].fields], inferred |-> {}],
           [c \in DOMAIN p |-> c]).slots

\* The fields of an object, in memory: those of its parent first.
emit_class_struct(p, s, c) ==
  LET own(k) == LET kept == SelectSeq(s[k], LAMBDA f : ~f.static)
                IN [i \in DOMAIN kept |-> kept[i].name]
  IN FlattenSeq([i \in DOMAIN Ancestry(p, c) |-> own(Reverse(Ancestry(p, c))[i])])

\* Where the methods of class v find the field of an object, seen as the struct
\* of the class that owns it.
Offset(p, s, v, name) ==
  SelectLastInSeq(emit_class_struct(p, s, find_field_owner(p, s, v, name)), LAMBDA n : n = name)

-----------------------------------------------------------------------------
(* Calls: a parameter is [name, optional], an argument [name, value].  The      *)
(* receiver is not among them.                                                  *)

ByPosition == "by position"
ItsDefault == "its default"

total(params) == Len(params)
required(params) == Cardinality({i \in DOMAIN params : ~params[i].optional})

find_init_index(inits, argc) ==
  LET exact == SelectInSeq(inits, LAMBDA q : total(q) = argc)
  IN IF exact # 0 THEN exact
     ELSE SelectInSeq(inits, LAMBDA q : argc \in required(q)..total(q))

\* One argument after another; b is [ok, bound, named], bound a partial function
\* from parameters.
Bind(params, b, arg) ==
  LET i == SelectInSeq(params, LAMBDA q : q.name = arg.name)
      put(j) == [k \in DOMAIN b.bound \cup {j} |-> IF k = j THEN arg.value ELSE b.bound[k]]
      next == Cardinality(DOMAIN b.bound) + 1
  IN IF ~b.ok THEN b
     ELSE IF arg.name = ByPosition
          THEN [b EXCEPT !.ok = ~b.named /\ next <= total(params), !.bound = put(next)]
     ELSE [ok |-> i # 0 /\ i \notin DOMAIN b.bound, bound |-> put(i), named |-> TRUE]

\* A bug: the name of a parameter that has its argument is taken again.
bind_call_args_again(params, args) ==
  LET keep(b, arg) == IF arg.name = ByPosition THEN Bind(params, b, arg)
                      ELSE [Bind(params, b, arg) EXCEPT
                              !.ok = b.ok /\ \E i \in DOMAIN params : params[i].name = arg.name]
      bound == FoldLeft(keep, [ok |-> TRUE, bound |-> <<>>, named |-> FALSE], args)
  IN [ok |-> bound.ok /\ \A j \in DOMAIN params : j \in DOMAIN bound.bound \/ params[j].optional,
      args |-> [j \in DOMAIN params |-> IF j \in DOMAIN bound.bound THEN bound.bound[j] ELSE ItsDefault]]

\* The arguments in the order of the parameters, or a compile error.
bind_call_args(params, args) ==
  LET bound == FoldLeft(LAMBDA b, arg : Bind(params, b, arg),
                        [ok |-> TRUE, bound |-> <<>>, named |-> FALSE], args)
  IN [ok |-> bound.ok /\ \A j \in DOMAIN params : j \in DOMAIN bound.bound \/ params[j].optional,
      args |-> [j \in DOMAIN params |-> IF j \in DOMAIN bound.bound THEN bound.bound[j] ELSE ItsDefault]]

\* The constructor that makes a c from these arguments: the class it is of, 0 for
\* the one that does nothing, and which of its overloads.
constructor_call(p, c, args) ==
  LET owner == find_init_owner(p, c)
      init == IF owner = 0 THEN 0 ELSE find_init_index(p[owner].inits, Len(args))
      bound == bind_call_args(p[owner].inits[init], args)
  IN IF owner = 0 THEN [ok |-> args = <<>>, owner |-> 0, init |-> 0, args |-> <<>>]
     ELSE IF init = 0 THEN [ok |-> FALSE]
     ELSE [ok |-> bound.ok, owner |-> owner, init |-> init, args |-> bound.args]

super_call(p, c, args) ==
  IF Parent(p, c) = 0 THEN [ok |-> FALSE] ELSE constructor_call(p, Parent(p, c), args)
=============================================================================
