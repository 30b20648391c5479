------------------------------- MODULE Imports -------------------------------
(***************************************************************************)
(* The units of a program (legacy/codegen.c, codegen_compile and what it    *)
(* calls): which file each import means, in which order files are loaded,   *)
(* when the symbols of custom operators become known, and in which order    *)
(* the top levels run.                                                      *)
(*                                                                          *)
(* A project is [files, entries, libraries].  files[f] is [dir, imports,    *)
(* seen, declares]: its imports in the tree, the ones the scan of the text  *)
(* finds, and the operators it declares.  entries[d] are what directory d   *)
(* holds, each [is, name, file].                                            *)
(***************************************************************************)
EXTENDS Integers, SequencesExt, FiniteSetsExt

CONSTANTS Standard,  \* the modules of the standard library
          NULL       \* no file, or no name

\* The main file.
Main == "main"

\* What directory d of project p holds.
Held(p, d) == IF d \in DOMAIN p.entries THEN p.entries[d] ELSE {}

\* .oboe/libraries of a directory.
LibrariesOf(d) == <<d, "libraries">>

\* `foo.<os>.oboe', `foo.oboe', a folder whose project has that name, a folder.
Ranks == <<"os", "file", "project", "folder">>

\* What answers to a module's name in directory d, by rank.  A project folder
\* without its entry file hides a plain folder.
Answer(p, d, module) ==
  LET Of(r) == {e \in Held(p, d) : e.is = Ranks[r] /\ e.name = module}
      hits == {r \in DOMAIN Ranks : Of(r) # {}}
  IN IF hits = {} THEN NULL
     ELSE (CHOOSE e \in Of(Min(hits)) : TRUE).file

\* First beside the importing file, then in its libraries, then in the project's.
resolve_module_path(p, d, module) ==
  LET answers == SelectSeq(<<Answer(p, d, module), Answer(p, LibrariesOf(d), module),
                             Answer(p, p.libraries, module)>>, LAMBDA f : f # NULL)
  IN IF answers = <<>> THEN NULL ELSE answers[1]

-----------------------------------------------------------------------------
(* The compiler: [units, known, tokens, referenced, found].  units are the     *)
(* files in the order they were loaded, each under the name it was asked for,  *)
(* the main file under none; known, the registered operators; tokens[n], those *)
(* known when unit n was lexed; referenced, the units that will run.  found is *)
(* FALSE once an import was not: the compiler has exited.                      *)

Start == [units |-> <<>>, known |-> {}, tokens |-> <<>>, referenced |-> {}, found |-> TRUE]

\* The main file has no name, and no import finds it here.
find_unit(c, module) == SelectInSeq(c.units, LAMBDA u : u.module # NULL /\ u.module = module)

RECURSIVE load_unit_textual(_, _, _, _)
\* The file, and then what the scan of its text finds and is not there yet.
load_unit_textual(p, c, module, file) ==
  LET scan(k, m) ==
        LET path == resolve_module_path(p, p.files[file].dir, m)
        IN IF find_unit(k, m) # 0 \/ path = NULL THEN k
           ELSE load_unit_textual(p, k, m, path)
  IN FoldLeft(scan, [c EXCEPT !.units = Append(@, [module |-> module, file |-> file])],
              p.files[file].seen)

\* The operators of the units from the n-th on are registered.
lex_prescan_ops(p, c, n) ==
  [c EXCEPT !.known = @ \cup UNION {p.files[c.units[i].file].declares :
                                      i \in {j \in n..Len(c.units) : c.units[j].file # NULL}}]

\* Lexed with the operators known by now, once.
parse_unit(c, n) ==
  IF n \in DOMAIN c.tokens THEN c
  ELSE [c EXCEPT !.tokens = [i \in DOMAIN @ \cup {n} |-> IF i = n THEN c.known ELSE @[i]]]

\* The unit of an import, loaded now if the scans missed it, parsed.  A
\* standard module is one without a file.
ensure_unit(p, c, module, d) ==
  LET path == resolve_module_path(p, d, module)
      n == find_unit(c, module)
      loaded ==
        IF n # 0 THEN c
        ELSE IF path = NULL /\ module \notin Standard THEN [c EXCEPT !.found = FALSE]
        ELSE IF path = NULL
        THEN [c EXCEPT !.units = Append(@, [module |-> module, file |-> NULL])]
        ELSE lex_prescan_ops(p, load_unit_textual(p, c, module, path), Len(c.units) + 1)
  IN IF loaded.found THEN parse_unit(loaded, find_unit(loaded, module)) ELSE loaded

RECURSIVE resolve_imports_once(_, _, _), resolve_imports(_, _, _)
\* A bug: the imports of an import are not followed.
resolve_imports_once(p, c, n) ==
  LET file == c.units[n].file
      follow(k, m) ==
        LET e == IF k.found THEN ensure_unit(p, k, m, p.files[file].dir) ELSE k
        IN IF ~e.found THEN e
           ELSE [e EXCEPT !.referenced = @ \cup {find_unit(e, m)}]
  IN IF file = NULL THEN c ELSE FoldLeft(follow, c, p.files[file].imports)

\* The parsed imports of unit n, each followed when it is first referenced.
resolve_imports(p, c, n) ==
  LET file == c.units[n].file
      ensure(k, m) == IF k.found THEN ensure_unit(p, k, m, p.files[file].dir) ELSE k
      follow(k, i) ==
        IF ~k.found \/ i \in k.referenced THEN k
        ELSE resolve_imports(p, [k EXCEPT !.referenced = @ \cup {i}], i)
      step(k, m) == CHOOSE f \in {follow(e, find_unit(e, m)) : e \in {ensure(k, m)}} : TRUE
  IN IF file = NULL THEN c ELSE FoldLeft(step, c, p.files[file].imports)

\* Phases 1 to 3: load, register operators, parse, resolve.
Compiled(p) ==
  LET loaded == load_unit_textual(p, Start, NULL, Main)
      registered == lex_prescan_ops(p, loaded, 1)
      parsed == FoldLeft(parse_unit, registered, [i \in DOMAIN loaded.units |-> i])
  IN resolve_imports(p, [parsed EXCEPT !.referenced = {1}], 1)

\* The units whose top levels main() runs, in its order: the last loaded first.
TopLevels(c) ==
  Reverse(SelectSeq([i \in DOMAIN c.units |-> i], LAMBDA i : i \in c.referenced))

-----------------------------------------------------------------------------
(* Properties of a project p, compiled to c *)

\* The units that unit n names in its imports.
Imported(p, c, n) ==
  IF c.units[n].file = NULL THEN {}
  ELSE {find_unit(c, m) : m \in Range(p.files[c.units[n].file].imports)}

\* n runs before m.
Before(c, n, m) ==
  \E order \in {TopLevels(c)} : \E i, j \in DOMAIN order : i < j /\ order[i] = n /\ order[j] = m

\* How often the top level of a file runs.
Runs(c, file) == Cardinality({n \in c.referenced : c.units[n].file = file})

\* Does a unit that runs import the main file by its name?
MainImported(p, c) ==
  \E n \in c.referenced :
    /\ c.units[n].file # NULL
    /\ \E m \in Range(p.files[c.units[n].file].imports) :
         resolve_module_path(p, p.files[c.units[n].file].dir, m) = Main

\* What is imported runs at startup and nothing else does, the main unit last
\* (SPEC.md:122), although some units are only loaded because a scan saw them. The
\* top level of a file runs once, but for the main file's: that runs once more,
\* as a module, where somebody imports it.
RunsWhatIsImported(p, c) ==
  c.found =>
    /\ Last(TopLevels(c)) = 1
    /\ \A n \in c.referenced : Imported(p, c, n) \subseteq c.referenced
    /\ \A n \in c.referenced \ {1} : \E m \in c.referenced \ {n} : n \in Imported(p, c, m)
    /\ \A f \in DOMAIN p.files :
         Runs(c, f) <= IF f = Main /\ MainImported(p, c) THEN 2 ELSE 1
    /\ MainImported(p, c) => Runs(c, Main) = 2

\* A module's top level runs before that of a module that imports it, unless
\* yet another module imports it: "that order ... isn't a true
\* topological sort for diamond-shaped import graphs" (compiler/README.md:129), and for
\* all others it is.
ImportsRunFirst(p, c) ==
  c.found =>
    \A n \in c.referenced : \A m \in Imported(p, c, n) \ {n} :
      Before(c, m, n) \/ \E k \in c.referenced \ {n} : m \in Imported(p, c, k)

\* Where the scans miss no import, each file is lexed with all the operators
\* that any file of the program declares (compiler/README.md:109).
OperatorsKnown(p, c) ==
  c.found /\ (\A f \in DOMAIN p.files : Range(p.files[f].imports) \subseteq Range(p.files[f].seen))
    => \A n, m \in c.referenced :
         c.units[m].file # NULL => p.files[c.units[m].file].declares \subseteq c.tokens[n]
=============================================================================
