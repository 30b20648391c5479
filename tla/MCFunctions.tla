----------------------------- MODULE MCFunctions -----------------------------
(***************************************************************************)
(* The parts of the system that compute one thing from another, each over   *)
(* all of its small inputs: versions and constraints, integers, the grammar, *)
(* tokens and strings, imports, classes and calls, archives and records.    *)
(* One family of inputs varies in a behaviour and the others stay as they   *)
(* are.                                                                     *)
(***************************************************************************)
EXTENDS MCWaktanimra, MCNumbers, MCSyntax, MCUnits, MCKabuk

VARIABLE family

versions == <<u, v, w, c>>
numbers == <<m, n, op>>
sources == <<program, semi, text, literal, project, classes, call>>
packed == <<files, octets, tree, ig, body>>

vars == <<versions, numbers, sources, packed, stores, family>>

Inputs ==
  \/ /\ family = "versions" /\ VersionsInit
     /\ NoNumbers /\ NoSyntax /\ NoText /\ NoLiteral /\ NoImports /\ NoClasses /\ NoKabuk
  \/ /\ family = "numbers" /\ NumbersInit
     /\ VersionsInit /\ NoSyntax /\ NoText /\ NoLiteral /\ NoImports /\ NoClasses /\ NoKabuk
  \/ /\ family = "syntax" /\ SyntaxInit
     /\ VersionsInit /\ NoNumbers /\ NoText /\ NoLiteral /\ NoImports /\ NoClasses /\ NoKabuk
  \/ /\ family = "tokens" /\ LexerInit
     /\ VersionsInit /\ NoNumbers /\ NoSyntax /\ NoImports /\ NoClasses /\ NoKabuk
  \/ /\ family = "imports" /\ ImportsInit
     /\ VersionsInit /\ NoNumbers /\ NoSyntax /\ NoText /\ NoLiteral /\ NoClasses /\ NoKabuk
  \/ /\ family = "classes" /\ ClassesInit
     /\ VersionsInit /\ NoNumbers /\ NoSyntax /\ NoText /\ NoLiteral /\ NoImports /\ NoKabuk
  \/ /\ family = "packed" /\ KabukInit
     /\ VersionsInit /\ NoNumbers /\ NoSyntax /\ NoText /\ NoLiteral /\ NoImports /\ NoClasses
  \/ /\ family = "stores"
     /\ VersionsInit /\ NoNumbers /\ NoSyntax /\ NoText /\ NoLiteral /\ NoImports /\ NoClasses /\ NoKabuk

Init == Inputs /\ NoStores

Next ==
  /\ \/ family = "versions" /\ VersionsNext /\ UNCHANGED <<numbers, sources, packed, stores>>
     \/ family = "numbers" /\ NumbersNext /\ UNCHANGED <<versions, sources, packed, stores>>
     \/ /\ family = "syntax" /\ Bare
        /\ UNCHANGED <<versions, numbers, text, literal, project, classes, call, packed, stores>>
     \/ family = "packed" /\ Damage /\ UNCHANGED <<versions, numbers, sources, stores>>
     \/ family = "stores" /\ StoresNext /\ UNCHANGED <<versions, numbers, sources, packed>>
  /\ UNCHANGED family

Spec == Init /\ [][Next]_vars

\* Whatever imports what, and whatever a scan misses, codegen_compile runs at
\* startup the top level of every module that is imported and of no other, each
\* once, the main file's again if a module imports it, what is imported first; and
\* parse_unit lexes each file with the operators that any of them declares.
UnitsRun ==
  family = "imports" => \E built \in {Compiled(project)} :
    RunsWhatIsImported(project, built) /\ ImportsRunFirst(project, built) /\ OperatorsKnown(project, built)
=============================================================================
