# Oboe in TLA+

Models, model-checking runs and proofs for the Oboe toolchain: its package
client (`compiler/src`), its compiler (the C front end in `compiler/legacy`, which
the self-hosted one repeats), and the runtime its programs are linked with
(`compiler/runtime`). Paths below are relative to the repository's `compiler/`
where they start with `src`, `legacy`, `runtime` or `selfhost`.

## The system

Oboe is a language that compiles to C. One executable, `oboe`, is compiler,
project tool and package client. These are its parts, the state each keeps, and
what makes it hard.

| Part | Code | State | Operations | Hard behaviour |
|---|---|---|---|---|
| Versions and constraints | `src/izim.c` | none | parse, compare, match | an order over mixed tags; prereleases; carets below 1.0 |
| Resolution | `src/pkg.c` `resolve*` | worklist, constraints per package, picks, budget | `resolve_local`, `resolve_remote` | fixpoint, fixed tables, a registry that changes between requests |
| Project commands | `src/pkg.c`, `src/main.c` | `project.jsonc`, `.oboe/lock`, `.oboe/libraries` | `get`, `tidy`, `remove` | partial failure, interruption, sequences of commands |
| Tool installation | `src/pkg.c` `install_tool` | `$OBOE_HOME/pkg`, `bin` | `install` | partial failure, upgrade over an older copy |
| Publication | `src/pkg.c` `cmd_publish` | credentials, archive | `publish` | what is picked, split request and body |
| Katare client | `src/katare.c` | socket, buffer, last status line | connect, request, body, close | framing over partial reads, timeouts, digest of a stream |
| Manifest editing | `src/projectedit.c`, `src/projectjson.c` | text of `project.jsonc` | add, replace, remove an entry | a text edit and a reader that must agree |
| Archives and records | `src/kabuk.c`, `src/record.c`, `src/sha256.c` | none | pack, read, extract; parse, print; hash | one spelling, limits, path rules, damaged tails |
| Driver | `src/main.c` | build outputs | `build`, `run`, `init` | toolchain failures |
| Lexer and parser | `legacy/lexer.c`, `legacy/parser.c` | the known operators, a position | lex, parse | custom operators, statements without semicolons |
| Units and classes | `legacy/codegen.c` | units, fields, constructors | load, infer, bind | import cycles, order of scans, overloads |
| Emitted code | `legacy/codegen.c` | scopes, depth of `try` | stores, jumps, `try` | what type a name has, exits from `try` inside loops |
| Dicts and loops | `runtime/oboe_runtime.c`, `selfhost/codegen.oboe` | entries, index | set, get, has, remove, iterate | open addressing, rebuilding, change during iteration |
| Strings | `runtime/oboe_runtime.c` | bytes, flags, cursor | length, index, slice, search | a cached cursor over UTF-8 and ill-formed text |
| Numbers | `runtime/oboe_runtime.c` | none | arithmetic, comparison, stores | widths, mixed signs |
| Exceptions, events, SIGINT | runtime and code generator | exception stack, event handlers | throw, try, fire | non-local exits, a handler run from a signal |

How they interact: `get` and `tidy` connect to a registry (Katare), resolve a
package into a set of pinned releases (Resolution, which uses Versions), fetch
and unpack each (Katare, Kabuk), write the set to `.oboe/lock`, and put the package
asked for into `project.jsonc` (Manifest editing). `tidy` runs the body of `get` for
each declared package it finds unsatisfied. The compiler then imports from
`.oboe/libraries`; it lexes and parses a file once the operators of what it imports
are known, infers fields, and emits C whose statements call the runtime for every
value operation and keep the runtime's exception stack. No process of the toolchain
is multi-threaded; concurrency comes from the registry's other clients, from other
`oboe` processes in the same directory, from the server at the other end of a
connection, and from signals.

## The modules

| Module | Models | Kind |
|---|---|---|
| `Waktanimra` | `izim.c`: order of versions, matching of constraints | operators |
| `PinSet` | what a closed set of pinned releases is | operators |
| `VersionSet` | what a resolution promises, whoever computes it | abstract specification |
| `Resolver` | `resolve_local` of `pkg.c`, one action per step of its loops | implements `VersionSet` |
| `Project` | `get`, `tidy`, `remove` over one project's files | composes `PinSet` with the files |
| `Exchange` | what a conversation with a registry promises | abstract specification |
| `Katare` | `katare.c`, the fetches and the upload of `pkg.c`, the registry, the network | implements `Exchange` |
| `Declarations` | `project.jsonc` as a map and a remainder | abstract specification |
| `Manifest` | `projectedit.c` and `projectjson.c` on the file's tokens | implements `Declarations` |
| `Octets`, `Kabuk`, `Records` | archives, publication, records | operators |
| `Syntax` | `parser.c`: a recursive descent over tokens | operators |
| `Grammar` | how a tree is written, from the documents | reference definition |
| `Lexer` | `lexer.c`, and how the parser cuts literals | operators |
| `Imports` | loading, operators, order of top levels | operators |
| `Classes` | owners, inferred fields, layout, constructors, arguments | operators |
| `Stores` | scopes, and what a store emits; uses `Numbers` | state machine |
| `Control` | the emitted C of `try`, loops, jumps and calls on the exception stack; `^C` | state machine |
| `Meaning` | what the same statements mean, by recursion over them | reference definition |
| `Numbers` | integers of every width and sign | operators |
| `Text`, `Strings` | a string as characters; UTF-8 bytes with a header and a cursor | abstract and implementation |
| `OrderedMap`, `Dict` | what a program sees of a dict; entries and index | abstract and implementation |
| `DictWalk` | `for (k, v in pairs(d))` with a body that changes `d` | over `Dict` |
| `MCFunctions`, which extends `MCWaktanimra`, `MCNumbers`, `MCSyntax` (with the lexer), `MCUnits`, `MCKabuk` | inputs and properties of the operator modules | instances |
| `MCRuntime` | dicts, loops, strings | instances |
| `MCResolver`, `MCProject`, `MCKatare`, `MCManifest`, `MCControl` (with `Meaning`) | values of the constants | instances |
| `WaktanimraProofs` | lemmas about `Waktanimra` | proofs |
| `FunctionsProofs`, `ResolverProofs`, `ProjectProofs`, `KatareProofs`, `DictProofs`, `ControlProofs`, `StringsProofs` | theorems, see [What is proved](#what-is-proved) | proofs |

### Versions (`Waktanimra`)

A version is a triple and the sequence of its tag's `.`-separated fields; a field
is either a number or a rank in ASCII order. That is what `cmp_tag` tells apart:
it compares values of all-digit fields after stripping zeros, and bytes of the
others. `fields_seen` is its early exit: a trailing empty field is never
reached. Components are at most nine digits in the code, so `cmp_ulong` never
overflows and `Nat` is faithful.

### Resolution (`Resolver`)

The C code's parallel arrays `names[]`, `cons_of[][]`, `dirty[]` and the output
`pins` are functions from package names, with the sequence `names` keeping the
order of the slots. `pc` is the position in the two nested loops: `pass` is the
`while` test, `visit` the `for` over slots, `widen` the loop over the chosen
release's `cizujo` lines. A visit's request, its choice and the recording of
the pick are one action, `Pick`, because nothing else runs between the answer
and the use of it; between one visit and the next the registry may `Publish`
and `Yank`. `GiveUp` and `Settle` keep the order of the tests at the end: the
budget is looked at however the loop ended. Two spellings of one version are
told apart by their records only.

### Project commands (`Project`)

One action per change to a file and per decision between two such changes.
`do_get` is `UserGet`, `Resolve` or `GetRefused`, then `Fetch` and the
replacement of a directory for each pin, `GetFetched`, `LockWrite`, `Declare`.
A directory in `.oboe/libraries` is a release and what is left of it: `rm -rf`
deletes file by file, and `installed_at` reads only the manifest, so the two
halves of a half-removed directory are "has its manifest" and "has not".
`pkg_tidy` is `TidyIdle` (its early return), `TidyRefetch` (fetch by the lock,
without resolution) or `TidyUnlocked`, then the walk over declared packages,
`WalkGet` and `WalkOn`, which compares with the lock read at the start (`old`)
although each `do_get` it runs writes another. `cmd_remove` is `UserRemove`,
`RemoveSome`, `RemoveRest`, `Undeclare`. Every fetch, rename, removal and write
may fail, as the code's error paths allow; `Crash` stops a command anywhere.
`trouble` remembers which of these happened, so that a property can say
"unless a write failed".

Taken from the other modules: an entry of `project.jsonc` is replaced as a whole or
not at all (`Manifest`), a body accepted by `fetch_one` has the digest its status
line named (`Katare`), and an archive is unpacked as a whole (`Kabuk`). Taken from
the registry: an archive of a release holds a manifest with the release's own
version, as it requires of publishers. The order in
which packages are fetched, and of `tidy`'s walk, is left open. A project's
commands run one after another.

### Dicts and loops (`Dict`, `OrderedMap`, `DictWalk`)

`Dict` keeps `entries` and `index` as the code does (positions counted from 1 in
both, since a slot holds position + 1). `slot` is the linear probe; it is
undefined, as the loop is endless, when no slot stops it, which `ProbesEnd`
excludes. The hash is a constant function from a given set, since FNV-1a of
arbitrary strings can produce any of them. `OrderedMap` is the same dict without
an index, and `Dict` implements it with `list <- entries`. `DictWalk` puts the
emitted loop on top of `Dict`. `reindexed` is the loop that rebuilds an index, as a
recursive function of how many entries are in it.

### Katare (`Katare`, `Exchange`)

The stream is octets. One octet, a head, stands for the words of a status line that
are looked at (`si`, `kyx <n>`, the digest); a line's other octets and bodies have no
meaning, but a body may hold line ends and heads. `buf` and `off` are `c->buf` and
`c->off`; `Refill` is one `recv` and returns any part of what is there, an end, a
timeout or an error. `kat_read_line` scans, compacts and refills as in the code, with
`LineMax` and `BufMax` for its limits. Requests are written whole; an upload is
written as far as the network takes it, and its status is read only then. The
registry greets, or another service answers on its port with a line that is no
greeting, and it leaves when it likes, with a word, without or in the middle of a
reply. To a request it gives at most one reply, with any status, with a body or
without, whichever the request was, and any digest or none where an archive is asked
for. It says nothing that was not asked for, a body has the length its status line
says unless the connection ends, and replies to other requests name no digest, which
nobody would look at. A command runs its sequence of requests and gives up at the
first failure, as `fetch_one` and `cmd_publish` do. `Exchange` has none of this:
requests, replies, replies acted upon. `Katare` implements it (`Faithful`), so that
nothing read late, in pieces or after a failure passes for another reply.

There is one exception, and `Exchange` states it. `cmd_publish` looks at the status of
the reply to `kalit` and of that to `kango`, not at whether they announce a body
(`LeavesBody`), and after the first goes on to read a status where the body is. From
then on (`misled`) `Exchange` allows a status that was never sent as one, and keeps only
that there is one act for each request, that a body acted upon was sent as one, and
that nothing follows giving up.

### project.jsonc (`Manifest`, `Declarations`)

A file is braces, colons, commas, ends of line, strings and comments; of a comment
only the strings quoted in it matter, because `find_deps` and
`remove_dependency_line` look into comments while the reader does not. `Added` is the
sequence of texts `add_dependency_line` tries to write (a second one if the first
cannot be written), `Removed` that of `remove_dependency_line`; `OpenTmp`, the write and
the rename may each fail, and the process may end between any two. `ReadBlock` and
`Deps` are the reader's. `Declarations` is a map and the other members of the file, of
which an edit changes one entry or nothing.

### Archives and records (`Kabuk`, `Records`, `Octets`)

Octets are numbers; paths, lengths, limits and the terminator are as in `kabuk.c`, with
one octet for the word `sampura` and smaller limits. `kabuk_write` takes each file with
the size it was measured at and the contents it has later. `kabuk_extract` validates,
then creates files one by one into a destination in which something may be in the
way. `walk` and `cmd_publish` pick the files of a tree with `.oboeignore`; among them are
`a.` and what lies in `a`, which sort one way as entries of a directory and the other as
paths.
`record_set_parse`, `record_put` and `record_format` are on octets too.

### The front end (`Lexer`, `Syntax`, `Grammar`, `Imports`, `Classes`)

Each function of `parser.c` is an operator from a position to a tree and the next
position, under its own name. `Grammar` goes the other way and is written from the
documents alone: it prints a tree with as few parentheses as the table of strengths
allows. `GoesOn` lists the ends and beginnings of lines that run together without a
semicolon. `Lexer` is `lexer.c` on characters, with the scan for operators and the two
passes over a literal. `Imports` follows `codegen_compile`: `resolve_module_path`,
`load_unit_textual` with the scan of each file's text, `resolve_imports`, and the order
of the top levels. As in the code the main file's unit has no name, so that no import
finds it: one that names it has it loaded again as a module (`Runs`), or fails where
the file is not beside the importing one. `Classes` has `infer_instance_fields`, `find_field_owner`,
`emit_class_struct`, `find_init_index`, `bind_call_args`.

### Typed stores (`Stores`)

A state is a stack of scopes, as `push_scope` and `pop_scope` keep them while C is
emitted, each with the variables it declares, the type the compiler recorded for
them, and the value the emitted code leaves there. `Let`, `Assign`, `AssignField`,
`AssignStatic`, `Startup`, `bind_params`, `OperatorCalled`, `BlockWith` and `TopLevelLet` are the
places that emit a store, each with or without the coercion that place emits.

### Control flow (`Control`)

A stack of C activations, each with the code left to run in it; `exc` is the exception
stack. The depths `g_try_depth` and `g_loop_try_depth`, at which a jump was emitted, decide
how many frames it takes off. `ob_throw` pops a frame and goes to its `setjmp`, where a
local variable has the value of then or any later one, as C leaves it. `Interrupt` is
`^C`: it runs the registered handlers as activations of their own, on top of
whatever was running, on the same exception stack, and then quits, unless an exception
of a handler jumps out of it. `Run` is the meaning of the statements without any of
this, by recursion over them.

### Strings and numbers (`Strings`, `Text`, `Numbers`)

`Strings` keeps bytes and the header of a string: the number of characters once counted, whether it is
well formed, and the cursor, which is moved by each look-up as `ob_cp_to_byte` does. The payloads include parts of
characters, overlong forms and surrogates. `Text` is the sequence of characters.
Embedded NULs, and needles that are no UTF-8 themselves, are left out. `Numbers` has
words of 2, 3 and 4 bits for 8 to 64 (2, 3 and 5 in `stores`), wrapped at each width; a value is a word, a
width and a sign, as in `OboeValue`.

## The runs

`expect: violation` runs check a statement of the repository's own documents or
comments, which the code does not meet; see Findings.

| Run | Shows | Bounds, and why they are enough |
|---|---|---|
| `functions` | what each operator module computes, see below | see below; 185,000 states |
| `resolver` | the answer is closed and highest, picks go down, the budget suffices, termination | 3 packages with all combinations of 5 x 5 x 6 x 6 x 3 needs: diamonds, cycles, self-dependency, yanked, unusable, unparsable; `ConsMax` = 2 and `PkgMax` = 3 so that a table does fill |
| `resolver_promise` | `resolve_local` implements `VersionSet`, also when the registry changes between its requests | two changes: enough to add a release after the first visit of a package and yank one before the second; `ConsMax` = 8, which these catalogs do not fill |
| `project` | lock, libraries and `project.jsonc` agree after any sequence; every command returns | three things done by the user (get, tidy, remove, edit, clone), three packages of which two share a dependency at incompatible versions, one registry change, a failure at any step and an interruption anywhere |
| `runtime` | `Dict` implements `OrderedMap`, probes end, what a loop visits; `Strings` implements `Text`, the cursor is true | four keys and `IndexMin` = 2: the index is built, grown and rebuilt, with hashes that all collide, that wrap around, and that spread as the index grows; loops over up to three entries with one removal and any stores. Strings of three characters of one to three bytes, two of four, in which the cursor can be nearer from behind, of two pieces that may join to one character, and single ones of four bytes, overlong and surrogate; any number of calls, so that each starts from every cursor |
| `katare` | whole replies, in order, or none, but for the case `Exchange` names; termination | two fetches or a publication, any status with or without a body to each request; bodies up to three octets, two of which are a line end and one a look-alike of a status line; lines up to 3 octets in a buffer of 4, so that every cut of a line or body happens, and lines too long for it |
| `manifest` | the edit changes the one entry; commas | eight documents (with and without block, on one line, with comments that quote no names, with a package's name elsewhere), two edits over three packages and two constraints, each write failing or interrupted |
| `control` | frames, meaning, `^C` | a try whose body, catch and finally end in each way there is, inside a loop inside a try and the other way round, calling functions that leave tries by jumps; handlers one of which throws and catches, and in some programs one that lets an exception out; `^C` before every step |
| `project_pinned`, `project_repair`, `control_clobber`, `stores` | findings | as little as shows each |

Each part of `functions` varies alone; together they are one run because each is a
set of inputs and a property of them:

| Property | Says | Inputs |
|---|---|---|
| `VersionOrder` | one total order, interchangeable equals, tags before their release | versions over components 0..2 and tags with numbers, text, empty fields, prefixes; transitivity over all triples |
| `ConstraintReach` | what a caret and a prerelease match | those versions, every kind of constraint on them |
| `SizedIntegers` | values stay in range; arithmetic, shifts, tests, comparisons agree on the number | every pair of words of 2, 3 and 4 bits, signed and not, and what is computed from them |
| `ReadsBack` | printing and parsing are inverse; which lines run together | every expression of up to two operators, every pair of statements and declarations, with semicolons and without |
| `LexedAsMeant` | longest match, registered operators, escapes and interpolations | every text of up to 4 characters and every literal of up to 5 |
| `UnitsRun` | operators known before lexing, top levels in order, each once but for the main file's, which runs again for an import of it by name | five files with imports of up to two modules, cycles, a module that imports the main file, names that shadow, scans that miss |
| `OneSlot` | a field is in one place | three classes in three orders, all short lists of assignments |
| `CallsReach` | overloads and arguments | up to three parameters with defaults, up to four arguments by place or name |
| `ArchiveOfFiles`, `UnpacksWhole` | one archive for one set of files; all or nothing; what is published unpacks | up to three files with names that nest or clash, every octet lost, and octets that mean something changed or added anywhere; trees with ignore patterns, and a name that sorts between a directory and what lies in it |
| `RecordsRoundTrip` | exactly the well-formed bodies are taken | every body of up to 6 octets |
| `KeepsItsType` | a store respects the type of the variable it reaches | up to three scopes, each declaring the name or not |

What the last columns leave out is said with each property: `ReadsBack` for
programs without semicolons holds exactly where no line goes on with what the next
begins with; `ByValue` exempts the mixed signs in which the wider operand is unsigned;
`StringMeans` the literals in which an escape makes a `${`; `OnlyTermIsLost` the files
named like the terminator. Each is the exact set of exceptions, not a bound.

`DictWalk`, `Project`, `Manifest`, `Control` and `functions` check without TLC's
deadlock test: a loop ends, a program ends, and the user may have done all he is
allowed to. `Resolver` and `Katare` have an explicit last step instead, so their runs
do find deadlocks; in `Katare` two ends that wait for each other would be one.

Named bounds: `MaxChurn` (registry changes), `MaxCmds` (things the user does), `MaxEdits`
(of project.jsonc), `MaxStart` and `MaxDrops` (of the loop), `StoresMax` (scopes),
`TextMax`, `LiteralMax`, `BodyMax` (lengths). `PkgMax`, `ConsMax`, `IndexMin`, `LineMax`, `BufMax`,
`PathMax`, `KeyMax`, `MaxEntries`, `MaxFile`, `MaxTotal` are the code's own limits, made
small so that they are met; `Full` and `Widths` its word sizes; `SockMax` what the
network takes of an upload before it is read. `Passes` is 4 * `PkgMax` as in the code,
except in `resolver_promise`, where it is 3, so that the budget does run out;
`BudgetSuffices`, in `resolver`, says that with the code's own value it does not.

### Fairness

`Resolver` assumes weak fairness of the client's steps: it is one sequential
process, and every request is answered or fails, because the socket has a read
timeout. Nothing is assumed of the registry. `Katare` assumes it of `Client` for the
same reason: a `recv` or `send` comes back with octets, an end, an error or
`EAGAIN` after the timeout, so `Terminates` holds of a registry that says nothing.
`Project` assumes it of `Step`, the steps of a command that is running, and not of
`Begin`: nobody has to start one. An interrupted command ends there. `Control` assumes
it of `Step`: the processor runs the program. `Interrupt` is never fair.
`InterruptQuits` needs no more, since handlers are finite here; it is about programs whose
handlers let no exception out (`HandlersReturn`). The run has others too, for
`FramesLive`: what they do instead is under Findings.

## What is proved

`tlapm` checks the theorems below, for every value of the constants that the modules'
own assumptions allow. These say no more than the code does: table sizes and buffers
are positive and hold what the code's do (`ResolverAssumption`, `KatareAssumption`), a
command fetches, or publishes once (`KatareAssumption`),
an archive of a release holds that release (`ProjectAssumption`), the least index is
a power of two (`DictAssumption`), a key is a string and not null (`WalkAssumption`),
widths are at most a word's and one is a word's (`NumbersAssumption`), a program is
built of the statements and blocks there are and its functions and handlers are
blocks of it (`ControlAssumption`), a string is a sequence of octets and `chr()` is
given a code point that is one (`StringsAssumption`), and a string that is searched for
is text, UTF-8 without ill-formed octets (`WordsAssumption`; the string that is searched
may hold any octets). TLC evaluates all of them in
the runs.

| Theorem | Establishes | Property of run |
|---|---|---|
| `FunctionsProofs!VersionsOrdered` | one total order of versions, whatever their tags | `VersionOrder`, `functions` |
| `FunctionsProofs!ConstraintsReach` | what carets and prereleases match | `ConstraintReach`, `functions` |
| `ResolverProofs!TypeCorrect` | no table is written past its end | `TypeOK`, `resolver` |
| `ResolverProofs!Honoured` | the answer is closed | `DependenciesHonoured`, `resolver` |
| `ResolverProofs!Highest` | and highest, if the registry stood still | `HighestChosen`, `resolver` |
| `ResolverProofs!OnlyDown` | a package is picked again at lower versions only | `RepicksGoDown`, `resolver` |
| `ResolverProofs!SettlesInTime` | the budget of passes suffices | `BudgetSuffices`, `resolver` |
| `ResolverProofs!AnswersInOneStep` | `Resolver` implements `VersionSet` | `AnswersOnce`, `resolver_promise` |
| `ProjectProofs!LockIsSound`, `LocksWhatIsInstalled`, `NothingLost`, `TidySucceeds`, `GetDeclares` | lock, libraries and `project.jsonc` agree | `LockSound`, `LockedIsInstalled`, `KeepsWhatWasThere`, `TidyRestores`, `DeclaredAccepts`, `project` |
| `KatareProofs!StaysInBuffer`, `OnlyVerifiedArchives`, `FailsForAReason` | the buffer; digests; no reply is lost | `TypeOK`, `OnlyVerified`, `Served`, `katare` |
| `KatareProofs!IsExchange` | `Katare` implements `Exchange` | `Faithful`, `katare` |
| `DictProofs!ProbesEndSafely` | the index and its empty slot | `IndexSound`, `runtime` |
| `DictProofs!ImplementsOrderedMap` | `Dict` implements `OrderedMap` | `IsOrderedMap`, `runtime` |
| `DictProofs!VisitsWhatItMay` | what a loop visits | `LoopVisits`, `runtime` |
| `FunctionsProofs!IntegersAreSized` | integers at every width and sign | `SizedIntegers`, `functions` |
| `FunctionsProofs!VariablesKeepTheirType`, `ModelKeepsItsType` | typed variables | `KeepsItsType`, `functions` |
| `ControlProofs!ControlCorrect` | what is left to run nests, and the exception stack follows it | the inductive invariant |
| `ControlProofs!FramesStayLive` | no throw jumps into a frame that is gone | `FramesLive`, `control` |
| `StringsProofs!CursorStaysTrue` | the cursor is at the character it counts; one spelling | `CursorIsPlace`, `runtime` |
| `StringsProofs!StringsAreText` | `Strings` implements `Text` | `IsText`, `runtime` |

### Versions

`cmp_tag` compares fields until two differ or one tag has no more. `WaktanimraProofs`
shows of its model that the first difference decides, and from this that the order is
antisymmetric and transitive. This is where a proof by induction over tags would be
expected. Instead the first difference is taken as the least element of a set of
positions, which exists because `<` is well-founded (`WFMin`); that rule takes a set
and no operator, so that the prover can use it. The other modules do
the same wherever a walk or a sum would ask for induction: sums of exponents,
`reindexed`, where characters begin.

### Resolution

`ResolverInv` is inductive. Its parts:

- `Slotted`: the root has a slot and its constraint, slots are distinct, and a package without a
  slot has no constraints;
- `CleanIsChosen`: a package with a slot that is not dirty has a pick that meets all
  constraints recorded on it -- why the "dirty" mark is enough;
- `Held`: constraints are never taken back, so a line is recorded, or was
  dropped because a table was full, for ever;
- `Ahead`: while the lines of a release are being looked at, those before `it`
  have been;
- `NeedsHeld`: every line of every pick, other than those still ahead, is held;
- `QuietSoFar`: while nothing has changed in this pass, everything passed is
  clean, so a pass without change leaves nothing dirty.

The registry's changes cost nothing here: a pick copies the record, and no part
mentions the catalog. `Highest` and `OnlyDown` add `PinBest`: while nothing has changed,
each pick is the highest release that meets the constraints of the moment of its
visit; since constraints only grow, a second pick is one the first had beaten.

Two theorems have a hypothesis, which says how large a registry is.
`AnswersInOneStep` assumes `TablesSuffice`: no more packages than slots, and on no
package more constraints, in all releases there are or may come to be, than a slot
holds. Without it the code drops lines silently and `VersionSet` is not
implemented. `SettlesInTime` assumes `FewMentioned`: 4 * `PKG_MAX` - 2 = 1022 different
dependencies or fewer in all that may be published, as each pass but two must record
one (`Spending`). The constants of `resolver_promise` meet the first, those of
`resolver` the second.

### Project commands

`ProjectInv` says where a command can be and what its variables are good for there
(`Flow`, `Handled`), that the pins being fetched answer the request or are the lock's
(`Resolved`), that what is no longer to be fetched is installed (`Fetched`), and what
holds while nothing has gone wrong: everything is whole but the directory being
replaced (`Untroubled`), and `tidy` is back at its walk with the lock installed or
remembers a failure (`Walked`). The properties are conjuncts of it or follow at once,
except that each needs the others: a lock is closed because `want` was, and `want`
is installed because of `Fetched`.

### Katare

The difficulty is that a reply in the buffer must belong to the request that waits
for it. `Stream` says what every octet that is on its way or unread is: the rest of the
greeting, of the capabilities, of the last reply or of its body, cut short only if the
connection is. `Talk` says the same of the other direction and of what the registry
waits for, `Counts` numbers requests, replies sent and replies taken, `Fits` says that
a reply is to the last request, `BodySoFar` that what was read of a body is what was
sent of it, `Uploads` that an upload is counted once, and `Calm` what a conversation
without trouble looks like. With `Stream`, reading a line is taking the head of a known
sequence, wherever the reads cut it (`LineRead`). `IsExchange` follows: a request,
a reply and an acceptance are the steps of `Exchange`, all else is a stutter.

All of this is `Agree`, and holds until a reply brings a body that its reader leaves in
the stream. What comes then is no longer known, and the invariant is `Misled` instead:
the client is publishing, reads no body, and still acts once for each request. That a
command either fetches or publishes (`Errand`, from `KatareAssumption`) is why no archive
can be read from such a stream.

### Dicts and loops

`Knows(hash, entries, index, c, m)` says that each of the first `m` entries is in one
slot, that this slot is reached from its hash without passing an empty one, and that
no slot holds anything else. A set into an empty slot keeps it, `reindexed` builds it
for any list and any hash, and `Loaded` (fewer entries than three quarters of the
slots) leaves an empty slot, so that the probe ends, for a key that is there at its
entry and for one that is not at an empty slot. This is what makes `find` through the
index and `find` through the list the same, and `ImplementsOrderedMap` one case per operation.
Capacities are powers of two, which is counted as subsets (`FS_SUBSET`), since the
prover knows nothing of `^`.

`VisitsWhatItMay` counts. `Passed` are the keys that were there when the loop began and are
neither visited nor still ahead; removing an entry moves one key past the loop, and
makes the list one shorter than the length taken at the start, so that one iteration
at the end finds nothing. `WalkInv` counts what is lost with what is certain to be
lost (`FewPassed`, `FewBlanks`); the property, which is about the end of the
loop, is not inductive without the latter.

### Numbers and typed stores

A word, the number it stands for and what is computed from them differ by multiples of
a power of two; two numbers of the same type's range that do are equal (`CongUnique`).
So it is enough to follow sums, products and divisions through congruences
(`Computes`, `Divided`, `Shifted`), to note that a narrower width's power divides a
wider one's (`Power`), and that a number of a type is stored as it is (`Keeps`). The
inductive invariant is that what is computed is again the word of its type
(`SizedIsNumber`); the five parts of `SizedIntegers` follow for any two of them.

`VariablesKeepTheirType` is about any names, types and integers. `StoresInv` says that
every variable in every scope, and every field, is `Kept`, and that of a static field
the compiler keeps no type, which is why a store to it need not be coerced for
`KeepsItsType`, and why `StoresCoerce` fails. `ModelStores` shows that the
machine of `MCNumbers` makes only such stores.

### Control flow

`FramesLive` asks that the exception stack be the tries whose bodies are being run,
one for one over all activations. It is not inductive: a frame is found by the depth
of the code that takes it off, and a frame array of an earlier entry is still in its
slot. `ControlInv` adds what the emitted C keeps without saying so:

- `Nested`: what is left to run of an activation goes outwards: nothing behind an item
  is deeper than it (`Descends`), behind the end of a body comes the `finally` of its
  try and then nothing as deep (`Closed`), and the depth an item believes its loop to
  be at, `g_loop_try_depth`, is that of the loop around it (`Looped`), without which a
  `break` would take off frames of somebody else;
- `Ordered`: the exception stack goes outwards too, over activations and in each;
- `Backed`: each frame has the end of its body and its `finally` still to run, and goes
  on where `setjmp` was;
- `Pushed`: each end of a body has its frame;
- `Linked`: what a frame saved as the one before it is what is left of the exception
  stack without its own try and all inside of it, for every frame around an item that
  is still to run. A jump out of two tries assigns that of the outermost, and this is
  why it is right, also when a handler of `^C` has pushed frames on top.

A throw, a jump, a return and the end of a body are then one lemma, `SoundCut`: dropping
the inner part of what is left to run and the frames that belong to it keeps all of it.

### Strings

`Starts` is a walk, defined by recursion on the offset, so the proof begins with its
existence (`StartsExist`) and describes it by `Place(s, j)`, the offset of character
`j`: places begin at 0, end with the string, and each is the width of a character after
the one before (`PlaceIs`). `Tells` says that the cursor is a character and its place and
that what `ob_sclen` remembers is of this string. A walk forwards from one place arrives at
the place it counts to in any string (`AheadIs`); backwards, over continuation bytes,
only in a well-formed one (`BehindIs`), because an octet that continues nothing is a
character of its own. `AnchorIs` is that `ob_cp_to_byte` asks for the flag wherever it
goes backwards. `OneSpelling` is arithmetic: with the guards against overlong forms, taking
a code point's bits apart (`DecodedIsEncoded`) and putting them together
(`EncodedDecodes`) are inverse for each of the four widths.

`StringsAreText` is the refinement of `Text`, method by method. The octets between two
places are those of the characters between them (`FlatPlaces`), which settles `substr`,
`slice` and the characters of an iteration. For the methods that search octets, an octet
that continues none begins a character (`LeadIsPlace`) and a well-formed character is
read alike wherever it stands (`ReadAlike`, `StepsAlike`), so the octets of a word stand
where its characters do and nowhere else (`SeenStands`, `StandsSeen`); the first hit of
`strstr` is then the place of the first finding (`FirstHit`), and `ob_byte_to_cp` counts
back from that place to its character (`PlaceCounts`). `split` is described by the ends of
its pieces (`Cut`): joined again they are the string (`CutJoins`), and the separator is in
none of them (`CutBare`). Were the word not text, `strstr` could find the tail of
a character: `WordsAssumption` is what the search rests on.

### Only model-checked

- Liveness (`Terminates`, `CommandsEnd`, `InterruptQuits`), which the prover cannot do.
- What recursive operators compute, since a module that reaches one can have no
  theorem: `ReadsBack`, `LexedAsMeant`, `UnitsRun`, `OneSlot`, `CallsReach`,
  `ArchiveOfFiles`, `UnpacksWhole`, `RecordsRoundTrip`, `Separated`, `EditsTheMap`,
  `MeansWhatItSays`.

The inductive invariants were model-checked on the constants of the runs before they were
proved. Assumptions on what is outside the code (that an archive of a release holds
its own version, that digests tell contents apart) are those of the models.

## Findings

Where a document or comment of the repository and the code disagree, with the
run that shows it (`PROJECT.json` quotes each line):

1. `project_pinned`: each `get` overwrites the lock with its own resolution; only
   the last package's set stays pinned (`pkg.c:608`).
2. `project_repair`: an interrupted `get` leaves a partly removed package in
   `.oboe/libraries` that `tidy` takes for whole (`pkg.c:176`).
3. `control_clobber`: an exception that waits for a `finally` is lost when the
   `finally` throws and catches another (`codegen.c:2097`).
4. `stores`: top-level variables, operators' parameters and static fields of sized
   types are stored to without being wrapped (`codegen.c:799-800`, `SPEC.md:139`).

Met while modelling, from reading the code against what is quoted, without a run
of their own:

- *Resolution*: the ninth constraint of a package and a package beyond the table are
  dropped silently (`pkg.c:562-578`; `compiler/README.md:121` has an unsatisfiable
  set be an error).
- *Commands*: `tidy` returns before it reads `project.jsonc` when all of the lock is
  installed (`pkg.c:1113`, `SPEC.md:14`); `get` may replace a dependency another package
  needs at an older version (`pkg.c:1004`, `compiler/README.md:121`); `remove` leaves
  the pin, and `tidy` brings the package back (`main.c:997`, `main.c:957`).
- *project.jsonc*: when writing a replaced value fails and the next write succeeds, the
  entry is there twice (`projectedit.c:270-273`; `Transient` = TRUE shows it);
  a comment among the dependencies that quotes the name of a package that is not
  there has `get` change the constraint of the next entry instead (204, against
  `projectedit.h:30`: "Adds `pkg`, or replaces its constraint when already present"), and
  `remove` delete the comment (409).
- *Katare*: `cmd_publish` looks at the status of a reply and not at whether it announces a
  body, as `fetch_one` does (`pkg.c:267`); a body in the reply to `kalit` is read as the reply to
  `kango` (`pkg.c:1760-1787`, against `katare.h:94`: "Reads a status line on its own, for the
  split send above"). No registry that keeps to the protocol sends one.
- *Archives*: a file in the root named `sampura` is packed and then not readable
  (`kabuk.h:65-67`); the writer keeps no limits; an archive with files `a` and `a/b` is
  valid and stops half-way when extracted. `record_put` lets a line feed pass.
- *Lexer*: `\${7}` is interpolated (`lexer.c:208-211`); the word `operator` in a comment or
  string registers what follows; an operator that starts with `//` never lexes.
- *Units*: the main file's has no name, so that an import of it by name loads it again, and
  its top level runs twice (`codegen.c:2881`, 2897; `SPEC.md:122`: "Top-level statements in
  an imported module run once at program startup"). `RunsWhatIsImported` says exactly when;
  a program built so prints its first line twice. Units are found by the name they were
  imported under, not by directory, so that two modules of one name are one
  (`codegen.c:2894-2900`, `SPEC.md:363-364`); an import the scan of the text misses (two on
  one line) leaves its operators unknown (`codegen.c:3110-3111`).
- *Classes*: `extends` in a circle makes the compiler hang (`codegen.c:383-395`); overloads
  are picked by count alone, also when arguments are named (`SPEC.md:196`); a field's
  recorded type is that of the first assignment; initialisers of instance fields
  are parsed and never emitted; a default that names a variable of its own module
  is undefined in a call from another (`SPEC.md:194`), and one that names a parameter
  takes the caller's variable of that name.
- *Expressions*: `user?.address?.city` of `SPEC.md:343` does not compile, `f()?.v` calls
  `f` twice, arguments are evaluated in the order the C compiler chooses, and
  `var x = x + 1` in an inner block reads the new variable.
- *Numbers*: division of the least integer by -1 traps on full words; comments at
  `oboe_runtime.c:1310` and 1324 hold for full words only; `math.max` and `math.abs`
  ignore that an operand is unsigned.
- *Control*: a local variable read in a catch may have an old value when the C is
  optimised (`codegen.c:2108`); `finally` is skipped by a jump, and by a throw in a catch,
  which `Run` takes for the meaning as nothing documents it otherwise. An exception that
  a handler of `^C` lets out jumps from the signal handler into the innermost `try` of the
  program, which catches it and goes on (`oboe_runtime.c:939`, against `SPEC.md:513-516`:
  "stop everything", "fire that event", "when that finishes, THEN quit"); `InterruptQuits`
  without `HandlersReturn` fails so, and so does a compiled program.
- *Semicolons* are optional (`SPEC.md:97`) only between lines that `GoesOn` does not name:
  a line that begins with `(`, `[`, `-` or the operator `x` continues the last, and a bare
  `return`, a bare `throw` and a type's name take the next line for theirs.

## Hazards

`PROJECT.json` lists what in this code is hard to test, each at its line, with
the properties that would catch it. Five have no property: two commands at once and
`install_tool`, which are not modelled; parents in a circle, which do hang; the writes
of the lock that nobody looks at, after which the code promises nothing; and a release
that was published again with other contents, which `installed_at` takes for the one
it was.

## Plan

1. *Two commands at once* in one project: shared temporary names, the manifest
   read before and written after.
2. *`install_tool`*: the copy under `$OBOE_HOME`, and the build before or after it.
3. *Loops* over arrays and strings, and events the program raises itself.
4. *Modules of the emitted code* that remain: optional chaining, the order of
   arguments, calls of inherited static methods.

Proofs: that the temporary file of `Manifest` is replaced whole or not at all, which needs
its text edits in a module without recursive operators.

## Not modelled

Registry, network and file system are modelled only as the code uses them. Text
of messages, options and environment variables, progress output, and the C
toolchain are left out. SHA-256 is arithmetic, for which a digest is a value. Floats,
arrays, objects, FFI and the standard library wrappers keep no state that
interleaves. The self-hosted compiler is tested to emit what the C front end emits
and is modelled through it; the bootstrap translation is generated.
