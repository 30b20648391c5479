------------------------------ MODULE Manifest ------------------------------
(***************************************************************************)
(* Editing project.jsonc (projectedit.c) and reading it (projectjson.c).    *)
(* The file is a sequence of tokens: braces, colons, commas, ends of line,   *)
(* strings, and comments.  Of a comment only the strings it quotes matter;   *)
(* some of the scans below know comments, and some look inside them.         *)
(***************************************************************************)
EXTENDS Naturals, Sequences, FiniteSets, FiniteSetsExt, TLC

CONSTANTS
  LB, RB, CO, CM, NL,          \* { } : , end of line
  Words,                       \* strings
  dependencies,                \* the one that names the block
  Documents,                   \* the files a user may have written
  Packages, Constraints, None,
  Transient,                   \* may a write succeed right after one that failed?
  MaxEdits                     \* a bound on the edits made

ASSUME ManifestAssumption ==
  Packages \cup Constraints \cup {dependencies} \subseteq Words /\ Transient \in BOOLEAN

VARIABLES doc,     \* project.jsonc
          tmp,     \* project.jsonc.oboe-tmp, or <<>> when there is none
          plan,    \* the texts the edit under way tries to write, in turn
          request, \* what it was asked to do
          pc, edits

vars == <<doc, tmp, plan, request, pc, edits>>

Comment(quoted) == [note |-> quoted]
IsComment(t) == t \notin Words \cup {LB, RB, CO, CM, NL}
Quoted(t) == IF t \in Words THEN {t} ELSE IF IsComment(t) THEN t.note ELSE {}

-----------------------------------------------------------------------------
(* Positions.  0 stands for NULL. *)

\* F(v), for which TLC evaluates v once.
With(v, F(_)) == CHOOSE r \in {F(x) : x \in {v}} : TRUE

First(S) == With(S, LAMBDA T : IF T = {} THEN 0 ELSE Min(T))
Last(S) == With(S, LAMBDA T : Max(T \cup {0}))

\* Over white space: the next token that is not an end of line, and the last up
\* to k.
Solid(s, k) == First({j \in k..Len(s) : s[j] # NL})
SolidBefore(s, k) == Last({j \in 1..k : s[j] # NL})
NextIs(s, k, t) == \E j \in {Solid(s, k)} : j # 0 /\ s[j] = t

\* A string with a colon behind it, and where its value starts.
IsKey(s, k) == s[k] \in Words /\ NextIs(s, k + 1, CO)
ValueAt(s, k) == Solid(s, Solid(s, k + 1) + 1)

\* How deep token k lies in braces opened from `open' on, and the brace that
\* closes the object whose text starts there.
Depth(s, open, k) == Cardinality({j \in open..k : s[j] = LB})
                       - Cardinality({j \in open..k : s[j] = RB})
EndOf(s, open) == First({k \in open..Len(s) : s[k] = RB /\ Depth(s, open, k) = -1})

Block(open, close) == [open |-> open, close |-> close]
NoBlock == Block(0, 0)

-----------------------------------------------------------------------------
(* Reading: projectjson.c. *)

\* walk_object: the keys of the object whose text is open..close - 1.
KeysOf(s, b) == {k \in b.open..b.close - 1 : IsKey(s, k) /\ Depth(s, b.open, k) = 0}

\* json_extract_object of `dependencies' in the whole document.
ReadBlock(s) ==
  LET whole == Block(Solid(s, 1) + 1, Len(s) + 1)
      key == First({k \in KeysOf(s, whole) : s[k] = dependencies})
      open == ValueAt(s, key) + 1
  IN IF key = 0 \/ s[open - 1] # LB \/ EndOf(s, open) = 0 THEN NoBlock
     ELSE Block(open, EndOf(s, open))

\* What pkg_tidy reads: each declared package with the value of its first entry.
Deps(s) ==
  CHOOSE d \in {[p \in {s[k] : k \in KeysOf(s, b)} |->
                   s[ValueAt(s, Min({k \in KeysOf(s, b) : s[k] = p}))]] :
                b \in {ReadBlock(s)}} : TRUE

-----------------------------------------------------------------------------
(* Editing: projectedit.c. *)

\* find_deps knows comments, but takes the first such key at any depth.
find_deps(s) ==
  LET key == First({k \in 1..Len(s) : /\ s[k] = dependencies /\ IsKey(s, k)
                                      /\ s[ValueAt(s, k)] = LB})
      open == ValueAt(s, key) + 1
  IN IF key = 0 \/ EndOf(s, open) = 0 THEN NoBlock ELSE Block(open, EndOf(s, open))

\* s with the tokens from..to replaced.
Splice(s, from, to, new) == SubSeq(s, 1, from - 1) \o new \o SubSeq(s, to + 1, Len(s))

\* replace_value: the token that holds the value, looked for in comments too.
ValueToken(s, p, b) ==
  LET From(k, P(_)) == IF k = 0 THEN 0 ELSE First({j \in k..b.close - 1 : P(s[j])})
      hit == From(b.open, LAMBDA t : p \in Quoted(t))
      colon == From(hit, LAMBDA t : t = CO)
  IN From(colon, LAMBDA t : Quoted(t) # {})

Replaced(s, k, c) ==
  [s EXCEPT ![k] = IF IsComment(@) THEN Comment({c}) ELSE c]

Entry(p, c) == <<p, CO, c>>

\* block_has_entries
Populated(s, b) == \E k \in b.open..b.close - 1 : s[k] # NL /\ ~IsComment(s[k])

\* add_dependency_line, block found: behind the text of the last entry, or of
\* the comment behind it.
Inserted(s, p, c, b) ==
  LET at == Max({SolidBefore(s, b.close - 1) + 1, b.open})
  IN Splice(s, at, at - 1, IF Populated(s, b) THEN <<CM, NL>> \o Entry(p, c)
                           ELSE <<NL>> \o Entry(p, c) \o <<NL>>)

\* No block: a new last member.
WithBlock(s, p, c) ==
  LET brace == SolidBefore(s, Len(s))
      before == SolidBefore(s, brace - 1)
      comma == IF before > 0 /\ s[before] \notin {LB, CM} THEN <<CM>> ELSE <<>>
  IN IF brace = 0 \/ s[brace] # RB THEN <<>>
     ELSE <<Splice(s, before + 1, brace - 1,
                   comma \o <<NL, dependencies, CO, LB, NL>> \o Entry(p, c) \o <<NL, RB, NL>>)>>

\* add_dependency_line, what it tries to write: an entry that is there has its
\* value replaced, and if that cannot be written a second one is tried.
Added(s, p, c) ==
  LET found == find_deps(s)
      value == ValueToken(s, p, found)
  IN IF found = NoBlock THEN WithBlock(s, p, c)
     ELSE (IF value = 0 THEN <<>> ELSE <<Replaced(s, value, c)>>) \o <<Inserted(s, p, c, found)>>

\* remove_dependency_line: the line around token k, its end included.
LineStart(s, k) == Last({j \in 1..k - 1 : s[j] = NL}) + 1
LineEnd(s, k) == Min({j \in k..Len(s) : s[j] = NL} \cup {Len(s)})

\* The first mention of p that has no colon before it on its line, and one
\* behind it, wherever.
LineOf(s, p) ==
  First({k \in 1..Len(s) : /\ p \in Quoted(s[k])
                           /\ \A j \in LineStart(s, k)..k : s[j] # CO
                           /\ \E j \in k..Len(s) : s[j] = CO})

\* A bug: a comma before the closing brace is left behind.
Stripped_not(s) == s

\* Commas before a closing brace are dropped; a comment between saves them.
Stripped(s) ==
  LET dropped == {k \in 1..Len(s) : s[k] = CM /\ NextIs(s, k + 1, RB)}
      kept == 1..Len(s) \ dropped
      nth == [i \in 1..Cardinality(kept) |->
                CHOOSE k \in kept : Cardinality({j \in kept : j <= k}) = i]
  IN [i \in DOMAIN nth |-> s[nth[i]]]

Removed(s, p) ==
  LET k == LineOf(s, p)
  IN IF k = 0 THEN <<>>
     ELSE <<With(Splice(s, LineStart(s, k), LineEnd(s, k), <<>>), Stripped)>>

-----------------------------------------------------------------------------
(* Writing.  write_atomic: a temporary file, then a rename over the old one. *)

Init ==
  /\ doc \in Documents /\ tmp = <<>>
  /\ plan = <<>> /\ request = None /\ pc = "idle" /\ edits = 0

Edit(texts, r) ==
  /\ pc = "idle" /\ edits < MaxEdits
  /\ \E t \in {texts} : t # <<>> /\ plan' = t
  /\ request' = r
  /\ pc' = "open"
  /\ edits' = edits + 1
  /\ UNCHANGED <<doc, tmp>>

AddDependency ==
  \E p \in Packages, c \in Constraints :
    Edit(Added(doc, p, c), [op |-> "add", package |-> p, constraint |-> c])

RemoveDependency ==
  \E p \in Packages : Edit(Removed(doc, p), [op |-> "remove", package |-> p])

\* A bug: the file itself is opened for writing, as an earlier version did.
OpenTmp_inplace ==
  /\ pc = "open"
  /\ doc' = <<>> /\ pc' = "write"
  /\ UNCHANGED <<tmp, plan, request, edits>>

\* fopen(tmp, "w") empties what an interrupted edit may have left there.
OpenTmp ==
  /\ pc = "open"
  /\ tmp' = <<>> /\ pc' = "write"
  /\ UNCHANGED <<doc, plan, request, edits>>

\* fputs and fflush.
WriteTmp ==
  /\ pc = "write"
  /\ tmp' = plan[1] /\ pc' = "rename"
  /\ UNCHANGED <<doc, plan, request, edits>>

Done == plan' = <<>> /\ request' = None /\ pc' = "idle"

Rename ==
  /\ pc = "rename"
  /\ doc' = tmp /\ tmp' = <<>>
  /\ Done
  /\ UNCHANGED edits

\* Any of the three may fail; the temporary file, if open, is unlinked.  What is
\* left of the plan is tried, and fails as well unless failures are transient.
Fails ==
  /\ pc # "idle"
  /\ tmp' = IF pc = "open" THEN tmp ELSE <<>>
  /\ IF Transient /\ Len(plan) > 1
     THEN plan' = Tail(plan) /\ pc' = "open" /\ request' = request
     ELSE Done
  /\ UNCHANGED <<doc, edits>>

\* The command is interrupted; a part of the text may be in the file.
Crash ==
  /\ pc # "idle"
  /\ Done
  /\ tmp' \in IF pc = "write" THEN {<<>>, SubSeq(plan[1], 1, Len(plan[1]) \div 2)} ELSE {tmp}
  /\ UNCHANGED <<doc, edits>>

Next == AddDependency \/ RemoveDependency \/ OpenTmp \/ WriteTmp \/ Rename \/ Fails \/ Crash

Spec == Init /\ [][Next]_vars

-----------------------------------------------------------------------------
(* Properties *)

\* The strings outside the block, in their order.
Others(s) ==
  LET found == ReadBlock(s)
      outside == IF found = NoBlock THEN s ELSE Splice(s, found.open, found.close, <<>>)
  IN SelectSeq(outside, LAMBDA t : t \in Words \ {dependencies})

\* `get' sets the entry it was asked for and `remove' deletes it, as pkg_tidy
\* will read the file, whatever edits, failures and interruptions came before;
\* no other entry and no other member changes.
Map == INSTANCE Declarations WITH deps <- Deps(doc), others <- Others(doc)
EditsTheMap == Map!Spec

\* Members are separated by one comma, and none is left before a brace
\* (projectedit.h on both edits).
Separated ==
  \E t \in {SelectSeq(doc, LAMBDA t : t # NL /\ ~IsComment(t))} :
    \A k \in 1..Len(t) - 1 :
      /\ <<t[k], t[k + 1]>> \notin {<<CM, CM>>, <<CM, RB>>, <<LB, CM>>}
      /\ t[k] \in Words \cup {RB} => t[k + 1] \in {CO, CM, RB}
=============================================================================
