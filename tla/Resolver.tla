------------------------------ MODULE Resolver ------------------------------
(***************************************************************************)
(* resolve_local (compiler/src/pkg.c): the client's own version resolution *)
(* for a registry that does not offer `cizujo'.  A worklist of package     *)
(* names, each with the constraints met so far, is passed over until no    *)
(* name is dirty.  A dirty name costs one request (`ko besal'), so other   *)
(* clients of the registry may publish or yank between two visits.         *)
(*                                                                         *)
(* A slot of the C arrays is named by its package; `names' keeps the order *)
(* of the slots, which is the order of the loop and of the resulting pins. *)
(* A pin copies version and digest of the record it chose and is modelled  *)
(* by that record.                                                         *)
(***************************************************************************)
EXTENDS Waktanimra, FiniteSets

CONSTANTS
  Names,      \* package names
  Root,       \* the package asked for ...
  RootCons,   \* ... and the constraint it was asked for with
  BadLine,    \* a `cizujo' line that does not parse
  NoPin,      \* no release chosen yet
  PkgMax,     \* PKG_MAX: slots, and pins in the answer
  ConsMax,    \* constraints one slot holds
  Passes,     \* passes over the slots, 4 * PKG_MAX
  Catalogs,   \* what the registry may hold when the resolution starts
  Uploads,    \* releases that may be published meanwhile
  MaxChurn    \* bound: registry changes during one resolution

Dep == [izim : Names, cons : Constraint]

\* usable: both `waktanimra' and `sema' are there and the version parses.
Record == [usable : BOOLEAN, kaldy : BOOLEAN, ver : Version,
           cizujo : Seq(Dep \cup {BadLine})]

ASSUME ResolverAssumption ==
  /\ Root \in Names
  /\ RootCons \in Constraint
  /\ BadLine \notin Dep
  /\ NoPin \notin Record
  /\ PkgMax \in Nat \ {0}
  /\ ConsMax \in Nat \ {0}
  /\ Passes \in Nat
  /\ Catalogs \subseteq [Names -> Seq(Record)]
  /\ Uploads \subseteq [izim : Names, rec : Record]
  /\ MaxChurn \in Nat

VARIABLES
  catalog,    \* registry: package -> its records, in the order it sends them
  churn,      \* how often the registry has changed
  names,      \* the slots in use
  cons_of,    \* package -> constraints recorded on it
  dirty,      \* packages whose pick is out of date
  pin,        \* package -> the record chosen, or NoPin
  i,          \* slot the pass is at
  it,         \* next `cizujo' line of the release just picked
  changed,    \* this pass has visited something
  budget,     \* passes left
  pc,         \* "pass", "visit", "widen", "done" or "failed"
  err         \* why it failed: "none", "request", "norelease", "unsettled"

registry == <<catalog, churn>>
answer == <<names, cons_of, dirty, pin>>
vars == <<registry, answer, i, it, changed, budget, pc, err>>

InUse == {names[k] : k \in DOMAIN names}

(***************************************************************************)
(* The types, and the bounds of the two fixed tables: names[PKG_MAX] and   *)
(* cons_of[PKG_MAX][8] are never written past their ends.                  *)
(***************************************************************************)
TypeOK ==
  /\ catalog \in [Names -> Seq(Record)]
  /\ churn \in 0..MaxChurn
  /\ names \in Seq(Names) /\ Len(names) <= PkgMax
  /\ cons_of \in [Names -> Seq(Constraint)]
  /\ \A n \in Names : Len(cons_of[n]) <= ConsMax
  /\ dirty \in SUBSET Names
  /\ pin \in [Names -> Record \cup {NoPin}]
  /\ i \in Nat
  /\ it \in Nat
  /\ changed \in BOOLEAN
  /\ budget \in Nat
  /\ pc \in {"pass", "visit", "widen", "done", "failed"}
  /\ err \in {"none", "request", "norelease", "unsettled"}

Init ==
  /\ catalog \in Catalogs
  /\ churn = 0
  /\ names = <<Root>>
  /\ cons_of = [n \in Names |-> IF n = Root THEN <<RootCons>> ELSE <<>>]
  /\ dirty = {Root}
  /\ pin = [n \in Names |-> NoPin]
  /\ i = 1
  /\ it = 1
  /\ changed = TRUE
  /\ budget = Passes
  /\ pc = "pass"
  /\ err = "none"

-----------------------------------------------------------------------------
(* The passes. *)

Fail(why) ==
  /\ pc' = "failed"
  /\ err' = why
  /\ UNCHANGED <<registry, answer, i, it, changed, budget>>

\* A bug: the flag of the last pass is not cleared.
StartPass_kept ==
  /\ pc = "pass" /\ changed /\ budget > 0
  /\ budget' = budget - 1
  /\ i' = 1
  /\ pc' = "visit"
  /\ UNCHANGED <<registry, answer, it, changed, err>>

StartPass ==
  /\ pc = "pass" /\ changed /\ budget > 0
  /\ budget' = budget - 1
  /\ changed' = FALSE
  /\ i' = 1
  /\ pc' = "visit"
  /\ UNCHANGED <<registry, answer, it, err>>

\* `budget <= 0' is tested after the loop, however the loop was left.
GiveUp == pc = "pass" /\ budget = 0 /\ Fail("unsettled")

Settle ==
  /\ pc = "pass" /\ ~changed /\ budget > 0
  /\ pc' = "done"
  /\ UNCHANGED <<registry, answer, i, it, changed, budget, err>>

EndPass ==
  /\ pc = "visit" /\ i > Len(names)
  /\ pc' = "pass"
  /\ UNCHANGED <<registry, answer, i, it, changed, budget, err>>

\* A bug: the loop stays at a package with nothing to do.
SkipClean_stuck ==
  /\ pc = "visit" /\ i <= Len(names) /\ names[i] \notin dirty
  /\ UNCHANGED vars

SkipClean ==
  /\ pc = "visit" /\ i <= Len(names) /\ names[i] \notin dirty
  /\ i' = i + 1
  /\ UNCHANGED <<registry, answer, it, changed, budget, pc, err>>

-----------------------------------------------------------------------------
(* One visit: the request, the choice, and the chosen release's needs. *)

\* Bugs in the scan: yanked releases taken, or the last constraint not looked at.
Candidates_yanked(n) ==
  {r \in DOMAIN catalog[n] :
     /\ catalog[n][r].usable
     /\ \A k \in DOMAIN cons_of[n] : constraint_match(cons_of[n][k], catalog[n][r].ver)}
Candidates_last(n) ==
  {r \in DOMAIN catalog[n] :
     /\ catalog[n][r].usable /\ ~catalog[n][r].kaldy
     /\ constraint_match(cons_of[n][Len(cons_of[n])], catalog[n][r].ver)}

Candidates(n) ==
  {r \in DOMAIN catalog[n] :
     /\ catalog[n][r].usable /\ ~catalog[n][r].kaldy
     /\ \A k \in DOMAIN cons_of[n] : constraint_match(cons_of[n][k], catalog[n][r].ver)}

\* The highest of them; of equal spellings the one listed first.
Best(n, r) ==
  /\ r \in Candidates(n)
  /\ \A s \in Candidates(n) :
       LET o == waktanimra_cmp(catalog[n][s].ver, catalog[n][r].ver)
       IN o < 0 \/ (o = 0 /\ r <= s)

Visiting == pc = "visit" /\ i <= Len(names) /\ names[i] \in dirty

\* No such package, a refusal, a lost connection or a malformed record.
RequestFails == Visiting /\ Fail("request")

NoRelease == Visiting /\ Candidates(names[i]) = {} /\ Fail("norelease")

Pick ==
  /\ Visiting
  /\ \E r \in DOMAIN catalog[names[i]] :
       /\ Best(names[i], r)
       /\ pin' = [pin EXCEPT ![names[i]] = catalog[names[i]][r]]
  /\ dirty' = dirty \ {names[i]}
  /\ changed' = TRUE
  /\ it' = 1
  /\ pc' = "widen"
  /\ UNCHANGED <<registry, names, cons_of, i, budget, err>>

Lines == pin[names[i]].cizujo

Recorded(d) == \E k \in DOMAIN cons_of[d.izim] : cons_of[d.izim][k] = d.cons

\* The line is passed over: no slot left, already there, or the slot is full.
NoSlot(d) == d.izim \notin InUse /\ Len(names) >= PkgMax

\* A bug: the count of a slot's constraints is not tested.
Skipped_nocount(d) == NoSlot(d) \/ Recorded(d)

Skipped(d) == \/ NoSlot(d)
              \/ Recorded(d)
              \/ Len(cons_of[d.izim]) >= ConsMax

\* A bug: the constraint is added but an earlier pick is left standing.
Requeue_new(d) == IF pin[d.izim] = NoPin THEN dirty \cup {d.izim} ELSE dirty

Requeue(d) == dirty \cup {d.izim}

AddLine ==
  /\ pc = "widen" /\ it <= Len(Lines)
  /\ LET d == Lines[it] IN
       IF d = BadLine \/ Skipped(d)
       THEN UNCHANGED answer
       ELSE /\ names' = IF d.izim \in InUse THEN names ELSE Append(names, d.izim)
            /\ cons_of' = [cons_of EXCEPT ![d.izim] = Append(@, d.cons)]
            /\ dirty' = Requeue(d)
            /\ pin' = pin
  /\ it' = it + 1
  /\ UNCHANGED <<registry, i, changed, budget, pc, err>>

EndVisit ==
  /\ pc = "widen" /\ it > Len(Lines)
  /\ i' = i + 1
  /\ pc' = "visit"
  /\ UNCHANGED <<registry, answer, it, changed, budget, err>>

-----------------------------------------------------------------------------
(* The registry, which other clients change. *)

Publish ==
  /\ churn < MaxChurn
  /\ \E x \in Uploads : catalog' = [catalog EXCEPT ![x.izim] = Append(@, x.rec)]
  /\ churn' = churn + 1
  /\ UNCHANGED <<answer, i, it, changed, budget, pc, err>>

Yank ==
  /\ churn < MaxChurn
  /\ \E n \in Names : \E r \in DOMAIN catalog[n] :
       /\ ~catalog[n][r].kaldy
       /\ catalog' = [catalog EXCEPT ![n][r].kaldy = TRUE]
  /\ churn' = churn + 1
  /\ UNCHANGED <<answer, i, it, changed, budget, pc, err>>

-----------------------------------------------------------------------------

Client == \/ StartPass \/ GiveUp \/ Settle \/ EndPass \/ SkipClean
          \/ RequestFails \/ NoRelease \/ Pick \/ AddLine \/ EndVisit

Others == pc \notin {"done", "failed"} /\ (Publish \/ Yank)

Returned == pc \in {"done", "failed"} /\ UNCHANGED vars

Next == Client \/ Others \/ Returned

Spec == Init /\ [][Next]_vars

\* The client is one sequential process; every request is answered or fails.
FairSpec == Spec /\ WF_vars(Client)

-----------------------------------------------------------------------------
(* What a finished resolution promises. *)

Chosen(n, c) == pin[n] # NoPin /\ constraint_match(c, pin[n].ver)

(***************************************************************************)
(* The answer is closed and consistent: what the user asked for is met,    *)
(* and every dependency of every pinned release is pinned at a version     *)
(* that dependency accepts -- unless the line was dropped because a fixed  *)
(* table (PKG_MAX slots, eight constraints a slot) was full.               *)
(***************************************************************************)
Dropped(d) == ~Recorded(d) /\ (NoSlot(d) \/ Len(cons_of[d.izim]) >= ConsMax)

DependenciesHonoured ==
  pc = "done"
    => /\ Chosen(Root, RootCons)
       /\ \A n \in InUse :
            /\ pin[n] # NoPin
            /\ \A k \in DOMAIN pin[n].cizujo :
                 LET d == pin[n].cizujo[k]
                 IN d # BadLine => Dropped(d) \/ Chosen(d.izim, d.cons)

(***************************************************************************)
(* If the registry stood still, each package is pinned at the highest      *)
(* release, not yanked, that meets everything recorded against it: the     *)
(* last constraint to arrive has been seen by the last pick.               *)
(***************************************************************************)
Admissible(r, cs) == r.usable /\ ~r.kaldy /\ \A c \in cs : constraint_match(c, r.ver)

AgainstIt(n) == {cons_of[n][k] : k \in DOMAIN cons_of[n]}

HighestChosen ==
  pc = "done" /\ churn = 0
    => \A n \in InUse :
         /\ Admissible(pin[n], AgainstIt(n))
         /\ \A r \in DOMAIN catalog[n] :
              Admissible(catalog[n][r], AgainstIt(n))
                => waktanimra_cmp(catalog[n][r].ver, pin[n].ver) <= 0

(***************************************************************************)
(* The pass budget is never what stops a resolution: a set that can settle *)
(* settles first.  "could not settle" would otherwise be reported for a    *)
(* graph that merely needed one more pass.                                 *)
(***************************************************************************)
BudgetSuffices == err # "unsettled"

(***************************************************************************)
(* While the registry stands still a package is only ever re-pinned        *)
(* downwards.  This is why the passes end: a pick that could rise again    *)
(* could alternate with another one for ever.                              *)
(***************************************************************************)
RepicksGoDown ==
  [][\A n \in Names :
       churn' = 0 /\ pin[n] # NoPin /\ pin'[n] # pin[n]
         => waktanimra_cmp(pin'[n].ver, pin[n].ver) < 0]_vars

(***************************************************************************)
(* Every resolution ends, with an answer or an error, however the registry *)
(* changes under it.                                                       *)
(***************************************************************************)
Terminates == <>(pc \in {"done", "failed"})

(***************************************************************************)
(* Where the fixed tables are large enough not to fill, the whole of       *)
(* resolve_local is one step of VersionSet: nothing is answered before the *)
(* set is closed, and nothing is taken back afterwards.                    *)
(***************************************************************************)
Promise == INSTANCE VersionSet WITH
  Records <- Record,
  outcome <- CASE pc = "done" -> "answered" [] pc = "failed" -> "refused"
               [] OTHER -> "pending",
  chosen <- IF pc = "done" THEN pin ELSE [n \in Names |-> NoPin]

AnswersOnce == Promise!Spec
=============================================================================
