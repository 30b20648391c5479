--------------------------- MODULE ResolverProofs ---------------------------
(***************************************************************************)
(* Proofs about Resolver, for every catalog, every set of names, every     *)
(* size of the tables and any number of registry changes.                  *)
(***************************************************************************)
EXTENDS Resolver, WaktanimraProofs, SequenceTheorems, FiniteSetTheorems, TLAPS

(***************************************************************************)
(* The inductive invariant behind DependenciesHonoured.  Only a package    *)
(* with a slot has constraints recorded.  Every slot is dirty or has a pin *)
(* that meets all of its constraints; every dependency of a pin is         *)
(* recorded, dropped, or still ahead of the scan of the release just       *)
(* picked; and a pass that has visited nothing so far has only met clean   *)
(* slots.                                                                  *)
(***************************************************************************)
Slotted ==
  /\ Root \in InUse /\ \E k \in DOMAIN cons_of[Root] : cons_of[Root][k] = RootCons
  /\ \A n \in Names \ InUse : cons_of[n] = <<>>

CleanIsChosen ==
  \A n \in InUse \ dirty :
    /\ pin[n] # NoPin
    /\ \A k \in DOMAIN cons_of[n] : constraint_match(cons_of[n][k], pin[n].ver)

Held(d) == (d.izim \in InUse /\ Recorded(d)) \/ Dropped(d)

Ahead(n, k) == pc = "widen" /\ n = names[i] /\ it <= k

NeedsHeld ==
  \A n \in Names : pin[n] # NoPin =>
    \A k \in DOMAIN pin[n].cizujo :
      pin[n].cizujo[k] # BadLine => Held(pin[n].cizujo[k]) \/ Ahead(n, k)

QuietSoFar ==
  /\ pc = "visit" => i >= 1
  /\ pc = "visit" /\ ~changed => \A k \in 1..(i-1) : k <= Len(names) => names[k] \notin dirty
  /\ pc = "widen" => changed /\ i \in DOMAIN names /\ pin[names[i]] # NoPin /\ it >= 1
  /\ pc = "pass" /\ ~changed => InUse \cap dirty = {}
  /\ pc = "done" => InUse \cap dirty = {}

ResolverInv ==
  TypeOK /\ Slotted /\ CleanIsChosen /\ NeedsHeld /\ QuietSoFar

-----------------------------------------------------------------------------
(* The steps of TypeOK, one per action. *)

\* A worklist step leaves every variable in its type and both tables in bounds.
LEMMA TypeStep == TypeOK /\ QuietSoFar /\ [Next]_vars => TypeOK'
<1> SUFFICES ASSUME TypeOK, QuietSoFar, [Next]_vars PROVE TypeOK'
  OBVIOUS
<1> USE ResolverAssumption
<1>1. CASE StartPass
  <2>1. changed' \in BOOLEAN
    BY <1>1 DEF StartPass
  <2> QED
    BY <1>1, <2>1 DEF StartPass, TypeOK, registry, answer
<1>2. CASE GiveUp \/ RequestFails \/ NoRelease
  BY <1>2 DEF GiveUp, RequestFails, NoRelease, Fail, TypeOK, registry, answer
<1>3. CASE Settle \/ EndPass
  BY <1>3 DEF Settle, EndPass, TypeOK, registry, answer
<1>4. CASE SkipClean \/ EndVisit
  BY <1>4 DEF SkipClean, EndVisit, TypeOK, registry, answer
<1>5. CASE Pick
  <2>1. PICK r \in DOMAIN catalog[names[i]] :
          pin' = [pin EXCEPT ![names[i]] = catalog[names[i]][r]]
    BY <1>5 DEF Pick
  <2>2. names[i] \in Names
    BY <1>5 DEF Pick, Visiting, TypeOK, QuietSoFar
  <2>3. catalog[names[i]][r] \in Record
    BY <2>1, <2>2 DEF TypeOK
  <2>4. pin' \in [Names -> Record \cup {NoPin}]
    BY <2>1, <2>2, <2>3 DEF TypeOK
  <2> QED
    BY <1>5, <2>4 DEF Pick, TypeOK, registry
<1>6. CASE AddLine
  <2> DEFINE d == Lines[it]
  <2>1. names[i] \in Names /\ pin[names[i]] \in Record
    BY <1>6 DEF AddLine, TypeOK, QuietSoFar
  <2>2. Lines \in Seq(Dep \cup {BadLine})
    BY <2>1 DEF Lines, Record
  <2>3. it \in DOMAIN Lines
    BY <1>6, <2>2 DEF AddLine, TypeOK, QuietSoFar
  <2>4. CASE d = BadLine \/ Skipped(d)
    BY <1>6, <2>4 DEF AddLine, TypeOK, registry, answer
  <2>5. CASE ~(d = BadLine \/ Skipped(d))
    <3>1. d \in Dep
      BY <2>2, <2>3, <2>5
    <3>2. d.izim \in Names /\ d.cons \in Constraint
      BY <3>1 DEF Dep
    <3>3. /\ names' = IF d.izim \in InUse THEN names ELSE Append(names, d.izim)
          /\ cons_of' = [cons_of EXCEPT ![d.izim] = Append(cons_of[d.izim], d.cons)]
          /\ dirty' = dirty \cup {d.izim}
          /\ pin' = pin
      BY <1>6, <2>5 DEF AddLine, Requeue
    <3>4. d.izim \in InUse \/ Len(names) < PkgMax
      BY <2>5 DEF Skipped, NoSlot, TypeOK
    <3>5. names' \in Seq(Names) /\ Len(names') <= PkgMax
      BY <3>2, <3>3, <3>4 DEF TypeOK
    <3>6. Len(cons_of[d.izim]) < ConsMax
      BY <2>5, <3>2 DEF Skipped, TypeOK
    <3>7. Append(cons_of[d.izim], d.cons) \in Seq(Constraint)
          /\ Len(Append(cons_of[d.izim], d.cons)) <= ConsMax
      BY <3>2, <3>6 DEF TypeOK
    <3>8. /\ cons_of' \in [Names -> Seq(Constraint)]
          /\ \A n \in Names : Len(cons_of'[n]) <= ConsMax
      BY <3>2, <3>3, <3>7 DEF TypeOK
    <3> HIDE DEF d
    <3> QED
      BY <1>6, <3>2, <3>3, <3>5, <3>8 DEF AddLine, TypeOK, registry
  <2> QED
    BY <2>4, <2>5
<1>7. CASE Others
  <2>1. CASE Publish
    <3>1. PICK x \in Uploads : catalog' = [catalog EXCEPT ![x.izim] = Append(catalog[x.izim], x.rec)]
      BY <2>1 DEF Publish
    <3>2. x.izim \in Names /\ x.rec \in Record
      OBVIOUS
    <3>3. Append(catalog[x.izim], x.rec) \in Seq(Record)
      BY <3>2 DEF TypeOK
    <3>4. catalog' \in [Names -> Seq(Record)]
      BY <3>1, <3>2, <3>3 DEF TypeOK
    <3> QED
      BY <2>1, <3>4 DEF Publish, TypeOK, answer
  <2>2. CASE Yank
    <3>1. PICK n \in Names : \E r \in DOMAIN catalog[n] :
            catalog' = [catalog EXCEPT ![n][r].kaldy = TRUE]
      BY <2>2 DEF Yank
    <3>2. PICK r \in DOMAIN catalog[n] : catalog' = [catalog EXCEPT ![n][r].kaldy = TRUE]
      BY <3>1
    <3>3. [catalog[n][r] EXCEPT !.kaldy = TRUE] \in Record
      <4>1. catalog[n][r] \in Record
        BY <3>2 DEF TypeOK
      <4> QED
        BY <4>1 DEF Record
    <3>4. [catalog[n] EXCEPT ![r] = [catalog[n][r] EXCEPT !.kaldy = TRUE]] \in Seq(Record)
      <4>1. catalog[n] \in Seq(Record) /\ r \in 1..Len(catalog[n])
        BY <3>2 DEF TypeOK
      <4> QED
        BY <4>1, <3>3, ExceptSeq
    <3>5. catalog' \in [Names -> Seq(Record)]
      BY <3>2, <3>4 DEF TypeOK
    <3>6. churn' = churn + 1 /\ churn < MaxChurn
      BY <2>2 DEF Yank
    <3>7. UNCHANGED <<answer, i, it, changed, budget, pc, err>>
      BY <2>2 DEF Yank
    <3>8. churn' \in 0..MaxChurn
      BY <3>6 DEF TypeOK
    <3> QED
      BY <3>5, <3>7, <3>8 DEF TypeOK, answer
  <2> QED
    BY <1>7, <2>1, <2>2 DEF Others
<1>8. CASE Returned \/ UNCHANGED vars
  BY <1>8 DEF Returned, TypeOK, vars, registry, answer
<1> QED
  BY <1>1, <1>2, <1>3, <1>4, <1>5, <1>6, <1>7, <1>8 DEF Next, Client

-----------------------------------------------------------------------------
(* The steps of the invariant. *)

\* What a record keeps from step to step, when pins and constraints stand still.
LEMMA AnswerStands ==
  ASSUME ResolverInv, UNCHANGED answer
  PROVE  /\ Slotted' /\ CleanIsChosen' /\ InUse' = InUse
         /\ \A d \in Dep : Held(d)' <=> Held(d)
  BY DEF ResolverInv, Slotted, CleanIsChosen, InUse, answer, Held, Recorded,
         Dropped, NoSlot

\* Steps that only move the control, none of them out of the scan of a release.
LEMMA ControlStep ==
  ASSUME ResolverInv, StartPass \/ GiveUp \/ Settle \/ EndPass \/ SkipClean
                        \/ RequestFails \/ NoRelease
  PROVE  Slotted' /\ CleanIsChosen' /\ NeedsHeld' /\ QuietSoFar'
<1>1. UNCHANGED answer /\ pc # "widen" /\ pc' # "widen"
  BY DEF StartPass, GiveUp, Settle, EndPass, SkipClean, RequestFails, NoRelease,
         Visiting, Fail
<1>2. Slotted' /\ CleanIsChosen' /\ InUse' = InUse
  BY <1>1, AnswerStands
<1>3. NeedsHeld'
  <2> SUFFICES ASSUME NEW m \in Names, (pin[m] # NoPin)', NEW k \in (DOMAIN pin[m].cizujo)',
                      (pin[m].cizujo[k] # BadLine)'
               PROVE  Held(pin[m].cizujo[k])'
    BY DEF NeedsHeld
  <2>1. Held(pin[m].cizujo[k])
    BY <1>1 DEF ResolverInv, NeedsHeld, Ahead, answer
  <2> QED
    BY <2>1, <1>1, <1>2 DEF Held, Recorded, Dropped, NoSlot, answer
<1>4. QuietSoFar'
  <2>1. CASE StartPass
    BY <2>1, <1>1 DEF StartPass, QuietSoFar, answer
  <2>2. CASE GiveUp \/ RequestFails \/ NoRelease
    BY <2>2, <1>1 DEF GiveUp, RequestFails, NoRelease, Fail, QuietSoFar
  <2>3. CASE Settle
    BY <2>3, <1>1, <1>2 DEF Settle, ResolverInv, QuietSoFar, answer
  <2>4. CASE EndPass
    <3>1. ~changed => InUse \cap dirty = {}
      <4> SUFFICES ASSUME ~changed, NEW k \in DOMAIN names PROVE names[k] \notin dirty
        BY DEF InUse
      <4>1. k \in 1..(i-1) /\ k <= Len(names)
        BY <2>4 DEF EndPass, ResolverInv, TypeOK
      <4> QED
        BY <2>4, <4>1 DEF EndPass, ResolverInv, QuietSoFar
    <3> QED
      BY <2>4, <3>1, <1>1, <1>2 DEF EndPass, QuietSoFar, answer
  <2>5. CASE SkipClean
    <3>1. i' >= 1
      BY <2>5 DEF SkipClean, ResolverInv, QuietSoFar, TypeOK
    <3>2. ASSUME ~changed', NEW k \in 1..(i'-1), k <= Len(names') PROVE names'[k] \notin dirty'
      <4>1. k = i \/ k \in 1..(i-1)
        BY <3>2, <2>5 DEF SkipClean, ResolverInv, TypeOK
      <4> QED
        BY <4>1, <3>2, <2>5 DEF SkipClean, ResolverInv, QuietSoFar, answer
    <3> QED
      BY <2>5, <3>1, <3>2 DEF SkipClean, QuietSoFar
  <2> QED
    BY <2>1, <2>2, <2>3, <2>4, <2>5
<1> QED
  BY <1>2, <1>3, <1>4

\* A pick meets every constraint its package has, and its needs are all ahead.
LEMMA PickStep ==
  ASSUME ResolverInv, Pick
  PROVE  Slotted' /\ CleanIsChosen' /\ NeedsHeld' /\ QuietSoFar'
<1> DEFINE n == names[i]
<1>1. PICK r \in DOMAIN catalog[n] :
        Best(n, r) /\ pin' = [pin EXCEPT ![n] = catalog[n][r]]
  BY DEF Pick
<1>2. /\ names' = names /\ cons_of' = cons_of /\ dirty' = dirty \ {n}
      /\ i' = i /\ it' = 1 /\ pc' = "widen" /\ changed' = TRUE
  BY DEF Pick
<1>3. /\ n \in Names /\ i \in DOMAIN names /\ InUse' = InUse /\ InUse \subseteq Names
  BY <1>2 DEF Pick, Visiting, ResolverInv, TypeOK, QuietSoFar, InUse
<1>4. catalog[n][r] \in Record
  BY <1>1, <1>3 DEF ResolverInv, TypeOK
<1>5. catalog[n][r] # NoPin
  BY <1>4, ResolverAssumption
<1>6. \A k \in DOMAIN cons_of[n] : constraint_match(cons_of[n][k], catalog[n][r].ver)
  BY <1>1 DEF Best, Candidates
<1>7. \A m \in Names : pin'[m] = IF m = n THEN catalog[n][r] ELSE pin[m]
  BY <1>1, <1>3 DEF ResolverInv, TypeOK
<1> HIDE DEF n
<1>8. Slotted'
  BY <1>2, <1>3 DEF ResolverInv, Slotted
<1>9. CleanIsChosen'
  BY <1>2, <1>3, <1>5, <1>6, <1>7 DEF ResolverInv, CleanIsChosen
<1>10. NeedsHeld'
  <2> SUFFICES ASSUME NEW m \in Names, (pin[m] # NoPin)', NEW k \in (DOMAIN pin[m].cizujo)',
                      (pin[m].cizujo[k] # BadLine)'
               PROVE  Held(pin[m].cizujo[k])' \/ Ahead(m, k)'
    BY DEF NeedsHeld
  <2>1. CASE m = n
    <3>1. k >= 1
      BY <2>1, <1>4, <1>7 DEF Record
    <3> QED
      BY <2>1, <3>1, <1>2 DEF Ahead, n
  <2>2. CASE m # n
    <3>1. pin'[m] = pin[m]
      BY <2>2, <1>7
    <3>2. Held(pin[m].cizujo[k])
      BY <3>1, <2>2 DEF ResolverInv, NeedsHeld, Ahead, Pick, Visiting
    <3> QED
      BY <3>1, <3>2, <1>2, <1>3 DEF Held, Recorded, Dropped, NoSlot
  <2> QED
    BY <2>1, <2>2
<1>11. QuietSoFar'
  BY <1>2, <1>3, <1>5, <1>7 DEF QuietSoFar, n
<1> QED
  BY <1>8, <1>9, <1>10, <1>11

\* A line of the scan is held once it is passed; what was held before still is.
LEMMA AddLineStep ==
  ASSUME ResolverInv, AddLine
  PROVE  Slotted' /\ CleanIsChosen' /\ NeedsHeld' /\ QuietSoFar'
<1>0. PICK d : d = Lines[it]
  OBVIOUS
<1>1. /\ pc = "widen" /\ pc' = "widen" /\ it' = it + 1 /\ i' = i /\ changed' = changed
      /\ pin' = pin
  BY DEF AddLine, answer
<1>2. /\ i \in DOMAIN names /\ names[i] \in Names /\ pin[names[i]] # NoPin /\ changed
      /\ it \in Nat /\ it >= 1
  BY <1>1 DEF ResolverInv, QuietSoFar, TypeOK
<1>3. \A m \in Names : pin[m] # NoPin => \A k \in DOMAIN pin[m].cizujo :
        k \in Nat /\ pin[m].cizujo[k] \in Dep \cup {BadLine}
  BY DEF ResolverInv, TypeOK, Record
<1>4. CASE d = BadLine \/ Skipped(d)
  <2>1. UNCHANGED answer
    BY <1>0, <1>4 DEF AddLine
  <2>2. Slotted' /\ CleanIsChosen' /\ InUse' = InUse
    BY <2>1, AnswerStands
  <2>3. d # BadLine /\ d \in Dep => Held(d)
    BY <1>4 DEF Skipped, Held, Dropped, NoSlot, Recorded, ResolverInv, Slotted, Dep, TypeOK
  <2>4. NeedsHeld'
    <3> SUFFICES ASSUME NEW m \in Names, (pin[m] # NoPin)', NEW k \in (DOMAIN pin[m].cizujo)',
                        (pin[m].cizujo[k] # BadLine)'
                 PROVE  Held(pin[m].cizujo[k])' \/ Ahead(m, k)'
      BY DEF NeedsHeld
    <3>1. pin[m] # NoPin /\ k \in DOMAIN pin[m].cizujo /\ pin[m].cizujo[k] # BadLine
      BY <1>1
    <3>2. Held(pin[m].cizujo[k]) \/ Ahead(m, k)
      BY <3>1 DEF ResolverInv, NeedsHeld
    <3>3. k \in Nat /\ pin[m].cizujo[k] \in Dep
      BY <1>3, <3>1
    <3>4. CASE Held(pin[m].cizujo[k])
      BY <3>4, <3>3, <2>1, <2>2, <1>1 DEF Held, Recorded, Dropped, NoSlot, answer
    <3>5. CASE Ahead(m, k) /\ k = it
      <4>1. pin[m].cizujo[k] = d
        BY <1>0, <3>5 DEF Ahead, Lines
      <4> QED
        BY <4>1, <3>1, <3>3, <2>3, <2>1, <2>2, <1>1 DEF Held, Recorded, Dropped, NoSlot, answer
    <3>6. CASE Ahead(m, k) /\ k # it
      BY <3>6, <3>3, <1>1, <1>2, <2>1 DEF Ahead, answer
    <3> QED
      BY <3>2, <3>4, <3>5, <3>6
  <2>5. QuietSoFar'
    BY <1>1, <1>2, <2>1 DEF QuietSoFar, answer
  <2> QED
    BY <2>2, <2>4, <2>5
<1>5. CASE ~(d = BadLine \/ Skipped(d))
  <2>1. /\ names' = IF d.izim \in InUse THEN names ELSE Append(names, d.izim)
        /\ cons_of' = [cons_of EXCEPT ![d.izim] = Append(cons_of[d.izim], d.cons)]
        /\ dirty' = dirty \cup {d.izim}
    BY <1>0, <1>5 DEF AddLine, Requeue
  <2>2. it \in DOMAIN pin[names[i]].cizujo
    BY <1>2 DEF AddLine, Lines, ResolverInv, TypeOK, Record
  <2>3. d \in Dep /\ d.izim \in Names /\ d.cons \in Constraint
    <3>1. d \in Dep
      BY <1>0, <1>2, <1>3, <1>5, <2>2 DEF Lines
    <3> QED
      BY <3>1 DEF Dep
  <2>4. /\ ~NoSlot(d) /\ Len(cons_of[d.izim]) < ConsMax
    BY <1>5, <2>3, ResolverAssumption DEF Skipped, ResolverInv, TypeOK
  <2>5. InUse' = InUse \cup {d.izim}
    <3>1. CASE d.izim \in InUse
      BY <3>1, <2>1 DEF InUse
    <3>2. CASE d.izim \notin InUse
      <4>1. names' = Append(names, d.izim) /\ names \in Seq(Names) /\ d.izim \in Names
        BY <3>2, <2>1, <2>3 DEF ResolverInv, TypeOK
      <4>2. /\ Len(names') = Len(names) + 1 /\ names'[Len(names) + 1] = d.izim
            /\ DOMAIN names = 1..Len(names) /\ DOMAIN names' = 1..(Len(names) + 1)
            /\ Len(names) \in Nat
            /\ \A k \in 1..Len(names) : names'[k] = names[k]
        BY <4>1
      <4>3. DOMAIN names' = DOMAIN names \cup {Len(names) + 1}
        BY <4>2
      <4>4. names'[Len(names) + 1] = d.izim /\ \A k \in DOMAIN names : names'[k] = names[k]
        BY <4>2
      <4>5. ASSUME NEW s1, NEW s2, NEW x, NEW l,
                   DOMAIN s2 = DOMAIN s1 \cup {l}, s2[l] = x,
                   \A k \in DOMAIN s1 : s2[k] = s1[k]
            PROVE  {s2[k] : k \in DOMAIN s2} = {s1[k] : k \in DOMAIN s1} \cup {x}
        BY <4>5
      <4> QED
        BY <4>3, <4>4, <4>5 DEF InUse
    <3> QED
      BY <3>1, <3>2
  <2>6. /\ \A n \in Names \ {d.izim} : cons_of'[n] = cons_of[n]
        /\ cons_of'[d.izim] = Append(cons_of[d.izim], d.cons)
    BY <2>1, <2>3 DEF ResolverInv, TypeOK
  <2>7. \A n \in Names : \A k \in DOMAIN cons_of[n] :
          k \in DOMAIN cons_of'[n] /\ cons_of'[n][k] = cons_of[n][k]
    <3> SUFFICES ASSUME NEW n \in Names, NEW k \in DOMAIN cons_of[n]
                 PROVE  k \in DOMAIN cons_of'[n] /\ cons_of'[n][k] = cons_of[n][k]
      OBVIOUS
    <3>1. CASE n # d.izim
      BY <3>1, <2>6
    <3>2. CASE n = d.izim
      <4>1. cons_of[n] \in Seq(Constraint) /\ cons_of'[n] = Append(cons_of[n], d.cons)
        BY <3>2, <2>6 DEF ResolverInv, TypeOK
      <4> QED
        BY <4>1, <2>3
    <3> QED
      BY <3>1, <3>2
  <2>8. Slotted'
    BY <2>3, <2>5, <2>6, <2>7, ResolverAssumption DEF ResolverInv, Slotted
  <2>9. CleanIsChosen'
    <3> SUFFICES ASSUME NEW n \in InUse' \ dirty'
                 PROVE  /\ pin'[n] # NoPin
                        /\ \A k \in DOMAIN cons_of'[n] :
                             constraint_match(cons_of'[n][k], pin'[n].ver)
      BY DEF CleanIsChosen
    <3>1. n \in InUse \ dirty /\ n # d.izim /\ n \in Names
      BY <2>1, <2>5, <2>3 DEF InUse, ResolverInv, TypeOK
    <3>2. cons_of'[n] = cons_of[n] /\ pin'[n] = pin[n]
      BY <3>1, <2>6, <1>1
    <3> QED
      BY <3>1, <3>2 DEF ResolverInv, CleanIsChosen
  <2>10. Held(d)'
    <3>1. /\ Len(cons_of[d.izim]) + 1 \in DOMAIN cons_of'[d.izim]
          /\ cons_of'[d.izim][Len(cons_of[d.izim]) + 1] = d.cons
      BY <2>3, <2>6 DEF ResolverInv, TypeOK
    <3> QED
      BY <3>1, <2>5 DEF Held, Recorded
  <2>11. \A e \in Dep : Held(e) => Held(e)'
    <3> SUFFICES ASSUME NEW e \in Dep, Held(e) PROVE Held(e)'
      OBVIOUS
    <3>0. e.izim \in Names
      BY DEF Dep
    <3>1. CASE e.izim \in InUse /\ Recorded(e)
      BY <3>0, <3>1, <2>5, <2>7 DEF Held, Recorded
    <3>2. CASE Dropped(e)
      <4>1. e.izim # d.izim
        BY <3>2, <2>3, <2>4, ResolverAssumption DEF Dropped, NoSlot, ResolverInv, TypeOK
      <4>2. cons_of'[e.izim] = cons_of[e.izim]
        BY <4>1, <3>0, <2>6
      <4>3. NoSlot(e) => NoSlot(e)'
        BY <4>1, <2>1, <2>4, <2>5 DEF NoSlot
      <4> QED
        BY <4>2, <4>3, <3>2 DEF Held, Dropped, Recorded
    <3> QED
      BY <3>1, <3>2 DEF Held
  <2>12. i \in DOMAIN names' /\ names'[i] = names[i]
    BY <1>2, <2>1, <2>3 DEF ResolverInv, TypeOK
  <2>13. NeedsHeld'
    <3> SUFFICES ASSUME NEW m \in Names, (pin[m] # NoPin)', NEW k \in (DOMAIN pin[m].cizujo)',
                        (pin[m].cizujo[k] # BadLine)'
                 PROVE  Held(pin[m].cizujo[k])' \/ Ahead(m, k)'
      BY DEF NeedsHeld
    <3>1. pin[m] # NoPin /\ k \in DOMAIN pin[m].cizujo /\ pin[m].cizujo[k] # BadLine
      BY <1>1
    <3>2. Held(pin[m].cizujo[k]) \/ Ahead(m, k)
      BY <3>1 DEF ResolverInv, NeedsHeld
    <3>3. k \in Nat /\ pin[m].cizujo[k] \in Dep
      BY <1>3, <3>1
    <3>4. pin'[m].cizujo[k] = pin[m].cizujo[k]
      BY <1>1
    <3>5. CASE Held(pin[m].cizujo[k])
      <4>1. (Held(pin[m].cizujo[k]))'
        <5> DEFINE e == pin[m].cizujo[k]
        <5>1. \E f \in Dep : f = e /\ Held(f)'
          BY <3>3, <3>5, <2>11
        <5> QED
          BY <5>1, <1>1 DEF Held, Recorded, Dropped, NoSlot
      <4> QED
        BY <4>1
    <3>6. CASE Ahead(m, k) /\ k = it
      <4>1. pin[m].cizujo[k] = d
        BY <1>0, <3>6 DEF Ahead, Lines
      <4> QED
        BY <4>1, <2>10, <1>1 DEF Held, Recorded, Dropped, NoSlot
    <3>7. CASE Ahead(m, k) /\ k # it
      BY <3>7, <3>3, <1>1, <1>2, <2>12 DEF Ahead
    <3> QED
      BY <3>2, <3>5, <3>6, <3>7
  <2>14. QuietSoFar'
    BY <1>1, <1>2, <2>12 DEF QuietSoFar
  <2> QED
    BY <2>8, <2>9, <2>13, <2>14
<1> QED
  BY <1>4, <1>5

\* At the end of a visit nothing of the release is ahead any more: all is held.
LEMMA EndVisitStep ==
  ASSUME ResolverInv, EndVisit
  PROVE  Slotted' /\ CleanIsChosen' /\ NeedsHeld' /\ QuietSoFar'
<1>1. /\ UNCHANGED answer /\ pc = "widen" /\ pc' = "visit" /\ i' = i + 1
      /\ changed' = changed /\ it > Len(Lines)
  BY DEF EndVisit
<1>2. Slotted' /\ CleanIsChosen' /\ InUse' = InUse
  BY <1>1, AnswerStands
<1>3. NeedsHeld'
  <2> SUFFICES ASSUME NEW m \in Names, (pin[m] # NoPin)', NEW k \in (DOMAIN pin[m].cizujo)',
                      (pin[m].cizujo[k] # BadLine)'
               PROVE  Held(pin[m].cizujo[k])'
    BY DEF NeedsHeld
  <2>1. pin[m] # NoPin /\ k \in DOMAIN pin[m].cizujo /\ pin[m].cizujo[k] # BadLine
    BY <1>1 DEF answer
  <2>2. pin[m].cizujo \in Seq(Dep \cup {BadLine})
    BY <2>1 DEF ResolverInv, TypeOK, Record
  <2>3. ~Ahead(m, k)
    BY <1>1, <2>1, <2>2 DEF Ahead, Lines, ResolverInv, TypeOK
  <2>4. Held(pin[m].cizujo[k])
    BY <2>1, <2>3 DEF ResolverInv, NeedsHeld
  <2> QED
    BY <2>4, <1>1, <1>2 DEF Held, Recorded, Dropped, NoSlot, answer
<1>4. QuietSoFar'
  BY <1>1 DEF ResolverInv, QuietSoFar, TypeOK
<1> QED
  BY <1>2, <1>3, <1>4

\* Other clients change the registry only, never what this one holds.
LEMMA OthersStep ==
  ASSUME ResolverInv, Others \/ Returned \/ UNCHANGED vars
  PROVE  Slotted' /\ CleanIsChosen' /\ NeedsHeld' /\ QuietSoFar'
<1>1. UNCHANGED <<answer, i, it, changed, pc>>
  BY DEF Others, Publish, Yank, Returned, vars
<1>2. Slotted' /\ CleanIsChosen' /\ InUse' = InUse
  BY <1>1, AnswerStands
<1>3. NeedsHeld'
  BY <1>1, <1>2 DEF ResolverInv, NeedsHeld, Held, Recorded, Dropped, NoSlot, Ahead, answer
<1>4. QuietSoFar'
  BY <1>1, <1>2 DEF ResolverInv, QuietSoFar, answer
<1> QED
  BY <1>2, <1>3, <1>4

-----------------------------------------------------------------------------
(* The invariant, and what it gives. *)

\* One slot, the root's, dirty, with the constraint the user gave.
LEMMA InitInv == Init => ResolverInv
<1> SUFFICES ASSUME Init PROVE ResolverInv
  OBVIOUS
<1> USE ResolverAssumption
<1>1. InUse = {Root} /\ Len(names) = 1 /\ names \in Seq(Names)
  BY DEF Init, InUse
<1>2. cons_of \in [Names -> Seq(Constraint)] /\ \A n \in Names : Len(cons_of[n]) <= ConsMax
  BY DEF Init
<1>3. TypeOK
  BY <1>1, <1>2 DEF Init, TypeOK
<1>4. Slotted
  <2>1. cons_of[Root] = <<RootCons>>
    BY DEF Init
  <2> QED
    BY <1>1, <2>1 DEF Slotted, Init
<1>5. CleanIsChosen /\ QuietSoFar
  BY <1>1 DEF CleanIsChosen, QuietSoFar, Init
<1>6. NeedsHeld
  BY DEF NeedsHeld, Init
<1> QED
  BY <1>3, <1>4, <1>5, <1>6 DEF ResolverInv

\* Every step of resolve_local, and of the registry under it, keeps the invariant.
LEMMA StepInv == ResolverInv /\ [Next]_vars => ResolverInv'
<1> SUFFICES ASSUME ResolverInv, [Next]_vars PROVE ResolverInv'
  OBVIOUS
<1>1. TypeOK'
  BY TypeStep DEF ResolverInv
<1>2. Slotted' /\ CleanIsChosen' /\ NeedsHeld' /\ QuietSoFar'
  BY ControlStep, PickStep, AddLineStep, EndVisitStep, OthersStep DEF Next, Client
<1> QED
  BY <1>1, <1>2 DEF ResolverInv

\* A finished worklist has no dirty slot, and what is held there is chosen.
LEMMA InvHonoured == ResolverInv => DependenciesHonoured
<1> SUFFICES ASSUME ResolverInv, pc = "done" PROVE DependenciesHonoured
  BY DEF DependenciesHonoured
<1>1. \A n \in InUse : n \in Names /\ n \notin dirty
  BY DEF ResolverInv, QuietSoFar, TypeOK, InUse
<1>2. Chosen(Root, RootCons)
  BY <1>1 DEF ResolverInv, Slotted, CleanIsChosen, Chosen
<1>3. ASSUME NEW n \in InUse, NEW k \in DOMAIN pin[n].cizujo, pin[n].cizujo[k] # BadLine
      PROVE  Dropped(pin[n].cizujo[k])
               \/ Chosen(pin[n].cizujo[k].izim, pin[n].cizujo[k].cons)
  <2>1. pin[n] # NoPin
    BY <1>1 DEF ResolverInv, CleanIsChosen
  <2>2. Held(pin[n].cizujo[k])
    BY <1>1, <1>3, <2>1 DEF ResolverInv, NeedsHeld, Ahead
  <2> QED
    BY <1>1, <2>2 DEF Held, Recorded, ResolverInv, CleanIsChosen, Chosen
<1>4. \A n \in InUse : pin[n] # NoPin
  BY <1>1 DEF ResolverInv, CleanIsChosen
<1> QED
  BY <1>2, <1>3, <1>4 DEF DependenciesHonoured

\* The invariant holds in every state of every resolution.
LEMMA InvHolds == Spec => []ResolverInv
  BY InitInv, StepInv, PTL DEF Spec

(***************************************************************************)
(* Whatever the catalog and however the dependencies fan out, names[] and  *)
(* cons_of[][8] are never written past their ends, and every variable      *)
(* keeps its type.                                                         *)
(***************************************************************************)
THEOREM TypeCorrect == Spec => []TypeOK
<1>1. ResolverInv => TypeOK
  BY DEF ResolverInv
<1> QED
  BY <1>1, InvHolds, PTL

(***************************************************************************)
(* resolve_local answers with a closed, consistent set for any catalog,    *)
(* any number of packages, tables of any size and any amount of publishing *)
(* and yanking while it runs: each dependency of each pin is met by the    *)
(* pin it names, unless its line was dropped at a full table.              *)
(***************************************************************************)
THEOREM Honoured == Spec => []DependenciesHonoured
  BY InvHolds, InvHonoured, PTL

-----------------------------------------------------------------------------

(***************************************************************************)
(* The second invariant, behind HighestChosen and RepicksGoDown: while the *)
(* registry stands still, a pin is one of its releases, and the best of    *)
(* those that meet all that is recorded against the package by now.  Later *)
(* constraints only take candidates away.                                  *)
(***************************************************************************)
BestLeft(n, r) ==
  /\ pin[n] = catalog[n][r] /\ catalog[n][r].usable /\ ~catalog[n][r].kaldy
  /\ \A s \in Candidates(n) :
       LET o == waktanimra_cmp(catalog[n][s].ver, catalog[n][r].ver)
       IN o < 0 \/ (o = 0 /\ r <= s)

PinBest ==
  churn = 0 =>
    \A n \in Names : pin[n] # NoPin => \E r \in DOMAIN catalog[n] : BestLeft(n, r)

\* Versions that compare as equal meet the same constraints.
LEMMA EqualMatch ==
  ASSUME NEW v \in Version, NEW w \in Version, waktanimra_cmp(v, w) = 0,
         NEW c \in Constraint, constraint_match(c, v)
  PROVE  constraint_match(c, w)
<1>1. v.major = w.major /\ v.minor = w.minor /\ v.patch = w.patch
  BY DEF waktanimra_cmp, sign, Version
<1>2. has_tag(v) = has_tag(w)
  BY <1>1 DEF waktanimra_cmp, cmp_tagged
<1>3. tag_opted_in(c, w)
  BY <1>1, <1>2 DEF constraint_match, tag_opted_in, triple
<1>4. waktanimra_cmp(w, v) = 0
  BY CmpNegates, CmpRange
<1>5. c.base \in Version /\ caret_upper(c.base) \in Version
  <2>1. c.base \in Version
    BY DEF Constraint
  <2>2. ASSUME NEW x \in Nat, NEW y \in Nat, NEW z \in Nat
        PROVE  release(x, y, z) \in Version
    <3>1. <<>> \in Tag
      BY DEF Tag
    <3> QED
      BY <3>1 DEF release, Version
  <2>3. c.base.major \in Nat /\ c.base.minor \in Nat /\ c.base.patch \in Nat
    BY <2>1 DEF Version
  <2>4. c.base.major + 1 \in Nat /\ c.base.minor + 1 \in Nat /\ c.base.patch + 1 \in Nat
    BY <2>3
  <2> QED
    BY <2>1, <2>2, <2>4 DEF caret_upper
<1>6. ASSUME NEW b \in Version
      PROVE  /\ waktanimra_cmp(v, b) >= 0 => waktanimra_cmp(w, b) >= 0
             /\ waktanimra_cmp(v, b) <= 0 => waktanimra_cmp(w, b) <= 0
             /\ waktanimra_cmp(w, b) >= 0 => waktanimra_cmp(v, b) >= 0
  <2>1. /\ waktanimra_cmp(v, b) = -waktanimra_cmp(b, v)
        /\ waktanimra_cmp(w, b) = -waktanimra_cmp(b, w)
        /\ waktanimra_cmp(v, b) \in Int /\ waktanimra_cmp(w, b) \in Int
        /\ waktanimra_cmp(b, v) \in Int /\ waktanimra_cmp(b, w) \in Int
    BY CmpNegates, CmpRange
  <2>2. waktanimra_cmp(b, v) <= 0 => waktanimra_cmp(b, w) <= 0
    BY CmpTransitive
  <2>3. waktanimra_cmp(v, b) <= 0 => waktanimra_cmp(w, b) <= 0
    BY <1>4, CmpTransitive
  <2>4. waktanimra_cmp(b, w) <= 0 => waktanimra_cmp(b, v) <= 0
    BY <1>4, CmpTransitive
  <2> QED
    BY <2>1, <2>2, <2>3, <2>4
<1>7. /\ waktanimra_cmp(v, c.base) \in Int /\ waktanimra_cmp(w, c.base) \in Int
      /\ waktanimra_cmp(v, caret_upper(c.base)) \in Int
      /\ waktanimra_cmp(w, caret_upper(c.base)) \in Int
  BY <1>5, CmpRange
<1>8. waktanimra_cmp(v, c.base) >= 0 => waktanimra_cmp(w, c.base) >= 0
  BY <1>5, <1>6
<1>9. waktanimra_cmp(v, c.base) = 0 => waktanimra_cmp(w, c.base) = 0
  BY <1>5, <1>6, <1>7
<1>10. waktanimra_cmp(v, caret_upper(c.base)) < 0 => waktanimra_cmp(w, caret_upper(c.base)) < 0
  BY <1>5, <1>6, <1>7
<1> QED
  BY <1>3, <1>8, <1>9, <1>10 DEF constraint_match

\* A step that records constraints, if anything, takes candidates away.
LEMMA CandidatesFall ==
  ASSUME TypeOK, catalog' = catalog, NEW n \in Names,
         \A k \in DOMAIN cons_of[n] :
           k \in DOMAIN cons_of'[n] /\ cons_of'[n][k] = cons_of[n][k]
  PROVE  Candidates(n)' \subseteq Candidates(n)
BY DEF Candidates

\* The constraints of a package are kept from step to step.
LEMMA ConsKept ==
  ASSUME ResolverInv, [Next]_vars, NEW n \in Names
  PROVE  \A k \in DOMAIN cons_of[n] :
           k \in DOMAIN cons_of'[n] /\ cons_of'[n][k] = cons_of[n][k]
<1>1. CASE AddLine
  <2> DEFINE d == Lines[it]
  <2>1. CASE UNCHANGED answer
    BY <2>1 DEF answer
  <2>2. CASE cons_of' = [cons_of EXCEPT ![d.izim] = Append(cons_of[d.izim], d.cons)]
    <3>1. CASE n # d.izim
      BY <2>2, <3>1 DEF ResolverInv, TypeOK
    <3>2. CASE n = d.izim
      <4>1. cons_of[n] \in Seq(Constraint) /\ cons_of'[n] = Append(cons_of[n], d.cons)
        BY <2>2, <3>2 DEF ResolverInv, TypeOK
      <4> HIDE DEF d
      <4> QED
        BY <4>1, AppendProperties
    <3> QED
      BY <3>1, <3>2
  <2> QED
    BY <1>1, <2>1, <2>2 DEF AddLine
<1>2. CASE ~AddLine
  <2>1. cons_of' = cons_of
    BY <1>2 DEF Next, Client, StartPass, GiveUp, Settle, EndPass, SkipClean,
       RequestFails, NoRelease, Fail, Pick, EndVisit, Others, Publish, Yank, Returned,
       vars, answer
  <2> QED
    BY <2>1
<1> QED
  BY <1>1, <1>2

\* Only a pick changes a pin.
LEMMA PinKept ==
  ASSUME ResolverInv, [Next]_vars, ~Pick
  PROVE  pin' = pin
BY DEF Next, Client, StartPass, GiveUp, Settle, EndPass, SkipClean, AddLine,
       RequestFails, NoRelease, Fail, EndVisit, Others, Publish, Yank, Returned,
       vars, answer

\* A registry that has not changed has not changed in this step either.
LEMMA CatalogKept ==
  ASSUME ResolverInv, [Next]_vars, churn' = 0
  PROVE  churn = 0 /\ catalog' = catalog
<1>1. churn \in Nat
  BY ResolverAssumption DEF ResolverInv, TypeOK
<1>2. CASE Publish \/ Yank
  BY <1>1, <1>2 DEF Publish, Yank
<1>3. CASE ~(Publish \/ Yank)
  BY <1>3 DEF Next, Client, StartPass, GiveUp, Settle, EndPass, SkipClean, AddLine,
       RequestFails, NoRelease, Fail, Pick, EndVisit, Others, Returned, vars, registry
<1> QED
  BY <1>2, <1>3

LEMMA PinBestStep ==
  ASSUME ResolverInv, PinBest, [Next]_vars
  PROVE  PinBest'
<1> SUFFICES ASSUME churn' = 0, NEW n \in Names, pin'[n] # NoPin
             PROVE  \E r \in DOMAIN catalog'[n] : BestLeft(n, r)'
  BY DEF PinBest
<1>1. churn = 0 /\ catalog' = catalog
  BY CatalogKept
<1>2. Candidates(n)' \subseteq Candidates(n)
  BY <1>1, ConsKept, CandidatesFall DEF ResolverInv
<1>3. CASE pin'[n] = pin[n]
  <2>1. PICK r \in DOMAIN catalog[n] : BestLeft(n, r)
    BY <1>1, <1>3 DEF PinBest
  <2>2. BestLeft(n, r)'
    BY <1>1, <1>2, <1>3, <2>1 DEF BestLeft
  <2> QED
    BY <1>1, <2>1, <2>2
<1>4. CASE pin'[n] # pin[n]
  <2>1. Pick
    BY <1>4, PinKept
  <2>2. n = names[i]
    BY <1>4, <2>1 DEF Pick, ResolverInv, TypeOK
  <2>3. PICK r \in DOMAIN catalog[n] : Best(n, r) /\ pin' = [pin EXCEPT ![n] = catalog[n][r]]
    BY <2>1, <2>2 DEF Pick
  <2>4. pin'[n] = catalog[n][r]
    BY <2>3 DEF ResolverInv, TypeOK
  <2>5. catalog[n][r].usable /\ ~catalog[n][r].kaldy
    BY <2>3 DEF Best, Candidates
  <2>6. BestLeft(n, r)'
    BY <1>1, <1>2, <2>3, <2>4, <2>5 DEF BestLeft, Best
  <2> QED
    BY <1>1, <2>3, <2>6
<1> QED
  BY <1>3, <1>4

LEMMA PinBestHolds == Spec => [](ResolverInv /\ PinBest)
<1>1. Init => PinBest
  BY DEF Init, PinBest
<1> QED
  BY <1>1, InvHolds, PinBestStep, PTL DEF Spec

(***************************************************************************)
(* If the registry stood still, a finished resolution has each package at  *)
(* the highest release, not yanked, that meets all that was recorded       *)
(* against it, whatever the catalog and the order of the visits.           *)
(***************************************************************************)
THEOREM Highest == Spec => []HighestChosen
<1>1. ResolverInv /\ PinBest => HighestChosen
  <2> SUFFICES ASSUME ResolverInv, PinBest, pc = "done", churn = 0, NEW n \in InUse
               PROVE  /\ Admissible(pin[n], AgainstIt(n))
                      /\ \A r \in DOMAIN catalog[n] :
                           Admissible(catalog[n][r], AgainstIt(n))
                             => waktanimra_cmp(catalog[n][r].ver, pin[n].ver) <= 0
    BY DEF HighestChosen
  <2>1. n \in Names /\ n \notin dirty
    BY DEF ResolverInv, QuietSoFar, TypeOK, InUse
  <2>2. pin[n] # NoPin /\ \A k \in DOMAIN cons_of[n] : constraint_match(cons_of[n][k], pin[n].ver)
    BY <2>1 DEF ResolverInv, CleanIsChosen
  <2>3. PICK r \in DOMAIN catalog[n] : BestLeft(n, r)
    BY <2>1, <2>2 DEF PinBest
  <2>4. Admissible(pin[n], AgainstIt(n))
    BY <2>2, <2>3 DEF BestLeft, Admissible, AgainstIt
  <2>5. ASSUME NEW s \in DOMAIN catalog[n], Admissible(catalog[n][s], AgainstIt(n))
        PROVE  waktanimra_cmp(catalog[n][s].ver, pin[n].ver) <= 0
    <3>1. s \in Candidates(n)
      BY <2>5 DEF Candidates, Admissible, AgainstIt
    <3>2. catalog[n][s] \in Record /\ catalog[n][r] \in Record
      BY <2>1 DEF ResolverInv, TypeOK
    <3>3. waktanimra_cmp(catalog[n][s].ver, catalog[n][r].ver) \in Int
      BY <3>2, CmpRange DEF Record
    <3> QED
      BY <2>3, <3>1, <3>3 DEF BestLeft
  <2> QED
    BY <2>4, <2>5
<1> QED
  BY <1>1, PinBestHolds, PTL

(***************************************************************************)
(* While the registry stands still a package is only ever re-pinned        *)
(* downwards: a release that compares as equal to the one pinned and is    *)
(* listed after it never replaces it, though its version may be spelled    *)
(* differently.                                                            *)
(***************************************************************************)
THEOREM OnlyDown == Spec => RepicksGoDown
<1>1. ASSUME ResolverInv, PinBest, [Next]_vars, NEW n \in Names,
             churn' = 0, pin[n] # NoPin, pin'[n] # pin[n]
      PROVE  waktanimra_cmp(pin'[n].ver, pin[n].ver) < 0
  <2>1. churn = 0 /\ catalog' = catalog
    BY <1>1, CatalogKept
  <2>2. Pick
    BY <1>1, PinKept
  <2>3. n = names[i]
    BY <1>1, <2>2 DEF Pick, ResolverInv, TypeOK
  <2>4. PICK r \in DOMAIN catalog[n] : Best(n, r) /\ pin' = [pin EXCEPT ![n] = catalog[n][r]]
    BY <2>2, <2>3 DEF Pick
  <2>5. pin'[n] = catalog[n][r]
    BY <1>1, <2>4 DEF ResolverInv, TypeOK
  <2>6. PICK q \in DOMAIN catalog[n] : BestLeft(n, q)
    BY <1>1, <2>1 DEF PinBest
  <2>7. r \in Candidates(n)
    BY <2>4 DEF Best
  <2>8. \/ waktanimra_cmp(catalog[n][r].ver, catalog[n][q].ver) < 0
        \/ waktanimra_cmp(catalog[n][r].ver, catalog[n][q].ver) = 0 /\ q <= r
    BY <2>6, <2>7 DEF BestLeft
  <2>9. ASSUME waktanimra_cmp(catalog[n][r].ver, catalog[n][q].ver) = 0, q <= r
        PROVE  FALSE
    <3>1. /\ catalog[n] \in Seq(Record) /\ catalog[n][r] \in Record /\ catalog[n][q] \in Record
          /\ cons_of[n] \in Seq(Constraint)
      BY <1>1 DEF ResolverInv, TypeOK
    <3>2. /\ catalog[n][r].ver \in Version /\ catalog[n][q].ver \in Version
          /\ \A k \in DOMAIN cons_of[n] : cons_of[n][k] \in Constraint
          /\ r \in Nat /\ q \in Nat
      BY <3>1 DEF Record
    <3>3. \A k \in DOMAIN cons_of[n] : constraint_match(cons_of[n][k], catalog[n][q].ver)
      BY <2>7, <2>9, <3>2, EqualMatch DEF Candidates
    <3>4. q \in Candidates(n)
      BY <2>6, <3>3 DEF Candidates, BestLeft
    <3>5. waktanimra_cmp(catalog[n][q].ver, catalog[n][r].ver) = 0
      BY <2>9, <3>2, CmpNegates, CmpRange
    <3>6. r <= q
      BY <2>4, <3>4, <3>5 DEF Best
    <3>7. r = q
      BY <2>9, <3>2, <3>6
    <3> QED
      BY <1>1, <2>5, <2>6, <3>7 DEF BestLeft
  <2> QED
    BY <2>5, <2>6, <2>8, <2>9 DEF BestLeft
<1>2. ResolverInv /\ PinBest /\ [Next]_vars =>
        [\A n \in Names :
           churn' = 0 /\ pin[n] # NoPin /\ pin'[n] # pin[n]
             => waktanimra_cmp(pin'[n].ver, pin[n].ver) < 0]_vars
  BY <1>1
<1> QED
  BY <1>2, PinBestHolds, PTL DEF Spec, RepicksGoDown

-----------------------------------------------------------------------------

(***************************************************************************)
(* The refinement of VersionSet, where the fixed tables cannot fill: there *)
(* are no more packages than slots, and no more constraints are mentioned  *)
(* on a package, in any release there may be, than a slot holds.           *)
(***************************************************************************)
Needs(rec) == {rec.cizujo[k] : k \in DOMAIN rec.cizujo} \ {BadLine}

NeedsIn(c) == UNION {UNION {Needs(c[n][r]) : r \in DOMAIN c[n]} : n \in Names}

Mentioned ==
  {[izim |-> Root, cons |-> RootCons]}
    \cup (UNION {NeedsIn(c) : c \in Catalogs}) \cup (UNION {Needs(x.rec) : x \in Uploads})

MentionedOn(n) == {d.cons : d \in {e \in Mentioned : e.izim = n}}

TablesSuffice ==
  /\ IsFiniteSet(Names) /\ Cardinality(Names) <= PkgMax
  /\ \A n \in Names :
       IsFiniteSet(MentionedOn(n)) /\ Cardinality(MentionedOn(n)) <= ConsMax

(***************************************************************************)
(* The invariant behind it: no package has two slots, no slot holds a      *)
(* constraint twice, and nothing is held that no release mentions.         *)
(***************************************************************************)
OnceEach(s) == \A j, k \in DOMAIN s : s[j] = s[k] => j = k

Sparing ==
  /\ OnceEach(names)
  /\ \A n \in Names :
       /\ OnceEach(cons_of[n])
       /\ \A k \in DOMAIN cons_of[n] : cons_of[n][k] \in MentionedOn(n)
       /\ \A r \in DOMAIN catalog[n] : Needs(catalog[n][r]) \subseteq Mentioned
       /\ pin[n] # NoPin => Needs(pin[n]) \subseteq Mentioned

\* A sequence without repetition that misses one of a finite set is shorter.
LEMMA Shorter ==
  ASSUME NEW S, IsFiniteSet(S), NEW s \in Seq(S), OnceEach(s),
         NEW x \in S, \A k \in DOMAIN s : s[k] # x
  PROVE  Len(s) < Cardinality(S)
<1>1. IsFiniteSet(S \ {x}) /\ Cardinality(S \ {x}) = Cardinality(S) - 1
  BY FS_RemoveElement
<1>2. DOMAIN s = 1..Len(s) /\ Len(s) \in Nat
  OBVIOUS
<1>3. s \in [1..Len(s) -> S \ {x}]
  BY <1>2
<1>4. s \in Injection(1..Len(s), S \ {x})
  BY <1>2, <1>3 DEF OnceEach, Injection, IsInjective
<1>5. Cardinality(1..Len(s)) <= Cardinality(S \ {x})
  BY <1>1, <1>4, FS_Injection
<1>6. Cardinality(1..Len(s)) = Len(s)
  BY <1>2, FS_Interval
<1>7. Cardinality(S) \in Nat
  BY FS_CardinalityType
<1> QED
  BY <1>1, <1>2, <1>5, <1>6, <1>7

\* So no line is dropped.
LEMMA NothingDropped ==
  ASSUME TablesSuffice, TypeOK, Sparing, NEW d \in Dep, d \in Mentioned
  PROVE  ~Dropped(d)
<1> SUFFICES ASSUME Dropped(d)
             PROVE  FALSE
  OBVIOUS
<1>1. d.izim \in Names
  BY DEF Dep
<1>2. CASE NoSlot(d)
  <2>1. \A k \in DOMAIN names : names[k] # d.izim
    BY <1>2 DEF NoSlot, InUse
  <2>2. Len(names) < Cardinality(Names)
    BY <1>1, <2>1, Shorter DEF TablesSuffice, Sparing, TypeOK
  <2>3. Cardinality(Names) \in Nat /\ Len(names) \in Nat
    BY FS_CardinalityType DEF TablesSuffice, TypeOK
  <2> QED
    BY <1>2, <2>2, <2>3, ResolverAssumption DEF NoSlot, TablesSuffice
<1>3. CASE ~Recorded(d) /\ Len(cons_of[d.izim]) >= ConsMax
  <2> DEFINE M == MentionedOn(d.izim)
             c == cons_of[d.izim]
  <2>1. d.cons \in M /\ \A k \in DOMAIN c : c[k] # d.cons
    BY <1>3 DEF MentionedOn, Recorded
  <2>2. c \in Seq(M) /\ OnceEach(c)
    <3>1. c \in Seq(Constraint) /\ \A k \in DOMAIN c : c[k] \in M
      BY <1>1 DEF Sparing, TypeOK
    <3> HIDE DEF M, c
    <3>2. c \in Seq(M)
      BY <3>1
    <3> QED
      BY <1>1, <3>2 DEF Sparing, c
  <2>3. IsFiniteSet(M) /\ Cardinality(M) <= ConsMax
    BY <1>1 DEF TablesSuffice
  <2> HIDE DEF M
  <2>4. Len(c) < Cardinality(M)
    BY <2>1, <2>2, <2>3, Shorter
  <2>5. Cardinality(M) \in Nat /\ Len(c) \in Nat
    BY <2>2, <2>3, FS_CardinalityType
  <2> QED
    BY <1>3, <2>3, <2>4, <2>5, ResolverAssumption
<1> QED
  BY <1>2, <1>3 DEF Dropped

LEMMA SparingInit ==
  ASSUME Init
  PROVE  Sparing
<1>1. OnceEach(names)
  BY DEF Init, OnceEach
<1>2. ASSUME NEW n \in Names
      PROVE  /\ OnceEach(cons_of[n])
             /\ \A k \in DOMAIN cons_of[n] : cons_of[n][k] \in MentionedOn(n)
  <2>1. RootCons \in MentionedOn(Root)
    <3>1. [izim |-> Root, cons |-> RootCons] \in Mentioned
      BY DEF Mentioned
    <3> QED
      BY <3>1 DEF MentionedOn
  <2>2. cons_of[n] = IF n = Root THEN <<RootCons>> ELSE <<>>
    BY DEF Init
  <2> QED
    BY <2>1, <2>2 DEF OnceEach
<1>3. ASSUME NEW n \in Names, NEW r \in DOMAIN catalog[n]
      PROVE  Needs(catalog[n][r]) \subseteq Mentioned
  <2>1. catalog \in Catalogs /\ Needs(catalog[n][r]) \subseteq NeedsIn(catalog)
    BY DEF Init, NeedsIn
  <2> QED
    BY <2>1 DEF Mentioned
<1>4. \A n \in Names : pin[n] = NoPin
  BY DEF Init
<1> QED
  BY <1>1, <1>2, <1>3, <1>4 DEF Sparing

\* What the registry offers is mentioned, whoever publishes or yanks.
LEMMA OffersStep ==
  ASSUME TypeOK, Sparing, Publish \/ Yank
  PROVE  \A n \in Names : \A r \in DOMAIN catalog'[n] :
           Needs(catalog'[n][r]) \subseteq Mentioned
<1>1. CASE Publish
  <2>1. PICK x \in Uploads :
          catalog' = [catalog EXCEPT ![x.izim] = Append(catalog[x.izim], x.rec)]
    BY <1>1 DEF Publish
  <2>2. Needs(x.rec) \subseteq Mentioned
    <3>1. ASSUME NEW e \in Needs(x.rec)
          PROVE  e \in UNION {Needs(y.rec) : y \in Uploads}
      BY <3>1
    <3>2. UNION {Needs(y.rec) : y \in Uploads} \subseteq Mentioned
      BY Zenon DEF Mentioned
    <3> QED
      BY <3>1, <3>2, Zenon
  <2>3. x.rec \in Record
    BY ResolverAssumption
  <2>4. ASSUME NEW n \in Names, NEW r \in DOMAIN catalog'[n]
        PROVE  Needs(catalog'[n][r]) \subseteq Mentioned
    <3>1. CASE n # x.izim
      BY <2>1, <3>1 DEF TypeOK, Sparing
    <3>2. CASE n = x.izim
      <4>1. catalog[n] \in Seq(Record) /\ catalog'[n] = Append(catalog[n], x.rec)
        BY <2>1, <3>2 DEF TypeOK
      <4>2. \/ catalog'[n][r] = x.rec
            \/ r \in DOMAIN catalog[n] /\ catalog'[n][r] = catalog[n][r]
        <5>1. PICK s, t : s = catalog[n] /\ t = catalog'[n]
          OBVIOUS
        <5>2. s \in Seq(Record) /\ t = Append(s, x.rec)
          BY <4>1, <5>1
        <5>3. /\ DOMAIN t = 1..(Len(s) + 1) /\ DOMAIN s = 1..Len(s) /\ Len(s) \in Nat
              /\ t[Len(s) + 1] = x.rec /\ \A k \in 1..Len(s) : t[k] = s[k]
          BY <2>3, <5>2
        <5>4. r = Len(s) + 1 \/ r \in 1..Len(s)
          BY <5>1, <5>3
        <5>5. CASE r = Len(s) + 1
          BY <5>1, <5>3, <5>5
        <5>6. CASE r \in 1..Len(s)
          BY <5>1, <5>3, <5>6
        <5> QED
          BY <5>4, <5>5, <5>6
      <4> QED
        BY <2>2, <4>2 DEF Sparing
    <3> QED
      BY <3>1, <3>2
  <2> QED
    BY <2>4
<1>2. CASE Yank
  <2>1. PICK m \in Names : \E q \in DOMAIN catalog[m] :
          catalog' = [catalog EXCEPT ![m][q].kaldy = TRUE]
    BY <1>2 DEF Yank
  <2>2. ASSUME NEW n \in Names, NEW r \in DOMAIN catalog'[n]
        PROVE  Needs(catalog'[n][r]) \subseteq Mentioned
    <3>1. DOMAIN catalog'[n] = DOMAIN catalog[n]
      BY <2>1 DEF TypeOK
    <3>2. catalog[n][r] \in Record
      BY <3>1 DEF TypeOK
    <3>3. catalog'[n][r] = catalog[n][r] \/ catalog'[n][r] = [catalog[n][r] EXCEPT !.kaldy = TRUE]
      <4>1. PICK q \in DOMAIN catalog[m] : catalog' = [catalog EXCEPT ![m][q].kaldy = TRUE]
        BY <2>1
      <4>2. CASE n # m
        BY <4>1, <4>2 DEF TypeOK
      <4>3. CASE n = m
        <5>1. catalog'[n] = [catalog[n] EXCEPT ![q] = [catalog[n][q] EXCEPT !.kaldy = TRUE]]
          BY <4>1, <4>3 DEF TypeOK
        <5> QED
          BY <3>1, <5>1
      <4> QED
        BY <4>2, <4>3
    <3>4. catalog'[n][r].cizujo = catalog[n][r].cizujo
      BY <3>2, <3>3 DEF Record
    <3> QED
      BY <3>1, <3>4 DEF Sparing, Needs
  <2> QED
    BY <2>2
<1> QED
  BY <1>1, <1>2

\* A list without repetitions has none after something new is added to its end.
LEMMA LongerOnce ==
  ASSUME NEW S, NEW s \in Seq(S), NEW x \in S, OnceEach(s), \A k \in DOMAIN s : s[k] # x
  PROVE  /\ OnceEach(Append(s, x))
         /\ \A k \in DOMAIN Append(s, x) :
              Append(s, x)[k] = x \/ (k \in DOMAIN s /\ Append(s, x)[k] = s[k])
<1> DEFINE t == Append(s, x)
<1>1. /\ DOMAIN t = 1..(Len(s) + 1) /\ DOMAIN s = 1..Len(s) /\ Len(s) \in Nat
      /\ t[Len(s) + 1] = x /\ \A k \in 1..Len(s) : t[k] = s[k]
  OBVIOUS
<1> HIDE DEF t
<1>2. \A k \in DOMAIN t : (k = Len(s) + 1 /\ t[k] = x) \/ (k \in DOMAIN s /\ t[k] = s[k])
  BY <1>1
<1>3. OnceEach(t)
  BY <1>1, <1>2 DEF OnceEach
<1>4. \A k \in DOMAIN t : t[k] = x \/ (k \in DOMAIN s /\ t[k] = s[k])
  BY <1>2, Zenon
<1> QED
  BY <1>3, <1>4, Zenon DEF t

LEMMA SparingStep ==
  ASSUME ResolverInv, Sparing, [Next]_vars
  PROVE  Sparing'
<1>1. CASE Publish \/ Yank
  <2>1. UNCHANGED answer
    BY <1>1 DEF Publish, Yank
  <2> QED
    BY <1>1, <2>1, OffersStep DEF ResolverInv, Sparing, OnceEach, answer
<1>2. CASE Pick
  <2>1. PICK r \in DOMAIN catalog[names[i]] :
          pin' = [pin EXCEPT ![names[i]] = catalog[names[i]][r]]
    BY <1>2 DEF Pick
  <2>2. UNCHANGED <<registry, names, cons_of>>
    BY <1>2 DEF Pick
  <2>3. ASSUME NEW n \in Names, pin'[n] # NoPin
        PROVE  Needs(pin'[n]) \subseteq Mentioned
    <3>1. pin'[n] = pin[n] \/ (n = names[i] /\ pin'[n] = catalog[n][r])
      BY <2>1 DEF ResolverInv, TypeOK
    <3> QED
      BY <2>1, <2>3, <3>1 DEF Sparing
  <2> QED
    BY <2>2, <2>3 DEF Sparing, OnceEach, registry
<1>3. CASE AddLine
  <2> DEFINE d == Lines[it]
  <2>1. catalog' = catalog /\ pin' = pin
    BY <1>3 DEF AddLine, registry, answer
  <2>2. CASE UNCHANGED answer
    BY <2>1, <2>2 DEF Sparing, OnceEach, answer
  <2>3. CASE ~(d = BadLine \/ Skipped(d))
    <3>1. /\ names' = IF d.izim \in InUse THEN names ELSE Append(names, d.izim)
          /\ cons_of' = [cons_of EXCEPT ![d.izim] = Append(cons_of[d.izim], d.cons)]
      BY <1>3, <2>3 DEF AddLine
    <3>2. names[i] \in Names /\ pin[names[i]] \in Record /\ pin[names[i]] # NoPin
      BY <1>3 DEF AddLine, ResolverInv, TypeOK, QuietSoFar
    <3>3. Lines \in Seq(Dep \cup {BadLine}) /\ it \in DOMAIN Lines
      BY <1>3, <3>2 DEF Lines, Record, AddLine, ResolverInv, TypeOK, QuietSoFar
    <3>4. d \in Dep /\ d \in Mentioned
      <4>1. d \in Needs(pin[names[i]])
        BY <2>3, <3>3 DEF Needs, Lines
      <4> QED
        BY <2>3, <3>2, <3>3, <4>1 DEF Sparing
    <3>5. d.izim \in Names /\ d.cons \in Constraint /\ d.cons \in MentionedOn(d.izim)
      BY <3>4 DEF Dep, MentionedOn
    <3>6. ~Recorded(d)
      BY <2>3 DEF Skipped
    <3> HIDE DEF d
    <3>8. OnceEach(names')
      <4>1. d.izim \notin InUse => \A k \in DOMAIN names : names[k] # d.izim
        BY DEF InUse
      <4>2. names \in Seq(Names) /\ OnceEach(names)
        BY DEF ResolverInv, TypeOK, Sparing
      <4> QED
        BY <3>1, <3>5, <4>1, <4>2, LongerOnce
    <3>9. ASSUME NEW n \in Names
          PROVE  /\ OnceEach(cons_of'[n])
                 /\ \A k \in DOMAIN cons_of'[n] : cons_of'[n][k] \in MentionedOn(n)
      <4>1. CASE n # d.izim
        BY <3>1, <4>1 DEF ResolverInv, TypeOK, Sparing
      <4>2. CASE n = d.izim
        <5>1. cons_of[n] \in Seq(Constraint) /\ cons_of'[n] = Append(cons_of[n], d.cons)
          BY <3>1, <4>2 DEF ResolverInv, TypeOK
        <5>2. OnceEach(cons_of[n]) /\ \A k \in DOMAIN cons_of[n] : cons_of[n][k] \in MentionedOn(n)
          BY DEF Sparing
        <5>3. \A k \in DOMAIN cons_of[n] : cons_of[n][k] # d.cons
          BY <3>6, <4>2 DEF Recorded
        <5>4. /\ OnceEach(cons_of'[n])
              /\ \A k \in DOMAIN cons_of'[n] :
                   \/ cons_of'[n][k] = d.cons
                   \/ k \in DOMAIN cons_of[n] /\ cons_of'[n][k] = cons_of[n][k]
          <6>1. PICK s, t : s = cons_of[n] /\ t = cons_of'[n]
            OBVIOUS
          <6>2. s \in Seq(Constraint) /\ t = Append(s, d.cons) /\ OnceEach(s)
            BY <5>1, <5>2, <6>1
          <6>3. \A k \in DOMAIN s : s[k] # d.cons
            BY <5>3, <6>1
          <6>4. OnceEach(t) /\ \A k \in DOMAIN t : t[k] = d.cons \/ (k \in DOMAIN s /\ t[k] = s[k])
            <7>1. PICK x \in Constraint : x = d.cons
              BY <3>5
            <7>2. \A k \in DOMAIN s : s[k] # x
              BY <6>3, <7>1
            <7>3. OnceEach(s) /\ s \in Seq(Constraint)
              BY <6>2
            <7>4. t = Append(s, x)
              BY <6>2, <7>1, Zenon
            <7>5. /\ OnceEach(Append(s, x))
                  /\ \A k \in DOMAIN Append(s, x) :
                       Append(s, x)[k] = x \/ (k \in DOMAIN s /\ Append(s, x)[k] = s[k])
              <8>1. x \in Constraint
                BY <7>1
              <8> HIDE DEF Constraint, OnceEach
              <8> QED
                BY <7>2, <7>3, <8>1, LongerOnce
            <7> QED
              BY <7>1, <7>4, <7>5, Zenon
          <6> QED
            BY <6>1, <6>4
        <5> QED
          BY <3>5, <4>2, <5>2, <5>4
      <4> QED
        BY <4>1, <4>2
    <3> QED
      BY <2>1, <3>8, <3>9 DEF Sparing
  <2> QED
    BY <1>3, <2>2, <2>3 DEF AddLine
<1>4. CASE ~(Publish \/ Yank \/ Pick \/ AddLine)
  <2>1. UNCHANGED <<names, cons_of, catalog, pin>>
    BY <1>4 DEF Next, Client, StartPass, GiveUp, Settle, EndPass, SkipClean,
       RequestFails, NoRelease, Fail, EndVisit, Others, Returned, vars, registry, answer
  <2> QED
    BY <2>1 DEF Sparing, OnceEach
<1> QED
  BY <1>1, <1>2, <1>3, <1>4

LEMMA SparingHolds == Spec => [](ResolverInv /\ Sparing)
  BY InvHolds, SparingInit, SparingStep, PTL DEF Spec

\* PinSet's constraint_match is the resolver's.
LEMMA SameMatch ==
  ASSUME NEW c, NEW v
  PROVE  Promise!constraint_match(c, v) <=> constraint_match(c, v)
BY Zenon DEF Promise!constraint_match, Promise!tag_opted_in, Promise!caret_upper,
   Promise!waktanimra_cmp, Promise!cmp_tagged, Promise!cmp_tag, Promise!fields_seen,
   Promise!empty_field, Promise!cmp_field, Promise!sign, Promise!has_tag, Promise!triple,
   Promise!release, constraint_match, tag_opted_in, caret_upper, waktanimra_cmp,
   cmp_tagged, cmp_tag, fields_seen, empty_field, cmp_field, sign, has_tag, triple, release

\* When the worklist settles, its pins answer what was asked for.
LEMMA SettledAnswers ==
  ASSUME TablesSuffice, ResolverInv, Sparing, Settle
  PROVE  Promise!Answers(pin, Root, RootCons)
<1>1. /\ pc = "pass" /\ InUse \cap dirty = {}
  BY DEF Settle, ResolverInv, QuietSoFar
<1>2. \A n \in InUse : /\ pin[n] # NoPin
                       /\ \A k \in DOMAIN cons_of[n] : constraint_match(cons_of[n][k], pin[n].ver)
  BY <1>1 DEF ResolverInv, CleanIsChosen
<1>3. pin[Root] # NoPin /\ constraint_match(RootCons, pin[Root].ver)
  BY <1>2 DEF ResolverInv, Slotted
<1>4. ASSUME NEW n \in Names, pin[n] # NoPin, NEW k \in DOMAIN pin[n].cizujo,
             pin[n].cizujo[k] # BadLine
      PROVE  /\ pin[pin[n].cizujo[k].izim] # NoPin
             /\ constraint_match(pin[n].cizujo[k].cons, pin[pin[n].cizujo[k].izim].ver)
  <2>1. PICK d : d = pin[n].cizujo[k]
    OBVIOUS
  <2>2. d \in Dep
    <3>1. pin[n] \in Record
      BY <1>4 DEF ResolverInv, TypeOK
    <3> QED
      BY <1>4, <2>1, <3>1 DEF Record
  <2>3. d \in Mentioned
    BY <1>4, <2>1 DEF Sparing, Needs
  <2>4. Held(d)
    BY <1>1, <1>4, <2>1 DEF ResolverInv, NeedsHeld, Ahead
  <2>5. d.izim \in InUse /\ Recorded(d)
    BY <2>2, <2>3, <2>4, NothingDropped DEF Held, ResolverInv
  <2> QED
    BY <1>2, <2>1, <2>5 DEF Recorded
<1>5. Promise!Closed(pin)
  BY <1>4, SameMatch DEF Promise!Closed, Promise!Pinned
<1> QED
  BY <1>3, <1>5, SameMatch DEF Promise!Answers

(***************************************************************************)
(* Where the tables suffice, the whole of resolve_local is one step of     *)
(* VersionSet: it answers once, with a closed set that meets the request,  *)
(* or refuses, however the registry changes under it.                      *)
(***************************************************************************)
THEOREM AnswersInOneStep ==
  ASSUME TablesSuffice
  PROVE  Spec => AnswersOnce
<1>1. Init => Promise!Init
  BY DEF Init, Promise!Init, Promise!NoPins
<1> DEFINE outcome == CASE pc = "done" -> "answered" [] pc = "failed" -> "refused"
                        [] OTHER -> "pending"
           chosen == IF pc = "done" THEN pin ELSE [n \in Names |-> NoPin]
<1>2. ResolverInv /\ Sparing /\ [Next]_vars => [Promise!Next]_<<outcome, chosen>>
  <2> SUFFICES ASSUME ResolverInv, Sparing, [Next]_vars
               PROVE  [Promise!Next]_<<outcome, chosen>>
    OBVIOUS
  <2>1. CASE Settle
    <3>1. pc = "pass" /\ pc' = "done" /\ pin' = pin
      BY <2>1 DEF Settle, answer
    <3>2. Promise!Answers(pin, Root, RootCons)
      BY <2>1, SettledAnswers
    <3>3. pin \in [Names -> Record \cup {NoPin}]
      BY DEF ResolverInv, TypeOK
    <3>4. Promise!Answer
      BY <3>1, <3>2, <3>3 DEF Promise!Answer
    <3> QED
      BY <3>4 DEF Promise!Next
  <2>2. CASE pc \notin {"done", "failed"} /\ pc' = "failed"
    BY <2>2 DEF Promise!Next, Promise!Refuse
  <2>3. CASE pc \notin {"done", "failed"} /\ pc' \notin {"done", "failed"}
    BY <2>3
  <2>4. CASE pc \in {"done", "failed"} /\ pc' = pc /\ pin' = pin
    BY <2>4
  <2> QED
    BY <2>1, <2>2, <2>3, <2>4 DEF Next, Client, StartPass, GiveUp, EndPass, SkipClean,
       RequestFails, NoRelease, Fail, Pick, Visiting, AddLine, EndVisit, Others, Publish,
       Yank, Returned, vars, answer
<1> QED
  BY <1>1, <1>2, SparingHolds, PTL DEF Spec, AnswersOnce, Promise!Spec

-----------------------------------------------------------------------------

(***************************************************************************)
(* The pass budget.  Every pass but the first and the last two records a   *)
(* dependency that was not recorded before, so a registry that mentions    *)
(* few enough of them cannot use the budget up.                            *)
(***************************************************************************)
Met == {d \in Mentioned : d \in Dep /\ Recorded(d)}

AtLeast(n) == Cardinality(Met) >= n

Begun == Passes - budget

\* A package the pass has gone by is dirty again.
Behind == \E k \in 1..(i - 1) : k <= Len(names) /\ names[k] \in dirty

Spending ==
  /\ budget <= Passes /\ dirty \subseteq InUse /\ err # "unsettled"
  /\ pc = "pass" => /\ AtLeast(Begun - 1)
                    /\ changed => AtLeast(Begun)
                    /\ dirty # {} => AtLeast(Begun + 1)
  /\ pc \in {"visit", "widen"} => /\ AtLeast(Begun - 1)
                                  /\ changed \/ dirty # {} => AtLeast(Begun)
                                  /\ Behind => AtLeast(Begun + 1)
  /\ pc = "widen" /\ names[i] \in dirty => AtLeast(Begun + 1)

FewMentioned == IsFiniteSet(Mentioned) /\ Cardinality(Mentioned) + 2 <= Passes

\* What has been recorded is counted, and no more than what is mentioned.
LEMMA MetCounted ==
  ASSUME FewMentioned
  PROVE  /\ IsFiniteSet(Met) /\ Cardinality(Met) \in Nat
         /\ Cardinality(Met) + 2 <= Passes
<1>1. Met \subseteq Mentioned
  BY DEF Met
<1>2. IsFiniteSet(Met) /\ Cardinality(Met) <= Cardinality(Mentioned)
  BY <1>1, FS_Subset DEF FewMentioned
<1>3. Cardinality(Met) \in Nat /\ Cardinality(Mentioned) \in Nat
  BY <1>2, FS_CardinalityType DEF FewMentioned
<1> QED
  BY <1>2, <1>3, ResolverAssumption DEF FewMentioned

\* A line that is added was not counted before, and nothing is forgotten.
LEMMA AddedCounts ==
  ASSUME FewMentioned, ResolverInv, Sparing, AddLine, ~UNCHANGED answer
  PROVE  /\ Cardinality(Met') >= Cardinality(Met) + 1
         /\ dirty' = dirty \cup {Lines[it].izim}
         /\ Lines[it].izim \in InUse'
         /\ InUse \subseteq InUse'
<1> DEFINE d == Lines[it]
<1>1. /\ ~(d = BadLine \/ Skipped(d))
      /\ names' = IF d.izim \in InUse THEN names ELSE Append(names, d.izim)
      /\ cons_of' = [cons_of EXCEPT ![d.izim] = Append(cons_of[d.izim], d.cons)]
      /\ dirty' = dirty \cup {d.izim}
  BY DEF AddLine, Requeue
<1>2. d \in Dep /\ d \in Mentioned
  <2>1. names[i] \in Names /\ pin[names[i]] \in Record /\ pin[names[i]] # NoPin
    BY DEF AddLine, ResolverInv, TypeOK, QuietSoFar
  <2>2. Lines \in Seq(Dep \cup {BadLine}) /\ it \in DOMAIN Lines
    BY <2>1 DEF Lines, Record, AddLine, ResolverInv, TypeOK, QuietSoFar
  <2>3. d \in Needs(pin[names[i]])
    BY <1>1, <2>2 DEF Needs, Lines
  <2> QED
    BY <1>1, <2>1, <2>2, <2>3 DEF Sparing
<1>3. d.izim \in Names /\ d.cons \in Constraint /\ d = [izim |-> d.izim, cons |-> d.cons]
  BY <1>2 DEF Dep
<1>4. ~Recorded(d)
  BY <1>1 DEF Skipped
<1> HIDE DEF d
<1>5. InUse \subseteq InUse' /\ d.izim \in InUse'
  <2>1. CASE d.izim \in InUse
    BY <1>1, <2>1 DEF InUse
  <2>2. CASE d.izim \notin InUse
    <3>1. names \in Seq(Names) /\ names' = Append(names, d.izim)
      BY <1>1, <2>2 DEF ResolverInv, TypeOK
    <3>2. /\ DOMAIN names' = 1..(Len(names) + 1) /\ DOMAIN names = 1..Len(names)
          /\ Len(names) \in Nat /\ names'[Len(names) + 1] = d.izim
          /\ \A k \in 1..Len(names) : names'[k] = names[k]
      BY <1>3, <3>1
    <3>3. \A k \in DOMAIN names : k \in DOMAIN names' /\ names'[k] = names[k]
      BY <3>2
    <3>4. Len(names) + 1 \in DOMAIN names' /\ names'[Len(names) + 1] = d.izim
      BY <3>2
    <3> QED
      BY <3>3, <3>4 DEF InUse
  <2> QED
    BY <2>1, <2>2
<1>6. ASSUME NEW n \in Names
      PROVE  /\ \A k \in DOMAIN cons_of[n] :
                  k \in DOMAIN cons_of'[n] /\ cons_of'[n][k] = cons_of[n][k]
             /\ n = d.izim => \E k \in DOMAIN cons_of'[n] : cons_of'[n][k] = d.cons
  <2>1. CASE n # d.izim
    BY <1>1, <2>1 DEF ResolverInv, TypeOK
  <2>2. CASE n = d.izim
    <3>1. PICK s, t : s = cons_of[n] /\ t = cons_of'[n]
      OBVIOUS
    <3>2. s \in Seq(Constraint) /\ t = Append(s, d.cons)
      BY <1>1, <2>2, <3>1 DEF ResolverInv, TypeOK
    <3>3. /\ DOMAIN t = 1..(Len(s) + 1) /\ DOMAIN s = 1..Len(s) /\ Len(s) \in Nat
          /\ t[Len(s) + 1] = d.cons /\ \A k \in 1..Len(s) : t[k] = s[k]
      BY <1>3, <3>2
    <3>4. \A k \in DOMAIN s : k \in DOMAIN t /\ t[k] = s[k]
      BY <3>3
    <3>5. Len(s) + 1 \in DOMAIN t /\ t[Len(s) + 1] = d.cons
      BY <3>3
    <3> QED
      BY <3>1, <3>4, <3>5
  <2> QED
    BY <2>1, <2>2
<1>7. Met \cup {d} \subseteq Met'
  <2>1. ASSUME NEW e \in Met
        PROVE  e \in Met'
    <3>1. e \in Mentioned /\ e \in Dep /\ Recorded(e)
      BY DEF Met
    <3>2. e.izim \in Names
      BY <3>1 DEF Dep
    <3> QED
      BY <1>6, <3>1, <3>2 DEF Met, Recorded
  <2>2. d \in Met'
    BY <1>2, <1>3, <1>6 DEF Met, Recorded
  <2> QED
    BY <2>1, <2>2
<1>8. IsFiniteSet(Met) /\ IsFiniteSet(Met') /\ d \notin Met
  <2>1. Met' \subseteq Mentioned
    BY DEF Met
  <2>2. IsFiniteSet(Met')
    BY <2>1, FS_Subset DEF FewMentioned
  <2> QED
    BY <1>4, <2>2, MetCounted DEF Met
<1>9. /\ Cardinality(Met \cup {d}) = Cardinality(Met) + 1
      /\ Cardinality(Met \cup {d}) <= Cardinality(Met')
  BY <1>7, <1>8, FS_AddElement, FS_Subset
<1> QED
  BY <1>1, <1>5, <1>9 DEF d

LEMMA SpendingInit ==
  ASSUME FewMentioned, Init
  PROVE  Spending
<1>1. Passes - budget = 0 /\ pc = "pass" /\ dirty = {Root} /\ err = "none"
  BY ResolverAssumption DEF Init
<1>2. Root \in InUse
  BY DEF Init, InUse
<1>3. [izim |-> Root, cons |-> RootCons] \in Met
  <2>1. [izim |-> Root, cons |-> RootCons] \in Mentioned
    BY DEF Mentioned
  <2>2. [izim |-> Root, cons |-> RootCons] \in Dep
    BY ResolverAssumption DEF Dep
  <2>3. cons_of[Root] = <<RootCons>>
    BY ResolverAssumption DEF Init
  <2> QED
    BY <2>1, <2>2, <2>3 DEF Met, Recorded
<1>4. Cardinality(Met) >= 1
  <2>1. Cardinality(Met) # 0
    BY <1>3, MetCounted, FS_EmptySet
  <2> QED
    BY <2>1, MetCounted
<1>5. budget <= Passes
  BY ResolverAssumption DEF Init
<1>6. AtLeast(Begun - 1) /\ AtLeast(Begun) /\ AtLeast(Begun + 1)
  BY <1>1, <1>4, MetCounted DEF AtLeast, Begun
<1> QED
  BY <1>1, <1>2, <1>5, <1>6 DEF Spending

LEMMA SpendingStep ==
  ASSUME FewMentioned, ResolverInv, Sparing, Spending, [Next]_vars
  PROVE  Spending'
<1> DEFINE m == Cardinality(Met)
<1>1. m \in Nat /\ m + 2 <= Passes /\ budget \in Nat /\ Passes \in Nat
  BY MetCounted, ResolverAssumption DEF ResolverInv, TypeOK
<1>2. i \in Nat /\ names \in Seq(Names) /\ Len(names) \in Nat
  BY DEF ResolverInv, TypeOK
<1>3. ASSUME UNCHANGED <<names, cons_of>>
      PROVE  m' = m /\ InUse' = InUse
  BY <1>3 DEF Met, Recorded, InUse
<1> HIDE DEF m
<1>4. CASE StartPass
  <2>1. /\ pc = "pass" /\ changed /\ budget > 0 /\ budget' = budget - 1 /\ ~changed'
        /\ i' = 1 /\ pc' = "visit" /\ UNCHANGED <<names, cons_of, dirty, err>>
    BY <1>4 DEF StartPass, answer
  <2>2. m' = m /\ InUse' = InUse
    BY <1>3, <2>1
  <2>3. Begun' = Begun + 1 /\ Begun \in Nat
    BY <1>1, <2>1 DEF Begun, Spending
  <2> QED
    BY <1>1, <2>1, <2>2, <2>3 DEF Spending, AtLeast, Behind, m
<1>5. CASE GiveUp
  <2>1. pc = "pass" /\ budget = 0
    BY <1>5 DEF GiveUp
  <2>2. m >= Passes - 1
    BY <1>1, <2>1 DEF Spending, AtLeast, Begun, m
  <2> QED
    BY <1>1, <2>2
<1>6. CASE EndPass
  <2>1. /\ pc = "visit" /\ i > Len(names) /\ pc' = "pass"
        /\ UNCHANGED <<names, cons_of, dirty, i, changed, budget, err>>
    BY <1>6 DEF EndPass, answer
  <2>2. m' = m /\ InUse' = InUse
    BY <1>3, <2>1
  <2>3. dirty # {} => Behind
    <3>1. \A n \in dirty : \E k \in 1..Len(names) : names[k] = n
      BY <1>2 DEF Spending, InUse
    <3> QED
      BY <1>2, <2>1, <3>1 DEF Behind
  <2> QED
    BY <2>1, <2>2, <2>3 DEF Spending, AtLeast, Begun, m
<1>7. CASE SkipClean \/ EndVisit
  <2>1. /\ pc \in {"visit", "widen"} /\ i' = i + 1 /\ pc' = "visit"
        /\ pc = "visit" => names[i] \notin dirty
        /\ UNCHANGED <<names, cons_of, dirty, changed, budget, err>>
    BY <1>7 DEF SkipClean, EndVisit, answer
  <2>2. m' = m /\ InUse' = InUse
    BY <1>3, <2>1
  <2>3. Behind' => Behind \/ (pc = "widen" /\ names[i] \in dirty)
    <3>1. \A k \in 1..((i + 1) - 1) : k \in 1..(i - 1) \/ k = i
      BY <1>2
    <3> QED
      BY <2>1, <3>1 DEF Behind
  <2> QED
    BY <2>1, <2>2, <2>3 DEF Spending, AtLeast, Begun, m
<1>8. CASE RequestFails \/ NoRelease
  <2>1. pc' = "failed" /\ err' # "unsettled" /\ UNCHANGED <<names, cons_of, dirty, budget>>
    BY <1>8 DEF RequestFails, NoRelease, Fail, answer
  <2> QED
    BY <1>3, <2>1 DEF Spending
<1>9. CASE Pick
  <2>1. /\ pc = "visit" /\ names[i] \in dirty /\ dirty' = dirty \ {names[i]} /\ changed'
        /\ pc' = "widen" /\ UNCHANGED <<names, cons_of, i, budget, err>>
    BY <1>9 DEF Pick, Visiting
  <2>2. m' = m /\ InUse' = InUse
    BY <1>3, <2>1
  <2>3. Behind' => Behind
    BY <2>1 DEF Behind
  <2> QED
    BY <2>1, <2>2, <2>3 DEF Spending, AtLeast, Begun, m
<1>10. CASE AddLine
  <2>1. pc = "widen" /\ pc' = "widen" /\ changed /\ UNCHANGED <<i, changed, budget, err>>
    BY <1>10 DEF AddLine, ResolverInv, QuietSoFar
  <2>2. CASE UNCHANGED answer
    <3>1. m' = m /\ InUse' = InUse /\ UNCHANGED <<names, dirty>>
      BY <1>3, <2>2 DEF answer
    <3> QED
      BY <2>1, <3>1 DEF Spending, AtLeast, Begun, Behind, m
  <2>3. CASE ~UNCHANGED answer
    <3>1. /\ m' >= m + 1 /\ dirty' = dirty \cup {Lines[it].izim}
          /\ Lines[it].izim \in InUse' /\ InUse \subseteq InUse'
      BY <1>10, <2>3, AddedCounts DEF m
    <3>2. m' \in Nat /\ m >= Begun /\ Begun \in Nat /\ Begun' = Begun
      <4>1. (Cardinality(Met) \in Nat)'
        <5>1. (Met \subseteq Mentioned)'
          BY DEF Met
        <5> QED
          BY <5>1, FS_Subset, FS_CardinalityType DEF FewMentioned
      <4> QED
        BY <1>1, <2>1, <4>1 DEF Spending, AtLeast, Begun, m
    <3>3. m' >= Begun' + 1 /\ m' >= Begun' /\ m' >= Begun' - 1
      BY <1>1, <3>1, <3>2
    <3> QED
      BY <2>1, <3>1, <3>3 DEF Spending, AtLeast, m
  <2> QED
    BY <2>2, <2>3
<1>11. CASE Settle \/ Others \/ Returned \/ UNCHANGED vars
  <2>1. /\ UNCHANGED <<names, cons_of, dirty, i, changed, budget, err>>
        /\ pc' = pc \/ pc' = "done"
    BY <1>11 DEF Settle, Others, Publish, Yank, Returned, vars, answer
  <2>2. m' = m /\ InUse' = InUse
    BY <1>3, <2>1
  <2> QED
    BY <2>1, <2>2 DEF Spending, AtLeast, Begun, Behind, m
<1> QED
  BY <1>4, <1>5, <1>6, <1>7, <1>8, <1>9, <1>10, <1>11 DEF Next, Client

(***************************************************************************)
(* Where the registry mentions at most Passes - 2 different dependencies   *)
(* (1022 with the client's constants), a resolution never stops because    *)
(* the budget of passes was used up, however the registry changes.         *)
(***************************************************************************)
THEOREM SettlesInTime ==
  ASSUME FewMentioned
  PROVE  Spec => []BudgetSuffices
<1>1. Init => Spending
  BY SpendingInit
<1>2. ResolverInv /\ Sparing /\ Spending /\ [Next]_vars => Spending'
  BY SpendingStep
<1>3. Spending => BudgetSuffices
  BY DEF Spending, BudgetSuffices
<1> QED
  BY <1>1, <1>2, <1>3, SparingHolds, PTL DEF Spec

=============================================================================
