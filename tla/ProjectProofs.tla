---------------------------- MODULE ProjectProofs ----------------------------
(***************************************************************************)
(* Proofs about Project, for every set of packages and releases, whatever  *)
(* the user asks for, however often the registry changes and however many  *)
(* commands fail or are cut short.                                         *)
(***************************************************************************)
EXTENDS Project, WaktanimraProofs

\* A package is being fetched, or replaced by what was fetched.
Replacing == pc = "rename" \/ (pc = "remove" /\ op # "remove")
Fetching == pc = "fetch" \/ Replacing

\* do_get has resolved what it was asked for.
InGet == stage = "get" /\ (Fetching \/ pc \in {"lock", "declare"})

(***************************************************************************)
(* Where a command can be, and what its variables are good for there.      *)
(***************************************************************************)
Flow ==
  /\ pc # "idle" => last = "none"
  /\ pc \in {"idle", "resolve", "lock", "declare"} => stage = "get"
  /\ pc \in {"resolve", "lock", "declare", "walk"} \/ Fetching => op \in {"get", "tidy"}
  /\ stage = "refetch" \/ pc = "walk" => op = "tidy"
  /\ pc = "undeclare" => op = "remove"
  /\ pc \in {"remove", "undeclare"} => cur \in Names
  /\ pc = "resolve" \/ InGet => root \in Names
  /\ last = "get ok" => root \in Names

\* The package being replaced is one still to be fetched; its archive is the one
\* its pin names.  A directory is removed only where there is one, and nothing is
\* renamed onto one.
Handled ==
  /\ Replacing => cur \in todo /\ got = want[cur]
  /\ pc = "remove" => lib[cur] # Absent
  /\ pc = "rename" => lib[cur] = Absent

\* The pins that are fetched answer what do_get was asked for, or are the lock's.
Resolved ==
  /\ InGet => Answers(want, root, IF cons = Bare THEN any ELSE cons)
  /\ Fetching /\ stage = "refetch" => want = lock

\* What is no longer to be fetched is in .oboe/libraries.
Fetched ==
  Fetching => \A n \in Pinned(want) \ todo :
                IF stage = "get" THEN Whole(n, want[n]) ELSE installed_at(n, want[n].ver)

\* Where nothing has gone wrong, what is there is whole, but for the directory
\* that is being removed; what was there is still there, but for the one that is
\* being replaced; and the lock is on disk when project.jsonc is written.
Untroubled ==
  trouble = {} =>
    /\ \A n \in Present : n \in WholePackages \/ (pc = "remove" /\ n = cur)
    /\ op # "remove" /\ (pc # "idle" \/ last # "none") =>
         before \subseteq Present \cup (IF pc = "rename" THEN {cur} ELSE {})
    /\ pc = "declare" => lock = want

\* Every pin of the lock is installed at its version.
LockInstalled == \A n \in Pinned(lock) : n \in WholePackages /\ lib[n].rec.ver = lock[n].ver

\* Tidy comes back to its walk with the lock installed, or remembers a failure.
Walked == trouble = {} /\ pc = "walk" /\ ~failed => LockInstalled

ProjectInv ==
  /\ TypeOK /\ Flow /\ Handled /\ Resolved /\ Fetched /\ Untroubled /\ Walked
  /\ LockClosed /\ LockedIsInstalled /\ TidyRestores /\ DeclaredAccepts

-----------------------------------------------------------------------------
(* Facts about constants and operators. *)

\* The pins of a set that was resolved are releases of their packages.
LEMMA PinsAreReleases ==
  ASSUME NEW s \in PinSets, NEW n \in Pinned(s)
  PROVE  n \in Names /\ s[n] \in Releases /\ s[n] \in Release /\ s[n].izim = n
BY ProjectAssumption DEF PinSets, Pinned

LEMMA NoPinsIsEmpty == NoPins \in PinSets /\ Pinned(NoPins) = {}
BY DEF NoPins, PinSets, Pinned

LEMMA AnyIsConstraint == any \in Constraint
BY DEF any, Constraint, Kinds, Version, release, Tag

\* A directory that was unpacked is an entry, and no entry is "no directory".
LEMMA EntryHere ==
  ASSUME NEW r \in Releases
  PROVE  [rec |-> r, left |-> "all"] \in Entry /\ [rec |-> r, left |-> "all"] # Absent
BY ProjectAssumption DEF Entry

-----------------------------------------------------------------------------
(* Types *)

LEMMA TypeInit == Init => TypeOK
<1> SUFFICES ASSUME Init PROVE TypeOK
  OBVIOUS
<1>1. offered \subseteq Releases /\ churn \in 0..MaxChurn /\ cmds \in 0..MaxCmds
  BY ProjectAssumption DEF Init
<1>2. /\ declared \in [Names -> Constraint \cup {BadLine, Absent}]
      /\ lib \in [Names -> Entry \cup {Absent}]
      /\ \A n \in Names : lib[n] = Absent
  BY DEF Init
<1>3. lock \in PinSets /\ want \in PinSets /\ old \in PinSets
  BY NoPinsIsEmpty DEF Init
<1> QED
  BY <1>1, <1>2, <1>3 DEF Init, TypeOK

\* What every command of the user changes, and what it does not.
LEMMA UserTypes ==
  ASSUME TypeOK, NEW what, User(what)
  PROVE  /\ pc = "idle" /\ op' = what /\ before' = Present /\ before' \subseteq Names
         /\ cmds' \in 0..MaxCmds
         /\ UNCHANGED <<offered, churn, trouble>>
<1>1. cmds' \in 0..MaxCmds
  <2>1. MaxCmds \in Nat /\ cmds \in 0..MaxCmds /\ cmds < MaxCmds /\ cmds' = cmds + 1
    BY ProjectAssumption DEF User, TypeOK
  <2> QED
    BY <2>1
<1> QED
  BY <1>1 DEF User, Present, registry

\* The types of what a command leaves behind.
LEMMA EndTypes ==
  ASSUME TypeOK, NEW how \in {"none", "get ok", "tidy ok", "remove ok", "failed"}, End(how)
  PROVE  /\ pc' = "idle" /\ last' = how
         /\ root' \in Names \cup {Absent} /\ cons' \in Constraint \cup {Bare}
         /\ want' \in PinSets /\ todo' \subseteq Pinned(want')
         /\ cur' \in Names \cup {Absent} /\ got' \in Releases \cup {NoPin}
         /\ stage' \in {"refetch", "get"} /\ old' \in PinSets
         /\ keys' \subseteq Names /\ failed' \in BOOLEAN
BY NoPinsIsEmpty DEF End, TypeOK

LEMMA Stutter ==
  ASSUME UNCHANGED vars
  PROVE  /\ UNCHANGED <<offered, churn, declared, lock, lib, cmds, op, before, pc>>
         /\ UNCHANGED <<root, cons, want, todo, cur, got, stage, old, keys, failed>>
         /\ UNCHANGED <<last, trouble>>
BY DEF vars, registry, files, ghosts, locals

LEMMA TypeStep == TypeOK /\ Flow /\ Handled /\ Resolved /\ [Next]_vars => TypeOK'
<1> SUFFICES ASSUME TypeOK, Flow, Handled, Resolved, [Next]_vars PROVE TypeOK'
  OBVIOUS
<1> USE AnyIsConstraint, NoPinsIsEmpty
<1>1. CASE UserGet
  BY <1>1, ProjectAssumption, UserTypes DEF UserGet, TypeOK, files
<1>2. CASE GetRefused
  BY <1>2 DEF GetRefused, GetReturns, End, registry, files, ghosts, TypeOK
<1>3. CASE Resolve
  BY <1>3 DEF Resolve, registry, files, ghosts, TypeOK
<1>4. CASE Fetch
  <2>1. PICK n \in todo : /\ cur' = n /\ got' \in Served(n)
                          /\ pc' = IF lib[n] = Absent THEN "rename" ELSE "remove"
    BY <1>4 DEF Fetch
  <2>2. n \in Names /\ got' \in Releases
    BY <2>1 DEF TypeOK, Pinned, Served
  <2> QED
    BY <1>4, <2>1, <2>2 DEF Fetch, TypeOK, registry, files, ghosts
<1>5. CASE FetchFails
  BY <1>5 DEF FetchFails, FetchReturns, GetReturns, End, registry, files, ghosts, TypeOK
<1>6. CASE Rename
  <2>1. cur \in Pinned(want) /\ got = want[cur]
    BY <1>6 DEF Rename, Handled, Replacing, TypeOK
  <2>2. cur \in Names /\ got \in Releases /\ got.izim = cur
    BY <2>1, PinsAreReleases DEF TypeOK
  <2>3. [rec |-> got, left |-> "all"] \in Entry
    BY <2>2, EntryHere
  <2>4. /\ lib' \in [Names -> Entry \cup {Absent}]
        /\ \A n \in Names : lib'[n] # Absent => lib'[n].rec.izim = n
    BY <1>6, <2>2, <2>3 DEF Rename, TypeOK
  <2> QED
    BY <1>6, <2>4 DEF Rename, TypeOK, registry, ghosts
<1>7. CASE RenameFails
  BY <1>7 DEF RenameFails, FetchReturns, GetReturns, End, Disk, registry, files, ghosts, TypeOK
<1>8. CASE GetFetched
  BY <1>8 DEF GetFetched, registry, files, ghosts, locals, TypeOK
<1>9. CASE LockWrite
  BY <1>9 DEF LockWrite, registry, ghosts, locals, TypeOK
<1>10. CASE LockWriteFails
  <2>1. lock' \in PinSets
    <3>1. CASE lock' = lock
      BY <3>1 DEF TypeOK
    <3>2. ASSUME NEW kept \in SUBSET Pinned(want),
                 lock' = [n \in Names |-> IF n \in kept THEN want[n] ELSE NoPin]
          PROVE  lock' \in PinSets
      BY <3>2 DEF TypeOK, PinSets
    <3> QED
      BY <1>10, <3>1, <3>2 DEF LockWriteFails
  <2> QED
    BY <1>10, <2>1 DEF LockWriteFails, Disk, TypeOK, registry, ghosts, locals
<1>11. CASE Declare
  <2>1. root \in Pinned(want)
    BY <1>11 DEF Declare, Flow, Resolved, InGet, Answers, Pinned
  <2>2. NewEntry \in Constraint
    BY <2>1, PinsAreReleases DEF NewEntry, TypeOK, Release, Constraint, Kinds
  <2>3. declared' \in [Names -> Constraint \cup {BadLine, Absent}]
    BY <1>11, <2>2 DEF Declare, TypeOK
  <2> QED
    BY <1>11, <2>3, EndTypes DEF Declare, GetReturns, TypeOK, registry, ghosts
<1>12. CASE DeclareFails
  BY <1>12 DEF DeclareFails, GetReturns, End, Disk, registry, files, ghosts, TypeOK
<1>13. CASE RemoveSome
  <2>1. cur \in Names /\ lib[cur] \in Entry
    BY <1>13 DEF RemoveSome, Flow, Handled, TypeOK
  <2>2. PICK what \in {"manifest", "rest"} : lib' = [lib EXCEPT ![cur].left = what]
    BY <1>13 DEF RemoveSome
  <2>3. [lib[cur] EXCEPT !.left = what] \in Entry
    BY <2>1 DEF Entry
  <2>4. /\ lib' \in [Names -> Entry \cup {Absent}]
        /\ \A n \in Names : lib'[n] # Absent => lib'[n].rec.izim = n
    <3>1. lib' = [lib EXCEPT ![cur] = [lib[cur] EXCEPT !.left = what]]
      BY <2>2
    <3>2. [lib[cur] EXCEPT !.left = what].rec = lib[cur].rec
      OBVIOUS
    <3> QED
      BY <1>13, <2>1, <2>3, <3>1, <3>2 DEF RemoveSome, Handled, TypeOK
  <2> QED
    BY <1>13, <2>4 DEF RemoveSome, TypeOK, registry, ghosts, locals
<1>14. CASE RemoveRest
  BY <1>14 DEF RemoveRest, registry, ghosts, locals, TypeOK
<1>15. CASE RemoveFails
  BY <1>15 DEF RemoveFails, FetchReturns, GetReturns, End, Disk, registry, files, ghosts,
     locals, TypeOK
<1>16. CASE Refetched
  BY <1>16 DEF Refetched, Declared, TypeOK, registry, files, ghosts
<1>17. CASE WalkGet
  BY <1>17 DEF WalkGet, registry, files, ghosts, TypeOK
<1>18. CASE WalkOn
  BY <1>18 DEF WalkOn, registry, files, ghosts, TypeOK
<1>19. CASE TidyEnds
  BY <1>19 DEF TidyEnds, End, registry, files, ghosts, TypeOK
<1>20. CASE Undeclare
  BY <1>20 DEF Undeclare, End, registry, ghosts, TypeOK
<1>21. CASE UndeclareFails
  BY <1>21 DEF UndeclareFails, End, Disk, registry, files, ghosts, TypeOK
<1>22. CASE TidyIdle
  BY <1>22, UserTypes, EndTypes DEF TidyIdle, TypeOK, files
<1>23. CASE TidyRefetch
  BY <1>23, UserTypes DEF TidyRefetch, Missing, TypeOK, files
<1>24. CASE TidyUnlocked
  BY <1>24, UserTypes DEF TidyUnlocked, Declared, TypeOK, files
<1>25. CASE UserRemove
  BY <1>25, UserTypes DEF UserRemove, TypeOK, files
<1>26. CASE Edit
  <2>1. declared' \in [Names -> Constraint \cup {BadLine, Absent}]
    BY <1>26, ProjectAssumption DEF Edit, TypeOK
  <2> QED
    BY <1>26, <2>1, UserTypes, EndTypes DEF Edit, TypeOK
<1>27. CASE FreshClone
  BY <1>27, UserTypes, EndTypes DEF FreshClone, TypeOK
<1>28. CASE Crash
  BY <1>28 DEF Crash, End, registry, files, ghosts, TypeOK
<1>29. CASE Publish
  <2>1. offered' \subseteq Releases
    BY <1>29 DEF Publish, TypeOK
  <2>2. churn' \in 0..MaxChurn
    <3>1. MaxChurn \in Nat /\ churn \in 0..MaxChurn /\ churn < MaxChurn /\ churn' = churn + 1
      BY <1>29, ProjectAssumption DEF Publish, TypeOK
    <3> QED
      BY <3>1
  <2>3. /\ UNCHANGED <<declared, lock, lib, cmds, op, before, pc>>
        /\ UNCHANGED <<root, cons, want, todo, cur, got, stage, old, keys, failed, last, trouble>>
    BY <1>29 DEF Publish, files, ghosts, locals
  <2> QED
    BY <2>1, <2>2, <2>3, ZenonT(60) DEF TypeOK
<1>30. CASE UNCHANGED vars
  BY <1>30, Stutter DEF TypeOK
<1> QED
  BY <1>1, <1>2, <1>3, <1>4, <1>5, <1>6, <1>7, <1>8, <1>9, <1>10, <1>11, <1>12, <1>13,
     <1>14, <1>15, <1>16, <1>17, <1>18, <1>19, <1>20, <1>21, <1>22, <1>23, <1>24, <1>25,
     <1>26, <1>27, <1>28, <1>29, <1>30 DEF Next, Step, Begin

-----------------------------------------------------------------------------
(* The parts of the invariant, one by one *)

\* The commands' steps follow each other as Flow says.
LEMMA FlowStep == TypeOK /\ Flow /\ Handled /\ [Next]_vars => Flow'
<1> SUFFICES ASSUME TypeOK, Flow, Handled, [Next]_vars PROVE Flow'
  OBVIOUS
<1>1. CASE UserGet
  BY <1>1, ProjectAssumption DEF UserGet, User, Flow
<1>2. CASE GetRefused
  BY <1>2 DEF GetRefused, GetReturns, End, ghosts, Flow, Fetching, Replacing, InGet
<1>3. CASE Resolve
  BY <1>3 DEF Resolve, ghosts, Flow
<1>4. CASE Fetch
  <2>1. PICK n \in todo : /\ cur' = n
                          /\ pc' = IF lib[n] = Absent THEN "rename" ELSE "remove"
    BY <1>4 DEF Fetch
  <2>2. n \in Names
    BY DEF TypeOK, Pinned
  <2> QED
    BY <1>4, <2>1, <2>2 DEF Fetch, ghosts, Flow, Fetching, Replacing, InGet
<1>5. CASE FetchFails
  BY <1>5 DEF FetchFails, FetchReturns, GetReturns, End, ghosts, Flow, Fetching,
     Replacing, InGet
<1>6. CASE Rename
  BY <1>6 DEF Rename, ghosts, Flow, Fetching, Replacing, InGet
<1>7. CASE RenameFails
  BY <1>7 DEF RenameFails, FetchReturns, GetReturns, End, ghosts, Flow, Fetching,
     Replacing, InGet
<1>8. CASE GetFetched
  BY <1>8 DEF GetFetched, ghosts, locals, Flow, Fetching, InGet
<1>9. CASE LockWrite
  BY <1>9 DEF LockWrite, ghosts, locals, Flow, InGet
<1>10. CASE LockWriteFails
  BY <1>10 DEF LockWriteFails, ghosts, locals, Flow, InGet
<1>11. CASE Declare
  BY <1>11 DEF Declare, GetReturns, End, ghosts, Flow, Fetching, Replacing, InGet
<1>12. CASE DeclareFails
  BY <1>12 DEF DeclareFails, GetReturns, End, ghosts, Flow, Fetching, Replacing, InGet
<1>13. CASE RemoveSome
  BY <1>13 DEF RemoveSome, ghosts, locals, Flow, Fetching, Replacing, InGet
<1>14. CASE RemoveRest
  BY <1>14 DEF RemoveRest, ghosts, locals, Flow, Fetching, Replacing, InGet
<1>15. CASE RemoveFails
  BY <1>15 DEF RemoveFails, FetchReturns, GetReturns, End, ghosts, locals, Flow,
     Fetching, Replacing, InGet
<1>16. CASE Refetched
  BY <1>16 DEF Refetched, ghosts, Flow, InGet
<1>17. CASE WalkGet
  BY <1>17 DEF WalkGet, ghosts, Flow, TypeOK
<1>18. CASE WalkOn
  BY <1>18 DEF WalkOn, ghosts, Flow, Fetching, Replacing, InGet
<1>19. CASE TidyEnds
  BY <1>19 DEF TidyEnds, End, Flow, Fetching, Replacing, InGet
<1>20. CASE Undeclare
  BY <1>20 DEF Undeclare, End, Flow, Fetching, Replacing, InGet
<1>21. CASE UndeclareFails
  BY <1>21 DEF UndeclareFails, End, Flow, Fetching, Replacing, InGet
<1>22. CASE TidyIdle
  BY <1>22 DEF TidyIdle, End, Flow, Fetching, Replacing, InGet
<1>23. CASE TidyRefetch
  BY <1>23 DEF TidyRefetch, User, Flow, InGet
<1>24. CASE TidyUnlocked
  BY <1>24 DEF TidyUnlocked, User, Flow, Fetching, Replacing, InGet
<1>25. CASE UserRemove
  BY <1>25 DEF UserRemove, User, Flow, Fetching, Replacing, InGet
<1>26. CASE Edit
  BY <1>26 DEF Edit, End, Flow, Fetching, Replacing, InGet
<1>27. CASE FreshClone
  BY <1>27 DEF FreshClone, End, Flow, Fetching, Replacing, InGet
<1>28. CASE Crash
  BY <1>28 DEF Crash, End, Flow, Fetching, Replacing, InGet
<1>29. CASE Publish
  BY <1>29 DEF Publish, ghosts, locals, Flow, Fetching, Replacing, InGet
<1>30. CASE UNCHANGED vars
  BY <1>30 DEF vars, ghosts, locals, Flow, Fetching, Replacing, InGet
<1> QED
  BY <1>1, <1>2, <1>3, <1>4, <1>5, <1>6, <1>7, <1>8, <1>9, <1>10, <1>11, <1>12, <1>13,
     <1>14, <1>15, <1>16, <1>17, <1>18, <1>19, <1>20, <1>21, <1>22, <1>23, <1>24, <1>25,
     <1>26, <1>27, <1>28, <1>29, <1>30 DEF Next, Step, Begin

\* What is fetched is the archive the pin names, since a digest is that of one archive.
LEMMA HandledStep == TypeOK /\ Flow /\ Handled /\ Resolved /\ [Next]_vars => Handled'
<1> SUFFICES ASSUME TypeOK, Flow, Handled, Resolved, [Next]_vars PROVE Handled'
  OBVIOUS
<1>1. CASE UserGet
  BY <1>1 DEF UserGet, Handled, Replacing
<1>2. CASE GetRefused
  BY <1>2 DEF GetRefused, GetReturns, End, Handled, Replacing
<1>3. CASE Resolve
  BY <1>3 DEF Resolve, Handled, Replacing
<1>4. CASE Fetch
  <2>1. PICK n \in todo : /\ cur' = n /\ got' \in Served(n)
                          /\ pc' = IF lib[n] = Absent THEN "rename" ELSE "remove"
    BY <1>4 DEF Fetch
  <2>2. got' = want[n]
    <3>1. want[n] \in Releases /\ want[n].izim = n
      BY PinsAreReleases DEF TypeOK
    <3>2. /\ got' \in Releases /\ got'.izim = n
          /\ got'.ver = want[n].ver /\ got'.sema = want[n].sema
      BY <2>1 DEF Served, TypeOK
    <3> QED
      BY <3>1, <3>2, ProjectAssumption
  <2> QED
    BY <1>4, <2>1, <2>2 DEF Fetch, files, ghosts, Handled, Replacing
<1>5. CASE FetchFails
  BY <1>5 DEF FetchFails, FetchReturns, GetReturns, End, Handled, Replacing
<1>6. CASE Rename
  BY <1>6 DEF Rename, Handled, Replacing
<1>7. CASE RenameFails
  BY <1>7 DEF RenameFails, FetchReturns, GetReturns, End, Handled, Replacing
<1>8. CASE GetFetched
  BY <1>8 DEF GetFetched, Handled, Replacing
<1>9. CASE LockWrite
  BY <1>9 DEF LockWrite, Handled, Replacing
<1>10. CASE LockWriteFails
  BY <1>10 DEF LockWriteFails, Handled, Replacing
<1>11. CASE Declare
  BY <1>11 DEF Declare, GetReturns, End, Handled, Replacing
<1>12. CASE DeclareFails
  BY <1>12 DEF DeclareFails, GetReturns, End, Handled, Replacing
<1>13. CASE RemoveSome
  <2>1. cur \in Names /\ lib[cur] \in Entry /\ lib \in [Names -> Entry \cup {Absent}]
    BY <1>13 DEF RemoveSome, Flow, Handled, TypeOK
  <2>2. PICK what \in {"manifest", "rest"} : lib' = [lib EXCEPT ![cur].left = what]
    BY <1>13 DEF RemoveSome
  <2>3. lib'[cur] \in Entry
    BY <2>1, <2>2 DEF Entry
  <2>4. lib'[cur] # Absent
    BY <2>3, ProjectAssumption
  <2> QED
    BY <1>13, <2>4 DEF RemoveSome, ghosts, locals, Handled, Replacing
<1>14. CASE RemoveRest
  BY <1>14 DEF RemoveRest, locals, Handled, Flow, Replacing, TypeOK
<1>15. CASE RemoveFails
  BY <1>15 DEF RemoveFails, FetchReturns, GetReturns, End, Handled, Replacing
<1>16. CASE Refetched
  BY <1>16 DEF Refetched, Handled, Replacing
<1>17. CASE WalkGet
  BY <1>17 DEF WalkGet, Handled, Replacing
<1>18. CASE WalkOn
  BY <1>18 DEF WalkOn, Handled, Replacing
<1>19. CASE TidyEnds
  BY <1>19 DEF TidyEnds, End, Handled, Replacing
<1>20. CASE Undeclare
  BY <1>20 DEF Undeclare, End, Handled, Replacing
<1>21. CASE UndeclareFails
  BY <1>21 DEF UndeclareFails, End, Handled, Replacing
<1>22. CASE TidyIdle
  BY <1>22 DEF TidyIdle, End, Handled, Replacing
<1>23. CASE TidyRefetch
  BY <1>23 DEF TidyRefetch, Handled, Replacing
<1>24. CASE TidyUnlocked
  BY <1>24 DEF TidyUnlocked, Handled, Replacing
<1>25. CASE UserRemove
  BY <1>25 DEF UserRemove, User, files, Handled, Replacing
<1>26. CASE Edit
  BY <1>26 DEF Edit, End, Handled, Replacing
<1>27. CASE FreshClone
  BY <1>27 DEF FreshClone, End, Handled, Replacing
<1>28. CASE Crash
  BY <1>28 DEF Crash, End, Handled, Replacing
<1>29. CASE Publish
  BY <1>29 DEF Publish, files, ghosts, locals, Handled, Replacing
<1>30. CASE UNCHANGED vars
  BY <1>30 DEF vars, files, ghosts, locals, Handled, Replacing
<1> QED
  BY <1>1, <1>2, <1>3, <1>4, <1>5, <1>6, <1>7, <1>8, <1>9, <1>10, <1>11, <1>12, <1>13,
     <1>14, <1>15, <1>16, <1>17, <1>18, <1>19, <1>20, <1>21, <1>22, <1>23, <1>24, <1>25,
     <1>26, <1>27, <1>28, <1>29, <1>30 DEF Next, Step, Begin

\* Only a resolution starts a fetch by do_get, and only the lock one by tidy.
LEMMA ResolvedStep == TypeOK /\ Flow /\ Handled /\ Resolved /\ [Next]_vars => Resolved'
<1> SUFFICES ASSUME TypeOK, Flow, Handled, Resolved, [Next]_vars PROVE Resolved'
  OBVIOUS
<1>1. CASE UserGet
  BY <1>1 DEF UserGet, Resolved, InGet, Fetching, Replacing
<1>2. CASE GetRefused
  BY <1>2 DEF GetRefused, GetReturns, End, Resolved, InGet, Fetching, Replacing
<1>3. CASE Resolve
  BY <1>3 DEF Resolve, Resolved, Flow
<1>4. CASE Fetch
  BY <1>4 DEF Fetch, files, Resolved, InGet, Fetching
<1>5. CASE FetchFails
  BY <1>5 DEF FetchFails, FetchReturns, GetReturns, End, Resolved, InGet, Fetching, Replacing
<1>6. CASE Rename
  BY <1>6 DEF Rename, Resolved, InGet, Fetching, Replacing
<1>7. CASE RenameFails
  BY <1>7 DEF RenameFails, FetchReturns, GetReturns, End, Resolved, InGet, Fetching, Replacing
<1>8. CASE GetFetched
  BY <1>8 DEF GetFetched, locals, Resolved, InGet, Fetching
<1>9. CASE LockWrite
  BY <1>9 DEF LockWrite, locals, Resolved, InGet
<1>10. CASE LockWriteFails
  BY <1>10 DEF LockWriteFails, locals, Resolved, InGet, Flow
<1>11. CASE Declare
  BY <1>11 DEF Declare, GetReturns, End, Resolved, InGet, Fetching, Replacing
<1>12. CASE DeclareFails
  BY <1>12 DEF DeclareFails, GetReturns, End, Resolved, InGet, Fetching, Replacing
<1>13. CASE RemoveSome
  BY <1>13 DEF RemoveSome, ghosts, locals, Resolved, InGet, Fetching, Replacing
<1>14. CASE RemoveRest
  BY <1>14 DEF RemoveRest, locals, Resolved, InGet, Fetching, Replacing
<1>15. CASE RemoveFails
  BY <1>15 DEF RemoveFails, FetchReturns, GetReturns, End, Resolved, InGet, Fetching, Replacing
<1>16. CASE Refetched
  BY <1>16 DEF Refetched, files, Resolved, InGet, Fetching
<1>17. CASE WalkGet
  BY <1>17 DEF WalkGet, Resolved, InGet, Fetching, Replacing
<1>18. CASE WalkOn
  BY <1>18 DEF WalkOn, Resolved, InGet, Fetching, Replacing
<1>19. CASE TidyEnds
  BY <1>19 DEF TidyEnds, End, Resolved, InGet, Fetching, Replacing
<1>20. CASE Undeclare
  BY <1>20 DEF Undeclare, End, Resolved, InGet, Fetching, Replacing
<1>21. CASE UndeclareFails
  BY <1>21 DEF UndeclareFails, End, Resolved, InGet, Fetching, Replacing
<1>22. CASE TidyIdle
  BY <1>22 DEF TidyIdle, End, Resolved, InGet, Fetching, Replacing
<1>23. CASE TidyRefetch
  BY <1>23 DEF TidyRefetch, files, Resolved, InGet
<1>24. CASE TidyUnlocked
  BY <1>24 DEF TidyUnlocked, Resolved, InGet, Fetching, Replacing
<1>25. CASE UserRemove
  BY <1>25 DEF UserRemove, User, Resolved, InGet, Fetching, Replacing
<1>26. CASE Edit
  BY <1>26 DEF Edit, End, Resolved, InGet, Fetching, Replacing
<1>27. CASE FreshClone
  BY <1>27 DEF FreshClone, End, Resolved, InGet, Fetching, Replacing
<1>28. CASE Crash
  BY <1>28 DEF Crash, End, Resolved, InGet, Fetching, Replacing
<1>29. CASE Publish
  BY <1>29 DEF Publish, files, ghosts, locals, Resolved, InGet, Fetching, Replacing
<1>30. CASE UNCHANGED vars
  BY <1>30 DEF vars, files, ghosts, locals, Resolved, InGet, Fetching, Replacing
<1> QED
  BY <1>1, <1>2, <1>3, <1>4, <1>5, <1>6, <1>7, <1>8, <1>9, <1>10, <1>11, <1>12, <1>13,
     <1>14, <1>15, <1>16, <1>17, <1>18, <1>19, <1>20, <1>21, <1>22, <1>23, <1>24, <1>25,
     <1>26, <1>27, <1>28, <1>29, <1>30 DEF Next, Step, Begin

\* What has been renamed into place stays there while the rest is fetched.
LEMMA FetchedStep == TypeOK /\ Flow /\ Handled /\ Resolved /\ Fetched /\ [Next]_vars => Fetched'
<1> SUFFICES ASSUME TypeOK, Flow, Handled, Resolved, Fetched, [Next]_vars PROVE Fetched'
  OBVIOUS
<1>1. CASE UserGet
  BY <1>1 DEF UserGet, Fetched, Fetching, Replacing
<1>2. CASE GetRefused
  BY <1>2 DEF GetRefused, GetReturns, End, Fetched, Fetching, Replacing
<1>3. CASE Resolve
  BY <1>3 DEF Resolve, Fetched
<1>4. CASE Fetch
  BY <1>4 DEF Fetch, files, Fetched, Fetching, Whole, installed_at
<1>5. CASE FetchFails
  BY <1>5 DEF FetchFails, FetchReturns, GetReturns, End, Fetched, Fetching, Replacing, Whole
<1>6. CASE Rename
  <2>1. cur \in Names /\ cur \in todo /\ got = want[cur]
    BY <1>6 DEF Rename, Handled, Replacing, TypeOK, Pinned
  <2>2. lib' = [lib EXCEPT ![cur] = [rec |-> want[cur], left |-> "all"]]
    BY <1>6, <2>1 DEF Rename
  <2>3. lib \in [Names -> Entry \cup {Absent}]
    BY DEF TypeOK
  <2>4. want[cur] \in Releases
    BY <2>1, PinsAreReleases DEF TypeOK
  <2>5. ASSUME NEW n \in Pinned(want) \ todo'
        PROVE  IF stage = "get" THEN Whole(n, want[n])' ELSE installed_at(n, want[n].ver)'
    <3>1. CASE n = cur
      <4>1. lib'[n] = [rec |-> want[n], left |-> "all"] /\ lib'[n] # Absent
        BY <2>1, <2>2, <2>3, <2>4, <3>1, EntryHere
      <4> QED
        BY <1>6, <4>1 DEF Rename, Whole, installed_at
    <3>2. CASE n # cur
      <4>1. n \in Pinned(want) \ todo /\ lib'[n] = lib[n] /\ n \in Names
        BY <1>6, <3>2 DEF Rename, Pinned
      <4> QED
        BY <1>6, <4>1 DEF Rename, Fetched, Fetching, Replacing, Whole, installed_at
    <3> QED
      BY <3>1, <3>2
  <2> QED
    BY <1>6, <2>5 DEF Rename, Fetched, Pinned
<1>7. CASE RenameFails
  BY <1>7 DEF RenameFails, FetchReturns, GetReturns, End, Fetched, Fetching, Replacing
<1>8. CASE GetFetched
  BY <1>8 DEF GetFetched, Fetched, Fetching, Replacing
<1>9. CASE LockWrite
  BY <1>9 DEF LockWrite, Fetched, Fetching, Replacing
<1>10. CASE LockWriteFails
  BY <1>10 DEF LockWriteFails, Fetched, Fetching, Replacing
<1>11. CASE Declare
  BY <1>11 DEF Declare, GetReturns, End, Fetched, Fetching, Replacing
<1>12. CASE DeclareFails
  BY <1>12 DEF DeclareFails, GetReturns, End, Fetched, Fetching, Replacing
<1>13. CASE RemoveSome
  BY <1>13 DEF RemoveSome, ghosts, locals, Fetched, Fetching, Replacing, Handled, Whole,
     installed_at
<1>14. CASE RemoveRest
  BY <1>14 DEF RemoveRest, locals, Fetched, Fetching, Replacing, Handled, Whole, installed_at
<1>15. CASE RemoveFails
  BY <1>15 DEF RemoveFails, FetchReturns, GetReturns, End, Disk, registry, files, ghosts,
     locals, Fetched, Flow, Fetching, Replacing, Handled, TypeOK, Pinned, Whole
<1>16. CASE Refetched
  BY <1>16 DEF Refetched, Fetched, Fetching, Replacing
<1>17. CASE WalkGet
  BY <1>17 DEF WalkGet, Fetched, Fetching, Replacing
<1>18. CASE WalkOn
  BY <1>18 DEF WalkOn, Fetched, Fetching, Replacing
<1>19. CASE TidyEnds
  BY <1>19 DEF TidyEnds, End, Fetched, Fetching, Replacing
<1>20. CASE Undeclare
  BY <1>20 DEF Undeclare, End, Fetched, Fetching, Replacing
<1>21. CASE UndeclareFails
  BY <1>21 DEF UndeclareFails, End, Fetched, Fetching, Replacing
<1>22. CASE TidyIdle
  BY <1>22 DEF TidyIdle, End, Fetched, Fetching, Replacing
<1>23. CASE TidyRefetch
  BY <1>23 DEF TidyRefetch, Fetched, Missing, files, installed_at
<1>24. CASE TidyUnlocked
  BY <1>24 DEF TidyUnlocked, Fetched, Fetching, Replacing
<1>25. CASE UserRemove
  BY <1>25 DEF UserRemove, User, Fetched, Fetching, Replacing
<1>26. CASE Edit
  BY <1>26 DEF Edit, End, Fetched, Fetching, Replacing
<1>27. CASE FreshClone
  BY <1>27 DEF FreshClone, End, Fetched, Fetching, Replacing
<1>28. CASE Crash
  BY <1>28 DEF Crash, End, Fetched, Fetching, Replacing
<1>29. CASE Publish
  BY <1>29 DEF Publish, files, ghosts, locals, Fetched, Fetching, Replacing, Whole, installed_at
<1>30. CASE UNCHANGED vars
  BY <1>30 DEF vars, files, ghosts, locals, Fetched, Fetching, Replacing, Whole, installed_at
<1> QED
  BY <1>1, <1>2, <1>3, <1>4, <1>5, <1>6, <1>7, <1>8, <1>9, <1>10, <1>11, <1>12, <1>13,
     <1>14, <1>15, <1>16, <1>17, <1>18, <1>19, <1>20, <1>21, <1>22, <1>23, <1>24, <1>25,
     <1>26, <1>27, <1>28, <1>29, <1>30 DEF Next, Step, Begin

\* Without a failing disk and a crash, no directory stays half removed.
LEMMA UntroubledStep == TypeOK /\ Flow /\ Handled /\ Untroubled /\ [Next]_vars => Untroubled'
<1> SUFFICES ASSUME TypeOK, Flow, Handled, Untroubled, [Next]_vars PROVE Untroubled'
  OBVIOUS
<1>1. CASE UserGet
  BY <1>1 DEF UserGet, User, files, Untroubled, Present, WholePackages
<1>2. CASE GetRefused
  BY <1>2 DEF GetRefused, GetReturns, End, files, ghosts, Untroubled, Present, WholePackages
<1>3. CASE Resolve
  BY <1>3 DEF Resolve, files, ghosts, Untroubled, Present, WholePackages
<1>4. CASE Fetch
  BY <1>4 DEF Fetch, files, ghosts, Untroubled, Present, WholePackages
<1>5. CASE FetchFails
  BY <1>5 DEF FetchFails, FetchReturns, GetReturns, End, files, ghosts, Untroubled,
     Present, WholePackages
<1>6. CASE Rename
  <2>1. cur \in Names /\ got \in Releases
    BY <1>6 DEF Rename, Handled, Replacing, TypeOK, Pinned
  <2>2. lib' = [lib EXCEPT ![cur] = [rec |-> got, left |-> "all"]]
    BY <1>6 DEF Rename
  <2>3. lib \in [Names -> Entry \cup {Absent}] /\ before \subseteq Names
    BY DEF TypeOK
  <2>4. lib'[cur] # Absent /\ lib'[cur].left = "all"
    BY <2>1, <2>2, <2>3, EntryHere
  <2>5. \A n \in Names \ {cur} : lib'[n] = lib[n]
    BY <2>2
  <2>6. Present' \subseteq Present \cup {cur} /\ Present \subseteq Present' /\ cur \in Present'
    BY <2>1, <2>4, <2>5 DEF Present
  <2>7. WholePackages \ {cur} \subseteq WholePackages' /\ cur \in WholePackages'
    BY <2>1, <2>4, <2>5 DEF WholePackages
  <2> QED
    BY <1>6, <2>6, <2>7 DEF Rename, ghosts, Untroubled
<1>7. CASE RenameFails
  BY <1>7 DEF RenameFails, Disk, Untroubled
<1>8. CASE GetFetched
  BY <1>8 DEF GetFetched, files, ghosts, Untroubled, Present, WholePackages
<1>9. CASE LockWrite
  BY <1>9 DEF LockWrite, ghosts, locals, Untroubled, Present, WholePackages
<1>10. CASE LockWriteFails
  BY <1>10 DEF LockWriteFails, Disk, Untroubled
<1>11. CASE Declare
  BY <1>11 DEF Declare, GetReturns, End, ghosts, Untroubled, Present, WholePackages
<1>12. CASE DeclareFails
  BY <1>12 DEF DeclareFails, GetReturns, End, Disk, registry, files, ghosts, Untroubled,
     Flow, Handled, Fetching, Replacing, TypeOK, Present
<1>13. CASE RemoveSome
  <2>1. cur \in Names /\ lib[cur] \in Entry /\ lib \in [Names -> Entry \cup {Absent}]
    BY <1>13 DEF RemoveSome, Flow, Handled, TypeOK
  <2>2. PICK what \in {"manifest", "rest"} : lib' = [lib EXCEPT ![cur].left = what]
    BY <1>13 DEF RemoveSome
  <2>3. lib'[cur] # Absent
    <3>1. lib'[cur] \in Entry
      BY <2>1, <2>2 DEF Entry
    <3> QED
      BY <3>1, ProjectAssumption
  <2>4. \A n \in Names \ {cur} : lib'[n] = lib[n]
    BY <2>2
  <2>5. Present' = Present /\ WholePackages \ {cur} \subseteq WholePackages'
    BY <1>13, <2>3 DEF RemoveSome, Handled, Present, WholePackages
  <2> QED
    BY <1>13, <2>5 DEF RemoveSome, ghosts, locals, Untroubled
<1>14. CASE RemoveRest
  BY <1>14 DEF RemoveRest, ghosts, locals, Untroubled, TypeOK, Present, WholePackages
<1>15. CASE RemoveFails
  BY <1>15 DEF RemoveFails, Disk, Untroubled
<1>16. CASE Refetched
  BY <1>16 DEF Refetched, files, ghosts, Untroubled, Present, WholePackages
<1>17. CASE WalkGet
  BY <1>17 DEF WalkGet, files, ghosts, Untroubled, Present, WholePackages
<1>18. CASE WalkOn
  BY <1>18 DEF WalkOn, files, ghosts, Untroubled, Present, WholePackages
<1>19. CASE TidyEnds
  BY <1>19 DEF TidyEnds, End, files, ghosts, Untroubled, Present, WholePackages
<1>20. CASE Undeclare
  BY <1>20 DEF Undeclare, End, ghosts, Untroubled, Present, WholePackages
<1>21. CASE UndeclareFails
  BY <1>21 DEF UndeclareFails, Disk, Untroubled
<1>22. CASE TidyIdle
  BY <1>22 DEF TidyIdle, User, End, files, Untroubled, Present, WholePackages
<1>23. CASE TidyRefetch
  BY <1>23 DEF TidyRefetch, User, files, Untroubled, Present, WholePackages
<1>24. CASE TidyUnlocked
  BY <1>24 DEF TidyUnlocked, User, files, Untroubled, Present, WholePackages
<1>25. CASE UserRemove
  BY <1>25 DEF UserRemove, User, files, Untroubled, Present, WholePackages
<1>26. CASE Edit
  BY <1>26 DEF Edit, User, End, Untroubled, Present, WholePackages
<1>27. CASE FreshClone
  BY <1>27 DEF FreshClone, End, Untroubled, Present
<1>28. CASE Crash
  BY <1>28 DEF Crash, End, registry, files, ghosts, Untroubled, Flow, Handled, Fetching,
     Replacing, TypeOK, Present
<1>29. CASE Publish
  BY <1>29 DEF Publish, files, ghosts, locals, Untroubled, Flow, Handled, Fetching,
     Replacing, TypeOK, Present, WholePackages
<1>30. CASE UNCHANGED vars
  BY <1>30 DEF vars, registry, files, ghosts, locals, Untroubled, Flow, Handled,
     Fetching, Replacing, TypeOK, Present, WholePackages
<1> QED
  BY <1>1, <1>2, <1>3, <1>4, <1>5, <1>6, <1>7, <1>8, <1>9, <1>10, <1>11, <1>12, <1>13,
     <1>14, <1>15, <1>16, <1>17, <1>18, <1>19, <1>20, <1>21, <1>22, <1>23, <1>24, <1>25,
     <1>26, <1>27, <1>28, <1>29, <1>30 DEF Next, Step, Begin

\* The lock is installed after tidy has refetched, and after each do_get of its walk.
LEMMA WalkedStep ==
  TypeOK /\ Flow /\ Untroubled /\ LockedIsInstalled /\ Fetched /\ Resolved /\ Walked /\
  [Next]_vars
    => Walked'
<1> SUFFICES ASSUME TypeOK, Flow, Untroubled, LockedIsInstalled, Fetched, Resolved,
                    Walked, [Next]_vars
             PROVE  Walked'
  OBVIOUS
<1>1. CASE UserGet
  BY <1>1 DEF UserGet, Walked
<1>2. CASE GetRefused
  BY <1>2 DEF GetRefused, GetReturns, End, Walked
<1>3. CASE Resolve
  BY <1>3 DEF Resolve, Walked
<1>4. CASE Fetch
  BY <1>4 DEF Fetch, Walked
<1>5. CASE FetchFails
  BY <1>5 DEF FetchFails, FetchReturns, GetReturns, End, Walked
<1>6. CASE Rename
  BY <1>6 DEF Rename, Walked
<1>7. CASE RenameFails
  BY <1>7 DEF RenameFails, FetchReturns, GetReturns, End, Walked
<1>8. CASE GetFetched
  BY <1>8 DEF GetFetched, Walked
<1>9. CASE LockWrite
  BY <1>9 DEF LockWrite, Walked
<1>10. CASE LockWriteFails
  BY <1>10 DEF LockWriteFails, Walked
<1>11. CASE Declare
  <2>1. ASSUME trouble = {}, NEW n \in Pinned(lock)
        PROVE  lib[n] # Absent /\ lib[n].left = "all" /\ lib[n].rec = lock[n] /\ n \in Names
    <3>1. lock = want /\ Whole(n, lock[n])
      BY <1>11, <2>1 DEF Declare, Untroubled, LockedIsInstalled
    <3>2. lock[n] \in Releases
      BY PinsAreReleases DEF TypeOK
    <3> QED
      BY <3>1, <3>2, EntryHere DEF Whole, Pinned
  <2>2. trouble = {} => LockInstalled
    BY <2>1 DEF LockInstalled, WholePackages
  <2>3. UNCHANGED <<lock, lib, trouble>>
    BY <1>11 DEF Declare
  <2> QED
    BY <2>2, <2>3 DEF Walked, LockInstalled, WholePackages
<1>12. CASE DeclareFails
  BY <1>12 DEF DeclareFails, Disk, Walked
<1>13. CASE RemoveSome
  BY <1>13 DEF RemoveSome, Walked
<1>14. CASE RemoveRest
  BY <1>14 DEF RemoveRest, Walked
<1>15. CASE RemoveFails
  BY <1>15 DEF RemoveFails, FetchReturns, GetReturns, End, Walked
<1>16. CASE Refetched
  <2>1. lock = want /\ todo = {} /\ \A n \in Pinned(lock) : installed_at(n, lock[n].ver)
    BY <1>16 DEF Refetched, Resolved, Fetched, Fetching
  <2>2. trouble = {} => \A n \in Names : lib[n] # Absent => n \in WholePackages
    BY <1>16 DEF Refetched, Untroubled, Present
  <2>3. trouble = {} => LockInstalled
    BY <2>1, <2>2 DEF LockInstalled, installed_at, Pinned
  <2>4. UNCHANGED <<lock, lib, trouble>>
    BY <1>16 DEF Refetched, files
  <2> QED
    BY <2>3, <2>4 DEF Walked, LockInstalled, WholePackages
<1>17. CASE WalkGet
  BY <1>17 DEF WalkGet, Walked
<1>18. CASE WalkOn
  BY <1>18 DEF WalkOn, files, Walked, LockInstalled, WholePackages
<1>19. CASE TidyEnds
  BY <1>19 DEF TidyEnds, End, Walked
<1>20. CASE Undeclare
  BY <1>20 DEF Undeclare, End, Walked
<1>21. CASE UndeclareFails
  BY <1>21 DEF UndeclareFails, End, Walked
<1>22. CASE TidyIdle
  BY <1>22 DEF TidyIdle, End, Walked
<1>23. CASE TidyRefetch
  BY <1>23 DEF TidyRefetch, Walked
<1>24. CASE TidyUnlocked
  BY <1>24 DEF TidyUnlocked, files, Walked, LockInstalled
<1>25. CASE UserRemove
  BY <1>25 DEF UserRemove, Walked
<1>26. CASE Edit
  BY <1>26 DEF Edit, End, Walked
<1>27. CASE FreshClone
  BY <1>27 DEF FreshClone, User, End, registry, Walked, LockInstalled, Flow,
     LockedIsInstalled, Untroubled, WholePackages
<1>28. CASE Crash
  BY <1>28 DEF Crash, Walked
<1>29. CASE Publish
  BY <1>29 DEF Publish, files, locals, Walked, LockInstalled, WholePackages
<1>30. CASE UNCHANGED vars
  BY <1>30 DEF vars, files, locals, Walked, LockInstalled, WholePackages
<1> QED
  BY <1>1, <1>2, <1>3, <1>4, <1>5, <1>6, <1>7, <1>8, <1>9, <1>10, <1>11, <1>12, <1>13,
     <1>14, <1>15, <1>16, <1>17, <1>18, <1>19, <1>20, <1>21, <1>22, <1>23, <1>24, <1>25,
     <1>26, <1>27, <1>28, <1>29, <1>30 DEF Next, Step, Begin

\* The lock is replaced by a whole resolution, unless a write fails.
LEMMA LockClosedStep == TypeOK /\ Flow /\ Resolved /\ LockClosed /\ [Next]_vars => LockClosed'
<1> SUFFICES ASSUME TypeOK, Flow, Resolved, LockClosed, [Next]_vars PROVE LockClosed'
  OBVIOUS
<1>1. CASE UserGet
  BY <1>1 DEF UserGet, User, files, LockClosed
<1>2. CASE GetRefused
  BY <1>2 DEF GetRefused, files, LockClosed
<1>3. CASE Resolve
  BY <1>3 DEF Resolve, files, LockClosed
<1>4. CASE Fetch
  BY <1>4 DEF Fetch, files, LockClosed
<1>5. CASE FetchFails
  BY <1>5 DEF FetchFails, files, LockClosed
<1>6. CASE Rename
  BY <1>6 DEF Rename, LockClosed
<1>7. CASE RenameFails
  BY <1>7 DEF RenameFails, Disk, LockClosed
<1>8. CASE GetFetched
  BY <1>8 DEF GetFetched, files, LockClosed
<1>9. CASE LockWrite
  BY <1>9 DEF LockWrite, LockClosed, Flow, Resolved, InGet, Answers
<1>10. CASE LockWriteFails
  BY <1>10 DEF LockWriteFails, Disk, LockClosed
<1>11. CASE Declare
  BY <1>11 DEF Declare, LockClosed
<1>12. CASE DeclareFails
  BY <1>12 DEF DeclareFails, Disk, LockClosed
<1>13. CASE RemoveSome
  BY <1>13 DEF RemoveSome, LockClosed
<1>14. CASE RemoveRest
  BY <1>14 DEF RemoveRest, LockClosed
<1>15. CASE RemoveFails
  BY <1>15 DEF RemoveFails, Disk, LockClosed
<1>16. CASE Refetched
  BY <1>16 DEF Refetched, files, LockClosed
<1>17. CASE WalkGet
  BY <1>17 DEF WalkGet, files, LockClosed
<1>18. CASE WalkOn
  BY <1>18 DEF WalkOn, files, LockClosed
<1>19. CASE TidyEnds
  BY <1>19 DEF TidyEnds, files, LockClosed
<1>20. CASE Undeclare
  BY <1>20 DEF Undeclare, LockClosed
<1>21. CASE UndeclareFails
  BY <1>21 DEF UndeclareFails, Disk, LockClosed
<1>22. CASE TidyIdle
  BY <1>22 DEF TidyIdle, User, files, LockClosed
<1>23. CASE TidyRefetch
  BY <1>23 DEF TidyRefetch, User, files, LockClosed
<1>24. CASE TidyUnlocked
  BY <1>24 DEF TidyUnlocked, User, files, LockClosed
<1>25. CASE UserRemove
  BY <1>25 DEF UserRemove, User, files, LockClosed
<1>26. CASE Edit
  BY <1>26 DEF Edit, User, LockClosed
<1>27. CASE FreshClone
  BY <1>27 DEF FreshClone, User, LockClosed
<1>28. CASE Crash
  BY <1>28 DEF Crash, files, LockClosed
<1>29. CASE Publish
  BY <1>29 DEF Publish, files, LockClosed
<1>30. CASE UNCHANGED vars
  BY <1>30 DEF vars, files, LockClosed
<1> QED
  BY <1>1, <1>2, <1>3, <1>4, <1>5, <1>6, <1>7, <1>8, <1>9, <1>10, <1>11, <1>12, <1>13,
     <1>14, <1>15, <1>16, <1>17, <1>18, <1>19, <1>20, <1>21, <1>22, <1>23, <1>24, <1>25,
     <1>26, <1>27, <1>28, <1>29, <1>30 DEF Next, Step, Begin

\* Nothing is left to be fetched when the lock is written.
LEMMA LockedIsInstalledStep ==
  TypeOK /\ Flow /\ Fetched /\ LockedIsInstalled /\ [Next]_vars
    => LockedIsInstalled'
<1> SUFFICES ASSUME TypeOK, Flow, Fetched, LockedIsInstalled, [Next]_vars
             PROVE  LockedIsInstalled'
  OBVIOUS
<1>1. CASE UserGet
  BY <1>1 DEF UserGet, LockedIsInstalled
<1>2. CASE GetRefused
  BY <1>2 DEF GetRefused, GetReturns, End, LockedIsInstalled
<1>3. CASE Resolve
  BY <1>3 DEF Resolve, LockedIsInstalled
<1>4. CASE Fetch
  BY <1>4 DEF Fetch, LockedIsInstalled
<1>5. CASE FetchFails
  BY <1>5 DEF FetchFails, FetchReturns, GetReturns, End, LockedIsInstalled
<1>6. CASE Rename
  BY <1>6 DEF Rename, LockedIsInstalled
<1>7. CASE RenameFails
  BY <1>7 DEF RenameFails, FetchReturns, GetReturns, End, LockedIsInstalled
<1>8. CASE GetFetched
  BY <1>8 DEF GetFetched, files, locals, LockedIsInstalled, Fetched, Fetching, Whole
<1>9. CASE LockWrite
  BY <1>9 DEF LockWrite, locals, LockedIsInstalled, Whole
<1>10. CASE LockWriteFails
  BY <1>10 DEF LockWriteFails, locals, LockedIsInstalled, Whole
<1>11. CASE Declare
  BY <1>11 DEF Declare, GetReturns, End, LockedIsInstalled
<1>12. CASE DeclareFails
  BY <1>12 DEF DeclareFails, GetReturns, End, LockedIsInstalled
<1>13. CASE RemoveSome
  BY <1>13 DEF RemoveSome, LockedIsInstalled
<1>14. CASE RemoveRest
  BY <1>14 DEF RemoveRest, LockedIsInstalled
<1>15. CASE RemoveFails
  BY <1>15 DEF RemoveFails, FetchReturns, GetReturns, End, LockedIsInstalled
<1>16. CASE Refetched
  BY <1>16 DEF Refetched, LockedIsInstalled
<1>17. CASE WalkGet
  BY <1>17 DEF WalkGet, LockedIsInstalled
<1>18. CASE WalkOn
  BY <1>18 DEF WalkOn, LockedIsInstalled
<1>19. CASE TidyEnds
  BY <1>19 DEF TidyEnds, End, LockedIsInstalled
<1>20. CASE Undeclare
  BY <1>20 DEF Undeclare, End, LockedIsInstalled
<1>21. CASE UndeclareFails
  BY <1>21 DEF UndeclareFails, End, LockedIsInstalled
<1>22. CASE TidyIdle
  BY <1>22 DEF TidyIdle, End, LockedIsInstalled
<1>23. CASE TidyRefetch
  BY <1>23 DEF TidyRefetch, LockedIsInstalled
<1>24. CASE TidyUnlocked
  BY <1>24 DEF TidyUnlocked, LockedIsInstalled
<1>25. CASE UserRemove
  BY <1>25 DEF UserRemove, LockedIsInstalled
<1>26. CASE Edit
  BY <1>26 DEF Edit, End, LockedIsInstalled
<1>27. CASE FreshClone
  BY <1>27 DEF FreshClone, End, LockedIsInstalled
<1>28. CASE Crash
  BY <1>28 DEF Crash, End, LockedIsInstalled
<1>29. CASE Publish
  BY <1>29 DEF Publish, files, locals, LockedIsInstalled, Whole
<1>30. CASE UNCHANGED vars
  BY <1>30 DEF vars, files, locals, LockedIsInstalled, Whole
<1> QED
  BY <1>1, <1>2, <1>3, <1>4, <1>5, <1>6, <1>7, <1>8, <1>9, <1>10, <1>11, <1>12, <1>13,
     <1>14, <1>15, <1>16, <1>17, <1>18, <1>19, <1>20, <1>21, <1>22, <1>23, <1>24, <1>25,
     <1>26, <1>27, <1>28, <1>29, <1>30 DEF Next, Step, Begin

\* Tidy succeeds where it finds everything installed, and where its walk has not failed.
LEMMA TidyRestoresStep ==
  TypeOK /\ Flow /\ Walked /\ Untroubled /\ TidyRestores /\ [Next]_vars
    => TidyRestores'
<1> SUFFICES ASSUME TypeOK, Flow, Walked, Untroubled, TidyRestores, [Next]_vars
             PROVE  TidyRestores'
  OBVIOUS
<1>1. CASE UserGet
  BY <1>1 DEF UserGet, TidyRestores
<1>2. CASE GetRefused
  BY <1>2 DEF GetRefused, GetReturns, End, TidyRestores, Flow
<1>3. CASE Resolve
  BY <1>3 DEF Resolve, TidyRestores, Flow
<1>4. CASE Fetch
  BY <1>4 DEF Fetch, TidyRestores, Flow
<1>5. CASE FetchFails
  BY <1>5 DEF FetchFails, FetchReturns, GetReturns, End, TidyRestores, Flow
<1>6. CASE Rename
  BY <1>6 DEF Rename, TidyRestores, Flow
<1>7. CASE RenameFails
  BY <1>7 DEF RenameFails, Disk, TidyRestores
<1>8. CASE GetFetched
  BY <1>8 DEF GetFetched, TidyRestores, Flow
<1>9. CASE LockWrite
  BY <1>9 DEF LockWrite, TidyRestores, Flow
<1>10. CASE LockWriteFails
  BY <1>10 DEF LockWriteFails, Disk, TidyRestores
<1>11. CASE Declare
  BY <1>11 DEF Declare, GetReturns, End, TidyRestores, Flow
<1>12. CASE DeclareFails
  BY <1>12 DEF DeclareFails, Disk, TidyRestores
<1>13. CASE RemoveSome
  BY <1>13 DEF RemoveSome, TidyRestores, Flow
<1>14. CASE RemoveRest
  BY <1>14 DEF RemoveRest, TidyRestores, Flow
<1>15. CASE RemoveFails
  BY <1>15 DEF RemoveFails, Disk, TidyRestores
<1>16. CASE Refetched
  BY <1>16 DEF Refetched, TidyRestores, Flow
<1>17. CASE WalkGet
  BY <1>17 DEF WalkGet, TidyRestores, Flow
<1>18. CASE WalkOn
  BY <1>18 DEF WalkOn, TidyRestores, Flow
<1>19. CASE TidyEnds
  <2>1. UNCHANGED <<lock, lib, trouble>>
    BY <1>19 DEF TidyEnds, files
  <2>2. last' = "tidy ok" /\ trouble = {} => LockInstalled
    BY <1>19 DEF TidyEnds, End, Walked
  <2> QED
    BY <2>1, <2>2 DEF TidyRestores, LockInstalled, WholePackages
<1>20. CASE Undeclare
  BY <1>20 DEF Undeclare, End, TidyRestores
<1>21. CASE UndeclareFails
  BY <1>21 DEF UndeclareFails, End, TidyRestores
<1>22. CASE TidyIdle
  <2>1. \A n \in Pinned(lock) : installed_at(n, lock[n].ver)
    BY <1>22 DEF TidyIdle, Missing
  <2>2. trouble = {} => \A n \in Names : lib[n] # Absent => n \in WholePackages
    BY <1>22 DEF TidyIdle, User, Untroubled, Present
  <2>3. trouble = {} => LockInstalled
    BY <2>1, <2>2 DEF LockInstalled, installed_at, Pinned
  <2>4. UNCHANGED <<lock, lib, trouble>>
    BY <1>22 DEF TidyIdle, User, files
  <2> QED
    BY <2>3, <2>4 DEF TidyRestores, LockInstalled, WholePackages
<1>23. CASE TidyRefetch
  BY <1>23 DEF TidyRefetch, TidyRestores
<1>24. CASE TidyUnlocked
  BY <1>24 DEF TidyUnlocked, TidyRestores
<1>25. CASE UserRemove
  BY <1>25 DEF UserRemove, TidyRestores
<1>26. CASE Edit
  BY <1>26 DEF Edit, End, TidyRestores
<1>27. CASE FreshClone
  BY <1>27 DEF FreshClone, End, TidyRestores
<1>28. CASE Crash
  BY <1>28 DEF Crash, TidyRestores
<1>29. CASE Publish
  BY <1>29 DEF Publish, files, TidyRestores, WholePackages
<1>30. CASE UNCHANGED vars
  BY <1>30, Stutter DEF TidyRestores, WholePackages
<1> QED
  BY <1>1, <1>2, <1>3, <1>4, <1>5, <1>6, <1>7, <1>8, <1>9, <1>10, <1>11, <1>12, <1>13,
     <1>14, <1>15, <1>16, <1>17, <1>18, <1>19, <1>20, <1>21, <1>22, <1>23, <1>24, <1>25,
     <1>26, <1>27, <1>28, <1>29, <1>30 DEF Next, Step, Begin

\* What do_get writes into project.jsonc accepts what it has installed.
LEMMA DeclaredAcceptsStep ==
  TypeOK /\ Flow /\ LockedIsInstalled /\ Resolved /\ Untroubled /\ DeclaredAccepts /\
  [Next]_vars
    => DeclaredAccepts'
<1> SUFFICES ASSUME TypeOK, Flow, LockedIsInstalled, Resolved, Untroubled,
                    DeclaredAccepts, [Next]_vars
             PROVE  DeclaredAccepts'
  OBVIOUS
<1>1. CASE UserGet
  BY <1>1 DEF UserGet, DeclaredAccepts
<1>2. CASE GetRefused
  BY <1>2 DEF GetRefused, GetReturns, End, DeclaredAccepts, Flow
<1>3. CASE Resolve
  BY <1>3 DEF Resolve, DeclaredAccepts, Flow
<1>4. CASE Fetch
  BY <1>4 DEF Fetch, DeclaredAccepts, Flow
<1>5. CASE FetchFails
  BY <1>5 DEF FetchFails, FetchReturns, GetReturns, End, DeclaredAccepts, Flow
<1>6. CASE Rename
  BY <1>6 DEF Rename, DeclaredAccepts, Flow
<1>7. CASE RenameFails
  BY <1>7 DEF RenameFails, Disk, DeclaredAccepts
<1>8. CASE GetFetched
  BY <1>8 DEF GetFetched, DeclaredAccepts, Flow
<1>9. CASE LockWrite
  BY <1>9 DEF LockWrite, DeclaredAccepts, Flow
<1>10. CASE LockWriteFails
  BY <1>10 DEF LockWriteFails, Disk, DeclaredAccepts
<1>11. CASE Declare
  <2>1. SUFFICES ASSUME op = "get", trouble = {}
                 PROVE  DeclaredAccepts'
    BY <1>11 DEF Declare, GetReturns, Flow, DeclaredAccepts
  <2>2. /\ root \in Names /\ want[root] # NoPin
        /\ constraint_match(IF cons = Bare THEN any ELSE cons, want[root].ver)
    BY <1>11 DEF Declare, Flow, InGet, Resolved, Answers
  <2>3. want[root] \in Releases /\ want[root].ver \in Version
    BY <2>2, PinsAreReleases DEF TypeOK, Pinned, Release
  <2>4. lib[root] = [rec |-> want[root], left |-> "all"] /\ lib[root] # Absent
    BY <1>11, <2>2, <2>3, EntryHere DEF Declare, LockedIsInstalled, Whole, Pinned
  <2>5. NewEntry \in Constraint /\ constraint_match(NewEntry, want[root].ver)
    <3>1. CASE cons = Bare
      BY <2>3, <3>1, CaretAdmitsBase DEF NewEntry, Constraint, Kinds
    <3>2. CASE cons # Bare
      BY <2>2, <3>2 DEF NewEntry, TypeOK
    <3> QED
      BY <3>1, <3>2
  <2>6. declared'[root] = NewEntry /\ lib' = lib /\ root' = root
    BY <1>11, <2>1, <2>2 DEF Declare, GetReturns, End, TypeOK
  <2>7. root \in WholePackages' /\ lib'[root].rec = want[root]
    BY <2>2, <2>4, <2>6 DEF WholePackages
  <2> QED
    BY <2>5, <2>6, <2>7 DEF DeclaredAccepts
<1>12. CASE DeclareFails
  BY <1>12 DEF DeclareFails, Disk, DeclaredAccepts
<1>13. CASE RemoveSome
  BY <1>13 DEF RemoveSome, DeclaredAccepts, Flow
<1>14. CASE RemoveRest
  BY <1>14 DEF RemoveRest, DeclaredAccepts, Flow
<1>15. CASE RemoveFails
  BY <1>15 DEF RemoveFails, Disk, DeclaredAccepts
<1>16. CASE Refetched
  BY <1>16 DEF Refetched, DeclaredAccepts, Flow
<1>17. CASE WalkGet
  BY <1>17 DEF WalkGet, DeclaredAccepts, Flow
<1>18. CASE WalkOn
  BY <1>18 DEF WalkOn, DeclaredAccepts, Flow
<1>19. CASE TidyEnds
  BY <1>19 DEF TidyEnds, End, DeclaredAccepts
<1>20. CASE Undeclare
  BY <1>20 DEF Undeclare, End, DeclaredAccepts
<1>21. CASE UndeclareFails
  BY <1>21 DEF UndeclareFails, End, DeclaredAccepts
<1>22. CASE TidyIdle
  BY <1>22 DEF TidyIdle, End, DeclaredAccepts
<1>23. CASE TidyRefetch
  BY <1>23 DEF TidyRefetch, DeclaredAccepts
<1>24. CASE TidyUnlocked
  BY <1>24 DEF TidyUnlocked, DeclaredAccepts
<1>25. CASE UserRemove
  BY <1>25 DEF UserRemove, DeclaredAccepts
<1>26. CASE Edit
  BY <1>26 DEF Edit, End, DeclaredAccepts
<1>27. CASE FreshClone
  BY <1>27 DEF FreshClone, End, DeclaredAccepts
<1>28. CASE Crash
  BY <1>28 DEF Crash, DeclaredAccepts
<1>29. CASE Publish
  BY <1>29 DEF Publish, files, locals, DeclaredAccepts, WholePackages
<1>30. CASE UNCHANGED vars
  BY <1>30 DEF vars, files, locals, DeclaredAccepts, WholePackages
<1> QED
  BY <1>1, <1>2, <1>3, <1>4, <1>5, <1>6, <1>7, <1>8, <1>9, <1>10, <1>11, <1>12, <1>13,
     <1>14, <1>15, <1>16, <1>17, <1>18, <1>19, <1>20, <1>21, <1>22, <1>23, <1>24, <1>25,
     <1>26, <1>27, <1>28, <1>29, <1>30 DEF Next, Step, Begin

-----------------------------------------------------------------------------
(* Theorems *)

LEMMA Initially == Init => ProjectInv
<1> SUFFICES ASSUME Init PROVE ProjectInv
  OBVIOUS
<1>1. TypeOK
  BY TypeInit
<1>2. Flow /\ Handled /\ Resolved /\ Fetched /\ Walked /\ LockedIsInstalled
  BY DEF Init, Flow, Fetching, Replacing, InGet, Handled, Resolved, Fetched, Walked,
         LockedIsInstalled
<1>3. Untroubled /\ TidyRestores /\ DeclaredAccepts
  BY DEF Init, Untroubled, Present, TidyRestores, DeclaredAccepts
<1>4. LockClosed
  BY NoPinsIsEmpty DEF Init, LockClosed, Closed
<1> QED
  BY <1>1, <1>2, <1>3, <1>4 DEF ProjectInv

\* Each part of ProjectInv is kept by every step, given the others.
LEMMA Inductive == ProjectInv /\ [Next]_vars => ProjectInv'
BY TypeStep, FlowStep, HandledStep, ResolvedStep, FetchedStep, UntroubledStep, WalkedStep,
   LockClosedStep, LockedIsInstalledStep, TidyRestoresStep, DeclaredAcceptsStep
   DEF ProjectInv

THEOREM Invariance == Spec => []ProjectInv
<1> QED
  BY Initially, Inductive, PTL DEF Spec

(***************************************************************************)
(* However gets, tidies and removes follow each other, fail or are cut     *)
(* short, and whatever the registry serves meanwhile: every pin in the     *)
(* lock is of its package, and, unless a write to the disk has failed, the *)
(* lock holds with each release everything that release depends on.        *)
(***************************************************************************)
THEOREM LockIsSound == Spec => []LockSound
<1>1. ProjectInv => LockSound
  BY DEF ProjectInv, LockSound
<1> QED
  BY Invariance, <1>1, PTL

(***************************************************************************)
(* When do_get writes the lock, every package it pins stands whole in      *)
(* .oboe/libraries with the contents pinned: one whose archive was not     *)
(* there or not good, or that was not renamed into place, ends the command *)
(* before.                                                                 *)
(***************************************************************************)
THEOREM LocksWhatIsInstalled == Spec => []LockedIsInstalled
<1>1. ProjectInv => LockedIsInstalled
  BY DEF ProjectInv
<1> QED
  BY Invariance, <1>1, PTL

(***************************************************************************)
(* A package that was there when get or tidy began is there, whole, when   *)
(* it returns, whether it succeeded or not: the one window in which it is  *)
(* gone, between the removal and the rename, has no way out but a failing  *)
(* disk or a crash.                                                        *)
(***************************************************************************)
THEOREM NothingLost == Spec => []KeepsWhatWasThere
<1>1. ProjectInv => KeepsWhatWasThere
  BY DEF ProjectInv, Untroubled, KeepsWhatWasThere
<1> QED
  BY Invariance, <1>1, PTL

(***************************************************************************)
(* A tidy that reports success leaves every pin of the lock installed,     *)
(* whole and at its version, also when its walk has got packages that      *)
(* wrote another lock meanwhile.                                           *)
(***************************************************************************)
THEOREM TidySucceeds == Spec => []TidyRestores
<1>1. ProjectInv => TidyRestores
  BY DEF ProjectInv
<1> QED
  BY Invariance, <1>1, PTL

(***************************************************************************)
(* After a get that reports success project.jsonc accepts the version that *)
(* is installed, whichever constraint stood there before.                  *)
(***************************************************************************)
THEOREM GetDeclares == Spec => []DeclaredAccepts
<1>1. ProjectInv => DeclaredAccepts
  BY DEF ProjectInv
<1> QED
  BY Invariance, <1>1, PTL
=============================================================================
