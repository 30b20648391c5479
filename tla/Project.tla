------------------------------ MODULE Project -------------------------------
(***************************************************************************)
(* One project directory under `oboe get', `oboe tidy' and `oboe remove'   *)
(* (compiler/src/pkg.c, compiler/src/main.c): project.jsonc, .oboe/lock    *)
(* and .oboe/libraries, changed file by file by commands that may fail or  *)
(* be interrupted between any two of those changes, against a registry     *)
(* that other clients change.  The commands of one project run one after   *)
(* another.                                                                *)
(*                                                                         *)
(* A resolution is any answer PinSet allows, which is what Resolver shows  *)
(* resolve_local to give.  The order in which a set is fetched   *)
(* is the resolver's or the registry's, and left open.  A package is       *)
(* unpacked beside .oboe/libraries, where nothing looks, so only the       *)
(* outcome of that is modelled.  The names of packages are no key of       *)
(* project.jsonc outside its `dependencies'.                               *)
(***************************************************************************)
EXTENDS PinSet, FiniteSets

CONSTANTS
  Releases,     \* what can ever be released, see Release
  Absent,       \* no directory of this package, or no entry in project.jsonc
  Bare,         \* `oboe get name', with no constraint
  Requests,     \* what the user asks `get' for
  Edits,        \* what the user writes into project.jsonc by hand
  Offered,      \* what the registry holds at first
  Crashes,      \* whether a command may be cut short
  MaxCmds,      \* bound: things the user does
  MaxChurn      \* bound: registry changes

\* `sema' tells two archives of one version apart.
Release == [izim : Names, ver : Version, sema : Nat,
            cizujo : Seq([izim : Names, cons : Constraint] \cup {BadLine})]

\* A directory whole, or with or without its project.jsonc half removed.
Entry == [rec : Releases, left : {"all", "manifest", "rest"}]

\* A digest is that of one archive.
ASSUME ProjectAssumption ==
  /\ Releases \subseteq Release
  /\ \A r, s \in Releases : r.izim = s.izim /\ r.ver = s.ver /\ r.sema = s.sema => r = s
  /\ NoPin \notin Release /\ Absent \notin Entry
  /\ {BadLine, Absent, Bare} \cap Constraint = {}
  /\ Requests \subseteq [izim : Names, cons : Constraint \cup {Bare}]
  /\ Edits \subseteq [izim : Names, cons : Constraint \cup {BadLine, Absent}]
  /\ Offered \subseteq Releases
  /\ Crashes \in BOOLEAN
  /\ MaxCmds \in Nat /\ MaxChurn \in Nat

VARIABLES
  offered,    \* the registry: the releases it serves, one per version
  churn,      \* how often it has changed
  declared,   \* project.jsonc: package -> its constraint, or Absent
  lock,       \* .oboe/lock: package -> the release pinned, or NoPin
  lib,        \* .oboe/libraries: package -> its directory, or Absent
  cmds,       \* things the user has done
  op,         \* command running, or the last one: "get", "tidy" or "remove"
  before,     \* packages that had a directory when it began
  pc,         \* where it is; "idle" between commands
  root, cons, \* do_get's package and constraint
  want,       \* the pins being fetched
  todo,       \* packages of `want' not fetched yet
  cur, got,   \* the package being replaced, and the release it is replaced by
  stage,      \* "refetch" (tidy, by the lock) or "get" (by a resolution)
  old,        \* the lock as tidy read it
  keys,       \* declared packages tidy has still to look at
  failed,     \* tidy: some do_get has failed
  last,       \* how the last command ended, if nothing came after it
  trouble     \* what went wrong so far: "disk", or the command cut short

registry == <<offered, churn>>
files == <<declared, lock, lib>>
locals == <<root, cons, want, todo, cur, got, stage, old, keys, failed>>
ghosts == <<cmds, op, before>>
vars == <<registry, files, ghosts, pc, locals, last, trouble>>

PinSets == {s \in [Names -> Releases \cup {NoPin}] :
              \A n \in Names : s[n] # NoPin => s[n].izim = n}

any == [kind |-> "any", base |-> release(0, 0, 0)]

TypeOK ==
  /\ offered \subseteq Releases
  /\ churn \in 0..MaxChurn
  /\ declared \in [Names -> Constraint \cup {BadLine, Absent}]
  /\ lock \in PinSets
  /\ lib \in [Names -> Entry \cup {Absent}]
  /\ \A n \in Names : lib[n] # Absent => lib[n].rec.izim = n
  /\ cmds \in 0..MaxCmds
  /\ op \in {"get", "tidy", "remove"}
  /\ pc \in {"idle", "resolve", "fetch", "remove", "rename", "lock", "declare",
             "walk", "undeclare"}
  /\ root \in Names \cup {Absent} /\ cons \in Constraint \cup {Bare}
  /\ want \in PinSets
  /\ todo \subseteq Pinned(want)
  /\ cur \in Names \cup {Absent} /\ got \in Releases \cup {NoPin}
  /\ stage \in {"refetch", "get"}
  /\ old \in PinSets
  /\ keys \subseteq Names /\ before \subseteq Names
  /\ failed \in BOOLEAN
  /\ last \in {"none", "get ok", "tidy ok", "remove ok", "failed"}
  /\ trouble \subseteq {"disk", "get", "tidy", "remove"}

Init ==
  /\ offered = Offered
  /\ churn = 0
  /\ declared = [n \in Names |-> Absent]
  /\ lock = NoPins
  /\ lib = [n \in Names |-> Absent]
  /\ cmds = 0 /\ op = "get" /\ before = {}
  /\ pc = "idle"
  /\ root = Absent /\ cons = Bare /\ want = NoPins /\ todo = {}
  /\ cur = Absent /\ got = NoPin /\ stage = "get" /\ old = NoPins
  /\ keys = {} /\ failed = FALSE
  /\ last = "none"
  /\ trouble = {}

-----------------------------------------------------------------------------
(* How a command begins and ends. *)

Present == {n \in Names : lib[n] # Absent}

User(what) ==
  /\ pc = "idle" /\ cmds < MaxCmds
  /\ cmds' = cmds + 1
  /\ op' = what
  /\ before' = Present
  /\ UNCHANGED <<registry, trouble>>

\* The command's own variables go; `root' is kept for DeclaredAccepts.
End(how) ==
  /\ pc' = "idle" /\ last' = how
  /\ root' = IF how = "get ok" THEN root ELSE Absent
  /\ cons' = Bare /\ want' = NoPins /\ todo' = {} /\ cur' = Absent /\ got' = NoPin
  /\ stage' = "get" /\ old' = NoPins /\ keys' = {} /\ failed' = FALSE

\* do_get returns: to the shell, or into tidy's walk, which remembers a failure.
GetReturns(ok) ==
  \/ op = "get" /\ End(IF ok THEN "get ok" ELSE "failed")
  \/ /\ op = "tidy"
     /\ pc' = "walk" /\ failed' = (failed \/ ~ok)
     /\ root' = Absent /\ cons' = Bare /\ want' = NoPins /\ todo' = {}
     /\ cur' = Absent /\ got' = NoPin
     /\ UNCHANGED <<stage, old, keys, last>>

\* A fetch has failed: do_get returns, and so does tidy when it is refetching.
FetchReturns ==
  IF stage = "get" THEN GetReturns(FALSE) ELSE End("failed")

Disk == trouble' = trouble \cup {"disk"}

-----------------------------------------------------------------------------
(* do_get: resolve, fetch every pin, write the lock, declare the package. *)

UserGet ==
  /\ User("get")
  /\ \E r \in Requests : root' = r.izim /\ cons' = r.cons
  /\ pc' = "resolve" /\ last' = "none"
  /\ UNCHANGED <<files, want, todo, cur, got, stage, old, keys, failed>>

\* No registry, no answer, no record of the release, or a tool and no library.
GetRefused ==
  /\ pc = "resolve"
  /\ GetReturns(FALSE)
  /\ UNCHANGED <<registry, files, ghosts, trouble>>

Resolve ==
  /\ pc = "resolve"
  /\ want' \in {s \in PinSets :
                  /\ \A n \in Pinned(s) : s[n] \in offered
                  /\ Answers(s, root, IF cons = Bare THEN any ELSE cons)}
  /\ todo' = Pinned(want')
  /\ pc' = "fetch"
  /\ UNCHANGED <<registry, files, ghosts, root, cons, cur, got, stage, old, keys,
                 failed, last, trouble>>

\* What fetch_one accepts for the pin of n: its version, with the digest it names.
Served(n) == {r \in offered : r.izim = n /\ r.ver = want[n].ver /\ r.sema = want[n].sema}

\* The archive has been read, verified and unpacked in .oboe/tmp.
Fetch ==
  /\ pc = "fetch"
  /\ \E n \in todo :
       /\ cur' = n
       /\ got' \in Served(n)
       /\ pc' = IF lib[n] = Absent THEN "rename" ELSE "remove"
  /\ UNCHANGED <<registry, files, ghosts, root, cons, want, todo, stage, old, keys,
                 failed, last, trouble>>

\* A bug: the last check of the archive comes after the old copy is gone.
FetchFails_late ==
  /\ pc \in {"fetch", "rename"} /\ todo # {}
  /\ FetchReturns
  /\ UNCHANGED <<registry, files, ghosts, trouble>>

\* No such release, another digest, a body cut short, a bad archive, or one
\* that declares itself under another name.
FetchFails ==
  /\ pc = "fetch" /\ todo # {}
  /\ FetchReturns
  /\ UNCHANGED <<registry, files, ghosts, trouble>>

Rename ==
  /\ pc = "rename"
  /\ lib' = [lib EXCEPT ![cur] = [rec |-> got, left |-> "all"]]
  /\ todo' = todo \ {cur}
  /\ cur' = Absent /\ got' = NoPin
  /\ pc' = "fetch"
  /\ UNCHANGED <<registry, declared, lock, ghosts, root, cons, want, stage, old,
                 keys, failed, last, trouble>>

\* A bug: what rename returns is not looked at.
RenameFails_ignored ==
  /\ pc = "rename"
  /\ todo' = todo \ {cur}
  /\ cur' = Absent /\ got' = NoPin
  /\ pc' = "fetch"
  /\ Disk
  /\ UNCHANGED <<registry, files, ghosts, root, cons, want, stage, old, keys,
                 failed, last>>

RenameFails ==
  /\ pc = "rename"
  /\ FetchReturns
  /\ Disk
  /\ UNCHANGED <<registry, files, ghosts>>

GetFetched ==
  /\ pc = "fetch" /\ todo = {} /\ stage = "get"
  /\ pc' = "lock"
  /\ UNCHANGED <<registry, files, ghosts, locals, last, trouble>>

\* A bug, or a first idea of a mend: the pins of other packages stay.
LockWrite_merge ==
  /\ pc = "lock"
  /\ lock' = [n \in Names |-> IF want[n] = NoPin THEN lock[n] ELSE want[n]]
  /\ pc' = "declare"
  /\ UNCHANGED <<registry, declared, lib, ghosts, locals, last, trouble>>

LockWrite ==
  /\ pc = "lock"
  /\ lock' = want
  /\ pc' = "declare"
  /\ UNCHANGED <<registry, declared, lib, ghosts, locals, last, trouble>>

\* No result is looked at: the old lock stays, or the new one is cut short.
LockWriteFails ==
  /\ pc = "lock"
  /\ \/ lock' = lock
     \/ \E kept \in SUBSET Pinned(want) :
          lock' = [n \in Names |-> IF n \in kept THEN want[n] ELSE NoPin]
  /\ Disk
  /\ pc' = "declare"
  /\ UNCHANGED <<registry, declared, lib, ghosts, locals, last>>

\* What do_get puts into project.jsonc for the package it was asked for.
NewEntry == IF cons = Bare THEN [kind |-> "caret", base |-> want[root].ver] ELSE cons

\* A bug: an entry already there is not replaced.
Declare_keep ==
  /\ pc = "declare"
  /\ declared' = IF declared[root] = Absent
                 THEN [declared EXCEPT ![root] = NewEntry] ELSE declared
  /\ GetReturns(TRUE)
  /\ UNCHANGED <<registry, lock, lib, ghosts, trouble>>

Declare ==
  /\ pc = "declare"
  /\ declared' = [declared EXCEPT ![root] = NewEntry]
  /\ GetReturns(TRUE)
  /\ UNCHANGED <<registry, lock, lib, ghosts, trouble>>

DeclareFails ==
  /\ pc = "declare"
  /\ GetReturns(TRUE)
  /\ Disk
  /\ UNCHANGED <<registry, files, ghosts>>

-----------------------------------------------------------------------------
(* remove_tree: rm -rf, one file at a time, in an order of its own. *)

RemoveSome ==
  /\ pc = "remove" /\ lib[cur].left = "all"
  /\ \E what \in {"manifest", "rest"} : lib' = [lib EXCEPT ![cur].left = what]
  /\ UNCHANGED <<registry, declared, lock, ghosts, pc, locals, last, trouble>>

RemoveRest ==
  /\ pc = "remove"
  /\ lib' = [lib EXCEPT ![cur] = Absent]
  /\ pc' = IF op = "remove" THEN "undeclare" ELSE "rename"
  /\ UNCHANGED <<registry, declared, lock, ghosts, locals, last, trouble>>

\* `remove' carries on; under a fetch the rename onto what is left fails.
RemoveFails ==
  /\ pc = "remove"
  /\ \/ op = "remove" /\ pc' = "undeclare" /\ UNCHANGED <<locals, last>>
     \/ op # "remove" /\ FetchReturns
  /\ Disk
  /\ UNCHANGED <<registry, files, ghosts>>

-----------------------------------------------------------------------------
(* pkg_tidy: refetch what the lock pins, then get what is declared. *)

\* A bug: any version will do.
installed_at_any(n, v) == lib[n] # Absent /\ lib[n].left # "rest"

\* Only the project.jsonc in the directory is read.
installed_at(n, v) == lib[n] # Absent /\ lib[n].left # "rest" /\ lib[n].rec.ver = v

Missing == {n \in Pinned(lock) : ~installed_at(n, lock[n].ver)}

Declared == {n \in Names : declared[n] # Absent}

TidyIdle ==
  /\ Pinned(lock) # {} /\ Missing = {}
  /\ User("tidy")
  /\ End("tidy ok")
  /\ UNCHANGED files

TidyRefetch ==
  /\ Missing # {}
  /\ User("tidy")
  /\ old' = lock
  /\ want' = lock /\ todo' = Missing
  /\ stage' = "refetch"
  /\ pc' = "fetch" /\ last' = "none"
  /\ UNCHANGED <<files, root, cons, cur, got, keys, failed>>

Refetched ==
  /\ pc = "fetch" /\ todo = {} /\ stage = "refetch"
  /\ keys' = Declared
  /\ pc' = "walk"
  /\ UNCHANGED <<registry, files, ghosts, root, cons, want, todo, cur, got, stage,
                 old, failed, last, trouble>>

TidyUnlocked ==
  /\ Pinned(lock) = {}
  /\ User("tidy")
  /\ keys' = Declared
  /\ pc' = "walk" /\ last' = "none"
  /\ UNCHANGED <<files, root, cons, want, todo, cur, got, stage, old, failed>>

Satisfied(n) == old[n] # NoPin /\ installed_at(n, old[n].ver)

\* A bug: a package that had to be got is looked at again.
WalkGet_again ==
  /\ pc = "walk"
  /\ \E n \in keys :
       /\ ~Satisfied(n)
       /\ root' = n
       /\ cons' = IF declared[n] \in Constraint THEN declared[n] ELSE any
  /\ stage' = "get"
  /\ pc' = "resolve"
  /\ UNCHANGED <<registry, files, ghosts, want, todo, cur, got, old, keys, failed,
                 last, trouble>>

WalkGet ==
  /\ pc = "walk"
  /\ \E n \in keys :
       /\ ~Satisfied(n)
       /\ root' = n
       /\ cons' = IF declared[n] \in Constraint THEN declared[n] ELSE any
       /\ keys' = keys \ {n}
  /\ stage' = "get"
  /\ pc' = "resolve"
  /\ UNCHANGED <<registry, files, ghosts, want, todo, cur, got, old, failed, last,
                 trouble>>

WalkOn ==
  /\ pc = "walk"
  /\ \E n \in keys : Satisfied(n) /\ keys' = keys \ {n}
  /\ UNCHANGED <<registry, files, ghosts, pc, root, cons, want, todo, cur, got,
                 stage, old, failed, last, trouble>>

TidyEnds ==
  /\ pc = "walk" /\ keys = {}
  /\ End(IF failed THEN "failed" ELSE "tidy ok")
  /\ UNCHANGED <<registry, files, ghosts, trouble>>

-----------------------------------------------------------------------------
(* cmd_remove: the directory, then the entry; the lock is not looked at. *)

UserRemove ==
  /\ User("remove")
  /\ cur' \in Names
  /\ pc' = IF lib[cur'] = Absent THEN "undeclare" ELSE "remove"
  /\ last' = "none"
  /\ UNCHANGED <<files, root, cons, want, todo, got, stage, old, keys, failed>>

Undeclare ==
  /\ pc = "undeclare"
  /\ declared' = [declared EXCEPT ![cur] = Absent]
  /\ End("remove ok")
  /\ UNCHANGED <<registry, lock, lib, ghosts, trouble>>

UndeclareFails ==
  /\ pc = "undeclare"
  /\ End("remove ok")
  /\ Disk
  /\ UNCHANGED <<registry, files, ghosts>>

-----------------------------------------------------------------------------
(* What happens around the commands. *)

Edit ==
  /\ User(op)
  /\ \E e \in Edits : declared' = [declared EXCEPT ![e.izim] = e.cons]
  /\ End("none")
  /\ UNCHANGED <<lock, lib>>

\* The project is cloned afresh: `oboe init' ignores all of .oboe but the lock.
FreshClone ==
  /\ User(op)
  /\ lib' = [n \in Names |-> Absent]
  /\ End("none")
  /\ UNCHANGED <<declared, lock>>

\* ^C or a power cut, wherever the command is.
Crash ==
  /\ Crashes /\ pc # "idle"
  /\ End("none")
  /\ trouble' = trouble \cup {op}
  /\ UNCHANGED <<registry, files, ghosts>>

\* A new version, or other contents under a version already there.
Publish ==
  /\ churn < MaxChurn
  /\ churn' = churn + 1
  /\ \E r \in Releases \ offered :
       offered' = {r} \cup {x \in offered : x.izim # r.izim \/ x.ver # r.ver}
  /\ UNCHANGED <<files, ghosts, pc, locals, last, trouble>>

-----------------------------------------------------------------------------

Step ==
  \/ GetRefused \/ Resolve \/ Fetch \/ FetchFails \/ Rename \/ RenameFails
  \/ GetFetched \/ LockWrite \/ LockWriteFails \/ Declare \/ DeclareFails
  \/ RemoveSome \/ RemoveRest \/ RemoveFails
  \/ Refetched \/ WalkGet \/ WalkOn \/ TidyEnds
  \/ Undeclare \/ UndeclareFails

Begin ==
  UserGet \/ TidyIdle \/ TidyRefetch \/ TidyUnlocked \/ UserRemove \/ Edit \/ FreshClone

Next == Step \/ Begin \/ Crash \/ Publish

Spec == Init /\ [][Next]_vars

\* A command that has started keeps running; nobody has to start one.
FairSpec == Spec /\ WF_vars(Step)

-----------------------------------------------------------------------------
(* What the commands promise together. *)

Whole(n, r) == lib[n] = [rec |-> r, left |-> "all"]

(***************************************************************************)
(* However gets, tidies and removes follow each other, and whichever of    *)
(* them fail, the lock on disk is one closed set: it never mixes the pins  *)
(* of two resolutions, nor keeps a part of one (unless a write failed).    *)
(***************************************************************************)
LockClosed == "disk" \notin trouble => Closed(lock)

LockSound == TypeOK /\ LockClosed

(***************************************************************************)
(* The lock is written only once every package of the set stands in        *)
(* .oboe/libraries, whole, with the contents its pin names: a failed fetch *)
(* or rename, or contents republished since, never get that far.           *)
(***************************************************************************)
LockedIsInstalled ==
  pc \in {"lock", "declare"} => \A n \in Pinned(want) : Whole(n, want[n])

(***************************************************************************)
(* `oboe get' and `oboe tidy' may fail at any fetch, but a package that    *)
(* was there when they began is there, whole, when they return: the old    *)
(* copy goes only when the new one is known good.                          *)
(***************************************************************************)
WholePackages == {n \in Names : lib[n] # Absent /\ lib[n].left = "all"}

KeepsWhatWasThere ==
  pc = "idle" /\ op # "remove" /\ last # "none" /\ trouble = {}
    => before \subseteq WholePackages

(***************************************************************************)
(* A tidy that succeeds leaves every pin of the lock installed at its      *)
(* version, whether it refetched, resolved some package anew (and so wrote *)
(* another lock) or found nothing to do.                                   *)
(***************************************************************************)
TidyRestores ==
  last = "tidy ok" /\ trouble = {}
    => \A n \in Pinned(lock) : n \in WholePackages /\ lib[n].rec.ver = lock[n].ver

(***************************************************************************)
(* After a successful get, project.jsonc accepts the version installed,    *)
(* also when the package was declared before with another constraint.      *)
(***************************************************************************)
DeclaredAccepts ==
  last = "get ok" /\ trouble = {}
    => /\ declared[root] \in Constraint
       /\ root \in WholePackages /\ constraint_match(declared[root], lib[root].rec.ver)

(***************************************************************************)
(* Every command returns; tidy's walk ends although each package it gets   *)
(* may fail and the files it looks at change under it.                     *)
(***************************************************************************)
CommandsEnd == pc # "idle" ~> pc = "idle"

-----------------------------------------------------------------------------
(* What the repository says of them, and the code does not do. *)

(***************************************************************************)
(* pkg.c: the lock "pins the whole resolved set, so two tidy runs a month  *)
(* apart install the same versions": what get has declared and installed   *)
(* is pinned.                                                              *)
(***************************************************************************)
DeclaredIsPinned ==
  last = "get ok" /\ trouble = {} => Declared \subseteq Pinned(lock)

(***************************************************************************)
(* pkg.c: "a half-written package must never be visible to the compiler".  *)
(* If a get or a tidy was cut short, a tidy that then succeeds has made    *)
(* every pinned package whole again.                                       *)
(***************************************************************************)
TidyRepairs ==
  last = "tidy ok" /\ trouble \subseteq {"get", "tidy"} => Pinned(lock) \subseteq WholePackages
=============================================================================
