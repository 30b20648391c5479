---------------------------- MODULE Declarations ----------------------------
(***************************************************************************)
(* What oboe promises of project.jsonc: a map from packages to constraints, *)
(* in which `get' sets and `remove' deletes the entry that was asked for, and *)
(* a remainder that neither touches.  An edit may also come to nothing.      *)
(***************************************************************************)
EXTENDS Functions, TLC

CONSTANTS Packages, Constraints, None

VARIABLES deps,      \* a function from the declared packages
          others,    \* the rest of the file
          request    \* the edit asked for, or None

Requests == [op : {"add"}, package : Packages, constraint : Constraints]
              \cup [op : {"remove"}, package : Packages]

Init == request = None

Ask == /\ request = None /\ request' \in Requests
       /\ UNCHANGED <<deps, others>>

Answer ==
  /\ request # None
  /\ deps' = IF request.op = "add" THEN request.package :> request.constraint @@ deps
             ELSE Restrict(deps, DOMAIN deps \ {request.package})
  /\ request' = None /\ others' = others

GiveUp == request # None /\ request' = None /\ UNCHANGED <<deps, others>>

Next == Ask \/ Answer \/ GiveUp

Spec == Init /\ [][Next]_<<deps, others, request>>
=============================================================================
