----------------------------- MODULE VersionSet -----------------------------
(***************************************************************************)
(* What a resolution promises, whoever computes it: the registry's answer  *)
(* to `ko cizujo' (resolve_remote) or the client's own (resolve_local).    *)
(* It is asked for a package, and answers once, with a closed set of       *)
(* releases that accept each other, or refuses.                            *)
(***************************************************************************)
EXTENDS PinSet

CONSTANTS Records, Root, RootCons

VARIABLES
  outcome,   \* "pending", "answered" or "refused"
  chosen     \* package -> its record, or NoPin

Init == outcome = "pending" /\ chosen = NoPins

Answer == /\ outcome = "pending"
          /\ outcome' = "answered"
          /\ chosen' \in [Names -> Records \cup {NoPin}]
          /\ Answers(chosen', Root, RootCons)

Refuse == /\ outcome = "pending"
          /\ outcome' = "refused"
          /\ UNCHANGED chosen

Next == Answer \/ Refuse

Spec == Init /\ [][Next]_<<outcome, chosen>>
=============================================================================
