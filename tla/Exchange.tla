------------------------------ MODULE Exchange ------------------------------
(***************************************************************************)
(* What a conversation with a registry promises the commands of pkg.c,     *)
(* whatever becomes of the connection: the client acts upon the replies it  *)
(* was sent, whole and in order, one for each request; or it gives up, and  *)
(* acts upon nothing more.  Once a reply has brought a body that the client *)
(* does not read, it may take some of that for a status.  What is left then *)
(* is one act for each request, upon no body but those it was sent, and none *)
(* after it has given up.                                                   *)
(***************************************************************************)
EXTENDS Naturals, Sequences

CONSTANTS Replies,  \* records [si, body, ...]
          None      \* no body

VARIABLES asked,    \* how many requests have been made
          sent,     \* the registry's replies to them
          taken,    \* the replies the client has acted upon
          misled,   \* has a reply had a body that the client will not read?
          outcome   \* "open", "done" or "failed"

Init == asked = 0 /\ sent = <<>> /\ taken = <<>> /\ misled = FALSE /\ outcome = "open"

Ask == /\ outcome = "open" /\ asked = Len(taken)
       /\ asked' = asked + 1
       /\ UNCHANGED <<sent, taken, misled, outcome>>

\* The registry may still answer a client that has given up.
Reply == /\ Len(sent) < asked \/ misled
         /\ \E r \in Replies : /\ sent' = Append(sent, r)
                              /\ misled' \in {misled, misled \/ (r.si /\ r.body # None)}
         /\ UNCHANGED <<asked, taken, outcome>>

\* The next reply, or a status that was none.
Take == /\ outcome = "open" /\ Len(taken) < asked
        /\ \E r \in Replies :
             /\ \/ Len(taken) < Len(sent) /\ r = sent[Len(taken) + 1]
                \/ misled /\ r.body = None
             /\ taken' = Append(taken, r)
        /\ UNCHANGED <<asked, sent, misled, outcome>>

\* All that was asked for has been answered, or the client gives up.
End == /\ outcome = "open"
       /\ outcome' \in {"done", "failed"}
       /\ outcome' = "done" => asked = Len(taken)
       /\ UNCHANGED <<asked, sent, taken, misled>>

Next == Ask \/ Reply \/ Take \/ End

Spec == Init /\ [][Next]_<<asked, sent, taken, misled, outcome>>
=============================================================================
