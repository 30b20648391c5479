------------------------------- MODULE Katare -------------------------------
(***************************************************************************)
(* katare.c, the client's end of a connection to a registry, and the        *)
(* conversations pkg.c holds over it: fetching (requests whose answers have *)
(* bodies) and publishing (a request with a body).                          *)
(*                                                                          *)
(* The stream is a sequence of octets.  One octet, a head, stands for the   *)
(* words of a line that matter; the rest of a line and bodies are octets of *)
(* no further meaning, and bodies may hold CR, LF and heads too.            *)
(***************************************************************************)
EXTENDS Integers, Sequences, SequencesExt

CONSTANTS
  CR, LF, Data,   \* octets
  None,           \* no body
  Jobs,           \* what a command may ask for: sequences of verbs
  Bodies,         \* what may be sent as a body
  Caps,           \* the limits on bodies a registry may give, 0 for giving none
  LineMax,        \* KAT_LINE_MAX
  BufMax,         \* the size of c->buf
  SockMax,        \* how much of an upload the network takes before it is read
  Upload          \* the number of octets published

\* The words of a line, and the octets of the stream.
StatusWords == [si : BOOLEAN, kyx : BOOLEAN, n : Nat, sema : Bodies]
Octet == {CR, LF, Data} \cup StatusWords

\* A command fetches, or it publishes one archive; a file may be empty.
ASSUME KatareAssumption ==
  /\ CR # LF /\ CR # Data /\ LF # Data /\ {CR, LF, Data} \cap StatusWords = {}
  /\ Bodies \subseteq Seq(Octet) /\ <<>> \in Bodies /\ None \notin Bodies
  /\ \A j \in Jobs : /\ j \in Seq({"text", "archive"}) \/ j \in Seq({"kalit", "kango"})
                     /\ \A i, k \in DOMAIN j : j[i] = "kango" /\ j[k] = "kango" => i = k
  /\ Caps \subseteq Nat
  /\ LineMax \in Nat /\ LineMax > 1 /\ BufMax \in Nat /\ BufMax > LineMax
  /\ SockMax \in Nat \ {0} /\ Upload \in Nat

VARIABLES
  wire,       \* sent by the registry, not yet read
  up,         \* sent by the client, not yet read: verbs, and "octet"s
  peer,       \* the registry's end: "open", "closed" or "reset"
  srv, owed,  \* what the registry does next; octets of an upload it awaits
  buf, off,   \* c->buf[0 .. c->len) and c->off
  st,         \* the words of the last status line, c->body and c->body_len
  out,        \* what has been read of the body
  cap,        \* c->cap_body
  left,       \* octets of the upload not yet written
  todo, pc,   \* the requests to be made, the current one first; and where
  trouble,    \* has the network, the disk or the registry failed?
  asked, sent, taken,   \* history: requests, replies, replies acted upon
  misled                \* history: has a reply had a body that nobody will read?

registry == <<srv, owed>>
memory   == <<buf, off, st, out, cap, left>>
history  == <<asked, sent, taken, misled>>
vars == <<wire, up, peer, registry, memory, todo, pc, trouble, history>>

\* A digest is the body it is the digest of.
Replies == [si : BOOLEAN, body : Bodies \cup {None}, sema : Bodies]

\* Words: `si', or another status; `kyx <n>' at the end if a body follows.
Words(r) == [si |-> r.si, kyx |-> r.body # None,
             n |-> IF r.body = None THEN 0 ELSE Len(r.body), sema |-> r.sema]
IsHead(o) == o \notin {CR, LF, Data}

Octets(r) == <<Words(r), CR, LF>> \o (IF r.body = None THEN <<>> ELSE r.body)

Plain(si) == [si |-> si, body |-> None, sema |-> <<>>]
NoStatus == Words(Plain(FALSE))

\* What a registry that keeps to the protocol says to each request.
Proper(v, r) ==
  \/ r = Plain(FALSE)
  \/ r.si /\ CASE v = "text"    -> r.body # None /\ r.sema = <<>>
               [] v = "archive" -> r.body # None /\ r.sema = r.body
               [] OTHER         -> r = Plain(TRUE)

Final == {"done", "failed", "killed"}

TypeOK ==
  /\ peer \in {"open", "closed", "reset"}
  /\ srv \in {"greet", "hello", "ready", "upload"} /\ owed \in 0..Upload
  /\ Len(buf) <= BufMax /\ off \in 0..Len(buf)
  /\ Len(out) <= st.n
  /\ left \in 0..Upload /\ Len(up) <= SockMax
  /\ pc \in {"dial", "greeting", "greet", "caps", "ask", "upload", "status",
             "body"} \cup Final

Init ==
  /\ wire = <<>> /\ up = <<>> /\ peer = "open" /\ srv = "greet" /\ owed = 0
  /\ buf = <<>> /\ off = 0 /\ st = NoStatus /\ out = <<>> /\ left = Upload
  /\ cap = 64 * 1024 * 1024
  /\ todo \in Jobs /\ pc = "dial" /\ trouble = FALSE
  /\ asked = 0 /\ sent = <<>> /\ taken = <<>> /\ misled = FALSE

-----------------------------------------------------------------------------
(* The client: endings, reading, writing. *)

Verb == Head(todo)

\* kat_close writes `koja'; nothing ignores SIGPIPE, so on a connection that
\* has been reset that write is the end of the process.
Close(how) == pc' = IF peer = "reset" THEN "killed" ELSE how

GiveUp == /\ Close("failed")
          /\ UNCHANGED <<wire, up, peer, registry, memory, todo, history>>

Rest == SubSeq(buf, off + 1, Len(buf))
HasLine == LF \in ToSet(Rest)

Wants ==
  \/ pc \in {"greeting", "caps", "status"} /\ ~HasLine /\ Len(Rest) <= LineMax
  \/ pc = "body" /\ Len(out) < st.n /\ Rest = <<>>

\* A bug: the room asked for is that of an empty buffer.
Room_all == BufMax

Room == BufMax - Len(Rest)

\* read() returns as much as it likes of what has come.
Refill ==
  /\ Wants
  /\ \E k \in 1..Len(wire) :
       /\ k <= Room
       /\ buf' = Rest \o SubSeq(wire, 1, k)
       /\ wire' = SubSeq(wire, k + 1, Len(wire))
  /\ off' = 0
  /\ UNCHANGED <<up, peer, registry, st, out, cap, left, todo, pc, trouble, history>>

\* Does the registry wait too?  Then a timeout is nobody's fault but ours.
Waiting == srv # "greet" /\ up = <<>> /\ (srv = "upload" => owed > 0)

\* A bug: no timeout is set on the socket.
RefillFails_waits ==
  /\ Wants /\ wire = <<>> /\ peer # "open"
  /\ GiveUp /\ UNCHANGED trouble

\* End of file, an error, or KAT_IO_TIMEOUT seconds without an octet.
RefillFails ==
  /\ Wants /\ wire = <<>>
  /\ trouble' = (trouble \/ (peer = "open" /\ ~Waiting))
  /\ GiveUp

\* The first line of the buffer without its CR LF, and where it ends.
LineEnd == CHOOSE k \in 1..Len(Rest) :
             Rest[k] = LF /\ LF \notin ToSet(SubSeq(Rest, 1, k - 1))
GoodLine == LineEnd > 1 /\ Rest[LineEnd - 1] = CR /\ LineEnd - 1 <= LineMax
Line == SubSeq(Rest, 1, LineEnd - 2)

\* read_line fails: bare LF, no room for the line, or no end to it.
LineFails ==
  /\ pc \in {"greeting", "caps", "status"}
  /\ IF HasLine THEN ~GoodLine ELSE Len(Rest) > LineMax
  /\ UNCHANGED trouble
  /\ GiveUp

\* A line has been read; `said' are its words if it starts with a head.
GotLine == HasLine /\ GoodLine /\ off' = off + LineEnd /\ buf' = buf
Said == IF Line # <<>> /\ IsHead(Line[1]) THEN Line[1] ELSE NoStatus

\* write(): a connection the registry has closed takes it, and is reset by it.
Put(xs) ==
  \/ /\ peer = "open" /\ Len(up) + Len(xs) <= SockMax
     /\ up' = up \o xs /\ UNCHANGED <<wire, peer>>
  \/ /\ peer = "closed"
     /\ peer' = "reset" /\ wire' \in {wire, <<>>} /\ UNCHANGED up

Writes == \/ pc = "greet"
          \/ pc = "ask" /\ todo # <<>>
          \/ pc = "upload" /\ left > 0

\* Writing once more raises SIGPIPE.
WriteKills ==
  /\ Writes /\ peer = "reset"
  /\ pc' = "killed"
  /\ UNCHANGED <<wire, up, peer, registry, memory, todo, trouble, history>>

\* The network stays full for KAT_IO_TIMEOUT seconds.
WriteFails ==
  /\ Writes /\ peer = "open" /\ Len(up) = SockMax
  /\ trouble' = TRUE
  /\ GiveUp

-----------------------------------------------------------------------------
(* kat_connect *)

Dial ==
  /\ pc = "dial"
  /\ \/ pc' = "greeting" /\ UNCHANGED trouble
     \/ pc' = "failed" /\ trouble' = TRUE
  /\ UNCHANGED <<wire, up, peer, registry, memory, todo, history>>

ReadGreeting ==
  /\ pc = "greeting" /\ GotLine
  /\ IF Said.si THEN pc' = "greet" ELSE Close("failed")
  /\ UNCHANGED <<wire, up, peer, registry, st, out, cap, left, todo, trouble, history>>

WriteGreeting ==
  /\ pc = "greet" /\ Put(<<"hello">>)
  /\ pc' = "caps"
  /\ UNCHANGED <<registry, memory, todo, trouble, history>>

\* The limit on bodies is one of the words; without it the default stands.
ReadCaps ==
  /\ pc = "caps" /\ GotLine
  /\ IF Said.si THEN pc' = "ask" ELSE Close("failed")
  /\ cap' = IF Said.si /\ Said.kyx THEN Said.n ELSE cap
  /\ UNCHANGED <<wire, up, peer, registry, st, out, left, todo, trouble, history>>

-----------------------------------------------------------------------------
(* Requests and replies: kat_request, kat_send_line, kat_read_status,       *)
(* kat_read_body, kat_read_body_verified, and what pkg.c does between them. *)

\* cmd_publish compares the archive with the limit before it says anything.
TooLarge == Verb = "kalit" /\ Upload > cap

Refrain == pc = "ask" /\ todo # <<>> /\ TooLarge /\ GiveUp /\ UNCHANGED trouble

\* Where a request leads: the body of `kango' goes out before a status is read.
\* A bug: the status is awaited first.
AfterRequest_waits == "status"

AfterRequest == IF Verb = "kango" THEN "upload" ELSE "status"

Request ==
  /\ pc = "ask" /\ todo # <<>> /\ ~TooLarge
  /\ Put(<<Verb>>)
  /\ asked' = asked + 1
  /\ st' = NoStatus /\ out' = <<>>
  /\ pc' = AfterRequest
  /\ UNCHANGED <<registry, buf, off, cap, left, todo, trouble, sent, taken, misled>>

SendBody ==
  /\ pc = "upload" /\ left > 0
  /\ \E k \in 1..left : /\ Put([j \in 1..k |-> "octet"])
                        /\ left' = left - k
  /\ UNCHANGED <<registry, buf, off, st, out, cap, todo, pc, trouble, history>>

BodySent ==
  /\ pc = "upload" /\ left = 0
  /\ pc' = "status"
  /\ UNCHANGED <<wire, up, peer, registry, memory, todo, trouble, history>>

\* The reply has been acted upon; on to the next request.
Acted(r) == taken' = Append(taken, r) /\ todo' = Tail(todo) /\ pc' = "ask"

\* After a status that is not `si', or one without the body its reader needs,
\* every caller closes the connection, since a body may follow that nobody reads.
\* cmd_publish needs no body, and does not look whether one follows.
Refused(s) ==
  \/ ~s.si
  \/ Verb \in {"text", "archive"} /\ ~s.kyx
  \/ Verb = "text" /\ s.n > cap

ReadStatus ==
  /\ pc = "status" /\ GotLine
  /\ st' = Said
  /\ IF Refused(Said) THEN Close("failed") /\ UNCHANGED <<todo, taken>>
     ELSE IF Verb \in {"text", "archive"} THEN pc' = "body" /\ UNCHANGED <<todo, taken>>
     ELSE Acted(Plain(TRUE))
  /\ UNCHANGED <<wire, up, peer, registry, out, cap, left, trouble, asked, sent, misled>>

\* A bug: all that is in the buffer is taken for the body.
Taken_all == Len(Rest)

Taken == IF Len(Rest) < st.n - Len(out) THEN Len(Rest) ELSE st.n - Len(out)

ReadBody ==
  /\ pc = "body" /\ Len(out) < st.n /\ Rest # <<>>
  /\ out' = out \o SubSeq(Rest, 1, Taken)
  /\ off' = off + Taken
  /\ UNCHANGED <<wire, up, peer, registry, buf, st, cap, left, todo, pc, trouble, history>>

\* The file an archive is streamed into cannot be written.
SinkFails ==
  /\ pc = "body" /\ Verb = "archive"
  /\ trouble' = TRUE
  /\ GiveUp

\* A bug: the digest of an archive is not compared.
Accepted_any == TRUE

Accepted == Verb = "archive" => out = st.sema

BodyRead ==
  /\ pc = "body" /\ Len(out) >= st.n
  /\ IF Accepted THEN Acted([si |-> TRUE, body |-> out, sema |-> st.sema])
     ELSE Close("failed") /\ UNCHANGED <<todo, taken>>
  /\ UNCHANGED <<wire, up, peer, registry, memory, trouble, asked, sent, misled>>

Finish ==
  /\ pc = "ask" /\ todo = <<>>
  /\ Close("done")
  /\ UNCHANGED <<wire, up, peer, registry, memory, todo, trouble, history>>

Client ==
  \/ Dial \/ Refill \/ RefillFails \/ LineFails \/ WriteKills \/ WriteFails
  \/ ReadGreeting \/ WriteGreeting \/ ReadCaps
  \/ Refrain \/ Request \/ SendBody \/ BodySent
  \/ ReadStatus \/ ReadBody \/ SinkFails \/ BodyRead \/ Finish

-----------------------------------------------------------------------------
(* The registry and the network. *)

Say(xs) == wire' = wire \o xs

Greets ==
  /\ srv = "greet" /\ peer = "open"
  /\ srv' = "hello"
  /\ \/ Say(Octets(Plain(TRUE))) /\ UNCHANGED trouble
     \/ \* another service answers on that port
        /\ Say([j \in 1..LineMax + 2 |-> Data]) \/ Say(<<Data, LF>>)
        /\ trouble' = TRUE
  /\ UNCHANGED <<up, peer, owed, memory, todo, pc, history>>

HearsGreeting ==
  /\ srv = "hello" /\ peer = "open" /\ up # <<>>
  /\ srv' = "ready" /\ up' = Tail(up)
  /\ \E c \in Caps : Say(<<[Words(Plain(TRUE)) EXCEPT !.kyx = (c > 0), !.n = c], CR, LF>>)
  /\ UNCHANGED <<peer, owed, memory, todo, pc, trouble, history>>

\* The client will go on, and leave the body in the stream.
LeavesBody(v, r) == v \in {"kalit", "kango"} /\ r.si /\ r.body # None

\* `trouble' when the reply is not one the protocol allows, or its reader would.
Answers(v, r) ==
  /\ Say(Octets(r))
  /\ sent' = Append(sent, r)
  /\ misled' = (misled \/ LeavesBody(v, r))
  /\ trouble' = (trouble \/ ~Proper(v, r) \/ (v = "text" /\ Words(r).n > cap))

\* Any status, with or without a body. Only an archive's reader looks for a digest.
HearsRequest ==
  /\ srv = "ready" /\ peer = "open" /\ up # <<>>
  /\ up' = Tail(up)
  /\ IF up[1] = "kango"
     THEN srv' = "upload" /\ owed' = Upload /\ UNCHANGED <<wire, sent, trouble, misled>>
     ELSE /\ \E r \in Replies : (up[1] # "archive" => r.sema = <<>>) /\ Answers(up[1], r)
          /\ UNCHANGED registry
  /\ UNCHANGED <<peer, memory, todo, pc, asked, taken>>

HearsUpload ==
  /\ srv = "upload" /\ peer = "open" /\ up # <<>> /\ owed > 0
  /\ up' = Tail(up) /\ owed' = owed - 1
  /\ UNCHANGED <<wire, peer, srv, memory, todo, pc, trouble, history>>

Publishes ==
  /\ srv = "upload" /\ peer = "open" /\ owed = 0
  /\ srv' = "ready"
  /\ \E r \in Replies : r.sema = <<>> /\ Answers("kango", r)
  /\ UNCHANGED <<up, peer, owed, memory, todo, pc, asked, taken>>

\* Shutting down, with or without a word; or cut off in the middle of a reply.
Leaves ==
  /\ peer = "open"
  /\ \/ peer' = "closed" /\ wire' \in {wire, wire \o Octets(Plain(FALSE))}
     \/ peer' = "closed" /\ wire # <<>> /\ wire' = SubSeq(wire, 1, Len(wire) - 1)
     \/ peer' = "reset" /\ wire' = <<>>
  /\ trouble' = TRUE
  /\ UNCHANGED <<up, registry, memory, todo, pc, history>>

Registry == /\ pc \notin Final
            /\ Greets \/ HearsGreeting \/ HearsRequest \/ HearsUpload \/ Publishes \/ Leaves

\* The command has closed the connection; explicit, so that a deadlock is one.
Over == pc \in Final /\ UNCHANGED vars

Next == Client \/ Registry \/ Over

Spec == Init /\ [][Next]_vars
FairSpec == Spec /\ WF_vars(Client)

-----------------------------------------------------------------------------
(* Properties *)

\* The client acts upon the replies it was sent, whole, in order, and one for
\* each request, however reads cut the stream and whatever ends it; but for one
\* case.  A body that comes with the reply to `kalit' stays in the stream, and
\* Exchange promises less from then on (pkg.c:1760-1787).
Outcome == IF pc = "done" THEN "done" ELSE IF pc \in Final THEN "failed" ELSE "open"
Abstract == INSTANCE Exchange WITH Replies <- Replies, outcome <- Outcome
Faithful == Abstract!Spec

\* An archive is handed on only if the digest its status line named is its own
\* (kat_read_body_verified).
OnlyVerified == \A r \in ToSet(taken) : r.body # None /\ r.sema # <<>> => r.sema = r.body

\* Where no reply refused it, and nothing failed, the command gets what it asked
\* for: no reply is lost between reads, and nobody waits for the other for ever.
Served == pc \in {"failed", "killed"} =>
            trouble \/ Plain(FALSE) \in ToSet(sent) \/ (todo # <<>> /\ TooLarge)

\* Every command comes back, whatever the registry does or leaves undone.
Terminates == <>(pc \in Final)
=============================================================================
