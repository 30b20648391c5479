---------------------------- MODULE KatareProofs ----------------------------
(***************************************************************************)
(* Proofs about Katare: whatever a command asks for, however long lines,   *)
(* bodies and buffers may be, however reads and writes cut the stream and  *)
(* wherever the registry or the network ends it.                           *)
(***************************************************************************)
EXTENDS Katare, SequenceTheorems, WellFoundedInduction, TLAPS

Verbs == {"text", "archive", "kalit", "kango"}

\* A request has been made, and not all of its reply has been read.
Mid == pc \in {"upload", "status", "body"}

\* Its reply has been said.
Pending == Len(sent) = Len(taken) + 1
Reply == sent[Len(sent)]

(***************************************************************************)
(* The types of what TypeOK leaves open.                                   *)
(***************************************************************************)
Types ==
  /\ wire \in Seq(Octet) /\ buf \in Seq(Octet) /\ out \in Seq(Octet)
  /\ up \in Seq(Verbs \cup {"hello", "octet"})
  /\ st \in StatusWords /\ cap \in Nat
  /\ todo \in Seq(Verbs) /\ trouble \in BOOLEAN
  /\ asked \in Nat /\ sent \in Seq(Replies) /\ taken \in Seq(Replies)
  /\ misled \in BOOLEAN

\* Requests, replies and what became of them, by number.
Counts ==
  /\ asked \in {Len(taken), Len(taken) + 1}
  /\ Len(sent) \in {Len(taken), asked}
  /\ pc \notin Final => (asked = Len(taken) + 1 <=> Mid)
  /\ Mid => todo # <<>>
  /\ pc = "body" => Pending

\* The octets said and not yet consumed, and what they can be.
Unread == Rest \o wire
Bye == Octets(Plain(FALSE))
Greetings == {Octets(Plain(TRUE)), [j \in 1..LineMax + 2 |-> Data], <<Data, LF>>}
CapsLine(c) == <<[Words(Plain(TRUE)) EXCEPT !.kyx = (c > 0), !.n = c], CR, LF>>

Due ==
  CASE pc \in {"dial", "greeting"} /\ srv = "hello" -> Greetings
    [] pc = "caps" /\ srv = "ready" -> {CapsLine(c) : c \in Caps}
    [] pc \in {"upload", "status"} /\ Pending -> {Octets(Reply)}
    [] pc = "body" -> {SubSeq(Reply.body, Len(out) + 1, Len(Reply.body))}
    [] OTHER -> {<<>>}

\* A connection that was cut may end anywhere in them, or in a last refusal.
In(due) == IF peer = "open" THEN Unread = due ELSE IsPrefix(Unread, due \o Bye)

Stream == pc \notin Final => \E due \in Due : In(due)

\* What of a body has been read is what was sent of it.
BodySoFar ==
  /\ pc \in {"upload", "status"} => out = <<>>
  /\ pc = "body" => /\ st = Words(Reply) /\ st.si /\ Reply.body # None
                    /\ Len(out) <= Len(Reply.body) /\ out = SubSeq(Reply.body, 1, Len(out))
                    /\ Verb \in {"text", "archive"}

\* The reply is one whose reader reads all of it, or refuses it.
Fits ==
  Mid /\ Pending => /\ Verb \in {"kalit", "kango"} /\ Reply.si => Reply = Plain(TRUE)
                    /\ Verb = "text" => Reply.sema = <<>>

\* What the registry waits for, and what is on its way there.
Talk ==
  /\ pc \in {"dial", "greeting", "greet"} => srv \in {"greet", "hello"} /\ up = <<>>
  /\ pc \in {"greet", "caps"} /\ peer = "open" => srv # "greet"
  /\ peer = "open" =>
       /\ pc = "caps" => \/ srv = "hello" /\ up = <<"hello">>
                         \/ srv = "ready" /\ up = <<>>
       /\ pc \in {"ask", "body"} => srv = "ready" /\ up = <<>>
       /\ pc \in {"upload", "status"} =>
            \/ /\ ~Pending /\ srv = "ready" /\ up # <<>> /\ up[1] = Verb
               /\ \A j \in 2..Len(up) : up[j] = "octet"
               /\ Len(up) - 1 = IF Verb = "kango" THEN Upload - left ELSE 0
            \/ /\ ~Pending /\ srv = "upload" /\ Verb = "kango"
               /\ \A j \in 1..Len(up) : up[j] = "octet"
               /\ owed = Len(up) + left
            \/ Pending /\ srv = "ready" /\ up = <<>> /\ (Verb = "kango" => left = 0)

\* One upload, all of it.
Uploads ==
  /\ pc = "upload" => Verb = "kango"
  /\ pc = "status" => (Verb = "kango" => left = 0)
  /\ \A i, k \in 1..Len(todo) : todo[i] = "kango" /\ todo[k] = "kango" => i = k
  /\ \A i \in 1..Len(todo) :
       pc \notin Final /\ todo[i] = "kango" /\ ~(i = 1 /\ Mid) => left = Upload

\* Where nothing has failed, the connection is open and every reply proper.
Calm ==
  pc \notin Final /\ ~trouble =>
    /\ peer = "open"
    /\ pc \in {"dial", "greeting"} /\ srv = "hello" => Unread = Octets(Plain(TRUE))
    /\ Mid /\ Pending => Proper(Verb, Reply) /\ (Verb = "text" => Words(Reply).n <= cap)

\* A command that fetches does not publish.
Errand ==
  \/ \A i \in 1..Len(todo) : todo[i] \in {"text", "archive"}
  \/ \A i \in 1..Len(todo) : todo[i] \in {"kalit", "kango"}

\* Until a reply has brought a body that nobody reads, the two ends agree.
Agree ==
  /\ Counts /\ Stream /\ BodySoFar /\ Fits /\ Talk /\ Uploads /\ Calm /\ Errand

\* From then on the client publishes, reads no body, and asks before it acts.
Misled ==
  /\ trouble /\ out = <<>> /\ pc \in {"ask", "upload", "status"} \cup Final
  /\ \A i \in 1..Len(todo) : todo[i] \in {"kalit", "kango"}
  /\ asked \in {Len(taken), Len(taken) + 1}
  /\ pc \notin Final => (asked = Len(taken) + 1 <=> Mid)
  /\ Mid => todo # <<>>

KatareInv ==
  /\ TypeOK /\ Types /\ OnlyVerified /\ Served
  /\ IF misled THEN Misled ELSE Agree

-----------------------------------------------------------------------------
(* Sequences *)

\* A set of numbers that is not empty has a least one.
LEMMA Least ==
  ASSUME NEW S \in SUBSET Nat, S # {}
  PROVE  \E k \in S : \A j \in S : k <= j
<1>1. PICK k \in S : \A j \in S : <<j, k>> \notin OpToRel(<, Nat)
  BY WFMin, NatLessThanWellFounded
<1>2. \A j \in S : ~(j < k)
  BY <1>1 DEF OpToRel
<1> QED
  BY <1>2

\* What is left of a sequence after its first k elements.
LEMMA Dropped ==
  ASSUME NEW S, NEW s \in Seq(S), NEW k \in 0..Len(s)
  PROVE  /\ SubSeq(s, k + 1, Len(s)) \in Seq(S)
         /\ Len(SubSeq(s, k + 1, Len(s))) = Len(s) - k
         /\ \A i \in 1..Len(s) - k : SubSeq(s, k + 1, Len(s))[i] = s[k + i]
BY SubSeqProperties

\* ... and the first k.
LEMMA First ==
  ASSUME NEW S, NEW s \in Seq(S), NEW k \in 0..Len(s)
  PROVE  /\ SubSeq(s, 1, k) \in Seq(S) /\ Len(SubSeq(s, 1, k)) = k
         /\ \A i \in 1..k : SubSeq(s, 1, k)[i] = s[i]
BY SubSeqProperties

\* Two sequences one after the other.
LEMMA Joined ==
  ASSUME NEW S, NEW s \in Seq(S), NEW t \in Seq(S)
  PROVE  /\ Len(s) \in Nat /\ Len(t) \in Nat
         /\ s \o t \in Seq(S) /\ Len(s \o t) = Len(s) + Len(t)
         /\ \A i \in 1..Len(s) : (s \o t)[i] = s[i]
         /\ \A i \in 1..Len(t) : (s \o t)[Len(s) + i] = t[i]
BY ConcatProperties, LenProperties

\* A prefix, element by element.
LEMMA PrefixElements ==
  ASSUME NEW S, NEW s \in Seq(S), NEW t \in Seq(S)
  PROVE  IsPrefix(s, t) <=> Len(s) <= Len(t) /\ \A i \in 1..Len(s) : s[i] = t[i]
<1>1. SubSeq(s, 1, Len(s)) = s
  BY SubSeqFull
<1>2. CASE Len(s) <= Len(t)
  <2> DEFINE u == SubSeq(t, 1, Len(s))
  <2>1. u \in Seq(S) /\ Len(u) = Len(s) /\ \A i \in 1..Len(s) : u[i] = t[i]
    BY <1>2, First
  <2>2. s = u <=> \A i \in 1..Len(s) : s[i] = u[i]
    BY <2>1, SeqEqual
  <2> QED
    BY <1>1, <1>2, <2>1, <2>2 DEF IsPrefix
<1>3. CASE ~(Len(s) <= Len(t))
  BY <1>3 DEF IsPrefix
<1> QED
  BY <1>2, <1>3

\* Dropping as much from both keeps a prefix a prefix.
LEMMA PrefixDropped ==
  ASSUME NEW S, NEW s \in Seq(S), NEW t \in Seq(S), IsPrefix(s, t), NEW k \in 0..Len(s)
  PROVE  IsPrefix(SubSeq(s, k + 1, Len(s)), SubSeq(t, k + 1, Len(t)))
<1>1. Len(s) <= Len(t) /\ \A i \in 1..Len(s) : s[i] = t[i]
  BY PrefixElements
<1> DEFINE u == SubSeq(s, k + 1, Len(s))
           v == SubSeq(t, k + 1, Len(t))
<1>2. u \in Seq(S) /\ Len(u) = Len(s) - k /\ \A i \in 1..Len(s) - k : u[i] = s[k + i]
  BY Dropped
<1>3. v \in Seq(S) /\ Len(v) = Len(t) - k /\ \A i \in 1..Len(t) - k : v[i] = t[k + i]
  BY <1>1, Dropped
<1> HIDE DEF u, v
<1>4. Len(u) <= Len(v) /\ \A i \in 1..Len(u) : u[i] = v[i]
  BY <1>1, <1>2, <1>3
<1>5. IsPrefix(u, v)
  BY <1>2, <1>3, <1>4, PrefixElements
<1> QED
  BY <1>5 DEF u, v

\* Prefixes of prefixes, of the whole, and of what is longer.
LEMMA PrefixTransitive ==
  ASSUME NEW S, NEW s \in Seq(S), NEW t \in Seq(S), NEW u \in Seq(S),
         IsPrefix(s, t), IsPrefix(t, u)
  PROVE  IsPrefix(s, u)
<1>1. Len(s) <= Len(t) /\ \A i \in 1..Len(s) : s[i] = t[i]
  BY PrefixElements
<1>2. Len(t) <= Len(u) /\ \A i \in 1..Len(t) : t[i] = u[i]
  BY PrefixElements
<1>3. Len(s) <= Len(u) /\ \A i \in 1..Len(s) : s[i] = u[i]
  BY <1>1, <1>2
<1> QED
  BY <1>3, PrefixElements

LEMMA PrefixLonger ==
  ASSUME NEW S, NEW s \in Seq(S), NEW t \in Seq(S)
  PROVE  IsPrefix(s, s \o t)
<1>1. /\ s \o t \in Seq(S) /\ Len(s) <= Len(s \o t)
      /\ \A i \in 1..Len(s) : s[i] = (s \o t)[i]
  BY ConcatProperties
<1> QED
  BY <1>1, PrefixElements

\* Taking the first of a sequence, and adding a last one.
LEMMA Popped ==
  ASSUME NEW S, NEW s \in Seq(S), s # <<>>
  PROVE  /\ Len(s) \in Nat /\ Len(s) > 0 /\ Head(s) = s[1] /\ Head(s) \in S
         /\ Tail(s) \in Seq(S) /\ Len(Tail(s)) = Len(s) - 1
         /\ \A i \in 1..Len(s) - 1 : Tail(s)[i] = s[i + 1]
<1>1. Len(s) \in Nat /\ Len(s) > 0
  BY EmptySeq
<1> QED
  BY <1>1, HeadTailProperties

LEMMA Pushed ==
  ASSUME NEW S, NEW s \in Seq(S), NEW e \in S
  PROVE  /\ Len(s) \in Nat /\ Append(s, e) \in Seq(S) /\ Len(Append(s, e)) = Len(s) + 1
         /\ Append(s, e)[Len(s) + 1] = e
         /\ \A i \in 1..Len(s) : Append(s, e)[i] = s[i]
         /\ ToSet(Append(s, e)) = ToSet(s) \cup {e}
<1>1. /\ Len(s) \in Nat /\ Append(s, e) \in Seq(S) /\ Len(Append(s, e)) = Len(s) + 1
      /\ Append(s, e)[Len(s) + 1] = e
      /\ \A i \in 1..Len(s) : Append(s, e)[i] = s[i]
  BY AppendProperties, LenProperties
<1>2. DOMAIN Append(s, e) = 1..Len(s) + 1 /\ DOMAIN s = 1..Len(s)
  BY <1>1, LenProperties
<1>3. 1..Len(s) + 1 = (1..Len(s)) \cup {Len(s) + 1}
  BY <1>1
<1> QED
  BY <1>1, <1>2, <1>3 DEF ToSet

-----------------------------------------------------------------------------
(* The unread octets *)

LEMMA UnreadTypes ==
  ASSUME TypeOK, Types
  PROVE  /\ Rest \in Seq(Octet) /\ Len(Rest) = Len(buf) - off
         /\ Unread \in Seq(Octet) /\ Len(Unread) = Len(Rest) + Len(wire)
         /\ Len(Rest) \in Nat /\ Len(wire) \in Nat
         /\ \A i \in 1..Len(Rest) : Unread[i] = Rest[i]
         /\ \A i \in 1..Len(wire) : Unread[Len(Rest) + i] = wire[i]
<1>1. Rest \in Seq(Octet) /\ Len(Rest) = Len(buf) - off
  BY Dropped DEF Rest, TypeOK, Types
<1>2. wire \in Seq(Octet)
  BY DEF Types
<1>3. /\ Rest \o wire \in Seq(Octet) /\ Len(Rest \o wire) = Len(Rest) + Len(wire)
      /\ Len(Rest) \in Nat /\ Len(wire) \in Nat
      /\ \A i \in 1..Len(Rest) : (Rest \o wire)[i] = Rest[i]
      /\ \A i \in 1..Len(wire) : (Rest \o wire)[Len(Rest) + i] = wire[i]
  <2>1. Rest \in Seq(Octet)
    BY <1>1
  <2> QED
    BY <1>2, <2>1, Joined
<1> QED
  BY <1>1, <1>3, Zenon DEF Unread

\* A read moves octets into the buffer, and loses none.
LEMMA RefillKeeps ==
  ASSUME TypeOK, Types, Refill
  PROVE  /\ Unread' = Unread
         /\ buf' \in Seq(Octet) /\ wire' \in Seq(Octet) /\ Len(buf') <= BufMax
<1>1. PICK k \in 1..Len(wire) : /\ k <= Room
                                /\ buf' = Rest \o SubSeq(wire, 1, k)
                                /\ wire' = SubSeq(wire, k + 1, Len(wire))
  BY DEF Refill
<1> DEFINE a == SubSeq(wire, 1, k)
           b == SubSeq(wire, k + 1, Len(wire))
<1>2. Rest \in Seq(Octet) /\ wire \in Seq(Octet)
  BY UnreadTypes DEF Types
<1>3. a \in Seq(Octet) /\ Len(a) = k /\ b \in Seq(Octet) /\ a \o b = wire
  <2>1. a \in Seq(Octet) /\ Len(a) = k
    BY <1>2, First
  <2>2. b \in Seq(Octet)
    BY <1>2, Dropped
  <2>3. a \o b = SubSeq(wire, 1, Len(wire))
    BY <1>2, ConcatAdjacentSubSeq
  <2> QED
    BY <1>2, <2>1, <2>2, <2>3, SubSeqFull
<1>4. buf' \in Seq(Octet) /\ Len(buf') = Len(Rest) + k
  BY <1>1, <1>2, <1>3, ConcatProperties
<1>5. Len(buf') <= BufMax
  BY <1>1, <1>2, <1>4, LenProperties, KatareAssumption DEF Room, TypeOK
<1>6. Rest' = buf'
  <2>1. off' = 0 /\ Rest' = SubSeq(buf', 1, Len(buf'))
    BY DEF Refill, Rest
  <2> QED
    BY <2>1, <1>4, SubSeqFull
<1>7. Unread' = (Rest \o a) \o b
  BY <1>1, <1>6 DEF Unread
<1>8. (Rest \o a) \o b = Rest \o (a \o b)
  <2>1. a \in Seq(Octet) /\ b \in Seq(Octet) /\ Rest \in Seq(Octet)
    BY <1>2, <1>3
  <2> HIDE DEF a, b
  <2> QED
    BY <2>1, ConcatAssociative
<1> QED
  BY <1>1, <1>3, <1>4, <1>5, <1>7, <1>8 DEF Unread

\* Reading on in the buffer consumes as many octets of the stream.
LEMMA ReadOn ==
  ASSUME TypeOK, Types, NEW k \in 0..Len(Rest), buf' = buf, off' = off + k, wire' = wire
  PROVE  /\ Unread' = SubSeq(Unread, k + 1, Len(Unread))
         /\ off' \in 0..Len(buf')
<1>1. buf \in Seq(Octet) /\ wire \in Seq(Octet)
  BY DEF Types
<1>2. off \in 0..Len(buf) /\ Len(Rest) = Len(buf) - off /\ Len(buf) \in Nat
  BY <1>1, UnreadTypes, LenProperties DEF TypeOK
<1>3. off + k \in 0..Len(buf)
  BY <1>2
<1> DEFINE r == SubSeq(buf, off + k + 1, Len(buf))
           u == SubSeq(Unread, k + 1, Len(Unread))
<1>4. /\ r \in Seq(Octet) /\ Len(r) = Len(buf) - (off + k)
      /\ \A i \in 1..Len(buf) - (off + k) : r[i] = buf[off + k + i]
  BY <1>1, <1>3, Dropped
<1>5. \A i \in 1..Len(Rest) : Rest[i] = buf[off + i]
  BY <1>1, <1>2, Dropped DEF Rest
<1>6. /\ Len(Unread) = Len(Rest) + Len(wire) /\ Unread \in Seq(Octet)
      /\ \A i \in 1..Len(Rest) : Unread[i] = Rest[i]
      /\ \A i \in 1..Len(wire) : Unread[Len(Rest) + i] = wire[i]
      /\ Len(Rest) \in Nat /\ Len(wire) \in Nat
  BY UnreadTypes
<1>7. /\ u \in Seq(Octet) /\ Len(u) = Len(Unread) - k
      /\ \A i \in 1..Len(Unread) - k : u[i] = Unread[k + i]
  <2>1. Unread \in Seq(Octet) /\ k \in 0..Len(Unread)
    BY <1>6
  <2> QED
    BY <2>1, Dropped
<1>8. /\ r \o wire \in Seq(Octet) /\ Len(r \o wire) = Len(r) + Len(wire)
      /\ \A i \in 1..Len(r) : (r \o wire)[i] = r[i]
      /\ \A i \in 1..Len(wire) : (r \o wire)[Len(r) + i] = wire[i]
  <2>1. r \in Seq(Octet)
    BY <1>4
  <2> HIDE DEF r
  <2> QED
    BY <1>1, <2>1, Joined
<1> HIDE DEF r, u
<1>9. Len(r) = Len(Rest) - k /\ Len(r \o wire) = Len(u)
  BY <1>2, <1>4, <1>6, <1>7, <1>8
<1>10. ASSUME NEW i \in 1..Len(u)
       PROVE  (r \o wire)[i] = u[i]
  <2>1. u[i] = Unread[k + i]
    BY <1>7, <1>10
  <2>2. ASSUME i <= Len(r)
        PROVE  (r \o wire)[i] = Unread[k + i]
    <3>1. i \in 1..Len(r) /\ i \in 1..Len(buf) - (off + k) /\ k + i \in 1..Len(Rest)
      BY <1>2, <1>4, <1>9, <2>2
    <3>2. (r \o wire)[i] = buf[off + k + i]
      BY <1>4, <1>8, <3>1
    <3>3. Unread[k + i] = buf[off + (k + i)]
      BY <1>5, <1>6, <3>1
    <3>4. off + (k + i) = off + k + i
      BY <1>2
    <3> QED
      BY <3>2, <3>3, <3>4
  <2>3. ASSUME i > Len(r)
        PROVE  (r \o wire)[i] = Unread[k + i]
    <3> DEFINE j == i - Len(r)
    <3>1. j \in 1..Len(wire) /\ i = Len(r) + j /\ k + i = Len(Rest) + j
      BY <1>6, <1>7, <1>9, <2>3
    <3> HIDE DEF j
    <3>2. (r \o wire)[i] = wire[j]
      BY <1>8, <3>1
    <3>3. Unread[k + i] = wire[j]
      BY <1>6, <3>1
    <3> QED
      BY <3>2, <3>3
  <2>4. i <= Len(r) \/ i > Len(r)
    BY <1>6, <1>9
  <2> QED
    BY <2>1, <2>2, <2>3, <2>4
<1>11. r \o wire = u
  <2>1. r \o wire \in Seq(Octet) /\ u \in Seq(Octet) /\ Len(r \o wire) = Len(u)
    BY <1>7, <1>8, <1>9
  <2>2. \A i \in 1..Len(r \o wire) : (r \o wire)[i] = u[i]
    BY <1>9, <1>10
  <2> QED
    BY <2>1, <2>2, SeqEqual
<1>12. Rest' = r
  BY <1>2 DEF Rest, r
<1> QED
  BY <1>3, <1>11, <1>12 DEF Unread, u

\* The first line of the stream, where it starts with words and a line end.
LEMMA LineRead ==
  ASSUME TypeOK, Types, NEW words \in StatusWords, NEW more \in Seq(Octet),
         IsPrefix(Unread, <<words, CR, LF>> \o more)
  PROVE  /\ HasLine => LineEnd = 3 /\ GoodLine /\ Said = words /\ 3 \in 0..Len(Rest)
         /\ ~HasLine => Len(Rest) <= 2
<1> DEFINE line == <<words, CR, LF>>
<1>1. /\ line \in Seq(Octet) /\ Len(line) = 3
      /\ line[1] = words /\ line[2] = CR /\ line[3] = LF
  BY DEF Octet
<1>2. /\ line \o more \in Seq(Octet) /\ Len(line \o more) = 3 + Len(more)
      /\ (line \o more)[1] = words /\ (line \o more)[2] = CR /\ (line \o more)[3] = LF
  <2> HIDE DEF line
  <2>1. line \in Seq(Octet)
    BY <1>1
  <2>2. /\ line \o more \in Seq(Octet) /\ Len(line \o more) = Len(line) + Len(more)
        /\ \A i \in 1..Len(line) : (line \o more)[i] = line[i]
    BY <2>1, Joined
  <2> QED
    BY <1>1, <2>2
<1>3. /\ Rest \in Seq(Octet) /\ Len(Rest) <= 3 + Len(more)
      /\ \A i \in 1..Len(Rest) : Rest[i] = (line \o more)[i]
  <2> HIDE DEF line
  <2>1. /\ Unread \in Seq(Octet) /\ Rest \in Seq(Octet) /\ Len(Unread) = Len(Rest) + Len(wire)
        /\ \A i \in 1..Len(Rest) : Rest[i] = Unread[i]
        /\ Len(Rest) \in Nat /\ Len(wire) \in Nat
    BY UnreadTypes
  <2>2. Len(Unread) <= 3 + Len(more) /\ \A i \in 1..Len(Unread) : Unread[i] = (line \o more)[i]
    BY <1>2, <2>1, PrefixElements DEF line
  <2>3. Len(more) \in Nat
    BY LenProperties
  <2>5. \A i \in 1..Len(Rest) : i \in 1..Len(Unread)
    BY <2>1
  <2>6. \A i \in 1..Len(Rest) : Rest[i] = (line \o more)[i]
    BY <2>1, <2>2, <2>5
  <2>7. Len(Rest) <= 3 + Len(more)
    BY <2>1, <2>2, <2>3
  <2> QED
    BY <2>1, <2>6, <2>7, Zenon
<1> HIDE DEF line
<1>4. words # LF /\ CR # LF /\ IsHead(words)
  BY KatareAssumption DEF IsHead
<1>5. ToSet(Rest) = {Rest[i] : i \in 1..Len(Rest)}
  BY <1>3 DEF ToSet
<1>6. Len(Rest) <= 2 => ~HasLine
  BY <1>2, <1>3, <1>4, <1>5 DEF HasLine
<1>7. ASSUME Len(Rest) > 2
      PROVE  HasLine /\ LineEnd = 3 /\ GoodLine /\ Said = words /\ 3 \in 0..Len(Rest)
  <2>1. Rest[1] = words /\ Rest[2] = CR /\ Rest[3] = LF
    <3>1. 1 \in 1..Len(Rest) /\ 2 \in 1..Len(Rest) /\ 3 \in 1..Len(Rest)
      BY <1>3, <1>7
    <3> QED
      BY <1>2, <1>3, <3>1
  <2>2. HasLine
    BY <1>3, <1>5, <1>7, <2>1 DEF HasLine
  <2>3. LF \notin ToSet(SubSeq(Rest, 1, 2))
    <3> DEFINE t == SubSeq(Rest, 1, 2)
    <3>1. t \in Seq(Octet) /\ Len(t) = 2 /\ \A i \in 1..2 : t[i] = Rest[i]
      BY <1>3, <1>7, First
    <3> QED
      BY <3>1, <2>1, <1>4 DEF ToSet
  <2>4. ASSUME NEW k \in 1..Len(Rest), Rest[k] = LF, LF \notin ToSet(SubSeq(Rest, 1, k - 1))
        PROVE  k = 3
    <3>1. ~(k <= 2)
      BY <2>1, <2>4, <1>4
    <3>2. ASSUME k > 3 PROVE FALSE
      <4> DEFINE t == SubSeq(Rest, 1, k - 1)
      <4>1. t \in Seq(Octet) /\ Len(t) = k - 1 /\ \A i \in 1..k - 1 : t[i] = Rest[i]
        BY <1>3, <1>7, First
      <4>2. t[3] = LF /\ 3 \in DOMAIN t
        BY <4>1, <3>2, <2>1
      <4> QED
        BY <4>2, <2>4 DEF ToSet
    <3> QED
      BY <3>1, <3>2
  <2>5. LineEnd = 3
    <3>1. 3 \in 1..Len(Rest) /\ 3 - 1 = 2
      BY <1>3, <1>7
    <3> QED
      BY <3>1, <2>1, <2>3, <2>4 DEF LineEnd
  <2>6. GoodLine
    BY <2>1, <2>5, KatareAssumption DEF GoodLine
  <2>7. Line \in Seq(Octet) /\ Len(Line) = 1 /\ Line[1] = words
    BY <1>3, <1>7, <2>1, <2>5, First DEF Line
  <2>8. Line # <<>>
    <3> SUFFICES ASSUME Line = <<>> PROVE FALSE
      OBVIOUS
    <3>1. Len(Line) = 0 /\ Len(Line) = 1
      BY <2>7
    <3> QED
      BY <3>1
  <2> QED
    BY <1>3, <1>4, <1>7, <2>2, <2>5, <2>6, <2>7, <2>8 DEF Said
<1> QED
  BY <1>3, <1>6, <1>7

\* What follows the status line of a reply.
BodyOf(r) == IF r.body = None THEN <<>> ELSE r.body

LEMMA ReplyOctets ==
  ASSUME NEW r \in Replies
  PROVE  /\ Words(r) \in StatusWords /\ BodyOf(r) \in Seq(Octet)
         /\ Octets(r) = <<Words(r), CR, LF>> \o BodyOf(r) /\ Octets(r) \in Seq(Octet)
<1>1. BodyOf(r) \in Seq(Octet) /\ (r.body # None => r.body \in Seq(Octet))
  BY KatareAssumption DEF BodyOf, Replies
<1>2. Words(r) \in StatusWords
  <2>1. r.body # None => Len(r.body) \in Nat
    BY <1>1, LenProperties
  <2> QED
    BY <2>1 DEF Words, Replies, StatusWords
<1>3. <<Words(r), CR, LF>> \in Seq(Octet)
  BY <1>2 DEF Octet
<1> QED
  BY <1>1, <1>2, <1>3, ConcatProperties DEF Octets, BodyOf

LEMMA PlainReply ==
  ASSUME NEW b \in BOOLEAN
  PROVE  /\ Plain(b) \in Replies /\ Words(Plain(b)).si = b /\ Words(Plain(b)).n = 0
         /\ Octets(Plain(b)) = <<Words(Plain(b)), CR, LF>>
         /\ Words(Plain(b)) \in StatusWords /\ BodyOf(Plain(b)) = <<>>
<1>1. Plain(b) \in Replies /\ Words(Plain(b)).si = b /\ Words(Plain(b)).n = 0
      /\ BodyOf(Plain(b)) = <<>>
  BY KatareAssumption DEF Plain, Replies, Words, BodyOf
<1>2. /\ Words(Plain(b)) \in StatusWords
      /\ Octets(Plain(b)) = <<Words(Plain(b)), CR, LF>> \o <<>>
  BY <1>1, ReplyOctets
<1>3. <<Words(Plain(b)), CR, LF>> \in Seq(Octet)
  BY <1>2 DEF Octet
<1> QED
  BY <1>1, <1>2, <1>3, ConcatEmptySeq

\* What is unread is due, or the start of it and of a last refusal.
LEMMA InPrefix ==
  ASSUME TypeOK, Types, NEW due \in Seq(Octet), In(due)
  PROVE  Bye \in Seq(Octet) /\ due \o Bye \in Seq(Octet) /\ IsPrefix(Unread, due \o Bye)
<1>1. Bye \in Seq(Octet)
  BY PlainReply, ReplyOctets DEF Bye
<1> QED
  BY <1>1, PrefixLonger, ConcatProperties DEF In

LEMMA DropJoined ==
  ASSUME NEW S, NEW s \in Seq(S), NEW t \in Seq(S)
  PROVE  SubSeq(s \o t, Len(s) + 1, Len(s \o t)) = t
<1>1. /\ Len(s) \in Nat /\ Len(t) \in Nat /\ s \o t \in Seq(S) /\ Len(s \o t) = Len(s) + Len(t)
      /\ \A i \in 1..Len(t) : (s \o t)[Len(s) + i] = t[i]
  BY Joined
<1> DEFINE u == SubSeq(s \o t, Len(s) + 1, Len(s \o t))
<1>2. /\ u \in Seq(S) /\ Len(u) = Len(s \o t) - Len(s)
      /\ \A i \in 1..Len(s \o t) - Len(s) : u[i] = (s \o t)[Len(s) + i]
  <2>1. s \o t \in Seq(S) /\ Len(s) \in 0..Len(s \o t)
    BY <1>1
  <2> QED
    BY <2>1, Dropped
<1> HIDE DEF u
<1>3. Len(u) = Len(t) /\ \A i \in 1..Len(u) : u[i] = t[i]
  BY <1>1, <1>2
<1>4. u = t
  BY <1>2, <1>3, SeqEqual
<1> QED
  BY <1>4 DEF u

(***************************************************************************)
(* Reading a line that starts what is due leaves the rest due.             *)
(***************************************************************************)
LEMMA ReadWords ==
  ASSUME TypeOK, Types, NEW words \in StatusWords, NEW more \in Seq(Octet),
         In(<<words, CR, LF>> \o more), GotLine, UNCHANGED <<wire, peer>>
  PROVE  Said = words /\ In(more)' /\ off' \in 0..Len(buf')
<1> DEFINE line == <<words, CR, LF>>
<1>1. line \in Seq(Octet) /\ Len(line) = 3
  BY DEF Octet
<1>2. line \o more \in Seq(Octet)
  BY <1>1, ConcatProperties
<1>3. Bye \in Seq(Octet) /\ IsPrefix(Unread, (line \o more) \o Bye)
  BY <1>2, InPrefix
<1>4. (line \o more) \o Bye = line \o (more \o Bye) /\ more \o Bye \in Seq(Octet)
  <2> HIDE DEF line
  <2>1. (line \o more) \o Bye = line \o (more \o Bye)
    BY <1>1, <1>3, ConcatAssociative
  <2>2. more \o Bye \in Seq(Octet)
    BY <1>3, ConcatProperties
  <2> QED
    BY <2>1, <2>2
<1>5. LineEnd = 3 /\ Said = words /\ 3 \in 0..Len(Rest)
  BY <1>3, <1>4, LineRead DEF GotLine
<1>6. Unread' = SubSeq(Unread, 3 + 1, Len(Unread)) /\ off' \in 0..Len(buf')
  <2>1. buf' = buf /\ off' = off + 3 /\ wire' = wire
    BY <1>5 DEF GotLine
  <2> QED
    BY <1>5, <2>1, ReadOn
<1>7. CASE peer = "open"
  <2>1. Unread = line \o more
    BY <1>7 DEF In
  <2>2. SubSeq(line \o more, 3 + 1, Len(line \o more)) = more
    <3> HIDE DEF line
    <3> QED
      BY <1>1, DropJoined
  <2>3. Unread' = more
    BY <1>6, <2>1, <2>2
  <2> QED
    BY <1>5, <1>6, <1>7, <2>3 DEF In
<1>8. CASE peer # "open"
  <2> DEFINE whole == line \o (more \o Bye)
  <2>1. whole \in Seq(Octet) /\ Unread \in Seq(Octet) /\ IsPrefix(Unread, whole)
    <3> HIDE DEF line
    <3> QED
      BY <1>1, <1>3, <1>4, UnreadTypes, ConcatProperties
  <2>2. 3 \in 0..Len(Unread)
    BY <1>5, UnreadTypes
  <2>3. IsPrefix(SubSeq(Unread, 3 + 1, Len(Unread)), SubSeq(whole, 3 + 1, Len(whole)))
    <3> HIDE DEF whole
    <3> QED
      BY <2>1, <2>2, PrefixDropped
  <2>4. SubSeq(whole, 3 + 1, Len(whole)) = more \o Bye
    <3> HIDE DEF line
    <3> QED
      BY <1>1, <1>4, DropJoined
  <2>5. IsPrefix(Unread', more \o Bye)
    BY <1>6, <2>3, <2>4, Zenon
  <2>6. Bye' = Bye
    BY DEF Bye
  <2> QED
    BY <1>5, <1>6, <1>8, <2>5, <2>6 DEF In
<1> QED
  BY <1>7, <1>8

\* Where nothing is due, no line is read but a last refusal.
LEMMA ReadNothing ==
  ASSUME TypeOK, Types, In(<<>>), GotLine
  PROVE  Said = NoStatus
<1>1. Words(Plain(FALSE)) \in StatusWords /\ Bye = <<Words(Plain(FALSE)), CR, LF>>
      /\ Bye \in Seq(Octet)
  BY PlainReply, ReplyOctets DEF Bye
<1>2. <<>> \in Seq(Octet) /\ <<>> \o Bye = Bye /\ Bye \o <<>> = Bye
  BY <1>1, ConcatEmptySeq, EmptySeq
<1>3. IsPrefix(Unread, <<Words(Plain(FALSE)), CR, LF>> \o <<>>)
  BY <1>1, <1>2, InPrefix
<1> QED
  BY <1>1, <1>2, <1>3, LineRead DEF GotLine, NoStatus

\* A line ends with the first LF.
LEMMA LineEnds ==
  ASSUME TypeOK, Types, HasLine
  PROVE  /\ LineEnd \in 1..Len(Rest) /\ Rest[LineEnd] = LF
         /\ LF \notin ToSet(SubSeq(Rest, 1, LineEnd - 1))
<1>1. Rest \in Seq(Octet) /\ Len(Rest) \in Nat
  BY UnreadTypes
<1> DEFINE ends == {k \in 1..Len(Rest) : Rest[k] = LF}
<1>2. ends # {}
  BY <1>1 DEF HasLine, ToSet
<1>3. PICK k \in ends : \A j \in ends : k <= j
  <2>1. ends \in SUBSET Nat
    OBVIOUS
  <2> HIDE DEF ends
  <2> QED
    BY <1>2, <2>1, Least
<1>4. k \in 1..Len(Rest) /\ Rest[k] = LF
  OBVIOUS
<1>5. LF \notin ToSet(SubSeq(Rest, 1, k - 1))
  <2> DEFINE t == SubSeq(Rest, 1, k - 1)
  <2>1. k - 1 \in 0..Len(Rest)
    BY <1>1, <1>4
  <2>2. t \in Seq(Octet) /\ Len(t) = k - 1 /\ \A i \in 1..k - 1 : t[i] = Rest[i]
    BY <1>1, <2>1, First
  <2>3. ASSUME NEW i \in 1..k - 1 PROVE Rest[i] # LF
    BY <1>1, <1>3, <1>4, <2>3
  <2> HIDE DEF t
  <2>4. \A i \in DOMAIN t : t[i] # LF
    BY <2>2, <2>3
  <2> QED
    BY <2>4 DEF ToSet, t
<1> QED
  BY <1>4, <1>5 DEF LineEnd

\* What another service says is no line of the protocol.
LEMMA ReadGarbage ==
  ASSUME TypeOK, Types, NEW due \in {[j \in 1..LineMax + 2 |-> Data], <<Data, LF>>},
         In(due), GotLine
  PROVE  FALSE
<1>1. /\ due \in Seq(Octet) /\ Len(due) > 1 /\ due[1] = Data
      /\ \A j \in 1..Len(due) : due[j] # CR
      /\ \A j \in 1..Len(due) : due[j] = LF => j = 2
      /\ (\E j \in 1..Len(due) : due[j] = LF) \/ Len(due) = LineMax + 2
  <2>1. CASE due = <<Data, LF>>
    BY <2>1, KatareAssumption DEF Octet
  <2>2. CASE due = [j \in 1..LineMax + 2 |-> Data]
    <3>1. LineMax + 2 \in Nat /\ LineMax + 2 > 1
      BY KatareAssumption
    <3>2. due \in Seq(Octet) /\ Len(due) = LineMax + 2 /\ \A j \in 1..LineMax + 2 : due[j] = Data
      BY <2>2, <3>1 DEF Octet
    <3> QED
      BY <3>1, <3>2, KatareAssumption
  <2> QED
    BY <2>1, <2>2
<1>2. /\ IsPrefix(Unread, due \o Bye) /\ due \o Bye \in Seq(Octet)
      /\ \A i \in 1..Len(due) : (due \o Bye)[i] = due[i]
  BY <1>1, InPrefix, Joined
<1>3. /\ Rest \in Seq(Octet) /\ Len(Rest) \in Nat
      /\ \A i \in 1..Len(Rest) : i <= Len(due) => Rest[i] = due[i]
  <2>1. /\ Rest \in Seq(Octet) /\ Unread \in Seq(Octet) /\ Len(Rest) \in Nat /\ Len(wire) \in Nat
        /\ Len(Unread) = Len(Rest) + Len(wire)
        /\ \A i \in 1..Len(Rest) : Unread[i] = Rest[i]
    BY UnreadTypes
  <2>2. \A i \in 1..Len(Unread) : Unread[i] = (due \o Bye)[i]
    <3>1. Unread \in Seq(Octet) /\ due \o Bye \in Seq(Octet) /\ IsPrefix(Unread, due \o Bye)
      BY <1>2, <2>1
    <3> DEFINE whole == due \o Bye
    <3>2. whole \in Seq(Octet) /\ IsPrefix(Unread, whole)
      BY <3>1
    <3> HIDE DEF whole
    <3>3. \A i \in 1..Len(Unread) : Unread[i] = whole[i]
      BY <3>1, <3>2, PrefixElements
    <3> QED
      BY <3>3 DEF whole
  <2>3. ASSUME NEW i \in 1..Len(Rest), i <= Len(due) PROVE Rest[i] = due[i]
    <3>1. i \in 1..Len(Unread) /\ i \in 1..Len(due)
      BY <2>1, <2>3, <1>1, LenProperties
    <3> QED
      BY <1>2, <2>1, <2>2, <3>1
  <2> QED
    BY <2>1, <2>3
<1>4. /\ LineEnd \in 1..Len(Rest) /\ LF \notin ToSet(SubSeq(Rest, 1, LineEnd - 1))
      /\ Rest[LineEnd - 1] = CR /\ LineEnd - 1 \in 1..LineMax
  BY LineEnds, KatareAssumption DEF GotLine, GoodLine
<1>5. LineEnd - 1 > Len(due)
  <2>1. ASSUME LineEnd - 1 <= Len(due) PROVE FALSE
    <3>1. LineEnd - 1 \in 1..Len(Rest) /\ LineEnd - 1 \in 1..Len(due)
      BY <1>1, <1>3, <1>4, <2>1, LenProperties
    <3> QED
      BY <1>1, <1>3, <1>4, <2>1, <3>1
  <2> QED
    BY <1>1, <1>4, <2>1, LenProperties
<1>6. 2 \in 1..Len(due) /\ due[2] = LF
  BY <1>1, <1>4, <1>5, LenProperties, KatareAssumption
<1>7. Rest[2] = LF /\ 2 \in 1..LineEnd - 1
  BY <1>3, <1>4, <1>5, <1>6
<1> DEFINE t == SubSeq(Rest, 1, LineEnd - 1)
<1>8. LineEnd - 1 \in 0..Len(Rest)
  BY <1>4
<1>9. t \in Seq(Octet) /\ Len(t) = LineEnd - 1 /\ \A i \in 1..LineEnd - 1 : t[i] = Rest[i]
  BY <1>3, <1>8, First
<1> HIDE DEF t
<1>10. 2 \in DOMAIN t /\ t[2] = LF
  BY <1>7, <1>9
<1> QED
  BY <1>4, <1>10 DEF ToSet, t

(***************************************************************************)
(* What each line the client acts upon can have been.                      *)
(***************************************************************************)
LEMMA GreetingLine ==
  ASSUME TypeOK, Types, Stream, ReadGreeting, Said.si
  PROVE  srv = "hello" /\ In(<<>>)' /\ off' \in 0..Len(buf')
<1>1. GotLine /\ UNCHANGED <<wire, peer>> /\ pc = "greeting"
  BY DEF ReadGreeting
<1>2. PICK due \in Due : In(due)
  BY <1>1 DEF Stream, Final
<1>3. ASSUME due = <<>> PROVE FALSE
  <2>1. Said = NoStatus
    BY <1>1, <1>2, <1>3, ReadNothing
  <2> QED
    BY <2>1, PlainReply DEF NoStatus
<1>4. srv = "hello" /\ due \in Greetings
  BY <1>1, <1>2, <1>3 DEF Due
<1>5. CASE due = Octets(Plain(TRUE))
  <2> DEFINE words == Words(Plain(TRUE))
  <2>1. words \in StatusWords /\ due = <<words, CR, LF>> /\ due \in Seq(Octet)
    BY <1>5, PlainReply, ReplyOctets
  <2>2. due = <<words, CR, LF>> \o <<>> /\ <<>> \in Seq(Octet)
    BY <2>1, ConcatEmptySeq, EmptySeq
  <2> HIDE DEF words
  <2> QED
    BY <1>1, <1>2, <1>4, <2>1, <2>2, ReadWords
<1>6. CASE due \in {[j \in 1..LineMax + 2 |-> Data], <<Data, LF>>}
  BY <1>1, <1>2, <1>6, ReadGarbage
<1> QED
  BY <1>4, <1>5, <1>6 DEF Greetings

LEMMA WordsWith ==
  ASSUME NEW words \in StatusWords, NEW b \in BOOLEAN, NEW m \in Nat
  PROVE  [words EXCEPT !.kyx = b, !.n = m] \in StatusWords
BY DEF StatusWords

LEMMA CapsLineRead ==
  ASSUME TypeOK, Types, Stream, ReadCaps, Said.si
  PROVE  /\ srv = "ready" /\ In(<<>>)' /\ off' \in 0..Len(buf')
         /\ Said \in StatusWords
<1>1. GotLine /\ UNCHANGED <<wire, peer>> /\ pc = "caps"
  BY DEF ReadCaps
<1>2. PICK due \in Due : In(due)
  BY <1>1 DEF Stream, Final
<1>3. ASSUME due = <<>> PROVE FALSE
  <2>1. Said = NoStatus
    BY <1>1, <1>2, <1>3, ReadNothing
  <2> QED
    BY <2>1, PlainReply DEF NoStatus
<1>4. srv = "ready" /\ \E c \in Caps : due = CapsLine(c)
  BY <1>1, <1>2, <1>3 DEF Due
<1>5. PICK c \in Caps : due = CapsLine(c)
  BY <1>4
<1> DEFINE words == [Words(Plain(TRUE)) EXCEPT !.kyx = (c > 0), !.n = c]
<1>6. words \in StatusWords
  <2>1. Words(Plain(TRUE)) \in StatusWords /\ c \in Nat
    BY PlainReply, KatareAssumption
  <2>2. (c > 0) \in BOOLEAN
    OBVIOUS
  <2> QED
    BY <2>1, <2>2, WordsWith
<1>7. due = <<words, CR, LF>> /\ <<words, CR, LF>> \in Seq(Octet)
  BY <1>5, <1>6 DEF CapsLine, Octet
<1>8. due = <<words, CR, LF>> \o <<>> /\ <<>> \in Seq(Octet)
  <2> HIDE DEF words
  <2> QED
    BY <1>7, ConcatEmptySeq, EmptySeq
<1> HIDE DEF words
<1> QED
  BY <1>1, <1>2, <1>4, <1>6, <1>8, ReadWords

LEMMA ReplyType ==
  ASSUME Types, Pending
  PROVE  Reply \in Replies
<1>1. sent \in Seq(Replies) /\ taken \in Seq(Replies) /\ Len(sent) = Len(taken) + 1
  BY DEF Types, Pending
<1>2. Len(sent) \in 1..Len(sent)
  BY <1>1, LenProperties
<1> QED
  BY <1>1, <1>2, ElementOfSeq DEF Reply

LEMMA StatusLine ==
  ASSUME TypeOK, Types, Counts, Stream, ReadStatus, Said # NoStatus
  PROVE  \E r \in Replies : /\ Pending /\ Reply = r /\ Said = Words(r)
                            /\ In(BodyOf(r))' /\ off' \in 0..Len(buf')
<1>1. GotLine /\ UNCHANGED <<wire, peer>> /\ pc = "status"
  BY DEF ReadStatus
<1>2. PICK due \in Due : In(due)
  BY <1>1 DEF Stream, Final
<1>3. due # <<>>
  BY <1>1, <1>2, ReadNothing
<1>4. Pending /\ due = Octets(Reply)
  BY <1>1, <1>2, <1>3 DEF Due
<1>5. Reply \in Replies
  BY <1>4, ReplyType
<1>6. PICK r \in Replies : r = Reply
  BY <1>5
<1>7. /\ Words(r) \in StatusWords /\ BodyOf(r) \in Seq(Octet)
      /\ due = <<Words(r), CR, LF>> \o BodyOf(r)
  BY <1>4, <1>6, ReplyOctets
<1>8. Said = Words(r) /\ In(BodyOf(r))' /\ off' \in 0..Len(buf')
  BY <1>1, <1>2, <1>7, ReadWords
<1> QED
  BY <1>4, <1>6, <1>8

-----------------------------------------------------------------------------
(* What becomes of the stream *)

LEMMA PrefixJoined ==
  ASSUME NEW S, NEW s \in Seq(S), NEW t \in Seq(S), NEW u \in Seq(S), IsPrefix(t, u)
  PROVE  IsPrefix(s \o t, s \o u)
<1>1. /\ Len(s) \in Nat /\ Len(t) \in Nat /\ s \o t \in Seq(S) /\ Len(s \o t) = Len(s) + Len(t)
      /\ \A i \in 1..Len(s) : (s \o t)[i] = s[i]
      /\ \A i \in 1..Len(t) : (s \o t)[Len(s) + i] = t[i]
  BY Joined
<1>2. /\ Len(u) \in Nat /\ s \o u \in Seq(S) /\ Len(s \o u) = Len(s) + Len(u)
      /\ \A i \in 1..Len(s) : (s \o u)[i] = s[i]
      /\ \A i \in 1..Len(u) : (s \o u)[Len(s) + i] = u[i]
  BY Joined
<1>3. Len(t) <= Len(u) /\ \A i \in 1..Len(t) : t[i] = u[i]
  BY PrefixElements
<1> DEFINE a == s \o t
           b == s \o u
<1>4. a \in Seq(S) /\ b \in Seq(S) /\ Len(a) <= Len(b)
  BY <1>1, <1>2, <1>3
<1>5. ASSUME NEW i \in 1..Len(a) PROVE a[i] = b[i]
  <2>1. CASE i <= Len(s)
    <3>1. i \in 1..Len(s)
      BY <1>5, <2>1
    <3> QED
      BY <1>1, <1>2, <3>1
  <2>2. CASE i > Len(s)
    <3> DEFINE j == i - Len(s)
    <3>1. j \in 1..Len(t) /\ j \in 1..Len(u) /\ i = Len(s) + j
      BY <1>1, <1>2, <1>3, <1>5, <2>2
    <3> HIDE DEF j
    <3> QED
      BY <1>1, <1>2, <1>3, <3>1
  <2>3. i <= Len(s) \/ i > Len(s)
    BY <1>1, <1>5
  <2> QED
    BY <2>1, <2>2, <2>3, Zenon
<1> HIDE DEF a, b
<1>6. IsPrefix(a, b)
  BY <1>4, <1>5, PrefixElements
<1> QED
  BY <1>6 DEF a, b

\* What the registry says comes after all that is unread.
LEMMA SayJoins ==
  ASSUME TypeOK, Types, NEW xs \in Seq(Octet), Say(xs), UNCHANGED <<buf, off>>
  PROVE  wire' \in Seq(Octet) /\ Unread' = Unread \o xs
<1>1. Rest \in Seq(Octet) /\ wire \in Seq(Octet)
  BY UnreadTypes DEF Types
<1>2. Rest' = Rest /\ wire' = wire \o xs
  BY DEF Rest, Say
<1>3. (Rest \o wire) \o xs = Rest \o (wire \o xs) /\ wire \o xs \in Seq(Octet)
  BY <1>1, ConcatAssociative, ConcatProperties
<1> QED
  BY <1>2, <1>3 DEF Unread

\* Cutting the stream short leaves the start of what was due.
LEMMA CutShort ==
  ASSUME TypeOK, Types, UNCHANGED <<buf, off>>, wire' \in Seq(Octet), IsPrefix(wire', wire)
  PROVE  IsPrefix(Unread', Unread) /\ Unread' \in Seq(Octet)
<1>1. Rest \in Seq(Octet) /\ wire \in Seq(Octet)
  BY UnreadTypes DEF Types
<1>2. Unread' = Rest \o wire'
  BY DEF Unread, Rest
<1> QED
  BY <1>1, <1>2, PrefixJoined, ConcatProperties DEF Unread

LEMMA NothingPrefix ==
  ASSUME NEW S, NEW s \in Seq(S)
  PROVE  IsPrefix(<<>>, s) /\ IsPrefix(s, s)
<1>1. <<>> \in Seq(S) /\ <<>> \o s = s /\ s \o <<>> = s
  BY EmptySeq, ConcatEmptySeq
<1> QED
  BY <1>1, PrefixLonger

\* Writing changes nothing of what is due.
LEMMA PutKeeps ==
  ASSUME TypeOK, Types, NEW xs \in Seq(Verbs \cup {"hello", "octet"}), Put(xs),
         UNCHANGED <<buf, off>>
  PROVE  /\ wire' \in Seq(Octet) /\ up' \in Seq(Verbs \cup {"hello", "octet"})
         /\ Len(up') <= SockMax /\ peer' \in {"open", "closed", "reset"}
         /\ peer' = "open" <=> peer = "open"
         /\ peer = "open" => up' = up \o xs
         /\ peer # "open" => up' = up
         /\ \A due \in Seq(Octet) : In(due) => In(due)'
<1>1. wire \in Seq(Octet) /\ up \in Seq(Verbs \cup {"hello", "octet"}) /\ Len(up) <= SockMax
  BY DEF Types, TypeOK
<1>2. CASE peer = "open" /\ Len(up) + Len(xs) <= SockMax /\ up' = up \o xs /\ UNCHANGED <<wire, peer>>
  <2>1. up \o xs \in Seq(Verbs \cup {"hello", "octet"}) /\ Len(up \o xs) = Len(up) + Len(xs)
    BY <1>1, ConcatProperties
  <2>2. Unread' = Unread /\ wire' = wire
    BY <1>2 DEF Unread, Rest
  <2> QED
    BY <1>1, <1>2, <2>1, <2>2 DEF In
<1>3. CASE peer = "closed" /\ peer' = "reset" /\ wire' \in {wire, <<>>} /\ UNCHANGED up
  <2>1. wire' \in Seq(Octet) /\ IsPrefix(wire', wire)
    BY <1>1, <1>3, NothingPrefix, EmptySeq
  <2>2. IsPrefix(Unread', Unread) /\ Unread' \in Seq(Octet) /\ Unread \in Seq(Octet)
    BY <2>1, CutShort, UnreadTypes
  <2>3. ASSUME NEW due \in Seq(Octet), In(due) PROVE In(due)'
    <3>1. IsPrefix(Unread, due \o Bye) /\ due \o Bye \in Seq(Octet)
      BY <2>3, InPrefix
    <3>2. IsPrefix(Unread', due \o Bye) /\ Bye' = Bye
      BY <2>2, <3>1, PrefixTransitive DEF Bye
    <3> QED
      BY <1>3, <3>2 DEF In
  <2> QED
    BY <1>1, <1>3, <2>1, <2>3
<1> QED
  BY <1>2, <1>3 DEF Put

\* The registry or the network ends the stream.
LEMMA LeavesKeeps ==
  ASSUME TypeOK, Types, Leaves
  PROVE  wire' \in Seq(Octet) /\ \A due \in Seq(Octet) : In(due) => In(due)'
<1>1. wire \in Seq(Octet) /\ Unread \in Seq(Octet) /\ peer = "open" /\ peer' # "open"
      /\ UNCHANGED <<buf, off>>
  BY UnreadTypes DEF Types, Leaves, memory
<1>2. Bye \in Seq(Octet) /\ Bye' = Bye
  BY PlainReply, ReplyOctets DEF Bye
<1>3. CASE wire' = wire \o Bye
  <2>1. wire' \in Seq(Octet) /\ Unread' = Unread \o Bye
    BY <1>1, <1>2, <1>3, SayJoins DEF Say
  <2>2. ASSUME NEW due \in Seq(Octet), In(due) PROVE In(due)'
    <3>1. Unread' = due \o Bye /\ due \o Bye \in Seq(Octet)
      BY <1>1, <1>2, <2>1, <2>2, ConcatProperties DEF In
    <3> QED
      BY <1>1, <1>2, <3>1, NothingPrefix DEF In
  <2> QED
    BY <2>1, <2>2
<1>4. ASSUME wire' \in Seq(Octet), IsPrefix(wire', wire)
      PROVE  \A due \in Seq(Octet) : In(due) => In(due)'
  <2>1. IsPrefix(Unread', Unread) /\ Unread' \in Seq(Octet)
    BY <1>1, <1>4, CutShort
  <2>2. ASSUME NEW due \in Seq(Octet), In(due) PROVE In(due)'
    <3>1. IsPrefix(Unread, due \o Bye) /\ due \o Bye \in Seq(Octet)
      BY <2>2, InPrefix
    <3>2. IsPrefix(Unread', due \o Bye)
      BY <1>1, <2>1, <3>1, PrefixTransitive
    <3> QED
      BY <1>1, <1>2, <3>2 DEF In
  <2> QED
    BY <2>2
<1>5. CASE wire' \in {wire, <<>>}
  <2>1. wire' \in Seq(Octet) /\ IsPrefix(wire', wire)
    BY <1>1, <1>5, NothingPrefix, EmptySeq
  <2> QED
    BY <1>4, <2>1
<1>6. CASE wire # <<>> /\ wire' = SubSeq(wire, 1, Len(wire) - 1)
  <2>1. Len(wire) - 1 \in 0..Len(wire)
    BY <1>1, <1>6, EmptySeq
  <2>2. /\ wire' \in Seq(Octet) /\ Len(wire') = Len(wire) - 1
        /\ \A i \in 1..Len(wire) - 1 : wire'[i] = wire[i]
    BY <1>1, <1>6, <2>1, First
  <2>3. IsPrefix(wire', wire)
    <3>1. Len(wire') <= Len(wire) /\ \A i \in 1..Len(wire') : wire'[i] = wire[i]
      BY <2>1, <2>2
    <3> QED
      BY <1>1, <2>2, <3>1, PrefixElements
  <2> QED
    BY <1>4, <2>2, <2>3
<1> QED
  BY <1>3, <1>5, <1>6 DEF Leaves, Bye

(***************************************************************************)
(* What is said is octets.                                                 *)
(***************************************************************************)
LEMMA GreetingOctets ==
  ASSUME NEW xs \in Greetings
  PROVE  xs \in Seq(Octet)
<1>1. Octets(Plain(TRUE)) \in Seq(Octet)
  BY PlainReply, ReplyOctets
<1>2. [j \in 1..LineMax + 2 |-> Data] \in Seq(Octet) /\ <<Data, LF>> \in Seq(Octet)
  BY KatareAssumption DEF Octet
<1> QED
  BY <1>1, <1>2 DEF Greetings

LEMMA CapsOctets ==
  ASSUME NEW c \in Caps
  PROVE  CapsLine(c) \in Seq(Octet)
<1>1. [Words(Plain(TRUE)) EXCEPT !.kyx = (c > 0), !.n = c] \in StatusWords
  <2>1. Words(Plain(TRUE)) \in StatusWords /\ c \in Nat
    BY PlainReply, KatareAssumption
  <2>2. (c > 0) \in BOOLEAN
    OBVIOUS
  <2> QED
    BY <2>1, <2>2, WordsWith
<1> QED
  BY <1>1 DEF CapsLine, Octet

LEMMA AnswerTypes ==
  ASSUME TypeOK, Types, NEW v, NEW r \in Replies, Answers(v, r), UNCHANGED <<buf, off>>
  PROVE  /\ wire' \in Seq(Octet) /\ sent' \in Seq(Replies)
         /\ trouble' \in BOOLEAN /\ misled' \in BOOLEAN
<1>1. wire' \in Seq(Octet)
  BY ReplyOctets, SayJoins DEF Answers
<1>2. sent' \in Seq(Replies)
  BY Pushed DEF Answers, Types
<1>3. trouble' \in BOOLEAN
  BY Zenon DEF Answers, Types
<1>4. misled' \in BOOLEAN
  BY Zenon DEF Answers, Types, LeavesBody
<1> QED
  BY <1>1, <1>2, <1>3, <1>4

LEMMA DueOctets ==
  ASSUME TypeOK, Types, Counts, BodySoFar, NEW due \in Due
  PROVE  due \in Seq(Octet)
<1>1. due \in Greetings => due \in Seq(Octet)
  BY GreetingOctets
<1>2. \A c \in Caps : CapsLine(c) \in Seq(Octet)
  BY CapsOctets
<1>3. Pending => Octets(Reply) \in Seq(Octet)
  BY ReplyType, ReplyOctets
<1>4. pc = "body" => SubSeq(Reply.body, Len(out) + 1, Len(Reply.body)) \in Seq(Octet)
  <2> SUFFICES ASSUME pc = "body"
               PROVE  SubSeq(Reply.body, Len(out) + 1, Len(Reply.body)) \in Seq(Octet)
    OBVIOUS
  <2>1. Reply \in Replies /\ Reply.body # None
    BY ReplyType DEF Counts, BodySoFar
  <2>2. Reply.body \in Seq(Octet)
    BY <2>1, ReplyOctets DEF BodyOf
  <2>3. Len(out) \in 0..Len(Reply.body)
    BY <2>2, LenProperties DEF BodySoFar, Types
  <2> QED
    BY <2>2, <2>3, Dropped
<1> QED
  BY <1>1, <1>2, <1>3, <1>4, EmptySeq DEF Due

-----------------------------------------------------------------------------
(* Steps of the stream *)

LEMMA SameStream ==
  ASSUME UNCHANGED <<buf, off, wire, peer>>
  PROVE  \A due : In(due) => In(due)'
BY DEF In, Unread, Rest, Bye

\* What is said where nothing is due becomes due.
LEMMA NowDue ==
  ASSUME TypeOK, Types, NEW xs \in Seq(Octet), In(<<>>), peer = "open", Say(xs),
         UNCHANGED <<buf, off, peer>>
  PROVE  In(xs)' /\ wire' \in Seq(Octet)
<1>1. Unread = <<>> /\ Unread' = Unread \o xs /\ wire' \in Seq(Octet)
  BY SayJoins DEF In
<1>2. <<>> \o xs = xs
  BY ConcatEmptySeq
<1> QED
  BY <1>1, <1>2 DEF In

\* Dropping from two sequences one after the other no more than the first has.
LEMMA DropFirst ==
  ASSUME NEW S, NEW s \in Seq(S), NEW t \in Seq(S), NEW k \in 0..Len(s)
  PROVE  SubSeq(s \o t, k + 1, Len(s \o t)) = SubSeq(s, k + 1, Len(s)) \o t
<1> DEFINE a == SubSeq(s, 1, k)
           b == SubSeq(s, k + 1, Len(s))
<1>1. a \in Seq(S) /\ Len(a) = k
  BY First
<1>2. b \in Seq(S)
  BY Dropped
<1>3. a \o b = s
  <2>1. Len(s) \in k..Len(s) /\ 1 \in 1..Len(s) + 1 /\ k \in 1 - 1..Len(s)
    BY LenProperties
  <2>2. a \o b = SubSeq(s, 1, Len(s))
    BY <2>1, ConcatAdjacentSubSeq
  <2> QED
    BY <2>2, SubSeqFull
<1> HIDE DEF a, b
<1>4. s \o t = a \o (b \o t) /\ b \o t \in Seq(S)
  <2>1. a \in Seq(S) /\ b \in Seq(S)
    BY <1>1, <1>2
  <2>2. (a \o b) \o t = a \o (b \o t) /\ b \o t \in Seq(S)
    BY <2>1, ConcatAssociative, ConcatProperties
  <2> QED
    BY <1>3, <2>2
<1>5. SubSeq(a \o (b \o t), Len(a) + 1, Len(a \o (b \o t))) = b \o t
  BY <1>1, <1>4, DropJoined
<1> QED
  BY <1>1, <1>4, <1>5 DEF b

\* Dropping twice.
LEMMA DropTwice ==
  ASSUME NEW S, NEW s \in Seq(S), NEW j \in 0..Len(s), NEW k \in 0..Len(s) - j
  PROVE  LET t == SubSeq(s, j + 1, Len(s))
         IN  SubSeq(t, k + 1, Len(t)) = SubSeq(s, j + k + 1, Len(s))
<1> DEFINE t == SubSeq(s, j + 1, Len(s))
           u == SubSeq(t, k + 1, Len(t))
           v == SubSeq(s, j + k + 1, Len(s))
<1>0. Len(s) \in Nat
  BY LenProperties
<1>1. t \in Seq(S) /\ Len(t) = Len(s) - j /\ \A i \in 1..Len(s) - j : t[i] = s[j + i]
  BY Dropped
<1>2. u \in Seq(S) /\ Len(u) = Len(t) - k /\ \A i \in 1..Len(t) - k : u[i] = t[k + i]
  <2>1. t \in Seq(S) /\ k \in 0..Len(t)
    BY <1>1
  <2> HIDE DEF t
  <2> QED
    BY <2>1, Dropped
<1>3. v \in Seq(S) /\ Len(v) = Len(s) - (j + k) /\ \A i \in 1..Len(s) - (j + k) : v[i] = s[j + k + i]
  <2>1. j + k \in 0..Len(s)
    BY <1>0
  <2> QED
    BY <2>1, Dropped
<1> HIDE DEF t, u, v
<1>4. Len(u) = Len(v)
  BY <1>0, <1>1, <1>2, <1>3
<1>5. ASSUME NEW i \in 1..Len(u) PROVE u[i] = v[i]
  <2>1. u[i] = t[k + i]
    BY <1>2
  <2>2. t[k + i] = s[j + (k + i)]
    BY <1>0, <1>1, <1>2
  <2>3. v[i] = s[j + k + i]
    BY <1>3, <1>4
  <2>4. j + k + i = j + (k + i)
    BY <1>0, <1>2
  <2> QED
    BY <2>1, <2>2, <2>3, <2>4
<1>6. u = v
  BY <1>2, <1>3, <1>4, <1>5, SeqEqual
<1> QED
  BY <1>6 DEF t, u, v

\* What is in the buffer is the start of what is due.
LEMMA RestDue ==
  ASSUME TypeOK, Types, NEW due \in Seq(Octet), In(due)
  PROVE  \A i \in 1..Len(Rest) : i <= Len(due) => Rest[i] = due[i]
<1>1. /\ IsPrefix(Unread, due \o Bye) /\ Bye \in Seq(Octet) /\ due \o Bye \in Seq(Octet)
  BY InPrefix
<1>2. /\ Rest \in Seq(Octet) /\ Unread \in Seq(Octet) /\ Len(Rest) \in Nat /\ Len(wire) \in Nat
      /\ Len(Unread) = Len(Rest) + Len(wire)
      /\ \A i \in 1..Len(Rest) : Unread[i] = Rest[i]
  BY UnreadTypes
<1> DEFINE whole == due \o Bye
<1>3. whole \in Seq(Octet) /\ IsPrefix(Unread, whole)
  BY <1>1
<1>4. \A i \in 1..Len(due) : whole[i] = due[i]
  BY <1>1, Joined
<1> HIDE DEF whole
<1>5. \A i \in 1..Len(Unread) : Unread[i] = whole[i]
  BY <1>2, <1>3, PrefixElements
<1>6. SUFFICES ASSUME NEW i \in 1..Len(Rest), i <= Len(due) PROVE Rest[i] = due[i]
  OBVIOUS
<1>7. i \in 1..Len(Unread) /\ i \in 1..Len(due)
  BY <1>2, <1>6, LenProperties
<1> QED
  BY <1>2, <1>4, <1>5, <1>7

\* Consuming some of what is due leaves the rest due.
LEMMA Consume ==
  ASSUME TypeOK, Types, NEW due \in Seq(Octet), In(due), NEW k \in 0..Len(Rest), k <= Len(due),
         buf' = buf, off' = off + k, UNCHANGED <<wire, peer>>
  PROVE  In(SubSeq(due, k + 1, Len(due)))'
<1>1. Unread' = SubSeq(Unread, k + 1, Len(Unread)) /\ Bye' = Bye
  BY ReadOn DEF Bye
<1>2. CASE peer = "open"
  BY <1>1, <1>2 DEF In
<1>3. CASE peer # "open"
  <2>1. Bye \in Seq(Octet) /\ due \o Bye \in Seq(Octet) /\ IsPrefix(Unread, due \o Bye)
    BY InPrefix
  <2>2. Unread \in Seq(Octet) /\ k \in 0..Len(Unread) /\ k \in 0..Len(due)
    BY UnreadTypes, LenProperties
  <2> DEFINE whole == due \o Bye
  <2>3. whole \in Seq(Octet) /\ IsPrefix(Unread, whole)
    BY <2>1
  <2>4. SubSeq(whole, k + 1, Len(whole)) = SubSeq(due, k + 1, Len(due)) \o Bye
    BY <2>1, <2>2, DropFirst
  <2> HIDE DEF whole
  <2>5. IsPrefix(SubSeq(Unread, k + 1, Len(Unread)), SubSeq(whole, k + 1, Len(whole)))
    BY <2>2, <2>3, PrefixDropped
  <2>6. IsPrefix(Unread', SubSeq(due, k + 1, Len(due)) \o Bye)
    BY <1>1, <2>4, <2>5, Zenon
  <2> QED
    BY <1>1, <1>3, <2>6 DEF In
<1> QED
  BY <1>2, <1>3

-----------------------------------------------------------------------------
(* What the steps of the client do *)

LEMMA VerbType ==
  ASSUME Types, todo # <<>>
  PROVE  Verb \in Verbs /\ Verb = todo[1] /\ <<Verb>> \in Seq(Verbs \cup {"hello", "octet"})
<1>1. todo \in Seq(Verbs)
  BY DEF Types
<1>2. Verb \in Verbs /\ Verb = todo[1]
  BY <1>1, Popped DEF Verb
<1> QED
  BY <1>2

LEMMA Heard ==
  ASSUME TypeOK, Types, up # <<>>, up' = Tail(up)
  PROVE  up' \in Seq(Verbs \cup {"hello", "octet"}) /\ Len(up') = Len(up) - 1 /\ Len(up') <= SockMax
<1>1. up \in Seq(Verbs \cup {"hello", "octet"}) /\ Len(up) <= SockMax
  BY DEF Types, TypeOK
<1>2. /\ up' \in Seq(Verbs \cup {"hello", "octet"}) /\ Len(up') = Len(up) - 1
      /\ Len(up) \in Nat
  BY <1>1, Popped
<1> QED
  BY <1>1, <1>2, KatareAssumption

\* The reply acted upon is a reply, and what is left to do are verbs.
LEMMA ActedTypes ==
  ASSUME Types, todo # <<>>, NEW r \in Replies, taken' = Append(taken, r), todo' = Tail(todo)
  PROVE  /\ todo' \in Seq(Verbs) /\ taken' \in Seq(Replies)
         /\ Len(todo') = Len(todo) - 1 /\ \A i \in 1..Len(todo) - 1 : todo'[i] = todo[i + 1]
         /\ Len(taken') = Len(taken) + 1 /\ ToSet(taken') = ToSet(taken) \cup {r}
         /\ taken'[Len(taken) + 1] = r /\ \A i \in 1..Len(taken) : taken'[i] = taken[i]
         /\ Len(todo) \in Nat /\ Len(todo) > 0 /\ Len(taken) \in Nat
<1>1. todo \in Seq(Verbs) /\ taken \in Seq(Replies)
  BY DEF Types
<1>2. /\ todo' \in Seq(Verbs)
      /\ Len(todo') = Len(todo) - 1 /\ \A i \in 1..Len(todo) - 1 : todo'[i] = todo[i + 1]
      /\ Len(todo) \in Nat /\ Len(todo) > 0
  BY <1>1, Popped
<1>3. /\ taken' \in Seq(Replies)
      /\ Len(taken') = Len(taken) + 1 /\ ToSet(taken') = ToSet(taken) \cup {r}
      /\ taken'[Len(taken) + 1] = r /\ \A i \in 1..Len(taken) : taken'[i] = taken[i]
      /\ Len(taken) \in Nat
  BY <1>1, Pushed
<1> QED
  BY <1>2, <1>3

\* A line ends in the buffer, and starts with words or with none.
LEMMA LineGot ==
  ASSUME TypeOK, Types, GotLine
  PROVE  /\ Said \in StatusWords /\ off' \in 0..Len(buf') /\ Len(buf') <= BufMax
         /\ buf' \in Seq(Octet)
<1>1. buf \in Seq(Octet) /\ off \in 0..Len(buf) /\ Len(buf) <= BufMax /\ Len(buf) \in Nat
  BY LenProperties DEF Types, TypeOK
<1>2. Rest \in Seq(Octet) /\ Len(Rest) = Len(buf) - off
  BY UnreadTypes
<1>3. LineEnd \in 1..Len(Rest) /\ LineEnd > 1 /\ buf' = buf /\ off' = off + LineEnd
  BY LineEnds DEF GotLine, GoodLine
<1>4. Said \in StatusWords
  <2>1. NoStatus \in StatusWords
    BY PlainReply DEF NoStatus
  <2>2. LineEnd - 2 \in 0..Len(Rest)
    BY <1>1, <1>2, <1>3
  <2>3. Line \in Seq(Octet)
    BY <1>2, <2>2, First DEF Line
  <2>4. Line # <<>> => Line[1] \in Octet
    BY <2>3, Popped
  <2> QED
    BY <2>1, <2>4 DEF Said, IsHead, Octet
<1> QED
  BY <1>1, <1>2, <1>3, <1>4

\* After its status a reply is refused, its body is read, or it is acted upon.
LEMMA StatusRead ==
  ASSUME TypeOK, Types, Counts, Stream, BodySoFar, Fits, ReadStatus
  PROVE  \/ /\ pc' \in {"failed", "killed"} /\ UNCHANGED <<todo, taken>>
            /\ Said = NoStatus
               \/ \E r \in Replies : Pending /\ r = Reply /\ Said = Words(r) /\ Refused(Said)
         \/ \E r \in Replies :
              /\ Pending /\ r = Reply /\ r.si /\ Said = Words(r)
              /\ off' \in 0..Len(buf') /\ In(BodyOf(r))'
              /\ \/ /\ r.body # None /\ Verb \in {"text", "archive"} /\ BodyOf(r) = r.body
                    /\ pc' = "body" /\ UNCHANGED <<todo, taken>>
                 \/ /\ r = Plain(TRUE) /\ Verb \in {"kalit", "kango"} /\ BodyOf(r) = <<>>
                    /\ taken' = Append(taken, r) /\ todo' = Tail(todo) /\ pc' = "ask"
<1>1. pc = "status" /\ todo # <<>> /\ Verb \in Verbs
  BY VerbType DEF ReadStatus, Counts, Mid
<1>2. CASE Said = NoStatus
  <2>1. Refused(Said)
    BY <1>2, PlainReply DEF Refused, NoStatus
  <2> QED
    BY <1>2, <2>1 DEF ReadStatus, Close
<1>3. CASE Said # NoStatus
  <2>1. PICK r \in Replies : /\ Pending /\ Reply = r /\ Said = Words(r)
                             /\ In(BodyOf(r))' /\ off' \in 0..Len(buf')
    BY <1>3, StatusLine
  <2>2. CASE Refused(Said)
    BY <2>1, <2>2 DEF ReadStatus, Close
  <2>3. CASE ~Refused(Said) /\ Verb \in {"text", "archive"}
    <3>1. r.si /\ r.body # None /\ BodyOf(r) = r.body
      BY <2>1, <2>3 DEF Refused, Words, BodyOf
    <3> QED
      BY <2>1, <2>3, <3>1 DEF ReadStatus
  <2>4. CASE ~Refused(Said) /\ Verb \in {"kalit", "kango"}
    <3>1. r.si
      BY <2>1, <2>4 DEF Refused, Words
    <3>2. r = Plain(TRUE) /\ BodyOf(r) = <<>>
      BY <1>1, <2>1, <2>4, <3>1, PlainReply DEF Fits, Mid
    <3>3. taken' = Append(taken, r) /\ todo' = Tail(todo) /\ pc' = "ask"
      BY <2>4, <3>2 DEF ReadStatus, Acted
    <3> QED
      BY <2>1, <2>4, <3>1, <3>2, <3>3
  <2> QED
    BY <1>1, <2>2, <2>3, <2>4 DEF Verbs
<1> QED
  BY <1>2, <1>3

\* A body is read as it was sent, whatever else is in the buffer.
LEMMA BodyKeeps ==
  ASSUME TypeOK, Types, Counts, Stream, BodySoFar, ReadBody
  PROVE  \E r \in Replies :
           /\ r = Reply /\ r.body # None
           /\ out' \in Seq(Octet) /\ Len(out') <= Len(r.body) /\ Len(out') <= st.n
           /\ out' = SubSeq(r.body, 1, Len(out')) /\ off' \in 0..Len(buf')
           /\ In(SubSeq(r.body, Len(out) + 1, Len(r.body)))'
<1>1. /\ pc = "body" /\ Len(out) < st.n /\ out' = out \o SubSeq(Rest, 1, Taken)
      /\ off' = off + Taken /\ UNCHANGED <<buf, wire, peer>>
  BY DEF ReadBody
<1>2. PICK r \in Replies : r = Reply
  BY <1>1, ReplyType DEF Counts
<1>0. PICK n, k : n = Len(out) /\ k = Taken
  OBVIOUS
<1> DEFINE body == r.body
           due == SubSeq(body, n + 1, Len(body))
<1>3. /\ body # None /\ st = Words(r) /\ n <= Len(body) /\ out = SubSeq(body, 1, n)
      /\ In(due)
  BY <1>0, <1>1, <1>2 DEF BodySoFar, Stream, Final, Due
<1>4. body \in Seq(Octet) /\ out \in Seq(Octet) /\ n \in 0..Len(body) /\ Len(body) \in Nat
      /\ st.n = Len(body)
  <2>1. body \in Seq(Octet)
    BY <1>3, ReplyOctets DEF BodyOf
  <2> QED
    BY <1>0, <1>3, <2>1, LenProperties DEF Types, Words
<1>5. /\ due \in Seq(Octet) /\ Len(due) = Len(body) - n
      /\ \A i \in 1..Len(body) - n : due[i] = body[n + i]
  BY <1>4, Dropped
<1>6. Rest \in Seq(Octet) /\ Len(Rest) \in Nat
  BY UnreadTypes
<1>7. k \in 0..Len(Rest) /\ k <= Len(body) - n /\ k \in 0..Len(due)
  BY <1>0, <1>1, <1>4, <1>5, <1>6 DEF Taken
<1> DEFINE got == SubSeq(Rest, 1, k)
<1>8. got \in Seq(Octet) /\ Len(got) = k /\ \A i \in 1..k : got[i] = body[n + i]
  <2> HIDE DEF due, body
  <2>1. got \in Seq(Octet) /\ Len(got) = k /\ \A i \in 1..k : got[i] = Rest[i]
    BY <1>6, <1>7, First
  <2>2. ASSUME NEW i \in 1..k PROVE Rest[i] = body[n + i]
    <3>1. i \in 1..Len(Rest) /\ i <= Len(due) /\ i \in 1..Len(body) - n
      BY <1>5, <1>6, <1>7
    <3>2. Rest[i] = due[i]
      BY <1>3, <1>5, <3>1, RestDue
    <3> QED
      BY <1>5, <3>1, <3>2
  <2> QED
    BY <2>1, <2>2
<1>9. SubSeq(body, 1, n + k) = out \o got
  <2> DEFINE both == out \o got
             start == SubSeq(body, 1, n + k)
  <2>1. both \in Seq(Octet) /\ Len(both) = n + k
        /\ (\A i \in 1..n : both[i] = out[i]) /\ \A i \in 1..k : both[n + i] = got[i]
    <3> HIDE DEF got, body
    <3>1. out \in Seq(Octet) /\ got \in Seq(Octet)
      BY <1>4, <1>8
    <3>2. /\ out \o got \in Seq(Octet) /\ Len(out \o got) = Len(out) + Len(got)
          /\ \A i \in 1..Len(out) : (out \o got)[i] = out[i]
          /\ \A i \in 1..Len(got) : (out \o got)[Len(out) + i] = got[i]
      BY <3>1, Joined
    <3> QED
      BY <1>0, <1>8, <3>2
  <2>2. n + k \in 0..Len(body)
    BY <1>4, <1>7
  <2>3. start \in Seq(Octet) /\ Len(start) = n + k /\ \A i \in 1..n + k : start[i] = body[i]
    <3> HIDE DEF body
    <3> QED
      BY <1>4, <2>2, First
  <2>4. \A i \in 1..n : out[i] = body[i]
    BY <1>3, <1>4, First
  <2> HIDE DEF both, start, body, got
  <2>5. ASSUME NEW i \in 1..n + k PROVE start[i] = both[i]
    <3>1. CASE i <= n
      <4>1. i \in 1..n
        BY <1>4, <1>7, <3>1
      <4> QED
        BY <2>1, <2>3, <2>4, <4>1
    <3>2. CASE i > n
      <4> DEFINE j == i - n
      <4>1. j \in 1..k /\ i = n + j
        BY <1>4, <1>7, <3>2
      <4> HIDE DEF j
      <4> QED
        BY <1>8, <2>1, <2>3, <4>1
    <3>3. i <= n \/ i > n
      BY <1>4, <1>7
    <3> QED
      BY <3>1, <3>2, <3>3, Zenon
  <2>6. start = both
    BY <2>1, <2>3, <2>5, SeqEqual
  <2> QED
    BY <2>6 DEF start, both
<1>10. out' \in Seq(Octet) /\ Len(out') = n + k
  <2> HIDE DEF body, due
  <2> QED
    BY <1>0, <1>1, <1>4, <1>8, ConcatProperties
<1>11. In(SubSeq(due, k + 1, Len(due)))'
  <2>1. due \in Seq(Octet) /\ In(due) /\ k \in 0..Len(Rest) /\ k <= Len(due)
    BY <1>3, <1>5, <1>6, <1>7
  <2>2. buf' = buf /\ off' = off + k /\ UNCHANGED <<wire, peer>>
    BY <1>0, <1>1
  <2> HIDE DEF due
  <2> QED
    BY <2>1, <2>2, Consume
<1>12. SubSeq(due, k + 1, Len(due)) = SubSeq(body, n + k + 1, Len(body))
  <2>1. k \in 0..Len(body) - n
    BY <1>4, <1>5, <1>7
  <2> HIDE DEF body
  <2> QED
    BY <1>4, <2>1, DropTwice
<1>13. off' \in 0..Len(buf')
  <2>1. Len(Rest) = Len(buf) - off /\ off \in 0..Len(buf) /\ Len(buf) \in Nat
    BY UnreadTypes, LenProperties DEF TypeOK, Types
  <2> QED
    BY <1>0, <1>1, <1>7, <2>1
<1>14. n + k <= Len(body) /\ out' = SubSeq(body, 1, Len(out'))
  BY <1>0, <1>1, <1>4, <1>7, <1>9, <1>10
<1>15. In(SubSeq(body, Len(out) + 1, Len(body)))'
  BY <1>10, <1>11, <1>12
<1> QED
  BY <1>2, <1>3, <1>4, <1>10, <1>13, <1>14, <1>15

\* The body is whole when as much has been read as its status line said.
LEMMA BodyWhole ==
  ASSUME TypeOK, Types, Counts, Stream, BodySoFar, BodyRead
  PROVE  /\ In(<<>>)'
         /\ \E r \in Replies :
              /\ Pending /\ r = Reply /\ out = r.body /\ st = Words(r) /\ r.si
              /\ r.body # None /\ Verb \in {"text", "archive"}
              /\ \/ /\ Accepted /\ taken' = Append(taken, r) /\ todo' = Tail(todo) /\ pc' = "ask"
                 \/ /\ ~Accepted /\ pc' \in {"failed", "killed"} /\ UNCHANGED <<todo, taken>>
<1>1. pc = "body" /\ Len(out) >= st.n /\ UNCHANGED <<buf, off, wire, peer>> /\ Pending
  BY DEF BodyRead, memory, Counts
<1>2. PICK r \in Replies : r = Reply
  BY <1>1, ReplyType
<1>3. /\ r.body # None /\ st = Words(r) /\ r.si /\ Len(out) <= Len(r.body)
      /\ out = SubSeq(r.body, 1, Len(out)) /\ In(SubSeq(r.body, Len(out) + 1, Len(r.body)))
      /\ Verb \in {"text", "archive"}
  <2>1. Due = {SubSeq(r.body, Len(out) + 1, Len(r.body))}
    BY <1>1, <1>2 DEF Due
  <2>2. \E due \in Due : In(due)
    BY <1>1 DEF Stream, Final
  <2>3. In(SubSeq(r.body, Len(out) + 1, Len(r.body)))
    BY <2>1, <2>2
  <2> QED
    BY <1>1, <1>2, <2>3 DEF BodySoFar, Words
<1>4. r.body \in Seq(Octet) /\ Len(r.body) \in Nat /\ Len(out) \in Nat /\ st.n = Len(r.body)
  <2>1. r.body \in Seq(Octet)
    BY <1>3, ReplyOctets DEF BodyOf
  <2> QED
    BY <1>3, <2>1, LenProperties DEF Types, Words
<1>5. Len(out) = Len(r.body)
  BY <1>1, <1>3, <1>4
<1>6. out = r.body
  BY <1>3, <1>4, <1>5, SubSeqFull
<1>7. SubSeq(r.body, Len(out) + 1, Len(r.body)) = <<>>
  <2> DEFINE d == SubSeq(r.body, Len(r.body) + 1, Len(r.body))
  <2>1. Len(r.body) \in 0..Len(r.body)
    BY <1>4
  <2>2. d \in Seq(Octet) /\ Len(d) = Len(r.body) - Len(r.body)
    BY <1>4, <2>1, Dropped
  <2>3. d = <<>>
    BY <1>4, <2>2, EmptySeq
  <2> QED
    BY <1>5, <2>3
<1>8. In(<<>>)'
  BY <1>1, <1>3, <1>7, SameStream
<1>9. st.sema = r.sema
  BY <1>3 DEF Words
<1>10. [si |-> TRUE, body |-> out, sema |-> st.sema] = r
  BY <1>3, <1>6, <1>9 DEF Replies
<1> QED
  BY <1>1, <1>2, <1>3, <1>6, <1>8, <1>10 DEF BodyRead, Acted, Close

(***************************************************************************)
(* Who speaks when.                                                        *)
(***************************************************************************)
LEMMA GreetsWhen ==
  ASSUME TypeOK, Talk, Greets, pc \notin Final
  PROVE  pc \in {"dial", "greeting"}
BY DEF TypeOK, Talk, Greets, Final

LEMMA HearsGreetingWhen ==
  ASSUME TypeOK, Talk, HearsGreeting, pc \notin Final
  PROVE  pc = "caps" /\ up = <<"hello">>
BY DEF TypeOK, Talk, HearsGreeting, Final

LEMMA HearsRequestWhen ==
  ASSUME TypeOK, Talk, HearsRequest, pc \notin Final
  PROVE  /\ pc \in {"upload", "status"} /\ ~Pending /\ up[1] = Verb
         /\ \A j \in 2..Len(up) : up[j] = "octet"
         /\ Len(up) - 1 = IF Verb = "kango" THEN Upload - left ELSE 0
BY DEF TypeOK, Talk, HearsRequest, Final

LEMMA UploadWhen ==
  ASSUME TypeOK, Talk, srv = "upload", peer = "open", pc \notin Final
  PROVE  /\ pc \in {"upload", "status"} /\ ~Pending /\ Verb = "kango"
         /\ \A j \in 1..Len(up) : up[j] = "octet"
         /\ owed = Len(up) + left
BY DEF TypeOK, Talk, Final

\* The registry's reply is the last said.
LEMMA Answered ==
  ASSUME Types, Counts, ~Pending, pc \in {"upload", "status"}, NEW r \in Replies,
         sent' = Append(sent, r), taken' = taken
  PROVE  Pending' /\ Reply' = r /\ sent' \in Seq(Replies)
<1>1. sent \in Seq(Replies) /\ taken \in Seq(Replies) /\ Len(taken) \in Nat /\ Len(sent) \in Nat
  BY LenProperties DEF Types
<1>2. Len(sent) = Len(taken)
  BY <1>1 DEF Counts, Pending, Mid, Final
<1>3. /\ Append(sent, r) \in Seq(Replies) /\ Len(Append(sent, r)) = Len(sent) + 1
      /\ Append(sent, r)[Len(sent) + 1] = r
  BY <1>1, Pushed
<1> QED
  BY <1>1, <1>2, <1>3 DEF Pending, Reply

LEMMA StreamKept ==
  ASSUME TypeOK, Types, Counts, Stream, BodySoFar, pc \notin Final, Due \subseteq Due',
         \A due \in Seq(Octet) : In(due) => In(due)'
  PROVE  Stream'
<1>1. PICK due \in Due : In(due)
  BY DEF Stream
<1>2. due \in Seq(Octet)
  BY DueOctets
<1>3. due \in Due' /\ In(due)'
  BY <1>1, <1>2
<1> QED
  BY <1>3 DEF Stream

LEMMA UploadsTail ==
  ASSUME Types, Uploads, todo # <<>>, pc \notin Final, todo' = Tail(todo), left' = left, pc' = "ask"
  PROVE  Uploads'
<1>1. /\ Len(todo) \in Nat /\ Len(todo') = Len(todo) - 1
      /\ \A i \in 1..Len(todo) - 1 : todo'[i] = todo[i + 1]
  BY Popped DEF Types
<1>2. ASSUME NEW i \in 1..Len(todo'), NEW k \in 1..Len(todo'),
             todo'[i] = "kango", todo'[k] = "kango"
      PROVE  i = k
  <2>1. i + 1 \in 1..Len(todo) /\ k + 1 \in 1..Len(todo)
    BY <1>1
  <2>2. todo[i + 1] = "kango" /\ todo[k + 1] = "kango"
    BY <1>1, <1>2
  <2>3. i + 1 = k + 1
    BY <2>1, <2>2 DEF Uploads
  <2> QED
    BY <2>3
<1>3. ASSUME NEW i \in 1..Len(todo'), todo'[i] = "kango" PROVE left' = Upload
  <2>1. i + 1 \in 1..Len(todo) /\ i + 1 # 1 /\ todo[i + 1] = "kango"
    BY <1>1, <1>3
  <2> QED
    BY <2>1 DEF Uploads
<1> QED
  BY <1>2, <1>3 DEF Uploads

LEMMA UploadWhole ==
  ASSUME Types, Uploads, todo # <<>>, pc = "ask", Verb = "kango"
  PROVE  left = Upload
<1>1. 1 \in 1..Len(todo) /\ todo[1] = "kango"
  BY VerbType, Popped DEF Types
<1> QED
  BY <1>1 DEF Uploads, Mid, Final

(***************************************************************************)
(* What is due, state by state.                                            *)
(***************************************************************************)
LEMMA DueKept ==
  ASSUME UNCHANGED <<pc, srv, out, sent, taken>>
  PROVE  Due' = Due
BY DEF Due, Pending, Reply

\* Nothing is.
LEMMA NothingDue ==
  ASSUME Stream, pc \notin Final,
         ~(pc \in {"dial", "greeting"} /\ srv = "hello"), ~(pc = "caps" /\ srv = "ready"),
         ~(pc \in {"upload", "status"} /\ Pending), pc # "body"
  PROVE  In(<<>>)
<1>1. Due = {<<>>}
  BY DEF Due
<1> QED
  BY <1>1 DEF Stream

\* A stream from which everything due has been read.
LEMMA AllRead ==
  ASSUME In(<<>>)', pc' \in {"greet", "ask"}
  PROVE  Stream'
<1>1. Due' = {<<>>}
  BY DEF Due
<1> QED
  BY <1>1 DEF Stream

\* The stream while a request is written.
LEMMA Written ==
  ASSUME Stream, TypeOK, Types, NEW xs \in Seq(Verbs \cup {"hello", "octet"}), Put(xs),
         UNCHANGED <<buf, off>>, In(<<>>), <<>> \in Due'
  PROVE  Stream'
<1>1. In(<<>>)'
  BY PutKeeps, EmptySeq
<1> QED
  BY <1>1 DEF Stream

\* ... and when the reply to it is said.
LEMMA Replied ==
  ASSUME TypeOK, Types, Counts, Stream, ~Pending, peer = "open", pc \in {"upload", "status"},
         NEW r \in Replies, Say(Octets(r)), sent' = Append(sent, r),
         UNCHANGED <<buf, off, peer, pc, taken>>
  PROVE  Stream'
<1>1. In(<<>>)
  BY NothingDue DEF Final
<1>2. In(Octets(r))'
  BY <1>1, ReplyOctets, NowDue
<1>3. Pending' /\ Reply' = r
  BY Answered
<1>4. Due' = {Octets(r)}
  BY <1>3 DEF Due
<1> QED
  BY <1>2, <1>4 DEF Stream

(***************************************************************************)
(* Where nothing has failed, what is in the buffer is the start of a line  *)
(* of the protocol, and somebody is about to send what the client awaits.  *)
(***************************************************************************)
Starts(words, more) == Unread = <<words, CR, LF>> \o more

LEMMA Orderly ==
  ASSUME TypeOK, Types, Counts, Stream, Fits, Talk, Uploads, Calm, ~trouble,
         pc \in {"greeting", "caps", "status"}
  PROVE  /\ peer = "open"
         /\ \/ Unread = <<>> /\ ~Waiting
            \/ \E words \in StatusWords, more \in Seq(Octet) :
                 /\ Starts(words, more)
                 /\ pc # "status" => words.si
                 /\ pc = "status" => Pending /\ words = Words(Reply)
<1>1. peer = "open" /\ pc \notin Final
  BY DEF Calm, Final
<1>2. <<>> \in Seq(Octet)
  BY EmptySeq
<1>3. ASSUME NEW words \in StatusWords, Unread = <<words, CR, LF>> PROVE Starts(words, <<>>)
  <2>1. <<words, CR, LF>> \in Seq(Octet)
    BY DEF Octet
  <2> QED
    BY <1>3, <2>1, ConcatEmptySeq DEF Starts
<1>4. CASE pc = "greeting"
  <2>1. CASE srv = "hello"
    <3>1. Unread = <<Words(Plain(TRUE)), CR, LF>>
      BY <1>1, <1>4, <2>1, PlainReply DEF Calm
    <3> QED
      BY <1>1, <1>2, <1>3, <1>4, <3>1, PlainReply
  <2>2. CASE srv # "hello"
    <3>1. srv = "greet" /\ In(<<>>)
      BY <1>1, <1>4, <2>2, NothingDue DEF Talk
    <3> QED
      BY <1>1, <3>1 DEF In, Waiting
  <2> QED
    BY <2>1, <2>2
<1>5. CASE pc = "caps"
  <2>1. CASE srv = "ready"
    <3>1. Due = {CapsLine(c) : c \in Caps}
      BY <1>5, <2>1 DEF Due
    <3>2. PICK c \in Caps : Unread = CapsLine(c)
      BY <1>1, <3>1 DEF Stream, In
    <3> DEFINE words == [Words(Plain(TRUE)) EXCEPT !.kyx = (c > 0), !.n = c]
    <3>3. words \in StatusWords /\ words.si
      <4>1. Words(Plain(TRUE)) \in StatusWords /\ Words(Plain(TRUE)).si /\ c \in Nat
        BY PlainReply, KatareAssumption
      <4>2. (c > 0) \in BOOLEAN
        OBVIOUS
      <4>3. words \in StatusWords
        BY <4>1, <4>2, WordsWith
      <4>4. words.si = Words(Plain(TRUE)).si
        BY <4>1 DEF StatusWords
      <4> QED
        BY <4>1, <4>3, <4>4
    <3>4. Unread = <<words, CR, LF>>
      BY <3>2 DEF CapsLine
    <3> HIDE DEF words
    <3> QED
      BY <1>1, <1>2, <1>3, <1>5, <3>3, <3>4
  <2>2. CASE srv # "ready"
    <3>1. up # <<>> /\ In(<<>>)
      BY <1>1, <1>5, <2>2, NothingDue DEF Talk
    <3> QED
      BY <1>1, <3>1 DEF In, Waiting
  <2> QED
    BY <2>1, <2>2
<1>6. CASE pc = "status"
  <2>1. CASE Pending
    <3>1. Due = {Octets(Reply)}
      BY <1>6, <2>1 DEF Due
    <3>2. Unread = Octets(Reply)
      BY <1>1, <3>1 DEF Stream, In
    <3>3. Words(Reply) \in StatusWords /\ BodyOf(Reply) \in Seq(Octet)
          /\ Octets(Reply) = <<Words(Reply), CR, LF>> \o BodyOf(Reply)
      BY <2>1, ReplyType, ReplyOctets
    <3> QED
      BY <1>1, <1>6, <2>1, <3>2, <3>3 DEF Starts
  <2>2. CASE ~Pending
    <3>1. In(<<>>)
      BY <1>1, <1>6, <2>2, NothingDue
    <3>2. ~Waiting
      <4>1. CASE up # <<>>
        BY <4>1 DEF Waiting
      <4>2. CASE up = <<>>
        <5>1. srv = "upload" /\ owed = Len(up) + left /\ left = 0
          BY <1>1, <1>6, <2>2, <4>2 DEF Talk, Uploads
        <5>2. owed = 0
          BY <4>2, <5>1
        <5> QED
          BY <5>1, <5>2 DEF Waiting
      <4> QED
        BY <4>1, <4>2
    <3> QED
      BY <1>1, <3>1, <3>2 DEF In
  <2> QED
    BY <2>1, <2>2
<1> QED
  BY <1>4, <1>5, <1>6

\* Its line is read when it has come, and awaited until then.
LEMMA OrderlyLine ==
  ASSUME TypeOK, Types, NEW words \in StatusWords, NEW more \in Seq(Octet), Starts(words, more)
  PROVE  /\ HasLine => GoodLine /\ Said = words
         /\ ~HasLine => Len(Rest) <= LineMax /\ wire # <<>>
<1>1. /\ Unread \in Seq(Octet) /\ IsPrefix(Unread, <<words, CR, LF>> \o more)
  BY UnreadTypes, NothingPrefix DEF Starts
<1>2. /\ HasLine => GoodLine /\ Said = words
      /\ ~HasLine => Len(Rest) <= 2
  BY <1>1, LineRead
<1>3. Len(Unread) > 2
  <2>1. <<words, CR, LF>> \in Seq(Octet) /\ Len(<<words, CR, LF>>) = 3
    BY DEF Octet
  <2>2. Len(Unread) = 3 + Len(more) /\ Len(more) \in Nat
    BY <2>1, Joined DEF Starts
  <2> QED
    BY <2>2
<1>4. Len(Unread) = Len(Rest) + Len(wire) /\ Len(Rest) \in Nat /\ Len(wire) \in Nat
  BY UnreadTypes
<1>5. Len(Rest) <= 2 => Len(wire) > 0 /\ Len(Rest) <= LineMax
  BY <1>3, <1>4, KatareAssumption
<1>6. Len(<<>>) = 0
  OBVIOUS
<1> QED
  BY <1>2, <1>5, <1>6

\* Nothing unread is no line.
LEMMA NoLine ==
  ASSUME TypeOK, Types, Unread = <<>>
  PROVE  ~HasLine /\ Len(Rest) = 0
<1>1. /\ Len(Unread) = Len(Rest) + Len(wire) /\ Len(Rest) \in Nat /\ Len(wire) \in Nat
      /\ Rest \in Seq(Octet)
  BY UnreadTypes
<1>2. Len(Unread) = 0
  OBVIOUS
<1>3. Len(Rest) = 0
  BY <1>1, <1>2
<1> QED
  BY <1>1, <1>3, EmptySeq DEF HasLine, ToSet

-----------------------------------------------------------------------------
(* The parts of the invariant, one by one *)

\* TypeOK.
LEMMA TypeStep ==
  ASSUME TypeOK, Types, [Next]_vars,
         pc = "status" => out = <<>>, pc = "body" => Counts /\ Stream /\ BodySoFar
  PROVE  TypeOK'
<1>1. CASE Dial
  BY <1>1 DEF Dial, registry, memory, TypeOK, Final
<1>2. CASE Refill
  <2>1. buf' \in Seq(Octet) /\ Len(buf') <= BufMax
    BY <1>2, RefillKeeps
  <2>2. Len(buf') \in Nat
    OBVIOUS
  <2> QED
    BY <1>2, <2>1, <2>2 DEF Refill, TypeOK, registry
<1>3. CASE RefillFails
  BY <1>3 DEF RefillFails, GiveUp, Close, registry, memory, TypeOK, Final
<1>4. CASE LineFails
  BY <1>4 DEF LineFails, GiveUp, Close, registry, memory, TypeOK, Final
<1>5. CASE WriteKills
  BY <1>5 DEF WriteKills, registry, memory, TypeOK, Final
<1>6. CASE WriteFails
  BY <1>6 DEF WriteFails, GiveUp, Close, registry, memory, TypeOK, Final
<1>7. CASE ReadGreeting
  <2>1. off' \in 0..Len(buf') /\ Len(buf') <= BufMax
    BY <1>7, LineGot DEF ReadGreeting
  <2> QED
    BY <1>7, <2>1 DEF ReadGreeting, Close, TypeOK, Final, registry
<1>8. CASE WriteGreeting
  <2>1. /\ Len(up') <= SockMax /\ peer' \in {"open", "closed", "reset"}
    <3>1. <<"hello">> \in Seq(Verbs \cup {"hello", "octet"})
      OBVIOUS
    <3> QED
      BY <1>8, <3>1, PutKeeps DEF WriteGreeting, memory
  <2> QED
    BY <1>8, <2>1 DEF WriteGreeting, TypeOK, registry, memory
<1>9. CASE ReadCaps
  <2>1. off' \in 0..Len(buf') /\ Len(buf') <= BufMax
    BY <1>9, LineGot DEF ReadCaps
  <2> QED
    BY <1>9, <2>1 DEF ReadCaps, Close, TypeOK, Final, registry
<1>10. CASE Refrain
  BY <1>10 DEF Refrain, GiveUp, Close, registry, memory, TypeOK, Final
<1>11. CASE Request
  <2>1. /\ Len(up') <= SockMax /\ peer' \in {"open", "closed", "reset"}
    BY <1>11, VerbType, PutKeeps DEF Request
  <2>2. Len(out') = 0 /\ st'.n = 0
    <3>1. st'.n = 0
      BY <1>11, PlainReply DEF Request, NoStatus
    <3>2. Len(<<>>) = 0
      OBVIOUS
    <3> QED
      BY <1>11, <3>1, <3>2 DEF Request
  <2> QED
    BY <1>11, <2>1, <2>2 DEF Request, AfterRequest, TypeOK, registry
<1>12. CASE SendBody
  <2>1. PICK k \in 1..left : Put([j \in 1..k |-> "octet"]) /\ left' = left - k
    BY <1>12 DEF SendBody
  <2>2. k \in Nat /\ left' \in 0..Upload
    BY <2>1, KatareAssumption DEF TypeOK
  <2>3. [j \in 1..k |-> "octet"] \in Seq(Verbs \cup {"hello", "octet"})
    OBVIOUS
  <2>4. /\ Len(up') <= SockMax /\ peer' \in {"open", "closed", "reset"}
    BY <1>12, PutKeeps DEF SendBody
  <2> QED
    BY <1>12, <2>2, <2>4 DEF SendBody, TypeOK, registry
<1>13. CASE BodySent
  BY <1>13 DEF BodySent, registry, memory, TypeOK
<1>14. CASE ReadStatus
  <2>1. off' \in 0..Len(buf') /\ Len(buf') <= BufMax /\ st' \in StatusWords
    BY <1>14, LineGot DEF ReadStatus
  <2>2. Len(out') = 0 /\ st'.n \in Nat
    <3>1. out' = <<>>
      BY <1>14 DEF ReadStatus
    <3>2. Len(<<>>) = 0
      OBVIOUS
    <3> QED
      BY <2>1, <3>1, <3>2 DEF StatusWords
  <2>3. pc' \in {"failed", "killed", "body", "ask"}
    BY <1>14 DEF ReadStatus, Close, Acted
  <2> QED
    BY <1>14, <2>1, <2>2, <2>3 DEF ReadStatus, TypeOK, Final, registry
<1>15. CASE ReadBody
  <2>1. Len(out') <= st.n /\ off' \in 0..Len(buf')
    BY <1>15, BodyKeeps DEF ReadBody
  <2> QED
    BY <1>15, <2>1 DEF ReadBody, TypeOK, registry
<1>16. CASE SinkFails
  BY <1>16 DEF SinkFails, GiveUp, Close, registry, memory, TypeOK, Final
<1>17. CASE BodyRead
  BY <1>17 DEF BodyRead, Acted, Close, registry, memory, TypeOK, Final
<1>18. CASE Finish
  BY <1>18 DEF Finish, Close, registry, memory, TypeOK, Final
<1>19. CASE pc \notin Final /\ Greets
  BY <1>19 DEF Greets, memory, TypeOK
<1>20. CASE pc \notin Final /\ HearsGreeting
  <2>1. Len(up') <= SockMax
    BY <1>20, Heard DEF HearsGreeting
  <2> QED
    BY <1>20, <2>1 DEF HearsGreeting, TypeOK, memory
<1>21. CASE pc \notin Final /\ HearsRequest
  <2>1. Len(up') <= SockMax
    BY <1>21, Heard DEF HearsRequest
  <2> QED
    BY <1>21, <2>1, KatareAssumption DEF HearsRequest, TypeOK, registry, memory
<1>22. CASE pc \notin Final /\ HearsUpload
  <2>1. Len(up') <= SockMax
    BY <1>22, Heard DEF HearsUpload
  <2>2. owed' \in 0..Upload
    BY <1>22, KatareAssumption DEF HearsUpload, TypeOK
  <2> QED
    BY <1>22, <2>1, <2>2 DEF HearsUpload, TypeOK, memory
<1>23. CASE pc \notin Final /\ Publishes
  BY <1>23 DEF Publishes, memory, TypeOK
<1>24. CASE pc \notin Final /\ Leaves
  BY <1>24 DEF Leaves, registry, memory, TypeOK
<1>25. CASE Over
  BY <1>25 DEF Over, vars, registry, memory, TypeOK
<1>26. CASE UNCHANGED vars
  BY <1>26 DEF vars, registry, memory, TypeOK
<1> QED
  BY <1>1, <1>2, <1>3, <1>4, <1>5, <1>6, <1>7, <1>8, <1>9, <1>10, <1>11, <1>12, <1>13,
     <1>14, <1>15, <1>16,
     <1>17, <1>18, <1>19, <1>20, <1>21, <1>22, <1>23, <1>24, <1>25, <1>26
   DEF Next, Client, Registry

\* What TypeOK leaves open.
LEMMA TypesStep ==
  ASSUME TypeOK, Types, [Next]_vars, Mid => todo # <<>>,
         pc = "body" => Counts /\ Stream /\ BodySoFar
  PROVE  Types'
<1>1. CASE Dial
  BY <1>1 DEF Dial, memory, history, Types
<1>2. CASE Refill
  BY <1>2, RefillKeeps DEF Refill, Types, history
<1>3. CASE RefillFails
  BY <1>3 DEF RefillFails, GiveUp, memory, history, Types
<1>4. CASE LineFails
  BY <1>4 DEF LineFails, GiveUp, memory, history, Types
<1>5. CASE WriteKills
  BY <1>5 DEF WriteKills, memory, history, Types
<1>6. CASE WriteFails
  BY <1>6 DEF WriteFails, GiveUp, memory, history, Types
<1>7. CASE ReadGreeting
  BY <1>7, LineGot DEF ReadGreeting, Types, history
<1>8. CASE WriteGreeting
  <2>1. <<"hello">> \in Seq(Verbs \cup {"hello", "octet"})
    OBVIOUS
  <2>2. wire' \in Seq(Octet) /\ up' \in Seq(Verbs \cup {"hello", "octet"})
    BY <1>8, <2>1, PutKeeps DEF WriteGreeting, memory
  <2> QED
    BY <1>8, <2>2, Zenon DEF WriteGreeting, Types, memory, history
<1>9. CASE ReadCaps
  <2>1. buf' \in Seq(Octet) /\ Said.n \in Nat
    BY <1>9, LineGot DEF ReadCaps, StatusWords
  <2>2. cap' \in Nat
    BY <1>9, <2>1 DEF ReadCaps, Types
  <2> QED
    BY <1>9, <2>1, <2>2, Zenon DEF ReadCaps, Types, history
<1>10. CASE Refrain
  BY <1>10 DEF Refrain, GiveUp, memory, history, Types
<1>11. CASE Request
  <2>1. wire' \in Seq(Octet) /\ up' \in Seq(Verbs \cup {"hello", "octet"})
    BY <1>11, VerbType, PutKeeps DEF Request
  <2>2. st' \in StatusWords
    BY <1>11, PlainReply DEF Request, NoStatus
  <2>3. out' \in Seq(Octet) /\ asked' \in Nat
    BY <1>11 DEF Request, Types
  <2> QED
    BY <1>11, <2>1, <2>2, <2>3, Zenon DEF Request, Types
<1>12. CASE SendBody
  <2>1. PICK k \in 1..left : Put([j \in 1..k |-> "octet"]) /\ left' = left - k
    BY <1>12 DEF SendBody
  <2>2. k \in Nat
    OBVIOUS
  <2>3. [j \in 1..k |-> "octet"] \in Seq(Verbs \cup {"hello", "octet"})
    OBVIOUS
  <2>4. wire' \in Seq(Octet) /\ up' \in Seq(Verbs \cup {"hello", "octet"})
    BY <1>12, PutKeeps DEF SendBody
  <2> QED
    BY <1>12, <2>4, Zenon DEF SendBody, Types, history
<1>13. CASE BodySent
  BY <1>13 DEF BodySent, memory, history, Types
<1>14. CASE ReadStatus
  <2>1. buf' \in Seq(Octet) /\ st' \in StatusWords
    BY <1>14, LineGot DEF ReadStatus
  <2>2. todo # <<>>
    BY <1>14 DEF ReadStatus, Mid
  <2>3. \/ UNCHANGED <<todo, taken>>
        \/ \E r \in Replies : taken' = Append(taken, r) /\ todo' = Tail(todo)
    BY <1>14, PlainReply DEF ReadStatus, Acted
  <2>4. todo' \in Seq(Verbs) /\ taken' \in Seq(Replies)
    BY <2>2, <2>3, ActedTypes DEF Types
  <2> QED
    BY <1>14, <2>1, <2>4, Zenon DEF ReadStatus, Types
<1>15. CASE ReadBody
  <2>1. out' \in Seq(Octet)
    BY <1>15, BodyKeeps DEF ReadBody
  <2> QED
    BY <1>15, <2>1, Zenon DEF ReadBody, Types, history
<1>16. CASE SinkFails
  BY <1>16 DEF SinkFails, GiveUp, memory, history, Types
<1>17. CASE BodyRead
  <2>1. todo # <<>>
    BY <1>17 DEF BodyRead, Mid
  <2>2. \/ UNCHANGED <<todo, taken>>
        \/ \E r \in Replies : taken' = Append(taken, r) /\ todo' = Tail(todo)
    BY <1>17, BodyWhole DEF BodyRead
  <2>3. todo' \in Seq(Verbs) /\ taken' \in Seq(Replies)
    BY <2>1, <2>2, ActedTypes DEF Types
  <2> QED
    BY <1>17, <2>3, Zenon DEF BodyRead, Types, memory
<1>18. CASE Finish
  BY <1>18 DEF Finish, memory, history, Types
<1>19. CASE pc \notin Final /\ Greets
  <2>1. PICK xs \in Greetings : Say(xs)
    BY <1>19 DEF Greets, Greetings
  <2>2. wire' \in Seq(Octet)
    BY <1>19, <2>1, GreetingOctets, SayJoins DEF Greets, memory
  <2>3. trouble' \in BOOLEAN
    BY <1>19 DEF Greets, Types
  <2> QED
    BY <1>19, <2>2, <2>3, Zenon DEF Greets, Types, memory, history
<1>20. CASE pc \notin Final /\ HearsGreeting
  <2>1. PICK c \in Caps : Say(CapsLine(c))
    BY <1>20 DEF HearsGreeting, CapsLine
  <2>2. wire' \in Seq(Octet)
    BY <1>20, <2>1, CapsOctets, SayJoins DEF HearsGreeting, memory
  <2>3. up' \in Seq(Verbs \cup {"hello", "octet"})
    BY <1>20, Heard DEF HearsGreeting
  <2> QED
    BY <1>20, <2>2, <2>3, Zenon DEF HearsGreeting, Types, memory, history
<1>21. CASE pc \notin Final /\ HearsRequest
  <2>1. up' \in Seq(Verbs \cup {"hello", "octet"})
    BY <1>21, Heard DEF HearsRequest
  <2>2. /\ wire' \in Seq(Octet) /\ sent' \in Seq(Replies)
        /\ trouble' \in BOOLEAN /\ misled' \in BOOLEAN
    <3>1. CASE up[1] = "kango"
      BY <1>21, <3>1 DEF HearsRequest, Types
    <3>2. CASE up[1] # "kango"
      BY <1>21, <3>2, AnswerTypes DEF HearsRequest, memory
    <3> QED
      BY <3>1, <3>2
  <2> QED
    BY <1>21, <2>1, <2>2, Zenon DEF HearsRequest, Types, memory
<1>22. CASE pc \notin Final /\ HearsUpload
  <2>1. up' \in Seq(Verbs \cup {"hello", "octet"})
    BY <1>22, Heard DEF HearsUpload
  <2> QED
    BY <1>22, <2>1, Zenon DEF HearsUpload, Types, memory, history
<1>23. CASE pc \notin Final /\ Publishes
  <2>1. /\ wire' \in Seq(Octet) /\ sent' \in Seq(Replies)
        /\ trouble' \in BOOLEAN /\ misled' \in BOOLEAN
    BY <1>23, AnswerTypes DEF Publishes, memory
  <2> QED
    BY <1>23, <2>1, Zenon DEF Publishes, Types, memory
<1>24. CASE pc \notin Final /\ Leaves
  <2>1. wire' \in Seq(Octet) /\ trouble' \in BOOLEAN
    BY <1>24, LeavesKeeps DEF Leaves
  <2> QED
    BY <1>24, <2>1, Zenon DEF Leaves, Types, memory, history
<1>25. CASE Over
  BY <1>25 DEF Over, vars, memory, history, Types
<1>26. CASE UNCHANGED vars
  BY <1>26 DEF vars, memory, history, Types
<1> QED
  BY <1>1, <1>2, <1>3, <1>4, <1>5, <1>6, <1>7, <1>8, <1>9, <1>10, <1>11, <1>12, <1>13,
     <1>14, <1>15, <1>16,
     <1>17, <1>18, <1>19, <1>20, <1>21, <1>22, <1>23, <1>24, <1>25, <1>26
   DEF Next, Client, Registry

\* Requests and replies are counted.
LEMMA CountsStep ==
  ASSUME TypeOK, Types, Counts, Stream, BodySoFar, Fits, Talk, [Next]_vars
  PROVE  Counts'
<1>1. CASE Dial
  BY <1>1 DEF Dial, history, Counts, Mid, Final
<1>2. CASE Refill
  BY <1>2 DEF Refill, history, Counts, Mid, Pending
<1>3. CASE RefillFails
  BY <1>3 DEF RefillFails, GiveUp, Close, history, Counts, Mid, Final
<1>4. CASE LineFails
  BY <1>4 DEF LineFails, GiveUp, Close, history, Counts, Mid, Final
<1>5. CASE WriteKills
  BY <1>5 DEF WriteKills, history, Counts, Mid, Final
<1>6. CASE WriteFails
  BY <1>6 DEF WriteFails, GiveUp, Close, history, Counts, Mid, Final
<1>7. CASE ReadGreeting
  BY <1>7 DEF ReadGreeting, Close, history, Counts, Mid, Final
<1>8. CASE WriteGreeting
  BY <1>8 DEF WriteGreeting, history, Counts, Mid, Final
<1>9. CASE ReadCaps
  BY <1>9 DEF ReadCaps, Close, history, Counts, Mid, Final
<1>10. CASE Refrain
  BY <1>10 DEF Refrain, GiveUp, Close, history, Counts, Final
<1>11. CASE Request
  <2>1. Len(taken) \in Nat /\ Len(sent) \in Nat
    OBVIOUS
  <2> QED
    BY <1>11, <2>1 DEF Request, AfterRequest, Counts, Mid, Final, Types, Pending
<1>12. CASE SendBody
  BY <1>12 DEF SendBody, history, Counts, Mid
<1>13. CASE BodySent
  BY <1>13 DEF BodySent, history, Counts, Mid, Final
<1>14. CASE ReadStatus
  <2>1. pc = "status" /\ todo # <<>> /\ UNCHANGED <<asked, sent>> /\ asked = Len(taken) + 1
    BY <1>14 DEF ReadStatus, Counts, Mid, Final
  <2>2. CASE pc' \in {"failed", "killed"} /\ UNCHANGED <<todo, taken>>
    BY <2>1, <2>2 DEF Counts, Final
  <2>3. CASE Pending /\ pc' = "body" /\ UNCHANGED <<todo, taken>>
    BY <2>1, <2>3 DEF Counts, Mid, Pending
  <2>4. ASSUME Pending, NEW r \in Replies, taken' = Append(taken, r), todo' = Tail(todo), pc' = "ask"
        PROVE  Counts'
    <3>1. Len(taken') = Len(taken) + 1 /\ Len(taken) \in Nat
      BY <2>4
    <3> QED
      BY <2>1, <2>4, <3>1 DEF Counts, Mid, Final, Pending
  <2> QED
    BY <1>14, <2>2, <2>3, <2>4, StatusRead
<1>15. CASE ReadBody
  BY <1>15 DEF ReadBody, history, Counts, Mid, Pending
<1>16. CASE SinkFails
  BY <1>16 DEF SinkFails, GiveUp, Close, history, Counts, Mid, Final
<1>17. CASE BodyRead
  <2>1. pc = "body" /\ todo # <<>> /\ UNCHANGED <<asked, sent>> /\ asked = Len(taken) + 1
    BY <1>17 DEF BodyRead, Counts, Mid, Final
  <2>2. CASE pc' \in {"failed", "killed"} /\ UNCHANGED <<todo, taken>>
    BY <2>1, <2>2 DEF Counts, Final
  <2>3. ASSUME Pending, NEW r \in Replies, taken' = Append(taken, r), todo' = Tail(todo), pc' = "ask"
        PROVE  Counts'
    <3>1. Len(taken') = Len(taken) + 1 /\ Len(taken) \in Nat
      BY <2>3
    <3> QED
      BY <2>1, <2>3, <3>1 DEF Counts, Mid, Final, Pending
  <2> QED
    BY <1>17, <2>2, <2>3, BodyWhole
<1>18. CASE Finish
  BY <1>18 DEF Finish, Close, history, Counts, Mid, Final
<1>19. CASE pc \notin Final /\ Greets
  BY <1>19 DEF Greets, history, Counts, Mid, Pending
<1>20. CASE pc \notin Final /\ HearsGreeting
  BY <1>20 DEF HearsGreeting, history, Counts, Mid, Pending
<1>21. CASE pc \notin Final /\ HearsRequest
  <2>1. pc \in {"upload", "status"} /\ ~Pending /\ UNCHANGED <<asked, taken, pc, todo>>
    BY <1>21, HearsRequestWhen DEF HearsRequest
  <2>2. CASE sent' = sent
    BY <2>1, <2>2, Zenon DEF Counts, Mid
  <2>3. CASE Pending'
    <3>1. Len(taken) \in Nat
      OBVIOUS
    <3> QED
      BY <2>1, <2>3, <3>1 DEF Counts, Mid, Final, Pending
  <2> QED
    BY <1>21, <2>1, <2>2, <2>3, Answered DEF HearsRequest, Answers
<1>22. CASE pc \notin Final /\ HearsUpload
  BY <1>22 DEF HearsUpload, history, Counts, Mid, Pending
<1>23. CASE pc \notin Final /\ Publishes
  <2>1. pc \in {"upload", "status"} /\ ~Pending /\ UNCHANGED <<asked, taken, pc, todo>>
    BY <1>23, UploadWhen DEF Publishes
  <2>2. Pending'
    BY <1>23, <2>1, Answered DEF Publishes, Answers
  <2>3. Len(taken) \in Nat
    OBVIOUS
  <2> QED
    BY <2>1, <2>2, <2>3 DEF Counts, Mid, Final, Pending
<1>24. CASE pc \notin Final /\ Leaves
  BY <1>24 DEF Leaves, history, Counts, Mid, Pending
<1>25. CASE Over
  BY <1>25 DEF Over, vars, history, Counts, Mid, Pending
<1>26. CASE UNCHANGED vars
  BY <1>26 DEF vars, history, Counts, Mid, Pending
<1> QED
  BY <1>1, <1>2, <1>3, <1>4, <1>5, <1>6, <1>7, <1>8, <1>9, <1>10, <1>11, <1>12, <1>13,
     <1>14, <1>15, <1>16,
     <1>17, <1>18, <1>19, <1>20, <1>21, <1>22, <1>23, <1>24, <1>25, <1>26
   DEF Next, Client, Registry

\* Nothing is left in the stream of a reply that has no body.
LEMMA WholeReply ==
  ASSUME NEW v, NEW r \in Replies, Answers(v, r), ~misled', v \in {"kalit", "kango"},
         r.sema = <<>>, r.si
  PROVE  r = Plain(TRUE)
<1>1. r.body = None
  BY DEF Answers, LeavesBody
<1> QED
  BY <1>1 DEF Replies, Plain

\* The reply fits the request.
LEMMA FitsStep ==
  ASSUME TypeOK, Types, Counts, Stream, BodySoFar, Fits, Talk, [Next]_vars, ~misled'
  PROVE  Fits'
<1>1. CASE Dial
  BY <1>1 DEF Dial, Fits, Mid
<1>2. CASE Refill
  BY <1>2 DEF Refill, history, Fits, Mid, Pending, Reply, Verb
<1>3. CASE RefillFails
  BY <1>3 DEF RefillFails, GiveUp, Close, Fits, Mid
<1>4. CASE LineFails
  BY <1>4 DEF LineFails, GiveUp, Close, Fits, Mid
<1>5. CASE WriteKills
  BY <1>5 DEF WriteKills, Fits, Mid
<1>6. CASE WriteFails
  BY <1>6 DEF WriteFails, GiveUp, Close, Fits, Mid
<1>7. CASE ReadGreeting
  BY <1>7 DEF ReadGreeting, Close, Fits, Mid
<1>8. CASE WriteGreeting
  BY <1>8 DEF WriteGreeting, Fits, Mid
<1>9. CASE ReadCaps
  BY <1>9 DEF ReadCaps, Close, Fits, Mid
<1>10. CASE Refrain
  BY <1>10 DEF Refrain, GiveUp, Close, Fits, Mid
<1>11. CASE Request
  <2>1. Len(taken) \in Nat /\ Len(sent) \in Nat
    OBVIOUS
  <2>2. ~Pending
    BY <1>11 DEF Request, Counts, Mid, Final, Pending
  <2>3. ~Pending'
    BY <1>11, <2>2 DEF Request, Pending
  <2> QED
    BY <2>3 DEF Fits
<1>12. CASE SendBody
  BY <1>12 DEF SendBody, history, Fits, Mid, Pending, Reply, Verb
<1>13. CASE BodySent
  BY <1>13 DEF BodySent, history, Fits, Mid, Pending, Reply, Verb
<1>14. CASE ReadStatus
  <2>1. pc = "status" /\ sent' = sent
    BY <1>14 DEF ReadStatus
  <2>2. CASE pc' \in {"failed", "killed", "ask"}
    BY <2>2 DEF Fits, Mid
  <2>3. CASE UNCHANGED <<todo, taken>>
    BY <2>1, <2>3, Zenon DEF Fits, Mid, Pending, Reply, Verb
  <2> QED
    BY <1>14, <2>2, <2>3, StatusRead
<1>15. CASE ReadBody
  BY <1>15 DEF ReadBody, history, Fits, Mid, Pending, Reply, Verb
<1>16. CASE SinkFails
  BY <1>16 DEF SinkFails, GiveUp, Close, Fits, Mid
<1>17. CASE BodyRead
  <2>1. pc' \in {"failed", "killed", "ask"}
    BY <1>17, BodyWhole
  <2> QED
    BY <2>1 DEF Fits, Mid
<1>18. CASE Finish
  BY <1>18 DEF Finish, Close, Fits, Mid
<1>19. CASE pc \notin Final /\ Greets
  BY <1>19 DEF Greets, history, Fits, Mid, Pending, Reply, Verb
<1>20. CASE pc \notin Final /\ HearsGreeting
  BY <1>20 DEF HearsGreeting, history, Fits, Mid, Pending, Reply, Verb
<1>21. CASE pc \notin Final /\ HearsRequest
  <2>1. /\ pc \in {"upload", "status"} /\ ~Pending /\ up[1] = Verb
        /\ UNCHANGED <<taken, pc, todo>> /\ Verb' = Verb
    BY <1>21, HearsRequestWhen DEF HearsRequest, Verb
  <2>2. CASE sent' = sent
    BY <2>1, <2>2, Zenon DEF Fits, Pending
  <2>3. CASE Verb # "kango"
    <3>1. PICK r \in Replies : (Verb # "archive" => r.sema = <<>>) /\ Answers(Verb, r)
      BY <1>21, <2>1, <2>3 DEF HearsRequest
    <3>2. Reply' = r
      BY <2>1, <3>1, Answered DEF Answers
    <3>3. Verb \in {"kalit", "kango"} /\ r.si => r = Plain(TRUE)
      BY <3>1, WholeReply
    <3> QED
      BY <2>1, <3>1, <3>2, <3>3 DEF Fits
  <2> QED
    BY <1>21, <2>1, <2>2, <2>3 DEF HearsRequest
<1>22. CASE pc \notin Final /\ HearsUpload
  BY <1>22 DEF HearsUpload, history, Fits, Mid, Pending, Reply, Verb
<1>23. CASE pc \notin Final /\ Publishes
  <2>1. /\ pc \in {"upload", "status"} /\ ~Pending /\ Verb = "kango"
        /\ UNCHANGED <<taken, pc, todo>> /\ Verb' = Verb
    BY <1>23, UploadWhen DEF Publishes, Verb
  <2>2. PICK r \in Replies : r.sema = <<>> /\ Answers("kango", r)
    BY <1>23 DEF Publishes
  <2>3. Reply' = r
    BY <2>1, <2>2, Answered DEF Answers
  <2>4. r.si => r = Plain(TRUE)
    BY <2>2, WholeReply
  <2> QED
    BY <2>1, <2>3, <2>4 DEF Fits
<1>24. CASE pc \notin Final /\ Leaves
  BY <1>24 DEF Leaves, history, Fits, Mid, Pending, Reply, Verb
<1>25. CASE Over
  BY <1>25 DEF Over, vars, Fits, Mid, Final
<1>26. CASE UNCHANGED vars
  BY <1>26 DEF vars, history, Fits, Mid, Pending, Reply, Verb
<1> QED
  BY <1>1, <1>2, <1>3, <1>4, <1>5, <1>6, <1>7, <1>8, <1>9, <1>10, <1>11, <1>12, <1>13,
     <1>14, <1>15, <1>16,
     <1>17, <1>18, <1>19, <1>20, <1>21, <1>22, <1>23, <1>24, <1>25, <1>26
   DEF Next, Client, Registry

\* What has been read of a body.
LEMMA BodyStep ==
  ASSUME TypeOK, Types, Counts, Stream, BodySoFar, Fits, Talk, [Next]_vars
  PROVE  BodySoFar'
<1>1. CASE Dial
  BY <1>1 DEF Dial, BodySoFar
<1>2. CASE Refill
  BY <1>2 DEF Refill, history, BodySoFar, Reply, Verb
<1>3. CASE RefillFails
  BY <1>3 DEF RefillFails, GiveUp, Close, BodySoFar
<1>4. CASE LineFails
  BY <1>4 DEF LineFails, GiveUp, Close, BodySoFar
<1>5. CASE WriteKills
  BY <1>5 DEF WriteKills, BodySoFar
<1>6. CASE WriteFails
  BY <1>6 DEF WriteFails, GiveUp, Close, BodySoFar
<1>7. CASE ReadGreeting
  BY <1>7 DEF ReadGreeting, Close, BodySoFar
<1>8. CASE WriteGreeting
  BY <1>8 DEF WriteGreeting, BodySoFar
<1>9. CASE ReadCaps
  BY <1>9 DEF ReadCaps, Close, BodySoFar
<1>10. CASE Refrain
  BY <1>10 DEF Refrain, GiveUp, Close, BodySoFar
<1>11. CASE Request
  BY <1>11 DEF Request, AfterRequest, BodySoFar
<1>12. CASE SendBody
  BY <1>12 DEF SendBody, BodySoFar
<1>13. CASE BodySent
  BY <1>13 DEF BodySent, memory, BodySoFar
<1>14. CASE ReadStatus
  <2>1. pc = "status" /\ st' = Said /\ UNCHANGED <<out, sent>>
    BY <1>14 DEF ReadStatus
  <2>2. CASE pc' \in {"failed", "killed", "ask"}
    BY <2>2 DEF BodySoFar
  <2>3. ASSUME NEW r \in Replies, r = Reply, r.si, Said = Words(r), r.body # None,
               Verb \in {"text", "archive"}, pc' = "body", UNCHANGED <<todo, taken>>
        PROVE  BodySoFar'
    <3>1. Reply' = r /\ Verb' = Verb /\ st'.si
      BY <2>1, <2>3 DEF Reply, Verb, Words
    <3>2. out = <<>> /\ Len(out) = 0
      BY <2>1 DEF BodySoFar
    <3>3. r.body \in Seq(Octet) /\ Len(r.body) \in Nat
      <4>1. r.body \in Seq(Octet)
        BY <2>3, ReplyOctets DEF BodyOf
      <4> QED
        BY <4>1, LenProperties
    <3>4. SubSeq(r.body, 1, 0) = <<>>
      <4>1. 0 \in 0..Len(r.body)
        OBVIOUS
      <4>2. SubSeq(r.body, 1, 0) \in Seq(Octet) /\ Len(SubSeq(r.body, 1, 0)) = 0
        OBVIOUS
      <4> QED
        BY <4>2, EmptySeq
    <3> QED
      BY <2>1, <2>3, <3>1, <3>2, <3>3, <3>4 DEF BodySoFar
  <2> QED
    BY <1>14, <2>2, <2>3, StatusRead
<1>15. CASE ReadBody
  <2>1. PICK r \in Replies :
           /\ r = Reply /\ r.body # None
           /\ out' \in Seq(Octet) /\ Len(out') <= Len(r.body) /\ Len(out') <= st.n
           /\ out' = SubSeq(r.body, 1, Len(out'))
    BY <1>15, BodyKeeps
  <2>2. pc = "body" /\ UNCHANGED <<pc, st, todo>> /\ Reply' = Reply /\ Verb' = Verb
    BY <1>15 DEF ReadBody, history, Reply, Verb
  <2> QED
    BY <2>1, <2>2 DEF BodySoFar
<1>16. CASE SinkFails
  BY <1>16 DEF SinkFails, GiveUp, Close, BodySoFar
<1>17. CASE BodyRead
  <2>1. pc' \in {"failed", "killed", "ask"}
    BY <1>17, BodyWhole
  <2> QED
    BY <2>1 DEF BodySoFar
<1>18. CASE Finish
  BY <1>18 DEF Finish, Close, BodySoFar
<1>19. CASE pc \notin Final /\ Greets
  BY <1>19 DEF Greets, memory, history, BodySoFar, Reply, Verb
<1>20. CASE pc \notin Final /\ HearsGreeting
  BY <1>20 DEF HearsGreeting, memory, history, BodySoFar, Reply, Verb
<1>21. CASE pc \notin Final /\ HearsRequest
  <2>1. pc \in {"upload", "status"} /\ UNCHANGED <<pc, out>>
    BY <1>21, HearsRequestWhen DEF HearsRequest, memory
  <2> QED
    BY <2>1 DEF BodySoFar
<1>22. CASE pc \notin Final /\ HearsUpload
  BY <1>22 DEF HearsUpload, memory, history, BodySoFar, Reply, Verb
<1>23. CASE pc \notin Final /\ Publishes
  <2>1. pc \in {"upload", "status"} /\ UNCHANGED <<pc, out>>
    BY <1>23, UploadWhen DEF Publishes, memory
  <2> QED
    BY <2>1 DEF BodySoFar
<1>24. CASE pc \notin Final /\ Leaves
  BY <1>24 DEF Leaves, memory, history, BodySoFar, Reply, Verb
<1>25. CASE Over
  BY <1>25 DEF Over, vars, memory, history, BodySoFar, Reply, Verb
<1>26. CASE UNCHANGED vars
  BY <1>26 DEF vars, memory, history, BodySoFar, Reply, Verb
<1> QED
  BY <1>1, <1>2, <1>3, <1>4, <1>5, <1>6, <1>7, <1>8, <1>9, <1>10, <1>11, <1>12, <1>13,
     <1>14, <1>15, <1>16,
     <1>17, <1>18, <1>19, <1>20, <1>21, <1>22, <1>23, <1>24, <1>25, <1>26
   DEF Next, Client, Registry

\* There is one upload.
LEMMA UploadsStep ==
  ASSUME TypeOK, Types, Counts, Stream, BodySoFar, Fits, Talk, Uploads, [Next]_vars
  PROVE  Uploads'
<1>1. CASE Dial
  BY <1>1 DEF Dial, memory, Uploads, Mid, Final
<1>2. CASE Refill
  BY <1>2 DEF Refill, Uploads, Mid, Verb
<1>3. CASE RefillFails
  BY <1>3 DEF RefillFails, GiveUp, Close, Uploads, Final
<1>4. CASE LineFails
  BY <1>4 DEF LineFails, GiveUp, Close, Uploads, Final
<1>5. CASE WriteKills
  BY <1>5 DEF WriteKills, Uploads, Final
<1>6. CASE WriteFails
  BY <1>6 DEF WriteFails, GiveUp, Close, Uploads, Final
<1>7. CASE ReadGreeting
  BY <1>7 DEF ReadGreeting, Close, Uploads, Mid, Final
<1>8. CASE WriteGreeting
  BY <1>8 DEF WriteGreeting, memory, Uploads, Mid, Final
<1>9. CASE ReadCaps
  BY <1>9 DEF ReadCaps, Close, Uploads, Mid, Final
<1>10. CASE Refrain
  BY <1>10 DEF Refrain, GiveUp, Close, Uploads, Final
<1>11. CASE Request
  <2>1. pc' = IF Verb = "kango" THEN "upload" ELSE "status"
    BY <1>11 DEF Request, AfterRequest
  <2>2. Verb = "kango" => left = Upload
    BY <1>11, UploadWhole DEF Request
  <2>3. UNCHANGED <<todo, left>> /\ pc = "ask"
    BY <1>11 DEF Request
  <2> QED
    BY <2>1, <2>2, <2>3 DEF Uploads, Mid, Final, Verb
<1>12. CASE SendBody
  BY <1>12 DEF SendBody, Uploads, Mid, Verb
<1>13. CASE BodySent
  BY <1>13 DEF BodySent, memory, Uploads, Mid, Final
<1>14. CASE ReadStatus
  <2>1. pc = "status" /\ todo # <<>> /\ left' = left
    BY <1>14 DEF ReadStatus, Counts, Mid
  <2>2. CASE UNCHANGED <<todo, taken>> /\ pc' \in {"failed", "killed", "body"}
    BY <2>1, <2>2 DEF Uploads, Mid, Final
  <2>3. ASSUME NEW r \in Replies, taken' = Append(taken, r), todo' = Tail(todo), pc' = "ask"
        PROVE  Uploads'
    BY <2>1, <2>3, UploadsTail DEF Final
  <2> QED
    BY <1>14, <2>2, <2>3, StatusRead
<1>15. CASE ReadBody
  BY <1>15 DEF ReadBody, Uploads, Mid
<1>16. CASE SinkFails
  BY <1>16 DEF SinkFails, GiveUp, Close, Uploads, Final
<1>17. CASE BodyRead
  <2>1. pc = "body" /\ todo # <<>> /\ left' = left
    BY <1>17 DEF BodyRead, Counts, Mid, memory
  <2>2. CASE UNCHANGED <<todo, taken>> /\ pc' \in {"failed", "killed"}
    BY <2>2 DEF Uploads, Final
  <2>3. ASSUME NEW r \in Replies, taken' = Append(taken, r), todo' = Tail(todo), pc' = "ask"
        PROVE  Uploads'
    BY <2>1, <2>3, UploadsTail DEF Final
  <2> QED
    BY <1>17, <2>2, <2>3, BodyWhole
<1>18. CASE Finish
  BY <1>18 DEF Finish, Close, Uploads
<1>19. CASE pc \notin Final /\ Greets
  BY <1>19 DEF Greets, memory, Uploads, Mid, Verb
<1>20. CASE pc \notin Final /\ HearsGreeting
  BY <1>20 DEF HearsGreeting, memory, Uploads, Mid, Verb
<1>21. CASE pc \notin Final /\ HearsRequest
  BY <1>21 DEF HearsRequest, memory, Uploads, Mid, Verb
<1>22. CASE pc \notin Final /\ HearsUpload
  BY <1>22 DEF HearsUpload, memory, Uploads, Mid, Verb
<1>23. CASE pc \notin Final /\ Publishes
  BY <1>23 DEF Publishes, memory, Uploads, Mid, Verb
<1>24. CASE pc \notin Final /\ Leaves
  BY <1>24 DEF Leaves, memory, Uploads, Mid, Verb
<1>25. CASE Over
  BY <1>25 DEF Over, vars, Uploads, Final
<1>26. CASE UNCHANGED vars
  BY <1>26 DEF vars, memory, Uploads, Mid, Verb
<1> QED
  BY <1>1, <1>2, <1>3, <1>4, <1>5, <1>6, <1>7, <1>8, <1>9, <1>10, <1>11, <1>12, <1>13,
     <1>14, <1>15, <1>16,
     <1>17, <1>18, <1>19, <1>20, <1>21, <1>22, <1>23, <1>24, <1>25, <1>26
   DEF Next, Client, Registry

\* Who waits for whom.
LEMMA TalkStep ==
  ASSUME TypeOK, Types, Counts, Stream, BodySoFar, Fits, Talk, Uploads, [Next]_vars
  PROVE  Talk'
<1>1. CASE Dial
  BY <1>1 DEF Dial, registry, Talk
<1>2. CASE Refill
  BY <1>2 DEF Refill, registry, history, Talk, Pending, Verb
<1>3. CASE RefillFails
  BY <1>3 DEF RefillFails, GiveUp, Close, Talk
<1>4. CASE LineFails
  BY <1>4 DEF LineFails, GiveUp, Close, Talk
<1>5. CASE WriteKills
  BY <1>5 DEF WriteKills, Talk
<1>6. CASE WriteFails
  BY <1>6 DEF WriteFails, GiveUp, Close, Talk
<1>7. CASE ReadGreeting
  <2>1. /\ pc = "greeting" /\ UNCHANGED <<srv, up, peer>>
        /\ pc' \in {"failed", "killed"} \/ (pc' = "greet" /\ Said.si)
    BY <1>7 DEF ReadGreeting, Close, registry
  <2>2. CASE pc' \in {"failed", "killed"}
    BY <2>2 DEF Talk
  <2>3. CASE pc' = "greet" /\ Said.si
    <3>1. srv = "hello"
      BY <1>7, <2>3, GreetingLine
    <3> QED
      BY <2>1, <2>3, <3>1 DEF Talk
  <2> QED
    BY <2>1, <2>2, <2>3
<1>8. CASE WriteGreeting
  <2>1. /\ peer' = "open" <=> peer = "open"
        /\ peer = "open" => up' = up \o <<"hello">>
    <3>1. <<"hello">> \in Seq(Verbs \cup {"hello", "octet"})
      OBVIOUS
    <3> QED
      BY <1>8, <3>1, PutKeeps DEF WriteGreeting, memory
  <2>2. pc = "greet" /\ pc' = "caps" /\ srv' = srv
    BY <1>8 DEF WriteGreeting, registry
  <2>3. <<>> \o <<"hello">> = <<"hello">>
    OBVIOUS
  <2> QED
    BY <2>1, <2>2, <2>3 DEF Talk
<1>9. CASE ReadCaps
  <2>1. /\ pc = "caps" /\ UNCHANGED <<srv, up, peer>>
        /\ pc' \in {"failed", "killed"} \/ (pc' = "ask" /\ Said.si)
    BY <1>9 DEF ReadCaps, Close, registry
  <2>2. CASE pc' \in {"failed", "killed"}
    BY <2>2 DEF Talk
  <2>3. CASE pc' = "ask" /\ Said.si
    <3>1. srv = "ready"
      BY <1>9, <2>3, CapsLineRead
    <3> QED
      BY <2>1, <2>3, <3>1 DEF Talk
  <2> QED
    BY <2>1, <2>2, <2>3
<1>10. CASE Refrain
  BY <1>10 DEF Refrain, GiveUp, Close, Talk
<1>11. CASE Request
  <2>1. /\ peer' = "open" <=> peer = "open"
        /\ peer = "open" => up' = up \o <<Verb>>
    BY <1>11, VerbType, PutKeeps DEF Request
  <2>2. /\ pc = "ask" /\ pc' \in {"upload", "status"} /\ UNCHANGED <<srv, todo, left, sent, taken>>
        /\ todo # <<>>
    BY <1>11 DEF Request, AfterRequest, registry
  <2>3. ~Pending'
    <3>1. Len(taken) \in Nat /\ Len(sent) \in Nat
      OBVIOUS
    <3> QED
      BY <2>2, <3>1 DEF Counts, Mid, Final, Pending
  <2>4. Verb = "kango" => left = Upload
    BY <2>2, UploadWhole
  <2>5. peer = "open" => srv = "ready" /\ up' = <<Verb>>
    <3>1. <<>> \o <<Verb>> = <<Verb>>
      OBVIOUS
    <3> QED
      BY <2>1, <2>2, <3>1 DEF Talk
  <2>6. Verb' = Verb
    BY <2>2 DEF Verb
  <2>7. peer = "open" => /\ up' # <<>> /\ up'[1] = Verb /\ Len(up') = 1
    BY <2>5
  <2> QED
    BY <2>1, <2>2, <2>3, <2>4, <2>5, <2>6, <2>7, KatareAssumption DEF Talk
<1>12. CASE SendBody
  <2>1. PICK k \in 1..left : Put([j \in 1..k |-> "octet"]) /\ left' = left - k
    BY <1>12 DEF SendBody
  <2>2. k \in Nat /\ k > 0 /\ left \in 0..Upload /\ Upload \in Nat
    BY KatareAssumption DEF TypeOK
  <2> DEFINE xs == [j \in 1..k |-> "octet"]
  <2>3. xs \in Seq(Verbs \cup {"hello", "octet"}) /\ Len(xs) = k /\ \A i \in 1..k : xs[i] = "octet"
    OBVIOUS
  <2> HIDE DEF xs
  <2>4. /\ peer' = "open" <=> peer = "open"
        /\ peer = "open" => up' = up \o xs
    BY <1>12, <2>1, <2>3, PutKeeps DEF SendBody
  <2>5. /\ pc = "upload" /\ pc' = pc /\ UNCHANGED <<srv, owed, todo, sent, taken>> /\ Verb = "kango"
        /\ left > 0
    BY <1>12 DEF SendBody, registry, history, Uploads
  <2>6. Verb' = Verb /\ (Pending' <=> Pending)
    BY <2>5 DEF Verb, Pending
  <2>7. up \in Seq(Verbs \cup {"hello", "octet"}) /\ Len(up) \in Nat
    BY DEF Types
  <2>8. /\ Len(up \o xs) = Len(up) + k
        /\ \A i \in 1..Len(up) : (up \o xs)[i] = up[i]
        /\ \A i \in 1..k : (up \o xs)[Len(up) + i] = "octet"
        /\ up \o xs \in Seq(Verbs \cup {"hello", "octet"})
    <3>1. xs \in Seq(Verbs \cup {"hello", "octet"}) /\ up \in Seq(Verbs \cup {"hello", "octet"})
      BY <2>3, <2>7
    <3>2. /\ Len(up \o xs) = Len(up) + Len(xs)
          /\ \A i \in 1..Len(up) : (up \o xs)[i] = up[i]
          /\ \A i \in 1..Len(xs) : (up \o xs)[Len(up) + i] = xs[i]
          /\ up \o xs \in Seq(Verbs \cup {"hello", "octet"})
      BY <3>1
    <3> QED
      BY <2>3, <3>2
  <2>9. ASSUME NEW m \in Nat, m > 0, \A j \in m..Len(up) : up[j] = "octet"
        PROVE  \A j \in m..Len(up \o xs) : (up \o xs)[j] = "octet"
    <3> SUFFICES ASSUME NEW j \in m..Len(up) + k PROVE (up \o xs)[j] = "octet"
      BY <2>8
    <3>1. CASE j \in 1..Len(up)
      BY <2>8, <2>9
    <3>2. CASE j \notin 1..Len(up)
      <4> DEFINE i == j - Len(up)
      <4>1. i \in 1..k /\ j = Len(up) + i
        BY <2>9, <3>2
      <4> HIDE DEF i
      <4> QED
        BY <2>8, <4>1
    <3> QED
      BY <3>1, <3>2
  <2>10. ASSUME peer = "open", srv = "ready", up # <<>>, up[1] = Verb,
                \A j \in 2..Len(up) : up[j] = "octet", Len(up) - 1 = Upload - left
         PROVE  /\ up' # <<>> /\ up'[1] = Verb
                /\ \A j \in 2..Len(up') : up'[j] = "octet"
                /\ Len(up') - 1 = Upload - left'
    <3>1. Len(up) > 0 /\ up' = up \o xs
      BY <2>4, <2>10
    <3>2. up'[1] = Verb /\ Len(up') - 1 = Upload - left' /\ Len(up') > 0
      <4>1. up'[1] = Verb
        BY <2>10, <3>1
      <4>2. Len(up') = Len(up) + k /\ left' = left - k
        BY <2>1, <2>8, <3>1
      <4>3. Len(up) - 1 = Upload - left /\ Len(up) > 0
        BY <2>10
      <4>4. Len(up') - 1 = Upload - left' /\ Len(up') > 0
        BY <2>2, <4>2, <4>3
      <4> QED
        BY <4>1, <4>4, Zenon
    <3>3. \A j \in 2..Len(up \o xs) : (up \o xs)[j] = "octet"
      BY <2>9, <2>10
    <3>4. up' # <<>>
      <4>1. Len(<<>>) = 0
        OBVIOUS
      <4> QED
        BY <3>2, <4>1
    <3> QED
      BY <3>1, <3>2, <3>3, <3>4, Zenon
  <2>11. ASSUME peer = "open", \A j \in 1..Len(up) : up[j] = "octet", owed = Len(up) + left
         PROVE  (\A j \in 1..Len(up') : up'[j] = "octet") /\ owed = Len(up') + left'
    <3>1. up' = up \o xs
      BY <2>4, <2>11
    <3>2. \A j \in 1..Len(up \o xs) : (up \o xs)[j] = "octet"
      BY <2>9, <2>11
    <3>3. owed = Len(up') + left'
      <4>1. Len(up') = Len(up) + k /\ left' = left - k
        BY <2>1, <2>8, <3>1
      <4> QED
        BY <2>2, <2>7, <2>11, <4>1
    <3> QED
      BY <3>1, <3>2, <3>3, Zenon
  <2>12. CASE peer # "open"
    BY <2>4, <2>5, <2>12 DEF Talk
  <2>13. CASE peer = "open"
    <3>1. \/ /\ ~Pending /\ srv = "ready" /\ up # <<>> /\ up[1] = Verb
             /\ \A j \in 2..Len(up) : up[j] = "octet"
             /\ Len(up) - 1 = Upload - left
          \/ /\ ~Pending /\ srv = "upload"
             /\ \A j \in 1..Len(up) : up[j] = "octet"
             /\ owed = Len(up) + left
      BY <2>5, <2>13 DEF Talk
    <3>2. CASE /\ ~Pending /\ srv = "ready" /\ up # <<>> /\ up[1] = Verb
               /\ \A j \in 2..Len(up) : up[j] = "octet"
               /\ Len(up) - 1 = Upload - left
      BY <2>5, <2>6, <2>10, <2>13, <3>2 DEF Talk
    <3>3. CASE /\ ~Pending /\ srv = "upload"
               /\ \A j \in 1..Len(up) : up[j] = "octet"
               /\ owed = Len(up) + left
      BY <2>5, <2>6, <2>11, <2>13, <3>3 DEF Talk
    <3> QED
      BY <3>1, <3>2, <3>3
  <2> QED
    BY <2>12, <2>13
<1>13. CASE BodySent
  BY <1>13 DEF BodySent, registry, memory, history, Talk, Pending, Verb
<1>14. CASE ReadStatus
  <2>1. pc = "status" /\ UNCHANGED <<srv, up, peer>>
    BY <1>14 DEF ReadStatus, registry
  <2>2. CASE pc' \in {"failed", "killed"}
    BY <2>2 DEF Talk
  <2>3. CASE Pending /\ pc' \in {"body", "ask"}
    BY <2>1, <2>3 DEF Talk
  <2> QED
    BY <1>14, <2>2, <2>3, StatusRead
<1>15. CASE ReadBody
  BY <1>15 DEF ReadBody, registry, Talk
<1>16. CASE SinkFails
  BY <1>16 DEF SinkFails, GiveUp, Close, Talk
<1>17. CASE BodyRead
  <2>1. pc = "body" /\ UNCHANGED <<srv, up, peer>> /\ pc' \in {"failed", "killed", "ask"}
    BY <1>17, BodyWhole DEF BodyRead, registry
  <2> QED
    BY <2>1 DEF Talk
<1>18. CASE Finish
  BY <1>18 DEF Finish, Close, Talk
<1>19. CASE pc \notin Final /\ Greets
  BY <1>19 DEF Greets, Talk
<1>20. CASE pc \notin Final /\ HearsGreeting
  <2>1. pc = "caps" /\ up = <<"hello">> /\ UNCHANGED <<pc, peer>> /\ srv' = "ready" /\ up' = Tail(up)
    BY <1>20, HearsGreetingWhen DEF HearsGreeting
  <2>2. up' = <<>>
    BY <2>1
  <2> QED
    BY <2>1, <2>2 DEF Talk
<1>21. CASE pc \notin Final /\ HearsRequest
  <2>1. /\ pc \in {"upload", "status"} /\ ~Pending /\ up[1] = Verb /\ up # <<>>
        /\ \A j \in 2..Len(up) : up[j] = "octet"
        /\ Len(up) - 1 = IF Verb = "kango" THEN Upload - left ELSE 0
        /\ UNCHANGED <<peer, pc, todo, left, taken>> /\ up' = Tail(up)
    BY <1>21, HearsRequestWhen DEF HearsRequest, memory
  <2>2. /\ up \in Seq(Verbs \cup {"hello", "octet"}) /\ Len(up) \in Nat
        /\ Len(up') = Len(up) - 1 /\ \A j \in 1..Len(up) - 1 : up'[j] = up[j + 1]
        /\ up' \in Seq(Verbs \cup {"hello", "octet"})
    BY <2>1 DEF Types
  <2>3. Verb' = Verb
    BY <2>1 DEF Verb
  <2>4. CASE Verb = "kango"
    <3>1. srv' = "upload" /\ owed' = Upload /\ sent' = sent
      BY <1>21, <2>1, <2>4 DEF HearsRequest
    <3>2. \A j \in 1..Len(up') : up'[j] = "octet"
      <4> SUFFICES ASSUME NEW j \in 1..Len(up') PROVE up'[j] = "octet"
        OBVIOUS
      <4>1. j \in 1..Len(up) - 1 /\ j + 1 \in 2..Len(up)
        BY <2>2
      <4> QED
        BY <2>1, <2>2, <4>1
    <3>3. owed' = Len(up') + left'
      BY <2>1, <2>4, <3>1, KatareAssumption DEF TypeOK
    <3>4. ~Pending'
      BY <2>1, <3>1 DEF Pending
    <3> QED
      BY <2>1, <2>3, <2>4, <3>1, <3>2, <3>3, <3>4 DEF Talk
  <2>5. CASE Verb # "kango"
    <3>1. srv' = "ready" /\ Pending'
      BY <1>21, <2>1, <2>5, Answered DEF HearsRequest, Answers, registry
    <3>2. up' = <<>>
      BY <2>1, <2>2, <2>5
    <3> QED
      BY <2>1, <2>3, <2>5, <3>1, <3>2 DEF Talk
  <2> QED
    BY <2>4, <2>5
<1>22. CASE pc \notin Final /\ HearsUpload
  <2>1. /\ pc \in {"upload", "status"} /\ ~Pending /\ Verb = "kango" /\ up # <<>>
        /\ \A j \in 1..Len(up) : up[j] = "octet"
        /\ owed = Len(up) + left /\ owed' = owed - 1 /\ srv = "upload"
        /\ UNCHANGED <<peer, pc, todo, left, taken, sent, srv>> /\ up' = Tail(up)
    BY <1>22, UploadWhen DEF HearsUpload, memory, history
  <2>2. /\ up \in Seq(Verbs \cup {"hello", "octet"}) /\ Len(up) \in Nat
        /\ Len(up') = Len(up) - 1 /\ \A j \in 1..Len(up) - 1 : up'[j] = up[j + 1]
    BY <2>1 DEF Types
  <2>3. Verb' = Verb /\ ~Pending'
    BY <2>1 DEF Verb, Pending
  <2>4. \A j \in 1..Len(up') : up'[j] = "octet"
    BY <2>1
  <2>5. owed' = Len(up') + left'
    BY <2>1 DEF TypeOK
  <2> QED
    BY <2>1, <2>3, <2>4, <2>5 DEF Talk
<1>23. CASE pc \notin Final /\ Publishes
  <2>1. /\ pc \in {"upload", "status"} /\ ~Pending /\ Verb = "kango"
        /\ owed = Len(up) + left /\ owed = 0 /\ srv' = "ready"
        /\ UNCHANGED <<peer, pc, todo, left, taken, up>>
    BY <1>23, UploadWhen DEF Publishes, memory
  <2>2. up = <<>> /\ left = 0
    <3>1. Len(up) \in Nat /\ left \in Nat /\ up \in Seq(Verbs \cup {"hello", "octet"})
      BY DEF Types, TypeOK
    <3> QED
      BY <2>1, <3>1, EmptySeq
  <2>3. Pending'
    BY <1>23, <2>1, Answered DEF Publishes, Answers
  <2> QED
    BY <2>1, <2>2, <2>3 DEF Talk
<1>24. CASE pc \notin Final /\ Leaves
  BY <1>24 DEF Leaves, registry, Talk
<1>25. CASE Over
  BY <1>25 DEF Over, vars, registry, memory, history, Talk, Pending, Verb
<1>26. CASE UNCHANGED vars
  BY <1>26 DEF vars, registry, memory, history, Talk, Pending, Verb
<1> QED
  BY <1>1, <1>2, <1>3, <1>4, <1>5, <1>6, <1>7, <1>8, <1>9, <1>10, <1>11, <1>12, <1>13,
     <1>14, <1>15, <1>16,
     <1>17, <1>18, <1>19, <1>20, <1>21, <1>22, <1>23, <1>24, <1>25, <1>26
   DEF Next, Client, Registry

\* What is unread is what is due.
LEMMA StreamStep ==
  ASSUME TypeOK, Types, Counts, Stream, BodySoFar, Fits, Talk, [Next]_vars
  PROVE  Stream'
<1>1. CASE Dial
  <2>1. CASE pc' = "failed"
    BY <2>1 DEF Stream, Final
  <2>2. CASE pc' = "greeting"
    <3>1. Due' = Due /\ pc \notin Final
      BY <1>1, <2>2 DEF Dial, registry, Due, Final
    <3>2. UNCHANGED <<buf, off, wire, peer>>
      BY <1>1 DEF Dial, memory
    <3> QED
      BY <3>1, <3>2, SameStream, StreamKept
  <2> QED
    BY <1>1, <2>1, <2>2 DEF Dial
<1>2. CASE Refill
  <2>1. Unread' = Unread /\ UNCHANGED <<pc, srv, out, sent, taken, peer>> /\ pc \notin Final
    BY <1>2, RefillKeeps DEF Refill, Wants, registry, history, Final
  <2>2. \A due : In(due) => In(due)'
    BY <2>1 DEF In
  <2> QED
    BY <2>1, <2>2, DueKept, StreamKept
<1>3. CASE RefillFails
  <2>1. pc' \in Final
    BY <1>3 DEF RefillFails, GiveUp, Close, Final
  <2> QED
    BY <2>1 DEF Stream
<1>4. CASE LineFails
  <2>1. pc' \in Final
    BY <1>4 DEF LineFails, GiveUp, Close, Final
  <2> QED
    BY <2>1 DEF Stream
<1>5. CASE WriteKills
  <2>1. pc' \in Final
    BY <1>5 DEF WriteKills, Final
  <2> QED
    BY <2>1 DEF Stream
<1>6. CASE WriteFails
  <2>1. pc' \in Final
    BY <1>6 DEF WriteFails, GiveUp, Close, Final
  <2> QED
    BY <2>1 DEF Stream
<1>7. CASE ReadGreeting
  <2>1. CASE Said.si
    <3>1. In(<<>>)' /\ pc' = "greet"
      BY <1>7, <2>1, GreetingLine DEF ReadGreeting
    <3> QED
      BY <3>1, AllRead
  <2>2. CASE ~Said.si
    BY <1>7, <2>2 DEF ReadGreeting, Close, Stream, Final
  <2> QED
    BY <2>1, <2>2
<1>8. CASE WriteGreeting
  <2>1. /\ pc = "greet" /\ pc' = "caps" /\ UNCHANGED <<srv, buf, off>> /\ Put(<<"hello">>)
    BY <1>8 DEF WriteGreeting, registry, memory
  <2>2. <<"hello">> \in Seq(Verbs \cup {"hello", "octet"})
    OBVIOUS
  <2>3. In(<<>>)
    BY <2>1, NothingDue DEF Final
  <2>4. Due' = {<<>>}
    BY <2>1 DEF Due, Talk
  <2> QED
    BY <2>1, <2>2, <2>3, <2>4, Written
<1>9. CASE ReadCaps
  <2>1. CASE Said.si
    <3>1. In(<<>>)' /\ pc' = "ask"
      BY <1>9, <2>1, CapsLineRead DEF ReadCaps
    <3> QED
      BY <3>1, AllRead
  <2>2. CASE ~Said.si
    BY <1>9, <2>2 DEF ReadCaps, Close, Stream, Final
  <2> QED
    BY <2>1, <2>2
<1>10. CASE Refrain
  <2>1. pc' \in Final
    BY <1>10 DEF Refrain, GiveUp, Close, Final
  <2> QED
    BY <2>1 DEF Stream
<1>11. CASE Request
  <2>1. /\ pc = "ask" /\ pc' \in {"upload", "status"} /\ UNCHANGED <<sent, taken, buf, off>>
        /\ Put(<<Verb>>) /\ <<Verb>> \in Seq(Verbs \cup {"hello", "octet"})
    BY <1>11, VerbType DEF Request, AfterRequest
  <2>2. In(<<>>)
    BY <2>1, NothingDue DEF Final
  <2>3. ~Pending'
    <3>1. Len(taken) \in Nat /\ Len(sent) \in Nat
      OBVIOUS
    <3> QED
      BY <2>1, <3>1 DEF Counts, Mid, Final, Pending
  <2>4. Due' = {<<>>}
    BY <2>1, <2>3 DEF Due
  <2> QED
    BY <2>1, <2>2, <2>4, Written
<1>12. CASE SendBody
  <2>1. PICK k \in 1..left : Put([j \in 1..k |-> "octet"])
    BY <1>12 DEF SendBody
  <2>2. k \in Nat
    OBVIOUS
  <2>3. [j \in 1..k |-> "octet"] \in Seq(Verbs \cup {"hello", "octet"})
    OBVIOUS
  <2>4. UNCHANGED <<pc, srv, out, sent, taken, buf, off>> /\ pc \notin Final
    BY <1>12 DEF SendBody, registry, history, Final
  <2>5. \A due \in Seq(Octet) : In(due) => In(due)'
    BY <2>1, <2>4, PutKeeps
  <2> QED
    BY <2>4, <2>5, DueKept, StreamKept
<1>13. CASE BodySent
  <2>1. /\ UNCHANGED <<srv, out, sent, taken, buf, off, wire, peer>>
        /\ pc = "upload" /\ pc' = "status"
    BY <1>13 DEF BodySent, registry, memory, history
  <2>2. Due' = Due
    BY <2>1 DEF Due, Pending, Reply
  <2> QED
    BY <2>1, <2>2, SameStream, StreamKept DEF Final
<1>14. CASE ReadStatus
  <2>1. CASE pc' \in {"failed", "killed"}
    BY <2>1 DEF Stream, Final
  <2>2. ASSUME NEW r \in Replies, r = Reply, In(r.body)', r.body # None, pc' = "body"
        PROVE  Stream'
    <3>1. Reply' = r /\ Len(out') = 0
      <4>1. out' = <<>>
        BY <1>14 DEF ReadStatus, BodySoFar
      <4>2. Len(<<>>) = 0
        OBVIOUS
      <4> QED
        BY <1>14, <2>2, <4>1, <4>2 DEF ReadStatus, Reply
    <3>2. SubSeq(r.body, 0 + 1, Len(r.body)) = r.body
      <4>1. r.body \in Seq(Octet)
        BY <2>2, ReplyOctets DEF BodyOf
      <4> QED
        BY <4>1, SubSeqFull
    <3>3. Due' = {r.body}
      BY <2>2, <3>1, <3>2 DEF Due
    <3> QED
      BY <2>2, <3>3 DEF Stream
  <2>3. ASSUME In(<<>>)', pc' = "ask" PROVE Stream'
    BY <2>3, AllRead
  <2>4. PICK r \in Replies : \/ pc' \in {"failed", "killed"}
                             \/ /\ r = Reply /\ In(BodyOf(r))'
                                /\ \/ r.body # None /\ BodyOf(r) = r.body /\ pc' = "body"
                                   \/ BodyOf(r) = <<>> /\ pc' = "ask"
    BY <1>14, StatusRead, PlainReply
  <2> QED
    BY <2>1, <2>2, <2>3, <2>4
<1>15. CASE ReadBody
  <2>1. PICK r \in Replies : r = Reply /\ In(SubSeq(r.body, Len(out) + 1, Len(r.body)))'
    BY <1>15, BodyKeeps
  <2>2. Reply' = r /\ pc' = "body"
    BY <1>15, <2>1 DEF ReadBody, history, Reply
  <2>3. Due' = {SubSeq(r.body, Len(out') + 1, Len(r.body))}
    BY <2>2 DEF Due
  <2> QED
    BY <2>1, <2>3 DEF Stream
<1>16. CASE SinkFails
  <2>1. pc' \in Final
    BY <1>16 DEF SinkFails, GiveUp, Close, Final
  <2> QED
    BY <2>1 DEF Stream
<1>17. CASE BodyRead
  <2>1. In(<<>>)' /\ pc' \in {"failed", "killed", "ask"}
    BY <1>17, BodyWhole
  <2>2. CASE pc' = "ask"
    BY <2>1, <2>2, AllRead
  <2>3. CASE pc' # "ask"
    BY <2>1, <2>3 DEF Stream, Final
  <2> QED
    BY <2>2, <2>3
<1>18. CASE Finish
  <2>1. pc' \in Final
    BY <1>18 DEF Finish, Close, Final
  <2> QED
    BY <2>1 DEF Stream
<1>19. CASE pc \notin Final /\ Greets
  <2>1. /\ pc \in {"dial", "greeting"} /\ srv = "greet" /\ srv' = "hello" /\ peer = "open"
        /\ UNCHANGED <<pc, buf, off, peer>>
    BY <1>19, GreetsWhen DEF Greets, memory
  <2>2. PICK xs \in Greetings : Say(xs)
    BY <1>19 DEF Greets, Greetings
  <2>3. In(<<>>)
    BY <2>1, NothingDue DEF Final
  <2>4. In(xs)'
    BY <2>1, <2>2, <2>3, GreetingOctets, NowDue
  <2>5. Due' = Greetings
    BY <2>1 DEF Due
  <2>6. Greetings' = Greetings
    OBVIOUS
  <2> QED
    BY <2>2, <2>4, <2>5 DEF Stream
<1>20. CASE pc \notin Final /\ HearsGreeting
  <2>1. /\ pc = "caps" /\ srv = "hello" /\ srv' = "ready" /\ peer = "open"
        /\ UNCHANGED <<pc, buf, off, peer>>
    BY <1>20, HearsGreetingWhen DEF HearsGreeting, memory
  <2>2. PICK c \in Caps : Say(CapsLine(c))
    BY <1>20 DEF HearsGreeting, CapsLine
  <2>3. In(<<>>)
    BY <2>1, NothingDue DEF Final
  <2>4. In(CapsLine(c))'
    BY <2>1, <2>2, <2>3, CapsOctets, NowDue
  <2>5. CapsLine(c) \in Due'
    BY <2>1 DEF Due
  <2> QED
    BY <2>4, <2>5 DEF Stream
<1>21. CASE pc \notin Final /\ HearsRequest
  <2>1. /\ pc \in {"upload", "status"} /\ ~Pending /\ peer = "open"
        /\ UNCHANGED <<pc, out, buf, off, peer, taken>>
    BY <1>21, HearsRequestWhen DEF HearsRequest, memory
  <2>2. CASE up[1] = "kango"
    <3>1. UNCHANGED <<wire, sent>>
      BY <1>21, <2>2 DEF HearsRequest
    <3>2. Due' = Due
      BY <2>1, <3>1 DEF Due, Pending
    <3> QED
      BY <1>21, <2>1, <3>1, <3>2, SameStream, StreamKept
  <2>3. CASE up[1] # "kango"
    <3>1. PICK r \in Replies : Say(Octets(r)) /\ sent' = Append(sent, r)
      BY <1>21, <2>3 DEF HearsRequest, Answers
    <3> QED
      BY <2>1, <3>1, Replied
  <2> QED
    BY <2>2, <2>3
<1>22. CASE pc \notin Final /\ HearsUpload
  <2>1. UNCHANGED <<pc, srv, out, sent, taken, buf, off, wire, peer>>
    BY <1>22 DEF HearsUpload, memory, history
  <2> QED
    BY <1>22, <2>1, DueKept, SameStream, StreamKept
<1>23. CASE pc \notin Final /\ Publishes
  <2>1. /\ pc \in {"upload", "status"} /\ ~Pending /\ peer = "open"
        /\ UNCHANGED <<pc, buf, off, peer, taken>>
    BY <1>23, UploadWhen DEF Publishes, memory
  <2>2. PICK r \in Replies : Say(Octets(r)) /\ sent' = Append(sent, r)
    BY <1>23 DEF Publishes, Answers
  <2> QED
    BY <2>1, <2>2, Replied
<1>24. CASE pc \notin Final /\ Leaves
  <2>1. UNCHANGED <<pc, srv, out, sent, taken>>
    BY <1>24 DEF Leaves, registry, memory, history
  <2>2. \A due \in Seq(Octet) : In(due) => In(due)'
    BY <1>24, LeavesKeeps
  <2> QED
    BY <1>24, <2>1, <2>2, DueKept, StreamKept
<1>25. CASE Over
  <2>1. pc' \in Final
    BY <1>25 DEF Over, vars
  <2> QED
    BY <2>1 DEF Stream
<1>26. CASE UNCHANGED vars
  <2>1. UNCHANGED <<pc, srv, out, sent, taken, buf, off, wire, peer>>
    BY <1>26 DEF vars, registry, memory, history
  <2>2. CASE pc \in Final
    BY <2>1, <2>2 DEF Stream
  <2>3. CASE pc \notin Final
    BY <2>1, <2>3, DueKept, SameStream, StreamKept
  <2> QED
    BY <2>2, <2>3
<1> QED
  BY <1>1, <1>2, <1>3, <1>4, <1>5, <1>6, <1>7, <1>8, <1>9, <1>10, <1>11, <1>12, <1>13,
     <1>14, <1>15, <1>16,
     <1>17, <1>18, <1>19, <1>20, <1>21, <1>22, <1>23, <1>24, <1>25, <1>26
   DEF Next, Client, Registry

\* Without trouble.
LEMMA CalmStep ==
  ASSUME TypeOK, Types, Counts, Stream, BodySoFar, Fits, Talk, Calm, [Next]_vars
  PROVE  Calm'
<1>1. CASE Dial
  BY <1>1 DEF Dial, registry, memory, Calm, Unread, Rest, Mid, Final
<1>2. CASE Refill
  <2>1. /\ Unread' = Unread /\ UNCHANGED <<pc, srv, peer, trouble, todo, cap, sent, taken>>
    BY <1>2, RefillKeeps DEF Refill, registry, history
  <2> QED
    BY <2>1 DEF Calm, Mid, Pending, Reply, Verb
<1>3. CASE RefillFails
  <2>1. pc' \in Final
    BY <1>3 DEF RefillFails, GiveUp, Close, Final
  <2> QED
    BY <2>1 DEF Calm
<1>4. CASE LineFails
  <2>1. pc' \in Final
    BY <1>4 DEF LineFails, GiveUp, Close, Final
  <2> QED
    BY <2>1 DEF Calm
<1>5. CASE WriteKills
  <2>1. pc' \in Final
    BY <1>5 DEF WriteKills, Final
  <2> QED
    BY <2>1 DEF Calm
<1>6. CASE WriteFails
  <2>1. pc' \in Final
    BY <1>6 DEF WriteFails, GiveUp, Close, Final
  <2> QED
    BY <2>1 DEF Calm
<1>7. CASE ReadGreeting
  <2>1. /\ UNCHANGED <<peer, trouble>> /\ pc \notin Final /\ pc' \in {"greet", "failed", "killed"}
    BY <1>7 DEF ReadGreeting, Close, Final
  <2> QED
    BY <2>1 DEF Calm, Mid, Final
<1>8. CASE WriteGreeting
  <2>1. /\ pc = "greet" /\ pc' = "caps" /\ UNCHANGED trouble
        /\ peer = "open" => peer' = "open"
    BY <1>8 DEF WriteGreeting, Put
  <2> QED
    BY <2>1 DEF Calm, Mid, Final
<1>9. CASE ReadCaps
  <2>1. /\ UNCHANGED <<peer, trouble>> /\ pc \notin Final /\ pc' \in {"ask", "failed", "killed"}
    BY <1>9 DEF ReadCaps, Close, Final
  <2> QED
    BY <2>1 DEF Calm, Mid, Final
<1>10. CASE Refrain
  <2>1. pc' \in Final
    BY <1>10 DEF Refrain, GiveUp, Close, Final
  <2> QED
    BY <2>1 DEF Calm
<1>11. CASE Request
  <2>1. /\ pc = "ask" /\ pc' \in {"upload", "status"} /\ UNCHANGED <<trouble, sent, taken>>
        /\ peer = "open" => peer' = "open"
    BY <1>11 DEF Request, AfterRequest, Put
  <2>2. ~Pending'
    <3>1. Len(taken) \in Nat /\ Len(sent) \in Nat
      OBVIOUS
    <3> QED
      BY <2>1, <3>1 DEF Counts, Mid, Final, Pending
  <2> QED
    BY <2>1, <2>2 DEF Calm, Final
<1>12. CASE SendBody
  <2>1. /\ pc = "upload" /\ UNCHANGED <<pc, trouble, todo, cap, sent, taken>>
        /\ peer = "open" => peer' = "open"
    BY <1>12 DEF SendBody, Put, history
  <2> QED
    BY <2>1 DEF Calm, Final, Mid, Pending, Reply, Verb
<1>13. CASE BodySent
  BY <1>13 DEF BodySent, memory, history, Calm, Mid, Pending, Reply, Verb, Final
<1>14. CASE ReadStatus
  <2>1. pc = "status" /\ UNCHANGED <<trouble, peer, cap, sent>>
    BY <1>14 DEF ReadStatus
  <2>2. CASE pc' \in {"failed", "killed"}
    BY <2>2 DEF Calm, Final
  <2>3. CASE pc' = "ask"
    BY <2>1, <2>3 DEF Calm, Mid, Final
  <2>4. CASE pc' = "body" /\ UNCHANGED <<todo, taken>>
    BY <2>1, <2>4 DEF Calm, Mid, Final, Pending, Reply, Verb
  <2> QED
    BY <1>14, <2>2, <2>3, <2>4, StatusRead
<1>15. CASE ReadBody
  <2>1. pc = "body" /\ UNCHANGED <<pc, trouble, peer, cap, todo, sent, taken>>
    BY <1>15 DEF ReadBody, history
  <2> QED
    BY <2>1 DEF Calm, Final, Mid, Pending, Reply, Verb
<1>16. CASE SinkFails
  <2>1. pc' \in Final
    BY <1>16 DEF SinkFails, GiveUp, Close, Final
  <2> QED
    BY <2>1 DEF Calm
<1>17. CASE BodyRead
  <2>1. pc = "body" /\ UNCHANGED <<trouble, peer>> /\ pc' \in {"failed", "killed", "ask"}
    BY <1>17, BodyWhole DEF BodyRead
  <2> QED
    BY <2>1 DEF Calm, Mid, Final
<1>18. CASE Finish
  <2>1. pc' \in Final
    BY <1>18 DEF Finish, Close, Final
  <2> QED
    BY <2>1 DEF Calm
<1>19. CASE pc \notin Final /\ Greets
  <2>1. /\ pc \in {"dial", "greeting"} /\ srv = "greet" /\ peer = "open"
        /\ UNCHANGED <<pc, buf, off, peer>>
    BY <1>19, GreetsWhen DEF Greets, memory
  <2>2. CASE trouble'
    BY <2>2 DEF Calm
  <2>3. CASE ~trouble'
    <3>1. Say(Octets(Plain(TRUE)))
      BY <1>19, <2>3 DEF Greets
    <3>2. In(<<>>)
      BY <2>1, NothingDue DEF Final
    <3>3. Octets(Plain(TRUE)) \in Greetings
      BY DEF Greetings
    <3>4. In(Octets(Plain(TRUE)))'
      BY <2>1, <3>1, <3>2, <3>3, GreetingOctets, NowDue
    <3> QED
      BY <2>1, <3>4 DEF Calm, In, Mid
  <2> QED
    BY <2>2, <2>3
<1>20. CASE pc \notin Final /\ HearsGreeting
  <2>1. /\ pc = "caps" /\ UNCHANGED <<pc, peer, trouble>>
    BY <1>20, HearsGreetingWhen DEF HearsGreeting
  <2> QED
    BY <2>1 DEF Calm, Mid, Final
<1>21. CASE pc \notin Final /\ HearsRequest
  <2>1. /\ pc \in {"upload", "status"} /\ ~Pending /\ peer = "open" /\ up[1] = Verb
        /\ UNCHANGED <<pc, peer, taken, todo, cap>> /\ Verb' = Verb
    BY <1>21, HearsRequestWhen DEF HearsRequest, memory, Verb
  <2>2. CASE Verb = "kango"
    <3>1. ~Pending'
      BY <1>21, <2>1, <2>2 DEF HearsRequest, Pending
    <3> QED
      BY <2>1, <3>1 DEF Calm
  <2>3. CASE Verb # "kango"
    <3>1. PICK r \in Replies : Answers(Verb, r)
      BY <1>21, <2>1, <2>3 DEF HearsRequest
    <3>2. Reply' = r
      BY <2>1, <3>1, Answered DEF Answers
    <3>3. ~trouble' => Proper(Verb, r) /\ (Verb = "text" => Words(r).n <= cap)
      <4>1. Words(r).n \in Nat /\ cap \in Nat
        BY ReplyOctets DEF StatusWords, Types
      <4>2. ~(Words(r).n > cap) => Words(r).n <= cap
        BY <4>1
      <4>3. ~trouble' => Proper(Verb, r) /\ ~(Verb = "text" /\ Words(r).n > cap)
        BY <3>1, Zenon DEF Answers
      <4> QED
        BY <4>2, <4>3, Zenon
    <3> QED
      BY <2>1, <3>2, <3>3 DEF Calm
  <2> QED
    BY <2>2, <2>3
<1>22. CASE pc \notin Final /\ HearsUpload
  <2>1. /\ pc \in {"upload", "status"} /\ ~Pending /\ UNCHANGED <<pc, peer, trouble, sent, taken>>
    BY <1>22, UploadWhen DEF HearsUpload, history
  <2>2. ~Pending'
    BY <2>1 DEF Pending
  <2> QED
    BY <2>1, <2>2 DEF Calm
<1>23. CASE pc \notin Final /\ Publishes
  <2>1. /\ pc \in {"upload", "status"} /\ ~Pending /\ peer = "open" /\ Verb = "kango"
        /\ UNCHANGED <<pc, peer, taken, todo, cap>> /\ Verb' = Verb
    BY <1>23, UploadWhen DEF Publishes, memory, Verb
  <2>2. PICK r \in Replies : Answers("kango", r)
    BY <1>23 DEF Publishes
  <2>3. Reply' = r
    BY <2>1, <2>2, Answered DEF Answers
  <2>4. ~trouble' => Proper(Verb, r)
    BY <2>1, <2>2 DEF Answers
  <2> QED
    BY <2>1, <2>3, <2>4 DEF Calm
<1>24. CASE pc \notin Final /\ Leaves
  BY <1>24 DEF Leaves, Calm
<1>25. CASE Over
  BY <1>25 DEF Over, vars, Calm
<1>26. CASE UNCHANGED vars
  BY <1>26 DEF vars, registry, memory, history, Calm, Unread, Rest, Mid, Pending, Reply, Verb
<1> QED
  BY <1>1, <1>2, <1>3, <1>4, <1>5, <1>6, <1>7, <1>8, <1>9, <1>10, <1>11, <1>12, <1>13,
     <1>14, <1>15, <1>16,
     <1>17, <1>18, <1>19, <1>20, <1>21, <1>22, <1>23, <1>24, <1>25, <1>26
   DEF Next, Client, Registry

\* Archives are of the digest that was named.
LEMMA OnlyVerifiedStep ==
  ASSUME TypeOK, Types, Counts, Stream, BodySoFar, Fits, Talk, OnlyVerified, [Next]_vars
  PROVE  OnlyVerified'
<1>1. CASE Dial
  BY <1>1 DEF Dial, history, OnlyVerified
<1>2. CASE Refill
  BY <1>2 DEF Refill, history, OnlyVerified
<1>3. CASE RefillFails
  BY <1>3 DEF RefillFails, GiveUp, history, OnlyVerified
<1>4. CASE LineFails
  BY <1>4 DEF LineFails, GiveUp, history, OnlyVerified
<1>5. CASE WriteKills
  BY <1>5 DEF WriteKills, history, OnlyVerified
<1>6. CASE WriteFails
  BY <1>6 DEF WriteFails, GiveUp, history, OnlyVerified
<1>7. CASE ReadGreeting
  BY <1>7 DEF ReadGreeting, history, OnlyVerified
<1>8. CASE WriteGreeting
  BY <1>8 DEF WriteGreeting, history, OnlyVerified
<1>9. CASE ReadCaps
  BY <1>9 DEF ReadCaps, history, OnlyVerified
<1>10. CASE Refrain
  BY <1>10 DEF Refrain, GiveUp, history, OnlyVerified
<1>11. CASE Request
  BY <1>11 DEF Request, OnlyVerified
<1>12. CASE SendBody
  BY <1>12 DEF SendBody, history, OnlyVerified
<1>13. CASE BodySent
  BY <1>13 DEF BodySent, history, OnlyVerified
<1>14. CASE ReadStatus
  <2>1. CASE UNCHANGED taken
    BY <2>1 DEF OnlyVerified
  <2>2. ASSUME taken' = Append(taken, Plain(TRUE)) PROVE OnlyVerified'
    <3>1. Plain(TRUE).body = None /\ Plain(TRUE) \in Replies
      BY PlainReply DEF Plain
    <3>2. ToSet(taken') = ToSet(taken) \cup {Plain(TRUE)}
      <4>1. PICK r \in Replies : r = Plain(TRUE)
        BY <3>1
      <4>2. ToSet(Append(taken, r)) = ToSet(taken) \cup {r}
        BY Pushed DEF Types
      <4> QED
        BY <2>2, <4>1, <4>2
    <3> QED
      BY <3>1, <3>2 DEF OnlyVerified
  <2>3. UNCHANGED taken \/ taken' = Append(taken, Plain(TRUE))
    BY <1>14, StatusRead
  <2> QED
    BY <2>1, <2>2, <2>3
<1>15. CASE ReadBody
  BY <1>15 DEF ReadBody, history, OnlyVerified
<1>16. CASE SinkFails
  BY <1>16 DEF SinkFails, GiveUp, history, OnlyVerified
<1>17. CASE BodyRead
  <2>1. CASE UNCHANGED taken
    BY <2>1 DEF OnlyVerified
  <2>2. ASSUME NEW r \in Replies, Pending, r = Reply, out = r.body, st = Words(r), Accepted,
               Verb \in {"text", "archive"}, taken' = Append(taken, r)
        PROVE  OnlyVerified'
    <3>1. ToSet(taken') = ToSet(taken) \cup {r}
      BY <2>2, Pushed DEF Types
    <3>2. CASE Verb = "text"
      <4>1. r.sema = <<>>
        BY <1>17, <2>2, <3>2 DEF Fits, BodyRead, Mid
      <4> QED
        BY <3>1, <4>1 DEF OnlyVerified
    <3>3. CASE Verb = "archive"
      <4>1. r.sema = r.body
        BY <2>2, <3>3 DEF Accepted, Words
      <4> QED
        BY <3>1, <4>1 DEF OnlyVerified
    <3> QED
      BY <2>2, <3>2, <3>3
  <2> QED
    BY <1>17, <2>1, <2>2, BodyWhole
<1>18. CASE Finish
  BY <1>18 DEF Finish, history, OnlyVerified
<1>19. CASE pc \notin Final /\ Greets
  BY <1>19 DEF Greets, history, OnlyVerified
<1>20. CASE pc \notin Final /\ HearsGreeting
  BY <1>20 DEF HearsGreeting, history, OnlyVerified
<1>21. CASE pc \notin Final /\ HearsRequest
  BY <1>21 DEF HearsRequest, OnlyVerified
<1>22. CASE pc \notin Final /\ HearsUpload
  BY <1>22 DEF HearsUpload, history, OnlyVerified
<1>23. CASE pc \notin Final /\ Publishes
  BY <1>23 DEF Publishes, OnlyVerified
<1>24. CASE pc \notin Final /\ Leaves
  BY <1>24 DEF Leaves, history, OnlyVerified
<1>25. CASE Over
  BY <1>25 DEF Over, vars, history, OnlyVerified
<1>26. CASE UNCHANGED vars
  BY <1>26 DEF vars, history, OnlyVerified
<1> QED
  BY <1>1, <1>2, <1>3, <1>4, <1>5, <1>6, <1>7, <1>8, <1>9, <1>10, <1>11, <1>12, <1>13,
     <1>14, <1>15, <1>16,
     <1>17, <1>18, <1>19, <1>20, <1>21, <1>22, <1>23, <1>24, <1>25, <1>26
   DEF Next, Client, Registry

\* A command fails for a reason.
LEMMA ServedStep ==
  ASSUME TypeOK, Types, Counts, Stream, BodySoFar, Fits, Talk, Uploads, Calm, Served, [Next]_vars
  PROVE  Served'
<1>1. CASE Dial
  BY <1>1 DEF Dial, Served
<1>2. CASE Refill
  BY <1>2 DEF Refill, history, Served, TooLarge, Verb
<1>3. CASE RefillFails
  <2>1. ASSUME ~trouble' PROVE FALSE
    <3>1. ~trouble /\ (peer = "open" => Waiting) /\ Wants /\ wire = <<>>
      BY <1>3, <2>1, Zenon DEF RefillFails
    <3>2. CASE pc \in {"greeting", "caps", "status"}
      <4>1. ~HasLine
        BY <3>1, <3>2 DEF Wants
      <4> QED
        BY <3>1, <3>2, <4>1, Orderly, OrderlyLine
    <3>3. CASE pc = "body"
      <4>1. Len(out) < st.n /\ Rest = <<>>
        BY <3>1, <3>3 DEF Wants
      <4>2. PICK r \in Replies : r = Reply
        BY <3>3, ReplyType DEF Counts
      <4>3. r.body # None /\ st = Words(r) /\ Len(out) <= Len(r.body)
        BY <3>3, <4>2 DEF BodySoFar
      <4>4. r.body \in Seq(Octet) /\ Len(out) \in 0..Len(r.body)
        <5>1. r.body \in Seq(Octet)
          BY <4>3, ReplyOctets DEF BodyOf
        <5> QED
          BY <4>3, <5>1, LenProperties DEF Types
      <4>5. SubSeq(r.body, Len(out) + 1, Len(r.body)) = Unread
        <5>1. Due = {SubSeq(r.body, Len(out) + 1, Len(r.body))}
          BY <3>3, <4>2 DEF Due
        <5>2. peer = "open"
          BY <3>1, <3>3 DEF Calm, Final
        <5> QED
          BY <3>3, <5>1, <5>2 DEF Stream, In, Final
      <4>6. Len(SubSeq(r.body, Len(out) + 1, Len(r.body))) = Len(r.body) - Len(out)
        BY <4>4
      <4>7. Unread = <<>>
        BY <3>1, <4>1 DEF Unread
      <4>8. Len(<<>>) = 0
        OBVIOUS
      <4>9. st.n = Len(r.body)
        BY <4>3 DEF Words
      <4>10. Len(r.body) - Len(out) = 0
        BY <4>5, <4>6, <4>7, <4>8
      <4> QED
        BY <4>1, <4>4, <4>9, <4>10
    <3> QED
      BY <3>1, <3>2, <3>3 DEF Wants
  <2> QED
    BY <2>1 DEF Served
<1>4. CASE LineFails
  <2>1. ASSUME ~trouble' PROVE FALSE
    <3>1. /\ ~trouble /\ pc \in {"greeting", "caps", "status"}
          /\ IF HasLine THEN ~GoodLine ELSE Len(Rest) > LineMax
      BY <1>4, <2>1 DEF LineFails
    <3>2. CASE Unread = <<>>
      BY <3>1, <3>2, NoLine, KatareAssumption
    <3>3. ASSUME NEW words \in StatusWords, NEW more \in Seq(Octet), Starts(words, more)
          PROVE  FALSE
      <4>1. /\ HasLine => GoodLine
            /\ ~HasLine => Len(Rest) <= LineMax
        BY <3>3, OrderlyLine
      <4>2. Len(Rest) \in Nat /\ LineMax \in Nat
        BY KatareAssumption
      <4> QED
        BY <3>1, <4>1, <4>2
    <3> QED
      BY <3>1, <3>2, <3>3, Orderly
  <2> QED
    BY <2>1 DEF Served
<1>5. CASE WriteKills
  <2>1. trouble /\ trouble' = trouble
    BY <1>5 DEF WriteKills, Writes, Calm, Final
  <2> QED
    BY <2>1 DEF Served
<1>6. CASE WriteFails
  BY <1>6 DEF WriteFails, Served
<1>7. CASE ReadGreeting
  <2>1. CASE Said.si
    BY <1>7, <2>1 DEF ReadGreeting, Served
  <2>2. ASSUME ~Said.si, ~trouble PROVE FALSE
    <3>1. pc = "greeting" /\ HasLine
      BY <1>7 DEF ReadGreeting, GotLine
    <3> QED
      BY <2>2, <3>1, Orderly, OrderlyLine, NoLine
  <2>3. trouble' = trouble
    BY <1>7 DEF ReadGreeting
  <2> QED
    BY <2>1, <2>2, <2>3 DEF Served
<1>8. CASE WriteGreeting
  BY <1>8 DEF WriteGreeting, Served
<1>9. CASE ReadCaps
  <2>1. CASE Said.si
    BY <1>9, <2>1 DEF ReadCaps, Served
  <2>2. ASSUME ~Said.si, ~trouble PROVE FALSE
    <3>1. pc = "caps" /\ HasLine
      BY <1>9 DEF ReadCaps, GotLine
    <3> QED
      BY <2>2, <3>1, Orderly, OrderlyLine, NoLine
  <2>3. trouble' = trouble
    BY <1>9 DEF ReadCaps
  <2> QED
    BY <2>1, <2>2, <2>3 DEF Served
<1>10. CASE Refrain
  BY <1>10 DEF Refrain, GiveUp, memory, Served, TooLarge, Verb
<1>11. CASE Request
  BY <1>11 DEF Request, AfterRequest, Served
<1>12. CASE SendBody
  BY <1>12 DEF SendBody, Served
<1>13. CASE BodySent
  BY <1>13 DEF BodySent, Served
<1>14. CASE ReadStatus
  <2>1. pc = "status" /\ HasLine /\ UNCHANGED <<trouble, sent>> /\ todo # <<>>
    BY <1>14 DEF ReadStatus, GotLine, Counts, Mid
  <2>2. CASE pc' \in {"body", "ask"}
    BY <2>2 DEF Served
  <2>3. ASSUME ~trouble, Refused(Said) PROVE Plain(FALSE) \in ToSet(sent)
    <3>1. Pending /\ Said = Words(Reply)
      BY <2>1, <2>3, Orderly, OrderlyLine, NoLine
    <3>2. PICK r \in Replies : r = Reply
      BY <3>1, ReplyType
    <3>3. Proper(Verb, r) /\ (Verb = "text" => Words(r).n <= cap)
      BY <2>1, <2>3, <3>1, <3>2 DEF Calm, Final, Mid
    <3>4. (Words(r).si <=> r.si) /\ (Words(r).kyx <=> r.body # None)
      BY DEF Words
    <3>5. ~(Verb = "text" /\ Words(r).n > cap)
      <4>1. Words(r).n \in Nat /\ cap \in Nat
        BY ReplyOctets DEF StatusWords, Types
      <4> QED
        BY <3>3, <4>1
    <3>6. ~r.si \/ (Verb \in {"text", "archive"} /\ r.body = None)
      BY <2>3, <3>1, <3>2, <3>4, <3>5 DEF Refused
    <3>7. r = Plain(FALSE)
      BY <3>3, <3>6 DEF Proper
    <3>8. Len(sent) \in DOMAIN sent
      <4>1. Len(sent) = Len(taken) + 1 /\ sent \in Seq(Replies) /\ taken \in Seq(Replies)
        BY <3>1 DEF Pending, Types
      <4> QED
        BY <4>1, LenProperties
    <3> QED
      BY <3>2, <3>7, <3>8 DEF Reply, ToSet
  <2>4. CASE Refused(Said)
    BY <2>1, <2>3, <2>4 DEF Served
  <2>5. CASE ~Refused(Said)
    BY <1>14, <2>2, <2>5 DEF ReadStatus, Acted
  <2> QED
    BY <2>4, <2>5
<1>15. CASE ReadBody
  BY <1>15 DEF ReadBody, Served
<1>16. CASE SinkFails
  BY <1>16 DEF SinkFails, Served
<1>17. CASE BodyRead
  <2>1. pc = "body" /\ UNCHANGED trouble
    BY <1>17 DEF BodyRead
  <2>2. CASE pc' = "ask"
    BY <2>2 DEF Served
  <2>3. ASSUME NEW r \in Replies, Pending, r = Reply, out = r.body, st = Words(r),
               r.body # None, ~Accepted, ~trouble
        PROVE  FALSE
    <3>1. Verb = "archive" /\ r.body # r.sema
      BY <2>3 DEF Accepted, Words
    <3>2. Proper("archive", r)
      BY <2>1, <2>3, <3>1 DEF Calm, Mid, Final
    <3> QED
      BY <2>3, <3>1, <3>2 DEF Proper, Plain
  <2>4. CASE trouble
    BY <2>1, <2>4 DEF Served
  <2> QED
    BY <1>17, <2>2, <2>3, <2>4, BodyWhole
<1>18. CASE Finish
  BY <1>18 DEF Finish, Close, Served, Final, Calm
<1>19. CASE pc \notin Final /\ Greets
  BY <1>19 DEF Greets, Served, Final
<1>20. CASE pc \notin Final /\ HearsGreeting
  BY <1>20 DEF HearsGreeting, memory, history, Served, TooLarge, Verb
<1>21. CASE pc \notin Final /\ HearsRequest
  BY <1>21 DEF HearsRequest, Served, Final
<1>22. CASE pc \notin Final /\ HearsUpload
  BY <1>22 DEF HearsUpload, memory, history, Served, TooLarge, Verb
<1>23. CASE pc \notin Final /\ Publishes
  BY <1>23 DEF Publishes, Served, Final
<1>24. CASE pc \notin Final /\ Leaves
  BY <1>24 DEF Leaves, Served
<1>25. CASE Over
  BY <1>25 DEF Over, vars, memory, history, Served, TooLarge, Verb
<1>26. CASE UNCHANGED vars
  BY <1>26 DEF vars, memory, history, Served, TooLarge, Verb
<1> QED
  BY <1>1, <1>2, <1>3, <1>4, <1>5, <1>6, <1>7, <1>8, <1>9, <1>10, <1>11, <1>12, <1>13,
     <1>14, <1>15, <1>16,
     <1>17, <1>18, <1>19, <1>20, <1>21, <1>22, <1>23, <1>24, <1>25, <1>26
   DEF Next, Client, Registry

\* What is left to do is part of the errand.
LEMMA ErrandStep ==
  ASSUME Types, Errand, Mid => todo # <<>>, [Next]_vars
  PROVE  Errand'
<1>1. CASE UNCHANGED todo
  BY <1>1 DEF Errand
<1>2. CASE Mid /\ todo' = Tail(todo)
  <2>1. /\ Len(todo') = Len(todo) - 1 /\ Len(todo) \in Nat
        /\ \A i \in 1..Len(todo) - 1 : todo'[i] = todo[i + 1]
    BY <1>2, Popped DEF Types
  <2>2. \A i \in 1..Len(todo') : todo'[i] = todo[i + 1] /\ i + 1 \in 1..Len(todo)
    BY <2>1
  <2> QED
    BY <2>2 DEF Errand
<1>3. UNCHANGED todo \/ (Mid /\ todo' = Tail(todo))
  <2>1. CASE ReadStatus
    BY <2>1 DEF ReadStatus, Acted, Mid
  <2>2. CASE BodyRead
    BY <2>2 DEF BodyRead, Acted, Mid
  <2>3. CASE \/ Dial \/ Refill \/ RefillFails \/ LineFails \/ WriteKills \/ WriteFails
             \/ ReadGreeting \/ WriteGreeting \/ ReadCaps \/ Refrain \/ Request \/ SendBody
             \/ BodySent \/ ReadBody \/ SinkFails \/ Finish
    BY <2>3 DEF Dial, Refill, RefillFails, LineFails, WriteKills, WriteFails, ReadGreeting,
       WriteGreeting, ReadCaps, Refrain, Request, SendBody, BodySent, ReadBody, SinkFails,
       Finish, GiveUp
  <2>4. CASE Registry
    BY <2>4 DEF Registry, Greets, HearsGreeting, HearsRequest, HearsUpload, Publishes, Leaves
  <2>5. CASE Over \/ UNCHANGED vars
    BY <2>5 DEF Over, vars
  <2> QED
    BY <2>1, <2>2, <2>3, <2>4, <2>5 DEF Next, Client
<1> QED
  BY <1>1, <1>2, <1>3

\* A reply to a publisher brings a body: it was not a proper one.
LEMMA Misleading ==
  ASSUME TypeOK, Types, Agree, [Next]_vars, ~misled, misled'
  PROVE  Misled'
<1>1. Counts /\ BodySoFar /\ Talk /\ Errand
  BY DEF Agree
<1>2. /\ pc \in {"upload", "status"} /\ UNCHANGED <<pc, todo, asked, taken, out>>
      /\ \E r \in Replies : Answers(Verb, r)
  <2>1. CASE pc \notin Final /\ HearsRequest
    <3>1. up[1] # "kango"
      BY <2>1 DEF HearsRequest
    <3> QED
      BY <1>1, <2>1, <3>1, HearsRequestWhen DEF HearsRequest, memory
  <2>2. CASE pc \notin Final /\ Publishes
    BY <1>1, <2>2, UploadWhen DEF Publishes, memory
  <2>3. CASE Client
    BY <2>3 DEF Client, Dial, Refill, RefillFails, LineFails, WriteKills, WriteFails,
       ReadGreeting, WriteGreeting, ReadCaps, Refrain, Request, SendBody, BodySent, ReadStatus,
       ReadBody, SinkFails, BodyRead, Finish, GiveUp, history
  <2>4. CASE Greets \/ HearsGreeting \/ HearsUpload \/ Leaves \/ Over \/ UNCHANGED vars
    BY <2>4 DEF Greets, HearsGreeting, HearsUpload, Leaves, Over, vars, history
  <2> QED
    BY <2>1, <2>2, <2>3, <2>4 DEF Next, Registry
<1>3. PICK r \in Replies : Answers(Verb, r)
  BY <1>2
<1>4. Verb \in {"kalit", "kango"} /\ r.si /\ r.body # None
  BY <1>3 DEF Answers, LeavesBody
<1>5. trouble'
  <2>1. ~Proper(Verb, r)
    <3>1. r # Plain(FALSE) /\ r # Plain(TRUE)
      BY <1>4 DEF Plain
    <3> QED
      BY <1>4, <3>1 DEF Proper
  <2> QED
    BY <1>3, <2>1 DEF Answers
<1>6. out' = <<>> /\ todo # <<>> /\ Mid /\ Mid'
  BY <1>1, <1>2 DEF BodySoFar, Counts, Mid
<1>7. \A i \in 1..Len(todo) : todo[i] \in {"kalit", "kango"}
  <2>1. Verb = todo[1] /\ 1 \in 1..Len(todo)
    BY <1>6, VerbType, Popped DEF Types
  <2>2. todo[1] \notin {"text", "archive"}
    BY <1>4, <2>1
  <2> QED
    BY <1>1, <2>1, <2>2 DEF Errand
<1> QED
  BY <1>1, <1>2, <1>5, <1>6, <1>7 DEF Misled, Counts, Final

\* A client that has been misled acts upon statuses only, and fails.
LEMMA MisledStep ==
  ASSUME TypeOK, Types, OnlyVerified, misled, Misled, [Next]_vars
  PROVE  misled' /\ Misled' /\ OnlyVerified' /\ Served'
<1>0. /\ trouble /\ out = <<>> /\ pc \in {"ask", "upload", "status"} \cup Final
      /\ \A i \in 1..Len(todo) : todo[i] \in {"kalit", "kango"}
      /\ Len(taken) \in Nat
  BY LenProperties DEF Misled, Types
<1>1. ASSUME misled', trouble', UNCHANGED <<out, todo, asked, taken>>,
             pc' = pc \/ pc' \in Final \/ (Mid /\ pc' = "status")
      PROVE  misled' /\ Misled' /\ OnlyVerified' /\ Served'
  BY <1>1 DEF Misled, OnlyVerified, Served, Mid, Final
<1>2. CASE Refill
  BY <1>1, <1>2 DEF Refill, history, Misled
<1>3. CASE RefillFails \/ LineFails \/ WriteKills \/ WriteFails \/ Refrain
  <2>1. trouble' /\ pc' \in Final /\ UNCHANGED <<out, todo, history>>
    BY <1>0, <1>3 DEF RefillFails, LineFails, WriteKills, WriteFails, Refrain, GiveUp, Close,
       Final, memory
  <2> QED
    BY <1>1, <2>1 DEF history
<1>4. CASE Finish
  BY <1>0, <1>1, <1>4 DEF Finish, Close, Final, memory, history
<1>5. CASE Request
  <2>1. pc = "ask" /\ pc' \in {"upload", "status"} /\ asked = Len(taken)
    BY <1>0, <1>5 DEF Request, AfterRequest, Misled, Mid, Final
  <2> QED
    BY <1>0, <1>5, <2>1 DEF Request, Misled, OnlyVerified, Served, Mid, Final
<1>6. CASE SendBody \/ BodySent
  BY <1>0, <1>1, <1>6 DEF SendBody, BodySent, memory, history, Mid
<1>7. CASE ReadStatus
  <2>1. pc = "status" /\ todo # <<>> /\ asked = Len(taken) + 1 /\ Verb \in {"kalit", "kango"}
    <3>1. pc = "status" /\ todo # <<>> /\ asked = Len(taken) + 1
      BY <1>0, <1>7 DEF ReadStatus, Misled, Mid, Final
    <3>2. Verb = todo[1] /\ 1 \in 1..Len(todo)
      BY <3>1, VerbType, Popped DEF Types
    <3> QED
      BY <1>0, <3>1, <3>2
  <2>2. misled' /\ trouble' /\ UNCHANGED <<out, asked>>
    BY <1>0, <1>7 DEF ReadStatus
  <2>3. CASE Refused(Said)
    BY <1>1, <1>7, <2>2, <2>3 DEF ReadStatus, Close, Final
  <2>4. CASE ~Refused(Said)
    <3>1. taken' = Append(taken, Plain(TRUE)) /\ todo' = Tail(todo) /\ pc' = "ask"
      BY <1>7, <2>1, <2>4 DEF ReadStatus, Acted
    <3>2. /\ Plain(TRUE) \in Replies /\ Plain(TRUE).body = None
      BY PlainReply DEF Plain
    <3>3. /\ Len(todo') = Len(todo) - 1 /\ \A i \in 1..Len(todo) - 1 : todo'[i] = todo[i + 1]
          /\ Len(taken') = Len(taken) + 1 /\ ToSet(taken') = ToSet(taken) \cup {Plain(TRUE)}
          /\ Len(todo) \in Nat
      BY <2>1, <3>1, <3>2, ActedTypes
    <3>4. \A i \in 1..Len(todo') : todo'[i] \in {"kalit", "kango"}
      BY <1>0, <3>3
    <3>5. OnlyVerified'
      BY <3>2, <3>3 DEF OnlyVerified
    <3>6. asked' = Len(taken')
      BY <2>1, <2>2, <3>3
    <3>7. Len(taken') \in Nat
      BY <1>0, <3>3
    <3> QED
      BY <1>0, <2>2, <3>1, <3>4, <3>5, <3>6, <3>7 DEF Misled, Served, Mid, Final
  <2> QED
    BY <2>3, <2>4
<1>8. CASE Dial \/ ReadGreeting \/ WriteGreeting \/ ReadCaps \/ ReadBody \/ SinkFails \/ BodyRead
  BY <1>0, <1>8 DEF Dial, ReadGreeting, WriteGreeting, ReadCaps, ReadBody, SinkFails, BodyRead,
     Final
<1>9. CASE Greets \/ HearsGreeting \/ HearsUpload \/ Leaves
  BY <1>0, <1>1, <1>9 DEF Greets, HearsGreeting, HearsUpload, Leaves, memory, history
<1>10. CASE HearsRequest \/ Publishes
  BY <1>0, <1>1, <1>10 DEF HearsRequest, Publishes, Answers, memory
<1>11. CASE Over \/ UNCHANGED vars
  BY <1>0, <1>1, <1>11 DEF Over, vars, memory, history
<1> QED
  BY <1>2, <1>3, <1>4, <1>5, <1>6, <1>7, <1>8, <1>9, <1>10, <1>11 DEF Next, Client, Registry

-----------------------------------------------------------------------------
(* Theorems *)

LEMMA Initially == Init => KatareInv
<1> SUFFICES ASSUME Init PROVE KatareInv
  OBVIOUS
<1>1. TypeOK
  <2>1. Len(<<>>) = 0 /\ NoStatus.n \in Nat
    BY PlainReply DEF NoStatus, StatusWords
  <2> QED
    BY <2>1, KatareAssumption DEF Init, TypeOK
<1>2. Types
  <2>1. NoStatus \in StatusWords
    BY PlainReply DEF NoStatus
  <2>2. todo \in Seq(Verbs)
    <3>1. todo \in Seq({"text", "archive"}) \/ todo \in Seq({"kalit", "kango"})
      BY KatareAssumption DEF Init
    <3> QED
      BY <3>1 DEF Verbs
  <2>3. 64 * 1024 * 1024 \in Nat
    OBVIOUS
  <2> QED
    BY <2>1, <2>2, <2>3, EmptySeq DEF Init, Types
<1>3. Counts /\ BodySoFar /\ Fits /\ Talk /\ OnlyVerified /\ Served
  <2>1. Len(<<>>) = 0
    OBVIOUS
  <2>2. ToSet(<<>>) = {}
    BY DEF ToSet
  <2> QED
    BY <2>1, <2>2 DEF Init, Counts, BodySoFar, Fits, Talk, OnlyVerified, Served, Mid,
       Pending, Final
<1>4. Unread = <<>>
  <2>1. Rest = <<>>
    BY DEF Init, Rest
  <2> QED
    BY <2>1 DEF Init, Unread
<1>5. Stream
  <2>1. Due = {<<>>}
    BY DEF Init, Due
  <2> QED
    BY <1>4, <2>1 DEF Init, Stream, In
<1>6. Uploads
  <2>1. todo \in Jobs /\ (todo \in Seq({"text", "archive"}) \/ todo \in Seq({"kalit", "kango"}))
    BY KatareAssumption DEF Init
  <2>2. \A i, k \in 1..Len(todo) : todo[i] = "kango" /\ todo[k] = "kango" => i = k
    <3>1. DOMAIN todo = 1..Len(todo)
      OBVIOUS
    <3> QED
      BY <2>1, <3>1, KatareAssumption
  <2> QED
    BY <2>2 DEF Init, Uploads
<1>7. Calm
  BY DEF Init, Calm, Mid
<1>8. Errand
  <2>1. todo \in Seq({"text", "archive"}) \/ todo \in Seq({"kalit", "kango"})
    BY KatareAssumption DEF Init
  <2> QED
    BY <2>1 DEF Errand
<1>9. ~misled
  BY DEF Init
<1> QED
  BY <1>1, <1>2, <1>3, <1>5, <1>6, <1>7, <1>8, <1>9 DEF KatareInv, Agree

\* Each part of KatareInv is kept by every step, given the others.
LEMMA Inductive == KatareInv /\ [Next]_vars => KatareInv'
<1> SUFFICES ASSUME KatareInv, [Next]_vars PROVE KatareInv'
  OBVIOUS
<1>1. TypeOK /\ Types /\ OnlyVerified /\ Served
  BY DEF KatareInv
<1>2. CASE misled
  <2>1. Misled
    BY <1>2 DEF KatareInv
  <2>2. /\ pc = "status" => out = <<>>
        /\ pc # "body" /\ (Mid => todo # <<>>)
    BY <2>1 DEF Misled, Final
  <2>3. TypeOK' /\ Types'
    BY <1>1, <2>2, TypeStep, TypesStep
  <2> QED
    BY <1>1, <1>2, <2>1, <2>3, MisledStep DEF KatareInv
<1>3. CASE ~misled
  <2>1. Counts /\ Stream /\ BodySoFar /\ Fits /\ Talk /\ Uploads /\ Calm /\ Errand
    BY <1>3 DEF KatareInv, Agree
  <2>2. /\ pc = "status" => out = <<>>
        /\ Mid => todo # <<>>
    BY <2>1 DEF BodySoFar, Counts
  <2>3. TypeOK' /\ Types' /\ OnlyVerified' /\ Served'
    BY <1>1, <2>1, <2>2, TypeStep, TypesStep, OnlyVerifiedStep, ServedStep
  <2>4. CASE misled'
    <3>1. Misled'
      BY <1>1, <1>3, <2>1, <2>4, Misleading DEF Agree
    <3> QED
      BY <2>3, <2>4, <3>1 DEF KatareInv
  <2>5. CASE ~misled'
    <3>1. Counts' /\ Stream' /\ BodySoFar' /\ Fits' /\ Talk' /\ Uploads' /\ Calm' /\ Errand'
      BY <1>1, <2>1, <2>2, <2>5, CountsStep, StreamStep, BodyStep, FitsStep, TalkStep,
         UploadsStep, CalmStep, ErrandStep
    <3> QED
      BY <2>3, <2>5, <3>1 DEF KatareInv, Agree
  <2> QED
    BY <2>4, <2>5
<1> QED
  BY <1>2, <1>3

THEOREM Invariance == Spec => []KatareInv
<1> QED
  BY Initially, Inductive, PTL DEF Spec

(***************************************************************************)
(* c->off never passes c->len, c->len never passes the buffer, and no more *)
(* is read of a body than its status line said, whatever the registry and  *)
(* the network do.                                                         *)
(***************************************************************************)
THEOREM StaysInBuffer == Spec => []TypeOK
<1>1. KatareInv => TypeOK
  BY DEF KatareInv
<1> QED
  BY Invariance, <1>1, PTL

(***************************************************************************)
(* An archive is acted upon only if it is the one whose digest its status  *)
(* line named: also when the connection was cut in the middle of it, and   *)
(* when what followed came in the same read.                               *)
(***************************************************************************)
THEOREM OnlyVerifiedArchives == Spec => []OnlyVerified
<1>1. KatareInv => OnlyVerified
  BY DEF KatareInv
<1> QED
  BY Invariance, <1>1, PTL

(***************************************************************************)
(* A command that fails has a reason outside of the client: the network,   *)
(* the disk or the registry failed, a reply refused it, or what it was to  *)
(* publish is larger than the registry takes.  In particular it never      *)
(* times out because both sides wait for each other, and never loses the   *)
(* rest of a reply in its buffer.                                          *)
(***************************************************************************)
THEOREM FailsForAReason == Spec => []Served
<1>1. KatareInv => Served
  BY DEF KatareInv
<1> QED
  BY Invariance, <1>1, PTL

(***************************************************************************)
(* The conversation is an Exchange.                                        *)
(***************************************************************************)
LEMMA AbstractInit == Init => Abstract!Init
BY DEF Init, Abstract!Init, Outcome, Final

\* The next reply is acted upon; or, once misled, a status that was none.
LEMMA Taking ==
  ASSUME Types, Pending \/ misled, pc \notin Final, asked = Len(taken) + 1,
         NEW r \in Replies, (Pending /\ r = Reply) \/ (misled /\ r.body = None),
         taken' = Append(taken, r), pc' = "ask", UNCHANGED <<asked, sent, misled>>
  PROVE  Abstract!Take
<1>1. Len(taken) \in Nat
  OBVIOUS
<1>2. \/ Len(taken) < Len(sent) /\ r = sent[Len(taken) + 1]
      \/ misled /\ r.body = None
  BY <1>1 DEF Pending, Reply
<1>3. Outcome = "open" /\ Outcome' = "open"
  BY DEF Outcome, Final
<1>4. Len(taken) < asked
  BY <1>1
<1> QED
  BY <1>2, <1>3, <1>4 DEF Abstract!Take

\* A client that closes the connection ends the exchange.
LEMMA Ending ==
  ASSUME pc \notin Final, pc' \in Final, UNCHANGED <<asked, sent, taken, misled>>,
         pc' = "done" => asked = Len(taken)
  PROVE  Abstract!End
<1>1. Outcome = "open" /\ Outcome' \in {"done", "failed"} /\ (Outcome' = "done" => pc' = "done")
  BY DEF Outcome, Final
<1> QED
  BY <1>1 DEF Abstract!End

LEMMA Answering ==
  ASSUME Types, Len(sent) < asked \/ misled, NEW v, NEW r \in Replies, Answers(v, r),
         UNCHANGED <<asked, taken, pc>>
  PROVE  Abstract!Reply
<1>1. Outcome' = Outcome
  BY DEF Outcome
<1>2. sent' = Append(sent, r) /\ misled' \in {misled, misled \/ (r.si /\ r.body # None)}
  BY Zenon DEF Answers, LeavesBody, Types
<1> QED
  BY <1>1, <1>2 DEF Abstract!Reply

LEMMA AbstractStep ==
  ASSUME KatareInv, [Next]_vars
  PROVE  [Abstract!Next]_<<asked, sent, taken, misled, Outcome>>
<1> DEFINE Same == UNCHANGED <<asked, sent, taken, misled, Outcome>>
<1>0. TypeOK /\ Types /\ (misled => Misled)
      /\ (~misled => Counts /\ Stream /\ BodySoFar /\ Fits /\ Talk)
  BY DEF KatareInv, Agree
<1>a. pc \notin Final => (asked = Len(taken) + 1 <=> Mid) /\ asked \in {Len(taken), Len(taken) + 1}
  BY <1>0 DEF Counts, Misled
<1>1. ASSUME UNCHANGED <<history, pc>> PROVE Same
  BY <1>1 DEF history, Outcome
<1>2. CASE Refill \/ SendBody \/ ReadBody \/ Over
  BY <1>1, <1>2 DEF Refill, SendBody, ReadBody, Over, vars
<1>3. CASE RefillFails \/ LineFails \/ WriteKills \/ WriteFails \/ Refrain \/ SinkFails
  <2>1. pc \notin Final /\ pc' \in {"failed", "killed"} /\ UNCHANGED <<asked, sent, taken, misled>>
    BY <1>3 DEF RefillFails, LineFails, WriteKills, WriteFails, Refrain, SinkFails,
       GiveUp, Close, Wants, Writes, Final, history
  <2> QED
    BY <2>1, Ending DEF Final, Abstract!Next
<1>4. CASE Dial \/ ReadGreeting \/ WriteGreeting \/ ReadCaps \/ BodySent
  <2>1. /\ pc \notin Final /\ UNCHANGED <<asked, sent, taken, misled>>
        /\ pc' \notin Final \/ pc' \in {"failed", "killed"}
    BY <1>4 DEF Dial, ReadGreeting, WriteGreeting, ReadCaps, BodySent, Close, Final, history
  <2>2. CASE pc' \notin Final
    BY <2>1, <2>2 DEF Outcome, Final
  <2>3. CASE pc' \in {"failed", "killed"}
    BY <2>1, <2>3, Ending DEF Final, Abstract!Next
  <2> QED
    BY <2>1, <2>2, <2>3
<1>5. CASE Request
  <2>1. /\ pc = "ask" /\ pc' \in {"upload", "status"} /\ asked' = asked + 1
        /\ UNCHANGED <<sent, taken, misled>>
    BY <1>5 DEF Request, AfterRequest
  <2>2. asked = Len(taken)
    BY <1>a, <2>1 DEF Mid, Final
  <2>3. Outcome = "open" /\ Outcome' = "open"
    BY <2>1 DEF Outcome, Final
  <2> QED
    BY <2>1, <2>2, <2>3 DEF Abstract!Ask, Abstract!Next
<1>6. CASE ReadStatus
  <2>1. pc = "status" /\ asked = Len(taken) + 1 /\ UNCHANGED <<asked, sent, misled>>
    BY <1>6, <1>a DEF ReadStatus, Mid, Final
  <2>2. CASE pc' \in {"failed", "killed"} /\ UNCHANGED taken
    BY <2>1, <2>2, Ending DEF Final, Abstract!Next
  <2>3. CASE pc' = "body" /\ UNCHANGED taken
    BY <2>1, <2>3 DEF Outcome, Final
  <2>4. ASSUME NEW r \in Replies, (Pending /\ r = Reply) \/ (misled /\ r.body = None),
               taken' = Append(taken, r), pc' = "ask"
        PROVE  Abstract!Next
    BY <1>0, <2>1, <2>4, Taking DEF Final, Abstract!Next
  <2>5. CASE misled
    <3>1. Plain(TRUE) \in Replies /\ Plain(TRUE).body = None
      BY PlainReply DEF Plain
    <3>2. CASE Refused(Said)
      BY <1>6, <2>2, <3>2 DEF ReadStatus, Close
    <3>3. CASE ~Refused(Said) /\ Verb \in {"text", "archive"}
      BY <1>6, <2>3, <3>3 DEF ReadStatus
    <3>4. CASE ~Refused(Said) /\ Verb \notin {"text", "archive"}
      <4>1. taken' = Append(taken, Plain(TRUE)) /\ pc' = "ask"
        BY <1>6, <3>4 DEF ReadStatus, Acted
      <4> QED
        BY <2>4, <2>5, <3>1, <4>1
    <3> QED
      BY <3>2, <3>3, <3>4
  <2>6. CASE ~misled
    <3>1. \/ pc' \in {"failed", "killed", "body"} /\ UNCHANGED taken
          \/ \E r \in Replies : Pending /\ r = Reply /\ taken' = Append(taken, r) /\ pc' = "ask"
      BY <1>0, <1>6, <2>6, StatusRead
    <3>2. CASE \E r \in Replies : Pending /\ r = Reply /\ taken' = Append(taken, r) /\ pc' = "ask"
      <4>1. PICK r \in Replies : Pending /\ r = Reply /\ taken' = Append(taken, r) /\ pc' = "ask"
        BY <3>2
      <4>2. Abstract!Next
        BY <2>4, <4>1
      <4> QED
        BY <4>2
    <3> QED
      BY <2>2, <2>3, <3>1, <3>2
  <2> QED
    BY <2>5, <2>6
<1>7. CASE BodyRead
  <2>1. pc = "body" /\ asked = Len(taken) + 1 /\ UNCHANGED <<asked, sent, misled>>
    BY <1>7, <1>a DEF BodyRead, Mid, Final
  <2>2. CASE pc' \in {"failed", "killed"} /\ UNCHANGED taken
    BY <2>1, <2>2, Ending DEF Final, Abstract!Next
  <2>3. ASSUME NEW r \in Replies, (Pending /\ r = Reply) \/ (misled /\ r.body = None),
               taken' = Append(taken, r), pc' = "ask"
        PROVE  Abstract!Next
    BY <1>0, <2>1, <2>3, Taking DEF Final, Abstract!Next
  <2>4. ~misled
    BY <1>0, <2>1 DEF Misled, Final
  <2>5. CASE \E r \in Replies : Pending /\ r = Reply /\ taken' = Append(taken, r) /\ pc' = "ask"
    <3>1. PICK r \in Replies : Pending /\ r = Reply /\ taken' = Append(taken, r) /\ pc' = "ask"
      BY <2>5
    <3>2. Abstract!Next
      BY <2>3, <3>1
    <3> QED
      BY <3>2
  <2> QED
    BY <1>0, <1>7, <2>2, <2>4, <2>5, BodyWhole
<1>8. CASE Finish
  <2>1. /\ pc = "ask" /\ pc' \in {"done", "killed"} /\ UNCHANGED <<asked, sent, taken, misled>>
    BY <1>8 DEF Finish, Close, history
  <2>2. asked = Len(taken)
    BY <1>a, <2>1 DEF Mid, Final
  <2> QED
    BY <2>1, <2>2, Ending DEF Final, Abstract!Next
<1>9. CASE pc \notin Final /\ (Greets \/ HearsGreeting \/ HearsUpload \/ Leaves)
  BY <1>1, <1>9 DEF Greets, HearsGreeting, HearsUpload, Leaves
<1>10. ASSUME ~misled, pc \in {"upload", "status"}, ~Pending PROVE Len(sent) < asked
  <2>1. Len(taken) \in Nat /\ Len(sent) \in Nat
    BY <1>0 DEF Types
  <2> QED
    BY <1>0, <1>10, <2>1 DEF Counts, Pending, Mid, Final
<1>11. CASE pc \notin Final /\ HearsRequest
  <2>1. UNCHANGED <<asked, taken, pc>> /\ (Len(sent) < asked \/ misled)
    BY <1>0, <1>10, <1>11, HearsRequestWhen DEF HearsRequest
  <2>2. CASE UNCHANGED <<sent, misled>>
    BY <2>1, <2>2 DEF Outcome
  <2>3. ASSUME NEW r \in Replies, Answers(up[1], r) PROVE Abstract!Next
    BY <1>0, <2>1, <2>3, Answering DEF Abstract!Next
  <2> QED
    BY <1>11, <2>2, <2>3 DEF HearsRequest
<1>12. CASE pc \notin Final /\ Publishes
  <2>1. UNCHANGED <<asked, taken, pc>> /\ (Len(sent) < asked \/ misled)
    BY <1>0, <1>10, <1>12, UploadWhen DEF Publishes
  <2>2. PICK r \in Replies : Answers("kango", r)
    BY <1>12 DEF Publishes
  <2> QED
    BY <1>0, <2>1, <2>2, Answering DEF Abstract!Next
<1>13. CASE UNCHANGED vars
  BY <1>1, <1>13 DEF vars
<1> QED
  BY <1>2, <1>3, <1>4, <1>5, <1>6, <1>7, <1>8, <1>9, <1>11, <1>12, <1>13
     DEF Next, Client, Registry

(***************************************************************************)
(* However reads and writes cut the stream and wherever it ends, the       *)
(* client acts upon the replies it was sent, whole and in order, one for   *)
(* each request, and upon nothing once it has given up.  The one exception *)
(* is a reply to a publisher that brings a body (pkg.c:1760-1787): what    *)
(* the client takes for a status after it need not have been sent as one,  *)
(* but it still acts at most once for each request, and upon no body.      *)
(***************************************************************************)
THEOREM IsExchange == Spec => Faithful
<1> QED
  BY AbstractInit, AbstractStep, Invariance, PTL DEF Spec, Faithful, Abstract!Spec
=============================================================================
