------------------------------- MODULE MCKabuk -------------------------------
(* Archives of up to three files and what is one octet away from them, bodies  *)
(* of records up to a length, and trees to publish.                            *)
EXTENDS Kabuk, Records, TLC

CONSTANT BodyMax

a == <<97>>
b == <<98>>
under(dir, p) == dir \o <<Slash>> \o p
digit == <<49>>

\* Contents, among them octets that mean something elsewhere in an archive.
Contents == {<<>>, KABUK_TERM, digit}

\* Paths, good and bad, in the order of their octets.
Paths == <<<<>>, <<Dot, Dot>>, under(<<>>, a), digit, a, under(a, <<>>), under(a, <<Dot>>),
           under(a, b), <<97, Backslash>>, b, under(b, a), <<sampura>>, under(<<sampura>>, a)>>

File(p, d) == [path |-> p, size |-> Len(d), data |-> d]

\* Lists to write: sorted or not, and with a file that grew or shrank meanwhile.
FileLists ==
  {<<File(Paths[i], c)>> : i \in DOMAIN Paths, c \in Contents}
    \cup {<<File(Paths[i], c), File(Paths[j], d)>> :
            i, j \in DOMAIN Paths, c, d \in Contents}
    \cup {<<File(a, c), File(p, digit), File(q, d)>> :
            p, q \in {under(a, b), b, under(b, a), <<sampura>>}, c, d \in Contents}
    \cup {<<[path |-> a, size |-> 1, data |-> d], File(b, digit)>> : d \in Contents}

\* One octet left out, changed or put in.
Damaged(s) ==
  {RemoveAt(s, i) : i \in DOMAIN s}
    \cup {[s EXCEPT ![i] = c] : i \in DOMAIN s, c \in {LF, Zero, 49, Slash}}
    \cup {InsertAt(s, i, c) : i \in 1..Len(s) + 1, c \in {LF, Zero, 97, sampura}}

\* Trees of up to two files or links, and up to two patterns.  A directory a stands
\* before a file a., and what lies in it sorts after it.
TreePaths ==
  {<<97, Dot>>} \cup {<<n>> : n \in {97, sampura, git, dist, object}}
    \cup {under(<<n>>, <<m>>) : n \in {97, sampura, dist, hidden}, m \in {97, git, dist}}
Pattern(negate, dirs, glob) == [negate |-> negate, dirs |-> dirs, glob |-> glob]
Patterns == {Pattern(n, d, g) : n, d \in BOOLEAN, g \in {a, under(a, <<dist>>), <<star>>}}

Trees ==
  {[files |-> [p \in F |-> digit], links |-> {}] : F \in {{p, q} : p, q \in TreePaths}}
    \cup {[files |-> (p :> digit), links |-> {q}] : p, q \in TreePaths}

\* No file lies where another needs a directory.
IsTree(t) == \A p \in DOMAIN t.files, q \in DOMAIN t.files \cup t.links : p \notin Above(q)

VARIABLES files, octets, tree, ig, body

NoArchive == files = <<File(a, digit)>> /\ octets = kabuk_write(files).archive
NoTree == tree = [files |-> (a :> digit), links |-> {}] /\ ig = <<>>
NoBody == body = <<>>
NoKabuk == NoArchive /\ NoTree /\ NoBody

KabukInit ==
  \/ /\ files \in {l \in FileLists : kabuk_write(l).ok}
     /\ octets = kabuk_write(files).archive
     /\ NoTree /\ NoBody
  \/ /\ tree \in {t \in Trees : IsTree(t)}
     /\ ig \in {<<>>} \cup {<<p>> : p \in Patterns}
          \cup {<<p, Pattern(TRUE, FALSE, a)>> : p \in {q \in Patterns : ~q.negate}}
     /\ NoArchive /\ NoBody
  \/ /\ body \in BoundedSeq({97, Colon, Space, LF}, BodyMax)
     /\ NoArchive /\ NoTree

\* An octet of the archive is lost, changed or added on the way.
Damage == /\ NoTree /\ NoBody
          /\ octets = kabuk_write(files).archive
          /\ octets' \in Damaged(octets)
          /\ UNCHANGED <<files, tree, ig, body>>

\* A file, as far as it was when it was measured.
Cut(f) == [f EXCEPT !.data = SubSeq(@, 1, f.size)]

Fresh == [files |-> <<>>, dirs |-> {}, ok |-> TRUE]
InTheWay == [Fresh EXCEPT !.files = (a :> KABUK_TERM), !.dirs = {b}]

\* The limits a reader has and a writer does not.
Within(list) ==
  /\ Len(list) <= MaxEntries
  /\ \A i \in DOMAIN list : list[i].size <= MaxFile
  /\ FoldLeft(LAMBDA n, f : n + f.size, 0, list) <= MaxTotal

\* What is written is read back (kabuk.h:65-67): "kabuk_write checks both and fails
\* rather than silently emitting a non-conforming archive".
WrittenIsRead ==
  kabuk_write(files).ok =>
    kabuk_read(kabuk_write(files).archive) = [ok |-> TRUE, files |-> [i \in DOMAIN files |-> Cut(files[i])]]

\* What is written is read back exactly where the limits are kept, which only the
\* reader knows, and no file has the name of the terminator: its path line is taken
\* for the end (kabuk.c:128-198, 229-313).  A file that grew while it was packed is
\* cut at the length that stands in front of it, so that it moves nothing behind it.
OnlyTermIsLost ==
  ~NoArchive /\ kabuk_write(files).ok =>
    (WrittenIsRead <=> Within(files) /\ \A i \in DOMAIN files : files[i].path # <<sampura>>)

\* Files have one archive: whatever is read, damaged or not, is what would be
\* written of the files found in it.  No second spelling of a length or of a path, no
\* other order, nothing before, between or behind the entries passes (kabuk.c:202-313),
\* so the digest that a registry signs stands for the files.
OneArchive ==
  ~NoArchive => \E read \in {kabuk_read(octets)} :
    read.ok => kabuk_write(read.files) = [ok |-> TRUE, archive |-> octets]

\* A damaged archive creates nothing (kabuk.c:415-416: "a malformed tail cannot leave
\* a half-extracted tree"), an archive that is read creates its files and no others,
\* unless one file lies where another needs a directory, and a destination that has
\* something in the way keeps it.
AllOrNothing ==
  ~NoArchive =>
    \E read \in {kabuk_read(octets)} :
    \E out \in {create_files(read, Fresh)}, over \in {create_files(read, InTheWay)},
       paths \in {{read.files[i].path : i \in DOMAIN read.files}} :
      /\ out.ok <=> read.ok /\ \A p, q \in paths : p \notin Above(q)
      /\ out.ok => /\ DOMAIN out.files = paths
                   /\ \A i \in DOMAIN read.files : out.files[read.files[i].path] = read.files[i].data
      /\ ~read.ok => out = [Fresh EXCEPT !.ok = FALSE]
      /\ over.files[a] = InTheWay.files[a]
      /\ over.ok => out.ok

\* Whatever the tree and its patterns, what `oboe publish' picks is packed (found
\* in the order of the directories, sorted by path) and unpacks to the same files
\* (pkg.c:1612-1691), except for a file in the root with the terminator's name.
PublishedUnpacks ==
  ~NoTree =>
    \E kabuk \in {cmd_publish(tree, ig)}, found \in {walk(tree, ig)} :
      found.ok /\ found.paths # {} =>
        /\ kabuk.ok
        /\ <<sampura>> \notin found.paths =>
             kabuk_extract(kabuk.archive, Fresh).files = [p \in found.paths |-> tree.files[p]]

\* Bodies are read whole or not at all: exactly the lines `key: value' with a lower
\* case key that is not too long are taken, a record ends at a blank line and nowhere
\* else, and printing the records gives back the body but for blank lines
\* (record.c).  A record that is put and printed reads as itself exactly where its
\* value has no line feed in it, which record_put lets pass.
RecordsRoundTrip ==
  LET read == record_set_parse(body)
      starts == {i \in DOMAIN body : body[i] # LF /\ \A j \in {i - 1, i - 2} \cap DOMAIN body : body[j] = LF}
      packed == FoldLeft(LAMBDA s, c : IF c = LF /\ (s = <<>> \/ Last(s) = LF) THEN s ELSE Append(s, c),
                         <<>>, body)
      put == record_put(<<>>, a, body)
  IN NoBody \/
     /\ read.ok <=> /\ body # <<>> => Last(body) = LF
                    /\ \A line \in Pieces(body, LF) \ {<<>>} :
                         \E n \in 1..(KeyMax - 1) :
                           /\ Len(line) > n + 2 /\ key_valid(SubSeq(line, 1, n))
                           /\ SubSeq(line, n + 1, n + 2) = <<Colon, Space>>
     /\ read.ok => /\ FlattenSeq([i \in DOMAIN read.records |-> record_format(read.records[i])]) = packed
                   /\ Len(read.records) = Cardinality(starts)
     /\ body # <<>> => (record_set_parse(record_format(put)) = [ok |-> TRUE, records |-> <<put>>]
                          <=> LF \notin Range(body))

\* An archive stands for its files and files for their archive: packing and reading
\* are inverse to each other, within the limits.
ArchiveOfFiles == OnlyTermIsLost /\ OneArchive

\* What is unpacked is what was published, or nothing at all.
UnpacksWhole == AllOrNothing /\ PublishedUnpacks
=============================================================================
