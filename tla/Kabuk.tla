-------------------------------- MODULE Kabuk --------------------------------
(***************************************************************************)
(* kabuk archives (kabuk.c): a magic, then for each file a line with its    *)
(* path, a line with its length and its octets, in the order of the paths,  *)
(* then the terminator.                                                     *)
(***************************************************************************)
EXTENDS Octets, FiniteSetsExt

CONSTANTS PathMax,     \* KABUK_PATH_MAX
          DigitsMax,   \* digits of a length: 10
          MaxEntries, MaxFile, MaxTotal

KABUK_MAGIC == <<107>>
sampura == 115                  \* the word, as one octet
KABUK_TERM == <<sampura, LF>>

Failed == [ok |-> FALSE]

\* A path names a file below the destination, and names it in one way.
kabuk_path_ok(path) ==
  /\ path # <<>> /\ Len(path) <= PathMax
  /\ \A i \in DOMAIN path : path[i] >= 32 /\ path[i] \notin {Backslash, Delete}
  /\ Pieces(path, Slash) \cap {<<>>, <<Dot>>, <<Dot, Dot>>} = {}

kabuk_path_cmp(a, b) == IF a = b THEN 0 ELSE IF OctetLess(a, b) THEN -1 ELSE 1

RECURSIVE Digits(_)
Digits(n) == IF n < 10 THEN <<Zero + n>> ELSE Append(Digits(n \div 10), Zero + (n % 10))

\* A file is [path, size, data]: the size it had when it was measured and what
\* was there when it was read.  One that grew is cut, one that shrank is an error.
Entry(f) == f.path \o <<LF>> \o Digits(f.size) \o <<LF>> \o SubSeq(f.data, 1, f.size)

kabuk_write(files) ==
  IF \E i \in DOMAIN files :
       \/ ~kabuk_path_ok(files[i].path)
       \/ i > 1 /\ kabuk_path_cmp(files[i - 1].path, files[i].path) >= 0
       \/ Len(files[i].data) < files[i].size
  THEN Failed
  ELSE [ok |-> TRUE,
        archive |-> KABUK_MAGIC \o FlattenSeq([i \in DOMAIN files |-> Entry(files[i])])
                      \o KABUK_TERM]

\* Everything from the n-th octet on, and up to the next line feed.
From(s, n) == SubSeq(s, n, Len(s))
LineEnd(s) == SelectInSeq(s, LAMBDA c : c = LF)

Value10(digits) == FoldLeft(LAMBDA v, d : v * 10 + (d - Zero), 0, digits)

\* A bug: a length may start with a zero.
read_length_zeros(line) ==
  IF /\ Len(line) \in 1..DigitsMax
     /\ \A i \in DOMAIN line : line[i] \in Zero..(Zero + 9)
  THEN [ok |-> TRUE, size |-> Value10(line)]
  ELSE Failed

\* A length in the one spelling it has.
read_length(line) ==
  IF /\ Len(line) \in 1..DigitsMax
     /\ \A i \in DOMAIN line : line[i] \in Zero..(Zero + 9)
     /\ line[1] = Zero => Len(line) = 1
  THEN [ok |-> TRUE, size |-> Value10(line)]
  ELSE Failed

\* The entry at the front of `rest': its file, and what follows it.
ReadEntry(rest) ==
  LET end == LineEnd(rest)
      path == SubSeq(rest, 1, end - 1)
      after == From(rest, end + 1)
      length == read_length(SubSeq(after, 1, LineEnd(after) - 1))
      body == From(after, LineEnd(after) + 1)
  IN IF end = 0 \/ ~kabuk_path_ok(path) \/ LineEnd(after) = 0 \/ ~length.ok THEN Failed
     ELSE IF length.size > MaxFile \/ length.size > Len(body) THEN Failed
     ELSE [ok |-> TRUE, rest |-> From(body, length.size + 1),
           file |-> [path |-> path, size |-> length.size,
                     data |-> SubSeq(body, 1, length.size)]]

\* The entries one after another; `files' are the ones before.
RECURSIVE ReadEntries(_, _)
ReadEntries(rest, files) ==
  LET e == ReadEntry(rest)
      fits == /\ e.ok
              /\ files # <<>> => kabuk_path_cmp(Last(files).path, e.file.path) < 0
              /\ FoldLeft(LAMBDA n, f : n + f.size, e.file.size, files) <= MaxTotal
              /\ Len(files) < MaxEntries
  IN IF IsPrefix(KABUK_TERM, rest) THEN [ok |-> rest = KABUK_TERM, files |-> files]
     ELSE IF fits THEN ReadEntries(e.rest, Append(files, e.file))
     ELSE [ok |-> FALSE, files |-> files]

\* Whether the archive is one, and the files up to where it is.
kabuk_read(archive) ==
  IF IsPrefix(KABUK_MAGIC, archive)
  THEN ReadEntries(From(archive, Len(KABUK_MAGIC) + 1), <<>>)
  ELSE [ok |-> FALSE, files |-> <<>>]

-----------------------------------------------------------------------------
(* Extraction into a destination [files, dirs, ok].  ok becomes FALSE at the   *)
(* first file that cannot be created, and what was created by then stays.      *)

\* The directories that a path lies in.
Above(path) == {SubSeq(path, 1, i - 1) : i \in {j \in DOMAIN path : path[j] = Slash}}

\* Each of them is made, up to one whose name a file has.
open_parent(d, path) ==
  LET blocked == Above(path) \cap DOMAIN d.files
  IN [d EXCEPT !.dirs = @ \cup {a \in Above(path) : \A b \in blocked : Len(a) < Len(b)},
               !.ok = blocked = {}]

extract_one(d, file) ==
  LET p == open_parent(d, file.path)
  IN IF ~d.ok THEN d
     ELSE IF ~p.ok \/ file.path \in DOMAIN p.files \cup p.dirs THEN [p EXCEPT !.ok = FALSE]
     ELSE [p EXCEPT !.files = [q \in DOMAIN @ \cup {file.path} |->
                                 IF q = file.path THEN file.data ELSE @[q]]]

\* A bug: files are created while the archive is read.
create_while_read(read, d) == [FoldLeft(extract_one, d, read.files) EXCEPT !.ok = @ /\ read.ok]

\* Nothing is created before all of the archive is read.
create_files(read, d) ==
  IF read.ok THEN FoldLeft(extract_one, d, read.files) ELSE [d EXCEPT !.ok = FALSE]

kabuk_extract(archive, d) == create_files(kabuk_read(archive), d)

-----------------------------------------------------------------------------
(* What `oboe publish' packs (pkg.c).  A tree is [files, links]: the octets of *)
(* each file, and the paths of symbolic links.  A name that a rule is about is *)
(* one octet, the last of its path.                                           *)

git == 40        \* ".git", ".oboe", ".DS_Store"
hidden == 41     \* any other name with a dot in front
dist == 100
star == 42
object == 111    \* "*.o", "*.kate-swp"

\* fnmatch(3) of the path, or of its last name; a glob is a path or one star.
fnmatch(glob, rel) == glob \in {<<star>>, rel, <<Last(rel)>>}

always_excluded(name, toplevel) ==
  name \in {git, object} \cup (IF toplevel THEN {dist, hidden} ELSE {})

\* The last pattern that matches decides.  A pattern is [negate, dirs, glob].
ignored(ig, rel, is_dir) ==
  LET matches(p) == (p.dirs => is_dir) /\ fnmatch(p.glob, rel)
      last == SelectLastInSeq(ig, matches)
  IN last # 0 /\ ~ig[last].negate

\* The entries at and above a path, the path first.
UpFrom(path) == {path} \cup Above(path)

\* walk() meets a path: nothing at or above it is excluded or, above it, ignored.
Met(path, ig) ==
  /\ \A p \in UpFrom(path) : ~always_excluded(Last(p), Len(p) = 1)
  /\ \A p \in Above(path) : ~ignored(ig, p, TRUE)

\* The files to pack; a link is refused even where a pattern ignores it.
walk(tree, ig) ==
  IF \E l \in tree.links : Met(l, ig) THEN Failed
  ELSE [ok |-> TRUE,
        paths |-> {p \in DOMAIN tree.files : Met(p, ig) /\ ~ignored(ig, p, FALSE)}]

InOrder(paths) == SetToSortSeq(paths, OctetLess)

\* The archive of a tree that is published.
cmd_publish(tree, ig) ==
  LET found == walk(tree, ig)
      file(p) == [path |-> p, size |-> Len(tree.files[p]), data |-> tree.files[p]]
      paths == InOrder(found.paths)
  IN IF ~found.ok \/ found.paths = {} THEN Failed
     ELSE kabuk_write([i \in DOMAIN paths |-> file(paths[i])])
=============================================================================
