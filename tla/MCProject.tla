----------------------------- MODULE MCProject ------------------------------
(***************************************************************************)
(* Project with three packages: "app" and "ext" depend on "lib", whose     *)
(* versions they may not be able to share, and "lib" 1.0.0 may be          *)
(* republished with other contents.                                        *)
(***************************************************************************)
EXTENDS Project

v1 == release(1, 0, 0)
v2 == release(2, 0, 0)
eq(v) == [kind |-> "eq", base |-> v]
ge(v) == [kind |-> "ge", base |-> v]
caret(v) == [kind |-> "caret", base |-> v]

rel(n, v, needs) == [izim |-> n, ver |-> v, sema |-> 1, cizujo |-> needs]
need(n, c) == [izim |-> n, cons |-> c]

app1 == rel("app", v1, <<need("lib", caret(v1))>>)
app2 == rel("app", v2, <<BadLine, need("lib", ge(v2))>>)
ext1 == rel("ext", v1, <<need("lib", eq(v2))>>)
lib1 == rel("lib", v1, <<>>)
lib2 == rel("lib", v2, <<>>)
lib1again == [lib1 EXCEPT !.sema = 2]

MCNames == {"app", "ext", "lib"}
MCReleases == {app1, app2, ext1, lib1, lib2, lib1again}
MCOffered == {app1, ext1, lib1, lib2}

ask(n, c) == [izim |-> n, cons |-> c]
MCRequests == {ask("app", Bare), ask("lib", eq(v1))}

MCEdits == {ask("app", eq(v1)), ask("ext", BadLine), ask("lib", Absent)}
NoEdits == {}
=============================================================================
