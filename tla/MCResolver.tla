----------------------------- MODULE MCResolver -----------------------------
(***************************************************************************)
(* Resolver over a family of small catalogs.  "app" is asked for; it and   *)
(* "lib" have two releases each whose needs range over the lists below     *)
(* (nothing, diamonds, cycles, self-dependencies, unparsable lines), and   *)
(* "base" has three releases without needs, one of them a pre-release.     *)
(***************************************************************************)
EXTENDS Resolver

\* Constraints as a record would spell them: *, =v, >=v, ^v.
any == [kind |-> "any", base |-> release(0, 0, 0)]
eq(v) == [kind |-> "eq", base |-> v]
ge(v) == [kind |-> "ge", base |-> v]
caret(v) == [kind |-> "caret", base |-> v]

v1 == release(1, 0, 0)
v11 == release(1, 1, 0)
v2 == release(2, 0, 0)
v2rc == [v2 EXCEPT !.tag = <<[num |-> FALSE, val |-> 1]>>]

need(n, c) == [izim |-> n, cons |-> c]
rel(v, needs) == [usable |-> TRUE, kaldy |-> FALSE, ver |-> v, cizujo |-> needs]
yanked(r) == [r EXCEPT !.kaldy = TRUE]

MCNames == {"app", "lib", "base"}
MCRootCons == any

AppNeeds == {<<need("lib", any)>>,
             <<need("lib", any), need("base", any)>>,
             <<need("base", any), need("lib", caret(v1))>>,
             <<BadLine, need("base", caret(v1)), need("lib", any)>>,
             <<need("lib", eq(v1)), need("base", ge(v2rc))>>}

LibNeeds == {<<>>,
             <<need("base", caret(v1))>>,
             <<need("base", eq(v2))>>,
             <<need("base", ge(v11)), need("base", any)>>,
             <<need("app", eq(v1))>>,
             <<need("base", any), need("lib", caret(v1))>>}

BaseRecords == {<<rel(v1, <<>>), rel(v11, <<>>), rel(v2, <<>>)>>,
                <<rel(v2rc, <<>>), yanked(rel(v11, <<>>)), rel(v1, <<>>)>>,
                <<rel(v2, <<>>), [rel(v2, <<>>) EXCEPT !.usable = FALSE]>>}

MCCatalogs ==
  {[n \in MCNames |-> IF n = "app" THEN <<rel(v1, a1), rel(v2, a2)>>
                      ELSE IF n = "lib" THEN <<rel(v2, l2), rel(v1, l1)>>
                      ELSE b] :
     a1 \in AppNeeds, a2 \in AppNeeds, l1 \in LibNeeds, l2 \in LibNeeds,
     b \in BaseRecords}

NoUploads == {}

\* For the run in which the registry moves: fewer catalogs, two uploads.
ChurnCatalogs ==
  {[n \in MCNames |-> IF n = "app" THEN <<rel(v1, <<need("lib", any)>>), rel(v2, a)>>
                      ELSE IF n = "lib" THEN <<rel(v1, l)>>
                      ELSE <<rel(v1, <<>>), rel(v2, <<>>)>>] :
     a \in AppNeeds, l \in LibNeeds}

MCUploads == {[izim |-> "lib", rec |-> rel(v2, <<need("app", eq(v1))>>)],
              [izim |-> "base", rec |-> rel(v11, <<need("lib", any)>>)]}
=============================================================================
