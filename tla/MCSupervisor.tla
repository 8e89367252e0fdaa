---------------------------- MODULE MCSupervisor ----------------------------
(***************************************************************************)
(* Small instances of Supervisor: two Pull Requests, p with a draft that   *)
(* changes ordinary code and q that may collide with it, the paths of the  *)
(* product check configuration, and Issues of which one authorizes less.   *)
(***************************************************************************)
EXTENDS Supervisor, TLC

CONSTANTS p1, p2, i1, i2, b1, b2, b3, h1, h2, h3, code, docs, config,
          ci, product, w1, w2, t1, c1

MCBodyIssue == (b1 :> i1) @@ (b2 :> i2) @@ (b3 :> None)

\* h2 extends h1 beyond the code; h3 is the other Pull Request's.
MCHeadPaths    == (h1 :> {code}) @@ (h2 :> {code, config}) @@ (h3 :> {docs})
MCHeadConfig   == (h1 :> {}) @@ (h2 :> {product}) @@ (h3 :> {})
MCHeadWorkflow == (h1 :> w1) @@ (h2 :> w1) @@ (h3 :> w1)

MCScopes == {<<{code}, {}>>, <<{code, docs, config}, {config}>>}

MCInitialDefault == [sha |-> 0, config |-> {}, workflow |-> w1]

\* Reviews of a standard Pull Request, and of the protected tier too.
MCGeneral  == {{}, {<<"general", "clean">>}, {<<"general", "blocked">>}}
MCMarkSets == {{}, {<<"general", "clean">>}, {<<"scope-security", "clean">>, <<"correctness-race", "clean">>}}

MCInitialPull ==
  (p1 :> [state |-> "open", head |-> h1, body |-> b1, draft |-> TRUE,
          mergeable |-> TRUE, hold |-> FALSE]) @@
  (p2 :> [state |-> "closed", head |-> h3, body |-> b2, draft |-> FALSE,
          mergeable |-> TRUE, hold |-> FALSE])

\* p1 changes a protected path and p2 the same code.
MCCollidingPull == [MCInitialPull EXCEPT ![p1].head = h2, ![p2].head = h1]

=============================================================================
