------------------------- MODULE MCRepositoryContext -------------------------
(* Four commits: a small package with a test, the same with an import cycle, *)
(* and two no map is made of.                                                *)
EXTENDS RepositoryContext

MCLower(n) == IF n = "App" THEN "app" ELSE n

Text(id) == [id |-> id, size |-> 1, text |-> "clean", imports |-> {}]
Code(id, imports) == [Text(id) EXCEPT !.imports = imports]
From(level, module, names) == [level |-> level, module |-> module, names |-> names]

Path(dirs, stem, py) == [dirs |-> dirs, stem |-> stem, py |-> py]
File(path, blob) == [path |-> path, mode |-> "100644", blob |-> blob]

PkgInit == Path(<<"pkg">>, "__init__", TRUE)
Core    == Path(<<"pkg">>, "core", TRUE)
App     == Path(<<>>, "app", TRUE)
Test    == Path(<<"tests">>, "test_app", TRUE)
Notes   == Path(<<>>, "notes.md", FALSE)

\* app imports pkg.core, the test imports app, pkg takes core from itself.
Common == {File(PkgInit, Code("init", {From(1, <<>>, {"core"})})),
           File(App, Code("app", {From(0, <<"pkg", "core">>, {"run"}), From(0, <<"os">>, {})})),
           File(Test, Code("test", {From(0, <<"app">>, {})}))}

MCCommitTree ==
  <<Common \union {File(Core, Code("core", {})), File(Notes, [Text("notes") EXCEPT !.text = "binary"])},
    Common \union {File(Core, Code("core2", {From(1, <<>>, {"*"}), From(0, <<"app">>, {})}))},
    Common \union {File(Path(<<>>, "App", TRUE), Code("core", {}))},
    {File(Core, Code("up", {From(2, <<"app">>, {})}))}>>

Below(p) == [path |-> p, below |-> TRUE]
MCScopes == {{}, {Below(Path(<<>>, "pkg", FALSE))}, {[path |-> Core, below |-> FALSE]}}

MCRequests == <<[base |-> 1, allowed |-> {Below(Path(<<>>, "pkg", FALSE))}],
                [base |-> 2, allowed |-> {[path |-> Core, below |-> FALSE]}]>>

Session(request, trial, git) ==
  [request |-> request, trial |-> trial, git |-> git, workspace |-> trial, gitWorkspace |-> git]
MCSessions == {Session(1, 1, 1), Session(1, 1, 2), Session(1, 2, 1), Session(2, 2, 2)}

Ref(baseline, head) == [baseline |-> baseline, head |-> head, remote |-> FALSE]
MCRefs == {Ref(None, 1), Ref(1, None), Ref(1, 1), Ref(1, 2), Ref(2, 2), Ref(2, None), Ref(None, 3), Ref(None, 4)}

MCQueries ==
  {[seeds |-> s, depth |-> d, limit |-> l] : <<s, d, l>> \in
     {<<{App}, 1, 5>>, <<{App}, 2, 5>>, <<{Core}, 2, 3>>, <<{Core, Notes}, 0, 5>>}}
==============================================================================
