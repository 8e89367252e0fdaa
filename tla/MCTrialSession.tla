---------------------------- MODULE MCTrialSession ----------------------------
(* A fixture of one file, and the attributes an agent or a late writer may   *)
(* add to it: by content 1 of them Git commits content 1 of the file as 0.   *)
EXTENDS TrialSession

InScope  == <<"src", "a">>
MCAttributes == <<"src", ".gitattributes">>
MCPaths  == {InScope, MCAttributes}
MCClean(attributes, p, content) ==
  IF attributes = 1 /\ p = InScope /\ content = 1 THEN 0 ELSE content

File(p, c) == [path |-> p, kind |-> "file", content |-> c]
MCFixture  == {File(InScope, 0)}
MCGrader   == {File(<<"grader", "grade">>, 0)}
MCManifest ==
  [task |-> <<"t1">>, version |-> 1, completion |-> "change_required", tier |-> "low",
   authorization |-> None, reason |-> None,
   allowed |-> {[path |-> <<"src">>, scope |-> TRUE]}, trials |-> 1, profile |-> "linux",
   fixture |-> BundleOf(MCFixture), grader |-> BundleOf(MCGrader), entrypoint |-> <<"grader", "grade">>]

MCDisk  == (<<"tasks", "n">> :> [kind |-> "file", content |-> MCManifest])
        @@ (<<"fixtures", "n">> :> [kind |-> "directory", content |-> MCFixture])
        @@ (<<"graders", "n">> :> [kind |-> "directory", content |-> MCGrader])
MCEntry == [task |-> <<"t1">>, version |-> 1, manifest |-> MCManifest, path |-> <<"tasks", "n">>,
            fixture |-> <<"fixtures", "n">>, grader |-> <<"graders", "n">>]
MCCatalog == [id |-> "suite", entries |-> {MCEntry}]
MCPlan  == [suite |-> "suite", tasks |-> {<<"t1">>}, trials |-> 1, profile |-> "linux", interruption |-> {},
            arms |-> {[id |-> <<"a">>, role |-> "baseline", execution |-> "x"],
                      [id |-> <<"b">>, role |-> "planner", execution |-> "y"]}]
MCCell  == [arm |-> <<"a">>, task |-> <<"t1">>, trial |-> 1]

MCLimit == [files |-> 1, bytes |-> 7, id |-> 3, source |-> 4, checks |-> 1, count |-> 1,
            iterations |-> 1, elapsed |-> 1, minutes |-> 0, cost |-> 0]

MCObservations ==
  {[environment |-> "e1", elapsed |-> 1, unresolved |-> 0, requests |-> 0, confirmed |-> 0,
    false |-> 0, handoff |-> "not_applicable", iterations |-> 1, api |-> 0, minutes |-> 0,
    cost |-> None, wellFormed |-> TRUE, bytes |-> 0, checks |-> {}]}
==============================================================================
