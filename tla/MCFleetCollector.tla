--------------------------- MODULE MCFleetCollector ---------------------------
(* A protected Pull Request with two workflows, two threads and three        *)
(* comments, and a project without a Pull Request.                           *)
EXTENDS FleetCollector

MCProject ==
  [repository |-> "a", pull |-> 1, workflows |-> {"CI", "Unit Tests"}, coordinators |-> {"owner"},
   risk |-> "protected", human |-> FALSE, blocker |-> None, baseline |-> None]
MCBaselines ==
  <<[repository |-> "b", pull |-> None, workflows |-> {}, coordinators |-> {"owner"},
     risk |-> "low", human |-> FALSE, blocker |-> None, baseline |-> "idle",
     note |-> Text("phase", 12, FALSE)]>>

Pull(state, draft, head) == [state |-> state, draft |-> draft, head |-> head, updated |-> 0]
MCPulls == {Pull("open", TRUE, "h1"), Pull("open", FALSE, "h1"), Pull("open", FALSE, "h2"),
            Pull("closed", FALSE, "h1"), Pull("merged", FALSE, "h1")}

Run(id, name, raw, updated) == [id |-> id, name |-> name, raw |-> raw, updated |-> updated]
CI    == {Run(1, "CI", "in_progress", 1), Run(1, "CI", "success", 2), Run(1, "CI", "failure", 3),
          Run(1, "CI", "success", 5)}
Tests == {Run(2, "Unit Tests", "success", 2), Run(2, "Unit Tests", "in_progress", 3)}
Again == {Run(3, "CI", "queued", 4), Run(4, "CI", "startup_failure", 6)}
MCRuns == CI \union Tests \union Again

Mark(stage, verdict) == [head |-> "h1", stage |-> stage, verdict |-> verdict]
Comment(id, marks) ==
  [id |-> id, author |-> "owner", edited |-> FALSE, summary |-> TRUE, mentions |-> {"h1"}, at |-> id, marks |-> marks]
Both    == Comment(1, <<Mark("scope-security", "clean"), Mark("correctness-race", "clean")>>)
General == Comment(2, <<Mark("general", "clean")>>)
Finding == Comment(3, <<Mark("general", "blocked")>>)
MCComments == {Both, General, Finding}

MCWorlds ==
  [pull : MCPulls \ {Pull("open", FALSE, "h2"), Pull("closed", FALSE, "h1")},
   runs : {{r, t} : r \in CI \ {Run(1, "CI", "success", 5)}, t \in Tests}
          \union {{Run(1, "CI", "success", 2), Run(2, "Unit Tests", "success", 2)} \union again :
                    again \in {{Run(3, "CI", "queued", 4)}, Again}},
   threads : {[t \in Threads |-> "absent"], <<"resolved", "open">>, <<"resolved", "resolved">>},
   comments : {{Both}, {Both, General}, {Both, Finding}},
   note : {Text("phase", 12, FALSE)}]
  \union
  [pull : {Pull("open", FALSE, "h1")}, runs : {{Run(1, "CI", "success", 2), Run(2, "Unit Tests", "success", 2)}},
   threads : {[t \in Threads |-> "absent"]}, comments : {{Both}}, note : {Text("phase", 12, TRUE)}]
==============================================================================
