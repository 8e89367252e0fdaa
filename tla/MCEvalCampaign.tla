---------------------------- MODULE MCEvalCampaign ----------------------------
(* A suite of two tasks and its damaged variants, plans over it, and what    *)
(* trials may leave: one change, within or out of scope, or none.            *)
EXTENDS EvalCampaign

File(p, c) == [path |-> p, kind |-> "file", content |-> c]
InScope  == <<"src", "a">>
OutScope == <<"b">>
Fixture  == {File(InScope, 0), File(OutScope, 0)}
Large    == Fixture \union {File(<<"src", "c">>, 0)}  \* one file more than a request lists
Grader   == {File(<<"grader", "grade">>, 0)}

Manifest(task, version, completion, tier) ==
  [task |-> task, version |-> version, completion |-> completion, tier |-> tier,
   authorization |-> IF tier = "protected" THEN [expectedHead |-> TRUE] ELSE None,
   reason |-> IF completion = "human_action_required" THEN "billing" ELSE None,
   allowed |-> {[path |-> <<"src">>, scope |-> TRUE]}, trials |-> 1, profile |-> "linux",
   fixture |-> BundleOf(Fixture), grader |-> BundleOf(Grader),
   entrypoint |-> <<"grader", "grade">>]

Change   == Manifest(<<"t1">>, 1, "change_required", "protected")
Human    == Manifest(<<"t2">>, 1, "human_action_required", "low")
Change2  == Manifest(<<"t1">>, 2, "no_change_required", "low")
Unsigned == [Change EXCEPT !.authorization = None]
ChangeLarge == [Change EXCEPT !.fixture = BundleOf(Large)]

Entry(m, n) ==
  [task |-> m.task, version |-> m.version, manifest |-> m, path |-> <<"tasks", n>>,
   fixture |-> <<"fixtures", n>>, grader |-> <<"graders", n>>]

Catalog(entries) == [id |-> "suite", entries |-> entries]
Nested == <<"graders", "n1", "x">>  \* joined with the entry point, longer than a source may be

MCCatalogs ==
  {Catalog({Entry(Change, "n1"), Entry(Human, "n2")}),
   Catalog({Entry(Change, "n1"), Entry(Change2, "n2")}),
   Catalog({Entry(ChangeLarge, "n1")}), Catalog({[Entry(Change, "n1") EXCEPT !.grader = Nested]}),
   Catalog({Entry(Unsigned, "n1"), Entry(Human, "n2")}),
   Catalog({Entry(Change, "n1"), [Entry(Human, "n2") EXCEPT !.fixture = <<"fixtures", "n1", "x">>]})}

There(kind, content) == [kind |-> kind, content |-> content]

Disk(first, second, grader) ==
  [p \in {<<d, n>> : d \in {"tasks", "fixtures", "graders"}, n \in {"n1", "n2"}}
         \union {<<"fixtures", "n1", "x">>, Nested} |->
     CASE p[1] = "tasks" -> There("file", IF p[2] = "n1" THEN first ELSE second)
       [] p[1] = "fixtures" -> There("directory", IF first = ChangeLarge THEN Large ELSE Fixture)
       [] OTHER -> There("directory", grader)]

MCDisks ==
  {Disk(Change, Human, Grader), Disk(Change, Change2, Grader), Disk(Unsigned, Human, Grader),
   Disk(ChangeLarge, Human, Grader),
   Disk(Change, Human, {File(<<"grader", "other">>, 0)}),
   Disk(Change, Human, Grader \union {[path |-> <<"link">>, kind |-> "link", content |-> 0]})}

Arm(id, role, execution) == [id |-> id, role |-> role, execution |-> execution]
Plan == [suite |-> "suite", tasks |-> {<<"t1">>, <<"t2">>}, trials |-> 1, profile |-> "linux",
         interruption |-> {<<"t2">>},
         arms |-> {Arm(<<"a">>, "baseline", "x"), Arm(<<"b">>, "planner", "y")}]

MCPlans ==
  {Plan,
   \* with the longer name of its second arm, a run id is too long for a record
   [Plan EXCEPT !.tasks = {<<"t1">>}, !.interruption = {},
                !.arms = {Arm(<<"a">>, "baseline", "x"), Arm(<<"b", "c">>, "planner", "y")}],
   [Plan EXCEPT !.trials = 2], [Plan EXCEPT !.interruption = {<<"t3">>}],
   [Plan EXCEPT !.arms = {Arm(<<"a">>, "baseline", "x"), Arm(<<"b">>, "planner", "x")}],
   [Plan EXCEPT !.arms = {Arm(<<"a">>, "planner", "x"), Arm(<<"b">>, "evaluator", "y")}]}

Changed   == BundleOf({File(InScope, 1), File(OutScope, 0)})
\* A commit is what it holds.
MCFreezes ==
  {[base |-> BundleOf(Fixture), candidate |-> b, bundle |-> b] :
     b \in {BundleOf(Fixture), Changed, BundleOf({File(InScope, 0)})}}

MCLimit == [files |-> 2, bytes |-> 8, id |-> 3, source |-> 4, checks |-> 2, count |-> 1,
            iterations |-> 2, elapsed |-> 1, minutes |-> 0, cost |-> 0]

Usual == [environment |-> "e1", elapsed |-> 1, unresolved |-> 0, requests |-> 0,
          confirmed |-> 0, false |-> 0, handoff |-> "not_applicable", iterations |-> 1,
          api |-> 0, minutes |-> 0, cost |-> None, wellFormed |-> TRUE, bytes |-> 0, checks |-> {}]

Check(name, source, conclusion, head) ==
  [name |-> name, source |-> source, required |-> TRUE, conclusion |-> conclusion, head |-> head]

CI   == <<"ci">>
Lint == Check("lint", CI, "success", Changed)

MCObservations ==
  {Usual, [Usual EXCEPT !.environment = "e2", !.iterations = 2],
   [Usual EXCEPT !.unresolved = 1], [Usual EXCEPT !.elapsed = -1],
   [Usual EXCEPT !.iterations = 0, !.unresolved = -1], [Usual EXCEPT !.bytes = 2],
   [Usual EXCEPT !.iterations = 3, !.elapsed = 2], [Usual EXCEPT !.wellFormed = FALSE],
   [Usual EXCEPT !.api = 2, !.minutes = -1, !.cost = 1],
   [Usual EXCEPT !.requests = 2, !.false = 2],
   [Usual EXCEPT !.handoff = "resumed"], [Usual EXCEPT !.requests = 1, !.false = 1],
   [Usual EXCEPT !.requests = 1, !.confirmed = 1, !.handoff = "resumed"],
   [Usual EXCEPT !.requests = 1]}
  \union {[Usual EXCEPT !.checks = c] :
            c \in {{Check("lint", CI, "failure", Changed)},
                  {Check("lint", CI, "success", BundleOf(Fixture))},
                  {Lint, Check("test", CI, "success", Changed)},  \* no room for the grader's
                  {[Lint EXCEPT !.source = <<"ci", "of", "another", "long", "name">>]},
                  {[Lint EXCEPT !.name = "grader"]},              \* of another source
                  {Check("grader", <<"graders", "n1", "grader", "grade">>, "success", Changed)}}}
==============================================================================
