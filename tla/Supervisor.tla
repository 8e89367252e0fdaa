----------------------------- MODULE Supervisor -----------------------------
(***************************************************************************)
(* The default-branch-controlled Pull Request supervisor                   *)
(* (scripts/github_coordinator_supervisor.py) against a repository that    *)
(* others change while it reads.                                           *)
(*                                                                         *)
(* evaluate() collects all mutable evidence twice: a first pass that       *)
(* checks each gate and a second pass that must see the same values.       *)
(* Each client call is one step here, so a change of the repository can    *)
(* fall between any two calls.  Content addressed by a commit is read in   *)
(* the step that learns the commit.                                        *)
(***************************************************************************)
EXTENDS Repository

CONSTANTS
  Coordinators,   \* running supervisor processes
  MaxFailures     \* bound: failed calls, timeouts and crashes

ASSUME FailuresAssumption == MaxFailures \in Nat

VARIABLES
  job,       \* job[c]: control state and evidence of coordinator c
  mid,       \* history: the repository when job[c] ended its first pass
  failures   \* number of failed calls so far

vars == <<default, pull, issue, authorization, runs, comments, threads, changes,
          job, mid, failures>>

Stages == {"idle", "default", "pull", "issue", "authorization", "files",
           "openPulls", "others", "runs", "comments", "threads",
           "ready", "markReady", "merge"}

Review == [state : {"unread", "pending", "blocked", "clean", "required"},
           markers : SUBSET Nat, threads : SUBSET (Threads \X BOOLEAN)]

Job == [stage : Stages, pass : {1, 2}, marked : BOOLEAN,
        pr : PRs \union {None}, default : Default \union {None},
        head : Heads \union {None}, body : Bodies \union {None},
        source : Issues \union {None}, issue : Issue \union {None},
        authorization : SUBSET Authorization, files : SUBSET Paths,
        todo : SUBSET PRs, runs : SUBSET (Checks \X Run), comments : SUBSET Comment,
        review : Review]

\* What a history value remembers of one Pull Request and its source Issue.
World == [default : Default, pull : Pull, issue : Issue,
          authorization : SUBSET Authorization, runs : [Heads -> [Checks -> Run]],
          comments : SUBSET Comment, threads : SUBSET (Threads \X BOOLEAN),
          overlaps : SUBSET (PRs \X Heads)]

Idle == [stage |-> "idle", pass |-> 1, marked |-> FALSE, pr |-> None,
         default |-> None, head |-> None, body |-> None, source |-> None,
         issue |-> None, authorization |-> {}, files |-> {}, todo |-> {},
         runs |-> {}, comments |-> {},
         review |-> [state |-> "unread", markers |-> {}, threads |-> {}]]

------------------------------------------------------------------------------
(* The gates of evaluate() *)

AuthorizedPaths(i, a) == i.allowed \union UNION {x.paths : x \in a}
ProtectedPaths(i, a)  == i.protected \union UNION {x.paths : x \in a}

\* parse_task_scope accepts the Issue: it lists paths of its own, and every
\* protected path of the scope is authorized a second time.
ScopeValid(i, a) ==
  /\ i.allowed # {}
  /\ AuthorizedPaths(i, a) \intersect Protected \subseteq ProtectedPaths(i, a)

Risk(i, a) ==
  IF ProtectedPaths(i, a) # {} \/ AuthorizedPaths(i, a) \intersect Protected # {}
  THEN "protected" ELSE "standard"

InScope(files, i, a) ==
  /\ files \subseteq AuthorizedPaths(i, a)
  /\ files \intersect Protected \subseteq ProtectedPaths(i, a)

\* The checks the captured default branch requires, and their latest runs.
Required(d) == NativeChecks \union d.config

CheckSnapshot(runsOf, h, d) == {<<k, runsOf[h][k]>> : k \in Required(d)}

ChecksPass(snapshot) ==
  \A s \in snapshot :
    s[2].state \in IF s[1] \in ProductChecks THEN {"success"} ELSE {"success", "neutral"}

Carries(c, h) == c.head = h /\ c.marks # {}

\* A comment with too little beside its markers counts for the state but is
\* left out of the marker ids.
MarkerIds(cs, h) == {c.id : c \in {d \in cs : Carries(d, h) /\ d.substantial}}

ReviewState(cs, ts, h, risk) ==
  LET n(tier, verdict) ==
        Cardinality({c \in cs : c.head = h /\ <<tier, verdict>> \in c.marks})
      general == n("general", "clean")
      scope   == n("scope-security", "clean")
      race    == n("correctness-race", "clean")
  IN CASE \E t \in ts : ~t[2] -> "pending"
       [] (\A t \in ts : t[2]) /\ (\E tier \in Tiers : n(tier, "blocked") > 0) -> "blocked"
       [] /\ \A t \in ts : t[2]
          /\ \A tier \in Tiers : n(tier, "blocked") = 0
          /\ <<general, scope, race>> =
               IF risk = "protected" THEN <<0, 1, 1>> ELSE <<1, 0, 0>> -> "clean"
       [] OTHER -> IF MarkerIds(cs, h) # {} THEN "pending" ELSE "required"

ReviewEvidence(cs, ts, h, risk) ==
  [state |-> ReviewState(cs, ts, h, risk), markers |-> MarkerIds(cs, h), threads |-> ts]

ThreadSnapshot(p) ==
  {<<t, threads[p][t] = "resolved">> : t \in {u \in Threads : threads[p][u] # "none"}}

OpenOthers(p) == {q \in PRs \ {p} : pull[q].state = "open"}

Overlapping(p, files) == {q \in OpenOthers(p) : HeadPaths[pull[q].head] \intersect files # {}}

------------------------------------------------------------------------------
(* Steps of coordinator c *)

To(j, stage) == [j EXCEPT !.stage = stage]

Begin(p, marked) == [Idle EXCEPT !.stage = "default", !.pr = p, !.marked = marked]

At(c, stage, pass) == job[c].stage = stage /\ job[c].pass = pass

Advance(c, j) ==
  /\ job' = [job EXCEPT ![c] = j]
  /\ UNCHANGED <<mid, failures>>

\* SupervisorError: main() reports the Pull Request blocked.
Stop(c) ==
  /\ job' = [job EXCEPT ![c] = Idle]
  /\ mid' = [mid EXCEPT ![c] = None]

\* A read: go on if ok, else stop.
Gate(c, ok, j) ==
  /\ \/ ok /\ Advance(c, j)
     \/ ~ok /\ Stop(c) /\ UNCHANGED failures
  /\ UNCHANGED world

\* main() takes a Pull Request of its candidate set.
Start(c, p) ==
  /\ job[c].stage = "idle"
  /\ Gate(c, TRUE, Begin(p, FALSE))

ReadDefault(c) ==
  LET j == job[c] IN
  \/ /\ At(c, "default", 1)
     /\ Gate(c, TRUE, [To(j, "pull") EXCEPT !.default = default])
  \/ /\ At(c, "default", 2)
     /\ Gate(c, default.sha = j.default.sha, To(j, "files"))

\* Identity of the Pull Request and the one source Issue its body closes.
ReadPull(c) ==
  LET j == job[c]
      r == pull[j.pr]
  IN
  /\ At(c, "pull", 1)
  /\ Gate(c, r.state = "open" /\ BodyIssue[r.body] # None,
          [To(j, "issue") EXCEPT !.head = r.head, !.body = r.body,
                                 !.source = BodyIssue[r.body]])

\* Mutant of ReadIssue: the second pass compares the text and not updated_at.
ReadIssueText(c) ==
  LET j == job[c]
      i == issue[j.source]
  IN
  \/ /\ At(c, "issue", 1)
     /\ Gate(c, i.open, [To(j, "authorization") EXCEPT !.issue = i])
  \/ /\ At(c, "issue", 2)
     /\ Gate(c, [i EXCEPT !.updated = j.issue.updated] = j.issue,
             To(j, "authorization"))

ReadIssue(c) ==
  LET j == job[c]
      i == issue[j.source]
  IN
  \/ /\ At(c, "issue", 1)
     /\ Gate(c, i.open, [To(j, "authorization") EXCEPT !.issue = i])
  \/ /\ At(c, "issue", 2)
     /\ Gate(c, i = j.issue, To(j, "authorization"))

ReadAuthorization(c) ==
  LET j == job[c]
      a == authorization[j.source]
  IN
  \/ /\ At(c, "authorization", 1)
     /\ Gate(c, ScopeValid(j.issue, a), [To(j, "files") EXCEPT !.authorization = a])
  \/ /\ At(c, "authorization", 2)
     /\ Gate(c, a = j.authorization, To(j, "default"))

\* The files are listed by Pull Request number: they are those of whatever
\* head the Pull Request has now.
ReadFiles(c) ==
  LET j == job[c]
      f == HeadPaths[pull[j.pr].head]
  IN
  \/ /\ At(c, "files", 1)
     /\ Gate(c, InScope(f, j.issue, j.authorization),
             [To(j, "openPulls") EXCEPT !.files = f])
  \/ /\ At(c, "files", 2)
     /\ Gate(c, f = j.files, To(j, "openPulls"))

\* Mutant of ReadOpenPulls: the second pass asks for no open Pull Requests.
ReadOpenPullsOnce(c) ==
  LET j == job[c] IN
  /\ j.stage = "openPulls"
  /\ Gate(c, TRUE, [To(j, "others") EXCEPT
                      !.todo = IF j.pass = 1 THEN OpenOthers(j.pr) ELSE {}])

ReadOpenPulls(c) ==
  LET j == job[c] IN
  /\ j.stage = "openPulls"
  /\ Gate(c, TRUE, [To(j, "others") EXCEPT !.todo = OpenOthers(j.pr)])

\* Mutant of ReadOtherFiles: the list is read again after every query.
ReadOtherFilesAgain(c) ==
  LET j == job[c] IN
  /\ j.stage = "others"
  /\ \E q \in j.todo :
       Gate(c, HeadPaths[pull[q].head] \intersect j.files = {},
            To(j, "openPulls"))

\* One pull_files call per listed Pull Request; an overlap ends either pass.
ReadOtherFiles(c) ==
  LET j == job[c] IN
  /\ j.stage = "others"
  /\ \E q \in j.todo :
       Gate(c, HeadPaths[pull[q].head] \intersect j.files = {},
            [j EXCEPT !.todo = @ \ {q}])

\* The workflow files of head and captured default branch must be the same.
CompareWorkflows(c) ==
  LET j == job[c] IN
  /\ j.stage = "others" /\ j.todo = {}
  /\ Gate(c, HeadWorkflow[j.head] = j.default.workflow, To(j, "runs"))

ReadRuns(c) ==
  LET j == job[c]
      s == CheckSnapshot(runs[j.pr], j.head, j.default)
  IN
  \/ /\ At(c, "runs", 1)
     /\ Gate(c, ChecksPass(s), [To(j, "comments") EXCEPT !.runs = s])
  \/ /\ At(c, "runs", 2)
     /\ Gate(c, s = j.runs, To(j, "comments"))

ReadComments(c) ==
  LET j == job[c] IN
  /\ j.stage = "comments"
  /\ Gate(c, TRUE, [To(j, "threads") EXCEPT !.comments = comments[j.pr]])

WorldOf(p, i) ==
  [default |-> default, pull |-> pull[p], issue |-> issue[i],
   authorization |-> authorization[i], runs |-> runs[p], comments |-> comments[p],
   threads |-> ThreadSnapshot(p),
   overlaps |-> {<<q, pull[q].head>> : q \in Overlapping(p, HeadPaths[pull[p].head])}]

\* The first pass ends here: mid remembers the repository of this instant.
ReadThreads(c) ==
  LET j == job[c]
      r == ReviewEvidence(j.comments, ThreadSnapshot(j.pr), j.head,
                          Risk(j.issue, j.authorization))
  IN
  \/ /\ At(c, "threads", 1)
     /\ r.state = "clean"
     /\ job' = [job EXCEPT ![c] = [To(j, "issue") EXCEPT !.pass = 2, !.comments = {},
                                                          !.review = r]]
     /\ mid' = [mid EXCEPT ![c] = WorldOf(j.pr, j.source)]
     /\ UNCHANGED <<world, failures>>
  \/ At(c, "threads", 1) /\ r.state # "clean" /\ Gate(c, FALSE, j)
  \/ /\ At(c, "threads", 2)
     /\ Gate(c, r = j.review, [To(j, "pull") EXCEPT !.comments = {}])

\* Mutant of RereadPull: the head is not compared with the evaluated one.
RereadAnyHead(c) ==
  LET j == job[c]
      r == pull[j.pr]
  IN
  /\ At(c, "pull", 2)
  /\ Gate(c, /\ r.state = "open" /\ r.body = j.body
             /\ r.mergeable /\ ~r.hold
             /\ ~(r.draft /\ j.marked),
          To(j, IF r.draft THEN "ready" ELSE "merge"))

\* The last read decides between Ready and merge.
RereadPull(c) ==
  LET j == job[c]
      r == pull[j.pr]
  IN
  /\ At(c, "pull", 2)
  /\ Gate(c, /\ r.state = "open" /\ r.head = j.head /\ r.body = j.body
             /\ r.mergeable /\ ~r.hold
             /\ ~(r.draft /\ j.marked),
          To(j, IF r.draft THEN "ready" ELSE "merge"))

\* supervise() reads the head once more before the Ready mutation.
RecheckHead(c) ==
  LET j == job[c] IN
  /\ j.stage = "ready"
  /\ Gate(c, pull[j.pr].head = j.head, To(j, "markReady"))

\* Mutant of MarkReady: the merge follows on the evaluation made before Ready.
MarkReadyAndMerge(c) ==
  LET p == job[c].pr IN
  /\ job[c].stage = "markReady"
  /\ Ready(p)
  /\ job' = [job EXCEPT ![c] = [To(job[c], "merge") EXCEPT !.marked = TRUE]]
  /\ UNCHANGED <<mid, failures>>

\* After Ready the whole evaluation starts again.
MarkReady(c) ==
  LET p == job[c].pr IN
  /\ job[c].stage = "markReady"
  /\ Ready(p)
  /\ job' = [job EXCEPT ![c] = Begin(p, TRUE)]
  /\ mid' = [mid EXCEPT ![c] = None]
  /\ UNCHANGED failures

\* Mutant of Merge: the merge request names no expected head.
MergeAnyHead(c) ==
  /\ job[c].stage = "merge"
  /\ MergeHead(job[c].pr, pull[job[c].pr].head)
  /\ Stop(c)
  /\ UNCHANGED failures

Merge(c) ==
  /\ job[c].stage = "merge"
  /\ MergeHead(job[c].pr, job[c].head)
  /\ Stop(c)
  /\ UNCHANGED failures

\* GitHub refuses the mutation.
Rejected(c) ==
  LET j == job[c] IN
  /\ \/ j.stage = "markReady" /\ pull[j.pr].state # "open"
     \/ j.stage = "merge" /\ ~Mergeable(j.pr, j.head)
  /\ Gate(c, FALSE, j)

\* A client call fails, or the workflow run is cancelled or times out; GitHub
\* may have applied a mutation that the call reports as failed.
Fail(c) ==
  LET j == job[c] IN
  /\ j.stage # "idle"
  /\ failures < MaxFailures
  /\ failures' = failures + 1
  /\ Stop(c)
  /\ \/ UNCHANGED world
     \/ j.stage = "markReady" /\ Ready(j.pr)
     \/ j.stage = "merge" /\ MergeHead(j.pr, j.head)

Supervise(c) ==
  \/ ReadDefault(c) \/ ReadPull(c) \/ ReadIssue(c) \/ ReadAuthorization(c)
  \/ ReadFiles(c) \/ ReadOpenPulls(c) \/ ReadOtherFiles(c) \/ CompareWorkflows(c)
  \/ ReadRuns(c) \/ ReadComments(c) \/ ReadThreads(c) \/ RereadPull(c)
  \/ RecheckHead(c) \/ MarkReady(c) \/ Merge(c) \/ Rejected(c)

Others == RepositoryNext /\ UNCHANGED <<job, mid, failures>>

Init ==
  /\ RepositoryInit
  /\ job = [c \in Coordinators |-> Idle]
  /\ mid = [c \in Coordinators |-> None]
  /\ failures = 0

Next ==
  \/ \E c \in Coordinators : (\E p \in PRs : Start(c, p)) \/ Supervise(c) \/ Fail(c)
  \/ Others

Spec == Init /\ [][Next]_vars

\* A started evaluation runs on: its calls return or fail.
FairSpec == Spec /\ \A c \in Coordinators : WF_vars(Supervise(c))

------------------------------------------------------------------------------
(* Properties *)

\* Every variable has its declared type.
TypeOK ==
  /\ RepositoryTypeOK
  /\ job \in [Coordinators -> Job]
  /\ mid \in [Coordinators -> World \union {None}]
  /\ failures \in Nat

Decided(c) == job[c].stage \in {"ready", "markReady", "merge"}

\* Every gate of evaluate() holds for head h and Issue i in the repository w.
GatesClean(w, h, i) ==
  /\ w.pull.state = "open" /\ w.pull.head = h /\ BodyIssue[w.pull.body] = i
  /\ w.issue.open
  /\ ScopeValid(w.issue, w.authorization)
  /\ InScope(HeadPaths[h], w.issue, w.authorization)
  /\ HeadWorkflow[h] = w.default.workflow
  /\ ChecksPass(CheckSnapshot(w.runs, h, w.default))
  /\ ReviewState(w.comments, w.threads, h, Risk(w.issue, w.authorization)) = "clean"

\* Whenever evaluate() decides on Ready or merge, the evidence it gathered
\* call by call was all true at one instant, the end of its first pass: there
\* is no decision on a mixture of old and new evidence.  It holds of changes
\* that do not restore an earlier value between two reads.
SnapshotAtomic ==
  \A c \in Coordinators : Decided(c) => GatesClean(mid[c], job[c].head, job[c].source)

\* An open Pull Request that touched the candidate's paths at that instant, and
\* still stands at the same head, prevents a decision.  Like SnapshotAtomic it
\* is of changes that restore nothing.
CollisionFree ==
  \A c \in Coordinators : Decided(c) =>
    \A o \in mid[c].overlaps : pull[o[1]].head # o[2]

\* The source Issue and the default branch carry a version (updated_at, the
\* commit), so that for them the double read is exact whatever the changes,
\* those that restore an old value included: the evidence of a decision is
\* what the repository held at the end of the first pass.
VersionedAtomic ==
  \A c \in Coordinators :
    Decided(c) => mid[c].issue = job[c].issue /\ mid[c].default = job[c].default

Merges(p) == pull[p].state = "open" /\ pull'[p].state = "merged"

\* A merge takes in exactly a head that some coordinator found clean, scope
\* and checks included, and never one pushed after the evaluation.
MergeJudged ==
  [][\A p \in PRs : Merges(p) =>
       \E c \in Coordinators :
         /\ job[c].pr = p /\ job[c].head = pull[p].head
         /\ GatesClean(mid[c], pull[p].head, job[c].source)]_vars

\* A merge rests on an evaluation made entirely after Ready: its instant saw
\* the Pull Request out of draft already.
FreshAfterReady ==
  [][\A p \in PRs : Merges(p) =>
       \E c \in Coordinators : job[c].pr = p /\ ~mid[c].pull.draft]_vars

\* A supervision ends: it merges, is blocked or fails, and cannot go round
\* Ready and evaluation for ever.
SupervisionEnds == \A c \in Coordinators : job[c].stage # "idle" ~> job[c].stage = "idle"

=============================================================================
