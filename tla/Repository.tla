----------------------------- MODULE Repository -----------------------------
(***************************************************************************)
(* The GitHub repository as scripts/github_coordinator_supervisor.py uses  *)
(* it: what its client calls return, what its two mutations do, and the    *)
(* changes people, workflows and GitHub itself make in between.  None of   *)
(* this is code of the repository; it is modelled from what evaluate() and *)
(* GhClient read and write.                                                *)
(*                                                                         *)
(* Content addressed by a commit never changes, so it is a constant        *)
(* function of the commit.  Path patterns such as tests/** stand for the   *)
(* set of paths they match.                                                *)
(***************************************************************************)
EXTENDS Naturals, FiniteSets

CONSTANTS
  PRs,            \* Pull Requests
  Issues,         \* source Issues
  Bodies,         \* Pull Request bodies
  Heads,          \* candidate commits
  Paths,          \* repository paths
  Protected,      \* the paths is_protected_path accepts
  ConfigPath,     \* .github/foundation-product-checks.json
  NativeChecks,   \* CI and Unit Tests
  ProductChecks,  \* checks a product check configuration may name
  Workflows,      \* versions of the required workflow definitions
  Threads,        \* review threads of a Pull Request
  Scopes,         \* the <<allowed, protected>> path sets an Issue may declare
  Tiers,          \* the review tiers a marker may name
  MarkSets,       \* the sets of review markers one comment may carry
  BodyIssue,      \* the one Issue a body closes, None if not exactly one
  HeadPaths,      \* changed and renamed-from paths of a commit
  HeadConfig,     \* product checks a commit's configuration names
  HeadWorkflow,   \* required workflow definitions a commit carries
  InitialPull,    \* the Pull Requests at the beginning
  InitialDefault, \* the default branch at the beginning
  InitialThread,  \* the state of the review threads at the beginning
  EnvKinds,       \* the kinds of repository change an instance considers
  MaxChanges,     \* bound: repository changes
  None            \* no value

Checks == NativeChecks \union ProductChecks
Marks  == Tiers \X {"clean", "blocked"}

Default == [sha : Nat, config : SUBSET ProductChecks, workflow : Workflows]

Pull == [state : {"open", "closed", "merged"}, head : Heads, body : Bodies,
         draft : BOOLEAN, mergeable : BOOLEAN, hold : BOOLEAN]

Issue == [open : BOOLEAN, allowed : SUBSET Paths, protected : SUBSET Paths,
          updated : Nat]

\* A trusted unedited Issue comment that mentions a protected authorization
\* block; paths is what the block adds, {} if it is none.
Authorization == [id : Nat, paths : SUBSET Paths]

\* The latest pull_request run of a check for a commit; "neutral" stands for
\* neutral and skipped, "failure" for every other conclusion.
Run == [state : {"missing", "pending", "success", "neutral", "failure"},
        id : Nat]

\* A trusted unedited Pull Request comment: the markers it carries for head,
\* and whether 20 characters or more remain beside them.
Comment == [id : Nat, head : Heads, marks : SUBSET Marks, substantial : BOOLEAN]

ASSUME ContentAssumption ==
  /\ Protected \subseteq Paths /\ ConfigPath \in Protected
  /\ BodyIssue \in [Bodies -> Issues \union {None}]
  /\ HeadPaths \in [Heads -> (SUBSET Paths) \ {{}}]
  /\ HeadConfig \in [Heads -> SUBSET ProductChecks]
  /\ HeadWorkflow \in [Heads -> Workflows]
  /\ InitialPull \in [PRs -> Pull]
  /\ Scopes \subseteq (SUBSET Paths) \X (SUBSET Paths)
  /\ InitialDefault \in Default
  /\ InitialThread \in {"none", "open", "resolved"}
  /\ Tiers \subseteq {"general", "scope-security", "correctness-race"}
  /\ MarkSets \subseteq SUBSET Marks
  /\ None \notin Issues

ASSUME ChangesAssumption == MaxChanges \in Nat

VARIABLES
  default,        \* the default branch: commit number, configuration, workflows
  pull,           \* pull[p]
  issue,          \* issue[i]; updated is its updated_at
  authorization,  \* authorization[i]: its trusted unedited comments
  runs,           \* runs[p][h][k]
  comments,       \* comments[p]: trusted unedited comments
  threads,        \* threads[p][t]: "none", "open" or "resolved"
  changes         \* number of repository changes so far

world == <<default, pull, issue, authorization, runs, comments, threads, changes>>

RepositoryTypeOK ==
  /\ default \in Default
  /\ pull \in [PRs -> Pull]
  /\ issue \in [Issues -> Issue]
  /\ authorization \in [Issues -> SUBSET Authorization]
  /\ runs \in [PRs -> [Heads -> [Checks -> Run]]]
  /\ comments \in [PRs -> SUBSET Comment]
  /\ threads \in [PRs -> [Threads -> {"none", "open", "resolved"}]]
  /\ changes \in Nat

\* Every check of the first heads is green, they are reviewed in some way, and
\* each Issue declares some scope.
RepositoryInit ==
  /\ default = InitialDefault
  /\ pull = InitialPull
  /\ \E s \in [Issues -> Scopes] :
       issue = [i \in Issues |-> [open |-> TRUE, allowed |-> s[i][1],
                                  protected |-> s[i][2], updated |-> 0]]
  /\ authorization = [i \in Issues |-> {}]
  /\ runs = [p \in PRs |-> [h \in Heads |-> [k \in Checks |->
       IF h = InitialPull[p].head THEN [state |-> "success", id |-> 1]
                                  ELSE [state |-> "missing", id |-> 0]]]]
  /\ \E m \in MarkSets :
       comments = [p \in PRs |->
         {[id |-> 0, head |-> InitialPull[p].head, marks |-> m, substantial |-> TRUE]}]
  /\ threads = [p \in PRs |-> [t \in Threads |-> InitialThread]]
  /\ changes = 0

------------------------------------------------------------------------------
(* The supervisor's two mutations *)

Ready(p) ==
  /\ pull[p].state = "open"
  /\ pull' = [pull EXCEPT ![p].draft = FALSE]
  /\ UNCHANGED <<default, issue, authorization, runs, comments, threads, changes>>

\* PUT /merge needs an open, ready, mergeable Pull Request and the expected
\* head.  It changes the default branch and the closing keyword closes the
\* Issue.
Mergeable(p, expected) ==
  /\ pull[p].state = "open" /\ ~pull[p].draft /\ pull[p].mergeable
  /\ pull[p].head = expected

MergeHead(p, expected) ==
  /\ Mergeable(p, expected)
  /\ pull' = [pull EXCEPT ![p].state = "merged"]
  /\ default' = [sha |-> default.sha + 1, workflow |-> default.workflow,
                 config |-> IF ConfigPath \in HeadPaths[expected]
                            THEN HeadConfig[expected] ELSE default.config]
  /\ issue' = [i \in Issues |->
       IF i = BodyIssue[pull[p].body] /\ issue[i].open
       THEN [open |-> FALSE, allowed |-> issue[i].allowed,
             protected |-> issue[i].protected, updated |-> issue[i].updated + 1]
       ELSE issue[i]]
  /\ UNCHANGED <<authorization, runs, comments, threads, changes>>

------------------------------------------------------------------------------
(* Changes by others *)

Change(kind) ==
  /\ kind \in EnvKinds
  /\ changes < MaxChanges
  /\ changes' = changes + 1

EditPull(p, new) ==
  /\ pull' = [pull EXCEPT ![p] = new]
  /\ UNCHANGED <<default, issue, authorization, comments, threads>>

WasHead(p, h) == h = pull[p].head \/ \E k \in Checks : runs[p][h][k].id > 0

\* A push starts a fresh run of every check for the pushed head.
PushTo(p, h) ==
  /\ pull[p].state = "open"
  /\ h # pull[p].head
  /\ EditPull(p, [pull[p] EXCEPT !.head = h])
  /\ runs' = [runs EXCEPT ![p][h] =
       [k \in Checks |-> [state |-> "pending", id |-> runs[p][h][k].id + 1]]]

Push(p) == Change("push") /\ \E h \in Heads : ~WasHead(p, h) /\ PushTo(p, h)

\* A force push back to a commit that was the head before.
PushBack(p) == Change("push-back") /\ \E h \in Heads : WasHead(p, h) /\ PushTo(p, h)

EditBody(p) ==
  /\ Change("body")
  /\ pull[p].state = "open"
  /\ \E b \in Bodies \ {pull[p].body} : EditPull(p, [pull[p] EXCEPT !.body = b])
  /\ UNCHANGED runs

ToggleHold(p) ==
  /\ Change("hold")
  /\ EditPull(p, [pull[p] EXCEPT !.hold = ~@])
  /\ UNCHANGED runs

ToggleMergeable(p) ==
  /\ Change("mergeable")
  /\ EditPull(p, [pull[p] EXCEPT !.mergeable = ~@])
  /\ UNCHANGED runs

ToggleDraft(p) ==
  /\ Change("draft")
  /\ pull[p].state = "open"
  /\ EditPull(p, [pull[p] EXCEPT !.draft = ~@])
  /\ UNCHANGED runs

OpenPull(p) ==
  /\ Change("open-pull")
  /\ pull[p].state = "closed"
  /\ EditPull(p, [pull[p] EXCEPT !.state = "open"])
  /\ UNCHANGED runs

ClosePull(p) ==
  /\ Change("close-pull")
  /\ pull[p].state = "open"
  /\ EditPull(p, [pull[p] EXCEPT !.state = "closed"])
  /\ UNCHANGED runs

SetRun(p, h, k, states, s) ==
  /\ runs[p][h][k].state \in states
  /\ runs' = [runs EXCEPT ![p][h][k].state = s]
  /\ UNCHANGED <<default, pull, issue, authorization, comments, threads>>

CompleteRun(p) ==
  /\ Change("complete")
  /\ \E h \in Heads, k \in Checks, s \in {"success", "neutral", "failure"} :
       SetRun(p, h, k, {"pending"}, s)

\* Re-running a workflow keeps its run id.
Rerun(p) ==
  /\ Change("rerun")
  /\ \E k \in Checks :
       SetRun(p, pull[p].head, k, {"success", "neutral", "failure"}, "pending")

SetComments(p, cs) ==
  /\ comments' = [comments EXCEPT ![p] = cs]
  /\ UNCHANGED <<default, pull, issue, authorization, runs, threads>>

PostReview(p) ==
  /\ Change("review")
  /\ \E m \in MarkSets, b \in BOOLEAN :
       SetComments(p, comments[p] \union
         {[id |-> changes + 1, head |-> pull[p].head, marks |-> m, substantial |-> b]})

\* A deleted or edited comment is evidence no longer.
RetractReview(p) ==
  /\ Change("retract")
  /\ \E x \in comments[p] : SetComments(p, comments[p] \ {x})

SetThread(p, from, to) ==
  /\ \E t \in Threads : threads[p][t] = from /\ threads' = [threads EXCEPT ![p][t] = to]
  /\ UNCHANGED <<default, pull, issue, authorization, runs, comments>>

OpenThread(p)    == Change("thread") /\ SetThread(p, "none", "open")
ResolveThread(p) == Change("resolve") /\ SetThread(p, "open", "resolved")
ReopenThread(p)  == Change("reopen-thread") /\ SetThread(p, "resolved", "open")

\* Every edit, close or reopen of an Issue moves updated_at.
EditIssue(i) ==
  /\ Change("issue")
  /\ \E s \in Scopes, o \in BOOLEAN :
       issue' = [issue EXCEPT ![i] = [open |-> o, allowed |-> s[1],
                                      protected |-> s[2], updated |-> @.updated + 1]]
  /\ UNCHANGED <<default, pull, authorization, runs, comments, threads>>

SetAuthorization(i, a) ==
  /\ authorization' = [authorization EXCEPT ![i] = a]
  /\ UNCHANGED <<default, pull, issue, runs, comments, threads>>

Authorize(i) ==
  /\ Change("authorize")
  /\ \E s \in SUBSET Paths :
       SetAuthorization(i, authorization[i] \union {[id |-> changes + 1, paths |-> s]})

Withdraw(i) ==
  /\ Change("withdraw")
  /\ \E x \in authorization[i] : SetAuthorization(i, authorization[i] \ {x})

MoveDefault ==
  /\ Change("default")
  /\ \E k \in SUBSET ProductChecks, w \in Workflows :
       default' = [sha |-> default.sha + 1, config |-> k, workflow |-> w]
  /\ UNCHANGED <<pull, issue, authorization, runs, comments, threads>>

ChangePull(p) ==
  \/ Push(p) \/ PushBack(p) \/ EditBody(p) \/ ToggleHold(p)
  \/ ToggleMergeable(p) \/ ToggleDraft(p) \/ OpenPull(p) \/ ClosePull(p)

ChangeEvidence(p) ==
  \/ CompleteRun(p) \/ Rerun(p) \/ PostReview(p) \/ RetractReview(p)
  \/ OpenThread(p) \/ ResolveThread(p) \/ ReopenThread(p)

ChangeIssue(i) == EditIssue(i) \/ Authorize(i) \/ Withdraw(i)

RepositoryNext ==
  \/ MoveDefault
  \/ \E p \in PRs : ChangePull(p) \/ ChangeEvidence(p)
  \/ \E i \in Issues : ChangeIssue(i)

=============================================================================
