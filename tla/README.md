# A TLA+ model of the automation foundation

This directory is a verification project for the repository it sits beside: the
scripts and workflows that watch Pull Requests, Issues and optional agent runs
on GitHub, decide what may be merged, recover interrupted queue runs and keep
API use within bounds; the programs that evaluate agents in trials, report on a
fleet of repositories and choose what an agent reads; and the renderer that
installs all of it elsewhere.  What these programs know they learn call by call,
from GitHub, from Git and from directories, while people, other workflows and
other processes change it; and every one of them can be stopped between two
calls.  That is what the models are about.

## 1. Inventory

| Component | Source | State it keeps | Hard behaviour | Status |
| --- | --- | --- | --- | --- |
| Pull Request supervisor | `scripts/github_coordinator_supervisor.py` | the evidence gathered so far; GitHub holds the rest | reads of one evaluation are spread over time; Ready and merge are separate mutations; calls fail | modelled |
| Recovery records | `.github/workflows/ci-reconcile.yml` (`put_record` and its calls) | files on the branch `automation-internal-stops` | compare-and-swap against other writers; a lost answer; stale reads; a write that outlives its job | modelled |
| Queue recovery | `.github/workflows/ci-reconcile.yml` (`main`, `dispatch_retry`), `scripts/queue_retry_identity.py`, `scripts/queue_failure_classifier.py` | records; dispatched workflow runs | a job cancelled between record and dispatch; events handled in any order, or forgotten by the concurrency group | modelled, without publication |
| Queue workflow and bridge | `.github/workflows/claude-queue.yml`, `claude-queue-comment-bridge.yml`, `scripts/queue_event_guard.py` | one run per event, one running and one waiting per Issue | two runs for one comment, a waiting run cancelled by a newer one, a run that is run again | modelled |
| API governor | `scripts/github_api_governor.py` | request budget, circuit breaker | retries, an unproven write, a breaker that opens and closes with the clock | modelled, without `read_all` |
| Evaluation contracts | `scripts/agent_eval_{task,suite,experiment,grader}_contract.py`, `agent_eval_contract.py`, `agent_eval_trial_request.py`, `agent_eval_run_assembly.py`, `agent_eval_report.py` | a suite, a plan, the records of a campaign | eight programs judge the same facts in eight places | modelled |
| Evaluation trials | `scripts/agent_eval_trial_*.py` | workspace, Git directory outside it, the evidence of each call | files written while they are inspected and staged; a killed preparation; every later call freezes again | modelled |
| Fleet collector and report | `scripts/fleet_collect_github.py`, `scripts/fleet_progress.py` | the evidence of two passes; one document | everything changes between two pages of one listing and between the passes | modelled |
| Repository context and map | `scripts/agent_repository_map.py`, `agent_repository_context.py`, `agent_repository_detached.py`, `agent_eval_map_context.py` | the map and the package under construction | refs move and objects are damaged between some forty Git commands; a map made elsewhere is passed in | modelled |
| Bootstrap and drift | `bootstrap/generator.py`, `scripts/foundation_drift.py` | managed files and `FOUNDATION.lock.json` | people write while a plan is carried out; a render is killed; the checkout it installs from moves and is not clean | modelled |
| Supervisor workflow | `.github/workflows/supervisor.yml` | one running and one pending workflow run | a pending run is displaced by a newer one | not modelled |
| Free-only coordinator | `scripts/free_only_coordinator.py`, `scripts/external_validation.py` | as the supervisor, with external check runs | as the supervisor | not modelled |
| Artifact publication | `.github/workflows/ci-reconcile.yml` (`publish_artifact`, `resume_remote_branch`) | branches and Pull Requests | branch pushed and Pull Request not opened | not modelled |
| Issue hydration | `scripts/queue_issue_hydration.py` | none | an Issue that changes while it is read | not modelled |
| Collision discovery | `scripts/github_api_governor.py` (`discover_collisions`) | none | overlap of paths and protected families | not modelled |
| Trusted checks and policy | `.github/workflows/trusted-checks.yml`, `scripts/supervisor_policy.py` | none | none: functions of a file list | not modelled |
| Authentication | `scripts/auth_*.py` | none | interactive login | not modelled |
| Repository guards | `scripts/private_actions_guard.py`, `public_export_guard.py`, `foundation_product_checks.py`, `validate_repository.py` | none | none: parsers of file contents | not modelled |
| Handoff and workspace contracts | `scripts/agent_handoff_contract.py`, `agent_workspace_contract.py` | none | none: parsers of documents no program here writes | not modelled |
| Initial evaluation suite | `evaluation/initial`, `evaluation/experiments` | none | none: data and grader scripts | not modelled |
| CI and unit tests | `.github/workflows/ci.yml`, `unit-tests.yml` | none | none: a list of commands | not modelled |

How they interact: CI completes and a comment arrives, and either starts the
supervisor workflow, which runs the supervisor for one Pull Request or for all
open ones.  A queue run completes and starts queue recovery, which may publish
the run's artifact as a Pull Request, or record and dispatch one retry.  All of
them share the repository on GitHub and nothing else; there is no lock but the
workflow concurrency groups.  The evaluation programs hand documents to each
other: a suite and a plan become trial requests, a trial's evidence becomes a
run record, records become a report; a map-assisted trial takes its package
from the repository context.  The fleet collector reads what the supervisor's
reviewers wrote, and Bootstrap installs all of it in other repositories.

What makes each correct:

- *Supervisor*: it merges only a head whose scope, checks and review were all
  good together; it never merges on evidence older than Ready; it ends.
- *Recovery records*: a record is written once and never changes, and
  `put_record()` says truthfully whether it is there.
- *Queue recovery*: at most three retries of a request, each recorded before it
  is dispatched, dispatched at most once and none forgotten; none after a
  terminal record; and a terminal record in the end.
- *API governor*: no more requests than the budget, a non-idempotent write at
  most once, no request while the breaker is open, and a breaker that closes.
- *Contracts*: what one program accepts the next one takes, or refuses for a
  bound that can be named, and a report counts every planned cell once.
- *Trials*: what is prepared is the sealed fixture, what is frozen is what Git
  makes of the files inspected, and what is recorded as passed was graded.
- *Fleet*: a document reports evidence that held together at one moment, and
  shows neither a finding as work nor work as ready.
- *Context*: a package is of one commit alone, whatever moves or breaks while it
  is made.
- *Bootstrap*: nobody's content is lost without authorization, and the lock says
  what is there.

## 2. Modules

| Module | Models | Kind |
| --- | --- | --- |
| `Repository` | GitHub as the supervisor uses it | state machine of the environment, external |
| `Supervisor` | `evaluate`, `supervise`, `main` of the supervisor; extends `Repository` | state machine and properties |
| `MCSupervisor` | instances of `Supervisor` | model values and inputs |
| `SupervisorProofs` | type correctness, `VersionedAtomic`, `SnapshotAtomic`, `MergeJudged`, `CollisionFree`, `FreshAfterReady` | theorems |
| `RecordMap` | what readers of the recovery records rely on: a write-once map | abstract specification |
| `RecordBranch` | `put_record`, `ensure_stop_branch`, `read_record`, `wait_for_record`, `linear_descendant` | state machine and properties; implements `RecordMap` |
| `MCRecordBranch` | three jobs, two of them or all three for one path | model values |
| `RecordBranchProofs` | type correctness, the refinement, what `put_record()` answers | theorems |
| `QueueRuns` | `claude-queue.yml`, the bridge, Issues and records as recovery sees them | state machine of the environment, mostly of this repository |
| `QueueRetry` | `main` and `dispatch_retry` of the reconciliation job, its events and concurrency group; extends `QueueRuns` | state machine and properties |
| `MCQueueRetry` | instances with one Issue | model values |
| `QueueRetryProofs` | type correctness and the four properties of `retry` | theorems |
| `ApiGovernor` | `GovernedGitHub` with its budget and breaker | state machine and properties |
| `MCApiGovernor` | instances of it | instance |
| `ApiGovernorProofs` | type correctness and the four safety properties | theorems |
| `EvalContract` | manifests, suites, plans, requests, deltas, grader results, run records, reports | operators |
| `EvalCampaign` | loading a suite, finishing cells, reporting; extends `EvalContract` | state machine and properties |
| `MCEvalCampaign` | a suite of two tasks, its damaged variants, plans, evidence | inputs |
| `TrialSession` | one trial from `prepare_evaluation_session` to its record; extends `EvalContract`, implements `EvalCampaign` | state machine and properties |
| `EvalProofs` | type correctness and the four properties of a trial, the four of a campaign, and that a trial implements the campaign's step | theorems |
| `MCTrialSession` | a fixture of one file, and a `.gitattributes` that may join it | inputs |
| `FleetProgress` | the contract of a fleet document and the dashboard's sections | operators |
| `FleetCollector` | two passes over a Pull Request, status and document; extends `FleetProgress` | state machine and properties |
| `FleetCollectorProofs` | type correctness and the four properties of a collection | theorems |
| `MCFleetCollector` | one project with a Pull Request, one without | inputs |
| `RepositoryMap` | map, impact and package of a commit | operators |
| `RepositoryContext` | the three builders, Git command by Git command; extends `RepositoryMap` | state machine and properties |
| `RepositoryContextProofs` | the inductive invariant of a build and the five properties of `context` | theorems |
| `MCRepositoryContext` | four commits, three scopes, four queries | inputs |
| `Bootstrap` | `plan_render`, `render`, and `inspect` of the drift report | state machine and properties |
| `BootstrapProofs` | type correctness, `LockDescribes`, `CollisionExplained`, `DriftForesees`, `KeepsOwn` | theorems |
| `MCBootstrap` | two commits of the Foundation, a working tree, two targets | inputs |

`QueueRetry` takes a record as something that appears whole; how it is written
is the matter of `RecordBranch`.  The two are joined by `WriteAhead` and
`Returned`: recovery goes on after `put_record()` only because the record is
there.  `TrialSession` and `EvalCampaign` share `EvalContract`: the first makes
one record while files are written around it, the second many records in any
order, each in one step.  `TrialSession` instantiates `EvalCampaign`
(`Campaign`) and implements it, so that this one step is justified; and
`RepositoryContext` takes the inspection of a workspace as one step, which
`TrialSession` has file by file.

### Repository

`default`, `pull`, `issue`, `authorization`, `runs`, `comments` and `threads`
are the facets of GitHub the supervisor reads.  Content addressed by a commit
does not change, so the files, workflow definitions and check configuration of a
commit are constants (`HeadPaths`, `HeadWorkflow`, `HeadConfig`).  `Ready` and
`MergeHead` are the two mutations; the rest of the actions are changes by
others, each of a named kind, so that an instance chooses the kinds it needs
(`EnvKinds`) and how many (`MaxChanges`).  Comments and Issues by untrusted
authors and edited comments never count, so they are not represented; a path
pattern stands for the paths it matches.  An Issue's `updated_at` grows with
every edit and the default branch's commit is new with every move: these are
the two facets with a version.

### Supervisor

`job[c]` is the call the coordinator `c` makes next and the local variables of
`evaluate()` it has filled; one action per client call, in the order of the
calls, in two passes.  A gate that fails ends the supervision (`Stop`), as the
`SupervisorError` does in `main()`.  `mid[c]` is a history variable: what the
repository held when the first pass ended.  It is the instant the evidence of a
decision is judged at.

The evaluation reads commit-addressed contents again in its second pass; they
cannot differ, so these reads are not steps, except the comparison of workflow
definitions, which is a gate of the first pass and is true in the second.  The
second pass walks the open Pull Requests to the end before it compares; the
model stops at the first overlap, with the same outcome.  A comment is the set
of markers it carries: the same marker twice in one comment is not represented.

Two running coordinators are possible in the module; the workflow's concurrency
group allows one, and the instances have one.

### RecordBranch

A commit of the branch is the sequence of the records since its root, so that
"is an ancestor of" is "is a prefix of" and the tree of a commit is what its
records say (`Lookup`).  `put_record()` is one action per call, from
`ensure_stop_branch()` to the last read of `wait_for_record()`; blobs, trees and
commit objects, to which nothing refers before the PATCH, are made in the step
that reads the head.  `PatchFails` is a PATCH that is refused, or fails with or
without effect.  The jobs run one after the other, which is what the
concurrency group is for; other automation writes on the same branch at any
time (`ForeignRecord`), and somebody may reset or delete it (`Rewrite`).
`Lag` lets a read of a file show the branch as it was earlier; `Overtake` lets
the PATCH of a cancelled job arrive after it has ended.  A record on the branch
carries the job that committed it (`by`): two jobs that commit equal records on
one head make two commits, since a commit has a date.

`Returned` says what the two answers of `put_record()` mean while nobody
rewrites the branch, and names the one exception: the job was answered False for
the record of a cancelled job whose PATCH arrived late, and the PATCH of a
second cancelled job, which had looked at the path before, arrived over it
(`Overtaken`).  `WriteOnce` is the refinement: `RecordMap!Spec` with `records`
read off the head of the branch.

### QueueRuns and QueueRetry

A *request* is what `request_fingerprint()` hashes: Issue, base commit, trigger
comment and body.  A run is an entry of the sequence `runs`, which is what the
Actions API lists; `told` says that its completion has been delivered.  The
owner may run a completed run again (`Rerun`), which makes a further entry of the
same `id`: the API then shows this attempt only, which `resolve_queue_event()`
admits for an owner's comment and turns away for everything else
(`SecondAttempt`).  `Dispatched` are the runs that were ever dispatched for an
attempt of a request, `ExactRuns` those that `exact_retry_runs()` still finds,
which asks for `run_attempt == 1`; `ClassOf` looks at the failed jobs of all
attempts of a run, as `--filter=all` does.  At this
commit no queue run can succeed: `implement` always ends with the missing secret
of the optional provider and uploads nothing, so that verification, hand-over
and checkpoints cannot occur and are not modelled.  `prepare` is one step, its
reads not interleaved with others.

The recovery job is one action per read or write, in the order of the code, from
`ReadBase` to `Confirm`.  `pending` is the one event the concurrency group keeps
while a job runs: a newer one replaces it (`Arrives`).  A dispatched run is
listed by the time the next job reads the runs.  `Fail` ends the job anywhere.

### ApiGovernor

One `GovernedGitHub` after another (`NewPass`), each with a fresh budget and
breaker, serves calls of `read_page()` and `write_once_with_probe()`.  All calls
for the write are for the same write, and its probe is a governed read.  Time is
counted in ticks: `since` ticks since the last request, `circuit.left` ticks
until `open_until`.  `AnswerWrite` chooses what became of the write: rejected,
done, or accepted and to be seen later (`due`, and `late` as the history of how
many there were).  Refusal by breaker or budget in the middle of
`write_once_with_probe()` leads to its recovery probe, which is refused in turn.

### EvalContract and EvalCampaign

A digest is the value it is taken of, and a document is a record of its fields;
what remains of the contracts is what relates one field to another and one
document to another.  `SuiteLoads`, `PlanAccepted`, `RequestBuilds`,
`ResultAccepted`, `GradedEvidence`, `RecordAccepted` and `ReportAccepted` stand
for the checks of the eight programs, in their order where an earlier refusal
hides a later one.  `EvalCampaign` chooses what is checked in and what a trial
leaves and observes: `Freezes` are the commits a trial may end with and what its
workspace then holds, `Observations` what the runner reports, numbers of either
sign included, because the assembler is given a plain data class.  `last` is the
record the last finished cell was assembled to, with its observation and the
grader its task has, so that `AssembledParses` can compare the assembler with the
parser also where the parser refuses.  `Limit` holds the upper bounds of a request
and of a record that no earlier program has: a request is as large as its fixture
has files (`RequestFits`), a run id and the source of a check are joined and as
long as their names together, and the rest are numbers; `wellFormed` stands for
the patterns of the single fields of an observation, of which the assembler checks
none.  The intervals and medians of a report are left out.

### TrialSession

`workspace` and `git` are the two directories, `job` the call under way.
Preparation copies the fixture file by file, makes the baseline commit, and
cleans up what it made when a call fails; `Crash` kills it between two of these
steps.  `Begin(call)` starts one of the four calls that come after the agent;
each freezes first: inspect, stage, inspect again, commit, twice over, and both
commits must be the same.  Inspection and staging list the files first and read
them one by one.  Git does not take in the bytes of a file but what the
`.gitattributes` of the workspace make of them (`Clean`: `text`, `ident`,
`working-tree-encoding`), and keeps the blob it has of a file that looks
unchanged to it: `StageFile` chooses among what any attributes met in this trial
make of the content (`git.met`, `CheckIns`), and `GitRaises` where a conversion
may fail.  So a commit is compared with a workspace by `CommittedAs`, and the
baseline (`Base`) is what Git makes of the fixture.  `LateWrite` is a process
that was thought to have stopped; it may write between any two of these steps,
at most `MaxLate` times.  A record the parser refuses, of either kind, leaves
the session as it was (`FinalizeRaises`).

`Campaign` maps a session to a campaign of one plan, one suite and one record:
the suite counts as loaded once the trial is prepared, `records` and `last` are
read off `record`, and `Endings` are baselines that hold the fixture, candidates
that are children of it, and any bundle.  The bundle is free because the delta is
inspected after the confirmation (section 4, 7); `RecordOfCandidate` says when it
is the candidate's.

### FleetProgress and FleetCollector

`pull`, `runs`, `threads` and `comments` are what the collector reads of one
project, page by page (`PageSize`); people and CI change them in between.  A
listing is newest first, so that a page holds the runs of certain ranks, and one
that moved under its reader is refused by its total and by repeated entries
(`ListingRefused`); two passes are compared and the status computed of what they
agree on.  A text is a length and whether it has a tab or a line break in it
(`Text`): the configured ones, and the reasons the collector writes, which name
every check that did not pass (`Detail`).  The contract takes a text of one line
and at most `MaxText` characters (`TextAccepted`), the configuration one that
may have several lines (`TextConfigured`).  `mid` is a history variable, what
GitHub held between the passes: Pull Request, runs, comments and the review they
make. `FleetProgress` is the contract the generated document must satisfy and
the section the dashboard shows a project in.

### RepositoryMap and RepositoryContext

`RepositoryMap` has the map of a commit (modules, imports, dependents), the
files a change reaches and the package built of them, as operators over a set of
files; `ImpactExact` and `MapExact` compare them with definitions by paths and
chains.  `RepositoryContext` has the commands: `Anchoring`, `ReadRemote`,
`ReadBaseline` and `ReadHead` before and after, the listing, and every blob.
Three callers share them and differ in which refs they look at and how often.
`run.moved` is a history of what moved while it was relied on.  Refs only move
forward and a file once written to is not written back: the code compares
values, and would not see those.  A ref that cannot be read counts as absent, as
`_optional_sha` has it: what was found of it before is not vouched for, and
nothing new is relied on.  A blob that is read with other bytes than its hash says
is refused (`ReadPython`, `ReadFile`), so that a map is made of what the commit has
and `MakeMap` takes it from there; `PackageOfCommit` says it of the files of a
package, and that the map is refused for a damaged blob is in no property.

### Bootstrap

`tree` is the working tree the renderer is run from, `source` the commit that is
checked out there, `disk` holds the managed paths of a target, `lock` the last
lock written.  `Begin` reads lock and sources and resolves the SHA the lock will
name: one the caller gives (`Given`, for `--source-sha` and
`FOUNDATION_SOURCE_SHA`) is taken as it is, and otherwise it is that of `HEAD`
(`Resolved`).  `PlanFile` plans one destination, `VerifyFile` looks at it again,
`VerifyLock` ends the verification and reads the sources a second time,
`WriteFile` and `WriteLock` write.  A source that has gone makes either reading
raise before anything is written.  `Crash` ends a render anywhere and may leave
the file or the lock being written cut short (`Torn`).  `Edit` and `RemoveLock`
are people of the target; `Draft` and `Restore` change the working tree of the
checkout and take it back, `Pull` moves the checkout on.  `strayed`, `touched`,
`job.edited`, `job.late`, `lock.mixed` and `lock.clean` are history: whose hand
a content is of that the lock does not describe, and whether a lock was written
from the working tree of the commit it names.  `Inspect` is the drift report
against the lock a fresh install would write.  Each of the two readings of all
sources is one step: a checkout that moves within a reading is as one that moves
between them.  Which files are managed is the commit's, since the generator that
lists them is not changed under itself; a SHA argument that is not one is
refused and not represented, and the SHA of no commit is like that of another
commit.  The content of the checklist is the mode it was written for;
directories, symbolic links and the text of files are not represented.

## 3. Runs

| Run | Asks | Bounds |
| --- | --- | --- |
| `snapshot` | do the gates of a decision, no overlapping Pull Request included, hold together at one instant; is the merged head the judged one, on an evaluation after Ready | two Pull Requests, three heads, two changes of nine kinds, one failure |
| `versioned` | are Issue and default branch exact under every kind of change; does a supervision end | `FairSpec`, two changes of sixteen kinds |
| `records` | does the branch implement the write-once map | three jobs, a walk of two commits, two reads, stale reads |
| `records_late` | does `put_record()` tell the truth when earlier writes arrive late and the branch is rewritten | three jobs of one path, two with the same record, late writes, one rewrite |
| `retry` | is every retry recorded, dispatched once unless it was run again, without gaps, never after a terminal record | one Issue, two environment steps of thirteen kinds, three retries |
| `retry_settles` | does an asked-for run end in a terminal record | `FairSpec`, two steps (comments, outages), one retry |
| `governor` | budget, breaker, the write and what is said of it | `FairSpec`, two passes of six requests, two attempts, threshold 2, cooldown of two ticks |
| `evaluation` | what does one contract refuse of what another accepted, and why; do the counts of a report add up | two tasks, six catalogs on six disks, six plans, three endings, some twenty observations on either side of each bound, two records |
| `trial` | is the prepared base the fixture, the commit what Git makes of what was inspected, the record of its candidate and graded | a file and the attributes that convert it, three late writes, one grading |
| `fleet` | does a listing miss a run; did the evidence hold at one moment; why is a document refused; is what is shown so | two workflows, two threads, three comments, pages of one, two changes |
| `context` | is the map exact, the impact complete, the package of its commit; did what was relied on hold | four commits of four or five files, two changes |
| `bootstrap` | is anybody's content lost; does the lock describe; are collisions explained and foreseen | two commits, five files, two edits of target or working tree, a SHA given or none, any number of renders and kills |

Every run passes.

*Bounds.*  Two changes are enough for a value to change and for a second facet
to change between two reads.  A change and its undoing also fit in two, which is
why `snapshot` leaves out the kinds that restore values (`retract`, `rerun`,
`push-back`, ...): the code compares values and cannot see those.  Two jobs for
one path and one for another are what a lost update needs, and a late write that
overtakes another takes three jobs of one path; two reads and a walk of two
commits let `wait_for_record()` give up for either reason. Two environment steps
let a request be asked for and disturbed once between any two calls of recovery,
or be asked for twice; three retries, the code's own number, fit in `retry`,
where an Issue may have from the beginning a body that makes the provider's
contract fail every time.  One comment starts a request there (`MaxTriggers`),
so that the two steps are spent on what disturbs it, a run that is run again
among them; `retry_settles` has two, and allows one retry only, to keep the
liveness check small: internal stop, exhaustion and lost events all occur.  Six
requests allow a probe, a write and a recovery probe with a retried read, and
the exhaustion of the budget between any two.

The bounds of requests and records (`MCLimit`) are a few files, checks or names,
and each is met by inputs within it and beyond it, by one where it is a number;
a record the parser refused is not followed on (`Followed`), since the trial
ends there.  Two records are what two cells, or one cell twice, need, with
environments that agree or not.  The three late writes of `trial` are part of
what is claimed: both freezes, with two inspections around each commit, come to
the same wrong commit only when four writes restore and disturb one file in step
with them, so that `FrozenConsistent` holds of fewer.  The attributes are a file
like any other: the agent, or a late writer, adds or removes them, and by them
Git commits one content of the file as the other, which makes two workspaces one
commit.  `MaxText` of `fleet` is 60 for the code's 500, so that a reason with
one name may fit and one with two does not; a phase, which the code bounds at
160 apart, has the same bound.  One world has a phase of several lines.  Pages
of one entry put a boundary between any two runs, threads or comments.  The
commits of `context` have an import cycle, a relative import, names that differ
in case and an import that leaves its package.  The second commit of `bootstrap`
changes a file, adds one, and stops managing one; two edits let people replace
and delete, write and remove the lock, or change the working tree and restore it
in the middle of a render.

*Deadlock* is checked for the supervisor (an idle coordinator can always be
started again) and the governor.  The others really stop: `RecordBranch` when its
jobs have ended, `QueueRetry` when its bounded environment has nothing left to
do, a campaign when nobody finishes another cell, a trial with its record, a
collection with its document, a builder with its package, and a target whose
lock was cut short when nobody has an edit left to remove it.

*Fairness.*  `FairSpec` assumes of the supervisor that a started supervision
takes its next step: it is a sequential script whose calls return or fail.  Of
the queue it assumes that GitHub runs what it has started and delivers the
completion of a run; nothing of people and failures.  Of the governor, that the
transport answers or fails, that a clock moves, and that a caller asks again:
`Reopens` is about such a caller only, and with the default `clock`, which
stands still, a breaker that has opened stays open for the pass.  The evaluation,
fleet, context and bootstrap programs are checked for safety only: each is one
sequential script, and what may be called next is up to its operator.

## 4. Where code and documents part

Read in the code while it was modelled.  The properties are stated as the code
has them, with the exception spelled out in the property or in its comment.

1. The changed files of a Pull Request are listed by its number
   (`github_coordinator_supervisor.py`, the client's `pull_files`).  A head
   replaced and restored between two reads is judged by the paths of another;
   `snapshot` leaves such a pair out.
2. `review_evidence` counts the markers of a comment before it skips the comment
   for lack of any other content, so a review can be clean without the
   "nonempty structured exact-SHA coordinator review record" that
   `docs/OPERATING_RULES.md` asks for.
3. `docs/PUBLIC_SECURITY_MODEL.md` speaks of scheduled scans that detect a
   request without a run.  The workflow has no schedule: a request whose event
   was displaced from the concurrency group stays where it is until somebody
   comments or starts a scan.  `Settles` is about requests that have a run.
4. A run denied by the tool permission contract concludes with success, is
   classified unknown and retried, although the same document says that
   permission failures do not loop.
5. A record written by a job that was cancelled can be replaced when its PATCH
   lands between the next job's look at the path and its read of the head;
   `WriteOnce` is stated for writes that do not outlive their job.
6. The parser of run records bounds what the assembler does not, so that a trial
   whose evidence was accepted can end without a record: at most 32 checks, the
   grader's own included, where the assembler adds it to a list of any length; a run
   id of 128 characters, joined from three names of up to 128; a source of a check
   of 240, which the grader's is joined from two paths of up to 240; a record of
   65,536 bytes; the maxima of all counts, of elapsed time, minutes and cost, and no
   negative API request, minutes or cost; at least one iteration and at most 10,000;
   no negative count of unresolved threads; the pattern of every single field.  And it
   refuses a check whose name and source are the grader's, which the assembler takes.
   `AssembledParses` says that there is nothing else.  Likewise a request: the loader
   of suites accepts a fixture of 100,000 files, and the list of a few thousand
   exceeds the 262,144 bytes of a request (`RefusalExplained`).
7. The delta a record is judged by is inspected after its candidate was
   confirmed, so a write during that last call is judged and not committed
   (`RecordOfCandidate`).  And `docs/AGENT_EVAL_TRIAL_GIT.md` and the docstring of
   `initialize_trial_git_identity()` say that the commits hold the exact bytes;
   `git add` takes in what a `.gitattributes` makes of them.  A candidate may
   therefore differ from the bundle inspected though nobody wrote, two workspaces may
   be one candidate, so that a grading of the one counts for the other, and a
   conversion that fails stops the call.  The properties compare commits with files
   by what Git may have made of them (`CommittedAs`).
8. `fleet_collect_github.py` returns `ci_running` or `completed` without a
   blocker before it looks at the review, and `fleet_progress.py` requires a
   blocker when the review is blocked: a blocking finding on a Pull Request that
   is merged, or whose checks are running, refuses the document of the whole
   fleet, where `docs/FLEET_PROGRESS.md` promises `blocked` (a merged Pull
   Request loses a configured blocker too, running checks do not).  The same happens
   when the checks that did not pass, of up to 16 workflows with names of up to 120
   characters, make a blocker longer than the 500 the contract takes, where the
   document promises `fix_required` or `blocked`; four or five long names are enough.
   And a configured text may have a tab or a line break
   (`fleet_collect_github.py`, `CONTROL_RE`) which the contract refuses
   (`fleet_progress.py`, `CONTROL_RE`).  `RejectionExplained` says that these three
   are all.
9. The renderer reads its sources twice.  When the checkout moves between the
   two, the lock names the earlier commit or the later, holds the later digests
   and says them of files that were found unchanged against the earlier ones
   (`LockDescribes` excludes these locks).  A source that has gone by the second
   reading stops the render before it has written anything.
10. A new-repository install that was killed cannot be resumed as one, because
    the target is no longer empty; resumed as an existing product it collides on
    its own checklist, whose text depends on the mode (`CollisionExplained`
    has such files in `strayed`).
11. The collector compares the times of the runs it selected, which GitHub gives to
    the second.  A
    run deleted between the passes, or a second run of the workflow updated in
    the second of the first, can give the same state and time from another run;
    `EvidenceAtOnce` leaves both out of what it says of the checks
    (`changes.deleted`, `TimesTell`).
12. The drift report calls a preserved `README.md` a collision when it is asked
    about the lock of a fresh install, and the upgrade preserves it
    (`DriftForesees`).
13. `_source_sha()` takes `--source-sha` or `FOUNDATION_SOURCE_SHA` without a look at
    the checkout, and reads a working tree that may have uncommitted changes.  The
    lock can thus name a commit whose contents it does not hold, where
    `docs/PROJECT_STARTUP.md` and the installed checklist speak of the exact source
    SHA.  `LockDescribes` says that it holds those of the commit it names if the
    working tree was that commit's (`lock.clean`), and in every case those that were
    installed.
14. The owner may run a dispatched retry again.  Its `run_attempt` is then no longer
    1 and `exact_retry_runs()` does not find it: if it is the last attempt that was
    recorded, recovery takes it for one that was never dispatched and dispatches it a
    second time, beyond the "three attempts per Issue/trigger/base fingerprint" of
    `docs/PUBLIC_SECURITY_MODEL.md`; if it is an earlier one,
    `stranded_retry_attempt()` raises at every event of the request from then on.
    `DispatchedOnce` names the first, `NoGaps` speaks of what was ever dispatched,
    and `Settles` is checked without runs that are run again.
15. `shutil.rmtree(..., ignore_errors=True)` may leave a directory of a failed
    preparation behind and say nothing.  `PreparationWhole` takes it to remove what it
    is told to.

## 5. Proofs

All theorems hold for every value of the constants that satisfies the named
assumptions of the modules, which TLC evaluates on the instances.

`SupervisorProofs`: `TypeCorrect` (`Spec => []TypeOK`) and `VersionedCorrect`
(`Spec => []VersionedAtomic`).  `VersionedAtomic` is not inductive: it speaks of
decisions, and a decision is right because of everything read before it.  The
inductive invariant `IInv` adds what a coordinator knows at every stage:
`Captured` says that what it read is not later than the repository
(`LaterIssue`, `LaterDefault`: the version is at most the present one, and equal
versions mean equal values), and `Remembered` that the history value lies
between the two.  When the second read finds the version of the first, the value
in between has that version too, and so is the same value.  `WorldGrows` is the
part of the argument about the repository: no step of it takes a version back.

The other evidence carries no version, and a change that restores an old value
between two reads does deceive the double read.  `SnapshotCorrect` and
`MergeJudgedCorrect` therefore assume `NothingRestored`: no force push back to an
earlier head, no edit of the body, no close, no rerun under the same run id, no
comment or authorization withdrawn (the kinds of `Restores`; the run
`supervisor_snapshot` leaves out the same ones).  Then the argument is made kind by
kind.  `Forward` says of the repository that authorizations and comments grow,
that runs go on to a later id or from pending to a conclusion (`LaterRun`), that a
head once left is not the head again (`WasSeen`), and that a merged Pull Request
stays merged; `Evident` says that what was read passed its gate and has not been
gone back on, `Between` that the history value lies between the reads, and
`Settled` that what the second pass has read again is what it was then.  For the
review the two reads need not see the same comments, only an equal verdict:
`CleanBetween` shows that between two clean sets of comments every set is clean.
`CollisionFreeCorrect` adds `OneCoordinator`, the concurrency group of the
supervisor workflow: another coordinator could merge the overlapping Pull Request
between the two scans, and the merged one is no longer listed.
`FreshAfterReadyCorrect` needs `OneCoordinator` and that nobody else toggles the
draft flag, and nothing of `NothingRestored`.

`RecordBranchProofs`: `TypeCorrect`, and `WriteOnceCorrect`, which is `Orderly
=> (Spec => WriteOnce)` with `Orderly` for an instance without rewrites and
without writes that outlive their job.  The argument is that of compare-and-swap
under mutual exclusion.  The invariant says that at most one job is at work,
that no path has two records (`Unique`), that the head the job observed is a
prefix of the branch, and that between its look at the path and its PATCH only
records at other paths were added.  So a PATCH that is accepted appends a record
at a path that had none, and every step of the branch is a step of the map or a
stutter. `ConfirmedThereCorrect` and `ReturnedCorrect` have no such hypothesis.
Their invariant follows who committed what.  `CInv`: a job's commit is not on
the branch before its PATCH (`NotYet`) and is not an ancestor of anybody's head
while the job is at work (`Apart`), so that no commit at its path can follow its
own until it has answered (`Waits`).  `RInv`, while nobody has rewritten the
branch: a late PATCH lands only on the head its job saw, an answer closes its
path to jobs that start later (`Closed`), a job at work sees what the jobs that
answered before it committed (`Since`), and so what it reads is still what its
path says, or was overtaken by late writes only (`Seen`).

`QueueRetryProofs`: `TypeCorrect`, `WriteAheadCorrect`, `DispatchedOnceCorrect`,
`NoGapsCorrect` and `StopIsFinalCorrect`. The invariant ties the stage of the
job to records and runs: from `exact` on the record of its attempt is there;
from the look at the runs (`CheckExact`) on every run dispatched for that
attempt was run again (`Undispatched`), because only the job itself dispatches
and it dispatches once.  What was run again stays so (`AgainKept`), and what was
dispatched stays dispatched (`DispatchedGrow`), which is why gaps are spoken of
in terms of `Dispatched` while the job looks at `ExactRuns`.  `OnBase` says that
a retry run has the head its request names, so that `exact_retry_run()` finds
it, or that the default branch has left that base for good, so that the request
can be nobody's again.  `GapOK` says what a running job knows of the records it
read: they are all there are, because only the job makes records, so that the
attempt it chose is the next one, and every one of them was dispatched; `StopOK`
that a job goes on only where there is no terminal record.

`ApiGovernorProofs`: `TypeCorrect`, `OpenCorrect`, `RestCorrect`, `OnceCorrect`
and `OutcomeCorrect`.  The invariant has three parts: an open breaker has at
least the rest of the cooldown to go (`left + since >= Cooldown`) and is closed
while a request is on its way; effects and effects to come exceed the late ones
by one at most, and not at all when the write is about to be sent; a write known
to be applied is in its last probe.

`BootstrapProofs`: `TypeCorrect`, `LockDescribesCorrect`,
`CollisionExplainedCorrect`, `DriftForeseesCorrect` and `KeepsOwnCorrect`.  The
invariant follows a render.  `PlanOK` says what a planned action means: a file to
be upgraded was seen with a content of the Foundation, one to be overwritten is
authorized, one called unchanged is still so or was edited meanwhile.
`VerifiedOK` carries what the second look has seen to the write, except for files
edited after it (`late`); with `PlanOK` this is why nothing of the target's
people is written over.  `WrittenOK` says that what was written is there but for
edits, and `SourcesOK` that the sources planned from are those of the working tree
until the second reading, unless it changed, and those of the commit the lock will
name as long as the render is clean; together they make a written lock describe the
disk, and its commit.  `GivenAssumption` and `ReleaseAssumption` say that a SHA that
is given is one of a commit and that a commit gives contents to the files it
manages.  `Accounted` says that
every content of the Foundation on the disk is in the lock or has `strayed`,
which explains the collisions.  `DriftForesees` needs only the types: it compares
two functions of the same lock and disk.

`EvalProofs`, of a trial: `TypeCorrect`, `PreparationWholeCorrect`,
`FrozenConsistentCorrect`, `RecordOfCandidateCorrect`, `PassedWasGradedCorrect`
and `TrialIsCellCorrect`.  `PrepareInv` says what each stage of a preparation
has made, so that its handler removes all of it, also when an earlier
preparation was killed and left its own part behind.  `ReadInv` says that what a
call has read since it began is what the workspace holds, unless somebody wrote
meanwhile; `RecordInv` carries this to the record: the candidate confirmed is
the workspace judged, and an evidence that was graded is the one that was
confirmed. `FrozenConsistent` is about writes in the middle of a freeze, so
nothing can be said of the workspace: `FreezeInv` counts instead, path by path,
how many late writes a difference between what was inspected first, staged,
inspected again and committed has taken (`Freezing`, `Confirming`), where a
difference is a blob that no attributes met so far would make of the content
(`Torn`); that attributes are only added to those met (`MetGrows`) makes a
commit stay what it was (`CommittedGrows`). A path at which a frozen commit and
its bundle differ took four.  That three do not suffice is what the property
says, so `MaxLate <= 3` is the hypothesis of its theorem and of none other.
`PassedWasGraded` needs that no failure class of the contracts is `None`
(`FailureAssumption` of `EvalContract`), because a record without a failure is
one that passed.

Of a campaign: `RefusalExplainedCorrect`, `AssembledParsesCorrect`,
`ReportableCorrect` and `CountsAddCorrect`.  `Loaded` says that the suite of a
campaign is what `SuiteLoads` accepted of what is checked in; a request can then
be refused only for what no loader compared, or its size (`RequestOfTask`).  Of
what the assembler lets through the parser refuses what exceeds its bounds
(`BoundsDecide`) and takes the rest (`GradedParses`, `InfrastructureParses`):
each of the parser's other conditions follows from one of the assembler's gates,
and the checks are as many as their identities unless one of them took the
grader's (`IdentitiesCount`).  `RecordsOK` is the invariant of the records
supplied: each was accepted, no success has an escape, and each is `OfCell` of a
cell of the plan, because the run id, the arm's execution, the task and the
trial of a request identify its cell (`IdentityOfCell`).  `Reportable` is then
about run ids alone.  `CountsAdd` counts: an accepted report is an injection of
its records into the cells (`CellsCovered`), what an injection leaves of a
finite set is as many as the set less its domain (`Covering`), and the cells of
an arm are the product of tasks and trials (`CellsFinite`).  The assumptions are
that catalogs, plans, directories and the checks of an observation are finite
and that counts are numbers (`CampaignAssumption`, `ObservationAssumption`).

`TrialIsCellCorrect` is the refinement, `Spec => Campaign!CampaignSpec`, stuttering
on every step that makes no record.  `CellInv` has what the mapping needs: a session
that is prepared keeps the baseline of the fixture, what was frozen is its child,
a call that finalizes has something frozen, and a record is made once.  The first
baseline maps to `Load`, the two finalizations to the two ways of finishing a cell.
The operators of an instance are other symbols than those of the module, so
`SameRequest` to `SameParser` say that each contract is the same on both sides.
`RequestAssumption` says that the suite of the trial was loaded and its plan
accepted, which the types of `prepare_evaluation_session()` stand for.
No run checks `TrialIsCell`: TLC would look for an ending at every step of the
large state space of `trial`.

`FleetCollectorProofs`: `TypeCorrect`, `ListingCompleteCorrect`,
`EvidenceAtOnceCorrect`, `RejectionExplainedCorrect` and `ReportTrueCorrect`.
Each property has an invariant of its own, because they rest on different
things. *Listing*: `UnderWay` says that a run that stayed and was not read has a
rank, the number of newer runs, of at least the offset of the next page, less
what the total has lost since; a total that is still the same makes that
nothing, and at the last page the offset is past every rank.  *Checks*: while no
run is deleted every run is followed by itself, updated or not (`Followed`), so
`ChecksInv` chains the first listing, the runs between the passes, and the
second listing. `ChecksBetween` is the argument about such a chain: equal times
at its ends leave the run in the middle no time of its own, and `TimesTell`
makes it the same run. *Review*: `Static` says that the pages read are the
beginning of what is there; a first change makes one of the two passes other
than static, and only a second one both (`ReviewInv`).  *Reports*: `OutcomeInv`
says what a report is made of, and `Contract`, `ReadyMeans` and `Shown` compare
the status with the contract and the sections, for every configuration
`ProjectConfigured` accepts. `RejectionExplained` is an equivalence:
`BlockerText` says when the blocker of a status is one the contract takes, from
the lengths of the reasons (`ReasonTexts`), and `DocumentContract` that a
document is refused for its one collected project or for a configured one, which
nothing else can make fail (`BaselinesInDocument`, `NoteKept`).  The assumptions
say what `validate_config()` has checked, that runs and comments have numbers,
and that a reason, a section or a head is not `None`.

`RepositoryContextProofs`: `InvCorrect`, and `HeldThroughoutCorrect`,
`PackageOfCommitCorrect`, `ContextIsFixtureCorrect`, `ImpactExactCorrect` and
`MapExactCorrect`.  The inductive invariant `Inv` follows a run along its places.
`StageOK` says in which round of looks at the refs each place can be, `CheckedOK`
that the tree was accepted and all of its Python parsed before a map of it is
made, `PackageOK` that from the selection on the map is the one the commit gives,
for `Rebuilt` compares it with a second one, and that the files collected are
those of the impact but for the ones still to be read.  `HeldOK` says that what
was read is what the repository holds, or has `moved`; and then the next look at
it refuses, or the run is already `Doomed`, because the head it must be anchored
to has gone past its commit.  The last round reads everything once more, and so
nothing that moved is left in a run that ends with a package.

`ImpactExact` and `MapExact` compare what is computed with a definition of
another kind, for trees of any size, and that took two detours.  `_expand` is a
recursive function, and what it holds after `n` rounds needs induction, whose
library form takes an operator these provers cannot instantiate.  `NatSet`
states induction for a *set* of numbers instead, from the well-foundedness of
proper inclusion between finite sets, and `RoundsExist` builds the function one
round at a time; `ExpandFinds` then says that a breadth-first search of `depth`
rounds finds what a chain of at most `depth` imports reaches.  `LinkedBack`
turns a chain round, which is why dependents found over reversed edges are
right.  For the map, `BaseIs` and `CandidatesAre` compare the packages a
relative import climbs with the directories of its file. The assumptions: a name
is text and a star none (`NamesAreText`), and the refs, sessions and queries of
an instance are of its own commits (`RefsOK`, `SessionsOK`, `QueriesOK`,
`CommitsOK`).

Attempts that failed for a reason corrected the models.  `EvidenceAtOnce` did not
reckon with a second run of a workflow in the same second (11), nor
`RejectionExplained` with a merged Pull Request whose review blocks (8).
`HeldThroughout` was false where the baseline cannot be read at the first look:
it was counted as relied upon, and a run anchored by its head alone broke the
property when that baseline then moved to the commit.  `_optional_sha` gives
`None` for such a ref and the code promises nothing of it, so neither does the
model; the instance lacked a baseline behind the head, and has one now.  The
definition `MapExact` compares with took the star of `from m import *` for a
member, which was right only as long as no module could be called so.
`AssembledParses` was false for an observation without an iteration or with a
negative count of threads, which no instance had (6).  Proofs do not help where the
model itself is coarser than the code: as long as staging kept bytes, runs had one
attempt, texts and records had no size and a lock named the checkout's commit, the
theorems about them held and said too much (6, 7, 8, 13, 14).

Model-checked only: the liveness properties `SupervisionEnds`, `Settles` and
`Reopens`, which are beyond TLAPS.  Every invariant and every action property
that a run checks is a theorem.  The type
invariants of the eight modules with proofs are theorems and are not checked by
a run besides.

## 6. Not modelled

- *Supervisor workflow*: triggers and a concurrency group around one call of the
  supervisor.  `Supervisor` starts supervisions of any Pull Request at any time,
  which includes whatever the workflow starts; whether it starts one for every
  Pull Request that becomes mergeable is not claimed.
- *Free-only coordinator*: the supervisor's gates in the same order with the same
  double read, over external check runs in place of native ones.  A second copy
  of `Supervisor` with another check evidence would ask no new question.
- *Artifact publication and resumption*: no queue run can succeed at this commit,
  so no artifact is there to publish; a model would start from states the system
  does not reach.
- *Issue hydration, collision discovery, trusted checks and policy, repository
  guards*: functions of what they are given, without state.  `prepare` and
  recovery take a stable Issue as read; the supervisor takes the results of the
  policy as constants of a commit, Bootstrap what the guards refuse as a set of
  contents.
- *`read_all` of the governor*: a loop over `read_page` that keeps no state but
  its list.
- *Handoff and workspace contracts*: parsers whose documents no program of the
  repository writes or reads; *the initial suite* is data of the evaluation.
- *Authentication, CI, unit tests*: a person's login on one machine, and lists of
  commands.
- Below the models: the text of documents and Markdown, canonical JSON, patterns
  of single fields, HTTP and JSON decoding, file modes, the environment of Git
  commands, statistics of a report.

## 7. Plan

The modules and theorems planned are there.  What is left out is in section 6,
and what only TLC checks at the end of section 5.  A change of the code begins
at the module that `PROJECT.json` maps its lines to: its run first, then its
proofs, whose inductive invariants name what the rest of the argument relies on.
