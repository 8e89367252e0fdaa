----------------------------- MODULE EvalContract -----------------------------
(***************************************************************************)
(* The contracts of the evaluation pipeline: what a task manifest, a suite *)
(* with its directories, an experiment plan, a trial request, a grader     *)
(* result, a run record and a report of runs must satisfy                  *)
(* (scripts/agent_eval_*_contract.py, agent_eval_trial_request.py,         *)
(* agent_eval_run_assembly.py and agent_eval_report.py).                   *)
(*                                                                         *)
(* A digest is the value it is taken of.  A path and an identifier are     *)
(* sequences of names, case-folded where the code folds them; what one     *)
(* field's own pattern accepts is left out, so a raw value here is one     *)
(* whose fields are well formed each by itself.                            *)
(***************************************************************************)
EXTENDS Integers, Sequences, FiniteSets, SequencesExt

CONSTANTS None,         \* absent or refused
          Unsafe,       \* names no safe path has
          MaxArms,      \* bound of an experiment plan
          Limit,        \* upper bounds of a request and of a run record
          Observations  \* what the runner may observe of a trial

\* A run without a failure class is told from one with any of them.
ASSUME FailureAssumption == None \notin {"safety_scope", "model", "harness", "infrastructure"}

\* files: a request, in files of its fixture; bytes: a record; id and source:
\* texts, in names; the others: the numbers of a record.
ASSUME LimitAssumption ==
  /\ Limit \in [{"files", "bytes", "id", "source", "checks", "count", "iterations",
                 "elapsed", "minutes", "cost"} -> Nat]
  /\ Limit.count >= 1

\* TrialRuntimeObservation: numbers, of either sign, and a list of checks.
\* wellFormed: does each of its texts and choices pass the pattern a record
\* has for it; bytes: what environment and checks take of a record.
ASSUME ObservationAssumption ==
  \A o \in Observations :
    /\ {o.elapsed, o.unresolved, o.requests, o.confirmed, o.false, o.iterations, o.api,
        o.minutes, o.bytes} \subseteq Int
    /\ o.cost \in Int \union {None} /\ o.wellFormed \in BOOLEAN
    /\ IsFiniteSet(o.checks)

Sole(S) == \E x \in S : S = {x}
The(S)  == CHOOSE x \in S : TRUE

------------------------------------------------------------------------------
(* Paths *)

\* Names that make a path unsafe: "..", ".git" in any case, wildcards.
SafePath(p) == p # <<>> /\ \A i \in DOMAIN p : p[i] \notin Unsafe

\* An allowed path names one path or, as a scope, everything below it.
PathAllowed(path, allowed) ==
  \E a \in allowed : IF a.scope THEN IsStrictPrefix(a.path, path) ELSE a.path = path

------------------------------------------------------------------------------
(* Task manifests *)

AllowedAccepted(allowed) ==
  /\ allowed # {}
  /\ \A a \in allowed : SafePath(a.path)
  /\ Cardinality({a \in allowed : a.scope}) <= 1

GraderAccepted(m) == SafePath(m.entrypoint) /\ Len(m.entrypoint) > 1 /\ m.entrypoint[1] = "grader"

AuthorizationAccepted(m) == m.authorization # None => m.authorization.expectedHead

(* Mutant of TaskAccepted: authorization is not compared with the risk tier. *)
TaskAcceptedUnsigned(m) ==
  AllowedAccepted(m.allowed) /\ GraderAccepted(m) /\ AuthorizationAccepted(m)

TaskAccepted(m) ==
  /\ AllowedAccepted(m.allowed)
  /\ GraderAccepted(m)
  /\ AuthorizationAccepted(m)
  /\ (m.tier = "protected") = (m.authorization # None)
  /\ (m.completion = "human_action_required") = (m.reason # None)
  /\ m.trials >= 1

------------------------------------------------------------------------------
(* Suites: disk maps each path to what is there *)

Resolves(disk, path, kind) == path \in DOMAIN disk /\ disk[path].kind = kind

\* inspect_directory_bundle() takes regular files only, each path once.
BundleAccepted(dir) ==
  /\ dir # {}
  /\ \A e \in dir : e.kind = "file"
  /\ \A e, f \in dir : e.path = f.path => e = f

\* The bundle of a directory: its files with what they hold.
BundleOf(dir) == {[path |-> e.path, content |-> e.content] : e \in dir}

Overlap(p, q) == IsPrefix(p, q) \/ IsPrefix(q, p)

EntryAccepted(e) ==
  /\ SafePath(e.path) /\ e.path[1] = "tasks"
  /\ SafePath(e.fixture) /\ e.fixture[1] = "fixtures"
  /\ SafePath(e.grader) /\ e.grader[1] = "graders"

CatalogAccepted(entries) ==
  /\ entries # {}
  /\ \A e \in entries : EntryAccepted(e)
  /\ \A e, f \in entries : e # f =>
       /\ <<e.task, e.version>> # <<f.task, f.version>>
       /\ e.path # f.path
       /\ ~Overlap(e.fixture, f.fixture)
       /\ ~Overlap(e.grader, f.grader)

\* What load_evaluation_suite() checks of one entry against the disk.
TaskLoads(e, disk) ==
  /\ Resolves(disk, e.path, "file") /\ disk[e.path].content = e.manifest
  /\ LET m == disk[e.path].content IN
     /\ TaskAccepted(m)
     /\ <<m.task, m.version>> = <<e.task, e.version>>
     /\ Resolves(disk, e.fixture, "directory") /\ Resolves(disk, e.grader, "directory")
     /\ LET fixture == disk[e.fixture].content
            grader == disk[e.grader].content
        IN /\ BundleAccepted(fixture) /\ BundleOf(fixture) = m.fixture
           /\ BundleAccepted(grader) /\ BundleOf(grader) = m.grader
           /\ m.entrypoint \in {f.path : f \in grader}

SuiteLoads(catalog, disk) ==
  CatalogAccepted(catalog.entries) /\ \A e \in catalog.entries : TaskLoads(e, disk)

\* The task of an accepted suite: the entry, its manifest and its fixture.
SuiteTask(e, disk) ==
  [entry |-> e, manifest |-> disk[e.path].content, fixture |-> BundleOf(disk[e.fixture].content)]

SuiteOf(catalog, disk) ==
  [id |-> catalog.id, tasks |-> {SuiteTask(e, disk) : e \in catalog.entries}]

------------------------------------------------------------------------------
(* Experiment plans and trial requests *)

PlanAccepted(plan) ==
  /\ plan.tasks # {} /\ plan.interruption \subseteq plan.tasks
  /\ Cardinality(plan.arms) \in 2..MaxArms
  /\ Sole({a \in plan.arms : a.role = "baseline"})
  /\ \A a, b \in plan.arms : a # b =>
       a.id # b.id /\ a.role # b.role /\ a.execution # b.execution
  /\ plan.trials >= 1

Cells(plan) == [arm : {a.id : a \in plan.arms}, task : plan.tasks, trial : 1..plan.trials]

Arms(plan, cell)   == {a \in plan.arms : a.id = cell.arm}
Tasks(suite, cell) == {t \in suite.tasks : t.entry.task = cell.task}

\* serialize_agent_trial_request(): the size of a request is that of the list
\* of fixture files in it; the rest is less than half of what is allowed.
RequestFits(t) == Cardinality(t.fixture) <= Limit.files

RequestBuilds(plan, suite, cell) ==
  /\ plan.suite = suite.id
  /\ plan.tasks \subseteq {t.entry.task : t \in suite.tasks}
  /\ Sole(Arms(plan, cell))
  /\ cell.task \in plan.tasks
  /\ cell.trial \in 1..plan.trials
  /\ Sole(Tasks(suite, cell))
  /\ LET t == The(Tasks(suite, cell))
         m == t.manifest
     IN /\ m.trials = plan.trials
        /\ m.profile = plan.profile
        /\ <<m.task, m.version, m>> = <<t.entry.task, t.entry.version, t.entry.manifest>>
        /\ m.fixture = t.fixture
        /\ (m.authorization # None) = (m.tier = "protected")
        /\ RequestFits(t)

\* The request an agent sees; as its digest, what identifies the trial.
RequestOf(plan, suite, cell) ==
  LET t == The(Tasks(suite, cell))
  IN [plan |-> plan, arm |-> The(Arms(plan, cell)), trial |-> cell.trial,
      task |-> t.entry.task, version |-> t.entry.version, manifest |-> t.manifest,
      fixture |-> t.fixture, allowed |-> t.manifest.allowed]

------------------------------------------------------------------------------
(* Changes of a workspace, grader results and run records *)

\* The paths of either bundle that are not the same in both.
ChangedPaths(before, after) ==
  {f.path : f \in (before \ after) \union (after \ before)}

DeltaOf(request, bundle) ==
  LET changed == ChangedPaths(request.fixture, bundle)
  IN [request |-> request, bundle |-> bundle, changed |-> changed,
      violations |-> {p \in changed : ~PathAllowed(p, request.allowed)}]

\* What a grader is told of a trial, and must repeat in its result.
Expectation(request, base, candidate) ==
  [task |-> request.task, version |-> request.version, manifest |-> request.manifest,
   grader |-> request.manifest.grader, foundation |-> request.plan.suite,
   base |-> base, candidate |-> candidate]

ResultAccepted(result, expected) ==
  /\ result.checks # {}
  /\ (result.outcome = "passed") = (\A c \in result.checks : c.outcome = "passed")
  /\ result.identity = expected

ProcessAgrees(exitCode, result) ==
  exitCode \in {0, 1} /\ (exitCode = 0) = (result.outcome = "passed")

ObservationValid(o) ==
  /\ \A n \in {o.elapsed, o.requests, o.confirmed, o.false} : n >= 0
  /\ o.confirmed + o.false = o.requests

CheckIdentity(c) == <<c.name, c.source>>

ChecksBound(checks, candidate) ==
  /\ \A c \in checks : c.head = candidate
  /\ \A c, d \in checks : CheckIdentity(c) = CheckIdentity(d) => c = d

\* Did the trial end the way its task is meant to end?
Completed(plan, request, delta, o) ==
  LET completion == request.manifest.completion
      unchanged == delta.changed = {}
  IN /\ completion = "no_change_required" => unchanged
     /\ completion = "human_action_required" =>
          unchanged /\ o.false = 0 /\ o.requests >= 1 /\ o.confirmed = o.requests
     /\ completion # "human_action_required" => o.false = 0
     /\ request.task \in plan.interruption => o.handoff = "resumed"

(* Mutant of EarlyFailure: unresolved review threads are not looked at. *)
EarlyFailureUnreviewed(delta, result, o) ==
  IF delta.violations # {} THEN "safety_scope"
  ELSE IF result.outcome # "passed" THEN "model"
  ELSE IF \E c \in o.checks : c.required /\ c.conclusion # "success" THEN "harness" ELSE None

\* The gates that come before the completion class, in their order.
EarlyFailure(delta, result, o) ==
  IF delta.violations # {} THEN "safety_scope"
  ELSE IF result.outcome # "passed" THEN "model"
  ELSE IF o.unresolved # 0 \/ \E c \in o.checks : c.required /\ c.conclusion # "success"
       THEN "harness" ELSE None

\* Evidence that contradicts the task is refused, where it is looked at.
Contradicts(plan, request, delta, o) ==
  LET completion == request.manifest.completion
  IN \/ /\ completion # "human_action_required" /\ o.confirmed > 0
        /\ ~(completion = "no_change_required" /\ delta.changed # {})
     \/ /\ request.task \notin plan.interruption /\ o.handoff # "not_applicable"
        /\ Completed(plan, request, delta, o)

FailureClass(plan, request, delta, result, o) ==
  IF EarlyFailure(delta, result, o) # None THEN EarlyFailure(delta, result, o)
  ELSE IF Completed(plan, request, delta, o) THEN None ELSE "model"

(* Mutant of RunId: the arm is left out. *)
RunIdWithoutArm(request) == request.task \o <<request.trial>>

RunId(request) == request.arm.id \o request.task \o <<request.trial>>

BaseRecord(request, candidate, o) ==
  [runId |-> RunId(request), task |-> request.task, trial |-> request.trial,
   execution |-> request.arm.execution, foundation |-> request.plan.suite,
   candidate |-> candidate, environment |-> o.environment, elapsed |-> o.elapsed,
   unresolved |-> o.unresolved, requests |-> o.requests, confirmed |-> o.confirmed,
   false |-> o.false, handoff |-> o.handoff, iterations |-> o.iterations, api |-> o.api,
   minutes |-> o.minutes, cost |-> o.cost, wellFormed |-> o.wellFormed]

Extend(base, more) ==
  [f \in DOMAIN base \union DOMAIN more |-> IF f \in DOMAIN more THEN more[f] ELSE base[f]]

\* The grader's check is filed under its directory and entry point, joined.
GraderSource(t) == t.entry.grader \o t.manifest.entrypoint

GraderCheck(source, result, candidate) ==
  [name |-> "grader", source |-> source, required |-> TRUE, head |-> candidate,
   conclusion |-> IF result.outcome = "passed" THEN "success" ELSE "failure"]

\* What assemble_graded_evaluation_run() requires of its evidence.
GradedEvidence(plan, request, delta, result, candidate, o) ==
  /\ ObservationValid(o)
  /\ delta.request = request
  /\ Extend(result.identity, [base |-> None]) = Expectation(request, None, candidate)
  /\ ChecksBound(o.checks, candidate)
  /\ EarlyFailure(delta, result, o) = None => ~Contradicts(plan, request, delta, o)

GradedRecord(plan, source, request, delta, result, candidate, o) ==
  LET failure == FailureClass(plan, request, delta, result, o)
      success == failure = None
  IN Extend(BaseRecord(request, candidate, o),
       [checks |-> {GraderCheck(source, result, candidate)} \union o.checks,
        count |-> 1 + Cardinality(o.checks),
        bytes |-> o.bytes + Len(RunId(request)) + Len(source),
        failure |-> failure, success |-> success,
        firstPass |-> success /\ o.iterations = 1,
        escapes |-> IF result.outcome = "passed" THEN 0 ELSE 1,
        violations |-> Cardinality(delta.violations),
        outcome |-> IF success THEN "passed" ELSE "failed"])

InfrastructureEvidence(candidate, o) == ObservationValid(o) /\ ChecksBound(o.checks, candidate)

InfrastructureRecord(request, candidate, o) ==
  Extend(BaseRecord(request, candidate, o),
    [checks |-> o.checks, count |-> Cardinality(o.checks),
     bytes |-> o.bytes + Len(RunId(request)), failure |-> "infrastructure",
     success |-> FALSE, firstPass |-> FALSE, escapes |-> 0, violations |-> 0,
     outcome |-> "infra_error"])

ChecksAccepted(r) ==
  /\ r.count <= Limit.checks
  /\ \A c \in r.checks : Len(c.source) <= Limit.source /\ c.head = r.candidate
  /\ Cardinality({CheckIdentity(c) : c \in r.checks}) = r.count

MetricsAccepted(r) ==
  /\ r.elapsed \in 0..Limit.elapsed /\ r.iterations \in 1..Limit.iterations
  /\ {r.violations, r.escapes, r.requests, r.confirmed, r.false, r.api} \subseteq 0..Limit.count
  /\ r.minutes \in 0..Limit.minutes
  /\ r.cost # None => r.cost \in 0..Limit.cost

\* parse_evaluation_run(): the bounds and the consistency of one record.
RecordAccepted(r) ==
  /\ r.bytes <= Limit.bytes /\ Len(r.runId) <= Limit.id /\ r.wellFormed
  /\ MetricsAccepted(r) /\ ChecksAccepted(r) /\ r.unresolved \in 0..Limit.count
  /\ r.firstPass => r.success /\ r.iterations = 1
  /\ r.confirmed + r.false <= r.requests
  /\ IF r.outcome = "passed"
     THEN /\ r.success /\ r.failure = None /\ r.unresolved = 0
          /\ \E c \in r.checks : c.required
          /\ \A c \in r.checks : c.required => c.conclusion = "success"
     ELSE ~r.success /\ r.failure # None

------------------------------------------------------------------------------
(* Reports *)

ArmsOf(plan, r) == {a \in plan.arms : a.execution = r.execution}
CellOf(plan, r) == [arm |-> The(ArmsOf(plan, r)).id, task |-> r.task, trial |-> r.trial]

\* records is a sequence: the same record may be given twice.
ReportAccepted(plan, records) ==
  /\ \A i \in DOMAIN records :
       LET r == records[i] IN
       /\ RecordAccepted(r)
       /\ r.foundation = plan.suite
       /\ r.task \in plan.tasks /\ r.trial \in 1..plan.trials
       /\ Sole(ArmsOf(plan, r))
  /\ \A i, j \in DOMAIN records : i # j =>
       /\ records[i].runId # records[j].runId
       /\ CellOf(plan, records[i]) # CellOf(plan, records[j])
       /\ records[i].environment = records[j].environment

(* Mutant of Missing: a cell without a judged run is missing. *)
MissingUnjudged(plan, records) ==
  Cells(plan) \ {CellOf(plan, records[i]) : i \in {j \in DOMAIN records : records[j].outcome # "infra_error"}}

Missing(plan, records) == Cells(plan) \ {CellOf(plan, records[i]) : i \in DOMAIN records}

ArmReport(plan, records, arm) ==
  LET mine  == {i \in DOMAIN records : CellOf(plan, records[i]).arm = arm}
      valid == {i \in mine : records[i].outcome # "infra_error"}
  IN [supplied |-> Cardinality(mine), valid |-> Cardinality(valid),
      infrastructure |-> Cardinality(mine \ valid),
      missing |-> Cardinality({c \in Missing(plan, records) : c.arm = arm}),
      success |-> Cardinality({i \in valid : records[i].success}),
      firstPass |-> Cardinality({i \in valid : records[i].firstPass}),
      escapes |-> Cardinality({i \in valid : records[i].escapes > 0})]
==============================================================================
