----------------------------- MODULE EvalCampaign -----------------------------
(***************************************************************************)
(* An evaluation campaign: a suite is loaded, the cells of a plan are      *)
(* finished in any order, some of them more than once, and the records     *)
(* are reported (scripts/agent_eval_report.py and the contracts of         *)
(* EvalContract).  What agents, graders and the runner observe is external.*)
(***************************************************************************)
EXTENDS EvalContract

CONSTANTS Catalogs, Disks, Plans,  \* what may be checked in
          Freezes,                 \* the commits a trial may end with, and what it left
          MaxRecords               \* bound: records supplied to the report

\* Catalogs, plans and directories are finite.
ASSUME CampaignAssumption ==
  /\ MaxRecords \in Nat
  /\ \A c \in Catalogs : IsFiniteSet(c.entries)
  /\ \A d \in Disks : \A p \in DOMAIN d : d[p].kind = "directory" => IsFiniteSet(d[p].content)
  /\ \A p \in Plans : IsFiniteSet(p.arms) /\ IsFiniteSet(p.tasks) /\ p.trials \in Nat
  /\ \A f \in Freezes : IsFiniteSet(f.bundle)

VARIABLES catalog, disk, plan,
          suite,    \* the loaded suite, or None
          records,  \* the records supplied so far
          last      \* what the last cell to finish was assembled to and of, or None

campaignVars == <<catalog, disk, plan, suite, records, last>>

Outcomes == {"passed", "failed"}

CampaignInit ==
  /\ catalog \in Catalogs /\ disk \in Disks /\ plan \in Plans
  /\ suite = None /\ records = <<>> /\ last = None

Load ==
  /\ suite = None
  /\ SuiteLoads(catalog, disk) /\ PlanAccepted(plan)
  /\ suite' = SuiteOf(catalog, disk)
  /\ UNCHANGED <<catalog, disk, plan, records, last>>

\* A record that its own parser refuses is not returned.
Supply(record, source, o) ==
  /\ last' = [run |-> record, grader |-> source, observation |-> o]
  /\ records' = IF RecordAccepted(record) THEN Append(records, record) ELSE records
  /\ UNCHANGED <<catalog, disk, plan, suite>>

\* Bound: a refused record changes nothing but last, and is not followed on.
Followed == last # None => RecordAccepted(last.run)

Open(cell) ==
  suite # None /\ Followed /\ Len(records) < MaxRecords /\ RequestBuilds(plan, suite, cell)

FinishGraded(cell) ==
  /\ Open(cell)
  /\ \E f \in Freezes, outcome \in Outcomes, exitCode \in 0..2, check \in Outcomes :
       LET request == RequestOf(plan, suite, cell)
           source == GraderSource(The(Tasks(suite, cell)))
           delta == DeltaOf(request, f.bundle)
           expected == Expectation(request, f.base, f.candidate)
           result == [identity |-> expected, outcome |-> outcome, checks |-> {[outcome |-> check]}]
       IN /\ ResultAccepted(result, expected) /\ ProcessAgrees(exitCode, result)
          /\ \E o \in Observations :
               /\ GradedEvidence(plan, request, delta, result, f.candidate, o)
               /\ Supply(GradedRecord(plan, source, request, delta, result, f.candidate, o), source, o)

FinishInfrastructure(cell) ==
  /\ Open(cell)
  /\ \E f \in Freezes, o \in Observations :
       /\ InfrastructureEvidence(f.candidate, o)
       /\ Supply(InfrastructureRecord(RequestOf(plan, suite, cell), f.candidate, o),
                 GraderSource(The(Tasks(suite, cell))), o)

CampaignNext == Load \/ \E cell \in Cells(plan) : FinishGraded(cell) \/ FinishInfrastructure(cell)

CampaignSpec == CampaignInit /\ [][CampaignNext]_campaignVars

------------------------------------------------------------------------------
(* Properties *)

\* What the parser alone bounds: the assembler looks at the signs of four
\* numbers of an observation only, and joins ids and paths to longer ones.
Bounded(run, o) ==
  /\ o.wellFormed
  /\ o.elapsed <= Limit.elapsed /\ o.iterations \in 1..Limit.iterations
  /\ o.requests <= Limit.count /\ run.violations <= Limit.count
  /\ {o.api, o.unresolved} \subseteq 0..Limit.count /\ o.minutes \in 0..Limit.minutes
  /\ o.cost # None => o.cost \in 0..Limit.cost
  /\ run.bytes <= Limit.bytes /\ Len(run.runId) <= Limit.id
  /\ run.count <= Limit.checks /\ \A c \in run.checks : Len(c.source) <= Limit.source

\* A check of the observation goes by the identity of the grader's own.
GraderImitated(l) ==
  l.run.outcome # "infra_error" /\ \E c \in l.observation.checks : CheckIdentity(c) = <<"grader", l.grader>>

\* The assembler and the parser of run records were written apart and judge
\* the same facts: of evidence the assembler accepts, the parser refuses the
\* record exactly for a bound it alone has, or when another check took the
\* identity of the grader's; never because outcome, metrics and checks disagree.
AssembledParses ==
  last # None =>
    (RecordAccepted(last.run) <=> Bounded(last.run, last.observation) /\ ~GraderImitated(last))

\* No two cells of the plan have the same run id (an id may hold dots, and
\* the run id joins arm, task and trial with dots).
IdsApart ==
  \A c, d \in Cells(plan) : c # d => c.arm \o c.task \o <<c.trial>> # d.arm \o d.task \o <<d.trial>>

\* Records of different cells, made under one environment, can be reported
\* together, in whatever order the trials ended; a cell finished twice cannot.
Reportable ==
  suite # None /\ IdsApart =>
    (ReportAccepted(plan, records) <=>
       \A i, j \in DOMAIN records : i # j =>
         /\ CellOf(plan, records[i]) # CellOf(plan, records[j])
         /\ records[i].environment = records[j].environment)

\* The counts of an accepted report add up to the plan: each planned cell is
\* missing, invalid or judged, once, and the rates are over the judged ones.
CountsAdd ==
  suite # None /\ ReportAccepted(plan, records) =>
    /\ \A a \in plan.arms :
         LET r == ArmReport(plan, records, a.id) IN
         /\ r.valid + r.infrastructure + r.missing = Cardinality(plan.tasks) * plan.trials
         /\ r.firstPass <= r.success /\ r.success + r.escapes <= r.valid
    /\ Cardinality(Missing(plan, records)) + Len(records) = Cardinality(Cells(plan))

\* What an accepted suite can be refused for later: a plan written for other
\* trials or another environment, a task the suite has in two versions, or a
\* fixture whose list of files is too long for a request.
\* The identities a request checks again were settled by load_evaluation_suite().
RefusalExplained ==
  suite # None /\ plan.suite = suite.id =>
    \A cell \in Cells(plan) : ~RequestBuilds(plan, suite, cell) =>
      \/ ~(plan.tasks \subseteq {t.entry.task : t \in suite.tasks})
      \/ Cardinality(Tasks(suite, cell)) > 1
      \/ \E t \in Tasks(suite, cell) :
           \/ t.manifest.trials # plan.trials \/ t.manifest.profile # plan.profile
           \/ ~RequestFits(t)
==============================================================================
