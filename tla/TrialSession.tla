----------------------------- MODULE TrialSession -----------------------------
(***************************************************************************)
(* One evaluation trial from its sealed request to its run record          *)
(* (scripts/agent_eval_trial_session.py and the workspace, Git, delta and  *)
(* controller modules it composes).                                        *)
(*                                                                         *)
(* The runner prepares a workspace and a Git directory outside it, lets an *)
(* agent change the workspace, freezes what the agent left into a          *)
(* candidate commit, lets a grader look at it, and makes a run record.     *)
(* Whatever is called after the freeze freezes again and must come to the  *)
(* same commit.  A directory is inspected, and staged, file by file; a     *)
(* process that was thought to have stopped may still write to it.         *)
(*                                                                         *)
(* An inspection takes the bytes of a file.  Git takes what its attributes *)
(* make of them (text, ident, working-tree-encoding), which a fixture or   *)
(* an agent may set in the workspace, and keeps what it made of a file at  *)
(* an earlier staging while the file is not written again.                 *)
(***************************************************************************)
EXTENDS EvalContract

CONSTANTS
  Paths, Contents,   \* of the files a workspace can hold
  Attributes,        \* the one of them that tells Git how to take in the others
  Clean(_, _, _),    \* what Git makes of a file, by the attributes, its path and content
  Catalog, Disk,     \* the suite as it is checked in
  Plan, Cell,        \* the plan, and the cell of it this trial is of
  MaxLate,           \* bound: writes while no process should be running
  MaxGradings        \* bound: grader runs

ASSUME BoundsAssumption == MaxLate \in Nat /\ MaxGradings \in Nat

\* Git makes a file of a file, and converts nothing without attributes.
ASSUME CleanAssumption ==
  /\ Attributes \in Paths /\ None \notin Contents
  /\ \A a \in Contents \union {None}, p \in Paths :
       /\ Clean(a, p, None) = None
       /\ \A c \in Contents : Clean(a, p, c) \in Contents /\ Clean(None, p, c) = c

Suite == SuiteOf(Catalog, Disk)

\* A trial is prepared from a loaded suite and an accepted plan.
ASSUME RequestAssumption ==
  /\ SuiteLoads(Catalog, Disk) /\ Suite # None
  /\ PlanAccepted(Plan) /\ Cell \in Cells(Plan)
  /\ RequestBuilds(Plan, Suite, Cell)

VARIABLES
  workspace,  \* the trial's directory, or None
  git,        \* the trial's Git directory, or None: its baseline, and the attributes
              \* it ever met when it staged a file
  job,        \* the runner's control state
  prepared,   \* the evidence prepare returned, or None
  frozen,     \* the evidence freeze returned, or None
  gradings,   \* what grader runs left
  record,     \* the run record with the evidence it is of, or None
  late,       \* late writes: how many, and any since the last call began?
  crashed     \* history: was prepare killed since it last succeeded?

vars == <<workspace, git, job, prepared, frozen, gradings, record, late, crashed>>

Tree    == [Paths -> Contents \union {None}]
Empty   == [p \in Paths |-> None]
Commit  == [tree : Tree, parent : Tree \union {None}]
Present(tree) == {p \in Paths : tree[p] # None}
Bundle(tree)  == {[path |-> p, content |-> tree[p]] : p \in Present(tree)}

Request == RequestOf(Plan, Suite, Cell)
Fixture == [p \in Paths |->
             IF \E f \in Request.fixture : f.path = p
             THEN (CHOOSE f \in Request.fixture : f.path = p).content ELSE None]

Delta(tree) == DeltaOf(Request, Bundle(tree))

\* What Git may have made of a file, by attributes met now or earlier.
CheckIns(met, p, content) == {Clean(a, p, content) : a \in met}

Scans  == {"before", "after", "delta"}  \* stages that list the directory
Idle   == [stage |-> "new", call |-> "none", todo |-> {}, got |-> Empty,
           before |-> Empty, candidate |-> None, first |-> None, touched |-> FALSE]

Init ==
  /\ workspace = None /\ git = None /\ job = Idle
  /\ prepared = None /\ frozen = None /\ gradings = {} /\ record = None
  /\ late = [count |-> 0, sinceCall |-> FALSE]
  /\ crashed = FALSE

Between == [Idle EXCEPT !.stage = "between"]

At(stage) == job.stage = stage

------------------------------------------------------------------------------
(* Preparation *)

\* _validate_request_suite() and the paths the materializer accepts.
Materializable(request) == \A f \in request.fixture : SafePath(f.path)

\* The destination is made, which must not exist.
MakeWorkspace ==
  /\ At("new") /\ Materializable(Request)
  /\ workspace = None
  /\ workspace' = Empty
  /\ job' = [job EXCEPT !.stage = "copy", !.call = "prepare", !.todo = Present(Fixture)]
  /\ UNCHANGED <<git, prepared, frozen, gradings, record, late, crashed>>

\* The checkout may move meanwhile: a file of it is read under one identity,
\* against the digest of the sealed request, and renamed into place.
CopyFile(p) ==
  /\ At("copy") /\ p \in job.todo
  /\ \E c \in Contents : c = Fixture[p] /\ workspace' = [workspace EXCEPT ![p] = c]
  /\ job' = [job EXCEPT !.todo = @ \ {p}]
  /\ UNCHANGED <<git, prepared, frozen, gradings, record, late, crashed>>

(* Mutant of CopyRaises: the destination is left behind. *)
CopyRaisesUnclean ==
  /\ At("copy")
  /\ job' = Idle
  /\ UNCHANGED <<workspace, git, prepared, frozen, gradings, record, late, crashed>>

\* Any failure while the workspace is made removes it.
CopyRaises ==
  /\ At("copy")
  /\ workspace' = None /\ job' = Idle
  /\ UNCHANGED <<git, prepared, frozen, gradings, record, late, crashed>>

VerifyCopy ==
  /\ At("copy") /\ job.todo = {}
  /\ Bundle(workspace) = Request.fixture
  /\ job' = [job EXCEPT !.stage = "init"]
  /\ UNCHANGED <<workspace, git, prepared, frozen, gradings, record, late, crashed>>

\* The Git directory must not exist, and the workspace be unchanged.
InitGit ==
  /\ At("init")
  /\ git = None /\ Delta(workspace).changed = {}
  /\ git' = [base |-> [tree |-> None, parent |-> None], met |-> {}]
  /\ job' = [job EXCEPT !.stage = "base"]
  /\ UNCHANGED <<workspace, prepared, frozen, gradings, record, late, crashed>>

\* git add -f -A, a root commit of what was staged, and the baseline ref on it.
CommitBase ==
  LET attributes == workspace[Attributes]
      base == [tree |-> [p \in Paths |-> Clean(attributes, p, workspace[p])], parent |-> None]
  IN /\ At("base")
     /\ git' = [base |-> base, met |-> {attributes}]
     /\ prepared' = [base |-> base, fixture |-> Bundle(workspace)]
     /\ job' = [job EXCEPT !.stage = "agent", !.call = "none"]
     /\ crashed' = FALSE
     /\ UNCHANGED <<workspace, frozen, gradings, record, late>>

\* A failed Git command removes the Git directory; the workspace stays.
InitRaises ==
  /\ At("init") \/ At("base")
  /\ git' = IF At("base") THEN None ELSE git
  /\ job' = Idle
  /\ UNCHANGED <<workspace, prepared, frozen, gradings, record, late, crashed>>

\* Killed: nothing is cleaned up.
Crash ==
  /\ job.call = "prepare" /\ ~crashed
  /\ job' = Idle /\ crashed' = TRUE
  /\ UNCHANGED <<workspace, git, prepared, frozen, gradings, record, late>>

\* The caller disposes of what an attempt left, or of one part of it.
Dispose ==
  /\ At("new")
  /\ \/ workspace' = None /\ UNCHANGED git
     \/ git' = None /\ UNCHANGED workspace
  /\ UNCHANGED <<job, prepared, frozen, gradings, record, late, crashed>>

------------------------------------------------------------------------------
(* The agent, the grader and whoever still writes *)

AgentRuns ==
  /\ At("agent")
  /\ workspace' \in Tree
  /\ job' = [job EXCEPT !.stage = "between"]
  /\ UNCHANGED <<git, prepared, frozen, gradings, record, late, crashed>>

\* The grader judges what it finds, and may leave or damage a file.
GraderRuns ==
  /\ At("grading")
  /\ \E outcome \in {"passed", "failed"} :
       gradings' = gradings \union {[candidate |-> frozen.candidate, saw |-> workspace,
                                written |-> late.sinceCall, outcome |-> outcome]}
  /\ \E p \in Paths, c \in Contents \union {None} : workspace' = [workspace EXCEPT ![p] = c]
  /\ job' = Between
  /\ UNCHANGED <<git, prepared, frozen, record, late, crashed>>

LateWrite ==
  /\ prepared # None /\ job.stage \notin {"agent", "grading", "done"}
  /\ late.count < MaxLate
  /\ late' = [count |-> late.count + 1, sinceCall |-> TRUE]
  /\ \E p \in Paths, c \in Contents \union {None} :
       /\ c # workspace[p]
       /\ workspace' = [workspace EXCEPT ![p] = c]
       /\ job' = [job EXCEPT !.touched =
                   @ \/ (job.stage \in Scans /\ (c = None \/ workspace[p] = None))]
  /\ UNCHANGED <<git, prepared, frozen, gradings, record, crashed>>

------------------------------------------------------------------------------
(* Inspection, staging and the candidate commit *)

\* The directory is listed; its entries are then read one at a time.
Scanning(j, stage) == [j EXCEPT !.stage = stage, !.todo = Present(workspace), !.got = Empty, !.touched = FALSE]

\* finalize_trial_git_identity() begins: the baseline must not have moved.
Begin(call) ==
  /\ At("between") /\ record = None
  /\ git.base = prepared.base
  /\ IF call = "freeze" THEN TRUE ELSE frozen # None
  /\ job' = Scanning([Idle EXCEPT !.call = call], "before")
  /\ late' = [late EXCEPT !.sinceCall = FALSE]
  /\ UNCHANGED <<workspace, git, prepared, frozen, gradings, record, crashed>>

\* The order of the entries is fixed; a file that has gone is refused.
ReadFile ==
  LET p == CHOOSE p \in job.todo : TRUE
  IN /\ job.stage \in Scans /\ job.todo # {}
     /\ job' = IF workspace[p] = None THEN Between
               ELSE [job EXCEPT !.todo = @ \ {p}, !.got[p] = workspace[p]]
     /\ UNCHANGED <<workspace, git, prepared, frozen, gradings, record, late, crashed>>

\* git add -f -A takes the paths one at a time, as its attributes have it.
StageFile ==
  LET p == CHOOSE p \in job.todo : TRUE
      met == git.met \union {workspace[Attributes]}
  IN /\ At("stage") /\ job.todo # {}
     /\ git' = [git EXCEPT !.met = met]
     /\ \E blob \in CheckIns(met, p, workspace[p]) :
          job' = [job EXCEPT !.todo = @ \ {p}, !.got[p] = blob]
     /\ UNCHANGED <<workspace, prepared, frozen, gradings, record, late, crashed>>

\* A Git command fails or does not end in time; an encoding that the
\* attributes name and a file is not in is one such failure.
GitRaises ==
  /\ At("stage")
  /\ job' = Between
  /\ UNCHANGED <<workspace, git, prepared, frozen, gradings, record, late, crashed>>

\* A listing that changed while it was read is refused.
Unreadable ==
  /\ job.stage \in Scans /\ job.todo = {} /\ job.touched
  /\ job' = Between
  /\ UNCHANGED <<workspace, git, prepared, frozen, gradings, record, late, crashed>>

\* git add looks at every path anew, those that have come included.
Inspected ==
  /\ At("before") /\ job.todo = {} /\ ~job.touched
  /\ job' = [job EXCEPT !.stage = "stage", !.before = job.got, !.todo = Paths, !.got = Empty]
  /\ UNCHANGED <<workspace, git, prepared, frozen, gradings, record, late, crashed>>

CommitCandidate ==
  /\ At("stage") /\ job.todo = {}
  /\ job' = Scanning([job EXCEPT !.candidate = [tree |-> job.got, parent |-> git.base.tree]], "after")
  /\ UNCHANGED <<workspace, git, prepared, frozen, gradings, record, late, crashed>>

Evidence == [candidate |-> job.candidate, bundle |-> Bundle(job.before)]

(* Mutant of Unchanged: the second inspection is not compared. *)
UnchangedUnseen == At("after") /\ job.todo = {} /\ ~job.touched

\* The second inspection sees what the first saw.
Unchanged == At("after") /\ job.todo = {} /\ ~job.touched /\ job.got = job.before

Changed ==
  /\ At("after") /\ job.todo = {} /\ ~job.touched /\ job.got # job.before
  /\ job' = Between
  /\ UNCHANGED <<workspace, git, prepared, frozen, gradings, record, late, crashed>>

\* The freeze is confirmed by a second one.
FreezeAgain ==
  /\ Unchanged /\ job.call = "freeze"
  /\ job' = Scanning([Idle EXCEPT !.call = "confirm", !.first = Evidence], "before")
  /\ UNCHANGED <<workspace, git, prepared, frozen, gradings, record, late, crashed>>

\* What was frozen, or is about to be, is what is frozen now.
Confirmed == Unchanged /\ Evidence = IF job.call = "confirm" THEN job.first ELSE frozen

Freeze ==
  /\ Confirmed /\ job.call = "confirm"
  /\ frozen' = job.first
  /\ job' = Between
  /\ UNCHANGED <<workspace, git, prepared, gradings, record, late, crashed>>

\* The specification of a grader run is given out and the grader started.
Invoke ==
  /\ Confirmed /\ job.call = "invoke"
  /\ Cardinality(gradings) < MaxGradings
  /\ job' = [Between EXCEPT !.stage = "grading"]
  /\ UNCHANGED <<workspace, git, prepared, frozen, gradings, record, late, crashed>>

Refuse ==
  /\ Unchanged /\ ~Confirmed /\ job.call # "freeze"
  /\ job' = Between
  /\ UNCHANGED <<workspace, git, prepared, frozen, gradings, record, late, crashed>>

------------------------------------------------------------------------------
(* Finalization *)

Source == GraderSource(The(Tasks(Suite, Cell)))

Expected == Expectation(Request, prepared.base, frozen.candidate)

(* Mutant of ResultOf: the result does not say which candidate it is of. *)
ResultOfAny(g) ==
  [identity |-> Expected, outcome |-> g.outcome, checks |-> {[outcome |-> g.outcome]}]

\* What the grader wrote: it repeats the identity it was given.
ResultOf(g) ==
  [identity |-> [Expected EXCEPT !.candidate = g.candidate], outcome |-> g.outcome,
   checks |-> {[outcome |-> g.outcome]}]

(* Mutant of InspectDelta: the freeze is not confirmed first. *)
InspectDeltaUnconfirmed ==
  /\ Unchanged /\ job.call = "finalize"
  /\ job' = Scanning([Idle EXCEPT !.call = job.call], "delta")
  /\ UNCHANGED <<workspace, git, prepared, frozen, gradings, record, late, crashed>>

InspectDelta ==
  /\ Confirmed /\ job.call = "finalize"
  /\ job' = Scanning([Idle EXCEPT !.call = job.call], "delta")
  /\ UNCHANGED <<workspace, git, prepared, frozen, gradings, record, late, crashed>>

FinalizeGraded ==
  /\ At("delta") /\ job.todo = {} /\ ~job.touched
  /\ \E g \in gradings, exitCode \in 0..2, o \in Observations :
       LET delta == Delta(job.got) IN
       /\ ResultAccepted(ResultOf(g), Expected) /\ ProcessAgrees(exitCode, ResultOf(g))
       /\ GradedEvidence(Plan, Request, delta, ResultOf(g), frozen.candidate, o)
       /\ LET r == GradedRecord(Plan, Source, Request, delta, ResultOf(g), frozen.candidate, o) IN
          /\ RecordAccepted(r)
          /\ record' = [run |-> r, delta |-> delta, observation |-> o]
  /\ job' = [Between EXCEPT !.stage = "done"]
  /\ UNCHANGED <<workspace, git, prepared, frozen, gradings, late, crashed>>

\* Evidence or a record that is refused leaves the session as it was.
FinalizeRaises ==
  /\ (At("delta") /\ job.todo = {}) \/ (Confirmed /\ job.call = "infrastructure")
  /\ job' = Between
  /\ UNCHANGED <<workspace, git, prepared, frozen, gradings, record, late, crashed>>

FinalizeInfrastructure ==
  /\ Confirmed /\ job.call = "infrastructure"
  /\ \E o \in Observations :
       LET r == InfrastructureRecord(Request, frozen.candidate, o) IN
       /\ InfrastructureEvidence(frozen.candidate, o) /\ RecordAccepted(r)
       /\ record' = [run |-> r, delta |-> None, observation |-> o]
  /\ job' = [Between EXCEPT !.stage = "done"]
  /\ UNCHANGED <<workspace, git, prepared, frozen, gradings, late, crashed>>

Prepare == MakeWorkspace \/ (\E p \in Paths : CopyFile(p)) \/ CopyRaises \/ VerifyCopy
           \/ InitGit \/ CommitBase \/ InitRaises

Recompute == ReadFile \/ StageFile \/ GitRaises \/ Unreadable \/ Inspected \/ CommitCandidate
             \/ Changed \/ Refuse

Next ==
  \/ Prepare \/ Crash \/ Dispose
  \/ AgentRuns \/ GraderRuns \/ LateWrite
  \/ (\E call \in {"freeze", "invoke", "finalize", "infrastructure"} : Begin(call))
  \/ Recompute \/ FreezeAgain \/ Freeze \/ Invoke
  \/ InspectDelta \/ FinalizeGraded \/ FinalizeRaises \/ FinalizeInfrastructure

Spec == Init /\ [][Next]_vars

------------------------------------------------------------------------------
(* The campaign this trial is one cell of: the suite is there once a trial *)
(* is prepared, and what counts of the trial is its record.                *)

Base == [tree |-> [p \in Paths |-> Clean(Fixture[Attributes], p, Fixture[p])], parent |-> None]

\* The commits a trial may end with, and what its workspace may hold then.
Endings == [base : {Base}, candidate : {c \in Commit : c.parent = Base.tree},
            bundle : {Bundle(t) : t \in Tree}]

Campaign == INSTANCE EvalCampaign WITH
  Catalogs <- {Catalog}, Disks <- {Disk}, Plans <- {Plan}, Freezes <- Endings, MaxRecords <- 1,
  catalog <- Catalog, disk <- Disk, plan <- Plan,
  suite   <- IF job.stage \in {"new", "copy", "init", "base"} THEN None ELSE Suite,
  records <- IF record = None THEN <<>> ELSE <<record.run>>,
  last    <- IF record = None THEN None
             ELSE [run |-> record.run, grader |-> Source, observation |-> record.observation]

------------------------------------------------------------------------------
(* Properties *)

\* The base commit of every prepared trial holds what Git makes of the sealed
\* fixture by the fixture's own attributes, whatever earlier attempts were
\* killed, left behind or half disposed of, and however the checkout changes.
PreparedIsFixture ==
  prepared # None =>
    /\ prepared.base = Base /\ git.base = Base
    /\ At("agent") => workspace = Fixture

\* A preparation that raises leaves a complete fixture or nothing, and no Git
\* directory; only a killed one leaves parts.
NothingHalfMade ==
  At("new") /\ ~crashed => workspace \in {None, Fixture} /\ git = None

\* Both, of prepare_evaluation_session(): what it returns is the fixture, and what it
\* raises leaves nothing that a later preparation could take for its own.
PreparationWhole == PreparedIsFixture /\ NothingHalfMade

\* Does the tree hold the files of the bundle, each as Git made it by
\* attributes met in this trial?  Without any, these are the very bytes.
CommittedAs(bundle, tree) ==
  /\ {f.path : f \in bundle} = Present(tree)
  /\ \A f \in bundle : tree[f.path] \in CheckIns(git.met, f.path, f.content)

\* The commit a freeze returns holds what the inspection beside it describes,
\* a child of the baseline, though files were written while it was made: two
\* inspections around each of two commits leave fewer than four late writes
\* no way through.  Where attributes convert, it holds what they make of it.
FrozenConsistent ==
  frozen # None =>
    /\ CommittedAs(frozen.bundle, frozen.candidate.tree)
    /\ frozen.candidate.parent = Base.tree

\* Unless it is written to during the last call itself, the workspace a run
\* record judges is the one that was inspected at the freeze of the candidate
\* it names, with the bytes an inspection sees, not those of the commit.
RecordOfCandidate ==
  record # None /\ ~late.sinceCall /\ record.delta # None =>
    /\ record.run.candidate = frozen.candidate
    /\ record.delta = DeltaOf(Request, frozen.bundle)
    /\ CommittedAs(record.delta.bundle, record.run.candidate.tree)

\* A passed record rests on a grader run that passed, that was given this
\* candidate, and that looked at it, unless the workspace was written to
\* between the call that gave the grader out and the look.  Where attributes
\* convert, it looked at a workspace that is committed as this candidate, which
\* need not be the one the record judges.
PassedWasGraded ==
  record # None /\ record.run.outcome = "passed" =>
    \E g \in gradings :
      /\ g.outcome = "passed" /\ g.candidate = record.run.candidate
      /\ CommittedAs(Bundle(g.saw), g.candidate.tree) \/ g.written

\* However its steps interleave with writes, crashes and refusals, a trial
\* does to the campaign what finishing a cell at once does, or nothing.
TrialIsCell == Campaign!CampaignSpec
==============================================================================
