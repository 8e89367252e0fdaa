------------------------------ MODULE EvalProofs ------------------------------
(***************************************************************************)
(* Trials and campaigns, for every value of the constants.                 *)
(*                                                                         *)
(* Of a trial TypeOK, PreparationWhole, RecordOfCandidate, PassedWasGraded *)
(* hold, and FrozenConsistent for at most three late writes: what a stage  *)
(* of preparation has made is there when it raises; what was read since a  *)
(* call began is what is there, unless somebody wrote; and on a path where *)
(* a frozen commit and the inspection beside it differ, each of the two    *)
(* inspections around each of the two commits took a write of its own.     *)
(*                                                                         *)
(* Of a campaign RefusalExplained, AssembledParses, Reportable, CountsAdd  *)
(* hold: the suite is what was loaded (Loaded), every record supplied was  *)
(* accepted and is of a cell of the plan (RecordsOK), and finite sets are  *)
(* counted along injections.  A trial implements the campaign with its     *)
(* cell (TrialIsCell).                                                     *)
(***************************************************************************)
EXTENDS TrialSession, EvalCampaign, TLAPS, FiniteSetTheorems

(* The stages from the return of prepare on, and before it.                *)
Preparing == {"copy", "init", "base"}
Reading   == Scans \union {"stage"}
Prepared  == {"agent", "between", "grading", "done"} \union Reading
Stages    == {"new"} \union Preparing \union Prepared
Calls     == {"none", "prepare", "freeze", "confirm", "invoke", "finalize", "infrastructure"}

(* What an inspection describes, and the evidence of a freeze.             *)
Bundles   == SUBSET [path : Paths, content : Contents]
Evidences == [candidate : Commit, bundle : Bundles]

(* A Git directory.                                                        *)
Gits == [base : [tree : Tree \union {None}, parent : Tree \union {None}],
         met : SUBSET (Contents \union {None})]

\* A control state, field by field.
JobOf(stage, call, todo, got, before, candidate, first, touched) ==
  [stage |-> stage, call |-> call, todo |-> todo, got |-> got, before |-> before,
   candidate |-> candidate, first |-> first, touched |-> touched]

\* The control states.
Jobs == [stage : Stages, call : Calls, todo : SUBSET Paths, got : Tree, before : Tree,
         candidate : Commit \union {None}, first : Evidences \union {None}, touched : BOOLEAN]

(* The kinds of value; the run record, a record of contracts, is left out. *)
TypeOK ==
  /\ workspace \in Tree \union {None}
  /\ job.stage # "new" => workspace \in Tree
  /\ git \in Gits \union {None}
  /\ job.stage \in Prepared => git \in Gits /\ git.base \in Commit
  /\ job \in Jobs
  /\ job.call = "prepare" => job.stage \in Preparing
  /\ job.stage = "after" => job.candidate \in Commit
  /\ prepared \in [base : Commit, fixture : Bundles] \union {None}
  /\ prepared # None => job.stage \in Prepared
  /\ frozen \in Evidences \union {None}
  /\ job.stage \in {"grading", "delta"} => frozen \in Evidences
  /\ gradings \subseteq [candidate : Commit, saw : Tree, written : BOOLEAN, outcome : {"passed", "failed"}]
  /\ late \in [count : Nat, sinceCall : BOOLEAN]
  /\ crashed \in BOOLEAN

------------------------------------------------------------------------------

\* What a tree holds is a bundle of it, and the paths present are paths.
LEMMA TreeType ==
  /\ Empty \in Tree
  /\ \A tree \in Tree : Bundle(tree) \in Bundles /\ Present(tree) \subseteq Paths
<1>1. Empty \in Tree
  BY DEF Empty, Tree
<1>2. ASSUME NEW tree \in Tree PROVE Bundle(tree) \in Bundles /\ Present(tree) \subseteq Paths
  BY <1>2 DEF Bundle, Bundles, Present, Tree
<1> QED BY <1>1, <1>2

\* What Git makes of a tree, by any attributes, is a tree.
LEMMA CleanType ==
  ASSUME NEW a \in Contents \union {None}, NEW t \in Tree
  PROVE  /\ [p \in Paths |-> Clean(a, p, t[p])] \in Tree
         /\ t[Attributes] \in Contents \union {None}
         /\ \A p \in Paths : Clean(a, p, t[p]) \in Contents \union {None}
<1>1. \A p \in Paths : t[p] \in Contents \union {None}
  BY DEF Tree
<1>2. \A p \in Paths : Clean(a, p, t[p]) \in Contents \union {None}
  BY <1>1, CleanAssumption
<1>3. t[Attributes] \in Contents \union {None}
  BY <1>1, CleanAssumption
<1> QED BY <1>2, <1>3 DEF Tree

\* The tree holds of every path what Git may have made of what is there.
Made(met, tree, blobs) == \A p \in Paths : blobs[p] \in CheckIns(met, p, tree[p])

\* Then it holds the files of the bundle of what is there.
LEMMA MadeCommitted ==
  ASSUME NEW met \in SUBSET (Contents \union {None}), git.met = met,
         NEW t \in Tree, NEW u \in Tree, Made(met, t, u)
  PROVE  CommittedAs(Bundle(t), u)
<1>1. ASSUME NEW p \in Paths PROVE u[p] = None <=> t[p] = None
  <2>1. t[p] \in Contents \union {None}
    BY DEF Tree
  <2>2. PICK a \in met : u[p] = Clean(a, p, t[p])
    BY DEF Made, CheckIns
  <2> QED BY <2>1, <2>2, CleanAssumption
<1>2. {f.path : f \in Bundle(t)} = Present(t)
  <2>1. \A p \in Present(t) : [path |-> p, content |-> t[p]] \in Bundle(t)
    BY DEF Bundle
  <2>2. ASSUME NEW p \in Present(t) PROVE p \in {f.path : f \in Bundle(t)}
    <3>1. PICK f \in Bundle(t) : f = [path |-> p, content |-> t[p]]
      BY <2>1
    <3> QED BY <3>1
  <2>3. ASSUME NEW f \in Bundle(t) PROVE f.path \in Present(t)
    BY DEF Bundle
  <2> QED BY <2>2, <2>3
<1>3. Present(t) = Present(u)
  BY <1>1 DEF Present
<1>4. ASSUME NEW f \in Bundle(t) PROVE u[f.path] \in CheckIns(git.met, f.path, f.content)
  <2>1. PICK p \in Present(t) : f = [path |-> p, content |-> t[p]]
    BY DEF Bundle
  <2>2. p \in Paths /\ f.path = p /\ f.content = t[p]
    BY <2>1 DEF Present
  <2> QED BY <2>2 DEF Made
<1> QED BY <1>2, <1>3, <1>4 DEF CommittedAs

\* What Git may have made it still may, once it met more attributes.
LEMMA CheckInsGrow ==
  ASSUME NEW m, NEW n, m \subseteq n
  PROVE  /\ \A p, c : CheckIns(m, p, c) \subseteq CheckIns(n, p, c)
         /\ \A t, u : Made(m, t, u) => Made(n, t, u)
<1>1. \A p, c : CheckIns(m, p, c) \subseteq CheckIns(n, p, c)
  BY DEF CheckIns
<1> QED BY <1>1 DEF Made

\* A tree that holds the files of a bundle holds them when more was met.
LEMMA CommittedGrows ==
  ASSUME git.met \subseteq git'.met
  PROVE  \A b, t : CommittedAs(b, t) => CommittedAs(b, t)'
BY CheckInsGrow DEF CommittedAs

\* Two trees with one bundle are one tree: a digest of an inspection tells
\* what was inspected.
LEMMA BundleInjective ==
  ASSUME NEW t \in Tree, NEW u \in Tree, Bundle(t) = Bundle(u)
  PROVE  t = u
<1>1. ASSUME NEW a \in Tree, NEW b \in Tree, Bundle(a) = Bundle(b), NEW p \in Paths, a[p] # None
      PROVE  b[p] = a[p]
  <2>1. [path |-> p, content |-> a[p]] \in Bundle(b)
    BY <1>1 DEF Bundle, Present
  <2>2. PICK q \in Present(b) : [path |-> p, content |-> a[p]] = [path |-> q, content |-> b[q]]
    BY <2>1 DEF Bundle
  <2>3. p = q /\ a[p] = b[q]
    BY <2>2
  <2> QED BY <2>3
<1>2. \A p \in Paths : t[p] = u[p]
  <2> TAKE p \in Paths
  <2>1. CASE t[p] # None
    BY <2>1, <1>1
  <2>2. CASE u[p] # None
    BY <2>2, <1>1
  <2> QED BY <2>1, <2>2
<1> QED BY <1>2 DEF Tree

\* A workspace whose bundle is that of the sealed request is the fixture.
LEMMA FixtureOnly ==
  ASSUME NEW t \in Tree, Bundle(t) = Request.fixture
  PROVE  t = Fixture
<1>1. ASSUME NEW p \in Paths PROVE t[p] = Fixture[p]
  <2>1. CASE t[p] # None
    <3> DEFINE e == [path |-> p, content |-> t[p]]
    <3>1. e \in Request.fixture /\ e.path = p
      BY <2>1 DEF Bundle, Present
    <3>2. Fixture[p] = (CHOOSE f \in Request.fixture : f.path = p).content
      BY <3>1 DEF Fixture
    <3>3. (CHOOSE f \in Request.fixture : f.path = p) \in {f \in Bundle(t) : f.path = p}
      BY <3>1
    <3>4. \A f \in Bundle(t) : f.path = p => f.content = t[p]
      <4> SUFFICES ASSUME NEW q \in Present(t), q = p PROVE t[q] = t[p]
        BY DEF Bundle
      <4> QED OBVIOUS
    <3> QED BY <3>2, <3>3, <3>4
  <2>2. CASE t[p] = None
    <3>1. ~\E f \in Request.fixture : f.path = p
      BY <2>2 DEF Bundle, Present
    <3> QED BY <3>1, <2>2 DEF Fixture
  <2> QED BY <2>1, <2>2
<1>2. Fixture = [p \in Paths |-> Fixture[p]]
  BY DEF Fixture
<1> QED BY <1>1, <1>2 DEF Tree

------------------------------------------------------------------------------

(* The updates of a control state, so that each is looked at once.         *)
PutStage(j, x) == [j EXCEPT !.stage = x]
PutTodo(j, x) == [j EXCEPT !.todo = x]
PutTouched(j, x) == [j EXCEPT !.touched = x]
PutCandidate(j, x) == [j EXCEPT !.candidate = x]
PutCall(j, x) == [j EXCEPT !.call = x]
PutStageCall(j, x, y) == [j EXCEPT !.stage = x, !.call = y]
PutStart(j, x, y, z) == [j EXCEPT !.stage = x, !.call = y, !.todo = z]
PutConfirm(j, x, y) == [j EXCEPT !.call = x, !.first = y]
PutScan(j, x, y, z, w) == [j EXCEPT !.stage = x, !.todo = y, !.got = z, !.touched = w]
PutInspected(j, x, y, z, w) == [j EXCEPT !.stage = x, !.before = y, !.todo = z, !.got = w]
PutRead(j, p, x, y) == [j EXCEPT !.todo = x, !.got[p] = y]

\* A control state with one stage for another.
LEMMA PutStageFields ==
  ASSUME NEW s, NEW c, NEW t, NEW g, NEW b, NEW k, NEW f, NEW u, NEW x
  PROVE  PutStage(JobOf(s, c, t, g, b, k, f, u), x) =
           JobOf(x, c, t, g, b, k, f, u)
BY DEF PutStage, JobOf

\* A control state with other files left to read.
LEMMA PutTodoFields ==
  ASSUME NEW s, NEW c, NEW t, NEW g, NEW b, NEW k, NEW f, NEW u, NEW x
  PROVE  PutTodo(JobOf(s, c, t, g, b, k, f, u), x) =
           JobOf(s, c, x, g, b, k, f, u)
BY DEF PutTodo, JobOf

\* A control state whose listing may have changed.
LEMMA PutTouchedFields ==
  ASSUME NEW s, NEW c, NEW t, NEW g, NEW b, NEW k, NEW f, NEW u, NEW x
  PROVE  PutTouched(JobOf(s, c, t, g, b, k, f, u), x) =
           JobOf(s, c, t, g, b, k, f, x)
BY DEF PutTouched, JobOf

\* A control state with another candidate.
LEMMA PutCandidateFields ==
  ASSUME NEW s, NEW c, NEW t, NEW g, NEW b, NEW k, NEW f, NEW u, NEW x
  PROVE  PutCandidate(JobOf(s, c, t, g, b, k, f, u), x) =
           JobOf(s, c, t, g, b, x, f, u)
BY DEF PutCandidate, JobOf

\* A control state of another call.
LEMMA PutCallFields ==
  ASSUME NEW s, NEW c, NEW t, NEW g, NEW b, NEW k, NEW f, NEW u, NEW x
  PROVE  PutCall(JobOf(s, c, t, g, b, k, f, u), x) =
           JobOf(s, x, t, g, b, k, f, u)
BY DEF PutCall, JobOf

\* A control state with another stage and call.
LEMMA PutStageCallFields ==
  ASSUME NEW s, NEW c, NEW t, NEW g, NEW b, NEW k, NEW f, NEW u, NEW x, NEW y
  PROVE  PutStageCall(JobOf(s, c, t, g, b, k, f, u), x, y) =
           JobOf(x, y, t, g, b, k, f, u)
<1> DEFINE j0 == JobOf(s, c, t, g, b, k, f, u)
           j1 == [j0 EXCEPT !.stage = x]
           j2 == [j1 EXCEPT !.call = y]
<1>1. j1 = JobOf(x, c, t, g, b, k, f, u)
  BY DEF JobOf
<1>2. j2 = JobOf(x, y, t, g, b, k, f, u)
  <2> HIDE DEF j0, j1
  <2> QED BY <1>1 DEF JobOf
<1>3. [j0 EXCEPT !.stage = x, !.call = y] = j2
  <2> HIDE DEF j0
  <2> QED OBVIOUS
<1> QED BY <1>2, <1>3 DEF PutStageCall

\* A control state with another stage, call and files left to do.
LEMMA PutStartFields ==
  ASSUME NEW s, NEW c, NEW t, NEW g, NEW b, NEW k, NEW f, NEW u, NEW x, NEW y, NEW z
  PROVE  PutStart(JobOf(s, c, t, g, b, k, f, u), x, y, z) =
           JobOf(x, y, z, g, b, k, f, u)
<1> DEFINE j0 == JobOf(s, c, t, g, b, k, f, u)
           j1 == [j0 EXCEPT !.stage = x]
           j2 == [j1 EXCEPT !.call = y]
           j3 == [j2 EXCEPT !.todo = z]
<1>1. j1 = JobOf(x, c, t, g, b, k, f, u)
  BY DEF JobOf
<1>2. j2 = JobOf(x, y, t, g, b, k, f, u)
  <2> HIDE DEF j0, j1
  <2> QED BY <1>1 DEF JobOf
<1>3. j3 = JobOf(x, y, z, g, b, k, f, u)
  <2> HIDE DEF j0, j1, j2
  <2> QED BY <1>2 DEF JobOf
<1>4. [j0 EXCEPT !.stage = x, !.call = y, !.todo = z] = j3
  <2> HIDE DEF j0
  <2> QED OBVIOUS
<1> QED BY <1>3, <1>4 DEF PutStart

\* A control state of another call, with what it confirms.
LEMMA PutConfirmFields ==
  ASSUME NEW s, NEW c, NEW t, NEW g, NEW b, NEW k, NEW f, NEW u, NEW x, NEW y
  PROVE  PutConfirm(JobOf(s, c, t, g, b, k, f, u), x, y) =
           JobOf(s, x, t, g, b, k, y, u)
<1> DEFINE j0 == JobOf(s, c, t, g, b, k, f, u)
           j1 == [j0 EXCEPT !.call = x]
           j2 == [j1 EXCEPT !.first = y]
<1>1. j1 = JobOf(s, x, t, g, b, k, f, u)
  BY DEF JobOf
<1>2. j2 = JobOf(s, x, t, g, b, k, y, u)
  <2> HIDE DEF j0, j1
  <2> QED BY <1>1 DEF JobOf
<1>3. [j0 EXCEPT !.call = x, !.first = y] = j2
  <2> HIDE DEF j0
  <2> QED OBVIOUS
<1> QED BY <1>2, <1>3 DEF PutConfirm

\* A control state that lists the directory.
LEMMA PutScanFields ==
  ASSUME NEW s, NEW c, NEW t, NEW g, NEW b, NEW k, NEW f, NEW u, NEW x, NEW y, NEW z, NEW w
  PROVE  PutScan(JobOf(s, c, t, g, b, k, f, u), x, y, z, w) =
           JobOf(x, c, y, z, b, k, f, w)
<1> DEFINE j0 == JobOf(s, c, t, g, b, k, f, u)
           j1 == [j0 EXCEPT !.stage = x]
           j2 == [j1 EXCEPT !.todo = y]
           j3 == [j2 EXCEPT !.got = z]
           j4 == [j3 EXCEPT !.touched = w]
<1>1. j1 = JobOf(x, c, t, g, b, k, f, u)
  BY DEF JobOf
<1>2. j2 = JobOf(x, c, y, g, b, k, f, u)
  <2> HIDE DEF j0, j1
  <2> QED BY <1>1 DEF JobOf
<1>3. j3 = JobOf(x, c, y, z, b, k, f, u)
  <2> HIDE DEF j0, j1, j2
  <2> QED BY <1>2 DEF JobOf
<1>4. j4 = JobOf(x, c, y, z, b, k, f, w)
  <2> HIDE DEF j0, j1, j2, j3
  <2> QED BY <1>3 DEF JobOf
<1>5. [j0 EXCEPT !.stage = x, !.todo = y, !.got = z, !.touched = w] = j4
  <2> HIDE DEF j0
  <2> QED OBVIOUS
<1> QED BY <1>4, <1>5 DEF PutScan

\* A control state whose reading has become its first inspection.
LEMMA PutInspectedFields ==
  ASSUME NEW s, NEW c, NEW t, NEW g, NEW b, NEW k, NEW f, NEW u, NEW x, NEW y, NEW z, NEW w
  PROVE  PutInspected(JobOf(s, c, t, g, b, k, f, u), x, y, z, w) =
           JobOf(x, c, z, w, y, k, f, u)
<1> DEFINE j0 == JobOf(s, c, t, g, b, k, f, u)
           j1 == [j0 EXCEPT !.stage = x]
           j2 == [j1 EXCEPT !.before = y]
           j3 == [j2 EXCEPT !.todo = z]
           j4 == [j3 EXCEPT !.got = w]
<1>1. j1 = JobOf(x, c, t, g, b, k, f, u)
  BY DEF JobOf
<1>2. j2 = JobOf(x, c, t, g, y, k, f, u)
  <2> HIDE DEF j0, j1
  <2> QED BY <1>1 DEF JobOf
<1>3. j3 = JobOf(x, c, z, g, y, k, f, u)
  <2> HIDE DEF j0, j1, j2
  <2> QED BY <1>2 DEF JobOf
<1>4. j4 = JobOf(x, c, z, w, y, k, f, u)
  <2> HIDE DEF j0, j1, j2, j3
  <2> QED BY <1>3 DEF JobOf
<1>5. [j0 EXCEPT !.stage = x, !.before = y, !.todo = z, !.got = w] = j4
  <2> HIDE DEF j0
  <2> QED OBVIOUS
<1> QED BY <1>4, <1>5 DEF PutInspected

\* A control state that has read one file more.
LEMMA PutReadFields ==
  ASSUME NEW s, NEW c, NEW t, NEW g, NEW b, NEW k, NEW f, NEW u, NEW p, NEW x, NEW y
  PROVE  PutRead(JobOf(s, c, t, g, b, k, f, u), p, x, y) =
           JobOf(s, c, x, [g EXCEPT ![p] = y], b, k, f, u)
<1> DEFINE j0 == JobOf(s, c, t, g, b, k, f, u)
           j1 == [j0 EXCEPT !.todo = x]
           j2 == [j1 EXCEPT !.got[p] = y]
<1>1. j1 = JobOf(s, c, x, g, b, k, f, u)
  BY DEF JobOf
<1>2. j2 = JobOf(s, c, x, [g EXCEPT ![p] = y], b, k, f, u)
  <2> HIDE DEF j0, j1
  <2> QED BY <1>1 DEF JobOf
<1>3. [j0 EXCEPT !.todo = x, !.got[p] = y] = j2
  <2> HIDE DEF j0
  <2> QED OBVIOUS
<1> QED BY <1>2, <1>3 DEF PutRead

\* A control state is its fields.
LEMMA JobFields ==
  ASSUME TypeOK
  PROVE  job = JobOf(job.stage, job.call, job.todo, job.got, job.before, job.candidate, job.first, job.touched)
BY DEF TypeOK, Jobs, JobOf

\* A listing that was not touched.
No == FALSE

\* The fields before a preparation.
LEMMA IdleFields == Idle = JobOf("new", "none", {}, Empty, Empty, None, None, No)
BY DEF Idle, JobOf, No

\* The fields between two calls.
LEMMA BetweenFields ==
  /\ Between = JobOf("between", "none", {}, Empty, Empty, None, None, No)
  /\ \A stage : PutStage(Between, stage) = JobOf(stage, "none", {}, Empty, Empty, None, None, No)
<1>1. Between = PutStage(Idle, "between")
  BY DEF Between, PutStage
<1> QED BY <1>1, IdleFields, PutStageFields

\* A reading that begins afresh.
Fresh(stage, call, first) ==
  JobOf(stage, call, Present(workspace), Empty, Empty, None, first, No)

\* The fields of a listing.
LEMMA ScanFields ==
  ASSUME NEW stage, NEW s, NEW c, NEW t, NEW g, NEW b, NEW k, NEW f, NEW u
  PROVE  Scanning(JobOf(s, c, t, g, b, k, f, u), stage) =
           JobOf(stage, c, Present(workspace), Empty, b, k, f, No)
<1>1. \A j : Scanning(j, stage) = PutScan(j, stage, Present(workspace), Empty, No)
  BY DEF Scanning, PutScan, No
<1> QED BY <1>1, PutScanFields

\* A call that begins to inspect, and a confirming freeze, are fresh readings.
LEMMA FreshFields ==
  ASSUME NEW stage, NEW call, NEW first
  PROVE  /\ Scanning([Idle EXCEPT !.call = call], stage) = Fresh(stage, call, None)
         /\ Scanning([Idle EXCEPT !.call = call, !.first = first], stage) = Fresh(stage, call, first)
<1>1. Scanning([Idle EXCEPT !.call = call], stage) = Scanning(PutCall(Idle, call), stage)
  BY DEF PutCall
<1>2. Scanning([Idle EXCEPT !.call = call, !.first = first], stage) = Scanning(PutConfirm(Idle, call, first), stage)
  BY DEF PutConfirm
<1>3. PutCall(Idle, call) = JobOf("new", call, {}, Empty, Empty, None, None, No)
  BY IdleFields, PutCallFields
<1>4. PutConfirm(Idle, call, first) = JobOf("new", call, {}, Empty, Empty, None, first, No)
  BY IdleFields, PutConfirmFields
<1> QED BY <1>1, <1>2, <1>3, <1>4, ScanFields DEF Fresh

\* The updates of preparation and writing, field by field.
LEMMA MoveFields ==
  ASSUME TypeOK, NEW stage, NEW call, NEW x, NEW y, NEW p
  PROVE  /\ [job EXCEPT !.stage = stage] =
              JobOf(stage, job.call, job.todo, job.got, job.before, job.candidate, job.first, job.touched)
         /\ [job EXCEPT !.stage = stage, !.call = call] =
              JobOf(stage, call, job.todo, job.got, job.before, job.candidate, job.first, job.touched)
         /\ [job EXCEPT !.stage = stage, !.call = call, !.todo = x] =
              JobOf(stage, call, x, job.got, job.before, job.candidate, job.first, job.touched)
         /\ [job EXCEPT !.todo = x] =
              JobOf(job.stage, job.call, x, job.got, job.before, job.candidate, job.first, job.touched)
         /\ [job EXCEPT !.touched = x] =
              JobOf(job.stage, job.call, job.todo, job.got, job.before, job.candidate, job.first, x)
         /\ [job EXCEPT !.todo = x, !.got[p] = y] =
              JobOf(job.stage, job.call, x, [job.got EXCEPT ![p] = y], job.before, job.candidate, job.first, job.touched)
<1>1. PutStage(job, stage) =
        JobOf(stage, job.call, job.todo, job.got, job.before, job.candidate, job.first, job.touched)
  BY JobFields, PutStageFields
<1>2. PutStageCall(job, stage, call) =
        JobOf(stage, call, job.todo, job.got, job.before, job.candidate, job.first, job.touched)
  BY JobFields, PutStageCallFields
<1>3. PutStart(job, stage, call, x) =
        JobOf(stage, call, x, job.got, job.before, job.candidate, job.first, job.touched)
  BY JobFields, PutStartFields
<1>4. PutTodo(job, x) =
        JobOf(job.stage, job.call, x, job.got, job.before, job.candidate, job.first, job.touched)
  BY JobFields, PutTodoFields
<1>5. PutTouched(job, x) =
        JobOf(job.stage, job.call, job.todo, job.got, job.before, job.candidate, job.first, x)
  BY JobFields, PutTouchedFields
<1>6. PutRead(job, p, x, y) =
        JobOf(job.stage, job.call, x, [job.got EXCEPT ![p] = y], job.before, job.candidate, job.first, job.touched)
  BY JobFields, PutReadFields
<1> QED BY <1>1, <1>2, <1>3, <1>4, <1>5, <1>6 DEF PutStage, PutStageCall, PutStart, PutTodo, PutTouched, PutRead

\* The updates of inspection and staging, field by field.
LEMMA ReadFields ==
  ASSUME TypeOK, NEW k
  PROVE  /\ [job EXCEPT !.stage = "stage", !.before = job.got, !.todo = Paths, !.got = Empty] =
              JobOf("stage", job.call, Paths, Empty, job.got, job.candidate, job.first, job.touched)
         /\ Scanning([job EXCEPT !.candidate = k], "after") =
              JobOf("after", job.call, Present(workspace), Empty, job.before, k, job.first, No)
<1>1. PutInspected(job, "stage", job.got, Paths, Empty) =
        JobOf("stage", job.call, Paths, Empty, job.got, job.candidate, job.first, job.touched)
  BY JobFields, PutInspectedFields
<1>2. PutCandidate(job, k) =
        JobOf(job.stage, job.call, job.todo, job.got, job.before, k, job.first, job.touched)
  BY JobFields, PutCandidateFields
<1>3. Scanning(PutCandidate(job, k), "after") = JobOf("after", job.call, Present(workspace), Empty, job.before, k, job.first, No)
  BY <1>2, ScanFields
<1> QED BY <1>1, <1>3 DEF PutInspected, PutCandidate

------------------------------------------------------------------------------

\* Fields of the right kinds make a control state.
LEMMA JobIntro ==
  ASSUME NEW s \in Stages, NEW c \in Calls, NEW t \in SUBSET Paths, NEW g \in Tree, NEW b \in Tree,
         NEW k \in Commit \union {None}, NEW f \in Evidences \union {None}, NEW u \in BOOLEAN
  PROVE  JobOf(s, c, t, g, b, k, f, u) \in Jobs
BY DEF JobOf, Jobs

\* The states between two calls, or without a preparation.
LEMMA RestType ==
  /\ Idle \in Jobs /\ Idle.stage = "new" /\ Idle.call = "none"
  /\ Between \in Jobs /\ Between.stage = "between" /\ Between.call = "none"
  /\ \A stage \in Stages :
       LET j == [Between EXCEPT !.stage = stage] IN j \in Jobs /\ j.stage = stage /\ j.call = "none"
<1>1. \A stage \in Stages : JobOf(stage, "none", {}, Empty, Empty, None, None, No) \in Jobs
  <2>1. {} \in SUBSET Paths /\ Empty \in Tree /\ "none" \in Calls /\ No \in BOOLEAN
    BY TreeType DEF Calls, No
  <2> QED BY <2>1, JobIntro
<1>2. "new" \in Stages /\ "between" \in Stages
  BY DEF Stages, Prepared
<1>3. \A stage \in Stages : [Between EXCEPT !.stage = stage] = JobOf(stage, "none", {}, Empty, Empty, None, None, No)
  BY BetweenFields DEF PutStage
<1>4. \A stage : LET j == JobOf(stage, "none", {}, Empty, Empty, None, None, No)
                 IN  j.stage = stage /\ j.call = "none"
  BY DEF JobOf
<1> QED BY <1>1, <1>2, <1>3, <1>4, IdleFields, BetweenFields

\* The evidence of a second inspection.
LEMMA EvidenceType ==
  ASSUME TypeOK, job.stage = "after"
  PROVE  Evidence \in Evidences
BY TreeType DEF TypeOK, Jobs, Evidence, Evidences

\* A fresh reading is a control state.
LEMMA FreshType ==
  ASSUME TypeOK, NEW stage \in {"before", "delta"}, NEW call \in Calls, NEW first \in Evidences \union {None},
         job.stage # "new"
  PROVE  /\ Fresh(stage, call, first) \in Jobs
         /\ Fresh(stage, call, first).stage = stage /\ Fresh(stage, call, first).call = call
<1>1. Present(workspace) \in SUBSET Paths /\ Empty \in Tree /\ None \in Commit \union {None} /\ No \in BOOLEAN
  BY TreeType DEF TypeOK, No
<1>2. stage \in Stages
  BY DEF Stages, Prepared, Reading, Scans
<1>3. JobOf(stage, call, Present(workspace), Empty, Empty, None, first, No) \in Jobs
  BY <1>1, <1>2, JobIntro
<1>4. LET j == JobOf(stage, call, Present(workspace), Empty, Empty, None, first, No)
      IN  j.stage = stage /\ j.call = call
  BY DEF JobOf
<1> QED BY <1>3, <1>4 DEF Fresh

\* A control state that has read or staged one file more.
LEMMA ReadType ==
  ASSUME TypeOK, NEW p \in Paths, NEW t \in SUBSET Paths, NEW x \in Contents \union {None},
         job' = [job EXCEPT !.todo = t, !.got[p] = x]
  PROVE  job' \in Jobs /\ job'.stage = job.stage /\ job'.call = job.call /\ job'.candidate = job.candidate
<1>1. job' = JobOf(job.stage, job.call, t, [job.got EXCEPT ![p] = x], job.before, job.candidate, job.first, job.touched)
  <2>1. job' = PutRead(job, p, t, x)
    BY DEF PutRead
  <2> QED BY <2>1, JobFields, PutReadFields
<1>2. [job.got EXCEPT ![p] = x] \in Tree
  BY DEF TypeOK, Jobs, Tree
<1>3. job' \in Jobs
  BY <1>1, <1>2, JobIntro DEF TypeOK, Jobs
<1>4. job'.stage = job.stage /\ job'.call = job.call /\ job'.candidate = job.candidate
  BY <1>1 DEF JobOf
<1> QED BY <1>3, <1>4

\* Staging takes what Git makes of one file, and leaves the baseline.
LEMMA StageFacts ==
  ASSUME TypeOK, StageFile
  PROVE  /\ git' \in Gits /\ git'.base = git.base /\ git.met \subseteq git'.met
         /\ job.stage = "stage" /\ workspace \in Tree
         /\ \E p \in job.todo, x \in Contents \union {None} :
              /\ x \in CheckIns(git'.met, p, workspace[p])
              /\ job' = [job EXCEPT !.todo = job.todo \ {p}, !.got[p] = x]
<1> DEFINE p == CHOOSE p \in job.todo : TRUE
           met == git.met \union {workspace[Attributes]}
<1>1. job.stage = "stage" /\ p \in job.todo /\ p \in Paths
  BY DEF StageFile, At, TypeOK, Jobs
<1>2. git \in Gits /\ workspace \in Tree
  BY <1>1 DEF TypeOK, Prepared, Reading
<1>3. met \in SUBSET (Contents \union {None})
  BY <1>2, CleanType DEF Gits
<1>4. git' = [git EXCEPT !.met = met]
      /\ \E x \in CheckIns(met, p, workspace[p]) : job' = [job EXCEPT !.todo = job.todo \ {p}, !.got[p] = x]
  BY DEF StageFile
<1>5. git.met \subseteq met
  OBVIOUS
<1> HIDE DEF p, met
<1>6. git' \in Gits /\ git'.base = git.base /\ git'.met = met
  BY <1>2, <1>3, <1>4 DEF Gits
<1>7. PICK x \in CheckIns(met, p, workspace[p]) : job' = [job EXCEPT !.todo = job.todo \ {p}, !.got[p] = x]
  BY <1>4
<1>8. PICK a \in met : x = Clean(a, p, workspace[p])
  BY <1>7 DEF CheckIns
<1>9. x \in Contents \union {None}
  BY <1>1, <1>2, <1>3, <1>8, CleanType
<1> QED BY <1>1, <1>2, <1>5, <1>6, <1>7, <1>9

\* TypeOK is inductive.
LEMMA TypeStep == TypeOK /\ [Next]_vars => TypeOK'
<1> SUFFICES ASSUME TypeOK, [Next]_vars PROVE TypeOK'
  OBVIOUS
<1> DEFINE Same(stage, call, todo) ==
      JobOf(stage, call, todo, job.got, job.before, job.candidate, job.first, job.touched)
<1>0. ASSUME NEW stage \in Stages, NEW call \in Calls, NEW todo \in SUBSET Paths
      PROVE  Same(stage, call, todo) \in Jobs /\ Same(stage, call, todo).stage = stage
             /\ Same(stage, call, todo).call = call /\ Same(stage, call, todo).candidate = job.candidate
  <2>1. Same(stage, call, todo) \in Jobs
    BY <1>0, JobIntro DEF TypeOK, Jobs
  <2> QED BY <2>1 DEF JobOf
<1> HIDE DEF Same
<1>1. CASE MakeWorkspace
  <2>1. Present(Fixture) \in SUBSET Paths
    BY DEF Present
  <2>2. job' = Same("copy", "prepare", Present(Fixture))
    BY <1>1, MoveFields DEF MakeWorkspace, Same
  <2>3. "copy" \in Stages /\ "prepare" \in Calls /\ "copy" \notin Prepared
    BY DEF Stages, Preparing, Calls, Prepared, Reading, Scans
  <2>4. job' \in Jobs /\ job'.stage = "copy" /\ job'.call = "prepare"
    BY <2>1, <2>2, <2>3, <1>0
  <2> QED BY <1>1, <2>3, <2>4, TreeType DEF MakeWorkspace, TypeOK, At, Preparing, Prepared, Reading, Scans
<1>2. ASSUME NEW p \in Paths, CopyFile(p) PROVE TypeOK'
  <2>1. job' = Same(job.stage, job.call, job.todo \ {p})
    BY <1>2, MoveFields DEF CopyFile, Same
  <2>2. job' \in Jobs /\ job'.stage = job.stage /\ job'.call = job.call /\ job'.candidate = job.candidate
    BY <2>1, <1>0 DEF TypeOK, Jobs
  <2>3. workspace' \in Tree
    BY <1>2 DEF CopyFile, TypeOK, At, Tree
  <2> QED BY <1>2, <2>2, <2>3 DEF CopyFile, TypeOK
<1>3. CASE CopyRaises
  BY <1>3, RestType DEF CopyRaises, TypeOK, At, Prepared, Reading, Scans
<1>4. CASE VerifyCopy
  <2>1. job' = Same("init", job.call, job.todo)
    BY <1>4, MoveFields DEF VerifyCopy, Same
  <2>2. "init" \in Stages /\ "init" \notin Prepared /\ job.call \in Calls /\ job.todo \in SUBSET Paths
    BY DEF Stages, Preparing, TypeOK, Jobs, Prepared, Reading, Scans
  <2>3. job' \in Jobs /\ job'.stage = "init" /\ job'.call = job.call
    BY <2>1, <2>2, <1>0
  <2> QED BY <1>4, <2>2, <2>3 DEF VerifyCopy, TypeOK, At, Preparing, Prepared, Reading, Scans
<1>5. CASE InitGit
  <2>1. job' = Same("base", job.call, job.todo)
    BY <1>5, MoveFields DEF InitGit, Same
  <2>2. "base" \in Stages /\ "base" \notin Prepared /\ job.call \in Calls /\ job.todo \in SUBSET Paths
    BY DEF Stages, Preparing, TypeOK, Jobs, Prepared, Reading, Scans
  <2>3. job' \in Jobs /\ job'.stage = "base" /\ job'.call = job.call
    BY <2>1, <2>2, <1>0
  <2>4. git' \in Gits
    BY <1>5 DEF InitGit, Gits
  <2> QED BY <1>5, <2>2, <2>3, <2>4 DEF InitGit, TypeOK, At, Preparing, Prepared, Reading, Scans
<1>6. CASE CommitBase
  <2>1. job' = Same("agent", "none", job.todo)
    BY <1>6, MoveFields DEF CommitBase, Same
  <2>2. "agent" \in Stages /\ "agent" \in Prepared /\ "none" \in Calls /\ job.todo \in SUBSET Paths
    BY DEF Stages, TypeOK, Jobs, Prepared, Calls
  <2>3. job' \in Jobs /\ job'.stage = "agent" /\ job'.call = "none"
    BY <2>1, <2>2, <1>0
  <2> DEFINE a == workspace[Attributes]
             t == [p \in Paths |-> Clean(a, p, workspace[p])]
  <2>4. workspace \in Tree
    BY <1>6 DEF CommitBase, TypeOK, At
  <2>5. t \in Tree /\ a \in Contents \union {None}
    BY <2>4, CleanType
  <2>6. git' = [base |-> [tree |-> t, parent |-> None], met |-> {a}]
        /\ prepared' = [base |-> [tree |-> t, parent |-> None], fixture |-> Bundle(workspace)]
    BY <1>6 DEF CommitBase
  <2> HIDE DEF a, t
  <2>7. git' \in Gits /\ git'.base \in Commit /\ prepared' \in [base : Commit, fixture : Bundles]
    BY <2>4, <2>5, <2>6, TreeType DEF Commit, Gits
  <2> QED BY <1>6, <2>2, <2>3, <2>4, <2>7 DEF CommitBase, TypeOK, At
<1>7. CASE InitRaises
  BY <1>7, RestType DEF InitRaises, TypeOK, At, Prepared, Reading, Scans
<1>8. CASE Crash
  <2>1. prepared = None /\ "none" # "prepare"
    BY <1>8 DEF Crash, TypeOK, Preparing, Prepared, Reading, Scans
  <2> QED BY <1>8, <2>1, RestType DEF Crash, TypeOK, At, Prepared, Reading, Scans
<1>9. CASE Dispose
  BY <1>9 DEF Dispose, TypeOK, At, Prepared, Reading, Scans
<1>10. CASE AgentRuns
  <2>1. job' = Same("between", job.call, job.todo)
    BY <1>10, MoveFields DEF AgentRuns, Same
  <2>2. "between" \in Stages /\ "between" \in Prepared /\ job.call \in Calls /\ job.todo \in SUBSET Paths
    BY DEF Stages, TypeOK, Jobs, Prepared
  <2>3. job' \in Jobs /\ job'.stage = "between" /\ job'.call = job.call
    BY <2>1, <2>2, <1>0
  <2> QED BY <1>10, <2>2, <2>3 DEF AgentRuns, TypeOK, At, Preparing, Prepared
<1>11. CASE GraderRuns
  <2>1. workspace \in Tree /\ frozen.candidate \in Commit /\ late.sinceCall \in BOOLEAN
    BY <1>11 DEF GraderRuns, TypeOK, At, Evidences
  <2>2. workspace' \in Tree
    BY <1>11, <2>1 DEF GraderRuns, Tree
  <2>3. gradings' \subseteq [candidate : Commit, saw : Tree, written : BOOLEAN, outcome : {"passed", "failed"}]
    BY <1>11, <2>1 DEF GraderRuns, TypeOK
  <2>4. "between" \in Prepared /\ "grading" \in Prepared
    BY DEF Prepared
  <2> QED BY <1>11, <2>2, <2>3, <2>4, RestType DEF GraderRuns, TypeOK, At
<1>12. CASE LateWrite
  <2>1. PICK p \in Paths, c \in Contents \union {None} :
          /\ workspace' = [workspace EXCEPT ![p] = c]
          /\ job' = [job EXCEPT !.touched = @ \/ (job.stage \in Scans /\ (c = None \/ workspace[p] = None))]
    BY <1>12 DEF LateWrite
  <2> DEFINE u == job.touched \/ (job.stage \in Scans /\ (c = None \/ workspace[p] = None))
  <2>2. u \in BOOLEAN
    OBVIOUS
  <2>3. job' = [job EXCEPT !.touched = u]
    BY <2>1
  <2> HIDE DEF u
  <2>4. job' \in Jobs /\ job'.stage = job.stage /\ job'.call = job.call /\ job'.candidate = job.candidate
    BY <2>2, <2>3 DEF TypeOK, Jobs
  <2>5. workspace' \in Tree
    BY <1>12, <2>1 DEF LateWrite, TypeOK, Tree, Prepared, Reading, Scans
  <2>6. late' \in [count : Nat, sinceCall : BOOLEAN]
    BY <1>12 DEF LateWrite, TypeOK
  <2> QED BY <1>12, <2>4, <2>5, <2>6 DEF LateWrite, TypeOK
<1>13. ASSUME NEW call \in {"freeze", "invoke", "finalize", "infrastructure"}, Begin(call) PROVE TypeOK'
  <2>1. job' = Fresh("before", call, None) /\ call \in Calls
    BY <1>13, FreshFields DEF Begin, Calls
  <2>2. job' \in Jobs /\ job'.stage = "before" /\ job'.call = call
    BY <2>1, <1>13, FreshType DEF Begin, At
  <2>3. "before" \in Prepared /\ "between" \in Prepared
    BY DEF Prepared, Reading, Scans
  <2>4. late' \in [count : Nat, sinceCall : BOOLEAN]
    BY <1>13 DEF Begin, TypeOK
  <2> QED BY <1>13, <2>2, <2>3, <2>4 DEF Begin, TypeOK, At
<1>14. CASE ReadFile
  <2> DEFINE p == CHOOSE p \in job.todo : TRUE
             t == job.todo \ {p}
             x == workspace[p]
  <2>0. p \in job.todo /\ job.todo \subseteq Paths /\ job.stage \in Reading
    BY <1>14 DEF ReadFile, TypeOK, Jobs, Reading
  <2>1. job' = Between \/ job' = [job EXCEPT !.todo = t, !.got[p] = x]
    BY <1>14 DEF ReadFile
  <2>2. workspace \in Tree /\ p \in Paths /\ t \in SUBSET Paths /\ x \in Contents \union {None}
    BY <2>0 DEF TypeOK, Tree, Reading, Scans
  <2> HIDE DEF p, t, x
  <2>3. CASE job' = Between
    BY <1>14, <2>0, <2>3, RestType DEF ReadFile, TypeOK, Prepared, Reading, Scans
  <2>4. CASE job' = [job EXCEPT !.todo = t, !.got[p] = x]
    <3>1. job' \in Jobs /\ job'.stage = job.stage /\ job'.call = job.call /\ job'.candidate = job.candidate
      BY <2>4, <2>2, ReadType
    <3> QED BY <1>14, <3>1 DEF ReadFile, TypeOK
  <2> QED BY <2>1, <2>3, <2>4
<1>25. CASE StageFile
  <2>1. PICK p \in job.todo, x \in Contents \union {None} : job' = [job EXCEPT !.todo = job.todo \ {p}, !.got[p] = x]
    BY <1>25, StageFacts
  <2>2. p \in Paths /\ job.todo \ {p} \in SUBSET Paths
    BY DEF TypeOK, Jobs
  <2>3. job' \in Jobs /\ job'.stage = job.stage /\ job'.call = job.call /\ job'.candidate = job.candidate
    BY <2>1, <2>2, ReadType
  <2>4. git' \in Gits /\ git'.base = git.base /\ job.stage = "stage" /\ job.stage \in Prepared
    BY <1>25, StageFacts DEF Prepared, Reading
  <2> QED BY <1>25, <2>3, <2>4 DEF StageFile, TypeOK
<1>15. ASSUME job' = Between, job.stage \in Prepared,
              UNCHANGED <<workspace, git, prepared, late, crashed, gradings>>,
              frozen' \in Evidences \union {None}
       PROVE  TypeOK'
  BY <1>15, RestType DEF TypeOK, Prepared, Reading, Scans
<1>16. CASE Unreadable \/ GitRaises \/ Changed \/ Refuse \/ FinalizeRaises
  <2>1. job.stage \in Prepared
    BY <1>16 DEF Unreadable, GitRaises, Changed, Refuse, Unchanged, Confirmed, FinalizeRaises, At, Prepared, Reading, Scans
  <2> QED BY <1>16, <2>1, <1>15 DEF Unreadable, GitRaises, Changed, Refuse, FinalizeRaises, TypeOK
<1>17. CASE Freeze
  <2>1. job.stage \in Prepared /\ job.first \in Evidences \union {None}
    BY <1>17 DEF Freeze, Confirmed, Unchanged, At, Prepared, Reading, Scans, TypeOK, Jobs
  <2> QED BY <1>17, <2>1, <1>15 DEF Freeze
<1>18. CASE Inspected
  <2>1. job' = JobOf("stage", job.call, Paths, Empty, job.got, job.candidate, job.first, job.touched)
    BY <1>18, ReadFields DEF Inspected
  <2>2. "stage" \in Stages /\ "stage" \in Prepared /\ "before" \in Prepared /\ Empty \in Tree
    BY TreeType DEF Stages, Prepared, Reading, Scans
  <2>3. job' \in Jobs
    BY <2>1, <2>2, JobIntro DEF TypeOK, Jobs
  <2>4. job'.stage = "stage" /\ job'.call = job.call
    BY <2>1 DEF JobOf
  <2> QED BY <1>18, <2>2, <2>3, <2>4 DEF Inspected, TypeOK, At, Preparing
<1>19. CASE CommitCandidate
  <2> DEFINE k == [tree |-> job.got, parent |-> git.base.tree]
  <2>1. "stage" \in Prepared /\ "after" \in Stages /\ "after" \in Prepared /\ Empty \in Tree
    BY TreeType DEF Stages, Prepared, Reading, Scans
  <2>2. workspace \in Tree /\ git.base \in Commit
    BY <1>19, <2>1 DEF CommitCandidate, TypeOK, At
  <2>3. k \in Commit /\ Present(workspace) \in SUBSET Paths /\ No \in BOOLEAN
    BY <2>2, TreeType DEF TypeOK, Jobs, Commit, No
  <2>4. job' = Scanning([job EXCEPT !.candidate = k], "after")
    BY <1>19 DEF CommitCandidate
  <2> HIDE DEF k
  <2>5. job' = JobOf("after", job.call, Present(workspace), Empty, job.before, k, job.first, No)
    BY <2>4, ReadFields
  <2>6. job' \in Jobs
    BY <2>1, <2>3, <2>5, JobIntro DEF TypeOK, Jobs
  <2>7. job'.stage = "after" /\ job'.call = job.call /\ job'.candidate = k
    BY <2>5 DEF JobOf
  <2> QED BY <1>19, <2>1, <2>2, <2>3, <2>6, <2>7 DEF CommitCandidate, TypeOK, At, Preparing
<1>20. CASE FreezeAgain
  <2>1. job.stage = "after" /\ Evidence \in Evidences /\ "confirm" \in Calls
    BY <1>20, EvidenceType DEF FreezeAgain, Unchanged, At, Calls
  <2>2. job' = Fresh("before", "confirm", Evidence)
    BY <1>20, FreshFields DEF FreezeAgain
  <2>3. job' \in Jobs /\ job'.stage = "before" /\ job'.call = "confirm"
    BY <2>1, <2>2, FreshType
  <2>4. "before" \in Prepared /\ "after" \in Prepared
    BY DEF Prepared, Reading, Scans
  <2> QED BY <1>20, <2>1, <2>3, <2>4 DEF FreezeAgain, TypeOK
<1>21. CASE InspectDelta
  <2>1. job.stage = "after" /\ job.call = "finalize" /\ "finalize" \in Calls
    BY <1>21 DEF InspectDelta, Confirmed, Unchanged, At, Calls
  <2>2. job' = Fresh("delta", "finalize", None)
    BY <1>21, <2>1, FreshFields DEF InspectDelta
  <2>3. job' \in Jobs /\ job'.stage = "delta" /\ job'.call = "finalize"
    BY <2>1, <2>2, FreshType
  <2>4. "delta" \in Prepared /\ "after" \in Prepared
    BY DEF Prepared, Reading, Scans
  <2>5. frozen \in Evidences
    BY <1>21, <2>1, EvidenceType DEF InspectDelta, Confirmed, Unchanged, At
  <2> QED BY <1>21, <2>1, <2>3, <2>4, <2>5 DEF InspectDelta, TypeOK
<1>22. CASE Invoke
  <2>1. job.stage = "after" /\ frozen \in Evidences
    BY <1>22, EvidenceType DEF Invoke, Confirmed, Unchanged, At
  <2>2. "grading" \in Stages /\ "grading" \in Prepared /\ "after" \in Prepared
    BY DEF Stages, Prepared, Reading, Scans
  <2>3. job' \in Jobs /\ job'.stage = "grading" /\ job'.call = "none"
    BY <1>22, <2>2, RestType DEF Invoke
  <2> QED BY <1>22, <2>1, <2>2, <2>3 DEF Invoke, TypeOK
<1>23. CASE FinalizeGraded \/ FinalizeInfrastructure
  <2>1. job.stage \in {"after", "delta"}
    BY <1>23 DEF FinalizeGraded, FinalizeInfrastructure, Confirmed, Unchanged, At
  <2>2. job' = [Between EXCEPT !.stage = "done"]
        /\ UNCHANGED <<workspace, git, prepared, frozen, gradings, late, crashed>>
    BY <1>23 DEF FinalizeGraded, FinalizeInfrastructure
  <2>3. "done" \in Stages /\ "done" \in Prepared /\ "after" \in Prepared /\ "delta" \in Prepared
    BY DEF Stages, Prepared, Reading, Scans
  <2>4. job' \in Jobs /\ job'.stage = "done" /\ job'.call = "none"
    BY <2>2, <2>3, RestType
  <2> QED BY <2>1, <2>2, <2>3, <2>4 DEF TypeOK
<1>24. CASE UNCHANGED vars
  BY <1>24 DEF vars, TypeOK
<1> QED
  BY <1>1, <1>2, <1>3, <1>4, <1>5, <1>6, <1>7, <1>8, <1>9, <1>10, <1>11, <1>12, <1>13, <1>14, <1>16,
     <1>17, <1>18, <1>19, <1>20, <1>21, <1>22, <1>23, <1>24, <1>25
  DEF Next, Prepare, Recompute

\* Every variable keeps its kind of value: a workspace is a tree once it was
\* made, a Git directory has a commit once prepare returned, what is staged is
\* a commit of the baseline (agent_eval_trial_session.py and what it calls).
THEOREM TypeCorrect == Spec => []TypeOK
<1>1. Init => TypeOK
  <2> SUFFICES ASSUME Init PROVE TypeOK
    OBVIOUS
  <2>1. job \in Jobs /\ job.stage = "new" /\ job.call = "none"
    BY RestType DEF Init
  <2>2. late \in [count : Nat, sinceCall : BOOLEAN]
    BY DEF Init
  <2> QED BY <2>1, <2>2 DEF Init, TypeOK, Prepared, Reading, Scans
<1> QED BY <1>1, TypeStep, PTL DEF Spec

------------------------------------------------------------------------------

(* The steps after prepare has returned.                                   *)
Working ==
  \/ AgentRuns \/ GraderRuns \/ LateWrite
  \/ (\E call \in {"freeze", "invoke", "finalize", "infrastructure"} : Begin(call))
  \/ Recompute \/ FreezeAgain \/ Freeze \/ Invoke
  \/ InspectDelta \/ FinalizeGraded \/ FinalizeRaises \/ FinalizeInfrastructure

\* After prepare returned nothing changes the baseline, and no stage is one of
\* preparation.
LEMMA WorkingStages ==
  ASSUME TypeOK, Working
  PROVE  /\ UNCHANGED <<prepared, crashed>>
         /\ git' \in Gits /\ git'.base = git.base /\ git.met \subseteq git'.met
         /\ job.stage \in Prepared
         /\ job'.stage \in Prepared \ {"agent"}
<1> DEFINE Ok == /\ UNCHANGED <<git, prepared, crashed>>
                 /\ job.stage \in Prepared
                 /\ job'.stage \in Prepared \ {"agent"}
<1>0. ASSUME Ok PROVE git' \in Gits /\ git'.base = git.base /\ git.met \subseteq git'.met
  BY <1>0 DEF TypeOK
<1>12. CASE StageFile
  <2>1. git' \in Gits /\ git'.base = git.base /\ git.met \subseteq git'.met /\ job.stage = "stage"
    BY <1>12, StageFacts
  <2>2. PICK p, x : job' = [job EXCEPT !.todo = job.todo \ {p}, !.got[p] = x]
    BY <1>12 DEF StageFile
  <2>3. job'.stage = "stage"
    BY <2>1, <2>2 DEF TypeOK, Jobs
  <2> QED BY <1>12, <2>1, <2>3 DEF StageFile, Prepared, Reading
<1> USE DEF Prepared, Reading, Scans
<1>1. ASSUME AgentRuns PROVE Ok
  BY <1>1, MoveFields DEF AgentRuns, At, JobOf
<1>2. ASSUME LateWrite PROVE Ok
  <2>1. job.stage \in Prepared \ {"agent"}
    BY <1>2 DEF LateWrite, TypeOK
  <2>2. PICK u : job' = [job EXCEPT !.touched = u]
    BY <1>2 DEF LateWrite
  <2>3. job'.stage = job.stage
    BY <2>2, MoveFields DEF JobOf
  <2> QED BY <1>2, <2>1, <2>3 DEF LateWrite
<1>3. ASSUME ReadFile PROVE Ok
  <2>1. PICK p, x : job' = Between \/ job' = [job EXCEPT !.todo = job.todo \ {p}, !.got[p] = x]
    BY <1>3 DEF ReadFile
  <2>2. job'.stage \in {"between", job.stage}
    BY <2>1, RestType DEF TypeOK, Jobs
  <2> QED BY <1>3, <2>2 DEF ReadFile
<1>4. ASSUME GraderRuns \/ Unreadable \/ GitRaises \/ Changed \/ Refuse \/ Freeze \/ FinalizeRaises PROVE Ok
  BY <1>4, RestType DEF GraderRuns, Unreadable, GitRaises, Changed, Refuse, Freeze, Confirmed, Unchanged, FinalizeRaises, At
<1>5. ASSUME Invoke \/ FinalizeGraded \/ FinalizeInfrastructure PROVE Ok
  <2>1. /\ UNCHANGED <<git, prepared, crashed>>
        /\ job.stage \in {"after", "delta"}
        /\ job' \in {[Between EXCEPT !.stage = "grading"], [Between EXCEPT !.stage = "done"]}
    BY <1>5 DEF Invoke, FinalizeGraded, FinalizeInfrastructure, Confirmed, Unchanged, At
  <2>2. "grading" \in Stages /\ "done" \in Stages
    BY DEF Stages
  <2> QED BY <2>1, <2>2, RestType
<1>6. ASSUME Inspected PROVE Ok
  <2>1. job' = JobOf("stage", job.call, Paths, Empty, job.got, job.candidate, job.first, job.touched)
    BY <1>6, ReadFields DEF Inspected
  <2> QED BY <1>6, <2>1 DEF Inspected, At, JobOf
<1>7. ASSUME CommitCandidate PROVE Ok
  <2> DEFINE k == [tree |-> job.got, parent |-> git.base.tree]
  <2>1. job' = Scanning([job EXCEPT !.candidate = k], "after")
    BY <1>7 DEF CommitCandidate
  <2> HIDE DEF k
  <2>2. job' = JobOf("after", job.call, Present(workspace), Empty, job.before, k, job.first, No)
    BY <2>1, ReadFields
  <2> QED BY <1>7, <2>2 DEF CommitCandidate, At, JobOf
<1>8. \A stage, call, first : Fresh(stage, call, first).stage = stage
  BY DEF Fresh, JobOf
<1>9. ASSUME FreezeAgain PROVE Ok
  <2>1. job' = Fresh("before", "confirm", Evidence)
    BY <1>9, FreshFields DEF FreezeAgain
  <2> QED BY <1>8, <1>9, <2>1 DEF FreezeAgain, Unchanged, At
<1>10. ASSUME InspectDelta PROVE Ok
  <2>1. job' = Fresh("delta", job.call, None)
    BY <1>10, FreshFields DEF InspectDelta
  <2> QED BY <1>8, <1>10, <2>1 DEF InspectDelta, Confirmed, Unchanged, At
<1>11. ASSUME NEW call \in {"freeze", "invoke", "finalize", "infrastructure"}, Begin(call) PROVE Ok
  <2>1. job' = Fresh("before", call, None)
    BY <1>11, FreshFields DEF Begin
  <2> QED BY <1>8, <1>11, <2>1 DEF Begin, At
<1>13. Ok \/ StageFile
  BY <1>1, <1>2, <1>3, <1>4, <1>5, <1>6, <1>7, <1>9, <1>10, <1>11 DEF Working, Recompute
<1> QED BY <1>0, <1>12, <1>13

(* What each stage of a preparation has made, and what is left of it.      *)
PrepareInv ==
  /\ prepared # None => prepared.base = Base /\ git.base = Base
  /\ job.stage \in {"init", "base", "agent"} => workspace = Fixture
  /\ job.stage \in {"new", "copy", "init"} /\ ~crashed => git = None
  /\ job.stage = "new" /\ ~crashed => workspace \in {None, Fixture}
  /\ job.stage \in Prepared => git.base = Base

\* PrepareInv is inductive, relative to TypeOK.
LEMMA PrepareStep == TypeOK /\ PrepareInv /\ [Next]_vars => PrepareInv'
<1> SUFFICES ASSUME TypeOK, PrepareInv, [Next]_vars PROVE PrepareInv'
  OBVIOUS
<1> USE DEF PrepareInv
<1>0. prepared # None => job.stage \in Prepared
  BY DEF TypeOK
<1>1. CASE Working
  <2>1. /\ UNCHANGED <<prepared, crashed>> /\ git'.base = git.base
        /\ job.stage \in Prepared /\ job'.stage \in Prepared \ {"agent"}
    BY <1>1, WorkingStages
  <2> QED BY <2>1 DEF Prepared, Reading, Scans
<1>2. CASE MakeWorkspace
  <2>1. job'.stage = "copy"
    BY <1>2, MoveFields DEF MakeWorkspace, JobOf
  <2> QED BY <1>2, <2>1 DEF MakeWorkspace, At, Prepared, Reading, Scans
<1>3. ASSUME NEW p \in Paths, CopyFile(p) PROVE PrepareInv'
  <2>1. job'.stage = "copy"
    BY <1>3 DEF CopyFile, At, TypeOK, Jobs
  <2> QED BY <1>3, <2>1 DEF CopyFile, At, Prepared, Reading, Scans
<1>4. CASE CopyRaises
  BY <1>4, RestType DEF CopyRaises, At, Prepared, Reading, Scans
<1>5. CASE VerifyCopy
  <2>1. job'.stage = "init"
    BY <1>5 DEF VerifyCopy, At, TypeOK, Jobs
  <2>2. workspace = Fixture
    BY <1>5, FixtureOnly DEF VerifyCopy, At, TypeOK
  <2> QED BY <1>5, <2>1, <2>2 DEF VerifyCopy, At, Prepared, Reading, Scans
<1>6. CASE InitGit
  <2>1. job'.stage = "base"
    BY <1>6 DEF InitGit, At, TypeOK, Jobs
  <2> QED BY <1>6, <2>1, <1>0 DEF InitGit, At, Prepared, Reading, Scans
<1>7. CASE CommitBase
  <2>1. job'.stage = "agent"
    BY <1>7, MoveFields DEF CommitBase, JobOf
  <2>2. workspace = Fixture
    BY <1>7 DEF CommitBase, At
  <2>3. git'.base = Base /\ prepared'.base = Base
    BY <1>7, <2>2 DEF CommitBase, Base
  <2> QED BY <1>7, <2>1, <2>2, <2>3 DEF CommitBase, At, Prepared, Reading, Scans
<1>8. CASE InitRaises
  BY <1>8, <1>0, RestType DEF InitRaises, At, Prepared, Reading, Scans
<1>9. CASE Crash
  BY <1>9, <1>0, RestType DEF Crash, TypeOK, Prepared, Preparing, Reading, Scans
<1>10. CASE Dispose
  BY <1>10, <1>0 DEF Dispose, At, Prepared, Reading, Scans
<1>11. CASE UNCHANGED vars
  BY <1>11 DEF vars
<1> QED
  BY <1>1, <1>2, <1>3, <1>4, <1>5, <1>6, <1>7, <1>8, <1>9, <1>10, <1>11 DEF Next, Prepare, Working

\* PrepareInv holds throughout.
LEMMA PrepareHolds == Spec => []PrepareInv
<1>1. Init => PrepareInv
  BY RestType DEF Init, PrepareInv, Prepared, Reading, Scans
<1> QED BY <1>1, PrepareStep, TypeCorrect, PTL DEF Spec

\* prepare_evaluation_session() returns the fixture, and leaves no part of one
\* when it raises, whatever earlier attempts were killed or left behind.
THEOREM PreparationWholeCorrect == Spec => []PreparationWhole
<1>1. TypeOK /\ PrepareInv => PreparationWhole
  BY DEF PrepareInv, PreparationWhole, PreparedIsFixture, NothingHalfMade, At
<1> QED BY <1>1, TypeCorrect, PrepareHolds, PTL

------------------------------------------------------------------------------

\* One file read, field by field.
LEMMA ReadMove ==
  ASSUME TypeOK, ReadFile, job' # Between
  PROVE  \E p \in job.todo :
           job' = JobOf(job.stage, job.call, job.todo \ {p}, [job.got EXCEPT ![p] = workspace[p]],
                        job.before, job.candidate, job.first, job.touched)
<1> DEFINE p == CHOOSE p \in job.todo : TRUE
           t == job.todo \ {p}
           x == workspace[p]
<1>1. job' = [job EXCEPT !.todo = t, !.got[p] = x] /\ p \in job.todo
  BY DEF ReadFile
<1> HIDE DEF p, t, x
<1>2. job' = PutRead(job, p, t, x)
  BY <1>1 DEF PutRead
<1>3. job' = JobOf(job.stage, job.call, t, [job.got EXCEPT ![p] = x], job.before, job.candidate, job.first, job.touched)
  BY <1>2, JobFields, PutReadFields
<1> QED BY <1>1, <1>3 DEF t, x

\* One file staged, field by field.
LEMMA StageMove ==
  ASSUME TypeOK, StageFile
  PROVE  \E p \in job.todo, x \in Contents \union {None} :
           /\ x \in CheckIns(git'.met, p, workspace[p])
           /\ job' = JobOf(job.stage, job.call, job.todo \ {p}, [job.got EXCEPT ![p] = x],
                           job.before, job.candidate, job.first, job.touched)
<1>1. PICK p \in job.todo, x \in Contents \union {None} :
        x \in CheckIns(git'.met, p, workspace[p]) /\ job' = [job EXCEPT !.todo = job.todo \ {p}, !.got[p] = x]
  BY StageFacts
<1>2. job' = PutRead(job, p, job.todo \ {p}, x)
  BY <1>1 DEF PutRead
<1>3. job' = JobOf(job.stage, job.call, job.todo \ {p}, [job.got EXCEPT ![p] = x], job.before, job.candidate, job.first, job.touched)
  BY <1>2, JobFields, PutReadFields
<1> QED BY <1>1, <1>3

\* An inspection that ends, field by field.
LEMMA InspectedMove ==
  ASSUME TypeOK, Inspected
  PROVE  job' = JobOf("stage", job.call, Paths, Empty, job.got, job.candidate, job.first, job.touched)
BY ReadFields DEF Inspected

\* A candidate commit, field by field.
LEMMA CommitMove ==
  ASSUME TypeOK, CommitCandidate
  PROVE  job' = JobOf("after", job.call, Present(workspace), Empty, job.before,
                      [tree |-> job.got, parent |-> git.base.tree], job.first, No)
<1> DEFINE k == [tree |-> job.got, parent |-> git.base.tree]
<1>1. job' = Scanning([job EXCEPT !.candidate = k], "after")
  BY DEF CommitCandidate
<1> HIDE DEF k
<1>2. job' = JobOf("after", job.call, Present(workspace), Empty, job.before, k, job.first, No)
  BY <1>1, ReadFields
<1> QED BY <1>2 DEF k

\* The fields of a fresh reading.
LEMMA FreshFacts ==
  ASSUME NEW stage, NEW call, NEW first
  PROVE  LET j == Fresh(stage, call, first) IN
         /\ j.stage = stage /\ j.call = call /\ j.todo = Present(workspace) /\ j.got = Empty
         /\ j.before = Empty /\ j.candidate = None /\ j.first = first
BY DEF Fresh, JobOf

\* Preparation touches neither evidence nor records, and no call reads.
LEMMA PreparingStages ==
  ASSUME TypeOK, Prepare \/ Crash \/ Dispose
  PROVE  /\ UNCHANGED <<frozen, gradings, record, late>>
         /\ job.stage \in {"new"} \union Preparing
         /\ job'.stage \in {"new", "agent"} \union Preparing
         /\ job'.call \in {"none", "prepare", job.call}
<1> USE DEF Preparing
<1>1. CASE MakeWorkspace
  BY <1>1, MoveFields DEF MakeWorkspace, JobOf, At
<1>2. ASSUME NEW p \in Paths, CopyFile(p)
      PROVE  /\ UNCHANGED <<frozen, gradings, record, late>>
             /\ job.stage = "copy" /\ job'.stage = "copy" /\ job'.call = job.call
  BY <1>2 DEF CopyFile, At, TypeOK, Jobs
<1>3. CASE CopyRaises \/ InitRaises \/ Crash
  BY <1>3, RestType DEF CopyRaises, InitRaises, Crash, At, TypeOK
<1>4. CASE VerifyCopy \/ InitGit
  BY <1>4, MoveFields DEF VerifyCopy, InitGit, JobOf, At
<1>5. CASE CommitBase
  BY <1>5, MoveFields DEF CommitBase, JobOf, At
<1>6. CASE Dispose
  BY <1>6 DEF Dispose, At
<1> QED BY <1>1, <1>2, <1>3, <1>4, <1>5, <1>6 DEF Prepare

(* What was frozen is what is there, and what Git made of it.              *)
FrozenThere == frozen.bundle = Bundle(workspace) /\ Made(git.met, workspace, frozen.candidate.tree)

(* What was read, or given out, is what is there, and what was staged is   *)
(* what Git made of it, unless somebody wrote since the call began.        *)
ReadInv ==
  /\ job.stage \in Scans /\ ~late.sinceCall => \A p \in Paths \ job.todo : job.got[p] = workspace[p]
  /\ job.stage = "stage" /\ ~late.sinceCall =>
       \A p \in Paths \ job.todo : job.got[p] \in CheckIns(git.met, p, workspace[p])
  /\ job.stage \in {"stage", "after"} /\ ~late.sinceCall => job.before = workspace
  /\ job.stage = "after" /\ ~late.sinceCall => Made(git.met, workspace, job.candidate.tree)
  /\ job.stage = "after" => job.candidate.parent = Base.tree
  /\ job.stage \in {"grading", "delta"} => FrozenThere \/ late.sinceCall

\* A fresh reading has read what is there: the paths the listing lacks.
LEMMA FreshReads ==
  ASSUME TypeOK, job.stage # "new", UNCHANGED workspace,
         NEW stage \in {"before", "delta"}, NEW call, NEW first, job' = Fresh(stage, call, first),
         stage = "before" \/ (FrozenThere' \/ late'.sinceCall)
  PROVE  ReadInv'
<1>1. job'.stage = stage /\ job'.todo = Present(workspace) /\ job'.got = Empty
  BY FreshFacts
<1>2. \A p \in Paths \ job'.todo : job'.got[p] = workspace'[p]
  BY <1>1 DEF Present, Empty
<1> QED BY <1>1, <1>2 DEF ReadInv

\* ReadInv is inductive, relative to TypeOK and PrepareInv.
LEMMA ReadStep == TypeOK /\ PrepareInv /\ ReadInv /\ [Next]_vars => ReadInv'
<1> SUFFICES ASSUME TypeOK, PrepareInv, ReadInv, [Next]_vars PROVE ReadInv'
  OBVIOUS
<1>0. ASSUME job'.stage \notin Reading \union {"grading"} PROVE ReadInv'
  BY <1>0 DEF ReadInv, Reading, Scans
<1>1. CASE Prepare \/ Crash \/ Dispose
  BY <1>1, <1>0, PreparingStages DEF Preparing, Reading, Scans
<1>2. CASE AgentRuns
  BY <1>2, <1>0, MoveFields DEF AgentRuns, JobOf, Reading, Scans
<1>3. CASE GraderRuns \/ Unreadable \/ GitRaises \/ Changed \/ Refuse \/ Freeze \/ FinalizeRaises
  <2>1. job' = Between
    BY <1>3 DEF GraderRuns, Unreadable, GitRaises, Changed, Refuse, Freeze, FinalizeRaises
  <2> QED BY <2>1, <1>0, RestType DEF Reading, Scans
<1>4. CASE LateWrite
  <2>1. PICK u : job' = [job EXCEPT !.touched = u]
    BY <1>4 DEF LateWrite
  <2>2. job'.stage = job.stage /\ job'.candidate = job.candidate
    BY <2>1, MoveFields DEF JobOf
  <2>3. late'.sinceCall = TRUE
    BY <1>4 DEF LateWrite
  <2> QED BY <2>2, <2>3 DEF ReadInv
<1>5. ASSUME NEW call \in {"freeze", "invoke", "finalize", "infrastructure"}, Begin(call) PROVE ReadInv'
  <2>1. job' = Fresh("before", call, None) /\ UNCHANGED workspace /\ job.stage # "new"
    BY <1>5, FreshFields DEF Begin, At
  <2> QED BY <2>1, FreshReads
<1>6. CASE ReadFile
  <2>1. CASE job' = Between
    BY <2>1, <1>0, RestType DEF Reading, Scans
  <2>2. CASE job' # Between
    <3>1. PICK p \in job.todo :
            job' = JobOf(job.stage, job.call, job.todo \ {p}, [job.got EXCEPT ![p] = workspace[p]],
                         job.before, job.candidate, job.first, job.touched)
      BY <1>6, <2>2, ReadMove
    <3>2. /\ job'.stage = job.stage /\ job'.candidate = job.candidate
          /\ job'.todo = job.todo \ {p} /\ job'.got = [job.got EXCEPT ![p] = workspace[p]]
      BY <3>1 DEF JobOf
    <3>3. UNCHANGED <<workspace, git, late, frozen>> /\ p \in Paths /\ job.got \in Tree /\ job.stage \in Scans
      BY <1>6 DEF ReadFile, TypeOK, Jobs
    <3>5. job'.before = job.before
      BY <3>1 DEF JobOf
    <3>4. ASSUME ~late.sinceCall, NEW q \in Paths \ job'.todo PROVE job'.got[q] = workspace'[q]
      <4>1. CASE q = p
        BY <4>1, <3>2, <3>3 DEF Tree
      <4>2. CASE q # p
        <5>1. job.got[q] = workspace[q]
          BY <3>2, <3>3, <3>4, <4>2 DEF ReadInv
        <5> QED BY <5>1, <4>2, <3>2, <3>3 DEF Tree
      <4> QED BY <4>1, <4>2
    <3> QED BY <3>2, <3>3, <3>4, <3>5 DEF ReadInv, Scans, FrozenThere
  <2> QED BY <2>1, <2>2
<1>15. CASE StageFile
  <2>1. PICK p \in job.todo, x \in Contents \union {None} :
          /\ x \in CheckIns(git'.met, p, workspace[p])
          /\ job' = JobOf(job.stage, job.call, job.todo \ {p}, [job.got EXCEPT ![p] = x],
                          job.before, job.candidate, job.first, job.touched)
    BY <1>15, StageMove
  <2>2. /\ job'.stage = "stage" /\ job'.before = job.before
        /\ job'.todo = job.todo \ {p} /\ job'.got = [job.got EXCEPT ![p] = x]
    BY <1>15, <2>1 DEF JobOf, StageFile, At
  <2>3. UNCHANGED <<workspace, late>> /\ p \in Paths /\ job.got \in Tree /\ job.stage = "stage"
    BY <1>15 DEF StageFile, At, TypeOK, Jobs
  <2>4. git.met \subseteq git'.met
    BY <1>15, StageFacts
  <2>5. ASSUME ~late.sinceCall, NEW q \in Paths \ job'.todo PROVE job'.got[q] \in CheckIns(git'.met, q, workspace'[q])
    <3>1. CASE q = p
      BY <3>1, <2>1, <2>2, <2>3 DEF Tree
    <3>2. CASE q # p
      <4>1. job.got[q] \in CheckIns(git.met, q, workspace[q])
        BY <2>2, <2>3, <2>5, <3>2 DEF ReadInv
      <4>2. job'.got[q] = job.got[q]
        BY <2>2, <2>3, <3>2 DEF Tree
      <4> QED BY <4>1, <4>2, <2>3, <2>4, CheckInsGrow
    <3> QED BY <3>1, <3>2
  <2> QED BY <2>2, <2>3, <2>5 DEF ReadInv, Scans
<1>7. CASE Inspected
  <2>1. job'.stage = "stage" /\ job'.todo = Paths /\ job'.before = job.got
    BY <1>7, InspectedMove DEF JobOf
  <2>2. UNCHANGED <<workspace, late>> /\ job.stage = "before" /\ job.todo = {}
    BY <1>7 DEF Inspected, At
  <2>3. ASSUME ~late.sinceCall PROVE job.got = workspace
    <3>1. \A p \in Paths : job.got[p] = workspace[p]
      BY <2>2, <2>3 DEF ReadInv, Scans
    <3> QED BY <3>1, <2>2 DEF TypeOK, Jobs, Tree
  <2> QED BY <2>1, <2>2, <2>3 DEF ReadInv, Scans
<1>8. CASE CommitCandidate
  <2>1. /\ job'.stage = "after" /\ job'.todo = Present(workspace) /\ job'.got = Empty
        /\ job'.candidate = [tree |-> job.got, parent |-> git.base.tree] /\ job'.before = job.before
    BY <1>8, CommitMove DEF JobOf
  <2>2. UNCHANGED <<workspace, git, late>> /\ job.stage = "stage" /\ job.todo = {} /\ git.base = Base
    BY <1>8 DEF CommitCandidate, At, PrepareInv, Prepared, Reading, Scans
  <2>3. \A p \in Paths \ job'.todo : job'.got[p] = workspace'[p]
    BY <2>1, <2>2 DEF Present, Empty
  <2>4. ASSUME ~late.sinceCall PROVE Made(git.met, workspace, job.got) /\ job.before = workspace
    BY <2>2, <2>4 DEF ReadInv, Made
  <2>5. job'.candidate.parent = Base.tree /\ job'.candidate.tree = job.got
    BY <2>1, <2>2
  <2> QED BY <2>1, <2>2, <2>3, <2>4, <2>5 DEF ReadInv
<1>9. CASE FreezeAgain
  <2>1. job' = Fresh("before", "confirm", Evidence) /\ UNCHANGED workspace /\ job.stage # "new"
    BY <1>9, FreshFields DEF FreezeAgain, Unchanged, At
  <2> QED BY <2>1, FreshReads
<1>10. ASSUME Confirmed, job.call # "confirm" PROVE FrozenThere \/ late.sinceCall
  <2>1. frozen.bundle = Bundle(job.before) /\ frozen.candidate = job.candidate /\ job.stage = "after"
    BY <1>10 DEF Confirmed, Unchanged, At, Evidence
  <2> QED BY <2>1 DEF ReadInv, FrozenThere
<1>11. CASE InspectDelta
  <2>1. /\ job' = Fresh("delta", job.call, None) /\ UNCHANGED <<workspace, git, frozen, late>>
        /\ job.stage # "new" /\ Confirmed /\ job.call # "confirm"
    BY <1>11, FreshFields DEF InspectDelta, Confirmed, Unchanged, At
  <2>2. FrozenThere' \/ late'.sinceCall
    BY <2>1, <1>10 DEF FrozenThere
  <2> QED BY <2>1, <2>2, FreshReads
<1>12. CASE Invoke
  <2>1. "grading" \in Stages
    BY DEF Stages, Prepared
  <2>2. job'.stage = "grading" /\ UNCHANGED <<workspace, git, frozen, late>> /\ Confirmed /\ job.call # "confirm"
    BY <1>12, <2>1, RestType DEF Invoke
  <2> QED BY <2>2, <1>10 DEF ReadInv, FrozenThere, Scans
<1>13. CASE FinalizeGraded \/ FinalizeInfrastructure
  <2>1. "done" \in Stages
    BY DEF Stages, Prepared
  <2>2. job'.stage = "done"
    BY <1>13, <2>1, RestType DEF FinalizeGraded, FinalizeInfrastructure
  <2> QED BY <2>2, <1>0 DEF Reading, Scans
<1>14. CASE UNCHANGED vars
  BY <1>14 DEF vars, ReadInv, FrozenThere
<1> QED
  BY <1>1, <1>2, <1>3, <1>4, <1>5, <1>6, <1>7, <1>8, <1>9, <1>11, <1>12, <1>13, <1>14, <1>15 DEF Next, Recompute

\* ReadInv holds throughout.
LEMMA ReadHolds == Spec => []ReadInv
<1>1. Init => ReadInv
  BY RestType DEF Init, ReadInv, Reading, Scans
<1> QED BY <1>1, ReadStep, TypeCorrect, PrepareHolds, PTL DEF Spec

------------------------------------------------------------------------------

\* The candidate and the outcome of a run record.
LEMMA RecordFields ==
  ASSUME NEW delta, NEW result, NEW candidate, NEW o
  PROVE  /\ GradedRecord(Plan, Source, Request, delta, result, candidate, o).candidate = candidate
         /\ GradedRecord(Plan, Source, Request, delta, result, candidate, o).outcome = "passed" =>
              FailureClass(Plan, Request, delta, result, o) = None
         /\ InfrastructureRecord(Request, candidate, o).outcome # "passed"
<1>1. GradedRecord(Plan, Source, Request, delta, result, candidate, o).candidate = candidate
  BY DEF GradedRecord, Extend, BaseRecord
<1>2. GradedRecord(Plan, Source, Request, delta, result, candidate, o).outcome = "passed" =>
        FailureClass(Plan, Request, delta, result, o) = None
  BY DEF GradedRecord, Extend, BaseRecord
<1>3. InfrastructureRecord(Request, candidate, o).outcome # "passed"
  BY DEF InfrastructureRecord, Extend, BaseRecord
<1> QED BY <1>1, <1>2, <1>3

\* A record without a failure class is of a result that passed.
LEMMA PassedResult ==
  ASSUME NEW delta, NEW result, NEW o, FailureClass(Plan, Request, delta, result, o) = None
  PROVE  result.outcome = "passed"
<1>1. EarlyFailure(delta, result, o) = None
  BY DEF FailureClass
<1> QED BY <1>1, FailureAssumption DEF EarlyFailure

(* What grader runs saw, and what the record, which ends the trial, is of. *)
RecordInv ==
  /\ \A g \in gradings : CommittedAs(Bundle(g.saw), g.candidate.tree) \/ g.written
  /\ record # None => job.stage = "done"
  /\ gradings # {} \/ frozen # None => job.stage \in Prepared
  /\ RecordOfCandidate
  /\ PassedWasGraded

\* A graded record is of what is there and of a grader run of its candidate.
LEMMA GradedStep ==
  ASSUME TypeOK, ReadInv, RecordInv, FinalizeGraded
  PROVE  RecordInv'
<1>1. PICK g \in gradings, exitCode \in 0..2, o \in Observations :
        LET delta == Delta(job.got)
            r == GradedRecord(Plan, Source, Request, delta, ResultOf(g), frozen.candidate, o)
        IN ResultAccepted(ResultOf(g), Expected) /\ record' = [run |-> r, delta |-> delta, observation |-> o]
  BY DEF FinalizeGraded
<1> DEFINE delta == Delta(job.got)
           r == GradedRecord(Plan, Source, Request, delta, ResultOf(g), frozen.candidate, o)
<1>2. record' = [run |-> r, delta |-> delta, observation |-> o] /\ UNCHANGED <<workspace, git, frozen, gradings, late>>
  BY <1>1 DEF FinalizeGraded
<1>3. r.candidate = frozen.candidate
  BY RecordFields
<1>4. r.outcome = "passed" => FailureClass(Plan, Request, delta, ResultOf(g), o) = None
  BY RecordFields
<1>5. r.outcome = "passed" => g.outcome = "passed"
  BY <1>4, PassedResult DEF ResultOf
<1>6. g.candidate = frozen.candidate
  <2>1. ResultOf(g).identity = Expected
    BY <1>1 DEF ResultAccepted
  <2>2. ResultOf(g).identity.candidate = g.candidate /\ Expected.candidate = frozen.candidate
    BY DEF ResultOf, Expected, Expectation
  <2> QED BY <2>1, <2>2
<1>7. ASSUME ~late.sinceCall PROVE /\ delta = DeltaOf(Request, frozen.bundle) /\ delta.bundle = frozen.bundle
                                   /\ CommittedAs(frozen.bundle, frozen.candidate.tree)
  <2>1. job.stage = "delta" /\ job.todo = {}
    BY DEF FinalizeGraded, At
  <2>2. \A p \in Paths : job.got[p] = workspace[p]
    BY <1>7, <2>1 DEF ReadInv, Scans
  <2>3. job.got = workspace /\ workspace \in Tree
    BY <2>1, <2>2 DEF TypeOK, Jobs, Tree
  <2>4. frozen.bundle = Bundle(workspace) /\ Made(git.met, workspace, frozen.candidate.tree)
    BY <1>7, <2>1 DEF ReadInv, FrozenThere
  <2>5. frozen.candidate.tree \in Tree /\ git.met \in SUBSET (Contents \union {None})
    BY <2>1 DEF RecordInv, TypeOK, Evidences, Commit, Prepared, Reading, Scans, Gits
  <2>6. CommittedAs(frozen.bundle, frozen.candidate.tree)
    BY <2>3, <2>4, <2>5, MadeCommitted
  <2>7. delta = DeltaOf(Request, frozen.bundle)
    BY <2>3, <2>4 DEF Delta
  <2>8. DeltaOf(Request, frozen.bundle).bundle = frozen.bundle
    BY DEF DeltaOf
  <2> QED BY <2>6, <2>7, <2>8
<1>11. job'.stage = "done"
  <2>1. "done" \in Stages
    BY DEF Stages, Prepared
  <2> QED BY <2>1, RestType DEF FinalizeGraded
<1> HIDE DEF r, delta
<1>8. record'.run = r /\ record'.delta = delta
  BY <1>2
<1>9. RecordOfCandidate'
  BY <1>2, <1>3, <1>7, <1>8 DEF RecordOfCandidate, CommittedAs
<1>12. \A b, t : CommittedAs(b, t)' = CommittedAs(b, t)
  BY <1>2 DEF CommittedAs
<1>10. PassedWasGraded'
  <2>1. CommittedAs(Bundle(g.saw), g.candidate.tree) \/ g.written
    BY DEF RecordInv
  <2>2. CommittedAs(Bundle(g.saw), g.candidate.tree)' \/ g.written
    BY <2>1, <1>2 DEF CommittedAs
  <2> QED BY <2>2, <1>2, <1>3, <1>5, <1>6, <1>8 DEF PassedWasGraded
<1>13. \A h \in gradings' : CommittedAs(Bundle(h.saw), h.candidate.tree)' \/ h.written
  BY <1>2, <1>12 DEF RecordInv
<1> QED BY <1>9, <1>10, <1>11, <1>13 DEF RecordInv, Prepared

\* Nothing happens once a record was made.
LEMMA DoneStays == ASSUME TypeOK, job.stage = "done", [Next]_vars PROVE UNCHANGED vars
<1>1. job.call # "prepare"
  BY DEF TypeOK, Preparing
<1>2. ~(Prepare \/ Crash \/ Dispose)
  BY <1>1 DEF Prepare, Crash, Dispose, MakeWorkspace, CopyFile, CopyRaises, VerifyCopy, InitGit, CommitBase, InitRaises, At
<1>3. ~(AgentRuns \/ GraderRuns \/ LateWrite \/ Recompute)
  BY DEF AgentRuns, GraderRuns, LateWrite, Recompute, ReadFile, StageFile, GitRaises, Unreadable, Inspected,
         CommitCandidate, Changed, Refuse, Unchanged, At, Scans
<1>4. ~(FreezeAgain \/ Freeze \/ Invoke \/ InspectDelta \/ FinalizeGraded \/ FinalizeRaises \/ FinalizeInfrastructure)
  BY DEF FreezeAgain, Freeze, Invoke, InspectDelta, FinalizeGraded, FinalizeRaises, FinalizeInfrastructure,
         Confirmed, Unchanged, At
<1>5. ~\E call \in {"freeze", "invoke", "finalize", "infrastructure"} : Begin(call)
  BY DEF Begin, At
<1> QED BY <1>2, <1>3, <1>4, <1>5 DEF Next

\* Git meets ever more attributes once prepare has returned.
LEMMA MetGrows ==
  ASSUME TypeOK, [Next]_vars, job.stage \in Prepared
  PROVE  git.met \subseteq git'.met
<1>1. CASE Working
  BY <1>1, WorkingStages
<1>2. CASE Prepare \/ Crash \/ Dispose
  <2>1. job.stage \in {"new"} \union Preparing
    BY <1>2, PreparingStages
  <2> QED BY <2>1 DEF Preparing, Prepared, Reading, Scans
<1>3. CASE UNCHANGED vars
  BY <1>3 DEF vars
<1> QED BY <1>1, <1>2, <1>3 DEF Next, Working

\* RecordInv is inductive, relative to TypeOK and ReadInv.
LEMMA RecordStep == TypeOK /\ ReadInv /\ RecordInv /\ [Next]_vars => RecordInv'
<1> SUFFICES ASSUME TypeOK, ReadInv, RecordInv, [Next]_vars PROVE RecordInv'
  OBVIOUS
<1>9. CASE record # None
  <2>1. UNCHANGED vars
    BY <1>9, DoneStays DEF RecordInv
  <2> QED BY <2>1 DEF RecordInv, RecordOfCandidate, PassedWasGraded, CommittedAs, vars
<1>10. SUFFICES ASSUME record = None PROVE RecordInv'
  BY <1>9
<1>0. ASSUME UNCHANGED <<gradings, record>>, gradings = {} \/ job.stage \in Prepared,
             job'.stage \in Prepared \/ (gradings = {} /\ frozen' = None)
      PROVE  RecordInv'
  <2>1. \A g \in gradings : CommittedAs(Bundle(g.saw), g.candidate.tree)' \/ g.written
    BY <1>0, MetGrows, CommittedGrows DEF RecordInv
  <2> QED BY <1>0, <1>10, <2>1 DEF RecordInv, RecordOfCandidate, PassedWasGraded, CommittedAs
<1>1. CASE Prepare \/ Crash \/ Dispose
  <2>1. UNCHANGED <<frozen, gradings, record>> /\ job.stage \in {"new"} \union Preparing
    BY <1>1, PreparingStages
  <2>2. gradings = {} /\ frozen = None
    BY <2>1 DEF RecordInv, Preparing, Prepared, Reading, Scans
  <2> QED BY <2>1, <2>2, <1>0
<1>2. CASE GraderRuns
  <2>1. PICK outcome \in {"passed", "failed"} :
          gradings' = gradings \union {[candidate |-> frozen.candidate, saw |-> workspace,
                                        written |-> late.sinceCall, outcome |-> outcome]}
    BY <1>2 DEF GraderRuns
  <2>2. CommittedAs(Bundle(workspace), frozen.candidate.tree) \/ late.sinceCall
    <3>1. job.stage = "grading" /\ job.stage \in Prepared
      BY <1>2 DEF GraderRuns, At, Prepared
    <3>2. /\ frozen.candidate.tree \in Tree /\ workspace \in Tree
          /\ git.met \in SUBSET (Contents \union {None})
      BY <3>1 DEF TypeOK, Evidences, Commit, Gits
    <3> QED BY <3>1, <3>2, MadeCommitted DEF ReadInv, FrozenThere
  <2>3. UNCHANGED <<record, git, late>>
    BY <1>2 DEF GraderRuns
  <2>4. \A g \in gradings' : CommittedAs(Bundle(g.saw), g.candidate.tree) \/ g.written
    BY <2>1, <2>2 DEF RecordInv
  <2>5. job'.stage \in Prepared
    BY <1>2, WorkingStages DEF Working
  <2>6. \A g \in gradings' : CommittedAs(Bundle(g.saw), g.candidate.tree)' \/ g.written
    BY <2>3, <2>4 DEF CommittedAs
  <2> QED BY <2>3, <2>5, <2>6, <1>10 DEF RecordInv, RecordOfCandidate, PassedWasGraded
<1>3. CASE FinalizeGraded
  BY <1>3, GradedStep
<1>4. CASE FinalizeInfrastructure
  <2>1. PICK o \in Observations :
          record' = [run |-> InfrastructureRecord(Request, frozen.candidate, o), delta |-> None, observation |-> o]
    BY <1>4 DEF FinalizeInfrastructure
  <2>2. record'.run.outcome # "passed" /\ record'.delta = None
    BY <2>1, RecordFields
  <2>3. "done" \in Stages
    BY DEF Stages, Prepared
  <2>4. job'.stage = "done" /\ UNCHANGED <<git, gradings>>
    BY <1>4, <2>3, RestType DEF FinalizeInfrastructure
  <2>5. \A g \in gradings' : CommittedAs(Bundle(g.saw), g.candidate.tree)' \/ g.written
    BY <2>4 DEF RecordInv, CommittedAs
  <2> QED BY <2>2, <2>4, <2>5 DEF RecordInv, RecordOfCandidate, PassedWasGraded, Prepared
<1>5. CASE Working /\ ~GraderRuns /\ ~FinalizeGraded /\ ~FinalizeInfrastructure
  <2>1. UNCHANGED <<gradings, record>>
    BY <1>5 DEF Working, AgentRuns, LateWrite, Begin, Recompute, ReadFile, StageFile, GitRaises, Unreadable,
                Inspected, CommitCandidate, Changed, Refuse, FreezeAgain, Freeze, Invoke, InspectDelta, FinalizeRaises
  <2>2. job.stage \in Prepared /\ job'.stage \in Prepared
    BY <1>5, WorkingStages
  <2> QED BY <2>1, <2>2, <1>0
<1>8. CASE UNCHANGED vars
  BY <1>8 DEF vars, RecordInv, RecordOfCandidate, PassedWasGraded, CommittedAs
<1> QED BY <1>1, <1>2, <1>3, <1>4, <1>5, <1>8 DEF Next, Working

\* RecordInv holds throughout.
LEMMA RecordHolds == Spec => []RecordInv
<1>1. Init => RecordInv
  BY DEF Init, RecordInv, RecordOfCandidate, PassedWasGraded
<1> QED BY <1>1, RecordStep, TypeCorrect, ReadHolds, PTL DEF Spec

\* What a run record judges is what was inspected when the candidate it names
\* was frozen, and the candidate is what Git made of it, unless the workspace was
\* written to during the call that made it (finalize_graded_evaluation_session()).
THEOREM RecordOfCandidateCorrect == Spec => []RecordOfCandidate
BY RecordHolds, PTL DEF RecordInv

\* A passed record rests on a grader run of its candidate that passed and that
\* looked at it, unless the workspace was written to meanwhile.
THEOREM PassedWasGradedCorrect == Spec => []PassedWasGraded
BY RecordHolds, PTL DEF RecordInv

------------------------------------------------------------------------------

\* There were n late writes.
AtLeast(n) == late.count >= n

\* Is the blob of path p nothing that Git could have made of this content?
Torn(p, content, blob) == blob \notin CheckIns(git.met, p, content)

(* Late writes there must have been on path p of a first freeze, with b    *)
(* what was inspected of it, t what was committed, g what was read or      *)
(* staged of it just now and w what is there.                              *)
Freezing(p) ==
  LET b == job.before[p]
      t == job.candidate.tree[p]
      g == job.got[p]
      w == workspace[p]
  IN /\ job.stage = "before" /\ p \notin job.todo /\ w # g => AtLeast(1)
     /\ job.stage = "stage" =>
          /\ w # b => AtLeast(1)
          /\ p \notin job.todo /\ Torn(p, b, g) => AtLeast(1) /\ (Torn(p, w, g) => AtLeast(2))
     /\ job.stage = "after" /\ Torn(p, b, t) =>
          /\ AtLeast(1) /\ (Torn(p, w, t) => AtLeast(2))
          /\ p \notin job.todo /\ g = b => AtLeast(2) /\ (w # b => AtLeast(3))

(* The same of the confirming freeze, with b and t what the first freeze   *)
(* inspected and committed.                                                *)
Confirming(first, p) ==
  LET b == first[p]
      t == job.first.candidate.tree[p]
      g == job.got[p]
      w == workspace[p]
  IN Torn(p, b, t) =>
     /\ AtLeast(2) /\ (w # b => AtLeast(3))
     /\ job.stage = "stage" /\ p \notin job.todo /\ g = t => AtLeast(3) /\ (Torn(p, w, t) => AtLeast(4))
     /\ job.stage = "after" /\ job.candidate.tree[p] = t =>
          /\ AtLeast(3) /\ (Torn(p, w, t) => AtLeast(4))
          /\ p \notin job.todo /\ g = b => AtLeast(4)

(* No freeze tears a path with fewer late writes than that.                *)
FreezeInv ==
  /\ late.count <= MaxLate
  /\ job.call \in {"freeze", "confirm"} => job.stage \in {"before", "stage", "after"}
  /\ job.call = "freeze" => \A p \in Paths : Freezing(p)
  /\ job.call = "confirm" =>
       /\ job.first \in Evidences /\ job.first.candidate.parent = Base.tree
       /\ \A first \in Tree : job.first.bundle = Bundle(first) => \A p \in Paths : Confirming(first, p)

\* Nothing is asked of late writes while no freeze is under way.
LEMMA FreezeRest ==
  ASSUME TypeOK, FreezeInv, late'.count <= MaxLate, job'.call \notin {"freeze", "confirm"}
  PROVE  FreezeInv'
BY DEF FreezeInv

\* A late write changes one path, and counts.
LEMMA FreezeLate ==
  ASSUME TypeOK, FreezeInv, LateWrite
  PROVE  FreezeInv'
<1>1. PICK q \in Paths, c \in Contents \union {None} :
        workspace' = [workspace EXCEPT ![q] = c] /\ \E u : job' = [job EXCEPT !.touched = u]
  BY DEF LateWrite
<1>2. /\ job'.stage = job.stage /\ job'.call = job.call /\ job'.todo = job.todo /\ job'.got = job.got
      /\ job'.before = job.before /\ job'.candidate = job.candidate /\ job'.first = job.first
  BY <1>1, MoveFields DEF JobOf
<1>3. late'.count = late.count + 1 /\ late.count \in Nat /\ late'.count <= MaxLate
  BY BoundsAssumption DEF LateWrite, TypeOK
<1>4. workspace \in Tree
  BY DEF LateWrite, TypeOK, Prepared, Reading, Scans
<1>5. \A n \in 1..3 : AtLeast(n) => AtLeast(n)' /\ AtLeast(n + 1)'
  BY <1>3 DEF AtLeast
<1>6. AtLeast(1)' /\ (AtLeast(4) => AtLeast(4)')
  BY <1>3 DEF AtLeast
<1>7. ASSUME NEW p \in Paths PROVE p = q \/ workspace'[p] = workspace[p]
  BY <1>1, <1>4, <1>7 DEF Tree
<1>8. /\ AtLeast(1) => AtLeast(1)' /\ AtLeast(2)'
      /\ AtLeast(2) => AtLeast(2)' /\ AtLeast(3)'
      /\ AtLeast(3) => AtLeast(3)' /\ AtLeast(4)'
  BY <1>3 DEF AtLeast
<1>11. \A p, x, blob : Torn(p, x, blob)' <=> Torn(p, x, blob)
  BY DEF Torn, LateWrite
<1>9. ASSUME NEW p \in Paths, Freezing(p) PROVE Freezing(p)'
  BY <1>2, <1>6, <1>7, <1>8, <1>9, <1>11 DEF Freezing
<1>10. ASSUME NEW p \in Paths, NEW first \in Tree, Confirming(first, p) PROVE Confirming(first, p)'
  BY <1>2, <1>6, <1>7, <1>8, <1>10, <1>11 DEF Confirming
<1> QED BY <1>2, <1>3, <1>9, <1>10 DEF FreezeInv

\* A reading sees what is there.
LEMMA FreezeRead ==
  ASSUME TypeOK, FreezeInv, ReadFile, job' # Between
  PROVE  FreezeInv'
<1>1. PICK q \in job.todo :
        job' = JobOf(job.stage, job.call, job.todo \ {q}, [job.got EXCEPT ![q] = workspace[q]],
                     job.before, job.candidate, job.first, job.touched)
  BY ReadMove
<1>2. /\ job'.stage = job.stage /\ job'.call = job.call
      /\ job'.todo = job.todo \ {q} /\ job'.got = [job.got EXCEPT ![q] = workspace[q]]
      /\ job'.before = job.before /\ job'.candidate = job.candidate /\ job'.first = job.first
  BY <1>1 DEF JobOf
<1>3. UNCHANGED <<workspace, git, late>> /\ job.got \in Tree /\ job.stage \in Scans
  BY DEF ReadFile, TypeOK, Jobs
<1>4. \A n : AtLeast(n)' = AtLeast(n)
  BY <1>3 DEF AtLeast
<1>5. ASSUME NEW p \in Paths
      PROVE  \/ p = q /\ job'.got[p] = workspace[p]
             \/ p # q /\ job'.got[p] = job.got[p] /\ (p \in job'.todo <=> p \in job.todo)
  <2>1. CASE p = q
    BY <2>1, <1>2, <1>3 DEF Tree
  <2>2. CASE p # q
    <3>1. job'.got[p] = job.got[p]
      BY <2>2, <1>2, <1>3 DEF Tree
    <3>2. p \in job'.todo <=> p \in job.todo
      BY <2>2, <1>2
    <3> QED BY <2>2, <3>1, <3>2
  <2> QED BY <2>1, <2>2
<1>8. \A p, c, blob : Torn(p, c, blob)' <=> Torn(p, c, blob)
  BY <1>3 DEF Torn
<1>6. ASSUME NEW p \in Paths, Freezing(p) PROVE Freezing(p)'
  BY <1>2, <1>3, <1>4, <1>5, <1>6, <1>8 DEF Freezing, Scans
<1>7. ASSUME NEW p \in Paths, NEW first \in Tree, Confirming(first, p) PROVE Confirming(first, p)'
  BY <1>2, <1>3, <1>4, <1>5, <1>7, <1>8 DEF Confirming, Scans
<1> QED BY <1>2, <1>3, <1>6, <1>7 DEF FreezeInv

\* What is staged is what Git made of what is there.
LEMMA FreezeStage ==
  ASSUME TypeOK, FreezeInv, StageFile
  PROVE  FreezeInv'
<1>1. PICK q \in job.todo, x \in Contents \union {None} :
        /\ x \in CheckIns(git'.met, q, workspace[q])
        /\ job' = JobOf(job.stage, job.call, job.todo \ {q}, [job.got EXCEPT ![q] = x],
                        job.before, job.candidate, job.first, job.touched)
  BY StageMove
<1>2. /\ job'.stage = job.stage /\ job'.call = job.call
      /\ job'.todo = job.todo \ {q} /\ job'.got = [job.got EXCEPT ![q] = x]
      /\ job'.before = job.before /\ job'.candidate = job.candidate /\ job'.first = job.first
  BY <1>1 DEF JobOf
<1>3. UNCHANGED <<workspace, late>> /\ job.got \in Tree /\ job.stage = "stage"
  BY DEF StageFile, At, TypeOK, Jobs
<1>4. \A n : AtLeast(n)' = AtLeast(n)
  BY <1>3 DEF AtLeast
<1>5. \A p, c, blob : Torn(p, c, blob)' => Torn(p, c, blob)
  <2>1. git.met \subseteq git'.met
    BY StageFacts
  <2>2. \A p, c : CheckIns(git.met, p, c) \subseteq CheckIns(git'.met, p, c)
    BY <2>1, CheckInsGrow
  <2> QED BY <2>2 DEF Torn
<1>6. ASSUME NEW p \in Paths
      PROVE  \/ p = q /\ job'.got[p] = x /\ ~Torn(p, workspace[p], x)'
             \/ p # q /\ job'.got[p] = job.got[p] /\ (p \in job'.todo <=> p \in job.todo)
  <2>1. CASE p = q
    <3>1. job'.got[p] = x
      BY <2>1, <1>2, <1>3 DEF Tree
    <3>2. ~Torn(p, workspace[p], x)'
      BY <2>1, <1>1, <1>3 DEF Torn
    <3> QED BY <2>1, <3>1, <3>2
  <2>2. CASE p # q
    <3>1. job'.got[p] = job.got[p]
      BY <2>2, <1>2, <1>3 DEF Tree
    <3>2. p \in job'.todo <=> p \in job.todo
      BY <2>2, <1>2
    <3> QED BY <2>2, <3>1, <3>2
  <2> QED BY <2>1, <2>2
<1>7. ASSUME NEW p \in Paths, Freezing(p) PROVE Freezing(p)'
  BY <1>2, <1>3, <1>4, <1>5, <1>6, <1>7 DEF Freezing
<1>8. ASSUME NEW p \in Paths, NEW first \in Tree, Confirming(first, p) PROVE Confirming(first, p)'
  BY <1>2, <1>3, <1>4, <1>5, <1>6, <1>8 DEF Confirming
<1> QED BY <1>2, <1>3, <1>7, <1>8 DEF FreezeInv

\* What the first inspection saw is there, or was written to.
LEMMA FreezeInspected ==
  ASSUME TypeOK, FreezeInv, Inspected
  PROVE  FreezeInv'
<1>1. /\ job'.stage = "stage" /\ job'.call = job.call /\ job'.todo = Paths /\ job'.before = job.got
      /\ job'.first = job.first
  BY InspectedMove DEF JobOf
<1>2. UNCHANGED <<workspace, git, late>> /\ job.stage = "before" /\ job.todo = {}
  BY DEF Inspected, At
<1>3. \A n : AtLeast(n)' = AtLeast(n)
  BY <1>2 DEF AtLeast
<1>6. \A p, c, blob : Torn(p, c, blob)' <=> Torn(p, c, blob)
  BY <1>2 DEF Torn
<1>4. ASSUME NEW p \in Paths, Freezing(p) PROVE Freezing(p)'
  BY <1>1, <1>2, <1>3, <1>4, <1>6 DEF Freezing
<1>5. ASSUME NEW p \in Paths, NEW first \in Tree, Confirming(first, p) PROVE Confirming(first, p)'
  BY <1>1, <1>2, <1>3, <1>5, <1>6 DEF Confirming
<1> QED BY <1>1, <1>2, <1>4, <1>5 DEF FreezeInv

\* What was committed is there, or was written to.
LEMMA FreezeCommit ==
  ASSUME TypeOK, FreezeInv, CommitCandidate
  PROVE  FreezeInv'
<1>1. /\ job'.stage = "after" /\ job'.call = job.call /\ job'.todo = Present(workspace) /\ job'.got = Empty
      /\ job'.before = job.before /\ job'.candidate.tree = job.got /\ job'.first = job.first
  BY CommitMove DEF JobOf
<1>2. UNCHANGED <<workspace, git, late>> /\ job.stage = "stage" /\ job.todo = {}
  BY DEF CommitCandidate, At
<1>7. \A p, c, blob : Torn(p, c, blob)' <=> Torn(p, c, blob)
  BY <1>2 DEF Torn
<1>3. \A n : AtLeast(n)' = AtLeast(n)
  BY <1>2 DEF AtLeast
<1>4. ASSUME NEW p \in Paths, p \notin job'.todo PROVE job'.got[p] = workspace[p]
  BY <1>1, <1>4 DEF Present, Empty
<1>5. ASSUME NEW p \in Paths, Freezing(p) PROVE Freezing(p)'
  BY <1>1, <1>2, <1>3, <1>4, <1>5, <1>7 DEF Freezing
<1>6. ASSUME NEW p \in Paths, NEW first \in Tree, Confirming(first, p) PROVE Confirming(first, p)'
  BY <1>1, <1>2, <1>3, <1>4, <1>6, <1>7 DEF Confirming
<1> QED BY <1>1, <1>2, <1>5, <1>6 DEF FreezeInv

\* A second inspection like the first leaves a torn path two late writes.
LEMMA FreezeConfirms ==
  ASSUME TypeOK, ReadInv, FreezeInv, FreezeAgain
  PROVE  FreezeInv'
<1>1. job' = Fresh("before", "confirm", Evidence)
  BY FreshFields DEF FreezeAgain
<1>2. job'.stage = "before" /\ job'.call = "confirm" /\ job'.first = Evidence
  BY <1>1, FreshFacts
<1>3. /\ UNCHANGED <<workspace, git, late>> /\ job.stage = "after" /\ job.todo = {} /\ job.got = job.before
      /\ job.call = "freeze"
  BY DEF FreezeAgain, Unchanged, At
<1>4. Evidence \in Evidences /\ Evidence.candidate = job.candidate /\ Evidence.bundle = Bundle(job.before)
  BY <1>3, EvidenceType DEF Evidence
<1>5. job.candidate.parent = Base.tree
  BY <1>3 DEF ReadInv
<1>6. \A n : AtLeast(n)' = AtLeast(n)
  BY <1>3 DEF AtLeast
<1>8. \A p, c, blob : Torn(p, c, blob)' <=> Torn(p, c, blob)
  BY <1>3 DEF Torn
<1>7. ASSUME NEW first \in Tree, job'.first.bundle = Bundle(first), NEW p \in Paths PROVE Confirming(first, p)'
  <2>1. first = job.before
    BY <1>2, <1>4, <1>7, BundleInjective DEF TypeOK, Jobs
  <2>2. Freezing(p)
    BY <1>3 DEF FreezeInv
  <2> QED BY <1>2, <1>3, <1>4, <1>6, <1>8, <2>1, <2>2 DEF Freezing, Confirming
<1> QED BY <1>2, <1>3, <1>4, <1>5, <1>7 DEF FreezeInv

\* A freeze begins with nothing read.
LEMMA FreezeBegins ==
  ASSUME TypeOK, FreezeInv, NEW call \in {"freeze", "invoke", "finalize", "infrastructure"}, Begin(call)
  PROVE  FreezeInv'
<1>1. job' = Fresh("before", call, None)
  BY FreshFields DEF Begin
<1>2. job'.stage = "before" /\ job'.call = call /\ job'.todo = Present(workspace) /\ job'.got = Empty
  BY <1>1, FreshFacts
<1>3. UNCHANGED workspace /\ late'.count = late.count
  BY DEF Begin, TypeOK
<1>4. ASSUME NEW p \in Paths PROVE Freezing(p)'
  BY <1>2, <1>3, <1>4 DEF Freezing, Present, Empty
<1> QED BY <1>2, <1>3, <1>4 DEF FreezeInv

\* FreezeInv is inductive, relative to TypeOK and ReadInv.
LEMMA FreezeStep == TypeOK /\ ReadInv /\ FreezeInv /\ [Next]_vars => FreezeInv'
<1> SUFFICES ASSUME TypeOK, ReadInv, FreezeInv, [Next]_vars PROVE FreezeInv'
  OBVIOUS
<1>1. CASE Prepare \/ Crash \/ Dispose
  <2>1. /\ UNCHANGED late /\ job.stage \in {"new"} \union Preparing
        /\ job'.call \in {"none", "prepare", job.call}
    BY <1>1, PreparingStages
  <2>2. job'.call \notin {"freeze", "confirm"} /\ late'.count <= MaxLate
    BY <2>1 DEF FreezeInv, Preparing
  <2> QED BY <2>2, FreezeRest
<1>2. CASE AgentRuns
  <2>1. job.stage = "agent" /\ job'.call = job.call /\ UNCHANGED late
    BY <1>2, MoveFields DEF AgentRuns, At, JobOf
  <2>2. job'.call \notin {"freeze", "confirm"} /\ late'.count <= MaxLate
    BY <2>1 DEF FreezeInv
  <2> QED BY <2>2, FreezeRest
<1>3. ASSUME job' = Between, UNCHANGED late PROVE FreezeInv'
  BY <1>3, RestType, FreezeRest DEF FreezeInv
<1>4. CASE GraderRuns \/ Unreadable \/ GitRaises \/ Changed \/ Refuse \/ Freeze \/ FinalizeRaises
  BY <1>4, <1>3 DEF GraderRuns, Unreadable, GitRaises, Changed, Refuse, Freeze, FinalizeRaises
<1>5. CASE LateWrite
  BY <1>5, FreezeLate
<1>6. ASSUME NEW call \in {"freeze", "invoke", "finalize", "infrastructure"}, Begin(call) PROVE FreezeInv'
  BY <1>6, FreezeBegins
<1>7. CASE ReadFile
  BY <1>7, <1>3, FreezeRead DEF ReadFile
<1>14. CASE StageFile
  BY <1>14, FreezeStage
<1>8. CASE Inspected
  BY <1>8, FreezeInspected
<1>9. CASE CommitCandidate
  BY <1>9, FreezeCommit
<1>10. CASE FreezeAgain
  BY <1>10, FreezeConfirms
<1>11. CASE InspectDelta
  <2>1. job' = Fresh("delta", "finalize", None) /\ UNCHANGED late
    BY <1>11, FreshFields DEF InspectDelta
  <2>2. job'.call = "finalize" /\ late'.count <= MaxLate
    BY <2>1, FreshFacts DEF FreezeInv
  <2> QED BY <2>2, FreezeRest
<1>12. CASE Invoke \/ FinalizeGraded \/ FinalizeInfrastructure
  <2>1. /\ UNCHANGED late
        /\ job' \in {[Between EXCEPT !.stage = "grading"], [Between EXCEPT !.stage = "done"]}
    BY <1>12 DEF Invoke, FinalizeGraded, FinalizeInfrastructure
  <2>2. "grading" \in Stages /\ "done" \in Stages
    BY DEF Stages, Prepared
  <2>3. job'.call = "none" /\ late'.count <= MaxLate
    BY <2>1, <2>2, RestType DEF FreezeInv
  <2> QED BY <2>3, FreezeRest
<1>13. CASE UNCHANGED vars
  BY <1>13 DEF vars, FreezeInv, Freezing, Confirming, AtLeast, Torn
<1> QED
  BY <1>1, <1>2, <1>4, <1>5, <1>6, <1>7, <1>8, <1>9, <1>10, <1>11, <1>12, <1>13, <1>14 DEF Next, Recompute

\* FreezeInv holds throughout.
LEMMA FreezeHolds == Spec => []FreezeInv
<1>1. Init => FreezeInv
  BY RestType, BoundsAssumption DEF Init, FreezeInv
<1> QED BY <1>1, FreezeStep, TypeCorrect, ReadHolds, PTL DEF Spec

\* A confirmed freeze with a torn path took four late writes.
LEMMA FrozenStep ==
  ASSUME MaxLate <= 3, TypeOK, FreezeInv, RecordInv, FrozenConsistent, [Next]_vars
  PROVE  FrozenConsistent'
<1>1. CASE Freeze
  <2>1. /\ job.stage = "after" /\ job.call = "confirm" /\ job.todo = {} /\ job.got = job.before
        /\ Evidence = job.first /\ frozen' = job.first /\ UNCHANGED git
    BY <1>1 DEF Freeze, Confirmed, Unchanged, At
  <2>2. /\ job.before \in Tree /\ job.candidate.tree \in Tree
        /\ git.met \in SUBSET (Contents \union {None})
    BY <2>1 DEF TypeOK, Jobs, Commit, Gits, Prepared, Reading, Scans
  <2>3. job.first.bundle = Bundle(job.before) /\ job.first.candidate = job.candidate
    BY <2>1 DEF Evidence
  <2>4. ASSUME NEW p \in Paths, Torn(p, job.before[p], job.candidate.tree[p]) PROVE FALSE
    <3>1. Confirming(job.before, p)
      BY <2>1, <2>2, <2>3 DEF FreezeInv
    <3>2. AtLeast(4)
      BY <3>1, <2>1, <2>3, <2>4 DEF Confirming
    <3> QED BY <3>2, BoundsAssumption DEF AtLeast, FreezeInv, TypeOK
  <2>5. Made(git.met, job.before, job.candidate.tree)
    BY <2>4 DEF Made, Torn
  <2>6. CommittedAs(Bundle(job.before), job.candidate.tree)
    BY <2>2, <2>5, MadeCommitted
  <2>7. CommittedAs(frozen.bundle, frozen.candidate.tree)'
    BY <2>1, <2>3, <2>6 DEF CommittedAs
  <2> QED BY <2>1, <2>7 DEF FrozenConsistent, FreezeInv
<1>2. CASE Prepare \/ Crash \/ Dispose
  <2>1. UNCHANGED frozen /\ job.stage \in {"new"} \union Preparing
    BY <1>2, PreparingStages
  <2>2. frozen = None
    BY <2>1 DEF RecordInv, Preparing, Prepared, Reading, Scans
  <2> QED BY <2>1, <2>2 DEF FrozenConsistent
<1>3. ASSUME UNCHANGED frozen, frozen # None PROVE FrozenConsistent'
  <2>1. git.met \subseteq git'.met
    BY <1>3, MetGrows DEF RecordInv
  <2>2. CommittedAs(frozen.bundle, frozen.candidate.tree)'
    BY <1>3, <2>1, CommittedGrows DEF FrozenConsistent, CommittedAs
  <2> QED BY <1>3, <2>2 DEF FrozenConsistent
<1>4. CASE UNCHANGED vars
  BY <1>4, <1>3 DEF vars, FrozenConsistent
<1>5. CASE Next /\ ~Freeze /\ ~(Prepare \/ Crash \/ Dispose)
  <2>1. UNCHANGED frozen
    BY <1>5 DEF Next, AgentRuns, GraderRuns, LateWrite, Begin, Recompute, ReadFile, StageFile, GitRaises,
                Unreadable, Inspected,
                CommitCandidate, Changed, Refuse, FreezeAgain, Invoke, InspectDelta, FinalizeGraded,
                FinalizeRaises, FinalizeInfrastructure
  <2> QED BY <2>1, <1>3 DEF FrozenConsistent
<1> QED BY <1>1, <1>2, <1>4, <1>5

\* With at most three late writes, the commit freeze_evaluation_session() returns
\* holds what Git made of what the inspection beside it describes, a child of the
\* baseline; without attributes in the workspace, these are the very bytes.
THEOREM FrozenConsistentCorrect ==
  ASSUME MaxLate <= 3
  PROVE  Spec => []FrozenConsistent
<1>1. Init => FrozenConsistent
  BY DEF Init, FrozenConsistent
<1>2. TypeOK /\ FreezeInv /\ RecordInv /\ FrozenConsistent /\ [Next]_vars => FrozenConsistent'
  BY FrozenStep
<1> QED BY <1>1, <1>2, TypeCorrect, FreezeHolds, RecordHolds, PTL DEF Spec

------------------------------------------------------------------------------
(* Campaigns: what was checked in, and what a suite accepted of it.        *)
Loaded ==
  /\ catalog \in Catalogs /\ disk \in Disks /\ plan \in Plans
  /\ suite # None => SuiteLoads(catalog, disk) /\ PlanAccepted(plan) /\ suite = SuiteOf(catalog, disk)

\* A campaign changes neither what is checked in nor the suite it loaded.
LEMMA CampaignKeeps ==
  ASSUME [CampaignNext]_campaignVars
  PROVE  /\ UNCHANGED <<catalog, disk, plan>>
         /\ suite # None => suite' = suite
<1>1. ASSUME NEW cell \in Cells(plan), FinishGraded(cell) PROVE UNCHANGED <<catalog, disk, plan, suite>>
  BY <1>1 DEF FinishGraded, Supply
<1>2. ASSUME NEW cell \in Cells(plan), FinishInfrastructure(cell) PROVE UNCHANGED <<catalog, disk, plan, suite>>
  BY <1>2 DEF FinishInfrastructure, Supply
<1>3. CASE Load
  BY <1>3 DEF Load
<1>4. CASE UNCHANGED campaignVars
  BY <1>4 DEF campaignVars
<1> QED BY <1>1, <1>2, <1>3, <1>4 DEF CampaignNext

\* Loaded holds throughout a campaign.
LEMMA LoadedHolds == CampaignSpec => []Loaded
<1>1. CampaignInit => Loaded
  BY DEF CampaignInit, Loaded
<1>2. Loaded /\ [CampaignNext]_campaignVars => Loaded'
  <2> SUFFICES ASSUME Loaded, [CampaignNext]_campaignVars PROVE Loaded'
    OBVIOUS
  <2>1. CASE suite # None
    BY <2>1, CampaignKeeps DEF Loaded
  <2>2. CASE Load
    BY <2>2 DEF Load, Loaded
  <2>3. CASE suite = None /\ ~Load
    <3>1. suite' = suite
      BY <2>3 DEF CampaignNext, campaignVars, FinishGraded, FinishInfrastructure, Open
    <3> QED BY <2>3, <3>1, CampaignKeeps DEF Loaded
  <2> QED BY <2>1, <2>2, <2>3
<1> QED BY <1>1, <1>2, PTL DEF CampaignSpec

\* The only member of a set is the one that is chosen.
LEMMA SoleIs ==
  ASSUME NEW S, Sole(S)
  PROVE  The(S) \in S /\ \A x \in S : x = The(S)
BY DEF Sole, The

\* A cell of an accepted plan has one arm.
LEMMA ArmOfCell ==
  ASSUME NEW p, PlanAccepted(p), NEW cell \in Cells(p)
  PROVE  Sole(Arms(p, cell)) /\ The(Arms(p, cell)) \in p.arms /\ The(Arms(p, cell)).id = cell.arm
<1>1. PICK a \in p.arms : a.id = cell.arm
  BY DEF Cells
<1>2. Arms(p, cell) = {a}
  BY <1>1 DEF Arms, PlanAccepted
<1>3. The(Arms(p, cell)) = a
  BY <1>2 DEF The
<1> QED BY <1>1, <1>2, <1>3 DEF Sole

\* The tasks of a loaded suite are finitely many, each of an accepted entry.
LEMMA SuiteTasks ==
  ASSUME Loaded, suite # None
  PROVE  /\ IsFiniteSet(suite.tasks)
         /\ \A t \in suite.tasks : \E e \in catalog.entries : t = SuiteTask(e, disk) /\ TaskLoads(e, disk)
<1> DEFINE f == [e \in catalog.entries |-> SuiteTask(e, disk)]
<1>1. suite.tasks = {SuiteTask(e, disk) : e \in catalog.entries}
  BY DEF Loaded, SuiteOf
<1>2. f \in Surjection(catalog.entries, suite.tasks)
  BY <1>1 DEF Surjection
<1>3. IsFiniteSet(catalog.entries)
  BY CampaignAssumption DEF Loaded
<1>4. IsFiniteSet(suite.tasks)
  <2> HIDE DEF f
  <2> QED BY <1>2, <1>3, FS_Surjection
<1>5. \A e \in catalog.entries : TaskLoads(e, disk)
  BY DEF Loaded, SuiteLoads
<1> QED BY <1>1, <1>4, <1>5

\* A request that the plan and the suite agree on is built: what it checks
\* again of the task was settled when the suite was loaded.
LEMMA RequestOfTask ==
  ASSUME Loaded, suite # None, NEW cell \in Cells(plan), plan.suite = suite.id,
         plan.tasks \subseteq {t.entry.task : t \in suite.tasks},
         ~(Cardinality(Tasks(suite, cell)) > 1),
         \A t \in Tasks(suite, cell) :
           t.manifest.trials = plan.trials /\ t.manifest.profile = plan.profile /\ RequestFits(t)
  PROVE  RequestBuilds(plan, suite, cell)
<1>1. Sole(Arms(plan, cell)) /\ cell.task \in plan.tasks /\ cell.trial \in 1..plan.trials
  BY ArmOfCell DEF Loaded, Cells
<1>2. Sole(Tasks(suite, cell))
  <2>1. Tasks(suite, cell) # {}
    BY <1>1 DEF Tasks
  <2>2. Tasks(suite, cell) \in SUBSET suite.tasks
    BY DEF Tasks
  <2>3. IsFiniteSet(Tasks(suite, cell))
    BY <2>2, SuiteTasks, FS_Subset
  <2>4. Cardinality(Tasks(suite, cell)) = 1
    BY <2>1, <2>3, FS_CardinalityType, FS_EmptySet
  <2>5. \E t : Tasks(suite, cell) = {t}
    BY <2>3, <2>4, FS_Singleton
  <2> QED BY <2>5 DEF Sole
<1> DEFINE t == The(Tasks(suite, cell))
<1>3. t \in Tasks(suite, cell)
  BY <1>2, SoleIs
<1> HIDE DEF t
<1>4. PICK e \in catalog.entries : t = SuiteTask(e, disk) /\ TaskLoads(e, disk)
  BY <1>3, SuiteTasks DEF Tasks
<1>5. /\ t.manifest.trials = plan.trials /\ t.manifest.profile = plan.profile
      /\ <<t.manifest.task, t.manifest.version, t.manifest>> = <<t.entry.task, t.entry.version, t.entry.manifest>>
      /\ t.manifest.fixture = t.fixture /\ RequestFits(t)
  BY <1>3, <1>4 DEF TaskLoads, SuiteTask
<1>6. (t.manifest.authorization # None) = (t.manifest.tier = "protected")
  BY <1>4 DEF TaskLoads, TaskAccepted, SuiteTask
<1> QED BY <1>1, <1>2, <1>5, <1>6 DEF RequestBuilds, t

\* What an accepted suite is refused for later is the plan's, a task the suite
\* has twice, or a list of files that a request has no room for
\* (build_agent_trial_request() after load_evaluation_suite()).
THEOREM RefusalExplainedCorrect == CampaignSpec => []RefusalExplained
<1>1. Loaded => RefusalExplained
  BY RequestOfTask DEF RefusalExplained
<1> QED BY <1>1, LoadedHolds, PTL

------------------------------------------------------------------------------
(* Records of a campaign: what the assembler makes of accepted evidence.   *)

\* The fields every run record has from its request and its observation.
FromCell(r, q, c) ==
  /\ r.runId = RunId(q) /\ r.task = q.task /\ r.trial = q.trial
  /\ r.execution = q.arm.execution /\ r.foundation = q.plan.suite /\ r.candidate = c

FromObservation(r, o) ==
  /\ r.elapsed = o.elapsed /\ r.iterations = o.iterations /\ r.unresolved = o.unresolved
  /\ r.requests = o.requests /\ r.confirmed = o.confirmed /\ r.false = o.false
  /\ r.api = o.api /\ r.minutes = o.minutes /\ r.cost = o.cost
  /\ r.wellFormed <=> o.wellFormed

\* The fields of a graded record.
LEMMA GradedFields ==
  ASSUME NEW p, NEW s, NEW q, NEW d, NEW res, NEW c, NEW o
  PROVE  LET r == GradedRecord(p, s, q, d, res, c, o)
             failure == FailureClass(p, q, d, res, o)
         IN /\ FromCell(r, q, c) /\ FromObservation(r, o)
            /\ r.checks = {GraderCheck(s, res, c)} \union o.checks /\ r.count = 1 + Cardinality(o.checks)
            /\ r.failure = failure /\ r.violations = Cardinality(d.violations)
            /\ r.success <=> failure = None
            /\ r.firstPass <=> failure = None /\ o.iterations = 1
            /\ r.escapes = IF res.outcome = "passed" THEN 0 ELSE 1
            /\ r.outcome = IF failure = None THEN "passed" ELSE "failed"
<1> DEFINE r == GradedRecord(p, s, q, d, res, c, o)
<1>1. FromCell(r, q, c)
  BY DEF GradedRecord, Extend, BaseRecord, FromCell
<1>5. FromObservation(r, o)
  <2>1. r.wellFormed <=> o.wellFormed
    BY DEF GradedRecord, Extend, BaseRecord
  <2>2. /\ r.elapsed = o.elapsed /\ r.iterations = o.iterations /\ r.unresolved = o.unresolved
        /\ r.requests = o.requests /\ r.confirmed = o.confirmed /\ r.false = o.false
        /\ r.api = o.api /\ r.minutes = o.minutes /\ r.cost = o.cost
    BY DEF GradedRecord, Extend, BaseRecord
  <2> HIDE DEF r
  <2> QED BY <2>1, <2>2 DEF FromObservation
<1>2. /\ r.checks = {GraderCheck(s, res, c)} \union o.checks /\ r.count = 1 + Cardinality(o.checks)
      /\ r.failure = FailureClass(p, q, d, res, o) /\ r.violations = Cardinality(d.violations)
      /\ r.escapes = IF res.outcome = "passed" THEN 0 ELSE 1
      /\ r.outcome = IF FailureClass(p, q, d, res, o) = None THEN "passed" ELSE "failed"
  BY DEF GradedRecord, Extend, BaseRecord
<1>3. r.success <=> FailureClass(p, q, d, res, o) = None
  BY DEF GradedRecord, Extend, BaseRecord
<1>4. r.firstPass <=> FailureClass(p, q, d, res, o) = None /\ o.iterations = 1
  BY DEF GradedRecord, Extend, BaseRecord
<1> HIDE DEF r
<1>6. /\ FromCell(r, q, c) /\ FromObservation(r, o)
      /\ r.checks = {GraderCheck(s, res, c)} \union o.checks /\ r.count = 1 + Cardinality(o.checks)
      /\ r.failure = FailureClass(p, q, d, res, o) /\ r.violations = Cardinality(d.violations)
      /\ r.success <=> FailureClass(p, q, d, res, o) = None
      /\ r.firstPass <=> FailureClass(p, q, d, res, o) = None /\ o.iterations = 1
      /\ r.escapes = IF res.outcome = "passed" THEN 0 ELSE 1
      /\ r.outcome = IF FailureClass(p, q, d, res, o) = None THEN "passed" ELSE "failed"
  BY <1>1, <1>2, <1>3, <1>4, <1>5
<1> QED BY <1>6 DEF r

\* The fields of an infrastructure record.
LEMMA InfrastructureFields ==
  ASSUME NEW q, NEW c, NEW o
  PROVE  LET r == InfrastructureRecord(q, c, o)
         IN /\ FromCell(r, q, c) /\ FromObservation(r, o)
            /\ r.checks = o.checks /\ r.count = Cardinality(o.checks)
            /\ r.failure = "infrastructure" /\ r.violations = 0 /\ r.escapes = 0
            /\ ~r.success /\ ~r.firstPass /\ r.outcome = "infra_error"
<1> DEFINE r == InfrastructureRecord(q, c, o)
<1>1. FromCell(r, q, c)
  BY DEF InfrastructureRecord, Extend, BaseRecord, FromCell
<1>2. FromObservation(r, o)
  <2>1. r.wellFormed <=> o.wellFormed
    BY DEF InfrastructureRecord, Extend, BaseRecord
  <2>2. /\ r.elapsed = o.elapsed /\ r.iterations = o.iterations /\ r.unresolved = o.unresolved
        /\ r.requests = o.requests /\ r.confirmed = o.confirmed /\ r.false = o.false
        /\ r.api = o.api /\ r.minutes = o.minutes /\ r.cost = o.cost
    BY DEF InfrastructureRecord, Extend, BaseRecord
  <2> HIDE DEF r
  <2> QED BY <2>1, <2>2 DEF FromObservation
<1>3. /\ r.checks = o.checks /\ r.count = Cardinality(o.checks)
      /\ r.failure = "infrastructure" /\ r.violations = 0 /\ r.escapes = 0
      /\ ~r.success /\ ~r.firstPass /\ r.outcome = "infra_error"
  BY DEF InfrastructureRecord, Extend, BaseRecord
<1> HIDE DEF r
<1>4. /\ FromCell(r, q, c) /\ FromObservation(r, o)
      /\ r.checks = o.checks /\ r.count = Cardinality(o.checks)
      /\ r.failure = "infrastructure" /\ r.violations = 0 /\ r.escapes = 0
      /\ ~r.success /\ ~r.firstPass /\ r.outcome = "infra_error"
  BY <1>1, <1>2, <1>3
<1> QED BY <1>4 DEF r

\* Checks of different identities are counted by their identities.
LEMMA IdentitiesCount ==
  ASSUME NEW S, IsFiniteSet(S), \A c, d \in S : CheckIdentity(c) = CheckIdentity(d) => c = d
  PROVE  Cardinality({CheckIdentity(c) : c \in S}) = Cardinality(S)
<1> DEFINE T == {CheckIdentity(c) : c \in S}
           f == [c \in S |-> CheckIdentity(c)]
<1>1. f \in Surjection(S, T)
  BY DEF Surjection
<1>2. f \in Injection(S, T)
  BY DEF Injection, IsInjective
<1> HIDE DEF f, T
<1>3. Cardinality(T) = Cardinality(S)
  BY <1>1, <1>2, FS_Surjection
<1> QED BY <1>3 DEF T

\* A failure class is none of the empty ones, or None.
LEMMA FailureIs ==
  ASSUME NEW p, NEW q, NEW d, NEW res, NEW o, FailureClass(p, q, d, res, o) = None
  PROVE  /\ res.outcome = "passed" /\ o.unresolved = 0
         /\ \A c \in o.checks : c.required => c.conclusion = "success"
<1>1. EarlyFailure(d, res, o) = None
  BY DEF FailureClass
<1> QED BY <1>1, FailureAssumption DEF EarlyFailure

(* What the parser checks of how outcome, metrics and checks agree.        *)
Consistent(r) ==
  /\ r.firstPass => r.success /\ r.iterations = 1
  /\ IF r.outcome = "passed"
     THEN /\ r.success /\ r.failure = None /\ r.unresolved = 0
          /\ \E c \in r.checks : c.required
          /\ \A c \in r.checks : c.required => c.conclusion = "success"
     ELSE ~r.success /\ r.failure # None

\* A consistent record of a valid observation is refused for a bound, or
\* because it has fewer identities than checks.
LEMMA BoundsDecide ==
  ASSUME NEW o \in Observations, ObservationValid(o),
         NEW r, FromObservation(r, o), Consistent(r),
         r.violations \in Nat, r.escapes \in {0, 1}, \A c \in r.checks : c.head = r.candidate
  PROVE  RecordAccepted(r) <=>
           Bounded(r, o) /\ Cardinality({CheckIdentity(c) : c \in r.checks}) = r.count
<1>0. /\ o.elapsed \in Int /\ o.unresolved \in Int /\ o.requests \in Int /\ o.confirmed \in Int
      /\ o.false \in Int /\ o.iterations \in Int /\ o.api \in Int /\ o.minutes \in Int
  BY ObservationAssumption
<1>1. Limit.count \in Nat /\ Limit.count >= 1
  BY LimitAssumption
<1>2. /\ o.elapsed >= 0 /\ o.requests >= 0 /\ o.confirmed >= 0 /\ o.false >= 0
      /\ o.confirmed + o.false = o.requests
  BY DEF ObservationValid
<1>3. {r.violations, r.escapes, o.requests, o.confirmed, o.false, o.api} \subseteq 0..Limit.count
        <=> r.violations <= Limit.count /\ o.requests <= Limit.count /\ o.api \in 0..Limit.count
  <2>1. r.escapes \in 0..Limit.count
    BY <1>1
  <2>2. o.requests <= Limit.count => {o.requests, o.confirmed, o.false} \subseteq 0..Limit.count
    BY <1>0, <1>1, <1>2
  <2>3. r.violations \in 0..Limit.count <=> r.violations <= Limit.count
    BY <1>1
  <2>4. o.requests \in 0..Limit.count => o.requests <= Limit.count
    OBVIOUS
  <2> QED BY <2>1, <2>2, <2>3, <2>4
<1>4. o.elapsed \in 0..Limit.elapsed <=> o.elapsed <= Limit.elapsed
  BY <1>0, <1>2, LimitAssumption
<1>5. MetricsAccepted(r) <=>
        /\ o.elapsed <= Limit.elapsed /\ o.iterations \in 1..Limit.iterations
        /\ r.violations <= Limit.count /\ o.requests <= Limit.count /\ o.api \in 0..Limit.count
        /\ o.minutes \in 0..Limit.minutes
        /\ o.cost # None => o.cost \in 0..Limit.cost
  BY <1>3, <1>4 DEF FromObservation, MetricsAccepted
<1>6. ChecksAccepted(r) <=>
        /\ r.count <= Limit.checks /\ \A c \in r.checks : Len(c.source) <= Limit.source
        /\ Cardinality({CheckIdentity(c) : c \in r.checks}) = r.count
  BY DEF ChecksAccepted
<1>7. r.confirmed + r.false <= r.requests
  BY <1>0, <1>2 DEF FromObservation
<1>8. RecordAccepted(r) <=>
        /\ r.bytes <= Limit.bytes /\ Len(r.runId) <= Limit.id /\ o.wellFormed
        /\ MetricsAccepted(r) /\ ChecksAccepted(r) /\ o.unresolved \in 0..Limit.count
  BY <1>7 DEF RecordAccepted, Consistent, FromObservation
<1>9. Bounded(r, o) <=>
        /\ o.wellFormed
        /\ o.elapsed <= Limit.elapsed /\ o.iterations \in 1..Limit.iterations
        /\ o.requests <= Limit.count /\ r.violations <= Limit.count
        /\ o.api \in 0..Limit.count /\ o.unresolved \in 0..Limit.count /\ o.minutes \in 0..Limit.minutes
        /\ o.cost # None => o.cost \in 0..Limit.cost
        /\ r.bytes <= Limit.bytes /\ Len(r.runId) <= Limit.id
        /\ r.count <= Limit.checks /\ \A c \in r.checks : Len(c.source) <= Limit.source
  BY DEF Bounded
<1> QED BY <1>5, <1>6, <1>8, <1>9

\* Another check has the identity of the grader's.
Imitated(source, o) == \E c \in o.checks : CheckIdentity(c) = <<"grader", source>>

\* The parser takes what the assembler makes of accepted evidence, but for the
\* bounds it alone has and for the identity of the grader's check.
LEMMA GradedParses ==
  ASSUME NEW p, NEW s, NEW q, NEW d, NEW res, NEW c, NEW o \in Observations,
         GradedEvidence(p, q, d, res, c, o), IsFiniteSet(d.violations)
  PROVE  LET r == GradedRecord(p, s, q, d, res, c, o)
         IN  RecordAccepted(r) <=> Bounded(r, o) /\ ~Imitated(s, o)
<1> DEFINE r == GradedRecord(p, s, q, d, res, c, o)
           g == GraderCheck(s, res, c)
           S == {g} \union o.checks
<1>0. ObservationValid(o) /\ FromObservation(r, o) /\ r.candidate = c
  BY GradedFields DEF GradedEvidence, FromCell
<1>1. r.violations \in Nat /\ r.escapes \in {0, 1}
  BY GradedFields, FS_CardinalityType
<1>2. g.head = c /\ CheckIdentity(g) = <<"grader", s>> /\ g.required
  BY DEF GraderCheck, CheckIdentity
<1>3. g.conclusion = "success" <=> res.outcome = "passed"
  BY DEF GraderCheck
<1>4. r.checks = S /\ r.count = 1 + Cardinality(o.checks)
  BY GradedFields
<1>5. r.firstPass => r.success /\ r.iterations = 1
  BY GradedFields DEF FromObservation
<1>6. ASSUME FailureClass(p, q, d, res, o) = None PROVE Consistent(r)
  <2>1. res.outcome = "passed" /\ r.unresolved = 0 /\ \A x \in o.checks : x.required => x.conclusion = "success"
    BY <1>6, FailureIs, GradedFields DEF FromObservation
  <2>2. r.success /\ r.failure = None /\ r.outcome = "passed"
    BY <1>6, GradedFields
  <2> HIDE DEF r, g
  <2>3. Consistent(r)
    BY <1>2, <1>3, <1>4, <1>5, <2>1, <2>2 DEF Consistent
  <2> QED BY <2>3
<1>7. ASSUME FailureClass(p, q, d, res, o) # None PROVE Consistent(r)
  <2>1. ~r.success /\ r.failure # None /\ r.outcome # "passed"
    BY <1>7, GradedFields
  <2> HIDE DEF r
  <2>2. Consistent(r)
    BY <1>5, <2>1 DEF Consistent
  <2> QED BY <2>2
<1> HIDE DEF r, g
<1>8. Consistent(r)
  BY <1>6, <1>7
<1>9. \A x \in r.checks : x.head = r.candidate
  BY <1>0, <1>2, <1>4 DEF GradedEvidence, ChecksBound
<1>10. RecordAccepted(r) <=> Bounded(r, o) /\ Cardinality({CheckIdentity(x) : x \in r.checks}) = r.count
  BY <1>0, <1>1, <1>8, <1>9, BoundsDecide
<1>11. /\ IsFiniteSet(o.checks) /\ Cardinality(o.checks) \in Nat
       /\ \A x, y \in o.checks : CheckIdentity(x) = CheckIdentity(y) => x = y
  BY ObservationAssumption, FS_CardinalityType DEF GradedEvidence, ChecksBound
<1>12. ASSUME Imitated(s, o) PROVE RecordAccepted(r) <=> Bounded(r, o) /\ ~Imitated(s, o)
  <2>1. {CheckIdentity(x) : x \in S} = {CheckIdentity(x) : x \in o.checks}
    BY <1>2, <1>12 DEF Imitated
  <2>2. Cardinality({CheckIdentity(x) : x \in o.checks}) = Cardinality(o.checks)
    BY <1>11, IdentitiesCount
  <2>3. Cardinality({CheckIdentity(x) : x \in r.checks}) # r.count
    BY <1>4, <1>11, <2>1, <2>2
  <2> QED BY <1>10, <1>12, <2>3
<1>13. ASSUME ~Imitated(s, o) PROVE RecordAccepted(r) <=> Bounded(r, o) /\ ~Imitated(s, o)
  <2>1. g \notin o.checks
    BY <1>2, <1>13 DEF Imitated
  <2>2. \A x, y \in S : CheckIdentity(x) = CheckIdentity(y) => x = y
    BY <1>2, <1>11, <1>13 DEF Imitated
  <2>3. S = o.checks \union {g}
    OBVIOUS
  <2>4. IsFiniteSet(S) /\ Cardinality(S) = Cardinality(o.checks) + 1
    BY <1>11, <2>1, <2>3, FS_AddElement
  <2>5. Cardinality({CheckIdentity(x) : x \in S}) = Cardinality(S)
    <3> HIDE DEF S
    <3> QED BY <2>2, <2>4, IdentitiesCount
  <2>6. Cardinality({CheckIdentity(x) : x \in r.checks}) = r.count
    <3> HIDE DEF S
    <3> QED BY <1>4, <1>11, <2>4, <2>5
  <2> QED BY <1>10, <1>13, <2>6
<1>14. RecordAccepted(r) <=> Bounded(r, o) /\ ~Imitated(s, o)
  BY <1>12, <1>13
<1> QED BY <1>14 DEF r

\* The same of an infrastructure record, which has no check of a grader.
LEMMA InfrastructureParses ==
  ASSUME NEW q, NEW c, NEW o \in Observations, InfrastructureEvidence(c, o)
  PROVE  LET r == InfrastructureRecord(q, c, o) IN RecordAccepted(r) <=> Bounded(r, o)
<1> DEFINE r == InfrastructureRecord(q, c, o)
<1>0. ObservationValid(o) /\ FromObservation(r, o) /\ r.candidate = c
  BY InfrastructureFields DEF InfrastructureEvidence, FromCell
<1>1. r.violations \in Nat /\ r.escapes \in {0, 1}
  BY InfrastructureFields
<1>2. r.checks = o.checks /\ r.count = Cardinality(o.checks)
  BY InfrastructureFields
<1>3. ~r.success /\ ~r.firstPass /\ r.failure # None /\ r.outcome # "passed"
  BY FailureAssumption, InfrastructureFields
<1> HIDE DEF r
<1>4. Consistent(r)
  BY <1>3 DEF Consistent
<1>5. \A x \in r.checks : x.head = r.candidate
  BY <1>0, <1>2 DEF InfrastructureEvidence, ChecksBound
<1>6. Cardinality({CheckIdentity(x) : x \in o.checks}) = Cardinality(o.checks)
  BY ObservationAssumption, IdentitiesCount DEF InfrastructureEvidence, ChecksBound
<1>7. RecordAccepted(r) <=> Bounded(r, o)
  BY <1>0, <1>1, <1>2, <1>4, <1>5, <1>6, BoundsDecide
<1> QED BY <1>7 DEF r

------------------------------------------------------------------------------
(* What a campaign is supplied with.                                       *)

\* The request of an open cell names that cell, and its fixture is finite.
LEMMA RequestOfCell ==
  ASSUME Loaded, NEW cell \in Cells(plan), Open(cell)
  PROVE  LET q == RequestOf(plan, suite, cell)
         IN /\ q.plan = plan /\ q.arm \in plan.arms /\ q.arm.id = cell.arm
            /\ q.task = cell.task /\ q.trial = cell.trial /\ IsFiniteSet(q.fixture)
<1> DEFINE q == RequestOf(plan, suite, cell)
           t == The(Tasks(suite, cell))
<1>1. The(Arms(plan, cell)) \in plan.arms /\ The(Arms(plan, cell)).id = cell.arm
  BY ArmOfCell DEF Open, Loaded
<1>2. t \in Tasks(suite, cell)
  BY SoleIs DEF Open, RequestBuilds
<1>3. /\ q.plan = plan /\ q.arm = The(Arms(plan, cell)) /\ q.trial = cell.trial
      /\ q.task = t.entry.task /\ q.fixture = t.fixture
  BY DEF RequestOf
<1> HIDE DEF t, q
<1>4. t.entry.task = cell.task /\ t \in suite.tasks
  BY <1>2 DEF Tasks
<1>5. PICK e \in catalog.entries : t = SuiteTask(e, disk) /\ TaskLoads(e, disk)
  BY <1>4, SuiteTasks DEF Open
<1>6. IsFiniteSet(t.fixture)
  <2> DEFINE dir == disk[e.fixture].content
             f == [x \in dir |-> [path |-> x.path, content |-> x.content]]
  <2>1. t.fixture = BundleOf(dir)
    BY <1>5 DEF SuiteTask
  <2>2. IsFiniteSet(dir)
    BY <1>5, CampaignAssumption DEF Loaded, TaskLoads, Resolves
  <2>3. f \in Surjection(dir, BundleOf(dir))
    BY DEF Surjection, BundleOf
  <2> HIDE DEF f, dir
  <2> QED BY <2>1, <2>2, <2>3, FS_Surjection
<1>7. /\ q.plan = plan /\ q.arm \in plan.arms /\ q.arm.id = cell.arm
      /\ q.task = cell.task /\ q.trial = cell.trial /\ IsFiniteSet(q.fixture)
  BY <1>1, <1>3, <1>4, <1>6
<1> QED BY <1>7 DEF q

\* The paths two finite bundles differ in are finitely many.
LEMMA ViolationsFinite ==
  ASSUME NEW q, NEW bundle, IsFiniteSet(q.fixture), IsFiniteSet(bundle)
  PROVE  IsFiniteSet(DeltaOf(q, bundle).violations)
<1> DEFINE D == (q.fixture \ bundle) \union (bundle \ q.fixture)
           f == [x \in D |-> x.path]
           P == ChangedPaths(q.fixture, bundle)
           V == DeltaOf(q, bundle).violations
<1>1. IsFiniteSet(D)
  BY FS_Difference, FS_Union
<1>2. f \in Surjection(D, P)
  BY DEF Surjection, ChangedPaths
<1>3. V \in SUBSET P
  BY DEF DeltaOf
<1> HIDE DEF D, f, P, V
<1>4. IsFiniteSet(P)
  BY <1>1, <1>2, FS_Surjection
<1>5. IsFiniteSet(V)
  BY <1>3, <1>4, FS_Subset
<1> QED BY <1>5 DEF V

(* The record r is of the cell and of this plan.                           *)
OfCell(r, cell) ==
  /\ r.runId = cell.arm \o cell.task \o <<cell.trial>> /\ r.foundation = plan.suite
  /\ Sole(ArmsOf(plan, r)) /\ CellOf(plan, r) = cell

\* What identifies the request of a cell identifies the cell.
LEMMA IdentityOfCell ==
  ASSUME Loaded, NEW cell \in Cells(plan), Open(cell), NEW r, NEW c,
         FromCell(r, RequestOf(plan, suite, cell), c)
  PROVE  OfCell(r, cell)
<1> DEFINE q == RequestOf(plan, suite, cell)
<1>1. /\ q.plan = plan /\ q.arm \in plan.arms /\ q.arm.id = cell.arm
      /\ q.task = cell.task /\ q.trial = cell.trial
  BY RequestOfCell
<1>2. /\ r.runId = RunId(q) /\ r.task = q.task /\ r.trial = q.trial
      /\ r.execution = q.arm.execution /\ r.foundation = q.plan.suite
  BY DEF FromCell
<1> HIDE DEF q
<1>3. ArmsOf(plan, r) = {q.arm}
  <2>1. \A a, b \in plan.arms : a # b => a.execution # b.execution
    BY DEF Loaded, Open, PlanAccepted
  <2> QED BY <1>1, <1>2, <2>1 DEF ArmsOf
<1>4. The(ArmsOf(plan, r)) = q.arm
  BY <1>3 DEF The
<1>5. CellOf(plan, r) = cell
  BY <1>1, <1>2, <1>4 DEF CellOf, Cells
<1>6. r.runId = cell.arm \o cell.task \o <<cell.trial>> /\ r.foundation = plan.suite
  BY <1>1, <1>2 DEF RunId
<1> QED BY <1>3, <1>5, <1>6 DEF OfCell, Sole

(* A record a cell may be finished with, made of the observation o and of  *)
(* the task's grader.                                                      *)
Finished(r, s, o, cell) ==
  /\ OfCell(r, cell)
  /\ r.success => r.escapes = 0
  /\ RecordAccepted(r) <=> Bounded(r, o) /\ ~(r.outcome # "infra_error" /\ Imitated(s, o))

\* Every cell is finished with such a record.
LEMMA FinishSupplies ==
  ASSUME Loaded, NEW cell \in Cells(plan), FinishGraded(cell) \/ FinishInfrastructure(cell)
  PROVE  \E r, s : \E o \in Observations : Supply(r, s, o) /\ Finished(r, s, o, cell)
<1> DEFINE q == RequestOf(plan, suite, cell)
           s == GraderSource(The(Tasks(suite, cell)))
<1>0. Open(cell)
  BY DEF FinishGraded, FinishInfrastructure
<1>1. CASE FinishGraded(cell)
  <2> DEFINE Result(f, outcome, check) ==
               [identity |-> Expectation(q, f.base, f.candidate), outcome |-> outcome,
                checks |-> {[outcome |-> check]}]
  <2>0. PICK f \in Freezes, outcome \in Outcomes, exitCode \in 0..2, check \in Outcomes :
          \E o \in Observations :
            LET result == Result(f, outcome, check) IN
            /\ GradedEvidence(plan, q, DeltaOf(q, f.bundle), result, f.candidate, o)
            /\ Supply(GradedRecord(plan, s, q, DeltaOf(q, f.bundle), result, f.candidate, o), s, o)
    BY <1>1 DEF FinishGraded
  <2> DEFINE res == Result(f, outcome, check)
  <2>1. PICK o \in Observations :
          /\ GradedEvidence(plan, q, DeltaOf(q, f.bundle), res, f.candidate, o)
          /\ Supply(GradedRecord(plan, s, q, DeltaOf(q, f.bundle), res, f.candidate, o), s, o)
    BY <2>0
  <2> HIDE DEF Result, res, s
  <2> DEFINE d == DeltaOf(q, f.bundle)
             r == GradedRecord(plan, s, q, d, res, f.candidate, o)
  <2>2. IsFiniteSet(d.violations)
    BY <1>0, RequestOfCell, ViolationsFinite, CampaignAssumption
  <2>3. OfCell(r, cell)
    <3> HIDE DEF d
    <3>1. FromCell(r, q, f.candidate)
      BY GradedFields
    <3> HIDE DEF r
    <3> QED BY <1>0, <3>1, IdentityOfCell
  <2>4. r.success => r.escapes = 0
    <3> HIDE DEF d, q
    <3> QED BY GradedFields, FailureIs
  <2>5. r.outcome # "infra_error"
    <3> HIDE DEF d, q
    <3> QED BY GradedFields
  <2>6. RecordAccepted(r) <=> Bounded(r, o) /\ ~Imitated(s, o)
    <3>1. GradedEvidence(plan, q, d, res, f.candidate, o)
      BY <2>1
    <3> HIDE DEF d, q
    <3> QED BY <2>2, <3>1, GradedParses
  <2>7. Supply(r, s, o)
    BY <2>1
  <2> HIDE DEF r
  <2> QED BY <2>3, <2>4, <2>5, <2>6, <2>7 DEF Finished
<1>2. CASE FinishInfrastructure(cell)
  <2>1. PICK f \in Freezes, o \in Observations :
          InfrastructureEvidence(f.candidate, o) /\ Supply(InfrastructureRecord(q, f.candidate, o), s, o)
    BY <1>2 DEF FinishInfrastructure
  <2> HIDE DEF s
  <2> DEFINE r == InfrastructureRecord(q, f.candidate, o)
  <2>2. OfCell(r, cell)
    <3>1. FromCell(r, q, f.candidate)
      BY InfrastructureFields
    <3> HIDE DEF r
    <3> QED BY <1>0, <3>1, IdentityOfCell
  <2>3. ~r.success /\ r.outcome = "infra_error"
    <3> HIDE DEF q
    <3> QED BY InfrastructureFields
  <2>4. RecordAccepted(r) <=> Bounded(r, o)
    <3> HIDE DEF q
    <3> QED BY <2>1, InfrastructureParses
  <2>5. Supply(r, s, o)
    BY <2>1
  <2> HIDE DEF r
  <2> QED BY <2>2, <2>3, <2>4, <2>5 DEF Finished
<1> QED BY <1>1, <1>2

(* The records supplied are accepted ones of cells of the plan.            *)
RecordsOK ==
  /\ records \in Seq(Range(records))
  /\ \A r \in Range(records) :
       /\ RecordAccepted(r)
       /\ r.success => r.escapes = 0
       /\ \E cell \in Cells(plan) : OfCell(r, cell)

\* A sequence with one more member.
LEMMA AppendRange ==
  ASSUME NEW s, s \in Seq(Range(s)), NEW r
  PROVE  Append(s, r) \in Seq(Range(Append(s, r))) /\ Range(Append(s, r)) = Range(s) \union {r}
<1> DEFINE S == Range(s) \union {r}
           t == Append(s, r)
<1>1. s \in Seq(S) /\ r \in S
  <2>1. \A i \in 1..Len(s) : s[i] \in S
    OBVIOUS
  <2> QED BY <2>1
<1>2. t \in Seq(S) /\ Len(t) = Len(s) + 1 /\ t[Len(s) + 1] = r /\ \A i \in 1..Len(s) : t[i] = s[i]
  <2> HIDE DEF S
  <2> QED BY <1>1
<1>3. DOMAIN t = 1..(Len(s) + 1) /\ DOMAIN s = 1..Len(s) /\ Len(s) \in Nat
  <2> HIDE DEF S
  <2> QED BY <1>1, <1>2
<1> HIDE DEF t
<1>4. Range(t) = S
  BY <1>2, <1>3 DEF Range
<1> QED BY <1>2, <1>4 DEF t

\* What is supplied holds throughout a campaign, with what Loaded says.
LEMMA RecordsHold == CampaignSpec => [](RecordsOK /\ AssembledParses)
<1>1. CampaignInit => RecordsOK /\ AssembledParses
  <2> SUFFICES ASSUME CampaignInit PROVE RecordsOK /\ AssembledParses
    OBVIOUS
  <2>1. records = <<>> /\ last = None
    BY DEF CampaignInit
  <2>2. Range(records) = {}
    BY <2>1 DEF Range
  <2> QED BY <2>1, <2>2 DEF RecordsOK, AssembledParses
<1>2. Loaded /\ RecordsOK /\ AssembledParses /\ [CampaignNext]_campaignVars => (RecordsOK /\ AssembledParses)'
  <2> SUFFICES ASSUME Loaded, RecordsOK, AssembledParses, [CampaignNext]_campaignVars
               PROVE  RecordsOK' /\ AssembledParses'
    OBVIOUS
  <2>0. plan' = plan
    BY CampaignKeeps
  <2>1. CASE UNCHANGED <<records, last>>
    BY <2>0, <2>1 DEF RecordsOK, AssembledParses, OfCell
  <2>2. ASSUME NEW cell \in Cells(plan), FinishGraded(cell) \/ FinishInfrastructure(cell)
        PROVE  RecordsOK' /\ AssembledParses'
    <3>1. PICK r, s : \E o \in Observations : Supply(r, s, o) /\ Finished(r, s, o, cell)
      BY <2>2, FinishSupplies
    <3>2. PICK o \in Observations : Supply(r, s, o) /\ Finished(r, s, o, cell)
      BY <3>1
    <3>3. last' = [run |-> r, grader |-> s, observation |-> o]
      BY <3>2 DEF Supply
    <3>7. last'.run = r /\ last'.observation = o /\ (GraderImitated(last') <=> r.outcome # "infra_error" /\ Imitated(s, o))
      BY <3>3 DEF GraderImitated, Imitated
    <3>4. AssembledParses'
      BY <3>2, <3>7 DEF AssembledParses, Finished
    <3>5. CASE ~RecordAccepted(r)
      <4>1. records' = records
        BY <3>2, <3>5 DEF Supply
      <4> QED BY <2>0, <3>4, <4>1 DEF RecordsOK, OfCell
    <3>6. CASE RecordAccepted(r)
      <4>1. records' = Append(records, r)
        BY <3>2, <3>6 DEF Supply
      <4>2. records' \in Seq(Range(records')) /\ Range(records') = Range(records) \union {r}
        BY <4>1, AppendRange DEF RecordsOK
      <4>3. ASSUME NEW t \in Range(records')
            PROVE  /\ RecordAccepted(t) /\ (t.success => t.escapes = 0)
                   /\ \E c \in Cells(plan) : OfCell(t, c)
        <5>1. OfCell(r, cell) /\ (r.success => r.escapes = 0)
          BY <3>2 DEF Finished
        <5> QED BY <3>6, <4>2, <5>1 DEF RecordsOK
      <4> QED BY <2>0, <3>4, <4>2, <4>3 DEF RecordsOK, OfCell
    <3> QED BY <3>5, <3>6
  <2>3. CASE Load
    BY <2>1, <2>3 DEF Load
  <2>4. CASE UNCHANGED campaignVars
    BY <2>1, <2>4 DEF campaignVars
  <2> QED BY <2>2, <2>3, <2>4 DEF CampaignNext
<1> QED BY <1>1, <1>2, LoadedHolds, PTL DEF CampaignSpec

\* Of what the assembler makes of accepted evidence the parser of run records
\* refuses exactly what exceeds a bound it alone has, and a record with a check
\* that took the identity of the grader's (assemble_graded_evaluation_run(),
\* parse_evaluation_run()).
THEOREM AssembledParsesCorrect == CampaignSpec => []AssembledParses
BY RecordsHold, PTL

\* What is said of the records supplied, of one of them.
LEMMA RecordOfCell ==
  ASSUME RecordsOK, NEW i \in DOMAIN records
  PROVE  LET r == records[i] IN
         /\ RecordAccepted(r) /\ (r.success => r.escapes = 0)
         /\ CellOf(plan, r) \in Cells(plan) /\ OfCell(r, CellOf(plan, r))
         /\ r.task \in plan.tasks /\ r.trial \in 1..plan.trials
<1> DEFINE r == records[i]
<1>1. r \in Range(records)
  BY DEF Range
<1> HIDE DEF r
<1>2. PICK cell \in Cells(plan) : OfCell(r, cell)
  BY <1>1 DEF RecordsOK
<1>3. CellOf(plan, r) = cell
  BY <1>2 DEF OfCell
<1>4. RecordAccepted(r) /\ (r.success => r.escapes = 0)
  BY <1>1 DEF RecordsOK
<1>5. cell.task = r.task /\ cell.trial = r.trial
  BY <1>3 DEF CellOf
<1>6. r.task \in plan.tasks /\ r.trial \in 1..plan.trials
  BY <1>5 DEF Cells
<1>7. /\ RecordAccepted(r) /\ (r.success => r.escapes = 0)
      /\ CellOf(plan, r) \in Cells(plan) /\ OfCell(r, CellOf(plan, r))
      /\ r.task \in plan.tasks /\ r.trial \in 1..plan.trials
  BY <1>2, <1>3, <1>4, <1>6
<1> QED BY <1>7 DEF r

\* A report takes the records of a campaign in any order, unless two are of
\* one cell or of two environments (parse_evaluation_report_inputs()).
THEOREM ReportableCorrect == CampaignSpec => []Reportable
<1>1. RecordsOK => Reportable
  <2> SUFFICES ASSUME RecordsOK, IdsApart
               PROVE  ReportAccepted(plan, records) <=>
                        \A i, j \in DOMAIN records : i # j =>
                          /\ CellOf(plan, records[i]) # CellOf(plan, records[j])
                          /\ records[i].environment = records[j].environment
    BY DEF Reportable
  <2>1. ASSUME NEW i \in DOMAIN records
        PROVE  LET r == records[i] IN
               /\ RecordAccepted(r)
               /\ r.foundation = plan.suite
               /\ r.task \in plan.tasks /\ r.trial \in 1..plan.trials
               /\ Sole(ArmsOf(plan, r))
    BY RecordOfCell DEF OfCell
  <2>2. ASSUME NEW i \in DOMAIN records, NEW j \in DOMAIN records,
               CellOf(plan, records[i]) # CellOf(plan, records[j])
        PROVE  records[i].runId # records[j].runId
    <3> DEFINE c == CellOf(plan, records[i])
               d == CellOf(plan, records[j])
    <3>1. c \in Cells(plan) /\ d \in Cells(plan) /\ OfCell(records[i], c) /\ OfCell(records[j], d)
      BY RecordOfCell
    <3>2. c # d
      BY <2>2
    <3> HIDE DEF c, d
    <3> QED BY <3>1, <3>2 DEF OfCell, IdsApart
  <2> QED BY <2>1, <2>2 DEF ReportAccepted
<1> QED BY <1>1, RecordsHold, PTL

\* What an injection leaves of a finite set, with its domain, is as many.
LEMMA Covering ==
  ASSUME NEW C, IsFiniteSet(C), NEW D, NEW g \in Injection(D, C)
  PROVE  LET rest == C \ {g[x] : x \in D} IN
         /\ IsFiniteSet(D) /\ IsFiniteSet(rest)
         /\ Cardinality(rest) + Cardinality(D) = Cardinality(C)
<1> DEFINE I == {g[x] : x \in D}
           rest == C \ I
<1>1. g \in [D -> C] /\ \A x, y \in D : g[x] = g[y] => x = y
  BY DEF Injection, IsInjective
<1>2. g \in Surjection(D, I) /\ g \in Injection(D, I)
  <2>1. g \in [D -> I]
    BY <1>1
  <2> QED BY <1>1, <2>1 DEF Surjection, Injection, IsInjective
<1>3. I \in SUBSET C
  BY <1>1
<1> HIDE DEF I
<1>4. IsFiniteSet(I) /\ IsFiniteSet(D)
  BY <1>3, FS_Subset, FS_Injection
<1>5. Cardinality(I) = Cardinality(D)
  BY <1>2, <1>4, FS_Surjection
<1>6. C \cap I = I
  BY <1>3
<1>7. IsFiniteSet(rest) /\ Cardinality(rest) = Cardinality(C) - Cardinality(I)
  BY <1>6, FS_Difference
<1>8. Cardinality(C) \in Nat /\ Cardinality(D) \in Nat
  BY <1>4, FS_CardinalityType
<1> HIDE DEF rest
<1>9. Cardinality(rest) + Cardinality(D) = Cardinality(C)
  BY <1>5, <1>7, <1>8
<1> QED BY <1>4, <1>7, <1>9 DEF rest, I

\* A plan has finitely many cells, the same number for each of its arms.
LEMMA CellsFinite ==
  ASSUME NEW p, IsFiniteSet(p.arms), IsFiniteSet(p.tasks), p.trials \in Nat
  PROVE  /\ IsFiniteSet(Cells(p))
         /\ \A a \in p.arms :
              Cardinality({c \in Cells(p) : c.arm = a.id}) = Cardinality(p.tasks) * p.trials
<1> DEFINE ids == {a.id : a \in p.arms}
           trials == 1..p.trials
           M == p.tasks \X trials
<1>1. IsFiniteSet(M) /\ Cardinality(M) = Cardinality(p.tasks) * p.trials
  <2>1. IsFiniteSet(trials) /\ Cardinality(trials) = p.trials
    <3> DEFINE n == p.trials
    <3>1. n \in Nat
      OBVIOUS
    <3> HIDE DEF n
    <3>2. IsFiniteSet(1..n) /\ Cardinality(1..n) = IF 1 > n THEN 0 ELSE n - 1 + 1
      BY <3>1, FS_Interval
    <3>3. IsFiniteSet(1..n) /\ Cardinality(1..n) = n
      BY <3>1, <3>2
    <3> QED BY <3>3 DEF n
  <2> HIDE DEF trials
  <2> QED BY <2>1, FS_Product
<1>2. IsFiniteSet(ids)
  <2> DEFINE f == [a \in p.arms |-> a.id]
  <2>1. f \in Surjection(p.arms, ids)
    BY DEF Surjection
  <2> HIDE DEF f, ids
  <2> QED BY <2>1, FS_Surjection
<1>3. Cells(p) = [arm : ids, task : p.tasks, trial : trials]
  BY DEF Cells
<1> HIDE DEF ids, trials
<1>4. IsFiniteSet(Cells(p))
  <2> DEFINE N == ids \X M
             f == [x \in N |-> [arm |-> x[1], task |-> x[2][1], trial |-> x[2][2]]]
  <2>1. IsFiniteSet(N)
    <3> HIDE DEF M
    <3> QED BY <1>1, <1>2, FS_Product
  <2>2. f \in [N -> Cells(p)]
    BY <1>3
  <2>3. ASSUME NEW c \in Cells(p) PROVE \E x \in N : f[x] = c
    <3>1. /\ c = [arm |-> c.arm, task |-> c.task, trial |-> c.trial]
          /\ c.arm \in ids /\ c.task \in p.tasks /\ c.trial \in trials
      BY <1>3
    <3>2. <<c.arm, <<c.task, c.trial>>>> \in N
      BY <3>1
    <3>3. f[<<c.arm, <<c.task, c.trial>>>>] = c
      BY <3>1, <3>2
    <3> QED BY <3>2, <3>3
  <2>4. f \in Surjection(N, Cells(p))
    <3> HIDE DEF f, N
    <3> QED BY <2>2, <2>3 DEF Surjection
  <2> HIDE DEF f, N
  <2> QED BY <2>1, <2>4, FS_Surjection
<1>5. ASSUME NEW a \in p.arms
      PROVE  Cardinality({c \in Cells(p) : c.arm = a.id}) = Cardinality(p.tasks) * p.trials
  <2> DEFINE A == {c \in Cells(p) : c.arm = a.id}
             f == [x \in M |-> [arm |-> a.id, task |-> x[1], trial |-> x[2]]]
  <2>0. a.id \in ids
    BY DEF ids
  <2>1. f \in [M -> A]
    BY <1>3, <2>0
  <2>2. ASSUME NEW x \in M, NEW y \in M, f[x] = f[y] PROVE x = y
    <3>1. x[1] = f[x].task /\ x[2] = f[x].trial /\ y[1] = f[y].task /\ y[2] = f[y].trial
      OBVIOUS
    <3>2. x = <<x[1], x[2]>> /\ y = <<y[1], y[2]>>
      OBVIOUS
    <3> HIDE DEF f
    <3> QED BY <2>2, <3>1, <3>2
  <2>3. ASSUME NEW c \in A PROVE \E x \in M : f[x] = c
    <3>1. /\ c = [arm |-> a.id, task |-> c.task, trial |-> c.trial]
          /\ c.task \in p.tasks /\ c.trial \in trials
      BY <1>3
    <3>2. <<c.task, c.trial>> \in M
      BY <3>1
    <3>3. f[<<c.task, c.trial>>] = c
      BY <3>1, <3>2
    <3> QED BY <3>2, <3>3
  <2> HIDE DEF f, M, A
  <2>4. f \in Bijection(M, A)
    BY <2>1, <2>2, <2>3 DEF Bijection, Injection, Surjection, IsInjective
  <2>5. Cardinality(A) = Cardinality(M)
    BY <1>1, <2>4, FS_Bijection DEF ExistsBijection
  <2> QED BY <1>1, <2>5 DEF A
<1> QED BY <1>4, <1>5

\* Of the runs of an arm that were judged, those with a property.
LEMMA PartsOf ==
  ASSUME NEW M, IsFiniteSet(M), NEW V \in SUBSET M,
         NEW S \in SUBSET V, NEW F \in SUBSET S, NEW E \in SUBSET V, S \cap E = {}
  PROVE  /\ Cardinality(V) + Cardinality(M \ V) = Cardinality(M)
         /\ Cardinality(F) <= Cardinality(S)
         /\ Cardinality(S) + Cardinality(E) <= Cardinality(V)
<1>1. IsFiniteSet(V) /\ IsFiniteSet(S) /\ IsFiniteSet(F) /\ IsFiniteSet(E)
  <2>1. IsFiniteSet(V)
    BY FS_Subset
  <2>2. IsFiniteSet(S) /\ IsFiniteSet(E)
    BY <2>1, FS_Subset
  <2> QED BY <2>1, <2>2, FS_Subset
<1>2. /\ Cardinality(M) \in Nat /\ Cardinality(V) \in Nat /\ Cardinality(S) \in Nat
      /\ Cardinality(E) \in Nat
  BY <1>1, FS_CardinalityType
<1>3. Cardinality(M \ V) = Cardinality(M) - Cardinality(V)
  <2>1. M \cap V = V
    OBVIOUS
  <2> QED BY <2>1, FS_Difference
<1>4. Cardinality(F) <= Cardinality(S)
  BY <1>1, FS_Subset
<1>5. Cardinality(S \union E) = Cardinality(S) + Cardinality(E)
  <2>1. Cardinality(S \cap E) = 0
    BY FS_EmptySet
  <2>2. Cardinality(S \union E) = Cardinality(S) + Cardinality(E) - Cardinality(S \cap E)
    BY <1>1, FS_Union
  <2> QED BY <1>2, <2>1, <2>2
<1>6. Cardinality(S \union E) <= Cardinality(V)
  <2>1. S \union E \in SUBSET V
    OBVIOUS
  <2> QED BY <1>1, <2>1, FS_Subset
<1> QED BY <1>2, <1>3, <1>4, <1>5, <1>6

\* Each cell of an accepted report has at most one record, and each record
\* is of a cell.
LEMMA CellsCovered ==
  ASSUME RecordsOK, ReportAccepted(plan, records)
  PROVE  [i \in DOMAIN records |-> CellOf(plan, records[i])] \in Injection(DOMAIN records, Cells(plan))
<1> DEFINE g == [i \in DOMAIN records |-> CellOf(plan, records[i])]
<1>1. g \in [DOMAIN records -> Cells(plan)]
  BY RecordOfCell
<1>2. \A i, j \in DOMAIN records : g[i] = g[j] => i = j
  BY DEF ReportAccepted
<1> HIDE DEF g
<1>3. g \in Injection(DOMAIN records, Cells(plan))
  BY <1>1, <1>2 DEF Injection, IsInjective
<1> QED BY <1>3 DEF g

\* The counts of one arm of an accepted report.
LEMMA CountsOfArm ==
  ASSUME Loaded, RecordsOK, ReportAccepted(plan, records), NEW a \in plan.arms
  PROVE  LET r == ArmReport(plan, records, a.id) IN
         /\ r.valid + r.infrastructure + r.missing = Cardinality(plan.tasks) * plan.trials
         /\ r.firstPass <= r.success /\ r.success + r.escapes <= r.valid
<1> DEFINE D == DOMAIN records
           g == [i \in D |-> CellOf(plan, records[i])]
           A == {c \in Cells(plan) : c.arm = a.id}
           M == {i \in D : CellOf(plan, records[i]).arm = a.id}
           V == {i \in M : records[i].outcome # "infra_error"}
           S == {i \in V : records[i].success}
           F == {i \in V : records[i].firstPass}
           E == {i \in V : records[i].escapes > 0}
           h == [i \in M |-> g[i]]
           rest == A \ {h[i] : i \in M}
           r == ArmReport(plan, records, a.id)
<1>1. IsFiniteSet(Cells(plan)) /\ Cardinality(A) = Cardinality(plan.tasks) * plan.trials
  BY CellsFinite, CampaignAssumption DEF Loaded
<1>2. IsFiniteSet(A)
  BY <1>1, FS_Subset
<1>3. g \in Injection(D, Cells(plan))
  BY CellsCovered
<1>4. {c \in Missing(plan, records) : c.arm = a.id} = rest
  <2>1. Missing(plan, records) = Cells(plan) \ {g[i] : i \in D}
    BY DEF Missing
  <2>2. \A i \in D : g[i] \in A <=> i \in M
    BY RecordOfCell
  <2>3. \A i \in M : i \in D /\ h[i] = g[i]
    OBVIOUS
  <2> HIDE DEF g, h, M, D
  <2> QED BY <2>1, <2>2, <2>3
<1>5. h \in Injection(M, A)
  <2>1. g \in [D -> Cells(plan)] /\ \A i, j \in D : g[i] = g[j] => i = j
    BY <1>3 DEF Injection, IsInjective
  <2>2. \A i \in M : i \in D /\ h[i] = g[i] /\ g[i] \in A
    BY RecordOfCell
  <2>3. h \in [M -> A]
    BY <2>2
  <2> HIDE DEF g, h, M, D, A
  <2> QED BY <2>1, <2>2, <2>3 DEF Injection, IsInjective
<1>6. F \in SUBSET S /\ S \cap E = {}
  <2>1. ASSUME NEW i \in V
        PROVE  /\ records[i].firstPass => records[i].success
               /\ records[i].success => ~(records[i].escapes > 0)
    <3>1. RecordAccepted(records[i]) /\ (records[i].success => records[i].escapes = 0)
      BY RecordOfCell
    <3> QED BY <3>1 DEF RecordAccepted
  <2> HIDE DEF V
  <2> QED BY <2>1
<1>7. /\ r.valid = Cardinality(V) /\ r.infrastructure = Cardinality(M \ V) /\ r.missing = Cardinality(rest)
      /\ r.success = Cardinality(S) /\ r.firstPass = Cardinality(F) /\ r.escapes = Cardinality(E)
  <2>1. r.missing = Cardinality(rest)
    <3>1. r.missing = Cardinality({c \in Missing(plan, records) : c.arm = a.id})
      BY DEF ArmReport
    <3> HIDE DEF r, rest
    <3> QED BY <1>4, <3>1
  <2>2. r.valid = Cardinality(V) /\ r.infrastructure = Cardinality(M \ V)
    BY DEF ArmReport
  <2>3. r.success = Cardinality(S) /\ r.firstPass = Cardinality(F) /\ r.escapes = Cardinality(E)
    BY DEF ArmReport
  <2> QED BY <2>1, <2>2, <2>3
<1>8. V \in SUBSET M /\ S \in SUBSET V /\ E \in SUBSET V
  OBVIOUS
<1> HIDE DEF h, A, M, V, S, F, E, r, g, D
<1>9. /\ IsFiniteSet(M) /\ IsFiniteSet(rest)
      /\ Cardinality(rest) + Cardinality(M) = Cardinality(A)
  BY <1>2, <1>5, Covering
<1>10. /\ Cardinality(V) + Cardinality(M \ V) = Cardinality(M)
       /\ Cardinality(F) <= Cardinality(S)
       /\ Cardinality(S) + Cardinality(E) <= Cardinality(V)
  BY <1>6, <1>8, <1>9, PartsOf
<1>11. Cardinality(rest) \in Nat
  BY <1>9, FS_CardinalityType
<1> HIDE DEF rest
<1>12. r.valid + r.infrastructure + r.missing = Cardinality(A)
  <2>1. r.valid + r.infrastructure = Cardinality(M)
    BY <1>7, <1>10
  <2>2. Cardinality(M) \in Nat
    BY <1>9, FS_CardinalityType
  <2> QED BY <1>7, <1>9, <1>11, <2>1, <2>2
<1>13. r.firstPass <= r.success /\ r.success + r.escapes <= r.valid
  BY <1>7, <1>10
<1>14. /\ r.valid + r.infrastructure + r.missing = Cardinality(plan.tasks) * plan.trials
       /\ r.firstPass <= r.success /\ r.success + r.escapes <= r.valid
  BY <1>1, <1>12, <1>13
<1> QED BY <1>14 DEF r

\* The counts of an accepted report add up to the cells of its plan, however
\* many arms, tasks, trials and records there are (build_evaluation_report()).
THEOREM CountsAddCorrect == CampaignSpec => []CountsAdd
<1>1. Loaded /\ RecordsOK => CountsAdd
  <2> SUFFICES ASSUME Loaded, RecordsOK, ReportAccepted(plan, records)
               PROVE  Cardinality(Missing(plan, records)) + Len(records) = Cardinality(Cells(plan))
    BY CountsOfArm DEF CountsAdd
  <2> DEFINE D == DOMAIN records
             g == [i \in D |-> CellOf(plan, records[i])]
  <2>1. IsFiniteSet(Cells(plan))
    BY CellsFinite, CampaignAssumption DEF Loaded
  <2>2. g \in Injection(D, Cells(plan))
    BY CellsCovered
  <2>3. Missing(plan, records) = Cells(plan) \ {g[i] : i \in D}
    BY DEF Missing
  <2>4. Cardinality(D) = Len(records)
    <3> DEFINE n == Len(records)
    <3>1. n \in Nat /\ D = 1..n
      BY DEF RecordsOK
    <3> HIDE DEF n, D
    <3>2. Cardinality(1..n) = IF 1 > n THEN 0 ELSE n - 1 + 1
      BY <3>1, FS_Interval
    <3>3. Cardinality(D) = n
      BY <3>1, <3>2
    <3> QED BY <3>3 DEF n
  <2> HIDE DEF g, D
  <2> QED BY <2>1, <2>2, <2>3, <2>4, Covering
<1> QED BY <1>1, LoadedHolds, RecordsHold, PTL

------------------------------------------------------------------------------

\* The operators of sets and sequences are the same in a campaign.
LEMMA SameLibrary ==
  /\ \A S : Campaign!Cardinality(S) = Cardinality(S)
  /\ \A s, t : Campaign!IsPrefix(s, t) <=> IsPrefix(s, t)
  /\ \A s, t : Campaign!IsStrictPrefix(s, t) <=> IsStrictPrefix(s, t)
<1>1. \A S : Campaign!Cardinality(S) = Cardinality(S)
  BY DEF Cardinality, Campaign!Cardinality
<1>2. \A s, t : Campaign!IsPrefix(s, t) <=> IsPrefix(s, t)
  BY DEF IsPrefix, Campaign!IsPrefix
<1>3. \A s, t : Campaign!IsStrictPrefix(s, t) <=> IsStrictPrefix(s, t)
  BY <1>2 DEF IsStrictPrefix, Campaign!IsStrictPrefix
<1> QED BY <1>1, <1>2, <1>3

\* The contracts a campaign is checked against are those a trial keeps.
LEMMA SameRequest ==
  ASSUME NEW p, NEW s, NEW c
  PROVE  /\ Campaign!Cells(p) = Cells(p)
         /\ Campaign!RequestBuilds(p, s, c) <=> RequestBuilds(p, s, c)
         /\ Campaign!RequestOf(p, s, c) = RequestOf(p, s, c)
         /\ Campaign!GraderSource(Campaign!The(Campaign!Tasks(s, c))) = GraderSource(The(Tasks(s, c)))
<1>1. Campaign!Cells(p) = Cells(p)
  BY DEF Cells, Campaign!Cells
<1>2. Campaign!RequestBuilds(p, s, c) <=> RequestBuilds(p, s, c)
  BY SameLibrary
     DEF RequestBuilds, Campaign!RequestBuilds, Arms, Campaign!Arms, Tasks, Campaign!Tasks,
         Sole, Campaign!Sole, The, Campaign!The, RequestFits, Campaign!RequestFits
<1>3. Campaign!RequestOf(p, s, c) = RequestOf(p, s, c)
  BY DEF RequestOf, Campaign!RequestOf, Arms, Campaign!Arms, Tasks, Campaign!Tasks, The, Campaign!The
<1>4. Campaign!GraderSource(Campaign!The(Campaign!Tasks(s, c))) = GraderSource(The(Tasks(s, c)))
  BY DEF GraderSource, Campaign!GraderSource, Tasks, Campaign!Tasks, The, Campaign!The
<1> QED BY <1>1, <1>2, <1>3, <1>4

\* Loading too.
LEMMA SameLoading ==
  ASSUME NEW c, NEW d, NEW p
  PROVE  /\ Campaign!SuiteLoads(c, d) <=> SuiteLoads(c, d)
         /\ Campaign!SuiteOf(c, d) = SuiteOf(c, d)
         /\ Campaign!PlanAccepted(p) <=> PlanAccepted(p)
<1>1. Campaign!SuiteOf(c, d) = SuiteOf(c, d)
  BY DEF SuiteOf, Campaign!SuiteOf, SuiteTask, Campaign!SuiteTask, BundleOf, Campaign!BundleOf
<1>2. Campaign!PlanAccepted(p) <=> PlanAccepted(p)
  BY SameLibrary DEF PlanAccepted, Campaign!PlanAccepted, Sole, Campaign!Sole
<1>3. Campaign!CatalogAccepted(c.entries) <=> CatalogAccepted(c.entries)
  BY SameLibrary DEF CatalogAccepted, Campaign!CatalogAccepted, EntryAccepted, Campaign!EntryAccepted,
         SafePath, Campaign!SafePath, Overlap, Campaign!Overlap
<1>4. ASSUME NEW e PROVE Campaign!TaskLoads(e, d) <=> TaskLoads(e, d)
  BY SameLibrary DEF TaskLoads, Campaign!TaskLoads, Resolves, Campaign!Resolves, BundleAccepted,
         Campaign!BundleAccepted, BundleOf, Campaign!BundleOf, TaskAccepted, Campaign!TaskAccepted,
         AllowedAccepted, Campaign!AllowedAccepted, GraderAccepted, Campaign!GraderAccepted,
         AuthorizationAccepted, Campaign!AuthorizationAccepted, SafePath, Campaign!SafePath
<1>5. Campaign!SuiteLoads(c, d) <=> SuiteLoads(c, d)
  BY <1>3, <1>4 DEF SuiteLoads, Campaign!SuiteLoads
<1> QED BY <1>1, <1>2, <1>5

\* And what changed.
LEMMA SameDelta ==
  ASSUME NEW q, NEW b
  PROVE  Campaign!DeltaOf(q, b) = DeltaOf(q, b)
BY SameLibrary DEF DeltaOf, Campaign!DeltaOf, ChangedPaths, Campaign!ChangedPaths, PathAllowed, Campaign!PathAllowed

\* And grader results.
LEMMA SameResult ==
  ASSUME NEW q, NEW b, NEW c, NEW r, NEW e, NEW x
  PROVE  /\ Campaign!Expectation(q, b, c) = Expectation(q, b, c)
         /\ Campaign!ResultAccepted(r, e) <=> ResultAccepted(r, e)
         /\ Campaign!ProcessAgrees(x, r) <=> ProcessAgrees(x, r)
BY DEF Expectation, Campaign!Expectation, ResultAccepted, Campaign!ResultAccepted,
       ProcessAgrees, Campaign!ProcessAgrees

\* And what is required of evidence.
LEMMA SameEvidence ==
  ASSUME NEW p, NEW q, NEW d, NEW r, NEW c, NEW o
  PROVE  /\ Campaign!GradedEvidence(p, q, d, r, c, o) <=> GradedEvidence(p, q, d, r, c, o)
         /\ Campaign!InfrastructureEvidence(c, o) <=> InfrastructureEvidence(c, o)
<1>1. Campaign!ObservationValid(o) <=> ObservationValid(o)
  BY DEF ObservationValid, Campaign!ObservationValid
<1>2. Campaign!ChecksBound(o.checks, c) <=> ChecksBound(o.checks, c)
  BY DEF ChecksBound, Campaign!ChecksBound, CheckIdentity, Campaign!CheckIdentity
<1>3. Campaign!EarlyFailure(d, r, o) = EarlyFailure(d, r, o)
  BY DEF EarlyFailure, Campaign!EarlyFailure
<1>4. Campaign!Contradicts(p, q, d, o) <=> Contradicts(p, q, d, o)
  BY DEF Contradicts, Campaign!Contradicts, Completed, Campaign!Completed
<1>5. /\ Campaign!Extend(r.identity, [base |-> None]) = Extend(r.identity, [base |-> None])
      /\ Campaign!Expectation(q, None, c) = Expectation(q, None, c)
  BY DEF Extend, Campaign!Extend, Expectation, Campaign!Expectation
<1> QED BY <1>1, <1>2, <1>3, <1>4, <1>5
        DEF GradedEvidence, Campaign!GradedEvidence, InfrastructureEvidence, Campaign!InfrastructureEvidence

\* And the records assembled of it.
LEMMA SameRecord ==
  ASSUME NEW p, NEW s, NEW q, NEW d, NEW r, NEW c, NEW o
  PROVE  /\ Campaign!GradedRecord(p, s, q, d, r, c, o) = GradedRecord(p, s, q, d, r, c, o)
         /\ Campaign!InfrastructureRecord(q, c, o) = InfrastructureRecord(q, c, o)
<1>1. Campaign!BaseRecord(q, c, o) = BaseRecord(q, c, o)
  BY DEF BaseRecord, Campaign!BaseRecord, RunId, Campaign!RunId
<1>2. Campaign!FailureClass(p, q, d, r, o) = FailureClass(p, q, d, r, o)
  BY DEF FailureClass, Campaign!FailureClass, EarlyFailure, Campaign!EarlyFailure,
         Completed, Campaign!Completed
<1>3. Campaign!GraderCheck(s, r, c) = GraderCheck(s, r, c)
  BY DEF GraderCheck, Campaign!GraderCheck
<1>4. \A x, y : Campaign!Extend(x, y) = Extend(x, y)
  BY DEF Extend, Campaign!Extend
<1>5. Campaign!RunId(q) = RunId(q)
  BY DEF RunId, Campaign!RunId
<1> QED BY <1>1, <1>2, <1>3, <1>4, <1>5, SameLibrary
        DEF GradedRecord, Campaign!GradedRecord, InfrastructureRecord, Campaign!InfrastructureRecord

\* And the parser of records.
LEMMA SameParser ==
  ASSUME NEW r
  PROVE  Campaign!RecordAccepted(r) <=> RecordAccepted(r)
BY SameLibrary DEF RecordAccepted, Campaign!RecordAccepted, MetricsAccepted, Campaign!MetricsAccepted,
       ChecksAccepted, Campaign!ChecksAccepted, CheckIdentity, Campaign!CheckIdentity

(* What a session has when it makes a record, and that it makes one.       *)
CellInv ==
  /\ job.stage \in Prepared => prepared.base = Base
  /\ frozen # None => frozen.candidate.parent = Base.tree
  /\ job.call \in {"invoke", "finalize", "infrastructure"} => frozen # None
  /\ job.stage = "delta" => job.call = "finalize"
  /\ record # None => job.stage = "done"

\* Of the stages before prepare returns only the last is followed by the agent.
LEMMA AgentStarts ==
  ASSUME TypeOK, PrepareInv, Prepare \/ Crash \/ Dispose
  PROVE  \/ CommitBase /\ job'.stage = "agent" /\ prepared'.base = Base
         \/ ~CommitBase /\ job'.stage \in {"new"} \union Preparing
<1> USE DEF Preparing
<1>1. CASE CommitBase
  <2>1. job'.stage = "agent"
    BY <1>1, MoveFields DEF CommitBase, JobOf
  <2>2. workspace = Fixture
    BY <1>1 DEF CommitBase, At, PrepareInv
  <2>3. prepared'.base = Base
    BY <1>1, <2>2 DEF CommitBase, Base
  <2> QED BY <1>1, <2>1, <2>3
<1>2. CASE MakeWorkspace
  BY <1>1, <1>2, MoveFields DEF MakeWorkspace, CommitBase, JobOf, At
<1>3. ASSUME NEW p \in Paths, CopyFile(p) PROVE job.stage = "copy" /\ job'.stage = "copy"
  BY <1>3 DEF CopyFile, At, TypeOK, Jobs
<1>4. CASE CopyRaises \/ InitRaises \/ Crash
  BY <1>1, <1>4, RestType DEF CopyRaises, InitRaises, Crash
<1>5. CASE VerifyCopy \/ InitGit
  BY <1>1, <1>5, MoveFields DEF VerifyCopy, InitGit, JobOf, At
<1>6. CASE Dispose
  BY <1>1, <1>6 DEF Dispose, At
<1>7. CASE \E p \in Paths : CopyFile(p)
  BY <1>1, <1>3, <1>7
<1> QED BY <1>1, <1>2, <1>4, <1>5, <1>6, <1>7 DEF Prepare

\* CellInv is inductive, relative to TypeOK, PrepareInv and FreezeInv.
LEMMA CellStep == TypeOK /\ PrepareInv /\ FreezeInv /\ CellInv /\ [Next]_vars => CellInv'
<1> SUFFICES ASSUME TypeOK, PrepareInv, FreezeInv, CellInv, [Next]_vars PROVE CellInv'
  OBVIOUS
<1> DEFINE Rest == /\ frozen' # None => frozen'.candidate.parent = Base.tree
                   /\ job'.call \in {"invoke", "finalize", "infrastructure"} => frozen' # None
                   /\ job'.stage = "delta" => job'.call = "finalize"
                   /\ record' # None => job'.stage = "done"
<1>0. ASSUME UNCHANGED <<frozen, record>>, job.stage # "done",
             job'.call \in {"none", "prepare", "freeze", "confirm", job.call},
             job'.stage = "delta" => job'.call = "finalize"
      PROVE  Rest
  BY <1>0 DEF CellInv
<1>1. CASE Prepare \/ Crash \/ Dispose
  <2>1. /\ UNCHANGED <<frozen, record>> /\ job.stage \in {"new"} \union Preparing
        /\ job'.stage \in {"new", "agent"} \union Preparing
        /\ job'.call \in {"none", "prepare", job.call}
    BY <1>1, PreparingStages
  <2>2. Rest
    BY <2>1, <1>0 DEF Preparing
  <2>3. job'.stage \in Prepared => prepared'.base = Base
    BY <1>1, AgentStarts DEF Prepared, Preparing, Reading, Scans
  <2> HIDE DEF Rest
  <2>4. CellInv'
    BY <2>2, <2>3 DEF CellInv, Rest
  <2> QED BY <2>4
<1>2. ASSUME Working, Rest PROVE CellInv'
  <2>1. prepared'.base = Base
    BY <1>2, WorkingStages DEF CellInv
  <2> QED BY <1>2, <2>1 DEF CellInv
<1>3. CASE AgentRuns
  <2>1. job'.stage = "between" /\ job'.call = job.call
    BY <1>3, MoveFields DEF AgentRuns, JobOf
  <2> QED BY <1>0, <1>2, <1>3, <2>1 DEF AgentRuns, At, Working
<1>4. CASE LateWrite
  <2>1. PICK u : job' = [job EXCEPT !.touched = u]
    BY <1>4 DEF LateWrite
  <2>2. job'.stage = job.stage /\ job'.call = job.call
    BY <2>1, MoveFields DEF JobOf
  <2>3. Rest
    BY <1>0, <1>4, <2>2 DEF LateWrite, CellInv
  <2> HIDE DEF Rest
  <2> QED BY <1>2, <1>4, <2>3 DEF Working
<1>5. CASE GraderRuns \/ Unreadable \/ GitRaises \/ Changed \/ Refuse \/ FinalizeRaises
  <2>1. job' = Between /\ UNCHANGED <<frozen, record>> /\ job.stage # "done"
    BY <1>5 DEF GraderRuns, Unreadable, GitRaises, Changed, Refuse, FinalizeRaises, Confirmed, Unchanged, At, Scans
  <2>2. Rest
    BY <1>0, <2>1, RestType
  <2> HIDE DEF Rest
  <2> QED BY <1>2, <1>5, <2>2 DEF Working, Recompute
<1>6. CASE Freeze
  <2>1. job' = Between /\ UNCHANGED record /\ job.stage = "after" /\ frozen' = job.first /\ job.call = "confirm"
    BY <1>6 DEF Freeze, Confirmed, Unchanged, At
  <2>2. job.first.candidate.parent = Base.tree
    BY <2>1 DEF FreezeInv
  <2>3. Rest
    BY <2>1, <2>2, RestType DEF CellInv
  <2> HIDE DEF Rest
  <2> QED BY <1>2, <1>6, <2>3 DEF Working
<1>7. CASE ReadFile
  <2>1. UNCHANGED <<frozen, record>> /\ job.stage \in Reading
    BY <1>7 DEF ReadFile, Reading
  <2>2. CASE job' = Between
    BY <1>0, <1>2, <1>7, <2>1, <2>2, RestType DEF Working, Recompute, Reading, Scans
  <2>3. CASE job' # Between
    <3>1. job'.stage = job.stage /\ job'.call = job.call
      BY <1>7, <2>3, ReadMove DEF JobOf
    <3>2. Rest
      BY <1>0, <2>1, <3>1 DEF CellInv, Reading, Scans
    <3> HIDE DEF Rest
    <3> QED BY <1>2, <1>7, <3>2 DEF Working, Recompute
  <2> QED BY <2>2, <2>3
<1>15. CASE StageFile
  <2>1. job'.stage = job.stage /\ job'.call = job.call
    BY <1>15, StageMove DEF JobOf
  <2> QED BY <1>0, <1>2, <1>15, <2>1 DEF StageFile, At, Working, Recompute
<1>8. CASE Inspected
  <2>1. job'.stage = "stage" /\ job'.call = job.call
    BY <1>8, InspectedMove DEF JobOf
  <2> QED BY <1>0, <1>2, <1>8, <2>1 DEF Inspected, At, Working, Recompute
<1>9. CASE CommitCandidate
  <2>1. job'.stage = "after" /\ job'.call = job.call
    BY <1>9, CommitMove DEF JobOf
  <2> QED BY <1>0, <1>2, <1>9, <2>1 DEF CommitCandidate, At, Working, Recompute
<1>10. CASE FreezeAgain
  <2>1. job'.stage = "before" /\ job'.call = "confirm"
    <3>1. job' = Fresh("before", "confirm", Evidence)
      BY <1>10, FreshFields DEF FreezeAgain
    <3> QED BY <3>1, FreshFacts
  <2> QED BY <1>0, <1>2, <1>10, <2>1 DEF FreezeAgain, Unchanged, At, Working
<1>11. CASE InspectDelta
  <2>1. job'.stage = "delta" /\ job'.call = "finalize" /\ job.call = "finalize"
    <3>1. job' = Fresh("delta", "finalize", None) /\ job.call = "finalize"
      BY <1>11, FreshFields DEF InspectDelta
    <3> QED BY <3>1, FreshFacts
  <2> QED BY <1>0, <1>2, <1>11, <2>1 DEF InspectDelta, Confirmed, Unchanged, At, Working
<1>12. ASSUME NEW call \in {"freeze", "invoke", "finalize", "infrastructure"}, Begin(call) PROVE CellInv'
  <2>1. job' = Fresh("before", call, None)
    BY <1>12, FreshFields DEF Begin
  <2>2. job'.stage = "before" /\ job'.call = call
    BY <2>1, FreshFacts
  <2>3. Rest
    BY <1>12, <2>2 DEF Begin, CellInv
  <2> HIDE DEF Rest
  <2> QED BY <1>2, <1>12, <2>3 DEF Working
<1>13. CASE Invoke \/ FinalizeGraded \/ FinalizeInfrastructure
  <2>1. UNCHANGED frozen /\ (Invoke => UNCHANGED record) /\ job.stage \in {"after", "delta"}
    BY <1>13 DEF Invoke, FinalizeGraded, FinalizeInfrastructure, Confirmed, Unchanged, At
  <2>2. "grading" \in Stages /\ "done" \in Stages
    BY DEF Stages, Prepared
  <2>3. CASE Invoke
    <3>1. job' = [Between EXCEPT !.stage = "grading"]
      BY <2>3 DEF Invoke
    <3>2. job'.stage = "grading" /\ job'.call = "none"
      BY <2>2, <3>1, RestType
    <3> QED BY <1>0, <1>2, <2>1, <2>3, <3>2 DEF Working
  <2>4. CASE FinalizeGraded \/ FinalizeInfrastructure
    <3>1. job' = [Between EXCEPT !.stage = "done"]
      BY <2>4 DEF FinalizeGraded, FinalizeInfrastructure
    <3>2. job'.stage = "done" /\ job'.call = "none"
      BY <2>2, <3>1, RestType
    <3>3. Rest
      BY <2>1, <3>2 DEF CellInv
    <3> HIDE DEF Rest
    <3> QED BY <1>2, <2>4, <3>3 DEF Working
  <2> QED BY <1>13, <2>3, <2>4
<1>14. CASE UNCHANGED vars
  BY <1>14 DEF vars, CellInv
<1> QED
  BY <1>1, <1>3, <1>4, <1>5, <1>6, <1>7, <1>8, <1>9, <1>10, <1>11, <1>12, <1>13, <1>14, <1>15 DEF Next, Recompute

\* CellInv holds throughout.
LEMMA CellHolds == Spec => []CellInv
<1>1. Init => CellInv
  BY RestType DEF Init, CellInv, Prepared, Reading, Scans
<1> QED BY <1>1, CellStep, TypeCorrect, PrepareHolds, FreezeHolds, PTL DEF Spec

\* What a session has when it makes a record is an ending of a trial.
LEMMA EndingType ==
  ASSUME TypeOK, CellInv, job.call \in {"finalize", "infrastructure"}, NEW t \in Tree
  PROVE  [base |-> Base, candidate |-> frozen.candidate, bundle |-> Bundle(t)] \in Endings
<1>1. frozen \in Evidences /\ frozen.candidate.parent = Base.tree
  BY DEF TypeOK, CellInv
<1>2. frozen.candidate \in {c \in Commit : c.parent = Base.tree}
  BY <1>1 DEF Evidences
<1>3. Bundle(t) \in {Bundle(u) : u \in Tree}
  OBVIOUS
<1> HIDE DEF Base
<1> QED BY <1>2, <1>3 DEF Endings

\* A session that is prepared has a cell open in the campaign.
LEMMA CellOpen ==
  ASSUME TypeOK, CellInv, job.stage \in Reading
  PROVE  Cell \in Campaign!Cells(Plan) /\ Campaign!Open(Cell) /\ record = None
<1>1. job.stage \notin {"new", "copy", "init", "base"} /\ record = None
  BY DEF CellInv, Reading, Scans
<1>2. Cell \in Campaign!Cells(Plan) /\ Campaign!RequestBuilds(Plan, Suite, Cell)
  BY RequestAssumption, SameRequest
<1>3. Campaign!Open(Cell)
  BY <1>1, <1>2, RequestAssumption DEF Campaign!Open, Campaign!Followed
<1> QED BY <1>1, <1>2, <1>3

\* A record that the parser takes is supplied to the campaign.
LEMMA CellSupplied ==
  ASSUME record = None, record' # None,
         job.stage \notin {"new", "copy", "init", "base"},
         job'.stage \notin {"new", "copy", "init", "base"},
         NEW r, NEW o, RecordAccepted(r),
         record'.run = r, record'.observation = o
  PROVE  Campaign!Supply(r, Source, o)
<1>1. Campaign!RecordAccepted(r)
  BY SameParser
<1>2. Append(<<>>, r) = <<r>>
  OBVIOUS
<1> QED BY <1>1, <1>2 DEF Campaign!Supply

\* A graded finalization finishes the cell.
LEMMA CellGraded ==
  ASSUME TypeOK, CellInv, FinalizeGraded, record' # None
  PROVE  Campaign!CampaignNext
<1>1. PICK g \in gradings, exitCode \in 0..2, o \in Observations :
        LET delta == Delta(job.got)
            r == GradedRecord(Plan, Source, Request, delta, ResultOf(g), frozen.candidate, o)
        IN /\ ResultAccepted(ResultOf(g), Expected) /\ ProcessAgrees(exitCode, ResultOf(g))
           /\ GradedEvidence(Plan, Request, delta, ResultOf(g), frozen.candidate, o)
           /\ RecordAccepted(r) /\ record' = [run |-> r, delta |-> delta, observation |-> o]
  BY DEF FinalizeGraded
<1> DEFINE f == [base |-> Base, candidate |-> frozen.candidate, bundle |-> Bundle(job.got)]
           q == RequestOf(Plan, Suite, Cell)
           d == DeltaOf(q, f.bundle)
           e == Expectation(q, f.base, f.candidate)
           res == [identity |-> e, outcome |-> g.outcome, checks |-> {[outcome |-> g.outcome]}]
           r == GradedRecord(Plan, Source, q, d, res, f.candidate, o)
<1>2. job.stage = "delta" /\ job' = [Between EXCEPT !.stage = "done"]
  BY DEF FinalizeGraded, At
<1>3. job'.stage = "done"
  <2>1. "done" \in Stages
    BY DEF Stages, Prepared
  <2> QED BY <1>2, <2>1, RestType
<1>4. /\ job.call = "finalize" /\ prepared.base = Base /\ job.got \in Tree
      /\ g.outcome \in {"passed", "failed"}
  BY <1>2 DEF CellInv, TypeOK, Jobs, Prepared, Reading, Scans
<1>5. Cell \in Campaign!Cells(Plan) /\ Campaign!Open(Cell) /\ record = None
  BY <1>2, CellOpen DEF Reading, Scans
<1>6. f \in Endings
  BY <1>4, EndingType
<1>7. f.base = Base /\ f.candidate = frozen.candidate /\ f.bundle = Bundle(job.got)
  OBVIOUS
<1> HIDE DEF f
<1>8. e = Expected /\ d = Delta(job.got) /\ q = Request
  BY <1>4, <1>7 DEF Expected, Delta, Request
<1>9. res = ResultOf(g)
  <2>1. ResultOf(g).identity = Expected
    BY <1>1 DEF ResultAccepted
  <2>2. ResultOf(g) = [identity |-> ResultOf(g).identity, outcome |-> g.outcome, checks |-> {[outcome |-> g.outcome]}]
    BY DEF ResultOf
  <2> HIDE DEF e
  <2> QED BY <1>8, <2>1, <2>2
<1> HIDE DEF q, d, e, res
<1>10. /\ ResultAccepted(res, e) /\ ProcessAgrees(exitCode, res)
       /\ GradedEvidence(Plan, q, d, res, f.candidate, o)
       /\ RecordAccepted(r) /\ record' = [run |-> r, delta |-> d, observation |-> o]
  BY <1>1, <1>7, <1>8, <1>9
<1>11. record'.run = r /\ record'.observation = o
  <2> HIDE DEF r
  <2> QED BY <1>10
<1>12. Campaign!Supply(r, Source, o)
  <2> HIDE DEF r
  <2> QED BY <1>2, <1>3, <1>5, <1>10, <1>11, CellSupplied
<1>13. /\ Campaign!RequestOf(Plan, Suite, Cell) = q
       /\ Campaign!DeltaOf(q, f.bundle) = d
       /\ Campaign!Expectation(q, f.base, f.candidate) = e
       /\ Campaign!ResultAccepted(res, e) /\ Campaign!ProcessAgrees(exitCode, res)
       /\ Campaign!GradedEvidence(Plan, q, d, res, f.candidate, o)
       /\ Campaign!GradedRecord(Plan, Source, q, d, res, f.candidate, o) = r
       /\ Campaign!GraderSource(Campaign!The(Campaign!Tasks(Suite, Cell))) = Source
  <2>1. Campaign!RequestOf(Plan, Suite, Cell) = q
    BY SameRequest DEF q
  <2>2. Campaign!DeltaOf(q, f.bundle) = d
    BY SameDelta DEF d
  <2>3. Campaign!Expectation(q, f.base, f.candidate) = e
    BY SameResult DEF e
  <2>4. Campaign!ResultAccepted(res, e) /\ Campaign!ProcessAgrees(exitCode, res)
    BY <1>10, SameResult
  <2>5. Campaign!GradedEvidence(Plan, q, d, res, f.candidate, o)
    BY <1>10, SameEvidence
  <2>6. Campaign!GradedRecord(Plan, Source, q, d, res, f.candidate, o) = r
    BY SameRecord
  <2>7. Campaign!GraderSource(Campaign!The(Campaign!Tasks(Suite, Cell))) = Source
    BY SameRequest DEF Source
  <2> QED BY <2>1, <2>2, <2>3, <2>4, <2>5, <2>6, <2>7
<1> HIDE DEF r
<1>14. Campaign!FinishGraded(Cell)
  <2>1. g.outcome \in Campaign!Outcomes
    BY <1>4 DEF Campaign!Outcomes
  <2> DEFINE loaded == IF job.stage \in {"new", "copy", "init", "base"} THEN None ELSE Suite
  <2>0. loaded = Suite
    BY <1>2
  <2> HIDE DEF loaded
  <2>2. LET request == Campaign!RequestOf(Plan, loaded, Cell)
            source == Campaign!GraderSource(Campaign!The(Campaign!Tasks(loaded, Cell)))
            delta == Campaign!DeltaOf(request, f.bundle)
            expected == Campaign!Expectation(request, f.base, f.candidate)
            result == [identity |-> expected, outcome |-> g.outcome, checks |-> {[outcome |-> g.outcome]}]
        IN /\ Campaign!ResultAccepted(result, expected) /\ Campaign!ProcessAgrees(exitCode, result)
           /\ Campaign!GradedEvidence(Plan, request, delta, result, f.candidate, o)
           /\ Campaign!Supply(Campaign!GradedRecord(Plan, source, request, delta, result, f.candidate, o), source, o)
    BY <1>12, <1>13, <2>0 DEF res
  <2>3. LET request == Campaign!RequestOf(Plan, loaded, Cell)
            source == Campaign!GraderSource(Campaign!The(Campaign!Tasks(loaded, Cell)))
            delta == Campaign!DeltaOf(request, f.bundle)
            expected == Campaign!Expectation(request, f.base, f.candidate)
            result == [identity |-> expected, outcome |-> g.outcome, checks |-> {[outcome |-> g.outcome]}]
        IN /\ Campaign!ResultAccepted(result, expected) /\ Campaign!ProcessAgrees(exitCode, result)
           /\ \E ob \in Observations :
                /\ Campaign!GradedEvidence(Plan, request, delta, result, f.candidate, ob)
                /\ Campaign!Supply(Campaign!GradedRecord(Plan, source, request, delta, result, f.candidate, ob), source, ob)
    BY <2>2
  <2> QED BY <1>5, <1>6, <2>1, <2>3 DEF Campaign!FinishGraded, loaded
<1> QED BY <1>5, <1>14 DEF Campaign!CampaignNext

\* So does a finalization for infrastructure.
LEMMA CellInfrastructure ==
  ASSUME TypeOK, CellInv, FinalizeInfrastructure, record' # None
  PROVE  Campaign!CampaignNext
<1>1. PICK o \in Observations :
        LET r == InfrastructureRecord(Request, frozen.candidate, o) IN
        /\ InfrastructureEvidence(frozen.candidate, o) /\ RecordAccepted(r)
        /\ record' = [run |-> r, delta |-> None, observation |-> o]
  BY DEF FinalizeInfrastructure
<1> DEFINE f == [base |-> Base, candidate |-> frozen.candidate, bundle |-> Bundle(Empty)]
           q == RequestOf(Plan, Suite, Cell)
           r == InfrastructureRecord(q, f.candidate, o)
<1>2. job.stage = "after" /\ job.call = "infrastructure" /\ job' = [Between EXCEPT !.stage = "done"]
  BY DEF FinalizeInfrastructure, Confirmed, Unchanged, At
<1>3. job'.stage = "done"
  <2>1. "done" \in Stages
    BY DEF Stages, Prepared
  <2> QED BY <1>2, <2>1, RestType
<1>4. Cell \in Campaign!Cells(Plan) /\ Campaign!Open(Cell) /\ record = None
  BY <1>2, CellOpen DEF Reading, Scans
<1>5. f \in Endings
  <2>1. Empty \in Tree
    BY TreeType
  <2> QED BY <1>2, <2>1, EndingType
<1>6. f.candidate = frozen.candidate
  OBVIOUS
<1> HIDE DEF f
<1>7. /\ InfrastructureEvidence(f.candidate, o) /\ RecordAccepted(r)
      /\ record' = [run |-> r, delta |-> None, observation |-> o]
  BY <1>1, <1>6 DEF Request
<1> HIDE DEF q
<1>8. /\ Campaign!RequestOf(Plan, Suite, Cell) = q
      /\ Campaign!GraderSource(Campaign!The(Campaign!Tasks(Suite, Cell))) = Source
  BY SameRequest DEF q, Source
<1>9. Campaign!InfrastructureRecord(q, f.candidate, o) = r /\ Campaign!InfrastructureEvidence(f.candidate, o)
  BY <1>7, SameRecord, SameEvidence
<1> HIDE DEF r
<1>10. record'.run = r /\ record'.observation = o
  BY <1>7
<1>11. Campaign!Supply(r, Source, o)
  BY <1>2, <1>3, <1>4, <1>7, <1>10, CellSupplied
<1>12. Campaign!FinishInfrastructure(Cell)
  <2> DEFINE loaded == IF job.stage \in {"new", "copy", "init", "base"} THEN None ELSE Suite
  <2>1. loaded = Suite
    BY <1>2
  <2> HIDE DEF loaded
  <2>2. /\ Campaign!InfrastructureEvidence(f.candidate, o)
        /\ Campaign!Supply(Campaign!InfrastructureRecord(Campaign!RequestOf(Plan, loaded, Cell), f.candidate, o),
                           Campaign!GraderSource(Campaign!The(Campaign!Tasks(loaded, Cell))), o)
    BY <1>8, <1>9, <1>11, <2>1
  <2> QED BY <1>4, <1>5, <2>2 DEF Campaign!FinishInfrastructure, loaded
<1> QED BY <1>4, <1>12 DEF Campaign!CampaignNext

\* Each step of a trial is one of its campaign, or none.
LEMMA CellMaps ==
  ASSUME TypeOK, PrepareInv, FreezeInv, CellInv, CellInv', TypeOK', [Next]_vars
  PROVE  [Campaign!CampaignNext]_(Campaign!campaignVars)
<1> DEFINE Early == {"new", "copy", "init", "base"}
<1>1. ASSUME UNCHANGED record, job'.stage \in Early <=> job.stage \in Early
      PROVE  UNCHANGED Campaign!campaignVars
  BY <1>1 DEF Campaign!campaignVars
<1>2. CASE Prepare \/ Crash \/ Dispose
  <2>1. UNCHANGED record /\ job.stage \in Early
    BY <1>2, PreparingStages DEF Preparing
  <2>2. CASE CommitBase
    <3>1. job'.stage \notin Early /\ record = None
      BY <1>2, <2>1, <2>2, AgentStarts DEF CellInv
    <3>2. Campaign!Load
      BY <2>1, <3>1, RequestAssumption, SameLoading DEF Campaign!Load, Suite
    <3> QED BY <3>2 DEF Campaign!CampaignNext
  <2>3. CASE ~CommitBase
    BY <1>1, <1>2, <2>1, <2>3, AgentStarts DEF Preparing
  <2> QED BY <2>2, <2>3
<1>3. CASE Working
  <2>1. job.stage \notin Early /\ job'.stage \notin Early
    BY <1>3, WorkingStages DEF Prepared, Reading, Scans
  <2>2. CASE UNCHANGED record
    BY <1>1, <2>1, <2>2
  <2>3. CASE ~UNCHANGED record
    <3>1. FinalizeGraded \/ FinalizeInfrastructure
      BY <1>3, <2>3 DEF Working, AgentRuns, GraderRuns, LateWrite, Begin, Recompute, ReadFile, StageFile, GitRaises,
         Unreadable, Inspected, CommitCandidate, Changed, Refuse, FreezeAgain, Freeze, Invoke, InspectDelta, FinalizeRaises
    <3>2. job.stage \in Reading
      BY <3>1 DEF FinalizeGraded, FinalizeInfrastructure, Confirmed, Unchanged, At, Reading, Scans
    <3>3. record = None
      BY <3>2, CellOpen
    <3> QED BY <2>3, <3>1, <3>3, CellGraded, CellInfrastructure
  <2> QED BY <2>2, <2>3
<1>4. CASE UNCHANGED vars
  BY <1>1, <1>4 DEF vars
<1> QED BY <1>2, <1>3, <1>4 DEF Next, Prepare, Working

\* A trial, with its inspections, writes, crashes and refusals, implements
\* the campaign in which its cell is finished at once: each of its records is
\* one the campaign may be supplied with (finalize_graded_evaluation_session(),
\* finalize_infrastructure_evaluation_session()).
THEOREM TrialIsCellCorrect == Spec => TrialIsCell
<1>1. Init => Campaign!CampaignInit
  BY RestType DEF Init, Campaign!CampaignInit
<1>2. /\ TypeOK /\ PrepareInv /\ FreezeInv /\ CellInv /\ CellInv' /\ TypeOK' /\ [Next]_vars
      => [Campaign!CampaignNext]_(Campaign!campaignVars)
  BY CellMaps
<1> QED BY <1>1, <1>2, TypeCorrect, PrepareHolds, FreezeHolds, CellHolds, PTL
        DEF Spec, TrialIsCell, Campaign!CampaignSpec
==============================================================================
