-------------------------- MODULE QueueRetryProofs --------------------------
(***************************************************************************)
(* TypeOK, WriteAhead, DispatchedOnce, NoGaps and StopIsFinal hold of Spec *)
(* for every value of the constants.  The argument: only the one running   *)
(* job dispatches; from its look at the runs to its dispatch nobody adds a *)
(* retry, and a retry that was dispatched on another commit than the       *)
(* recorded one belongs to a request that is over, since the default       *)
(* branch never comes back; one that was run again stays so.  Records are  *)
(* made by that job too, and the attempt it chose follows those it read:   *)
(* nobody else adds one.                                                   *)
(***************************************************************************)
EXTENDS QueueRetry, FiniteSetTheorems, TLAPS

(* A run keeps what identifies it. *)
Same(r, s) ==
  /\ r.kind = s.kind
  /\ r.id = s.id
  /\ r.request = s.request
  /\ r.attempt = s.attempt
  /\ r.head = s.head

(* The commits and comments counted so far are no more than the steps that *)
(* make them.                                                              *)
Counted ==
  /\ default <= changes
  /\ \A i \in Issue : issues[i].trigger <= changes /\ forwards[i] <= changes

Put == {"active", "candidate again", "put"}
Late == {"exact", "default", "candidate last", "control", "active last", "dispatch"}
Absent == Late \ {"exact"}
Current == Absent \ {"default"}

(* Every dispatch of this attempt, if there was one, was run again. *)
Undispatched(request, attempt) ==
  \A n \in Retries :
    runs[n].request = request /\ runs[n].attempt = attempt => RunAgain(n)

(* What the job knows at its stage. *)
JobOK ==
  /\ job.request.base <= default
  /\ job.stage = "runs" => Recorded(job.request) = 1..job.known
  /\ job.stage \in Put => job.attempt = job.known + 1
  /\ job.stage \in Late =>
       \E record \in retries : record.request = job.request /\ record.attempt = job.attempt
  /\ job.stage \in Absent => ExactRuns(job.request, job.attempt) = {}
  /\ job.stage \in Current => Undispatched(job.request, job.attempt)

(* A retry runs on the commit of its request, or its request is over. *)
OnBase ==
  \A n \in Retries :
    runs[n].head = runs[n].request.base \/ runs[n].request.base < default

(* The records and the repository keep their types. *)
QueueOK ==
  /\ default \in Base
  /\ issues \in [Issue -> [open : BOOLEAN, body : Body, trigger : Trigger, candidate : BOOLEAN]]
  /\ runs \in Seq(Run)
  /\ forwards \in [Issue -> Trigger]
  /\ retries \subseteq Record
  /\ stops \subseteq Request
  /\ changes \in 0..MaxChanges

(* No run changes its identity and no retry is added. *)
RunsKept ==
  /\ runs' \in Seq(Run)
  /\ Len(runs) <= Len(runs')
  /\ \A n \in 1..Len(runs) : Same(runs'[n], runs[n])
  /\ \A n \in (Len(runs) + 1)..Len(runs') : runs'[n].kind # "retry"

(* What a step does that is not one of the job's. *)
Outside ==
  /\ RunsKept
  /\ retries' = retries
  /\ default <= default'

(* Before its record is put, the attempts known to the job are those that  *)
(* are recorded, and all of them were dispatched.                          *)
GapOK ==
  job.stage \in Put =>
    /\ Recorded(job.request) = 1..job.known
    /\ \A a \in 1..job.known : Dispatched(job.request, a) # {}

(* No job goes on with a request that has a terminal record.               *)
StopOK == job.stage \in {"runs"} \cup Put \cup Late => job.request \notin stops

IInv == TypeOK /\ Counted /\ JobOK /\ WriteAhead /\ DispatchedOnce /\ OnBase

-----------------------------------------------------------------------------
LEMMA NewRunType ==
  ASSUME default \in Base, runs \in Seq(Run), NEW kind \in Kind, NEW request \in Request,
         NEW attempt \in 0..MaxRetries
  PROVE  NewRun(kind, request, attempt) \in Run
  BY DEF NewRun, Run, RunState, Outcome, Request

LEMMA NoRequestType == NoRequest \in Request
  BY IssueAssumption, BodyAssumption, BoundAssumption DEF NoRequest, Request, Base, Trigger

(* One more run: the others keep their identity. *)
LEMMA EnqueuedRuns ==
  ASSUME runs \in Seq(Run), NEW run \in Run
  PROVE  /\ Enqueued(run) \in Seq(Run)
         /\ Len(Enqueued(run)) = Len(runs) + 1
         /\ Enqueued(run)[Len(runs) + 1] = run
         /\ \A n \in 1..Len(runs) : Same(Enqueued(run)[n], runs[n])
<1> DEFINE q == [n \in 1..Len(runs) |->
                   IF runs[n].issue = run.issue /\ runs[n].state # "done" /\ ~Holds(n)
                   THEN [runs[n] EXCEPT !.state = "done", !.outcome = "cancelled"]
                   ELSE runs[n]]
<1>1. DOMAIN runs = 1..Len(runs) /\ Len(runs) \in Nat
  OBVIOUS
<1>2. Enqueued(run) = Append(q, run)
  BY <1>1 DEF Enqueued
<1>3. \A n \in 1..Len(runs) : q[n] \in Run /\ Same(q[n], runs[n])
  <2> SUFFICES ASSUME NEW n \in 1..Len(runs) PROVE q[n] \in Run /\ Same(q[n], runs[n])
    OBVIOUS
  <2>1. runs[n] \in Run
    OBVIOUS
  <2>2. [runs[n] EXCEPT !.state = "done", !.outcome = "cancelled"] \in Run
    BY <2>1 DEF Run, RunState, Outcome
  <2> QED
    BY <2>1, <2>2 DEF Same, Run
<1>q. q \in [1..Len(runs) -> Run]
  BY <1>3
<1> HIDE DEF q
<1>4. q \in Seq(Run) /\ Len(q) = Len(runs)
  <2> DEFINE k == Len(runs)
  <2>1. k \in Nat /\ q \in [1..k -> Run]
    BY <1>1, <1>q
  <2> HIDE DEF k
  <2>2. q \in Seq(Run) /\ Len(q) = k
    BY <2>1
  <2> QED
    BY <2>2 DEF k
<1>5. /\ Append(q, run) \in Seq(Run)
      /\ Len(Append(q, run)) = Len(runs) + 1
      /\ Append(q, run)[Len(runs) + 1] = run
      /\ \A n \in 1..Len(runs) : Append(q, run)[n] = q[n]
  BY <1>1, <1>4
<1> QED
  BY <1>2, <1>3, <1>5

LEMMA TypeParts == TypeOK <=> QueueOK /\ pending \in Event /\ job \in Job
  BY DEF TypeOK, QueueOK

LEMMA SetRunRuns ==
  ASSUME runs \in Seq(Run), NEW n \in DOMAIN runs, NEW state \in RunState,
         NEW outcome \in Outcome, SetRun(n, state, outcome)
  PROVE  RunsKept
<1>1. runs[n] \in Run
  OBVIOUS
<1> DEFINE r == [runs[n] EXCEPT !.state = state, !.outcome = outcome]
<1>2. r \in Run /\ Same(r, runs[n])
  BY <1>1 DEF Run, Same
<1>3. runs' = [runs EXCEPT ![n] = r]
  BY DEF SetRun
<1> HIDE DEF r
<1>4. runs' \in Seq(Run) /\ Len(runs') = Len(runs)
  BY <1>2, <1>3
<1>5. \A m \in 1..Len(runs) : Same(runs'[m], runs[m])
  BY <1>2, <1>3 DEF Same
<1> QED
  BY <1>4, <1>5 DEF RunsKept

LEMMA EnqueuedKept ==
  ASSUME runs \in Seq(Run), NEW run \in Run, run.kind # "retry", runs' = Enqueued(run)
  PROVE  RunsKept
<1>1. /\ runs' \in Seq(Run)
      /\ Len(runs') = Len(runs) + 1
      /\ runs'[Len(runs) + 1] = run
      /\ \A n \in 1..Len(runs) : Same(runs'[n], runs[n])
  BY EnqueuedRuns
<1>2. Len(runs) \in Nat
  OBVIOUS
<1> QED
  BY <1>1, <1>2 DEF RunsKept

LEMMA UnchangedKept ==
  ASSUME runs \in Seq(Run), runs' = runs
  PROVE  RunsKept
  BY DEF RunsKept, Same

(* An attempt of a run that has been followed by another stays so. *)
LEMMA AgainKept ==
  ASSUME runs \in Seq(Run), runs' \in Seq(Run), Len(runs) <= Len(runs'),
         \A n \in 1..Len(runs) : Same(runs'[n], runs[n])
  PROVE  \A n \in DOMAIN runs : RunAgain(n) => RunAgain(n)'
<1>1. DOMAIN runs = 1..Len(runs) /\ DOMAIN runs' = 1..Len(runs')
      /\ Len(runs) \in Nat /\ Len(runs') \in Nat
  OBVIOUS
<1> SUFFICES ASSUME NEW n \in DOMAIN runs, NEW m \in DOMAIN runs, runs[m].id = runs[n].id, m > n
             PROVE  RunAgain(n)'
  BY DEF RunAgain, Attempts
<1>2. m \in DOMAIN runs' /\ runs'[m].id = runs'[n].id
  BY <1>1 DEF Same
<1> QED
  BY <1>2 DEF RunAgain, Attempts

LEMMA SecondAttemptType ==
  ASSUME NEW run \in Run
  PROVE  SecondAttempt(run) \in Run /\ SecondAttempt(run).kind # "retry"
<1> DEFINE kind == IF run.kind \in {"trigger", "ignored"} THEN run.kind ELSE "again"
<1>1. kind \in Kind /\ kind # "retry"
  BY DEF Kind
<1>2. SecondAttempt(run) =
        [run EXCEPT !.kind = kind, !.state = "queued", !.outcome = "none", !.told = FALSE]
  BY DEF SecondAttempt
<1> HIDE DEF kind
<1> QED
  BY <1>1, <1>2 DEF Run, RunState, Outcome

LEMMA OtherRunType ==
  ASSUME default \in Base, runs \in Seq(Run), NEW kind \in Kind, NEW i \in Issue
  PROVE  OtherRun(kind, i) \in Run /\ OtherRun(kind, i).kind = kind
<1>1. [NoRequest EXCEPT !.issue = i] \in Request
  BY NoRequestType DEF Request
<1> HIDE DEF NoRequest
<1>2. OtherRun(kind, i) \in Run
  BY <1>1, NewRunType, BoundAssumption DEF OtherRun
<1> QED
  BY <1>2 DEF OtherRun, NewRun

LEMMA QueueStepType ==
  ASSUME QueueOK, Counted, QueueStep
  PROVE  QueueOK' /\ Counted' /\ Outside
<1>1. CASE \E n \in DOMAIN runs : Prepare(n) \/ Implement(n)
  <2>1. PICK n \in DOMAIN runs : Prepare(n) \/ Implement(n)
    BY <1>1
  <2>2. UNCHANGED <<default, issues, forwards, retries, stops, changes>>
    BY <2>1 DEF Prepare, Implement
  <2>3. \/ SetRun(n, "allowed", "none") \/ SetRun(n, "done", "contract")
        \/ SetRun(n, "done", "denied") \/ SetRun(n, "done", "unavailable")
    BY <2>1 DEF Prepare, Implement
  <2>4. RunsKept
    BY <2>3, SetRunRuns DEF QueueOK, RunState, Outcome
  <2> QED
    BY <2>2, <2>4 DEF QueueOK, Counted, Outside, RunsKept, Base
<1>2. CASE \E i \in Issue : Forward(i)
  <2>1. PICK i \in Issue : Forward(i)
    BY <1>2
  <2>2. /\ UNCHANGED <<default, issues, retries, stops, changes>>
        /\ runs' = Enqueued(OtherRun("bridged", i))
        /\ forwards' = [forwards EXCEPT ![i] = @ - 1]
        /\ forwards[i] > 0
    BY <2>1 DEF Forward
  <2>3. RunsKept
    BY <2>2, OtherRunType, EnqueuedKept DEF QueueOK, Kind
  <2>4. forwards' \in [Issue -> Trigger] /\ \A k \in Issue : forwards'[k] <= forwards[k]
    <3>1. forwards[i] \in 1..MaxChanges /\ \A k \in Issue : forwards[k] \in 0..MaxChanges
      BY <2>2 DEF QueueOK, Trigger
    <3>2. forwards[i] - 1 \in 0..MaxChanges /\ forwards[i] - 1 <= forwards[i]
      BY <3>1, BoundAssumption
    <3> QED
      BY <2>2, <3>1, <3>2, BoundAssumption DEF QueueOK, Trigger
  <2>5. Counted'
    BY <2>2, <2>4 DEF Counted, QueueOK, Trigger
  <2> QED
    BY <2>2, <2>3, <2>4, <2>5 DEF QueueOK, Outside, RunsKept, Base
<1> QED
  BY <1>1, <1>2 DEF QueueStep

LEMMA OutageType ==
  ASSUME QueueOK, Counted, NEW n \in DOMAIN runs, Outage(n)
  PROVE  QueueOK' /\ Counted' /\ Outside
<1>1. UNCHANGED <<default, issues, forwards, retries, stops>> /\ changes' = changes + 1
      /\ changes < MaxChanges
  BY DEF Outage, Change
<1>2. RunsKept
  BY SetRunRuns DEF Outage, QueueOK, RunState, Outcome
<1>3. changes' \in 0..MaxChanges
  BY <1>1, BoundAssumption DEF QueueOK
<1>4. Counted'
  BY <1>1, BoundAssumption DEF Counted, QueueOK, Base, Trigger
<1> QED
  BY <1>1, <1>2, <1>3, <1>4 DEF QueueOK, Outside, RunsKept, Base

(* The runs an event of the repository starts are no retries. *)
LEMMA StartedType ==
  ASSUME QueueOK, Counted, NEW i \in Issue, NEW kind \in Kind, kind # "retry",
         runs' = Enqueued(OtherRun(kind, i)), changes' = changes + 1, changes < MaxChanges,
         UNCHANGED <<default, issues, forwards, retries, stops>>
  PROVE  QueueOK' /\ Counted' /\ Outside
<1>1. RunsKept
  BY OtherRunType, EnqueuedKept DEF QueueOK
<1>2. changes' \in 0..MaxChanges
  BY BoundAssumption DEF QueueOK
<1>3. Counted'
  BY BoundAssumption DEF Counted, QueueOK, Base, Trigger
<1> QED
  BY <1>1, <1>2, <1>3 DEF QueueOK, Outside, RunsKept, Base

LEMMA RerunType ==
  ASSUME QueueOK, Counted, NEW n \in DOMAIN runs, Rerun(n)
  PROVE  QueueOK' /\ Counted' /\ Outside
<1>1. /\ UNCHANGED <<default, issues, forwards, retries, stops>>
      /\ changes' = changes + 1 /\ changes < MaxChanges
      /\ runs' = Enqueued(SecondAttempt(runs[n]))
  BY DEF Rerun, Change
<1>2. RunsKept
  <2>1. runs \in Seq(Run) /\ runs[n] \in Run
    BY DEF QueueOK
  <2> QED
    BY <1>1, <2>1, SecondAttemptType, EnqueuedKept
<1>3. changes' \in 0..MaxChanges
  BY <1>1, BoundAssumption DEF QueueOK
<1>4. Counted'
  BY <1>1, BoundAssumption DEF Counted, QueueOK, Base, Trigger
<1> QED
  BY <1>1, <1>2, <1>3, <1>4 DEF QueueOK, Outside, RunsKept, Base

LEMMA TriggerType ==
  ASSUME QueueOK, Counted, NEW i \in Issue, TriggerComment(i)
  PROVE  QueueOK' /\ Counted' /\ Outside
<1>1. /\ changes' = changes + 1 /\ changes < MaxChanges
      /\ issues' = [issues EXCEPT ![i] = [issues[i] EXCEPT !.trigger = issues[i].trigger + 1]]
      /\ runs' = Enqueued(OtherRun("trigger", i))
      /\ forwards' = [forwards EXCEPT ![i] = forwards[i] + 1]
      /\ UNCHANGED <<default, retries, stops>>
  BY DEF TriggerComment, Change
<1>2. RunsKept
  BY <1>1, OtherRunType, EnqueuedKept DEF QueueOK, Kind
<1>3. changes' \in 0..MaxChanges /\ changes \in Nat
  BY <1>1, BoundAssumption DEF QueueOK
<1>4. \A k \in Issue :
        /\ issues[k].trigger \in Nat /\ issues[k].trigger <= changes
        /\ forwards[k] \in Nat /\ forwards[k] <= changes
  BY DEF QueueOK, Counted, Trigger
<1>5. issues[i].trigger + 1 \in Trigger /\ forwards[i] + 1 \in Trigger
  BY <1>1, <1>3, <1>4, BoundAssumption DEF Trigger
<1>6. forwards' \in [Issue -> Trigger]
  BY <1>1, <1>5 DEF QueueOK
<1> DEFINE new == [issues[i] EXCEPT !.trigger = issues[i].trigger + 1]
<1>7. new \in [open : BOOLEAN, body : Body, trigger : Trigger, candidate : BOOLEAN]
      /\ new.trigger = issues[i].trigger + 1
  <2>1. issues[i] \in [open : BOOLEAN, body : Body, trigger : Trigger, candidate : BOOLEAN]
    BY DEF QueueOK
  <2> QED
    BY <1>5, <2>1
<1> HIDE DEF new
<1>8. issues' = [issues EXCEPT ![i] = new]
  BY <1>1 DEF new
<1>9. issues' \in [Issue -> [open : BOOLEAN, body : Body, trigger : Trigger, candidate : BOOLEAN]]
  BY <1>7, <1>8 DEF QueueOK
<1>10. Counted'
  <2>1. default' <= changes'
    BY <1>1, <1>3 DEF Counted, QueueOK, Base
  <2>2. ASSUME NEW k \in Issue PROVE issues'[k].trigger <= changes' /\ forwards'[k] <= changes'
    <3>1. issues'[k].trigger <= issues[k].trigger + 1
      BY <1>4, <1>7, <1>8 DEF QueueOK
    <3>2. forwards'[k] <= forwards[k] + 1
      BY <1>1, <1>4 DEF QueueOK
    <3>3. issues'[k].trigger \in Nat /\ forwards'[k] \in Nat
      BY <1>6, <1>9 DEF Trigger
    <3> QED
      BY <1>1, <1>3, <1>4, <3>1, <3>2, <3>3
  <2> QED
    BY <2>1, <2>2 DEF Counted
<1> QED
  BY <1>1, <1>2, <1>3, <1>6, <1>9, <1>10 DEF QueueOK, Outside, RunsKept, Base

LEMMA ChangeIssueType ==
  ASSUME QueueOK, Counted, NEW i \in Issue, ChangeIssue(i)
  PROVE  QueueOK' /\ Counted' /\ Outside
<1> DEFINE T == [open : BOOLEAN, body : Body, trigger : Trigger, candidate : BOOLEAN]
<1>1. changes' = changes + 1 /\ changes < MaxChanges
      /\ UNCHANGED <<default, runs, forwards, retries, stops>>
  BY DEF ChangeIssue, Change
<1>2. PICK new : /\ issues' = [issues EXCEPT ![i] = new]
                 /\ \/ \E b \in Body : new = [issues[i] EXCEPT !.body = b]
                    \/ new = [issues[i] EXCEPT !.open = ~issues[i].open]
                    \/ new = [issues[i] EXCEPT !.candidate = ~issues[i].candidate]
  BY DEF ChangeIssue
<1>3. new \in T /\ new.trigger = issues[i].trigger
  <2>1. issues[i] \in T
    BY DEF QueueOK
  <2> QED
    BY <1>2, <2>1
<1>4. issues' \in [Issue -> T] /\ \A k \in Issue : issues'[k].trigger = issues[k].trigger
  BY <1>2, <1>3 DEF QueueOK
<1>5. RunsKept
  BY <1>1, UnchangedKept DEF QueueOK
<1>6. changes' \in 0..MaxChanges /\ changes \in Nat
  BY <1>1, BoundAssumption DEF QueueOK
<1>7. Counted'
  BY <1>1, <1>4, <1>6, BoundAssumption DEF Counted, QueueOK, Base, Trigger
<1> QED
  BY <1>1, <1>4, <1>5, <1>6, <1>7 DEF QueueOK, Outside, Base

LEMMA MoveType ==
  ASSUME QueueOK, Counted, MoveDefault
  PROVE  QueueOK' /\ Counted' /\ Outside
<1>1. changes' = changes + 1 /\ changes < MaxChanges /\ default' = default + 1
      /\ UNCHANGED <<issues, runs, forwards, retries, stops>>
  BY DEF MoveDefault, Change
<1>2. RunsKept
  BY <1>1, UnchangedKept DEF QueueOK
<1>3. default' \in Base /\ default <= default' /\ default' <= changes' /\ changes' \in 0..MaxChanges
  BY <1>1, BoundAssumption DEF QueueOK, Counted, Base
<1>4. Counted'
  BY <1>1, <1>3, BoundAssumption DEF Counted, QueueOK, Trigger
<1> QED
  BY <1>1, <1>2, <1>3, <1>4 DEF QueueOK, Outside

LEMMA WorldType ==
  ASSUME QueueOK, Counted, World
  PROVE  QueueOK' /\ Counted' /\ Outside
<1>0. CASE \E n \in DOMAIN runs : Rerun(n)
  BY <1>0, RerunType
<1>1. CASE \E n \in DOMAIN runs : Outage(n)
  BY <1>1, OutageType
<1>2. CASE \E i \in Issue : Manual(i)
  BY <1>2, StartedType DEF Manual, Change, Kind
<1>3. CASE \E i \in Issue : ChangeIssue(i)
  BY <1>3, ChangeIssueType
<1>4. CASE MoveDefault
  BY <1>4, MoveType
<1> QED
  BY <1>0, <1>1, <1>2, <1>3, <1>4 DEF World

LEMMA EventTypes ==
  /\ NoEvent \in Event /\ NoWork \in Event
  /\ [NoEvent EXCEPT !.kind = "scan"] \in Event
  /\ Idle \in Job
  /\ Idle.request.base = 0
<1>1. NoEvent \in Event /\ NoRequest \in Request
  BY NoRequestType DEF NoEvent, Event, Request
<1>2. NoWork \in Event /\ [NoEvent EXCEPT !.kind = "scan"] \in Event
  BY <1>1 DEF NoWork, Event
<1>3. Idle \in Job
  BY <1>1, BoundAssumption DEF Idle, Job, Stages, FailureClass
<1> QED
  BY <1>1, <1>2, <1>3 DEF Idle, NoRequest

LEMMA UnchangedQueue ==
  ASSUME QueueOK, Counted, UNCHANGED <<default, issues, runs, forwards, retries, stops>>,
         \/ changes' = changes
         \/ changes < MaxChanges /\ changes' = changes + 1
  PROVE  QueueOK' /\ Counted' /\ Outside
<1>1. RunsKept
  BY UnchangedKept DEF QueueOK
<1>2. changes' \in 0..MaxChanges /\ Counted'
  BY BoundAssumption DEF QueueOK, Counted, Base, Trigger
<1> QED
  BY <1>1, <1>2 DEF QueueOK, Outside, Base

LEMMA DeliverType ==
  ASSUME QueueOK, Counted, NEW n \in DOMAIN runs, Deliver(n)
  PROVE  QueueOK' /\ Counted' /\ Outside /\ pending' \in Event
<1>1. runs[n] \in Run
  BY DEF QueueOK
<1> DEFINE r == [runs[n] EXCEPT !.told = TRUE]
<1>2. r \in Run /\ Same(r, runs[n])
  BY <1>1 DEF Run, Same
<1>3. runs' = [runs EXCEPT ![n] = r]
      /\ UNCHANGED <<default, issues, forwards, retries, stops, changes>>
      /\ pending' = [kind |-> "run", run |-> n, issue |-> runs[n].issue]
  BY DEF Deliver, Arrives
<1> HIDE DEF r
<1>4. runs' \in Seq(Run) /\ Len(runs') = Len(runs)
  BY <1>2, <1>3 DEF QueueOK
<1>5. \A m \in 1..Len(runs) : Same(runs'[m], runs[m])
  BY <1>2, <1>3 DEF Same, QueueOK
<1>6. RunsKept
  BY <1>4, <1>5 DEF RunsKept
<1>7. pending' \in Event
  <2>1. n \in Nat /\ runs[n].issue \in Issue
    BY <1>1 DEF QueueOK, Run
  <2> QED
    BY <1>3, <2>1 DEF Event
<1> QED
  BY <1>3, <1>4, <1>6, <1>7 DEF QueueOK, Counted, Outside, Base

LEMMA CommentType ==
  ASSUME QueueOK, Counted, NEW i \in Issue, Comment(i)
  PROVE  QueueOK' /\ Counted' /\ Outside /\ pending' \in Event
<1>1. CASE TriggerComment(i) /\ Arrives(NoWork)
  BY <1>1, TriggerType, EventTypes DEF Arrives
<1>2. CASE Change("comment") /\ OtherComment(i) /\ Arrives(NoWork)
  BY <1>2, StartedType, EventTypes DEF Arrives, Change, OtherComment, Kind
<1>3. CASE /\ Change("control")
           /\ OtherComment(i)
           /\ Arrives([kind |-> "control", run |-> 0, issue |-> i])
  <2>1. [kind |-> "control", run |-> 0, issue |-> i] \in Event
    BY DEF Event
  <2> QED
    BY <1>3, <2>1, StartedType DEF Arrives, Change, OtherComment, Kind
<1> QED
  BY <1>1, <1>2, <1>3 DEF Comment

LEMMA OtherEventType ==
  ASSUME QueueOK, Counted, OtherEvent
  PROVE  QueueOK' /\ Counted' /\ Outside /\ pending' \in Event
<1>1. pending' \in Event
  BY EventTypes DEF OtherEvent, Arrives
<1> QED
  BY <1>1, UnchangedQueue DEF OtherEvent, Change

-----------------------------------------------------------------------------
(* Outside the job nothing it relies on is taken back. *)
LEMMA KeptInvariant ==
  ASSUME QueueOK, QueueOK', Outside, job \in Job, job' = job \/ job' = Idle,
         JobOK, WriteAhead, DispatchedOnce, OnBase
  PROVE  JobOK' /\ WriteAhead' /\ DispatchedOnce' /\ OnBase'
<1>1. DOMAIN runs = 1..Len(runs) /\ DOMAIN runs' = 1..Len(runs')
      /\ Len(runs) \in Nat /\ Len(runs') \in Nat
  BY DEF QueueOK
<1>2. \A n \in Retries' : n \in Retries /\ Same(runs'[n], runs[n])
  BY <1>1 DEF Retries, Outside, RunsKept, Same
<1>3. WriteAhead'
  BY <1>2 DEF WriteAhead, Outside, Same
<1>a. \A n \in DOMAIN runs : RunAgain(n) => RunAgain(n)'
  BY AgainKept DEF QueueOK, Outside, RunsKept
<1>4. DispatchedOnce'
  <2> SUFFICES ASSUME NEW m \in Retries', NEW n \in Retries', m < n,
                      runs'[m].request = runs'[n].request,
                      runs'[m].attempt = runs'[n].attempt
               PROVE  RunAgain(m)'
    BY DEF DispatchedOnce
  <2>1. /\ m \in Retries /\ n \in Retries
        /\ runs[m].request = runs[n].request /\ runs[m].attempt = runs[n].attempt
    BY <1>2 DEF Same
  <2>2. RunAgain(m)
    BY <2>1 DEF DispatchedOnce
  <2> QED
    BY <1>a, <2>1, <2>2 DEF Retries
<1>5. OnBase'
  <2> SUFFICES ASSUME NEW n \in Retries'
               PROVE  runs'[n].head = runs'[n].request.base \/ runs'[n].request.base < default'
    BY DEF OnBase
  <2>1. runs[n].head = runs[n].request.base \/ runs[n].request.base < default
    BY <1>2 DEF OnBase
  <2>2. runs[n] \in Run
    BY <1>1, <1>2 DEF QueueOK, Retries
  <2>3. runs[n].request.base \in Nat /\ default \in Nat /\ default' \in Nat /\ default <= default'
    BY <2>2 DEF Run, Request, QueueOK, Base, Outside
  <2> QED
    BY <1>2, <2>1, <2>3 DEF Same
<1>6. CASE job' = Idle
  <2>1. job'.stage = "idle" /\ job'.request.base = 0 /\ default' \in Nat
    BY <1>6, EventTypes DEF Idle, QueueOK, Base
  <2>2. JobOK'
    <3>1. /\ job'.stage # "runs" /\ job'.stage \notin Put /\ job'.stage \notin Late
          /\ job'.stage \notin Absent /\ job'.stage \notin Current
      BY <2>1 DEF Put, Late, Absent, Current
    <3>2. job'.request.base <= default'
      BY <2>1
    <3> QED
      BY <3>1, <3>2 DEF JobOK
  <2> QED
    BY <1>3, <1>4, <1>5, <2>2
<1>7. CASE job' = job
  <2>1. \A request, a : ExactRuns(request, a) = {} => ExactRuns(request, a)' = {}
    BY <1>1, <1>2, <1>a DEF ExactRuns, Dispatched, Retries, Same
  <2>2. job.request.base \in Nat /\ default \in Nat /\ default' \in Nat /\ default <= default'
    BY DEF Job, Request, QueueOK, Base, Outside
  <2>3. job'.request.base <= default'
    BY <1>7, <2>2 DEF JobOK
  <2>4. (job.stage = "runs" => Recorded(job.request) = 1..job.known)'
    BY <1>7 DEF JobOK, Recorded, Outside
  <2>5. job'.stage \in Put => job'.attempt = job'.known + 1
    BY <1>7 DEF JobOK
  <2>6. job'.stage \in Late =>
          \E record \in retries' : record.request = job'.request /\ record.attempt = job'.attempt
    BY <1>7 DEF JobOK, Outside
  <2>7. (job.stage \in Absent => ExactRuns(job.request, job.attempt) = {})'
    BY <1>7, <2>1 DEF JobOK, ExactRuns, Dispatched
  <2>8. (job.stage \in Current => Undispatched(job.request, job.attempt))'
    BY <1>2, <1>7, <1>a DEF JobOK, Undispatched, Retries, Same
  <2> QED
    BY <1>3, <1>4, <1>5, <1>7, <2>3, <2>4, <2>5, <2>6, <2>7, <2>8 DEF JobOK
<1> QED
  BY <1>6, <1>7

-----------------------------------------------------------------------------
(* The steps of the job that only read. *)

Early == {"idle", "noise", "base", "scan", "issue", "candidate", "trigger", "records", "confirm"}

LEMMA QuietStep ==
  ASSUME IInv, Quiet, job' \in Job, JobOK'
  PROVE  IInv'
<1>1. TypeOK' /\ Counted'
  BY DEF IInv, TypeOK, Counted, Quiet, queueVars
<1>2. WriteAhead' /\ DispatchedOnce' /\ OnBase'
  BY DEF IInv, WriteAhead, DispatchedOnce, OnBase, Retries, RunAgain, Attempts, Quiet, queueVars
<1> QED
  BY <1>1, <1>2 DEF IInv

(* At an early stage the job has found out nothing that can be outdated. *)
LEMMA EarlyStep ==
  ASSUME IInv, Quiet, job' \in Job, job'.stage \in Early, job'.request.base <= default
  PROVE  IInv'
<1>1. /\ job'.stage # "runs" /\ job'.stage \notin Put /\ job'.stage \notin Late
      /\ job'.stage \notin Absent /\ job'.stage \notin Current
  BY DEF Early, Put, Late, Absent, Current
<1>2. job'.request.base <= default'
  BY DEF Quiet, queueVars
<1>3. JobOK'
  BY <1>1, <1>2 DEF JobOK
<1> QED
  BY <1>3, QuietStep

LEMMA EndStep ==
  ASSUME IInv, Quiet, End
  PROVE  IInv'
<1>1. job' \in Job /\ job'.stage \in Early /\ job'.request.base <= default
  BY EventTypes DEF End, Idle, Early, IInv, TypeOK, Base
<1> QED
  BY <1>1, EarlyStep

(* A job's fields. *)
LEMMA JobFields ==
  ASSUME NEW j \in Job
  PROVE  /\ j.stage \in Stages /\ j.event \in Event /\ j.request \in Request
         /\ j.class \in FailureClass /\ j.known \in 0..MaxRetries
         /\ j.attempt \in 0..(MaxRetries + 1)
         /\ \A s \in Stages : [j EXCEPT !.stage = s] \in Job
         /\ \A s \in Stages, r \in Request : [j EXCEPT !.stage = s, !.request = r] \in Job
         /\ \A s \in Stages, c \in FailureClass : [j EXCEPT !.stage = s, !.class = c] \in Job
         /\ \A s \in Stages, k \in 0..MaxRetries : [j EXCEPT !.stage = s, !.known = k] \in Job
         /\ \A s \in Stages, a \in 0..(MaxRetries + 1) : [j EXCEPT !.stage = s, !.attempt = a] \in Job
  BY DEF Job

LEMMA ReadBaseStep ==
  ASSUME IInv, ReadBase
  PROVE  IInv'
<1> DEFINE r == [job.request EXCEPT !.base = default, !.issue = job.event.issue]
           s == IF job.event.kind = "scan" THEN "scan" ELSE "issue"
<1>1. job \in Job /\ default \in Base
  BY DEF IInv, TypeOK
<1>2. job.request \in Request /\ job.event.issue \in Issue
  BY <1>1, JobFields DEF Event
<1>3. r \in Request /\ r.base = default
  BY <1>1, <1>2 DEF Request
<1>4. job' = [job EXCEPT !.stage = s, !.request = r] /\ Quiet
  BY <1>1 DEF ReadBase, Job
<1>5. s \in Stages /\ s \in Early
  BY DEF Stages, Early
<1> HIDE DEF r, s
<1>6. job' \in Job /\ job'.stage = s /\ job'.request = r
  BY <1>1, <1>3, <1>4, <1>5, JobFields DEF Job
<1>7. default <= default
  BY <1>1 DEF Base
<1> QED
  BY <1>3, <1>4, <1>5, <1>6, <1>7, EarlyStep

(* A step that fills in part of the request. *)
LEMMA RequestStep ==
  ASSUME IInv, Quiet, NEW s \in Early \cap Stages, NEW r \in Request,
         r.base = job.request.base, job' = [job EXCEPT !.stage = s, !.request = r]
  PROVE  IInv'
<1>1. job \in Job
  BY DEF IInv, TypeOK
<1>2. job' \in Job /\ job'.stage = s /\ job'.request = r
  BY <1>1, JobFields DEF Job
<1>3. job.request.base <= default
  BY DEF IInv, JobOK
<1> QED
  BY <1>2, <1>3, EarlyStep

LEMMA ScanStep ==
  ASSUME IInv, Scan
  PROVE  IInv'
<1>1. CASE End
  BY <1>1, EndStep DEF Scan
<1>2. CASE ~End
  <2>1. PICK i \in Issue :
          job' = [job EXCEPT !.stage = "trigger",
                    !.request = [job.request EXCEPT !.issue = i, !.body = issues[i].body]]
    BY <1>2 DEF Scan
  <2> DEFINE r == [job.request EXCEPT !.issue = i, !.body = issues[i].body]
  <2>2. job.request \in Request /\ issues[i].body \in Body
    BY JobFields DEF IInv, TypeOK
  <2>3. r \in Request /\ r.base = job.request.base
    BY <2>2 DEF Request
  <2> HIDE DEF r
  <2>4. job' = [job EXCEPT !.stage = "trigger", !.request = r]
    BY <2>1 DEF r
  <2>5. "trigger" \in Early \cap Stages /\ Quiet
    BY DEF Early, Stages, Scan
  <2> QED
    BY <2>3, <2>4, <2>5, RequestStep
<1> QED
  BY <1>1, <1>2

LEMMA TargetType ==
  ASSUME IInv
  PROVE  Target.body \in Body /\ Target.trigger \in Trigger
<1>1. job.request.issue \in Issue
  BY JobFields DEF IInv, TypeOK, Request
<1> QED
  BY <1>1 DEF Target, IInv, TypeOK

LEMMA ReadIssueStep ==
  ASSUME IInv, ReadIssue
  PROVE  IInv'
<1>1. CASE End
  BY <1>1, EndStep DEF ReadIssue
<1>2. CASE ~End
  <2> DEFINE r == [job.request EXCEPT !.body = Target.body]
  <2>1. job' = [job EXCEPT !.stage = "candidate", !.request = r] /\ Quiet
    BY <1>2, JobFields DEF ReadIssue, IInv, TypeOK, Job
  <2>4. job.request \in Request /\ Target.body \in Body
    BY JobFields, TargetType DEF IInv, TypeOK
  <2>2. r \in Request /\ r.base = job.request.base
    BY <2>4 DEF Request
  <2>3. "candidate" \in Early \cap Stages
    BY DEF Early, Stages
  <2> HIDE DEF r
  <2> QED
    BY <2>1, <2>2, <2>3, RequestStep
<1> QED
  BY <1>1, <1>2

LEMMA ReadTriggerStep ==
  ASSUME IInv, ReadTrigger
  PROVE  IInv'
<1>1. CASE End
  BY <1>1, EndStep DEF ReadTrigger
<1>2. CASE ~End
  <2> DEFINE r == [job.request EXCEPT !.trigger = Target.trigger]
  <2>1. job' = [job EXCEPT !.stage = "records", !.request = r] /\ Quiet
    BY <1>2, JobFields DEF ReadTrigger, IInv, TypeOK, Job
  <2>4. job.request \in Request /\ Target.trigger \in Trigger
    BY JobFields, TargetType DEF IInv, TypeOK
  <2>2. r \in Request /\ r.base = job.request.base
    BY <2>4 DEF Request
  <2>3. "records" \in Early \cap Stages
    BY DEF Early, Stages
  <2> HIDE DEF r
  <2> QED
    BY <2>1, <2>2, <2>3, RequestStep
<1> QED
  BY <1>1, <1>2

LEMMA ReadCandidateStep ==
  ASSUME IInv, ReadCandidate
  PROVE  IInv'
<1>1. CASE End
  BY <1>1, EndStep DEF ReadCandidate
<1>2. CASE ~End
  <2> DEFINE c == IF job.event.kind = "run"
                  THEN ClassOf(job.event.run) ELSE "unknown"
  <2>1. job' = [job EXCEPT !.stage = "trigger", !.class = c] /\ Quiet
    BY <1>2 DEF ReadCandidate
  <2>2. c \in FailureClass
    BY DEF FailureClass, ClassOf
  <2> HIDE DEF c
  <2>3. job \in Job /\ "trigger" \in Stages /\ "trigger" \in Early
    BY DEF IInv, TypeOK, Stages, Early
  <2>4. job' \in Job /\ job'.stage = "trigger" /\ job'.request = job.request
    BY <2>1, <2>2, <2>3, JobFields DEF Job
  <2>5. job.request.base <= default
    BY DEF IInv, JobOK
  <2> QED
    BY <2>1, <2>3, <2>4, <2>5, EarlyStep
<1> QED
  BY <1>1, <1>2

LEMMA ReadRecordsStep ==
  ASSUME IInv, ReadRecords
  PROVE  IInv'
<1>1. CASE End
  BY <1>1, EndStep DEF ReadRecords
<1>2. CASE ~End
  <2> DEFINE R == Recorded(job.request)
             c == Cardinality(R)
  <2>1. job' = [job EXCEPT !.stage = "runs", !.known = c] /\ R = 1..c /\ Quiet
    BY <1>2 DEF ReadRecords
  <2>2. R \subseteq 1..MaxRetries
    BY DEF Recorded, IInv, TypeOK, Record, Attempt
  <2>3. c \in 0..MaxRetries
    <3>1. IsFiniteSet(1..MaxRetries) /\ Cardinality(1..MaxRetries) = MaxRetries
      BY FS_Interval, BoundAssumption
    <3>2. c \in Nat /\ c <= MaxRetries
      BY <2>2, <3>1, FS_Subset, FS_CardinalityType
    <3> QED
      BY <3>2, BoundAssumption
  <2> HIDE DEF c
  <2>4. job \in Job /\ "runs" \in Stages
    BY DEF IInv, TypeOK, Stages
  <2>5. job' \in Job /\ job'.stage = "runs" /\ job'.request = job.request /\ job'.known = c
    BY <2>1, <2>3, <2>4, JobFields DEF Job
  <2>6. retries' = retries /\ default' = default
    BY <2>1 DEF Quiet, queueVars
  <2>7. (Recorded(job.request) = 1..job.known)'
    BY <2>1, <2>5, <2>6 DEF Recorded
  <2>8. JobOK'
    BY <2>5, <2>6, <2>7 DEF JobOK, IInv, Put, Late, Absent, Current
  <2> QED
    BY <2>1, <2>5, <2>8, QuietStep
<1> QED
  BY <1>1, <1>2

LEMMA ReadRunsStep ==
  ASSUME IInv, ReadRuns
  PROVE  IInv'
<1>0. job \in Job /\ At("runs") /\ Quiet
  BY DEF ReadRuns, IInv, TypeOK
<1>1. job.known \in 0..MaxRetries /\ MaxRetries \in Nat
  BY <1>0, JobFields, BoundAssumption
<1>2. CASE End
  BY <1>0, <1>2, EndStep
<1>3. CASE job' = [job EXCEPT !.stage = "active", !.attempt = job.known + 1]
  <2>1. job.known + 1 \in 0..(MaxRetries + 1)
    BY <1>1
  <2>2. job' \in Job
    BY <1>0, <1>3, <2>1, JobFields DEF Stages
  <2>3. /\ job'.stage = "active" /\ job'.request = job.request
        /\ job'.known = job.known /\ job'.attempt = job.known + 1
    BY <1>0, <1>3 DEF Job
  <2>4. JobOK'
    BY <1>0, <2>3 DEF JobOK, IInv, Put, Late, Absent, Current, Quiet, queueVars
  <2> QED
    BY <1>0, <2>2, <2>4, QuietStep
<1>4. CASE /\ job.known \in 1..job.known
           /\ job' = [job EXCEPT !.stage = "exact", !.attempt = job.known]
  <2>1. job.known \in 0..(MaxRetries + 1)
    BY <1>1
  <2>2. job' \in Job
    BY <1>0, <1>4, <2>1, JobFields DEF Stages
  <2>3. /\ job'.stage = "exact" /\ job'.request = job.request
        /\ job'.known = job.known /\ job'.attempt = job.known
    BY <1>0, <1>4 DEF Job
  <2>4. job.known \in Recorded(job.request)
    BY <1>0, <1>4 DEF IInv, JobOK, At
  <2>5. \E record \in retries' : record.request = job'.request /\ record.attempt = job'.attempt
    BY <1>0, <2>3, <2>4 DEF Recorded, Quiet, queueVars
  <2>6. JobOK'
    BY <1>0, <2>3, <2>5 DEF JobOK, IInv, Put, Late, Absent, Current, Quiet, queueVars
  <2> QED
    BY <1>0, <2>2, <2>6, QuietStep
<1> QED
  <2> DEFINE missing == {a \in 1..job.known : ExactRuns(job.request, a) = {}}
  <2>1. missing = {job.known} => job.known \in 1..job.known
    OBVIOUS
  <2> HIDE DEF missing
  <2>2. \/ End
        \/ job' = [job EXCEPT !.stage = "active", !.attempt = job.known + 1]
        \/ /\ missing = {job.known}
           /\ job' = [job EXCEPT !.stage = "exact", !.attempt = job.known]
    BY DEF ReadRuns, missing
  <2> QED
    BY <1>2, <1>3, <1>4, <2>1, <2>2

(* A gate keeps what the job knows, and may add to it. *)
LEMMA GateStep ==
  ASSUME IInv, NEW condition \in BOOLEAN, NEW next \in Stages, Gate(condition, next),
         job.stage \in Put \cup Late,
         next \in Put => job.stage \in Put,
         next \in Late => job.stage \in Late,
         next # "runs",
         condition /\ next \in Absent => ExactRuns(job.request, job.attempt) = {},
         condition /\ next \in Current => Undispatched(job.request, job.attempt)
  PROVE  IInv'
<1>0. job \in Job /\ Quiet
  BY DEF Gate, IInv, TypeOK
<1>1. CASE ~condition
  BY <1>0, <1>1, EndStep DEF Gate
<1>2. CASE condition
  <2>1. job' = [job EXCEPT !.stage = next]
    BY <1>2 DEF Gate, Go
  <2>2. job' \in Job
    BY <1>0, <2>1, JobFields
  <2>3. /\ job'.stage = next /\ job'.request = job.request
        /\ job'.known = job.known /\ job'.attempt = job.attempt
    BY <1>0, <2>1 DEF Job
  <2>4. default' = default /\ runs' = runs /\ retries' = retries
    BY <1>0 DEF Quiet, queueVars
  <2>5. job'.request.base <= default' /\ job'.stage # "runs"
    BY <2>3, <2>4 DEF IInv, JobOK
  <2>6. job'.stage \in Put => job'.attempt = job'.known + 1
    BY <2>3 DEF IInv, JobOK
  <2>7. job'.stage \in Late =>
          \E record \in retries' : record.request = job'.request /\ record.attempt = job'.attempt
    BY <2>3, <2>4 DEF IInv, JobOK
  <2>8. (job.stage \in Absent => ExactRuns(job.request, job.attempt) = {})'
    BY <1>2, <2>3, <2>4 DEF ExactRuns, Dispatched, RunAgain, Attempts
  <2>9. (job.stage \in Current => Undispatched(job.request, job.attempt))'
    BY <1>2, <2>3, <2>4 DEF Retries, Undispatched, RunAgain, Attempts
  <2>10. JobOK'
    BY <2>5, <2>6, <2>7, <2>8, <2>9 DEF JobOK
  <2> QED
    BY <1>0, <2>2, <2>10, QuietStep
<1> QED
  BY <1>1, <1>2

LEMMA ChecksStep ==
  ASSUME IInv, CheckActive \/ CheckCandidate \/ CheckCandidateLast \/ CheckActiveLast
  PROVE  IInv'
<1> USE DEF Stages, Put, Late, Absent, Current, At
<1>0. job.stage \in Absent => ExactRuns(job.request, job.attempt) = {}
  BY DEF IInv, JobOK
<1>1. job.stage \in Current => Undispatched(job.request, job.attempt)
  BY DEF IInv, JobOK
<1>2. CASE CheckActive
  BY <1>2, GateStep DEF CheckActive
<1>3. CASE CheckCandidate
  <2>1. Target.candidate \in BOOLEAN
    BY JobFields DEF IInv, TypeOK, Target, Request
  <2> QED
    BY <1>3, <2>1, GateStep DEF CheckCandidate
<1>4. CASE CheckCandidateLast
  <2> DEFINE next == IF job.event.kind = "control" THEN "control" ELSE "active last"
  <2>1. Target.candidate \in BOOLEAN
    BY JobFields DEF IInv, TypeOK, Target, Request
  <2>2. job.stage = "candidate last" /\ Gate(~Target.candidate, next)
    BY <1>4 DEF CheckCandidateLast
  <2>3. next = "control" \/ next = "active last"
    OBVIOUS
  <2> HIDE DEF next
  <2> QED
    BY <1>0, <1>1, <2>1, <2>2, <2>3, GateStep
<1>5. CASE CheckActiveLast
  BY <1>0, <1>1, <1>5, GateStep DEF CheckActiveLast
<1> QED
  BY <1>2, <1>3, <1>4, <1>5

LEMMA CheckExactStep ==
  ASSUME IInv, CheckExact
  PROVE  IInv'
  BY GateStep DEF CheckExact, Stages, Put, Late, Absent, Current, At

(* The default branch is where it was: a retry on another commit is one of *)
(* an earlier request.                                                     *)
LEMMA CheckDefaultStep ==
  ASSUME IInv, CheckDefault
  PROVE  IInv'
<1>0. job.stage = "default" /\ Gate(default = job.request.base, "candidate last")
  BY DEF CheckDefault, At
<1>1. ExactRuns(job.request, job.attempt) = {}
  BY <1>0 DEF IInv, JobOK, Absent, Late
<1>2. ASSUME default = job.request.base, NEW n \in Retries, runs[n].request = job.request,
             runs[n].attempt = job.attempt
      PROVE  RunAgain(n)
  <2>1. default \in Nat
    BY DEF IInv, TypeOK, Base
  <2>2. runs[n].head = job.request.base
    BY <1>2, <2>1 DEF IInv, OnBase
  <2> QED
    BY <1>1, <1>2, <2>2 DEF ExactRuns, Dispatched, Retries
<1>3. default = job.request.base => Undispatched(job.request, job.attempt)
  BY <1>2 DEF Undispatched
<1> QED
  BY <1>0, <1>1, <1>3, GateStep DEF Stages, Put, Late, Absent, Current

LEMMA AwaitControlStep ==
  ASSUME IInv, AwaitControl
  PROVE  IInv'
<1>0. job.stage = "control" /\ Quiet
  BY DEF AwaitControl, At
<1>1. CASE End
  BY <1>0, <1>1, EndStep
<1>2. CASE Go("active last")
  <2>1. Gate(TRUE, "active last")
    BY <1>0, <1>2 DEF Gate
  <2>2. ExactRuns(job.request, job.attempt) = {}
    BY <1>0 DEF IInv, JobOK, Absent, Late
  <2>3. Undispatched(job.request, job.attempt)
    BY <1>0 DEF IInv, JobOK, Absent, Late, Current
  <2> QED
    BY <1>0, <2>1, <2>2, <2>3, GateStep DEF Stages, Put, Late, Absent, Current
<1> QED
  BY <1>1, <1>2 DEF AwaitControl

-----------------------------------------------------------------------------
(* The steps of the job that write. *)

LEMMA PutRetryStep ==
  ASSUME IInv, PutRetry
  PROVE  IInv'
<1> DEFINE new == [request |-> job.request, attempt |-> job.attempt,
                   class |-> job.class, source |-> job.event.run]
<1>0. /\ job \in Job /\ job.stage = "put" /\ job.known < MaxRetries /\ job.class \in Retryable
      /\ retries' = retries \cup {new} /\ job' = [job EXCEPT !.stage = "exact"]
      /\ UNCHANGED <<default, issues, runs, forwards, stops, changes, pending>>
  BY DEF PutRetry, ShouldRetry, Go, At, IInv, TypeOK
<1>1. job.attempt = job.known + 1
  BY <1>0 DEF IInv, JobOK, Put
<1>2. job.attempt \in Attempt
  <2>1. job.known \in 0..MaxRetries
    BY <1>0, JobFields
  <2> QED
    BY <1>0, <1>1, <2>1, BoundAssumption DEF Attempt
<1>3. new \in Record
  <2>1. job.request \in Request /\ job.event.run \in Nat
    BY <1>0, JobFields DEF Event
  <2> QED
    BY <1>0, <1>2, <2>1 DEF Record
<1>4. job' \in Job
  BY <1>0, JobFields DEF Stages
<1>5. TypeOK'
  BY <1>0, <1>3, <1>4 DEF IInv, TypeOK
<1>6. Counted' /\ DispatchedOnce' /\ OnBase'
  BY <1>0 DEF IInv, Counted, DispatchedOnce, OnBase, Retries, RunAgain, Attempts
<1>7. WriteAhead'
  BY <1>0 DEF IInv, WriteAhead, Retries
<1>8. /\ job'.stage = "exact" /\ job'.request = job.request /\ job'.attempt = job.attempt
  BY <1>0 DEF Job
<1>9. new \in retries' /\ new.request = job'.request /\ new.attempt = job'.attempt
  BY <1>0, <1>8
<1>10. JobOK'
  <2>1. job'.request.base <= default'
    BY <1>0, <1>8 DEF IInv, JobOK
  <2> HIDE DEF new
  <2> QED
    BY <1>8, <1>9, <2>1 DEF JobOK, Put, Late, Absent, Current
<1> QED
  BY <1>5, <1>6, <1>7, <1>10 DEF IInv

LEMMA PutStopStep ==
  ASSUME IInv, PutStop
  PROVE  IInv'
<1>0. /\ stops' = stops \cup {job.request} /\ job' = Idle
      /\ UNCHANGED <<default, issues, runs, forwards, retries, changes, pending>>
  BY DEF PutStop, End
<1>1. job.request \in Request
  BY JobFields DEF IInv, TypeOK
<1>2. TypeOK'
  BY <1>0, <1>1, EventTypes DEF IInv, TypeOK
<1>3. Counted' /\ DispatchedOnce' /\ OnBase' /\ WriteAhead'
  BY <1>0 DEF IInv, Counted, DispatchedOnce, OnBase, WriteAhead, Retries, RunAgain, Attempts
<1>4. job'.stage = "idle" /\ job'.request.base = 0 /\ default' \in Nat
  BY <1>0, EventTypes DEF Idle, IInv, TypeOK, Base
<1>5. JobOK'
  BY <1>4 DEF JobOK, Put, Late, Absent, Current
<1> QED
  BY <1>2, <1>3, <1>5 DEF IInv

LEMMA DispatchStep ==
  ASSUME IInv, Dispatch
  PROVE  IInv'
<1> DEFINE new == NewRun("retry", job.request, job.attempt)
           k == Len(runs) + 1
<1>0. /\ job \in Job /\ job.stage = "dispatch" /\ runs \in Seq(Run)
      /\ runs' = Enqueued(new) /\ job' = [job EXCEPT !.stage = "confirm"]
      /\ UNCHANGED <<default, issues, forwards, retries, stops, changes, pending>>
  BY DEF Dispatch, Go, At, IInv, TypeOK
<1>1. PICK record \in retries : record.request = job.request /\ record.attempt = job.attempt
  BY <1>0 DEF IInv, JobOK, Late
<1>2. Undispatched(job.request, job.attempt)
  BY <1>0 DEF IInv, JobOK, Late, Absent, Current
<1>3. job.attempt \in 0..MaxRetries /\ job.request \in Request
  <2>1. record \in Record
    BY DEF IInv, TypeOK
  <2>2. record.attempt \in 1..MaxRetries /\ record.request \in Request
    BY <2>1 DEF Record, Attempt
  <2> HIDE DEF new, k
  <2> QED
    BY <1>1, <2>2, BoundAssumption
<1>4. new \in Run
  BY <1>3, NewRunType DEF IInv, TypeOK, Kind
<1>5. /\ new.kind = "retry" /\ new.request = job.request
      /\ new.attempt = job.attempt /\ new.head = default
  BY DEF NewRun
<1> HIDE DEF new
<1>6. /\ runs' \in Seq(Run) /\ Len(runs') = k /\ runs'[k] = new
      /\ \A n \in 1..Len(runs) : Same(runs'[n], runs[n])
  BY <1>0, <1>4, EnqueuedRuns
<1>7. /\ Len(runs) \in Nat
      /\ DOMAIN runs = 1..Len(runs)
      /\ DOMAIN runs' = 1..k
      /\ \A n \in 1..k : n \in 1..Len(runs) \/ n = k
      /\ k \notin 1..Len(runs)
  BY <1>0, <1>6
<1> HIDE DEF k
<1>8. \A n \in Retries' : n = k \/ (n \in Retries /\ Same(runs'[n], runs[n]))
  BY <1>6, <1>7 DEF Retries, Same
<1>9. job' \in Job /\ job'.stage = "confirm" /\ job'.request = job.request
  <2>1. "confirm" \in Stages
    BY DEF Stages
  <2>2. job' \in Job
    BY <1>0, <2>1, JobFields
  <2> QED
    BY <1>0, <2>2 DEF Job
<1>10. TypeOK'
  BY <1>0, <1>6, <1>9 DEF IInv, TypeOK
<1>11. Counted'
  BY <1>0 DEF IInv, Counted
<1>12. JobOK'
  BY <1>0, <1>9 DEF IInv, JobOK, Put, Late, Absent, Current
<1>13. WriteAhead'
  BY <1>0, <1>1, <1>5, <1>6, <1>8 DEF IInv, WriteAhead, Same
<1>a. \A n \in DOMAIN runs : RunAgain(n) => RunAgain(n)'
  <2>1. Len(runs) <= Len(runs')
    BY <1>6, <1>7 DEF k
  <2> QED
    BY <1>0, <1>6, <2>1, AgainKept
<1>14. DispatchedOnce'
  <2> SUFFICES ASSUME NEW m \in Retries', NEW n \in Retries', m < n,
                      runs'[m].request = runs'[n].request,
                      runs'[m].attempt = runs'[n].attempt
               PROVE  RunAgain(m)'
    BY DEF DispatchedOnce
  <2>1. m \in Retries /\ Same(runs'[m], runs[m])
    <3>1. m # k
      <4>1. m \in 1..k /\ n \in 1..k
        BY <1>7 DEF Retries
      <4>2. k \in Nat
        BY <1>7 DEF k
      <4> QED
        BY <4>1, <4>2
    <3> QED
      BY <1>8, <3>1
  <2>2. RunAgain(m)
    <3>1. CASE n = k
      BY <1>2, <1>5, <1>6, <2>1, <3>1 DEF Undispatched, Same
    <3>2. CASE n # k
      <4>1. n \in Retries /\ Same(runs'[n], runs[n])
        BY <1>8, <3>2
      <4> QED
        BY <2>1, <4>1 DEF IInv, DispatchedOnce, Same
    <3> QED
      BY <3>1, <3>2
  <2> QED
    BY <1>a, <2>1, <2>2 DEF Retries
<1>15. OnBase'
  <2>1. ASSUME NEW n \in Retries, Same(runs'[n], runs[n])
        PROVE  runs'[n].head = runs'[n].request.base \/ runs'[n].request.base < default'
    BY <1>0, <2>1 DEF IInv, OnBase, Same
  <2>2. runs'[k].head = runs'[k].request.base \/ runs'[k].request.base < default'
    <3>1. job.request.base \in Nat /\ default \in Nat /\ job.request.base <= default
      BY <1>3 DEF Request, Base, IInv, TypeOK, JobOK
    <3> QED
      BY <1>0, <1>5, <1>6, <3>1
  <2> QED
    BY <1>8, <2>1, <2>2 DEF OnBase
<1> QED
  BY <1>10, <1>11, <1>12, <1>13, <1>14, <1>15 DEF IInv

LEMMA JobStepInvariant ==
  ASSUME IInv, JobStep
  PROVE  IInv'
<1>1. CASE Observe \/ Confirm
  BY <1>1, EndStep DEF Observe, Confirm
<1>2. CASE CheckActive \/ CheckCandidate \/ CheckCandidateLast \/ CheckActiveLast
  BY <1>2, ChecksStep
<1> QED
  BY <1>1, <1>2, ReadBaseStep, ScanStep, ReadIssueStep, ReadCandidateStep, ReadTriggerStep,
     ReadRecordsStep, ReadRunsStep, PutRetryStep, PutStopStep, CheckExactStep,
     CheckDefaultStep, AwaitControlStep, DispatchStep DEF JobStep

-----------------------------------------------------------------------------
(* The other steps. *)

LEMMA StartJobStep ==
  ASSUME IInv, StartJob
  PROVE  IInv'
<1> DEFINE s == IF pending.kind = "noise" THEN "noise" ELSE "base"
<1>0. pending \in Event /\ job' = [Idle EXCEPT !.stage = s, !.event = pending]
      /\ pending' = NoEvent /\ UNCHANGED queueVars
  BY DEF StartJob, IInv, TypeOK
<1>1. s \in Stages /\ s \in Early
  BY DEF Stages, Early
<1> HIDE DEF s
<1>2. /\ job' \in Job /\ job'.stage = s /\ job'.request.base = 0
  BY <1>0, <1>1, EventTypes DEF Job
<1>3. TypeOK' /\ Counted' /\ WriteAhead' /\ DispatchedOnce' /\ OnBase'
  BY <1>0, <1>2, EventTypes
  DEF queueVars, IInv, TypeOK, Counted, WriteAhead, DispatchedOnce, OnBase, Retries,
      RunAgain, Attempts
<1>4. JobOK'
  <2>1. default' \in Nat
    BY <1>3 DEF TypeOK, Base
  <2>2. job'.request.base <= default'
    BY <1>2, <2>1
  <2> QED
    BY <1>1, <1>2, <2>2 DEF JobOK, Early, Put, Late, Absent, Current
<1> QED
  BY <1>3, <1>4 DEF IInv

LEMMA OutsideStep ==
  ASSUME IInv, QueueOK', Counted', Outside, pending' \in Event, job' = job \/ job' = Idle
  PROVE  IInv'
<1>1. QueueOK /\ job \in Job
  BY TypeParts DEF IInv
<1>2. JobOK' /\ WriteAhead' /\ DispatchedOnce' /\ OnBase'
  BY <1>1, KeptInvariant DEF IInv
<1>3. job' \in Job
  BY <1>1, EventTypes
<1>4. TypeOK'
  BY <1>3 DEF TypeOK, QueueOK
<1> QED
  BY <1>2, <1>4 DEF IInv

LEMMA InitInvariant == Init => IInv
<1> SUFFICES ASSUME Init PROVE IInv
  OBVIOUS
<1>1. /\ default = 0 /\ runs = <<>> /\ retries = {} /\ stops = {} /\ changes = 0
      /\ forwards = [i \in Issue |-> 0]
      /\ pending = NoEvent /\ job = Idle
  BY DEF Init, QueueInit
<1>2. 0 \in 0..MaxChanges
  BY BoundAssumption
<1>3. TypeOK
  <2>1. PICK body \in [Issue -> InitialBody] :
          issues = [i \in Issue |->
                      [open |-> TRUE, body |-> body[i], trigger |-> 0, candidate |-> FALSE]]
    BY DEF Init, QueueInit
  <2>2. \A i \in Issue : body[i] \in Body
    BY <2>1, BodyAssumption
  <2>3. issues \in [Issue -> [open : BOOLEAN, body : Body, trigger : Trigger,
                              candidate : BOOLEAN]]
    BY <1>2, <2>1, <2>2 DEF Trigger
  <2> QED
    BY <1>1, <1>2, <2>3, EventTypes DEF TypeOK, Base, Trigger
<1>4. Counted
  <2>1. \A i \in Issue : issues[i].trigger = 0
    BY DEF Init, QueueInit
  <2> QED
    BY <1>1, <2>1 DEF Counted
<1>5. Retries = {}
  BY <1>1 DEF Retries
<1>6. job.stage = "idle" /\ job.request.base = 0
  BY <1>1, EventTypes DEF Idle
<1>7. JobOK
  BY <1>1, <1>6 DEF JobOK, Put, Late, Absent, Current
<1> QED
  BY <1>3, <1>4, <1>5, <1>7 DEF IInv, WriteAhead, DispatchedOnce, OnBase

LEMMA NextInvariant == IInv /\ [Next]_vars => IInv'
<1> SUFFICES ASSUME IInv, [Next]_vars PROVE IInv'
  OBVIOUS
<1>0. QueueOK /\ Counted /\ pending \in Event /\ job \in Job
  BY TypeParts DEF IInv
<1>1. CASE StartJob
  BY <1>1, StartJobStep
<1>2. CASE JobStep
  BY <1>2, JobStepInvariant
<1>3. CASE Fail
  <2>1. QueueOK' /\ Counted' /\ Outside
    BY <1>0, <1>3, UnchangedQueue DEF Fail, Change
  <2> QED
    BY <1>0, <1>3, <2>1, OutsideStep DEF Fail, End
<1>4. CASE \E n \in DOMAIN runs : Deliver(n)
  BY <1>0, <1>4, DeliverType, OutsideStep DEF Deliver, Arrives
<1>5. CASE OtherEvent
  BY <1>0, <1>5, OtherEventType, OutsideStep DEF OtherEvent, Arrives
<1>6. CASE \E i \in Issue : Comment(i)
  BY <1>0, <1>6, CommentType, OutsideStep DEF Comment, Arrives
<1>7. CASE QueueStep /\ UNCHANGED <<pending, job>>
  BY <1>0, <1>7, QueueStepType, OutsideStep
<1>8. CASE World /\ UNCHANGED <<pending, job>>
  BY <1>0, <1>8, WorldType, OutsideStep
<1>9. CASE UNCHANGED vars
  BY <1>9 DEF vars, queueVars, IInv, TypeOK, Counted, JobOK, WriteAhead, DispatchedOnce,
              OnBase, Retries, Recorded, ExactRuns, Dispatched, Undispatched, RunAgain, Attempts
<1> QED
  BY <1>1, <1>2, <1>3, <1>4, <1>5, <1>6, <1>7, <1>8, <1>9 DEF Next

-----------------------------------------------------------------------------
LEMMA Invariant == Spec => []IInv
  BY InitInvariant, NextInvariant, PTL DEF Spec

(* Type correctness of the queue, its records and the recovery job of      *)
(* ci-reconcile.yml.                                                       *)
THEOREM TypeCorrect == Spec => []TypeOK
<1>1. IInv => TypeOK
  BY DEF IInv
<1> QED
  BY <1>1, Invariant, PTL

(* dispatch_retry() persists the intent of every retry before it           *)
(* dispatches it.                                                          *)
THEOREM WriteAheadCorrect == Spec => []WriteAhead
<1>1. IInv => WriteAhead
  BY DEF IInv
<1> QED
  BY <1>1, Invariant, PTL

(* No retry of a request is dispatched twice, however many Issues, events, *)
(* failures and restarts of dispatch_retry() there are, unless the run of  *)
(* its first dispatch was run again.                                       *)
THEOREM DispatchedOnceCorrect == Spec => []DispatchedOnce
<1>1. IInv => DispatchedOnce
  BY DEF IInv
<1> QED
  BY <1>1, Invariant, PTL

-----------------------------------------------------------------------------
(* NoGaps and StopIsFinal.                                                 *)

(* Steps of others than the job change no record and no terminal record.   *)
LEMMA OthersKeep ==
  ASSUME IInv, [Next]_vars, ~JobStep
  PROVE  /\ RunsKept /\ retries' = retries /\ stops' = stops
         /\ job' = job \/ job'.stage \in Early
<1>0. QueueOK /\ Counted /\ pending \in Event /\ job \in Job
  BY TypeParts DEF IInv
<1>1. Idle.stage \in Early
  BY DEF Idle, Early
<1>2. CASE StartJob
  <2>1. RunsKept /\ retries' = retries /\ stops' = stops
    BY <1>0, <1>2, UnchangedKept DEF StartJob, queueVars, QueueOK
  <2>2. job'.stage \in Early
    <3>1. job' = [Idle EXCEPT !.stage = IF pending.kind = "noise" THEN "noise" ELSE "base",
                              !.event = pending]
      BY <1>2 DEF StartJob
    <3> QED
      BY <3>1 DEF Idle, Early
  <2> QED
    BY <2>1, <2>2
<1>3. CASE Fail
  BY <1>0, <1>1, <1>3, UnchangedQueue DEF Fail, Change, End, Outside
<1>4. CASE \E n \in DOMAIN runs : Deliver(n)
  BY <1>0, <1>4, DeliverType DEF Deliver, Arrives, Outside
<1>5. CASE OtherEvent
  BY <1>0, <1>5, OtherEventType DEF OtherEvent, Arrives, Outside
<1>6. CASE \E i \in Issue : Comment(i)
  BY <1>0, <1>6, CommentType DEF Comment, Arrives, OtherComment, TriggerComment, Outside
<1>7. CASE QueueStep /\ UNCHANGED <<pending, job>>
  BY <1>0, <1>7, QueueStepType DEF QueueStep, Prepare, Implement, Forward, Outside
<1>8. CASE World /\ UNCHANGED <<pending, job>>
  BY <1>0, <1>8, WorldType DEF World, Outage, Rerun, Manual, ChangeIssue, MoveDefault, Outside
<1>9. CASE UNCHANGED vars
  BY <1>0, <1>9, UnchangedKept DEF vars, queueVars, QueueOK
<1> QED
  BY <1>2, <1>3, <1>4, <1>5, <1>6, <1>7, <1>8, <1>9 DEF Next

Reading == {"runs"} \cup Put \cup Late

(* A gate ends the job, or moves it on without another change.             *)
LEMMA GateFacts ==
  ASSUME job \in Job, NEW condition, NEW next \in Stages, Gate(condition, next)
  PROVE  /\ job'.stage = "idle" \/ (/\ job'.stage = next /\ job'.request = job.request
                                    /\ job'.known = job.known)
         /\ runs' = runs /\ retries' = retries /\ stops' = stops
  BY DEF Gate, Go, End, Idle, Quiet, queueVars, Job

(* A step of the job writes a record, a terminal record or a run, or only  *)
(* reads; and the job goes on with the request it has looked up.           *)
JobMoves ==
  /\ PutRetry \/ retries' = retries
  /\ PutStop \/ stops' = stops
  /\ Dispatch \/ runs' = runs
  /\ job'.stage \in Put =>
       \/ ReadRuns
       \/ job.stage \in Put /\ job'.request = job.request /\ job'.known = job.known
  /\ job'.stage \in Reading =>
       \/ ReadRecords /\ job'.request \notin stops
       \/ job.stage \in Reading /\ job'.request = job.request

LEMMA JobStepFacts ==
  ASSUME IInv, JobStep
  PROVE  JobMoves
<1>0. job \in Job
  BY DEF IInv, TypeOK
<1>1. ASSUME Quiet, job'.stage \in Early
      PROVE  JobMoves
  BY <1>1 DEF JobMoves, Quiet, queueVars, Early, Reading, Put, Late
<1>e. Idle.stage = "idle" /\ "idle" \in Early
  BY DEF Idle, Early
<1>2. CASE Observe \/ Confirm
  <2>1. Quiet /\ job'.stage \in Early
    BY <1>e, <1>2 DEF Observe, Confirm, End
  <2> QED
    BY <1>1, <2>1
<1>3. CASE ReadBase
  <2>1. Quiet /\ job'.stage \in Early
    BY <1>0, <1>e, <1>3 DEF ReadBase, End, Early, Job
  <2> QED
    BY <1>1, <2>1
<1>4. CASE Scan
  <2>1. Quiet /\ job'.stage \in Early
    BY <1>0, <1>e, <1>4 DEF Scan, End, Early, Job
  <2> QED
    BY <1>1, <2>1
<1>5. CASE ReadIssue
  <2>1. Quiet /\ job'.stage \in Early
    BY <1>0, <1>e, <1>5 DEF ReadIssue, End, Early, Job
  <2> QED
    BY <1>1, <2>1
<1>6. CASE ReadCandidate
  <2>1. Quiet /\ job'.stage \in Early
    BY <1>0, <1>e, <1>6 DEF ReadCandidate, End, Early, Job
  <2> QED
    BY <1>1, <2>1
<1>7. CASE ReadTrigger
  <2>1. Quiet /\ job'.stage \in Early
    BY <1>0, <1>e, <1>7 DEF ReadTrigger, End, Early, Job
  <2> QED
    BY <1>1, <2>1
<1> USE DEF JobMoves, Reading, Put, Late
<1>8. CASE ReadRecords
  <2>1. CASE End
    BY <1>1, <1>8, <2>1 DEF ReadRecords, End, Idle, Early
  <2>2. CASE ~End
    <3>1. /\ Quiet /\ job.request \notin stops
          /\ job' = [job EXCEPT !.stage = "runs", !.known = Cardinality(Recorded(job.request))]
      BY <1>8, <2>2 DEF ReadRecords
    <3>2. job'.stage = "runs" /\ job'.request = job.request
      BY <1>0, <3>1 DEF Job
    <3> QED
      BY <1>8, <3>1, <3>2 DEF Quiet, queueVars
  <2> QED
    BY <2>1, <2>2
<1>9. CASE ReadRuns
  <2>1. job.stage = "runs" /\ Quiet
    BY <1>9 DEF ReadRuns, At
  <2>2. job'.stage = "idle" \/ job'.request = job.request
    <3>1. \/ job' = Idle
          \/ job' = [job EXCEPT !.stage = "active", !.attempt = job.known + 1]
          \/ job' = [job EXCEPT !.stage = "exact", !.attempt = job.known]
      BY <1>9 DEF ReadRuns, End
    <3> QED
      BY <1>0, <1>e, <3>1 DEF Job
  <2> QED
    BY <1>9, <2>1, <2>2 DEF Quiet, queueVars
<1>10. CASE CheckActive
  BY <1>0, <1>10, GateFacts DEF CheckActive, At, Stages
<1>11. CASE CheckCandidate
  BY <1>0, <1>11, GateFacts DEF CheckCandidate, At, Stages
<1>12. CASE PutRetry
  <2>1. job'.stage = "exact" /\ job'.request = job.request /\ job.stage = "put"
    BY <1>0, <1>12 DEF PutRetry, Go, At, Job
  <2> QED
    BY <1>12, <2>1 DEF PutRetry
<1>13. CASE PutStop
  BY <1>13 DEF PutStop, End, Idle
<1>14. CASE CheckExact
  BY <1>0, <1>14, GateFacts DEF CheckExact, At, Stages
<1>15. CASE CheckDefault
  BY <1>0, <1>15, GateFacts DEF CheckDefault, At, Stages
<1>16. CASE CheckCandidateLast
  <2> DEFINE next == IF job.event.kind = "control" THEN "control" ELSE "active last"
  <2>1. next \in {"control", "active last"} /\ next \in Stages
    BY DEF Stages
  <2>2. job.stage = "candidate last" /\ Gate(~Target.candidate, next)
    BY <1>16 DEF CheckCandidateLast, At
  <2> HIDE DEF next
  <2> QED
    BY <1>0, <2>1, <2>2, GateFacts
<1>17. CASE AwaitControl
  <2>1. job.stage = "control" /\ Quiet /\ (Go("active last") \/ End)
    BY <1>17 DEF AwaitControl, At
  <2>2. job'.stage = "idle" \/ (job'.stage = "active last" /\ job'.request = job.request)
    BY <1>0, <1>e, <2>1 DEF Go, End, Job
  <2> QED
    BY <2>1, <2>2 DEF Quiet, queueVars
<1>18. CASE CheckActiveLast
  BY <1>0, <1>18, GateFacts DEF CheckActiveLast, At, Stages
<1>19. CASE Dispatch
  <2>1. job'.stage = "confirm"
    BY <1>0, <1>19 DEF Dispatch, Go, Job
  <2> QED
    BY <1>19, <2>1 DEF Dispatch
<1> QED
  BY <1>2, <1>3, <1>4, <1>5, <1>6, <1>7, <1>8, <1>9, <1>10, <1>11, <1>12, <1>13, <1>14,
     <1>15, <1>16, <1>17, <1>18, <1>19 DEF JobStep

(* What Dispatch adds: the runs keep their identity, the new one is the     *)
(* retry of the job's request.                                             *)
LEMMA DispatchFacts ==
  ASSUME IInv, Dispatch
  PROVE  /\ runs' \in Seq(Run) /\ Len(runs') = Len(runs) + 1
         /\ \A n \in 1..Len(runs) : Same(runs'[n], runs[n])
         /\ runs'[Len(runs) + 1].request = job.request
         /\ job.stage = "dispatch"
<1> DEFINE new == NewRun("retry", job.request, job.attempt)
<1>0. /\ job \in Job /\ job.stage = "dispatch" /\ runs \in Seq(Run) /\ runs' = Enqueued(new)
  BY DEF Dispatch, At, IInv, TypeOK
<1>1. PICK record \in retries : record.request = job.request /\ record.attempt = job.attempt
  BY <1>0 DEF IInv, JobOK, Late
<1>2. record.attempt \in 1..MaxRetries /\ record.request \in Request
  BY DEF IInv, TypeOK, Record, Attempt
<1>3. new \in Run
  BY <1>1, <1>2, NewRunType, BoundAssumption DEF IInv, TypeOK, Kind
<1>4. new.request = job.request
  BY DEF NewRun
<1> HIDE DEF new
<1> QED
  BY <1>0, <1>3, <1>4, EnqueuedRuns

(* A run that was found is found again.                                    *)
LEMMA DispatchedGrow ==
  ASSUME IInv, IInv', [Next]_vars, NEW request, NEW a, Dispatched(request, a) # {}
  PROVE  Dispatched(request, a)' # {}
<1>1. DOMAIN runs = 1..Len(runs) /\ DOMAIN runs' = 1..Len(runs') /\ Len(runs) \in Nat
      /\ Len(runs') \in Nat
  BY DEF IInv, TypeOK
<1>2. PICK n \in DOMAIN runs : n \in Dispatched(request, a)
  BY DEF Dispatched
<1>3. n \in DOMAIN runs' /\ Same(runs'[n], runs[n])
  <2>1. CASE ~JobStep
    BY <1>1, <2>1, OthersKeep DEF RunsKept
  <2>2. CASE Dispatch
    BY <1>1, <2>2, DispatchFacts
  <2>3. CASE runs' = runs
    BY <2>3 DEF Same
  <2> QED
    BY <2>1, <2>2, <2>3, JobStepFacts DEF JobMoves
<1> QED
  BY <1>2, <1>3 DEF Dispatched, Same

(* GapOK is inductive.                                                     *)
LEMMA GapStep ==
  ASSUME IInv, IInv', GapOK, [Next]_vars
  PROVE  GapOK'
<1> SUFFICES ASSUME job'.stage \in Put
             PROVE  /\ Recorded(job.request)' = 1..job'.known
                    /\ \A a \in 1..job'.known : Dispatched(job.request, a)' # {}
  BY DEF GapOK, Recorded, Dispatched
<1>1. ASSUME retries' = retries, job'.request = job.request, job'.known = job.known,
             Recorded(job.request) = 1..job.known,
             \A a \in 1..job.known : Dispatched(job.request, a) # {}
      PROVE  /\ Recorded(job.request)' = 1..job'.known
             /\ \A a \in 1..job'.known : Dispatched(job.request, a)' # {}
  <2>1. \A a \in 1..job.known : Dispatched(job.request, a)' # {}
    BY <1>1, DispatchedGrow
  <2> QED
    BY <1>1, <2>1 DEF Recorded
<1>2. CASE ~JobStep
  <2>1. job' = job /\ retries' = retries
    BY <1>2, OthersKeep DEF Put, Early
  <2> QED
    BY <1>1, <2>1 DEF GapOK
<1>3. CASE JobStep
  <2>1. retries' = retries
    <3>1. ~PutRetry
      BY DEF PutRetry, Go, IInv, TypeOK, Job, Put
    <3> QED
      BY <1>3, <3>1, JobStepFacts DEF JobMoves
  <2>2. CASE ReadRuns
    <3>1. job.stage = "runs" /\ job \in Job
      BY <2>2 DEF ReadRuns, At, IInv, TypeOK
    <3>2. Recorded(job.request) = 1..job.known
      BY <3>1 DEF IInv, JobOK
    <3>3. /\ {a \in 1..job.known : ExactRuns(job.request, a) = {}} = {}
          /\ job' = [job EXCEPT !.stage = "active", !.attempt = job.known + 1]
      <4>1. Idle.stage \notin Put
        BY DEF Idle, Put
      <4>2. [job EXCEPT !.stage = "exact", !.attempt = job.known].stage \notin Put
        BY <3>1 DEF Job, Put
      <4> QED
        BY <2>2, <4>1, <4>2 DEF ReadRuns, End
    <3>4. job'.request = job.request /\ job'.known = job.known
      BY <3>1, <3>3 DEF Job
    <3>5. \A a \in 1..job.known : Dispatched(job.request, a) # {}
      BY <3>3 DEF ExactRuns
    <3> QED
      BY <1>1, <2>1, <3>2, <3>4, <3>5
  <2>3. CASE job.stage \in Put /\ job'.request = job.request /\ job'.known = job.known
    BY <1>1, <2>1, <2>3 DEF GapOK
  <2> QED
    BY <1>3, <2>2, <2>3, JobStepFacts DEF JobMoves
<1> QED
  BY <1>2, <1>3

(* A record is put for the next attempt of a request without gaps.         *)
LEMMA NoGapsStep ==
  ASSUME IInv, IInv', GapOK, NoGaps, [Next]_vars
  PROVE  NoGaps'
<1> SUFFICES ASSUME NEW new \in retries'
             PROVE  /\ Recorded(new.request)' = 1..Cardinality(Recorded(new.request)')
                    /\ \A a \in 1..(Cardinality(Recorded(new.request)') - 1) :
                         Dispatched(new.request, a)' # {}
  BY DEF NoGaps
<1>1. CASE new \in retries /\ Recorded(new.request)' = Recorded(new.request)
  BY <1>1, DispatchedGrow DEF NoGaps
<1>2. CASE retries' = retries
  BY <1>1, <1>2 DEF Recorded
<1>3. CASE PutRetry
  <2> DEFINE r == [request |-> job.request, attempt |-> job.attempt,
                   class |-> job.class, source |-> job.event.run]
             k == job.known
  <2>1. /\ job.stage = "put" /\ job \in Job /\ retries' = retries \cup {r}
    BY <1>3 DEF PutRetry, At, IInv, TypeOK
  <2>2. job.attempt = k + 1 /\ k \in Nat
    <3>1. job.known \in 0..MaxRetries
      BY <2>1, JobFields
    <3>2. job.attempt = job.known + 1
      BY <2>1 DEF IInv, JobOK, Put
    <3> QED
      BY <3>1, <3>2, BoundAssumption
  <2>3. Recorded(job.request) = 1..k /\ \A a \in 1..k : Dispatched(job.request, a) # {}
    BY <2>1 DEF GapOK, Put
  <2>4. r.request = job.request /\ r.attempt = k + 1
    BY <2>2
  <2> HIDE DEF r, k
  <2>5. CASE new.request # job.request
    BY <1>1, <2>1, <2>4, <2>5 DEF Recorded
  <2>6. CASE new.request = job.request
    <3>1. Recorded(new.request)' = Recorded(new.request) \cup {k + 1}
      BY <2>1, <2>4, <2>6 DEF Recorded
    <3>2. Recorded(new.request)' = 1..(k + 1)
      BY <2>2, <2>3, <2>6, <3>1
    <3>3. Cardinality(1..(k + 1)) = k + 1
      BY <2>2, FS_Interval
    <3>4. \A a \in 1..k : Dispatched(new.request, a)' # {}
      BY <2>3, <2>6, DispatchedGrow
    <3> QED
      BY <2>2, <3>2, <3>3, <3>4
  <2> QED
    BY <2>5, <2>6
<1>4. CASE ~PutRetry /\ retries' # retries
  BY <1>4, OthersKeep, JobStepFacts DEF JobMoves
<1> QED
  BY <1>2, <1>3, <1>4

(* StopOK is inductive.                                                    *)
LEMMA StopStep ==
  ASSUME IInv, StopOK, [Next]_vars
  PROVE  StopOK'
<1> SUFFICES ASSUME job'.stage \in Reading
             PROVE  job'.request \notin stops'
  BY DEF StopOK, Reading
<1>1. CASE ~JobStep
  <2>1. job' = job /\ stops' = stops
    BY <1>1, OthersKeep DEF Reading, Put, Late, Early
  <2> QED
    BY <2>1 DEF StopOK, Reading
<1>2. CASE JobStep
  <2>1. stops' = stops
    <3>1. ~PutStop
      <4>1. Idle.stage \notin Reading
        BY DEF Idle, Reading, Put, Late
      <4> QED
        BY <4>1 DEF PutStop, End
    <3> QED
      BY <1>2, <3>1, JobStepFacts DEF JobMoves
  <2> QED
    BY <1>2, <2>1, JobStepFacts DEF JobMoves, StopOK, Reading
<1> QED
  BY <1>1, <1>2

(* NoGaps and what makes it inductive: what the job has read of the        *)
(* records, and what it chose by them.                                     *)
LEMMA GapsInvariant == Spec => [](GapOK /\ StopOK /\ NoGaps)
<1>1. Init => GapOK /\ StopOK /\ NoGaps
  <2> SUFFICES ASSUME Init PROVE GapOK /\ StopOK /\ NoGaps
    OBVIOUS
  <2>1. job.stage = "idle" /\ retries = {}
    BY DEF Init, QueueInit, Idle
  <2> QED
    BY <2>1 DEF GapOK, StopOK, NoGaps, Put, Late
<1>2. IInv /\ IInv' /\ GapOK /\ StopOK /\ NoGaps /\ [Next]_vars
        => GapOK' /\ StopOK' /\ NoGaps'
  BY GapStep, StopStep, NoGapsStep
<1> QED
  BY <1>1, <1>2, Invariant, PTL DEF Spec

(* The recorded attempts of a request are numbered without a gap and all   *)
(* but the last were dispatched, so that stranded_retry_attempt() never    *)
(* refuses to go on, wherever dispatch_retry() failed before.              *)
THEOREM NoGapsCorrect == Spec => []NoGaps
  BY GapsInvariant, PTL

(* After internal-stop.json or exhausted.json neither a record nor a retry *)
(* of that request is made, by this job or any later one.                  *)
THEOREM StopIsFinalCorrect == Spec => StopIsFinal
<1> DEFINE Final == \A request \in stops :
       /\ {r \in retries' : r.request = request} = {r \in retries : r.request = request}
       /\ \A n \in DOMAIN runs' \ DOMAIN runs :
            runs'[n].kind = "retry" => runs'[n].request # request
<1>1. ASSUME IInv, StopOK, [Next]_vars
      PROVE  Final
  <2>0. DOMAIN runs = 1..Len(runs) /\ Len(runs) \in Nat
    BY <1>1 DEF IInv, TypeOK
  <2>1. \A request \in stops :
          {r \in retries' : r.request = request} = {r \in retries : r.request = request}
    <3>1. CASE retries' = retries
      BY <3>1
    <3>2. CASE PutRetry
      <4>1. job.request \notin stops
        BY <1>1, <3>2 DEF PutRetry, At, StopOK, Put
      <4> QED
        BY <3>2, <4>1 DEF PutRetry
    <3> QED
      BY <1>1, <3>1, <3>2, OthersKeep, JobStepFacts DEF JobMoves
  <2>2. ASSUME NEW request \in stops, NEW n \in DOMAIN runs' \ DOMAIN runs,
               runs'[n].kind = "retry"
        PROVE  runs'[n].request # request
    <3>1. CASE ~JobStep
      <4>1. /\ runs' \in Seq(Run) /\ Len(runs) <= Len(runs')
            /\ \A m \in (Len(runs) + 1)..Len(runs') : runs'[m].kind # "retry"
        BY <1>1, <3>1, OthersKeep DEF RunsKept
      <4>2. n \in (Len(runs) + 1)..Len(runs')
        BY <2>0, <4>1
      <4> QED
        BY <2>2, <4>1, <4>2
    <3>2. CASE Dispatch
      <4>1. n = Len(runs) + 1
        BY <1>1, <2>0, <3>2, DispatchFacts
      <4>2. job.request \notin stops
        BY <1>1, <3>2, DispatchFacts DEF StopOK, Late
      <4> QED
        BY <1>1, <3>2, <4>1, <4>2, DispatchFacts
    <3> QED
      BY <1>1, <3>1, <3>2, JobStepFacts DEF JobMoves
  <2> QED
    BY <2>1, <2>2
<1>2. IInv /\ StopOK /\ [Next]_vars => [Final]_vars
  BY <1>1
<1> QED
  BY <1>2, Invariant, GapsInvariant, PTL DEF Spec, StopIsFinal
=============================================================================
