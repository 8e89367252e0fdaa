----------------------------- MODULE QueueRetry -----------------------------
(***************************************************************************)
(* Queue recovery: main() and dispatch_retry() of ci-reconcile.yml.  A     *)
(* recovery job is started by the completion of a queue run, by the        *)
(* owner's comment /foundation-reconcile, or by hand.  It writes a retry   *)
(* record, then dispatches the retry it recorded; a later job takes up a   *)
(* record without a run.  Jobs run one at a time and one more waits: the   *)
(* concurrency group forgets every event but the newest.                   *)
(*                                                                         *)
(* How a record is written is the matter of RecordBranch; here it appears  *)
(* whole, and the job may fail before or after.                            *)
(***************************************************************************)
EXTENDS QueueRuns

VARIABLES
  pending,  \* the event that waits for the running job
  job       \* the running job: its event, its next call, what it has read

vars == <<queueVars, pending, job>>

Event == [kind : {"none", "noise", "run", "control", "scan"}, run : Nat, issue : Issue]
NoEvent == [kind |-> "none", run |-> 0, issue |-> NoRequest.issue]

Stages == {"idle", "noise", "base", "scan", "issue", "candidate", "trigger", "records", "runs",
           "active", "candidate again", "put", "exact", "default", "candidate last",
           "control", "active last", "dispatch", "confirm"}

Job == [stage : Stages, event : Event, request : Request, class : FailureClass,
        known : 0..MaxRetries, attempt : 0..(MaxRetries + 1)]

Idle == [stage |-> "idle", event |-> NoEvent, request |-> NoRequest,
         class |-> "unknown", known |-> 0, attempt |-> 0]

Init == QueueInit /\ pending = NoEvent /\ job = Idle

-----------------------------------------------------------------------------
(* Events.  The newest one waits while a job runs; the one before it is    *)
(* forgotten.                                                              *)

Arrives(event) ==
  /\ pending = NoEvent \/ job # Idle
  /\ pending' = event
  /\ UNCHANGED job

Deliver(n) ==
  /\ runs[n].state = "done"
  /\ ~runs[n].told
  /\ runs' = [runs EXCEPT ![n].told = TRUE]
  /\ Arrives([kind |-> "run", run |-> n, issue |-> runs[n].issue])
  /\ UNCHANGED <<default, issues, forwards, retries, stops, changes>>

(* The completion of CI, or a comment, is an event without work. *)
NoWork == [NoEvent EXCEPT !.kind = "noise"]

Comment(i) ==
  \/ TriggerComment(i) /\ Arrives(NoWork)
  \/ Change("comment") /\ OtherComment(i) /\ Arrives(NoWork)
  \/ /\ Change("control")
     /\ OtherComment(i)
     /\ Arrives([kind |-> "control", run |-> 0, issue |-> i])

OtherEvent ==
  /\ \/ Change("noise") /\ Arrives(NoWork)
     \/ Change("scan") /\ Arrives([NoEvent EXCEPT !.kind = "scan"])
  /\ UNCHANGED <<default, issues, runs, forwards, retries, stops>>

StartJob ==
  /\ job = Idle
  /\ pending # NoEvent
  /\ job' = [Idle EXCEPT !.stage = IF pending.kind = "noise" THEN "noise" ELSE "base",
                         !.event = pending]
  /\ pending' = NoEvent
  /\ UNCHANGED queueVars

-----------------------------------------------------------------------------
(* The recovery job, one action per read or write, in their order. *)

At(stage) == job.stage = stage
Go(stage) == job' = [job EXCEPT !.stage = stage]
End == job' = Idle
Quiet == UNCHANGED <<queueVars, pending>>

(* Go on, or end without an effect. *)
Gate(condition, next) ==
  /\ IF condition THEN Go(next) ELSE End
  /\ Quiet

Target == issues[job.request.issue]

Observe == At("noise") /\ End /\ Quiet

ReadBase ==
  /\ At("base")
  /\ job' = [job EXCEPT !.request = [@ EXCEPT !.base = default, !.issue = job.event.issue],
                        !.stage = IF job.event.kind = "scan" THEN "scan" ELSE "issue"]
  /\ Quiet

(* The scan takes the Issue updated last among those that qualify. *)
Scan ==
  /\ At("scan")
  /\ \/ /\ ~ActiveRun
        /\ \E i \in Issue :
             /\ issues[i].open /\ issues[i].trigger > 0 /\ ~issues[i].candidate
             /\ job' = [job EXCEPT !.stage = "trigger",
                          !.request = [@ EXCEPT !.issue = i, !.body = issues[i].body]]
     \/ End
  /\ Quiet

(* trusted_issue() *)
ReadIssue ==
  /\ At("issue")
  /\ IF Target.open /\ (job.event.kind = "run" => runs[job.event.run].kind # "ignored")
     THEN job' = [job EXCEPT !.stage = "candidate",
                             !.request = [@ EXCEPT !.body = Target.body]]
     ELSE End
  /\ Quiet

(* No candidate owns the Issue, and the run has left no checkpoint. *)
ReadCandidate ==
  /\ At("candidate")
  /\ IF Target.candidate
     THEN End
     ELSE job' = [job EXCEPT !.stage = "trigger",
                             !.class = IF job.event.kind = "run"
                                       THEN ClassOf(job.event.run)
                                       ELSE "unknown"]
  /\ Quiet

(* request_fingerprint() *)
ReadTrigger ==
  /\ At("trigger")
  /\ IF Target.trigger = 0
     THEN End
     ELSE job' = [job EXCEPT !.stage = "records",
                             !.request = [@ EXCEPT !.trigger = Target.trigger]]
  /\ Quiet

Recorded(request) == {record.attempt : record \in {r \in retries : r.request = request}}

(* Mutant of ReadRecords: internal-stop.json and exhausted.json are not    *)
(* looked for.                                                             *)
ReadRecordsOnly ==
  /\ At("records")
  /\ LET known == Recorded(job.request)
     IN IF known = 1..Cardinality(known)
        THEN job' = [job EXCEPT !.stage = "runs", !.known = Cardinality(known)]
        ELSE End
  /\ Quiet

(* The terminal records, then the retry records: retry_records(). *)
ReadRecords ==
  /\ At("records")
  /\ LET known == Recorded(job.request)
     IN IF job.request \notin stops /\ known = 1..Cardinality(known)
        THEN job' = [job EXCEPT !.stage = "runs", !.known = Cardinality(known)]
        ELSE End
  /\ Quiet

(* Mutant of ReadRuns: every record counts as dispatched. *)
ReadRunsNever ==
  /\ At("runs")
  /\ job' = [job EXCEPT !.stage = "active", !.attempt = job.known + 1]
  /\ Quiet

(* stranded_retry_attempt(): a recorded attempt without a run is taken up, *)
(* if it is the last.                                                      *)
ReadRuns ==
  /\ At("runs")
  /\ LET missing == {a \in 1..job.known : ExactRuns(job.request, a) = {}}
         unique == \A a \in 1..job.known : Cardinality(ExactRuns(job.request, a)) <= 1
     IN \/ /\ unique /\ missing = {}
           /\ job' = [job EXCEPT !.stage = "active", !.attempt = job.known + 1]
        \/ /\ unique /\ missing = {job.known}
           /\ job' = [job EXCEPT !.stage = "exact", !.attempt = job.known]
        \/ /\ ~unique \/ missing \notin {{}, {job.known}}
           /\ End
  /\ Quiet

CheckActive == At("active") /\ Gate(~ActiveRun, "candidate again")
CheckCandidate == At("candidate again") /\ Gate(~Target.candidate, "put")

(* should_auto_retry() *)
ShouldRetry == job.known < MaxRetries /\ job.class \in Retryable

(* Mutant of PutRetry: goes on although no record was written. *)
PutRetryUnseen ==
  /\ At("put")
  /\ ShouldRetry
  /\ Go("exact")
  /\ Quiet

(* The record appears, and the job may fail before it knows. *)
PutRetry ==
  /\ At("put")
  /\ ShouldRetry
  /\ retries' = retries \cup {[request |-> job.request, attempt |-> job.attempt,
                               class |-> job.class, source |-> job.event.run]}
  /\ Go("exact")
  /\ UNCHANGED <<default, issues, runs, forwards, stops, changes, pending>>

(* Mutant of PutStop: only exhaustion is recorded. *)
PutStopExhausted ==
  /\ At("put")
  /\ ~ShouldRetry
  /\ stops' = IF job.known = MaxRetries THEN stops \cup {job.request} ELSE stops
  /\ End
  /\ UNCHANGED <<default, issues, runs, forwards, retries, changes, pending>>

PutStop ==
  /\ At("put")
  /\ ~ShouldRetry
  /\ stops' = stops \cup {job.request}
  /\ End
  /\ UNCHANGED <<default, issues, runs, forwards, retries, changes, pending>>

CheckExact == At("exact") /\ Gate(ExactRuns(job.request, job.attempt) = {}, "default")
CheckDefault == At("default") /\ Gate(default = job.request.base, "candidate last")
CheckCandidateLast ==
  /\ At("candidate last")
  /\ Gate(~Target.candidate, IF job.event.kind = "control" THEN "control" ELSE "active last")

(* wait_for_control_noop(): waits for the run the comment itself made. *)
AwaitControl ==
  /\ At("control")
  /\ \/ ~ActiveIgnored(job.request.issue) /\ Go("active last")
     \/ ActiveIgnored(job.request.issue) /\ End
  /\ Quiet

CheckActiveLast == At("active last") /\ Gate(~ActiveRun, "dispatch")

Dispatch ==
  /\ At("dispatch")
  /\ runs' = Enqueued(NewRun("retry", job.request, job.attempt))
  /\ Go("confirm")
  /\ UNCHANGED <<default, issues, forwards, retries, stops, changes, pending>>

(* confirm_retry_run(): whatever it finds, the job ends. *)
Confirm == At("confirm") /\ End /\ Quiet

(* A call fails, or the job is cancelled. *)
Fail ==
  /\ Change("fail")
  /\ job # Idle
  /\ End
  /\ UNCHANGED <<default, issues, runs, forwards, retries, stops, pending>>

JobStep ==
  \/ Observe \/ ReadBase \/ Scan \/ ReadIssue \/ ReadCandidate \/ ReadTrigger
  \/ ReadRecords \/ ReadRuns \/ CheckActive \/ CheckCandidate
  \/ PutRetry \/ PutStop \/ CheckExact \/ CheckDefault \/ CheckCandidateLast
  \/ AwaitControl \/ CheckActiveLast \/ Dispatch \/ Confirm

Next ==
  \/ StartJob \/ JobStep \/ Fail
  \/ \E n \in DOMAIN runs : Deliver(n)
  \/ OtherEvent
  \/ \E i \in Issue : Comment(i)
  \/ QueueStep /\ UNCHANGED <<pending, job>>
  \/ World /\ UNCHANGED <<pending, job>>

Spec == Init /\ [][Next]_vars

(* GitHub runs what it has started and delivers what has happened; nothing *)
(* is assumed of people and of failures.                                   *)
FairSpec ==
  /\ Spec
  /\ WF_vars(StartJob)
  /\ WF_vars(JobStep)
  /\ WF_vars(QueueStep /\ UNCHANGED <<pending, job>>)
  /\ WF_vars(\E n \in DOMAIN runs : Deliver(n))

-----------------------------------------------------------------------------
Record == [request : Request, attempt : Attempt, class : Retryable, source : Nat]

TypeOK ==
  /\ default \in Base
  /\ issues \in [Issue -> [open : BOOLEAN, body : Body, trigger : Trigger, candidate : BOOLEAN]]
  /\ runs \in Seq(Run)
  /\ forwards \in [Issue -> Trigger]
  /\ retries \subseteq Record
  /\ stops \subseteq Request
  /\ changes \in 0..MaxChanges
  /\ pending \in Event
  /\ job \in Job

Retries == {n \in DOMAIN runs : runs[n].kind = "retry"}

(* A retry is dispatched only after its record is there: "persists one     *)
(* deterministic retry intent [...] before dispatch".                      *)
WriteAhead ==
  \A n \in Retries :
    \E record \in retries :
      record.request = runs[n].request /\ record.attempt = runs[n].attempt

(* The attempts recorded for a request have no gap, and all but the last   *)
(* were dispatched: wherever a job was cancelled, stranded_retry_attempt() *)
(* finds recovery wedged only if the run of an earlier attempt was run     *)
(* again, since then it is no longer exact.                                *)
NoGaps ==
  \A request \in {record.request : record \in retries} :
    /\ Recorded(request) = 1..Cardinality(Recorded(request))
    /\ \A a \in 1..(Cardinality(Recorded(request)) - 1) : Dispatched(request, a) # {}

(* No retry is dispatched twice, whatever jobs fail between the record,    *)
(* the dispatch and its confirmation, unless the run of the first dispatch *)
(* was run again: the second one is then what stranded_retry_attempt()     *)
(* takes for the first.                                                    *)
DispatchedOnce ==
  \A m, n \in Retries :
    /\ m < n
    /\ runs[m].request = runs[n].request
    /\ runs[m].attempt = runs[n].attempt
    => RunAgain(m)

(* internal-stop.json and exhausted.json: once a request has one of them,  *)
(* it gets no further retry, of any event.                                 *)
StopIsFinal ==
  [][\A request \in stops :
       /\ {r \in retries' : r.request = request} = {r \in retries : r.request = request}
       /\ \A n \in DOMAIN runs' \ DOMAIN runs :
            runs'[n].kind = "retry" => runs'[n].request # request]_vars

(* An asked-for run is settled in the end, by a terminal record, by a      *)
(* candidate, or because the Issue is closed.                              *)
Settled(i) ==
  \/ RequestAt(i, default) \in stops
  \/ issues[i].candidate
  \/ ~issues[i].open

Settles == \A i \in Issue : issues[i].trigger > 0 ~> Settled(i)
=============================================================================
