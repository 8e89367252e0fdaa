------------------------------ MODULE QueueRuns ------------------------------
(***************************************************************************)
(* The optional queue: Issues whose owner asks for a run by a comment, the *)
(* runs of claude-queue.yml, the bridge that dispatches a second run for   *)
(* the same comment, and the records recovery keeps of its retries.        *)
(*                                                                         *)
(* At this commit no run can succeed: the implementing job always ends     *)
(* with the missing secret of an optional provider, and nothing uploads a  *)
(* checkpoint.                                                             *)
(***************************************************************************)
EXTENDS Naturals, Sequences, FiniteSets

CONSTANTS
  Issue,       \* trusted Issues
  Body,        \* titles and bodies an Issue can have
  Plain,       \* one of them
  InitialBody, \* those an Issue may start with
  Denied,      \* bodies that ask for commands the provider may not use
  MaxRetries,  \* max_retries
  EnvKinds,    \* the kinds of environment step an instance has
  MaxTriggers, \* bound: comments /claude-run on one Issue
  MaxChanges   \* bound: environment steps

ASSUME IssueAssumption == Issue # {}
ASSUME BodyAssumption == Plain \in Body /\ Denied \subseteq Body /\ InitialBody \subseteq Body
ASSUME BoundAssumption ==
  MaxRetries \in Nat \ {0} /\ MaxTriggers \in Nat /\ MaxChanges \in Nat

VARIABLES
  default,    \* the default branch's commit; every move makes a new one
  issues,     \* issues[i]: open, body, trigger (its latest /claude-run
              \* comment, 0 if there is none), and whether a Pull Request
              \* or branch answers it
  runs,       \* the runs of claude-queue.yml, oldest first; one that is run
              \* again has an entry more, with the same id
  forwards,   \* forwards[i]: /claude-run comments the bridge has yet to forward
  retries,    \* the retry records
  stops,      \* requests with internal-stop.json or exhausted.json
  changes     \* environment steps so far

queueVars == <<default, issues, runs, forwards, retries, stops, changes>>

Base == 0..MaxChanges
Trigger == 0..MaxChanges
Attempt == 1..MaxRetries
Kind == {"trigger", "manual", "bridged", "ignored", "retry", "again"}
RunState == {"queued", "allowed", "done"}
Outcome == {"none", "denied", "contract", "unavailable", "outage", "cancelled"}
FailureClass == {"auth_secret", "platform_outage", "unknown"}
Retryable == {"platform_outage", "unknown"}

(* What the fingerprint of a request stands for. *)
Request == [issue : Issue, base : Base, trigger : Trigger, body : Body]
NoRequest == [issue |-> CHOOSE i \in Issue : TRUE, base |-> 0, trigger |-> 0, body |-> Plain]

RequestAt(i, base) ==
  [issue |-> i, base |-> base, trigger |-> issues[i].trigger, body |-> issues[i].body]

Run == [kind : Kind, id : Nat, issue : Issue, request : Request, attempt : 0..MaxRetries,
        head : Base, state : RunState, outcome : Outcome, told : BOOLEAN]

NewRun(kind, request, attempt) ==
  [kind |-> kind, id |-> Len(runs) + 1, issue |-> request.issue, request |-> request,
   attempt |-> attempt, head |-> default, state |-> "queued", outcome |-> "none", told |-> FALSE]

(* resolve_queue_event() admits the second attempt of an owner's comment   *)
(* and of nothing else.                                                    *)
SecondAttempt(run) ==
  [run EXCEPT !.kind = IF @ \in {"trigger", "ignored"} THEN @ ELSE "again",
              !.state = "queued", !.outcome = "none", !.told = FALSE]

OtherRun(kind, i) == NewRun(kind, [NoRequest EXCEPT !.issue = i], 0)

(* The run that holds the concurrency group of its Issue: the others wait. *)
Holds(n) ==
  /\ runs[n].state # "done"
  /\ \A m \in 1..(n - 1) : runs[m].issue = runs[n].issue => runs[m].state = "done"

(* The runs with one more: it cancels the one that waits already. *)
Enqueued(run) ==
  Append([n \in DOMAIN runs |->
            IF runs[n].issue = run.issue /\ runs[n].state # "done" /\ ~Holds(n)
            THEN [runs[n] EXCEPT !.state = "done", !.outcome = "cancelled"]
            ELSE runs[n]],
         run)

(* is_active_queue_run() of some run *)
ActiveRun == \E n \in DOMAIN runs : runs[n].kind # "ignored" /\ runs[n].state # "done"

(* is_active_ignored_run() of some run *)
ActiveIgnored(i) ==
  \E n \in DOMAIN runs :
    runs[n].kind = "ignored" /\ runs[n].issue = i /\ runs[n].state # "done"

(* The attempts of a run, of which the API shows the last. *)
Attempts(n) == {m \in DOMAIN runs : runs[m].id = runs[n].id}
RunAgain(n) == \E m \in Attempts(n) : m > n

(* The runs dispatched for one attempt of a request, on its commit. *)
Dispatched(request, a) ==
  {n \in DOMAIN runs :
     /\ runs[n].kind = "retry"
     /\ runs[n].request = request
     /\ runs[n].attempt = a
     /\ runs[n].head = request.base}

(* Mutant of ExactRuns: only a run that has not completed. *)
ExactRunsActive(request, a) == {n \in Dispatched(request, a) : runs[n].state # "done"}

(* exact_retry_runs(): none that was run again. *)
ExactRuns(request, a) == {n \in Dispatched(request, a) : ~RunAgain(n)}

(* What failure_class_for_run() makes of a completed run and of the failed *)
(* jobs of all its attempts: one that was denied concludes with success.   *)
ClassOf(n) ==
  LET outcomes == {runs[m].outcome : m \in Attempts(n)}
  IN IF "unavailable" \in outcomes THEN "auth_secret"
     ELSE IF "outage" \in outcomes THEN "platform_outage"
     ELSE "unknown"

(* The guard of prepare. *)
Admits(run) ==
  /\ run.kind \in {"trigger", "manual", "retry"}
  /\ issues[run.issue].open
  /\ run.kind = "retry" =>
       /\ run.request = RequestAt(run.issue, default)
       /\ run.request \notin stops
       /\ \E record \in retries :
            record.request = run.request /\ record.attempt = run.attempt

SetRun(n, state, outcome) ==
  runs' = [runs EXCEPT ![n].state = state, ![n].outcome = outcome]

QueueInit ==
  /\ default = 0
  /\ \E body \in [Issue -> InitialBody] :
       issues = [i \in Issue |->
                   [open |-> TRUE, body |-> body[i], trigger |-> 0, candidate |-> FALSE]]
  /\ runs = <<>>
  /\ forwards = [i \in Issue |-> 0]
  /\ retries = {}
  /\ stops = {}
  /\ changes = 0

-----------------------------------------------------------------------------
(* Steps of claude-queue.yml and of the bridge. *)

Prepare(n) ==
  /\ runs[n].state = "queued"
  /\ Holds(n)
  /\ \/ Admits(runs[n]) /\ issues[runs[n].issue].body \notin Denied
        /\ SetRun(n, "allowed", "none")
     \/ Admits(runs[n]) /\ issues[runs[n].issue].body \in Denied
        /\ SetRun(n, "done", "contract")
     \/ ~Admits(runs[n]) /\ SetRun(n, "done", "denied")
  /\ UNCHANGED <<default, issues, forwards, retries, stops, changes>>

Implement(n) ==
  /\ runs[n].state = "allowed"
  /\ SetRun(n, "done", "unavailable")
  /\ UNCHANGED <<default, issues, forwards, retries, stops, changes>>

Forward(i) ==
  /\ forwards[i] > 0
  /\ forwards' = [forwards EXCEPT ![i] = @ - 1]
  /\ runs' = Enqueued(OtherRun("bridged", i))
  /\ UNCHANGED <<default, issues, retries, stops, changes>>

QueueStep ==
  \/ \E n \in DOMAIN runs : Prepare(n) \/ Implement(n)
  \/ \E i \in Issue : Forward(i)

-----------------------------------------------------------------------------
(* Steps of the environment, each of a kind. *)

Change(kind) ==
  /\ kind \in EnvKinds
  /\ changes < MaxChanges
  /\ changes' = changes + 1

(* The runner, or a call of the running job, fails. *)
Outage(n) ==
  /\ Change("outage")
  /\ Holds(n)
  /\ SetRun(n, "done", "outage")
  /\ UNCHANGED <<default, issues, forwards, retries, stops>>

(* The owner's comment /claude-run: a run, and one more by the bridge. *)
TriggerComment(i) ==
  /\ Change("trigger")
  /\ issues[i].trigger < MaxTriggers
  /\ issues' = [issues EXCEPT ![i].trigger = @ + 1]
  /\ runs' = Enqueued(OtherRun("trigger", i))
  /\ forwards' = [forwards EXCEPT ![i] = @ + 1]
  /\ UNCHANGED <<default, retries, stops>>

(* Any other comment makes a run that ignores it. *)
OtherComment(i) ==
  /\ runs' = Enqueued(OtherRun("ignored", i))
  /\ UNCHANGED <<default, issues, forwards, retries, stops>>

(* The owner starts a run by hand. *)
Manual(i) ==
  /\ Change("manual")
  /\ runs' = Enqueued(OtherRun("manual", i))
  /\ UNCHANGED <<default, issues, forwards, retries, stops>>

(* The owner runs a completed run again. *)
Rerun(n) ==
  /\ Change("rerun")
  /\ runs[n].state = "done"
  /\ ~RunAgain(n)
  /\ runs' = Enqueued(SecondAttempt(runs[n]))
  /\ UNCHANGED <<default, issues, forwards, retries, stops>>

MoveDefault ==
  /\ Change("move")
  /\ default' = default + 1
  /\ UNCHANGED <<issues, runs, forwards, retries, stops>>

ChangeIssue(i) ==
  /\ \/ /\ Change("edit")
        /\ \E b \in Body \ {issues[i].body} : issues' = [issues EXCEPT ![i].body = b]
     \/ /\ Change("close")
        /\ issues' = [issues EXCEPT ![i].open = ~@]
     \/ /\ Change("candidate")
        /\ issues' = [issues EXCEPT ![i].candidate = ~@]
  /\ UNCHANGED <<default, runs, forwards, retries, stops>>

World ==
  \/ \E n \in DOMAIN runs : Outage(n) \/ Rerun(n)
  \/ \E i \in Issue : Manual(i) \/ ChangeIssue(i)
  \/ MoveDefault
=============================================================================
