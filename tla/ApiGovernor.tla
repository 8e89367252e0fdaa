----------------------------- MODULE ApiGovernor -----------------------------
(***************************************************************************)
(* GovernedGitHub: the passes of a caller over GitHub's API, each with its *)
(* own request budget and circuit breaker.  A call is read_page(), or      *)
(* write_once_with_probe() for one write whose effect a read can see; the  *)
(* probe is a read_page() of the same pass.                                *)
(*                                                                         *)
(* Time is counted in ticks, and only as far as the cooldown reaches.      *)
(***************************************************************************)
EXTENDS Naturals

CONSTANTS
  Limit,        \* request_limit
  MaxAttempts,  \* max_attempts
  Threshold,    \* failure_threshold
  Cooldown,     \* cooldown_seconds, in ticks
  HasClock,     \* the caller supplies a clock: the default one stands still
  MaxPasses     \* bound: passes

ASSUME LimitAssumption == Limit \in Nat \ {0}
ASSUME AttemptsAssumption == MaxAttempts \in Nat \ {0}
ASSUME BreakerAssumption == Threshold \in Nat \ {0} /\ Cooldown \in Nat \ {0}
ASSUME ClockAssumption == HasClock \in BOOLEAN
ASSUME PassesAssumption == MaxPasses \in Nat \ {0}

VARIABLES
  pass,     \* passes so far
  used,     \* budget.used
  circuit,  \* failures in a row, whether open_until is set, and how long
            \* from now that is
  since,    \* ticks since the last request was sent
  last,     \* last_failure
  call,     \* the running call
  result,   \* what the last call returned or raised
  effects,  \* how often the write has taken effect
  due,      \* writes accepted that have yet to take effect
  late      \* history: writes that took effect, or will, after their answer

write == <<effects, due, late>>
vars == <<pass, used, circuit, since, last, call, result, write>>

Retryable == {"primary-rate-limit", "secondary-rate-limit", "transport", "platform-outage"}
Rejected == {"authentication", "permission", "primary-rate-limit", "secondary-rate-limit"}
Failure == Retryable \cup {"authentication", "permission", "malformed-response"}
Raised == Failure \cup {"request-budget-exhausted", "circuit-open", "ambiguous-write"}

Answers == {"2xx", "401", "403", "403 no remaining", "403 retry after", "429", "5xx",
            "no response", "malformed"}

(* classify_response(), and what _once() makes of no response. *)
Classify(answer) ==
  IF answer = "2xx" THEN "none"
  ELSE IF answer = "401" THEN "authentication"
  ELSE IF answer = "403 no remaining" THEN "primary-rate-limit"
  ELSE IF answer \in {"403 retry after", "429"} THEN "secondary-rate-limit"
  ELSE IF answer = "5xx" THEN "platform-outage"
  ELSE IF answer = "no response" THEN "transport"
  ELSE IF answer = "malformed" THEN "malformed-response"
  ELSE "permission"

Reads == {"read", "probe", "confirm", "recover"}
Call == [phase : Reads \cup {"none", "write"}, stage : {"gate", "sent", "sleep"},
         attempt : 1..MaxAttempts, error : Raised \cup {"none"}, applied : BOOLEAN]
NoCall == [phase |-> "none", stage |-> "gate", attempt |-> 1, error |-> "none", applied |-> FALSE]

Closed == [failures |-> 0, open |-> FALSE, left |-> 0]

Init ==
  /\ pass = 1
  /\ used = 0
  /\ circuit = Closed
  /\ since = Cooldown
  /\ last = "none"
  /\ call = NoCall
  /\ result = [kind |-> "none", probed |-> FALSE, applied |-> FALSE]
  /\ effects = 0
  /\ due = 0
  /\ late = 0

-----------------------------------------------------------------------------
Begin(phase) ==
  /\ call = NoCall
  /\ call' = [NoCall EXCEPT !.phase = phase]
  /\ UNCHANGED <<pass, used, circuit, since, last, result, write>>

EndWith(kind, probed) ==
  /\ call' = NoCall
  /\ result' = [kind |-> kind, probed |-> probed, applied |-> call.applied]

(* The next governed call of write_once_with_probe(). *)
GoTo(phase, error, applied) ==
  /\ call' = [phase |-> phase, stage |-> "gate", attempt |-> 1, error |-> error,
              applied |-> applied]
  /\ UNCHANGED result

(* An error that is not one of an answer: no read is retried for it. *)
RaiseUnsent(kind) ==
  \/ call.phase \in Reads /\ EndWith(kind, FALSE)
  \/ call.phase = "write" /\ GoTo("recover", kind, FALSE)

(* Mutant of require_closed: the time is not looked at. *)
RequireClosedNever == TRUE

(* Mutant of require_closed: an open breaker raises at any time. *)
RequireClosedAlways == ~circuit.open

(* require_closed() does not raise. *)
RequireClosed == circuit.open => circuit.left = 0

(* The breaker when require_closed() has let a request pass. *)
Passed == IF circuit.open THEN Closed ELSE circuit

Refuse ==
  /\ call.phase # "none"
  /\ call.stage = "gate"
  /\ ~RequireClosed
  /\ RaiseUnsent("circuit-open")
  /\ UNCHANGED <<pass, used, circuit, since, last, write>>

Exhaust ==
  /\ call.phase # "none"
  /\ call.stage = "gate"
  /\ RequireClosed
  /\ used = Limit
  /\ circuit' = Passed
  /\ RaiseUnsent("request-budget-exhausted")
  /\ UNCHANGED <<pass, used, since, last, write>>

Send ==
  /\ call.phase # "none"
  /\ call.stage = "gate"
  /\ RequireClosed
  /\ used < Limit
  /\ used' = used + 1
  /\ circuit' = Passed
  /\ since' = 0
  /\ call' = [call EXCEPT !.stage = "sent"]
  /\ UNCHANGED <<pass, last, result, write>>

(* Mutant of RecordFailure: the breaker opens one failure late. *)
RecordFailureLate ==
  LET failures == circuit.failures + 1
  IN circuit' = [failures |-> failures,
                 open |-> failures > Threshold,
                 left |-> IF failures > Threshold THEN Cooldown - since ELSE 0]

(* record_retryable_failure(): with the time before the request. *)
RecordFailure ==
  LET failures == circuit.failures + 1
  IN circuit' = [failures |-> failures,
                 open |-> failures >= Threshold,
                 left |-> IF failures >= Threshold THEN Cooldown - since ELSE 0]

(* The end of _once(): success, a retryable failure, or another one. *)
Recorded(kind) ==
  /\ last' = kind
  /\ \/ kind = "none" /\ circuit' = Closed
     \/ kind \in Retryable /\ RecordFailure
     \/ kind \notin Retryable \cup {"none"} /\ UNCHANGED circuit

(* A read_page() has returned. *)
AfterRead ==
  \/ call.phase = "read" /\ EndWith("none", FALSE)
  \/ call.phase = "probe" /\ effects > 0 /\ EndWith("already-present", TRUE)
  \/ call.phase = "probe" /\ effects = 0 /\ GoTo("write", "none", FALSE)
  \/ call.phase = "confirm" /\ EndWith(IF effects > 0 THEN "created" ELSE "ambiguous-write", TRUE)
  \/ call.phase = "recover" /\ effects > 0 /\ EndWith("recovered", TRUE)
  \/ /\ call.phase = "recover" /\ effects = 0
     /\ EndWith(IF call.error \in Retryable THEN "ambiguous-write" ELSE call.error, TRUE)

(* read_page() *)
AnswerRead(kind) ==
  /\ call.phase \in Reads
  /\ \/ kind = "none" /\ AfterRead
     \/ /\ kind \in Retryable /\ call.attempt < MaxAttempts
        /\ call' = [call EXCEPT !.stage = "sleep"]
        /\ UNCHANGED result
     \/ /\ kind # "none" /\ (kind \notin Retryable \/ call.attempt = MaxAttempts)
        /\ EndWith(kind, FALSE)
  /\ UNCHANGED write

(* What became of the write: a rejected one has no effect, any other       *)
(* failure may hide one, and one that was accepted may be seen only later. *)
Effect(kind, applied) ==
  \/ kind # "none" /\ ~applied /\ UNCHANGED write
  \/ kind \notin Rejected /\ applied /\ effects' = effects + 1 /\ UNCHANGED <<due, late>>
  \/ /\ kind \notin Rejected /\ ~applied
     /\ due' = due + 1 /\ late' = late + 1 /\ UNCHANGED effects

(* Mutant of AnswerWrite: a retryable failure is retried. *)
AnswerWriteAgain(kind) ==
  /\ call.phase = "write"
  /\ \E applied \in BOOLEAN :
       /\ Effect(kind, applied)
       /\ \/ kind = "none" /\ GoTo("confirm", "none", applied)
          \/ kind \in Retryable /\ GoTo("write", "none", applied)
          \/ kind \notin Retryable \cup {"none"} /\ GoTo("recover", kind, applied)

(* Mutant of AnswerWrite: a failure is reported without a probe. *)
AnswerWriteUnprobed(kind) ==
  /\ call.phase = "write"
  /\ \E applied \in BOOLEAN :
       /\ Effect(kind, applied)
       /\ \/ kind = "none" /\ GoTo("confirm", "none", applied)
          \/ /\ kind # "none"
             /\ call' = NoCall
             /\ result' = [kind |-> kind, probed |-> TRUE, applied |-> applied]

(* write_once_with_probe(): the write is sent once, a probe follows. *)
AnswerWrite(kind) ==
  /\ call.phase = "write"
  /\ \E applied \in BOOLEAN :
       /\ Effect(kind, applied)
       /\ GoTo(IF kind = "none" THEN "confirm" ELSE "recover", kind, applied)

Answer ==
  /\ call.stage = "sent"
  /\ \E answer \in Answers :
       /\ Recorded(Classify(answer))
       /\ AnswerRead(Classify(answer)) \/ AnswerWrite(Classify(answer))
  /\ UNCHANGED <<pass, used, since>>

(* The delay is over: the next attempt of read_page(). *)
Wake ==
  /\ call.stage = "sleep"
  /\ call' = [call EXCEPT !.stage = "gate", !.attempt = @ + 1]
  /\ UNCHANGED <<pass, used, circuit, since, last, result, write>>

-----------------------------------------------------------------------------
(* Time, GitHub and the caller. *)

Tick ==
  /\ HasClock
  /\ since < Cooldown
  /\ since' = since + 1
  /\ circuit' = [circuit EXCEPT !.left = IF @ > 0 THEN @ - 1 ELSE 0]
  /\ UNCHANGED <<pass, used, last, call, result, write>>

Arrive ==
  /\ due > 0
  /\ due' = due - 1
  /\ effects' = effects + 1
  /\ UNCHANGED <<pass, used, circuit, since, last, call, result, late>>

(* A new GovernedGitHub. *)
NewPass ==
  /\ call = NoCall
  /\ pass < MaxPasses
  /\ pass' = pass + 1
  /\ used' = 0
  /\ circuit' = Closed
  /\ last' = "none"
  /\ UNCHANGED <<since, call, result, write>>

Governed == Refuse \/ Exhaust \/ Send \/ Answer \/ Wake
Ask == Begin("read") \/ Begin("probe")

Next == Ask \/ Governed \/ Tick \/ Arrive \/ NewPass

Spec == Init /\ [][Next]_vars

(* The transport answers or fails, a sleep ends, time passes, and the      *)
(* caller keeps asking.                                                    *)
FairSpec == Spec /\ WF_vars(Governed) /\ WF_vars(Tick) /\ WF_vars(Ask)

-----------------------------------------------------------------------------
TypeOK ==
  /\ pass \in 1..MaxPasses
  /\ used \in 0..Limit
  /\ circuit \in [failures : 0..Threshold, open : BOOLEAN, left : 0..Cooldown]
  /\ since \in 0..Cooldown
  /\ last \in Failure \cup {"none"}
  /\ call \in Call
  /\ result \in [kind : Raised \cup {"none", "already-present", "recovered", "created"},
                 probed : BOOLEAN, applied : BOOLEAN]
  /\ effects \in Nat
  /\ due \in Nat /\ late \in Nat

(* The breaker is open exactly after the threshold's number of retryable   *)
(* failures without a success between them.                                *)
OpenAtThreshold == circuit.open <=> circuit.failures = Threshold

(* Once the breaker has opened, nothing is sent until the cooldown has     *)
(* passed, counted from the request that opened it.                        *)
RestsWhenOpen == [][used' > used /\ circuit.open => since = Cooldown]_vars

(* However often write_once_with_probe() is called for one write, in       *)
(* however many passes and with whatever failures, the write takes effect  *)
(* once; only a write whose effect could not be seen when its answer came  *)
(* may add another.                                                        *)
AtMostOnce == effects <= 1 + late

(* A call that says the write is there is right, and one whose write has   *)
(* taken effect says so if its probe was answered.                         *)
OutcomeTrue ==
  /\ result.kind \in {"already-present", "recovered", "created"} => effects > 0
  /\ result.probed /\ result.applied => result.kind \in {"recovered", "created"}

(* docs/GITHUB_CAPACITY_GOVERNANCE.md: "New noncritical API work stops     *)
(* until the bounded reopen time": for a caller that keeps asking.         *)
Reopens == circuit.open ~> ~circuit.open
=============================================================================
