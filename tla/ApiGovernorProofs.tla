-------------------------- MODULE ApiGovernorProofs --------------------------
(***************************************************************************)
(* For every budget, number of attempts, threshold and cooldown: the       *)
(* breaker rests when it is open, and a write is not repeated.             *)
(***************************************************************************)
EXTENDS ApiGovernor, TLAPS

(* The breaker: what is open reopens no earlier than a cooldown after the  *)
(* request that opened it, and a request on its way has closed it.         *)
Breaker ==
  /\ OpenAtThreshold
  /\ circuit.open => circuit.left + since >= Cooldown
  /\ call.stage = "sent" => ~circuit.open

(* The running call: it is one, and has an attempt left when it sleeps.    *)
Running ==
  /\ call.stage # "gate" => call.phase # "none"
  /\ call.stage = "sleep" => call.attempt < MaxAttempts

(* Effects seen in time and effects to come: when the write is about to be *)
(* sent, there is none but those that came late.                           *)
Counted ==
  /\ due <= late
  /\ effects + due <= 1 + late
  /\ call.phase = "write" => effects + due <= late

(* What is known of the write when its call returns. *)
Known ==
  /\ OutcomeTrue
  /\ call.applied => effects > 0 /\ call.phase \in {"confirm", "recover"}

IInv == TypeOK /\ Breaker /\ Running /\ Counted /\ Known

CircuitType == [failures : 0..Threshold, open : BOOLEAN, left : 0..Cooldown]
ResultType == [kind : Raised \cup {"none", "already-present", "recovered", "created"},
               probed : BOOLEAN, applied : BOOLEAN]

-----------------------------------------------------------------------------
(* The fields of the records. *)

LEMMA CircuitFields ==
  ASSUME circuit \in CircuitType
  PROVE  /\ circuit.failures \in Nat /\ circuit.failures <= Threshold
         /\ circuit.open \in BOOLEAN
         /\ circuit.left \in Nat /\ circuit.left <= Cooldown
BY BreakerAssumption DEF CircuitType

LEMMA CircuitOf ==
  ASSUME NEW f \in Nat, f <= Threshold, NEW o \in BOOLEAN, NEW l \in Nat, l <= Cooldown
  PROVE  [failures |-> f, open |-> o, left |-> l] \in CircuitType
<1>1. f \in 0..Threshold /\ l \in 0..Cooldown
  BY BreakerAssumption
<1> QED
  BY <1>1 DEF CircuitType

LEMMA NoCallFields ==
  /\ NoCall \in Call
  /\ NoCall.phase = "none" /\ NoCall.stage = "gate" /\ ~NoCall.applied /\ NoCall.error = "none"
BY AttemptsAssumption DEF NoCall, Call

(* The next governed call of a caller. *)
LEMMA CallOf ==
  ASSUME NEW phase \in Reads \cup {"none", "write"}, NEW error \in Raised \cup {"none"},
         NEW applied \in BOOLEAN
  PROVE  [phase |-> phase, stage |-> "gate", attempt |-> 1, error |-> error,
          applied |-> applied] \in Call
BY AttemptsAssumption DEF Call

LEMMA ClosedCircuit ==
  /\ Closed \in CircuitType
  /\ ~Closed.open /\ Closed.failures = 0 /\ Closed.failures # Threshold
<1>1. Closed \in CircuitType
  BY BreakerAssumption DEF Closed, CircuitType
<1> QED
  BY <1>1, BreakerAssumption DEF Closed

(* A request is let pass by a breaker that is closed then. *)
LEMMA PassedCircuit ==
  ASSUME circuit \in CircuitType, OpenAtThreshold
  PROVE  /\ Passed \in CircuitType
         /\ ~Passed.open /\ Passed.failures # Threshold
BY ClosedCircuit, CircuitFields DEF Passed, OpenAtThreshold

(* A failure opens the breaker at the threshold, for a cooldown from the   *)
(* request.                                                                *)
LEMMA FailureCircuit ==
  ASSUME circuit \in CircuitType, OpenAtThreshold, ~circuit.open, since \in 0..Cooldown,
         RecordFailure
  PROVE  /\ circuit' \in CircuitType
         /\ circuit'.open <=> circuit'.failures = Threshold
         /\ circuit'.open => circuit'.left + since >= Cooldown
<1> DEFINE f == circuit.failures + 1
           o == f >= Threshold
           l == IF o THEN Cooldown - since ELSE 0
<1>1. circuit' = [failures |-> f, open |-> o, left |-> l]
  BY DEF RecordFailure
<1>2. f \in Nat /\ f <= Threshold
  BY CircuitFields, BreakerAssumption DEF OpenAtThreshold
<1>3. l \in Nat /\ l <= Cooldown /\ (o => l + since >= Cooldown)
  BY BreakerAssumption
<1>4. o \in BOOLEAN /\ (o <=> f = Threshold)
  BY <1>2, BreakerAssumption
<1> HIDE DEF f, o, l
<1> QED
  BY <1>1, <1>2, <1>3, <1>4, CircuitOf

-----------------------------------------------------------------------------
(* How a call goes on. *)

(* What the steps of a call keep, whatever they do to the breaker. *)
CallOK ==
  /\ call \in Call /\ result \in ResultType
  /\ effects \in Nat /\ due \in Nat /\ late \in Nat
  /\ Running /\ Counted /\ Known

LEMMA CallParts ==
  ASSUME IInv
  PROVE  /\ CallOK
         /\ call.phase \in Reads \cup {"none", "write"}
         /\ call.attempt \in 1..MaxAttempts
         /\ call.error \in Raised \cup {"none"}
         /\ call.applied \in BOOLEAN
BY DEF IInv, TypeOK, CallOK, Call, ResultType

Result == Raised \cup {"none", "already-present", "recovered", "created"}

(* The call ends. *)
LEMMA EndStep ==
  ASSUME IInv, NEW kind \in Result, NEW probed \in BOOLEAN, EndWith(kind, probed),
         UNCHANGED write,
         kind \in {"already-present", "recovered", "created"} => effects > 0,
         probed /\ call.applied => kind \in {"recovered", "created"}
  PROVE  CallOK' /\ call'.stage = "gate"
<1>1. CallOK /\ call.applied \in BOOLEAN
  BY CallParts
<1>2. call' = NoCall /\ result' = [kind |-> kind, probed |-> probed, applied |-> call.applied]
  BY DEF EndWith
<1>3. effects' = effects /\ due' = due /\ late' = late
  BY DEF write
<1>4. result' \in ResultType
  BY <1>1, <1>2 DEF ResultType, Result
<1>5. Running' /\ Counted'
  BY <1>1, <1>2, <1>3, NoCallFields DEF CallOK, Running, Counted
<1>6. Known'
  BY <1>2, <1>3, NoCallFields DEF Known, OutcomeTrue
<1> QED
  BY <1>1, <1>2, <1>3, <1>4, <1>5, <1>6, NoCallFields DEF CallOK

(* The next governed call, with the effects of the step before it. *)
LEMMA GoToStep ==
  ASSUME IInv, NEW phase \in {"write", "confirm", "recover"}, NEW error \in Raised \cup {"none"},
         NEW applied \in BOOLEAN, GoTo(phase, error, applied),
         effects' \in Nat, due' \in Nat, late' \in Nat, effects' >= effects,
         due' <= late', effects' + due' <= 1 + late',
         phase = "write" => effects' + due' <= late',
         applied => effects' > 0 /\ phase \in {"confirm", "recover"}
  PROVE  CallOK' /\ call'.stage = "gate"
<1>1. CallOK
  BY CallParts
<1>2. /\ call' = [phase |-> phase, stage |-> "gate", attempt |-> 1, error |-> error,
                  applied |-> applied]
      /\ result' = result
  BY DEF GoTo
<1>3. call' \in Call
  BY <1>2, CallOf DEF Reads
<1>4. call'.phase = phase /\ call'.stage = "gate" /\ call'.applied = applied
  BY <1>2
<1>5. Running' /\ Counted'
  BY <1>4 DEF Running, Counted
<1>6. Known'
  BY <1>1, <1>2, <1>4 DEF Known, OutcomeTrue, CallOK
<1> QED
  BY <1>1, <1>2, <1>3, <1>4, <1>5, <1>6 DEF CallOK

(* A refused request. *)
LEMMA UnsentStep ==
  ASSUME IInv, NEW kind \in {"circuit-open", "request-budget-exhausted"},
         RaiseUnsent(kind), UNCHANGED write
  PROVE  CallOK' /\ call'.stage = "gate"
<1>1. kind \in Raised /\ kind \in Result
  BY DEF Raised, Result
<1>2. CASE EndWith(kind, FALSE)
  BY <1>1, <1>2, EndStep
<1>3. CASE GoTo("recover", kind, FALSE)
  <2>1. effects' = effects /\ due' = due /\ late' = late
    BY DEF write
  <2>2. effects \in Nat /\ due \in Nat /\ late \in Nat /\ due <= late /\ effects + due <= 1 + late
    BY CallParts DEF CallOK, Counted
  <2>3. /\ effects' \in Nat /\ due' \in Nat /\ late' \in Nat /\ effects' >= effects
        /\ due' <= late' /\ effects' + due' <= 1 + late'
    BY <2>1, <2>2
  <2>4. kind \in Raised \cup {"none"} /\ FALSE \in BOOLEAN /\ "recover" # "write"
    BY <1>1
  <2> QED
    BY <1>3, <2>3, <2>4, GoToStep
<1> QED
  BY <1>2, <1>3 DEF RaiseUnsent

LEMMA ClassifyType ==
  ASSUME NEW answer \in Answers
  PROVE  Classify(answer) \in Failure \cup {"none"}
BY DEF Classify, Failure, Retryable

(* The answer to a read. *)
LEMMA AnswerReadStep ==
  ASSUME IInv, NEW kind \in Failure \cup {"none"}, call.stage = "sent", AnswerRead(kind)
  PROVE  CallOK' /\ call'.stage # "sent"
<1>1. CallOK /\ call.applied \in BOOLEAN /\ call.error \in Raised \cup {"none"}
  BY CallParts
<1>2. UNCHANGED write
  BY DEF AnswerRead
<1>3. effects' = effects /\ due' = due /\ late' = late
  BY <1>2 DEF write
<1>4. /\ effects \in Nat /\ due \in Nat /\ late \in Nat /\ due <= late
      /\ effects + due <= 1 + late
      /\ call.applied => effects > 0 /\ call.phase \in {"confirm", "recover"}
  BY <1>1 DEF CallOK, Counted, Known
<1>5. CASE AfterRead
  <2>1. CASE call.phase = "read" /\ EndWith("none", FALSE)
    BY <1>2, <2>1, EndStep DEF Result
  <2>2. CASE call.phase = "probe" /\ effects > 0 /\ EndWith("already-present", TRUE)
    BY <1>2, <1>4, <2>2, EndStep DEF Result
  <2>3. CASE call.phase = "probe" /\ effects = 0 /\ GoTo("write", "none", FALSE)
    <3>1. /\ effects' \in Nat /\ due' \in Nat /\ late' \in Nat /\ effects' >= effects
          /\ due' <= late' /\ effects' + due' <= 1 + late' /\ effects' + due' <= late'
      BY <1>3, <1>4, <2>3
    <3>2. "none" \in Raised \cup {"none"} /\ FALSE \in BOOLEAN
      OBVIOUS
    <3> QED
      BY <2>3, <3>1, <3>2, GoToStep
  <2>4. CASE /\ call.phase = "confirm"
             /\ EndWith(IF effects > 0 THEN "created" ELSE "ambiguous-write", TRUE)
    BY <1>2, <1>4, <2>4, EndStep DEF Result, Raised
  <2>5. CASE call.phase = "recover" /\ effects > 0 /\ EndWith("recovered", TRUE)
    BY <1>2, <1>4, <2>5, EndStep DEF Result
  <2>6. CASE /\ call.phase = "recover" /\ effects = 0
             /\ EndWith(IF call.error \in Retryable THEN "ambiguous-write" ELSE call.error, TRUE)
    <3> DEFINE raised == IF call.error \in Retryable THEN "ambiguous-write" ELSE call.error
    <3>1. raised \in Raised \cup {"none"}
      BY <1>1 DEF Raised
    <3>2. raised \in Result /\ raised \notin {"already-present", "recovered", "created"}
      BY <3>1 DEF Result, Raised, Failure, Retryable
    <3>3. ~call.applied
      BY <1>4, <2>6
    <3>4. EndWith(raised, TRUE)
      BY <2>6
    <3> HIDE DEF raised
    <3> QED
      BY <1>2, <3>2, <3>3, <3>4, EndStep
  <2> QED
    BY <1>5, <2>1, <2>2, <2>3, <2>4, <2>5, <2>6 DEF AfterRead
<1>6. CASE /\ call.attempt < MaxAttempts
           /\ call' = [call EXCEPT !.stage = "sleep"]
           /\ UNCHANGED result
  <2>1. call' \in Call /\ call'.stage = "sleep" /\ call'.phase = call.phase
        /\ call'.attempt = call.attempt /\ call'.applied = call.applied
    BY <1>1, <1>6 DEF CallOK, Call
  <2>2. call.phase # "none"
    BY DEF AnswerRead, Reads
  <2>3. Running' /\ Counted'
    BY <1>1, <1>3, <1>6, <2>1, <2>2 DEF CallOK, Running, Counted
  <2>4. Known'
    BY <1>1, <1>3, <1>6, <2>1 DEF CallOK, Known, OutcomeTrue
  <2> QED
    BY <1>1, <1>3, <1>6, <2>1, <2>3, <2>4 DEF CallOK
<1>7. CASE kind # "none" /\ EndWith(kind, FALSE)
  <2>1. kind \in Result /\ kind \notin {"already-present", "recovered", "created"}
    BY <1>7 DEF Result, Raised, Failure, Retryable
  <2> QED
    BY <1>2, <1>7, <2>1, EndStep
<1> QED
  BY <1>5, <1>6, <1>7 DEF AnswerRead

(* The answer to the write. *)
LEMMA AnswerWriteStep ==
  ASSUME IInv, NEW kind \in Failure \cup {"none"}, AnswerWrite(kind)
  PROVE  CallOK' /\ call'.stage # "sent"
<1>1. /\ effects \in Nat /\ due \in Nat /\ late \in Nat /\ due <= late
      /\ effects + due <= late
  BY CallParts DEF CallOK, Counted, AnswerWrite
<1>2. PICK applied \in BOOLEAN :
        /\ Effect(kind, applied)
        /\ GoTo(IF kind = "none" THEN "confirm" ELSE "recover", kind, applied)
  BY DEF AnswerWrite
<1>3. /\ effects' \in Nat /\ due' \in Nat /\ late' \in Nat /\ effects' >= effects
      /\ due' <= late' /\ effects' + due' <= 1 + late'
      /\ applied => effects' > 0
  BY <1>1, <1>2 DEF Effect, write
<1>4. kind \in Raised \cup {"none"}
  BY DEF Raised
<1> QED
  BY <1>2, <1>3, <1>4, GoToStep

-----------------------------------------------------------------------------
(* Every step keeps the invariant. *)

Rest == pass \in 1..MaxPasses /\ used \in 0..Limit /\ last \in Failure \cup {"none"}

CircuitOK == circuit \in CircuitType /\ since \in 0..Cooldown

LEMMA Parts ==
  IInv <=> Rest /\ CircuitOK /\ CallOK /\ Breaker
BY DEF IInv, TypeOK, Rest, CircuitOK, CallOK, CircuitType, ResultType

LEMMA NextParts ==
  Rest' /\ CircuitOK' /\ CallOK' /\ Breaker' => IInv'
BY DEF IInv, TypeOK, Rest, CircuitOK, CallOK, CircuitType, ResultType

LEMMA RefuseStep == IInv /\ Refuse => IInv'
<1> SUFFICES ASSUME IInv, Refuse PROVE IInv'
  OBVIOUS
<1>1. CallOK' /\ call'.stage = "gate"
  BY UnsentStep DEF Refuse
<1>2. Rest' /\ CircuitOK' /\ Breaker'
  BY Parts, <1>1 DEF Refuse, Rest, CircuitOK, Breaker, OpenAtThreshold
<1> QED
  BY <1>1, <1>2, NextParts

LEMMA ExhaustStep == IInv /\ Exhaust => IInv'
<1> SUFFICES ASSUME IInv, Exhaust PROVE IInv'
  OBVIOUS
<1>1. CallOK' /\ call'.stage = "gate"
  BY UnsentStep DEF Exhaust
<1>2. circuit' = Passed /\ Passed \in CircuitType /\ ~Passed.open /\ Passed.failures # Threshold
  BY Parts, PassedCircuit DEF Exhaust, CircuitOK, Breaker
<1>3. Rest' /\ CircuitOK'
  BY Parts, <1>2 DEF Exhaust, Rest, CircuitOK
<1>4. Breaker'
  BY <1>1, <1>2 DEF Breaker, OpenAtThreshold
<1> QED
  BY <1>1, <1>3, <1>4, NextParts

(* A change of the call alone that keeps what it knows. *)
LEMMA CallStep ==
  ASSUME IInv, NEW new \in Call, call' = new, UNCHANGED <<result, write>>,
         new.phase # "none", new.phase = "write" => call.phase = "write",
         new.stage # "sleep",
         new.applied => call.applied /\ new.phase = call.phase
  PROVE  CallOK'
<1>1. CallOK /\ effects' = effects /\ due' = due /\ late' = late /\ result' = result
  BY CallParts DEF write
<1>2. Running' /\ Counted'
  BY <1>1 DEF CallOK, Running, Counted
<1>3. Known'
  BY <1>1 DEF CallOK, Known, OutcomeTrue
<1> QED
  BY <1>1, <1>2, <1>3 DEF CallOK

LEMMA BeginStep == ASSUME IInv, NEW phase \in {"read", "probe"}, Begin(phase) PROVE IInv'
<1> DEFINE new == [NoCall EXCEPT !.phase = phase]
<1>1. new \in Call /\ new.phase = phase /\ new.stage = "gate" /\ ~new.applied
  BY NoCallFields DEF Call, Reads
<1>2. call' = new /\ UNCHANGED <<result, write>>
  BY DEF Begin, write
<1> HIDE DEF new
<1>3. CallOK'
  BY <1>1, <1>2, CallStep
<1>4. Rest' /\ CircuitOK' /\ Breaker'
  BY Parts, <1>1, <1>2 DEF Begin, Rest, CircuitOK, Breaker, OpenAtThreshold
<1> QED
  BY <1>3, <1>4, NextParts

LEMMA SendStep == IInv /\ Send => IInv'
<1> SUFFICES ASSUME IInv, Send PROVE IInv'
  OBVIOUS
<1> DEFINE new == [call EXCEPT !.stage = "sent"]
<1>1. new \in Call /\ new.phase = call.phase /\ new.stage = "sent" /\ new.applied = call.applied
  BY CallParts DEF CallOK, Call
<1>2. call' = new /\ UNCHANGED <<result, write>> /\ call.phase # "none"
  BY DEF Send, write
<1> HIDE DEF new
<1>3. CallOK'
  BY <1>1, <1>2, CallStep
<1>4. circuit' = Passed /\ Passed \in CircuitType /\ ~Passed.open /\ Passed.failures # Threshold
  BY Parts, PassedCircuit DEF Send, CircuitOK, Breaker
<1>5. Rest' /\ CircuitOK'
  BY Parts, <1>4, LimitAssumption, BreakerAssumption DEF Send, Rest, CircuitOK
<1>6. Breaker'
  BY <1>1, <1>2, <1>4 DEF Breaker, OpenAtThreshold
<1> QED
  BY <1>3, <1>5, <1>6, NextParts

LEMMA AnswerStep == IInv /\ Answer => IInv'
<1> SUFFICES ASSUME IInv, Answer PROVE IInv'
  OBVIOUS
<1>1. PICK answer \in Answers :
        /\ Recorded(Classify(answer))
        /\ AnswerRead(Classify(answer)) \/ AnswerWrite(Classify(answer))
  BY DEF Answer
<1> DEFINE kind == Classify(answer)
<1>2. kind \in Failure \cup {"none"}
  BY ClassifyType
<1>3. call.stage = "sent" /\ pass' = pass /\ used' = used /\ since' = since
  BY DEF Answer
<1>4. Recorded(kind) /\ (AnswerRead(kind) \/ AnswerWrite(kind))
  BY <1>1
<1> HIDE DEF kind
<1>5. CallOK' /\ call'.stage # "sent"
  BY <1>2, <1>3, <1>4, AnswerReadStep, AnswerWriteStep
<1>6. circuit \in CircuitType /\ OpenAtThreshold /\ ~circuit.open /\ since \in 0..Cooldown
  BY Parts, <1>3 DEF CircuitOK, Breaker
<1>7. /\ circuit' \in CircuitType
      /\ circuit'.open <=> circuit'.failures = Threshold
      /\ circuit'.open => circuit'.left + since >= Cooldown
  <2>1. CASE circuit' = Closed
    BY <2>1, ClosedCircuit
  <2>2. CASE RecordFailure
    BY <1>6, <2>2, FailureCircuit
  <2>3. CASE UNCHANGED circuit
    BY <1>6, <2>3 DEF OpenAtThreshold
  <2> QED
    BY <1>4, <2>1, <2>2, <2>3 DEF Recorded
<1>8. Rest' /\ CircuitOK'
  BY Parts, <1>2, <1>3, <1>4, <1>6, <1>7 DEF Rest, CircuitOK, Recorded
<1>9. Breaker'
  BY <1>3, <1>5, <1>7 DEF Breaker, OpenAtThreshold
<1> QED
  BY <1>5, <1>8, <1>9, NextParts

LEMMA WakeStep == IInv /\ Wake => IInv'
<1> SUFFICES ASSUME IInv, Wake PROVE IInv'
  OBVIOUS
<1> DEFINE new == [call EXCEPT !.stage = "gate", !.attempt = @ + 1]
<1>1. call.phase # "none" /\ call.attempt < MaxAttempts /\ call.attempt \in 1..MaxAttempts
  BY CallParts DEF CallOK, Running, Wake
<1>2. call.attempt + 1 \in 1..MaxAttempts
  BY <1>1, AttemptsAssumption
<1>3. new \in Call /\ new.phase = call.phase /\ new.stage = "gate" /\ new.applied = call.applied
  BY <1>2, CallParts DEF CallOK, Call
<1>4. call' = new /\ UNCHANGED <<result, write>>
  BY DEF Wake, write
<1> HIDE DEF new
<1>5. CallOK'
  BY <1>1, <1>3, <1>4, CallStep
<1>6. Rest' /\ CircuitOK' /\ Breaker'
  BY Parts, <1>3, <1>4 DEF Wake, Rest, CircuitOK, Breaker, OpenAtThreshold
<1> QED
  BY <1>5, <1>6, NextParts

LEMMA TickStep == IInv /\ Tick => IInv'
<1> SUFFICES ASSUME IInv, Tick PROVE IInv'
  OBVIOUS
<1> DEFINE l == IF circuit.left > 0 THEN circuit.left - 1 ELSE 0
<1>1. CircuitOK /\ Breaker
  BY Parts
<1>2. /\ circuit.failures \in Nat /\ circuit.failures <= Threshold
      /\ circuit.open \in BOOLEAN
      /\ circuit.left \in Nat /\ circuit.left <= Cooldown
  BY <1>1, CircuitFields DEF CircuitOK
<1>3. since \in Nat /\ since < Cooldown /\ since' = since + 1
  BY <1>1, BreakerAssumption DEF CircuitOK, Tick
<1>4. l \in Nat /\ l <= Cooldown /\ l + since' >= circuit.left + since
  BY <1>2, <1>3, BreakerAssumption
<1>5. circuit' = [failures |-> circuit.failures, open |-> circuit.open, left |-> l]
  BY <1>1 DEF Tick, CircuitOK, CircuitType
<1> HIDE DEF l
<1>6. circuit' \in CircuitType
  BY <1>2, <1>4, <1>5, CircuitOf
<1>7. since' \in 0..Cooldown
  BY <1>3, BreakerAssumption
<1>8. call' = call /\ result' = result /\ UNCHANGED write /\ pass' = pass /\ used' = used
      /\ last' = last
  BY DEF Tick
<1>9. Breaker'
  <2>1. OpenAtThreshold'
    BY <1>1, <1>5 DEF Breaker, OpenAtThreshold
  <2>2. circuit'.open => circuit'.left + since' >= Cooldown
    <3>1. circuit.open => circuit.left + since >= Cooldown
      BY <1>1 DEF Breaker
    <3>2. circuit'.open = circuit.open /\ circuit'.left = l
      BY <1>5
    <3>3. l + since' >= circuit.left + since /\ since' \in Nat
      BY <1>3, <1>4
    <3> QED
      BY <1>2, <1>3, <1>4, <3>1, <3>2, <3>3, BreakerAssumption
  <2>3. call'.stage = "sent" => ~circuit'.open
    BY <1>1, <1>5, <1>8 DEF Breaker
  <2> QED
    BY <2>1, <2>2, <2>3 DEF Breaker
<1>10. Rest' /\ CallOK'
  BY Parts, <1>8 DEF Rest, CallOK, Running, Counted, Known, OutcomeTrue, write
<1> QED
  BY <1>6, <1>7, <1>9, <1>10, NextParts DEF CircuitOK

LEMMA ArriveStep == IInv /\ Arrive => IInv'
<1> SUFFICES ASSUME IInv, Arrive PROVE IInv'
  OBVIOUS
<1>1. /\ CallOK /\ due > 0 /\ due' = due - 1 /\ effects' = effects + 1 /\ late' = late
      /\ call' = call /\ result' = result
  BY Parts DEF Arrive
<1>2. effects' \in Nat /\ due' \in Nat /\ late' \in Nat
  BY <1>1 DEF CallOK
<1>3. Running' /\ Counted'
  BY <1>1, <1>2 DEF CallOK, Running, Counted
<1>4. Known'
  BY <1>1, <1>2 DEF CallOK, Known, OutcomeTrue
<1>5. CallOK'
  BY <1>1, <1>2, <1>3, <1>4 DEF CallOK
<1>6. Rest' /\ CircuitOK' /\ Breaker'
  BY Parts DEF Arrive, Rest, CircuitOK, Breaker, OpenAtThreshold
<1> QED
  BY <1>5, <1>6, NextParts

LEMMA NewPassStep == IInv /\ NewPass => IInv'
<1> SUFFICES ASSUME IInv, NewPass PROVE IInv'
  OBVIOUS
<1>1. call' = call /\ result' = result /\ UNCHANGED write /\ call.stage = "gate"
  BY NoCallFields DEF NewPass
<1>2. CallOK'
  BY Parts, <1>1 DEF CallOK, Running, Counted, Known, OutcomeTrue, write
<1>3. Rest' /\ CircuitOK'
  BY Parts, ClosedCircuit, PassesAssumption, LimitAssumption DEF NewPass, Rest, CircuitOK
<1>4. Breaker'
  BY <1>1, ClosedCircuit DEF NewPass, Breaker, OpenAtThreshold
<1> QED
  BY <1>2, <1>3, <1>4, NextParts

LEMMA InitInvariant == Init => IInv
<1> SUFFICES ASSUME Init PROVE IInv
  OBVIOUS
<1>1. Rest /\ CircuitOK
  BY ClosedCircuit, PassesAssumption, LimitAssumption, BreakerAssumption
  DEF Init, Rest, CircuitOK
<1>2. CallOK
  BY NoCallFields DEF Init, CallOK, ResultType, Running, Counted, Known, OutcomeTrue
<1>3. Breaker
  BY NoCallFields, ClosedCircuit DEF Init, Breaker, OpenAtThreshold
<1> QED
  BY <1>1, <1>2, <1>3, Parts

LEMMA NextInvariant == IInv /\ [Next]_vars => IInv'
<1> SUFFICES ASSUME IInv, [Next]_vars PROVE IInv'
  OBVIOUS
<1>1. CASE Ask
  BY <1>1, BeginStep DEF Ask
<1>2. CASE Governed
  BY <1>2, RefuseStep, ExhaustStep, SendStep, AnswerStep, WakeStep DEF Governed
<1>3. CASE Tick \/ Arrive \/ NewPass
  BY <1>3, TickStep, ArriveStep, NewPassStep
<1>4. CASE UNCHANGED vars
  <2>1. Rest' /\ CircuitOK' /\ Breaker'
    BY <1>4, Parts DEF vars, Rest, CircuitOK, Breaker, OpenAtThreshold
  <2>2. CallOK'
    BY <1>4, Parts DEF vars, write, CallOK, Running, Counted, Known, OutcomeTrue
  <2> QED
    BY <2>1, <2>2, NextParts
<1> QED
  BY <1>1, <1>2, <1>3, <1>4 DEF Next

LEMMA Invariance == Spec => []IInv
<1>1. Init => IInv
  BY InitInvariant
<1>2. IInv /\ [Next]_vars => IInv'
  BY NextInvariant
<1> QED
  BY <1>1, <1>2, PTL DEF Spec

-----------------------------------------------------------------------------
(* Budget, breaker and call keep their types: no more requests than the    *)
(* limit, no more attempts than allowed, no more failures than the         *)
(* threshold.                                                              *)
THEOREM TypeCorrect == Spec => []TypeOK
<1>1. IInv => TypeOK
  BY DEF IInv
<1> QED
  BY <1>1, Invariance, PTL

(* The breaker is open exactly at the threshold. *)
THEOREM OpenCorrect == Spec => []OpenAtThreshold
<1>1. IInv => OpenAtThreshold
  BY DEF IInv, Breaker
<1> QED
  BY <1>1, Invariance, PTL

(* _once() sends nothing between the request that opened the breaker and   *)
(* the end of the cooldown.                                                *)
THEOREM RestCorrect == Spec => RestsWhenOpen
<1>1. IInv /\ [Next]_vars => [used' > used /\ circuit.open => since = Cooldown]_vars
  <2> SUFFICES ASSUME IInv, Next, used' > used, circuit.open PROVE since = Cooldown
    OBVIOUS
  <2>1. used \in Nat /\ since \in Nat /\ since <= Cooldown /\ circuit.left + since >= Cooldown
    BY Parts, LimitAssumption, BreakerAssumption DEF Rest, CircuitOK, Breaker
  <2>2. CASE Send
    BY <2>1, <2>2, BreakerAssumption DEF Send, RequireClosed
  <2>3. CASE NewPass
    BY <2>1, <2>3 DEF NewPass
  <2>4. CASE Ask \/ Refuse \/ Exhaust \/ Answer \/ Wake \/ Tick \/ Arrive
    <3>1. used' = used
      BY <2>4 DEF Ask, Begin, Refuse, Exhaust, Answer, Wake, Tick, Arrive
    <3> QED
      BY <2>1, <3>1
  <2> QED
    BY <2>2, <2>3, <2>4 DEF Next, Governed
<1> QED
  BY <1>1, Invariance, PTL DEF Spec, RestsWhenOpen

(* write_once_with_probe(): the write is not repeated, by any number of    *)
(* calls and passes, but for effects that came late.                       *)
THEOREM OnceCorrect == Spec => []AtMostOnce
<1>1. IInv => AtMostOnce
  BY Parts DEF CallOK, Counted, AtMostOnce
<1> QED
  BY <1>1, Invariance, PTL

(* write_once_with_probe() says what has become of the write. *)
THEOREM OutcomeCorrect == Spec => []OutcomeTrue
<1>1. IInv => OutcomeTrue
  BY DEF IInv, Known
<1> QED
  BY <1>1, Invariance, PTL

=============================================================================
