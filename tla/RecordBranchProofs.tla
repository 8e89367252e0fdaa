------------------------- MODULE RecordBranchProofs -------------------------
(***************************************************************************)
(* TypeOK holds of Spec; and while nobody rewrites the branch and no write *)
(* outlives its job, RecordBranch implements RecordMap: put_record() never *)
(* changes or removes a record.                                            *)
(*                                                                         *)
(* The look at the existing record and the read of the head are two calls. *)
(* What makes them one is that jobs run one after the other: from the look *)
(* to the PATCH only foreign records can come in, at other paths, and any  *)
(* of them makes the PATCH fail.                                           *)
(*                                                                         *)
(* ConfirmedThere and Returned hold of Spec without these conditions.  A   *)
(* commit that a job made can be on the branch only after its PATCH, and a *)
(* late PATCH lands only on the head its job had seen: so nothing lands    *)
(* over a job's commit at its path while that job is at work, nor, when    *)
(* the branch keeps its commits, after it has answered.                    *)
(***************************************************************************)
EXTENDS RecordBranch, WellFoundedInduction, TLAPS

(* The commit h holds a record at p; and at most one at each path. *)
Recorded(h, p) == \E i \in 1..Len(h) : h[i].path = p
Unique(h) == \A i, j \in 1..Len(h) : h[i].path = h[j].path => i = j

LEMMA Constants ==
  /\ \A w \in Writer : PathOf[w] \in Path /\ PayloadOf[w] \in Payload
  /\ \A w \in Writer : PathOf[w] \in AnyPath /\ PathOf[w] \notin ForeignPath
  /\ Foreign \in Payload /\ None \notin Payload /\ None \notin Writer
  /\ \A w \in Writer : RecordOf(w) \in Entry
  BY WriterAssumption, ForeignAssumption, NoneAssumption DEF AnyPath, Entry, RecordOf

-----------------------------------------------------------------------------
(* A file is read as absent exactly when no commit wrote it. *)
LEMMA LookupNone ==
  ASSUME NEW h \in Commit, NEW p, Unique(h)
  PROVE  /\ Lookup(h, p) \in Payload \cup {None}
         /\ Lookup(h, p) = None <=> ~Recorded(h, p)
<1>1. CASE ~Recorded(h, p)
  BY <1>1 DEF Lookup, Recorded
<1>2. CASE Recorded(h, p)
  <2> DEFINE last == CHOOSE i \in 1..Len(h) :
                       /\ h[i].path = p
                       /\ \A j \in 1..Len(h) : j > i => h[j].path # p
  <2>1. PICK i \in 1..Len(h) : h[i].path = p
    BY <1>2 DEF Recorded
  <2>2. \A j \in 1..Len(h) : j > i => h[j].path # p
    BY <2>1 DEF Unique, Commit
  <2>3. last \in 1..Len(h)
    BY <2>1, <2>2
  <2>4. h[last] \in Entry
    BY <2>3 DEF Commit
  <2>5. h[last].payload \in Payload
    BY <2>4 DEF Entry
  <2>6. Lookup(h, p) = h[last].payload
    BY <1>2 DEF Lookup, Recorded
  <2> QED
    BY <1>2, <2>5, <2>6, Constants
<1> QED
  BY <1>1, <1>2

(* A new record is found, and the others are what they were. *)
LEMMA LookupAppend ==
  ASSUME NEW h \in Commit, Unique(h), NEW e \in Entry, ~Recorded(h, e.path)
  PROVE  /\ Append(h, e) \in Commit
         /\ Unique(Append(h, e))
         /\ Lookup(Append(h, e), e.path) = e.payload
         /\ \A p : p # e.path => Lookup(Append(h, e), p) = Lookup(h, p)
<1> DEFINE g == Append(h, e)
<1>1. g \in Commit /\ Len(g) = Len(h) + 1 /\ g[Len(h) + 1] = e /\ Len(h) \in Nat
  BY DEF Commit
<1>2. \A i \in 1..Len(h) : g[i] = h[i]
  BY DEF Commit
<1>3. Unique(g)
  BY <1>1, <1>2 DEF Unique, Recorded
<1>4. \A i \in 1..Len(g) : i \in 1..Len(h) \/ i = Len(h) + 1
  BY <1>1
<1> HIDE DEF g
<1>5. Lookup(g, e.path) = e.payload
  <2> DEFINE last == CHOOSE i \in 1..Len(g) :
                       /\ g[i].path = e.path
                       /\ \A j \in 1..Len(g) : j > i => g[j].path # e.path
  <2>1. Len(h) + 1 \in 1..Len(g) /\ g[Len(h) + 1].path = e.path
    BY <1>1
  <2>2. \A j \in 1..Len(g) : ~(j > Len(h) + 1)
    BY <1>1
  <2>3. last \in 1..Len(g) /\ g[last].path = e.path
    BY <2>1, <2>2
  <2>4. last = Len(h) + 1
    BY <2>1, <2>3, <1>3 DEF Unique
  <2>5. Lookup(g, e.path) = g[last].payload
    BY <2>1 DEF Lookup
  <2> QED
    BY <2>4, <2>5, <1>1
<1>6. ASSUME NEW p, p # e.path
      PROVE  Lookup(g, p) = Lookup(h, p)
  <2> DEFINE inG == CHOOSE i \in 1..Len(g) :
                      /\ g[i].path = p
                      /\ \A j \in 1..Len(g) : j > i => g[j].path # p
             inH == CHOOSE i \in 1..Len(h) :
                      /\ h[i].path = p
                      /\ \A j \in 1..Len(h) : j > i => h[j].path # p
  <2>1. CASE Recorded(h, p)
    <3>1. PICK i \in 1..Len(h) : h[i].path = p
      BY <2>1 DEF Recorded
    <3>2. i \in 1..Len(g) /\ g[i].path = p
      BY <3>1, <1>1, <1>2
    <3>3. \A j \in 1..Len(h) : j > i => h[j].path # p
      BY <3>1 DEF Unique
    <3>4. \A j \in 1..Len(g) : j > i => g[j].path # p
      BY <3>2, <1>3, <1>1 DEF Unique
    <3>5. inG \in 1..Len(g) /\ g[inG].path = p
      BY <3>2, <3>4
    <3>6. inH \in 1..Len(h) /\ h[inH].path = p
      BY <3>1, <3>3
    <3>7. inG = i /\ inH = i
      BY <3>1, <3>2, <3>5, <3>6, <1>3 DEF Unique
    <3>8. Lookup(g, p) = g[inG].payload /\ Lookup(h, p) = h[inH].payload
      BY <3>1, <3>2 DEF Lookup
    <3> QED
      BY <3>1, <3>7, <3>8, <1>2
  <2>2. CASE ~Recorded(h, p)
    <3>1. ~Recorded(g, p)
      BY <2>2, <1>1, <1>2, <1>4, <1>6 DEF Recorded
    <3> QED
      BY <2>2, <3>1 DEF Lookup, Recorded
  <2> QED
    BY <2>1, <2>2
<1> QED
  BY <1>1, <1>3, <1>5, <1>6 DEF g

(* A branch that contains the observed head can move to the new commit only *)
(* from that head, or is there already.                                     *)
LEMMA ForwardOnly ==
  ASSUME NEW h \in Commit, NEW g \in Commit, NEW e \in Entry,
         Extends(g, h), Extends(Append(h, e), g)
  PROVE  g = h \/ g = Append(h, e)
<1>1. Len(g) = Len(h) \/ Len(g) = Len(h) + 1
  BY DEF Extends, Commit
<1>2. CASE Len(g) = Len(h)
  <2>1. \A i \in 1..Len(h) : h[i] = g[i]
    BY DEF Extends
  <2> QED
    BY <1>2, <2>1 DEF Commit
<1>3. CASE Len(g) = Len(h) + 1
  <2>1. \A i \in 1..Len(g) : g[i] = Append(h, e)[i]
    BY DEF Extends
  <2>2. Append(h, e) \in Commit /\ Len(Append(h, e)) = Len(g)
    BY <1>3 DEF Commit
  <2> QED
    BY <2>1, <2>2 DEF Commit
<1> QED
  BY <1>1, <1>2, <1>3

-----------------------------------------------------------------------------
(* Type correctness. *)

LEMMA StageSets ==
  /\ "new" \in Ended /\ "true" \in Ended /\ "false" \in Ended
  /\ "failed" \in Ended /\ "adrift" \in Ended
  /\ "ensure" \in Working /\ "create" \in Working /\ "existing" \in Working
  /\ "head" \in Working /\ "patch" \in Working
  /\ "before" \in Working /\ "look" \in Working /\ "after" \in Working
  BY DEF Ended, Working

LEMMA InitType == Init => TypeOK
<1> SUFFICES ASSUME Init PROVE TypeOK
  OBVIOUS
<1>1. <<>> \in Commit
  BY DEF Commit
<1>2. branch \in Commit /\ past \subseteq Commit /\ exists \in BOOLEAN
  BY <1>1 DEF Init
<1>3. rewrites \in 0..MaxRewrites /\ tries \in [Writer -> 0..Tries]
  BY LimitAssumption DEF Init
<1>4. stage \in [Writer -> Working \cup Ended] /\ seen \in [Writer -> Payload \cup {None}]
  BY StageSets DEF Init
<1>5. head \in [Writer -> Commit] /\ mine \in [Writer -> BOOLEAN]
  BY <1>1 DEF Init
<1> QED
  BY <1>2, <1>3, <1>4, <1>5 DEF TypeOK

(* A file says what the last commit that wrote it put there. *)
LEMMA LookupLast ==
  ASSUME NEW h \in Commit, NEW p, Recorded(h, p)
  PROVE  \E i \in 1..Len(h) : /\ h[i].path = p /\ h[i].payload = Lookup(h, p)
                              /\ \A j \in 1..Len(h) : j > i => h[j].path # p
<1> DEFINE T == {n \in Nat : \E i \in 1..Len(h) : i = Len(h) - n /\ h[i].path = p}
           last == CHOOSE i \in 1..Len(h) :
                     /\ h[i].path = p
                     /\ \A j \in 1..Len(h) : j > i => h[j].path # p
<1>1. Len(h) \in Nat
  BY DEF Commit
<1>2. PICK i \in 1..Len(h) : h[i].path = p
  BY DEF Recorded
<1>3. Len(h) - i \in T
  BY <1>1, <1>2
<1>4. PICK n \in T : \A m \in T : ~(<<m, n>> \in OpToRel(<, Nat))
  BY <1>3, WFMin, NatLessThanWellFounded
<1>5. n \in Nat /\ \A m \in T : m \in Nat /\ ~(m < n)
  BY <1>4 DEF OpToRel
<1>6. PICK k \in 1..Len(h) : k = Len(h) - n /\ h[k].path = p
  BY <1>4
<1>7. \A j \in 1..Len(h) : j > k => h[j].path # p
  <2> SUFFICES ASSUME NEW j \in 1..Len(h), j > k, h[j].path = p
               PROVE  FALSE
    OBVIOUS
  <2>1. Len(h) - j \in Nat /\ j = Len(h) - (Len(h) - j)
    BY <1>1
  <2>2. Len(h) - j \in T
    BY <2>1
  <2>3. Len(h) - j < n
    BY <1>1, <1>5, <1>6
  <2> QED
    BY <1>5, <2>2, <2>3
<1>8. /\ last \in 1..Len(h) /\ h[last].path = p
      /\ \A j \in 1..Len(h) : j > last => h[j].path # p
  BY <1>6, <1>7
<1>9. Lookup(h, p) = h[last].payload
  BY <1>2 DEF Lookup
<1> HIDE DEF last
<1> QED
  BY <1>8, <1>9

(* What a file says is a payload. *)
LEMMA LookupType ==
  ASSUME NEW h \in Commit, NEW p
  PROVE  Lookup(h, p) \in Payload \cup {None}
<1>1. CASE ~Recorded(h, p)
  BY <1>1 DEF Lookup, Recorded
<1>2. CASE Recorded(h, p)
  <2>1. PICK i \in 1..Len(h) : h[i].payload = Lookup(h, p)
    BY <1>2, LookupLast
  <2>2. h[i] \in Entry
    BY DEF Commit
  <2> QED
    BY <2>1, <2>2 DEF Entry
<1> QED
  BY <1>1, <1>2

LEMMA ReadableType ==
  ASSUME TypeOK, NEW p
  PROVE  Readable(p) \subseteq Payload \cup {None}
<1>1. branch \in Commit /\ \A h \in past : h \in Commit
  BY DEF TypeOK
<1>2. Lookup(branch, p) \in Payload \cup {None}
  BY <1>1, LookupType
<1>3. \A h \in past : Lookup(h, p) \in Payload \cup {None}
  BY <1>1, LookupType
<1> QED
  BY <1>2, <1>3 DEF Readable

LEMMA CommitType ==
  ASSUME TypeOK, NEW w \in Writer
  PROVE  CommitOf(w) \in Commit
<1>1. head[w] \in Seq(Entry)
  BY DEF TypeOK, Commit
<1> QED
  BY <1>1, Constants DEF CommitOf, Commit

(* The head of the branch moves to a commit. *)
LEMMA MoveType ==
  ASSUME TypeOK, NEW h \in Commit, MoveTo(h)
  PROVE  branch' \in Commit /\ past' \subseteq Commit
  BY DEF TypeOK, MoveTo

LEMMA StageType ==
  ASSUME TypeOK, NEW w \in Writer, NEW s \in Working \cup Ended, Go(w, s)
  PROVE  stage' \in [Writer -> Working \cup Ended]
  BY DEF TypeOK, Go

LEMMA AwaitType ==
  ASSUME TypeOK, NEW w \in Writer, NEW ok \in BOOLEAN, Await(w, ok)
  PROVE  /\ stage' \in [Writer -> Working \cup Ended]
         /\ head' \in [Writer -> Commit]
         /\ mine' \in [Writer -> BOOLEAN]
         /\ tries' \in [Writer -> 0..Tries]
         /\ seen' \in [Writer -> Payload \cup {None}]
<1>1. stage' \in [Writer -> Working \cup Ended]
  BY StageType, StageSets DEF Await
<1>2. Tries \in 0..Tries
  BY LimitAssumption
<1> QED
  BY <1>1, <1>2 DEF Await, TypeOK

LEMMA OutcomeType == \A w \in Writer : Outcome(w) \in Working \cup Ended
  BY StageSets DEF Outcome

LEMMA PutType ==
  ASSUME TypeOK, NEW w \in Writer, Put(w)
  PROVE  TypeOK'
<1>1. CASE Start(w)
  BY <1>1, StageType, StageSets DEF Start, TypeOK
<1>2. CASE EnsureBranch(w)
  <2>1. stage' \in [Writer -> Working \cup Ended]
    BY <1>2, StageType, StageSets DEF EnsureBranch
  <2> QED
    BY <1>2, <2>1 DEF EnsureBranch, TypeOK, repo
<1>3. CASE CreateBranch(w)
  <2>1. stage' \in [Writer -> Working \cup Ended]
    BY <1>3, StageType, StageSets DEF CreateBranch
  <2>2. CASE exists
    BY <1>3, <2>1, <2>2 DEF CreateBranch, TypeOK, repo
  <2>3. CASE ~exists
    <3>1. <<>> \in Commit
      BY DEF Commit
    <3>2. branch' \in Commit /\ past' \subseteq Commit
      BY <1>3, <2>3, <3>1, MoveType DEF CreateBranch
    <3> QED
      BY <1>3, <2>1, <2>3, <3>2 DEF CreateBranch, TypeOK
  <2> QED
    BY <2>2, <2>3
<1>4. CASE ReadExisting(w)
  <2>1. stage' \in [Writer -> Working \cup Ended]
    <3>1. Go(w, "head") \/ Go(w, "false") \/ Go(w, "failed")
      BY <1>4 DEF ReadExisting
    <3> QED
      BY <3>1, StageType, StageSets
  <2> QED
    BY <1>4, <2>1 DEF ReadExisting, TypeOK, repo
<1>5. CASE ReadHead(w)
  <2>1. stage' \in [Writer -> Working \cup Ended]
    BY <1>5, StageType, StageSets DEF ReadHead
  <2>2. head' \in [Writer -> Commit]
    BY <1>5 DEF ReadHead, TypeOK
  <2> QED
    BY <1>5, <2>1, <2>2 DEF ReadHead, TypeOK, repo
<1>6. CASE Patch(w)
  <2>1. branch' \in Commit /\ past' \subseteq Commit
    BY <1>6, MoveType, CommitType DEF Patch
  <2> QED
    BY <1>6, <2>1, AwaitType DEF Patch, TypeOK
<1>7. CASE PatchFails(w)
  <2>1. branch' \in Commit /\ past' \subseteq Commit /\ UNCHANGED <<exists, rewrites>>
    BY <1>7, MoveType, CommitType DEF PatchFails, repo, TypeOK
  <2>2. Await(w, FALSE)
    BY <1>7 DEF PatchFails
  <2> QED
    BY <2>1, <2>2, AwaitType DEF TypeOK
<1>8. CASE CheckBefore(w)
  <2>1. stage' \in [Writer -> Working \cup Ended]
    BY <1>8, StageType, StageSets DEF CheckBefore
  <2> QED
    BY <1>8, <2>1 DEF CheckBefore, TypeOK, repo
<1>9. CASE Look(w)
  <2>1. stage' \in [Writer -> Working \cup Ended]
    BY <1>9, StageType, StageSets DEF Look
  <2>2. seen' \in [Writer -> Payload \cup {None}]
    BY <1>9, ReadableType DEF Look, TypeOK
  <2> QED
    BY <1>9, <2>1, <2>2 DEF Look, TypeOK, repo
<1>10. CASE CheckAfter(w)
  <2>1. stage' \in [Writer -> Working \cup Ended]
    BY <1>10, StageType, OutcomeType DEF CheckAfter
  <2>2. (IF tries[w] > 1 THEN tries[w] - 1 ELSE 0) \in 0..Tries
    BY LimitAssumption DEF TypeOK
  <2>3. tries' \in [Writer -> 0..Tries]
    BY <1>10, <2>2 DEF CheckAfter, TypeOK
  <2> QED
    BY <1>10, <2>1, <2>3 DEF CheckAfter, TypeOK, repo
<1> QED
  BY <1>1, <1>2, <1>3, <1>4, <1>5, <1>6, <1>7, <1>8, <1>9, <1>10 DEF Put

LEMMA ForeignType ==
  ASSUME TypeOK, NEW p \in ForeignPath, ForeignRecord(p)
  PROVE  TypeOK'
<1> DEFINE e == [path |-> p, payload |-> Foreign, by |-> None]
<1>1. e \in Entry
  BY Constants DEF Entry, AnyPath
<1>2. Append(branch, e) \in Commit
  BY <1>1 DEF TypeOK, Commit
<1>3. branch' \in Commit /\ past' \subseteq Commit
  BY <1>2, MoveType DEF ForeignRecord
<1> QED
  BY <1>3 DEF ForeignRecord, TypeOK, job

LEMMA RewriteType ==
  ASSUME TypeOK, Rewrite
  PROVE  TypeOK'
<1>1. \A n \in 0..(Len(branch) - 1) : SubSeq(branch, 1, n) \in Commit
  <2> SUFFICES ASSUME NEW n \in 0..(Len(branch) - 1) PROVE SubSeq(branch, 1, n) \in Commit
    OBVIOUS
  <2>1. branch \in Seq(Entry) /\ n \in Nat /\ n <= Len(branch)
    BY DEF TypeOK, Commit
  <2> QED
    BY <2>1 DEF Commit
<1>2. <<>> \in Commit
  BY DEF Commit
<1>3. branch' \in Commit /\ past' \subseteq Commit
  BY <1>1, <1>2, MoveType DEF Rewrite
<1>4. rewrites' \in 0..MaxRewrites
  <2>1. rewrites \in 0..MaxRewrites /\ rewrites < MaxRewrites /\ rewrites' = rewrites + 1
    BY DEF Rewrite, TypeOK
  <2> QED
    BY <2>1, LimitAssumption
<1>5. exists' \in BOOLEAN
  BY DEF Rewrite, TypeOK
<1> QED
  BY <1>3, <1>4, <1>5 DEF Rewrite, TypeOK, job

LEMMA StepType ==
  ASSUME TypeOK, [Next]_vars
  PROVE  TypeOK'
<1>1. CASE \E w \in Writer : Put(w)
  BY <1>1, PutType
<1>2. ASSUME NEW w \in Writer, Fail(w) \/ Abandon(w)
      PROVE  TypeOK'
  <2>1. stage' \in [Writer -> Working \cup Ended]
    BY <1>2, StageType, StageSets DEF Fail, Abandon
  <2> QED
    BY <1>2, <2>1 DEF Fail, Abandon, TypeOK, repo
<1>3. ASSUME NEW w \in Writer, Arrive(w)
      PROVE  TypeOK'
  <2>1. stage' \in [Writer -> Working \cup Ended]
    BY <1>3, StageType, StageSets DEF Arrive
  <2>2. branch' \in Commit /\ past' \subseteq Commit
    BY <1>3, MoveType, CommitType DEF Arrive
  <2> QED
    BY <1>3, <2>1, <2>2 DEF Arrive, TypeOK
<1>4. CASE \E p \in ForeignPath : ForeignRecord(p)
  BY <1>4, ForeignType
<1>5. CASE Rewrite
  BY <1>5, RewriteType
<1>6. CASE UNCHANGED vars
  BY <1>6 DEF vars, repo, job, TypeOK
<1> QED
  BY <1>1, <1>2, <1>3, <1>4, <1>5, <1>6 DEF Next

(* Every variable of RecordBranch keeps its type, in particular the count  *)
(* of reads left to wait_for_record().                                     *)
THEOREM TypeCorrect == Spec => []TypeOK
  BY InitType, StepType, PTL DEF Spec

-----------------------------------------------------------------------------
(* The refinement.                                                         *)

(* Nobody rewrites the branch, and no write outlives its job. *)
Orderly == MaxRewrites = 0 /\ ~Overtake

(* Only one job is at work. *)
Serial ==
  /\ \A w \in Writer : stage[w] # "adrift"
  /\ \A u, w \in Writer : stage[u] \in Working /\ stage[w] \in Working => u = w

BranchOK == Unique(branch) /\ (~exists => branch = <<>>)

Early == {"ensure", "create", "existing"}

(* A job that has not looked yet cannot be misled by an old state of the   *)
(* branch: a path of its own that is empty there is empty now.             *)
PastOK ==
  \A h \in past :
    /\ Unique(h)
    /\ \A w \in Writer :
         stage[w] \in Early /\ ~Recorded(h, PathOf[w]) => ~Recorded(branch, PathOf[w])

(* A job that found no record is right until it writes, and the branch     *)
(* holds the head it observed.                                             *)
Clear ==
  \A w \in Writer :
    /\ stage[w] \in {"head", "patch"} => ~Recorded(branch, PathOf[w])
    /\ stage[w] = "patch" => exists /\ Extends(branch, head[w])

IInv == TypeOK /\ Serial /\ BranchOK /\ PastOK /\ Clear

LEMMA EmptyCommit == <<>> \in Commit /\ Unique(<<>>) /\ \A p : ~Recorded(<<>>, p)
  BY DEF Commit, Unique, Recorded

LEMMA InitInv == Init => IInv
<1> SUFFICES ASSUME Init PROVE IInv
  OBVIOUS
<1>1. TypeOK
  BY InitType
<1>2. \A w \in Writer : stage[w] = "new"
  BY DEF Init
<1>3. Serial /\ PastOK /\ Clear
  BY <1>2 DEF Init, Serial, PastOK, Clear, Working, Early
<1>4. BranchOK
  BY EmptyCommit DEF Init, BranchOK
<1> QED
  BY <1>1, <1>3, <1>4 DEF IInv

(* An orderly branch is not rewritten, and no writer is adrift. *)
LEMMA OrderlyNext ==
  ASSUME Orderly, IInv, [Next]_vars
  PROVE  \/ \E w \in Writer : Put(w) \/ Fail(w)
         \/ \E p \in ForeignPath : ForeignRecord(p)
         \/ UNCHANGED vars
<1>1. ~Rewrite
  <2>1. rewrites \in 0..0 /\ MaxRewrites = 0
    BY DEF IInv, TypeOK, Orderly
  <2> QED
    BY <2>1 DEF Rewrite
<1>2. \A w \in Writer : ~Abandon(w) /\ ~Arrive(w)
  BY DEF Abandon, Arrive, Orderly, IInv, Serial
<1> QED
  BY <1>1, <1>2 DEF Next

(* A working writer is the only one, before and after its step. *)
LEMMA SerialStep ==
  ASSUME TypeOK, Serial, NEW w \in Writer, NEW s \in (Working \cup Ended) \ {"adrift"},
         stage[w] \in Working, Go(w, s)
  PROVE  /\ Serial'
         /\ \A u \in Writer : u # w => stage[u] \notin Working /\ stage'[u] = stage[u]
         /\ stage'[w] = s
<1>1. stage'[w] = s /\ \A u \in Writer : u # w => stage'[u] = stage[u]
  BY DEF Go, TypeOK
<1>2. \A u \in Writer : u # w => stage[u] \notin Working
  BY DEF Serial
<1> QED
  BY <1>1, <1>2 DEF Serial

(* What a writer reads is no later than the branch: None means no record. *)
LEMMA ReadNone ==
  ASSUME IInv, NEW w \in Writer, stage[w] \in Early, None \in Readable(PathOf[w])
  PROVE  ~Recorded(branch, PathOf[w])
<1>1. branch \in Commit /\ \A h \in past : h \in Commit
  BY DEF IInv, TypeOK
<1>2. CASE exists /\ Lookup(branch, PathOf[w]) = None
  BY <1>1, <1>2, LookupNone DEF IInv, BranchOK
<1>3. CASE ~exists
  BY <1>3, EmptyCommit DEF IInv, BranchOK
<1>4. CASE \E h \in past : Lookup(h, PathOf[w]) = None
  <2>1. PICK h \in past : Lookup(h, PathOf[w]) = None
    BY <1>4
  <2>2. ~Recorded(h, PathOf[w])
    BY <2>1, <1>1, LookupNone DEF IInv, PastOK
  <2> QED
    BY <2>1, <2>2 DEF IInv, PastOK
<1> QED
  BY <1>2, <1>3, <1>4 DEF Readable

(* A step that leaves the repository alone and moves one writer on keeps   *)
(* everything but what that writer's new stage adds.                       *)
LEMMA QuietStep ==
  ASSUME IInv, TypeOK', NEW w \in Writer, NEW s \in (Working \cup Ended) \ {"adrift"},
         stage[w] \in Working, Go(w, s), UNCHANGED repo,
         s \in Early => stage[w] \in Early,
         s \in {"head", "patch"} => ~Recorded(branch, PathOf[w]),
         s = "patch" => exists /\ head'[w] = branch,
         \A u \in Writer : u # w => head'[u] = head[u]
  PROVE  IInv'
<1>1. /\ Serial'
      /\ \A u \in Writer : u # w => stage[u] \notin Working /\ stage'[u] = stage[u]
      /\ stage'[w] = s
  BY SerialStep DEF IInv
<1>2. exists' = exists /\ branch' = branch /\ past' = past
  BY DEF repo
<1>3. BranchOK'
  BY <1>2 DEF IInv, BranchOK, Unique
<1>4. PastOK'
  <2> SUFFICES ASSUME NEW h \in past
               PROVE  /\ Unique(h)
                      /\ \A u \in Writer : stage'[u] \in Early /\ ~Recorded(h, PathOf[u])
                           => ~Recorded(branch, PathOf[u])
    BY <1>2 DEF PastOK, Unique, Recorded
  <2>1. \A u \in Writer : stage'[u] \in Early => stage[u] \in Early
    BY <1>1
  <2> QED
    BY <2>1 DEF IInv, PastOK
<1>5. Extends(branch, branch)
  BY DEF Extends, IInv, TypeOK, Commit
<1>6. Clear'
  <2> SUFFICES ASSUME NEW u \in Writer
               PROVE  /\ stage'[u] \in {"head", "patch"} => ~Recorded(branch, PathOf[u])
                      /\ stage'[u] = "patch" => exists /\ Extends(branch, head'[u])
    BY <1>2 DEF Clear, Recorded, Extends
  <2>1. CASE u = w
    BY <2>1, <1>1, <1>5
  <2>2. CASE u # w
    BY <2>2, <1>1 DEF IInv, Clear
  <2> QED
    BY <2>1, <2>2
<1> QED
  BY <1>1, <1>3, <1>4, <1>6 DEF IInv

(* The write: it lands only on the head that was observed. *)
LEMMA Lands ==
  ASSUME Orderly, IInv, NEW w \in Writer, stage[w] = "patch", MayMove(w)
  PROVE  /\ branch = head[w]
         /\ CommitOf(w) = Append(branch, RecordOf(w))
         /\ ~Recorded(branch, RecordOf(w).path)
<1>1. branch \in Commit /\ head[w] \in Commit /\ RecordOf(w) \in Entry
  BY Constants DEF IInv, TypeOK
<1>2. Extends(branch, head[w]) /\ ~Recorded(branch, PathOf[w])
  BY DEF IInv, Clear
<1>3. branch = head[w] \/ branch = Append(head[w], RecordOf(w))
  BY <1>1, <1>2, ForwardOnly DEF MayMove, CommitOf
<1>4. branch # Append(head[w], RecordOf(w))
  <2>1. Append(head[w], RecordOf(w))[Len(head[w]) + 1] = RecordOf(w)
    BY <1>1 DEF Commit
  <2>2. Len(head[w]) + 1 \in 1..Len(Append(head[w], RecordOf(w)))
    BY <1>1 DEF Commit
  <2>3. RecordOf(w).path = PathOf[w]
    BY DEF RecordOf
  <2> QED
    BY <1>2, <2>1, <2>2, <2>3 DEF Recorded
<1> QED
  BY <1>2, <1>3, <1>4 DEF CommitOf, RecordOf

(* One record more on the branch: what becomes of the invariant, and of    *)
(* what readers find.                                                      *)
LEMMA GrowStep ==
  ASSUME IInv, exists, exists' = TRUE, NEW e \in Entry, ~Recorded(branch, e.path),
         MoveTo(Append(branch, e))
  PROVE  /\ BranchOK'
         /\ \A h \in past' : Unique(h)
         /\ Records[e.path] = None
         /\ Records' = [Records EXCEPT ![e.path] = e.payload]
         /\ \A p : p # e.path /\ ~Recorded(branch, p) => ~Recorded(branch', p)
<1> DEFINE g == Append(branch, e)
<1>1. branch \in Commit /\ Unique(branch) /\ branch' = g /\ past' = past \cup {branch}
  BY DEF IInv, TypeOK, BranchOK, MoveTo
<1>2. /\ g \in Commit /\ Unique(g) /\ Lookup(g, e.path) = e.payload
      /\ \A p : p # e.path => Lookup(g, p) = Lookup(branch, p)
  BY <1>1, LookupAppend
<1> HIDE DEF g
<1>3. BranchOK'
  BY <1>1, <1>2 DEF BranchOK, Unique
<1>4. \A h \in past' : Unique(h)
  BY <1>1 DEF IInv, PastOK
<1>5. Records[e.path] = None
  <2>1. e.path \in AnyPath
    BY DEF Entry
  <2>2. Lookup(branch, e.path) = None
    BY <1>1, LookupNone
  <2> QED
    BY <2>1, <2>2 DEF Records
<1>6. Records' = [Records EXCEPT ![e.path] = e.payload]
  <2>1. Records = [p \in AnyPath |-> Lookup(branch, p)]
    BY DEF Records
  <2>2. Records' = [p \in AnyPath |-> Lookup(g, p)]
    BY <1>1 DEF Records, Lookup
  <2>3. \A p \in AnyPath : Lookup(g, p) = IF p = e.path THEN e.payload ELSE Lookup(branch, p)
    BY <1>2
  <2> QED
    BY <2>1, <2>2, <2>3
<1>7. ASSUME NEW p, p # e.path, ~Recorded(branch, p)
      PROVE  ~Recorded(g, p)
  <2>1. Lookup(branch, p) = None
    BY <1>1, <1>7, LookupNone
  <2>2. Lookup(g, p) = None
    BY <1>2, <1>7, <2>1
  <2> QED
    BY <1>2, <2>2, LookupNone
<1>8. \A p : Recorded(branch', p) <=> Recorded(g, p)
  BY <1>1 DEF Recorded
<1> QED
  BY <1>3, <1>4, <1>5, <1>6, <1>7, <1>8

(* No other job cares for what a job at work, or a foreign one, writes. *)
LEMMA WriteInv ==
  ASSUME IInv, TypeOK', exists, exists' = TRUE, NEW e \in Entry,
         ~Recorded(branch, e.path), MoveTo(Append(branch, e)), Serial',
         \A u \in Writer :
           /\ stage'[u] \in Early => stage[u] \in Early /\ PathOf[u] # e.path
           /\ stage'[u] \in {"head", "patch"} => stage'[u] = stage[u] /\ PathOf[u] # e.path,
         UNCHANGED head
  PROVE  IInv'
<1>1. /\ BranchOK'
      /\ \A h \in past' : Unique(h)
      /\ \A p : p # e.path /\ ~Recorded(branch, p) => ~Recorded(branch', p)
  BY GrowStep
<1>2. past' = past \cup {branch} /\ branch' = Append(branch, e) /\ branch \in Commit
  BY DEF MoveTo, IInv, TypeOK
<1>3. PastOK'
  <2> SUFFICES ASSUME NEW h \in past \cup {branch}, NEW u \in Writer,
                      stage'[u] \in Early, ~Recorded(h, PathOf[u])
               PROVE  ~Recorded(branch', PathOf[u])
    BY <1>1, <1>2 DEF PastOK, Unique, Recorded
  <2>1. ~Recorded(branch, PathOf[u])
    BY DEF IInv, PastOK
  <2> QED
    BY <1>1, <2>1
<1>4. \A h : Extends(branch, h) => Extends(branch', h)
  BY <1>2 DEF Extends, Commit
<1>5. Clear'
  <2> SUFFICES ASSUME NEW u \in Writer
               PROVE  /\ stage'[u] \in {"head", "patch"} => ~Recorded(branch', PathOf[u])
                      /\ stage'[u] = "patch" => exists' /\ Extends(branch', head'[u])
    BY DEF Clear, Recorded, Extends
  <2>1. stage'[u] \in {"head", "patch"} => ~Recorded(branch', PathOf[u])
    BY <1>1 DEF IInv, Clear
  <2>2. stage'[u] = "patch" => Extends(branch', head'[u])
    BY <1>4 DEF IInv, Clear
  <2> QED
    BY <2>1, <2>2
<1> QED
  BY <1>1, <1>3, <1>5 DEF IInv

LEMMA WriteStep ==
  ASSUME Orderly, IInv, TypeOK', NEW w \in Writer, stage[w] = "patch", MayMove(w),
         MoveTo(CommitOf(w)), Go(w, "before"), UNCHANGED <<exists, head>>
  PROVE  /\ IInv'
         /\ Records[PathOf[w]] = None
         /\ Records' = [Records EXCEPT ![PathOf[w]] = PayloadOf[w]]
<1> DEFINE e == RecordOf(w)
<1>1. e \in Entry /\ e.path = PathOf[w] /\ e.payload = PayloadOf[w]
  BY Constants DEF RecordOf
<1>2. exists /\ exists' = TRUE /\ ~Recorded(branch, e.path) /\ MoveTo(Append(branch, e))
  BY Lands DEF MayMove, IInv, TypeOK
<1>3. /\ Serial'
      /\ \A u \in Writer : u # w => stage[u] \notin Working /\ stage'[u] = stage[u]
      /\ stage'[w] = "before"
  BY SerialStep, StageSets DEF IInv
<1>4. \A u \in Writer : stage'[u] \notin Early \cup {"head", "patch"}
  BY <1>3 DEF Early, Working
<1> HIDE DEF e
<1>5. IInv'
  BY <1>1, <1>2, <1>3, <1>4, WriteInv
<1> QED
  BY <1>1, <1>2, <1>5, GrowStep

(* Every step keeps the invariant and is a step of the map, or changes no  *)
(* record.                                                                 *)
LEMMA PutStep ==
  ASSUME Orderly, IInv, NEW w \in Writer, Put(w) \/ Fail(w)
  PROVE  IInv' /\ (Map!Next \/ UNCHANGED Records)
<1>0. TypeOK'
  BY PutType, StepType DEF IInv, Next
<1>1. UNCHANGED repo => UNCHANGED Records
  BY DEF repo, Records, Lookup
<1>2. CASE Start(w)
  <2>1. \A u \in Writer : stage[u] \notin Working
    BY <1>2 DEF Start, Ended, Working
  <2>2. stage'[w] = "ensure" /\ \A u \in Writer : u # w => stage'[u] = stage[u]
    BY <1>2 DEF Start, Go, IInv, TypeOK
  <2>3. exists' = exists /\ branch' = branch /\ past' = {}
    BY <1>2 DEF Start
  <2>4. Serial'
    BY <2>1, <2>2 DEF Serial, IInv
  <2>5. BranchOK' /\ PastOK'
    BY <2>3 DEF IInv, BranchOK, PastOK, Unique
  <2>6. Clear'
    BY <2>1, <2>2, StageSets DEF Clear
  <2>7. UNCHANGED Records
    BY <2>3 DEF Records, Lookup
  <2> QED
    BY <1>0, <2>4, <2>5, <2>6, <2>7 DEF IInv
<1>3. CASE EnsureBranch(w)
  <2>1. stage[w] \in Early /\ stage[w] \in Working /\ UNCHANGED repo /\ UNCHANGED head
    BY <1>3, StageSets DEF EnsureBranch, Early
  <2>2. Go(w, "existing") \/ Go(w, "create")
    BY <1>3 DEF EnsureBranch
  <2>3. IInv'
    BY <1>0, <2>1, <2>2, QuietStep, StageSets
  <2> QED
    BY <1>1, <2>1, <2>3
<1>4. CASE CreateBranch(w)
  <2>1. stage[w] = "create" /\ stage[w] \in Working /\ stage[w] \in Early /\ UNCHANGED head
    BY <1>4, StageSets DEF CreateBranch, Early
  <2>2. CASE exists
    <3>1. Go(w, "failed") /\ UNCHANGED repo
      BY <1>4, <2>2 DEF CreateBranch
    <3>2. IInv'
      BY <1>0, <2>1, <3>1, QuietStep, StageSets DEF Early
    <3> QED
      BY <1>1, <3>1, <3>2
  <2>3. CASE ~exists
    <3>1. exists' = TRUE /\ branch = <<>> /\ branch' = <<>> /\ past' = past \cup {<<>>}
      BY <1>4, <2>3 DEF CreateBranch, MoveTo, IInv, BranchOK
    <3>2. Go(w, "existing")
      BY <1>4, <2>3 DEF CreateBranch
    <3>3. /\ Serial'
          /\ \A u \in Writer : u # w => stage[u] \notin Working /\ stage'[u] = stage[u]
          /\ stage'[w] = "existing"
      BY <2>1, <3>2, SerialStep, StageSets DEF IInv
    <3>4. BranchOK'
      BY <3>1, EmptyCommit DEF BranchOK
    <3>5. \A h \in past' : Unique(h)
      BY <3>1, EmptyCommit DEF IInv, PastOK
    <3>6. \A p : ~Recorded(branch', p)
      BY <3>1, EmptyCommit
    <3>7. PastOK' /\ Clear'
      BY <3>3, <3>5, <3>6, StageSets DEF PastOK, Clear, Unique
    <3>8. UNCHANGED Records
      <4>1. \A p : Lookup(<<>>, p) = None
        BY EmptyCommit DEF Lookup, Recorded
      <4>2. Records = [p \in AnyPath |-> None]
        BY <2>3 DEF Records
      <4>3. Records' = [p \in AnyPath |-> Lookup(<<>>, p)]
        BY <3>1 DEF Records, Lookup
      <4> QED
        BY <4>1, <4>2, <4>3
    <3> QED
      BY <1>0, <3>3, <3>4, <3>7, <3>8 DEF IInv
  <2> QED
    BY <2>2, <2>3
<1>5. CASE ReadExisting(w)
  <2>1. stage[w] \in Early /\ stage[w] \in Working /\ UNCHANGED repo /\ UNCHANGED head
    BY <1>5, StageSets DEF ReadExisting, Early
  <2>2. PICK value \in Readable(PathOf[w]) :
          \/ value = None /\ Go(w, "head")
          \/ value # None /\ (Go(w, "false") \/ Go(w, "failed"))
    BY <1>5, Constants DEF ReadExisting
  <2>3. CASE value = None
    <3>1. Go(w, "head") /\ ~Recorded(branch, PathOf[w])
      BY <2>1, <2>2, <2>3, ReadNone
    <3>2. IInv'
      BY <1>0, <2>1, <3>1, QuietStep, StageSets
    <3> QED
      BY <1>1, <2>1, <3>2
  <2>4. CASE value # None
    <3>1. Go(w, "false") \/ Go(w, "failed")
      BY <2>2, <2>4
    <3>2. IInv'
      BY <1>0, <2>1, <3>1, QuietStep, StageSets DEF Early
    <3> QED
      BY <1>1, <2>1, <3>2
  <2> QED
    BY <2>3, <2>4
<1>6. CASE ReadHead(w)
  <2>1. stage[w] = "head" /\ stage[w] \in Working /\ UNCHANGED repo
    BY <1>6, StageSets DEF ReadHead
  <2>2. ~Recorded(branch, PathOf[w])
    BY <2>1 DEF IInv, Clear
  <2>3. CASE exists
    <3>1. Go(w, "patch") /\ head'[w] = branch /\ \A u \in Writer : u # w => head'[u] = head[u]
      BY <1>6, <2>3 DEF ReadHead, IInv, TypeOK
    <3>2. IInv'
      BY <1>0, <2>1, <2>2, <2>3, <3>1, QuietStep, StageSets DEF Early
    <3> QED
      BY <1>1, <2>1, <3>2
  <2>4. CASE ~exists
    <3>1. Go(w, "failed") /\ UNCHANGED head
      BY <1>6, <2>4 DEF ReadHead
    <3>2. IInv'
      BY <1>0, <2>1, <3>1, QuietStep, StageSets DEF Early
    <3> QED
      BY <1>1, <2>1, <3>2
  <2> QED
    BY <2>3, <2>4
<1>7. CASE (Patch(w) \/ PatchFails(w)) /\ ~UNCHANGED repo
  <2>1. /\ stage[w] = "patch" /\ MayMove(w) /\ MoveTo(CommitOf(w)) /\ Go(w, "before")
        /\ UNCHANGED <<exists, head>>
    BY <1>7 DEF Patch, PatchFails, Await
  <2>2. /\ IInv'
        /\ Records[PathOf[w]] = None
        /\ Records' = [Records EXCEPT ![PathOf[w]] = PayloadOf[w]]
    BY <1>0, <2>1, WriteStep
  <2>3. Map!Next
    BY <2>2, Constants DEF Map!Next, Map!Add
  <2> QED
    BY <2>2, <2>3
<1>8. CASE (Patch(w) \/ PatchFails(w)) /\ UNCHANGED repo
  <2>1. stage[w] = "patch" /\ stage[w] \in Working /\ Go(w, "before") /\ UNCHANGED head
    BY <1>8, StageSets DEF Patch, PatchFails, Await
  <2>2. IInv'
    BY <1>0, <1>8, <2>1, QuietStep, StageSets DEF Early
  <2> QED
    BY <1>1, <1>8, <2>2
<1>9. CASE CheckBefore(w) \/ Look(w) \/ CheckAfter(w) \/ Fail(w)
  <2>1. stage[w] \in Working /\ UNCHANGED repo /\ UNCHANGED head
    BY <1>9, StageSets DEF CheckBefore, Look, CheckAfter, Fail
  <2>2. PICK s \in {"before", "look", "after", "true", "false", "failed"} : Go(w, s)
    BY <1>9 DEF CheckBefore, Look, CheckAfter, Fail, Outcome
  <2>3. s \in (Working \cup Ended) \ {"adrift"} /\ s \notin Early \cup {"head", "patch"}
    BY StageSets DEF Early
  <2>4. IInv'
    BY <1>0, <2>1, <2>2, <2>3, QuietStep
  <2> QED
    BY <1>1, <2>1, <2>4
<1> QED
  BY <1>2, <1>3, <1>4, <1>5, <1>6, <1>7, <1>8, <1>9 DEF Put

LEMMA ForeignStep ==
  ASSUME IInv, NEW p \in ForeignPath, ForeignRecord(p)
  PROVE  IInv' /\ Map!Next
<1> DEFINE e == [path |-> p, payload |-> Foreign, by |-> None]
<1>1. e \in Entry /\ e.path = p /\ e.payload = Foreign /\ p \in AnyPath
  BY Constants DEF Entry, AnyPath
<1>2. TypeOK'
  BY ForeignType DEF IInv
<1>3. exists /\ exists' = TRUE /\ MoveTo(Append(branch, e)) /\ UNCHANGED <<stage, head>>
  BY DEF ForeignRecord, job, IInv, TypeOK
<1>4. ~Recorded(branch, p)
  BY LookupNone DEF ForeignRecord, IInv, TypeOK, BranchOK
<1>5. Serial'
  BY <1>3 DEF IInv, Serial
<1> HIDE DEF e
<1>6. \A u \in Writer : PathOf[u] # e.path
  BY <1>1, Constants
<1>7. IInv'
  BY <1>1, <1>2, <1>3, <1>4, <1>5, <1>6, WriteInv
<1>8. Records[e.path] = None /\ Records' = [Records EXCEPT ![e.path] = e.payload]
  BY <1>1, <1>3, <1>4, GrowStep
<1> QED
  BY <1>1, <1>7, <1>8, Constants DEF Map!Next, Map!Add

LEMMA InitMap == Init => Map!Init
  BY DEF Init, Map!Init, Records

(* put_record() neither changes nor removes a record, its own, another     *)
(* job's or a foreign one, as long as nobody rewrites the branch and no    *)
(* write outlives its job.                                                 *)
THEOREM WriteOnceCorrect == Orderly => (Spec => WriteOnce)
<1> SUFFICES ASSUME Orderly PROVE Spec => WriteOnce
  OBVIOUS
<1>1. Init => IInv /\ Map!Init
  BY InitInv, InitMap
<1>2. IInv /\ [Next]_vars => IInv' /\ [Map!Next]_Records
  <2> SUFFICES ASSUME IInv, [Next]_vars PROVE IInv' /\ [Map!Next]_Records
    OBVIOUS
  <2>1. CASE \E w \in Writer : Put(w) \/ Fail(w)
    BY <2>1, PutStep
  <2>2. CASE \E p \in ForeignPath : ForeignRecord(p)
    BY <2>2, ForeignStep
  <2>3. CASE UNCHANGED vars
    <3>1. TypeOK'
      BY <2>3, StepType DEF IInv
    <3>2. exists' = exists /\ branch' = branch /\ past' = past /\ stage' = stage /\ head' = head
      BY <2>3 DEF vars, repo, job
    <3>3. Serial' /\ BranchOK' /\ PastOK' /\ Clear'
      BY <3>2 DEF IInv, Serial, BranchOK, PastOK, Clear, Unique, Recorded, Extends
    <3>4. UNCHANGED Records
      BY <3>2 DEF Records, Lookup
    <3> QED
      BY <3>1, <3>3, <3>4 DEF IInv
  <2> QED
    BY <2>1, <2>2, <2>3, OrderlyNext
<1> QED
  BY <1>1, <1>2, PTL DEF Spec, WriteOnce, Map!Spec

-----------------------------------------------------------------------------
(* What put_record() returns, when writes outlive their jobs and the       *)
(* branch is rewritten.                                                    *)

Before == {"new", "ensure", "create", "existing", "head", "patch", "adrift"}
Waiting == {"before", "look", "after"}
Answered == {"true", "false"}

(* The commit h has w's own among its ancestors. *)
By(h, w) == \E i \in 1..Len(h) : h[i].by = w

(* No job committed at w's path after w did. *)
Newest(w) ==
  \A i, j \in 1..Len(branch) :
    i < j /\ branch[i].by = w => branch[j].path # PathOf[w]

(* One job is at work; a commit is on the branch only after its PATCH, and *)
(* nobody has it for an ancestor while its job is at work.                 *)
Alone == \A u, w \in Writer : stage[u] \in Working /\ stage[w] \in Working => u = w
NoBranch == ~exists => branch = <<>>
NotYet == \A w \in Writer : stage[w] \in Before => ~By(branch, w)
Apart ==
  \A u, w \in Writer : stage[w] \in Before \cup Working => ~By(head[u], w)
Waits == \A w \in Writer : stage[w] \in Waiting => Newest(w)

CInv == TypeOK /\ Alone /\ NoBranch /\ NotYet /\ Apart /\ Waits

(* While nobody rewrites the branch it holds every head anybody saw, and   *)
(* what it holds at a job's path is that job's, once.                      *)
Grows ==
  /\ \A h \in past : Extends(branch, h)
  /\ \A u \in Writer : Extends(branch, head[u])
Authors ==
  \A i \in 1..Len(branch) :
    LET u == branch[i].by
    IN  \/ u = None /\ branch[i].path \in ForeignPath
        \/ u \in Writer /\ branch[i] = RecordOf(u) /\ i = Len(head[u]) + 1

(* An answer closes its path: a later job finds a record there, and a late *)
(* write of the same path is one that did not see the answered job's own.  *)
Closed ==
  \A w \in Writer : stage[w] \in Answered =>
    /\ Recorded(branch, PathOf[w])
    /\ Newest(w)
    /\ \A u \in Writer : PathOf[u] = PathOf[w] =>
         /\ stage[u] \notin {"head", "patch"}
         /\ stage[u] \in Early => \A h \in past : Recorded(h, PathOf[w])
         /\ stage[u] = "adrift" => ~By(head[u], w)
Moved ==
  \A w \in Writer : mine[w] /\ stage[w] \in Waiting \cup {"true"} => By(branch, w)

(* A job at work sees all that the jobs that answered before it committed. *)
Since ==
  \A u, w \in Writer :
    stage[w] \in Working /\ stage[u] \in Answered /\ By(branch, u)
      => \A h \in past : By(h, u)

(* The branch holds the record v at w's path, and whatever was committed   *)
(* there since is the late write of a cancelled job, or w's own.           *)
Held(w, v) ==
  \E i \in 1..Len(branch) :
    /\ branch[i].path = PathOf[w] /\ branch[i].payload = v
    /\ \A j \in 1..Len(branch) :
         i < j /\ branch[j].path = PathOf[w] /\ branch[j].by # w
           => stage[branch[j].by] = "failed"
Seen ==
  \A w \in Writer :
    /\ \A v \in Payload : stage[w] = "after" /\ seen[w] = v => Held(w, v)
    /\ stage[w] = "false" => Held(w, PayloadOf[w])
    /\ stage[w] = "true" => mine[w]

Kept == Grows /\ Authors /\ Closed /\ Moved /\ Since /\ Seen
RInv == rewrites = 0 => Kept

-----------------------------------------------------------------------------
(* Commits one record longer, and longer commits. *)
LEMMA OneMore ==
  ASSUME NEW h \in Commit, NEW e \in Entry
  PROVE  /\ Append(h, e) \in Commit /\ Len(h) \in Nat
         /\ Len(Append(h, e)) = Len(h) + 1 /\ Append(h, e)[Len(h) + 1] = e
         /\ \A i \in 1..Len(h) : Append(h, e)[i] = h[i] /\ i \in 1..Len(Append(h, e))
         /\ Len(h) + 1 \in 1..Len(Append(h, e))
         /\ \A i \in 1..Len(Append(h, e)) : i \in 1..Len(h) \/ i = Len(h) + 1
  BY DEF Commit

LEMMA ByOneMore ==
  ASSUME NEW h \in Commit, NEW e \in Entry
  PROVE  /\ \A x : By(Append(h, e), x) <=> By(h, x) \/ x = e.by
         /\ \A p : Recorded(Append(h, e), p) <=> Recorded(h, p) \/ p = e.path
         /\ Extends(Append(h, e), h)
<1> DEFINE g == Append(h, e)
<1>1. /\ g \in Commit /\ Len(g) = Len(h) + 1 /\ g[Len(h) + 1] = e /\ Len(h) \in Nat
      /\ \A i \in 1..Len(h) : g[i] = h[i] /\ i \in 1..Len(g)
      /\ Len(h) + 1 \in 1..Len(g)
      /\ \A i \in 1..Len(g) : i \in 1..Len(h) \/ i = Len(h) + 1
  BY OneMore
<1> HIDE DEF g
<1>2. \A x : By(g, x) <=> By(h, x) \/ x = e.by
  BY <1>1 DEF By
<1>3. \A p : Recorded(g, p) <=> Recorded(h, p) \/ p = e.path
  BY <1>1 DEF Recorded
<1>4. Extends(g, h)
  BY <1>1 DEF Extends
<1> QED
  BY <1>2, <1>3, <1>4 DEF g

LEMMA ExtendsKeeps ==
  ASSUME NEW g \in Commit, NEW h \in Commit, Extends(g, h)
  PROVE  /\ \A x : By(h, x) => By(g, x)
         /\ \A p : Recorded(h, p) => Recorded(g, p)
<1>1. \A i \in 1..Len(h) : i \in 1..Len(g) /\ g[i] = h[i]
  BY DEF Extends, Commit
<1> QED
  BY <1>1 DEF By, Recorded

LEMMA ExtendsTransitive ==
  ASSUME NEW f \in Commit, NEW g \in Commit, NEW h \in Commit, Extends(f, g), Extends(g, h)
  PROVE  Extends(f, h)
  BY DEF Extends, Commit

LEMMA ExtendsSelf ==
  ASSUME NEW h \in Commit
  PROVE  Extends(h, h) /\ Extends(h, <<>>)
  BY DEF Extends, Commit

(* So the last one is what it says. *)
LEMMA LookupIs ==
  ASSUME NEW h \in Commit, NEW i \in 1..Len(h),
         \A j \in 1..Len(h) : j > i => h[j].path # h[i].path
  PROVE  Lookup(h, h[i].path) = h[i].payload
<1> DEFINE p == h[i].path
<1>1. Recorded(h, p)
  BY DEF Recorded
<1>2. PICK k \in 1..Len(h) : /\ h[k].path = p /\ h[k].payload = Lookup(h, p)
                             /\ \A j \in 1..Len(h) : j > k => h[j].path # p
  BY <1>1, LookupLast
<1>3. k = i
  BY <1>2 DEF Commit
<1> QED
  BY <1>2, <1>3

LEMMA LookupSome ==
  ASSUME NEW h \in Commit, NEW p
  PROVE  Lookup(h, p) = None <=> ~Recorded(h, p)
<1>1. CASE Recorded(h, p)
  <2>1. PICK i \in 1..Len(h) : h[i].payload = Lookup(h, p)
    BY <1>1, LookupLast
  <2>2. h[i] \in Entry
    BY DEF Commit
  <2> QED
    BY <1>1, <2>1, <2>2, Constants DEF Entry
<1>2. CASE ~Recorded(h, p)
  BY <1>2 DEF Lookup, Recorded
<1> QED
  BY <1>1, <1>2

-----------------------------------------------------------------------------
(* CInv, step by step. *)

LEMMA StageNames ==
  /\ Before \subseteq Working \cup Ended /\ Waiting \subseteq Working
  /\ Answered \subseteq Ended /\ Early \subseteq Before
  /\ Before \cap Waiting = {} /\ Before \cap Answered = {} /\ Waiting \cap Answered = {}
  /\ Working \cap Ended = {} /\ Working \subseteq Before \cup Waiting
  /\ "failed" \notin Before \cup Waiting \cup Answered \cup Working
  /\ "patch" \in Before /\ "adrift" \in Before \ Working /\ "new" \in Before \ Working
  /\ "before" \in Waiting
  BY DEF Before, Waiting, Answered, Early, Working, Ended

LEMMA InitC == Init => CInv
<1> SUFFICES ASSUME Init PROVE CInv
  OBVIOUS
<1>1. TypeOK
  BY InitType
<1>2. /\ branch = <<>> /\ \A u \in Writer : head[u] = <<>> /\ stage[u] = "new"
  BY DEF Init
<1>3. \A w : ~By(<<>>, w)
  BY DEF By
<1>4. NoBranch /\ NotYet /\ Apart
  BY <1>2, <1>3 DEF NoBranch, NotYet, Apart
<1>5. Alone /\ Waits
  BY <1>2, StageNames DEF Alone, Waits
<1> QED
  BY <1>1, <1>4, <1>5 DEF CInv

(* A step of one job that leaves the branch alone. *)
LEMMA QuietC ==
  ASSUME CInv, TypeOK', NEW w \in Writer, NEW s \in Working \cup Ended, Go(w, s),
         UNCHANGED <<exists, branch>>,
         \A u \in Writer : u # w => head'[u] = head[u],
         head'[w] = head[w] \/ (head'[w] = branch /\ stage[w] = "head" /\ s = "patch"),
         s \in Working => stage[w] \in Working \/ \A u \in Writer : stage[u] \notin Working,
         s \in Before => stage[w] \in Before,
         s \in Waiting => stage[w] \in Waiting \/ ~By(branch, w),
         s \in Working => stage[w] \in Before \cup Working
  PROVE  CInv'
<1>1. stage'[w] = s /\ \A u \in Writer : u # w => stage'[u] = stage[u]
  BY DEF Go, CInv, TypeOK
<1>2. exists' = exists /\ branch' = branch
  OBVIOUS
<1>3. Alone'
  BY <1>1 DEF CInv, Alone
<1>4. NoBranch'
  BY <1>2 DEF CInv, NoBranch
<1>5. NotYet'
  <2> SUFFICES ASSUME NEW x \in Writer, stage'[x] \in Before PROVE ~By(branch, x)
    BY <1>2 DEF NotYet, By
  <2> QED
    BY <1>1 DEF CInv, NotYet
<1>6. Apart'
  <2> SUFFICES ASSUME NEW u \in Writer, NEW x \in Writer, stage'[x] \in Before \cup Working
               PROVE  ~By(head'[u], x)
    BY DEF Apart, By
  <2>1. stage[x] \in Before \cup Working
    BY <1>1
  <2>2. CASE head'[u] = head[u]
    BY <2>1, <2>2 DEF CInv, Apart
  <2>3. CASE u = w /\ head'[w] = branch /\ stage[w] = "head" /\ s = "patch"
    <3>1. stage'[x] \in Before
      <4>1. CASE x = w
        BY <4>1, <2>3, <1>1, StageNames
      <4>2. CASE x # w
        <5>1. stage[w] \in Working
          BY <2>3, StageSets
        <5>2. stage[x] \notin Working
          BY <5>1, <4>2 DEF CInv, Alone
        <5> QED
          BY <5>2, <2>1, <4>2, <1>1
      <4> QED
        BY <4>1, <4>2
    <3> QED
      BY <3>1, <2>3, <1>2, <1>5 DEF NotYet, By
  <2> QED
    BY <2>2, <2>3
<1>7. Waits'
  <2> SUFFICES ASSUME NEW x \in Writer, stage'[x] \in Waiting PROVE Newest(x)
    BY <1>2 DEF Waits, Newest
  <2>1. CASE stage[x] \in Waiting
    BY <2>1 DEF CInv, Waits
  <2>2. CASE ~By(branch, x)
    BY <2>2 DEF By, Newest
  <2> QED
    BY <2>1, <2>2, <1>1
<1> QED
  BY <1>3, <1>4, <1>5, <1>6, <1>7 DEF CInv

(* A write that lands, in time or late. *)
LEMMA LandC ==
  ASSUME CInv, TypeOK', NEW w \in Writer, MayMove(w), MoveTo(CommitOf(w)),
         UNCHANGED <<exists, head>>,
         \/ stage[w] = "patch" /\ Go(w, "before")
         \/ stage[w] = "adrift" /\ Go(w, "failed")
  PROVE  CInv'
<1>1. /\ stage'[w] \in {"before", "failed"} /\ stage[w] \in Before
      /\ stage'[w] = "before" => stage[w] \in Working
      /\ \A u \in Writer : u # w => stage'[u] = stage[u]
  BY StageNames, StageSets DEF Go, CInv, TypeOK
<1>2. head[w] \in Commit /\ RecordOf(w) \in Entry /\ RecordOf(w).by = w /\ head' = head
  BY Constants DEF CInv, TypeOK, RecordOf
<1>3. branch' = Append(head[w], RecordOf(w)) /\ exists' = exists /\ exists
  BY DEF MoveTo, CommitOf, MayMove
<1>4. \A x : By(branch', x) <=> By(head[w], x) \/ x = w
  <2>1. \A x : By(Append(head[w], RecordOf(w)), x) <=> By(head[w], x) \/ x = w
    BY <1>2, ByOneMore
  <2> QED
    BY <2>1, <1>3 DEF By
<1>5. stage'[w] \notin Before /\ (stage'[w] \in Working => stage[w] \in Working)
  BY <1>1, StageNames
<1>6. Alone'
  BY <1>1, <1>5 DEF CInv, Alone
<1>7. NoBranch'
  BY <1>3 DEF NoBranch
<1>8. \A x \in Writer : stage[x] \in Before \cup Working => ~By(head[w], x)
  BY DEF CInv, Apart
<1>9. NotYet'
  <2> SUFFICES ASSUME NEW x \in Writer, stage'[x] \in Before PROVE ~By(branch', x)
    BY DEF NotYet, By
  <2>1. x # w /\ stage[x] \in Before
    BY <1>1, <1>5
  <2> QED
    BY <2>1, <1>4, <1>8
<1>10. Apart'
  <2> SUFFICES ASSUME NEW u \in Writer, NEW x \in Writer, stage'[x] \in Before \cup Working
               PROVE  ~By(head[u], x)
    BY <1>2 DEF Apart, By
  <2>1. stage[x] \in Before \cup Working
    BY <1>1, <1>5
  <2> QED
    BY <2>1 DEF CInv, Apart
<1>11. Waits'
  <2> SUFFICES ASSUME NEW x \in Writer, stage'[x] \in Waiting,
                      NEW i \in 1..Len(branch'), NEW j \in 1..Len(branch'),
                      i < j, branch'[i].by = x
               PROVE  FALSE
    BY DEF Waits, Newest
  <2>1. i \in 1..Len(head[w]) /\ branch'[i] = head[w][i]
    <3>1. i \in 1..Len(head[w]) \/ i = Len(head[w]) + 1
      BY <1>2, <1>3, OneMore
    <3>2. i # Len(head[w]) + 1
      BY <1>2, <1>3, OneMore
    <3> QED
      BY <3>1, <3>2, <1>2, <1>3, OneMore
  <2>2. By(head[w], x)
    BY <2>1 DEF By
  <2>3. stage[x] \in Before \cup Working
    BY <1>1, <1>5, StageNames
  <2> QED
    BY <2>2, <2>3, <1>8
<1> QED
  BY <1>6, <1>7, <1>9, <1>10, <1>11 DEF CInv

LEMMA ForeignC ==
  ASSUME CInv, TypeOK', NEW p \in ForeignPath, ForeignRecord(p)
  PROVE  CInv'
<1> DEFINE e == [path |-> p, payload |-> Foreign, by |-> None]
<1>1. e \in Entry /\ e.by = None /\ e.path = p /\ branch \in Commit
  BY Constants DEF Entry, AnyPath, CInv, TypeOK
<1>2. branch' = Append(branch, e) /\ exists /\ exists' = exists /\ stage' = stage /\ head' = head
  BY DEF ForeignRecord, MoveTo, job
<1> HIDE DEF e
<1>3. \A x \in Writer : By(branch', x) => By(branch, x)
  <2>1. \A x : By(Append(branch, e), x) <=> By(branch, x) \/ x = None
    BY <1>1, ByOneMore
  <2> QED
    BY <2>1, <1>2, Constants DEF By
<1>4. Alone' /\ NoBranch' /\ Apart'
  BY <1>2 DEF CInv, Alone, NoBranch, Apart, By
<1>5. NotYet'
  <2> SUFFICES ASSUME NEW x \in Writer, stage[x] \in Before PROVE ~By(branch', x)
    BY <1>2 DEF NotYet, By
  <2> QED
    BY <1>3 DEF CInv, NotYet
<1>6. Waits'
  <2> SUFFICES ASSUME NEW x \in Writer, stage[x] \in Waiting,
                      NEW i \in 1..Len(branch'), NEW j \in 1..Len(branch'),
                      i < j, branch'[i].by = x
               PROVE  branch'[j].path # PathOf[x]
    BY <1>2 DEF Waits, Newest
  <2>1. /\ i \in 1..Len(branch) \/ i = Len(branch) + 1
        /\ j \in 1..Len(branch) \/ j = Len(branch) + 1
    BY <1>1, <1>2, OneMore
  <2>2. i \in 1..Len(branch)
    BY <2>1, <1>1, <1>2, OneMore, Constants
  <2>3. branch[i].by = x
    BY <2>2, <1>1, <1>2, OneMore
  <2>4. CASE j \in 1..Len(branch)
    <3>1. branch'[j] = branch[j]
      BY <2>4, <1>1, <1>2, OneMore
    <3> QED
      BY <3>1, <2>2, <2>3, <2>4 DEF CInv, Waits, Newest
  <2>5. CASE j = Len(branch) + 1
    <3>1. branch'[j] = e
      BY <2>5, <1>1, <1>2, OneMore
    <3> QED
      BY <3>1, <1>1, Constants
  <2> QED
    BY <2>1, <2>4, <2>5
<1> QED
  BY <1>4, <1>5, <1>6 DEF CInv

(* The branch loses commits, or is created empty. *)
LEMMA ShorterC ==
  ASSUME CInv, TypeOK', Extends(branch, branch'), ~exists' => branch' = <<>>,
         UNCHANGED head, Alone',
         \A w \in Writer : stage'[w] \in Before => stage[w] \in Before,
         \A w \in Writer : stage'[w] \in Working => stage[w] \in Working,
         \A w \in Writer : stage'[w] \in Waiting => stage[w] \in Waiting
  PROVE  CInv'
<1>1. branch \in Commit /\ branch' \in Commit
  BY DEF CInv, TypeOK
<1>2. \A x : By(branch', x) => By(branch, x)
  <2> HIDE DEF By
  <2>1. \A i \in 1..Len(branch') : i \in 1..Len(branch) /\ branch[i] = branch'[i]
    BY <1>1 DEF Extends, Commit
  <2> QED
    BY <2>1 DEF By
<1>3. NoBranch'
  BY DEF NoBranch
<1>4. NotYet'
  <2> SUFFICES ASSUME NEW x \in Writer, stage'[x] \in Before PROVE ~By(branch', x)
    BY DEF NotYet, By
  <2> QED
    BY <1>2 DEF CInv, NotYet
<1>5. Apart'
  <2> SUFFICES ASSUME NEW u \in Writer, NEW x \in Writer, stage'[x] \in Before \cup Working
               PROVE  ~By(head[u], x)
    BY DEF Apart, By
  <2> QED
    BY DEF CInv, Apart
<1>6. Waits'
  <2> SUFFICES ASSUME NEW x \in Writer, stage[x] \in Waiting,
                      NEW i \in 1..Len(branch'), NEW j \in 1..Len(branch'),
                      i < j, branch'[i].by = x
               PROVE  branch'[j].path # PathOf[x]
    BY DEF Waits, Newest
  <2>1. i \in 1..Len(branch) /\ j \in 1..Len(branch) /\ branch[i] = branch'[i] /\ branch[j] = branch'[j]
    BY <1>1 DEF Extends, Commit
  <2> QED
    BY <2>1 DEF CInv, Waits, Newest
<1> QED
  BY <1>3, <1>4, <1>5, <1>6 DEF CInv

LEMMA PutC ==
  ASSUME CInv, TypeOK', NEW w \in Writer, Put(w)
  PROVE  CInv'
<1>0. UNCHANGED repo => UNCHANGED <<exists, branch>>
  BY DEF repo
<1>1. CASE Start(w)
  <2>1. /\ Go(w, "ensure") /\ stage[w] = "new" /\ UNCHANGED <<exists, branch, head>>
        /\ \A u \in Writer : stage[u] \notin Working
    BY <1>1, StageNames DEF Start
  <2>2. "ensure" \in Working /\ "ensure" \in Before /\ "ensure" \notin Waiting
    BY DEF Working, Before, Waiting
  <2> QED
    BY <2>1, <2>2, QuietC, StageNames
<1>2. CASE EnsureBranch(w)
  <2>1. /\ stage[w] = "ensure" /\ UNCHANGED repo /\ UNCHANGED head
        /\ Go(w, "existing") \/ Go(w, "create")
    BY <1>2 DEF EnsureBranch
  <2>2. /\ {"ensure", "existing", "create"} \subseteq Working
        /\ {"ensure", "existing", "create"} \subseteq Before
        /\ "existing" \notin Waiting /\ "create" \notin Waiting
    BY DEF Working, Before, Waiting
  <2> QED
    BY <1>0, <2>1, <2>2, QuietC
<1>3. CASE CreateBranch(w)
  <2>1. stage[w] = "create" /\ UNCHANGED head
    BY <1>3 DEF CreateBranch
  <2>2. CASE exists
    <3>1. Go(w, "failed") /\ UNCHANGED <<exists, branch>>
      BY <1>3, <2>2 DEF CreateBranch, repo
    <3> QED
      BY <2>1, <3>1, StageNames, StageSets, QuietC
  <2>3. CASE ~exists
    <3>1. /\ exists' = TRUE /\ branch' = <<>> /\ Go(w, "existing")
          /\ stage' = [stage EXCEPT ![w] = "existing"]
      BY <1>3, <2>3 DEF CreateBranch, MoveTo, Go
    <3>2. branch = <<>>
      BY <2>3 DEF CInv, NoBranch
    <3>3. Extends(branch, branch') /\ UNCHANGED branch
      BY <3>1, <3>2 DEF Extends
    <3>4. stage'[w] = "existing" /\ \A u \in Writer : u # w => stage'[u] = stage[u]
      BY <3>1 DEF CInv, TypeOK
    <3>5. /\ "existing" \in Before /\ "create" \in Before /\ "existing" \notin Waiting
          /\ "create" \in Working
      BY DEF Before, Waiting, Working
    <3>6. Alone'
      BY <3>4, <3>5, <2>1 DEF CInv, Alone
    <3> QED
      BY <2>1, <3>1, <3>3, <3>4, <3>5, <3>6, ShorterC
  <2> QED
    BY <2>2, <2>3
<1>4. CASE ReadExisting(w)
  <2>1. /\ stage[w] = "existing" /\ UNCHANGED repo /\ UNCHANGED head
        /\ Go(w, "head") \/ Go(w, "false") \/ Go(w, "failed")
    BY <1>4 DEF ReadExisting
  <2>2. /\ "existing" \in Working /\ "existing" \in Before
        /\ "head" \in Before /\ "head" \notin Waiting /\ "false" \notin Working \cup Before \cup Waiting
    BY DEF Working, Before, Waiting
  <2> QED
    BY <1>0, <2>1, <2>2, StageSets, StageNames, QuietC
<1>5. CASE ReadHead(w)
  <2>1. stage[w] = "head" /\ UNCHANGED repo
    BY <1>5 DEF ReadHead
  <2>2. \/ Go(w, "patch") /\ head'[w] = branch /\ \A u \in Writer : u # w => head'[u] = head[u]
        \/ Go(w, "failed") /\ UNCHANGED head
    BY <1>5 DEF ReadHead, CInv, TypeOK
  <2>3. /\ "head" \in Working /\ "head" \in Before /\ "patch" \notin Waiting
    BY DEF Working, Before, Waiting
  <2> QED
    BY <1>0, <2>1, <2>2, <2>3, StageSets, StageNames, QuietC
<1>6. CASE (Patch(w) \/ PatchFails(w)) /\ ~UNCHANGED repo
  <2>1. /\ stage[w] = "patch" /\ MayMove(w) /\ MoveTo(CommitOf(w)) /\ Go(w, "before")
        /\ UNCHANGED <<exists, head>>
    BY <1>6 DEF Patch, PatchFails, Await
  <2> QED
    BY <2>1, LandC
<1>7. CASE (Patch(w) \/ PatchFails(w)) /\ UNCHANGED repo
  <2>1. stage[w] = "patch" /\ Go(w, "before") /\ UNCHANGED head
    BY <1>7 DEF Patch, PatchFails, Await
  <2>2. ~By(branch, w)
    BY <2>1, StageNames DEF CInv, NotYet
  <2> QED
    BY <1>0, <1>7, <2>1, <2>2, StageNames, StageSets, QuietC
<1>8. CASE CheckBefore(w) \/ Look(w) \/ CheckAfter(w)
  <2>1. stage[w] \in Waiting /\ UNCHANGED repo /\ UNCHANGED head
    BY <1>8 DEF CheckBefore, Look, CheckAfter, Waiting
  <2>2. PICK s \in {"before", "look", "after", "true", "false", "failed"} : Go(w, s)
    BY <1>8 DEF CheckBefore, Look, CheckAfter, Outcome
  <2>3. s \in Working \cup Ended /\ s \notin Before /\ (s \in Working => s \in Waiting)
    BY DEF Working, Ended, Before, Waiting
  <2> QED
    BY <1>0, <2>1, <2>2, <2>3, StageNames, QuietC
<1> QED
  BY <1>1, <1>2, <1>3, <1>4, <1>5, <1>6, <1>7, <1>8 DEF Put

LEMMA StepC ==
  ASSUME CInv, [Next]_vars
  PROVE  CInv'
<1>0. TypeOK'
  BY StepType DEF CInv
<1>1. ASSUME NEW w \in Writer, Put(w) PROVE CInv'
  BY <1>0, <1>1, PutC
<1>2. ASSUME NEW w \in Writer, Fail(w) \/ Abandon(w) PROVE CInv'
  <2>1. UNCHANGED <<exists, branch, head>>
    BY <1>2 DEF Fail, Abandon, repo
  <2>2. \/ Go(w, "failed")
        \/ stage[w] = "patch" /\ Go(w, "adrift")
    BY <1>2 DEF Fail, Abandon
  <2>3. "adrift" \notin Waiting
    BY DEF Waiting
  <2> QED
    BY <1>0, <2>1, <2>2, <2>3, StageNames, StageSets, QuietC
<1>3. ASSUME NEW w \in Writer, Arrive(w) PROVE CInv'
  <2>1. /\ stage[w] = "adrift" /\ MayMove(w) /\ MoveTo(CommitOf(w)) /\ Go(w, "failed")
        /\ UNCHANGED <<exists, head>>
    BY <1>3 DEF Arrive
  <2> QED
    BY <1>0, <2>1, LandC
<1>4. ASSUME NEW p \in ForeignPath, ForeignRecord(p) PROVE CInv'
  BY <1>0, <1>4, ForeignC
<1>5. CASE Rewrite
  <2>1. UNCHANGED <<stage, head>>
    BY <1>5 DEF Rewrite, job
  <2>2. Extends(branch, branch') /\ (~exists' => branch' = <<>>)
    <3>1. CASE \E n \in 0..(Len(branch) - 1) : MoveTo(SubSeq(branch, 1, n)) /\ UNCHANGED exists
      <4>1. PICK n \in 0..(Len(branch) - 1) : branch' = SubSeq(branch, 1, n) /\ exists' = exists
        BY <3>1 DEF MoveTo
      <4>2. branch \in Seq(Entry) /\ n \in Nat /\ n <= Len(branch)
        BY DEF CInv, TypeOK, Commit
      <4>3. Len(branch') = n /\ \A i \in 1..n : branch'[i] = branch[i]
        BY <4>1, <4>2
      <4> QED
        BY <1>5, <4>1, <4>2, <4>3 DEF Extends, Rewrite
    <3>2. CASE MoveTo(<<>>) /\ exists' = FALSE
      <4>1. branch \in Commit /\ branch' = <<>>
        BY <3>2 DEF MoveTo, CInv, TypeOK
      <4> QED
        BY <4>1, ExtendsSelf
    <3> QED
      BY <1>5, <3>1, <3>2 DEF Rewrite
  <2>3. Alone'
    BY <2>1 DEF CInv, Alone
  <2> QED
    BY <1>0, <2>1, <2>2, <2>3, ShorterC
<1>6. CASE UNCHANGED vars
  <2>1. UNCHANGED <<exists, branch, head, stage>>
    BY <1>6 DEF vars, repo, job
  <2>2. branch \in Commit
    BY DEF CInv, TypeOK
  <2>3. Extends(branch, branch') /\ (~exists' => branch' = <<>>) /\ Alone'
    BY <2>1, <2>2, ExtendsSelf DEF CInv, Alone, NoBranch
  <2> QED
    BY <1>0, <2>1, <2>3, ShorterC
<1> QED
  BY <1>1, <1>2, <1>3, <1>4, <1>5, <1>6 DEF Next

(* What a job finds on the way back from the head of the branch is what    *)
(* its path says there.                                                    *)
LEMMA FoundMine ==
  ASSUME CInv, NEW w \in Writer, stage[w] = "after", mine[w], OnHistory(w)
  PROVE  Records[PathOf[w]] = PayloadOf[w]
<1>1. branch \in Commit /\ head[w] \in Commit /\ RecordOf(w) \in Entry
  BY Constants DEF CInv, TypeOK
<1>2. exists /\ Extends(branch, Append(head[w], RecordOf(w)))
  BY DEF OnHistory, LinearDescendant, Ancestor, CommitOf
<1> DEFINE i == Len(head[w]) + 1
<1>3. i \in 1..Len(branch) /\ branch[i] = RecordOf(w)
  BY <1>1, <1>2, OneMore DEF Extends, Commit
<1>4. RecordOf(w).by = w /\ RecordOf(w).path = PathOf[w] /\ RecordOf(w).payload = PayloadOf[w]
  BY DEF RecordOf
<1>5. Newest(w)
  BY DEF CInv, Waits, Waiting
<1> HIDE DEF i
<1>6. \A j \in 1..Len(branch) : j > i => branch[j].path # branch[i].path
  BY <1>3, <1>4, <1>5 DEF Newest
<1>7. Lookup(branch, branch[i].path) = branch[i].payload
  BY <1>1, <1>3, <1>6, LookupIs
<1> QED
  BY <1>2, <1>3, <1>4, <1>7, Constants DEF Records

(* put_record() returns True only while its record is on the branch: for   *)
(* any number of jobs, rewrites and late writes.                           *)
THEOREM ConfirmedThereCorrect == Spec => ConfirmedThere
<1> DEFINE Confirmed == \A w \in Writer : stage[w] # "true" /\ stage'[w] = "true"
                                            => Records'[PathOf[w]] = PayloadOf[w]
<1>1. CInv /\ [Next]_vars => [Confirmed]_vars
  <2> SUFFICES ASSUME CInv, [Next]_vars, NEW w \in Writer,
                      stage[w] # "true", stage'[w] = "true"
               PROVE  Records'[PathOf[w]] = PayloadOf[w]
    OBVIOUS
  <2>1. CheckAfter(w)
    <3>1. \A u \in Writer : \A s : Go(u, s) => (u = w => s = "true") /\ u = w
      BY DEF Go, CInv, TypeOK
    <3>2. stage' # stage
      OBVIOUS
    <3>3. PICK u \in Writer : Put(u) \/ Fail(u) \/ Abandon(u) \/ Arrive(u)
      BY <3>2 DEF Next, vars, job, ForeignRecord, Rewrite
    <3>4. ~Fail(u) /\ ~Abandon(u) /\ ~Arrive(u)
      BY <3>1 DEF Fail, Abandon, Arrive
    <3>5. Put(u)
      BY <3>3, <3>4
    <3>6. ~Start(u) /\ ~EnsureBranch(u) /\ ~CreateBranch(u) /\ ~ReadExisting(u) /\ ~ReadHead(u)
      BY <3>1 DEF Start, EnsureBranch, CreateBranch, ReadExisting, ReadHead
    <3>7. ~Patch(u) /\ ~PatchFails(u) /\ ~CheckBefore(u)
      BY <3>1 DEF Patch, PatchFails, CheckBefore, Await
    <3>8. ~Look(u)
      BY <3>1 DEF Look
    <3>9. CheckAfter(u)
      BY <3>5, <3>6, <3>7, <3>8 DEF Put
    <3>10. u = w
      BY <3>1, <3>9 DEF CheckAfter
    <3> QED
      BY <3>9, <3>10
  <2>2. Outcome(w) = "true" /\ stage[w] = "after" /\ UNCHANGED repo
    BY <2>1 DEF CheckAfter, Go, CInv, TypeOK
  <2>3. mine[w] /\ OnHistory(w)
    BY <2>2 DEF Outcome
  <2>4. UNCHANGED Records
    BY <2>2 DEF repo, Records, Lookup
  <2> QED
    BY <2>2, <2>3, <2>4, FoundMine
<1>2. Spec => []CInv
  BY InitC, StepC, PTL DEF Spec
<1> QED
  BY <1>1, <1>2, PTL DEF Spec, ConfirmedThere

-----------------------------------------------------------------------------
(* RInv, step by step. *)

LEMMA StageCover == Working \cup Ended \subseteq Before \cup Waiting \cup Answered \cup {"failed"}
  BY DEF Working, Ended, Before, Waiting, Answered

LEMMA InitR == Init => Kept
<1> SUFFICES ASSUME Init PROVE Kept
  OBVIOUS
<1>1. /\ branch = <<>> /\ past = {}
      /\ \A u \in Writer : head[u] = <<>> /\ stage[u] = "new" /\ mine[u] = FALSE
  BY DEF Init
<1>2. Extends(<<>>, <<>>)
  BY DEF Extends
<1>3. Grows /\ Authors
  BY <1>1, <1>2 DEF Grows, Authors
<1>4. Closed /\ Moved /\ Since /\ Seen
  BY <1>1, StageNames DEF Closed, Moved, Since, Seen
<1> QED
  BY <1>3, <1>4 DEF Kept

(* What a job reads is on the branch, and only late writes came after. *)
LEMMA HeldAt ==
  ASSUME CInv, Kept, NEW w \in Writer, stage[w] \in Working,
         NEW value \in Readable(PathOf[w]), value # None
  PROVE  Recorded(branch, PathOf[w]) /\ Held(w, value)
<1> DEFINE p == PathOf[w]
<1>1. PICK h \in past \cup {branch} : value = Lookup(h, p)
  BY DEF Readable
<1>2. h \in Commit /\ branch \in Commit /\ Extends(branch, h)
  <2>1. branch \in Commit /\ past \subseteq Commit
    BY DEF CInv, TypeOK
  <2> QED
    BY <2>1, ExtendsSelf DEF Kept, Grows
<1>3. Recorded(h, p)
  BY <1>1, <1>2, LookupSome
<1>4. PICK i \in 1..Len(h) : /\ h[i].path = p /\ h[i].payload = value
                             /\ \A j \in 1..Len(h) : j > i => h[j].path # p
  BY <1>1, <1>2, <1>3, LookupLast
<1>5. \A k \in 1..Len(h) : k \in 1..Len(branch) /\ branch[k] = h[k]
  BY <1>2 DEF Extends, Commit
<1>6. ASSUME NEW j \in 1..Len(branch), i < j, branch[j].path = p, branch[j].by # w
      PROVE  stage[branch[j].by] = "failed"
  <2> DEFINE y == branch[j].by
  <2>1. j \notin 1..Len(h)
    BY <1>4, <1>5, <1>6
  <2>2. y \in Writer /\ branch[j] = RecordOf(y) /\ j = Len(head[y]) + 1
    BY <1>6, Constants DEF Kept, Authors
  <2>3. By(branch, y)
    BY DEF By
  <2>4. stage[y] \notin Before
    BY <2>2, <2>3 DEF CInv, NotYet
  <2>5. stage[y] \notin Waiting
    BY <1>6, <2>2, StageNames DEF CInv, Alone
  <2>6. stage[y] \notin Answered
    <3> SUFFICES ASSUME stage[y] \in Answered PROVE FALSE
      OBVIOUS
    <3>1. h \in past
      BY <2>1
    <3>2. By(h, y)
      BY <2>2, <2>3, <3>1 DEF Kept, Since
    <3>3. PICK k \in 1..Len(h) : h[k].by = y
      BY <3>2 DEF By
    <3>4. k \in 1..Len(branch) /\ branch[k].by = y
      BY <1>5, <3>3
    <3>5. k = Len(head[y]) + 1
      BY <2>2, <3>4, Constants DEF Kept, Authors
    <3> QED
      BY <2>1, <2>2, <3>5
  <2>7. stage[y] \in Working \cup Ended
    BY <2>2 DEF CInv, TypeOK
  <2> QED
    BY <2>4, <2>5, <2>6, <2>7, StageCover
<1>7. Recorded(branch, p)
  BY <1>4, <1>5 DEF Recorded
<1>8. i \in 1..Len(branch) /\ branch[i].path = p /\ branch[i].payload = value
  BY <1>4, <1>5
<1> QED
  BY <1>6, <1>7, <1>8 DEF Held

(* A step of one job that leaves the branch alone. *)
LEMMA QuietR ==
  ASSUME CInv, Kept, NEW w \in Writer, NEW s \in Working \cup Ended, Go(w, s),
         stage[w] \in Working \cup {"new"},
         branch' = branch, past' = past \/ (past' = {} /\ s = "ensure"),
         \A u \in Writer \ {w} : head'[u] = head[u] /\ mine'[u] = mine[u] /\ seen'[u] = seen[u],
         head'[w] = head[w] \/ (head'[w] = branch /\ stage[w] = "head"),
         s \in Working => stage[w] \in Working \/ past' = {},
         s = "head" => \A x \in Writer : stage[x] \in Answered => PathOf[x] # PathOf[w],
         s = "patch" => stage[w] = "head",
         s = "adrift" => stage[w] = "patch",
         s \in Early => stage[w] \in Early \/ past' = {},
         s \in Answered => Recorded(branch, PathOf[w]) /\ Newest(w) /\ stage[w] \in Working,
         mine'[w] /\ s \in Waiting \cup {"true"} => mine[w] /\ stage[w] \in Waiting,
         \A v \in Payload : s = "after" /\ seen'[w] = v => Held(w, v),
         s = "false" => Held(w, PayloadOf[w]),
         s = "true" => mine'[w]
  PROVE  Kept'
<1>1. stage'[w] = s /\ \A u \in Writer : u # w => stage'[u] = stage[u]
  BY DEF Go, CInv, TypeOK
<1>2. branch \in Commit /\ past' \subseteq past
  BY DEF CInv, TypeOK
<1>3. Grows'
  <2>1. \A h \in past' : Extends(branch', h)
    BY <1>2 DEF Kept, Grows
  <2>2. \A u \in Writer : Extends(branch', head'[u])
    BY <1>2, ExtendsSelf DEF Kept, Grows
  <2> QED
    BY <2>1, <2>2 DEF Grows
<1>4. Authors'
  <2> SUFFICES ASSUME NEW i \in 1..Len(branch), branch[i].by \in Writer
               PROVE  head'[branch[i].by] = head[branch[i].by]
    BY DEF Kept, Authors, RecordOf
  <2>1. CASE branch[i].by # w
    BY <2>1
  <2>2. CASE branch[i].by = w
    <3>1. By(branch, w)
      BY <2>2 DEF By
    <3>2. stage[w] # "head"
      BY <3>1 DEF CInv, NotYet, Before
    <3> QED
      BY <2>2, <3>2
  <2> QED
    BY <2>1, <2>2
<1>5. Closed'
  <2> SUFFICES ASSUME NEW x \in Writer, stage'[x] \in Answered
               PROVE  /\ Recorded(branch, PathOf[x])
                      /\ Newest(x)
                      /\ \A u \in Writer : PathOf[u] = PathOf[x] =>
                           /\ stage'[u] \notin {"head", "patch"}
                           /\ stage'[u] \in Early => \A h \in past' : Recorded(h, PathOf[x])
                           /\ stage'[u] = "adrift" => ~By(head'[u], x)
    BY DEF Closed, Recorded, Newest, By
  <2>1. CASE x = w
    <3>1. Recorded(branch, PathOf[w]) /\ Newest(w) /\ stage[w] \in Working
      BY <2>1, <1>1
    <3>2. ASSUME NEW u \in Writer
          PROVE  /\ stage'[u] \notin {"head", "patch"} \cup Early
                 /\ stage'[u] = "adrift" => ~By(head'[u], w)
      <4>1. CASE u = w
        BY <4>1, <2>1 DEF Answered, Early
      <4>2. CASE u # w
        <5>1. stage'[u] = stage[u] /\ stage[u] \notin Working /\ head'[u] = head[u]
          BY <4>2, <1>1, <3>1 DEF CInv, Alone
        <5>2. stage'[u] \notin {"head", "patch"} \cup Early
          BY <5>1, StageSets DEF Early
        <5>3. ~By(head[u], w)
          BY <3>1 DEF CInv, Apart
        <5> QED
          BY <5>1, <5>2, <5>3
      <4> QED
        BY <4>1, <4>2
    <3> QED
      BY <2>1, <3>1, <3>2
  <2>2. CASE x # w
    <3>1. stage[x] \in Answered
      BY <2>2, <1>1
    <3>2. Recorded(branch, PathOf[x]) /\ Newest(x)
      BY <3>1 DEF Kept, Closed
    <3>3. ASSUME NEW u \in Writer, PathOf[u] = PathOf[x]
          PROVE  /\ stage'[u] \notin {"head", "patch"}
                 /\ stage'[u] \in Early => \A h \in past' : Recorded(h, PathOf[x])
                 /\ stage'[u] = "adrift" => ~By(head'[u], x)
      <4>1. /\ stage[u] \notin {"head", "patch"}
            /\ stage[u] \in Early => \A h \in past : Recorded(h, PathOf[x])
            /\ stage[u] = "adrift" => ~By(head[u], x)
        BY <3>1, <3>3 DEF Kept, Closed
      <4>2. CASE u = w
        BY <4>1, <4>2, <1>1, <1>2, <3>1, <3>3
      <4>3. CASE u # w
        BY <4>1, <4>3, <1>1, <1>2
      <4> QED
        BY <4>2, <4>3
    <3> QED
      BY <3>2, <3>3
  <2> QED
    BY <2>1, <2>2
<1>6. Moved'
  <2> SUFFICES ASSUME NEW x \in Writer, mine'[x], stage'[x] \in Waiting \cup {"true"}
               PROVE  By(branch, x)
    BY DEF Moved, By
  <2>1. mine[x] /\ stage[x] \in Waiting \cup {"true"}
    BY <1>1
  <2> QED
    BY <2>1 DEF Kept, Moved
<1>7. Since'
  <2> SUFFICES ASSUME NEW u \in Writer, NEW x \in Writer, stage'[x] \in Working,
                      stage'[u] \in Answered, By(branch, u), NEW h \in past'
               PROVE  By(h, u)
    BY DEF Since, By
  <2>1. stage[x] \in Working
    BY <1>1
  <2>2. u # w
    <3> SUFFICES ASSUME u = w PROVE FALSE
      OBVIOUS
    <3>1. x # w /\ stage[w] \in Working
      BY <1>1, StageNames
    <3> QED
      BY <2>1, <3>1 DEF CInv, Alone
  <2>3. stage[u] \in Answered
    BY <2>2, <1>1
  <2> QED
    BY <2>1, <2>3, <1>2 DEF Kept, Since
<1>8. \A x \in Writer : \A v : Held(x, v) => Held(x, v)'
  <2> SUFFICES ASSUME NEW x \in Writer, NEW v, Held(x, v) PROVE Held(x, v)'
    OBVIOUS
  <2>1. PICK i \in 1..Len(branch) :
          /\ branch[i].path = PathOf[x] /\ branch[i].payload = v
          /\ \A j \in 1..Len(branch) :
               i < j /\ branch[j].path = PathOf[x] /\ branch[j].by # x
                 => stage[branch[j].by] = "failed"
    BY DEF Held
  <2>2. ASSUME NEW j \in 1..Len(branch), i < j, branch[j].path = PathOf[x], branch[j].by # x
        PROVE  stage'[branch[j].by] = "failed"
    <3>1. branch[j].by \in Writer
      BY <2>2, Constants DEF Kept, Authors
    <3>2. stage[branch[j].by] = "failed"
      BY <2>1, <2>2
    <3>3. branch[j].by # w
      BY <3>2, StageNames
    <3> QED
      BY <3>1, <3>2, <3>3, <1>1
  <2> QED
    BY <2>1, <2>2 DEF Held
<1>9. Seen'
  <2> SUFFICES ASSUME NEW x \in Writer
               PROVE  /\ \A v \in Payload : stage'[x] = "after" /\ seen'[x] = v => Held(x, v)'
                      /\ stage'[x] = "false" => Held(x, PayloadOf[x])'
                      /\ stage'[x] = "true" => mine'[x]
    BY DEF Seen
  <2>1. CASE x = w
    BY <2>1, <1>1, <1>8
  <2>2. CASE x # w
    <3>1. /\ \A v \in Payload : stage[x] = "after" /\ seen[x] = v => Held(x, v)
          /\ stage[x] = "false" => Held(x, PayloadOf[x])
          /\ stage[x] = "true" => mine[x]
      BY DEF Kept, Seen
    <3> QED
      BY <2>2, <3>1, <1>1, <1>8
  <2> QED
    BY <2>1, <2>2
<1> QED
  BY <1>3, <1>4, <1>5, <1>6, <1>7, <1>9 DEF Kept

(* One commit more on the branch. *)
LEMMA GrowR ==
  ASSUME CInv, Kept, NEW e \in Entry, branch' = Append(branch, e),
         past' = past \cup {branch}, UNCHANGED <<head, seen>>,
         \/ e.by = None /\ e.path \in ForeignPath
         \/ /\ e.by \in Writer /\ e = RecordOf(e.by) /\ Len(branch) = Len(head[e.by])
            /\ stage[e.by] \in {"patch", "adrift"},
         \A x \in Writer : \/ stage'[x] = stage[x]
                           \/ x = e.by /\ stage[x] = "patch" /\ stage'[x] = "before"
                           \/ x = e.by /\ stage[x] = "adrift" /\ stage'[x] = "failed",
         \A x \in Writer : stage[x] \in Answered \cup {"after"} /\ PathOf[x] = e.path /\ x # e.by
           => stage'[e.by] = "failed",
         \A x \in Writer : stage[x] \in Answered /\ PathOf[x] = e.path => ~By(branch, x),
         \A x \in Writer : mine'[x] = mine[x] \/ x = e.by
  PROVE  Kept'
<1>1. /\ branch \in Commit /\ Len(branch) \in Nat /\ branch' \in Commit
      /\ Len(branch') = Len(branch) + 1 /\ branch'[Len(branch) + 1] = e
      /\ \A i \in 1..Len(branch) : branch'[i] = branch[i] /\ i \in 1..Len(branch')
      /\ \A i \in 1..Len(branch') : i \in 1..Len(branch) \/ i = Len(branch) + 1
  BY OneMore DEF CInv, TypeOK
<1>2. /\ \A x : By(branch', x) <=> By(branch, x) \/ x = e.by
      /\ \A p : Recorded(branch', p) <=> Recorded(branch, p) \/ p = e.path
      /\ Extends(branch', branch)
  <2>1. /\ \A x : By(Append(branch, e), x) <=> By(branch, x) \/ x = e.by
        /\ \A p : Recorded(Append(branch, e), p) <=> Recorded(branch, p) \/ p = e.path
        /\ Extends(Append(branch, e), branch)
    BY <1>1, ByOneMore
  <2> QED
    BY <2>1 DEF By, Recorded
<1>3. \A x \in Writer : stage'[x] \in Answered => stage[x] \in Answered /\ stage'[x] = stage[x]
  BY DEF Answered
<1>4. Grows'
  <2>1. \A h \in past \cup {branch} : Extends(branch', h)
    <3> SUFFICES ASSUME NEW h \in past PROVE Extends(branch', h)
      BY <1>2
    <3>1. h \in Commit /\ Extends(branch, h)
      BY DEF CInv, TypeOK, Kept, Grows
    <3> QED
      BY <1>1, <1>2, <3>1, ExtendsTransitive
  <2>2. \A u \in Writer : Extends(branch', head[u])
    <3> SUFFICES ASSUME NEW u \in Writer PROVE Extends(branch', head[u])
      OBVIOUS
    <3>1. head[u] \in Commit /\ Extends(branch, head[u])
      BY DEF CInv, TypeOK, Kept, Grows
    <3> QED
      BY <1>1, <1>2, <3>1, ExtendsTransitive
  <2> QED
    BY <2>1, <2>2 DEF Grows
<1>5. Authors'
  <2> SUFFICES ASSUME NEW i \in 1..Len(branch')
               PROVE  \/ branch'[i].by = None /\ branch'[i].path \in ForeignPath
                      \/ /\ branch'[i].by \in Writer /\ branch'[i] = RecordOf(branch'[i].by)
                         /\ i = Len(head[branch'[i].by]) + 1
    BY DEF Authors, RecordOf
  <2>1. CASE i \in 1..Len(branch)
    BY <2>1, <1>1 DEF Kept, Authors
  <2>2. CASE i = Len(branch) + 1
    BY <2>2, <1>1
  <2> QED
    BY <2>1, <2>2, <1>1
<1>6. Closed'
  <2> SUFFICES ASSUME NEW x \in Writer, stage'[x] \in Answered
               PROVE  /\ Recorded(branch', PathOf[x])
                      /\ Newest(x)'
                      /\ \A u \in Writer : PathOf[u] = PathOf[x] =>
                           /\ stage'[u] \notin {"head", "patch"}
                           /\ stage'[u] \in Early => \A h \in past \cup {branch} : Recorded(h, PathOf[x])
                           /\ stage'[u] = "adrift" => ~By(head[u], x)
    BY DEF Closed, Recorded, By
  <2>1. stage[x] \in Answered
    BY <1>3
  <2>2. /\ Recorded(branch, PathOf[x])
        /\ Newest(x)
        /\ \A u \in Writer : PathOf[u] = PathOf[x] =>
             /\ stage[u] \notin {"head", "patch"}
             /\ stage[u] \in Early => \A h \in past : Recorded(h, PathOf[x])
             /\ stage[u] = "adrift" => ~By(head[u], x)
    BY <2>1 DEF Kept, Closed
  <2>3. Newest(x)'
    <3> SUFFICES ASSUME NEW i \in 1..Len(branch'), NEW j \in 1..Len(branch'),
                        i < j, branch'[i].by = x
                 PROVE  branch'[j].path # PathOf[x]
      BY DEF Newest
    <3>1. i \in 1..Len(branch)
      BY <1>1
    <3>2. CASE j \in 1..Len(branch)
      BY <2>2, <3>1, <3>2, <1>1 DEF Newest
    <3>3. CASE j = Len(branch) + 1
      <4>1. branch'[j] = e /\ branch[i].by = x
        BY <3>1, <3>3, <1>1
      <4>2. By(branch, x)
        BY <3>1, <4>1 DEF By
      <4> QED
        BY <2>1, <4>1, <4>2
    <3> QED
      BY <3>2, <3>3, <1>1
  <2>4. \A u \in Writer : PathOf[u] = PathOf[x] =>
          /\ stage'[u] \notin {"head", "patch"}
          /\ stage'[u] \in Early => \A h \in past \cup {branch} : Recorded(h, PathOf[x])
          /\ stage'[u] = "adrift" => ~By(head[u], x)
    BY <2>2 DEF Early
  <2> QED
    BY <1>2, <2>2, <2>3, <2>4
<1>7. Moved'
  <2> SUFFICES ASSUME NEW x \in Writer, mine'[x], stage'[x] \in Waiting \cup {"true"}
               PROVE  By(branch', x)
    BY DEF Moved, By
  <2>1. CASE x = e.by
    BY <2>1, <1>2
  <2>2. CASE x # e.by
    <3>1. By(branch, x)
      BY <2>2 DEF Kept, Moved
    <3> QED
      BY <3>1, <1>2
  <2> QED
    BY <2>1, <2>2
<1>8. Since'
  <2> SUFFICES ASSUME NEW u \in Writer, NEW x \in Writer, stage'[x] \in Working,
                      stage'[u] \in Answered, By(branch', u), NEW h \in past \cup {branch}
               PROVE  By(h, u)
    BY DEF Since, By
  <2>1. stage[x] \in Working
    BY StageNames, StageSets
  <2>2. stage[u] \in Answered /\ stage'[u] = stage[u]
    BY <1>3
  <2>3. By(branch, u)
    <3>1. u # e.by
      BY <2>2, Constants DEF Answered
    <3> QED
      BY <3>1, <1>2
  <2> QED
    BY <2>1, <2>2, <2>3 DEF Kept, Since
<1>9. ASSUME NEW x \in Writer, NEW v, Held(x, v), stage[x] \in Answered \cup {"after"}
      PROVE  Held(x, v)'
  <2>1. PICK i \in 1..Len(branch) :
          /\ branch[i].path = PathOf[x] /\ branch[i].payload = v
          /\ \A j \in 1..Len(branch) :
               i < j /\ branch[j].path = PathOf[x] /\ branch[j].by # x
                 => stage[branch[j].by] = "failed"
    BY <1>9 DEF Held
  <2>2. i \in 1..Len(branch') /\ branch'[i] = branch[i]
    BY <1>1
  <2>3. ASSUME NEW j \in 1..Len(branch'), i < j, branch'[j].path = PathOf[x], branch'[j].by # x
        PROVE  stage'[branch'[j].by] = "failed"
    <3>1. CASE j \in 1..Len(branch)
      <4>1. branch'[j] = branch[j]
        BY <3>1, <1>1
      <4>2. branch[j].by \in Writer /\ stage[branch[j].by] = "failed"
        BY <2>1, <2>3, <3>1, <4>1, Constants DEF Kept, Authors
      <4> QED
        BY <4>1, <4>2
    <3>2. CASE j = Len(branch) + 1
      BY <3>2, <2>3, <1>1, <1>9
    <3> QED
      BY <3>1, <3>2, <1>1
  <2> QED
    BY <2>1, <2>2, <2>3 DEF Held
<1>10. Seen'
  <2> SUFFICES ASSUME NEW x \in Writer
               PROVE  /\ \A v \in Payload : stage'[x] = "after" /\ seen'[x] = v => Held(x, v)'
                      /\ stage'[x] = "false" => Held(x, PayloadOf[x])'
                      /\ stage'[x] = "true" => mine'[x]
    BY DEF Seen
  <2>1. /\ \A v \in Payload : stage[x] = "after" /\ seen[x] = v => Held(x, v)
        /\ stage[x] = "false" => Held(x, PayloadOf[x])
        /\ stage[x] = "true" => mine[x]
    BY DEF Kept, Seen
  <2>2. \A t \in Answered \cup {"after"} : stage'[x] = t => stage[x] = t
    BY DEF Answered
  <2>3. {"true", "false"} = Answered
    BY DEF Answered
  <2>4. stage'[x] = "true" => mine'[x]
    <3>1. stage'[x] = "true" => x # e.by
      BY <2>2, <2>3, Constants DEF Answered
    <3> QED
      BY <3>1, <2>1, <2>2, <2>3
  <2> QED
    BY <2>1, <2>2, <2>3, <2>4, <1>9
<1> QED
  BY <1>4, <1>5, <1>6, <1>7, <1>8, <1>10 DEF Kept

(* The branch is created: nothing was on it, so nobody has an answer. *)
LEMMA CreateR ==
  ASSUME CInv, Kept, branch = <<>>, branch' = <<>>, past' = past \cup {<<>>},
         NEW w \in Writer, stage[w] = "create", Go(w, "existing"), UNCHANGED <<head, mine, seen>>
  PROVE  Kept'
<1>1. stage'[w] = "existing" /\ \A u \in Writer : u # w => stage'[u] = stage[u]
  BY DEF Go, CInv, TypeOK
<1>2. 1..Len(branch) = {}
  OBVIOUS
<1>3. \A x : ~By(branch, x) /\ ~Recorded(branch, x)
  BY <1>2 DEF By, Recorded
<1>4. \A x \in Writer : stage[x] \notin Answered
  BY <1>3 DEF Kept, Closed
<1>5. \A x \in Writer : stage'[x] \notin Answered
  BY <1>1, <1>4 DEF Answered
<1>6. Grows'
  <2>1. Extends(<<>>, <<>>)
    BY DEF Extends
  <2> QED
    BY <2>1 DEF Kept, Grows
<1>7. Authors'
  BY <1>2 DEF Authors
<1>8. Closed' /\ Since'
  BY <1>5 DEF Closed, Since
<1>9. Moved'
  <2> SUFFICES ASSUME NEW x \in Writer, mine[x], stage'[x] \in Waiting \cup {"true"}
               PROVE  FALSE
    BY DEF Moved
  <2>1. stage[x] \in Waiting \cup {"true"}
    BY <1>1 DEF Waiting
  <2> QED
    BY <2>1, <1>3 DEF Kept, Moved
<1>10. Seen'
  <2>1. \A x, v : ~Held(x, v)
    BY <1>2 DEF Held
  <2>2. \A x \in Writer, v \in Payload : stage[x] = "after" => seen[x] # v
    BY <2>1 DEF Kept, Seen
  <2>3. \A x \in Writer : stage'[x] = "after" => stage[x] = "after"
    BY <1>1
  <2> QED
    BY <2>2, <2>3, <1>5 DEF Seen, Answered
<1> QED
  BY <1>6, <1>7, <1>8, <1>9, <1>10 DEF Kept

(* A write that lands, in time or late. *)
LEMMA LandR ==
  ASSUME CInv, Kept, NEW w \in Writer, MayMove(w), MoveTo(CommitOf(w)),
         UNCHANGED <<head, seen>>,
         \A x \in Writer : x # w => mine'[x] = mine[x],
         \/ stage[w] = "patch" /\ Go(w, "before")
         \/ stage[w] = "adrift" /\ Go(w, "failed")
  PROVE  Kept'
<1>1. /\ branch \in Commit /\ head[w] \in Commit /\ RecordOf(w) \in Entry
      /\ RecordOf(w).by = w /\ RecordOf(w).path = PathOf[w]
  BY Constants DEF CInv, TypeOK, RecordOf
<1>2. stage[w] \in Before
  BY StageNames
<1>3. ~By(branch, w)
  BY <1>2 DEF CInv, NotYet
<1>4. branch = head[w]
  <2>1. branch = head[w] \/ branch = Append(head[w], RecordOf(w))
    BY <1>1, ForwardOnly DEF Kept, Grows, MayMove, CommitOf
  <2>2. By(Append(head[w], RecordOf(w)), w)
    BY <1>1, ByOneMore
  <2> QED
    BY <2>1, <2>2, <1>3
<1>5. branch' = Append(branch, RecordOf(w)) /\ past' = past \cup {branch}
  BY <1>4 DEF MoveTo, CommitOf
<1>6. \A x \in Writer : x # w => stage'[x] = stage[x]
  BY DEF Go, CInv, TypeOK
<1>7. stage'[w] = IF stage[w] = "patch" THEN "before" ELSE "failed"
  BY DEF Go, CInv, TypeOK
<1>8. ASSUME NEW x \in Writer, stage[x] \in Answered \cup {"after"}, PathOf[x] = PathOf[w], x # w
      PROVE  stage'[w] = "failed"
  <2>1. stage[w] # "patch"
    <3>1. CASE stage[x] \in Answered
      BY <3>1, <1>8 DEF Kept, Closed
    <3>2. CASE stage[x] = "after"
      BY <3>2, <1>8, StageSets DEF CInv, Alone
    <3> QED
      BY <3>1, <3>2, <1>8
  <2> QED
    BY <2>1, <1>7
<1>9. ASSUME NEW x \in Writer, stage[x] \in Answered, PathOf[x] = PathOf[w]
      PROVE  ~By(branch, x)
  <2>1. stage[w] # "patch" /\ (stage[w] = "adrift" => ~By(head[w], x))
    BY <1>9 DEF Kept, Closed
  <2> QED
    BY <2>1, <1>4
<1> DEFINE e == RecordOf(w)
<1> HIDE DEF e
<1>10. /\ e \in Entry /\ e.by = w /\ e.path = PathOf[w] /\ e = RecordOf(e.by)
       /\ branch' = Append(branch, e)
  BY <1>1, <1>5 DEF e
<1> QED
  BY <1>4, <1>5, <1>6, <1>7, <1>8, <1>9, <1>10, GrowR

LEMMA PutR ==
  ASSUME CInv, Kept, NEW w \in Writer, Put(w)
  PROVE  Kept'
<1>0. \A x \in Payload : x # None
  BY Constants
<1>1. CASE Start(w)
  <2>1. /\ Go(w, "ensure") /\ stage[w] = "new" /\ branch' = branch /\ past' = {}
        /\ UNCHANGED <<head, mine, seen>>
    BY <1>1 DEF Start
  <2>2. "ensure" \in Working /\ "ensure" \notin Waiting \cup Answered
    BY DEF Working, Waiting, Answered
  <2> QED
    BY <2>1, <2>2, QuietR
<1>2. CASE EnsureBranch(w)
  <2>1. /\ stage[w] = "ensure" /\ UNCHANGED repo /\ UNCHANGED <<head, mine, seen>>
        /\ Go(w, "existing") \/ Go(w, "create")
    BY <1>2 DEF EnsureBranch
  <2>2. /\ {"ensure", "existing", "create"} \subseteq Working
        /\ {"ensure", "existing", "create"} \subseteq Early
        /\ \A s \in {"existing", "create"} : s \notin Waiting \cup Answered
    BY DEF Working, Early, Waiting, Answered
  <2>3. UNCHANGED <<branch, past>>
    BY <2>1 DEF repo
  <2> QED
    BY <2>1, <2>2, <2>3, QuietR
<1>3. CASE CreateBranch(w)
  <2>1. stage[w] = "create" /\ UNCHANGED <<head, mine, seen>>
    BY <1>3 DEF CreateBranch
  <2>2. CASE exists
    <3>1. Go(w, "failed") /\ UNCHANGED <<branch, past>>
      BY <1>3, <2>2 DEF CreateBranch, repo
    <3>2. "create" \in Working /\ "failed" \notin Early
      BY DEF Working, Early
    <3> QED
      BY <2>1, <3>1, <3>2, StageNames, StageSets, QuietR
  <2>3. CASE ~exists
    <3>1. branch' = <<>> /\ past' = past \cup {branch} /\ Go(w, "existing") /\ branch = <<>>
      BY <1>3, <2>3 DEF CreateBranch, MoveTo, CInv, NoBranch
    <3> QED
      BY <2>1, <3>1, CreateR
  <2> QED
    BY <2>2, <2>3
<1>4. CASE ReadExisting(w)
  <2>1. stage[w] = "existing" /\ UNCHANGED repo /\ UNCHANGED <<head, mine, seen>>
    BY <1>4 DEF ReadExisting
  <2>2. UNCHANGED <<branch, past>>
    BY <2>1 DEF repo
  <2>3. stage[w] \in Working /\ stage[w] \in Before /\ stage[w] \in Early
    BY <2>1 DEF Working, Before, Early
  <2>4. PICK value \in Readable(PathOf[w]) :
          \/ value = None /\ Go(w, "head")
          \/ value = PayloadOf[w] /\ Go(w, "false")
          \/ Go(w, "failed")
    BY <1>4 DEF ReadExisting
  <2>5. CASE value = None /\ Go(w, "head")
    <3>1. ASSUME NEW x \in Writer, stage[x] \in Answered, PathOf[x] = PathOf[w]
          PROVE  FALSE
      <4>1. \A h \in past \cup {branch} : h \in Commit /\ Recorded(h, PathOf[w])
        BY <2>3, <3>1 DEF Kept, Closed, CInv, TypeOK
      <4>2. \A h \in past \cup {branch} : Lookup(h, PathOf[w]) # None
        BY <4>1, LookupSome
      <4>3. ~exists
        BY <2>5, <4>2 DEF Readable
      <4>4. branch = <<>>
        BY <4>3 DEF CInv, NoBranch
      <4> QED
        BY <4>1, <4>4, EmptyCommit
    <3>2. "head" \in Working /\ "head" \notin Early \cup Waiting \cup Answered
      BY DEF Working, Early, Waiting, Answered
    <3> QED
      BY <2>1, <2>2, <2>3, <2>5, <3>1, <3>2, QuietR
  <2>6. CASE value = PayloadOf[w] /\ Go(w, "false")
    <3>1. Recorded(branch, PathOf[w]) /\ Held(w, PayloadOf[w])
      BY <2>3, <2>6, HeldAt, Constants
    <3>2. Newest(w)
      BY <2>3 DEF CInv, NotYet, By, Newest
    <3>3. "false" \in Ended /\ "false" \notin Early \cup Waiting \cup Working
      BY DEF Ended, Early, Waiting, Working
    <3> QED
      BY <2>1, <2>2, <2>3, <2>6, <3>1, <3>2, <3>3, QuietR
  <2>7. CASE Go(w, "failed")
    <3>1. "failed" \notin Early
      BY DEF Early
    <3> QED
      BY <2>1, <2>2, <2>3, <2>7, <3>1, StageNames, StageSets, QuietR
  <2> QED
    BY <2>4, <2>5, <2>6, <2>7
<1>5. CASE ReadHead(w)
  <2>1. stage[w] = "head" /\ UNCHANGED repo /\ UNCHANGED <<mine, seen>>
    BY <1>5 DEF ReadHead
  <2>2. \/ /\ Go(w, "patch") /\ head'[w] = branch
           /\ \A u \in Writer : u # w => head'[u] = head[u]
        \/ Go(w, "failed") /\ UNCHANGED head
    BY <1>5 DEF ReadHead, CInv, TypeOK
  <2>3. /\ "head" \in Working
        /\ \A s \in {"patch", "failed"} : s \notin Early \cup Waiting \cup Answered
    BY DEF Working, Early, Waiting, Answered
  <2>4. UNCHANGED <<branch, past>>
    BY <2>1 DEF repo
  <2> QED
    BY <2>1, <2>2, <2>3, <2>4, StageSets, QuietR
<1>6. CASE (Patch(w) \/ PatchFails(w)) /\ ~UNCHANGED repo
  <2>1. /\ stage[w] = "patch" /\ MayMove(w) /\ MoveTo(CommitOf(w)) /\ Go(w, "before")
        /\ UNCHANGED <<head, seen>>
        /\ \A x \in Writer : x # w => mine'[x] = mine[x]
    BY <1>6 DEF Patch, PatchFails, Await, CInv, TypeOK
  <2> QED
    BY <2>1, LandR
<1>7. CASE (Patch(w) \/ PatchFails(w)) /\ UNCHANGED repo
  <2>1. stage[w] = "patch" /\ Go(w, "before") /\ UNCHANGED <<head, seen>> /\ UNCHANGED <<branch, past>>
    BY <1>7 DEF Patch, PatchFails, Await, repo
  <2>2. CASE PatchFails(w)
    <3>1. mine'[w] = FALSE /\ \A x \in Writer : x # w => mine'[x] = mine[x]
      BY <2>2 DEF PatchFails, Await, CInv, TypeOK
    <3>2. "before" \notin Early \cup Answered
      BY DEF Early, Answered
    <3> QED
      BY <2>1, <3>1, <3>2, StageSets, QuietR
  <2>3. CASE Patch(w)
    <3>1. /\ MayMove(w) /\ MoveTo(CommitOf(w))
          /\ \A x \in Writer : x # w => mine'[x] = mine[x]
      BY <2>3 DEF Patch, Await, CInv, TypeOK
    <3> QED
      BY <2>1, <3>1, LandR
  <2> QED
    BY <1>7, <2>2, <2>3
<1>8. CASE CheckBefore(w)
  <2>1. /\ stage[w] = "before" /\ UNCHANGED repo /\ UNCHANGED <<head, mine, seen>>
        /\ Go(w, "look") \/ Go(w, "failed")
    BY <1>8 DEF CheckBefore
  <2>2. /\ "before" \in Working /\ "before" \in Waiting
        /\ \A s \in {"look", "failed"} : s \notin Early \cup Answered
    BY DEF Working, Waiting, Early, Answered
  <2>3. UNCHANGED <<branch, past>>
    BY <2>1 DEF repo
  <2> QED
    BY <2>1, <2>2, <2>3, StageSets, QuietR
<1>9. CASE Look(w)
  <2>1. /\ stage[w] = "look" /\ UNCHANGED repo /\ UNCHANGED <<head, mine>> /\ Go(w, "after")
        /\ \A u \in Writer : u # w => seen'[u] = seen[u]
        /\ seen'[w] \in Readable(PathOf[w])
    BY <1>9 DEF Look, CInv, TypeOK
  <2>2. /\ "look" \in Working /\ "look" \in Waiting
        /\ "after" \notin Early \cup Answered
    BY DEF Working, Waiting, Early, Answered
  <2>3. UNCHANGED <<branch, past>>
    BY <2>1 DEF repo
  <2>4. \A v \in Payload : seen'[w] = v => Held(w, v)
    BY <1>0, <2>1, <2>2, HeldAt
  <2> QED
    BY <2>1, <2>2, <2>3, <2>4, StageSets, QuietR
<1>10. CASE CheckAfter(w)
  <2>1. /\ stage[w] = "after" /\ UNCHANGED repo /\ UNCHANGED <<head, mine, seen>>
        /\ Go(w, Outcome(w))
    BY <1>10 DEF CheckAfter
  <2>2. /\ "after" \in Working /\ "after" \in Waiting
        /\ \A s \in {"before", "failed"} : s \notin Early \cup Answered
        /\ \A s \in {"true", "false"} : s \notin Early \cup Working \cup Waiting
    BY DEF Working, Waiting, Early, Answered
  <2>3. UNCHANGED <<branch, past>>
    BY <2>1 DEF repo
  <2>4. \/ Outcome(w) \in {"before", "failed"}
        \/ seen[w] = PayloadOf[w] /\ Outcome(w) = "true" /\ mine[w]
        \/ seen[w] = PayloadOf[w] /\ Outcome(w) = "false"
    BY DEF Outcome
  <2>5. CASE Outcome(w) \in {"before", "failed"}
    BY <2>1, <2>2, <2>3, <2>5, StageSets, QuietR
  <2>6. CASE seen[w] = PayloadOf[w] /\ ((Outcome(w) = "true" /\ mine[w]) \/ Outcome(w) = "false")
    <3>1. Held(w, PayloadOf[w])
      BY <2>1, <2>6, Constants DEF Kept, Seen
    <3>2. Recorded(branch, PathOf[w])
      BY <3>1 DEF Held, Recorded
    <3>3. Newest(w)
      BY <2>1, <2>2 DEF CInv, Waits
    <3> QED
      BY <2>1, <2>2, <2>3, <2>6, <3>1, <3>2, <3>3, StageSets, QuietR
  <2> QED
    BY <2>4, <2>5, <2>6
<1> QED
  BY <1>1, <1>2, <1>3, <1>4, <1>5, <1>6, <1>7, <1>8, <1>9, <1>10 DEF Put

LEMMA StepR ==
  ASSUME CInv, RInv, [Next]_vars
  PROVE  RInv'
<1> SUFFICES ASSUME rewrites' = 0 PROVE Kept'
  BY DEF RInv
<1>1. rewrites = 0 /\ ~Rewrite
  <2>1. rewrites \in Nat
    BY LimitAssumption DEF CInv, TypeOK
  <2>2. rewrites' = rewrites \/ rewrites' = rewrites + 1
    BY DEF Next, Put, Start, EnsureBranch, CreateBranch, ReadExisting, ReadHead, Patch, PatchFails,
           CheckBefore, Look, CheckAfter, Fail, Abandon, Arrive, ForeignRecord, Rewrite, repo, vars
  <2> QED
    BY <2>1, <2>2 DEF Rewrite
<1>2. Kept
  BY <1>1 DEF RInv
<1>3. ASSUME NEW w \in Writer, Put(w) PROVE Kept'
  BY <1>2, <1>3, PutR
<1>4. ASSUME NEW w \in Writer, Fail(w) \/ Abandon(w) PROVE Kept'
  <2>1. UNCHANGED <<branch, past, head, mine, seen>>
    BY <1>4 DEF Fail, Abandon, repo
  <2>2. \/ stage[w] \in Working /\ Go(w, "failed")
        \/ stage[w] = "patch" /\ Go(w, "adrift")
    BY <1>4 DEF Fail, Abandon
  <2>3. /\ \A s \in {"failed", "adrift"} : s \notin Early \cup Waiting \cup Answered \cup Working
        /\ \A s \in {"failed", "adrift"} : s \in Ended
        /\ "patch" \in Working
    BY DEF Early, Waiting, Answered, Working, Ended
  <2> QED
    BY <1>2, <2>1, <2>2, <2>3, QuietR
<1>5. ASSUME NEW w \in Writer, Arrive(w) PROVE Kept'
  <2>1. /\ stage[w] = "adrift" /\ MayMove(w) /\ MoveTo(CommitOf(w)) /\ Go(w, "failed")
        /\ UNCHANGED <<head, mine, seen>>
    BY <1>5 DEF Arrive
  <2> QED
    BY <1>2, <2>1, LandR
<1>6. ASSUME NEW p \in ForeignPath, ForeignRecord(p) PROVE Kept'
  <2> DEFINE e == [path |-> p, payload |-> Foreign, by |-> None]
  <2>1. e \in Entry /\ e.by = None /\ e.path = p /\ \A x \in Writer : PathOf[x] # p
    BY Constants DEF Entry, AnyPath
  <2>2. /\ branch' = Append(branch, e) /\ past' = past \cup {branch}
        /\ UNCHANGED <<head, mine, seen, stage>>
    BY <1>6 DEF ForeignRecord, MoveTo, job
  <2> HIDE DEF e
  <2> QED
    BY <1>2, <2>1, <2>2, GrowR
<1>7. CASE UNCHANGED vars
  <2>1. UNCHANGED <<branch, past, head, mine, seen, stage>>
    BY <1>7 DEF vars, repo, job
  <2> QED
    BY <1>2, <2>1 DEF Kept, Grows, Authors, Closed, Moved, Since, Seen, Held, Newest, By, Recorded, Extends, RecordOf
<1> QED
  BY <1>1, <1>3, <1>4, <1>5, <1>6, <1>7 DEF Next

(* A job's own commit, when no other followed at its path, is what the     *)
(* path says.                                                              *)
LEMMA OwnIsThere ==
  ASSUME CInv, Kept, NEW w \in Writer, By(branch, w), Newest(w)
  PROVE  Records[PathOf[w]] = PayloadOf[w]
<1>1. PICK i \in 1..Len(branch) : branch[i].by = w
  BY DEF By
<1>2. branch[i] = RecordOf(w)
  BY <1>1, Constants DEF Kept, Authors
<1>3. branch[i].path = PathOf[w] /\ branch[i].payload = PayloadOf[w]
  BY <1>2 DEF RecordOf
<1>4. \A j \in 1..Len(branch) : j > i => branch[j].path # branch[i].path
  BY <1>1, <1>3 DEF Newest
<1>5. branch \in Commit
  BY DEF CInv, TypeOK
<1>6. Lookup(branch, PathOf[w]) = PayloadOf[w]
  BY <1>3, <1>4, <1>5, LookupIs
<1>7. exists
  BY <1>1 DEF CInv, NoBranch
<1> QED
  BY <1>6, <1>7, Constants DEF Records

LEMMA ReturnedFromInv == CInv /\ RInv => Returned
<1> SUFFICES ASSUME CInv, Kept, NEW w \in Writer
             PROVE  /\ stage[w] = "true" => Records[PathOf[w]] = PayloadOf[w]
                    /\ stage[w] = "false" =>
                         \/ Records[PathOf[w]] = PayloadOf[w]
                         \/ \E y, u \in Writer : Overtaken(w, y, u)
  BY DEF RInv, Returned
<1>1. CASE stage[w] = "true"
  <2>1. By(branch, w) /\ Newest(w)
    BY <1>1 DEF Kept, Seen, Moved, Closed, Answered
  <2> QED
    BY <1>1, <2>1, OwnIsThere
<1>2. CASE stage[w] = "false" /\ By(branch, w)
  <2>1. Newest(w)
    BY <1>2 DEF Kept, Closed, Answered
  <2> QED
    BY <1>2, <2>1, OwnIsThere
<1>3. CASE stage[w] = "false" /\ ~By(branch, w)
  <2> DEFINE p == PathOf[w]
  <2>0. branch \in Commit /\ p \in AnyPath /\ p \notin ForeignPath
    BY Constants DEF CInv, TypeOK
  <2>1. PICK i \in 1..Len(branch) :
          /\ branch[i].path = p /\ branch[i].payload = PayloadOf[w]
          /\ \A j \in 1..Len(branch) :
               i < j /\ branch[j].path = p /\ branch[j].by # w => stage[branch[j].by] = "failed"
    BY <1>3 DEF Kept, Seen, Held
  <2>2. Recorded(branch, p)
    BY <2>1 DEF Recorded
  <2>3. PICK k \in 1..Len(branch) : /\ branch[k].path = p /\ branch[k].payload = Lookup(branch, p)
                                    /\ \A j \in 1..Len(branch) : j > k => branch[j].path # p
    BY <2>0, <2>2, LookupLast
  <2>4. Records[p] = branch[k].payload
    <3>1. exists
      BY <2>1 DEF CInv, NoBranch
    <3> QED
      BY <2>0, <2>3, <3>1 DEF Records
  <2>5. CASE k = i
    BY <2>1, <2>4, <2>5, <1>3
  <2>6. CASE k # i
    <3>1. i < k
      BY <2>0, <2>1, <2>3, <2>6 DEF Commit
    <3> DEFINE y == branch[i].by
               u == branch[k].by
    <3>2. /\ y \in Writer /\ branch[i] = RecordOf(y)
          /\ u \in Writer /\ branch[k] = RecordOf(u)
      BY <2>0, <2>1, <2>3 DEF Kept, Authors
    <3>3. By(branch, y) /\ By(branch, u)
      BY DEF By
    <3>4. stage[u] = "failed"
      BY <1>3, <2>1, <2>3, <3>1, <3>3
    <3>5. PathOf[y] = p /\ PayloadOf[y] = PayloadOf[w] /\ PathOf[u] = p /\ PayloadOf[u] = branch[k].payload
      BY <2>1, <2>3, <3>2 DEF RecordOf
    <3>6. ~Newest(y)
      BY <2>3, <3>1, <3>5 DEF Newest
    <3>7. stage[y] = "failed"
      <4>1. stage[y] \notin Before
        BY <3>2, <3>3 DEF CInv, NotYet
      <4>2. stage[y] \notin Waiting
        BY <3>2, <3>6 DEF CInv, Waits
      <4>3. stage[y] \notin Answered
        BY <3>2, <3>6 DEF Kept, Closed
      <4>4. stage[y] \in Working \cup Ended
        BY <3>2 DEF CInv, TypeOK
      <4> QED
        BY <4>1, <4>2, <4>3, <4>4, StageCover
    <3>8. Overtaken(w, y, u)
      BY <2>4, <3>4, <3>5, <3>7 DEF Overtaken
    <3> QED
      BY <1>3, <3>2, <3>8
  <2> QED
    BY <2>5, <2>6
<1> QED
  BY <1>1, <1>2, <1>3

(* What put_record() answers is so and stays so, for any number of jobs,   *)
(* records and writes of cancelled jobs, as long as nobody rewrites the    *)
(* branch; the one exception Returned names is the only one.               *)
THEOREM ReturnedCorrect == Spec => []Returned
<1>1. Init => CInv /\ RInv
  BY InitC, InitR DEF RInv
<1>2. (CInv /\ RInv) /\ [Next]_vars => (CInv /\ RInv)'
  BY StepC, StepR
<1> QED
  BY <1>1, <1>2, ReturnedFromInv, PTL DEF Spec

=============================================================================
