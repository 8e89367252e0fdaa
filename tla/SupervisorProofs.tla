-------------------------- MODULE SupervisorProofs --------------------------
(***************************************************************************)
(* TypeOK and VersionedAtomic hold of Spec for every value of the          *)
(* constants.  The argument for VersionedAtomic is the classical one for a *)
(* double collect: a version only grows, and two values with the same      *)
(* version are the same; so if the version read after the instant mid is   *)
(* the one read before, the value at mid is the value that was read.       *)
(*                                                                         *)
(* The other evidence has no version.  SnapshotAtomic and MergeJudged hold *)
(* if no change restores what a read has seen: then the authorizations and *)
(* comments grow, the runs, states and heads move one way, and the same    *)
(* argument goes through kind by kind.  CollisionFree needs also that one  *)
(* coordinator runs at a time, FreshAfterReady that and a draft flag       *)
(* nobody else touches.                                                    *)
(***************************************************************************)
EXTENDS Supervisor, FiniteSetTheorems, TLAPS

\* e is d or a later default branch; k is i or a later edit of it.
LaterDefault(d, e) == d.sha <= e.sha /\ (d.sha = e.sha => d = e)
LaterIssue(i, k)   == i.updated <= k.updated /\ (i.updated = k.updated => i = k)

\* The repository never goes back to an old version.
WorldGrows ==
  /\ LaterDefault(default, default')
  /\ \A i \in Issues : LaterIssue(issue[i], issue'[i])

WorldStep ==
  \/ RepositoryNext
  \/ UNCHANGED world
  \/ \E p \in PRs : Ready(p) \/ \E h \in Heads : MergeHead(p, h)

------------------------------------------------------------------------------
\* A default branch, or an Issue, is never earlier than itself, and "later"
\* is transitive.
LEMMA LaterOrder ==
  /\ \A d \in Default : LaterDefault(d, d)
  /\ \A i \in Issue : LaterIssue(i, i)
  /\ \A d, e, f \in Default : LaterDefault(d, e) /\ LaterDefault(e, f) => LaterDefault(d, f)
  /\ \A i, k, l \in Issue : LaterIssue(i, k) /\ LaterIssue(k, l) => LaterIssue(i, l)
  BY DEF LaterDefault, LaterIssue, Default, Issue

\* The Ready mutation keeps types and versions.
LEMMA ReadyStep ==
  ASSUME RepositoryTypeOK, NEW p \in PRs, Ready(p)
  PROVE  RepositoryTypeOK' /\ WorldGrows
<1>1. pull' \in [PRs -> Pull]
  BY DEF RepositoryTypeOK, Ready, Pull
<1>2. UNCHANGED <<default, issue, authorization, runs, comments, threads, changes>>
  BY DEF Ready
<1>3. WorldGrows
  BY <1>2, LaterOrder DEF WorldGrows, RepositoryTypeOK
<1> QED
  BY <1>1, <1>2, <1>3 DEF RepositoryTypeOK

\* A merge moves the default branch's version and at most one Issue's.
LEMMA MergeStep ==
  ASSUME RepositoryTypeOK, NEW p \in PRs, NEW h \in Heads, MergeHead(p, h)
  PROVE  RepositoryTypeOK' /\ WorldGrows
<1>1. pull' \in [PRs -> Pull]
  <2>1. [pull[p] EXCEPT !.state = "merged"] \in Pull
    BY DEF RepositoryTypeOK, Pull
  <2> QED
    BY <2>1 DEF RepositoryTypeOK, MergeHead
<1>2. default' \in Default /\ default'.sha = default.sha + 1
  <2> DEFINE k == IF ConfigPath \in HeadPaths[h] THEN HeadConfig[h] ELSE default.config
  <2>1. default.sha \in Nat /\ k \in SUBSET ProductChecks /\ default.workflow \in Workflows
    BY ContentAssumption DEF RepositoryTypeOK, Default
  <2>2. default' = [sha |-> default.sha + 1, workflow |-> default.workflow, config |-> k]
    BY DEF MergeHead
  <2> HIDE DEF k
  <2> QED
    BY <2>1, <2>2 DEF RepositoryTypeOK, Default
<1>3. issue' \in [Issues -> Issue] /\ \A i \in Issues : LaterIssue(issue[i], issue'[i])
  <2> SUFFICES ASSUME NEW i \in Issues
               PROVE  issue'[i] \in Issue /\ LaterIssue(issue[i], issue'[i])
    BY DEF MergeHead
  <2>1. issue[i] \in Issue
    BY DEF RepositoryTypeOK
  <2>2. issue'[i] = issue[i] \/ issue'[i] = [open |-> FALSE, allowed |-> issue[i].allowed,
           protected |-> issue[i].protected, updated |-> issue[i].updated + 1]
    BY DEF MergeHead
  <2>3. CASE issue'[i] = issue[i]
    BY <2>1, <2>3, LaterOrder
  <2>4. CASE issue'[i] # issue[i]
    <3>1. issue'[i].updated = issue[i].updated + 1 /\ issue[i].updated \in Nat
      BY <2>1, <2>2, <2>4 DEF Issue
    <3>2. issue'[i] \in Issue
      <4> DEFINE k == [open |-> FALSE, allowed |-> issue[i].allowed,
                       protected |-> issue[i].protected, updated |-> issue[i].updated + 1]
      <4>1. issue'[i] = k
        BY <2>2, <2>4
      <4>2. k \in Issue
        BY <2>1 DEF Issue
      <4> QED
        BY <4>1, <4>2
    <3> QED
      BY <3>1, <3>2 DEF LaterIssue
  <2> QED
    BY <2>3, <2>4
<1>4. UNCHANGED <<authorization, runs, comments, threads, changes>>
  BY DEF MergeHead
<1>5. LaterDefault(default, default')
  BY <1>2 DEF RepositoryTypeOK, Default, LaterDefault
<1> QED
  BY <1>1, <1>2, <1>3, <1>4, <1>5 DEF RepositoryTypeOK, WorldGrows

\* Growth is trivial for a step that keeps the default branch and the Issues.
LEMMA NoGrowth ==
  ASSUME RepositoryTypeOK, UNCHANGED <<default, issue>>
  PROVE  WorldGrows
  BY LaterOrder DEF WorldGrows, RepositoryTypeOK

\* An edit of a Pull Request touches no version.
LEMMA EditPullStep ==
  ASSUME RepositoryTypeOK, NEW p \in PRs, NEW new \in Pull, EditPull(p, new),
         runs' \in [PRs -> [Heads -> [Checks -> Run]]], changes' \in Nat
  PROVE  RepositoryTypeOK' /\ WorldGrows
<1>1. pull' \in [PRs -> Pull]
  BY DEF RepositoryTypeOK, EditPull
<1>2. UNCHANGED <<default, issue, authorization, comments, threads>>
  BY DEF EditPull
<1> QED
  BY <1>1, <1>2, NoGrowth DEF RepositoryTypeOK

\* What people do to a Pull Request touches no version.
LEMMA ChangePullStep ==
  ASSUME RepositoryTypeOK, NEW p \in PRs, ChangePull(p)
  PROVE  RepositoryTypeOK' /\ WorldGrows
<1>1. changes' \in Nat
  BY DEF RepositoryTypeOK, ChangePull, Push, PushBack, EditBody, ToggleHold,
         ToggleMergeable, ToggleDraft, OpenPull, ClosePull, Change
<1>2. pull[p] \in Pull
  BY DEF RepositoryTypeOK
<1>3. ASSUME NEW h \in Heads, PushTo(p, h)
      PROVE  RepositoryTypeOK' /\ WorldGrows
  <2>1. [pull[p] EXCEPT !.head = h] \in Pull
    BY <1>2 DEF Pull
  <2>2. \A k \in Checks : [state |-> "pending", id |-> runs[p][h][k].id + 1] \in Run
    BY DEF RepositoryTypeOK, Run
  <2>3. runs' \in [PRs -> [Heads -> [Checks -> Run]]]
    BY <1>3, <2>2 DEF PushTo, RepositoryTypeOK
  <2> QED
    BY <1>1, <1>3, <2>1, <2>3, EditPullStep DEF PushTo
<1>4. ASSUME NEW new \in Pull, EditPull(p, new), UNCHANGED runs
      PROVE  RepositoryTypeOK' /\ WorldGrows
  <2>1. runs' \in [PRs -> [Heads -> [Checks -> Run]]]
    BY <1>4 DEF RepositoryTypeOK
  <2> QED
    BY <1>1, <1>4, <2>1, EditPullStep
<1>5. CASE Push(p) \/ PushBack(p)
  BY <1>3, <1>5 DEF Push, PushBack
<1>6. CASE EditBody(p)
  <2>1. PICK b \in Bodies : EditPull(p, [pull[p] EXCEPT !.body = b])
    BY <1>6 DEF EditBody
  <2>2. [pull[p] EXCEPT !.body = b] \in Pull
    BY <1>2 DEF Pull
  <2> QED
    BY <1>4, <1>6, <2>1, <2>2 DEF EditBody
<1>7. CASE ToggleHold(p)
  <2>1. [pull[p] EXCEPT !.hold = ~@] \in Pull
    BY <1>2 DEF Pull
  <2> QED
    BY <1>4, <1>7, <2>1 DEF ToggleHold
<1>8. CASE ToggleMergeable(p)
  <2>1. [pull[p] EXCEPT !.mergeable = ~@] \in Pull
    BY <1>2 DEF Pull
  <2> QED
    BY <1>4, <1>8, <2>1 DEF ToggleMergeable
<1>9. CASE ToggleDraft(p)
  <2>1. [pull[p] EXCEPT !.draft = ~@] \in Pull
    BY <1>2 DEF Pull
  <2> QED
    BY <1>4, <1>9, <2>1 DEF ToggleDraft
<1>10. CASE OpenPull(p)
  <2>1. [pull[p] EXCEPT !.state = "open"] \in Pull
    BY <1>2 DEF Pull
  <2> QED
    BY <1>4, <1>10, <2>1 DEF OpenPull
<1>11. CASE ClosePull(p)
  <2>1. [pull[p] EXCEPT !.state = "closed"] \in Pull
    BY <1>2 DEF Pull
  <2> QED
    BY <1>4, <1>11, <2>1 DEF ClosePull
<1> QED
  BY <1>5, <1>6, <1>7, <1>8, <1>9, <1>10, <1>11 DEF ChangePull

\* What people and workflows do to runs, comments and threads touches none.
LEMMA ChangeEvidenceStep ==
  ASSUME RepositoryTypeOK, NEW p \in PRs, ChangeEvidence(p)
  PROVE  RepositoryTypeOK' /\ WorldGrows
<1>1. changes \in Nat /\ changes' \in Nat
  BY DEF RepositoryTypeOK, ChangeEvidence, CompleteRun, Rerun, PostReview, RetractReview,
         OpenThread, ResolveThread, ReopenThread, Change
<1>2. ASSUME NEW h \in Heads, NEW k \in Checks, NEW S,
             NEW s \in {"pending", "success", "neutral", "failure"}, SetRun(p, h, k, S, s)
      PROVE  RepositoryTypeOK' /\ WorldGrows
  <2>0. runs[p][h][k] \in Run
    BY DEF RepositoryTypeOK
  <2>1. [runs[p][h][k] EXCEPT !.state = s] \in Run
    BY <2>0 DEF Run
  <2>2. runs' \in [PRs -> [Heads -> [Checks -> Run]]]
    <3>1. [runs[p][h] EXCEPT ![k].state = s] \in [Checks -> Run]
      BY <2>1 DEF RepositoryTypeOK
    <3>2. [runs[p] EXCEPT ![h][k].state = s] \in [Heads -> [Checks -> Run]]
      BY <3>1 DEF RepositoryTypeOK
    <3> QED
      BY <1>2, <3>2 DEF RepositoryTypeOK, SetRun
  <2> QED
    BY <1>1, <1>2, <2>2, NoGrowth DEF RepositoryTypeOK, SetRun
<1>3. ASSUME NEW cs \in SUBSET Comment, SetComments(p, cs)
      PROVE  RepositoryTypeOK' /\ WorldGrows
  <2>1. comments' \in [PRs -> SUBSET Comment]
    BY <1>3 DEF RepositoryTypeOK, SetComments
  <2> QED
    BY <1>1, <1>3, <2>1, NoGrowth DEF RepositoryTypeOK, SetComments
<1>4. ASSUME NEW from, NEW to \in {"open", "resolved"}, SetThread(p, from, to)
      PROVE  RepositoryTypeOK' /\ WorldGrows
  <2>1. threads' \in [PRs -> [Threads -> {"none", "open", "resolved"}]]
    BY <1>4 DEF RepositoryTypeOK, SetThread
  <2> QED
    BY <1>1, <1>4, <2>1, NoGrowth DEF RepositoryTypeOK, SetThread
<1>5. CASE CompleteRun(p)
  BY <1>2, <1>5 DEF CompleteRun
<1>6. CASE Rerun(p)
  <2>1. pull[p].head \in Heads
    BY DEF RepositoryTypeOK, Pull
  <2> QED
    BY <1>2, <1>6, <2>1 DEF Rerun
<1>7. CASE PostReview(p)
  <2>1. PICK m \in MarkSets, b \in BOOLEAN : SetComments(p, comments[p] \union
          {[id |-> changes + 1, head |-> pull[p].head, marks |-> m, substantial |-> b]})
    BY <1>7 DEF PostReview
  <2>2. m \in SUBSET Marks /\ pull[p].head \in Heads /\ comments[p] \in SUBSET Comment
    BY ContentAssumption DEF RepositoryTypeOK, Pull
  <2>3. [id |-> changes + 1, head |-> pull[p].head, marks |-> m, substantial |-> b] \in Comment
    BY <1>1, <2>2 DEF Comment
  <2> QED
    BY <1>3, <2>1, <2>2, <2>3
<1>8. CASE RetractReview(p)
  <2>1. \A x : comments[p] \ {x} \in SUBSET Comment
    BY DEF RepositoryTypeOK
  <2> QED
    BY <1>3, <1>8, <2>1 DEF RetractReview
<1>9. CASE OpenThread(p) \/ ResolveThread(p) \/ ReopenThread(p)
  BY <1>4, <1>9 DEF OpenThread, ResolveThread, ReopenThread
<1> QED
  BY <1>5, <1>6, <1>7, <1>8, <1>9 DEF ChangeEvidence

\* Every edit of an Issue moves its version.
LEMMA ChangeIssueStep ==
  ASSUME RepositoryTypeOK, NEW i \in Issues, ChangeIssue(i)
  PROVE  RepositoryTypeOK' /\ WorldGrows
<1>1. changes \in Nat /\ changes' \in Nat
  BY DEF RepositoryTypeOK, ChangeIssue, EditIssue, Authorize, Withdraw, Change
<1>2. CASE EditIssue(i)
  <2>1. PICK s \in Scopes, o \in BOOLEAN :
          issue' = [issue EXCEPT ![i] = [open |-> o, allowed |-> s[1],
                      protected |-> s[2], updated |-> issue[i].updated + 1]]
    BY <1>2 DEF EditIssue
  <2> DEFINE k == [open |-> o, allowed |-> s[1], protected |-> s[2],
                   updated |-> issue[i].updated + 1]
  <2>2. issue[i] \in Issue /\ issue[i].updated \in Nat
    BY DEF RepositoryTypeOK, Issue
  <2>3. s[1] \in SUBSET Paths /\ s[2] \in SUBSET Paths
    BY ContentAssumption
  <2>4. k \in Issue /\ k.updated = issue[i].updated + 1
    BY <2>2, <2>3 DEF Issue
  <2> HIDE DEF k
  <2>5. LaterIssue(issue[i], k)
    BY <2>2, <2>4 DEF LaterIssue
  <2>6. issue' = [issue EXCEPT ![i] = k]
    BY <2>1 DEF k
  <2>7. UNCHANGED <<default, pull, authorization, runs, comments, threads>>
    BY <1>2 DEF EditIssue
  <2>8. issue' \in [Issues -> Issue] /\ \A l \in Issues : LaterIssue(issue[l], issue'[l])
    BY <2>4, <2>5, <2>6, LaterOrder DEF RepositoryTypeOK
  <2>9. LaterDefault(default, default')
    BY <2>7, LaterOrder DEF RepositoryTypeOK
  <2> QED
    BY <1>1, <2>7, <2>8, <2>9 DEF RepositoryTypeOK, WorldGrows
<1>3. ASSUME NEW a \in SUBSET Authorization, SetAuthorization(i, a)
      PROVE  RepositoryTypeOK' /\ WorldGrows
  <2>1. authorization' \in [Issues -> SUBSET Authorization]
    BY <1>3 DEF RepositoryTypeOK, SetAuthorization
  <2> QED
    BY <1>1, <1>3, <2>1, NoGrowth DEF RepositoryTypeOK, SetAuthorization
<1>4. CASE Authorize(i)
  <2>1. \A s \in SUBSET Paths :
          authorization[i] \union {[id |-> changes + 1, paths |-> s]} \in SUBSET Authorization
    BY <1>1 DEF RepositoryTypeOK, Authorization
  <2> QED
    BY <1>3, <1>4, <2>1 DEF Authorize
<1>5. CASE Withdraw(i)
  <2>1. \A x : authorization[i] \ {x} \in SUBSET Authorization
    BY DEF RepositoryTypeOK
  <2> QED
    BY <1>3, <1>5, <2>1 DEF Withdraw
<1> QED
  BY <1>2, <1>4, <1>5 DEF ChangeIssue

\* A push to the default branch moves its version.
LEMMA MoveDefaultStep ==
  ASSUME RepositoryTypeOK, MoveDefault
  PROVE  RepositoryTypeOK' /\ WorldGrows
<1>1. default' \in Default /\ default'.sha = default.sha + 1 /\ default.sha \in Nat
  BY DEF RepositoryTypeOK, MoveDefault, Default
<1>2. changes' \in Nat /\ UNCHANGED <<pull, issue, authorization, runs, comments, threads>>
  BY DEF RepositoryTypeOK, MoveDefault, Change
<1>3. \A i \in Issues : LaterIssue(issue[i], issue'[i])
  BY <1>2, LaterOrder DEF RepositoryTypeOK
<1>4. LaterDefault(default, default')
  BY <1>1 DEF LaterDefault
<1> QED
  BY <1>1, <1>2, <1>3, <1>4 DEF RepositoryTypeOK, WorldGrows

\* Every step keeps the repository well typed and its versions growing.
LEMMA RepositoryStep ==
  ASSUME RepositoryTypeOK, WorldStep
  PROVE  RepositoryTypeOK' /\ WorldGrows
<1>1. CASE RepositoryNext
  BY <1>1, MoveDefaultStep, ChangePullStep, ChangeEvidenceStep, ChangeIssueStep
     DEF RepositoryNext
<1>2. CASE UNCHANGED world
  BY <1>2, NoGrowth DEF world, RepositoryTypeOK
<1>3. CASE \E p \in PRs : Ready(p) \/ \E h \in Heads : MergeHead(p, h)
  BY <1>3, ReadyStep, MergeStep
<1> QED
  BY <1>1, <1>2, <1>3 DEF WorldStep

------------------------------------------------------------------------------
(* The inductive invariant: what a coordinator holds is what the repository *)
(* held when it was read, as far as versions tell.                          *)

HasDefault(j) == j.pass = 2 \/ j.stage \notin {"idle", "default"}
HasPull(j)    == j.pass = 2 \/ j.stage \notin {"idle", "default", "pull"}
HasIssue(j)   == j.pass = 2 \/ j.stage \notin {"idle", "default", "pull", "issue"}

\* What was read is of its type and not later than what the repository holds;
\* decisions are made in the second pass.
Captured(j) ==
  /\ j.stage # "idle" => j.pr \in PRs
  /\ HasDefault(j) => j.default \in Default /\ LaterDefault(j.default, default)
  /\ HasPull(j) => j.head \in Heads /\ j.source \in Issues
  /\ HasIssue(j) => j.issue \in Issue /\ LaterIssue(j.issue, issue[j.source])
  /\ j.stage \in {"ready", "markReady", "merge"} => j.pass = 2

\* The history value lies between what was read and what the repository
\* holds, and once the second pass has read it again it is what was read.
Remembered(j, m) ==
  j.pass = 2 =>
    /\ m \in World
    /\ LaterDefault(j.default, m.default) /\ LaterDefault(m.default, default)
    /\ LaterIssue(j.issue, m.issue) /\ LaterIssue(m.issue, issue[j.source])
    /\ j.stage # "issue" => m.issue = j.issue
    /\ j.stage \notin {"issue", "authorization", "default"} => m.default = j.default

IInv == TypeOK /\ \A c \in Coordinators : Captured(job[c]) /\ Remembered(job[c], mid[c])

\* The invariant says of a decision what VersionedAtomic asks.
THEOREM IInvImpliesVersioned == IInv => VersionedAtomic
  BY DEF IInv, VersionedAtomic, Decided, Captured, Remembered

\* A job is a record whose fields may be replaced one by one.
LEMMA JobFields ==
  ASSUME NEW j \in Job
  PROVE  /\ \A s \in Stages : [j EXCEPT !.stage = s] \in Job
         /\ [j EXCEPT !.pass = 2] \in Job
         /\ \A p \in PRs : [j EXCEPT !.pr = p] \in Job
         /\ \A b \in BOOLEAN : [j EXCEPT !.marked = b] \in Job
         /\ \A d \in Default : [j EXCEPT !.default = d] \in Job
         /\ \A h \in Heads : [j EXCEPT !.head = h] \in Job
         /\ \A b \in Bodies : [j EXCEPT !.body = b] \in Job
         /\ \A i \in Issues : [j EXCEPT !.source = i] \in Job
         /\ \A i \in Issue : [j EXCEPT !.issue = i] \in Job
         /\ \A a \in SUBSET Authorization : [j EXCEPT !.authorization = a] \in Job
         /\ \A f \in SUBSET Paths : [j EXCEPT !.files = f] \in Job
         /\ \A q \in SUBSET PRs : [j EXCEPT !.todo = q] \in Job
         /\ \A r \in SUBSET (Checks \X Run) : [j EXCEPT !.runs = r] \in Job
         /\ \A x \in SUBSET Comment : [j EXCEPT !.comments = x] \in Job
         /\ \A r \in Review : [j EXCEPT !.review = r] \in Job
  BY DEF Job

\* A job that has read nothing yet agrees with any repository.
Fresh(j) ==
  /\ j \in Job /\ j.pass = 1
  /\ j.stage = "idle" \/ (j.stage = "default" /\ j.pr \in PRs)

\* Idle, and every evaluation that begins, is fresh.
LEMMA FreshJobs ==
  /\ Fresh(Idle)
  /\ \A p \in PRs, b \in BOOLEAN : Fresh(Begin(p, b))
<1>1. Fresh(Idle)
  BY DEF Fresh, Idle, Job, Stages, Review
<1>2. ASSUME NEW p \in PRs, NEW b \in BOOLEAN
      PROVE  Fresh(Begin(p, b))
  <2> DEFINE k1 == [Idle EXCEPT !.stage = "default"]
             k2 == [k1 EXCEPT !.pr = p]
  <2>a. Begin(p, b) = [k2 EXCEPT !.marked = b]
    BY DEF Begin
  <2>b. k1 \in Job
    BY <1>1, JobFields DEF Fresh, Stages
  <2> HIDE DEF k1
  <2>c. k2 \in Job
    BY <2>b, JobFields
  <2> HIDE DEF k2
  <2>1. Begin(p, b) \in Job
    BY <2>a, <2>c, JobFields
  <2>2. Begin(p, b).stage = "default" /\ Begin(p, b).pass = 1 /\ Begin(p, b).pr = p
    BY DEF Begin, Idle
  <2> QED
    BY <2>1, <2>2 DEF Fresh
<1> QED
  BY <1>1, <1>2

\* A fresh job claims nothing.
LEMMA FreshAgrees ==
  ASSUME NEW j, Fresh(j)
  PROVE  Captured(j) /\ \A m : Remembered(j, m)
  BY DEF Fresh, Captured, Remembered, HasDefault, HasPull, HasIssue

\* A job that does not move keeps its facts while the repository grows.
LEMMA KeepJob ==
  ASSUME IInv, RepositoryTypeOK', WorldGrows, NEW c \in Coordinators,
         job'[c] = job[c], mid'[c] = mid[c]
  PROVE  Captured(job[c])' /\ Remembered(job[c], mid[c])'
<1>1. Captured(job[c]) /\ Remembered(job[c], mid[c]) /\ RepositoryTypeOK
  BY DEF IInv, TypeOK
<1>2. default \in Default /\ default' \in Default /\ LaterDefault(default, default')
  BY <1>1 DEF RepositoryTypeOK, WorldGrows
<1>3. \A i \in Issues : /\ issue[i] \in Issue /\ issue'[i] \in Issue
                        /\ LaterIssue(issue[i], issue'[i])
  BY <1>1 DEF RepositoryTypeOK, WorldGrows
<1>4. \A d \in Default : LaterDefault(d, default) => LaterDefault(d, default')
  BY <1>2, LaterOrder
<1>5. \A i \in Issues : \A k \in Issue : LaterIssue(k, issue[i]) => LaterIssue(k, issue'[i])
  BY <1>3, LaterOrder
<1>6. \A m \in World : m.default \in Default /\ m.issue \in Issue
  BY DEF World
<1>7. Captured(job[c])'
  BY <1>1, <1>4, <1>5 DEF Captured, HasDefault, HasPull, HasIssue
<1>8. Remembered(job[c], mid[c])'
  BY <1>1, <1>4, <1>5, <1>6 DEF Captured, Remembered, HasPull
<1> QED
  BY <1>7, <1>8

\* Coordinator c begins again, or stops, while the repository does anything.
LEMMA FreshStep ==
  ASSUME IInv, WorldStep, NEW c \in Coordinators, NEW j, Fresh(j),
         job' = [job EXCEPT ![c] = j], mid' = [mid EXCEPT ![c] = None], failures' \in Nat
  PROVE  IInv'
<1>1. RepositoryTypeOK' /\ WorldGrows
  BY RepositoryStep DEF IInv, TypeOK
<1>2. job' \in [Coordinators -> Job] /\ mid' \in [Coordinators -> World \union {None}]
  BY DEF IInv, TypeOK, Fresh
<1>3. \A d \in Coordinators : Captured(job[d])' /\ Remembered(job[d], mid[d])'
  <2> SUFFICES ASSUME NEW d \in Coordinators
               PROVE  Captured(job[d])' /\ Remembered(job[d], mid[d])'
    OBVIOUS
  <2>1. CASE d = c
    <3>1. job'[d] = j
      BY <2>1 DEF IInv, TypeOK
    <3> QED
      BY <3>1 DEF Fresh, Captured, Remembered, HasDefault, HasPull, HasIssue
  <2>2. CASE d # c
    <3>1. job'[d] = job[d] /\ mid'[d] = mid[d]
      BY <2>2 DEF IInv, TypeOK
    <3> QED
      BY <1>1, <3>1, KeepJob
  <2> QED
    BY <2>1, <2>2
<1> QED
  BY <1>1, <1>2, <1>3 DEF IInv, TypeOK

\* Stopping keeps the invariant.
LEMMA StopStep ==
  ASSUME IInv, WorldStep, NEW c \in Coordinators, Stop(c), failures' \in Nat
  PROVE  IInv'
  BY FreshJobs, FreshStep DEF Stop

\* Coordinator c takes job j and history m while the repository rests.
LEMMA MoveStep ==
  ASSUME IInv, UNCHANGED world, NEW c \in Coordinators, NEW j \in Job,
         NEW m \in World \union {None}, Captured(j), Remembered(j, m),
         job' = [job EXCEPT ![c] = j], mid' = [mid EXCEPT ![c] = m], failures' \in Nat
  PROVE  IInv'
<1>1. RepositoryTypeOK' /\ WorldGrows
  BY RepositoryStep DEF IInv, TypeOK, WorldStep
<1>2. job' \in [Coordinators -> Job] /\ mid' \in [Coordinators -> World \union {None}]
  BY DEF IInv, TypeOK
<1>3. \A d \in Coordinators : Captured(job[d])' /\ Remembered(job[d], mid[d])'
  <2> SUFFICES ASSUME NEW d \in Coordinators
               PROVE  Captured(job[d])' /\ Remembered(job[d], mid[d])'
    OBVIOUS
  <2>1. CASE d = c
    <3>1. job'[d] = j /\ mid'[d] = m
      BY <2>1 DEF IInv, TypeOK
    <3>2. UNCHANGED <<default, issue>>
      BY DEF world
    <3> QED
      BY <3>1, <3>2 DEF Captured, Remembered
  <2>2. CASE d # c
    <3>1. job'[d] = job[d] /\ mid'[d] = mid[d]
      BY <2>2 DEF IInv, TypeOK
    <3> QED
      BY <1>1, <3>1, KeepJob
  <2> QED
    BY <2>1, <2>2
<1> QED
  BY <1>1, <1>2, <1>3 DEF IInv, TypeOK

\* A read either stops the coordinator or moves it on to j.
LEMMA GateStep ==
  ASSUME IInv, NEW c \in Coordinators, UNCHANGED <<world, failures>>, NEW j,
         \/ Stop(c)
         \/ /\ j \in Job /\ Captured(j) /\ Remembered(j, mid[c])
            /\ Advance(c, j)
  PROVE  IInv'
<1>1. failures' \in Nat /\ UNCHANGED world /\ WorldStep
  BY DEF IInv, TypeOK, WorldStep
<1>2. CASE Stop(c)
  BY <1>1, <1>2, StopStep
<1>3. CASE j \in Job /\ Captured(j) /\ Remembered(j, mid[c]) /\ Advance(c, j)
  <2>1. mid[c] \in World \union {None} /\ mid' = [mid EXCEPT ![c] = mid[c]]
    BY <1>3 DEF IInv, TypeOK, Advance
  <2>2. job' = [job EXCEPT ![c] = j]
    BY <1>3 DEF Advance
  <2> QED
    BY <1>1, <1>3, <2>1, <2>2, MoveStep
<1> QED
  BY <1>2, <1>3

\* j is job i, possibly at another stage or with other evidence than the
\* versioned one.
SameEvidence(i, j) ==
  /\ j \in Job
  /\ j.pr = i.pr /\ j.pass = i.pass /\ j.default = i.default /\ j.head = i.head
  /\ j.source = i.source /\ j.issue = i.issue

\* Facts about job i are facts about j if j's stage asks for no more.
LEMMA SameEvidenceKept ==
  ASSUME NEW i, NEW j, NEW m, SameEvidence(i, j), Captured(i), Remembered(i, m),
         i.stage # "idle", HasDefault(j) => HasDefault(i), HasPull(j) => HasPull(i),
         HasIssue(j) => HasIssue(i),
         j.stage \in {"ready", "markReady", "merge"} => j.pass = 2,
         i.stage # "issue" \/ j.stage = "issue",
         i.pass = 2 /\ i.stage \in {"issue", "authorization", "default"} =>
           j.stage \in {"issue", "authorization", "default"}
  PROVE  Captured(j) /\ Remembered(j, m)
  BY DEF SameEvidence, Captured, Remembered

\* A change of stage keeps the versioned evidence.
LEMMA Moved ==
  ASSUME NEW i \in Job, NEW s \in Stages
  PROVE  SameEvidence(i, To(i, s)) /\ To(i, s).stage = s
<1>1. To(i, s) \in Job
  BY JobFields DEF To
<1>2. /\ To(i, s).pr = i.pr /\ To(i, s).pass = i.pass /\ To(i, s).default = i.default
      /\ To(i, s).head = i.head /\ To(i, s).source = i.source /\ To(i, s).issue = i.issue
      /\ To(i, s).stage = s
  BY DEF To, Job
<1> QED
  BY <1>1, <1>2 DEF SameEvidence

\* j is i with other evidence of one of the kinds that carry no version.
Unversioned(i, j) ==
  \/ \E q \in SUBSET PRs : j = [i EXCEPT !.todo = q]
  \/ \E a \in SUBSET Authorization : j = [i EXCEPT !.authorization = a]
  \/ \E f \in SUBSET Paths : j = [i EXCEPT !.files = f]
  \/ \E r \in SUBSET (Checks \X Run) : j = [i EXCEPT !.runs = r]
  \/ \E x \in SUBSET Comment : j = [i EXCEPT !.comments = x]

\* So does taking evidence without a version.
LEMMA UnversionedKept ==
  ASSUME NEW i \in Job, NEW j, Unversioned(i, j)
  PROVE  SameEvidence(i, j) /\ j.stage = i.stage
<1>1. j \in Job
  BY JobFields DEF Unversioned
<1>2. /\ j.pr = i.pr /\ j.pass = i.pass /\ j.default = i.default
      /\ j.head = i.head /\ j.source = i.source /\ j.issue = i.issue
      /\ j.stage = i.stage
  BY DEF Unversioned, Job
<1> QED
  BY <1>1, <1>2 DEF SameEvidence

\* A job moved on to stage s, with new evidence that carries no version.
MovedWith(i, j, s) == j = To(i, s) \/ Unversioned(To(i, s), j)

\* So does the one after the other.
LEMMA MovedKept ==
  ASSUME NEW i \in Job, NEW s \in Stages, NEW j, MovedWith(i, j, s)
  PROVE  SameEvidence(i, j) /\ j.stage = s
<1> DEFINE k == To(i, s)
<1>1. SameEvidence(i, k) /\ k.stage = s /\ k \in Job
  BY Moved DEF SameEvidence
<1> HIDE DEF k
<1>2. j = k \/ (SameEvidence(k, j) /\ j.stage = k.stage)
  BY <1>1, UnversionedKept DEF MovedWith, k
<1> QED
  BY <1>1, <1>2 DEF SameEvidence

\* A gated read: the repository rests, and c stops or moves on to j.
Took(c, j) == UNCHANGED <<world, failures>> /\ (Stop(c) \/ Advance(c, j))

\* A read after the versioned evidence of the first pass.
LEMMA PlainRead ==
  ASSUME IInv, NEW c \in Coordinators, NEW j, NEW s \in Stages, Took(c, j),
         SameEvidence(job[c], j) /\ j.stage = s,
         job[c].stage \notin {"idle", "default", "pull", "issue"}
           \/ (job[c].stage = "pull" /\ job[c].pass = 2),
         s \notin {"idle", "pull", "issue"},
         s \in {"ready", "markReady", "merge"} => job[c].pass = 2,
         s = "default" => job[c].pass = 2,
         s \in {"default", "authorization"} => job[c].stage = "authorization",
         job[c].stage = "authorization" /\ job[c].pass = 2 => s = "default"
  PROVE  IInv'
<1> DEFINE i == job[c]
<1>1. Captured(i) /\ Remembered(i, mid[c])
  BY DEF IInv
<1>2. /\ HasDefault(j) => HasDefault(i)
      /\ HasPull(j) => HasPull(i)
      /\ HasIssue(j) => HasIssue(i)
      /\ s \in {"ready", "markReady", "merge"} => j.pass = 2
  BY DEF SameEvidence, HasDefault, HasPull, HasIssue
<1>3. j \in Job /\ Captured(j) /\ Remembered(j, mid[c])
  BY <1>1, <1>2, SameEvidenceKept DEF SameEvidence
<1> QED
  BY <1>3, GateStep DEF Took

\* Every read that only compares or takes evidence without a version.
LEMMA PlainReadStep ==
  ASSUME IInv, NEW c \in Coordinators,
         \/ ReadAuthorization(c) \/ ReadFiles(c) \/ ReadOpenPulls(c) \/ ReadOtherFiles(c)
         \/ CompareWorkflows(c) \/ ReadRuns(c) \/ ReadComments(c) \/ RereadPull(c)
         \/ RecheckHead(c)
  PROVE  IInv'
<1> DEFINE i == job[c]
<1>1. /\ i \in Job /\ i.pass \in {1, 2} /\ Captured(i) /\ Remembered(i, mid[c])
      /\ RepositoryTypeOK
  BY DEF IInv, TypeOK, Job
<1>2. i.stage # "idle" => i.pr \in PRs
  BY <1>1 DEF Captured
<1>3. \A j : \A s \in Stages : MovedWith(i, j, s) => SameEvidence(i, j) /\ j.stage = s
  BY <1>1, MovedKept
<1>4. CASE ReadOpenPulls(c)
  <2> DEFINE j == [To(i, "others") EXCEPT !.todo = OpenOthers(i.pr)]
  <2>1. i.stage = "openPulls" /\ Took(c, j)
    BY <1>4 DEF ReadOpenPulls, Gate, Advance, Took
  <2>2. MovedWith(i, j, "others") /\ "others" \in Stages
    BY DEF OpenOthers, Stages, MovedWith, Unversioned
  <2> HIDE DEF j
  <2> QED
    BY <1>3, <2>1, <2>2, PlainRead
<1>5. CASE ReadOtherFiles(c)
  <2>1. PICK q \in i.todo : Took(c, [i EXCEPT !.todo = i.todo \ {q}])
    BY <1>5 DEF ReadOtherFiles, Gate, Advance, Took
  <2> DEFINE j == [i EXCEPT !.todo = i.todo \ {q}]
  <2>2. i.stage = "others" /\ Took(c, j) /\ "others" \in Stages
    BY <1>5, <2>1 DEF ReadOtherFiles, Stages
  <2>3. i.todo \ {q} \in SUBSET PRs
    BY <1>1 DEF Job
  <2>4. Unversioned(i, j)
    BY <2>3 DEF Unversioned
  <2> HIDE DEF j
  <2>5. SameEvidence(i, j) /\ j.stage = "others"
    BY <1>1, <2>2, <2>4, UnversionedKept
  <2> QED
    BY <2>2, <2>5, PlainRead
<1>6. CASE CompareWorkflows(c)
  <2>1. i.stage = "others" /\ Took(c, To(i, "runs")) /\ "runs" \in Stages
    BY <1>6 DEF CompareWorkflows, Gate, Advance, Took, Stages
  <2>2. MovedWith(i, To(i, "runs"), "runs")
    BY DEF MovedWith
  <2> QED
    BY <1>3, <2>1, <2>2, PlainRead
<1>7. CASE ReadComments(c)
  <2> DEFINE x == comments[i.pr]
             j == [To(i, "threads") EXCEPT !.comments = x]
  <2>1. i.stage = "comments" /\ Took(c, j) /\ "threads" \in Stages
    BY <1>7 DEF ReadComments, Gate, Advance, Took, Stages
  <2>2. x \in SUBSET Comment
    BY <1>1, <1>2, <2>1 DEF RepositoryTypeOK
  <2>3. MovedWith(i, j, "threads")
    BY <2>2 DEF MovedWith, Unversioned
  <2> HIDE DEF j
  <2> QED
    BY <1>3, <2>1, <2>3, PlainRead
<1>8. CASE RecheckHead(c)
  <2>1. i.stage = "ready" /\ Took(c, To(i, "markReady")) /\ "markReady" \in Stages
    BY <1>8 DEF RecheckHead, Gate, Advance, Took, Stages
  <2>2. MovedWith(i, To(i, "markReady"), "markReady")
    BY DEF MovedWith
  <2>3. i.pass = 2
    BY <1>1, <2>1 DEF Captured
  <2> QED
    BY <1>3, <2>1, <2>2, <2>3, PlainRead
<1>9. CASE RereadPull(c)
  <2> DEFINE s == IF pull[i.pr].draft THEN "ready" ELSE "merge"
  <2>1. i.stage = "pull" /\ i.pass = 2 /\ Took(c, To(i, s))
    BY <1>9 DEF RereadPull, At, Gate, Advance, Took
  <2>2. s \in Stages /\ s \in {"ready", "merge"}
    BY DEF Stages
  <2> HIDE DEF s
  <2>3. MovedWith(i, To(i, s), s)
    BY DEF MovedWith
  <2> QED
    BY <1>3, <2>1, <2>2, <2>3, PlainRead
<1>10. CASE ReadAuthorization(c)
  <2> DEFINE a == authorization[i.source]
             j == [To(i, "files") EXCEPT !.authorization = a]
  <2>1. /\ i.stage = "authorization"
        /\ \/ i.pass = 1 /\ Took(c, j)
           \/ i.pass = 2 /\ Took(c, To(i, "default"))
    BY <1>10 DEF ReadAuthorization, At, Gate, Advance, Took
  <2>2. a \in SUBSET Authorization /\ "files" \in Stages /\ "default" \in Stages
    BY <1>1, <2>1 DEF Captured, HasPull, RepositoryTypeOK, Stages
  <2>3. MovedWith(i, j, "files") /\ MovedWith(i, To(i, "default"), "default")
    BY <2>2 DEF MovedWith, Unversioned
  <2> HIDE DEF j
  <2>4. CASE i.pass = 1
    BY <1>3, <2>1, <2>2, <2>3, <2>4, PlainRead
  <2>5. CASE i.pass = 2
    BY <1>3, <2>1, <2>2, <2>3, <2>5, PlainRead
  <2> QED
    BY <2>1, <2>4, <2>5
<1>11. CASE ReadFiles(c)
  <2> DEFINE f == HeadPaths[pull[i.pr].head]
             j == [To(i, "openPulls") EXCEPT !.files = f]
  <2>1. i.stage = "files" /\ (Took(c, j) \/ Took(c, To(i, "openPulls")))
    BY <1>11 DEF ReadFiles, At, Gate, Advance, Took
  <2>2. f \in SUBSET Paths /\ "openPulls" \in Stages
    BY <1>1, <1>2, <2>1, ContentAssumption DEF RepositoryTypeOK, Pull, Stages
  <2>3. MovedWith(i, j, "openPulls") /\ MovedWith(i, To(i, "openPulls"), "openPulls")
    BY <2>2 DEF MovedWith, Unversioned
  <2> HIDE DEF j
  <2> QED
    BY <1>3, <2>1, <2>2, <2>3, PlainRead
<1>12. CASE ReadRuns(c)
  <2> DEFINE r == CheckSnapshot(runs[i.pr], i.head, i.default)
             j == [To(i, "comments") EXCEPT !.runs = r]
  <2>1. i.stage = "runs" /\ (Took(c, j) \/ Took(c, To(i, "comments")))
    BY <1>12 DEF ReadRuns, At, Gate, Advance, Took
  <2>2. i.default \in Default /\ i.head \in Heads /\ i.pr \in PRs
    BY <1>1, <2>1 DEF Captured, HasDefault, HasPull
  <2>3. Required(i.default) \subseteq Checks
    BY <2>2 DEF Required, Checks, Default
  <2>4. r \in SUBSET (Checks \X Run) /\ "comments" \in Stages
    BY <1>1, <2>2, <2>3 DEF CheckSnapshot, RepositoryTypeOK, Stages
  <2>5. MovedWith(i, j, "comments") /\ MovedWith(i, To(i, "comments"), "comments")
    BY <2>4 DEF MovedWith, Unversioned
  <2> HIDE DEF j
  <2> QED
    BY <1>3, <2>1, <2>4, <2>5, PlainRead
<1> QED
  BY <1>4, <1>5, <1>6, <1>7, <1>8, <1>9, <1>10, <1>11, <1>12

\* The first read of a Pull Request's identity.
LEMMA ReadPullStep ==
  ASSUME IInv, NEW c \in Coordinators, ReadPull(c)
  PROVE  IInv'
<1> DEFINE i == job[c]
           r == pull[i.pr]
           k == To(i, "issue")
           j == [k EXCEPT !.head = r.head, !.body = r.body, !.source = BodyIssue[r.body]]
<1>1. /\ i \in Job /\ i.stage = "pull" /\ i.pass = 1 /\ Captured(i) /\ RepositoryTypeOK
      /\ i.pr \in PRs
  BY DEF IInv, TypeOK, ReadPull, At, Captured
<1>2. \/ UNCHANGED <<world, failures>> /\ Stop(c)
      \/ UNCHANGED <<world, failures>> /\ Advance(c, j) /\ BodyIssue[r.body] # None
  BY DEF ReadPull, Gate, Advance
<1>3. r.head \in Heads /\ r.body \in Bodies /\ (BodyIssue[r.body] # None => BodyIssue[r.body] \in Issues)
  BY <1>1, ContentAssumption DEF RepositoryTypeOK, Pull
<1>4. k \in Job /\ k.stage = "issue" /\ k.pass = 1 /\ k.pr \in PRs /\ k.default = i.default
  BY <1>1, Moved DEF Stages, SameEvidence
<1>5. i.default \in Default /\ LaterDefault(i.default, default)
  BY <1>1 DEF Captured, HasDefault
<1> HIDE DEF k, r
<1>6. CASE BodyIssue[r.body] # None
  <2> DEFINE k1 == [k EXCEPT !.head = r.head]
             k2 == [k1 EXCEPT !.body = r.body]
  <2>1. j = [k2 EXCEPT !.source = BodyIssue[r.body]]
    OBVIOUS
  <2> HIDE DEF j
  <2>2. k2 = [k1 EXCEPT !.body = r.body]
    OBVIOUS
  <2> HIDE DEF k2
  <2>3. k1 \in Job
    BY <1>3, <1>4, JobFields
  <2>4. k1.stage = "issue" /\ k1.pass = 1 /\ k1.pr = k.pr /\ k1.default = k.default
        /\ k1.head = r.head
    BY <1>4 DEF Job
  <2> HIDE DEF k1
  <2>5. k2 \in Job
    BY <1>3, <2>2, <2>3, JobFields
  <2>6. k2.stage = "issue" /\ k2.pass = 1 /\ k2.pr = k.pr /\ k2.default = k.default
        /\ k2.head = r.head
    BY <2>2, <2>3, <2>4 DEF Job
  <2>7. j \in Job
    BY <1>3, <1>6, <2>1, <2>5, JobFields
  <2>8. j.stage = "issue" /\ j.pass = 1 /\ j.pr = k.pr /\ j.default = k.default
        /\ j.head = r.head /\ j.source = BodyIssue[r.body]
    BY <2>1, <2>5, <2>6 DEF Job
  <2>9. Captured(j) /\ Remembered(j, mid[c])
    BY <1>3, <1>4, <1>5, <1>6, <2>8 DEF Captured, Remembered, HasDefault, HasPull, HasIssue
  <2> QED
    BY <1>2, <2>7, <2>9, GateStep
<1>7. CASE BodyIssue[r.body] = None
  BY <1>2, <1>7, GateStep
<1> QED
  BY <1>6, <1>7

\* The default branch: the first read captures it, the second compares.
LEMMA ReadDefaultStep ==
  ASSUME IInv, NEW c \in Coordinators, ReadDefault(c)
  PROVE  IInv'
<1> DEFINE i == job[c]
<1>1. i \in Job /\ Captured(i) /\ Remembered(i, mid[c]) /\ RepositoryTypeOK
  BY DEF IInv, TypeOK
<1>2. i.stage = "default" /\ i.pr \in PRs /\ default \in Default
  BY <1>1 DEF ReadDefault, At, Captured, RepositoryTypeOK
<1>3. CASE i.pass = 1
  <2> DEFINE k == To(i, "pull")
             j == [k EXCEPT !.default = default]
  <2>1. UNCHANGED <<world, failures>> /\ (Stop(c) \/ Advance(c, j))
    BY <1>3 DEF ReadDefault, At, Gate, Advance
  <2>2. k \in Job /\ k.stage = "pull" /\ k.pass = 1 /\ k.pr \in PRs
    BY <1>1, <1>2, <1>3, Moved DEF Stages, SameEvidence
  <2> HIDE DEF k
  <2>3. j \in Job
    BY <1>2, <2>2, JobFields
  <2>4. j.stage = "pull" /\ j.pass = 1 /\ j.pr \in PRs /\ j.default = default
    BY <2>2 DEF Job
  <2> HIDE DEF j
  <2>5. Captured(j) /\ Remembered(j, mid[c])
    BY <1>2, <2>4, LaterOrder DEF Captured, Remembered, HasDefault, HasPull, HasIssue
  <2> QED
    BY <2>1, <2>3, <2>5, GateStep
<1>4. CASE i.pass = 2
  <2> DEFINE j == To(i, "files")
  <2>1. /\ UNCHANGED <<world, failures>>
        /\ Stop(c) \/ (Advance(c, j) /\ default.sha = i.default.sha)
    BY <1>4 DEF ReadDefault, At, Gate, Advance
  <2>2. SameEvidence(i, j) /\ j.stage = "files"
    BY <1>1, Moved DEF Stages
  <2>3. CASE default.sha = i.default.sha
    <3> DEFINE m == mid[c]
    <3>1. /\ i.default \in Default /\ m.default \in Default
          /\ LaterDefault(i.default, m.default) /\ LaterDefault(m.default, default)
      BY <1>1, <1>4 DEF Captured, Remembered, HasDefault, World
    <3>2. i.default.sha \in Nat /\ m.default.sha \in Nat /\ default.sha \in Nat
      BY <1>2, <3>1 DEF Default
    <3>3. m.default = i.default
      BY <2>3, <3>1, <3>2 DEF LaterDefault
    <3>4. Captured(j) /\ Remembered(j, m)
      BY <1>1, <1>2, <1>4, <2>2, <3>3
         DEF Captured, Remembered, SameEvidence, HasDefault, HasPull, HasIssue
    <3> QED
      BY <2>1, <2>2, <3>4, GateStep DEF SameEvidence
  <2>4. CASE default.sha # i.default.sha
    BY <2>1, <2>4, GateStep
  <2> QED
    BY <2>3, <2>4
<1> QED
  BY <1>1, <1>3, <1>4 DEF Job

\* The source Issue: the first read captures it, the second compares.
LEMMA ReadIssueStep ==
  ASSUME IInv, NEW c \in Coordinators, ReadIssue(c)
  PROVE  IInv'
<1> DEFINE i == job[c]
<1>1. i \in Job /\ Captured(i) /\ Remembered(i, mid[c]) /\ RepositoryTypeOK
  BY DEF IInv, TypeOK
<1>2. i.stage = "issue" /\ i.pr \in PRs /\ i.source \in Issues /\ issue[i.source] \in Issue
  BY <1>1 DEF ReadIssue, At, Captured, HasPull, RepositoryTypeOK
<1>3. CASE i.pass = 1
  <2> DEFINE k == To(i, "authorization")
             j == [k EXCEPT !.issue = issue[i.source]]
  <2>1. UNCHANGED <<world, failures>> /\ (Stop(c) \/ Advance(c, j))
    BY <1>3 DEF ReadIssue, At, Gate, Advance
  <2>2. SameEvidence(i, k) /\ k \in Job /\ k.stage = "authorization"
    BY <1>1, Moved DEF Stages, SameEvidence
  <2> HIDE DEF k
  <2>3. j \in Job
    BY <1>2, <2>2, JobFields
  <2>4. /\ j.stage = "authorization" /\ j.pass = k.pass /\ j.pr = k.pr
        /\ j.default = k.default /\ j.head = k.head /\ j.source = k.source
        /\ j.issue = issue[i.source]
    BY <2>2 DEF Job
  <2> HIDE DEF j
  <2>5. Captured(j) /\ Remembered(j, mid[c])
    BY <1>1, <1>2, <1>3, <2>2, <2>4, LaterOrder
       DEF Captured, Remembered, HasDefault, HasPull, HasIssue, SameEvidence
  <2> QED
    BY <2>1, <2>3, <2>5, GateStep
<1>4. CASE i.pass = 2
  <2> DEFINE j == To(i, "authorization")
  <2>1. /\ UNCHANGED <<world, failures>>
        /\ Stop(c) \/ (Advance(c, j) /\ issue[i.source] = i.issue)
    BY <1>4 DEF ReadIssue, At, Gate, Advance
  <2>2. SameEvidence(i, j) /\ j.stage = "authorization"
    BY <1>1, Moved DEF Stages
  <2>3. CASE issue[i.source] = i.issue
    <3> DEFINE m == mid[c]
    <3>1. /\ i.issue \in Issue /\ m.issue \in Issue
          /\ LaterIssue(i.issue, m.issue) /\ LaterIssue(m.issue, i.issue)
      BY <1>1, <1>4, <2>3 DEF Captured, Remembered, HasIssue, World
    <3>2. i.issue.updated \in Nat /\ m.issue.updated \in Nat
      BY <3>1 DEF Issue
    <3>3. m.issue = i.issue
      BY <3>1, <3>2 DEF LaterIssue
    <3>4. Captured(j) /\ Remembered(j, m)
      BY <1>1, <1>2, <1>4, <2>2, <3>3
         DEF Captured, Remembered, SameEvidence, HasDefault, HasPull, HasIssue
    <3> QED
      BY <2>1, <2>2, <3>4, GateStep DEF SameEvidence
  <2>4. CASE issue[i.source] # i.issue
    BY <2>1, <2>4, GateStep
  <2> QED
    BY <2>3, <2>4
<1> QED
  BY <1>1, <1>3, <1>4 DEF Job

\* The evidence and the history value a coordinator takes have their types.
LEMMA ReviewType ==
  ASSUME NEW cs \in SUBSET Comment, NEW ts \in SUBSET (Threads \X BOOLEAN), NEW h, NEW risk
  PROVE  ReviewEvidence(cs, ts, h, risk) \in Review
<1>1. ReviewState(cs, ts, h, risk) \in {"pending", "blocked", "clean", "required"}
  BY Zenon DEF ReviewState
<1>2. MarkerIds(cs, h) \in SUBSET Nat
  BY DEF MarkerIds, Comment
<1> QED
  BY <1>1, <1>2 DEF ReviewEvidence, Review

\* A thread snapshot pairs threads with whether they are resolved.
LEMMA ThreadSnapshotType ==
  ASSUME NEW p
  PROVE  ThreadSnapshot(p) \in SUBSET (Threads \X BOOLEAN)
<1> SUFFICES ASSUME NEW x \in ThreadSnapshot(p)
             PROVE  x \in Threads \X BOOLEAN
  OBVIOUS
<1>1. PICK t \in Threads : x = <<t, threads[p][t] = "resolved">>
  BY DEF ThreadSnapshot
<1>2. (threads[p][t] = "resolved") \in BOOLEAN
  OBVIOUS
<1> QED
  BY <1>1, <1>2, Zenon

\* The history value is a World.
LEMMA WorldOfType ==
  ASSUME RepositoryTypeOK, NEW p \in PRs, NEW i \in Issues
  PROVE  WorldOf(p, i) \in World
<1>1. ThreadSnapshot(p) \in SUBSET (Threads \X BOOLEAN)
  BY ThreadSnapshotType
<1>2. {<<q, pull[q].head>> : q \in Overlapping(p, HeadPaths[pull[p].head])}
        \in SUBSET (PRs \X Heads)
  <2>1. Overlapping(p, HeadPaths[pull[p].head]) \subseteq PRs
    BY DEF Overlapping, OpenOthers
  <2>2. \A q \in PRs : pull[q].head \in Heads
    BY DEF RepositoryTypeOK, Pull
  <2> QED
    BY <2>1, <2>2
<1>3. /\ default \in Default /\ pull[p] \in Pull /\ issue[i] \in Issue
      /\ authorization[i] \in SUBSET Authorization
      /\ runs[p] \in [Heads -> [Checks -> Run]] /\ comments[p] \in SUBSET Comment
  BY DEF RepositoryTypeOK
<1> QED
  BY <1>1, <1>2, <1>3 DEF WorldOf, World

\* The end of a pass.
LEMMA ReadThreadsStep ==
  ASSUME IInv, NEW c \in Coordinators, ReadThreads(c)
  PROVE  IInv'
<1> DEFINE i == job[c]
           r == ReviewEvidence(i.comments, ThreadSnapshot(i.pr), i.head,
                               Risk(i.issue, i.authorization))
<1>1. i \in Job /\ Captured(i) /\ Remembered(i, mid[c]) /\ RepositoryTypeOK
  BY DEF IInv, TypeOK
<1>2. i.stage = "threads" /\ i.pr \in PRs /\ i.comments \in SUBSET Comment
  BY <1>1 DEF ReadThreads, At, Captured, Job
<1>3. CASE At(c, "threads", 2)
  <2> DEFINE j == [To(i, "pull") EXCEPT !.comments = {}]
  <2>1. Took(c, j)
    BY <1>3 DEF ReadThreads, At, Gate, Advance, Took
  <2>2. MovedWith(i, j, "pull") /\ "pull" \in Stages
    BY DEF MovedWith, Unversioned, Stages
  <2> HIDE DEF j
  <2>3. SameEvidence(i, j) /\ j.stage = "pull" /\ i.pass = 2
    BY <1>1, <1>3, <2>2, MovedKept DEF At
  <2>4. Captured(j) /\ Remembered(j, mid[c])
    BY <1>1, <1>2, <2>3 DEF Captured, Remembered, SameEvidence, HasDefault, HasPull, HasIssue
  <2> QED
    BY <2>1, <2>3, <2>4, GateStep DEF SameEvidence, Took
<1>4. CASE At(c, "threads", 1) /\ r.state # "clean" /\ Gate(c, FALSE, i)
  <2>1. UNCHANGED <<world, failures>> /\ Stop(c)
    BY <1>4 DEF Gate
  <2> QED
    BY <2>1, GateStep
<1>5. CASE /\ At(c, "threads", 1)
           /\ job' = [job EXCEPT ![c] = [To(i, "issue") EXCEPT !.pass = 2,
                                           !.comments = {}, !.review = r]]
           /\ mid' = [mid EXCEPT ![c] = WorldOf(i.pr, i.source)]
           /\ UNCHANGED <<world, failures>>
  <2> DEFINE k == To(i, "issue")
             k1 == [k EXCEPT !.pass = 2]
             k2 == [k1 EXCEPT !.comments = {}]
             j == [k2 EXCEPT !.review = r]
             m == WorldOf(i.pr, i.source)
  <2>1. /\ i.default \in Default /\ i.head \in Heads /\ i.source \in Issues
        /\ i.issue \in Issue /\ LaterDefault(i.default, default)
        /\ LaterIssue(i.issue, issue[i.source])
    BY <1>1, <1>2 DEF Captured, HasDefault, HasPull, HasIssue
  <2>2. m \in World
    BY <1>1, <1>2, <2>1, WorldOfType
  <2>3. m.default = default /\ m.issue = issue[i.source]
    BY DEF WorldOf
  <2>4. ThreadSnapshot(i.pr) \in SUBSET (Threads \X BOOLEAN)
    BY ThreadSnapshotType
  <2>5. r \in Review
    BY <1>2, <2>4, ReviewType
  <2> HIDE DEF r
  <2>6. job' = [job EXCEPT ![c] = j]
    BY <1>5
  <2>7. mid' = [mid EXCEPT ![c] = m] /\ UNCHANGED world /\ failures' \in Nat
    BY <1>5 DEF IInv, TypeOK
  <2> HIDE DEF m
  <2>8. SameEvidence(i, k) /\ k \in Job /\ k.stage = "issue"
    BY <1>1, Moved DEF Stages, SameEvidence
  <2> HIDE DEF k
  <2>9. k1 \in Job
    BY <2>8, JobFields
  <2>10. k1.pass = 2 /\ k1.stage = "issue" /\ k1.pr = k.pr /\ k1.default = k.default
         /\ k1.head = k.head /\ k1.source = k.source /\ k1.issue = k.issue
    BY <2>8 DEF Job
  <2> HIDE DEF k1
  <2>11. Unversioned(k1, k2)
    BY DEF Unversioned
  <2>12. SameEvidence(k1, k2) /\ k2.stage = "issue"
    BY <2>9, <2>10, <2>11, UnversionedKept
  <2> HIDE DEF k2
  <2>13. k2 \in Job
    BY <2>12 DEF SameEvidence
  <2>14. j \in Job
    BY <2>5, <2>13, JobFields
  <2>15. j.pass = k2.pass /\ j.stage = k2.stage /\ j.pr = k2.pr /\ j.default = k2.default
         /\ j.head = k2.head /\ j.source = k2.source /\ j.issue = k2.issue
    BY <2>13 DEF Job
  <2> HIDE DEF j
  <2>16. j.pass = 2 /\ j.stage = "issue" /\ j.pr = i.pr /\ j.default = i.default
         /\ j.head = i.head /\ j.source = i.source /\ j.issue = i.issue
    BY <2>8, <2>10, <2>12, <2>15 DEF SameEvidence
  <2>17. LaterDefault(default, default) /\ LaterIssue(issue[i.source], issue[i.source])
    BY <1>1, <2>1, LaterOrder DEF RepositoryTypeOK
  <2>18. Captured(j) /\ Remembered(j, m)
    BY <1>2, <2>1, <2>2, <2>3, <2>16, <2>17
       DEF Captured, Remembered, HasDefault, HasPull, HasIssue
  <2> QED
    BY <2>2, <2>6, <2>7, <2>14, <2>18, MoveStep
<1> QED
  BY <1>3, <1>4, <1>5 DEF ReadThreads, Gate

\* Steps that start, end or mutate.
LEMMA OtherJobStep ==
  ASSUME IInv, NEW c \in Coordinators,
         \/ \E p \in PRs : Start(c, p)
         \/ MarkReady(c) \/ Merge(c) \/ Rejected(c) \/ Fail(c)
  PROVE  IInv'
<1>1. /\ failures \in Nat /\ Captured(job[c])
      /\ job[c].stage # "idle" => job[c].pr \in PRs
      /\ job[c].stage = "merge" => job[c].head \in Heads
  BY DEF IInv, TypeOK, Captured, HasPull
<1>2. CASE \E p \in PRs : Start(c, p)
  <2>1. PICK p \in PRs : Start(c, p)
    BY <1>2
  <2>2. Fresh(Begin(p, FALSE))
    BY FreshJobs
  <2>3. Captured(Begin(p, FALSE)) /\ Remembered(Begin(p, FALSE), mid[c])
    BY <2>2, FreshAgrees
  <2>4. UNCHANGED <<world, failures>> /\ Advance(c, Begin(p, FALSE))
    BY <2>1 DEF Start, Gate, Advance
  <2> QED
    BY <2>2, <2>3, <2>4, GateStep DEF Fresh
<1>3. CASE MarkReady(c)
  <2>1. Fresh(Begin(job[c].pr, TRUE)) /\ WorldStep /\ failures' \in Nat
    BY <1>1, <1>3, FreshJobs DEF MarkReady, WorldStep
  <2> QED
    BY <1>3, <2>1, FreshStep DEF MarkReady
<1>4. CASE Merge(c)
  <2>1. WorldStep /\ Stop(c) /\ failures' \in Nat
    BY <1>1, <1>4 DEF Merge, WorldStep
  <2> QED
    BY <2>1, StopStep
<1>5. CASE Rejected(c)
  <2>1. WorldStep /\ Stop(c) /\ failures' \in Nat
    BY <1>1, <1>5 DEF Rejected, Gate, WorldStep
  <2> QED
    BY <2>1, StopStep
<1>6. CASE Fail(c)
  <2>1. WorldStep /\ Stop(c) /\ failures' \in Nat
    BY <1>1, <1>6 DEF Fail, WorldStep
  <2> QED
    BY <2>1, StopStep
<1> QED
  BY <1>2, <1>3, <1>4, <1>5, <1>6

\* The repository changes, or nothing happens.
LEMMA WorldOnlyStep ==
  ASSUME IInv, WorldStep, UNCHANGED <<job, mid, failures>>
  PROVE  IInv'
<1>1. RepositoryTypeOK' /\ WorldGrows
  BY RepositoryStep DEF IInv, TypeOK
<1>2. \A c \in Coordinators : Captured(job[c])' /\ Remembered(job[c], mid[c])'
  BY <1>1, KeepJob
<1> QED
  BY <1>1, <1>2 DEF IInv, TypeOK

\* The invariant holds at the beginning.
LEMMA Initially == Init => IInv
<1> SUFFICES ASSUME Init PROVE IInv
  OBVIOUS
<1>1. RepositoryTypeOK
  <2>1. default \in Default /\ pull \in [PRs -> Pull] /\ changes \in Nat
    BY ContentAssumption DEF Init, RepositoryInit
  <2>2. issue \in [Issues -> Issue]
    <3>1. PICK s \in [Issues -> Scopes] :
            issue = [i \in Issues |-> [open |-> TRUE, allowed |-> s[i][1],
                                       protected |-> s[i][2], updated |-> 0]]
      BY DEF Init, RepositoryInit
    <3>2. \A i \in Issues : s[i][1] \in SUBSET Paths /\ s[i][2] \in SUBSET Paths
      BY ContentAssumption
    <3>3. \A i \in Issues : [open |-> TRUE, allowed |-> s[i][1],
                             protected |-> s[i][2], updated |-> 0] \in Issue
      BY <3>2 DEF Issue
    <3> QED
      BY <3>1, <3>3
  <2>3. authorization \in [Issues -> SUBSET Authorization]
    BY DEF Init, RepositoryInit
  <2>4. runs \in [PRs -> [Heads -> [Checks -> Run]]]
    BY DEF Init, RepositoryInit, Run
  <2>5. comments \in [PRs -> SUBSET Comment]
    <3>1. PICK m \in MarkSets : comments = [p \in PRs |->
            {[id |-> 0, head |-> InitialPull[p].head, marks |-> m, substantial |-> TRUE]}]
      BY DEF Init, RepositoryInit
    <3>2. m \in SUBSET Marks /\ \A p \in PRs : InitialPull[p].head \in Heads
      BY ContentAssumption DEF Pull
    <3>3. \A p \in PRs : [id |-> 0, head |-> InitialPull[p].head, marks |-> m,
                          substantial |-> TRUE] \in Comment
      BY <3>2 DEF Comment
    <3> QED
      BY <3>1, <3>3
  <2>6. threads \in [PRs -> [Threads -> {"none", "open", "resolved"}]]
    BY ContentAssumption DEF Init, RepositoryInit
  <2> QED
    BY <2>1, <2>2, <2>3, <2>4, <2>5, <2>6 DEF RepositoryTypeOK
<1>2. Fresh(Idle)
  BY FreshJobs
<1>3. /\ job \in [Coordinators -> Job] /\ mid \in [Coordinators -> World \union {None}]
      /\ failures \in Nat
  BY <1>2 DEF Init, Fresh
<1>4. \A c \in Coordinators : Captured(job[c]) /\ Remembered(job[c], mid[c])
  BY <1>2, FreshAgrees DEF Init
<1> QED
  BY <1>1, <1>3, <1>4 DEF IInv, TypeOK

\* The invariant is inductive.
LEMMA Inductive == IInv /\ [Next]_vars => IInv'
<1> SUFFICES ASSUME IInv, [Next]_vars PROVE IInv'
  OBVIOUS
<1>1. CASE Others
  BY <1>1, WorldOnlyStep DEF Others, WorldStep
<1>2. CASE UNCHANGED vars
  BY <1>2, WorldOnlyStep DEF vars, world, WorldStep
<1>3. CASE \E c \in Coordinators : (\E p \in PRs : Start(c, p)) \/ Supervise(c) \/ Fail(c)
  BY <1>3, PlainReadStep, ReadPullStep, ReadDefaultStep, ReadIssueStep, ReadThreadsStep,
     OtherJobStep DEF Supervise
<1> QED
  BY <1>1, <1>2, <1>3 DEF Next

------------------------------------------------------------------------------
\* In every reachable state every variable has its declared type, so no step
\* of the supervisor takes evidence of the wrong kind or goes on without a
\* value it needs.
THEOREM TypeCorrect == Spec => []TypeOK
<1>1. IInv => TypeOK
  BY DEF IInv
<1> QED
  BY <1>1, Initially, Inductive, PTL DEF Spec

\* Whenever evaluate() decides on Ready or merge, the source Issue and the
\* default branch it read are the ones the repository held at the end of its
\* first pass, however many Issues, commits, coordinators and changes there
\* are.
THEOREM VersionedCorrect == Spec => []VersionedAtomic
  BY Initially, Inductive, IInvImpliesVersioned, PTL DEF Spec

------------------------------------------------------------------------------
(* SnapshotAtomic and MergeJudged.  Most evidence carries no version, so    *)
(* they hold only if no change restores an earlier value between two reads. *)
(* Then every kind of evidence moves one way, and what was the same at two  *)
(* reads was the same at the instant in between.                            *)

\* The changes that can bring back a value a read has seen.
Restores == {"push-back", "body", "close-pull", "rerun", "retract", "withdraw"}

NothingRestored == EnvKinds \intersect Restores = {} /\ NativeChecks # {}

\* s is r or a later state of the run of the same check.
LaterRun(r, s) == r.id <= s.id /\ (r.id = s.id => r = s \/ r.state = "pending")

\* Commit h is, or was, the head of Pull Request p.
WasSeen(p, h) == \A k \in Checks : runs[p][h][k].id > 0

WorldInv ==
  \A p \in PRs : IsFiniteSet(comments[p]) /\ WasSeen(p, pull[p].head)

\* The repository moves on and never back.
Forward ==
  /\ \A p \in PRs :
       /\ pull'[p].body = pull[p].body
       /\ pull[p].state # "closed" => pull'[p].state # "closed"
       /\ pull[p].state = "merged" => pull'[p].state = "merged"
       /\ \A h \in Heads : WasSeen(p, h) /\ pull'[p].head = h => pull[p].head = h
       /\ \A h \in Heads, k \in Checks : LaterRun(runs[p][h][k], runs'[p][h][k])
       /\ comments[p] \subseteq comments'[p]
  /\ \A i \in Issues : authorization[i] \subseteq authorization'[i]

\* Later is reflexive and transitive, and of two runs each later than the
\* other there is only one.
LEMMA RunOrder ==
  /\ \A r \in Run : LaterRun(r, r)
  /\ \A r, s, t \in Run : LaterRun(r, s) /\ LaterRun(s, t) => LaterRun(r, t)
  /\ \A r, s \in Run : LaterRun(r, s) /\ LaterRun(s, r) => r = s
  BY DEF LaterRun, Run

\* Runs that are left alone.
LEMMA SameRuns ==
  ASSUME RepositoryTypeOK, runs' = runs
  PROVE  /\ \A p \in PRs, h \in Heads, k \in Checks : LaterRun(runs[p][h][k], runs'[p][h][k])
         /\ \A p, h : WasSeen(p, h)' = WasSeen(p, h)
<1>1. \A p \in PRs, h \in Heads, k \in Checks : runs[p][h][k] \in Run
  BY DEF RepositoryTypeOK
<1> QED
  BY <1>1, RunOrder DEF WasSeen

\* A step that leaves runs, comments and authorizations alone, and of each
\* Pull Request the head, the body and an end of it.
LEMMA PullForward ==
  ASSUME RepositoryTypeOK, WorldInv, UNCHANGED <<runs, comments, authorization>>,
         \A p \in PRs : /\ pull'[p].body = pull[p].body /\ pull'[p].head = pull[p].head
                        /\ pull[p].state # "closed" => pull'[p].state # "closed"
                        /\ pull[p].state = "merged" => pull'[p].state = "merged"
  PROVE  Forward /\ WorldInv'
<1>1. Forward
  BY SameRuns DEF Forward
<1>2. WorldInv'
  BY DEF WorldInv, WasSeen
<1> QED
  BY <1>1, <1>2

\* One edit of a Pull Request that keeps head and body.
LEMMA EditForward ==
  ASSUME RepositoryTypeOK, WorldInv, NEW p \in PRs, NEW new, EditPull(p, new), UNCHANGED runs,
         new.body = pull[p].body, new.head = pull[p].head,
         pull[p].state # "closed" => new.state # "closed",
         pull[p].state = "merged" => new.state = "merged"
  PROVE  Forward /\ WorldInv'
<1>1. \A q \in PRs : pull'[q] = IF q = p THEN new ELSE pull[q]
  BY DEF EditPull, RepositoryTypeOK
<1>2. UNCHANGED <<runs, comments, authorization>>
  BY DEF EditPull
<1> QED
  BY <1>1, <1>2, PullForward

\* A push of a commit that was never the head leaves all the others behind.
LEMMA PushForward ==
  ASSUME RepositoryTypeOK, WorldInv, NothingRestored, NEW p \in PRs, Push(p)
  PROVE  Forward /\ WorldInv'
<1>1. PICK h \in Heads : ~WasHead(p, h) /\ PushTo(p, h)
  BY DEF Push
<1>2. /\ pull' = [pull EXCEPT ![p] = [pull[p] EXCEPT !.head = h]]
      /\ UNCHANGED <<comments, authorization>>
      /\ runs' = [runs EXCEPT ![p][h] =
           [k \in Checks |-> [state |-> "pending", id |-> runs[p][h][k].id + 1]]]
  BY <1>1 DEF PushTo, EditPull
<1>3. pull[p] \in Pull /\ pull \in [PRs -> Pull]
  BY DEF RepositoryTypeOK
<1>4. /\ pull'[p].head = h /\ pull'[p].body = pull[p].body /\ pull'[p].state = pull[p].state
      /\ \A q \in PRs \ {p} : pull'[q] = pull[q]
  BY <1>2, <1>3 DEF Pull
<1>5. \A q \in PRs, g \in Heads, k \in Checks : runs[q][g][k] \in Run
  BY DEF RepositoryTypeOK
<1>6. /\ \A q \in PRs, g \in Heads, k \in Checks :
           runs'[q][g][k] = IF q = p /\ g = h THEN [state |-> "pending", id |-> runs[q][g][k].id + 1]
                                              ELSE runs[q][g][k]
  BY <1>2 DEF RepositoryTypeOK
<1>7. \A q \in PRs, g \in Heads, k \in Checks :
        /\ LaterRun(runs[q][g][k], runs'[q][g][k])
        /\ runs'[q][g][k].id >= runs[q][g][k].id
        /\ q = p /\ g = h => runs'[q][g][k].id > 0
  <2> SUFFICES ASSUME NEW q \in PRs, NEW g \in Heads, NEW k \in Checks
               PROVE  /\ LaterRun(runs[q][g][k], runs'[q][g][k])
                      /\ runs'[q][g][k].id >= runs[q][g][k].id
                      /\ q = p /\ g = h => runs'[q][g][k].id > 0
    OBVIOUS
  <2>1. runs[q][g][k].id \in Nat
    BY <1>5 DEF Run
  <2>2. CASE q = p /\ g = h
    <3> DEFINE r == [state |-> "pending", id |-> runs[q][g][k].id + 1]
    <3>0. runs'[q][g][k] = r /\ r.id = runs[q][g][k].id + 1
      BY <1>6, <2>2
    <3>1. runs'[q][g][k].id = runs[q][g][k].id + 1
      BY <3>0
    <3> QED
      BY <2>1, <3>1 DEF LaterRun
  <2>3. CASE ~(q = p /\ g = h)
    <3>1. runs'[q][g][k] = runs[q][g][k]
      BY <1>6, <2>3
    <3> QED
      BY <2>1, <2>3, <3>1 DEF LaterRun
  <2> QED
    BY <2>2, <2>3
<1>8. ~WasSeen(p, h)
  BY <1>1 DEF WasHead, WasSeen, NothingRestored, Checks
<1>9. Forward
  BY <1>2, <1>4, <1>7, <1>8 DEF Forward
<1>10. ASSUME NEW q \in PRs
       PROVE  IsFiniteSet(comments'[q]) /\ \A k \in Checks : runs'[q][pull'[q].head][k].id > 0
  <2>1. IsFiniteSet(comments'[q]) /\ WasSeen(q, pull[q].head)
    BY <1>2 DEF WorldInv
  <2>2. pull[q].head \in Heads
    BY <1>3 DEF Pull
  <2>3. CASE q = p
    BY <1>4, <1>7, <2>1, <2>3 DEF WasSeen
  <2>4. CASE q # p
    <3>1. pull'[q].head = pull[q].head
      BY <1>4, <2>4
    <3>2. \A k \in Checks : runs'[q][pull[q].head][k] = runs[q][pull[q].head][k]
      BY <1>6, <2>2, <2>4
    <3> QED
      BY <2>1, <3>1, <3>2 DEF WasSeen
  <2> QED
    BY <2>3, <2>4
<1> QED
  BY <1>9, <1>10 DEF WorldInv, WasSeen

\* A run that completes keeps its id.
LEMMA CompleteForward ==
  ASSUME RepositoryTypeOK, WorldInv, NEW p \in PRs, CompleteRun(p)
  PROVE  Forward /\ WorldInv'
<1>1. PICK h \in Heads, k \in Checks, s \in {"success", "neutral", "failure"} :
        SetRun(p, h, k, {"pending"}, s)
  BY DEF CompleteRun
<1>2. /\ runs' = [runs EXCEPT ![p][h][k].state = s] /\ runs[p][h][k].state = "pending"
      /\ UNCHANGED <<pull, authorization, comments>>
  BY <1>1 DEF SetRun
<1>3. \A q \in PRs, g \in Heads, l \in Checks : runs[q][g][l] \in Run
  BY DEF RepositoryTypeOK
<1>4. \A q \in PRs, g \in Heads, l \in Checks :
        runs'[q][g][l] = IF q = p /\ g = h /\ l = k THEN [runs[q][g][l] EXCEPT !.state = s]
                                                    ELSE runs[q][g][l]
  BY <1>2 DEF RepositoryTypeOK
<1>5. \A q \in PRs, g \in Heads, l \in Checks :
        LaterRun(runs[q][g][l], runs'[q][g][l]) /\ runs'[q][g][l].id = runs[q][g][l].id
  BY <1>2, <1>3, <1>4 DEF LaterRun, Run
<1>6. \A q \in PRs : pull[q].head \in Heads
  BY DEF RepositoryTypeOK, Pull
<1>7. Forward
  BY <1>2, <1>5 DEF Forward
<1>8. WorldInv'
  BY <1>2, <1>5, <1>6 DEF WorldInv, WasSeen
<1> QED
  BY <1>7, <1>8

\* One more comment.
LEMMA ReviewForward ==
  ASSUME RepositoryTypeOK, WorldInv, NEW p \in PRs, PostReview(p)
  PROVE  Forward /\ WorldInv'
<1>1. PICK m \in MarkSets, b \in BOOLEAN : SetComments(p, comments[p] \union
        {[id |-> changes + 1, head |-> pull[p].head, marks |-> m, substantial |-> b]})
  BY DEF PostReview
<1> DEFINE x == [id |-> changes + 1, head |-> pull[p].head, marks |-> m, substantial |-> b]
<1>2. /\ comments' = [comments EXCEPT ![p] = comments[p] \union {x}]
      /\ UNCHANGED <<pull, authorization, runs>>
  BY <1>1 DEF SetComments
<1> HIDE DEF x
<1>3. \A q \in PRs : comments'[q] = IF q = p THEN comments[q] \union {x} ELSE comments[q]
  BY <1>2 DEF RepositoryTypeOK
<1>4. ASSUME NEW q \in PRs
      PROVE  comments[q] \subseteq comments'[q] /\ IsFiniteSet(comments'[q])
  <2>1. IsFiniteSet(comments[q]) /\ IsFiniteSet(comments[q] \union {x})
    BY FS_AddElement DEF WorldInv
  <2> QED
    BY <1>3, <2>1
<1>5. Forward
  BY <1>2, <1>4, SameRuns DEF Forward
<1>6. WorldInv'
  BY <1>2, <1>4 DEF WorldInv, WasSeen
<1> QED
  BY <1>5, <1>6

\* One more authorization.
LEMMA AuthorizeForward ==
  ASSUME RepositoryTypeOK, WorldInv, NEW i \in Issues, Authorize(i)
  PROVE  Forward /\ WorldInv'
<1>1. PICK s \in SUBSET Paths :
        SetAuthorization(i, authorization[i] \union {[id |-> changes + 1, paths |-> s]})
  BY DEF Authorize
<1> DEFINE x == [id |-> changes + 1, paths |-> s]
<1>2. /\ authorization' = [authorization EXCEPT ![i] = authorization[i] \union {x}]
      /\ UNCHANGED <<pull, comments, runs>>
  BY <1>1 DEF SetAuthorization
<1> HIDE DEF x
<1>3. \A k \in Issues : authorization[k] \subseteq authorization'[k]
  BY <1>2 DEF RepositoryTypeOK
<1>4. Forward
  BY <1>2, <1>3, SameRuns DEF Forward
<1>5. WorldInv'
  BY <1>2 DEF WorldInv, WasSeen
<1> QED
  BY <1>4, <1>5

\* Every step of the repository that restores nothing goes forward.
LEMMA WorldForward ==
  ASSUME RepositoryTypeOK, WorldInv, NothingRestored, WorldStep
  PROVE  Forward /\ WorldInv'
<1>0. \A k \in Restores : ~Change(k)
  BY DEF NothingRestored, Change
<1>1. CASE UNCHANGED <<pull, runs, comments, authorization>>
  BY <1>1, PullForward
<1>2. ASSUME NEW p \in PRs, Ready(p) \/ \E h \in Heads : MergeHead(p, h)
      PROVE  Forward /\ WorldInv'
  <2>1. UNCHANGED <<runs, comments, authorization>>
    BY <1>2 DEF Ready, MergeHead
  <2>2. \A q \in PRs : pull[q] \in Pull
    BY DEF RepositoryTypeOK
  <2>3. \/ pull[p].state = "open" /\ pull' = [pull EXCEPT ![p].draft = FALSE]
        \/ pull' = [pull EXCEPT ![p].state = "merged"]
    BY <1>2 DEF Ready, MergeHead, Mergeable
  <2>4. ASSUME NEW q \in PRs
        PROVE  /\ pull'[q].body = pull[q].body /\ pull'[q].head = pull[q].head
               /\ pull'[q].state = pull[q].state \/ pull'[q].state = "merged"
    <3>1. \/ pull'[q] = pull[q] \/ pull'[q] = [pull[q] EXCEPT !.draft = FALSE]
          \/ pull'[q] = [pull[q] EXCEPT !.state = "merged"]
      BY <2>3 DEF RepositoryTypeOK
    <3> QED
      BY <2>2, <3>1 DEF Pull
  <2> QED
    BY <2>1, <2>4, PullForward
<1>3. ASSUME NEW p \in PRs, ChangePull(p)
      PROVE  Forward /\ WorldInv'
  <2>1. ~PushBack(p) /\ ~EditBody(p) /\ ~ClosePull(p)
    BY <1>0 DEF PushBack, EditBody, ClosePull, Restores
  <2>2. pull[p] \in Pull
    BY DEF RepositoryTypeOK
  <2>3. CASE ToggleHold(p)
    BY <2>2, <2>3, EditForward DEF ToggleHold, Pull
  <2>4. CASE ToggleMergeable(p)
    BY <2>2, <2>4, EditForward DEF ToggleMergeable, Pull
  <2>5. CASE ToggleDraft(p)
    BY <2>2, <2>5, EditForward DEF ToggleDraft, Pull
  <2>6. CASE OpenPull(p)
    BY <2>2, <2>6, EditForward DEF OpenPull, Pull
  <2> QED
    BY <1>3, <2>1, <2>3, <2>4, <2>5, <2>6, PushForward DEF ChangePull
<1>4. ASSUME NEW p \in PRs, ChangeEvidence(p)
      PROVE  Forward /\ WorldInv'
  <2>1. ~Rerun(p) /\ ~RetractReview(p)
    BY <1>0 DEF Rerun, RetractReview, Restores
  <2>2. CASE OpenThread(p) \/ ResolveThread(p) \/ ReopenThread(p)
    BY <1>1, <2>2 DEF OpenThread, ResolveThread, ReopenThread, SetThread
  <2> QED
    BY <1>4, <2>1, <2>2, CompleteForward, ReviewForward DEF ChangeEvidence
<1>5. ASSUME NEW i \in Issues, ChangeIssue(i)
      PROVE  Forward /\ WorldInv'
  <2>1. ~Withdraw(i)
    BY <1>0 DEF Withdraw, Restores
  <2>2. CASE EditIssue(i)
    BY <1>1, <2>2 DEF EditIssue
  <2> QED
    BY <1>5, <2>1, <2>2, AuthorizeForward DEF ChangeIssue
<1>6. CASE MoveDefault
  BY <1>1, <1>6 DEF MoveDefault
<1>7. CASE UNCHANGED world
  BY <1>1, <1>7 DEF world
<1> QED
  BY <1>2, <1>3, <1>4, <1>5, <1>6, <1>7 DEF WorldStep, RepositoryNext

------------------------------------------------------------------------------
(* What a coordinator knows of the repository, of the history value and of *)
(* what lies between the two.                                               *)

HasScope(j)    == HasIssue(j) /\ (j.pass = 2 \/ j.stage # "authorization")
HasFiles(j)    == HasScope(j) /\ (j.pass = 2 \/ j.stage # "files")
HasWorkflow(j) == j.pass = 2 \/ j.stage \in {"runs", "comments", "threads"}
HasRuns(j)     == j.pass = 2 \/ j.stage \in {"comments", "threads"}

\* The Pull Request still stands at the head under evaluation.
Still(j) == pull[j.pr].head = j.head

\* The runs taken are not later than those in f.
RunsBefore(j, f) == \A s \in j.runs : LaterRun(s[2], f[j.head][s[1]])

ReviewClean(j, cs, ts) ==
  ReviewState(cs, ts, j.head, Risk(j.issue, j.authorization)) = "clean"

\* What was read passed its gate, and the repository has not gone back on it.
Evident(j) ==
  /\ j.pass = 2 => j.stage # "idle"
  /\ HasPull(j) => /\ pull[j.pr].state # "closed" /\ pull[j.pr].body = j.body
                   /\ BodyIssue[j.body] = j.source /\ WasSeen(j.pr, j.head)
  /\ HasIssue(j) => j.issue.open
  /\ HasScope(j) => /\ j.authorization \subseteq authorization[j.source]
                    /\ ScopeValid(j.issue, j.authorization)
  /\ HasFiles(j) => /\ InScope(j.files, j.issue, j.authorization)
                    /\ Still(j) => j.files = HeadPaths[j.head]
  /\ HasWorkflow(j) => HeadWorkflow[j.head] = j.default.workflow
  /\ HasRuns(j) => ChecksPass(j.runs) /\ RunsBefore(j, runs[j.pr])
  /\ j.stage = "threads" => j.comments \subseteq comments[j.pr]

\* The history value lies between what was read and what the repository holds.
Between(j, m) ==
  j.pass = 2 =>
    /\ m.pull.body = j.body /\ m.pull.state # "closed"
    /\ m.pull.state = "merged" => pull[j.pr].state = "merged"
    /\ Still(j) => m.pull.head = j.head
    /\ j.authorization \subseteq m.authorization
    /\ m.authorization \subseteq authorization[j.source]
    /\ RunsBefore(j, m.runs)
    /\ \A k \in Checks : LaterRun(m.runs[j.head][k], runs[j.pr][j.head][k])
    /\ m.comments \subseteq comments[j.pr]

\* What the second pass has read again is what it was at that instant.
Settled(j, m) ==
  j.pass = 2 =>
    /\ j.stage \notin {"issue", "authorization"} => m.authorization = j.authorization
    /\ j.stage \in {"comments", "threads", "pull", "ready", "markReady", "merge"} =>
         CheckSnapshot(m.runs, j.head, j.default) = j.runs
    /\ j.review.state = "clean" /\ j.review.threads = m.threads
    /\ \E cs \in SUBSET m.comments : ReviewClean(j, cs, m.threads)
    /\ j.stage = "threads" => m.comments \subseteq j.comments
    /\ j.stage \in {"pull", "ready", "markReady", "merge"} =>
         ReviewClean(j, m.comments, m.threads)
    /\ j.stage \in {"ready", "markReady", "merge"} =>
         /\ m.pull.state = "open" /\ m.pull.head = j.head
         /\ j.files = HeadPaths[j.head]

Facts(j, m) == Evident(j) /\ Between(j, m) /\ Settled(j, m)

SInv == WorldInv /\ \A c \in Coordinators : Facts(job[c], mid[c])

\* The gates were all clean when the history value was taken.
LEMMA SInvImpliesSnapshot == IInv /\ SInv => SnapshotAtomic
<1> SUFFICES ASSUME IInv, SInv, NEW c \in Coordinators, Decided(c)
             PROVE  GatesClean(mid[c], job[c].head, job[c].source)
  BY DEF SnapshotAtomic
<1> DEFINE j == job[c]
           m == mid[c]
<1>1. /\ Facts(j, m) /\ Captured(j) /\ Remembered(j, m)
      /\ j.stage \in {"ready", "markReady", "merge"}
  BY DEF SInv, IInv, Decided
<1>2. j.pass = 2
  BY <1>1 DEF Captured
<1>3. m.issue = j.issue /\ m.default = j.default /\ m.authorization = j.authorization
  BY <1>1, <1>2 DEF Remembered, Facts, Settled
<1>4. m.pull.state = "open" /\ m.pull.head = j.head /\ BodyIssue[m.pull.body] = j.source
  BY <1>1, <1>2 DEF Facts, Settled, Between, Evident, HasPull
<1>5. j.issue.open /\ ScopeValid(j.issue, j.authorization)
  BY <1>1, <1>2 DEF Facts, Evident, HasIssue, HasScope
<1>6. /\ InScope(HeadPaths[j.head], j.issue, j.authorization)
      /\ HeadWorkflow[j.head] = j.default.workflow
  BY <1>1, <1>2 DEF Facts, Settled, Evident, HasIssue, HasScope, HasFiles, HasWorkflow
<1>7. ChecksPass(CheckSnapshot(m.runs, j.head, j.default))
  BY <1>1, <1>2 DEF Facts, Settled, Evident, HasRuns
<1>8. ReviewState(m.comments, m.threads, j.head, Risk(j.issue, j.authorization)) = "clean"
  BY <1>1, <1>2 DEF Facts, Settled, ReviewClean
<1> QED
  BY <1>3, <1>4, <1>5, <1>6, <1>7, <1>8 DEF GatesClean

\* What a coordinator holds has its type.
LEMMA HeldTypes ==
  ASSUME IInv, SInv, NEW c \in Coordinators
  PROVE  LET j == job[c] IN
         /\ j \in Job /\ Captured(j) /\ Remembered(j, mid[c]) /\ Facts(j, mid[c])
         /\ j.stage # "idle" => j.pr \in PRs
         /\ HasPull(j) => j.pr \in PRs /\ j.head \in Heads /\ j.source \in Issues
         /\ j.pass = 2 => mid[c] \in World
<1>1. /\ job[c] \in Job /\ Captured(job[c]) /\ Remembered(job[c], mid[c])
      /\ Facts(job[c], mid[c])
  BY DEF IInv, TypeOK, SInv
<1>2. HasPull(job[c]) => job[c].stage # "idle"
  BY <1>1 DEF Facts, Evident, HasPull
<1>3. job[c].pass = 2 => mid[c] \in World
  BY <1>1 DEF Remembered
<1> QED
  BY <1>1, <1>2, <1>3 DEF Captured

\* Facts of a job outlast every step that goes forward.
LEMMA KeepFacts ==
  ASSUME IInv, SInv, RepositoryTypeOK', Forward, NEW c \in Coordinators,
         job'[c] = job[c], mid'[c] = mid[c]
  PROVE  Facts(job[c], mid[c])'
<1> DEFINE j == job[c]
           m == mid[c]
<1>1. /\ j \in Job /\ Facts(j, m)
      /\ HasPull(j) => j.pr \in PRs /\ j.head \in Heads /\ j.source \in Issues
      /\ j.pass = 2 => m \in World
  BY HeldTypes
<1>2. /\ HasIssue(j) => HasPull(j)
      /\ HasScope(j) => HasPull(j)
      /\ HasFiles(j) => HasPull(j)
      /\ HasRuns(j) => HasPull(j)
      /\ j.stage = "threads" => HasPull(j)
      /\ j.pass = 2 => HasPull(j)
  BY DEF HasIssue, HasScope, HasFiles, HasRuns, HasPull
<1>3. ASSUME HasPull(j)
      PROVE  /\ pull'[j.pr].body = pull[j.pr].body
             /\ pull[j.pr].state # "closed" => pull'[j.pr].state # "closed"
             /\ pull[j.pr].state = "merged" => pull'[j.pr].state = "merged"
             /\ \A k \in Checks : LaterRun(runs[j.pr][j.head][k], runs'[j.pr][j.head][k])
             /\ comments[j.pr] \subseteq comments'[j.pr]
             /\ authorization[j.source] \subseteq authorization'[j.source]
             /\ WasSeen(j.pr, j.head) /\ pull'[j.pr].head = j.head => pull[j.pr].head = j.head
  BY <1>1, <1>3 DEF Forward
<1>4. ASSUME HasPull(j), NEW k \in Checks
      PROVE  runs[j.pr][j.head][k] \in Run /\ runs'[j.pr][j.head][k] \in Run
  BY <1>1, <1>4 DEF IInv, TypeOK, RepositoryTypeOK
<1>5. ASSUME HasPull(j), WasSeen(j.pr, j.head)
      PROVE  WasSeen(j.pr, j.head)'
  <2>1. ASSUME NEW k \in Checks
        PROVE  runs'[j.pr][j.head][k].id > 0
    <3>1. /\ runs[j.pr][j.head][k].id \in Nat /\ runs'[j.pr][j.head][k].id \in Nat
          /\ runs[j.pr][j.head][k].id > 0
      BY <1>4, <1>5 DEF WasSeen, Run
    <3>2. runs[j.pr][j.head][k].id <= runs'[j.pr][j.head][k].id
      BY <1>3, <1>5 DEF LaterRun
    <3> QED
      BY <3>1, <3>2
  <2> QED
    BY <2>1 DEF WasSeen
<1>6. ASSUME HasPull(j), NEW r \in Run, NEW k \in Checks, LaterRun(r, runs[j.pr][j.head][k])
      PROVE  LaterRun(r, runs'[j.pr][j.head][k])
  BY <1>3, <1>4, <1>6, RunOrder
<1>7. \A s \in j.runs : s[1] \in Checks /\ s[2] \in Run
  BY <1>1 DEF Job
<1>8. Evident(j)'
  <2>1. HasRuns(j) => ChecksPass(j.runs) /\ RunsBefore(j, runs'[j.pr])
    BY <1>1, <1>2, <1>6, <1>7 DEF Facts, Evident, RunsBefore
  <2>2. HasPull(j) => /\ pull'[j.pr].state # "closed" /\ pull'[j.pr].body = j.body
                      /\ BodyIssue[j.body] = j.source /\ WasSeen(j.pr, j.head)'
    BY <1>1, <1>3, <1>5 DEF Facts, Evident
  <2>3. HasScope(j) => /\ j.authorization \subseteq authorization'[j.source]
                       /\ ScopeValid(j.issue, j.authorization)
    BY <1>1, <1>2, <1>3 DEF Facts, Evident
  <2>4. HasFiles(j) => /\ InScope(j.files, j.issue, j.authorization)
                       /\ pull'[j.pr].head = j.head => j.files = HeadPaths[j.head]
    BY <1>1, <1>2, <1>3 DEF Facts, Evident, Still
  <2>5. /\ j.pass = 2 => j.stage # "idle"
        /\ HasIssue(j) => j.issue.open
        /\ HasWorkflow(j) => HeadWorkflow[j.head] = j.default.workflow
        /\ j.stage = "threads" => j.comments \subseteq comments'[j.pr]
    BY <1>1, <1>2, <1>3 DEF Facts, Evident
  <2> QED
    BY <2>1, <2>2, <2>3, <2>4, <2>5
       DEF Evident, HasPull, HasIssue, HasScope, HasFiles, HasWorkflow, HasRuns,
           WasSeen, Still, RunsBefore
<1>9. Between(j, m)'
  <2> SUFFICES ASSUME j.pass = 2
               PROVE  /\ m.pull.body = j.body /\ m.pull.state # "closed"
                      /\ m.pull.state = "merged" => pull'[j.pr].state = "merged"
                      /\ pull'[j.pr].head = j.head => m.pull.head = j.head
                      /\ j.authorization \subseteq m.authorization
                      /\ m.authorization \subseteq authorization'[j.source]
                      /\ RunsBefore(j, m.runs)
                      /\ \A k \in Checks :
                           LaterRun(m.runs[j.head][k], runs'[j.pr][j.head][k])
                      /\ m.comments \subseteq comments'[j.pr]
    BY DEF Between, Still, RunsBefore
  <2>1. HasPull(j) /\ Between(j, m) /\ WasSeen(j.pr, j.head)
    BY <1>1, <1>2 DEF Facts, Evident
  <2>2. \A k \in Checks : LaterRun(m.runs[j.head][k], runs'[j.pr][j.head][k])
    <3>1. \A k \in Checks : m.runs[j.head][k] \in Run
      BY <1>1, <2>1 DEF World
    <3> QED
      BY <1>6, <2>1, <3>1 DEF Between
  <2> QED
    BY <1>3, <2>1, <2>2 DEF Between, Still
<1>10. Settled(j, m)'
  BY <1>1 DEF Facts, Settled, ReviewClean
<1> QED
  BY <1>8, <1>9, <1>10 DEF Facts

\* A job that has read nothing has no facts to keep.
LEMMA FreshFacts ==
  ASSUME NEW j, Fresh(j)
  PROVE  \A m : Facts(j, m)
  BY DEF Fresh, Facts, Evident, Between, Settled, HasPull, HasIssue, HasScope, HasFiles,
         HasWorkflow, HasRuns

\* Coordinator c begins again, or stops, while the repository does anything.
LEMMA FreshSnapshot ==
  ASSUME IInv, IInv', SInv, NothingRestored, WorldStep, NEW c \in Coordinators,
         NEW j, Fresh(j), job' = [job EXCEPT ![c] = j], mid' = [mid EXCEPT ![c] = None]
  PROVE  SInv'
<1>1. Forward /\ WorldInv' /\ RepositoryTypeOK'
  BY WorldForward DEF IInv, TypeOK, SInv
<1>2. ASSUME NEW d \in Coordinators
      PROVE  Facts(job[d], mid[d])'
  <2>1. CASE d = c
    <3>1. job'[d] = j
      BY <2>1 DEF IInv, TypeOK
    <3> QED
      BY <3>1 DEF Fresh, Facts, Evident, Between, Settled, HasPull, HasIssue, HasScope,
                  HasFiles, HasWorkflow, HasRuns
  <2>2. CASE d # c
    <3>1. job'[d] = job[d] /\ mid'[d] = mid[d]
      BY <2>2 DEF IInv, TypeOK
    <3> QED
      BY <1>1, <3>1, KeepFacts
  <2> QED
    BY <2>1, <2>2
<1> QED
  BY <1>1, <1>2 DEF SInv

\* Coordinator c takes job j and history m while the repository rests.
LEMMA MoveSnapshot ==
  ASSUME IInv, IInv', SInv, NothingRestored, UNCHANGED world, NEW c \in Coordinators,
         NEW j, NEW m, Facts(j, m),
         job' = [job EXCEPT ![c] = j], mid' = [mid EXCEPT ![c] = m]
  PROVE  SInv'
<1>1. Forward /\ WorldInv' /\ RepositoryTypeOK'
  BY WorldForward DEF IInv, TypeOK, SInv, WorldStep
<1>2. ASSUME NEW d \in Coordinators
      PROVE  Facts(job[d], mid[d])'
  <2>1. CASE d = c
    <3>1. job'[d] = j /\ mid'[d] = m
      BY <2>1 DEF IInv, TypeOK
    <3>2. UNCHANGED <<pull, runs, comments, authorization>>
      BY DEF world
    <3> QED
      BY <3>1, <3>2
         DEF Facts, Evident, Between, Settled, HasPull, HasIssue, HasScope, HasFiles,
             HasWorkflow, HasRuns, Still, WasSeen, RunsBefore, ReviewClean
  <2>2. CASE d # c
    <3>1. job'[d] = job[d] /\ mid'[d] = mid[d]
      BY <2>2 DEF IInv, TypeOK
    <3> QED
      BY <1>1, <3>1, KeepFacts
  <2> QED
    BY <2>1, <2>2
<1> QED
  BY <1>1, <1>2 DEF SInv

\* A read stops the coordinator, or moves it on to a j whose facts hold.
LEMMA TookSnapshot ==
  ASSUME IInv, IInv', SInv, NothingRestored, NEW c \in Coordinators, NEW j,
         UNCHANGED world, Stop(c) \/ (Advance(c, j) /\ Facts(j, mid[c]))
  PROVE  SInv'
<1>1. CASE Stop(c)
  BY <1>1, FreshJobs, FreshSnapshot DEF Stop, WorldStep
<1>2. CASE Advance(c, j) /\ Facts(j, mid[c])
  <2>1. mid' = [mid EXCEPT ![c] = mid[c]]
    BY <1>2 DEF Advance, IInv, TypeOK
  <2> QED
    BY <1>2, <2>1, MoveSnapshot DEF Advance
<1> QED
  BY <1>1, <1>2

------------------------------------------------------------------------------
\* The comments for head h that carry a verdict of a tier.
Marked(cs, h, tier, verdict) == {c \in cs : c.head = h /\ <<tier, verdict>> \in c.marks}

\* What it takes for a review to be clean.
LEMMA CleanMeans ==
  ASSUME NEW cs, NEW ts, NEW h, NEW risk
  PROVE  ReviewState(cs, ts, h, risk) = "clean" <=>
           /\ \A t \in ts : t[2]
           /\ \A tier \in Tiers : Cardinality(Marked(cs, h, tier, "blocked")) = 0
           /\ <<Cardinality(Marked(cs, h, "general", "clean")),
                Cardinality(Marked(cs, h, "scope-security", "clean")),
                Cardinality(Marked(cs, h, "correctness-race", "clean"))>> =
              IF risk = "protected" THEN <<0, 1, 1>> ELSE <<1, 0, 0>>
<1> DEFINE n(tier, verdict) == Cardinality(Marked(cs, h, tier, verdict))
           open == \E t \in ts : ~t[2]
           blocked == (\A t \in ts : t[2]) /\ (\E tier \in Tiers : n(tier, "blocked") > 0)
           clean == /\ \A t \in ts : t[2]
                    /\ \A tier \in Tiers : n(tier, "blocked") = 0
                    /\ <<n("general", "clean"), n("scope-security", "clean"),
                         n("correctness-race", "clean")>> =
                       IF risk = "protected" THEN <<0, 1, 1>> ELSE <<1, 0, 0>>
           rest == IF MarkerIds(cs, h) # {} THEN "pending" ELSE "required"
<1>1. ReviewState(cs, ts, h, risk) =
        CASE open -> "pending" [] blocked -> "blocked" [] clean -> "clean" [] OTHER -> rest
  BY DEF ReviewState, Marked
<1>2. rest \in {"pending", "required"}
  OBVIOUS
<1>3. clean => ~open /\ ~blocked
  OBVIOUS
<1>4. "pending" # "clean" /\ "blocked" # "clean" /\ rest # "clean"
  OBVIOUS
<1>5. ReviewState(cs, ts, h, risk) = "clean" <=> clean
  <2> HIDE DEF open, blocked, clean, rest
  <2> QED
    BY <1>1, <1>3, <1>4, Zenon
<1> QED
  BY <1>5

\* Of growing sets of comments, those between two clean ones are clean.
LEMMA CleanBetween ==
  ASSUME NEW a, NEW b, NEW d, a \subseteq b, b \subseteq d, IsFiniteSet(d),
         NEW ts, NEW h, NEW risk,
         ReviewState(a, ts, h, risk) = "clean", ReviewState(d, ts, h, risk) = "clean"
  PROVE  ReviewState(b, ts, h, risk) = "clean"
<1>1. ASSUME NEW tier, NEW verdict
      PROVE  /\ Cardinality(Marked(a, h, tier, verdict)) \in Nat
             /\ Cardinality(Marked(b, h, tier, verdict)) \in Nat
             /\ Cardinality(Marked(d, h, tier, verdict)) \in Nat
             /\ Cardinality(Marked(a, h, tier, verdict)) <= Cardinality(Marked(b, h, tier, verdict))
             /\ Cardinality(Marked(b, h, tier, verdict)) <= Cardinality(Marked(d, h, tier, verdict))
  <2>1. /\ Marked(a, h, tier, verdict) \subseteq Marked(b, h, tier, verdict)
        /\ Marked(b, h, tier, verdict) \subseteq Marked(d, h, tier, verdict)
        /\ Marked(d, h, tier, verdict) \subseteq d
    BY DEF Marked
  <2>2. IsFiniteSet(Marked(d, h, tier, verdict))
    BY <2>1, FS_Subset
  <2>3. IsFiniteSet(Marked(b, h, tier, verdict))
    BY <2>1, <2>2, FS_Subset
  <2>4. IsFiniteSet(Marked(a, h, tier, verdict))
    BY <2>1, <2>3, FS_Subset
  <2>5. /\ Cardinality(Marked(a, h, tier, verdict)) <= Cardinality(Marked(b, h, tier, verdict))
        /\ Cardinality(Marked(b, h, tier, verdict)) <= Cardinality(Marked(d, h, tier, verdict))
    BY <2>1, <2>2, <2>3, FS_Subset
  <2> QED
    BY <2>2, <2>3, <2>4, <2>5, FS_CardinalityType
<1> DEFINE n(cs, tier, verdict) == Cardinality(Marked(cs, h, tier, verdict))
<1>2. /\ \A t \in ts : t[2]
      /\ \A tier \in Tiers : n(d, tier, "blocked") = 0
      /\ <<n(a, "general", "clean"), n(a, "scope-security", "clean"),
           n(a, "correctness-race", "clean")>> =
         <<n(d, "general", "clean"), n(d, "scope-security", "clean"),
           n(d, "correctness-race", "clean")>>
      /\ <<n(d, "general", "clean"), n(d, "scope-security", "clean"),
           n(d, "correctness-race", "clean")>> =
         IF risk = "protected" THEN <<0, 1, 1>> ELSE <<1, 0, 0>>
  BY CleanMeans
<1>3. \A tier \in Tiers : n(b, tier, "blocked") = 0
  BY <1>1, <1>2
<1>4. /\ n(b, "general", "clean") = n(d, "general", "clean")
      /\ n(b, "scope-security", "clean") = n(d, "scope-security", "clean")
      /\ n(b, "correctness-race", "clean") = n(d, "correctness-race", "clean")
  BY <1>1, <1>2
<1> QED
  BY <1>2, <1>3, <1>4, CleanMeans

------------------------------------------------------------------------------
(* The reads *)

\* j is i at some stage, the list of open Pull Requests apart.
SameFacts(i, j) ==
  /\ j.pr = i.pr /\ j.pass = i.pass /\ j.default = i.default /\ j.head = i.head
  /\ j.body = i.body /\ j.source = i.source /\ j.issue = i.issue
  /\ j.authorization = i.authorization /\ j.files = i.files /\ j.runs = i.runs
  /\ j.comments = i.comments /\ j.review = i.review

\* To another stage, and with another list, the evidence is the same.
LEMMA StageFacts ==
  ASSUME NEW i \in Job, NEW s, NEW q
  PROVE  /\ SameFacts(i, To(i, s)) /\ To(i, s).stage = s
         /\ SameFacts(i, [i EXCEPT !.todo = q]) /\ [i EXCEPT !.todo = q].stage = i.stage
         /\ SameFacts(i, [To(i, s) EXCEPT !.todo = q]) /\ [To(i, s) EXCEPT !.todo = q].stage = s
  BY DEF To, Job, SameFacts

\* What lies between does not depend on the stage.
LEMMA SameBetween ==
  ASSUME NEW i, NEW j, NEW m, SameFacts(i, j), Between(i, m)
  PROVE  Between(j, m)
  BY DEF SameFacts, Between, Still, RunsBefore

\* What holds of i holds of j where j's stage asks for no more.
LEMMA SameEvident ==
  ASSUME NEW i, NEW j, SameFacts(i, j), Evident(i), j.stage # "idle", j.stage # "threads",
         HasPull(j) => HasPull(i), HasIssue(j) => HasIssue(i), HasScope(j) => HasScope(i),
         HasFiles(j) => HasFiles(i), HasRuns(j) => HasRuns(i),
         HasWorkflow(j) => HasWorkflow(i) \/ HeadWorkflow[j.head] = j.default.workflow
  PROVE  Evident(j)
  BY DEF SameFacts, Evident, Still, RunsBefore

\* The first reads: default branch and identity.
LEMMA ReadDefaultFacts ==
  ASSUME IInv, SInv, NEW c \in Coordinators, ReadDefault(c)
  PROVE  \E j : UNCHANGED world /\ (Stop(c) \/ (Advance(c, j) /\ Facts(j, mid[c])))
<1> DEFINE i == job[c]
           m == mid[c]
<1>1. i \in Job /\ i.stage = "default" /\ Evident(i) /\ Between(i, m) /\ Settled(i, m)
  BY HeldTypes DEF ReadDefault, At, Facts
<1>2. CASE i.pass = 1
  <2> DEFINE j == [To(i, "pull") EXCEPT !.default = default]
  <2>1. UNCHANGED world /\ (Stop(c) \/ Advance(c, j))
    BY <1>2 DEF ReadDefault, At, Gate, Advance
  <2>2. j.stage = "pull" /\ j.pass = 1
    BY <1>1, <1>2 DEF To, Job
  <2> HIDE DEF j
  <2>3. Facts(j, m)
    BY <2>2 DEF Facts, Evident, Between, Settled, HasPull, HasIssue, HasScope, HasFiles,
                HasWorkflow, HasRuns
  <2> QED
    BY <2>1, <2>3
<1>3. CASE i.pass = 2
  <2> DEFINE j == To(i, "files")
  <2>1. UNCHANGED world /\ (Stop(c) \/ Advance(c, j))
    BY <1>3 DEF ReadDefault, At, Gate, Advance
  <2>2. SameFacts(i, j) /\ j.stage = "files"
    BY <1>1, StageFacts
  <2> HIDE DEF j
  <2>3. Evident(j)
    BY <1>1, <1>3, <2>2, SameEvident
       DEF HasPull, HasIssue, HasScope, HasFiles, HasWorkflow, HasRuns, SameFacts
  <2>4. Settled(j, m)
    BY <1>1, <1>3, <2>2 DEF Settled, SameFacts, ReviewClean
  <2> QED
    BY <1>1, <2>1, <2>2, <2>3, <2>4, SameBetween DEF Facts
<1> QED
  BY <1>1, <1>2, <1>3 DEF Job

\* The identity read is of an open Pull Request and of a head that was seen.
LEMMA ReadPullFacts ==
  ASSUME IInv, SInv, NEW c \in Coordinators, ReadPull(c)
  PROVE  \E j : UNCHANGED world /\ (Stop(c) \/ (Advance(c, j) /\ Facts(j, mid[c])))
<1> DEFINE i == job[c]
           r == pull[i.pr]
           j == [To(i, "issue") EXCEPT !.head = r.head, !.body = r.body,
                                       !.source = BodyIssue[r.body]]
<1>1. i \in Job /\ i.stage = "pull" /\ i.pass = 1 /\ i.pr \in PRs
  BY HeldTypes DEF ReadPull, At
<1>2. UNCHANGED world /\ (Stop(c) \/ (Advance(c, j) /\ r.state = "open"))
  BY DEF ReadPull, Gate, Advance
<1>3. /\ j.stage = "issue" /\ j.pass = 1 /\ j.pr = i.pr /\ j.head = r.head
      /\ j.body = r.body /\ j.source = BodyIssue[r.body]
  BY <1>1 DEF To, Job
<1> HIDE DEF j
<1>4. WasSeen(i.pr, r.head)
  BY <1>1 DEF SInv, WorldInv
<1>5. CASE r.state = "open"
  <2>1. Evident(j)
    BY <1>3, <1>4, <1>5 DEF Evident, HasPull, HasIssue, HasScope, HasFiles, HasWorkflow, HasRuns
  <2>2. Between(j, mid[c]) /\ Settled(j, mid[c])
    BY <1>3 DEF Between, Settled
  <2> QED
    BY <1>2, <2>1, <2>2 DEF Facts
<1> QED
  BY <1>2, <1>5

\* The source Issue must be open, and then the same.
LEMMA ReadIssueFacts ==
  ASSUME IInv, SInv, NEW c \in Coordinators, ReadIssue(c)
  PROVE  \E j : UNCHANGED world /\ (Stop(c) \/ (Advance(c, j) /\ Facts(j, mid[c])))
<1> DEFINE i == job[c]
           m == mid[c]
<1>1. i \in Job /\ i.stage = "issue" /\ Evident(i) /\ Between(i, m) /\ Settled(i, m)
  BY HeldTypes DEF ReadIssue, At, Facts
<1>2. CASE i.pass = 1
  <2> DEFINE x == issue[i.source]
             j == [To(i, "authorization") EXCEPT !.issue = x]
  <2>1. UNCHANGED world /\ (Stop(c) \/ (Advance(c, j) /\ x.open))
    BY <1>2 DEF ReadIssue, At, Gate, Advance
  <2>2. /\ j.stage = "authorization" /\ j.pass = 1 /\ j.pr = i.pr /\ j.head = i.head
        /\ j.body = i.body /\ j.source = i.source /\ j.issue = x
    BY <1>1, <1>2 DEF To, Job
  <2> HIDE DEF j
  <2>3. CASE x.open
    <3>1. Evident(j)
      BY <1>1, <2>2, <2>3
         DEF Evident, HasPull, HasIssue, HasScope, HasFiles, HasWorkflow, HasRuns
    <3>2. Between(j, m) /\ Settled(j, m)
      BY <2>2 DEF Between, Settled
    <3> QED
      BY <2>1, <3>1, <3>2 DEF Facts
  <2> QED
    BY <2>1, <2>3
<1>3. CASE i.pass = 2
  <2> DEFINE j == To(i, "authorization")
  <2>1. UNCHANGED world /\ (Stop(c) \/ Advance(c, j))
    BY <1>3 DEF ReadIssue, At, Gate, Advance
  <2>2. SameFacts(i, j) /\ j.stage = "authorization"
    BY <1>1, StageFacts
  <2> HIDE DEF j
  <2>3. Evident(j)
    BY <1>1, <1>3, <2>2, SameEvident
       DEF HasPull, HasIssue, HasScope, HasFiles, HasWorkflow, HasRuns, SameFacts
  <2>4. Settled(j, m)
    BY <1>1, <1>3, <2>2 DEF Settled, SameFacts, ReviewClean
  <2> QED
    BY <1>1, <2>1, <2>2, <2>3, <2>4, SameBetween DEF Facts
<1> QED
  BY <1>1, <1>2, <1>3 DEF Job

\* The authorizations only grow: those at both reads were those in between.
LEMMA ReadAuthorizationFacts ==
  ASSUME IInv, SInv, NEW c \in Coordinators, ReadAuthorization(c)
  PROVE  \E j : UNCHANGED world /\ (Stop(c) \/ (Advance(c, j) /\ Facts(j, mid[c])))
<1> DEFINE i == job[c]
           m == mid[c]
           a == authorization[i.source]
<1>1. i \in Job /\ i.stage = "authorization" /\ Evident(i) /\ Between(i, m) /\ Settled(i, m)
  BY HeldTypes DEF ReadAuthorization, At, Facts
<1>2. CASE i.pass = 1
  <2> DEFINE j == [To(i, "files") EXCEPT !.authorization = a]
  <2>1. UNCHANGED world /\ (Stop(c) \/ (Advance(c, j) /\ ScopeValid(i.issue, a)))
    BY <1>2 DEF ReadAuthorization, At, Gate, Advance
  <2>2. /\ j.stage = "files" /\ j.pass = 1 /\ j.pr = i.pr /\ j.head = i.head
        /\ j.body = i.body /\ j.source = i.source /\ j.issue = i.issue
        /\ j.authorization = a
    BY <1>1, <1>2 DEF To, Job
  <2> HIDE DEF j
  <2>3. CASE ScopeValid(i.issue, a)
    <3>1. Evident(j)
      BY <1>1, <2>2, <2>3
         DEF Evident, HasPull, HasIssue, HasScope, HasFiles, HasWorkflow, HasRuns
    <3>2. Between(j, m) /\ Settled(j, m)
      BY <2>2 DEF Between, Settled
    <3> QED
      BY <2>1, <3>1, <3>2 DEF Facts
  <2> QED
    BY <2>1, <2>3
<1>3. CASE i.pass = 2
  <2> DEFINE j == To(i, "default")
  <2>1. UNCHANGED world /\ (Stop(c) \/ (Advance(c, j) /\ a = i.authorization))
    BY <1>3 DEF ReadAuthorization, At, Gate, Advance
  <2>2. SameFacts(i, j) /\ j.stage = "default"
    BY <1>1, StageFacts
  <2> HIDE DEF j
  <2>3. Evident(j)
    BY <1>1, <1>3, <2>2, SameEvident
       DEF HasPull, HasIssue, HasScope, HasFiles, HasWorkflow, HasRuns, SameFacts
  <2>4. CASE a = i.authorization
    <3>1. m.authorization = i.authorization
      BY <1>1, <1>3, <2>4 DEF Between
    <3>2. Settled(j, m)
      BY <1>1, <1>3, <2>2, <3>1 DEF Settled, SameFacts, ReviewClean
    <3> QED
      BY <1>1, <2>1, <2>2, <2>3, <3>2, SameBetween DEF Facts
  <2> QED
    BY <2>1, <2>4
<1> QED
  BY <1>1, <1>2, <1>3 DEF Job

\* The files are those of the head under evaluation while it is the head.
LEMMA ReadFilesFacts ==
  ASSUME IInv, SInv, NEW c \in Coordinators, ReadFiles(c)
  PROVE  \E j : UNCHANGED world /\ (Stop(c) \/ (Advance(c, j) /\ Facts(j, mid[c])))
<1> DEFINE i == job[c]
           m == mid[c]
           f == HeadPaths[pull[i.pr].head]
<1>1. i \in Job /\ i.stage = "files" /\ Evident(i) /\ Between(i, m) /\ Settled(i, m)
  BY HeldTypes DEF ReadFiles, At, Facts
<1>2. CASE i.pass = 1
  <2> DEFINE j == [To(i, "openPulls") EXCEPT !.files = f]
  <2>1. UNCHANGED world
        /\ (Stop(c) \/ (Advance(c, j) /\ InScope(f, i.issue, i.authorization)))
    BY <1>2 DEF ReadFiles, At, Gate, Advance
  <2>2. /\ j.stage = "openPulls" /\ j.pass = 1 /\ j.pr = i.pr /\ j.head = i.head
        /\ j.body = i.body /\ j.source = i.source /\ j.issue = i.issue
        /\ j.authorization = i.authorization /\ j.files = f
    BY <1>1, <1>2 DEF To, Job
  <2> HIDE DEF j
  <2>3. CASE InScope(f, i.issue, i.authorization)
    <3>1. Evident(j)
      BY <1>1, <2>2, <2>3
         DEF Evident, HasPull, HasIssue, HasScope, HasFiles, HasWorkflow, HasRuns, Still
    <3>2. Between(j, m) /\ Settled(j, m)
      BY <2>2 DEF Between, Settled
    <3> QED
      BY <2>1, <3>1, <3>2 DEF Facts
  <2> QED
    BY <2>1, <2>3
<1>3. CASE i.pass = 2
  <2> DEFINE j == To(i, "openPulls")
  <2>1. UNCHANGED world /\ (Stop(c) \/ Advance(c, j))
    BY <1>3 DEF ReadFiles, At, Gate, Advance
  <2>2. SameFacts(i, j) /\ j.stage = "openPulls"
    BY <1>1, StageFacts
  <2> HIDE DEF j
  <2>3. Evident(j)
    BY <1>1, <1>3, <2>2, SameEvident
       DEF HasPull, HasIssue, HasScope, HasFiles, HasWorkflow, HasRuns, SameFacts
  <2>4. Settled(j, m)
    BY <1>1, <1>3, <2>2 DEF Settled, SameFacts, ReviewClean
  <2> QED
    BY <1>1, <2>1, <2>2, <2>3, <2>4, SameBetween DEF Facts
<1> QED
  BY <1>1, <1>2, <1>3 DEF Job

\* The other Pull Requests decide nothing about this evidence.
LEMMA ReadOthersFacts ==
  ASSUME IInv, SInv, NEW c \in Coordinators,
         ReadOpenPulls(c) \/ ReadOtherFiles(c) \/ CompareWorkflows(c)
  PROVE  \E j : UNCHANGED world /\ (Stop(c) \/ (Advance(c, j) /\ Facts(j, mid[c])))
<1> DEFINE i == job[c]
           m == mid[c]
<1>1. i \in Job /\ i.pass \in {1, 2} /\ Evident(i) /\ Between(i, m) /\ Settled(i, m)
  BY HeldTypes DEF Facts, Job
<1>2. ASSUME NEW j, SameFacts(i, j), j.stage \in {"others", "runs"},
             i.stage \in {"openPulls", "others"},
             j.stage = "runs" => HeadWorkflow[i.head] = i.default.workflow
      PROVE  Facts(j, m)
  <2>1. Evident(j)
    BY <1>1, <1>2, SameEvident
       DEF HasPull, HasIssue, HasScope, HasFiles, HasWorkflow, HasRuns, SameFacts
  <2>2. Settled(j, m)
    BY <1>1, <1>2 DEF Settled, SameFacts, ReviewClean
  <2> QED
    BY <1>1, <1>2, <2>1, <2>2, SameBetween DEF Facts
<1>3. CASE ReadOpenPulls(c)
  <2> DEFINE j == [To(i, "others") EXCEPT !.todo = OpenOthers(i.pr)]
  <2>1. i.stage = "openPulls" /\ UNCHANGED world /\ (Stop(c) \/ Advance(c, j))
    BY <1>3 DEF ReadOpenPulls, Gate, Advance
  <2>2. SameFacts(i, j) /\ j.stage = "others"
    BY <1>1 DEF To, Job, SameFacts
  <2> HIDE DEF j
  <2> QED
    BY <1>2, <2>1, <2>2
<1>4. CASE ReadOtherFiles(c)
  <2>1. PICK q \in i.todo :
          UNCHANGED world /\ (Stop(c) \/ Advance(c, [i EXCEPT !.todo = i.todo \ {q}]))
    BY <1>4 DEF ReadOtherFiles, Gate, Advance
  <2> DEFINE j == [i EXCEPT !.todo = i.todo \ {q}]
  <2>2. i.stage = "others"
    BY <1>4 DEF ReadOtherFiles
  <2>3. SameFacts(i, j) /\ j.stage = "others"
    BY <1>1, <2>2, StageFacts
  <2>4. UNCHANGED world /\ (Stop(c) \/ Advance(c, j))
    BY <2>1
  <2> HIDE DEF j
  <2> QED
    BY <1>2, <2>2, <2>3, <2>4
<1>5. CASE CompareWorkflows(c)
  <2> DEFINE j == To(i, "runs")
  <2>1. i.stage = "others" /\ UNCHANGED world
        /\ (Stop(c) \/ (Advance(c, j) /\ HeadWorkflow[i.head] = i.default.workflow))
    BY <1>5 DEF CompareWorkflows, Gate, Advance
  <2>2. SameFacts(i, j) /\ j.stage = "runs"
    BY <1>1, StageFacts
  <2> HIDE DEF j
  <2> QED
    BY <1>2, <2>1, <2>2
<1> QED
  BY <1>3, <1>4, <1>5

\* The runs only go forward: those at both reads were those in between.
LEMMA ReadRunsFacts ==
  ASSUME IInv, SInv, NEW c \in Coordinators, ReadRuns(c)
  PROVE  \E j : UNCHANGED world /\ (Stop(c) \/ (Advance(c, j) /\ Facts(j, mid[c])))
<1> DEFINE i == job[c]
           m == mid[c]
           r == CheckSnapshot(runs[i.pr], i.head, i.default)
<1>1. /\ i \in Job /\ i.stage = "runs" /\ Evident(i) /\ Between(i, m) /\ Settled(i, m)
      /\ i.pr \in PRs /\ i.head \in Heads /\ Captured(i) /\ Remembered(i, m)
      /\ i.pass = 2 => m \in World
  BY HeldTypes DEF ReadRuns, At, Facts, HasPull
<1>2. Required(i.default) \subseteq Checks
  BY <1>1 DEF Captured, HasDefault, Required, Checks, Default
<1>3. \A k \in Checks : runs[i.pr][i.head][k] \in Run
  BY <1>1 DEF IInv, TypeOK, RepositoryTypeOK
<1>4. CASE i.pass = 1
  <2> DEFINE j == [To(i, "comments") EXCEPT !.runs = r]
  <2>1. UNCHANGED world /\ (Stop(c) \/ (Advance(c, j) /\ ChecksPass(r)))
    BY <1>4 DEF ReadRuns, At, Gate, Advance
  <2>2. /\ j.stage = "comments" /\ j.pass = 1 /\ j.pr = i.pr /\ j.head = i.head
        /\ j.body = i.body /\ j.source = i.source /\ j.issue = i.issue
        /\ j.authorization = i.authorization /\ j.files = i.files
        /\ j.default = i.default /\ j.runs = r
    BY <1>1, <1>4 DEF To, Job
  <2> HIDE DEF j
  <2>3. \A s \in r : LaterRun(s[2], runs[i.pr][i.head][s[1]])
    BY <1>2, <1>3, RunOrder DEF CheckSnapshot
  <2> HIDE DEF r
  <2>4. CASE ChecksPass(r)
    <3>1. Evident(j)
      BY <1>1, <2>2, <2>3, <2>4
         DEF Evident, HasPull, HasIssue, HasScope, HasFiles, HasWorkflow, HasRuns, Still,
             RunsBefore
    <3>2. Between(j, m) /\ Settled(j, m)
      BY <2>2 DEF Between, Settled
    <3> QED
      BY <2>1, <3>1, <3>2 DEF Facts
  <2> QED
    BY <2>1, <2>4
<1>5. CASE i.pass = 2
  <2> DEFINE j == To(i, "comments")
  <2>1. UNCHANGED world /\ (Stop(c) \/ (Advance(c, j) /\ r = i.runs))
    BY <1>5 DEF ReadRuns, At, Gate, Advance
  <2>2. SameFacts(i, j) /\ j.stage = "comments"
    BY <1>1, StageFacts
  <2> HIDE DEF j
  <2>3. Evident(j)
    BY <1>1, <1>5, <2>2, SameEvident
       DEF HasPull, HasIssue, HasScope, HasFiles, HasWorkflow, HasRuns, SameFacts
  <2>4. CASE r = i.runs
    <3>1. ASSUME NEW k \in Required(i.default)
          PROVE  m.runs[i.head][k] = runs[i.pr][i.head][k]
      <4>1. <<k, runs[i.pr][i.head][k]>> \in i.runs /\ k \in Checks
        BY <1>2, <2>4 DEF CheckSnapshot
      <4>2. /\ LaterRun(runs[i.pr][i.head][k], m.runs[i.head][k])
            /\ LaterRun(m.runs[i.head][k], runs[i.pr][i.head][k])
        BY <1>1, <1>5, <4>1 DEF Between, RunsBefore
      <4>3. m.runs[i.head][k] \in Run
        BY <1>1, <1>5, <4>1 DEF World
      <4> QED
        BY <1>3, <4>1, <4>2, <4>3, RunOrder
    <3>2. CheckSnapshot(m.runs, i.head, i.default) = i.runs
      BY <2>4, <3>1 DEF CheckSnapshot
    <3>3. Settled(j, m)
      BY <1>1, <1>5, <2>2, <3>2 DEF Settled, SameFacts, ReviewClean
    <3> QED
      BY <1>1, <2>1, <2>2, <2>3, <3>3, SameBetween DEF Facts
  <2> QED
    BY <2>1, <2>4
<1> QED
  BY <1>1, <1>4, <1>5 DEF Job

\* The comments read are all that the instant before held.
LEMMA ReadCommentsFacts ==
  ASSUME IInv, SInv, NEW c \in Coordinators, ReadComments(c)
  PROVE  \E j : UNCHANGED world /\ (Stop(c) \/ (Advance(c, j) /\ Facts(j, mid[c])))
<1> DEFINE i == job[c]
           m == mid[c]
           j == [To(i, "threads") EXCEPT !.comments = comments[i.pr]]
<1>1. i \in Job /\ i.stage = "comments" /\ Evident(i) /\ Between(i, m) /\ Settled(i, m)
  BY HeldTypes DEF ReadComments, Facts
<1>2. UNCHANGED world /\ (Stop(c) \/ Advance(c, j))
  BY DEF ReadComments, Gate, Advance
<1>3. /\ j.stage = "threads" /\ j.pass = i.pass /\ j.pr = i.pr /\ j.head = i.head
      /\ j.body = i.body /\ j.source = i.source /\ j.issue = i.issue
      /\ j.authorization = i.authorization /\ j.files = i.files
      /\ j.default = i.default /\ j.runs = i.runs /\ j.review = i.review
      /\ j.comments = comments[i.pr]
  BY <1>1 DEF To, Job
<1> HIDE DEF j
<1>4. Evident(j)
  BY <1>1, <1>3
     DEF Evident, HasPull, HasIssue, HasScope, HasFiles, HasWorkflow, HasRuns, Still,
         RunsBefore
<1>5. Between(j, m)
  BY <1>1, <1>3 DEF Between, Still, RunsBefore
<1>6. Settled(j, m)
  BY <1>1, <1>3 DEF Settled, Between, ReviewClean
<1> QED
  BY <1>2, <1>4, <1>5, <1>6 DEF Facts

\* The reread of the Pull Request decides, and the head is looked at again.
LEMMA RereadFacts ==
  ASSUME IInv, SInv, NEW c \in Coordinators, RereadPull(c) \/ RecheckHead(c)
  PROVE  \E j : UNCHANGED world /\ (Stop(c) \/ (Advance(c, j) /\ Facts(j, mid[c])))
<1> DEFINE i == job[c]
           m == mid[c]
<1>1. /\ i \in Job /\ Evident(i) /\ Between(i, m) /\ Settled(i, m) /\ Captured(i)
      /\ i.pass = 2 => m \in World
  BY HeldTypes DEF Facts
<1>2. CASE RereadPull(c)
  <2> DEFINE s == IF pull[i.pr].draft THEN "ready" ELSE "merge"
             j == To(i, s)
  <2>1. i.stage = "pull" /\ i.pass = 2 /\ UNCHANGED world
        /\ (Stop(c) \/ (Advance(c, j) /\ pull[i.pr].state = "open" /\ pull[i.pr].head = i.head))
    BY <1>2 DEF RereadPull, At, Gate, Advance
  <2>a. s \in {"ready", "merge"}
    OBVIOUS
  <2> HIDE DEF s
  <2>2. SameFacts(i, j) /\ j.stage \in {"ready", "merge"}
    BY <1>1, <2>a, StageFacts
  <2> HIDE DEF j
  <2>3. Evident(j)
    BY <1>1, <2>1, <2>2, SameEvident
       DEF HasPull, HasIssue, HasScope, HasFiles, HasWorkflow, HasRuns, SameFacts
  <2>4. CASE pull[i.pr].state = "open" /\ pull[i.pr].head = i.head
    <3>1. m.pull.state = "open" /\ m.pull.head = i.head
      BY <1>1, <2>1, <2>4 DEF Between, Still, World, Pull
    <3>2. i.files = HeadPaths[i.head]
      BY <1>1, <2>1, <2>4 DEF Evident, HasFiles, HasScope, HasIssue, Still
    <3>3. Settled(j, m)
      BY <1>1, <2>1, <2>2, <3>1, <3>2 DEF Settled, SameFacts, ReviewClean
    <3> QED
      BY <1>1, <2>1, <2>2, <2>3, <3>3, SameBetween DEF Facts
  <2> QED
    BY <2>1, <2>4
<1>3. CASE RecheckHead(c)
  <2> DEFINE j == To(i, "markReady")
  <2>1. i.stage = "ready" /\ UNCHANGED world /\ (Stop(c) \/ Advance(c, j))
    BY <1>3 DEF RecheckHead, Gate, Advance
  <2>2. SameFacts(i, j) /\ j.stage = "markReady" /\ i.pass = 2
    BY <1>1, <2>1, StageFacts DEF Captured
  <2> HIDE DEF j
  <2>3. Evident(j)
    BY <1>1, <2>1, <2>2, SameEvident
       DEF HasPull, HasIssue, HasScope, HasFiles, HasWorkflow, HasRuns, SameFacts
  <2>4. Settled(j, m)
    BY <1>1, <2>1, <2>2 DEF Settled, SameFacts, ReviewClean
  <2> QED
    BY <1>1, <2>1, <2>2, <2>3, <2>4, SameBetween DEF Facts
<1> QED
  BY <1>2, <1>3

\* The end of a pass.  The first takes the history value; of the comments then
\* there are at least those read before and at most those read again, and
\* both are a clean review.
LEMMA ReadThreadsSnapshot ==
  ASSUME IInv, IInv', SInv, NothingRestored, NEW c \in Coordinators, ReadThreads(c)
  PROVE  SInv'
<1> DEFINE i == job[c]
           m == mid[c]
           ts == ThreadSnapshot(i.pr)
           risk == Risk(i.issue, i.authorization)
           r == ReviewEvidence(i.comments, ts, i.head, risk)
<1>1. /\ i \in Job /\ i.stage = "threads" /\ Evident(i) /\ Between(i, m) /\ Settled(i, m)
      /\ i.pr \in PRs /\ i.head \in Heads /\ i.source \in Issues
  BY HeldTypes DEF ReadThreads, At, Facts, HasPull
<1>2. r.state = ReviewState(i.comments, ts, i.head, risk) /\ r.threads = ts
  BY DEF ReviewEvidence
<1>3. CASE At(c, "threads", 2)
  <2> DEFINE j == [To(i, "pull") EXCEPT !.comments = {}]
  <2>1. i.pass = 2 /\ UNCHANGED world /\ (Stop(c) \/ (Advance(c, j) /\ r = i.review))
    BY <1>3 DEF ReadThreads, At, Gate, Advance
  <2>2. /\ j.stage = "pull" /\ j.pass = i.pass /\ j.pr = i.pr /\ j.head = i.head
        /\ j.body = i.body /\ j.source = i.source /\ j.issue = i.issue
        /\ j.authorization = i.authorization /\ j.files = i.files
        /\ j.default = i.default /\ j.runs = i.runs /\ j.review = i.review
    BY <1>1 DEF To, Job
  <2> HIDE DEF j, r
  <2>3. Evident(j)
    BY <1>1, <2>1, <2>2
       DEF Evident, HasPull, HasIssue, HasScope, HasFiles, HasWorkflow, HasRuns, Still,
           RunsBefore
  <2>4. Between(j, m)
    BY <1>1, <2>2 DEF Between, Still, RunsBefore
  <2>5. CASE r = i.review
    <3>1. ReviewState(i.comments, m.threads, i.head, risk) = "clean"
      BY <1>1, <1>2, <2>1, <2>5 DEF Settled
    <3>2. PICK cs \in SUBSET m.comments : ReviewState(cs, m.threads, i.head, risk) = "clean"
      BY <1>1, <2>1 DEF Settled, ReviewClean
    <3>3. m.comments \subseteq i.comments /\ IsFiniteSet(i.comments)
      <4>1. m.comments \subseteq i.comments /\ i.comments \subseteq comments[i.pr]
        BY <1>1, <2>1 DEF Settled, Evident
      <4> QED
        BY <1>1, <4>1, FS_Subset DEF SInv, WorldInv
    <3>4. ReviewState(m.comments, m.threads, i.head, risk) = "clean"
      <4> HIDE DEF risk, i, m
      <4> QED
        BY <3>1, <3>2, <3>3, CleanBetween
    <3>5. Settled(j, m)
      BY <1>1, <2>1, <2>2, <3>4 DEF Settled, ReviewClean
    <3> QED
      BY <2>1, <2>3, <2>4, <3>5, TookSnapshot DEF Facts
  <2>6. CASE r # i.review
    BY <2>1, <2>6, TookSnapshot
  <2> QED
    BY <2>5, <2>6
<1>4. CASE At(c, "threads", 1) /\ r.state # "clean" /\ Gate(c, FALSE, i)
  BY <1>4, TookSnapshot DEF Gate
<1>5. CASE /\ At(c, "threads", 1) /\ r.state = "clean"
           /\ job' = [job EXCEPT ![c] = [To(i, "issue") EXCEPT !.pass = 2,
                                           !.comments = {}, !.review = r]]
           /\ mid' = [mid EXCEPT ![c] = WorldOf(i.pr, i.source)]
           /\ UNCHANGED <<world, failures>>
  <2> DEFINE j == [To(i, "issue") EXCEPT !.pass = 2, !.comments = {}, !.review = r]
             w == WorldOf(i.pr, i.source)
  <2>1. job' = [job EXCEPT ![c] = j] /\ mid' = [mid EXCEPT ![c] = w] /\ UNCHANGED world
    BY <1>5
  <2>2. /\ j.stage = "issue" /\ j.pass = 2 /\ j.pr = i.pr /\ j.head = i.head
        /\ j.body = i.body /\ j.source = i.source /\ j.issue = i.issue
        /\ j.authorization = i.authorization /\ j.files = i.files
        /\ j.default = i.default /\ j.runs = i.runs /\ j.review = r
    BY <1>1 DEF To, Job
  <2>3. /\ w.pull = pull[i.pr] /\ w.authorization = authorization[i.source]
        /\ w.runs = runs[i.pr] /\ w.comments = comments[i.pr] /\ w.threads = ts
    BY DEF WorldOf
  <2>4. ReviewState(i.comments, ts, i.head, risk) = "clean"
    BY <1>2, <1>5
  <2> HIDE DEF j, w, r
  <2>5. Evident(j)
    BY <1>1, <2>2
       DEF Evident, HasPull, HasIssue, HasScope, HasFiles, HasWorkflow, HasRuns, Still,
           RunsBefore
  <2>6. Between(j, w)
    <3>1. \A k \in Checks : LaterRun(runs[i.pr][i.head][k], runs[i.pr][i.head][k])
      BY <1>1, RunOrder DEF IInv, TypeOK, RepositoryTypeOK
    <3> QED
      BY <1>1, <2>2, <2>3, <3>1
         DEF Evident, Between, HasPull, HasIssue, HasScope, HasRuns, Still, RunsBefore
  <2>7. Settled(j, w)
    <3>1. i.comments \in SUBSET w.comments /\ ReviewClean(j, i.comments, w.threads)
      BY <1>1, <2>2, <2>3, <2>4 DEF Evident, ReviewClean
    <3> QED
      BY <1>2, <2>2, <2>3, <2>4, <3>1 DEF Settled
  <2> QED
    BY <2>1, <2>5, <2>6, <2>7, MoveSnapshot DEF Facts
<1> QED
  BY <1>3, <1>4, <1>5 DEF ReadThreads, Gate

\* The invariant of the double read is inductive.
LEMMA SnapshotInductive ==
  ASSUME NothingRestored
  PROVE  IInv /\ SInv /\ [Next]_vars => SInv'
<1> SUFFICES ASSUME IInv, SInv, [Next]_vars PROVE SInv'
  OBVIOUS
<1>0. IInv'
  BY Inductive
<1>1. ASSUME WorldStep, UNCHANGED <<job, mid>>
      PROVE  SInv'
  <2>1. Forward /\ WorldInv' /\ RepositoryTypeOK'
    BY <1>0, <1>1, WorldForward DEF IInv, TypeOK, SInv
  <2> QED
    BY <1>1, <2>1, KeepFacts DEF SInv
<1>2. ASSUME NEW c \in Coordinators, Supervise(c) \/ Fail(c) \/ \E p \in PRs : Start(c, p)
      PROVE  SInv'
  <2>0. /\ job[c].stage # "idle" => job[c].pr \in PRs
        /\ job[c].stage = "merge" => job[c].head \in Heads
    BY HeldTypes DEF HasPull
  <2>1. ASSUME \E j : UNCHANGED world /\ (Stop(c) \/ (Advance(c, j) /\ Facts(j, mid[c])))
        PROVE  SInv'
    BY <1>0, <2>1, TookSnapshot
  <2>2. CASE \E p \in PRs : Start(c, p)
    <3>1. PICK p \in PRs : Start(c, p)
      BY <2>2
    <3>2. UNCHANGED world /\ Advance(c, Begin(p, FALSE)) /\ Facts(Begin(p, FALSE), mid[c])
      BY <3>1, FreshJobs, FreshFacts DEF Start, Gate, Advance
    <3> QED
      BY <2>1, <3>2
  <2>3. CASE MarkReady(c)
    <3>1. Fresh(Begin(job[c].pr, TRUE)) /\ WorldStep
      BY <2>0, <2>3, FreshJobs DEF MarkReady, WorldStep
    <3> QED
      BY <1>0, <2>3, <3>1, FreshSnapshot DEF MarkReady
  <2>4. CASE Merge(c) \/ Rejected(c) \/ Fail(c)
    <3>1. WorldStep /\ Stop(c)
      BY <2>0, <2>4 DEF Merge, Rejected, Fail, Gate, WorldStep
    <3> QED
      BY <1>0, <3>1, FreshJobs, FreshSnapshot DEF Stop
  <2> QED
    BY <1>0, <1>2, <2>1, <2>2, <2>3, <2>4, ReadDefaultFacts, ReadPullFacts, ReadIssueFacts,
       ReadAuthorizationFacts, ReadFilesFacts, ReadOthersFacts, ReadRunsFacts,
       ReadCommentsFacts, ReadThreadsSnapshot, RereadFacts DEF Supervise
<1>3. CASE Others
  BY <1>1, <1>3 DEF Others, WorldStep
<1>4. CASE UNCHANGED vars
  BY <1>1, <1>4 DEF vars, world, WorldStep
<1> QED
  BY <1>2, <1>3, <1>4 DEF Next

\* At the beginning the first heads have been seen and nothing is claimed.
LEMMA SnapshotInitially == Init => SInv
<1> SUFFICES ASSUME Init PROVE SInv
  OBVIOUS
<1>1. PICK m \in MarkSets : comments = [p \in PRs |->
        {[id |-> 0, head |-> InitialPull[p].head, marks |-> m, substantial |-> TRUE]}]
  BY DEF Init, RepositoryInit
<1>2. \A p \in PRs : IsFiniteSet(comments[p])
  BY <1>1, FS_Singleton
<1>3. \A p \in PRs : InitialPull[p].head \in Heads
  BY ContentAssumption DEF Pull
<1>4. \A p \in PRs : WasSeen(p, pull[p].head)
  BY <1>3 DEF Init, RepositoryInit, WasSeen
<1>5. \A c \in Coordinators : Facts(job[c], mid[c])
  BY FreshJobs, FreshFacts DEF Init
<1> QED
  BY <1>2, <1>4, <1>5 DEF SInv, WorldInv

\* Whenever evaluate() decides on Ready or merge, every gate it passed call by
\* call held at one and the same instant, for any number of coordinators, Pull
\* Requests and changes, as long as no change restores what a read has seen.
THEOREM SnapshotCorrect ==
  ASSUME NothingRestored
  PROVE  Spec => []SnapshotAtomic
<1>1. Init => IInv /\ SInv
  BY Initially, SnapshotInitially
<1>2. IInv /\ SInv /\ [Next]_vars => (IInv /\ SInv)'
  BY Inductive, SnapshotInductive
<1>3. IInv /\ SInv => SnapshotAtomic
  BY SInvImpliesSnapshot
<1> QED
  BY <1>1, <1>2, <1>3, PTL DEF Spec

------------------------------------------------------------------------------
(* Only a coordinator merges *)

\* Nothing others do to the repository merges a Pull Request.
LEMMA OthersMergeNothing ==
  ASSUME RepositoryTypeOK, RepositoryNext, NEW p \in PRs
  PROVE  ~Merges(p)
<1>1. \A q \in PRs : pull[q] \in Pull
  BY DEF RepositoryTypeOK
<1>2. ASSUME NEW q \in PRs, NEW new, EditPull(q, new),
             new.state = "merged" => pull[q].state = "merged"
      PROVE  ~Merges(p)
  <2>1. pull'[p] = IF p = q THEN new ELSE pull[p]
    BY <1>2 DEF EditPull, RepositoryTypeOK
  <2> QED
    BY <1>2, <2>1 DEF Merges
<1>3. ASSUME NEW q \in PRs, ChangePull(q)
      PROVE  ~Merges(p)
  <2>1. ASSUME NEW h \in Heads, PushTo(q, h)
        PROVE  ~Merges(p)
    <3>1. [pull[q] EXCEPT !.head = h].state = pull[q].state
      BY <1>1 DEF Pull
    <3> QED
      BY <1>2, <2>1, <3>1 DEF PushTo
  <2>2. CASE EditBody(q)
    <3>1. PICK b \in Bodies : EditPull(q, [pull[q] EXCEPT !.body = b])
      BY <2>2 DEF EditBody
    <3>2. [pull[q] EXCEPT !.body = b].state = pull[q].state
      BY <1>1 DEF Pull
    <3> QED
      BY <1>2, <3>1, <3>2
  <2>3. /\ [pull[q] EXCEPT !.hold = ~@].state = pull[q].state
        /\ [pull[q] EXCEPT !.mergeable = ~@].state = pull[q].state
        /\ [pull[q] EXCEPT !.draft = ~@].state = pull[q].state
        /\ [pull[q] EXCEPT !.state = "open"].state = "open"
        /\ [pull[q] EXCEPT !.state = "closed"].state = "closed"
    BY <1>1 DEF Pull
  <2> QED
    BY <1>2, <1>3, <2>1, <2>2, <2>3
       DEF ChangePull, Push, PushBack, ToggleHold, ToggleMergeable, ToggleDraft,
           OpenPull, ClosePull
<1>4. ASSUME pull' = pull
      PROVE  ~Merges(p)
  BY <1>4 DEF Merges
<1> QED
  BY <1>3, <1>4
     DEF RepositoryNext, MoveDefault, ChangeEvidence, CompleteRun, Rerun, PostReview,
         RetractReview, OpenThread, ResolveThread, ReopenThread, SetRun, SetComments,
         SetThread, ChangeIssue, EditIssue, Authorize, Withdraw, SetAuthorization

\* A merge is the mutation of a coordinator at its last stage, of the very
\* head it evaluated, or of one whose merge request fails after the fact.
LEMMA CoordinatorMerges ==
  ASSUME IInv, [Next]_vars, NEW p \in PRs, Merges(p)
  PROVE  \E c \in Coordinators :
           /\ job[c].stage = "merge" /\ job[c].pr = p
           /\ pull[p].head = job[c].head /\ ~pull[p].draft
<1>1. /\ RepositoryTypeOK /\ ~UNCHANGED vars /\ ~Others /\ pull' # pull
      /\ \A q \in PRs : pull[q] \in Pull
  BY OthersMergeNothing DEF IInv, TypeOK, RepositoryTypeOK, Merges, vars, Others
<1>2. PICK c \in Coordinators : (\E q \in PRs : Start(c, q)) \/ Supervise(c) \/ Fail(c)
  BY <1>1 DEF Next
<1>3. Merge(c) \/ Fail(c) \/ MarkReady(c)
  BY <1>1, <1>2
     DEF Supervise, Start, ReadDefault, ReadPull, ReadIssue, ReadAuthorization, ReadFiles,
         ReadOpenPulls, ReadOtherFiles, CompareWorkflows, ReadRuns, ReadComments,
         ReadThreads, RereadPull, RecheckHead, Rejected, Gate, world
<1>4. ~Ready(job[c].pr)
  <2> SUFFICES ASSUME Ready(job[c].pr) PROVE FALSE
    OBVIOUS
  <2>1. pull'[p] = pull[p] \/ pull'[p] = [pull[p] EXCEPT !.draft = FALSE]
    BY <1>1 DEF Ready, RepositoryTypeOK
  <2> QED
    BY <1>1, <2>1 DEF Merges, Pull
<1>5. job[c].stage = "merge" /\ MergeHead(job[c].pr, job[c].head)
  BY <1>1, <1>3, <1>4 DEF Merge, Fail, MarkReady, world
<1>6. job[c].pr = p
  BY <1>1, <1>5 DEF MergeHead, Merges, RepositoryTypeOK
<1> QED
  BY <1>5, <1>6 DEF MergeHead, Mergeable

\* Whatever is merged is a head that a coordinator found clean, every gate of
\* its scope, checks and review at one instant; never one pushed later.
THEOREM MergeJudgedCorrect ==
  ASSUME NothingRestored
  PROVE  Spec => MergeJudged
<1>1. Init => IInv /\ SInv
  BY Initially, SnapshotInitially
<1>2. IInv /\ SInv /\ [Next]_vars => (IInv /\ SInv)'
  BY Inductive, SnapshotInductive
<1>3. ASSUME IInv, SInv, [Next]_vars
      PROVE  \A p \in PRs : Merges(p) =>
               \E c \in Coordinators :
                 /\ job[c].pr = p /\ job[c].head = pull[p].head
                 /\ GatesClean(mid[c], pull[p].head, job[c].source)
  <2> SUFFICES ASSUME NEW p \in PRs, Merges(p)
               PROVE  \E c \in Coordinators :
                        /\ job[c].pr = p /\ job[c].head = pull[p].head
                        /\ GatesClean(mid[c], pull[p].head, job[c].source)
    OBVIOUS
  <2>1. PICK c \in Coordinators : /\ job[c].stage = "merge" /\ job[c].pr = p
                                  /\ pull[p].head = job[c].head
    BY <1>3, CoordinatorMerges
  <2>2. GatesClean(mid[c], job[c].head, job[c].source)
    BY <1>3, <2>1, SInvImpliesSnapshot DEF SnapshotAtomic, Decided
  <2> QED
    BY <2>1, <2>2
<1> QED
  BY <1>1, <1>2, <1>3, PTL DEF Spec, MergeJudged

------------------------------------------------------------------------------
(* CollisionFree and FreshAfterReady.  The supervisor workflow runs one at a *)
(* time (its concurrency group), so nothing but a person opens, closes or    *)
(* readies a Pull Request while an evaluation reads.                         *)

OneCoordinator == \A c, d \in Coordinators : c = d

\* A Pull Request that overlapped at the instant of the history value is still
\* open, and if it still stands at that head the second pass meets it.
Apart(j, m) ==
  j.pass = 2 =>
    /\ \A o \in m.overlaps :
         /\ o[1] \in PRs \ {j.pr} /\ o[2] \in Heads
         /\ HeadPaths[o[2]] \intersect HeadPaths[m.pull.head] # {}
         /\ pull[o[1]].state = "open" /\ WasSeen(o[1], o[2])
    /\ j.stage \in {"others", "runs", "comments", "threads", "pull"} /\ Still(j) =>
         \A o \in m.overlaps :
           (j.stage = "others" /\ o[1] \in j.todo) \/ pull[o[1]].head # o[2]
    /\ j.stage \in {"ready", "markReady", "merge"} =>
         \A o \in m.overlaps : pull[o[1]].head # o[2]

CInv == \A c \in Coordinators : Apart(job[c], mid[c])

\* The invariant says of a decision what CollisionFree asks.
LEMMA CInvImpliesCollisionFree == IInv /\ CInv => CollisionFree
  BY DEF IInv, CInv, Captured, Apart, CollisionFree, Decided

\* While the repository is changed by others, and restores nothing, the
\* overlapping Pull Requests stay open and leave their heads for good.
LEMMA KeepApart ==
  ASSUME IInv, SInv, RepositoryTypeOK', Forward, NEW c \in Coordinators, CInv,
         job'[c] = job[c], mid'[c] = mid[c], \A p \in PRs : ~Merges(p)
  PROVE  Apart(job[c], mid[c])'
<1> DEFINE j == job[c]
           m == mid[c]
<1> SUFFICES ASSUME j.pass = 2 PROVE Apart(j, m)'
  BY DEF Apart
<1>1. /\ Apart(j, m) /\ j.pr \in PRs /\ j.head \in Heads /\ WasSeen(j.pr, j.head)
  BY HeldTypes DEF CInv, Facts, Evident, HasPull
<1>2. pull'[j.pr].head = j.head => pull[j.pr].head = j.head
  BY <1>1 DEF Forward
<1>3. ASSUME NEW o \in m.overlaps
      PROVE  /\ o[1] \in PRs \ {j.pr} /\ o[2] \in Heads
             /\ HeadPaths[o[2]] \intersect HeadPaths[m.pull.head] # {}
             /\ pull'[o[1]].state = "open" /\ \A k \in Checks : runs'[o[1]][o[2]][k].id > 0
             /\ pull[o[1]].head # o[2] => pull'[o[1]].head # o[2]
  <2>1. /\ o[1] \in PRs \ {j.pr} /\ o[2] \in Heads
        /\ HeadPaths[o[2]] \intersect HeadPaths[m.pull.head] # {}
        /\ pull[o[1]].state = "open" /\ WasSeen(o[1], o[2])
    BY <1>1 DEF Apart
  <2>2. pull[o[1]] \in Pull /\ pull'[o[1]] \in Pull
    BY <2>1 DEF IInv, TypeOK, RepositoryTypeOK
  <2>3. pull'[o[1]].state = "open"
    BY <2>1, <2>2 DEF Forward, Merges, Pull
  <2>4. ASSUME NEW k \in Checks
        PROVE  runs'[o[1]][o[2]][k].id > 0
    <3>1. runs[o[1]][o[2]][k] \in Run /\ runs'[o[1]][o[2]][k] \in Run
      BY <2>1 DEF IInv, TypeOK, RepositoryTypeOK
    <3>2. LaterRun(runs[o[1]][o[2]][k], runs'[o[1]][o[2]][k]) /\ runs[o[1]][o[2]][k].id > 0
      BY <2>1 DEF Forward, WasSeen
    <3> QED
      BY <3>1, <3>2 DEF LaterRun, Run
  <2>5. pull[o[1]].head # o[2] => pull'[o[1]].head # o[2]
    BY <2>1 DEF Forward
  <2> QED
    BY <2>1, <2>3, <2>4, <2>5
<1> QED
  BY <1>1, <1>2, <1>3 DEF Apart, Still, WasSeen

\* The one coordinator takes job j and history m while the repository rests.
LEMMA MoveApart ==
  ASSUME IInv, OneCoordinator, UNCHANGED world, NEW c \in Coordinators, NEW j, NEW m,
         Apart(j, m), job' = [job EXCEPT ![c] = j], mid' = [mid EXCEPT ![c] = m]
  PROVE  CInv'
<1> SUFFICES ASSUME NEW d \in Coordinators PROVE Apart(job[d], mid[d])'
  BY DEF CInv
<1>1. job'[d] = j /\ mid'[d] = m
  BY DEF OneCoordinator, IInv, TypeOK
<1>2. UNCHANGED <<pull, runs>>
  BY DEF world
<1> QED
  BY <1>1, <1>2 DEF Apart, Still, WasSeen

\* The one coordinator begins again or stops.
LEMMA FreshApart ==
  ASSUME IInv, OneCoordinator, NEW c \in Coordinators, NEW j, Fresh(j),
         job' = [job EXCEPT ![c] = j]
  PROVE  CInv'
<1> SUFFICES ASSUME NEW d \in Coordinators PROVE Apart(job[d], mid[d])'
  BY DEF CInv
<1>1. job'[d] = j
  BY DEF OneCoordinator, IInv, TypeOK
<1> QED
  BY <1>1 DEF Fresh, Apart

\* A read stops the coordinator, or moves it on to a j that is apart.
LEMMA TookApart ==
  ASSUME IInv, OneCoordinator, NEW c \in Coordinators, NEW j,
         UNCHANGED world, Stop(c) \/ (Advance(c, j) /\ Apart(j, mid[c]))
  PROVE  CInv'
<1>1. CASE Stop(c)
  BY <1>1, FreshJobs, FreshApart DEF Stop
<1>2. CASE Advance(c, j) /\ Apart(j, mid[c])
  <2>1. mid' = [mid EXCEPT ![c] = mid[c]]
    BY <1>2 DEF Advance, IInv, TypeOK
  <2> QED
    BY <1>2, <2>1, MoveApart DEF Advance
<1> QED
  BY <1>1, <1>2

\* The reads that list and query the other Pull Requests.
LEMMA OthersApart ==
  ASSUME IInv, SInv, CInv, OneCoordinator, NEW c \in Coordinators,
         ReadOpenPulls(c) \/ ReadOtherFiles(c) \/ CompareWorkflows(c)
  PROVE  CInv'
<1> DEFINE i == job[c]
           m == mid[c]
<1>1. i \in Job /\ Apart(i, m) /\ Facts(i, m) /\ (i.stage # "idle" => i.pr \in PRs)
  BY HeldTypes DEF CInv
<1>2. CASE ReadOpenPulls(c)
  <2> DEFINE j == [To(i, "others") EXCEPT !.todo = OpenOthers(i.pr)]
  <2>1. i.stage = "openPulls" /\ UNCHANGED world /\ (Stop(c) \/ Advance(c, j))
    BY <1>2 DEF ReadOpenPulls, Gate, Advance
  <2>2. j.stage = "others" /\ j.pass = i.pass /\ j.pr = i.pr /\ j.todo = OpenOthers(i.pr)
    BY <1>1 DEF To, Job
  <2> HIDE DEF j
  <2>3. Apart(j, m)
    BY <1>1, <2>1, <2>2 DEF Apart, OpenOthers
  <2> QED
    BY <2>1, <2>3, TookApart
<1>3. CASE ReadOtherFiles(c)
  <2>1. PICK q \in i.todo :
          /\ UNCHANGED world
          /\ \/ Stop(c)
             \/ /\ Advance(c, [i EXCEPT !.todo = i.todo \ {q}])
                /\ HeadPaths[pull[q].head] \intersect i.files = {}
    BY <1>3 DEF ReadOtherFiles, Gate, Advance
  <2> DEFINE j == [i EXCEPT !.todo = i.todo \ {q}]
  <2>2. i.stage = "others" /\ UNCHANGED world
        /\ (Stop(c) \/ (Advance(c, j) /\ HeadPaths[pull[q].head] \intersect i.files = {}))
    BY <1>3, <2>1 DEF ReadOtherFiles
  <2>3. /\ j.stage = "others" /\ j.pass = i.pass /\ j.pr = i.pr /\ j.head = i.head
        /\ j.todo = i.todo \ {q}
    BY <1>1, <2>2 DEF Job
  <2> HIDE DEF j
  <2>4. CASE HeadPaths[pull[q].head] \intersect i.files = {}
    <3>1. i.pass = 2 /\ Still(i) =>
            i.files = HeadPaths[m.pull.head]
      BY <1>1 DEF Facts, Evident, Between, HasFiles, HasScope, HasIssue
    <3>2. Apart(j, m)
      BY <1>1, <2>2, <2>3, <2>4, <3>1 DEF Apart, Still
    <3> QED
      BY <2>2, <3>2, TookApart
  <2> QED
    BY <2>2, <2>4, TookApart
<1>4. CASE CompareWorkflows(c)
  <2> DEFINE j == To(i, "runs")
  <2>1. i.stage = "others" /\ i.todo = {} /\ UNCHANGED world /\ (Stop(c) \/ Advance(c, j))
    BY <1>4 DEF CompareWorkflows, Gate, Advance
  <2>2. j.stage = "runs" /\ j.pass = i.pass /\ j.pr = i.pr /\ j.head = i.head
    BY <1>1 DEF To, Job
  <2> HIDE DEF j
  <2>3. Apart(j, m)
    BY <1>1, <2>1, <2>2 DEF Apart, Still
  <2> QED
    BY <2>1, <2>3, TookApart
<1> QED
  BY <1>2, <1>3, <1>4

\* The reads after them, and those before the second pass comes to them.
LEMMA ReadsApart ==
  ASSUME IInv, SInv, CInv, OneCoordinator, NEW c \in Coordinators,
         \/ ReadDefault(c) \/ ReadPull(c) \/ ReadIssue(c) \/ ReadAuthorization(c)
         \/ ReadFiles(c) \/ ReadRuns(c) \/ ReadComments(c) \/ RereadPull(c) \/ RecheckHead(c)
  PROVE  CInv'
<1> DEFINE i == job[c]
           m == mid[c]
<1>1. i \in Job /\ i.pass \in {1, 2} /\ Apart(i, m) /\ Captured(i)
  BY HeldTypes DEF CInv, Job
<1>2. ASSUME NEW j, j.pass = 1, UNCHANGED world, Stop(c) \/ Advance(c, j)
      PROVE  CInv'
  BY <1>2, TookApart DEF Apart
<1>3. CASE i.pass = 1
  <2>1. CASE ReadDefault(c)
    <3> DEFINE j == [To(i, "pull") EXCEPT !.default = default]
    <3>1. UNCHANGED world /\ (Stop(c) \/ Advance(c, j))
      BY <1>3, <2>1 DEF ReadDefault, At, Gate, Advance
    <3>2. j.pass = 1
      BY <1>1, <1>3 DEF To, Job
    <3> HIDE DEF j
    <3> QED
      BY <1>2, <3>1, <3>2
  <2>2. CASE ReadPull(c)
    <3> DEFINE j == [To(i, "issue") EXCEPT !.head = pull[i.pr].head, !.body = pull[i.pr].body,
                                          !.source = BodyIssue[pull[i.pr].body]]
    <3>1. UNCHANGED world /\ (Stop(c) \/ Advance(c, j))
      BY <1>3, <2>2 DEF ReadPull, At, Gate, Advance
    <3>2. j.pass = 1
      BY <1>1, <1>3 DEF To, Job
    <3> HIDE DEF j
    <3> QED
      BY <1>2, <3>1, <3>2
  <2>3. CASE ReadIssue(c)
    <3> DEFINE j == [To(i, "authorization") EXCEPT !.issue = issue[i.source]]
    <3>1. UNCHANGED world /\ (Stop(c) \/ Advance(c, j))
      BY <1>3, <2>3 DEF ReadIssue, At, Gate, Advance
    <3>2. j.pass = 1
      BY <1>1, <1>3 DEF To, Job
    <3> HIDE DEF j
    <3> QED
      BY <1>2, <3>1, <3>2
  <2>4. CASE ReadAuthorization(c)
    <3> DEFINE j == [To(i, "files") EXCEPT !.authorization = authorization[i.source]]
    <3>1. UNCHANGED world /\ (Stop(c) \/ Advance(c, j))
      BY <1>3, <2>4 DEF ReadAuthorization, At, Gate, Advance
    <3>2. j.pass = 1
      BY <1>1, <1>3 DEF To, Job
    <3> HIDE DEF j
    <3> QED
      BY <1>2, <3>1, <3>2
  <2>5. CASE ReadFiles(c)
    <3> DEFINE j == [To(i, "openPulls") EXCEPT !.files = HeadPaths[pull[i.pr].head]]
    <3>1. UNCHANGED world /\ (Stop(c) \/ Advance(c, j))
      BY <1>3, <2>5 DEF ReadFiles, At, Gate, Advance
    <3>2. j.pass = 1
      BY <1>1, <1>3 DEF To, Job
    <3> HIDE DEF j
    <3> QED
      BY <1>2, <3>1, <3>2
  <2>6. CASE ReadRuns(c)
    <3> DEFINE j == [To(i, "comments") EXCEPT
                       !.runs = CheckSnapshot(runs[i.pr], i.head, i.default)]
    <3>1. UNCHANGED world /\ (Stop(c) \/ Advance(c, j))
      BY <1>3, <2>6 DEF ReadRuns, At, Gate, Advance
    <3>2. j.pass = 1
      BY <1>1, <1>3 DEF To, Job
    <3> HIDE DEF j
    <3> QED
      BY <1>2, <3>1, <3>2
  <2>7. CASE ReadComments(c)
    <3> DEFINE j == [To(i, "threads") EXCEPT !.comments = comments[i.pr]]
    <3>1. UNCHANGED world /\ (Stop(c) \/ Advance(c, j))
      BY <1>3, <2>7 DEF ReadComments, At, Gate, Advance
    <3>2. j.pass = 1
      BY <1>1, <1>3 DEF To, Job
    <3> HIDE DEF j
    <3> QED
      BY <1>2, <3>1, <3>2
  <2>8. CASE RecheckHead(c)
    <3> DEFINE j == To(i, "markReady")
    <3>1. UNCHANGED world /\ (Stop(c) \/ Advance(c, j))
      BY <1>3, <2>8 DEF RecheckHead, At, Gate, Advance
    <3>2. j.pass = 1
      BY <1>1, <1>3 DEF To, Job
    <3> HIDE DEF j
    <3> QED
      BY <1>2, <3>1, <3>2
  <2> QED
    BY <1>3, <2>1, <2>2, <2>3, <2>4, <2>5, <2>6, <2>7, <2>8 DEF RereadPull, At
<1>4. CASE i.pass = 2
  <2>1. ASSUME NEW s, NEW j, UNCHANGED world, Stop(c) \/ Advance(c, j),
               j.pass = 2, j.pr = i.pr, j.head = i.head, j.stage = s,
               s \in {"authorization", "default", "files", "openPulls"}
                 \/ (s = "comments" /\ i.stage = "runs")
                 \/ (s = "threads" /\ i.stage = "comments")
                 \/ (s = "markReady" /\ i.stage = "ready")
                 \/ (s \in {"ready", "merge"} /\ i.stage = "pull" /\ Still(i))
        PROVE  CInv'
    <3>1. Apart(j, m)
      BY <1>1, <1>4, <2>1 DEF Apart, Still
    <3> QED
      BY <2>1, <3>1, TookApart
  <2>2. \A s : /\ To(i, s).pass = 2 /\ To(i, s).pr = i.pr /\ To(i, s).head = i.head
               /\ To(i, s).stage = s
    BY <1>1, <1>4 DEF To, Job
  <2>3. CASE ReadComments(c)
    <3> DEFINE j == [To(i, "threads") EXCEPT !.comments = comments[i.pr]]
    <3>1. j.pass = 2 /\ j.pr = i.pr /\ j.head = i.head /\ j.stage = "threads"
      BY <1>1, <1>4 DEF To, Job
    <3>2. i.stage = "comments" /\ UNCHANGED world /\ (Stop(c) \/ Advance(c, j))
      BY <2>3 DEF ReadComments, Gate, Advance
    <3> HIDE DEF j
    <3> QED
      BY <2>1, <3>1, <3>2
  <2>4. CASE RereadPull(c)
    <3> DEFINE s == IF pull[i.pr].draft THEN "ready" ELSE "merge"
    <3>1. i.stage = "pull" /\ UNCHANGED world
          /\ (Stop(c) \/ (Advance(c, To(i, s)) /\ Still(i)))
      BY <2>4 DEF RereadPull, At, Gate, Advance, Still
    <3>2. s \in {"ready", "merge"}
      OBVIOUS
    <3> HIDE DEF s
    <3>3. CASE Stop(c)
      BY <3>1, <3>3, TookApart
    <3>4. CASE Advance(c, To(i, s)) /\ Still(i)
      BY <2>1, <2>2, <3>1, <3>2, <3>4
    <3> QED
      BY <3>1, <3>3, <3>4
  <2>5. \E s : /\ ~ReadComments(c) /\ ~RereadPull(c) =>
                    UNCHANGED world /\ (Stop(c) \/ Advance(c, To(i, s)))
               /\ s \in {"authorization", "default", "files", "openPulls"}
                    \/ (s = "comments" /\ i.stage = "runs")
                    \/ (s = "markReady" /\ i.stage = "ready")
    BY <1>4 DEF ReadDefault, ReadPull, ReadIssue, ReadAuthorization, ReadFiles, ReadRuns,
                RecheckHead, At, Gate, Advance
  <2> QED
    BY <2>1, <2>2, <2>3, <2>4, <2>5
<1> QED
  BY <1>1, <1>3, <1>4

\* The end of the first pass takes the overlaps of that instant, all of open
\* Pull Requests at their heads.
LEMMA ReadThreadsApart ==
  ASSUME IInv, SInv, CInv, OneCoordinator, NEW c \in Coordinators, ReadThreads(c)
  PROVE  CInv'
<1> DEFINE i == job[c]
           m == mid[c]
           r == ReviewEvidence(i.comments, ThreadSnapshot(i.pr), i.head,
                               Risk(i.issue, i.authorization))
<1>1. i \in Job /\ i.stage = "threads" /\ Apart(i, m) /\ i.pr \in PRs
  BY HeldTypes DEF ReadThreads, At, CInv
<1>2. CASE At(c, "threads", 2)
  <2> DEFINE j == [To(i, "pull") EXCEPT !.comments = {}]
  <2>1. UNCHANGED world /\ (Stop(c) \/ Advance(c, j))
    BY <1>2 DEF ReadThreads, At, Gate, Advance
  <2>2. j.stage = "pull" /\ j.pass = i.pass /\ j.pr = i.pr /\ j.head = i.head
    BY <1>1 DEF To, Job
  <2> HIDE DEF j
  <2>3. Apart(j, m)
    BY <1>1, <2>2 DEF Apart, Still
  <2> QED
    BY <2>1, <2>3, TookApart
<1>3. CASE Gate(c, FALSE, i)
  BY <1>3, TookApart DEF Gate
<1>4. CASE /\ job' = [job EXCEPT ![c] = [To(i, "issue") EXCEPT !.pass = 2,
                                           !.comments = {}, !.review = r]]
           /\ mid' = [mid EXCEPT ![c] = WorldOf(i.pr, i.source)]
           /\ UNCHANGED world
  <2> DEFINE j == [To(i, "issue") EXCEPT !.pass = 2, !.comments = {}, !.review = r]
             w == WorldOf(i.pr, i.source)
  <2>1. job' = [job EXCEPT ![c] = j] /\ mid' = [mid EXCEPT ![c] = w] /\ UNCHANGED world
    BY <1>4
  <2>2. j.stage = "issue" /\ j.pass = 2 /\ j.pr = i.pr
    BY <1>1 DEF To, Job
  <2>3. /\ w.pull = pull[i.pr]
        /\ w.overlaps = {<<q, pull[q].head>> : q \in Overlapping(i.pr, HeadPaths[pull[i.pr].head])}
    BY DEF WorldOf
  <2> HIDE DEF j, w, r
  <2>4. ASSUME NEW o \in w.overlaps
        PROVE  /\ o[1] \in PRs \ {i.pr} /\ o[2] \in Heads
               /\ HeadPaths[o[2]] \intersect HeadPaths[w.pull.head] # {}
               /\ pull[o[1]].state = "open" /\ WasSeen(o[1], o[2])
    <3>1. PICK q \in Overlapping(i.pr, HeadPaths[pull[i.pr].head]) : o = <<q, pull[q].head>>
      BY <2>3
    <3>2. /\ q \in PRs \ {i.pr} /\ pull[q].state = "open"
          /\ HeadPaths[pull[q].head] \intersect HeadPaths[pull[i.pr].head] # {}
      BY DEF Overlapping, OpenOthers
    <3>3. pull[q].head \in Heads /\ WasSeen(q, pull[q].head)
      BY <3>2 DEF SInv, WorldInv, IInv, TypeOK, RepositoryTypeOK, Pull
    <3> QED
      BY <2>3, <3>1, <3>2, <3>3
  <2>5. Apart(j, w)
    BY <2>2, <2>4 DEF Apart
  <2> QED
    BY <2>1, <2>5, MoveApart
<1> QED
  BY <1>2, <1>3, <1>4 DEF ReadThreads

\* The invariant of the second scan of the open Pull Requests is inductive.
LEMMA ApartInductive ==
  ASSUME NothingRestored, OneCoordinator
  PROVE  IInv /\ SInv /\ CInv /\ [Next]_vars => CInv'
<1> SUFFICES ASSUME IInv, SInv, CInv, [Next]_vars PROVE CInv'
  OBVIOUS
<1>0. IInv'
  BY Inductive
<1>1. ASSUME WorldStep, UNCHANGED <<job, mid>>, \A p \in PRs : ~Merges(p)
      PROVE  CInv'
  <2>1. Forward /\ RepositoryTypeOK'
    BY <1>0, <1>1, WorldForward DEF IInv, TypeOK, SInv
  <2> QED
    BY <1>1, <2>1, KeepApart DEF CInv
<1>2. ASSUME NEW c \in Coordinators, Supervise(c) \/ Fail(c) \/ \E p \in PRs : Start(c, p)
      PROVE  CInv'
  <2>0. job[c].stage # "idle" => job[c].pr \in PRs
    BY HeldTypes
  <2>1. CASE \E p \in PRs : Start(c, p)
    BY <2>1, FreshJobs, FreshApart DEF Start, Gate, Advance
  <2>2. CASE MarkReady(c)
    BY <2>0, <2>2, FreshJobs, FreshApart DEF MarkReady
  <2>3. CASE Merge(c) \/ Rejected(c) \/ Fail(c)
    BY <2>3, FreshJobs, FreshApart DEF Merge, Rejected, Fail, Gate, Stop
  <2> QED
    BY <1>2, <2>1, <2>2, <2>3, OthersApart, ReadsApart, ReadThreadsApart DEF Supervise
<1>3. CASE Others
  BY <1>1, <1>3, OthersMergeNothing DEF Others, WorldStep, IInv, TypeOK
<1>4. CASE UNCHANGED vars
  <2>1. \A p \in PRs : ~Merges(p)
    BY <1>4 DEF vars, Merges
  <2> QED
    BY <1>1, <1>4, <2>1 DEF vars, world, WorldStep
<1> QED
  BY <1>2, <1>3, <1>4 DEF Next

\* A Pull Request that was open and touched the candidate's paths at the
\* instant of the evidence, and still stands at that head, leads to no
\* decision: the second scan finds it however the scans interleave with
\* pushes, openings and the rest.
THEOREM CollisionFreeCorrect ==
  ASSUME NothingRestored, OneCoordinator
  PROVE  Spec => []CollisionFree
<1>1. Init => IInv /\ SInv /\ CInv
  <2>1. Init => CInv
    BY FreshJobs DEF Init, CInv, Fresh, Apart
  <2> QED
    BY <2>1, Initially, SnapshotInitially
<1>2. IInv /\ SInv /\ CInv /\ [Next]_vars => (IInv /\ SInv /\ CInv)'
  BY Inductive, SnapshotInductive, ApartInductive
<1>3. IInv /\ SInv /\ CInv => CollisionFree
  BY CInvImpliesCollisionFree
<1> QED
  BY <1>1, <1>2, <1>3, PTL DEF Spec

------------------------------------------------------------------------------
(* FreshAfterReady *)

\* The draft flag of the history value is the one of now.
SameDraft(j, m) ==
  j.pass = 2 => j.stage # "idle" /\ m.pull.draft = pull[j.pr].draft

DInv == \A c \in Coordinators : SameDraft(job[c], mid[c])

\* Nobody but the coordinator takes a Pull Request out of draft, or puts it back.
LEMMA DraftKept ==
  ASSUME RepositoryTypeOK, RepositoryNext, "draft" \notin EnvKinds, NEW p \in PRs
  PROVE  pull'[p].draft = pull[p].draft
<1>1. \A q \in PRs : pull[q] \in Pull
  BY DEF RepositoryTypeOK
<1>2. ASSUME NEW q \in PRs, NEW new, EditPull(q, new), new.draft = pull[q].draft
      PROVE  pull'[p].draft = pull[p].draft
  BY <1>2 DEF EditPull, RepositoryTypeOK
<1>3. ASSUME NEW q \in PRs, ChangePull(q)
      PROVE  pull'[p].draft = pull[p].draft
  <2>1. ASSUME NEW h \in Heads, PushTo(q, h)
        PROVE  pull'[p].draft = pull[p].draft
    <3>1. [pull[q] EXCEPT !.head = h].draft = pull[q].draft
      BY <1>1 DEF Pull
    <3> QED
      BY <1>2, <2>1, <3>1 DEF PushTo
  <2>2. CASE EditBody(q)
    <3>1. PICK b \in Bodies : EditPull(q, [pull[q] EXCEPT !.body = b])
      BY <2>2 DEF EditBody
    <3>2. [pull[q] EXCEPT !.body = b].draft = pull[q].draft
      BY <1>1 DEF Pull
    <3> QED
      BY <1>2, <3>1, <3>2
  <2>3. /\ [pull[q] EXCEPT !.hold = ~@].draft = pull[q].draft
        /\ [pull[q] EXCEPT !.mergeable = ~@].draft = pull[q].draft
        /\ [pull[q] EXCEPT !.state = "open"].draft = pull[q].draft
        /\ [pull[q] EXCEPT !.state = "closed"].draft = pull[q].draft
    BY <1>1 DEF Pull
  <2> QED
    BY <1>2, <1>3, <2>1, <2>2, <2>3
       DEF ChangePull, Push, PushBack, ToggleHold, ToggleMergeable, ToggleDraft, Change,
           OpenPull, ClosePull
<1> QED
  BY <1>3
     DEF RepositoryNext, MoveDefault, ChangeEvidence, CompleteRun, Rerun, PostReview,
         RetractReview, OpenThread, ResolveThread, ReopenThread, SetRun, SetComments,
         SetThread, ChangeIssue, EditIssue, Authorize, Withdraw, SetAuthorization

\* A read that does not end a pass stays in it, with the same Pull Request.
LEMMA ReadStays ==
  ASSUME IInv, NEW c \in Coordinators,
         \/ ReadDefault(c) \/ ReadPull(c) \/ ReadIssue(c) \/ ReadAuthorization(c)
         \/ ReadFiles(c) \/ ReadOpenPulls(c) \/ ReadOtherFiles(c) \/ CompareWorkflows(c)
         \/ ReadRuns(c) \/ ReadComments(c) \/ RereadPull(c) \/ RecheckHead(c)
  PROVE  \E j : /\ UNCHANGED world /\ (Stop(c) \/ Advance(c, j))
               /\ j.pr = job[c].pr /\ j.pass = job[c].pass /\ j.stage # "idle"
<1> DEFINE i == job[c]
<1>0. i \in Job
  BY DEF IInv, TypeOK
<1>a. ASSUME NEW j, UNCHANGED world, Stop(c) \/ Advance(c, j),
             j.pr = i.pr, j.pass = i.pass, j.stage # "idle"
      PROVE  \E k : /\ UNCHANGED world /\ (Stop(c) \/ Advance(c, k))
                   /\ k.pr = i.pr /\ k.pass = i.pass /\ k.stage # "idle"
  BY <1>a
<1>1. CASE ReadDefault(c)
  <2> DEFINE j == [To(i, "pull") EXCEPT !.default = default]
             k == To(i, "files")
  <2>1. UNCHANGED world /\ (Stop(c) \/ Advance(c, j) \/ Advance(c, k))
    BY <1>1 DEF ReadDefault, At, Gate, Advance
  <2>2. j.pr = i.pr /\ j.pass = i.pass /\ j.stage # "idle"
    BY <1>0 DEF To, Job
  <2>3. k.pr = i.pr /\ k.pass = i.pass /\ k.stage # "idle"
    BY <1>0 DEF To, Job
  <2> HIDE DEF j, k
  <2> QED
    BY <1>a, <2>1, <2>2, <2>3
<1>2. CASE ReadPull(c)
  <2> DEFINE j == [To(i, "issue") EXCEPT !.head = pull[i.pr].head, !.body = pull[i.pr].body,
                                         !.source = BodyIssue[pull[i.pr].body]]
  <2>1. UNCHANGED world /\ (Stop(c) \/ Advance(c, j))
    BY <1>2 DEF ReadPull, At, Gate, Advance
  <2>2. j.pr = i.pr /\ j.pass = i.pass /\ j.stage # "idle"
    BY <1>0 DEF To, Job
  <2> HIDE DEF j
  <2> QED
    BY <1>a, <2>1, <2>2
<1>3. CASE ReadIssue(c)
  <2> DEFINE j == [To(i, "authorization") EXCEPT !.issue = issue[i.source]]
             k == To(i, "authorization")
  <2>1. UNCHANGED world /\ (Stop(c) \/ Advance(c, j) \/ Advance(c, k))
    BY <1>3 DEF ReadIssue, At, Gate, Advance
  <2>2. j.pr = i.pr /\ j.pass = i.pass /\ j.stage # "idle"
    BY <1>0 DEF To, Job
  <2>3. k.pr = i.pr /\ k.pass = i.pass /\ k.stage # "idle"
    BY <1>0 DEF To, Job
  <2> HIDE DEF j, k
  <2> QED
    BY <1>a, <2>1, <2>2, <2>3
<1>4. CASE ReadAuthorization(c)
  <2> DEFINE j == [To(i, "files") EXCEPT !.authorization = authorization[i.source]]
             k == To(i, "default")
  <2>1. UNCHANGED world /\ (Stop(c) \/ Advance(c, j) \/ Advance(c, k))
    BY <1>4 DEF ReadAuthorization, At, Gate, Advance
  <2>2. j.pr = i.pr /\ j.pass = i.pass /\ j.stage # "idle"
    BY <1>0 DEF To, Job
  <2>3. k.pr = i.pr /\ k.pass = i.pass /\ k.stage # "idle"
    BY <1>0 DEF To, Job
  <2> HIDE DEF j, k
  <2> QED
    BY <1>a, <2>1, <2>2, <2>3
<1>5. CASE ReadFiles(c)
  <2> DEFINE j == [To(i, "openPulls") EXCEPT !.files = HeadPaths[pull[i.pr].head]]
             k == To(i, "openPulls")
  <2>1. UNCHANGED world /\ (Stop(c) \/ Advance(c, j) \/ Advance(c, k))
    BY <1>5 DEF ReadFiles, At, Gate, Advance
  <2>2. j.pr = i.pr /\ j.pass = i.pass /\ j.stage # "idle"
    BY <1>0 DEF To, Job
  <2>3. k.pr = i.pr /\ k.pass = i.pass /\ k.stage # "idle"
    BY <1>0 DEF To, Job
  <2> HIDE DEF j, k
  <2> QED
    BY <1>a, <2>1, <2>2, <2>3
<1>6. CASE ReadOpenPulls(c)
  <2> DEFINE j == [To(i, "others") EXCEPT !.todo = OpenOthers(i.pr)]
  <2>1. UNCHANGED world /\ (Stop(c) \/ Advance(c, j))
    BY <1>6 DEF ReadOpenPulls, Gate, Advance
  <2>2. j.pr = i.pr /\ j.pass = i.pass /\ j.stage # "idle"
    BY <1>0 DEF To, Job
  <2> HIDE DEF j
  <2> QED
    BY <1>a, <2>1, <2>2
<1>7. CASE CompareWorkflows(c)
  <2> DEFINE j == To(i, "runs")
  <2>1. UNCHANGED world /\ (Stop(c) \/ Advance(c, j))
    BY <1>7 DEF CompareWorkflows, Gate, Advance
  <2>2. j.pr = i.pr /\ j.pass = i.pass /\ j.stage # "idle"
    BY <1>0 DEF To, Job
  <2> HIDE DEF j
  <2> QED
    BY <1>a, <2>1, <2>2
<1>8. CASE ReadRuns(c)
  <2> DEFINE j == [To(i, "comments") EXCEPT
                      !.runs = CheckSnapshot(runs[i.pr], i.head, i.default)]
             k == To(i, "comments")
  <2>1. UNCHANGED world /\ (Stop(c) \/ Advance(c, j) \/ Advance(c, k))
    BY <1>8 DEF ReadRuns, At, Gate, Advance
  <2>2. j.pr = i.pr /\ j.pass = i.pass /\ j.stage # "idle"
    BY <1>0 DEF To, Job
  <2>3. k.pr = i.pr /\ k.pass = i.pass /\ k.stage # "idle"
    BY <1>0 DEF To, Job
  <2> HIDE DEF j, k
  <2> QED
    BY <1>a, <2>1, <2>2, <2>3
<1>9. CASE ReadComments(c)
  <2> DEFINE j == [To(i, "threads") EXCEPT !.comments = comments[i.pr]]
  <2>1. UNCHANGED world /\ (Stop(c) \/ Advance(c, j))
    BY <1>9 DEF ReadComments, Gate, Advance
  <2>2. j.pr = i.pr /\ j.pass = i.pass /\ j.stage # "idle"
    BY <1>0 DEF To, Job
  <2> HIDE DEF j
  <2> QED
    BY <1>a, <2>1, <2>2
<1>10. CASE RereadPull(c)
  <2> DEFINE j == To(i, "ready")
             k == To(i, "merge")
  <2>1. UNCHANGED world /\ (Stop(c) \/ Advance(c, j) \/ Advance(c, k))
    BY <1>10 DEF RereadPull, At, Gate, Advance
  <2>2. j.pr = i.pr /\ j.pass = i.pass /\ j.stage # "idle"
    BY <1>0 DEF To, Job
  <2>3. k.pr = i.pr /\ k.pass = i.pass /\ k.stage # "idle"
    BY <1>0 DEF To, Job
  <2> HIDE DEF j, k
  <2> QED
    BY <1>a, <2>1, <2>2, <2>3
<1>11. CASE RecheckHead(c)
  <2> DEFINE j == To(i, "markReady")
  <2>1. UNCHANGED world /\ (Stop(c) \/ Advance(c, j))
    BY <1>11 DEF RecheckHead, Gate, Advance
  <2>2. j.pr = i.pr /\ j.pass = i.pass /\ j.stage # "idle"
    BY <1>0 DEF To, Job
  <2> HIDE DEF j
  <2> QED
    BY <1>a, <2>1, <2>2
<1>12. CASE ReadOtherFiles(c)
  <2>1. PICK q \in i.todo :
          UNCHANGED world /\ (Stop(c) \/ Advance(c, [i EXCEPT !.todo = i.todo \ {q}]))
    BY <1>12 DEF ReadOtherFiles, Gate, Advance
  <2> DEFINE j == [i EXCEPT !.todo = i.todo \ {q}]
  <2>2. i.stage = "others" /\ UNCHANGED world /\ (Stop(c) \/ Advance(c, j))
    BY <1>12, <2>1 DEF ReadOtherFiles
  <2>3. j.pr = i.pr /\ j.pass = i.pass /\ j.stage # "idle"
    BY <1>0, <2>2 DEF Job
  <2> HIDE DEF j
  <2> QED
    BY <1>a, <2>2, <2>3
<1> QED
  BY <1>1, <1>2, <1>3, <1>4, <1>5, <1>6, <1>7, <1>8, <1>9, <1>10, <1>11, <1>12

\* The flag stays the same while the one coordinator evaluates.
LEMMA DraftInductive ==
  ASSUME OneCoordinator, "draft" \notin EnvKinds
  PROVE  IInv /\ DInv /\ [Next]_vars => DInv'
<1> SUFFICES ASSUME IInv, DInv, [Next]_vars PROVE DInv'
  OBVIOUS
<1>1. ASSUME UNCHANGED <<job, mid>>, \A p \in PRs : pull'[p].draft = pull[p].draft
      PROVE  DInv'
  BY <1>1 DEF DInv, SameDraft, IInv, Captured
<1>2. ASSUME NEW c \in Coordinators, NEW j, job' = [job EXCEPT ![c] = j],
             j.pass = 2 => j.stage # "idle" /\ mid'[c].pull.draft = pull'[j.pr].draft
      PROVE  DInv'
  <2> SUFFICES ASSUME NEW d \in Coordinators PROVE SameDraft(job[d], mid[d])'
    BY DEF DInv
  <2>1. d = c /\ job'[d] = j
    BY <1>2 DEF OneCoordinator, IInv, TypeOK
  <2> QED
    BY <1>2, <2>1 DEF SameDraft
<1>3. ASSUME NEW c \in Coordinators, NEW j, Fresh(j), job' = [job EXCEPT ![c] = j]
      PROVE  DInv'
  <2>1. j.pass # 2
    BY <1>3 DEF Fresh
  <2> QED
    BY <1>2, <1>3, <2>1
<1>4. ASSUME NEW c \in Coordinators, Stop(c)
      PROVE  DInv'
  BY <1>3, <1>4, FreshJobs DEF Stop
<1>5. ASSUME NEW c \in Coordinators, Supervise(c) \/ Fail(c) \/ \E p \in PRs : Start(c, p)
      PROVE  DInv'
  <2> DEFINE i == job[c]
  <2>0. i \in Job /\ (i.stage # "idle" => i.pr \in PRs)
    BY DEF IInv, TypeOK, Captured
  <2>1. CASE \E p \in PRs : Start(c, p)
    BY <1>3, <2>1, FreshJobs DEF Start, Gate, Advance
  <2>2. CASE MarkReady(c)
    BY <1>3, <2>0, <2>2, FreshJobs DEF MarkReady
  <2>3. CASE Merge(c) \/ Rejected(c) \/ Fail(c)
    BY <1>4, <2>3 DEF Merge, Rejected, Fail, Gate
  <2>4. ASSUME NEW j, UNCHANGED world, Stop(c) \/ Advance(c, j),
               j.pr = i.pr, j.pass = i.pass, j.stage # "idle"
        PROVE  DInv'
    <3>1. CASE Advance(c, j)
      <4>1. job' = [job EXCEPT ![c] = j] /\ mid' = mid /\ pull' = pull
        BY <2>4, <3>1 DEF Advance, world
      <4>2. j.pass = 2 => mid'[c].pull.draft = pull'[j.pr].draft
        BY <2>4, <4>1 DEF DInv, SameDraft
      <4> QED
        BY <1>2, <2>4, <4>1, <4>2
    <3> QED
      BY <1>4, <2>4, <3>1
  <2>5. CASE ReadThreads(c)
    <3> DEFINE r == ReviewEvidence(i.comments, ThreadSnapshot(i.pr), i.head,
                                   Risk(i.issue, i.authorization))
               j == [To(i, "issue") EXCEPT !.pass = 2, !.comments = {}, !.review = r]
               k == [To(i, "pull") EXCEPT !.comments = {}]
    <3>1. \/ Stop(c)
          \/ UNCHANGED world /\ Advance(c, k)
          \/ /\ job' = [job EXCEPT ![c] = j]
             /\ mid' = [mid EXCEPT ![c] = WorldOf(i.pr, i.source)] /\ UNCHANGED world
      BY <2>5 DEF ReadThreads, Gate, Advance
    <3>2. k.pr = i.pr /\ k.pass = i.pass /\ k.stage # "idle"
      BY <2>0 DEF To, Job
    <3>3. j.pr = i.pr /\ j.stage # "idle"
      BY <2>0 DEF To, Job
    <3> HIDE DEF j, k, r
    <3>4. ASSUME job' = [job EXCEPT ![c] = j], UNCHANGED world,
                 mid' = [mid EXCEPT ![c] = WorldOf(i.pr, i.source)]
          PROVE  DInv'
      <4>1. mid'[c].pull = pull[i.pr] /\ pull' = pull
        BY <3>4 DEF IInv, TypeOK, WorldOf, world
      <4> QED
        BY <1>2, <3>3, <3>4, <4>1
    <3> QED
      BY <1>4, <2>4, <3>1, <3>2, <3>4
  <2> QED
    BY <1>5, <2>1, <2>2, <2>3, <2>4, <2>5, ReadStays DEF Supervise
<1>6. CASE Others
  BY <1>1, <1>6, DraftKept DEF Others, IInv, TypeOK
<1>7. CASE UNCHANGED vars
  BY <1>1, <1>7 DEF vars
<1> QED
  BY <1>5, <1>6, <1>7 DEF Next

\* A merge rests on an evaluation made entirely after Ready, if people leave
\* the draft flag to the supervisor: the re-evaluation after the Ready
\* mutation cannot be skipped by any failure, stop or interleaving.
THEOREM FreshAfterReadyCorrect ==
  ASSUME OneCoordinator, "draft" \notin EnvKinds
  PROVE  Spec => FreshAfterReady
<1>1. Init => IInv /\ DInv
  <2>1. Init => DInv
    BY FreshJobs DEF Init, DInv, Fresh, SameDraft
  <2> QED
    BY <2>1, Initially
<1>2. IInv /\ DInv /\ [Next]_vars => (IInv /\ DInv)'
  BY Inductive, DraftInductive
<1>3. ASSUME IInv, DInv, [Next]_vars
      PROVE  \A p \in PRs : Merges(p) =>
               \E c \in Coordinators : job[c].pr = p /\ ~mid[c].pull.draft
  <2> SUFFICES ASSUME NEW p \in PRs, Merges(p)
               PROVE  \E c \in Coordinators : job[c].pr = p /\ ~mid[c].pull.draft
    OBVIOUS
  <2>1. PICK c \in Coordinators : job[c].stage = "merge" /\ job[c].pr = p /\ ~pull[p].draft
    BY <1>3, CoordinatorMerges
  <2>2. job[c].pass = 2
    BY <1>3, <2>1 DEF IInv, Captured
  <2>3. mid[c].pull.draft = pull[p].draft
    BY <1>3, <2>1, <2>2 DEF DInv, SameDraft
  <2> QED
    BY <2>1, <2>3
<1> QED
  BY <1>1, <1>2, <1>3, PTL DEF Spec, FreshAfterReady

=============================================================================
