---------------------------- MODULE BootstrapProofs ----------------------------
(***************************************************************************)
(* TypeOK, KeepsOwn, LockDescribes, CollisionExplained and DriftForesees    *)
(* hold of Spec for every value of the constants.  The argument: a file is *)
(* written only when it is still what was planned of it, unless it was     *)
(* edited late; what the plan takes for the Foundation's is in the lock;   *)
(* and the lock lists only what this render wrote or found in place.       *)
(***************************************************************************)
EXTENDS Bootstrap, TLAPS

(* Between renders there is no job; a render has a mode, and from its      *)
(* verification on a release.                                              *)
JobOK ==
  /\ At("idle") => job = Idle
  /\ ~At("idle") => job.mode \in Modes
  /\ At("verify") \/ At("write") => job.release \in DOMAIN Releases

(* What the plan says of a path is so: a file to be upgraded is one the    *)
(* Foundation put there, one to be overwritten was authorized, one called  *)
(* unchanged has the content of the source.                                *)
PlanOK ==
  \A f \in Files : job.plan[f] # None =>
    /\ job.plan[f].action = "upgrade" => job.plan[f].seen \in Installed
    /\ job.plan[f].action = "overwrite-authorized" => f \in job.authorized
    /\ job.plan[f].action = "unchanged" =>
         /\ ~At("write") \/ ~job.moved => job.plan[f].seen = job.sources[f]
         /\ disk[f] = job.plan[f].seen \/ (f \in job.edited /\ disk[f] \in Own \union {None})

(* What is still to be written is as it was planned, but for late edits.   *)
VerifiedOK ==
  /\ \A f \in Files : job.plan[f] # None => f \in DOMAIN job.sources
  /\ At("plan") \/ At("verify") => job.todo \subseteq DOMAIN job.sources
  /\ At("verify") => \A f \in DOMAIN job.sources \ job.todo : f \in job.late \/ AsPlanned(f)
  /\ At("write") =>
       /\ job.todo \subseteq Writes(job.plan)
       /\ \A f \in job.todo : f \in job.late \/ AsPlanned(f)

(* What was written is there, but for edits.                               *)
WrittenOK ==
  At("write") => \A f \in Writes(job.plan) \ job.todo :
    disk[f] = job.sources[f] \/ (f \in job.edited /\ disk[f] \in Own \union {None})

(* Until the second reading the job's sources are what the working tree    *)
(* has, unless it changed.  Those of a clean render are the files of the   *)
(* commit it names.                                                        *)
SourcesOK ==
  /\ At("plan") \/ At("verify") =>
       /\ ~job.moved => job.sources = Sources(job.mode)
       /\ job.clean => ~job.moved /\ tree = Releases[source]
  /\ At("plan") /\ job.clean => job.release \in {None, source}
  /\ At("verify") /\ job.clean => job.release = source
  /\ At("write") /\ job.clean => job.sources = Source(job.release, job.mode)

(* A content of the Foundation is in the lock, or has strayed.             *)
Accounted ==
  \A f \in Files : disk[f] \in Installed =>
    \/ f \in strayed
    \/ /\ f \in DOMAIN Hashes(lock)
       /\ lock.mixed \/ lock.files[f] = disk[f]

IInv == TypeOK /\ JobOK /\ PlanOK /\ VerifiedOK /\ WrittenOK /\ SourcesOK /\ LockDescribes /\ Accounted

-----------------------------------------------------------------------------
(* Helpers *)

(* First picks an element of its set. *)
LEMMA FirstIn ==
  ASSUME NEW S, S # {}
  PROVE  First(S) \in S
BY DEF First

(* The paths and contents of a description are managed files' and the      *)
(* Foundation's.                                                           *)
LEMMA DescribedFacts ==
  ASSUME NEW D \in Described
  PROVE  /\ DOMAIN D \subseteq Files
         /\ \A f \in DOMAIN D : D[f] \in Installed
         /\ D = [f \in DOMAIN D |-> D[f]]
<1>1. PICK F \in SUBSET Files : D \in [F -> Installed]
  BY DEF Described
<1> QED BY <1>1

(* A function of managed files to contents of the Foundation is one.       *)
LEMMA DescribedIntro ==
  ASSUME NEW F \in SUBSET Files, NEW D \in [F -> Installed]
  PROVE  D \in Described
BY DEF Described

(* The managed files of a commit are files, and their contents are the     *)
(* Foundation's.                                                           *)
LEMMA ReleaseContents ==
  ASSUME NEW r \in DOMAIN Releases
  PROVE  /\ DOMAIN Releases[r] \subseteq Files
         /\ \A f \in DOMAIN Releases[r] : Releases[r][f] \in Installed
         /\ Releases[r] \in [DOMAIN Releases[r] -> Installed]
BY ReleaseAssumption DEF Files

(* What a working tree without a missing file renders is a description.    *)
LEMMA SourcesType ==
  ASSUME TypeOK, Readable(DOMAIN tree), NEW m \in Modes
  PROVE  /\ Sources(m) \in Described
         /\ DOMAIN Sources(m) = DOMAIN tree \union {Checklist}
         /\ DOMAIN Sources(m) \subseteq Files
<1> DEFINE F == DOMAIN tree \union {Checklist}
<1>1. F \in SUBSET Files
  BY ReleaseContents DEF TypeOK, Files
<1>2. DOMAIN Sources(m) = F
  BY DEF Sources, Rendered
<1>3. \A f \in F : Sources(m)[f] \in Installed
  <2> SUFFICES ASSUME NEW f \in F
               PROVE  Sources(m)[f] \in Installed
    OBVIOUS
  <2>1. CASE f = Checklist
    BY <2>1 DEF Sources, Rendered, Installed
  <2>2. CASE f # Checklist
    BY <2>2 DEF Sources, Rendered, Readable, TypeOK
  <2> QED BY <2>1, <2>2
<1>4. Sources(m) \in [F -> Installed]
  BY <1>3 DEF Sources, Rendered
<1> QED BY <1>1, <1>2, <1>4, DescribedIntro

(* The second reading has the paths of the first, and contents of the      *)
(* Foundation.                                                             *)
LEMMA ReadAgain ==
  ASSUME TypeOK, NEW m \in Modes, NEW D \in Described, Readable(DOMAIN D)
  PROVE  [f \in DOMAIN D |-> Sources(m)[f]] \in Described
<1>1. DOMAIN D \in SUBSET Files
  BY DescribedFacts
<1>2. ASSUME NEW f \in DOMAIN D
      PROVE  Sources(m)[f] \in Installed
  <2>1. CASE f = Checklist
    BY <2>1 DEF Sources, Rendered, Installed
  <2>2. CASE f # Checklist
    BY <2>2 DEF Sources, Rendered, Readable, TypeOK
  <2> QED BY <2>1, <2>2
<1>3. [f \in DOMAIN D |-> Sources(m)[f]] \in [DOMAIN D -> Installed]
  BY <1>2
<1> QED BY <1>1, <1>3, DescribedIntro

(* A change of the checkout concerns a render only before its second       *)
(* reading, and then only what is said of its sources.                     *)
LEMMA CheckoutFacts ==
  ASSUME TypeOK, Checkout
  PROVE  /\ job' \in Jobs
         /\ job'.stage = job.stage /\ job'.mode = job.mode /\ job'.plan = job.plan
         /\ job'.todo = job.todo /\ job'.sources = job.sources /\ job'.locked = job.locked
         /\ job'.authorized = job.authorized /\ job'.edited = job.edited
         /\ job'.late = job.late /\ job'.release = job.release
         /\ job.stage \in {"plan", "verify"} => job'.moved /\ ~job'.clean
         /\ job.stage \notin {"plan", "verify"} => job' = job
         /\ UNCHANGED <<disk, lock, strayed, touched>>
BY DEF Checkout, Unsettled, At, TypeOK, Jobs

(* What a lock describes is a description, empty where there is none.      *)
LEMMA HashesType ==
  ASSUME NEW l \in Locks \union {None, Torn}
  PROVE  /\ Hashes(l) \in Described
         /\ Locked(l) => l \in Locks /\ Hashes(l) = l.files
         /\ ~Locked(l) => DOMAIN Hashes(l) = {}
<1>1. CASE Locked(l)
  BY <1>1 DEF Locked, Hashes, Locks
<1>2. CASE ~Locked(l)
  <2>1. Hashes(l) = <<>> /\ DOMAIN Hashes(l) = {}
    BY <1>2 DEF Hashes
  <2>2. Hashes(l) \in [{} -> Installed]
    BY <2>1
  <2> QED BY <1>2, <2>1, <2>2, DescribedIntro
<1> QED BY <1>1, <1>2

(* A job that has ended is a job.                                          *)
LEMMA IdleType == Idle \in Jobs
<1>1. <<>> \in Described
  <2>1. <<>> \in [{} -> Installed]
    OBVIOUS
  <2> QED BY <2>1, DescribedIntro
<1>2. NoPlan \in [Files -> {None} \union [action : Actions, seen : Contents]]
  BY DEF NoPlan
<1> QED BY <1>1, <1>2 DEF Idle, Jobs

(* What is planned for a path is one of the nine actions, and says of its  *)
(* content what the lock or the authorizations say.                        *)
LEMMA ActionFacts ==
  ASSUME NEW f, NEW content, NEW src, NEW locked \in Described, NEW mode, NEW authorized
  PROVE  LET a == ActionFor(f, content, src, locked, mode, authorized) IN
         /\ a \in Actions
         /\ a \in {"add", "add-target-owned"} => content = None
         /\ a = "upgrade" => content \in Installed
         /\ a = "overwrite-authorized" => f \in authorized
         /\ a = "unchanged" => content = src
         /\ a = "collision" =>
              /\ f \notin TargetOwned /\ content # None /\ content # src
              /\ ~(f \in DOMAIN locked /\ locked[f] = content)
BY DescribedFacts DEF ActionFor, Actions
-----------------------------------------------------------------------------
(* Types *)

Entries == [action : Actions, seen : Contents]

(* The first of what is left to do is a managed file.                      *)
LEMMA FirstTodo ==
  ASSUME TypeOK, job.todo # {}
  PROVE  First(job.todo) \in Files /\ First(job.todo) \in job.todo
BY FirstIn DEF TypeOK, Jobs

(* A render that begins is a job.                                          *)
LEMMA BeginType ==
  ASSUME TypeOK, NEW m \in Modes, NEW a \in Authorizations, NEW g \in Given, Begin(m, a, g)
  PROVE  job' \in Jobs
<1>1. Sources(m) \in Described /\ DOMAIN Sources(m) \subseteq Files
  BY SourcesType DEF Begin, Accepts
<1>2. Hashes(lock) \in Described
  BY HashesType DEF TypeOK
<1>3. a \subseteq Files
  BY <1>1 DEF Begin, Accepts
<1>4. PICK c \in BOOLEAN : job' = [Idle EXCEPT !.stage = "plan", !.mode = m, !.authorized = a,
                          !.sources = Sources(m), !.locked = Hashes(lock),
                          !.todo = DOMAIN Sources(m), !.release = g,
                          !.clean = c]
  BY DEF Begin
<1>5. g \in DOMAIN Releases \union {None}
  BY GivenAssumption
<1> QED BY <1>1, <1>2, <1>3, <1>4, <1>5, IdleType DEF Jobs

(* Planning one file keeps the job a job.                                  *)
LEMMA PlanFileType ==
  ASSUME TypeOK, PlanFile
  PROVE  job' \in Jobs
<1> DEFINE f == First(job.todo)
           act == ActionFor(f, disk[f], job.sources[f], job.locked, job.mode, job.authorized)
           e == [action |-> act, seen |-> disk[f]]
<1>1. f \in Files
  BY FirstTodo DEF PlanFile
<1>2. act \in Actions
  BY ActionFacts DEF TypeOK, Jobs
<1>3. e \in Entries
  BY <1>1, <1>2 DEF TypeOK, Entries
<1>4. job' = Idle \/ job' = [job EXCEPT !.todo = @ \ {f}, !.plan[f] = e]
  BY DEF PlanFile
<1> HIDE DEF f, act, e
<1>5. CASE job' = [job EXCEPT !.todo = @ \ {f}, !.plan[f] = e]
  BY <1>1, <1>3, <1>5 DEF TypeOK, Jobs, Entries
<1> QED BY <1>4, <1>5, IdleType

(* What render() writes is a lock.                                         *)
LEMMA WriteLockType ==
  ASSUME TypeOK, JobOK, VerifiedOK, WriteLock
  PROVE  lock' \in Locks
<1>1. Managed(job.plan) \subseteq Files /\ Managed(job.plan) \subseteq DOMAIN job.sources
  BY DEF Managed, Planned, VerifiedOK
<1>2. job.sources \in Described
  BY DEF TypeOK, Jobs
<1>3. [f \in Managed(job.plan) |-> job.sources[f]] \in Described
  BY <1>1, <1>2, DescribedFacts, DescribedIntro DEF WriteLock
<1>4. job.mode \in Modes /\ job.release \in DOMAIN Releases
      /\ job.moved \in BOOLEAN /\ job.clean \in BOOLEAN
  BY DEF WriteLock, At, JobOK, TypeOK, Jobs
<1> QED BY <1>3, <1>4 DEF WriteLock, Locks

(* TypeOK is inductive, with the mode of a render.                         *)
LEMMA TypeStep == TypeOK /\ JobOK /\ VerifiedOK /\ [Next]_vars => TypeOK'
<1> SUFFICES ASSUME TypeOK, JobOK, VerifiedOK, [Next]_vars PROVE TypeOK'
  OBVIOUS
<1> USE DEF TypeOK, checkout
<1>1. ASSUME NEW m \in Modes, NEW a \in Authorizations, NEW g \in Given, Begin(m, a, g)
      PROVE  TypeOK'
  BY <1>1, BeginType DEF Begin
<1>2. CASE PlanFile
  BY <1>2, PlanFileType DEF PlanFile
<1>3. CASE PlanLock
  <2> DEFINE r == IF job.release = None THEN source ELSE job.release
  <2>1. job' = Idle \/ job' = [job EXCEPT !.stage = "verify", !.todo = DOMAIN job.sources,
                                         !.lockSeen = lock, !.release = r]
    BY <1>3 DEF PlanLock, Resolved
  <2>2. DOMAIN job.sources \subseteq Files
    BY DescribedFacts DEF Jobs
  <2>3. CASE job' = [job EXCEPT !.stage = "verify", !.todo = DOMAIN job.sources,
                                !.lockSeen = lock, !.release = r]
    <3>1. DOMAIN job.sources \in SUBSET Files /\ lock \in Locks \union {None, Torn}
          /\ r \in DOMAIN Releases \union {None} /\ job \in Jobs
      BY <2>2 DEF Jobs
    <3> HIDE DEF r
    <3>2. job' \in Jobs
      BY <2>3, <3>1 DEF Jobs
    <3> QED BY <1>3, <3>2 DEF PlanLock
  <2> QED BY <1>3, <2>1, <2>3, IdleType DEF PlanLock
<1>4. CASE VerifyFile
  <2>1. job' \in Jobs
    BY <1>4, IdleType DEF VerifyFile, Jobs
  <2> QED BY <1>4, <2>1 DEF VerifyFile
<1>5. CASE VerifyLock
  <2> DEFINE S == [f \in DOMAIN job.sources |-> Sources(job.mode)[f]]
  <2>1. job' = Idle \/ (/\ Readable(DOMAIN job.sources)
                        /\ job' = [job EXCEPT !.stage = "write", !.todo = Writes(job.plan),
                                              !.sources = S])
    BY <1>5 DEF VerifyLock
  <2>2. Writes(job.plan) \subseteq Files
    BY DEF Writes, Planned
  <2>3. job.mode \in Modes
    BY <1>5 DEF VerifyLock, At, JobOK
  <2>4. Readable(DOMAIN job.sources) => S \in Described
    BY <2>3, ReadAgain DEF Jobs
  <2> HIDE DEF S
  <2>5. job' \in Jobs
    BY <2>1, <2>2, <2>4, IdleType DEF Jobs
  <2> QED BY <1>5, <2>5 DEF VerifyLock
<1>6. CASE WriteFile
  <2> DEFINE f == First(job.todo)
  <2>1. f \in Files /\ job.sources[f] \in Contents
    <3>1. f \in Files /\ f \in Writes(job.plan)
      BY <1>6, FirstTodo DEF WriteFile, VerifiedOK
    <3>2. f \in DOMAIN job.sources
      BY <3>1 DEF VerifiedOK, Writes, Planned
    <3> QED BY <3>1, <3>2, DescribedFacts DEF Jobs, Contents
  <2>2. disk' = [disk EXCEPT ![f] = job.sources[f]] /\ job' = [job EXCEPT !.todo = @ \ {f}]
        /\ strayed' = strayed \union {f}
    BY <1>6 DEF WriteFile
  <2> HIDE DEF f
  <2>3. job' \in Jobs
    BY <2>2 DEF Jobs
  <2> QED BY <1>6, <2>1, <2>2, <2>3 DEF WriteFile
<1>7. CASE WriteLock
  <2>1. Managed(job.plan) \subseteq Files /\ DOMAIN Hashes(lock) \subseteq Files
    BY HashesType, DescribedFacts DEF Managed, Planned
  <2>2. strayed' \subseteq Files /\ touched' \subseteq Files
    BY <1>7, <2>1 DEF WriteLock, Jobs
  <2> QED BY <1>7, <2>2, IdleType, WriteLockType DEF WriteLock
<1>9. CASE Crash
  <2>1. job.todo # {} => First(job.todo) \in Files
    BY FirstTodo
  <2>2. DOMAIN Hashes(lock) \subseteq Files
    BY HashesType, DescribedFacts
  <2> QED BY <1>9, <2>1, <2>2, IdleType DEF Crash, Contents
<1>10. ASSUME NEW f \in Files, NEW c \in Own \union {None}, Edit(f, c)
       PROVE  TypeOK'
  <2> DEFINE l == IF At("write") \/ (At("verify") /\ f \notin job.todo)
                  THEN job.late \union {f} ELSE job.late
  <2>1. job' = job \/ job' = [job EXCEPT !.edited = @ \union {f}, !.late = l]
    BY <1>10 DEF Edit
  <2>2. l \in SUBSET Files
    BY DEF Jobs
  <2> HIDE DEF l
  <2>3. ASSUME job' = [job EXCEPT !.edited = @ \union {f}, !.late = l]
        PROVE  job' \in Jobs
    <3>1. job.edited \union {f} \in SUBSET Files
      BY DEF Jobs
    <3>2. job' \in Jobs
      BY <2>2, <2>3, <3>1 DEF Jobs
    <3> QED BY <3>2
  <2>4. edits' \in 0..MaxEdits
    BY <1>10, EditsAssumption DEF Edit
  <2> QED BY <1>10, <2>1, <2>3, <2>4 DEF Edit, Contents
<1>11. CASE RemoveLock
  <2>1. DOMAIN Hashes(lock) \subseteq Files
    BY HashesType, DescribedFacts
  <2>2. edits' \in 0..MaxEdits
    BY <1>11, EditsAssumption DEF RemoveLock
  <2> QED BY <1>11, <2>1, <2>2 DEF RemoveLock
<1>12. CASE Checkout
  <2>1. job' \in Jobs /\ UNCHANGED <<disk, lock, strayed, touched>>
    BY <1>12, CheckoutFacts
  <2> DEFINE Trees(r) == [DOMAIN Releases[r] -> Installed \union {None}]
             Done == /\ source' \in DOMAIN Releases /\ tree' \in Trees(source')
                     /\ edits' \in 0..MaxEdits
  <2>2. Done
    <3>1. CASE Pull
      <4>1. source' \in DOMAIN Releases /\ source' = source + 1 /\ edits' = edits
        BY <3>1, ReleaseAssumption DEF Pull
      <4>2. \A f \in DOMAIN Releases[source + 1] : Releases[source + 1][f] \in Installed
        BY <4>1, ReleaseContents
      <4> QED BY <3>1, <4>1, <4>2 DEF Pull
    <3>2. CASE Restore
      BY <3>2, ReleaseContents DEF Restore
    <3>3. ASSUME NEW f \in DOMAIN tree, NEW c \in Drafts \union {None}, Draft(f, c)
          PROVE  Done
      BY <3>3, EditsAssumption DEF Draft, Installed
    <3> QED BY <1>12, <3>1, <3>2, <3>3 DEF Checkout
  <2> QED BY <2>1, <2>2
<1>13. CASE UNCHANGED vars
  BY <1>13 DEF vars
<1> QED BY <1>1, <1>2, <1>3, <1>4, <1>5, <1>6, <1>7, <1>9, <1>10, <1>11, <1>12, <1>13
        DEF Next, Render

-----------------------------------------------------------------------------
(* What a step does to the job *)

(* JobOK is inductive.                                                     *)
LEMMA JobStep ==
  ASSUME TypeOK, JobOK, [Next]_vars
  PROVE  JobOK'
<1> USE DEF JobOK, At
<1>1. Idle.stage = "idle"
  BY DEF Idle
<1>2. ASSUME NEW m \in Modes, NEW a \in Authorizations, NEW g \in Given, Begin(m, a, g)
      PROVE  JobOK'
  BY <1>2 DEF Begin, Idle
<1>3. CASE PlanFile
  <2>1. job' = Idle \/ (job'.stage = job.stage /\ job'.mode = job.mode)
    BY <1>3 DEF PlanFile, TypeOK, Jobs
  <2> QED BY <1>1, <1>3, <2>1 DEF PlanFile
<1>4. CASE PlanLock
  BY <1>1, <1>4 DEF PlanLock, Resolved, TypeOK, Jobs
<1>5. CASE VerifyFile
  BY <1>1, <1>5 DEF VerifyFile, TypeOK, Jobs
<1>6. CASE VerifyLock
  BY <1>1, <1>6 DEF VerifyLock, TypeOK, Jobs
<1>7. CASE WriteFile
  BY <1>7 DEF WriteFile, TypeOK, Jobs
<1>8. CASE WriteLock \/ Crash
  BY <1>1, <1>8 DEF WriteLock, Crash
<1>9. ASSUME NEW f \in Files, NEW c \in Own \union {None}, Edit(f, c)
      PROVE  JobOK'
  BY <1>9 DEF Edit, TypeOK, Jobs
<1>10. CASE RemoveLock \/ UNCHANGED vars
  BY <1>10 DEF RemoveLock, vars
<1>11. CASE Checkout
  BY <1>11, CheckoutFacts
<1> QED BY <1>2, <1>3, <1>4, <1>5, <1>6, <1>7, <1>8, <1>9, <1>10, <1>11 DEF Next, Render

(* SourcesOK is inductive.                                                 *)
LEMMA SourcesStep ==
  ASSUME TypeOK, JobOK, SourcesOK, [Next]_vars
  PROVE  SourcesOK'
<1> USE DEF SourcesOK, At, Sources, checkout
<1>1. Idle.stage = "idle"
  BY DEF Idle
<1>2. ASSUME NEW m \in Modes, NEW a \in Authorizations, NEW g \in Given, Begin(m, a, g)
      PROVE  SourcesOK'
  BY <1>2 DEF Begin, Idle
<1>3. CASE PlanFile
  <2>1. job' = Idle \/ (/\ job'.stage = job.stage /\ job'.mode = job.mode
                        /\ job'.sources = job.sources /\ job'.moved = job.moved)
    BY <1>3 DEF PlanFile, TypeOK, Jobs
  <2> QED BY <1>1, <1>3, <2>1 DEF PlanFile
<1>4. CASE PlanLock
  BY <1>1, <1>4 DEF PlanLock, Resolved, TypeOK, Jobs
<1>5. CASE VerifyFile
  BY <1>1, <1>5 DEF VerifyFile, TypeOK, Jobs
<1>6. CASE VerifyLock
  <2>1. CASE job' = Idle
    BY <1>1, <2>1
  <2>2. CASE job' # Idle
    <3> DEFINE S == [f \in DOMAIN job.sources |-> Sources(job.mode)[f]]
    <3>1. /\ job.stage = "verify" /\ job'.stage = "write" /\ job'.clean = job.clean
          /\ job'.mode = job.mode /\ job'.release = job.release
      BY <1>6, <2>2 DEF VerifyLock, TypeOK, Jobs
    <3>2. job'.sources = S
      BY <1>6, <2>2 DEF VerifyLock, TypeOK, Jobs
    <3>3. job.clean => job.sources = Source(job.release, job.mode)
      BY <3>1 DEF Source, Sources
    <3>4. job.clean => S = job.sources
      BY <3>1, <3>3 DEF Source, Sources, Rendered
    <3> HIDE DEF S
    <3> QED BY <3>1, <3>2, <3>3, <3>4
  <2> QED BY <2>1, <2>2
<1>7. CASE WriteFile
  BY <1>7 DEF WriteFile, TypeOK, Jobs
<1>8. CASE WriteLock \/ Crash
  BY <1>1, <1>8 DEF WriteLock, Crash
<1>9. ASSUME NEW f \in Files, NEW c \in Own \union {None}, Edit(f, c)
      PROVE  SourcesOK'
  BY <1>9 DEF Edit, TypeOK, Jobs
<1>10. CASE RemoveLock \/ UNCHANGED vars
  BY <1>10 DEF RemoveLock, vars
<1>11. CASE Checkout
  BY <1>11, CheckoutFacts
<1> QED BY <1>2, <1>3, <1>4, <1>5, <1>6, <1>7, <1>8, <1>9, <1>10, <1>11 DEF Next, Render

-----------------------------------------------------------------------------
(* The plan, its verification and what has been written *)

(* No path is planned where nothing is planned.                            *)
LEMMA IdlePlan ==
  ASSUME job = Idle \/ job.plan = NoPlan
  PROVE  \A f \in Files : job.plan[f] = None
BY DEF Idle, NoPlan

(* A job that has ended satisfies what is said of plans.                   *)
LEMMA IdleOK ==
  ASSUME job' = Idle
  PROVE  PlanOK' /\ VerifiedOK' /\ WrittenOK'
<1>1. \A f \in Files : job'.plan[f] = None
  BY DEF Idle, NoPlan
<1>2. job'.stage = "idle"
  BY DEF Idle
<1> QED BY <1>1, <1>2 DEF PlanOK, VerifiedOK, WrittenOK, At

(* What is to be written is planned, and not as unchanged.                 *)
LEMMA WritesFacts ==
  ASSUME NEW p, NEW f \in Writes(p)
  PROVE  /\ f \in Files /\ p[f] # None
         /\ p[f].action \in {"add", "add-target-owned", "overwrite-authorized", "upgrade"}
BY DEF Writes, Planned, Adding

(* A step of planning adds one entry, of a file it takes off the list.     *)
LEMMA PlanFileFacts ==
  ASSUME TypeOK, PlanFile, job' # Idle
  PROVE  LET f == First(job.todo) IN
         /\ f \in job.todo /\ f \in Files
         /\ job'.todo = job.todo \ {f}
         /\ job'.plan[f] = [action |-> ActionFor(f, disk[f], job.sources[f], job.locked,
                                                 job.mode, job.authorized), seen |-> disk[f]]
         /\ \A g \in Files \ {f} : job'.plan[g] = job.plan[g]
         /\ job'.stage = "plan" /\ job'.sources = job.sources /\ job'.moved = job.moved
         /\ job'.authorized = job.authorized /\ job'.edited = job.edited
         /\ job'.late = job.late
<1> DEFINE f == First(job.todo)
           e == [action |-> ActionFor(f, disk[f], job.sources[f], job.locked,
                                      job.mode, job.authorized), seen |-> disk[f]]
<1>1. f \in Files /\ f \in job.todo
  BY FirstTodo DEF PlanFile
<1>2. job' = [job EXCEPT !.todo = @ \ {f}, !.plan[f] = e] /\ job.stage = "plan"
  BY DEF PlanFile, At
<1> HIDE DEF f, e
<1>3. /\ job'.todo = job.todo \ {f} /\ job'.plan[f] = e
      /\ \A g \in Files \ {f} : job'.plan[g] = job.plan[g]
      /\ job'.stage = "plan" /\ job'.sources = job.sources /\ job'.moved = job.moved
      /\ job'.authorized = job.authorized /\ job'.edited = job.edited
      /\ job'.late = job.late
  BY <1>1, <1>2 DEF TypeOK, Jobs
<1> QED BY <1>1, <1>3 DEF f, e

(* PlanOK is inductive.                                                    *)
LEMMA PlanStep ==
  ASSUME TypeOK, JobOK, SourcesOK, VerifiedOK, PlanOK, [Next]_vars
  PROVE  PlanOK'
<1> USE DEF PlanOK, At
<1>1. ASSUME NEW m \in Modes, NEW a \in Authorizations, NEW g \in Given, Begin(m, a, g)
      PROVE  PlanOK'
  <2>1. job'.plan = NoPlan
    BY <1>1 DEF Begin, Idle
  <2> QED BY <2>1 DEF NoPlan
<1>2. CASE PlanFile
  <2>1. CASE job' = Idle
    BY <2>1, IdleOK
  <2>2. CASE job' # Idle
    <3> SUFFICES ASSUME NEW g \in Files, job'.plan[g] # None
                 PROVE  /\ job'.plan[g].action = "upgrade" => job'.plan[g].seen \in Installed
                        /\ job'.plan[g].action = "overwrite-authorized" =>
                             g \in job'.authorized
                        /\ job'.plan[g].action = "unchanged" =>
                             /\ job'.plan[g].seen = job'.sources[g]
                             /\ disk'[g] = job'.plan[g].seen
                                  \/ (g \in job'.edited /\ disk'[g] \in Own \union {None})
      OBVIOUS
    <3>1. disk' = disk /\ job.stage = "plan"
      BY <1>2 DEF PlanFile
    <3>2. job.locked \in Described
      BY DEF TypeOK, Jobs
    <3>3. CASE g = First(job.todo)
      BY <1>2, <2>2, <3>1, <3>2, <3>3, PlanFileFacts, ActionFacts
    <3>4. CASE g # First(job.todo)
      BY <1>2, <2>2, <3>1, <3>4, PlanFileFacts
    <3> QED BY <3>3, <3>4
  <2> QED BY <2>1, <2>2
<1>3. CASE PlanLock
  <2>1. CASE job' # Idle
    BY <1>3, <2>1 DEF PlanLock, TypeOK, Jobs
  <2> QED BY <2>1, IdleOK
<1>4. CASE VerifyFile
  <2>1. CASE job' # Idle
    BY <1>4, <2>1 DEF VerifyFile, TypeOK, Jobs
  <2> QED BY <2>1, IdleOK
<1>5. CASE VerifyLock
  <2>1. CASE job' # Idle
    <3>1. /\ job'.plan = job.plan /\ job'.edited = job.edited /\ job'.moved = job.moved
          /\ job'.authorized = job.authorized /\ disk' = disk
          /\ job.stage = "verify" /\ job'.stage = "write"
          /\ job'.sources = [f \in DOMAIN job.sources |-> Sources(job.mode)[f]]
      BY <1>5, <2>1 DEF VerifyLock, TypeOK, Jobs
    <3>2. ~job.moved => job'.sources = job.sources
      BY <3>1, DescribedFacts DEF SourcesOK, TypeOK, Jobs
    <3> QED BY <3>1, <3>2
  <2> QED BY <2>1, IdleOK
<1>6. CASE WriteFile
  <2> DEFINE f == First(job.todo)
  <2>1. f \in Writes(job.plan)
    BY <1>6, FirstTodo DEF WriteFile, VerifiedOK
  <2>2. /\ job'.plan = job.plan /\ job'.edited = job.edited /\ job'.moved = job.moved
        /\ job'.authorized = job.authorized /\ job'.stage = job.stage
        /\ job'.sources = job.sources
        /\ \A g \in Files \ {f} : disk'[g] = disk[g]
    BY <1>6 DEF WriteFile, TypeOK, Jobs
  <2>3. job.plan[f].action # "unchanged"
    BY <2>1, WritesFacts
  <2> HIDE DEF f
  <2> QED BY <2>2, <2>3
<1>7. CASE WriteLock \/ Crash
  BY <1>7, IdleOK DEF WriteLock, Crash
<1>8. ASSUME NEW f \in Files, NEW c \in Own \union {None}, Edit(f, c)
      PROVE  PlanOK'
  <2>1. CASE job.stage = "idle"
    BY <1>8, <2>1, IdleOK DEF Edit, JobOK
  <2>2. CASE job.stage # "idle"
    <3>1. /\ job'.plan = job.plan /\ job'.moved = job.moved /\ job'.stage = job.stage
          /\ job'.authorized = job.authorized /\ job'.sources = job.sources
          /\ job'.edited = job.edited \union {f}
      BY <1>8, <2>2 DEF Edit, TypeOK, Jobs
    <3>2. disk'[f] = c /\ \A g \in Files \ {f} : disk'[g] = disk[g]
      BY <1>8 DEF Edit, TypeOK
    <3>3. \A g \in Files : job'.plan[g] # None /\ job'.plan[g].action = "unchanged" =>
            disk'[g] = job'.plan[g].seen
              \/ (g \in job'.edited /\ disk'[g] \in Own \union {None})
      <4> TAKE g \in Files
      <4>1. CASE g = f
        BY <3>1, <3>2, <4>1
      <4>2. CASE g # f
        BY <3>1, <3>2, <4>2
      <4> QED BY <4>1, <4>2
    <3> QED BY <3>1, <3>3
  <2> QED BY <2>1, <2>2
<1>9. CASE RemoveLock \/ UNCHANGED vars
  BY <1>9 DEF RemoveLock, vars
<1>10. CASE Checkout
  <2>1. /\ job'.plan = job.plan /\ job'.stage = job.stage /\ job'.edited = job.edited
        /\ job'.authorized = job.authorized /\ job'.sources = job.sources /\ disk' = disk
        /\ job.stage = "write" => job'.moved = job.moved
    BY <1>10, CheckoutFacts DEF TypeOK, Jobs
  <2> QED BY <2>1
<1> QED BY <1>1, <1>2, <1>3, <1>4, <1>5, <1>6, <1>7, <1>8, <1>9, <1>10 DEF Next, Render

(* VerifiedOK is inductive.                                                *)
LEMMA VerifiedStep ==
  ASSUME TypeOK, JobOK, VerifiedOK, [Next]_vars
  PROVE  VerifiedOK'
<1> USE DEF VerifiedOK, At
<1>1. ASSUME NEW m \in Modes, NEW a \in Authorizations, NEW g \in Given, Begin(m, a, g)
      PROVE  VerifiedOK'
  <2>1. job'.plan = NoPlan /\ job'.stage = "plan" /\ job'.todo = DOMAIN job'.sources
    BY <1>1 DEF Begin, Idle
  <2> QED BY <2>1 DEF NoPlan
<1>2. CASE PlanFile
  <2>1. CASE job' = Idle
    BY <2>1, IdleOK
  <2>2. CASE job' # Idle
    <3>1. job.stage = "plan"
      BY <1>2 DEF PlanFile
    <3> QED BY <1>2, <2>2, <3>1, PlanFileFacts
  <2> QED BY <2>1, <2>2
<1>3. CASE PlanLock
  <2>1. CASE job' # Idle
    BY <1>3, <2>1 DEF PlanLock, TypeOK, Jobs
  <2> QED BY <2>1, IdleOK
<1>4. CASE VerifyFile
  <2>1. CASE job' # Idle
    <3>1. /\ job'.todo = job.todo \ {First(job.todo)} /\ AsPlanned(First(job.todo))
          /\ job'.plan = job.plan /\ job'.stage = "verify" /\ job.stage = "verify"
          /\ job'.sources = job.sources /\ job'.late = job.late /\ disk' = disk
      BY <1>4, <2>1 DEF VerifyFile, TypeOK, Jobs
    <3> QED BY <3>1 DEF AsPlanned
  <2> QED BY <2>1, IdleOK
<1>5. CASE VerifyLock
  <2>1. CASE job' # Idle
    <3>1. /\ job'.todo = Writes(job.plan) /\ job.todo = {}
          /\ job'.plan = job.plan /\ job'.stage = "write" /\ job.stage = "verify"
          /\ job'.late = job.late /\ disk' = disk
          /\ DOMAIN job'.sources = DOMAIN job.sources
      BY <1>5, <2>1 DEF VerifyLock, TypeOK, Jobs
    <3>2. \A f \in Writes(job.plan) : f \in job.late \/ AsPlanned(f)
      BY <3>1, WritesFacts
    <3> QED BY <3>1, <3>2 DEF AsPlanned
  <2> QED BY <2>1, IdleOK
<1>6. CASE WriteFile
  <2> DEFINE f == First(job.todo)
  <2>1. /\ job'.plan = job.plan /\ job'.stage = job.stage /\ job.stage = "write"
        /\ job'.todo = job.todo \ {f} /\ job'.late = job.late
        /\ job'.sources = job.sources
        /\ \A g \in Files \ {f} : disk'[g] = disk[g]
    BY <1>6 DEF WriteFile, TypeOK, Jobs
  <2>2. job.todo \subseteq Files
    BY DEF TypeOK, Jobs
  <2> HIDE DEF f
  <2> QED BY <2>1, <2>2 DEF AsPlanned
<1>7. CASE WriteLock \/ Crash
  BY <1>7, IdleOK DEF WriteLock, Crash
<1>8. ASSUME NEW f \in Files, NEW c \in Own \union {None}, Edit(f, c)
      PROVE  VerifiedOK'
  <2>1. CASE job.stage = "idle"
    BY <1>8, <2>1, IdleOK DEF Edit, JobOK
  <2>2. CASE job.stage # "idle"
    <3>1. /\ job'.plan = job.plan /\ job'.todo = job.todo /\ job'.stage = job.stage
          /\ job'.sources = job.sources
          /\ job.late \subseteq job'.late
          /\ job.stage = "write" \/ (job.stage = "verify" /\ f \notin job.todo) =>
               f \in job'.late
      BY <1>8, <2>2 DEF Edit, TypeOK, Jobs
    <3>2. \A g \in Files \ {f} : AsPlanned(g) => AsPlanned(g)'
      BY <1>8, <3>1 DEF Edit, TypeOK, AsPlanned
    <3>3. job.todo \subseteq Files /\ DOMAIN job.sources \subseteq Files
      BY DescribedFacts DEF TypeOK, Jobs
    <3> QED BY <3>1, <3>2, <3>3
  <2> QED BY <2>1, <2>2
<1>9. CASE RemoveLock \/ UNCHANGED vars
  BY <1>9 DEF RemoveLock, vars, AsPlanned
<1>10. CASE Checkout
  <2>1. /\ job'.plan = job.plan /\ job'.stage = job.stage /\ job'.late = job.late
        /\ job'.todo = job.todo /\ job'.sources = job.sources /\ disk' = disk
    BY <1>10, CheckoutFacts DEF TypeOK, Jobs
  <2> QED BY <2>1 DEF AsPlanned
<1> QED BY <1>1, <1>2, <1>3, <1>4, <1>5, <1>6, <1>7, <1>8, <1>9, <1>10 DEF Next, Render

(* WrittenOK is inductive.                                                 *)
LEMMA WrittenStep ==
  ASSUME TypeOK, JobOK, WrittenOK, [Next]_vars
  PROVE  WrittenOK'
<1> USE DEF WrittenOK, At
<1>1. ASSUME NEW m \in Modes, NEW a \in Authorizations, NEW g \in Given, Begin(m, a, g)
      PROVE  WrittenOK'
  BY <1>1 DEF Begin, Idle
<1>2. CASE PlanFile
  BY <1>2, IdleOK, PlanFileFacts
<1>3. CASE PlanLock \/ VerifyFile
  <2>1. CASE job' # Idle
    <3>1. job'.stage = "verify"
      BY <1>3, <2>1 DEF PlanLock, VerifyFile, TypeOK, Jobs
    <3> QED BY <3>1
  <2> QED BY <2>1, IdleOK
<1>4. CASE VerifyLock
  <2>1. CASE job' # Idle
    BY <1>4, <2>1 DEF VerifyLock, TypeOK, Jobs
  <2> QED BY <2>1, IdleOK
<1>5. CASE WriteFile
  <2> DEFINE f == First(job.todo)
  <2>1. /\ job'.plan = job.plan /\ job'.stage = job.stage /\ job.stage = "write"
        /\ job'.todo = job.todo \ {f} /\ job'.sources = job.sources
        /\ job'.edited = job.edited
        /\ f \in Files => disk'[f] = job.sources[f]
        /\ \A g \in Files \ {f} : disk'[g] = disk[g]
    BY <1>5 DEF WriteFile, TypeOK, Jobs
  <2>2. Writes(job.plan) \subseteq Files
    BY WritesFacts
  <2> HIDE DEF f
  <2>3. ASSUME NEW g \in Writes(job.plan) \ job'.todo
        PROVE  disk'[g] = job.sources[g] \/ (g \in job.edited /\ disk'[g] \in Own \union {None})
    <3>1. CASE g = f
      BY <2>1, <2>2, <3>1
    <3>2. CASE g # f
      BY <2>1, <2>2, <3>2
    <3> QED BY <3>1, <3>2
  <2> QED BY <2>1, <2>3
<1>6. CASE WriteLock \/ Crash
  BY <1>6, IdleOK DEF WriteLock, Crash
<1>7. ASSUME NEW f \in Files, NEW c \in Own \union {None}, Edit(f, c)
      PROVE  WrittenOK'
  <2>1. CASE job.stage = "idle"
    BY <1>7, <2>1, IdleOK DEF Edit, JobOK
  <2>2. CASE job.stage # "idle"
    <3>1. /\ job'.plan = job.plan /\ job'.todo = job.todo /\ job'.stage = job.stage
          /\ job'.sources = job.sources /\ job'.edited = job.edited \union {f}
          /\ disk'[f] = c /\ \A g \in Files \ {f} : disk'[g] = disk[g]
      BY <1>7, <2>2 DEF Edit, TypeOK, Jobs
    <3>2. Writes(job.plan) \subseteq Files
      BY WritesFacts
    <3>3. ASSUME job.stage = "write", NEW g \in Writes(job.plan) \ job.todo
          PROVE  disk'[g] = job.sources[g]
                   \/ (g \in job'.edited /\ disk'[g] \in Own \union {None})
      <4>1. CASE g = f
        BY <3>1, <4>1
      <4>2. CASE g # f
        BY <3>1, <3>2, <3>3, <4>2
      <4> QED BY <4>1, <4>2
    <3> QED BY <3>1, <3>3
  <2> QED BY <2>1, <2>2
<1>8. CASE RemoveLock \/ UNCHANGED vars
  BY <1>8 DEF RemoveLock, vars
<1>9. CASE Checkout
  <2>1. /\ job'.plan = job.plan /\ job'.stage = job.stage /\ job'.edited = job.edited
        /\ job'.todo = job.todo /\ job'.sources = job.sources /\ disk' = disk
    BY <1>9, CheckoutFacts DEF TypeOK, Jobs
  <2> QED BY <2>1
<1> QED BY <1>1, <1>2, <1>3, <1>4, <1>5, <1>6, <1>7, <1>8, <1>9 DEF Next, Render

-----------------------------------------------------------------------------
(* The lock *)

(* What render() writes into the lock is in place, or was edited meanwhile. *)
LEMMA ManagedInPlace ==
  ASSUME TypeOK, PlanOK, VerifiedOK, WrittenOK, WriteLock, ~job.moved,
         NEW f \in Managed(job.plan)
  PROVE  disk[f] = job.sources[f] \/ (f \in job.edited /\ disk[f] \in Own \union {None})
<1>1. /\ f \in Files /\ job.plan[f] # None
      /\ job.plan[f].action \in {"unchanged", "overwrite-authorized", "upgrade", "add"}
  BY DEF Managed, Planned
<1>2. job.stage = "write" /\ job.todo = {}
  BY DEF WriteLock, At
<1>3. CASE job.plan[f].action = "unchanged"
  BY <1>1, <1>2, <1>3 DEF PlanOK, At
<1>4. CASE job.plan[f].action # "unchanged"
  <2>1. f \in Writes(job.plan)
    BY <1>1, <1>4 DEF Writes, Planned, Adding
  <2> QED BY <1>2, <2>1 DEF WrittenOK, At
<1> QED BY <1>3, <1>4

(* What a written lock says.                                               *)
LEMMA WriteLockFacts ==
  ASSUME TypeOK, WriteLock
  PROVE  /\ lock'.mixed = job.moved /\ lock'.clean = job.clean /\ lock'.release = job.release /\ lock'.mode = job.mode
         /\ lock'.files = [f \in Managed(job.plan) |-> job.sources[f]]
         /\ DOMAIN lock'.files = Managed(job.plan)
         /\ \A f \in Managed(job.plan) : lock'.files[f] = job.sources[f]
         /\ disk' = disk /\ touched' = job.edited
         /\ strayed' = (strayed \union DOMAIN Hashes(lock)) \ Managed(job.plan)
BY DEF WriteLock

(* LockDescribes is inductive.                                             *)
LEMMA LockStep ==
  ASSUME TypeOK, PlanOK, VerifiedOK, WrittenOK, SourcesOK, LockDescribes, [Next]_vars
  PROVE  LockDescribes'
<1> USE DEF LockDescribes
<1>1. Locked(lock) => DOMAIN lock.files \subseteq Files
  BY HashesType, DescribedFacts DEF TypeOK
<1>2. CASE lock' = lock /\ disk' = disk /\ strayed' = strayed /\ touched' = touched
  BY <1>2 DEF Locked
<1>3. CASE WriteFile
  <2>1. /\ lock' = lock /\ strayed' = strayed \union {First(job.todo)} /\ touched' = touched
        /\ \A g \in Files \ {First(job.todo)} : disk'[g] = disk[g]
    BY <1>3 DEF WriteFile, TypeOK
  <2> QED BY <1>1, <2>1 DEF Locked
<1>4. CASE WriteLock
  <2>1. job.stage = "write" /\ Managed(job.plan) \subseteq DOMAIN job.sources
    BY <1>4 DEF WriteLock, At, VerifiedOK, Managed, Planned
  <2>2. ASSUME NEW f \in Managed(job.plan), job.clean
        PROVE  /\ f \in DOMAIN Source(lock'.release, lock'.mode)
               /\ lock'.files[f] = Source(lock'.release, lock'.mode)[f]
    <3>1. job.sources = Source(job.release, job.mode)
      BY <2>1, <2>2 DEF SourcesOK, At
    <3> QED BY <1>4, <2>1, <2>2, <3>1, WriteLockFacts
  <2>3. ASSUME NEW f \in Managed(job.plan), ~job.moved
        PROVE  disk'[f] = lock'.files[f] \/ f \in touched'
    BY <1>4, <2>3, ManagedInPlace, WriteLockFacts
  <2> QED BY <1>4, <2>2, <2>3, WriteLockFacts
<1>5. CASE Crash
  <2>1. CASE lock' = lock /\ strayed' = strayed /\ touched' = touched
             /\ disk' = [disk EXCEPT ![First(job.todo)] = Torn]
    <3>1. \A g \in Files : disk'[g] = disk[g] \/ disk'[g] = Torn
      BY <2>1 DEF TypeOK
    <3> QED BY <1>1, <2>1, <3>1 DEF Locked
  <2>2. CASE lock' = Torn
    BY <2>2 DEF Locked
  <2> QED BY <1>2, <1>5, <2>1, <2>2 DEF Crash
<1>6. ASSUME NEW f \in Files, NEW c \in Own \union {None}, Edit(f, c)
      PROVE  LockDescribes'
  <2>1. /\ lock' = lock /\ strayed' = strayed /\ touched' = touched \union {f}
        /\ \A g \in Files \ {f} : disk'[g] = disk[g]
    BY <1>6 DEF Edit, TypeOK
  <2> QED BY <1>1, <2>1 DEF Locked
<1>7. CASE RemoveLock
  BY <1>7 DEF RemoveLock, Locked
<1> QED BY <1>2, <1>3, <1>4, <1>5, <1>6, <1>7
        DEF Next, Render, Begin, PlanFile, PlanLock, VerifyFile, VerifyLock, Checkout, vars

(* Accounted is inductive.                                                 *)
LEMMA AccountedStep ==
  ASSUME TypeOK, JobOK, PlanOK, VerifiedOK, WrittenOK, Accounted, [Next]_vars
  PROVE  Accounted'
<1> USE DEF Accounted
<1>1. None \notin Installed /\ Torn \notin Installed /\ Own \intersect Installed = {}
  BY ContentAssumption
<1>2. CASE lock' = lock /\ disk' = disk /\ strayed' = strayed
  BY <1>2 DEF Hashes, Locked
<1>3. CASE WriteFile
  <2>1. /\ lock' = lock /\ strayed' = strayed \union {First(job.todo)}
        /\ \A g \in Files \ {First(job.todo)} : disk'[g] = disk[g]
    BY <1>3 DEF WriteFile, TypeOK
  <2> QED BY <2>1 DEF Hashes, Locked
<1>4. CASE WriteLock
  <2> SUFFICES ASSUME NEW f \in Files, disk[f] \in Installed
               PROVE  \/ f \in strayed'
                      \/ /\ f \in DOMAIN Hashes(lock')
                         /\ lock'.mixed \/ lock'.files[f] = disk[f]
    BY <1>4, WriteLockFacts
  <2>1. CASE f \notin Managed(job.plan)
    BY <1>4, <2>1, WriteLockFacts
  <2>2. CASE f \in Managed(job.plan)
    <3>1. Locked(lock')
      <4>1. lock' \in Locks
        BY <1>4, WriteLockType
      <4> QED BY <4>1, ContentAssumption DEF Locked
    <3>2. f \in DOMAIN Hashes(lock')
      BY <1>4, <2>2, <3>1, WriteLockFacts DEF Hashes
    <3>3. job.moved \/ disk[f] = job.sources[f]
      BY <1>1, <1>4, <2>2, ManagedInPlace
    <3> QED BY <1>4, <2>2, <3>2, <3>3, WriteLockFacts
  <2> QED BY <2>1, <2>2
<1>5. CASE Crash
  <2>1. CASE lock' = lock /\ strayed' = strayed
             /\ disk' = [disk EXCEPT ![First(job.todo)] = Torn]
    <3>1. \A g \in Files : disk'[g] = disk[g] \/ disk'[g] = Torn
      BY <2>1 DEF TypeOK
    <3> QED BY <1>1, <2>1, <3>1 DEF Hashes, Locked
  <2>2. CASE strayed' = strayed \union DOMAIN Hashes(lock) /\ disk' = disk
    BY <2>2
  <2> QED BY <1>2, <1>5, <2>1, <2>2 DEF Crash
<1>6. ASSUME NEW f \in Files, NEW c \in Own \union {None}, Edit(f, c)
      PROVE  Accounted'
  <2>1. /\ lock' = lock /\ strayed' = strayed /\ disk'[f] = c
        /\ \A g \in Files \ {f} : disk'[g] = disk[g]
    BY <1>6 DEF Edit, TypeOK
  <2>2. c \notin Installed
    BY <1>1
  <2> QED BY <2>1, <2>2 DEF Hashes, Locked
<1>7. CASE RemoveLock
  BY <1>7 DEF RemoveLock
<1> QED BY <1>2, <1>3, <1>4, <1>5, <1>6, <1>7
        DEF Next, Render, Begin, PlanFile, PlanLock, VerifyFile, VerifyLock, Checkout, vars

-----------------------------------------------------------------------------
(* Theorems *)

(* IInv holds initially. *)
LEMMA InitIInv == Init => IInv
<1> SUFFICES ASSUME Init PROVE IInv
  OBVIOUS
<1>1. /\ job = Idle /\ job.stage = "idle" /\ lock = None /\ disk \in [Files -> Own \union {None}]
  BY ContentAssumption DEF Init, Idle
<1>2. ~Locked(lock)
  BY <1>1 DEF Locked
<1>3. TypeOK
  <2>1. source \in DOMAIN Releases /\ tree \in [DOMAIN Releases[source] -> Installed \union {None}]
    <3>1. source = 1 /\ 1 \in DOMAIN Releases /\ tree = Releases[1]
      BY ReleaseAssumption DEF Init
    <3>2. Releases[1] \in [DOMAIN Releases[1] -> Installed]
      BY <3>1, ReleaseContents
    <3> QED BY <3>1, <3>2
  <2>2. edits \in 0..MaxEdits
    BY EditsAssumption DEF Init
  <2>3. disk \in [Files -> Contents]
    BY <1>1 DEF Contents
  <2> QED BY <1>1, <2>1, <2>2, <2>3, IdleType DEF Init, TypeOK
<1>4. JobOK /\ SourcesOK /\ LockDescribes
  BY <1>1, <1>2 DEF JobOK, SourcesOK, LockDescribes, At
<1>5. PlanOK /\ VerifiedOK /\ WrittenOK
  BY <1>1, IdlePlan DEF PlanOK, VerifiedOK, WrittenOK, At
<1>6. Accounted
  BY <1>1, ContentAssumption DEF Accounted
<1> QED BY <1>3, <1>4, <1>5, <1>6 DEF IInv

(* IInv is inductive. *)
LEMMA StepIInv == IInv /\ [Next]_vars => IInv'
BY TypeStep, JobStep, PlanStep, VerifiedStep, WrittenStep, SourcesStep, LockStep, AccountedStep
   DEF IInv

(* IInv is an invariant. *)
LEMMA InvariantIInv == Spec => []IInv
BY InitIInv, StepIInv, PTL DEF Spec

(* Every value stays in its type: the plan of render(), its lock and what   *)
(* a managed path can hold.                                                 *)
THEOREM TypeCorrect == Spec => []TypeOK
<1>1. IInv => TypeOK
  BY DEF IInv
<1> QED BY <1>1, InvariantIInv, PTL

(* A lock render() wrote says what it put there, for every history of       *)
(* renders killed at any point, edits and commits of the Foundation.        *)
THEOREM LockDescribesCorrect == Spec => []LockDescribes
<1>1. IInv => LockDescribes
  BY DEF IInv
<1> QED BY <1>1, InvariantIInv, PTL

(* A collision of plan_render() always has one of the named reasons.        *)
THEOREM CollisionExplainedCorrect == Spec => []CollisionExplained
<1>1. ASSUME TypeOK, Accounted
      PROVE  CollisionExplained
  <2> SUFFICES ASSUME NEW m \in Modes, NEW f \in DOMAIN Sources(m),
                      Accepts(m, {}),
                      PlanNow(f, m) = "collision"
               PROVE  disk[f] \in Own \union {Torn} \/ f \in strayed \/ (Locked(lock) /\ lock.mixed)
    BY DEF CollisionExplained
  <2>1. f \in Files /\ disk[f] \in Contents
    BY <1>1, SourcesType DEF TypeOK, Accepts
  <2>2. Hashes(lock) \in Described /\ (Locked(lock) => Hashes(lock) = lock.files)
        /\ (~Locked(lock) => DOMAIN Hashes(lock) = {})
    BY <1>1, HashesType DEF TypeOK
  <2>3. disk[f] # None /\ ~(f \in DOMAIN Hashes(lock) /\ Hashes(lock)[f] = disk[f])
    BY <2>2, ActionFacts DEF PlanNow
  <2>4. CASE disk[f] \in Installed
    BY <1>1, <2>1, <2>2, <2>3, <2>4 DEF Accounted
  <2> QED BY <2>1, <2>3, <2>4 DEF Contents
<1>2. IInv => CollisionExplained
  BY <1>1 DEF IInv
<1> QED BY <1>2, InvariantIInv, PTL

(* The inspection of foundation_drift.py foresees every collision of        *)
(* plan_render(), and calls nothing one that the plan would just upgrade.   *)
THEOREM DriftForeseesCorrect == Spec => []DriftForesees
<1>1. ASSUME TypeOK
      PROVE  DriftForesees
  <2> SUFFICES ASSUME Locked(lock), NEW m \in Modes
               PROVE  LET candidate == Candidate(m)
                          report == Inspect(candidate)
                          planned(f) == PlanNow(f, "existing-product")
                      IN /\ \A f \in DOMAIN candidate :
                              planned(f) = "collision" => report[f] \in {"collision", "modified"}
                         /\ \A f \in DOMAIN report : report[f] = "collision" =>
                              f \notin DOMAIN candidate
                                \/ planned(f) \in {"collision", "preserved", "unchanged"}
    BY DEF DriftForesees
  <2> DEFINE E == "existing-product"
             C == Candidate(m)
             H == Hashes(lock)
  <2>1. H \in Described
    BY <1>1, HashesType DEF TypeOK
  <2>2. \A f \in DOMAIN H : H[f] # None
    BY <2>1, DescribedFacts, ContentAssumption
  <2>3. \A f \in DOMAIN C : /\ f \notin TargetOwned /\ f \in DOMAIN Sources(m)
                            /\ C[f] = Sources(m)[f]
    BY DEF Candidate
  <2>4. \A f \in DOMAIN H \union DOMAIN C :
          Inspect(C)[f] = DriftOf(Digest(H, f), Digest(C, f), disk[f])
    BY DEF Inspect
  <2>5. DOMAIN Inspect(C) = DOMAIN H \union DOMAIN C
    BY DEF Inspect
  <2>6. ASSUME NEW f \in DOMAIN C, PlanNow(f, E) = "collision"
        PROVE  Inspect(C)[f] \in {"collision", "modified"}
    <3>1. disk[f] # None /\ ~(f \in DOMAIN H /\ H[f] = disk[f])
      BY <2>1, <2>6, ActionFacts DEF PlanNow
    <3>2. Digest(H, f) # disk[f]
      BY <3>1 DEF Digest
    <3> HIDE DEF C, H
    <3> QED BY <2>4, <3>1, <3>2 DEF DriftOf
  <2>7. ASSUME NEW f \in DOMAIN C, Inspect(C)[f] = "collision"
        PROVE  PlanNow(f, E) \in {"collision", "preserved", "unchanged"}
    <3> HIDE DEF C, H
    <3>1. disk[f] # None /\ Digest(H, f) # disk[f]
      BY <2>4, <2>7 DEF DriftOf
    <3>2. ~(f \in DOMAIN H /\ H[f] = disk[f])
      BY <3>1 DEF Digest
    <3> QED BY <2>3, <3>1, <3>2 DEF PlanNow, ActionFor, H
  <2> QED BY <2>5, <2>6, <2>7
<1>2. IInv => DriftForesees
  BY <1>1 DEF IInv
<1> QED BY <1>2, InvariantIInv, PTL

(* What is about to be written over holds nothing of the target's people,   *)
(* unless the path was authorized or edited after its verification.         *)
LEMMA OverwriteSafe ==
  ASSUME TypeOK, PlanOK, VerifiedOK, job.stage = "write",
         NEW f \in job.todo, disk[f] \in Own
  PROVE  f \in job.authorized \union job.late
<1> SUFFICES ASSUME f \notin job.late PROVE f \in job.authorized
  OBVIOUS
<1>1. f \in Writes(job.plan) /\ AsPlanned(f)
  BY DEF VerifiedOK, At
<1>2. disk[f] # None /\ disk[f] \notin Installed
  BY ContentAssumption
<1>3. job.plan[f].action = "overwrite-authorized"
  BY <1>1, <1>2, WritesFacts DEF AsPlanned, Adding, PlanOK
<1> QED BY <1>1, <1>3, WritesFacts DEF PlanOK

(* render() replaces what people of the target wrote only where that path   *)
(* was authorized, or where they wrote after it had been verified.          *)
THEOREM KeepsOwnCorrect == Spec => KeepsOwn
<1> DEFINE Keeps == \A f \in Files :
                      disk[f] \in Own /\ disk'[f] \in Installed \union {Torn} =>
                        f \in job.authorized \union job.late
<1>1. ASSUME IInv, [Next]_vars
      PROVE  Keeps
  <2> SUFFICES ASSUME NEW f \in Files, disk[f] \in Own, disk'[f] \in Installed \union {Torn}
               PROVE  f \in job.authorized \union job.late
    OBVIOUS
  <2>1. TypeOK /\ PlanOK /\ VerifiedOK
    BY <1>1 DEF IInv
  <2>2. disk'[f] # disk[f] /\ disk'[f] \notin Own \union {None}
    BY ContentAssumption
  <2>3. CASE job.stage = "write" /\ f \in job.todo
    BY <2>1, <2>3, OverwriteSafe
  <2>4. CASE WriteFile
    BY <2>1, <2>2, <2>3, <2>4, FirstIn DEF WriteFile, At, TypeOK
  <2>5. CASE Crash
    BY <2>1, <2>2, <2>3, <2>5, FirstIn DEF Crash, At, TypeOK
  <2>6. ASSUME NEW g \in Files, NEW c \in Own \union {None}, Edit(g, c)
        PROVE  FALSE
    BY <2>1, <2>2, <2>6 DEF Edit, TypeOK
  <2> QED BY <1>1, <2>2, <2>4, <2>5, <2>6
          DEF Next, Render, Begin, PlanFile, PlanLock, VerifyFile, VerifyLock, WriteLock,
              RemoveLock, Checkout, vars
<1>2. IInv /\ [Next]_vars => [Keeps]_vars
  BY <1>1
<1> QED BY <1>2, InvariantIInv, PTL DEF Spec, KeepsOwn
==============================================================================
