------------------------------- MODULE Bootstrap -------------------------------
(***************************************************************************)
(* The renderer that installs and upgrades the Foundation in a repository  *)
(* (bootstrap/generator.py), and the inspection that compares a repository *)
(* with its lock (scripts/foundation_drift.py).                            *)
(*                                                                         *)
(* A render reads every destination into a plan, reads them again before   *)
(* it writes, writes file by file and last the lock.  Nothing keeps others *)
(* out meanwhile: people of the target edit files, the checkout that is    *)
(* installed from moves on, developers leave changes in its working tree   *)
(* that no commit has, and a render can be killed at any point.  What the  *)
(* lock names as its source is what the caller says it is, or the commit   *)
(* of the checkout; that the files read are that commit's nobody checks.   *)
(* A digest is the content it is taken of.  A managed path holds a regular *)
(* file or nothing; paths and symbolic links are not represented.          *)
(***************************************************************************)
EXTENDS Integers, Sequences, FiniteSets

CONSTANTS
  None, Torn,        \* no file; a file whose writing was cut short
  Releases,          \* Releases[r]: the managed files of commit r and their contents
  Checklist,         \* INSTALL_CHECKLIST.md, whose content is the mode
  TargetOwned,       \* files that are installed once and never replaced
  PreserveIfPresent, \* files an existing product keeps
  Own, Malformed,    \* what people of the target write; what is no configuration
  Targets,           \* what a target can hold before the Foundation comes
  Authorizations,    \* sets of paths somebody may authorize to be overwritten
  Drafts,            \* what developers leave in the Foundation's working tree
  Given,             \* what a caller can give as the SHA of the source, or None
  MaxEdits           \* bound: edits of the target and of the working tree

Modes == {"new-repository", "existing-product"}
Files == {Checklist} \union UNION {DOMAIN Releases[r] : r \in DOMAIN Releases}

\* What a directory of managed files renders for a mode.
Rendered(files, mode) ==
  [f \in DOMAIN files \union {Checklist} |-> IF f = Checklist THEN mode ELSE files[f]]

\* The contents of a commit for a mode.
Source(r, mode) == Rendered(Releases[r], mode)

Installed ==
  Modes \union Drafts
    \union UNION {{Releases[r][f] : f \in DOMAIN Releases[r]} : r \in DOMAIN Releases}

\* What a managed path can hold; contents of some of the managed files; locks.
Contents  == Installed \union Own \union {None, Torn}
Described == UNION {[F -> Installed] : F \in SUBSET Files}
Locks == [release : DOMAIN Releases, mode : Modes, mixed : BOOLEAN, clean : BOOLEAN,
          files : Described]

ASSUME ContentAssumption ==
  /\ None # Torn /\ Own \intersect Installed = {}
  /\ {None, Torn} \intersect (Own \union Installed \union Locks) = {}
  /\ Malformed \subseteq Own /\ Targets \subseteq [Files -> Own \union {None}]
ASSUME ReleaseAssumption ==
  /\ Len(Releases) \in Nat \ {0} /\ DOMAIN Releases = 1..Len(Releases)
  /\ \A r \in DOMAIN Releases : Releases[r] \in [DOMAIN Releases[r] -> Installed]
ASSUME GivenAssumption == Given \subseteq DOMAIN Releases \union {None}
ASSUME EditsAssumption == MaxEdits \in Nat

VARIABLES
  source,   \* the commit the Foundation's checkout is at
  tree,     \* its working tree: the managed files of that commit
  disk,     \* the managed paths of the target
  lock,     \* FOUNDATION.lock.json
  job,      \* the control state of render()
  strayed,  \* history: files a render wrote that the lock does not describe
  touched,  \* history: files people wrote since the render of the lock began
  edits

vars == <<source, tree, disk, lock, job, strayed, touched, edits>>
checkout == <<source, tree>>

NoPlan == [f \in Files |-> None]
Idle   == [stage |-> "idle", mode |-> None, authorized |-> {}, sources |-> <<>>, locked |-> <<>>,
           todo |-> {}, plan |-> NoPlan, lockSeen |-> None, release |-> None,
           edited |-> {}, late |-> {}, moved |-> FALSE, clean |-> FALSE]

At(stage) == job.stage = stage
Locked(l) == l \notin {None, Torn}
Hashes(l) == IF Locked(l) THEN l.files ELSE <<>>
First(S)  == CHOOSE f \in S : TRUE  \* paths are taken in a fixed order

Init ==
  /\ source = 1 /\ tree = Releases[1] /\ disk \in Targets /\ lock = None /\ job = Idle
  /\ strayed = {} /\ touched = {} /\ edits = 0

------------------------------------------------------------------------------
(* plan_render() *)

(* Mutant of ActionFor: what the lock says of a file is not looked at. *)
ActionForUnlocked(f, content, src, locked, mode, authorized) ==
  IF f \in TargetOwned
  THEN IF content = None THEN "add-target-owned"
       ELSE IF content = src THEN "target-owned-unchanged" ELSE "target-owned-preserved"
  ELSE IF content = None THEN "add"
  ELSE IF content = src THEN "unchanged"
  ELSE IF f \in authorized THEN "overwrite-authorized"
  ELSE IF mode = "existing-product" /\ f \in PreserveIfPresent THEN "preserved"
  ELSE "collision"

\* What is planned for one destination, from its content, its source and the
\* content the lock has for it.
ActionFor(f, content, src, locked, mode, authorized) ==
  IF f \in TargetOwned
  THEN IF content = None THEN "add-target-owned"
       ELSE IF content = src THEN "target-owned-unchanged" ELSE "target-owned-preserved"
  ELSE IF content = None THEN "add"
  ELSE IF content = src THEN "unchanged"
  ELSE IF f \in authorized THEN "overwrite-authorized"
  ELSE IF f \in DOMAIN locked /\ locked[f] = content THEN "upgrade"
  ELSE IF mode = "existing-product" /\ f \in PreserveIfPresent THEN "preserved"
  ELSE "collision"

Planned(plan, actions) == {f \in Files : plan[f] # None /\ plan[f].action \in actions}
Adding     == {"add", "add-target-owned"}
Writes(plan) == Planned(plan, Adding \union {"overwrite-authorized", "upgrade"})

(* Mutant of Managed: preserved files count as managed. *)
ManagedPreserved(plan) ==
  Planned(plan, {"unchanged", "overwrite-authorized", "upgrade", "add", "preserved"})

Managed(plan) == Planned(plan, {"unchanged", "overwrite-authorized", "upgrade", "add"})

\* _source_contents(): every file must be there; the working tree is read as it is.
Readable(files) == \A f \in files \ {Checklist} : f \in DOMAIN tree /\ tree[f] # None
Sources(mode)   == Rendered(tree, mode)

\* A new repository must be empty, an existing lock readable.
Accepts(mode, authorized) ==
  /\ Readable(DOMAIN tree) /\ authorized \subseteq DOMAIN Sources(mode)
  /\ mode = "new-repository" => lock = None /\ \A f \in Files : disk[f] = None
  /\ lock # Torn

\* A render is clean while the working tree is its commit's and the SHA given
\* for it, if any, that commit's.
Begin(mode, authorized, given) ==
  /\ At("idle") /\ Accepts(mode, authorized)
  /\ job' = [Idle EXCEPT !.stage = "plan", !.mode = mode, !.authorized = authorized,
                         !.sources = Sources(mode), !.locked = Hashes(lock),
                         !.todo = DOMAIN Sources(mode), !.release = given,
                         !.clean = tree = Releases[source] /\ given \in {None, source}]
  /\ UNCHANGED <<checkout, disk, lock, strayed, touched, edits>>

\* A configuration of the target that does not parse stops the plan.
PlanFile ==
  LET f == First(job.todo) IN
  /\ At("plan") /\ job.todo # {}
  /\ job' = IF f \in TargetOwned /\ disk[f] \in Malformed \union {Torn} THEN Idle
            ELSE [job EXCEPT !.todo = @ \ {f},
                    !.plan[f] = [action |-> ActionFor(f, disk[f], job.sources[f], job.locked,
                                                      job.mode, job.authorized),
                                 seen |-> disk[f]]]
  /\ UNCHANGED <<checkout, disk, lock, strayed, touched, edits>>

\* The SHA of the source: what was given, unchecked, or the checkout's commit.
Resolved(given) == IF given = None THEN source ELSE given

\* A plan with a collision is not carried out; of another the source is resolved.
PlanLock ==
  /\ At("plan") /\ job.todo = {}
  /\ job' = IF Planned(job.plan, {"collision"}) # {} THEN Idle
            ELSE [job EXCEPT !.stage = "verify", !.todo = DOMAIN job.sources,
                             !.lockSeen = lock, !.release = Resolved(@)]
  /\ UNCHANGED <<checkout, disk, lock, strayed, touched, edits>>

------------------------------------------------------------------------------
(* render() *)

(* Mutant of AsPlanned: only the absence of what is to be added is verified. *)
AsPlannedAbsent(f) == job.plan[f].action \in Adding => disk[f] = None

\* _verify_plan_state() of one entry.
AsPlanned(f) == disk[f] = IF job.plan[f].action \in Adding THEN None ELSE job.plan[f].seen

VerifyFile ==
  LET f == First(job.todo) IN
  /\ At("verify") /\ job.todo # {}
  /\ job' = IF AsPlanned(f) THEN [job EXCEPT !.todo = @ \ {f}] ELSE Idle
  /\ UNCHANGED <<checkout, disk, lock, strayed, touched, edits>>

\* The lock is verified last; then the sources are read a second time, all of
\* them before anything is written.
VerifyLock ==
  /\ At("verify") /\ job.todo = {}
  /\ job' = IF lock = job.lockSeen /\ Readable(DOMAIN job.sources)
            THEN [job EXCEPT !.stage = "write", !.todo = Writes(job.plan),
                             !.sources = [f \in DOMAIN @ |-> Sources(job.mode)[f]]]
            ELSE Idle
  /\ UNCHANGED <<checkout, disk, lock, strayed, touched, edits>>

WriteFile ==
  LET f == First(job.todo) IN
  /\ At("write") /\ job.todo # {}
  /\ disk' = [disk EXCEPT ![f] = job.sources[f]]
  /\ strayed' = strayed \union {f}
  /\ job' = [job EXCEPT !.todo = @ \ {f}]
  /\ UNCHANGED <<checkout, lock, touched, edits>>

WriteLock ==
  /\ At("write") /\ job.todo = {}
  /\ lock' = [release |-> job.release, mode |-> job.mode, mixed |-> job.moved,
              clean |-> job.clean, files |-> [f \in Managed(job.plan) |-> job.sources[f]]]
  /\ strayed' = (strayed \union DOMAIN Hashes(lock)) \ Managed(job.plan)
  /\ touched' = job.edited
  /\ job' = Idle
  /\ UNCHANGED <<checkout, disk, edits>>

\* Killed, or a failed write: a file is truncated before it is written.
Crash ==
  /\ ~At("idle")
  /\ job' = Idle
  /\ \/ UNCHANGED <<disk, lock, strayed>>
     \/ /\ At("write") /\ job.todo # {}
        /\ disk' = [disk EXCEPT ![First(job.todo)] = Torn]
        /\ UNCHANGED <<lock, strayed>>
     \/ /\ At("write") /\ job.todo = {}
        /\ lock' = Torn /\ strayed' = strayed \union DOMAIN Hashes(lock)
        /\ UNCHANGED disk
  /\ UNCHANGED <<checkout, touched, edits>>

------------------------------------------------------------------------------
(* Others *)

\* People of the target write or delete a file; what is no configuration is
\* like any other content elsewhere.
Edit(f, content) ==
  /\ content \in Malformed => f \in TargetOwned
  /\ edits < MaxEdits /\ disk[f] # content
  /\ disk' = [disk EXCEPT ![f] = content]
  /\ touched' = touched \union {f} /\ edits' = edits + 1
  /\ job' = IF At("idle") THEN job
            ELSE [job EXCEPT !.edited = @ \union {f},
                    !.late = IF At("write") \/ (At("verify") /\ f \notin job.todo)
                             THEN @ \union {f} ELSE @]
  /\ UNCHANGED <<checkout, lock, strayed>>

\* Nothing repairs a lock that was cut short but its removal.
RemoveLock ==
  /\ edits < MaxEdits /\ lock # None
  /\ lock' = None /\ strayed' = strayed \union DOMAIN Hashes(lock) /\ edits' = edits + 1
  /\ UNCHANGED <<checkout, disk, job, touched>>

\* A render whose sources change before their second reading.
Unsettled ==
  IF At("plan") \/ At("verify") THEN [job EXCEPT !.moved = TRUE, !.clean = FALSE] ELSE job

\* The Foundation's checkout moves on to the next commit.  Git keeps a changed
\* file that the commit leaves alone, and refuses to replace one it does not.
Pull ==
  LET now  == Releases[source]
      next == Releases[source + 1]
      Same(f) == f \in DOMAIN now /\ now[f] = next[f]
  IN
  /\ source < Len(Releases)
  /\ \A f \in DOMAIN tree : tree[f] \in {now[f], None} \/ (f \in DOMAIN next /\ Same(f))
  /\ source' = source + 1
  /\ tree' = [f \in DOMAIN next |-> IF Same(f) THEN tree[f] ELSE next[f]]
  /\ UNCHANGED edits

\* Somebody changes or removes a managed file there without committing it.
Draft(f, content) ==
  /\ edits < MaxEdits /\ tree[f] # content
  /\ tree' = [tree EXCEPT ![f] = content] /\ edits' = edits + 1
  /\ UNCHANGED source

\* The working tree is put back to its commit.
Restore ==
  /\ tree # Releases[source]
  /\ tree' = Releases[source]
  /\ UNCHANGED <<source, edits>>

Checkout ==
  /\ Pull \/ Restore \/ \E f \in DOMAIN tree, c \in Drafts \union {None} : Draft(f, c)
  /\ job' = Unsettled
  /\ UNCHANGED <<disk, lock, strayed, touched>>

Render ==
  \/ \E mode \in Modes, a \in Authorizations, given \in Given : Begin(mode, a, given)
  \/ PlanFile \/ PlanLock \/ VerifyFile \/ VerifyLock
  \/ WriteFile \/ WriteLock

Next ==
  \/ Render \/ Crash
  \/ (\E f \in Files, c \in Own \union {None} : Edit(f, c))
  \/ RemoveLock \/ Checkout

Spec == Init /\ [][Next]_vars

------------------------------------------------------------------------------
(* inspect() of foundation_drift.py *)

(* Mutant of DriftOf: a path that is new to the lock may hold anything. *)
DriftOfNew(old, expected, actual) ==
  IF actual = None THEN IF old = None THEN "new" ELSE "missing"
  ELSE IF old = None THEN "new"
  ELSE IF actual # old THEN IF expected # old THEN "collision" ELSE "modified"
  ELSE IF expected # old THEN "stale" ELSE "unchanged"

\* The state of one path: its digest in the lock, in the lock expected, and on disk.
DriftOf(old, expected, actual) ==
  IF actual = None THEN IF old = None THEN "new" ELSE "missing"
  ELSE IF old = None THEN "collision"
  ELSE IF actual # old THEN IF expected # old THEN "collision" ELSE "modified"
  ELSE IF expected # old THEN "stale" ELSE "unchanged"

Digest(hashes, f) == IF f \in DOMAIN hashes THEN hashes[f] ELSE None

\* The paths either lock lists, each with its state.
Inspect(expected) ==
  [f \in DOMAIN Hashes(lock) \union DOMAIN expected |->
     DriftOf(Digest(Hashes(lock), f), Digest(expected, f), disk[f])]


\* The lock a render into an empty directory would write.
Candidate(mode) == [f \in DOMAIN Sources(mode) \ TargetOwned |-> Sources(mode)[f]]

------------------------------------------------------------------------------
(* Properties *)

Actions == {"add", "add-target-owned", "target-owned-unchanged", "target-owned-preserved",
            "unchanged", "overwrite-authorized", "upgrade", "preserved", "collision"}
Jobs ==
  [stage : {"idle", "plan", "verify", "write"}, mode : Modes \union {None},
   authorized : SUBSET Files, sources : Described, locked : Described, todo : SUBSET Files,
   plan : [Files -> {None} \union [action : Actions, seen : Contents]],
   lockSeen : Locks \union {None, Torn}, release : DOMAIN Releases \union {None},
   edited : SUBSET Files, late : SUBSET Files, moved : BOOLEAN, clean : BOOLEAN]

TypeOK ==
  /\ source \in DOMAIN Releases /\ tree \in [DOMAIN Releases[source] -> Installed \union {None}]
  /\ disk \in [Files -> Contents]
  /\ lock \in Locks \union {None, Torn} /\ job \in Jobs
  /\ strayed \subseteq Files /\ touched \subseteq Files /\ edits \in 0..MaxEdits

\* What a render would plan now without authorization.
PlanNow(f, mode) ==
  ActionFor(f, disk[f], Sources(mode)[f], Hashes(lock), mode, {})

\* What people of the target wrote is replaced only where that path was
\* authorized, or where they wrote after the destination had been verified.
KeepsOwn ==
  [][\A f \in Files :
       disk[f] \in Own /\ disk'[f] \in Installed \union {Torn} =>
         f \in job.authorized \union job.late]_vars

\* The lock says what render() has put there: whatever was killed before it
\* was written, a listed file holds the content the lock has for it, or people
\* have written to it since that render began, or a later render that did not
\* finish has.  Sources that change between the two readings are excluded.
\* And the content it has is that of the commit it names, where the working
\* tree was that commit's and the SHA given for it, if any, its own; _source_sha()
\* checks neither.
LockDescribes ==
  Locked(lock) =>
    \A f \in DOMAIN lock.files :
      /\ lock.clean => f \in DOMAIN Source(lock.release, lock.mode)
                        /\ lock.files[f] = Source(lock.release, lock.mode)[f]
      /\ \/ lock.mixed \/ disk[f] = lock.files[f]
         \/ f \in touched \union strayed \/ disk[f] = Torn

\* An upgrade collides only with what people of the target wrote, with a file
\* cut short, or with what an unfinished render, a removed lock or a release
\* that no longer managed the file has left without a record.
CollisionExplained ==
  At("idle") /\ lock # Torn =>
    \A mode \in Modes : Accepts(mode, {}) =>
      \A f \in DOMAIN Sources(mode) :
        PlanNow(f, mode) = "collision" => disk[f] \in Own \union {Torn} \/ f \in strayed
          \/ (Locked(lock) /\ lock.mixed)

\* The inspection against a candidate foresees the upgrade: it calls every
\* collision one, or modified; and what it calls a collision the upgrade takes
\* for one, or preserves, or finds in place, or no longer manages.
DriftForesees ==
  At("idle") /\ Locked(lock) /\ Readable(DOMAIN tree) =>
    \A mode \in Modes :
      LET candidate == Candidate(mode)
          report == Inspect(candidate)
          planned(f) == PlanNow(f, "existing-product")
      IN /\ \A f \in DOMAIN candidate :
              planned(f) = "collision" => report[f] \in {"collision", "modified"}
         /\ \A f \in DOMAIN report : report[f] = "collision" =>
              f \notin DOMAIN candidate \/ planned(f) \in {"collision", "preserved", "unchanged"}
==============================================================================
