---------------------------- MODULE RecordBranch ----------------------------
(***************************************************************************)
(* Recovery records are files on the branch automation-internal-stops.     *)
(* put_record() adds one by compare-and-swap: it looks for the record,     *)
(* reads the head of the branch, commits on top of that head, moves the    *)
(* branch without force and waits until the record can be read back.       *)
(*                                                                         *)
(* A writer is one recovery job.  Jobs run one after the other (concurrency *)
(* group trusted-ci-reconciliation) and can be cancelled; other automation *)
(* keeps records of its own on the same branch meanwhile.                  *)
(***************************************************************************)
EXTENDS Naturals, Sequences

CONSTANTS
  Writer,        \* recovery jobs that put one record each
  PathOf,        \* the record's path, for every writer
  PayloadOf,     \* the record's content, for every writer
  Path,          \* paths of recovery records
  ForeignPath,   \* paths of the records other automation keeps on the branch
  Payload,
  None,          \* no record; no job
  Foreign,       \* the content of a foreign record
  WalkLimit,     \* max_depth: commits linear_descendant() walks back
  Tries,         \* reads of wait_for_record() before it gives up
  MaxRewrites,   \* bound: moves of the branch outside its history
  Lag,           \* BOOLEAN: a read of a file may show the branch as it was
                 \* at some time since the job started
  Overtake       \* BOOLEAN: the write of a cancelled job may still arrive

ASSUME WriterAssumption == /\ PathOf \in [Writer -> Path]
                           /\ PayloadOf \in [Writer -> Payload]
ASSUME ForeignAssumption == /\ Path \cap ForeignPath = {}
                            /\ Foreign \in Payload
ASSUME NoneAssumption == None \notin Payload \cup Writer
ASSUME LimitAssumption == /\ WalkLimit \in Nat
                          /\ Tries \in Nat \ {0}
                          /\ MaxRewrites \in Nat
ASSUME SwitchAssumption == /\ Lag \in BOOLEAN
                           /\ Overtake \in BOOLEAN

VARIABLES
  exists,    \* whether the branch exists
  branch,    \* its head: a commit is the sequence of what was committed since
             \* the root
  past,      \* heads the branch had since the present job started
  rewrites,  \* moves outside the history so far
  stage,     \* stage[w]: the call of put_record() that w makes next
  head,      \* head[w]: observed_head
  mine,      \* mine[w]: the branch was moved to w's commit, says the answer
  tries,     \* tries[w]: reads wait_for_record() may still make
  seen       \* seen[w]: visible, what the last read of the file returned

repo == <<exists, branch, past, rewrites>>
job == <<stage, head, mine, tries, seen>>
vars == <<repo, job>>

AnyPath == Path \cup ForeignPath
(* What a commit adds to its parent, and whose it is: two jobs that commit *)
(* equal records on one head make two commits, which differ in their date. *)
Entry == [path : AnyPath, payload : Payload, by : Writer \cup {None}]
Commit == Seq(Entry)

(* The content of the file at p in the tree of the commit h. *)
Lookup(h, p) ==
  IF \E i \in 1..Len(h) : h[i].path = p
  THEN h[CHOOSE i \in 1..Len(h) :
           /\ h[i].path = p
           /\ \A j \in 1..Len(h) : j > i => h[j].path # p].payload
  ELSE None

(* g is h or one of its ancestors. *)
Extends(h, g) ==
  /\ Len(g) <= Len(h)
  /\ \A i \in 1..Len(g) : g[i] = h[i]

(* linear_descendant(): found on the way back, in at most WalkLimit steps. *)
LinearDescendant(h, g) == Extends(h, g) /\ Len(h) - Len(g) <= WalkLimit

RecordOf(w) == [path |-> PathOf[w], payload |-> PayloadOf[w], by |-> w]

(* The commit of w: its record on top of the head it observed. *)
CommitOf(w) == Append(head[w], RecordOf(w))

-----------------------------------------------------------------------------
Working == {"ensure", "create", "existing", "head", "patch",
            "before", "look", "after"}
Ended == {"new", "true", "false", "failed", "adrift"}

Init ==
  /\ exists = FALSE
  /\ branch = <<>>
  /\ past = {}
  /\ rewrites = 0
  /\ stage = [w \in Writer |-> "new"]
  /\ head = [w \in Writer |-> <<>>]
  /\ mine = [w \in Writer |-> FALSE]
  /\ tries = [w \in Writer |-> 0]
  /\ seen = [w \in Writer |-> None]

Go(w, s) == stage' = [stage EXCEPT ![w] = s]

(* The branch gets a new head; reads may still show the old one. *)
MoveTo(h) == branch' = h /\ past' = past \cup {branch}

-----------------------------------------------------------------------------
(* put_record(), one action per call. *)

(* A job starts when no other is running. *)
Start(w) ==
  /\ stage[w] = "new"
  /\ \A u \in Writer : stage[u] \in Ended
  /\ Go(w, "ensure")
  /\ past' = {}
  /\ UNCHANGED <<exists, branch, rewrites, head, mine, tries, seen>>

(* ensure_stop_branch(): is there a branch?  A missing one is created. *)
EnsureBranch(w) ==
  /\ stage[w] = "ensure"
  /\ Go(w, IF exists THEN "existing" ELSE "create")
  /\ UNCHANGED <<repo, head, mine, tries, seen>>

CreateBranch(w) ==
  /\ stage[w] = "create"
  /\ IF exists
     THEN Go(w, "failed") /\ UNCHANGED repo
     ELSE /\ exists' = TRUE
          /\ MoveTo(<<>>)
          /\ Go(w, "existing")
          /\ UNCHANGED rewrites
  /\ UNCHANGED <<head, mine, tries, seen>>

(* What a read of the file at p can return. *)
Readable(p) ==
  {IF exists THEN Lookup(branch, p) ELSE None}
    \cup (IF Lag THEN {Lookup(h, p) : h \in past} ELSE {})

(* existing = read_record(path) *)
ReadExisting(w) ==
  /\ stage[w] = "existing"
  /\ \E value \in Readable(PathOf[w]) :
       \/ value = None /\ Go(w, "head")
       \/ value = PayloadOf[w] /\ Go(w, "false")
       \/ value \notin {None, PayloadOf[w]} /\ Go(w, "failed")
  /\ UNCHANGED <<repo, head, mine, tries, seen>>

(* The head of the branch; blob, tree and commit are made on top of it.   *)
(* Nothing refers to them yet.                                            *)
ReadHead(w) ==
  /\ stage[w] = "head"
  /\ IF exists
     THEN head' = [head EXCEPT ![w] = branch] /\ Go(w, "patch")
     ELSE UNCHANGED head /\ Go(w, "failed")
  /\ UNCHANGED <<repo, mine, tries, seen>>

(* Mutant of MayMove: the PATCH is sent with force. *)
MayMoveForced(w) == exists

(* GitHub moves a branch without force only forward. *)
MayMove(w) == exists /\ Extends(CommitOf(w), branch)

Await(w, ok) ==
  /\ Go(w, "before")
  /\ mine' = [mine EXCEPT ![w] = ok]
  /\ tries' = [tries EXCEPT ![w] = Tries]
  /\ UNCHANGED <<head, seen>>

(* PATCH of the ref, answered. *)
Patch(w) ==
  /\ stage[w] = "patch"
  /\ MayMove(w)
  /\ MoveTo(CommitOf(w))
  /\ Await(w, TRUE)
  /\ UNCHANGED <<exists, rewrites>>

(* Mutant of PatchFails: a refused PATCH is taken for another job's        *)
(* identical record.                                                       *)
PatchFailsQuietly(w) ==
  /\ stage[w] = "patch"
  /\ Go(w, "false")
  /\ UNCHANGED <<repo, head, mine, tries, seen>>

(* PATCH of the ref, refused, or failed with or without effect. *)
PatchFails(w) ==
  /\ stage[w] = "patch"
  /\ \/ UNCHANGED repo
     \/ MayMove(w) /\ MoveTo(CommitOf(w)) /\ UNCHANGED <<exists, rewrites>>
  /\ Await(w, FALSE)

(* expected_ancestor of wait_for_record() *)
Ancestor(w) == IF mine[w] THEN CommitOf(w) ELSE head[w]

(* ref_linearly_contains(stop_ref_sha(), expected_ancestor) *)
OnHistory(w) == exists /\ LinearDescendant(branch, Ancestor(w))

CheckBefore(w) ==
  /\ stage[w] = "before"
  /\ Go(w, IF OnHistory(w) THEN "look" ELSE "failed")
  /\ UNCHANGED <<repo, head, mine, tries, seen>>

Look(w) ==
  /\ stage[w] = "look"
  /\ \E value \in Readable(PathOf[w]) : seen' = [seen EXCEPT ![w] = value]
  /\ Go(w, "after")
  /\ UNCHANGED <<repo, head, mine, tries>>

(* Mutant of Outcome: wait_for_record() without its second look at the ref. *)
OutcomeUnchecked(w) ==
  CASE seen[w] = None -> IF tries[w] > 1 THEN "before" ELSE "failed"
    [] seen[w] = PayloadOf[w] -> IF mine[w] THEN "true" ELSE "false"
    [] OTHER -> "failed"

(* Where a read of the file leaves put_record(). *)
Outcome(w) ==
  CASE ~OnHistory(w) -> "failed"
    [] OnHistory(w) /\ seen[w] = None ->
         IF tries[w] > 1 THEN "before" ELSE "failed"
    [] OnHistory(w) /\ seen[w] = PayloadOf[w] ->
         IF mine[w] THEN "true" ELSE "false"
    [] OTHER -> "failed"

CheckAfter(w) ==
  /\ stage[w] = "after"
  /\ Go(w, Outcome(w))
  /\ tries' = [tries EXCEPT ![w] = IF tries[w] > 1 THEN tries[w] - 1 ELSE 0]
  /\ UNCHANGED <<repo, head, mine, seen>>

(* A call of w fails, or its job is cancelled. *)
Fail(w) ==
  /\ stage[w] \in Working
  /\ Go(w, "failed")
  /\ UNCHANGED <<repo, head, mine, tries, seen>>

-----------------------------------------------------------------------------
(* The job is cancelled while its PATCH is under way; it arrives later. *)
Abandon(w) ==
  /\ Overtake
  /\ stage[w] = "patch"
  /\ Go(w, "adrift")
  /\ UNCHANGED <<repo, head, mine, tries, seen>>

Arrive(w) ==
  /\ stage[w] = "adrift"
  /\ MayMove(w)
  /\ MoveTo(CommitOf(w))
  /\ Go(w, "failed")
  /\ UNCHANGED <<exists, rewrites, head, mine, tries, seen>>

(* Other automation adds a record of its own, in the same way. *)
ForeignRecord(p) ==
  /\ exists
  /\ Lookup(branch, p) = None
  /\ MoveTo(Append(branch, [path |-> p, payload |-> Foreign, by |-> None]))
  /\ UNCHANGED <<exists, rewrites, job>>

(* Somebody resets the branch to an earlier commit, or deletes it. *)
Rewrite ==
  /\ rewrites < MaxRewrites
  /\ exists
  /\ rewrites' = rewrites + 1
  /\ \/ \E n \in 0..(Len(branch) - 1) :
          MoveTo(SubSeq(branch, 1, n)) /\ UNCHANGED exists
     \/ MoveTo(<<>>) /\ exists' = FALSE
  /\ UNCHANGED job

Put(w) ==
  \/ Start(w) \/ EnsureBranch(w) \/ CreateBranch(w) \/ ReadExisting(w)
  \/ ReadHead(w) \/ Patch(w) \/ PatchFails(w)
  \/ CheckBefore(w) \/ Look(w) \/ CheckAfter(w)

Next ==
  \/ \E w \in Writer : Put(w) \/ Fail(w) \/ Abandon(w) \/ Arrive(w)
  \/ \E p \in ForeignPath : ForeignRecord(p)
  \/ Rewrite

Spec == Init /\ [][Next]_vars
FairSpec == Spec /\ \A w \in Writer : WF_vars(Put(w))

-----------------------------------------------------------------------------
TypeOK ==
  /\ exists \in BOOLEAN
  /\ branch \in Commit
  /\ past \subseteq Commit
  /\ rewrites \in 0..MaxRewrites
  /\ stage \in [Writer -> Working \cup Ended]
  /\ head \in [Writer -> Commit]
  /\ mine \in [Writer -> BOOLEAN]
  /\ tries \in [Writer -> 0..Tries]
  /\ seen \in [Writer -> Payload \cup {None}]

(* The records readers of the branch find. *)
Records == [p \in AnyPath |-> IF exists THEN Lookup(branch, p) ELSE None]

Map == INSTANCE RecordMap WITH Path <- AnyPath, records <- Records

(* A record, once on the branch, neither changes nor goes away, whoever    *)
(* writes beside it: "deterministic recovery record identity" of           *)
(* put_record().  Holds while nobody rewrites the branch and no write      *)
(* outlives its job.                                                       *)
WriteOnce == Map!Spec

(* The record the last write left at the path of w is u's, and both u and  *)
(* y, whose equal record w was answered with, are cancelled jobs whose     *)
(* PATCHes arrived.                                                        *)
Overtaken(w, y, u) ==
  /\ stage[y] = "failed" /\ PathOf[y] = PathOf[w] /\ PayloadOf[y] = PayloadOf[w]
  /\ stage[u] = "failed" /\ PathOf[u] = PathOf[w]
  /\ Records[PathOf[w]] = PayloadOf[u]

(* While nobody rewrites the branch: when put_record() returns True, its   *)
(* record is on the branch and stays there, whatever earlier, cancelled    *)
(* jobs still write; when it returns False, the same record was put by     *)
(* another job and is still there, unless the writes of two cancelled jobs *)
(* arrived late, the second over the first.                                *)
Returned ==
  rewrites = 0 =>
    \A w \in Writer :
      /\ stage[w] = "true" => Records[PathOf[w]] = PayloadOf[w]
      /\ stage[w] = "false" =>
           \/ Records[PathOf[w]] = PayloadOf[w]
           \/ \E y, u \in Writer : Overtaken(w, y, u)

(* put_record() returns True only while the record is on the branch, even  *)
(* if the branch was reset or deleted and written again since the PATCH.   *)
ConfirmedThere ==
  [][\A w \in Writer :
       stage[w] # "true" /\ stage'[w] = "true" => Records'[PathOf[w]] = PayloadOf[w]]_vars
=============================================================================
