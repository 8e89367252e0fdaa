---------------------------- MODULE FleetCollector ----------------------------
(***************************************************************************)
(* The fleet collector (scripts/fleet_collect_github.py): of a project     *)
(* with a Pull Request it reads the Pull Request, the workflow runs of its *)
(* head and its review threads and comments, page by page, reads all of it *)
(* again, and reports a status only of evidence that did not move.         *)
(* Meanwhile people and CI change what it reads.                           *)
(***************************************************************************)
EXTENDS FleetProgress

CONSTANTS
  Project,     \* the configured project with a Pull Request
  Baselines,   \* the configured projects without one, as a sequence
  Runs,        \* the workflow runs there can be, with their raw states
  Threads,     \* review threads, by number
  Comments,    \* the comments there can be, by number
  PageSize,    \* of a page of runs, of threads and of comments
  MaxPages,    \* MAX_RUN_PAGES, MAX_REVIEW_PAGES
  Worlds,      \* what a collection can begin with: pull, runs, threads, comments, note
  Pulls,       \* what the Pull Request can become
  MaxChanges   \* bound: changes during a collection

ASSUME BoundsAssumption ==
  PageSize \in Nat \ {0} /\ MaxPages \in Nat \ {0} /\ MaxChanges \in Nat

\* What GitHub answers: a Pull Request, the threads, and numbered entries.
PullRecords == [state : {"open", "closed", "merged"}, draft : BOOLEAN, head : {p.head : p \in Pulls}, updated : Nat]
Boards      == [Threads -> {"absent", "open", "resolved"}]
Numbered(S) == IsFiniteSet(S) /\ \A x, y \in S : x.id = y.id => x = y

ASSUME EvidenceAssumption ==
  /\ None \notin Nat
  /\ Pulls \subseteq PullRecords /\ \A p \in Pulls : p.head # None
  /\ \A r \in Runs : r.id \in Nat /\ r.updated \in Nat
  /\ Threads \subseteq Nat \ {0} /\ IsFiniteSet(Threads)
  /\ \A c \in Comments : /\ {"id", "edited", "marks"} \subseteq DOMAIN c
                         /\ c.id \in Nat \ {0} /\ IsFiniteSet(DOMAIN c.marks)

\* A text of the configuration: as long as the contract's, but of several lines perhaps.
TextConfigured(t) == ~(t.length > MaxText)

ASSUME WorldsAssumption ==
  \A w \in Worlds : /\ w.pull \in Pulls /\ w.threads \in Boards
                   /\ w.runs \subseteq Runs /\ Numbered(w.runs)
                   /\ w.comments \subseteq Comments /\ IsFiniteSet(w.comments)
                   /\ TextConfigured(w.note)

------------------------------------------------------------------------------
(* Configuration *)

\* A project has a Pull Request and workflows, or a baseline and nothing else.
ProjectConfigured(p) ==
  /\ p.human => p.blocker # None
  /\ p.blocker # None => TextConfigured(p.blocker)
  /\ p.coordinators # {}
  /\ IF p.pull = None
     THEN p.workflows = {} /\ p.baseline \in {"backlog", "ready", "idle"} /\ ~p.human /\ p.blocker = None
     ELSE p.workflows # {} /\ p.baseline = None

Configured(projects) ==
  /\ \A i \in DOMAIN projects : ProjectConfigured(projects[i])
  /\ \A i, j \in DOMAIN projects : projects[i].repository = projects[j].repository => i = j

ASSUME ConfigAssumption ==
  /\ Baselines \in Seq(Range(Baselines))
  /\ Configured(<<Project>> \o Baselines)
  /\ Project.pull # None
  /\ \A i \in DOMAIN Baselines : Baselines[i].pull = None /\ TextConfigured(Baselines[i].note)

------------------------------------------------------------------------------
(* Evidence *)

\* The state of a check by the raw state of a run; None is refused.
RunState(raw) ==
  IF raw \in {"requested", "waiting", "pending", "queued"} THEN "queued"
  ELSE IF raw = "startup_failure" THEN "failure"
  ELSE IF raw \in CheckStates \ {"missing"} THEN raw ELSE None

Later(r, s) == r.updated > s.updated \/ (r.updated = s.updated /\ r.id > s.id)

Selected(runs, w) == {r \in runs : r.name = w /\ \A s \in runs \ {r} : s.name = w => Later(r, s)}

ChecksOf(runs) ==
  [w \in Project.workflows |->
    IF Selected(runs, w) = {} THEN "missing" ELSE RunState((CHOOSE r \in Selected(runs, w) : TRUE).raw)]

TimesOf(runs) == [w \in Project.workflows |-> {r.updated : r \in Selected(runs, w)}]

ChecksRefused(runs) == \E r \in runs : r.name \in Project.workflows /\ RunState(r.raw) = None

\* Comments that count: by a trusted coordinator and never edited.
Trusted(comments) == {c \in comments : c.author \in Project.coordinators /\ ~c.edited}

\* The markers for this head: the i-th of comment c; those of a stage and verdict.
Marks(comments, head) ==
  UNION {{<<c, i>> : i \in {k \in DOMAIN c.marks : c.marks[k].head = head}} : c \in Trusted(comments)}

Count(comments, head, stage, verdict) ==
  Cardinality({m \in Marks(comments, head) :
    m[1].marks[m[2]].stage = stage /\ m[1].marks[m[2]].verdict = verdict})

\* A comment that refers to the head without a marker, or has no summary.
Ambiguous(comments, head) ==
  \E c \in Trusted(comments) :
    IF \E m \in Marks({c}, head) : TRUE THEN ~c.summary ELSE head \in c.mentions

Referred(comments, head) ==
  Marks(comments, head) # {} \/ \E c \in Trusted(comments) : head \in c.mentions

Stages == {"general", "scope-security", "correctness-race"}
Wanted == IF Project.risk = "protected" THEN {"scope-security", "correctness-race"} ELSE {"general"}

\* Exactly one clean mark of each wanted stage and none of another.
CleanMarks(comments, head) ==
  /\ \A stage \in Stages :
       Count(comments, head, stage, "clean") = IF stage \in Wanted THEN 1 ELSE 0
  /\ ~Ambiguous(comments, head)

(* Mutant of ReviewState: open threads come before a blocking finding. *)
ReviewStatePending(unresolved, comments, head) ==
  IF unresolved # {} THEN "pending"
  ELSE IF \E stage \in Stages : Count(comments, head, stage, "blocked") > 0 THEN "blocked"
  ELSE IF CleanMarks(comments, head) THEN "clean"
  ELSE IF Referred(comments, head) THEN "pending" ELSE "required"

ReviewState(unresolved, comments, head) ==
  IF \E stage \in Stages : Count(comments, head, stage, "blocked") > 0 THEN "blocked"
  ELSE IF unresolved # {} THEN "pending"
  ELSE IF CleanMarks(comments, head) THEN "clean"
  ELSE IF Referred(comments, head) THEN "pending" ELSE "required"

ReviewOf(threads, comments, head) ==
  LET unresolved == {t \in DOMAIN threads : threads[t] = "open"}
  IN [state |-> ReviewState(unresolved, comments, head), unresolved |-> Cardinality(unresolved),
      times |-> {m[1].at : m \in Marks(comments, head)}]

------------------------------------------------------------------------------
(* The status of a project and its record *)

BadChecks     == {"failure", "cancelled", "timed_out", "stale"}
PendingChecks == {"queued", "in_progress"}
HeldChecks    == {"missing", "action_required"}

States(checks) == {checks[w] : w \in DOMAIN checks}
(* Mutant of Or: only a configured blocker is given. *)
OrConfigured(blocker, reason) == blocker

Or(blocker, reason) == IF blocker # None THEN blocker ELSE reason
Says(status, blocker) == [status |-> status, blocker |-> blocker]

\* The reasons the collector gives: two name every check that did not pass.
NotPassed(checks) == {w \in DOMAIN checks : checks[w] \notin Passing}
Detail(checks) ==
  FoldFunction(+, 2 * (Cardinality(NotPassed(checks)) - 1),
               [w \in NotPassed(checks) |-> Len(w) + 1 + Len(checks[w])])

ClosedReason         == Text("closed", 47, FALSE)
FindingReason        == Text("finding", 46, FALSE)
FailedReason(checks) == Text("failed", 37 + Detail(checks), FALSE)
HeldReason(checks)   == Text("held", 50 + Detail(checks), FALSE)

\* None of them is the absent blocker, and the two that name no check are short.
ASSUME ReasonAssumption ==
  /\ None \notin {ClosedReason, FindingReason} /\ MaxText >= 47
  /\ \A checks \in [Project.workflows -> CheckStates] : None \notin {FailedReason(checks), HeldReason(checks)}

\* None: the configured human action contradicts the Pull Request.
StatusOf(pull, checks, review) ==
  IF pull.state # "open" /\ Project.human THEN None
  ELSE IF pull.state = "merged" THEN Says("completed", None)
  ELSE IF pull.state = "closed" THEN Says("blocked", Or(Project.blocker, ClosedReason))
  ELSE IF Project.human THEN Says("human_action", Project.blocker)
  ELSE IF States(checks) \intersect BadChecks # {} THEN Says("fix_required", Or(Project.blocker, FailedReason(checks)))
  ELSE IF States(checks) \intersect HeldChecks # {} THEN Says("blocked", Or(Project.blocker, HeldReason(checks)))
  ELSE IF Project.blocker # None THEN Says("blocked", Project.blocker)
  ELSE IF States(checks) \intersect PendingChecks # {} THEN Says("ci_running", None)
  ELSE IF review.state = "blocked" THEN Says("blocked", FindingReason)
  ELSE IF review.state \in {"required", "pending"} \/ review.unresolved > 0 THEN Says("review_required", None)
  ELSE IF pull.draft THEN Says("pr_open", None) ELSE Says("ready_to_merge", None)

RecordOf(pull, checks, review, note) ==
  LET s == StatusOf(pull, checks, review) IN
  [repository |-> Project.repository, note |-> note, status |-> s.status, head |-> pull.head, checks |-> checks,
   review |-> review.state, unresolved |-> review.unresolved, blocker |-> s.blocker,
   human |-> s.status = "human_action"]

BaselineRecord(p) ==
  [repository |-> p.repository, note |-> p.note, status |-> p.baseline, head |-> None, checks |-> <<>>,
   review |-> "required", unresolved |-> 0, blocker |-> None, human |-> FALSE]

DocumentOf(record) ==
  <<record>> \o [i \in DOMAIN Baselines |-> BaselineRecord(Baselines[i])]

------------------------------------------------------------------------------
(* State *)

VARIABLES
  pull,      \* the Pull Request: state, draft, head, updated
  runs,      \* the workflow runs of the head the collection began with
  threads,   \* "absent", "open" or "resolved"
  comments,  \* the comments of the Pull Request
  col,       \* the collector: where it is and what it has read
  mid,       \* history: the world between the two passes, or None
  changes    \* history: changes so far, those of reviews, and deletions of runs

vars  == <<pull, runs, threads, comments, col, mid, changes>>
world == <<pull, runs, threads, comments>>

NoReview == [threads |-> 0, comments |-> 0, open |-> {}, marks |-> {},
             threadsDone |-> FALSE, commentsDone |-> FALSE, page |-> 1]
NoRuns   == [page |-> 1, total |-> None, count |-> 0, listed |-> {}, stayed |-> {}]

Init ==
  /\ \E w \in Worlds :
       /\ pull = w.pull /\ runs = w.runs /\ threads = w.threads /\ comments = w.comments
       /\ col = [at |-> "pull", pass |-> 1, note |-> w.note, pull |-> None, runs |-> NoRuns, review |-> NoReview,
                 checks |-> None, times |-> None, found |-> None, moved |-> FALSE, document |-> None]
  /\ mid = None /\ changes = [all |-> 0, review |-> 0, deleted |-> 0]

At(place) == col.at = place

------------------------------------------------------------------------------
(* What people and CI do meanwhile *)

Ended == {"done", "refused", "rejected"}

Changing == col.at \notin Ended \union {"pull"} /\ changes.all < MaxChanges

Counted(review, deleted) ==
  changes' = [all |-> changes.all + 1, review |-> changes.review + review, deleted |-> changes.deleted + deleted]

\* A push, a draft made ready, a close, a merge or a reopening.
ChangePull ==
  /\ Changing /\ Counted(0, 0)
  /\ \E p \in Pulls : /\ <<p.state, p.draft, p.head>> # <<pull.state, pull.draft, pull.head>>
                      /\ pull.state # "merged"
                      /\ pull' = [p EXCEPT !.updated = pull.updated + 1]
  /\ UNCHANGED <<runs, threads, comments, col, mid>>

\* A run is created, moves on, is rerun, or is deleted.
ChangeRuns ==
  /\ Changing
  /\ \/ \E r \in Runs : (\A s \in runs : s.id < r.id) /\ runs' = runs \union {r} /\ Counted(0, 0)
     \/ \E r \in runs : runs' = runs \ {r} /\ Counted(0, 1)
     \/ \E r \in runs, s \in Runs :
          /\ Counted(0, 0)
          /\ s.id = r.id /\ s.name = r.name /\ s.updated > r.updated
          /\ runs' = (runs \ {r}) \union {s}
  /\ col' = [col EXCEPT !.runs.stayed = @ \intersect {r.id : r \in runs'}]
  /\ UNCHANGED <<pull, threads, comments, mid>>

ChangeThreads ==
  /\ Changing /\ Counted(1, 0)
  /\ \E t \in Threads, s \in {"open", "resolved"} :
       /\ threads[t] # s /\ (threads[t] = "absent" => s = "open")
       /\ threads' = [threads EXCEPT ![t] = s]
  /\ UNCHANGED <<pull, runs, comments, col, mid>>

\* A comment is posted, which the Pull Request's time may or may not show, or deleted.
ChangeComments ==
  /\ Changing /\ Counted(1, 0)
  /\ \/ \E c \in Comments : /\ \A d \in comments : d.id < c.id
                            /\ comments' = comments \union {c}
     \/ \E c \in comments : comments' = comments \ {c}
     \/ \E c \in comments : ~c.edited /\ comments' = (comments \ {c}) \union {[c EXCEPT !.edited = TRUE]}
  /\ pull' \in {pull, [pull EXCEPT !.updated = @ + 1]}
  /\ UNCHANGED <<runs, threads, col, mid>>

------------------------------------------------------------------------------
(* The collector *)

Refused == [col EXCEPT !.at = "refused", !.runs = NoRuns, !.review = NoReview]

ReadPull ==
  /\ At("pull")
  /\ col' = [col EXCEPT !.at = "runs", !.pull = pull]
  /\ UNCHANGED <<world, mid, changes>>

\* A page of the runs: they are listed newest first.
Newer(r) == {s \in runs : s.id > r.id}
RunPage  == LET from == (col.runs.page - 1) * PageSize
            IN {r \in runs : Cardinality(Newer(r)) \in from .. (from + PageSize - 1)}

Listing ==
  [col.runs EXCEPT !.listed = @ \union RunPage, !.count = @ + Cardinality(RunPage), !.page = @ + 1,
                   !.total = IF @ = None THEN Cardinality(runs) ELSE @,
                   !.stayed = IF col.runs.page = 1 THEN {r.id : r \in runs} ELSE @]

(* Mutant of ListingRefused: only the length of the list is checked, at its end. *)
ListingRefusedNever == FALSE

\* The total moved, or a run came twice.
ListingRefused ==
  \/ col.runs.total \notin {None, Cardinality(runs)}
  \/ {r.id : r \in RunPage} \intersect {r.id : r \in col.runs.listed} # {}

ListingEnds ==
  Listing.count >= Cardinality(runs) \/ RunPage = {} \/ col.runs.page = MaxPages

\* What the second pass must find again.
(* Mutant of SameChecks: the times of the runs are not compared. *)
SameChecksUntimed(listed) == ChecksOf(listed) = col.checks

SameChecks(listed) == ChecksOf(listed) = col.checks /\ TimesOf(listed) = col.times

ReadRuns ==
  /\ At("runs")
  /\ col' = IF ListingRefused THEN Refused
            ELSE IF ~ListingEnds THEN [col EXCEPT !.runs = Listing]
            ELSE IF Listing.count # Listing.total \/ ChecksRefused(Listing.listed) THEN Refused
            ELSE [col EXCEPT !.at = "listed", !.runs = Listing]
  /\ UNCHANGED <<world, mid, changes>>

\* The first pass keeps its evidence; the second notes whether it is the same.
KeepRuns ==
  /\ At("listed")
  /\ LET next == [col EXCEPT !.at = "review", !.runs = NoRuns] IN
     col' = IF col.pass = 1
            THEN [next EXCEPT !.checks = ChecksOf(col.runs.listed), !.times = TimesOf(col.runs.listed)]
            ELSE [next EXCEPT !.moved = ~SameChecks(col.runs.listed)]
  /\ UNCHANGED <<world, mid, changes>>

\* One query reads a page of threads and a page of comments at one moment.
After(ids, cursor) ==
  LET rest == {i \in ids : i > cursor}
  IN {i \in rest : Cardinality({j \in rest : j < i}) < PageSize}

Live == {t \in Threads : threads[t] # "absent"}
Largest(ids, cursor) == IF ids = {} THEN cursor ELSE CHOOSE i \in ids : \A j \in ids : j <= i

ReviewPage ==
  LET r  == col.review
      ts == IF r.threadsDone THEN {} ELSE After(Live, r.threads)
      cs == IF r.commentsDone THEN {} ELSE After({c.id : c \in comments}, r.comments)
      lastT == Largest(ts, r.threads)
      lastC == Largest(cs, r.comments)
  IN [threads |-> lastT, comments |-> lastC,
      open |-> r.open \union {t \in ts : threads[t] = "open"},
      marks |-> r.marks \union {c \in comments : c.id \in cs},
      threadsDone |-> r.threadsDone \/ ~\E t \in Live : t > lastT,
      commentsDone |-> r.commentsDone \/ ~\E c \in comments : c.id > lastC,
      page |-> r.page + 1]

\* The evidence of a pass, from the threads and comments its pages held.
Found(r) ==
  ReviewOf([t \in Threads |-> IF t \in r.open THEN "open" ELSE "resolved"], r.marks, col.pull.head)

SameReview(r) == Found(r) = col.found

World == [pull |-> pull, runs |-> runs, comments |-> comments,
          review |-> ReviewOf(threads, comments, col.pull.head)]

ReadReview ==
  /\ At("review")
  /\ LET r == ReviewPage IN
     IF pull # col.pull THEN col' = Refused /\ UNCHANGED mid
     ELSE IF ~(r.threadsDone /\ r.commentsDone)
          THEN /\ col' = IF col.review.page = MaxPages THEN Refused ELSE [col EXCEPT !.review = r]
               /\ UNCHANGED mid
     ELSE IF col.pass = 1
          THEN /\ col' = [col EXCEPT !.at = "runs", !.pass = 2, !.review = NoReview, !.found = Found(r)]
               /\ mid' = World
     ELSE /\ col' = [col EXCEPT !.at = "pull2", !.review = NoReview,
                               !.moved = @ \/ ~SameReview(r)]
          /\ UNCHANGED mid
  /\ UNCHANGED <<world, changes>>

Moved == pull # col.pull

Report == RecordOf(col.pull, col.checks, col.found, col.note)

\* The last read, the status, and the document, which its own contract may refuse.
Finish ==
  /\ At("pull2")
  /\ col' = IF Moved \/ col.moved \/ StatusOf(col.pull, col.checks, col.found) = None THEN Refused
            ELSE IF DocumentAccepted(DocumentOf(Report))
                 THEN [col EXCEPT !.at = "done", !.document = DocumentOf(Report)]
                 ELSE [col EXCEPT !.at = "rejected"]
  /\ UNCHANGED <<world, mid, changes>>

Collect == ReadPull \/ ReadRuns \/ KeepRuns \/ ReadReview \/ Finish

Next == Collect \/ ChangePull \/ ChangeRuns \/ ChangeThreads \/ ChangeComments

Spec == Init /\ [][Next]_vars

------------------------------------------------------------------------------
(* Properties *)

\* A listing that is accepted holds every run that was there from its first
\* page to its last, whatever came and went between them.
ListingComplete == At("listed") => col.runs.stayed \subseteq {r.id : r \in col.runs.listed}

\* What the time of a run tells: which run of its workflow it is of.
TimesTell == \A r, s \in Runs : r.name = s.name /\ r.updated = s.updated => r.id = s.id

\* What is reported of the Pull Request and of its checks was so at one
\* moment, between the two passes, unless a run came and was deleted again,
\* or two runs of a workflow bear the same second: then the second pass may
\* find the state and the time of the first in another run.
PullAndChecksAtOnce ==
  /\ mid.pull = col.pull
  /\ changes.deleted = 0 /\ TimesTell => ChecksOf(mid.runs) = col.checks

\* So was what is reported of its review, unless a thread or a comment
\* changed and changed back: neither bears a version.
ReviewAtOnce == changes.review < 2 => mid.review = col.found

\* The evidence of a report held together at one moment.
EvidenceAtOnce == At("done") => PullAndChecksAtOnce /\ ReviewAtOnce

\* A blocking finding on a Pull Request that is merged, or whose checks are
\* running and neither failed nor held: the status comes without a blocker.
FindingUnsaid ==
  /\ col.found.state = "blocked"
  /\ \/ col.pull.state = "merged"
     \/ /\ col.pull.state = "open" /\ Project.blocker = None
        /\ States(col.checks) \intersect PendingChecks # {}
        /\ States(col.checks) \intersect (BadChecks \union HeldChecks) = {}

\* The collector names every check that did not pass in a reason of its own.
NamesTooMuch ==
  /\ col.pull.state = "open" /\ Project.blocker = None
  /\ IF States(col.checks) \intersect BadChecks # {} THEN 37 + Detail(col.checks) > MaxText
     ELSE States(col.checks) \intersect HeldChecks # {} /\ 50 + Detail(col.checks) > MaxText

\* The configuration let a tab or a line break through.
TextOfLines ==
  \/ col.note.broken \/ \E i \in DOMAIN Baselines : Baselines[i].note.broken
  \/ Project.blocker # None /\ Project.blocker.broken /\ col.pull.state # "merged"

\* The configuration, the collector's status and the document's contract were
\* written apart. Of evidence that stood still and has a status the contract
\* refuses these three kinds and no other.
RejectionExplained ==
  At("done") \/ At("rejected") =>
    (At("rejected") <=> FindingUnsaid \/ NamesTooMuch \/ TextOfLines)

\* A blocking finding is never shown as work in progress, ready or done.
FindingShown ==
  changes.review < 2 =>
    \A stage \in Stages : Count(mid.comments, mid.pull.head, stage, "blocked") > 0 =>
      SectionOf(col.document[1]) \in {"Human Action Required", "Blocked"}

\* A project is shown as ready only with every check passed, the wanted
\* reviews and no other, and no open thread.
ReadyIsReady ==
  SectionOf(col.document[1]) = "Ready to Merge" =>
    /\ mid.pull.state = "open" /\ ~mid.pull.draft
    /\ changes.deleted = 0 /\ TimesTell => States(ChecksOf(mid.runs)) \subseteq Passing
    /\ changes.review < 2 =>
         /\ mid.review.unresolved = 0
         /\ \A stage \in Stages : Count(mid.comments, mid.pull.head, stage, "blocked") = 0
         /\ \A stage \in Stages \ Wanted : Count(mid.comments, mid.pull.head, stage, "clean") = 0

\* The dashboard: every record has a section of it, and the section says of
\* the project what was so.
ReportTrue ==
  At("done") =>
    /\ \A i \in DOMAIN col.document : SectionOf(col.document[i]) # None
    /\ FindingShown /\ ReadyIsReady
==============================================================================
