---------------------------- MODULE FleetProgress ----------------------------
(***************************************************************************)
(* The contract of a fleet document (scripts/fleet_progress.py): what its  *)
(* project records must satisfy and where the dashboard shows them.        *)
(* Of the rules of single fields it has those of free text; the formats of *)
(* names, numbers and times are left out.                                  *)
(***************************************************************************)
EXTENDS Integers, Sequences, FiniteSets, Functions

CONSTANTS
  None,     \* an absent value
  MaxText   \* the length of a text, 500; the phase, of at most 160, is bounded alike

ASSUME TextAssumption == MaxText \in Nat

Passing     == {"success", "skipped", "neutral"}
CheckStates == Passing \union {"queued", "in_progress", "failure", "cancelled", "timed_out",
                               "action_required", "stale", "missing"}
ReviewStates == {"required", "pending", "clean", "blocked"}

HeadRequired    == {"pr_open", "ci_running", "review_required", "fix_required", "ready_to_merge"}
BlockerRequired == {"fix_required", "human_action", "blocked"}
NoBlocker       == {"ready_to_merge", "completed", "idle"}
Active          == {"backlog", "ready", "implementing", "pr_open", "ci_running", "review_required"}
Statuses        == HeadRequired \union BlockerRequired \union NoBlocker \union Active

\* A text: what it says, its length, and whether a tab or a line break is in it.
Text(says, length, broken) == [says |-> says, length |-> length, broken |-> broken]

TextAccepted(t) == ~(t.length > MaxText) /\ ~t.broken

Relationships(p) ==
  /\ p.status \in HeadRequired \/ p.review # "required" => p.head # None
  /\ p.status \in BlockerRequired \/ p.review = "blocked" => p.blocker # None
  /\ p.status \in NoBlocker => p.blocker = None
  /\ p.human = (p.status = "human_action")
  /\ p.review = "clean" => p.unresolved = 0
  /\ p.status = "review_required" => p.review # "clean"
  /\ p.status = "ready_to_merge" =>
       /\ DOMAIN p.checks # {} /\ \A w \in DOMAIN p.checks : p.checks[w] \in Passing
       /\ p.review = "clean" /\ p.unresolved = 0
       /\ p.blocker = None /\ ~p.human

ProjectAccepted(p) ==
  /\ p.status \in Statuses /\ p.review \in ReviewStates /\ p.unresolved >= 0
  /\ \A w \in DOMAIN p.checks : p.checks[w] \in CheckStates
  /\ TextAccepted(p.note) /\ (p.blocker # None => TextAccepted(p.blocker))
  /\ Relationships(p)

\* document is a sequence of project records.
DocumentAccepted(document) ==
  /\ \A i \in DOMAIN document : ProjectAccepted(document[i])
  /\ \A i, j \in DOMAIN document : document[i].repository = document[j].repository => i = j

\* The sections of the dashboard.
Sections == {"Human Action Required", "Blocked", "Ready to Merge", "Completed or Idle",
             "Active Implementation and Review"}

ASSUME SectionAssumption == None \notin Sections

\* The first section that applies; None stands for the error.
SectionOf(p) ==
  IF p.human THEN "Human Action Required"
  ELSE IF p.status \in {"blocked", "fix_required"} \/ p.review = "blocked" THEN "Blocked"
  ELSE IF p.status = "ready_to_merge" THEN "Ready to Merge"
  ELSE IF p.status \in {"completed", "idle"} THEN "Completed or Idle"
  ELSE IF p.status \in Active THEN "Active Implementation and Review" ELSE None
==============================================================================
