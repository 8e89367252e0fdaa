------------------------- MODULE FleetCollectorProofs -------------------------
(***************************************************************************)
(* TypeOK, ListingComplete, RejectionExplained, EvidenceAtOnce and         *)
(* ReportTrue hold of Spec for every value of the constants.  The argument *)
(* has four parts.  The status and the contract of a document are compared *)
(* case by case.  A listing under way misses no run that stayed, because a *)
(* run that is still to come has a rank that is still to come, or the      *)
(* total has moved.  Of three looks at the runs of which each is followed  *)
(* by the next, the first and the last with the same times, the one        *)
(* between gives the checks of the first.  And of two passes over the      *)
(* review one is of what stood still, unless it changed twice.             *)
(***************************************************************************)
EXTENDS FleetCollector, FiniteSetTheorems, WellFoundedInduction, NaturalsInduction, SequenceTheorems, TLAPS

(* Evidence of the checks and of a review, as a pass yields it.            *)
CheckRecords == [Project.workflows -> CheckStates]
ReviewOK(review) ==
  /\ review.state \in ReviewStates /\ review.unresolved \in Nat
  /\ review.state = "clean" => review.unresolved = 0

------------------------------------------------------------------------------
(* The configuration *)

\* The configured projects, one by one, and the records of a document.
LEMMA InDocument ==
  ASSUME NEW first, NEW others, DOMAIN others = DOMAIN Baselines
  PROVE  LET list == <<first>> \o [i \in DOMAIN Baselines |-> others[i]] IN
         /\ DOMAIN list = 1 .. (Len(Baselines) + 1) /\ list[1] = first
         /\ \A i \in DOMAIN list : i # 1 => i - 1 \in DOMAIN Baselines /\ list[i] = others[i - 1]
<1> DEFINE rest == [i \in DOMAIN Baselines |-> others[i]]
           all  == {first} \union {others[i] : i \in DOMAIN Baselines}
<1>1. DOMAIN Baselines = 1 .. Len(Baselines) /\ Len(Baselines) \in Nat
  BY ConfigAssumption
<1>2. rest \in Seq(all) /\ Len(rest) = Len(Baselines)
  BY <1>1
<1>3. <<first>> \in Seq(all) /\ Len(<<first>>) = 1 /\ <<first>>[1] = first
  OBVIOUS
<1>4. /\ <<first>> \o rest \in Seq(all) /\ Len(<<first>> \o rest) = 1 + Len(Baselines)
      /\ \A i \in 1 .. 1 + Len(Baselines) :
           (<<first>> \o rest)[i] = IF i <= 1 THEN <<first>>[i] ELSE rest[i - 1]
  BY <1>2, <1>3, ConcatProperties
<1>5. DOMAIN (<<first>> \o rest) = 1 .. (Len(Baselines) + 1)
  BY <1>1, <1>4
<1> QED BY <1>1, <1>3, <1>4, <1>5

\* What ConfigAssumption says of the project and of each baseline.
LEMMA Configuration ==
  /\ ProjectConfigured(Project)
  /\ \A i \in DOMAIN Baselines : ProjectConfigured(Baselines[i]) /\ Baselines[i].repository # Project.repository
  /\ \A i, j \in DOMAIN Baselines : Baselines[i].repository = Baselines[j].repository => i = j
<1> DEFINE list == <<Project>> \o Baselines
<1>1. DOMAIN Baselines = 1 .. Len(Baselines) /\ Len(Baselines) \in Nat
  BY ConfigAssumption
<1>2. Baselines = [i \in DOMAIN Baselines |-> Baselines[i]]
  BY ConfigAssumption
<1>3. /\ DOMAIN list = 1 .. (Len(Baselines) + 1) /\ list[1] = Project
      /\ \A i \in DOMAIN list : i # 1 => i - 1 \in DOMAIN Baselines /\ list[i] = Baselines[i - 1]
  BY <1>2, InDocument
<1>4. /\ \A i \in DOMAIN list : ProjectConfigured(list[i])
      /\ \A i, j \in DOMAIN list : list[i].repository = list[j].repository => i = j
  BY ConfigAssumption DEF Configured
<1> HIDE DEF list
<1>5. \A i \in DOMAIN Baselines : i + 1 \in DOMAIN list /\ list[i + 1] = Baselines[i] /\ i + 1 # 1
  BY <1>1, <1>3
<1>6. 1 \in DOMAIN list
  BY <1>1, <1>3
<1>7. \A i, j \in DOMAIN Baselines : i + 1 = j + 1 => i = j
  BY <1>1
<1> QED BY <1>3, <1>4, <1>5, <1>6, <1>7

------------------------------------------------------------------------------
(* The status and the contract *)

\* The fields of the record that is reported.
LEMMA RecordFields ==
  ASSUME NEW p, NEW checks, NEW review, NEW note
  PROVE  LET r == RecordOf(p, checks, review, note)
             s == StatusOf(p, checks, review)
         IN /\ r.repository = Project.repository /\ r.status = s.status /\ r.head = p.head
            /\ r.checks = checks /\ r.review = review.state /\ r.unresolved = review.unresolved
            /\ r.blocker = s.blocker /\ r.human = (s.status = "human_action") /\ r.note = note
BY DEF RecordOf

\* The status of evidence, case by case.
LEMMA StatusCases ==
  ASSUME NEW p, NEW checks \in CheckRecords, NEW review, StatusOf(p, checks, review) # None
  PROVE  LET s == StatusOf(p, checks, review) IN
         \/ p.state = "merged" /\ s.status = "completed" /\ s.blocker = None
         \/ s.status = "human_action" /\ s.blocker = Project.blocker /\ Project.human
         \/ s.status \in {"blocked", "fix_required"} /\ s.blocker # None
         \/ /\ s.status = "ci_running" /\ s.blocker = None /\ Project.blocker = None
            /\ States(checks) \intersect PendingChecks # {} /\ p.state \notin {"merged", "closed"}
            /\ States(checks) \intersect BadChecks = {} /\ States(checks) \intersect HeldChecks = {}
         \/ /\ s.status = "review_required" /\ s.blocker = None
            /\ review.state # "blocked" /\ (review.state \in {"required", "pending"} \/ review.unresolved > 0)
         \/ /\ s.status \in {"pr_open", "ready_to_merge"} /\ s.blocker = None
            /\ p.state \notin {"merged", "closed"} /\ (s.status = "ready_to_merge" => ~p.draft)
            /\ States(checks) \intersect (BadChecks \union HeldChecks \union PendingChecks) = {}
            /\ review.state \notin {"blocked", "required", "pending"} /\ ~(review.unresolved > 0)
<1>1. Project.human => Project.blocker # None
  BY Configuration DEF ProjectConfigured
<1>2. None \notin {ClosedReason, FindingReason, FailedReason(checks), HeldReason(checks)}
  BY ReasonAssumption DEF CheckRecords
<1> QED BY <1>1, <1>2 DEF StatusOf, Says, Or

\* A passed check, or one of the others.
LEMMA CheckKinds == CheckStates \ (BadChecks \union HeldChecks \union PendingChecks) \subseteq Passing
BY DEF CheckStates, BadChecks, HeldChecks, PendingChecks

(* What the contract refuses of one project's evidence.                    *)
Unsaid(p, checks, review) ==
  /\ review.state = "blocked"
  /\ \/ p.state = "merged"
     \/ /\ p.state = "open" /\ Project.blocker = None
        /\ States(checks) \intersect PendingChecks # {}
        /\ States(checks) \intersect (BadChecks \union HeldChecks) = {}
TooMuch(p, checks) ==
  /\ p.state = "open" /\ Project.blocker = None
  /\ IF States(checks) \intersect BadChecks # {} THEN 37 + Detail(checks) > MaxText
     ELSE States(checks) \intersect HeldChecks # {} /\ 50 + Detail(checks) > MaxText
Lines(p) == Project.blocker # None /\ Project.blocker.broken /\ p.state # "merged"

\* The text of a reason.
LEMMA ReasonTexts ==
  ASSUME NEW checks
  PROVE  /\ TextAccepted(ClosedReason) /\ TextAccepted(FindingReason)
         /\ TextAccepted(FailedReason(checks)) <=> ~(37 + Detail(checks) > MaxText)
         /\ TextAccepted(HeldReason(checks)) <=> ~(50 + Detail(checks) > MaxText)
<1>1. ASSUME NEW says, NEW length PROVE TextAccepted(Text(says, length, FALSE)) <=> ~(length > MaxText)
  BY DEF TextAccepted, Text
<1>2. ~(47 > MaxText) /\ ~(46 > MaxText)
  BY TextAssumption, ReasonAssumption
<1> QED BY <1>1, <1>2 DEF ClosedReason, FindingReason, FailedReason, HeldReason

\* The blocker of a record is refused for what it names or for its lines.
LEMMA BlockerText ==
  ASSUME NEW p \in PullRecords, NEW checks \in CheckRecords, NEW review, StatusOf(p, checks, review) # None
  PROVE  LET s == StatusOf(p, checks, review) IN
         (s.blocker # None => TextAccepted(s.blocker)) <=> ~TooMuch(p, checks) /\ ~Lines(p)
<1> DEFINE s == StatusOf(p, checks, review)
<1>1. Project.blocker # None => (TextAccepted(Project.blocker) <=> ~Project.blocker.broken)
  BY Configuration DEF ProjectConfigured, TextConfigured, TextAccepted
<1>2. Project.human => Project.blocker # None
  BY Configuration DEF ProjectConfigured
<1>3. None \notin {ClosedReason, FindingReason, FailedReason(checks), HeldReason(checks)}
  BY ReasonAssumption DEF CheckRecords
<1>4. p.state \in {"open", "closed", "merged"}
  BY DEF PullRecords
<1>5. CASE p.state = "merged"
  <2>1. s.blocker = None
    BY <1>5 DEF StatusOf, Says
  <2> QED BY <1>5, <2>1 DEF TooMuch, Lines
<1>6. CASE Project.blocker # None /\ p.state # "merged"
  <2>1. s.blocker = Project.blocker
    BY <1>4, <1>6 DEF StatusOf, Says, Or
  <2> QED BY <1>1, <1>6, <2>1 DEF TooMuch, Lines
<1>7. CASE Project.blocker = None /\ p.state = "closed"
  <2>1. s.blocker = ClosedReason
    BY <1>7 DEF StatusOf, Says, Or
  <2> QED BY <1>7, <2>1, ReasonTexts DEF TooMuch, Lines
<1>8. CASE Project.blocker = None /\ p.state = "open"
  <2>1. CASE States(checks) \intersect BadChecks # {}
    <3>1. s.blocker = FailedReason(checks)
      BY <1>2, <1>8, <2>1 DEF StatusOf, Says, Or
    <3> QED BY <1>3, <1>8, <2>1, <3>1, ReasonTexts DEF TooMuch, Lines
  <2>2. CASE States(checks) \intersect BadChecks = {} /\ States(checks) \intersect HeldChecks # {}
    <3>1. s.blocker = HeldReason(checks)
      BY <1>2, <1>8, <2>2 DEF StatusOf, Says, Or
    <3> QED BY <1>3, <1>8, <2>2, <3>1, ReasonTexts DEF TooMuch, Lines
  <2>3. CASE States(checks) \intersect BadChecks = {} /\ States(checks) \intersect HeldChecks = {}
    <3>1. s.blocker \in {None, FindingReason}
      BY <1>2, <1>8, <2>3 DEF StatusOf, Says, Or
    <3> QED BY <1>8, <2>3, <3>1, ReasonTexts DEF TooMuch, Lines
  <2> QED BY <2>1, <2>2, <2>3
<1> QED BY <1>4, <1>5, <1>6, <1>7, <1>8

\* The relationships of a record fail for a finding that is not said, and for
\* nothing else.
LEMMA Contract ==
  ASSUME NEW p \in PullRecords, p.head # None, NEW checks \in CheckRecords, NEW review, ReviewOK(review), NEW note,
         TextConfigured(note), StatusOf(p, checks, review) # None
  PROVE  ProjectAccepted(RecordOf(p, checks, review, note)) <=>
           ~(Unsaid(p, checks, review) \/ TooMuch(p, checks) \/ Lines(p) \/ note.broken)
<1> DEFINE r == RecordOf(p, checks, review, note)
           s == StatusOf(p, checks, review)
<1>1. /\ r.status = s.status /\ r.head = p.head /\ r.checks = checks /\ r.review = review.state
      /\ r.unresolved = review.unresolved /\ r.blocker = s.blocker /\ r.human = (s.status = "human_action") /\ r.note = note
  BY RecordFields
<1>2. Project.blocker # None \/ ~Project.human
  BY Configuration DEF ProjectConfigured
<1>3. Project.workflows # {} /\ DOMAIN checks = Project.workflows /\ \A w \in DOMAIN checks : checks[w] \in CheckStates
  BY Configuration, ConfigAssumption DEF ProjectConfigured, CheckRecords
<1>4. States(checks) \intersect (BadChecks \union HeldChecks \union PendingChecks) = {} =>
        \A w \in DOMAIN checks : checks[w] \in Passing
  BY <1>3, CheckKinds DEF States
<1>13. (s.blocker # None => TextAccepted(s.blocker)) <=> ~TooMuch(p, checks) /\ ~Lines(p)
  BY BlockerText
<1>14. TextAccepted(note) <=> ~note.broken
  BY DEF TextAccepted, TextConfigured
<1>15. CASE Unsaid(p, checks, review)
  <2>1. r.review = "blocked" /\ s.blocker = None
    <3>1. CASE p.state = "merged"
      BY <1>1, <1>15, <3>1 DEF StatusOf, Says, Unsaid
    <3>2. CASE p.state # "merged"
      <4>1. /\ p.state = "open" /\ Project.blocker = None /\ States(checks) \intersect PendingChecks # {}
            /\ States(checks) \intersect BadChecks = {} /\ States(checks) \intersect HeldChecks = {}
        BY <1>15, <3>2 DEF Unsaid
      <4> QED BY <1>1, <1>2, <1>15, <4>1 DEF StatusOf, Says, Unsaid
    <3> QED BY <3>1, <3>2
  <2>2. ~Relationships(r)
    BY <1>1, <2>1 DEF Relationships
  <2> QED BY <1>15, <2>2 DEF ProjectAccepted
<1> HIDE DEF r, s
<1>5. ReviewStates = {"required", "pending", "clean", "blocked"} /\ review.state \in ReviewStates
  BY DEF ReviewOK, ReviewStates
<1>6. review.unresolved \in Nat /\ (review.state = "clean" => review.unresolved = 0)
  BY DEF ReviewOK
<1>7. ASSUME ~Unsaid(p, checks, review) PROVE Relationships(r)
  <2>1. CASE p.state = "merged" /\ s.status = "completed" /\ s.blocker = None
    <3>1. review.state # "blocked"
      BY <1>7, <2>1 DEF Unsaid
    <3> QED BY <1>1, <1>5, <1>6, <2>1, <3>1 DEF Relationships, HeadRequired, BlockerRequired, NoBlocker
  <2>2. CASE s.status = "human_action" /\ s.blocker = Project.blocker /\ Project.human
    BY <1>1, <1>2, <1>5, <1>6, <2>2 DEF Relationships, HeadRequired, BlockerRequired, NoBlocker
  <2>3. CASE s.status \in {"blocked", "fix_required"} /\ s.blocker # None
    BY <1>1, <1>5, <1>6, <2>3 DEF Relationships, HeadRequired, BlockerRequired, NoBlocker
  <2>4. CASE /\ s.status = "ci_running" /\ s.blocker = None /\ Project.blocker = None
             /\ States(checks) \intersect PendingChecks # {} /\ p.state \notin {"merged", "closed"}
             /\ States(checks) \intersect BadChecks = {} /\ States(checks) \intersect HeldChecks = {}
    <3>1. review.state # "blocked"
      <4>1. p.state = "open" /\ States(checks) \intersect (BadChecks \union HeldChecks) = {}
        BY <2>4 DEF PullRecords
      <4> QED BY <1>7, <2>4, <4>1 DEF Unsaid
    <3> QED BY <1>1, <1>5, <1>6, <2>4, <3>1 DEF Relationships, HeadRequired, BlockerRequired, NoBlocker
  <2>5. CASE /\ s.status = "review_required" /\ s.blocker = None
             /\ review.state # "blocked" /\ (review.state \in {"required", "pending"} \/ review.unresolved > 0)
    BY <1>1, <1>5, <1>6, <2>5 DEF Relationships, HeadRequired, BlockerRequired, NoBlocker
  <2>6. CASE /\ s.status \in {"pr_open", "ready_to_merge"} /\ s.blocker = None
             /\ States(checks) \intersect (BadChecks \union HeldChecks \union PendingChecks) = {}
             /\ review.state \notin {"blocked", "required", "pending"} /\ ~(review.unresolved > 0)
    <3>1. review.state = "clean" /\ review.unresolved = 0 /\ \A w \in DOMAIN checks : checks[w] \in Passing
      BY <1>4, <1>5, <1>6, <2>6
    <3>2. s.status # "human_action" /\ r.human = (s.status = "human_action") /\ ~r.human
      BY <1>1, <2>6
    <3>3. r.status \in HeadRequired /\ r.status \notin BlockerRequired
      BY <1>1, <2>6 DEF HeadRequired, BlockerRequired
    <3> QED BY <1>1, <1>3, <2>6, <3>1, <3>2, <3>3 DEF Relationships
  <2> QED BY <2>1, <2>2, <2>3, <2>4, <2>5, <2>6, StatusCases DEF s
<1>8. s.status \in Statuses
  BY StatusCases DEF Statuses, HeadRequired, BlockerRequired, NoBlocker, Active, s
<1>9. ProjectAccepted(r) <=> Relationships(r) /\ TextAccepted(note) /\ (s.blocker # None => TextAccepted(s.blocker))
  BY <1>1, <1>3, <1>5, <1>6, <1>8 DEF ProjectAccepted
<1>10. CASE Unsaid(p, checks, review)
  BY <1>9, <1>10, <1>15 DEF r
<1>11. CASE ~Unsaid(p, checks, review)
  BY <1>7, <1>9, <1>11, <1>13, <1>14 DEF r
<1> QED BY <1>10, <1>11

\* A baseline is accepted and has a section.
LEMMA BaselineAccepted ==
  ASSUME NEW i \in DOMAIN Baselines
  PROVE  LET b == BaselineRecord(Baselines[i]) IN
         /\ ProjectAccepted(b) <=> ~Baselines[i].note.broken
         /\ SectionOf(b) # None /\ b.repository = Baselines[i].repository
<1>1. Baselines[i].baseline \in {"backlog", "ready", "idle"}
  BY Configuration, ConfigAssumption DEF ProjectConfigured
<1>2. LET b == BaselineRecord(Baselines[i]) IN
      /\ b.repository = Baselines[i].repository /\ b.status = Baselines[i].baseline /\ b.head = None
      /\ DOMAIN b.checks = {} /\ b.review = "required" /\ b.unresolved = 0 /\ b.blocker = None /\ b.human = FALSE
      /\ b.note = Baselines[i].note
  BY DEF BaselineRecord
<1> DEFINE b == BaselineRecord(Baselines[i])
<1>3. /\ b.status = Baselines[i].baseline /\ b.head = None
      /\ DOMAIN b.checks = {} /\ b.review = "required" /\ b.unresolved = 0 /\ b.blocker = None /\ b.human = FALSE
      /\ b.note = Baselines[i].note
  BY <1>2
<1>. b.human = (b.status = "human_action") /\ ~b.human
  BY <1>1, <1>3
<1> HIDE DEF b
<1>6. TextAccepted(b.note) <=> ~Baselines[i].note.broken
  BY <1>3, ConfigAssumption DEF TextAccepted, TextConfigured
<1>7. /\ b.status \in Statuses /\ b.review \in ReviewStates /\ b.unresolved >= 0
      /\ \A w \in DOMAIN b.checks : b.checks[w] \in CheckStates
  BY <1>1, <1>3 DEF Statuses, NoBlocker, Active, ReviewStates
<1>8. Relationships(b)
  BY <1>1, <1>3 DEF Relationships, HeadRequired, BlockerRequired, NoBlocker
<1>4. ProjectAccepted(b) <=> ~Baselines[i].note.broken
  BY <1>3, <1>6, <1>7, <1>8 DEF ProjectAccepted
<1>5. SectionOf(b) # None
  BY <1>1, <1>3, SectionAssumption DEF SectionOf, Active, Sections
<1> QED BY <1>2, <1>4, <1>5 DEF b

\* The records of a document.
LEMMA DocumentRecords ==
  ASSUME NEW record
  PROVE  LET d == DocumentOf(record) IN
         /\ 1 \in DOMAIN d /\ d[1] = record
         /\ \A i \in DOMAIN d : i # 1 => i - 1 \in DOMAIN Baselines /\ d[i] = BaselineRecord(Baselines[i - 1])
         /\ \A i, j \in DOMAIN d : i # 1 /\ i - 1 = j - 1 => i = j
<1> DEFINE others == [i \in DOMAIN Baselines |-> BaselineRecord(Baselines[i])]
<1>1. DOMAIN others = DOMAIN Baselines /\ others = [i \in DOMAIN Baselines |-> others[i]]
      /\ \A i \in DOMAIN Baselines : others[i] = BaselineRecord(Baselines[i])
  OBVIOUS
<1>2. DocumentOf(record) = <<record>> \o others
  BY DEF DocumentOf
<1> HIDE DEF others
<1>3. LET list == <<record>> \o [i \in DOMAIN Baselines |-> others[i]] IN
      /\ DOMAIN list = 1 .. (Len(Baselines) + 1) /\ list[1] = record
      /\ \A i \in DOMAIN list : i # 1 => i - 1 \in DOMAIN Baselines /\ list[i] = others[i - 1]
  BY <1>1, InDocument
<1>4. Len(Baselines) \in Nat
  BY ConfigAssumption
<1> QED BY <1>1, <1>2, <1>3, <1>4

\* Each baseline is in the document.
LEMMA BaselinesInDocument ==
  ASSUME NEW record, NEW i \in DOMAIN Baselines
  PROVE  /\ i + 1 \in DOMAIN DocumentOf(record) /\ i + 1 # 1
         /\ DocumentOf(record)[i + 1] = BaselineRecord(Baselines[i])
<1> DEFINE others == [k \in DOMAIN Baselines |-> BaselineRecord(Baselines[k])]
<1>1. DOMAIN others = DOMAIN Baselines /\ others = [k \in DOMAIN Baselines |-> others[k]]
      /\ \A k \in DOMAIN Baselines : others[k] = BaselineRecord(Baselines[k])
  OBVIOUS
<1>2. DocumentOf(record) = <<record>> \o others
  BY DEF DocumentOf
<1> HIDE DEF others
<1>3. LET list == <<record>> \o [k \in DOMAIN Baselines |-> others[k]] IN
      /\ DOMAIN list = 1 .. (Len(Baselines) + 1) /\ list[1] = record
      /\ \A k \in DOMAIN list : k # 1 => k - 1 \in DOMAIN Baselines /\ list[k] = others[k - 1]
  BY <1>1, InDocument
<1>4. DOMAIN Baselines = 1 .. Len(Baselines) /\ Len(Baselines) \in Nat
  BY ConfigAssumption
<1>5. i + 1 \in 1 .. (Len(Baselines) + 1) /\ i + 1 # 1 /\ (i + 1) - 1 = i
  BY <1>4
<1> QED BY <1>1, <1>2, <1>3, <1>5

\* A document is accepted if its first record is and no baseline is of several lines.
LEMMA DocumentContract ==
  ASSUME NEW record, record.repository = Project.repository
  PROVE  DocumentAccepted(DocumentOf(record)) <=>
           ProjectAccepted(record) /\ ~\E i \in DOMAIN Baselines : Baselines[i].note.broken
<1> DEFINE d == DocumentOf(record)
<1>1. /\ 1 \in DOMAIN d /\ d[1] = record
      /\ \A i \in DOMAIN d : i # 1 => i - 1 \in DOMAIN Baselines /\ d[i] = BaselineRecord(Baselines[i - 1])
      /\ \A i, j \in DOMAIN d : i # 1 /\ i - 1 = j - 1 => i = j
  BY DocumentRecords
<1>5. \A i \in DOMAIN Baselines : i + 1 \in DOMAIN d /\ i + 1 # 1 /\ d[i + 1] = BaselineRecord(Baselines[i])
  BY BaselinesInDocument
<1> HIDE DEF d
<1>2. (\A i \in DOMAIN d : ProjectAccepted(d[i])) <=>
        ProjectAccepted(record) /\ ~\E i \in DOMAIN Baselines : Baselines[i].note.broken
  <2>1. ASSUME \A i \in DOMAIN d : ProjectAccepted(d[i]), NEW i \in DOMAIN Baselines PROVE ~Baselines[i].note.broken
    <3>1. ProjectAccepted(BaselineRecord(Baselines[i]))
      BY <1>5, <2>1
    <3> QED BY <3>1, BaselineAccepted
  <2>2. ASSUME ProjectAccepted(record), ~\E i \in DOMAIN Baselines : Baselines[i].note.broken, NEW i \in DOMAIN d
        PROVE  ProjectAccepted(d[i])
    <3>1. CASE i = 1
      BY <1>1, <2>2, <3>1
    <3>2. CASE i # 1
      <4>1. i - 1 \in DOMAIN Baselines /\ d[i] = BaselineRecord(Baselines[i - 1])
        BY <1>1, <2>2, <3>2
      <4> QED BY <2>2, <4>1, BaselineAccepted
    <3> QED BY <3>1, <3>2
  <2> QED BY <1>1, <2>1, <2>2
<1>3. \A i \in DOMAIN d : i # 1 => d[i].repository = Baselines[i - 1].repository
  BY <1>1, BaselineAccepted
<1>4. ASSUME NEW i \in DOMAIN d, NEW j \in DOMAIN d, d[i].repository = d[j].repository PROVE i = j
  <2>1. CASE i = 1 /\ j # 1
    BY <1>1, <1>3, <1>4, <2>1, Configuration
  <2>2. CASE j = 1 /\ i # 1
    BY <1>1, <1>3, <1>4, <2>2, Configuration
  <2>3. CASE i # 1 /\ j # 1
    <3>1. i - 1 = j - 1
      BY <1>1, <1>3, <1>4, <2>3, Configuration
    <3> QED BY <1>1, <2>3, <3>1
  <2> QED BY <2>1, <2>2, <2>3
<1> QED BY <1>2, <1>4 DEF DocumentAccepted, d

------------------------------------------------------------------------------
(* Reviews *)

\* The values of a function on a finite set are finitely many.
LEMMA FiniteValues ==
  ASSUME NEW f, IsFiniteSet(DOMAIN f)
  PROVE  IsFiniteSet({f[x] : x \in DOMAIN f})
<1> DEFINE T == {f[x] : x \in DOMAIN f}
           g == [x \in DOMAIN f |-> f[x]]
<1>1. g \in Surjection(DOMAIN f, T)
  BY DEF Surjection
<1> QED BY <1>1, FS_Surjection

(* A comment the collector reads; one that was edited is no longer one of  *)
(* Comments.                                                               *)
CommentOK(c) ==
  {"id", "edited", "marks"} \subseteq DOMAIN c /\ c.id \in Nat \ {0} /\ IsFiniteSet(DOMAIN c.marks)
CommentsOK(cs) == IsFiniteSet(cs) /\ \A c \in cs : CommentOK(c)

\* Marks are counted.
LEMMA CountType ==
  ASSUME NEW cs, CommentsOK(cs), NEW head, NEW stage, NEW verdict
  PROVE  Count(cs, head, stage, verdict) \in Nat
<1> DEFINE T    == Trusted(cs)
           I(c) == {k \in DOMAIN c.marks : c.marks[k].head = head}
           of   == [c \in T |-> {<<c, i>> : i \in I(c)}]
<1>1. IsFiniteSet(T)
  <2>1. T \subseteq cs /\ IsFiniteSet(cs)
    BY DEF Trusted, CommentsOK
  <2> QED BY <2>1, FS_Subset
<1>2. ASSUME NEW c \in T PROVE IsFiniteSet(of[c])
  <2> DEFINE at == [i \in I(c) |-> <<c, i>>]
  <2>1. IsFiniteSet(DOMAIN c.marks) /\ I(c) \subseteq DOMAIN c.marks
    BY DEF Trusted, CommentsOK, CommentOK
  <2>2. IsFiniteSet(I(c)) /\ DOMAIN at = I(c)
    BY <2>1, FS_Subset
  <2>3. IsFiniteSet({at[i] : i \in DOMAIN at})
    BY <2>2, FiniteValues
  <2>4. {at[i] : i \in DOMAIN at} = of[c]
    OBVIOUS
  <2> QED BY <2>3, <2>4
<1>3. IsFiniteSet({of[c] : c \in DOMAIN of})
  <2>1. DOMAIN of = T
    OBVIOUS
  <2> QED BY <1>1, <2>1, FiniteValues
<1>4. IsFiniteSet(UNION {of[c] : c \in DOMAIN of})
  BY <1>2, <1>3, FS_UNION
<1>5. UNION {of[c] : c \in DOMAIN of} = Marks(cs, head)
  BY DEF Marks
<1>6. {m \in Marks(cs, head) : m[1].marks[m[2]].stage = stage /\ m[1].marks[m[2]].verdict = verdict}
        \subseteq Marks(cs, head)
  OBVIOUS
<1> QED BY <1>4, <1>5, <1>6, FS_Subset, FS_CardinalityType DEF Count

(* The threads that are not resolved.                                      *)
Open(th) == {t \in Threads : th[t] = "open"}

\* The fields of the evidence of a review.
LEMMA ReviewFields ==
  ASSUME NEW th, DOMAIN th = Threads, NEW cs, NEW head
  PROVE  LET r == ReviewOf(th, cs, head) IN
         /\ r.state = ReviewState(Open(th), cs, head) /\ r.unresolved = Cardinality(Open(th))
         /\ r = [state |-> ReviewState(Open(th), cs, head), unresolved |-> Cardinality(Open(th)),
                 times |-> {m[1].at : m \in Marks(cs, head)}]
BY DEF ReviewOf, Open

\* What the state of a review says.
LEMMA ReviewCases ==
  ASSUME NEW th, DOMAIN th = Threads, NEW cs, NEW head
  PROVE  LET r == ReviewOf(th, cs, head) IN
         /\ ReviewOK(r)
         /\ r.state = "blocked" <=> \E stage \in Stages : Count(cs, head, stage, "blocked") > 0
         /\ r.state = "clean" => CleanMarks(cs, head)
<1> DEFINE r == ReviewOf(th, cs, head)
<1>1. r.state = ReviewState(Open(th), cs, head) /\ r.unresolved = Cardinality(Open(th))
  BY ReviewFields
<1>2. Open(th) \subseteq Threads /\ IsFiniteSet(Open(th)) /\ Cardinality(Open(th)) \in Nat
  BY EvidenceAssumption, FS_Subset, FS_CardinalityType DEF Open
<1> HIDE DEF r
<1>3. r.state \in ReviewStates
  BY <1>1 DEF ReviewState, ReviewStates
<1>4. r.state = "clean" => Open(th) = {} /\ CleanMarks(cs, head)
  BY <1>1 DEF ReviewState
<1>5. r.state = "blocked" <=> \E stage \in Stages : Count(cs, head, stage, "blocked") > 0
  BY <1>1 DEF ReviewState
<1> QED BY <1>1, <1>2, <1>3, <1>4, <1>5, FS_EmptySet DEF ReviewOK, r

\* What a record shown as ready to merge says of its evidence.
LEMMA ReadyMeans ==
  ASSUME NEW p \in PullRecords, NEW checks \in CheckRecords, NEW review, NEW note, ReviewOK(review),
         StatusOf(p, checks, review) # None
  PROVE  SectionOf(RecordOf(p, checks, review, note)) = "Ready to Merge" =>
           /\ p.state = "open" /\ ~p.draft /\ States(checks) \subseteq Passing
           /\ review.state = "clean" /\ review.unresolved = 0
<1> DEFINE r == RecordOf(p, checks, review, note)
           s == StatusOf(p, checks, review)
<1>1. r.status = s.status /\ r.review = review.state
  BY RecordFields
<1> HAVE SectionOf(r) = "Ready to Merge"
<1>2. s.status = "ready_to_merge"
  <2> HIDE DEF r, s
  <2>2. r.status = "ready_to_merge"
    BY SectionAssumption DEF SectionOf, Sections
  <2> QED BY <1>1, <2>2
<1>3. /\ p.state \notin {"merged", "closed"} /\ ~p.draft
      /\ States(checks) \intersect (BadChecks \union HeldChecks \union PendingChecks) = {}
      /\ review.state \notin {"blocked", "required", "pending"}
  BY <1>2, StatusCases
<1>4. States(checks) \subseteq CheckStates
  BY DEF States, CheckRecords
<1>5. review.state = "clean" /\ review.unresolved = 0
  BY <1>3 DEF ReviewOK, ReviewStates
<1>6. p.state = "open"
  BY <1>3 DEF PullRecords
<1> QED BY <1>3, <1>4, <1>5, <1>6, CheckKinds

\* Every record has a section, and a blocking finding one of two.
LEMMA Shown ==
  ASSUME NEW p, NEW checks \in CheckRecords, NEW review, NEW note, StatusOf(p, checks, review) # None
  PROVE  LET section == SectionOf(RecordOf(p, checks, review, note)) IN
         /\ section # None
         /\ review.state = "blocked" => section \in {"Human Action Required", "Blocked"}
<1> DEFINE r == RecordOf(p, checks, review, note)
           s == StatusOf(p, checks, review)
<1>1. r.status = s.status /\ r.review = review.state
  BY RecordFields
<1>2. s.status \in Statuses
  BY StatusCases DEF Statuses, HeadRequired, BlockerRequired, NoBlocker, Active
<1>3. s.status \in {"completed", "human_action", "blocked", "fix_required", "ci_running", "review_required",
                    "pr_open", "ready_to_merge"}
  BY StatusCases
<1>4. r.human = (s.status = "human_action")
  BY RecordFields
<1> HIDE DEF r, s
<1>. s.status = "human_action" => r.human
  BY <1>4
<1>5. SectionOf(r) # None
  BY <1>1, <1>3, <1>4, SectionAssumption DEF SectionOf, Sections, Active
<1>6. review.state = "blocked" => SectionOf(r) \in {"Human Action Required", "Blocked"}
  BY <1>1 DEF SectionOf
<1> QED BY <1>5, <1>6 DEF r

------------------------------------------------------------------------------
(* What each step does to the collector, field by field *)

Fields == {"at", "pass", "note", "pull", "runs", "review", "checks", "times", "found", "moved", "document"}

(* A step that leaves all fields but these alone.                          *)
Only(names) == DOMAIN col' = Fields /\ \A f \in Fields \ names : col'[f] = col[f]

\* A refusal.
LEMMA RefusedMove ==
  ASSUME DOMAIN col = Fields, col' = Refused
  PROVE  Only({"at", "runs", "review"}) /\ col'.at = "refused" /\ col'.runs = NoRuns /\ col'.review = NoReview
BY DEF Refused, Only, Fields

\* The first read.
LEMMA ReadPullMove ==
  ASSUME DOMAIN col = Fields, ReadPull
  PROVE  Only({"at", "pull"}) /\ col.at = "pull" /\ col'.at = "runs" /\ col'.pull = pull
BY DEF ReadPull, Only, Fields, At

\* A page of runs: a refusal, one more page, or the last one.
LEMMA ReadRunsMove ==
  ASSUME DOMAIN col = Fields, ReadRuns
  PROVE  /\ col.at = "runs"
         /\ \/ col' = Refused
            \/ ~ListingRefused /\ Only({"runs"}) /\ col'.runs = Listing
            \/ /\ ~ListingRefused /\ Only({"at", "runs"}) /\ col'.at = "listed" /\ col'.runs = Listing
               /\ Listing.count = Listing.total /\ ~ChecksRefused(Listing.listed)
<1>1. CASE ListingRefused
  BY <1>1 DEF ReadRuns, At
<1>2. CASE ~ListingRefused /\ ~ListingEnds
  <2>1. col' = [col EXCEPT !.runs = Listing]
    BY <1>2 DEF ReadRuns
  <2> QED BY <1>2, <2>1 DEF ReadRuns, At, Only, Fields
<1>3. CASE ~ListingRefused /\ ListingEnds /\ ~(Listing.count # Listing.total \/ ChecksRefused(Listing.listed))
  <2>1. col' = [col EXCEPT !.at = "listed", !.runs = Listing]
    BY <1>3 DEF ReadRuns
  <2> QED BY <1>3, <2>1 DEF ReadRuns, At, Only, Fields
<1>4. CASE ~ListingRefused /\ ListingEnds /\ (Listing.count # Listing.total \/ ChecksRefused(Listing.listed))
  BY <1>4 DEF ReadRuns, At
<1> QED BY <1>1, <1>2, <1>3, <1>4

\* What is kept of a listing.
LEMMA KeepRunsMove ==
  ASSUME DOMAIN col = Fields, KeepRuns
  PROVE  /\ col.at = "listed" /\ col'.at = "review" /\ col'.runs = NoRuns
         /\ \/ /\ col.pass = 1 /\ Only({"at", "runs", "checks", "times"})
               /\ col'.checks = ChecksOf(col.runs.listed) /\ col'.times = TimesOf(col.runs.listed)
            \/ /\ col.pass # 1 /\ Only({"at", "runs", "moved"})
               /\ col'.moved = ~SameChecks(col.runs.listed)
<1> DEFINE next == [col EXCEPT !.at = "review", !.runs = NoRuns]
<1>1. DOMAIN next = Fields /\ next.at = "review" /\ next.runs = NoRuns
      /\ \A f \in Fields \ {"at", "runs"} : next[f] = col[f]
  BY DEF Fields
<1>2. /\ col.at = "listed"
      /\ col.pass = 1 =>
           col' = [next EXCEPT !.checks = ChecksOf(col.runs.listed), !.times = TimesOf(col.runs.listed)]
      /\ col.pass # 1 => col' = [next EXCEPT !.moved = ~SameChecks(col.runs.listed)]
  BY DEF KeepRuns, At
<1> HIDE DEF next
<1> QED BY <1>1, <1>2 DEF Only, Fields

\* A page of threads and comments: a refusal, one more page, or the last one of a pass.
LEMMA ReadReviewMove ==
  ASSUME DOMAIN col = Fields, ReadReview
  PROVE  /\ col.at = "review"
         /\ \/ col' = Refused /\ mid' = mid
            \/ pull = col.pull /\ mid' = mid /\ Only({"review"}) /\ col'.review = ReviewPage
            \/ /\ pull = col.pull /\ mid' = World /\ col.pass = 1 /\ ReviewPage.threadsDone /\ ReviewPage.commentsDone
               /\ Only({"at", "pass", "review", "found"}) /\ col'.at = "runs" /\ col'.pass = 2
               /\ col'.review = NoReview /\ col'.found = Found(ReviewPage)
            \/ /\ pull = col.pull /\ mid' = mid /\ col.pass # 1 /\ ReviewPage.threadsDone /\ ReviewPage.commentsDone
               /\ Only({"at", "review", "moved"}) /\ col'.at = "pull2"
               /\ col'.review = NoReview /\ col'.moved = (col.moved \/ ~SameReview(ReviewPage))
<1> DEFINE r == ReviewPage
<1>1. CASE pull # col.pull
  BY <1>1 DEF ReadReview, At
<1>2. CASE pull = col.pull /\ ~(r.threadsDone /\ r.commentsDone)
  <2>1. mid' = mid /\ (col' = Refused \/ col' = [col EXCEPT !.review = r])
    BY <1>2 DEF ReadReview
  <2> HIDE DEF r
  <2>2. col' = [col EXCEPT !.review = r] => Only({"review"}) /\ col'.review = r
    BY DEF Only, Fields
  <2> QED BY <1>2, <2>1, <2>2 DEF ReadReview, At, r
<1>3. CASE pull = col.pull /\ r.threadsDone /\ r.commentsDone /\ col.pass = 1
  <2>1. /\ col' = [col EXCEPT !.at = "runs", !.pass = 2, !.review = NoReview, !.found = Found(r)]
        /\ mid' = World
    BY <1>3 DEF ReadReview
  <2> HIDE DEF r
  <2>2. /\ Only({"at", "pass", "review", "found"}) /\ col'.at = "runs" /\ col'.pass = 2
        /\ col'.review = NoReview /\ col'.found = Found(r)
    BY <2>1 DEF Only, Fields
  <2> QED BY <1>3, <2>1, <2>2 DEF ReadReview, At, r
<1>4. CASE pull = col.pull /\ r.threadsDone /\ r.commentsDone /\ col.pass # 1
  <2>1. /\ col' = [col EXCEPT !.at = "pull2", !.review = NoReview, !.moved = @ \/ ~SameReview(r)]
        /\ mid' = mid
    BY <1>4 DEF ReadReview
  <2> HIDE DEF r
  <2>2. /\ Only({"at", "review", "moved"}) /\ col'.at = "pull2"
        /\ col'.review = NoReview /\ col'.moved = (col.moved \/ ~SameReview(r))
    BY <2>1 DEF Only, Fields
  <2> QED BY <1>4, <2>1, <2>2 DEF ReadReview, At, r
<1> QED BY <1>1, <1>2, <1>3, <1>4

\* The last read: a refusal, a document, or its rejection.
LEMMA FinishMove ==
  ASSUME DOMAIN col = Fields, Finish
  PROVE  /\ col.at = "pull2"
         /\ \/ col' = Refused
            \/ /\ pull = col.pull /\ ~col.moved /\ StatusOf(col.pull, col.checks, col.found) # None
               /\ Only({"at", "document"})
               /\ \/ col'.at = "done" /\ col'.document = DocumentOf(Report) /\ DocumentAccepted(DocumentOf(Report))
                  \/ col'.at = "rejected" /\ ~DocumentAccepted(DocumentOf(Report))
<1>1. CASE Moved \/ col.moved \/ StatusOf(col.pull, col.checks, col.found) = None
  BY <1>1 DEF Finish, At
<1>2. CASE ~(Moved \/ col.moved \/ StatusOf(col.pull, col.checks, col.found) = None)
  <2>1. \/ /\ col' = [col EXCEPT !.at = "done", !.document = DocumentOf(Report)]
           /\ DocumentAccepted(DocumentOf(Report))
        \/ col' = [col EXCEPT !.at = "rejected"] /\ ~DocumentAccepted(DocumentOf(Report))
    BY <1>2 DEF Finish
  <2> DEFINE d == DocumentOf(Report)
  <2> HIDE DEF d
  <2>2. col' = [col EXCEPT !.at = "done", !.document = d] =>
          Only({"at", "document"}) /\ col'.at = "done" /\ col'.document = d
    BY DEF Only, Fields
  <2>3. col' = [col EXCEPT !.at = "rejected"] => Only({"at", "document"}) /\ col'.at = "rejected"
    BY DEF Only, Fields
  <2> QED BY <1>2, <2>1, <2>2, <2>3 DEF Finish, At, Moved, d
<1> QED BY <1>1, <1>2

ListingFields == {"page", "total", "count", "listed", "stayed"}

\* A page added to a listing.
LEMMA ListingMove ==
  ASSUME DOMAIN col.runs = ListingFields
  PROVE  /\ DOMAIN Listing = ListingFields /\ Listing.page = col.runs.page + 1
         /\ Listing.listed = col.runs.listed \union RunPage
         /\ Listing.count = col.runs.count + Cardinality(RunPage)
         /\ Listing.total = IF col.runs.total = None THEN Cardinality(runs) ELSE col.runs.total
         /\ Listing.stayed = IF col.runs.page = 1 THEN {r.id : r \in runs} ELSE col.runs.stayed
BY DEF Listing, ListingFields

\* Runs that change under the collector: which of those it began with are still there.
LEMMA ChangeRunsMove ==
  ASSUME DOMAIN col = Fields, DOMAIN col.runs = ListingFields, ChangeRuns
  PROVE  /\ Only({"runs"}) /\ DOMAIN col'.runs = ListingFields
         /\ col'.runs.page = col.runs.page /\ col'.runs.total = col.runs.total
         /\ col'.runs.count = col.runs.count /\ col'.runs.listed = col.runs.listed
         /\ col'.runs.stayed = col.runs.stayed \intersect {r.id : r \in runs'}
<1> DEFINE left == col.runs.stayed \intersect {r.id : r \in runs'}
           list == [col.runs EXCEPT !.stayed = left]
<1>1. col' = [col EXCEPT !.runs = list]
  BY DEF ChangeRuns, Fields
<1>2. /\ DOMAIN list = ListingFields /\ list.stayed = left
      /\ list.page = col.runs.page /\ list.total = col.runs.total
      /\ list.count = col.runs.count /\ list.listed = col.runs.listed
  BY DEF ListingFields
<1> HIDE DEF list
<1>3. Only({"runs"}) /\ col'.runs = list
  BY <1>1 DEF Only, Fields
<1> QED BY <1>2, <1>3

------------------------------------------------------------------------------
(* Greatest elements *)

\* A strict order on a finite set has a greatest element.
LEMMA Maximal ==
  ASSUME NEW S, IsFiniteSet(S), S # {}, NEW R,
         \A x \in S : <<x, x>> \notin R,
         \A x, y, z \in S : <<x, y>> \in R /\ <<y, z>> \in R => <<x, z>> \in R
  PROVE  \E x \in S : \A y \in S : <<x, y>> \notin R
<1> DEFINE Above(x) == {y \in S : <<x, y>> \in R}
           Sets == {Above(x) : x \in S}
           L == StrictSubsetOrdering(S)
           F == FiniteSubsetsOf(S)
<1>1. IsWellFoundedOn(L, F)
  BY FS_StrictSubsetOrderingWellFounded
<1>2. ASSUME NEW x \in S PROVE Above(x) \in F
  <2>1. Above(x) \subseteq S
    OBVIOUS
  <2>2. IsFiniteSet(Above(x))
    BY <2>1, FS_Subset
  <2> QED BY <2>1, <2>2 DEF FiniteSubsetsOf
<1>3. Sets \subseteq F /\ Sets # {}
  <2> HIDE DEF Above, F
  <2>1. PICK x \in S : TRUE
    OBVIOUS
  <2>2. Above(x) \in Sets
    BY <2>1
  <2> QED BY <1>2, <2>2
<1>4. \E A \in Sets : \A B \in Sets : <<B, A>> \notin L
  <2> HIDE DEF Sets, L, F
  <2> QED BY <1>1, <1>3, WFMin
<1>5. PICK x \in S : \A B \in Sets : <<B, Above(x)>> \notin L
  BY <1>4
<1>6. ASSUME NEW y \in S, <<x, y>> \in R PROVE FALSE
  <2>1. Above(y) \subseteq Above(x) /\ y \in Above(x) /\ y \notin Above(y)
    BY <1>6
  <2>2. <<Above(y), Above(x)>> \in L
    BY <2>1, <1>2 DEF StrictSubsetOrdering, FiniteSubsetsOf
  <2> QED BY <1>5, <2>2
<1> QED BY <1>5, <1>6

\* A finite set of numbers that is not empty has a largest one.
LEMMA Greatest ==
  ASSUME NEW S \in SUBSET Nat, IsFiniteSet(S), S # {}
  PROVE  \E i \in S : \A j \in S : j <= i
<1> DEFINE R == {p \in S \X S : p[2] > p[1]}
<1>1. \A i, j \in S : <<i, j>> \in R <=> j > i
  OBVIOUS
<1>2. (\A i \in S : <<i, i>> \notin R) /\ \A i, j, k \in S : <<i, j>> \in R /\ <<j, k>> \in R => <<i, k>> \in R
  BY <1>1
<1>3. PICK i \in S : \A j \in S : <<i, j>> \notin R
  <2> HIDE DEF R
  <2> QED BY <1>2, Maximal
<1>4. \A j \in S : ~(j > i)
  BY <1>1, <1>3
<1> HIDE DEF R
<1>5. \A j \in S : j \in Nat /\ i \in Nat
  OBVIOUS
<1> QED BY <1>4, <1>5

\* The cursor of a page is its last entry, or stays where it was.
LEMMA LargestIs ==
  ASSUME NEW ids \in SUBSET Nat, IsFiniteSet(ids), NEW cursor
  PROVE  /\ ids = {} => Largest(ids, cursor) = cursor
         /\ ids # {} => Largest(ids, cursor) \in ids /\ \A j \in ids : j <= Largest(ids, cursor)
BY Greatest DEF Largest

------------------------------------------------------------------------------
(* Types *)

(* A listing under way, and the pages of a review under way.               *)
ListingOK(l) ==
  /\ DOMAIN l = ListingFields
  /\ l.page \in Nat \ {0} /\ l.total \in Nat \union {None} /\ l.count \in Nat
  /\ l.listed \subseteq Runs /\ Numbered(l.listed) /\ l.stayed \subseteq Nat
PagesOK(r) ==
  /\ r.threads \in Nat /\ r.comments \in Nat /\ r.open \subseteq Threads /\ CommentsOK(r.marks)
  /\ r.threadsDone \in BOOLEAN /\ r.commentsDone \in BOOLEAN

Places == {"pull", "runs", "listed", "review", "pull2"} \union Ended

(* The Pull Request, runs and comments of GitHub.                          *)
WorldOK ==
  /\ pull \in PullRecords /\ pull.head # None
  /\ runs \subseteq Runs /\ Numbered(runs)
  /\ threads \in Boards
  /\ CommentsOK(comments)

(* What the history value is, and which evidence it stands beside.         *)
MidOK ==
  /\ mid.pull = col.pull /\ mid.runs \subseteq Runs /\ Numbered(mid.runs) /\ CommentsOK(mid.comments)
  /\ \E th \in Boards : mid.review = ReviewOf(th, mid.comments, col.pull.head)

(* The kinds of value of the collector.                                    *)
ColOK ==
  /\ DOMAIN col = Fields /\ col.at \in Places /\ col.pass \in {1, 2} /\ col.moved \in BOOLEAN
  /\ ListingOK(col.runs) /\ PagesOK(col.review)
  /\ col.at # "pull" => col.pull \in PullRecords /\ col.pull.head # None
  /\ col.at = "listed" => ~ChecksRefused(col.runs.listed)
  /\ col.at = "review" \/ col.pass = 2 => col.checks \in CheckRecords
  /\ col.at \in {"pull2", "done", "rejected"} => col.pass = 2
  /\ col.at = "pull" => col.pass = 1
  /\ col.pass = 2 => ReviewOK(col.found) /\ MidOK

TypeOK == WorldOK /\ ColOK /\ changes \in [all : Nat, review : Nat, deleted : Nat]

\* The numbers of comments, of which there are finitely many.
LEMMA CommentIds ==
  ASSUME NEW cs, CommentsOK(cs)
  PROVE  LET ids == {c.id : c \in cs} IN ids \in SUBSET Nat /\ IsFiniteSet(ids) /\ \A i \in ids : i > 0
<1> DEFINE f == [c \in cs |-> c.id]
<1>1. DOMAIN f = cs /\ {f[c] : c \in DOMAIN f} = {c.id : c \in cs}
  OBVIOUS
<1> HIDE DEF f
<1>2. IsFiniteSet({c.id : c \in cs})
  BY <1>1, FiniteValues DEF CommentsOK
<1>3. \A c \in cs : c.id \in Nat /\ c.id > 0
  BY DEF CommentsOK, CommentOK
<1> QED BY <1>2, <1>3

\* The threads there are.
LEMMA LiveType == Live \in SUBSET Nat /\ IsFiniteSet(Live) /\ Live \subseteq Threads
BY EvidenceAssumption, FS_Subset DEF Live

(* The threads and comments of the next page.                              *)
PageThreads  == IF col.review.threadsDone THEN {} ELSE After(Live, col.review.threads)
PageComments == IF col.review.commentsDone THEN {} ELSE After({c.id : c \in comments}, col.review.comments)

\* The pages of a review with one more.
LEMMA ReviewPageFields ==
  LET r == ReviewPage
      old == col.review
  IN /\ r.threads = Largest(PageThreads, old.threads) /\ r.comments = Largest(PageComments, old.comments)
     /\ r.open = old.open \union {t \in PageThreads : threads[t] = "open"}
     /\ r.marks = old.marks \union {c \in comments : c.id \in PageComments}
     /\ r.threadsDone = (old.threadsDone \/ ~\E t \in Live : t > r.threads)
     /\ r.commentsDone = (old.commentsDone \/ ~\E c \in comments : c.id > r.comments)
BY DEF ReviewPage, PageThreads, PageComments

\* What a page holds is there.
LEMMA PageSets ==
  ASSUME WorldOK
  PROVE  /\ PageThreads \in SUBSET Nat /\ IsFiniteSet(PageThreads) /\ PageThreads \subseteq Live
         /\ PageComments \in SUBSET Nat /\ IsFiniteSet(PageComments)
         /\ PageComments \subseteq {c.id : c \in comments}
<1> DEFINE ids == {c.id : c \in comments}
<1>1. ids \in SUBSET Nat /\ IsFiniteSet(ids)
  BY CommentIds DEF WorldOK
<1>2. \A S, cursor : After(S, cursor) \subseteq S
  BY DEF After
<1>3. PageThreads \subseteq Live /\ PageComments \subseteq ids
  <2> HIDE DEF ids
  <2>1. PageComments = IF col.review.commentsDone THEN {} ELSE After(ids, col.review.comments)
    BY DEF PageComments, ids
  <2> QED BY <1>2, <2>1 DEF PageThreads
<1> HIDE DEF ids
<1>4. IsFiniteSet(PageThreads) /\ IsFiniteSet(PageComments)
  BY <1>1, <1>3, LiveType, FS_Subset
<1> QED BY <1>1, <1>3, <1>4, LiveType DEF ids

\* The pages of a review keep their kind.
LEMMA ReviewPageType ==
  ASSUME WorldOK, PagesOK(col.review)
  PROVE  PagesOK(ReviewPage)
<1> DEFINE r == ReviewPage
           old == col.review
<1>1. /\ r.threads = Largest(PageThreads, old.threads) /\ r.comments = Largest(PageComments, old.comments)
      /\ r.open = old.open \union {t \in PageThreads : threads[t] = "open"}
      /\ r.marks = old.marks \union {c \in comments : c.id \in PageComments}
      /\ r.threadsDone = (old.threadsDone \/ ~\E t \in Live : t > r.threads)
      /\ r.commentsDone = (old.commentsDone \/ ~\E c \in comments : c.id > r.comments)
  BY ReviewPageFields
<1> HIDE DEF r
<1>2. r.threads \in Nat /\ r.comments \in Nat
  BY <1>1, PageSets, LargestIs DEF PagesOK
<1>3. r.open \subseteq Threads
  BY <1>1, PageSets, LiveType DEF PagesOK
<1>4. CommentsOK(r.marks)
  <2> DEFINE new == {c \in comments : c.id \in PageComments}
  <2>1. IsFiniteSet(comments) /\ IsFiniteSet(old.marks) /\ new \subseteq comments
    BY DEF WorldOK, PagesOK, CommentsOK
  <2>2. IsFiniteSet(new)
    BY <2>1, FS_Subset
  <2>3. IsFiniteSet(old.marks \union new)
    BY <2>1, <2>2, FS_Union
  <2> QED BY <1>1, <2>3 DEF WorldOK, PagesOK, CommentsOK
<1> QED BY <1>1, <1>2, <1>3, <1>4 DEF PagesOK, r

\* A page of runs is of the runs there are.
LEMMA RunPageType ==
  ASSUME WorldOK
  PROVE  RunPage \subseteq runs /\ Numbered(RunPage) /\ Cardinality(RunPage) \in Nat
<1>1. RunPage \subseteq runs
  BY DEF RunPage
<1>2. IsFiniteSet(RunPage) /\ Cardinality(RunPage) \in Nat
  BY <1>1, FS_Subset, FS_CardinalityType DEF WorldOK, Numbered
<1> QED BY <1>1, <1>2 DEF WorldOK, Numbered

\* A listing keeps its kind unless it is refused.
LEMMA ListingType ==
  ASSUME WorldOK, ListingOK(col.runs), ~ListingRefused
  PROVE  ListingOK(Listing)
<1>1. /\ DOMAIN Listing = ListingFields /\ Listing.page = col.runs.page + 1
      /\ Listing.listed = col.runs.listed \union RunPage
      /\ Listing.count = col.runs.count + Cardinality(RunPage)
      /\ Listing.total = IF col.runs.total = None THEN Cardinality(runs) ELSE col.runs.total
      /\ Listing.stayed = IF col.runs.page = 1 THEN {r.id : r \in runs} ELSE col.runs.stayed
  BY ListingMove DEF ListingOK
<1>2. Cardinality(runs) \in Nat /\ {r.id : r \in runs} \subseteq Nat
  BY EvidenceAssumption, FS_CardinalityType DEF WorldOK, Numbered
<1>3. Numbered(Listing.listed)
  <2>1. IsFiniteSet(Listing.listed)
    <3>1. IsFiniteSet(RunPage) /\ IsFiniteSet(col.runs.listed)
      BY RunPageType DEF ListingOK, Numbered
    <3>2. IsFiniteSet(col.runs.listed \union RunPage)
      BY <3>1, FS_Union
    <3> QED BY <1>1, <3>2
  <2>2. \A x \in RunPage, y \in col.runs.listed : x.id # y.id
    BY DEF ListingRefused
  <2>3. (\A x, y \in RunPage : x.id = y.id => x = y) /\ \A x, y \in col.runs.listed : x.id = y.id => x = y
    BY RunPageType DEF ListingOK, Numbered
  <2> QED BY <1>1, <2>1, <2>2, <2>3 DEF Numbered
<1>4. Listing.listed \subseteq Runs
  BY <1>1, RunPageType DEF ListingOK, WorldOK
<1> QED BY <1>1, <1>2, <1>3, <1>4, RunPageType DEF ListingOK

\* An empty listing and an empty review.
LEMMA EmptyType == ListingOK(NoRuns) /\ PagesOK(NoReview)
<1>1. IsFiniteSet({})
  BY FS_EmptySet
<1> QED BY <1>1 DEF ListingOK, PagesOK, NoRuns, NoReview, ListingFields, Numbered, CommentsOK

\* A listing that is not refused yields a state of every check.
LEMMA ChecksType ==
  ASSUME NEW list, ~ChecksRefused(list)
  PROVE  ChecksOf(list) \in CheckRecords
<1> DEFINE state(w) == IF Selected(list, w) = {} THEN "missing"
                       ELSE RunState((CHOOSE r \in Selected(list, w) : TRUE).raw)
<1>1. ASSUME NEW w \in Project.workflows PROVE state(w) \in CheckStates
  <2>1. CASE Selected(list, w) = {}
    BY <2>1 DEF CheckStates
  <2>2. CASE Selected(list, w) # {}
    <3>1. PICK r : r = (CHOOSE s \in Selected(list, w) : TRUE) /\ r \in Selected(list, w)
      BY <2>2
    <3>2. r \in list /\ r.name \in Project.workflows
      BY <3>1, <1>1 DEF Selected
    <3>3. RunState(r.raw) # None
      BY <3>2 DEF ChecksRefused
    <3>4. RunState(r.raw) \in CheckStates
      BY <3>3 DEF RunState, CheckStates
    <3>5. state(w) = RunState(r.raw)
      BY <2>2, <3>1
    <3> QED BY <3>4, <3>5
  <2> QED BY <2>1, <2>2
<1>2. ChecksOf(list) = [w \in Project.workflows |-> state(w)]
  BY DEF ChecksOf
<1> HIDE DEF state
<1> QED BY <1>1, <1>2 DEF CheckRecords

\* What a pass found of the review.
LEMMA FoundType ==
  ASSUME NEW r
  PROVE  ReviewOK(Found(r))
<1> DEFINE th == [t \in Threads |-> IF t \in r.open THEN "open" ELSE "resolved"]
<1>1. DOMAIN th = Threads /\ Found(r) = ReviewOf(th, r.marks, col.pull.head)
  BY DEF Found
<1> HIDE DEF th
<1> QED BY <1>1, ReviewCases

\* What GitHub holds when the first pass ends.
LEMMA WorldType ==
  ASSUME WorldOK, mid' = World, pull = col.pull, col'.pull = col.pull
  PROVE  MidOK'
<1>1. /\ mid'.pull = pull /\ mid'.runs = runs /\ mid'.comments = comments
      /\ mid'.review = ReviewOf(threads, comments, col.pull.head)
  BY DEF World
<1> QED BY <1>1 DEF WorldOK, MidOK

\* Nobody else gives GitHub another kind of value.
LEMMA WorldStep ==
  ASSUME WorldOK, ChangePull \/ ChangeRuns \/ ChangeThreads \/ ChangeComments
  PROVE  WorldOK'
<1>1. CASE ChangePull
  <2>1. PICK p \in Pulls : pull' = [p EXCEPT !.updated = pull.updated + 1]
    BY <1>1 DEF ChangePull
  <2>2. p \in PullRecords /\ p.head # None
    BY EvidenceAssumption
  <2>3. pull.updated + 1 \in Nat
    BY DEF WorldOK, PullRecords
  <2>4. pull' \in PullRecords /\ pull'.head = p.head
    BY <2>1, <2>2, <2>3 DEF PullRecords
  <2>5. UNCHANGED <<runs, threads, comments>>
    BY <1>1 DEF ChangePull
  <2> QED BY <2>2, <2>4, <2>5 DEF WorldOK
<1>2. CASE ChangeRuns
  <2>1. UNCHANGED <<pull, threads, comments>>
    BY <1>2 DEF ChangeRuns
  <2>2. IsFiniteSet(runs) /\ runs \subseteq Runs /\ \A x, y \in runs : x.id = y.id => x = y
    BY DEF WorldOK, Numbered
  <2>3. runs' \subseteq Runs /\ Numbered(runs')
    <3>1. CASE \E r \in Runs : (\A s \in runs : s.id < r.id) /\ runs' = runs \union {r}
      <4>1. PICK r \in Runs : (\A s \in runs : s.id < r.id) /\ runs' = runs \union {r}
        BY <3>1
      <4>2. IsFiniteSet(runs')
        BY <2>2, <4>1, FS_AddElement
      <4>3. \A s \in runs : s.id # r.id
        BY <4>1, <2>2, EvidenceAssumption
      <4> QED BY <2>2, <4>1, <4>2, <4>3 DEF Numbered
    <3>2. CASE \E r \in runs : runs' = runs \ {r}
      <4>1. PICK r \in runs : runs' = runs \ {r}
        BY <3>2
      <4>2. IsFiniteSet(runs')
        BY <2>2, <4>1, FS_RemoveElement
      <4> QED BY <2>2, <4>1, <4>2 DEF Numbered
    <3>3. CASE \E r \in runs, s \in Runs : s.id = r.id /\ runs' = (runs \ {r}) \union {s}
      <4>1. PICK r \in runs, s \in Runs : s.id = r.id /\ runs' = (runs \ {r}) \union {s}
        BY <3>3
      <4>2. IsFiniteSet(runs \ {r})
        BY <2>2, FS_RemoveElement
      <4>3. IsFiniteSet(runs')
        BY <4>1, <4>2, FS_AddElement
      <4> QED BY <2>2, <4>1, <4>3 DEF Numbered
    <3> QED BY <1>2, <3>1, <3>2, <3>3 DEF ChangeRuns
  <2> QED BY <2>1, <2>3 DEF WorldOK
<1>3. CASE ChangeThreads
  <2>1. PICK t \in Threads, s \in {"open", "resolved"} : threads' = [threads EXCEPT ![t] = s]
    BY <1>3 DEF ChangeThreads
  <2>2. threads' \in Boards
    BY <2>1 DEF WorldOK, Boards
  <2>3. UNCHANGED <<pull, runs, comments>>
    BY <1>3 DEF ChangeThreads
  <2> QED BY <2>2, <2>3 DEF WorldOK
<1>4. CASE ChangeComments
  <2>1. IsFiniteSet(comments) /\ \A c \in comments : CommentOK(c)
    BY DEF WorldOK, CommentsOK
  <2>2. CommentsOK(comments')
    <3>1. CASE \E c \in Comments : comments' = comments \union {c}
      <4>1. PICK c \in Comments : comments' = comments \union {c}
        BY <3>1
      <4>2. CommentOK(c) /\ IsFiniteSet(comments')
        BY <2>1, <4>1, EvidenceAssumption, FS_AddElement DEF CommentOK
      <4> QED BY <2>1, <4>1, <4>2 DEF CommentsOK
    <3>2. CASE \E c \in comments : comments' = comments \ {c}
      <4>1. PICK c \in comments : comments' = comments \ {c}
        BY <3>2
      <4>2. IsFiniteSet(comments')
        BY <2>1, <4>1, FS_RemoveElement
      <4> QED BY <2>1, <4>1, <4>2 DEF CommentsOK
    <3>3. CASE \E c \in comments : comments' = (comments \ {c}) \union {[c EXCEPT !.edited = TRUE]}
      <4>1. PICK c \in comments : comments' = (comments \ {c}) \union {[c EXCEPT !.edited = TRUE]}
        BY <3>3
      <4> DEFINE d == [c EXCEPT !.edited = TRUE]
      <4>2. CommentOK(d)
        BY <2>1 DEF CommentOK
      <4> HIDE DEF d
      <4>3. IsFiniteSet(comments \ {c})
        BY <2>1, FS_RemoveElement
      <4>4. comments' = (comments \ {c}) \union {d}
        BY <4>1 DEF d
      <4>5. IsFiniteSet(comments')
        BY <4>3, <4>4, FS_AddElement
      <4> QED BY <2>1, <4>2, <4>4, <4>5 DEF CommentsOK
    <3> QED BY <1>4, <3>1, <3>2, <3>3 DEF ChangeComments
  <2>3. UNCHANGED <<runs, threads>>
    BY <1>4 DEF ChangeComments
  <2>4. pull' \in PullRecords /\ pull'.head # None
    <3>1. pull' \in {pull, [pull EXCEPT !.updated = @ + 1]}
      BY <1>4 DEF ChangeComments
    <3> QED BY <3>1 DEF WorldOK, PullRecords
  <2> QED BY <2>2, <2>3, <2>4 DEF WorldOK
<1> QED BY <1>1, <1>2, <1>3, <1>4

\* A change of GitHub is counted and looks the same to the collector, but for the runs.
LEMMA Changes ==
  ASSUME TypeOK, ChangePull \/ ChangeRuns \/ ChangeThreads \/ ChangeComments
  PROVE  /\ changes' \in [all : Nat, review : Nat, deleted : Nat] /\ mid' = mid
         /\ ~ChangeRuns => col' = col
<1>1. ASSUME NEW a \in {0, 1}, NEW b \in {0, 1}, Counted(a, b)
      PROVE  changes' \in [all : Nat, review : Nat, deleted : Nat]
  BY <1>1 DEF Counted, TypeOK
<1> QED BY <1>1 DEF ChangePull, ChangeRuns, ChangeThreads, ChangeComments

\* The collector keeps its kind when GitHub changes.
LEMMA ColWorldStep ==
  ASSUME TypeOK, ChangePull \/ ChangeRuns \/ ChangeThreads \/ ChangeComments
  PROVE  ColOK'
<1>1. CASE ChangeRuns
  <2>1. /\ Only({"runs"}) /\ DOMAIN col'.runs = ListingFields
        /\ col'.runs.page = col.runs.page /\ col'.runs.total = col.runs.total
        /\ col'.runs.count = col.runs.count /\ col'.runs.listed = col.runs.listed
        /\ col'.runs.stayed = col.runs.stayed \intersect {r.id : r \in runs'}
    BY <1>1, ChangeRunsMove DEF TypeOK, ColOK, ListingOK
  <2>2. ListingOK(col'.runs)
    BY <2>1 DEF TypeOK, ColOK, ListingOK
  <2>3. /\ col'.at = col.at /\ col'.pass = col.pass /\ col'.pull = col.pull /\ col'.review = col.review
        /\ col'.checks = col.checks /\ col'.found = col.found /\ col'.moved = col.moved /\ DOMAIN col' = Fields
    BY <2>1 DEF Only, Fields
  <2>4. mid' = mid
    BY Changes
  <2>5. MidOK => MidOK'
    BY <2>3, <2>4 DEF MidOK
  <2> QED BY <2>1, <2>2, <2>3, <2>5 DEF TypeOK, ColOK
<1>2. CASE ~ChangeRuns
  BY <1>2, Changes DEF TypeOK, ColOK, MidOK
<1> QED BY <1>1, <1>2

\* A refusal is of no kind to object to.
LEMMA RefusedType ==
  ASSUME ColOK, col.at # "pull", col' = Refused, mid' = mid
  PROVE  ColOK'
<1>1. Only({"at", "runs", "review"}) /\ col'.at = "refused" /\ col'.runs = NoRuns /\ col'.review = NoReview
  BY RefusedMove DEF ColOK
<1>2. /\ col'.pass = col.pass /\ col'.pull = col.pull /\ col'.checks = col.checks
      /\ col'.found = col.found /\ col'.moved = col.moved /\ DOMAIN col' = Fields
  BY <1>1 DEF Only, Fields
<1>3. MidOK => MidOK'
  BY <1>2 DEF MidOK
<1>4. col.pass = 2 => ReviewOK(col.found) /\ MidOK /\ col.checks \in CheckRecords
  BY DEF ColOK
<1>5. ListingOK(col'.runs) /\ PagesOK(col'.review) /\ col'.at \in Places
  BY <1>1, EmptyType DEF Places, Ended
<1> QED BY <1>1, <1>2, <1>3, <1>4, <1>5 DEF ColOK

\* No step of the collector makes a value of another kind.
LEMMA ColStep ==
  ASSUME TypeOK, Collect
  PROVE  ColOK'
<1>0. DOMAIN col = Fields /\ DOMAIN col.runs = ListingFields
  BY DEF TypeOK, ColOK, ListingOK
<1>1. CASE ReadPull
  <2>1. Only({"at", "pull"}) /\ col.at = "pull" /\ col'.at = "runs" /\ col'.pull = pull
    BY <1>0, <1>1, ReadPullMove
  <2>2. /\ col'.pass = col.pass /\ col'.runs = col.runs /\ col'.review = col.review
        /\ col'.found = col.found /\ col'.moved = col.moved /\ DOMAIN col' = Fields
    BY <2>1 DEF Only, Fields
  <2> QED BY <2>1, <2>2 DEF TypeOK, WorldOK, ColOK, Places
<1>2. CASE ReadRuns
  <2>1. mid' = mid /\ col.at = "runs"
    BY <1>2 DEF ReadRuns, At
  <2>2. CASE col' = Refused
    BY <2>1, <2>2, RefusedType DEF TypeOK
  <2>3. CASE col' # Refused
    <3>1. /\ ~ListingRefused /\ Only({"at", "runs"}) /\ col'.runs = Listing
          /\ col'.at = "runs" \/ (col'.at = "listed" /\ ~ChecksRefused(Listing.listed))
      <4>1. \/ ~ListingRefused /\ Only({"runs"}) /\ col'.runs = Listing
            \/ /\ ~ListingRefused /\ Only({"at", "runs"}) /\ col'.at = "listed" /\ col'.runs = Listing
               /\ ~ChecksRefused(Listing.listed)
        BY <1>0, <1>2, <2>3, ReadRunsMove
      <4>2. Only({"runs"}) => Only({"at", "runs"}) /\ col'.at = col.at
        BY DEF Only, Fields
      <4> QED BY <2>1, <4>1, <4>2
    <3>2. /\ col'.pass = col.pass /\ col'.pull = col.pull /\ col'.review = col.review /\ col'.checks = col.checks
          /\ col'.found = col.found /\ col'.moved = col.moved /\ DOMAIN col' = Fields
      BY <3>1 DEF Only, Fields
    <3>3. ListingOK(col'.runs)
      BY <3>1, ListingType DEF TypeOK, ColOK
    <3>4. MidOK => MidOK'
      BY <2>1, <3>2 DEF MidOK
    <3> QED BY <2>1, <3>1, <3>2, <3>3, <3>4 DEF TypeOK, ColOK, Places
  <2> QED BY <2>2, <2>3
<1>3. CASE KeepRuns
  <2>1. col.at = "listed" /\ col'.at = "review" /\ col'.runs = NoRuns /\ mid' = mid
    BY <1>0, <1>3, KeepRunsMove DEF KeepRuns
  <2>2. /\ col'.pass = col.pass /\ col'.pull = col.pull /\ col'.review = col.review
        /\ col'.found = col.found /\ DOMAIN col' = Fields
    BY <1>0, <1>3, KeepRunsMove DEF Only, Fields
  <2>3. col'.checks \in CheckRecords
    <3>1. CASE col.pass = 1
      <4>1. col'.checks = ChecksOf(col.runs.listed)
        BY <1>0, <1>3, <3>1, KeepRunsMove
      <4> QED BY <2>1, <4>1, ChecksType DEF TypeOK, ColOK
    <3>2. CASE col.pass = 2
      <4>1. col'.checks = col.checks
        BY <1>0, <1>3, <3>2, KeepRunsMove DEF Only, Fields
      <4> QED BY <3>2, <4>1 DEF TypeOK, ColOK
    <3> QED BY <3>1, <3>2 DEF TypeOK, ColOK
  <2>4. col'.moved \in BOOLEAN
    <3>1. CASE col.pass = 1
      BY <1>0, <1>3, <3>1, KeepRunsMove DEF Only, Fields, TypeOK, ColOK
    <3>2. CASE col.pass # 1
      <4>1. col'.moved = ~SameChecks(col.runs.listed)
        BY <1>0, <1>3, <3>2, KeepRunsMove
      <4> QED BY <4>1
    <3> QED BY <3>1, <3>2
  <2>5. MidOK => MidOK'
    BY <2>1, <2>2 DEF MidOK
  <2> QED BY <2>1, <2>2, <2>3, <2>4, <2>5, EmptyType DEF TypeOK, ColOK, Places
<1>4. CASE ReadReview
  <2>1. col.at = "review"
    BY <1>4 DEF ReadReview, At
  <2>2. CASE col' = Refused /\ mid' = mid
    BY <2>1, <2>2, RefusedType DEF TypeOK
  <2>3. CASE mid' = mid /\ Only({"review"}) /\ col'.review = ReviewPage
    <3>1. /\ col'.pass = col.pass /\ col'.pull = col.pull /\ col'.runs = col.runs /\ col'.checks = col.checks
          /\ col'.at = col.at /\ col'.found = col.found /\ col'.moved = col.moved /\ DOMAIN col' = Fields
      BY <2>3 DEF Only, Fields
    <3>2. PagesOK(col'.review)
      BY <2>3, ReviewPageType DEF TypeOK, ColOK
    <3>3. MidOK => MidOK'
      BY <2>3, <3>1 DEF MidOK
    <3> QED BY <2>1, <3>1, <3>2, <3>3 DEF TypeOK, ColOK
  <2>4. CASE /\ pull = col.pull /\ mid' = World /\ Only({"at", "pass", "review", "found"}) /\ col'.at = "runs"
             /\ col'.pass = 2 /\ col'.review = NoReview /\ col'.found = Found(ReviewPage)
    <3>1. /\ col'.pull = col.pull /\ col'.runs = col.runs /\ col'.checks = col.checks
          /\ col'.moved = col.moved /\ DOMAIN col' = Fields
      BY <2>4 DEF Only, Fields
    <3>2. MidOK'
      BY <2>4, <3>1, WorldType DEF TypeOK
    <3>3. ReviewOK(col'.found)
      BY <2>4, FoundType
    <3> QED BY <2>1, <2>4, <3>1, <3>2, <3>3, EmptyType DEF TypeOK, ColOK, Places
  <2>5. CASE /\ mid' = mid /\ col.pass # 1 /\ Only({"at", "review", "moved"}) /\ col'.at = "pull2"
             /\ col'.review = NoReview /\ col'.moved = (col.moved \/ ~SameReview(ReviewPage))
    <3>1. /\ col'.pull = col.pull /\ col'.runs = col.runs /\ col'.checks = col.checks
          /\ col'.pass = col.pass /\ col'.found = col.found /\ DOMAIN col' = Fields
      BY <2>5 DEF Only, Fields
    <3>2. MidOK => MidOK'
      BY <2>5, <3>1 DEF MidOK
    <3>3. col'.moved \in BOOLEAN
      BY <2>5
    <3> QED BY <2>1, <2>5, <3>1, <3>2, <3>3, EmptyType DEF TypeOK, ColOK, Places
  <2> QED BY <1>0, <1>4, <2>2, <2>3, <2>4, <2>5, ReadReviewMove
<1>5. CASE Finish
  <2>1. mid' = mid /\ col.at = "pull2"
    BY <1>5 DEF Finish, At
  <2>2. CASE col' = Refused
    BY <2>1, <2>2, RefusedType DEF TypeOK
  <2>3. CASE col' # Refused
    <3>1. Only({"at", "document"}) /\ (col'.at = "done" \/ col'.at = "rejected")
      BY <1>0, <1>5, <2>3, FinishMove
    <3>2. /\ col'.pass = col.pass /\ col'.pull = col.pull /\ col'.review = col.review /\ col'.checks = col.checks
          /\ col'.runs = col.runs /\ col'.found = col.found /\ col'.moved = col.moved /\ DOMAIN col' = Fields
      BY <3>1 DEF Only, Fields
    <3>3. MidOK => MidOK'
      BY <2>1, <3>2 DEF MidOK
    <3> QED BY <2>1, <3>1, <3>2, <3>3 DEF TypeOK, ColOK, Places, Ended
  <2> QED BY <2>2, <2>3
<1> QED BY <1>1, <1>2, <1>3, <1>4, <1>5 DEF Collect

\* Every variable keeps its kind of value, for any Pull Request, any number of
\* runs, threads and comments, and any changes of them (fleet_collect_github.py).
THEOREM TypeCorrect == Spec => []TypeOK
<1>1. Init => TypeOK
  <2> SUFFICES ASSUME Init PROVE TypeOK
    OBVIOUS
  <2>1. PICK w \in Worlds :
          /\ pull = w.pull /\ runs = w.runs /\ threads = w.threads /\ comments = w.comments
          /\ col = [at |-> "pull", pass |-> 1, note |-> w.note, pull |-> None, runs |-> NoRuns, review |-> NoReview,
                    checks |-> None, times |-> None, found |-> None, moved |-> FALSE, document |-> None]
    BY DEF Init
  <2>2. w.pull \in PullRecords /\ w.pull.head # None
    BY EvidenceAssumption, WorldsAssumption
  <2>3. CommentsOK(w.comments)
    BY EvidenceAssumption, WorldsAssumption DEF CommentsOK, CommentOK
  <2>4. WorldOK
    BY <2>1, <2>2, <2>3, WorldsAssumption DEF WorldOK
  <2>5. changes = [all |-> 0, review |-> 0, deleted |-> 0]
    BY DEF Init
  <2>6. ColOK
    BY <2>1, EmptyType DEF ColOK, Fields, Places, Ended
  <2> QED BY <2>4, <2>5, <2>6 DEF TypeOK
<1>2. ASSUME TypeOK, [Next]_vars PROVE TypeOK'
  <2>1. CASE UNCHANGED vars
    BY <1>2, <2>1 DEF vars, TypeOK, WorldOK, ColOK, MidOK
  <2>2. CASE Collect
    <3>1. UNCHANGED <<world, changes>>
      BY <2>2 DEF Collect, ReadPull, ReadRuns, KeepRuns, ReadReview, Finish
    <3> QED BY <1>2, <2>2, <3>1, ColStep DEF TypeOK, WorldOK, world
  <2>3. CASE ChangePull \/ ChangeRuns \/ ChangeThreads \/ ChangeComments
    BY <1>2, <2>3, WorldStep, ColWorldStep, Changes DEF TypeOK
  <2> QED BY <1>2, <2>1, <2>2, <2>3 DEF Next
<1> QED BY <1>1, <1>2, PTL DEF Spec

------------------------------------------------------------------------------
(* What a collection ends with *)

(* A document is of evidence that did not move and has a status; so is one *)
(* that its own contract refuses.                                          *)
OutcomeInv ==
  /\ TextConfigured(col.note)
  /\ col.at \in {"done", "rejected"} => StatusOf(col.pull, col.checks, col.found) # None /\ ~col.moved
  /\ col.at = "done" => col.document = DocumentOf(Report) /\ DocumentAccepted(DocumentOf(Report))
  /\ col.at = "rejected" => ~DocumentAccepted(DocumentOf(Report))

\* The configuration is read once.
LEMMA NoteKept ==
  ASSUME DOMAIN col = Fields, DOMAIN col.runs = ListingFields, [Next]_vars
  PROVE  col'.note = col.note
<1>1. CASE UNCHANGED vars
  BY <1>1 DEF vars
<1>2. CASE ChangePull \/ ChangeThreads \/ ChangeComments
  BY <1>2 DEF ChangePull, ChangeThreads, ChangeComments
<1>3. CASE ChangeRuns
  BY <1>3, ChangeRunsMove DEF Only, Fields
<1>4. CASE ReadPull
  BY <1>4, ReadPullMove DEF Only, Fields
<1>5. CASE ReadRuns
  BY <1>5, ReadRunsMove, RefusedMove DEF Only, Fields
<1>6. CASE KeepRuns
  BY <1>6, KeepRunsMove DEF Only, Fields
<1>7. CASE ReadReview
  BY <1>7, ReadReviewMove, RefusedMove DEF Only, Fields
<1>8. CASE Finish
  BY <1>8, FinishMove, RefusedMove DEF Only, Fields
<1> QED BY <1>1, <1>2, <1>3, <1>4, <1>5, <1>6, <1>7, <1>8 DEF Next, Collect

\* Nobody changes anything once the collection has ended.
LEMMA OutcomeStep ==
  ASSUME TypeOK, OutcomeInv, [Next]_vars
  PROVE  OutcomeInv'
<1>0. DOMAIN col = Fields /\ DOMAIN col.runs = ListingFields
  BY DEF TypeOK, ColOK, ListingOK
<1>5. col'.note = col.note /\ TextConfigured(col'.note)
  BY <1>0, NoteKept DEF OutcomeInv
<1>1. CASE ChangePull \/ ChangeRuns \/ ChangeThreads \/ ChangeComments
  <2>1. col.at \notin Ended
    BY <1>1 DEF ChangePull, ChangeRuns, ChangeThreads, ChangeComments, Changing
  <2>2. col'.at = col.at
    BY <1>0, <1>1, Changes, ChangeRunsMove DEF TypeOK, ColOK, ListingOK, Only, Fields
  <2> QED BY <1>5, <2>1, <2>2 DEF OutcomeInv, Ended
<1>2. CASE Finish
  <2>1. CASE col' = Refused
    BY <1>0, <1>5, <2>1, RefusedMove DEF OutcomeInv
  <2>2. CASE col' # Refused
    <3>1. /\ ~col.moved /\ StatusOf(col.pull, col.checks, col.found) # None /\ Only({"at", "document"})
          /\ \/ col'.at = "done" /\ col'.document = DocumentOf(Report) /\ DocumentAccepted(DocumentOf(Report))
             \/ col'.at = "rejected" /\ ~DocumentAccepted(DocumentOf(Report))
      BY <1>0, <1>2, <2>2, FinishMove
    <3>2. col'.pull = col.pull /\ col'.checks = col.checks /\ col'.found = col.found /\ col'.moved = col.moved
      BY <3>1 DEF Only, Fields
    <3>3. Report' = Report
      BY <1>5, <3>2 DEF Report
    <3>4. StatusOf(col.pull, col.checks, col.found)' = StatusOf(col.pull, col.checks, col.found)
      BY <3>2
    <3> QED BY <1>5, <3>1, <3>2, <3>3, <3>4 DEF OutcomeInv
  <2> QED BY <2>1, <2>2
<1>3. CASE Collect /\ ~Finish
  <2>1. col'.at \notin {"done", "rejected"}
    <3>1. CASE col' = Refused
      BY <1>0, <3>1, RefusedMove
    <3>2. CASE col' # Refused
      <4>1. CASE ReadRuns
        BY <1>0, <4>1, <3>2, ReadRunsMove DEF Only, Fields
      <4>2. CASE ReadReview
        BY <1>0, <4>2, <3>2, ReadReviewMove DEF Only, Fields
      <4> QED BY <1>0, <1>3, <4>1, <4>2, ReadPullMove, KeepRunsMove DEF Collect
    <3> QED BY <3>1, <3>2
  <2> QED BY <1>5, <2>1 DEF OutcomeInv
<1>4. CASE UNCHANGED vars
  BY <1>4 DEF vars, OutcomeInv, Report
<1> QED BY <1>1, <1>2, <1>3, <1>4 DEF Next, Collect

\* OutcomeInv holds throughout.
LEMMA OutcomeHolds == Spec => []OutcomeInv
<1>1. Init => OutcomeInv
  <2> SUFFICES ASSUME Init PROVE OutcomeInv
    OBVIOUS
  <2>1. PICK w \in Worlds : col.note = w.note /\ col.at = "pull"
    BY DEF Init
  <2> QED BY <2>1, WorldsAssumption DEF OutcomeInv
<1> QED BY <1>1, OutcomeStep, TypeCorrect, PTL DEF Spec

\* The contract refuses of evidence that stood still a finding without a
\* blocker, a blocker that names too much and a text of several lines, and
\* nothing else (validate_config() and _status() against _validate_project()).
THEOREM RejectionExplainedCorrect == Spec => []RejectionExplained
<1>1. TypeOK /\ OutcomeInv => RejectionExplained
  <2> SUFFICES ASSUME TypeOK, OutcomeInv, col.at \in {"done", "rejected"} PROVE RejectionExplained
    BY DEF RejectionExplained, At
  <2>1. /\ col.pull \in PullRecords /\ col.pull.head # None /\ col.checks \in CheckRecords /\ ReviewOK(col.found)
        /\ StatusOf(col.pull, col.checks, col.found) # None /\ TextConfigured(col.note)
    BY DEF TypeOK, ColOK, OutcomeInv
  <2>2. Report.repository = Project.repository
    BY RecordFields DEF Report
  <2>3. ProjectAccepted(Report) <=>
          ~(\/ Unsaid(col.pull, col.checks, col.found) \/ TooMuch(col.pull, col.checks)
            \/ Lines(col.pull) \/ col.note.broken)
    BY <2>1, Contract DEF Report
  <2>4. DocumentAccepted(DocumentOf(Report)) <=> ~(FindingUnsaid \/ NamesTooMuch \/ TextOfLines)
    BY <2>2, <2>3, DocumentContract DEF FindingUnsaid, Unsaid, NamesTooMuch, TooMuch, TextOfLines, Lines
  <2>5. DocumentAccepted(DocumentOf(Report)) <=> col.at = "done"
    BY DEF OutcomeInv
  <2> QED BY <2>4, <2>5 DEF RejectionExplained, At
<1> QED BY <1>1, TypeCorrect, OutcomeHolds, PTL

------------------------------------------------------------------------------
(* Ranks *)

\* The number of newer runs.
Rank(r) == Cardinality(Newer(r))

\* A run has fewer newer ones than there are runs.
LEMMA RankType ==
  ASSUME WorldOK, NEW r
  PROVE  /\ IsFiniteSet(Newer(r)) /\ Rank(r) \in Nat /\ Cardinality(runs) \in Nat
         /\ r \in runs => Rank(r) < Cardinality(runs)
<1>1. IsFiniteSet(runs) /\ Newer(r) \subseteq runs /\ \A s \in runs : s.id \in Nat
  BY EvidenceAssumption DEF WorldOK, Numbered, Newer
<1>2. IsFiniteSet(Newer(r)) /\ Rank(r) \in Nat /\ Cardinality(runs) \in Nat
  BY <1>1, FS_Subset, FS_CardinalityType DEF Rank
<1>3. ASSUME r \in runs PROVE Rank(r) < Cardinality(runs)
  <2>1. r \notin Newer(r)
    BY <1>1, <1>3 DEF Newer
  <2>2. Newer(r) # runs
    BY <1>3, <2>1
  <2>3. Rank(r) <= Cardinality(runs) /\ (Cardinality(runs) = Rank(r) => runs = Newer(r))
    BY <1>1, FS_Subset DEF Rank
  <2> QED BY <1>2, <2>2, <2>3
<1> QED BY <1>2, <1>3

\* No two runs have the same rank.
LEMMA RanksDiffer ==
  ASSUME WorldOK, NEW r \in runs, NEW s \in runs, Rank(r) = Rank(s)
  PROVE  r = s
<1>1. r.id \in Nat /\ s.id \in Nat /\ (r.id = s.id => r = s) /\ \A x \in runs : x.id \in Nat
  BY EvidenceAssumption DEF WorldOK, Numbered
<1>2. ASSUME NEW x \in runs, NEW y \in runs, x.id < y.id, Rank(x) = Rank(y) PROVE FALSE
  <2>1. Newer(y) \subseteq Newer(x) /\ y \in Newer(x) /\ y \notin Newer(y)
    BY <1>1, <1>2 DEF Newer
  <2>2. IsFiniteSet(Newer(x))
    BY RankType
  <2>3. Newer(x) = Newer(y)
    BY <1>2, <2>1, <2>2, FS_Subset DEF Rank
  <2> QED BY <2>1, <2>3
<1>3. ~(r.id < s.id) /\ ~(s.id < r.id)
  BY <1>2
<1> QED BY <1>1, <1>3

(* The runs before a page.                                                 *)
Offset(page) == (page - 1) * PageSize

\* Pages follow each other.
LEMMA OffsetNext ==
  ASSUME NEW page \in Nat \ {0}
  PROVE  Offset(page) \in Nat /\ Offset(page + 1) = Offset(page) + PageSize /\ Offset(1) = 0
BY BoundsAssumption DEF Offset

\* A page holds the runs of its ranks, PageSize of them at most.
LEMMA PageRanks ==
  ASSUME WorldOK, col.runs.page \in Nat \ {0}
  PROVE  /\ \A r \in runs : r \in RunPage <=>
              Offset(col.runs.page) <= Rank(r) /\ Rank(r) < Offset(col.runs.page + 1)
         /\ Cardinality(RunPage) <= PageSize
<1> DEFINE from == Offset(col.runs.page)
           ranks == from .. (from + PageSize - 1)
           f == [r \in RunPage |-> Rank(r)]
<1>1. from \in Nat /\ Offset(col.runs.page + 1) = from + PageSize /\ PageSize \in Nat \ {0}
  BY OffsetNext, BoundsAssumption
<1>2. RunPage = {r \in runs : Rank(r) \in ranks}
  BY DEF RunPage, Offset, Rank
<1> HIDE DEF from
<1>3. \A r \in runs : Rank(r) \in Nat
  BY RankType
<1>4. f \in Injection(RunPage, ranks)
  <2>1. f \in [RunPage -> ranks]
    BY <1>2
  <2>2. \A r, s \in RunPage : f[r] = f[s] => r = s
    BY <1>2, RanksDiffer
  <2> QED BY <2>1, <2>2 DEF Injection, IsInjective
<1>5. IsFiniteSet(ranks) /\ Cardinality(ranks) = PageSize
  BY <1>1, FS_Interval
<1> HIDE DEF f
<1>6. Cardinality(RunPage) <= PageSize
  BY <1>4, <1>5, FS_Injection
<1>7. \A r \in runs : Rank(r) \in ranks <=> from <= Rank(r) /\ Rank(r) < from + PageSize
  BY <1>1, <1>3
<1> QED BY <1>1, <1>2, <1>6, <1>7 DEF from

\* A change of the runs gains a run of rank as much as it gains runs, unless it is new.
LEMMA RankMoves ==
  ASSUME WorldOK, WorldOK', ChangeRuns, NEW r \in runs', NEW q \in runs, q.id = r.id
  PROVE  Rank(r)' + Cardinality(runs) >= Rank(q) + Cardinality(runs')
<1>0. /\ IsFiniteSet(runs) /\ \A s \in Runs : s.id \in Nat
      /\ \A x, y \in runs : x.id = y.id => x = y
      /\ \A s \in runs : s \in Runs
  BY EvidenceAssumption DEF WorldOK, Numbered
<1>1. Newer(r)' = {s \in runs' : s.id > q.id} /\ Newer(q) = {s \in runs : s.id > q.id}
  BY DEF Newer
<1>2. IsFiniteSet(Newer(q)) /\ Rank(q) \in Nat /\ Cardinality(runs) \in Nat
  BY RankType
<1>3. CASE \E n \in Runs : (\A s \in runs : s.id < n.id) /\ runs' = runs \union {n}
  <2>1. PICK n \in Runs : (\A s \in runs : s.id < n.id) /\ runs' = runs \union {n}
    BY <1>3
  <2>2. n \notin runs /\ n.id > q.id
    BY <1>0, <2>1
  <2>3. Newer(r)' = Newer(q) \union {n} /\ n \notin Newer(q)
    BY <1>1, <2>1, <2>2
  <2>4. Rank(r)' = Rank(q) + 1
    BY <1>2, <2>3, FS_AddElement DEF Rank
  <2>5. Cardinality(runs') = Cardinality(runs) + 1
    BY <1>0, <2>1, <2>2, FS_AddElement
  <2> QED BY <1>2, <2>4, <2>5
<1>4. CASE \E d \in runs : runs' = runs \ {d}
  <2>1. PICK d \in runs : runs' = runs \ {d}
    BY <1>4
  <2>2. Newer(r)' = Newer(q) \ {d}
    BY <1>1, <2>1
  <2>3. Rank(r)' = IF d \in Newer(q) THEN Rank(q) - 1 ELSE Rank(q)
    BY <1>2, <2>2, FS_RemoveElement DEF Rank
  <2>4. Cardinality(runs') = Cardinality(runs) - 1
    BY <1>0, <2>1, FS_RemoveElement
  <2> QED BY <1>2, <2>3, <2>4
<1>5. CASE \E a \in runs, s \in Runs : s.id = a.id /\ runs' = (runs \ {a}) \union {s}
  <2>1. PICK a \in runs, s \in Runs : s.id = a.id /\ runs' = (runs \ {a}) \union {s}
    BY <1>5
  <2>2. IsFiniteSet(runs \ {a}) /\ Cardinality(runs \ {a}) = Cardinality(runs) - 1 /\ s \notin runs \ {a}
    BY <1>0, <2>1, FS_RemoveElement
  <2>3. Cardinality(runs') = Cardinality(runs)
    <3> DEFINE rest == runs \ {a}
    <3>1. runs' = rest \union {s} /\ IsFiniteSet(rest) /\ s \notin rest /\ Cardinality(rest) = Cardinality(runs) - 1
      BY <2>1, <2>2
    <3> HIDE DEF rest
    <3>2. Cardinality(rest \union {s}) = IF s \in rest THEN Cardinality(rest) ELSE Cardinality(rest) + 1
      BY <3>1, FS_AddElement
    <3> QED BY <1>2, <3>1, <3>2
  <2>4. CASE a.id > q.id
    <3>1. Newer(r)' = (Newer(q) \ {a}) \union {s} /\ a \in Newer(q) /\ s \notin Newer(q) \ {a}
      BY <1>1, <2>1, <2>2, <2>4
    <3>2. IsFiniteSet(Newer(q) \ {a}) /\ Cardinality(Newer(q) \ {a}) = Rank(q) - 1
      BY <1>2, <3>1, FS_RemoveElement DEF Rank
    <3> DEFINE rest == Newer(q) \ {a}
    <3> HIDE DEF rest
    <3>3. IsFiniteSet(rest) /\ s \notin rest /\ Cardinality(rest) = Rank(q) - 1
      BY <3>1, <3>2 DEF rest
    <3>4. Cardinality(rest \union {s}) = Rank(q)
      <4>1. Cardinality(rest \union {s}) = IF s \in rest THEN Cardinality(rest) ELSE Cardinality(rest) + 1
        BY <3>3, FS_AddElement
      <4> QED BY <1>2, <3>3, <4>1
    <3>5. Rank(r)' = Rank(q)
      BY <3>1, <3>4 DEF Rank, rest
    <3> QED BY <1>2, <2>3, <3>5
  <2>5. CASE ~(a.id > q.id)
    <3>1. Newer(r)' = Newer(q)
      BY <1>1, <2>1, <2>5
    <3> QED BY <1>2, <2>3, <3>1 DEF Rank
  <2> QED BY <2>4, <2>5
<1> QED BY <1>3, <1>4, <1>5 DEF ChangeRuns

(* What a listing under way has and misses. A run that was there from the  *)
(* first page on and is on no page read so far has a rank that is still to *)
(* come, even after deletions: those the total tells.                      *)
Fresh(l) == l.page = 1 /\ l.total = None /\ l.count = 0 /\ l.listed = {}

Missed(r) == r.id \in col.runs.stayed /\ \A s \in col.runs.listed : s.id # r.id

UnderWay ==
  /\ col.runs.total \in Nat /\ col.runs.count <= Offset(col.runs.page)
  /\ col.runs.stayed \subseteq {r.id : r \in runs}
  /\ \A r \in runs : Missed(r) =>
       Rank(r) + col.runs.total >= Offset(col.runs.page) + Cardinality(runs)

ListInv ==
  /\ col.at \in {"pull", "review"} => Fresh(col.runs)
  /\ col.at = "runs" => Fresh(col.runs) \/ (col.runs.page > 1 /\ UnderWay)
  /\ ListingComplete

\* A page read in time keeps what is missed ahead of the reader.
LEMMA PageStep ==
  ASSUME TypeOK, ListInv, ReadRuns, ~ListingRefused, runs' = runs, col'.runs = Listing
  PROVE  UnderWay' /\ col'.runs.page > 1 /\ col'.runs.total = Cardinality(runs)
<1> DEFINE old == col.runs
           new == col'.runs
           n == Cardinality(runs)
<1>1. /\ new.page = old.page + 1 /\ new.listed = old.listed \union RunPage
      /\ new.count = old.count + Cardinality(RunPage)
      /\ new.total = IF old.total = None THEN n ELSE old.total
      /\ new.stayed = IF old.page = 1 THEN {r.id : r \in runs} ELSE old.stayed
  BY ListingMove DEF TypeOK, ColOK, ListingOK
<1>2. old.page \in Nat \ {0} /\ old.count \in Nat /\ WorldOK
  BY DEF TypeOK, ColOK, ListingOK
<1>3. n \in Nat /\ \A r \in runs : Rank(r) \in Nat
  BY <1>2, RankType
<1>4. Fresh(old) \/ (old.page > 1 /\ UnderWay)
  BY DEF ListInv, ReadRuns, At
<1>5. new.total = n /\ (~Fresh(old) => old.total = n)
  <2>1. old.total \in {None, n}
    BY DEF ListingRefused
  <2>2. UnderWay => old.total # None
    BY EvidenceAssumption DEF UnderWay
  <2> QED BY <1>1, <1>4, <2>1, <2>2
<1>6. /\ Offset(old.page) \in Nat /\ Offset(new.page) = Offset(old.page) + PageSize /\ Offset(1) = 0
      /\ PageSize \in Nat
  BY <1>1, <1>2, OffsetNext, BoundsAssumption
<1>7. /\ \A r \in runs : r \in RunPage <=> Offset(old.page) <= Rank(r) /\ Rank(r) < Offset(new.page)
      /\ Cardinality(RunPage) <= PageSize /\ Cardinality(RunPage) \in Nat
  BY <1>1, <1>2, PageRanks, RunPageType
<1>8. new.count <= Offset(new.page)
  <2>1. old.count <= Offset(old.page)
    BY <1>4, <1>6 DEF Fresh, UnderWay
  <2> QED BY <1>1, <1>2, <1>6, <1>7, <2>1
<1>9. new.stayed \subseteq {r.id : r \in runs}
  BY <1>1, <1>4 DEF Fresh, UnderWay
<1>10. ASSUME NEW r \in runs, Missed(r)' PROVE Rank(r) + n >= Offset(new.page) + n
  <2>1. r \notin RunPage /\ r.id \in new.stayed /\ \A s \in old.listed : s.id # r.id
    BY <1>1, <1>10 DEF Missed
  <2>2. Offset(old.page) <= Rank(r)
    <3>1. CASE Fresh(old)
      BY <1>3, <1>6, <3>1 DEF Fresh
    <3>2. CASE ~Fresh(old)
      <4>1. Missed(r) /\ old.total = n
        BY <1>1, <1>4, <1>5, <2>1, <3>2 DEF Missed
      <4>2. Rank(r) + n >= Offset(old.page) + n
        BY <1>4, <3>2, <4>1 DEF UnderWay
      <4> QED BY <1>3, <1>6, <4>2
    <3> QED BY <3>1, <3>2
  <2> QED BY <1>3, <1>6, <1>7, <2>1, <2>2
<1>11. \A r : Rank(r)' = Rank(r)
  BY DEF Rank, Newer
<1>12. new.page > 1
  BY <1>1, <1>2
<1> HIDE DEF old, n
<1>13. \A r \in runs : Missed(r)' => Rank(r)' + new.total >= Offset(new.page) + n
  BY <1>5, <1>10, <1>11
<1> QED BY <1>3, <1>5, <1>8, <1>9, <1>12, <1>13 DEF UnderWay, n

\* Each step keeps what a listing misses ahead of its reader.
LEMMA ListStep ==
  ASSUME TypeOK, TypeOK', ListInv, [Next]_vars
  PROVE  ListInv'
<1>0. DOMAIN col = Fields /\ DOMAIN col.runs = ListingFields
  BY DEF TypeOK, ColOK, ListingOK
<1>1. CASE ChangeRuns
  <2>1. /\ Only({"runs"})
        /\ col'.runs.page = col.runs.page /\ col'.runs.total = col.runs.total
        /\ col'.runs.count = col.runs.count /\ col'.runs.listed = col.runs.listed
        /\ col'.runs.stayed = col.runs.stayed \intersect {r.id : r \in runs'}
    BY <1>0, <1>1, ChangeRunsMove
  <2>2. col'.at = col.at
    BY <2>1 DEF Only, Fields
  <2>3. Fresh(col.runs) => Fresh(col'.runs)
    BY <2>1 DEF Fresh
  <2>4. ASSUME UnderWay, col.runs.page > 1 PROVE UnderWay'
    <3>1. ASSUME NEW r \in runs', Missed(r)'
          PROVE  Rank(r)' + col.runs.total >= Offset(col.runs.page) + Cardinality(runs')
      <4>1. r.id \in col.runs.stayed /\ \A s \in col.runs.listed : s.id # r.id
        BY <2>1, <3>1 DEF Missed
      <4>2. PICK q \in runs : q.id = r.id
        BY <2>4, <4>1 DEF UnderWay
      <4>3. Rank(q) + col.runs.total >= Offset(col.runs.page) + Cardinality(runs)
        BY <2>4, <4>1, <4>2 DEF UnderWay, Missed
      <4>4. Rank(r)' + Cardinality(runs) >= Rank(q) + Cardinality(runs')
        BY <1>1, <4>2, RankMoves DEF TypeOK
      <4>5. /\ Rank(q) \in Nat /\ Cardinality(runs) \in Nat /\ col.runs.total \in Nat
            /\ Offset(col.runs.page) \in Nat
        BY <2>4, RankType, OffsetNext DEF UnderWay, TypeOK, ColOK, ListingOK
      <4>6. Rank(r)' \in Nat /\ Cardinality(runs') \in Nat
        <5>1. IsFiniteSet(runs') /\ Newer(r)' \subseteq runs'
          BY DEF TypeOK, WorldOK, Numbered, Newer
        <5> QED BY <5>1, FS_Subset, FS_CardinalityType DEF Rank
      <4> QED BY <4>3, <4>4, <4>5, <4>6
    <3>2. /\ col'.runs.total \in Nat /\ col'.runs.count <= Offset(col'.runs.page)
          /\ col'.runs.stayed \subseteq {r.id : r \in runs'}
      BY <2>1, <2>4 DEF UnderWay
    <3> QED BY <2>1, <3>1, <3>2 DEF UnderWay
  <2>5. ListingComplete => ListingComplete'
    BY <2>1, <2>2 DEF ListingComplete, At
  <2> QED BY <2>1, <2>2, <2>3, <2>4, <2>5 DEF ListInv
<1>2. ASSUME UNCHANGED <<runs, col>> PROVE ListInv'
  BY <1>2 DEF ListInv, Fresh, UnderWay, Missed, Rank, Newer, ListingComplete, At
<1>3. CASE ChangePull \/ ChangeThreads \/ ChangeComments
  BY <1>2, <1>3 DEF ChangePull, ChangeThreads, ChangeComments
<1>4. CASE UNCHANGED vars
  BY <1>2, <1>4 DEF vars
<1>5. CASE ReadPull
  <2>1. col.at = "pull" /\ col'.at = "runs" /\ col'.runs = col.runs
    BY <1>0, <1>5, ReadPullMove DEF Only, Fields
  <2> QED BY <2>1 DEF ListInv, ListingComplete, At, Fresh
<1>6. ASSUME col' = Refused PROVE ListInv'
  <2>1. col'.at = "refused"
    BY <1>0, <1>6, RefusedMove
  <2> QED BY <2>1 DEF ListInv, ListingComplete, At
<1>7. CASE ReadRuns /\ col' # Refused
  <2>1. ~ListingRefused /\ col'.runs = Listing /\ runs' = runs
    BY <1>0, <1>7, ReadRunsMove DEF ReadRuns, world
  <2>2. UnderWay' /\ col'.runs.page > 1 /\ col'.runs.total = Cardinality(runs)
    BY <1>7, <2>1, PageStep
  <2>3. CASE col'.at = "runs"
    BY <2>2, <2>3 DEF ListInv, ListingComplete, At
  <2>4. CASE col'.at = "listed" /\ Listing.count = Listing.total
    <3>1. col'.runs.count = Cardinality(runs)
      BY <2>1, <2>2, <2>4
    <3>2. ASSUME NEW r \in runs, Missed(r)' PROVE FALSE
      <4>1. Rank(r)' + col'.runs.total >= Offset(col'.runs.page) + Cardinality(runs) /\ Rank(r)' = Rank(r)
        BY <2>1, <2>2, <3>2 DEF UnderWay, Rank, Newer
      <4>2. Cardinality(runs) <= Offset(col'.runs.page)
        BY <2>2, <3>1 DEF UnderWay
      <4>3. Rank(r) \in Nat /\ Cardinality(runs) \in Nat /\ Rank(r) < Cardinality(runs)
        BY RankType DEF TypeOK
      <4>4. Offset(col'.runs.page) \in Nat
        BY OffsetNext DEF TypeOK, ColOK, ListingOK
      <4> QED BY <2>2, <4>1, <4>2, <4>3, <4>4
    <3>3. col'.runs.stayed \subseteq {r.id : r \in runs}
      BY <2>1, <2>2 DEF UnderWay
    <3>4. ListingComplete'
      BY <3>2, <3>3 DEF Missed, ListingComplete
    <3> QED BY <2>4, <3>4 DEF ListInv
  <2>5. col'.at = "runs" \/ (col'.at = "listed" /\ Listing.count = Listing.total)
    BY <1>0, <1>7, ReadRunsMove DEF Only, Fields
  <2> QED BY <2>3, <2>4, <2>5
<1>8. CASE KeepRuns
  <2>1. col'.at = "review" /\ col'.runs = NoRuns
    BY <1>0, <1>8, KeepRunsMove
  <2> QED BY <2>1 DEF ListInv, ListingComplete, At, Fresh, NoRuns
<1>9. CASE ReadReview /\ col' # Refused
  <2>1. col.at = "review" /\ col'.runs = col.runs /\ col'.at \in {"review", "runs", "pull2"}
    BY <1>0, <1>9, ReadReviewMove DEF Only, Fields
  <2> QED BY <2>1 DEF ListInv, ListingComplete, At, Fresh
<1>10. CASE Finish /\ col' # Refused
  <2>1. col'.at \in {"done", "rejected"}
    BY <1>0, <1>10, FinishMove
  <2> QED BY <2>1 DEF ListInv, ListingComplete, At
<1> QED BY <1>1, <1>3, <1>4, <1>5, <1>6, <1>7, <1>8, <1>9, <1>10 DEF Next, Collect

\* ListInv holds throughout.
LEMMA ListHolds == Spec => []ListInv
<1>1. Init => ListInv
  BY DEF Init, ListInv, Fresh, NoRuns, ListingComplete, At
<1> QED BY <1>1, ListStep, TypeCorrect, PTL DEF Spec

\* A listing that is accepted has every run that was there from its first page
\* to its last: the total and the numbers tell (get_workflow_runs()).
THEOREM ListingCompleteCorrect == Spec => []ListingComplete
BY ListHolds, PTL DEF ListInv

------------------------------------------------------------------------------
(* Checks *)

(* The same run, now or later: every change of a run is a later update.    *)
Follows(a, b)  == b.id = a.id /\ b.name = a.name /\ (b = a \/ b.updated > a.updated)
Followed(S, T) == \A a \in S : \E b \in T : Follows(a, b)

\* Following goes on.
LEMMA FollowedOn ==
  ASSUME NEW A \in SUBSET Runs, NEW B \in SUBSET Runs, NEW C \in SUBSET Runs, Followed(A, B), Followed(B, C)
  PROVE  Followed(A, C)
<1>1. \A r \in Runs : r.updated \in Nat
  BY EvidenceAssumption
<1>2. ASSUME NEW a \in A PROVE \E c \in C : Follows(a, c)
  <2>1. PICK b \in B : Follows(a, b)
    BY DEF Followed
  <2>2. PICK c \in C : Follows(b, c)
    BY DEF Followed
  <2>3. Follows(a, c)
    BY <1>1, <2>1, <2>2 DEF Follows
  <2> QED BY <2>3
<1> QED BY <1>2 DEF Followed

\* Of runs that are told apart by their numbers, the later of two is known.
LEMMA LaterTotal ==
  ASSUME NEW r \in Runs, NEW s \in Runs
  PROVE  /\ ~Later(r, r) /\ ~(Later(r, s) /\ Later(s, r))
         /\ r.id # s.id => Later(r, s) \/ Later(s, r)
         /\ Later(r, s) => r.updated >= s.updated
         /\ \A q \in Runs : Later(r, s) /\ Later(s, q) => Later(r, q)
BY EvidenceAssumption DEF Later

\* A workflow that has a run has a latest one.
LEMMA LatestThere ==
  ASSUME NEW S \in SUBSET Runs, Numbered(S), NEW q \in S
  PROVE  Selected(S, q.name) # {}
<1> DEFINE T == {r \in S : r.name = q.name}
           R == {p \in T \X T : Later(p[2], p[1])}
<1>1. IsFiniteSet(T) /\ T # {} /\ T \subseteq Runs /\ \A x, y \in T : x.id = y.id => x = y
  BY FS_Subset DEF Numbered
<1>2. \A x, y \in T : <<x, y>> \in R <=> Later(y, x)
  OBVIOUS
<1> HIDE DEF T, R
<1>3. (\A x \in T : <<x, x>> \notin R) /\ \A x, y, z \in T : <<x, y>> \in R /\ <<y, z>> \in R => <<x, z>> \in R
  BY <1>1, <1>2, LaterTotal
<1>4. PICK x \in T : \A y \in T : <<x, y>> \notin R
  BY <1>1, <1>3, Maximal
<1>5. \A y \in T \ {x} : Later(x, y)
  BY <1>1, <1>2, <1>4, LaterTotal
<1>6. x \in Selected(S, q.name)
  BY <1>5 DEF Selected, T
<1> QED BY <1>6

\* It is the only one, and no run of the workflow is updated after it.
LEMMA LatestIs ==
  ASSUME NEW S \in SUBSET Runs, NEW w, NEW a \in Selected(S, w)
  PROVE  /\ a \in S /\ a.name = w /\ Selected(S, w) = {a} /\ (CHOOSE r \in Selected(S, w) : TRUE) = a
         /\ \A s \in S : s.name = w => a.updated >= s.updated
<1>1. a \in S /\ a.name = w /\ a.updated \in Nat
  BY EvidenceAssumption DEF Selected
<1>2. Selected(S, w) = {a}
  <2>1. ASSUME NEW b \in Selected(S, w), b # a PROVE FALSE
    <3>1. b \in S /\ b.name = w /\ Later(a, b) /\ Later(b, a)
      BY <1>1, <2>1 DEF Selected
    <3> QED BY <1>1, <3>1, LaterTotal
  <2> QED BY <2>1
<1>3. ASSUME NEW s \in S, s.name = w PROVE a.updated >= s.updated
  <2>1. s = a \/ Later(a, s)
    BY <1>3 DEF Selected
  <2> QED BY <1>1, <2>1, LaterTotal
<1> QED BY <1>1, <1>2, <1>3

\* Three looks at the runs, each followed by the next, of which the first and
\* the last give the same times: the one between gives the checks of the first.
LEMMA ChecksBetween ==
  ASSUME TimesTell, NEW A \in SUBSET Runs, NEW M \in SUBSET Runs, NEW B \in SUBSET Runs,
         Numbered(M), Numbered(B), Followed(A, M), Followed(M, B), TimesOf(B) = TimesOf(A)
  PROVE  ChecksOf(M) = ChecksOf(A)
<1>1. \A r \in Runs : r.updated \in Nat
  BY EvidenceAssumption
<1>2. ASSUME NEW w \in Project.workflows PROVE Selected(M, w) = Selected(A, w)
  <2>1. CASE Selected(M, w) = {}
    <3>1. ASSUME NEW a \in Selected(A, w) PROVE FALSE
      <4>1. a \in A /\ a.name = w
        BY DEF Selected
      <4>2. PICK m \in M : Follows(a, m)
        BY <4>1 DEF Followed
      <4>3. Selected(M, w) # {}
        BY <4>1, <4>2, LatestThere DEF Follows
      <4> QED BY <2>1, <4>3
    <3> QED BY <2>1, <3>1
  <2>2. CASE Selected(M, w) # {}
    <3>1. PICK m : m \in Selected(M, w)
      BY <2>2
    <3>2. m \in M /\ m.name = w /\ Selected(M, w) = {m} /\ \A s \in M : s.name = w => m.updated >= s.updated
      BY <3>1, LatestIs
    <3>3. PICK k \in B : Follows(m, k)
      BY <3>2 DEF Followed
    <3>4. PICK b : b \in Selected(B, w)
      BY <3>2, <3>3, LatestThere DEF Follows
    <3>5. b \in B /\ \A s \in B : s.name = w => b.updated >= s.updated
      BY <3>4, LatestIs
    <3>6. {r.updated : r \in Selected(B, w)} = {r.updated : r \in Selected(A, w)}
      <4>1. TimesOf(B)[w] = TimesOf(A)[w]
        OBVIOUS
      <4> QED BY <4>1 DEF TimesOf
    <3>7. PICK a \in Selected(A, w) : a.updated = b.updated
      BY <3>4, <3>6
    <3>8. a \in A /\ a.name = w /\ Selected(A, w) = {a}
      BY LatestIs
    <3>9. PICK n \in M : Follows(a, n)
      BY <3>8 DEF Followed
    <3>10. /\ m.updated \in Nat /\ n.updated \in Nat /\ a.updated \in Nat /\ b.updated \in Nat /\ k.updated \in Nat
           /\ m.updated >= n.updated /\ n.name = w
           /\ k.name = w /\ b.updated >= k.updated
      BY <1>1, <3>2, <3>3, <3>5, <3>8, <3>9 DEF Follows
    <3>11. n.updated >= a.updated /\ (n.updated = a.updated => n = a) /\ k.updated >= m.updated
      BY <3>3, <3>9, <3>10 DEF Follows
    <3>12. n = a /\ m.updated = n.updated
      BY <3>7, <3>10, <3>11
    <3>13. m.id = n.id
      BY <3>2, <3>10, <3>12 DEF TimesTell
    <3>14. m = n
      BY <3>2, <3>13 DEF Numbered
    <3> QED BY <3>2, <3>8, <3>12, <3>14
  <2> QED BY <2>1, <2>2
<1> DEFINE State(T) == IF T = {} THEN "missing" ELSE RunState((CHOOSE r \in T : TRUE).raw)
<1>3. /\ ChecksOf(M) = [w \in Project.workflows |-> State(Selected(M, w))]
      /\ ChecksOf(A) = [w \in Project.workflows |-> State(Selected(A, w))]
  BY DEF ChecksOf
<1> HIDE DEF State
<1> QED BY <1>2, <1>3

(* The evidence of a pass: of runs that what is there now follows.         *)
Evidence(now) ==
  \E A \in SUBSET Runs : col.checks = ChecksOf(A) /\ col.times = TimesOf(A) /\ Followed(A, now)

(* While no run is deleted: the listing under way has gone by the runs,    *)
(* what the first pass kept is followed by the runs between the passes and *)
(* these by the runs there are; the second pass loses none of them.        *)
SecondListing ==
  /\ \A m \in mid.runs, l \in col.runs.listed : m.id = l.id => Follows(m, l)
  /\ col.at = "listed" \/ ~Fresh(col.runs) => \A m \in mid.runs : m.id \in col.runs.stayed

ChecksInv ==
  changes.deleted = 0 =>
    /\ col.at \in {"runs", "listed"} => Followed(col.runs.listed, runs)
    /\ col.pass = 1 /\ col.at = "review" => Evidence(runs)
    /\ col.pass = 2 =>
         /\ Evidence(mid.runs) /\ Followed(mid.runs, runs)
         /\ col.at \in {"runs", "listed"} => SecondListing
         /\ col.at \in {"review", "pull2", "done", "rejected"} /\ ~col.moved /\ TimesTell =>
              ChecksOf(mid.runs) = col.checks

\* Runs that change without a deletion are followed by what they become.
LEMMA RunsFollowed ==
  ASSUME TypeOK, ChangeRuns, changes'.deleted = 0
  PROVE  changes.deleted = 0 /\ Followed(runs, runs') /\ \A r \in runs : r.id \in {s.id : s \in runs'}
<1>1. ASSUME NEW b \in {0, 1}, Counted(0, b) PROVE b = 0 /\ changes.deleted = 0
  <2>1. changes'.deleted = changes.deleted + b /\ changes.deleted \in Nat
    BY <1>1 DEF Counted, TypeOK
  <2> QED BY <2>1
<1>2. \/ \E n \in Runs : runs' = runs \union {n}
      \/ \E a \in runs, s \in Runs : /\ s.id = a.id /\ s.name = a.name /\ s.updated > a.updated
                                     /\ runs' = (runs \ {a}) \union {s}
  <2>1. ~Counted(0, 1)
    BY <1>1
  <2> QED BY <2>1 DEF ChangeRuns
<1>3. changes.deleted = 0
  <2>1. Counted(0, 0)
    <3>1. ~Counted(0, 1)
      BY <1>1
    <3> QED BY <3>1 DEF ChangeRuns
  <2> QED BY <1>1, <2>1
<1>4. ASSUME NEW r \in runs PROVE \E s \in runs' : Follows(r, s)
  <2>1. CASE \E n \in Runs : runs' = runs \union {n}
    BY <2>1 DEF Follows
  <2>2. CASE \E a \in runs, s \in Runs : /\ s.id = a.id /\ s.name = a.name /\ s.updated > a.updated
                                         /\ runs' = (runs \ {a}) \union {s}
    BY <2>2 DEF Follows
  <2> QED BY <1>2, <2>1, <2>2
<1>5. \A r \in runs : r.id \in {s.id : s \in runs'}
  BY <1>4 DEF Follows
<1> QED BY <1>3, <1>4, <1>5 DEF Followed

\* A change of the runs.
LEMMA ChecksRunsStep ==
  ASSUME TypeOK, TypeOK', ListInv, ChecksInv, ChangeRuns
  PROVE  ChecksInv'
<1> SUFFICES ASSUME changes'.deleted = 0 PROVE ChecksInv'
  BY DEF ChecksInv
<1>1. changes.deleted = 0 /\ Followed(runs, runs') /\ \A r \in runs : r.id \in {s.id : s \in runs'}
  BY RunsFollowed
<1>2. /\ Only({"runs"}) /\ col'.runs.listed = col.runs.listed
      /\ col'.runs.page = col.runs.page /\ col'.runs.total = col.runs.total /\ col'.runs.count = col.runs.count
      /\ col'.runs.stayed = col.runs.stayed \intersect {r.id : r \in runs'}
  BY ChangeRunsMove DEF TypeOK, ColOK, ListingOK
<1>3. /\ col'.at = col.at /\ col'.pass = col.pass /\ col'.checks = col.checks /\ col'.times = col.times
      /\ col'.moved = col.moved /\ mid' = mid
  BY <1>2, Changes DEF Only, Fields
<1>4. col.runs.listed \subseteq Runs /\ runs \subseteq Runs /\ runs' \subseteq Runs
  BY DEF TypeOK, ColOK, ListingOK, WorldOK
<1>5. col.pass = 2 => mid.runs \subseteq Runs
  BY DEF TypeOK, ColOK, MidOK
<1>6. Followed(col.runs.listed, runs) => Followed(col'.runs.listed, runs')
  BY <1>1, <1>2, <1>4, FollowedOn
<1>7. col.pass = 2 /\ Followed(mid.runs, runs) => Followed(mid.runs, runs')
  BY <1>1, <1>4, <1>5, FollowedOn
<1>8. Evidence(runs) => Evidence(runs)'
  <2> SUFFICES ASSUME Evidence(runs) PROVE Evidence(runs)'
    OBVIOUS
  <2>1. PICK A \in SUBSET Runs : col.checks = ChecksOf(A) /\ col.times = TimesOf(A) /\ Followed(A, runs)
    BY DEF Evidence
  <2>2. Followed(A, runs')
    BY <1>1, <1>4, <2>1, FollowedOn
  <2> QED BY <1>3, <2>1, <2>2 DEF Evidence
<1>9. Evidence(mid.runs) => Evidence(mid.runs)'
  BY <1>3 DEF Evidence
<1>10. col.pass = 2 /\ Followed(mid.runs, runs) /\ SecondListing => SecondListing'
  <2> SUFFICES ASSUME col.pass = 2, Followed(mid.runs, runs), SecondListing PROVE SecondListing'
    OBVIOUS
  <2>1. Fresh(col'.runs) <=> Fresh(col.runs)
    BY <1>2 DEF Fresh
  <2>2. \A m \in mid.runs : m.id \in {s.id : s \in runs'}
    BY <1>1 DEF Followed, Follows
  <2> QED BY <1>2, <1>3, <2>1, <2>2 DEF SecondListing
<1> QED BY <1>1, <1>3, <1>6, <1>7, <1>8, <1>9, <1>10 DEF ChecksInv

\* A page of runs.
LEMMA ChecksReadStep ==
  ASSUME TypeOK, ListInv, ChecksInv, ReadRuns, col' # Refused
  PROVE  ChecksInv'
<1> SUFFICES ASSUME changes'.deleted = 0 PROVE ChecksInv'
  BY DEF ChecksInv
<1>1. changes.deleted = 0 /\ runs' = runs /\ mid' = mid /\ col.at = "runs"
  BY DEF ReadRuns, world, At
<1>2. /\ Only({"at", "runs"}) /\ col'.at \in {"runs", "listed"} /\ col'.runs = Listing /\ ~ListingRefused
  <2>1. \/ ~ListingRefused /\ Only({"runs"}) /\ col'.runs = Listing
        \/ ~ListingRefused /\ Only({"at", "runs"}) /\ col'.at = "listed" /\ col'.runs = Listing
    BY ReadRunsMove DEF TypeOK, ColOK
  <2>2. Only({"runs"}) => Only({"at", "runs"}) /\ col'.at = col.at
    BY DEF Only, Fields
  <2> QED BY <1>1, <2>1, <2>2
<1>3. /\ col'.pass = col.pass /\ col'.checks = col.checks /\ col'.times = col.times /\ col'.moved = col.moved
  BY <1>2 DEF Only, Fields
<1>4. /\ col'.runs.listed = col.runs.listed \union RunPage /\ RunPage \subseteq runs
      /\ col'.runs.stayed = IF col.runs.page = 1 THEN {r.id : r \in runs} ELSE col.runs.stayed
  BY <1>2, ListingMove, RunPageType DEF TypeOK, ColOK, ListingOK
<1>5. Followed(col'.runs.listed, runs)
  <2>1. Followed(col.runs.listed, runs)
    BY <1>1 DEF ChecksInv
  <2>2. \A r \in RunPage : Follows(r, r) /\ r \in runs
    BY <1>4 DEF Follows
  <2> QED BY <1>4, <2>1, <2>2 DEF Followed
<1>6. ASSUME col.pass = 2 PROVE SecondListing'
  <2>1. Followed(mid.runs, runs) /\ SecondListing
    BY <1>1, <1>6 DEF ChecksInv
  <2>2. ASSUME NEW m \in mid.runs, NEW l \in RunPage, m.id = l.id PROVE Follows(m, l)
    <3>1. PICK s \in runs : Follows(m, s)
      BY <2>1 DEF Followed
    <3>2. s = l
      BY <1>4, <2>2, <3>1 DEF Follows, TypeOK, WorldOK, Numbered
    <3> QED BY <3>1, <3>2
  <2>3. \A m \in mid.runs, l \in col'.runs.listed : m.id = l.id => Follows(m, l)
    BY <1>4, <2>1, <2>2 DEF SecondListing
  <2>4. \A m \in mid.runs : m.id \in col'.runs.stayed
    <3>1. CASE col.runs.page = 1
      BY <1>4, <2>1, <3>1 DEF Followed, Follows
    <3>2. CASE col.runs.page # 1
      <4>1. ~Fresh(col.runs)
        BY <3>2 DEF Fresh
      <4> QED BY <1>4, <2>1, <3>2, <4>1 DEF SecondListing
    <3> QED BY <3>1, <3>2
  <2> QED BY <1>1, <2>3, <2>4 DEF SecondListing
<1>7. Evidence(mid.runs) => Evidence(mid.runs)'
  BY <1>1, <1>3 DEF Evidence
<1> QED BY <1>1, <1>2, <1>3, <1>5, <1>6, <1>7 DEF ChecksInv

\* What is kept of a listing: the first pass keeps it, the second one compares.
LEMMA ChecksKeepStep ==
  ASSUME TypeOK, ListInv, ChecksInv, KeepRuns
  PROVE  ChecksInv'
<1> SUFFICES ASSUME changes'.deleted = 0 PROVE ChecksInv'
  BY DEF ChecksInv
<1>1. changes.deleted = 0 /\ runs' = runs /\ mid' = mid /\ col.at = "listed" /\ col'.at = "review"
      /\ Followed(col.runs.listed, runs) /\ col.runs.listed \subseteq Runs /\ DOMAIN col = Fields
      /\ Numbered(col.runs.listed)
  BY KeepRunsMove DEF KeepRuns, world, ChecksInv, TypeOK, ColOK, ListingOK
<1>2. CASE col.pass = 1
  <2>1. /\ col'.pass = 1 /\ col'.checks = ChecksOf(col.runs.listed) /\ col'.times = TimesOf(col.runs.listed)
    BY <1>1, <1>2, KeepRunsMove DEF Only, Fields
  <2>2. Evidence(runs)'
    BY <1>1, <2>1 DEF Evidence
  <2> QED BY <1>1, <2>1, <2>2 DEF ChecksInv
<1>3. CASE col.pass = 2
  <2>1. /\ col'.pass = 2 /\ col'.checks = col.checks /\ col'.times = col.times
        /\ col'.moved = ~SameChecks(col.runs.listed)
    BY <1>1, <1>3, KeepRunsMove DEF Only, Fields
  <2>2. Evidence(mid.runs) /\ Followed(mid.runs, runs) /\ SecondListing
    BY <1>1, <1>3 DEF ChecksInv
  <2>3. Evidence(mid.runs)'
    BY <1>1, <2>1, <2>2 DEF Evidence
  <2>4. Followed(mid.runs, col.runs.listed)
    <3>1. ASSUME NEW m \in mid.runs PROVE \E l \in col.runs.listed : Follows(m, l)
      <4>1. m.id \in {r.id : r \in col.runs.listed}
        BY <1>1, <2>2 DEF SecondListing, ListInv, ListingComplete, At
      <4> QED BY <2>2, <4>1 DEF SecondListing
    <3> QED BY <3>1 DEF Followed
  <2>5. ASSUME ~col'.moved, TimesTell PROVE ChecksOf(mid.runs) = col.checks
    <3>1. PICK A \in SUBSET Runs : col.checks = ChecksOf(A) /\ col.times = TimesOf(A) /\ Followed(A, mid.runs)
      BY <2>2 DEF Evidence
    <3>2. TimesOf(col.runs.listed) = TimesOf(A)
      BY <2>1, <2>5, <3>1 DEF SameChecks
    <3>3. mid.runs \in SUBSET Runs /\ Numbered(mid.runs)
      BY <1>3 DEF TypeOK, ColOK, MidOK
    <3>4. ChecksOf(mid.runs) = ChecksOf(A)
      BY <1>1, <2>4, <2>5, <3>1, <3>2, <3>3, ChecksBetween
    <3> QED BY <3>1, <3>4
  <2> QED BY <1>1, <2>1, <2>2, <2>3, <2>5 DEF ChecksInv
<1> QED BY <1>2, <1>3 DEF TypeOK, ColOK

\* The end of a pass over the review.
LEMMA ChecksReviewStep ==
  ASSUME TypeOK, ListInv, ChecksInv, ReadReview, col' # Refused
  PROVE  ChecksInv'
<1> SUFFICES ASSUME changes'.deleted = 0 PROVE ChecksInv'
  BY DEF ChecksInv
<1>1. changes.deleted = 0 /\ runs' = runs /\ col.at = "review" /\ DOMAIN col = Fields
  BY DEF ReadReview, world, At, TypeOK, ColOK
<1>2. /\ col'.checks = col.checks /\ col'.times = col.times /\ col'.runs = col.runs
  BY <1>1, ReadReviewMove DEF Only, Fields
<1>3. CASE col.pass = 1 /\ mid' = World /\ col'.pass = 2 /\ col'.at = "runs"
  <2>1. Evidence(runs) /\ mid'.runs = runs
    BY <1>1, <1>3 DEF ChecksInv, World
  <2>2. Evidence(mid.runs)'
    BY <1>2, <2>1 DEF Evidence
  <2>3. Followed(runs, runs)
    BY DEF Followed, Follows
  <2>4. Fresh(col.runs) /\ col.runs.listed = {}
    BY <1>1 DEF ListInv, Fresh
  <2>5. SecondListing' /\ Followed(col'.runs.listed, runs)
    BY <1>2, <1>3, <2>4 DEF SecondListing, Followed, Fresh
  <2> QED BY <1>1, <1>3, <2>1, <2>2, <2>3, <2>5 DEF ChecksInv
<1>4. CASE mid' = mid /\ col'.pass = col.pass /\ col'.at \in {"review", "pull2"} /\ (col.moved => col'.moved)
           /\ (col'.at = "pull2" => col.pass # 1)
  <2>1. Evidence(mid.runs) => Evidence(mid.runs)'
    BY <1>2, <1>4 DEF Evidence
  <2>2. Evidence(runs) => Evidence(runs)'
    BY <1>1, <1>2 DEF Evidence
  <2> QED BY <1>1, <1>2, <1>4, <2>1, <2>2 DEF ChecksInv
<1>5. \/ mid' = mid /\ Only({"review"})
      \/ mid' = World /\ col.pass = 1 /\ col'.pass = 2 /\ col'.at = "runs"
      \/ /\ mid' = mid /\ col.pass # 1 /\ Only({"at", "review", "moved"}) /\ col'.at = "pull2"
         /\ col'.moved = (col.moved \/ ~SameReview(ReviewPage))
  BY <1>1, ReadReviewMove
<1>6. mid' = mid /\ Only({"review"}) => col'.pass = col.pass /\ col'.at = "review" /\ col'.moved = col.moved
  BY <1>1 DEF Only, Fields
<1>7. Only({"at", "review", "moved"}) => col'.pass = col.pass
  BY DEF Only, Fields
<1> QED BY <1>3, <1>4, <1>5, <1>6, <1>7

\* Each step keeps the evidence of the checks.
LEMMA ChecksStep ==
  ASSUME TypeOK, TypeOK', ListInv, ChecksInv, [Next]_vars
  PROVE  ChecksInv'
<1>0. DOMAIN col = Fields
  BY DEF TypeOK, ColOK
<1>1. CASE ChangeRuns
  BY <1>1, ChecksRunsStep
<1>2. ASSUME UNCHANGED <<runs, col, mid>>, changes'.deleted = changes.deleted PROVE ChecksInv'
  BY <1>2 DEF ChecksInv, Evidence, SecondListing, Fresh
<1>3. CASE ChangePull \/ ChangeThreads \/ ChangeComments
  <2>1. changes'.deleted = changes.deleted
    <3>1. ASSUME NEW a \in {0, 1}, Counted(a, 0) PROVE changes'.deleted = changes.deleted
      BY <3>1 DEF Counted, TypeOK
    <3> QED BY <1>3, <3>1 DEF ChangePull, ChangeThreads, ChangeComments
  <2> QED BY <1>2, <1>3, <2>1 DEF ChangePull, ChangeThreads, ChangeComments
<1>4. CASE UNCHANGED vars
  BY <1>2, <1>4 DEF vars
<1>5. CASE ReadPull
  <2>1. /\ col.at = "pull" /\ col'.at = "runs" /\ col'.runs = col.runs /\ col'.pass = col.pass
        /\ UNCHANGED <<runs, mid, changes>>
    BY <1>0, <1>5, ReadPullMove DEF Only, Fields, ReadPull, world
  <2>2. col.runs.listed = {} /\ col.pass = 1
    BY <2>1 DEF ListInv, Fresh, TypeOK, ColOK
  <2> QED BY <2>1, <2>2 DEF ChecksInv, Followed
<1>6. CASE Collect /\ col' = Refused
  <2>1. col'.at = "refused" /\ Only({"at", "runs", "review"})
    BY <1>0, <1>6, RefusedMove
  <2>2. /\ col'.pass = col.pass /\ col'.checks = col.checks /\ col'.times = col.times
        /\ col'.moved = col.moved /\ UNCHANGED <<runs, changes>>
    BY <1>6, <2>1 DEF Only, Fields, Collect, ReadPull, ReadRuns, KeepRuns, ReadReview, Finish, world
  <2>3. mid' = mid
    <3>1. CASE ReadReview
      BY <1>0, <2>1, <3>1, ReadReviewMove DEF Only, Fields
    <3> QED BY <1>6, <3>1 DEF Collect, ReadPull, ReadRuns, KeepRuns, Finish
  <2>4. Evidence(mid.runs) => Evidence(mid.runs)'
    BY <2>2, <2>3 DEF Evidence
  <2> QED BY <2>1, <2>2, <2>3, <2>4 DEF ChecksInv
<1>7. CASE Finish /\ col' # Refused
  <2>1. col.at = "pull2" /\ Only({"at", "document"}) /\ col'.at \in {"done", "rejected"}
    BY <1>0, <1>7, FinishMove
  <2>2. /\ col'.pass = col.pass /\ col'.checks = col.checks /\ col'.times = col.times
        /\ col'.moved = col.moved /\ UNCHANGED <<runs, changes, mid>>
    BY <1>7, <2>1 DEF Only, Fields, Finish, world
  <2>3. Evidence(mid.runs) => Evidence(mid.runs)'
    BY <2>2 DEF Evidence
  <2> QED BY <2>1, <2>2, <2>3 DEF ChecksInv
<1> QED BY <1>1, <1>3, <1>4, <1>5, <1>6, <1>7, ChecksReadStep, ChecksKeepStep, ChecksReviewStep DEF Next, Collect

\* ChecksInv holds throughout.
LEMMA ChecksHold == Spec => []ChecksInv
<1>1. Init => ChecksInv
  BY DEF Init, ChecksInv
<1> QED BY <1>1, ChecksStep, TypeCorrect, ListHolds, PTL DEF Spec

------------------------------------------------------------------------------
(* Reviews, page by page *)

\* A page holds what is between its cursor and its last entry.
LEMMA PageHolds ==
  ASSUME NEW ids \in SUBSET Nat, IsFiniteSet(ids), NEW cursor \in Nat
  PROVE  LET page == After(ids, cursor)
             last == Largest(page, cursor)
         IN last \in Nat /\ last >= cursor /\ \A i \in ids : i \in page <=> cursor < i /\ i <= last
<1> DEFINE page == After(ids, cursor)
           last == Largest(page, cursor)
           rest == {i \in ids : i > cursor}
           Below(i) == {j \in rest : j < i}
<1>1. page = {i \in rest : Cardinality(Below(i)) < PageSize} /\ PageSize \in Nat
  BY BoundsAssumption DEF After
<1>2. IsFiniteSet(rest)
  BY FS_Subset
<1>3. \A i \in rest : IsFiniteSet(Below(i)) /\ Cardinality(Below(i)) \in Nat
  BY <1>2, FS_Subset, FS_CardinalityType
<1>4. page \subseteq rest /\ page \in SUBSET Nat /\ IsFiniteSet(page)
  <2>1. page \subseteq rest
    BY <1>1
  <2>2. IsFiniteSet(page)
    BY <1>2, <2>1, FS_Subset
  <2> QED BY <2>1, <2>2
<1>5. (page = {} => last = cursor) /\ (page # {} => last \in page /\ \A j \in page : j <= last)
  <2> HIDE DEF page
  <2> QED BY <1>4, LargestIs
<1>6. ASSUME NEW i \in rest, page # {}, i <= last PROVE i \in page
  <2>1. last \in rest /\ last \in Nat /\ i \in Nat /\ Cardinality(Below(last)) < PageSize
    BY <1>1, <1>4, <1>5, <1>6
  <2>2. Below(i) \subseteq Below(last)
    <3>1. ASSUME NEW j \in rest, j < i PROVE j < last
      <4>1. j \in Nat
        OBVIOUS
      <4> HIDE DEF last, rest
      <4> QED BY <1>6, <2>1, <3>1, <4>1
    <3> QED BY <3>1
  <2>3. IsFiniteSet(Below(last)) /\ Cardinality(Below(i)) \in Nat /\ Cardinality(Below(last)) \in Nat
    BY <1>3, <2>1
  <2> HIDE DEF last, rest, Below, page
  <2>4. Cardinality(Below(i)) <= Cardinality(Below(last))
    BY <2>2, <2>3, FS_Subset
  <2> QED BY <1>1, <2>1, <2>3, <2>4
<1>7. last \in Nat /\ last >= cursor
  BY <1>4, <1>5
<1>8. ASSUME NEW i \in ids PROVE i \in page <=> cursor < i /\ i <= last
  <2>1. i \in page => cursor < i /\ i <= last
    BY <1>4, <1>5
  <2>2. cursor < i /\ i <= last => i \in page
    <3>1. CASE page = {}
      BY <1>5, <1>7, <3>1
    <3>2. CASE page # {}
      BY <1>6, <3>2
    <3> QED BY <3>1, <3>2
  <2> QED BY <2>1, <2>2
<1> QED BY <1>7, <1>8

(* The pages read so far are the beginning of what is there now: as they   *)
(* are when nothing changed since the first of them.                       *)
Static(r) ==
  /\ r.open = {t \in Live : t <= r.threads /\ threads[t] = "open"}
  /\ r.marks = {c \in comments : c.id <= r.comments}
  /\ r.threadsDone => \A t \in Live : t <= r.threads
  /\ r.commentsDone => \A c \in comments : c.id <= r.comments

\* The review evidence there is now.
Present == ReviewOf(threads, comments, col.pull.head)

\* Nothing is read yet.
LEMMA StaticEmpty ==
  ASSUME WorldOK
  PROVE  Static(NoReview)
<1>1. \A t \in Live : t \in Nat /\ t > 0
  BY EvidenceAssumption DEF Live
<1>2. \A c \in comments : c.id \in Nat /\ c.id > 0
  BY DEF WorldOK, CommentsOK, CommentOK
<1>3. /\ NoReview.open = {} /\ NoReview.marks = {} /\ NoReview.threads = 0 /\ NoReview.comments = 0
      /\ ~NoReview.threadsDone /\ ~NoReview.commentsDone
  BY DEF NoReview
<1> QED BY <1>1, <1>2, <1>3 DEF Static

\* One page more.
LEMMA StaticPage ==
  ASSUME WorldOK, PagesOK(col.review), Static(col.review)
  PROVE  Static(ReviewPage)
<1> DEFINE r   == ReviewPage
           old == col.review
           ids == {c.id : c \in comments}
<1>1. /\ r.threads = Largest(PageThreads, old.threads) /\ r.comments = Largest(PageComments, old.comments)
      /\ r.open = old.open \union {t \in PageThreads : threads[t] = "open"}
      /\ r.marks = old.marks \union {c \in comments : c.id \in PageComments}
      /\ r.threadsDone = (old.threadsDone \/ ~\E t \in Live : t > r.threads)
      /\ r.commentsDone = (old.commentsDone \/ ~\E c \in comments : c.id > r.comments)
  BY ReviewPageFields
<1> HIDE DEF r
<1>2. /\ old.threads \in Nat /\ old.comments \in Nat /\ old.threadsDone \in BOOLEAN /\ old.commentsDone \in BOOLEAN
      /\ Live \in SUBSET Nat /\ IsFiniteSet(Live) /\ ids \in SUBSET Nat /\ IsFiniteSet(ids)
  BY LiveType, CommentIds DEF PagesOK, WorldOK
<1>3. /\ r.threads \in Nat /\ r.threads >= old.threads /\ PageThreads \subseteq Live
      /\ \A t \in Live : t <= r.threads <=> t <= old.threads \/ t \in PageThreads
  <2>1. CASE old.threadsDone
    BY <1>1, <1>2, <2>1, LargestIs, FS_EmptySet DEF PageThreads, Static
  <2>2. CASE ~old.threadsDone
    <3>1. PageThreads = After(Live, old.threads)
      BY <2>2 DEF PageThreads
    <3>2. /\ r.threads \in Nat /\ r.threads >= old.threads
          /\ \A t \in Live : t \in PageThreads <=> old.threads < t /\ t <= r.threads
      BY <1>1, <1>2, <3>1, PageHolds
    <3>3. PageThreads \subseteq Live
      BY PageSets
    <3> QED BY <1>2, <3>2, <3>3
  <2> QED BY <1>2, <2>1, <2>2
<1>4. /\ r.comments \in Nat /\ r.comments >= old.comments
      /\ \A c \in comments : c.id <= r.comments <=> c.id <= old.comments \/ c.id \in PageComments
  <2>1. CASE old.commentsDone
    BY <1>1, <1>2, <2>1, LargestIs, FS_EmptySet DEF PageComments, Static
  <2>2. CASE ~old.commentsDone
    <3>1. PageComments = After(ids, old.comments)
      BY <2>2 DEF PageComments
    <3>2. /\ r.comments \in Nat /\ r.comments >= old.comments
          /\ \A i \in ids : i \in PageComments <=> old.comments < i /\ i <= r.comments
      <4>1. /\ r.comments = Largest(After(ids, old.comments), old.comments) /\ old.comments \in Nat
            /\ ids \in SUBSET Nat /\ IsFiniteSet(ids)
        BY <1>1, <1>2, <3>1
      <4> HIDE DEF ids, old
      <4> QED BY <3>1, <4>1, PageHolds
    <3>3. \A c \in comments : c.id \in ids /\ c.id \in Nat
      BY <1>2
    <3> QED BY <1>2, <3>2, <3>3
  <2> QED BY <1>2, <2>1, <2>2
<1>5. r.open = {t \in Live : t <= r.threads /\ threads[t] = "open"}
  BY <1>1, <1>3 DEF Static
<1>6. r.marks = {c \in comments : c.id <= r.comments}
  BY <1>1, <1>4 DEF Static
<1>7. r.threadsDone => \A t \in Live : t <= r.threads
  BY <1>1, <1>2, <1>3 DEF Static
<1>8. r.commentsDone => \A c \in comments : c.id <= r.comments
  <2>1. \A c \in comments : c.id \in Nat
    BY <1>2
  <2> QED BY <1>1, <1>2, <1>4, <2>1 DEF Static
<1> QED BY <1>5, <1>6, <1>7, <1>8 DEF Static, r

\* Pages that are the whole of what is there make its evidence.
LEMMA StaticFound ==
  ASSUME WorldOK, NEW r, Static(r), r.threadsDone, r.commentsDone
  PROVE  Found(r) = Present
<1> DEFINE th == [t \in Threads |-> IF t \in r.open THEN "open" ELSE "resolved"]
<1>1. /\ DOMAIN th = Threads /\ Open(th) = {t \in Threads : t \in r.open}
      /\ Found(r) = ReviewOf(th, r.marks, col.pull.head)
  BY DEF Found, Open
<1> HIDE DEF th
<1>2. DOMAIN threads = Threads
  BY DEF WorldOK, Boards
<1>3. Open(th) = Open(threads)
  <2>1. r.open = {t \in Live : threads[t] = "open"}
    BY DEF Static
  <2>2. \A t \in Threads : threads[t] = "open" => t \in Live
    BY DEF Live
  <2>3. Live \subseteq Threads
    BY DEF Live
  <2> QED BY <1>1, <2>1, <2>2, <2>3 DEF Open
<1>4. r.marks = comments
  BY DEF Static
<1>5. {t \in DOMAIN th : th[t] = "open"} = {t \in DOMAIN threads : threads[t] = "open"}
  BY <1>1, <1>2, <1>3 DEF Open
<1>6. ReviewOf(th, comments, col.pull.head) = ReviewOf(threads, comments, col.pull.head)
  BY <1>5 DEF ReviewOf
<1> QED BY <1>1, <1>4, <1>6 DEF Present

(* With one change of the threads or comments at most one of the passes is *)
(* of what stood still: either what the first one found is what there was  *)
(* between the passes, or that is what there still is, and the second pass *)
(* is of it.                                                               *)
ReviewInv ==
  /\ col.at \in {"pull", "runs", "listed"} => col.review = NoReview
  /\ col.pass = 1 /\ col.at = "review" /\ changes.review = 0 => Static(col.review)
  /\ col.pass = 2 /\ col.at \in {"runs", "listed", "review"} /\ changes.review < 2 =>
       \/ mid.review = col.found
       \/ /\ changes.review = 1 /\ mid.review = Present
          /\ col.at = "review" => Static(col.review)
  /\ col.at \in {"pull2", "done", "rejected"} /\ ~col.moved /\ changes.review < 2 => mid.review = col.found

\* A change of threads or comments is counted as one.
LEMMA ReviewCounted ==
  ASSUME TypeOK, ChangeThreads \/ ChangeComments
  PROVE  changes'.review = changes.review + 1 /\ changes.review \in Nat /\ col' = col /\ mid' = mid
         /\ col.at \notin {"pull", "done", "rejected"}
BY DEF ChangeThreads, ChangeComments, Counted, TypeOK, Changing, Ended

\* A page of the review, and the end of a pass over it.
LEMMA ReviewReadStep ==
  ASSUME TypeOK, ReviewInv, ReadReview, col' # Refused
  PROVE  ReviewInv'
<1>1. /\ DOMAIN col = Fields /\ col.at = "review" /\ WorldOK /\ PagesOK(col.review) /\ changes.review \in Nat
      /\ col.pass \in {1, 2} /\ changes' = changes /\ pull' = pull /\ threads' = threads /\ comments' = comments
  BY DEF ReadReview, world, At, TypeOK, ColOK
<1>2. \A r : Static(r)' <=> Static(r)
  BY <1>1 DEF Static, Live
<1>3. Static(col.review) => Static(ReviewPage)
  BY <1>1, StaticPage
<1>4. Static(ReviewPage) /\ ReviewPage.threadsDone /\ ReviewPage.commentsDone => Found(ReviewPage) = Present
  BY <1>1, StaticFound
<1>5. CASE mid' = mid /\ Only({"review"}) /\ col'.review = ReviewPage
  <2>1. col'.at = "review" /\ col'.pass = col.pass /\ col'.found = col.found /\ col'.pull = col.pull
    BY <1>1, <1>5 DEF Only, Fields
  <2>2. Present' = Present
    BY <1>1, <2>1 DEF Present
  <2> QED BY <1>1, <1>2, <1>3, <1>5, <2>1, <2>2 DEF ReviewInv
<1>6. CASE /\ mid' = World /\ col.pass = 1 /\ ReviewPage.threadsDone /\ ReviewPage.commentsDone
           /\ Only({"at", "pass", "review", "found"}) /\ col'.at = "runs" /\ col'.pass = 2
           /\ col'.review = NoReview /\ col'.found = Found(ReviewPage)
  <2>1. col'.pull = col.pull
    BY <1>6 DEF Only, Fields
  <2>2. Present' = Present /\ mid'.review = Present
    BY <1>1, <1>6, <2>1 DEF Present, World
  <2>3. changes.review = 0 => mid'.review = col'.found
    BY <1>1, <1>3, <1>4, <1>6, <2>2 DEF ReviewInv
  <2>4. changes'.review < 2 => changes.review = 0 \/ changes'.review = 1
    BY <1>1
  <2> QED BY <1>6, <2>2, <2>3, <2>4 DEF ReviewInv
<1>7. CASE /\ mid' = mid /\ col.pass # 1 /\ ReviewPage.threadsDone /\ ReviewPage.commentsDone
           /\ Only({"at", "review", "moved"}) /\ col'.at = "pull2"
           /\ col'.review = NoReview /\ col'.moved = (col.moved \/ ~SameReview(ReviewPage))
  <2>1. col'.found = col.found
    BY <1>7 DEF Only, Fields
  <2>2. ASSUME ~col'.moved, changes.review < 2 PROVE mid.review = col.found
    <3>1. Found(ReviewPage) = col.found
      BY <1>7, <2>2 DEF SameReview
    <3>2. mid.review = col.found \/ (mid.review = Present /\ Static(col.review))
      BY <1>1, <1>7, <2>2 DEF ReviewInv
    <3> QED BY <1>3, <1>4, <1>7, <3>1, <3>2
  <2> QED BY <1>1, <1>7, <2>1, <2>2 DEF ReviewInv
<1> QED BY <1>1, <1>5, <1>6, <1>7, ReadReviewMove

\* Each step keeps the evidence of the review.
LEMMA ReviewStep ==
  ASSUME TypeOK, ReviewInv, [Next]_vars
  PROVE  ReviewInv'
<1>0. DOMAIN col = Fields /\ WorldOK /\ changes.review \in Nat
  BY DEF TypeOK, ColOK
<1>1. CASE ChangeThreads \/ ChangeComments
  <2>1. changes'.review = changes.review + 1 /\ col' = col /\ mid' = mid /\ col.at \notin {"pull", "done", "rejected"}
    BY <1>1, ReviewCounted
  <2>2. changes'.review < 2 => changes.review = 0 /\ changes.review < 2 /\ changes'.review # 0
    BY <1>0, <2>1
  <2>3. changes'.review # 0
    BY <1>0, <2>1
  <2> QED BY <2>1, <2>2, <2>3 DEF ReviewInv
<1>2. ASSUME UNCHANGED <<threads, comments, mid>>, changes'.review = changes.review,
             \/ col'.at = col.at
             \/ col.at = "pull" /\ col'.at = "runs" /\ col.pass = 1
             \/ col.at \in {"runs", "listed"} /\ col'.at \in {"runs", "listed"}
             \/ col.at = "pull2" /\ col'.at \in {"done", "rejected"},
             col'.review = col.review, col'.pass = col.pass, col'.found = col.found, col'.moved = col.moved,
             col'.pull = col.pull \/ (col.at = "pull" /\ col.pass = 1)
      PROVE  ReviewInv'
  <2>1. Static(col.review)' <=> Static(col.review)
    BY <1>2 DEF Static, Live
  <2>2. col'.pull = col.pull => Present' = Present
    BY <1>2 DEF Present
  <2>3. CASE col'.at = col.at
    BY <1>2, <2>1, <2>2, <2>3 DEF ReviewInv
  <2>4. CASE col.at = "pull2" /\ col'.at \in {"done", "rejected"}
    BY <1>2, <2>4 DEF ReviewInv
  <2>5. CASE col.at = "pull" /\ col'.at = "runs"
    BY <1>2, <2>2, <2>5 DEF ReviewInv
  <2>6. CASE col.at \in {"runs", "listed"} /\ col'.at \in {"runs", "listed"}
    BY <1>2, <2>1, <2>2, <2>6 DEF ReviewInv
  <2> QED BY <1>2, <2>3, <2>4, <2>5, <2>6
<1>3. CASE ChangePull
  <2>1. changes'.review = changes.review
    BY <1>3 DEF ChangePull, Counted, TypeOK
  <2> QED BY <1>2, <1>3, <2>1 DEF ChangePull
<1>4. CASE ChangeRuns
  <2>1. changes'.review = changes.review
    BY <1>4 DEF ChangeRuns, Counted, TypeOK
  <2>2. Only({"runs"}) /\ UNCHANGED <<threads, comments, mid>>
    BY <1>0, <1>4, ChangeRunsMove DEF TypeOK, ColOK, ListingOK, ChangeRuns
  <2> QED BY <1>2, <2>1, <2>2 DEF Only, Fields
<1>5. CASE UNCHANGED vars
  BY <1>2, <1>5 DEF vars
<1>6. ASSUME col' = Refused PROVE ReviewInv'
  <2>1. col'.at = "refused"
    BY <1>0, <1>6, RefusedMove
  <2> QED BY <2>1 DEF ReviewInv
<1>7. CASE ReadPull
  <2>1. Only({"at", "pull"}) /\ col.at = "pull" /\ col'.at = "runs" /\ UNCHANGED <<threads, comments, mid, changes>>
    BY <1>0, <1>7, ReadPullMove DEF ReadPull, world
  <2>2. col.pass = 1
    BY <2>1 DEF TypeOK, ColOK
  <2> QED BY <1>2, <2>1, <2>2 DEF Only, Fields
<1>8. CASE ReadRuns /\ col' # Refused
  <2>1. /\ col.at = "runs" /\ UNCHANGED <<threads, comments, mid, changes>>
        /\ Only({"runs"}) \/ (Only({"at", "runs"}) /\ col'.at = "listed")
    BY <1>0, <1>8, ReadRunsMove DEF ReadRuns, world
  <2>2. /\ col'.review = col.review /\ col'.pass = col.pass /\ col'.found = col.found /\ col'.moved = col.moved
        /\ col'.pull = col.pull /\ (Only({"runs"}) => col'.at = col.at)
    BY <2>1 DEF Only, Fields
  <2> QED BY <1>2, <2>1, <2>2
<1>9. CASE KeepRuns
  <2>1. col.at = "listed" /\ col'.at = "review" /\ UNCHANGED <<threads, comments, mid, changes>>
    BY <1>0, <1>9, KeepRunsMove DEF KeepRuns, world
  <2>2. /\ col'.review = col.review /\ col'.pass = col.pass /\ col'.found = col.found /\ col'.pull = col.pull
    BY <1>0, <1>9, KeepRunsMove DEF Only, Fields
  <2>3. col.review = NoReview /\ Static(NoReview)
    BY <1>0, <2>1, StaticEmpty DEF ReviewInv
  <2>4. Static(col.review)'
    BY <2>1, <2>2, <2>3 DEF Static, Live
  <2>5. Present' = Present
    BY <2>1, <2>2 DEF Present
  <2> QED BY <2>1, <2>2, <2>4, <2>5 DEF ReviewInv
<1>10. CASE Finish /\ col' # Refused
  <2>1. /\ col.at = "pull2" /\ Only({"at", "document"}) /\ col'.at \in {"done", "rejected"}
        /\ UNCHANGED <<threads, comments, mid, changes>>
    BY <1>0, <1>10, FinishMove DEF Finish, world
  <2> QED BY <1>2, <2>1 DEF Only, Fields
<1> QED BY <1>1, <1>3, <1>4, <1>5, <1>6, <1>7, <1>8, <1>9, <1>10, ReviewReadStep DEF Next, Collect

\* ReviewInv holds throughout.
LEMMA ReviewHolds == Spec => []ReviewInv
<1>1. Init => ReviewInv
  BY DEF Init, ReviewInv
<1> QED BY <1>1, ReviewStep, TypeCorrect, PTL DEF Spec

------------------------------------------------------------------------------
(* Reports *)

\* A report is of one moment between the two passes: its Pull Request, its
\* checks if no run was deleted and times tell the runs of a workflow apart,
\* and its review if that changed once at most (_collect_evidence() twice).
THEOREM EvidenceAtOnceCorrect == Spec => []EvidenceAtOnce
<1>1. TypeOK /\ OutcomeInv /\ ChecksInv /\ ReviewInv => EvidenceAtOnce
  <2> SUFFICES ASSUME TypeOK, OutcomeInv, ChecksInv, ReviewInv, col.at = "done" PROVE EvidenceAtOnce
    BY DEF EvidenceAtOnce, At
  <2>1. col.pass = 2 /\ ~col.moved /\ mid.pull = col.pull
    BY DEF TypeOK, ColOK, MidOK, OutcomeInv
  <2> QED BY <2>1 DEF ChecksInv, ReviewInv, EvidenceAtOnce, PullAndChecksAtOnce, ReviewAtOnce
<1> QED BY <1>1, TypeCorrect, OutcomeHolds, ChecksHold, ReviewHolds, PTL

\* A count is positive or zero.
LEMMA NotPositive == \A n \in Nat : n > 0 \/ n = 0
OBVIOUS

\* Every record of a report has its section, a blocking finding is shown as
\* such, and what is shown as ready had passed its checks and was reviewed
\* (_status() through _section_for() of fleet_progress.py).
THEOREM ReportTrueCorrect == Spec => []ReportTrue
<1>1. TypeOK /\ OutcomeInv /\ EvidenceAtOnce => ReportTrue
  <2> SUFFICES ASSUME TypeOK, OutcomeInv, EvidenceAtOnce, col.at = "done" PROVE ReportTrue
    BY DEF ReportTrue, At
  <2> DEFINE first == col.document[1]
             head  == col.pull.head
  <2>1. /\ col.pull \in PullRecords /\ col.checks \in CheckRecords /\ ReviewOK(col.found) /\ MidOK
        /\ StatusOf(col.pull, col.checks, col.found) # None /\ col.document = DocumentOf(Report)
    BY DEF TypeOK, ColOK, OutcomeInv
  <2>2. mid.pull = col.pull /\ CommentsOK(mid.comments)
        /\ (changes.deleted = 0 /\ TimesTell => ChecksOf(mid.runs) = col.checks)
        /\ (changes.review < 2 => mid.review = col.found)
    BY <2>1 DEF EvidenceAtOnce, At, PullAndChecksAtOnce, ReviewAtOnce, MidOK
  <2>3. first = RecordOf(col.pull, col.checks, col.found, col.note)
    BY <2>1, DocumentRecords DEF Report
  <2>4. /\ SectionOf(first) # None
        /\ col.found.state = "blocked" => SectionOf(first) \in {"Human Action Required", "Blocked"}
    BY <2>1, <2>3, Shown
  <2>5. SectionOf(first) = "Ready to Merge" =>
          /\ col.pull.state = "open" /\ ~col.pull.draft /\ States(col.checks) \subseteq Passing
          /\ col.found.state = "clean" /\ col.found.unresolved = 0
    <3>1. SectionOf(RecordOf(col.pull, col.checks, col.found, col.note)) = "Ready to Merge" =>
            /\ col.pull.state = "open" /\ ~col.pull.draft /\ States(col.checks) \subseteq Passing
            /\ col.found.state = "clean" /\ col.found.unresolved = 0
      BY <2>1, ReadyMeans
    <3> HIDE DEF first
    <3> QED BY <2>3, <3>1
  <2> HIDE DEF first
  <2>6. PICK th \in Boards : mid.review = ReviewOf(th, mid.comments, head)
    BY <2>1 DEF MidOK
  <2>7. /\ mid.review.state = "blocked" <=> \E stage \in Stages : Count(mid.comments, head, stage, "blocked") > 0
        /\ mid.review.state = "clean" => CleanMarks(mid.comments, head)
    BY <2>6, ReviewCases DEF Boards
  <2>8. ASSUME NEW i \in DOMAIN col.document PROVE SectionOf(col.document[i]) # None
    <3>1. CASE i = 1
      BY <2>4, <3>1 DEF first
    <3>2. CASE i # 1
      <4>1. i - 1 \in DOMAIN Baselines /\ col.document[i] = BaselineRecord(Baselines[i - 1])
        BY <2>1, <3>2, DocumentRecords
      <4> QED BY <4>1, BaselineAccepted
    <3> QED BY <3>1, <3>2
  <2>9. FindingShown
    BY <2>2, <2>4, <2>7 DEF FindingShown, first
  <2>10. ReadyIsReady
    <3> SUFFICES ASSUME SectionOf(first) = "Ready to Merge"
                 PROVE  /\ mid.pull.state = "open" /\ ~mid.pull.draft
                        /\ changes.deleted = 0 /\ TimesTell => States(ChecksOf(mid.runs)) \subseteq Passing
                        /\ changes.review < 2 =>
                             /\ mid.review.unresolved = 0
                             /\ \A stage \in Stages : Count(mid.comments, head, stage, "blocked") = 0
                             /\ \A stage \in Stages \ Wanted : Count(mid.comments, head, stage, "clean") = 0
      BY <2>2 DEF ReadyIsReady, first
    <3>1. ASSUME changes.review < 2 PROVE mid.review.state = "clean" /\ mid.review.unresolved = 0
      BY <2>2, <2>5, <3>1
    <3>2. ASSUME changes.review < 2, NEW stage \in Stages PROVE Count(mid.comments, head, stage, "blocked") = 0
      <4>1. Count(mid.comments, head, stage, "blocked") \in Nat
        BY <2>2, CountType
      <4>2. ~(Count(mid.comments, head, stage, "blocked") > 0)
        BY <2>7, <3>1, <3>2
      <4> QED BY <4>1, <4>2, NotPositive
    <3>3. ASSUME changes.review < 2, NEW stage \in Stages \ Wanted PROVE Count(mid.comments, head, stage, "clean") = 0
      BY <2>7, <3>1, <3>3 DEF CleanMarks
    <3> QED BY <2>2, <2>5, <3>1, <3>2, <3>3
  <2> QED BY <2>8, <2>9, <2>10 DEF ReportTrue
<1> QED BY <1>1, TypeCorrect, OutcomeHolds, EvidenceAtOnceCorrect, PTL
==============================================================================
