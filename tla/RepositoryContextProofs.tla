----------------------- MODULE RepositoryContextProofs -----------------------
(***************************************************************************)
(* What holds of maps, impacts and packages for any commits, refs, queries *)
(* and sessions, with any number of changes by others.                     *)
(*                                                                         *)
(* A run is a line of places with a round of looks at the refs before some *)
(* of them (StageOK); what was checked or computed at one place is still   *)
(* so at every later one (CheckedOK, PackageOK), and what was found of a   *)
(* ref is so or the next look refuses it (HeldOK).  An impact is computed  *)
(* by a recursive function, whose values are found by induction (NatSet).  *)
(***************************************************************************)
EXTENDS RepositoryContext, TLAPS, WellFoundedInduction, FiniteSetTheorems

Fields == {"at", "mode", "commit", "session", "query", "scope", "round", "anchors", "todo",
           "map", "impact", "files", "package", "read", "moved"}
Ended  == {"idle", "refused"}
Things == {"remote", "baseline", "head", "workspace"}
Worlds == [baseline : Commits \union {None}, head : Commits \union {None}, remote : BOOLEAN]

TypeOK ==
  /\ DOMAIN run = Fields
  /\ run.at \in Ended => run = [Idle EXCEPT !.at = run.at]
  /\ run.at \notin Ended => run.commit \in Commits
  /\ repo \in Worlds /\ workspace \in BOOLEAN

(* The places of a run and the looks at the refs before them.              *)
StageOK ==
  /\ run.round \in 1..6 /\ run.mode \in {"attached", "detached", "assisted"}
  /\ run.at \in Ended \union {"before", "remote", "baseline", "head", "list", "python", "call",
                              "select", "blobs", "identity", "after", "done"}
  /\ run.at \in {"before", "identity", "after"} => run.mode = "assisted"
  /\ run.at \in {"remote", "baseline"} => run.mode # "attached"
  /\ run.mode = "attached" =>
       /\ run.round \in {1, 3}
       /\ run.at = "call" => run.round = 1
       /\ run.at \in {"select", "blobs", "done"} => run.round = 3
  /\ run.mode # "attached" =>
       /\ run.at = "before" => run.round = 1
       /\ run.at \in {"list", "python"} => run.round \in {1, 3}
       /\ run.at = "call" => run.round = 2
       /\ run.at = "select" => run.round = 4
       /\ run.at = "blobs" => run.round = 5
       /\ run.at \in {"identity", "after", "done"} => run.round = 6

(* What the caller passed.                                                 *)
CallerOK ==
  /\ run.mode = "assisted" =>
       /\ run.session \in Sessions /\ SessionAccepted(run.session)
       /\ run.commit = Requests[run.session.git].base
  /\ run.round >= 3 => run.query \in Queries

MapMade  == run.round > 1 \/ run.at = "call"
Selected == run.round > 4 \/ run.at \in {"blobs", "done"}
IsSealed == run.round = 6 \/ run.at = "done"

(* The commit was accepted and its Python parsed before a map is made.     *)
CheckedOK ==
  /\ run.at = "python" \/ MapMade => TrackedAccepted(Tree) /\ ModulesDistinct(Tree)
  /\ run.at = "python" =>
       /\ run.todo \subseteq {f.path : f \in Python(Tree)}
       /\ \A f \in Python(Tree) : f.path \in run.todo \/ Parses(f)
  /\ MapMade => \A f \in Python(Tree) : Parses(f)

FilesOf(map, paths) == {[path |-> p, blob |-> map.entries[p].blob] : p \in paths}

(* From the selection on the map is the commit's own and the impact that   *)
(* of the query; the files are those of the impact read so far.            *)
PackageOK ==
  /\ ~Selected => run.files = {}
  /\ Selected =>
       /\ Rebuilt /\ QueryAccepted(run.map, run.query)
       /\ run.impact = Impact(run.map, run.query) /\ run.impact # None
       /\ run.todo \subseteq AllPaths(run.impact)
       /\ run.files = FilesOf(run.map, AllPaths(run.impact) \ run.todo)
  /\ IsSealed =>
       /\ run.todo = {}
       /\ run.package = PackageFor(run.map, run.impact, run.scope, run.files)
  /\ run.at \in {"after", "done"} /\ run.mode = "assisted" =>
       run.scope = Requests[run.session.request].allowed

(* A baseline that is neither absent nor the commit is refused with HEAD.  *)
Doomed == run.at = "head" /\ ~(run.anchors \subseteq {None, run.commit})

(* What was read is as it was, or is later than the commit and will be     *)
(* seen to be; nothing is relied on once it was read for the last time.    *)
HeldOK ==
  /\ run.read \subseteq Things
  /\ run.moved \subseteq run.read \union (IF Doomed THEN {"baseline"} ELSE {})
  /\ "remote" \in run.moved => repo.remote
  /\ "workspace" \in run.moved => ~workspace
  /\ "head" \in run.read => repo.head = None \/ repo.head >= run.commit
  /\ "head" \in run.moved => repo.head # None /\ repo.head > run.commit
  /\ ~Doomed =>
       /\ "baseline" \in run.read => repo.baseline = None \/ repo.baseline >= run.commit
       /\ "baseline" \in run.moved => repo.baseline # None /\ repo.baseline > run.commit
  /\ run.mode = "attached" => run.read \subseteq {"head"}
  /\ run.mode = "detached" => run.read \subseteq {"remote", "baseline", "head"}
  /\ run.mode = "attached" /\ run.round = 3 /\ run.at # "head" => run.read = {}
  /\ run.mode # "attached" /\ run.round = 6 =>
       /\ run.at \in {"baseline", "head"} => "remote" \notin run.read
       /\ run.at = "head" => "baseline" \notin run.read
       /\ run.at \in {"identity", "after", "done"} => run.read \subseteq {"workspace"}
       /\ run.at = "done" => run.read = {}

Inv == TypeOK /\ StageOK /\ CallerOK /\ CheckedOK /\ PackageOK /\ HeldOK

------------------------------------------------------------------------------
(* What the steps do *)

Kept(names) == \A f \in Fields \ names : run'[f] = run[f]
Others == UNCHANGED <<repo, store, workspace, changes>>

\* A new look at the refs begins with nothing found.
LEMMA AnchoringIs ==
  ASSUME NEW r, DOMAIN r = Fields, NEW n
  PROVE  /\ DOMAIN Anchoring(r, n) = Fields
         /\ Anchoring(r, n).at = IF r.mode = "attached" THEN "head" ELSE "remote"
         /\ Anchoring(r, n).round = n /\ Anchoring(r, n).anchors = {}
         /\ \A f \in Fields \ {"at", "round", "anchors"} : Anchoring(r, n)[f] = r[f]
BY DEF Anchoring, Fields

\* Where a look at the refs goes on.
Onward(mode, round) ==
  IF round \in {1, 3} THEN "list"
  ELSE IF round = 2 THEN "call"
  ELSE IF round = 4 THEN "select"
  ELSE IF round = 5 THEN "blobs"
  ELSE IF mode = "assisted" THEN "identity" ELSE "done"

LEMMA AnchoredIs ==
  ASSUME NEW r, DOMAIN r = Fields, r.round \in 1..6
  PROVE  /\ DOMAIN Anchored(r) = Fields
         /\ Anchored(r).at = Onward(r.mode, r.round)
         /\ \A f \in Fields \ {"at"} : Anchored(r)[f] = r[f]
<1>1. r.round = 1 \/ r.round = 2 \/ r.round = 3 \/ r.round = 4 \/ r.round = 5 \/ r.round = 6
  OBVIOUS
<1>2. CASE r.round \in {1, 3}
  BY <1>2 DEF Anchored, Onward, Fields
<1>3. CASE r.round = 2
  BY <1>3 DEF Anchored, Onward, Fields
<1>4. CASE r.round = 4
  BY <1>4 DEF Anchored, Onward, Fields
<1>5. CASE r.round = 5
  BY <1>5 DEF Anchored, Onward, Fields
<1>6. CASE r.round = 6
  BY <1>6 DEF Anchored, Onward, Fields
<1> QED BY <1>1, <1>2, <1>3, <1>4, <1>5, <1>6

\* A refused run holds nothing.
LEMMA RefuseKeeps ==
  ASSUME Inv, Refuse
  PROVE  Inv'
<1>1. run' = [Idle EXCEPT !.at = "refused"] /\ repo' = repo /\ workspace' = workspace
  BY DEF Refuse, Step
<1>2. /\ DOMAIN run' = Fields /\ run'.at = "refused" /\ run'.mode = "attached" /\ run'.round = 1
      /\ run'.files = {} /\ run'.read = {} /\ run'.moved = {}
  BY <1>1 DEF Idle, Fields
<1>3. run'= [Idle EXCEPT !.at = run'.at]
  BY <1>1, <1>2
<1>4. TypeOK'
  BY <1>1, <1>2, <1>3 DEF Inv, TypeOK, Ended
<1>5. StageOK' /\ CallerOK'
  BY <1>2 DEF StageOK, CallerOK, Ended
<1>6. CheckedOK' /\ PackageOK'
  BY <1>2 DEF CheckedOK, PackageOK, MapMade, Selected, IsSealed
<1>7. HeldOK'
  BY <1>2 DEF HeldOK, Doomed
<1> QED BY <1>4, <1>5, <1>6, <1>7 DEF Inv

\* Starting.
LEMMA StartMapStep ==
  ASSUME TypeOK, NEW mode, NEW commit \in Commits, StartMap(mode, commit)
  PROVE  /\ run.at = "idle" /\ mode \in {"attached", "detached"} /\ Others
         /\ DOMAIN run' = Fields /\ run'.mode = mode /\ run'.commit = commit
         /\ run'.at = IF mode = "attached" THEN "head" ELSE "remote"
         /\ run'.round = 1 /\ run'.anchors = {}
         /\ Kept({"at", "mode", "commit", "round", "anchors"})
<1> DEFINE r == [run EXCEPT !.mode = mode, !.commit = commit]
<1>1. /\ DOMAIN r = Fields /\ r.mode = mode /\ r.commit = commit
      /\ \A f \in Fields \ {"mode", "commit"} : r[f] = run[f]
  BY DEF TypeOK, Fields
<1>2. run' = Anchoring(r, 1) /\ run.at = "idle" /\ mode \in {"attached", "detached"} /\ Others
  BY DEF StartMap, Step, At, Others
<1> HIDE DEF r
<1>3. run'.mode = r.mode /\ run'.commit = r.commit
  BY <1>1, <1>2, AnchoringIs DEF Fields
<1> QED BY <1>1, <1>2, <1>3, AnchoringIs DEF Kept

LEMMA StartAssistedStep ==
  ASSUME TypeOK, NEW session, StartAssisted(session)
  PROVE  \/ Refuse
         \/ /\ run.at = "idle" /\ SessionAccepted(session) /\ Others
            /\ DOMAIN run' = Fields /\ run'.at = "before" /\ run'.mode = "assisted"
            /\ run'.session = session /\ run'.commit = Requests[session.git].base
            /\ Kept({"at", "mode", "session", "commit"})
BY DEF StartAssisted, Unless, Step, At, Others, TypeOK, Kept, Fields

\* Looks at the workspace and the refs.
LEMMA UnchangedStep ==
  ASSUME TypeOK, Unchanged
  PROVE  \/ Refuse
         \/ /\ workspace /\ Others /\ DOMAIN run' = Fields
            /\ \/ /\ run.at = "before" /\ run'.read = run.read \union {"workspace"}
                  /\ run'.at = IF run.mode = "attached" THEN "head" ELSE "remote"
                  /\ run'.round = 1 /\ run'.anchors = {}
                  /\ Kept({"at", "round", "anchors", "read"})
               \/ /\ run.at = "after" /\ run'.read = run.read \ {"workspace"}
                  /\ run'.at = "done"
                  /\ Kept({"at", "read"})
<1> SUFFICES ASSUME ~Refuse PROVE /\ workspace /\ Others /\ DOMAIN run' = Fields
            /\ \/ /\ run.at = "before" /\ run'.read = run.read \union {"workspace"}
                  /\ run'.at = IF run.mode = "attached" THEN "head" ELSE "remote"
                  /\ run'.round = 1 /\ run'.anchors = {}
                  /\ Kept({"at", "round", "anchors", "read"})
               \/ /\ run.at = "after" /\ run'.read = run.read \ {"workspace"}
                  /\ run'.at = "done"
                  /\ Kept({"at", "read"})
  OBVIOUS
<1> DEFINE early == Noted(run, "workspace", FALSE)
           late  == Noted(run, "workspace", TRUE)
<1>1. DOMAIN run = Fields
  BY DEF TypeOK
<1>2. CASE At("before")
  <2>1. run' = Anchoring(early, 1) /\ workspace /\ Others
    BY <1>2 DEF Unchanged, Unless, Step, Others, At
  <2>2. /\ DOMAIN early = Fields /\ early.read = run.read \union {"workspace"}
        /\ \A f \in Fields \ {"read"} : early[f] = run[f]
    BY <1>1 DEF Noted, Fields
  <2> HIDE DEF early
  <2>3. run'.read = early.read /\ early.mode = run.mode
    BY <2>1, <2>2, AnchoringIs DEF Fields
  <2> QED BY <1>2, <2>1, <2>2, <2>3, AnchoringIs DEF Kept, At
<1>3. CASE At("after")
  <2>1. run' = [late EXCEPT !.at = "done"] /\ workspace /\ Others
    BY <1>3 DEF Unchanged, Unless, Step, Others, At
  <2>2. /\ DOMAIN late = Fields /\ late.read = run.read \ {"workspace"}
        /\ \A f \in Fields \ {"read"} : late[f] = run[f]
    BY <1>1 DEF Noted, Fields
  <2> HIDE DEF late
  <2>3. DOMAIN run' = Fields /\ run'.at = "done" /\ \A f \in Fields \ {"at"} : run'[f] = late[f]
    BY <2>1, <2>2 DEF Fields
  <2>4. run'.read = late.read
    BY <2>3 DEF Fields
  <2> QED BY <1>3, <2>1, <2>2, <2>3, <2>4 DEF Kept, At
<1> QED BY <1>2, <1>3 DEF Unchanged

\* After the last look at a thing it is not relied on any more.
Looked(thing) ==
  run'.read = IF LastRound THEN run.read \ {thing} ELSE run.read \union {thing}

LEMMA ReadRemoteStep ==
  ASSUME TypeOK, ReadRemote
  PROVE  \/ Refuse
         \/ /\ run.at = "remote" /\ ~repo.remote /\ Others
            /\ DOMAIN run' = Fields /\ run'.at = "baseline" /\ Looked("remote")
            /\ Kept({"at", "read"})
<1> DEFINE r == Noted(run, "remote", LastRound)
<1>1. /\ DOMAIN r = Fields /\ r.read = IF LastRound THEN run.read \ {"remote"} ELSE run.read \union {"remote"}
      /\ \A f \in Fields \ {"read"} : r[f] = run[f]
  BY DEF Noted, TypeOK, Fields
<1>2. Refuse \/ (run' = [r EXCEPT !.at = "baseline"] /\ run.at = "remote" /\ ~repo.remote /\ Others)
  BY DEF ReadRemote, Unless, Step, At, Others
<1> HIDE DEF r
<1> QED BY <1>1, <1>2 DEF Looked, Kept, Fields

LEMMA ReadBaselineStep ==
  ASSUME TypeOK, ReadBaseline
  PROVE  /\ run.at = "baseline" /\ Others
         /\ DOMAIN run' = Fields /\ run'.at = "head" /\ Looked("baseline")
         /\ run'.anchors = {repo.baseline}
         /\ Kept({"at", "read", "anchors"})
<1> DEFINE r == Noted(run, "baseline", LastRound)
<1>1. /\ DOMAIN r = Fields /\ r.read = IF LastRound THEN run.read \ {"baseline"} ELSE run.read \union {"baseline"}
      /\ \A f \in Fields \ {"read"} : r[f] = run[f]
  BY DEF Noted, TypeOK, Fields
<1>2. run' = [r EXCEPT !.at = "head", !.anchors = {repo.baseline}] /\ run.at = "baseline" /\ Others
  BY DEF ReadBaseline, Step, At, Others
<1> HIDE DEF r
<1> QED BY <1>1, <1>2 DEF Looked, Kept, Fields

LEMMA ReadHeadStep ==
  ASSUME TypeOK, StageOK, ReadHead
  PROVE  \/ Refuse
         \/ /\ run.at = "head" /\ ~NotAnchored(repo.head) /\ Others
            /\ DOMAIN run' = Fields /\ run'.at = Onward(run.mode, run.round) /\ Looked("head")
            /\ Kept({"at", "read"})
<1> DEFINE r == Noted(run, "head", LastRound)
<1>1. /\ DOMAIN r = Fields /\ r.read = IF LastRound THEN run.read \ {"head"} ELSE run.read \union {"head"}
      /\ \A f \in Fields \ {"read"} : r[f] = run[f]
  BY DEF Noted, TypeOK, Fields
<1>2. Refuse \/ (run' = Anchored(r) /\ run.at = "head" /\ ~NotAnchored(repo.head) /\ Others)
  BY DEF ReadHead, Unless, Step, At, Others
<1> HIDE DEF r
<1>3. r.round = run.round /\ r.mode = run.mode /\ run.round \in 1..6
  BY <1>1 DEF Fields, StageOK
<1>4. /\ DOMAIN Anchored(r) = Fields /\ Anchored(r).at = Onward(run.mode, run.round)
      /\ \A f \in Fields \ {"at"} : Anchored(r)[f] = r[f]
  BY <1>1, <1>3, AnchoredIs
<1>5. Anchored(r).read = r.read
  BY <1>4 DEF Fields
<1> QED BY <1>1, <1>2, <1>4, <1>5 DEF Looked, Kept

\* A thing that gave no answer is relied on as little as before.
Missed(thing) ==
  /\ run'.read = IF LastRound THEN run.read \ {thing} ELSE run.read
  /\ run'.moved = run.moved \ {thing}

LEMMA RefUnreadStep ==
  ASSUME TypeOK, StageOK, RefUnread
  PROVE  /\ run.mode # "attached" /\ DOMAIN run' = Fields
         /\ UNCHANGED <<repo, store, workspace>>
         /\ Kept({"at", "read", "moved"})
         /\ \/ run.at = "baseline" /\ run'.at = "head" /\ Missed("baseline")
            \/ /\ run.at = "head" /\ ~NotAnchored(None)
               /\ run'.at = Onward(run.mode, run.round) /\ Missed("head")
<1> DEFINE r(thing) == Unread(run, thing, LastRound)
<1>1. ASSUME NEW thing
      PROVE  /\ DOMAIN r(thing) = Fields
             /\ r(thing).read = IF LastRound THEN run.read \ {thing} ELSE run.read
             /\ r(thing).moved = run.moved \ {thing}
             /\ \A f \in Fields \ {"read", "moved"} : r(thing)[f] = run[f]
  BY DEF Unread, TypeOK, Fields
<1>2. run.mode # "attached" /\ UNCHANGED <<repo, store, workspace>>
  BY DEF RefUnread
<1>3. \/ run.at = "baseline" /\ run' = [r("baseline") EXCEPT !.at = "head"]
      \/ run.at = "head" /\ ~NotAnchored(None) /\ run' = Anchored(r("head"))
  BY DEF RefUnread, At
<1> HIDE DEF r
<1>4. CASE run.at = "baseline" /\ run' = [r("baseline") EXCEPT !.at = "head"]
  <2>1. /\ DOMAIN r("baseline") = Fields
        /\ r("baseline").read = IF LastRound THEN run.read \ {"baseline"} ELSE run.read
        /\ r("baseline").moved = run.moved \ {"baseline"}
        /\ \A f \in Fields \ {"read", "moved"} : r("baseline")[f] = run[f]
    BY <1>1
  <2> QED BY <1>2, <1>4, <2>1 DEF Missed, Kept, Fields
<1>5. CASE run.at = "head" /\ ~NotAnchored(None) /\ run' = Anchored(r("head"))
  <2>1. /\ DOMAIN r("head") = Fields
        /\ r("head").read = IF LastRound THEN run.read \ {"head"} ELSE run.read
        /\ r("head").moved = run.moved \ {"head"}
        /\ \A f \in Fields \ {"read", "moved"} : r("head")[f] = run[f]
    BY <1>1
  <2>2. r("head").round = run.round /\ r("head").mode = run.mode /\ run.round \in 1..6
    BY <2>1 DEF Fields, StageOK
  <2>3. /\ DOMAIN run' = Fields /\ run'.at = Onward(run.mode, run.round)
        /\ \A f \in Fields \ {"at"} : run'[f] = r("head")[f]
    BY <1>5, <2>1, <2>2, AnchoredIs
  <2>4. run'.read = r("head").read /\ run'.moved = r("head").moved
    BY <2>3 DEF Fields
  <2> QED BY <1>2, <1>5, <2>1, <2>3, <2>4 DEF Missed, Kept
<1> QED BY <1>3, <1>4, <1>5

\* Making a map.
LEMMA ListStep ==
  ASSUME TypeOK, List
  PROVE  \/ Refuse
         \/ /\ run.at = "list" /\ TrackedAccepted(Tree) /\ ModulesDistinct(Tree) /\ Others
            /\ DOMAIN run' = Fields /\ run'.at = "python" /\ run'.todo = {f.path : f \in Python(Tree)}
            /\ Kept({"at", "todo"})
BY DEF List, Unless, Step, At, Others, TypeOK, Kept, Fields

LEMMA ReadPythonStep ==
  ASSUME TypeOK, ReadPython
  PROVE  \/ Refuse
         \/ /\ run.at = "python" /\ Others /\ DOMAIN run' = Fields
            /\ Kept({"todo"})
            /\ \E p \in run.todo :
                 run'.todo = run.todo \ {FileAt(Tree, p).path} /\ Parses(FileAt(Tree, p))
<1> DEFINE p == CHOOSE p \in run.todo : TRUE
           f == FileAt(Tree, p)
<1>1. p \in run.todo /\ run.at = "python"
  BY DEF ReadPython, At
<1>2. Refuse \/ (Others /\ Parses(f) /\ run' = [run EXCEPT !.todo = @ \ {f.path}])
  BY DEF ReadPython, Unless, Step, Others
<1>3. CASE Refuse
  BY <1>3
<1>4. CASE Others /\ Parses(f) /\ run' = [run EXCEPT !.todo = @ \ {f.path}]
  <2> HIDE DEF p
  <2>1. DOMAIN run' = Fields /\ run'.todo = run.todo \ {f.path} /\ Kept({"todo"})
    BY <1>4 DEF TypeOK, Kept, Fields
  <2> QED BY <1>1, <1>4, <2>1
<1> QED BY <1>2, <1>3, <1>4

LEMMA MakeMapStep ==
  ASSUME TypeOK, StageOK, MakeMap
  PROVE  \/ Refuse
         \/ /\ run.at = "python" /\ run.todo = {} /\ Others /\ DOMAIN run' = Fields
            /\ \/ /\ run.mode # "attached" /\ run'.at = "remote"
                  /\ run'.round = run.round + 1 /\ run'.anchors = {}
                  /\ Kept({"at", "round", "anchors", "map"})
               \/ /\ run.mode = "attached"
                  /\ run'.at = IF run.round = 1 THEN "call" ELSE "select"
                  /\ Kept({"at", "map"})
<1> DEFINE r == [run EXCEPT !.map = IF run.round = 1 THEN MapOf(run.commit, Tree) ELSE @]
<1>1. Refuse \/ (run' = Mapped(r) /\ Others)
  BY DEF MakeMap, Unless, Step, Others
<1>2. run.at = "python" /\ run.todo = {}
  BY DEF MakeMap, At
<1>3. DOMAIN r = Fields /\ \A f \in Fields \ {"map"} : r[f] = run[f]
  BY DEF TypeOK, Fields
<1> HIDE DEF r
<1>4. r.mode = run.mode /\ r.round = run.round
  BY <1>3 DEF Fields
<1>5. CASE Refuse
  BY <1>5
<1>6. CASE run' = Mapped(r) /\ Others /\ run.mode # "attached"
  <2>1. run' = Anchoring(r, run.round + 1)
    BY <1>4, <1>6 DEF Mapped
  <2> QED BY <1>2, <1>3, <1>4, <1>6, <2>1, AnchoringIs DEF Kept
<1>7. CASE run' = Mapped(r) /\ Others /\ run.mode = "attached"
  <2>1. run' = [r EXCEPT !.at = IF run.round = 1 THEN "call" ELSE "select"]
    BY <1>4, <1>7 DEF Mapped
  <2> QED BY <1>2, <1>3, <1>7, <2>1 DEF Kept, Fields
<1> QED BY <1>1, <1>5, <1>6, <1>7

\* Making a package.
LEMMA PassStep ==
  ASSUME TypeOK, NEW query, NEW scope, Pass(query, scope)
  PROVE  \/ Refuse
         \/ /\ run.at = "call" /\ Others /\ DOMAIN run' = Fields
            /\ run.mode = "assisted" => scope = Requests[run.session.request].allowed
            /\ run'.query = query /\ run'.scope = scope
            /\ run'.at = IF run.mode = "attached" THEN "head" ELSE "remote"
            /\ run'.round = 3 /\ run'.anchors = {}
            /\ Kept({"at", "round", "anchors", "query", "scope"})
<1> DEFINE r == [run EXCEPT !.query = query, !.scope = scope]
<1>1. Refuse \/ (run' = Anchoring(r, 3) /\ Others)
  BY DEF Pass, Unless, Step, Others
<1>2. run.at = "call" /\ (run.mode = "assisted" => scope = Requests[run.session.request].allowed)
  BY DEF Pass, At
<1>3. /\ DOMAIN r = Fields /\ r.query = query /\ r.scope = scope
      /\ \A f \in Fields \ {"query", "scope"} : r[f] = run[f]
  BY DEF TypeOK, Fields
<1> HIDE DEF r
<1>4. r.mode = run.mode
  BY <1>3 DEF Fields
<1>5. CASE run' = Anchoring(r, 3) /\ Others
  <2>1. run'.query = r.query /\ run'.scope = r.scope
    BY <1>3, <1>5, AnchoringIs DEF Fields
  <2> QED BY <1>2, <1>3, <1>4, <1>5, <2>1, AnchoringIs DEF Kept
<1> QED BY <1>1, <1>5

LEMMA SelectStep ==
  ASSUME TypeOK, Select
  PROVE  \/ Refuse
         \/ /\ run.at = "select" /\ Rebuilt /\ QueryAccepted(run.map, run.query)
            /\ run'.impact = Impact(run.map, run.query) /\ run'.impact # None
            /\ run'.todo = AllPaths(run'.impact)
            /\ Others /\ DOMAIN run' = Fields
            /\ \/ /\ run.mode # "attached" /\ run'.at = "remote"
                  /\ run'.round = 5 /\ run'.anchors = {}
                  /\ Kept({"at", "round", "anchors", "impact", "todo"})
               \/ /\ run.mode = "attached" /\ run'.at = "blobs"
                  /\ Kept({"at", "impact", "todo"})
<1> DEFINE found == Impact(run.map, run.query)
           r == [run EXCEPT !.impact = found, !.todo = AllPaths(found)]
<1>1. run.at = "select"
  BY DEF Select, At
<1>2. \/ Refuse
      \/ /\ Rebuilt /\ QueryAccepted(run.map, run.query) /\ found # None /\ Others
         /\ run' = IF run.mode = "attached"
                     THEN [run EXCEPT !.at = "blobs", !.impact = found, !.todo = AllPaths(found)]
                     ELSE Anchoring(r, 5)
  BY DEF Select, Unless, Step, Others
<1> HIDE DEF found
<1>3. /\ DOMAIN r = Fields /\ r.impact = found /\ r.todo = AllPaths(found)
      /\ \A f \in Fields \ {"impact", "todo"} : r[f] = run[f]
  BY DEF TypeOK, Fields
<1>4. CASE /\ Rebuilt /\ QueryAccepted(run.map, run.query) /\ found # None /\ Others
           /\ run.mode = "attached"
           /\ run' = [run EXCEPT !.at = "blobs", !.impact = found, !.todo = AllPaths(found)]
  <2>1. /\ DOMAIN run' = Fields /\ run'.at = "blobs" /\ run'.impact = found
        /\ run'.todo = AllPaths(found) /\ Kept({"at", "impact", "todo"})
    BY <1>4 DEF TypeOK, Fields, Kept
  <2> QED BY <1>1, <1>4, <2>1 DEF found
<1>5. CASE /\ Rebuilt /\ QueryAccepted(run.map, run.query) /\ found # None /\ Others
           /\ run.mode # "attached" /\ run' = Anchoring(r, 5)
  <2> HIDE DEF r
  <2>1. r.mode = run.mode
    BY <1>3 DEF Fields
  <2>2. run'.impact = r.impact /\ run'.todo = r.todo
    BY <1>3, <1>5, AnchoringIs DEF Fields
  <2>3. /\ DOMAIN run' = Fields /\ run'.at = "remote" /\ run'.round = 5 /\ run'.anchors = {}
        /\ Kept({"at", "round", "anchors", "impact", "todo"})
    BY <1>3, <1>5, <2>1, AnchoringIs DEF Kept
  <2> QED BY <1>1, <1>3, <1>5, <2>2, <2>3 DEF found
<1> QED BY <1>2, <1>4, <1>5

LEMMA ReadBlobStep ==
  ASSUME TypeOK, ReadBlob
  PROVE  \/ Refuse
         \/ /\ run.at = "blobs" /\ Others /\ DOMAIN run' = Fields
            /\ Kept({"todo", "files"})
            /\ \E p \in run.todo :
                 /\ run'.todo = run.todo \ {p}
                 /\ run'.files = run.files \union {[path |-> p, blob |-> run.map.entries[p].blob]}
<1> DEFINE p == CHOOSE p \in run.todo : TRUE
           blob == run.map.entries[p].blob
           files == run.files \union {[path |-> p, blob |-> store[blob]]}
<1>1. p \in run.todo /\ run.at = "blobs"
  BY DEF ReadBlob, At
<1>2. \/ Refuse
      \/ Others /\ Intact(blob) /\ run' = [run EXCEPT !.todo = @ \ {p}, !.files = files]
  BY DEF ReadBlob, Unless, Step, Others
<1>3. CASE Others /\ Intact(blob) /\ run' = [run EXCEPT !.todo = @ \ {p}, !.files = files]
  <2>1. store[blob] = blob
    BY <1>3 DEF Intact
  <2>2. files = run.files \union {[path |-> p, blob |-> run.map.entries[p].blob]}
    BY <2>1
  <2> HIDE DEF p, files
  <2>3. DOMAIN run' = Fields /\ run'.todo = run.todo \ {p} /\ run'.files = files /\ Kept({"todo", "files"})
    BY <1>3 DEF TypeOK, Kept, Fields
  <2> QED BY <1>1, <1>3, <2>2, <2>3
<1> QED BY <1>2, <1>3

LEMMA SealStep ==
  ASSUME TypeOK, Seal
  PROVE  /\ run.at = "blobs" /\ run.todo = {} /\ Others /\ DOMAIN run' = Fields
         /\ run'.package = PackageFor(run.map, run.impact, run.scope, run.files)
         /\ \/ /\ run.mode # "attached" /\ run'.at = "remote"
               /\ run'.round = 6 /\ run'.anchors = {}
               /\ Kept({"at", "round", "anchors", "package"})
            \/ /\ run.mode = "attached" /\ run'.at = "done"
               /\ Kept({"at", "package"})
<1> DEFINE made == PackageFor(run.map, run.impact, run.scope, run.files)
           r == [run EXCEPT !.package = made]
<1>1. run.at = "blobs" /\ run.todo = {} /\ run' = Sealed(r) /\ Others
  BY DEF Seal, Step, At, Others
<1> HIDE DEF made
<1>2. DOMAIN r = Fields /\ r.package = made /\ \A f \in Fields \ {"package"} : r[f] = run[f]
  BY DEF TypeOK, Fields
<1> HIDE DEF r
<1>3. r.mode = run.mode
  BY <1>2 DEF Fields
<1>4. CASE run.mode = "attached"
  <2>1. run' = [r EXCEPT !.at = "done"]
    BY <1>1, <1>3, <1>4 DEF Sealed
  <2>2. DOMAIN run' = Fields /\ run'.at = "done" /\ run'.package = made /\ Kept({"at", "package"})
    BY <1>2, <2>1 DEF Kept, Fields
  <2> QED BY <1>1, <1>4, <2>2 DEF made
<1>5. CASE run.mode # "attached"
  <2>1. run' = Anchoring(r, 6)
    BY <1>1, <1>3, <1>5 DEF Sealed
  <2>2. run'.package = r.package
    BY <1>2, <2>1, AnchoringIs DEF Fields
  <2>3. /\ DOMAIN run' = Fields /\ run'.at = "remote" /\ run'.round = 6 /\ run'.anchors = {}
        /\ Kept({"at", "round", "anchors", "package"})
    BY <1>2, <1>3, <1>5, <2>1, AnchoringIs DEF Kept
  <2> QED BY <1>1, <1>2, <1>5, <2>2, <2>3 DEF made
<1> QED BY <1>4, <1>5

LEMMA IdentityStep ==
  ASSUME TypeOK, Identity
  PROVE  \/ Refuse
         \/ /\ run.at = "identity" /\ Others /\ DOMAIN run' = Fields
            /\ run.package.scope = Requests[run.session.request].allowed
            /\ run'.at = "after" /\ Kept({"at"})
BY DEF Identity, Unless, Step, At, Others, TypeOK, Kept, Fields

\* What others do.
LEMMA MovingStep ==
  ASSUME TypeOK, NEW things, Moving(things)
  PROVE  /\ DOMAIN run' = Fields /\ run'.moved = run.moved \union (things \intersect run.read)
         /\ Kept({"moved"})
BY DEF Moving, TypeOK, Kept, Fields

LEMMA AlterMapStep ==
  ASSUME TypeOK, AlterMap
  PROVE  /\ run.at = "call" /\ DOMAIN run' = Fields /\ Kept({"map"})
         /\ UNCHANGED <<repo, store, workspace>>
<1>1. run.at = "call" /\ UNCHANGED <<repo, store, workspace>>
  BY DEF AlterMap, At
<1>2. PICK p \in DOMAIN run.map.entries, digest \in BOOLEAN :
        LET entries == [run.map.entries EXCEPT ![p].dependencies = {}, ![p].dependents = {}] IN
        run' = [run EXCEPT !.map.entries = entries, !.map.digest = IF digest THEN entries ELSE @]
  BY DEF AlterMap
<1> DEFINE entries == [run.map.entries EXCEPT ![p].dependencies = {}, ![p].dependents = {}]
           with == [run EXCEPT !.map.entries = entries]
<1>3. run' = [with EXCEPT !.map.digest = IF digest THEN entries ELSE @]
  BY <1>2
<1> HIDE DEF entries
<1>4. DOMAIN with = Fields /\ \A f \in Fields \ {"map"} : with[f] = run[f]
  BY DEF TypeOK, Fields
<1> HIDE DEF with
<1>5. DOMAIN run' = Fields /\ Kept({"map"})
  BY <1>3, <1>4 DEF Kept, Fields
<1> QED BY <1>1, <1>5

------------------------------------------------------------------------------
(* What they keep *)

\* A step keeps the commit, what the caller passed and the repository.
LEMMA KeepsType ==
  ASSUME Inv, run.at \notin Ended, DOMAIN run' = Fields, run'.at \notin Ended, run'.commit = run.commit,
         repo' = repo, workspace' = workspace
  PROVE  TypeOK'
BY DEF Inv, TypeOK

LEMMA KeepsCaller ==
  ASSUME Inv, run'.mode = run.mode, run'.session = run.session, run'.commit = run.commit,
         run'.query = run.query, (run'.round >= 3 => run.round >= 3)
  PROVE  CallerOK'
BY DEF Inv, CallerOK, StageOK

\* What was checked of the commit, and of its map and package, stays so.
LEMMA KeepsChecked ==
  ASSUME Inv, run'.commit = run.commit, run'.todo = run.todo,
         (run'.at = "python" => run.at = "python"), (MapMade' => MapMade)
  PROVE  CheckedOK'
BY DEF Inv, CheckedOK, Tree, Python

LEMMA KeepsPackage ==
  ASSUME Inv, run'.commit = run.commit, run'.query = run.query, run'.session = run.session, run'.mode = run.mode,
         run'.scope = run.scope, run'.impact = run.impact, run'.files = run.files,
         Selected' <=> Selected,
         Selected => run'.todo = run.todo /\ run'.map = run.map,
         IsSealed' <=> IsSealed, run'.package = run.package,
         run'.at \in {"after", "done"} => run.at \in {"after", "done"} \/ run.mode # "assisted"
  PROVE  PackageOK'
<1>1. ~Selected => PackageOK'
  BY DEF Inv, PackageOK, IsSealed, Selected, StageOK
<1>2. Selected => PackageOK'
  BY DEF Inv, PackageOK, Rebuilt, Tree
<1> QED BY <1>1, <1>2

LEMMA ReadRemoteKeeps ==
  ASSUME Inv, ReadRemote
  PROVE  Inv'
<1> USE DEF Kept, Fields
<1>1. SUFFICES ASSUME /\ run.at = "remote" /\ ~repo.remote /\ Others
                      /\ DOMAIN run' = Fields /\ run'.at = "baseline" /\ Looked("remote")
                      /\ Kept({"at", "read"})
               PROVE  Inv'
  BY ReadRemoteStep, RefuseKeeps DEF Inv
<1>2. TypeOK'
  BY <1>1, KeepsType DEF Others, Ended
<1>3. StageOK'
  BY <1>1 DEF Inv, StageOK, Ended
<1>4. CallerOK'
  BY <1>1, KeepsCaller DEF Inv, StageOK
<1>5. CheckedOK'
  BY <1>1, KeepsChecked DEF MapMade
<1>6. PackageOK'
  BY <1>1, KeepsPackage DEF Selected, IsSealed
<1>7. HeldOK'
  BY <1>1 DEF Inv, HeldOK, StageOK, TypeOK, Others, Looked, LastRound, Doomed, Things, Worlds
<1> QED BY <1>2, <1>3, <1>4, <1>5, <1>6, <1>7 DEF Inv

\* A run that has not begun.
LEMMA IdleIs ==
  ASSUME Inv, run.at = "idle"
  PROVE  /\ run.round = 1 /\ run.mode = "attached" /\ run.files = {}
         /\ run.read = {} /\ run.moved = {} /\ ~MapMade /\ ~Selected /\ ~IsSealed
BY DEF Inv, TypeOK, Idle, Ended, MapMade, Selected, IsSealed

LEMMA StartMapKeeps ==
  ASSUME Inv, NEW mode, NEW commit \in Commits, StartMap(mode, commit)
  PROVE  Inv'
<1> USE DEF Kept, Fields
<1>1. /\ run.at = "idle" /\ mode \in {"attached", "detached"} /\ Others
      /\ DOMAIN run' = Fields /\ run'.mode = mode /\ run'.commit = commit
      /\ run'.at = IF mode = "attached" THEN "head" ELSE "remote"
      /\ run'.round = 1 /\ run'.anchors = {}
      /\ Kept({"at", "mode", "commit", "round", "anchors"})
  BY StartMapStep DEF Inv
<1>2. /\ run'.at \in {"head", "remote"} /\ run'.files = {} /\ run'.read = {} /\ run'.moved = {}
      /\ ~MapMade' /\ ~Selected' /\ ~IsSealed'
  BY <1>1, IdleIs DEF MapMade, Selected, IsSealed
<1>3. TypeOK'
  BY <1>1, <1>2 DEF Inv, TypeOK, Ended, Others
<1>4. StageOK' /\ CallerOK'
  BY <1>1 DEF StageOK, CallerOK, Ended
<1>5. CheckedOK' /\ PackageOK'
  BY <1>2 DEF CheckedOK, PackageOK
<1>6. HeldOK'
  BY <1>1, <1>2 DEF HeldOK, Doomed
<1> QED BY <1>3, <1>4, <1>5, <1>6 DEF Inv

LEMMA StartAssistedKeeps ==
  ASSUME Inv, NEW session \in Sessions, StartAssisted(session)
  PROVE  Inv'
<1> USE DEF Kept, Fields
<1>1. SUFFICES ASSUME /\ run.at = "idle" /\ SessionAccepted(session) /\ Others
                      /\ DOMAIN run' = Fields /\ run'.at = "before" /\ run'.mode = "assisted"
                      /\ run'.session = session /\ run'.commit = Requests[session.git].base
                      /\ Kept({"at", "mode", "session", "commit"})
               PROVE  Inv'
  BY StartAssistedStep, RefuseKeeps DEF Inv
<1>2. /\ run'.round = 1 /\ run'.files = {} /\ run'.read = {} /\ run'.moved = {}
      /\ ~MapMade' /\ ~Selected' /\ ~IsSealed'
  BY <1>1, IdleIs DEF MapMade, Selected, IsSealed
<1>3. run'.commit \in Commits
  BY <1>1, SessionsOK
<1>4. TypeOK'
  BY <1>1, <1>3 DEF Inv, TypeOK, Ended, Others
<1>5. StageOK' /\ CallerOK'
  BY <1>1, <1>2 DEF StageOK, CallerOK, Ended
<1>6. CheckedOK' /\ PackageOK'
  BY <1>1, <1>2 DEF CheckedOK, PackageOK
<1>7. HeldOK'
  BY <1>1, <1>2 DEF HeldOK, Doomed
<1> QED BY <1>4, <1>5, <1>6, <1>7 DEF Inv

LEMMA UnchangedKeeps ==
  ASSUME Inv, Unchanged
  PROVE  Inv'
<1> USE DEF Kept, Fields
<1>1. CASE /\ workspace /\ Others /\ DOMAIN run' = Fields
           /\ run.at = "before" /\ run'.read = run.read \union {"workspace"}
           /\ run'.at = IF run.mode = "attached" THEN "head" ELSE "remote"
           /\ run'.round = 1 /\ run'.anchors = {}
           /\ Kept({"at", "round", "anchors", "read"})
  <2>1. run.mode = "assisted" /\ run.round = 1 /\ run'.at = "remote"
    BY <1>1 DEF Inv, StageOK
  <2>2. TypeOK'
    BY <1>1, <2>1, KeepsType DEF Others, Ended
  <2>3. StageOK'
    BY <1>1, <2>1 DEF Inv, StageOK, Ended
  <2>4. CallerOK'
    BY <1>1, <2>1, KeepsCaller
  <2>5. CheckedOK'
    BY <1>1, <2>1, KeepsChecked DEF MapMade
  <2>6. PackageOK'
    BY <1>1, <2>1, KeepsPackage DEF Selected, IsSealed
  <2>7. HeldOK'
    BY <1>1, <2>1 DEF Inv, HeldOK, Others, Doomed, Things
  <2> QED BY <2>2, <2>3, <2>4, <2>5, <2>6, <2>7 DEF Inv
<1>2. CASE /\ workspace /\ Others /\ DOMAIN run' = Fields
           /\ run.at = "after" /\ run'.read = run.read \ {"workspace"}
           /\ run'.at = "done"
           /\ Kept({"at", "read"})
  <2>1. run.mode = "assisted" /\ run.round = 6
    BY <1>2 DEF Inv, StageOK
  <2>2. TypeOK'
    BY <1>2, KeepsType DEF Others, Ended
  <2>3. StageOK'
    BY <1>2, <2>1 DEF Inv, StageOK, Ended
  <2>4. CallerOK'
    BY <1>2, KeepsCaller
  <2>5. CheckedOK'
    BY <1>2, KeepsChecked DEF MapMade
  <2>6. PackageOK'
    BY <1>2, <2>1, KeepsPackage DEF Selected, IsSealed
  <2>7. HeldOK'
    BY <1>2, <2>1 DEF Inv, HeldOK, Others, Doomed, Things
  <2> QED BY <2>2, <2>3, <2>4, <2>5, <2>6, <2>7 DEF Inv
<1> QED BY <1>1, <1>2, UnchangedStep, RefuseKeeps DEF Inv

LEMMA ReadBaselineKeeps ==
  ASSUME Inv, ReadBaseline
  PROVE  Inv'
<1> USE DEF Kept, Fields
<1>1. /\ run.at = "baseline" /\ Others
      /\ DOMAIN run' = Fields /\ run'.at = "head" /\ Looked("baseline")
      /\ run'.anchors = {repo.baseline}
      /\ Kept({"at", "read", "anchors"})
  BY ReadBaselineStep DEF Inv
<1>2. TypeOK'
  BY <1>1, KeepsType DEF Others, Ended
<1>3. StageOK'
  BY <1>1 DEF Inv, StageOK, Ended
<1>4. CallerOK'
  BY <1>1, KeepsCaller
<1>5. CheckedOK'
  BY <1>1, KeepsChecked DEF MapMade
<1>6. PackageOK'
  BY <1>1, KeepsPackage DEF Selected, IsSealed
<1>7. HeldOK'
  <2>1. run.commit \in Nat /\ run.mode # "attached"
    BY <1>1, CommitsOK DEF Inv, TypeOK, StageOK, Ended
  <2>2. Doomed' <=> ~(repo.baseline \in {None, run.commit})
    BY <1>1 DEF Doomed
  <2> QED BY <1>1, <2>1, <2>2 DEF Inv, HeldOK, Others, Looked, LastRound, Doomed, Things
<1> QED BY <1>2, <1>3, <1>4, <1>5, <1>6, <1>7 DEF Inv

\* What a look at the refs that went well shows.
LEMMA AnchorsAre ==
  ASSUME NEW head, ~NotAnchored(head)
  PROVE  run.anchors \subseteq {None, run.commit} /\ head \in {None, run.commit}
BY DEF NotAnchored

\* Where a look goes on there was, for all but the first, a map already.
LEMMA OnwardIs ==
  ASSUME Inv, run.at = "head", run'.at = Onward(run.mode, run.round), Kept({"at", "read", "moved"}),
         DOMAIN run' = Fields
  PROVE  /\ StageOK' /\ CheckedOK' /\ PackageOK' /\ CallerOK'
         /\ run'.at \notin Ended /\ run'.commit = run.commit /\ ~Doomed'
         /\ run'.at \in {"list", "call", "select", "blobs", "identity", "done"}
         /\ run.round = 6 <=> run'.at \in {"identity", "done"}
         /\ run'.at = "done" => run.mode = "detached"
<1> USE DEF Kept, Fields
<1>1. run.round \in 1..6 /\ (run.mode = "attached" => run.round \in {1, 3})
  BY DEF Inv, StageOK
<1>2. /\ run'.at \in {"list", "call", "select", "blobs", "identity", "done"}
      /\ run.round = 6 <=> run'.at \in {"identity", "done"}
      /\ run'.at = "done" => run.mode = "detached"
      /\ run'.at = "list" <=> run.round \in {1, 3}
      /\ run'.at = "call" <=> run.round = 2
      /\ run'.at = "select" <=> run.round = 4
      /\ run'.at = "blobs" <=> run.round = 5
      /\ run'.at = "identity" => run.mode = "assisted"
  BY <1>1 DEF Onward, Inv, StageOK
<1>3. StageOK'
  BY <1>1, <1>2 DEF Inv, StageOK, Ended
<1>4. CallerOK'
  BY KeepsCaller
<1>5. CheckedOK'
  BY <1>1, <1>2, KeepsChecked DEF MapMade
<1>6. PackageOK'
  BY <1>1, <1>2, KeepsPackage DEF Selected, IsSealed
<1>7. run'.at \notin Ended /\ run'.commit = run.commit /\ ~Doomed'
  BY <1>2 DEF Ended, Doomed
<1> QED BY <1>2, <1>3, <1>4, <1>5, <1>6, <1>7

LEMMA ReadHeadKeeps ==
  ASSUME Inv, ReadHead
  PROVE  Inv'
<1> USE DEF Kept, Fields
<1>1. SUFFICES ASSUME /\ run.at = "head" /\ ~NotAnchored(repo.head) /\ Others
                      /\ DOMAIN run' = Fields /\ run'.at = Onward(run.mode, run.round) /\ Looked("head")
                      /\ Kept({"at", "read"})
               PROVE  Inv'
  BY ReadHeadStep, RefuseKeeps DEF Inv
<1>2. /\ StageOK' /\ CheckedOK' /\ PackageOK' /\ CallerOK'
      /\ run'.at \notin Ended /\ run'.commit = run.commit /\ ~Doomed'
      /\ run'.at \in {"list", "call", "select", "blobs", "identity", "done"}
      /\ run.round = 6 <=> run'.at \in {"identity", "done"}
      /\ run'.at = "done" => run.mode = "detached"
  BY <1>1, OnwardIs
<1>3. TypeOK'
  BY <1>1, <1>2, KeepsType DEF Others, Ended
<1>4. ~Doomed /\ repo.head \in {None, run.commit}
  BY <1>1, AnchorsAre DEF Doomed
<1>5. run.commit \in Nat /\ run.mode \in {"attached", "detached", "assisted"} /\ run.round \in 1..6
      /\ (run.mode = "attached" => run.round \in {1, 3})
  BY <1>1, CommitsOK DEF Inv, TypeOK, StageOK, Ended
<1>6. HeldOK'
  BY <1>1, <1>2, <1>4, <1>5 DEF Inv, HeldOK, Others, Looked, LastRound, Things
<1> QED BY <1>2, <1>3, <1>6 DEF Inv

LEMMA RefUnreadKeeps ==
  ASSUME Inv, RefUnread
  PROVE  Inv'
<1> USE DEF Kept, Fields
<1>1. /\ run.mode # "attached" /\ DOMAIN run' = Fields
      /\ UNCHANGED <<repo, store, workspace>>
      /\ Kept({"at", "read", "moved"})
      /\ \/ run.at = "baseline" /\ run'.at = "head" /\ Missed("baseline")
         \/ /\ run.at = "head" /\ ~NotAnchored(None)
            /\ run'.at = Onward(run.mode, run.round) /\ Missed("head")
  BY RefUnreadStep DEF Inv
<1>2. CASE run.at = "baseline" /\ run'.at = "head" /\ Missed("baseline")
  <2>1. TypeOK'
    BY <1>1, <1>2, KeepsType DEF Ended
  <2>2. StageOK'
    BY <1>1, <1>2 DEF Inv, StageOK, Ended
  <2>3. CallerOK'
    BY <1>1, KeepsCaller
  <2>4. CheckedOK'
    BY <1>1, <1>2, KeepsChecked DEF MapMade
  <2>5. PackageOK'
    BY <1>1, <1>2, KeepsPackage DEF Selected, IsSealed
  <2>6. HeldOK'
    BY <1>1, <1>2 DEF Inv, HeldOK, Missed, LastRound, Doomed, Things
  <2> QED BY <2>1, <2>2, <2>3, <2>4, <2>5, <2>6 DEF Inv
<1>3. CASE run.at = "head" /\ ~NotAnchored(None) /\ run'.at = Onward(run.mode, run.round) /\ Missed("head")
  <2>1. /\ StageOK' /\ CheckedOK' /\ PackageOK' /\ CallerOK'
        /\ run'.at \notin Ended /\ run'.commit = run.commit /\ ~Doomed'
        /\ run'.at \in {"list", "call", "select", "blobs", "identity", "done"}
        /\ run.round = 6 <=> run'.at \in {"identity", "done"}
        /\ run'.at = "done" => run.mode = "detached"
    BY <1>1, <1>3, OnwardIs
  <2>2. TypeOK'
    BY <1>1, <1>3, <2>1, KeepsType DEF Ended
  <2>3. ~Doomed
    BY <1>3, AnchorsAre DEF Doomed
  <2>4. HeldOK'
    BY <1>1, <1>3, <2>1, <2>3 DEF Inv, HeldOK, Missed, LastRound, Things
  <2> QED BY <2>1, <2>2, <2>4 DEF Inv
<1> QED BY <1>1, <1>2, <1>3

\* A path names one file of an accepted commit.
LEMMA FileAtIs ==
  ASSUME NEW tree, TrackedAccepted(tree), NEW f \in tree
  PROVE  FileAt(tree, f.path) = f
<1>1. \A g \in tree : g.path = f.path => g = f
  BY DEF TrackedAccepted, Alike
<1> QED BY <1>1 DEF FileAt

\* A step of a map or a package relies on what it did.
LEMMA KeepsHeld ==
  ASSUME Inv, run'.read = run.read, run'.moved = run.moved, run'.commit = run.commit, run'.mode = run.mode,
         ~Doomed, ~Doomed', repo' = repo, workspace' = workspace,
         (run'.mode = "attached" /\ run'.round = 3 /\ run'.at # "head" => run.round = 3 /\ run.at # "head"),
         (run'.mode # "attached" /\ run'.round = 6 =>
            \/ run'.at \notin {"baseline", "head", "identity", "after", "done"}
            \/ run.round = 6 /\ run.at = "identity" /\ run'.at = "after")
  PROVE  HeldOK'
BY DEF Inv, HeldOK

LEMMA ListKeeps ==
  ASSUME Inv, List
  PROVE  Inv'
<1> USE DEF Kept, Fields
<1>1. SUFFICES ASSUME /\ run.at = "list" /\ TrackedAccepted(Tree) /\ ModulesDistinct(Tree) /\ Others
                      /\ DOMAIN run' = Fields /\ run'.at = "python"
                      /\ run'.todo = {f.path : f \in Python(Tree)}
                      /\ Kept({"at", "todo"})
               PROVE  Inv'
  BY ListStep, RefuseKeeps DEF Inv
<1>2. ~Selected /\ ~Selected' /\ ~IsSealed /\ ~IsSealed' /\ run.round \in {1, 3}
  BY <1>1 DEF Inv, StageOK, Selected, IsSealed
<1>3. TypeOK'
  BY <1>1, KeepsType DEF Others, Ended
<1>4. StageOK'
  BY <1>1, <1>2 DEF Inv, StageOK, Ended
<1>5. CallerOK'
  BY <1>1, KeepsCaller
<1>6. CheckedOK'
  BY <1>1 DEF Inv, CheckedOK, MapMade, Tree
<1>7. PackageOK'
  BY <1>1, <1>2, KeepsPackage
<1>8. HeldOK'
  BY <1>1, <1>2, KeepsHeld DEF Others, Doomed
<1> QED BY <1>3, <1>4, <1>5, <1>6, <1>7, <1>8 DEF Inv

LEMMA ReadPythonKeeps ==
  ASSUME Inv, ReadPython
  PROVE  Inv'
<1> USE DEF Kept, Fields
<1>1. SUFFICES ASSUME /\ run.at = "python" /\ Others /\ DOMAIN run' = Fields
                      /\ Kept({"todo"})
                      /\ \E p \in run.todo :
                           run'.todo = run.todo \ {FileAt(Tree, p).path} /\ Parses(FileAt(Tree, p))
               PROVE  Inv'
  BY ReadPythonStep, RefuseKeeps DEF Inv
<1>2. ~Selected /\ ~Selected' /\ ~IsSealed /\ ~IsSealed' /\ run.round \in {1, 3}
  BY <1>1 DEF Inv, StageOK, Selected, IsSealed
<1>3. TypeOK'
  BY <1>1, KeepsType DEF Others, Ended
<1>4. StageOK'
  BY <1>1, <1>2 DEF Inv, StageOK, Ended
<1>5. CallerOK'
  BY <1>1, KeepsCaller
<1>6. CheckedOK'
  <2>1. PICK p \in run.todo : run'.todo = run.todo \ {FileAt(Tree, p).path} /\ Parses(FileAt(Tree, p))
    BY <1>1
  <2>2. TrackedAccepted(Tree) /\ ModulesDistinct(Tree) /\ run.todo \subseteq {f.path : f \in Python(Tree)}
    BY <1>1 DEF Inv, CheckedOK
  <2>3. PICK f \in Python(Tree) : f.path = p
    BY <2>2
  <2>4. FileAt(Tree, p) = f
    BY <2>2, <2>3, FileAtIs DEF Python
  <2>5. ASSUME NEW g \in Python(Tree) PROVE g.path \in run'.todo \/ Parses(g)
    <3>1. CASE g.path = f.path
      <4>1. g = f
        BY <2>2, <2>3, <2>4, <3>1, FileAtIs DEF Python
      <4> QED BY <2>1, <2>4, <4>1
    <3>2. CASE g.path # f.path
      <4>1. g.path \in run.todo \/ Parses(g)
        BY <1>1 DEF Inv, CheckedOK
      <4> QED BY <2>1, <2>4, <3>2, <4>1
    <3> QED BY <3>1, <3>2
  <2>6. run'.commit = run.commit /\ run'.at = "python" /\ (MapMade' <=> MapMade)
    BY <1>1 DEF MapMade
  <2>7. Tree' = Tree
    BY <2>6 DEF Tree
  <2>8. run'.todo \subseteq run.todo
    BY <2>1
  <2>9. MapMade => \A g \in Python(Tree) : Parses(g)
    BY DEF Inv, CheckedOK
  <2> QED BY <2>2, <2>5, <2>6, <2>7, <2>8, <2>9 DEF CheckedOK
<1>7. PackageOK'
  BY <1>1, <1>2, KeepsPackage
<1>8. HeldOK'
  BY <1>1, <1>2, KeepsHeld DEF Others, Doomed
<1> QED BY <1>3, <1>4, <1>5, <1>6, <1>7, <1>8 DEF Inv

LEMMA MakeMapKeeps ==
  ASSUME Inv, MakeMap
  PROVE  Inv'
<1> USE DEF Kept, Fields
<1>1. SUFFICES ASSUME /\ run.at = "python" /\ run.todo = {} /\ Others /\ DOMAIN run' = Fields
                      /\ \/ /\ run.mode # "attached" /\ run'.at = "remote"
                            /\ run'.round = run.round + 1 /\ run'.anchors = {}
                            /\ Kept({"at", "round", "anchors", "map"})
                         \/ /\ run.mode = "attached"
                            /\ run'.at = IF run.round = 1 THEN "call" ELSE "select"
                            /\ Kept({"at", "map"})
               PROVE  Inv'
  BY MakeMapStep, RefuseKeeps DEF Inv
<1>2. run.round \in {1, 3} /\ ~Selected /\ ~IsSealed
  BY <1>1 DEF Inv, StageOK, Selected, IsSealed
<1>3. /\ run'.at \in {"remote", "call", "select"} /\ run'.round \in {1, 2, 3, 4}
      /\ run'.round >= 3 => run.round >= 3
      /\ Kept({"at", "round", "anchors", "map"})
  BY <1>1, <1>2
<1>4. ~Selected' /\ ~IsSealed'
  BY <1>3 DEF Selected, IsSealed
<1>5. TypeOK'
  BY <1>1, <1>3, KeepsType DEF Others, Ended
<1>6. StageOK'
  BY <1>1, <1>2 DEF Inv, StageOK, Ended
<1>7. CallerOK'
  BY <1>3, KeepsCaller
<1>8. CheckedOK'
  <2>1. /\ TrackedAccepted(Tree) /\ ModulesDistinct(Tree)
        /\ \A f \in Python(Tree) : Parses(f)
    BY <1>1 DEF Inv, CheckedOK
  <2>2. Tree' = Tree /\ run'.at # "python"
    BY <1>3 DEF Tree
  <2> QED BY <2>1, <2>2 DEF CheckedOK
<1>9. PackageOK'
  BY <1>2, <1>3, <1>4, KeepsPackage
<1>10. HeldOK'
  BY <1>1, <1>2, <1>3, KeepsHeld DEF Others, Doomed
<1> QED BY <1>5, <1>6, <1>7, <1>8, <1>9, <1>10 DEF Inv

LEMMA PassKeeps ==
  ASSUME Inv, NEW query \in Queries, NEW scope, Pass(query, scope)
  PROVE  Inv'
<1> USE DEF Kept, Fields
<1>1. SUFFICES ASSUME /\ run.at = "call" /\ Others /\ DOMAIN run' = Fields
                      /\ run'.query = query /\ run'.scope = scope
                      /\ run'.at = IF run.mode = "attached" THEN "head" ELSE "remote"
                      /\ run'.round = 3 /\ run'.anchors = {}
                      /\ Kept({"at", "round", "anchors", "query", "scope"})
               PROVE  Inv'
  BY PassStep, RefuseKeeps DEF Inv
<1>2. /\ ~Selected /\ ~Selected' /\ ~IsSealed /\ ~IsSealed'
      /\ run'.at \in {"head", "remote"} /\ run'.files = {}
  BY <1>1 DEF Inv, StageOK, PackageOK, Selected, IsSealed
<1>3. TypeOK'
  BY <1>1, <1>2, KeepsType DEF Others, Ended
<1>4. StageOK'
  BY <1>1 DEF Inv, StageOK, Ended
<1>5. CallerOK'
  BY <1>1 DEF Inv, CallerOK
<1>6. CheckedOK'
  BY <1>1, <1>2, KeepsChecked DEF MapMade
<1>7. PackageOK'
  BY <1>2 DEF PackageOK
<1>8. HeldOK'
  BY <1>1, <1>2, KeepsHeld DEF Others, Doomed
<1> QED BY <1>3, <1>4, <1>5, <1>6, <1>7, <1>8 DEF Inv

LEMMA SelectKeeps ==
  ASSUME Inv, Select
  PROVE  Inv'
<1> USE DEF Kept, Fields
<1>1. SUFFICES ASSUME /\ run.at = "select" /\ Rebuilt /\ QueryAccepted(run.map, run.query)
                      /\ run'.impact = Impact(run.map, run.query) /\ run'.impact # None
                      /\ run'.todo = AllPaths(run'.impact)
                      /\ Others /\ DOMAIN run' = Fields
                      /\ \/ /\ run.mode # "attached" /\ run'.at = "remote"
                            /\ run'.round = 5 /\ run'.anchors = {}
                            /\ Kept({"at", "round", "anchors", "impact", "todo"})
                         \/ /\ run.mode = "attached" /\ run'.at = "blobs"
                            /\ Kept({"at", "impact", "todo"})
               PROVE  Inv'
  BY SelectStep, RefuseKeeps DEF Inv
<1>2. /\ ~Selected /\ ~IsSealed /\ MapMade /\ run.round \in {3, 4}
      /\ (run.mode = "attached" <=> run.round = 3)
  BY <1>1 DEF Inv, StageOK, Selected, IsSealed, MapMade
<1>3. /\ run'.at \in {"remote", "blobs"} /\ run'.round \in {3, 5} /\ (run'.at = "remote" => run'.round = 5)
      /\ Kept({"at", "round", "anchors", "impact", "todo"})
  BY <1>1, <1>2
<1>4. Selected' /\ ~IsSealed'
  BY <1>3 DEF Selected, IsSealed
<1>5. TypeOK'
  BY <1>1, <1>3, KeepsType DEF Others, Ended
<1>6. StageOK'
  BY <1>1, <1>2 DEF Inv, StageOK, Ended
<1>7. CallerOK'
  BY <1>2, <1>3, KeepsCaller
<1>8. CheckedOK'
  <2>1. Tree' = Tree /\ run'.at # "python"
    BY <1>3 DEF Tree
  <2> QED BY <1>2, <2>1 DEF Inv, CheckedOK
<1>9. PackageOK'
  <2>1. run.files = {} /\ run'.files = {} /\ run'.map = run.map /\ run'.query = run.query /\ run'.commit = run.commit
    BY <1>2, <1>3 DEF Inv, PackageOK
  <2>2. Rebuilt'
    BY <1>1, <2>1 DEF Rebuilt, Tree
  <2>3. run'.files = FilesOf(run'.map, AllPaths(run'.impact) \ run'.todo)
    BY <1>1, <2>1 DEF FilesOf
  <2> QED BY <1>1, <1>3, <1>4, <2>1, <2>2, <2>3 DEF PackageOK
<1>10. HeldOK'
  BY <1>1, <1>2, <1>3, KeepsHeld DEF Others, Doomed
<1> QED BY <1>5, <1>6, <1>7, <1>8, <1>9, <1>10 DEF Inv

LEMMA ReadBlobKeeps ==
  ASSUME Inv, ReadBlob
  PROVE  Inv'
<1> USE DEF Kept, Fields
<1>1. SUFFICES ASSUME /\ run.at = "blobs" /\ Others /\ DOMAIN run' = Fields
                      /\ Kept({"todo", "files"})
                      /\ \E p \in run.todo :
                           /\ run'.todo = run.todo \ {p}
                           /\ run'.files = run.files \union {[path |-> p, blob |-> run.map.entries[p].blob]}
               PROVE  Inv'
  BY ReadBlobStep, RefuseKeeps DEF Inv
<1>2. Selected /\ Selected' /\ ~IsSealed /\ ~IsSealed' /\ MapMade /\ run.round \in {3, 5}
  BY <1>1 DEF Inv, StageOK, Selected, IsSealed, MapMade
<1>3. TypeOK'
  BY <1>1, KeepsType DEF Others, Ended
<1>4. StageOK'
  BY <1>1, <1>2 DEF Inv, StageOK, Ended
<1>5. CallerOK'
  BY <1>1, KeepsCaller
<1>6. CheckedOK'
  <2>1. Tree' = Tree /\ run'.at # "python"
    BY <1>1 DEF Tree
  <2> QED BY <1>2, <2>1 DEF Inv, CheckedOK
<1>7. PackageOK'
  <2>1. PICK p \in run.todo :
          /\ run'.todo = run.todo \ {p}
          /\ run'.files = run.files \union {[path |-> p, blob |-> run.map.entries[p].blob]}
    BY <1>1
  <2>2. /\ Rebuilt /\ QueryAccepted(run.map, run.query)
        /\ run.impact = Impact(run.map, run.query) /\ run.impact # None
        /\ run.todo \subseteq AllPaths(run.impact)
        /\ run.files = FilesOf(run.map, AllPaths(run.impact) \ run.todo)
    BY <1>2 DEF Inv, PackageOK
  <2>3. /\ run'.map = run.map /\ run'.query = run.query /\ run'.impact = run.impact
        /\ run'.commit = run.commit /\ run'.at = "blobs"
    BY <1>1
  <2>4. AllPaths(run.impact) \ run'.todo = (AllPaths(run.impact) \ run.todo) \union {p}
    BY <2>1, <2>2
  <2>5. run'.files = FilesOf(run.map, AllPaths(run.impact) \ run'.todo)
    BY <2>1, <2>2, <2>4 DEF FilesOf
  <2>6. Rebuilt'
    BY <2>2, <2>3 DEF Rebuilt, Tree
  <2>7. run'.todo \subseteq AllPaths(run.impact)
    BY <2>1, <2>2
  <2> QED BY <1>2, <2>2, <2>3, <2>5, <2>6, <2>7 DEF PackageOK
<1>8. HeldOK'
  BY <1>1, <1>2, KeepsHeld DEF Others, Doomed
<1> QED BY <1>3, <1>4, <1>5, <1>6, <1>7, <1>8 DEF Inv

LEMMA SealKeeps ==
  ASSUME Inv, Seal
  PROVE  Inv'
<1> USE DEF Kept, Fields
<1>1. /\ run.at = "blobs" /\ run.todo = {} /\ Others /\ DOMAIN run' = Fields
      /\ run'.package = PackageFor(run.map, run.impact, run.scope, run.files)
      /\ \/ /\ run.mode # "attached" /\ run'.at = "remote"
            /\ run'.round = 6 /\ run'.anchors = {}
            /\ Kept({"at", "round", "anchors", "package"})
         \/ /\ run.mode = "attached" /\ run'.at = "done"
            /\ Kept({"at", "package"})
  BY SealStep DEF Inv
<1>2. /\ Selected /\ ~IsSealed /\ MapMade /\ run.round \in {3, 5}
      /\ (run.mode = "attached" <=> run.round = 3)
  BY <1>1 DEF Inv, StageOK, Selected, IsSealed, MapMade
<1>3. /\ run'.at \in {"remote", "done"} /\ run'.round \in {3, 6} /\ (run'.at = "remote" <=> run'.round = 6)
      /\ Kept({"at", "round", "anchors", "package"})
  BY <1>1, <1>2
<1>4. Selected' /\ IsSealed'
  BY <1>3 DEF Selected, IsSealed
<1>5. TypeOK'
  BY <1>1, <1>3, KeepsType DEF Others, Ended
<1>6. StageOK'
  BY <1>1, <1>2 DEF Inv, StageOK, Ended
<1>7. CallerOK'
  BY <1>2, <1>3, KeepsCaller
<1>8. CheckedOK'
  <2>1. Tree' = Tree /\ run'.at # "python"
    BY <1>3 DEF Tree
  <2> QED BY <1>2, <2>1 DEF Inv, CheckedOK
<1>9. PackageOK'
  <2>1. /\ Rebuilt /\ QueryAccepted(run.map, run.query)
        /\ run.impact = Impact(run.map, run.query) /\ run.impact # None
        /\ run.todo \subseteq AllPaths(run.impact)
        /\ run.files = FilesOf(run.map, AllPaths(run.impact) \ run.todo)
    BY <1>2 DEF Inv, PackageOK
  <2>2. /\ run'.map = run.map /\ run'.query = run.query /\ run'.impact = run.impact /\ run'.scope = run.scope
        /\ run'.commit = run.commit /\ run'.files = run.files /\ run'.todo = run.todo /\ run'.mode = run.mode
    BY <1>3
  <2>3. Rebuilt'
    BY <2>1, <2>2 DEF Rebuilt, Tree
  <2>4. run'.at \in {"after", "done"} => run'.mode # "assisted"
    BY <1>1, <2>2
  <2> QED BY <1>1, <1>4, <2>1, <2>2, <2>3, <2>4 DEF PackageOK
<1>10. HeldOK'
  BY <1>1, <1>2, <1>3, KeepsHeld DEF Others, Doomed
<1> QED BY <1>5, <1>6, <1>7, <1>8, <1>9, <1>10 DEF Inv

LEMMA IdentityKeeps ==
  ASSUME Inv, Identity
  PROVE  Inv'
<1> USE DEF Kept, Fields
<1>1. SUFFICES ASSUME /\ run.at = "identity" /\ Others /\ DOMAIN run' = Fields
                      /\ run.package.scope = Requests[run.session.request].allowed
                      /\ run'.at = "after" /\ Kept({"at"})
               PROVE  Inv'
  BY IdentityStep, RefuseKeeps DEF Inv
<1>2. Selected /\ IsSealed /\ MapMade /\ run.round = 6 /\ run.mode = "assisted"
  BY <1>1 DEF Inv, StageOK, Selected, IsSealed, MapMade
<1>3. TypeOK'
  BY <1>1, KeepsType DEF Others, Ended
<1>4. StageOK'
  BY <1>1, <1>2 DEF Inv, StageOK, Ended
<1>5. CallerOK'
  BY <1>1, KeepsCaller
<1>6. CheckedOK'
  BY <1>1, <1>2, KeepsChecked
<1>7. PackageOK'
  <2>1. run.package = PackageFor(run.map, run.impact, run.scope, run.files)
    BY <1>2 DEF Inv, PackageOK
  <2>2. run.scope = Requests[run.session.request].allowed
    BY <1>1, <2>1 DEF PackageFor
  <2>3. Rebuilt' <=> Rebuilt
    BY <1>1 DEF Rebuilt, Tree
  <2>4. Selected' /\ IsSealed'
    BY <1>1, <1>2 DEF Selected, IsSealed
  <2> QED BY <1>1, <1>2, <2>2, <2>3, <2>4 DEF Inv, PackageOK
<1>8. HeldOK'
  BY <1>1, <1>2, KeepsHeld DEF Others, Doomed
<1> QED BY <1>3, <1>4, <1>5, <1>6, <1>7, <1>8 DEF Inv

\* What others do leaves a run where it is.
LEMMA KeepsAllButHeld ==
  ASSUME Inv, DOMAIN run' = Fields, Kept({"moved"}), repo' \in Worlds, workspace' \in BOOLEAN, run.at \notin Ended
  PROVE  TypeOK' /\ StageOK' /\ CallerOK' /\ CheckedOK' /\ PackageOK'
<1> USE DEF Kept, Fields
<1>1. TypeOK'
  BY DEF Inv, TypeOK
<1>2. StageOK'
  BY DEF Inv, StageOK
<1>3. CallerOK'
  BY KeepsCaller
<1>4. CheckedOK'
  BY KeepsChecked DEF MapMade
<1>5. PackageOK'
  BY KeepsPackage DEF Selected, IsSealed
<1> QED BY <1>1, <1>2, <1>3, <1>4, <1>5

\* A reference moves to a later commit, and what was read of it is noted.
LEMMA MoveRefKeeps ==
  ASSUME Inv, MoveRef
  PROVE  Inv'
<1>1. PICK ref \in {"baseline", "head"}, c \in Commits :
        /\ repo[ref] # None /\ c > repo[ref]
        /\ repo' = [repo EXCEPT ![ref] = c] /\ Moving({ref})
  BY DEF MoveRef
<1>2. /\ DOMAIN run' = Fields /\ run'.moved = run.moved \union ({ref} \intersect run.read)
      /\ Kept({"moved"}) /\ workspace' = workspace /\ run.at \notin Ended
  BY <1>1, MovingStep DEF Inv, MoveRef, Changing, Ended
<1>3. repo \in Worlds /\ workspace \in BOOLEAN /\ run.commit \in Nat /\ Commits \subseteq Nat /\ None \notin Commits
  BY <1>2, CommitsOK DEF Inv, TypeOK
<1>4. repo' \in Worlds
  BY <1>1, <1>3 DEF Worlds
<1>5. TypeOK' /\ StageOK' /\ CallerOK' /\ CheckedOK' /\ PackageOK'
  BY <1>2, <1>3, <1>4, KeepsAllButHeld
<1>6. repo[ref] \in Nat /\ c \in Nat
  BY <1>1, <1>3 DEF Worlds
<1>7. /\ run'.at = run.at /\ run'.mode = run.mode /\ run'.round = run.round /\ run'.commit = run.commit
      /\ run'.anchors = run.anchors /\ run'.read = run.read /\ (Doomed' <=> Doomed)
  BY <1>2 DEF Kept, Fields, Doomed
<1>8. CASE ref = "head"
  <2>1. repo'.head = c /\ repo'.baseline = repo.baseline /\ repo'.remote = repo.remote
    BY <1>1, <1>3, <1>8 DEF Worlds
  <2>2. HeldOK'
    BY <1>1, <1>2, <1>3, <1>6, <1>7, <1>8, <2>1 DEF Inv, HeldOK
  <2> QED BY <1>5, <2>2 DEF Inv
<1>9. CASE ref = "baseline"
  <2>1. repo'.baseline = c /\ repo'.head = repo.head /\ repo'.remote = repo.remote
    BY <1>1, <1>3, <1>9 DEF Worlds
  <2>2. HeldOK'
    BY <1>1, <1>2, <1>3, <1>6, <1>7, <1>9, <2>1 DEF Inv, HeldOK
  <2> QED BY <1>5, <2>2 DEF Inv
<1> QED BY <1>8, <1>9

LEMMA OthersKeep ==
  ASSUME Inv, AddRemote \/ Damage \/ WriteWorkspace
  PROVE  Inv'
<1>1. run.at \notin Ended /\ repo \in Worlds /\ workspace \in BOOLEAN
  BY DEF Inv, TypeOK, AddRemote, Damage, WriteWorkspace, Changing, Ended
<1>2. CASE AddRemote
  <2>1. repo' = [repo EXCEPT !.remote = TRUE] /\ Moving({"remote"}) /\ workspace' = workspace
    BY <1>2 DEF AddRemote
  <2>2. /\ DOMAIN run' = Fields /\ run'.moved = run.moved \union ({"remote"} \intersect run.read)
        /\ Kept({"moved"})
    BY <2>1, MovingStep DEF Inv
  <2>3. repo' \in Worlds /\ repo'.remote /\ repo'.head = repo.head /\ repo'.baseline = repo.baseline
    BY <1>1, <2>1 DEF Worlds
  <2>4. TypeOK' /\ StageOK' /\ CallerOK' /\ CheckedOK' /\ PackageOK'
    BY <1>1, <2>1, <2>2, <2>3, KeepsAllButHeld
  <2>5. HeldOK'
    BY <2>1, <2>2, <2>3 DEF Inv, HeldOK, Doomed, Kept, Fields
  <2> QED BY <2>4, <2>5 DEF Inv
<1>3. CASE WriteWorkspace
  <2>1. workspace' = FALSE /\ Moving({"workspace"}) /\ repo' = repo
    BY <1>3 DEF WriteWorkspace
  <2>2. /\ DOMAIN run' = Fields /\ run'.moved = run.moved \union ({"workspace"} \intersect run.read)
        /\ Kept({"moved"})
    BY <2>1, MovingStep DEF Inv
  <2>3. TypeOK' /\ StageOK' /\ CallerOK' /\ CheckedOK' /\ PackageOK'
    BY <1>1, <2>1, <2>2, KeepsAllButHeld
  <2>4. HeldOK'
    BY <2>1, <2>2 DEF Inv, HeldOK, Doomed, Kept, Fields
  <2> QED BY <2>3, <2>4 DEF Inv
<1>4. CASE Damage
  <2>1. UNCHANGED <<repo, workspace, run>>
    BY <1>4 DEF Damage
  <2> QED BY <2>1 DEF Inv, TypeOK, StageOK, CallerOK, CheckedOK, PackageOK, HeldOK, Doomed, MapMade, Selected,
               IsSealed, Tree, Rebuilt
<1> QED BY <1>2, <1>3, <1>4

LEMMA AlterMapKeeps ==
  ASSUME Inv, AlterMap
  PROVE  Inv'
<1> USE DEF Kept, Fields
<1>1. /\ run.at = "call" /\ DOMAIN run' = Fields /\ Kept({"map"})
      /\ UNCHANGED <<repo, store, workspace>>
  BY AlterMapStep DEF Inv
<1>2. ~Selected /\ ~Selected' /\ ~IsSealed /\ ~IsSealed'
  BY <1>1 DEF Inv, StageOK, Selected, IsSealed
<1>3. TypeOK'
  BY <1>1, KeepsType DEF Ended
<1>4. StageOK'
  BY <1>1 DEF Inv, StageOK
<1>5. CallerOK'
  BY <1>1, KeepsCaller
<1>6. CheckedOK'
  BY <1>1, KeepsChecked DEF MapMade
<1>7. PackageOK'
  BY <1>1, <1>2, KeepsPackage
<1>8. HeldOK'
  BY <1>1, KeepsHeld DEF Doomed
<1> QED BY <1>3, <1>4, <1>5, <1>6, <1>7, <1>8 DEF Inv

\* It holds at the beginning and of every step.
LEMMA InitOK ==
  ASSUME Init
  PROVE  Inv
<1>1. run = Idle /\ repo \in Worlds /\ workspace = TRUE
  BY RefsOK DEF Init, Worlds
<1>2. /\ DOMAIN run = Fields /\ run.at = "idle" /\ run.mode = "attached" /\ run.round = 1
      /\ run.files = {} /\ run.read = {} /\ run.moved = {}
  BY <1>1 DEF Idle, Fields
<1>3. run = [Idle EXCEPT !.at = run.at]
  BY <1>1 DEF Idle
<1>4. TypeOK
  BY <1>1, <1>2, <1>3 DEF TypeOK, Ended
<1>5. StageOK /\ CallerOK
  BY <1>2 DEF StageOK, CallerOK, Ended
<1>6. CheckedOK /\ PackageOK
  BY <1>2 DEF CheckedOK, PackageOK, MapMade, Selected, IsSealed
<1>7. HeldOK
  BY <1>2 DEF HeldOK, Doomed
<1> QED BY <1>4, <1>5, <1>6, <1>7 DEF Inv

LEMMA NextKeeps ==
  ASSUME Inv, [Next]_vars
  PROVE  Inv'
<1>1. CASE UNCHANGED vars
  BY <1>1 DEF Inv, TypeOK, StageOK, CallerOK, CheckedOK, PackageOK, HeldOK, Doomed, MapMade, Selected,
              IsSealed, Tree, Rebuilt, vars
<1>2. ASSUME NEW mode \in {"attached", "detached"}, NEW c \in Commits, StartMap(mode, c) PROVE Inv'
  BY <1>2, StartMapKeeps
<1>3. ASSUME NEW session \in Sessions, StartAssisted(session) PROVE Inv'
  BY <1>3, StartAssistedKeeps
<1>4. ASSUME NEW query \in Queries, NEW scope \in Scopes, Pass(query, scope) PROVE Inv'
  BY <1>4, PassKeeps
<1>5. CASE Unchanged
  BY <1>5, UnchangedKeeps
<1>6. CASE ReadRemote
  BY <1>6, ReadRemoteKeeps
<1>7. CASE ReadBaseline
  BY <1>7, ReadBaselineKeeps
<1>8. CASE ReadHead
  BY <1>8, ReadHeadKeeps
<1>9. CASE RefUnread
  BY <1>9, RefUnreadKeeps
<1>10. CASE CommandFails
  BY <1>10, RefuseKeeps DEF CommandFails
<1>11. CASE List
  BY <1>11, ListKeeps
<1>12. CASE ReadPython
  BY <1>12, ReadPythonKeeps
<1>13. CASE MakeMap
  BY <1>13, MakeMapKeeps
<1>14. CASE Select
  BY <1>14, SelectKeeps
<1>15. CASE ReadBlob
  BY <1>15, ReadBlobKeeps
<1>16. CASE Seal
  BY <1>16, SealKeeps
<1>17. CASE Identity
  BY <1>17, IdentityKeeps
<1>18. CASE MoveRef
  BY <1>18, MoveRefKeeps
<1>19. CASE AddRemote \/ Damage \/ WriteWorkspace
  BY <1>19, OthersKeep
<1>20. CASE AlterMap
  BY <1>20, AlterMapKeeps
<1> QED BY <1>1, <1>2, <1>3, <1>4, <1>5, <1>6, <1>7, <1>8, <1>9, <1>10, <1>11, <1>12, <1>13, <1>14, <1>15,
           <1>16, <1>17, <1>18, <1>19, <1>20 DEF Next, Build

(* The inductive invariant: types, and for every place of a run what was   *)
(* checked or computed before it and still holds (agent_repository_map.py, *)
(* agent_repository_context.py, agent_repository_detached.py,              *)
(* agent_eval_map_context.py).                                             *)
THEOREM InvCorrect == Spec => []Inv
BY InitOK, NextKeeps, PTL DEF Spec

(* What a finished run relied on stood still from the first look at it to  *)
(* the last that got an answer (_assert_metadata_identity() before and     *)
(* after each part, _unchanged_fixture() before and after all).            *)
THEOREM HeldThroughoutCorrect == Spec => []HeldThroughout
<1>1. Inv => HeldThroughout
  <2> SUFFICES ASSUME Inv, At("done") PROVE run.moved = {}
    BY DEF HeldThroughout
  <2>1. run.read = {} /\ ~Doomed
    BY DEF Inv, StageOK, HeldOK, At, Doomed
  <2> QED BY <2>1 DEF Inv, HeldOK
<1> QED BY <1>1, InvCorrect, PTL

------------------------------------------------------------------------------
(* Breadth-first search *)

\* A set of numbers with zero and every successor has all of them.
LEMMA NatSet ==
  ASSUME NEW S, 0 \in S, \A n \in Nat : n \in S => n + 1 \in S
  PROVE  Nat \subseteq S
<1> SUFFICES ASSUME Nat \ S # {} PROVE FALSE
  OBVIOUS
<1> DEFINE Sets == {0..n : n \in Nat \ S}
           L == StrictSubsetOrdering(Nat)
<1>1. Sets \subseteq FiniteSubsetsOf(Nat) /\ Sets # {}
  <2>1. \A n \in Nat : IsFiniteSet(0..n)
    BY FS_Interval
  <2> QED BY <2>1 DEF FiniteSubsetsOf
<1>2. \E A \in Sets : \A B \in Sets : <<B, A>> \notin L
  <2>1. IsWellFoundedOn(L, FiniteSubsetsOf(Nat))
    BY FS_StrictSubsetOrderingWellFounded
  <2> HIDE DEF Sets, L
  <2> QED BY <1>1, <2>1, WFMin
<1>3. PICK x \in Nat \ S : \A B \in Sets : <<B, 0..x>> \notin L
  BY <1>2
<1>4. x # 0
  OBVIOUS
<1>5. x - 1 \in Nat /\ x - 1 < x
  BY <1>4
<1>6. x - 1 \in S
  <2> SUFFICES ASSUME x - 1 \notin S PROVE FALSE
    OBVIOUS
  <2>1. 0..(x - 1) \in Sets
    BY <1>5
  <2>2. 0..(x - 1) \subseteq 0..x /\ 0..(x - 1) # 0..x
    <3>1. x \in 0..x /\ x \notin 0..(x - 1)
      OBVIOUS
    <3> QED BY <1>5, <3>1
  <2>3. <<0..(x - 1), 0..x>> \in L
    BY <2>2, <1>5 DEF StrictSubsetOrdering
  <2> HIDE DEF Sets, L
  <2> QED BY <1>3, <2>1, <2>3
<1> QED BY <1>5, <1>6

\* The recursive function of Expand, depth rounds of it.
Rounds(adjacency, seeds, depth, at) ==
  at = [n \in 0..depth |->
          IF n = 0 THEN [visited |-> seeds, frontier |-> seeds] ELSE Widened(adjacency, at[n - 1])]

\* There is such a function, round by round.
LEMMA RoundsExist ==
  ASSUME NEW a, NEW s
  PROVE  \A d \in Nat : \E at : Rounds(a, s, d, at)
<1> DEFINE S == {d \in Nat : \E at : Rounds(a, s, d, at)}
<1>1. 0 \in S
  <2> DEFINE at == [n \in 0..0 |-> [visited |-> s, frontier |-> s]]
  <2>1. Rounds(a, s, 0, at)
    BY DEF Rounds
  <2> QED BY <2>1
<1>2. ASSUME NEW n \in Nat, n \in S PROVE n + 1 \in S
  <2>1. PICK f : Rounds(a, s, n, f)
    BY <1>2
  <2> DEFINE g == [k \in 0..(n + 1) |-> IF k = n + 1 THEN Widened(a, f[n]) ELSE f[k]]
  <2>2. Rounds(a, s, n + 1, g)
    <3> SUFFICES ASSUME NEW k \in 0..(n + 1)
                 PROVE  g[k] = IF k = 0 THEN [visited |-> s, frontier |-> s] ELSE Widened(a, g[k - 1])
      BY DEF Rounds
    <3>1. CASE k = n + 1
      BY <3>1
    <3>2. CASE k # n + 1
      <4>1. k \in 0..n /\ (k # 0 => k - 1 \in 0..n /\ k - 1 # n + 1)
        BY <3>2
      <4>2. g[k] = f[k] /\ (k # 0 => g[k - 1] = f[k - 1])
        BY <4>1, <3>2
      <4>3. f[k] = IF k = 0 THEN [visited |-> s, frontier |-> s] ELSE Widened(a, f[k - 1])
        BY <2>1, <4>1 DEF Rounds
      <4> QED BY <4>2, <4>3
    <3> QED BY <3>1, <3>2
  <2> QED BY <2>2
<1> HIDE DEF S
<1>3. Nat \subseteq S
  BY <1>1, <1>2, NatSet
<1> QED BY <1>3 DEF S

\* A chain of n steps through D leads from p to q.
Linked(a, D, p, q, n) ==
  \E chain \in [1..(n + 1) -> D] :
    /\ chain[1] = p /\ chain[n + 1] = q
    /\ \A i \in 1..n : chain[i + 1] \in a[chain[i]]

LEMMA LinkedNot ==
  ASSUME NEW a, NEW D, NEW p, NEW q
  PROVE  Linked(a, D, p, q, 0) <=> p \in D /\ p = q
<1>1. ASSUME p \in D, p = q PROVE Linked(a, D, p, q, 0)
  <2> DEFINE chain == [i \in 1..(0 + 1) |-> p]
  <2>1. chain \in [1..(0 + 1) -> D] /\ chain[1] = p /\ chain[0 + 1] = q
    BY <1>1
  <2>2. \A i \in 1..0 : chain[i + 1] \in a[chain[i]]
    OBVIOUS
  <2> QED BY <2>1, <2>2 DEF Linked
<1>2. ASSUME Linked(a, D, p, q, 0) PROVE p \in D /\ p = q
  BY <1>2 DEF Linked
<1> QED BY <1>1, <1>2

\* A chain is one step longer at its end.
LEMMA LinkedOn ==
  ASSUME NEW a, NEW D, NEW p, NEW q \in D, NEW n \in Nat
  PROVE  Linked(a, D, p, q, n + 1) <=> \E r \in D : Linked(a, D, p, r, n) /\ q \in a[r]
<1>1. ASSUME Linked(a, D, p, q, n + 1) PROVE \E r \in D : Linked(a, D, p, r, n) /\ q \in a[r]
  <2>1. PICK c \in [1..((n + 1) + 1) -> D] :
          /\ c[1] = p /\ c[(n + 1) + 1] = q
          /\ \A i \in 1..(n + 1) : c[i + 1] \in a[c[i]]
    BY <1>1 DEF Linked
  <2> DEFINE d == [i \in 1..(n + 1) |-> c[i]]
  <2>2. d \in [1..(n + 1) -> D] /\ d[1] = p /\ d[n + 1] = c[n + 1] /\ c[n + 1] \in D
    BY <2>1
  <2>3. \A i \in 1..n : d[i + 1] \in a[d[i]]
    BY <2>1
  <2>4. q \in a[c[n + 1]]
    BY <2>1
  <2> HIDE DEF d
  <2> QED BY <2>2, <2>3, <2>4 DEF Linked
<1>2. ASSUME NEW r \in D, Linked(a, D, p, r, n), q \in a[r] PROVE Linked(a, D, p, q, n + 1)
  <2>1. PICK c \in [1..(n + 1) -> D] :
          /\ c[1] = p /\ c[n + 1] = r
          /\ \A i \in 1..n : c[i + 1] \in a[c[i]]
    BY <1>2 DEF Linked
  <2> DEFINE d == [i \in 1..((n + 1) + 1) |-> IF i = n + 2 THEN q ELSE c[i]]
  <2>2. d \in [1..((n + 1) + 1) -> D] /\ d[1] = p /\ d[(n + 1) + 1] = q
    BY <2>1
  <2>3. ASSUME NEW i \in 1..(n + 1) PROVE d[i + 1] \in a[d[i]]
    <3>1. CASE i = n + 1
      <4>1. d[i + 1] = q /\ d[i] = r
        BY <2>1, <3>1
      <4> QED BY <1>2, <4>1
    <3>2. CASE i # n + 1
      <4>1. i \in 1..n /\ i + 1 # n + 2 /\ i # n + 2 /\ i + 1 \in 1..(n + 1)
        BY <3>2
      <4>2. d[i + 1] = c[i + 1] /\ d[i] = c[i]
        BY <4>1
      <4> QED BY <2>1, <4>1, <4>2
    <3> QED BY <3>1, <3>2
  <2> HIDE DEF d
  <2> QED BY <2>2, <2>3 DEF Linked
<1> QED BY <1>1, <1>2

\* Backwards through the inverse is forwards.
LEMMA LinkedBack ==
  ASSUME NEW a, NEW b, NEW D, \A x, y \in D : y \in b[x] => x \in a[y],
         NEW p, NEW q, NEW n \in Nat, Linked(b, D, p, q, n)
  PROVE  Linked(a, D, q, p, n)
<1>1. PICK c \in [1..(n + 1) -> D] :
        /\ c[1] = p /\ c[n + 1] = q
        /\ \A i \in 1..n : c[i + 1] \in b[c[i]]
  BY DEF Linked
<1> DEFINE d == [i \in 1..(n + 1) |-> c[n + 2 - i]]
<1>2. d \in [1..(n + 1) -> D] /\ d[1] = q /\ d[n + 1] = p
  BY <1>1
<1>3. ASSUME NEW i \in 1..n PROVE d[i + 1] \in a[d[i]]
  <2> DEFINE j == n + 1 - i
  <2>1. j \in 1..n /\ j \in 1..(n + 1) /\ j + 1 \in 1..(n + 1) /\ n + 2 - (i + 1) = j /\ n + 2 - i = j + 1
    OBVIOUS
  <2>2. d[i + 1] = c[j] /\ d[i] = c[j + 1]
    BY <2>1
  <2>3. c[j + 1] \in b[c[j]] /\ c[j] \in D /\ c[j + 1] \in D
    BY <1>1, <2>1
  <2> HIDE DEF d, j
  <2> QED BY <2>2, <2>3
<1> HIDE DEF d
<1> QED BY <1>2, <1>3 DEF Linked

\* What lies within n steps of the seeds.
Within(a, D, s, n) == {q \in D : \E x \in s : \E k \in 0..n : Linked(a, D, x, q, k)}

LEMMA WithinNone ==
  ASSUME NEW a, NEW D, NEW s \in SUBSET D
  PROVE  Within(a, D, s, 0) = s
<1>1. 0..0 = {0}
  OBVIOUS
<1> QED BY <1>1, LinkedNot DEF Within

LEMMA WithinOn ==
  ASSUME NEW a, NEW D, \A p \in D : a[p] \subseteq D, NEW s \in SUBSET D, NEW n \in Nat
  PROVE  Within(a, D, s, n + 1) = Within(a, D, s, n) \union UNION {a[p] : p \in Within(a, D, s, n)}
<1>1. ASSUME NEW q \in Within(a, D, s, n + 1)
      PROVE  q \in Within(a, D, s, n) \/ \E p \in Within(a, D, s, n) : q \in a[p]
  <2>1. q \in D
    BY <1>1 DEF Within
  <2>2. PICK x \in s, k \in 0..(n + 1) : Linked(a, D, x, q, k)
    BY <1>1 DEF Within
  <2>3. CASE k \in 0..n
    BY <2>1, <2>2, <2>3 DEF Within
  <2>4. CASE k = n + 1
    <3>1. PICK r \in D : Linked(a, D, x, r, n) /\ q \in a[r]
      BY <2>1, <2>2, <2>4, LinkedOn
    <3>2. n \in 0..n
      OBVIOUS
    <3>3. r \in Within(a, D, s, n)
      BY <3>1, <3>2 DEF Within
    <3> QED BY <3>1, <3>3
  <2>5. k \in 0..n \/ k = n + 1
    BY <2>2
  <2> QED BY <2>3, <2>4, <2>5
<1>2. ASSUME NEW q \in Within(a, D, s, n) PROVE q \in Within(a, D, s, n + 1)
  <2>1. q \in D
    BY <1>2 DEF Within
  <2>2. PICK x \in s, k \in 0..n : Linked(a, D, x, q, k)
    BY <1>2 DEF Within
  <2>3. k \in 0..(n + 1)
    BY <2>2
  <2> QED BY <2>1, <2>2, <2>3 DEF Within
<1>3. ASSUME NEW p \in Within(a, D, s, n), NEW q \in a[p] PROVE q \in Within(a, D, s, n + 1)
  <2>1. p \in D
    BY <1>3 DEF Within
  <2>2. PICK x \in s, k \in 0..n : Linked(a, D, x, p, k)
    BY <1>3 DEF Within
  <2>3. q \in D /\ k \in Nat /\ k + 1 \in 0..(n + 1)
    BY <2>1, <2>2, <1>3
  <2>4. Linked(a, D, x, q, k + 1)
    BY <2>1, <2>2, <2>3, <1>3, LinkedOn
  <2> QED BY <2>2, <2>3, <2>4 DEF Within
<1>4. Within(a, D, s, n + 1) \subseteq Within(a, D, s, n) \union UNION {a[p] : p \in Within(a, D, s, n)}
  BY <1>1
<1>5. Within(a, D, s, n) \union UNION {a[p] : p \in Within(a, D, s, n)} \subseteq Within(a, D, s, n + 1)
  BY <1>2, <1>3
<1> QED BY <1>4, <1>5

\* What a search has seen but its frontier, it has seen the neighbours of.
RoundOK(a, r, within) ==
  /\ r.visited = within /\ r.frontier \subseteq within
  /\ \A p \in within \ r.frontier : a[p] \subseteq within

LEMMA WidenedIs ==
  ASSUME NEW a, NEW r, NEW within, RoundOK(a, r, within)
  PROVE  RoundOK(a, Widened(a, r), within \union UNION {a[p] : p \in within})
<1> DEFINE next == (UNION {a[p] : p \in r.frontier}) \ within
           wider == within \union UNION {a[p] : p \in within}
<1>1. Widened(a, r).visited = within \union next /\ Widened(a, r).frontier = next
  BY DEF Widened, RoundOK
<1>2. ASSUME NEW p \in within PROVE a[p] \subseteq within \union next
  <2>1. CASE p \in r.frontier
    <3> SUFFICES ASSUME NEW q \in a[p], q \notin within PROVE q \in next
      OBVIOUS
    <3>1. a[p] \in {a[x] : x \in r.frontier}
      BY <2>1
    <3>2. q \in UNION {a[x] : x \in r.frontier}
      BY <3>1
    <3> QED BY <3>2
  <2>2. CASE p \notin r.frontier
    BY <2>2 DEF RoundOK
  <2> QED BY <2>1, <2>2
<1>3. within \union next = wider
  <2>1. UNION {a[p] : p \in within} \subseteq within \union next
    BY <1>2
  <2>2. next \subseteq UNION {a[p] : p \in within}
    BY DEF RoundOK
  <2> QED BY <2>1, <2>2
<1>4. \A p \in wider \ next : a[p] \subseteq wider
  BY <1>2, <1>3
<1> HIDE DEF wider, next
<1>5. next \subseteq wider
  BY <1>3
<1>6. RoundOK(a, Widened(a, r), wider)
  BY <1>1, <1>3, <1>4, <1>5 DEF RoundOK
<1> QED BY <1>6 DEF wider

LEMMA RoundsReach ==
  ASSUME NEW a, NEW D, \A p \in D : a[p] \subseteq D, NEW s \in SUBSET D, NEW d \in Nat,
         NEW at, Rounds(a, s, d, at)
  PROVE  at[d].visited = Within(a, D, s, d)
<1> DEFINE S == {n \in Nat : n <= d => RoundOK(a, at[n], Within(a, D, s, n))}
<1>1. at[0] = [visited |-> s, frontier |-> s] /\ \A n \in 0..d : n # 0 => at[n] = Widened(a, at[n - 1])
  BY DEF Rounds
<1>2. 0 \in S
  BY <1>1, WithinNone DEF RoundOK
<1>3. ASSUME NEW n \in Nat, n \in S PROVE n + 1 \in S
  <2> SUFFICES ASSUME n + 1 <= d PROVE RoundOK(a, at[n + 1], Within(a, D, s, n + 1))
    OBVIOUS
  <2>1. RoundOK(a, at[n], Within(a, D, s, n))
    BY <1>3
  <2>2. at[n + 1] = Widened(a, at[n])
    <3>1. n + 1 \in 0..d /\ n + 1 # 0 /\ (n + 1) - 1 = n
      OBVIOUS
    <3>2. at[n + 1] = Widened(a, at[(n + 1) - 1])
      BY <1>1, <3>1
    <3> QED BY <3>1, <3>2
  <2>3. RoundOK(a, Widened(a, at[n]), Within(a, D, s, n) \union UNION {a[p] : p \in Within(a, D, s, n)})
    <3> DEFINE within == Within(a, D, s, n)
    <3>1. RoundOK(a, at[n], within)
      BY <2>1
    <3> HIDE DEF within
    <3>2. RoundOK(a, Widened(a, at[n]), within \union UNION {a[p] : p \in within})
      BY <3>1, WidenedIs
    <3> QED BY <3>2 DEF within
  <2>4. Within(a, D, s, n + 1) = Within(a, D, s, n) \union UNION {a[p] : p \in Within(a, D, s, n)}
    BY WithinOn
  <2> QED BY <2>2, <2>3, <2>4
<1> HIDE DEF S
<1>4. d \in S
  BY <1>2, <1>3, NatSet
<1> QED BY <1>4 DEF S, RoundOK

\* Breadth first finds what lies within the depth of the seeds, and nothing else.
LEMMA ExpandFinds ==
  ASSUME NEW a, NEW D, \A p \in D : a[p] \subseteq D, NEW s \in SUBSET D, NEW d \in Nat
  PROVE  Expand(a, s, d) = Within(a, D, s, d) \ s
<1> DEFINE At0 == CHOOSE at : Rounds(a, s, d, at)
<1>1. Rounds(a, s, d, At0)
  BY RoundsExist
<1>2. Expand(a, s, d) = At0[d].visited \ s
  BY DEF Expand, Rounds
<1> HIDE DEF At0
<1> QED BY <1>1, <1>2, RoundsReach

------------------------------------------------------------------------------
(* Maps and impacts *)

PathsOf(tree) == {f.path : f \in tree}

\* The entry of a file of an accepted commit.
LEMMA EntryIs ==
  ASSUME NEW tree, TrackedAccepted(tree), NEW f \in tree
  PROVE  /\ DOMAIN EntriesOf(tree) = PathsOf(tree)
         /\ EntriesOf(tree)[f.path].blob = f.blob
         /\ EntriesOf(tree)[f.path].dependencies = Dependencies(tree, f)
         /\ EntriesOf(tree)[f.path].dependents = {g.path : g \in {h \in tree : f.path \in Dependencies(tree, h)}}
<1>1. FileAt(tree, f.path) = f
  BY FileAtIs
<1>2. DOMAIN EntriesOf(tree) = PathsOf(tree)
  BY DEF EntriesOf, PathsOf
<1>3. EntriesOf(tree)[f.path] =
        [blob |-> f.blob, mode |-> f.mode, module |-> ModuleOf(f.path),
         dependencies |-> Dependencies(tree, f),
         dependents |-> {g.path : g \in {h \in tree : f.path \in Dependencies(tree, h)}}]
  BY <1>1 DEF EntriesOf
<1> QED BY <1>2, <1>3

\* Both adjacencies stay among the paths, and each is the other's inverse.
Forward(tree)  == [p \in PathsOf(tree) |-> EntriesOf(tree)[p].dependencies]
Backward(tree) == [p \in PathsOf(tree) |-> EntriesOf(tree)[p].dependents]

LEMMA AdjacencyOK ==
  ASSUME NEW tree, TrackedAccepted(tree)
  PROVE  /\ \A p \in PathsOf(tree) : /\ Forward(tree)[p] \subseteq PathsOf(tree)
                                     /\ Backward(tree)[p] \subseteq PathsOf(tree)
                                     /\ Forward(tree)[p] = Dependencies(tree, FileAt(tree, p))
         /\ \A p, q \in PathsOf(tree) : q \in Forward(tree)[p] <=> p \in Backward(tree)[q]
<1>1. ASSUME NEW f \in tree
      PROVE  /\ Forward(tree)[f.path] = Dependencies(tree, f)
             /\ Backward(tree)[f.path] = {g.path : g \in {h \in tree : f.path \in Dependencies(tree, h)}}
             /\ Dependencies(tree, f) \subseteq PathsOf(tree)
             /\ FileAt(tree, f.path) = f
  <2>1. f.path \in PathsOf(tree)
    BY DEF PathsOf
  <2>2. Dependencies(tree, f) \subseteq PathsOf(tree)
    BY DEF Dependencies, PathsOf
  <2> QED BY <2>1, <2>2, EntryIs, FileAtIs DEF Forward, Backward
<1>2. ASSUME NEW p \in PathsOf(tree)
      PROVE  /\ Forward(tree)[p] \subseteq PathsOf(tree) /\ Backward(tree)[p] \subseteq PathsOf(tree)
             /\ Forward(tree)[p] = Dependencies(tree, FileAt(tree, p))
  <2>1. PICK f \in tree : f.path = p
    BY DEF PathsOf
  <2>2. Backward(tree)[p] \subseteq PathsOf(tree)
    BY <1>1, <2>1 DEF PathsOf
  <2> QED BY <1>1, <2>1, <2>2
<1>3. ASSUME NEW p \in PathsOf(tree), NEW q \in PathsOf(tree)
      PROVE  q \in Forward(tree)[p] <=> p \in Backward(tree)[q]
  <2>1. PICK f \in tree : f.path = p
    BY DEF PathsOf
  <2>2. PICK g \in tree : g.path = q
    BY DEF PathsOf
  <2>3. \A h \in tree : h.path = p => h = f
    BY <1>1, <2>1
  <2>4. Forward(tree)[p] = Dependencies(tree, f)
    BY <1>1, <2>1
  <2>5. Backward(tree)[q] = {h.path : h \in {x \in tree : q \in Dependencies(tree, x)}}
    BY <1>1, <2>2
  <2> QED BY <2>1, <2>3, <2>4, <2>5
<1> QED BY <1>2, <1>3

\* The impact of a query of a commit's map is what lies within its depth.
LEMMA ImpactIs ==
  ASSUME NEW tree, TrackedAccepted(tree), NEW commit, NEW query, query.depth \in Nat,
         QueryAccepted(MapOf(commit, tree), query), Impact(MapOf(commit, tree), query) # None
  PROVE  LET impact == Impact(MapOf(commit, tree), query)
             D == PathsOf(tree)
         IN /\ impact.seeds = query.seeds /\ query.seeds \subseteq D
            /\ impact.context = Within(Forward(tree), D, query.seeds, query.depth) \ query.seeds
            /\ impact.dependents = Within(Backward(tree), D, query.seeds, query.depth) \ query.seeds
            /\ AllPaths(impact) \subseteq D
<1> DEFINE map == MapOf(commit, tree)
           D == PathsOf(tree)
           forward == [p \in DOMAIN map.entries |-> map.entries[p].dependencies]
           backward == [p \in DOMAIN map.entries |-> map.entries[p].dependents]
           context == Expand(forward, query.seeds, query.depth)
           dependents == Expand(backward, query.seeds, query.depth)
           all == query.seeds \union context \union dependents
<1>1. map.entries = EntriesOf(tree) /\ DOMAIN EntriesOf(tree) = D
  BY DEF MapOf, EntriesOf, PathsOf
<1>2. forward = Forward(tree) /\ backward = Backward(tree)
  <2> HIDE DEF map
  <2> QED BY <1>1 DEF Forward, Backward
<1>3. query.seeds \subseteq D
  BY <1>1 DEF QueryAccepted
<1>4. Impact(map, query) =
        [seeds |-> query.seeds, context |-> context, dependents |-> dependents,
         tests |-> {p \in all : IsTest(p)}, depth |-> query.depth]
  BY DEF Impact
<1>5. /\ \A p \in D : Forward(tree)[p] \subseteq D
      /\ \A p \in D : Backward(tree)[p] \subseteq D
  BY AdjacencyOK
<1>6. /\ context = Within(Forward(tree), D, query.seeds, query.depth) \ query.seeds
      /\ dependents = Within(Backward(tree), D, query.seeds, query.depth) \ query.seeds
  <2> HIDE DEF forward, backward, D
  <2>1. Expand(forward, query.seeds, query.depth) = Within(Forward(tree), D, query.seeds, query.depth) \ query.seeds
    BY <1>2, <1>3, <1>5, ExpandFinds
  <2>2. Expand(backward, query.seeds, query.depth) = Within(Backward(tree), D, query.seeds, query.depth) \ query.seeds
    BY <1>2, <1>3, <1>5, ExpandFinds
  <2> QED BY <2>1, <2>2
<1>7. context \subseteq D /\ dependents \subseteq D
  BY <1>6 DEF Within
<1> HIDE DEF context, dependents, D, all, map
<1>8. /\ Impact(map, query).seeds = query.seeds /\ Impact(map, query).context = context
      /\ Impact(map, query).dependents = dependents
  BY <1>4
<1>9. AllPaths(Impact(map, query)) \subseteq D
  BY <1>3, <1>7, <1>8 DEF AllPaths
<1> QED BY <1>3, <1>6, <1>8, <1>9 DEF map, D

------------------------------------------------------------------------------
(* Packages and impacts *)

\* What the selected run has.
LEMMA SelectedIs ==
  ASSUME Inv, Selected
  PROVE  /\ TrackedAccepted(Tree) /\ run.query \in Queries /\ run.query.depth \in Nat
         /\ run.map = MapOf(run.commit, Tree) /\ QueryAccepted(run.map, run.query)
         /\ run.impact = Impact(run.map, run.query) /\ run.impact # None
<1>1. MapMade /\ run.round >= 3
  BY DEF Inv, StageOK, Selected, MapMade
<1>2. TrackedAccepted(Tree) /\ run.query \in Queries
  BY <1>1 DEF Inv, CheckedOK, CallerOK
<1>3. run.query.depth \in Nat
  BY <1>2, QueriesOK
<1>4. /\ run.map = MapOf(run.commit, Tree) /\ QueryAccepted(run.map, run.query)
      /\ run.impact = Impact(run.map, run.query) /\ run.impact # None
  BY DEF Inv, PackageOK, Rebuilt
<1> QED BY <1>2, <1>3, <1>4

LEMMA PackageIs ==
  ASSUME Inv, At("done")
  PROVE  PackageOfCommit
<1>1. Selected /\ IsSealed
  BY DEF At, Selected, IsSealed
<1>2. /\ TrackedAccepted(Tree) /\ run.query.depth \in Nat
      /\ run.map = MapOf(run.commit, Tree) /\ QueryAccepted(run.map, run.query)
      /\ run.impact = Impact(run.map, run.query) /\ run.impact # None
  BY <1>1, SelectedIs
<1> DEFINE impact == Impact(MapOf(run.commit, Tree), run.query)
           Wanted == {g \in Tree : g.path \in AllPaths(impact)}
<1>3. impact = run.impact /\ AllPaths(impact) \subseteq PathsOf(Tree)
  BY <1>2, ImpactIs
<1>4. /\ run.package = PackageFor(run.map, run.impact, run.scope, run.files)
      /\ run.files = FilesOf(run.map, AllPaths(run.impact))
  BY <1>1 DEF Inv, PackageOK
<1>5. run.package.impact = run.impact /\ run.package.files = run.files
  BY <1>4 DEF PackageFor
<1>6. \A f \in Tree : run.map.entries[f.path].blob = f.blob
  <2>1. run.map.entries = EntriesOf(Tree)
    BY <1>2 DEF MapOf
  <2> QED BY <1>2, <2>1, EntryIs
<1> HIDE DEF impact
<1>7. FilesOf(run.map, AllPaths(impact)) = {[path |-> f.path, blob |-> f.blob] : f \in Wanted}
  <2>1. ASSUME NEW p \in AllPaths(impact)
        PROVE  \E f \in Wanted : [path |-> p, blob |-> run.map.entries[p].blob] = [path |-> f.path, blob |-> f.blob]
    <3>1. PICK f \in Tree : f.path = p
      BY <1>3 DEF PathsOf
    <3>2. f \in Wanted
      BY <3>1
    <3>3. run.map.entries[p].blob = f.blob
      BY <1>6, <3>1
    <3> QED BY <3>1, <3>2, <3>3
  <2>2. ASSUME NEW f \in Wanted
        PROVE  \E p \in AllPaths(impact) :
                 [path |-> p, blob |-> run.map.entries[p].blob] = [path |-> f.path, blob |-> f.blob]
    BY <1>6
  <2> HIDE DEF Wanted
  <2>3. FilesOf(run.map, AllPaths(impact)) \subseteq {[path |-> f.path, blob |-> f.blob] : f \in Wanted}
    BY <2>1 DEF FilesOf
  <2>4. {[path |-> f.path, blob |-> f.blob] : f \in Wanted} \subseteq FilesOf(run.map, AllPaths(impact))
    BY <2>2 DEF FilesOf
  <2> QED BY <2>3, <2>4
<1> QED BY <1>3, <1>4, <1>5, <1>7 DEF PackageOfCommit, impact

(* A package is of its commit alone: the files the impact of its seeds     *)
(* names with the bytes of the commit, whatever map was passed and whatever*)
(* the object database returned (build_repository_context_package(),       *)
(* build_detached_repository_context_package()).                           *)
THEOREM PackageOfCommitCorrect == Spec => []PackageOfCommit
<1>1. Inv => PackageOfCommit
  BY PackageIs DEF PackageOfCommit
<1> QED BY <1>1, InvCorrect, PTL

(* The package of a map-assisted request holds files of the request's own  *)
(* fixture, with the request's scope (build_map_assisted_trial_request()). *)
THEOREM ContextIsFixtureCorrect == Spec => []ContextIsFixture
<1>1. Inv => ContextIsFixture
  <2> SUFFICES ASSUME Inv, At("done"), run.mode = "assisted" PROVE ContextIsFixture
    BY DEF ContextIsFixture
  <2> DEFINE request == Requests[run.session.request]
  <2>1. PackageOfCommit
    BY PackageIs
  <2>2. /\ run.session.git = run.session.request
        /\ run.commit = Requests[run.session.git].base
    BY DEF Inv, CallerOK, SessionAccepted
  <2>3. Tree = CommitTree[request.base]
    BY <2>2 DEF Tree
  <2>4. run.package.files \subseteq {[path |-> f.path, blob |-> f.blob] : f \in CommitTree[request.base]}
    BY <2>1, <2>3 DEF PackageOfCommit
  <2>5. /\ run.package = PackageFor(run.map, run.impact, run.scope, run.files)
        /\ run.scope = request.allowed
    BY DEF Inv, PackageOK, IsSealed, At
  <2>6. run.package.scope = request.allowed
    BY <2>5 DEF PackageFor
  <2> QED BY <2>4, <2>6 DEF ContextIsFixture
<1> QED BY <1>1, InvCorrect, PTL

\* A chain of one step or more is what ImpactExact counts.
LEMMA ReachesIs ==
  ASSUME TrackedAccepted(Tree), NEW d \in Nat, NEW p \in PathsOf(Tree), NEW q
  PROVE  Reaches(p, q, d) <=> \E n \in 1..d : Linked(Forward(Tree), PathsOf(Tree), p, q, n)
<1>1. \A x \in PathsOf(Tree) : Forward(Tree)[x] = Dependencies(Tree, FileAt(Tree, x))
  BY AdjacencyOK
<1>2. ASSUME NEW n \in 1..d, NEW chain \in [1..(n + 1) -> PathsOf(Tree)]
      PROVE  (\A i \in 1..n : chain[i + 1] \in Dependencies(Tree, FileAt(Tree, chain[i])))
                <=> \A i \in 1..n : chain[i + 1] \in Forward(Tree)[chain[i]]
  <2>1. \A i \in 1..n : chain[i] \in PathsOf(Tree)
    BY <1>2
  <2> QED BY <1>1, <2>1
<1> QED BY <1>2 DEF Reaches, Linked, PathsOf

\* What lies within the depth of a seed besides the seeds is reached.
LEMMA WithinReaches ==
  ASSUME NEW a, NEW D, NEW s \in SUBSET D, NEW d \in Nat
  PROVE  (Within(a, D, s, d) \ s) \union s =
           s \union {q \in D : \E x \in s : \E n \in 1..d : Linked(a, D, x, q, n)}
<1>1. ASSUME NEW q \in Within(a, D, s, d), q \notin s
      PROVE  \E x \in s : \E n \in 1..d : Linked(a, D, x, q, n)
  <2>1. PICK x \in s, n \in 0..d : Linked(a, D, x, q, n)
    BY <1>1 DEF Within
  <2>2. n # 0
    BY <1>1, <2>1, LinkedNot
  <2> QED BY <2>1, <2>2
<1>2. ASSUME NEW q \in D, NEW x \in s, NEW n \in 1..d, Linked(a, D, x, q, n)
      PROVE  q \in Within(a, D, s, d)
  <2>1. n \in 0..d
    OBVIOUS
  <2> QED BY <1>2, <2>1 DEF Within
<1>3. Within(a, D, s, d) \subseteq D
  BY DEF Within
<1> QED BY <1>1, <1>2, <1>3

(* An impact is complete to its depth in both directions, and holds nothing*)
(* else (_expand(), discover_repository_impact()).                         *)
THEOREM ImpactExactCorrect == Spec => []ImpactExact
<1>1. Inv => ImpactExact
  <2> SUFFICES ASSUME Inv, At("blobs") PROVE ImpactExact
    BY DEF ImpactExact
  <2> DEFINE D == PathsOf(Tree)
             s == run.query.seeds
             d == run.query.depth
             F == Forward(Tree)
             B == Backward(Tree)
  <2>1. /\ TrackedAccepted(Tree) /\ d \in Nat
        /\ run.map = MapOf(run.commit, Tree) /\ QueryAccepted(run.map, run.query)
        /\ run.impact = Impact(run.map, run.query) /\ run.impact # None
    BY SelectedIs DEF Selected, At
  <2>2. /\ s \subseteq D
        /\ run.impact.context = Within(F, D, s, d) \ s
        /\ run.impact.dependents = Within(B, D, s, d) \ s
    BY <2>1, ImpactIs
  <2>3. DOMAIN run.map.entries = D
    BY <2>1 DEF MapOf, EntriesOf, PathsOf
  <2>4. ASSUME NEW p \in D, NEW q \in D PROVE Reaches(p, q, d) <=> \E n \in 1..d : Linked(F, D, p, q, n)
    BY <2>1, ReachesIs
  <2>5. ASSUME NEW p \in D, NEW q \in D, NEW n \in 1..d
        PROVE  Linked(F, D, p, q, n) <=> Linked(B, D, q, p, n)
    <3>1. \A x, y \in D : y \in F[x] <=> x \in B[y]
      BY <2>1, AdjacencyOK
    <3> HIDE DEF D, F, B
    <3>2. n \in Nat
      BY <2>1
    <3> QED BY <3>1, <3>2, LinkedBack
  <2> HIDE DEF D, F, B, s, d
  <2>6. (Within(F, D, s, d) \ s) \union s =
          s \union {q \in D : \E x \in s : \E n \in 1..d : Linked(F, D, x, q, n)}
    BY <2>1, <2>2, WithinReaches
  <2>7. (Within(B, D, s, d) \ s) \union s =
          s \union {q \in D : \E x \in s : \E n \in 1..d : Linked(B, D, x, q, n)}
    BY <2>1, <2>2, WithinReaches
  <2>8. {q \in D : \E x \in s : \E n \in 1..d : Linked(F, D, x, q, n)} = {q \in D : \E x \in s : Reaches(x, q, d)}
    BY <2>2, <2>4
  <2>9. {q \in D : \E x \in s : \E n \in 1..d : Linked(B, D, x, q, n)} = {q \in D : \E x \in s : Reaches(q, x, d)}
    BY <2>2, <2>4, <2>5
  <2> QED BY <2>2, <2>3, <2>6, <2>7, <2>8, <2>9 DEF ImpactExact, s, d
<1> QED BY <1>1, InvCorrect, PTL

------------------------------------------------------------------------------
(* Imports *)

\* A sequence with an element at its end, and without its last one.
LEMMA FrontOfAppend ==
  ASSUME NEW S, NEW s \in Seq(S), NEW x \in S
  PROVE  /\ Append(s, x) \in Seq(S) /\ Append(s, x) # <<>>
         /\ Front(Append(s, x)) = s /\ Last(Append(s, x)) = x
<1> DEFINE t == Append(s, x)
<1>1. t \in Seq(S) /\ Len(t) = Len(s) + 1 /\ t[Len(t)] = x /\ \A i \in 1..Len(s) : t[i] = s[i]
  OBVIOUS
<1> HIDE DEF t
<1>2. Front(t) = SubSeq(t, 1, Len(s))
  BY <1>1 DEF Front
<1>3. SubSeq(t, 1, Len(s)) = s
  BY <1>1
<1>4. t # <<>>
  BY <1>1
<1> QED BY <1>1, <1>2, <1>3, <1>4 DEF Last, t

LEMMA AppendOfFront ==
  ASSUME NEW S, NEW t \in Seq(S), t # <<>>
  PROVE  Front(t) \in Seq(S) /\ Last(t) \in S /\ Append(Front(t), Last(t)) = t
<1>1. Len(t) \in Nat /\ Len(t) > 0
  OBVIOUS
<1>2. /\ Front(t) \in Seq(S) /\ Len(Front(t)) = Len(t) - 1
      /\ \A i \in 1..(Len(t) - 1) : Front(t)[i] = t[i]
  <2> DEFINE n == Len(t) - 1
  <2>1. n \in Nat /\ n <= Len(t) /\ Front(t) = SubSeq(t, 1, n)
    BY <1>1 DEF Front
  <2> HIDE DEF n
  <2>2. Len(SubSeq(t, 1, n)) = n /\ SubSeq(t, 1, n) \in Seq(S) /\ \A i \in 1..n : SubSeq(t, 1, n)[i] = t[i]
    BY <1>1, <2>1
  <2> QED BY <2>1, <2>2 DEF n
<1>3. Last(t) = t[Len(t)] /\ Last(t) \in S
  BY <1>1 DEF Last
<1> DEFINE u == Append(Front(t), Last(t))
<1>4. u \in Seq(S) /\ Len(u) = Len(t)
  BY <1>1, <1>2, <1>3
<1>5. \A i \in 1..Len(t) : u[i] = t[i]
  BY <1>1, <1>2, <1>3
<1> HIDE DEF u
<1>6. u = t
  BY <1>4, <1>5
<1> QED BY <1>2, <1>3, <1>6 DEF u

LEMMA IdentifiersAreText ==
  /\ Seq(Identifiers) \subseteq Seq(STRING) /\ None \notin Seq(Identifiers)
<1>1. ASSUME NEW s \in Seq(Identifiers) PROVE s \in Seq(STRING)
  <2>1. \A i \in 1..Len(s) : s[i] \in Identifiers
    OBVIOUS
  <2>2. Identifiers \subseteq STRING
    BY NamesAreText
  <2>3. \A i \in 1..Len(s) : s[i] \in STRING
    BY <2>1, <2>2
  <2> QED BY <2>3
<1> QED BY <1>1, NamesAreText

LEMMA RangeInside ==
  ASSUME NEW S, NEW T, NEW s \in Seq(S)
  PROVE  Range(s) \subseteq T <=> s \in Seq(T)
<1>1. ASSUME Range(s) \subseteq T PROVE s \in Seq(T)
  <2>1. \A i \in 1..Len(s) : s[i] \in T
    BY <1>1 DEF Range
  <2> QED BY <2>1
<1>2. ASSUME s \in Seq(T) PROVE Range(s) \subseteq T
  BY <1>2 DEF Range
<1> QED BY <1>1, <1>2

\* A file seen from the directories has the dotted name it has.
LEMMA ModuleIs ==
  ASSUME NEW p \in Paths, NEW t \in Seq(Identifiers)
  PROVE  ModuleOf(p) = t <=>
           /\ t # <<>> /\ p.py
           /\ \/ p.dirs = Front(t) /\ p.stem = Last(t) /\ p.stem # "__init__"
              \/ p.dirs = t /\ p.stem = "__init__"
<1>1. p.dirs \in Seq(STRING) /\ p.stem \in STRING /\ t \in Seq(STRING) /\ t # None
  BY IdentifiersAreText DEF Paths
<1>2. Append(p.dirs, p.stem) \in Seq(STRING)
  BY <1>1
<1>3. CASE p.stem = "__init__"
  <2>1. ModuleOf(p) = IF p.py /\ p.dirs # <<>> /\ Range(p.dirs) \subseteq Identifiers THEN p.dirs ELSE None
    BY <1>3 DEF ModuleOf
  <2>2. Range(p.dirs) \subseteq Identifiers <=> p.dirs \in Seq(Identifiers)
    BY <1>1, RangeInside
  <2> QED BY <1>1, <1>3, <2>1, <2>2
<1>4. CASE p.stem # "__init__"
  <2> DEFINE parts == Append(p.dirs, p.stem)
  <2>1. ModuleOf(p) = IF p.py /\ parts # <<>> /\ Range(parts) \subseteq Identifiers THEN parts ELSE None
    BY <1>4 DEF ModuleOf, Names
  <2>2. Range(parts) \subseteq Identifiers <=> parts \in Seq(Identifiers)
    BY <1>2, RangeInside
  <2>3. parts = t <=> t # <<>> /\ p.dirs = Front(t) /\ p.stem = Last(t)
    <3>1. ASSUME parts = t PROVE t # <<>> /\ p.dirs = Front(t) /\ p.stem = Last(t)
      BY <1>1, <3>1, FrontOfAppend
    <3>2. ASSUME t # <<>>, p.dirs = Front(t), p.stem = Last(t) PROVE parts = t
      BY <1>1, <3>2, AppendOfFront
    <3> QED BY <3>1, <3>2
  <2>4. parts # <<>>
    BY <1>1
  <2> HIDE DEF parts
  <2> QED BY <1>1, <1>4, <2>1, <2>2, <2>3, <2>4
<1> QED BY <1>3, <1>4

\* The directory an import starts from.
From(p, i) == IF i.level = 0 THEN <<>> ELSE SubSeq(p.dirs, 1, Len(p.dirs) - (i.level - 1))

LEMMA BaseIs ==
  ASSUME NEW p \in Paths, p.py, NEW i \in Statements, Base(p, i) # None
  PROVE  /\ Base(p, i) \in Seq(Identifiers) /\ From(p, i) \in Seq(Identifiers)
         /\ Base(p, i) = From(p, i) \o i.module
<1>1. i.level \in Nat /\ i.module \in Seq(Identifiers) /\ p.dirs \in Seq(STRING) /\ p.stem \in STRING
  BY DEF Statements, Paths
<1>2. CASE i.level = 0
  <2>1. Base(p, i) = i.module /\ From(p, i) = <<>>
    BY <1>2 DEF Base, From
  <2>2. <<>> \in Seq(Identifiers) /\ <<>> \o i.module = i.module
    BY <1>1
  <2> QED BY <1>1, <2>1, <2>2
<1>3. CASE i.level # 0
  <2>1. Base(p, i) = RelativeBase(p, i.level, i.module)
    BY <1>3 DEF Base
  <2>2. ~(i.level > Len(PackageOf(p)))
    BY <2>1 DEF RelativeBase
  <2>3. ModuleOf(p) # None
    <3>1. ASSUME ModuleOf(p) = None PROVE FALSE
      <4>1. Len(PackageOf(p)) = 0
        BY <3>1 DEF PackageOf
      <4> QED BY <1>1, <1>3, <2>2, <4>1
    <3> QED BY <3>1
  <2>4. PackageOf(p) = p.dirs /\ p.dirs \in Seq(Identifiers)
    <3>1. CASE p.stem = "__init__"
      <4>1. ModuleOf(p) = p.dirs /\ Range(p.dirs) \subseteq Identifiers
        BY <2>3, <3>1 DEF ModuleOf
      <4> QED BY <1>1, <2>3, <3>1, <4>1, RangeInside DEF PackageOf
    <3>2. CASE p.stem # "__init__"
      <4> DEFINE parts == Append(p.dirs, p.stem)
      <4>1. ModuleOf(p) = parts /\ Range(parts) \subseteq Identifiers
        BY <2>3, <3>2 DEF ModuleOf, Names
      <4>2. parts \in Seq(STRING) /\ parts # <<>> /\ Front(parts) = p.dirs
        BY <1>1, FrontOfAppend
      <4>3. PackageOf(p) = p.dirs
        BY <2>3, <3>2, <4>1, <4>2 DEF PackageOf
      <4> HIDE DEF parts
      <4>4. parts \in Seq(Identifiers)
        BY <4>1, <4>2, RangeInside
      <4>5. Front(parts) \in Seq(Identifiers)
        BY <4>2, <4>4, AppendOfFront
      <4> QED BY <4>2, <4>3, <4>5
    <3> QED BY <3>1, <3>2
  <2>5. From(p, i) = SubSeq(p.dirs, 1, Len(p.dirs) - (i.level - 1))
    BY <1>3 DEF From
  <2>6. Base(p, i) = From(p, i) \o i.module
    BY <2>1, <2>2, <2>4, <2>5 DEF RelativeBase
  <2>7. From(p, i) \in Seq(Identifiers)
    <3>1. i.level - 1 \in Nat /\ Len(p.dirs) \in Nat /\ i.level <= Len(p.dirs) /\ i.level \in Nat
      BY <1>1, <1>3, <2>2, <2>4
    <3> DEFINE n == Len(p.dirs)
               k == i.level
    <3>2. n \in Nat /\ k \in Nat /\ k - 1 \in Nat /\ k <= n
      BY <3>1
    <3> HIDE DEF n, k
    <3>3. n - (k - 1) \in 1..n
      BY <3>2
    <3>4. Len(p.dirs) - (i.level - 1) \in 1..Len(p.dirs)
      BY <3>3 DEF n, k
    <3> QED BY <2>4, <2>5, <3>4
  <2>8. From(p, i) \o i.module \in Seq(Identifiers)
    BY <1>1, <2>7
  <2> QED BY <2>6, <2>7, <2>8
<1> QED BY <1>2, <1>3

\* An import names a file's module when, seen from the directories, it is one.
Targets(p, i) ==
  {From(p, i) \o i.module} \union {From(p, i) \o i.module \o <<n>> : n \in i.names \ {"*"}}

LEMMA CandidatesAre ==
  ASSUME NEW p \in Paths, p.py, NEW i \in Statements, Base(p, i) # None
  PROVE  Candidates(p, i) = Targets(p, i) /\ Candidates(p, i) \subseteq Seq(Identifiers)
<1>1. /\ Base(p, i) \in Seq(Identifiers) /\ Base(p, i) = From(p, i) \o i.module
  BY BaseIs
<1>2. i.names \ {"*"} \subseteq Identifiers
  BY DEF Statements
<1> DEFINE base == Base(p, i)
           names == i.names \ {"*"}
<1>3. base \in Seq(Identifiers) /\ names \subseteq Identifiers
  BY <1>1, <1>2
<1>4. Candidates(p, i) = {base} \union {Append(base, n) : n \in names}
  BY DEF Candidates
<1>5. Targets(p, i) = {base} \union {base \o <<n>> : n \in names}
  BY <1>1 DEF Targets
<1> HIDE DEF base, names
<1>6. \A n \in names : Append(base, n) = base \o <<n>> /\ Append(base, n) \in Seq(Identifiers)
  BY <1>3
<1>7. {Append(base, n) : n \in names} = {base \o <<n>> : n \in names}
  BY <1>6
<1> QED BY <1>3, <1>4, <1>5, <1>6, <1>7

LEMMA ImportsIs ==
  ASSUME NEW f, NEW g, f.path \in Paths, g.path \in Paths, f.path.py, Parses(f),
         f.blob.imports \subseteq Statements
  PROVE  Imports(f, g) <=> ModuleOf(g.path) \in UNION {Candidates(f.path, i) : i \in f.blob.imports}
<1> DEFINE Names0(t) == /\ g.path.py
                        /\ \/ g.path.dirs = Front(t) /\ g.path.stem = Last(t) /\ g.path.stem # "__init__"
                           \/ g.path.dirs = t /\ g.path.stem = "__init__"
<1>1. Imports(f, g) <=> \E i \in f.blob.imports : \E t \in Targets(f.path, i) \ {<<>>} : Names0(t)
  BY DEF Imports, Targets, From
<1>2. ASSUME NEW i \in f.blob.imports
      PROVE  (\E t \in Targets(f.path, i) \ {<<>>} : Names0(t)) <=> ModuleOf(g.path) \in Candidates(f.path, i)
  <2>1. Base(f.path, i) # None /\ i \in Statements
    BY DEF Parses
  <2>2. Candidates(f.path, i) = Targets(f.path, i) /\ Candidates(f.path, i) \subseteq Seq(Identifiers)
    BY <2>1, CandidatesAre
  <2>3. \A t \in Targets(f.path, i) : ModuleOf(g.path) = t <=> t # <<>> /\ Names0(t)
    BY <2>2, ModuleIs
  <2> HIDE DEF Names0
  <2> QED BY <2>2, <2>3
<1> HIDE DEF Names0
<1> QED BY <1>1, <1>2

LEMMA DependenciesAre ==
  ASSUME TrackedAccepted(Tree), \A f \in Python(Tree) : Parses(f), run.commit \in Commits,
         NEW f \in Tree, NEW g \in Tree
  PROVE  (f # g /\ f.path.py /\ Imports(f, g)) <=> g.path \in Dependencies(Tree, f)
<1>1. /\ f.path \in Paths /\ g.path \in Paths
      /\ f.blob.imports = None \/ f.blob.imports \subseteq Statements
  BY CommitsOK DEF Tree
<1>2. CASE ~f.path.py
  BY <1>2 DEF Dependencies
<1>3. CASE f.path.py
  <2>1. Parses(f) /\ f.blob.imports # None
    BY <1>3 DEF Python, Parses
  <2> DEFINE names == UNION {Candidates(f.path, i) : i \in f.blob.imports}
  <2>2. Imports(f, g) <=> ModuleOf(g.path) \in names
    BY <1>1, <1>3, <2>1, ImportsIs
  <2>3. Dependencies(Tree, f) = {h.path : h \in {x \in Tree \ {f} : ModuleOf(x.path) \in names}}
    BY <1>3 DEF Dependencies
  <2> HIDE DEF names
  <2>4. \A h \in Tree : h.path = g.path => h = g
    BY FileAtIs
  <2> QED BY <1>3, <2>2, <2>3, <2>4
<1> QED BY <1>2, <1>3

(* A map holds exactly the commit's files and its imports, in both         *)
(* directions (build_repository_map(), build_detached_repository_map()).   *)
THEOREM MapExactCorrect == Spec => []MapExact
<1>1. Inv => MapExact
  <2> SUFFICES ASSUME Inv, At("list"), run.round = 3, Rebuilt PROVE MapExact
    BY DEF MapExact
  <2>1. TrackedAccepted(Tree) /\ (\A f \in Python(Tree) : Parses(f)) /\ run.commit \in Commits
    BY DEF Inv, CheckedOK, MapMade, TypeOK, At, Ended
  <2>2. run.map.entries = EntriesOf(Tree)
    BY DEF Rebuilt, MapOf
  <2>3. DOMAIN run.map.entries = PathsOf(Tree)
    BY <2>2 DEF EntriesOf, PathsOf
  <2>4. \A f \in Tree : run.map.entries[f.path].dependencies = Dependencies(Tree, f)
    BY <2>1, <2>2, EntryIs
  <2>5. \A f, g \in Tree :
          (f # g /\ f.path.py /\ Imports(f, g)) <=> g.path \in run.map.entries[f.path].dependencies
    BY <2>1, <2>4, DependenciesAre
  <2>6. \A p, q \in PathsOf(Tree) :
          p \in run.map.entries[q].dependencies <=> q \in run.map.entries[p].dependents
    BY <2>1, <2>2, AdjacencyOK DEF Forward, Backward
  <2> QED BY <2>3, <2>5, <2>6 DEF MapExact, PathsOf
<1> QED BY <1>1, InvCorrect, PTL
==============================================================================
