-------------------------- MODULE RepositoryContext --------------------------
(***************************************************************************)
(* Building a map of a commit and a package of files to read, while refs   *)
(* move, objects are damaged and the workspace is written to.              *)
(*                                                                         *)
(* Three callers: "attached" reads a work tree with its own Git directory  *)
(* (scripts/agent_repository_map.py, agent_repository_context.py);         *)
(* "detached" a workspace beside a bare Git directory                      *)
(* (agent_repository_detached.py); "assisted" makes the package of a       *)
(* prepared evaluation session (agent_eval_map_context.py).  Every Git     *)
(* command is a step.  The inspection of the workspace is one step here:   *)
(* TrialSession has it file by file.                                       *)
(***************************************************************************)
EXTENDS RepositoryMap

CONSTANTS
  CommitTree,   \* the files of each commit
  Requests,     \* trial requests: [base, allowed], base the commit of the fixture
  Sessions,     \* sessions that may be given: of which request trial and Git are
  Refs,         \* what the repository's refs may be at the beginning
  Queries,      \* seeds, depth and limit of an impact query
  Scopes,       \* trusted scopes callers pass, those of the requests among them
  MaxChanges    \* bound of the changes others make

Commits == DOMAIN CommitTree

\* Commits are numbered, a later one higher; the imports of a blob are a set
\* of statements, or None where its syntax has an error.
ASSUME CommitsOK ==
  /\ Commits \subseteq Nat /\ None \notin Commits
  /\ \A c \in Commits : \A f \in CommitTree[c] :
       f.path \in Paths /\ (f.blob.imports = None \/ f.blob.imports \subseteq Statements)
ASSUME RefsOK ==
  Refs \subseteq [baseline : Commits \union {None}, head : Commits \union {None}, remote : BOOLEAN]
ASSUME SessionsOK ==
  /\ \A s \in Sessions : {s.request, s.git} \subseteq DOMAIN Requests
  /\ \A r \in DOMAIN Requests : Requests[r].base \in Commits
ASSUME QueriesOK == \A q \in Queries : q.depth \in Nat

Blobs   == {f.blob : f \in UNION {CommitTree[c] : c \in Commits}}

VARIABLES
  repo,        \* baseline, head: the refs; remote: one is configured
  store,       \* what the object database returns for a blob
  workspace,   \* the workspace is the fixture
  run,         \* the caller's run
  changes      \* how many changes others made

vars == <<repo, store, workspace, run, changes>>

Idle == [at |-> "idle", mode |-> "attached", commit |-> None, session |-> None,
         query |-> None, scope |-> {}, round |-> 1, anchors |-> {}, todo |-> {},
         map |-> None, impact |-> None, files |-> {}, package |-> None,
         read |-> {}, moved |-> {}]

At(step) == run.at = step
Tree == CommitTree[run.commit]

Init ==
  /\ repo \in Refs /\ store = [b \in Blobs |-> b] /\ workspace = TRUE
  /\ run = Idle /\ changes = 0

Step(r) == run' = r /\ UNCHANGED <<repo, store, workspace, changes>>
Refuse  == Step([Idle EXCEPT !.at = "refused"])
\* An error of one command ends the run; so it does in every step below.
Unless(failed, r) == IF failed THEN Refuse ELSE Step(r)

\* What was read at r is relied on until it is read for the last time.
Noted(r, thing, last) ==
  [r EXCEPT !.read = IF last THEN @ \ {thing} ELSE @ \union {thing}]

\* A ref that cannot be read passes for one that is not there: nothing new is
\* relied on, and what it does after the last answer is not looked at.
Unread(r, thing, last) ==
  [r EXCEPT !.moved = @ \ {thing}, !.read = IF last THEN @ \ {thing} ELSE @]

\* The next look at the refs: an attached caller only compares HEAD.
Anchoring(r, round) ==
  [r EXCEPT !.at = IF r.mode = "attached" THEN "head" ELSE "remote", !.round = round, !.anchors = {}]

------------------------------------------------------------------------------
(* Callers *)

StartMap(mode, commit) ==
  /\ At("idle") /\ mode \in {"attached", "detached"}
  /\ Step(Anchoring([run EXCEPT !.mode = mode, !.commit = commit], 1))

(* Mutant of SessionAccepted: whose Git directory it is is not looked at. *)
SessionAcceptedTrial(s) == s.trial = s.request

\* _validate_prepared_session(): trial and Git evidence are of the request.
SessionAccepted(s) ==
  /\ s.trial = s.request
  /\ s.git = s.request /\ s.workspace = s.gitWorkspace
  /\ CommitTree[Requests[s.git].base] = CommitTree[Requests[s.request].base]

StartAssisted(session) ==
  /\ At("idle")
  /\ Unless(~SessionAccepted(session),
       [run EXCEPT !.at = "before", !.mode = "assisted", !.session = session,
                   !.commit = Requests[session.git].base])

\* The agent-visible request: the trial request and, beside it, the package.
Wrapper ==
  [request |-> run.session.request, commit |-> run.map.commit, tree |-> run.map.tree,
   map |-> run.map.digest, context |-> run.package]

WrapperAccepted(w) ==
  /\ w.context.commit = w.commit /\ w.context.tree = w.tree /\ w.context.map = w.map
  /\ w.context.scope = Requests[w.request].allowed

\* _unchanged_fixture(), before and after.
Unchanged ==
  \/ /\ At("before")
     /\ Unless(~workspace, Anchoring(Noted(run, "workspace", FALSE), 1))
  \/ /\ At("after")
     /\ Unless(~workspace \/ ~WrapperAccepted(Wrapper), [Noted(run, "workspace", TRUE) EXCEPT !.at = "done"])

------------------------------------------------------------------------------
(* Anchors *)

\* The last round of _assert_metadata_identity(), or of the look at HEAD.
LastRound == run.round = IF run.mode = "attached" THEN 3 ELSE 6

ReadRemote ==
  /\ At("remote")
  /\ Unless(repo.remote, [Noted(run, "remote", LastRound) EXCEPT !.at = "baseline"])

ReadBaseline ==
  /\ At("baseline")
  /\ Step([Noted(run, "baseline", LastRound) EXCEPT !.at = "head", !.anchors = {repo.baseline}])

\* The refs that were there, of which one must be and all must name the commit.
NotAnchored(head) == (run.anchors \union {head}) \ {None} # {run.commit}

\* What comes after the refs were found to name the commit.
Anchored(r) ==
  CASE r.round \in {1, 3} -> [r EXCEPT !.at = "list"]
    [] r.round = 2 -> [r EXCEPT !.at = "call"]
    [] r.round = 4 -> [r EXCEPT !.at = "select"]
    [] r.round = 5 -> [r EXCEPT !.at = "blobs"]
    [] r.round = 6 -> [r EXCEPT !.at = IF r.mode = "assisted" THEN "identity" ELSE "done"]

ReadHead ==
  /\ At("head")
  /\ Unless(NotAnchored(repo.head), Anchored(Noted(run, "head", LastRound)))

RefUnread ==
  /\ changes < MaxChanges /\ changes' = changes + 1 /\ run.mode # "attached"
  /\ \/ At("baseline") /\ run' = [Unread(run, "baseline", LastRound) EXCEPT !.at = "head"]
     \/ /\ At("head") /\ ~NotAnchored(None)
        /\ run' = Anchored(Unread(run, "head", LastRound))
  /\ UNCHANGED <<repo, store, workspace>>

\* Any other command that fails, or does not end, ends the run.
CommandFails == run.at \in {"remote", "head", "list", "python", "blobs"} /\ Refuse

------------------------------------------------------------------------------
(* The map *)

List ==
  /\ At("list")
  /\ Unless(~TrackedAccepted(Tree) \/ ~ModulesDistinct(Tree),
       [run EXCEPT !.at = "python", !.todo = {f.path : f \in Python(Tree)}])

(* Mutant of Intact: what comes back is not hashed. *)
IntactSize(blob) == store[blob] # None /\ store[blob].size = blob.size

\* The object database returned the bytes of this blob.
Intact(blob) == store[blob] = blob

\* One Python blob is read and parsed.
ReadPython ==
  /\ At("python") /\ run.todo # {}
  /\ LET f == FileAt(Tree, CHOOSE p \in run.todo : TRUE) IN
     Unless(f.blob.size > MaxPythonSize \/ ~Intact(f.blob) \/ ~Parses(f),
       [run EXCEPT !.todo = @ \ {f.path}])

Mapped(r) ==
  IF r.mode # "attached" THEN Anchoring(r, r.round + 1)
  ELSE [r EXCEPT !.at = IF r.round = 1 THEN "call" ELSE "select"]

\* The map is made; the first is returned, the second compared with it.
MakeMap ==
  /\ At("python") /\ run.todo = {}
  /\ Unless(~EdgesAccepted(Tree),
       Mapped([run EXCEPT !.map = IF run.round = 1 THEN MapOf(run.commit, Tree) ELSE @]))

------------------------------------------------------------------------------
(* The package *)

\* The map is passed on, and was perhaps changed, or made elsewhere; an
\* assisted caller passes the request's own scope.
Pass(query, scope) ==
  /\ At("call")
  /\ run.mode = "assisted" => scope = Requests[run.session.request].allowed
  /\ Unless(~Serializes(run.map), Anchoring([run EXCEPT !.query = query, !.scope = scope], 3))

\* The map passed is the one rebuilt from the repository.
Rebuilt == run.map = MapOf(run.commit, Tree)

\* Everything between the map and the first blob is computed.
Select ==
  /\ At("select")
  /\ LET found == Impact(run.map, run.query) IN
     Unless(\/ ~Rebuilt \/ ~ScopeAccepted(run.scope) \/ ~QueryAccepted(run.map, run.query)
            \/ found = None \/ Cardinality(AllPaths(found)) > MaxFiles,
       IF run.mode = "attached"
         THEN [run EXCEPT !.at = "blobs", !.impact = found, !.todo = AllPaths(found)]
         ELSE Anchoring([run EXCEPT !.impact = found, !.todo = AllPaths(found)], 5))

TotalSize(files) == MapThenSumSet(LAMBDA f : f.blob.size, files)

ReadBlob ==
  /\ At("blobs") /\ run.todo # {}
  /\ LET p == CHOOSE p \in run.todo : TRUE
         blob == run.map.entries[p].blob
         files == run.files \union {[path |-> p, blob |-> store[blob]]}
     IN Unless(\/ ~Intact(blob) \/ ~Readable(store[blob]) \/ TotalSize(files) > MaxTotalSize,
          [run EXCEPT !.todo = @ \ {p}, !.files = files])

(* Mutant of Sealed: the refs are not looked at again. *)
SealedAtOnce(r) == [r EXCEPT !.at = IF r.mode = "assisted" THEN "identity" ELSE "done"]

Sealed(r) == IF r.mode = "attached" THEN [r EXCEPT !.at = "done"] ELSE Anchoring(r, 6)

Seal ==
  /\ At("blobs") /\ run.todo = {}
  /\ Step(Sealed([run EXCEPT !.package = PackageFor(run.map, run.impact, run.scope, run.files)]))

\* Map and package are of the session's commit, with the request's scope.
Identity ==
  /\ At("identity")
  /\ Unless(\/ run.package.tree # CommitTree[Requests[run.session.git].base]
            \/ run.package.commit # Requests[run.session.git].base
            \/ run.package.scope # Requests[run.session.request].allowed,
       [run EXCEPT !.at = "after"])

------------------------------------------------------------------------------
(* Everybody else *)

Changing == run.at \notin {"idle", "done", "refused"} /\ changes < MaxChanges
Moving(things) ==
  run' = [run EXCEPT !.moved = @ \union (things \intersect run.read)]

\* A ref is moved to a later commit; HEAD of a bare directory may be its own.
MoveRef ==
  /\ Changing /\ changes' = changes + 1
  /\ \E ref \in {"baseline", "head"}, c \in Commits :
       /\ repo[ref] # None /\ c > repo[ref]
       /\ repo' = [repo EXCEPT ![ref] = c] /\ Moving({ref})
  /\ UNCHANGED <<store, workspace>>

AddRemote ==
  /\ Changing /\ changes' = changes + 1 /\ ~repo.remote
  /\ repo' = [repo EXCEPT !.remote = TRUE] /\ Moving({"remote"})
  /\ UNCHANGED <<store, workspace>>

\* An object is lost, or the bytes of another are where its were.
Damage ==
  /\ Changing /\ changes' = changes + 1
  /\ \E f \in Tree : \E x \in {None, CHOOSE b \in Blobs : b # f.blob /\ b.size = f.blob.size} :
       store[f.blob] = f.blob /\ store' = [store EXCEPT ![f.blob] = x]
  /\ UNCHANGED <<repo, workspace, run>>

WriteWorkspace ==
  /\ Changing /\ changes' = changes + 1 /\ workspace
  /\ workspace' = FALSE /\ Moving({"workspace"})
  /\ UNCHANGED <<repo, store>>

\* The map a caller passes lacks an edge, with the old digest or a new one.
AlterMap ==
  /\ At("call") /\ run.mode # "assisted" /\ changes < MaxChanges /\ changes' = changes + 1
  /\ \E p \in DOMAIN run.map.entries, digest \in BOOLEAN :
       LET entries == [run.map.entries EXCEPT ![p].dependencies = {}, ![p].dependents = {}] IN
       run' = [run EXCEPT !.map.entries = entries, !.map.digest = IF digest THEN entries ELSE @]
  /\ UNCHANGED <<repo, store, workspace>>

------------------------------------------------------------------------------
Build == Unchanged \/ ReadRemote \/ ReadBaseline \/ ReadHead \/ RefUnread \/ CommandFails \/ List \/ ReadPython \/ MakeMap
         \/ Select \/ ReadBlob \/ Seal \/ Identity

Next ==
  \/ \E mode \in {"attached", "detached"}, c \in Commits : StartMap(mode, c)
  \/ \E session \in Sessions : StartAssisted(session)
  \/ \E query \in Queries, scope \in Scopes : Pass(query, scope)
  \/ Build
  \/ MoveRef \/ AddRemote \/ Damage \/ WriteWorkspace \/ AlterMap

Spec == Init /\ [][Next]_vars

------------------------------------------------------------------------------
(* Properties *)

\* An import seen from the directories: "from . import x" in a file of a
\* directory is x.py or x/__init__.py there, and one more dot one level up.
Imports(f, g) ==
  \E i \in f.blob.imports :
    LET from == IF i.level = 0 THEN <<>>
                ELSE SubSeq(f.path.dirs, 1, Len(f.path.dirs) - (i.level - 1))
        targets == {from \o i.module} \union {from \o i.module \o <<n>> : n \in i.names \ {"*"}}
    IN \E t \in targets \ {<<>>} :
         /\ g.path.py
         /\ \/ g.path.dirs = Front(t) /\ g.path.stem = Last(t) /\ g.path.stem # "__init__"
            \/ g.path.dirs = t /\ g.path.stem = "__init__"

\* A map holds exactly the commit's files and its imports, in both
\* directions, whatever moved or was damaged while it was made.
MapExact ==
  At("list") /\ run.round = 3 /\ Rebuilt =>
    /\ DOMAIN run.map.entries = {f.path : f \in Tree}
    /\ \A f, g \in Tree :
         (f # g /\ f.path.py /\ Imports(f, g))
           <=> g.path \in run.map.entries[f.path].dependencies
    /\ \A p, q \in DOMAIN run.map.entries :
         p \in run.map.entries[q].dependencies <=> q \in run.map.entries[p].dependents

\* A chain of at most depth imports leads from p to q.
Reaches(p, q, depth) ==
  \E n \in 1..depth : \E chain \in [1..(n + 1) -> {f.path : f \in Tree}] :
    /\ chain[1] = p /\ chain[n + 1] = q
    /\ \A i \in 1..n : chain[i + 1] \in Dependencies(Tree, FileAt(Tree, chain[i]))

\* An impact is complete to its depth in both directions: it holds whatever
\* some seed imports or is imported by along such a chain, and nothing else.
ImpactExact ==
  At("blobs") /\ run.files = {} /\ run.package = None =>
    /\ run.impact.context \union run.query.seeds =
         run.query.seeds \union {q \in DOMAIN run.map.entries :
                                   \E s \in run.query.seeds : Reaches(s, q, run.query.depth)}
    /\ run.impact.dependents \union run.query.seeds =
         run.query.seeds \union {q \in DOMAIN run.map.entries :
                                   \E s \in run.query.seeds : Reaches(q, s, run.query.depth)}

\* A package is of its commit alone: the files the impact of its seeds names,
\* with the bytes the commit gives them, whatever map was passed, whatever the
\* object database returned and wherever HEAD went.
PackageOfCommit ==
  At("done") =>
    /\ run.package.files =
         {[path |-> f.path, blob |-> f.blob] :
            f \in {g \in Tree : g.path \in AllPaths(Impact(MapOf(run.commit, Tree), run.query))}}
    /\ run.package.impact = Impact(MapOf(run.commit, Tree), run.query)

\* What a finished run relied on stood still from the first look at it to the
\* last that got an answer: no ref it found moved, no remote was added, nothing
\* was written to the workspace (nobody moves a ref or writes a file back).
HeldThroughout == At("done") => run.moved = {}

\* The package of a map-assisted request holds files of the request's own
\* fixture, and its scope is the request's, whatever session was passed.
ContextIsFixture ==
  At("done") /\ run.mode = "assisted" =>
    LET request == Requests[run.session.request] IN
    /\ run.package.files \subseteq {[path |-> f.path, blob |-> f.blob] : f \in CommitTree[request.base]}
    /\ run.package.scope = request.allowed
==============================================================================
