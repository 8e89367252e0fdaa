---------------------------- MODULE RepositoryMap ----------------------------
(***************************************************************************)
(* The map of a commit, what a change of some of its files reaches, and    *)
(* the package of files an agent is given to read                          *)
(* (scripts/agent_repository_map.py, agent_repository_context.py).         *)
(*                                                                         *)
(* A blob is the value its SHA is taken of, and so is a digest.  A path    *)
(* has directories, a stem and whether it ends in .py; the stem of another *)
(* file is its whole name.  Lists the code wants sorted and without        *)
(* repetition are sets.                                                    *)
(***************************************************************************)
EXTENDS Integers, Sequences, FiniteSets, SequencesExt

CONSTANTS None,           \* absent or refused
          Unsafe,         \* names no safe path has
          Identifiers,    \* names Python can import
          TestStems,      \* stems that begin with test_
          Lower(_),       \* a name without case
          MaxTracked, MaxEdges, MaxPythonSize,       \* bounds of a map
          MaxFiles, MaxFileSize, MaxTotalSize        \* bounds of a package

Paths      == [dirs : Seq(STRING), stem : STRING, py : BOOLEAN]
Statements == [level : Nat, module : Seq(Identifiers), names : SUBSET (Identifiers \union {"*"})]

\* A name is text, a star is none, and nothing is neither a module nor a list.
ASSUME NamesAreText ==
  Identifiers \subseteq STRING /\ "*" \notin Identifiers /\ None \notin Seq(STRING)

Names(p) == Append(p.dirs, p.stem)
Alike(p, q) ==
  /\ p.py = q.py /\ Len(p.dirs) = Len(q.dirs)
  /\ \A i \in DOMAIN Names(p) : Lower(Names(p)[i]) = Lower(Names(q)[i])

SafePath(p) == \A n \in Range(Names(p)) : Lower(n) \notin Unsafe

\* The files of a commit: regular, each under one name in any case.
TrackedAccepted(tree) ==
  /\ Cardinality(tree) <= MaxTracked
  /\ \A f \in tree : SafePath(f.path) /\ f.mode \in {"100644", "100755"}
  /\ \A f, g \in tree : Alike(f.path, g.path) => f = g

------------------------------------------------------------------------------
(* Imports *)

\* The dotted name of a Python file, where it has one.
ModuleOf(p) ==
  LET parts == IF p.stem = "__init__" THEN p.dirs ELSE Names(p)
  IN IF p.py /\ parts # <<>> /\ Range(parts) \subseteq Identifiers THEN parts ELSE None

ModulesDistinct(tree) ==
  \A f, g \in tree : ModuleOf(f.path) # None /\ ModuleOf(f.path) = ModuleOf(g.path) => f = g

(* Mutant of PackageOf: every module is taken for a package. *)
PackageOfSelf(p) == IF ModuleOf(p) = None THEN <<>> ELSE ModuleOf(p)

\* The package relative imports of a file start from.
PackageOf(p) ==
  IF ModuleOf(p) = None THEN <<>>
  ELSE IF p.stem = "__init__" THEN ModuleOf(p) ELSE Front(ModuleOf(p))

RelativeBase(p, level, imported) ==
  IF level > Len(PackageOf(p)) THEN None
  ELSE SubSeq(PackageOf(p), 1, Len(PackageOf(p)) - (level - 1)) \o imported

Base(p, i) == IF i.level = 0 THEN i.module ELSE RelativeBase(p, i.level, i.module)

\* What an import statement may name: its module, and the members it takes.
Candidates(p, i) == {Base(p, i)} \union {Append(Base(p, i), n) : n \in i.names \ {"*"}}

\* Syntax errors, and imports that leave their package.
Parses(f) == f.blob.imports # None /\ \A i \in f.blob.imports : Base(f.path, i) # None

Python(tree) == {f \in tree : f.path.py}

Dependencies(tree, f) ==
  IF ~f.path.py THEN {}
  ELSE LET names == UNION {Candidates(f.path, i) : i \in f.blob.imports}
       IN {g.path : g \in {h \in tree \ {f} : ModuleOf(h.path) \in names}}

EdgesAccepted(tree) ==
  MapThenSumSet(LAMBDA f : Cardinality(Dependencies(tree, f)), tree) <= MaxEdges

FileAt(tree, p) == CHOOSE f \in tree : f.path = p

\* Each tracked file with its identity and its neighbours in both directions.
EntriesOf(tree) ==
  [p \in {f.path : f \in tree} |->
     LET f == FileAt(tree, p) IN
     [blob |-> f.blob, mode |-> f.mode, module |-> ModuleOf(p),
      dependencies |-> Dependencies(tree, f),
      dependents |-> {g.path : g \in {h \in tree : p \in Dependencies(tree, h)}}]]

MapOf(commit, tree) ==
  [commit |-> commit, tree |-> tree, entries |-> EntriesOf(tree), digest |-> EntriesOf(tree)]

\* serialize_repository_map(): the digest is that of the entries.
Serializes(map) == map.digest = map.entries

------------------------------------------------------------------------------
(* Impact *)

(* Mutant of Expand: the frontier is not moved on. *)
ExpandOnce(adjacency, seeds, depth) ==
  LET at[n \in 0..depth] ==
        IF n = 0 THEN seeds ELSE at[n - 1] \union UNION {adjacency[p] : p \in seeds}
  IN at[depth] \ seeds

\* One step on from the frontier.
Widened(adjacency, reached) ==
  LET next == (UNION {adjacency[p] : p \in reached.frontier}) \ reached.visited
  IN [visited |-> reached.visited \union next, frontier |-> next]

\* Breadth first from the seeds, depth steps.
Expand(adjacency, seeds, depth) ==
  LET at[n \in 0..depth] ==
        IF n = 0 THEN [visited |-> seeds, frontier |-> seeds] ELSE Widened(adjacency, at[n - 1])
  IN at[depth].visited \ seeds

IsTest(p) ==
  \/ "tests" \in Range(p.dirs) \/ (~p.py /\ p.stem = "tests")
  \/ p.py /\ p.stem \in TestStems

QueryAccepted(map, q) ==
  /\ q.seeds # {} /\ q.seeds \subseteq DOMAIN map.entries
  /\ Cardinality(q.seeds) <= q.limit

Impact(map, q) ==
  LET forward  == [p \in DOMAIN map.entries |-> map.entries[p].dependencies]
      backward == [p \in DOMAIN map.entries |-> map.entries[p].dependents]
      context == Expand(forward, q.seeds, q.depth)
      dependents == Expand(backward, q.seeds, q.depth)
      all == q.seeds \union context \union dependents
  IN IF Cardinality(all) > q.limit THEN None
     ELSE [seeds |-> q.seeds, context |-> context, dependents |-> dependents,
           tests |-> {p \in all : IsTest(p)}, depth |-> q.depth]

AllPaths(impact) == impact.seeds \union impact.context \union impact.dependents

------------------------------------------------------------------------------
(* Packages *)

\* The trusted scope: paths, of which one may stand for all below it.
ScopeAccepted(scope) ==
  /\ scope # {}
  /\ \A s \in scope : SafePath(s.path)
  /\ Cardinality({s \in scope : s.below}) <= 1

\* Text without control characters, secrets or private reasoning.
Readable(blob) == blob.size <= MaxFileSize /\ blob.text = "clean"

PackageFor(map, impact, scope, files) ==
  [commit |-> map.commit, tree |-> map.tree, map |-> map.digest, impact |-> impact,
   scope |-> scope, files |-> files]
==============================================================================
