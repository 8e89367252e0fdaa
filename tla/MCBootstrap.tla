------------------------------ MODULE MCBootstrap ------------------------------
(* Two commits of the Foundation: the second changes the README, no longer    *)
(* manages the guide and adds a tool; the checklist changes with the mode.    *)
(* The target is a product with a README, and one with a tool of that name    *)
(* too; without its README the first is a new repository.  A caller gives the *)
(* SHA of the first commit, or none.                                          *)
EXTENDS Bootstrap, TLC

MCReleases ==
  << "readme" :> "readme1" @@ "config" :> "config1" @@ "guide" :> "guide1",
     "readme" :> "readme2" @@ "config" :> "config1" @@ "tool" :> "tool1" >>

MCTargets ==
  {[f \in Files |-> IF f \in own THEN "own" ELSE None] : own \in {{"readme"}, {"readme", "tool"}}}
==============================================================================
