---------------------------- MODULE MCGitWorktree ----------------------------
(* Instances of GitWorktree for TLC. *)
EXTENDS GitWorktree

CONSTANTS t1, t2, main, topic, HEAD

\* One URI names its base, the other leaves it to be found.
FirstAsksForMain(t) == IF t = t1 THEN main ELSE HEAD
=============================================================================
