--------------------------- MODULE MCDurableCursor ---------------------------
(* Instances of DurableCursor for TLC: the shapes of Before.               *)
EXTENDS DurableCursor

CONSTANTS root, a, b

\* Every source envelope yields one target envelope.
OneToOne == [c \in 0..N |-> c]

\* The second source envelope is dropped (skip-item, dead-letter).
SecondDropped == [c \in 0..N |-> IF c < 2 THEN c ELSE c - 1]

\* A fork: one branch resumes, the other replays from the start.
KeyedAndRename == [l \in Levels |-> IF l = a THEN "keyed" ELSE "rename"]

AllCommit == [l \in Levels |-> "commit"]
==============================================================================
