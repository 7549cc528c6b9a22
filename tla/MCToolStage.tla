----------------------------- MODULE MCToolStage -----------------------------
(* Instances of ToolStage for TLC. *)
EXTENDS ToolStage

CONSTANTS k1, k2

\* The first and the third item have the same input, the second its own;
\* the key of the fourth cannot be computed.
TwoAlike == [i \in 1..Count |-> CASE i \in {1, 3} -> k1 [] i = 2 -> k2 [] OTHER -> NoKey]
==============================================================================
