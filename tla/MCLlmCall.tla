------------------------------ MODULE MCLlmCall ------------------------------
(* Instances of LlmCall for TLC. *)
EXTENDS LlmCall

CONSTANTS c1, c2

\* Two calls that leave the model to the pin.
Pins == [c \in Calls |-> None]

\* The gates: one retries and corrects answers, the other refits prompts.
OneFix == [c \in Calls |-> IF c = c1 THEN 1 ELSE 0]
OneShrink == [c \in Calls |-> IF c = c2 THEN 1 ELSE 0]

Alike == [c \in Calls |-> "p"]
==============================================================================
