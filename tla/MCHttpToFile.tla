---------------------------- MODULE MCHttpToFile ----------------------------
(* An instance of HttpToFile for TLC: the tag of a writer is its own. *)
EXTENDS HttpToFile

CONSTANTS file, run

OwnTag == [w \in Writers |-> w]
==============================================================================
