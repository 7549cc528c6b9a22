----------------------------- MODULE AtLeastOnce -----------------------------
(***************************************************************************)
(* What a resumable run promises about its output, whatever its targets,   *)
(* persists, failures and crashes do: delivered envelopes stay delivered,  *)
(* only delivered envelopes are ever skipped by a resume, and a run that   *)
(* finishes has delivered everything.                                      *)
(***************************************************************************)
CONSTANT Pieces     \* every envelope the run's targets are to receive

VARIABLES
    delivered,      \* envelopes in durable output
    promised,       \* envelopes a resume started now would not produce again
    finished        \* the run ended as done

vars == <<delivered, promised, finished>>

Init ==
    /\ delivered = {}
    /\ promised = {}
    /\ finished = FALSE

\* Some envelopes reach durable output.
Deliver ==
    /\ delivered \subseteq delivered'
    /\ delivered' \subseteq Pieces
    /\ UNCHANGED <<promised, finished>>

\* The recorded progress moves, forwards or back.
Promise ==
    /\ promised' \subseteq delivered
    /\ UNCHANGED <<delivered, finished>>

\* The run ends, its last record may land with it.
Finish ==
    /\ delivered = Pieces
    /\ finished' = TRUE
    /\ promised' \subseteq delivered
    /\ UNCHANGED delivered

\* A run whose end was not recorded is taken up again.
Reopen ==
    /\ finished' = FALSE
    /\ UNCHANGED <<delivered, promised>>

Next == Deliver \/ Promise \/ Finish \/ Reopen

Spec == Init /\ [][Next]_vars
==============================================================================
