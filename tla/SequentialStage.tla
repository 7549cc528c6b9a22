--------------------------- MODULE SequentialStage ---------------------------
(***************************************************************************)
(* What the steps after a tool see of it: a stage that takes the items of  *)
(* its source one by one, in order, passes each on unless it was dropped,  *)
(* and ends complete, failed at an item, or closed by its consumer.        *)
(***************************************************************************)
EXTENDS Naturals, Sequences

VARIABLES
    size,           \* items the source has
    dropped,        \* items decided, so far, not to be passed on
    given,          \* items passed on or passed over
    out,            \* the items passed on
    end             \* open, complete, failed, closed

vars == <<size, dropped, given, out, end>>

Init ==
    /\ size \in Nat
    /\ dropped = {}
    /\ given = 0
    /\ out = <<>>
    /\ end = "open"

\* Work on items not yet given decides to drop some.
Decide ==
    /\ dropped \subseteq dropped'
    /\ \A i \in dropped' \ dropped : i > given
    /\ UNCHANGED <<size, given, out, end>>

Turn(i) == end = "open" /\ given < size /\ i = given + 1

PassOn ==
    /\ \E i \in 1..size : Turn(i) /\ i \notin dropped /\ out' = Append(out, i)
    /\ given' = given + 1
    /\ UNCHANGED <<size, dropped, end>>

\* The step that passes over the last item may end the stage.
PassOver ==
    /\ \E i \in dropped : Turn(i)
    /\ given' = given + 1
    /\ end' = "open" \/ (given' = size /\ end' = "complete")
    /\ UNCHANGED <<size, dropped, out>>

Complete ==
    /\ end = "open"
    /\ given = size
    /\ end' = "complete"
    /\ UNCHANGED <<size, dropped, given, out>>

Stop ==
    /\ end = "open"
    /\ end' \in {"failed", "closed"}
    /\ UNCHANGED <<size, dropped, given, out>>

Next == Decide \/ PassOn \/ PassOver \/ Complete \/ Stop

Spec == Init /\ [][Next]_vars
==============================================================================
