-------------------------- MODULE AcknowledgedQueue --------------------------
(***************************************************************************)
(* What a producer may expect of the answers of an ingest endpoint: an     *)
(* item that was acknowledged as part of the run is handed over exactly    *)
(* once, in the order of acknowledgement, as long as the run goes on; no   *)
(* more than Bound items wait; a run that ends by itself has handed over   *)
(* all of them.                                                            *)
(***************************************************************************)
EXTENDS Naturals, Sequences

CONSTANTS Elements, Bound

VARIABLES
    queue,      \* acknowledged, not handed over
    out,        \* handed over
    over,       \* the endpoint is closed
    broken      \* the run failed or its process died

vars == <<queue, out, over, broken>>

Init ==
    /\ queue = <<>>
    /\ out = <<>>
    /\ over = FALSE
    /\ broken = FALSE

Known(x) == \E i \in 1..Len(queue) : queue[i] = x

Taken(x) == \E i \in 1..Len(out) : out[i] = x

Acknowledge(x) ==
    /\ ~over
    /\ Len(queue) <= Bound
    /\ ~Known(x) /\ ~Taken(x)
    /\ queue' = Append(queue, x)
    /\ UNCHANGED <<out, over, broken>>

HandOver ==
    /\ ~over
    /\ queue # <<>>
    /\ out' = Append(out, Head(queue))
    /\ queue' = Tail(queue)
    /\ UNCHANGED <<over, broken>>

\* The end of a healthy run: nothing is left behind.
Complete ==
    /\ queue = <<>>
    /\ over' = TRUE
    /\ UNCHANGED <<queue, out, broken>>

\* A run that fails or dies takes what waits with it.
Break ==
    /\ broken' = TRUE
    /\ over' = TRUE
    /\ queue' \in {queue, <<>>}
    /\ UNCHANGED out

Next == (\E x \in Elements : Acknowledge(x)) \/ HandOver \/ Complete \/ Break

Spec == Init /\ [][Next]_vars
==============================================================================
