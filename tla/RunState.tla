------------------------------ MODULE RunState ------------------------------
(***************************************************************************)
(* The state machine of a run (packages/core/src/engine/state-machine.ts). *)
(***************************************************************************)

RunStates == {"pending", "running", "checkpoint", "paused", "resumed", "done",
              "failed"}

Transitions ==
    [pending    |-> {"running"},
     running    |-> {"checkpoint", "done", "failed", "paused"},
     checkpoint |-> {"running", "paused", "done", "failed"},
     paused     |-> {"resumed"},
     resumed    |-> {"running"},
     done       |-> {},
     failed     |-> {"running"}]

\* failed is final (mutant of CanTransition).
CannotLeaveFailed(from, to) == from # "failed" /\ to \in Transitions[from]

CanTransition(from, to) == to \in Transitions[from]

\* if (canTransition(to)) transition(to)
TryTransition(from, to) == IF CanTransition(from, to) THEN to ELSE from

\* resume() and unpause(): to resumed and on to running, as far as allowed.
Reactivated(s) == TryTransition(TryTransition(s, "resumed"), "running")
=============================================================================
