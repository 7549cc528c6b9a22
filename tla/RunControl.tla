----------------------------- MODULE RunControl -----------------------------
(***************************************************************************)
(* The life of a run: start, resume, pause, unpause, the step loop, the    *)
(* terminal markRunDone and failRun, the event log and the concurrent      *)
(* persists of state.json (packages/core/src/engine/runner.ts).            *)
(*                                                                         *)
(* One iteration of the loop stands for the stages of a pipeline up to and *)
(* including a target: only there does the loop await the stream.  What    *)
(* the persisted cursors promise is DurableCursor's subject; here the      *)
(* record is the state of the machine it carries.                          *)
(***************************************************************************)
EXTENDS Naturals, RunState

CONSTANTS
    Steps,        \* target stages of the pipeline
    Calls,        \* pause() and unpause() calls one session may receive
    StepsFail,    \* whether a tool, source or target may throw
    StoreFails,   \* whether a write below .mt/runs may reject
    MaxSessions   \* bound on start() plus resume() calls

ASSUME ControlConstants ==
    /\ Steps \in Nat
    /\ {"drain", "main"} \cap Calls = {}
    /\ StepsFail \in BOOLEAN
    /\ StoreFails \in BOOLEAN
    /\ MaxSessions \in Nat \ {0}

Persisters == {"drain", "main"} \cup Calls

VARIABLES
    pc,          \* what start() or resume() is awaiting
    state,       \* stateMachine.current
    step,        \* index of the loop over pipeline.steps
    call,        \* per control call: the event it is to emit
    dirty,       \* persistDirty
    persistAt,   \* per persister: idle, clamping, landing
    snap,        \* per persister: the state it serialized
    disk,        \* the state in state.json
    log,         \* the last event appended to events.jsonl
    sessions     \* start() and resume() calls so far

persistVars == <<dirty, persistAt, snap>>
runVars == <<pc, state, step, call, persistVars, disk, log, sessions>>

Executing == {"gate", "working", "stepped"}
Ended == {"returned", "threw", "down"}

\* The states an await can observe, and so the states ever recorded.
Observed == {"running", "paused", "done", "failed"}

RunTypes ==
    /\ pc \in {"starting", "announcing", "ending", "flushing", "closing",
               "failing", "reporting"} \cup Executing \cup Ended
    /\ state \in Observed
    /\ step \in 1..(Steps + 1)
    /\ call \in [Calls -> {"none", "paused", "resumed", "returned"}]
    /\ dirty \in BOOLEAN
    /\ persistAt \in [Persisters -> {"idle", "clamping", "landing"}]
    /\ snap \in [Persisters -> Observed]
    /\ disk \in Observed \cup {"none"}
    /\ log \in {"none", "started", "resumed", "paused", "step-done", "done",
                "failed"}
    /\ sessions \in 1..MaxSessions

-----------------------------------------------------------------------------
\* Whether openTargets has an entry; a failed open or close leaves one behind.
TargetOpen ==
    IF pc = "working" THEN {TRUE}
    ELSE IF pc \in {"failing", "reporting", "threw"} THEN BOOLEAN ELSE {FALSE}

(* persistState up to its first yield: with a target open it awaits        *)
(* checkpoint() before it reads the machine, otherwise s is serialized.    *)
PersistBegins(p, open, s) ==
    IF open
      THEN /\ persistAt' = [persistAt EXCEPT ![p] = "clamping"]
           /\ UNCHANGED snap
      ELSE /\ persistAt' = [persistAt EXCEPT ![p] = "landing"]
           /\ snap' = [snap EXCEPT ![p] = s]

SchedulePersist(open) ==
    IF persistAt["drain"] = "idle"
      THEN /\ dirty' = FALSE
           /\ PersistBegins("drain", open, state)
      ELSE /\ dirty' = TRUE
           /\ UNCHANGED <<persistAt, snap>>

\* checkpoint() answered: the run is serialized.
Clamped(p) ==
    /\ persistAt[p] = "clamping"
    /\ persistAt' = [persistAt EXCEPT ![p] = "landing"]
    /\ snap' = [snap EXCEPT ![p] = state]
    /\ UNCHANGED <<pc, state, step, call, dirty, disk, log, sessions>>

\* persistInFlight is never reset (mutant of PersistEnds).
PersistStaysInFlight(p) ==
    persistAt' = [persistAt EXCEPT ![p] = IF p = "drain" THEN @ ELSE "idle"]

PersistEnds(p) == persistAt' = [persistAt EXCEPT ![p] = "idle"]

RunInit ==
    /\ pc = "starting"
    /\ state = "running"
    /\ step = 1
    /\ call = [c \in Calls |-> "none"]
    /\ dirty = FALSE
    /\ persistAt = [p \in Persisters |-> IF p = "main" THEN "landing" ELSE "idle"]
    /\ snap = [p \in Persisters |-> "running"]
    /\ disk = "none"
    /\ log = "none"
    /\ sessions = 1

-----------------------------------------------------------------------------
\* state.json is replaced; drainPersists loops while it is dirty.
DrainLands ==
    /\ persistAt["drain"] = "landing"
    /\ disk' = snap["drain"]
    /\ IF dirty
         THEN /\ dirty' = FALSE
              /\ \E open \in TargetOpen : PersistBegins("drain", open, state)
         ELSE /\ PersistEnds("drain")
              /\ UNCHANGED <<dirty, snap>>
    /\ UNCHANGED <<pc, state, step, call, log, sessions>>

MainLands ==
    /\ pc # "down"
    /\ persistAt["main"] = "landing"
    /\ disk' = snap["main"]
    /\ PersistEnds("main")
    /\ pc' = CASE pc = "starting" -> "announcing"
               [] pc = "ending"   -> "flushing"
               [] pc = "flushing" -> "closing"
               [] pc = "failing"  -> "reporting"
               [] OTHER -> pc
    /\ UNCHANGED <<state, step, call, dirty, snap, log, sessions>>

CallLands(c) ==
    /\ persistAt[c] = "landing"
    /\ disk' = snap[c]
    /\ PersistEnds(c)
    /\ UNCHANGED <<pc, state, step, call, dirty, snap, log, sessions>>

(* The store rejects, before state.json is replaced or after (context.json *)
(* follows).  drainPersists gives up, dirty or not; flushPersists only     *)
(* warns; failRun logs and the run's own error is thrown.                  *)
PersistRejects(p) ==
    /\ StoreFails
    /\ persistAt[p] = "landing"
    /\ disk' \in {disk, snap[p]}
    /\ PersistEnds(p)
    /\ pc' = IF p # "main" THEN pc
             ELSE IF pc = "flushing" THEN "closing" ELSE "threw"
    /\ call' = IF p \in Calls THEN [call EXCEPT ![p] = "returned"] ELSE call
    /\ UNCHANGED <<state, step, dirty, snap, log, sessions>>

-----------------------------------------------------------------------------
\* started, resumed: emitted before the step loop.
Announce ==
    /\ pc = "announcing"
    /\ \/ /\ log' = IF sessions = 1 THEN "started" ELSE "resumed"
          /\ pc' = "gate"
       \/ /\ StoreFails
          /\ pc' = "threw"
          /\ UNCHANGED log
    /\ UNCHANGED <<state, step, call, persistVars, disk, sessions>>

\* Next iteration: a paused run polls here, a running one opens its target.
EnterStep ==
    /\ pc = "gate"
    /\ step <= Steps
    /\ state = "running"
    /\ pc' = "working"
    /\ UNCHANGED <<state, step, call, persistVars, disk, log, sessions>>

\* The target accepted another persist.every envelopes.
PersistMidRun ==
    /\ pc = "working"
    /\ SchedulePersist(TRUE)
    /\ UNCHANGED <<pc, state, step, call, disk, log, sessions>>

FinishStep ==
    /\ pc = "working"
    /\ pc' = "stepped"
    /\ UNCHANGED <<state, step, call, persistVars, disk, log, sessions>>

StepDone ==
    /\ pc = "stepped"
    /\ log' = "step-done"
    /\ SchedulePersist(FALSE)
    /\ step' = step + 1
    /\ pc' = "gate"
    /\ UNCHANGED <<state, call, disk, sessions>>

(* failRun: the stream failed, with or without its target left open, or    *)
(* the step-done event could not be appended.                              *)
FailRun ==
    /\ \/ pc = "working" /\ StepsFail
       \/ pc = "stepped" /\ StoreFails
    /\ state' = TryTransition(state, "failed")
    /\ \E open \in IF pc = "working" THEN BOOLEAN ELSE {FALSE} :
         PersistBegins("main", open, state')
    /\ pc' = "failing"
    /\ UNCHANGED <<step, call, dirty, disk, log, sessions>>

\* The loop does not wait for a pause to end (mutant of LoopOver).
LoopLeft == step > Steps \/ state # "running"

\* The step loop has ended, or breaks because the machine left running.
LoopOver == step > Steps \/ state \notin {"running", "paused"}

\* A late pause is honoured (mutant of Unraveled).
StillPaused(s) == s

Unraveled(s) == IF s = "paused" THEN "running" ELSE s

(* markRunDone, after the last step or a break out of the loop: a pause    *)
(* that came too late is unraveled; an illegal transition throws.          *)
MarkRunDone ==
    /\ pc = "gate"
    /\ LoopOver
    /\ LET s == Unraveled(state)
       IN IF CanTransition(s, "done")
            THEN /\ state' = "done"
                 /\ PersistBegins("main", FALSE, "done")
                 /\ pc' = "ending"
            ELSE /\ pc' = "threw"
                 /\ UNCHANGED <<state, persistAt, snap>>
    /\ UNCHANGED <<step, call, dirty, disk, log, sessions>>

\* flushPersists: await the drain, then persist once more if it is dirty.
Flush ==
    /\ pc = "flushing"
    /\ persistAt["drain"] = "idle"
    /\ persistAt["main"] = "idle"
    /\ dirty' = FALSE
    /\ IF dirty
         THEN PersistBegins("main", FALSE, state) /\ UNCHANGED pc
         ELSE pc' = "closing" /\ UNCHANGED <<persistAt, snap>>
    /\ UNCHANGED <<state, step, call, disk, log, sessions>>

\* done, failed: the terminal events.
Report ==
    /\ pc \in {"closing", "reporting"}
    /\ LET event == IF pc = "closing" THEN "done" ELSE "failed"
           sent  == IF pc = "closing" THEN "returned" ELSE "threw"
       IN \/ log' = event /\ pc' = sent
          \/ StoreFails /\ pc' = "threw" /\ UNCHANGED log
    /\ UNCHANGED <<state, step, call, persistVars, disk, sessions>>

-----------------------------------------------------------------------------
Pause(c) ==
    /\ pc # "down"
    /\ call[c] = "none"
    /\ CanTransition(state, "paused")
    /\ state' = "paused"
    /\ call' = [call EXCEPT ![c] = "paused"]
    /\ \E open \in TargetOpen : PersistBegins(c, open, state')
    /\ UNCHANGED <<pc, step, dirty, disk, log, sessions>>

Unpause(c) ==
    /\ pc # "down"
    /\ call[c] = "none"
    /\ state = "paused"
    /\ state' = Reactivated(state)
    /\ call' = [call EXCEPT ![c] = "resumed"]
    /\ \E open \in TargetOpen : PersistBegins(c, open, state')
    /\ UNCHANGED <<pc, step, dirty, disk, log, sessions>>

\* The call's persist has returned: its event is appended.
CallReturns(c) ==
    /\ call[c] \in {"paused", "resumed"}
    /\ persistAt[c] = "idle"
    /\ call' = [call EXCEPT ![c] = "returned"]
    /\ \/ log' = call[c]
       \/ StoreFails /\ UNCHANGED log
    /\ UNCHANGED <<pc, state, step, persistVars, disk, sessions>>

\* The process dies: a crash, or the exit that follows SIGINT's pause().
Crash ==
    /\ pc \notin Ended
    /\ sessions < MaxSessions
    /\ pc' = "down"
    /\ UNCHANGED <<state, step, call, persistVars, disk, log, sessions>>

\* resume(runId) in a new process, on a record that is not done.
Resume ==
    /\ pc \in Ended
    /\ disk \notin {"none", "done"}
    /\ sessions < MaxSessions
    /\ sessions' = sessions + 1
    /\ pc' = "announcing"
    /\ state' = Reactivated(disk)
    /\ step' = 1
    /\ call' = [c \in Calls |-> "none"]
    /\ dirty' = FALSE
    /\ persistAt' = [p \in Persisters |-> "idle"]
    /\ snap' = [p \in Persisters |-> "running"]
    /\ UNCHANGED <<disk, log>>

MainStep == Announce \/ EnterStep \/ FinishStep \/ StepDone \/ MarkRunDone
            \/ Flush \/ Report \/ MainLands

PersistStep(p) ==
    /\ pc # "down"
    /\ \/ Clamped(p)
       \/ p = "drain" /\ DrainLands
       \/ p \in Calls /\ (CallLands(p) \/ CallReturns(p))

RunNext ==
    \/ MainStep \/ PersistMidRun \/ FailRun
    \/ \E p \in Persisters : PersistStep(p) \/ (pc # "down" /\ PersistRejects(p))
    \/ \E c \in Calls : Pause(c) \/ Unpause(c)
    \/ Crash \/ Resume

RunSpec == RunInit /\ [][RunNext]_runVars

(* Every ready continuation runs, and a stream that does not throw ends;   *)
(* nobody has to call unpause() or resume().                               *)
RunFairness ==
    WF_runVars(MainStep) /\ \A p \in Persisters : WF_runVars(PersistStep(p))

RunFairSpec == RunSpec /\ RunFairness

-----------------------------------------------------------------------------
(* The step loop only ever runs on a machine that may still finish: no     *)
(* resume and no pause/unpause leaves it where markRunDone would throw     *)
(* "Invalid state transition" (resume, unpause, buildStream's break).      *)
ExecutingMayFinish == pc \in Executing => state \in {"running", "paused"}

(* state.json says done only for a run all of whose steps ran, so that a   *)
(* resume it refuses ("already done") has nothing left (markRunDone).      *)
DoneMeansComplete == disk = "done" => step = Steps + 1

(* A run whose last step is over ends as done and announces it, or, done,  *)
(* throws what the store failed with, whatever pause() calls arrive: "a    *)
(* run that has actually finished must not be stranded in paused (and must *)
(* still emit its done event, or the SSE stream never terminates)"         *)
(* (markRunDone).                                                          *)
FinishedIsAnnounced ==
    (pc = "gate" /\ step > Steps)
        ~> (log = "done" \/ pc = "down" \/ (pc = "threw" /\ state = "done"))

(* A run never hangs: it ends, or somebody has paused it (buildStream,     *)
(* drainPersists, flushPersists).                                          *)
EndsOrIsPaused == (pc \in Executing) ~> (pc \in Ended \/ state = "paused")
=============================================================================
