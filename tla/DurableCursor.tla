---------------------------- MODULE DurableCursor ----------------------------
(***************************************************************************)
(* The source cursor of a run and the output it promises is safe           *)
(* (packages/core/src/engine/runner.ts: buildStream, writeTarget,          *)
(* persistState, clampCursorsToCommitted, schedulePersist, drainPersists,  *)
(* flushPersists, failRun, resume).                                        *)
(*                                                                         *)
(* Every pipeline level that owns a source and a target -- the top-level   *)
(* pipeline, or the self-contained branches of a parallel fork -- counts   *)
(* the envelopes its target accepted in the cursor of its checkpoint node. *)
(* state.json carries the cursors; a later resume asks each source to skip *)
(* that many envelopes.  Three callers run persistState concurrently: the  *)
(* throttled drain, the terminal markRunDone/failRun ("main") and a        *)
(* pause()/unpause() call ("ctl").                                         *)
(*                                                                         *)
(* A step is the code between two awaits.  Two awaits are not yields here: *)
(* the hop from the last clamp to the snapshot in persistState, and from   *)
(* clampCursorsToCommitted with no open target -- they only pass through   *)
(* the microtask queue.                                                    *)
(***************************************************************************)
EXTENDS Integers, Sequences, FiniteSets

CONSTANTS
    Levels,        \* pipeline levels with their own source and target
    Kind,          \* [Levels -> Kinds], how the level's target stores output
    Resumable,     \* the levels whose source implements resume()
    N,             \* envelopes each source yields
    Before,        \* Before[c]: envelopes the target receives for the first
                   \* c source envelopes (1:1 steps, skipped items, fan-out)
    PersistEvery,  \* settings runner.persist.every
    MayFail,       \* whether tools, targets and the store may fail
    MaxSessions    \* bound on start() plus resume() calls

(***************************************************************************)
(* keyed    one durable file per envelope, named by the envelope           *)
(*          (md://dir, chapter-output:// with an explicit chapter number)  *)
(* indexed  the same, named by a counter that open() resets                *)
(* rename   a temp file renamed over the output by close() (jsonl, md file)*)
(* commit   an append-only sink with a checkpoint() hook                   *)
(***************************************************************************)
Kinds == {"keyed", "indexed", "rename", "commit"}

ASSUME CursorConstants ==
    /\ Levels # {} /\ IsFiniteSet(Levels)
    /\ Kind \in [Levels -> Kinds]
    /\ Resumable \subseteq Levels
    /\ N \in Nat
    /\ Before \in [0..N -> Nat]
    /\ Before[0] = 0
    /\ \A c, d \in 0..N : c <= d => Before[c] <= Before[d]
    /\ PersistEvery \in Nat \ {0}
    /\ MayFail \in BOOLEAN
    /\ MaxSessions \in Nat \ {0}

\* Envelopes one full pass over a source hands to its target.
P == Before[N]

\* Target envelopes a source that skips c envelopes no longer produces.
Skipped(c) == IF c >= N THEN P ELSE Before[c]

Persisters == {"drain", "main", "ctl"}

NoLevel == "none"

VARIABLES
    phase,         \* the run: running, ending, flushing, done, failed, down
    at,            \* per level: where its build/write loop stands
    threw,         \* per level: its stream or its target failed
    cursor,        \* per level: cursor of the live checkpoint node
    start,         \* per level: sourceStart
    base,          \* per level: baseCursor of its openTargets entry
    written,       \* per level: envelopesWritten
    committed,     \* per level: envelopes a checkpoint() target made durable
    openTargets,   \* levels whose target is tracked, in opening order
    out,           \* per level: durable output, slot -> envelope (0: empty)
    writes,        \* writesSincePersist
    dirty,         \* persistDirty
    persistAt,     \* per persister: idle, clamping, landing
    persistIdx,    \* per persister: position of its loop over openTargets
    persistLevel,  \* per persister: the entry that loop awaits
    snap,          \* per persister: the serialized cursors
    snapDone,      \* per persister: it serialized the state done
    disk,          \* the cursors in state.json
    diskDone,      \* state.json says done
    sessions       \* start() and resume() calls so far

levelVars   == <<at, threw, cursor, start, base, written, committed, out>>
persistVars == <<persistAt, persistIdx, persistLevel, snap, snapDone>>
diskVars    == <<disk, diskDone>>
vars == <<phase, levelVars, openTargets, writes, dirty, persistVars, diskVars,
          sessions>>

NoCursor == [l \in Levels |-> 0]

TypeOK ==
    /\ phase \in {"running", "ending", "flushing", "done", "failed", "down"}
    /\ at \in [Levels -> {"idle", "writing", "accepted", "closing",
                          "closed", "untracked", "settled"}]
    /\ threw \in [Levels -> BOOLEAN]
    /\ cursor \in [Levels -> Nat]
    /\ start \in [Levels -> Nat]
    /\ base \in [Levels -> Nat]
    /\ written \in [Levels -> Nat]
    /\ committed \in [Levels -> Nat]
    /\ openTargets \in Seq(Levels)
    /\ out \in [Levels -> [1..P -> 0..P]]
    /\ writes \in 0..(PersistEvery - 1)
    /\ dirty \in BOOLEAN
    /\ persistAt \in [Persisters -> {"idle", "clamping", "landing"}]
    /\ persistIdx \in [Persisters -> Nat]
    /\ persistLevel \in [Persisters -> Levels \cup {NoLevel}]
    /\ snap \in [Persisters -> [Levels -> Nat]]
    /\ snapDone \in [Persisters -> BOOLEAN]
    /\ disk \in [Levels -> Nat]
    /\ diskDone \in BOOLEAN
    /\ sessions \in 0..MaxSessions

-----------------------------------------------------------------------------
(* The position of a level in its target's stream. *)

\* First target envelope of this session, minus one.
Offset(l) == Skipped(start[l])

\* Envelopes target.write() has returned for in this session.
Accepted(l) == written[l] + (IF at[l] = "accepted" THEN 1 ELSE 0)

MorePieces(l) == Offset(l) + written[l] < P

\* A sink that truncates its file when it opens (mutant of CommitUpTo).
CommitTruncating(l, c) ==
    /\ committed' = [committed EXCEPT ![l] = c]
    /\ out' = [out EXCEPT ![l] =
                 [k \in 1..P |-> IF k \in (Offset(l) + 1)..(Offset(l) + c)
                                  THEN k ELSE 0]]

\* An append-only sink has made its session's first c envelopes durable.
CommitUpTo(l, c) ==
    /\ committed' = [committed EXCEPT ![l] = c]
    /\ out' = [out EXCEPT ![l] =
                 [k \in 1..P |-> IF k \in (Offset(l) + 1)..(Offset(l) + c)
                                  THEN k ELSE @[k]]]

-----------------------------------------------------------------------------
\* An error of a branch is swallowed (mutant of Threw).
NeverThrew == FALSE

\* An error has left executeSteps: failRun, not markRunDone, ends the run.
Threw == \E l \in Levels : threw[l]
\* The phases in which markRunDone has moved the machine to done.
Terminal == {"ending", "flushing", "done"}

\* The checkpoint tree and the run state become stateData.
Serialize(p, cursors) ==
    /\ snap' = [snap EXCEPT ![p] = cursors]
    /\ snapDone' = [snapDone EXCEPT ![p] = (phase \in Terminal \/ p = "main") /\ ~Threw]

(* persistState, as far as its first yield: with no open target it         *)
(* serializes at once, otherwise it awaits the first checkpoint() hook.    *)

PersistBegins(p, targets, cursors) ==
    IF targets = <<>>
      THEN /\ persistAt' = [persistAt EXCEPT ![p] = "landing"]
           /\ Serialize(p, cursors)
           /\ UNCHANGED <<persistIdx, persistLevel>>
      ELSE /\ persistAt' = [persistAt EXCEPT ![p] = "clamping"]
           /\ persistIdx' = [persistIdx EXCEPT ![p] = 1]
           /\ persistLevel' = [persistLevel EXCEPT ![p] = targets[1]]
           /\ UNCHANGED <<snap, snapDone>>

\* persistInFlight is never reset (mutant of PersistIdles).
PersistStaysInFlight(p) ==
    /\ persistAt' = [persistAt EXCEPT ![p] = IF p = "drain" THEN @ ELSE "idle"]
    /\ UNCHANGED <<persistIdx, persistLevel, snap, snapDone>>

\* The persister is done; what it held is dropped.
PersistIdles(p) ==
    /\ persistAt' = [persistAt EXCEPT ![p] = "idle"]
    /\ persistIdx' = [persistIdx EXCEPT ![p] = 0]
    /\ persistLevel' = [persistLevel EXCEPT ![p] = NoLevel]
    /\ snap' = [snap EXCEPT ![p] = NoCursor]
    /\ snapDone' = [snapDone EXCEPT ![p] = FALSE]

\* schedulePersist: one persist in flight, re-armed by the dirty flag.
SchedulePersist(targets, cursors) ==
    IF persistAt["drain"] = "idle"
      THEN /\ dirty' = FALSE
           /\ PersistBegins("drain", targets, cursors)
      ELSE /\ dirty' = TRUE
           /\ UNCHANGED persistVars

-----------------------------------------------------------------------------
Init ==
    /\ phase = "running"
    /\ at = [l \in Levels |-> "idle"]
    /\ threw = [l \in Levels |-> FALSE]
    /\ cursor = NoCursor
    /\ start = NoCursor
    /\ base = NoCursor
    /\ written = NoCursor
    /\ committed = NoCursor
    /\ openTargets = <<>>
    /\ out = [l \in Levels |-> [k \in 1..P |-> 0]]
    /\ writes = 0
    /\ dirty = FALSE
    /\ persistAt = [p \in Persisters |-> "idle"]
    /\ persistIdx = [p \in Persisters |-> 0]
    /\ persistLevel = [p \in Persisters |-> NoLevel]
    /\ snap = [p \in Persisters |-> NoCursor]
    /\ snapDone = [p \in Persisters |-> FALSE]
    /\ disk = NoCursor
    /\ diskDone = FALSE
    /\ sessions = 1

\* sourceStart is the cursor whether or not the source can resume (mutant).
CursorAlways(l) == cursor[l]

\* resume(cursor) where the source has it, else start() from envelope 0.
SourceStart(l) == IF l \in Resumable THEN cursor[l] ELSE 0

(* The source step picks resume(cursor) or start(); the target step then   *)
(* tracks the target and opens it.                                         *)
Track(l) ==
    /\ phase = "running"
    /\ at[l] = "idle"
    /\ start' = [start EXCEPT ![l] = SourceStart(l)]
    /\ base' = [base EXCEPT ![l] = cursor[l]]
    /\ written' = [written EXCEPT ![l] = 0]
    /\ committed' = [committed EXCEPT ![l] = 0]
    /\ openTargets' = Append(openTargets, l)
    /\ UNCHANGED <<phase, cursor, out, writes, dirty, persistVars, diskVars,
                   sessions>>

OpenTarget(l) ==
    /\ Track(l)
    /\ at' = [at EXCEPT ![l] = "writing"]
    /\ UNCHANGED threw

\* open() rejects before the try block: the entry stays tracked.
OpenTargetFails(l) ==
    /\ MayFail
    /\ Track(l)
    /\ at' = [at EXCEPT ![l] = "settled"]
    /\ threw' = [threw EXCEPT ![l] = TRUE]

\* The file a file-per-envelope target names for the envelope.
File(l, piece) == IF Kind[l] = "keyed" THEN piece ELSE written[l] + 1

(* target.write() returns.  File-per-envelope targets are durable here.    *)
TargetWrite(l) ==
    /\ at[l] = "writing"
    /\ MorePieces(l)
    /\ at' = [at EXCEPT ![l] = "accepted"]
    /\ LET piece == Offset(l) + written[l] + 1 IN
         \/ /\ Kind[l] \in {"keyed", "indexed"}
            /\ out' = [out EXCEPT ![l][File(l, piece)] = piece]
         \/ /\ Kind[l] \in {"rename", "commit"}
            /\ UNCHANGED out
    /\ UNCHANGED <<phase, threw, cursor, start, base, written, committed,
                   openTargets, writes, dirty, persistVars, diskVars, sessions>>

\* The cursor counts the envelope pulled ahead, too (mutant of NextCursor).
CursorOfPulls(l) == start[l] + written[l] + 2

\* recordCursor
NextCursor(l) == start[l] + written[l] + 1

\* Persist one write late, the counter already past it (mutant).
PersistOverdue == writes + 1 > PersistEvery

PersistDue == writes + 1 >= PersistEvery

(* onEnvelopeWritten and the throttled mid-run persist.                    *)
RecordCursor(l) ==
    /\ at[l] = "accepted"
    /\ at' = [at EXCEPT ![l] = "writing"]
    /\ written' = [written EXCEPT ![l] = @ + 1]
    /\ cursor' = [cursor EXCEPT ![l] = NextCursor(l)]
    /\ IF PersistDue
         THEN /\ writes' = 0
              /\ SchedulePersist(openTargets, cursor')
         ELSE /\ writes' = writes + 1
              /\ UNCHANGED <<dirty, persistVars>>
    /\ UNCHANGED <<phase, threw, start, base, committed, openTargets, out,
                   diskVars, sessions>>

EndOfStream(l) ==
    /\ at[l] = "writing"
    /\ ~MorePieces(l)
    /\ at' = [at EXCEPT ![l] = "closing"]
    /\ UNCHANGED <<phase, threw, cursor, start, base, written, committed, out,
                   openTargets, writes, dirty, persistVars, diskVars, sessions>>

\* A tool, the source or target.write() throws; the finally block closes.
StreamThrows(l) ==
    /\ MayFail
    /\ at[l] = "writing"
    /\ at' = [at EXCEPT ![l] = "closing"]
    /\ threw' = [threw EXCEPT ![l] = TRUE]
    /\ UNCHANGED <<phase, cursor, start, base, written, committed, out,
                   openTargets, writes, dirty, persistVars, diskVars, sessions>>

(* target.close(): a temp file replaces the output, an append-only sink    *)
(* commits the rest.  The finally block runs it after a failure as well.   *)
CloseTarget(l) ==
    /\ at[l] = "closing"
    /\ at' = [at EXCEPT ![l] = "closed"]
    /\ \/ /\ Kind[l] \in {"keyed", "indexed"}
          /\ UNCHANGED <<committed, out>>
       \/ /\ Kind[l] = "rename"
          /\ out' = [out EXCEPT ![l] =
                       [k \in 1..P |-> IF k <= written[l] THEN Offset(l) + k
                                                          ELSE 0]]
          /\ UNCHANGED committed
       \/ /\ Kind[l] = "commit"
          /\ CommitUpTo(l, written[l])
    /\ UNCHANGED <<phase, threw, cursor, start, base, written, openTargets,
                   writes, dirty, persistVars, diskVars, sessions>>

\* close() rejects: the splice after it is skipped, the entry stays tracked.
CloseTargetFails(l) ==
    /\ MayFail
    /\ at[l] = "closing"
    /\ at' = [at EXCEPT ![l] = "settled"]
    /\ threw' = [threw EXCEPT ![l] = TRUE]
    /\ UNCHANGED <<phase, cursor, start, base, written, committed, out,
                   openTargets, writes, dirty, persistVars, diskVars, sessions>>

\* The splice that follows close().
Untrack(l) ==
    /\ at[l] = "closed"
    /\ \E i \in 1..Len(openTargets) :
         /\ openTargets[i] = l
         /\ openTargets' = SubSeq(openTargets, 1, i - 1)
                             \o SubSeq(openTargets, i + 1, Len(openTargets))
    /\ at' = [at EXCEPT ![l] = IF threw[l] THEN "settled" ELSE "untracked"]
    /\ UNCHANGED <<phase, threw, cursor, start, base, written, committed, out,
                   writes, dirty, persistVars, diskVars, sessions>>

\* The target step's step-done event is written; its persist is scheduled.
StepDone(l) ==
    /\ at[l] = "untracked"
    /\ at' = [at EXCEPT ![l] = "settled"]
    /\ SchedulePersist(openTargets, cursor)
    /\ UNCHANGED <<phase, threw, cursor, start, base, written, committed, out,
                   openTargets, writes, diskVars, sessions>>

\* The auto-commit or the step-done event rejects.
StepDoneFails(l) ==
    /\ MayFail
    /\ at[l] = "untracked"
    /\ at' = [at EXCEPT ![l] = "settled"]
    /\ threw' = [threw EXCEPT ![l] = TRUE]
    /\ UNCHANGED <<phase, cursor, start, base, written, committed, out,
                   openTargets, writes, dirty, persistVars, diskVars, sessions>>

(* All branches of a parallel fork have settled: completeNested schedules a *)
(* persist for each one that did not fail.                                 *)
CompleteNested ==
    /\ phase = "running"
    /\ Cardinality(Levels) > 1
    /\ \A l \in Levels : at[l] = "settled"
    /\ \E l \in Levels : ~threw[l]
    /\ SchedulePersist(openTargets, cursor)
    /\ UNCHANGED <<phase, levelVars, openTargets, writes, diskVars, sessions>>

-----------------------------------------------------------------------------
\* The node keeps its cursor (mutant of ClampCursor).
Unclamped(l, reported) == UNCHANGED cursor

\* clampCursorsToCommitted, once level l's sink has reported.
ClampCursor(l, reported) ==
    cursor' = [cursor EXCEPT ![l] =
                 IF @ > base[l] + reported THEN base[l] + reported ELSE @]

\* The loop moves to the next index of openTargets as it is now; past its
\* end the tree is serialized.
NextEntry(p) ==
    LET i == persistIdx[p] + 1
    IN IF i <= Len(openTargets)
         THEN /\ persistIdx' = [persistIdx EXCEPT ![p] = i]
              /\ persistLevel' = [persistLevel EXCEPT ![p] = openTargets[i]]
              /\ UNCHANGED <<persistAt, snap, snapDone>>
         ELSE /\ persistAt' = [persistAt EXCEPT ![p] = "landing"]
              /\ persistIdx' = [persistIdx EXCEPT ![p] = 0]
              /\ persistLevel' = [persistLevel EXCEPT ![p] = NoLevel]
              /\ Serialize(p, cursor')

(* The awaited checkpoint() answers: a sink that has the hook has made c   *)
(* envelopes durable by then; its answer may be an older count, and counts *)
(* as 0 when it throws.                                                    *)
Clamp(p) ==
    /\ persistAt[p] = "clamping"
    /\ LET l == persistLevel[p]
       IN \/ /\ Kind[l] = "commit"
             /\ \E c \in committed[l]..Accepted(l) :
                  /\ CommitUpTo(l, c)
                  /\ \E reported \in 0..c : ClampCursor(l, reported)
          \/ /\ Kind[l] # "commit"
             /\ ClampCursor(l, 0)
             /\ UNCHANGED <<committed, out>>
    /\ NextEntry(p)
    /\ UNCHANGED <<phase, at, threw, start, base, written, openTargets, writes,
                   dirty, diskVars, sessions>>

\* drainPersists and flushPersists go on; a pause() or unpause() returns.
PersistReturns(p) ==
    \/ /\ p = "drain" /\ dirty
       /\ dirty' = FALSE
       /\ PersistBegins(p, openTargets, cursor)
       /\ UNCHANGED phase
    \/ /\ p = "drain" /\ ~dirty
       /\ PersistIdles(p)
       /\ UNCHANGED <<dirty, phase>>
    \/ /\ p = "ctl"
       /\ PersistIdles(p)
       /\ UNCHANGED <<dirty, phase>>
    \/ /\ p = "main"
       /\ PersistIdles(p)
       /\ phase' = IF Threw THEN "failed"
                   ELSE IF phase = "ending" THEN "flushing" ELSE "done"
       /\ UNCHANGED dirty

\* The temp file is renamed over state.json.
Land(p) ==
    /\ persistAt[p] = "landing"
    /\ disk' = snap[p]
    /\ diskDone' = snapDone[p]
    /\ PersistReturns(p)
    /\ UNCHANGED <<levelVars, openTargets, writes, sessions>>

(* The store rejects, before state.json is in place or after (context.json *)
(* is written next).  drainPersists warns and gives up its loop, dirty or  *)
(* not; a control call rejects; markRunDone rejects (a failing flush and a *)
(* failing failRun only log).                                              *)
LandFails(p) ==
    /\ MayFail
    /\ persistAt[p] = "landing"
    /\ \/ UNCHANGED diskVars
       \/ disk' = snap[p] /\ diskDone' = snapDone[p]
    /\ PersistIdles(p)
    /\ phase' = IF p # "main" THEN phase
                ELSE IF Threw THEN "failed"
                ELSE IF phase = "ending" THEN "down" ELSE "done"
    /\ UNCHANGED <<levelVars, openTargets, writes, dirty, sessions>>

\* pause() or unpause() persists at any time of the run; a run that failed
\* while it was paused can still be unpaused.
Control ==
    /\ phase = "running" \/ (Threw /\ phase \in {"ending", "failed"})
    /\ persistAt["ctl"] = "idle"
    /\ PersistBegins("ctl", openTargets, cursor)
    /\ UNCHANGED <<phase, levelVars, openTargets, writes, dirty, diskVars, sessions>>

\* executeSteps has settled: markRunDone or failRun persists.
EndRun ==
    /\ phase = "running"
    /\ \A l \in Levels : at[l] = "settled"
    /\ phase' = "ending"
    /\ PersistBegins("main", openTargets, cursor)
    /\ UNCHANGED <<levelVars, openTargets, writes, dirty, diskVars, sessions>>

\* flushPersists: await the drain, then persist once more if it is dirty.
Flush ==
    /\ phase = "flushing"
    /\ persistAt["drain"] = "idle"
    /\ persistAt["main"] = "idle"
    /\ dirty' = FALSE
    /\ IF dirty
         THEN /\ PersistBegins("main", openTargets, cursor)
              /\ UNCHANGED phase
         ELSE /\ phase' = "done"
              /\ UNCHANGED persistVars
    /\ UNCHANGED <<levelVars, openTargets, writes, diskVars, sessions>>

-----------------------------------------------------------------------------
(* The process dies (a crash, or SIGINT's exit): all but files is gone.    *)
Crash ==
    /\ phase \in {"running", "ending", "flushing"}
    /\ sessions < MaxSessions
    /\ phase' = "down"
    /\ UNCHANGED <<levelVars, openTargets, writes, dirty, persistVars, diskVars,
                   sessions>>

(* A new process resumes a run that state.json does not record as done.    *)
Resume ==
    /\ phase \in {"down", "failed", "done"}
    /\ ~diskDone
    /\ sessions < MaxSessions
    /\ phase' = "running"
    /\ sessions' = sessions + 1
    /\ at' = [l \in Levels |-> "idle"]
    /\ threw' = [l \in Levels |-> FALSE]
    /\ cursor' = disk
    /\ start' = NoCursor
    /\ base' = NoCursor
    /\ written' = NoCursor
    /\ committed' = NoCursor
    /\ openTargets' = <<>>
    /\ writes' = 0
    /\ dirty' = FALSE
    /\ persistAt' = [p \in Persisters |-> "idle"]
    /\ persistIdx' = [p \in Persisters |-> 0]
    /\ persistLevel' = [p \in Persisters |-> NoLevel]
    /\ snap' = [p \in Persisters |-> NoCursor]
    /\ snapDone' = [p \in Persisters |-> FALSE]
    /\ UNCHANGED <<out, diskVars>>

Alive == phase # "down"

LevelStep(l) ==
    /\ Alive
    /\ \/ OpenTarget(l) \/ TargetWrite(l) \/ RecordCursor(l) \/ EndOfStream(l)
       \/ CloseTarget(l) \/ Untrack(l) \/ StepDone(l)

LevelFails(l) ==
    /\ Alive
    /\ \/ OpenTargetFails(l) \/ StreamThrows(l) \/ CloseTargetFails(l)
       \/ StepDoneFails(l)

PersistStep(p) == Alive /\ (Clamp(p) \/ Land(p))

Next ==
    \/ \E l \in Levels : LevelStep(l) \/ LevelFails(l)
    \/ \E p \in Persisters : PersistStep(p) \/ (Alive /\ LandFails(p))
    \/ CompleteNested \/ Control \/ EndRun \/ Flush \/ Crash \/ Resume

Spec == Init /\ [][Next]_vars

(* The event loop runs every ready continuation; nothing makes a user call *)
(* pause(), resume a run, or a process crash.                              *)
Fairness ==
    /\ \A l \in Levels : WF_vars(LevelStep(l))
    /\ \A p \in Persisters : WF_vars(PersistStep(p))
    /\ WF_vars(EndRun) /\ WF_vars(Flush)

FairSpec == Spec /\ Fairness

-----------------------------------------------------------------------------
\* Where a resume that reads cursor c restarts level l's target stream.
ResumePoint(l, c) == IF l \in Resumable THEN Skipped(c) ELSE 0

\* Envelopes of level l found in its durable output.
Survivors(l) == {out[l][k] : k \in 1..P} \ {0}

(* The run's promise, read off its output, state.json and phase.           *)
Delivery == INSTANCE AtLeastOnce WITH
    Pieces <- Levels \X (1..P),
    delivered <- {e \in Levels \X (1..P) : e[2] \in Survivors(e[1])},
    promised <- {e \in Levels \X (1..P) : e[2] <= ResumePoint(e[1], disk[e[1]])},
    finished <- (phase = "done")

(* Output, once durable, is never replaced or overwritten, and the run     *)
(* delivers at least once (open, write, close, resume).                    *)
DeliversAtLeastOnce == Delivery!Spec

(* A resume at any moment skips only envelopes whose output is durable:    *)
(* "never a cursor ahead of durable output" (writeTarget, persistState).   *)
ResumeLosesNothing ==
    \A l \in Levels : 1..ResumePoint(l, disk[l]) \subseteq Survivors(l)

(* A run that ends as done left the output of every envelope behind,       *)
(* however often it failed, crashed and was resumed (markRunDone).         *)
DoneIsComplete ==
    phase = "done" => \A l \in Levels : Survivors(l) = 1..P

(* Every session ends: the drain, the flush and the write loops never wait *)
(* on each other for good (drainPersists, flushPersists, writeTarget).     *)
SessionEnds == (phase = "running") ~> (phase \in {"done", "failed", "down"})
==============================================================================
