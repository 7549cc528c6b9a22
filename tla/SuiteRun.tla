------------------------------ MODULE SuiteRun ------------------------------
(***************************************************************************)
(* A suite: an orchestration-only pipeline whose steps are self-contained  *)
(* sub-pipelines, each reading what the one before it wrote                *)
(* (packages/core/src/engine/runner.ts: subflowStream, enterNested,        *)
(* completeNested, failNested, cursorNode; engine/checkpoint.ts;           *)
(* packages/waypoint/src/resume.ts, ephemeral.ts, entity-buffers.ts).      *)
(*                                                                         *)
(* A resumed process walks every stage again: it appends a second node     *)
(* with the id of the first session's node, finds the FIRST node of that   *)
(* id when it looks for the cursor, and hands that cursor to a source      *)
(* whose content the previous stage of this session has just rewritten.    *)
(* The interleavings of the three persistState callers are the matter of   *)
(* DurableCursor; here a mid-run persist is a snapshot and its landing.    *)
(***************************************************************************)
EXTENDS Integers, Sequences, FiniteSets, SequencesExt

CONSTANTS
    Stages,       \* number of stages
    N,            \* envelopes the first stage's source yields
    Shapes,       \* suites under study, see Shape
    MaxSessions   \* bound on start() plus resume() calls

Items == 1..N

(***************************************************************************)
(* medium   what a stage's target is: keyed, one file per envelope;        *)
(*          memory, a named buffer (ephemeral://, temp://<entity>/...)     *)
(* resumes  the stages whose source implements resume()                    *)
(***************************************************************************)
Shape == [medium : [1..Stages -> {"keyed", "memory"}],
          resumes : SUBSET (1..Stages)]

ASSUME SuiteConstants ==
    /\ Stages \in Nat \ {0} /\ N \in Nat /\ MaxSessions \in Nat \ {0}
    /\ Shapes \subseteq Shape /\ Shapes # {}
    /\ \A s \in Shapes : s.medium[Stages] = "keyed"

None == -1

VARIABLES
    shape,      \* the suite at hand
    pc,         \* where the process is, "off" when there is none
    state,      \* stateMachine.current
    stage,      \* the sub-pipeline being run
    nodes,      \* children of the root, [stage, state, cursor] each
    at,         \* sourceStart + envelopesWritten of the stage being run
    todo,       \* envelopes its source has still to yield
    base,       \* baseCursor of the open target, None: no target is open
    held,       \* held[s]: envelopes stage s's target holds
    flight,     \* the snapshot a mid-run persist is writing, <<>>: none
    saved,      \* state.json: [state, nodes]
    sessions

process == <<pc, state, stage, nodes, at, todo, base>>
vars == <<shape, process, held, flight, saved, sessions>>

Node == [stage : 1..Stages, state : {"in-progress", "done", "failed"},
         cursor : {None} \cup 0..N]
Record == [state : {"running", "failed", "done"}, nodes : Seq(Node)]

Init ==
    /\ shape \in Shapes
    /\ pc = "next" /\ state = "running" /\ stage = 1
    /\ nodes = <<>> /\ at = 0 /\ todo = <<>> /\ base = None
    /\ held = [s \in 1..Stages |-> {}]
    /\ flight = <<>>
    /\ saved = [state |-> "running", nodes |-> <<>>]
    /\ sessions = 1

-----------------------------------------------------------------------------
(* The checkpoint tree: ids are unique within a session only. *)

Ids(tree, s) == {i \in DOMAIN tree : tree[i].stage = s}

\* The node entered last, the one enterNested just made (mutant of First).
Newest(tree, s) == CHOOSE i \in Ids(tree, s) : \A j \in Ids(tree, s) : i >= j

\* findNode, depth first.
First(tree, s) == CHOOSE i \in Ids(tree, s) : \A j \in Ids(tree, s) : i <= j

\* The cursor a resume would find.
Cursor(tree, s) == IF Ids(tree, s) = {} THEN None
                   ELSE tree[First(tree, s)].cursor

Mark(s) == [nodes EXCEPT ![First(nodes, stage)].state = s]

\* clampCursorsToCommitted for targets without checkpoint(): never past where
\* the cursor stood when the target was opened.
Clamped ==
    IF base = None \/ Cursor(nodes, stage) <= base THEN nodes
    ELSE [nodes EXCEPT ![First(nodes, stage)].cursor = base]

-----------------------------------------------------------------------------
(* Sources and targets. *)

InOrder(S) == CHOOSE q \in [1..Cardinality(S) -> S] :
                  \A i, j \in DOMAIN q : i < j => q[i] < q[j]

\* seen++ <= n (mutant of Remaining).
RemainingPast(all, c) == SubSeq(all, IF c = 0 THEN 1 ELSE c + 2, Len(all))

\* resumeFrom: the ordering of the source, less its first c envelopes.
Remaining(all, c) == SubSeq(all, c + 1, Len(all))

\* What the stage's source holds: files, or what a buffer of this process
\* was given.
Content(s) == IF s = 1 THEN InOrder(Items) ELSE InOrder(held[s - 1])

\* Only a source that resumes is told the cursor.
SourceStart(tree) ==
    IF stage \in shape.resumes /\ Cursor(tree, stage) # None
    THEN Cursor(tree, stage) ELSE 0

\* open(): a buffer is cleared, a directory of files is not.
Opened == IF shape.medium[stage] = "memory"
          THEN [held EXCEPT ![stage] = {}] ELSE held

\* What is left of the targets when the process is gone.
Surviving == [s \in 1..Stages |->
                 IF shape.medium[s] = "memory" THEN {} ELSE held[s]]

-----------------------------------------------------------------------------
(* The process. *)

\* enterNested, the source step and writeTarget up to target.open().
Enter ==
    /\ pc = "next" /\ stage <= Stages
    /\ LET tree == Append(nodes, [stage |-> stage, state |-> "in-progress",
                                  cursor |-> None])
           start == SourceStart(tree)
       IN /\ nodes' = tree
          /\ at' = start
          /\ todo' = Remaining(Content(stage), start)
          /\ base' = Max({Cursor(tree, stage), 0})
    /\ held' = Opened
    /\ pc' = "write"
    /\ UNCHANGED <<shape, state, stage, flight, saved, sessions>>

\* target.write() and recordCursor.
Write ==
    /\ pc = "write" /\ todo # <<>>
    /\ held' = [held EXCEPT ![stage] = @ \cup {Head(todo)}]
    /\ todo' = Tail(todo)
    /\ at' = at + 1
    /\ nodes' = [nodes EXCEPT ![First(nodes, stage)].cursor = at + 1]
    /\ UNCHANGED <<shape, pc, state, stage, base, flight, saved, sessions>>

\* close(), then completeNested; the next sub-pipeline follows.
Complete ==
    /\ pc = "write" /\ todo = <<>>
    /\ base' = None
    /\ nodes' = Mark("done")
    /\ stage' = stage + 1
    /\ pc' = "next"
    /\ UNCHANGED <<shape, state, at, todo, held, flight, saved, sessions>>

\* The cursor counts what the source handed out (mutant of Fails).
FailsCounted ==
    /\ pc = "write" /\ todo # <<>>
    /\ base' = None
    /\ nodes' = [nodes EXCEPT ![First(nodes, stage)].cursor = at + 1]
    /\ state' = "failed"
    /\ pc' = "end"
    /\ UNCHANGED <<shape, stage, at, todo, held, flight, saved, sessions>>

\* A tool or a write fails: the target is closed, failNested, failRun.
Fails ==
    /\ pc = "write" /\ todo # <<>>
    /\ base' = None
    /\ nodes' = Mark("failed")
    /\ state' = "failed"
    /\ pc' = "end"
    /\ UNCHANGED <<shape, stage, at, todo, held, flight, saved, sessions>>

\* markRunDone.
Finish ==
    /\ pc = "next" /\ stage > Stages
    /\ state' = "done"
    /\ pc' = "end"
    /\ UNCHANGED <<shape, stage, nodes, at, todo, base, held, flight, saved,
                   sessions>>

\* The persist of markRunDone or failRun.
PersistEnd ==
    /\ pc = "end"
    /\ saved' = [state |-> state, nodes |-> nodes]
    /\ pc' = "ended"
    /\ UNCHANGED <<shape, state, stage, nodes, at, todo, base, held, flight,
                   sessions>>

\* A scheduled persist: clamps, and takes its snapshot.
Snapshot ==
    /\ pc \in {"next", "write"} /\ flight = <<>>
    /\ nodes' = Clamped
    /\ flight' = <<[state |-> state, nodes |-> Clamped]>>
    /\ UNCHANGED <<shape, pc, state, stage, at, todo, base, held, saved,
                   sessions>>

Land ==
    /\ flight # <<>>
    /\ saved' = Head(flight)
    /\ flight' = <<>>
    /\ UNCHANGED <<shape, process, held, sessions>>

\* The process exits when nothing of it is left to do, or dies before.
Gone ==
    /\ pc' = "off"
    /\ stage' = 1 /\ nodes' = <<>> /\ at' = 0 /\ todo' = <<>> /\ base' = None
    /\ flight' = <<>>
    /\ held' = Surviving
    /\ UNCHANGED <<shape, state, saved, sessions>>

Exit == pc = "ended" /\ flight = <<>> /\ Gone

Crash == pc \notin {"off", "ended"} /\ Gone

\* resume(): the tree of state.json, and the steps from the first one on.
Resume ==
    /\ pc = "off" /\ saved.state # "done" /\ sessions < MaxSessions
    /\ sessions' = sessions + 1
    /\ state' = "running"
    /\ nodes' = saved.nodes
    /\ pc' = "next"
    /\ UNCHANGED <<shape, stage, at, todo, base, held, flight, saved>>

Next ==
    \/ Enter \/ Write \/ Complete \/ Fails \/ Finish \/ PersistEnd
    \/ Snapshot \/ Land \/ Exit \/ Crash \/ Resume

Spec == Init /\ [][Next]_vars

-----------------------------------------------------------------------------
(* Properties. *)

\* Shape of the state; the process holds at most one open target, which
\* belongs to the stage its newest node stands for.
TypeOK ==
    /\ shape \in Shapes
    /\ pc \in {"next", "write", "end", "ended", "off"}
    /\ state \in {"running", "failed", "done"}
    /\ stage \in 1..(Stages + 1)
    /\ nodes \in Seq(Node) /\ at \in 0..N /\ todo \in Seq(Items)
    /\ base \in {None} \cup 0..N
    /\ held \in [1..Stages -> SUBSET Items]
    /\ flight = <<>> \/ Head(flight) \in Record
    /\ saved \in Record
    /\ sessions \in 1..MaxSessions
    /\ base # None <=> pc = "write"
    /\ pc = "write" => Last(nodes).stage = stage

\* What a resume would be told to skip of a stage with a resumable source is
\* in the stage's output already, whatever session recorded it.
SkipsOnlyWritten ==
    \A rec \in {saved} \cup ToSet(flight) : \A s \in shape.resumes :
        1..Cursor(rec.nodes, s) \subseteq held[s]

\* A run that ends as done has its whole output, however often it was
\* resumed: "a crash never skips unflushed output".
DoneIsDelivered ==
    state = "done" => held[Stages] = Items

\* No session writes again, in a stage whose source resumes, what state.json
\* counts as written: "without redoing completed work" (docs/guiding/uc.md).
WrittenAgain ==
    /\ Write
    /\ stage \in shape.resumes
    /\ Head(todo) <= Cursor(saved.nodes, stage)

NothingIsRedone == [][~WrittenAgain]_vars
=============================================================================
