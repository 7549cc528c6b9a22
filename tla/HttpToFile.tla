----------------------------- MODULE HttpToFile -----------------------------
(***************************************************************************)
(* The pipeline hs:// -> jsonl:// : writeTarget of the runner              *)
(* (packages/core/src/engine/runner.ts) pulls from HttpSource and writes   *)
(* to the AtomicWriter Pipe, while other writers, of other processes, use  *)
(* the same path.                                                          *)
(***************************************************************************)
EXTENDS HttpSource, AtomicWriter

CONSTANTS
    Pipe,       \* the writer of the jsonl target
    MaxChunks   \* bound on the chunks of another stream writer

ASSUME PipelineConstants == Pipe \in Streams /\ MaxChunks \in Nat

VARIABLES
    stage,      \* what writeTarget awaits
    threw       \* an error leaves its loop

vars == <<sourceVars, writerVars, stage, threw>>

TypeOK ==
    /\ SourceTypeOK
    /\ WriterTypeOK
    /\ stage \in {"open", "next", "write", "return", "close", "done", "failed"}
    /\ threw \in BOOLEAN

Init ==
    /\ SourceInit
    /\ WriterInit
    /\ stage = "open"
    /\ threw = FALSE

Others == Writers \ {Pipe}

-----------------------------------------------------------------------------
(* writeTarget *)

\* target.open() is back; for await asks the source for its first item.
Opened ==
    /\ alive /\ stage = "open"
    /\ \/ phase[Pipe] = "open" /\ Listen /\ stage' = "next"
       \/ phase[Pipe] = "failed" /\ stage' = "failed" /\ UNCHANGED sourceVars
    /\ UNCHANGED <<threw, writerVars>>

\* An item comes, target.write() is called.
WriteItem ==
    /\ stage = "next"
    /\ Yield
    /\ Write(Pipe)
    /\ stage' = "write"
    /\ UNCHANGED threw

\* An item comes after the stream has failed.
WriteFailed ==
    /\ stage = "next"
    /\ Yield
    /\ WriteThrows(Pipe)
    /\ stage' = "write"
    /\ UNCHANGED threw

\* write() is back: next().
Written ==
    /\ alive /\ stage = "write"
    /\ phase[Pipe] = "open"
    /\ Advance
    /\ stage' = "next"
    /\ UNCHANGED <<threw, writerVars>>

\* write() rejected, at once or while it waited for drain: return().
WriteRejected ==
    /\ alive /\ stage = "write"
    /\ phase[Pipe] = "rejected"
    /\ Return
    /\ threw' = TRUE
    /\ stage' = "return"
    /\ UNCHANGED writerVars

\* finally: target.close().
CloseTarget ==
    /\ alive
    /\ stage \in {"next", "return"}
    /\ src = "ended"
    /\ Commit(Pipe)
    /\ stage' = "close"
    /\ UNCHANGED <<threw, sourceVars>>

\* (Mutant: a rejected close() is not noticed.)
TargetClosedAnyway ==
    /\ alive /\ stage = "close"
    /\ phase[Pipe] \in {"done", "failed"}
    /\ stage' = IF threw THEN "failed" ELSE "done"
    /\ UNCHANGED <<threw, sourceVars, writerVars>>

TargetClosed ==
    /\ alive /\ stage = "close"
    /\ \/ phase[Pipe] = "done" /\ stage' = IF threw THEN "failed" ELSE "done"
       \/ phase[Pipe] = "failed" /\ stage' = "failed"
    /\ UNCHANGED <<threw, sourceVars, writerVars>>

PipelineStep ==
    Opened \/ WriteItem \/ WriteFailed \/ Written \/ WriteRejected \/ CloseTarget \/ TargetClosed

-----------------------------------------------------------------------------
\* Bound: of the other writers of the path one at most gets to work.
OneRival(w) == \A v \in Others \ {w} : phase[v] = "new"

\* Other writers of the path: their owners write, commit or die.
OwnerStep(w) ==
    \/ wrote[w] < MaxChunks /\ Write(w)
    \/ WriteThrows(w)
    \/ Commit(w)

ProcessDies ==
    /\ Crash
    /\ UNCHANGED <<stage, threw, writerVars>>

\* What belongs to a dead process stops.
PipeDies ==
    /\ ~alive
    /\ ~Ended(Pipe)
    /\ Die({Pipe})
    /\ UNCHANGED <<sourceVars, stage, threw>>

OtherDies(w) ==
    /\ phase[w] # "new" /\ ~Ended(w)
    /\ Die({w})
    /\ UNCHANGED <<sourceVars, stage, threw>>

PipeWorks == alive /\ WriterStep(Pipe) /\ UNCHANGED <<sourceVars, stage, threw>>

SourceWorks ==
    /\ Listening \/ Closed \/ \E p \in Posts : HandlerStep(p)
    /\ UNCHANGED <<stage, threw, writerVars>>

Next ==
    \/ PipelineStep
    \/ PipeWorks
    \/ SourceWorks
    \/ (ClientStep \/ ListenFails) /\ UNCHANGED <<stage, threw, writerVars>>
    \/ alive /\ WriterFault(Pipe) /\ UNCHANGED <<sourceVars, stage, threw>>
    \/ ProcessDies
    \/ PipeDies
    \/ \E w \in Others :
        /\ OneRival(w)
        /\ \/ OtherDies(w)
           \/ (WriterStep(w) \/ WriterFault(w) \/ OwnerStep(w)) /\ UNCHANGED <<sourceVars, stage, threw>>

Spec == Init /\ [][Next]_vars

\* The event loop runs what is ready, the disk answers, the server closes.  Clients
\* promise nothing: a body may never end, a request may never come.
Fairness ==
    /\ WF_vars(PipelineStep)
    /\ WF_vars(PipeWorks)
    /\ WF_vars((Listening \/ Closed) /\ UNCHANGED <<stage, threw, writerVars>>)

FairSpec == Spec /\ Fairness

-----------------------------------------------------------------------------
Queue == INSTANCE AcknowledgedQueue WITH
    Elements <- Posts,
    Bound    <- MaxBuffer,
    queue    <- IF hand = NoPost THEN buffer ELSE <<hand>> \o buffer,
    out      <- yielded,
    over     <- ~alive \/ src \in {"closing", "ended"},
    broken   <- ~alive \/ threw

\* A request answered as part of the run reaches the pipeline once and in order, the
\* buffer keeps its bound, and a run that ends by count leaves no such item behind
\* (http-server.ts:172-198 against the break and the finally).
AcknowledgedIsHandedOver == Queue!Spec

\* A run recorded as done has published exactly the items it yielded: every write
\* reached the file although the stream buffers and may fail late.
DoneIsPublished ==
    stage = "done" =>
        /\ Limit # 0 /\ Len(yielded) = Limit
        /\ wrote[Pipe] = Limit
        /\ phase[Pipe] = "done"
        /\ content[Pipe] = Full(Pipe)

\* A waiting pipeline goes on when something arrives, backpressure ends, and teardown
\* is not held up by open connections: once the count is received the run settles.
CountSettles ==
    (Limit # 0 /\ received >= Limit) ~> (stage \in {"done", "failed"} \/ ~alive)

\* See CommitPublishes: the path shows nothing but complete outputs, and no commit
\* reports success over the output of another writer.
CommitsPublish == [][CommitPublishes]_vars
==============================================================================
