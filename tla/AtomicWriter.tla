---------------------------- MODULE AtomicWriter ----------------------------
(***************************************************************************)
(* Writers of one file (packages/core/src/atomic.ts).  Data goes to a temp *)
(* sibling and is renamed over the path when it is complete: by            *)
(* AtomicStreamWriter, chunk by chunk with backpressure, or by             *)
(* atomicWriteFile in one go.  open() of a stream writer sweeps every temp *)
(* sibling of the path, those of writers at work included.                 *)
(*                                                                         *)
(* An inode is named by the writer that created it; a descriptor stays     *)
(* good after its name is swept.  The k-th chunk of w is <<w, k>>.         *)
(***************************************************************************)
EXTENDS Integers, Sequences

CONSTANTS
    Streams,    \* users of AtomicStreamWriter
    Files,      \* calls of atomicWriteFile
    Tags,       \* tags of temp names
    Tag,        \* Tag[w]: the run's id for a stream, a random one for a file
    HighWater,  \* chunks a stream buffers before write() returns false
    Old         \* the file as it was before

Writers == Streams \cup Files

ASSUME WriterConstants ==
    /\ Streams \cap Files = {}
    /\ Tag \in [Writers -> Tags]
    /\ HighWater \in Nat \ {0}
    /\ Old \notin Writers

VARIABLES
    phase,      \* per writer: what it awaits, or how it ended
    sweep,      \* per writer: temp names it has listed and not unlinked
    wrote,      \* per writer: chunks handed to the stream
    flushed,    \* per writer: chunks in the file
    failure,    \* per writer: the stream has emitted an error
    fd,         \* per writer: the inode it writes to, Old if none
    tmp,        \* the directory: the inode of a temp name, Old if none
    content,    \* per inode: its chunks
    final       \* the inode at the path

files == <<tmp, content, final>>
writerVars == <<phase, sweep, wrote, flushed, failure, fd, files>>

Chunks == (Writers \X Nat) \cup {Old}

WriterTypeOK ==
    /\ phase \in [Writers -> {"new", "sweeping", "open", "draining", "rejected", "ending",
                              "renaming", "aborting", "done", "failed", "dead"}]
    /\ sweep \in [Writers -> SUBSET Tags]
    /\ wrote \in [Writers -> Nat]
    /\ flushed \in [Writers -> Nat]
    /\ failure \in [Writers -> BOOLEAN]
    /\ fd \in [Writers -> Writers \cup {Old}]
    /\ tmp \in [Tags -> Writers \cup {Old}]
    /\ content \in [Writers -> Seq(Chunks)]
    /\ final \in Writers \cup {Old}

WriterInit ==
    /\ phase = [w \in Writers |-> "new"]
    /\ sweep = [w \in Writers |-> {}]
    /\ wrote = [w \in Writers |-> 0]
    /\ flushed = [w \in Writers |-> 0]
    /\ failure = [w \in Writers |-> FALSE]
    /\ fd = [w \in Writers |-> Old]
    /\ tmp = [t \in Tags |-> Old]
    /\ content = [w \in Writers |-> <<>>]
    /\ final = Old

Goto(w, p) == phase' = [phase EXCEPT ![w] = p]

Ended(w) == phase[w] \in {"done", "failed", "dead"}

\* What a descriptor at position n makes of a file: a gap stays a hole.
PutAt(file, n, chunk) ==
    [k \in 1..(IF n > Len(file) THEN n ELSE Len(file)) |->
        IF k = n THEN chunk ELSE IF k <= Len(file) THEN file[k] ELSE Old]

-----------------------------------------------------------------------------
(* AtomicStreamWriter.open *)

\* removeStaleTmpFiles: readdir ...
ListTmp(w) ==
    /\ w \in Streams
    /\ phase[w] = "new"
    /\ Goto(w, "sweeping")
    /\ sweep' = [sweep EXCEPT ![w] = {t \in Tags : tmp[t] # Old}]
    /\ UNCHANGED <<wrote, flushed, failure, fd, files>>

\* ... and discardTmp of each entry, in any order; a vanished one is ignored.
Unlink(w, t) ==
    /\ phase[w] = "sweeping"
    /\ t \in sweep[w]
    /\ sweep' = [sweep EXCEPT ![w] = @ \ {t}]
    /\ tmp' = [tmp EXCEPT ![t] = Old]
    /\ UNCHANGED <<phase, wrote, flushed, failure, fd, content, final>>

\* createWriteStream with flag 'w' opens: a new inode, or an existing one truncated.
Create(w) ==
    /\ phase[w] = "sweeping"
    /\ sweep[w] = {}
    /\ LET ino == IF tmp[Tag[w]] = Old THEN w ELSE tmp[Tag[w]] IN
        /\ tmp' = [tmp EXCEPT ![Tag[w]] = ino]
        /\ fd' = [fd EXCEPT ![w] = ino]
        /\ content' = [content EXCEPT ![ino] = <<>>]
    /\ Goto(w, "open")
    /\ UNCHANGED <<sweep, wrote, flushed, failure, final>>

CreateFails(w) ==
    /\ phase[w] = "sweeping"
    /\ sweep[w] = {}
    /\ Goto(w, "aborting")
    /\ failure' = [failure EXCEPT ![w] = TRUE]
    /\ UNCHANGED <<sweep, wrote, flushed, fd, files>>

-----------------------------------------------------------------------------
(* write *)

\* The chunk goes to the stream; at the high-water mark the call waits for drain.
Write(w) ==
    /\ phase[w] = "open"
    /\ ~failure[w]
    /\ wrote' = [wrote EXCEPT ![w] = @ + 1]
    /\ Goto(w, IF wrote[w] + 1 - flushed[w] >= HighWater THEN "draining" ELSE "open")
    /\ UNCHANGED <<sweep, flushed, failure, fd, files>>

\* After an error the call throws at once.
WriteThrows(w) ==
    /\ phase[w] = "open"
    /\ failure[w]
    /\ Goto(w, "rejected")
    /\ UNCHANGED <<sweep, wrote, flushed, failure, fd, files>>

Streaming == {"open", "draining", "ending"}

\* The stream writes one buffered chunk; 'drain' comes when its buffer is empty.
Flush(w) ==
    /\ phase[w] \in Streaming
    /\ ~failure[w]
    /\ flushed[w] < wrote[w]
    /\ flushed' = [flushed EXCEPT ![w] = @ + 1]
    /\ content' = [content EXCEPT
            ![fd[w]] = PutAt(@, flushed[w] + 1, <<w, flushed[w] + 1>>)]
    /\ Goto(w, IF phase[w] = "draining" /\ flushed[w] + 1 = wrote[w] THEN "open" ELSE phase[w])
    /\ UNCHANGED <<sweep, wrote, failure, fd, tmp, final>>

\* (Mutant: a call that waits for drain misses the error.)
StreamFailsUnheard(w) ==
    /\ phase[w] \in Streaming
    /\ ~failure[w]
    /\ flushed[w] < wrote[w] \/ phase[w] = "ending"
    /\ failure' = [failure EXCEPT ![w] = TRUE]
    /\ Goto(w, IF phase[w] = "ending" THEN "aborting" ELSE phase[w])
    /\ UNCHANGED <<sweep, wrote, flushed, fd, files>>

\* 'error': a waiting write() rejects, a commit() aborts, otherwise the next call throws.
StreamFails(w) ==
    /\ phase[w] \in Streaming
    /\ ~failure[w]
    /\ flushed[w] < wrote[w] \/ phase[w] = "ending"
    /\ failure' = [failure EXCEPT ![w] = TRUE]
    /\ Goto(w, CASE phase[w] = "ending"   -> "aborting"
                 [] phase[w] = "draining" -> "rejected"
                 [] OTHER                 -> phase[w])
    /\ UNCHANGED <<sweep, wrote, flushed, fd, files>>

-----------------------------------------------------------------------------
(* commit, abort, atomicWriteFile *)

Commit(w) ==
    /\ phase[w] \in {"open", "rejected"}
    /\ Goto(w, IF failure[w] THEN "aborting" ELSE "ending")
    /\ UNCHANGED <<sweep, wrote, flushed, failure, fd, files>>

\* stream.end() has finished.
Finish(w) ==
    /\ phase[w] = "ending"
    /\ flushed[w] = wrote[w]
    /\ Goto(w, "renaming")
    /\ UNCHANGED <<sweep, wrote, flushed, failure, fd, files>>

\* writeFile creates the temp file and fills it, or fails with or without it.
WriteFile(w) ==
    /\ w \in Files
    /\ phase[w] = "new"
    /\ \E created \in BOOLEAN, ok \in BOOLEAN :
        /\ ok => created
        /\ Goto(w, IF ok THEN "renaming" ELSE "aborting")
        /\ tmp' = IF created THEN [tmp EXCEPT ![Tag[w]] = w] ELSE tmp
        /\ wrote' = [wrote EXCEPT ![w] = 1]
        /\ content' = IF ok THEN [content EXCEPT ![w] = << <<w, 1>> >>] ELSE content
    /\ UNCHANGED <<sweep, flushed, failure, fd, final>>

\* (Mutant: an error of rename is swallowed.)
RenameMaybe(w) ==
    /\ phase[w] = "renaming"
    /\ final' = IF tmp[Tag[w]] = Old THEN final ELSE tmp[Tag[w]]
    /\ tmp' = [tmp EXCEPT ![Tag[w]] = Old]
    /\ Goto(w, "done")
    /\ UNCHANGED <<sweep, wrote, flushed, failure, fd, content>>

\* rename() over the path; the temp name may have been swept.
Rename(w) ==
    /\ phase[w] = "renaming"
    /\ tmp[Tag[w]] # Old
    /\ final' = tmp[Tag[w]]
    /\ tmp' = [tmp EXCEPT ![Tag[w]] = Old]
    /\ Goto(w, "done")
    /\ UNCHANGED <<sweep, wrote, flushed, failure, fd, content>>

RenameFails(w) ==
    /\ phase[w] = "renaming"
    /\ Goto(w, "aborting")
    /\ UNCHANGED <<sweep, wrote, flushed, failure, fd, files>>

\* discardTmp, then the error is thrown.
Abort(w) ==
    /\ phase[w] = "aborting"
    /\ tmp' = [tmp EXCEPT ![Tag[w]] = Old]
    /\ Goto(w, "failed")
    /\ UNCHANGED <<sweep, wrote, flushed, failure, fd, content, final>>

\* The process of some writers dies; its files stay.
Die(ws) ==
    /\ phase' = [w \in Writers |-> IF w \in ws /\ ~Ended(w) THEN "dead" ELSE phase[w]]
    /\ UNCHANGED <<sweep, wrote, flushed, failure, fd, files>>

\* What happens without a further call of the owner.
WriterStep(w) ==
    \/ ListTmp(w)
    \/ \E t \in Tags : Unlink(w, t)
    \/ Create(w)
    \/ Flush(w)
    \/ Finish(w)
    \/ WriteFile(w)
    \/ Rename(w)
    \/ tmp[Tag[w]] = Old /\ RenameFails(w)
    \/ Abort(w)

WriterFault(w) == CreateFails(w) \/ StreamFails(w) \/ RenameFails(w)

-----------------------------------------------------------------------------
Full(w) == [k \in 1..wrote[w] |-> <<w, k>>]

\* What a reader of the path sees.
AtPath == IF final = Old THEN <<Old>> ELSE content[final]

\* What a reader sees changes only by a writer whose commit has just succeeded, and
\* then to the complete output of that writer: "either untouched or complete"
\* (atomic.ts:73), whoever else sweeps, writes, fails or dies.
CommitPublishes ==
    /\ AtPath' # AtPath => \E w \in Writers : phase'[w] = "done" /\ phase[w] # "done"
    /\ \A w \in Writers :
        phase'[w] = "done" /\ phase[w] # "done" => final' \in Writers /\ AtPath' = Full(w)'
==============================================================================
