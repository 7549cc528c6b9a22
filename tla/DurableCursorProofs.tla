------------------------- MODULE DurableCursorProofs -------------------------
(***************************************************************************)
(* Proofs about DurableCursor.  Type correctness holds for every value of  *)
(* the constants.  That a resume loses nothing and that done is complete   *)
(* holds for the pipelines that the two assumptions of the theorems admit: *)
(* the model checker refutes both properties for the others.  The last    *)
(* part shows that in these pipelines DurableCursor implements AtLeastOnce. *)
(***************************************************************************)
EXTENDS DurableCursor, SequenceTheorems, TLAPS

\* No source envelope turns into more than one target envelope.
Narrow == \A c, d \in 0..N : c <= d => Before[d] <= Before[c] + (d - c)

\* Output durable as it is written, or an only level with a checkpoint() hook.
SafeTargets ==
    \A l \in Levels : Kind[l] = "keyed" \/ (Kind[l] = "commit" /\ Levels = {l})

-----------------------------------------------------------------------------
\* The first k envelopes of level l are in its output.
Saved(l, k) == \A x \in 1..P : x <= k => out[l][x] = x

\* A resume of level l that reads cursor c skips durable envelopes only.
CursorSafe(l, c) == Saved(l, ResumePoint(l, c))

InBounds == \A l \in Levels : Offset(l) + Accepted(l) <= P

(* What is durable of the session's own envelopes, and how far the cursor  *)
(* may stand from it.                                                      *)
SessionInv(l) ==
    at[l] # "idle" =>
        /\ Saved(l, Offset(l))
        /\ l \in Resumable => base[l] = start[l]
        /\ l \in Resumable => cursor[l] <= start[l] + written[l]

KeyedInv(l) ==
    Kind[l] = "keyed" =>
        /\ CursorSafe(l, cursor[l])
        /\ at[l] # "idle" => /\ Saved(l, Offset(l) + Accepted(l))
                             /\ CursorSafe(l, base[l])

\* A cursor ahead of the sink is clamped as long as the target is tracked.
CommitInv(l) ==
    Kind[l] = "commit" =>
        /\ committed[l] <= Accepted(l)
        /\ at[l] # "idle" => Saved(l, Offset(l) + committed[l])
        /\ CursorSafe(l, cursor[l]) \/ (at[l] # "idle" /\ openTargets # <<>>)
        /\ at[l] \in {"writing", "accepted", "closing", "closed"}
             => openTargets # <<>>
        /\ at[l] \in {"closed", "untracked"} \/ (at[l] = "settled" /\ ~threw[l])
             => committed[l] = written[l]

\* A stream that did not throw was read to its end.
StreamInv(l) ==
    /\ ~threw[l] /\ at[l] \in {"closing", "closed", "untracked", "settled"}
         => Offset(l) + written[l] >= P
    /\ at[l] \in {"idle", "writing", "accepted"} => ~threw[l]

LevelInv(l) == SessionInv(l) /\ KeyedInv(l) /\ CommitInv(l) /\ StreamInv(l)

TrackedInv == \A i \in 1..Len(openTargets) : at[openTargets[i]] # "idle"

PersistInv(p) ==
    /\ persistAt[p] = "landing" => \A l \in Levels : CursorSafe(l, snap[p][l])
    /\ persistAt[p] = "clamping" => at[persistLevel[p]] # "idle"

DiskInv == \A l \in Levels : CursorSafe(l, disk[l])

PhaseInv ==
    /\ phase \in {"running", "done", "failed"} => persistAt["main"] = "idle"
    /\ phase \in {"ending", "flushing", "done", "failed"}
         => \A l \in Levels : at[l] = "settled"
    /\ phase \in {"flushing", "done"} => ~Threw

\* A persist awaits the hook of some level's target.
AwaitsLevel ==
    \A p \in Persisters : persistAt[p] = "clamping" => persistLevel[p] \in Levels

BaseInv == TypeOK /\ InBounds /\ AwaitsLevel

SafeInv ==
    /\ \A l \in Levels : LevelInv(l)
    /\ TrackedInv
    /\ \A p \in Persisters : PersistInv(p)
    /\ DiskInv
    /\ PhaseInv

-----------------------------------------------------------------------------
(* How far a source that skips c envelopes moves the target's stream.      *)
LEMMA SkippedFacts ==
    /\ P \in Nat
    /\ \A c \in Nat : Skipped(c) \in 0..P
    /\ Skipped(0) = 0
    /\ \A c, d \in Nat : c <= d => Skipped(c) <= Skipped(d)
  BY CursorConstants DEF CursorConstants, P, Skipped

(* Where no step fans out, w more source envelopes are at most w more for  *)
(* the target.                                                             *)
LEMMA SkippedNarrow ==
    ASSUME Narrow, NEW c \in Nat, NEW w \in Nat
    PROVE  Skipped(c + w) <= Skipped(c) + w
  <1>1. CASE c >= N
    BY <1>1, SkippedFacts, CursorConstants DEF CursorConstants, Skipped
  <1>2. CASE c < N /\ c + w >= N
    <2>1. Before[N] <= Before[c] + (N - c)
      BY <1>2, CursorConstants DEF CursorConstants, Narrow
    <2>2. Before[c] \in Nat /\ Before[N] \in Nat
      BY <1>2, CursorConstants DEF CursorConstants
    <2> QED BY <1>2, <2>1, <2>2, CursorConstants DEF CursorConstants, Skipped, P
  <1>3. CASE c + w < N
    <2>1. Before[c + w] <= Before[c] + w
      BY <1>3, CursorConstants DEF CursorConstants, Narrow
    <2> QED BY <1>3, <2>1, CursorConstants DEF CursorConstants, Skipped
  <1> QED BY <1>1, <1>2, <1>3, CursorConstants DEF CursorConstants

LEMMA SkippedWithin ==
    ASSUME Narrow, NEW s \in Nat, NEW c \in Nat, NEW w \in Nat, c <= s + w
    PROVE  Skipped(c) <= Skipped(s) + w
  <1>1. s + w \in Nat
    OBVIOUS
  <1>2. Skipped(c) <= Skipped(s + w)
    BY <1>1, SkippedFacts
  <1>3. Skipped(s + w) <= Skipped(s) + w
    BY SkippedNarrow
  <1>4. Skipped(c) \in Nat /\ Skipped(s + w) \in Nat /\ Skipped(s) \in Nat
    BY <1>1, SkippedFacts
  <1> QED BY <1>2, <1>3, <1>4

-----------------------------------------------------------------------------
(* Type correctness. *)

PersistTypeOK ==
    /\ persistAt \in [Persisters -> {"idle", "clamping", "landing"}]
    /\ persistIdx \in [Persisters -> Nat]
    /\ persistLevel \in [Persisters -> Levels \cup {NoLevel}]
    /\ snap \in [Persisters -> [Levels -> Nat]]
    /\ snapDone \in [Persisters -> BOOLEAN]
    /\ AwaitsLevel

LevelTypeOK ==
    /\ at \in [Levels -> {"idle", "writing", "accepted", "closing",
                          "closed", "untracked", "settled"}]
    /\ threw \in [Levels -> BOOLEAN]
    /\ cursor \in [Levels -> Nat]
    /\ start \in [Levels -> Nat]
    /\ base \in [Levels -> Nat]
    /\ written \in [Levels -> Nat]
    /\ committed \in [Levels -> Nat]
    /\ openTargets \in Seq(Levels)
    /\ out \in [Levels -> [1..P -> 0..P]]

RestTypeOK ==
    /\ phase \in {"running", "ending", "flushing", "done", "failed", "down"}
    /\ writes \in 0..(PersistEvery - 1)
    /\ dirty \in BOOLEAN
    /\ disk \in [Levels -> Nat]
    /\ diskDone \in BOOLEAN
    /\ sessions \in 0..MaxSessions

LEMMA TypeParts ==
    BaseInv <=> PersistTypeOK /\ LevelTypeOK /\ RestTypeOK /\ InBounds
  BY DEF BaseInv, TypeOK, PersistTypeOK, LevelTypeOK, RestTypeOK

LEMMA TypePartsNext ==
    ASSUME PersistTypeOK', LevelTypeOK', RestTypeOK', InBounds'
    PROVE  BaseInv'
  BY DEF TypeOK, PersistTypeOK, LevelTypeOK, RestTypeOK, BaseInv

(* An envelope put into one slot of one level's output.                    *)
LEMMA SlotType ==
    ASSUME out \in [Levels -> [1..P -> 0..P]],
           NEW l \in Levels, NEW x \in 1..P, NEW y \in 0..P
    PROVE  [out EXCEPT ![l][x] = y] \in [Levels -> [1..P -> 0..P]]
  <1>1. [out[l] EXCEPT ![x] = y] \in [1..P -> 0..P]
    OBVIOUS
  <1> QED BY <1>1

LEMMA CommitUpToType ==
    ASSUME LevelTypeOK, NEW l \in Levels, NEW c \in Nat, CommitUpTo(l, c)
    PROVE  /\ out' \in [Levels -> [1..P -> 0..P]]
           /\ committed' \in [Levels -> Nat]
  <1>1. [k \in 1..P |-> IF k \in (Offset(l) + 1)..(Offset(l) + c)
                          THEN k ELSE out[l][k]]
          \in [1..P -> 0..P]
    <2>1. out[l] \in [1..P -> 0..P]
      BY DEF LevelTypeOK
    <2> QED BY <2>1, SkippedFacts
  <1> QED BY <1>1 DEF CommitUpTo, LevelTypeOK

LEMMA SerializeType ==
    ASSUME PersistTypeOK, NEW p \in Persisters, NEW cs \in [Levels -> Nat],
           Serialize(p, cs)
    PROVE  /\ snap' \in [Persisters -> [Levels -> Nat]]
           /\ snapDone' \in [Persisters -> BOOLEAN]
           /\ snap' = [snap EXCEPT ![p] = cs]
  <1> DEFINE d == (phase \in Terminal \/ p = "main") /\ ~Threw
  <1>1. d \in BOOLEAN
    OBVIOUS
  <1>2. snapDone' = [snapDone EXCEPT ![p] = d] /\ snap' = [snap EXCEPT ![p] = cs]
    BY DEF Serialize
  <1> HIDE DEF d
  <1> QED BY <1>1, <1>2 DEF PersistTypeOK

LEMMA PersistBeginsType ==
    ASSUME PersistTypeOK, NEW p \in Persisters, NEW ts \in Seq(Levels),
           NEW cs \in [Levels -> Nat], PersistBegins(p, ts, cs)
    PROVE  PersistTypeOK'
  <1>1. CASE ts = <<>>
    BY <1>1, SerializeType DEF PersistBegins, PersistTypeOK, AwaitsLevel
  <1>2. CASE ts # <<>>
    <2>1. ts[1] \in Levels
      BY <1>2
    <2>2. /\ persistAt' = [persistAt EXCEPT ![p] = "clamping"]
          /\ persistIdx' = [persistIdx EXCEPT ![p] = 1]
          /\ persistLevel' = [persistLevel EXCEPT ![p] = ts[1]]
          /\ UNCHANGED <<snap, snapDone>>
      BY <1>2 DEF PersistBegins
    <2>3. persistLevel' \in [Persisters -> Levels \cup {NoLevel}]
      BY <2>1, <2>2 DEF PersistTypeOK
    <2>4. /\ persistAt' \in [Persisters -> {"idle", "clamping", "landing"}]
          /\ persistIdx' \in [Persisters -> Nat]
      BY <2>2 DEF PersistTypeOK
    <2>5. AwaitsLevel'
      BY <2>1, <2>2 DEF PersistTypeOK, AwaitsLevel
    <2> QED BY <2>2, <2>3, <2>4, <2>5 DEF PersistTypeOK
  <1> QED BY <1>1, <1>2

LEMMA PersistIdlesType ==
    ASSUME PersistTypeOK, NEW p \in Persisters, PersistIdles(p)
    PROVE  PersistTypeOK'
  BY DEF PersistIdles, PersistTypeOK, AwaitsLevel, NoCursor

LEMMA SchedulePersistType ==
    ASSUME PersistTypeOK, dirty \in BOOLEAN, NEW ts \in Seq(Levels),
           NEW cs \in [Levels -> Nat], SchedulePersist(ts, cs)
    PROVE  PersistTypeOK' /\ dirty' \in BOOLEAN
  <1>1. CASE persistAt["drain"] = "idle"
    BY <1>1, PersistBeginsType DEF SchedulePersist, Persisters
  <1>2. CASE persistAt["drain"] # "idle"
    BY <1>2 DEF SchedulePersist, persistVars, PersistTypeOK, AwaitsLevel
  <1> QED BY <1>1, <1>2

LEMMA PositionFacts ==
    ASSUME BaseInv, NEW l \in Levels
    PROVE  /\ Offset(l) \in 0..P /\ written[l] \in Nat
           /\ Accepted(l) \in {written[l], written[l] + 1}
           /\ at[l] # "accepted" => Accepted(l) = written[l]
           /\ at[l] = "accepted" => Accepted(l) = written[l] + 1
           /\ Offset(l) + Accepted(l) <= P
  <1>1. start[l] \in Nat /\ written[l] \in Nat
    BY DEF BaseInv, TypeOK
  <1>2. Offset(l) \in 0..P
    BY <1>1, SkippedFacts DEF Offset
  <1> QED BY <1>1, <1>2 DEF BaseInv, InBounds, Accepted

\* Levels other than l keep their position in the target's stream.
LEMMA BoundsOfOthers ==
    ASSUME BaseInv, LevelTypeOK', NEW l \in Levels,
           \A m \in Levels \ {l} : /\ start'[m] = start[m]
                                   /\ written'[m] = written[m]
                                   /\ at'[m] = at[m],
           (Offset(l) + Accepted(l) <= P)'
    PROVE  InBounds'
  BY DEF BaseInv, InBounds, Offset, Accepted

LEMMA TrackBase ==
    ASSUME BaseInv, NEW l \in Levels, OpenTarget(l) \/ OpenTargetFails(l)
    PROVE  BaseInv'
  <1>1. PersistTypeOK /\ LevelTypeOK /\ RestTypeOK
    BY TypeParts
  <1>2. /\ Track(l)
        /\ at' = [at EXCEPT ![l] = "writing"] \/ at' = [at EXCEPT ![l] = "settled"]
        /\ threw' \in [Levels -> BOOLEAN]
    BY <1>1 DEF OpenTarget, OpenTargetFails, LevelTypeOK
  <1>3. PersistTypeOK' /\ RestTypeOK'
    BY <1>1, <1>2 DEF Track, SourceStart, PersistTypeOK, AwaitsLevel, RestTypeOK, persistVars, diskVars
  <1>4. /\ start' \in [Levels -> Nat] /\ base' \in [Levels -> Nat]
        /\ written' \in [Levels -> Nat] /\ committed' \in [Levels -> Nat]
        /\ openTargets' \in Seq(Levels)
    BY <1>1, <1>2 DEF Track, SourceStart, LevelTypeOK
  <1>5. LevelTypeOK'
    BY <1>1, <1>2, <1>4 DEF Track, SourceStart, LevelTypeOK
  <1>6. (Offset(l) + Accepted(l) <= P)'
    <2>1. start'[l] \in Nat /\ written'[l] = 0 /\ at'[l] # "accepted"
      BY <1>1, <1>2, <1>4 DEF Track, SourceStart, LevelTypeOK
    <2> QED BY <2>1, SkippedFacts DEF Offset, Accepted
  <1>7. InBounds'
    BY <1>1, <1>2, <1>5, <1>6, BoundsOfOthers DEF Track, SourceStart, LevelTypeOK
  <1> QED BY <1>3, <1>5, <1>7, TypePartsNext

LEMMA TargetWriteBase ==
    ASSUME BaseInv, NEW l \in Levels, TargetWrite(l)
    PROVE  BaseInv'
  <1>1. PersistTypeOK /\ LevelTypeOK /\ RestTypeOK
    BY TypeParts
  <1>2. PersistTypeOK' /\ RestTypeOK'
    BY <1>1 DEF TargetWrite, PersistTypeOK, AwaitsLevel, RestTypeOK, persistVars, diskVars
  <1>3. /\ Offset(l) + written[l] + 1 \in 1..P
        /\ Offset(l) + written[l] + 1 \in 0..P
        /\ written[l] + 1 \in 1..P
    BY PositionFacts, SkippedFacts DEF TargetWrite, MorePieces
  <1>s. out \in [Levels -> [1..P -> 0..P]]
    BY <1>1 DEF LevelTypeOK
  <1>4. out' \in [Levels -> [1..P -> 0..P]]
    <2> DEFINE piece == Offset(l) + written[l] + 1
    <2>1. CASE out' = [out EXCEPT ![l][File(l, piece)] = piece]
      <3>1. File(l, piece) \in 1..P
        BY <1>3 DEF File
      <3> HIDE DEF piece
      <3>2. piece \in 0..P
        BY <1>3 DEF piece
      <3> QED BY ONLY <1>s, <2>1, <3>1, <3>2, SlotType, l \in Levels
    <2>2. CASE out' = out
      BY <1>1, <2>2 DEF LevelTypeOK
    <2> QED BY <2>1, <2>2 DEF TargetWrite
  <1>5. LevelTypeOK'
    BY <1>1, <1>4 DEF TargetWrite, LevelTypeOK
  <1>6. (Offset(l) + Accepted(l) <= P)'
    <2>1. /\ start' = start /\ written' = written /\ at'[l] = "accepted"
      BY <1>1 DEF TargetWrite, LevelTypeOK
    <2>2. Offset(l) + (written[l] + 1) <= P
      BY <1>3, PositionFacts, SkippedFacts
    <2> QED BY <2>1, <2>2 DEF Offset, Accepted
  <1>7. InBounds'
    BY <1>1, <1>5, <1>6, BoundsOfOthers DEF TargetWrite, LevelTypeOK
  <1> QED BY <1>2, <1>5, <1>7, TypePartsNext

LEMMA RecordCursorBase ==
    ASSUME BaseInv, NEW l \in Levels, RecordCursor(l)
    PROVE  BaseInv'
  <1>1. PersistTypeOK /\ LevelTypeOK /\ RestTypeOK
    BY TypeParts
  <1>2. LevelTypeOK'
    <2>1. start[l] + written[l] + 1 \in Nat /\ written[l] + 1 \in Nat
      BY <1>1 DEF LevelTypeOK
    <2> QED BY <1>1, <2>1 DEF RecordCursor, NextCursor, PersistDue, LevelTypeOK
  <1>3. PersistTypeOK' /\ dirty' \in BOOLEAN /\ writes' \in 0..(PersistEvery - 1)
    <2>1. CASE writes + 1 >= PersistEvery
      <3>1. SchedulePersist(openTargets, cursor') /\ writes' = 0
        BY <2>1 DEF RecordCursor, NextCursor, PersistDue
      <3>2. cursor' \in [Levels -> Nat] /\ openTargets \in Seq(Levels)
            /\ dirty \in BOOLEAN
        BY <1>1, <1>2 DEF LevelTypeOK, RestTypeOK
      <3>3. PersistTypeOK' /\ dirty' \in BOOLEAN
        BY <1>1, <3>1, <3>2, SchedulePersistType
      <3> QED BY <3>1, <3>3, CursorConstants DEF CursorConstants
    <2>2. CASE ~(writes + 1 >= PersistEvery)
      BY <1>1, <2>2, CursorConstants DEF CursorConstants, RecordCursor, NextCursor, PersistDue,
         persistVars, PersistTypeOK, AwaitsLevel, RestTypeOK
    <2> QED BY <2>1, <2>2
  <1>4. RestTypeOK'
    BY <1>1, <1>3 DEF RecordCursor, NextCursor, PersistDue, RestTypeOK, diskVars
  <1>5. (Offset(l) + Accepted(l) <= P)'
    <2>1. Offset(l) + written[l] + 1 <= P
      BY PositionFacts DEF RecordCursor, NextCursor, PersistDue
    <2>2. /\ start' = start /\ at'[l] = "writing"
          /\ written'[l] = written[l] + 1
      BY <1>1 DEF RecordCursor, NextCursor, PersistDue, LevelTypeOK
    <2>3. written[l] \in Nat /\ Offset(l) \in Nat
      BY PositionFacts, SkippedFacts
    <2> QED BY <2>1, <2>2, <2>3 DEF Offset, Accepted
  <1>6. InBounds'
    BY <1>1, <1>2, <1>5, BoundsOfOthers DEF RecordCursor, NextCursor, PersistDue, LevelTypeOK
  <1> QED BY <1>2, <1>3, <1>4, <1>6, TypePartsNext

\* Only the place of the level in its loop moves, and perhaps its failure.
LEMMA PlaceBase ==
    ASSUME BaseInv, NEW l \in Levels,
           \/ EndOfStream(l) \/ StreamThrows(l)
           \/ CloseTargetFails(l) \/ StepDoneFails(l)
    PROVE  BaseInv'
  <1>1. PersistTypeOK /\ LevelTypeOK /\ RestTypeOK
    BY TypeParts
  <1>2. PersistTypeOK' /\ RestTypeOK'
    BY <1>1 DEF EndOfStream, StreamThrows, CloseTargetFails, StepDoneFails, 
       PersistTypeOK, AwaitsLevel,
       RestTypeOK, persistVars, diskVars
  <1>3. /\ at' = [at EXCEPT ![l] = "closing"] \/ at' = [at EXCEPT ![l] = "settled"]
        /\ threw' \in [Levels -> BOOLEAN]
        /\ UNCHANGED <<cursor, start, base, written, committed, out, openTargets>>
    BY <1>1 DEF EndOfStream, StreamThrows, CloseTargetFails, StepDoneFails, LevelTypeOK
  <1>4. LevelTypeOK'
    BY <1>1, <1>3 DEF LevelTypeOK
  <1>5. (Offset(l) + Accepted(l) <= P)'
    <2>1. start' = start /\ written' = written /\ at'[l] # "accepted"
      BY <1>1, <1>3 DEF LevelTypeOK
    <2>2. Offset(l) + written[l] <= P
      BY PositionFacts DEF EndOfStream, StreamThrows, CloseTargetFails, StepDoneFails
    <2> QED BY <2>1, <2>2, PositionFacts, SkippedFacts DEF Offset, Accepted
  <1>6. InBounds'
    BY <1>1, <1>3, <1>4, <1>5, BoundsOfOthers DEF LevelTypeOK
  <1> QED BY <1>2, <1>4, <1>6, TypePartsNext

LEMMA CloseTargetBase ==
    ASSUME BaseInv, NEW l \in Levels, CloseTarget(l)
    PROVE  BaseInv'
  <1>1. PersistTypeOK /\ LevelTypeOK /\ RestTypeOK
    BY TypeParts
  <1>2. PersistTypeOK' /\ RestTypeOK'
    BY <1>1 DEF CloseTarget, PersistTypeOK, AwaitsLevel, RestTypeOK, persistVars, diskVars
  <1>3. Offset(l) \in Nat /\ written[l] \in Nat /\ Offset(l) + written[l] <= P
    BY PositionFacts, SkippedFacts DEF CloseTarget
  <1>4. out' \in [Levels -> [1..P -> 0..P]] /\ committed' \in [Levels -> Nat]
    <2>1. CASE UNCHANGED <<committed, out>>
      BY <1>1, <2>1 DEF LevelTypeOK
    <2>2. CASE /\ out' = [out EXCEPT ![l] =
                            [k \in 1..P |-> IF k <= written[l] THEN Offset(l) + k
                                                               ELSE 0]]
               /\ UNCHANGED committed
      <3>1. [k \in 1..P |-> IF k <= written[l] THEN Offset(l) + k ELSE 0]
              \in [1..P -> 0..P]
        BY <1>3, SkippedFacts
      <3> QED BY <1>1, <2>2, <3>1 DEF LevelTypeOK
    <2>3. CASE CommitUpTo(l, written[l])
      BY <1>1, <1>3, <2>3, CommitUpToType
    <2> QED BY <2>1, <2>2, <2>3 DEF CloseTarget
  <1>5. LevelTypeOK'
    BY <1>1, <1>4 DEF CloseTarget, LevelTypeOK
  <1>6. (Offset(l) + Accepted(l) <= P)'
    <2>1. start' = start /\ written' = written /\ at'[l] = "closed"
      BY <1>1 DEF CloseTarget, LevelTypeOK
    <2> QED BY <1>3, <2>1 DEF Offset, Accepted
  <1>7. InBounds'
    BY <1>1, <1>5, <1>6, BoundsOfOthers DEF CloseTarget, LevelTypeOK
  <1> QED BY <1>2, <1>5, <1>7, TypePartsNext

LEMMA UntrackBase ==
    ASSUME BaseInv, NEW l \in Levels, Untrack(l)
    PROVE  BaseInv'
  <1>1. PersistTypeOK /\ LevelTypeOK /\ RestTypeOK
    BY TypeParts
  <1>2. PersistTypeOK' /\ RestTypeOK'
    BY <1>1 DEF Untrack, PersistTypeOK, AwaitsLevel, RestTypeOK, persistVars, diskVars
  <1>3. openTargets' \in Seq(Levels)
    <2>1. PICK i \in 1..Len(openTargets) :
            openTargets' = SubSeq(openTargets, 1, i - 1)
                             \o SubSeq(openTargets, i + 1, Len(openTargets))
      BY DEF Untrack
    <2>2. openTargets \in Seq(Levels) /\ Len(openTargets) \in Nat
      BY <1>1 DEF LevelTypeOK
    <2>3. SubSeq(openTargets, 1, i - 1) \in Seq(Levels)
      BY <2>2, SubSeqProperties
    <2>4. SubSeq(openTargets, i + 1, Len(openTargets)) \in Seq(Levels)
      BY <2>2, SubSeqProperties
    <2> QED BY <2>1, <2>3, <2>4, ConcatProperties
  <1>4. LevelTypeOK'
    BY <1>1, <1>3 DEF Untrack, LevelTypeOK
  <1>5. (Offset(l) + Accepted(l) <= P)'
    <2>1. start' = start /\ written' = written /\ at'[l] # "accepted"
      BY <1>1 DEF Untrack, LevelTypeOK
    <2> QED BY <2>1, PositionFacts, SkippedFacts DEF Untrack, Offset, Accepted
  <1>6. InBounds'
    BY <1>1, <1>4, <1>5, BoundsOfOthers DEF Untrack, LevelTypeOK
  <1> QED BY <1>2, <1>4, <1>6, TypePartsNext

LEMMA StepDoneBase ==
    ASSUME BaseInv, NEW l \in Levels, StepDone(l)
    PROVE  BaseInv'
  <1>1. PersistTypeOK /\ LevelTypeOK /\ RestTypeOK
    BY TypeParts
  <1>2. PersistTypeOK' /\ dirty' \in BOOLEAN
    BY <1>1, SchedulePersistType DEF StepDone, LevelTypeOK, RestTypeOK
  <1>3. RestTypeOK'
    BY <1>1, <1>2 DEF StepDone, RestTypeOK, diskVars
  <1>4. LevelTypeOK'
    BY <1>1 DEF StepDone, LevelTypeOK
  <1>5. (Offset(l) + Accepted(l) <= P)'
    <2>1. start' = start /\ written' = written /\ at'[l] # "accepted"
      BY <1>1 DEF StepDone, LevelTypeOK
    <2> QED BY <2>1, PositionFacts, SkippedFacts DEF StepDone, Offset, Accepted
  <1>6. InBounds'
    BY <1>1, <1>4, <1>5, BoundsOfOthers DEF StepDone, LevelTypeOK
  <1> QED BY <1>2, <1>3, <1>4, <1>6, TypePartsNext

\* Actions of the persists and the run keep every level's position.
LEMMA BoundsKept ==
    ASSUME BaseInv, UNCHANGED <<start, written, at>>
    PROVE  InBounds'
  BY DEF BaseInv, InBounds, Offset, Accepted

LEMMA NextEntryType ==
    ASSUME PersistTypeOK, LevelTypeOK, NEW p \in Persisters,
           cursor' \in [Levels -> Nat], NextEntry(p)
    PROVE  PersistTypeOK'
  <1> DEFINE i == persistIdx[p] + 1
  <1>1. i \in Nat /\ i >= 1
    BY DEF PersistTypeOK
  <1>2. CASE i <= Len(openTargets)
    <2>1. openTargets[i] \in Levels
      BY <1>1, <1>2 DEF LevelTypeOK
    <2>2. /\ persistIdx' = [persistIdx EXCEPT ![p] = i]
          /\ persistLevel' = [persistLevel EXCEPT ![p] = openTargets[i]]
          /\ UNCHANGED <<persistAt, snap, snapDone>>
      BY <1>2 DEF NextEntry
    <2> HIDE DEF i
    <2>3. persistLevel' \in [Persisters -> Levels \cup {NoLevel}]
      BY <2>1, <2>2 DEF PersistTypeOK
    <2>4. AwaitsLevel'
      BY <2>1, <2>2 DEF PersistTypeOK, AwaitsLevel
    <2> QED BY <1>1, <2>2, <2>3, <2>4 DEF PersistTypeOK
  <1>3. CASE ~(i <= Len(openTargets))
    <2>1. /\ persistAt' = [persistAt EXCEPT ![p] = "landing"]
          /\ persistIdx' = [persistIdx EXCEPT ![p] = 0]
          /\ persistLevel' = [persistLevel EXCEPT ![p] = NoLevel]
          /\ Serialize(p, cursor')
      BY <1>3 DEF NextEntry
    <2>2. /\ snap' \in [Persisters -> [Levels -> Nat]]
          /\ snapDone' \in [Persisters -> BOOLEAN]
      BY <2>1, SerializeType
    <2> HIDE DEF i
    <2> QED BY <2>1, <2>2 DEF PersistTypeOK, AwaitsLevel
  <1> QED BY <1>2, <1>3

LEMMA ClampBase ==
    ASSUME BaseInv, NEW p \in Persisters, persistLevel[p] \in Levels, Clamp(p)
    PROVE  BaseInv'
  <1> DEFINE l == persistLevel[p]
  <1>1. PersistTypeOK /\ LevelTypeOK /\ RestTypeOK
    BY TypeParts
  <1>2. cursor' \in [Levels -> Nat]
    <2>1. \A r \in Nat : ClampCursor(l, r) => cursor' \in [Levels -> Nat]
      BY <1>1 DEF ClampCursor, LevelTypeOK
    <2>2. \A c \in committed[l]..Accepted(l) : c \in Nat
      BY <1>1, PositionFacts DEF LevelTypeOK
    <2> QED BY <2>1, <2>2 DEF Clamp
  <1>3. out' \in [Levels -> [1..P -> 0..P]] /\ committed' \in [Levels -> Nat]
    <2>1. CASE Kind[l] = "commit"
      <3>1. PICK c \in committed[l]..Accepted(l) : CommitUpTo(l, c)
        BY <2>1 DEF Clamp
      <3>2. c \in Nat
        BY <1>1, PositionFacts DEF LevelTypeOK
      <3> QED BY <1>1, <3>1, <3>2, CommitUpToType
    <2>2. CASE Kind[l] # "commit"
      BY <1>1, <2>2 DEF Clamp, LevelTypeOK
    <2> QED BY <2>1, <2>2
  <1>4. LevelTypeOK'
    BY <1>1, <1>2, <1>3 DEF Clamp, LevelTypeOK
  <1>5. PersistTypeOK'
    BY <1>1, <1>2, NextEntryType DEF Clamp
  <1>6. RestTypeOK'
    BY <1>1 DEF Clamp, RestTypeOK, diskVars
  <1>7. InBounds'
    BY BoundsKept DEF Clamp
  <1> QED BY <1>4, <1>5, <1>6, <1>7, TypePartsNext

\* What LandBase, LandFailsBase, EndRunBase, ... have in common.
LEMMA RunBase ==
    ASSUME BaseInv, UNCHANGED <<levelVars, openTargets>>, PersistTypeOK', RestTypeOK'
    PROVE  BaseInv'
  <1>1. LevelTypeOK
    BY TypeParts
  <1>2. LevelTypeOK'
    BY <1>1 DEF LevelTypeOK, levelVars
  <1>3. InBounds'
    BY BoundsKept DEF levelVars
  <1> QED BY <1>2, <1>3, TypePartsNext

LEMMA LandBase ==
    ASSUME BaseInv, NEW p \in Persisters, Land(p) \/ LandFails(p)
    PROVE  BaseInv'
  <1>1. PersistTypeOK /\ LevelTypeOK /\ RestTypeOK
    BY TypeParts
  <1>2. /\ disk' \in [Levels -> Nat] /\ diskDone' \in BOOLEAN
        /\ UNCHANGED <<levelVars, openTargets, writes, sessions>>
    <2>1. snap[p] \in [Levels -> Nat] /\ snapDone[p] \in BOOLEAN
      BY <1>1 DEF PersistTypeOK
    <2> QED BY <1>1, <2>1 DEF Land, LandFails, diskVars, RestTypeOK
  <1>3. /\ PersistTypeOK' /\ dirty' \in BOOLEAN
        /\ phase' \in {"running", "ending", "flushing", "done", "failed", "down"}
    <2>1. CASE PersistIdles(p) /\ UNCHANGED dirty
      <3>1. PersistTypeOK'
        BY <1>1, <2>1, PersistIdlesType
      <3> QED BY <1>1, <2>1, <3>1 DEF Land, PersistReturns, LandFails, RestTypeOK
    <2>2. CASE PersistBegins(p, openTargets, cursor) /\ dirty' = FALSE /\ UNCHANGED phase
      <3>1. PersistTypeOK'
        BY <1>1, <2>2, PersistBeginsType DEF LevelTypeOK
      <3> QED BY <1>1, <2>2, <3>1 DEF RestTypeOK
    <2> QED BY <2>1, <2>2 DEF Land, PersistReturns, LandFails
  <1>4. RestTypeOK'
    BY <1>1, <1>2, <1>3 DEF RestTypeOK
  <1> QED BY <1>2, <1>3, <1>4, RunBase

LEMMA RunStepBase ==
    ASSUME BaseInv, CompleteNested \/ Control \/ EndRun \/ Flush
    PROVE  BaseInv'
  <1>1. PersistTypeOK /\ LevelTypeOK /\ RestTypeOK
    BY TypeParts
  <1>2. /\ \/ \E p \in Persisters : PersistBegins(p, openTargets, cursor)
           \/ UNCHANGED persistVars
        /\ dirty' \in BOOLEAN
        /\ phase' \in {"running", "ending", "flushing", "done", "failed", "down"}
        /\ UNCHANGED <<levelVars, openTargets, writes, diskVars, sessions>>
    BY <1>1 DEF CompleteNested, SchedulePersist, Control, EndRun, Flush, Persisters,
       RestTypeOK
  <1>3. PersistTypeOK'
    <2>1. CASE \E p \in Persisters : PersistBegins(p, openTargets, cursor)
      BY <1>1, <2>1, PersistBeginsType DEF LevelTypeOK
    <2>2. CASE UNCHANGED persistVars
      BY <1>1, <2>2 DEF PersistTypeOK, AwaitsLevel, persistVars
    <2> QED BY <1>2, <2>1, <2>2
  <1>4. RestTypeOK'
    BY <1>1, <1>2 DEF RestTypeOK, diskVars
  <1> QED BY <1>2, <1>3, <1>4, RunBase

LEMMA CrashBase ==
    ASSUME BaseInv, Crash
    PROVE  BaseInv'
  <1>1. PersistTypeOK /\ LevelTypeOK /\ RestTypeOK
    BY TypeParts
  <1>2. PersistTypeOK' /\ RestTypeOK'
    BY <1>1 DEF Crash, PersistTypeOK, AwaitsLevel, RestTypeOK, persistVars, diskVars
  <1> QED BY <1>2, RunBase DEF Crash

\* A process begins with an empty memory.
LEMMA FreshMemory ==
    /\ NoCursor \in [Levels -> Nat]
    /\ [l \in Levels |-> "idle"]
         \in [Levels -> {"idle", "writing", "accepted", "closing", "closed",
                        "untracked", "settled"}]
    /\ [l \in Levels |-> FALSE] \in [Levels -> BOOLEAN]
    /\ [p \in Persisters |-> "idle"]
         \in [Persisters -> {"idle", "clamping", "landing"}]
    /\ [p \in Persisters |-> 0] \in [Persisters -> Nat]
    /\ [p \in Persisters |-> NoLevel] \in [Persisters -> Levels \cup {NoLevel}]
    /\ [p \in Persisters |-> NoCursor] \in [Persisters -> [Levels -> Nat]]
    /\ [p \in Persisters |-> FALSE] \in [Persisters -> BOOLEAN]
    /\ <<>> \in Seq(Levels)
  <1>1. NoCursor \in [Levels -> Nat]
    BY DEF NoCursor
  <1> HIDE DEF NoCursor
  <1> QED BY <1>1

LEMMA ResumeBase ==
    ASSUME BaseInv, Resume
    PROVE  BaseInv'
  <1>1. PersistTypeOK /\ LevelTypeOK /\ RestTypeOK
    BY TypeParts
  <1>2. PersistTypeOK'
    BY FreshMemory DEF Resume, PersistTypeOK, AwaitsLevel
  <1>3. LevelTypeOK'
    BY <1>1, FreshMemory DEF Resume, LevelTypeOK, RestTypeOK
  <1>4. RestTypeOK'
    <2>1. writes' \in 0..(PersistEvery - 1) /\ sessions' \in 0..MaxSessions
      <3>1. PersistEvery \in Nat \ {0} /\ MaxSessions \in Nat
        BY CursorConstants DEF CursorConstants
      <3> QED BY <1>1, <3>1 DEF Resume, RestTypeOK
    <2> QED BY <1>1, <2>1 DEF Resume, RestTypeOK, diskVars
  <1>5. InBounds'
    BY SkippedFacts DEF Resume, NoCursor, InBounds, Offset, Accepted
  <1> QED BY <1>2, <1>3, <1>4, <1>5, TypePartsNext

LEMMA InitBase == Init => BaseInv
  <1> SUFFICES ASSUME Init PROVE BaseInv
    OBVIOUS
  <1>1. PersistTypeOK
    BY FreshMemory DEF Init, PersistTypeOK, AwaitsLevel
  <1>2. LevelTypeOK
    BY FreshMemory, SkippedFacts DEF Init, LevelTypeOK
  <1>3. RestTypeOK
    <2>1. PersistEvery \in Nat \ {0} /\ MaxSessions \in Nat \ {0}
      BY CursorConstants DEF CursorConstants
    <2>2. writes \in 0..(PersistEvery - 1) /\ sessions \in 0..MaxSessions
      BY <2>1 DEF Init
    <2> QED BY <2>2, FreshMemory DEF Init, RestTypeOK
  <1>4. InBounds
    BY SkippedFacts DEF Init, NoCursor, InBounds, Offset, Accepted
  <1> QED BY <1>1, <1>2, <1>3, <1>4, TypeParts

LEMMA NextBase == BaseInv /\ [Next]_vars => BaseInv'
  <1> SUFFICES ASSUME BaseInv, [Next]_vars PROVE BaseInv'
    OBVIOUS
  <1>1. ASSUME NEW l \in Levels, LevelStep(l) \/ LevelFails(l) PROVE BaseInv'
    BY <1>1, TrackBase, TargetWriteBase, RecordCursorBase, PlaceBase,
       CloseTargetBase, UntrackBase, StepDoneBase DEF LevelStep, LevelFails
  <1>2. ASSUME NEW p \in Persisters, PersistStep(p) \/ LandFails(p) PROVE BaseInv'
    <2>1. CASE Clamp(p)
      <3>1. persistLevel[p] \in Levels
        BY <2>1 DEF BaseInv, AwaitsLevel, Clamp
      <3> QED BY <2>1, <3>1, ClampBase
    <2>2. CASE Land(p) \/ LandFails(p)
      BY <2>2, LandBase
    <2> QED BY <1>2, <2>1, <2>2 DEF PersistStep
  <1>3. CASE UNCHANGED vars
    <2>1. PersistTypeOK /\ LevelTypeOK /\ RestTypeOK
      BY TypeParts
    <2>2. PersistTypeOK' /\ RestTypeOK'
      BY <1>3, <2>1 DEF vars, persistVars, diskVars, PersistTypeOK, AwaitsLevel,
         RestTypeOK
    <2> QED BY <1>3, <2>2, RunBase DEF vars
  <1> QED BY <1>1, <1>2, <1>3, RunStepBase, CrashBase, ResumeBase DEF Next

(* Every variable keeps its type, and no session hands its target more     *)
(* than the source's full stream, for all targets, sources and failures.   *)
THEOREM TypeCorrect == Spec => []TypeOK
  <1>1. BaseInv => TypeOK
    BY DEF BaseInv
  <1> QED BY <1>1, InitBase, NextBase, PTL DEF Spec

-----------------------------------------------------------------------------
(* Safety: what a persisted cursor lets a resume skip is durable. *)

\* A step that leaves every envelope where it is durable.
Keeps == \A l \in Levels, x \in 1..P : out[l][x] = x => out'[l][x] = x

\* A step that closes no session.
StaysOpen == \A l \in Levels : at[l] # "idle" => at'[l] # "idle"

LEMMA SafeKept ==
    ASSUME Keeps, NEW l \in Levels, NEW k \in Nat
    PROVE  /\ Saved(l, k) => Saved(l, k)'
           /\ CursorSafe(l, k) => CursorSafe(l, k)'
  BY DEF Keeps, Saved, CursorSafe, ResumePoint

\* What is safe for a cursor is safe for every smaller one.
LEMMA SafeBelow ==
    ASSUME NEW l \in Levels, NEW c \in Nat, NEW d \in Nat, c <= d,
           CursorSafe(l, d)
    PROVE  CursorSafe(l, c)
  <1>1. Skipped(c) <= Skipped(d) /\ Skipped(c) \in Nat /\ Skipped(d) \in Nat
    BY SkippedFacts
  <1> QED BY <1>1 DEF CursorSafe, ResumePoint, Saved

\* A cursor w envelopes past a session's start needs w durable envelopes.
LEMMA SafeWithin ==
    ASSUME Narrow, BaseInv, NEW l \in Levels, NEW c \in Nat, NEW w \in Nat,
           l \in Resumable => c <= start[l] + w,
           Saved(l, Offset(l) + w)
    PROVE  CursorSafe(l, c)
  <1>1. start[l] \in Nat /\ Offset(l) \in Nat
    <2>1. start[l] \in Nat
      BY DEF BaseInv, TypeOK
    <2> QED BY <2>1, PositionFacts, SkippedFacts
  <1>2. CASE l \in Resumable
    <2>1. Skipped(c) <= Skipped(start[l] + w)
      BY <1>1, <1>2, SkippedFacts
    <2>2. Skipped(start[l] + w) <= Skipped(start[l]) + w
      BY <1>1, SkippedNarrow
    <2>3. /\ Skipped(c) \in Nat /\ Skipped(start[l] + w) \in Nat
          /\ Skipped(start[l]) \in Nat
      BY <1>1, SkippedFacts
    <2>4. Skipped(c) <= Offset(l) + w
      BY <2>1, <2>2, <2>3 DEF Offset
    <2> QED BY <1>1, <1>2, <2>3, <2>4 DEF CursorSafe, ResumePoint, Saved
  <1>3. CASE l \notin Resumable
    BY <1>3 DEF CursorSafe, ResumePoint, Saved
  <1> QED BY <1>2, <1>3

\* A level whose own variables a step leaves alone.
LEMMA LevelKept ==
    ASSUME BaseInv, Keeps, NEW m \in Levels, LevelInv(m),
           /\ at'[m] = at[m] /\ threw'[m] = threw[m] /\ cursor'[m] = cursor[m]
           /\ start'[m] = start[m] /\ base'[m] = base[m]
           /\ written'[m] = written[m] /\ committed'[m] = committed[m],
           Kind[m] = "commit" => openTargets' = openTargets
    PROVE  LevelInv(m)'
  <1>1. /\ cursor[m] \in Nat /\ base[m] \in Nat /\ committed[m] \in Nat
        /\ Offset(m) \in Nat /\ Accepted(m) \in Nat
    <2>1. cursor[m] \in Nat /\ base[m] \in Nat /\ committed[m] \in Nat
      BY DEF BaseInv, TypeOK
    <2> QED BY <2>1, PositionFacts, SkippedFacts
  <1>2. Offset(m)' = Offset(m) /\ Accepted(m)' = Accepted(m)
    BY DEF Offset, Accepted
  <1>3. SessionInv(m)'
    <2>1. Saved(m, Offset(m)) => Saved(m, Offset(m))'
      BY <1>1, <1>2 DEF Keeps, Saved
    <2> QED BY <2>1 DEF LevelInv, SessionInv
  <1>4. KeyedInv(m)'
    <2>1. CursorSafe(m, cursor[m]) => CursorSafe(m, cursor[m])'
      BY DEF Keeps, CursorSafe, ResumePoint, Saved
    <2>2. CursorSafe(m, base[m]) => CursorSafe(m, base[m])'
      BY DEF Keeps, CursorSafe, ResumePoint, Saved
    <2>3. Saved(m, Offset(m) + Accepted(m)) => Saved(m, Offset(m) + Accepted(m))'
      BY <1>1, <1>2 DEF Keeps, Saved
    <2> QED BY <2>1, <2>2, <2>3 DEF LevelInv, KeyedInv
  <1>5. CommitInv(m)'
    <2>1. CursorSafe(m, cursor[m]) => CursorSafe(m, cursor[m])'
      BY DEF Keeps, CursorSafe, ResumePoint, Saved
    <2>2. Saved(m, Offset(m) + committed[m]) => Saved(m, Offset(m) + committed[m])'
      BY <1>1, <1>2 DEF Keeps, Saved
    <2> QED BY <1>2, <2>1, <2>2 DEF LevelInv, CommitInv
  <1>6. StreamInv(m)'
    BY <1>2 DEF LevelInv, StreamInv
  <1> QED BY <1>3, <1>4, <1>5, <1>6 DEF LevelInv

\* With no target open, every cursor of the live tree is safe.
LEMMA UntrackedIsSafe ==
    ASSUME SafeTargets, SafeInv, openTargets = <<>>
    PROVE  \A l \in Levels : CursorSafe(l, cursor[l])
  BY DEF SafeTargets, SafeInv, LevelInv, KeyedInv, CommitInv

LEMMA PersistKept ==
    ASSUME BaseInv, SafeInv, Keeps, StaysOpen, UNCHANGED persistVars
    PROVE  \A p \in Persisters : PersistInv(p)'
  <1> SUFFICES ASSUME NEW p \in Persisters PROVE PersistInv(p)'
    OBVIOUS
  <1>1. PersistInv(p)
    BY DEF SafeInv
  <1>2. persistAt[p] = "clamping" => at'[persistLevel[p]] # "idle"
    BY <1>1 DEF PersistInv, StaysOpen, BaseInv, AwaitsLevel
  <1>3. \A l \in Levels : CursorSafe(l, snap[p][l]) => CursorSafe(l, snap[p][l])'
    BY DEF persistVars, Keeps, CursorSafe, ResumePoint, Saved
  <1> QED BY <1>1, <1>2, <1>3 DEF PersistInv, persistVars

LEMMA PersistBeginsSafe ==
    ASSUME BaseInv, SafeInv, Keeps, StaysOpen, NEW p \in Persisters,
           NEW cs \in [Levels -> Nat], PersistBegins(p, openTargets, cs),
           openTargets = <<>> => \A l \in Levels : CursorSafe(l, cs[l])
    PROVE  \A q \in Persisters : PersistInv(q)'
  <1> SUFFICES ASSUME NEW q \in Persisters PROVE PersistInv(q)'
    OBVIOUS
  <1>t. PersistTypeOK /\ LevelTypeOK
    BY TypeParts
  <1>1. PersistInv(q)
    BY DEF SafeInv
  <1>2. CASE openTargets = <<>>
    <2>1. /\ persistAt' = [persistAt EXCEPT ![p] = "landing"]
          /\ snap' = [snap EXCEPT ![p] = cs]
          /\ UNCHANGED persistLevel
      BY <1>2 DEF PersistBegins, Serialize
    <2>2. CASE q = p
      <3>1. persistAt'[q] = "landing" /\ snap'[q] = cs
        BY <1>t, <2>1, <2>2 DEF PersistTypeOK
      <3>2. \A l \in Levels : CursorSafe(l, cs[l])'
        BY <1>2 DEF Keeps, CursorSafe, ResumePoint, Saved
      <3> QED BY <3>1, <3>2 DEF PersistInv, CursorSafe, ResumePoint, Saved
    <2>3. CASE q # p
      <3>1. /\ persistAt'[q] = persistAt[q] /\ snap'[q] = snap[q]
            /\ persistLevel'[q] = persistLevel[q]
        BY <1>t, <2>1, <2>3 DEF PersistTypeOK
      <3>2. persistAt[q] = "clamping" => at'[persistLevel[q]] # "idle"
        BY <1>1 DEF PersistInv, StaysOpen, BaseInv, AwaitsLevel
      <3>3. \A l \in Levels : CursorSafe(l, snap[q][l]) => CursorSafe(l, snap[q][l])'
        BY <3>1 DEF Keeps, CursorSafe, ResumePoint, Saved
      <3> QED BY <1>1, <3>1, <3>2, <3>3 DEF PersistInv
    <2> QED BY <2>2, <2>3
  <1>3. CASE openTargets # <<>>
    <2>1. /\ persistAt' = [persistAt EXCEPT ![p] = "clamping"]
          /\ persistLevel' = [persistLevel EXCEPT ![p] = openTargets[1]]
          /\ UNCHANGED <<snap, snapDone>>
      BY <1>3 DEF PersistBegins
    <2>2. CASE q = p
      <3>1. persistAt'[q] = "clamping" /\ persistLevel'[q] = openTargets[1]
        BY <1>t, <2>1, <2>2 DEF PersistTypeOK
      <3>2. openTargets[1] \in Levels /\ 1 \in 1..Len(openTargets)
        BY <1>t, <1>3 DEF LevelTypeOK
      <3>3. at'[openTargets[1]] # "idle"
        BY <3>2 DEF SafeInv, TrackedInv, StaysOpen
      <3> QED BY <3>1, <3>3 DEF PersistInv
    <2>3. CASE q # p
      <3>1. /\ persistAt'[q] = persistAt[q] /\ snap'[q] = snap[q]
            /\ persistLevel'[q] = persistLevel[q]
        BY <1>t, <2>1, <2>3 DEF PersistTypeOK
      <3>2. persistAt[q] = "clamping" => at'[persistLevel[q]] # "idle"
        BY <1>1 DEF PersistInv, StaysOpen, BaseInv, AwaitsLevel
      <3>3. \A l \in Levels : CursorSafe(l, snap[q][l]) => CursorSafe(l, snap[q][l])'
        BY <3>1 DEF Keeps, CursorSafe, ResumePoint, Saved
      <3> QED BY <1>1, <3>1, <3>2, <3>3 DEF PersistInv
    <2> QED BY <2>2, <2>3
  <1> QED BY <1>2, <1>3

LEMMA SchedulePersistSafe ==
    ASSUME BaseInv, SafeInv, Keeps, StaysOpen,
           NEW cs \in [Levels -> Nat], SchedulePersist(openTargets, cs),
           openTargets = <<>> => \A l \in Levels : CursorSafe(l, cs[l])
    PROVE  /\ \A q \in Persisters : PersistInv(q)'
           /\ persistAt'["main"] = persistAt["main"]
  <1>1. CASE persistAt["drain"] = "idle"
    <2>1. PersistBegins("drain", openTargets, cs)
      BY <1>1 DEF SchedulePersist
    <2>2. persistAt'["main"] = persistAt["main"]
      BY <2>1 DEF PersistBegins, BaseInv, TypeOK, Persisters
    <2> QED BY <2>1, <2>2, PersistBeginsSafe DEF Persisters
  <1>2. CASE persistAt["drain"] # "idle"
    BY <1>2, PersistKept DEF SchedulePersist, persistVars
  <1> QED BY <1>1, <1>2

LEMMA TrackedKept ==
    ASSUME BaseInv, SafeInv, StaysOpen, openTargets' = openTargets
    PROVE  TrackedInv'
  <1> SUFFICES ASSUME NEW i \in 1..Len(openTargets) PROVE at'[openTargets[i]] # "idle"
    BY DEF TrackedInv
  <1>1. openTargets[i] \in Levels
    BY DEF BaseInv, TypeOK
  <1> QED BY <1>1 DEF SafeInv, TrackedInv, StaysOpen

LEMMA DiskKept ==
    ASSUME BaseInv, SafeInv, Keeps, UNCHANGED disk
    PROVE  DiskInv'
  BY DEF SafeInv, DiskInv, Keeps, CursorSafe, ResumePoint, Saved

\* A step of one level, given what it makes of that level.
LEMMA LevelStepFrame ==
    ASSUME SafeTargets, BaseInv, SafeInv, NEW l \in Levels, Alive,
           at[l] # "settled", Keeps,
           \A m \in Levels \ {l} :
              /\ at'[m] = at[m] /\ threw'[m] = threw[m] /\ cursor'[m] = cursor[m]
              /\ start'[m] = start[m] /\ base'[m] = base[m]
              /\ written'[m] = written[m] /\ committed'[m] = committed[m],
           LevelInv(l)', TrackedInv', \A p \in Persisters : PersistInv(p)',
           persistAt'["main"] = persistAt["main"], UNCHANGED <<phase, disk>>
    PROVE  SafeInv'
  <1>1. \A m \in Levels : LevelInv(m)'
    <2> SUFFICES ASSUME NEW m \in Levels PROVE LevelInv(m)'
      OBVIOUS
    <2>1. CASE m = l
      BY <2>1
    <2>2. CASE m # l
      <3>1. Kind[m] # "commit"
        BY <2>2 DEF SafeTargets
      <3>2. LevelInv(m)
        BY DEF SafeInv
      <3> QED BY <2>2, <3>1, <3>2, LevelKept
    <2> QED BY <2>1, <2>2
  <1>2. DiskInv'
    BY DiskKept
  <1>3. PhaseInv'
    <2>1. phase = "running"
      BY DEF SafeInv, PhaseInv, Alive, BaseInv, TypeOK
    <2>2. persistAt["main"] = "idle"
      BY <2>1 DEF SafeInv, PhaseInv
    <2> QED BY <2>1, <2>2 DEF PhaseInv
  <1> QED BY <1>1, <1>2, <1>3 DEF SafeInv

LEMMA TrackSafe ==
    ASSUME SafeTargets, BaseInv, BaseInv', SafeInv, NEW l \in Levels, Alive,
           OpenTarget(l) \/ OpenTargetFails(l)
    PROVE  SafeInv'
  <1>t. LevelTypeOK
    BY TypeParts
  <1>1. /\ at[l] = "idle" /\ Track(l)
        /\ at' = [at EXCEPT ![l] = "writing"] \/ at' = [at EXCEPT ![l] = "settled"]
        /\ threw' = threw \/ threw' = [threw EXCEPT ![l] = TRUE]
    BY DEF OpenTarget, OpenTargetFails, Track
  <1>2. /\ start'[l] = IF l \in Resumable THEN cursor[l] ELSE 0
        /\ base'[l] = cursor[l] /\ written'[l] = 0 /\ committed'[l] = 0
        /\ openTargets' = Append(openTargets, l)
        /\ UNCHANGED <<phase, cursor, out, persistVars, diskVars>>
    BY <1>1, <1>t DEF Track, SourceStart, LevelTypeOK
  <1>3. at'[l] \in {"writing", "settled"} /\ (at'[l] = "settled" => threw'[l])
    BY <1>t DEF OpenTarget, OpenTargetFails, LevelTypeOK
  <1>4. CursorSafe(l, cursor[l]) /\ ~threw[l]
    BY <1>1 DEF SafeTargets, SafeInv, LevelInv, KeyedInv, CommitInv, StreamInv
  <1>5. cursor[l] \in Nat /\ Skipped(cursor[l]) \in Nat /\ Skipped(0) = 0
    BY <1>t, SkippedFacts DEF LevelTypeOK
  <1>6. Saved(l, Offset(l))' /\ Offset(l)' \in Nat
    BY <1>2, <1>4, <1>5 DEF CursorSafe, ResumePoint, Saved, Offset
  <1>7. Accepted(l)' = 0
    BY <1>2, <1>3 DEF Accepted
  <1>8. LevelInv(l)'
    <2>1. SessionInv(l)'
      BY <1>2, <1>5, <1>6 DEF SessionInv
    <2>2. KeyedInv(l)'
      BY <1>2, <1>4, <1>6, <1>7 DEF KeyedInv, Saved, CursorSafe, ResumePoint
    <2>3. CommitInv(l)'
      <3>1. openTargets' # <<>>
        BY <1>t, <1>2 DEF LevelTypeOK
      <3> QED BY <1>2, <1>3, <1>4, <1>6, <1>7, <3>1
              DEF CommitInv, Saved, CursorSafe, ResumePoint
    <2>4. StreamInv(l)'
      <3>1. at'[l] = "writing" => ~threw'[l]
        BY <1>4, <1>t DEF OpenTarget, OpenTargetFails, LevelTypeOK
      <3> QED BY <1>3, <3>1 DEF StreamInv
    <2> QED BY <2>1, <2>2, <2>3, <2>4 DEF LevelInv
  <1>9. Keeps /\ StaysOpen
    BY <1>1, <1>2, <1>3, <1>t DEF Keeps, StaysOpen, LevelTypeOK
  <1>10. TrackedInv'
    <2> SUFFICES ASSUME NEW i \in 1..Len(openTargets')
                 PROVE  at'[openTargets'[i]] # "idle"
      BY DEF TrackedInv
    <2>1. openTargets \in Seq(Levels) /\ Len(openTargets') = Len(openTargets) + 1
      BY <1>t, <1>2 DEF LevelTypeOK
    <2>2. CASE i = Len(openTargets) + 1
      BY <1>2, <1>3, <2>1, <2>2
    <2>3. CASE i \in 1..Len(openTargets)
      <3>1. openTargets'[i] = openTargets[i] /\ openTargets[i] \in Levels
        BY <1>2, <2>1, <2>3
      <3> QED BY <1>9, <2>3, <3>1 DEF SafeInv, TrackedInv, StaysOpen
    <2> QED BY <2>1, <2>2, <2>3
  <1>11. \A p \in Persisters : PersistInv(p)'
    BY <1>2, <1>9, PersistKept
  <1>12. \A m \in Levels \ {l} :
            /\ at'[m] = at[m] /\ threw'[m] = threw[m] /\ cursor'[m] = cursor[m]
            /\ start'[m] = start[m] /\ base'[m] = base[m]
            /\ written'[m] = written[m] /\ committed'[m] = committed[m]
    BY <1>1, <1>t DEF Track, SourceStart, LevelTypeOK
  <1> QED BY <1>1, <1>2, <1>8, <1>9, <1>10, <1>11, <1>12, LevelStepFrame
          DEF persistVars, diskVars

LEMMA TargetWriteSafe ==
    ASSUME SafeTargets, BaseInv, BaseInv', SafeInv, NEW l \in Levels, Alive,
           TargetWrite(l)
    PROVE  SafeInv'
  <1>t. LevelTypeOK
    BY TypeParts
  <1> DEFINE piece == Offset(l) + written[l] + 1
  <1>1. /\ at[l] = "writing" /\ at' = [at EXCEPT ![l] = "accepted"]
        /\ UNCHANGED <<phase, threw, cursor, start, base, written, committed,
                       openTargets, persistVars, diskVars>>
    BY DEF TargetWrite
  <1>2. Offset(l) \in Nat /\ written[l] \in Nat /\ piece \in 1..P
    BY PositionFacts, SkippedFacts DEF TargetWrite, MorePieces
  <1>3. Offset(l)' = Offset(l) /\ Accepted(l) = written[l] /\ Accepted(l)' = written[l] + 1
    BY <1>1, <1>t DEF Offset, Accepted, LevelTypeOK
  <1>4. \/ Kind[l] = "keyed" /\ out' = [out EXCEPT ![l][piece] = piece]
        \/ Kind[l] = "commit" /\ out' = out
    BY DEF TargetWrite, SafeTargets, File
  <1>5. /\ Keeps
        /\ Kind[l] = "keyed" => out'[l] = [out[l] EXCEPT ![piece] = piece]
    <2> HIDE DEF piece
    <2>1. CASE out' = [out EXCEPT ![l][piece] = piece]
      <3>1. out'[l] = [out[l] EXCEPT ![piece] = piece]
        BY <1>t, <2>1 DEF LevelTypeOK
      <3>2. \A m \in Levels : m # l => out'[m] = out[m]
        BY <1>t, <2>1 DEF LevelTypeOK
      <3>3. \A x \in 1..P : out[l][x] = x => out'[l][x] = x
        BY <1>t, <3>1 DEF LevelTypeOK
      <3> QED BY <3>1, <3>2, <3>3 DEF Keeps
    <2>2. CASE Kind[l] = "commit" /\ out' = out
      BY <2>2 DEF Keeps
    <2> QED BY <1>4, <2>1, <2>2
  <1>6. LevelInv(l)
    BY DEF SafeInv
  <1>7. SessionInv(l)'
    <2>1. Saved(l, Offset(l))'
      BY <1>1, <1>3, <1>5, <1>6 DEF LevelInv, SessionInv, Keeps, Saved
    <2> QED BY <1>1, <1>6, <2>1 DEF LevelInv, SessionInv
  <1>8. KeyedInv(l)'
    <2> SUFFICES ASSUME Kind[l] = "keyed" PROVE KeyedInv(l)'
      BY DEF KeyedInv
    <2>1. /\ Saved(l, Offset(l) + written[l])
          /\ CursorSafe(l, cursor[l]) /\ CursorSafe(l, base[l])
      BY <1>1, <1>3, <1>6 DEF LevelInv, KeyedInv
    <2>2. Saved(l, Offset(l) + Accepted(l))'
      <3> SUFFICES ASSUME NEW x \in 1..P, x <= Offset(l) + (written[l] + 1)
                   PROVE  out'[l][x] = x
        BY <1>3 DEF Saved
      <3>1. CASE x = piece
        BY <1>2, <1>5, <1>t, <3>1 DEF LevelTypeOK
      <3>2. CASE x # piece
        <4>1. out[l][x] = x
          BY <1>2, <2>1, <3>2 DEF Saved
        <4> QED BY <1>5, <4>1 DEF Keeps
      <3> QED BY <3>1, <3>2
    <2>3. CursorSafe(l, cursor[l])' /\ CursorSafe(l, base[l])'
      BY <1>1, <1>5, <2>1 DEF Keeps, CursorSafe, ResumePoint, Saved
    <2> QED BY <2>2, <2>3 DEF KeyedInv
  <1>9. CommitInv(l)'
    <2> SUFFICES ASSUME Kind[l] = "commit" PROVE CommitInv(l)'
      BY DEF CommitInv
    <2>1. out' = out /\ committed[l] \in Nat
      BY <1>4, <1>t DEF LevelTypeOK
    <2>2. /\ committed[l] <= Accepted(l)
          /\ Saved(l, Offset(l) + committed[l]) /\ openTargets # <<>>
      BY <1>1, <1>6 DEF LevelInv, CommitInv
    <2>3. Saved(l, Offset(l) + committed[l])'
      BY <1>1, <1>3, <2>1, <2>2 DEF Saved
    <2>4. committed'[l] <= Accepted(l)'
      BY <1>1, <1>2, <1>3, <2>1, <2>2
    <2>5. at'[l] = "accepted"
      BY <1>1, <1>t DEF LevelTypeOK
    <2> QED BY <1>1, <2>2, <2>3, <2>4, <2>5 DEF CommitInv
  <1>10. StreamInv(l)'
    BY <1>1, <1>6, <1>t DEF LevelInv, StreamInv, LevelTypeOK
  <1>11. LevelInv(l)'
    BY <1>7, <1>8, <1>9, <1>10 DEF LevelInv
  <1>12. StaysOpen
    BY <1>1, <1>t DEF StaysOpen, LevelTypeOK
  <1>13. TrackedInv'
    BY <1>1, <1>12, TrackedKept
  <1>14. \A p \in Persisters : PersistInv(p)'
    BY <1>1, <1>5, <1>12, PersistKept
  <1>15. \A m \in Levels \ {l} : at'[m] = at[m]
    BY <1>1, <1>t DEF LevelTypeOK
  <1> QED BY <1>1, <1>5, <1>11, <1>13, <1>14, <1>15, LevelStepFrame
          DEF persistVars, diskVars

LEMMA RecordCursorSafe ==
    ASSUME Narrow, SafeTargets, BaseInv, BaseInv', SafeInv, NEW l \in Levels,
           Alive, RecordCursor(l)
    PROVE  SafeInv'
  <1>t. LevelTypeOK /\ LevelTypeOK'
    BY TypeParts DEF BaseInv, TypeOK, LevelTypeOK
  <1>1. /\ at[l] = "accepted" /\ at' = [at EXCEPT ![l] = "writing"]
        /\ written' = [written EXCEPT ![l] = written[l] + 1]
        /\ cursor' = [cursor EXCEPT ![l] = start[l] + written[l] + 1]
        /\ UNCHANGED <<phase, threw, start, base, committed, openTargets, out, disk>>
    BY DEF RecordCursor, NextCursor, PersistDue, diskVars
  <1>2. /\ Offset(l) \in Nat /\ written[l] \in Nat /\ start[l] \in Nat
        /\ committed[l] \in Nat
    <2>1. written[l] \in Nat /\ start[l] \in Nat /\ committed[l] \in Nat
      BY <1>t DEF LevelTypeOK
    <2> QED BY <2>1, PositionFacts, SkippedFacts
  <1>3. /\ at'[l] = "writing" /\ written'[l] = written[l] + 1
        /\ cursor'[l] = start[l] + (written[l] + 1)
    BY <1>1, <1>2, <1>t DEF LevelTypeOK
  <1>4. /\ Offset(l)' = Offset(l)
        /\ Accepted(l) = written[l] + 1 /\ Accepted(l)' = written[l] + 1
    BY <1>1, <1>2, <1>3 DEF Offset, Accepted
  <1>5. LevelInv(l)
    BY DEF SafeInv
  <1>6. Keeps /\ StaysOpen
    BY <1>1, <1>t DEF Keeps, StaysOpen, LevelTypeOK
  <1>7. SessionInv(l)'
    BY <1>1, <1>2, <1>3, <1>4, <1>5 DEF LevelInv, SessionInv, Saved
  <1>8. Kind[l] = "keyed" => CursorSafe(l, cursor'[l])
    <2> SUFFICES ASSUME Kind[l] = "keyed" PROVE CursorSafe(l, cursor'[l])
      OBVIOUS
    <2>1. Saved(l, Offset(l) + (written[l] + 1))
      BY <1>1, <1>4, <1>5 DEF LevelInv, KeyedInv
    <2>2. cursor'[l] \in Nat /\ written[l] + 1 \in Nat
      BY <1>2, <1>3
    <2> QED BY <1>3, <2>1, <2>2, SafeWithin
  <1>9. KeyedInv(l)'
    <2> SUFFICES ASSUME Kind[l] = "keyed" PROVE KeyedInv(l)'
      BY DEF KeyedInv
    <2>1. Saved(l, Offset(l) + Accepted(l)) /\ CursorSafe(l, base[l])
      BY <1>1, <1>5 DEF LevelInv, KeyedInv
    <2>2. Saved(l, Offset(l) + Accepted(l))' /\ CursorSafe(l, base[l])'
      BY <1>1, <1>4, <2>1 DEF Saved, CursorSafe, ResumePoint
    <2>3. CursorSafe(l, cursor[l])'
      BY <1>1, <1>8 DEF Saved, CursorSafe, ResumePoint
    <2> QED BY <2>2, <2>3 DEF KeyedInv
  <1>10. Kind[l] = "commit" => openTargets # <<>>
    BY <1>1, <1>5 DEF LevelInv, CommitInv
  <1>11. CommitInv(l)'
    <2> SUFFICES ASSUME Kind[l] = "commit" PROVE CommitInv(l)'
      BY DEF CommitInv
    <2>1. committed[l] <= Accepted(l) /\ Saved(l, Offset(l) + committed[l])
      BY <1>1, <1>5 DEF LevelInv, CommitInv
    <2>2. Saved(l, Offset(l) + committed[l])' /\ committed'[l] <= Accepted(l)'
      BY <1>1, <1>4, <2>1 DEF Saved
    <2> QED BY <1>1, <1>3, <1>10, <2>2 DEF CommitInv
  <1>12. StreamInv(l)'
    BY <1>1, <1>3, <1>5 DEF LevelInv, StreamInv
  <1>13. LevelInv(l)'
    BY <1>7, <1>9, <1>11, <1>12 DEF LevelInv
  <1>14. openTargets = <<>> => \A m \in Levels : CursorSafe(m, cursor'[m])
    <2> SUFFICES ASSUME openTargets = <<>>, NEW m \in Levels
                 PROVE  CursorSafe(m, cursor'[m])
      OBVIOUS
    <2>1. CASE m = l
      BY <1>8, <1>10, <2>1 DEF SafeTargets
    <2>2. CASE m # l
      BY <1>1, <1>t, <2>2, UntrackedIsSafe DEF LevelTypeOK
    <2> QED BY <2>1, <2>2
  <1>15. /\ \A p \in Persisters : PersistInv(p)'
         /\ persistAt'["main"] = persistAt["main"]
    <2>1. CASE writes + 1 >= PersistEvery
      <3>1. SchedulePersist(openTargets, cursor') /\ cursor' \in [Levels -> Nat]
        BY <1>t, <2>1 DEF RecordCursor, NextCursor, PersistDue, LevelTypeOK
      <3> QED BY <1>6, <1>14, <3>1, SchedulePersistSafe
    <2>2. CASE ~(writes + 1 >= PersistEvery)
      <3>1. UNCHANGED persistVars
        BY <2>2 DEF RecordCursor, NextCursor, PersistDue
      <3> QED BY <1>6, <3>1, PersistKept DEF persistVars
    <2> QED BY <2>1, <2>2
  <1>16. TrackedInv'
    BY <1>1, <1>6, TrackedKept
  <1>17. \A m \in Levels \ {l} :
            /\ at'[m] = at[m] /\ threw'[m] = threw[m] /\ cursor'[m] = cursor[m]
            /\ start'[m] = start[m] /\ base'[m] = base[m]
            /\ written'[m] = written[m] /\ committed'[m] = committed[m]
    BY <1>1, <1>t DEF LevelTypeOK
  <1> QED BY <1>1, <1>6, <1>13, <1>15, <1>16, <1>17, LevelStepFrame

LEMMA PlaceSafe ==
    ASSUME SafeTargets, BaseInv, BaseInv', SafeInv, NEW l \in Levels, Alive,
           \/ EndOfStream(l) \/ StreamThrows(l)
           \/ CloseTargetFails(l) \/ StepDoneFails(l)
    PROVE  SafeInv'
  <1>t. LevelTypeOK
    BY TypeParts
  <1>1. /\ \/ at[l] = "writing" /\ at' = [at EXCEPT ![l] = "closing"]
           \/ /\ at[l] \in {"closing", "untracked"}
              /\ at' = [at EXCEPT ![l] = "settled"]
        /\ threw' = threw \/ threw' = [threw EXCEPT ![l] = TRUE]
        /\ UNCHANGED <<phase, cursor, start, base, written, committed, out,
                       openTargets, persistVars, diskVars>>
    BY DEF EndOfStream, StreamThrows, CloseTargetFails, StepDoneFails
  <1>2. \/ at[l] = "writing" /\ at'[l] = "closing"
        \/ at[l] \in {"closing", "untracked"} /\ at'[l] = "settled" /\ threw'[l]
    BY <1>t DEF EndOfStream, StreamThrows, CloseTargetFails, StepDoneFails, LevelTypeOK
  <1>3. threw'[l] \/ Offset(l) + written[l] >= P
    <2>1. CASE EndOfStream(l)
      BY <2>1, PositionFacts, SkippedFacts DEF EndOfStream, MorePieces
    <2>2. CASE StreamThrows(l) \/ CloseTargetFails(l) \/ StepDoneFails(l)
      BY <1>t, <2>2 DEF StreamThrows, CloseTargetFails, StepDoneFails, LevelTypeOK
    <2> QED BY <2>1, <2>2
  <1>4. Offset(l)' = Offset(l) /\ Accepted(l)' = Accepted(l)
    BY <1>1, <1>2 DEF Offset, Accepted
  <1>5. LevelInv(l)
    BY DEF SafeInv
  <1>6. SessionInv(l)'
    BY <1>1, <1>2, <1>4, <1>5 DEF LevelInv, SessionInv, Saved
  <1>7. KeyedInv(l)'
    BY <1>1, <1>2, <1>4, <1>5 DEF LevelInv, KeyedInv, Saved, CursorSafe, ResumePoint
  <1>8. CommitInv(l)'
    BY <1>1, <1>2, <1>4, <1>5 DEF LevelInv, CommitInv, Saved, CursorSafe, ResumePoint
  <1>9. StreamInv(l)'
    BY <1>1, <1>2, <1>3, <1>4 DEF StreamInv
  <1>10. LevelInv(l)'
    BY <1>6, <1>7, <1>8, <1>9 DEF LevelInv
  <1>11. Keeps /\ StaysOpen
    BY <1>1, <1>t DEF Keeps, StaysOpen, LevelTypeOK
  <1>12. TrackedInv' /\ \A p \in Persisters : PersistInv(p)'
    BY <1>1, <1>11, TrackedKept, PersistKept
  <1>13. \A m \in Levels \ {l} : at'[m] = at[m] /\ threw'[m] = threw[m]
    BY <1>1, <1>t DEF LevelTypeOK
  <1>14. at[l] # "settled" /\ persistAt'["main"] = persistAt["main"]
         /\ UNCHANGED disk
    BY <1>1 DEF persistVars, diskVars
  <1> QED BY <1>1, <1>10, <1>11, <1>12, <1>13, <1>14, LevelStepFrame

\* What an append-only sink commits is durable and disturbs nothing.
LEMMA CommitUpToSafe ==
    ASSUME BaseInv, NEW l \in Levels, NEW c \in Nat, CommitUpTo(l, c),
           Saved(l, Offset(l)), start' = start
    PROVE  Keeps /\ committed'[l] = c /\ Saved(l, Offset(l) + c)'
  <1>t. LevelTypeOK /\ Offset(l) \in Nat
    BY TypeParts, PositionFacts, SkippedFacts
  <1>1. /\ \A x \in 1..P : out'[l][x] = IF x \in (Offset(l) + 1)..(Offset(l) + c)
                                        THEN x ELSE out[l][x]
        /\ \A m \in Levels \ {l} : out'[m] = out[m]
        /\ committed'[l] = c
    BY <1>t DEF CommitUpTo, LevelTypeOK
  <1>2. Keeps
    <2> SUFFICES ASSUME NEW m \in Levels, NEW x \in 1..P, out[m][x] = x
                 PROVE  out'[m][x] = x
      BY DEF Keeps
    <2> QED BY <1>1
  <1>3. Saved(l, Offset(l) + c)'
    <2> SUFFICES ASSUME NEW x \in 1..P, x <= Offset(l) + c PROVE out'[l][x] = x
      BY DEF Saved, Offset
    <2> QED BY <1>1, <1>t DEF Saved
  <1> QED BY <1>1, <1>2, <1>3

LEMMA CloseTargetSafe ==
    ASSUME SafeTargets, BaseInv, BaseInv', SafeInv, NEW l \in Levels, Alive,
           CloseTarget(l)
    PROVE  SafeInv'
  <1>t. LevelTypeOK
    BY TypeParts
  <1>1. /\ at[l] = "closing" /\ at' = [at EXCEPT ![l] = "closed"]
        /\ UNCHANGED <<phase, threw, cursor, start, base, written, openTargets,
                       persistVars, diskVars>>
    BY DEF CloseTarget
  <1>2. at'[l] = "closed"
    BY <1>1, <1>t DEF LevelTypeOK
  <1>3. /\ Offset(l)' = Offset(l) /\ Offset(l) \in Nat /\ written[l] \in Nat
        /\ Accepted(l) = written[l] /\ Accepted(l)' = written[l]
    <2>1. Offset(l) \in Nat /\ written[l] \in Nat
      BY PositionFacts, SkippedFacts
    <2> QED BY <1>1, <1>2, <2>1 DEF Offset, Accepted
  <1>4. LevelInv(l) /\ Saved(l, Offset(l))
    BY <1>1 DEF SafeInv, LevelInv, SessionInv
  <1>5. \/ Kind[l] = "keyed" /\ UNCHANGED <<committed, out>>
        \/ Kind[l] = "commit" /\ CommitUpTo(l, written[l])
    BY DEF CloseTarget, SafeTargets
  <1>6. /\ Keeps
        /\ Kind[l] = "commit" => /\ committed'[l] = written[l]
                                 /\ Saved(l, Offset(l) + written[l])'
    <2>1. CASE Kind[l] = "keyed" /\ UNCHANGED <<committed, out>>
      BY <2>1 DEF Keeps
    <2>2. CASE Kind[l] = "commit" /\ CommitUpTo(l, written[l])
      <3>1. /\ Keeps /\ committed'[l] = written[l]
            /\ \A k \in Nat : k = written[l] => Saved(l, Offset(l) + k)'
        BY <1>1, <1>3, <1>4, <2>2, CommitUpToSafe
      <3> QED BY <1>1, <1>3, <3>1 DEF Saved
    <2> QED BY <1>5, <2>1, <2>2
  <1>7. SessionInv(l)'
    <2>1. Saved(l, Offset(l))'
      BY <1>3, <1>4, <1>6 DEF Keeps, Saved
    <2> QED BY <1>1, <1>4, <2>1 DEF LevelInv, SessionInv
  <1>8. KeyedInv(l)'
    <2> SUFFICES ASSUME Kind[l] = "keyed" PROVE KeyedInv(l)'
      BY DEF KeyedInv
    <2>1. out' = out
      BY <1>5
    <2> QED BY <1>1, <1>3, <1>4, <2>1
            DEF LevelInv, KeyedInv, Saved, CursorSafe, ResumePoint
  <1>9. CommitInv(l)'
    <2> SUFFICES ASSUME Kind[l] = "commit" PROVE CommitInv(l)'
      BY DEF CommitInv
    <2>1. openTargets' # <<>>
      BY <1>1, <1>4 DEF LevelInv, CommitInv
    <2>2. Saved(l, Offset(l) + committed[l])'
      BY <1>1, <1>3, <1>6 DEF Saved
    <2> QED BY <1>1, <1>2, <1>3, <1>6, <2>1, <2>2 DEF CommitInv
  <1>10. StreamInv(l)'
    BY <1>1, <1>2, <1>3, <1>4 DEF LevelInv, StreamInv
  <1>11. LevelInv(l)'
    BY <1>7, <1>8, <1>9, <1>10 DEF LevelInv
  <1>12. StaysOpen
    BY <1>1, <1>t DEF StaysOpen, LevelTypeOK
  <1>13. TrackedInv' /\ \A p \in Persisters : PersistInv(p)'
    BY <1>1, <1>6, <1>12, TrackedKept, PersistKept
  <1>14. \A m \in Levels \ {l} : at'[m] = at[m] /\ committed'[m] = committed[m]
    BY <1>1, <1>5, <1>t DEF CommitUpTo, LevelTypeOK
  <1>15. at[l] # "settled" /\ persistAt'["main"] = persistAt["main"]
         /\ UNCHANGED disk
    BY <1>1 DEF persistVars, diskVars
  <1> QED BY <1>1, <1>6, <1>11, <1>13, <1>14, <1>15, LevelStepFrame

LEMMA UntrackSafe ==
    ASSUME Narrow, SafeTargets, BaseInv, BaseInv', SafeInv, NEW l \in Levels,
           Alive, Untrack(l)
    PROVE  SafeInv'
  <1>t. LevelTypeOK
    BY TypeParts
  <1>1. /\ at[l] = "closed"
        /\ at' = [at EXCEPT ![l] = IF threw[l] THEN "settled" ELSE "untracked"]
        /\ UNCHANGED <<phase, threw, cursor, start, base, written, committed, out,
                       persistVars, diskVars>>
    BY DEF Untrack
  <1>2. at'[l] = IF threw[l] THEN "settled" ELSE "untracked"
    BY <1>1, <1>t DEF LevelTypeOK
  <1>3. Offset(l)' = Offset(l) /\ Accepted(l)' = Accepted(l)
    BY <1>1, <1>2 DEF Offset, Accepted
  <1>4. LevelInv(l)
    BY DEF SafeInv
  <1>5. Kind[l] = "commit" => CursorSafe(l, cursor[l])
    <2> SUFFICES ASSUME Kind[l] = "commit" PROVE CursorSafe(l, cursor[l])
      OBVIOUS
    <2>1. Saved(l, Offset(l) + written[l])
      BY <1>1, <1>4 DEF LevelInv, CommitInv
    <2>2. l \in Resumable => cursor[l] <= start[l] + written[l]
      BY <1>1, <1>4 DEF LevelInv, SessionInv
    <2>3. cursor[l] \in Nat /\ written[l] \in Nat
      BY <1>t DEF LevelTypeOK
    <2> QED BY <2>1, <2>2, <2>3, SafeWithin
  <1>6. LevelInv(l)'
    <2>1. SessionInv(l)'
      BY <1>1, <1>3, <1>4 DEF LevelInv, SessionInv, Saved
    <2>2. KeyedInv(l)'
      BY <1>1, <1>3, <1>4 DEF LevelInv, KeyedInv, Saved, CursorSafe, ResumePoint
    <2>3. CommitInv(l)'
      BY <1>1, <1>2, <1>3, <1>4, <1>5
         DEF LevelInv, CommitInv, Saved, CursorSafe, ResumePoint
    <2>4. StreamInv(l)'
      BY <1>1, <1>2, <1>3, <1>4 DEF LevelInv, StreamInv
    <2> QED BY <2>1, <2>2, <2>3, <2>4 DEF LevelInv
  <1>7. Keeps /\ StaysOpen
    BY <1>1, <1>t DEF Keeps, StaysOpen, LevelTypeOK
  <1>8. TrackedInv'
    <2> DEFINE S == {m \in Levels : at[m] # "idle"}
    <2>1. PICK i \in 1..Len(openTargets) :
            openTargets' = SubSeq(openTargets, 1, i - 1)
                             \o SubSeq(openTargets, i + 1, Len(openTargets))
      BY DEF Untrack
    <2>2. \A j \in 1..Len(openTargets) : openTargets[j] \in S
      <3> SUFFICES ASSUME NEW j \in 1..Len(openTargets) PROVE openTargets[j] \in S
        OBVIOUS
      <3>1. openTargets[j] \in Levels
        BY <1>t DEF LevelTypeOK
      <3>2. at[openTargets[j]] # "idle"
        BY DEF SafeInv, TrackedInv
      <3> QED BY <3>1, <3>2
    <2>3. Len(openTargets) \in Nat
      BY <1>t DEF LevelTypeOK
    <2> HIDE DEF S
    <2>4. SubSeq(openTargets, 1, i - 1) \in Seq(S)
      BY <2>2, <2>3, SubSeqProperties
    <2>5. SubSeq(openTargets, i + 1, Len(openTargets)) \in Seq(S)
      BY <2>2, <2>3, SubSeqProperties
    <2>6. openTargets' \in Seq(S)
      BY <2>1, <2>4, <2>5, ConcatProperties
    <2>7. \A j \in 1..Len(openTargets') : openTargets'[j] \in S
      BY <2>6
    <2> QED BY <1>7, <2>7 DEF S, TrackedInv, StaysOpen
  <1>9. \A p \in Persisters : PersistInv(p)'
    BY <1>1, <1>7, PersistKept
  <1>10. \A m \in Levels \ {l} : at'[m] = at[m]
    BY <1>1, <1>t DEF LevelTypeOK
  <1>11. at[l] # "settled" /\ persistAt'["main"] = persistAt["main"]
         /\ UNCHANGED disk
    BY <1>1 DEF persistVars, diskVars
  <1> QED BY <1>1, <1>6, <1>7, <1>8, <1>9, <1>10, <1>11, LevelStepFrame

LEMMA StepDoneSafe ==
    ASSUME SafeTargets, BaseInv, BaseInv', SafeInv, NEW l \in Levels, Alive,
           StepDone(l)
    PROVE  SafeInv'
  <1>t. LevelTypeOK
    BY TypeParts
  <1>1. /\ at[l] = "untracked" /\ at' = [at EXCEPT ![l] = "settled"]
        /\ SchedulePersist(openTargets, cursor)
        /\ UNCHANGED <<phase, threw, cursor, start, base, written, committed, out,
                       openTargets, disk>>
    BY DEF StepDone, diskVars
  <1>2. at'[l] = "settled"
    BY <1>1, <1>t DEF LevelTypeOK
  <1>3. Offset(l)' = Offset(l) /\ Accepted(l)' = Accepted(l)
    BY <1>1, <1>2 DEF Offset, Accepted
  <1>4. LevelInv(l)
    BY DEF SafeInv
  <1>5. LevelInv(l)'
    <2>1. SessionInv(l)'
      BY <1>1, <1>3, <1>4 DEF LevelInv, SessionInv, Saved
    <2>2. KeyedInv(l)'
      BY <1>1, <1>3, <1>4 DEF LevelInv, KeyedInv, Saved, CursorSafe, ResumePoint
    <2>3. CommitInv(l)'
      BY <1>1, <1>2, <1>3, <1>4 DEF LevelInv, CommitInv, Saved, CursorSafe, ResumePoint
    <2>4. StreamInv(l)'
      BY <1>1, <1>2, <1>3, <1>4 DEF LevelInv, StreamInv
    <2> QED BY <2>1, <2>2, <2>3, <2>4 DEF LevelInv
  <1>6. Keeps /\ StaysOpen
    BY <1>1, <1>t DEF Keeps, StaysOpen, LevelTypeOK
  <1>7. TrackedInv'
    BY <1>1, <1>6, TrackedKept
  <1>8. /\ \A p \in Persisters : PersistInv(p)'
        /\ persistAt'["main"] = persistAt["main"]
    BY <1>1, <1>6, <1>t, UntrackedIsSafe, SchedulePersistSafe DEF LevelTypeOK
  <1>9. \A m \in Levels \ {l} : at'[m] = at[m]
    BY <1>1, <1>t DEF LevelTypeOK
  <1> QED BY <1>1, <1>5, <1>6, <1>7, <1>8, <1>9, LevelStepFrame

LEMMA NextEntrySafe ==
    ASSUME BaseInv, BaseInv', SafeInv, Keeps, UNCHANGED <<at, openTargets>>,
           NEW p \in Persisters, NextEntry(p),
           \A m \in Levels : CursorSafe(m, cursor[m])'
    PROVE  \A q \in Persisters : PersistInv(q)'
  <1> SUFFICES ASSUME NEW q \in Persisters PROVE PersistInv(q)'
    OBVIOUS
  <1>t. PersistTypeOK /\ LevelTypeOK /\ cursor' \in [Levels -> Nat]
    BY TypeParts DEF BaseInv, TypeOK
  <1>1. PersistInv(q)
    BY DEF SafeInv
  <1>2. /\ persistAt[q] = "clamping" => at[persistLevel[q]] # "idle"
        /\ persistAt[q] = "landing"
             => \A m \in Levels, x \in 1..P :
                  x <= ResumePoint(m, snap[q][m]) => out'[m][x] = x
    BY <1>1 DEF PersistInv, Keeps, CursorSafe, Saved
  <1>3. CASE persistIdx[p] + 1 <= Len(openTargets)
    <2> DEFINE i == persistIdx[p] + 1
    <2>1. /\ persistLevel' = [persistLevel EXCEPT ![p] = openTargets[i]]
          /\ UNCHANGED <<persistAt, snap>>
      BY <1>3 DEF NextEntry
    <2>2. i \in 1..Len(openTargets)
      <3>1. persistIdx[p] \in Nat
        BY <1>t DEF PersistTypeOK
      <3>2. Len(openTargets) \in Nat
        BY <1>t DEF LevelTypeOK
      <3> QED BY <1>3, <3>1, <3>2
    <2>3. at[openTargets[i]] # "idle"
      BY <2>2 DEF SafeInv, TrackedInv
    <2>4. persistAt'[q] = "clamping" => at'[persistLevel'[q]] # "idle"
      <3>1. CASE q = p
        BY <1>t, <2>1, <2>3, <3>1 DEF PersistTypeOK
      <3>2. CASE q # p
        BY <1>2, <1>t, <2>1, <3>2 DEF PersistTypeOK
      <3> QED BY <3>1, <3>2
    <2> QED BY <1>2, <2>1, <2>4 DEF PersistInv, CursorSafe, ResumePoint, Saved
  <1>4. CASE ~(persistIdx[p] + 1 <= Len(openTargets))
    <2>1. /\ persistAt' = [persistAt EXCEPT ![p] = "landing"]
          /\ persistLevel' = [persistLevel EXCEPT ![p] = NoLevel]
          /\ snap' = [snap EXCEPT ![p] = cursor']
      BY <1>4 DEF NextEntry, Serialize
    <2>2. CASE q = p
      <3>1. persistAt'[q] = "landing" /\ snap'[q] = cursor'
        BY <1>t, <2>1, <2>2 DEF PersistTypeOK
      <3> QED BY <3>1 DEF PersistInv, CursorSafe, ResumePoint, Saved
    <2>3. CASE q # p
      <3>1. /\ persistAt'[q] = persistAt[q] /\ snap'[q] = snap[q]
            /\ persistLevel'[q] = persistLevel[q]
        BY <1>t, <2>1, <2>3 DEF PersistTypeOK
      <3> QED BY <1>2, <3>1 DEF PersistInv, CursorSafe, ResumePoint, Saved
    <2> QED BY <2>2, <2>3
  <1> QED BY <1>3, <1>4

LEMMA ClampSafe ==
    ASSUME Narrow, SafeTargets, BaseInv, BaseInv', SafeInv, NEW p \in Persisters,
           Clamp(p), NEW l \in Levels, l = persistLevel[p]
    PROVE  SafeInv'
  <1>t. LevelTypeOK /\ PersistTypeOK /\ cursor' \in [Levels -> Nat]
    BY TypeParts DEF BaseInv, TypeOK
  <1>1. /\ persistAt[p] = "clamping"
        /\ UNCHANGED <<phase, at, threw, start, base, written, openTargets, disk>>
        /\ NextEntry(p)
    BY DEF Clamp, diskVars
  <1>2. at[l] # "idle"
    BY <1>1 DEF SafeInv, PersistInv
  <1>3. LevelInv(l) /\ Saved(l, Offset(l))
    BY <1>2 DEF SafeInv, LevelInv, SessionInv
  <1>4. /\ Offset(l) \in Nat /\ Accepted(l) \in Nat /\ start[l] \in Nat
        /\ base[l] \in Nat /\ cursor[l] \in Nat /\ committed[l] \in Nat
        /\ written[l] \in Nat
    <2>1. /\ start[l] \in Nat /\ base[l] \in Nat /\ cursor[l] \in Nat
          /\ committed[l] \in Nat /\ written[l] \in Nat
      BY <1>t DEF LevelTypeOK
    <2> QED BY <2>1, PositionFacts, SkippedFacts
  <1>5. Offset(l)' = Offset(l) /\ Accepted(l)' = Accepted(l)
    BY <1>1 DEF Offset, Accepted
  \* The sink's side: c envelopes of the session are durable.
  <1>6. /\ Keeps
        /\ \A m \in Levels \ {l} : committed'[m] = committed[m]
        /\ Kind[l] = "keyed" => committed' = committed /\ out' = out
        /\ Kind[l] = "commit" => /\ committed'[l] \in committed[l]..Accepted(l)
                                 /\ Saved(l, Offset(l) + committed[l])'
    <2>1. CASE Kind[l] = "commit"
      <3>1. PICK c \in committed[l]..Accepted(l) : CommitUpTo(l, c)
        BY <2>1 DEF Clamp
      <3>2. c \in Nat
        BY <1>4
      <3>3. Keeps /\ committed'[l] = c /\ Saved(l, Offset(l) + c)'
        BY <1>1, <1>3, <3>1, <3>2, CommitUpToSafe
      <3>4. Saved(l, Offset(l) + committed[l])'
        BY <3>3 DEF Saved
      <3>5. \A m \in Levels \ {l} : committed'[m] = committed[m]
        BY <3>1, <1>t DEF CommitUpTo, LevelTypeOK
      <3> QED BY <2>1, <3>3, <3>4, <3>5
    <2>2. CASE Kind[l] # "commit"
      <3>1. UNCHANGED <<committed, out>>
        BY <2>2 DEF Clamp
      <3> QED BY <2>2, <3>1 DEF Keeps
    <2> QED BY <2>1, <2>2
  \* The node's side: its cursor is clamped to what the sink reported.
  <1>7. /\ \A m \in Levels \ {l} : cursor'[m] = cursor[m]
        /\ cursor'[l] <= cursor[l] /\ cursor'[l] \in Nat
        /\ Kind[l] = "keyed" => cursor'[l] \in {cursor[l], base[l]}
        /\ Kind[l] = "commit" => cursor'[l] <= base[l] + committed'[l]
    <2>1. ASSUME NEW r \in Nat, ClampCursor(l, r)
          PROVE  /\ \A m \in Levels \ {l} : cursor'[m] = cursor[m]
                 /\ cursor'[l] = IF cursor[l] > base[l] + r THEN base[l] + r
                                                           ELSE cursor[l]
      BY <2>1, <1>t DEF ClampCursor, LevelTypeOK
    <2>2. CASE Kind[l] = "commit"
      <3>1. PICK c \in committed[l]..Accepted(l) :
              CommitUpTo(l, c) /\ \E r \in 0..c : ClampCursor(l, r)
        BY <2>2 DEF Clamp
      <3>2. committed'[l] = c /\ c \in Nat
        BY <1>4, <3>1, <1>t DEF CommitUpTo, LevelTypeOK
      <3> QED BY <1>4, <2>1, <2>2, <3>1, <3>2
    <2>3. CASE Kind[l] # "commit"
      <3>1. ClampCursor(l, 0)
        BY <2>3 DEF Clamp
      <3> QED BY <1>4, <2>1, <2>3, <3>1
    <2> QED BY <2>2, <2>3
  <1>8. Kind[l] = "commit" => CursorSafe(l, cursor[l])'
    <2> SUFFICES ASSUME Kind[l] = "commit" PROVE CursorSafe(l, cursor[l])'
      OBVIOUS
    <2>1. CASE l \in Resumable
      <3>1. base[l] = start[l]
        BY <1>2, <1>3, <2>1 DEF LevelInv, SessionInv
      <3>2. Skipped(cursor'[l]) <= Skipped(start[l]) + committed'[l]
        BY <1>4, <1>6, <1>7, <3>1, SkippedWithin
      <3>3. Skipped(cursor'[l]) \in Nat /\ Skipped(start[l]) \in Nat
        BY <1>4, <1>7, SkippedFacts
      <3>4. committed'[l] \in Nat
        BY <1>4, <1>6
      <3>5. \A x \in 1..P : x <= Skipped(start[l]) + committed'[l] => out'[l][x] = x
        BY <1>1, <1>6 DEF Saved, Offset
      <3> QED BY <2>1, <3>2, <3>3, <3>4, <3>5 DEF CursorSafe, ResumePoint, Saved
    <2>2. CASE l \notin Resumable
      BY <2>2 DEF CursorSafe, ResumePoint, Saved
    <2> QED BY <2>1, <2>2
  <1>9. Kind[l] = "keyed" => CursorSafe(l, cursor[l])'
    BY <1>2, <1>3, <1>6, <1>7 DEF LevelInv, KeyedInv, CursorSafe, ResumePoint, Saved
  <1>10. LevelInv(l)'
    <2>1. SessionInv(l)'
      <3>1. Saved(l, Offset(l))'
        BY <1>3, <1>5, <1>6 DEF Keeps, Saved
      <3>2. l \in Resumable => cursor'[l] <= start[l] + written[l]
        BY <1>2, <1>3, <1>4, <1>7 DEF LevelInv, SessionInv
      <3> QED BY <1>1, <1>2, <1>3, <3>1, <3>2 DEF LevelInv, SessionInv
    <2>2. KeyedInv(l)'
      <3> SUFFICES ASSUME Kind[l] = "keyed" PROVE KeyedInv(l)'
        BY DEF KeyedInv
      <3>1. Saved(l, Offset(l) + Accepted(l)) /\ CursorSafe(l, base[l])
        BY <1>2, <1>3 DEF LevelInv, KeyedInv
      <3>2. Saved(l, Offset(l) + Accepted(l))' /\ CursorSafe(l, base[l])'
        BY <1>1, <1>5, <1>6, <3>1 DEF Saved, CursorSafe, ResumePoint
      <3> QED BY <1>9, <3>2 DEF KeyedInv
    <2>3. CommitInv(l)'
      <3> SUFFICES ASSUME Kind[l] = "commit" PROVE CommitInv(l)'
        BY DEF CommitInv
      <3>1. committed'[l] <= Accepted(l)' /\ Saved(l, Offset(l) + committed[l])'
        BY <1>4, <1>5, <1>6
      <3>2. at[l] \in {"writing", "accepted", "closing", "closed"} => openTargets # <<>>
        BY <1>3 DEF LevelInv, CommitInv
      <3>3. at[l] \in {"closed", "untracked"} \/ (at[l] = "settled" /\ ~threw[l])
              => committed'[l] = written[l]
        <4> SUFFICES ASSUME \/ at[l] \in {"closed", "untracked"}
                            \/ at[l] = "settled" /\ ~threw[l]
                     PROVE  committed'[l] = written[l]
          OBVIOUS
        <4>1. committed[l] = written[l] /\ Accepted(l) = written[l]
          BY <1>3, PositionFacts DEF LevelInv, CommitInv
        <4>2. committed'[l] \in committed[l]..Accepted(l)
          BY <1>6
        <4>3. committed'[l] \in written[l]..written[l]
          BY <4>1, <4>2
        <4> QED BY <1>4, <4>3
      <3> QED BY <1>1, <1>8, <3>1, <3>2, <3>3 DEF CommitInv
    <2>4. StreamInv(l)'
      BY <1>1, <1>3, <1>5 DEF LevelInv, StreamInv
    <2> QED BY <2>1, <2>2, <2>3, <2>4 DEF LevelInv
  <1>11. \A m \in Levels : LevelInv(m)' /\ CursorSafe(m, cursor[m])'
    <2> SUFFICES ASSUME NEW m \in Levels
                 PROVE  LevelInv(m)' /\ CursorSafe(m, cursor[m])'
      OBVIOUS
    <2>1. CASE m = l
      BY <1>8, <1>9, <1>10, <2>1 DEF SafeTargets
    <2>2. CASE m # l
      <3>1. Kind[m] = "keyed"
        BY <2>2 DEF SafeTargets
      <3>2. LevelInv(m)
        BY DEF SafeInv
      <3>3. LevelInv(m)'
        BY <1>1, <1>6, <1>7, <2>2, <3>1, <3>2, LevelKept
      <3> QED BY <3>1, <3>3 DEF LevelInv, KeyedInv
    <2> QED BY <2>1, <2>2
  <1>12. TrackedInv' /\ DiskInv'
    BY <1>1, <1>6, TrackedKept, DiskKept DEF StaysOpen
  <1>13. \A q \in Persisters : PersistInv(q)'
    BY <1>1, <1>6, <1>11, NextEntrySafe
  <1>14. PhaseInv'
    <2>1. persistAt'["main"] = "idle" \/ persistAt["main"] # "idle"
      <3>1. CASE p = "main"
        BY <1>1, <3>1
      <3>2. CASE p # "main"
        <4>1. \/ persistAt' = persistAt
              \/ persistAt' = [persistAt EXCEPT ![p] = "landing"]
          BY <1>1 DEF NextEntry
        <4> QED BY <1>t, <3>2, <4>1 DEF PersistTypeOK, Persisters
      <3> QED BY <3>1, <3>2
    <2> QED BY <1>1, <2>1 DEF SafeInv, PhaseInv, Threw
  <1> QED BY <1>11, <1>12, <1>13, <1>14 DEF SafeInv

\* What the steps of the persists and of the run have in common.
LEMMA RunFrame ==
    ASSUME BaseInv, SafeInv, UNCHANGED <<levelVars, openTargets>>
    PROVE  /\ \A l \in Levels : LevelInv(l)'
           /\ TrackedInv' /\ Keeps /\ StaysOpen
  <1>1. Keeps /\ StaysOpen
    BY DEF Keeps, StaysOpen, levelVars
  <1>2. ASSUME NEW l \in Levels PROVE LevelInv(l)'
    <2>1. LevelInv(l)
      BY DEF SafeInv
    <2> QED BY <1>1, <2>1, LevelKept DEF levelVars
  <1> QED BY <1>1, <1>2, TrackedKept

LEMMA PersistIdlesSafe ==
    ASSUME BaseInv, SafeInv, Keeps, StaysOpen, NEW p \in Persisters, PersistIdles(p)
    PROVE  \A q \in Persisters : PersistInv(q)'
  <1> SUFFICES ASSUME NEW q \in Persisters PROVE PersistInv(q)'
    OBVIOUS
  <1>t. PersistTypeOK
    BY TypeParts
  <1>1. CASE q = p
    <2>1. persistAt'[q] = "idle"
      BY <1>1, <1>t DEF PersistIdles, PersistTypeOK
    <2> QED BY <2>1 DEF PersistInv
  <1>2. CASE q # p
    <2>1. /\ persistAt'[q] = persistAt[q] /\ snap'[q] = snap[q]
          /\ persistLevel'[q] = persistLevel[q]
      BY <1>2, <1>t DEF PersistIdles, PersistTypeOK
    <2>2. PersistInv(q)
      BY DEF SafeInv
    <2>3. persistAt[q] = "clamping" => at'[persistLevel[q]] # "idle"
      BY <2>2 DEF PersistInv, StaysOpen, BaseInv, AwaitsLevel
    <2>4. \A l \in Levels : CursorSafe(l, snap[q][l]) => CursorSafe(l, snap[q][l])'
      BY <2>1 DEF Keeps, CursorSafe, ResumePoint, Saved
    <2> QED BY <2>1, <2>2, <2>3, <2>4 DEF PersistInv
  <1> QED BY <1>1, <1>2

LEMMA LandSafe ==
    ASSUME SafeTargets, BaseInv, BaseInv', SafeInv, NEW p \in Persisters, Alive,
           Land(p) \/ LandFails(p)
    PROVE  SafeInv'
  <1>t. LevelTypeOK /\ PersistTypeOK
    BY TypeParts
  <1>1. /\ persistAt[p] = "landing"
        /\ UNCHANGED <<levelVars, openTargets>>
        /\ disk' = disk \/ disk' = snap[p]
    BY DEF Land, LandFails, diskVars
  <1>2. /\ \A l \in Levels : LevelInv(l)'
        /\ TrackedInv' /\ Keeps /\ StaysOpen
    BY <1>1, RunFrame
  <1>3. DiskInv'
    <2>1. CASE disk' = disk
      BY <1>2, <2>1, DiskKept
    <2>2. CASE disk' = snap[p]
      <3>1. \A l \in Levels : CursorSafe(l, snap[p][l])
        BY <1>1 DEF SafeInv, PersistInv
      <3> QED BY <1>2, <2>2, <3>1 DEF DiskInv, Keeps, CursorSafe, ResumePoint, Saved
    <2> QED BY <1>1, <2>1, <2>2
  <1>4. \A q \in Persisters : PersistInv(q)'
    <2>1. CASE PersistIdles(p)
      BY <1>2, <2>1, PersistIdlesSafe
    <2>2. CASE PersistBegins(p, openTargets, cursor)
      BY <1>2, <1>t, <2>2, UntrackedIsSafe, PersistBeginsSafe DEF LevelTypeOK
    <2> QED BY <2>1, <2>2 DEF Land, PersistReturns, LandFails
  <1>5. PhaseInv'
    <2>1. CASE p = "main"
      <3>1. PersistIdles(p)
        BY <2>1 DEF Land, PersistReturns, LandFails
      <3>2. persistAt'["main"] = "idle"
        BY <1>t, <2>1, <3>1 DEF PersistIdles, PersistTypeOK, Persisters
      <3>3. phase \in {"ending", "flushing"}
        BY <1>1, <2>1 DEF SafeInv, PhaseInv, Alive, BaseInv, TypeOK
      <3>4. \A l \in Levels : at'[l] = "settled"
        BY <1>1, <3>3 DEF SafeInv, PhaseInv, levelVars
      <3>5. phase' \in {"flushing", "done"} => ~Threw
        BY <2>1 DEF Land, PersistReturns, LandFails
      <3>6. phase' \in {"flushing", "done"} => ~Threw'
        BY <1>1, <3>5 DEF Threw, levelVars
      <3> QED BY <3>2, <3>4, <3>6 DEF PhaseInv
    <2>2. CASE p # "main"
      <3>1. phase' = phase
        BY <2>2 DEF Land, PersistReturns, LandFails
      <3>2. persistAt'["main"] = persistAt["main"]
        BY <1>t, <2>2 DEF Land, PersistReturns, LandFails, PersistIdles, PersistBegins,
           PersistTypeOK, Persisters
      <3>3. Threw' = Threw
        BY <1>1 DEF Threw, levelVars
      <3> QED BY <1>1, <3>1, <3>2, <3>3 DEF SafeInv, PhaseInv, levelVars
    <2> QED BY <2>1, <2>2
  <1> QED BY <1>2, <1>3, <1>4, <1>5 DEF SafeInv

LEMMA RunStepSafe ==
    ASSUME SafeTargets, BaseInv, BaseInv', SafeInv, CompleteNested \/ Control \/ EndRun \/ Flush
    PROVE  SafeInv'
  <1>t. LevelTypeOK /\ PersistTypeOK
    BY TypeParts
  <1>1. UNCHANGED <<levelVars, openTargets, disk>>
    BY DEF CompleteNested, Control, EndRun, Flush, diskVars
  <1>2. /\ \A l \in Levels : LevelInv(l)'
        /\ TrackedInv' /\ Keeps /\ StaysOpen /\ DiskInv'
    BY <1>1, RunFrame, DiskKept
  <1>3. \A q \in Persisters : PersistInv(q)'
    <2>1. ASSUME NEW p \in Persisters, PersistBegins(p, openTargets, cursor)
          PROVE  \A q \in Persisters : PersistInv(q)'
      BY <1>2, <1>t, <2>1, UntrackedIsSafe, PersistBeginsSafe DEF LevelTypeOK
    <2>2. CASE UNCHANGED persistVars
      BY <1>2, <2>2, PersistKept
    <2> QED BY <2>1, <2>2 DEF CompleteNested, SchedulePersist, Control, EndRun,
               Flush, Persisters
  <1>4. PhaseInv'
    <2>1. Threw' = Threw /\ at' = at
      BY <1>1 DEF Threw, levelVars
    <2>2. CASE CompleteNested \/ Control
      <3>1. persistAt'["main"] = persistAt["main"] /\ phase' = phase
        BY <1>t, <2>2 DEF CompleteNested, SchedulePersist, persistVars, Control,
           PersistBegins, PersistTypeOK, Persisters
      <3> QED BY <2>1, <3>1 DEF SafeInv, PhaseInv
    <2>3. CASE EndRun
      BY <2>1, <2>3 DEF EndRun, PhaseInv
    <2>4. CASE Flush
      <3>1. /\ phase = "flushing" /\ persistAt["main"] = "idle"
            /\ phase' = "flushing" \/ (phase' = "done" /\ UNCHANGED persistVars)
        BY <2>4 DEF Flush
      <3> QED BY <2>1, <3>1 DEF SafeInv, PhaseInv, persistVars
    <2> QED BY <2>2, <2>3, <2>4
  <1> QED BY <1>2, <1>3, <1>4 DEF SafeInv

LEMMA CrashSafe ==
    ASSUME BaseInv, SafeInv, Crash
    PROVE  SafeInv'
  <1>1. UNCHANGED <<levelVars, openTargets, persistVars, disk>> /\ phase' = "down"
    BY DEF Crash, diskVars
  <1>2. /\ \A l \in Levels : LevelInv(l)'
        /\ TrackedInv' /\ Keeps /\ StaysOpen
    BY <1>1, RunFrame
  <1>3. DiskInv' /\ \A q \in Persisters : PersistInv(q)'
    BY <1>1, <1>2, DiskKept, PersistKept
  <1>4. PhaseInv'
    BY <1>1 DEF PhaseInv
  <1> QED BY <1>2, <1>3, <1>4 DEF SafeInv

\* A session that has not opened its targets yet, with cursors that are safe.
LEMMA FreshSessionSafe ==
    ASSUME BaseInv', DiskInv', openTargets' = <<>>, phase' = "running",
           \A l \in Levels : /\ at'[l] = "idle" /\ threw'[l] = FALSE
                             /\ written'[l] = 0 /\ committed'[l] = 0
                             /\ CursorSafe(l, cursor[l])',
           \A p \in Persisters : persistAt'[p] = "idle"
    PROVE  SafeInv'
  <1>1. ASSUME NEW l \in Levels PROVE LevelInv(l)'
    BY DEF LevelInv, SessionInv, KeyedInv, CommitInv, StreamInv, Accepted
  <1>2. TrackedInv'
    BY DEF TrackedInv
  <1>3. \A p \in Persisters : PersistInv(p)'
    BY DEF PersistInv
  <1>4. PhaseInv'
    BY DEF PhaseInv, Persisters
  <1> QED BY <1>1, <1>2, <1>3, <1>4 DEF SafeInv

LEMMA ResumeSafe ==
    ASSUME BaseInv, BaseInv', SafeInv, Resume
    PROVE  SafeInv'
  <1>1. /\ openTargets' = <<>> /\ phase' = "running" /\ cursor' = disk
        /\ out' = out /\ disk' = disk
        /\ \A l \in Levels : /\ at'[l] = "idle" /\ threw'[l] = FALSE
                             /\ written'[l] = 0 /\ committed'[l] = 0
        /\ \A p \in Persisters : persistAt'[p] = "idle"
    BY DEF Resume, NoCursor, diskVars
  <1>2. DiskInv' /\ \A l \in Levels : CursorSafe(l, cursor[l])'
    BY <1>1 DEF SafeInv, DiskInv, CursorSafe, ResumePoint, Saved
  <1> QED BY <1>1, <1>2, FreshSessionSafe

LEMMA InitSafe == Init => SafeInv
  <1> SUFFICES ASSUME Init PROVE SafeInv
    OBVIOUS
  <1>1. \A l \in Levels : /\ at[l] = "idle" /\ threw[l] = FALSE
                          /\ written[l] = 0 /\ committed[l] = 0
                          /\ cursor[l] = 0 /\ disk[l] = 0
    BY DEF Init, NoCursor
  <1>2. \A l \in Levels : CursorSafe(l, 0)
    BY SkippedFacts DEF CursorSafe, ResumePoint, Saved
  <1>3. ASSUME NEW l \in Levels PROVE LevelInv(l)
    BY <1>1, <1>2 DEF LevelInv, SessionInv, KeyedInv, CommitInv, StreamInv, Accepted
  <1>4. TrackedInv /\ DiskInv
    BY <1>1, <1>2 DEF Init, TrackedInv, DiskInv
  <1>5. \A p \in Persisters : persistAt[p] = "idle"
    BY DEF Init
  <1>6. PhaseInv /\ \A p \in Persisters : PersistInv(p)
    BY <1>5 DEF Init, PhaseInv, PersistInv, Persisters
  <1> QED BY <1>3, <1>4, <1>6 DEF SafeInv

LEMMA StutterSafe ==
    ASSUME BaseInv, SafeInv, UNCHANGED vars
    PROVE  SafeInv'
  <1>1. UNCHANGED <<levelVars, openTargets, persistVars, disk>> /\ phase' = phase
    BY DEF vars, diskVars
  <1>2. /\ \A l \in Levels : LevelInv(l)'
        /\ TrackedInv' /\ Keeps /\ StaysOpen
    BY <1>1, RunFrame
  <1>3. DiskInv' /\ \A q \in Persisters : PersistInv(q)'
    BY <1>1, <1>2, DiskKept, PersistKept
  <1>4. PhaseInv'
    BY <1>1 DEF SafeInv, PhaseInv, Threw, levelVars, persistVars
  <1> QED BY <1>2, <1>3, <1>4 DEF SafeInv

LEMMA NextSafe ==
    ASSUME Narrow, SafeTargets, BaseInv, SafeInv, [Next]_vars
    PROVE  SafeInv'
  <1>b. BaseInv'
    BY NextBase
  <1>1. ASSUME NEW l \in Levels, LevelStep(l) PROVE SafeInv'
    BY <1>b, <1>1, TrackSafe, TargetWriteSafe, RecordCursorSafe, PlaceSafe,
       CloseTargetSafe, UntrackSafe, StepDoneSafe DEF LevelStep
  <1>2. ASSUME NEW l \in Levels, LevelFails(l) PROVE SafeInv'
    BY <1>b, <1>2, TrackSafe, PlaceSafe DEF LevelFails
  <1>3. ASSUME NEW p \in Persisters, PersistStep(p) PROVE SafeInv'
    <2>1. CASE Clamp(p)
      <3>1. persistLevel[p] \in Levels
        BY <2>1 DEF BaseInv, AwaitsLevel, Clamp
      <3> QED BY <1>b, <2>1, <3>1, ClampSafe
    <2>2. CASE Land(p)
      BY <1>b, <1>3, <2>2, LandSafe DEF PersistStep
    <2> QED BY <1>3, <2>1, <2>2 DEF PersistStep
  <1>4. ASSUME NEW p \in Persisters, Alive, LandFails(p) PROVE SafeInv'
    BY <1>b, <1>4, LandSafe
  <1>5. CASE CompleteNested \/ Control \/ EndRun \/ Flush
    BY <1>b, <1>5, RunStepSafe
  <1>6. CASE Crash
    BY <1>6, CrashSafe
  <1>7. CASE Resume
    BY <1>b, <1>7, ResumeSafe
  <1>8. CASE UNCHANGED vars
    BY <1>8, StutterSafe
  <1> QED BY <1>1, <1>2, <1>3, <1>4, <1>5, <1>6, <1>7, <1>8 DEF Next

(* The inductive invariant holds throughout.                               *)
LEMMA SafeAlways ==
    ASSUME Narrow, SafeTargets
    PROVE  Spec => [](BaseInv /\ SafeInv)
  <1>1. Init => BaseInv /\ SafeInv
    BY InitBase, InitSafe
  <1>2. BaseInv /\ SafeInv /\ [Next]_vars => BaseInv' /\ SafeInv'
    BY NextBase, NextSafe
  <1> QED BY <1>1, <1>2, PTL DEF Spec

LEMMA SafeLosesNothing == BaseInv /\ SafeInv => ResumeLosesNothing
  <1> SUFFICES ASSUME BaseInv, SafeInv, NEW l \in Levels,
                      NEW x \in 1..ResumePoint(l, disk[l])
               PROVE  x \in Survivors(l)
    BY DEF ResumeLosesNothing
  <1>1. disk[l] \in Nat
    BY DEF BaseInv, TypeOK
  <1>2. ResumePoint(l, disk[l]) \in 0..P
    BY <1>1, SkippedFacts DEF ResumePoint
  <1>3. x \in 1..P /\ x <= ResumePoint(l, disk[l])
    BY <1>2, SkippedFacts
  <1>4. out[l][x] = x
    BY <1>3 DEF SafeInv, DiskInv, CursorSafe, Saved
  <1> QED BY <1>3, <1>4 DEF Survivors

LEMMA SafeIsComplete ==
    ASSUME SafeTargets
    PROVE  BaseInv /\ SafeInv => DoneIsComplete
  <1> SUFFICES ASSUME BaseInv, SafeInv, phase = "done", NEW l \in Levels
               PROVE  Survivors(l) = 1..P
    BY DEF DoneIsComplete
  <1>1. at[l] = "settled" /\ ~threw[l]
    BY DEF SafeInv, PhaseInv, Threw
  <1>2. LevelInv(l)
    BY DEF SafeInv
  <1>3. Accepted(l) = written[l] /\ Offset(l) + written[l] >= P
    BY <1>1, <1>2, PositionFacts DEF LevelInv, StreamInv
  <1>4. Saved(l, Offset(l) + written[l])
    <2>1. CASE Kind[l] = "keyed"
      BY <1>1, <1>2, <1>3, <2>1 DEF LevelInv, KeyedInv
    <2>2. CASE Kind[l] = "commit"
      <3>1. committed[l] = written[l] /\ Saved(l, Offset(l) + committed[l])
        BY <1>1, <1>2, <2>2 DEF LevelInv, CommitInv
      <3> QED BY <3>1
    <2> QED BY <2>1, <2>2 DEF SafeTargets
  <1>5. \A x \in 1..P : out[l][x] = x
    <2>1. Offset(l) \in Nat /\ written[l] \in Nat
      BY PositionFacts, SkippedFacts
    <2>2. \A x \in 1..P : x <= Offset(l) + written[l]
      BY <1>3, <2>1, SkippedFacts
    <2> QED BY <1>4, <2>2 DEF Saved
  <1> QED BY <1>5 DEF Survivors

(* A resume at any moment skips only envelopes whose output is durable, in *)
(* every pipeline whose steps do not fan out and whose targets are         *)
(* file-per-envelope ones, or a single append-only sink with checkpoint(). *)
THEOREM NothingLost ==
    ASSUME Narrow, SafeTargets
    PROVE  Spec => []ResumeLosesNothing
  <1>1. Spec => [](BaseInv /\ SafeInv)
    BY SafeAlways
  <1> QED BY <1>1, SafeLosesNothing, PTL

(* In the same pipelines a run that ends as done has left the output of    *)
(* every envelope behind, over all its failures, crashes and resumes.      *)
THEOREM NothingMissing ==
    ASSUME Narrow, SafeTargets
    PROVE  Spec => []DoneIsComplete
  <1>1. Spec => [](BaseInv /\ SafeInv)
    BY SafeAlways
  <1>2. BaseInv /\ SafeInv => DoneIsComplete
    BY SafeIsComplete
  <1> QED BY <1>1, <1>2, PTL

-----------------------------------------------------------------------------
(* DurableCursor implements AtLeastOnce, for the pipelines whose resumes   *)
(* lose nothing.                                                           *)

\* An envelope is found in its own slot only.
SlotInv == \A l \in Levels, x \in 1..P : out[l][x] \in {0, x}

LEMMA SurvivorSlots ==
    ASSUME SlotInv, NEW l \in Levels
    PROVE  Survivors(l) = {x \in 1..P : out[l][x] = x}
  <1>1. P \in Nat /\ \A x \in 1..P : x # 0
    BY SkippedFacts
  <1>2. ASSUME NEW x \in Survivors(l) PROVE x \in 1..P /\ out[l][x] = x
    <2>1. PICK k \in 1..P : out[l][k] = x /\ x # 0
      BY DEF Survivors
    <2> QED BY <2>1 DEF SlotInv
  <1>3. ASSUME NEW x \in 1..P, out[l][x] = x PROVE x \in Survivors(l)
    BY <1>1, <1>3 DEF Survivors
  <1> QED BY <1>2, <1>3

\* One slot is filled with its envelope, or a run of slots is.
LEMMA FilledSlots ==
    ASSUME BaseInv, SlotInv, NEW l \in Levels, NEW S,
           out' = [out EXCEPT ![l] = [k \in 1..P |-> IF k \in S THEN k ELSE @[k]]]
    PROVE  Keeps /\ SlotInv'
  <1>1. out \in [Levels -> [1..P -> 0..P]]
    BY DEF BaseInv, TypeOK
  <1>2. \A x \in 1..P : out'[l][x] = IF x \in S THEN x ELSE out[l][x]
    BY <1>1
  <1>3. \A m \in Levels : m # l => out'[m] = out[m]
    BY <1>1
  <1> QED BY <1>2, <1>3 DEF Keeps, SlotInv

LEMMA SameSlots ==
    ASSUME SlotInv, out' = out
    PROVE  Keeps /\ SlotInv'
  BY DEF SlotInv, Keeps

LEMMA TargetWriteSlots ==
    ASSUME SafeTargets, BaseInv, SlotInv, NEW l \in Levels, TargetWrite(l)
    PROVE  Keeps /\ SlotInv'
  <1>1. CASE Kind[l] = "keyed"
    <2> DEFINE piece == Offset(l) + written[l] + 1
    <2>1. out' = [out EXCEPT ![l][piece] = piece]
      BY <1>1 DEF TargetWrite, File
    <2>2. out \in [Levels -> [1..P -> 0..P]]
      BY DEF BaseInv, TypeOK
    <2> HIDE DEF piece
    <2>3. \A x \in 1..P : out'[l][x] = x \/ out'[l][x] = out[l][x]
      BY <2>1, <2>2
    <2>4. \A x \in 1..P : x = piece => out'[l][x] = x
      BY <2>1, <2>2
    <2>5. \A m \in Levels : m # l => out'[m] = out[m]
      BY <2>1, <2>2
    <2> QED BY <2>3, <2>4, <2>5 DEF Keeps, SlotInv
  <1>2. CASE Kind[l] = "commit"
    BY <1>2, SameSlots DEF TargetWrite
  <1> QED BY <1>1, <1>2 DEF SafeTargets

LEMMA CommitSlots ==
    ASSUME BaseInv, SlotInv, NEW l \in Levels, NEW c, CommitUpTo(l, c)
    PROVE  Keeps /\ SlotInv'
  BY FilledSlots DEF CommitUpTo

LEMMA NextSlots ==
    ASSUME SafeTargets, BaseInv, SlotInv, [Next]_vars
    PROVE  Keeps /\ SlotInv'
  <1>1. ASSUME NEW l \in Levels, LevelStep(l) \/ LevelFails(l) PROVE Keeps /\ SlotInv'
    <2>1. CASE CloseTarget(l)
      <3>1. out' = out \/ CommitUpTo(l, written[l])
        BY <2>1 DEF CloseTarget, SafeTargets
      <3> QED BY <3>1, SameSlots, CommitSlots
    <2>2. CASE TargetWrite(l)
      BY <2>2, TargetWriteSlots
    <2>3. CASE ~CloseTarget(l) /\ ~TargetWrite(l)
      <3>1. out' = out
        BY <1>1, <2>3 DEF LevelStep, LevelFails, OpenTarget, OpenTargetFails, Track,
           RecordCursor, EndOfStream, StreamThrows, CloseTargetFails, Untrack, StepDone,
           StepDoneFails
      <3> QED BY <3>1, SameSlots
    <2> QED BY <2>1, <2>2, <2>3
  <1>2. ASSUME NEW p \in Persisters, Clamp(p) PROVE Keeps /\ SlotInv'
    <2>1. persistLevel[p] \in Levels
      BY <1>2 DEF BaseInv, AwaitsLevel, Clamp
    <2>2. out' = out \/ \E c \in committed[persistLevel[p]]..Accepted(persistLevel[p]) :
                            CommitUpTo(persistLevel[p], c)
      BY <1>2 DEF Clamp
    <2> QED BY <2>1, <2>2, SameSlots, CommitSlots
  <1>3. ASSUME NEW p \in Persisters, Land(p) \/ LandFails(p) PROVE Keeps /\ SlotInv'
    BY <1>3, SameSlots DEF Land, LandFails, levelVars
  <1>4. CASE CompleteNested \/ Control \/ EndRun \/ Flush \/ Crash \/ Resume \/ UNCHANGED vars
    BY <1>4, SameSlots DEF CompleteNested, Control, EndRun, Flush, Crash, Resume, vars, levelVars
  <1> QED BY <1>1, <1>2, <1>3, <1>4 DEF Next, PersistStep

-----------------------------------------------------------------------------
(* The steps of the run seen from its output, its record and its end.      *)
Delivered == {e \in Levels \X (1..P) : e[2] \in Survivors(e[1])}

Promised == {e \in Levels \X (1..P) : e[2] <= ResumePoint(e[1], disk[e[1]])}

LEMMA KeepsDelivered ==
    ASSUME SlotInv, SlotInv', Keeps
    PROVE  Delivered \subseteq Delivered' /\ Delivered' \subseteq Levels \X (1..P)
  <1>1. \A l \in Levels : Survivors(l) = {x \in 1..P : out[l][x] = x}
    BY SurvivorSlots
  <1>2. \A l \in Levels : Survivors(l)' = {x \in 1..P : out'[l][x] = x}
    <2> SUFFICES ASSUME NEW l \in Levels
                 PROVE  Survivors(l)' = {x \in 1..P : out'[l][x] = x}
      OBVIOUS
    <2>1. P \in Nat /\ \A x \in 1..P : x # 0
      BY SkippedFacts
    <2>2. ASSUME NEW x \in Survivors(l)' PROVE x \in 1..P /\ out'[l][x] = x
      <3>1. PICK k \in 1..P : out'[l][k] = x /\ x # 0
        BY DEF Survivors
      <3> QED BY <3>1 DEF SlotInv
    <2>3. ASSUME NEW x \in 1..P, out'[l][x] = x PROVE x \in Survivors(l)'
      BY <2>1, <2>3 DEF Survivors
    <2> QED BY <2>2, <2>3
  <1> QED BY <1>1, <1>2 DEF Delivered, Keeps

\* What the record promises is delivered.
PromiseInv == Promised \subseteq Delivered

\* A run that is done has delivered everything.
DoneInv == phase = "done" => Delivered = Levels \X (1..P)

LEMMA SafePromise == BaseInv /\ SafeInv => PromiseInv
  <1> SUFFICES ASSUME BaseInv, SafeInv PROVE Promised \subseteq Delivered
    BY DEF PromiseInv
  <1>1. ResumeLosesNothing
    BY SafeLosesNothing
  <1>2. ASSUME NEW e \in Levels \X (1..P), e[2] <= ResumePoint(e[1], disk[e[1]])
        PROVE  e[2] \in Survivors(e[1])
    <2>1. e[1] \in Levels /\ e[2] \in 1..P
      OBVIOUS
    <2>2. disk[e[1]] \in Nat
      BY <2>1 DEF BaseInv, TypeOK
    <2>3. ResumePoint(e[1], disk[e[1]]) \in Nat
      BY <2>2, SkippedFacts DEF ResumePoint
    <2>4. e[2] \in 1..ResumePoint(e[1], disk[e[1]])
      BY <1>2, <2>1, <2>3, SkippedFacts
    <2> QED BY <1>1, <2>1, <2>4 DEF ResumeLosesNothing
  <1> QED BY <1>2 DEF Promised, Delivered

LEMMA SafeDone ==
    ASSUME SafeTargets
    PROVE  BaseInv /\ SafeInv => DoneInv
  <1> SUFFICES ASSUME BaseInv, SafeInv, phase = "done"
               PROVE  Delivered = Levels \X (1..P)
    BY DEF DoneInv
  <1>1. \A l \in Levels : Survivors(l) = 1..P
    BY SafeIsComplete DEF DoneIsComplete
  <1> QED BY <1>1 DEF Delivered

DeliveryInv == BaseInv /\ SafeInv /\ SlotInv /\ PromiseInv /\ DoneInv

LEMMA DeliveryAlways ==
    ASSUME Narrow, SafeTargets
    PROVE  Spec => []DeliveryInv
  <1>1. Init => BaseInv /\ SafeInv /\ SlotInv
    BY InitBase, InitSafe DEF Init, SlotInv
  <1>2. BaseInv /\ SafeInv /\ SlotInv /\ [Next]_vars => BaseInv' /\ SafeInv' /\ SlotInv'
    BY NextBase, NextSafe, NextSlots
  <1>3. BaseInv /\ SafeInv => PromiseInv /\ DoneInv
    BY SafePromise, SafeDone
  <1> QED BY <1>1, <1>2, <1>3, PTL DEF Spec, DeliveryInv

LEMMA InitDelivery == Init => Delivery!Init
  <1> SUFFICES ASSUME Init PROVE Delivery!Init
    OBVIOUS
  <1>1. \A l \in Levels : Survivors(l) = {}
    BY DEF Init, Survivors
  <1>2. \A l \in Levels : ResumePoint(l, disk[l]) = 0
    BY SkippedFacts DEF Init, NoCursor, ResumePoint
  <1>3. \A l \in Levels, x \in 1..P : ~(x <= ResumePoint(l, disk[l]))
    BY <1>2, SkippedFacts
  <1> QED BY <1>1, <1>3 DEF Init, Delivery!Init

\* A step that leaves the record and the end of the run alone delivers.
LEMMA DeliverStep ==
    ASSUME SlotInv, SlotInv', Keeps, disk' = disk, (phase = "done") = (phase' = "done")
    PROVE  Delivery!Next
  <1>1. Delivery!Deliver
    BY KeepsDelivered DEF Delivery!Deliver, Delivered, ResumePoint
  <1> QED BY <1>1 DEF Delivery!Next

\* A step that leaves the output alone moves the record, or ends the run.
LEMMA RecordStep ==
    ASSUME DeliveryInv, DeliveryInv', out' = out, phase = "done" => phase' = "done"
    PROVE  Delivery!Next
  <1>1. Delivered' = Delivered
    BY DEF Delivered, Survivors
  <1>2. Promised' \subseteq Delivered
    BY <1>1 DEF DeliveryInv, PromiseInv
  <1>3. CASE (phase = "done") = (phase' = "done")
    <2>1. Delivery!Promise
      BY <1>1, <1>2, <1>3 DEF Delivery!Promise, Delivered, Promised
    <2> QED BY <2>1 DEF Delivery!Next
  <1>4. CASE phase' = "done"
    <2>1. Delivered = Levels \X (1..P)
      BY <1>1, <1>4 DEF DeliveryInv, DoneInv
    <2>2. Delivery!Finish
      BY <1>1, <1>2, <1>4, <2>1 DEF Delivery!Finish, Delivered, Promised
    <2> QED BY <2>2 DEF Delivery!Next
  <1> QED BY <1>3, <1>4

LEMMA NextDelivery ==
    ASSUME SafeTargets, DeliveryInv, DeliveryInv', [Next]_vars
    PROVE  [Delivery!Next]_(Delivery!vars)
  <1>1. Keeps /\ SlotInv /\ SlotInv' /\ SafeInv
    BY NextSlots DEF DeliveryInv
  <1>2. ASSUME NEW l \in Levels, LevelStep(l) \/ LevelFails(l) PROVE Delivery!Next
    <2>1. UNCHANGED <<phase, disk>>
      BY <1>2 DEF LevelStep, LevelFails, OpenTarget, OpenTargetFails, Track, TargetWrite,
         RecordCursor, EndOfStream, StreamThrows, CloseTarget, CloseTargetFails, Untrack,
         StepDone, StepDoneFails, diskVars
    <2> QED BY <1>1, <2>1, DeliverStep
  <1>3. ASSUME NEW p \in Persisters, Clamp(p) PROVE Delivery!Next
    <2>1. UNCHANGED <<phase, disk>>
      BY <1>3 DEF Clamp, diskVars
    <2> QED BY <1>1, <2>1, DeliverStep
  <1>4. ASSUME NEW p \in Persisters, Land(p) \/ LandFails(p) PROVE Delivery!Next
    <2>1. out' = out /\ persistAt[p] # "idle"
      BY <1>4 DEF Land, LandFails, levelVars
    <2>2. phase = "done" => p # "main"
      BY <1>1, <2>1 DEF SafeInv, PhaseInv
    <2>3. phase = "done" => phase' = "done"
      BY <1>4, <2>2 DEF Land, LandFails, PersistReturns
    <2> QED BY <2>1, <2>3, RecordStep
  <1>5. CASE CompleteNested \/ Control \/ EndRun \/ Flush \/ Crash
    <2>1. out' = out /\ (phase = "done" => phase' = "done")
      BY <1>5 DEF CompleteNested, Control, EndRun, Flush, Crash, levelVars, Threw
    <2> QED BY <2>1, RecordStep
  <1>6. CASE Resume
    <2>1. phase' # "done" /\ UNCHANGED <<out, disk>>
      BY <1>6 DEF Resume, diskVars
    <2>2. Delivery!Reopen
      BY <2>1 DEF Delivery!Reopen, Survivors, ResumePoint
    <2> QED BY <2>2 DEF Delivery!Next
  <1>7. CASE UNCHANGED vars
    BY <1>7 DEF vars, levelVars, diskVars, Delivery!vars, Survivors, ResumePoint
  <1> QED BY <1>2, <1>3, <1>4, <1>5, <1>6, <1>7 DEF Next, PersistStep

(* Where no step fans out and the targets are file-per-envelope ones, or a *)
(* single append-only sink with checkpoint(), the runner delivers at least *)
(* once, over any failures, crashes, control calls and resumes.            *)
THEOREM AtLeastOnceDelivery ==
    ASSUME Narrow, SafeTargets
    PROVE  Spec => DeliversAtLeastOnce
  <1>1. Spec => []DeliveryInv
    BY DeliveryAlways
  <1>2. DeliveryInv /\ DeliveryInv' /\ [Next]_vars => [Delivery!Next]_(Delivery!vars)
    BY NextDelivery
  <1> QED BY <1>1, <1>2, InitDelivery, PTL DEF Spec, DeliversAtLeastOnce, Delivery!Spec
===============================================================================
