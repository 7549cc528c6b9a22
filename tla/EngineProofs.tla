----------------------------- MODULE EngineProofs -----------------------------
(***************************************************************************)
(* Proofs about the engine of a run.  The first part is about ToolStage,   *)
(* for any source, window, retry count and keys; the last is about         *)
(* RunControl, for any number of steps, of control calls and of sessions:  *)
(* type correctness, that the step loop only runs where the run may still  *)
(* finish, and that state.json says done only for a run all of whose steps *)
(* ran.                                                                    *)
(***************************************************************************)
EXTENDS ToolStage, RunControl, FiniteSetTheorems, SequenceTheorems, TLAPS

\* An item that waits for its next call has calls left; only a key is cached.
BackoffInv ==
    \A i \in Items :
        /\ item[i] = "backoff" => attempt[i] <= Max
        /\ item[i] = "lookup" => Key[i] # NoKey
        /\ item[i] = "caching" => Key[i] # NoKey

BaseInv == TypeOK /\ BackoffInv

\* The window holds the last items pulled, in order, behind the head.
Contiguous ==
    /\ Len(pending) <= pulled
    /\ \A k \in 1..Len(pending) : pending[k] = pulled - Len(pending) + k
    /\ head # 0 => head = pulled - Len(pending)

\* What the generator awaits fixes what it holds.
GenInv ==
    /\ pulled <= size
    /\ done => pulled = size
    /\ gen \in {"seeding", "awaiting", "yielded"} => head = 0
    /\ gen \in {"seeding", "awaiting", "pulling", "yielded"} => reason = "open"
    /\ gen \in {"releasing", "ended"} => reason # "open"
    /\ gen = "awaiting" => pending # <<>>
    /\ gen = "pulling" => head # 0 /\ ~done
    /\ gen = "yielded" /\ pending = <<>> => pulled = size
    /\ reason = "complete" => pulled = size /\ pending = <<>> /\ head = 0

\* There is room for the item the generator waits for.
RoomInv ==
    /\ Len(pending) <= Window
    /\ gen \in {"seeding", "pulling"} => Len(pending) < Window

WindowInv == Contiguous /\ GenInv /\ RoomInv

\* Only items of the window are worked on, later ones have not been started.
FlightInv ==
    \A i \in Items :
        /\ i > pulled => item[i] = "waiting"
        /\ item[i] \in Working => pulled - Len(pending) < i /\ i <= pulled

-----------------------------------------------------------------------------
LEMMA ConstantFacts ==
    /\ Count \in Nat /\ Window \in Nat /\ Window >= 1 /\ Max \in Nat
    /\ NoKey \notin Keys /\ Key \in [1..Count -> Keys \cup {NoKey}]
  BY StageConstants DEF StageConstants

(* Type correctness in two parts: of the generator and of the items.       *)
GenType ==
    /\ onError \in Policies
    /\ size \in 0..Count
    /\ gen \in {"seeding", "awaiting", "pulling", "yielded", "releasing", "ended"}
    /\ reason \in {"open", "complete", "failed", "closed"}
    /\ pulled \in 0..Count
    /\ done \in BOOLEAN
    /\ pending \in Seq(Items)
    /\ head \in 0..Count
    /\ out \in Seq(Items)

Stages == {"waiting"} \cup Working \cup Outcomes

ItemType ==
    /\ item \in [Items -> Stages]
    /\ attempt \in [Items -> 0..(Max + 1)]
    /\ fatal \in [Items -> BOOLEAN]
    /\ succeeded \subseteq Items
    /\ cache \subseteq Keys
    /\ deadLetters \in Seq(Items)

LEMMA TypeParts == TypeOK <=> GenType /\ ItemType
  BY DEF TypeOK, GenType, ItemType, Stages

LEMMA TypePartsNext == TypeOK' <=> GenType' /\ ItemType'
  BY DEF TypeOK, GenType, ItemType, Stages

LEMMA StageNames ==
    /\ {"waiting", "lookup", "invoking", "backoff", "caching", "deadLettering",
        "result", "dropped", "error"} = Stages
  BY DEF Stages, Working, Outcomes

LEMMA ItemNumbers == Items \subseteq 0..Count /\ Items \subseteq Int /\ 0 \in 0..Count
  BY ConstantFacts DEF Items

\* Resolving an item, by what becomes of it.
LEMMA ResolveType ==
    ASSUME GenType, NEW h \in Items, NEW w \in Seq(Items), NEW e \in BOOLEAN,
           Resolve(h, w, e)
    PROVE  /\ gen' \in {"awaiting", "yielded", "releasing", "ended"}
           /\ reason' \in {"open", "complete", "failed", "closed"}
           /\ head' \in 0..Count
           /\ out' \in Seq(Items)
  <1>1. Append(out, h) \in Seq(Items)
    BY AppendProperties DEF GenType
  <1>2. out' \in Seq(Items) /\ head' \in 0..Count
    BY <1>1, ItemNumbers DEF Resolve, GenType
  <1>3. /\ gen' \in {"awaiting", "yielded", "releasing", "ended"}
        /\ reason' \in {"open", "complete", "failed", "closed"}
    BY DEF Resolve, Loop, Leave, GenType
  <1> QED BY <1>2, <1>3

LEMMA InitBase == Init => BaseInv
  <1> SUFFICES ASSUME Init PROVE BaseInv
    OBVIOUS
  <1>e. <<>> \in Seq(Items) /\ 0 \in 0..Count
    BY ConstantFacts
  <1>1. GenType
    BY <1>e DEF Init, GenType
  <1>2. ItemType
    BY <1>e, ConstantFacts, StageNames DEF Init, ItemType
  <1>3. BackoffInv
    BY DEF Init, BackoffInv
  <1> QED BY <1>1, <1>2, <1>3, TypeParts DEF BaseInv

\* A step of the generator that starts no item.
LEMMA GenFrame ==
    ASSUME BaseInv, UNCHANGED <<inputs, item, itemVars>>, GenType'
    PROVE  BaseInv'
  <1>1. ItemType' /\ BackoffInv'
    BY TypeParts DEF BaseInv, ItemType, BackoffInv, itemVars
  <1> QED BY <1>1, TypePartsNext DEF BaseInv

LEMMA SourceYieldsBase ==
    ASSUME BaseInv, GenInv, SourceYields
    PROVE  BaseInv'
  <1>1. GenType /\ ItemType /\ BackoffInv
    BY TypeParts DEF BaseInv
  <1>2. /\ pulled + 1 \in Items /\ pulled + 1 \in 0..Count
        /\ Append(pending, pulled + 1) \in Seq(Items)
    <2>1. pulled + 1 \in Items /\ pulled + 1 \in 0..Count
      BY <1>1, ConstantFacts DEF SourceYields, GenType, Items
    <2> QED BY <1>1, <2>1, AppendProperties DEF GenType
  <1>3. /\ gen' \in {"seeding", "awaiting", "yielded", "releasing", "ended"}
        /\ reason' \in {"open", "complete", "failed", "closed"}
        /\ head' \in 0..Count
        /\ out' \in Seq(Items)
    <2>1. CASE gen = "seeding"
      BY <1>1, <2>1 DEF SourceYields, GenType
    <2>2. CASE gen = "pulling"
      <3>1. head \in Items /\ Resolve(head, Append(pending, pulled + 1), FALSE)
        <4>1. head \in Items
          BY <1>1, <2>2, ConstantFacts DEF GenType, GenInv, Items
        <4> QED BY <2>2, <4>1 DEF SourceYields
      <3> QED BY <1>1, <1>2, <3>1, ResolveType
    <2> QED BY <2>1, <2>2 DEF SourceYields
  <1>4. GenType'
    BY <1>1, <1>2, <1>3 DEF SourceYields, GenType, inputs
  <1>5. ItemType' /\ BackoffInv'
    BY <1>1, <1>2, ConstantFacts, StageNames DEF SourceYields, ItemType, BackoffInv
  <1> QED BY <1>4, <1>5, TypePartsNext DEF BaseInv

LEMMA SourceEndsBase ==
    ASSUME BaseInv, GenInv, SourceEnds
    PROVE  BaseInv'
  <1>1. GenType
    BY TypeParts DEF BaseInv
  <1>2. /\ gen' \in {"seeding", "awaiting", "yielded", "releasing", "ended"}
        /\ reason' \in {"open", "complete", "failed", "closed"}
        /\ head' \in 0..Count
        /\ out' \in Seq(Items)
    <2>1. CASE gen = "seeding"
      BY <1>1, <2>1 DEF SourceEnds, Seeded, Loop, GenType
    <2>2. CASE gen = "pulling"
      <3>1. head \in Items /\ pending \in Seq(Items) /\ Resolve(head, pending, TRUE)
        <4>1. head \in Items
          BY <1>1, <2>2, ConstantFacts DEF GenType, GenInv, Items
        <4> QED BY <1>1, <2>2, <4>1 DEF SourceEnds, GenType
      <3> QED BY <1>1, <3>1, ResolveType
    <2> QED BY <2>1, <2>2 DEF SourceEnds
  <1>3. GenType'
    BY <1>1, <1>2 DEF SourceEnds, GenType, inputs
  <1> QED BY <1>3, GenFrame DEF SourceEnds

LEMMA HeadSettlesBase ==
    ASSUME BaseInv, GenInv, HeadSettles
    PROVE  BaseInv'
  <1>1. GenType
    BY TypeParts DEF BaseInv
  <1>2. Head(pending) \in Items /\ Tail(pending) \in Seq(Items)
    BY <1>1, HeadTailProperties DEF HeadSettles, GenType, GenInv
  <1>3. /\ gen' \in {"pulling", "awaiting", "yielded", "releasing", "ended"}
        /\ reason' \in {"open", "complete", "failed", "closed"}
        /\ head' \in 0..Count
        /\ out' \in Seq(Items)
    <2>1. CASE done
      <3>1. Resolve(Head(pending), Tail(pending), TRUE)
        BY <2>1 DEF HeadSettles
      <3> QED BY <1>1, <1>2, <3>1, ResolveType
    <2>2. CASE ~done
      BY <1>1, <1>2, <2>2, ItemNumbers DEF HeadSettles, GenType
    <2> QED BY <2>1, <2>2
  <1>4. GenType'
    BY <1>1, <1>2, <1>3 DEF HeadSettles, GenType, inputs
  <1> QED BY <1>4, GenFrame DEF HeadSettles

LEMMA ConsumerBase ==
    ASSUME BaseInv, ConsumerNext \/ Release \/ SourceThrows \/ ConsumerLeaves
    PROVE  BaseInv'
  <1>1. GenType'
    BY TypeParts DEF BaseInv, GenType, inputs, ConsumerNext, Loop, Release, SourceThrows,
                     ConsumerLeaves, Leave
  <1> QED BY <1>1, GenFrame DEF ConsumerNext, Release, SourceThrows, ConsumerLeaves

LEMMA ItemBase ==
    ASSUME BaseInv, NEW i \in Items, ItemStep(i)
    PROVE  BaseInv'
  <1>1. GenType /\ ItemType /\ BackoffInv
    BY TypeParts DEF BaseInv
  <1>2. GenType'
    BY <1>1 DEF ItemStep, Lookup, Succeed, Throw, BackedOff, StoreResult, DeadLetter,
                GenType, inputs, genVars
  <1>3. ItemType' /\ BackoffInv'
    <2>1. CASE Lookup(i)
      <3>1. 1 \in 0..(Max + 1)
        BY ConstantFacts
      <3>2. CASE item' = [item EXCEPT ![i] = "result"] /\ UNCHANGED attempt
        BY <1>1, <2>1, <3>2, StageNames DEF Lookup, ItemType, BackoffInv
      <3>3. CASE /\ item' = [item EXCEPT ![i] = "invoking"]
                 /\ attempt' = [attempt EXCEPT ![i] = 1]
        BY <1>1, <2>1, <3>1, <3>3, StageNames DEF Lookup, ItemType, BackoffInv
      <3> QED BY <2>1, <3>2, <3>3 DEF Lookup
    <2>2. CASE Succeed(i)
      BY <1>1, <2>2, StageNames DEF Succeed, ItemType, BackoffInv
    <2>3. CASE Throw(i)
      <3>1. GivenUp[onError] \in {"error", "deadLettering", "dropped"}
        BY <1>1 DEF GivenUp, Policies, GenType
      <3> QED BY <1>1, <2>3, <3>1, StageNames DEF Throw, Retries, ItemType, BackoffInv
    <2>4. CASE BackedOff(i)
      <3>1. attempt[i] \in Nat /\ attempt[i] + 1 \in 0..(Max + 1)
        BY <1>1, <2>4, ConstantFacts DEF BackedOff, ItemType, BackoffInv
      <3> QED BY <1>1, <2>4, <3>1, StageNames DEF BackedOff, ItemType, BackoffInv
    <2>5. CASE StoreResult(i)
      <3>1. Key[i] \in Keys
        BY <1>1, <2>5, ConstantFacts DEF StoreResult, BackoffInv, Items
      <3>2. cache' \subseteq Keys
        BY <1>1, <2>5, <3>1 DEF StoreResult, ItemType
      <3> QED BY <1>1, <2>5, <3>2, StageNames DEF StoreResult, ItemType, BackoffInv
    <2>6. CASE DeadLetter(i)
      <3>1. deadLetters' \in Seq(Items)
        <4>1. deadLetters \in Seq(Items) /\ Append(deadLetters, i) \in Seq(Items)
          BY <1>1, AppendProperties DEF ItemType
        <4> QED BY <2>6, <4>1 DEF DeadLetter
      <3> QED BY <1>1, <2>6, <3>1, StageNames DEF DeadLetter, ItemType, BackoffInv
    <2> QED BY <2>1, <2>2, <2>3, <2>4, <2>5, <2>6 DEF ItemStep
  <1> QED BY <1>2, <1>3, TypePartsNext DEF BaseInv

-----------------------------------------------------------------------------
(* The window.                                                             *)
LEMMA ResolveWindow ==
    ASSUME BaseInv', NEW h \in Items, NEW w \in Seq(Items), NEW e \in BOOLEAN,
           Resolve(h, w, e), pending' = w, done' = e, reason = "open",
           pulled' <= size', e => pulled' = size', w = <<>> => e,
           h = pulled' - Len(w)
    PROVE  /\ GenInv'
           /\ head' # 0 => head' = pulled' - Len(pending')
           /\ gen' \notin {"seeding", "pulling"}
  <1>1. CASE item[h] = "error" /\ head' = h /\ reason' = "failed" /\ Leave(e)
    BY <1>1 DEF Leave, GenInv
  <1>2. CASE head' = 0 /\ Loop(w)
    BY <1>2 DEF Loop, GenInv
  <1>3. CASE head' = 0 /\ gen' = "yielded" /\ reason' = reason
    BY <1>3 DEF GenInv
  <1> QED BY <1>1, <1>2, <1>3 DEF Resolve

LEMMA SourceYieldsWindow ==
    ASSUME BaseInv, BaseInv', WindowInv, SourceYields
    PROVE  WindowInv'
  <1>1. GenType /\ Contiguous /\ GenInv /\ RoomInv
    BY TypeParts DEF BaseInv, WindowInv
  <1> DEFINE w == Append(pending, pulled + 1)
  <1>2. /\ pulled' = pulled + 1 /\ pending' = w /\ pulled < size
        /\ UNCHANGED <<size, done>>
        /\ pulled \in Nat /\ size \in Nat /\ pulled + 1 \in Items
    BY <1>1, ConstantFacts DEF SourceYields, inputs, GenType, Items
  <1>3. /\ w \in Seq(Items) /\ w # <<>> /\ Len(w) = Len(pending) + 1
        /\ \A k \in 1..Len(pending) : w[k] = pending[k]
        /\ w[Len(pending) + 1] = pulled + 1
    BY <1>1, <1>2, AppendProperties DEF GenType
  <1>4. Len(pending) \in Nat
    BY <1>1 DEF GenType
  <1>5. ~done
    BY <1>1, <1>2 DEF GenInv
  <1> HIDE DEF w
  <1>6. /\ Len(pending') <= pulled'
        /\ \A k \in 1..Len(pending') : pending'[k] = pulled' - Len(pending') + k
    <2>1. Len(pending') <= pulled'
      BY <1>1, <1>2, <1>3, <1>4 DEF Contiguous
    <2>2. ASSUME NEW k \in 1..Len(pending')
          PROVE  pending'[k] = pulled' - Len(pending') + k
      <3>1. CASE k \in 1..Len(pending)
        BY <1>1, <1>2, <1>3, <1>4, <3>1 DEF Contiguous
      <3>2. CASE k = Len(pending) + 1
        BY <1>2, <1>3, <1>4, <3>2
      <3> QED BY <1>2, <1>3, <1>4, <3>1, <3>2
    <2> QED BY <2>1, <2>2
  <1>7. CASE gen = "seeding"
    <2>1. /\ gen' = IF Len(w) >= Window THEN "awaiting" ELSE "seeding"
          /\ UNCHANGED <<reason, head, out>>
      BY <1>7 DEF SourceYields, Filled, w
    <2>2. head' = 0 /\ reason' = "open"
      BY <1>1, <1>7, <2>1 DEF GenInv
    <2>3. GenInv'
      BY <1>2, <1>3, <1>5, <2>1, <2>2 DEF GenInv
    <2>4. RoomInv'
      BY <1>1, <1>2, <1>3, <1>4, <1>7, <2>1, ConstantFacts DEF RoomInv
    <2> QED BY <1>6, <2>2, <2>3, <2>4 DEF WindowInv, Contiguous
  <1>8. CASE gen = "pulling"
    <2>1. head \in Items /\ reason = "open" /\ head = pulled' - Len(w)
      <3>1. head # 0 /\ reason = "open" /\ head \in 0..Count
        BY <1>1, <1>8 DEF GenInv, GenType
      <3>2. head \in Items
        BY <3>1, ConstantFacts DEF Items
      <3>3. head = pulled - Len(pending)
        BY <1>1, <3>1 DEF Contiguous
      <3> QED BY <1>2, <1>3, <1>4, <3>1, <3>2, <3>3
    <2>2. Resolve(head, w, FALSE)
      BY <1>8 DEF SourceYields, w
    <2>3. /\ GenInv'
          /\ head' # 0 => head' = pulled' - Len(pending')
          /\ gen' \notin {"seeding", "pulling"}
      <3>1. done' = FALSE /\ pulled' <= size'
        BY <1>1, <1>2, <1>5 DEF GenType
      <3> QED BY <1>2, <1>3, <2>1, <2>2, <3>1, ResolveWindow
    <2>4. RoomInv'
      BY <1>1, <1>2, <1>3, <1>4, <1>8, <2>3, ConstantFacts DEF RoomInv
    <2> QED BY <1>6, <2>3, <2>4 DEF WindowInv, Contiguous
  <1> QED BY <1>7, <1>8 DEF SourceYields

LEMMA SourceEndsWindow ==
    ASSUME BaseInv, BaseInv', WindowInv, SourceEnds
    PROVE  WindowInv'
  <1>1. GenType /\ Contiguous /\ GenInv /\ RoomInv
    BY TypeParts DEF BaseInv, WindowInv
  <1>2. /\ done' = TRUE /\ pulled = size
        /\ UNCHANGED <<size, pulled, pending>>
        /\ pulled \in Nat /\ pending \in Seq(Items) /\ Len(pending) \in Nat
    BY <1>1 DEF SourceEnds, inputs, GenType
  <1>3. CASE gen = "seeding"
    <2>1. Loop(pending) /\ head' = head /\ head = 0 /\ reason = "open"
      BY <1>1, <1>3 DEF SourceEnds, Seeded, GenInv
    <2>2. GenInv' /\ gen' \notin {"seeding", "pulling"}
      BY <1>2, <2>1 DEF Loop, GenInv
    <2> QED BY <1>1, <1>2, <2>1, <2>2 DEF WindowInv, Contiguous, RoomInv
  <1>4. CASE gen = "pulling"
    <2>1. head \in Items /\ reason = "open" /\ head = pulled' - Len(pending)
      BY <1>1, <1>2, <1>4, ConstantFacts DEF GenInv, Contiguous, GenType, Items
    <2>2. Resolve(head, pending, TRUE)
      BY <1>4 DEF SourceEnds
    <2>3. /\ GenInv'
          /\ head' # 0 => head' = pulled' - Len(pending')
          /\ gen' \notin {"seeding", "pulling"}
      <3>1. pulled' <= size' /\ pulled' = size'
        BY <1>2
      <3> QED BY <1>2, <2>1, <2>2, <3>1, ResolveWindow
    <2> QED BY <1>1, <1>2, <2>3 DEF WindowInv, Contiguous, RoomInv
  <1> QED BY <1>3, <1>4 DEF SourceEnds

LEMMA HeadSettlesWindow ==
    ASSUME BaseInv, BaseInv', WindowInv, HeadSettles
    PROVE  WindowInv'
  <1>1. GenType /\ Contiguous /\ GenInv /\ RoomInv
    BY TypeParts DEF BaseInv, WindowInv
  <1> DEFINE w == Tail(pending)
  <1>2. /\ pending' = w /\ UNCHANGED <<size, pulled, done>>
        /\ gen = "awaiting" /\ reason = "open" /\ pending # <<>>
        /\ pulled \in Nat /\ pending \in Seq(Items) /\ done \in BOOLEAN
    BY <1>1 DEF HeadSettles, inputs, GenType, GenInv
  <1>3. /\ w \in Seq(Items) /\ Len(w) = Len(pending) - 1 /\ Len(pending) \in Nat
        /\ Len(pending) >= 1
        /\ Head(pending) = pending[1] /\ Head(pending) \in Items
        /\ \A k \in 1..Len(w) : w[k] = pending[k + 1]
    BY <1>2, HeadTailProperties
  <1>4. Head(pending) = pulled - Len(w)
    BY <1>1, <1>2, <1>3 DEF Contiguous
  <1> HIDE DEF w
  <1>5. /\ Len(pending') <= pulled'
        /\ \A k \in 1..Len(pending') : pending'[k] = pulled' - Len(pending') + k
    <2>1. ASSUME NEW k \in 1..Len(w) PROVE w[k] = pulled - Len(w) + k
      <3>1. k + 1 \in 1..Len(pending)
        BY <1>3
      <3> QED BY <1>1, <1>2, <1>3, <3>1 DEF Contiguous
    <2> QED BY <1>1, <1>2, <1>3, <2>1 DEF Contiguous
  <1>6. CASE done
    <2>1. Resolve(Head(pending), w, TRUE)
      BY <1>6 DEF HeadSettles, w
    <2>2. pulled' <= size' /\ pulled' = size'
      BY <1>1, <1>2, <1>6 DEF GenInv
    <2>3. /\ GenInv'
          /\ head' # 0 => head' = pulled' - Len(pending')
          /\ gen' \notin {"seeding", "pulling"}
      BY <1>2, <1>3, <1>4, <1>6, <2>1, <2>2, ResolveWindow
    <2>4. RoomInv'
      BY <1>1, <1>2, <1>3, <2>3, ConstantFacts DEF RoomInv
    <2> QED BY <1>5, <2>3, <2>4 DEF WindowInv, Contiguous
  <1>7. CASE ~done
    <2>1. gen' = "pulling" /\ head' = Head(pending) /\ reason' = reason
      BY <1>7 DEF HeadSettles
    <2>2. head' # 0
      BY <1>3, <2>1, ConstantFacts DEF Items
    <2>3. GenInv'
      BY <1>1, <1>2, <1>7, <2>1, <2>2 DEF GenInv
    <2>4. RoomInv'
      BY <1>1, <1>2, <1>3, <2>1, ConstantFacts DEF RoomInv
    <2>5. head' = pulled' - Len(pending')
      BY <1>2, <1>4, <2>1
    <2> QED BY <1>5, <2>3, <2>4, <2>5 DEF WindowInv, Contiguous
  <1> QED BY <1>6, <1>7

LEMMA ConsumerWindow ==
    ASSUME BaseInv, WindowInv, ConsumerNext \/ Release \/ SourceThrows \/ ConsumerLeaves
    PROVE  WindowInv'
  <1>1. GenType /\ Contiguous /\ GenInv /\ RoomInv
    BY TypeParts DEF BaseInv, WindowInv
  <1>2. UNCHANGED <<size, pulled, pending, head, done>>
    BY DEF ConsumerNext, Release, SourceThrows, ConsumerLeaves, inputs
  <1>3. GenInv' /\ gen' \notin {"seeding", "pulling"}
    BY <1>1, <1>2 DEF ConsumerNext, Release, SourceThrows, ConsumerLeaves, Loop, Leave, GenInv
  <1> QED BY <1>1, <1>2, <1>3 DEF WindowInv, Contiguous, RoomInv

LEMMA WindowFrame ==
    ASSUME WindowInv, UNCHANGED <<inputs, genVars>>
    PROVE  WindowInv'
  BY DEF WindowInv, Contiguous, GenInv, RoomInv, inputs, genVars

-----------------------------------------------------------------------------
(* The inductive invariant so far, and what it says about the window.      *)
StageInv == BaseInv /\ WindowInv /\ FlightInv

LEMMA InitStage == Init => StageInv
  <1> SUFFICES ASSUME Init PROVE StageInv
    OBVIOUS
  <1>1. Len(pending) = 0 /\ pending = <<>>
    BY DEF Init
  <1>2. Contiguous
    BY <1>1 DEF Init, Contiguous
  <1>3. GenInv
    BY <1>1, ConstantFacts DEF Init, GenInv
  <1>4. RoomInv
    BY <1>1, ConstantFacts DEF Init, RoomInv
  <1>5. FlightInv
    BY DEF Init, FlightInv, Working
  <1> QED BY <1>2, <1>3, <1>4, <1>5, InitBase DEF StageInv, WindowInv

\* A step of the generator that starts no item leaves them where they are.
LEMMA FlightFrame ==
    ASSUME BaseInv, FlightInv, UNCHANGED <<pulled, item>>,
           Len(pending') = Len(pending)
               \/ (Len(pending') = Len(pending) - 1 /\ Settled(Head(pending))
                   /\ Head(pending) = pulled - Len(pending) + 1)
    PROVE  FlightInv'
  <1>1. GenType
    BY TypeParts DEF BaseInv
  <1>2. /\ pulled \in Nat /\ Len(pending) \in Nat
        /\ \A i \in Items : i \in Int
    BY <1>1, ItemNumbers DEF GenType
  <1>3. Settled(Head(pending)) => item[Head(pending)] \notin Working
    BY DEF Settled, Outcomes, Working
  <1> SUFFICES ASSUME NEW i \in Items
               PROVE  /\ i > pulled => item[i] = "waiting"
                      /\ item[i] \in Working => pulled - Len(pending') < i /\ i <= pulled
    BY DEF FlightInv
  <1> QED BY <1>2, <1>3 DEF FlightInv

LEMMA SourceYieldsFlight ==
    ASSUME BaseInv, FlightInv, SourceYields
    PROVE  FlightInv'
  <1>1. GenType /\ ItemType
    BY TypeParts DEF BaseInv
  <1>2. /\ pulled' = pulled + 1 /\ pending' = Append(pending, pulled + 1)
        /\ pulled \in Nat /\ pulled + 1 \in Items
    BY <1>1, ConstantFacts DEF SourceYields, GenType, Items
  <1>3. Len(pending') = Len(pending) + 1 /\ Len(pending) \in Nat
    BY <1>1, <1>2, AppendProperties DEF GenType
  <1>4. \A i \in Items : i # pulled + 1 => item'[i] = item[i]
    BY <1>1 DEF SourceYields, ItemType
  <1> SUFFICES ASSUME NEW i \in Items
               PROVE  (/\ i > pulled => item[i] = "waiting"
                       /\ item[i] \in Working => pulled - Len(pending) < i /\ i <= pulled)'
    BY DEF FlightInv
  <1>5. i \in Int
    BY ItemNumbers
  <1>6. CASE i = pulled + 1
    BY <1>2, <1>3, <1>6
  <1>7. CASE i # pulled + 1
    BY <1>2, <1>3, <1>4, <1>5, <1>7 DEF FlightInv
  <1> QED BY <1>6, <1>7

LEMMA ItemFlight ==
    ASSUME BaseInv, FlightInv, NEW i \in Items, ItemStep(i)
    PROVE  FlightInv'
  <1>1. ItemType
    BY TypeParts DEF BaseInv
  <1>2. item[i] \in Working /\ UNCHANGED <<pulled, pending>>
    BY DEF ItemStep, Lookup, Succeed, Throw, BackedOff, StoreResult, DeadLetter,
           genVars, Working
  <1>3. \A j \in Items : j # i => item'[j] = item[j]
    BY <1>1 DEF ItemStep, Lookup, Succeed, Throw, BackedOff, StoreResult, DeadLetter, ItemType
  <1>4. pulled - Len(pending) < i /\ i <= pulled
    BY <1>2 DEF FlightInv
  <1>5. pulled \in Nat /\ i \in Int
    BY ItemNumbers DEF BaseInv, TypeOK
  <1> SUFFICES ASSUME NEW j \in Items
               PROVE  (/\ j > pulled => item[j] = "waiting"
                       /\ item[j] \in Working => pulled - Len(pending) < j /\ j <= pulled)'
    BY DEF FlightInv
  <1> QED BY <1>2, <1>3, <1>4, <1>5 DEF FlightInv

LEMMA NextStage == StageInv /\ [Next]_vars => StageInv'
  <1> SUFFICES ASSUME StageInv, [Next]_vars PROVE StageInv'
    OBVIOUS
  <1> USE DEF StageInv
  <1>1. GenInv /\ Contiguous
    BY DEF WindowInv
  <1>2. CASE SourceYields
    BY <1>1, <1>2, SourceYieldsBase, SourceYieldsWindow, SourceYieldsFlight
  <1>3. CASE SourceEnds
    <2>1. UNCHANGED <<pulled, pending, item>>
      BY <1>3 DEF SourceEnds
    <2> QED BY <1>1, <1>3, <2>1, SourceEndsBase, SourceEndsWindow, FlightFrame
  <1>4. CASE HeadSettles
    <2>1. /\ UNCHANGED <<pulled, item>> /\ pending' = Tail(pending)
          /\ Settled(Head(pending)) /\ pending # <<>>
      BY <1>1, <1>4 DEF HeadSettles, GenInv
    <2>2. pending \in Seq(Items) /\ pulled \in Nat
      BY DEF BaseInv, TypeOK
    <2>3. /\ Len(Tail(pending)) = Len(pending) - 1
          /\ Head(pending) = pending[1] /\ Len(pending) \in Nat /\ Len(pending) >= 1
      BY <2>1, <2>2, HeadTailProperties
    <2>4. Head(pending) = pulled - Len(pending) + 1
      BY <1>1, <2>2, <2>3 DEF Contiguous
    <2> QED BY <1>1, <1>4, <2>1, <2>3, <2>4, HeadSettlesBase, HeadSettlesWindow, FlightFrame
  <1>5. CASE ConsumerNext \/ Release \/ SourceThrows \/ ConsumerLeaves
    <2>1. UNCHANGED <<pulled, pending, item>>
      BY <1>5 DEF ConsumerNext, Release, SourceThrows, ConsumerLeaves
    <2> QED BY <1>5, <2>1, ConsumerBase, ConsumerWindow, FlightFrame
  <1>6. ASSUME NEW i \in Items, ItemStep(i) PROVE StageInv'
    <2>1. UNCHANGED <<inputs, genVars>>
      BY <1>6 DEF ItemStep, Lookup, Succeed, Throw, BackedOff, StoreResult, DeadLetter
    <2> QED BY <1>6, <2>1, ItemBase, WindowFrame, ItemFlight
  <1>7. CASE UNCHANGED vars
    BY <1>7 DEF vars, inputs, genVars, itemVars, BaseInv, TypeOK, BackoffInv, WindowInv,
                Contiguous, GenInv, RoomInv, FlightInv
  <1> QED BY <1>2, <1>3, <1>4, <1>5, <1>6, <1>7 DEF Next, GenStep

LEMMA StageAlways == Spec => []StageInv
  BY InitStage, NextStage, PTL DEF Spec

(* Every reachable state of a tool stage is well typed (runTool).          *)
THEOREM TypeCorrect == Spec => []TypeOK
  <1>1. StageInv => TypeOK
    BY DEF StageInv, BaseInv
  <1> QED BY <1>1, StageAlways, PTL

(* Never more than Window items are being worked on, for any Window, and   *)
(* whether or not the stage has ended (mapConcurrent).                     *)
THEOREM WindowHolds == Spec => []WindowIsBounded
  <1>1. StageInv => WindowIsBounded
    <2> SUFFICES ASSUME StageInv PROVE Cardinality(InFlight) <= Window
      BY DEF WindowIsBounded
    <2>1. /\ pulled \in Nat /\ Len(pending) \in Nat /\ Len(pending) <= Window
          /\ Window \in Nat
      BY ConstantFacts DEF StageInv, BaseInv, TypeOK, WindowInv, RoomInv
    <2> DEFINE S == (pulled - Len(pending) + 1)..pulled
    <2>2. IsFiniteSet(S) /\ Cardinality(S) = Len(pending)
      <3>1. pulled - Len(pending) + 1 \in Int /\ pulled \in Int
        BY <2>1
      <3>2. /\ IsFiniteSet(S)
            /\ Cardinality(S) = IF pulled - Len(pending) + 1 > pulled THEN 0
                                ELSE pulled - (pulled - Len(pending) + 1) + 1
        BY ONLY <3>1, FS_Interval
      <3> QED BY ONLY <2>1, <3>2
    <2>3. InFlight \subseteq S
      <3> SUFFICES ASSUME NEW i \in Items, item[i] \in Working PROVE i \in S
        BY DEF InFlight
      <3>1. pulled - Len(pending) < i /\ i <= pulled /\ i \in Int
        BY ItemNumbers DEF StageInv, FlightInv
      <3> QED BY <2>1, <3>1
    <2>4. Cardinality(InFlight) <= Cardinality(S)
      BY <2>2, <2>3, FS_Subset
    <2>5. Cardinality(InFlight) \in Nat
      BY <2>2, <2>3, FS_Subset, FS_CardinalityType
    <2> QED BY <2>1, <2>2, <2>4, <2>5
  <1> QED BY <1>1, StageAlways, PTL

-----------------------------------------------------------------------------
(* The stage implements the sequential one.                                *)
Dropped == {i \in Items : item[i] = "dropped"}

LEMMA GivenType ==
    ASSUME StageInv
    PROVE  Given \in Nat /\ pulled \in Nat /\ size \in Nat /\ Len(pending) \in Nat
  <1>1. /\ pulled \in Nat /\ size \in Nat /\ Len(pending) \in Nat
        /\ head \in Nat /\ Len(pending) <= pulled
        /\ head # 0 => head = pulled - Len(pending)
    BY ConstantFacts DEF StageInv, BaseInv, TypeOK, WindowInv, Contiguous
  <1> QED BY <1>1 DEF Given

LEMMA ResolveStep ==
    ASSUME StageInv, StageInv', NEW h \in Items, NEW w \in Seq(Items), NEW e \in BOOLEAN,
           Resolve(h, w, e), reason = "open", pending' = w, size' = size,
           Dropped' = Dropped, Given = h - 1, h = pulled' - Len(w)
    PROVE  Sequential!Next
  <1>1. /\ Given \in Nat /\ pulled' \in Nat /\ size \in Nat /\ Len(w) \in Nat
        /\ h \in Nat /\ h # 0 /\ pulled' <= size
    <2>1. Given \in Nat /\ size \in Nat /\ Len(w) \in Nat
      BY GivenType
    <2>2. h \in Nat /\ h # 0
      BY ConstantFacts DEF Items
    <2>3. pulled' \in Nat /\ pulled' <= size'
      BY ConstantFacts DEF StageInv, BaseInv, TypeOK, WindowInv, GenInv
    <2> QED BY <2>1, <2>2, <2>3
  <1>2. h <= size /\ h \in 1..size
    BY <1>1
  <1>3. CASE item[h] = "error" /\ head' = h /\ reason' = "failed" /\ UNCHANGED out
    <2>1. Given' = Given
      BY <1>1, <1>3 DEF Given
    <2>2. Sequential!Stop
      BY <1>3, <2>1 DEF Sequential!Stop, Dropped
    <2> QED BY <2>2 DEF Sequential!Next
  <1>4. CASE item[h] = "dropped" /\ head' = 0 /\ Loop(w) /\ UNCHANGED out
    <2>1. Given' = Given + 1 /\ Given' = h
      BY <1>1, <1>4 DEF Given
    <2>2. reason' = "open" \/ (Given' = size /\ reason' = "complete")
      <3>1. CASE w = <<>>
        <4>1. reason' = "complete" /\ Len(w) = 0
          BY <1>4, <3>1 DEF Loop
        <4>2. pulled' = size'
          BY <4>1 DEF StageInv, WindowInv, GenInv
        <4> QED BY <1>1, <2>1, <4>1, <4>2
      <3>2. CASE w # <<>>
        BY <1>4, <3>2 DEF Loop
      <3> QED BY <3>1, <3>2
    <2>3. h \in Dropped
      BY <1>4 DEF Dropped
    <2>4. Sequential!Turn(h)
      BY <1>1, <1>2 DEF Sequential!Turn
    <2>5. Sequential!PassOver
      BY <1>4, <2>1, <2>2, <2>3, <2>4 DEF Sequential!PassOver, Dropped
    <2> QED BY <2>5 DEF Sequential!Next
  <1>5. CASE item[h] = "result" /\ head' = 0 /\ out' = Append(out, h) /\ UNCHANGED reason
    <2>1. Given' = Given + 1
      BY <1>1, <1>5 DEF Given
    <2>2. h \notin Dropped
      BY <1>5 DEF Dropped
    <2>3. Sequential!Turn(h)
      BY <1>1, <1>2 DEF Sequential!Turn
    <2>4. Sequential!PassOn
      BY <1>2, <1>5, <2>1, <2>2, <2>3 DEF Sequential!PassOn, Dropped
    <2> QED BY <2>4 DEF Sequential!Next
  <1> QED BY <1>3, <1>4, <1>5 DEF Resolve

\* The loop goes on, or ends with every item given.
LEMMA LoopStep ==
    ASSUME StageInv, StageInv', Loop(pending), reason = "open", head = 0,
           UNCHANGED <<size, pulled, pending, head, out, item>>
    PROVE  [Sequential!Next]_(Sequential!vars)
  <1>1. Given' = Given /\ Dropped' = Dropped
    BY DEF Given, Dropped
  <1>2. CASE pending = <<>>
    <2>1. reason' = "complete" /\ Len(pending) = 0
      BY <1>2 DEF Loop
    <2>2. pulled' = size'
      BY <2>1 DEF StageInv, WindowInv, GenInv
    <2>3. Given = size
      BY <2>1, <2>2, GivenType DEF Given
    <2>4. Sequential!Complete
      BY <1>1, <2>1, <2>3 DEF Sequential!Complete, Dropped
    <2> QED BY <2>4 DEF Sequential!Next
  <1>3. CASE pending # <<>>
    BY <1>1, <1>3 DEF Loop, Sequential!vars, Dropped
  <1> QED BY <1>2, <1>3

LEMMA SourceYieldsStep ==
    ASSUME StageInv, StageInv', SourceYields
    PROVE  [Sequential!Next]_(Sequential!vars)
  <1>1. GenType /\ ItemType /\ GenInv /\ Contiguous /\ FlightInv
    BY TypeParts DEF StageInv, BaseInv, WindowInv
  <1> DEFINE w == Append(pending, pulled + 1)
  <1>2. /\ pulled' = pulled + 1 /\ pending' = w /\ size' = size
        /\ pulled \in Nat /\ pulled + 1 \in Items
    BY <1>1, ConstantFacts DEF SourceYields, GenType, Items, inputs
  <1>3. w \in Seq(Items) /\ Len(w) = Len(pending) + 1 /\ Len(pending) \in Nat
    BY <1>1, <1>2, AppendProperties DEF GenType
  <1>4. Dropped' = Dropped
    <2>1. item[pulled + 1] = "waiting"
      BY <1>1, <1>2 DEF FlightInv
    <2>2. item'[pulled + 1] \in {"invoking", "lookup"}
      BY <1>1, <1>2 DEF SourceYields, ItemType
    <2>3. \A i \in Items : i # pulled + 1 => item'[i] = item[i]
      BY <1>1 DEF SourceYields, ItemType
    <2> QED BY <2>1, <2>2, <2>3 DEF Dropped
  <1> HIDE DEF w
  <1>5. CASE gen = "seeding"
    <2>1. UNCHANGED <<reason, head, out>> /\ head = 0
      BY <1>1, <1>5 DEF SourceYields, GenInv
    <2>2. Given' = Given
      BY <1>2, <1>3, <2>1 DEF Given
    <2> QED BY <1>2, <1>4, <2>1, <2>2 DEF Sequential!vars, Dropped
  <1>6. CASE gen = "pulling"
    <2>1. head # 0 /\ reason = "open" /\ head \in 0..Count /\ head = pulled - Len(pending)
      BY <1>1, <1>6 DEF GenInv, GenType, Contiguous
    <2>2. head \in Items
      BY <2>1, ConstantFacts DEF Items
    <2>3. Given = head - 1 /\ head = pulled' - Len(w)
      BY <1>2, <1>3, <2>1 DEF Given
    <2>4. Resolve(head, w, FALSE)
      BY <1>6 DEF SourceYields, w
    <2> QED BY <1>2, <1>3, <1>4, <2>1, <2>2, <2>3, <2>4, ResolveStep
  <1> QED BY <1>5, <1>6 DEF SourceYields

LEMMA SourceEndsStep ==
    ASSUME StageInv, StageInv', SourceEnds
    PROVE  [Sequential!Next]_(Sequential!vars)
  <1>1. GenType /\ GenInv /\ Contiguous
    BY TypeParts DEF StageInv, BaseInv, WindowInv
  <1>2. UNCHANGED <<size, pulled, pending, item>> /\ Dropped' = Dropped
    BY DEF SourceEnds, inputs, Dropped
  <1>3. CASE gen = "seeding"
    BY <1>1, <1>2, <1>3, LoopStep DEF SourceEnds, Seeded, GenInv
  <1>4. CASE gen = "pulling"
    <2>1. /\ head # 0 /\ reason = "open" /\ head \in 0..Count
          /\ head = pulled - Len(pending) /\ pulled \in Nat /\ Len(pending) \in Nat
          /\ pending \in Seq(Items)
      BY <1>1, <1>4 DEF GenInv, GenType, Contiguous
    <2>2. head \in Items
      BY <2>1, ConstantFacts DEF Items
    <2>3. Given = head - 1 /\ head = pulled' - Len(pending)
      BY <1>2, <2>1 DEF Given
    <2>4. Resolve(head, pending, TRUE)
      BY <1>4 DEF SourceEnds
    <2> QED BY <1>2, <2>1, <2>2, <2>3, <2>4, ResolveStep
  <1> QED BY <1>3, <1>4 DEF SourceEnds

LEMMA HeadSettlesStep ==
    ASSUME StageInv, StageInv', HeadSettles
    PROVE  [Sequential!Next]_(Sequential!vars)
  <1>1. GenType /\ GenInv /\ Contiguous
    BY TypeParts DEF StageInv, BaseInv, WindowInv
  <1> DEFINE w == Tail(pending)
  <1>2. /\ pending' = w /\ UNCHANGED <<size, pulled, item>> /\ Dropped' = Dropped
        /\ reason = "open" /\ head = 0 /\ pending # <<>>
        /\ pulled \in Nat /\ pending \in Seq(Items)
    BY <1>1 DEF HeadSettles, inputs, GenType, GenInv, Dropped
  <1>3. /\ w \in Seq(Items) /\ Len(w) = Len(pending) - 1 /\ Len(pending) \in Nat
        /\ Len(pending) >= 1
        /\ Head(pending) = pending[1] /\ Head(pending) \in Items
    BY <1>2, HeadTailProperties
  <1>4. Head(pending) = pulled - Len(w) /\ Given = pulled - Len(pending)
    BY <1>1, <1>2, <1>3 DEF Contiguous, Given
  <1> HIDE DEF w
  <1>5. CASE done
    <2>1. Resolve(Head(pending), w, TRUE)
      BY <1>5 DEF HeadSettles, w
    <2>2. Given = Head(pending) - 1 /\ Head(pending) = pulled' - Len(w)
      BY <1>2, <1>3, <1>4
    <2> QED BY <1>2, <1>3, <2>1, <2>2, ResolveStep
  <1>6. CASE ~done
    <2>1. head' = Head(pending) /\ UNCHANGED <<reason, out>>
      BY <1>6 DEF HeadSettles
    <2>2. head' # 0
      BY <1>3, <2>1, ConstantFacts DEF Items
    <2>3. Given' = Given
      BY <1>2, <1>3, <1>4, <2>2 DEF Given
    <2> QED BY <1>2, <2>1, <2>3 DEF Sequential!vars, Dropped
  <1> QED BY <1>5, <1>6

LEMMA ItemStepStep ==
    ASSUME StageInv, NEW i \in Items, ItemStep(i)
    PROVE  Sequential!Next
  <1>1. ItemType /\ FlightInv
    BY TypeParts DEF StageInv, BaseInv
  <1>2. item[i] \in Working /\ item[i] # "dropped" /\ UNCHANGED <<inputs, genVars>>
    BY DEF ItemStep, Lookup, Succeed, Throw, BackedOff, StoreResult, DeadLetter, Working
  <1>3. \A j \in Items : j # i => item'[j] = item[j]
    BY <1>1 DEF ItemStep, Lookup, Succeed, Throw, BackedOff, StoreResult, DeadLetter, ItemType
  <1>4. Given' = Given /\ UNCHANGED <<size, out, reason>>
    BY <1>2 DEF Given, inputs, genVars
  <1>5. Dropped \subseteq Dropped' /\ Dropped' \ Dropped \subseteq {i}
    BY <1>2, <1>3 DEF Dropped
  <1>6. i > Given
    <2>1. pulled - Len(pending) < i /\ i \in Int
      BY <1>1, <1>2, ItemNumbers DEF FlightInv
    <2> QED BY <2>1, GivenType DEF Given
  <1>7. Sequential!Decide
    BY <1>4, <1>5, <1>6 DEF Sequential!Decide, Dropped
  <1> QED BY <1>7 DEF Sequential!Next

(* Downstream of a tool step its concurrency is invisible: for any window, *)
(* any source and any failures the stage implements SequentialStage.       *)
THEOREM Sequentially == Spec => IsSequential
  <1>1. Init => Sequential!Init
    <2> SUFFICES ASSUME Init PROVE Sequential!Init
      OBVIOUS
    <2>1. size \in Nat /\ Given = 0
      <3>1. pulled = 0 /\ Len(pending) = 0 /\ head = 0
        BY DEF Init
      <3>2. size \in Nat
        BY ConstantFacts DEF Init
      <3> QED BY <3>1, <3>2 DEF Given
    <2>2. Dropped = {}
      BY DEF Init, Dropped
    <2> QED BY <2>1, <2>2 DEF Init, Sequential!Init, Dropped
  <1>2. StageInv /\ StageInv' /\ [Next]_vars => [Sequential!Next]_(Sequential!vars)
    <2> SUFFICES ASSUME StageInv, StageInv', [Next]_vars
                 PROVE  [Sequential!Next]_(Sequential!vars)
      OBVIOUS
    <2>1. CASE ConsumerNext
      BY <2>1, LoopStep DEF ConsumerNext, inputs, StageInv, WindowInv, GenInv
    <2>2. CASE SourceThrows \/ ConsumerLeaves
      <3>1. /\ reason = "open" /\ reason' \in {"failed", "closed"}
            /\ Given' = Given /\ Dropped' = Dropped /\ UNCHANGED <<size, out>>
        BY <2>2 DEF SourceThrows, ConsumerLeaves, inputs, Given, Dropped, StageInv,
                    WindowInv, GenInv
      <3>2. Sequential!Stop
        BY <3>1 DEF Sequential!Stop, Dropped
      <3> QED BY <3>2 DEF Sequential!Next
    <2>3. CASE Release \/ UNCHANGED vars
      BY <2>3 DEF Release, vars, inputs, genVars, Given, Sequential!vars
    <2> QED BY <2>1, <2>2, <2>3, SourceYieldsStep, SourceEndsStep, HeadSettlesStep,
               ItemStepStep DEF Next, GenStep
  <1> QED BY <1>1, <1>2, StageAlways, PTL DEF Spec, IsSequential, Sequential!Spec

-----------------------------------------------------------------------------
(* What becomes of every item of a tool step.                              *)

Earned(i) == \E j \in succeeded : j = i \/ (Key[j] = Key[i] /\ Key[j] # NoKey)

Exhausted(i) == fatal[i] \/ attempt[i] = Max + 1

\* The output is the results among the items given, in order.
OutInv ==
    /\ \A k \in 1..Len(out) : out[k] <= Given /\ item[out[k]] = "result"
    /\ \A j, k \in 1..Len(out) : j < k => out[j] < out[k]
    /\ \A i \in Items : i <= Given => item[i] \in {"result", "dropped"}
    /\ \A i \in Items : i <= Given /\ item[i] = "result" =>
                            \E k \in 1..Len(out) : out[k] = i

\* A result is earned, and only results are cached.
EarnInv ==
    /\ \A i \in Items : /\ item[i] = "result" => Earned(i)
                        /\ item[i] = "caching" => i \in succeeded
    /\ \A k \in cache : \E j \in succeeded : Key[j] = k

\* An item is dropped by its policy only, and recorded once if that says so.
DropInv ==
    /\ \A i \in Items :
         /\ item[i] = "dropped" =>
              /\ onError # "fail-run" /\ Exhausted(i)
              /\ onError = "dead-letter" =>
                   \E k \in 1..Len(deadLetters) : deadLetters[k] = i
         /\ item[i] = "deadLettering" => onError = "dead-letter" /\ Exhausted(i)
    /\ \A k \in 1..Len(deadLetters) :
         onError = "dead-letter" /\ item[deadLetters[k]] = "dropped"
    /\ \A j, k \in 1..Len(deadLetters) : deadLetters[j] = deadLetters[k] => j = k

FateInv == OutInv /\ EarnInv /\ DropInv

LEMMA InitFate == Init => FateInv
  <1> SUFFICES ASSUME Init PROVE FateInv
    OBVIOUS
  <1>1. /\ Len(out) = 0 /\ Len(deadLetters) = 0
        /\ \A i \in Items : item[i] = "waiting" /\ i > 0
    BY ConstantFacts DEF Init, Items
  <1>2. Given = 0
    <2>1. pulled = 0 /\ Len(pending) = 0 /\ head = 0
      BY DEF Init
    <2> QED BY <2>1 DEF Given
  <1>3. OutInv
    BY <1>1, <1>2, ItemNumbers DEF OutInv
  <1>4. EarnInv
    BY <1>1 DEF Init, EarnInv
  <1>5. DropInv
    BY <1>1 DEF DropInv
  <1> QED BY <1>3, <1>4, <1>5 DEF FateInv

LEMMA FateTypes ==
    ASSUME StageInv
    PROVE  /\ Given \in Nat /\ pulled \in Nat /\ Len(pending) \in Nat
           /\ out \in Seq(Items) /\ Len(out) \in Nat
           /\ \A k \in 1..Len(out) : out[k] \in Items
           /\ deadLetters \in Seq(Items) /\ Len(deadLetters) \in Nat
           /\ \A k \in 1..Len(deadLetters) : deadLetters[k] \in Items
           /\ \A i \in Items : i \in Int /\ i # 0
  <1>1. out \in Seq(Items) /\ deadLetters \in Seq(Items)
    BY DEF StageInv, BaseInv, TypeOK
  <1>2. \A i \in Items : i \in Int /\ i # 0
    BY ConstantFacts DEF Items
  <1> QED BY <1>1, <1>2, GivenType

\* Nothing moves at the consumer's end.
LEMMA OutFrame ==
    ASSUME StageInv, OutInv, Given' = Given, out' = out,
           \A i \in Items : i <= Given => item'[i] = item[i]
    PROVE  OutInv'
  <1> USE FateTypes
  <1>1. \A k \in 1..Len(out') : out'[k] <= Given' /\ item'[out'[k]] = "result"
    BY DEF OutInv
  <1>2. \A j, k \in 1..Len(out') : j < k => out'[j] < out'[k]
    BY DEF OutInv
  <1>3. \A i \in Items : i <= Given' => item'[i] \in {"result", "dropped"}
    BY DEF OutInv
  <1>4. \A i \in Items : i <= Given' /\ item'[i] = "result" =>
                              \E k \in 1..Len(out') : out'[k] = i
    BY DEF OutInv
  <1> QED BY <1>1, <1>2, <1>3, <1>4 DEF OutInv

\* The head is given: appended to the output, or passed over.
LEMMA ResolveOut ==
    ASSUME StageInv, OutInv, NEW h \in Items, NEW w \in Seq(Items), NEW e \in BOOLEAN,
           Resolve(h, w, e), pending' = w, Given = h - 1, h = pulled' - Len(w),
           pulled' \in Nat, \A i \in Items : i <= h => item'[i] = item[i]
    PROVE  OutInv'
  <1>1. /\ Given \in Nat /\ Len(w) \in Nat /\ h \in Int /\ h # 0
        /\ out \in Seq(Items) /\ Len(out) \in Nat
        /\ \A i \in Items : i \in Int
        /\ \A k \in 1..Len(out) : out[k] \in Items
    BY FateTypes
  <1>2. CASE item[h] = "error" /\ head' = h /\ out' = out
    <2>1. Given' = Given
      BY <1>1, <1>2 DEF Given
    <2>2. \A i \in Items : i <= Given => item'[i] = item[i]
      BY <1>1
    <2> QED BY <1>2, <2>1, <2>2, OutFrame
  <1>3. \A k \in 1..Len(out) : out[k] < h /\ out[k] <= h /\ item'[out[k]] = "result"
    <2> SUFFICES ASSUME NEW k \in 1..Len(out)
                 PROVE  out[k] < h /\ out[k] <= h /\ item'[out[k]] = "result"
      OBVIOUS
    <2>1. out[k] \in Items /\ out[k] \in Int
      BY <1>1
    <2>2. out[k] <= Given /\ item[out[k]] = "result"
      BY DEF OutInv
    <2>3. out[k] < h /\ out[k] <= h
      BY <1>1, <2>1, <2>2
    <2> QED BY <2>1, <2>2, <2>3
  <1>4. ASSUME NEW i \in Items, i <= h, i # h
        PROVE  /\ item'[i] \in {"result", "dropped"}
               /\ item'[i] = "result" => \E k \in 1..Len(out) : out[k] = i
    <2>1. i \in Int
      BY <1>1
    <2>2. i <= Given
      BY <1>1, <1>4, <2>1
    <2>3. item'[i] = item[i]
      BY <1>4
    <2> QED BY <2>2, <2>3 DEF OutInv
  <1>5. CASE item[h] = "dropped" /\ head' = 0 /\ out' = out
    <2>1. Given' = h
      BY <1>1, <1>5 DEF Given
    <2>2. item'[h] = "dropped"
      BY <1>1, <1>5
    <2>3. \A k \in 1..Len(out') : out'[k] <= Given' /\ item'[out'[k]] = "result"
      BY <1>3, <1>5, <2>1
    <2>4. \A j, k \in 1..Len(out') : j < k => out'[j] < out'[k]
      BY <1>5 DEF OutInv
    <2>5. \A i \in Items : i <= Given' => item'[i] \in {"result", "dropped"}
      BY <1>4, <2>1, <2>2
    <2>6. \A i \in Items : i <= Given' /\ item'[i] = "result" =>
                                \E k \in 1..Len(out') : out'[k] = i
      BY <1>4, <1>5, <2>1, <2>2
    <2> QED BY <2>3, <2>4, <2>5, <2>6 DEF OutInv
  <1>6. CASE item[h] = "result" /\ head' = 0 /\ out' = Append(out, h)
    <2>1. Given' = h
      BY <1>1, <1>6 DEF Given
    <2>2. item'[h] = "result"
      BY <1>1, <1>6
    <2>3. /\ Len(out') = Len(out) + 1 /\ Len(out) \in Nat /\ out'[Len(out) + 1] = h
          /\ \A k \in 1..Len(out) : out'[k] = out[k]
      BY <1>1, <1>6, AppendProperties
    <2>4. \A k \in 1..Len(out') : out'[k] <= Given' /\ item'[out'[k]] = "result"
      <3> SUFFICES ASSUME NEW k \in 1..Len(out')
                   PROVE  out'[k] <= h /\ item'[out'[k]] = "result"
        BY <2>1
      <3>1. CASE k \in 1..Len(out)
        BY <1>3, <2>3, <3>1
      <3>2. CASE k = Len(out) + 1
        BY <1>1, <2>2, <2>3, <3>2
      <3> QED BY <2>3, <3>1, <3>2
    <2>5. \A j, k \in 1..Len(out') : j < k => out'[j] < out'[k]
      <3> SUFFICES ASSUME NEW j \in 1..Len(out'), NEW k \in 1..Len(out'), j < k
                   PROVE  out'[j] < out'[k]
        OBVIOUS
      <3>1. j \in 1..Len(out)
        BY <2>3
      <3>2. CASE k = Len(out) + 1
        BY <1>3, <2>3, <3>1, <3>2
      <3>3. CASE k \in 1..Len(out)
        BY <2>3, <3>1, <3>3 DEF OutInv
      <3> QED BY <2>3, <3>2, <3>3
    <2>6. \A i \in Items : i <= Given' => item'[i] \in {"result", "dropped"}
      BY <1>4, <2>1, <2>2
    <2>7. ASSUME NEW i \in Items, i <= h, item'[i] = "result"
          PROVE  \E k \in 1..Len(out') : out'[k] = i
      <3>1. CASE i = h
        BY <2>3, <3>1
      <3>2. CASE i # h
        <4>1. PICK k \in 1..Len(out) : out[k] = i
          BY <1>4, <2>7, <3>2
        <4> QED BY <2>3, <4>1
      <3> QED BY <3>1, <3>2
    <2> QED BY <2>1, <2>4, <2>5, <2>6, <2>7 DEF OutInv
  <1> QED BY <1>2, <1>5, <1>6 DEF Resolve

\* A step of the generator that starts no item decides nothing about one.
LEMMA GenFate ==
    ASSUME EarnInv, DropInv, UNCHANGED <<onError, item, itemVars>>
    PROVE  EarnInv' /\ DropInv'
  <1>1. EarnInv'
    BY DEF EarnInv, Earned, itemVars
  <1>2. DropInv'
    BY DEF DropInv, Exhausted, itemVars
  <1> QED BY <1>1, <1>2

LEMMA SourceYieldsFate ==
    ASSUME StageInv, FateInv, SourceYields
    PROVE  FateInv'
  <1>1. GenType /\ ItemType /\ GenInv /\ Contiguous /\ FlightInv
    BY TypeParts DEF StageInv, BaseInv, WindowInv
  <1> DEFINE p == pulled + 1
             w == Append(pending, p)
  <1>2. /\ pulled' = p /\ pending' = w /\ pulled \in Nat /\ p \in Items
        /\ UNCHANGED <<onError, fatal, succeeded, cache, deadLetters>>
    BY <1>1, ConstantFacts DEF SourceYields, GenType, Items, inputs
  <1>3. w \in Seq(Items) /\ Len(w) = Len(pending) + 1 /\ Len(pending) \in Nat
    BY <1>1, <1>2, AppendProperties DEF GenType
  <1>4. item[p] = "waiting"
    BY <1>1, <1>2 DEF FlightInv
  <1>5. item'[p] \in {"invoking", "lookup"}
    BY <1>1, <1>2 DEF SourceYields, ItemType
  <1>6. \A i \in Items : i # p => item'[i] = item[i] /\ attempt'[i] = attempt[i]
    BY <1>1 DEF SourceYields, ItemType
  <1>7. gen = "seeding" \/ gen = "pulling"
    BY DEF SourceYields
  <1>8. gen = "seeding" => head' = head /\ out' = out
    BY DEF SourceYields
  <1>9. gen = "pulling" => Resolve(head, w, FALSE)
    BY DEF SourceYields
  <1> HIDE DEF p, w
  <1>10. EarnInv'
    BY <1>2, <1>4, <1>5, <1>6 DEF FateInv, EarnInv, Earned
  <1>11. DropInv'
    <2>1. \A k \in 1..Len(deadLetters) : deadLetters[k] \in Items /\ deadLetters[k] # p
      BY <1>4, FateTypes DEF FateInv, DropInv
    <2>2. ASSUME NEW i \in Items, item'[i] \in {"dropped", "deadLettering"}
          PROVE  item'[i] = item[i] /\ (Exhausted(i) => Exhausted(i)')
      BY <1>2, <1>5, <1>6, <2>2 DEF Exhausted
    <2> QED BY <1>2, <1>6, <2>1, <2>2 DEF FateInv, DropInv
  <1>12. OutInv'
    <2>1. CASE gen = "seeding"
      <3>1. Given' = Given
        BY <1>2, <1>3, <1>8, <2>1 DEF Given, p
      <3>2. \A i \in Items : i <= Given => i # p
        BY <1>2, FateTypes, <1>1 DEF Given, Contiguous, p
      <3> QED BY <1>6, <1>8, <2>1, <3>1, <3>2, OutFrame DEF FateInv
    <2>2. CASE gen = "pulling"
      <3>1. head # 0 /\ head \in 0..Count /\ head = pulled - Len(pending)
        BY <1>1, <2>2 DEF GenInv, GenType, Contiguous
      <3>2. head \in Items /\ head \in Int
        BY <3>1, ConstantFacts DEF Items
      <3>3. Given = head - 1 /\ head = pulled' - Len(w) /\ pulled' \in Nat
        BY <1>2, <1>3, <3>1 DEF Given, p
      <3>4. \A i \in Items : i <= head => i # p
        BY <1>2, <1>3, <3>1, FateTypes DEF p
      <3>5. \A i \in Items : i <= head => item'[i] = item[i]
        BY <1>6, <3>4
      <3> QED BY <1>2, <1>3, <1>9, <2>2, <3>2, <3>3, <3>5, ResolveOut DEF FateInv
    <2> QED BY <1>7, <2>1, <2>2
  <1> QED BY <1>10, <1>11, <1>12 DEF FateInv

LEMMA SourceEndsFate ==
    ASSUME StageInv, FateInv, SourceEnds
    PROVE  FateInv'
  <1>1. GenType /\ GenInv /\ Contiguous
    BY TypeParts DEF StageInv, BaseInv, WindowInv
  <1>2. UNCHANGED <<inputs, pulled, pending, item, itemVars>>
    BY DEF SourceEnds
  <1>3. EarnInv' /\ DropInv'
    BY <1>2, GenFate DEF FateInv, inputs
  <1>4. CASE gen = "seeding"
    <2>1. UNCHANGED <<head, out>>
      BY <1>4 DEF SourceEnds
    <2>2. Given' = Given
      BY <1>2, <2>1 DEF Given
    <2> QED BY <1>2, <1>3, <2>1, <2>2, OutFrame DEF FateInv
  <1>5. CASE gen = "pulling"
    <2>1. /\ head # 0 /\ head \in 0..Count /\ head = pulled - Len(pending)
          /\ pulled \in Nat /\ Len(pending) \in Nat /\ pending \in Seq(Items)
      BY <1>1, <1>5 DEF GenInv, GenType, Contiguous
    <2>2. head \in Items
      BY <2>1, ConstantFacts DEF Items
    <2>3. Given = head - 1 /\ head = pulled' - Len(pending) /\ pulled' \in Nat
      BY <1>2, <2>1 DEF Given
    <2>4. Resolve(head, pending, TRUE)
      BY <1>5 DEF SourceEnds
    <2> QED BY <1>2, <1>3, <2>1, <2>2, <2>3, <2>4, ResolveOut DEF FateInv
  <1> QED BY <1>4, <1>5 DEF SourceEnds

LEMMA HeadSettlesFate ==
    ASSUME StageInv, FateInv, HeadSettles
    PROVE  FateInv'
  <1>1. GenType /\ GenInv /\ Contiguous
    BY TypeParts DEF StageInv, BaseInv, WindowInv
  <1> DEFINE w == Tail(pending)
  <1>2. /\ pending' = w /\ UNCHANGED <<inputs, pulled, item, itemVars>>
        /\ head = 0 /\ pending # <<>> /\ pulled \in Nat /\ pending \in Seq(Items)
    BY <1>1 DEF HeadSettles, GenType, GenInv
  <1>3. EarnInv' /\ DropInv'
    BY <1>2, GenFate DEF FateInv, inputs
  <1>4. /\ w \in Seq(Items) /\ Len(w) = Len(pending) - 1 /\ Len(pending) \in Nat
        /\ Len(pending) >= 1
        /\ Head(pending) = pending[1] /\ Head(pending) \in Items
    BY <1>2, HeadTailProperties
  <1>5. Head(pending) = pulled - Len(w) /\ Given = pulled - Len(pending)
    BY <1>1, <1>2, <1>4 DEF Contiguous, Given
  <1>6. done => Resolve(Head(pending), w, TRUE)
    BY DEF HeadSettles
  <1>7. ~done => head' = Head(pending) /\ UNCHANGED out
    BY DEF HeadSettles
  <1> HIDE DEF w
  <1>8. CASE done
    <2>1. /\ Given = Head(pending) - 1 /\ Head(pending) = pulled' - Len(w)
          /\ pulled' \in Nat
      BY <1>2, <1>4, <1>5
    <2> QED BY <1>2, <1>3, <1>4, <1>6, <1>8, <2>1, ResolveOut DEF FateInv
  <1>9. CASE ~done
    <2>1. head' # 0
      BY <1>4, <1>7, <1>9, FateTypes
    <2>2. Given' = Given
      BY <1>2, <1>4, <1>5, <2>1 DEF Given
    <2> QED BY <1>2, <1>3, <1>7, <1>9, <2>2, OutFrame DEF FateInv
  <1> QED BY <1>8, <1>9

LEMMA ConsumerFate ==
    ASSUME StageInv, FateInv, ConsumerNext \/ Release \/ SourceThrows \/ ConsumerLeaves
    PROVE  FateInv'
  <1>1. UNCHANGED <<inputs, pulled, pending, head, out, item, itemVars>>
    BY DEF ConsumerNext, Release, SourceThrows, ConsumerLeaves
  <1>2. Given' = Given
    BY <1>1 DEF Given
  <1>3. EarnInv' /\ DropInv'
    BY <1>1, GenFate DEF FateInv, inputs
  <1> QED BY <1>1, <1>2, <1>3, OutFrame DEF FateInv

\* An item step moves one item that is not given yet.
LEMMA ItemAlone ==
    ASSUME StageInv, NEW i \in Items, ItemStep(i)
    PROVE  /\ item[i] \in Working /\ UNCHANGED <<inputs, genVars>>
           /\ Given' = Given /\ Given < i
           /\ \A j \in Items : j # i => /\ item'[j] = item[j] /\ attempt'[j] = attempt[j]
                                        /\ fatal'[j] = fatal[j]
           /\ succeeded \subseteq succeeded'
  <1>1. ItemType /\ FlightInv
    BY TypeParts DEF StageInv, BaseInv
  <1>2. item[i] \in Working /\ UNCHANGED <<inputs, genVars>>
    BY DEF ItemStep, Lookup, Succeed, Throw, BackedOff, StoreResult, DeadLetter, Working
  <1>3. \A j \in Items : j # i => /\ item'[j] = item[j] /\ attempt'[j] = attempt[j]
                                   /\ fatal'[j] = fatal[j]
    BY <1>1 DEF ItemStep, Lookup, Succeed, Throw, BackedOff, StoreResult, DeadLetter, ItemType
  <1>4. Given' = Given
    BY <1>2 DEF Given, inputs, genVars
  <1>5. Given < i
    <2>1. pulled - Len(pending) < i /\ i \in Int
      BY <1>1, <1>2, ItemNumbers DEF FlightInv
    <2> QED BY <2>1, GivenType DEF Given
  <1>6. succeeded \subseteq succeeded'
    BY DEF ItemStep, Lookup, Succeed, Throw, BackedOff, StoreResult, DeadLetter
  <1> QED BY <1>2, <1>3, <1>4, <1>5, <1>6

LEMMA ItemOut ==
    ASSUME StageInv, OutInv, NEW i \in Items, ItemStep(i)
    PROVE  OutInv'
  <1>1. \A j \in Items : j <= Given => j # i
    BY ItemAlone, FateTypes
  <1>2. \A j \in Items : j <= Given => item'[j] = item[j]
    BY <1>1, ItemAlone
  <1> QED BY <1>2, ItemAlone, OutFrame DEF genVars

LEMMA ItemEarn ==
    ASSUME StageInv, EarnInv, NEW i \in Items, ItemStep(i)
    PROVE  EarnInv'
  <1>1. ItemType /\ BackoffInv
    BY TypeParts DEF StageInv, BaseInv
  <1>2. \A j \in Items : Earned(j) => Earned(j)'
    BY ItemAlone DEF Earned
  <1>3. /\ item'[i] = "result" => Earned(i)'
        /\ item'[i] = "caching" => i \in succeeded'
    <2>1. CASE Lookup(i)
      <3>1. item'[i] = "result" => Key[i] \in cache /\ Key[i] # NoKey
        BY <1>1, <2>1 DEF Lookup, ItemType, BackoffInv
      <3>2. item'[i] # "caching" /\ succeeded' = succeeded
        BY <1>1, <2>1 DEF Lookup, ItemType
      <3> QED BY <3>1, <3>2 DEF EarnInv, Earned
    <2>2. CASE Succeed(i)
      BY <2>2 DEF Succeed, Earned
    <2>3. CASE Throw(i)
      <3>1. item'[i] \in {"backoff", "error", "deadLettering", "dropped"}
        BY <1>1, <2>3 DEF Throw, GivenUp, Policies, ItemType, StageInv, BaseInv, TypeOK
      <3> QED BY <3>1
    <2>4. CASE BackedOff(i)
      BY <1>1, <2>4 DEF BackedOff, ItemType
    <2>5. CASE StoreResult(i)
      <3>1. i \in succeeded /\ item'[i] = "result" /\ succeeded' = succeeded
        BY <1>1, <2>5 DEF StoreResult, ItemType, EarnInv
      <3> QED BY <3>1 DEF Earned
    <2>6. CASE DeadLetter(i)
      BY <1>1, <2>6 DEF DeadLetter, ItemType
    <2> QED BY <2>1, <2>2, <2>3, <2>4, <2>5, <2>6 DEF ItemStep
  <1>4. \A k \in cache' : \E j \in succeeded' : Key[j] = k
    <2>1. CASE StoreResult(i)
      <3>1. i \in succeeded /\ cache' \subseteq cache \cup {Key[i]}
        BY <2>1 DEF StoreResult, EarnInv
      <3> QED BY <3>1, ItemAlone DEF EarnInv
    <2>2. CASE cache' = cache
      BY <2>2, ItemAlone DEF EarnInv
    <2> QED BY <2>1, <2>2 DEF ItemStep, Lookup, Succeed, Throw, BackedOff, DeadLetter
  <1>5. ASSUME NEW j \in Items, j # i
        PROVE  /\ item'[j] = "result" => Earned(j)'
               /\ item'[j] = "caching" => j \in succeeded'
    <2>1. item'[j] = item[j] /\ succeeded \subseteq succeeded'
      BY <1>5, ItemAlone
    <2> QED BY <1>2, <2>1 DEF EarnInv
  <1> QED BY <1>3, <1>4, <1>5 DEF EarnInv

LEMMA ItemDrop ==
    ASSUME StageInv, DropInv, NEW i \in Items, ItemStep(i)
    PROVE  DropInv'
  <1>1. ItemType /\ deadLetters \in Seq(Items) /\ Len(deadLetters) \in Nat /\ onError \in Policies
    BY TypeParts, FateTypes DEF StageInv, BaseInv, TypeOK
  <1>2. onError' = onError /\ item[i] \in Working
    BY ItemAlone DEF inputs
  <1>3. \A k \in 1..Len(deadLetters) : deadLetters[k] \in Items /\ deadLetters[k] # i
    BY <1>2, FateTypes DEF DropInv, Working
  <1>4. CASE deadLetters' = deadLetters /\ ~DeadLetter(i)
    <2>1. /\ item'[i] = "dropped" => onError = "skip-item" /\ Exhausted(i)'
          /\ item'[i] = "deadLettering" => onError = "dead-letter" /\ Exhausted(i)'
      <3>1. CASE Throw(i)
        <4>1. PICK isFatal \in BOOLEAN :
                /\ fatal' = [fatal EXCEPT ![i] = isFatal]
                /\ item' = [item EXCEPT ![i] = IF Retries(i) /\ ~isFatal
                                                 THEN "backoff" ELSE GivenUp[onError]]
          BY <3>1 DEF Throw
        <4>2. fatal'[i] = isFatal /\ attempt' = attempt
          BY <1>1, <3>1, <4>1 DEF Throw, ItemType
        <4>3. CASE Retries(i) /\ ~isFatal
          <5>1. item'[i] = "backoff"
            BY <1>1, <4>1, <4>3 DEF ItemType
          <5> QED BY <5>1
        <4>4. CASE ~(Retries(i) /\ ~isFatal)
          <5>1. item'[i] = GivenUp[onError]
            BY <1>1, <4>1, <4>4 DEF ItemType
          <5>2. /\ GivenUp[onError] = "dropped" => onError = "skip-item"
                /\ GivenUp[onError] = "deadLettering" => onError = "dead-letter"
            BY <1>1 DEF GivenUp, Policies
          <5>3. attempt[i] \in 0..(Max + 1)
            BY <1>1 DEF ItemType
          <5>4. isFatal \/ attempt[i] = Max + 1
            BY <4>4, <5>3, ConstantFacts DEF Retries
          <5>5. Exhausted(i)'
            BY <4>2, <5>4 DEF Exhausted
          <5> QED BY <5>1, <5>2, <5>5
        <4> QED BY <4>3, <4>4
      <3>2. CASE ~Throw(i)
        <4>1. item'[i] \in {"result", "invoking", "caching"}
          BY <1>1, <1>4, <3>2 DEF ItemStep, Lookup, Succeed, BackedOff, StoreResult, ItemType
        <4> QED BY <4>1
      <3> QED BY <3>1, <3>2
    <2>2. ASSUME NEW j \in Items, j # i
          PROVE  item'[j] = item[j] /\ Exhausted(j)' = Exhausted(j)
      BY <2>2, ItemAlone DEF Exhausted
    <2>3. ASSUME NEW j \in Items
          PROVE  /\ item'[j] = "dropped" =>
                      /\ onError # "fail-run" /\ Exhausted(j)'
                      /\ onError = "dead-letter" =>
                           \E k \in 1..Len(deadLetters) : deadLetters[k] = j
                 /\ item'[j] = "deadLettering" => onError = "dead-letter" /\ Exhausted(j)'
      <3>1. CASE j = i
        BY <2>1, <3>1
      <3>2. CASE j # i
        BY <2>2, <3>2 DEF DropInv
      <3> QED BY <3>1, <3>2
    <2>4. \A k \in 1..Len(deadLetters) :
            onError = "dead-letter" /\ item'[deadLetters[k]] = "dropped"
      BY <1>3, <2>2 DEF DropInv
    <2> QED BY <1>2, <1>4, <2>3, <2>4 DEF DropInv
  <1>5. CASE DeadLetter(i)
    <2>1. /\ onError = "dead-letter" /\ Exhausted(i) /\ item[i] = "deadLettering"
          /\ UNCHANGED <<attempt, fatal>>
      BY <1>5 DEF DeadLetter, DropInv
    <2>2. \A j \in Items : Exhausted(j)' = Exhausted(j)
      BY <2>1 DEF Exhausted
    <2>3. \A j \in Items : j # i => item'[j] = item[j]
      BY ItemAlone
    <2>4. CASE item'[i] = "error" /\ deadLetters' = deadLetters
      BY <1>2, <1>3, <2>2, <2>3, <2>4 DEF DropInv
    <2>5. CASE item'[i] = "dropped" /\ deadLetters' = Append(deadLetters, i)
      <3> DEFINE n == Len(deadLetters) + 1
      <3>1. /\ Len(deadLetters') = n /\ n \in Nat /\ n \in 1..n /\ deadLetters'[n] = i
            /\ \A k \in 1..Len(deadLetters) : deadLetters'[k] = deadLetters[k] /\ k \in 1..n
            /\ \A k \in 1..n : k = n \/ k \in 1..Len(deadLetters)
        BY <1>1, <2>5, AppendProperties
      <3> HIDE DEF n
      <3>2. ASSUME NEW j \in Items
            PROVE  /\ item'[j] = "dropped" =>
                        /\ onError # "fail-run" /\ Exhausted(j)'
                        /\ \E k \in 1..n : deadLetters'[k] = j
                   /\ item'[j] = "deadLettering" => Exhausted(j)'
        <4>1. CASE j = i
          BY <2>1, <2>2, <2>5, <3>1, <4>1
        <4>2. CASE j # i
          <5>1. item'[j] = item[j]
            BY <2>3, <4>2
          <5>2. item[j] = "dropped" => \E k \in 1..Len(deadLetters) : deadLetters[k] = j
            BY <2>1 DEF DropInv
          <5>3. item[j] \in {"dropped", "deadLettering"} => Exhausted(j)
            BY DEF DropInv
          <5> QED BY <2>1, <2>2, <3>1, <5>1, <5>2, <5>3
        <4> QED BY <4>1, <4>2
      <3>3. ASSUME NEW k \in 1..n PROVE item'[deadLetters'[k]] = "dropped"
        BY <1>3, <2>3, <2>5, <3>1 DEF DropInv
      <3>4. ASSUME NEW j \in 1..n, NEW k \in 1..n, deadLetters'[j] = deadLetters'[k]
            PROVE  j = k
        BY <1>3, <3>1, <3>4 DEF DropInv
      <3> QED BY <1>2, <2>1, <3>1, <3>2, <3>3, <3>4 DEF DropInv
    <2>6. \/ item'[i] = "dropped" /\ deadLetters' = Append(deadLetters, i)
          \/ item'[i] = "error" /\ deadLetters' = deadLetters
      BY <1>1, <1>5 DEF DeadLetter, ItemType
    <2> QED BY <2>4, <2>5, <2>6
  <1>6. DeadLetter(i) \/ deadLetters' = deadLetters
    BY DEF ItemStep, Lookup, Succeed, Throw, BackedOff, StoreResult
  <1> QED BY <1>4, <1>5, <1>6

LEMMA NextFate == StageInv /\ FateInv /\ [Next]_vars => FateInv'
  <1> SUFFICES ASSUME StageInv, FateInv, [Next]_vars PROVE FateInv'
    OBVIOUS
  <1>1. ASSUME NEW i \in Items, ItemStep(i) PROVE FateInv'
    BY <1>1, ItemOut, ItemEarn, ItemDrop DEF FateInv
  <1>2. CASE UNCHANGED vars
    <2>1. EarnInv' /\ DropInv'
      BY <1>2, GenFate DEF FateInv, vars, inputs
    <2>2. Given' = Given /\ UNCHANGED <<out, item>>
      BY <1>2 DEF vars, inputs, genVars, Given
    <2> QED BY <2>1, <2>2, OutFrame DEF FateInv
  <1> QED BY <1>1, <1>2, SourceYieldsFate, SourceEndsFate, HeadSettlesFate, ConsumerFate
          DEF Next, GenStep

LEMMA FateAlways == Spec => [](StageInv /\ FateInv)
  BY InitStage, NextStage, InitFate, NextFate, PTL DEF Spec

(* Nothing is passed on that no tool call returned, for any keys: a cache  *)
(* hit stands for a call of the same key that succeeded (tryCacheGet).     *)
THEOREM EarnedResults == Spec => []ResultsAreEarned
  <1>1. StageInv /\ FateInv => ResultsAreEarned
    <2> SUFFICES ASSUME StageInv, FateInv, NEW k \in 1..Len(out)
                 PROVE  \E j \in succeeded :
                            j = out[k] \/ (Key[j] = Key[out[k]] /\ Key[j] # NoKey)
      BY DEF ResultsAreEarned
    <2>1. out[k] \in Items /\ item[out[k]] = "result"
      BY FateTypes DEF FateInv, OutInv
    <2>2. Earned(out[k])
      BY <2>1 DEF FateInv, EarnInv
    <2> QED BY <2>2 DEF Earned
  <1> QED BY <1>1, FateAlways, PTL

\* How often an item occurs in a sequence without repetition.
LEMMA OccursOnce ==
    ASSUME NEW s, NEW i, NEW k \in 1..Len(s), s[k] = i,
           \A j \in 1..Len(s) : s[j] = i => j = k
    PROVE  Occurrences(s, i) = 1
  <1>1. {j \in 1..Len(s) : s[j] = i} = {k}
    OBVIOUS
  <1>2. Cardinality({k}) = 1
    BY FS_Singleton
  <1> QED BY <1>1, <1>2 DEF Occurrences

LEMMA OccursNever ==
    ASSUME NEW s, NEW i, \A j \in 1..Len(s) : s[j] # i
    PROVE  Occurrences(s, i) = 0
  <1>1. {j \in 1..Len(s) : s[j] = i} = {}
    OBVIOUS
  <1>2. Cardinality({}) = 0
    BY FS_EmptySet
  <1> QED BY <1>1, <1>2 DEF Occurrences

(* A stage that ends complete accounts for every item of its source once:  *)
(* passed on, or dropped by its policy after its last call, and recorded   *)
(* in dead-letter.jsonl where the policy says so (runToolItem).            *)
THEOREM NoItemVanishes == Spec => []NothingVanishes
  <1>1. StageInv /\ FateInv => NothingVanishes
    <2> SUFFICES ASSUME StageInv, FateInv, reason = "complete", NEW i \in 1..size
                 PROVE  \/ /\ Occurrences(out, i) = 1 /\ Occurrences(deadLetters, i) = 0
                        \/ /\ Occurrences(out, i) = 0
                           /\ onError # "fail-run"
                           /\ fatal[i] \/ attempt[i] = Max + 1
                           /\ Occurrences(deadLetters, i) =
                                IF onError = "dead-letter" THEN 1 ELSE 0
      BY DEF NothingVanishes
    <2>1. OutInv /\ EarnInv /\ DropInv
      BY DEF FateInv
    <2>2. pulled = size /\ Len(pending) = 0 /\ head = 0 /\ size \in 0..Count
      BY DEF StageInv, BaseInv, TypeOK, WindowInv, GenInv
    <2>3. i \in Items /\ i <= Given
      BY <2>2, ConstantFacts DEF Given, Items
    <2>4. item[i] \in {"result", "dropped"}
      BY <2>1, <2>3 DEF OutInv
    <2>5. CASE item[i] = "result"
      <3>1. PICK k \in 1..Len(out) : out[k] = i
        BY <2>1, <2>3, <2>5 DEF OutInv
      <3>2. ASSUME NEW j \in 1..Len(out), out[j] = i PROVE j = k
        <4>1. j \in Int /\ k \in Int /\ i \in Int /\ ~(i < i)
          BY FateTypes, <2>3
        <4>2. ~(j < k) /\ ~(k < j)
          BY <2>1, <3>1, <3>2, <4>1 DEF OutInv
        <4> QED BY <4>1, <4>2
      <3>3. Occurrences(out, i) = 1
        BY <3>1, <3>2, OccursOnce
      <3>4. \A j \in 1..Len(deadLetters) : deadLetters[j] # i
        BY <2>1, <2>5 DEF DropInv
      <3>5. Occurrences(deadLetters, i) = 0
        BY <3>4, OccursNever
      <3> QED BY <3>3, <3>5
    <2>6. CASE item[i] = "dropped"
      <3>1. \A j \in 1..Len(out) : out[j] # i
        BY <2>1, <2>6 DEF OutInv
      <3>2. Occurrences(out, i) = 0
        BY <3>1, OccursNever
      <3>3. onError # "fail-run" /\ (fatal[i] \/ attempt[i] = Max + 1)
        BY <2>1, <2>3, <2>6 DEF DropInv, Exhausted
      <3>4. CASE onError = "dead-letter"
        <4>1. PICK k \in 1..Len(deadLetters) : deadLetters[k] = i
          BY <2>1, <2>3, <2>6, <3>4 DEF DropInv
        <4>2. \A j \in 1..Len(deadLetters) : deadLetters[j] = i => j = k
          BY <2>1, <4>1 DEF DropInv
        <4>3. Occurrences(deadLetters, i) = 1
          BY <4>1, <4>2, OccursOnce
        <4> QED BY <3>2, <3>3, <3>4, <4>3
      <3>5. CASE onError # "dead-letter"
        <4>1. \A j \in 1..Len(deadLetters) : deadLetters[j] # i
          BY <2>1, <3>5 DEF DropInv
        <4>2. Occurrences(deadLetters, i) = 0
          BY <4>1, OccursNever
        <4> QED BY <3>2, <3>3, <3>5, <4>2
      <3> QED BY <3>4, <3>5
    <2> QED BY <2>4, <2>5, <2>6
  <1> QED BY <1>1, FateAlways, PTL

-----------------------------------------------------------------------------
(* RunControl.                                                             *)
\* The machine is done, or some record of it says so, only after every step.
DoneAfterAllSteps ==
    /\ state = "done" => step = Steps + 1
    /\ \A p \in Persisters : snap[p] = "done" => step = Steps + 1
    /\ disk = "done" => step = Steps + 1

\* Before it ends, a run is running or paused; inside a step one is left.
LoopBounds ==
    /\ pc \in {"starting", "announcing"} \cup Executing
         => state \in {"running", "paused"}
    /\ pc \in {"working", "stepped"} => step <= Steps

RunInv == RunTypes /\ DoneAfterAllSteps /\ LoopBounds

-----------------------------------------------------------------------------
(* What transition and canTransition do on the states an await observes    *)
(* (state-machine.ts): a run is resumed to running from every recorded     *)
(* state, done is final, and done is entered from running only.            *)
LEMMA TransitionFacts ==
    /\ \A s \in Observed : CanTransition(s, "paused") <=> s = "running"
    /\ \A s \in Observed : CanTransition(s, "done") <=> s = "running"
    /\ \A s \in Observed : CanTransition(s, "failed") <=> s = "running"
    /\ \A s \in Observed \ {"done"} : Reactivated(s) = "running"
  <1>1. /\ Transitions["running"] = {"checkpoint", "done", "failed", "paused"}
        /\ Transitions["paused"] = {"resumed"}
        /\ Transitions["resumed"] = {"running"}
        /\ Transitions["done"] = {}
        /\ Transitions["failed"] = {"running"}
    BY DEF Transitions
  <1> QED BY <1>1 DEF Observed, CanTransition, TryTransition, Reactivated

(* A persist that begins records what it serialized, or nothing yet.       *)
LEMMA PersistBeginsFacts ==
    ASSUME RunTypes, NEW p \in Persisters, NEW open \in BOOLEAN,
           NEW s \in Observed, PersistBegins(p, open, s)
    PROVE  /\ persistAt' \in [Persisters -> {"idle", "clamping", "landing"}]
           /\ snap' \in [Persisters -> Observed]
           /\ \A q \in Persisters : snap'[q] = snap[q] \/ snap'[q] = s
  BY DEF RunTypes, PersistBegins

LEMMA SchedulePersistFacts ==
    ASSUME RunTypes, NEW open \in BOOLEAN, SchedulePersist(open)
    PROVE  /\ dirty' \in BOOLEAN
           /\ persistAt' \in [Persisters -> {"idle", "clamping", "landing"}]
           /\ snap' \in [Persisters -> Observed]
           /\ \A q \in Persisters : snap'[q] = snap[q] \/ snap'[q] = state
  <1>1. "drain" \in Persisters /\ state \in Observed
    BY DEF Persisters, RunTypes, Observed
  <1>2. CASE persistAt["drain"] = "idle"
    <2>1. PersistBegins("drain", open, state) /\ dirty' = FALSE
      BY <1>2 DEF SchedulePersist
    <2> QED BY <1>1, <2>1, PersistBeginsFacts
  <1>3. CASE persistAt["drain"] # "idle"
    BY <1>3 DEF SchedulePersist, RunTypes
  <1> QED BY <1>2, <1>3

-----------------------------------------------------------------------------
LEMMA RunInvInit == RunInit => RunInv
  <1> SUFFICES ASSUME RunInit PROVE RunInv
    OBVIOUS
  <1>1. step \in 1..(Steps + 1) /\ sessions \in 1..MaxSessions
    BY ControlConstants DEF ControlConstants, RunInit
  <1>2. /\ call \in [Calls -> {"none", "paused", "resumed", "returned"}]
        /\ persistAt \in [Persisters -> {"idle", "clamping", "landing"}]
        /\ snap \in [Persisters -> Observed]
        /\ \A p \in Persisters : snap[p] = "running"
    BY DEF RunInit, Observed
  <1>3. RunTypes
    BY <1>1, <1>2 DEF RunInit, RunTypes, Observed
  <1> QED BY <1>2, <1>3 DEF RunInit, RunInv, DoneAfterAllSteps, LoopBounds, Executing

LEMMA RunInvNext == RunInv /\ [RunNext]_runVars => RunInv'
  <1> SUFFICES ASSUME RunInv, [RunNext]_runVars PROVE RunInv'
    OBVIOUS
  <1> USE ControlConstants DEF ControlConstants, RunInv
  <1>a. RunTypes /\ DoneAfterAllSteps /\ LoopBounds
    OBVIOUS
  <1>b. "main" \in Persisters /\ "drain" \in Persisters /\ Calls \subseteq Persisters
    BY DEF Persisters
  <1>1. CASE Announce
    BY <1>1 DEF Announce, RunTypes, DoneAfterAllSteps, LoopBounds, persistVars,
       Observed, Executing, Ended
  <1>2. CASE EnterStep
    BY <1>2 DEF EnterStep, RunTypes, DoneAfterAllSteps, LoopBounds, persistVars,
       Observed, Executing, Ended
  <1>3. CASE FinishStep
    BY <1>3 DEF FinishStep, RunTypes, DoneAfterAllSteps, LoopBounds, persistVars,
       Observed, Executing, Ended
  <1>4. CASE StepDone
    <2>1. SchedulePersist(FALSE) /\ step <= Steps /\ state \in {"running", "paused"}
      BY <1>4 DEF StepDone, LoopBounds, Executing
    <2>2. \A q \in Persisters : snap[q] # "done"
      BY <2>1 DEF DoneAfterAllSteps, RunTypes
    <2>3. \A q \in Persisters : snap'[q] # "done"
      BY <2>1, <2>2, SchedulePersistFacts
    <2>4. RunTypes'
      <3>1. step' \in 1..(Steps + 1)
        BY <1>4, <2>1 DEF StepDone, RunTypes
      <3>2. /\ dirty' \in BOOLEAN
            /\ persistAt' \in [Persisters -> {"idle", "clamping", "landing"}]
            /\ snap' \in [Persisters -> Observed]
        BY <2>1, SchedulePersistFacts
      <3> QED BY <1>4, <3>1, <3>2 DEF StepDone, RunTypes, Executing
    <2>5. DoneAfterAllSteps'
      BY <1>4, <2>1, <2>3 DEF StepDone, RunTypes, DoneAfterAllSteps
    <2>6. LoopBounds'
      BY <1>4, <2>1 DEF StepDone, LoopBounds, Executing
    <2> QED BY <2>4, <2>5, <2>6
  <1>5. CASE MarkRunDone
    <2>1. step > Steps /\ state \in {"running", "paused"} /\ step = Steps + 1
      BY <1>5 DEF MarkRunDone, LoopOver, Unraveled, LoopBounds, Executing, RunTypes
    <2>2. CanTransition("running", "done")
      BY TransitionFacts DEF Observed
    <2>3. /\ state' = "done" /\ pc' = "ending"
          /\ PersistBegins("main", FALSE, "done")
      BY <1>5, <2>1, <2>2 DEF MarkRunDone, LoopOver, Unraveled
    <2>4. RunTypes'
      BY <1>5, <2>3, <1>b, PersistBeginsFacts DEF MarkRunDone, LoopOver, Unraveled, RunTypes, Observed,
         Executing, Ended
    <2>5. DoneAfterAllSteps'
      BY <1>5, <2>1 DEF MarkRunDone, LoopOver, Unraveled, DoneAfterAllSteps
    <2>6. LoopBounds'
      BY <2>3 DEF LoopBounds, Executing
    <2> QED BY <2>4, <2>5, <2>6
  <1>6. CASE Flush
    <2>1. CASE dirty
      <3>1. PersistBegins("main", FALSE, state) /\ UNCHANGED pc
        BY <1>6, <2>1 DEF Flush
      <3>2. /\ persistAt' \in [Persisters -> {"idle", "clamping", "landing"}]
            /\ snap' \in [Persisters -> Observed]
            /\ \A q \in Persisters : snap'[q] = snap[q] \/ snap'[q] = state
        BY <3>1, <1>b, PersistBeginsFacts DEF RunTypes
      <3> QED BY <1>6, <3>1, <3>2 DEF Flush, RunTypes, DoneAfterAllSteps, LoopBounds
    <2>2. CASE ~dirty
      BY <1>6, <2>2 DEF Flush, RunTypes, DoneAfterAllSteps, LoopBounds,
         Observed, Executing, Ended
    <2> QED BY <2>1, <2>2
  <1>7. CASE Report
    BY <1>7 DEF Report, RunTypes, DoneAfterAllSteps, LoopBounds, persistVars,
       Observed, Executing, Ended
  <1>8. CASE MainLands
    BY <1>8, <1>b DEF MainLands, PersistEnds, RunTypes, DoneAfterAllSteps,
       LoopBounds, Executing, Ended
  <1>9. CASE PersistMidRun
    <2>1. SchedulePersist(TRUE) /\ UNCHANGED <<pc, state, step, call, disk, log, sessions>>
      BY <1>9 DEF PersistMidRun
    <2> QED BY <2>1, SchedulePersistFacts DEF RunTypes, DoneAfterAllSteps, LoopBounds
  <1>10. CASE FailRun
    <2>1. state' = TryTransition(state, "failed") /\ state \in {"running", "paused"}
      BY <1>10 DEF FailRun, LoopBounds, Executing
    <2>2. state' \in Observed /\ state' # "done"
      BY <2>1 DEF TryTransition, Reactivated, Observed
    <2>3. PICK open \in BOOLEAN : PersistBegins("main", open, state')
      BY <1>10 DEF FailRun
    <2>4. /\ persistAt' \in [Persisters -> {"idle", "clamping", "landing"}]
          /\ snap' \in [Persisters -> Observed]
          /\ \A q \in Persisters : snap'[q] = snap[q] \/ snap'[q] = state'
      BY <2>2, <2>3, <1>b, PersistBeginsFacts
    <2> QED BY <1>10, <2>2, <2>4 DEF FailRun, RunTypes, DoneAfterAllSteps,
               LoopBounds, Executing, Ended
  <1>11. CASE \E p \in Persisters : PersistStep(p)
    <2> PICK p \in Persisters : PersistStep(p)
      BY <1>11
    <2>1. CASE Clamped(p)
      BY <2>1 DEF Clamped, RunTypes, DoneAfterAllSteps, LoopBounds
    <2>2. CASE DrainLands
      <3>1. CASE dirty
        <4>1. PICK open \in BOOLEAN : PersistBegins("drain", open, state)
          BY <2>2, <3>1 DEF DrainLands, TargetOpen
        <4>2. /\ persistAt' \in [Persisters -> {"idle", "clamping", "landing"}]
              /\ snap' \in [Persisters -> Observed]
              /\ \A q \in Persisters : snap'[q] = snap[q] \/ snap'[q] = state
          BY <4>1, <1>b, PersistBeginsFacts DEF RunTypes
        <4>3. /\ disk' = snap["drain"] /\ dirty' = FALSE
              /\ UNCHANGED <<pc, state, step, call, log, sessions>>
          BY <2>2, <3>1 DEF DrainLands
        <4> QED BY <4>2, <4>3, <1>b DEF RunTypes, DoneAfterAllSteps, LoopBounds
      <3>2. CASE ~dirty
        BY <2>2, <3>2, <1>b DEF DrainLands, PersistEnds, RunTypes,
           DoneAfterAllSteps, LoopBounds
      <3> QED BY <3>1, <3>2
    <2>3. CASE p \in Calls /\ CallLands(p)
      BY <2>3, <1>b DEF CallLands, PersistEnds, RunTypes, DoneAfterAllSteps, LoopBounds
    <2>4. CASE p \in Calls /\ CallReturns(p)
      BY <2>4 DEF CallReturns, RunTypes, DoneAfterAllSteps, LoopBounds, persistVars
    <2> QED BY <2>1, <2>2, <2>3, <2>4 DEF PersistStep
  <1>12. CASE \E p \in Persisters : PersistRejects(p)
    <2> PICK p \in Persisters : PersistRejects(p)
      BY <1>12
    <2> QED BY DEF PersistRejects, PersistEnds, RunTypes, DoneAfterAllSteps,
               LoopBounds, Executing, Ended
  <1>13. CASE \E c \in Calls : Pause(c)
    <2> PICK c \in Calls : Pause(c)
      BY <1>13
    <2>1. state = "running" /\ state' = "paused"
      BY TransitionFacts DEF Pause, RunTypes
    <2>2. PICK open \in BOOLEAN : PersistBegins(c, open, state')
      BY DEF Pause, TargetOpen
    <2>3. /\ persistAt' \in [Persisters -> {"idle", "clamping", "landing"}]
          /\ snap' \in [Persisters -> Observed]
          /\ \A q \in Persisters : snap'[q] = snap[q] \/ snap'[q] = state'
      BY <2>1, <2>2, <1>b, PersistBeginsFacts DEF Observed
    <2> QED BY <2>1, <2>3 DEF Pause, RunTypes, DoneAfterAllSteps, LoopBounds,
               Observed, Executing
  <1>14. CASE \E c \in Calls : Unpause(c)
    <2> PICK c \in Calls : Unpause(c)
      BY <1>14
    <2>1. state = "paused" /\ state' = "running"
      BY TransitionFacts DEF Unpause, Observed
    <2>2. PICK open \in BOOLEAN : PersistBegins(c, open, state')
      BY DEF Unpause, TargetOpen
    <2>3. /\ persistAt' \in [Persisters -> {"idle", "clamping", "landing"}]
          /\ snap' \in [Persisters -> Observed]
          /\ \A q \in Persisters : snap'[q] = snap[q] \/ snap'[q] = state'
      BY <2>1, <2>2, <1>b, PersistBeginsFacts DEF Observed
    <2> QED BY <2>1, <2>3 DEF Unpause, RunTypes, DoneAfterAllSteps, LoopBounds,
               Observed, Executing
  <1>15. CASE Crash
    BY <1>15 DEF Crash, RunTypes, DoneAfterAllSteps, LoopBounds, persistVars,
       Executing, Ended
  <1>16. CASE Resume
    <2>1. disk \in Observed \ {"done"}
      BY <1>16 DEF Resume, RunTypes
    <2>2. state' = "running"
      BY <1>16, <2>1, TransitionFacts DEF Resume
    <2>3. /\ step' \in 1..(Steps + 1) /\ step' = 1
          /\ sessions' \in 1..MaxSessions
      BY <1>16 DEF Resume, RunTypes
    <2>4. /\ call' \in [Calls -> {"none", "paused", "resumed", "returned"}]
          /\ persistAt' \in [Persisters -> {"idle", "clamping", "landing"}]
          /\ snap' \in [Persisters -> Observed]
          /\ \A p \in Persisters : snap'[p] = "running"
      BY <1>16 DEF Resume, Observed
    <2>5. RunTypes'
      BY <1>16, <2>1, <2>2, <2>3, <2>4 DEF Resume, RunTypes, Observed
    <2> QED BY <1>16, <2>1, <2>2, <2>4, <2>5 DEF Resume, DoneAfterAllSteps,
               LoopBounds, Executing
  <1>17. CASE UNCHANGED runVars
    BY <1>17 DEF runVars, persistVars, RunTypes, DoneAfterAllSteps, LoopBounds
  <1> QED
    BY <1>1, <1>2, <1>3, <1>4, <1>5, <1>6, <1>7, <1>8, <1>9, <1>10, <1>11, <1>12,
       <1>13, <1>14, <1>15, <1>16, <1>17 DEF RunNext, MainStep

(* Every variable keeps its type; in particular no await ever observes the *)
(* machine in pending, resumed or checkpoint.                              *)
THEOREM RunTypeCorrect == RunSpec => []RunTypes
  <1>1. RunInv => RunTypes
    BY DEF RunInv
  <1> QED BY <1>1, RunInvInit, RunInvNext, PTL DEF RunSpec

(* The step loop only runs on a running or paused machine.                 *)
THEOREM LoopMayFinish == RunSpec => []ExecutingMayFinish
  <1>1. RunInv => ExecutingMayFinish
    BY DEF RunInv, LoopBounds, ExecutingMayFinish
  <1> QED BY <1>1, RunInvInit, RunInvNext, PTL DEF RunSpec

(* A record that says done is the record of a run all of whose steps ran.  *)
THEOREM DoneIsAll == RunSpec => []DoneMeansComplete
  <1>1. RunInv => DoneMeansComplete
    BY DEF RunInv, DoneAfterAllSteps, DoneMeansComplete
  <1> QED BY <1>1, RunInvInit, RunInvNext, PTL DEF RunSpec
==============================================================================
