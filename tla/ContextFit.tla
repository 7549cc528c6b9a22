----------------------------- MODULE ContextFit -----------------------------
(***************************************************************************)
(* Shrinking the messages of a request to a token budget                   *)
(* (packages/tools/src/core/llm-context.ts: resolveContextConfig,          *)
(* fitMessages, the built-in strategies, truncateLastMessage).             *)
(*                                                                         *)
(* A message is its role, its place in the request and its size; a         *)
(* character weighs one token.  One action is one turn of a strategy's     *)
(* loop.  The summarize strategy and the summary of the last message await *)
(* a model, whose answer has any of SummarySizes or fails.                 *)
(***************************************************************************)
EXTENDS Integers, Sequences, FiniteSets, SequencesExt

CONSTANTS
    Overhead,       \* MESSAGE_OVERHEAD
    Marker,         \* size of the marker line a cut leaves, with its newline
    MinChars,       \* no message is cut below this (200, the last one 8)
    KeepLast,       \* recent messages summarize and its fallback keep
    KeepHead, KeepTail,   \* what dropMiddle keeps at both ends
    WindowSize,     \* messages slidingWindow keeps
    SummarySizes    \* sizes of what a model may answer to context.summarize

ASSUME FitConstants ==
    /\ Overhead \in Nat /\ Marker \in Nat \ {0} /\ MinChars \in Nat \ {0}
    /\ KeepLast \in Nat /\ KeepHead \in Nat /\ KeepTail \in Nat
    /\ WindowSize \in Nat
    /\ SummarySizes \subseteq Nat \ {0}

Roles == {"system", "user", "assistant"}
Strategies == {"dropOldest", "dropMiddle", "slidingWindow", "summarize",
               "truncate", "truncateLines"}
LastMessage == {"off", "truncate", "summarize", "error"}
Unset == -1

VARIABLES
    asked,    \* the messages as the request had them
    limit,    \* token budget, Unset: no budget
    strategies, onLast,   \* the strategies and the lastMessage setting
    cur,      \* the messages now
    turn,     \* strategies applied so far
    doing,    \* strategy at work, or "next", "last", "fitted", "threw", "idle"
    keep      \* keepLast of the dropOldest at work

fitVars == <<asked, limit, strategies, onLast, cur, turn, doing, keep>>

Message == [n : Nat, role : Roles, size : Nat, cut : BOOLEAN]

\* A message of a request; n = 0 is a summary the strategy wrote.
Msg(n, role, size) == [n |-> n, role |-> role, size |-> size, cut |-> FALSE]

\* Roles and sizes of a conversation as messages.
Messages(pairs) == [i \in DOMAIN pairs |-> Msg(i, pairs[i][1], pairs[i][2])]

-----------------------------------------------------------------------------
(* The budget. *)

\* min(maxTokens, contextLimit - reserve) over whichever are set; reserve
\* falls back to what the request reserves for its answer.
FitLimit(maxTokens, contextLimit, reserve, output) ==
    LET r == IF reserve # Unset THEN reserve ELSE Max({output, 0})
        candidates == {x \in {maxTokens} : x # Unset}
                        \cup {Max({0, x - r}) : x \in {contextLimit} \ {Unset}}
    IN IF candidates = {} THEN Unset ELSE Min(candidates)

Count(messages) ==
    LET sum[i \in 0..Len(messages)] ==
          IF i = 0 THEN 0 ELSE sum[i - 1] + messages[i].size + Overhead
    IN sum[Len(messages)]

Over == limit # Unset /\ Count(cur) > limit

-----------------------------------------------------------------------------
(* What strategies may touch. *)

LastUser(messages) ==
    {i \in DOMAIN messages : /\ messages[i].role = "user"
                             /\ \A j \in DOMAIN messages :
                                   j > i => messages[j].role # "user"}

\* The last message is taken for the last user message (mutant of IsProtected).
IsProtectedLast(messages, i) ==
    messages[i].role = "system" \/ i = Len(messages)

IsProtected(messages, i) ==
    messages[i].role = "system" \/ i \in LastUser(messages)

\* The members of K in 1..n, in their order.
Ascending(n, K) == FlattenSeq([i \in 1..n |-> IF i \in K THEN <<i>> ELSE <<>>])

Unprotected(messages) ==
    Ascending(Len(messages), {i \in DOMAIN messages : ~IsProtected(messages, i)})

Without(messages, gone) ==
    LET kept == Ascending(Len(messages), DOMAIN messages \ gone)
    IN [i \in DOMAIN kept |-> messages[kept[i]]]

\* What dropOldest may drop, one off (mutant of Droppable).
DroppableButOne ==
    {i \in DOMAIN cur : i < Len(cur) - keep /\ ~IsProtected(cur, i)}

Droppable == {i \in DOMAIN cur : i <= Len(cur) - keep /\ ~IsProtected(cur, i)}

\* un.slice(keepHead, Math.max(keepHead, un.length - keepTail))
Removable ==
    LET un == Unprotected(cur)
    IN SubSeq(un, KeepHead + 1, Max({KeepHead, Len(un) - KeepTail}))

\* The protected messages and the last s others.
Windowed(s) ==
    LET un == Unprotected(cur)
    IN Without(cur, ToSet(SubSeq(un, 1, Len(un) - s)))

-----------------------------------------------------------------------------
(* Cutting text. *)

Text(m) == IF m.cut THEN m.size - Marker ELSE m.size

Shortened(m, size) == [m EXCEPT !.size = size, !.cut = TRUE]

\* cutText keeping head or tail; keeping whole lines of both, the size depends
\* on where the lines end.
CutSizes(m, chars, mode) ==
    IF Text(m) <= chars THEN {m.size}
    ELSE IF mode = "truncate" THEN {chars + Marker}
    ELSE {chars + Marker} \cup (Marker + 2)..(Text(m) - 1 + Marker)

Cuttable == {i \in DOMAIN cur : /\ ~IsProtected(cur, i)
                                /\ cur[i].size >= MinChars + Marker}

Largest == CHOOSE i \in Cuttable : \A j \in Cuttable :
              cur[i].size > cur[j].size \/ (cur[i].size = cur[j].size /\ i <= j)

KeepChars(m) ==
    Max({MinChars, Max({1, m.size - (Count(cur) - limit)}) - Marker})

\* truncateLastMessage: as much head as tail, within half of the room; the marker line
\* between them has a newline on both sides.
CutLast(m, room) ==
    LET chars == Max({MinChars, room \div 2 - Marker - 1})
        size == 2 * Max({1, chars \div 2}) + Marker + 1
    IN IF m.size <= room \/ Text(m) <= chars \/ size >= m.size THEN m
       ELSE Shortened(m, size)

-----------------------------------------------------------------------------
(* fitMessages *)

FitTypeOK ==
    /\ limit \in {Unset} \cup Nat /\ onLast \in LastMessage
    /\ asked \in Seq(Message) /\ cur \in Seq(Message)
    /\ strategies \in Seq(Strategies) /\ turn \in 0..Len(strategies)
    /\ doing \in Strategies \cup {"next", "last", "fitted", "threw", "idle"}
    /\ keep \in {0, KeepLast}

\* A request is handed to the fitter.
Fit(messages, budget) ==
    /\ asked' = messages /\ cur' = messages /\ limit' = budget
    /\ keep' = 0 /\ turn' = 0 /\ doing' = "next"

\* for (const s of strategies), while it does not fit.
Choose ==
    /\ doing = "next"
    /\ IF Over /\ turn < Len(strategies)
         THEN doing' = strategies[turn + 1] /\ turn' = turn + 1
         ELSE doing' = "last" /\ UNCHANGED turn
    /\ keep' = 0
    /\ UNCHANGED <<asked, limit, strategies, onLast, cur>>

Become(messages) ==
    /\ cur' = messages
    /\ UNCHANGED <<asked, limit, strategies, onLast, turn, doing, keep>>

Return ==
    doing' = "next" /\ UNCHANGED <<asked, limit, strategies, onLast, cur, turn, keep>>

DropOldest ==
    /\ doing = "dropOldest"
    /\ IF Over /\ Droppable # {} THEN Become(Without(cur, {Min(Droppable)}))
                                 ELSE Return

DropMiddle ==
    /\ doing = "dropMiddle"
    /\ IF Over /\ Removable # <<>>
         THEN Become(Without(cur, {Removable[Len(Removable) \div 2 + 1]}))
         ELSE Return

\* The widest window that fits, the protected messages alone if none does.
SlidingWindow ==
    /\ doing = "slidingWindow"
    /\ LET sizes == 0..Min({WindowSize, Len(Unprotected(cur))})
           fitting == {s \in sizes : Count(Windowed(s)) <= limit}
       IN cur' = Windowed(IF fitting = {} THEN 0 ELSE Max(fitting))
    /\ doing' = "next"
    /\ UNCHANGED <<asked, limit, strategies, onLast, turn, keep>>

Truncate ==
    /\ doing \in {"truncate", "truncateLines"}
    /\ IF Over /\ Cuttable # {}
         THEN \E size \in CutSizes(cur[Largest], KeepChars(cur[Largest]), doing) :
                 IF size >= cur[Largest].size THEN Return
                 ELSE Become([cur EXCEPT ![Largest] = Shortened(@, size)])
         ELSE Return

Older == LET un == Unprotected(cur)
         IN SubSeq(un, 1, Max({0, Len(un) - KeepLast}))

\* One message for the older ones, written by a model.
Summarize ==
    /\ doing = "summarize"
    /\ IF Older = <<>> THEN Return
       ELSE \E size \in SummarySizes :
              LET first == Head(Older)
                  at == [cur EXCEPT ![first] = Msg(0, "user", size)]
              IN /\ cur' = Without(at, ToSet(Tail(Older)))
                 /\ doing' = "next"
                 /\ UNCHANGED <<asked, limit, strategies, onLast, turn, keep>>

\* No client, no model, an error or an empty answer: the oldest are dropped.
SummarizeFallsBack ==
    /\ doing = "summarize" /\ Older # <<>>
    /\ doing' = "dropOldest" /\ keep' = KeepLast
    /\ UNCHANGED <<asked, limit, strategies, onLast, cur, turn>>

\* The last user message takes what the others leave, or the call is refused.
FitLast ==
    /\ doing = "last"
    /\ LET rest == Count(Without(cur, LastUser(cur)))
           i == Max(LastUser(cur))
           over == onLast # "off" /\ Over /\ LastUser(cur) # {}
       IN IF over /\ onLast = "error" THEN doing' = "threw" /\ UNCHANGED cur
          ELSE /\ doing' = "fitted"
               /\ IF ~over \/ rest >= limit THEN UNCHANGED cur
                  ELSE \/ cur' = [cur EXCEPT ![i] = CutLast(@, limit - rest)]
                       \/ /\ onLast = "summarize"
                          /\ \E size \in SummarySizes :
                                cur' = [cur EXCEPT ![i].size = size]
    /\ UNCHANGED <<asked, limit, strategies, onLast, turn, keep>>

FitStep ==
    \/ Choose \/ DropOldest \/ DropMiddle \/ SlidingWindow \/ Truncate
    \/ Summarize \/ SummarizeFallsBack \/ FitLast
=============================================================================
