------------------------------ MODULE LongText ------------------------------
(***************************************************************************)
(* A tool that gives a long text to a model: one call, or the text split   *)
(* into chunks within a budget, a call per chunk and the answers merged    *)
(* (packages/tools/src/core/chunk-processor.ts: resolveChunkBudget,        *)
(* adaptiveSemanticChunks, processChunks, runChunkedText;                  *)
(* translate-text.ts; llm-gate.ts: llmPrepare, llmFit).                    *)
(*                                                                         *)
(* The budget of a chunk is computed here, the budget of the call that     *)
(* carries it by the gate's fitter: two readings of the same settings.     *)
(* The calls of the chunks share nothing, mapConcurrent merges in order    *)
(* (ToolStage), so they are taken one after the other.                     *)
(***************************************************************************)
EXTENDS ContextFit

CONSTANTS
    SystemSize,     \* tokens of the system prompt of the request
    PrefixSize,     \* tokens of its user prompt around the chunk
    Slack,          \* PROMPT_OVERHEAD_SLACK_TOKENS
    Safety,         \* CHUNK_SAFETY_RESERVE_TOKENS
    Texts,          \* texts, sequences of words
    Settings,       \* see Setting
    Talks           \* requests of a chat: [messages, limit, strategies, onLast]

(***************************************************************************)
(* context   the model's context window or context.contextLimit            *)
(* cap       context.maxTokens; reserve: context.reserve                   *)
(* output    the answer's tokens, request.maxTokens                        *)
(* held      what the budget of a chunk holds back for the answer and the  *)
(*           reasoning before it: outputReserve, thinkReserve              *)
(* prompts   what it takes the prompts for: rendered and counted, or 200   *)
(*           for a system prompt that it cannot render (translateBudget)   *)
(***************************************************************************)
Setting == [context : {Unset} \cup Nat, cap : {Unset} \cup Nat,
            reserve : {Unset} \cup Nat, output : Nat, held : Nat, prompts : Nat]

Talk == [messages : Seq(Message), limit : {Unset} \cup Nat,
         strategies : Seq(Strategies), onLast : LastMessage]

\* How strongly a word is parted from the one before it.
Paragraph == 3
Sentence == 2
Line == 1
Word == 0

Words == [id : Nat, size : Nat, gap : Word..Paragraph]

ASSUME TextConstants ==
    /\ SystemSize \in Nat /\ PrefixSize \in Nat /\ Safety \in Nat
    /\ Slack \in Nat /\ Slack >= 2 * Overhead
    /\ Texts \subseteq Seq(Words) /\ Settings \subseteq Setting
    /\ Talks \subseteq Talk
    /\ \A talk \in Talks : \A i \in DOMAIN talk.messages : talk.messages[i].n = i

VARIABLES
    text, mode, setting,
    chunks,     \* the pieces, <<>> before the split
    answers,    \* per chunk answered: the chunk, and whether it was sent whole
    outcome     \* running, done, failed

textVars == <<text, mode, setting, chunks, answers, outcome>>
toolVars == <<fitVars, textVars>>

-----------------------------------------------------------------------------
(* The budget of a chunk. *)

\* resolveChunkBudget: the context limit, or the token limit where no context
\* limit is known; Unset: no budget.
ChunkLimit(s) == IF s.context # Unset THEN s.context
                 ELSE FitLimit(s.cap, Unset, Unset, 0)

\* What the budget of a chunk sets aside.
SetAside(s) == s.held + s.prompts + Slack + Safety

\* The answer's tokens are forgotten (mutant of InputBudget).
InputBudgetAlone(s) == Max({1, ChunkLimit(s) - (SetAside(s) - s.held)})

InputBudget(s) == Max({1, ChunkLimit(s) - SetAside(s)})

CallLimit(s) == FitLimit(s.cap, s.context, s.reserve, s.output)

-----------------------------------------------------------------------------
(* Splitting. *)

\* The characters of words, each by the word it belongs to.
Spelt(words) ==
    FlattenSeq([i \in DOMAIN words |-> [k \in 1..words[i].size |-> words[i].id]])

Weight(words) == Len(Spelt(words))

\* A sequence in parts, one for each place of starts.
Parts(s, starts) ==
    LET end(i) == Max({j \in i..Len(s) : starts \cap (i + 1)..j = {}})
    IN FlattenSeq([i \in DOMAIN s |->
           IF i \in starts THEN <<SubSeq(s, i, end(i))>> ELSE <<>>])

\* splitUnits: runs of words no break of this strength parts.
Units(words, break) ==
    Parts(words, {i \in DOMAIN words : i = 1 \/ words[i].gap >= break})

\* Units are added while the chunk before the next one is within the budget
\* (mutant of Opens).
OpensLate(units, first, i, budget) ==
    Weight(FlattenSeq(SubSeq(units, first, i - 1))) > budget

\* A unit that would fill the budget exactly starts a new chunk (mutant of
\* Opens).
OpensTight(units, first, i, budget) ==
    Weight(FlattenSeq(SubSeq(units, first, i))) >= budget

\* A unit starts a new chunk where the one at hand, from unit first on, would
\* not hold it.
Opens(units, first, i, budget) ==
    Weight(FlattenSeq(SubSeq(units, first, i))) > budget

\* chunkUnitsGreedy, by the unit each unit's chunk starts with.
Starts(units, budget) ==
    LET first[i \in DOMAIN units] ==
          IF i = 1 THEN 1
          ELSE IF Opens(units, first[i - 1], i, budget) THEN i ELSE first[i - 1]
    IN {i \in DOMAIN units : first[i] = i}

Greedy(units, budget) ==
    LET groups == Parts(units, Starts(units, budget))
    IN [g \in DOMAIN groups |-> FlattenSeq(groups[g])]

\* splitByChars: one word, in pieces of the size of the budget.
Pieces(w, budget) ==
    LET n == (w.size + budget - 1) \div budget
    IN [i \in 1..n |->
           <<[w EXCEPT !.size = IF i < n THEN budget
                                ELSE w.size - (n - 1) * budget]>>]

\* The chunks that are too large, split at breaks of this strength.
Finer(parts, break, budget) ==
    FlattenSeq([i \in DOMAIN parts |->
        IF Weight(parts[i]) <= budget THEN <<parts[i]>>
                                      ELSE Greedy(Units(parts[i], break), budget)])

\* The words that are too large, split by characters.
Cut(parts, budget) ==
    FlattenSeq([i \in DOMAIN parts |->
        IF Weight(parts[i]) <= budget THEN <<parts[i]>> ELSE Pieces(parts[i][1], budget)])

\* adaptiveSemanticChunks: what is still too large is split at weaker breaks,
\* down to characters.
Chunked(words, budget) ==
    LET paragraphs == Finer(<<words>>, Paragraph, budget)
        sentences  == Finer(paragraphs, Sentence, budget)
        lines      == Finer(sentences, Line, budget)
    IN Cut(Finer(lines, Word, budget), budget)

-----------------------------------------------------------------------------
(* The calls. *)

Request(words) == <<Msg(1, "system", SystemSize),
                    Msg(2, "user", PrefixSize + Weight(words))>>

NoRequest == asked = <<>> /\ cur = <<>> /\ limit = Unset /\ keep = 0 /\ turn = 0

\* A long text, for the gate of a text tool.
TextInit ==
    /\ text \in Texts /\ setting \in Settings
    /\ mode \in {"shrink", "chunk", "auto"}
    /\ onLast \in {"off", "truncate", "error"}
    /\ NoRequest /\ strategies = <<"dropOldest", "truncateLines">> /\ doing = "idle"
    /\ outcome = "running"

\* A chat that is fitted on its own (contextWindow, a gate with messages).
TalkInit ==
    \E talk \in Talks :
        /\ asked = talk.messages /\ cur = talk.messages /\ limit = talk.limit
        /\ strategies = talk.strategies /\ onLast = talk.onLast
        /\ keep = 0 /\ turn = 0 /\ doing = "next"
        /\ text = <<>> /\ mode = "shrink"
        /\ setting = [context |-> Unset, cap |-> Unset, reserve |-> Unset, output |-> 0,
                     held |-> 0, prompts |-> 0]
        /\ outcome = "talk"

ToolInit == (TextInit \/ TalkInit) /\ chunks = <<>> /\ answers = <<>>

\* Whether the dispatcher splits at all.
Splits == /\ mode # "shrink" /\ ChunkLimit(setting) # Unset
          /\ mode = "auto" => Weight(text) > InputBudget(setting)

Split ==
    /\ outcome = "running" /\ chunks = <<>>
    /\ chunks' = IF Splits THEN Chunked(text, InputBudget(setting))
                 ELSE <<text>>
    /\ UNCHANGED <<fitVars, text, mode, setting, answers, outcome>>

\* The gate of the next call: prepare, then the fitter.
Ask ==
    /\ outcome = "running" /\ doing = "idle"
    /\ Len(answers) < Len(chunks)
    /\ Fit(Request(chunks[Len(answers) + 1]), CallLimit(setting))
    /\ UNCHANGED <<strategies, onLast, textVars>>

\* The model answers the request as it was fitted.
Answer ==
    /\ outcome = "running" /\ doing = "fitted"
    /\ answers' = Append(answers, [chunk |-> chunks[Len(answers) + 1],
                                   whole |-> cur = asked])
    /\ asked' = <<>> /\ cur' = <<>> /\ limit' = Unset /\ keep' = 0
    /\ doing' = "idle" /\ turn' = 0
    /\ UNCHANGED <<strategies, onLast, text, mode, setting, chunks, outcome>>

\* A call refused by the fitter or failed fails the tool, chunks answered so
\* far or not.
CallFails ==
    /\ outcome = "running" /\ doing \in {"fitted", "threw"}
    /\ outcome' = "failed"
    /\ UNCHANGED <<fitVars, text, mode, setting, chunks, answers>>

\* merge
Merge ==
    /\ outcome = "running" /\ chunks # <<>> /\ Len(answers) = Len(chunks)
    /\ outcome' = "done"
    /\ UNCHANGED <<fitVars, text, mode, setting, chunks, answers>>

ToolNext ==
    \/ Split \/ Ask \/ Answer \/ CallFails \/ Merge
    \/ FitStep /\ UNCHANGED textVars

ToolSpec == ToolInit /\ [][ToolNext]_toolVars

-----------------------------------------------------------------------------
(* Properties. *)

\* Shape of the state.
ToolTypes ==
    /\ FitTypeOK
    /\ text \in Texts \cup {<<>>} /\ mode \in {"shrink", "chunk", "auto"}
    /\ setting \in Setting
    /\ outcome \in {"running", "done", "failed", "talk"}
    /\ chunks \in Seq(Seq(Words)) /\ Len(answers) <= Len(chunks)
    /\ answers \in Seq([chunk : Seq(Words), whole : BOOLEAN])

\* Every chunk is within the budget, and the chunks are the text: no word is
\* lost, doubled or moved, whatever breaks it has and however long it is.
ChunksAreTheText ==
    chunks # <<>> =>
        /\ Spelt(FlattenSeq(chunks)) = Spelt(text)
        /\ Splits => \A c \in ToSet(chunks) : Weight(c) <= InputBudget(setting)

\* The ways to group units that follow each other, by where groups begin.
Fitting(units, budget) ==
    {starts \in SUBSET DOMAIN units :
        /\ 1 \in starts
        /\ \A g \in ToSet(Parts(units, starts)) : Weight(FlattenSeq(g)) <= budget}

\* A text whose paragraphs all fit is given to the model in as few calls as
\* its paragraphs allow.
NoCallTooMany ==
    LET units == Units(text, Paragraph)
    IN /\ chunks # <<>> /\ text # <<>> /\ Splits
       /\ \A u \in ToSet(units) : Weight(u) <= InputBudget(setting)
       => Len(chunks) = Min({Cardinality(s) : s \in Fitting(units, InputBudget(setting))})

\* What the call's own budget leaves for the answer.
ForAnswer(s) == IF s.reserve # Unset THEN s.reserve ELSE s.output

\* What is set aside is enough for what the call takes beside the chunk, and the token
\* limit leaves a call what the context does.
Covers(s) ==
    LET prompt == SystemSize + PrefixSize + 2 * Overhead
    IN IF s.context = Unset THEN SetAside(s) >= prompt
       ELSE /\ SetAside(s) >= prompt + ForAnswer(s)
            /\ s.cap = Unset \/ s.cap >= s.context - ForAnswer(s)

\* What was sent in a chunk's call is the whole chunk: a text that was split
\* to fit is not cut again by the fitter of the call, nor refused, wherever the
\* guess of the prompts and the answer covers them and leaves room for a chunk.
ChunksAreSentWhole ==
    Splits /\ ChunkLimit(setting) > SetAside(setting) /\ Covers(setting)
        => /\ \A a \in ToSet(answers) : a.whole
           /\ doing # "threw"

Protected ==
    {i \in DOMAIN asked : asked[i].role = "system" \/ i \in LastUser(asked)}

\* The system messages and the last user message are in the request, as they
\* were and in their order, whatever the strategies dropped, cut or summarized;
\* only the lastMessage setting touches the last user message.
ProtectedSurvive ==
    /\ onLast \in {"off", "error"} \/ doing # "fitted"
           => \A i \in Protected : \E j \in DOMAIN cur : cur[j] = asked[i]
    /\ \A j \in DOMAIN cur : cur[j].n # 0 => cur[j].n \in DOMAIN asked
                                           /\ cur[j].role = asked[cur[j].n].role
    /\ \A i, j \in DOMAIN cur :
          i < j /\ cur[i].n # 0 /\ cur[j].n # 0 => cur[i].n < cur[j].n

\* The messages that remain when all but the last s unprotected ones go.
Recent(s) ==
    LET un == Unprotected(asked)
    IN Without(asked, ToSet(SubSeq(un, 1, Len(un) - s)))

\* Dropping the oldest, and sliding a window, leaves the longest recent part
\* of the conversation that fits, and nothing but what is protected where none
\* does.
LongestRecentPart ==
    /\ doing = "fitted" /\ onLast = "off" /\ limit # Unset
    /\ strategies \in {<<"dropOldest">>, <<"slidingWindow">>}
    /\ Len(Unprotected(asked)) <= WindowSize
    =>
        LET fitting == {s \in 0..Len(Unprotected(asked)) : Count(Recent(s)) <= limit}
        IN cur = Recent(IF fitting = {} THEN 0 ELSE Max(fitting))
=============================================================================
