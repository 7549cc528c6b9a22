----------------------------- MODULE MCLongText -----------------------------
(* Instances for TLC: texts of three words with every break between them,    *)
(* and conversations of up to five messages with every strategy.             *)
EXTENDS LongText

W(id, size, gap) == [id |-> id, size |-> size, gap |-> gap]

ThreeWords ==
    {<<W(1, a, 3), W(2, b, g), W(3, c, h)>> :
        a, b, c \in {1, 2, 5}, g, h \in 0..3}

S(context, cap, reserve, output, held, prompts) ==
    [context |-> context, cap |-> cap, reserve |-> reserve, output |-> output,
     held |-> held, prompts |-> prompts]

\* The prompts are 3 tokens, the budget and the call read the settings alike; at last
\* prompts that are guessed too small, with and without an answer held back that is shorter
\* than what is held back for it.
SomeSettings ==
    {S(Unset, Unset, Unset, 2, 2, 3), S(Unset, 16, Unset, 3, 3, 3), S(14, Unset, Unset, 4, 4, 3),
     S(16, Unset, Unset, 5, 5, 3), S(14, Unset, 1, 3, 3, 3),
     S(16, Unset, Unset, 4, 4, 1), S(16, Unset, Unset, 2, 5, 1)}

Shapes == {<<"system", "user", "assistant", "user">>,
           <<"user", "assistant", "system", "assistant", "user">>,
           <<"user", "user", "assistant", "user", "user">>}

Unanswered == <<"system", "user", "assistant", "user", "assistant">>

Conversations(roles, sizes) ==
    {Messages([i \in DOMAIN roles |-> <<roles[i], f[i]>>]) :
        f \in [DOMAIN roles -> sizes]}

Plans == {<<"dropOldest">>, <<"slidingWindow">>, <<"dropMiddle">>,
          <<"dropOldest", "truncateLines">>, <<"truncate", "dropOldest">>}

SomeTalks ==
    {[messages |-> m, limit |-> l, strategies |-> s, onLast |-> o] :
        m \in UNION {Conversations(r, {1, 6}) : r \in Shapes},
        l \in {Unset, 7, 13}, s \in Plans \cup {<<"summarize">>},
        o \in {"off", "truncate", "summarize", "error"}}
    \cup
    {[messages |-> m, limit |-> 9, strategies |-> s, onLast |-> "off"] :
        m \in Conversations(Unanswered, {1, 6}), s \in Plans}
=============================================================================
