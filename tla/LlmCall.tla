------------------------------- MODULE LlmCall -------------------------------
(***************************************************************************)
(* Calls of an LLM gate that share a pinned model and a pool of API keys   *)
(* (packages/tools/src/core).  The slots prepare, call and parse           *)
(* (llm-gate.ts) sit on a stack of clients: sticky pin                     *)
(* (openrouter-pool-tool.ts), cache, retry and timeout                     *)
(* (llm-decorators.ts), adapter with key pool (llm-client.ts,              *)
(* openrouter-pool.ts).  A tool step runs several calls at a time; a step  *)
(* here is the code between two awaits.                                    *)
(***************************************************************************)
EXTENDS Integers

CONSTANTS
    Calls,
    CallKeys, NoCallKey,
    Last,       \* the candidate models are 0..Last
    Own,        \* Own[c]: the model a higher layer chose, Last + 1 for none
    Prompt,     \* Prompt[c]: what the call asks
    Cached,     \* cfg.cache
    Retries,    \* Retries[c]: retry.max of its gate
    Shrinks,    \* Shrinks[c]: shrinkOnContextError of its gate
    Fixes       \* Fixes[c]: checkRetries of its gate

Models == 0..Last

None == Last + 1

ASSUME CallConstants ==
    /\ Last \in Nat
    /\ Own \in [Calls -> 0..None]
    /\ Cached \in BOOLEAN
    /\ Retries \in [Calls -> Nat] /\ Shrinks \in [Calls -> Nat] /\ Fixes \in [Calls -> Nat]
    /\ NoCallKey \notin CallKeys

VARIABLES
    pin,        \* the pinned candidate, None before the first call
    disabled, blocked,   \* the pool's keys after 402, and after 429 for a while
    cache,      \* answers by prompt, model and number of corrections
    at,         \* per call: what it awaits, or how it ended
    asked,      \* per call: request.model
    managed,    \* per call: the loop of pinnedClient is in charge
    current,    \* per call: the model being tried
    failed,     \* per call: models that failed in that loop
    attempt, shrunk, fixes,   \* per call: retries, refits, corrections so far
    key,        \* per call: the key of the request on its way
    late,       \* requests given up by a timeout that may still be answered
    answer,     \* per call: whether the last answer will pass the check
    error       \* per call: the kind of the last error

keyPool  == <<disabled, blocked>>
request  == <<asked, managed, current, failed>>
counters == <<attempt, shrunk, fixes>>
callVars == <<pin, keyPool, cache, at, request, counters, key, late, answer, error>>

Errors == {"none", "rate", "quota", "gone", "length", "server", "timeout", "rejected"}

CallTypeOK ==
    /\ pin \in 0..None
    /\ disabled \subseteq CallKeys /\ blocked \subseteq CallKeys
    /\ at \in [Calls -> {"new", "prepared", "lookup", "picking", "sent", "answered", "ok", "error"}]
    /\ asked \in [Calls -> 0..None]
    /\ managed \in [Calls -> BOOLEAN]
    /\ current \in [Calls -> 0..None]
    /\ failed \in [Calls -> SUBSET (0..None)]
    /\ attempt \in [Calls -> Nat] /\ \A c \in Calls : attempt[c] <= Retries[c]
    /\ shrunk \in [Calls -> Nat] /\ \A c \in Calls : shrunk[c] <= Shrinks[c]
    /\ fixes \in [Calls -> Nat] /\ \A c \in Calls : fixes[c] <= Fixes[c]
    /\ key \in [Calls -> CallKeys \cup {NoCallKey}]
    /\ late \subseteq CallKeys
    /\ answer \in [Calls -> BOOLEAN]
    /\ error \in [Calls -> Errors]

CallInit ==
    /\ pin = None
    /\ disabled = {} /\ blocked = {}
    /\ cache = {}
    /\ at = [c \in Calls |-> "new"]
    /\ asked = [c \in Calls |-> None]
    /\ managed = [c \in Calls |-> FALSE]
    /\ current = [c \in Calls |-> None]
    /\ failed = [c \in Calls |-> {}]
    /\ attempt = [c \in Calls |-> 0]
    /\ shrunk = [c \in Calls |-> 0]
    /\ fixes = [c \in Calls |-> 0]
    /\ key = [c \in Calls |-> NoCallKey]
    /\ late = {}
    /\ answer = [c \in Calls |-> FALSE]
    /\ error = [c \in Calls |-> "none"]

Goto(c, p) == at' = [at EXCEPT ![c] = p]

Overrides(c) == Own[c] # None

-----------------------------------------------------------------------------
(* Pool of keys *)

Available == CallKeys \ (disabled \cup blocked)

\* applyPoolError, also for an answer nobody waits for any more.
PoolError(k, e) ==
    /\ blocked' = IF e = "rate" /\ k \in CallKeys THEN blocked \cup {k} ELSE blocked
    /\ disabled' = IF e = "quota" /\ k \in CallKeys THEN disabled \cup {k} ELSE disabled

\* blockedUntil has passed.
UnblockKey(k) ==
    /\ k \in blocked
    /\ blocked' = blocked \ {k}
    /\ UNCHANGED <<pin, disabled, cache, at, request, counters, key, late, answer, error>>

\* The pool has outlived its TTL; the next getPool() builds a new one.
PoolExpires ==
    /\ disabled \cup blocked # {}
    /\ disabled' = {} /\ blocked' = {}
    /\ UNCHANGED <<pin, cache, at, request, counters, key, late, answer, error>>

-----------------------------------------------------------------------------
(* Pinned client *)

\* pinFor: the first call pins, whichever model it asks for.
Pinned == IF pin = None THEN 0 ELSE pin

\* 404, 402, or 429 with every key blocked.
ShouldRepin(e) == e \in {"gone", "quota"} \/ (e = "rate" /\ Available' = {})

\* The candidates behind the pin, nearest first.
Behind(i) == (Pinned + i) % (Last + 1)

\* (Mutant: the next in turn, failed or not.)
NextInTurn(tried) == IF Last = 0 THEN None ELSE Behind(1)

\* The first candidate after the pin that has not failed in this call, None if there is none.
NextCandidate(tried) ==
    IF \E i \in 1..Last : Behind(i) \notin tried
      THEN Behind(CHOOSE i \in 1..Last :
                    /\ Behind(i) \notin tried
                    /\ \A j \in 1..(i - 1) : Behind(j) \in tried)
      ELSE None

\* (Mutant: a call pins the model it names.)
InvokePinning(c, model) ==
    /\ pin' = model
    /\ managed' = [managed EXCEPT ![c] = TRUE]
    /\ current' = [current EXCEPT ![c] = model]
    /\ failed' = [failed EXCEPT ![c] = {}]
    /\ attempt' = [attempt EXCEPT ![c] = 0]
    /\ Goto(c, "lookup")

\* client.chatCompletion(request): pinned calls are those that name the pinned model.
Invoke(c, model) ==
    /\ pin' = Pinned
    /\ managed' = [managed EXCEPT ![c] = model = Pinned]
    /\ current' = [current EXCEPT ![c] = model]
    /\ failed' = [failed EXCEPT ![c] = {}]
    /\ attempt' = [attempt EXCEPT ![c] = 0]
    /\ Goto(c, "lookup")

\* Whichever model is pinned now (mutant of Onwards).
OnwardsToPin(c, tried) == IF Pinned = current[c] THEN NextCandidate(tried) ELSE Pinned

\* The candidate the loop goes on with after its current one has failed, None if it throws.
Onwards(c, tried) ==
    IF Pinned = current[c] THEN NextCandidate(tried)
    ELSE IF Pinned \in tried THEN None
    ELSE Pinned

-----------------------------------------------------------------------------
(* Gate: prepare, call, parse *)

\* prepare: the pinned model unless a higher layer chose one.
Prepare(c) ==
    /\ at[c] = "new"
    /\ asked' = [asked EXCEPT ![c] = IF Overrides(c) THEN Own[c] ELSE Pinned]
    /\ pin' = IF Overrides(c) THEN pin ELSE Pinned
    /\ Goto(c, "prepared")
    /\ UNCHANGED <<keyPool, cache, managed, current, failed, counters, key, late, answer, error>>

\* call, after fit.
Start(c) ==
    /\ at[c] = "prepared"
    /\ Invoke(c, asked[c])
    /\ UNCHANGED <<keyPool, cache, asked, shrunk, fixes, key, late, answer, error>>

\* parse: the answer passes the check.
Pass(c) ==
    /\ at[c] = "answered"
    /\ answer[c]
    /\ Goto(c, "ok")
    /\ UNCHANGED <<pin, keyPool, cache, request, counters, key, late, answer, error>>

\* It does not: ask again, with the model of the request.
Correct(c) ==
    /\ at[c] = "answered"
    /\ ~answer[c]
    /\ fixes[c] < Fixes[c]
    /\ fixes' = [fixes EXCEPT ![c] = @ + 1]
    /\ Invoke(c, asked[c])
    /\ UNCHANGED <<keyPool, cache, asked, shrunk, key, late, answer, error>>

GiveUp(c) ==
    /\ at[c] = "answered"
    /\ ~answer[c]
    /\ fixes[c] = Fixes[c]
    /\ error' = [error EXCEPT ![c] = "rejected"]
    /\ Goto(c, "error")
    /\ UNCHANGED <<pin, keyPool, cache, request, counters, key, late, answer>>

-----------------------------------------------------------------------------
(* Cache, retry, timeout, adapter *)

\* What computeKey hashes: the prompt with its refits and corrections, and the model.
CacheKey(c) == <<Prompt[c], current[c], shrunk[c], fixes[c]>>

\* client.chatCompletion() returns; what its layers kept is gone.
Return(c) ==
    /\ Goto(c, "answered")
    /\ managed' = [managed EXCEPT ![c] = FALSE]
    /\ current' = [current EXCEPT ![c] = None]
    /\ failed' = [failed EXCEPT ![c] = {}]
    /\ attempt' = [attempt EXCEPT ![c] = 0]

Hit(c) ==
    /\ at[c] = "lookup"
    /\ Cached
    /\ \E good \in BOOLEAN :
        /\ <<CacheKey(c), good>> \in cache
        /\ answer' = [answer EXCEPT ![c] = good]
    /\ Return(c)
    /\ UNCHANGED <<pin, keyPool, cache, asked, shrunk, fixes, key, late, error>>

Miss(c) ==
    /\ at[c] = "lookup"
    /\ Cached => \A good \in BOOLEAN : <<CacheKey(c), good>> \notin cache
    /\ Goto(c, "picking")
    /\ UNCHANGED <<pin, keyPool, cache, request, counters, key, late, answer, error>>

\* An error surfaces from the retries: repin and try the next candidate, refit a
\* prompt that is too long, or fail.
Surface(c, e) ==
    LET tried  == failed[c] \cup {current[c]}
        repins == managed[c] /\ ShouldRepin(e)
        on     == IF repins THEN Onwards(c, tried) ELSE None
    IN
    \/ /\ on # None
       /\ pin' = on
       /\ current' = [current EXCEPT ![c] = on]
       /\ failed' = [failed EXCEPT ![c] = tried]
       /\ attempt' = [attempt EXCEPT ![c] = 0]
       /\ Goto(c, "lookup")
       /\ UNCHANGED <<managed, shrunk, error>>
    \/ /\ ~repins
       /\ e = "length" /\ fixes[c] = 0 /\ shrunk[c] < Shrinks[c]
       /\ shrunk' = [shrunk EXCEPT ![c] = @ + 1]
       /\ Invoke(c, asked[c])
       /\ UNCHANGED error
    \/ /\ on = None
       /\ error' = [error EXCEPT ![c] = e]
       /\ failed' = IF repins THEN [failed EXCEPT ![c] = tried] ELSE failed
       /\ Goto(c, "error")
       /\ UNCHANGED <<pin, managed, current, attempt, shrunk>>

Retryable(e) == e \in {"rate", "server", "timeout"}

\* withRetry: once more after a wait, or out of it.
Raise(c, e) ==
    IF Retryable(e) /\ attempt[c] < Retries[c]
      THEN /\ attempt' = [attempt EXCEPT ![c] = @ + 1]
           /\ Goto(c, "picking")
           /\ UNCHANGED <<pin, error, managed, current, failed, shrunk>>
      ELSE Surface(c, e)

\* getAvailableClient: round robin over the keys that are neither disabled nor blocked.
Send(c) ==
    /\ at[c] = "picking"
    /\ \E k \in Available : key' = [key EXCEPT ![c] = k]
    /\ Goto(c, "sent")
    /\ UNCHANGED <<pin, keyPool, cache, request, counters, late, answer, error>>

NoKeyLeft(c) ==
    /\ at[c] = "picking"
    /\ Available = {}
    /\ UNCHANGED keyPool
    /\ Raise(c, "rate")
    /\ UNCHANGED <<cache, asked, fixes, key, late, answer>>

Answer(c) ==
    /\ at[c] = "sent"
    /\ \E good \in BOOLEAN :
        /\ answer' = [answer EXCEPT ![c] = good]
        /\ cache' = IF Cached
                      THEN {e \in cache : e[1] # CacheKey(c)} \cup {<<CacheKey(c), good>>}
                      ELSE cache
    /\ Return(c)
    /\ key' = [key EXCEPT ![c] = NoCallKey]
    /\ UNCHANGED <<pin, keyPool, asked, shrunk, fixes, late, error>>

Fail(c) ==
    /\ at[c] = "sent"
    /\ \E e \in {"rate", "quota", "gone", "length", "server"} :
        /\ PoolError(key[c], e)
        /\ Raise(c, e)
    /\ key' = [key EXCEPT ![c] = NoCallKey]
    /\ UNCHANGED <<cache, asked, fixes, late, answer>>

\* The guard wins the race; a transport that ignores the signal may still answer.
Timeout(c) ==
    /\ at[c] = "sent"
    /\ late' = late \cup {key[c]}
    /\ key' = [key EXCEPT ![c] = NoCallKey]
    /\ UNCHANGED keyPool
    /\ Raise(c, "timeout")
    /\ UNCHANGED <<cache, asked, fixes, answer>>

\* Its error still reaches the pool, nothing else.
LateAnswer(k) ==
    /\ k \in late
    /\ late' = late \ {k}
    /\ \E e \in {"none", "rate", "quota"} : PoolError(k, e)
    /\ UNCHANGED <<pin, cache, at, request, counters, key, answer, error>>

-----------------------------------------------------------------------------
CallStep(c) ==
    \/ Prepare(c) \/ Start(c)
    \/ Hit(c) \/ Miss(c) \/ Send(c) \/ NoKeyLeft(c)
    \/ Answer(c) \/ Fail(c) \/ Timeout(c)
    \/ Pass(c) \/ Correct(c) \/ GiveUp(c)

CallNext ==
    \/ \E c \in Calls : CallStep(c)
    \/ \E k \in CallKeys : UnblockKey(k) \/ LateAnswer(k)
    \/ PoolExpires

CallSpec == CallInit /\ [][CallNext]_callVars

\* Every await ends: a request is answered, fails or runs into its timeout.
CallFairSpec == CallSpec /\ \A c \in Calls : WF_callVars(CallStep(c))

-----------------------------------------------------------------------------
Settled(c) == at[c] \in {"ok", "error"}

\* The pin moves only away from a model that has failed for the very call that moves
\* it: two calls that fail on one model move it once, a slow failure of an older pin
\* does not move it at all (openrouter-pool-tool.ts:120-139).
MovesFromFailed ==
    pin \in Models /\ pin' # pin =>
        \E c \in Calls : managed[c] /\ current[c] = pin /\ pin \in failed'[c]

PinMovesFromFailed == [][MovesFromFailed]_callVars

\* One request tries no candidate twice, whatever other calls do to the pin meanwhile.
NoModelTwice ==
    \A c \in Calls :
        at[c] \in {"lookup", "picking", "sent"} => current[c] \notin failed[c]

\* Every call ends, although every error may move it to another model, prompts are
\* refitted, answers are corrected and keys come and go.
CallsSettle == \A c \in Calls : <>Settled(c)
==============================================================================
