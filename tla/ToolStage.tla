------------------------------ MODULE ToolStage ------------------------------
(***************************************************************************)
(* A tool step of a pipeline: mapConcurrent keeps a window of items in     *)
(* flight (packages/core/src/engine/stream.ts), each item goes through the *)
(* cache, the retries and the error policy (runner.ts: runTool,            *)
(* runToolItem; retry.ts, cache.ts, dead-letter.ts).                       *)
(*                                                                         *)
(* A step is the code between two awaits.  The generator of mapConcurrent  *)
(* awaits its source, the head of the window or its consumer; every item   *)
(* in flight is a task of its own, which goes on when the stage has ended. *)
(***************************************************************************)
EXTENDS Integers, Sequences, FiniteSets

CONSTANTS
    Count,      \* bound on the items of the source
    Window,     \* concurrency: Math.max(1, Math.floor(...))
    Max,        \* retry.max
    Keys,       \* cache keys of a cacheable tool
    NoKey,      \* the key of a tool that is not cacheable
    Key,        \* Key[i]: computeKey of item i
    MayFail     \* whether tools, source, store and consumer may fail

ASSUME StageConstants ==
    /\ Count \in Nat
    /\ Window \in Nat \ {0}
    /\ Max \in Nat
    /\ NoKey \notin Keys
    /\ Key \in [1..Count -> Keys \cup {NoKey}]
    /\ MayFail \in BOOLEAN

Items == 1..Count

Policies == {"fail-run", "dead-letter", "skip-item"}

VARIABLES
    onError,      \* the step's error policy
    size,         \* items the source has
    gen,          \* what the generator of mapConcurrent awaits
    reason,       \* why it ended: open, complete, failed, closed
    pulled,       \* nextIndex
    done,         \* the source has ended
    pending,      \* the window
    head,         \* the slot shifted from it and not resolved, or 0
    item,         \* per item: where runToolItem stands, or its outcome
    attempt,      \* per item: calls of the tool so far
    fatal,        \* per item: the last call failed with a fatal error
    succeeded,    \* items whose tool call returned
    cache,        \* keys with an entry in .mt/cache
    deadLetters,  \* items in dead-letter.jsonl
    out           \* items the consumer received

genVars  == <<gen, reason, pulled, done, pending, head, out>>
itemVars == <<attempt, fatal, succeeded, cache, deadLetters>>
inputs   == <<onError, size>>
vars == <<inputs, genVars, item, itemVars>>

Outcomes == {"result", "dropped", "error"}
Working == {"lookup", "invoking", "backoff", "caching", "deadLettering"}

TypeOK ==
    /\ onError \in Policies
    /\ size \in 0..Count
    /\ gen \in {"seeding", "awaiting", "pulling", "yielded", "releasing", "ended"}
    /\ reason \in {"open", "complete", "failed", "closed"}
    /\ pulled \in 0..Count
    /\ done \in BOOLEAN
    /\ pending \in Seq(Items)
    /\ head \in 0..Count
    /\ item \in [Items -> {"waiting"} \cup Working \cup Outcomes]
    /\ attempt \in [Items -> 0..(Max + 1)]
    /\ fatal \in [Items -> BOOLEAN]
    /\ succeeded \subseteq Items
    /\ cache \subseteq Keys
    /\ deadLetters \in Seq(Items)
    /\ out \in Seq(Items)

Settled(i) == item[i] \in Outcomes

InFlight == {i \in Items : item[i] \in Working}

Init ==
    /\ onError \in Policies
    /\ size \in 0..Count
    /\ gen = "seeding"
    /\ reason = "open"
    /\ pulled = 0
    /\ done = FALSE
    /\ pending = <<>>
    /\ head = 0
    /\ item = [i \in Items |-> "waiting"]
    /\ attempt = [i \in Items |-> 0]
    /\ fatal = [i \in Items |-> FALSE]
    /\ succeeded = {}
    /\ cache = {}
    /\ deadLetters = <<>>
    /\ out = <<>>

-----------------------------------------------------------------------------
(* mapConcurrent *)

\* The finally block: the source is returned unless it has ended.
Leave(ended) == gen' = IF ended THEN "ended" ELSE "releasing"

\* while (pending.length > 0)
Loop(window) ==
    IF window = <<>>
      THEN gen' = "ended" /\ reason' = "complete"
      ELSE gen' = "awaiting" /\ UNCHANGED reason

\* if (head.error) throw; if (head.result) yield; drop the rest
Resolve(h, window, ended) ==
    \/ /\ item[h] = "error"
       /\ head' = h
       /\ reason' = "failed"
       /\ Leave(ended)
       /\ UNCHANGED out
    \/ /\ item[h] = "dropped"
       /\ head' = 0
       /\ Loop(window)
       /\ UNCHANGED out
    \/ /\ item[h] = "result"
       /\ head' = 0
       /\ out' = Append(out, h)
       /\ gen' = "yielded"
       /\ UNCHANGED reason

\* The seed loop fills one slot too many (mutant of Filled).
OverFilled(window) == Len(window) > Window

Filled(window) == Len(window) >= Window

\* iter.next() answers: the item is started.
SourceYields ==
    /\ gen \in {"seeding", "pulling"}
    /\ pulled < size
    /\ LET i == pulled + 1
           window == Append(pending, i)
       IN /\ pulled' = i
          /\ pending' = window
          /\ item' = [item EXCEPT ![i] = IF Key[i] = NoKey THEN "invoking" ELSE "lookup"]
          /\ attempt' = [attempt EXCEPT ![i] = IF Key[i] = NoKey THEN 1 ELSE 0]
          /\ \/ /\ gen = "seeding"
                /\ gen' = IF Filled(window) THEN "awaiting" ELSE "seeding"
                /\ UNCHANGED <<reason, head, out>>
             \/ /\ gen = "pulling"
                /\ Resolve(head, window, FALSE)
    /\ UNCHANGED <<inputs, done, fatal, succeeded, cache, deadLetters>>

\* The seed loop asks an ended source again (mutant of Seeded).
SeedsOn == gen' = "seeding" /\ UNCHANGED reason

\* if (!next) break
Seeded == Loop(pending)

SourceEnds ==
    /\ gen \in {"seeding", "pulling"}
    /\ pulled = size
    /\ done' = TRUE
    /\ \/ /\ gen = "seeding"
          /\ Seeded
          /\ UNCHANGED <<head, out>>
       \/ /\ gen = "pulling"
          /\ Resolve(head, pending, TRUE)
    /\ UNCHANGED <<inputs, pulled, pending, item, itemVars>>

\* iter.next() rejects: a finished head is not resolved any more.
SourceThrows ==
    /\ MayFail
    /\ gen \in {"seeding", "pulling"}
    /\ reason' = "failed"
    /\ Leave(FALSE)
    /\ UNCHANGED <<inputs, pulled, done, pending, head, out, item, itemVars>>

\* Whichever slot settles first, as with ordered: false (mutant of HeadSettles).
AnySettles ==
    /\ gen = "awaiting"
    /\ \E k \in 1..Len(pending) :
         /\ Settled(pending[k])
         /\ pending' = SubSeq(pending, 1, k - 1) \o SubSeq(pending, k + 1, Len(pending))
         /\ \/ /\ ~done
               /\ gen' = "pulling"
               /\ head' = pending[k]
               /\ UNCHANGED <<reason, out>>
            \/ /\ done
               /\ Resolve(pending[k], pending', TRUE)
    /\ UNCHANGED <<inputs, pulled, done, item, itemVars>>

\* await head.promise: with a source that has ended there is nothing to pull.
HeadSettles ==
    /\ gen = "awaiting"
    /\ Settled(Head(pending))
    /\ pending' = Tail(pending)
    /\ \/ /\ ~done
          /\ gen' = "pulling"
          /\ head' = Head(pending)
          /\ UNCHANGED <<reason, out>>
       \/ /\ done
          /\ Resolve(Head(pending), pending', TRUE)
    /\ UNCHANGED <<inputs, pulled, done, item, itemVars>>

\* The consumer asks for the next envelope.
ConsumerNext ==
    /\ gen = "yielded"
    /\ Loop(pending)
    /\ UNCHANGED <<inputs, pulled, done, pending, head, out, item, itemVars>>

\* The consumer leaves its loop, as writeTarget does when a write throws.
ConsumerLeaves ==
    /\ MayFail
    /\ gen = "yielded"
    /\ reason' = "closed"
    /\ Leave(done)
    /\ UNCHANGED <<inputs, pulled, done, pending, head, out, item, itemVars>>

\* iter.return() settles.
Release ==
    /\ gen = "releasing"
    /\ gen' = "ended"
    /\ UNCHANGED <<inputs, reason, pulled, done, pending, head, out, item, itemVars>>

-----------------------------------------------------------------------------
(* runToolItem *)

\* tryCacheGet: a hit is the result; an entry that cannot be read is a miss.
Lookup(i) ==
    /\ item[i] = "lookup"
    /\ \/ /\ Key[i] \in cache
          /\ item' = [item EXCEPT ![i] = "result"]
          /\ UNCHANGED attempt
       \/ /\ Key[i] \notin cache \/ MayFail
          /\ item' = [item EXCEPT ![i] = "invoking"]
          /\ attempt' = [attempt EXCEPT ![i] = 1]
    /\ UNCHANGED <<inputs, genVars, fatal, succeeded, cache, deadLetters>>

\* tool.invoke() returns.
Succeed(i) ==
    /\ item[i] = "invoking"
    /\ succeeded' = succeeded \cup {i}
    /\ item' = [item EXCEPT ![i] = IF Key[i] = NoKey THEN "result" ELSE "caching"]
    /\ UNCHANGED <<inputs, genVars, attempt, fatal, cache, deadLetters>>

\* One attempt less, one more (mutants of Retries).
RetriesLess(i) == attempt[i] < Max
RetriesMore(i) == attempt[i] <= Max + 1

\* attempt < max, and the error is not fatal.
Retries(i) == attempt[i] <= Max

\* A skipped item passes through cache.set (mutant of GivenUp).
GivenUpCaching ==
    [p \in Policies |-> CASE p = "fail-run" -> "error"
                           [] p = "dead-letter" -> "deadLettering"
                           [] p = "skip-item" -> "caching"]

\* Where the error policy sends an item withRetry has given up.
GivenUp ==
    [p \in Policies |-> CASE p = "fail-run" -> "error"
                           [] p = "dead-letter" -> "deadLettering"
                           [] p = "skip-item" -> "dropped"]

\* tool.invoke() throws an error worth a retry, or a fatal one.
Throw(i) ==
    /\ MayFail
    /\ item[i] = "invoking"
    /\ \E isFatal \in BOOLEAN :
         /\ fatal' = [fatal EXCEPT ![i] = isFatal]
         /\ item' = [item EXCEPT ![i] = IF Retries(i) /\ ~isFatal THEN "backoff"
                                                             ELSE GivenUp[onError]]
    /\ UNCHANGED <<inputs, genVars, attempt, succeeded, cache, deadLetters>>

\* The backoff is over: the tool is called once more.
BackedOff(i) ==
    /\ item[i] = "backoff"
    /\ item' = [item EXCEPT ![i] = "invoking"]
    /\ attempt' = [attempt EXCEPT ![i] = @ + 1]
    /\ UNCHANGED <<inputs, genVars, fatal, succeeded, cache, deadLetters>>

\* cache.set(): a failure leaves the result uncached, or cached all the same.
StoreResult(i) ==
    /\ item[i] = "caching"
    /\ item' = [item EXCEPT ![i] = "result"]
    /\ \/ cache' = cache \cup {Key[i]}
       \/ MayFail /\ UNCHANGED cache
    /\ UNCHANGED <<inputs, genVars, attempt, fatal, succeeded, deadLetters>>

\* writeDeadLetter(): if the append rejects, so does the item.
DeadLetter(i) ==
    /\ item[i] = "deadLettering"
    /\ \/ /\ deadLetters' = Append(deadLetters, i)
          /\ item' = [item EXCEPT ![i] = "dropped"]
       \/ /\ MayFail
          /\ item' = [item EXCEPT ![i] = "error"]
          /\ UNCHANGED deadLetters
    /\ UNCHANGED <<inputs, genVars, attempt, fatal, succeeded, cache>>

-----------------------------------------------------------------------------
GenStep == SourceYields \/ SourceEnds \/ HeadSettles \/ ConsumerNext \/ Release

ItemStep(i) == Lookup(i) \/ Succeed(i) \/ Throw(i) \/ BackedOff(i)
               \/ StoreResult(i) \/ DeadLetter(i)

Next == \/ GenStep \/ SourceThrows \/ ConsumerLeaves
        \/ \E i \in Items : ItemStep(i)

Spec == Init /\ [][Next]_vars

(* The source answers, tools and files settle, and the consumer goes on    *)
(* until it leaves: each is a promise the runtime settles.                 *)
Fairness == WF_vars(GenStep) /\ \A i \in Items : WF_vars(ItemStep(i))

FairSpec == Spec /\ Fairness

-----------------------------------------------------------------------------
\* Items that have left the window for good.
Given == pulled - Len(pending) - (IF head = 0 THEN 0 ELSE 1)

Sequential == INSTANCE SequentialStage WITH
    dropped <- {i \in Items : item[i] = "dropped"},
    given <- Given,
    end <- reason

(* However the items in flight overtake each other, the consumer sees them *)
(* in the order of the source, none skipped unless it was dropped and none *)
(* after the one the stage failed at: "Preserves input order in output"    *)
(* (mapConcurrent).                                                        *)
IsSequential == Sequential!Spec

(* "Keeps at most concurrency items in flight", backoffs, cache and dead-  *)
(* letter writes included, also when the stage has ended (mapConcurrent).  *)
WindowIsBounded == Cardinality(InFlight) <= Window

Occurrences(s, i) == Cardinality({k \in 1..Len(s) : s[k] = i})

(* A stage that ends complete has accounted for every item once: its       *)
(* result was passed on, or the policy dropped it after a fatal error or   *)
(* max + 1 calls, with one line in dead-letter.jsonl where that is the     *)
(* policy (runToolItem, withRetry, writeDeadLetter).                       *)
NothingVanishes ==
    reason = "complete" =>
        \A i \in 1..size :
            \/ /\ Occurrences(out, i) = 1 /\ Occurrences(deadLetters, i) = 0
            \/ /\ Occurrences(out, i) = 0
               /\ onError # "fail-run"
               /\ fatal[i] \/ attempt[i] = Max + 1
               /\ Occurrences(deadLetters, i) = IF onError = "dead-letter" THEN 1 ELSE 0

(* Nothing is passed on that no tool call returned: a cache hit stands for *)
(* a call that succeeded for the same key (runToolItem, tryCacheGet).      *)
ResultsAreEarned ==
    \A k \in 1..Len(out) :
        \E j \in succeeded : j = out[k] \/ (Key[j] = Key[out[k]] /\ Key[j] # NoKey)

(* Every stage ends and every item it started settles, also those in       *)
(* flight when it failed or was closed (mapConcurrent, withRetry).         *)
StageSettles == <>[](gen = "ended" /\ InFlight = {})
==============================================================================
