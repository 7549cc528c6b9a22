----------------------------- MODULE HttpSource -----------------------------
(***************************************************************************)
(* The hs:// source (packages/waypoint/src/http-server.ts): request        *)
(* handlers that feed a buffer, and the async generator the pipeline pulls *)
(* from.  A handler decides in one step once it has read the body; what    *)
(* the generator does between two awaits is one step.                      *)
(***************************************************************************)
EXTENDS Integers, Sequences

CONSTANTS
    Posts,      \* requests to the ingest endpoint
    Tails,      \* clients of GET /events
    MaxBuffer,  \* maxBuffer
    Limit,      \* count, or 0 for none
    NoPost

ASSUME SourceConstants ==
    /\ MaxBuffer \in Nat \ {0}
    /\ Limit \in Nat
    /\ NoPost \notin Posts

VARIABLES
    alive,      \* the process of the run
    src,        \* what the generator awaits
    req,        \* per request: not sent, its body being read, or the answer
    buffer,
    hand,       \* the item its resolver was called with
    received,   \* receivedCount
    yielded,    \* the items yielded; their number is yieldedCount once next() is called
    subscribers

sourceVars == <<alive, src, req, buffer, hand, received, yielded, subscribers>>

SourceTypeOK ==
    /\ alive \in BOOLEAN
    /\ src \in {"new", "listening", "waiting", "ready", "yielded", "closing", "ended"}
    /\ req \in [Posts -> {"idle", "reading", "cut", "received", "surplus",
                          "refused", "full"}]
    /\ buffer \in Seq(Posts)
    /\ hand \in Posts \cup {NoPost}
    /\ received \in Nat
    /\ yielded \in Seq(Posts)
    /\ subscribers \subseteq Tails

SourceInit ==
    /\ alive = TRUE
    /\ src = "new"
    /\ req = [p \in Posts |-> "idle"]
    /\ buffer = <<>>
    /\ hand = NoPost
    /\ received = 0
    /\ yielded = <<>>
    /\ subscribers = {}

Up == alive /\ src \in {"waiting", "ready", "yielded"}

-----------------------------------------------------------------------------
(* Clients *)

\* A client sends a request, again if it was told to retry later.
Post(p) ==
    /\ Up
    /\ req[p] \in {"idle", "full"}
    /\ req' = [req EXCEPT ![p] = "reading"]
    /\ UNCHANGED <<alive, src, buffer, hand, received, yielded, subscribers>>

\* It leaves while its body is read.
Leave(p) ==
    /\ alive
    /\ req[p] = "reading"
    /\ req' = [req EXCEPT ![p] = "cut"]
    /\ UNCHANGED <<alive, src, buffer, hand, received, yielded, subscribers>>

\* The body's iterator throws outside of the handler's try: nothing handles the
\* rejection, which ends a Node process.
Unhandled(p) ==
    /\ alive
    /\ req[p] = "cut"
    /\ alive' = FALSE
    /\ UNCHANGED <<src, req, buffer, hand, received, yielded, subscribers>>

Subscribe(t) ==
    /\ Up
    /\ t \notin subscribers
    /\ subscribers' = subscribers \cup {t}
    /\ UNCHANGED <<alive, src, req, buffer, hand, received, yielded>>

Unsubscribe(t) ==
    /\ alive
    /\ t \in subscribers
    /\ subscribers' = subscribers \ {t}
    /\ UNCHANGED <<alive, src, req, buffer, hand, received, yielded>>

-----------------------------------------------------------------------------
(* POST handler, the body has been read *)

Reply(p, answer) == req' = [req EXCEPT ![p] = answer]

HasRoom == Len(buffer) < MaxBuffer

\* 413 and 400 (not told apart), 503: nothing but the answer.
Refuse(p) ==
    /\ Up
    /\ req[p] = "reading"
    /\ \/ Reply(p, "refused")
       \/ ~HasRoom /\ Reply(p, "full")
    /\ UNCHANGED <<alive, src, buffer, hand, received, yielded, subscribers>>

\* deliverEnvelope: to the waiting generator or into the buffer.
Deliver(p) ==
    IF src = "waiting"
      THEN src' = "ready" /\ hand' = p /\ UNCHANGED buffer
      ELSE buffer' = Append(buffer, p) /\ UNCHANGED <<src, hand>>

\* (Mutant: the item after the last counts as part of the run.)
ReceiveOneMore(p) ==
    /\ Up
    /\ req[p] = "reading"
    /\ HasRoom
    /\ received' = received + 1
    /\ Limit = 0 \/ received <= Limit
    /\ Deliver(p)
    /\ Reply(p, "received")
    /\ UNCHANGED <<alive, yielded, subscribers>>

\* 200, the item becomes part of the run.
Receive(p) ==
    /\ Up
    /\ req[p] = "reading"
    /\ HasRoom
    /\ received' = received + 1
    /\ Limit = 0 \/ received' <= Limit
    /\ Deliver(p)
    /\ Reply(p, "received")
    /\ UNCHANGED <<alive, yielded, subscribers>>

\* 200 as well, though the run has all the items it was to take.
ReceiveSurplus(p) ==
    /\ Up
    /\ req[p] = "reading"
    /\ HasRoom
    /\ received' = received + 1
    /\ Limit # 0 /\ received' > Limit
    /\ Reply(p, "surplus")
    /\ UNCHANGED <<alive, src, buffer, hand, yielded, subscribers>>

-----------------------------------------------------------------------------
(* The generator *)

\* The first next() calls listen().
Listen ==
    /\ src = "new"
    /\ src' = "listening"
    /\ UNCHANGED <<alive, req, buffer, hand, received, yielded, subscribers>>

\* The executor of the promise: from the buffer, or wait for a handler.
Pull ==
    IF buffer # <<>>
      THEN src' = "ready" /\ hand' = Head(buffer) /\ buffer' = Tail(buffer)
      ELSE src' = "waiting" /\ UNCHANGED <<hand, buffer>>

Listening ==
    /\ alive
    /\ src = "listening"
    /\ Pull
    /\ UNCHANGED <<alive, req, received, yielded, subscribers>>

\* The port is taken: nothing listens to the server's 'error'.
ListenFails ==
    /\ alive
    /\ src = "listening"
    /\ alive' = FALSE
    /\ UNCHANGED <<src, req, buffer, hand, received, yielded, subscribers>>

Yield ==
    /\ alive
    /\ src = "ready"
    /\ src' = "yielded"
    /\ yielded' = Append(yielded, hand)
    /\ hand' = NoPost
    /\ UNCHANGED <<alive, req, buffer, received, subscribers>>

\* finally: subscribers are ended, every connection is closed, bodies half-way too.
Shutdown ==
    /\ src' = "closing"
    /\ subscribers' = {}
    /\ req' = [p \in Posts |-> IF req[p] = "reading" THEN "cut" ELSE req[p]]

\* next() after a yield: the count is reached, or the next item.
Advance ==
    /\ src = "yielded"
    /\ IF Limit # 0 /\ Len(yielded) >= Limit
         THEN Shutdown /\ UNCHANGED <<buffer, hand>>
         ELSE Pull /\ UNCHANGED <<req, subscribers>>
    /\ UNCHANGED <<alive, received, yielded>>

\* return() after a yield: the pipeline failed.
Return ==
    /\ src = "yielded"
    /\ Shutdown
    /\ UNCHANGED <<alive, buffer, hand, received, yielded>>

\* server.close() calls back when no connection is open.
Closed ==
    /\ alive
    /\ src = "closing"
    /\ subscribers = {}
    /\ \A p \in Posts : req[p] # "reading"
    /\ src' = "ended"
    /\ UNCHANGED <<alive, req, buffer, hand, received, yielded, subscribers>>

\* The process dies.
Crash ==
    /\ alive
    /\ alive' = FALSE
    /\ UNCHANGED <<src, req, buffer, hand, received, yielded, subscribers>>

ClientStep ==
    \/ \E p \in Posts : Post(p) \/ Leave(p)
    \/ \E t \in Tails : Subscribe(t) \/ Unsubscribe(t)

HandlerStep(p) == Unhandled(p) \/ Refuse(p) \/ Receive(p) \/ ReceiveSurplus(p)
==============================================================================
