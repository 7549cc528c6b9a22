--------------------------- MODULE HttpToFileProofs ---------------------------
(***************************************************************************)
(* Proofs about HttpToFile: what an ingest endpoint acknowledged is handed *)
(* over as AcknowledgedQueue says, for any requests and bounds; and, when  *)
(* no two writers of the path have a tag in common, the path shows nothing *)
(* but complete outputs and a run that is done has published its own.      *)
(***************************************************************************)
EXTENDS HttpToFile, SequenceTheorems, TLAPS

-----------------------------------------------------------------------------
(* Sequences *)

LEMMA PrependFacts ==
    ASSUME NEW S, NEW h \in S, NEW s \in Seq(S)
    PROVE  /\ <<h>> \o s \in Seq(S) /\ <<h>> \o s # <<>>
           /\ Len(<<h>> \o s) = Len(s) + 1
           /\ (<<h>> \o s)[1] = h
           /\ \A i \in 1..Len(s) : (<<h>> \o s)[i + 1] = s[i]
  <1>1. <<h>> \in Seq(S) /\ Len(<<h>>) = 1 /\ <<h>>[1] = h /\ Len(s) \in Nat
    BY LenProperties
  <1> DEFINE q == <<h>> \o s
  <1>2. /\ q \in Seq(S) /\ Len(q) = 1 + Len(s)
        /\ \A i \in 1..(1 + Len(s)) : q[i] = IF i <= 1 THEN <<h>>[i] ELSE s[i - 1]
    BY <1>1, ConcatProperties
  <1> HIDE DEF q
  <1>3. q[1] = h /\ \A i \in 1..Len(s) : q[i + 1] = s[i]
    BY <1>1, <1>2
  <1>4. q # <<>>
    BY <1>1, <1>2, EmptySeq
  <1> QED BY <1>1, <1>2, <1>3, <1>4 DEF q

LEMMA PrependHeadTail ==
    ASSUME NEW S, NEW h \in S, NEW s \in Seq(S)
    PROVE  Head(<<h>> \o s) = h /\ Tail(<<h>> \o s) = s
  <1> DEFINE q == <<h>> \o s
  <1>1. /\ q \in Seq(S) /\ q # <<>> /\ Len(q) = Len(s) + 1 /\ q[1] = h
        /\ \A i \in 1..Len(s) : q[i + 1] = s[i]
    BY PrependFacts
  <1>2. Len(s) \in Nat
    BY LenProperties
  <1> HIDE DEF q
  <1>3. Head(q) = h
    BY <1>1
  <1>4. /\ Tail(q) \in Seq(S) /\ Len(Tail(q)) = Len(s)
        /\ \A i \in 1..Len(s) : Tail(q)[i] = s[i]
    BY <1>1, <1>2, HeadTailProperties
  <1>5. Tail(q) = s
    BY <1>4, SeqEqual
  <1> QED BY <1>3, <1>5 DEF q

LEMMA HeadBeforeTail ==
    ASSUME NEW S, NEW s \in Seq(S), s # <<>> PROVE <<Head(s)>> \o Tail(s) = s
  <1>1. /\ Head(s) \in S /\ Tail(s) \in Seq(S) /\ Len(Tail(s)) = Len(s) - 1
        /\ \A i \in 1..Len(Tail(s)) : Tail(s)[i] = s[i + 1]
    BY HeadTailProperties
  <1>2. Len(s) \in Nat \ {0} /\ Head(s) = s[1]
    BY EmptySeq
  <1> DEFINE q == <<Head(s)>> \o Tail(s)
  <1>3. /\ q \in Seq(S) /\ Len(q) = Len(s) /\ q[1] = s[1]
        /\ \A i \in 1..Len(Tail(s)) : q[i + 1] = Tail(s)[i]
    BY <1>1, <1>2, PrependFacts
  <1> HIDE DEF q
  <1>4. ASSUME NEW i \in 1..Len(s) PROVE q[i] = s[i]
    <2>1. CASE i = 1
      BY <2>1, <1>3
    <2>2. CASE i # 1
      <3>1. i - 1 \in 1..Len(Tail(s)) /\ (i - 1) + 1 = i
        BY <1>1, <1>2, <2>2
      <3> QED BY <1>1, <1>3, <3>1
    <2> QED BY <2>1, <2>2
  <1>5. q = s
    BY <1>3, <1>4, SeqEqual
  <1> QED BY <1>5 DEF q

LEMMA AppendPrepend ==
    ASSUME NEW S, NEW h \in S, NEW s \in Seq(S), NEW c \in S
    PROVE  Append(<<h>> \o s, c) = <<h>> \o Append(s, c)
  <1>1. <<h>> \in Seq(S) /\ <<c>> \in Seq(S) /\ <<h>> \o s \in Seq(S)
    BY PrependFacts
  <1>2. /\ Append(<<h>> \o s, c) = (<<h>> \o s) \o <<c>>
        /\ Append(s, c) = s \o <<c>>
    BY <1>1, AppendIsConcat
  <1> QED BY <1>1, <1>2, ConcatAssociative

-----------------------------------------------------------------------------
(* The source *)

\* Received and not yet yielded.
Waiting == IF hand = NoPost THEN buffer ELSE <<hand>> \o buffer

\* What waits or was yielded was received, and there is no more of it than was counted.
QueueInv ==
    /\ hand # NoPost <=> src = "ready"
    /\ src = "waiting" => buffer = <<>>
    /\ hand # NoPost => req[hand] = "received"
    /\ \A i \in 1..Len(buffer) : req[buffer[i]] = "received"
    /\ \A i \in 1..Len(yielded) : req[yielded[i]] = "received"
    /\ Len(yielded) + Len(Waiting) <= received
    /\ Limit # 0 => Len(yielded) + Len(Waiting) <= Limit

SourceInv == SourceTypeOK /\ threw \in BOOLEAN /\ QueueInv

LEMMA WaitingFacts ==
    ASSUME SourceTypeOK
    PROVE  /\ Waiting \in Seq(Posts) /\ Len(Waiting) \in Nat /\ Len(buffer) \in Nat
           /\ Len(yielded) \in Nat
           /\ hand = NoPost => Waiting = buffer
           /\ hand # NoPost => hand \in Posts /\ Len(Waiting) = Len(buffer) + 1
           /\ \A i \in 1..Len(Waiting) :
                \/ hand # NoPost /\ Waiting[i] = hand
                \/ \E j \in 1..Len(buffer) : Waiting[i] = buffer[j]
  <1>1. buffer \in Seq(Posts) /\ Len(buffer) \in Nat /\ Len(yielded) \in Nat
    BY LenProperties DEF SourceTypeOK
  <1>2. CASE hand = NoPost
    BY <1>1, <1>2 DEF Waiting
  <1>3. CASE hand # NoPost
    <2>1. hand \in Posts /\ Waiting = <<hand>> \o buffer
      BY <1>3 DEF SourceTypeOK, Waiting
    <2>2. /\ Waiting \in Seq(Posts) /\ Len(Waiting) = Len(buffer) + 1 /\ Waiting[1] = hand
          /\ \A i \in 1..Len(buffer) : Waiting[i + 1] = buffer[i]
      BY <1>1, <2>1, PrependFacts
    <2>3. ASSUME NEW i \in 1..Len(Waiting)
          PROVE  Waiting[i] = hand \/ \E j \in 1..Len(buffer) : Waiting[i] = buffer[j]
      <3>1. CASE i = 1
        BY <2>2, <3>1
      <3>2. CASE i # 1
        <4>1. i - 1 \in 1..Len(buffer) /\ (i - 1) + 1 = i
          BY <1>1, <2>2, <3>2
        <4> QED BY <2>2, <4>1
      <3> QED BY <3>1, <3>2
    <2> QED BY <1>1, <1>3, <2>1, <2>2, <2>3
  <1> QED BY <1>2, <1>3

Over == ~alive \/ src \in {"closing", "ended"}

Broken == ~alive \/ threw

\* The steps of the queue, in terms of the pipeline.
LEMMA QueueAcknowledges ==
    ASSUME NEW p \in Posts, ~Over, Len(Waiting) <= MaxBuffer,
           \A i \in 1..Len(Waiting) : Waiting[i] # p,
           \A i \in 1..Len(yielded) : yielded[i] # p,
           Waiting' = Append(Waiting, p), yielded' = yielded, Over' <=> Over, Broken' <=> Broken
    PROVE  Queue!Next
  BY DEF Queue!Next, Queue!Acknowledge, Queue!Known, Queue!Taken, Waiting, Over, Broken

LEMMA QueueHandsOver ==
    ASSUME ~Over, Waiting # <<>>, Waiting' = Tail(Waiting), yielded' = Append(yielded, Head(Waiting)),
           Over' <=> Over, Broken' <=> Broken
    PROVE  Queue!Next
  BY DEF Queue!Next, Queue!HandOver, Waiting, Over, Broken

LEMMA QueueCompletes ==
    ASSUME Waiting = <<>>, Waiting' = Waiting, yielded' = yielded, Over', Broken' <=> Broken
    PROVE  Queue!Next
  BY DEF Queue!Next, Queue!Complete, Waiting, Over, Broken

LEMMA QueueBreaks ==
    ASSUME Waiting' = Waiting, yielded' = yielded, Over', Broken'
    PROVE  Queue!Next
  BY DEF Queue!Next, Queue!Break, Waiting, Over, Broken

LEMMA QueueStutters ==
    ASSUME Waiting' = Waiting, yielded' = yielded, Over' <=> Over, Broken' <=> Broken
    PROVE  UNCHANGED Queue!vars
  BY DEF Queue!vars, Waiting, Over, Broken

(* A step that neither takes nor yields an item keeps the invariant.       *)
LEMMA QuietSteps ==
    ASSUME SourceInv, SourceTypeOK', threw' \in BOOLEAN,
           UNCHANGED <<buffer, hand, yielded>>, received <= received',
           \A p \in Posts : req[p] = "received" => req'[p] = "received",
           src' = "ready" <=> src = "ready", src' = "waiting" => src = "waiting"
    PROVE  SourceInv' /\ Waiting' = Waiting
  <1>1. Waiting' = Waiting
    BY DEF Waiting
  <1>2. /\ Len(Waiting) \in Nat /\ Len(yielded) \in Nat /\ Limit \in Nat
        /\ received \in Nat /\ received' \in Nat
    BY WaitingFacts, SourceConstants DEF SourceInv, SourceTypeOK, SourceConstants
  <1>3. /\ \A i \in 1..Len(buffer) : buffer[i] \in Posts
        /\ \A i \in 1..Len(yielded) : yielded[i] \in Posts
        /\ hand # NoPost => hand \in Posts
    BY ElementOfSeq DEF SourceInv, SourceTypeOK
  <1>4. QueueInv'
    <2>1. Len(yielded') + Len(Waiting') <= received'
      BY <1>1, <1>2 DEF SourceInv, QueueInv
    <2> QED BY <1>1, <1>3, <2>1 DEF SourceInv, QueueInv
  <1> QED BY <1>1, <1>4 DEF SourceInv

\* A step of the source that is one of the queue's, or none of them.
Follows == SourceInv' /\ [Queue!Next]_(Queue!vars)

LEMMA ListenFollows ==
    ASSUME SourceInv, Listen, UNCHANGED threw
    PROVE  Follows
  <1>1. SourceTypeOK' /\ threw' \in BOOLEAN
    BY DEF SourceInv, SourceTypeOK, Listen
  <1>2. SourceInv' /\ Waiting' = Waiting
    BY <1>1, QuietSteps DEF Listen, SourceInv, SourceTypeOK
  <1> QED BY <1>2, QueueStutters DEF Listen, Over, Broken, Follows

LEMMA ClosedFollows ==
    ASSUME SourceInv, Closed, UNCHANGED threw
    PROVE  Follows
  <1>1. SourceTypeOK' /\ threw' \in BOOLEAN
    BY DEF SourceInv, SourceTypeOK, Closed
  <1>2. SourceInv' /\ Waiting' = Waiting
    BY <1>1, QuietSteps DEF Closed, SourceInv, SourceTypeOK
  <1> QED BY <1>2, QueueStutters DEF Closed, Over, Broken, Follows

LEMMA DeathFollows ==
    ASSUME SourceInv, alive' = FALSE, UNCHANGED <<src, req, buffer, hand, received, yielded, subscribers>>,
           UNCHANGED threw
    PROVE  Follows
  <1>1. SourceTypeOK' /\ threw' \in BOOLEAN
    BY DEF SourceInv, SourceTypeOK
  <1>2. SourceInv' /\ Waiting' = Waiting
    BY <1>1, QuietSteps DEF SourceInv, SourceTypeOK
  <1> QED BY <1>2, QueueBreaks DEF Over, Broken, Follows

LEMMA ReturnFollows ==
    ASSUME SourceInv, Return, threw' = TRUE
    PROVE  Follows
  <1>1. SourceTypeOK' /\ threw' \in BOOLEAN
    BY DEF SourceInv, SourceTypeOK, Return, Shutdown
  <1>2. SourceInv' /\ Waiting' = Waiting
    BY <1>1, QuietSteps DEF Return, Shutdown, SourceInv, SourceTypeOK
  <1> QED BY <1>2, QueueBreaks DEF Return, Shutdown, Over, Broken, Follows

LEMMA ClientFollows ==
    ASSUME SourceInv, ClientStep, UNCHANGED threw
    PROVE  Follows
  <1>1. /\ UNCHANGED <<alive, src, buffer, hand, received, yielded>>
        /\ SourceTypeOK'
        /\ \A p \in Posts : req[p] = "received" => req'[p] = "received"
    <2>1. CASE \E p \in Posts : Post(p) \/ Leave(p)
      BY <2>1 DEF Post, Leave, SourceInv, SourceTypeOK
    <2>2. CASE \E t \in Tails : Subscribe(t) \/ Unsubscribe(t)
      BY <2>2 DEF Subscribe, Unsubscribe, SourceInv, SourceTypeOK
    <2> QED BY <2>1, <2>2 DEF ClientStep
  <1>2. SourceInv' /\ Waiting' = Waiting
    BY <1>1, QuietSteps DEF SourceInv, SourceTypeOK
  <1> QED BY <1>1, <1>2, QueueStutters DEF Over, Broken, Follows

(* Refusals and surplus items do not reach the queue.                      *)
LEMMA RefusalFollows ==
    ASSUME SourceInv, NEW p \in Posts, Refuse(p) \/ ReceiveSurplus(p), UNCHANGED threw
    PROVE  Follows
  <1>1. /\ UNCHANGED <<alive, src, buffer, hand, yielded>>
        /\ received <= received' /\ SourceTypeOK'
        /\ \A q \in Posts : req[q] = "received" => req'[q] = "received"
    <2>1. CASE Refuse(p)
      BY <2>1 DEF Refuse, Reply, SourceInv, SourceTypeOK
    <2>2. CASE ReceiveSurplus(p)
      BY <2>2 DEF ReceiveSurplus, Reply, SourceInv, SourceTypeOK
    <2> QED BY <2>1, <2>2
  <1>2. SourceInv' /\ Waiting' = Waiting
    BY <1>1, QuietSteps DEF SourceInv, SourceTypeOK
  <1> QED BY <1>1, <1>2, QueueStutters DEF Over, Broken, Follows

(* An item that is received waits last.                                    *)
LEMMA ReceiveFollows ==
    ASSUME SourceInv, NEW p \in Posts, Receive(p), UNCHANGED threw
    PROVE  Follows
  <1>1. /\ alive /\ src \in {"waiting", "ready", "yielded"} /\ req[p] = "reading"
        /\ Len(buffer) < MaxBuffer /\ received' = received + 1 /\ (Limit = 0 \/ received + 1 <= Limit)
        /\ req' = [req EXCEPT ![p] = "received"] /\ UNCHANGED <<alive, yielded, subscribers>>
    BY DEF Receive, Up, HasRoom, Reply
  <1>2. /\ Len(Waiting) \in Nat /\ Len(yielded) \in Nat /\ Limit \in Nat /\ received \in Nat
        /\ MaxBuffer \in Nat /\ Len(buffer) \in Nat /\ p # NoPost /\ NoPost \notin Posts
        /\ buffer \in Seq(Posts) /\ yielded \in Seq(Posts) /\ hand \in Posts \cup {NoPost}
    BY WaitingFacts, SourceConstants DEF SourceInv, SourceTypeOK, SourceConstants
  <1>3. /\ \A i \in 1..Len(buffer) : buffer[i] \in Posts /\ buffer[i] # p
        /\ \A i \in 1..Len(yielded) : yielded[i] \in Posts /\ yielded[i] # p
        /\ hand # p
    BY <1>1, <1>2, ElementOfSeq DEF SourceInv, QueueInv
  <1>4. \A i \in 1..Len(Waiting) : Waiting[i] # p
    BY <1>3, WaitingFacts DEF SourceInv
  <1>5. Len(Waiting) <= MaxBuffer
    BY <1>1, <1>2, WaitingFacts DEF SourceInv
  <1>6. /\ src' \in {"ready", "yielded"} /\ (hand' # NoPost <=> src' = "ready")
        /\ hand' \in Posts \cup {NoPost} /\ hand' \in {hand, p}
        /\ buffer' \in Seq(Posts)
        /\ \A i \in 1..Len(buffer') : buffer'[i] = p \/ \E j \in 1..Len(buffer) : buffer'[i] = buffer[j]
        /\ Waiting' = Append(Waiting, p)
    <2>1. CASE src = "waiting"
      <3>1. src' = "ready" /\ hand' = p /\ buffer' = buffer /\ buffer = <<>> /\ hand = NoPost
        BY <2>1 DEF Receive, Deliver, SourceInv, QueueInv
      <3>2. Waiting = <<>> /\ Waiting' = <<p>> \o <<>>
        BY <1>2, <3>1 DEF Waiting
      <3>3. Waiting' = Append(Waiting, p)
        BY <3>2, EmptySeq, ConcatEmptySeq, AppendIsConcat
      <3> QED BY <1>2, <3>1, <3>3
    <2>2. CASE src # "waiting"
      <3>1. buffer' = Append(buffer, p) /\ src' = src /\ hand' = hand
        BY <2>2 DEF Receive, Deliver
      <3>2. /\ buffer' \in Seq(Posts) /\ Len(buffer') = Len(buffer) + 1
            /\ \A i \in 1..Len(buffer) : buffer'[i] = buffer[i]
            /\ buffer'[Len(buffer) + 1] = p
        BY <1>2, <3>1, AppendProperties
      <3>3. Waiting' = Append(Waiting, p)
        <4>1. CASE hand = NoPost
          BY <3>1, <4>1 DEF Waiting
        <4>2. CASE hand # NoPost
          <5>1. Waiting = <<hand>> \o buffer /\ Waiting' = <<hand>> \o Append(buffer, p)
            BY <3>1, <4>2 DEF Waiting
          <5> QED BY <1>2, <4>2, <5>1, AppendPrepend
        <4> QED BY <4>1, <4>2
      <3>4. \A i \in 1..Len(buffer') : buffer'[i] = p \/ \E j \in 1..Len(buffer) : buffer'[i] = buffer[j]
        BY <1>2, <3>2
      <3> QED BY <1>1, <1>2, <2>2, <3>1, <3>2, <3>3, <3>4 DEF SourceInv, QueueInv
    <2> QED BY <2>1, <2>2
  <1>7. Len(Waiting') = Len(Waiting) + 1
    BY <1>6, WaitingFacts, AppendProperties DEF SourceInv
  <1>8. SourceTypeOK' /\ threw' \in BOOLEAN
    BY <1>1, <1>2, <1>6 DEF SourceInv, SourceTypeOK
  <1>9. QueueInv'
    <2>1. \A q \in Posts : req[q] = "received" \/ q = p => req'[q] = "received"
      BY <1>1 DEF SourceInv, SourceTypeOK
    <2>2. \A i \in 1..Len(buffer') : req'[buffer'[i]] = "received"
      BY <1>3, <1>6, <2>1 DEF SourceInv, QueueInv
    <2>3. \A i \in 1..Len(yielded') : req'[yielded'[i]] = "received"
      BY <1>1, <1>3, <2>1 DEF SourceInv, QueueInv
    <2>4. hand' # NoPost => req'[hand'] = "received"
      BY <1>2, <1>6, <2>1 DEF SourceInv, QueueInv
    <2>5. /\ Len(yielded') + Len(Waiting') <= received'
          /\ Limit # 0 => Len(yielded') + Len(Waiting') <= Limit
      BY <1>1, <1>2, <1>7 DEF SourceInv, QueueInv
    <2> QED BY <1>6, <2>2, <2>3, <2>4, <2>5 DEF QueueInv
  <1>10. Queue!Next
    <2>1. ~Over /\ (Over' <=> Over) /\ (Broken' <=> Broken)
      BY <1>1, <1>6 DEF Over, Broken
    <2> QED BY <1>1, <1>3, <1>4, <1>5, <1>6, <2>1, QueueAcknowledges
  <1> QED BY <1>8, <1>9, <1>10 DEF SourceInv, Follows

(* What waits does so in the same order when its first is taken.           *)
LEMMA PullFacts ==
    ASSUME SourceInv, Pull, hand = NoPost
    PROVE  /\ Waiting' = Waiting
           /\ src' \in {"ready", "waiting"} /\ (hand' # NoPost <=> src' = "ready")
           /\ src' = "waiting" => buffer' = <<>>
           /\ hand' \in Posts \cup {NoPost} /\ buffer' \in Seq(Posts)
           /\ hand' # NoPost => req[hand'] = "received"
           /\ \A i \in 1..Len(buffer') : req[buffer'[i]] = "received"
  <1>1. buffer \in Seq(Posts) /\ NoPost \notin Posts
    BY SourceConstants DEF SourceInv, SourceTypeOK, SourceConstants
  <1>2. CASE buffer # <<>>
    <2>1. src' = "ready" /\ hand' = Head(buffer) /\ buffer' = Tail(buffer)
      BY <1>2 DEF Pull
    <2>2. /\ Head(buffer) \in Posts /\ Tail(buffer) \in Seq(Posts)
          /\ Len(Tail(buffer)) = Len(buffer) - 1
          /\ \A i \in 1..Len(Tail(buffer)) : Tail(buffer)[i] = buffer[i + 1]
      BY <1>1, <1>2, HeadTailProperties
    <2>3. Len(buffer) \in Nat \ {0} /\ Head(buffer) = buffer[1]
      BY <1>1, <1>2, EmptySeq
    <2>4. Waiting' = <<Head(buffer)>> \o Tail(buffer) /\ Waiting = buffer
      BY <1>1, <2>1, <2>2 DEF Waiting
    <2>5. Waiting' = Waiting
      BY <1>1, <1>2, <2>4, HeadBeforeTail
    <2>6. req[buffer[1]] = "received" /\ \A i \in 1..Len(Tail(buffer)) : req[buffer[i + 1]] = "received"
      BY <2>2, <2>3 DEF SourceInv, QueueInv
    <2> QED BY <1>1, <2>1, <2>2, <2>3, <2>5, <2>6
  <1>3. CASE buffer = <<>>
    BY <1>1, <1>3 DEF Pull, Waiting, SourceInv, QueueInv
  <1> QED BY <1>2, <1>3

LEMMA PullFollows ==
    ASSUME SourceInv, alive, src \in {"listening", "yielded"}, Pull,
           UNCHANGED <<alive, req, received, yielded, subscribers, threw>>
    PROVE  Follows
  <1>1. hand = NoPost
    BY DEF SourceInv, QueueInv
  <1>2. SourceTypeOK' /\ threw' \in BOOLEAN
    BY <1>1, PullFacts DEF SourceInv, SourceTypeOK
  <1>3. QueueInv'
    BY <1>1, PullFacts DEF SourceInv, QueueInv
  <1>4. UNCHANGED Queue!vars
    BY <1>1, PullFacts, QueueStutters DEF Over, Broken
  <1> QED BY <1>2, <1>3, <1>4 DEF SourceInv, Follows

(* The next item is the one that waits first.                              *)
LEMMA YieldFollows ==
    ASSUME SourceInv, Yield, UNCHANGED threw
    PROVE  Follows
  <1>1. /\ alive /\ src = "ready" /\ src' = "yielded" /\ yielded' = Append(yielded, hand)
        /\ hand' = NoPost /\ UNCHANGED <<alive, req, buffer, received, subscribers>>
    BY DEF Yield
  <1>2. /\ hand \in Posts /\ hand # NoPost /\ req[hand] = "received"
        /\ buffer \in Seq(Posts) /\ yielded \in Seq(Posts) /\ Limit \in Nat /\ received \in Nat
    BY <1>1, SourceConstants DEF SourceInv, SourceTypeOK, QueueInv, SourceConstants
  <1>3. /\ yielded' \in Seq(Posts) /\ Len(yielded') = Len(yielded) + 1
        /\ \A i \in 1..Len(yielded) : yielded'[i] = yielded[i]
        /\ yielded'[Len(yielded) + 1] = hand
    BY <1>1, <1>2, AppendProperties
  <1>4. Waiting = <<hand>> \o buffer /\ Waiting' = buffer
    BY <1>1, <1>2 DEF Waiting
  <1>5. /\ Waiting # <<>> /\ Head(Waiting) = hand /\ Tail(Waiting) = buffer
        /\ Len(Waiting) = Len(buffer) + 1
    BY <1>2, <1>4, PrependFacts, PrependHeadTail
  <1>6. SourceTypeOK' /\ threw' \in BOOLEAN
    BY <1>1, <1>2, <1>3 DEF SourceInv, SourceTypeOK
  <1>7. Len(yielded) \in Nat /\ Len(buffer) \in Nat
    BY WaitingFacts DEF SourceInv
  <1>8. QueueInv'
    <2>1. \A i \in 1..Len(yielded') : req'[yielded'[i]] = "received"
      BY <1>1, <1>2, <1>3, <1>7 DEF SourceInv, QueueInv
    <2>2. /\ Len(yielded') + Len(Waiting') <= received'
          /\ Limit # 0 => Len(yielded') + Len(Waiting') <= Limit
      BY <1>1, <1>2, <1>3, <1>4, <1>5, <1>7 DEF SourceInv, QueueInv
    <2> QED BY <1>1, <2>1, <2>2 DEF SourceInv, QueueInv
  <1>9. Queue!Next
    <2>1. ~Over /\ (Over' <=> Over) /\ (Broken' <=> Broken)
      BY <1>1 DEF Over, Broken
    <2> QED BY <1>1, <1>4, <1>5, <2>1, QueueHandsOver
  <1> QED BY <1>6, <1>8, <1>9 DEF SourceInv, Follows

(* The run ends by its count with nothing left.                            *)
LEMMA AdvanceFollows ==
    ASSUME SourceInv, alive, Advance, UNCHANGED threw
    PROVE  Follows
  <1>1. src = "yielded" /\ UNCHANGED <<alive, received, yielded>>
    BY DEF Advance
  <1>2. CASE Limit # 0 /\ Len(yielded) >= Limit
    <2>1. Shutdown /\ UNCHANGED <<buffer, hand>>
      BY <1>2 DEF Advance
    <2>2. SourceTypeOK' /\ threw' \in BOOLEAN
      BY <1>1, <2>1 DEF Shutdown, SourceInv, SourceTypeOK
    <2>3. SourceInv' /\ Waiting' = Waiting
      BY <1>1, <2>1, <2>2, QuietSteps DEF Shutdown, SourceInv, SourceTypeOK
    <2>4. Len(Waiting) = 0
      BY <1>2, WaitingFacts, SourceConstants DEF SourceInv, QueueInv, SourceConstants
    <2>5. Waiting = <<>>
      BY <2>4, WaitingFacts, EmptySeq DEF SourceInv
    <2>6. Over' /\ (Broken' <=> Broken)
      BY <1>1, <2>1 DEF Shutdown, Over, Broken
    <2> QED BY <1>1, <2>3, <2>5, <2>6, QueueCompletes DEF Follows
  <1>3. CASE ~(Limit # 0 /\ Len(yielded) >= Limit)
    BY <1>1, <1>3, PullFollows DEF Advance
  <1> QED BY <1>2, <1>3

LEMMA SameFollows == ASSUME SourceInv, UNCHANGED <<sourceVars, threw>> PROVE Follows
  <1>1. SourceInv'
    BY DEF SourceInv, SourceTypeOK, QueueInv, Waiting, sourceVars
  <1>2. UNCHANGED Queue!vars
    BY DEF Queue!vars, sourceVars
  <1> QED BY <1>1, <1>2 DEF Follows

(* Every step of the pipeline is one of the queue's or none of them.       *)
LEMMA SourceStep == ASSUME SourceInv, [Next]_vars PROVE Follows
  <1>1. CASE PipelineStep
    <2>1. CASE Opened
      BY <2>1, ListenFollows, SameFollows DEF Opened
    <2>2. CASE WriteItem \/ WriteFailed
      BY <2>2, YieldFollows DEF WriteItem, WriteFailed
    <2>3. CASE Written
      BY <2>3, AdvanceFollows DEF Written
    <2>4. CASE WriteRejected
      BY <2>4, ReturnFollows DEF WriteRejected
    <2>5. CASE CloseTarget \/ TargetClosed
      BY <2>5, SameFollows DEF CloseTarget, TargetClosed
    <2> QED BY <1>1, <2>1, <2>2, <2>3, <2>4, <2>5 DEF PipelineStep
  <1>2. CASE SourceWorks
    <2>1. CASE Listening
      BY <1>2, <2>1, PullFollows DEF SourceWorks, Listening
    <2>2. CASE Closed
      BY <1>2, <2>2, ClosedFollows DEF SourceWorks
    <2>3. ASSUME NEW p \in Posts, HandlerStep(p) PROVE Follows
      BY <1>2, <2>3, DeathFollows, RefusalFollows, ReceiveFollows
      DEF SourceWorks, HandlerStep, Unhandled
    <2> QED BY <1>2, <2>1, <2>2, <2>3 DEF SourceWorks
  <1>3. CASE (ClientStep \/ ListenFails) /\ UNCHANGED <<stage, threw, writerVars>>
    BY <1>3, ClientFollows, DeathFollows DEF ListenFails
  <1>4. CASE ProcessDies
    BY <1>4, DeathFollows DEF ProcessDies, Crash
  <1>5. CASE UNCHANGED <<sourceVars, threw>>
    BY <1>5, SameFollows
  <1> QED BY <1>1, <1>2, <1>3, <1>4, <1>5
          DEF Next, PipeWorks, PipeDies, OtherDies, vars

LEMMA SourceStart == Init => SourceInv
  <1> SUFFICES ASSUME Init PROVE SourceInv
    OBVIOUS
  <1>1. /\ alive = TRUE /\ src = "new" /\ req = [p \in Posts |-> "idle"] /\ buffer = <<>>
        /\ hand = NoPost /\ received = 0 /\ yielded = <<>> /\ subscribers = {} /\ threw = FALSE
    BY DEF Init, SourceInit
  <1>2. <<>> \in Seq(Posts) /\ Len(<<>>) = 0 /\ Limit \in Nat
    BY EmptySeq, SourceConstants DEF SourceConstants
  <1>3. SourceTypeOK
    BY <1>1, <1>2 DEF SourceTypeOK
  <1>4. QueueInv
    BY <1>1, <1>2 DEF QueueInv, Waiting
  <1> QED BY <1>1, <1>3, <1>4 DEF SourceInv


-----------------------------------------------------------------------------
(* The writers of the path *)

LEMMA TableSeq ==
    ASSUME NEW S, NEW n \in Nat, NEW f \in [1..n -> S] PROVE f \in Seq(S) /\ Len(f) = n
  <1>1. f \in Seq(S)
    BY SeqDef
  <1>2. DOMAIN f = 1..n /\ DOMAIN f = 1..Len(f) /\ Len(f) \in Nat
    BY <1>1, LenProperties
  <1>3. ~(n < Len(f)) /\ ~(Len(f) < n)
    <2>1. ASSUME n < Len(f) PROVE FALSE
      <3>1. Len(f) \in 1..Len(f) /\ Len(f) \notin 1..n
        BY <1>2, <2>1
      <3> QED BY <1>2, <3>1
    <2>2. ASSUME Len(f) < n PROVE FALSE
      <3>1. n \in 1..n /\ n \notin 1..Len(f)
        BY <1>2, <2>2
      <3> QED BY <1>2, <3>1
    <2> QED BY <2>1, <2>2
  <1> QED BY <1>1, <1>2, <1>3

LEMMA PutAtType ==
    ASSUME NEW S, NEW file \in Seq(S), NEW n \in Nat \ {0}, NEW chunk \in S, Old \in S
    PROVE  PutAt(file, n, chunk) \in Seq(S)
  <1>1. Len(file) \in Nat /\ \A k \in 1..Len(file) : file[k] \in S
    BY LenProperties
  <1> DEFINE m == IF n > Len(file) THEN n ELSE Len(file)
  <1>2. m \in Nat
    BY <1>1
  <1> HIDE DEF m
  <1> DEFINE f == [k \in 1..m |-> IF k = n THEN chunk ELSE IF k <= Len(file) THEN file[k] ELSE Old]
  <1>3. f \in [1..m -> S]
    BY <1>1, <1>2
  <1>4. f \in Seq(S)
    <2> HIDE DEF f
    <2> QED BY <1>2, <1>3, TableSeq
  <1>5. PutAt(file, n, chunk) = f
    BY DEF PutAt, m
  <1> QED BY <1>4, <1>5

\* No run writes with the tag of another writer.
OwnTags == \A v, w \in Writers : Tag[v] = Tag[w] => v = w

\* The first n chunks of w.
FirstChunks(w, n) == [k \in 1..n |-> <<w, k>>]

LEMMA FirstChunksGrow ==
    ASSUME NEW w \in Writers, NEW n \in Nat
    PROVE  PutAt(FirstChunks(w, n), n + 1, <<w, n + 1>>) = FirstChunks(w, n + 1)
  <1>1. FirstChunks(w, n) \in [1..n -> Chunks]
    BY DEF FirstChunks, Chunks
  <1>2. Len(FirstChunks(w, n)) = n
    BY <1>1, TableSeq
  <1>3. (IF n + 1 > Len(FirstChunks(w, n)) THEN n + 1 ELSE Len(FirstChunks(w, n))) = n + 1
    BY <1>2
  <1>4. PutAt(FirstChunks(w, n), n + 1, <<w, n + 1>>)
        = [k \in 1..(n + 1) |-> IF k = n + 1 THEN <<w, n + 1>>
                                ELSE IF k <= n THEN FirstChunks(w, n)[k] ELSE Old]
    BY <1>2, <1>3 DEF PutAt
  <1> DEFINE value(k) == IF k = n + 1 THEN <<w, n + 1>>
                         ELSE IF k <= n THEN FirstChunks(w, n)[k] ELSE Old
  <1>5. ASSUME NEW k \in 1..(n + 1) PROVE value(k) = <<w, k>>
    <2>1. CASE k = n + 1
      BY <2>1
    <2>2. CASE k # n + 1
      <3>1. k \in 1..n /\ k <= n
        BY <2>2
      <3>2. FirstChunks(w, n)[k] = <<w, k>>
        BY <3>1 DEF FirstChunks
      <3> QED BY <2>2, <3>1, <3>2
    <2> QED BY <2>1, <2>2
  <1>6. PutAt(FirstChunks(w, n), n + 1, <<w, n + 1>>) = [k \in 1..(n + 1) |-> value(k)]
    BY <1>4
  <1> HIDE DEF value
  <1> QED BY <1>5, <1>6 DEF FirstChunks

LEMMA OneChunk == ASSUME NEW w \in Writers PROVE << <<w, 1>> >> = FirstChunks(w, 1)
  <1>1. << <<w, 1>> >> \in Seq(Chunks) /\ Len(<< <<w, 1>> >>) = 1 /\ << <<w, 1>> >>[1] = <<w, 1>>
    BY DEF Chunks
  <1>2. FirstChunks(w, 1) \in [1..1 -> Chunks] /\ FirstChunks(w, 1)[1] = <<w, 1>>
    BY DEF FirstChunks, Chunks
  <1>3. FirstChunks(w, 1) \in Seq(Chunks) /\ Len(FirstChunks(w, 1)) = 1
    BY <1>2, TableSeq
  <1> DEFINE s == << <<w, 1>> >>
             t == FirstChunks(w, 1)
  <1>4. /\ s \in Seq(Chunks) /\ t \in Seq(Chunks) /\ Len(s) = 1 /\ Len(t) = 1
        /\ \A i \in 1..1 : s[i] = t[i]
    BY <1>1, <1>2, <1>3
  <1> HIDE DEF s, t
  <1>5. s = t
    BY <1>4, SeqEqual
  <1> QED BY <1>5 DEF s, t

\* A step of the writer w, its owner's calls and the end of its process included.
WriterMove(w) ==
    WriterStep(w) \/ WriterFault(w) \/ Write(w) \/ WriteThrows(w) \/ Commit(w) \/ Die({w})

Phases == {"new", "sweeping", "open", "draining", "rejected", "ending", "renaming", "aborting",
           "done", "failed", "dead"}

(* Steps that change the phase of a writer and its counters only.          *)
LEMMA CallTypes ==
    ASSUME WriterTypeOK, NEW w \in Writers,
           \/ CreateFails(w) \/ StreamFails(w) \/ RenameFails(w) \/ Finish(w)
           \/ Write(w) \/ WriteThrows(w) \/ Commit(w) \/ Die({w})
    PROVE  WriterTypeOK'
  <1>1. /\ phase' \in [Writers -> Phases] /\ wrote' \in [Writers -> Nat]
        /\ failure' \in [Writers -> BOOLEAN]
        /\ UNCHANGED <<sweep, flushed, fd, tmp, content, final>>
    <2>1. CASE CreateFails(w)
      BY <2>1 DEF CreateFails, Goto, WriterTypeOK, files, Phases
    <2>2. CASE StreamFails(w)
      BY <2>2 DEF StreamFails, Goto, WriterTypeOK, files, Phases
    <2>3. CASE RenameFails(w)
      BY <2>3 DEF RenameFails, Goto, WriterTypeOK, files, Phases
    <2>4. CASE Finish(w)
      BY <2>4 DEF Finish, Goto, WriterTypeOK, files, Phases
    <2>5. CASE Write(w)
      BY <2>5 DEF Write, Goto, WriterTypeOK, files, Phases
    <2>6. CASE WriteThrows(w) \/ Commit(w)
      BY <2>6 DEF WriteThrows, Commit, Goto, WriterTypeOK, files, Phases
    <2>7. CASE Die({w})
      BY <2>7 DEF Die, WriterTypeOK, files, Phases
    <2> QED BY <2>1, <2>2, <2>3, <2>4, <2>5, <2>6, <2>7
  <1> QED BY <1>1 DEF WriterTypeOK, Phases

(* Steps that change files.                                                *)
LEMMA DiskTypes ==
    ASSUME WriterTypeOK, NEW w \in Writers,
           \/ ListTmp(w) \/ (\E t \in Tags : Unlink(w, t)) \/ Create(w) \/ Flush(w)
           \/ WriteFile(w) \/ Rename(w) \/ Abort(w)
    PROVE  WriterTypeOK'
  <1>0. Tag[w] \in Tags /\ <<>> \in Seq(Chunks)
    BY WriterConstants, EmptySeq DEF WriterConstants
  <1>1. CASE ListTmp(w)
    BY <1>1 DEF ListTmp, Goto, WriterTypeOK, files
  <1>2. CASE \E t \in Tags : Unlink(w, t)
    BY <1>2 DEF Unlink, WriterTypeOK
  <1>3. CASE Create(w)
    <2> DEFINE ino == IF tmp[Tag[w]] = Old THEN w ELSE tmp[Tag[w]]
    <2>1. ino \in Writers
      BY <1>0 DEF WriterTypeOK
    <2>2. /\ tmp' = [tmp EXCEPT ![Tag[w]] = ino] /\ fd' = [fd EXCEPT ![w] = ino]
          /\ content' = [content EXCEPT ![ino] = <<>>] /\ phase' = [phase EXCEPT ![w] = "open"]
          /\ UNCHANGED <<sweep, wrote, flushed, failure, final>>
      BY <1>3 DEF Create, Goto
    <2> HIDE DEF ino
    <2> QED BY <1>0, <2>1, <2>2 DEF WriterTypeOK
  <1>4. CASE Flush(w)
    <2> DEFINE new == PutAt(content[fd[w]], flushed[w] + 1, <<w, flushed[w] + 1>>)
    <2>1. /\ flushed[w] \in Nat /\ flushed[w] + 1 \in Nat \ {0}
          /\ <<w, flushed[w] + 1>> \in Chunks /\ Old \in Chunks
      BY DEF WriterTypeOK, Chunks
    <2>2. fd[w] \in Writers => new \in Seq(Chunks)
      BY <2>1, PutAtType DEF WriterTypeOK
    <2>3. content' = [content EXCEPT ![fd[w]] = new]
      BY <1>4 DEF Flush
    <2>4. content' \in [Writers -> Seq(Chunks)]
      <3> HIDE DEF new
      <3> QED BY <2>2, <2>3 DEF WriterTypeOK
    <2>5. phase' \in [Writers -> Phases] /\ flushed' \in [Writers -> Nat]
      BY <1>4, <2>1 DEF Flush, Goto, WriterTypeOK, Phases
    <2>6. UNCHANGED <<sweep, wrote, failure, fd, tmp, final>>
      BY <1>4 DEF Flush
    <2> QED BY <2>4, <2>5, <2>6 DEF WriterTypeOK, Phases
  <1>5. CASE WriteFile(w)
    <2>1. << <<w, 1>> >> \in Seq(Chunks)
      BY DEF Chunks
    <2>2. PICK created \in BOOLEAN, ok \in BOOLEAN :
            /\ phase' = [phase EXCEPT ![w] = IF ok THEN "renaming" ELSE "aborting"]
            /\ tmp' = IF created THEN [tmp EXCEPT ![Tag[w]] = w] ELSE tmp
            /\ wrote' = [wrote EXCEPT ![w] = 1]
            /\ content' = IF ok THEN [content EXCEPT ![w] = << <<w, 1>> >>] ELSE content
      BY <1>5 DEF WriteFile, Goto
    <2>3. content' \in [Writers -> Seq(Chunks)]
      BY <2>1, <2>2 DEF WriterTypeOK
    <2>4. /\ phase' \in [Writers -> Phases] /\ tmp' \in [Tags -> Writers \cup {Old}]
          /\ wrote' \in [Writers -> Nat]
      BY <1>0, <2>2 DEF WriterTypeOK, Phases
    <2>5. UNCHANGED <<sweep, flushed, failure, fd, final>>
      BY <1>5 DEF WriteFile
    <2> QED BY <2>3, <2>4, <2>5 DEF WriterTypeOK, Phases
  <1>6. CASE Rename(w)
    BY <1>0, <1>6 DEF Rename, Goto, WriterTypeOK
  <1>7. CASE Abort(w)
    BY <1>0, <1>7 DEF Abort, Goto, WriterTypeOK
  <1> QED BY <1>1, <1>2, <1>3, <1>4, <1>5, <1>6, <1>7

LEMMA MoveTypes == ASSUME WriterTypeOK, NEW w \in Writers, WriterMove(w) PROVE WriterTypeOK'
  BY CallTypes, DiskTypes DEF WriterMove, WriterStep, WriterFault

(* What happens to the files is a step of one writer.                      *)
LEMMA WriterSteps ==
    ASSUME [Next]_vars PROVE UNCHANGED writerVars \/ \E w \in Writers : WriterMove(w)
  <1>1. Pipe \in Writers /\ Others \subseteq Writers
    BY PipelineConstants DEF PipelineConstants, Writers, Others
  <1>2. CASE PipelineStep
    BY <1>1, <1>2 DEF PipelineStep, Opened, WriteItem, WriteFailed, Written, WriteRejected,
                      CloseTarget, TargetClosed, WriterMove
  <1>3. CASE PipeWorks \/ PipeDies \/ (alive /\ WriterFault(Pipe) /\ UNCHANGED <<sourceVars, stage, threw>>)
    BY <1>1, <1>3 DEF PipeWorks, PipeDies, WriterMove
  <1>4. CASE SourceWorks \/ ProcessDies \/ ((ClientStep \/ ListenFails) /\ UNCHANGED <<stage, threw, writerVars>>)
    BY <1>4 DEF SourceWorks, ProcessDies
  <1>5. ASSUME NEW w \in Others,
               OtherDies(w) \/ WriterStep(w) \/ WriterFault(w) \/ OwnerStep(w)
        PROVE  WriterMove(w)
    BY <1>5 DEF OtherDies, OwnerStep, WriterMove
  <1>6. CASE UNCHANGED vars
    BY <1>6 DEF vars
  <1> QED BY <1>1, <1>2, <1>3, <1>4, <1>5, <1>6 DEF Next

-----------------------------------------------------------------------------
(* What a writer has in the files                                          *)

WriterInv(w) ==
    /\ tmp[Tag[w]] \in {Old, w}
    /\ flushed[w] <= wrote[w]
    /\ phase[w] \in {"new", "sweeping"} => tmp[Tag[w]] = Old /\ flushed[w] = 0
    /\ phase[w] \in {"open", "draining", "rejected", "ending"} =>
        fd[w] = w /\ content[w] = FirstChunks(w, flushed[w])
    /\ phase[w] \in {"renaming", "done"} => content[w] = Full(w)
    /\ final = w => phase[w] = "done"

WritersInv == WriterTypeOK /\ \A w \in Writers : WriterInv(w)

\* What a step of w leaves alone, of the others.
OnlyWriter(w) ==
    /\ final' \in {final, w}
    /\ \A v \in Writers \ {w} :
        /\ phase'[v] = phase[v] /\ wrote'[v] = wrote[v] /\ flushed'[v] = flushed[v]
        /\ fd'[v] = fd[v] /\ content'[v] = content[v]
        /\ tmp'[Tag[v]] \in {Old, tmp[Tag[v]]}

(* A step that leaves the others alone and what the path shows, or         *)
(* publishes.                                                              *)
LEMMA OneWriter ==
    ASSUME WritersInv, NEW w \in Writers, WriterTypeOK', OnlyWriter(w), WriterInv(w)',
           \/ /\ phase'[w] = "done" => phase[w] = "done"
              /\ final' = final
              /\ final = w => content'[w] = content[w]
           \/ phase'[w] = "done" /\ phase[w] # "done" /\ final' = w
    PROVE  WritersInv' /\ CommitPublishes
  <1>1. ASSUME NEW v \in Writers \ {w} PROVE WriterInv(v)'
    BY <1>1, WriterConstants DEF WriterConstants, WritersInv, WriterInv, OnlyWriter, Full
  <1>2. CASE /\ phase'[w] = "done" => phase[w] = "done"
             /\ final' = final
             /\ final = w => content'[w] = content[w]
    <2>1. AtPath' = AtPath
      BY <1>2 DEF AtPath, OnlyWriter, WritersInv, WriterTypeOK
    <2>2. \A v \in Writers : phase'[v] = "done" => phase[v] = "done"
      BY <1>2 DEF OnlyWriter
    <2> QED BY <1>1, <2>1, <2>2 DEF WritersInv, CommitPublishes
  <1>3. CASE phase'[w] = "done" /\ phase[w] # "done" /\ final' = w
    <2>1. AtPath' = Full(w)'
      BY <1>3, WriterConstants DEF WriterConstants, AtPath, WriterInv
    <2>2. \A v \in Writers : phase'[v] = "done" /\ phase[v] # "done" => v = w
      BY <1>3 DEF OnlyWriter
    <2> QED BY <1>1, <1>3, <2>1, <2>2 DEF WritersInv, CommitPublishes
  <1> QED BY <1>1, <1>2, <1>3

(* With a tag of its own.                                                  *)
LEMMA OwnTag == ASSUME OwnTags, NEW v \in Writers, NEW w \in Writers, v # w
                PROVE  Tag[v] \in Tags /\ Tag[w] \in Tags /\ Tag[v] # Tag[w]
  BY WriterConstants DEF WriterConstants, OwnTags

LEMMA CallSteps ==
    ASSUME OwnTags, WritersInv, NEW w \in Writers,
           \/ CreateFails(w) \/ StreamFails(w) \/ RenameFails(w) \/ Finish(w)
           \/ Write(w) \/ WriteThrows(w) \/ Commit(w) \/ Die({w})
    PROVE  WritersInv' /\ CommitPublishes
  <1>1. WriterTypeOK'
    BY CallTypes DEF WritersInv
  <1>2. WriterTypeOK /\ WriterInv(w)
    BY DEF WritersInv
  <1>3. UNCHANGED <<flushed, fd, tmp, content, final>>
    BY DEF CreateFails, StreamFails, RenameFails, Finish, Write, WriteThrows, Commit, Die, files
  <1>4. /\ \A v \in Writers \ {w} : phase'[v] = phase[v] /\ wrote'[v] = wrote[v]
        /\ ~Write(w) => wrote'[w] = wrote[w]
    <2>1. CASE Die({w})
      BY <2>1 DEF Die
    <2>2. CASE ~Die({w})
      BY <1>2, <2>2 DEF CreateFails, StreamFails, RenameFails, Finish, Write, WriteThrows, Commit,
                        Goto, WriterTypeOK
    <2> QED BY <2>1, <2>2
  <1>5. OnlyWriter(w)
    BY <1>3, <1>4 DEF OnlyWriter
  <1>6. phase'[w] = "done" => phase[w] = "done"
    <2>1. CASE Die({w})
      BY <2>1 DEF Die
    <2>2. CASE CreateFails(w) \/ StreamFails(w) \/ RenameFails(w) \/ Finish(w)
      BY <1>2, <2>2 DEF CreateFails, StreamFails, RenameFails, Finish, Goto, WriterTypeOK
    <2>3. CASE Write(w) \/ WriteThrows(w) \/ Commit(w)
      BY <1>2, <2>3 DEF Write, WriteThrows, Commit, Goto, WriterTypeOK
    <2> QED BY <2>1, <2>2, <2>3
  <1>7. WriterInv(w)'
    <2>1. CASE Write(w)
      <3>1. /\ phase[w] = "open" /\ phase'[w] \in {"open", "draining"}
            /\ wrote'[w] = wrote[w] + 1 /\ wrote[w] \in Nat /\ flushed[w] \in Nat
        BY <1>2, <2>1 DEF Write, Goto, WriterTypeOK
      <3> QED BY <1>2, <1>3, <3>1 DEF WriterInv
    <2>2. CASE Finish(w)
      BY <1>2, <1>3, <1>4, <2>2 DEF Finish, Goto, WriterTypeOK, WriterInv, FirstChunks, Full
    <2>3. CASE CreateFails(w)
      BY <1>2, <1>3, <1>4, <2>3 DEF CreateFails, Goto, WriterTypeOK, WriterInv, Full
    <2>4. CASE StreamFails(w)
      BY <1>2, <1>3, <1>4, <2>4 DEF StreamFails, Streaming, Goto, WriterTypeOK, WriterInv, Full
    <2>5. CASE RenameFails(w)
      BY <1>2, <1>3, <1>4, <2>5 DEF RenameFails, Goto, WriterTypeOK, WriterInv, Full
    <2>6. CASE WriteThrows(w) \/ Commit(w)
      BY <1>2, <1>3, <1>4, <2>6 DEF WriteThrows, Commit, Goto, WriterTypeOK, WriterInv, Full
    <2>7. CASE Die({w})
      BY <1>2, <1>3, <1>4, <2>7 DEF Die, Ended, WriterInv, Full
    <2> QED BY <2>1, <2>2, <2>3, <2>4, <2>5, <2>6, <2>7
  <1> QED BY <1>1, <1>3, <1>5, <1>6, <1>7, OneWriter

LEMMA DiskSteps ==
    ASSUME OwnTags, WritersInv, NEW w \in Writers,
           \/ ListTmp(w) \/ (\E t \in Tags : Unlink(w, t)) \/ Create(w) \/ Flush(w)
           \/ WriteFile(w) \/ Rename(w) \/ Abort(w)
    PROVE  WritersInv' /\ CommitPublishes
  <1>1. WriterTypeOK'
    BY DiskTypes DEF WritersInv
  <1>2. WriterTypeOK /\ WriterInv(w) /\ Tag[w] \in Tags /\ w # Old
    BY WriterConstants DEF WriterConstants, WritersInv
  <1>3. \A v \in Writers \ {w} : Tag[v] \in Tags /\ Tag[v] # Tag[w]
    BY OwnTag
  <1>4. CASE ListTmp(w)
    <2>1. /\ phase[w] = "new" /\ phase'[w] = "sweeping"
          /\ \A v \in Writers \ {w} : phase'[v] = phase[v]
          /\ UNCHANGED <<wrote, flushed, fd, tmp, content, final>>
      BY <1>2, <1>4 DEF ListTmp, Goto, WriterTypeOK, files
    <2>2. OnlyWriter(w) /\ WriterInv(w)'
      BY <1>2, <2>1 DEF OnlyWriter, WriterInv
    <2> QED BY <1>1, <2>1, <2>2, OneWriter
  <1>5. CASE \E t \in Tags : Unlink(w, t)
    <2>1. /\ phase[w] = "sweeping" /\ UNCHANGED <<phase, wrote, flushed, fd, content, final>>
          /\ \A v \in Writers : tmp'[Tag[v]] \in {Old, tmp[Tag[v]]}
      BY <1>2, <1>3, <1>5 DEF Unlink, WriterTypeOK
    <2>2. OnlyWriter(w) /\ WriterInv(w)'
      BY <1>2, <2>1 DEF OnlyWriter, WriterInv
    <2> QED BY <1>1, <2>1, <2>2, OneWriter
  <1>6. CASE Create(w)
    <2>1. /\ phase[w] = "sweeping" /\ phase' = [phase EXCEPT ![w] = "open"]
          /\ tmp' = [tmp EXCEPT ![Tag[w]] = w] /\ fd' = [fd EXCEPT ![w] = w]
          /\ content' = [content EXCEPT ![w] = <<>>]
          /\ UNCHANGED <<wrote, flushed, final>>
      BY <1>2, <1>6 DEF Create, Goto, WriterInv
    <2>2. OnlyWriter(w)
      BY <1>2, <1>3, <2>1 DEF OnlyWriter, WriterTypeOK
    <2>3. phase'[w] = "open" /\ tmp'[Tag[w]] = w /\ fd'[w] = w /\ content'[w] = <<>>
      BY <1>2, <2>1 DEF WriterTypeOK
    <2>4. FirstChunks(w, 0) = <<>>
      BY DEF FirstChunks
    <2>5. WriterInv(w)'
      BY <1>2, <2>1, <2>3, <2>4 DEF WriterInv
    <2> QED BY <1>1, <1>2, <2>1, <2>2, <2>3, <2>5, OneWriter DEF WriterInv
  <1>7. CASE Flush(w)
    <2>1. /\ phase[w] \in {"open", "draining", "ending"} /\ flushed[w] < wrote[w]
          /\ phase'[w] \in {"open", "draining", "ending"}
          /\ \A v \in Writers \ {w} : phase'[v] = phase[v]
          /\ flushed' = [flushed EXCEPT ![w] = @ + 1]
          /\ flushed[w] \in Nat /\ wrote[w] \in Nat
          /\ UNCHANGED <<wrote, fd, tmp, final>>
      BY <1>2, <1>7 DEF Flush, Streaming, Goto, WriterTypeOK
    <2>2. fd[w] = w /\ content[w] = FirstChunks(w, flushed[w])
      BY <1>2, <2>1 DEF WriterInv
    <2>3. content' = [content EXCEPT ![w] = FirstChunks(w, flushed[w] + 1)]
      <3>1. content' = [content EXCEPT
                ![w] = PutAt(content[w], flushed[w] + 1, <<w, flushed[w] + 1>>)]
        BY <1>7, <2>2 DEF Flush
      <3>2. PutAt(content[w], flushed[w] + 1, <<w, flushed[w] + 1>>)
            = FirstChunks(w, flushed[w] + 1)
        BY <2>1, <2>2, FirstChunksGrow
      <3> QED BY <3>1, <3>2
    <2>4. OnlyWriter(w)
      BY <1>2, <2>1, <2>3 DEF OnlyWriter, WriterTypeOK
    <2>5. flushed'[w] = flushed[w] + 1 /\ content'[w] = FirstChunks(w, flushed'[w])
      BY <1>2, <2>1, <2>3 DEF WriterTypeOK
    <2>6. WriterInv(w)'
      BY <1>2, <2>1, <2>2, <2>5 DEF WriterInv
    <2> QED BY <1>1, <1>2, <2>1, <2>4, <2>6, OneWriter DEF WriterInv
  <1>8. CASE WriteFile(w)
    <2>1. /\ phase[w] = "new" /\ phase'[w] \in {"renaming", "aborting"}
          /\ \A v \in Writers \ {w} : phase'[v] = phase[v]
          /\ tmp' \in {tmp, [tmp EXCEPT ![Tag[w]] = w]}
          /\ wrote' = [wrote EXCEPT ![w] = 1]
          /\ content' \in {content, [content EXCEPT ![w] = << <<w, 1>> >>]}
          /\ phase'[w] = "renaming" => content' = [content EXCEPT ![w] = << <<w, 1>> >>]
          /\ UNCHANGED <<flushed, fd, final>>
      BY <1>2, <1>8 DEF WriteFile, Goto, WriterTypeOK
    <2>2. OnlyWriter(w)
      BY <1>2, <1>3, <2>1 DEF OnlyWriter, WriterTypeOK
    <2>3. /\ tmp'[Tag[w]] \in {Old, w} /\ wrote'[w] = 1 /\ flushed'[w] = 0
          /\ phase'[w] = "renaming" => content'[w] = FirstChunks(w, 1)
      BY <1>2, <2>1, OneChunk DEF WriterTypeOK, WriterInv
    <2>4. phase'[w] = "renaming" => content'[w] = Full(w)'
      BY <2>3 DEF FirstChunks, Full
    <2>5. WriterInv(w)'
      BY <1>2, <2>1, <2>3, <2>4 DEF WriterInv
    <2> QED BY <1>1, <1>2, <2>1, <2>2, <2>5, OneWriter DEF WriterInv
  <1>9. CASE Rename(w)
    <2>1. /\ phase[w] = "renaming" /\ phase'[w] = "done" /\ final' = w
          /\ \A v \in Writers \ {w} : phase'[v] = phase[v]
          /\ tmp' = [tmp EXCEPT ![Tag[w]] = Old]
          /\ UNCHANGED <<wrote, flushed, fd, content>>
      BY <1>2, <1>9 DEF Rename, Goto, WriterTypeOK, WriterInv
    <2>2. OnlyWriter(w)
      BY <1>2, <1>3, <2>1 DEF OnlyWriter, WriterTypeOK
    <2>3. WriterInv(w)'
      BY <1>2, <2>1 DEF WriterTypeOK, WriterInv, Full
    <2> QED BY <1>1, <2>1, <2>2, <2>3, OneWriter
  <1>10. CASE Abort(w)
    <2>1. /\ phase[w] = "aborting" /\ phase'[w] = "failed"
          /\ \A v \in Writers \ {w} : phase'[v] = phase[v]
          /\ tmp' = [tmp EXCEPT ![Tag[w]] = Old]
          /\ UNCHANGED <<wrote, flushed, fd, content, final>>
      BY <1>2, <1>10 DEF Abort, Goto, WriterTypeOK
    <2>2. OnlyWriter(w)
      BY <1>2, <1>3, <2>1 DEF OnlyWriter, WriterTypeOK
    <2>3. WriterInv(w)'
      BY <1>2, <2>1 DEF WriterTypeOK, WriterInv
    <2> QED BY <1>1, <2>1, <2>2, <2>3, OneWriter
  <1> QED BY <1>4, <1>5, <1>6, <1>7, <1>8, <1>9, <1>10

LEMMA WritersStep ==
    ASSUME OwnTags, WritersInv, [Next]_vars PROVE WritersInv' /\ CommitPublishes
  <1>1. ASSUME NEW w \in Writers, WriterMove(w) PROVE WritersInv' /\ CommitPublishes
    BY <1>1, CallSteps, DiskSteps DEF WriterMove, WriterStep, WriterFault
  <1>2. CASE UNCHANGED writerVars
    <2>1. WritersInv'
      BY <1>2 DEF writerVars, files, WritersInv, WriterTypeOK, WriterInv, Full
    <2>2. AtPath' = AtPath /\ phase' = phase
      BY <1>2 DEF writerVars, files, AtPath
    <2> QED BY <2>1, <2>2 DEF CommitPublishes
  <1> QED BY <1>1, <1>2, WriterSteps

LEMMA WritersStart == Init => WritersInv
  <1> SUFFICES ASSUME Init PROVE WritersInv
    OBVIOUS
  <1>1. /\ phase = [w \in Writers |-> "new"] /\ sweep = [w \in Writers |-> {}]
        /\ wrote = [w \in Writers |-> 0] /\ flushed = [w \in Writers |-> 0]
        /\ failure = [w \in Writers |-> FALSE] /\ fd = [w \in Writers |-> Old]
        /\ tmp = [t \in Tags |-> Old] /\ content = [w \in Writers |-> <<>>] /\ final = Old
    BY DEF Init, WriterInit
  <1>2. <<>> \in Seq(Chunks)
    BY EmptySeq
  <1>3. WriterTypeOK
    BY <1>1, <1>2 DEF WriterTypeOK
  <1>4. ASSUME NEW w \in Writers PROVE WriterInv(w)
    <2>1. Tag[w] \in Tags /\ w # Old
      BY WriterConstants DEF WriterConstants
    <2> QED BY <1>1, <2>1 DEF WriterInv
  <1> QED BY <1>3, <1>4 DEF WritersInv

-----------------------------------------------------------------------------
(* writeTarget between the source and the writer                           *)

\* The run has yielded and written all it was to take.
AllWritten == Limit # 0 /\ Len(yielded) = Limit /\ wrote[Pipe] = Limit

PipeInv ==
    /\ stage \in {"open", "next", "write", "return", "close", "done", "failed"}
    /\ stage = "open" =>
        /\ src = "new" /\ yielded = <<>> /\ wrote[Pipe] = 0 /\ ~threw
        /\ phase[Pipe] \in {"new", "sweeping", "open", "aborting", "failed", "dead"}
    /\ stage = "next" =>
        /\ src \in {"listening", "waiting", "ready", "closing", "ended"}
        /\ src \in {"closing", "ended"} => AllWritten
        /\ wrote[Pipe] = Len(yielded) /\ ~threw
        /\ phase[Pipe] \in {"open", "dead"}
    /\ stage = "write" =>
        /\ src = "yielded" /\ ~threw
        /\ phase[Pipe] \in {"open", "draining", "rejected", "dead"}
        /\ phase[Pipe] \in {"open", "draining"} => wrote[Pipe] = Len(yielded)
    /\ stage = "return" =>
        /\ src \in {"closing", "ended"} /\ threw
        /\ phase[Pipe] \in {"rejected", "dead"}
    /\ stage = "close" =>
        /\ src = "ended"
        /\ phase[Pipe] \in {"ending", "renaming", "aborting", "done", "failed", "dead"}
        /\ ~threw => AllWritten
    /\ stage = "done" => src = "ended" /\ phase[Pipe] = "done" /\ AllWritten
    /\ stage = "failed" => src \in {"new", "ended"}

\* What the types say about the Pipe, and that it is a stream.
LEMMA PipeTypes ==
    ASSUME SourceInv, WriterTypeOK
    PROVE  /\ Pipe \in Writers /\ Pipe \notin Files
           /\ wrote[Pipe] \in Nat /\ Len(yielded) \in Nat /\ Limit \in Nat
           /\ yielded \in Seq(Posts)
           /\ Limit # 0 => Len(yielded) <= Limit
  <1>1. Pipe \in Writers /\ Pipe \notin Files
    BY PipelineConstants, WriterConstants DEF PipelineConstants, WriterConstants, Writers
  <1>2. /\ Len(Waiting) \in Nat /\ Len(yielded) \in Nat /\ Limit \in Nat
        /\ Limit # 0 => Len(yielded) + Len(Waiting) <= Limit
    BY WaitingFacts, SourceConstants DEF SourceInv, SourceConstants, QueueInv
  <1> QED BY <1>1, <1>2 DEF SourceInv, SourceTypeOK, WriterTypeOK

(* The Pipe goes on by itself, or its stream or its disk fails.            *)
LEMMA PipeAlone ==
    ASSUME SourceInv, WriterTypeOK, PipeInv, UNCHANGED <<sourceVars, stage, threw>>,
           WriterStep(Pipe) \/ WriterFault(Pipe) \/ Die({Pipe})
    PROVE  PipeInv'
  <1>1. Pipe \in Writers /\ Pipe \notin Files
    BY PipeTypes
  <1>2. wrote'[Pipe] = wrote[Pipe]
    <2>1. CASE WriterStep(Pipe)
      BY <1>1, <2>1 DEF WriterStep, ListTmp, Unlink, Create, Flush, Finish, WriteFile, Rename,
                        RenameFails, Abort
    <2>2. CASE WriterFault(Pipe) \/ Die({Pipe})
      BY <2>2 DEF WriterFault, CreateFails, StreamFails, RenameFails, Die
    <2> QED BY <2>1, <2>2
  <1>3. \/ phase'[Pipe] = phase[Pipe]
        \/ phase'[Pipe] = "dead" /\ ~Ended(Pipe)
        \/ <<phase[Pipe], phase'[Pipe]>> \in
            {<<"new", "sweeping">>, <<"sweeping", "open">>, <<"sweeping", "aborting">>,
             <<"draining", "open">>, <<"draining", "rejected">>, <<"ending", "renaming">>,
             <<"ending", "aborting">>, <<"renaming", "done">>, <<"renaming", "aborting">>,
             <<"aborting", "failed">>}
    <2>1. CASE ListTmp(Pipe) \/ (\E t \in Tags : Unlink(Pipe, t)) \/ Create(Pipe) \/ CreateFails(Pipe)
      BY <1>1, <2>1 DEF ListTmp, Unlink, Create, CreateFails, Goto, WriterTypeOK
    <2>2. CASE Flush(Pipe)
      BY <1>1, <2>2 DEF Flush, Goto, WriterTypeOK
    <2>3. CASE StreamFails(Pipe)
      BY <1>1, <2>3 DEF StreamFails, Streaming, Goto, WriterTypeOK
    <2>4. CASE Finish(Pipe) \/ Rename(Pipe) \/ RenameFails(Pipe) \/ Abort(Pipe)
      BY <1>1, <2>4 DEF Finish, Rename, RenameFails, Abort, Goto, WriterTypeOK
    <2>5. CASE Die({Pipe})
      BY <1>1, <2>5 DEF Die
    <2>6. CASE WriteFile(Pipe)
      BY <1>1, <2>6 DEF WriteFile
    <2> QED BY <2>1, <2>2, <2>3, <2>4, <2>5, <2>6 DEF WriterStep, WriterFault
  <1>4. /\ UNCHANGED <<src, yielded, stage, threw>>
        /\ AllWritten' <=> AllWritten
    BY <1>2 DEF sourceVars, AllWritten
  <1> QED BY <1>2, <1>3, <1>4 DEF PipeInv, Ended

(* Requests, other writers and the end of the process.                     *)
LEMMA PipeApart ==
    ASSUME PipeInv, UNCHANGED <<stage, threw, yielded>>,
           phase'[Pipe] = phase[Pipe], wrote'[Pipe] = wrote[Pipe],
           \/ src' = src
           \/ src \in {"listening", "waiting"} /\ src' \in {"waiting", "ready"}
           \/ src = "closing" /\ src' = "ended"
    PROVE  PipeInv'
  <1>1. AllWritten' <=> AllWritten
    BY DEF AllWritten
  <1> QED BY <1>1 DEF PipeInv

LEMMA OthersApart ==
    ASSUME WriterTypeOK, NEW w \in Others,
           OtherDies(w) \/ WriterStep(w) \/ WriterFault(w) \/ OwnerStep(w)
    PROVE  phase'[Pipe] = phase[Pipe] /\ wrote'[Pipe] = wrote[Pipe]
  <1>1. Pipe \in Writers /\ w # Pipe /\ w \in Writers
    BY PipelineConstants DEF PipelineConstants, Writers, Others
  <1>2. CASE WriterStep(w)
    BY <1>1, <1>2 DEF WriterStep, ListTmp, Unlink, Create, Flush, Finish, WriteFile, Rename,
                      RenameFails, Abort, Goto, WriterTypeOK
  <1>3. CASE WriterFault(w) \/ OwnerStep(w)
    BY <1>1, <1>3 DEF WriterFault, CreateFails, StreamFails, RenameFails, OwnerStep, Write,
                      WriteThrows, Commit, Goto, WriterTypeOK
  <1>4. CASE OtherDies(w)
    BY <1>1, <1>4 DEF OtherDies, Die
  <1> QED BY <1>2, <1>3, <1>4

(* The steps of writeTarget itself.                                        *)
LEMMA PipelineSteps ==
    ASSUME SourceInv, WriterTypeOK, PipeInv, PipelineStep
    PROVE  PipeInv'
  <1>1. /\ Pipe \in Writers /\ wrote[Pipe] \in Nat /\ Len(yielded) \in Nat /\ Limit \in Nat
        /\ yielded \in Seq(Posts) /\ (Limit # 0 => Len(yielded) <= Limit)
    BY PipeTypes
  <1>2. CASE Opened
    <2>1. stage = "open" /\ UNCHANGED <<phase, wrote, threw, yielded>>
      BY <1>2 DEF Opened, Listen, sourceVars, writerVars
    <2>2. \/ phase[Pipe] = "open" /\ src' = "listening" /\ stage' = "next"
          \/ src' = src /\ stage' = "failed"
      BY <1>2 DEF Opened, Listen, sourceVars
    <2>3. yielded = <<>> => Len(yielded) = 0
      BY EmptySeq
    <2> QED BY <2>1, <2>2, <2>3 DEF PipeInv
  <1>3. CASE WriteItem
    <2>1. /\ stage = "next" /\ stage' = "write" /\ src' = "yielded" /\ UNCHANGED threw
          /\ yielded' = Append(yielded, hand) /\ hand \in Posts
          /\ phase'[Pipe] \in {"open", "draining"} /\ wrote'[Pipe] = wrote[Pipe] + 1
      BY <1>1, <1>3 DEF WriteItem, Yield, Write, Goto, WriterTypeOK, SourceInv, SourceTypeOK, QueueInv
    <2>2. Len(yielded') = Len(yielded) + 1
      BY <1>1, <2>1, AppendProperties
    <2> QED BY <1>1, <2>1, <2>2 DEF PipeInv
  <1>4. CASE WriteFailed
    <2>1. /\ stage = "next" /\ stage' = "write" /\ src' = "yielded" /\ UNCHANGED threw
          /\ phase'[Pipe] = "rejected"
      BY <1>1, <1>4 DEF WriteFailed, Yield, WriteThrows, Goto, WriterTypeOK
    <2> QED BY <2>1 DEF PipeInv
  <1>5. CASE Written
    <2>1. /\ stage = "write" /\ stage' = "next" /\ phase[Pipe] = "open"
          /\ UNCHANGED <<threw, phase, wrote, yielded>>
      BY <1>5 DEF Written, Advance, writerVars
    <2>2. \/ src' = "closing" /\ Limit # 0 /\ Len(yielded) >= Limit
          \/ src' \in {"ready", "waiting"}
      BY <1>5 DEF Written, Advance, Shutdown, Pull
    <2> QED BY <1>1, <2>1, <2>2 DEF PipeInv, AllWritten
  <1>6. CASE WriteRejected
    <2>1. /\ stage' = "return" /\ phase[Pipe] = "rejected" /\ threw' = TRUE /\ src' = "closing"
          /\ UNCHANGED phase
      BY <1>6 DEF WriteRejected, Return, Shutdown, writerVars
    <2> QED BY <2>1 DEF PipeInv
  <1>7. CASE CloseTarget
    <2>1. /\ stage \in {"next", "return"} /\ stage' = "close" /\ src = "ended"
          /\ UNCHANGED <<threw, src, yielded, wrote>>
          /\ phase'[Pipe] \in {"ending", "aborting"}
      BY <1>1, <1>7 DEF CloseTarget, Commit, Goto, WriterTypeOK, sourceVars
    <2>2. ~threw => AllWritten'
      BY <2>1 DEF PipeInv, AllWritten
    <2> QED BY <2>1, <2>2 DEF PipeInv
  <1>8. CASE TargetClosed
    <2>1. /\ stage = "close" /\ UNCHANGED <<threw, src, yielded, wrote, phase>>
          /\ \/ phase[Pipe] = "done" /\ stage' = IF threw THEN "failed" ELSE "done"
             \/ stage' = "failed"
      BY <1>8 DEF TargetClosed, sourceVars, writerVars
    <2>2. AllWritten' <=> AllWritten
      BY <2>1 DEF AllWritten
    <2> QED BY <2>1, <2>2 DEF PipeInv
  <1> QED BY <1>2, <1>3, <1>4, <1>5, <1>6, <1>7, <1>8 DEF PipelineStep

LEMMA PipeStep ==
    ASSUME SourceInv, WriterTypeOK, PipeInv, [Next]_vars PROVE PipeInv'
  <1>1. CASE PipelineStep
    BY <1>1, PipelineSteps
  <1>2. CASE PipeWorks \/ PipeDies \/ (alive /\ WriterFault(Pipe) /\ UNCHANGED <<sourceVars, stage, threw>>)
    BY <1>2, PipeAlone DEF PipeWorks, PipeDies
  <1>3. CASE SourceWorks
    <2>1. UNCHANGED <<stage, threw, phase, wrote>>
      BY <1>3 DEF SourceWorks, writerVars
    <2>2. /\ UNCHANGED yielded
          /\ \/ src' = src
             \/ src \in {"listening", "waiting"} /\ src' \in {"waiting", "ready"}
             \/ src = "closing" /\ src' = "ended"
      BY <1>3 DEF SourceWorks, Listening, Pull, Closed, HandlerStep, Unhandled, Refuse, Receive,
                  ReceiveSurplus, Deliver
    <2> QED BY <2>1, <2>2, PipeApart
  <1>4. CASE ProcessDies \/ ((ClientStep \/ ListenFails) /\ UNCHANGED <<stage, threw, writerVars>>)
    <2>1. UNCHANGED <<stage, threw, phase, wrote, src, yielded>>
      BY <1>4 DEF ProcessDies, Crash, ClientStep, Post, Leave, Subscribe, Unsubscribe, ListenFails,
                  writerVars
    <2> QED BY <2>1, PipeApart
  <1>5. ASSUME NEW w \in Others,
               \/ OtherDies(w)
               \/ (WriterStep(w) \/ WriterFault(w) \/ OwnerStep(w)) /\ UNCHANGED <<sourceVars, stage, threw>>
        PROVE  PipeInv'
    BY <1>5, OthersApart, PipeApart DEF OtherDies, sourceVars
  <1>6. CASE UNCHANGED vars
    BY <1>6, PipeApart DEF vars, sourceVars, writerVars
  <1> QED BY <1>1, <1>2, <1>3, <1>4, <1>5, <1>6 DEF Next

LEMMA PipeStart == Init => PipeInv
  <1>1. Pipe \in Writers
    BY PipelineConstants DEF PipelineConstants, Writers
  <1> QED BY <1>1 DEF Init, SourceInit, WriterInit, PipeInv

-----------------------------------------------------------------------------
(* What holds whatever the tags.                                           *)
PipelineInv == SourceInv /\ WriterTypeOK /\ PipeInv

LEMMA PipelineStart == Init => PipelineInv
  BY SourceStart, WritersStart, PipeStart DEF PipelineInv, WritersInv

LEMMA PipelineNext == PipelineInv /\ [Next]_vars => PipelineInv' /\ [Queue!Next]_(Queue!vars)
  <1> SUFFICES ASSUME PipelineInv, [Next]_vars
               PROVE  PipelineInv' /\ [Queue!Next]_(Queue!vars)
    OBVIOUS
  <1>1. Follows
    BY SourceStep DEF PipelineInv
  <1>2. WriterTypeOK'
    BY WriterSteps, MoveTypes DEF PipelineInv, writerVars, files, WriterTypeOK
  <1>3. PipeInv'
    BY PipeStep DEF PipelineInv
  <1> QED BY <1>1, <1>2, <1>3 DEF PipelineInv, Follows

(* Every variable of source, writers and pipeline keeps its type.          *)
THEOREM TypeCorrect == Spec => []TypeOK
  <1>1. PipelineInv => TypeOK
    BY DEF PipelineInv, SourceInv, PipeInv, TypeOK
  <1> QED BY <1>1, PipelineStart, PipelineNext, PTL DEF Spec

(* Items answered as part of the run reach the pipeline once and in order, *)
(* no more than the buffer's bound wait, and a run that ends by count      *)
(* leaves none behind (createIngestHandler, HttpServerSource.read).        *)
THEOREM HandsOver == Spec => AcknowledgedIsHandedOver
  <1>1. Init => Queue!Init
    BY DEF Init, SourceInit, Queue!Init
  <1>2. PipelineInv /\ [Next]_vars => [Queue!Next]_(Queue!vars)
    BY PipelineNext
  <1> QED BY <1>1, <1>2, PipelineStart, PipelineNext, PTL
          DEF Spec, AcknowledgedIsHandedOver, Queue!Spec

(* With tags of their own, the path shows nothing but complete outputs of  *)
(* writers whose commit succeeded (AtomicStreamWriter, atomicWriteFile).   *)
THEOREM PublishesComplete == ASSUME OwnTags PROVE Spec => CommitsPublish
  <1>1. WritersInv /\ [Next]_vars => WritersInv' /\ [CommitPublishes]_vars
    BY WritersStep
  <1> QED BY <1>1, WritersStart, PTL DEF Spec, CommitsPublish

(* With tags of their own, a run that is recorded as done has published    *)
(* exactly the items it yielded (writeTarget, AtomicStreamWriter.commit).  *)
THEOREM DoneHasPublished == ASSUME OwnTags PROVE Spec => []DoneIsPublished
  <1>1. WritersInv /\ [Next]_vars => WritersInv'
    BY WritersStep
  <1>2. PipelineInv /\ WritersInv => DoneIsPublished
    <2> SUFFICES ASSUME PipelineInv, WritersInv, stage = "done" PROVE DoneIsPublished
      BY DEF DoneIsPublished
    <2>1. Pipe \in Writers
      BY PipelineConstants DEF PipelineConstants, Writers
    <2>2. phase[Pipe] = "done" /\ AllWritten /\ content[Pipe] = Full(Pipe)
      BY <2>1 DEF PipelineInv, PipeInv, WritersInv, WriterInv
    <2> QED BY <2>2 DEF AllWritten, DoneIsPublished
  <1> QED BY <1>1, <1>2, WritersStart, PipelineStart, PipelineNext, PTL DEF Spec
=============================================================================
