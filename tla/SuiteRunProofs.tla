---------------------------- MODULE SuiteRunProofs ----------------------------
(***************************************************************************)
(* Proofs about SuiteRun, for any number of stages, envelopes and          *)
(* sessions: nothing is skipped, nothing is done twice where a source      *)
(* resumes, and a run that ends as done has its whole output, in suites    *)
(* in which no stage that resumes fills a buffer.                          *)
(***************************************************************************)
EXTENDS SuiteRun, FiniteSetTheorems, SequenceTheorems, TLAPS

\* A buffer is lost with its process, so the stage that fills it has to replay.
Handed(sh) == \A s \in 1..Stages : sh.medium[s] = "memory" => s \notin sh.resumes

SafeHandovers == \A sh \in Shapes : Handed(sh)

-----------------------------------------------------------------------------
(* Numbers and orders                                                      *)

(* The least number of a set, from the finite sets' well-founded order.    *)
LEMMA LeastNatural ==
    ASSUME NEW T \in SUBSET Nat, T # {}
    PROVE  \E x \in T : \A y \in T : x <= y
  <1> DEFINE R == StrictSubsetOrdering(Nat)
             F == {0..n : n \in T}
  <1>1. IsWellFoundedOn(R, FiniteSubsetsOf(Nat))
    BY FS_StrictSubsetOrderingWellFounded
  <1>2. F \subseteq FiniteSubsetsOf(Nat) /\ F # {}
    <2>1. \A n \in Nat : IsFiniteSet(0..n) /\ 0..n \in SUBSET Nat
      BY FS_Interval
    <2> QED BY <2>1 DEF FiniteSubsetsOf
  <1>3. PICK X \in F : \A Y \in F : <<Y, X>> \notin R
    <2> HIDE DEF R, F
    <2> QED BY <1>1, <1>2, WFMin
  <1>4. PICK x \in T : X = 0..x
    OBVIOUS
  <1>5. ASSUME NEW y \in T, y < x PROVE FALSE
    <2>1. 0..y \in F /\ <<0..y, X>> \notin R
      BY <1>3
    <2>2. 0..y \in SUBSET Nat /\ 0..x \in SUBSET Nat
      OBVIOUS
    <2>3. 0..y \subseteq 0..x /\ x \in 0..x /\ x \notin 0..y
      BY <1>5
    <2> QED BY <2>1, <2>2, <2>3, <1>4 DEF StrictSubsetOrdering
  <1> QED BY <1>5

\* The numbers behind a, in order.
Ahead(a) == [i \in 1..(N - a) |-> a + i]

(* All envelopes in order are 1, 2 and so on: a growing sequence of N      *)
(* numbers up to N leaves none out.                                        *)
LEMMA InOrderItems == InOrder(Items) = Ahead(0)
  <1> DEFINE Grows(q) == \A i, j \in DOMAIN q : i < j => q[i] < q[j]
  <1>1. Cardinality(Items) = N /\ N \in Nat
    BY FS_Interval, SuiteConstants DEF SuiteConstants, Items
  <1>2. Ahead(0) \in [1..N -> Items] /\ Grows(Ahead(0))
    BY <1>1 DEF Ahead, Items
  <1>3. ASSUME NEW q \in [1..N -> Items], Grows(q) PROVE q = Ahead(0)
    <2>1. \A i \in 1..N : q[i] >= i
      <3> DEFINE T == {i \in 1..N : q[i] < i}
      <3> SUFFICES ASSUME T # {} PROVE FALSE
        BY <1>1, <1>3 DEF Items
      <3>1. PICK m \in T : \A y \in T : m <= y
        <4>1. T \in SUBSET Nat
          BY <1>1
        <4> QED BY <4>1, LeastNatural
      <3>2. m \in 1..N /\ q[m] < m /\ q[m] \in 1..N
        BY <1>3 DEF Items
      <3>3. q[m] \notin T
        BY <1>1, <3>1, <3>2
      <3>4. q[q[m]] >= q[m] /\ q[q[m]] \in 1..N
        BY <1>1, <1>3, <3>2, <3>3 DEF Items
      <3>5. q[q[m]] < q[m]
        BY <1>3, <3>2
      <3> QED BY <1>1, <3>2, <3>4, <3>5
    <2>2. \A i \in 1..N : q[i] <= i
      <3> DEFINE T == {k \in 0..N : k < N /\ q[N - k] > N - k}
      <3> SUFFICES ASSUME NEW i \in 1..N, q[i] > i PROVE FALSE
        BY <1>1, <1>3 DEF Items
      <3>1. N - i \in T
        BY <1>1
      <3>2. PICK k \in T : \A y \in T : k <= y
        <4>1. T \in SUBSET Nat
          BY <1>1
        <4> HIDE DEF T
        <4> QED BY <3>1, <4>1, LeastNatural
      <3> DEFINE m == N - k
      <3>3. m \in 1..N /\ q[m] > m /\ q[m] \in 1..N /\ k \in Nat
        BY <1>1, <1>3 DEF Items
      <3>4. N - q[m] \notin T
        BY <1>1, <3>2, <3>3
      <3>5. q[q[m]] > q[m] /\ q[q[m]] \in 1..N
        BY <1>3, <3>3 DEF Items
      <3>6. N - q[m] \in 0..N /\ N - q[m] < N /\ N - (N - q[m]) = q[m]
        BY <1>1, <3>3
      <3> QED BY <3>4, <3>5, <3>6
    <2>3. \A i \in 1..N : q[i] = i
      BY <1>1, <1>3, <2>1, <2>2 DEF Items
    <2> QED BY <1>1, <1>3, <2>3 DEF Ahead
  <1>4. InOrder(Items) = CHOOSE q \in [1..N -> Items] : Grows(q)
    BY <1>1 DEF InOrder
  <1> HIDE DEF Grows
  <1> QED BY <1>2, <1>3, <1>4

\* What a source has still to yield, after c envelopes.
LEMMA RemainingFacts ==
    ASSUME NEW c \in 0..N
    PROVE  Remaining(Ahead(0), c) = Ahead(c) /\ Ahead(c) \in Seq(Items)
  <1>1. N \in Nat /\ Ahead(0) \in Seq(Items) /\ Len(Ahead(0)) = N
    BY SuiteConstants DEF SuiteConstants, Ahead, Items
  <1>2. Remaining(Ahead(0), c) = [i \in 1..(N - c) |-> Ahead(0)[c + i]]
    BY <1>1 DEF Remaining
  <1>3. \A i \in 1..(N - c) : Ahead(0)[c + i] = c + i
    BY <1>1 DEF Ahead
  <1> QED BY <1>1, <1>2, <1>3 DEF Ahead, Items

LEMMA AheadFacts ==
    ASSUME NEW a \in 0..N
    PROVE  /\ Ahead(a) = <<>> => a = N
           /\ Ahead(a) # <<>> =>
                a < N /\ Head(Ahead(a)) = a + 1 /\ Tail(Ahead(a)) = Ahead(a + 1)
  <1>1. N \in Nat /\ Len(Ahead(a)) = N - a /\ Ahead(a) \in Seq(Nat)
    BY SuiteConstants DEF SuiteConstants, Ahead
  <1>2. ASSUME a < N
        PROVE  /\ Head(Ahead(a)) = a + 1 /\ Ahead(a) # <<>>
               /\ Tail(Ahead(a)) = [i \in 1..(N - a - 1) |-> Ahead(a)[i + 1]]
    BY <1>1, <1>2 DEF Ahead
  <1>3. ASSUME a < N PROVE [i \in 1..(N - a - 1) |-> Ahead(a)[i + 1]] = Ahead(a + 1)
    BY <1>1, <1>3 DEF Ahead
  <1>4. a = N => Ahead(a) = <<>>
    BY <1>1
  <1> QED BY <1>1, <1>2, <1>3, <1>4

-----------------------------------------------------------------------------
(* The checkpoint tree                                                     *)

LEMMA FirstFacts ==
    ASSUME NEW tree \in Seq(Node), NEW s \in 1..Stages, Ids(tree, s) # {}
    PROVE  /\ First(tree, s) \in Ids(tree, s)
           /\ \A j \in Ids(tree, s) : First(tree, s) <= j
  <1>1. Ids(tree, s) \in SUBSET Nat
    BY DEF Ids
  <1>2. \E i \in Ids(tree, s) : \A j \in Ids(tree, s) : i <= j
    BY <1>1, LeastNatural
  <1> QED BY <1>2 DEF First

LEMMA CursorFacts ==
    ASSUME NEW tree \in Seq(Node), NEW s \in 1..Stages
    PROVE  /\ Cursor(tree, s) \in {None} \cup 0..N
           /\ Cursor(tree, s) \in Int
           /\ Cursor(tree, s) # None => Cursor(tree, s) \in 0..N /\ Ids(tree, s) # {}
  <1>1. N \in Nat /\ None = -1
    BY SuiteConstants DEF SuiteConstants, None
  <1>2. CASE Ids(tree, s) = {}
    BY <1>1, <1>2 DEF Cursor
  <1>3. CASE Ids(tree, s) # {}
    <2>1. First(tree, s) \in DOMAIN tree
      BY <1>3, FirstFacts DEF Ids
    <2>2. tree[First(tree, s)] \in Node
      BY <2>1, ElementOfSeq
    <2>3. Cursor(tree, s) = tree[First(tree, s)].cursor
      BY <1>3 DEF Cursor
    <2>4. Cursor(tree, s) \in {None} \cup 0..N
      BY <2>2, <2>3 DEF Node
    <2> QED BY <1>1, <1>3, <2>4
  <1> QED BY <1>2, <1>3

\* enterNested: a node of its own, behind the one a resume finds.
Entered(tree, t) == Append(tree, [stage |-> t, state |-> "in-progress", cursor |-> None])

LEMMA EnteredFacts ==
    ASSUME NEW tree \in Seq(Node), NEW t \in 1..Stages
    PROVE  /\ Entered(tree, t) \in Seq(Node) /\ Ids(Entered(tree, t), t) # {}
           /\ Last(Entered(tree, t)).stage = t
           /\ \A s \in 1..Stages : Cursor(Entered(tree, t), s) = Cursor(tree, s)
  <1> DEFINE n    == [stage |-> t, state |-> "in-progress", cursor |-> None]
             more == Entered(tree, t)
             last == Len(tree) + 1
  <1>1. n \in Node
    BY DEF Node
  <1>2. /\ more \in Seq(Node) /\ Len(more) = last /\ last \in Nat /\ more[last] = n
        /\ \A i \in 1..Len(tree) : more[i] = tree[i]
    BY <1>1 DEF Entered
  <1> HIDE DEF more
  <1>3. last \in Ids(more, t)
    BY <1>2 DEF Ids
  <1>4. Last(more).stage = t
    BY <1>2 DEF Last
  <1>5. ASSUME NEW s \in 1..Stages PROVE Cursor(more, s) = Cursor(tree, s)
    <2>1. /\ Ids(tree, s) \subseteq 1..Len(tree)
          /\ Ids(more, s) = IF s = t THEN Ids(tree, s) \cup {last} ELSE Ids(tree, s)
      BY <1>2 DEF Ids
    <2>2. CASE Ids(tree, s) = {} /\ s = t
      <3>1. Ids(more, s) = {last}
        BY <2>1, <2>2
      <3>2. First(more, s) = last
        BY <1>2, <3>1, FirstFacts
      <3>3. Cursor(more, s) = None
        BY <1>2, <3>1, <3>2 DEF Cursor
      <3> QED BY <2>2, <3>3 DEF Cursor
    <2>3. CASE Ids(tree, s) = {} /\ s # t
      BY <2>1, <2>3 DEF Cursor
    <2>4. CASE Ids(tree, s) # {}
      <3>1. /\ First(tree, s) \in Ids(tree, s)
            /\ \A j \in Ids(tree, s) : First(tree, s) <= j
        BY <2>4, FirstFacts
      <3>2. Ids(more, s) # {}
        BY <2>1, <2>4
      <3>3. /\ First(more, s) \in Ids(more, s)
            /\ \A j \in Ids(more, s) : First(more, s) <= j
        BY <1>2, <3>2, FirstFacts
      <3>4. First(more, s) = First(tree, s)
        BY <1>2, <2>1, <3>1, <3>3
      <3> QED BY <1>2, <2>1, <2>4, <3>1, <3>2, <3>4 DEF Cursor
    <2> QED BY <2>2, <2>3, <2>4
  <1> QED BY <1>2, <1>3, <1>4, <1>5 DEF more

\* A change of the node that is found, of which the id stays.
LEMMA ChangedFacts ==
    ASSUME NEW tree \in Seq(Node), NEW t \in 1..Stages, Ids(tree, t) # {},
           NEW new \in Node, new.stage = t
    PROVE  LET more == [tree EXCEPT ![First(tree, t)] = new] IN
             /\ more \in Seq(Node) /\ Last(more).stage = Last(tree).stage
             /\ Cursor(more, t) = new.cursor
             /\ \A s \in 1..Stages : /\ Ids(more, s) = Ids(tree, s)
                                     /\ s # t => Cursor(more, s) = Cursor(tree, s)
  <1> DEFINE f    == First(tree, t)
             more == [tree EXCEPT ![f] = new]
  <1>1. f \in DOMAIN tree /\ tree[f].stage = t
    BY FirstFacts DEF Ids
  <1>2. /\ more \in Seq(Node) /\ DOMAIN more = DOMAIN tree /\ Len(more) = Len(tree)
        /\ more[f] = new /\ \A i \in DOMAIN tree \ {f} : more[i] = tree[i]
    BY <1>1
  <1>3. \A i \in DOMAIN tree : more[i].stage = tree[i].stage
    BY <1>1, <1>2
  <1> HIDE DEF more, f
  <1>4. Last(more).stage = Last(tree).stage
    <2>1. Len(tree) \in DOMAIN tree
      BY <1>1
    <2> QED BY <1>2, <1>3, <2>1 DEF Last
  <1>5. \A s \in 1..Stages : Ids(more, s) = Ids(tree, s)
    BY <1>2, <1>3 DEF Ids
  <1>6. \A s \in 1..Stages : First(more, s) = First(tree, s)
    BY <1>5 DEF First
  <1>7. Cursor(more, t) = new.cursor
    BY <1>2, <1>5, <1>6 DEF Cursor, f
  <1>8. ASSUME NEW s \in 1..Stages, s # t PROVE Cursor(more, s) = Cursor(tree, s)
    <2>1. CASE Ids(tree, s) = {}
      BY <1>5, <2>1 DEF Cursor
    <2>2. CASE Ids(tree, s) # {}
      <3>1. First(tree, s) \in DOMAIN tree /\ tree[First(tree, s)].stage = s
        BY <2>2, FirstFacts DEF Ids
      <3>2. First(tree, s) # f
        BY <1>1, <1>8, <3>1
      <3> QED BY <1>2, <1>5, <1>6, <2>2, <3>1, <3>2 DEF Cursor
    <2> QED BY <2>1, <2>2
  <1> QED BY <1>2, <1>4, <1>5, <1>7, <1>8 DEF more, f

LEMMA CursorSet ==
    ASSUME NEW tree \in Seq(Node), NEW t \in 1..Stages, Ids(tree, t) # {}, NEW v \in 0..N
    PROVE  LET more == [tree EXCEPT ![First(tree, t)].cursor = v] IN
             /\ more \in Seq(Node) /\ Last(more).stage = Last(tree).stage /\ Cursor(more, t) = v
             /\ \A s \in 1..Stages : /\ Ids(more, s) = Ids(tree, s)
                                     /\ s # t => Cursor(more, s) = Cursor(tree, s)
  <1> DEFINE new == [tree[First(tree, t)] EXCEPT !.cursor = v]
  <1>1. First(tree, t) \in DOMAIN tree /\ tree[First(tree, t)].stage = t
    BY FirstFacts DEF Ids
  <1>2. tree[First(tree, t)] \in Node
    BY <1>1, ElementOfSeq
  <1>3. new \in Node /\ new.stage = t /\ new.cursor = v
    BY <1>1, <1>2 DEF Node
  <1>4. [tree EXCEPT ![First(tree, t)].cursor = v] = [tree EXCEPT ![First(tree, t)] = new]
    OBVIOUS
  <1> HIDE DEF new
  <1>5. LET more == [tree EXCEPT ![First(tree, t)] = new] IN
          /\ more \in Seq(Node) /\ Last(more).stage = Last(tree).stage
          /\ Cursor(more, t) = new.cursor
          /\ \A s \in 1..Stages : /\ Ids(more, s) = Ids(tree, s)
                                  /\ s # t => Cursor(more, s) = Cursor(tree, s)
    BY <1>3, ChangedFacts
  <1> QED BY <1>3, <1>4, <1>5

LEMMA StateSet ==
    ASSUME NEW tree \in Seq(Node), NEW t \in 1..Stages, Ids(tree, t) # {},
           NEW v \in {"done", "failed"}
    PROVE  LET more == [tree EXCEPT ![First(tree, t)].state = v] IN
             /\ more \in Seq(Node)
             /\ \A s \in 1..Stages : Cursor(more, s) = Cursor(tree, s)
  <1> DEFINE new == [tree[First(tree, t)] EXCEPT !.state = v]
  <1>1. First(tree, t) \in DOMAIN tree /\ tree[First(tree, t)].stage = t
    BY FirstFacts DEF Ids
  <1>2. tree[First(tree, t)] \in Node
    BY <1>1, ElementOfSeq
  <1>3. new \in Node /\ new.stage = t /\ new.cursor = tree[First(tree, t)].cursor
    BY <1>1, <1>2 DEF Node
  <1>4. [tree EXCEPT ![First(tree, t)].state = v] = [tree EXCEPT ![First(tree, t)] = new]
    OBVIOUS
  <1>5. new.cursor = Cursor(tree, t)
    BY <1>3 DEF Cursor
  <1> HIDE DEF new
  <1> QED BY <1>3, <1>4, <1>5, ChangedFacts

-----------------------------------------------------------------------------
(* The inductive invariant                                                 *)

\* What a tree counts as written of a stage that resumes is held by its target.
Written(tree) == \A s \in shape.resumes : 1..Cursor(tree, s) \subseteq held[s]

\* A stored tree does not run ahead of the one at hand, nor of the open target's base.
Behind(tree) ==
    \A s \in shape.resumes :
        /\ Cursor(tree, s) <= Cursor(nodes, s)
        /\ (pc = "write" /\ s = stage) => Cursor(tree, s) <= base

Stored == {saved.nodes} \cup {flight[i].nodes : i \in DOMAIN flight}

Types ==
    /\ shape \in Shapes
    /\ pc \in {"next", "write", "end", "ended", "off"}
    /\ state \in {"running", "failed", "done"}
    /\ stage \in 1..(Stages + 1)
    /\ nodes \in Seq(Node) /\ at \in 0..N /\ todo \in Seq(Items)
    /\ base \in {None} \cup 0..N
    /\ held \in [1..Stages -> SUBSET Items]
    /\ flight = <<>> \/ \E r \in Record : flight = <<r>>
    /\ saved \in Record
    /\ sessions \in 1..MaxSessions

\* Where the process is in the suite.
PlaceInv ==
    /\ base # None <=> pc = "write"
    /\ pc = "write" => /\ stage <= Stages /\ Ids(nodes, stage) # {}
                       /\ Last(nodes).stage = stage
    /\ pc = "off" => stage = 1 /\ flight = <<>>
    /\ pc \in {"next", "write"} => state = "running"

\* The stage at hand goes on where what its target holds ends.
WriteInv ==
    pc = "write" => /\ 1..at \subseteq held[stage] /\ todo = Ahead(at)
                    /\ stage \in shape.resumes => base <= at

\* The stages behind the process have handed over everything.
HandedInv ==
    /\ pc \in {"next", "write"} => \A s \in 1..(stage - 1) : held[s] = Items
    /\ DoneIsDelivered

TreeInv ==
    /\ Written(nodes)
    /\ \A tree \in Stored : Written(tree) /\ (pc # "off" => Behind(tree))

Inv == Types /\ PlaceInv /\ WriteInv /\ HandedInv /\ TreeInv

LEMMA ShapeFacts ==
    ASSUME SafeHandovers, Types
    PROVE  /\ shape.resumes \subseteq 1..Stages /\ shape.medium[Stages] = "keyed"
           /\ shape.medium \in [1..Stages -> {"keyed", "memory"}]
           /\ \A s \in shape.resumes : shape.medium[s] = "keyed"
           /\ N \in Nat /\ Stages \in Nat \ {0} /\ None = -1
  <1>1. /\ shape.resumes \subseteq 1..Stages /\ shape.medium[Stages] = "keyed"
        /\ shape.medium \in [1..Stages -> {"keyed", "memory"}]
        /\ N \in Nat /\ Stages \in Nat \ {0} /\ None = -1
    BY SuiteConstants DEF SuiteConstants, Types, Shape, None
  <1>2. \A s \in shape.resumes : shape.medium[s] = "keyed"
    BY <1>1 DEF SafeHandovers, Handed, Types
  <1> QED BY <1>1, <1>2

LEMMA StoredFacts ==
    ASSUME Types
    PROVE  /\ Stored \subseteq Seq(Node)
           /\ flight = <<>> => Stored = {saved.nodes}
           /\ \A r : flight = <<r>> => Stored = {saved.nodes, r.nodes}
  BY DEF Types, Record, Stored

LEMMA InitInv == ASSUME SafeHandovers, Init PROVE Inv
  <1>0. Stages \in Nat \ {0} /\ N \in Nat /\ MaxSessions \in Nat \ {0}
    BY SuiteConstants DEF SuiteConstants
  <1>1. Types
    BY <1>0 DEF Init, Types, Record
  <1>2. \A s : Cursor(<<>>, s) = None
    BY DEF Cursor, Ids
  <1>3. Stored = {<<>>} /\ nodes = <<>>
    BY <1>1, StoredFacts DEF Init
  <1>4. TreeInv
    BY <1>2, <1>3 DEF Init, TreeInv, Written, Behind, None
  <1> QED BY <1>0, <1>1, <1>4 DEF Inv, Init, PlaceInv, WriteInv, HandedInv, DoneIsDelivered, None

-----------------------------------------------------------------------------
(* The steps                                                               *)

LEMMA EnterStep == ASSUME SafeHandovers, Inv, Enter PROVE Inv'
  <1> DEFINE tree  == Entered(nodes, stage)
             start == SourceStart(tree)
  <1>0. Types /\ PlaceInv /\ HandedInv /\ TreeInv
    BY DEF Inv
  <1>1. /\ shape.resumes \subseteq 1..Stages /\ shape.medium[Stages] = "keyed"
        /\ \A s \in shape.resumes : shape.medium[s] = "keyed"
        /\ N \in Nat /\ Stages \in Nat \ {0} /\ None = -1
    BY <1>0, ShapeFacts
  <1>2. pc = "next" /\ stage \in 1..Stages /\ nodes \in Seq(Node) /\ state = "running"
    BY <1>0, <1>1 DEF Enter, Types, PlaceInv
  <1>3. /\ tree \in Seq(Node) /\ Ids(tree, stage) # {} /\ Last(tree).stage = stage
        /\ \A s \in 1..Stages : Cursor(tree, s) = Cursor(nodes, s)
    BY <1>2, EnteredFacts
  <1> DEFINE cur == Cursor(nodes, stage)
  <1>4. cur \in {None} \cup 0..N /\ Cursor(tree, stage) = cur
    BY <1>2, <1>3, CursorFacts
  <1>5. /\ nodes' = tree /\ at' = start /\ todo' = Remaining(Content(stage), start)
        /\ base' = Max({cur, 0}) /\ held' = Opened /\ pc' = "write"
        /\ UNCHANGED <<shape, state, stage, flight, saved, sessions>>
    BY <1>4 DEF Enter, Entered
  <1> HIDE DEF tree, start, cur
  <1>6. start = IF stage \in shape.resumes /\ cur # None THEN cur ELSE 0
    BY <1>4 DEF start, SourceStart
  <1>7. start \in 0..N
    BY <1>1, <1>4, <1>6
  <1>8. base' \in 0..N /\ base' >= cur /\ (stage \in shape.resumes => base' <= start)
    <2>1. base' = IF cur = None THEN 0 ELSE cur
      BY <1>1, <1>4, <1>5 DEF Max
    <2> QED BY <1>1, <1>4, <1>6, <2>1
  <1>9. Content(stage) = Ahead(0)
    <2>1. stage = 1 \/ held[stage - 1] = Items
      BY <1>0, <1>1, <1>2 DEF HandedInv
    <2> QED BY <2>1, InOrderItems DEF Content
  <1>10. todo' = Ahead(start) /\ todo' \in Seq(Items)
    BY <1>5, <1>7, <1>9, RemainingFacts
  <1>11. /\ held' \in [1..Stages -> SUBSET Items]
         /\ \A s \in 1..Stages : s # stage \/ shape.medium[s] = "keyed" => held'[s] = held[s]
    BY <1>2, <1>5 DEF Opened, Types, Inv
  <1>12. Stored' = Stored
    BY <1>5 DEF Stored
  <1>13. Types'
    BY <1>0, <1>3, <1>5, <1>7, <1>8, <1>10, <1>11 DEF Types
  <1>14. PlaceInv'
    BY <1>1, <1>2, <1>3, <1>5, <1>8 DEF PlaceInv
  <1>15. \A s \in shape.resumes : held'[s] = held[s]
    BY <1>1, <1>11
  <1>16. WriteInv'
    <2>1. 1..start \subseteq held'[stage]
      <3>1. CASE stage \in shape.resumes /\ cur # None
        BY <1>0, <1>6, <1>15, <3>1 DEF TreeInv, Written, cur
      <3>2. CASE ~(stage \in shape.resumes /\ cur # None)
        BY <1>6, <3>2
      <3> QED BY <3>1, <3>2
    <2> QED BY <1>5, <1>8, <1>10, <2>1 DEF WriteInv
  <1>17. HandedInv'
    <2>1. \A s \in 1..(stage - 1) : s \in 1..Stages /\ s # stage
      BY <1>1, <1>2
    <2>2. held'[Stages] = held[Stages]
      BY <1>1, <1>11
    <2> QED BY <1>0, <1>2, <1>5, <1>11, <2>1, <2>2 DEF HandedInv, DoneIsDelivered
  <1>18. TreeInv'
    <2>1. Written(nodes)'
      BY <1>0, <1>1, <1>3, <1>5, <1>15 DEF TreeInv, Written
    <2>2. ASSUME NEW t \in Stored PROVE Written(t)' /\ Behind(t)'
      <3>1. Written(t) /\ Behind(t)
        BY <1>0, <1>2 DEF TreeInv
      <3>2. Written(t)'
        BY <1>5, <1>15, <3>1 DEF Written
      <3>3. \A s \in shape.resumes : Cursor(t, s) <= Cursor(nodes', s)
        BY <1>1, <1>3, <1>5, <3>1 DEF Behind
      <3>4. stage \in shape.resumes => Cursor(t, stage) <= base'
        <4>1. t \in Seq(Node)
          BY <1>0, StoredFacts
        <4>2. Cursor(t, stage) \in Int
          BY <1>2, <4>1, CursorFacts
        <4> QED BY <1>1, <1>4, <1>8, <3>1, <4>2 DEF Behind, cur
      <3> QED BY <1>5, <3>2, <3>3, <3>4 DEF Behind
    <2> QED BY <1>12, <2>1, <2>2 DEF TreeInv
  <1> QED BY <1>13, <1>14, <1>16, <1>17, <1>18 DEF Inv

LEMMA WriteStep ==
    ASSUME SafeHandovers, Inv, Write
    PROVE  Inv' /\ ~WrittenAgain
  <1>0. Types /\ PlaceInv /\ HandedInv /\ TreeInv /\ WriteInv
    BY DEF Inv
  <1>1. /\ shape.resumes \subseteq 1..Stages /\ N \in Nat /\ Stages \in Nat \ {0} /\ None = -1
    BY <1>0, ShapeFacts
  <1>2. /\ pc = "write" /\ stage \in 1..Stages /\ nodes \in Seq(Node) /\ Ids(nodes, stage) # {}
        /\ at \in 0..N /\ todo = Ahead(at) /\ todo # <<>> /\ base \in Int
        /\ Last(nodes).stage = stage
    BY <1>0, <1>1 DEF Write, Types, PlaceInv, WriteInv
  <1>3. /\ at + 1 \in 0..N /\ Head(todo) = at + 1 /\ Tail(todo) = Ahead(at + 1)
    BY <1>1, <1>2, AheadFacts
  <1>4. Ahead(at + 1) \in Seq(Items)
    BY <1>3, RemainingFacts
  <1>5. /\ held' = [held EXCEPT ![stage] = @ \cup {at + 1}]
        /\ todo' = Ahead(at + 1) /\ at' = at + 1
        /\ nodes' = [nodes EXCEPT ![First(nodes, stage)].cursor = at + 1]
        /\ UNCHANGED <<shape, pc, state, stage, base, flight, saved, sessions>>
    BY <1>3 DEF Write
  <1>6. /\ nodes' \in Seq(Node) /\ Last(nodes').stage = stage
        /\ Cursor(nodes', stage) = at + 1 /\ Ids(nodes', stage) # {}
        /\ \A s \in 1..Stages : s # stage => Cursor(nodes', s) = Cursor(nodes, s)
    <2>1. PICK v \in 0..N : v = at + 1
      BY <1>3
    <2>2. LET more == [nodes EXCEPT ![First(nodes, stage)].cursor = v] IN
            /\ more \in Seq(Node) /\ Last(more).stage = Last(nodes).stage
            /\ Cursor(more, stage) = v
            /\ \A s \in 1..Stages : /\ Ids(more, s) = Ids(nodes, s)
                                    /\ s # stage => Cursor(more, s) = Cursor(nodes, s)
      <3>1. nodes \in Seq(Node) /\ stage \in 1..Stages /\ Ids(nodes, stage) # {}
        BY <1>2
      <3> QED BY <3>1, CursorSet
    <2> QED BY <1>2, <1>5, <2>1, <2>2
  <1>7. /\ held' \in [1..Stages -> SUBSET Items] /\ held'[stage] = held[stage] \cup {at + 1}
        /\ \A s \in 1..Stages : s # stage => held'[s] = held[s]
    BY <1>0, <1>1, <1>2, <1>3, <1>5 DEF Types, Items
  <1>8. \A s \in 1..Stages : held[s] \subseteq held'[s]
    BY <1>7
  <1>9. Stored' = Stored
    BY <1>5 DEF Stored
  <1>10. Types'
    BY <1>0, <1>3, <1>4, <1>5, <1>6, <1>7 DEF Types
  <1>11. PlaceInv'
    BY <1>0, <1>2, <1>5, <1>6 DEF PlaceInv
  <1>12. 1..(at + 1) \subseteq held'[stage]
    BY <1>0, <1>2, <1>7 DEF WriteInv
  <1>13. WriteInv'
    BY <1>0, <1>2, <1>5, <1>12 DEF WriteInv
  <1>14. HandedInv'
    <2>1. \A s \in 1..(stage - 1) : s \in 1..Stages /\ s # stage
      BY <1>1, <1>2
    <2>2. state # "done"
      BY <1>0, <1>2 DEF PlaceInv
    <2> QED BY <1>0, <1>2, <1>5, <1>7, <2>1, <2>2 DEF HandedInv, DoneIsDelivered
  <1>15. ASSUME NEW t \in Stored, stage \in shape.resumes PROVE Cursor(t, stage) <= at
    <2>1. Cursor(t, stage) <= base /\ base <= at
      BY <1>0, <1>2, <1>15 DEF TreeInv, Behind, WriteInv
    <2>2. Cursor(t, stage) \in Int
      BY <1>0, <1>2, StoredFacts, CursorFacts
    <2> QED BY <1>2, <2>1, <2>2
  <1>16. TreeInv'
    <2>1. Written(nodes)'
      BY <1>0, <1>1, <1>5, <1>6, <1>8, <1>12 DEF TreeInv, Written
    <2>2. ASSUME NEW t \in Stored PROVE Written(t)' /\ Behind(t)'
      <3>1. Written(t) /\ Behind(t)
        BY <1>0, <1>2 DEF TreeInv
      <3>2. Written(t)'
        BY <1>1, <1>5, <1>8, <3>1 DEF Written
      <3>3. ASSUME NEW s \in shape.resumes PROVE Cursor(t, s) <= Cursor(nodes', s)
        <4>1. s \in 1..Stages /\ t \in Seq(Node)
          BY <1>0, <1>1, StoredFacts
        <4>2. Cursor(t, s) \in Int
          BY <4>1, CursorFacts
        <4>3. CASE s = stage
          BY <1>2, <1>6, <1>15, <4>2, <4>3
        <4>4. CASE s # stage
          BY <1>6, <3>1, <4>1, <4>4 DEF Behind
        <4> QED BY <4>3, <4>4
      <3>4. stage \in shape.resumes => Cursor(t, stage) <= base
        BY <1>2, <3>1 DEF Behind
      <3> QED BY <1>5, <3>2, <3>3, <3>4 DEF Behind
    <2> QED BY <1>9, <2>1, <2>2 DEF TreeInv
  <1>17. ~WrittenAgain
    <2> SUFFICES ASSUME stage \in shape.resumes, at + 1 <= Cursor(saved.nodes, stage) PROVE FALSE
      BY <1>3 DEF WrittenAgain
    <2>1. saved.nodes \in Stored /\ saved.nodes \in Seq(Node)
      BY <1>0, StoredFacts DEF Stored
    <2>2. Cursor(saved.nodes, stage) <= at /\ Cursor(saved.nodes, stage) \in Int
      BY <1>2, <1>15, <2>1, CursorFacts
    <2> QED BY <1>2, <2>2
  <1> QED BY <1>10, <1>11, <1>13, <1>14, <1>16, <1>17 DEF Inv

\* A step that changes the state of a node, or none, and closes the target.
LEMMA ClosesInv ==
    ASSUME SafeHandovers, Inv, nodes' \in Seq(Node), base' = None, pc' # "write",
           \A s \in 1..Stages : Cursor(nodes', s) = Cursor(nodes, s),
           UNCHANGED <<shape, held, saved, flight>>, pc # "off"
    PROVE  TreeInv' /\ WriteInv'
  <1>1. Stored' = Stored /\ shape.resumes \subseteq 1..Stages
    BY ShapeFacts DEF Stored, Inv
  <1>2. Written(nodes)'
    BY <1>1 DEF Inv, TreeInv, Written
  <1>3. \A t \in Stored : Written(t)' /\ Behind(t)'
    BY <1>1 DEF Inv, TreeInv, Written, Behind
  <1> QED BY <1>1, <1>2, <1>3 DEF TreeInv, WriteInv

LEMMA CompleteStep == ASSUME SafeHandovers, Inv, Complete PROVE Inv'
  <1>0. Types /\ PlaceInv /\ HandedInv /\ WriteInv
    BY DEF Inv
  <1>1. N \in Nat /\ Stages \in Nat \ {0} /\ None = -1
    BY <1>0, ShapeFacts
  <1>2. /\ pc = "write" /\ stage \in 1..Stages /\ nodes \in Seq(Node) /\ Ids(nodes, stage) # {}
        /\ at \in 0..N /\ todo = Ahead(at) /\ todo = <<>> /\ 1..at \subseteq held[stage]
        /\ held[stage] \subseteq Items /\ state = "running"
    BY <1>0, <1>1 DEF Complete, Types, PlaceInv, WriteInv
  <1>3. held[stage] = Items
    BY <1>2, AheadFacts DEF Items
  <1>4. /\ nodes' = [nodes EXCEPT ![First(nodes, stage)].state = "done"]
        /\ base' = None /\ stage' = stage + 1 /\ pc' = "next"
        /\ UNCHANGED <<shape, state, at, todo, held, flight, saved, sessions>>
    BY DEF Complete, Mark
  <1>5. nodes' \in Seq(Node) /\ \A s \in 1..Stages : Cursor(nodes', s) = Cursor(nodes, s)
    BY <1>2, <1>4, StateSet
  <1>6. TreeInv' /\ WriteInv'
    BY <1>2, <1>4, <1>5, ClosesInv
  <1>7. Types'
    BY <1>0, <1>1, <1>2, <1>4, <1>5 DEF Types
  <1>8. PlaceInv'
    BY <1>2, <1>4 DEF PlaceInv
  <1>9. HandedInv'
    <2>1. \A s \in 1..stage : s = stage \/ s \in 1..(stage - 1)
      BY <1>2
    <2>2. stage' - 1 = stage
      BY <1>2, <1>4
    <2> QED BY <1>0, <1>2, <1>3, <1>4, <2>1, <2>2 DEF HandedInv, DoneIsDelivered
  <1> QED BY <1>6, <1>7, <1>8, <1>9 DEF Inv

LEMMA FailsStep == ASSUME SafeHandovers, Inv, Fails PROVE Inv'
  <1>0. Types /\ PlaceInv
    BY DEF Inv
  <1>1. N \in Nat /\ Stages \in Nat \ {0} /\ None = -1
    BY <1>0, ShapeFacts
  <1>2. /\ pc = "write" /\ stage \in 1..Stages /\ nodes \in Seq(Node) /\ Ids(nodes, stage) # {}
    BY <1>0, <1>1 DEF Fails, Types, PlaceInv
  <1>3. /\ nodes' = [nodes EXCEPT ![First(nodes, stage)].state = "failed"]
        /\ base' = None /\ pc' = "end" /\ state' = "failed"
        /\ UNCHANGED <<shape, stage, at, todo, held, flight, saved, sessions>>
    BY DEF Fails, Mark
  <1>4. nodes' \in Seq(Node) /\ \A s \in 1..Stages : Cursor(nodes', s) = Cursor(nodes, s)
    BY <1>2, <1>3, StateSet
  <1>5. TreeInv' /\ WriteInv'
    BY <1>2, <1>3, <1>4, ClosesInv
  <1>6. Types'
    BY <1>0, <1>3, <1>4 DEF Types
  <1>7. PlaceInv' /\ HandedInv'
    BY <1>3 DEF PlaceInv, HandedInv, DoneIsDelivered
  <1> QED BY <1>5, <1>6, <1>7 DEF Inv

LEMMA FinishStep == ASSUME SafeHandovers, Inv, Finish PROVE Inv'
  <1>0. Types /\ PlaceInv /\ HandedInv
    BY DEF Inv
  <1>1. N \in Nat /\ Stages \in Nat \ {0} /\ None = -1
    BY <1>0, ShapeFacts
  <1>2. /\ pc = "next" /\ state' = "done" /\ pc' = "end" /\ base = None /\ stage > Stages
        /\ stage \in 1..(Stages + 1)
        /\ UNCHANGED <<shape, stage, nodes, at, todo, base, held, flight, saved, sessions>>
    BY <1>0 DEF Finish, PlaceInv, Types
  <1>3. TreeInv' /\ WriteInv'
    BY <1>0, <1>2, ClosesInv DEF Types
  <1>4. held[Stages] = Items
    <2>1. Stages \in 1..(stage - 1)
      BY <1>1, <1>2
    <2> QED BY <1>0, <1>2, <2>1 DEF HandedInv
  <1>5. Types' /\ PlaceInv' /\ HandedInv'
    BY <1>0, <1>2, <1>4 DEF Types, PlaceInv, HandedInv, DoneIsDelivered
  <1> QED BY <1>3, <1>5 DEF Inv

\* What is saved is a tree at hand or one that was.
LEMMA SavedInv ==
    ASSUME SafeHandovers, Inv, Stored' \subseteq Stored \cup {nodes}, pc' \notin {"write", "off"},
           pc # "off", UNCHANGED <<shape, nodes, held>>
    PROVE  TreeInv'
  <1>1. shape.resumes \subseteq 1..Stages /\ nodes \in Seq(Node)
    BY ShapeFacts DEF Inv, Types
  <1>2. Written(nodes)'
    BY DEF Inv, TreeInv, Written
  <1>3. \A s \in shape.resumes : Cursor(nodes, s) \in Int
    BY <1>1, CursorFacts
  <1>4. Behind(nodes)'
    BY <1>3 DEF Behind
  <1>5. \A t \in Stored : Written(t)' /\ Behind(t)'
    BY DEF Inv, TreeInv, Written, Behind
  <1> QED BY <1>2, <1>4, <1>5 DEF TreeInv

LEMMA PersistEndStep == ASSUME SafeHandovers, Inv, PersistEnd PROVE Inv'
  <1>0. Types /\ PlaceInv /\ HandedInv
    BY DEF Inv
  <1>1. /\ pc = "end" /\ pc' = "ended" /\ saved' = [state |-> state, nodes |-> nodes]
        /\ UNCHANGED <<shape, state, stage, nodes, at, todo, base, held, flight, sessions>>
    BY DEF PersistEnd
  <1>2. saved' \in Record
    <2>1. state \in {"running", "failed", "done"} /\ nodes \in Seq(Node)
      BY <1>0 DEF Types
    <2> QED BY <1>1, <2>1 DEF Record
  <1>3. Types'
    BY <1>0, <1>1, <1>2 DEF Types
  <1>4. Stored' \subseteq Stored \cup {nodes}
    BY <1>1 DEF Stored
  <1>5. TreeInv'
    BY <1>1, <1>4, SavedInv
  <1>6. PlaceInv' /\ HandedInv' /\ WriteInv'
    BY <1>0, <1>1 DEF PlaceInv, HandedInv, WriteInv, DoneIsDelivered
  <1> QED BY <1>3, <1>5, <1>6 DEF Inv

LEMMA SnapshotStep == ASSUME SafeHandovers, Inv, Snapshot PROVE Inv'
  <1>0. Types /\ PlaceInv /\ HandedInv /\ TreeInv /\ WriteInv
    BY DEF Inv
  <1>1. shape.resumes \subseteq 1..Stages /\ N \in Nat /\ Stages \in Nat \ {0} /\ None = -1
    BY <1>0, ShapeFacts
  <1> DEFINE snap == [state |-> state, nodes |-> Clamped]
  <1>2. /\ pc \in {"next", "write"} /\ nodes' = Clamped /\ flight' = <<snap>>
        /\ UNCHANGED <<shape, pc, state, stage, at, todo, base, held, saved, sessions>>
    BY DEF Snapshot
  <1>3. /\ nodes \in Seq(Node) /\ state \in {"running", "failed", "done"}
        /\ base \in {None} \cup 0..N /\ (base # None => stage \in 1..Stages /\ Ids(nodes, stage) # {})
    BY <1>0, <1>1 DEF Types, PlaceInv
  <1>4. /\ Clamped \in Seq(Node) /\ (nodes # <<>> => Last(Clamped).stage = Last(nodes).stage)
        /\ \A s \in 1..Stages :
             /\ Ids(Clamped, s) = Ids(nodes, s)
             /\ Cursor(Clamped, s) = IF s = stage /\ base # None /\ Cursor(nodes, s) > base
                                       THEN base ELSE Cursor(nodes, s)
    <2>1. CASE base = None \/ Cursor(nodes, stage) <= base
      <3>1. Clamped = nodes
        BY <2>1 DEF Clamped
      <3>2. base # None => ~(Cursor(nodes, stage) > base)
        BY <1>1, <1>3, <2>1, CursorFacts
      <3> QED BY <1>3, <3>1, <3>2
    <2>2. CASE ~(base = None \/ Cursor(nodes, stage) <= base)
      <3>1. Clamped = [nodes EXCEPT ![First(nodes, stage)].cursor = base]
        BY <2>2 DEF Clamped
      <3>2. stage \in 1..Stages /\ base \in 0..N /\ Cursor(nodes, stage) > base
        BY <1>1, <1>3, <2>2, CursorFacts
      <3>3. LET more == [nodes EXCEPT ![First(nodes, stage)].cursor = base] IN
              /\ more \in Seq(Node) /\ Last(more).stage = Last(nodes).stage
              /\ Cursor(more, stage) = base
              /\ \A s \in 1..Stages : /\ Ids(more, s) = Ids(nodes, s)
                                      /\ s # stage => Cursor(more, s) = Cursor(nodes, s)
        BY <1>3, <2>2, <3>2, CursorSet
      <3> QED BY <2>2, <3>1, <3>2, <3>3
    <2> QED BY <2>1, <2>2
  <1>5. \A s \in 1..Stages : Cursor(nodes, s) \in Int /\ Cursor(Clamped, s) \in Int
    BY <1>3, <1>4, CursorFacts
  <1>6. \A s \in 1..Stages : Cursor(Clamped, s) <= Cursor(nodes, s)
    BY <1>1, <1>3, <1>4, <1>5
  <1> HIDE DEF snap
  <1>7. snap \in Record /\ snap.nodes = Clamped
    BY <1>3, <1>4 DEF Record, snap
  <1>8. Types'
    BY <1>0, <1>2, <1>4, <1>7 DEF Types
  <1>9. PlaceInv'
    <2>1. pc = "write" => nodes # <<>>
      BY <1>0 DEF PlaceInv, Ids
    <2>2. pc = "write" => stage \in 1..Stages
      BY <1>0, <1>3 DEF PlaceInv
    <2> QED BY <1>0, <1>2, <1>4, <2>1, <2>2 DEF PlaceInv
  <1>10. WriteInv' /\ HandedInv'
    BY <1>0, <1>2 DEF WriteInv, HandedInv, DoneIsDelivered
  <1>11. Stored' \subseteq Stored \cup {Clamped}
    BY <1>2, <1>7 DEF Stored
  <1>12. TreeInv'
    <2>0. PICK clamped : clamped = Clamped
      OBVIOUS
    <2>1. Written(clamped)'
      <3>1. Written(nodes)
        BY <1>0 DEF TreeInv
      <3>2. \A s \in shape.resumes : 1..Cursor(Clamped, s) \subseteq 1..Cursor(nodes, s)
        BY <1>1, <1>5, <1>6
      <3>3. \A s \in shape.resumes : 1..Cursor(Clamped, s) \subseteq held[s]
        BY <3>1, <3>2 DEF Written
      <3> QED BY <1>2, <2>0, <3>3 DEF Written
    <2>2. Behind(clamped)'
      <3>1. pc = "write" => base # None
        BY <1>0 DEF PlaceInv
      <3>2. \A s \in shape.resumes : pc = "write" /\ s = stage => Cursor(Clamped, s) <= base
        BY <1>1, <1>3, <1>4, <1>5, <3>1
      <3> QED BY <1>1, <1>2, <1>5, <2>0, <3>2 DEF Behind
    <2>3. ASSUME NEW t \in Stored PROVE Written(t)' /\ Behind(t)'
      <3>1. Written(t) /\ Behind(t) /\ t \in Seq(Node)
        BY <1>0, <1>2, StoredFacts DEF TreeInv
      <3>2. Written(t)'
        BY <1>2, <3>1 DEF Written
      <3>3. ASSUME NEW s \in shape.resumes PROVE Cursor(t, s) <= Cursor(Clamped, s)
        <4>1. Cursor(t, s) \in Int /\ s \in 1..Stages
          BY <1>1, <3>1, CursorFacts
        <4>2. CASE s = stage /\ base # None
          <5>1. Cursor(t, s) <= base
            BY <1>0, <1>2, <3>1, <4>2 DEF PlaceInv, Behind
          <5> QED BY <1>4, <3>1, <4>1, <5>1 DEF Behind
        <4>3. CASE ~(s = stage /\ base # None)
          BY <1>4, <3>1, <4>1, <4>3 DEF Behind
        <4> QED BY <4>2, <4>3
      <3> QED BY <1>2, <3>1, <3>2, <3>3 DEF Behind
    <2>4. Written(nodes)'
      BY <1>2, <2>0, <2>1 DEF Written
    <2>5. \A t \in Stored \cup {clamped} : Written(t)' /\ Behind(t)'
      BY <2>1, <2>2, <2>3
    <2> QED BY <1>11, <2>0, <2>4, <2>5 DEF TreeInv
  <1> QED BY <1>8, <1>9, <1>10, <1>12 DEF Inv

LEMMA LandStep == ASSUME SafeHandovers, Inv, Land PROVE Inv'
  <1>0. Types /\ PlaceInv /\ HandedInv /\ TreeInv /\ WriteInv
    BY DEF Inv
  <1>1. PICK r \in Record : flight = <<r>>
    BY <1>0 DEF Land, Types
  <1>2. /\ saved' = r /\ flight' = <<>>
        /\ UNCHANGED <<shape, pc, state, stage, nodes, at, todo, base, held, sessions>>
    BY <1>1 DEF Land, process
  <1>3. Types'
    BY <1>0, <1>1, <1>2 DEF Types
  <1>4. Stored' \subseteq Stored
    <2>1. Stored' = {r.nodes}
      BY <1>2 DEF Stored
    <2> QED BY <1>0, <1>1, <2>1, StoredFacts
  <1>5. TreeInv'
    <2>1. Written(nodes)'
      BY <1>0, <1>2 DEF TreeInv, Written
    <2>2. \A t \in Stored : Written(t)' /\ (pc' # "off" => Behind(t)')
      BY <1>0, <1>2 DEF TreeInv, Written, Behind
    <2> QED BY <1>4, <2>1, <2>2 DEF TreeInv
  <1>6. PlaceInv' /\ WriteInv' /\ HandedInv'
    BY <1>0, <1>2 DEF PlaceInv, WriteInv, HandedInv, DoneIsDelivered
  <1> QED BY <1>3, <1>5, <1>6 DEF Inv

LEMMA GoneStep == ASSUME SafeHandovers, Inv, Gone PROVE Inv'
  <1>0. Types /\ HandedInv /\ TreeInv
    BY DEF Inv
  <1>1. /\ shape.resumes \subseteq 1..Stages /\ shape.medium[Stages] = "keyed"
        /\ \A s \in shape.resumes : shape.medium[s] = "keyed"
        /\ Stages \in Nat \ {0} /\ N \in Nat /\ None = -1
    BY <1>0, ShapeFacts
  <1>2. /\ pc' = "off" /\ stage' = 1 /\ nodes' = <<>> /\ at' = 0 /\ todo' = <<>> /\ base' = None
        /\ flight' = <<>> /\ held' = Surviving
        /\ UNCHANGED <<shape, state, saved, sessions>>
    BY DEF Gone
  <1>3. /\ held' \in [1..Stages -> SUBSET Items]
        /\ \A s \in 1..Stages : shape.medium[s] = "keyed" => held'[s] = held[s]
    BY <1>0, <1>2 DEF Surviving, Types
  <1>4. Types'
    BY <1>0, <1>1, <1>2, <1>3 DEF Types
  <1>5. Stored' \subseteq Stored
    BY <1>2 DEF Stored
  <1>6. \A s : Cursor(<<>>, s) = None
    BY DEF Cursor, Ids
  <1>7. TreeInv'
    <2>1. Written(nodes)'
      BY <1>1, <1>2, <1>6 DEF Written
    <2>2. \A t \in Stored : Written(t)'
      BY <1>0, <1>1, <1>2, <1>3 DEF TreeInv, Written
    <2> QED BY <1>2, <1>5, <2>1, <2>2 DEF TreeInv
  <1>8. PlaceInv' /\ WriteInv' /\ HandedInv'
    BY <1>0, <1>1, <1>2, <1>3 DEF PlaceInv, WriteInv, HandedInv, DoneIsDelivered
  <1> QED BY <1>4, <1>7, <1>8 DEF Inv

LEMMA ResumeStep == ASSUME SafeHandovers, Inv, Resume PROVE Inv'
  <1>0. Types /\ PlaceInv /\ HandedInv /\ TreeInv
    BY DEF Inv
  <1>1. /\ shape.resumes \subseteq 1..Stages /\ Stages \in Nat \ {0} /\ MaxSessions \in Nat
    BY <1>0, ShapeFacts, SuiteConstants DEF SuiteConstants
  <1>2. /\ pc = "off" /\ sessions < MaxSessions /\ sessions' = sessions + 1 /\ state' = "running"
        /\ nodes' = saved.nodes /\ pc' = "next" /\ stage = 1 /\ flight = <<>> /\ base = None
        /\ UNCHANGED <<shape, stage, at, todo, base, held, flight, saved>>
    BY <1>0 DEF Resume, PlaceInv
  <1>3. saved.nodes \in Seq(Node)
    BY <1>0 DEF Types, Record
  <1>4. Types'
    BY <1>0, <1>1, <1>2, <1>3 DEF Types
  <1>5. Stored = {saved.nodes} /\ Stored' = Stored
    BY <1>2 DEF Stored
  <1>6. TreeInv'
    <2>1. Written(saved.nodes)'
      BY <1>0, <1>2, <1>5 DEF TreeInv, Written
    <2>2. \A s \in shape.resumes : Cursor(saved.nodes, s) \in Int
      BY <1>1, <1>3, CursorFacts
    <2>3. Behind(saved.nodes)'
      BY <1>2, <2>2 DEF Behind
    <2>4. Written(nodes)'
      BY <1>2, <2>1 DEF Written
    <2>5. \A t : t = saved.nodes => Written(t)' /\ Behind(t)'
      BY <1>2, <2>1, <2>3 DEF Written, Behind
    <2> QED BY <1>5, <2>4, <2>5 DEF TreeInv
  <1>7. PlaceInv' /\ WriteInv'
    BY <1>0, <1>2 DEF PlaceInv, WriteInv
  <1>8. HandedInv'
    BY <1>2 DEF HandedInv, DoneIsDelivered
  <1> QED BY <1>4, <1>6, <1>7, <1>8 DEF Inv

LEMMA NextStep == ASSUME SafeHandovers, Inv, [Next]_vars PROVE Inv' /\ ~WrittenAgain
  <1>1. CASE UNCHANGED vars
    <2>1. Inv'
      <3>1. UNCHANGED <<shape, pc, state, stage, nodes, at, todo, base, held, flight, saved, sessions>>
        BY <1>1 DEF vars, process
      <3>2. Types' /\ PlaceInv' /\ WriteInv' /\ HandedInv'
        BY <3>1 DEF Inv, Types, PlaceInv, WriteInv, HandedInv, DoneIsDelivered
      <3>3. Stored' = Stored /\ \A t : Written(t)' = Written(t) /\ Behind(t)' = Behind(t)
        BY <3>1 DEF Stored, Written, Behind
      <3>4. Written(nodes)'
        BY <3>1 DEF Inv, TreeInv, Written
      <3> QED BY <3>1, <3>2, <3>3, <3>4 DEF Inv, TreeInv
    <2>2. ~Write
      <3>1. Write => at' = at + 1 /\ at \in Nat
        BY SuiteConstants DEF SuiteConstants, Write, Inv, Types
      <3> QED BY <1>1, <3>1 DEF vars, process
    <2> QED BY <2>1, <2>2 DEF WrittenAgain
  <1>2. CASE Write
    BY <1>2, WriteStep
  <1>3. CASE Next /\ ~Write
    <2>1. Inv'
      BY <1>3, EnterStep, CompleteStep, FailsStep, FinishStep, PersistEndStep, SnapshotStep, LandStep,
         GoneStep, ResumeStep
      DEF Next, Exit, Crash
    <2> QED BY <1>3, <2>1 DEF WrittenAgain
  <1> QED BY <1>1, <1>2, <1>3

-----------------------------------------------------------------------------
(* The theorems                                                            *)

LEMMA Invariant == ASSUME SafeHandovers PROVE Spec => []Inv
  <1>1. Init => Inv
    BY InitInv
  <1>2. Inv /\ [Next]_vars => Inv'
    BY NextStep
  <1> QED BY <1>1, <1>2, PTL DEF Spec

(* Every variable keeps its type, and an open target is that of the stage  *)
(* the newest node stands for (enterNested, writeTarget of runner.ts).     *)
THEOREM TypeCorrect == ASSUME SafeHandovers PROVE Spec => []TypeOK
  <1>1. Inv => TypeOK
    BY DEF Inv, Types, PlaceInv, TypeOK
  <1> QED BY <1>1, Invariant, PTL

(* What a resume is told to skip of a stage is in the stage's output,      *)
(* whatever session recorded it (recordCursor, clampCursorsToCommitted of  *)
(* runner.ts, findNode of checkpoint.ts).                                  *)
THEOREM SkippedIsWritten == ASSUME SafeHandovers PROVE Spec => []SkipsOnlyWritten
  <1>1. Inv => SkipsOnlyWritten
    BY DEF Inv, TreeInv, Written, Stored, SkipsOnlyWritten, ToSet
  <1> QED BY <1>1, Invariant, PTL

(* A suite that ends as done has its whole output, however many sessions   *)
(* it took (subflowStream, markRunDone of runner.ts).                      *)
THEOREM DoneHasAll == ASSUME SafeHandovers PROVE Spec => []DoneIsDelivered
  <1>1. Inv => DoneIsDelivered
    BY DEF Inv, HandedInv
  <1> QED BY <1>1, Invariant, PTL

(* A stage whose source resumes writes nothing that state.json counts as   *)
(* written (resumeFrom of resume.ts, cursorNode of runner.ts).             *)
THEOREM NothingTwice == ASSUME SafeHandovers PROVE Spec => NothingIsRedone
  <1>1. Inv /\ [Next]_vars => [~WrittenAgain]_vars
    BY NextStep
  <1> QED BY <1>1, Invariant, PTL DEF Spec, NothingIsRedone
=============================================================================
