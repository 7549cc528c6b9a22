--------------------------- MODULE ModelCallProofs ---------------------------
(***************************************************************************)
(* Proofs about calls of models, at both of their ends.                    *)
(*                                                                         *)
(* The router, RouterCalls: for any slots, clients, budgets, upstreams and *)
(* key lists, type correctness, the bound of what is logged, and that      *)
(* reloads keep pools and refused keys stay out of them.                   *)
(*                                                                         *)
(* The caller, LlmCall: for any calls, keys, candidates, gates    *)
(* and caching, type correctness (retries, refits and corrections within   *)
(* their bounds included), that one request tries no candidate twice, and  *)
(* that the pin moves only away from a model that failed.                  *)
(***************************************************************************)
EXTENDS RouterCalls, LlmCall, FiniteSetTheorems, SequenceTheorems, TLAPS

-----------------------------------------------------------------------------
(* Numbers and sums                                                        *)

(* The least number of a set, from the finite sets' well-founded order.    *)
LEMMA LeastNatural ==
    ASSUME NEW T \in SUBSET Nat, T # {}
    PROVE  \E x \in T : \A y \in T : x <= y
  <1> DEFINE R == StrictSubsetOrdering(Nat)
             F == {0..n : n \in T}
  <1>1. IsWellFoundedOn(R, FiniteSubsetsOf(Nat))
    BY FS_StrictSubsetOrderingWellFounded
  <1>2. F \subseteq FiniteSubsetsOf(Nat) /\ F # {}
    <2>1. \A n \in Nat : IsFiniteSet(0..n) /\ 0..n \in SUBSET Nat
      BY FS_Interval
    <2> QED BY <2>1 DEF FiniteSubsetsOf
  <1>3. PICK X \in F : \A Y \in F : <<Y, X>> \notin R
    <2> HIDE DEF R, F
    <2> QED BY <1>1, <1>2, WFMin
  <1>4. PICK x \in T : X = 0..x
    OBVIOUS
  <1>5. ASSUME NEW y \in T, y < x PROVE FALSE
    <2>1. 0..y \in F /\ <<0..y, X>> \notin R
      BY <1>3
    <2>2. 0..y \in SUBSET Nat /\ 0..x \in SUBSET Nat
      OBVIOUS
    <2>3. 0..y \subseteq 0..x /\ x \in 0..x /\ x \notin 0..y
      BY <1>5
    <2> QED BY <2>1, <2>2, <2>3, <1>4 DEF StrictSubsetOrdering
  <1> QED BY <1>5

(* A set of numbers with 0 and every successor has them all.               *)
LEMMA AllNumbers ==
    ASSUME NEW G, 0 \in G, \A n \in Nat : n \in G => n + 1 \in G
    PROVE  Nat \subseteq G
  <1> SUFFICES ASSUME Nat \ G # {} PROVE FALSE
    OBVIOUS
  <1>1. PICK x \in Nat \ G : \A y \in Nat \ G : x <= y
    <2> DEFINE T == Nat \ G
    <2>1. T \in SUBSET Nat /\ T # {}
      OBVIOUS
    <2> HIDE DEF T
    <2>2. PICK x \in T : \A y \in T : x <= y
      BY <2>1, LeastNatural
    <2> QED BY <2>2 DEF T
  <1>2. x # 0 /\ x - 1 \in Nat
    OBVIOUS
  <1>3. x - 1 \in G
    BY <1>1, <1>2
  <1>4. x = (x - 1) + 1
    BY <1>2
  <1> QED BY <1>2, <1>3, <1>4

(* Sets that are good when they are good without any one of their members. *)
LEMMA SubsetInduction ==
    ASSUME NEW S, IsFiniteSet(S), NEW G, {} \in G,
           \A s \in SUBSET S : s # {} /\ (\A x \in s : s \ {x} \in G) => s \in G
    PROVE  S \in G
  <1> DEFINE H == {n \in Nat : \A s \in SUBSET S : Cardinality(s) = n => s \in G}
  <1>1. \A s \in SUBSET S : IsFiniteSet(s) /\ Cardinality(s) \in Nat
    BY FS_Subset, FS_CardinalityType
  <1>2. 0 \in H
    <2>1. \A s \in SUBSET S : Cardinality(s) = 0 => s = {}
      BY <1>1, FS_EmptySet
    <2> QED BY <2>1
  <1>3. ASSUME NEW n \in Nat, n \in H PROVE n + 1 \in H
    <2>1. ASSUME NEW s \in SUBSET S, Cardinality(s) = n + 1 PROVE s \in G
      <3>1. s # {}
        BY <2>1, FS_EmptySet
      <3>2. ASSUME NEW x \in s PROVE s \ {x} \in G
        <4>1. Cardinality(s \ {x}) = n
          BY <1>1, <2>1, FS_RemoveElement
        <4> QED BY <1>3, <4>1
      <3> QED BY <3>1, <3>2
    <2> QED BY <2>1
  <1>4. Nat \subseteq H
    <2> HIDE DEF H
    <2> QED BY <1>2, <1>3, AllNumbers
  <1>5. Cardinality(S) \in H
    BY <1>1, <1>4
  <1> QED BY <1>5

Any(s) == CHOOSE x \in s : TRUE

\* The function a fold of a sum is defined by.
Part(f, S) ==
    LET iter[s \in SUBSET S] ==
          IF s = {} THEN 0
          ELSE LET x == CHOOSE x \in s : TRUE
               IN  f[x] + iter[s \ {x}]
    IN  iter

LEMMA TotalIsPart == ASSUME NEW f, NEW S PROVE Total(f, S) = Part(f, S)[S]
  BY DEF Total, MapThenSumSet, MapThenFoldSet, Part

(* It is what its definition says, by the number of members.               *)
LEMMA PartStep ==
    ASSUME NEW S, IsFiniteSet(S), NEW f
    PROVE  /\ Part(f, S)[{}] = 0
           /\ \A s \in SUBSET S : s # {} =>
                /\ Any(s) \in s /\ s \ {Any(s)} \in SUBSET S
                /\ Part(f, S)[s] = f[Any(s)] + Part(f, S)[s \ {Any(s)}]
  <1> DEFINE Value(g, s) == IF s = {} THEN 0 ELSE f[Any(s)] + g[s \ {Any(s)}]
             Upto(g, n) == /\ g = [s \in SUBSET S |-> g[s]]
                           /\ \A s \in SUBSET S : Cardinality(s) <= n => g[s] = Value(g, s)
             G == {n \in Nat : \E g : Upto(g, n)}
  <1>1. \A s \in SUBSET S : IsFiniteSet(s) /\ Cardinality(s) \in Nat
    BY FS_Subset, FS_CardinalityType
  <1>2. \A s \in SUBSET S : s # {} =>
          /\ Any(s) \in s /\ s \ {Any(s)} \in SUBSET S
          /\ Cardinality(s \ {Any(s)}) = Cardinality(s) - 1
    BY <1>1, FS_RemoveElement DEF Any
  <1>3. 0 \in G
    <2> DEFINE g == [s \in SUBSET S |-> 0]
    <2>1. \A s \in SUBSET S : Cardinality(s) <= 0 => s = {}
      BY <1>1, FS_EmptySet
    <2>2. \A s \in SUBSET S : g[s] = 0
      OBVIOUS
    <2>3. \A s \in SUBSET S : Cardinality(s) <= 0 => g[s] = Value(g, s)
      BY <2>1, <2>2
    <2>4. g = [s \in SUBSET S |-> g[s]]
      OBVIOUS
    <2> HIDE DEF g, Value
    <2>5. Upto(g, 0)
      BY <2>3, <2>4
    <2> QED BY <2>5
  <1>4. ASSUME NEW n \in Nat, n \in G PROVE n + 1 \in G
    <2>1. PICK g : Upto(g, n)
      BY <1>4
    <2> DEFINE h == [s \in SUBSET S |-> Value(g, s)]
    <2>2. \A s \in SUBSET S : h[s] = Value(g, s)
      OBVIOUS
    <2>3. h = [s \in SUBSET S |-> h[s]]
      OBVIOUS
    <2> HIDE DEF h
    <2>4. ASSUME NEW s \in SUBSET S, Cardinality(s) <= n + 1 PROVE h[s] = Value(h, s)
      <3>1. CASE s = {}
        BY <2>2, <3>1
      <3>2. CASE s # {}
        <4>1. s \ {Any(s)} \in SUBSET S /\ Cardinality(s \ {Any(s)}) <= n
          <5>1. /\ s \ {Any(s)} \in SUBSET S /\ Cardinality(s \ {Any(s)}) = Cardinality(s) - 1
                /\ Cardinality(s) \in Nat
            BY <1>1, <1>2, <3>2
              <5> QED BY <2>4, <5>1
        <4>2. g[s \ {Any(s)}] = h[s \ {Any(s)}]
          <5> HIDE DEF Value
          <5> QED BY <2>1, <2>2, <4>1
        <4> QED BY <2>2, <3>2, <4>2
      <3> QED BY <3>1, <3>2
    <2>5. Upto(h, n + 1)
      <3> HIDE DEF Value
      <3> QED BY <2>3, <2>4
    <2> HIDE DEF Upto
    <2> QED BY <2>5
  <1>5. Nat \subseteq G
    <2> HIDE DEF G
    <2> QED BY <1>3, <1>4, AllNumbers
  <1>6. PICK g : Upto(g, Cardinality(S))
    BY <1>1, <1>5
  <1>7. g = [s \in SUBSET S |-> Value(g, s)]
    <2>1. \A s \in SUBSET S : Cardinality(s) <= Cardinality(S)
      BY FS_Subset
    <2>2. \A s \in SUBSET S : g[s] = Value(g, s)
      <3> HIDE DEF Value
      <3> QED BY <1>6, <2>1
    <2> HIDE DEF Value
    <2> QED BY <1>6, <2>2
  <1> DEFINE P == CHOOSE p : p = [s \in SUBSET S |-> Value(p, s)]
  <1>8. P = [s \in SUBSET S |-> Value(P, s)]
    <2> HIDE DEF Value
    <2> QED BY <1>7
  <1>9. Part(f, S) = P
    BY DEF Part, Any
  <1>10. \A s \in SUBSET S : P[s] = Value(P, s)
    <2> HIDE DEF P, Value
    <2>1. \A s \in SUBSET S : [t \in SUBSET S |-> Value(P, t)][s] = Value(P, s)
      OBVIOUS
    <2> QED BY <1>8, <2>1
  <1> HIDE DEF P
  <1> QED BY <1>2, <1>9, <1>10

Numbers(f, S) == \A x \in S : f[x] \in Nat

LEMMA PartType ==
    ASSUME NEW S, IsFiniteSet(S), NEW f, Numbers(f, S)
    PROVE  \A s \in SUBSET S : Part(f, S)[s] \in Nat
  <1> DEFINE G == {s \in SUBSET S : Part(f, S)[s] \in Nat}
  <1> SUFFICES ASSUME NEW t \in SUBSET S PROVE t \in G
    OBVIOUS
  <1>1. IsFiniteSet(t)
    BY FS_Subset
  <1>2. {} \in G
    BY PartStep
  <1>3. ASSUME NEW s \in SUBSET t, s # {}, \A x \in s : s \ {x} \in G PROVE s \in G
    <2>1. s \in SUBSET S
      OBVIOUS
    <2>2. Any(s) \in s /\ Part(f, S)[s] = f[Any(s)] + Part(f, S)[s \ {Any(s)}]
      BY <1>3, <2>1, PartStep
    <2>3. Part(f, S)[s \ {Any(s)}] \in Nat
      BY <1>3, <2>2
    <2> QED BY <2>1, <2>2, <2>3 DEF Numbers
  <1> HIDE DEF G
  <1> QED BY <1>1, <1>2, <1>3, SubsetInduction

LEMMA TotalType ==
    ASSUME NEW S, IsFiniteSet(S), NEW f, Numbers(f, S) PROVE Total(f, S) \in Nat
  BY PartType, TotalIsPart

(* A sum changes as much as the one member that changes.                   *)
LEMMA TotalChanges ==
    ASSUME NEW S, IsFiniteSet(S), NEW f, NEW g, Numbers(f, S), Numbers(g, S),
           NEW a \in S, \A x \in S \ {a} : g[x] = f[x]
    PROVE  Total(g, S) = Total(f, S) + g[a] - f[a]
  <1> DEFINE G == {s \in SUBSET S :
                     Part(g, S)[s] = Part(f, S)[s] + (IF a \in s THEN g[a] - f[a] ELSE 0)}
  <1>1. {} \in G
    <2>1. Part(f, S)[{}] = 0 /\ Part(g, S)[{}] = 0
      BY PartStep
    <2> QED BY <2>1
  <1>2. ASSUME NEW s \in SUBSET S, s # {}, \A x \in s : s \ {x} \in G PROVE s \in G
    <2> DEFINE x == Any(s)
    <2>1. /\ x \in s /\ s \ {x} \in SUBSET S
          /\ Part(f, S)[s] = f[x] + Part(f, S)[s \ {x}]
          /\ Part(g, S)[s] = g[x] + Part(g, S)[s \ {x}]
      BY <1>2, PartStep
    <2>2. Part(f, S)[s \ {x}] \in Nat /\ Part(g, S)[s \ {x}] \in Nat
      BY <2>1, PartType
    <2>3. f[x] \in Nat /\ g[x] \in Nat /\ f[a] \in Nat /\ g[a] \in Nat
      BY <2>1 DEF Numbers
    <2>4. Part(g, S)[s \ {x}]
            = Part(f, S)[s \ {x}] + (IF a \in s \ {x} THEN g[a] - f[a] ELSE 0)
      BY <1>2, <2>1
    <2> HIDE DEF x, G
    <2>5. CASE x = a
      <3>1. Part(g, S)[s \ {x}] = Part(f, S)[s \ {x}]
        BY <2>2, <2>4, <2>5
      <3> QED BY <2>1, <2>2, <2>3, <2>5, <3>1 DEF G
    <2>6. CASE x # a
      <3>1. g[x] = f[x]
        BY <2>1, <2>6
      <3> QED BY <2>1, <2>2, <2>3, <2>4, <2>6, <3>1 DEF G
    <2> QED BY <2>5, <2>6
  <1>3. S \in G
    <2> HIDE DEF G
    <2> QED BY <1>1, <1>2, SubsetInduction
  <1>4. f[a] \in Nat /\ g[a] \in Nat /\ Part(f, S)[S] \in Nat
    BY PartType DEF Numbers
  <1> QED BY <1>3, <1>4, TotalIsPart

LEMMA TotalGrows ==
    ASSUME NEW S, IsFiniteSet(S), NEW f, NEW g, Numbers(f, S), Numbers(g, S),
           \A x \in S : f[x] <= g[x]
    PROVE  Total(f, S) <= Total(g, S)
  <1> DEFINE G == {s \in SUBSET S : Part(f, S)[s] <= Part(g, S)[s]}
  <1>1. {} \in G
    <2>1. Part(f, S)[{}] = 0 /\ Part(g, S)[{}] = 0
      BY PartStep
    <2> QED BY <2>1
  <1>2. ASSUME NEW s \in SUBSET S, s # {}, \A x \in s : s \ {x} \in G PROVE s \in G
    <2> DEFINE x == Any(s)
    <2>1. /\ x \in s /\ s \ {x} \in SUBSET S
          /\ Part(f, S)[s] = f[x] + Part(f, S)[s \ {x}]
          /\ Part(g, S)[s] = g[x] + Part(g, S)[s \ {x}]
      BY <1>2, PartStep
    <2>2. Part(f, S)[s \ {x}] \in Nat /\ Part(g, S)[s \ {x}] \in Nat
      BY <2>1, PartType
    <2>3. f[x] \in Nat /\ g[x] \in Nat /\ f[x] <= g[x]
      BY <2>1 DEF Numbers
    <2>4. Part(f, S)[s \ {x}] <= Part(g, S)[s \ {x}]
      BY <1>2, <2>1
    <2> HIDE DEF x
    <2> QED BY <2>1, <2>2, <2>3, <2>4
  <1>3. S \in G
    <2> HIDE DEF G
    <2> QED BY <1>1, <1>2, SubsetInduction
  <1> QED BY <1>3, TotalIsPart

LEMMA TotalOfZeros ==
    ASSUME NEW S, IsFiniteSet(S), NEW f, \A x \in S : f[x] = 0 PROVE Total(f, S) = 0
  <1> DEFINE G == {s \in SUBSET S : Part(f, S)[s] = 0}
  <1>1. {} \in G
    BY PartStep
  <1>2. ASSUME NEW s \in SUBSET S, s # {}, \A x \in s : s \ {x} \in G PROVE s \in G
    <2>1. Any(s) \in s /\ Part(f, S)[s] = f[Any(s)] + Part(f, S)[s \ {Any(s)}]
      BY <1>2, PartStep
    <2>2. Part(f, S)[s \ {Any(s)}] = 0 /\ f[Any(s)] = 0
      BY <1>2, <2>1
    <2> QED BY <2>1, <2>2
  <1>3. S \in G
    <2> HIDE DEF G
    <2> QED BY <1>1, <1>2, SubsetInduction
  <1> QED BY <1>3, TotalIsPart

LEMMA MemberOfTotal ==
    ASSUME NEW S, IsFiniteSet(S), NEW f, Numbers(f, S), NEW a \in S
    PROVE  f[a] <= Total(f, S)
  <1> DEFINE g == [x \in S |-> IF x = a THEN 0 ELSE f[x]]
  <1>1. Numbers(g, S) /\ g[a] = 0 /\ (\A x \in S \ {a} : g[x] = f[x]) /\ f[a] \in Nat
    BY DEF Numbers
  <1> HIDE DEF g
  <1>2. Total(g, S) = Total(f, S) + g[a] - f[a]
    BY <1>1, TotalChanges
  <1>3. Total(g, S) \in Nat /\ Total(f, S) \in Nat
    BY <1>1, TotalType
  <1> QED BY <1>1, <1>2, <1>3

-----------------------------------------------------------------------------
(* Budgets                                                                 *)

\* What the requests of c may still be charged.
AskedBy(c) == [r \in Slots |-> IF Client(r) = c THEN call[r].texts ELSE 0]

Asked == [r \in Slots |-> call[r].texts]
Waiting == [d \in Days |-> Total(pending[d], Clients)]

\* A client of day d, or all: logged, on its way to the log, and for today still asked for.
ClientShare(d, c) ==
    log[d][c] + pending[d][c] + (IF d = day THEN Total(AskedBy(c), Slots) ELSE 0)
Share(d) ==
    Total(log[d], Clients) + Total(pending[d], Clients)
        + (IF d = day THEN Total(Asked, Slots) ELSE 0)

BudgetTypes ==
    /\ day \in Days /\ peak \in Nat
    /\ log \in [Days -> [Clients -> Nat]]
    /\ pending \in [Days -> [Clients -> Nat]]
    /\ call \in [Slots -> Request]

\* The budget is gone by what was under way at most; days to come have no cost.
BudgetInv ==
    /\ UnderWay <= peak
    /\ \A d \in Days :
        /\ Share(d) < Budget + peak
        /\ \A c \in Clients : ClientShare(d, c) < ClientBudget + peak
        /\ d > day => \A c \in Clients : log[d][c] = 0 /\ pending[d][c] = 0

LEMMA BudgetFacts ==
    ASSUME BudgetTypes
    PROVE  /\ IsFiniteSet(Slots) /\ IsFiniteSet(Clients) /\ IsFiniteSet(Days)
           /\ Numbers(Asked, Slots) /\ Total(Asked, Slots) \in Nat
           /\ Numbers(Waiting, Days) /\ Total(Waiting, Days) \in Nat
           /\ \A c \in Clients : Numbers(AskedBy(c), Slots) /\ Total(AskedBy(c), Slots) \in Nat
           /\ \A d \in Days : /\ Numbers(log[d], Clients) /\ Total(log[d], Clients) \in Nat
                              /\ Numbers(pending[d], Clients)
                              /\ Total(pending[d], Clients) \in Nat
           /\ UnderWay = Total(Asked, Slots) + Total(Waiting, Days)
           /\ Budget \in Nat \ {0} /\ ClientBudget \in Nat \ {0}
  <1>1. IsFiniteSet(Slots) /\ IsFiniteSet(Clients) /\ MaxDay \in Nat \ {0}
    BY RouterConstants DEF RouterConstants
  <1>2. IsFiniteSet(Days)
    BY <1>1, FS_Interval DEF Days
  <1>3. Numbers(Asked, Slots) /\ \A c \in Clients : Numbers(AskedBy(c), Slots)
    BY DEF Numbers, Asked, AskedBy, BudgetTypes, Request
  <1>4. \A d \in Days : Numbers(log[d], Clients) /\ Numbers(pending[d], Clients)
    BY DEF Numbers, BudgetTypes
  <1>5. \A d \in Days : Total(log[d], Clients) \in Nat /\ Total(pending[d], Clients) \in Nat
    BY <1>1, <1>4, TotalType
  <1>6. Numbers(Waiting, Days)
    BY <1>5 DEF Numbers, Waiting
  <1>7. Total(Asked, Slots) \in Nat /\ Total(Waiting, Days) \in Nat
    BY <1>1, <1>2, <1>3, <1>6, TotalType
  <1>8. \A c \in Clients : Total(AskedBy(c), Slots) \in Nat
    BY <1>1, <1>3, TotalType
  <1>9. UnderWay = Total(Asked, Slots) + Total(Waiting, Days)
    BY DEF UnderWay, Asked, Waiting
  <1> QED BY <1>1, <1>2, <1>3, <1>4, <1>5, <1>6, <1>7, <1>8, <1>9, RouterConstants
          DEF RouterConstants

(* What one slot asks changes from call to call'.                          *)
LEMMA AskedChanges ==
    ASSUME BudgetTypes, BudgetTypes', NEW r \in Slots, \A s \in Slots \ {r} : call'[s] = call[s]
    PROVE  /\ Total(Asked', Slots) = Total(Asked, Slots) + call'[r].texts - call[r].texts
           /\ Client(r) \in Clients
           /\ Total(AskedBy(Client(r))', Slots)
                = Total(AskedBy(Client(r)), Slots) + call'[r].texts - call[r].texts
           /\ \A c \in Clients \ {Client(r)} : AskedBy(c)' = AskedBy(c)
           /\ call[r].texts \in Nat /\ call'[r].texts \in Nat
  <1>1. /\ IsFiniteSet(Slots) /\ Numbers(Asked, Slots) /\ Numbers(Asked', Slots)
        /\ Client(r) \in Clients
        /\ \A c \in Clients : Numbers(AskedBy(c), Slots) /\ Numbers(AskedBy(c)', Slots)
    <2>1. Numbers(Asked, Slots)' /\ \A c \in Clients : Numbers(AskedBy(c), Slots)'
      BY DEF Numbers, Asked, AskedBy, BudgetTypes, Request
    <2> QED BY <2>1, BudgetFacts, RouterConstants DEF RouterConstants, Numbers
  <1>2. /\ Asked[r] = call[r].texts /\ Asked'[r] = call'[r].texts
        /\ \A s \in Slots \ {r} : Asked'[s] = Asked[s]
    BY DEF Asked
  <1>3. Total(Asked', Slots) = Total(Asked, Slots) + Asked'[r] - Asked[r]
    <2> DEFINE f == Asked
               g == Asked'
    <2>1. Numbers(f, Slots) /\ Numbers(g, Slots) /\ \A s \in Slots \ {r} : g[s] = f[s]
      BY <1>1, <1>2
    <2> HIDE DEF f, g
    <2>2. Total(g, Slots) = Total(f, Slots) + g[r] - f[r]
      BY <1>1, <2>1, TotalChanges
    <2> QED BY <2>2 DEF f, g
  <1> DEFINE c == Client(r)
  <1>4. Total(AskedBy(c)', Slots) = Total(AskedBy(c), Slots) + call'[r].texts - call[r].texts
    <2> DEFINE f == AskedBy(c)
               g == AskedBy(c)'
    <2>1. /\ Numbers(f, Slots) /\ Numbers(g, Slots) /\ \A s \in Slots \ {r} : g[s] = f[s]
          /\ f[r] = call[r].texts /\ g[r] = call'[r].texts
      BY <1>1 DEF AskedBy
    <2> HIDE DEF f, g
    <2>2. Total(g, Slots) = Total(f, Slots) + g[r] - f[r]
      BY <1>1, <2>1, TotalChanges
    <2> QED BY <2>1, <2>2 DEF f, g
  <1>5. \A b \in Clients \ {c} : AskedBy(b)' = AskedBy(b)
    BY DEF AskedBy
  <1>6. call[r].texts \in Nat /\ call'[r].texts \in Nat
    BY DEF BudgetTypes, Request
  <1> QED BY <1>1, <1>2, <1>3, <1>4, <1>5, <1>6

(* One entry of a table of days and clients changes.                       *)
LEMMA TableChanges ==
    ASSUME NEW f \in [Days -> [Clients -> Nat]], NEW g \in [Days -> [Clients -> Nat]],
           NEW d \in Days, NEW c \in Clients,
           \A e \in Days, b \in Clients : (e # d \/ b # c) => g[e][b] = f[e][b]
    PROVE  /\ Total(g[d], Clients) = Total(f[d], Clients) + g[d][c] - f[d][c]
           /\ \A e \in Days \ {d} : g[e] = f[e]
  <1>1. Numbers(f[d], Clients) /\ Numbers(g[d], Clients) /\ IsFiniteSet(Clients)
    BY RouterConstants DEF Numbers, RouterConstants
  <1>2. \A b \in Clients \ {c} : g[d][b] = f[d][b]
    OBVIOUS
  <1>3. ASSUME NEW e \in Days \ {d} PROVE g[e] = f[e]
    BY <1>3
  <1> QED BY <1>1, <1>2, <1>3, TotalChanges

(* The appends on their way change with the one entry that does.           *)
LEMMA WaitingChanges ==
    ASSUME BudgetTypes, BudgetTypes', NEW d \in Days, NEW c \in Clients,
           \A e \in Days, b \in Clients :
               (e # d \/ b # c) => pending'[e][b] = pending[e][b]
    PROVE  /\ Total(pending'[d], Clients)
                = Total(pending[d], Clients) + pending'[d][c] - pending[d][c]
           /\ \A e \in Days \ {d} : pending'[e] = pending[e]
           /\ Total(Waiting', Days) = Total(Waiting, Days) + pending'[d][c] - pending[d][c]
           /\ pending[d][c] \in Nat /\ pending'[d][c] \in Nat
  <1>1. /\ Total(pending'[d], Clients)
             = Total(pending[d], Clients) + pending'[d][c] - pending[d][c]
        /\ \A e \in Days \ {d} : pending'[e] = pending[e]
    <2> DEFINE f == pending
               g == pending'
    <2>1. f \in [Days -> [Clients -> Nat]] /\ g \in [Days -> [Clients -> Nat]]
      BY DEF BudgetTypes
    <2>2. \A e \in Days, b \in Clients : (e # d \/ b # c) => g[e][b] = f[e][b]
      OBVIOUS
    <2> HIDE DEF f, g
    <2>3. /\ Total(g[d], Clients) = Total(f[d], Clients) + g[d][c] - f[d][c]
          /\ \A e \in Days \ {d} : g[e] = f[e]
      BY <2>1, <2>2, TableChanges
    <2> QED BY <2>3 DEF f, g
  <1>2. Numbers(Waiting, Days) /\ IsFiniteSet(Days) /\ Numbers(Waiting', Days)
    <2>1. \A e \in Days : Numbers(pending'[e], Clients)
      BY DEF BudgetTypes, Numbers
    <2>2. \A e \in Days : Total(pending'[e], Clients) \in Nat
      BY <2>1, TotalType, BudgetFacts
    <2>3. \A e \in Days : Waiting'[e] \in Nat
      BY <2>2 DEF Waiting, Total, MapThenSumSet, MapThenFoldSet
    <2> QED BY <2>3, BudgetFacts DEF Numbers
  <1>3. /\ Waiting[d] = Total(pending[d], Clients) /\ Waiting'[d] = Total(pending'[d], Clients)
        /\ \A e \in Days \ {d} : Waiting'[e] = Waiting[e]
    <2>1. Waiting' = [e \in Days |-> Total(pending'[e], Clients)]
      BY DEF Waiting, Total, MapThenSumSet, MapThenFoldSet
    <2> QED BY <1>1, <2>1 DEF Waiting
  <1>4. Total(Waiting', Days) = Total(Waiting, Days) + Waiting'[d] - Waiting[d]
    <2> DEFINE f == Waiting
               g == Waiting'
    <2>1. Numbers(f, Days) /\ Numbers(g, Days) /\ \A e \in Days \ {d} : g[e] = f[e]
      BY <1>2, <1>3
    <2> HIDE DEF f, g
    <2>2. Total(g, Days) = Total(f, Days) + g[d] - f[d]
      BY <1>2, <2>1, TotalChanges
    <2> QED BY <2>2 DEF f, g
  <1>5. /\ pending[d][c] \in Nat /\ pending'[d][c] \in Nat
        /\ Total(pending[d], Clients) \in Nat /\ Total(Waiting, Days) \in Nat
    BY BudgetFacts DEF BudgetTypes
  <1> QED BY <1>1, <1>3, <1>4, <1>5

(* The shares of the next state, in terms of its tables.                   *)
LEMMA SharesNext ==
    /\ UnderWay' = Total(Asked', Slots) + Total(Waiting', Days)
    /\ \A d \in Days :
        /\ Share(d)' = Total(log'[d], Clients) + Total(pending'[d], Clients)
                         + (IF d = day' THEN Total(Asked', Slots) ELSE 0)
        /\ \A c \in Clients :
             ClientShare(d, c)' = log'[d][c] + pending'[d][c]
                                    + (IF d = day' THEN Total(AskedBy(c)', Slots) ELSE 0)
  <1>1. UnderWay' = Total(Asked', Slots) + Total(Waiting', Days)
    BY DEF UnderWay, Asked, Waiting, Total, MapThenSumSet, MapThenFoldSet
  <1>2. ASSUME NEW d \in Days
        PROVE  Share(d)' = Total(log'[d], Clients) + Total(pending'[d], Clients)
                             + (IF d = day' THEN Total(Asked', Slots) ELSE 0)
    BY DEF Share, Asked, Total, MapThenSumSet, MapThenFoldSet
  <1>3. ASSUME NEW d \in Days, NEW c \in Clients
        PROVE  ClientShare(d, c)' = log'[d][c] + pending'[d][c]
                                    + (IF d = day' THEN Total(AskedBy(c)', Slots) ELSE 0)
    BY DEF ClientShare, AskedBy, Total, MapThenSumSet, MapThenFoldSet
  <1> QED BY <1>1, <1>2, <1>3

(* A request ends, or goes on with as many texts or fewer.                 *)
LEMMA ServeBudget ==
    ASSUME BudgetTypes, BudgetTypes', BudgetInv, NEW r \in Slots,
           \A s \in Slots \ {r} : call'[s] = call[s], call'[r].texts <= call[r].texts,
           UNCHANGED <<day, log, pending, peak>>
    PROVE  BudgetInv'
  <1>1. /\ Total(Asked', Slots) <= Total(Asked, Slots)
        /\ Total(Asked', Slots) \in Int
        /\ \A c \in Clients : Total(AskedBy(c)', Slots) <= Total(AskedBy(c), Slots)
                              /\ Total(AskedBy(c)', Slots) \in Int
    BY AskedChanges, BudgetFacts
  <1>2. Waiting' = Waiting /\ Days \subseteq Nat /\ peak \in Nat /\ day \in Days
    <2>1. Waiting' = [d \in Days |-> Total(pending'[d], Clients)]
      BY DEF Waiting, Total, MapThenSumSet, MapThenFoldSet
    <2> QED BY <2>1 DEF Waiting, BudgetTypes, Days
  <1>3. UnderWay' <= peak'
    BY <1>1, <1>2, SharesNext, BudgetFacts DEF BudgetInv
  <1>4. ASSUME NEW d \in Days PROVE Share(d)' < Budget + peak'
    <2>1. Share(d)' <= Share(d) /\ Share(d) \in Int /\ Share(d)' \in Int
      BY <1>1, SharesNext, BudgetFacts DEF Share
    <2> QED BY <1>2, <2>1, BudgetFacts DEF BudgetInv
  <1>5. ASSUME NEW d \in Days, NEW c \in Clients
        PROVE  ClientShare(d, c)' < ClientBudget + peak'
    <2>1. log[d][c] \in Nat /\ pending[d][c] \in Nat
      BY DEF BudgetTypes
    <2>2. /\ ClientShare(d, c)' <= ClientShare(d, c)
          /\ ClientShare(d, c) \in Int /\ ClientShare(d, c)' \in Int
      BY <1>1, <2>1, SharesNext, BudgetFacts DEF ClientShare
    <2> QED BY <1>2, <2>2, BudgetFacts DEF BudgetInv
  <1>6. \A d \in Days : d > day' => \A c \in Clients : log'[d][c] = 0 /\ pending'[d][c] = 0
    BY DEF BudgetInv
  <1> QED BY <1>3, <1>4, <1>5, <1>6 DEF BudgetInv

(* A text that was asked for is charged: its append is on the way.         *)
LEMMA ChargeBudget ==
    ASSUME BudgetTypes, BudgetTypes', BudgetInv, NEW r \in Slots,
           \A s \in Slots \ {r} : call'[s] = call[s], call'[r].texts < call[r].texts,
           pending' = [pending EXCEPT ![day][Client(r)] = @ + 1],
           UNCHANGED <<day, log, peak>>
    PROVE  BudgetInv'
  <1> DEFINE a == Client(r)
  <1>0. a \in Clients /\ day \in Days /\ Days \subseteq Nat /\ peak \in Nat
    BY AskedChanges DEF BudgetTypes, Days
  <1>1. /\ Total(Asked', Slots) <= Total(Asked, Slots) - 1
        /\ Total(AskedBy(a)', Slots) <= Total(AskedBy(a), Slots) - 1
        /\ Total(Asked', Slots) \in Int /\ Total(AskedBy(a)', Slots) \in Int
        /\ \A c \in Clients \ {a} : AskedBy(c)' = AskedBy(c)
    BY <1>0, AskedChanges, BudgetFacts
  <1>2. /\ pending'[day][a] = pending[day][a] + 1
        /\ \A d \in Days, c \in Clients : (d # day \/ c # a) => pending'[d][c] = pending[d][c]
    BY <1>0 DEF BudgetTypes
  <1>3. /\ Total(pending'[day], Clients) = Total(pending[day], Clients) + 1
        /\ \A d \in Days \ {day} : pending'[d] = pending[d]
        /\ Total(Waiting', Days) = Total(Waiting, Days) + 1
    <2> HIDE DEF a
    <2> QED BY <1>0, <1>2, WaitingChanges, BudgetFacts
  <1> HIDE DEF a
  <1>4. UnderWay' <= peak'
    BY <1>0, <1>1, <1>3, SharesNext, BudgetFacts DEF BudgetInv
  <1>5. ASSUME NEW d \in Days PROVE Share(d)' < Budget + peak'
    <2>1. Share(d)' <= Share(d) /\ Share(d) \in Int /\ Share(d)' \in Int
      <3>1. CASE d = day
        BY <1>1, <1>3, <3>1, SharesNext, BudgetFacts DEF Share
      <3>2. CASE d # day
        BY <1>3, <3>2, SharesNext, BudgetFacts DEF Share
      <3> QED BY <3>1, <3>2
    <2> QED BY <1>0, <2>1, BudgetFacts DEF BudgetInv
  <1>6. ASSUME NEW d \in Days, NEW c \in Clients
        PROVE  ClientShare(d, c)' < ClientBudget + peak'
    <2>1. log[d][c] \in Nat /\ pending[d][c] \in Nat
      BY DEF BudgetTypes
    <2>2. /\ ClientShare(d, c)' <= ClientShare(d, c)
          /\ ClientShare(d, c) \in Int /\ ClientShare(d, c)' \in Int
      <3>1. CASE d = day /\ c = a
        BY <1>1, <1>2, <2>1, <3>1, SharesNext, BudgetFacts DEF ClientShare
      <3>2. CASE d = day /\ c # a
        BY <1>1, <1>2, <2>1, <3>2, SharesNext, BudgetFacts DEF ClientShare
      <3>3. CASE d # day
        BY <1>2, <2>1, <3>3, SharesNext, BudgetFacts DEF ClientShare
      <3> QED BY <3>1, <3>2, <3>3
    <2> QED BY <1>0, <2>2, BudgetFacts DEF BudgetInv
  <1>7. ASSUME NEW d \in Days, d > day', NEW c \in Clients
        PROVE  log'[d][c] = 0 /\ pending'[d][c] = 0
    BY <1>0, <1>2, <1>7 DEF BudgetInv
  <1> QED BY <1>4, <1>5, <1>6, <1>7 DEF BudgetInv

(* An append lands in the log, or is lost.                                 *)
LEMMA LandBudget ==
    ASSUME BudgetTypes, BudgetTypes', BudgetInv, NEW d \in Days, NEW c \in Clients, Land(d, c)
    PROVE  BudgetInv'
  <1>0. Days \subseteq Nat /\ peak \in Nat /\ day \in Days
    BY DEF BudgetTypes, Days
  <1>1. /\ day' = day /\ peak' = peak /\ Asked' = Asked
        /\ \A b \in Clients : AskedBy(b)' = AskedBy(b)
    BY DEF Land, Asked, AskedBy
  <1>2. /\ pending'[d][c] = pending[d][c] - 1
        /\ \A e \in Days, b \in Clients : (e # d \/ b # c) => pending'[e][b] = pending[e][b]
        /\ log'[d][c] <= log[d][c] + 1
        /\ \A e \in Days, b \in Clients : (e # d \/ b # c) => log'[e][b] = log[e][b]
        /\ log[d][c] \in Nat /\ log'[d][c] \in Nat
        /\ pending[d][c] \in Nat \ {0} /\ pending'[d][c] \in Nat
    BY DEF Land, BudgetTypes
  <1>3. /\ Total(pending'[d], Clients) = Total(pending[d], Clients) - 1
        /\ \A e \in Days \ {d} : pending'[e] = pending[e]
        /\ Total(Waiting', Days) = Total(Waiting, Days) - 1
    BY <1>2, WaitingChanges, BudgetFacts
  <1>4. /\ Total(log'[d], Clients) <= Total(log[d], Clients) + 1
        /\ Total(log'[d], Clients) \in Int
        /\ \A e \in Days \ {d} : log'[e] = log[e]
    <2> DEFINE f == log
               g == log'
    <2>1. f \in [Days -> [Clients -> Nat]] /\ g \in [Days -> [Clients -> Nat]]
      BY DEF BudgetTypes
    <2>2. \A e \in Days, b \in Clients : (e # d \/ b # c) => g[e][b] = f[e][b]
      BY <1>2
    <2> HIDE DEF f, g
    <2>3. /\ Total(g[d], Clients) = Total(f[d], Clients) + g[d][c] - f[d][c]
          /\ \A e \in Days \ {d} : g[e] = f[e]
      BY <2>1, <2>2, TableChanges, SMTT(30)
    <2> QED BY <1>2, <2>3, BudgetFacts DEF f, g
  <1>a. /\ Budget \in Nat /\ ClientBudget \in Nat
        /\ \A e \in Days : /\ Share(e) < Budget + peak
                           /\ \A b \in Clients : ClientShare(e, b) < ClientBudget + peak
    BY BudgetFacts DEF BudgetInv
  <1>5. UnderWay' <= peak'
    BY <1>0, <1>1, <1>3, SharesNext, BudgetFacts DEF BudgetInv
  <1>6. ASSUME NEW e \in Days PROVE Share(e)' < Budget + peak'
    <2>1. Share(e)' <= Share(e) /\ Share(e) \in Int /\ Share(e)' \in Int
      <3>1. CASE e = d
        BY <1>1, <1>3, <1>4, <3>1, SharesNext, BudgetFacts DEF Share
      <3>2. CASE e # d
        BY <1>1, <1>3, <1>4, <3>2, SharesNext, BudgetFacts DEF Share
      <3> QED BY <3>1, <3>2
    <2> QED BY <1>0, <1>1, <1>a, <2>1
  <1>7. ASSUME NEW e \in Days, NEW b \in Clients
        PROVE  ClientShare(e, b)' < ClientBudget + peak'
    <2>1. log[e][b] \in Nat /\ pending[e][b] \in Nat
      BY DEF BudgetTypes
    <2>2. /\ ClientShare(e, b)' <= ClientShare(e, b)
          /\ ClientShare(e, b) \in Int /\ ClientShare(e, b)' \in Int
      <3>1. CASE e = d /\ b = c
        BY <1>1, <1>2, <2>1, <3>1, SharesNext, BudgetFacts DEF ClientShare
      <3>2. CASE e # d \/ b # c
        BY <1>1, <1>2, <2>1, <3>2, SharesNext, BudgetFacts DEF ClientShare
      <3> QED BY <3>1, <3>2
    <2> QED BY <1>0, <1>1, <1>a, <2>2
  <1>8. ASSUME NEW e \in Days, e > day', NEW b \in Clients
        PROVE  log'[e][b] = 0 /\ pending'[e][b] = 0
    <2>1. log[e][b] = 0 /\ pending[e][b] = 0
      BY <1>1, <1>8 DEF BudgetInv
    <2>2. e # d \/ b # c
      BY <1>2, <2>1
    <2> QED BY <1>2, <2>1, <2>2
  <1> QED BY <1>5, <1>6, <1>7, <1>8 DEF BudgetInv

(* A request is let in for n texts while the log is within both budgets.   *)
LEMMA LetInBudget ==
    ASSUME BudgetTypes, BudgetTypes', BudgetInv, NEW r \in Slots, Within(day, Client(r)),
           \A s \in Slots \ {r} : call'[s] = call[s], call[r].texts = 0,
           peak' = IF peak > UnderWay + call'[r].texts THEN peak ELSE UnderWay + call'[r].texts,
           UNCHANGED <<day, log, pending>>
    PROVE  BudgetInv'
  <1> DEFINE a == Client(r)
             n == call'[r].texts
  <1>0. /\ a \in Clients /\ day \in Days /\ Days \subseteq Nat /\ peak \in Nat /\ n \in Nat
        /\ IsFiniteSet(Slots) /\ IsFiniteSet(Days) /\ IsFiniteSet(Clients)
    BY AskedChanges, BudgetFacts DEF BudgetTypes, Days
  <1>1. /\ Total(Asked', Slots) = Total(Asked, Slots) + n
        /\ Total(AskedBy(a)', Slots) = Total(AskedBy(a), Slots) + n
        /\ \A c \in Clients \ {a} : AskedBy(c)' = AskedBy(c)
    BY <1>0, AskedChanges, BudgetFacts
  <1>2. Waiting' = Waiting
    <2>1. Waiting' = [d \in Days |-> Total(pending'[d], Clients)]
      BY DEF Waiting, Total, MapThenSumSet, MapThenFoldSet
    <2> QED BY <2>1 DEF Waiting
  <1>3. /\ Total(AskedBy(a), Slots) <= Total(Asked, Slots)
        /\ Total(pending[day], Clients) <= Total(Waiting, Days)
        /\ pending[day][a] <= Total(pending[day], Clients)
    <2>1. \A s \in Slots : AskedBy(a)[s] <= Asked[s]
      <3>1. \A s \in Slots : call[s].texts \in Nat
        BY DEF BudgetTypes, Request
      <3> QED BY <3>1 DEF AskedBy, Asked
    <2>2. Total(AskedBy(a), Slots) <= Total(Asked, Slots)
      BY <1>0, <2>1, BudgetFacts, TotalGrows
    <2>3. Waiting[day] <= Total(Waiting, Days)
      BY <1>0, BudgetFacts, MemberOfTotal
    <2>4. Waiting[day] = Total(pending[day], Clients)
      BY <1>0 DEF Waiting
    <2>5. pending[day][a] <= Total(pending[day], Clients)
      BY <1>0, BudgetFacts, MemberOfTotal
    <2> QED BY <2>2, <2>3, <2>4, <2>5
  <1>4. /\ UnderWay + n <= peak' /\ peak <= peak' /\ peak' \in Nat /\ UnderWay \in Nat
        /\ UnderWay = Total(Asked, Slots) + Total(Waiting, Days)
    BY <1>0, BudgetFacts
  <1> HIDE DEF a, n
  <1>5. UnderWay' <= peak'
    BY <1>0, <1>1, <1>2, <1>4, SharesNext, BudgetFacts
  <1>6. ASSUME NEW d \in Days PROVE Share(d)' < Budget + peak'
    <2>1. CASE d = day
      <3>1. Total(log[day], Clients) < Budget
        BY DEF Within
      <3> QED BY <1>0, <1>1, <1>3, <1>4, <2>1, <3>1, SharesNext, BudgetFacts
    <2>2. CASE d # day
      <3>1. Share(d)' = Share(d) /\ Share(d) \in Int
        BY <2>2, SharesNext, BudgetFacts DEF Share
      <3> QED BY <1>0, <1>4, <3>1, BudgetFacts DEF BudgetInv
    <2> QED BY <2>1, <2>2
  <1>7. ASSUME NEW d \in Days, NEW c \in Clients
        PROVE  ClientShare(d, c)' < ClientBudget + peak'
    <2>1. log[d][c] \in Nat /\ pending[d][c] \in Nat
      BY DEF BudgetTypes
    <2>2. CASE d = day /\ c = a
      <3>1. log[day][a] < ClientBudget
        BY DEF Within, a
      <3> QED BY <1>0, <1>1, <1>3, <1>4, <2>1, <2>2, <3>1, SharesNext, BudgetFacts
    <2>3. CASE d # day \/ c # a
      <3>1. ClientShare(d, c)' = ClientShare(d, c) /\ ClientShare(d, c) \in Int
        BY <1>1, <2>1, <2>3, SharesNext, BudgetFacts DEF ClientShare
      <3> QED BY <1>0, <1>4, <3>1, BudgetFacts DEF BudgetInv
    <2> QED BY <2>2, <2>3
  <1>8. \A d \in Days : d > day' => \A c \in Clients : log'[d][c] = 0 /\ pending'[d][c] = 0
    BY DEF BudgetInv
  <1> QED BY <1>5, <1>6, <1>7, <1>8 DEF BudgetInv

(* The new day starts with nothing logged; what is under way is charged to it. *)
LEMMA MidnightBudget ==
    ASSUME BudgetTypes, BudgetTypes', BudgetInv, Midnight
    PROVE  BudgetInv'
  <1>0. /\ day' = day + 1 /\ day' \in Days /\ day \in Days /\ Days \subseteq Nat /\ peak \in Nat
        /\ UNCHANGED <<log, pending, call, peak>> /\ IsFiniteSet(Clients)
    BY BudgetFacts DEF BudgetTypes, Days, Midnight, logVars
  <1>1. /\ Asked' = Asked /\ \A c \in Clients : AskedBy(c)' = AskedBy(c)
    BY <1>0 DEF Asked, AskedBy
  <1>2. Waiting' = Waiting
    <2>1. Waiting' = [d \in Days |-> Total(pending'[d], Clients)]
      BY DEF Waiting, Total, MapThenSumSet, MapThenFoldSet
    <2> QED BY <1>0, <2>1 DEF Waiting
  <1>3. UnderWay' <= peak'
    BY <1>0, <1>1, <1>2, SharesNext, BudgetFacts DEF BudgetInv
  <1>4. \A c \in Clients : log[day'][c] = 0 /\ pending[day'][c] = 0
    BY <1>0 DEF BudgetInv
  <1>5. /\ Total(log[day'], Clients) = 0 /\ Total(pending[day'], Clients) = 0
        /\ Total(Asked, Slots) <= peak
    BY <1>0, <1>4, TotalOfZeros, BudgetFacts DEF BudgetInv
  <1>6. \A c \in Clients : Total(AskedBy(c), Slots) <= peak
    <2> SUFFICES ASSUME NEW c \in Clients PROVE Total(AskedBy(c), Slots) <= Total(Asked, Slots)
      BY <1>0, <1>5, BudgetFacts
    <2>1. \A s \in Slots : AskedBy(c)[s] <= Asked[s]
      <3>1. \A s \in Slots : call[s].texts \in Nat
        BY DEF BudgetTypes, Request
      <3> QED BY <3>1 DEF AskedBy, Asked
    <2> QED BY <2>1, BudgetFacts, TotalGrows
  <1>7. ASSUME NEW d \in Days PROVE Share(d)' < Budget + peak'
    <2>1. CASE d = day'
      BY <1>0, <1>1, <1>5, <2>1, SharesNext, BudgetFacts
    <2>2. CASE d # day'
      <3>1. Share(d)' <= Share(d) /\ Share(d) \in Int /\ Share(d)' \in Int
        BY <1>0, <2>2, SharesNext, BudgetFacts DEF Share
      <3> QED BY <1>0, <3>1, BudgetFacts DEF BudgetInv
    <2> QED BY <2>1, <2>2
  <1>8. ASSUME NEW d \in Days, NEW c \in Clients
        PROVE  ClientShare(d, c)' < ClientBudget + peak'
    <2>1. log[d][c] \in Nat /\ pending[d][c] \in Nat
      BY DEF BudgetTypes
    <2>2. CASE d = day'
      BY <1>0, <1>1, <1>4, <1>6, <2>2, SharesNext, BudgetFacts
    <2>3. CASE d # day'
      <3>1. /\ ClientShare(d, c)' <= ClientShare(d, c)
            /\ ClientShare(d, c) \in Int /\ ClientShare(d, c)' \in Int
        BY <1>0, <2>1, <2>3, SharesNext, BudgetFacts DEF ClientShare
      <3> QED BY <1>0, <3>1, BudgetFacts DEF BudgetInv
    <2> QED BY <2>2, <2>3
  <1>9. ASSUME NEW d \in Days, d > day', NEW c \in Clients
        PROVE  log'[d][c] = 0 /\ pending'[d][c] = 0
    <2>1. d > day
      BY <1>0, <1>9
    <2> QED BY <1>0, <2>1 DEF BudgetInv
  <1> QED BY <1>3, <1>7, <1>8, <1>9 DEF BudgetInv

(* A restart drops what is under way; a rotated log only counts less.      *)
LEMMA RestartBudget ==
    ASSUME BudgetTypes, BudgetTypes', BudgetInv, Restart
    PROVE  BudgetInv'
  <1>0. /\ day' = day /\ day \in Days /\ Days \subseteq Nat /\ peak' = peak /\ peak \in Nat
        /\ \A d \in Days, c \in Clients : pending'[d][c] = 0 /\ log'[d][c] <= log[d][c]
        /\ \A r \in Slots : call'[r].texts = 0
        /\ IsFiniteSet(Clients) /\ IsFiniteSet(Slots) /\ IsFiniteSet(Days)
    <2>1. /\ \A d \in Days, c \in Clients : pending'[d][c] = 0
          /\ \A r \in Slots : call'[r].texts = 0
      BY DEF Restart, Idle
    <2>2. ASSUME NEW d \in Days, NEW c \in Clients PROVE log'[d][c] <= log[d][c]
      <3>1. log[d][c] \in Nat /\ log \in [Days -> [Clients -> Nat]] /\ day \in Days
        BY DEF BudgetTypes
      <3>2. CASE UNCHANGED log
        BY <3>1, <3>2
      <3>3. CASE log' = [log EXCEPT ![day] = [b \in Clients |-> 0]]
        <4>1. log'[d] = IF d = day THEN [b \in Clients |-> 0] ELSE log[d]
          BY <3>1, <3>3
        <4> QED BY <3>1, <4>1
      <3> QED BY <3>2, <3>3 DEF Restart
    <2>3. day' = day /\ day \in Days /\ Days \subseteq Nat /\ peak' = peak /\ peak \in Nat
      BY DEF BudgetTypes, Days, Restart
    <2> QED BY <2>1, <2>2, <2>3, BudgetFacts
  <1>1. /\ Total(Asked', Slots) = 0
        /\ \A c \in Clients : Total(AskedBy(c)', Slots) = 0
    <2>1. \A r \in Slots : Asked'[r] = 0 /\ \A c \in Clients : AskedBy(c)'[r] = 0
      BY <1>0 DEF Asked, AskedBy
    <2> QED BY <1>0, <2>1, TotalOfZeros
  <1>2. \A d \in Days : Total(pending'[d], Clients) = 0
    BY <1>0, TotalOfZeros
  <1>3. Total(Waiting', Days) = 0
    <2>1. Waiting' = [d \in Days |-> Total(pending'[d], Clients)]
      BY DEF Waiting, Total, MapThenSumSet, MapThenFoldSet
    <2>2. \A d \in Days : Waiting'[d] = 0
      BY <1>2, <2>1
    <2> QED BY <1>0, <2>2, TotalOfZeros
  <1>4. ASSUME NEW d \in Days
        PROVE  /\ Total(log'[d], Clients) <= Total(log[d], Clients)
               /\ Total(log'[d], Clients) \in Nat
    <2>1. Numbers(log'[d], Clients) /\ Numbers(log[d], Clients)
      BY DEF Numbers, BudgetTypes
    <2>2. \A c \in Clients : log'[d][c] <= log[d][c]
      BY <1>0
    <2> QED BY <1>0, <2>1, <2>2, TotalGrows, TotalType
  <1>5. UnderWay' <= peak'
    BY <1>0, <1>1, <1>3, SharesNext
  <1>6. ASSUME NEW d \in Days PROVE Share(d)' < Budget + peak'
    <2>1. Share(d)' <= Share(d) /\ Share(d) \in Int /\ Share(d)' \in Int
      BY <1>0, <1>1, <1>2, <1>4, SharesNext, BudgetFacts DEF Share
    <2> QED BY <1>0, <2>1, BudgetFacts DEF BudgetInv
  <1>7. ASSUME NEW d \in Days, NEW c \in Clients
        PROVE  ClientShare(d, c)' < ClientBudget + peak'
    <2>1. log[d][c] \in Nat /\ pending[d][c] \in Nat /\ log'[d][c] \in Nat
      BY DEF BudgetTypes
    <2>2. /\ ClientShare(d, c)' <= ClientShare(d, c)
          /\ ClientShare(d, c) \in Int /\ ClientShare(d, c)' \in Int
      BY <1>0, <1>1, <2>1, SharesNext, BudgetFacts DEF ClientShare
    <2> QED BY <1>0, <2>2, BudgetFacts DEF BudgetInv
  <1>8. ASSUME NEW d \in Days, d > day', NEW c \in Clients
        PROVE  log'[d][c] = 0 /\ pending'[d][c] = 0
    <2>1. log[d][c] = 0 /\ log'[d][c] \in Nat
      BY <1>0, <1>8 DEF BudgetInv, BudgetTypes
    <2> QED BY <1>0, <2>1
  <1> QED BY <1>5, <1>6, <1>7, <1>8 DEF BudgetInv

-----------------------------------------------------------------------------
(* Pools                                                                   *)

Good(pool) == pool \in Pool /\ pool.index <= Len(pool.keys)

LEMMA KeysFacts ==
    ASSUME NEW pool, Good(pool)
    PROVE  /\ pool.keys \in Seq(Keys) /\ Len(pool.keys) \in Nat \ {0}
           /\ KeysIn(pool.keys) \subseteq Keys /\ pool.index \in 1..Len(pool.keys)
  <1>1. PICK s \in Specs : pool.keys = KeysOf(s)
    BY DEF Good, Pool
  <1>2. KeysOf(s) \in Seq(Keys) /\ KeysOf(s) # <<>>
    BY PoolConstants DEF PoolConstants
  <1>3. Len(KeysOf(s)) \in Nat \ {0}
    BY <1>2, EmptySeq
  <1>4. pool.index \in Nat \ {0} /\ pool.index <= Len(pool.keys)
    BY DEF Good, Pool
  <1>5. KeysIn(pool.keys) \subseteq Keys
    BY <1>1, <1>2 DEF KeysIn
  <1> QED BY <1>1, <1>2, <1>3, <1>4, <1>5

LEMMA InRound ==
    ASSUME NEW n \in Int, NEW len \in Nat \ {0} PROVE (n % len) + 1 \in 1..len
  <1>1. n % len \in 0..(len - 1)
    OBVIOUS
  <1> QED BY <1>1

LEMMA KeyAtIsKey ==
    ASSUME NEW pool, Good(pool), NEW n \in Nat PROVE KeyAt(pool, n) \in KeysIn(pool.keys)
  <1>1. pool.index \in Int /\ Len(pool.keys) \in Nat \ {0} /\ pool.keys \in Seq(Keys)
    BY KeysFacts
  <1>2. pool.index + n - 2 \in Int
    BY <1>1
  <1>3. ((pool.index + n - 2) % Len(pool.keys)) + 1 \in DOMAIN pool.keys
    BY <1>1, <1>2, InRound
  <1> QED BY <1>3 DEF KeyAt, KeysIn

LEMMA TurnFacts ==
    ASSUME NEW pool, Good(pool)
    PROVE  /\ Turn(pool) \in Nat
           /\ Turn(pool) # 0 => Usable(pool, KeyAt(pool, Turn(pool)))
  <1> DEFINE turns == {n \in 1..Len(pool.keys) : Usable(pool, KeyAt(pool, n))}
             t == CHOOSE n \in turns : \A m \in turns : n <= m
  <1>1. CASE pool.expired \/ turns = {}
    <2>1. Turn(pool) = 0
      BY <1>1 DEF Turn
    <2> QED BY <2>1
  <1>2. CASE ~(pool.expired \/ turns = {})
    <2>1. Turn(pool) = t
      BY <1>2 DEF Turn
    <2>2. turns \in SUBSET Nat /\ turns # {}
      BY <1>2, KeysFacts
    <2>3. t \in turns
      <3> HIDE DEF turns
      <3>1. \E n \in turns : \A m \in turns : n <= m
        BY <2>2, LeastNatural
      <3> QED BY <3>1
    <2> HIDE DEF t
    <2>4. t \in Nat /\ Usable(pool, KeyAt(pool, t))
      BY <2>2, <2>3
    <2> QED BY <2>1, <2>4
  <1> QED BY <1>1, <1>2

(* A key that is picked is one of the pool's and was not refused by it.    *)
LEMMA PickedFacts ==
    ASSUME NEW pool, Good(pool), Picked(pool) # NoKey
    PROVE  /\ Picked(pool) \in KeysIn(pool.keys) /\ Picked(pool) \in Keys
           /\ Picked(pool) \notin pool.disabled
  <1>1. Turn(pool) # 0 /\ Picked(pool) = KeyAt(pool, Turn(pool))
    BY DEF Picked
  <1>2. Turn(pool) \in Nat /\ Usable(pool, Picked(pool))
    BY <1>1, TurnFacts
  <1>3. Picked(pool) \in KeysIn(pool.keys)
    BY <1>1, <1>2, KeyAtIsKey
  <1> QED BY <1>2, <1>3, KeysFacts DEF Usable

LEMMA AdvancedFacts ==
    ASSUME NEW pool, Good(pool)
    PROVE  /\ Good(Advanced(pool)) /\ Advanced(pool).keys = pool.keys
           /\ Advanced(pool).disabled = pool.disabled
           /\ Advanced(pool).expired = pool.expired
  <1> DEFINE i == ((pool.index + Turn(pool) - 1) % Len(pool.keys)) + 1
  <1>1. i \in 1..Len(pool.keys) /\ Len(pool.keys) \in Nat
    <2>1. pool.index + Turn(pool) - 1 \in Int
      BY KeysFacts, TurnFacts
    <2> QED BY <2>1, KeysFacts, InRound
  <1>2. Advanced(pool) = [pool EXCEPT !.index = i]
    BY DEF Advanced
  <1> HIDE DEF i
  <1> QED BY <1>1, <1>2 DEF Good, Pool

LEMMA LimitedFacts ==
    ASSUME NEW pool, Good(pool), NEW k \in Keys, NEW waits \in BOOLEAN
    PROVE  /\ Good(Limited(pool, k, waits)) /\ Limited(pool, k, waits).keys = pool.keys
           /\ Limited(pool, k, waits).disabled = pool.disabled
           /\ Limited(pool, k, waits).expired = pool.expired
  <1> DEFINE b == IF waits THEN pool.blocked \cup {k} ELSE pool.blocked \ {k}
  <1>1. b \in SUBSET Keys
    BY DEF Good, Pool
  <1>2. Limited(pool, k, waits) = [pool EXCEPT !.blocked = b]
    BY DEF Limited
  <1> HIDE DEF b
  <1> QED BY <1>1, <1>2 DEF Good, Pool

LEMMA RefusedFacts ==
    ASSUME NEW pool, Good(pool), NEW k \in Keys
    PROVE  /\ Good(Refused(pool, k)) /\ Refused(pool, k).keys = pool.keys
           /\ Refused(pool, k).disabled = pool.disabled \cup {k}
           /\ Refused(pool, k).expired = pool.expired
  BY DEF Good, Pool, Refused

LEMMA NewPoolFacts ==
    ASSUME NEW s \in Specs
    PROVE  Good(NewPool(s)) /\ NewPool(s).disabled = {} /\ ~NewPool(s).expired
  <1>1. NewPool(s) \in Pool
    BY DEF NewPool, Pool
  <1>2. Len(KeysOf(s)) \in Nat \ {0}
    <2>1. KeysOf(s) \in Seq(Keys) /\ KeysOf(s) # <<>>
      BY PoolConstants DEF PoolConstants
    <2> QED BY <2>1, EmptySeq
  <1>3. NewPool(s).index <= Len(NewPool(s).keys)
    BY <1>2 DEF NewPool
  <1> QED BY <1>1, <1>3 DEF Good, NewPool

-----------------------------------------------------------------------------
(* The inductive invariant                                                 *)

\* A slot without a request asks for nothing, one with a request asks for a text.
AskInv == \A r \in Slots : call[r].at = "idle" <=> call[r].texts = 0

\* A pool that a key was refused from does not offer it.
StayInv == \A p \in DOMAIN pools : refused[p] \subseteq pools[p].disabled

Inv == TypeOK /\ AskInv /\ StayInv /\ BudgetInv

PoolsOK ==
    /\ pools \in Seq(Pool)
    /\ \A p \in DOMAIN pools : pools[p].index <= Len(pools[p].keys)
    /\ refused \in Seq(SUBSET Keys) /\ Len(refused) = Len(pools)
    /\ StayInv

RegistryOK ==
    /\ registry \in [Upstreams -> [spec : Specs \cup {Absent}, pool : Nat]]
    /\ registry[Default].spec # Absent
    /\ \A u \in Upstreams : registry[u].pool <= Len(pools)

RequestOK(r) ==
    /\ call[r].texts <= Texts(r)
    /\ call[r].at \in {"sent", "again", "body"} =>
        call[r].pool \in DOMAIN pools /\ call[r].key \in KeysIn(pools[call[r].pool].keys)
    /\ call[r].at = "idle" <=> call[r].texts = 0

\* Pools come, and stay with the keys they have.
PoolsStay ==
    /\ Len(pools) <= Len(pools')
    /\ \A p \in DOMAIN pools : pools'[p].keys = pools[p].keys

\* What a step of the request in r does to the requests.
OnlyRequest(r) ==
    /\ call' \in [Slots -> Request]
    /\ \A s \in Slots \ {r} : call'[s] = call[s]
    /\ RequestOK(r)'

LEMMA PoolFacts ==
    ASSUME Inv
    PROVE  /\ PoolsOK /\ RegistryOK /\ Len(pools) \in Nat /\ DOMAIN pools = 1..Len(pools)
           /\ \A p \in DOMAIN pools : Good(pools[p])
           /\ call \in [Slots -> Request] /\ \A r \in Slots : RequestOK(r)
  <1>1. PoolsOK /\ RegistryOK /\ call \in [Slots -> Request] /\ \A r \in Slots : RequestOK(r)
    BY DEF Inv, TypeOK, PoolTypeOK, PoolsOK, RegistryOK, AskInv, RequestOK
  <1>2. \A p \in DOMAIN pools : Good(pools[p])
    BY <1>1 DEF PoolsOK, Good
  <1>3. Len(pools) \in Nat /\ DOMAIN pools = 1..Len(pools)
    BY <1>1, LenProperties DEF PoolsOK
  <1> QED BY <1>1, <1>2, <1>3

(* One pool is replaced by one with its keys.                              *)
LEMMA OnePool ==
    ASSUME Inv, NEW p \in DOMAIN pools, NEW x, Good(x), x.keys = pools[p].keys,
           pools[p].disabled \subseteq x.disabled, pools' = [pools EXCEPT ![p] = x],
           \/ refused' = refused
           \/ \E k \in x.disabled : refused' = [refused EXCEPT ![p] = @ \cup {k}]
    PROVE  PoolsOK' /\ PoolsStay
  <1>1. /\ pools \in Seq(Pool) /\ refused \in Seq(SUBSET Keys) /\ Len(refused) = Len(pools)
        /\ DOMAIN pools = 1..Len(pools) /\ Len(pools) \in Nat
    BY PoolFacts DEF PoolsOK
  <1>2. x \in Pool
    BY DEF Good
  <1>3. pools' \in Seq(Pool) /\ Len(pools') = Len(pools) /\ DOMAIN pools' = DOMAIN pools
    BY <1>1, <1>2, ExceptSeq
  <1>4. /\ pools'[p] = x
        /\ \A q \in DOMAIN pools \ {p} : pools'[q] = pools[q]
    BY <1>1
  <1>5. /\ refused' \in Seq(SUBSET Keys) /\ Len(refused') = Len(refused)
        /\ \A q \in DOMAIN pools : refused'[q] \subseteq pools'[q].disabled
    <2>1. \A q \in DOMAIN pools : refused[q] \subseteq pools'[q].disabled
      BY <1>4, PoolFacts DEF PoolsOK, StayInv
    <2>2. CASE refused' = refused
      BY <1>1, <2>1, <2>2
    <2>3. ASSUME NEW k \in x.disabled, refused' = [refused EXCEPT ![p] = @ \cup {k}]
          PROVE  /\ refused' \in Seq(SUBSET Keys) /\ Len(refused') = Len(refused)
                 /\ \A q \in DOMAIN pools : refused'[q] \subseteq pools'[q].disabled
      <3>1. k \in Keys /\ p \in DOMAIN refused /\ DOMAIN refused = DOMAIN pools
        BY <1>1, <1>2 DEF Pool
      <3>2. refused[p] \cup {k} \in SUBSET Keys
        BY <1>1, <3>1
      <3>3. refused' \in Seq(SUBSET Keys) /\ Len(refused') = Len(refused)
        BY <1>1, <2>3, <3>1, <3>2, ExceptSeq
      <3>4. \A q \in DOMAIN pools : refused'[q] = IF q = p THEN refused[p] \cup {k} ELSE refused[q]
        BY <2>3, <3>1
      <3>5. k \in pools'[p].disabled
        BY <1>4, <2>3
      <3> QED BY <2>1, <3>3, <3>4, <3>5
    <2> QED BY <2>2, <2>3
  <1>6. \A q \in DOMAIN pools : pools'[q].index <= Len(pools'[q].keys)
    BY <1>4, PoolFacts DEF Good
  <1>7. PoolsStay
    BY <1>1, <1>3, <1>4 DEF PoolsStay
  <1> QED BY <1>1, <1>3, <1>5, <1>6, <1>7 DEF PoolsOK, StayInv

(* Requests keep what they hold while pools stay.                          *)
LEMMA OtherRequests ==
    ASSUME Inv, PoolsOK', PoolsStay, NEW s \in Slots, call'[s] = call[s]
    PROVE  RequestOK(s)'
  <1>1. DOMAIN pools \subseteq DOMAIN pools'
    <2>1. Len(pools) \in Nat /\ DOMAIN pools = 1..Len(pools)
      BY PoolFacts
    <2>2. Len(pools') \in Nat /\ DOMAIN pools' = 1..Len(pools')
      BY LenProperties DEF PoolsOK
    <2> QED BY <2>1, <2>2 DEF PoolsStay
  <1> QED BY <1>1, PoolFacts DEF RequestOK, PoolsStay

(* What the parts of a step show for the whole.                            *)
LEMMA StepTypes ==
    ASSUME Inv, PoolsOK', RegistryOK', call' \in [Slots -> Request],
           \A r \in Slots : RequestOK(r)',
           vault' \in Entries, vault'[Default] # Absent, changes' \in 0..MaxChanges,
           day' \in Days, log' \in [Days -> [Clients -> Nat]],
           pending' \in [Days -> [Clients -> Nat]],
           letIn' \in 0..MaxCalls, boots' \in 0..MaxBoots, spent' \in Nat, peak' \in Nat
    PROVE  TypeOK' /\ AskInv' /\ StayInv' /\ BudgetTypes /\ BudgetTypes'
  <1>1. TypeOK'
    BY DEF TypeOK, PoolTypeOK, PoolsOK, RegistryOK, RequestOK
  <1>2. AskInv' /\ StayInv'
    BY DEF AskInv, RequestOK, PoolsOK
  <1>3. BudgetTypes /\ BudgetTypes'
    BY <1>1 DEF Inv, TypeOK, BudgetTypes
  <1> QED BY <1>1, <1>2, <1>3

-----------------------------------------------------------------------------
(* Steps of a request                                                      *)

IdleOK == Idle \in Request /\ Idle.at = "idle" /\ Idle.texts = 0

LEMMA IdleFacts == IdleOK
  BY PoolConstants DEF IdleOK, Idle, Request, PoolConstants, Upstreams

LEMMA Ended ==
    ASSUME Inv, NEW r \in Slots, End(r)
    PROVE  /\ OnlyRequest(r) /\ call'[r] = Idle /\ call'[r].texts <= call[r].texts
           /\ call[r].at # "idle" => call'[r].texts < call[r].texts
  <1>1. /\ call' = [call EXCEPT ![r] = Idle] /\ call \in [Slots -> Request] /\ RequestOK(r)
        /\ Texts(r) \in Nat \ {0}
    BY PoolFacts, RouterConstants DEF End, RouterConstants
  <1>2. call' \in [Slots -> Request] /\ call'[r] = Idle /\ \A s \in Slots \ {r} : call'[s] = call[s]
    BY <1>1, IdleFacts DEF IdleOK
  <1>3. RequestOK(r)'
    BY <1>1, <1>2, IdleFacts DEF IdleOK, RequestOK
  <1>4. call[r].texts \in Nat
    BY <1>1 DEF Request
  <1>5. call[r].at # "idle" => call[r].texts # 0
    BY <1>1 DEF RequestOK
  <1> QED BY <1>2, <1>3, <1>4, <1>5, IdleFacts DEF IdleOK, OnlyRequest

\* What every step of a request shows.
RequestFacts(r) ==
    /\ PoolsOK' /\ PoolsStay /\ RegistryOK' /\ OnlyRequest(r)
    /\ KeepsPools /\ SendsAllowedKeys
    /\ UNCHANGED <<vault, changes, day, log, bounds, peak>>
    /\ \/ pending' = pending /\ call'[r].texts <= call[r].texts
       \/ /\ pending' = [pending EXCEPT ![day][Client(r)] = @ + 1]
          /\ call'[r].texts < call[r].texts
    /\ spent' \in Nat

(* With the registry as it is, nothing of it can get lost.                 *)
LEMMA SameRegistry ==
    ASSUME Inv, PoolsOK', PoolsStay, registry' = registry PROVE RegistryOK' /\ KeepsPools
  <1>1. RegistryOK /\ Len(pools) \in Nat /\ Len(pools') \in Nat /\ Len(pools) <= Len(pools')
    BY PoolFacts, LenProperties DEF PoolsOK, PoolsStay
  <1>2. \A u \in Upstreams : registry[u].pool \in Nat
    BY <1>1 DEF RegistryOK
  <1>3. RegistryOK'
    BY <1>1, <1>2 DEF RegistryOK
  <1> QED BY <1>3 DEF KeepsPools

(* A step sends with one key at most, so only that one counts.             *)
LEMMA OneSends ==
    ASSUME NEW r \in Slots, OnlyRequest(r),
           NewlySent(r) => call'[r].key \notin refused'[call'[r].pool]
    PROVE  SendsAllowedKeys
  BY DEF SendsAllowedKeys, NewlySent, OnlyRequest

LEMMA SamePools ==
    ASSUME Inv, UNCHANGED <<pools, refused>> PROVE PoolsOK' /\ PoolsStay
  <1>1. PoolsOK /\ Len(pools) \in Nat
    BY PoolFacts
  <1> QED BY <1>1 DEF PoolsOK, PoolsStay, StayInv

(* The steps that leave the pools alone.                                   *)
LEMMA QuietSteps ==
    ASSUME Inv, NEW r \in Slots, BadGateway(r) \/ Accept(r) \/ PassOn(r)
    PROVE  RequestFacts(r)
  <1>1. UNCHANGED <<vault, changes, registry, pools, day, log, pending, bounds, peak, refused>>
    BY DEF BadGateway, Accept, PassOn, poolVars, logVars
  <1>2. spent' \in Nat
    BY DEF BadGateway, Accept, PassOn, Inv, TypeOK
  <1>3. PoolsOK' /\ PoolsStay
    BY <1>1, SamePools
  <1>4. RegistryOK' /\ KeepsPools
    BY <1>1, <1>3, SameRegistry
  <1>5. OnlyRequest(r) /\ call'[r].texts <= call[r].texts /\ ~NewlySent(r)
    <2>1. CASE End(r)
      BY <2>1, Ended, IdleFacts DEF NewlySent, IdleOK
    <2>2. CASE Accept(r)
      <3>1. /\ call[r].at \in {"sent", "again"} /\ call' = [call EXCEPT ![r].at = "body"]
            /\ call \in [Slots -> Request] /\ RequestOK(r)
        BY <2>2, PoolFacts DEF Accept
      <3>2. /\ call' \in [Slots -> Request] /\ \A s \in Slots \ {r} : call'[s] = call[s]
            /\ call'[r].at = "body" /\ call'[r].texts = call[r].texts
            /\ call'[r].pool = call[r].pool /\ call'[r].key = call[r].key
            /\ call[r].texts \in Nat
        BY <3>1 DEF Request
      <3>3. RequestOK(r)'
        BY <1>1, <3>1, <3>2 DEF RequestOK
      <3> QED BY <3>2, <3>3 DEF OnlyRequest, NewlySent
    <2> QED BY <2>1, <2>2 DEF BadGateway, PassOn
  <1>6. SendsAllowedKeys
    BY <1>5, OneSends
  <1> QED BY <1>1, <1>2, <1>3, <1>4, <1>5, <1>6 DEF RequestFacts

(* The pool of a request changes to x, which has its keys.                 *)
LEMMA PoolOfRequest ==
    ASSUME Inv, NEW r \in Slots, call[r].at \in {"sent", "again", "body"}
    PROVE  /\ call[r].pool \in DOMAIN pools /\ Good(pools[call[r].pool])
           /\ call[r].key \in KeysIn(pools[call[r].pool].keys) /\ call[r].key \in Keys
  <1>1. call[r].pool \in DOMAIN pools /\ call[r].key \in KeysIn(pools[call[r].pool].keys)
    BY PoolFacts DEF RequestOK
  <1>2. Good(pools[call[r].pool])
    BY <1>1, PoolFacts
  <1> QED BY <1>1, <1>2, KeysFacts

LEMMA LimitStep ==
    ASSUME Inv, NEW r \in Slots, Limit(r) \/ PaymentRequired(r)
    PROVE  RequestFacts(r)
  <1> DEFINE p == call[r].pool
             k == call[r].key
  <1>1. call[r].at \in {"sent", "again"} /\ End(r)
    BY DEF Limit, PaymentRequired
  <1>2. /\ p \in DOMAIN pools /\ Good(pools[p]) /\ k \in Keys
    BY <1>1, PoolOfRequest
  <1>3. UNCHANGED <<vault, changes, registry, day, log, pending, bounds, spent, peak>>
    BY DEF Limit, PaymentRequired, logVars
  <1>4. PoolsOK' /\ PoolsStay
    <2>1. CASE Limit(r)
      <3>1. PICK waits \in BOOLEAN : pools' = [pools EXCEPT ![p] = Limited(@, k, waits)]
        BY <2>1 DEF Limit
      <3>2. refused' = refused
        BY <2>1 DEF Limit
      <3> HIDE DEF p, k
      <3> QED BY <1>2, <3>1, <3>2, LimitedFacts, OnePool
    <2>2. CASE PaymentRequired(r)
      <3>1. /\ pools' = [pools EXCEPT ![p] = Refused(@, k)]
            /\ refused' = [refused EXCEPT ![p] = @ \cup {k}]
        BY <2>2 DEF PaymentRequired, RefusedUsed
      <3> HIDE DEF p, k
      <3>2. k \in Refused(pools[p], k).disabled
        BY <1>2, RefusedFacts
      <3> QED BY <1>2, <3>1, <3>2, RefusedFacts, OnePool
    <2> QED BY <2>1, <2>2
  <1>5. RegistryOK' /\ KeepsPools
    BY <1>3, <1>4, SameRegistry
  <1>6. OnlyRequest(r) /\ call'[r].texts <= call[r].texts /\ ~NewlySent(r)
    BY <1>1, Ended, IdleFacts DEF NewlySent, IdleOK
  <1>7. SendsAllowedKeys
    BY <1>6, OneSends
  <1>8. spent' \in Nat
    BY <1>3 DEF Inv, TypeOK
  <1> QED BY <1>3, <1>4, <1>5, <1>6, <1>7, <1>8 DEF RequestFacts

(* A request goes on with the next key of a good pool x, kept as pool p.   *)
LEMMA GoesOn ==
    ASSUME Inv, PoolsOK', NEW r \in Slots, NEW p \in DOMAIN pools', NEW x, Good(x),
           Picked(x) # NoKey, pools'[p].keys = x.keys, refused'[p] \subseteq x.disabled,
           NEW call1 \in Request, call' = [call EXCEPT ![r] = call1],
           call1.pool = p, call1.key = Picked(x), call1.at \in {"sent", "again"},
           call1.texts <= call[r].texts, call1.texts # 0
    PROVE  OnlyRequest(r) /\ call'[r].texts = call1.texts /\ SendsAllowedKeys
  <1>1. /\ call' \in [Slots -> Request] /\ \A s \in Slots \ {r} : call'[s] = call[s]
        /\ call'[r] = call1
    BY PoolFacts
  <1>2. /\ Picked(x) \in KeysIn(pools'[p].keys) /\ Picked(x) \notin refused'[p]
    BY PickedFacts
  <1>3. call1.texts <= Texts(r)
    <2>1. call[r].texts <= Texts(r) /\ call[r].texts \in Nat /\ Texts(r) \in Nat
      BY PoolFacts, RouterConstants DEF RequestOK, RouterConstants, Request
    <2>2. call1.texts \in Nat
      BY DEF Request
    <2> QED BY <2>1, <2>2
  <1>4. RequestOK(r)'
    BY <1>1, <1>2, <1>3 DEF RequestOK
  <1>5. SendsAllowedKeys
    BY <1>1, <1>2, <1>4, OneSends DEF OnlyRequest
  <1> QED BY <1>1, <1>4, <1>5 DEF OnlyRequest

LEMMA RetryStep ==
    ASSUME Inv, NEW r \in Slots, Retry(r)
    PROVE  RequestFacts(r)
  <1> DEFINE p == call[r].pool
             k == call[r].key
  <1>1. PICK waits \in BOOLEAN :
          LET pool == Limited(pools[p], k, waits)
          IN  /\ pools' = [pools EXCEPT ![p] = Advanced(pool)]
              /\ IF Picked(pool) = NoKey THEN End(r)
                 ELSE call' = [call EXCEPT ![r] = [@ EXCEPT !.at = "again", !.key = Picked(pool),
                                                   !.other = IF waits THEN k ELSE NoKey]]
    BY DEF Retry
  <1>2. /\ p \in DOMAIN pools /\ Good(pools[p]) /\ k \in Keys /\ call[r].at = "sent"
    BY PoolOfRequest DEF Retry
  <1>3. UNCHANGED <<vault, changes, registry, day, log, pending, bounds, spent, peak, refused>>
    BY DEF Retry, logVars
  <1> DEFINE x == Limited(pools[p], k, waits)
  <1>4. Good(x) /\ x.keys = pools[p].keys /\ x.disabled = pools[p].disabled
    BY <1>2, LimitedFacts
  <1>5. /\ pools' = [pools EXCEPT ![p] = Advanced(x)]
        /\ IF Picked(x) = NoKey THEN End(r)
           ELSE call' = [call EXCEPT ![r] = [@ EXCEPT !.at = "again", !.key = Picked(x),
                                             !.other = IF waits THEN k ELSE NoKey]]
    BY <1>1
  <1> HIDE DEF x
  <1>6. PoolsOK' /\ PoolsStay
    <2>1. Good(Advanced(x)) /\ Advanced(x).keys = pools[p].keys
          /\ pools[p].disabled \subseteq Advanced(x).disabled
      BY <1>4, AdvancedFacts
    <2> HIDE DEF p, k
    <2> QED BY <1>2, <1>3, <1>5, <2>1, OnePool
  <1>7. RegistryOK' /\ KeepsPools
    BY <1>3, <1>6, SameRegistry
  <1>8. OnlyRequest(r) /\ call'[r].texts <= call[r].texts /\ SendsAllowedKeys
    <2>1. CASE Picked(x) = NoKey
      <3>1. End(r)
        BY <1>5, <2>1
      <3>2. OnlyRequest(r) /\ call'[r].texts <= call[r].texts /\ ~NewlySent(r)
        BY <3>1, Ended, IdleFacts DEF NewlySent, IdleOK
      <3> QED BY <3>2, OneSends
    <2>2. CASE Picked(x) # NoKey
      <3> DEFINE c == [call[r] EXCEPT !.at = "again", !.key = Picked(x),
                                      !.other = IF waits THEN k ELSE NoKey]
      <3>1. call' = [call EXCEPT ![r] = c]
        BY <1>5, <2>2
      <3>2. call[r] \in Request /\ RequestOK(r)
        BY PoolFacts
      <3>3. Picked(x) \in Keys
        BY <1>4, <2>2, PickedFacts
      <3>4. /\ c \in Request /\ c.pool = p /\ c.key = Picked(x) /\ c.at \in {"sent", "again"}
            /\ c.texts = call[r].texts /\ call[r].texts \in Nat
        BY <1>2, <3>2, <3>3 DEF Request
      <3>5. c.texts # 0
        BY <1>2, <3>2, <3>4 DEF RequestOK
      <3>6. /\ p \in DOMAIN pools' /\ pools'[p].keys = x.keys /\ refused'[p] \subseteq x.disabled
        <4>1. DOMAIN pools' = DOMAIN pools /\ pools'[p] = Advanced(x)
          BY <1>2, <1>5
        <4>2. Advanced(x).keys = x.keys
          BY <1>4, AdvancedFacts
        <4> QED BY <1>2, <1>3, <1>4, <4>1, <4>2, PoolFacts DEF PoolsOK, StayInv
      <3>7. c.texts <= call[r].texts
        BY <3>4
      <3> HIDE DEF c, p, k
      <3>8. Good(x) /\ Picked(x) # NoKey /\ PoolsOK'
        BY <1>4, <1>6, <2>2
      <3>9. OnlyRequest(r) /\ call'[r].texts = c.texts /\ SendsAllowedKeys
        BY <3>1, <3>4, <3>5, <3>6, <3>7, <3>8, GoesOn
      <3> QED BY <3>7, <3>9
    <2> QED BY <2>1, <2>2
  <1>9. spent' \in Nat
    BY <1>3 DEF Inv, TypeOK
  <1> QED BY <1>3, <1>6, <1>7, <1>8, <1>9 DEF RequestFacts

LEMMA LogStep ==
    ASSUME Inv, NEW r \in Slots, Log(r)
    PROVE  RequestFacts(r)
  <1> DEFINE p == call[r].pool
             x == pools[p]
  <1>1. /\ p \in DOMAIN pools /\ Good(x) /\ call[r].at = "body"
    BY PoolOfRequest DEF Log
  <1>2. UNCHANGED <<vault, changes, registry, day, log, bounds, spent, peak, refused>>
    BY DEF Log
  <1>3. call[r] \in Request /\ call[r].texts \in Nat \ {0}
    <2>1. call[r] \in Request /\ RequestOK(r)
      BY PoolFacts
    <2> QED BY <1>1, <2>1 DEF RequestOK, Request
  <1>4. /\ PoolsOK' /\ PoolsStay /\ OnlyRequest(r) /\ SendsAllowedKeys
        /\ call'[r].texts < call[r].texts
    <2>1. CASE End(r) /\ UNCHANGED pools
      <3>1. OnlyRequest(r) /\ call'[r].texts < call[r].texts /\ ~NewlySent(r)
        BY <1>1, <2>1, Ended, IdleFacts DEF NewlySent, IdleOK
      <3> QED BY <1>2, <2>1, <3>1, SamePools, OneSends
    <2>2. CASE /\ pools' = [pools EXCEPT ![p] = Advanced(@)]
               /\ IF Picked(x) = NoKey THEN End(r)
                  ELSE call' = [call EXCEPT ![r] = [@ EXCEPT !.at = "sent", !.key = Picked(x),
                                                             !.other = NoKey,
                                                             !.texts = call[r].texts - 1]]
               /\ call[r].texts # 1
      <3>1. /\ Good(Advanced(x)) /\ Advanced(x).keys = x.keys
            /\ Advanced(x).disabled = x.disabled /\ pools' = [pools EXCEPT ![p] = Advanced(x)]
        BY <1>1, <2>2, AdvancedFacts
      <3>2. PoolsOK' /\ PoolsStay
        <4> HIDE DEF p
        <4> QED BY <1>1, <1>2, <3>1, OnePool
      <3>3. CASE Picked(x) = NoKey
        <4>1. End(r)
          BY <2>2, <3>3
        <4>2. OnlyRequest(r) /\ call'[r].texts < call[r].texts /\ ~NewlySent(r)
          BY <1>1, <4>1, Ended, IdleFacts DEF NewlySent, IdleOK
        <4> QED BY <3>2, <4>2, OneSends
      <3>4. CASE Picked(x) # NoKey
        <4> DEFINE c == [call[r] EXCEPT !.at = "sent", !.key = Picked(x), !.other = NoKey,
                                        !.texts = @ - 1]
        <4>1. call' = [call EXCEPT ![r] = c]
          BY <2>2, <3>4
        <4>2. Picked(x) \in Keys
          BY <1>1, <3>4, PickedFacts
        <4>3. /\ c \in Request /\ c.pool = p /\ c.key = Picked(x) /\ c.at \in {"sent", "again"}
              /\ c.texts = call[r].texts - 1
          <5>1. call[r].texts - 1 \in Nat
            BY <1>3
          <5> HIDE DEF x
          <5> QED BY <1>3, <4>2, <5>1 DEF Request
        <4>4. c.texts < call[r].texts /\ c.texts <= call[r].texts /\ c.texts # 0
          BY <1>3, <2>2, <4>3
        <4>5. /\ p \in DOMAIN pools' /\ pools'[p].keys = x.keys /\ refused'[p] \subseteq x.disabled
          <5>1. DOMAIN pools' = DOMAIN pools /\ pools'[p] = Advanced(x)
            BY <1>1, <3>1
          <5> QED BY <1>1, <1>2, <3>1, <5>1, PoolFacts DEF PoolsOK, StayInv
        <4>6. Good(x) /\ Picked(x) # NoKey /\ PoolsOK'
          BY <1>1, <3>2, <3>4
        <4> HIDE DEF c, p, x
        <4>7. OnlyRequest(r) /\ call'[r].texts = c.texts /\ SendsAllowedKeys
          BY <4>1, <4>3, <4>4, <4>5, <4>6, GoesOn
        <4> QED BY <3>2, <4>4, <4>7
      <3> QED BY <3>3, <3>4
    <2> QED BY <2>1, <2>2 DEF Log
  <1>5. RegistryOK' /\ KeepsPools
    BY <1>2, <1>4, SameRegistry
  <1>6. spent' \in Nat
    BY <1>2 DEF Inv, TypeOK
  <1>7. \/ pending' = pending /\ call'[r].texts <= call[r].texts
        \/ /\ pending' = [pending EXCEPT ![day][Client(r)] = @ + 1]
           /\ call'[r].texts < call[r].texts
    <2>1. call'[r].texts \in Nat
      BY <1>4 DEF OnlyRequest, Request
    <2> QED BY <1>3, <1>4, <2>1 DEF Log
  <1> QED BY <1>2, <1>4, <1>5, <1>6, <1>7 DEF RequestFacts

(* getPool: the pool of the entry, or a new one behind all others.         *)
LEMMA SuppliedFacts ==
    ASSUME Inv, NEW entry, entry.pool \in 0..Len(pools), entry.spec \in Specs
    PROVE  LET got == Supplied(entry)
           IN  /\ got.all \in Seq(Pool) /\ got.pool \in DOMAIN got.all
               /\ \A p \in DOMAIN got.all : Good(got.all[p])
               /\ \A p \in DOMAIN pools : p \in DOMAIN got.all /\ got.all[p] = pools[p]
               /\ \/ got.all = pools
                  \/ /\ Len(got.all) = Len(pools) + 1
                     /\ got.all[Len(pools) + 1].disabled = {}
               /\ entry.pool # 0 /\ ~pools[entry.pool].expired => got.pool = entry.pool
  <1>1. /\ pools \in Seq(Pool) /\ DOMAIN pools = 1..Len(pools) /\ Len(pools) \in Nat
        /\ \A p \in DOMAIN pools : Good(pools[p])
    BY PoolFacts DEF PoolsOK
  <1>2. CASE entry.pool # 0 /\ ~pools[entry.pool].expired
    <2>1. Supplied(entry).pool = entry.pool /\ Supplied(entry).all = pools
      BY <1>2 DEF Supplied
    <2>2. entry.pool \in DOMAIN pools
      BY <1>1, <1>2
    <2> QED BY <1>1, <2>1, <2>2
  <1>3. CASE ~(entry.pool # 0 /\ ~pools[entry.pool].expired)
    <2> DEFINE new == NewPool(entry.spec)
               all == Append(pools, new)
    <2>1. Supplied(entry).pool = Len(pools) + 1 /\ Supplied(entry).all = all
      BY <1>3 DEF Supplied
    <2>2. Good(new) /\ new \in Pool /\ new.disabled = {}
      BY NewPoolFacts DEF Good
    <2> HIDE DEF new
    <2>3. /\ all \in Seq(Pool) /\ Len(all) = Len(pools) + 1
          /\ \A i \in 1..Len(pools) : all[i] = pools[i]
          /\ all[Len(pools) + 1] = new
      BY <1>1, <2>2, AppendProperties
    <2>4. DOMAIN all = 1..(Len(pools) + 1)
      BY <2>3, LenProperties
    <2> HIDE DEF all
    <2>5. \A p \in DOMAIN all : Good(all[p])
      BY <1>1, <2>2, <2>3, <2>4
    <2> QED BY <1>1, <1>3, <2>1, <2>2, <2>3, <2>4, <2>5
  <1> QED BY <1>2, <1>3

(* The registry that a request sees, and the upstream it resolves to.      *)
LEMMA RebuiltFacts ==
    ASSUME Inv, NEW entries \in Seen, NEW up \in Upstreams
    PROVE  LET reg == Rebuilt(entries)
           IN  /\ reg \in [Upstreams -> [spec : Specs \cup {Absent}, pool : Nat]]
               /\ reg[Default].spec # Absent
               /\ \A u \in Upstreams : reg[u].pool <= Len(pools)
               /\ Resolve(reg, up) \in Upstreams /\ reg[Resolve(reg, up)].spec \in Specs
               /\ \A u \in Upstreams : reg[u].spec = registry[u].spec => reg[u] = registry[u]
  <1> DEFINE reg == Rebuilt(entries)
  <1>1. RegistryOK /\ Len(pools) \in Nat /\ Default \in Upstreams
    BY PoolFacts DEF Upstreams
  <1>2. entries \in [Upstreams -> Specs \cup {Absent}] /\ entries[Default] # Absent
    BY <1>1 DEF Seen, RegistryOK, Inv, TypeOK, PoolTypeOK, Entries
  <1>3. \A u \in Upstreams :
          reg[u] = IF registry[u].spec = entries[u] THEN registry[u]
                   ELSE [spec |-> entries[u], pool |-> 0]
    BY DEF Rebuilt
  <1>4. reg \in [Upstreams -> [spec : Specs \cup {Absent}, pool : Nat]]
    <2>1. \A u \in Upstreams : reg[u] \in [spec : Specs \cup {Absent}, pool : Nat]
      <3> SUFFICES ASSUME NEW u \in Upstreams
                   PROVE  reg[u] \in [spec : Specs \cup {Absent}, pool : Nat]
        OBVIOUS
      <3>1. /\ registry[u] \in [spec : Specs \cup {Absent}, pool : Nat]
            /\ entries[u] \in Specs \cup {Absent}
        BY <1>1, <1>2 DEF RegistryOK
      <3>2. [spec |-> entries[u], pool |-> 0] \in [spec : Specs \cup {Absent}, pool : Nat]
        BY <3>1
      <3> HIDE DEF reg
      <3> QED BY <1>3, <3>1, <3>2
    <2> QED BY <2>1 DEF Rebuilt
  <1>5. \A u \in Upstreams : reg[u].spec = entries[u] /\ reg[u].pool <= Len(pools)
    <2> SUFFICES ASSUME NEW u \in Upstreams
                 PROVE  reg[u].spec = entries[u] /\ reg[u].pool <= Len(pools)
      OBVIOUS
    <2>1. registry[u].pool <= Len(pools)
      BY <1>1 DEF RegistryOK
    <2>2. \/ registry[u].spec = entries[u] /\ reg[u] = registry[u]
          \/ reg[u] = [spec |-> entries[u], pool |-> 0]
      BY <1>3
    <2> HIDE DEF reg
    <2> QED BY <1>1, <2>1, <2>2
  <1>6. \A u \in Upstreams : reg[u].spec = registry[u].spec => reg[u] = registry[u]
    BY <1>3, <1>5
  <1> HIDE DEF reg
  <1>7. Resolve(reg, up) \in Upstreams /\ reg[Resolve(reg, up)].spec # Absent
    BY <1>1, <1>2, <1>5 DEF Resolve
  <1> QED BY <1>1, <1>2, <1>4, <1>5, <1>6, <1>7 DEF reg

LEMMA ForwardStep ==
    ASSUME Inv, NEW r \in Slots, Forward(r)
    PROVE  RequestFacts(r)
  <1>1. PICK entries \in Seen :
          LET reg == Rebuilt(entries)
              u   == Resolve(reg, call[r].up)
              got == Supplied(reg[u])
              next == Picked(got.all[got.pool])
          IN  /\ registry' = [reg EXCEPT ![u].pool = got.pool]
              /\ pools' = [got.all EXCEPT ![got.pool] = Advanced(@)]
              /\ refused' = IF Len(got.all) > Len(pools) THEN Append(refused, {}) ELSE refused
              /\ IF next = NoKey THEN End(r)
                 ELSE call' = [call EXCEPT ![r] = [@ EXCEPT !.at = "sent", !.up = u,
                                                            !.pool = got.pool, !.key = next]]
    BY DEF Forward
  <1> DEFINE reg == Rebuilt(entries)
             u   == Resolve(reg, call[r].up)
             all == Supplied(reg[u]).all
             p   == Supplied(reg[u]).pool
             x   == all[p]
             c   == [call[r] EXCEPT !.at = "sent", !.up = u, !.pool = p, !.key = Picked(x)]
  <1>2. /\ registry' = [reg EXCEPT ![u].pool = p]
        /\ pools' = [all EXCEPT ![p] = Advanced(x)]
        /\ refused' = IF Len(all) > Len(pools) THEN Append(refused, {}) ELSE refused
        /\ Picked(x) = NoKey => End(r)
        /\ Picked(x) # NoKey => call' = [call EXCEPT ![r] = c]
    BY <1>1
  <1>3. /\ UNCHANGED <<vault, changes, day, log, pending, bounds, spent, peak>>
        /\ call[r].at = "letIn"
    BY DEF Forward, logVars
  <1>4. /\ call[r] \in Request /\ RequestOK(r) /\ call[r].texts \in Nat \ {0}
        /\ call[r].up \in Upstreams
    <2>1. call[r] \in Request /\ RequestOK(r)
      BY PoolFacts
    <2> QED BY <1>3, <2>1 DEF RequestOK, Request
  <1>5. /\ reg \in [Upstreams -> [spec : Specs \cup {Absent}, pool : Nat]]
        /\ reg[Default].spec # Absent
        /\ \A w \in Upstreams : reg[w].pool <= Len(pools)
        /\ u \in Upstreams /\ reg[u].spec \in Specs
        /\ \A w \in Upstreams : reg[w].spec = registry[w].spec => reg[w] = registry[w]
    BY <1>4, RebuiltFacts
  <1>6. /\ PoolsOK /\ Len(pools) \in Nat /\ DOMAIN pools = 1..Len(pools)
        /\ pools \in Seq(Pool) /\ refused \in Seq(SUBSET Keys) /\ Len(refused) = Len(pools)
        /\ \A q \in DOMAIN pools : refused[q] \subseteq pools[q].disabled
    BY PoolFacts DEF PoolsOK, StayInv
  <1>7. /\ all \in Seq(Pool) /\ p \in DOMAIN all
        /\ \A q \in DOMAIN all : Good(all[q])
        /\ \A q \in DOMAIN pools : q \in DOMAIN all /\ all[q] = pools[q]
        /\ \/ all = pools
           \/ Len(all) = Len(pools) + 1 /\ all[Len(pools) + 1].disabled = {}
        /\ reg[u].pool # 0 /\ ~pools[reg[u].pool].expired => p = reg[u].pool
    <2>1. reg[u].pool \in 0..Len(pools)
      BY <1>5, <1>6
    <2> HIDE DEF u, reg
    <2> QED BY <1>5, <2>1, SuppliedFacts
  <1> HIDE DEF reg, u, all, p
  <1>8. Len(all) \in Nat /\ DOMAIN all = 1..Len(all) /\ Len(pools) <= Len(all)
    BY <1>6, <1>7, LenProperties
  <1>p. p \in 1..Len(all) /\ p \in Nat /\ p <= Len(all)
    <2>1. p \in DOMAIN all
      BY <1>7
    <2>2. p \in 1..Len(all)
      BY <1>8, <2>1
    <2> QED BY <1>8, <2>2
  <1>9. Good(x) /\ Good(Advanced(x)) /\ Advanced(x).keys = x.keys /\ Advanced(x).disabled = x.disabled
    BY <1>7, AdvancedFacts
  <1>10. /\ pools' \in Seq(Pool) /\ Len(pools') = Len(all) /\ DOMAIN pools' = DOMAIN all
         /\ \A q \in DOMAIN all : pools'[q] = IF q = p THEN Advanced(x) ELSE all[q]
    <2>1. Advanced(x) \in Pool
      BY <1>9 DEF Good
    <2> HIDE DEF x
    <2> QED BY <1>2, <1>7, <1>8, <2>1, ExceptSeq
  <1>11. /\ refused' \in Seq(SUBSET Keys) /\ Len(refused') = Len(all)
         /\ \A q \in DOMAIN all : refused'[q] \subseteq all[q].disabled
    <2>1. CASE all = pools
      <3>1. ~(Len(all) > Len(pools))
        BY <1>6, <2>1
      <3>2. refused' = refused
        BY <1>2, <3>1
      <3> QED BY <1>6, <2>1, <3>2
    <2>2. CASE Len(all) = Len(pools) + 1 /\ all[Len(pools) + 1].disabled = {}
      <3>1. refused' = Append(refused, {})
        BY <1>2, <1>6, <2>2
      <3>2. {} \in SUBSET Keys
        OBVIOUS
      <3>3. /\ refused' \in Seq(SUBSET Keys) /\ Len(refused') = Len(pools) + 1
            /\ \A q \in 1..Len(pools) : refused'[q] = refused[q]
            /\ refused'[Len(pools) + 1] = {}
        BY <1>6, <3>1, <3>2, AppendProperties
      <3>4. ASSUME NEW q \in DOMAIN all PROVE refused'[q] \subseteq all[q].disabled
        <4>1. q \in DOMAIN pools \/ q = Len(pools) + 1
          BY <1>6, <1>8, <2>2
        <4> QED BY <1>6, <1>7, <3>3, <4>1
      <3> QED BY <2>2, <3>3, <3>4
    <2> QED BY <1>7, <2>1, <2>2
  <1>12. PoolsOK' /\ PoolsStay
    <2>1. \A q \in DOMAIN pools' : /\ pools'[q].disabled = all[q].disabled
                                   /\ pools'[q].keys = all[q].keys
                                   /\ pools'[q].index <= Len(pools'[q].keys)
      BY <1>7, <1>9, <1>10 DEF Good
    <2>2. PoolsOK'
      BY <1>10, <1>11, <2>1 DEF PoolsOK, StayInv
    <2>3. PoolsStay
      BY <1>7, <1>8, <1>10, <2>1 DEF PoolsStay
    <2> QED BY <2>2, <2>3
  <1>13. /\ registry' \in [Upstreams -> [spec : Specs \cup {Absent}, pool : Nat]]
         /\ \A w \in Upstreams : /\ registry'[w].spec = reg[w].spec
                                 /\ registry'[w].pool = IF w = u THEN p ELSE reg[w].pool
    <2>1. p \in Nat
      BY <1>p
    <2>2. registry' = [reg EXCEPT ![u] = [reg[u] EXCEPT !.pool = p]]
      BY <1>2
    <2>3. /\ reg[u] \in [spec : Specs \cup {Absent}, pool : Nat]
          /\ [reg[u] EXCEPT !.pool = p] \in [spec : Specs \cup {Absent}, pool : Nat]
          /\ [reg[u] EXCEPT !.pool = p].spec = reg[u].spec
          /\ [reg[u] EXCEPT !.pool = p].pool = p
      BY <1>5, <2>1
    <2> QED BY <1>5, <2>2, <2>3
  <1>14. RegistryOK'
    <2>1. ASSUME NEW w \in Upstreams PROVE registry'[w].pool <= Len(pools')
      <3>1. CASE w = u
        <4>1. registry'[w].pool = p /\ p <= Len(all)
          BY <1>p, <1>13, <3>1
        <4> QED BY <1>10, <4>1
      <3>2. CASE w # u
        <4>1. registry'[w].pool = reg[w].pool /\ reg[w].pool <= Len(pools) /\ reg[w].pool \in Nat
          BY <1>5, <1>13, <3>2
        <4>2. Len(pools') = Len(all)
          BY <1>10
        <4> QED BY <1>6, <1>8, <4>1, <4>2
      <3> QED BY <3>1, <3>2
    <2>2. registry'[Default].spec # Absent
      BY <1>5, <1>13 DEF Upstreams
    <2> QED BY <1>13, <2>1, <2>2 DEF RegistryOK
  <1>15. KeepsPools
    <2> SUFFICES ASSUME NEW w \in Upstreams, registry'[w].spec = registry[w].spec,
                        registry[w].pool # 0, ~pools[registry[w].pool].expired
                 PROVE  registry'[w].pool = registry[w].pool
      BY DEF KeepsPools
    <2>1. reg[w] = registry[w]
      BY <1>5, <1>13
    <2> QED BY <1>7, <1>13, <2>1
  <1>16. OnlyRequest(r) /\ call'[r].texts <= call[r].texts /\ SendsAllowedKeys
    <2>1. CASE Picked(x) = NoKey
      <3>1. OnlyRequest(r) /\ call'[r].texts <= call[r].texts /\ ~NewlySent(r)
        BY <1>2, <2>1, Ended, IdleFacts DEF NewlySent, IdleOK
      <3> QED BY <3>1, OneSends
    <2>2. CASE Picked(x) # NoKey
      <3>0. Picked(x) \in Keys
        BY <1>9, <2>2, PickedFacts
      <3>1. Picked(x) \in Keys /\ p \in Nat
        BY <1>p, <3>0
      <3> DEFINE k == Picked(x)
      <3>2. /\ c \in Request /\ c.pool = p /\ c.key = k /\ c.at \in {"sent", "again"}
            /\ c.texts = call[r].texts
        <4> HIDE DEF k
        <4> QED BY <1>4, <1>5, <3>1 DEF Request, k
      <3>3. c.texts <= call[r].texts /\ c.texts # 0
        BY <1>4, <3>2
      <3>4. p \in DOMAIN pools' /\ pools'[p].keys = x.keys /\ refused'[p] \subseteq x.disabled
        BY <1>7, <1>9, <1>10, <1>11
      <3>5. Good(x) /\ Picked(x) # NoKey /\ PoolsOK' /\ c.key = Picked(x)
        BY <1>9, <1>12, <2>2, <3>2
      <3>6. call' = [call EXCEPT ![r] = c]
        BY <1>2, <2>2
      <3> HIDE DEF c, x, k
      <3>7. OnlyRequest(r) /\ call'[r].texts = c.texts /\ SendsAllowedKeys
        BY <3>2, <3>3, <3>4, <3>5, <3>6, GoesOn
      <3> QED BY <3>3, <3>7
    <2> QED BY <2>1, <2>2
  <1>17. spent' \in Nat
    BY <1>3 DEF Inv, TypeOK
  <1> QED BY <1>3, <1>12, <1>14, <1>15, <1>16, <1>17 DEF RequestFacts

-----------------------------------------------------------------------------
(* Every step *)

LEMMA RequestInv ==
    ASSUME Inv, NEW r \in Slots, RequestFacts(r)
    PROVE  Inv' /\ KeepsPools /\ SendsAllowedKeys
  <1>1. /\ PoolsOK' /\ PoolsStay /\ RegistryOK' /\ call' \in [Slots -> Request]
        /\ RequestOK(r)' /\ \A s \in Slots \ {r} : call'[s] = call[s]
        /\ UNCHANGED <<vault, changes, day, log, letIn, boots, peak>> /\ spent' \in Nat
    BY DEF RequestFacts, OnlyRequest, bounds
  <1>2. \A s \in Slots : RequestOK(s)'
    <2>1. ASSUME NEW s \in Slots \ {r} PROVE RequestOK(s)'
      BY <1>1, <2>1, OtherRequests
    <2> QED BY <1>1, <2>1
  <1>3. pending' \in [Days -> [Clients -> Nat]]
    <2>1. pending \in [Days -> [Clients -> Nat]] /\ day \in Days /\ Client(r) \in Clients
      BY RouterConstants DEF Inv, TypeOK, RouterConstants
    <2>2. CASE pending' = pending
      BY <2>1, <2>2
    <2>3. CASE pending' = [pending EXCEPT ![day][Client(r)] = @ + 1]
      BY <2>1, <2>3
    <2> QED BY <2>2, <2>3 DEF RequestFacts
  <1>4. /\ vault' \in Entries /\ vault'[Default] # Absent /\ changes' \in 0..MaxChanges
        /\ day' \in Days /\ log' \in [Days -> [Clients -> Nat]]
        /\ letIn' \in 0..MaxCalls /\ boots' \in 0..MaxBoots /\ peak' \in Nat
    BY <1>1 DEF Inv, TypeOK, PoolTypeOK
  <1>5. TypeOK' /\ AskInv' /\ StayInv' /\ BudgetTypes /\ BudgetTypes'
    BY <1>1, <1>2, <1>3, <1>4, StepTypes
  <1>6. BudgetInv'
    <2>1. BudgetInv
      BY DEF Inv
    <2>2. CASE pending' = pending /\ call'[r].texts <= call[r].texts
      BY <1>1, <1>5, <2>1, <2>2, ServeBudget
    <2>3. CASE /\ pending' = [pending EXCEPT ![day][Client(r)] = @ + 1]
               /\ call'[r].texts < call[r].texts
      BY <1>1, <1>5, <2>1, <2>3, ChargeBudget
    <2> QED BY <2>2, <2>3 DEF RequestFacts
  <1> QED BY <1>5, <1>6 DEF Inv, RequestFacts

(* The request that is let in asks for texts, and holds nothing yet.       *)
LEMMA LetInInv ==
    ASSUME Inv, NEW r \in Slots, LetIn(r)
    PROVE  Inv' /\ KeepsPools /\ SendsAllowedKeys
  <1>1. PICK u \in Upstreams, s \in {FALSE, Streams}, n \in 1..Texts(r) :
          /\ call' = [call EXCEPT ![r] = [Idle EXCEPT !.at = "letIn", !.up = u,
                                                      !.stream = s, !.texts = n]]
          /\ peak' = IF peak > UnderWay + n THEN peak ELSE UnderWay + n
    BY DEF LetIn
  <1>2. /\ call[r].at = "idle" /\ letIn < MaxCalls /\ letIn' = letIn + 1
        /\ Within(day, Client(r))
        /\ UNCHANGED <<vault, changes, registry, pools, day, log, pending, boots, spent, refused>>
    BY DEF LetIn, poolVars, logVars
  <1> DEFINE c == [Idle EXCEPT !.at = "letIn", !.up = u, !.stream = s, !.texts = n]
  <1>3. /\ Texts(r) \in Nat \ {0} /\ Streams \in BOOLEAN /\ MaxCalls \in Nat
    BY RouterConstants DEF RouterConstants
  <1>4. c \in Request /\ c.at = "letIn" /\ c.texts = n /\ n \in Nat \ {0} /\ n <= Texts(r)
    <2>1. n \in Nat \ {0} /\ n <= Texts(r)
      BY <1>3
    <2>3. s \in BOOLEAN
      <3>1. s = FALSE \/ s = Streams
        OBVIOUS
      <3> QED BY <1>3, <3>1
    <2>2. Idle \in Request
      BY IdleFacts DEF IdleOK
    <2> QED BY <2>1, <2>2, <2>3 DEF Request
  <1>5. call' = [call EXCEPT ![r] = c]
    BY <1>1
  <1> HIDE DEF c
  <1>6. /\ call' \in [Slots -> Request] /\ call'[r] = c
        /\ \A q \in Slots \ {r} : call'[q] = call[q]
    BY <1>4, <1>5, PoolFacts
  <1>7. PoolsOK' /\ PoolsStay
    BY <1>2, SamePools
  <1>8. RegistryOK' /\ KeepsPools
    BY <1>2, <1>7, SameRegistry
  <1>9. \A q \in Slots : RequestOK(q)'
    <2>1. RequestOK(r)'
      BY <1>4, <1>6 DEF RequestOK
    <2>2. ASSUME NEW q \in Slots \ {r} PROVE RequestOK(q)'
      BY <1>6, <1>7, OtherRequests
    <2> QED BY <2>1, <2>2
  <1>10. SendsAllowedKeys
    BY <1>4, <1>6 DEF SendsAllowedKeys, NewlySent
  <1>11. BudgetTypes /\ UnderWay \in Nat /\ BudgetInv /\ call[r].texts = 0
    <2>1. BudgetTypes /\ BudgetInv
      BY DEF Inv, TypeOK, BudgetTypes
    <2>2. UnderWay \in Nat
      BY <2>1, BudgetFacts
    <2> QED BY <1>2, <2>1, <2>2 DEF Inv, AskInv
  <1>12. peak' \in Nat
    BY <1>1, <1>4, <1>11 DEF BudgetTypes
  <1>13. /\ vault' \in Entries /\ vault'[Default] # Absent /\ changes' \in 0..MaxChanges
         /\ day' \in Days /\ log' \in [Days -> [Clients -> Nat]]
         /\ pending' \in [Days -> [Clients -> Nat]]
         /\ boots' \in 0..MaxBoots /\ spent' \in Nat
    BY <1>2 DEF Inv, TypeOK, PoolTypeOK
  <1>14. letIn' \in 0..MaxCalls
    <2>1. letIn \in 0..MaxCalls
      BY DEF Inv, TypeOK
    <2> QED BY <1>2, <1>3, <2>1
  <1>15. TypeOK' /\ AskInv' /\ StayInv' /\ BudgetTypes'
    BY <1>6, <1>7, <1>8, <1>9, <1>12, <1>13, <1>14, StepTypes
  <1>16. BudgetInv'
    <2>1. peak' = IF peak > UnderWay + call'[r].texts THEN peak ELSE UnderWay + call'[r].texts
      BY <1>1, <1>4, <1>6
    <2> QED BY <1>2, <1>6, <1>11, <1>15, <2>1, LetInBudget
  <1> QED BY <1>8, <1>10, <1>15, <1>16 DEF Inv

(* The steps that touch neither pools nor requests.                        *)
LEMMA ClockInv ==
    ASSUME Inv, (\E d \in Days, c \in Clients : Land(d, c)) \/ Midnight
    PROVE  Inv' /\ KeepsPools /\ SendsAllowedKeys
  <1>1. UNCHANGED <<vault, changes, registry, pools, call, letIn, boots, peak, refused>>
    BY DEF Land, Midnight, poolVars, bounds
  <1>2. PoolsOK' /\ PoolsStay
    BY <1>1, SamePools
  <1>3. RegistryOK' /\ KeepsPools
    BY <1>1, <1>2, SameRegistry
  <1>4. call' \in [Slots -> Request] /\ \A q \in Slots : RequestOK(q)'
    <2>1. ASSUME NEW q \in Slots PROVE RequestOK(q)'
      BY <1>1, <1>2, OtherRequests
    <2> QED BY <1>1, <2>1, PoolFacts
  <1>5. SendsAllowedKeys
    BY <1>1 DEF SendsAllowedKeys, NewlySent
  <1>6. /\ vault' \in Entries /\ vault'[Default] # Absent /\ changes' \in 0..MaxChanges
        /\ letIn' \in 0..MaxCalls /\ boots' \in 0..MaxBoots /\ peak' \in Nat
    BY <1>1 DEF Inv, TypeOK, PoolTypeOK
  <1>7. /\ day \in Days /\ log \in [Days -> [Clients -> Nat]]
        /\ pending \in [Days -> [Clients -> Nat]] /\ spent \in Nat
    BY DEF Inv, TypeOK
  <1>8. /\ day' \in Days /\ log' \in [Days -> [Clients -> Nat]]
        /\ pending' \in [Days -> [Clients -> Nat]] /\ spent' \in Nat
    <2>1. ASSUME NEW d \in Days, NEW c \in Clients, Land(d, c)
          PROVE  /\ day' \in Days /\ log' \in [Days -> [Clients -> Nat]]
                 /\ pending' \in [Days -> [Clients -> Nat]] /\ spent' \in Nat
      <3>1. pending[d][c] - 1 \in Nat /\ log[d][c] + 1 \in Nat
        BY <1>7, <2>1 DEF Land
      <3>2. pending' = [pending EXCEPT ![d][c] = pending[d][c] - 1]
        BY <2>1 DEF Land
      <3>3. log' = log \/ log' = [log EXCEPT ![d][c] = log[d][c] + 1]
        BY <2>1 DEF Land
      <3>4. pending' \in [Days -> [Clients -> Nat]]
        BY <1>7, <3>1, <3>2
      <3>5. log' \in [Days -> [Clients -> Nat]]
        BY <1>7, <3>1, <3>3
      <3> QED BY <1>7, <2>1, <3>4, <3>5 DEF Land
    <2>2. CASE Midnight
      BY <1>7, <2>2, RouterConstants DEF Midnight, logVars, Days, RouterConstants
    <2> QED BY <2>1, <2>2
  <1>9. TypeOK' /\ AskInv' /\ StayInv' /\ BudgetTypes /\ BudgetTypes'
    BY <1>2, <1>3, <1>4, <1>6, <1>8, StepTypes
  <1>10. BudgetInv'
    BY <1>9, LandBudget, MidnightBudget DEF Inv
  <1> QED BY <1>3, <1>5, <1>9, <1>10 DEF Inv

(* After a restart there are no requests and no pools.                     *)
LEMMA RestartInv ==
    ASSUME Inv, Restart
    PROVE  Inv' /\ KeepsPools /\ SendsAllowedKeys
  <1>1. /\ boots < MaxBoots /\ boots' = boots + 1 /\ boots \in 0..MaxBoots /\ MaxBoots \in Nat
        /\ registry' = Unused(vault) /\ pools' = <<>> /\ refused' = <<>>
        /\ call' = [r \in Slots |-> Idle]
        /\ UNCHANGED <<vault, changes, day, letIn, spent, peak>>
    BY RouterConstants DEF Restart, Booted, Inv, TypeOK, RouterConstants
  <1>2. PoolsOK'
    <2>1. pools' \in Seq(Pool) /\ refused' \in Seq(SUBSET Keys) /\ Len(refused') = Len(pools')
      BY <1>1
    <2>2. DOMAIN pools' = {}
      BY <1>1
    <2> QED BY <2>1, <2>2 DEF PoolsOK, StayInv
  <1>3. RegistryOK'
    <2>1. vault \in Entries /\ vault[Default] # Absent /\ Default \in Upstreams /\ Len(pools') = 0
      BY <1>1 DEF Inv, TypeOK, PoolTypeOK, Upstreams
    <2>2. \A u \in Upstreams : /\ registry'[u].spec = vault[u] /\ registry'[u].pool = 0
                               /\ registry'[u] \in [spec : Specs \cup {Absent}, pool : Nat]
      BY <1>1, <2>1 DEF Unused, Entries
    <2>3. registry' \in [Upstreams -> [spec : Specs \cup {Absent}, pool : Nat]]
      BY <1>1, <2>2 DEF Unused
    <2> QED BY <2>1, <2>2, <2>3 DEF RegistryOK
  <1>4. call' \in [Slots -> Request] /\ \A r \in Slots : RequestOK(r)'
    <2>1. \A r \in Slots : Texts(r) \in Nat
      BY RouterConstants DEF RouterConstants
    <2> QED BY <1>1, <2>1, IdleFacts DEF IdleOK, RequestOK
  <1>5. KeepsPools /\ SendsAllowedKeys
    <2>1. boots' # boots
      BY <1>1
    <2>2. \A r \in Slots : call'[r].at = "idle"
      BY <1>1, IdleFacts DEF IdleOK
    <2> QED BY <2>1, <2>2 DEF KeepsPools, SendsAllowedKeys, NewlySent
  <1>6. /\ vault' \in Entries /\ vault'[Default] # Absent /\ changes' \in 0..MaxChanges
        /\ day' \in Days /\ letIn' \in 0..MaxCalls /\ peak' \in Nat /\ spent' \in Nat
    BY <1>1 DEF Inv, TypeOK, PoolTypeOK
  <1>7. boots' \in 0..MaxBoots
    BY <1>1
  <1>8. log' \in [Days -> [Clients -> Nat]] /\ pending' \in [Days -> [Clients -> Nat]]
    <2>1. log \in [Days -> [Clients -> Nat]] /\ [c \in Clients |-> 0] \in [Clients -> Nat]
      BY DEF Inv, TypeOK
    <2> QED BY <2>1 DEF Restart
  <1>9. TypeOK' /\ AskInv' /\ StayInv' /\ BudgetTypes /\ BudgetTypes'
    BY <1>2, <1>3, <1>4, <1>6, <1>7, <1>8, StepTypes
  <1>10. BudgetInv'
    BY <1>9, RestartBudget DEF Inv
  <1> QED BY <1>5, <1>9, <1>10 DEF Inv

(* Budgets hold while nothing they count changes.                          *)
LEMMA SameBudget ==
    ASSUME BudgetInv, UNCHANGED <<day, log, pending, call, peak>> PROVE BudgetInv'
  <1>1. Asked' = Asked /\ \A c \in Clients : AskedBy(c)' = AskedBy(c)
    BY DEF Asked, AskedBy
  <1>2. Waiting' = Waiting
    <2>1. Waiting' = [d \in Days |-> Total(pending'[d], Clients)]
      BY DEF Waiting, Total, MapThenSumSet, MapThenFoldSet
    <2> QED BY <2>1 DEF Waiting
  <1>3. UnderWay' = UnderWay
    <2>1. UnderWay = Total(Asked, Slots) + Total(Waiting, Days)
      BY DEF UnderWay, Asked, Waiting
    <2> QED BY <1>1, <1>2, <2>1, SharesNext
  <1>4. \A d \in Days : /\ Share(d)' = Share(d)
                        /\ \A c \in Clients : ClientShare(d, c)' = ClientShare(d, c)
    BY <1>1, SharesNext DEF Share, ClientShare
  <1> QED BY <1>3, <1>4 DEF BudgetInv

(* Edits of the vault, ageing pools and waits that are over.               *)
LEMMA PoolStepInv ==
    ASSUME Inv, PoolStep
    PROVE  Inv' /\ KeepsPools /\ SendsAllowedKeys
  <1>1. UNCHANGED <<registry, day, log, pending, call, letIn, boots, spent, peak, refused>>
    BY DEF PoolStep, Edit, Expire, Unblock, logVars, bounds
  <1>2. /\ vault \in Entries /\ vault[Default] # Absent
        /\ changes \in 0..MaxChanges /\ MaxChanges \in Nat
    BY PoolConstants DEF Inv, TypeOK, PoolTypeOK, PoolConstants
  <1>3. /\ PoolsOK' /\ PoolsStay
        /\ vault' \in Entries /\ vault'[Default] # Absent /\ changes' \in 0..MaxChanges
    <2>1. ASSUME NEW u \in Upstreams, NEW s \in Specs \cup {Absent}, Edit(u, s)
          PROVE  /\ PoolsOK' /\ PoolsStay
                 /\ vault' \in Entries /\ vault'[Default] # Absent /\ changes' \in 0..MaxChanges
      <3>1. /\ vault' = [vault EXCEPT ![u] = s] /\ (u = Default => s # Absent)
            /\ changes < MaxChanges /\ changes' = changes + 1 /\ pools' = pools
        BY <2>1 DEF Edit
      <3>2. vault' \in Entries /\ vault'[Default] # Absent
        BY <1>2, <3>1 DEF Entries, Upstreams
      <3> QED BY <1>1, <1>2, <3>1, <3>2, SamePools
    <2>2. ASSUME NEW p \in DOMAIN pools, Expire(p)
          PROVE  /\ PoolsOK' /\ PoolsStay
                 /\ vault' \in Entries /\ vault'[Default] # Absent /\ changes' \in 0..MaxChanges
      <3> DEFINE x == [pools[p] EXCEPT !.expired = TRUE]
      <3>1. /\ pools' = [pools EXCEPT ![p] = x] /\ vault' = vault
            /\ changes < MaxChanges /\ changes' = changes + 1
        BY <2>2 DEF Expire
      <3>2. Good(x) /\ x.keys = pools[p].keys /\ pools[p].disabled \subseteq x.disabled
        <4>1. Good(pools[p])
          BY PoolFacts
        <4> QED BY <4>1 DEF Good, Pool
      <3> HIDE DEF x
      <3>3. PoolsOK' /\ PoolsStay
        BY <1>1, <3>1, <3>2, OnePool
      <3> QED BY <1>2, <3>1, <3>3
    <2>3. ASSUME NEW p \in DOMAIN pools, NEW k \in Keys, Unblock(p, k)
          PROVE  /\ PoolsOK' /\ PoolsStay
                 /\ vault' \in Entries /\ vault'[Default] # Absent /\ changes' \in 0..MaxChanges
      <3> DEFINE x == [pools[p] EXCEPT !.blocked = @ \ {k}]
      <3>1. pools' = [pools EXCEPT ![p] = x] /\ vault' = vault /\ changes' = changes
        BY <2>3 DEF Unblock
      <3>2. Good(x) /\ x.keys = pools[p].keys /\ pools[p].disabled \subseteq x.disabled
        <4>1. Good(pools[p])
          BY PoolFacts
        <4> QED BY <4>1 DEF Good, Pool
      <3> HIDE DEF x
      <3>3. PoolsOK' /\ PoolsStay
        BY <1>1, <3>1, <3>2, OnePool
      <3> QED BY <1>2, <3>1, <3>3
    <2> QED BY <2>1, <2>2, <2>3 DEF PoolStep
  <1>4. RegistryOK' /\ KeepsPools
    BY <1>1, <1>3, SameRegistry
  <1>5. call' \in [Slots -> Request] /\ \A q \in Slots : RequestOK(q)'
    <2>1. ASSUME NEW q \in Slots PROVE RequestOK(q)'
      BY <1>1, <1>3, OtherRequests
    <2> QED BY <1>1, <2>1, PoolFacts
  <1>6. SendsAllowedKeys
    BY <1>1 DEF SendsAllowedKeys, NewlySent
  <1>7. /\ day' \in Days /\ log' \in [Days -> [Clients -> Nat]]
        /\ pending' \in [Days -> [Clients -> Nat]] /\ spent' \in Nat
        /\ letIn' \in 0..MaxCalls /\ boots' \in 0..MaxBoots /\ peak' \in Nat
    BY <1>1 DEF Inv, TypeOK
  <1>8. TypeOK' /\ AskInv' /\ StayInv'
    BY <1>3, <1>4, <1>5, <1>7, StepTypes
  <1>9. BudgetInv'
    BY <1>1, SameBudget DEF Inv
  <1> QED BY <1>4, <1>6, <1>8, <1>9 DEF Inv

LEMMA InitInv == Init => Inv
  <1> SUFFICES ASSUME Init PROVE Inv
    OBVIOUS
  <1>1. /\ vault = Vault /\ changes = 0 /\ registry = Unused(vault) /\ pools = <<>>
        /\ day = 1 /\ log = [d \in Days |-> [c \in Clients |-> 0]]
        /\ pending = [d \in Days |-> [c \in Clients |-> 0]]
        /\ call = [r \in Slots |-> Idle] /\ letIn = 0 /\ boots = 0 /\ spent = 0 /\ peak = 0
        /\ refused = <<>>
    BY DEF Init, PoolInit
  <1>2. PoolTypeOK
    <2>1. /\ vault \in Entries /\ vault[Default] # Absent /\ Default \in Upstreams
          /\ MaxChanges \in Nat /\ Len(pools) = 0 /\ DOMAIN pools = {} /\ pools \in Seq(Pool)
      BY <1>1, PoolConstants DEF PoolConstants, Entries, Upstreams
    <2>2. \A u \in Upstreams : /\ registry[u].spec = vault[u] /\ registry[u].pool = 0
                               /\ registry[u] \in [spec : Specs \cup {Absent}, pool : Nat]
      BY <1>1, <2>1 DEF Unused, Entries
    <2>3. registry \in [Upstreams -> [spec : Specs \cup {Absent}, pool : Nat]]
      BY <1>1, <2>2 DEF Unused
    <2> QED BY <1>1, <2>1, <2>2, <2>3 DEF PoolTypeOK
  <1>3. /\ IsFiniteSet(Slots) /\ IsFiniteSet(Clients) /\ MaxDay \in Nat \ {0}
        /\ MaxCalls \in Nat /\ MaxBoots \in Nat /\ \A r \in Slots : Texts(r) \in Nat
        /\ Budget \in Nat \ {0} /\ ClientBudget \in Nat \ {0}
    BY RouterConstants DEF RouterConstants
  <1>4. call \in [Slots -> Request] /\ \A r \in Slots : call[r] = Idle
    BY <1>1, IdleFacts DEF IdleOK
  <1>5. refused \in Seq(SUBSET Keys) /\ Len(refused) = Len(pools) /\ DOMAIN pools = {}
    BY <1>1
  <1>6. TypeOK
    BY <1>1, <1>2, <1>3, <1>4, <1>5, IdleFacts DEF TypeOK, IdleOK, Days
  <1>7. AskInv /\ StayInv
    BY <1>4, <1>5, IdleFacts DEF AskInv, StayInv, IdleOK
  <1>8. BudgetInv
    <2>1. BudgetTypes /\ IsFiniteSet(Days)
      <3>1. 1 \in Int /\ MaxDay \in Int
        BY <1>3
      <3>2. IsFiniteSet(Days)
        BY <3>1, FS_Interval DEF Days
      <3> QED BY <1>6, <3>2 DEF BudgetTypes, TypeOK
    <2>2. /\ Total(Asked, Slots) = 0
          /\ \A c \in Clients : Total(AskedBy(c), Slots) = 0
      <3>1. \A r \in Slots : Asked[r] = 0 /\ \A c \in Clients : AskedBy(c)[r] = 0
        BY <1>4, IdleFacts DEF Asked, AskedBy, IdleOK
      <3> QED BY <1>3, <3>1, TotalOfZeros
    <2>3. \A d \in Days, c \in Clients : log[d][c] = 0 /\ pending[d][c] = 0
      BY <1>1
    <2>4. \A d \in Days : Total(log[d], Clients) = 0 /\ Total(pending[d], Clients) = 0
      BY <1>3, <2>3, TotalOfZeros
    <2>5. Total(Waiting, Days) = 0
      <3>1. \A d \in Days : Waiting[d] = 0
        BY <2>4 DEF Waiting
      <3> QED BY <2>1, <3>1, TotalOfZeros
    <2>6. UnderWay = 0
      BY <2>1, <2>2, <2>5, BudgetFacts
    <2>7. \A d \in Days : Share(d) = 0 /\ \A c \in Clients : ClientShare(d, c) = 0
      BY <2>2, <2>3, <2>4 DEF Share, ClientShare
    <2> QED BY <1>1, <1>3, <2>3, <2>6, <2>7 DEF BudgetInv
  <1> QED BY <1>6, <1>7, <1>8 DEF Inv

LEMMA NextInv == Inv /\ [Next]_vars => Inv' /\ [KeepsPools]_vars /\ [SendsAllowedKeys]_vars
  <1> SUFFICES ASSUME Inv, [Next]_vars PROVE Inv' /\ [KeepsPools]_vars /\ [SendsAllowedKeys]_vars
    OBVIOUS
  <1>1. ASSUME NEW r \in Slots, LetIn(r)
        PROVE  Inv' /\ KeepsPools /\ SendsAllowedKeys
    BY <1>1, LetInInv
  <1>2. ASSUME NEW r \in Slots, RequestStep(r)
        PROVE  Inv' /\ KeepsPools /\ SendsAllowedKeys
    <2>1. RequestFacts(r)
      BY <1>2, ForwardStep, RetryStep, LimitStep, QuietSteps, LogStep DEF RequestStep
    <2> QED BY <2>1, RequestInv
  <1>3. ASSUME NEW d \in Days, NEW c \in Clients, Land(d, c)
        PROVE  Inv' /\ KeepsPools /\ SendsAllowedKeys
    BY <1>3, ClockInv
  <1>4. CASE PoolStep
    BY <1>4, PoolStepInv
  <1>5. CASE Midnight
    BY <1>5, ClockInv
  <1>6. CASE Restart
    BY <1>6, RestartInv
  <1>7. CASE UNCHANGED vars
    <2>1. UNCHANGED <<vault, changes, registry, pools, day, log, pending, call, letIn, boots,
                      spent, peak, refused>>
      BY <1>7 DEF vars, poolVars, logVars, bounds
    <2>2. PoolsOK' /\ PoolsStay
      BY <2>1, SamePools
    <2>3. RegistryOK'
      BY <2>1, <2>2, SameRegistry
    <2>4. call' \in [Slots -> Request] /\ \A q \in Slots : RequestOK(q)'
      <3>1. ASSUME NEW q \in Slots PROVE RequestOK(q)'
        BY <2>1, <2>2, OtherRequests
      <3> QED BY <2>1, <3>1, PoolFacts
    <2>5. /\ vault' \in Entries /\ vault'[Default] # Absent /\ changes' \in 0..MaxChanges
          /\ day' \in Days /\ log' \in [Days -> [Clients -> Nat]]
          /\ pending' \in [Days -> [Clients -> Nat]] /\ spent' \in Nat
          /\ letIn' \in 0..MaxCalls /\ boots' \in 0..MaxBoots /\ peak' \in Nat
      BY <2>1 DEF Inv, TypeOK, PoolTypeOK
    <2>6. TypeOK' /\ AskInv' /\ StayInv'
      BY <2>2, <2>3, <2>4, <2>5, StepTypes
    <2>7. BudgetInv'
      BY <2>1, SameBudget DEF Inv
    <2> QED BY <1>7, <2>6, <2>7 DEF Inv
  <1> QED BY <1>1, <1>2, <1>3, <1>4, <1>5, <1>6, <1>7 DEF Next

LEMMA InvAlways == Spec => []Inv /\ [][KeepsPools]_vars /\ [][SendsAllowedKeys]_vars
  BY InitInv, NextInv, PTL DEF Spec

LEMMA InvBounds == Inv => LoggedIsBounded
  <1> SUFFICES ASSUME Inv, NEW d \in Days
               PROVE  /\ Total(log[d], Clients) < Budget + peak
                      /\ \A c \in Clients : log[d][c] < ClientBudget + peak
    BY DEF LoggedIsBounded
  <1>1. BudgetTypes /\ BudgetInv /\ peak \in Nat
    BY DEF Inv, TypeOK, BudgetTypes
  <1>2. Total(log[d], Clients) < Budget + peak
    <2>1. Share(d) < Budget + peak /\ Total(log[d], Clients) <= Share(d) /\ Share(d) \in Int
      BY <1>1, BudgetFacts DEF BudgetInv, Share
    <2> QED BY <1>1, <2>1, BudgetFacts
  <1>3. ASSUME NEW c \in Clients PROVE log[d][c] < ClientBudget + peak
    <2>1. log[d][c] \in Nat /\ pending[d][c] \in Nat
      BY <1>1 DEF BudgetTypes
    <2>2. /\ ClientShare(d, c) < ClientBudget + peak /\ log[d][c] <= ClientShare(d, c)
          /\ ClientShare(d, c) \in Int
      BY <1>1, <2>1, BudgetFacts DEF BudgetInv, ClientShare
    <2> QED BY <1>1, <2>1, <2>2, BudgetFacts
  <1> QED BY <1>2, <1>3

-----------------------------------------------------------------------------
(* Every variable keeps its type: a request that was sent holds a pool and *)
(* one of its keys, and asks for no more texts than it came with.          *)
THEOREM TypeCorrect == Spec => []TypeOK
  <1>1. Inv => TypeOK
    BY DEF Inv
  <1> QED BY <1>1, InvAlways, PTL

(* What a day's log holds exceeds the router's and a client's budget by no *)
(* more than what was under way at once (rate-limit.ts, cost-tracker.ts).  *)
THEOREM LogBounded == Spec => []LoggedIsBounded
  BY InvAlways, InvBounds, PTL

(* A reload keeps the pools of the upstreams it does not change            *)
(* (getUpstreamRegistry, upstream.ts).                                     *)
THEOREM PoolsKept == Spec => ReloadKeepsPools
  BY InvAlways, PTL DEF ReloadKeepsPools

(* A key refused with 402 is not sent with again from the same pool        *)
(* (handle402Error, getAvailableClient, openrouter-pool.ts).               *)
THEOREM RefusedOut == Spec => RefusedStaysOut
  BY InvAlways, PTL DEF RefusedStaysOut

-----------------------------------------------------------------------------
(* The caller                                                              *)

\* A request on its way has a key.
SentHasKey == \A c \in Calls : at[c] = "sent" => key[c] \in CallKeys

CallInv == CallTypeOK /\ NoModelTwice /\ SentHasKey

-----------------------------------------------------------------------------
(* Candidates *)

LEMMA PinnedIsAModel ==
    ASSUME CallTypeOK
    PROVE  Pinned \in Models /\ None \notin Models
  BY CallConstants DEF CallTypeOK, Pinned, Models, None

LEMMA BehindIsAModel ==
    ASSUME CallTypeOK, NEW i \in Nat
    PROVE  Behind(i) \in Models
  <1>1. Pinned \in Nat /\ Last \in Nat
    BY PinnedIsAModel, CallConstants DEF Models
  <1>2. (Pinned + i) % (Last + 1) \in 0..Last
    <2> DEFINE n == Pinned + i
               d == Last + 1
    <2>1. n \in Int /\ d \in Nat /\ d > 0
      BY <1>1
    <2>2. n % d \in 0..(d - 1)
      <3> HIDE DEF n, d
      <3> QED BY <2>1
    <2> QED BY <1>1, <2>2
  <1> QED BY <1>2 DEF Behind, Models

(* The next candidate is one that has not failed, if there is one.         *)
LEMMA NextCandidateFacts ==
    ASSUME CallTypeOK, NEW tried
    PROVE  NextCandidate(tried) = None
             \/ /\ NextCandidate(tried) \in Models
                /\ NextCandidate(tried) \notin tried
  <1> DEFINE T == {i \in 1..Last : Behind(i) \notin tried}
             First(i) == /\ Behind(i) \notin tried
                         /\ \A j \in 1..(i - 1) : Behind(j) \in tried
  <1>1. CASE T = {}
    <2>1. ~\E i \in 1..Last : Behind(i) \notin tried
      BY <1>1
    <2> QED BY <2>1 DEF NextCandidate
  <1>2. CASE T # {}
    <2>1. T \in SUBSET Nat /\ Last \in Nat
      BY CallConstants
    <2>2. PICK x \in T : \A y \in T : x <= y
      BY <1>2, <2>1, LeastNatural
    <2>3. First(x)
      BY <2>1, <2>2
    <2> DEFINE i == CHOOSE i \in 1..Last : First(i)
    <2>4. i \in 1..Last /\ First(i)
      <3> HIDE DEF First
      <3> QED BY <2>3
    <2>5. NextCandidate(tried) = Behind(i)
      BY <1>2 DEF NextCandidate
    <2> QED BY <2>1, <2>4, <2>5, BehindIsAModel
  <1> QED BY <1>1, <1>2

LEMMA OnwardsFacts ==
    ASSUME CallTypeOK, NEW c, NEW tried
    PROVE  /\ Onwards(c, tried) \in Models \cup {None}
           /\ Onwards(c, tried) # None => Onwards(c, tried) \notin tried
           /\ Onwards(c, tried) # None /\ Pinned # current[c]
                => Onwards(c, tried) = Pinned
  BY NextCandidateFacts, PinnedIsAModel DEF Onwards

-----------------------------------------------------------------------------
(* Counters *)

(* A counter within its bounds stays there when it is reset, and when it   *)
(* goes up below its bound.                                                *)
LEMMA CounterFacts ==
    ASSUME NEW bound \in [Calls -> Nat], NEW n \in [Calls -> Nat],
           \A d \in Calls : n[d] <= bound[d], NEW c \in Calls
    PROVE  /\ [n EXCEPT ![c] = 0] \in [Calls -> Nat]
           /\ \A d \in Calls : [n EXCEPT ![c] = 0][d] <= bound[d]
           /\ n[c] < bound[c] =>
                /\ [n EXCEPT ![c] = @ + 1] \in [Calls -> Nat]
                /\ \A d \in Calls : [n EXCEPT ![c] = @ + 1][d] <= bound[d]
  OBVIOUS

LEMMA Counters ==
    ASSUME CallTypeOK
    PROVE  /\ Retries \in [Calls -> Nat] /\ attempt \in [Calls -> Nat]
           /\ \A d \in Calls : attempt[d] <= Retries[d]
           /\ Shrinks \in [Calls -> Nat] /\ shrunk \in [Calls -> Nat]
           /\ \A d \in Calls : shrunk[d] <= Shrinks[d]
           /\ Fixes \in [Calls -> Nat] /\ fixes \in [Calls -> Nat]
           /\ \A d \in Calls : fixes[d] <= Fixes[d]
  BY CallConstants DEF CallTypeOK

-----------------------------------------------------------------------------
(* Parts of steps *)

\* What the layers of one call keep, after a step of that call.
CallTyped(c) ==
    /\ pin' \in 0..None
    /\ at' \in [Calls -> {"new", "prepared", "lookup", "picking", "sent", "answered",
                          "ok", "error"}]
    /\ managed' \in [Calls -> BOOLEAN]
    /\ current' \in [Calls -> 0..None]
    /\ failed' \in [Calls -> SUBSET (0..None)]
    /\ attempt' \in [Calls -> Nat] /\ \A d \in Calls : attempt'[d] <= Retries[d]

LEMMA InvokeFacts ==
    ASSUME CallInv, NEW c \in Calls,
           NEW model \in 0..None, Invoke(c, model)
    PROVE  CallTyped(c) /\ NoModelTwice' /\ MovesFromFailed
  <1>1. Pinned \in Models /\ Models \subseteq 0..None
    BY PinnedIsAModel, CallConstants DEF CallInv, Models, None
  <1>2. CallTyped(c)
    <2>1. attempt' \in [Calls -> Nat] /\ \A d \in Calls : attempt'[d] <= Retries[d]
      BY Counters, CounterFacts DEF Invoke, CallInv
    <2> QED BY <1>1, <2>1 DEF CallTyped, Invoke, Goto, CallInv, CallTypeOK
  <1>3. NoModelTwice'
    BY DEF Invoke, Goto, CallInv, CallTypeOK, NoModelTwice
  <1>4. MovesFromFailed
    BY PinnedIsAModel DEF Invoke, CallInv, MovesFromFailed, Pinned
  <1> QED BY <1>2, <1>3, <1>4

LEMMA SurfaceFacts ==
    ASSUME CallInv, NEW c \in Calls,
           NEW e \in Errors, Surface(c, e)
    PROVE  /\ CallTyped(c) /\ NoModelTwice' /\ MovesFromFailed
           /\ shrunk' \in [Calls -> Nat] /\ \A d \in Calls : shrunk'[d] <= Shrinks[d]
           /\ error' \in [Calls -> Errors]
  <1> DEFINE tried  == failed[c] \cup {current[c]}
             repins == managed[c] /\ ShouldRepin(e)
             on     == IF repins THEN Onwards(c, tried) ELSE None
  <1>1. CallTypeOK /\ NoModelTwice
    BY DEF CallInv
  <1>2. /\ on \in Models \cup {None}
        /\ on # None => on \notin tried /\ repins
        /\ on # None /\ Pinned # current[c] => on = Pinned
    BY <1>1, OnwardsFacts
  <1>3. /\ tried \in SUBSET (0..None) /\ Models \subseteq 0..None
        /\ None \in 0..None /\ None \notin Models
    BY <1>1, CallConstants DEF CallTypeOK, Models, None
  <1>4. /\ shrunk \in [Calls -> Nat] /\ Shrinks \in [Calls -> Nat]
        /\ \A d \in Calls : shrunk[d] <= Shrinks[d]
    BY <1>1, CallConstants DEF CallTypeOK
  <1>5. CASE /\ on # None
             /\ pin' = on
             /\ current' = [current EXCEPT ![c] = on]
             /\ failed' = [failed EXCEPT ![c] = tried]
             /\ attempt' = [attempt EXCEPT ![c] = 0]
             /\ Goto(c, "lookup")
             /\ UNCHANGED <<managed, shrunk, error>>
    <2> HIDE DEF tried, repins, on
    <2>1. CallTyped(c)
      <3>1. attempt' \in [Calls -> Nat] /\ \A d \in Calls : attempt'[d] <= Retries[d]
        BY <1>1, <1>5, Counters, CounterFacts
      <3> QED BY <1>1, <1>2, <1>3, <1>5, <3>1 DEF CallTyped, Goto, CallTypeOK
    <2>2. NoModelTwice'
      BY <1>1, <1>2, <1>5 DEF Goto, CallTypeOK, NoModelTwice
    <2>3. MovesFromFailed
      <3>1. ASSUME pin \in Models, pin' # pin PROVE current[c] = pin /\ managed[c]
        BY <3>1, <1>2, <1>3, <1>5 DEF Pinned, repins
      <3>2. current[c] \in failed'[c]
        BY <1>1, <1>5 DEF CallTypeOK, tried
      <3> QED BY <3>1, <3>2 DEF MovesFromFailed
    <2> QED BY <1>1, <1>4, <1>5, <2>1, <2>2, <2>3 DEF CallTypeOK
  <1>6. CASE /\ ~repins
             /\ e = "length" /\ fixes[c] = 0 /\ shrunk[c] < Shrinks[c]
             /\ shrunk' = [shrunk EXCEPT ![c] = @ + 1]
             /\ Invoke(c, asked[c])
             /\ UNCHANGED error
    <2>1. asked[c] \in 0..None
      BY <1>1 DEF CallTypeOK
    <2>2. CallTyped(c) /\ NoModelTwice' /\ MovesFromFailed
      BY <1>6, <2>1, InvokeFacts
    <2>3. shrunk' \in [Calls -> Nat] /\ \A d \in Calls : shrunk'[d] <= Shrinks[d]
      BY <1>4, <1>6
    <2> QED BY <1>1, <1>6, <2>2, <2>3 DEF CallTypeOK
  <1>7. CASE /\ on = None
             /\ error' = [error EXCEPT ![c] = e]
             /\ failed' = IF repins THEN [failed EXCEPT ![c] = tried] ELSE failed
             /\ Goto(c, "error")
             /\ UNCHANGED <<pin, managed, current, attempt, shrunk>>
    <2> HIDE DEF tried, repins, on
    <2>1. CallTyped(c)
      BY <1>1, <1>3, <1>7 DEF CallTyped, Goto, CallTypeOK
    <2>2. NoModelTwice'
      BY <1>1, <1>7 DEF Goto, CallTypeOK, NoModelTwice
    <2>3. MovesFromFailed
      BY <1>7 DEF MovesFromFailed
    <2> QED BY <1>1, <1>4, <1>7, <2>1, <2>2, <2>3 DEF CallTypeOK
  <1> QED BY <1>5, <1>6, <1>7 DEF Surface

LEMMA RaiseFacts ==
    ASSUME CallInv, NEW c \in Calls, at[c] \in {"picking", "sent"},
           NEW e \in Errors, Raise(c, e)
    PROVE  /\ CallTyped(c) /\ NoModelTwice' /\ MovesFromFailed
           /\ shrunk' \in [Calls -> Nat] /\ \A d \in Calls : shrunk'[d] <= Shrinks[d]
           /\ error' \in [Calls -> Errors]
  <1>1. CASE Retryable(e) /\ attempt[c] < Retries[c]
    <2>1. /\ attempt' = [attempt EXCEPT ![c] = @ + 1]
          /\ Goto(c, "picking")
          /\ UNCHANGED <<pin, error, managed, current, failed, shrunk>>
      BY <1>1 DEF Raise
    <2>2. CallTyped(c)
      <3>1. attempt' \in [Calls -> Nat] /\ \A d \in Calls : attempt'[d] <= Retries[d]
        BY <1>1, <2>1, Counters, CounterFacts DEF CallInv
      <3> QED BY <2>1, <3>1 DEF CallTyped, Goto, CallInv, CallTypeOK
    <2>3. NoModelTwice'
      BY <2>1 DEF Goto, CallInv, CallTypeOK, NoModelTwice
    <2> QED BY <2>1, <2>2, <2>3 DEF CallInv, CallTypeOK, MovesFromFailed
  <1>2. CASE ~(Retryable(e) /\ attempt[c] < Retries[c])
    BY <1>2, SurfaceFacts DEF Raise
  <1> QED BY <1>1, <1>2

LEMMA PoolErrorFacts ==
    ASSUME CallTypeOK, NEW k, NEW e, PoolError(k, e)
    PROVE  disabled' \subseteq CallKeys /\ blocked' \subseteq CallKeys
  BY DEF CallTypeOK, PoolError

-----------------------------------------------------------------------------
LEMMA CallInitInv == CallInit => CallInv
  BY CallConstants DEF CallInit, CallInv, CallTypeOK, NoModelTwice, SentHasKey,
     None, Errors

(* Only Send lets a request on its way, with a key.                        *)
LEMMA CallStepSends ==
    ASSUME CallInv, NEW c \in Calls, CallStep(c)
    PROVE  SentHasKey'
  <1> USE DEF CallInv, CallTypeOK, SentHasKey, Goto
  <1>1. ASSUME NEW e, Raise(c, e), \A d \in Calls \ {c} : key'[d] = key[d]
        PROVE  SentHasKey'
    BY <1>1 DEF Raise, Surface, Invoke
  <1>2. CASE \/ Prepare(c) \/ Start(c) \/ Hit(c) \/ Miss(c)
             \/ Pass(c) \/ Correct(c) \/ GiveUp(c)
    BY <1>2 DEF Prepare, Start, Hit, Miss, Pass, Correct,
       GiveUp, Invoke, Return
  <1>3. CASE Send(c) \/ Answer(c)
    BY <1>3 DEF Send, Available, Answer, Return
  <1>4. CASE NoKeyLeft(c) \/ Fail(c) \/ Timeout(c)
    BY <1>1, <1>4 DEF NoKeyLeft, Fail, Timeout
  <1> QED BY <1>2, <1>3, <1>4 DEF CallStep

(* A step of a call.                                                       *)
LEMMA CallStepInv ==
    ASSUME CallInv, NEW c \in Calls, CallStep(c)
    PROVE  CallTypeOK' /\ NoModelTwice' /\ MovesFromFailed
  <1> USE DEF CallInv, keyPool, request, counters
  <1>a. CallTypeOK /\ NoModelTwice
    OBVIOUS
  <1>b. /\ Last \in Nat /\ Own \in [Calls -> 0..None]
        /\ Retries \in [Calls -> Nat] /\ Shrinks \in [Calls -> Nat] /\ Fixes \in [Calls -> Nat]
    BY CallConstants
  <1>1. CASE Prepare(c)
    <2>1. Pinned \in 0..None
      BY PinnedIsAModel, <1>b DEF Models, None
    <2>2. CallTypeOK'
      BY <1>1, <1>b, <2>1 DEF Prepare, Goto, CallTypeOK
    <2> QED BY <1>1, <2>2, PinnedIsAModel
            DEF Prepare, Goto, CallTypeOK, NoModelTwice, MovesFromFailed,
               Pinned
  <1>2. CASE Start(c)
    <2>1. asked[c] \in 0..None
      BY DEF CallTypeOK
    <2>2. CallTyped(c) /\ NoModelTwice' /\ MovesFromFailed
      BY <1>2, <2>1, InvokeFacts DEF Start
    <2> QED BY <1>2, <2>2 DEF Start, CallTyped, CallTypeOK
  <1>3. CASE Hit(c)
    <2>1. CallTyped(c)
      <3>1. attempt' \in [Calls -> Nat] /\ \A d \in Calls : attempt'[d] <= Retries[d]
        BY <1>3, Counters, CounterFacts DEF Hit, Return
      <3>2. None \in 0..None
        BY <1>b DEF None
      <3> QED BY <1>3, <3>1, <3>2 DEF Hit, Return, Goto, CallTyped, CallTypeOK
    <2> QED BY <1>3, <2>1 DEF Hit, Return, Goto, CallTyped, CallTypeOK,
           NoModelTwice, MovesFromFailed
  <1>4. CASE Miss(c)
    BY <1>4 DEF Miss, Goto, CallTypeOK, NoModelTwice, MovesFromFailed
  <1>5. CASE Send(c)
    BY <1>5 DEF Send, Goto, Available, CallTypeOK, NoModelTwice,
       MovesFromFailed
  <1>6. CASE NoKeyLeft(c)
    BY <1>6, RaiseFacts DEF NoKeyLeft, CallTyped, CallTypeOK, Errors
  <1>7. CASE Answer(c)
    <2>1. CallTyped(c)
      <3>1. attempt' \in [Calls -> Nat] /\ \A d \in Calls : attempt'[d] <= Retries[d]
        BY <1>7, Counters, CounterFacts DEF Answer, Return
      <3>2. None \in 0..None
        BY <1>b DEF None
      <3> QED BY <1>7, <3>1, <3>2 DEF Answer, Return, Goto, CallTyped,
             CallTypeOK
    <2> QED BY <1>7, <2>1 DEF Answer, Return, Goto, CallTyped, CallTypeOK,
           NoModelTwice,
                              MovesFromFailed
  <1>8. CASE Fail(c)
    <2>1. PICK e \in {"rate", "quota", "gone", "length", "server"} :
              PoolError(key[c], e) /\ Raise(c, e)
      BY <1>8 DEF Fail
    <2>2. disabled' \subseteq CallKeys /\ blocked' \subseteq CallKeys
      BY <2>1, PoolErrorFacts
    <2>3. /\ CallTyped(c) /\ NoModelTwice' /\ MovesFromFailed
          /\ shrunk' \in [Calls -> Nat] /\ \A d \in Calls : shrunk'[d] <= Shrinks[d]
          /\ error' \in [Calls -> Errors]
      BY <1>8, <2>1, RaiseFacts DEF Fail, Errors
    <2> QED BY <1>8, <2>2, <2>3 DEF Fail, CallTyped, CallTypeOK
  <1>9. CASE Timeout(c)
    <2>1. key[c] \in CallKeys
      BY <1>9 DEF Timeout, SentHasKey
    <2>2. /\ CallTyped(c) /\ NoModelTwice' /\ MovesFromFailed
          /\ shrunk' \in [Calls -> Nat] /\ \A d \in Calls : shrunk'[d] <= Shrinks[d]
          /\ error' \in [Calls -> Errors]
      BY <1>9, RaiseFacts DEF Timeout, Errors
    <2> QED BY <1>9, <2>1, <2>2 DEF Timeout, CallTyped, CallTypeOK
  <1>10. CASE Pass(c)
    BY <1>10 DEF Pass, Goto, CallTypeOK, NoModelTwice, MovesFromFailed
  <1>11. CASE Correct(c)
    <2>1. asked[c] \in 0..None
      BY DEF CallTypeOK
    <2>2. CallTyped(c) /\ NoModelTwice' /\ MovesFromFailed
      BY <1>11, <2>1, InvokeFacts DEF Correct
    <2>3. fixes' \in [Calls -> Nat] /\ \A d \in Calls : fixes'[d] <= Fixes[d]
      BY <1>11, Counters, CounterFacts DEF Correct
    <2> QED BY <1>11, <2>2, <2>3 DEF Correct, CallTyped, CallTypeOK
  <1>12. CASE GiveUp(c)
    BY <1>12 DEF GiveUp, Goto, CallTypeOK, NoModelTwice, MovesFromFailed,
       Errors
  <1> QED
    BY <1>1, <1>2, <1>3, <1>4, <1>5, <1>6, <1>7, <1>8, <1>9, <1>10, <1>11, <1>12
    DEF CallStep

LEMMA CallNextInv ==
    CallInv /\ [CallNext]_callVars => CallInv' /\ [MovesFromFailed]_callVars
  <1> SUFFICES ASSUME CallInv, [CallNext]_callVars
               PROVE  CallInv' /\ [MovesFromFailed]_callVars
    OBVIOUS
  <1>1. ASSUME NEW c \in Calls, CallStep(c) PROVE CallInv' /\ MovesFromFailed
    BY <1>1, CallStepInv, CallStepSends DEF CallInv
  <1>2. ASSUME NEW k \in CallKeys, UnblockKey(k) PROVE CallInv' /\ MovesFromFailed
    BY <1>2 DEF UnblockKey, CallInv, CallTypeOK, NoModelTwice, SentHasKey,
       MovesFromFailed, request, counters
  <1>3. ASSUME NEW k \in CallKeys, LateAnswer(k) PROVE CallInv' /\ MovesFromFailed
    BY <1>3, PoolErrorFacts
    DEF LateAnswer, CallInv, CallTypeOK, NoModelTwice, SentHasKey,
       MovesFromFailed, request, counters
  <1>4. CASE PoolExpires
    BY <1>4 DEF PoolExpires, CallInv, CallTypeOK, NoModelTwice, SentHasKey,
       MovesFromFailed, request,
       counters
  <1>5. CASE UNCHANGED callVars
    BY <1>5 DEF callVars, CallInv, CallTypeOK, NoModelTwice, SentHasKey, keyPool,
       request, counters
  <1> QED BY <1>1, <1>2, <1>3, <1>4, <1>5 DEF CallNext

LEMMA CallAlways ==
    CallSpec => []CallInv /\ [][MovesFromFailed]_callVars
  <1>1. CallInit => CallInv
    BY CallInitInv
  <1>2. CallInv /\ [CallNext]_callVars => CallInv' /\ [MovesFromFailed]_callVars
    BY CallNextInv
  <1> QED BY <1>1, <1>2, PTL DEF CallSpec

(* Every variable keeps its type, and no call retries, refits or corrects  *)
(* more often than its gate allows.                                        *)
THEOREM CallsTyped == CallSpec => []CallTypeOK
  <1>1. CallInv => CallTypeOK
    BY DEF CallInv
  <1> QED BY <1>1, CallAlways, PTL

(* One request tries no candidate twice, however other calls move the pin  *)
(* under it (pinnedClient, openrouter-pool-tool.ts).                       *)
THEOREM TriesEachOnce == CallSpec => []NoModelTwice
  <1>1. CallInv => NoModelTwice
    BY DEF CallInv
  <1> QED BY <1>1, CallAlways, PTL

(* The pin moves only away from a model that failed for the call that      *)
(* moves it (pinnedClient, openrouter-pool-tool.ts).                       *)
THEOREM PinMoves == CallSpec => PinMovesFromFailed
  BY CallAlways, PTL DEF PinMovesFromFailed
=============================================================================
