---------------------------- MODULE SequenceProofs ----------------------------
(***************************************************************************)
(* Proofs about the two models whose state is sequences taken apart and    *)
(* put together again.                                                     *)
(*                                                                         *)
(* NestedStreams, for any number of items, window size, scope tables,      *)
(* branches and children: type correctness, that a fork's rows leave in    *)
(* the order of its branches, and that the members of a scope leave as     *)
(* their group committed them.  OrderInv is inductive without any          *)
(* assumption on the constants.  XInv, which follows the variable X        *)
(* through a scope, needs the hypotheses of MembersLeaveAsCommitted.       *)
(*                                                                         *)
(* LongText and ContextFit, for any texts, settings and conversations:     *)
(* type correctness, that the chunks of a text are the text, that a chunk  *)
(* is sent as it is, and what the strategies of the fitter leave alone.    *)
(***************************************************************************)
EXTENDS NestedStreams, LongText, FiniteSetTheorems, SequenceTheorems, TLAPS

-----------------------------------------------------------------------------
(* Numbers                                                                 *)

(* The least number of a set, from the finite sets' well-founded order.    *)
LEMMA LeastNatural ==
    ASSUME NEW T \in SUBSET Nat, T # {}
    PROVE  \E x \in T : \A y \in T : x <= y
  <1> DEFINE R == StrictSubsetOrdering(Nat)
             F == {0..n : n \in T}
  <1>1. IsWellFoundedOn(R, FiniteSubsetsOf(Nat))
    BY FS_StrictSubsetOrderingWellFounded
  <1>2. F \subseteq FiniteSubsetsOf(Nat) /\ F # {}
    <2>1. \A n \in Nat : IsFiniteSet(0..n) /\ 0..n \in SUBSET Nat
      BY FS_Interval
    <2> QED BY <2>1 DEF FiniteSubsetsOf
  <1>3. PICK least \in F : \A A \in F : <<A, least>> \notin R
    <2> HIDE DEF R, F
    <2> QED BY <1>1, <1>2, WFMin
  <1>4. PICK x \in T : least = 0..x
    OBVIOUS
  <1>5. ASSUME NEW y \in T, y < x PROVE FALSE
    <2>1. 0..y \in F /\ <<0..y, least>> \notin R
      BY <1>3
    <2>2. 0..y \in SUBSET Nat /\ 0..x \in SUBSET Nat
      OBVIOUS
    <2>3. 0..y \subseteq 0..x /\ x \in 0..x /\ x \notin 0..y
      BY <1>5
    <2> QED BY <2>1, <2>2, <2>3, <1>4 DEF StrictSubsetOrdering
  <1> QED BY <1>5

(* A set of numbers with 0 and every successor has them all.               *)
LEMMA AllNumbers ==
    ASSUME NEW G, 0 \in G, \A n \in Nat : n \in G => n + 1 \in G
    PROVE  Nat \subseteq G
  <1> SUFFICES ASSUME Nat \ G # {} PROVE FALSE
    OBVIOUS
  <1>1. PICK x \in Nat \ G : \A y \in Nat \ G : x <= y
    <2> DEFINE T == Nat \ G
    <2>1. T \in SUBSET Nat /\ T # {}
      OBVIOUS
    <2> HIDE DEF T
    <2>2. PICK x \in T : \A y \in T : x <= y
      BY <2>1, LeastNatural
    <2> QED BY <2>2 DEF T
  <1>2. x # 0 /\ x - 1 \in Nat
    OBVIOUS
  <1>3. x - 1 \in G
    BY <1>1, <1>2
  <1>4. x = (x - 1) + 1
    BY <1>2
  <1> QED BY <1>2, <1>3, <1>4

LEMMA Greatest ==
    ASSUME NEW n \in Nat, NEW T \in SUBSET (1..n), T # {}
    PROVE  \E x \in T : \A y \in T : y <= x
  <1> DEFINE U == {n - y : y \in T}
  <1>1. U \in SUBSET Nat /\ U # {}
    <2>1. \A y \in T : n - y \in Nat
      OBVIOUS
    <2> QED BY <2>1
  <1> HIDE DEF U
  <1>2. PICK u \in U : \A v \in U : u <= v
    BY <1>1, LeastNatural
  <1>3. PICK x \in T : u = n - x
    BY DEF U
  <1>4. ASSUME NEW y \in T PROVE y <= x
    <2>1. n - y \in U
      BY DEF U
    <2>2. n - x <= n - y
      BY <1>2, <1>3, <2>1
    <2> QED BY <2>2
  <1> QED BY <1>4

-----------------------------------------------------------------------------
(* Sequences                                                               *)

(* A set of sequences with <<>> and every longer one has them all.         *)
LEMMA AllSequences ==
    ASSUME NEW S, NEW G, <<>> \in G,
           \A s \in Seq(S), e \in S : s \in G => Append(s, e) \in G
    PROVE  Seq(S) \subseteq G
  <1> DEFINE H == {n \in Nat : \A s \in Seq(S) : Len(s) = n => s \in G}
  <1>1. 0 \in H
    OBVIOUS
  <1>2. ASSUME NEW n \in Nat, n \in H PROVE n + 1 \in H
    <2>1. ASSUME NEW s \in Seq(S), Len(s) = n + 1 PROVE s \in G
      <3>1. s # <<>>
        BY <2>1
      <3>2. PICK t \in Seq(S), e \in S : s = Append(t, e)
        BY <3>1, SequenceEmptyOrAppend
      <3>3. Len(t) = n
        BY <2>1, <3>2
      <3> QED BY <1>2, <3>2, <3>3
    <2> QED BY <2>1
  <1>3. Nat \subseteq H
    <2> HIDE DEF H
    <2> QED BY <1>1, <1>2, AllNumbers
  <1>4. \A s \in Seq(S) : Len(s) \in Nat
    OBVIOUS
  <1> QED BY <1>3, <1>4

\* The function FlattenSeq is defined by.
Flatten(seqs) ==
    LET flatten[i \in 1..Len(seqs)] ==
          IF i = 1 THEN seqs[i] ELSE flatten[i - 1] \o seqs[i]
    IN  flatten

(* It is what its definition says.                                         *)
LEMMA FlattenStep ==
    ASSUME NEW S, NEW seqs \in Seq(Seq(S))
    PROVE  /\ \A i \in 1..Len(seqs) :
                Flatten(seqs)[i] = IF i = 1 THEN seqs[i] ELSE Flatten(seqs)[i - 1] \o seqs[i]
           /\ \A i \in 1..Len(seqs) : Flatten(seqs)[i] \in Seq(S)
  <1> DEFINE L == Len(seqs)
             Value(g, i) == IF i = 1 THEN seqs[i] ELSE g[i - 1] \o seqs[i]
             Upto(g, n) == \A i \in 1..n : g[i] = Value(g, i)
             G == {n \in Nat : \E g : Upto(g, n)}
  <1>1. 0 \in G
    OBVIOUS
  <1>2. ASSUME NEW n \in Nat, n \in G PROVE n + 1 \in G
    <2>1. PICK g : Upto(g, n)
      BY <1>2
    <2> DEFINE h == [i \in 1..(n + 1) |-> Value(g, i)]
    <2>2. ASSUME NEW i \in 1..(n + 1) PROVE h[i] = Value(h, i)
      <3>1. h[i] = Value(g, i)
        OBVIOUS
      <3>2. CASE i = 1
        BY <3>1, <3>2
      <3>3. CASE i # 1
        <4>1. i - 1 \in 1..n
          BY <3>3
        <4>2. h[i - 1] = Value(g, i - 1)
          BY <4>1
        <4>3. g[i - 1] = Value(g, i - 1)
          <5> HIDE DEF Value
          <5> QED BY <2>1, <4>1
        <4> QED BY <3>1, <3>3, <4>2, <4>3
      <3> QED BY <3>2, <3>3
    <2>3. Upto(h, n + 1)
      <3> HIDE DEF h, Value
      <3> QED BY <2>2
    <2> HIDE DEF Upto
    <2> QED BY <2>3
  <1>3. L \in G
    <2>1. Nat \subseteq G /\ L \in Nat
      <3> HIDE DEF G
      <3> QED BY <1>1, <1>2, AllNumbers
    <2> QED BY <2>1
  <1>4. PICK g : Upto(g, L)
    BY <1>3
  <1> DEFINE h == [i \in 1..L |-> Value(g, i)]
  <1>5. h = [i \in 1..L |-> Value(h, i)]
    <2>1. ASSUME NEW i \in 1..L PROVE Value(g, i) = Value(h, i)
      <3>1. CASE i = 1
        BY <3>1
      <3>2. CASE i # 1
        <4>1. i - 1 \in 1..L
          BY <3>2
        <4>2. h[i - 1] = Value(g, i - 1)
          BY <4>1
        <4>3. g[i - 1] = Value(g, i - 1)
          <5> HIDE DEF Value
          <5> QED BY <1>4, <4>1
        <4> QED BY <3>2, <4>2, <4>3
      <3> QED BY <3>1, <3>2
    <2> QED BY <2>1
  <1> DEFINE F == CHOOSE f : f = [i \in 1..L |-> Value(f, i)]
  <1>6. F = [i \in 1..L |-> Value(F, i)]
    <2> HIDE DEF h, Value
    <2> QED BY <1>5
  <1>7. Flatten(seqs) = F
    BY DEF Flatten
  <1>8. \A i \in 1..L : F[i] = Value(F, i)
    <2> HIDE DEF F, Value
    <2>1. \A i \in 1..L : [j \in 1..L |-> Value(F, j)][i] = Value(F, i)
      OBVIOUS
    <2> QED BY <1>6, <2>1
  <1> HIDE DEF F
  <1>9. \A i \in 1..L : F[i] \in Seq(S)
    <2> DEFINE T == {n \in Nat : n \in 1..L => F[n] \in Seq(S)}
    <2>1. 0 \in T
      OBVIOUS
    <2>2. ASSUME NEW n \in Nat, n \in T PROVE n + 1 \in T
      <3> SUFFICES ASSUME n + 1 \in 1..L PROVE F[n + 1] \in Seq(S)
        OBVIOUS
      <3>1. seqs[n + 1] \in Seq(S)
        OBVIOUS
      <3>2. CASE n = 0
        <4>1. F[1] = seqs[1]
          BY <1>8, <3>2
        <4> QED BY <3>1, <3>2, <4>1
      <3>3. CASE n # 0
        <4>1. F[n] \in Seq(S)
          BY <2>2, <3>3
        <4>2. (n + 1) - 1 = n /\ n + 1 # 1
          BY <3>3
        <4>3. F[n + 1] = F[n] \o seqs[n + 1]
          BY <1>8, <4>2
        <4> QED BY <3>1, <4>1, <4>3
      <3> QED BY <3>2, <3>3
    <2>3. Nat \subseteq T
      <3> HIDE DEF T
      <3> QED BY <2>1, <2>2, AllNumbers
    <2> QED BY <2>3
  <1> QED BY <1>7, <1>8, <1>9

LEMMA FlattenIs ==
    ASSUME NEW seqs
    PROVE  FlattenSeq(seqs) = IF Len(seqs) = 0 THEN seqs ELSE Flatten(seqs)[Len(seqs)]
  BY DEF FlattenSeq, Flatten

LEMMA FlattenType ==
    ASSUME NEW S, NEW seqs \in Seq(Seq(S))
    PROVE  /\ FlattenSeq(seqs) \in Seq(S)
           /\ seqs = <<>> => FlattenSeq(seqs) = <<>>
  <1>1. CASE Len(seqs) = 0
    <2>1. seqs = <<>>
      BY <1>1
    <2>2. FlattenSeq(seqs) = seqs
      BY <1>1, FlattenIs
    <2>3. FlattenSeq(seqs) = <<>>
      BY ONLY <2>1, <2>2
    <2>4. <<>> \in Seq(S)
      OBVIOUS
    <2> HIDE DEF FlattenSeq
    <2> QED BY ONLY <2>3, <2>4
  <1>2. CASE Len(seqs) # 0
    <2>1. Len(seqs) \in 1..Len(seqs) /\ seqs # <<>>
      BY <1>2
    <2> QED BY <1>2, <2>1, FlattenIs, FlattenStep
  <1> QED BY <1>1, <1>2

(* One sequence more is one more to put behind.                            *)
LEMMA FlattenAppend ==
    ASSUME NEW S, NEW seqs \in Seq(Seq(S)), NEW t \in Seq(S)
    PROVE  FlattenSeq(Append(seqs, t)) = FlattenSeq(seqs) \o t
  <1> DEFINE L == Len(seqs)
             more == Append(seqs, t)
  <1>1. /\ L \in Nat /\ Len(more) = L + 1 /\ more \in Seq(Seq(S))
        /\ more[L + 1] = t /\ \A i \in 1..L : more[i] = seqs[i]
    OBVIOUS
  <1> HIDE DEF L, more
  <1>2. \A i \in 1..L : Flatten(more)[i] = Flatten(seqs)[i]
    <2> DEFINE T == {n \in Nat : n \in 1..L => Flatten(more)[n] = Flatten(seqs)[n]}
    <2>1. 0 \in T
      OBVIOUS
    <2>2. ASSUME NEW n \in Nat, n \in T PROVE n + 1 \in T
      <3> SUFFICES ASSUME n + 1 \in 1..L PROVE Flatten(more)[n + 1] = Flatten(seqs)[n + 1]
        OBVIOUS
      <3>1. n + 1 \in 1..Len(seqs) /\ n + 1 \in 1..Len(more) /\ (n \in 1..L \/ n = 0)
        BY <1>1 DEF L
      <3>2. /\ Flatten(more)[n + 1]
                 = IF n + 1 = 1 THEN more[n + 1] ELSE Flatten(more)[(n + 1) - 1] \o more[n + 1]
            /\ Flatten(seqs)[n + 1]
                 = IF n + 1 = 1 THEN seqs[n + 1] ELSE Flatten(seqs)[(n + 1) - 1] \o seqs[n + 1]
        BY <1>1, <3>1, FlattenStep DEF L
      <3>3. (n + 1) - 1 = n
        OBVIOUS
      <3> QED BY <1>1, <2>2, <3>1, <3>2, <3>3
    <2>3. Nat \subseteq T
      <3> HIDE DEF T
      <3> QED BY <2>1, <2>2, AllNumbers
    <2> QED BY <2>3
  <1>3. FlattenSeq(more) = Flatten(more)[L + 1]
    BY <1>1, FlattenIs
  <1>4. Flatten(more)[L + 1] = IF L + 1 = 1 THEN t ELSE Flatten(more)[L] \o t
    <2>1. L + 1 \in 1..Len(more) /\ (L + 1) - 1 = L
      BY <1>1
    <2> QED BY <1>1, <2>1, FlattenStep
  <1>5. CASE L = 0
    <2>1. seqs = <<>>
      BY <1>5 DEF L
    <2>2. FlattenSeq(seqs) = <<>>
      BY <2>1, FlattenType
    <2>3. FlattenSeq(more) = t
      BY <1>3, <1>4, <1>5
    <2> QED BY <2>2, <2>3, ConcatEmptySeq DEF more
  <1>6. CASE L # 0
    <2>1. FlattenSeq(seqs) = Flatten(more)[L]
      BY <1>1, <1>2, <1>6, FlattenIs DEF L
    <2> QED BY <1>1, <1>3, <1>4, <1>6, <2>1 DEF more
  <1> QED BY <1>5, <1>6

(* The rows of a table one after the other, a row at a time.               *)
LEMMA FlattenRows ==
    ASSUME NEW S, NEW n \in Nat, NEW f, \A m \in 1..(n + 1) : f[m] \in Seq(S)
    PROVE  /\ FlattenSeq([m \in 1..(n + 1) |-> f[m]])
                = FlattenSeq([m \in 1..n |-> f[m]]) \o f[n + 1]
           /\ FlattenSeq([m \in 1..n |-> f[m]]) \in Seq(S)
           /\ FlattenSeq([m \in 1..0 |-> f[m]]) = <<>>
  <1> DEFINE front == [m \in 1..n |-> f[m]]
  <1>1. front \in Seq(Seq(S)) /\ f[n + 1] \in Seq(S) /\ Len(front) = n
    OBVIOUS
  <1>2. [m \in 1..(n + 1) |-> f[m]] = Append(front, f[n + 1])
    OBVIOUS
  <1>3. [m \in 1..0 |-> f[m]] = <<>> /\ <<>> \in Seq(Seq(S))
    OBVIOUS
  <1> HIDE DEF front
  <1>4. FlattenSeq(Append(front, f[n + 1])) = FlattenSeq(front) \o f[n + 1]
    BY <1>1, FlattenAppend
  <1>5. FlattenSeq(front) \in Seq(S) /\ FlattenSeq(<<>>) = <<>>
    BY <1>1, <1>3, FlattenType
  <1>6. FlattenSeq([m \in 1..(n + 1) |-> f[m]]) = FlattenSeq(front) \o f[n + 1]
    BY ONLY <1>2, <1>4
  <1>7. FlattenSeq([m \in 1..0 |-> f[m]]) = <<>>
    BY ONLY <1>3, <1>5
  <1> QED BY <1>5, <1>6, <1>7 DEF front

-----------------------------------------------------------------------------
(* What the target is to get                                               *)

\* An envelope with what the target sees of it.
Pairs(es) == [i \in DOMAIN es |-> <<es[i].id, es[i].vars[Item]>>]

Pair == Seq(Int) \X Seq(Int)

LEMMA PairsConcat ==
    ASSUME NEW S, NEW s \in Seq(S), NEW t \in Seq(S)
    PROVE  /\ Pairs(s \o t) = Pairs(s) \o Pairs(t)
           /\ Pairs(<<>>) = <<>>
           /\ Len(Pairs(s)) = Len(s)
           /\ \A i \in 1..Len(s) : Pairs(s)[i] = <<s[i].id, s[i].vars[Item]>>
  <1>1. Pairs(s \o t) = Pairs(s) \o Pairs(t)
    <2> DEFINE P(e) == <<e.id, e.vars[Item]>>
               R == {P(e) : e \in S}
    <2>1. /\ s \o t \in Seq(S) /\ Len(s \o t) = Len(s) + Len(t)
          /\ Len(s) \in Nat /\ Len(t) \in Nat
          /\ \A i \in 1..(Len(s) + Len(t)) :
               (s \o t)[i] = IF i <= Len(s) THEN s[i] ELSE t[i - Len(s)]
      BY ConcatProperties
    <2>2. \A u \in Seq(S) : /\ Pairs(u) \in Seq(R) /\ Len(Pairs(u)) = Len(u)
                            /\ \A i \in 1..Len(u) : Pairs(u)[i] = P(u[i])
      BY DEF Pairs
    <2> HIDE DEF P, R
    <2>3. /\ Pairs(s \o t) \in Seq(R) /\ Pairs(s) \in Seq(R) /\ Pairs(t) \in Seq(R)
          /\ Len(Pairs(s \o t)) = Len(s) + Len(t)
          /\ Len(Pairs(s)) = Len(s) /\ Len(Pairs(t)) = Len(t)
      BY <2>1, <2>2
    <2>4. /\ Pairs(s) \o Pairs(t) \in Seq(R)
          /\ Len(Pairs(s) \o Pairs(t)) = Len(s) + Len(t)
          /\ \A i \in 1..(Len(s) + Len(t)) : (Pairs(s) \o Pairs(t))[i]
               = IF i <= Len(s) THEN Pairs(s)[i] ELSE Pairs(t)[i - Len(s)]
      <3> HIDE DEF Pairs
      <3> DEFINE u == Pairs(s)
                 v == Pairs(t)
      <3>1. u \in Seq(R) /\ v \in Seq(R) /\ Len(u) = Len(s) /\ Len(v) = Len(t)
        BY <2>3
      <3> HIDE DEF u, v
      <3>2. /\ u \o v \in Seq(R) /\ Len(u \o v) = Len(u) + Len(v)
            /\ \A i \in 1..(Len(u) + Len(v)) :
                 (u \o v)[i] = IF i <= Len(u) THEN u[i] ELSE v[i - Len(u)]
        BY <3>1, ConcatProperties
      <3> QED BY <3>1, <3>2 DEF u, v
    <2>5. ASSUME NEW i \in 1..(Len(s) + Len(t))
          PROVE  Pairs(s \o t)[i] = (Pairs(s) \o Pairs(t))[i]
      <3>1. Pairs(s \o t)[i] = P((s \o t)[i])
        BY <2>1, <2>2
      <3>2. CASE i <= Len(s)
        BY <2>1, <2>2, <2>4, <3>1, <3>2
      <3>3. CASE ~(i <= Len(s))
        <4>1. i - Len(s) \in 1..Len(t)
          BY <2>1, <3>3
        <4> QED BY <2>1, <2>2, <2>4, <3>1, <3>3, <4>1
      <3> QED BY <3>2, <3>3
    <2> QED BY <2>3, <2>4, <2>5, SeqEqual
  <1>2. Pairs(<<>>) = <<>>
    BY DEF Pairs
  <1>3. /\ Len(Pairs(s)) = Len(s)
        /\ \A i \in 1..Len(s) : Pairs(s)[i] = <<s[i].id, s[i].vars[Item]>>
    BY DEF Pairs
  <1> QED BY <1>1, <1>2, <1>3

LEMMA PairsFlatten ==
    ASSUME NEW S, NEW n \in Nat, NEW f, \A b \in 1..n : f[b] \in Seq(S)
    PROVE  Pairs(FlattenSeq([b \in 1..n |-> f[b]])) = FlattenSeq([b \in 1..n |-> Pairs(f[b])])
  <1> DEFINE R == {<<e.id, e.vars[Item]>> : e \in S}
             P == [b \in 1..n |-> Pairs(f[b])]
             G == {k \in Nat : k <= n =>
                     Pairs(FlattenSeq([b \in 1..k |-> f[b]])) = FlattenSeq([b \in 1..k |-> P[b]])}
  <1>1. \A u \in Seq(S) : Pairs(u) \in Seq(R)
    BY DEF Pairs
  <1>2. \A b \in 1..n : P[b] \in Seq(R) /\ P[b] = Pairs(f[b])
    BY <1>1
  <1> HIDE DEF P, R
  <1>3. 0 \in G
    <2>1. /\ FlattenSeq([b \in 1..0 |-> f[b]]) = <<>>
          /\ FlattenSeq([b \in 1..0 |-> P[b]]) = <<>>
      <3>1. [b \in 1..0 |-> f[b]] = <<>> /\ [b \in 1..0 |-> P[b]] = <<>>
            /\ <<>> \in Seq(Seq(S))
        OBVIOUS
      <3>2. FlattenSeq(<<>>) = <<>>
        BY <3>1, FlattenType
      <3> QED BY ONLY <3>1, <3>2
    <2>2. Pairs(<<>>) = <<>>
      BY DEF Pairs
    <2>3. Pairs(FlattenSeq([b \in 1..0 |-> f[b]])) = FlattenSeq([b \in 1..0 |-> P[b]])
      BY ONLY <2>1, <2>2
    <2> QED BY <2>3
  <1>4. ASSUME NEW k \in Nat, k \in G PROVE k + 1 \in G
    <2> SUFFICES ASSUME k + 1 <= n
                 PROVE  Pairs(FlattenSeq([b \in 1..(k + 1) |-> f[b]]))
                          = FlattenSeq([b \in 1..(k + 1) |-> P[b]])
      OBVIOUS
    <2>1. \A b \in 1..(k + 1) : f[b] \in Seq(S) /\ P[b] \in Seq(R)
      BY <1>2
    <2>2. /\ FlattenSeq([b \in 1..(k + 1) |-> f[b]])
               = FlattenSeq([b \in 1..k |-> f[b]]) \o f[k + 1]
          /\ FlattenSeq([b \in 1..k |-> f[b]]) \in Seq(S)
      BY <2>1, FlattenRows
    <2>3. FlattenSeq([b \in 1..(k + 1) |-> P[b]])
            = FlattenSeq([b \in 1..k |-> P[b]]) \o P[k + 1]
      BY <2>1, FlattenRows
    <2>4. k + 1 \in 1..n /\ k <= n
      OBVIOUS
    <2>5. f[k + 1] \in Seq(S) /\ P[k + 1] = Pairs(f[k + 1])
      BY <1>2, <2>4
    <2>6. Pairs(FlattenSeq([b \in 1..k |-> f[b]]) \o f[k + 1])
            = Pairs(FlattenSeq([b \in 1..k |-> f[b]])) \o Pairs(f[k + 1])
      BY <2>2, <2>5, PairsConcat
    <2>7. Pairs(FlattenSeq([b \in 1..k |-> f[b]])) = FlattenSeq([b \in 1..k |-> P[b]])
      BY <1>4, <2>4
    <2> QED BY ONLY <2>2, <2>3, <2>5, <2>6, <2>7
  <1>5. n \in G
    <2> HIDE DEF G
    <2> QED BY <1>3, <1>4, AllNumbers
  <1>6. [b \in 1..n |-> P[b]] = [b \in 1..n |-> Pairs(f[b])]
    BY <1>2
  <1>7. Pairs(FlattenSeq([b \in 1..n |-> f[b]])) = FlattenSeq([b \in 1..n |-> P[b]])
    BY <1>5
  <1> QED BY ONLY <1>6, <1>7

\* Declared(m), of the history d and the kind of fork p.
Lanes(p) == IF p THEN Branches ELSE 1
Row(m, b, item) == [i \in 1..Children[b] |-> <<<<m, b, i>>, Append(item, b)>>]
Rows(d, p, m) == FlattenSeq([b \in 1..Lanes(p) |-> Row(m, b, d[m].item)])

\* All of the first q envelopes.
All(d, p, q) == FlattenSeq([m \in 1..q |-> Rows(d, p, m)])

Items(d) == \A m \in 1..N : d[m].item \in Seq(Int)

LEMMA RowType ==
    ASSUME NEW m \in Int, NEW b \in 1..Branches, NEW item \in Seq(Int)
    PROVE  Row(m, b, item) \in Seq(Pair) /\ Len(Row(m, b, item)) = Children[b]
  <1>1. Children[b] \in Nat
    BY StreamConstants
  <1>2. Append(item, b) \in Seq(Int) /\ \A i \in 1..Children[b] : <<m, b, i>> \in Seq(Int)
    OBVIOUS
  <1>3. \A i \in 1..Children[b] : <<<<m, b, i>>, Append(item, b)>> \in Pair
    BY <1>2 DEF Pair
  <1>4. Row(m, b, item) \in [1..Children[b] -> Pair]
    BY <1>3 DEF Row
  <1> HIDE DEF Row
  <1> QED BY <1>1, <1>4

LEMMA RowsType ==
    ASSUME NEW d, Items(d), NEW p \in BOOLEAN, NEW m \in 1..N
    PROVE  /\ Rows(d, p, m) \in Seq(Pair)
           /\ ~p => Rows(d, p, m) = Row(m, 1, d[m].item)
  <1> DEFINE rows == [b \in 1..Lanes(p) |-> Row(m, b, d[m].item)]
  <1>1. Lanes(p) \in 1..Branches /\ N \in Nat /\ Branches \in Nat \ {0}
    BY StreamConstants DEF Lanes
  <1>2. \A b \in 1..Lanes(p) : Row(m, b, d[m].item) \in Seq(Pair)
    <2>1. m \in Int /\ d[m].item \in Seq(Int) /\ 1..Lanes(p) \subseteq 1..Branches
      BY <1>1 DEF Items
    <2> QED BY <2>1, RowType
  <1>3. rows \in Seq(Seq(Pair))
    BY <1>1, <1>2
  <1>4. Rows(d, p, m) \in Seq(Pair)
    <2> HIDE DEF rows
    <2>1. FlattenSeq(rows) \in Seq(Pair)
      BY <1>3, FlattenType
    <2> QED BY <2>1 DEF Rows, rows
  <1>5. ASSUME ~p PROVE Rows(d, p, m) = Row(m, 1, d[m].item)
    <2> DEFINE r == Row(m, 1, d[m].item)
    <2>1. r \in Seq(Pair) /\ <<>> \in Seq(Seq(Pair))
      BY <1>1, <1>2
    <2>2. rows = Append(<<>>, r)
      BY <1>5 DEF Lanes
    <2> HIDE DEF rows, r
    <2>3. FlattenSeq(Append(<<>>, r)) = FlattenSeq(<<>>) \o r
      BY <2>1, FlattenAppend
    <2>4. FlattenSeq(<<>>) = <<>>
      BY <2>1, FlattenType
    <2>5. <<>> \o r = r
      BY <2>1, ConcatEmptySeq
    <2>6. FlattenSeq(rows) = r
      BY ONLY <2>2, <2>3, <2>4, <2>5
    <2> QED BY <2>6 DEF Rows, rows, r
  <1> QED BY <1>4, <1>5

LEMMA AllStep ==
    ASSUME NEW d, Items(d), NEW p \in BOOLEAN, NEW q \in Nat
    PROVE  /\ q + 1 <= N => All(d, p, q + 1) = All(d, p, q) \o Rows(d, p, q + 1)
           /\ q <= N => All(d, p, q) \in Seq(Pair)
           /\ All(d, p, 0) = <<>>
  <1> DEFINE f == [m \in 1..N |-> Rows(d, p, m)]
  <1>1. \A m \in 1..N : f[m] \in Seq(Pair) /\ f[m] = Rows(d, p, m)
    BY RowsType
  <1>2. \A k \in Nat : k <= N => [m \in 1..k |-> f[m]] = [m \in 1..k |-> Rows(d, p, m)]
    BY StreamConstants, <1>1
  <1> HIDE DEF f
  <1>3. All(d, p, 0) = <<>>
    <2>1. [m \in 1..0 |-> Rows(d, p, m)] = <<>> /\ <<>> \in Seq(Seq(Pair))
      OBVIOUS
    <2>2. FlattenSeq(<<>>) = <<>>
      BY <2>1, FlattenType
    <2>3. FlattenSeq([m \in 1..0 |-> Rows(d, p, m)]) = <<>>
      BY ONLY <2>1, <2>2
    <2> QED BY <2>3 DEF All
  <1>4. ASSUME q <= N PROVE All(d, p, q) \in Seq(Pair)
    <2> DEFINE front == [m \in 1..q |-> Rows(d, p, m)]
    <2>1. front \in Seq(Seq(Pair))
      BY <1>1, <1>4, StreamConstants
    <2> HIDE DEF front
    <2>2. FlattenSeq(front) \in Seq(Pair)
      BY <2>1, FlattenType
    <2> QED BY <2>2 DEF All, front
  <1>5. ASSUME q + 1 <= N PROVE All(d, p, q + 1) = All(d, p, q) \o Rows(d, p, q + 1)
    <2>1. \A m \in 1..(q + 1) : f[m] \in Seq(Pair)
      BY <1>1, <1>5, StreamConstants
    <2>2. FlattenSeq([m \in 1..(q + 1) |-> f[m]])
            = FlattenSeq([m \in 1..q |-> f[m]]) \o f[q + 1]
      BY <2>1, FlattenRows
    <2>3. /\ [m \in 1..(q + 1) |-> f[m]] = [m \in 1..(q + 1) |-> Rows(d, p, m)]
          /\ [m \in 1..q |-> f[m]] = [m \in 1..q |-> Rows(d, p, m)]
          /\ f[q + 1] = Rows(d, p, q + 1)
      BY <1>1, <1>2, <1>5, StreamConstants
    <2>4. FlattenSeq([m \in 1..(q + 1) |-> Rows(d, p, m)])
            = FlattenSeq([m \in 1..q |-> Rows(d, p, m)]) \o Rows(d, p, q + 1)
      BY ONLY <2>2, <2>3
    <2> QED BY <2>4 DEF All
  <1> QED BY <1>3, <1>4, <1>5

(* The first q envelopes' part is a prefix.                                *)
LEMMA AllFront ==
    ASSUME NEW d, Items(d), NEW p \in BOOLEAN, NEW q \in 0..N
    PROVE  \E rest \in Seq(Pair) : All(d, p, N) = All(d, p, q) \o rest
  <1> DEFINE G == {k \in Nat : q + k <= N =>
                     \E rest \in Seq(Pair) : All(d, p, q + k) = All(d, p, q) \o rest}
  <1>0. N \in Nat /\ q \in Nat /\ q <= N
    BY StreamConstants
  <1>1. All(d, p, q) \in Seq(Pair)
    BY <1>0, AllStep
  <1>2. 0 \in G
    <2>1. All(d, p, q) = All(d, p, q) \o <<>> /\ q + 0 = q /\ <<>> \in Seq(Pair)
      BY <1>0, <1>1, ConcatEmptySeq
    <2> QED BY <2>1
  <1>3. ASSUME NEW k \in Nat, k \in G PROVE k + 1 \in G
    <2> SUFFICES ASSUME q + (k + 1) <= N
                 PROVE  \E rest \in Seq(Pair) : All(d, p, q + (k + 1)) = All(d, p, q) \o rest
      OBVIOUS
    <2>1. PICK rest \in Seq(Pair) : All(d, p, q + k) = All(d, p, q) \o rest
      BY <1>0, <1>3
    <2> DEFINE more == Rows(d, p, (q + k) + 1)
    <2>2. q + k \in Nat /\ (q + k) + 1 \in 1..N /\ q + (k + 1) = (q + k) + 1
      BY <1>0
    <2>3. All(d, p, (q + k) + 1) = All(d, p, q + k) \o more
      BY <2>2, AllStep
    <2>4. more \in Seq(Pair)
      BY <2>2, RowsType
    <2> HIDE DEF more
    <2>5. (All(d, p, q) \o rest) \o more = All(d, p, q) \o (rest \o more)
      BY <1>1, <2>4, ConcatAssociative
    <2>6. rest \o more \in Seq(Pair)
      BY <2>4
    <2>7. All(d, p, q + (k + 1)) = All(d, p, q) \o (rest \o more)
      BY ONLY <2>1, <2>2, <2>3, <2>5
    <2> QED BY <2>6, <2>7
  <1>4. Nat \subseteq G
    <2> HIDE DEF G
    <2> QED BY <1>2, <1>3, AllNumbers
  <1>5. N - q \in G /\ q + (N - q) = N
    <2>1. N - q \in Nat /\ q + (N - q) = N
      BY <1>0
    <2> HIDE DEF G
    <2> QED BY <1>4, <2>1
  <1>6. PICK rest \in Seq(Pair) : All(d, p, q + (N - q)) = All(d, p, q) \o rest
    BY <1>5
  <1> QED BY <1>5, <1>6

LEMMA AllSame ==
    ASSUME NEW d, NEW e, NEW p, NEW q, \A m \in 1..q : e[m].item = d[m].item
    PROVE  All(e, p, q) = All(d, p, q)
  <1>1. \A m \in 1..q : Rows(e, p, m) = Rows(d, p, m)
    BY DEF Rows
  <1>2. [m \in 1..q |-> Rows(e, p, m)] = [m \in 1..q |-> Rows(d, p, m)]
    BY <1>1
  <1>3. FlattenSeq([m \in 1..q |-> Rows(e, p, m)]) = FlattenSeq([m \in 1..q |-> Rows(d, p, m)])
    BY ONLY <1>2
  <1> QED BY <1>3 DEF All

LEMMA Regroup ==
    \A S : \A s, t, u \in Seq(S) : s \o (t \o u) = (s \o t) \o u
  BY ConcatAssociative

LEMMA PrefixOfConcat ==
    ASSUME NEW S, NEW s \in Seq(S), NEW t \in Seq(S)
    PROVE  IsPrefix(s, s \o t)
  <1>1. /\ s \o t \in Seq(S) /\ Len(s \o t) = Len(s) + Len(t) /\ Len(s) \in Nat /\ Len(t) \in Nat
        /\ \A i \in 1..Len(s) : (s \o t)[i] = s[i]
    OBVIOUS
  <1>2. SubSeq(s, 1, Len(s)) = SubSeq(s \o t, 1, Len(s))
    BY <1>1
  <1> QED BY <1>1, <1>2 DEF IsPrefix

(* What has been passed on of one envelope, behind all of those before it. *)
LEMMA PrefixOfAll ==
    ASSUME NEW d, Items(d), NEW p \in BOOLEAN, NEW q \in 0..N, NEW s \in Seq(Pair),
           s = <<>> \/ (q < N /\ \E t \in Seq(Pair) : Rows(d, p, q + 1) = s \o t)
    PROVE  IsPrefix(All(d, p, q) \o s, All(d, p, N))
  <1>0. N \in Nat /\ q \in Nat
    BY StreamConstants
  <1>1. All(d, p, q) \in Seq(Pair)
    BY <1>0, AllStep
  <1>2. CASE s = <<>>
    <2>1. All(d, p, q) \o s = All(d, p, q)
      BY <1>1, <1>2, ConcatEmptySeq
    <2>2. PICK rest \in Seq(Pair) : All(d, p, N) = All(d, p, q) \o rest
      BY AllFront
    <2>3. IsPrefix(All(d, p, q), All(d, p, q) \o rest)
      BY <1>1, PrefixOfConcat
    <2> QED BY <2>1, <2>2, <2>3
  <1>3. CASE q < N /\ \E t \in Seq(Pair) : Rows(d, p, q + 1) = s \o t
    <2>1. PICK t \in Seq(Pair) : Rows(d, p, q + 1) = s \o t
      BY <1>3
    <2>2. PICK rest \in Seq(Pair) : All(d, p, N) = All(d, p, q + 1) \o rest
      <3>1. q + 1 \in 0..N
        BY <1>0, <1>3
      <3> QED BY <3>1, AllFront
    <2>3. All(d, p, q + 1) = All(d, p, q) \o (s \o t)
      <3>1. q + 1 <= N
        BY <1>0, <1>3
      <3>2. All(d, p, q + 1) = All(d, p, q) \o Rows(d, p, q + 1)
        BY <1>0, <3>1, AllStep
      <3> QED BY <2>1, <3>2
    <2> DEFINE a == All(d, p, q)
               before == a \o s
               tr == t \o rest
    <2>4. a \in Seq(Pair) /\ before \in Seq(Pair) /\ tr \in Seq(Pair)
      BY <1>1
    <2>5. a \o (s \o t) = before \o t
      <3>1. a \in Seq(Pair) /\ s \in Seq(Pair) /\ t \in Seq(Pair)
        BY <2>4
      <3> HIDE DEF a
      <3>2. a \o (s \o t) = (a \o s) \o t
        BY ONLY <3>1, Regroup
      <3> QED BY ONLY <3>2 DEF before
    <2>6. All(d, p, q + 1) = before \o t
      BY ONLY <2>3, <2>5
    <2>7. (before \o t) \o rest = before \o tr
      <3>1. t \in Seq(Pair) /\ rest \in Seq(Pair) /\ before \in Seq(Pair)
        BY <2>4
      <3> HIDE DEF a, before
      <3>2. (before \o t) \o rest = before \o (t \o rest)
        BY ONLY <3>1, Regroup
      <3> QED BY ONLY <3>2 DEF tr
    <2>8. All(d, p, N) = before \o tr
      BY ONLY <2>2, <2>6, <2>7
    <2>9. IsPrefix(before, before \o tr)
      <3> HIDE DEF a, before, tr
      <3> QED BY <2>4, PrefixOfConcat
    <2> QED BY ONLY <2>8, <2>9
  <1> QED BY <1>2, <1>3

-----------------------------------------------------------------------------
(* The inductive invariant                                                 *)

\* Everything a variable of an exchange may hold, and the variables it may have.
Values == Nat \cup Seq(Int) \cup {Original[m] : m \in 1..N}
Keys == {Item, OldItem, X, Key("x", "old")}
Vars == UNION {[D -> Values] : D \in SUBSET Keys}
Payloads == {f \in Vars : Item \in DOMAIN f /\ f[Item] \in Seq(Int)}

Plain == [id : Seq(Int), vars : Payloads, members : {<<>>}, base : {<<>>}]
Folded == [id : {Group}, vars : Payloads, members : Seq(Plain), base : Vars]
Patches == UNION {[D -> Plain] : D \in SUBSET Seq(Int)}

\* Envelopes whose outputs have all left the fork, and the next one.
Through == pulled - Len(ready)
Turn == Through + 1

\* The group at hand: envelopes Before + 1 to pulled.
Members == scope.folded.members
Before == pulled - Len(Members)
Patched(m) == <<m>> \in DOMAIN scope.patched
GroupStage == stage > 0 /\ stages[stage] = "group"

Types ==
    /\ TypeOK
    /\ stages \in Seq({"group", "members"})
    /\ given \in Nat
    /\ payload \in [1..Branches -> Seq(Int)]
    /\ views \in Seq(Plain \cup Folded)
    /\ ready \in Seq(Plain) /\ buffered \in Seq(Plain) /\ out \in Seq(Plain)
    /\ due \in [1..N -> [x : Values \cup {None}, item : Seq(Int)]]

Untouched == \A m \in 1..N : m > pulled => due[m] = [x |-> Original[m], item |-> <<m>>]

ReadyInOrder ==
    /\ Len(ready) <= pulled
    /\ \A i \in 1..Len(ready) : /\ ready[i].id = <<Through + i>>
                                /\ ready[i].vars[Item] = due[Through + i].item
    /\ pc \in {"group", "scope", "done"} => ready = <<>>

Branching ==
    /\ pc \in {"group", "scope", "emit"} => branch = Idle
    /\ pc = "fork" /\ branch # Idle =>
         /\ ready # <<>>
         /\ parallel => \A b \in 1..Branches : branch[b] # "idle"
         /\ ~parallel => /\ branch[1] \in {"fresh", "marked"}
                         /\ \A b \in 1..Branches : b # 1 => branch[b] = "idle"
         /\ \A b \in 1..Branches :
              /\ branch[b] = "fresh" => payload[b] = due[Turn].item
              /\ branch[b] \in {"marked", "ended"} => payload[b] = Append(due[Turn].item, b)

Sent ==
    LET all(q) == All(due, parallel, q)
        sent   == Pairs(out)
    IN /\ pc = "group" => sent = all(pulled)
       /\ pc = "scope" => sent = all(Before)
       /\ pc = "fork" /\ (parallel \/ branch[1] # "marked") =>
            /\ sent = all(Through)
            /\ ~parallel /\ branch[1] = "fresh" => given = 0
       /\ pc = "fork" /\ ~parallel /\ branch[1] = "marked" =>
            /\ given <= Children[1]
            /\ sent = all(Through) \o SubSeq(Row(Turn, 1, due[Turn].item), 1, given)
       /\ pc = "emit" => sent \o Pairs(buffered) = all(Through)
       /\ pc = "done" => sent = all(N)
       /\ pc = "failed" => IsPrefix(sent, all(N))

FoldedGroup ==
    /\ scope \in [folded : Folded, groupVars : Vars, patched : Patches]
    /\ Item \notin DOMAIN scope.groupVars
    /\ Len(Members) \in 1..Size /\ Len(Members) <= pulled
    /\ \A i \in 1..Len(Members) : Members[i] = Envelope(Before + i)
    /\ X \in DOMAIN scope.folded.vars <=> X \in DOMAIN scope.folded.base
    /\ X \in DOMAIN scope.folded.base =>
         /\ scope.folded.vars[X] = scope.folded.base[X]
         /\ \E m \in 1..N : scope.folded.base[X] = Original[m]

Committed ==
    /\ \A id \in DOMAIN scope.patched : \E m \in (Before + 1)..pulled : id = <<m>>
    /\ \A m \in (Before + 1)..pulled :
         /\ Patched(m) => /\ scope.patched[<<m>>].id = <<m>>
                          /\ scope.patched[<<m>>].vars[Item] = due[m].item
         /\ ~Patched(m) => due[m].item = <<m>>

Viewed ==
    views # <<>> =>
      /\ stage > 0
      /\ GroupStage => views = <<GroupView(scope)>>
      /\ ~GroupStage => \A i \in 1..Len(views) :
            /\ views[i] \in Plain
            /\ \E m \in (Before + 1)..pulled : views[i].id = <<m>>

ScopeInv == pc = "scope" => FoldedGroup /\ Committed /\ Viewed

OrderInv == Types /\ Untouched /\ ReadyInOrder /\ Branching /\ Sent /\ ScopeInv

\* The group has set x.
GroupX == X \in DOMAIN scope.groupVars

-----------------------------------------------------------------------------
(* Variables and exchanges                                                 *)

LEMMA KeysDiffer == Item # OldItem /\ Item # X /\ OldItem # X /\ {Item, OldItem, X} \subseteq Keys
  BY DEF Item, OldItem, X, Key, Keys

LEMMA VarsFacts ==
    ASSUME NEW f \in Vars
    PROVE  /\ DOMAIN f \subseteq Keys /\ f \in [DOMAIN f -> Values]
           /\ \A k \in DOMAIN f : f[k] \in Values
  BY DEF Vars

LEMMA VarsAre ==
    ASSUME NEW D \in SUBSET Keys, NEW f \in [D -> Values]
    PROVE  f \in Vars
  BY DEF Vars

LEMMA NoVars == <<>> \in Vars
  <1>1. <<>> \in [{} -> Values]
    OBVIOUS
  <1> QED BY <1>1, VarsAre

LEMMA OnlyType ==
    ASSUME NEW k \in Keys, NEW v \in Values
    PROVE  Only(k, v) \in Vars /\ DOMAIN Only(k, v) = {k} /\ Only(k, v)[k] = v
  <1>1. Only(k, v) \in [{k} -> Values]
    BY DEF Only
  <1> QED BY <1>1, VarsAre DEF Only

LEMMA SpreadType ==
    ASSUME NEW f \in Vars, NEW g \in Vars
    PROVE  /\ f ++ g \in Vars
           /\ DOMAIN (f ++ g) = DOMAIN f \cup DOMAIN g
           /\ \A k \in DOMAIN f : (f ++ g)[k] = f[k]
           /\ \A k \in DOMAIN g : k \notin DOMAIN f => (f ++ g)[k] = g[k]
  <1>1. /\ DOMAIN f \subseteq Keys /\ DOMAIN g \subseteq Keys
        /\ \A k \in DOMAIN f : f[k] \in Values
        /\ \A k \in DOMAIN g : g[k] \in Values
    BY VarsFacts
  <1>2. f ++ g \in [DOMAIN f \cup DOMAIN g -> Values]
    BY <1>1 DEF ++
  <1>3. f ++ g \in Vars
    BY <1>1, <1>2, VarsAre
  <1> QED BY <1>3 DEF ++

LEMMA RestrictType ==
    ASSUME NEW f \in Vars, NEW D \in SUBSET DOMAIN f
    PROVE  /\ Restrict(f, D) \in Vars /\ DOMAIN Restrict(f, D) = D
           /\ \A k \in D : Restrict(f, D)[k] = f[k]
  <1>1. DOMAIN f \subseteq Keys /\ \A k \in DOMAIN f : f[k] \in Values
    BY VarsFacts
  <1>2. Restrict(f, D) \in [D -> Values]
    BY <1>1 DEF Restrict
  <1> QED BY <1>1, <1>2, VarsAre DEF Restrict

LEMMA EitherFacts ==
    ASSUME NEW ex \in Plain \cup Folded
    PROVE  /\ ex.vars \in Payloads /\ ex.vars \in Vars
           /\ Item \in DOMAIN ex.vars /\ ex.vars[Item] \in Seq(Int)
           /\ ex.id \in Seq(Int) /\ ex.members \in Seq(Plain) /\ ex.base \in Vars
  <1>1. Group \in Seq(Int) /\ <<>> \in Seq(Plain)
    BY DEF Group
  <1> QED BY <1>1, NoVars DEF Plain, Folded, Payloads

LEMMA PayloadsAre ==
    ASSUME NEW v \in Vars, NEW p \in Payloads, Item \in DOMAIN v => v[Item] \in Seq(Int)
    PROVE  v ++ p \in Payloads
  <1>1. p \in Vars /\ Item \in DOMAIN p /\ p[Item] \in Seq(Int)
    BY DEF Payloads
  <1> QED BY <1>1, SpreadType DEF Payloads

LEMMA WithType ==
    ASSUME NEW ex \in Plain \cup Folded, NEW v \in Vars,
           Item \in DOMAIN v => v[Item] \in Seq(Int)
    PROVE  LET w == WithVariables(ex, v)
           IN /\ w \in Plain \cup Folded
              /\ ex \in Plain => w \in Plain
              /\ ex \in Folded => w \in Folded
              /\ w.vars = v ++ ex.vars
              /\ w.id = ex.id /\ w.members = ex.members /\ w.base = ex.base
  <1>1. v ++ ex.vars \in Payloads
    BY EitherFacts, PayloadsAre
  <1>2. WithVariables(ex, v) = [ex EXCEPT !.vars = v ++ ex.vars]
    BY DEF WithVariables
  <1> QED BY <1>1, <1>2 DEF Plain, Folded

(* What CreateExchange makes of an item and other variables.               *)
LEMMA CreateType ==
    ASSUME NEW id \in Seq(Int), NEW item \in Seq(Int), NEW v \in Vars
    PROVE  LET e == CreateExchange(id, item, v)
           IN /\ e \in Plain /\ e.id = id /\ e.vars[Item] = item /\ e.vars \in Vars
              /\ DOMAIN e.vars = {Item} \cup DOMAIN v
              /\ \A k \in DOMAIN v : k # Item => e.vars[k] = v[k]
              /\ e = [id |-> id, vars |-> e.vars, members |-> <<>>, base |-> <<>>]
              /\ e.vars \in Payloads
  <1> DEFINE vars1 == Only(Item, item) ++ v
  <1>1. Item \in Keys /\ item \in Values
    BY KeysDiffer DEF Values
  <1>2. /\ vars1 \in Vars /\ DOMAIN vars1 = {Item} \cup DOMAIN v /\ vars1[Item] = item
        /\ \A k \in DOMAIN v : k # Item => vars1[k] = v[k]
    <2> DEFINE o == Only(Item, item)
    <2>1. o \in Vars /\ DOMAIN o = {Item} /\ o[Item] = item
      BY <1>1, OnlyType
    <2> HIDE DEF o
    <2>2. /\ o ++ v \in Vars /\ DOMAIN (o ++ v) = DOMAIN o \cup DOMAIN v
          /\ \A k \in DOMAIN o : (o ++ v)[k] = o[k]
          /\ \A k \in DOMAIN v : k \notin DOMAIN o => (o ++ v)[k] = v[k]
      BY <2>1, SpreadType
    <2>3. vars1 = o ++ v
      BY DEF o
    <2> HIDE DEF vars1
    <2> QED BY <2>1, <2>2, <2>3
  <1>3. vars1 \in Payloads
    BY <1>2 DEF Payloads
  <1>4. CreateExchange(id, item, v) = [id |-> id, vars |-> vars1, members |-> <<>>, base |-> <<>>]
    BY DEF CreateExchange
  <1> HIDE DEF vars1
  <1> QED BY <1>2, <1>3, <1>4 DEF Plain

(* A tool leaves the id and the members, and sets x to the stage or not.   *)
LEMMA ResultType ==
    ASSUME NEW ex \in Plain \cup Folded, stage \in Nat, NEW env \in Results(ex)
    PROVE  /\ env \in Plain \cup Folded
           /\ ex \in Plain => env \in Plain
           /\ ex \in Folded => env \in Folded
           /\ env.id = ex.id /\ env.members = ex.members /\ env.base = ex.base
           /\ \/ X \in DOMAIN env.vars /\ env.vars[X] = stage
              \/ /\ X \in DOMAIN env.vars <=> X \in DOMAIN ex.vars
                 /\ X \in DOMAIN ex.vars => env.vars[X] = ex.vars[X]
  <1> DEFINE item == Append(ex.vars[Item], stage)
             Good(v) == v \in Vars /\ (Item \in DOMAIN v => v[Item] \in Seq(Int))
             IsX(v) == X \in DOMAIN v /\ v[X] = stage
             OldX == Key("x", "old")
  <1>1. /\ item \in Seq(Int) /\ stage \in Values /\ item \in Values
        /\ ex.vars \in Vars /\ Item \in DOMAIN ex.vars /\ ex.vars[Item] \in Seq(Int)
        /\ ex.vars[Item] \in Values
        /\ X \in DOMAIN ex.vars => ex.vars[X] \in Values
    <2>1. ex.vars \in Vars /\ Item \in DOMAIN ex.vars /\ ex.vars[Item] \in Seq(Int)
      BY EitherFacts
    <2> QED BY <2>1, VarsFacts DEF Values
  <1>2. Key("x", "new") = X /\ Key("item", "new") = Item /\ Key("item", "old") = OldItem
        /\ OldX \in Keys /\ OldX # X /\ OldX # Item
    BY DEF X, Item, OldItem, Key, Keys
  <1> HIDE DEF item
  <1>3. Good(Only(X, stage)) /\ IsX(Only(X, stage))
    <2>1. /\ Only(X, stage) \in Vars /\ DOMAIN Only(X, stage) = {X}
          /\ Only(X, stage)[X] = stage
      <3>1. X \in Keys
        BY KeysDiffer
      <3> QED BY <1>1, <3>1, OnlyType
    <2> QED BY <2>1, KeysDiffer
  <1>4. ASSUME X \in DOMAIN ex.vars
        PROVE  LET v == Only(OldX, ex.vars[X]) ++ Only(X, stage) IN Good(v) /\ IsX(v)
    <2>1. /\ Only(OldX, ex.vars[X]) \in Vars /\ DOMAIN Only(OldX, ex.vars[X]) = {OldX}
          /\ Only(X, stage) \in Vars /\ DOMAIN Only(X, stage) = {X} /\ Only(X, stage)[X] = stage
      BY <1>1, <1>2, <1>3, <1>4, KeysDiffer, OnlyType
    <2> DEFINE f == Only(OldX, ex.vars[X])
               g == Only(X, stage)
    <2> HIDE DEF f, g
    <2>2. /\ f ++ g \in Vars /\ DOMAIN (f ++ g) = DOMAIN f \cup DOMAIN g
          /\ \A k \in DOMAIN f : (f ++ g)[k] = f[k]
          /\ \A k \in DOMAIN g : k \notin DOMAIN f => (f ++ g)[k] = g[k]
      BY <2>1, SpreadType DEF f, g
    <2> QED BY <1>2, <2>1, <2>2, KeysDiffer DEF f, g
  <1>5. LET v == Only(OldItem, ex.vars[Item]) ++ Only(Item, item)
        IN Good(v) /\ X \notin DOMAIN v
    <2>1. /\ Only(OldItem, ex.vars[Item]) \in Vars /\ DOMAIN Only(OldItem, ex.vars[Item]) = {OldItem}
          /\ Only(Item, item) \in Vars /\ DOMAIN Only(Item, item) = {Item}
          /\ Only(Item, item)[Item] = item
      BY <1>1, KeysDiffer, OnlyType
    <2> DEFINE f == Only(OldItem, ex.vars[Item])
               g == Only(Item, item)
    <2> HIDE DEF f, g
    <2>2. /\ f ++ g \in Vars /\ DOMAIN (f ++ g) = DOMAIN f \cup DOMAIN g
          /\ \A k \in DOMAIN f : (f ++ g)[k] = f[k]
          /\ \A k \in DOMAIN g : k \notin DOMAIN f => (f ++ g)[k] = g[k]
      BY <2>1, SpreadType DEF f, g
    <2> QED BY <1>1, <2>1, <2>2, KeysDiffer DEF f, g
  <1>6. PICK v : /\ env = ex \/ (Good(v) /\ env = WithVariables(ex, v))
                 /\ env = ex \/ IsX(v) \/ X \notin DOMAIN v
    <2>1. CASE env = ex
      BY <2>1
    <2>2. CASE env = SetVariable(ex, "x", stage)
      BY <1>2, <1>3, <2>2 DEF SetVariable
    <2>3. CASE env = PushVariable(ex, "x", stage)
      BY <1>2, <1>3, <1>4, <2>3 DEF SetVariable, PushVariable
    <2>4. CASE env = WithItem(ex, item)
      BY <1>1, <1>2, <1>5, <2>4 DEF WithItem, PushVariable
    <2> QED BY <2>1, <2>2, <2>3, <2>4 DEF Results, item
  <1>7. CASE env = ex
    BY <1>7
  <1>8. CASE Good(v) /\ env = WithVariables(ex, v) /\ (IsX(v) \/ X \notin DOMAIN v)
    <2>1. /\ DOMAIN (v ++ ex.vars) = DOMAIN v \cup DOMAIN ex.vars
          /\ \A k \in DOMAIN v : (v ++ ex.vars)[k] = v[k]
          /\ \A k \in DOMAIN ex.vars : k \notin DOMAIN v => (v ++ ex.vars)[k] = ex.vars[k]
      BY <1>1, <1>8, SpreadType
    <2>2. /\ env \in Plain \cup Folded
          /\ ex \in Plain => env \in Plain
          /\ ex \in Folded => env \in Folded
          /\ env.vars = v ++ ex.vars
          /\ env.id = ex.id /\ env.members = ex.members /\ env.base = ex.base
      BY <1>8, WithType
    <2>3. \/ X \in DOMAIN env.vars /\ env.vars[X] = stage
          \/ /\ X \in DOMAIN env.vars <=> X \in DOMAIN ex.vars
             /\ X \in DOMAIN ex.vars => env.vars[X] = ex.vars[X]
      BY <1>8, <2>1, <2>2
    <2> QED BY <2>2, <2>3
  <1> QED BY <1>6, <1>7, <1>8

LEMMA FanOutType ==
    ASSUME NEW env \in Plain, NEW n \in Nat, NEW item \in Seq(Int), NEW b \in Int
    PROVE  LET children == FanOut([env EXCEPT !.id = Append(@, b)], [i \in 1..n |-> item])
           IN /\ children \in Seq(Plain) /\ Len(children) = n
              /\ \A i \in 1..n : /\ children[i].id = Append(Append(env.id, b), i)
                                 /\ children[i].vars[Item] = item
  <1> DEFINE e == [env EXCEPT !.id = Append(@, b)]
             items == [i \in 1..n |-> item]
             rest == Restrict(env.vars, DOMAIN env.vars \ {Item, OldItem})
             child(i) == CreateExchange(Append(e.id, i), item, rest)
  <1>1. env.vars \in Vars /\ env.id \in Seq(Int)
    BY EitherFacts
  <1>2. e.id = Append(env.id, b) /\ e.vars = env.vars
    BY DEF Plain
  <1>3. rest \in Vars
    BY <1>1, RestrictType
  <1>4. \A i \in 1..n : Append(e.id, i) \in Seq(Int)
    BY <1>1, <1>2
  <1>5. \A i \in 1..n : /\ child(i) \in Plain /\ child(i).id = Append(e.id, i)
                        /\ child(i).vars[Item] = item
    <2> HIDE DEF e, rest
    <2> TAKE i \in 1..n
    <2> DEFINE id == Append(e.id, i)
    <2>1. id \in Seq(Int)
      BY <1>4
    <2> HIDE DEF id
    <2>2. LET c == CreateExchange(id, item, rest)
          IN c \in Plain /\ c.id = id /\ c.vars[Item] = item
      BY <1>3, <2>1, CreateType
    <2> QED BY <2>2 DEF id
  <1>6. FanOut(e, items) = [i \in 1..n |-> child(i)]
    BY <1>2 DEF FanOut
  <1> HIDE DEF e, items, child
  <1>7. /\ FanOut(e, items) \in Seq(Plain) /\ Len(FanOut(e, items)) = n
        /\ \A i \in 1..n : FanOut(e, items)[i] = child(i)
    BY <1>5, <1>6
  <1> QED BY <1>2, <1>5, <1>7 DEF e, items

-----------------------------------------------------------------------------
(* A group, folded and unfolded                                            *)

LEMMA EnvelopeType ==
    ASSUME NEW m \in 1..N
    PROVE  /\ Envelope(m) \in Plain /\ Envelope(m).id = <<m>> /\ Envelope(m).vars[Item] = <<m>>
           /\ X \in DOMAIN Envelope(m).vars <=> Original[m] # None
           /\ ValueOf(Envelope(m)) = Original[m]
  <1> DEFINE v == IF Original[m] = None THEN <<>> ELSE Only(X, Original[m])
             id == <<m>>
  <1>1. /\ v \in Vars
        /\ X \in DOMAIN v <=> Original[m] # None
        /\ X \in DOMAIN v => v[X] = Original[m]
    <2>1. Original[m] \in Values /\ X \in Keys
      BY KeysDiffer DEF Values
    <2>2. Only(X, Original[m]) \in Vars /\ DOMAIN Only(X, Original[m]) = {X}
          /\ Only(X, Original[m])[X] = Original[m]
      BY <2>1, OnlyType
    <2>3. DOMAIN <<>> = {}
      OBVIOUS
    <2> QED BY <2>2, <2>3, NoVars
  <1>2. id \in Seq(Int)
    BY StreamConstants
  <1>3. Envelope(m) = CreateExchange(id, id, v)
    BY DEF Envelope
  <1> HIDE DEF v, id
  <1> DEFINE e == CreateExchange(id, id, v)
  <1>4. /\ e \in Plain /\ e.id = id /\ e.vars[Item] = id
        /\ DOMAIN e.vars = {Item} \cup DOMAIN v
        /\ \A k \in DOMAIN v : k # Item => e.vars[k] = v[k]
    BY <1>1, <1>2, CreateType
  <1> HIDE DEF e
  <1>5. X \in DOMAIN e.vars <=> Original[m] # None
    BY <1>1, <1>4, KeysDiffer
  <1>6. X \in DOMAIN e.vars => e.vars[X] = Original[m]
    BY <1>1, <1>4, KeysDiffer
  <1>7. ValueOf(e) = Original[m]
    BY <1>5, <1>6 DEF ValueOf
  <1>8. Envelope(m) = e
    BY <1>3 DEF e
  <1> QED BY <1>4, <1>5, <1>7, <1>8 DEF id

LEMMA MergeType ==
    ASSUME NEW group \in Seq(Plain)
    PROVE  LET base == MergeVariables(group)
           IN /\ base \in Vars /\ Item \notin DOMAIN base
              /\ X \in DOMAIN base => \E i \in 1..Len(group) : /\ X \in DOMAIN group[i].vars
                                                               /\ base[X] = group[i].vars[X]
  <1> DEFINE keys == (UNION {DOMAIN group[i].vars : i \in DOMAIN group}) \ {Item, OldItem}
             last(k) == CHOOSE i \in DOMAIN group :
                           /\ k \in DOMAIN group[i].vars
                           /\ \A j \in DOMAIN group : k \in DOMAIN group[j].vars => j <= i
  <1>1. DOMAIN group = 1..Len(group) /\ Len(group) \in Nat
    OBVIOUS
  <1>2. \A i \in 1..Len(group) : /\ DOMAIN group[i].vars \subseteq Keys
                                 /\ \A k \in DOMAIN group[i].vars : group[i].vars[k] \in Values
    <2>1. \A i \in 1..Len(group) : group[i] \in Plain \cup Folded
      OBVIOUS
    <2> QED BY <2>1, EitherFacts, VarsFacts
  <1>3. ASSUME NEW k \in keys
        PROVE  last(k) \in 1..Len(group) /\ k \in DOMAIN group[last(k)].vars
    <2> DEFINE T == {i \in 1..Len(group) : k \in DOMAIN group[i].vars}
    <2>1. T # {} /\ T \in SUBSET (1..Len(group))
      BY <1>1
    <2>2. PICK i \in T : \A j \in T : j <= i
      <3> HIDE DEF T
      <3> QED BY <1>1, <2>1, Greatest
    <2>3. \E i1 \in DOMAIN group :
             /\ k \in DOMAIN group[i1].vars
             /\ \A j \in DOMAIN group : k \in DOMAIN group[j].vars => j <= i1
      BY <1>1, <2>2
    <2> QED BY <1>1, <2>3
  <1>4. MergeVariables(group) = [k \in keys |-> group[last(k)].vars[k]]
    BY DEF MergeVariables
  <1>5. keys \in SUBSET Keys /\ Item \notin keys
    <2>1. ASSUME NEW k \in keys PROVE k \in Keys
      <3>1. PICK i \in 1..Len(group) : k \in DOMAIN group[i].vars
        BY <1>3
      <3> QED BY <1>2, <3>1
    <2>2. Item \notin keys
      OBVIOUS
    <2> HIDE DEF keys
    <2> QED BY <2>1, <2>2
  <1> HIDE DEF keys, last
  <1>6. MergeVariables(group) \in [keys -> Values]
    BY <1>2, <1>3, <1>4
  <1>7. MergeVariables(group) \in Vars /\ DOMAIN MergeVariables(group) = keys
    BY <1>4, <1>5, <1>6, VarsAre
  <1>8. X \in keys => MergeVariables(group)[X] = group[last(X)].vars[X]
    BY <1>4
  <1> QED BY <1>3, <1>5, <1>7, <1>8

LEMMA FoldType ==
    ASSUME NEW group \in Seq(Plain)
    PROVE  LET e == ToBatchEnvelope(Group, group)
           IN /\ e \in Folded /\ e.id = Group /\ e.members = group
              /\ e.base = MergeVariables(group)
              /\ X \in DOMAIN e.vars <=> X \in DOMAIN e.base
              /\ X \in DOMAIN e.base => e.vars[X] = e.base[X]
  <1> DEFINE base == MergeVariables(group)
             rows == [i \in DOMAIN group |-> group[i].vars[Item]]
             item == FlattenSeq(rows)
             c == CreateExchange(Group, item, base)
  <1>1. rows \in Seq(Seq(Int))
    <2>1. \A i \in 1..Len(group) : group[i] \in Plain \cup Folded
      OBVIOUS
    <2>2. \A i \in 1..Len(group) : group[i].vars[Item] \in Seq(Int)
      BY <2>1, EitherFacts
    <2>3. DOMAIN group = 1..Len(group) /\ Len(group) \in Nat
      OBVIOUS
    <2> QED BY <2>2, <2>3
  <1>2. item \in Seq(Int) /\ Group \in Seq(Int)
    <2> HIDE DEF rows
    <2>1. item \in Seq(Int)
      BY <1>1, FlattenType
    <2> QED BY <2>1 DEF Group
  <1>3. base \in Vars /\ Item \notin DOMAIN base
    BY MergeType
  <1>4. ToBatchEnvelope(Group, group) = [c EXCEPT !.members = group, !.base = base]
    BY DEF ToBatchEnvelope
  <1> HIDE DEF base, item
  <1>5. /\ c \in Plain /\ c.id = Group
        /\ DOMAIN c.vars = {Item} \cup DOMAIN base
        /\ \A k \in DOMAIN base : k # Item => c.vars[k] = base[k]
    BY <1>2, <1>3, CreateType
  <1> HIDE DEF c
  <1> DEFINE e == [c EXCEPT !.members = group, !.base = base]
  <1>7. e \in Folded /\ e.id = Group /\ e.members = group /\ e.base = base /\ e.vars = c.vars
    BY <1>3, <1>5 DEF Plain, Folded
  <1> HIDE DEF e
  <1>8. /\ X \in DOMAIN e.vars <=> X \in DOMAIN e.base
        /\ X \in DOMAIN e.base => e.vars[X] = e.base[X]
    BY <1>5, <1>7, KeysDiffer
  <1>9. ToBatchEnvelope(Group, group) = e
    BY <1>4 DEF e
  <1> QED BY <1>7, <1>8, <1>9 DEF base

LEMMA OverridesType ==
    ASSUME NEW ex \in Plain \cup Folded, NEW base \in Vars
    PROVE  LET o == BatchOverrides(ex, base)
           IN /\ o \in Vars /\ Item \notin DOMAIN o
              /\ X \in DOMAIN o <=> /\ X \in DOMAIN ex.vars
                                    /\ X \in DOMAIN base => ex.vars[X] # base[X]
              /\ X \in DOMAIN o => o[X] = ex.vars[X]
  <1> DEFINE D == {k \in DOMAIN ex.vars \ {Item} : k \notin DOMAIN base \/ ex.vars[k] # base[k]}
             o == Restrict(ex.vars, D)
  <1>1. ex.vars \in Vars /\ D \in SUBSET DOMAIN ex.vars
    BY EitherFacts
  <1>2. /\ Item \notin D
        /\ X \in D <=> /\ X \in DOMAIN ex.vars
                       /\ X \in DOMAIN base => ex.vars[X] # base[X]
    BY KeysDiffer
  <1> HIDE DEF D
  <1>3. o \in Vars /\ DOMAIN o = D /\ \A k \in D : o[k] = ex.vars[k]
    BY <1>1, RestrictType
  <1>4. BatchOverrides(ex, base) = o
    BY DEF BatchOverrides, D
  <1> HIDE DEF o
  <1> QED BY <1>2, <1>3, <1>4

(* The group as a stage of the scope reads it.                             *)
LEMMA GroupViewType ==
    ASSUME FoldedGroup
    PROVE  LET g == GroupView(scope)
           IN /\ g \in Folded /\ g.id = Group /\ g.members = Members /\ g.base = scope.folded.base
              /\ X \in DOMAIN g.vars <=> GroupX \/ X \in DOMAIN scope.folded.base
              /\ GroupX => g.vars[X] = scope.groupVars[X]
              /\ ~GroupX /\ X \in DOMAIN scope.folded.base => g.vars[X] = scope.folded.base[X]
  <1> DEFINE f == scope.folded
             v == scope.groupVars
             g == WithVariables(f, v)
  <1>1. /\ f \in Folded /\ f \in Plain \cup Folded /\ v \in Vars /\ Item \notin DOMAIN v
        /\ f.members = Members /\ f.id = Group
        /\ X \in DOMAIN f.vars <=> X \in DOMAIN f.base
        /\ X \in DOMAIN f.base => f.vars[X] = f.base[X]
        /\ GroupX <=> X \in DOMAIN v
    BY DEF FoldedGroup, Members, GroupX, Folded
  <1>2. GroupView(scope) = g
    BY DEF GroupView
  <1> HIDE DEF f, v
  <1>3. f.vars \in Vars
    BY <1>1, EitherFacts
  <1>4. /\ g \in Folded /\ g.vars = v ++ f.vars
        /\ g.id = f.id /\ g.members = f.members /\ g.base = f.base
    BY <1>1, WithType
  <1>5. /\ DOMAIN (v ++ f.vars) = DOMAIN v \cup DOMAIN f.vars
        /\ \A k \in DOMAIN v : (v ++ f.vars)[k] = v[k]
        /\ \A k \in DOMAIN f.vars : k \notin DOMAIN v => (v ++ f.vars)[k] = f.vars[k]
    BY <1>1, <1>3, SpreadType
  <1> HIDE DEF g
  <1> QED BY <1>1, <1>2, <1>4, <1>5 DEF f, v

\* The part of XInv on the scope.
ScopeX ==
    /\ GroupX => \/ X \notin DOMAIN scope.folded.base
                 \/ scope.groupVars[X] # scope.folded.base[X]
    /\ \A m \in (Before + 1)..pulled :
         due[m].x = IF Patched(m) THEN ValueOf(scope.patched[<<m>>])
                    ELSE IF GroupX THEN scope.groupVars[X]
                    ELSE Original[m]

(* The members as a stage of the scope reads them, or as they leave it.    *)
LEMMA MemberViewsType ==
    ASSUME Types, FoldedGroup, Committed
    PROVE  LET views1 == MemberViews(scope)
           IN /\ views1 \in Seq(Plain) /\ Len(views1) = Len(Members)
              /\ \A i \in 1..Len(Members) :
                   /\ Before + i \in (Before + 1)..pulled
                   /\ views1[i].id = <<Before + i>>
                   /\ views1[i].vars[Item] = due[Before + i].item
                   /\ ScopeX => ValueOf(views1[i]) = due[Before + i].x
  <1> DEFINE g == GroupView(scope)
             o == BatchOverrides(g, g.base)
             member(i) == WithVariables(Members[i], o)
             L == Len(Members)
  <1>1. /\ g \in Folded /\ g \in Plain \cup Folded /\ g.members = Members
        /\ g.base = scope.folded.base /\ g.base \in Vars
        /\ X \in DOMAIN g.vars <=> GroupX \/ X \in DOMAIN scope.folded.base
        /\ GroupX => g.vars[X] = scope.groupVars[X]
        /\ ~GroupX /\ X \in DOMAIN scope.folded.base => g.vars[X] = scope.folded.base[X]
    <2>1. g \in Folded
      BY GroupViewType
    <2>2. g.base \in Vars
      BY <2>1 DEF Folded
    <2> HIDE DEF g
    <2> QED BY <2>1, <2>2, GroupViewType DEF g
  <1>2. /\ o \in Vars /\ Item \notin DOMAIN o
        /\ X \in DOMAIN o <=> /\ X \in DOMAIN g.vars
                              /\ X \in DOMAIN g.base => g.vars[X] # g.base[X]
        /\ X \in DOMAIN o => o[X] = g.vars[X]
    <2> HIDE DEF g
    <2> QED BY <1>1, OverridesType
  <1>3. ScopeX => /\ X \in DOMAIN o <=> GroupX
                  /\ GroupX => o[X] = scope.groupVars[X]
    <2> HIDE DEF g, o
    <2> QED BY <1>1, <1>2 DEF ScopeX
  <1>4. /\ L \in Nat /\ Members \in Seq(Plain) /\ DOMAIN Members = 1..L
        /\ L <= pulled /\ pulled \in Nat /\ Before \in Nat /\ Before + L = pulled /\ pulled <= N
        /\ N \in Nat
    <2>1. Members \in Seq(Plain)
      BY DEF FoldedGroup, Members, Folded
    <2>2. pulled \in 0..N /\ N \in Nat /\ L <= pulled
      BY StreamConstants DEF Types, TypeOK, FoldedGroup
    <2> QED BY <2>1, <2>2 DEF Before
  <1>5. MemberViews(scope)
          = [i \in 1..L |-> IF member(i).id \in DOMAIN scope.patched
                              THEN scope.patched[member(i).id] ELSE member(i)]
    <2>1. UnbatchExchange(g) = [i \in 1..L |-> member(i)]
      <3> HIDE DEF g
      <3> QED BY <1>1, <1>4 DEF UnbatchExchange
    <2>2. MemberViews(scope)
            = [i \in DOMAIN UnbatchExchange(g) |->
                 IF UnbatchExchange(g)[i].id \in DOMAIN scope.patched
                   THEN scope.patched[UnbatchExchange(g)[i].id] ELSE UnbatchExchange(g)[i]]
      BY DEF MemberViews
    <2> HIDE DEF g, member, L
    <2> QED BY <2>1, <2>2
  <1> HIDE DEF g, o, L
  <1>6. ASSUME NEW i \in 1..L
        PROVE  /\ Before + i \in 1..N /\ Before + i \in (Before + 1)..pulled
               /\ member(i) \in Plain /\ member(i).id = <<Before + i>>
               /\ member(i).vars[Item] = <<Before + i>>
               /\ ScopeX => ValueOf(member(i)) = IF GroupX THEN scope.groupVars[X]
                                                 ELSE Original[Before + i]
    <2> DEFINE m == Before + i
               e == Members[i]
    <2>1. m \in 1..N /\ m \in (Before + 1)..pulled
      BY <1>4
    <2>2. e = Envelope(m)
      BY DEF FoldedGroup, L
    <2> HIDE DEF m, e
    <2>3. /\ e \in Plain /\ e.id = <<m>> /\ e.vars[Item] = <<m>>
          /\ X \in DOMAIN e.vars <=> Original[m] # None
          /\ ValueOf(e) = Original[m]
      BY <2>1, <2>2, EnvelopeType
    <2>4. e.vars \in Vars /\ Item \in DOMAIN e.vars /\ e \in Plain \cup Folded
      BY <2>3, EitherFacts
    <2> DEFINE w == WithVariables(e, o)
    <2>5. w \in Plain /\ w.vars = o ++ e.vars /\ w.id = e.id
      BY <1>2, <2>3, <2>4, WithType
    <2>6. /\ DOMAIN (o ++ e.vars) = DOMAIN o \cup DOMAIN e.vars
          /\ \A k \in DOMAIN o : (o ++ e.vars)[k] = o[k]
          /\ \A k \in DOMAIN e.vars : k \notin DOMAIN o => (o ++ e.vars)[k] = e.vars[k]
      BY <1>2, <2>4, SpreadType
    <2> HIDE DEF w
    <2>7. w.vars[Item] = <<m>>
      BY <1>2, <2>3, <2>4, <2>5, <2>6
    <2>8. ScopeX => ValueOf(w) = IF GroupX THEN scope.groupVars[X] ELSE Original[m]
      BY <1>3, <2>3, <2>5, <2>6 DEF ValueOf
    <2>9. member(i) = w
      BY DEF w, e
    <2> HIDE DEF member
    <2> QED BY <2>1, <2>3, <2>5, <2>7, <2>8, <2>9 DEF m
  <1> HIDE DEF member
  <1>7. ASSUME NEW i \in 1..L
        PROVE  LET v == IF member(i).id \in DOMAIN scope.patched
                          THEN scope.patched[member(i).id] ELSE member(i)
               IN /\ v \in Plain /\ v.id = <<Before + i>>
                  /\ v.vars[Item] = due[Before + i].item
                  /\ ScopeX => ValueOf(v) = due[Before + i].x
    <2> DEFINE m == Before + i
    <2>1. /\ m \in (Before + 1)..pulled /\ member(i) \in Plain /\ member(i).id = <<m>>
          /\ member(i).vars[Item] = <<m>>
          /\ ScopeX => ValueOf(member(i)) = IF GroupX THEN scope.groupVars[X] ELSE Original[m]
      BY <1>6
    <2> HIDE DEF m
    <2>2. CASE Patched(m)
      <3>1. scope.patched[<<m>>] \in Plain
        BY <2>2 DEF FoldedGroup, Patches, Patched
      <3>2. /\ scope.patched[<<m>>].id = <<m>>
            /\ scope.patched[<<m>>].vars[Item] = due[m].item
        BY <2>1, <2>2 DEF Committed
      <3>3. ScopeX => ValueOf(scope.patched[<<m>>]) = due[m].x
        BY <2>1, <2>2 DEF ScopeX
      <3> QED BY <2>1, <2>2, <3>1, <3>2, <3>3 DEF Patched, m
    <2>3. CASE ~Patched(m)
      <3>1. due[m].item = <<m>>
        BY <2>1, <2>3 DEF Committed
      <3>2. ScopeX => due[m].x = IF GroupX THEN scope.groupVars[X] ELSE Original[m]
        BY <2>1, <2>3 DEF ScopeX
      <3> QED BY <2>1, <2>3, <3>1, <3>2 DEF Patched, m
    <2> QED BY <2>2, <2>3
  <1>8. ASSUME NEW i \in 1..L
        PROVE  LET v == MemberViews(scope)[i]
               IN /\ v \in Plain /\ v.id = <<Before + i>>
                  /\ v.vars[Item] = due[Before + i].item
                  /\ ScopeX => ValueOf(v) = due[Before + i].x
    BY <1>5, <1>7
  <1>9. MemberViews(scope) \in Seq(Plain) /\ Len(MemberViews(scope)) = L
    BY <1>4, <1>5, <1>7
  <1> QED BY <1>6, <1>8, <1>9 DEF L

LEMMA PairsType ==
    ASSUME NEW es \in Seq(Plain)
    PROVE  Pairs(es) \in Seq(Pair) /\ Len(Pairs(es)) = Len(es)
  <1>1. \A i \in 1..Len(es) : es[i] \in Plain \cup Folded
    OBVIOUS
  <1>2. \A i \in 1..Len(es) : <<es[i].id, es[i].vars[Item]>> \in Pair
    BY <1>1, EitherFacts DEF Pair
  <1> QED BY <1>2 DEF Pairs

LEMMA PairsAppend ==
    ASSUME NEW es \in Seq(Plain), NEW e \in Plain
    PROVE  Pairs(Append(es, e)) = Append(Pairs(es), <<e.id, e.vars[Item]>>)
  <1> DEFINE p == <<e.id, e.vars[Item]>>
             more == Append(es, e)
             L == Len(es)
  <1>1. /\ more \in Seq(Plain) /\ Len(more) = L + 1 /\ more[L + 1] = e /\ L \in Nat
        /\ \A i \in 1..L : more[i] = es[i]
    OBVIOUS
  <1>2. /\ Pairs(es) \in Seq(Pair) /\ Len(Pairs(es)) = L
        /\ Pairs(more) \in Seq(Pair) /\ Len(Pairs(more)) = L + 1
    <2> HIDE DEF more
    <2> QED BY <1>1, PairsType
  <1>3. /\ Pairs(more)[L + 1] = p
        /\ \A i \in 1..L : Pairs(more)[i] = Pairs(es)[i]
    <2>1. DOMAIN more = 1..(L + 1) /\ DOMAIN es = 1..L
      OBVIOUS
    <2> HIDE DEF more, L
    <2> QED BY <1>1, <2>1 DEF Pairs
  <1> HIDE DEF more, p, L
  <1> DEFINE s == Pairs(es)
             t == Pairs(more)
  <1>4. p \in Pair
    <2>1. L + 1 \in 1..(L + 1)
      BY <1>1
    <2> QED BY <1>2, <1>3, <2>1
  <1> HIDE DEF s, t
  <1>5. /\ s \in Seq(Pair) /\ Len(s) = L /\ t \in Seq(Pair) /\ Len(t) = L + 1 /\ t[L + 1] = p
        /\ \A i \in 1..L : t[i] = s[i]
    BY <1>2, <1>3 DEF s, t
  <1>6. t = Append(s, p)
    BY <1>1, <1>4, <1>5
  <1> QED BY <1>6 DEF s, t, more, p

LEMMA OutputsType ==
    ASSUME NEW b \in 1..Branches, Head(ready) \in Plain, NEW m, Head(ready).id = <<m>>,
           payload[b] \in Seq(Int), m \in Int
    PROVE  /\ Outputs(b) \in Seq(Plain) /\ Len(Outputs(b)) = Children[b]
           /\ \A i \in 1..Children[b] : /\ Outputs(b)[i].id = <<m, b, i>>
                                        /\ Outputs(b)[i].vars[Item] = payload[b]
  <1> DEFINE e == Head(ready)
             n == Children[b]
             item == payload[b]
  <1>1. n \in Nat /\ b \in Int /\ item \in Seq(Int) /\ e \in Plain
    BY StreamConstants
  <1>2. Outputs(b) = FanOut([e EXCEPT !.id = Append(@, b)], [i \in 1..n |-> item])
    BY DEF Outputs
  <1>3. ASSUME NEW i \in 1..n PROVE Append(Append(<<m>>, b), i) = <<m, b, i>>
    <2>1. Append(<<m>>, b) = <<m, b>>
      <3> DEFINE s == Append(<<m>>, b)
                 t == <<m, b>>
      <3>1. s \in Seq(Int) /\ Len(s) = 2 /\ s[1] = m /\ s[2] = b
        BY <1>1
      <3>2. t \in Seq(Int) /\ Len(t) = 2 /\ t[1] = m /\ t[2] = b
        BY <1>1
      <3> HIDE DEF s, t
      <3>3. \A j \in 1..Len(s) : s[j] = t[j]
        <4>1. \A j \in 1..2 : j = 1 \/ j = 2
          OBVIOUS
        <4> QED BY <3>1, <3>2, <4>1
      <3>4. s = t
        BY <3>1, <3>2, <3>3, SeqEqual
      <3> QED BY <3>4 DEF s, t
    <2>2. Append(<<m, b>>, i) = <<m, b, i>>
      <3> DEFINE s == Append(<<m, b>>, i)
                 t == <<m, b, i>>
      <3>1. s \in Seq(Int) /\ Len(s) = 3 /\ s[1] = m /\ s[2] = b /\ s[3] = i
        BY <1>1
      <3>2. t \in Seq(Int) /\ Len(t) = 3 /\ t[1] = m /\ t[2] = b /\ t[3] = i
        BY <1>1
      <3> HIDE DEF s, t
      <3>3. \A j \in 1..Len(s) : s[j] = t[j]
        <4>1. \A j \in 1..3 : j = 1 \/ j = 2 \/ j = 3
          OBVIOUS
        <4> QED BY <3>1, <3>2, <4>1
      <3>4. s = t
        BY <3>1, <3>2, <3>3, SeqEqual
      <3> QED BY <3>4 DEF s, t
    <2> QED BY <2>1, <2>2
  <1>4. e.id = <<m>>
    OBVIOUS
  <1> HIDE DEF e, n, item
  <1>5. LET children == FanOut([e EXCEPT !.id = Append(@, b)], [i \in 1..n |-> item])
        IN /\ children \in Seq(Plain) /\ Len(children) = n
           /\ \A i \in 1..n : /\ children[i].id = Append(Append(e.id, b), i)
                              /\ children[i].vars[Item] = item
    BY <1>1, FanOutType
  <1>6. /\ Outputs(b) \in Seq(Plain) /\ Len(Outputs(b)) = n
        /\ \A i \in 1..n : /\ Outputs(b)[i].id = <<m, b, i>>
                           /\ Outputs(b)[i].vars[Item] = item
    BY <1>2, <1>3, <1>4, <1>5
  <1> QED BY <1>6 DEF n, item

-----------------------------------------------------------------------------
(* Every step preserves it                                                 *)

LEMMA TypesFacts ==
    ASSUME Types
    PROVE  /\ Items(due) /\ parallel \in BOOLEAN /\ pulled \in 0..N /\ N \in Nat
           /\ Branches \in Nat \ {0} /\ Size \in Nat \ {0}
           /\ Len(ready) \in Nat /\ Len(views) \in Nat /\ Len(stages) \in Nat
           /\ \A m \in 1..N : due[m].item \in Seq(Int)
           /\ \A b \in 1..Branches : Children[b] \in Nat
           /\ stage \in Nat /\ given \in Nat
  BY StreamConstants DEF Types, TypeOK, Items

\* What has been passed on of the sequential fork's child.
Part == SubSeq(Row(Turn, 1, due[Turn].item), 1, given)

LEMMA PartOfRow ==
    ASSUME Types, ReadyInOrder, ready # <<>>, ~parallel, given <= Children[1]
    PROVE  /\ Turn \in 1..N /\ Through \in 0..N /\ Through < N
           /\ Part \in Seq(Pair) /\ Len(Part) = given
           /\ Row(Turn, 1, due[Turn].item) \in Seq(Pair)
           /\ Len(Row(Turn, 1, due[Turn].item)) = Children[1]
           /\ Rows(due, parallel, Turn) = Row(Turn, 1, due[Turn].item)
           /\ \E t \in Seq(Pair) : Rows(due, parallel, Turn) = Part \o t
           /\ given < Children[1] =>
                SubSeq(Row(Turn, 1, due[Turn].item), 1, given + 1)
                  = Append(Part, <<<<Turn, 1, given + 1>>, Append(due[Turn].item, 1)>>)
           /\ given = Children[1] => Part = Rows(due, parallel, Turn)
  <1> DEFINE r == Row(Turn, 1, due[Turn].item)
  <1>1. /\ Items(due) /\ parallel \in BOOLEAN /\ given \in Nat /\ 1 \in 1..Branches
        /\ Len(ready) \in Nat /\ Len(ready) # 0
        /\ Len(ready) <= pulled /\ pulled \in 0..N /\ N \in Nat /\ Children[1] \in Nat
    BY TypesFacts DEF Types, ReadyInOrder
  <1>2. Turn \in 1..N /\ Through \in 0..N /\ Through < N /\ Turn \in Int
    BY <1>1 DEF Turn, Through
  <1>3. due[Turn].item \in Seq(Int)
    BY <1>2, TypesFacts
  <1>4. r \in Seq(Pair) /\ Len(r) = Children[1]
    BY <1>1, <1>2, <1>3, RowType
  <1>5. Rows(due, parallel, Turn) = r
    BY <1>1, <1>2, RowsType
  <1>6. given < Children[1] => r[given + 1] = <<<<Turn, 1, given + 1>>, Append(due[Turn].item, 1)>>
    BY <1>1 DEF Row
  <1> HIDE DEF r
  <1>7. Part \in Seq(Pair) /\ Len(Part) = given /\ Part = SubSeq(r, 1, given)
    BY <1>1, <1>4 DEF Part, r
  <1>8. r = Part \o SubSeq(r, given + 1, Len(r)) /\ SubSeq(r, given + 1, Len(r)) \in Seq(Pair)
    BY <1>1, <1>4, <1>7
  <1>9. given < Children[1] => SubSeq(r, 1, given + 1) = Append(Part, r[given + 1])
    BY <1>1, <1>4, <1>7
  <1>10. given = Children[1] => Part = r
    BY <1>1, <1>4, <1>7
  <1> QED BY <1>2, <1>4, <1>5, <1>6, <1>7, <1>8, <1>9, <1>10 DEF r

(* What the target got is always a beginning of all outputs.               *)
LEMMA SentPrefix ==
    ASSUME OrderInv
    PROVE  IsPrefix(Pairs(out), All(due, parallel, N))
  <1> DEFINE q == IF pc = "scope" THEN Before ELSE Through
  <1>1. /\ Types /\ ReadyInOrder /\ Branching /\ Sent /\ ScopeInv
        /\ Items(due) /\ parallel \in BOOLEAN /\ N \in Nat /\ pulled \in 0..N
        /\ Len(ready) \in Nat /\ Len(ready) <= pulled
        /\ pc \in {"group", "scope", "fork", "emit", "done", "failed"}
    BY TypesFacts DEF OrderInv, Types, TypeOK, ReadyInOrder
  <1>2. Through \in 0..N
    BY <1>1 DEF Through
  <1>3. ASSUME NEW k \in 0..N, Pairs(out) = All(due, parallel, k)
        PROVE  IsPrefix(Pairs(out), All(due, parallel, N))
    <2>1. PICK rest \in Seq(Pair) : All(due, parallel, N) = All(due, parallel, k) \o rest
      BY <1>1, AllFront
    <2>2. All(due, parallel, k) \in Seq(Pair)
      BY <1>1, AllStep
    <2>3. IsPrefix(All(due, parallel, k), All(due, parallel, k) \o rest)
      BY <2>2, PrefixOfConcat
    <2> QED BY ONLY <1>3, <2>1, <2>3
  <1>4. CASE pc = "group"
    BY <1>1, <1>3, <1>4 DEF Sent
  <1>5. CASE pc = "scope"
    <2>1. Before \in 0..N
      <3>1. Len(Members) \in 1..Size /\ Len(Members) <= pulled /\ Size \in Nat
        BY <1>1, <1>5, StreamConstants DEF ScopeInv, FoldedGroup
      <3> QED BY <1>1, <3>1 DEF Before
    <2> QED BY <1>1, <1>3, <1>5, <2>1 DEF Sent
  <1>6. CASE pc = "fork" /\ (parallel \/ branch[1] # "marked")
    BY <1>1, <1>2, <1>3, <1>6 DEF Sent
  <1>7. CASE pc = "fork" /\ ~parallel /\ branch[1] = "marked"
    <2>1. branch # Idle
      BY <1>7, StreamConstants DEF Idle
    <2>2. ready # <<>> /\ given <= Children[1]
      BY <1>1, <1>7, <2>1 DEF Branching, Sent
    <2>3. Pairs(out) = All(due, parallel, Through) \o Part
      BY <1>1, <1>7 DEF Sent, Part
    <2>4. /\ Through < N /\ Part \in Seq(Pair) /\ Through + 1 = Turn
          /\ \E t \in Seq(Pair) : Rows(due, parallel, Turn) = Part \o t
      BY <1>1, <1>7, <2>2, PartOfRow DEF Turn
    <2>5. IsPrefix(All(due, parallel, Through) \o Part, All(due, parallel, N))
      BY <1>1, <1>2, <2>4, PrefixOfAll
    <2> QED BY ONLY <2>3, <2>5
  <1>8. CASE pc = "emit"
    <2> DEFINE s == Pairs(out)
               t == Pairs(buffered)
    <2>1. s \in Seq(Pair) /\ t \in Seq(Pair)
      BY <1>1, PairsType DEF Types
    <2>2. s \o t = All(due, parallel, Through)
      BY <1>1, <1>8 DEF Sent
    <2>3. PICK rest \in Seq(Pair) :
             All(due, parallel, N) = All(due, parallel, Through) \o rest
      BY <1>1, <1>2, AllFront
    <2> HIDE DEF s, t
    <2> DEFINE u == t \o rest
    <2>4. (s \o t) \o rest = s \o u
      BY <2>1, ConcatAssociative
    <2>5. u \in Seq(Pair)
      BY <2>1
    <2>6. All(due, parallel, N) = s \o u
      BY ONLY <2>2, <2>3, <2>4
    <2>7. IsPrefix(s, s \o u)
      <3> HIDE DEF u
      <3> QED BY <2>1, <2>5, PrefixOfConcat
    <2>8. IsPrefix(s, All(due, parallel, N))
      BY ONLY <2>6, <2>7
    <2> QED BY <2>8 DEF s
  <1>9. CASE pc = "done"
    <2>1. Pairs(out) = All(due, parallel, N) /\ N \in 0..N
      BY <1>1, <1>9 DEF Sent
    <2> QED BY <1>3, <2>1
  <1>10. CASE pc = "failed"
    BY <1>1, <1>10 DEF Sent
  <1> QED BY <1>1, <1>4, <1>5, <1>6, <1>7, <1>8, <1>9, <1>10

LEMMA MarkedType ==
    ASSUME TypeOK, NEW n, NEW s \in {"in-progress", "done", "failed"}
    PROVE  \A k \in DOMAIN Marked(n, s) : Marked(n, s)[k] \in {"in-progress", "done", "failed"}
  BY DEF Marked, Only, ++, TypeOK

(* Whatever fails, the target keeps what it got.                           *)
LEMMA Failing ==
    ASSUME OrderInv, Fails,
           UNCHANGED <<stages, parallel, pulled, stage, views, ready, branch, payload, given,
                       buffered, out, due>>,
           \A n \in DOMAIN nodes' : nodes'[n] \in {"in-progress", "done", "failed"}
    PROVE  OrderInv'
  <1>1. Types'
    BY DEF OrderInv, Types, TypeOK, Fails
  <1>2. Untouched' /\ ReadyInOrder' /\ Branching'
    BY DEF OrderInv, Untouched, ReadyInOrder, Through, Branching, Fails
  <1>3. Sent'
    <2>1. IsPrefix(Pairs(out), All(due, parallel, N))
      BY SentPrefix
    <2>2. IsPrefix(Pairs(out'), All(due', parallel', N))
      BY <2>1
    <2> QED BY <2>2 DEF Sent, Fails
  <1>4. ScopeInv'
    BY DEF ScopeInv, Fails
  <1> QED BY <1>1, <1>2, <1>3, <1>4 DEF OrderInv

(* What a group is entered with.                                           *)
LEMMA EnterScopeFacts ==
    ASSUME OrderInv, EnterScope
    PROVE  /\ pulled < pulled' /\ pulled' \in 0..N /\ Before' = pulled /\ FoldedGroup'
           /\ scope'.groupVars = <<>> /\ scope'.patched = <<>>
           /\ \E n : nodes' = Marked(n, "in-progress")
           /\ stage' = 0 /\ views' = <<>> /\ pc' = "scope"
           /\ UNCHANGED <<stages, parallel, ready, branch, payload, given, buffered, out, due>>
           /\ pc = "group" /\ ready = <<>> /\ branch = Idle
  <1> DEFINE upto == IF pulled + Size <= N THEN pulled + Size ELSE N
             k == upto - pulled
             group == [i \in 1..k |-> Envelope(pulled + i)]
             folded == ToBatchEnvelope(Group, group)
  <1>1. /\ pc = "group" /\ pulled < N /\ ready = <<>> /\ branch = Idle
        /\ pulled \in 0..N /\ N \in Nat /\ Size \in Nat \ {0}
    BY TypesFacts DEF OrderInv, EnterScope, ReadyInOrder, Branching
  <1>2. /\ pulled' = upto /\ scope' = CreateBatchScope(folded)
        /\ \E n : nodes' = Marked(n, "in-progress")
        /\ stage' = 0 /\ views' = <<>> /\ pc' = "scope"
        /\ UNCHANGED <<stages, parallel, ready, branch, payload, given, buffered, out, due>>
    BY DEF EnterScope
  <1>3. upto \in 0..N /\ k \in 1..Size /\ k \in Nat /\ pulled + k = upto /\ pulled < upto
    BY <1>1
  <1>4. group \in Seq(Plain) /\ Len(group) = k /\ \A i \in 1..k : group[i] = Envelope(pulled + i)
    <2>1. \A i \in 1..k : pulled + i \in 1..N
      BY <1>1, <1>3
    <2>2. \A i \in 1..k : Envelope(pulled + i) \in Plain
      BY <2>1, EnvelopeType
    <2> HIDE DEF k
    <2> QED BY <1>3, <2>2
  <1> HIDE DEF upto, k, group
  <1>5. /\ folded \in Folded /\ folded.id = Group /\ folded.members = group
        /\ folded.base = MergeVariables(group)
        /\ X \in DOMAIN folded.vars <=> X \in DOMAIN folded.base
        /\ X \in DOMAIN folded.base => folded.vars[X] = folded.base[X]
    BY <1>4, FoldType
  <1>6. X \in DOMAIN folded.base => \E m \in 1..N : folded.base[X] = Original[m]
    <2> SUFFICES ASSUME X \in DOMAIN folded.base
                 PROVE  \E m \in 1..N : folded.base[X] = Original[m]
      OBVIOUS
    <2>1. PICK i \in 1..k : /\ X \in DOMAIN group[i].vars
                            /\ folded.base[X] = group[i].vars[X]
      BY <1>4, <1>5, MergeType
    <2>2. pulled + i \in 1..N
      BY <1>1, <1>3
    <2>3. ValueOf(group[i]) = Original[pulled + i]
      BY <1>4, <2>2, EnvelopeType
    <2> QED BY <2>1, <2>2, <2>3 DEF ValueOf
  <1> HIDE DEF folded
  <1>7. scope' = [folded |-> folded, groupVars |-> <<>>, patched |-> <<>>]
    BY <1>2 DEF CreateBatchScope
  <1>8. Members' = group /\ Before' = pulled
    BY <1>1, <1>2, <1>3, <1>4, <1>5, <1>7 DEF Members, Before
  <1>9. FoldedGroup'
    <2>1. scope' \in [folded : Folded, groupVars : Vars, patched : Patches]
      <3>1. <<>> \in Patches
        <4>1. <<>> \in [{} -> Plain]
          OBVIOUS
        <4> QED BY <4>1 DEF Patches
      <3> QED BY <1>5, <1>7, <3>1, NoVars
    <2>2. /\ scope'.folded = folded /\ scope'.groupVars = <<>>
      BY <1>7
    <2>3. Item \notin DOMAIN scope'.groupVars
      BY <2>2
    <2>4. Len(Members') \in 1..Size /\ Len(Members') <= pulled'
      BY <1>1, <1>2, <1>3, <1>4, <1>8
    <2>5. \A i \in 1..Len(Members') : Members'[i] = Envelope(Before' + i)
      BY <1>4, <1>8
    <2> QED BY <1>5, <1>6, <2>1, <2>2, <2>3, <2>4, <2>5 DEF FoldedGroup
  <1> QED BY <1>1, <1>2, <1>3, <1>7, <1>8, <1>9

LEMMA EnterScopeStep ==
    ASSUME OrderInv, EnterScope
    PROVE  OrderInv'
  <1>1. /\ Types /\ Untouched /\ ReadyInOrder /\ Branching /\ Sent
        /\ pulled \in 0..N /\ N \in Nat /\ Size \in Nat
    BY TypesFacts DEF OrderInv
  <1>2. /\ pulled < pulled' /\ pulled' \in 0..N /\ Before' = pulled /\ FoldedGroup'
        /\ scope'.patched = <<>>
        /\ \E n : nodes' = Marked(n, "in-progress")
        /\ stage' = 0 /\ views' = <<>> /\ pc' = "scope"
        /\ UNCHANGED <<stages, parallel, ready, branch, payload, given, buffered, out, due>>
        /\ pc = "group" /\ ready = <<>> /\ branch = Idle
    BY EnterScopeFacts
  <1>3. Types'
    <2>1. \A n \in DOMAIN nodes' : nodes'[n] \in {"in-progress", "done", "failed"}
      BY <1>1, <1>2, MarkedType DEF Types
    <2>2. TypeOK'
      <3>1. stage' \in 0..Len(stages') /\ Len(views') <= Size
        BY <1>1, <1>2, TypesFacts
      <3> QED BY <1>1, <1>2, <2>1, <3>1 DEF Types, TypeOK
    <2> QED BY <1>1, <1>2, <2>2 DEF Types
  <1>4. Untouched'
    BY <1>1, <1>2 DEF Untouched
  <1>5. ReadyInOrder' /\ Branching'
    BY <1>1, <1>2 DEF ReadyInOrder, Branching
  <1>6. Sent'
    <2>1. Pairs(out) = All(due, parallel, pulled)
      BY <1>1, <1>2 DEF Sent
    <2>2. Pairs(out') = All(due', parallel', Before')
      BY <1>2, <2>1
    <2> QED BY <1>2, <2>2 DEF Sent
  <1>7. Committed'
    <2>1. DOMAIN scope'.patched = {}
      BY <1>2
    <2>2. \A m \in (Before' + 1)..pulled' : m \in 1..N /\ m > pulled
      BY <1>1, <1>2
    <2>3. ASSUME NEW m \in (Before' + 1)..pulled' PROVE due'[m].item = <<m>>
      <3>1. due[m] = [x |-> Original[m], item |-> <<m>>]
        BY <1>1, <2>2 DEF Untouched
      <3> QED BY <1>2, <3>1
    <2> QED BY <2>1, <2>3 DEF Committed, Patched
  <1>8. Viewed'
    BY <1>2 DEF Viewed
  <1> QED BY <1>2, <1>3, <1>4, <1>5, <1>6, <1>7, <1>8 DEF OrderInv, ScopeInv

LEMMA SourceThrowsStep ==
    ASSUME OrderInv, SourceThrows
    PROVE  OrderInv'
  <1>1. \A n \in DOMAIN nodes' : nodes'[n] \in {"in-progress", "done", "failed"}
    BY DEF SourceThrows, OrderInv, Types, TypeOK
  <1> QED BY <1>1, Failing DEF SourceThrows

LEMMA ScopeFailsStep ==
    ASSUME OrderInv, ScopeFails
    PROVE  OrderInv'
  <1>1. \A n \in DOMAIN nodes' : nodes'[n] \in {"in-progress", "done", "failed"}
    BY MarkedType DEF ScopeFails, OrderInv, Types
  <1> QED BY <1>1, Failing DEF ScopeFails

LEMMA ChildFailsStep ==
    ASSUME OrderInv, ChildFails
    PROVE  OrderInv'
  <1>1. \A n \in DOMAIN nodes' : nodes'[n] \in {"in-progress", "done", "failed"}
    BY MarkedType DEF ChildFails, OrderInv, Types
  <1> QED BY <1>1, Failing DEF ChildFails

\* What a step inside a scope leaves alone.
LEMMA InsideScope ==
    ASSUME OrderInv, pc = "scope", pc' = "scope", Types', FoldedGroup', Committed', Viewed',
           Untouched', scope'.folded = scope.folded,
           UNCHANGED <<stages, parallel, pulled, ready, branch, payload, given, buffered, out>>,
           \A m \in 1..N : m <= Before => due'[m].item = due[m].item
    PROVE  OrderInv'
  <1>1. /\ ReadyInOrder /\ Branching /\ Sent /\ ready = <<>> /\ FoldedGroup /\ N \in Nat
        /\ Before <= N /\ Before \in Nat
    BY TypesFacts DEF OrderInv, ReadyInOrder, ScopeInv, FoldedGroup, Before
  <1>2. ReadyInOrder' /\ Branching'
    BY <1>1 DEF ReadyInOrder, Branching
  <1>3. Sent'
    <2>1. Before' = Before
      BY DEF Before, Members
    <2>2. All(due', parallel, Before) = All(due, parallel, Before)
      <3>1. \A m \in 1..Before : due'[m].item = due[m].item
        BY <1>1
      <3> QED BY <3>1, AllSame
    <2>3. Pairs(out) = All(due, parallel, Before)
      BY <1>1 DEF Sent
    <2>4. Pairs(out') = All(due', parallel', Before')
      BY <2>1, <2>2, <2>3
    <2> QED BY <2>4 DEF Sent
  <1> QED BY <1>2, <1>3 DEF OrderInv, ScopeInv

LEMMA NextStageStep ==
    ASSUME OrderInv, NextStage
    PROVE  OrderInv'
  <1>1. /\ Types /\ FoldedGroup /\ Committed /\ pc = "scope" /\ pc' = "scope"
        /\ views = <<>> /\ stage < Len(stages) /\ stage' = stage + 1
        /\ views' = View(scope, stages[stage + 1])
        /\ UNCHANGED <<stages, parallel, pulled, scope, ready, branch, payload, given, buffered,
                       out, nodes, due>>
    BY DEF OrderInv, ScopeInv, NextStage
  <1>2. /\ stage \in Nat /\ stage' \in Nat /\ stage' > 0 /\ stage' \in 0..Len(stages)
        /\ stages[stage'] \in {"group", "members"}
    <2>1. stage \in Nat /\ Len(stages) \in Nat
      BY <1>1, TypesFacts
    <2>2. stage' \in 1..Len(stages) /\ stages \in Seq({"group", "members"})
      BY <1>1, <2>1 DEF Types
    <2> QED BY <1>1, <2>1, <2>2
  <1>3. CASE stages[stage'] = "group"
    <2>1. views' = <<GroupView(scope)>>
      BY <1>1, <1>3 DEF View
    <2>2. GroupView(scope) \in Folded
      BY <1>1, GroupViewType
    <2>3. views' \in Seq(Plain \cup Folded) /\ Len(views') = 1
      <3> DEFINE g == GroupView(scope)
      <3> HIDE DEF g
      <3>1. g \in Plain \cup Folded
        BY <2>2 DEF g
      <3>2. <<g>> \in Seq(Plain \cup Folded) /\ Len(<<g>>) = 1
        BY <3>1
      <3> QED BY <2>1, <3>2 DEF g
    <2>4. 1 <= Size
      BY StreamConstants
    <2>5. GroupStage' /\ scope' = scope
      BY <1>1, <1>2, <1>3 DEF GroupStage
    <2>6. Types'
      BY <1>1, <1>2, <2>3, <2>4 DEF Types, TypeOK
    <2>7. Viewed'
      BY <1>2, <2>1, <2>5 DEF Viewed
    <2>8. FoldedGroup' /\ Committed' /\ Untouched'
      BY <1>1 DEF FoldedGroup, Committed, Untouched, Members, Before, Patched, OrderInv
    <2> QED BY <1>1, <2>6, <2>7, <2>8, InsideScope
  <1>4. CASE stages[stage'] # "group"
    <2>1. views' = MemberViews(scope)
      BY <1>1, <1>4 DEF View
    <2>2. /\ views' \in Seq(Plain) /\ Len(views') = Len(Members)
          /\ \A i \in 1..Len(Members) : /\ Before + i \in (Before + 1)..pulled
                                        /\ views'[i].id = <<Before + i>>
      BY <1>1, <2>1, MemberViewsType
    <2>3. Len(views') <= Size /\ views' \in Seq(Plain \cup Folded)
      BY <1>1, <2>2, StreamConstants DEF FoldedGroup
    <2>4. ~GroupStage'
      BY <1>1, <1>2, <1>4 DEF GroupStage
    <2>5. Before' = Before
      BY <1>1 DEF Before, Members
    <2>6. Types'
      BY <1>1, <1>2, <2>3 DEF Types, TypeOK
    <2>7. Viewed'
      <3>1. ASSUME NEW i \in 1..Len(views')
            PROVE  /\ views'[i] \in Plain
                   /\ \E m \in (Before' + 1)..pulled' : views'[i].id = <<m>>
        BY <1>1, <2>2, <2>5
      <3> QED BY <1>2, <2>4, <3>1 DEF Viewed
    <2>8. FoldedGroup' /\ Committed' /\ Untouched'
      BY <1>1 DEF FoldedGroup, Committed, Untouched, Members, Before, Patched, OrderInv
    <2> QED BY <1>1, <2>6, <2>7, <2>8, InsideScope
  <1> QED BY <1>3, <1>4

LEMMA TailViews ==
    ASSUME Types, Viewed, views # <<>>, views' = Tail(views),
           scope'.folded = scope.folded,
           UNCHANGED <<stages, stage, pulled>>
    PROVE  /\ views' \in Seq(Plain \cup Folded) /\ Len(views') <= Size
           /\ GroupStage => views' = <<>>
           /\ Viewed'
  <1>1. /\ views \in Seq(Plain \cup Folded) /\ Len(views) <= Size /\ Size \in Nat
        /\ views' \in Seq(Plain \cup Folded) /\ Len(views') = Len(views) - 1
        /\ \A i \in 1..Len(views') : views'[i] = views[i + 1] /\ i + 1 \in 1..Len(views)
    BY StreamConstants DEF Types, TypeOK
  <1>2. GroupStage => views' = <<>>
    <2> SUFFICES ASSUME GroupStage PROVE views' = <<>>
      OBVIOUS
    <2> DEFINE g == GroupView(scope)
    <2>1. views = <<g>>
      BY DEF Viewed
    <2> HIDE DEF g
    <2>2. Tail(<<g>>) = <<>>
      OBVIOUS
    <2> QED BY ONLY <2>1, <2>2, views' = Tail(views)
  <1>3. ~GroupStage => \A i \in 1..Len(views') :
            /\ views'[i] \in Plain
            /\ \E m \in (Before + 1)..pulled : views'[i].id = <<m>>
    BY <1>1 DEF Viewed
  <1>4. /\ GroupStage' <=> GroupStage
        /\ Before' = Before /\ stage > 0
    BY DEF GroupStage, Before, Members, Viewed
  <1>5. Viewed'
    BY <1>2, <1>3, <1>4 DEF Viewed
  <1> QED BY <1>1, <1>2, <1>5

LEMMA DropResultStep ==
    ASSUME OrderInv, DropResult
    PROVE  OrderInv'
  <1>1. /\ Types /\ FoldedGroup /\ Committed /\ Viewed /\ pc = "scope" /\ pc' = "scope"
        /\ views # <<>> /\ views' = Tail(views)
        /\ UNCHANGED <<stages, parallel, pulled, scope, stage, ready, branch, payload, given,
                       buffered, out, nodes, due>>
    BY DEF OrderInv, ScopeInv, DropResult
  <1>2. views' \in Seq(Plain \cup Folded) /\ Len(views') <= Size /\ Viewed'
    BY <1>1, TailViews
  <1>3. Types'
    BY <1>1, <1>2 DEF Types, TypeOK
  <1>4. FoldedGroup' /\ Committed' /\ Untouched'
    BY <1>1 DEF FoldedGroup, Committed, Untouched, Members, Before, Patched, OrderInv
  <1> QED BY <1>1, <1>2, <1>3, <1>4, InsideScope

(* A commit of a group stage, and one of a member stage.                   *)
LEMMA CommitCases ==
    ASSUME Types, FoldedGroup, Viewed, CommitResult
    PROVE  \/ GroupStage /\ \E env \in Folded :
                /\ scope' = [scope EXCEPT !.groupVars =
                                BatchOverrides(env, scope.folded.base) ++ scope.groupVars]
                /\ due' = [m \in 1..N |->
                             IF m \in (Before + 1)..pulled
                                /\ X \in DOMAIN env.vars /\ env.vars[X] = stage
                               THEN [due[m] EXCEPT !.x = stage] ELSE due[m]]
                /\ \/ X \in DOMAIN env.vars /\ env.vars[X] = stage
                   \/ /\ X \in DOMAIN env.vars <=> X \in DOMAIN GroupView(scope).vars
                      /\ X \in DOMAIN env.vars => env.vars[X] = GroupView(scope).vars[X]
           \/ ~GroupStage /\ \E env \in Plain, m \in (Before + 1)..pulled :
                /\ env.id = <<m>> /\ m \in 1..N
                /\ scope' = [scope EXCEPT !.patched = Only(<<m>>, env) ++ scope.patched]
                /\ due' = [due EXCEPT ![m] = [x |-> ValueOf(env), item |-> env.vars[Item]]]
  <1> DEFINE ex == Head(views)
  <1>1. views # <<>> /\ \E env \in Results(ex) : scope' = Commit(scope, env) /\ due' = Due(env)
    BY DEF CommitResult
  <1>2. PICK env \in Results(ex) : scope' = Commit(scope, env) /\ due' = Due(env)
    BY <1>1
  <1>3. /\ views \in Seq(Plain \cup Folded) /\ stage \in Nat /\ N \in Nat /\ pulled \in 0..N
        /\ Len(Members) \in Nat /\ Len(Members) <= pulled /\ Before \in Nat
        /\ Before + Len(Members) = pulled
        /\ scope.folded.id = Group
    <2>1. views \in Seq(Plain \cup Folded) /\ stage \in Nat /\ N \in Nat /\ pulled \in 0..N
      BY TypesFacts DEF Types
    <2>2. Len(Members) \in Nat /\ Len(Members) <= pulled
      BY StreamConstants DEF FoldedGroup
    <2>3. scope.folded.id = Group
      BY DEF FoldedGroup, Folded
    <2> QED BY <2>1, <2>2, <2>3 DEF Before
  <1>4. ex \in Plain \cup Folded /\ ex = views[1] /\ 1 \in 1..Len(views)
    BY <1>1, <1>3
  <1>5. /\ ex \in Plain => env \in Plain
        /\ ex \in Folded => env \in Folded
        /\ env.id = ex.id /\ env.members = ex.members
        /\ \/ X \in DOMAIN env.vars /\ env.vars[X] = stage
           \/ /\ X \in DOMAIN env.vars <=> X \in DOMAIN ex.vars
              /\ X \in DOMAIN ex.vars => env.vars[X] = ex.vars[X]
    <2> HIDE DEF ex
    <2> QED BY <1>3, <1>4, ResultType
  <1>6. CASE GroupStage
    <2>1. ex = GroupView(scope)
      <3> DEFINE g == GroupView(scope)
      <3>1. views = <<g>>
        BY <1>1, <1>6 DEF Viewed
      <3> HIDE DEF g
      <3>2. Head(<<g>>) = g
        OBVIOUS
      <3>3. ex = g
        BY ONLY <3>1, <3>2
      <3> QED BY <3>3 DEF g
    <2> HIDE DEF ex
    <2>2. ex \in Folded /\ ex.id = Group /\ ex.members = Members
      BY <2>1, GroupViewType
    <2>3. env \in Folded /\ env.id = Group /\ env.members = Members
      BY <1>5, <2>2
    <2>4. scope' = [scope EXCEPT !.groupVars =
                      BatchOverrides(env, scope.folded.base) ++ scope.groupVars]
      BY <1>2, <1>3, <2>3 DEF Commit
    <2>5. {Members[i].id[1] : i \in DOMAIN Members} = (Before + 1)..pulled
      <3>1. DOMAIN Members = 1..Len(Members)
        BY DEF FoldedGroup, Members, Folded
      <3>2. ASSUME NEW i \in 1..Len(Members) PROVE Members[i].id[1] = Before + i
        <4>1. Before + i \in 1..N
          BY <1>3
        <4>2. Members[i] = Envelope(Before + i)
          BY DEF FoldedGroup
        <4> DEFINE m == Before + i
        <4>3. Members[i].id = <<m>>
          BY <4>1, <4>2, EnvelopeType
        <4> HIDE DEF m
        <4>4. <<m>>[1] = m
          OBVIOUS
        <4> QED BY <4>3, <4>4 DEF m
      <3>3. \A m \in (Before + 1)..pulled : m - Before \in 1..Len(Members)
                                            /\ Before + (m - Before) = m
        BY <1>3
      <3>4. \A i \in 1..Len(Members) : Before + i \in (Before + 1)..pulled
        BY <1>3
      <3> QED BY <3>1, <3>2, <3>3, <3>4
    <2>6. due' = [m \in 1..N |->
                    IF m \in (Before + 1)..pulled /\ X \in DOMAIN env.vars /\ env.vars[X] = stage
                      THEN [due[m] EXCEPT !.x = stage] ELSE due[m]]
      <3>1. due' = Due(env)
        BY <1>2
      <3> QED BY <2>3, <2>5, <3>1 DEF Due
    <2>7. \/ X \in DOMAIN env.vars /\ env.vars[X] = stage
          \/ /\ X \in DOMAIN env.vars <=> X \in DOMAIN GroupView(scope).vars
             /\ X \in DOMAIN env.vars => env.vars[X] = GroupView(scope).vars[X]
      BY <1>5, <2>1
    <2> QED BY <1>6, <2>3, <2>4, <2>6, <2>7
  <1>7. CASE ~GroupStage
    <2>1. PICK m \in (Before + 1)..pulled : views[1] \in Plain /\ views[1].id = <<m>>
      BY <1>1, <1>4, <1>7 DEF Viewed
    <2> HIDE DEF ex
    <2>2. env \in Plain /\ env.id = <<m>>
      BY <1>4, <1>5, <2>1
    <2>3. m \in 1..N /\ m # 0
      BY <1>3
    <2>4. <<m>> # Group /\ <<m>>[1] = m
      BY <2>3 DEF Group
    <2>5. env.id # Group /\ env.id[1] = m
      BY <2>2, <2>4
    <2>6. scope' = [scope EXCEPT !.patched = Only(<<m>>, env) ++ scope.patched]
      BY <1>2, <1>3, <2>2, <2>5 DEF Commit
    <2>7. due' = [due EXCEPT ![m] = [x |-> ValueOf(env), item |-> env.vars[Item]]]
      BY <1>2, <2>5 DEF Due
    <2> QED BY <1>7, <2>2, <2>3, <2>6, <2>7
  <1> QED BY <1>6, <1>7

LEMMA ValueType ==
    ASSUME NEW e \in Plain \cup Folded
    PROVE  ValueOf(e) \in Values \cup {None}
  <1>1. e.vars \in Vars
    BY EitherFacts
  <1> QED BY <1>1, VarsFacts DEF ValueOf

LEMMA CommitResultStep ==
    ASSUME OrderInv, CommitResult
    PROVE  OrderInv'
  <1>1. /\ Types /\ FoldedGroup /\ Committed /\ Viewed /\ Untouched /\ pc = "scope" /\ pc' = "scope"
        /\ views # <<>> /\ views' = Tail(views)
        /\ UNCHANGED <<stages, parallel, pulled, stage, ready, branch, payload, given,
                       buffered, out, nodes>>
    BY DEF OrderInv, ScopeInv, CommitResult
  <1>2. /\ stage \in Nat /\ N \in Nat /\ pulled \in 0..N /\ Before \in Nat /\ Before <= pulled
        /\ scope \in [folded : Folded, groupVars : Vars, patched : Patches]
        /\ due \in [1..N -> [x : Values \cup {None}, item : Seq(Int)]]
    BY <1>1, TypesFacts DEF Types, TypeOK, FoldedGroup, Before
  <1>3. ASSUME GroupStage,
               NEW env \in Folded,
               scope' = [scope EXCEPT !.groupVars =
                           BatchOverrides(env, scope.folded.base) ++ scope.groupVars],
               due' = [m \in 1..N |->
                         IF m \in (Before + 1)..pulled
                            /\ X \in DOMAIN env.vars /\ env.vars[X] = stage
                           THEN [due[m] EXCEPT !.x = stage] ELSE due[m]]
        PROVE  OrderInv'
    <2> DEFINE o == BatchOverrides(env, scope.folded.base)
               v == o ++ scope.groupVars
    <2>1. o \in Vars /\ Item \notin DOMAIN o
      <3>1. scope.folded.base \in Vars
        BY <1>2 DEF Folded
      <3> QED BY <3>1, OverridesType
    <2>2. v \in Vars /\ Item \notin DOMAIN v
      <3> HIDE DEF o
      <3>1. scope.groupVars \in Vars /\ Item \notin DOMAIN scope.groupVars
        BY <1>1 DEF FoldedGroup
      <3> QED BY ONLY <2>1, <3>1, SpreadType
    <2>3. scope' = [scope EXCEPT !.groupVars = v]
      BY <1>3
    <2> HIDE DEF v, o
    <2>4. /\ scope' \in [folded : Folded, groupVars : Vars, patched : Patches]
          /\ scope'.folded = scope.folded /\ scope'.groupVars = v /\ scope'.patched = scope.patched
      BY <1>2, <2>2, <2>3
    <2>5. /\ due' \in [1..N -> [x : Values \cup {None}, item : Seq(Int)]]
          /\ \A m \in 1..N : due'[m].item = due[m].item
          /\ \A m \in 1..N : m > pulled => due'[m] = due[m]
      <3>1. stage \in Values
        BY <1>2 DEF Values
      <3>2. \A m \in 1..N : /\ [due[m] EXCEPT !.x = stage] \in [x : Values \cup {None}, item : Seq(Int)]
                            /\ [due[m] EXCEPT !.x = stage].item = due[m].item
        BY <1>2, <3>1
      <3>3. \A m \in 1..N : m > pulled => m \notin (Before + 1)..pulled
        BY <1>2
      <3> QED BY <1>2, <1>3, <3>2, <3>3
    <2>6. views' \in Seq(Plain \cup Folded) /\ Len(views') <= Size /\ Viewed'
      BY <1>1, <2>4, TailViews
    <2>7. Members' = Members /\ Before' = Before /\ \A m : Patched(m)' <=> Patched(m)
      BY <1>1, <2>4 DEF Members, Before, Patched
    <2>8. Types'
      BY <1>1, <2>5, <2>6 DEF Types, TypeOK
    <2>9. FoldedGroup'
      BY <1>1, <2>2, <2>4, <2>7 DEF FoldedGroup
    <2>10. Committed'
      <3>1. \A m \in (Before + 1)..pulled : due'[m].item = due[m].item
        BY <1>2, <2>5
      <3> QED BY <1>1, <2>4, <2>7, <3>1 DEF Committed, Patched
    <2>11. Untouched'
      BY <1>1, <2>5 DEF Untouched
    <2> QED BY <1>1, <2>4, <2>5, <2>6, <2>8, <2>9, <2>10, <2>11, InsideScope
  <1>4. ASSUME ~GroupStage,
               NEW env \in Plain, NEW m \in (Before + 1)..pulled, env.id = <<m>>, m \in 1..N,
               scope' = [scope EXCEPT !.patched = Only(<<m>>, env) ++ scope.patched],
               due' = [due EXCEPT ![m] = [x |-> ValueOf(env), item |-> env.vars[Item]]]
        PROVE  OrderInv'
    <2> DEFINE id == <<m>>
               p == Only(id, env) ++ scope.patched
    <2>1. id \in Seq(Int)
      BY <1>4
    <2>2. /\ p \in Patches /\ DOMAIN p = {id} \cup DOMAIN scope.patched /\ p[id] = env
          /\ \A k \in DOMAIN scope.patched : k # id => p[k] = scope.patched[k]
      <3> HIDE DEF id
      <3>1. PICK D \in SUBSET Seq(Int) : scope.patched \in [D -> Plain]
        BY <1>2 DEF Patches
      <3>2. /\ DOMAIN p = {id} \cup D /\ p[id] = env
            /\ \A k \in D : k # id => p[k] = scope.patched[k]
        BY <3>1 DEF ++, Only
      <3>3. p \in [{id} \cup D -> Plain]
        BY <1>4, <3>1 DEF ++, Only
      <3>4. {id} \cup D \in SUBSET Seq(Int)
        BY <2>1
      <3> HIDE DEF p
      <3> QED BY <3>1, <3>2, <3>3, <3>4 DEF Patches
    <2>3. scope' = [scope EXCEPT !.patched = p]
      BY <1>4
    <2> HIDE DEF p
    <2>4. /\ scope' \in [folded : Folded, groupVars : Vars, patched : Patches]
          /\ scope'.folded = scope.folded /\ scope'.groupVars = scope.groupVars
          /\ scope'.patched = p
      BY <1>2, <2>2, <2>3
    <2>5. /\ due' \in [1..N -> [x : Values \cup {None}, item : Seq(Int)]]
          /\ \A n \in 1..N : n # m => due'[n] = due[n]
          /\ due'[m].item = env.vars[Item]
      <3> DEFINE d == [x |-> ValueOf(env), item |-> env.vars[Item]]
      <3>1. d \in [x : Values \cup {None}, item : Seq(Int)] /\ d.item = env.vars[Item]
        <4>1. env \in Plain \cup Folded
          BY <1>4
        <4>2. ValueOf(env) \in Values \cup {None} /\ env.vars[Item] \in Seq(Int)
          BY <4>1, ValueType, EitherFacts
        <4> QED BY <4>2
      <3>2. due' = [due EXCEPT ![m] = d]
        BY <1>4
      <3> HIDE DEF d
      <3> QED BY <1>2, <1>4, <3>1, <3>2
    <2>6. views' \in Seq(Plain \cup Folded) /\ Len(views') <= Size /\ Viewed'
      BY <1>1, <2>4, TailViews
    <2>7. Members' = Members /\ Before' = Before /\ \A n : Patched(n)' <=> (<<n>> = id \/ Patched(n))
      BY <1>1, <2>2, <2>4 DEF Members, Before, Patched
    <2>8. Types'
      BY <1>1, <2>5, <2>6 DEF Types, TypeOK
    <2>9. FoldedGroup'
      BY <1>1, <2>4, <2>7 DEF FoldedGroup
    <2>10. \A n : <<n>> = id <=> n = m
      <3>1. \A n : <<n>>[1] = n
        OBVIOUS
      <3> QED BY <3>1
    <2>11. Committed'
      <3>1. \A k \in DOMAIN scope'.patched : \E n \in (Before' + 1)..pulled' : k = <<n>>
        BY <1>1, <1>4, <2>2, <2>4, <2>7 DEF Committed
      <3>2. ASSUME NEW n \in (Before + 1)..pulled, n = m
            PROVE  /\ Patched(n)' /\ scope'.patched[<<n>>].id = <<n>>
                   /\ scope'.patched[<<n>>].vars[Item] = due'[n].item
        BY <1>4, <2>2, <2>4, <2>5, <2>7, <3>2
      <3>3. ASSUME NEW n \in (Before + 1)..pulled, n # m
            PROVE  /\ Patched(n)' => /\ scope'.patched[<<n>>].id = <<n>>
                                     /\ scope'.patched[<<n>>].vars[Item] = due'[n].item
                   /\ ~Patched(n)' => due'[n].item = <<n>>
        <4>1. n \in 1..N /\ <<n>> # id
          BY <1>2, <2>10, <3>3
        <4>2. due'[n] = due[n] /\ (Patched(n)' <=> Patched(n))
          BY <2>5, <2>7, <3>3, <4>1
        <4>3. Patched(n) => scope'.patched[<<n>>] = scope.patched[<<n>>]
          BY <2>2, <2>4, <4>1 DEF Patched
        <4> QED BY <1>1, <4>2, <4>3 DEF Committed
      <3>4. \A n \in (Before' + 1)..pulled' :
              /\ Patched(n)' => /\ scope'.patched[<<n>>].id = <<n>>
                                /\ scope'.patched[<<n>>].vars[Item] = due'[n].item
              /\ ~Patched(n)' => due'[n].item = <<n>>
        BY <1>1, <2>7, <3>2, <3>3
      <3> QED BY <3>1, <3>4 DEF Committed
    <2>12. \A n \in 1..N : n <= Before \/ n > pulled => due'[n] = due[n]
      BY <1>2, <1>4, <2>5
    <2>13. Untouched'
      BY <1>1, <2>12 DEF Untouched
    <2>14. \A n \in 1..N : n <= Before => due'[n].item = due[n].item
      BY <2>12
    <2> QED BY <1>1, <2>4, <2>6, <2>8, <2>9, <2>11, <2>13, <2>14, InsideScope
  <1> QED BY <1>1, <1>3, <1>4, CommitCases

LEMMA LeaveScopeStep ==
    ASSUME OrderInv, LeaveScope
    PROVE  OrderInv'
  <1>1. /\ Types /\ FoldedGroup /\ Committed /\ Untouched /\ ReadyInOrder /\ Branching /\ Sent
        /\ pc = "scope" /\ branch = Idle
    BY DEF OrderInv, ScopeInv, LeaveScope, Branching
  <1>2. CASE /\ nodes' = Marked(BatchNode, "done")
             /\ ready' = Result(scope)
             /\ pc' = "fork"
    <2>1. UNCHANGED <<stages, parallel, pulled, scope, stage, views, branch, payload, given,
                      buffered, out, due>>
      BY DEF LeaveScope
    <2>2. /\ ready' \in Seq(Plain) /\ Len(ready') = Len(Members)
          /\ \A i \in 1..Len(Members) : /\ ready'[i].id = <<Before + i>>
                                        /\ ready'[i].vars[Item] = due[Before + i].item
      BY <1>1, <1>2, MemberViewsType DEF Result
    <2>3. /\ Len(ready') <= Size /\ Len(ready') <= pulled' /\ Through' = Before
      BY <1>1, <2>1, <2>2, StreamConstants DEF FoldedGroup, Through, Before
    <2>4. \A n \in DOMAIN nodes' : nodes'[n] \in {"in-progress", "done", "failed"}
      BY <1>1, <1>2, MarkedType DEF Types
    <2>5. Types'
      BY <1>1, <1>2, <2>1, <2>2, <2>3, <2>4 DEF Types, TypeOK
    <2>6. ReadyInOrder'
      BY <1>2, <2>1, <2>2, <2>3 DEF ReadyInOrder
    <2>7. Branching'
      BY <1>1, <1>2, <2>1 DEF Branching
    <2>8. Sent'
      <3>1. Pairs(out) = All(due, parallel, Before)
        BY <1>1 DEF Sent
      <3>2. Pairs(out') = All(due', parallel', Through')
        BY <2>1, <2>3, <3>1
      <3>3. branch'[1] = "idle"
        BY <1>1, <2>1, StreamConstants DEF Idle
      <3> QED BY <1>2, <3>2, <3>3 DEF Sent
    <2>9. Untouched' /\ ScopeInv'
      BY <1>1, <1>2, <2>1 DEF Untouched, ScopeInv
    <2> QED BY <2>5, <2>6, <2>7, <2>8, <2>9 DEF OrderInv
  <1>3. CASE /\ nodes' = Marked(BatchNode, "failed")
             /\ Fails
             /\ UNCHANGED ready
    <2>1. \A n \in DOMAIN nodes' : nodes'[n] \in {"in-progress", "done", "failed"}
      BY <1>1, <1>3, MarkedType DEF Types
    <2> QED BY <1>3, <2>1, Failing DEF LeaveScope
  <1> QED BY <1>2, <1>3 DEF LeaveScope

LEMMA ReadyHead ==
    ASSUME Types, ReadyInOrder, ready # <<>>
    PROVE  /\ Head(ready) \in Plain /\ Head(ready) = ready[1] /\ Turn \in 1..N
           /\ Head(ready).id = <<Turn>> /\ Head(ready).vars[Item] = due[Turn].item
           /\ due[Turn].item \in Seq(Int)
  <1>1. ready \in Seq(Plain) /\ Len(ready) \in Nat /\ Len(ready) # 0 /\ Len(ready) <= pulled
        /\ pulled \in 0..N /\ N \in Nat
    BY TypesFacts DEF Types, ReadyInOrder
  <1>2. Head(ready) \in Plain /\ Head(ready) = ready[1] /\ 1 \in 1..Len(ready)
    BY <1>1
  <1>3. Turn = Through + 1 /\ Turn \in 1..N
    BY <1>1 DEF Turn, Through
  <1>4. ready[1].id = <<Turn>> /\ ready[1].vars[Item] = due[Turn].item
    BY <1>2, <1>3 DEF ReadyInOrder
  <1> QED BY <1>2, <1>3, <1>4, TypesFacts

(* What a step of the fork that passes nothing on leaves alone.            *)
LEMMA InsideFork ==
    ASSUME OrderInv, pc = "fork", pc' = "fork", Types', Branching',
           UNCHANGED <<stages, parallel, pulled, ready, buffered, out, due>>,
           ~parallel => /\ branch[1] # "marked"
                        /\ branch'[1] # "idle" => given' = 0
    PROVE  OrderInv'
  <1>1. Types /\ Untouched /\ ReadyInOrder /\ Sent
    BY DEF OrderInv
  <1>2. Untouched' /\ ReadyInOrder' /\ Through' = Through
    BY <1>1 DEF Untouched, ReadyInOrder, Through
  <1>3. Pairs(out') = All(due', parallel', Through')
    <2>1. Pairs(out) = All(due, parallel, Through)
      BY <1>1 DEF Sent
    <2> QED BY <1>2, <2>1
  <1>4. Sent'
    <2>1. CASE parallel \/ branch'[1] # "marked"
      BY <1>3, <2>1 DEF Sent
    <2>2. CASE ~parallel /\ branch'[1] = "marked"
      <3>1. given' = 0 /\ Turn' = Turn
        BY <1>2, <2>2 DEF Turn
      <3>2. ready' # <<>> /\ Children[1] \in Nat
        <4>1. branch' # Idle
          BY <2>2, StreamConstants DEF Idle
        <4>2. 1 \in 1..Branches
          BY StreamConstants
        <4> QED BY <1>1, <4>1, <4>2, TypesFacts DEF Branching
      <3>3. Part' = <<>>
        <4>1. Row(Turn', 1, due'[Turn'].item) \in Seq(Pair)
          <5>1. Turn \in 1..N /\ due[Turn].item \in Seq(Int) /\ 1 \in 1..Branches
            BY <1>1, <3>2, ReadyHead, StreamConstants
          <5>2. Turn \in Int
            BY <5>1
          <5>3. Row(Turn, 1, due[Turn].item) \in Seq(Pair)
            BY <5>1, <5>2, RowType
          <5> QED BY <3>1, <5>3
        <4> DEFINE r == Row(Turn', 1, due'[Turn'].item)
        <4> HIDE DEF r
        <4>2. r \in Seq(Pair)
          BY <4>1 DEF r
        <4>3. SubSeq(r, 1, 0) = <<>>
          BY <4>2
        <4>4. Part' = SubSeq(r, 1, given')
          BY DEF Part, r
        <4> QED BY <3>1, <4>3, <4>4
      <3>4. All(due', parallel', Through') \o Part' = Pairs(out')
        <4> DEFINE a == Pairs(out')
        <4>1. a \in Seq(Pair)
          BY PairsType DEF Types
        <4> HIDE DEF a
        <4>2. a \o <<>> = a
          BY <4>1, ConcatEmptySeq
        <4>3. All(due', parallel', Through') \o Part' = a \o <<>>
          BY <1>3, <3>3 DEF a
        <4> QED BY <4>2, <4>3 DEF a
      <3>5. given' <= Children[1]
        BY <3>1, <3>2
      <3> QED BY <2>2, <3>4, <3>5 DEF Sent, Part
    <2> QED BY <2>1, <2>2
  <1> QED BY <1>2, <1>4 DEF OrderInv, ScopeInv

LEMMA EnterForkStep ==
    ASSUME OrderInv, EnterFork
    PROVE  OrderInv'
  <1>1. /\ Types /\ Branching /\ ReadyInOrder /\ pc = "fork" /\ pc' = "fork"
        /\ ready # <<>> /\ branch = Idle /\ given' = 0
        /\ branch' = [b \in 1..Branches |-> IF b \in Yields THEN "fresh" ELSE "idle"]
        /\ payload' = [b \in 1..Branches |-> Head(ready).vars[Item]]
        /\ nodes' = [n \in {ForkNode(b) : b \in Yields} |-> "in-progress"] ++ nodes
        /\ UNCHANGED <<stages, parallel, pc, pulled, scope, stage, views, ready, buffered, out, due>>
    BY DEF OrderInv, EnterFork
  <1>2. 1 \in 1..Branches /\ parallel \in BOOLEAN
    BY <1>1, StreamConstants, TypesFacts
  <1>3. Head(ready).vars[Item] = due[Turn].item /\ due[Turn].item \in Seq(Int)
    BY <1>1, ReadyHead
  <1>4. payload' \in [1..Branches -> Seq(Int)]
        /\ \A b \in 1..Branches : payload'[b] = due[Turn].item
    BY <1>1, <1>3
  <1>5. /\ branch' \in [1..Branches -> {"idle", "fresh", "marked", "ended", "failed"}]
        /\ parallel => \A b \in 1..Branches : branch'[b] = "fresh"
        /\ ~parallel => /\ branch'[1] = "fresh"
                        /\ \A b \in 1..Branches : b # 1 => branch'[b] = "idle"
        /\ \A b \in 1..Branches : branch'[b] \in {"fresh", "idle"}
        /\ branch[1] = "idle"
    BY <1>1, <1>2 DEF Yields, Idle
  <1>6. \A n \in DOMAIN nodes' : nodes'[n] \in {"in-progress", "done", "failed"}
    <2>1. \A n \in DOMAIN nodes : nodes[n] \in {"in-progress", "done", "failed"}
      BY <1>1 DEF Types, TypeOK
    <2> DEFINE S == {ForkNode(b) : b \in Yields}
    <2>2. nodes' = [n \in S |-> "in-progress"] ++ nodes
      BY <1>1
    <2> HIDE DEF S
    <2> QED BY <2>1, <2>2 DEF ++
  <1>7. Types'
    BY <1>1, <1>4, <1>5, <1>6 DEF Types, TypeOK
  <1>8. Branching'
    <2>1. Turn' = Turn /\ due' = due
      BY <1>1 DEF Turn, Through
    <2> QED BY <1>1, <1>4, <1>5, <2>1 DEF Branching
  <1> QED BY <1>1, <1>5, <1>7, <1>8, InsideFork

LEMMA BranchStep ==
    ASSUME OrderInv, NEW b \in 1..Branches, BranchWrites(b) \/ BranchEnds(b) \/ BranchFails(b)
    PROVE  OrderInv'
  <1>1. /\ Types /\ Branching /\ ReadyInOrder /\ pc = "fork" /\ pc' = "fork"
        /\ UNCHANGED <<stages, parallel, pulled, scope, stage, views, ready, given, buffered, out,
                       nodes, due>>
        /\ branch \in [1..Branches -> {"idle", "fresh", "marked", "ended", "failed"}]
        /\ payload \in [1..Branches -> Seq(Int)]
    BY DEF OrderInv, BranchWrites, BranchEnds, BranchFails, Types, TypeOK
  <1>2. Turn' = Turn /\ 1 \in 1..Branches
    BY <1>1, StreamConstants DEF Turn, Through
  <1>3. branch # Idle /\ branch[b] # "idle" /\ (~parallel => b = 1)
    <2>1. branch[b] # "idle"
      BY DEF BranchWrites, BranchEnds, BranchFails
    <2>2. branch # Idle
      BY <2>1 DEF Idle
    <2> QED BY <1>1, <2>1, <2>2 DEF Branching
  <1>4. CASE BranchWrites(b)
    <2>1. /\ branch[b] = "fresh" /\ branch' = [branch EXCEPT ![b] = "marked"]
          /\ payload' = [c \in 1..Branches |-> IF c = b THEN Append(payload[c], b) ELSE payload[c]]
      BY <1>4 DEF BranchWrites, Reached
    <2>2. payload' \in [1..Branches -> Seq(Int)]
      BY <1>1, <2>1
    <2>3. Types'
      BY <1>1, <2>1, <2>2 DEF Types, TypeOK
    <2>4. Branching'
      <3>1. ready' # <<>> /\ branch'[b] = "marked" /\ payload'[b] = Append(due'[Turn'].item, b)
        BY <1>1, <1>2, <1>3, <2>1 DEF Branching
      <3>2. \A c \in 1..Branches : c # b => branch'[c] = branch[c] /\ payload'[c] = payload[c]
        BY <1>1, <2>1
      <3> QED BY <1>1, <1>2, <1>3, <3>1, <3>2 DEF Branching
    <2>5. ~parallel => given = 0 /\ branch[1] = "fresh"
      BY <1>1, <1>3, <2>1 DEF OrderInv, Sent
    <2> QED BY <1>1, <2>3, <2>4, <2>5, InsideFork
  <1>5. CASE (BranchEnds(b) \/ BranchFails(b))
    <2>1. /\ parallel /\ payload' = payload
          /\ \/ branch[b] = "marked" /\ branch' = [branch EXCEPT ![b] = "ended"]
             \/ branch' = [branch EXCEPT ![b] = "failed"]
      BY <1>5 DEF BranchEnds, BranchFails
    <2>2. Types'
      BY <1>1, <2>1 DEF Types, TypeOK
    <2>3. Branching'
      <3>1. /\ ready' # <<>>
            /\ branch'[b] = "failed" \/ (branch'[b] = "ended" /\ branch[b] = "marked")
        BY <1>1, <1>3, <2>1 DEF Branching
      <3>2. \A c \in 1..Branches : c # b => branch'[c] = branch[c]
        BY <1>1, <2>1
      <3>3. parallel'
        BY <1>1, <2>1
      <3> QED BY <1>1, <1>2, <1>3, <2>1, <3>1, <3>2, <3>3 DEF Branching
    <2> QED BY <1>1, <2>1, <2>2, <2>3, InsideFork
  <1> QED BY <1>4, <1>5

LEMMA NextGroupStep ==
    ASSUME OrderInv, NextGroup
    PROVE  OrderInv'
  <1>1. /\ Types /\ Untouched /\ ReadyInOrder /\ Branching /\ Sent
        /\ pc = "fork" /\ pc' = "group" /\ ready = <<>>
        /\ UNCHANGED <<stages, parallel, pulled, scope, stage, views, ready, branch, payload, given,
                       buffered, out, nodes, due>>
    BY DEF OrderInv, NextGroup
  <1>2. branch = Idle /\ branch[1] = "idle"
    BY <1>1, StreamConstants DEF Branching, Idle
  <1>3. Through = pulled
    BY <1>1, TypesFacts DEF Through
  <1>4. Pairs(out) = All(due, parallel, pulled)
    BY <1>1, <1>2, <1>3 DEF Sent
  <1>5. Pairs(out') = All(due', parallel', pulled')
    BY <1>1, <1>4
  <1>6. Sent'
    BY <1>1, <1>5 DEF Sent
  <1>7. Types' /\ Untouched' /\ ReadyInOrder' /\ Branching' /\ ScopeInv'
    BY <1>1, <1>2 DEF Types, TypeOK, Untouched, ReadyInOrder, Branching, ScopeInv, Through
  <1> QED BY <1>6, <1>7 DEF OrderInv

LEMMA FinishStep ==
    ASSUME OrderInv, Finish
    PROVE  OrderInv'
  <1>1. /\ Types /\ Untouched /\ ReadyInOrder /\ Branching /\ Sent
        /\ pc = "group" /\ pc' = "done" /\ pulled = N /\ ready = <<>>
        /\ UNCHANGED <<stages, parallel, pulled, scope, stage, views, ready, branch, payload, given,
                       buffered, out, nodes, due>>
    BY DEF OrderInv, Finish, ReadyInOrder
  <1>2. Pairs(out) = All(due, parallel, N)
    BY <1>1 DEF Sent
  <1>3. Pairs(out') = All(due', parallel', N)
    BY <1>1, <1>2
  <1>4. Sent'
    BY <1>1, <1>3 DEF Sent
  <1>5. Types' /\ Untouched' /\ ReadyInOrder' /\ Branching' /\ ScopeInv'
    BY <1>1 DEF Types, TypeOK, Untouched, ReadyInOrder, Branching, ScopeInv, Through
  <1> QED BY <1>4, <1>5 DEF OrderInv

(* The fork is through with an envelope: the next one's turn.              *)
LEMMA TailReady ==
    ASSUME Types, ReadyInOrder, ready # <<>>, ready' = Tail(ready),
           UNCHANGED <<pulled, due>>, pc' \in {"fork", "emit"}
    PROVE  /\ ready' \in Seq(Plain) /\ Len(ready') <= Size /\ Through' = Turn
           /\ Through \in 0..N /\ Turn \in 1..N /\ Turn = Through + 1
           /\ \A i \in 1..Len(ready') : ready'[i] = ready[i + 1] /\ Through' + i = Through + (i + 1)
                                        /\ i + 1 \in 1..Len(ready)
           /\ ReadyInOrder'
  <1>1. /\ ready \in Seq(Plain) /\ Len(ready) \in Nat /\ Len(ready) # 0 /\ Len(ready) <= pulled
        /\ pulled \in 0..N /\ N \in Nat /\ Len(ready) <= Size /\ Size \in Nat
    BY TypesFacts, StreamConstants DEF Types, TypeOK, ReadyInOrder
  <1>2. /\ ready' \in Seq(Plain) /\ Len(ready') = Len(ready) - 1
        /\ \A i \in 1..Len(ready') : ready'[i] = ready[i + 1] /\ i + 1 \in 1..Len(ready)
    BY <1>1
  <1>3. /\ Through' = Turn /\ Through \in 0..N /\ Turn \in 1..N /\ Turn = Through + 1
        /\ Len(ready') <= Size /\ Len(ready') <= pulled'
    BY <1>1, <1>2 DEF Through, Turn
  <1>4. \A i \in 1..Len(ready') : Through' + i = Through + (i + 1)
    BY <1>1, <1>2, <1>3
  <1>5. ASSUME NEW i \in 1..Len(ready')
        PROVE  /\ ready'[i].id = <<Through' + i>>
               /\ ready'[i].vars[Item] = due'[Through' + i].item
    <2> DEFINE j == i + 1
    <2>1. j \in 1..Len(ready) /\ ready'[i] = ready[j] /\ Through' + i = Through + j
      BY <1>2, <1>4
    <2> HIDE DEF j
    <2>2. ready[j].id = <<Through + j>> /\ ready[j].vars[Item] = due[Through + j].item
      BY <2>1 DEF ReadyInOrder
    <2> QED BY <2>1, <2>2
  <1>6. ReadyInOrder'
    BY <1>3, <1>5 DEF ReadyInOrder
  <1> QED BY <1>2, <1>3, <1>4, <1>6

LEMMA AllTurn ==
    ASSUME Types, Through \in 0..N, Turn \in 1..N, Turn = Through + 1
    PROVE  All(due, parallel, Turn) = All(due, parallel, Through) \o Rows(due, parallel, Turn)
  <1>1. Items(due) /\ parallel \in BOOLEAN /\ N \in Nat /\ Through \in Nat /\ Through + 1 <= N
    BY TypesFacts
  <1> QED BY <1>1, AllStep

LEMMA PassOnStep ==
    ASSUME OrderInv, PassOn
    PROVE  OrderInv'
  <1>1. /\ Types /\ Untouched /\ ReadyInOrder /\ Branching /\ Sent
        /\ pc = "fork" /\ pc' = "fork" /\ ~parallel /\ branch[1] = "marked" /\ given < Children[1]
        /\ out' = Append(out, Outputs(1)[given + 1]) /\ given' = given + 1
        /\ UNCHANGED <<stages, parallel, pc, pulled, scope, stage, views, ready, branch, payload,
                       buffered, nodes, due>>
    BY DEF OrderInv, PassOn
  <1>2. /\ 1 \in 1..Branches /\ branch # Idle /\ given \in Nat /\ Children[1] \in Nat
        /\ given + 1 \in 1..Children[1] /\ out \in Seq(Plain)
    <2>1. 1 \in 1..Branches /\ given \in Nat
      BY <1>1, StreamConstants, TypesFacts
    <2> QED BY <1>1, <2>1, TypesFacts DEF Idle, Types
  <1>3. ready # <<>> /\ payload[1] = Append(due[Turn].item, 1)
    BY <1>1, <1>2 DEF Branching
  <1>4. /\ Head(ready) \in Plain /\ Turn \in 1..N /\ Head(ready).id = <<Turn>>
        /\ due[Turn].item \in Seq(Int) /\ payload[1] \in Seq(Int)
    BY <1>1, <1>2, <1>3, ReadyHead
  <1> DEFINE e == Outputs(1)[given + 1]
  <1>5. e \in Plain /\ e.id = <<Turn, 1, given + 1>> /\ e.vars[Item] = Append(due[Turn].item, 1)
    <2>1. /\ Outputs(1) \in Seq(Plain) /\ Len(Outputs(1)) = Children[1]
          /\ \A i \in 1..Children[1] : /\ Outputs(1)[i].id = <<Turn, 1, i>>
                                       /\ Outputs(1)[i].vars[Item] = payload[1]
      BY <1>2, <1>4, OutputsType
    <2> QED BY <1>2, <1>3, <2>1
  <1> HIDE DEF e
  <1>6. out' = Append(out, e) /\ out' \in Seq(Plain)
    BY <1>1, <1>2, <1>5 DEF e
  <1>7. Types'
    BY <1>1, <1>2, <1>6 DEF Types, TypeOK
  <1>8. Sent'
    <2> DEFINE p == <<<<Turn, 1, given + 1>>, Append(due[Turn].item, 1)>>
               a == All(due, parallel, Through)
               r == Row(Turn, 1, due[Turn].item)
    <2>1. /\ Part \in Seq(Pair) /\ Through \in 0..N /\ SubSeq(r, 1, given + 1) = Append(Part, p)
      <3>1. Types /\ ReadyInOrder /\ ready # <<>> /\ ~parallel /\ given <= Children[1]
        BY <1>1, <1>2, <1>3
      <3> HIDE DEF r, p
      <3>2. /\ Part \in Seq(Pair) /\ Through \in 0..N
            /\ SubSeq(Row(Turn, 1, due[Turn].item), 1, given + 1)
                 = Append(Part, <<<<Turn, 1, given + 1>>, Append(due[Turn].item, 1)>>)
        BY ONLY <1>1, <3>1, PartOfRow
      <3> QED BY ONLY <3>2 DEF r, p
    <2>2. a \in Seq(Pair)
      BY <1>1, <2>1, TypesFacts, AllStep
    <2>3. Pairs(out) = a \o Part
      BY <1>1 DEF Sent, Part
    <2>4. Pairs(out') = Append(Pairs(out), p)
      BY <1>2, <1>5, <1>6, PairsAppend
    <2>5. p \in Pair
      <3>1. e \in Plain \cup Folded
        BY <1>5
      <3>2. p = <<e.id, e.vars[Item]>>
        BY <1>5
      <3> HIDE DEF p
      <3> QED BY <3>1, <3>2, EitherFacts DEF Pair
    <2> HIDE DEF p, a, r
    <2>6. Append(a \o Part, p) = a \o Append(Part, p)
      <3> DEFINE t == Part
      <3>1. t \in Seq(Pair)
        BY <2>1
      <3> HIDE DEF t
      <3>2. Append(a \o t, p) = a \o Append(t, p)
        BY <2>2, <2>5, <3>1
      <3> QED BY <3>2 DEF t
    <2>7. Pairs(out') = a \o SubSeq(r, 1, given + 1)
      BY <2>1, <2>3, <2>4, <2>6
    <2>8. Through' = Through /\ Turn' = Turn
      BY <1>1 DEF Through, Turn
    <2>9. Pairs(out') = All(due', parallel', Through')
                          \o SubSeq(Row(Turn', 1, due'[Turn'].item), 1, given')
      BY <1>1, <2>7, <2>8 DEF a, r
    <2> QED BY <1>1, <1>2, <2>9 DEF Sent
  <1>9. Untouched' /\ ReadyInOrder' /\ Branching' /\ ScopeInv'
    <2>1. Through' = Through /\ Turn' = Turn
      BY <1>1 DEF Through, Turn
    <2> QED BY <1>1, <2>1 DEF Untouched, ReadyInOrder, Branching, ScopeInv
  <1> QED BY <1>7, <1>8, <1>9 DEF OrderInv

LEMMA ChildEndsStep ==
    ASSUME OrderInv, ChildEnds
    PROVE  OrderInv'
  <1>1. /\ Types /\ Untouched /\ ReadyInOrder /\ Branching /\ Sent
        /\ pc = "fork" /\ ~parallel /\ branch[1] = "marked" /\ given = Children[1]
        /\ UNCHANGED <<stages, parallel, pulled, scope, stage, views, payload, given, buffered,
                       out, due>>
    BY DEF OrderInv, ChildEnds
  <1>2. 1 \in 1..Branches /\ branch # Idle /\ ready # <<>> /\ Children[1] \in Nat
    <2>1. 1 \in 1..Branches
      BY StreamConstants
    <2>2. branch # Idle
      BY <1>1, <2>1 DEF Idle
    <2> QED BY <1>1, <2>1, <2>2, TypesFacts DEF Branching
  <1>3. CASE /\ nodes' = Marked(ForkNode(1), "done")
             /\ ready' = Tail(ready)
             /\ branch' = Idle
             /\ UNCHANGED pc
    <2>1. /\ ready' \in Seq(Plain) /\ Len(ready') <= Size /\ Through' = Turn
          /\ Through \in 0..N /\ Turn \in 1..N /\ Turn = Through + 1
          /\ ReadyInOrder'
      BY <1>1, <1>2, <1>3, TailReady
    <2>2. Pairs(out) = All(due, parallel, Turn)
      <3>1. Pairs(out) = All(due, parallel, Through) \o Part
        BY <1>1 DEF Sent, Part
      <3>2. Part = Rows(due, parallel, Turn)
        <4>1. given <= Children[1]
          BY <1>1, <1>2
        <4> QED BY <1>1, <1>2, <4>1, PartOfRow
      <3>3. All(due, parallel, Turn) = All(due, parallel, Through) \o Rows(due, parallel, Turn)
        BY <1>1, <2>1, AllTurn
      <3> QED BY ONLY <3>1, <3>2, <3>3
    <2>3. Pairs(out') = All(due', parallel', Through')
      BY <1>1, <2>1, <2>2
    <2>4. branch'[1] = "idle" /\ branch' \in [1..Branches -> {"idle", "fresh", "marked", "ended", "failed"}]
      BY <1>2, <1>3 DEF Idle
    <2>5. Sent'
      BY <1>1, <1>3, <2>3, <2>4 DEF Sent
    <2>6. \A n \in DOMAIN nodes' : nodes'[n] \in {"in-progress", "done", "failed"}
      BY <1>1, <1>3, MarkedType DEF Types
    <2>7. Types'
      BY <1>1, <1>3, <2>1, <2>4, <2>6 DEF Types, TypeOK
    <2>8. Untouched' /\ Branching' /\ ScopeInv'
      BY <1>1, <1>3 DEF Untouched, Branching, ScopeInv
    <2> QED BY <2>1, <2>5, <2>7, <2>8 DEF OrderInv
  <1>4. CASE nodes' = Marked(ForkNode(1), "failed") /\ Fails /\ UNCHANGED <<ready, branch>>
    <2>1. \A n \in DOMAIN nodes' : nodes'[n] \in {"in-progress", "done", "failed"}
      BY <1>1, <1>4, MarkedType DEF Types
    <2> QED BY <1>1, <1>4, <2>1, Failing
  <1> QED BY <1>3, <1>4 DEF ChildEnds

LEMMA EmitStep ==
    ASSUME OrderInv, Emit
    PROVE  OrderInv'
  <1>1. /\ Types /\ Untouched /\ ReadyInOrder /\ Branching /\ Sent /\ pc = "emit" /\ branch = Idle
        /\ UNCHANGED <<stages, parallel, pulled, scope, stage, views, ready, branch, payload, given,
                       nodes, due>>
        /\ IF buffered = <<>>
             THEN pc' = "fork" /\ UNCHANGED <<buffered, out>>
             ELSE /\ out' = Append(out, Head(buffered))
                  /\ buffered' = Tail(buffered)
                  /\ UNCHANGED pc
    BY DEF OrderInv, Emit, Branching
  <1>2. Pairs(out) \o Pairs(buffered) = All(due, parallel, Through)
    BY <1>1 DEF Sent
  <1>3. Through' = Through /\ branch'[1] = "idle"
    BY <1>1, StreamConstants DEF Through, Idle
  <1>4. buffered \in Seq(Plain) /\ out \in Seq(Plain)
    BY <1>1 DEF Types
  <1>5. CASE buffered = <<>>
    <2>1. pc' = "fork" /\ UNCHANGED <<buffered, out>>
      BY <1>1, <1>5
    <2>2. Pairs(out) \o Pairs(buffered) = Pairs(out)
      <3> DEFINE s == Pairs(out)
      <3>1. s \in Seq(Pair)
        BY <1>4, PairsType
      <3>2. Pairs(buffered) = <<>>
        BY <1>5 DEF Pairs
      <3> HIDE DEF s
      <3>3. s \o <<>> = s
        BY <3>1, ConcatEmptySeq
      <3>4. s \o Pairs(buffered) = s
        BY <3>2, <3>3
      <3> QED BY <3>4 DEF s
    <2>3. Pairs(out') = All(due', parallel', Through')
      BY <1>1, <1>2, <1>3, <2>1, <2>2
    <2>4. Sent'
      BY <1>3, <2>1, <2>3 DEF Sent
    <2>5. Types' /\ Untouched' /\ ReadyInOrder' /\ Branching' /\ ScopeInv'
      BY <1>1, <1>3, <2>1 DEF Types, TypeOK, Untouched, ReadyInOrder, Branching, ScopeInv
    <2> QED BY <2>4, <2>5 DEF OrderInv
  <1>6. CASE buffered # <<>>
    <2> DEFINE h == Head(buffered)
               t == Tail(buffered)
    <2>1. out' = Append(out, h) /\ buffered' = t /\ UNCHANGED pc
      BY <1>1, <1>6
    <2>2. h \in Plain /\ t \in Seq(Plain) /\ buffered = <<h>> \o t
      BY <1>4, <1>6
    <2> HIDE DEF h, t
    <2>3. Pairs(out') \o Pairs(buffered') = Pairs(out) \o Pairs(buffered)
      <3> DEFINE p == <<h.id, h.vars[Item]>>
                 s == Pairs(out)
                 u == Pairs(t)
      <3>1. Pairs(Append(out, h)) = Append(s, p)
        BY <1>4, <2>2, PairsAppend
      <3>2. Pairs(<<h>> \o t) = Pairs(<<h>>) \o u
        <4>1. <<h>> \in Seq(Plain)
          BY <2>2
        <4> QED BY <2>2, <4>1, PairsConcat
      <3>3. Pairs(<<h>>) = <<p>>
        BY DEF Pairs
      <3>4. s \in Seq(Pair) /\ u \in Seq(Pair) /\ p \in Pair
        <4>1. h \in Plain \cup Folded
          BY <2>2
        <4>2. p \in Pair
          BY <4>1, EitherFacts DEF Pair
        <4> QED BY <1>4, <2>2, <4>2, PairsType
      <3> HIDE DEF p, s, u
      <3>5. Append(s, p) \o u = s \o (<<p>> \o u)
        BY <3>4
      <3>6. Pairs(buffered) = <<p>> \o u
        BY ONLY <2>2, <3>2, <3>3
      <3>7. Pairs(out') \o Pairs(buffered') = Append(s, p) \o u
        BY ONLY <2>1, <3>1 DEF u
      <3> QED BY ONLY <3>5, <3>6, <3>7 DEF s
    <2>4. Pairs(out') \o Pairs(buffered') = All(due', parallel', Through')
      BY <1>1, <1>2, <1>3, <2>3
    <2>5. Sent'
      BY <1>1, <2>1, <2>4 DEF Sent
    <2>6. out' \in Seq(Plain) /\ buffered' \in Seq(Plain)
      BY <1>4, <2>1, <2>2
    <2>7. Types'
      BY <1>1, <2>1, <2>6 DEF Types, TypeOK
    <2>8. Untouched' /\ ReadyInOrder' /\ Branching' /\ ScopeInv'
      BY <1>1, <1>3, <2>1 DEF Untouched, ReadyInOrder, Branching, ScopeInv
    <2> QED BY <2>5, <2>7, <2>8 DEF OrderInv
  <1> QED BY <1>5, <1>6

(* Merged, the outputs of the branches are those of the envelope.          *)
LEMMA MergedRows ==
    ASSUME Types, ReadyInOrder, ready # <<>>, parallel,
           \A b \in 1..Branches : payload[b] = Append(due[Turn].item, b)
    PROVE  Merged \in Seq(Plain) /\ Pairs(Merged) = Rows(due, parallel, Turn)
  <1> DEFINE f == [b \in 1..Branches |-> Outputs(b)]
             item == due[Turn].item
  <1>1. /\ Head(ready) \in Plain /\ Turn \in 1..N /\ Head(ready).id = <<Turn>>
        /\ item \in Seq(Int) /\ Turn \in Int
    BY ReadyHead
  <1>2. Branches \in Nat
    BY StreamConstants
  <1>3. ASSUME NEW b \in 1..Branches
        PROVE  /\ Outputs(b) \in Seq(Plain)
               /\ Pairs(Outputs(b)) = Row(Turn, b, item)
    <2>1. payload[b] \in Seq(Int) /\ payload[b] = Append(item, b)
      BY DEF Types
    <2>2. /\ Outputs(b) \in Seq(Plain) /\ Len(Outputs(b)) = Children[b]
          /\ \A i \in 1..Children[b] : /\ Outputs(b)[i].id = <<Turn, b, i>>
                                       /\ Outputs(b)[i].vars[Item] = payload[b]
      BY <1>1, <2>1, OutputsType
    <2>3. DOMAIN Outputs(b) = 1..Children[b]
      BY <2>2
    <2> HIDE DEF item
    <2>4. Pairs(Outputs(b)) = Row(Turn, b, item)
      BY <2>1, <2>2, <2>3 DEF Pairs, Row
    <2> QED BY <2>2, <2>4
  <1> HIDE DEF item
  <1>4. \A b \in 1..Branches : f[b] \in Seq(Plain) /\ Pairs(f[b]) = Row(Turn, b, item)
    BY <1>3
  <1>5. Merged = FlattenSeq([b \in 1..Branches |-> f[b]])
    <2>1. [b \in 1..Branches |-> f[b]] = [b \in 1..Branches |-> Outputs(b)]
      OBVIOUS
    <2> QED BY <2>1 DEF Merged
  <1> HIDE DEF f
  <1>6. Merged \in Seq(Plain)
    <2> DEFINE rows == [b \in 1..Branches |-> f[b]]
    <2>1. rows \in Seq(Seq(Plain))
      BY <1>2, <1>4
    <2> HIDE DEF rows
    <2>2. FlattenSeq(rows) \in Seq(Plain)
      BY <2>1, FlattenType
    <2> QED BY <1>5, <2>2 DEF rows
  <1>7. Pairs(FlattenSeq([b \in 1..Branches |-> f[b]]))
          = FlattenSeq([b \in 1..Branches |-> Pairs(f[b])])
    BY <1>2, <1>4, PairsFlatten
  <1>8. [b \in 1..Branches |-> Pairs(f[b])] = [b \in 1..Lanes(parallel) |-> Row(Turn, b, item)]
    BY <1>4 DEF Lanes
  <1>9. Pairs(Merged) = FlattenSeq([b \in 1..Lanes(parallel) |-> Row(Turn, b, item)])
    BY ONLY <1>5, <1>7, <1>8
  <1> QED BY <1>6, <1>9 DEF Rows, item

LEMMA SettleStep ==
    ASSUME OrderInv, Settle
    PROVE  OrderInv'
  <1>1. /\ Types /\ Untouched /\ ReadyInOrder /\ Branching /\ Sent
        /\ pc = "fork" /\ parallel /\ Settled
        /\ UNCHANGED <<stages, parallel, pulled, scope, stage, views, payload, given, out, due>>
    BY DEF OrderInv, Settle
  <1>2. PICK upto \in IF StoreFails THEN 1..(Branches + 1) ELSE {Branches + 1} :
         /\ upto <= Branches => branch[upto] = "ended"
         /\ nodes' = [n \in {ForkNode(b) : b \in {c \in 1..Branches : c < upto}} |->
                         IF branch[n[3]] = "ended" THEN "done" ELSE "failed"]
                     ++ (IF upto <= Branches THEN Only(ForkNode(upto), "done") ELSE <<>>) ++ nodes
         /\ IF upto <= Branches \/ \E b \in 1..Branches : branch[b] = "failed"
              THEN Fails /\ UNCHANGED <<ready, branch, buffered>>
              ELSE /\ buffered' = Merged
                   /\ ready' = Tail(ready)
                   /\ branch' = Idle
                   /\ pc' = "emit"
    BY DEF Settle
  <1>3. \A n \in DOMAIN nodes' : nodes'[n] \in {"in-progress", "done", "failed"}
    <2> DEFINE S == {ForkNode(b) : b \in {c \in 1..Branches : c < upto}}
               f == [n \in S |-> IF branch[n[3]] = "ended" THEN "done" ELSE "failed"]
               g == IF upto <= Branches THEN Only(ForkNode(upto), "done") ELSE <<>>
    <2>1. nodes' = (f ++ g) ++ nodes
      BY <1>2
    <2>2. \A n \in DOMAIN f : f[n] \in {"in-progress", "done", "failed"}
      <3> HIDE DEF S
      <3> QED OBVIOUS
    <2>3. \A n \in DOMAIN g : g[n] \in {"in-progress", "done", "failed"}
      BY DEF Only
    <2>4. \A n \in DOMAIN nodes : nodes[n] \in {"in-progress", "done", "failed"}
      BY <1>1 DEF Types, TypeOK
    <2> HIDE DEF f, g
    <2>5. \A n \in DOMAIN (f ++ g) : (f ++ g)[n] \in {"in-progress", "done", "failed"}
      BY <2>2, <2>3 DEF ++
    <2> DEFINE h == f ++ g
    <2> HIDE DEF h
    <2>6. \A n \in DOMAIN (h ++ nodes) : (h ++ nodes)[n] \in {"in-progress", "done", "failed"}
      BY <2>4, <2>5 DEF ++, h
    <2> QED BY <2>1, <2>6 DEF h
  <1>4. CASE upto <= Branches \/ \E b \in 1..Branches : branch[b] = "failed"
    <2>1. Fails /\ UNCHANGED <<ready, branch, buffered>>
      BY <1>2, <1>4
    <2> QED BY <1>1, <1>3, <2>1, Failing
  <1>5. CASE ~(upto <= Branches \/ \E b \in 1..Branches : branch[b] = "failed")
    <2>1. buffered' = Merged /\ ready' = Tail(ready) /\ branch' = Idle /\ pc' = "emit"
      BY <1>2, <1>5
    <2>2. \A b \in 1..Branches : branch[b] = "ended"
      BY <1>1, <1>5 DEF Settled
    <2>3. branch # Idle
      BY <2>2, StreamConstants DEF Idle
    <2>4. ready # <<>> /\ \A b \in 1..Branches : payload[b] = Append(due[Turn].item, b)
      BY <1>1, <2>2, <2>3 DEF Branching
    <2>5. Merged \in Seq(Plain) /\ Pairs(Merged) = Rows(due, parallel, Turn)
      BY <1>1, <2>4, MergedRows
    <2>6. /\ ready' \in Seq(Plain) /\ Len(ready') <= Size /\ Through' = Turn
          /\ Through \in 0..N /\ Turn \in 1..N /\ Turn = Through + 1
          /\ ReadyInOrder'
      BY <1>1, <2>1, <2>4, TailReady
    <2>7. Pairs(out) = All(due, parallel, Through)
      BY <1>1 DEF Sent
    <2>8. All(due, parallel, Turn) = All(due, parallel, Through) \o Rows(due, parallel, Turn)
      BY <1>1, <2>6, AllTurn
    <2>9. Pairs(out) \o Pairs(Merged) = All(due, parallel, Turn)
      BY ONLY <2>5, <2>7, <2>8
    <2>10. Pairs(out') \o Pairs(buffered') = All(due', parallel', Through')
      BY ONLY <1>1, <2>1, <2>6, <2>9
    <2>11. Sent'
      BY <2>1, <2>10 DEF Sent
    <2>12. Types'
      <3>1. branch' \in [1..Branches -> {"idle", "fresh", "marked", "ended", "failed"}]
        BY <2>1 DEF Idle
      <3>2. buffered' \in Seq(Plain)
        BY <2>1, <2>5
      <3> QED BY <1>1, <1>3, <2>1, <2>6, <3>1, <3>2 DEF Types, TypeOK
    <2>13. Untouched' /\ Branching' /\ ScopeInv'
      BY <1>1, <2>1 DEF Untouched, Branching, ScopeInv
    <2> QED BY <2>6, <2>11, <2>12, <2>13 DEF OrderInv
  <1> QED BY <1>4, <1>5

LEMMA OrderInvInit == Init => OrderInv
  <1> SUFFICES ASSUME Init PROVE OrderInv
    OBVIOUS
  <1>1. /\ stages \in Scopes /\ parallel \in BOOLEAN /\ pc = "group" /\ pulled = 0
        /\ scope = <<>> /\ stage = 0 /\ views = <<>> /\ ready = <<>>
        /\ branch = Idle /\ payload = [b \in 1..Branches |-> <<>>]
        /\ given = 0 /\ buffered = <<>> /\ out = <<>> /\ nodes = <<>>
        /\ due = [m \in 1..N |-> [x |-> Original[m], item |-> <<m>>]]
    BY DEF Init
  <1>2. N \in Nat /\ Size \in Nat /\ stages \in Seq({"group", "members"}) /\ Len(stages) \in Nat
    BY <1>1, StreamConstants
  <1>3. due \in [1..N -> [x : Values \cup {None}, item : Seq(Int)]]
    <2>1. \A m \in 1..N : Original[m] \in Values /\ <<m>> \in Seq(Int)
      BY DEF Values
    <2> QED BY <1>1, <2>1
  <1>4. Types
    <2>1. branch \in [1..Branches -> {"idle", "fresh", "marked", "ended", "failed"}]
      BY <1>1 DEF Idle
    <2>2. payload \in [1..Branches -> Seq(Int)]
      BY <1>1
    <2>3. DOMAIN nodes = {} /\ Len(views) = 0 /\ Len(ready) = 0
      BY <1>1
    <2> QED BY <1>1, <1>2, <1>3, <2>1, <2>2, <2>3 DEF Types, TypeOK
  <1>5. Untouched
    BY <1>1 DEF Untouched
  <1>6. ReadyInOrder /\ Branching /\ ScopeInv
    BY <1>1 DEF ReadyInOrder, Branching, ScopeInv
  <1>7. Sent
    <2>1. All(due, parallel, 0) = <<>>
      BY <1>4, TypesFacts, AllStep
    <2>2. Pairs(out) = <<>>
      BY <1>1 DEF Pairs
    <2>3. Pairs(out) = All(due, parallel, pulled)
      BY <1>1, <2>1, <2>2
    <2> QED BY <1>1, <2>3 DEF Sent
  <1> QED BY <1>4, <1>5, <1>6, <1>7 DEF OrderInv

LEMMA OrderInvStep == OrderInv /\ [Next]_vars => OrderInv'
  <1> SUFFICES ASSUME OrderInv, [Next]_vars PROVE OrderInv'
    OBVIOUS
  <1>1. CASE UNCHANGED vars
    <2>1. UNCHANGED <<stages, parallel, pc, pulled, scope, stage, views, ready, branch, payload,
                      given, buffered, out, nodes, due>>
      BY <1>1 DEF vars, nestedVars
    <2>2. Types' /\ Untouched'
      BY <2>1 DEF OrderInv, Types, TypeOK, Untouched
    <2>3. ReadyInOrder' /\ Branching'
      BY <2>1 DEF OrderInv, ReadyInOrder, Branching, Through, Turn
    <2>4. Sent'
      BY <2>1 DEF OrderInv, Sent, Through, Turn, Before, Members
    <2>5. ScopeInv'
      BY <2>1 DEF OrderInv, ScopeInv, FoldedGroup, Committed, Viewed, Members, Before, Patched,
                  GroupStage
    <2> QED BY <2>2, <2>3, <2>4, <2>5 DEF OrderInv
  <1>2. CASE EnterScope \/ SourceThrows \/ NextStage \/ CommitResult \/ DropResult \/ ScopeFails
    BY <1>2, EnterScopeStep, SourceThrowsStep, NextStageStep, CommitResultStep, DropResultStep,
       ScopeFailsStep
  <1>3. CASE LeaveScope \/ EnterFork \/ NextGroup \/ Settle \/ Emit
    BY <1>3, LeaveScopeStep, EnterForkStep, NextGroupStep, SettleStep, EmitStep
  <1>4. CASE PassOn \/ ChildEnds \/ ChildFails \/ Finish
    BY <1>4, PassOnStep, ChildEndsStep, ChildFailsStep, FinishStep
  <1>5. ASSUME NEW b \in 1..Branches, BranchWrites(b) \/ BranchEnds(b) \/ BranchFails(b)
        PROVE  OrderInv'
    BY <1>5, BranchStep
  <1> QED BY <1>1, <1>2, <1>3, <1>4, <1>5 DEF Next

(* DeclaredOrder says it in the words of the run's property.               *)
LEMMA OrderInvOrder == OrderInv => DeclaredOrder
  <1> SUFFICES ASSUME OrderInv PROVE DeclaredOrder
    OBVIOUS
  <1>1. Cardinality(Yields) = Lanes(parallel)
    <2>1. Cardinality(1..Branches) = Branches
      BY StreamConstants, FS_Interval
    <2>2. Cardinality({1}) = 1
      BY FS_Singleton
    <2> QED BY <2>1, <2>2 DEF Yields, Lanes
  <1>2. \A m \in 1..N : Declared(m) = Rows(due, parallel, m)
    BY <1>1 DEF Declared, Rows, Row
  <1>3. [m \in 1..N |-> Declared(m)] = [m \in 1..N |-> Rows(due, parallel, m)]
    BY <1>2
  <1>4. FlattenSeq([m \in 1..N |-> Declared(m)]) = All(due, parallel, N)
    BY <1>3 DEF All
  <1>5. [i \in DOMAIN out |-> <<out[i].id, out[i].vars[Item]>>] = Pairs(out)
    BY DEF Pairs
  <1>6. IsPrefix(Pairs(out), All(due, parallel, N))
    BY SentPrefix
  <1>7. pc = "done" => Pairs(out) = All(due, parallel, N)
    BY DEF OrderInv, Sent
  <1> HIDE DEF OrderInv
  <1>8. pc = "done" => Len(Pairs(out)) = Len(All(due, parallel, N))
    BY <1>7
  <1>9. /\ IsPrefix([i \in DOMAIN out |-> <<out[i].id, out[i].vars[Item]>>],
                    FlattenSeq([m \in 1..N |-> Declared(m)]))
        /\ pc = "done" => Len([i \in DOMAIN out |-> <<out[i].id, out[i].vars[Item]>>])
                            = Len(FlattenSeq([m \in 1..N |-> Declared(m)]))
    BY ONLY <1>4, <1>5, <1>6, <1>8
  <1> QED BY ONLY <1>9 DEF DeclaredOrder

LEMMA OrderInvHolds == Spec => []OrderInv
  BY OrderInvInit, OrderInvStep, PTL DEF Spec

(* For every source, every length of a group, every list of stages and     *)
(* any number of branches, the target sees the outputs of one parent after *)
(* the other in the order the branches are declared, and a run that is     *)
(* done has passed on all of them (parallelForkStream, forkStream).        *)
THEOREM ForksInDeclaredOrder == Spec => []DeclaredOrder
  BY OrderInvHolds, OrderInvOrder, PTL

(* The types of the nested streams' state.                                 *)
THEOREM NestedStreamsTypes == Spec => []TypeOK
  <1>1. OrderInv => TypeOK
    BY DEF OrderInv, Types
  <1> QED BY <1>1, OrderInvHolds, PTL

-----------------------------------------------------------------------------
(* The variable x of the members                                           *)

\* Stages that work on the group come before those that work on members: a
\* member once committed no longer sees what the group becomes.
GroupsLead ==
    \A s \in Scopes : \A i \in 1..Len(s), j \in 1..Len(s) :
        i < j /\ s[j] = "group" => s[i] = "group"

\* A value tells whether a stage of a scope or the source has set it.
FreshValues == \A s \in Scopes : \A i \in 1..Len(s), m \in 1..N : Original[m] # i

ReadyX == \A i \in 1..Len(ready) : ValueOf(ready[i]) = due[Through + i].x

XInv ==
    /\ pc = "scope" =>
         /\ stage = 0 \/ GroupStage => DOMAIN scope.patched = {}
         /\ ScopeX
    /\ ReadyX

LEMMA XInvInit == Init => XInv
  <1> SUFFICES ASSUME Init PROVE XInv
    OBVIOUS
  <1>1. pc = "group" /\ ready = <<>>
    BY DEF Init
  <1> QED BY <1>1 DEF XInv, ReadyX

LEMMA XElsewhere ==
    ASSUME XInv, pc' # "scope", UNCHANGED <<ready, due, pulled>>
    PROVE  XInv'
  BY DEF XInv, ReadyX, Through

LEMMA XTail ==
    ASSUME OrderInv, XInv, ready # <<>>, ready' = Tail(ready), UNCHANGED <<pulled, due>>,
           pc' \in {"fork", "emit"}
    PROVE  XInv'
  <1>1. Types /\ ReadyInOrder
    BY DEF OrderInv
  <1>2. \A i \in 1..Len(ready') : ready'[i] = ready[i + 1] /\ Through' + i = Through + (i + 1)
                                  /\ i + 1 \in 1..Len(ready)
    BY <1>1, TailReady
  <1>3. ASSUME NEW i \in 1..Len(ready') PROVE ValueOf(ready'[i]) = due'[Through' + i].x
    <2> DEFINE j == i + 1
    <2>1. ready'[i] = ready[j] /\ Through' + i = Through + j /\ j \in 1..Len(ready)
      BY <1>2
    <2> HIDE DEF j
    <2>2. ValueOf(ready[j]) = due[Through + j].x
      BY <2>1 DEF XInv, ReadyX
    <2> QED BY <2>1, <2>2
  <1> QED BY <1>3 DEF XInv, ReadyX

LEMMA XEnterScope ==
    ASSUME OrderInv, EnterScope
    PROVE  XInv'
  <1>1. /\ pulled \in 0..N /\ N \in Nat /\ Untouched
    BY TypesFacts DEF OrderInv
  <1>2. /\ pulled < pulled' /\ pulled' \in 0..N /\ Before' = pulled
        /\ scope'.groupVars = <<>> /\ scope'.patched = <<>>
        /\ due' = due /\ ready' = <<>> /\ pc' = "scope"
    BY EnterScopeFacts
  <1>3. DOMAIN scope'.patched = {} /\ DOMAIN scope'.groupVars = {}
    BY <1>2
  <1>4. ASSUME NEW m \in (Before' + 1)..pulled' PROVE due'[m].x = Original[m]
    <2>1. m \in 1..N /\ m > pulled
      BY <1>1, <1>2
    <2>2. due[m] = [x |-> Original[m], item |-> <<m>>]
      BY <1>1, <2>1 DEF Untouched
    <2> QED BY <1>2, <2>2
  <1>5. ScopeX'
    BY <1>3, <1>4 DEF ScopeX, GroupX, Patched
  <1>6. ReadyX'
    BY <1>2 DEF ReadyX
  <1> QED BY <1>3, <1>5, <1>6 DEF XInv

LEMMA XNextStage ==
    ASSUME GroupsLead, OrderInv, XInv, NextStage
    PROVE  XInv'
  <1>1. /\ Types /\ ready = <<>> /\ pc = "scope" /\ stage < Len(stages) /\ stage' = stage + 1
        /\ ScopeX
        /\ UNCHANGED <<stages, parallel, pc, pulled, scope, ready, due>>
    BY DEF OrderInv, NextStage, ReadyInOrder, XInv
  <1>2. stage \in Nat /\ Len(stages) \in Nat /\ stages \in Scopes
    BY <1>1, TypesFacts DEF Types, TypeOK
  <1>3. ASSUME stage' = 0 \/ GroupStage' PROVE DOMAIN scope'.patched = {}
    <2>1. stages[stage + 1] = "group" /\ stage + 1 \in 1..Len(stages)
      BY <1>1, <1>2, <1>3 DEF GroupStage
    <2>2. CASE stage = 0
      BY <1>1, <2>2 DEF XInv
    <2>3. CASE stage # 0
      <3>1. stage \in 1..Len(stages) /\ stage < stage + 1
        BY <1>2, <2>1, <2>3
      <3>2. stages[stage] = "group"
        BY <1>2, <2>1, <3>1 DEF GroupsLead
      <3>3. GroupStage
        BY <3>1, <3>2 DEF GroupStage
      <3> QED BY <1>1, <3>3 DEF XInv
    <2> QED BY <2>2, <2>3
  <1>4. ScopeX'
    BY <1>1 DEF ScopeX, GroupX, Patched, Before, Members
  <1>5. ReadyX'
    BY <1>1 DEF ReadyX
  <1> QED BY <1>3, <1>4, <1>5 DEF XInv

LEMMA XDropResult ==
    ASSUME OrderInv, XInv, DropResult
    PROVE  XInv'
  BY DEF XInv, DropResult, ScopeX, GroupX, Patched, Before, Members, ReadyX, Through, GroupStage

LEMMA XCommitResult ==
    ASSUME FreshValues, OrderInv, XInv, CommitResult
    PROVE  XInv'
  <1>1. /\ Types /\ FoldedGroup /\ Viewed /\ ReadyInOrder /\ pc = "scope" /\ pc' = "scope"
        /\ views # <<>> /\ ready = <<>> /\ ScopeX /\ stage > 0
        /\ UNCHANGED <<stages, parallel, pulled, stage, ready>>
    BY DEF OrderInv, ScopeInv, CommitResult, XInv, ReadyInOrder, Viewed
  <1>2. /\ stage \in 1..Len(stages) /\ stages \in Scopes /\ N \in Nat /\ pulled \in 0..N
        /\ Before \in Nat
        /\ scope \in [folded : Folded, groupVars : Vars, patched : Patches]
        /\ due \in [1..N -> [x : Values \cup {None}, item : Seq(Int)]]
    BY <1>1, TypesFacts DEF Types, TypeOK, FoldedGroup, Before
  <1>3. ReadyX'
    BY <1>1 DEF ReadyX
  <1>4. GroupStage' <=> GroupStage
    BY <1>1 DEF GroupStage
  <1>5. \A m \in (Before + 1)..pulled : m \in 1..N
    BY <1>2
  <1> DEFINE base == scope.folded.base
  <1>6. ASSUME GroupStage, NEW env \in Folded,
               scope' = [scope EXCEPT !.groupVars = BatchOverrides(env, base) ++ scope.groupVars],
               due' = [m \in 1..N |->
                         IF m \in (Before + 1)..pulled
                            /\ X \in DOMAIN env.vars /\ env.vars[X] = stage
                           THEN [due[m] EXCEPT !.x = stage] ELSE due[m]],
               \/ X \in DOMAIN env.vars /\ env.vars[X] = stage
               \/ /\ X \in DOMAIN env.vars <=> X \in DOMAIN GroupView(scope).vars
                  /\ X \in DOMAIN env.vars => env.vars[X] = GroupView(scope).vars[X]
        PROVE  XInv'
    <2> DEFINE o == BatchOverrides(env, base)
               v == o ++ scope.groupVars
               changed == X \in DOMAIN env.vars /\ env.vars[X] = stage
    <2>1. base \in Vars /\ scope.groupVars \in Vars
      BY <1>2 DEF Folded
    <2>2. /\ o \in Vars
          /\ X \in DOMAIN o <=> /\ X \in DOMAIN env.vars
                                /\ X \in DOMAIN base => env.vars[X] # base[X]
          /\ X \in DOMAIN o => o[X] = env.vars[X]
      <3> HIDE DEF base
      <3> QED BY <1>6, <2>1, OverridesType
    <2>3. /\ X \in DOMAIN v <=> X \in DOMAIN o \/ GroupX
          /\ X \in DOMAIN o => v[X] = o[X]
          /\ X \notin DOMAIN o /\ GroupX => v[X] = scope.groupVars[X]
      <3> DEFINE g == scope.groupVars
      <3> HIDE DEF o, g
      <3>1. o \in Vars /\ g \in Vars
        BY <2>1, <2>2 DEF g
      <3>2. /\ DOMAIN (o ++ g) = DOMAIN o \cup DOMAIN g
            /\ \A k \in DOMAIN o : (o ++ g)[k] = o[k]
            /\ \A k \in DOMAIN g : k \notin DOMAIN o => (o ++ g)[k] = g[k]
        BY <3>1, SpreadType
      <3>3. v = o ++ g /\ (GroupX <=> X \in DOMAIN g)
        BY DEF g, GroupX
      <3> HIDE DEF v
      <3> QED BY <3>2, <3>3 DEF g
    <2>4. scope' = [scope EXCEPT !.groupVars = v]
      BY <1>6
    <2> HIDE DEF v, o
    <2>5. /\ scope'.folded = scope.folded /\ scope'.groupVars = v /\ scope'.patched = scope.patched
      BY <1>2, <2>4
    <2>6. DOMAIN scope.patched = {} /\ \A m : ~Patched(m)
      BY <1>1, <1>6 DEF XInv, Patched
    <2>7. /\ X \in DOMAIN base => base[X] # stage
      <3>1. X \in DOMAIN base => \E m \in 1..N : base[X] = Original[m]
        BY <1>1 DEF FoldedGroup
      <3> QED BY <1>2, <3>1 DEF FreshValues
    <2>8. /\ X \in DOMAIN GroupView(scope).vars <=> GroupX \/ X \in DOMAIN base
          /\ GroupX => GroupView(scope).vars[X] = scope.groupVars[X]
          /\ ~GroupX /\ X \in DOMAIN base => GroupView(scope).vars[X] = base[X]
      BY <1>1, GroupViewType
    <2>9. \A m \in (Before + 1)..pulled :
             due[m].x = IF GroupX THEN scope.groupVars[X] ELSE Original[m]
      BY <1>1, <2>6 DEF ScopeX
    <2>10. GroupX => X \notin DOMAIN base \/ scope.groupVars[X] # base[X]
      BY <1>1 DEF ScopeX
    <2>11. CASE changed
      <3>1. X \in DOMAIN v /\ v[X] = stage /\ (X \in DOMAIN base => v[X] # base[X])
        BY <2>2, <2>3, <2>7, <2>11
      <3>2. \A m \in (Before + 1)..pulled : due'[m].x = stage
        <4>1. \A m \in 1..N : [due[m] EXCEPT !.x = stage].x = stage
          BY <1>2
        <4> QED BY <1>5, <1>6, <2>11, <4>1
      <3>3. ScopeX'
        BY <1>1, <2>5, <2>6, <3>1, <3>2 DEF ScopeX, GroupX, Patched, Before, Members
      <3> QED BY <1>1, <1>3, <2>5, <2>6, <3>3 DEF XInv
    <2>12. CASE ~changed
      <3>1. /\ X \in DOMAIN env.vars <=> X \in DOMAIN GroupView(scope).vars
            /\ X \in DOMAIN env.vars => env.vars[X] = GroupView(scope).vars[X]
        BY <1>6, <2>12
      <3>2. /\ X \in DOMAIN o <=> GroupX
            /\ GroupX => o[X] = scope.groupVars[X]
        BY <2>2, <2>8, <2>10, <3>1
      <3>3. /\ X \in DOMAIN v <=> GroupX
            /\ GroupX => v[X] = scope.groupVars[X]
        BY <2>3, <3>2
      <3>4. \A m \in (Before + 1)..pulled : due'[m] = due[m]
        BY <1>5, <1>6, <2>12
      <3>5. ScopeX'
        BY <1>1, <2>5, <2>6, <2>9, <2>10, <3>3, <3>4
           DEF ScopeX, GroupX, Patched, Before, Members
      <3> QED BY <1>1, <1>3, <2>5, <2>6, <3>5 DEF XInv
    <2> QED BY <2>11, <2>12
  <1>7. ASSUME ~GroupStage,
               NEW env \in Plain, NEW m \in (Before + 1)..pulled, env.id = <<m>>, m \in 1..N,
               scope' = [scope EXCEPT !.patched = Only(<<m>>, env) ++ scope.patched],
               due' = [due EXCEPT ![m] = [x |-> ValueOf(env), item |-> env.vars[Item]]]
        PROVE  XInv'
    <2> DEFINE id == <<m>>
               p == Only(id, env) ++ scope.patched
    <2>1. /\ DOMAIN p = {id} \cup DOMAIN scope.patched /\ p[id] = env
          /\ \A k \in DOMAIN scope.patched : k # id => p[k] = scope.patched[k]
      <3> HIDE DEF id
      <3> QED BY DEF ++, Only
    <2>2. scope' = [scope EXCEPT !.patched = p]
      BY <1>7
    <2> HIDE DEF p
    <2>3. /\ scope'.folded = scope.folded /\ scope'.groupVars = scope.groupVars
          /\ scope'.patched = p
      BY <1>2, <2>2
    <2>4. /\ \A n \in 1..N : n # m => due'[n] = due[n]
          /\ due'[m].x = ValueOf(env)
      <3> DEFINE d == [x |-> ValueOf(env), item |-> env.vars[Item]]
      <3>1. d.x = ValueOf(env)
        OBVIOUS
      <3>2. due' = [due EXCEPT ![m] = d]
        BY <1>7
      <3> HIDE DEF d
      <3> QED BY <1>2, <1>7, <3>1, <3>2
    <2>5. \A n : <<n>> = id <=> n = m
      <3>1. \A n : <<n>>[1] = n
        OBVIOUS
      <3> QED BY <3>1
    <2> HIDE DEF id
    <2>6. ASSUME NEW n \in (Before + 1)..pulled
          PROVE  due'[n].x = IF Patched(n)' THEN ValueOf(scope'.patched[<<n>>])
                             ELSE IF GroupX THEN scope.groupVars[X]
                             ELSE Original[n]
      <3>1. CASE n = m
        BY <2>1, <2>3, <2>4, <2>5, <3>1 DEF Patched
      <3>2. CASE n # m
        <4>1. due'[n] = due[n] /\ <<n>> # id
          BY <1>5, <2>4, <2>5, <3>2
        <4>2. Patched(n)' <=> Patched(n)
          BY <2>1, <2>3, <4>1 DEF Patched
        <4>3. Patched(n) => scope'.patched[<<n>>] = scope.patched[<<n>>]
          BY <2>1, <2>3, <4>1 DEF Patched
        <4>4. due[n].x = IF Patched(n) THEN ValueOf(scope.patched[<<n>>])
                         ELSE IF GroupX THEN scope.groupVars[X]
                         ELSE Original[n]
          BY <1>1 DEF ScopeX
        <4> QED BY <4>1, <4>2, <4>3, <4>4
      <3> QED BY <3>1, <3>2
    <2>7. Before' = Before /\ (GroupX' <=> GroupX)
      BY <1>1, <2>3 DEF Before, Members, GroupX
    <2>8. ScopeX'
      BY <1>1, <2>3, <2>6, <2>7 DEF ScopeX
    <2> QED BY <1>1, <1>2, <1>3, <1>4, <1>7, <2>8 DEF XInv
  <1> QED BY <1>1, <1>6, <1>7, CommitCases

LEMMA XLeaveScope ==
    ASSUME OrderInv, XInv, LeaveScope
    PROVE  XInv'
  <1>1. Types /\ FoldedGroup /\ Committed /\ ScopeX /\ UNCHANGED <<pulled, due>>
        /\ pc' # "scope"
    BY DEF OrderInv, ScopeInv, LeaveScope, XInv, Fails
  <1>2. CASE ready' = Result(scope)
    <2>1. /\ Len(ready') = Len(Members) /\ Len(Members) \in Nat
          /\ \A i \in 1..Len(Members) : ValueOf(ready'[i]) = due[Before + i].x
      BY <1>1, <1>2, MemberViewsType, StreamConstants DEF Result, FoldedGroup
    <2>2. Through' = Before
      BY <1>1, <2>1 DEF Through, Before
    <2>3. ReadyX'
      BY <1>1, <2>1, <2>2 DEF ReadyX
    <2> QED BY <1>1, <2>3 DEF XInv
  <1>3. CASE UNCHANGED ready
    BY <1>1, <1>3, XElsewhere
  <1> QED BY <1>2, <1>3 DEF LeaveScope

LEMMA XInvStep ==
    ASSUME GroupsLead, FreshValues, OrderInv, XInv, [Next]_vars
    PROVE  XInv'
  <1>1. CASE UNCHANGED vars
    BY <1>1 DEF vars, nestedVars, XInv, ScopeX, GroupX, Patched, Before, Members, ReadyX,
                Through, GroupStage
  <1>2. CASE EnterScope \/ NextStage \/ CommitResult \/ DropResult \/ LeaveScope
    BY <1>2, XEnterScope, XNextStage, XCommitResult, XDropResult, XLeaveScope
  <1>3. CASE SourceThrows \/ ScopeFails \/ EnterFork \/ NextGroup \/ Emit \/ PassOn
             \/ ChildFails \/ Finish
    <2>1. pc' # "scope" /\ UNCHANGED <<ready, due, pulled>>
      BY <1>3 DEF SourceThrows, ScopeFails, EnterFork, NextGroup, Emit, PassOn, ChildFails,
                  Finish, Fails
    <2> QED BY <2>1, XElsewhere
  <1>4. ASSUME NEW b \in 1..Branches, BranchWrites(b) \/ BranchEnds(b) \/ BranchFails(b)
        PROVE  XInv'
    <2>1. pc' # "scope" /\ UNCHANGED <<ready, due, pulled>>
      BY <1>4 DEF BranchWrites, BranchEnds, BranchFails
    <2> QED BY <2>1, XElsewhere
  <1>5. CASE Settle \/ ChildEnds
    <2>1. UNCHANGED <<pulled, due>> /\ pc = "fork" /\ branch # Idle
      <3>1. /\ UNCHANGED <<pulled, due>> /\ pc = "fork"
            /\ Settled \/ branch[1] = "marked"
        BY <1>5 DEF Settle, ChildEnds
      <3>2. 1 \in 1..Branches
        BY StreamConstants
      <3> QED BY <3>1, <3>2 DEF Settled, Idle
    <2>2. ready # <<>>
      BY <2>1 DEF OrderInv, Branching
    <2>3. \/ pc' # "scope" /\ UNCHANGED ready
          \/ ready' = Tail(ready) /\ pc' \in {"fork", "emit"}
      BY <1>5 DEF Settle, ChildEnds, Fails
    <2> QED BY <2>1, <2>2, <2>3, XElsewhere, XTail
  <1> QED BY <1>1, <1>2, <1>3, <1>4, <1>5 DEF Next

LEMMA XInvMembers == OrderInv /\ XInv => MembersAsCommitted
  <1> SUFFICES ASSUME OrderInv, XInv PROVE MembersAsCommitted
    OBVIOUS
  <1>1. ready \in Seq(Plain) /\ DOMAIN ready = 1..Len(ready)
    BY DEF OrderInv, Types
  <1>2. ASSUME NEW i \in DOMAIN ready
        PROVE  /\ ValueOf(ready[i]) = due[ready[i].id[1]].x
               /\ ready[i].vars[Item] = due[ready[i].id[1]].item
    <2> DEFINE m == Through + i
    <2>1. ready[i].id = <<m>> /\ ready[i].vars[Item] = due[m].item
      BY <1>1 DEF OrderInv, ReadyInOrder
    <2>2. ValueOf(ready[i]) = due[m].x
      BY <1>1 DEF XInv, ReadyX
    <2> HIDE DEF m
    <2>3. <<m>>[1] = m
      OBVIOUS
    <2> QED BY <2>1, <2>2, <2>3
  <1> QED BY <1>2 DEF MembersAsCommitted

(* For every source and every group length, if the stages that work on the *)
(* group come before those that work on its members and a value tells who  *)
(* set it, a member leaves its scope with the variable and the payload as  *)
(* last committed (createBatchScope, unbatchExchange).                     *)
THEOREM MembersLeaveAsCommitted ==
    ASSUME GroupsLead, FreshValues
    PROVE  Spec => []MembersAsCommitted
  <1>1. Init => XInv
    BY XInvInit
  <1>2. OrderInv /\ XInv /\ [Next]_vars => XInv'
    BY XInvStep
  <1>3. OrderInv /\ XInv => MembersAsCommitted
    BY XInvMembers
  <1>4. Spec => []OrderInv
    BY OrderInvHolds
  <1> QED BY <1>1, <1>2, <1>3, <1>4, PTL DEF Spec

(* Joined sequences of sequences give joined sequences.                    *)
LEMMA FlattenConcat ==
    ASSUME NEW S, NEW a \in Seq(Seq(S)), NEW b \in Seq(Seq(S))
    PROVE  FlattenSeq(a \o b) = FlattenSeq(a) \o FlattenSeq(b)
  <1> DEFINE G == {t \in Seq(Seq(S)) : FlattenSeq(a \o t) = FlattenSeq(a) \o FlattenSeq(t)}
  <1>1. <<>> \in G
    <2>1. a \o <<>> = a /\ <<>> \in Seq(Seq(S))
      OBVIOUS
    <2>2. FlattenSeq(a) \in Seq(S) /\ FlattenSeq(<<>>) = <<>>
      BY <2>1, FlattenType
    <2>3. FlattenSeq(a) \o <<>> = FlattenSeq(a)
      <3> DEFINE f == FlattenSeq(a)
      <3>1. f \in Seq(S)
        BY <2>2
      <3> HIDE DEF f
      <3>2. f \o <<>> = f
        BY <3>1
      <3> QED BY <3>2 DEF f
    <2> QED BY ONLY <2>1, <2>2, <2>3
  <1>2. ASSUME NEW t \in Seq(Seq(S)), NEW e \in Seq(S), t \in G PROVE Append(t, e) \in G
    <2> DEFINE fa == FlattenSeq(a)
               ft == FlattenSeq(t)
               u == a \o t
    <2>1. u \in Seq(Seq(S)) /\ a \o Append(t, e) = Append(u, e) /\ Append(t, e) \in Seq(Seq(S))
      OBVIOUS
    <2>2. fa \in Seq(S) /\ ft \in Seq(S)
      BY FlattenType
    <2> HIDE DEF u
    <2>3. FlattenSeq(Append(u, e)) = FlattenSeq(u) \o e
      BY <2>1, FlattenAppend
    <2>4. FlattenSeq(Append(t, e)) = ft \o e
      BY FlattenAppend
    <2>5. FlattenSeq(u) = fa \o ft
      BY <1>2 DEF u
    <2> HIDE DEF fa, ft
    <2>6. (fa \o ft) \o e = fa \o (ft \o e)
      BY <2>2
    <2>7. FlattenSeq(a \o Append(t, e)) = fa \o FlattenSeq(Append(t, e))
      BY ONLY <2>1, <2>3, <2>4, <2>5, <2>6
    <2> QED BY <2>1, <2>7 DEF fa
  <1>3. Seq(Seq(S)) \subseteq G
    <2> HIDE DEF G
    <2> QED BY <1>1, <1>2, AllSequences
  <1> QED BY <1>3

LEMMA FlattenOne ==
    ASSUME NEW S, NEW s \in Seq(S)
    PROVE  FlattenSeq(<<s>>) = s
  <1>1. <<s>> = Append(<<>>, s) /\ <<>> \in Seq(Seq(S))
    OBVIOUS
  <1>2. FlattenSeq(Append(<<>>, s)) = FlattenSeq(<<>>) \o s
    BY <1>1, FlattenAppend
  <1>3. FlattenSeq(<<>>) = <<>>
    BY <1>1, FlattenType
  <1>4. <<>> \o s = s
    OBVIOUS
  <1> QED BY ONLY <1>1, <1>2, <1>3, <1>4

(* Flattening from the outside or from the inside is the same.             *)
LEMMA FlattenNested ==
    ASSUME NEW S, NEW x \in Seq(Seq(Seq(S)))
    PROVE  /\ [i \in DOMAIN x |-> FlattenSeq(x[i])] \in Seq(Seq(S))
           /\ FlattenSeq(FlattenSeq(x)) = FlattenSeq([i \in DOMAIN x |-> FlattenSeq(x[i])])
  <1> DEFINE Each(y) == [i \in DOMAIN y |-> FlattenSeq(y[i])]
             T == Seq(Seq(Seq(S)))
             G == {y \in T : FlattenSeq(FlattenSeq(y)) = FlattenSeq(Each(y))}
  <1>1. ASSUME NEW y \in T PROVE Each(y) \in Seq(Seq(S))
    <2>1. ASSUME NEW i \in 1..Len(y) PROVE FlattenSeq(y[i]) \in Seq(S)
      <3>1. y[i] \in Seq(Seq(S))
        OBVIOUS
      <3> QED BY <3>1, FlattenType
    <2>2. DOMAIN y = 1..Len(y) /\ Len(y) \in Nat
      OBVIOUS
    <2> QED BY <2>1, <2>2
  <1>2. <<>> \in G
    <2>1. Each(<<>>) = <<>> /\ <<>> \in Seq(Seq(S)) /\ <<>> \in T /\ <<>> \in Seq(S)
      OBVIOUS
    <2>2. FlattenSeq(<<>>) = <<>>
      BY <2>1, FlattenType
    <2> HIDE DEF Each, T
    <2> QED BY <2>1, <2>2
  <1>3. ASSUME NEW y \in T, NEW e \in Seq(Seq(S)), y \in G PROVE Append(y, e) \in G
    <2> DEFINE z == Append(y, e)
               fe == FlattenSeq(e)
               fy == FlattenSeq(y)
    <2>1. z \in T /\ fe \in Seq(S) /\ fy \in Seq(Seq(S))
      BY FlattenType
    <2>2. FlattenSeq(z) = fy \o e
      BY FlattenAppend
    <2>3. FlattenSeq(fy \o e) = FlattenSeq(fy) \o fe
      <3> HIDE DEF fy
      <3> QED BY <2>1, FlattenConcat
    <2>4. Each(z) = Append(Each(y), fe)
      <3>1. DOMAIN z = 1..(Len(y) + 1) /\ Len(y) \in Nat /\ DOMAIN y = 1..Len(y)
        OBVIOUS
      <3>2. \A i \in 1..Len(y) : z[i] = y[i]
        OBVIOUS
      <3>3. z[Len(y) + 1] = e
        OBVIOUS
      <3>4. Each(y) \in Seq(Seq(S)) /\ Len(Each(y)) = Len(y)
        BY <1>1
      <3>5. Each(z) \in Seq(Seq(S)) /\ DOMAIN Each(z) = 1..(Len(y) + 1)
        BY <1>1, <2>1, <3>1
      <3> DEFINE ey == Each(y)
                 w == Append(ey, fe)
      <3>6. \A i \in 1..Len(y) : ey[i] = FlattenSeq(y[i])
        BY <3>1
      <3>7. \A i \in 1..(Len(y) + 1) : Each(z)[i] = FlattenSeq(z[i])
        BY <3>1
      <3>8. ey \in Seq(Seq(S)) /\ Len(ey) = Len(y)
        BY <3>4
      <3> HIDE DEF ey, z, fe
      <3>9. w \in Seq(Seq(S)) /\ DOMAIN w = 1..(Len(y) + 1)
        BY <2>1, <3>8
      <3>10. ASSUME NEW i \in 1..(Len(y) + 1) PROVE w[i] = Each(z)[i]
        <4>1. CASE i = Len(y) + 1
          <5>1. w[i] = fe
            BY <3>8, <2>1, <4>1
          <5> QED BY <5>1, <3>3, <3>7, <4>1 DEF fe
        <4>2. CASE i # Len(y) + 1
          <5>1. i \in 1..Len(y)
            BY <4>2
          <5>2. w[i] = ey[i]
            BY <3>8, <2>1, <5>1
          <5> QED BY <5>1, <5>2, <3>2, <3>6, <3>7
        <4> QED BY <4>1, <4>2
      <3> HIDE DEF w, Each
      <3>11. Len(w) = Len(y) + 1 /\ Len(Each(z)) = Len(y) + 1
        BY <3>5, <3>9
      <3>12. Each(z) = w
        BY <3>5, <3>9, <3>10, <3>11, SeqEqual
      <3> QED BY <3>12 DEF w, ey
    <2>5. FlattenSeq(Append(Each(y), fe)) = FlattenSeq(Each(y)) \o fe
      <3>1. Each(y) \in Seq(Seq(S))
        BY <1>1
      <3> HIDE DEF Each, fe
      <3> QED BY <2>1, <3>1, FlattenAppend
    <2>6. FlattenSeq(fy) = FlattenSeq(Each(y))
      BY <1>3
    <2> HIDE DEF Each, T
    <2>7. FlattenSeq(FlattenSeq(z)) = FlattenSeq(Each(z))
      BY ONLY <2>2, <2>3, <2>4, <2>5, <2>6
    <2> QED BY <2>1, <2>7
  <1>4. T \subseteq G
    <2> HIDE DEF G
    <2> QED BY <1>2, <1>3, AllSequences
  <1> HIDE DEF G
  <1>5. x \in T /\ x \in G
    BY <1>4
  <1>6. Each(x) \in Seq(Seq(S))
    BY <1>1
  <1>7. FlattenSeq(FlattenSeq(x)) = FlattenSeq(Each(x))
    BY <1>5 DEF G
  <1> QED BY <1>6, <1>7

\* What f has for the members of K in 1..n, in their order.
Chosen(n, K, f) == FlattenSeq([i \in 1..n |-> IF i \in K THEN <<f[i]>> ELSE <<>>])

(* There are as many as chosen, and each is one of the chosen things.      *)
LEMMA ChosenRows ==
    ASSUME NEW S, NEW n \in Nat, NEW K \in SUBSET (1..n), NEW f,
           \A i \in K : f[i] \in S
    PROVE  /\ Chosen(n, K, f) \in Seq(S)
           /\ Len(Chosen(n, K, f)) = Cardinality(K)
           /\ \A i \in K : f[i] \in ToSet(Chosen(n, K, f))
           /\ \A x \in ToSet(Chosen(n, K, f)) : \E i \in K : x = f[i]
  <1> DEFINE row == [i \in 1..n |-> IF i \in K THEN <<f[i]>> ELSE <<>>]
             Upto(m) == [i \in 1..m |-> row[i]]
             ValuesOf(s) == {s[j] : j \in DOMAIN s}
             Fine(m) == /\ FlattenSeq(Upto(m)) \in Seq(S)
                        /\ Len(FlattenSeq(Upto(m))) = Cardinality(K \cap 1..m)
                        /\ ValuesOf(FlattenSeq(Upto(m))) = {f[i] : i \in K \cap 1..m}
             G == {m \in Nat : m <= n => Fine(m)}
  <1>1. \A i \in 1..n : row[i] \in Seq(S)
    OBVIOUS
  <1>2. 0 \in G
    <2>1. Upto(0) = <<>> /\ <<>> \in Seq(Seq(S)) /\ K \cap 1..0 = {}
      OBVIOUS
    <2>2. FlattenSeq(<<>>) = <<>>
      BY <2>1, FlattenType
    <2>3. Cardinality({}) = 0
      BY FS_EmptySet
    <2>4. ValuesOf(<<>>) = {} /\ {f[i] : i \in {}} = {} /\ <<>> \in Seq(S) /\ Len(<<>>) = 0
      OBVIOUS
    <2> HIDE DEF Upto, ValuesOf
    <2> QED BY <2>1, <2>2, <2>3, <2>4
  <1>3. ASSUME NEW m \in Nat, m \in G PROVE m + 1 \in G
    <2> SUFFICES ASSUME m + 1 <= n PROVE Fine(m + 1)
      <3> HIDE DEF Fine
      <3> QED OBVIOUS
    <2>1. Fine(m) /\ m + 1 \in 1..n
      <3> HIDE DEF Fine
      <3> QED BY <1>3
    <2> DEFINE before == FlattenSeq(Upto(m))
    <2>2. FlattenSeq(Upto(m + 1)) = before \o row[m + 1]
      <3>1. \A i \in 1..(m + 1) : row[i] \in Seq(S)
        BY <1>1
      <3> HIDE DEF row
      <3> QED BY <3>1, FlattenRows
    <2> HIDE DEF Upto
    <2>3. before \in Seq(S) /\ Len(before) = Cardinality(K \cap 1..m)
          /\ ValuesOf(before) = {f[i] : i \in K \cap 1..m}
      BY <2>1
    <2> HIDE DEF before
    <2>4. IsFiniteSet(K \cap 1..m)
      <3>1. IsFiniteSet(1..m)
        BY FS_Interval
      <3> QED BY <3>1, FS_Subset
    <2>5. CASE m + 1 \in K
      <3>1. row[m + 1] = <<f[m + 1]>> /\ f[m + 1] \in S
        BY <2>1, <2>5
      <3>2. before \o <<f[m + 1]>> = Append(before, f[m + 1])
        BY <2>3, <3>1
      <3>3. K \cap 1..(m + 1) = (K \cap 1..m) \cup {m + 1} /\ m + 1 \notin K \cap 1..m
        BY <2>5
      <3>4. Cardinality(K \cap 1..(m + 1)) = Cardinality(K \cap 1..m) + 1
        BY <2>4, <3>3, FS_AddElement
      <3>5. ValuesOf(Append(before, f[m + 1])) = ValuesOf(before) \cup {f[m + 1]}
        <4>1. DOMAIN before = 1..Len(before) /\ DOMAIN Append(before, f[m + 1]) = 1..(Len(before) + 1)
              /\ Len(before) \in Nat
          BY <2>3, <3>1
        <4>2. \A j \in 1..Len(before) : Append(before, f[m + 1])[j] = before[j]
          BY <2>3, <3>1
        <4>3. Append(before, f[m + 1])[Len(before) + 1] = f[m + 1]
          BY <2>3, <3>1
        <4> QED BY <4>1, <4>2, <4>3
      <3>6. {f[i] : i \in K \cap 1..(m + 1)} = {f[i] : i \in K \cap 1..m} \cup {f[m + 1]}
        BY <3>3
      <3>7. Append(before, f[m + 1]) \in Seq(S)
            /\ Len(Append(before, f[m + 1])) = Len(before) + 1
        BY <2>3, <3>1
      <3>8. FlattenSeq(Upto(m + 1)) = Append(before, f[m + 1])
        BY ONLY <2>2, <3>1, <3>2
      <3> HIDE DEF ValuesOf, row
      <3> QED BY <2>3, <3>4, <3>5, <3>6, <3>7, <3>8
    <2>6. CASE m + 1 \notin K
      <3>1. row[m + 1] = <<>>
        BY <2>1, <2>6
      <3>2. before \o <<>> = before
        BY <2>3
      <3>3. K \cap 1..(m + 1) = K \cap 1..m
        BY <2>6
      <3>4. FlattenSeq(Upto(m + 1)) = before
        BY ONLY <2>2, <3>1, <3>2
      <3> HIDE DEF ValuesOf, row
      <3> QED BY <2>3, <3>3, <3>4
    <2> QED BY <2>5, <2>6
  <1>4. n \in G
    <2> HIDE DEF G
    <2> QED BY <1>2, <1>3, AllNumbers
  <1>5. K \cap 1..n = K /\ Upto(n) = row
    OBVIOUS
  <1>6. Fine(n)
    <2> HIDE DEF Fine
    <2> QED BY <1>4
  <1>7. Chosen(n, K, f) = FlattenSeq(Upto(n))
    BY <1>5 DEF Chosen
  <1>8. \A x : ValuesOf(x) = ToSet(x)
    BY DEF ToSet
  <1>9. ToSet(Chosen(n, K, f)) = {f[i] : i \in K}
    BY ONLY <1>5, <1>6, <1>7, <1>8
  <1> HIDE DEF Upto
  <1> QED BY <1>5, <1>6, <1>7, <1>9

-----------------------------------------------------------------------------
(* Largest and least                                                       *)

LEMMA MaxIs ==
    ASSUME NEW n \in Nat, NEW T \in SUBSET (0..n), T # {}
    PROVE  Max(T) \in T /\ \A y \in T : y <= Max(T)
  <1> DEFINE U == {n - y : y \in T}
  <1>1. U \in SUBSET Nat /\ U # {}
    <2>1. \A y \in T : n - y \in Nat
      OBVIOUS
    <2> QED BY <2>1
  <1> HIDE DEF U
  <1>2. PICK u \in U : \A v \in U : u <= v
    BY <1>1, LeastNatural
  <1>3. PICK x \in T : u = n - x
    BY DEF U
  <1>4. ASSUME NEW y \in T PROVE x >= y
    <2>1. n - y \in U
      BY DEF U
    <2>2. n - x <= n - y
      BY <1>2, <1>3, <2>1
    <2> QED BY <2>2
  <1>5. Max(T) \in T /\ \A y \in T : Max(T) >= y
    <2>1. \E z \in T : \A y \in T : z >= y
      BY <1>4
    <2> QED BY <2>1 DEF Max
  <1>6. \A y \in T : y \in Int
    OBVIOUS
  <1> QED BY <1>5, <1>6

LEMMA MinIs ==
    ASSUME NEW T \in SUBSET Nat, T # {}
    PROVE  Min(T) \in T /\ \A y \in T : Min(T) <= y
  <1>1. \E x \in T : \A y \in T : x <= y
    BY LeastNatural
  <1> QED BY <1>1 DEF Min

LEMMA MaxOfTwo ==
    \A a, b \in Int : /\ Max({a, b}) = a \/ Max({a, b}) = b
                      /\ Max({a, b}) \in Int
                      /\ Max({a, b}) >= a /\ Max({a, b}) >= b
  <1> TAKE a, b \in Int
  <1>1. \E x \in {a, b} : \A y \in {a, b} : x >= y
    OBVIOUS
  <1>2. Max({a, b}) \in {a, b} /\ \A y \in {a, b} : Max({a, b}) >= y
    BY <1>1 DEF Max
  <1> QED BY <1>2

LEMMA MinOfTwo ==
    \A a, b \in Int : /\ Min({a, b}) = a \/ Min({a, b}) = b
                      /\ Min({a, b}) \in Int
                      /\ Min({a, b}) <= a /\ Min({a, b}) <= b
  <1> TAKE a, b \in Int
  <1>1. \E x \in {a, b} : \A y \in {a, b} : x <= y
    OBVIOUS
  <1>2. Min({a, b}) \in {a, b} /\ \A y \in {a, b} : Min({a, b}) <= y
    BY <1>1 DEF Min
  <1> QED BY <1>2

-----------------------------------------------------------------------------
(* Parts of a sequence                                                     *)

LEMMA SubSeqOne ==
    ASSUME NEW S, NEW s \in Seq(S), NEW i \in 1..Len(s)
    PROVE  SubSeq(s, i, i) = <<s[i]>>
  <1>1. Len(s) \in Nat /\ i \in i..Len(s) /\ i \in Int /\ i + 1 \in Int /\ i < i + 1
    OBVIOUS
  <1>2. SubSeq(s, i, i) = <<s[i]>> \o SubSeq(s, i + 1, i)
    BY <1>1, SubSeqRecursiveFirst
  <1>3. SubSeq(s, i + 1, i) = <<>>
    BY <1>1, SubSeqEmpty
  <1>4. <<s[i]>> \o <<>> = <<s[i]>>
    OBVIOUS
  <1> QED BY ONLY <1>2, <1>3, <1>4

\* Where the part ends that place i is in.
PartEnd(s, starts, i) == Max({j \in i..Len(s) : starts \cap (i + 1)..j = {}})

LEMMA PartEndFacts ==
    ASSUME NEW S, NEW s \in Seq(S), NEW starts \in SUBSET DOMAIN s, NEW i \in DOMAIN s
    PROVE  /\ PartEnd(s, starts, i) \in i..Len(s)
           /\ starts \cap (i + 1)..PartEnd(s, starts, i) = {}
           /\ PartEnd(s, starts, i) < Len(s) => PartEnd(s, starts, i) + 1 \in starts
  <1> DEFINE T == {j \in i..Len(s) : starts \cap (i + 1)..j = {}}
             e == Max(T)
  <1>1. Len(s) \in Nat /\ i \in 1..Len(s) /\ starts \in SUBSET Nat
    OBVIOUS
  <1>2. i \in T /\ T \in SUBSET (0..Len(s))
    BY <1>1
  <1>3. e \in T /\ \A y \in T : y <= e
    <2> HIDE DEF T
    <2> QED BY <1>1, <1>2, MaxIs
  <1>4. PartEnd(s, starts, i) = e
    BY DEF PartEnd
  <1> HIDE DEF e
  <1>5. e \in i..Len(s) /\ starts \cap (i + 1)..e = {}
    BY <1>3
  <1>6. ASSUME e < Len(s) PROVE e + 1 \in starts
    <2>1. e + 1 \notin T
      BY <1>1, <1>2, <1>3
    <2>2. starts \cap (i + 1)..(e + 1) # {}
      BY <1>1, <1>5, <1>6, <2>1
    <2> QED BY <1>1, <1>5, <2>2
  <1> QED BY <1>4, <1>5, <1>6

(* The parts of a sequence are non-empty pieces of it, one for each start, *)
(* and one after the other they are the sequence.                          *)
LEMMA PartsFacts ==
    ASSUME NEW S, NEW s \in Seq(S), NEW starts \in SUBSET DOMAIN s,
           s = <<>> \/ 1 \in starts
    PROVE  /\ Parts(s, starts) \in Seq(Seq(S))
           /\ Len(Parts(s, starts)) = Cardinality(starts)
           /\ \A i \in starts :
                 SubSeq(s, i, PartEnd(s, starts, i)) \in ToSet(Parts(s, starts))
           /\ \A p \in ToSet(Parts(s, starts)) :
                 \E i \in starts : p = SubSeq(s, i, PartEnd(s, starts, i))
           /\ FlattenSeq(Parts(s, starts)) = s
  <1> DEFINE f == [i \in starts |-> SubSeq(s, i, PartEnd(s, starts, i))]
             row == [i \in DOMAIN s |-> IF i \in starts THEN <<f[i]>> ELSE <<>>]
             L == Len(s)
  <1>1. L \in Nat /\ DOMAIN s = 1..L /\ starts \in SUBSET (1..L)
    OBVIOUS
  <1>2. Parts(s, starts) = FlattenSeq(row)
    <2>1. row = [i \in DOMAIN s |->
                   IF i \in starts THEN <<SubSeq(s, i, PartEnd(s, starts, i))>> ELSE <<>>]
      OBVIOUS
    <2> HIDE DEF row
    <2> QED BY <2>1 DEF Parts, PartEnd
  <1>3. \A i \in starts : f[i] \in Seq(S) /\ f[i] = SubSeq(s, i, PartEnd(s, starts, i))
    <2> SUFFICES ASSUME NEW i \in starts PROVE SubSeq(s, i, PartEnd(s, starts, i)) \in Seq(S)
      OBVIOUS
    <2>1. PartEnd(s, starts, i) \in i..L
      BY PartEndFacts
    <2> QED BY <1>1, <2>1, SubSeqProperties
  <1> HIDE DEF f
  <1>4. /\ Chosen(L, starts, f) \in Seq(Seq(S))
        /\ Len(Chosen(L, starts, f)) = Cardinality(starts)
        /\ \A i \in starts : f[i] \in ToSet(Chosen(L, starts, f))
        /\ \A x \in ToSet(Chosen(L, starts, f)) : \E i \in starts : x = f[i]
    <2> DEFINE SS == Seq(S)
    <2>1. \A i \in starts : f[i] \in SS
      BY <1>3
    <2> HIDE DEF SS, L
    <2>2. /\ Chosen(L, starts, f) \in Seq(SS)
          /\ Len(Chosen(L, starts, f)) = Cardinality(starts)
          /\ \A i \in starts : f[i] \in ToSet(Chosen(L, starts, f))
          /\ \A x \in ToSet(Chosen(L, starts, f)) : \E i \in starts : x = f[i]
      <3>1. L \in Nat /\ starts \in SUBSET (1..L)
        BY <1>1
      <3>2. \A i \in starts : f[i] \in SS
        BY <2>1
      <3>3. Chosen(L, starts, f) \in Seq(SS)
        BY ONLY <3>1, <3>2, ChosenRows, Zenon
      <3>4. Len(Chosen(L, starts, f)) = Cardinality(starts)
        BY <3>1, <3>2, <3>3, ChosenRows
      <3>5. ASSUME NEW i \in starts PROVE f[i] \in ToSet(Chosen(L, starts, f))
        BY <3>1, <3>2, ChosenRows
      <3>6. ASSUME NEW x \in ToSet(Chosen(L, starts, f)) PROVE \E i \in starts : x = f[i]
        BY <3>1, <3>2, <3>3, ChosenRows
      <3> QED BY ONLY <3>3, <3>4, <3>5, <3>6
    <2> QED BY <2>2 DEF SS
  <1>5. Chosen(L, starts, f) = FlattenSeq(row)
    BY <1>1 DEF Chosen
  <1>6. \A i \in starts : f[i] = SubSeq(s, i, PartEnd(s, starts, i))
    BY <1>3
  <1>7. FlattenSeq(FlattenSeq(row)) = s
    <2> DEFINE Upto(m) == FlattenSeq([i \in 1..m |-> row[i]])
               G == {m \in Nat : m \in 1..L => /\ Upto(m) \in Seq(Seq(S))
                                               /\ FlattenSeq(Upto(m)) = SubSeq(s, 1, PartEnd(s, starts, m))}
    <2>1. \A i \in 1..L : row[i] \in Seq(Seq(S))
      BY <1>1, <1>3
    <2>2. ASSUME NEW m \in Nat, m + 1 \in 1..L
          PROVE  Upto(m + 1) = Upto(m) \o row[m + 1] /\ Upto(m) \in Seq(Seq(S)) /\ Upto(0) = <<>>
      <3>1. \A i \in 1..(m + 1) : row[i] \in Seq(Seq(S))
        BY <1>1, <2>1, <2>2
      <3> HIDE DEF row
      <3> QED BY <3>1, FlattenRows
    <2>3. ASSUME NEW i \in starts
          PROVE  row[i] = <<SubSeq(s, i, PartEnd(s, starts, i))>>
                 /\ SubSeq(s, i, PartEnd(s, starts, i)) \in Seq(S)
      BY <1>1, <1>3
    <2>4. ASSUME NEW i \in DOMAIN s \ starts PROVE row[i] = <<>>
      OBVIOUS
    <2> HIDE DEF row, Upto
    <2>5. ASSUME NEW m \in Nat, m \in G, m + 1 \in 1..L
          PROVE  Upto(m + 1) \in Seq(Seq(S))
                 /\ FlattenSeq(Upto(m + 1)) = SubSeq(s, 1, PartEnd(s, starts, m + 1))
      <3> DEFINE e == PartEnd(s, starts, m + 1)
                 piece == SubSeq(s, m + 1, e)
      <3>0. /\ e \in (m + 1)..L /\ starts \cap (m + 2)..e = {} /\ (e < L => e + 1 \in starts)
            /\ m + 1 \in Nat
        <4>1. m + 1 \in DOMAIN s /\ (m + 1) + 1 = m + 2
          BY <1>1, <2>5
        <4>2. /\ e \in (m + 1)..L /\ starts \cap ((m + 1) + 1)..e = {}
              /\ e < L => e + 1 \in starts
          BY <4>1, PartEndFacts
        <4> QED BY <4>1, <4>2
      <3>1. CASE m = 0
        <4>1. m + 1 \in starts
          BY <1>1, <2>5, <3>1
        <4>2. row[m + 1] = <<piece>> /\ piece \in Seq(S)
          BY <2>3, <4>1
        <4>3. Upto(m + 1) = <<>> \o <<piece>>
          BY <2>2, <2>5, <3>1, <4>2
        <4>4. <<>> \o <<piece>> = <<piece>> /\ <<piece>> \in Seq(Seq(S))
          BY <4>2
        <4>5. FlattenSeq(<<piece>>) = piece
          BY <4>2, FlattenOne
        <4>6. piece = SubSeq(s, 1, e)
          BY <3>1
        <4> HIDE DEF piece, e
        <4>7. FlattenSeq(Upto(m + 1)) = SubSeq(s, 1, e) /\ Upto(m + 1) \in Seq(Seq(S))
          BY ONLY <4>3, <4>4, <4>5, <4>6
        <4> QED BY <4>7 DEF e
      <3>2. CASE m # 0
        <4> DEFINE d == PartEnd(s, starts, m)
        <4>1. m \in 1..L /\ m \in DOMAIN s
          BY <1>1, <2>5, <3>2
        <4>2. Upto(m) \in Seq(Seq(S)) /\ FlattenSeq(Upto(m)) = SubSeq(s, 1, d)
          BY <2>5, <4>1
        <4>3. d \in m..L /\ starts \cap (m + 1)..d = {} /\ (d < L => d + 1 \in starts)
          BY <4>1, PartEndFacts
        <4> HIDE DEF d, e
        <4>4. CASE m + 1 \in starts
          <5>1. d = m
            BY <4>3, <4>4, <2>5
          <5>2. row[m + 1] = <<piece>> /\ piece \in Seq(S) /\ <<piece>> \in Seq(Seq(S))
            <6>1. row[m + 1] = <<piece>> /\ piece \in Seq(S)
              BY <2>3, <4>4 DEF e
            <6> HIDE DEF piece
            <6> QED BY <6>1
          <5>3. Upto(m + 1) = Upto(m) \o <<piece>>
            BY <2>2, <2>5, <5>2
          <5>4. FlattenSeq(Upto(m) \o <<piece>>) = FlattenSeq(Upto(m)) \o FlattenSeq(<<piece>>)
            BY <4>2, <5>2, FlattenConcat
          <5>5. FlattenSeq(<<piece>>) = piece
            BY <5>2, FlattenOne
          <5>6. SubSeq(s, 1, m) \o SubSeq(s, m + 1, e) = SubSeq(s, 1, e)
            BY <1>1, <3>0, <4>1, ConcatAdjacentSubSeq
          <5>7. FlattenSeq(Upto(m + 1)) = SubSeq(s, 1, e)
            BY ONLY <4>2, <5>1, <5>3, <5>4, <5>5, <5>6
          <5>8. Upto(m + 1) \in Seq(Seq(S))
            <6> HIDE DEF piece
            <6>2. Upto(m) \o <<piece>> \in Seq(Seq(S))
              BY <4>2, <5>2
            <6> QED BY ONLY <5>3, <6>2
          <5> QED BY <5>7, <5>8 DEF e
        <4>5. CASE m + 1 \notin starts
          <5>1. row[m + 1] = <<>>
            BY <1>1, <2>4, <2>5, <4>5
          <5>2. Upto(m) \o <<>> = Upto(m)
            BY <4>2
          <5>3. Upto(m + 1) = Upto(m)
            BY <2>2, <2>5, <5>1, <5>2
          <5>4. d = e
            <6>1. d # m
              BY <1>1, <2>5, <4>3, <4>5
            <6>2. d \in (m + 1)..L
              BY <4>3, <6>1
            <6>3. ~ d < e
              <7>1. d < e => d + 1 \in starts /\ d + 1 \in (m + 2)..e
                BY <1>1, <3>0, <4>3, <6>2
              <7> QED BY <3>0, <7>1
            <6>4. ~ e < d
              <7>1. e < d => e + 1 \in starts /\ e + 1 \in (m + 1)..d
                BY <1>1, <3>0, <4>3, <6>2
              <7> QED BY <4>3, <7>1
            <6> QED BY <3>0, <6>2, <6>3, <6>4
          <5> QED BY <4>2, <5>3, <5>4 DEF e
        <4> QED BY <4>4, <4>5
      <3> QED BY <3>1, <3>2
    <2>6. Nat \subseteq G
      <3>1. 0 \in G
        OBVIOUS
      <3>2. ASSUME NEW m \in Nat, m \in G PROVE m + 1 \in G
        <4>1. m + 1 \in Nat
          OBVIOUS
        <4> QED BY <2>5, <3>2, <4>1
      <3> HIDE DEF G
      <3> QED BY <3>1, <3>2, AllNumbers
    <2>7. CASE L = 0
      <3>1. s = <<>> /\ <<>> \in Seq(Seq(S)) /\ <<>> \in Seq(Seq(Seq(S)))
        BY <2>7
      <3>2. FlattenSeq(<<>>) = <<>>
        BY <3>1, FlattenType
      <3>3. row = <<>>
        BY <1>1, <2>7 DEF row
      <3> QED BY ONLY <3>1, <3>2, <3>3
    <2>8. CASE L # 0
      <3>1. L \in 1..L /\ L \in DOMAIN s
        BY <1>1, <2>8
      <3>2. FlattenSeq(Upto(L)) = SubSeq(s, 1, PartEnd(s, starts, L))
        BY <1>1, <2>6, <3>1
      <3>3. PartEnd(s, starts, L) = L
        <4>1. PartEnd(s, starts, L) \in L..L
          BY <3>1, PartEndFacts
        <4> QED BY <1>1, <4>1
      <3>4. SubSeq(s, 1, L) = s
        BY SubSeqFull
      <3>5. [i \in 1..L |-> row[i]] = row
        BY <1>1 DEF row
      <3> QED BY <3>2, <3>3, <3>4, <3>5 DEF Upto
    <2> QED BY <2>7, <2>8
  <1> HIDE DEF row, L
  <1> QED BY ONLY <1>2, <1>4, <1>5, <1>6, <1>7

-----------------------------------------------------------------------------
(* What words spell                                                        *)

\* The characters of a word.
Spelling(w) == [k \in 1..w.size |-> w.id]

Letters(words) == [i \in DOMAIN words |-> Spelling(words[i])]

LEMMA SpeltIs ==
    ASSUME NEW words \in Seq(Words)
    PROVE  /\ Spelt(words) = FlattenSeq(Letters(words))
           /\ Letters(words) \in Seq(Seq(Nat))
           /\ Spelt(words) \in Seq(Nat)
           /\ Weight(words) = Len(Spelt(words)) /\ Weight(words) \in Nat
  <1>1. Letters(words) \in Seq(Seq(Nat))
    <2>1. DOMAIN words = 1..Len(words) /\ Len(words) \in Nat
      OBVIOUS
    <2>2. ASSUME NEW i \in 1..Len(words) PROVE Spelling(words[i]) \in Seq(Nat)
      <3>1. words[i] \in Words
        OBVIOUS
      <3> QED BY <3>1 DEF Spelling, Words
    <2> QED BY <2>1, <2>2 DEF Letters
  <1>2. Spelt(words) = FlattenSeq(Letters(words))
    BY DEF Spelt, Letters, Spelling
  <1>3. Spelt(words) \in Seq(Nat)
    BY <1>1, <1>2, FlattenType
  <1>4. Len(Spelt(words)) \in Nat
    BY <1>3
  <1> QED BY <1>1, <1>2, <1>3, <1>4 DEF Weight

LEMMA SpeltConcat ==
    ASSUME NEW a \in Seq(Words), NEW b \in Seq(Words)
    PROVE  Spelt(a \o b) = Spelt(a) \o Spelt(b) /\ Weight(a \o b) = Weight(a) + Weight(b)
  <1>1. a \o b \in Seq(Words) /\ Len(a \o b) = Len(a) + Len(b) /\ Len(a) \in Nat /\ Len(b) \in Nat
        /\ DOMAIN a = 1..Len(a) /\ DOMAIN b = 1..Len(b) /\ DOMAIN (a \o b) = 1..(Len(a) + Len(b))
        /\ (\A i \in 1..Len(a) : (a \o b)[i] = a[i])
        /\ \A i \in 1..Len(b) : (a \o b)[Len(a) + i] = b[i]
    OBVIOUS
  <1>2. Letters(a) \in Seq(Seq(Nat)) /\ Letters(b) \in Seq(Seq(Nat)) /\ Letters(a \o b) \in Seq(Seq(Nat))
    BY <1>1, SpeltIs
  <1>3. Letters(a \o b) = Letters(a) \o Letters(b)
    <2> DEFINE la == Letters(a)
               lb == Letters(b)
               c == a \o b
               lc == Letters(c)
               T == Seq(Nat)
    <2>1. Len(la) = Len(a) /\ Len(lb) = Len(b) /\ Len(lc) = Len(a) + Len(b)
      <3>1. DOMAIN la = 1..Len(a) /\ DOMAIN lb = 1..Len(b) /\ DOMAIN lc = 1..(Len(a) + Len(b))
        BY <1>1 DEF Letters
      <3>2. la \in Seq(T) /\ lb \in Seq(T) /\ lc \in Seq(T)
        BY <1>2
      <3> HIDE DEF la, lb, lc, T
      <3> QED BY <1>1, <3>1, <3>2
    <2>2. /\ \A i \in 1..Len(a) : la[i] = Spelling(a[i])
          /\ \A i \in 1..Len(b) : lb[i] = Spelling(b[i])
          /\ \A i \in 1..(Len(a) + Len(b)) : lc[i] = Spelling(c[i])
      BY <1>1 DEF Letters
    <2>3. la \in Seq(T) /\ lb \in Seq(T) /\ lc \in Seq(T)
      BY <1>2
    <2> HIDE DEF la, lb, lc, c, T
    <2>4. la \o lb \in Seq(T) /\ Len(la \o lb) = Len(a) + Len(b)
      BY <2>1, <2>3, ConcatProperties
    <2>5. ASSUME NEW i \in 1..(Len(a) + Len(b)) PROVE (la \o lb)[i] = lc[i]
      <3>1. CASE i <= Len(a)
        <4>1. i \in 1..Len(a)
          BY <1>1, <3>1
        <4>2. (la \o lb)[i] = la[i]
          BY <2>1, <2>3, <4>1
        <4> QED BY <1>1, <2>2, <4>1, <4>2 DEF c
      <3>2. CASE i > Len(a)
        <4>1. i - Len(a) \in 1..Len(b) /\ i = Len(a) + (i - Len(a))
          BY <1>1, <3>2
        <4>2. (la \o lb)[i] = lb[i - Len(a)]
          BY <1>1, <2>1, <2>3, <4>1
        <4>3. c[i] = b[i - Len(a)]
          BY <1>1, <4>1 DEF c
        <4> QED BY <2>2, <4>1, <4>2, <4>3
      <3>3. Len(a) \in Nat /\ Len(b) \in Nat
        BY <1>1
      <3>4. i <= Len(a) \/ i > Len(a)
        BY <3>3
      <3> QED BY ONLY <3>1, <3>2, <3>4, Zenon
    <2>6. la \o lb = lc
      BY <2>1, <2>3, <2>4, <2>5, SeqEqual
    <2> QED BY <2>6 DEF la, lb, lc, c
  <1>4. FlattenSeq(Letters(a) \o Letters(b)) = FlattenSeq(Letters(a)) \o FlattenSeq(Letters(b))
    BY <1>2, FlattenConcat
  <1>5. Spelt(a \o b) = Spelt(a) \o Spelt(b)
    BY <1>1, <1>3, <1>4, SpeltIs
  <1>6. Spelt(a) \in Seq(Nat) /\ Spelt(b) \in Seq(Nat)
    BY SpeltIs
  <1>7. Len(Spelt(a) \o Spelt(b)) = Len(Spelt(a)) + Len(Spelt(b))
    <2> DEFINE sa == Spelt(a)
               sb == Spelt(b)
    <2>1. sa \in Seq(Nat) /\ sb \in Seq(Nat)
      BY <1>6
    <2> HIDE DEF sa, sb
    <2>2. Len(sa \o sb) = Len(sa) + Len(sb)
      BY <2>1
    <2> QED BY <2>2 DEF sa, sb
  <1> QED BY <1>5, <1>7 DEF Weight

LEMMA SpeltOne ==
    ASSUME NEW w \in Words
    PROVE  Spelt(<<w>>) = Spelling(w) /\ Spelling(w) \in Seq(Nat) /\ Len(Spelling(w)) = w.size
           /\ Weight(<<w>>) = w.size
  <1>1. Spelling(w) \in Seq(Nat) /\ Len(Spelling(w)) = w.size
    BY DEF Spelling, Words
  <1>2. <<w>> \in Seq(Words) /\ Letters(<<w>>) = <<Spelling(w)>>
    BY DEF Letters
  <1>3. FlattenSeq(<<Spelling(w)>>) = Spelling(w)
    BY <1>1, FlattenOne
  <1>4. Spelt(<<w>>) = Spelling(w)
    BY <1>2, <1>3, SpeltIs
  <1> QED BY <1>1, <1>4 DEF Weight

LEMMA SpeltNothing == Spelt(<<>>) = <<>> /\ Weight(<<>>) = 0
  <1>1. <<>> \in Seq(Words) /\ Letters(<<>>) = <<>> /\ <<>> \in Seq(Seq(Nat)) /\ Len(<<>>) = 0
    BY DEF Letters
  <1>2. FlattenSeq(<<>>) = <<>>
    BY <1>1, FlattenType
  <1> QED BY <1>1, <1>2, SpeltIs DEF Weight

(* Joined texts spell what each of them spells.                            *)
LEMMA SpeltFlatten ==
    ASSUME NEW x \in Seq(Seq(Words))
    PROVE  /\ [i \in DOMAIN x |-> Spelt(x[i])] \in Seq(Seq(Nat))
           /\ Spelt(FlattenSeq(x)) = FlattenSeq([i \in DOMAIN x |-> Spelt(x[i])])
  <1> DEFINE L == Len(x)
             sp == [i \in 1..L |-> Spelt(x[i])]
             Texts_(m) == FlattenSeq([i \in 1..m |-> x[i]])
             Spells(m) == FlattenSeq([i \in 1..m |-> sp[i]])
             G == {m \in Nat : m <= L => Texts_(m) \in Seq(Words) /\ Spelt(Texts_(m)) = Spells(m)}
  <1>1. L \in Nat /\ DOMAIN x = 1..L /\ \A i \in 1..L : x[i] \in Seq(Words)
    OBVIOUS
  <1>2. \A i \in 1..L : sp[i] = Spelt(x[i]) /\ sp[i] \in Seq(Nat)
    BY <1>1, SpeltIs
  <1>3. [i \in DOMAIN x |-> Spelt(x[i])] = sp /\ sp \in Seq(Seq(Nat))
    BY <1>1, <1>2
  <1>4. 0 \in G
    <2>1. [i \in 1..0 |-> x[i]] = <<>> /\ [i \in 1..0 |-> sp[i]] = <<>> /\ <<>> \in Seq(Seq(Words))
      OBVIOUS
    <2>2. FlattenSeq(<<>>) = <<>>
      BY <2>1, FlattenType
    <2>3. Texts_(0) = <<>> /\ Spells(0) = <<>> /\ <<>> \in Seq(Words)
      BY <2>1, <2>2
    <2> HIDE DEF Texts_, Spells
    <2> QED BY <2>3, SpeltNothing
  <1>5. ASSUME NEW m \in Nat, m \in G PROVE m + 1 \in G
    <2> SUFFICES ASSUME m + 1 <= L
                 PROVE  Texts_(m + 1) \in Seq(Words) /\ Spelt(Texts_(m + 1)) = Spells(m + 1)
      <3> HIDE DEF L, Texts_, Spells
      <3> QED OBVIOUS
    <2>1. Texts_(m) \in Seq(Words) /\ Spelt(Texts_(m)) = Spells(m)
      <3> HIDE DEF L, Texts_, Spells
      <3> QED BY <1>1, <1>5
    <2>2. Texts_(m + 1) = Texts_(m) \o x[m + 1]
      <3>1. \A i \in 1..(m + 1) : x[i] \in Seq(Words)
        BY <1>1
      <3> QED BY <3>1, FlattenRows
    <2>3. Spells(m + 1) = Spells(m) \o sp[m + 1]
      <3>1. \A i \in 1..(m + 1) : sp[i] \in Seq(Nat)
        BY <1>1, <1>2
      <3> HIDE DEF sp
      <3> QED BY <3>1, FlattenRows
    <2>4. x[m + 1] \in Seq(Words) /\ sp[m + 1] = Spelt(x[m + 1])
      BY <1>1, <1>2
    <2> HIDE DEF Texts_, Spells, sp
    <2>5. Spelt(Texts_(m) \o x[m + 1]) = Spelt(Texts_(m)) \o Spelt(x[m + 1])
      BY <2>1, <2>4, SpeltConcat
    <2>6. Texts_(m) \o x[m + 1] \in Seq(Words)
      BY <2>1, <2>4
    <2> QED BY ONLY <2>1, <2>2, <2>3, <2>4, <2>5, <2>6
  <1>6. L \in G
    <2> HIDE DEF G
    <2> QED BY <1>1, <1>4, <1>5, AllNumbers
  <1>7. [i \in 1..L |-> x[i]] = x /\ [i \in 1..L |-> sp[i]] = sp
    OBVIOUS
  <1>8. Spelt(Texts_(L)) = Spells(L)
    <2> HIDE DEF Texts_, Spells
    <2> QED BY <1>1, <1>6
  <1> QED BY <1>3, <1>7, <1>8

(* What a flattened sequence holds is in one of its rows.                  *)
LEMMA FlattenMembers ==
    ASSUME NEW S, NEW x \in Seq(Seq(S))
    PROVE  \A e \in ToSet(FlattenSeq(x)) : \E i \in DOMAIN x : e \in ToSet(x[i])
  <1> DEFINE P(y) == \A e \in ToSet(FlattenSeq(y)) : \E i \in DOMAIN y : e \in ToSet(y[i])
             G == {y \in Seq(Seq(S)) : P(y)}
  <1>1. <<>> \in G
    <2>1. <<>> \in Seq(Seq(S)) /\ DOMAIN <<>> = {}
      OBVIOUS
    <2>2. FlattenSeq(<<>>) = <<>>
      BY <2>1, FlattenType
    <2>3. ToSet(<<>>) = {}
      BY DEF ToSet
    <2> QED BY <2>1, <2>2, <2>3
  <1>2. ASSUME NEW y \in Seq(Seq(S)), NEW t \in Seq(S), y \in G PROVE Append(y, t) \in G
    <2> DEFINE z == Append(y, t)
               fy == FlattenSeq(y)
    <2>1. z \in Seq(Seq(S)) /\ DOMAIN z = 1..(Len(y) + 1) /\ DOMAIN y = 1..Len(y) /\ Len(y) \in Nat
          /\ z[Len(y) + 1] = t /\ \A i \in 1..Len(y) : z[i] = y[i]
      OBVIOUS
    <2>2. FlattenSeq(z) = fy \o t /\ fy \in Seq(S)
      BY FlattenAppend, FlattenType
    <2>3. P(y)
      BY <1>2
    <2> HIDE DEF z, fy
    <2>4. ToSet(fy \o t) \subseteq ToSet(fy) \cup ToSet(t)
      BY <2>2 DEF ToSet
    <2>5. ASSUME NEW e \in ToSet(FlattenSeq(z)) PROVE \E i \in DOMAIN z : e \in ToSet(z[i])
      <3>1. CASE e \in ToSet(t)
        <4>1. Len(y) + 1 \in DOMAIN z
          BY <2>1
        <4> QED BY <2>1, <3>1, <4>1
      <3>2. CASE e \in ToSet(fy)
        <4>1. PICK i \in DOMAIN y : e \in ToSet(y[i])
          BY <2>3, <3>2 DEF fy
        <4>2. i \in DOMAIN z /\ z[i] = y[i]
          BY <2>1
        <4> QED BY <4>1, <4>2
      <3> QED BY <2>2, <2>4, <2>5, <3>1, <3>2
    <2> QED BY <2>1, <2>5 DEF z
  <1>3. Seq(Seq(S)) \subseteq G
    <2> HIDE DEF G
    <2> QED BY <1>1, <1>2, AllSequences
  <1> QED BY <1>3

\* g starts with base and goes on by step.
Recurs(g, n, V, base, step) ==
    g \in [0..n -> V] /\ g[0] = base /\ \A i \in 1..n : g[i] = step[<<i, g[i - 1]>>]

(* A recursive function over an interval exists.                           *)
LEMMA Recursion ==
    ASSUME NEW n \in Nat, NEW V, NEW base \in V, NEW step \in [(1..n) \X V -> V]
    PROVE  \E g : Recurs(g, n, V, base, step)
  <1> DEFINE Works(g, m) == g[0] = base /\ \A i \in 1..m : g[i] = step[<<i, g[i - 1]>>]
             G == {m \in Nat : m <= n => \E g \in [0..m -> V] : Works(g, m)}
  <1>1. 0 \in G
    <2> DEFINE g == [i \in 0..0 |-> base]
    <2>1. g \in [0..0 -> V] /\ g[0] = base /\ 1..0 = {}
      OBVIOUS
    <2> HIDE DEF g
    <2>2. Works(g, 0)
      BY <2>1
    <2> QED BY <2>1, <2>2
  <1>2. ASSUME NEW m \in Nat, m \in G PROVE m + 1 \in G
    <2> SUFFICES ASSUME m + 1 <= n PROVE \E g \in [0..(m + 1) -> V] : Works(g, m + 1)
      OBVIOUS
    <2>1. PICK g \in [0..m -> V] : Works(g, m)
      BY <1>2
    <2> DEFINE v == step[<<m + 1, g[m]>>]
               h == [i \in 0..(m + 1) |-> IF i = m + 1 THEN v ELSE g[i]]
    <2>2. v \in V
      <3>1. <<m + 1, g[m]>> \in (1..n) \X V
        OBVIOUS
      <3> QED BY <3>1
    <2>3. /\ h \in [0..(m + 1) -> V] /\ h[m + 1] = v
          /\ \A i \in 0..m : h[i] = g[i]
      <3> HIDE DEF v
      <3> QED BY <2>2
    <2> HIDE DEF h
    <2>4. ASSUME NEW i \in 1..(m + 1) PROVE h[i] = step[<<i, h[i - 1]>>]
      <3>1. CASE i = m + 1
        <4>1. h[i - 1] = g[m]
          BY <2>3, <3>1
        <4> QED BY <2>3, <3>1, <4>1
      <3>2. CASE i # m + 1
        <4>1. i \in 1..m /\ i \in 0..m /\ i - 1 \in 0..m
          BY <3>2
        <4> QED BY <2>1, <2>3, <4>1
      <3> QED BY <3>1, <3>2
    <2>5. h[0] = base
      BY <2>1, <2>3
    <2> QED BY <2>3, <2>4, <2>5
  <1>3. n \in G
    <2> HIDE DEF G
    <2> QED BY <1>1, <1>2, AllNumbers
  <1> QED BY <1>3 DEF Recurs

-----------------------------------------------------------------------------
(* Chunks                                                                  *)

\* The unit each unit's chunk starts with, as Starts computes it.
First(units, budget) ==
    LET first[i \in DOMAIN units] ==
          IF i = 1 THEN 1
          ELSE IF Opens(units, first[i - 1], i, budget) THEN i ELSE first[i - 1]
    IN first

LEMMA FirstIs ==
    ASSUME NEW units \in Seq(Seq(Words)), NEW budget
    PROVE  /\ \A i \in DOMAIN units : First(units, budget)[i]
                = IF i = 1 THEN 1
                  ELSE IF Opens(units, First(units, budget)[i - 1], i, budget) THEN i
                  ELSE First(units, budget)[i - 1]
           /\ Starts(units, budget) = {i \in DOMAIN units : First(units, budget)[i] = i}
  <1> DEFINE n == Len(units)
             After(i, v) == IF i = 1 THEN 1 ELSE IF Opens(units, v, i, budget) THEN i ELSE v
             step == [p \in (1..n) \X Nat |-> After(p[1], p[2])]
             F == CHOOSE f : f = [i \in DOMAIN units |-> After(i, f[i - 1])]
  <1>1. n \in Nat /\ DOMAIN units = 1..n
    OBVIOUS
  <1> HIDE DEF n
  <1>2. ASSUME NEW i \in 1..n, NEW v \in Nat PROVE After(i, v) \in Nat
    BY <1>1
  <1>3. step \in [(1..n) \X Nat -> Nat]
    <2> HIDE DEF After
    <2> QED BY <1>2
  <1>4. ASSUME NEW i \in 1..n, NEW v \in Nat PROVE step[<<i, v>>] = After(i, v)
    <2> HIDE DEF After
    <2> QED OBVIOUS
  <1> HIDE DEF step, After
  <1>5. PICK g \in [0..n -> Nat] : \A i \in 1..n : g[i] = step[<<i, g[i - 1]>>]
    <2>1. 1 \in Nat
      OBVIOUS
    <2>2. \E g : Recurs(g, n, Nat, 1, step)
      BY <1>1, <1>3, <2>1, Recursion
    <2> QED BY <2>2 DEF Recurs
  <1> DEFINE h == [i \in DOMAIN units |-> g[i]]
  <1>6. h = [i \in DOMAIN units |-> After(i, h[i - 1])]
    <2>1. ASSUME NEW i \in 1..n PROVE g[i] = After(i, h[i - 1])
      <3>1. CASE i = 1
        <4>1. g[i - 1] \in Nat /\ g[i] = After(i, g[i - 1])
          <5>1. i - 1 \in 0..n
            BY <1>1
          <5>2. g[i - 1] \in Nat
            BY <1>5, <5>1
          <5> QED BY <1>4, <1>5, <5>2
        <4>2. After(1, g[i - 1]) = 1 /\ After(1, h[i - 1]) = 1
          BY DEF After
        <4> QED BY <3>1, <4>1, <4>2
      <3>2. CASE i # 1
        <4>1. i - 1 \in 1..n /\ i - 1 \in 0..n
          BY <1>1, <3>2
        <4>2. h[i - 1] = g[i - 1] /\ g[i - 1] \in Nat
          BY <1>1, <4>1, <1>5
        <4> QED BY <1>4, <1>5, <4>2
      <3> QED BY <3>1, <3>2
    <2> QED BY <1>1, <2>1
  <1>7. F = [i \in DOMAIN units |-> After(i, F[i - 1])]
    <2> HIDE DEF h
    <2> QED BY <1>6
  <1>8. \A i \in DOMAIN units : F[i] = After(i, F[i - 1])
    <2> HIDE DEF F
    <2>1. \A i \in DOMAIN units : [j \in DOMAIN units |-> After(j, F[j - 1])][i] = After(i, F[i - 1])
      OBVIOUS
    <2> QED BY <1>7, <2>1
  <1>9. First(units, budget) = F
    BY DEF First, After
  <1> HIDE DEF F
  <1>10. Starts(units, budget) = {i \in DOMAIN units : First(units, budget)[i] = i}
    BY DEF Starts, First
  <1> QED BY <1>8, <1>9, <1>10 DEF After

(* A chunk starts at the last start there is.                              *)
LEMMA FirstFacts ==
    ASSUME NEW units \in Seq(Seq(Words)), NEW budget, NEW i \in DOMAIN units
    PROVE  /\ First(units, budget)[i] \in 1..i
           /\ First(units, budget)[i] \in Starts(units, budget)
           /\ Starts(units, budget) \cap (First(units, budget)[i] + 1)..i = {}
           /\ i > 1 => /\ i - 1 \in DOMAIN units
                       /\ i \in Starts(units, budget)
                            <=> Opens(units, First(units, budget)[i - 1], i, budget)
                       /\ First(units, budget)[i]
                            = IF i \in Starts(units, budget) THEN i
                                                             ELSE First(units, budget)[i - 1]
           /\ 1 \in Starts(units, budget) /\ First(units, budget)[1] = 1
  <1> DEFINE F == First(units, budget)
             K == Starts(units, budget)
             n == Len(units)
             Fine(j) == F[j] \in 1..j /\ F[j] \in K /\ K \cap (F[j] + 1)..j = {}
             G == {j \in Nat : j \in 1..n => Fine(j)}
  <1>1. n \in Nat /\ DOMAIN units = 1..n /\ i \in 1..n
    OBVIOUS
  <1>2. \A j \in 1..n : F[j] = IF j = 1 THEN 1 ELSE IF Opens(units, F[j - 1], j, budget) THEN j ELSE F[j - 1]
    <2>1. \A j \in DOMAIN units : F[j] = IF j = 1 THEN 1 ELSE IF Opens(units, F[j - 1], j, budget) THEN j ELSE F[j - 1]
      BY FirstIs, Zenon
    <2> HIDE DEF F
    <2> QED BY <1>1, <2>1
  <1>3. K = {j \in 1..n : F[j] = j}
    <2>1. Starts(units, budget) = {j \in DOMAIN units : First(units, budget)[j] = j}
      BY FirstIs
    <2> QED BY <1>1, <2>1
  <1> HIDE DEF F, K, n
  <1>4. 1 \in 1..n /\ F[1] = 1 /\ 1 \in K
    BY <1>1, <1>2, <1>3
  <1>5. ASSUME NEW j \in Nat, j \in G PROVE j + 1 \in G
    <2> SUFFICES ASSUME j + 1 \in 1..n PROVE Fine(j + 1)
      <3> HIDE DEF Fine
      <3> QED OBVIOUS
    <2>1. CASE j = 0
      BY <1>1, <1>4, <2>1
    <2>2. CASE j # 0
      <3>1. j \in 1..n /\ (j + 1) - 1 = j /\ j + 1 # 1
        BY <1>1, <2>2
      <3>2. Fine(j)
        <4> HIDE DEF Fine
        <4> QED BY <1>5, <3>1
      <3>3. F[j + 1] = IF Opens(units, F[j], j + 1, budget) THEN j + 1 ELSE F[j]
        BY <1>2, <3>1
      <3>4. CASE F[j + 1] = j + 1
        BY <1>1, <1>3, <3>4
      <3>5. CASE F[j + 1] # j + 1
        <4>1. F[j + 1] = F[j] /\ j + 1 \notin K
          BY <1>3, <3>3, <3>5
        <4>2. K \cap (F[j] + 1)..(j + 1) = {}
          BY <1>1, <3>1, <3>2, <4>1
        <4> QED BY <3>1, <3>2, <4>1, <4>2
      <3> QED BY <3>4, <3>5
    <2> QED BY <2>1, <2>2
  <1>6. Nat \subseteq G
    <2>1. 0 \in G
      OBVIOUS
    <2> HIDE DEF G
    <2> QED BY <1>5, <2>1, AllNumbers
  <1>7. \A j \in 1..n : Fine(j)
    <2> HIDE DEF Fine
    <2> QED BY <1>1, <1>6
  <1>8. ASSUME i > 1
        PROVE  /\ i - 1 \in 1..n
               /\ i \in K <=> Opens(units, F[i - 1], i, budget)
               /\ F[i] = IF i \in K THEN i ELSE F[i - 1]
    <2>1. i - 1 \in 1..n /\ i # 1
      BY <1>1, <1>8
    <2>2. F[i] = IF Opens(units, F[i - 1], i, budget) THEN i ELSE F[i - 1]
      BY <1>1, <1>2, <2>1
    <2>3. F[i - 1] \in 1..(i - 1)
      BY <1>7, <2>1
    <2>4. F[i - 1] # i
      BY <1>1, <2>3
    <2> QED BY <1>1, <1>3, <2>1, <2>2, <2>4
  <1>9. Fine(i)
    BY <1>1, <1>7
  <1> QED BY <1>1, <1>4, <1>8, <1>9 DEF F, K, n

LEMMA UnitsFacts ==
    ASSUME NEW words \in Seq(Words), NEW break
    PROVE  /\ Units(words, break) \in Seq(Seq(Words))
           /\ FlattenSeq(Units(words, break)) = words
  <1> DEFINE starts == {i \in DOMAIN words : i = 1 \/ words[i].gap >= break}
  <1>1. starts \in SUBSET DOMAIN words /\ (words = <<>> \/ 1 \in starts)
    OBVIOUS
  <1>2. Units(words, break) = Parts(words, starts)
    BY DEF Units
  <1> HIDE DEF starts
  <1> QED BY <1>1, <1>2, PartsFacts

(* Words are the units where even the weakest break parts.                 *)
LEMMA WordUnits ==
    ASSUME NEW words \in Seq(Words)
    PROVE  \A u \in ToSet(Units(words, Word)) : \E w \in Words : u = <<w>>
  <1> DEFINE starts == {i \in DOMAIN words : i = 1 \/ words[i].gap >= Word}
  <1>1. starts = DOMAIN words
    <2>1. ASSUME NEW i \in DOMAIN words PROVE words[i].gap >= Word
      <3>1. words[i] \in Words
        OBVIOUS
      <3> QED BY <3>1 DEF Words, Word, Paragraph
    <2> QED BY <2>1
  <1>2. Units(words, Word) = Parts(words, starts) /\ (words = <<>> \/ 1 \in starts)
    BY DEF Units
  <1> HIDE DEF starts
  <1>3. starts \in SUBSET DOMAIN words
    BY <1>1
  <1>4. ASSUME NEW u \in ToSet(Units(words, Word)) PROVE \E w \in Words : u = <<w>>
    <2>1. PICK i \in starts : u = SubSeq(words, i, PartEnd(words, starts, i))
      BY <1>2, <1>3, <1>4, PartsFacts
    <2> DEFINE e == PartEnd(words, starts, i)
    <2>2. e \in i..Len(words) /\ starts \cap (i + 1)..e = {}
      BY <1>1, <1>3, <2>1, PartEndFacts
    <2>3. Len(words) \in Nat /\ DOMAIN words = 1..Len(words) /\ i \in 1..Len(words)
      BY <1>1
    <2> HIDE DEF e
    <2>4. e = i
      BY <1>1, <2>2, <2>3
    <2>5. u = <<words[i]>>
      <3>1. SubSeq(words, i, i) = <<words[i]>>
        BY <2>3, SubSeqOne
      <3> QED BY <2>1, <2>4, <3>1 DEF e
    <2> QED BY <2>3, <2>5
  <1> QED BY <1>4

LEMMA ToSetType ==
    ASSUME NEW S, NEW s \in Seq(S)
    PROVE  ToSet(s) \subseteq S /\ \A i \in DOMAIN s : s[i] \in ToSet(s)
  BY DEF ToSet

(* Greedy chunks are the units, and fit unless they are a single one.      *)
LEMMA GreedyFacts ==
    ASSUME NEW units \in Seq(Seq(Words)), NEW budget \in Nat
    PROVE  /\ Greedy(units, budget) \in Seq(Seq(Words))
           /\ FlattenSeq(Greedy(units, budget)) = FlattenSeq(units)
           /\ Len(Greedy(units, budget)) = Cardinality(Starts(units, budget))
           /\ \A c \in ToSet(Greedy(units, budget)) : Weight(c) <= budget \/ c \in ToSet(units)
  <1> DEFINE K == Starts(units, budget)
             groups == Parts(units, K)
             T == Seq(Words)
  <1>1. K \in SUBSET DOMAIN units /\ (units = <<>> \/ 1 \in K)
    <2>1. K \in SUBSET DOMAIN units
      BY FirstIs
    <2>2. units # <<>> => 1 \in DOMAIN units
      OBVIOUS
    <2> QED BY <2>1, <2>2, FirstFacts
  <1> HIDE DEF K
  <1>2. /\ groups \in Seq(Seq(Seq(Words))) /\ Len(groups) = Cardinality(K)
        /\ FlattenSeq(groups) = units
        /\ \A g \in ToSet(groups) : \E i \in K : g = SubSeq(units, i, PartEnd(units, K, i))
    <2>1. units \in Seq(T)
      OBVIOUS
    <2> HIDE DEF T
    <2>2. /\ groups \in Seq(Seq(T)) /\ Len(groups) = Cardinality(K)
          /\ FlattenSeq(groups) = units
          /\ \A g \in ToSet(groups) : \E i \in K : g = SubSeq(units, i, PartEnd(units, K, i))
      BY <1>1, <2>1, PartsFacts
    <2> QED BY <2>2 DEF T
  <1> HIDE DEF groups
  <1>3. Greedy(units, budget) = [g \in DOMAIN groups |-> FlattenSeq(groups[g])]
    BY DEF Greedy, groups, K
  <1>4. /\ [g \in DOMAIN groups |-> FlattenSeq(groups[g])] \in Seq(Seq(Words))
        /\ FlattenSeq(FlattenSeq(groups)) = FlattenSeq([g \in DOMAIN groups |-> FlattenSeq(groups[g])])
    BY <1>2, FlattenNested
  <1>5. Len([g \in DOMAIN groups |-> FlattenSeq(groups[g])]) = Len(groups)
    BY <1>2
  <1>6. ASSUME NEW c \in ToSet(Greedy(units, budget))
        PROVE  Weight(c) <= budget \/ c \in ToSet(units)
    <2>1. PICK g \in DOMAIN groups : c = FlattenSeq(groups[g])
      <3> HIDE DEF T
      <3> QED BY <1>3, <1>6 DEF ToSet
    <2>2. groups[g] \in ToSet(groups)
      BY DEF ToSet
    <2>3. PICK i \in K : groups[g] = SubSeq(units, i, PartEnd(units, K, i))
      BY <1>2, <2>2
    <2> DEFINE e == PartEnd(units, K, i)
    <2>4. Len(units) \in Nat /\ DOMAIN units = 1..Len(units) /\ i \in 1..Len(units)
      BY <1>1
    <2>5. e \in i..Len(units) /\ K \cap (i + 1)..e = {}
      <3>1. units \in Seq(T) /\ i \in DOMAIN units
        BY <2>4
      <3> HIDE DEF T
      <3> QED BY <1>1, <3>1, PartEndFacts
    <2>6. c = FlattenSeq(SubSeq(units, i, e))
      BY <2>1, <2>3
    <2> HIDE DEF e
    <2>7. CASE e = i
      <3>1. SubSeq(units, i, e) = <<units[i]>> /\ units[i] \in Seq(Words)
        <4>1. units \in Seq(T) /\ units[i] \in T
          BY <2>4
        <4> HIDE DEF T
        <4>2. SubSeq(units, i, i) = <<units[i]>>
          BY <2>4, <4>1, SubSeqOne
        <4> QED BY <2>7, <4>1, <4>2 DEF T
      <3>2. FlattenSeq(<<units[i]>>) = units[i]
        BY <3>1, FlattenOne
      <3>3. units[i] \in ToSet(units)
        BY <2>4 DEF ToSet
      <3> QED BY <2>6, <3>1, <3>2, <3>3
    <2>8. CASE e # i
      <3>1. e \in 1..Len(units) /\ e > i /\ e > 1 /\ e - 1 \in 1..Len(units) /\ e - 1 >= i
        BY <2>4, <2>5, <2>8
      <3>2. e \notin K /\ e \in DOMAIN units
        BY <2>4, <2>5, <3>1
      <3> DEFINE b == First(units, budget)[e - 1]
      <3>3. ~ Opens(units, b, e, budget)
        BY <3>1, <3>2, FirstFacts DEF K
      <3>4. b \in 1..(e - 1) /\ b \in K /\ K \cap (b + 1)..(e - 1) = {}
        <4>1. e - 1 \in DOMAIN units
          BY <2>4, <3>1
        <4> QED BY <4>1, FirstFacts DEF K
      <3> HIDE DEF b
      <3>5. b = i
        <4>1. ~ b < i
          <5>1. b < i => i \in (b + 1)..(e - 1)
            BY <2>4, <3>1, <3>4
          <5> QED BY <3>4, <5>1
        <4>2. ~ i < b
          <5>1. i < b => b \in (i + 1)..e
            BY <2>4, <3>1, <3>4
          <5> QED BY <2>5, <3>4, <5>1
        <4> QED BY <2>4, <3>4, <4>1, <4>2
      <3>6. ~ Weight(c) > budget
        BY <2>6, <3>3, <3>5 DEF Opens
      <3>7. c \in Seq(Words)
        <4>1. Greedy(units, budget) \in Seq(T)
          BY <1>3, <1>4
        <4> HIDE DEF T
        <4>2. c \in T
          BY <1>6, <4>1, ToSetType
        <4> QED BY <4>2 DEF T
      <3>8. Weight(c) \in Nat
        BY <3>7, SpeltIs
      <3> QED BY <3>6, <3>8
    <2> QED BY <2>7, <2>8
  <1> HIDE DEF T
  <1>7. Greedy(units, budget) \in Seq(Seq(Words))
        /\ FlattenSeq(Greedy(units, budget)) = FlattenSeq(units)
        /\ Len(Greedy(units, budget)) = Cardinality(Starts(units, budget))
    BY ONLY <1>2, <1>3, <1>4, <1>5 DEF K
  <1> QED BY <1>6, <1>7

(* Splitting once more leaves the text what it is.                         *)
LEMMA FinerFacts ==
    ASSUME NEW parts \in Seq(Seq(Words)), NEW break, NEW budget \in Nat
    PROVE  /\ Finer(parts, break, budget) \in Seq(Seq(Words))
           /\ FlattenSeq(Finer(parts, break, budget)) = FlattenSeq(parts)
           /\ \A c \in ToSet(Finer(parts, break, budget)) :
                 \/ Weight(c) <= budget
                 \/ \E p \in ToSet(parts) : c \in ToSet(Units(p, break))
  <1> DEFINE T == Seq(Words)
             Row_(p) == IF Weight(p) <= budget THEN <<p>> ELSE Greedy(Units(p, break), budget)
             x == [i \in DOMAIN parts |-> Row_(parts[i])]
  <1>1. DOMAIN parts = 1..Len(parts) /\ Len(parts) \in Nat /\ \A i \in DOMAIN parts : parts[i] \in T
    OBVIOUS
  <1>2. ASSUME NEW p \in T
        PROVE  /\ Row_(p) \in Seq(T) /\ FlattenSeq(Row_(p)) = p
               /\ \A c \in ToSet(Row_(p)) : Weight(c) <= budget \/ c \in ToSet(Units(p, break))
    <2>1. CASE Weight(p) <= budget
      <3>1. Row_(p) = <<p>> /\ <<p>> \in Seq(T)
        BY <2>1
      <3>2. FlattenSeq(<<p>>) = p
        BY FlattenOne
      <3>3. ToSet(<<p>>) = {p}
        BY DEF ToSet
      <3> QED BY <2>1, <3>1, <3>2, <3>3
    <2>2. CASE ~ Weight(p) <= budget
      <3>1. Row_(p) = Greedy(Units(p, break), budget)
        BY <2>2
      <3>2. Units(p, break) \in Seq(Seq(Words)) /\ FlattenSeq(Units(p, break)) = p
        BY UnitsFacts
      <3> HIDE DEF Row_
      <3> QED BY <3>1, <3>2, GreedyFacts
    <2> QED BY <2>1, <2>2
  <1> HIDE DEF Row_
  <1>3. Finer(parts, break, budget) = FlattenSeq(x)
    BY DEF Finer, Row_
  <1>4. x \in Seq(Seq(Seq(Words))) /\ DOMAIN x = DOMAIN parts
    BY <1>1, <1>2
  <1>5. \A i \in DOMAIN parts : x[i] = Row_(parts[i])
    OBVIOUS
  <1> HIDE DEF x
  <1>6. FlattenSeq(x) \in Seq(Seq(Words))
    <2>1. x \in Seq(Seq(T))
      BY <1>4
    <2> HIDE DEF T
    <2>2. FlattenSeq(x) \in Seq(T)
      BY <2>1, FlattenType
    <2> QED BY <2>2 DEF T
  <1>7. FlattenSeq(FlattenSeq(x)) = FlattenSeq(parts)
    <2>1. FlattenSeq(FlattenSeq(x)) = FlattenSeq([i \in DOMAIN x |-> FlattenSeq(x[i])])
      BY <1>4, FlattenNested
    <2>2. \A i \in DOMAIN parts : FlattenSeq(x[i]) = parts[i]
      BY <1>1, <1>2, <1>5
    <2>3. [i \in DOMAIN x |-> FlattenSeq(x[i])] = parts
      BY <1>1, <1>4, <2>2
    <2> QED BY <2>1, <2>3
  <1>8. ASSUME NEW c \in ToSet(FlattenSeq(x))
        PROVE  Weight(c) <= budget \/ \E p \in ToSet(parts) : c \in ToSet(Units(p, break))
    <2>1. PICK i \in DOMAIN x : c \in ToSet(x[i])
      <3>1. x \in Seq(Seq(T))
        BY <1>4
      <3> HIDE DEF T
      <3> QED BY <3>1, FlattenMembers
    <2>2. x[i] = Row_(parts[i]) /\ parts[i] \in T /\ parts[i] \in ToSet(parts)
      BY <1>1, <1>4, <1>5 DEF ToSet
    <2> QED BY <1>2, <2>1, <2>2
  <1> QED BY <1>3, <1>6, <1>7, <1>8

LEMMA Division ==
    ASSUME NEW a \in Nat, NEW b \in Nat \ {0}
    PROVE  a \div b \in Nat /\ b * (a \div b) <= a /\ a < b * (a \div b) + b
  OBVIOUS

\* The same character so many times.
Same(c, m) == [k \in 1..m |-> c]

LEMMA SameConcat ==
    ASSUME NEW c \in Nat, NEW m \in Nat, NEW n \in Nat
    PROVE  Same(c, m) \o Same(c, n) = Same(c, m + n) /\ Same(c, m) \in Seq(Nat)
           /\ Len(Same(c, m)) = m /\ Same(c, 0) = <<>>
  <1> DEFINE s == Same(c, m)
             t == Same(c, n)
             u == Same(c, m + n)
  <1>1. s \in Seq(Nat) /\ t \in Seq(Nat) /\ u \in Seq(Nat)
        /\ Len(s) = m /\ Len(t) = n /\ Len(u) = m + n
        /\ (\A k \in 1..m : s[k] = c) /\ (\A k \in 1..n : t[k] = c) /\ (\A k \in 1..(m + n) : u[k] = c)
    BY DEF Same
  <1>2. Same(c, 0) = <<>>
    BY DEF Same
  <1> HIDE DEF s, t, u
  <1>3. s \o t \in Seq(Nat) /\ Len(s \o t) = m + n
    BY <1>1, ConcatProperties
  <1>4. ASSUME NEW k \in 1..(m + n) PROVE (s \o t)[k] = u[k]
    <2>1. CASE k <= m
      BY <1>1, <2>1
    <2>2. CASE k > m
      BY <1>1, <2>2
    <2>3. k <= m \/ k > m
      OBVIOUS
    <2> QED BY ONLY <2>1, <2>2, <2>3, Zenon
  <1>5. s \o t = u
    BY <1>1, <1>3, <1>4, SeqEqual
  <1> QED BY <1>1, <1>2, <1>5 DEF s, t, u

(* The pieces of a word spell it, and each is within the budget.           *)
LEMMA PiecesFacts ==
    ASSUME NEW w \in Words, NEW budget \in Nat \ {0}
    PROVE  /\ Pieces(w, budget) \in Seq(Seq(Words))
           /\ Spelt(FlattenSeq(Pieces(w, budget))) = Spelling(w)
           /\ \A p \in ToSet(Pieces(w, budget)) : Weight(p) <= budget
  <1> DEFINE n == (w.size + budget - 1) \div budget
             Share(i) == [w EXCEPT !.size = IF i < n THEN budget ELSE w.size - (n - 1) * budget]
             x == Pieces(w, budget)
             Fill(k) == IF k < n THEN k * budget ELSE w.size
  <1>1. w.size \in Nat /\ w.id \in Nat /\ budget \in Nat /\ budget # 0
        /\ w.size + budget - 1 \in Nat
    BY DEF Words
  <1>2. n \in Nat /\ budget * n <= w.size + budget - 1 /\ w.size + budget - 1 < budget * n + budget
    BY <1>1, Division
  <1>3. x = [i \in 1..n |-> <<Share(i)>>]
    BY DEF Pieces
  <1> HIDE DEF n, x
  <1>4. n = 0 => w.size = 0
    BY <1>1, <1>2
  <1>5. n # 0 => (n - 1) * budget < w.size /\ w.size <= n * budget
    <2>1. (n - 1) * budget = n * budget - budget
      BY <1>1, <1>2
    <2>2. budget * n = n * budget /\ n * budget \in Nat
      BY <1>1, <1>2
    <2> DEFINE p == n * budget
    <2> HIDE DEF p
    <2>3. w.size <= p /\ p - budget < w.size
      <3>1. p \in Nat /\ p <= w.size + budget - 1 /\ w.size + budget - 1 < p + budget
        BY <1>2, <2>2 DEF p
      <3> QED BY <1>1, <3>1
    <2> QED BY <2>1, <2>3 DEF p
  <1>6. ASSUME NEW i \in 1..n
        PROVE  /\ Share(i) \in Words /\ Share(i).id = w.id
               /\ Share(i).size = (IF i < n THEN budget ELSE w.size - (n - 1) * budget)
               /\ Share(i).size <= budget /\ Share(i).size \in Nat
    <2> DEFINE size == IF i < n THEN budget ELSE w.size - (n - 1) * budget
    <2>1. size \in Nat /\ size <= budget
      <3>1. CASE i < n
        BY <1>1, <3>1
      <3>2. CASE ~ i < n
        <4>1. n # 0 /\ (n - 1) * budget = n * budget - budget /\ n * budget \in Nat
          BY <1>1, <1>2, <3>2
        <4> DEFINE p == n * budget
        <4> HIDE DEF p
        <4>2. p \in Nat /\ p - budget < w.size /\ w.size <= p
          BY <1>5, <4>1 DEF p
        <4>3. w.size - (p - budget) \in Nat /\ w.size - (p - budget) <= budget
          BY <1>1, <4>2
        <4> QED BY <3>2, <4>1, <4>3 DEF p
      <3> QED BY <3>1, <3>2
    <2> HIDE DEF size
    <2>2. [w EXCEPT !.size = size] \in Words /\ [w EXCEPT !.size = size].size = size
          /\ [w EXCEPT !.size = size].id = w.id
      BY <2>1 DEF Words
    <2> QED BY <2>1, <2>2 DEF size
  <1> HIDE DEF Share
  <1>7. x \in Seq(Seq(Words)) /\ DOMAIN x = 1..n /\ \A i \in 1..n : x[i] = <<Share(i)>>
    BY <1>2, <1>3, <1>6
  <1>8. ASSUME NEW i \in 1..n
        PROVE  Spelt(x[i]) = Same(w.id, Share(i).size) /\ Weight(x[i]) <= budget
    BY <1>6, <1>7, SpeltOne DEF Spelling, Same
  <1>9. \A p \in ToSet(x) : Weight(p) <= budget
    BY <1>7, <1>8 DEF ToSet
  <1>10. ASSUME NEW k \in Nat, k + 1 \in 1..n
         PROVE  Fill(k) \in Nat /\ Fill(k + 1) = Fill(k) + Share(k + 1).size
    <2>1. k < n /\ Fill(k) = k * budget /\ k * budget \in Nat
      BY <1>1, <1>2, <1>10
    <2>2. CASE k + 1 < n
      <3>1. (k + 1) * budget = k * budget + budget
        BY <1>1
      <3> QED BY <1>6, <1>10, <2>1, <2>2, <3>1
    <2>3. CASE ~ k + 1 < n
      <3>1. n - 1 = k /\ n # 0
        BY <1>2, <1>10, <2>3
      <3>2. Share(k + 1).size = w.size - k * budget /\ Fill(k + 1) = w.size
        BY <1>6, <1>10, <2>3, <3>1
      <3> DEFINE p == k * budget
      <3>3. p \in Nat /\ w.size - p \in Int
        BY <1>1, <2>1
      <3> HIDE DEF p
      <3>4. w.size = p + (w.size - p)
        BY <1>1, <3>3
      <3> QED BY <2>1, <3>2, <3>4 DEF p
    <2> QED BY <2>2, <2>3
  <1>11. Spelt(FlattenSeq(x)) = Spelling(w)
    <2> DEFINE sp == [i \in 1..n |-> Spelt(x[i])]
               Upto(k) == FlattenSeq([i \in 1..k |-> sp[i]])
               G == {k \in Nat : k <= n => Upto(k) = Same(w.id, Fill(k))}
    <2>1. \A i \in 1..n : sp[i] = Same(w.id, Share(i).size) /\ sp[i] \in Seq(Nat)
      <3>1. ASSUME NEW i \in 1..n
            PROVE  sp[i] = Same(w.id, Share(i).size) /\ Same(w.id, Share(i).size) \in Seq(Nat)
        <4>1. sp[i] = Spelt(x[i])
          OBVIOUS
        <4>2. Share(i).size \in Nat
          BY <1>6
        <4>3. Same(w.id, Share(i).size) \in Seq(Nat)
          BY <1>1, <4>2, SameConcat
        <4> QED BY <1>8, <4>1, <4>3
      <3> HIDE DEF sp
      <3> QED BY <3>1
    <2>2. Spelt(FlattenSeq(x)) = FlattenSeq(sp)
      <3>1. sp = [i \in DOMAIN x |-> Spelt(x[i])]
        BY <1>7
      <3> HIDE DEF sp
      <3> QED BY <1>7, <3>1, SpeltFlatten
    <2> HIDE DEF sp
    <2>3. 0 \in G
      <3>1. [i \in 1..0 |-> sp[i]] = <<>> /\ <<>> \in Seq(Seq(Nat))
        OBVIOUS
      <3>2. Upto(0) = <<>>
        BY <3>1, FlattenType
      <3>3. Fill(0) = 0
        <4>1. 0 * budget = 0
          BY <1>1
        <4> QED BY <1>2, <1>4, <4>1
      <3>4. Same(w.id, 0) = <<>>
        BY <1>1, SameConcat
      <3> HIDE DEF Upto, Fill
      <3> QED BY <3>2, <3>3, <3>4
    <2>4. ASSUME NEW k \in Nat, k \in G PROVE k + 1 \in G
      <3> SUFFICES ASSUME k + 1 <= n PROVE Upto(k + 1) = Same(w.id, Fill(k + 1))
        <4> HIDE DEF Upto, Fill
        <4> QED OBVIOUS
      <3>1. k + 1 \in 1..n
        BY <1>2
      <3>2. Upto(k) = Same(w.id, Fill(k))
        <4> HIDE DEF Upto, Fill
        <4> QED BY <1>2, <2>4
      <3>3. Upto(k + 1) = Upto(k) \o sp[k + 1]
        <4>1. \A i \in 1..(k + 1) : sp[i] \in Seq(Nat)
          BY <1>2, <2>1
        <4> QED BY <4>1, FlattenRows
      <3>4. sp[k + 1] = Same(w.id, Share(k + 1).size) /\ Share(k + 1).size \in Nat
        BY <1>6, <2>1, <3>1
      <3>5. Fill(k) \in Nat /\ Fill(k + 1) = Fill(k) + Share(k + 1).size
        BY <1>10, <3>1
      <3> HIDE DEF Upto, Fill
      <3>6. Same(w.id, Fill(k)) \o Same(w.id, Share(k + 1).size) = Same(w.id, Fill(k) + Share(k + 1).size)
        BY <1>1, <3>4, <3>5, SameConcat
      <3> QED BY ONLY <3>2, <3>3, <3>4, <3>5, <3>6
    <2>5. n \in G
      <3> HIDE DEF G
      <3> QED BY <1>2, <2>3, <2>4, AllNumbers
    <2>6. Upto(n) = Same(w.id, Fill(n))
      <3> HIDE DEF Upto, Fill
      <3> QED BY <1>2, <2>5
    <2>7. Fill(n) = w.size /\ [i \in 1..n |-> sp[i]] = sp
      BY <1>2 DEF sp
    <2>8. Same(w.id, w.size) = Spelling(w)
      BY DEF Same, Spelling
    <2> HIDE DEF Fill
    <2> QED BY <2>2, <2>6, <2>7, <2>8
  <1> QED BY <1>7, <1>9, <1>11 DEF x

(* Cutting single words leaves what the text spells.                       *)
LEMMA CutFacts ==
    ASSUME NEW parts \in Seq(Seq(Words)), NEW budget \in Nat \ {0},
           \A c \in ToSet(parts) : Weight(c) <= budget \/ \E w \in Words : c = <<w>>
    PROVE  /\ Cut(parts, budget) \in Seq(Seq(Words))
           /\ Spelt(FlattenSeq(Cut(parts, budget))) = Spelt(FlattenSeq(parts))
           /\ \A c \in ToSet(Cut(parts, budget)) : Weight(c) <= budget
  <1> DEFINE T == Seq(Words)
             Row_(p) == IF Weight(p) <= budget THEN <<p>> ELSE Pieces(p[1], budget)
             x == [i \in DOMAIN parts |-> Row_(parts[i])]
  <1>1. /\ DOMAIN parts = 1..Len(parts) /\ Len(parts) \in Nat
        /\ \A i \in DOMAIN parts : parts[i] \in T /\ parts[i] \in ToSet(parts)
    BY DEF ToSet
  <1>2. ASSUME NEW p \in ToSet(parts), p \in T
        PROVE  /\ Row_(p) \in Seq(T) /\ Spelt(FlattenSeq(Row_(p))) = Spelt(p)
               /\ \A c \in ToSet(Row_(p)) : Weight(c) <= budget
    <2>1. CASE Weight(p) <= budget
      <3>1. Row_(p) = <<p>> /\ <<p>> \in Seq(T)
        BY <1>2, <2>1
      <3>2. FlattenSeq(<<p>>) = p
        BY <1>2, FlattenOne
      <3>3. ToSet(<<p>>) = {p}
        BY DEF ToSet
      <3> QED BY <2>1, <3>1, <3>2, <3>3
    <2>2. CASE ~ Weight(p) <= budget
      <3>1. Row_(p) = Pieces(p[1], budget)
        BY <2>2
      <3>2. PICK w \in Words : p = <<w>>
        BY <2>2
      <3>3. p[1] = w /\ Spelt(p) = Spelling(w)
        BY <3>2, SpeltOne
      <3> HIDE DEF Row_
      <3> QED BY <3>1, <3>3, PiecesFacts
    <2> QED BY <2>1, <2>2
  <1> HIDE DEF Row_
  <1>3. Cut(parts, budget) = FlattenSeq(x)
    BY DEF Cut, Row_
  <1>4. x \in Seq(Seq(Seq(Words))) /\ DOMAIN x = DOMAIN parts
    BY <1>1, <1>2
  <1>5. \A i \in DOMAIN parts : x[i] = Row_(parts[i])
    OBVIOUS
  <1> HIDE DEF x
  <1>6. FlattenSeq(x) \in Seq(Seq(Words))
    <2>1. x \in Seq(Seq(T))
      BY <1>4
    <2> HIDE DEF T
    <2>2. FlattenSeq(x) \in Seq(T)
      BY <2>1, FlattenType
    <2> QED BY <2>2 DEF T
  <1>7. Spelt(FlattenSeq(FlattenSeq(x))) = Spelt(FlattenSeq(parts))
    <2> DEFINE y == [i \in DOMAIN x |-> FlattenSeq(x[i])]
    <2>1. FlattenSeq(FlattenSeq(x)) = FlattenSeq(y) /\ y \in Seq(Seq(Words))
      BY <1>4, FlattenNested
    <2>2. DOMAIN y = DOMAIN parts /\ \A i \in DOMAIN parts : y[i] = FlattenSeq(x[i])
      BY <1>4
    <2> HIDE DEF y
    <2>3. \A i \in DOMAIN parts : Spelt(y[i]) = Spelt(parts[i])
      BY <1>1, <1>2, <1>5, <2>2
    <2>4. Spelt(FlattenSeq(y)) = FlattenSeq([i \in DOMAIN y |-> Spelt(y[i])])
      BY <2>1, SpeltFlatten
    <2>5. Spelt(FlattenSeq(parts)) = FlattenSeq([i \in DOMAIN parts |-> Spelt(parts[i])])
      BY SpeltFlatten
    <2>6. [i \in DOMAIN y |-> Spelt(y[i])] = [i \in DOMAIN parts |-> Spelt(parts[i])]
      BY <2>2, <2>3
    <2> QED BY <2>1, <2>4, <2>5, <2>6
  <1>8. ASSUME NEW c \in ToSet(FlattenSeq(x)) PROVE Weight(c) <= budget
    <2>1. PICK i \in DOMAIN x : c \in ToSet(x[i])
      <3>1. x \in Seq(Seq(T))
        BY <1>4
      <3> HIDE DEF T
      <3> QED BY <3>1, FlattenMembers
    <2>2. x[i] = Row_(parts[i]) /\ parts[i] \in T /\ parts[i] \in ToSet(parts)
      BY <1>1, <1>4, <1>5 DEF ToSet
    <2> QED BY <1>2, <2>1, <2>2
  <1> QED BY <1>3, <1>6, <1>7, <1>8

(* The chunks of a text spell it, and none is larger than the budget.      *)
LEMMA ChunkedFacts ==
    ASSUME NEW words \in Seq(Words), NEW budget \in Nat \ {0}
    PROVE  /\ Chunked(words, budget) \in Seq(Seq(Words))
           /\ Spelt(FlattenSeq(Chunked(words, budget))) = Spelt(words)
           /\ \A c \in ToSet(Chunked(words, budget)) : Weight(c) <= budget
  <1> DEFINE T == Seq(Words)
             p0 == <<words>>
             p1 == Finer(p0, Paragraph, budget)
             p2 == Finer(p1, Sentence, budget)
             p3 == Finer(p2, Line, budget)
             p4 == Finer(p3, Word, budget)
  <1>1. p0 \in Seq(Seq(Words)) /\ FlattenSeq(p0) = words
    BY FlattenOne
  <1> HIDE DEF p0
  <1>2. p1 \in Seq(Seq(Words)) /\ FlattenSeq(p1) = words
    BY <1>1, FinerFacts
  <1> HIDE DEF p1
  <1>3. p2 \in Seq(Seq(Words)) /\ FlattenSeq(p2) = words
    BY <1>2, FinerFacts
  <1> HIDE DEF p2
  <1>4. p3 \in Seq(Seq(Words)) /\ FlattenSeq(p3) = words
    BY <1>3, FinerFacts
  <1> HIDE DEF p3
  <1>5. p4 \in Seq(Seq(Words)) /\ FlattenSeq(p4) = words
        /\ \A c \in ToSet(p4) : Weight(c) <= budget
                                \/ \E p \in ToSet(p3) : c \in ToSet(Units(p, Word))
    BY <1>4, FinerFacts
  <1> HIDE DEF p4
  <1>6. ASSUME NEW p \in ToSet(p3), NEW c \in ToSet(Units(p, Word))
        PROVE  \E w \in Words : c = <<w>>
    <2>1. p \in Seq(Words)
      BY <1>4, ToSetType
    <2> QED BY <2>1, WordUnits
  <1>7. Chunked(words, budget) = Cut(p4, budget)
    BY DEF Chunked, p0, p1, p2, p3, p4
  <1>8. \A c \in ToSet(p4) : Weight(c) <= budget \/ \E w \in Words : c = <<w>>
    BY <1>5, <1>6
  <1> QED BY <1>5, <1>7, <1>8, CutFacts

-----------------------------------------------------------------------------
(* Messages                                                                *)

Increasing(s) == \A i, j \in DOMAIN s : i < j => s[i] < s[j]

LEMMA AscendingFacts ==
    ASSUME NEW n \in Nat, NEW K
    PROVE  /\ Ascending(n, K) \in Seq(Nat)
           /\ ToSet(Ascending(n, K)) = K \cap 1..n
           /\ Increasing(Ascending(n, K))
  <1> DEFINE row == [i \in 1..n |-> IF i \in K THEN <<i>> ELSE <<>>]
             A(m) == FlattenSeq([i \in 1..m |-> row[i]])
             Fine(m) == A(m) \in Seq(Nat) /\ ToSet(A(m)) = K \cap 1..m /\ Increasing(A(m))
             G == {m \in Nat : m <= n => Fine(m)}
  <1>1. \A i \in 1..n : row[i] \in Seq(Nat) /\ row[i] = IF i \in K THEN <<i>> ELSE <<>>
    OBVIOUS
  <1>2. A(n) = Ascending(n, K)
    <2>1. [i \in 1..n |-> row[i]] = [i \in 1..n |-> IF i \in K THEN <<i>> ELSE <<>>]
      OBVIOUS
    <2> HIDE DEF row
    <2> QED BY <2>1 DEF Ascending
  <1> HIDE DEF row
  <1>3. 0 \in G
    <2>1. [i \in 1..0 |-> row[i]] = <<>> /\ <<>> \in Seq(Seq(Nat)) /\ <<>> \in Seq(Nat) /\ 1..0 = {}
      OBVIOUS
    <2>2. A(0) = <<>>
      BY <2>1, FlattenType
    <2>3. ToSet(<<>>) = {} /\ Increasing(<<>>)
      BY DEF ToSet, Increasing
    <2> HIDE DEF A
    <2> QED BY <2>1, <2>2, <2>3
  <1>4. ASSUME NEW m \in Nat, m \in G PROVE m + 1 \in G
    <2> SUFFICES ASSUME m + 1 <= n PROVE Fine(m + 1)
      <3> HIDE DEF Fine
      <3> QED OBVIOUS
    <2>1. Fine(m) /\ m + 1 \in 1..n
      <3> HIDE DEF Fine
      <3> QED BY <1>4
    <2>2. A(m + 1) = A(m) \o row[m + 1]
      <3>1. ASSUME NEW i \in 1..(m + 1) PROVE row[i] \in Seq(Nat)
        <4>1. i \in 1..n
          BY <2>1
        <4> QED BY <1>1, <4>1
      <3> QED BY <3>1, FlattenRows
    <2> DEFINE a == A(m)
    <2>3. a \in Seq(Nat) /\ ToSet(a) = K \cap 1..m /\ Increasing(a)
      BY <2>1
    <2> HIDE DEF A
    <2>4. CASE m + 1 \in K
      <3>1. A(m + 1) = a \o <<m + 1>>
        BY <1>1, <2>1, <2>2, <2>4
      <3> DEFINE b == Append(a, m + 1)
      <3> HIDE DEF a
      <3>2. a \o <<m + 1>> = b /\ b \in Seq(Nat)
        BY <2>3
      <3>3. /\ DOMAIN a = 1..Len(a) /\ DOMAIN b = 1..(Len(a) + 1) /\ Len(a) \in Nat
            /\ (\A i \in 1..Len(a) : b[i] = a[i] /\ a[i] \in ToSet(a)) /\ b[Len(a) + 1] = m + 1
        BY <2>3 DEF ToSet
      <3> HIDE DEF b
      <3>4. ToSet(b) = ToSet(a) \cup {m + 1}
        BY <3>3 DEF ToSet
      <3>5. K \cap 1..(m + 1) = (K \cap 1..m) \cup {m + 1}
        BY <2>4
      <3>6. ASSUME NEW i \in DOMAIN b, NEW j \in DOMAIN b, i < j PROVE b[i] < b[j]
        <4>1. i \in 1..Len(a) /\ b[i] = a[i] /\ a[i] \in 1..m
          BY <2>3, <3>3, <3>6
        <4>2. CASE j = Len(a) + 1
          BY <3>3, <4>1, <4>2
        <4>3. CASE j # Len(a) + 1
          <5>1. j \in 1..Len(a) /\ b[j] = a[j]
            BY <3>3, <4>3
          <5> QED BY <2>3, <3>3, <3>6, <4>1, <5>1 DEF Increasing
        <4> QED BY <4>2, <4>3
      <3> QED BY <2>3, <3>1, <3>2, <3>4, <3>5, <3>6 DEF Increasing
    <2>5. CASE m + 1 \notin K
      <3>1. A(m + 1) = a \o <<>>
        BY <1>1, <2>1, <2>2, <2>5
      <3> HIDE DEF a
      <3>2. a \o <<>> = a
        BY <2>3
      <3>3. K \cap 1..(m + 1) = K \cap 1..m
        BY <2>5
      <3> QED BY <2>3, <3>1, <3>2, <3>3
    <2> QED BY <2>4, <2>5
  <1>5. n \in G
    <2> HIDE DEF G
    <2> QED BY <1>3, <1>4, AllNumbers
  <1>6. Fine(n)
    <2> HIDE DEF Fine
    <2> QED BY <1>5
  <1> QED BY <1>2, <1>6

\* The places of the messages that stay.
Kept(messages, gone) == Ascending(Len(messages), DOMAIN messages \ gone)

LEMMA WithoutFacts ==
    ASSUME NEW messages \in Seq(Message), NEW gone
    PROVE  /\ Without(messages, gone) \in Seq(Message)
           /\ Kept(messages, gone) \in Seq(Nat) /\ Increasing(Kept(messages, gone))
           /\ ToSet(Kept(messages, gone)) = DOMAIN messages \ gone
           /\ DOMAIN Without(messages, gone) = DOMAIN Kept(messages, gone)
           /\ \A i \in DOMAIN Kept(messages, gone) :
                 /\ Kept(messages, gone)[i] \in DOMAIN messages \ gone
                 /\ Without(messages, gone)[i] = messages[Kept(messages, gone)[i]]
           /\ \A k \in DOMAIN messages \ gone :
                 \E i \in DOMAIN Kept(messages, gone) : Kept(messages, gone)[i] = k
  <1> DEFINE kept == Kept(messages, gone)
  <1>1. Len(messages) \in Nat /\ DOMAIN messages = 1..Len(messages)
    OBVIOUS
  <1>2. kept \in Seq(Nat) /\ Increasing(kept)
        /\ ToSet(kept) = (DOMAIN messages \ gone) \cap 1..Len(messages)
    BY <1>1, AscendingFacts DEF Kept
  <1>3. Without(messages, gone) = [i \in DOMAIN kept |-> messages[kept[i]]]
    BY DEF Without, Kept
  <1> HIDE DEF kept
  <1>4. ToSet(kept) = DOMAIN messages \ gone
    BY <1>1, <1>2
  <1>5. \A i \in DOMAIN kept : kept[i] \in DOMAIN messages \ gone
    BY <1>4 DEF ToSet
  <1>6. \A k \in DOMAIN messages \ gone : \E i \in DOMAIN kept : kept[i] = k
    BY <1>4 DEF ToSet
  <1>7. Without(messages, gone) \in Seq(Message)
    <2>1. \A i \in DOMAIN kept : messages[kept[i]] \in Message
      BY <1>1, <1>5
    <2>2. DOMAIN kept = 1..Len(kept) /\ Len(kept) \in Nat
      BY <1>2
    <2> QED BY <1>3, <2>1, <2>2
  <1> QED BY <1>2, <1>3, <1>4, <1>5, <1>6, <1>7 DEF kept

LEMMA UnprotectedFacts ==
    ASSUME NEW messages \in Seq(Message)
    PROVE  /\ Unprotected(messages) \in Seq(Nat) /\ Increasing(Unprotected(messages))
           /\ ToSet(Unprotected(messages)) = {i \in DOMAIN messages : ~IsProtected(messages, i)}
  <1> DEFINE K == {i \in DOMAIN messages : ~IsProtected(messages, i)}
  <1>1. Len(messages) \in Nat /\ DOMAIN messages = 1..Len(messages)
    OBVIOUS
  <1>2. Unprotected(messages) = Ascending(Len(messages), K) /\ K \subseteq 1..Len(messages)
    BY <1>1 DEF Unprotected
  <1> HIDE DEF K
  <1>3. K \cap 1..Len(messages) = K
    BY <1>2
  <1>4. Unprotected(messages) \in Seq(Nat) /\ Increasing(Unprotected(messages))
        /\ ToSet(Unprotected(messages)) = K
    BY <1>1, <1>2, <1>3, AscendingFacts
  <1> QED BY <1>4 DEF K

\* The function Count is defined by.
Counts(messages) ==
    LET sum[i \in 0..Len(messages)] ==
          IF i = 0 THEN 0 ELSE sum[i - 1] + messages[i].size + Overhead
    IN sum

LEMMA CountIs ==
    ASSUME NEW messages \in Seq(Message)
    PROVE  /\ Counts(messages)[0] = 0
           /\ \A i \in 1..Len(messages) :
                 Counts(messages)[i] = Counts(messages)[i - 1] + messages[i].size + Overhead
           /\ Count(messages) = Counts(messages)[Len(messages)]
           /\ Count(messages) \in Nat
  <1> DEFINE n == Len(messages)
             After(i, v) == v + messages[i].size + Overhead
             step == [p \in (1..n) \X Nat |-> After(p[1], p[2])]
             F == CHOOSE f : f = [i \in 0..n |-> IF i = 0 THEN 0 ELSE After(i, f[i - 1])]
  <1>1. n \in Nat
    OBVIOUS
  <1>2. ASSUME NEW i \in 1..n, NEW v \in Nat PROVE After(i, v) \in Nat
    <2>1. messages[i].size \in Nat
      <3>1. messages[i] \in Message
        OBVIOUS
      <3> QED BY <3>1 DEF Message
    <2> QED BY <2>1, FitConstants
  <1> HIDE DEF n
  <1>3. step \in [(1..n) \X Nat -> Nat]
    <2> HIDE DEF After
    <2> QED BY <1>2
  <1>4. ASSUME NEW i \in 1..n, NEW v \in Nat PROVE step[<<i, v>>] = After(i, v)
    <2> HIDE DEF After
    <2> QED OBVIOUS
  <1> HIDE DEF step, After
  <1>5. PICK g : Recurs(g, n, Nat, 0, step)
    <2>1. 0 \in Nat
      OBVIOUS
    <2> QED BY <1>1, <1>3, <2>1, Recursion
  <1>6. g \in [0..n -> Nat] /\ g[0] = 0 /\ \A i \in 1..n : g[i] = step[<<i, g[i - 1]>>]
    BY <1>5 DEF Recurs
  <1>7. g = [i \in 0..n |-> IF i = 0 THEN 0 ELSE After(i, g[i - 1])]
    <2>1. ASSUME NEW i \in 1..n PROVE g[i] = After(i, g[i - 1])
      <3>1. i - 1 \in 0..n
        BY <1>1
      <3>2. g[i - 1] \in Nat
        BY <1>6, <3>1
      <3> QED BY <1>4, <1>6, <3>2
    <2>2. ASSUME NEW i \in 0..n PROVE g[i] = IF i = 0 THEN 0 ELSE After(i, g[i - 1])
      <3>1. i = 0 \/ i \in 1..n
        BY <1>1
      <3>2. i \in 1..n => i # 0
        OBVIOUS
      <3> QED BY <1>6, <2>1, <3>1, <3>2
    <2> QED BY <1>6, <2>2
  <1>8. F = [i \in 0..n |-> IF i = 0 THEN 0 ELSE After(i, F[i - 1])]
    BY <1>7
  <1>9. \A i \in 0..n : F[i] = IF i = 0 THEN 0 ELSE After(i, F[i - 1])
    <2> HIDE DEF F
    <2>1. \A i \in 0..n :
             [j \in 0..n |-> IF j = 0 THEN 0 ELSE After(j, F[j - 1])][i]
               = IF i = 0 THEN 0 ELSE After(i, F[i - 1])
      OBVIOUS
    <2> QED BY <1>8, <2>1
  <1>10. Counts(messages) = F /\ Count(messages) = F[n]
    BY DEF Counts, Count, After, n
  <1> HIDE DEF F
  <1>11. F[0] = 0 /\ \A i \in 1..n : F[i] = After(i, F[i - 1])
    BY <1>1, <1>9
  <1>12. F[n] \in Nat
    <2> DEFINE G == {m \in Nat : m <= n => F[m] \in Nat}
    <2>1. 0 \in G
      BY <1>11
    <2>2. ASSUME NEW m \in Nat, m \in G PROVE m + 1 \in G
      <3> SUFFICES ASSUME m + 1 <= n PROVE F[m + 1] \in Nat
        OBVIOUS
      <3>1. m + 1 \in 1..n /\ (m + 1) - 1 = m /\ F[m] \in Nat
        BY <1>1, <2>2
      <3>2. F[m + 1] = After(m + 1, F[m])
        BY <1>11, <3>1
      <3> QED BY <1>2, <3>1, <3>2
    <2>3. n \in G
      <3> HIDE DEF G
      <3> QED BY <1>1, <2>1, <2>2, AllNumbers
    <2> QED BY <2>3
  <1> QED BY <1>10, <1>11, <1>12 DEF After, n

-----------------------------------------------------------------------------
(* Long texts: the shape of the state                                      *)

\* What a context window leaves when the answer is reserved.
Reserved(reserve, output) == IF reserve # Unset THEN reserve ELSE output

Room(context, reserve, output) == Max({0, context - Reserved(reserve, output)})

Tighter(cap, context, reserve, output) ==
    IF context = Unset THEN cap
    ELSE IF cap = Unset THEN Room(context, reserve, output)
         ELSE Min({cap, Room(context, reserve, output)})

LEMMA FitLimitFacts ==
    ASSUME NEW cap \in {Unset} \cup Nat, NEW context \in {Unset} \cup Nat,
           NEW reserve \in {Unset} \cup Nat, NEW output \in Nat
    PROVE  /\ FitLimit(cap, context, reserve, output) \in {Unset} \cup Nat
           /\ FitLimit(cap, context, reserve, output) = Tighter(cap, context, reserve, output)
  <1> DEFINE r == IF reserve # Unset THEN reserve ELSE Max({output, 0})
             candidates == {x \in {cap} : x # Unset}
                              \cup {Max({0, x - r}) : x \in {context} \ {Unset}}
             room == Max({0, context - r})
  <1>1. r = Reserved(reserve, output) /\ r \in Nat
    <2>1. output \in Int /\ 0 \in Int
      OBVIOUS
    <2>2. /\ Max({output, 0}) = output \/ Max({output, 0}) = 0
          /\ Max({output, 0}) >= output /\ Max({output, 0}) >= 0
      BY <2>1, MaxOfTwo, Zenon
    <2>3. Max({output, 0}) = output
      BY <2>2
    <2> QED BY <2>3 DEF Unset, Reserved
  <1>2. FitLimit(cap, context, reserve, output)
          = IF candidates = {} THEN Unset ELSE Min(candidates)
    BY DEF FitLimit
  <1> HIDE DEF r
  <1>3. context # Unset => room \in Nat
    <2>1. context # Unset => context - r \in Int /\ 0 \in Int
      BY <1>1
    <2>2. context # Unset => Max({0, context - r}) \in Int /\ Max({0, context - r}) >= 0
      BY <2>1, MaxOfTwo
    <2> QED BY <2>2
  <1>4. CASE cap = Unset /\ context = Unset
    <2>1. candidates = {}
      BY <1>4
    <2> QED BY <1>2, <1>4, <2>1 DEF Tighter
  <1>5. CASE cap # Unset /\ context = Unset
    <2>1. candidates = {cap, cap} /\ cap \in Nat
      BY <1>5
    <2>2. Min({cap, cap}) = cap
      <3>1. cap \in Int
        BY <2>1
      <3> QED BY <3>1, MinOfTwo, Zenon
    <2> HIDE DEF candidates
    <2> QED BY <1>2, <1>5, <2>1, <2>2 DEF Tighter
  <1>6. CASE cap = Unset /\ context # Unset
    <2>1. candidates = {room, room} /\ room \in Nat
      BY <1>3, <1>6
    <2> HIDE DEF room
    <2>2. Min({room, room}) = room
      <3>1. room \in Int
        BY <2>1
      <3> QED BY <3>1, MinOfTwo, Zenon
    <2> HIDE DEF candidates
    <2>3. FitLimit(cap, context, reserve, output) = room
      BY <1>2, <2>1, <2>2
    <2> QED BY <1>1, <1>6, <2>1, <2>3 DEF room, Room, Tighter
  <1>7. CASE cap # Unset /\ context # Unset
    <2>1. candidates = {cap, room} /\ room \in Nat /\ cap \in Nat
      BY <1>3, <1>7
    <2> HIDE DEF room
    <2>2. Min({cap, room}) \in Nat
      <3>1. room \in Int /\ cap \in Int
        BY <2>1
      <3>2. Min({cap, room}) = cap \/ Min({cap, room}) = room
        BY <3>1, MinOfTwo, Zenon
      <3> QED BY <2>1, <3>2
    <2> HIDE DEF candidates
    <2>3. FitLimit(cap, context, reserve, output) = Min({cap, room})
      BY <1>2, <2>1
    <2> QED BY <1>1, <1>7, <2>2, <2>3 DEF room, Room, Tighter
  <1> QED BY <1>4, <1>5, <1>6, <1>7

LEMMA CapAlone ==
    ASSUME NEW cap \in {Unset} \cup Nat, NEW reserve, NEW output
    PROVE  FitLimit(cap, Unset, reserve, output) = cap
  <1> DEFINE candidates == {x \in {cap} : x # Unset}
  <1>1. FitLimit(cap, Unset, reserve, output)
          = IF candidates = {} THEN Unset ELSE Min(candidates)
    <2> DEFINE r == IF reserve # Unset THEN reserve ELSE Max({output, 0})
    <2>1. {Max({0, x - r}) : x \in {Unset} \ {Unset}} = {}
      OBVIOUS
    <2> QED BY <2>1 DEF FitLimit
  <1>2. CASE cap # Unset
    <2>1. candidates = {cap, cap} /\ cap \in Int
      BY <1>2
    <2>2. Min({cap, cap}) = cap
      BY <2>1, MinOfTwo, Zenon
    <2> HIDE DEF candidates
    <2> QED BY <1>1, <2>1, <2>2
  <1>3. CASE cap = Unset
    BY <1>1, <1>3
  <1> QED BY <1>2, <1>3

LEMMA BudgetFacts ==
    ASSUME NEW s \in Setting
    PROVE  /\ ChunkLimit(s) \in {Unset} \cup Nat /\ CallLimit(s) \in {Unset} \cup Nat
           /\ InputBudget(s) \in Nat \ {0}
           /\ SetAside(s) \in Nat
           /\ ChunkLimit(s) > SetAside(s) => InputBudget(s) = ChunkLimit(s) - SetAside(s)
  <1>1. /\ s.context \in {Unset} \cup Nat /\ s.cap \in {Unset} \cup Nat
        /\ s.reserve \in {Unset} \cup Nat /\ s.output \in Nat
        /\ s.held \in Nat /\ s.prompts \in Nat
    BY DEF Setting
  <1>2. FitLimit(s.cap, Unset, Unset, 0) = s.cap
    BY <1>1, CapAlone
  <1>3. ChunkLimit(s) \in {Unset} \cup Nat
    BY <1>1, <1>2 DEF ChunkLimit
  <1>4. CallLimit(s) \in {Unset} \cup Nat
    BY <1>1, FitLimitFacts DEF CallLimit
  <1>a. SetAside(s) \in Nat
    BY <1>1, TextConstants DEF SetAside
  <1> DEFINE b == ChunkLimit(s) - SetAside(s)
  <1>5. b \in Int
    BY <1>3, <1>a DEF Unset
  <1>6. InputBudget(s) = Max({1, b})
    BY DEF InputBudget
  <1> HIDE DEF b
  <1>7. InputBudget(s) \in {1, b} /\ InputBudget(s) \in Int /\ InputBudget(s) >= 1 /\ InputBudget(s) >= b
    BY <1>5, <1>6, MaxOfTwo
  <1>8. InputBudget(s) \in Nat \ {0} /\ (b >= 1 => InputBudget(s) = b)
    BY <1>5, <1>7
  <1>9. ChunkLimit(s) > SetAside(s) => b >= 1
    BY <1>3, <1>a DEF b, Unset
  <1> QED BY <1>3, <1>4, <1>8, <1>9, <1>a DEF b

LEMMA LargestFacts ==
    ASSUME cur \in Seq(Message), Cuttable # {}
    PROVE  Largest \in Cuttable
  <1> DEFINE Beats(i, j) == cur[i].size > cur[j].size \/ (cur[i].size = cur[j].size /\ i <= j)
             C == Cuttable
             n == Len(cur)
             Best(m, i) == i \in C \cap 1..m /\ \A j \in C \cap 1..m : Beats(i, j)
             G == {m \in Nat : C \cap 1..m # {} => \E i : Best(m, i)}
  <1>1. n \in Nat /\ C \subseteq 1..n /\ \A i \in C : cur[i].size \in Nat
    <2>1. \A i \in DOMAIN cur : cur[i] \in Message
      OBVIOUS
    <2> QED BY <2>1 DEF Cuttable, Message
  <1> HIDE DEF C, n
  <1>2. 0 \in G
    OBVIOUS
  <1>3. ASSUME NEW m \in Nat, m \in G PROVE m + 1 \in G
    <2> SUFFICES ASSUME C \cap 1..(m + 1) # {} PROVE \E i : Best(m + 1, i)
      OBVIOUS
    <2>1. CASE m + 1 \notin C
      <3>1. C \cap 1..(m + 1) = C \cap 1..m
        BY <2>1
      <3>2. PICK i : Best(m, i)
        BY <1>3, <3>1
      <3>3. Best(m + 1, i)
        BY <3>1, <3>2
      <3> QED BY <3>3
    <2>2. CASE m + 1 \in C /\ C \cap 1..m = {}
      <3>1. C \cap 1..(m + 1) = {m + 1}
        BY <2>2
      <3>2. Best(m + 1, m + 1)
        BY <3>1
      <3> QED BY <3>2
    <2>3. CASE m + 1 \in C /\ C \cap 1..m # {}
      <3>1. PICK i : Best(m, i)
        BY <1>3, <2>3
      <3>2. C \cap 1..(m + 1) = (C \cap 1..m) \cup {m + 1} /\ i \in C /\ i \in 1..m
        BY <2>3, <3>1
      <3>3. cur[i].size \in Nat /\ cur[m + 1].size \in Nat
        BY <1>1, <2>3, <3>2
      <3>4. CASE cur[i].size >= cur[m + 1].size
        <4>1. Beats(i, m + 1)
          BY <3>2, <3>3, <3>4
        <4>2. Best(m + 1, i)
          <5> HIDE DEF Beats
          <5> QED BY <3>1, <3>2, <4>1
        <4> QED BY <4>2
      <3>5. CASE cur[i].size < cur[m + 1].size
        <4>1. ASSUME NEW j \in C \cap 1..m PROVE Beats(m + 1, j)
          <5>1. Beats(i, j) /\ cur[j].size \in Nat
            BY <1>1, <3>1
          <5> QED BY <3>3, <3>5, <5>1
        <4>2. Beats(m + 1, m + 1)
          BY <3>3
        <4>3. Best(m + 1, m + 1)
          <5> HIDE DEF Beats
          <5> QED BY <2>3, <3>2, <4>1, <4>2
        <4> QED BY <4>3
      <3> QED BY <3>3, <3>4, <3>5
    <2> QED BY <2>1, <2>2, <2>3
  <1>4. n \in G
    <2> HIDE DEF G
    <2> QED BY <1>1, <1>2, <1>3, AllNumbers
  <1>5. C \cap 1..n = C /\ C # {}
    BY <1>1 DEF C
  <1>6. PICK i : Best(n, i)
    BY <1>4, <1>5
  <1>7. i \in Cuttable /\ \A j \in Cuttable :
           cur[i].size > cur[j].size \/ (cur[i].size = cur[j].size /\ i <= j)
    BY <1>5, <1>6 DEF C
  <1> QED BY <1>7 DEF Largest

LEMMA LastUserFacts ==
    ASSUME NEW messages \in Seq(Message), LastUser(messages) # {}
    PROVE  /\ Max(LastUser(messages)) \in LastUser(messages)
           /\ LastUser(messages) = {Max(LastUser(messages))}
           /\ LastUser(messages) \subseteq DOMAIN messages
  <1>1. Len(messages) \in Nat /\ DOMAIN messages = 1..Len(messages)
    OBVIOUS
  <1>2. LastUser(messages) \in SUBSET (0..Len(messages)) /\ LastUser(messages) \subseteq DOMAIN messages
    BY <1>1 DEF LastUser
  <1>3. Max(LastUser(messages)) \in LastUser(messages)
    BY <1>1, <1>2, MaxIs
  <1>4. ASSUME NEW i \in LastUser(messages), NEW j \in LastUser(messages) PROVE i = j
    <2>1. i \in 1..Len(messages) /\ j \in 1..Len(messages) /\ ~ i < j /\ ~ j < i
      BY <1>1 DEF LastUser
    <2> QED BY <1>1, <2>1
  <1> QED BY <1>2, <1>3, <1>4

(* Cutting the last message leaves a message with its place and role.      *)
LEMMA CutLastFacts ==
    ASSUME NEW m \in Message, NEW room \in Nat
    PROVE  CutLast(m, room) \in Message /\ CutLast(m, room).n = m.n /\ CutLast(m, room).role = m.role
  <1> DEFINE chars == Max({MinChars, room \div 2 - Marker - 1})
             half == Max({1, chars \div 2})
  <1>1. MinChars \in Nat /\ Marker \in Nat
    BY FitConstants
  <1>2. room \div 2 - Marker - 1 \in Int
    BY <1>1
  <1>3. chars \in Int /\ chars >= MinChars
    <2>1. MinChars \in Int
      BY <1>1
    <2> QED BY <1>2, <2>1, MaxOfTwo, Zenon
  <1> HIDE DEF chars
  <1>4. chars \in Nat /\ chars \div 2 \in Int /\ 1 \in Int
    BY <1>1, <1>3
  <1>5. half \in Int /\ half >= 1
    BY <1>4, MaxOfTwo, Zenon
  <1> HIDE DEF half
  <1> DEFINE size == 2 * half + Marker + 1
  <1>6. size \in Nat
    BY <1>1, <1>5
  <1> HIDE DEF size
  <1>7. CutLast(m, room) \in {m, Shortened(m, size)}
    BY DEF CutLast, chars, half, size
  <1>8. Shortened(m, size) \in Message /\ Shortened(m, size).n = m.n /\ Shortened(m, size).role = m.role
    BY <1>6 DEF Shortened, Message
  <1> QED BY <1>7, <1>8

(* What a cut of a strategy leaves is a size.                              *)
LEMMA CutSizesFacts ==
    ASSUME cur \in Seq(Message), limit \in Nat, NEW m \in Message,
           NEW size \in CutSizes(m, KeepChars(m), doing)
    PROVE  size \in Nat
  <1>1. Count(cur) \in Nat /\ MinChars \in Nat /\ Marker \in Nat /\ m.size \in Nat
    BY CountIs, FitConstants DEF Message
  <1> DEFINE chars == KeepChars(m)
             low == Max({1, m.size - (Count(cur) - limit)})
  <1>2. low \in Int
    <2>1. 1 \in Int /\ m.size - (Count(cur) - limit) \in Int
      BY <1>1
    <2> QED BY <2>1, MaxOfTwo, Zenon
  <1>3. chars = Max({MinChars, low - Marker})
    BY DEF KeepChars
  <1> HIDE DEF low, chars
  <1>4. chars \in Int /\ chars >= MinChars
    <2>1. MinChars \in Int /\ low - Marker \in Int
      BY <1>1, <1>2
    <2>2. Max({MinChars, low - Marker}) \in Int /\ Max({MinChars, low - Marker}) >= MinChars
      BY <2>1, MaxOfTwo, Zenon
    <2> QED BY <1>3, <2>2
  <1>5. Text(m) \in Int
    BY <1>1 DEF Text
  <1>6. size = m.size \/ size = chars + Marker \/ size \in (Marker + 2)..(Text(m) - 1 + Marker)
    BY DEF CutSizes, chars
  <1> QED BY <1>1, <1>4, <1>5, <1>6

(* A stretch of the unprotected messages is one of unprotected messages.   *)
LEMMA StretchFacts ==
    ASSUME cur \in Seq(Message), NEW a \in Nat \ {0}, NEW b \in Int, b <= Len(Unprotected(cur))
    PROVE  /\ SubSeq(Unprotected(cur), a, b) \in Seq(Nat)
           /\ ToSet(SubSeq(Unprotected(cur), a, b)) \subseteq {i \in DOMAIN cur : ~IsProtected(cur, i)}
  <1> DEFINE un == Unprotected(cur)
             U == {i \in DOMAIN cur : ~IsProtected(cur, i)}
             s == SubSeq(un, a, b)
  <1>1. un \in Seq(Nat) /\ ToSet(un) = U
    BY UnprotectedFacts
  <1> HIDE DEF un, U
  <1>2. Len(un) \in Nat /\ DOMAIN un = 1..Len(un) /\ b <= Len(un)
    BY <1>1 DEF un
  <1>3. \A i \in a..b : un[i] \in ToSet(un) /\ un[i] \in Nat
    BY <1>1, <1>2 DEF ToSet
  <1>4. /\ s \in Seq(Nat) /\ Len(s) = (IF a <= b THEN b - a + 1 ELSE 0)
        /\ \A i \in 1..(b - a + 1) : s[i] = un[a + i - 1]
    BY <1>3, SubSeqProperties
  <1> HIDE DEF s
  <1>5. ASSUME NEW i \in DOMAIN s PROVE s[i] \in U
    <2>1. i \in 1..(b - a + 1) /\ a + i - 1 \in a..b
      BY <1>4
    <2> QED BY <1>1, <1>3, <1>4, <2>1
  <1>6. ToSet(s) \subseteq U
    BY <1>5 DEF ToSet
  <1> QED BY <1>4, <1>6 DEF s, un, U

LEMMA OlderFacts ==
    ASSUME cur \in Seq(Message), Older # <<>>
    PROVE  /\ Older \in Seq(Nat)
           /\ Head(Older) \in {i \in DOMAIN cur : ~IsProtected(cur, i)}
           /\ ToSet(Tail(Older)) \subseteq {i \in DOMAIN cur : ~IsProtected(cur, i)}
  <1> DEFINE un == Unprotected(cur)
             b == Max({0, Len(un) - KeepLast})
             U == {i \in DOMAIN cur : ~IsProtected(cur, i)}
  <1>1. un \in Seq(Nat) /\ Len(un) \in Nat /\ KeepLast \in Nat
    BY UnprotectedFacts, FitConstants
  <1> HIDE DEF un
  <1>2. b \in Int /\ (b = 0 \/ b = Len(un) - KeepLast)
    <2>1. 0 \in Int /\ Len(un) - KeepLast \in Int
      BY <1>1
    <2> QED BY <2>1, MaxOfTwo, Zenon
  <1>3. Older = SubSeq(un, 1, b)
    BY DEF Older, un
  <1> HIDE DEF b
  <1>4. b <= Len(un)
    BY <1>1, <1>2
  <1>5. Older \in Seq(Nat) /\ ToSet(Older) \subseteq U
    BY <1>2, <1>3, <1>4, StretchFacts DEF un
  <1> HIDE DEF U
  <1>6. Head(Older) \in U /\ ToSet(Tail(Older)) \subseteq U
    <2> DEFINE o == Older
    <2>1. o \in Seq(Nat) /\ o # <<>> /\ ToSet(o) \subseteq U
      BY <1>5
    <2> HIDE DEF o
    <2>2. Head(o) \in ToSet(o) /\ ToSet(Tail(o)) \subseteq ToSet(o)
      <3>1. Len(o) \in Nat /\ Len(o) # 0 /\ DOMAIN o = 1..Len(o) /\ Head(o) = o[1]
        BY <2>1
      <3>2. /\ Tail(o) \in Seq(Nat) /\ Len(Tail(o)) = Len(o) - 1
            /\ \A i \in 1..Len(Tail(o)) : Tail(o)[i] = o[i + 1]
        BY <2>1, HeadTailProperties
      <3>3. DOMAIN Tail(o) = 1..(Len(o) - 1)
        BY <3>1, <3>2
      <3>4. ASSUME NEW i \in DOMAIN Tail(o) PROVE Tail(o)[i] \in ToSet(o)
        <4>1. i + 1 \in 1..Len(o) /\ Tail(o)[i] = o[i + 1]
          BY <3>1, <3>2, <3>3
        <4> QED BY <3>1, <4>1 DEF ToSet
      <3>5. Head(o) \in ToSet(o)
        BY <3>1 DEF ToSet
      <3> QED BY <3>4, <3>5 DEF ToSet
    <2> QED BY <2>1, <2>2 DEF o
  <1> QED BY <1>5, <1>6 DEF U

Busy == outcome = "running" /\ doing # "idle" => Len(answers) < Len(chunks)

ToolShape == ToolTypes /\ Busy

(* A turn of a strategy leaves messages.                                   *)
LEMMA FitStepTypes ==
    ASSUME FitTypeOK, FitStep
    PROVE  FitTypeOK' /\ doing # "idle" /\ asked' = asked
  <1> USE DEF FitTypeOK
  <1>1. CASE Choose
    <2>1. turn < Len(strategies) => strategies[turn + 1] \in Strategies /\ turn + 1 \in 0..Len(strategies)
      OBVIOUS
    <2> QED BY <1>1, <2>1, FitConstants DEF Choose
  <1>2. CASE DropOldest
    <2>1. \A gone : Without(cur, gone) \in Seq(Message)
      BY WithoutFacts
    <2> QED BY <1>2, <2>1 DEF DropOldest, Become, Return
  <1>3. CASE DropMiddle
    <2>1. \A gone : Without(cur, gone) \in Seq(Message)
      BY WithoutFacts
    <2> QED BY <1>3, <2>1 DEF DropMiddle, Become, Return
  <1>4. CASE SlidingWindow
    <2>1. \A gone : Without(cur, gone) \in Seq(Message)
      BY WithoutFacts
    <2>2. \A s : Windowed(s) \in Seq(Message)
      BY <2>1 DEF Windowed
    <2>3. cur' \in Seq(Message)
      BY <1>4, <2>2 DEF SlidingWindow
    <2> QED BY <1>4, <2>3 DEF SlidingWindow
  <1>5. CASE Truncate
    <2>1. CASE Return
      BY <1>5, <2>1 DEF Return, Truncate
    <2>2. CASE ~Return
      <3>1. Over /\ Cuttable # {}
        BY <1>5, <2>2 DEF Truncate
      <3>2. PICK size \in CutSizes(cur[Largest], KeepChars(cur[Largest]), doing) :
               Become([cur EXCEPT ![Largest] = Shortened(@, size)])
        BY <1>5, <2>2, <3>1 DEF Truncate
      <3>3. Largest \in DOMAIN cur /\ cur[Largest] \in Message
        <4>1. Largest \in Cuttable
          BY <3>1, LargestFacts
        <4> QED BY <4>1 DEF Cuttable
      <3>4. size \in Nat
        <4>1. limit \in Nat
          BY <3>1 DEF Over
        <4> QED BY <3>2, <3>3, <4>1, CutSizesFacts
      <3>5. Shortened(cur[Largest], size) \in Message
        BY <3>3, <3>4 DEF Shortened, Message
      <3>6. cur' = [cur EXCEPT ![Largest] = Shortened(cur[Largest], size)]
        BY <3>2 DEF Become
      <3>7. cur' \in Seq(Message)
        BY <3>3, <3>5, <3>6
      <3> QED BY <1>5, <3>2, <3>7 DEF Become, Truncate
    <2> QED BY <2>1, <2>2
  <1>6. CASE Summarize
    <2>1. CASE Older = <<>>
      BY <1>6, <2>1 DEF Summarize, Return
    <2>2. CASE Older # <<>>
      <3>1. PICK size \in SummarySizes :
               /\ cur' = Without([cur EXCEPT ![Head(Older)] = Msg(0, "user", size)], ToSet(Tail(Older)))
               /\ doing' = "next"
               /\ UNCHANGED <<asked, limit, strategies, onLast, turn, keep>>
        BY <1>6, <2>2 DEF Summarize
      <3> DEFINE at == [cur EXCEPT ![Head(Older)] = Msg(0, "user", size)]
      <3>2. Msg(0, "user", size) \in Message
        BY FitConstants DEF Msg, Message, Roles
      <3>3. at \in Seq(Message)
        <4>1. Head(Older) \in DOMAIN cur
          BY <2>2, OlderFacts
        <4> QED BY <3>2, <4>1
      <3> HIDE DEF at
      <3>4. \A gone : Without(at, gone) \in Seq(Message)
        BY <3>3, WithoutFacts
      <3>5. cur' \in Seq(Message)
        BY <3>1, <3>4 DEF at
      <3> QED BY <1>6, <3>1, <3>5 DEF Summarize
    <2> QED BY <2>1, <2>2
  <1>7. CASE SummarizeFallsBack
    BY <1>7 DEF SummarizeFallsBack, Strategies
  <1>8. CASE FitLast
    <2>1. cur' \in Seq(Message)
      <3>1. CASE cur' = cur
        BY <3>1
      <3>2. CASE cur' # cur
        <4> DEFINE rest == Count(Without(cur, LastUser(cur)))
                   i == Max(LastUser(cur))
        <4>1. /\ Over /\ LastUser(cur) # {} /\ ~ rest >= limit
              /\ \/ cur' = [cur EXCEPT ![i] = CutLast(cur[i], limit - rest)]
                 \/ \E size \in SummarySizes : cur' = [cur EXCEPT ![i].size = size]
          BY <1>8, <3>2 DEF FitLast
        <4>2. i \in DOMAIN cur /\ cur[i] \in Message
          <5>1. i \in LastUser(cur) /\ LastUser(cur) \subseteq DOMAIN cur
            BY <4>1, LastUserFacts
          <5> QED BY <5>1
        <4>3. rest \in Nat /\ limit \in Nat
          <5>1. Without(cur, LastUser(cur)) \in Seq(Message)
            BY WithoutFacts
          <5>2. rest \in Nat
            BY <5>1, CountIs
          <5> QED BY <4>1, <5>2 DEF Over
        <4> HIDE DEF rest, i
        <4>4. CASE cur' = [cur EXCEPT ![i] = CutLast(cur[i], limit - rest)]
          <5>1. limit - rest \in Nat
            BY <4>1, <4>3
          <5>2. CutLast(cur[i], limit - rest) \in Message
            BY <4>2, <5>1, CutLastFacts
          <5> QED BY <4>2, <4>4, <5>2
        <4>5. CASE \E size \in SummarySizes : cur' = [cur EXCEPT ![i].size = size]
          <5>1. PICK size \in SummarySizes : cur' = [cur EXCEPT ![i].size = size]
            BY <4>5
          <5>2. [cur[i] EXCEPT !.size = size] \in Message
            BY <4>2, FitConstants DEF Message
          <5>3. cur' = [cur EXCEPT ![i] = [cur[i] EXCEPT !.size = size]]
            BY <5>1
          <5> QED BY <4>2, <5>2, <5>3
        <4> QED BY <4>1, <4>4, <4>5
      <3> QED BY <3>1, <3>2
    <2>2. doing' \in {"threw", "fitted"} /\ UNCHANGED <<asked, limit, strategies, onLast, turn, keep>>
          /\ doing = "last"
      BY <1>8 DEF FitLast
    <2> QED BY <2>1, <2>2
  <1> QED BY <1>1, <1>2, <1>3, <1>4, <1>5, <1>6, <1>7, <1>8 DEF FitStep

(* A request of a text: a system prompt and a user prompt.                 *)
LEMMA RequestFacts ==
    ASSUME NEW words \in Seq(Words)
    PROVE  /\ Request(words) \in Seq(Message) /\ Len(Request(words)) = 2
           /\ Count(Request(words)) = SystemSize + PrefixSize + Weight(words) + 2 * Overhead
           /\ \A i \in DOMAIN Request(words) : Request(words)[i].n = i
  <1> DEFINE m == Request(words)
  <1>1. Weight(words) \in Nat /\ Overhead \in Nat
    BY SpeltIs, FitConstants
  <1>2. /\ m \in Seq(Message) /\ Len(m) = 2
        /\ m[1].size = SystemSize /\ m[2].size = PrefixSize + Weight(words)
        /\ m[1].n = 1 /\ m[2].n = 2
    BY <1>1, TextConstants DEF Request, Msg, Message, Roles
  <1> HIDE DEF m
  <1>3. /\ Counts(m)[0] = 0
        /\ \A i \in 1..Len(m) : Counts(m)[i] = Counts(m)[i - 1] + m[i].size + Overhead
        /\ Count(m) = Counts(m)[Len(m)]
    BY <1>2, CountIs
  <1>4. Counts(m)[1] = SystemSize + Overhead
    <2>1. 1 \in 1..Len(m) /\ 1 - 1 = 0
      BY <1>2
    <2>2. Counts(m)[1] = Counts(m)[1 - 1] + m[1].size + Overhead
      BY <1>3, <2>1
    <2>3. Counts(m)[1] = 0 + SystemSize + Overhead
      BY <1>2, <1>3, <2>1, <2>2
    <2> QED BY <1>1, <2>3, TextConstants
  <1>5. Count(m) = SystemSize + Overhead + (PrefixSize + Weight(words)) + Overhead
    <2>1. 2 \in 1..Len(m) /\ 2 - 1 = 1
      BY <1>2
    <2>2. Counts(m)[2] = Counts(m)[2 - 1] + m[2].size + Overhead
      BY <1>3, <2>1
    <2> QED BY <1>2, <1>3, <1>4, <2>1, <2>2
  <1>6. \A i \in DOMAIN m : m[i].n = i
    <2>1. \A i \in DOMAIN m : i = 1 \/ i = 2
      BY <1>2
    <2> QED BY <1>2, <2>1
  <1>7. Count(m) = SystemSize + PrefixSize + Weight(words) + 2 * Overhead
    BY <1>1, <1>5, TextConstants
  <1> QED BY <1>2, <1>6, <1>7 DEF m

LEMMA ToolInitTypes == ToolInit => ToolShape
  <1> SUFFICES ASSUME ToolInit PROVE ToolShape
    OBVIOUS
  <1>1. chunks = <<>> /\ answers = <<>> /\ chunks \in Seq(Seq(Words)) /\ Len(answers) = Len(chunks)
        /\ answers \in Seq([chunk : Seq(Words), whole : BOOLEAN])
    BY DEF ToolInit
  <1>2. CASE TextInit
    <2>1. <<"dropOldest", "truncateLines">> \in Seq(Strategies)
      BY DEF Strategies
    <2>2. FitTypeOK
      BY <1>2, <2>1 DEF TextInit, NoRequest, FitTypeOK, LastMessage
    <2> QED BY <1>1, <1>2, <2>2, TextConstants DEF TextInit, ToolShape, ToolTypes, Busy
  <1>3. CASE TalkInit
    <2>1. PICK talk \in Talks :
            /\ asked = talk.messages /\ cur = talk.messages /\ limit = talk.limit
            /\ strategies = talk.strategies /\ onLast = talk.onLast
            /\ keep = 0 /\ turn = 0 /\ doing = "next"
            /\ text = <<>> /\ mode = "shrink"
            /\ setting = [context |-> Unset, cap |-> Unset, reserve |-> Unset, output |-> 0,
                          held |-> 0, prompts |-> 0]
            /\ outcome = "talk"
      BY <1>3 DEF TalkInit
    <2>2. talk \in Talk
      BY TextConstants
    <2>3. FitTypeOK
      BY <2>1, <2>2 DEF FitTypeOK, Talk
    <2>4. setting \in Setting
      BY <2>1 DEF Setting
    <2> QED BY <1>1, <2>1, <2>3, <2>4 DEF ToolShape, ToolTypes, Busy
  <1> QED BY <1>2, <1>3 DEF ToolInit

LEMMA ToolStepTypes == ToolShape /\ [ToolNext]_toolVars => ToolShape'
  <1> SUFFICES ASSUME ToolShape, [ToolNext]_toolVars PROVE ToolShape'
    OBVIOUS
  <1> USE DEF ToolShape, ToolTypes, Busy
  <1>0. chunks \in Seq(Seq(Words)) /\ answers \in Seq([chunk : Seq(Words), whole : BOOLEAN])
        /\ Len(chunks) \in Nat /\ Len(answers) \in Nat
    OBVIOUS
  <1>1. CASE Split
    <2>1. text \in Seq(Words)
      <3>1. text \in Texts \cup {<<>>}
        OBVIOUS
      <3>2. <<>> \in Seq(Words) /\ Texts \subseteq Seq(Words)
        BY TextConstants
      <3> QED BY <3>1, <3>2
    <2>2. InputBudget(setting) \in Nat \ {0}
      BY BudgetFacts
    <2>3. Chunked(text, InputBudget(setting)) \in Seq(Seq(Words))
      BY <2>1, <2>2, ChunkedFacts
    <2>4. chunks' \in Seq(Seq(Words)) /\ Len(answers) = 0
      BY <1>1, <2>1, <2>3 DEF Split
    <2>5. doing = "idle" /\ Len(chunks') \in Nat
      BY <1>1, <2>4 DEF Split
    <2> QED BY <1>1, <2>4, <2>5 DEF Split, fitVars, FitTypeOK
  <1>2. CASE Ask
    <2>1. chunks[Len(answers) + 1] \in Seq(Words)
      BY <1>0, <1>2 DEF Ask
    <2> DEFINE r == Request(chunks[Len(answers) + 1])
    <2>2. r \in Seq(Message) /\ CallLimit(setting) \in {Unset} \cup Nat
      BY <2>1, RequestFacts, BudgetFacts
    <2>3. /\ asked' = r /\ cur' = r /\ limit' = CallLimit(setting) /\ keep' = 0 /\ turn' = 0
          /\ doing' = "next" /\ Len(answers) < Len(chunks)
          /\ UNCHANGED <<strategies, onLast, textVars>>
      BY <1>2 DEF Ask, Fit
    <2> HIDE DEF r
    <2>4. FitTypeOK'
      BY <2>2, <2>3 DEF FitTypeOK
    <2> QED BY <2>3, <2>4 DEF textVars
  <1>3. CASE Answer
    <2>1. /\ Len(answers) < Len(chunks)
          /\ answers' = Append(answers, [chunk |-> chunks[Len(answers) + 1], whole |-> cur = asked])
          /\ asked' = <<>> /\ cur' = <<>> /\ limit' = Unset /\ keep' = 0
          /\ doing' = "idle" /\ turn' = 0
          /\ UNCHANGED <<strategies, onLast, text, mode, setting, chunks, outcome>>
      BY <1>3 DEF Answer
    <2>2. [chunk |-> chunks[Len(answers) + 1], whole |-> cur = asked] \in [chunk : Seq(Words), whole : BOOLEAN]
      <3>1. chunks[Len(answers) + 1] \in Seq(Words)
        BY <1>0, <2>1
      <3>2. (cur = asked) \in BOOLEAN
        OBVIOUS
      <3> QED BY <3>1, <3>2
    <2>3. answers' \in Seq([chunk : Seq(Words), whole : BOOLEAN]) /\ Len(answers') = Len(answers) + 1
      <3> DEFINE a == [chunk |-> chunks[Len(answers) + 1], whole |-> cur = asked]
                 R == [chunk : Seq(Words), whole : BOOLEAN]
      <3>1. a \in R /\ answers \in Seq(R) /\ answers' = Append(answers, a)
        BY <1>0, <2>1, <2>2
      <3> HIDE DEF a, R
      <3>2. answers' \in Seq(R) /\ Len(answers') = Len(answers) + 1
        BY <3>1
      <3> QED BY <3>2 DEF R
    <2>4. FitTypeOK'
      BY <2>1 DEF FitTypeOK
    <2> QED BY <1>0, <2>1, <2>3, <2>4
  <1>4. CASE CallFails
    BY <1>4 DEF CallFails, fitVars, FitTypeOK
  <1>5. CASE Merge
    BY <1>5 DEF Merge, fitVars, FitTypeOK
  <1>6. CASE FitStep /\ UNCHANGED textVars
    <2>1. FitTypeOK' /\ doing # "idle"
      BY <1>6, FitStepTypes
    <2> QED BY <1>6, <2>1 DEF textVars
  <1>7. CASE UNCHANGED toolVars
    BY <1>7 DEF toolVars, fitVars, textVars, FitTypeOK
  <1> QED BY <1>1, <1>2, <1>3, <1>4, <1>5, <1>6, <1>7 DEF ToolNext

(* Messages, chunks and answers are what they are declared to be, for any  *)
(* texts, settings and conversations.                                      *)
THEOREM LongTextTypes == ToolSpec => []ToolTypes
  <1>1. ToolSpec => []ToolShape
    BY ToolInitTypes, ToolStepTypes, PTL DEF ToolSpec
  <1>2. ToolShape => ToolTypes
    BY DEF ToolShape
  <1> QED BY <1>1, <1>2, PTL

-----------------------------------------------------------------------------
(* Long texts: the chunks are the text                                     *)

SplitOnce == \/ chunks = <<>>
             \/ chunks = IF Splits THEN Chunked(text, InputBudget(setting)) ELSE <<text>>

ChunkInv == ToolShape /\ SplitOnce

LEMMA ChunkInvInit == ToolInit => ChunkInv
  BY ToolInitTypes DEF ChunkInv, SplitOnce, ToolInit

\* Only the split makes chunks; text and settings stay.
LEMMA TextStays ==
    ASSUME [ToolNext]_toolVars
    PROVE  /\ UNCHANGED <<text, mode, setting>>
           /\ ~Split => UNCHANGED chunks
           /\ Splits' = Splits
  <1>1. UNCHANGED <<text, mode, setting>> /\ (~Split => UNCHANGED chunks)
    BY DEF ToolNext, toolVars, textVars, Split, Ask, Answer, CallFails, Merge
  <1>2. Splits' = Splits
    BY <1>1 DEF Splits
  <1> QED BY <1>1, <1>2

LEMMA ChunkInvStep == ChunkInv /\ [ToolNext]_toolVars => ChunkInv'
  <1> SUFFICES ASSUME ChunkInv, [ToolNext]_toolVars PROVE ChunkInv'
    OBVIOUS
  <1>1. ToolShape'
    BY ToolStepTypes DEF ChunkInv
  <1>2. UNCHANGED <<text, mode, setting>> /\ (~Split => UNCHANGED chunks) /\ Splits' = Splits
    BY TextStays
  <1>3. SplitOnce'
    <2>1. CASE Split
      <3>1. chunks' = IF Splits THEN Chunked(text, InputBudget(setting)) ELSE <<text>>
        BY <2>1 DEF Split
      <3> QED BY <1>2, <3>1 DEF SplitOnce
    <2>2. CASE ~Split
      BY <1>2, <2>2 DEF ChunkInv, SplitOnce
    <2> QED BY <2>1, <2>2
  <1> QED BY <1>1, <1>3 DEF ChunkInv

LEMMA ChunkInvHolds == ToolSpec => []ChunkInv
  BY ChunkInvInit, ChunkInvStep, PTL DEF ToolSpec

LEMMA ShapeFacts ==
    ASSUME ToolShape
    PROVE  text \in Seq(Words) /\ setting \in Setting /\ InputBudget(setting) \in Nat \ {0}
  <1>1. text \in Texts \cup {<<>>} /\ setting \in Setting
    BY DEF ToolShape, ToolTypes
  <1>2. <<>> \in Seq(Words) /\ Texts \subseteq Seq(Words)
    BY TextConstants
  <1>3. InputBudget(setting) \in Nat \ {0}
    BY <1>1, BudgetFacts
  <1> QED BY <1>1, <1>2, <1>3

(* No word is lost, doubled or moved when a text is split, and no chunk is *)
(* larger than the budget, for any text and any settings.                  *)
THEOREM SplitKeepsText == ToolSpec => []ChunksAreTheText
  <1>1. ChunkInv => ChunksAreTheText
    <2> SUFFICES ASSUME ChunkInv, chunks # <<>>
                 PROVE  /\ Spelt(FlattenSeq(chunks)) = Spelt(text)
                        /\ Splits => \A c \in ToSet(chunks) : Weight(c) <= InputBudget(setting)
      BY DEF ChunksAreTheText
    <2>1. chunks = IF Splits THEN Chunked(text, InputBudget(setting)) ELSE <<text>>
      BY DEF ChunkInv, SplitOnce
    <2>2. text \in Seq(Words) /\ InputBudget(setting) \in Nat \ {0}
      BY ShapeFacts DEF ChunkInv
    <2>3. CASE Splits
      BY <2>1, <2>2, <2>3, ChunkedFacts
    <2>4. CASE ~Splits
      <3>1. FlattenSeq(<<text>>) = text
        BY <2>2, FlattenOne
      <3> QED BY <2>1, <2>4, <3>1
    <2> QED BY <2>3, <2>4
  <1> QED BY <1>1, ChunkInvHolds, PTL

-----------------------------------------------------------------------------
(* Long texts: a chunk is sent as it is                                    *)

\* The premise of ChunksAreSentWhole.
Ample == Splits /\ ChunkLimit(setting) > SetAside(setting) /\ Covers(setting)

SentInv ==
    /\ setting \in Settings \/ outcome = "talk"
    /\ outcome = "talk" => mode = "shrink"
    /\ Ample => /\ \A a \in ToSet(answers) : a.whole
                /\ doing \in {"idle", "next", "last", "fitted"}
                /\ doing # "idle" => cur = asked /\ ~Over

WholeInv == ChunkInv /\ SentInv

(* A request with a chunk is within the budget of its call.                *)
LEMMA ChunkFits ==
    ASSUME ToolShape, SentInv, Ample,
           NEW c \in Seq(Words), Weight(c) <= InputBudget(setting)
    PROVE  Count(Request(c)) <= CallLimit(setting) /\ CallLimit(setting) # Unset
  <1> DEFINE s == setting
             total == Count(Request(c))
  <1>1. s \in Settings /\ s \in Setting
    BY DEF SentInv, Ample, Splits, ToolShape, ToolTypes
  <1>2. /\ s.context \in {Unset} \cup Nat /\ s.cap \in {Unset} \cup Nat
        /\ s.reserve \in {Unset} \cup Nat /\ s.output \in Nat
    BY <1>1 DEF Setting
  <1> DEFINE reserved == Reserved(s.reserve, s.output)
             left == Room(s.context, s.reserve, s.output)
  <1>a. /\ s.context = Unset => CallLimit(s) = s.cap
        /\ s.context # Unset /\ s.cap = Unset => CallLimit(s) = left
        /\ s.context # Unset /\ s.cap # Unset => CallLimit(s) = Min({s.cap, left})
    <2> DEFINE cap == s.cap
               context == s.context
               reserve == s.reserve
               output == s.output
    <2>1. /\ cap \in {Unset} \cup Nat /\ context \in {Unset} \cup Nat
          /\ reserve \in {Unset} \cup Nat /\ output \in Nat
      BY <1>2
    <2>2. CallLimit(s) = FitLimit(cap, context, reserve, output)
      BY DEF CallLimit
    <2>3. left = Room(context, reserve, output)
      OBVIOUS
    <2>4. (s.context = context) /\ (s.cap = cap)
      OBVIOUS
    <2> HIDE DEF cap, context, reserve, output, left
    <2>5. FitLimit(cap, context, reserve, output) = Tighter(cap, context, reserve, output)
      BY <2>1, FitLimitFacts
    <2> QED BY <2>2, <2>3, <2>4, <2>5 DEF Tighter
  <1>b. left = Max({0, s.context - reserved})
    BY DEF Room
  <1> HIDE DEF reserved, left
  <1>3. ChunkLimit(s) \in Nat
    <2>1. ChunkLimit(s) \in {Unset} \cup Nat
      BY <1>1, BudgetFacts
    <2> QED BY <2>1 DEF Ample, Splits
  <1>4. /\ SystemSize \in Nat /\ PrefixSize \in Nat /\ Safety \in Nat
        /\ Slack \in Nat /\ Slack >= 2 * Overhead /\ Overhead \in Nat
    BY TextConstants, FitConstants
  <1>5. InputBudget(s) = ChunkLimit(s) - SetAside(s) /\ SetAside(s) \in Nat
    BY <1>1, BudgetFacts DEF Ample
  <1>6. total = SystemSize + PrefixSize + Weight(c) + 2 * Overhead /\ Weight(c) \in Nat
    BY RequestFacts, SpeltIs
  <1> DEFINE prompt == SystemSize + PrefixSize + 2 * Overhead
  <1>7. total \in Nat /\ prompt \in Nat /\ total <= ChunkLimit(s) - SetAside(s) + prompt
    <2>1. Weight(c) <= ChunkLimit(s) - SetAside(s)
      BY <1>5
    <2> HIDE DEF total
    <2> QED BY ONLY <1>3, <1>4, <1>5, <1>6, <2>1
  <1>c. IF s.context = Unset THEN SetAside(s) >= prompt
        ELSE /\ SetAside(s) >= prompt + ForAnswer(s)
             /\ s.cap = Unset \/ s.cap >= s.context - ForAnswer(s)
    BY DEF Ample, Covers
  <1> HIDE DEF prompt
  <1> HIDE DEF total
  <1>8. CASE s.context = Unset
    <2>1. ChunkLimit(s) = s.cap
      BY <1>2, <1>8, CapAlone DEF ChunkLimit
    <2>2. CallLimit(s) = s.cap
      BY <1>8, <1>a
    <2>3. s.cap \in Nat /\ total <= s.cap
      BY <1>2, <1>3, <1>5, <1>7, <1>8, <1>c, <2>1
    <2> QED BY <2>2, <2>3 DEF Unset, total
  <1>9. CASE s.context # Unset
    <2> DEFINE room == left
    <2>1. ChunkLimit(s) = s.context /\ s.context \in Nat
      BY <1>2, <1>9 DEF ChunkLimit
    <2>2. reserved \in Nat /\ reserved = ForAnswer(s)
      BY <1>2 DEF reserved, Reserved, ForAnswer
    <2>3. SetAside(s) >= prompt + reserved /\ (s.cap = Unset \/ s.cap >= s.context - reserved)
      BY <1>9, <1>c, <2>2
    <2>4. room \in Int /\ room >= s.context - reserved
      <3>1. 0 \in Int /\ s.context - reserved \in Int
        BY <2>1, <2>2
      <3> QED BY <1>b, <3>1, MaxOfTwo, Zenon
    <2> HIDE DEF room
    <2>a. total <= s.context - reserved
      BY <1>5, <1>7, <2>1, <2>2, <2>3
    <2>5. total <= room
      BY <1>7, <2>1, <2>2, <2>4, <2>a
    <2>6. CASE s.cap = Unset
      <3>1. CallLimit(s) = room
        BY <1>9, <1>a, <2>6 DEF room
      <3> QED BY <1>7, <2>4, <2>5, <3>1 DEF Unset, total
    <2>7. CASE s.cap # Unset
      <3>1. CallLimit(s) = Min({s.cap, room})
        BY <1>9, <1>a, <2>7 DEF room
      <3>2. s.cap \in Nat /\ s.cap \in Int /\ total <= s.cap
        BY <1>2, <1>7, <2>1, <2>2, <2>3, <2>7, <2>a
      <3>3. Min({s.cap, room}) = s.cap \/ Min({s.cap, room}) = room
        BY <2>4, <3>2, MinOfTwo, Zenon
      <3>4. total <= CallLimit(s) /\ CallLimit(s) >= 0
        BY <1>7, <2>4, <2>5, <3>1, <3>2, <3>3
      <3> QED BY <3>4 DEF Unset, total
    <2> QED BY <2>6, <2>7
  <1> QED BY <1>8, <1>9

LEMMA SentInit == ToolInit => SentInv
  <1> SUFFICES ASSUME ToolInit PROVE SentInv
    OBVIOUS
  <1>1. CASE TextInit
    <2>1. ToSet(<<>>) = {}
      BY DEF ToSet
    <2> QED BY <1>1, <2>1 DEF ToolInit, TextInit, SentInv
  <1>2. CASE TalkInit
    BY <1>2 DEF TalkInit, SentInv, Ample, Splits
  <1> QED BY <1>1, <1>2 DEF ToolInit

LEMMA SentStep == WholeInv /\ [ToolNext]_toolVars => SentInv'
  <1> SUFFICES ASSUME WholeInv, [ToolNext]_toolVars PROVE SentInv'
    OBVIOUS
  <1>1. UNCHANGED <<text, mode, setting>> /\ Splits' = Splits
    BY TextStays
  <1>2. ChunkLimit(setting)' = ChunkLimit(setting) /\ Ample' = Ample
    BY <1>1 DEF Ample, ChunkLimit, SetAside, Covers, ForAnswer
  <1>3. ToolShape /\ ToolShape' /\ SentInv /\ SplitOnce
    BY ToolStepTypes DEF WholeInv, ChunkInv
  <1>4. outcome = "talk" <=> outcome' = "talk"
    BY DEF ToolNext, toolVars, textVars, Split, Ask, Answer, CallFails, Merge
  <1> SUFFICES ASSUME Ample
               PROVE  /\ \A a \in ToSet(answers') : a.whole
                      /\ doing' \in {"idle", "next", "last", "fitted"}
                      /\ doing' # "idle" => cur' = asked' /\ ~Over'
    BY <1>1, <1>2, <1>3, <1>4 DEF SentInv
  <1>5. /\ \A a \in ToSet(answers) : a.whole
        /\ doing \in {"idle", "next", "last", "fitted"}
        /\ doing # "idle" => cur = asked /\ ~Over
    BY <1>3 DEF SentInv
  <1>6. CASE UNCHANGED <<fitVars, answers>>
    BY <1>5, <1>6 DEF fitVars, Over
  <1>7. CASE Ask
    <2> DEFINE c == chunks[Len(answers) + 1]
    <2>1. c \in Seq(Words) /\ c \in ToSet(chunks) /\ chunks # <<>>
      <3>1. chunks \in Seq(Seq(Words)) /\ Len(answers) \in Nat /\ Len(chunks) \in Nat
            /\ Len(answers) < Len(chunks)
        BY <1>3, <1>7 DEF ToolShape, ToolTypes, Ask
      <3>2. Len(answers) + 1 \in DOMAIN chunks
        BY <3>1
      <3> QED BY <3>1, <3>2 DEF ToSet
    <2>2. chunks = Chunked(text, InputBudget(setting))
      BY <1>3, <2>1 DEF SplitOnce, Ample
    <2>3. Weight(c) <= InputBudget(setting)
      <3>1. text \in Seq(Words) /\ InputBudget(setting) \in Nat \ {0}
        BY <1>3, ShapeFacts
      <3> QED BY <2>1, <2>2, <3>1, ChunkedFacts
    <2>4. Count(Request(c)) <= CallLimit(setting) /\ CallLimit(setting) # Unset
      BY <1>3, <2>1, <2>3, ChunkFits
    <2>5. Count(Request(c)) \in Nat /\ CallLimit(setting) \in Nat
      <3>1. Count(Request(c)) \in Nat
        BY <2>1, RequestFacts, CountIs
      <3>2. CallLimit(setting) \in {Unset} \cup Nat
        BY <1>3, BudgetFacts, ShapeFacts
      <3> QED BY <2>4, <3>1, <3>2
    <2>6. /\ asked' = Request(c) /\ cur' = Request(c) /\ limit' = CallLimit(setting)
          /\ doing' = "next" /\ UNCHANGED answers
      BY <1>7 DEF Ask, Fit, textVars
    <2> HIDE DEF c
    <2>7. ~Over'
      BY <2>4, <2>5, <2>6 DEF Over
    <2> QED BY <1>5, <2>6, <2>7
  <1>8. CASE Answer
    <2> DEFINE a == [chunk |-> chunks[Len(answers) + 1], whole |-> cur = asked]
    <2>1. answers' = Append(answers, a) /\ doing' = "idle" /\ doing = "fitted"
      BY <1>8 DEF Answer
    <2>2. cur = asked
      BY <1>5, <2>1
    <2>3. a.whole
      BY <2>2
    <2> HIDE DEF a
    <2>4. ToSet(answers') \subseteq ToSet(answers) \cup {a}
      <3> DEFINE R == [chunk : Seq(Words), whole : BOOLEAN]
      <3>1. answers \in Seq(R)
        BY <1>3 DEF ToolShape, ToolTypes
      <3> HIDE DEF R
      <3> QED BY <2>1, <3>1 DEF ToSet
    <2> QED BY <1>5, <2>1, <2>3, <2>4
  <1>9. CASE FitStep /\ UNCHANGED textVars
    <2>1. doing # "idle" /\ UNCHANGED answers
      BY <1>3, <1>9, FitStepTypes DEF ToolShape, ToolTypes, textVars
    <2>2. doing \in {"next", "last", "fitted"} /\ cur = asked /\ ~Over
      BY <1>5, <2>1
    <2>3. Choose \/ FitLast
      BY <1>9, <2>2 DEF FitStep, DropOldest, DropMiddle, SlidingWindow, Truncate, Summarize,
                        SummarizeFallsBack
    <2>4. CASE Choose
      <3>1. doing' = "last" /\ UNCHANGED <<asked, limit, cur>>
        BY <2>2, <2>4 DEF Choose
      <3> QED BY <1>5, <2>1, <2>2, <3>1 DEF Over
    <2>5. CASE FitLast
      <3>1. doing' = "fitted" /\ UNCHANGED <<asked, limit, cur>>
        BY <2>2, <2>5 DEF FitLast
      <3> QED BY <1>5, <2>1, <2>2, <3>1 DEF Over
    <2> QED BY <2>3, <2>4, <2>5
  <1> QED BY <1>6, <1>7, <1>8, <1>9 DEF ToolNext, toolVars, textVars, Split, CallFails, Merge

(* A text that was split to fit is not cut again by the fitter of a call,  *)
(* nor refused, wherever the guess of the prompts and the answer covers    *)
(* what the call takes and leaves room for a chunk.                        *)
THEOREM ChunksSentWhole == ToolSpec => []ChunksAreSentWhole
  <1>1. ToolInit => WholeInv
    BY ChunkInvInit, SentInit DEF WholeInv
  <1>2. WholeInv /\ [ToolNext]_toolVars => WholeInv'
    BY ChunkInvStep, SentStep DEF WholeInv
  <1>3. WholeInv => ChunksAreSentWhole
    <2> SUFFICES ASSUME WholeInv, Ample
                 PROVE  (\A a \in ToSet(answers) : a.whole) /\ doing # "threw"
      BY DEF ChunksAreSentWhole, Ample
    <2> QED BY DEF WholeInv, SentInv
  <1> QED BY <1>1, <1>2, <1>3, PTL DEF ToolSpec

-----------------------------------------------------------------------------
(* Long texts: what the strategies leave alone                             *)

\* A conversation that ends with its user.
Trails(asked0, messages) ==
    \A j \in DOMAIN messages : messages[j].n \in LastUser(asked0) =>
        \A k \in DOMAIN messages : k > j => messages[k].role = "system"

Numbered(messages) == \A i \in DOMAIN messages : messages[i].n = i

\* The strategy summarize is given no conversation that goes on after its last
\* user message: its summary is a message of the user, and would be the last.
UserSpeaksLast ==
    \A talk \in Talks :
        "summarize" \in ToSet(talk.strategies) => Trails(talk.messages, talk.messages)

\* Messages come from the request, in its order.
Traces(asked0, messages) ==
    /\ \A j \in DOMAIN messages : messages[j].n # 0 =>
          /\ messages[j].n \in DOMAIN asked0
          /\ messages[j].role = asked0[messages[j].n].role
    /\ \A i, j \in DOMAIN messages :
          i < j /\ messages[i].n # 0 /\ messages[j].n # 0 => messages[i].n < messages[j].n

\* The last user message of the request is still the last.
LastStays(asked0, messages) ==
    \A j \in DOMAIN messages : messages[j].n \in LastUser(asked0) => j \in LastUser(messages)

Faithful(asked0, messages) == Traces(asked0, messages) /\ LastStays(asked0, messages)

Holds(asked0, messages) ==
    \A i \in DOMAIN asked0 :
        IsProtected(asked0, i) => \E j \in DOMAIN messages : messages[j] = asked0[i]

\* A place that holds nothing the request protects.
Free(asked0, messages, j) ==
    ~(messages[j].n \in DOMAIN asked0 /\ IsProtected(asked0, messages[j].n))

LEMMA RequestIsFaithful ==
    ASSUME NEW a \in Seq(Message), Numbered(a)
    PROVE  Faithful(a, a) /\ Holds(a, a)
  BY DEF Numbered, Faithful, Traces, LastStays, Holds, Message

LEMMA UnprotectedIsFree ==
    ASSUME NEW a \in Seq(Message), NEW c \in Seq(Message), Faithful(a, c),
           NEW j \in DOMAIN c, ~IsProtected(c, j)
    PROVE  Free(a, c, j)
  <1> SUFFICES ASSUME c[j].n \in DOMAIN a, IsProtected(a, c[j].n)
               PROVE  FALSE
    BY DEF Free
  <1>1. c[j].n # 0 /\ c[j].role = a[c[j].n].role
    BY DEF Faithful, Traces
  <1>2. CASE a[c[j].n].role = "system"
    BY <1>1, <1>2 DEF IsProtected
  <1>3. CASE c[j].n \in LastUser(a)
    BY <1>3 DEF Faithful, LastStays, IsProtected
  <1> QED BY <1>2, <1>3 DEF IsProtected

LEMMA DropKeeps ==
    ASSUME NEW a \in Seq(Message), Numbered(a), NEW c \in Seq(Message), Faithful(a, c),
           NEW gone, \A j \in gone : j \in DOMAIN c => Free(a, c, j)
    PROVE  /\ Faithful(a, Without(c, gone))
           /\ Trails(a, c) => Trails(a, Without(c, gone))
           /\ Holds(a, c) => Holds(a, Without(c, gone))
  <1> DEFINE d == Without(c, gone)
             kept == Kept(c, gone)
  <1>1. /\ d \in Seq(Message) /\ kept \in Seq(Nat) /\ Increasing(kept)
        /\ DOMAIN d = DOMAIN kept
        /\ \A i \in DOMAIN kept : kept[i] \in DOMAIN c \ gone /\ d[i] = c[kept[i]]
        /\ \A k \in DOMAIN c \ gone : \E i \in DOMAIN kept : kept[i] = k
    BY WithoutFacts
  <1> HIDE DEF d, kept
  <1>2. \A i, j \in DOMAIN kept : i < j => kept[i] < kept[j]
    BY <1>1 DEF Increasing
  <1>3. Traces(a, d)
    BY <1>1, <1>2 DEF Faithful, Traces
  <1>4. ASSUME NEW j \in DOMAIN d, d[j].n \in LastUser(a) PROVE j \in LastUser(d)
    <2>1. kept[j] \in LastUser(c)
      BY <1>1, <1>4 DEF Faithful, LastStays
    <2>2. d[j].role = "user"
      BY <1>1, <2>1 DEF LastUser
    <2>3. ASSUME NEW k \in DOMAIN d, k > j PROVE d[k].role # "user"
      <3>1. kept[k] > kept[j] /\ kept[k] \in DOMAIN c
        <4>1. j \in Nat /\ k \in Nat /\ kept[j] \in Nat /\ kept[k] \in Nat
          BY <1>1
        <4> QED BY <1>1, <1>2, <2>3, <4>1
      <3> QED BY <1>1, <2>1, <3>1 DEF LastUser
    <2> QED BY <2>2, <2>3 DEF LastUser
  <1>5. ASSUME Trails(a, c) PROVE Trails(a, d)
    <2> SUFFICES ASSUME NEW j \in DOMAIN d, d[j].n \in LastUser(a), NEW k \in DOMAIN d, k > j
                 PROVE  d[k].role = "system"
      BY DEF Trails
    <2>1. kept[k] > kept[j] /\ kept[k] \in DOMAIN c /\ kept[j] \in DOMAIN c
      <3>1. j \in Nat /\ k \in Nat /\ kept[j] \in Nat /\ kept[k] \in Nat
        BY <1>1
      <3> QED BY <1>1, <1>2, <3>1
    <2> QED BY <1>1, <1>5, <2>1 DEF Trails
  <1>6. ASSUME Holds(a, c) PROVE Holds(a, d)
    <2> SUFFICES ASSUME NEW i \in DOMAIN a, IsProtected(a, i)
                 PROVE  \E j \in DOMAIN d : d[j] = a[i]
      BY DEF Holds
    <2>1. PICK j \in DOMAIN c : c[j] = a[i]
      BY <1>6 DEF Holds
    <2>2. c[j].n = i
      BY <2>1 DEF Numbered
    <2>3. j \notin gone
      BY <2>2 DEF Free
    <2> QED BY <1>1, <2>1, <2>3
  <1> QED BY <1>3, <1>4, <1>5, <1>6 DEF Faithful, LastStays, d

LEMMA ChangeKeeps ==
    ASSUME NEW a \in Seq(Message), Numbered(a), NEW c \in Seq(Message), Faithful(a, c),
           NEW j \in DOMAIN c, NEW m \in Message, m.n = c[j].n, m.role = c[j].role
    PROVE  /\ Faithful(a, [c EXCEPT ![j] = m])
           /\ Trails(a, c) => Trails(a, [c EXCEPT ![j] = m])
           /\ Free(a, c, j) /\ Holds(a, c) => Holds(a, [c EXCEPT ![j] = m])
  <1> DEFINE d == [c EXCEPT ![j] = m]
  <1>1. /\ DOMAIN d = DOMAIN c
        /\ \A i \in DOMAIN c : d[i].n = c[i].n /\ d[i].role = c[i].role /\ (i # j => d[i] = c[i])
    OBVIOUS
  <1> HIDE DEF d
  <1>2. LastUser(d) = LastUser(c)
    BY <1>1 DEF LastUser
  <1>3. Faithful(a, d)
    BY <1>1, <1>2 DEF Faithful, Traces, LastStays
  <1>4. Trails(a, c) => Trails(a, d)
    BY <1>1 DEF Trails
  <1>5. ASSUME Free(a, c, j), Holds(a, c) PROVE Holds(a, d)
    <2> SUFFICES ASSUME NEW i \in DOMAIN a, IsProtected(a, i)
                 PROVE  \E k \in DOMAIN d : d[k] = a[i]
      BY DEF Holds
    <2>1. PICK k \in DOMAIN c : c[k] = a[i]
      BY <1>5 DEF Holds
    <2>2. c[k].n = i
      BY <2>1 DEF Numbered
    <2>3. k # j
      BY <1>5, <2>2 DEF Free
    <2> QED BY <1>1, <2>1, <2>3
  <1> QED BY <1>3, <1>4, <1>5 DEF d

LEMMA SummaryKeeps ==
    ASSUME NEW a \in Seq(Message), Numbered(a), NEW c \in Seq(Message), Faithful(a, c), Trails(a, c),
           NEW j \in DOMAIN c, ~IsProtected(c, j), NEW size \in Nat
    PROVE  /\ Faithful(a, [c EXCEPT ![j] = Msg(0, "user", size)])
           /\ Trails(a, [c EXCEPT ![j] = Msg(0, "user", size)])
           /\ Holds(a, c) => Holds(a, [c EXCEPT ![j] = Msg(0, "user", size)])
  <1> DEFINE m == Msg(0, "user", size)
             d == [c EXCEPT ![j] = m]
  <1>1. m.n = 0 /\ m.role = "user"
    BY DEF Msg
  <1> HIDE DEF m
  <1>2. DOMAIN d = DOMAIN c /\ d[j] = m /\ \A i \in DOMAIN c : i # j => d[i] = c[i]
    OBVIOUS
  <1> HIDE DEF d
  <1>3. Traces(a, d)
    <2>1. \A i \in DOMAIN d : d[i].n # 0 => d[i] = c[i]
      BY <1>1, <1>2
    <2> QED BY <1>2, <2>1 DEF Faithful, Traces
  <1>4. 0 \notin DOMAIN a /\ LastUser(a) \subseteq DOMAIN a
    BY DEF LastUser
  <1>5. ASSUME NEW i \in DOMAIN d, d[i].n \in LastUser(a)
        PROVE  /\ i # j /\ d[i] = c[i] /\ ~ j > i
               /\ \A k \in DOMAIN d : k > i => d[k].role = "system"
    <2>1. i # j /\ d[i] = c[i]
      BY <1>1, <1>2, <1>4, <1>5
    <2>2. \A k \in DOMAIN c : k > i => c[k].role = "system"
      BY <1>2, <1>5, <2>1 DEF Trails
    <2>3. ~ j > i
      BY <2>2 DEF IsProtected
    <2>4. \A k \in DOMAIN d : k > i => d[k] = c[k]
      BY <1>2, <2>3
    <2> QED BY <1>2, <2>1, <2>2, <2>3, <2>4
  <1>6. Trails(a, d)
    BY <1>5 DEF Trails
  <1>7. LastStays(a, d)
    <2> SUFFICES ASSUME NEW i \in DOMAIN d, d[i].n \in LastUser(a)
                 PROVE  i \in LastUser(d)
      BY DEF LastStays
    <2>1. i \in LastUser(c) /\ d[i] = c[i]
      BY <1>2, <1>5 DEF Faithful, LastStays
    <2> QED BY <1>5, <2>1 DEF LastUser
  <1>8. ASSUME Holds(a, c) PROVE Holds(a, d)
    <2> SUFFICES ASSUME NEW i \in DOMAIN a, IsProtected(a, i)
                 PROVE  \E k \in DOMAIN d : d[k] = a[i]
      BY DEF Holds
    <2>1. PICK k \in DOMAIN c : c[k] = a[i]
      BY <1>8 DEF Holds
    <2>2. c[k].n = i
      BY <2>1 DEF Numbered
    <2>3. k # j
      BY <2>2, UnprotectedIsFree DEF Free
    <2> QED BY <1>2, <2>1, <2>3
  <1> QED BY <1>3, <1>6, <1>7, <1>8 DEF Faithful, d, m

LEMMA RemovableFacts ==
    ASSUME cur \in Seq(Message)
    PROVE  /\ Removable \in Seq(Nat)
           /\ ToSet(Removable) \subseteq {j \in DOMAIN cur : ~IsProtected(cur, j)}
  <1> DEFINE un == Unprotected(cur)
             b == Max({KeepHead, Len(un) - KeepTail})
  <1>1. un \in Seq(Nat) /\ Len(un) \in Nat /\ KeepHead \in Nat /\ KeepTail \in Nat
    BY UnprotectedFacts, FitConstants
  <1>2. Removable = SubSeq(un, KeepHead + 1, b)
    BY DEF Removable
  <1> HIDE DEF un
  <1>3. b \in Int /\ (b = KeepHead \/ b = Len(un) - KeepTail)
    <2>1. KeepHead \in Int /\ Len(un) - KeepTail \in Int
      BY <1>1
    <2> QED BY <2>1, MaxOfTwo, Zenon
  <1> HIDE DEF b
  <1>4. CASE b <= Len(un)
    <2>1. KeepHead + 1 \in Nat \ {0}
      BY <1>1
    <2> QED BY <1>2, <1>3, <1>4, <2>1, StretchFacts DEF un
  <1>5. CASE ~ b <= Len(un)
    <2>1. b = KeepHead
      BY <1>1, <1>3, <1>5
    <2>2. SubSeq(un, KeepHead + 1, KeepHead) = <<>>
      <3>1. KeepHead + 1 \in Int /\ KeepHead \in Int /\ ~ KeepHead + 1 <= KeepHead
        BY <1>1
      <3>2. \A i \in (KeepHead + 1)..KeepHead : un[i] \in Nat
        BY <1>1
      <3>3. /\ SubSeq(un, KeepHead + 1, KeepHead) \in Seq(Nat)
            /\ Len(SubSeq(un, KeepHead + 1, KeepHead)) = 0
        BY <3>1, <3>2, SubSeqProperties
      <3> QED BY <3>3
    <2>3. Removable = <<>>
      BY <1>2, <2>1, <2>2
    <2> QED BY <2>3 DEF ToSet
  <1> QED BY <1>4, <1>5

\* The window is of some number of messages.
LEMMA WindowFacts ==
    ASSUME cur \in Seq(Message), SlidingWindow
    PROVE  \E s \in Nat : s <= Len(Unprotected(cur)) /\ cur' = Windowed(s)
  <1> DEFINE un == Unprotected(cur)
             sizes == 0..Min({WindowSize, Len(un)})
             fitting == {s \in sizes : Count(Windowed(s)) <= limit}
  <1>1. Len(un) \in Nat /\ WindowSize \in Nat
    BY UnprotectedFacts, FitConstants
  <1>2. cur' = Windowed(IF fitting = {} THEN 0 ELSE Max(fitting))
    BY DEF SlidingWindow
  <1> DEFINE m == Min({WindowSize, Len(un)})
  <1>3. m \in Nat /\ m <= Len(un)
    <2> HIDE DEF un
    <2>1. WindowSize \in Int /\ Len(un) \in Int
      BY <1>1
    <2>2. (m = WindowSize \/ m = Len(un)) /\ m <= Len(un)
      BY <2>1, MinOfTwo, Zenon
    <2> QED BY <1>1, <2>2
  <1> HIDE DEF m
  <1>4. CASE fitting = {}
    BY <1>1, <1>2, <1>4
  <1>5. CASE fitting # {}
    <2>1. fitting \in SUBSET (0..m)
      BY DEF m
    <2> HIDE DEF fitting
    <2>2. Max(fitting) \in fitting
      BY <1>3, <1>5, <2>1, MaxIs
    <2>3. Max(fitting) \in Nat /\ Max(fitting) <= Len(un)
      <3>1. Max(fitting) \in 0..m
        BY <2>1, <2>2
      <3> HIDE DEF un
      <3> QED BY <1>1, <1>3, <3>1
    <2> QED BY <1>2, <1>5, <2>3
  <1> QED BY <1>4, <1>5

TalkInv ==
    /\ Numbered(asked)
    /\ doing = "summarize" => "summarize" \in ToSet(strategies)
    /\ Faithful(asked, cur)
    /\ "summarize" \in ToSet(strategies) => Trails(asked, cur)
    /\ onLast \in {"off", "error"} \/ doing # "fitted" => Holds(asked, cur)

LEMMA TalkInvInit ==
    ASSUME UserSpeaksLast
    PROVE  ToolInit => TalkInv
  <1> SUFFICES ASSUME ToolInit PROVE TalkInv
    OBVIOUS
  <1>1. asked \in Seq(Message) /\ cur = asked
    BY ToolInitTypes DEF ToolShape, ToolTypes, FitTypeOK, ToolInit, TextInit, TalkInit, NoRequest
  <1>2. Numbered(asked) /\ doing # "summarize"
        /\ ("summarize" \in ToSet(strategies) => Trails(asked, asked))
    <2>1. CASE TextInit
      <3>1. asked = <<>> /\ doing = "idle"
        BY <2>1 DEF TextInit, NoRequest
      <3> QED BY <3>1 DEF Numbered, Trails
    <2>2. CASE TalkInit
      <3>1. PICK talk \in Talks :
              asked = talk.messages /\ strategies = talk.strategies /\ doing = "next"
        BY <2>2 DEF TalkInit
      <3> QED BY <3>1, TextConstants DEF Numbered, UserSpeaksLast
    <2> QED BY <2>1, <2>2 DEF ToolInit
  <1>3. Faithful(asked, asked) /\ Holds(asked, asked)
    BY <1>1, <1>2, RequestIsFaithful
  <1> QED BY <1>1, <1>2, <1>3 DEF TalkInv

LEMMA FitStepKeeps ==
    ASSUME FitTypeOK, TalkInv, FitStep
    PROVE  TalkInv'
  <1>1. /\ asked \in Seq(Message) /\ cur \in Seq(Message) /\ Numbered(asked) /\ Faithful(asked, cur)
        /\ strategies \in Seq(Strategies) /\ turn \in 0..Len(strategies)
        /\ "summarize" \in ToSet(strategies) => Trails(asked, cur)
        /\ doing = "summarize" => "summarize" \in ToSet(strategies)
    BY DEF TalkInv, FitTypeOK
  <1>2. UNCHANGED <<asked, strategies, onLast>> /\ cur' \in Seq(Message)
    BY FitStepTypes DEF FitStep, Choose, DropOldest, DropMiddle, SlidingWindow, Truncate,
       Summarize, SummarizeFallsBack, FitLast, Become, Return, FitTypeOK
  <1>3. doing # "fitted" /\ Holds(asked, cur)
    <2>1. doing # "fitted"
      BY DEF FitStep, Choose, DropOldest, DropMiddle, SlidingWindow, Truncate,
         Summarize, SummarizeFallsBack, FitLast
    <2> QED BY <2>1 DEF TalkInv
  <1>4. doing' = "summarize" => "summarize" \in ToSet(strategies)
    <2>1. CASE Choose
      <3>1. doing' = "summarize" =>
              doing' = strategies[turn + 1] /\ turn < Len(strategies)
        BY <2>1 DEF Choose
      <3>2. turn < Len(strategies) => turn + 1 \in DOMAIN strategies
        BY <1>1
      <3> QED BY <3>1, <3>2 DEF ToSet
    <2>2. CASE ~Choose
      <3>1. doing' = doing \/ doing' # "summarize"
        BY <2>2 DEF FitStep, DropOldest, DropMiddle, SlidingWindow, Truncate,
           Summarize, SummarizeFallsBack, FitLast, Become, Return
      <3> QED BY <1>1, <3>1
    <2> QED BY <2>1, <2>2
  <1> SUFFICES /\ Faithful(asked, cur')
               /\ "summarize" \in ToSet(strategies) => Trails(asked, cur')
               /\ onLast \in {"off", "error"} \/ doing' # "fitted" => Holds(asked, cur')
    BY <1>1, <1>2, <1>4 DEF TalkInv
  <1>5. CASE cur' = cur
    BY <1>1, <1>3, <1>5
  <1>6. ASSUME NEW gone, gone \subseteq {j \in DOMAIN cur : ~IsProtected(cur, j)},
               cur' = Without(cur, gone)
        PROVE  Faithful(asked, cur') /\ Holds(asked, cur')
               /\ ("summarize" \in ToSet(strategies) => Trails(asked, cur'))
    <2>1. \A j \in gone : j \in DOMAIN cur => Free(asked, cur, j)
      BY <1>1, <1>6, UnprotectedIsFree
    <2> QED BY <1>1, <1>3, <1>6, <2>1, DropKeeps
  <1>7. CASE DropOldest /\ cur' # cur
    <2>1. Over /\ Droppable # {} /\ cur' = Without(cur, {Min(Droppable)})
      BY <1>7 DEF DropOldest, Become, Return
    <2>2. Min(Droppable) \in Droppable
      <3>1. Len(cur) \in Nat /\ DOMAIN cur = 1..Len(cur)
        BY <1>1
      <3>2. Droppable \in SUBSET (0..Len(cur))
        BY <3>1 DEF Droppable
      <3> QED BY <2>1, <3>1, <3>2, MinIs
    <2>3. {Min(Droppable)} \subseteq {j \in DOMAIN cur : ~IsProtected(cur, j)}
      BY <2>2 DEF Droppable
    <2> QED BY <1>6, <2>1, <2>3
  <1>8. CASE DropMiddle /\ cur' # cur
    <2> DEFINE r == Removable
    <2>1. r # <<>> /\ cur' = Without(cur, {r[Len(r) \div 2 + 1]})
      BY <1>8 DEF DropMiddle, Become, Return
    <2>2. r \in Seq(Nat) /\ ToSet(r) \subseteq {j \in DOMAIN cur : ~IsProtected(cur, j)}
      BY <1>1, RemovableFacts
    <2> HIDE DEF r
    <2>3. r[Len(r) \div 2 + 1] \in ToSet(r)
      <3>1. Len(r) \in Nat /\ Len(r) # 0 /\ DOMAIN r = 1..Len(r)
        BY <2>1, <2>2
      <3>2. Len(r) \div 2 + 1 \in 1..Len(r)
        BY <3>1
      <3> QED BY <3>1, <3>2 DEF ToSet
    <2>4. {r[Len(r) \div 2 + 1]} \subseteq {j \in DOMAIN cur : ~IsProtected(cur, j)}
      BY <2>2, <2>3
    <2> QED BY <1>6, <2>1, <2>4
  <1>9. CASE SlidingWindow
    <2>1. PICK s \in Nat : cur' = Windowed(s)
      BY <1>1, <1>9, WindowFacts
    <2>2. ToSet(SubSeq(Unprotected(cur), 1, Len(Unprotected(cur)) - s))
            \subseteq {j \in DOMAIN cur : ~IsProtected(cur, j)}
      <3>1. Len(Unprotected(cur)) \in Nat
        BY <1>1, UnprotectedFacts
      <3>2. 1 \in Nat \ {0} /\ Len(Unprotected(cur)) - s \in Int
            /\ Len(Unprotected(cur)) - s <= Len(Unprotected(cur))
        BY <3>1
      <3> QED BY <1>1, <3>2, StretchFacts
    <2>3. cur' = Without(cur, ToSet(SubSeq(Unprotected(cur), 1, Len(Unprotected(cur)) - s)))
      BY <2>1 DEF Windowed
    <2> QED BY <1>6, <2>2, <2>3
  <1>10. CASE Truncate /\ cur' # cur
    <2>1. PICK size :
             /\ Over /\ Cuttable # {} /\ size \in CutSizes(cur[Largest], KeepChars(cur[Largest]), doing)
             /\ cur' = [cur EXCEPT ![Largest] = Shortened(cur[Largest], size)]
      BY <1>10 DEF Truncate, Become, Return
    <2>2. Largest \in DOMAIN cur /\ ~IsProtected(cur, Largest) /\ cur[Largest] \in Message
      <3>1. Largest \in Cuttable
        BY <1>1, <2>1, LargestFacts
      <3> QED BY <1>1, <3>1 DEF Cuttable
    <2> DEFINE l == Largest
               m == Shortened(cur[l], size)
    <2>3. m \in Message /\ m.n = cur[l].n /\ m.role = cur[l].role
      <3>1. limit \in Nat
        BY <2>1 DEF Over, FitTypeOK
      <3>2. size \in Nat
        BY <1>1, <2>1, <2>2, <3>1, CutSizesFacts
      <3> QED BY <2>2, <3>2 DEF Shortened, Message
    <2>4. cur' = [cur EXCEPT ![l] = m] /\ l \in DOMAIN cur /\ ~IsProtected(cur, l)
      BY <2>1, <2>2
    <2> HIDE DEF l, m
    <2>5. Free(asked, cur, l)
      BY <1>1, <2>4, UnprotectedIsFree
    <2> QED BY <1>1, <1>3, <2>3, <2>4, <2>5, ChangeKeeps
  <1>11. CASE Summarize /\ cur' # cur
    <2>1. PICK size \in SummarySizes :
            /\ Older # <<>> /\ doing = "summarize"
            /\ cur' = Without([cur EXCEPT ![Head(Older)] = Msg(0, "user", size)], ToSet(Tail(Older)))
      BY <1>11 DEF Summarize, Return
    <2> DEFINE h == Head(Older)
               rest == ToSet(Tail(Older))
               c == [cur EXCEPT ![h] = Msg(0, "user", size)]
               U == {j \in DOMAIN cur : ~IsProtected(cur, j)}
    <2>2. h \in U /\ rest \subseteq U
      BY <1>1, <2>1, OlderFacts
    <2>3. cur' = Without(c, rest)
      BY <2>1
    <2> HIDE DEF h, rest
    <2>4. size \in Nat /\ Msg(0, "user", size) \in Message /\ Msg(0, "user", size).n = 0
      BY FitConstants DEF Msg, Message, Roles
    <2>5. Trails(asked, cur)
      BY <1>1, <2>1
    <2>6. Faithful(asked, c) /\ Trails(asked, c) /\ Holds(asked, c)
      BY <1>1, <1>3, <2>2, <2>4, <2>5, SummaryKeeps
    <2>7. c \in Seq(Message)
      BY <1>1, <2>2, <2>4
    <2>8. ASSUME NEW j \in rest, j \in DOMAIN c PROVE Free(asked, c, j)
      <3>1. j \in DOMAIN cur /\ ~IsProtected(cur, j)
        BY <2>2, <2>8
      <3>2. Free(asked, cur, j) /\ 0 \notin DOMAIN asked
        BY <1>1, <3>1, UnprotectedIsFree
      <3>3. c[j].n = 0 \/ c[j].n = cur[j].n
        BY <2>2, <2>4, <3>1
      <3> QED BY <3>2, <3>3 DEF Free
    <2> HIDE DEF c
    <2>9. Faithful(asked, cur') /\ Trails(asked, cur') /\ Holds(asked, cur')
      BY <1>1, <2>3, <2>6, <2>7, <2>8, DropKeeps
    <2> QED BY <2>9
  <1>12. CASE FitLast /\ cur' # cur
    <2> DEFINE rest == Count(Without(cur, LastUser(cur)))
               i == Max(LastUser(cur))
    <2>1. /\ Over /\ LastUser(cur) # {} /\ ~ rest >= limit
          /\ onLast \notin {"off", "error"} /\ doing' = "fitted"
          /\ \/ cur' = [cur EXCEPT ![i] = CutLast(cur[i], limit - rest)]
             \/ \E size \in SummarySizes : cur' = [cur EXCEPT ![i].size = size]
      BY <1>12 DEF FitLast
    <2>2. i \in DOMAIN cur /\ cur[i] \in Message
      <3>1. i \in LastUser(cur) /\ LastUser(cur) \subseteq DOMAIN cur
        BY <1>1, <2>1, LastUserFacts
      <3> QED BY <1>1, <3>1
    <2>3. rest \in Nat /\ limit \in Nat
      <3>1. Without(cur, LastUser(cur)) \in Seq(Message)
        BY <1>1, WithoutFacts
      <3>2. rest \in Nat
        BY <3>1, CountIs
      <3> QED BY <2>1, <3>2 DEF Over, FitTypeOK
    <2> HIDE DEF rest, i
    <2>4. PICK m \in Message : cur' = [cur EXCEPT ![i] = m] /\ m.n = cur[i].n /\ m.role = cur[i].role
      <3>1. CASE cur' = [cur EXCEPT ![i] = CutLast(cur[i], limit - rest)]
        <4>1. limit - rest \in Nat
          BY <2>1, <2>3
        <4> QED BY <2>2, <3>1, <4>1, CutLastFacts
      <3>2. CASE \E size \in SummarySizes : cur' = [cur EXCEPT ![i].size = size]
        <4>1. PICK size \in SummarySizes : cur' = [cur EXCEPT ![i].size = size]
          BY <3>2
        <4> DEFINE m == [cur[i] EXCEPT !.size = size]
        <4>2. m \in Message /\ m.n = cur[i].n /\ m.role = cur[i].role
          BY <2>2, FitConstants DEF Message
        <4>3. cur' = [cur EXCEPT ![i] = m]
          BY <4>1
        <4> QED BY <4>2, <4>3
      <3> QED BY <2>1, <3>1, <3>2
    <2>5. Faithful(asked, cur') /\ ("summarize" \in ToSet(strategies) => Trails(asked, cur'))
      BY <1>1, <2>2, <2>4, ChangeKeeps
    <2> QED BY <2>1, <2>5
  <1>13. CASE Choose \/ SummarizeFallsBack
    <2>1. cur' = cur
      BY <1>13 DEF Choose, SummarizeFallsBack
    <2> QED BY <1>5, <2>1
  <1> QED BY <1>5, <1>7, <1>8, <1>9, <1>10, <1>11, <1>12, <1>13 DEF FitStep

LEMMA TalkInvStep == ToolShape /\ TalkInv /\ [ToolNext]_toolVars => TalkInv'
  <1> SUFFICES ASSUME ToolShape, TalkInv, [ToolNext]_toolVars PROVE TalkInv'
    OBVIOUS
  <1>1. CASE UNCHANGED fitVars
    BY <1>1 DEF fitVars, TalkInv
  <1>2. CASE Ask
    <2>1. chunks[Len(answers) + 1] \in Seq(Words)
      <3>1. chunks \in Seq(Seq(Words)) /\ Len(answers) \in Nat /\ Len(chunks) \in Nat
            /\ Len(answers) < Len(chunks)
        BY <1>2 DEF ToolShape, ToolTypes, Ask
      <3> QED BY <3>1
    <2> DEFINE words == chunks[Len(answers) + 1]
               r == Request(words)
    <2>2. r \in Seq(Message) /\ Len(r) = 2 /\ Numbered(r)
      BY <2>1, RequestFacts DEF Numbered
    <2>3. r[1].role # "user"
      BY DEF Request, Msg
    <2>4. asked' = r /\ cur' = r /\ doing' = "next" /\ UNCHANGED strategies
      BY <1>2 DEF Ask, Fit
    <2> HIDE DEF r
    <2>5. Trails(r, r)
      <3> SUFFICES ASSUME NEW j \in DOMAIN r, r[j].n \in LastUser(r), NEW k \in DOMAIN r, k > j
                   PROVE  FALSE
        BY DEF Trails
      <3>1. r[j].n = j /\ j = 1
        BY <2>2 DEF Numbered
      <3> QED BY <2>3, <3>1 DEF LastUser
    <2>6. Faithful(r, r) /\ Holds(r, r)
      BY <2>2, RequestIsFaithful
    <2> QED BY <2>2, <2>4, <2>5, <2>6 DEF TalkInv
  <1>3. CASE Answer
    <2>1. asked' = <<>> /\ cur' = <<>> /\ doing' = "idle"
      BY <1>3 DEF Answer
    <2> QED BY <2>1 DEF TalkInv, Numbered, Faithful, Traces, LastStays, Trails, Holds
  <1>4. CASE FitStep /\ UNCHANGED textVars
    BY <1>4, FitStepKeeps DEF ToolShape, ToolTypes
  <1> QED BY <1>1, <1>2, <1>3, <1>4 DEF ToolNext, toolVars, Split, CallFails, Merge

(* Whatever the strategies drop, cut or summarize, the system messages and *)
(* the last user message are in the request as they were, and what is left *)
(* of it is in its order, for any conversations whose user speaks last     *)
(* where they are summarized.                                              *)
THEOREM ProtectedStay ==
    ASSUME UserSpeaksLast
    PROVE  ToolSpec => []ProtectedSurvive
  <1>1. ToolInit => ToolShape /\ TalkInv
    BY ToolInitTypes, TalkInvInit
  <1>2. (ToolShape /\ TalkInv) /\ [ToolNext]_toolVars => (ToolShape /\ TalkInv)'
    BY ToolStepTypes, TalkInvStep
  <1>3. ToolShape /\ TalkInv => ProtectedSurvive
    BY DEF TalkInv, ProtectedSurvive, Protected, IsProtected, Faithful, Traces, Holds
  <1> QED BY <1>1, <1>2, <1>3, PTL DEF ToolSpec

-----------------------------------------------------------------------------
(* Long texts: dropping the oldest and sliding a window                    *)

(* An increasing sequence is known by its members.                         *)
LEMMA IncreasingIs ==
    ASSUME NEW a \in Seq(Nat), NEW b \in Seq(Nat), Increasing(a), Increasing(b),
           ToSet(a) = ToSet(b)
    PROVE  a = b
  <1>1. /\ DOMAIN a = 1..Len(a) /\ DOMAIN b = 1..Len(b) /\ Len(a) \in Nat /\ Len(b) \in Nat
        /\ \A i \in DOMAIN a : a[i] \in Nat
        /\ \A i \in DOMAIN b : b[i] \in Nat
    OBVIOUS
  <1>2. /\ \A i \in DOMAIN a : \E j \in DOMAIN b : a[i] = b[j]
        /\ \A i \in DOMAIN b : \E j \in DOMAIN a : b[i] = a[j]
    BY DEF ToSet
  <1>3. /\ \A i, j \in DOMAIN a : i < j => a[i] < a[j]
        /\ \A i, j \in DOMAIN b : i < j => b[i] < b[j]
    BY DEF Increasing
  <1> DEFINE Alike(n) == \A i \in 1..n : i \in DOMAIN a /\ i \in DOMAIN b => a[i] = b[i]
             G == {n \in Nat : Alike(n)}
  <1>4. 0 \in G
    OBVIOUS
  <1>5. ASSUME NEW n \in Nat, n \in G PROVE n + 1 \in G
    <2>1. Alike(n)
      BY <1>5
    <2>2. ASSUME n + 1 \in DOMAIN a, n + 1 \in DOMAIN b PROVE a[n + 1] = b[n + 1]
      <3>1. PICK j \in DOMAIN b : a[n + 1] = b[j]
        BY <1>2, <2>2
      <3>2. PICK k \in DOMAIN a : b[n + 1] = a[k]
        BY <1>2, <2>2
      <3>3. j >= n + 1
        <4> SUFFICES ASSUME j < n + 1 PROVE FALSE
          BY <1>1
        <4>1. j \in 1..n /\ j \in DOMAIN a
          BY <1>1, <2>2
        <4>2. a[j] = a[n + 1] /\ a[j] < a[n + 1]
          BY <1>3, <2>1, <2>2, <3>1, <4>1
        <4> QED BY <1>1, <2>2, <4>1, <4>2
      <3>4. k >= n + 1
        <4> SUFFICES ASSUME k < n + 1 PROVE FALSE
          BY <1>1
        <4>1. k \in 1..n /\ k \in DOMAIN b
          BY <1>1, <2>2
        <4>2. b[k] = b[n + 1] /\ b[k] < b[n + 1]
          BY <1>3, <2>1, <2>2, <3>2, <4>1
        <4> QED BY <1>1, <2>2, <4>1, <4>2
      <3>5. b[n + 1] <= b[j] /\ a[n + 1] <= a[k]
        <4>1. /\ n + 1 = j \/ n + 1 < j
              /\ n + 1 = k \/ n + 1 < k
          BY <1>1, <3>3, <3>4
        <4>2. b[n + 1] = b[j] \/ b[n + 1] < b[j]
          BY <1>3, <2>2, <4>1
        <4>3. a[n + 1] = a[k] \/ a[n + 1] < a[k]
          BY <1>3, <2>2, <4>1
        <4> QED BY <1>1, <2>2, <4>2, <4>3
      <3> QED BY <1>1, <2>2, <3>1, <3>2, <3>5
    <2>3. Alike(n + 1)
      BY <2>1, <2>2
    <2> QED BY <2>3
  <1>6. \A n \in Nat : Alike(n)
    <2>1. Nat \subseteq G
      <3> HIDE DEF G
      <3> QED BY <1>4, <1>5, AllNumbers
    <2> QED BY <2>1
  <1>7. \A i \in DOMAIN a : i \in DOMAIN b => a[i] = b[i]
    BY <1>1, <1>6
  <1>8. ~ Len(a) < Len(b)
    <2> SUFFICES ASSUME Len(a) < Len(b) PROVE FALSE
      OBVIOUS
    <2>1. Len(a) + 1 \in DOMAIN b
      BY <1>1
    <2>2. PICK j \in DOMAIN a : b[Len(a) + 1] = a[j]
      BY <1>2, <2>1
    <2>3. j \in DOMAIN b /\ j < Len(a) + 1 /\ a[j] = b[j]
      BY <1>1, <1>7
    <2> QED BY <1>1, <1>3, <2>1, <2>2, <2>3
  <1>9. ~ Len(b) < Len(a)
    <2> SUFFICES ASSUME Len(b) < Len(a) PROVE FALSE
      OBVIOUS
    <2>1. Len(b) + 1 \in DOMAIN a
      BY <1>1
    <2>2. PICK j \in DOMAIN b : a[Len(b) + 1] = b[j]
      BY <1>2, <2>1
    <2>3. j \in DOMAIN a /\ j < Len(b) + 1 /\ a[j] = b[j]
      BY <1>1, <1>7
    <2> QED BY <1>1, <1>3, <2>1, <2>2, <2>3
  <1>10. Len(a) = Len(b)
    <2> DEFINE p == Len(a)
               q == Len(b)
    <2>1. p \in Nat /\ q \in Nat /\ ~ p < q /\ ~ q < p
      BY <1>1, <1>8, <1>9
    <2> HIDE DEF p, q
    <2>2. p = q
      BY <2>1
    <2> QED BY <2>2 DEF p, q
  <1> QED BY <1>1, <1>7, <1>10

(* Nothing taken away leaves the messages.                                 *)
LEMMA WithoutNone ==
    ASSUME NEW messages \in Seq(Message)
    PROVE  Without(messages, {}) = messages
  <1> DEFINE n == Len(messages)
             all == [i \in 1..n |-> i]
  <1>1. n \in Nat /\ DOMAIN messages = 1..n
    OBVIOUS
  <1> HIDE DEF n
  <1>2. all \in Seq(Nat) /\ Increasing(all) /\ ToSet(all) = 1..n /\ DOMAIN all = 1..n
    BY <1>1 DEF Increasing, ToSet
  <1>3. /\ Kept(messages, {}) \in Seq(Nat) /\ Increasing(Kept(messages, {}))
        /\ ToSet(Kept(messages, {})) = 1..n
    <2>1. DOMAIN messages \ {} = 1..n
      BY <1>1
    <2> QED BY <2>1, WithoutFacts
  <1>4. Kept(messages, {}) = all
    <2> HIDE DEF all
    <2> QED BY <1>2, <1>3, IncreasingIs
  <1>5. /\ DOMAIN Without(messages, {}) = DOMAIN Kept(messages, {})
        /\ \A i \in DOMAIN Kept(messages, {}) :
              Without(messages, {})[i] = messages[Kept(messages, {})[i]]
        /\ Without(messages, {}) \in Seq(Message)
    BY WithoutFacts
  <1>6. DOMAIN Without(messages, {}) = 1..n /\ \A i \in 1..n : Without(messages, {})[i] = messages[i]
    BY <1>2, <1>4, <1>5
  <1> QED BY <1>1, <1>5, <1>6

\* The places in a request that go when some of what is left goes too.
Gone(messages, gone, more) ==
    gone \cup {Kept(messages, gone)[j] : j \in more \cap DOMAIN Kept(messages, gone)}

(* Taking away twice is taking away both at once.                          *)
LEMMA WithoutTwice ==
    ASSUME NEW messages \in Seq(Message), NEW gone, NEW more
    PROVE  Without(Without(messages, gone), more) = Without(messages, Gone(messages, gone, more))
  <1> DEFINE d     == Without(messages, gone)
             kept  == Kept(messages, gone)
             left  == Kept(d, more)
             both  == Gone(messages, gone, more)
             once  == Kept(messages, both)
             twice == [i \in DOMAIN left |-> kept[left[i]]]
  <1>1. /\ d \in Seq(Message) /\ kept \in Seq(Nat) /\ Increasing(kept)
        /\ DOMAIN d = DOMAIN kept
        /\ \A i \in DOMAIN kept : kept[i] \in DOMAIN messages \ gone /\ d[i] = messages[kept[i]]
        /\ \A k \in DOMAIN messages \ gone : \E i \in DOMAIN kept : kept[i] = k
    BY WithoutFacts
  <1> HIDE DEF d
  <1>2. /\ left \in Seq(Nat) /\ Increasing(left)
        /\ DOMAIN Without(d, more) = DOMAIN left /\ Without(d, more) \in Seq(Message)
        /\ \A i \in DOMAIN left : left[i] \in DOMAIN d \ more /\ Without(d, more)[i] = d[left[i]]
        /\ \A k \in DOMAIN d \ more : \E i \in DOMAIN left : left[i] = k
    <2>1. d \in Seq(Message)
      BY <1>1
    <2> QED BY ONLY <2>1, WithoutFacts
  <1>3. /\ once \in Seq(Nat) /\ Increasing(once) /\ ToSet(once) = DOMAIN messages \ both
        /\ DOMAIN Without(messages, both) = DOMAIN once
        /\ Without(messages, both) \in Seq(Message)
        /\ \A i \in DOMAIN once : Without(messages, both)[i] = messages[once[i]]
    <2> HIDE DEF both
    <2> QED BY WithoutFacts
  <1>4. both = gone \cup {kept[j] : j \in more \cap DOMAIN kept}
    BY DEF Gone
  <1> HIDE DEF kept, left, both, once
  <1>5. \A i, j \in DOMAIN kept : (i < j => kept[i] < kept[j]) /\ (kept[i] = kept[j] => i = j)
    <2>1. \A i, j \in DOMAIN kept : i < j => kept[i] < kept[j]
      BY <1>1 DEF Increasing
    <2>2. \A i, j \in DOMAIN kept : i \in Nat /\ j \in Nat /\ kept[i] \in Nat /\ kept[j] \in Nat
      BY <1>1
    <2> QED BY <2>1, <2>2
  <1>6. twice \in Seq(Nat) /\ DOMAIN twice = DOMAIN left
    <2>1. \A i \in DOMAIN left : kept[left[i]] \in Nat
      BY <1>1, <1>2
    <2>2. DOMAIN left = 1..Len(left) /\ Len(left) \in Nat
      BY <1>2
    <2> QED BY <2>1, <2>2
  <1>7. Increasing(twice)
    <2>1. \A i, j \in DOMAIN left : i < j => left[i] < left[j]
      BY <1>2 DEF Increasing
    <2> QED BY <1>1, <1>2, <1>5, <2>1 DEF Increasing
  <1>8. \A i \in DOMAIN left : twice[i] \in DOMAIN messages \ both
    <2> SUFFICES ASSUME NEW i \in DOMAIN left PROVE kept[left[i]] \in DOMAIN messages \ both
      OBVIOUS
    <2>1. left[i] \in DOMAIN kept /\ left[i] \notin more
      BY <1>1, <1>2
    <2> QED BY <1>1, <1>4, <1>5, <2>1
  <1>9. \A k \in DOMAIN messages \ both : \E i \in DOMAIN left : twice[i] = k
    <2> SUFFICES ASSUME NEW k \in DOMAIN messages \ both PROVE \E i \in DOMAIN left : kept[left[i]] = k
      OBVIOUS
    <2>1. PICK j \in DOMAIN kept : kept[j] = k
      BY <1>1, <1>4
    <2>2. j \notin more
      BY <1>4, <2>1
    <2> QED BY <1>1, <1>2, <2>1, <2>2
  <1>10. ToSet(twice) = DOMAIN messages \ both
    <2> HIDE DEF twice
    <2> QED BY <1>6, <1>8, <1>9 DEF ToSet
  <1>11. twice = once
    <2> HIDE DEF twice
    <2> QED BY <1>3, <1>6, <1>7, <1>10, IncreasingIs
  <1>12. DOMAIN once = DOMAIN left /\ \A i \in DOMAIN left : once[i] = kept[left[i]]
    BY <1>11
  <1> HIDE DEF twice
  <1>13. \A i \in DOMAIN left : Without(d, more)[i] = Without(messages, both)[i]
    <2> SUFFICES ASSUME NEW i \in DOMAIN left PROVE Without(d, more)[i] = Without(messages, both)[i]
      OBVIOUS
    <2>1. left[i] \in DOMAIN kept /\ Without(d, more)[i] = d[left[i]]
      BY <1>1, <1>2
    <2> QED BY <1>1, <1>3, <1>12, <2>1
  <1> DEFINE u == Without(d, more)
             v == Without(messages, both)
  <1>14. u \in Seq(Message) /\ v \in Seq(Message) /\ DOMAIN u = DOMAIN v
         /\ \A i \in DOMAIN u : u[i] = v[i]
    BY <1>2, <1>3, <1>12, <1>13
  <1> HIDE DEF u, v
  <1>15. u = v
    BY <1>14
  <1> QED BY <1>15 DEF u, v, d, both

(* What is protected stays protected, and nothing else becomes so, while   *)
(* only what is unprotected goes.                                          *)
LEMMA ProtectionStays ==
    ASSUME NEW messages \in Seq(Message), NEW gone,
           \A i \in gone : i \in DOMAIN messages => ~IsProtected(messages, i),
           NEW j \in DOMAIN Kept(messages, gone)
    PROVE  IsProtected(Without(messages, gone), j)
             <=> IsProtected(messages, Kept(messages, gone)[j])
  <1> DEFINE d    == Without(messages, gone)
             kept == Kept(messages, gone)
  <1>1. /\ d \in Seq(Message) /\ kept \in Seq(Nat) /\ Increasing(kept)
        /\ DOMAIN d = DOMAIN kept
        /\ \A i \in DOMAIN kept : kept[i] \in DOMAIN messages \ gone /\ d[i] = messages[kept[i]]
        /\ \A k \in DOMAIN messages \ gone : \E i \in DOMAIN kept : kept[i] = k
    BY WithoutFacts
  <1>2. j \in DOMAIN kept
    OBVIOUS
  <1> HIDE DEF d, kept
  <1>3. \A i, k \in DOMAIN kept : i < k <=> kept[i] < kept[k]
    <2>1. \A i, k \in DOMAIN kept : i < k => kept[i] < kept[k]
      BY <1>1 DEF Increasing
    <2>2. \A i, k \in DOMAIN kept : i \in Nat /\ k \in Nat /\ kept[i] \in Nat /\ kept[k] \in Nat
      BY <1>1
    <2> QED BY <2>1, <2>2
  <1>4. ASSUME kept[j] \in LastUser(messages) PROVE j \in LastUser(d)
    <2>1. d[j].role = "user"
      BY <1>1, <1>2, <1>4 DEF LastUser
    <2>2. ASSUME NEW k \in DOMAIN d, k > j PROVE d[k].role # "user"
      <3>1. kept[k] > kept[j] /\ kept[k] \in DOMAIN messages
        <4>1. kept[j] \in Nat /\ kept[k] \in Nat /\ j \in Nat /\ k \in Nat
          BY <1>1, <1>2
        <4> QED BY <1>1, <1>2, <1>3, <2>2, <4>1
      <3> QED BY <1>1, <1>4, <3>1 DEF LastUser
    <2> QED BY <1>1, <1>2, <2>1, <2>2 DEF LastUser
  <1>5. ASSUME j \in LastUser(d) PROVE kept[j] \in LastUser(messages)
    <2>1. messages[kept[j]].role = "user" /\ kept[j] \in DOMAIN messages
      BY <1>1, <1>2, <1>5 DEF LastUser
    <2> DEFINE users == {k \in DOMAIN messages : messages[k].role = "user"}
    <2>2. Len(messages) \in Nat /\ DOMAIN messages = 1..Len(messages)
      OBVIOUS
    <2>3. users \in SUBSET (1..Len(messages)) /\ users # {}
      BY <2>1, <2>2
    <2>4. PICK last \in users : \A k \in users : k <= last
      <3> HIDE DEF users
      <3> QED BY <2>2, <2>3, Greatest
    <2>5. last \in LastUser(messages)
      <3>1. last \in DOMAIN messages /\ messages[last].role = "user"
        OBVIOUS
      <3>2. \A k \in DOMAIN messages : k > last => messages[k].role # "user"
        BY <2>2, <2>4
      <3> QED BY <3>1, <3>2 DEF LastUser
    <2>6. last \notin gone
      BY <2>5 DEF IsProtected
    <2>7. PICK k \in DOMAIN kept : kept[k] = last
      BY <1>1, <2>6
    <2>8. d[k].role = "user"
      BY <1>1, <2>7
    <2>9. ~ k > j
      BY <1>1, <1>5, <2>8 DEF LastUser
    <2>10. kept[j] \in users
      BY <2>1
    <2> HIDE DEF users
    <2>11. kept[j] <= last
      BY <2>4, <2>10
    <2>12. kept[j] = last
      <3>1. k \in Nat /\ j \in Nat /\ kept[j] \in Nat /\ last \in Nat
        BY <1>1, <1>2, <2>7
      <3> QED BY <1>2, <1>3, <2>7, <2>9, <2>11, <3>1
    <2> QED BY <2>5, <2>12
  <1>6. d[j].role = messages[kept[j]].role
    BY <1>1, <1>2
  <1>7. IsProtected(d, j) <=> IsProtected(messages, kept[j])
    BY <1>4, <1>5, <1>6 DEF IsProtected
  <1> QED BY <1>7 DEF d, kept

\* The places that go when the last s unprotected messages stay.
OldOnes(s) ==
    LET un == Unprotected(asked)
    IN ToSet(SubSeq(un, 1, Len(un) - s))

LEMMA OldOnesFacts ==
    ASSUME asked \in Seq(Message), NEW s \in 0..Len(Unprotected(asked))
    PROVE  /\ Recent(s) = Without(asked, OldOnes(s))
           /\ OldOnes(s) = {Unprotected(asked)[i] : i \in 1..(Len(Unprotected(asked)) - s)}
           /\ \A i \in OldOnes(s) : i \in DOMAIN asked /\ ~IsProtected(asked, i)
  <1> DEFINE un == Unprotected(asked)
             n  == Len(un) - s
             front == SubSeq(un, 1, n)
  <1>1. un \in Seq(Nat) /\ ToSet(un) = {i \in DOMAIN asked : ~IsProtected(asked, i)}
    BY UnprotectedFacts
  <1>2. Recent(s) = Without(asked, OldOnes(s)) /\ OldOnes(s) = ToSet(front)
    BY DEF Recent, OldOnes
  <1>3. s \in 0..Len(un)
    OBVIOUS
  <1> HIDE DEF un
  <1>4. Len(un) \in Nat /\ DOMAIN un = 1..Len(un) /\ n \in Nat /\ n <= Len(un)
    BY <1>1, <1>3
  <1> HIDE DEF n
  <1>5. /\ front \in Seq(Nat) /\ DOMAIN front = 1..n
        /\ \A i \in 1..n : front[i] = un[i] /\ un[i] \in ToSet(un)
    <2>1. \A i \in 1..n : un[i] \in Nat /\ i \in DOMAIN un
      BY <1>1, <1>4
    <2>2. /\ front \in Seq(Nat) /\ Len(front) = (IF 1 <= n THEN n - 1 + 1 ELSE 0)
          /\ \A i \in 1..(n - 1 + 1) : front[i] = un[1 + i - 1]
      <3> HIDE DEF front
      <3>1. front = SubSeq(un, 1, n)
        BY DEF front
      <3>2. 1 \in Int /\ n \in Int
        BY <1>4
      <3> QED BY <2>1, <3>1, <3>2, SubSeqProperties
    <2> HIDE DEF front
    <2>3. Len(front) = n /\ DOMAIN front = 1..Len(front)
      BY <1>4, <2>2
    <2>4. \A i \in 1..n : i \in 1..(n - 1 + 1) /\ 1 + i - 1 = i
      BY <1>4
    <2> QED BY <2>1, <2>2, <2>3, <2>4 DEF ToSet
  <1> HIDE DEF front
  <1>6. ToSet(front) = {un[i] : i \in 1..n}
    BY <1>5 DEF ToSet
  <1>7. \A i \in ToSet(front) : i \in ToSet(un)
    BY <1>5, <1>6
  <1> QED BY <1>1, <1>2, <1>6, <1>7 DEF un, n

(* Where the last s unprotected messages stay, the next to go is the first *)
(* of these.                                                               *)
LEMMA RecentStep ==
    ASSUME asked \in Seq(Message), cur \in Seq(Message), keep = 0,
           NEW s \in 0..Len(Unprotected(asked)), cur = Recent(s)
    PROVE  /\ Droppable = {} <=> s = 0
           /\ s # 0 => Without(cur, {Min(Droppable)}) = Recent(s - 1)
  <1> DEFINE un   == Unprotected(asked)
             gone == OldOnes(s)
             kept == Kept(asked, gone)
  <1>1. un \in Seq(Nat) /\ Increasing(un)
        /\ ToSet(un) = {i \in DOMAIN asked : ~IsProtected(asked, i)}
    BY UnprotectedFacts
  <1>2. /\ cur = Without(asked, gone)
        /\ gone = {un[i] : i \in 1..(Len(un) - s)}
        /\ \A i \in gone : i \in DOMAIN asked /\ ~IsProtected(asked, i)
    BY OldOnesFacts
  <1>3. s \in 0..Len(un) /\ Len(un) \in Nat /\ DOMAIN un = 1..Len(un)
    BY <1>1
  <1>4. /\ kept \in Seq(Nat) /\ Increasing(kept) /\ DOMAIN cur = DOMAIN kept
        /\ \A i \in DOMAIN kept : kept[i] \in DOMAIN asked \ gone
        /\ \A k \in DOMAIN asked \ gone : \E i \in DOMAIN kept : kept[i] = k
    <2> HIDE DEF gone
    <2>1. asked \in Seq(Message) /\ cur = Without(asked, gone)
      BY <1>2
    <2> QED BY ONLY <2>1, WithoutFacts
  <1>5. \A j \in DOMAIN kept : IsProtected(cur, j) <=> IsProtected(asked, kept[j])
    <2> HIDE DEF gone
    <2>1. \A j \in DOMAIN Kept(asked, gone) :
             IsProtected(Without(asked, gone), j) <=> IsProtected(asked, Kept(asked, gone)[j])
      BY <1>2, ProtectionStays
    <2> QED BY <1>2, <2>1
  <1> HIDE DEF un, gone, kept
  <1>6. Droppable = {j \in DOMAIN kept : ~IsProtected(cur, j)}
    <2>1. \A j \in DOMAIN cur : j <= Len(cur) - 0
      OBVIOUS
    <2> QED BY <1>4, <2>1 DEF Droppable
  <1>7. \A j \in DOMAIN kept : j \in Droppable <=> kept[j] \in ToSet(un)
    BY <1>1, <1>4, <1>5, <1>6
  <1>8. \A i, k \in DOMAIN un : i < k => un[i] < un[k]
    BY <1>1 DEF Increasing
  <1>9. ASSUME NEW j \in Droppable PROVE \E k \in (Len(un) - s + 1)..Len(un) : kept[j] = un[k]
    <2>1. j \in DOMAIN kept /\ kept[j] \in ToSet(un) /\ kept[j] \notin gone
      BY <1>4, <1>6, <1>7
    <2>2. PICK k \in DOMAIN un : kept[j] = un[k]
      BY <2>1 DEF ToSet
    <2>3. k \notin 1..(Len(un) - s)
      BY <1>2, <2>1, <2>2
    <2> QED BY <1>3, <2>2, <2>3
  <1>10. CASE s = 0
    <2>1. Droppable = {}
      BY <1>3, <1>9, <1>10
    <2> QED BY <1>10, <2>1
  <1>11. CASE s # 0
    <2> DEFINE f == Len(un) - s + 1
    <2>1. f \in DOMAIN un /\ f \in Nat
      BY <1>3, <1>11
    <2>2. un[f] \notin gone
      <3> SUFFICES ASSUME NEW i \in 1..(Len(un) - s), un[f] = un[i] PROVE FALSE
        BY <1>2
      <3>1. i \in DOMAIN un /\ i < f
        BY <1>3
      <3>2. un[i] < un[f] /\ un[f] \in Nat
        BY <1>1, <1>8, <2>1, <3>1
      <3> QED BY <3>2
    <2>3. un[f] \in ToSet(un) /\ un[f] \in DOMAIN asked
      BY <1>1, <2>1 DEF ToSet
    <2>4. PICK j \in DOMAIN kept : kept[j] = un[f]
      BY <1>4, <2>2, <2>3
    <2>5. j \in Droppable
      BY <1>7, <2>3, <2>4
    <2>6. Droppable \in SUBSET Nat
      BY <1>4, <1>6
    <2>7. Min(Droppable) \in Droppable /\ Min(Droppable) <= j
      BY <2>5, <2>6, MinIs
    <2>8. Min(Droppable) = j
      <3> DEFINE m == Min(Droppable)
      <3>1. m \in DOMAIN kept /\ m \in Nat /\ m <= j
        BY <1>6, <2>6, <2>7
      <3>2. PICK k \in f..Len(un) : kept[m] = un[k]
        BY <1>9, <2>7
      <3> HIDE DEF m
      <3>3. un[f] <= un[k] /\ un[f] \in Nat /\ un[k] \in Nat
        <4>1. k \in DOMAIN un /\ (k = f \/ f < k)
          BY <1>3, <2>1
        <4>2. un[f] \in Nat /\ un[k] \in Nat
          BY <1>1, <2>1, <4>1
        <4> HIDE DEF f
        <4> QED BY <1>8, <2>1, <4>1, <4>2
      <3>4. ~ m < j
        <4> SUFFICES ASSUME m < j PROVE FALSE
          OBVIOUS
        <4>1. kept[m] < kept[j]
          BY <1>4, <3>1 DEF Increasing
        <4> HIDE DEF f
        <4> QED BY <2>4, <3>2, <3>3, <4>1
      <3>5. j \in Nat
        BY <1>4
      <3> QED BY <3>1, <3>4, <3>5 DEF m
    <2>9. Gone(asked, gone, {j}) = gone \cup {un[f]}
      <3>1. {j} \cap DOMAIN kept = {j}
        OBVIOUS
      <3>2. {kept[i] : i \in {j}} = {un[f]}
        BY <2>4
      <3>3. Gone(asked, gone, {j}) = gone \cup {kept[i] : i \in {j} \cap DOMAIN kept}
        BY DEF Gone, kept
      <3> QED BY <3>1, <3>2, <3>3
    <2>10. OldOnes(s - 1) = gone \cup {un[f]}
      <3>1. s - 1 \in 0..Len(un)
        BY <1>3, <1>11
      <3>2. OldOnes(s - 1) = {un[i] : i \in 1..(Len(un) - (s - 1))}
        BY <3>1, OldOnesFacts DEF un
      <3>3. 1..(Len(un) - (s - 1)) = 1..(Len(un) - s) \cup {f}
        BY <1>3, <1>11
      <3> QED BY <1>2, <3>2, <3>3
    <2>11. Recent(s - 1) = Without(asked, OldOnes(s - 1))
      <3>1. s - 1 \in 0..Len(un)
        BY <1>3, <1>11
      <3> QED BY <3>1, OldOnesFacts DEF un
    <2>12. Without(Without(asked, gone), {j}) = Without(asked, Gone(asked, gone, {j}))
      BY WithoutTwice
    <2>13. Without(cur, {Min(Droppable)}) = Recent(s - 1)
      <3>1. Without(cur, {Min(Droppable)}) = Without(Without(asked, gone), {j})
        BY <1>2, <2>8
      <3> HIDE DEF f
      <3> QED BY <2>9, <2>10, <2>11, <2>12, <3>1
    <2> QED BY <1>11, <2>5, <2>13
  <1> QED BY <1>10, <1>11

\* How many of the latest unprotected messages the budget admits.
Admitted == {s \in 0..Len(Unprotected(asked)) : Count(Recent(s)) <= limit}

Best == Recent(IF Admitted = {} THEN 0 ELSE Max(Admitted))

\* No longer recent part than that of s is within the budget.
TooMuchBeyond(s) ==
    \A t \in 0..Len(Unprotected(asked)) : t > s => ~ Count(Recent(t)) <= limit

\* The conversations the property is about.
DropsOrSlides ==
    /\ onLast = "off" /\ limit # Unset
    /\ strategies \in {<<"dropOldest">>, <<"slidingWindow">>}
    /\ Len(Unprotected(asked)) <= WindowSize

\* Messages c at stage d of the fitter, t strategies applied, k to keep.
Course(c, d, t, k) ==
    /\ d \in {"next", "dropOldest", "slidingWindow", "last", "fitted"}
    /\ d \in {"dropOldest", "slidingWindow"} => t = 1
    /\ d = "next" /\ t = 0 => c = asked
    /\ d = "slidingWindow" => c = asked
    /\ d = "dropOldest" =>
         k = 0 /\ \E s \in 0..Len(Unprotected(asked)) : c = Recent(s) /\ TooMuchBeyond(s)
    /\ (d = "next" /\ t = 1) \/ d \in {"last", "fitted"} => c = Best

RecentInv ==
    /\ outcome = "running" => strategies = <<"dropOldest", "truncateLines">>
    /\ DropsOrSlides => Course(cur, doing, turn, keep)

LEMMA BestIs ==
    ASSUME asked \in Seq(Message), NEW s \in 0..Len(Unprotected(asked)), TooMuchBeyond(s),
           s = 0 \/ Count(Recent(s)) <= limit
    PROVE  Best = Recent(s)
  <1>1. Len(Unprotected(asked)) \in Nat
    BY UnprotectedFacts
  <1> DEFINE L == Len(Unprotected(asked))
  <1>2. Admitted \in SUBSET (0..L) /\ \A t \in Admitted : t <= s
    BY <1>1 DEF Admitted, TooMuchBeyond
  <1>3. CASE Admitted = {}
    <2>1. s = 0
      BY <1>3 DEF Admitted
    <2> QED BY <1>3, <2>1 DEF Best
  <1>4. CASE Admitted # {}
    <2>1. Max(Admitted) \in Admitted /\ \A t \in Admitted : t <= Max(Admitted)
      <3> HIDE DEF L
      <3> QED BY <1>1, <1>2, <1>4, MaxIs DEF L
    <2>2. Max(Admitted) = s
      <3>1. CASE s = 0
        <4>1. Max(Admitted) \in 0..L /\ Max(Admitted) <= 0
          BY <1>2, <2>1, <3>1
        <4> QED BY <1>1, <3>1, <4>1
      <3>2. CASE s # 0
        <4>1. s \in Admitted
          BY <3>2 DEF Admitted
        <4>2. s <= Max(Admitted) /\ Max(Admitted) <= s /\ Max(Admitted) \in 0..L
          BY <1>2, <2>1, <4>1
        <4> QED BY <1>1, <4>2
      <3> QED BY <3>1, <3>2
    <2> QED BY <1>4, <2>2 DEF Best
  <1> QED BY <1>3, <1>4

(* Everything is the longest recent part.                                  *)
LEMMA AllIsRecent ==
    ASSUME asked \in Seq(Message)
    PROVE  /\ Len(Unprotected(asked)) \in Nat
           /\ Recent(Len(Unprotected(asked))) = asked
           /\ TooMuchBeyond(Len(Unprotected(asked)))
  <1> DEFINE L == Len(Unprotected(asked))
  <1>1. L \in Nat
    BY UnprotectedFacts
  <1>2. L \in 0..L
    BY <1>1
  <1>3. Recent(L) = Without(asked, OldOnes(L))
        /\ OldOnes(L) = {Unprotected(asked)[i] : i \in 1..(L - L)}
    BY <1>2, OldOnesFacts
  <1>4. 1..(L - L) = {}
    BY <1>1
  <1>5. OldOnes(L) = {}
    BY <1>3, <1>4
  <1>6. TooMuchBeyond(L)
    BY <1>1 DEF TooMuchBeyond
  <1> QED BY <1>1, <1>3, <1>5, <1>6, WithoutNone

LEMMA RecentInvInit == ToolInit => RecentInv
  <1> SUFFICES ASSUME ToolInit PROVE RecentInv
    OBVIOUS
  <1>1. CASE TextInit
    <2>1. strategies = <<"dropOldest", "truncateLines">>
      BY <1>1 DEF TextInit
    <2>2. ~DropsOrSlides
      BY <2>1 DEF DropsOrSlides
    <2> QED BY <2>1, <2>2 DEF RecentInv
  <1>2. CASE TalkInit
    <2>1. outcome = "talk" /\ cur = asked /\ doing = "next" /\ turn = 0
      BY <1>2 DEF TalkInit
    <2> QED BY <2>1 DEF RecentInv, Course
  <1> QED BY <1>1, <1>2 DEF ToolInit

LEMMA FitStepRecent ==
    ASSUME FitTypeOK, DropsOrSlides, Course(cur, doing, turn, keep), FitStep
    PROVE  Course(cur', doing', turn', keep')
  <1> DEFINE L == Len(Unprotected(asked))
  <1>1. /\ asked \in Seq(Message) /\ cur \in Seq(Message) /\ limit \in Nat /\ limit # Unset
        /\ turn \in 0..1 /\ Len(strategies) = 1
        /\ strategies[1] \in {"dropOldest", "slidingWindow"} /\ onLast = "off"
        /\ L <= WindowSize
    <2>1. asked \in Seq(Message) /\ cur \in Seq(Message) /\ turn \in 0..Len(strategies)
          /\ limit \in {Unset} \cup Nat
      BY DEF FitTypeOK
    <2>2. strategies = <<"dropOldest">> \/ strategies = <<"slidingWindow">>
      BY DEF DropsOrSlides
    <2>3. Len(strategies) = 1 /\ strategies[1] \in {"dropOldest", "slidingWindow"}
      BY <2>2
    <2>4. limit # Unset /\ onLast = "off" /\ L <= WindowSize
      BY DEF DropsOrSlides
    <2> QED BY <2>1, <2>3, <2>4
  <1>2. L \in Nat /\ Recent(L) = asked /\ TooMuchBeyond(L) /\ L \in 0..L
    BY <1>1, AllIsRecent
  <1>3. /\ doing \in {"next", "dropOldest", "slidingWindow", "last", "fitted"}
        /\ doing \in {"dropOldest", "slidingWindow"} => turn = 1
        /\ doing = "next" /\ turn = 0 => cur = asked
        /\ doing = "slidingWindow" => cur = asked
        /\ doing = "dropOldest" =>
             keep = 0 /\ \E s \in 0..L : cur = Recent(s) /\ TooMuchBeyond(s)
        /\ (doing = "next" /\ turn = 1) \/ doing \in {"last", "fitted"} => cur = Best
    BY DEF Course
  <1>4. /\ Count(cur) \in Nat
        /\ Over <=> ~ Count(cur) <= limit
    <2>1. Count(cur) \in Nat
      BY <1>1, CountIs
    <2> QED BY <1>1, <2>1 DEF Over
  <1>5. CASE Choose
    <2>1. doing = "next" /\ keep' = 0 /\ cur' = cur
      BY <1>5 DEF Choose
    <2>2. CASE Over /\ turn < Len(strategies)
      <3>1. turn = 0 /\ doing' = strategies[turn + 1] /\ turn' = turn + 1
        BY <1>1, <1>5, <2>2 DEF Choose
      <3>2. doing' \in {"dropOldest", "slidingWindow"} /\ turn' = 1 /\ cur' = asked
        BY <1>1, <1>3, <2>1, <3>1
      <3>3. \E s \in 0..L : cur' = Recent(s) /\ TooMuchBeyond(s)
        BY <1>2, <3>2
      <3> QED BY <2>1, <3>2, <3>3 DEF Course
    <2>3. CASE ~(Over /\ turn < Len(strategies))
      <3>1. doing' = "last" /\ turn' = turn
        BY <1>5, <2>3 DEF Choose
      <3>2. cur = Best
        <4>1. CASE turn = 1
          BY <1>3, <2>1, <4>1
        <4>2. CASE turn = 0
          <5>1. ~Over /\ cur = asked
            BY <1>1, <1>3, <2>1, <2>3, <4>2
          <5>2. Count(Recent(L)) <= limit
            BY <1>2, <1>4, <5>1
          <5>3. Best = Recent(L)
            BY <1>1, <1>2, <5>2, BestIs
          <5> QED BY <1>2, <5>1, <5>3
        <4> QED BY <1>1, <4>1, <4>2
      <3> QED BY <2>1, <3>1, <3>2 DEF Course
    <2> QED BY <2>2, <2>3
  <1>6. CASE DropOldest
    <2>1. doing = "dropOldest" /\ keep = 0 /\ turn = 1
      BY <1>3, <1>6 DEF DropOldest
    <2>2. PICK s \in 0..L : cur = Recent(s) /\ TooMuchBeyond(s)
      BY <1>3, <2>1
    <2>3. /\ Droppable = {} <=> s = 0
          /\ s # 0 => Without(cur, {Min(Droppable)}) = Recent(s - 1)
      BY <1>1, <2>1, <2>2, RecentStep
    <2>4. CASE Over /\ Droppable # {}
      <3>1. cur' = Without(cur, {Min(Droppable)}) /\ UNCHANGED <<turn, doing, keep>>
        BY <1>6, <2>4 DEF DropOldest, Become
      <3>2. s # 0 /\ cur' = Recent(s - 1)
        BY <2>3, <2>4, <3>1
      <3>3. s - 1 \in 0..L /\ \A t \in 0..L : t > s - 1 => t = s \/ t > s
        BY <1>2, <3>2
      <3>4. TooMuchBeyond(s - 1)
        <4>1. ~ Count(Recent(s)) <= limit
          BY <1>4, <2>2, <2>4
        <4> QED BY <2>2, <3>3, <4>1 DEF TooMuchBeyond
      <3> QED BY <2>1, <3>1, <3>2, <3>3, <3>4 DEF Course
    <2>5. CASE ~(Over /\ Droppable # {})
      <3>1. doing' = "next" /\ cur' = cur /\ turn' = 1
        BY <1>6, <2>1, <2>5 DEF DropOldest, Return
      <3>2. s = 0 \/ Count(Recent(s)) <= limit
        <4>1. CASE Over
          BY <2>3, <2>5, <4>1
        <4>2. CASE ~Over
          BY <1>4, <2>2, <4>2
        <4> QED BY <4>1, <4>2
      <3>3. Best = Recent(s)
        BY <1>1, <2>2, <3>2, BestIs
      <3> QED BY <2>2, <3>1, <3>3 DEF Course
    <2> QED BY <2>4, <2>5
  <1>7. CASE SlidingWindow
    <2>1. doing = "slidingWindow" /\ cur = asked /\ turn = 1
      BY <1>3, <1>7 DEF SlidingWindow
    <2>2. \A s : Windowed(s) = Recent(s)
      BY <2>1 DEF Windowed, Recent
    <2>3. Min({WindowSize, L}) = L
      <3>1. WindowSize \in Int /\ L \in Int
        BY <1>2, FitConstants
      <3>2. /\ Min({WindowSize, L}) = WindowSize \/ Min({WindowSize, L}) = L
            /\ Min({WindowSize, L}) \in Int /\ Min({WindowSize, L}) <= L
        <4> HIDE DEF L
        <4> QED BY <3>1, MinOfTwo, Zenon
      <3> DEFINE m == Min({WindowSize, L})
      <3>3. (m = WindowSize \/ m = L) /\ m <= L
        BY <3>2
      <3> HIDE DEF m, L
      <3>4. m = L
        BY <1>1, <3>1, <3>3
      <3> QED BY <3>4 DEF m
    <2>4. {s \in 0..Min({WindowSize, L}) : Count(Windowed(s)) <= limit} = Admitted
      <3>1. Admitted = {s \in 0..L : Count(Recent(s)) <= limit}
        BY DEF Admitted
      <3> HIDE DEF L
      <3> QED BY <2>2, <2>3, <3>1
    <2>5. cur' = Windowed(IF Admitted = {} THEN 0 ELSE Max(Admitted))
      <3>1. Len(Unprotected(cur)) = L
        BY <2>1
      <3>2. LET fitting == {s \in 0..Min({WindowSize, L}) : Count(Windowed(s)) <= limit}
            IN cur' = Windowed(IF fitting = {} THEN 0 ELSE Max(fitting))
        BY <1>7, <3>1 DEF SlidingWindow
      <3> HIDE DEF L
      <3> QED BY <2>4, <3>2
    <2>6. cur' = Best /\ doing' = "next" /\ turn' = 1
      BY <1>7, <2>1, <2>2, <2>5 DEF Best, SlidingWindow
    <2> QED BY <2>6 DEF Course
  <1>8. CASE FitLast
    <2>1. doing = "last" /\ cur' = cur /\ doing' = "fitted"
      BY <1>1, <1>8 DEF FitLast
    <2> QED BY <1>3, <2>1 DEF Course
  <1>9. ~(DropMiddle \/ Truncate \/ Summarize \/ SummarizeFallsBack)
    BY <1>3 DEF DropMiddle, Truncate, Summarize, SummarizeFallsBack
  <1> QED BY <1>5, <1>6, <1>7, <1>8, <1>9 DEF FitStep

LEMMA RecentInvStep == ToolShape /\ RecentInv /\ [ToolNext]_toolVars => RecentInv'
  <1> SUFFICES ASSUME ToolShape, RecentInv, [ToolNext]_toolVars PROVE RecentInv'
    OBVIOUS
  <1>1. FitTypeOK /\ UNCHANGED <<strategies, onLast>>
    BY DEF ToolShape, ToolTypes, ToolNext, toolVars, fitVars, Split, Ask, Answer, CallFails, Merge,
       FitStep, Choose, DropOldest, DropMiddle, SlidingWindow, Truncate, Summarize,
       SummarizeFallsBack, FitLast, Become, Return
  <1>2. outcome' = "running" => outcome = "running"
    BY DEF ToolNext, toolVars, textVars, Split, Ask, Answer, CallFails, Merge
  <1>3. CASE outcome = "running"
    <2>1. strategies' = <<"dropOldest", "truncateLines">>
      BY <1>1, <1>3 DEF RecentInv
    <2>2. ~DropsOrSlides'
      BY <2>1 DEF DropsOrSlides
    <2> QED BY <2>1, <2>2 DEF RecentInv
  <1>4. CASE outcome # "running"
    <2>1. UNCHANGED fitVars \/ FitStep
      BY <1>4 DEF ToolNext, toolVars, Split, Ask, Answer, CallFails, Merge
    <2>2. UNCHANGED <<asked, limit>>
      BY <2>1 DEF fitVars, FitStep, Choose, DropOldest, DropMiddle, SlidingWindow, Truncate,
         Summarize, SummarizeFallsBack, FitLast, Become, Return
    <2>3. DropsOrSlides' => DropsOrSlides
      BY <1>1, <2>2 DEF DropsOrSlides
    <2>4. DropsOrSlides => Course(cur', doing', turn', keep')
      <3>1. CASE UNCHANGED fitVars
        BY <3>1 DEF fitVars, RecentInv
      <3>2. CASE FitStep
        BY <1>1, <3>2, FitStepRecent DEF RecentInv
      <3> QED BY <2>1, <3>1, <3>2
    <2>5. Course(cur', doing', turn', keep') => Course(cur, doing, turn, keep)'
      BY <2>2 DEF Course, Best, Admitted, TooMuchBeyond, Recent
    <2>6. outcome' # "running"
      BY <1>2, <1>4
    <2> QED BY <2>3, <2>4, <2>5, <2>6 DEF RecentInv
  <1> QED BY <1>3, <1>4

(* Dropping the oldest, and sliding a window, leaves the longest recent    *)
(* part of the conversation that fits, and only what is protected where    *)
(* none does.                                                              *)
THEOREM RecentStays == ToolSpec => []LongestRecentPart
  <1>1. ToolInit => ToolShape /\ RecentInv
    BY ToolInitTypes, RecentInvInit
  <1>2. (ToolShape /\ RecentInv) /\ [ToolNext]_toolVars => (ToolShape /\ RecentInv)'
    BY ToolStepTypes, RecentInvStep
  <1>3. ToolShape /\ RecentInv => LongestRecentPart
    <2> SUFFICES ASSUME RecentInv, doing = "fitted", onLast = "off", limit # Unset,
                        strategies \in {<<"dropOldest">>, <<"slidingWindow">>},
                        Len(Unprotected(asked)) <= WindowSize
                 PROVE  cur = Best
      BY DEF LongestRecentPart, Best, Admitted
    <2> QED BY DEF RecentInv, DropsOrSlides, Course
  <1> QED BY <1>1, <1>2, <1>3, PTL DEF ToolSpec

-----------------------------------------------------------------------------
(* Long texts: no call too many                                            *)

\* The weight of the units from a to b.
Load(units, a, b) == Weight(FlattenSeq(SubSeq(units, a, b)))

(* A stretch of units weighs no more than one it is part of.               *)
LEMMA LoadGrows ==
    ASSUME NEW units \in Seq(Seq(Words)),
           NEW a \in 1..Len(units), NEW b \in a..Len(units),
           NEW c \in b..Len(units), NEW d \in c..Len(units)
    PROVE  Load(units, b, c) <= Load(units, a, d)
  <1> DEFINE T     == Seq(Words)
             left  == SubSeq(units, a, b - 1)
             mid   == SubSeq(units, b, c)
             right == SubSeq(units, c + 1, d)
  <1>1. Len(units) \in Nat /\ units \in Seq(T) /\ a \in Nat /\ b \in Nat /\ c \in Nat /\ d \in Nat
    OBVIOUS
  <1>2. \A i \in 1..Len(units) : units[i] \in T
    OBVIOUS
  <1> HIDE DEF T
  <1>3. left \in Seq(T)
    <2>1. \A i \in a..(b - 1) : units[i] \in T
      BY <1>1, <1>2
    <2> QED BY <1>1, <2>1, SubSeqProperties
  <1>4. mid \in Seq(T)
    <2>1. \A i \in b..c : units[i] \in T
      BY <1>1, <1>2
    <2> QED BY <1>1, <2>1, SubSeqProperties
  <1>5. right \in Seq(T)
    <2>1. \A i \in (c + 1)..d : units[i] \in T
      BY <1>1, <1>2
    <2> QED BY <1>1, <2>1, SubSeqProperties
  <1>6. SubSeq(units, a, b - 1) \o SubSeq(units, (b - 1) + 1, c) = SubSeq(units, a, c)
    <2>1. a \in 1..(Len(units) + 1) /\ b - 1 \in (a - 1)..Len(units) /\ c \in (b - 1)..Len(units)
      BY <1>1
    <2> QED BY <1>1, <2>1, ConcatAdjacentSubSeq
  <1>7. SubSeq(units, a, c) \o right = SubSeq(units, a, d)
    <2>1. a \in 1..(Len(units) + 1) /\ c \in (a - 1)..Len(units) /\ d \in c..Len(units)
      BY <1>1
    <2> QED BY <1>1, <2>1, ConcatAdjacentSubSeq
  <1>8. (b - 1) + 1 = b
    BY <1>1
  <1>9. SubSeq(units, a, d) = (left \o mid) \o right
    BY <1>6, <1>7, <1>8
  <1> HIDE DEF left, mid, right
  <1>10. left \o mid \in Seq(T)
    BY <1>3, <1>4
  <1> DEFINE l == FlattenSeq(left)
             m == FlattenSeq(mid)
             r == FlattenSeq(right)
  <1>11. l \in Seq(Words) /\ m \in Seq(Words) /\ r \in Seq(Words)
    BY <1>3, <1>4, <1>5, FlattenType DEF T
  <1>12. FlattenSeq(left \o mid) = l \o m
    BY <1>3, <1>4, FlattenConcat DEF T
  <1>13. FlattenSeq((left \o mid) \o right) = (l \o m) \o r
    <2>1. FlattenSeq((left \o mid) \o right) = FlattenSeq(left \o mid) \o r
      BY <1>5, <1>10, FlattenConcat DEF T
    <2> QED BY <1>12, <2>1
  <1> HIDE DEF l, m, r
  <1>14. Weight((l \o m) \o r) = Weight(l) + Weight(m) + Weight(r)
    <2>1. l \o m \in Seq(Words)
      BY <1>11
    <2>2. Weight((l \o m) \o r) = Weight(l \o m) + Weight(r) /\ Weight(l \o m) = Weight(l) + Weight(m)
      BY <1>11, <2>1, SpeltConcat
    <2> QED BY <2>2
  <1>15. Weight(l) \in Nat /\ Weight(m) \in Nat /\ Weight(r) \in Nat
    BY <1>11, SpeltIs
  <1>16. Load(units, a, d) = Weight((l \o m) \o r)
    BY <1>9, <1>13 DEF Load
  <1>17. Load(units, b, c) = Weight(m)
    BY DEF Load, m, mid
  <1> QED BY <1>14, <1>15, <1>16, <1>17

\* Groups that start at K hold their units within the budget.
Holding(units, budget, K) ==
    \A i \in K : Load(units, i, PartEnd(units, K, i)) <= budget

(* Grouping is fitting where every group, from its start to its end, is    *)
(* within the budget.                                                      *)
LEMMA FittingFacts ==
    ASSUME NEW units \in Seq(Seq(Words)), units # <<>>, NEW budget, NEW K
    PROVE  K \in Fitting(units, budget)
             <=> K \in SUBSET DOMAIN units /\ 1 \in K /\ Holding(units, budget, K)
  <1> DEFINE T == Seq(Words)
             Light(g) == Weight(FlattenSeq(g)) <= budget
  <1>1. K \in Fitting(units, budget)
          <=> K \in SUBSET DOMAIN units /\ 1 \in K /\ \A g \in ToSet(Parts(units, K)) : Light(g)
    BY DEF Fitting
  <1>2. ASSUME K \in SUBSET DOMAIN units, 1 \in K
        PROVE  (\A g \in ToSet(Parts(units, K)) : Light(g)) <=> Holding(units, budget, K)
    <2>1. units \in Seq(T)
      OBVIOUS
    <2> HIDE DEF T
    <2>2. /\ \A i \in K : SubSeq(units, i, PartEnd(units, K, i)) \in ToSet(Parts(units, K))
          /\ \A p \in ToSet(Parts(units, K)) : \E i \in K : p = SubSeq(units, i, PartEnd(units, K, i))
      BY <1>2, <2>1, PartsFacts
    <2>3. \A i \in K : Light(SubSeq(units, i, PartEnd(units, K, i)))
                         <=> Load(units, i, PartEnd(units, K, i)) <= budget
      BY DEF Load
    <2> HIDE DEF Light
    <2> QED BY <2>2, <2>3 DEF Holding
  <1> HIDE DEF Light
  <1> QED BY <1>1, <1>2

(* The greedy starts are fitting where every unit is within the budget.    *)
LEMMA StartsFit ==
    ASSUME NEW units \in Seq(Seq(Words)), units # <<>>, NEW budget \in Nat,
           \A u \in ToSet(units) : Weight(u) <= budget
    PROVE  Starts(units, budget) \in Fitting(units, budget)
  <1> DEFINE K == Starts(units, budget)
             groups == Parts(units, K)
  <1>1. 1 \in DOMAIN units
    OBVIOUS
  <1>2. 1 \in K /\ K \in SUBSET DOMAIN units
    BY <1>1, FirstIs, FirstFacts
  <1>3. \A c \in ToSet(Greedy(units, budget)) : Weight(c) <= budget
    BY GreedyFacts
  <1>4. Greedy(units, budget) = [g \in DOMAIN groups |-> FlattenSeq(groups[g])]
    BY DEF Greedy
  <1> HIDE DEF K, groups
  <1>5. ASSUME NEW g \in ToSet(groups) PROVE Weight(FlattenSeq(g)) <= budget
    <2>1. PICK k \in DOMAIN groups : g = groups[k]
      BY DEF ToSet
    <2>2. FlattenSeq(g) \in ToSet(Greedy(units, budget))
      BY <1>4, <2>1 DEF ToSet
    <2> QED BY <1>3, <2>2
  <1> QED BY <1>2, <1>5 DEF Fitting, K, groups

\* The group of K that place i is in.
GroupOf(K, i) == CHOOSE j \in K : j <= i /\ K \cap (j + 1)..i = {}

LEMMA GroupOfFacts ==
    ASSUME NEW n \in Nat, NEW K \in SUBSET (1..n), 1 \in K, NEW i \in 1..n
    PROVE  GroupOf(K, i) \in K /\ GroupOf(K, i) <= i /\ K \cap (GroupOf(K, i) + 1)..i = {}
  <1> DEFINE T == K \cap 1..i
  <1>1. T \in SUBSET (1..n) /\ T # {}
    OBVIOUS
  <1>2. PICK j \in T : \A k \in T : k <= j
    <2> HIDE DEF T
    <2> QED BY <1>1, Greatest
  <1>3. j \in K /\ j <= i /\ K \cap (j + 1)..i = {}
    BY <1>1, <1>2
  <1> QED BY <1>3 DEF GroupOf

(* No other way to group the units has fewer groups: no two greedy starts  *)
(* are in the same group, since a greedy start is where the units from the *)
(* start before it on are too many.                                        *)
LEMMA GreedyIsLeast ==
    ASSUME NEW units \in Seq(Seq(Words)), units # <<>>, NEW budget \in Nat,
           NEW K \in Fitting(units, budget)
    PROVE  /\ IsFiniteSet(K)
           /\ Cardinality(Starts(units, budget)) <= Cardinality(K)
  <1> DEFINE n == Len(units)
             S == Starts(units, budget)
             f == [i \in S |-> GroupOf(K, i)]
  <1>1. n \in Nat /\ DOMAIN units = 1..n
    OBVIOUS
  <1>2. K \in SUBSET (1..n) /\ 1 \in K /\ Holding(units, budget, K)
    BY <1>1, FittingFacts
  <1>3. S \in SUBSET (1..n)
    BY <1>1, FirstIs
  <1>4. \A i \in S : GroupOf(K, i) \in K /\ GroupOf(K, i) <= i /\ K \cap (GroupOf(K, i) + 1)..i = {}
    <2> HIDE DEF S, n
    <2> QED BY <1>1, <1>2, <1>3, GroupOfFacts
  <1>5. f \in [S -> K]
    <2> HIDE DEF S
    <2> QED BY <1>4
  <1>6. ASSUME NEW i \in S, NEW k \in S, i < k PROVE f[i] # f[k]
    <2> SUFFICES ASSUME GroupOf(K, i) = GroupOf(K, k) PROVE FALSE
      <3> HIDE DEF S
      <3> QED OBVIOUS
    <2> DEFINE j == GroupOf(K, k)
               e == PartEnd(units, K, j)
               b == First(units, budget)[k - 1]
    <2>1. j \in K /\ j <= i /\ K \cap (j + 1)..k = {}
      BY <1>4
    <2> HIDE DEF j
    <2>2. i \in 1..n /\ k \in 1..n /\ j \in 1..n /\ k - 1 \in 1..n /\ k > 1 /\ i \in 1..(k - 1)
      BY <1>1, <1>2, <1>3, <1>6, <2>1
    <2>3. e \in j..n /\ K \cap (j + 1)..e = {} /\ (e < n => e + 1 \in K)
      <3>1. K \in SUBSET DOMAIN units /\ j \in DOMAIN units
        BY <1>1, <1>2, <2>2
      <3> DEFINE T == Seq(Words)
      <3>2. units \in Seq(T)
        OBVIOUS
      <3> HIDE DEF T
      <3> QED BY <3>1, <3>2, PartEndFacts
    <2> HIDE DEF e
    <2>4. k <= e
      <3> SUFFICES ASSUME e < k PROVE FALSE
        BY <1>1, <2>2, <2>3
      <3>1. e + 1 \in K /\ e + 1 \in (j + 1)..k
        BY <1>1, <2>2, <2>3
      <3> QED BY <2>1, <3>1
    <2>5. Opens(units, b, k, budget)
      <3>1. k \in DOMAIN units /\ k \in Starts(units, budget)
        BY <1>1, <2>2
      <3> QED BY <2>2, <3>1, FirstFacts
    <2>6. b \in 1..(k - 1) /\ S \cap (b + 1)..(k - 1) = {}
      <3>1. k - 1 \in DOMAIN units
        BY <1>1, <2>2
      <3> QED BY <3>1, FirstFacts
    <2> HIDE DEF b, S
    <2>7. i <= b
      <3> SUFFICES ASSUME b < i PROVE FALSE
        BY <2>2, <2>6
      <3>1. i \in (b + 1)..(k - 1)
        BY <2>2, <2>6
      <3> QED BY <2>6, <3>1
    <2>8. Load(units, b, k) <= Load(units, j, e)
      <3>1. j \in 1..n /\ b \in j..n /\ k \in b..n /\ e \in k..n
        BY <1>1, <2>1, <2>2, <2>3, <2>4, <2>6, <2>7
      <3> QED BY <3>1, LoadGrows
    <2>9. Load(units, j, e) <= budget
      BY <1>2, <2>1 DEF Holding, e
    <2>10. Load(units, b, k) > budget
      BY <2>5 DEF Opens, Load
    <2>11. Load(units, b, k) \in Nat /\ Load(units, j, e) \in Nat
      <3> DEFINE T == Seq(Words)
      <3>1. \A p \in 1..n, q \in 1..n : SubSeq(units, p, q) \in Seq(T)
        <4> TAKE p \in 1..n, q \in 1..n
        <4>1. \A x \in p..q : units[x] \in T
          BY <1>1
        <4>2. p \in Int /\ q \in Int
          BY <1>1
        <4> HIDE DEF T
        <4> QED BY <4>1, <4>2, SubSeqProperties
      <3>2. \A p \in 1..n, q \in 1..n : Load(units, p, q) \in Nat
        <4> TAKE p \in 1..n, q \in 1..n
        <4>1. FlattenSeq(SubSeq(units, p, q)) \in Seq(Words)
          BY <3>1, FlattenType
        <4> QED BY <4>1, SpeltIs DEF Load
      <3>3. b \in 1..n /\ e \in 1..n
        BY <1>1, <2>2, <2>3, <2>4, <2>6
      <3> QED BY <2>2, <3>2, <3>3
    <2> QED BY <2>8, <2>9, <2>10, <2>11
  <1>7. f \in Injection(S, K)
    <2>1. \A i, k \in S : f[i] = f[k] => i = k
      <3> TAKE i, k \in S
      <3>1. i \in Nat /\ k \in Nat
        BY <1>3
      <3> HIDE DEF f, S
      <3> QED BY <1>6, <3>1
    <2> HIDE DEF f, S
    <2>2. DOMAIN f = S
      BY <1>5
    <2> QED BY <1>5, <2>1, <2>2 DEF Injection, IsInjective
  <1>8. IsFiniteSet(K)
    <2>1. IsFiniteSet(1..n)
      BY <1>1, FS_Interval
    <2> QED BY <1>2, <2>1, FS_Subset
  <1> HIDE DEF f
  <1>9. Cardinality(S) <= Cardinality(K)
    <2> HIDE DEF S
    <2> QED BY <1>7, <1>8, FS_Injection
  <1> QED BY <1>8, <1>9

(* One row for each thing leaves the things.                               *)
LEMMA OneEach ==
    ASSUME NEW S, NEW s \in Seq(S)
    PROVE  /\ Len(FlattenSeq([i \in DOMAIN s |-> <<s[i]>>])) = Len(s)
           /\ FlattenSeq([i \in DOMAIN s |-> <<s[i]>>]) \in Seq(S)
           /\ \A x \in ToSet(FlattenSeq([i \in DOMAIN s |-> <<s[i]>>])) : x \in ToSet(s)
  <1> DEFINE n == Len(s)
             rows == [i \in DOMAIN s |-> <<s[i]>>]
  <1>1. n \in Nat /\ DOMAIN s = 1..n /\ \A i \in 1..n : s[i] \in S /\ s[i] \in ToSet(s)
    BY DEF ToSet
  <1>2. rows = [i \in 1..n |-> IF i \in 1..n THEN <<s[i]>> ELSE <<>>]
    BY <1>1
  <1> HIDE DEF n, rows
  <1>3. FlattenSeq(rows) = Chosen(n, 1..n, s)
    BY <1>2 DEF Chosen
  <1>4. 1..n \in SUBSET (1..n) /\ \A i \in 1..n : s[i] \in S
    BY <1>1
  <1>5. /\ Chosen(n, 1..n, s) \in Seq(S) /\ Len(Chosen(n, 1..n, s)) = Cardinality(1..n)
        /\ \A x \in ToSet(Chosen(n, 1..n, s)) : \E i \in 1..n : x = s[i]
    <2> DEFINE K == 1..n
               f == s
    <2>1. n \in Nat /\ K \in SUBSET (1..n) /\ \A i \in K : f[i] \in S
      BY <1>1, <1>4
    <2> HIDE DEF K, f
    <2>2. Chosen(n, K, f) \in Seq(S)
      BY ONLY <2>1, ChosenRows, Zenon
    <2>3. Len(Chosen(n, K, f)) = Cardinality(K)
      BY ONLY <2>1, <2>2, ChosenRows
    <2>4. ASSUME NEW x \in ToSet(Chosen(n, K, f)) PROVE \E i \in K : x = f[i]
      BY ONLY <2>1, <2>2, <2>4, ChosenRows
    <2> QED BY <2>2, <2>3, <2>4 DEF K, f
  <1>6. Cardinality(1..n) = n
    BY <1>1, FS_Interval
  <1> QED BY <1>1, <1>3, <1>5, <1>6 DEF n, rows

(* Chunks within the budget are not split again.                           *)
LEMMA SplitNoMore ==
    ASSUME NEW parts \in Seq(Seq(Words)), NEW break, NEW budget \in Nat,
           \A c \in ToSet(parts) : Weight(c) <= budget
    PROVE  /\ Finer(parts, break, budget) \in Seq(Seq(Words))
           /\ Len(Finer(parts, break, budget)) = Len(parts)
           /\ \A c \in ToSet(Finer(parts, break, budget)) : Weight(c) <= budget
           /\ Len(Cut(parts, budget)) = Len(parts)
  <1> DEFINE T == Seq(Words)
             rows == [i \in DOMAIN parts |-> <<parts[i]>>]
  <1>1. \A i \in DOMAIN parts : Weight(parts[i]) <= budget
    BY DEF ToSet
  <1>2. Finer(parts, break, budget) = FlattenSeq(rows)
    <2>1. rows = [i \in DOMAIN parts |->
                    IF Weight(parts[i]) <= budget THEN <<parts[i]>>
                    ELSE Greedy(Units(parts[i], break), budget)]
      BY <1>1
    <2> HIDE DEF rows
    <2> QED BY <2>1 DEF Finer
  <1>3. Cut(parts, budget) = FlattenSeq(rows)
    <2>1. rows = [i \in DOMAIN parts |->
                    IF Weight(parts[i]) <= budget THEN <<parts[i]>>
                    ELSE Pieces(parts[i][1], budget)]
      BY <1>1
    <2> HIDE DEF rows
    <2> QED BY <2>1 DEF Cut
  <1>4. parts \in Seq(T)
    OBVIOUS
  <1> HIDE DEF T
  <1>5. /\ Len(FlattenSeq(rows)) = Len(parts) /\ FlattenSeq(rows) \in Seq(T)
        /\ \A x \in ToSet(FlattenSeq(rows)) : x \in ToSet(parts)
    BY <1>4, OneEach
  <1> HIDE DEF rows
  <1> QED BY <1>2, <1>3, <1>5 DEF T

(* A text whose paragraphs all fit is one chunk, or the greedy ones.       *)
LEMMA ChunkedCount ==
    ASSUME NEW words \in Seq(Words), NEW budget \in Nat,
           \A u \in ToSet(Units(words, Paragraph)) : Weight(u) <= budget
    PROVE  Len(Chunked(words, budget))
             = IF Weight(words) <= budget THEN 1
               ELSE Cardinality(Starts(Units(words, Paragraph), budget))
  <1> DEFINE units == Units(words, Paragraph)
             p0 == <<words>>
             p1 == Finer(p0, Paragraph, budget)
             p2 == Finer(p1, Sentence, budget)
             p3 == Finer(p2, Line, budget)
             p4 == Finer(p3, Word, budget)
             count == IF Weight(words) <= budget THEN 1 ELSE Cardinality(Starts(units, budget))
             T == Seq(Words)
  <1>1. units \in Seq(Seq(Words))
    BY UnitsFacts
  <1>2. Chunked(words, budget) = Cut(p4, budget)
    BY DEF Chunked
  <1>3. p1 \in Seq(Seq(Words)) /\ Len(p1) = count /\ \A c \in ToSet(p1) : Weight(c) <= budget
    <2> DEFINE row == IF Weight(words) <= budget THEN <<words>> ELSE Greedy(units, budget)
    <2>1. row \in Seq(Seq(Words)) /\ Len(row) = count /\ \A c \in ToSet(row) : Weight(c) <= budget
      <3>1. CASE Weight(words) <= budget
        <4>1. ToSet(<<words>>) = {words} /\ <<words>> \in Seq(Seq(Words)) /\ Len(<<words>>) = 1
          BY DEF ToSet
        <4> QED BY <3>1, <4>1
      <3>2. CASE ~ Weight(words) <= budget
        <4>1. /\ Greedy(units, budget) \in Seq(Seq(Words))
              /\ Len(Greedy(units, budget)) = Cardinality(Starts(units, budget))
              /\ \A c \in ToSet(Greedy(units, budget)) : Weight(c) <= budget \/ c \in ToSet(units)
          <5> HIDE DEF units
          <5> QED BY <1>1, GreedyFacts
        <4> QED BY <3>2, <4>1
      <3> QED BY <3>1, <3>2
    <2>2. p1 = FlattenSeq(<<row>>)
      <3>1. [i \in DOMAIN p0 |-> IF Weight(p0[i]) <= budget THEN <<p0[i]>>
                                 ELSE Greedy(Units(p0[i], Paragraph), budget)] = <<row>>
        OBVIOUS
      <3> HIDE DEF p0, row
      <3> QED BY <3>1 DEF Finer
    <2>3. row \in Seq(T)
      BY <2>1
    <2> HIDE DEF row, T, p1
    <2>4. FlattenSeq(<<row>>) = row
      BY <2>3, FlattenOne
    <2> HIDE DEF count
    <2> QED BY <2>1, <2>2, <2>4 DEF T
  <1> HIDE DEF p1, count, units
  <1>4. p2 \in Seq(Seq(Words)) /\ Len(p2) = count /\ \A c \in ToSet(p2) : Weight(c) <= budget
    BY <1>3, SplitNoMore
  <1> HIDE DEF p2
  <1>5. p3 \in Seq(Seq(Words)) /\ Len(p3) = count /\ \A c \in ToSet(p3) : Weight(c) <= budget
    BY <1>4, SplitNoMore
  <1> HIDE DEF p3
  <1>6. p4 \in Seq(Seq(Words)) /\ Len(p4) = count /\ \A c \in ToSet(p4) : Weight(c) <= budget
    BY <1>5, SplitNoMore
  <1> HIDE DEF p4
  <1>7. Len(Cut(p4, budget)) = count
    BY <1>6, SplitNoMore
  <1> QED BY <1>2, <1>7 DEF count, units

(* A text within the budget is one group of units.                         *)
LEMMA OneGroup ==
    ASSUME NEW units \in Seq(Seq(Words)), units # <<>>, NEW budget,
           Weight(FlattenSeq(units)) <= budget
    PROVE  {1} \in Fitting(units, budget)
  <1> DEFINE T == Seq(Words)
             e == PartEnd(units, {1}, 1)
  <1>1. Len(units) \in Nat /\ DOMAIN units = 1..Len(units) /\ 1 \in DOMAIN units /\ units \in Seq(T)
    OBVIOUS
  <1> HIDE DEF T
  <1>2. e \in 1..Len(units) /\ (e < Len(units) => e + 1 \in {1})
    <2>1. {1} \in SUBSET DOMAIN units
      BY <1>1
    <2> QED BY <1>1, <2>1, PartEndFacts
  <1> HIDE DEF e
  <1>3. e = Len(units)
    <2> DEFINE L == Len(units)
    <2>1. L \in Nat /\ e \in 1..L /\ ~ e < L
      BY <1>1, <1>2
    <2> HIDE DEF L
    <2>2. e = L
      BY <2>1
    <2> QED BY <2>2 DEF L
  <1>4. SubSeq(units, 1, Len(units)) = units
    BY <1>1, SubSeqFull
  <1>5. Holding(units, budget, {1})
    BY <1>3, <1>4 DEF Holding, Load, e
  <1> QED BY <1>1, <1>5, FittingFacts

(* The chunks of a text whose paragraphs all fit are as few as any way to  *)
(* put its paragraphs together within the budget has groups.               *)
LEMMA ChunksAreFew ==
    ASSUME NEW words \in Seq(Words), words # <<>>, NEW budget \in Nat,
           \A u \in ToSet(Units(words, Paragraph)) : Weight(u) <= budget
    PROVE  Len(Chunked(words, budget))
             = Min({Cardinality(s) : s \in Fitting(Units(words, Paragraph), budget)})
  <1> DEFINE units == Units(words, Paragraph)
             F == Fitting(units, budget)
             counts == {Cardinality(s) : s \in F}
             count == IF Weight(words) <= budget THEN 1 ELSE Cardinality(Starts(units, budget))
  <1>1. units \in Seq(Seq(Words)) /\ FlattenSeq(units) = words
    BY UnitsFacts
  <1>2. units # <<>>
    <2>1. FlattenSeq(<<>>) = <<>>
      <3>1. <<>> \in Seq(Seq(Words))
        OBVIOUS
      <3> QED BY ONLY <3>1, FlattenType
    <2> HIDE DEF units
    <2> QED BY <1>1, <2>1
  <1>3. Len(Chunked(words, budget)) = count
    BY ChunkedCount
  <1>4. \A u \in ToSet(units) : Weight(u) <= budget
    OBVIOUS
  <1> HIDE DEF units
  <1>5. \A s \in F : /\ Cardinality(s) \in Nat /\ IsFiniteSet(s) /\ 1 \in s
                     /\ Cardinality(Starts(units, budget)) <= Cardinality(s)
    <2> TAKE s \in F
    <2>1. IsFiniteSet(s) /\ Cardinality(Starts(units, budget)) <= Cardinality(s)
      BY <1>1, <1>2, GreedyIsLeast
    <2>2. Cardinality(s) \in Nat
      BY <2>1, FS_CardinalityType
    <2>3. 1 \in s
      BY DEF Fitting
    <2> QED BY <2>1, <2>2, <2>3
  <1>6. \E s \in F : Cardinality(s) = count
    <2>1. CASE Weight(words) <= budget
      <3>1. {1} \in F
        BY <1>1, <1>2, <2>1, OneGroup
      <3>2. Cardinality({1}) = 1
        BY FS_Singleton
      <3> QED BY <2>1, <3>1, <3>2
    <2>2. CASE ~ Weight(words) <= budget
      <3>1. Starts(units, budget) \in F
        BY <1>1, <1>2, <1>4, StartsFit
      <3> QED BY <2>2, <3>1
    <2> QED BY <2>1, <2>2
  <1>7. \A s \in F : count <= Cardinality(s)
    <2> TAKE s \in F
    <2>1. CASE Weight(words) <= budget
      <3>1. {1} \in SUBSET s
        BY <1>5
      <3>2. Cardinality({1}) = 1 /\ Cardinality({1}) <= Cardinality(s)
        <4>1. IsFiniteSet(s)
          BY <1>5
        <4> QED BY <3>1, <4>1, FS_Subset, FS_Singleton
      <3> QED BY <2>1, <3>2
    <2>2. CASE ~ Weight(words) <= budget
      BY <1>5, <2>2
    <2> QED BY <2>1, <2>2
  <1> HIDE DEF F, count
  <1>8. counts \in SUBSET Nat /\ counts # {} /\ count \in counts
    BY <1>5, <1>6
  <1>9. \A k \in counts : count <= k
    BY <1>7
  <1> HIDE DEF counts
  <1>10. Min(counts) \in counts /\ \A k \in counts : Min(counts) <= k
    BY <1>8, MinIs
  <1>11. Min(counts) = count
    <2>1. Min(counts) <= count /\ count <= Min(counts) /\ Min(counts) \in Nat /\ count \in Nat
      BY <1>8, <1>9, <1>10
    <2> QED BY <2>1
  <1> QED BY <1>3, <1>11 DEF counts, F, units

(* A text whose paragraphs all fit into the budget is given to the model   *)
(* in as few calls as any grouping of its paragraphs, for any text and any *)
(* settings.                                                               *)
THEOREM FewestCalls == ToolSpec => []NoCallTooMany
  <1>1. ChunkInv => NoCallTooMany
    <2> DEFINE units == Units(text, Paragraph)
               budget == InputBudget(setting)
    <2> SUFFICES ASSUME ChunkInv, chunks # <<>>, text # <<>>, Splits,
                        \A u \in ToSet(units) : Weight(u) <= budget
                 PROVE  Len(chunks) = Min({Cardinality(s) : s \in Fitting(units, budget)})
      BY DEF NoCallTooMany
    <2>1. chunks = Chunked(text, budget)
      BY DEF ChunkInv, SplitOnce
    <2>2. text \in Seq(Words) /\ budget \in Nat
      BY ShapeFacts DEF ChunkInv
    <2> HIDE DEF budget
    <2> QED BY <2>1, <2>2, ChunksAreFew
  <1> QED BY <1>1, ChunkInvHolds, PTL
=============================================================================
