-------------------------- MODULE GitWorktreeProofs --------------------------
(***************************************************************************)
(* Proofs about GitWorktree, for any targets, bounds and named bases: the  *)
(* shared branches only grow, committed output stays on some branch, and a *)
(* target that ends without a warning is merged.                           *)
(***************************************************************************)
EXTENDS GitWorktree, FiniteSetTheorems, SequenceTheorems, TLAPS

-----------------------------------------------------------------------------
(* Branches as sequences *)

LEMMA PrefixFacts ==
    ASSUME NEW S, NEW s \in Seq(S), NEW t \in Seq(S)
    PROVE  IsPrefix(s, t) <=> Len(s) <= Len(t) /\ \A i \in 1..Len(s) : s[i] = t[i]
  <1>1. CASE Len(s) <= Len(t)
    <2>1. /\ Len(s) \in Nat /\ Len(t) \in Nat
          /\ \A i \in 1..Len(s) : s[i] \in S /\ t[i] \in S
      BY <1>1, LenProperties
    <2> DEFINE p == SubSeq(s, 1, Len(s))
               q == SubSeq(t, 1, Len(s))
    <2>2. /\ p \in Seq(S) /\ Len(p) = Len(s)
          /\ \A i \in 1..Len(s) : p[i] = s[i]
      BY <2>1, SubSeqProperties
    <2>3. /\ q \in Seq(S) /\ Len(q) = Len(s)
          /\ \A i \in 1..Len(s) : q[i] = t[i]
      BY <2>1, SubSeqProperties
    <2>4. p = q <=> \A i \in 1..Len(s) : s[i] = t[i]
      <3> HIDE DEF p, q
      <3> QED BY <2>2, <2>3, SeqEqual
    <2> QED BY <1>1, <2>4 DEF IsPrefix
  <1>2. CASE ~(Len(s) <= Len(t))
    BY <1>2 DEF IsPrefix
  <1> QED BY <1>1, <1>2

LEMMA PrefixReflexive == ASSUME NEW S, NEW s \in Seq(S) PROVE IsPrefix(s, s)
  BY PrefixFacts, LenProperties

LEMMA AppendFacts ==
    ASSUME NEW S, NEW s \in Seq(S), NEW c \in S
    PROVE  /\ Append(s, c) \in Seq(S)
           /\ IsPrefix(s, Append(s, c))
           /\ Contains(Append(s, c), c)
           /\ \A d : Contains(s, d) => Contains(Append(s, c), d)
  <1>1. /\ Append(s, c) \in Seq(S) /\ Len(Append(s, c)) = Len(s) + 1 /\ Len(s) \in Nat
        /\ \A i \in 1..Len(s) : Append(s, c)[i] = s[i]
        /\ Append(s, c)[Len(s) + 1] = c
    BY AppendProperties, LenProperties
  <1>2. IsPrefix(s, Append(s, c))
    <2> DEFINE a == Append(s, c)
    <2>1. a \in Seq(S) /\ Len(s) <= Len(a) /\ \A i \in 1..Len(s) : s[i] = a[i]
      BY <1>1
    <2> HIDE DEF a
    <2>2. IsPrefix(s, a)
      BY <2>1, PrefixFacts
    <2> QED BY <2>2 DEF a
  <1> QED BY <1>1, <1>2 DEF Contains

LEMMA PrefixContains ==
    ASSUME NEW S, NEW s \in Seq(S), NEW t \in Seq(S), IsPrefix(s, t),
           NEW c, Contains(s, c)
    PROVE  Contains(t, c)
  <1>1. /\ Len(s) \in Nat /\ Len(t) \in Nat /\ Len(s) <= Len(t)
        /\ \A i \in 1..Len(s) : s[i] = t[i]
    BY PrefixFacts, LenProperties
  <1> QED BY <1>1 DEF Contains

(* A finite set of numbers is ranked: the k-th smallest exists and is one. *)
LEMMA Ranking ==
    ASSUME NEW n \in Nat, NEW own \in SUBSET (1..n)
    PROVE  LET rank(i) == Cardinality({j \in own : j <= i}) IN
             /\ IsFiniteSet(own)
             /\ \A i \in own : rank(i) \in 1..Cardinality(own)
             /\ \A i, j \in own : rank(i) = rank(j) => i = j
             /\ \A k \in 1..Cardinality(own) : \E i \in own : rank(i) = k
  <1> DEFINE upto(i) == {j \in own : j <= i}
             rank(i) == Cardinality(upto(i))
             N       == Cardinality(own)
  <1>1. IsFiniteSet(own) /\ N \in Nat
    <2>1. IsFiniteSet(1..n)
      BY FS_Interval
    <2> QED BY <2>1, FS_Subset, FS_CardinalityType
  <1>2. \A i \in own : /\ IsFiniteSet(upto(i)) /\ rank(i) \in Nat /\ rank(i) <= N
                       /\ i \in upto(i) /\ rank(i) # 0
    <2> TAKE i \in own
    <2>1. IsFiniteSet(upto(i)) /\ rank(i) <= N /\ rank(i) \in Nat
      BY <1>1, FS_Subset, FS_CardinalityType
    <2>2. i \in upto(i)
      OBVIOUS
    <2>3. rank(i) # 0
      BY <2>1, <2>2, FS_EmptySet
    <2> QED BY <2>1, <2>2, <2>3
  <1>3. ASSUME NEW i \in own, NEW j \in own, i < j PROVE rank(i) # rank(j)
    <2>1. upto(i) \in SUBSET upto(j) /\ j \in upto(j) /\ j \notin upto(i)
      <3>1. own \subseteq Int /\ i \in Int /\ j \in Int
        OBVIOUS
      <3>2. upto(i) \subseteq upto(j)
        <4>1. \A m \in own : m <= i => m <= j
          BY <1>3, <3>1
        <4> QED BY <4>1
      <3>3. j <= j /\ ~(j <= i)
        BY <1>3, <3>1
      <3> QED BY <3>2, <3>3
    <2> HIDE DEF upto
    <2>2. IsFiniteSet(upto(j)) /\ upto(i) # upto(j)
      BY <1>2, <2>1
    <2> QED BY <2>1, <2>2, FS_Subset
  <1>4. \A i, j \in own : rank(i) = rank(j) => i = j
    <2> HIDE DEF rank
    <2> QED BY <1>3
  <1> DEFINE f == [i \in own |-> rank(i)]
  <1>5. f \in Injection(own, 1..N)
    <2>1. f \in [own -> 1..N]
      <3> HIDE DEF rank, upto, N
      <3>1. \A i \in own : rank(i) \in 1..N
        BY <1>1, <1>2
      <3> QED BY <3>1
    <2>2. \A i, j \in own : f[i] = f[j] => i = j
      <3> HIDE DEF rank
      <3> QED BY <1>4
    <2> HIDE DEF f, N
    <2> QED BY <2>1, <2>2 DEF Injection, IsInjective
  <1>6. f \in Surjection(own, 1..N)
    <2>1. IsFiniteSet(1..N) /\ Cardinality(1..N) = N
      BY <1>1, FS_Interval
    <2> HIDE DEF f
    <2> QED BY <1>5, <2>1, FS_Injection
  <1>7. \A k \in 1..N : \E i \in own : rank(i) = k
    <2>1. \A k \in 1..N : \E i \in own : f[i] = k
      <3> HIDE DEF f, N
      <3> QED BY <1>6 DEF Surjection
    <2> HIDE DEF rank, N
    <2> QED BY <2>1
  <1> HIDE DEF rank, upto, N
  <1>8. /\ \A i \in own : rank(i) \in 1..N
        /\ \A i, j \in own : rank(i) = rank(j) => i = j
        /\ \A k \in 1..N : \E i \in own : rank(i) = k
    BY <1>1, <1>2, <1>4, <1>7
  <1> QED BY <1>1, <1>8 DEF rank, upto, N

(* What a branch has and another has not, is a branch and has all of it.   *)
LEMMA MissingFacts ==
    ASSUME NEW S, NEW s \in Seq(S), NEW t \in Seq(S)
    PROVE  /\ Missing(s, t) \in Seq(S)
           /\ \A c : Contains(s, c) /\ ~Contains(t, c) => Contains(Missing(s, t), c)
  <1> DEFINE own     == {i \in DOMAIN s : ~Contains(t, s[i])}
             rank(i) == Cardinality({j \in own : j <= i})
             N       == Cardinality(own)
             kth(k)  == CHOOSE i \in own : rank(i) = k
             picked  == [k \in 1..N |-> s[kth(k)]]
  <1>1. Len(s) \in Nat /\ DOMAIN s = 1..Len(s) /\ \A i \in 1..Len(s) : s[i] \in S
    BY LenProperties
  <1>2. Missing(s, t) = picked
    BY DEF Missing
  <1>3. own \in SUBSET (1..Len(s))
    BY <1>1
  <1>4. /\ IsFiniteSet(own)
        /\ \A i \in own : rank(i) \in 1..N
        /\ \A i, j \in own : rank(i) = rank(j) => i = j
        /\ \A k \in 1..N : \E i \in own : rank(i) = k
    <2> HIDE DEF own
    <2> QED BY <1>1, <1>3, Ranking
  <1>5. N \in Nat
    <2> HIDE DEF own
    <2> QED BY <1>4, FS_CardinalityType
  <1>6. \A k \in 1..N : kth(k) \in own /\ rank(kth(k)) = k
    <2> HIDE DEF own, rank, N
    <2> QED BY <1>4
  <1>7. picked \in Seq(S)
    <2>1. \A k \in 1..N : s[kth(k)] \in S
      <3> HIDE DEF kth, own, N
      <3> QED BY <1>1, <1>3, <1>6
    <2>2. picked \in [1..N -> S]
      <3> HIDE DEF kth, N
      <3> QED BY <2>1
    <2> HIDE DEF picked, N
    <2> QED BY <1>5, <2>2, SeqDef
  <1>8. Len(picked) = N
    <2>1. DOMAIN picked = 1..N
      OBVIOUS
    <2> HIDE DEF picked, N
    <2> QED BY <1>5, <1>7, <2>1, LenProperties
  <1>9. ASSUME NEW c, Contains(s, c), ~Contains(t, c) PROVE Contains(picked, c)
    <2>1. PICK i \in 1..Len(s) : s[i] = c
      BY <1>9 DEF Contains
    <2>2. i \in own
      BY <1>1, <1>9, <2>1
    <2> DEFINE k == rank(i)
    <2>3. k \in 1..N /\ kth(k) = i
      <3> HIDE DEF own, rank, N, kth
      <3> QED BY <1>4, <1>6, <2>2
    <2>4. picked[k] = c
      <3> HIDE DEF kth, rank, N, own
      <3> QED BY <2>1, <2>3
    <2> HIDE DEF picked, k, N
    <2> QED BY <1>8, <2>3, <2>4 DEF Contains
  <1> HIDE DEF picked
  <1> QED BY <1>2, <1>7, <1>9

(* A rebase loses no commit of either branch.                              *)
LEMMA OntoFacts ==
    ASSUME NEW S, NEW s \in Seq(S), NEW t \in Seq(S)
    PROVE  /\ t \o Missing(s, t) \in Seq(S)
           /\ \A c : Contains(s, c) \/ Contains(t, c) => Contains(t \o Missing(s, t), c)
  <1> DEFINE m == Missing(s, t)
  <1>1. m \in Seq(S) /\ \A c : Contains(s, c) /\ ~Contains(t, c) => Contains(m, c)
    BY MissingFacts
  <1> HIDE DEF m
  <1>2. /\ t \o m \in Seq(S) /\ Len(t \o m) = Len(t) + Len(m)
        /\ Len(t) \in Nat /\ Len(m) \in Nat
        /\ \A i \in 1..(Len(t) + Len(m)) :
              (t \o m)[i] = IF i <= Len(t) THEN t[i] ELSE m[i - Len(t)]
    BY <1>1, ConcatProperties, LenProperties
  <1>3. ASSUME NEW c, Contains(t, c) PROVE Contains(t \o m, c)
    BY <1>2, <1>3 DEF Contains
  <1>4. ASSUME NEW c, Contains(m, c) PROVE Contains(t \o m, c)
    <2>1. PICK i \in 1..Len(m) : m[i] = c
      BY <1>4 DEF Contains
    <2>2. Len(t) + i \in 1..(Len(t) + Len(m)) /\ (t \o m)[Len(t) + i] = c
      BY <1>2, <2>1
    <2> QED BY <1>2, <2>2 DEF Contains
  <1> QED BY <1>1, <1>2, <1>3, <1>4 DEF m
-----------------------------------------------------------------------------
(* Invariant *)

Closing == {"committed", "base", "rebased", "detached", "current", "clean", "merged"}

HeadOK ==
    /\ head \in [Heads -> Seq(Commits)]
    /\ \A b \in Shared : head[b] # Gone

\* No run commits ahead of its time.
RunInv == \A t \in Targets, n \in 1..MaxRuns : Output(t, n) \in committed => n <= runs

\* A target that has opened has its worktree; a base that was found is a shared branch.
OpenInv(t) ==
    /\ at[t] \in {"open", "closed"} \cup Closing => tree[t] # "none"
    /\ at[t] \in Closing \ {"committed"} => base[t] \in Shared

\* What a run has committed is not there before its target closes, and is on the
\* target's own branch until the branch is deleted.
OwnInv(t) ==
    /\ at[t] \in {"new", "open", "closed"} => Output(t, runs) \notin committed
    /\ at[t] \in Closing /\ Output(t, runs) \in committed
         => Contains(head[t], Output(t, runs))

\* Where the target's own branch is not needed any more.
Settled(c) == c \in astray \/ \E b \in Shared : Contains(head[b], c)

\* What it committed is settled, or on its branch: in the run that committed it, and as
\* long as later runs fail to open because the branch is there.
HomeInv(t) ==
    \A n \in 1..MaxRuns : Output(t, n) \in committed =>
        \/ Settled(Output(t, n))
        \/ /\ Contains(head[t], Output(t, n))
           /\ n = runs \/ at[t] \in {"new", "failed"}

\* A merge settles what the run has committed.
MergedInv(t) == at[t] = "merged" /\ Output(t, runs) \in committed => Settled(Output(t, runs))

\* Only a merge leads to the removal of the worktree without a warning.
SilentInv(t) ==
    at[t] \in {"remove", "done"} /\ ~warned[t] =>
        head[t] = Gone /\ (Output(t, runs) \in committed => Settled(Output(t, runs)))

TargetInv(t) == OpenInv(t) /\ OwnInv(t) /\ HomeInv(t) /\ MergedInv(t) /\ SilentInv(t)

Inv == TypeOK /\ RunInv /\ \A t \in Targets : TargetInv(t)

-----------------------------------------------------------------------------
(* Steps that change a branch *)

\* A branch loses no commit.
Stays(t) == \A c : Contains(head[t], c) => Contains(head'[t], c)

Named == \A t \in Targets : t \in Branches /\ t \notin Shared /\ t # "none" /\ t # Detached

LEMMA NamedBranches ==
    /\ Named /\ Shared \subseteq Branches /\ Branches \subseteq Heads
    /\ Checkouts \subseteq Heads /\ Detached \notin Branches /\ Detached # "none"
    /\ \A t \in Targets : t \notin Checkouts
  BY WorktreeConstants DEF WorktreeConstants, Named, Branches, Shared, Heads, Checkouts

(* A shared branch that is changed grows.                                  *)
LEMMA HeadChange ==
    ASSUME HeadOK, NEW b \in Heads, NEW new \in Seq(Commits),
           head' = [head EXCEPT ![b] = new],
           b \in Shared => IsPrefix(head[b], new)
    PROVE  HeadOK' /\ Grows
  <1>1. head' \in [Heads -> Seq(Commits)]
    BY DEF HeadOK
  <1>2. Grows
    <2> SUFFICES ASSUME NEW d \in Shared PROVE IsPrefix(head[d], head'[d])
      BY DEF Grows
    <2>1. d \in Heads /\ head[d] \in Seq(Commits)
      BY NamedBranches DEF HeadOK
    <2>2. CASE d = b
      BY <2>1, <2>2 DEF HeadOK
    <2>3. CASE d # b
      BY <2>1, <2>3, PrefixReflexive DEF HeadOK
    <2> QED BY <2>2, <2>3
  <1>3. \A d \in Shared : head'[d] # Gone
    <2> TAKE d \in Shared
    <2>1. /\ head[d] \in Seq(Commits) /\ head'[d] \in Seq(Commits) /\ head[d] # <<>>
          /\ IsPrefix(head[d], head'[d])
      BY <1>1, <1>2, NamedBranches DEF HeadOK, Grows, Gone
    <2>2. Len(head[d]) <= Len(head'[d]) /\ Len(head[d]) \in Nat \ {0}
      BY <2>1, PrefixFacts, EmptySeq
    <2>3. Len(<<>>) = 0
      OBVIOUS
    <2> QED BY <2>2, <2>3 DEF Gone
  <1> QED BY <1>1, <1>2, <1>3 DEF HeadOK

LEMMA HeadSame == ASSUME HeadOK, UNCHANGED head
                  PROVE  HeadOK' /\ Grows /\ \A t \in Targets : Stays(t)
  <1>1. \A b \in Shared : head[b] \in Seq(Commits)
    BY NamedBranches DEF HeadOK
  <1>2. Grows
    BY <1>1, PrefixReflexive DEF Grows
  <1> QED BY <1>2 DEF HeadOK, Stays

LEMMA TypeOKHead == TypeOK => HeadOK /\ Tip \in Seq(Commits) /\ checkout \in Heads
  BY NamedBranches DEF TypeOK, HeadOK, Tip

LEMMA AddHead == ASSUME TypeOK, NEW t \in Targets, Add(t)
                 PROVE  HeadOK' /\ Grows /\ Stays(t)
  <1>1. Tip \in Seq(Commits) /\ t \in Heads /\ t \notin Shared
    BY TypeOKHead, NamedBranches DEF Named
  <1>2. \A c : ~Contains(head[t], c)
    <2>1. Len(<<>>) = 0
      OBVIOUS
    <2> QED BY <2>1 DEF Add, Gone, Contains
  <1>3. head' = [head EXCEPT ![t] = Tip]
    BY DEF Add
  <1> QED BY <1>1, <1>2, <1>3, HeadChange, TypeOKHead DEF Stays

LEMMA CommitHead == ASSUME TypeOK, NEW t \in Targets, Commit(t)
                    PROVE  /\ HeadOK' /\ Grows /\ Stays(t)
                           /\ Contains(head'[t], Output(t, runs))
  <1>1. /\ Output(t, runs) \in Commits /\ t \in Heads /\ t \notin Shared
        /\ head[t] \in Seq(Commits)
    BY NamedBranches DEF TypeOK, Commits, Outputs, Named
  <1> DEFINE new == Append(head[t], Output(t, runs))
  <1>2. /\ new \in Seq(Commits) /\ Contains(new, Output(t, runs))
        /\ \A c : Contains(head[t], c) => Contains(new, c)
    BY <1>1, AppendFacts
  <1>3. head' = [head EXCEPT ![t] = new]
    BY DEF Commit
  <1> HIDE DEF new
  <1>4. head'[t] = new
    BY <1>1, <1>3 DEF TypeOK
  <1> QED BY <1>1, <1>2, <1>3, <1>4, HeadChange, TypeOKHead DEF Stays

LEMMA RebaseHead == ASSUME TypeOK, NEW t \in Targets, OpenInv(t), Rebase(t)
                    PROVE  HeadOK' /\ Grows /\ Stays(t)
  <1>1. base[t] \in Shared
    BY DEF Rebase, OpenInv, Closing
  <1>2. /\ head[base[t]] \in Seq(Commits) /\ t \in Heads /\ t \notin Shared
        /\ head[t] \in Seq(Commits)
    BY <1>1, NamedBranches DEF TypeOK, Named
  <1> DEFINE new == head[base[t]] \o Missing(head[t], head[base[t]])
  <1>3. new \in Seq(Commits) /\ \A c : Contains(head[t], c) => Contains(new, c)
    BY <1>2, OntoFacts
  <1>4. head' = [head EXCEPT ![t] = new]
    BY DEF Rebase
  <1> HIDE DEF new
  <1>5. head'[t] = new
    BY <1>2, <1>4 DEF TypeOK
  <1> QED BY <1>2, <1>3, <1>4, <1>5, HeadChange, TypeOKHead DEF Stays

(* A merge changes no target's branch, and leaves the one merged on what   *)
(* is checked out.                                                         *)
LEMMA MergeHead == ASSUME TypeOK, NEW t \in Targets, Merge(t)
                   PROVE  /\ HeadOK' /\ Grows
                          /\ \A u \in Targets : head'[u] = head[u]
                          /\ \A c : Contains(head[t], c) => Contains(head'[checkout], c)
  <1>1. /\ HeadOK /\ checkout \in Heads /\ t \in Heads /\ Tip = head[checkout]
        /\ head[t] \in Seq(Commits) /\ head[checkout] \in Seq(Commits)
        /\ \A u \in Targets : u \in Heads /\ u # checkout
    BY NamedBranches, TypeOKHead DEF TypeOK, Named, Tip
  <1>2. CASE IsPrefix(head[t], Tip)
    <2>1. UNCHANGED head
      BY <1>2 DEF Merge
    <2>2. \A c : Contains(head[t], c) => Contains(head[checkout], c)
      BY <1>1, <1>2, PrefixContains
    <2> QED BY <1>1, <2>1, <2>2, HeadSame
  <1>3. CASE ~IsPrefix(head[t], Tip)
    <2>1. /\ head' = [head EXCEPT ![checkout] = head[t]]
          /\ IsPrefix(head[checkout], head[t])
      BY <1>1, <1>3 DEF Merge, FastForwards
    <2>2. HeadOK' /\ Grows
      BY <1>1, <2>1, HeadChange
    <2>3. head'[checkout] = head[t] /\ \A u \in Targets : head'[u] = head[u]
      BY <1>1, <2>1 DEF HeadOK
    <2> QED BY <2>2, <2>3
  <1> QED BY <1>2, <1>3

LEMMA DeleteHead == ASSUME TypeOK, NEW t \in Targets, head' = [head EXCEPT ![t] = Gone]
                    PROVE  HeadOK' /\ Grows /\ head'[t] = Gone
  <1>1. t \in Heads /\ t \notin Shared /\ Gone \in Seq(Commits)
    BY NamedBranches, EmptySeq DEF Named, Gone
  <1> QED BY <1>1, HeadChange, TypeOKHead DEF TypeOK

LEMMA OperatorHead == ASSUME TypeOK, Operator
                      PROVE  /\ HeadOK' /\ Grows
                             /\ \A u \in Targets : head'[u] = head[u]
  <1>1. /\ HeadOK /\ checkout \in Heads /\ head[checkout] \in Seq(Commits)
        /\ \A u \in Targets : u \in Heads /\ u # checkout /\ u # Detached
        /\ Detached \in Heads /\ Detached \notin Shared
    BY NamedBranches, TypeOKHead DEF TypeOK, Named, Heads
  <1>2. CASE OperatorCommits
    <2>1. work' \in 0..MaxWork
      BY <1>2, WorktreeConstants DEF WorktreeConstants, OperatorCommits, Works, TypeOK
    <2>2. OfOperator(work') \in Commits
      BY <2>1 DEF Commits
    <2> DEFINE new == Append(head[checkout], OfOperator(work'))
    <2>3. new \in Seq(Commits) /\ IsPrefix(head[checkout], new)
      BY <1>1, <2>2, AppendFacts
    <2>4. head' = [head EXCEPT ![checkout] = new]
      BY <1>2 DEF OperatorCommits
    <2> HIDE DEF new
    <2>5. HeadOK' /\ Grows
      BY <1>1, <2>3, <2>4, HeadChange
    <2>6. \A u \in Targets : head'[u] = head[u]
      BY <1>1, <2>4 DEF HeadOK
    <2> QED BY <2>5, <2>6
  <1>3. CASE OperatorEdits
    BY <1>1, <1>3, HeadSame DEF OperatorEdits
  <1>4. CASE OperatorSwitches
    <2>1. PICK b \in Checkouts :
              head' = [head EXCEPT ![Detached] = IF b = Detached THEN Tip ELSE Gone]
      BY <1>4 DEF OperatorSwitches
    <2> DEFINE new == IF b = Detached THEN Tip ELSE Gone
    <2>2. new \in Seq(Commits)
      BY TypeOKHead, EmptySeq DEF Gone
    <2>3. head' = [head EXCEPT ![Detached] = new]
      BY <2>1
    <2> HIDE DEF new
    <2>4. HeadOK' /\ Grows
      BY <1>1, <2>2, <2>3, HeadChange
    <2>5. \A u \in Targets : head'[u] = head[u]
      BY <1>1, <2>3 DEF HeadOK
    <2> QED BY <2>4, <2>5
  <1> QED BY <1>2, <1>3, <1>4 DEF Operator
-----------------------------------------------------------------------------
(* Steps of one target *)

LEMMA SharedKeep ==
    ASSUME HeadOK, HeadOK', Grows, NEW c, \E b \in Shared : Contains(head[b], c)
    PROVE  \E b \in Shared : Contains(head'[b], c)
  <1>1. PICK b \in Shared : Contains(head[b], c)
    OBVIOUS
  <1>2. /\ head[b] \in Seq(Commits) /\ head'[b] \in Seq(Commits)
        /\ IsPrefix(head[b], head'[b])
    BY NamedBranches DEF HeadOK, Grows
  <1> QED BY <1>1, <1>2, PrefixContains

LEMMA SettledKeep ==
    ASSUME HeadOK, HeadOK', Grows, astray \subseteq astray', NEW c, Settled(c)
    PROVE  Settled(c)'
  BY SharedKeep DEF Settled

\* What a step of t leaves alone.
OnlyTarget(t) ==
    /\ UNCHANGED runs /\ astray \subseteq astray'
    /\ \A u \in Targets \ {t} :
        /\ at'[u] = at[u] /\ warned'[u] = warned[u] /\ base'[u] = base[u]
        /\ tree'[u] = tree[u] /\ head'[u] = head[u]

\* It commits nothing but the output of its run, and that to its branch.
CommitsOwn(t) ==
    \/ UNCHANGED committed
    \/ /\ committed' = committed \cup {Output(t, runs)}
       /\ Contains(head'[t], Output(t, runs))

(* While its branch stays, what a target committed does, too.              *)
LEMMA HomeStays ==
    ASSUME NEW t \in Targets, HomeInv(t), HeadOK, HeadOK', Grows, OnlyTarget(t), CommitsOwn(t),
           Stays(t),
           at[t] \in {"new", "failed"} => at'[t] \in {"new", "failed"} \/ head[t] = Gone
    PROVE  HomeInv(t)'
  <1> SUFFICES ASSUME NEW n \in 1..MaxRuns, Output(t, n) \in committed', ~Settled(Output(t, n))'
               PROVE  /\ Contains(head'[t], Output(t, n))
                      /\ n = runs \/ at'[t] \in {"new", "failed"}
    BY DEF HomeInv, OnlyTarget
  <1>1. CASE Output(t, n) \in committed
    <2>1. ~Settled(Output(t, n))
      BY SettledKeep DEF OnlyTarget
    <2>2. Contains(head[t], Output(t, n)) /\ (n = runs \/ at[t] \in {"new", "failed"})
      BY <1>1, <2>1 DEF HomeInv
    <2>3. head[t] # Gone
      <3>1. Len(<<>>) = 0
        OBVIOUS
      <3> QED BY <2>2, <3>1 DEF Contains, Gone
    <2> QED BY <2>2, <2>3 DEF Stays
  <1>2. CASE Output(t, n) = Output(t, runs) /\ Contains(head'[t], Output(t, runs))
    BY <1>2 DEF Output
  <1> QED BY <1>1, <1>2 DEF CommitsOwn

LEMMA StepInv ==
    ASSUME Inv, NEW t \in Targets, HeadOK', Grows, OnlyTarget(t), CommitsOwn(t),
           TypeOK', TargetInv(t)'
    PROVE  Inv'
  <1>1. RunInv'
    <2>1. runs' = runs /\ runs \in Nat
      BY DEF OnlyTarget, Inv, TypeOK
    <2> SUFFICES ASSUME NEW u \in Targets, NEW n \in 1..MaxRuns, Output(u, n) \in committed'
                 PROVE  n <= runs
      BY <2>1 DEF RunInv
    <2>2. CASE Output(u, n) \in committed
      BY <2>2 DEF Inv, RunInv
    <2>3. CASE Output(u, n) = Output(t, runs)
      BY <2>1, <2>3 DEF Output
    <2> QED BY <2>2, <2>3 DEF CommitsOwn
  <1>2. ASSUME NEW u \in Targets \ {t} PROVE TargetInv(u)'
    <2>1. /\ at'[u] = at[u] /\ warned'[u] = warned[u] /\ base'[u] = base[u]
          /\ tree'[u] = tree[u] /\ head'[u] = head[u] /\ runs' = runs
          /\ astray \subseteq astray'
      BY DEF OnlyTarget
    <2>2. \A n \in 1..MaxRuns : Output(u, n) \in committed' => Output(u, n) \in committed
      BY DEF CommitsOwn, Output
    <2>3. TargetInv(u) /\ HeadOK /\ runs \in 1..MaxRuns
      BY TypeOKHead DEF Inv, TypeOK
    <2>4. OpenInv(u)' /\ OwnInv(u)'
      BY <2>1, <2>2, <2>3 DEF TargetInv, OpenInv, OwnInv
    <2>5. \A c : Settled(c) => Settled(c)'
      BY <2>1, <2>3, SettledKeep
    <2>6. HomeInv(u)'
      BY <2>1, <2>2, <2>3, <2>5 DEF TargetInv, HomeInv
    <2>7. MergedInv(u)' /\ SilentInv(u)'
      BY <2>1, <2>2, <2>3, <2>5 DEF TargetInv, MergedInv, SilentInv
    <2> QED BY <2>4, <2>6, <2>7 DEF TargetInv
  <1> QED BY <1>1, <1>2 DEF Inv

\* What TypeOK says of everything but the branches.
RestOK ==
    /\ checkout \in Checkouts
    /\ dirty \in BOOLEAN
    /\ work \in 0..MaxWork
    /\ at \in [Targets -> Steps]
    /\ base \in [Targets -> Checkouts]
    /\ tree \in [Targets -> Targets \cup {Detached, "none"}]
    /\ \A t \in Targets : tree[t] \in {t, Detached, "none"}
    /\ output \in [Targets -> {"none", "untracked", "staged"}]
    /\ \A t \in Targets : tree[t] = "none" => output[t] = "none"
    /\ warned \in [Targets -> BOOLEAN]
    /\ runs \in 1..MaxRuns
    /\ committed \subseteq Outputs /\ astray \subseteq Outputs

LEMMA TypeOKSplit == TypeOK <=> HeadOK /\ RestOK
  BY DEF TypeOK, HeadOK, RestOK

LEMMA TypeOKSplitNext == TypeOK' <=> HeadOK' /\ RestOK'
  BY DEF TypeOK, HeadOK, RestOK

(* Opening and writing.                                                    *)
LEMMA OpenSteps ==
    ASSUME Inv, NEW t \in Targets, Open(t) \/ OpenFails(t) \/ Write(t) \/ CloseInner(t)
    PROVE  Inv' /\ Grows
  <1>1. HeadOK /\ RestOK /\ TargetInv(t) /\ Named
    BY TypeOKSplit, NamedBranches DEF Inv
  <1>2. CASE Open(t)
    <2>1. HeadOK' /\ Grows /\ Stays(t)
      BY <1>2, AddHead DEF Open, Inv
    <2>2. RestOK'
      BY <1>1, <1>2 DEF Open, Goto, RestOK, Named, operator, history, Steps
    <2>3. OnlyTarget(t) /\ CommitsOwn(t)
      BY <1>1, <1>2 DEF Open, Add, Goto, RestOK, HeadOK, OnlyTarget, CommitsOwn, history
    <2>4. HomeInv(t)'
      BY <1>1, <1>2, <2>1, <2>3, HomeStays DEF Open, Add, TargetInv
    <2>5. TargetInv(t)'
      BY <1>1, <1>2, <2>4
      DEF Open, Goto, RestOK, Named, TargetInv, OpenInv, OwnInv, MergedInv, SilentInv, Closing,
          history
    <2> QED BY <2>1, <2>2, <2>3, <2>5, TypeOKSplitNext, StepInv
  <1>3. CASE OpenFails(t)
    <2>1. HeadOK' /\ Grows /\ Stays(t)
      BY <1>1, <1>3, AddHead, HeadSame DEF OpenFails, Inv
    <2>2. RestOK'
      BY <1>1, <1>3 DEF OpenFails, Goto, RestOK, Named, operator, history, Steps
    <2>3. OnlyTarget(t) /\ CommitsOwn(t)
      <3>1. UNCHANGED <<base, warned, runs, output, history>> /\ Goto(t, "failed")
        BY <1>3 DEF OpenFails
      <3>2. CASE UNCHANGED <<head, tree>>
        BY <1>1, <3>1, <3>2 DEF Goto, RestOK, OnlyTarget, CommitsOwn, history
      <3>3. CASE Add(t) /\ tree' = [tree EXCEPT ![t] = t]
        BY <1>1, <3>1, <3>3 DEF Add, Goto, RestOK, HeadOK, OnlyTarget, CommitsOwn, history
      <3> QED BY <1>3, <3>2, <3>3 DEF OpenFails
    <2>4. HomeInv(t)'
      BY <1>1, <1>3, <2>1, <2>3, HomeStays DEF OpenFails, Goto, RestOK, TargetInv
    <2>5. TargetInv(t)'
      BY <1>1, <1>3, <2>4
      DEF OpenFails, Goto, RestOK, TargetInv, OpenInv, OwnInv, MergedInv, SilentInv, Closing,
          history
    <2> QED BY <2>1, <2>2, <2>3, <2>5, TypeOKSplitNext, StepInv
  <1>4. CASE Write(t)
    <2>1. HeadOK' /\ Grows /\ Stays(t)
      BY <1>1, <1>4, HeadSame DEF Write
    <2>2. RestOK'
      <3>1. tree[t] # "none"
        BY <1>1, <1>4 DEF Write, TargetInv, OpenInv
      <3> QED BY <1>1, <1>4, <3>1 DEF Write, RestOK, operator, process, history
    <2>3. OnlyTarget(t) /\ CommitsOwn(t)
      BY <1>4 DEF Write, process, OnlyTarget, CommitsOwn, history
    <2>4. HomeInv(t)'
      BY <1>1, <1>4, <2>1, <2>3, HomeStays DEF Write, TargetInv
    <2>5. TargetInv(t)'
      BY <1>1, <1>4, <2>4
      DEF Write, process, TargetInv, OpenInv, OwnInv, MergedInv, SilentInv, Closing, history
    <2> QED BY <2>1, <2>2, <2>3, <2>5, TypeOKSplitNext, StepInv
  <1>5. CASE CloseInner(t)
    <2>1. HeadOK' /\ Grows /\ Stays(t)
      BY <1>1, <1>5, HeadSame DEF CloseInner
    <2>2. RestOK'
      BY <1>1, <1>5 DEF CloseInner, Goto, RestOK, operator, history, Steps
    <2>3. OnlyTarget(t) /\ CommitsOwn(t)
      BY <1>1, <1>5 DEF CloseInner, Goto, RestOK, OnlyTarget, CommitsOwn, history
    <2>4. HomeInv(t)'
      BY <1>1, <1>5, <2>1, <2>3, HomeStays DEF CloseInner, TargetInv
    <2>5. TargetInv(t)'
      BY <1>1, <1>5, <2>4
      DEF CloseInner, Goto, RestOK, TargetInv, OpenInv, OwnInv, MergedInv, SilentInv, Closing,
          history
    <2> QED BY <2>1, <2>2, <2>3, <2>5, TypeOKSplitNext, StepInv
  <1> QED BY <1>2, <1>3, <1>4, <1>5

(* autoCommit.                                                             *)
LEMMA CommitSteps ==
    ASSUME Inv, NEW t \in Targets, Commit(t) \/ CommitNothing(t)
    PROVE  Inv' /\ Grows
  <1>1. HeadOK /\ RestOK /\ TargetInv(t) /\ Named
    BY TypeOKSplit, NamedBranches DEF Inv
  <1>2. CASE Commit(t)
    <2>1. HeadOK' /\ Grows /\ Stays(t) /\ Contains(head'[t], Output(t, runs))
      BY <1>2, CommitHead DEF Inv
    <2>2. RestOK'
      BY <1>1, <1>2 DEF Commit, Goto, RestOK, operator, history, Steps, Outputs
    <2>3. OnlyTarget(t) /\ CommitsOwn(t)
      BY <1>1, <1>2, <2>1 DEF Commit, Goto, RestOK, HeadOK, OnlyTarget, CommitsOwn, history
    <2>4. HomeInv(t)'
      BY <1>1, <1>2, <2>1, <2>3, HomeStays DEF Commit, TargetInv
    <2>5. TargetInv(t)'
      BY <1>1, <1>2, <2>1, <2>4
      DEF Commit, Goto, RestOK, TargetInv, OpenInv, OwnInv, MergedInv, SilentInv, Closing,
          history
    <2> QED BY <2>1, <2>2, <2>3, <2>5, TypeOKSplitNext, StepInv
  <1>3. CASE CommitNothing(t)
    <2>1. HeadOK' /\ Grows /\ Stays(t)
      BY <1>1, <1>3, HeadSame DEF CommitNothing
    <2>2. RestOK'
      BY <1>1, <1>3 DEF CommitNothing, Goto, RestOK, operator, history, Steps
    <2>3. OnlyTarget(t) /\ CommitsOwn(t)
      BY <1>1, <1>3 DEF CommitNothing, Goto, RestOK, OnlyTarget, CommitsOwn, history
    <2>4. HomeInv(t)'
      BY <1>1, <1>3, <2>1, <2>3, HomeStays DEF CommitNothing, TargetInv
    <2>5. TargetInv(t)'
      BY <1>1, <1>3, <2>4
      DEF CommitNothing, Goto, RestOK, TargetInv, OpenInv, OwnInv, MergedInv, SilentInv,
          Closing, history
    <2> QED BY <2>1, <2>2, <2>3, <2>5, TypeOKSplitNext, StepInv
  <1> QED BY <1>2, <1>3

(* Giving up leads to the removal of the worktree, with a warning.         *)
LEMMA GiveUpSteps ==
    ASSUME Inv, NEW t \in Targets, at[t] \in Closing, GiveUp(t),
           UNCHANGED <<head, operator, base, runs, tree, output, history>>
    PROVE  Inv' /\ Grows
  <1>1. HeadOK /\ RestOK /\ TargetInv(t)
    BY TypeOKSplit DEF Inv
  <1>2. HeadOK' /\ Grows /\ Stays(t)
    BY <1>1, HeadSame
  <1>3. RestOK'
    BY <1>1 DEF GiveUp, Goto, RestOK, operator, history, Steps
  <1>4. OnlyTarget(t) /\ CommitsOwn(t)
    BY <1>1 DEF GiveUp, Goto, RestOK, OnlyTarget, CommitsOwn, history
  <1>5. HomeInv(t)'
    BY <1>1, <1>2, <1>4, HomeStays DEF TargetInv, Closing
  <1>6. TargetInv(t)'
    BY <1>1, <1>5
    DEF GiveUp, Goto, RestOK, TargetInv, OpenInv, OwnInv, MergedInv, SilentInv, Closing,
        history
  <1> QED BY <1>2, <1>3, <1>4, <1>6, TypeOKSplitNext, StepInv

(* The checks on the way to a merge go on, and change nothing else.        *)
LEMMA CheckSteps ==
    ASSUME Inv, NEW t \in Targets,
           \/ at[t] = "detached" /\ Goto(t, "current")
           \/ at[t] = "current" /\ Goto(t, "clean"),
           UNCHANGED <<head, operator, base, warned, runs, tree, output, history>>
    PROVE  Inv' /\ Grows
  <1>1. HeadOK /\ RestOK /\ TargetInv(t)
    BY TypeOKSplit DEF Inv
  <1>2. HeadOK' /\ Grows /\ Stays(t)
    BY <1>1, HeadSame
  <1>3. RestOK'
    BY <1>1 DEF Goto, RestOK, operator, history, Steps
  <1>4. OnlyTarget(t) /\ CommitsOwn(t)
    BY <1>1 DEF Goto, RestOK, OnlyTarget, CommitsOwn, history
  <1>5. HomeInv(t)'
    BY <1>1, <1>2, <1>4, HomeStays DEF TargetInv
  <1>6. TargetInv(t)'
    BY <1>1, <1>5
    DEF Goto, RestOK, TargetInv, OpenInv, OwnInv, MergedInv, SilentInv, Closing, history
  <1> QED BY <1>2, <1>3, <1>4, <1>6, TypeOKSplitNext, StepInv

(* mergeWorktreeToMain, up to the merge.                                   *)
LEMMA RebaseSteps ==
    ASSUME Inv, NEW t \in Targets,
           \/ DetectBase(t) \/ Rebase(t) \/ RebaseFails(t) \/ Detach(t)
           \/ LookAtCheckout(t) \/ LookAtStatus(t)
    PROVE  Inv' /\ Grows
  <1>1. HeadOK /\ RestOK /\ TargetInv(t) /\ Named
    BY TypeOKSplit, NamedBranches DEF Inv
  <1>2. CASE DetectBase(t)
    <2> DEFINE found == IF Asked(t) # Detached THEN Asked(t) ELSE checkout
    <2>1. CASE found = Detached
      <3>1. GiveUp(t) /\ UNCHANGED base
        BY <1>2, <2>1 DEF DetectBase
      <3> QED BY <1>2, <3>1, GiveUpSteps DEF DetectBase, Closing
    <2>2. CASE found # Detached
      <3>1. found \in Shared
        BY <1>1, <2>2, WorktreeConstants DEF WorktreeConstants, RestOK, Checkouts
      <3>2. /\ base' = [base EXCEPT ![t] = found] /\ Goto(t, "base") /\ at[t] = "committed"
            /\ UNCHANGED <<head, operator, warned, runs, tree, output, history>>
        BY <1>2, <2>2 DEF DetectBase
      <3> HIDE DEF found
      <3>3. HeadOK' /\ Grows /\ Stays(t)
        BY <1>1, <3>2, HeadSame
      <3>4. RestOK'
        BY <1>1, <3>1, <3>2 DEF Goto, RestOK, operator, history, Steps, Checkouts
      <3>5. OnlyTarget(t) /\ CommitsOwn(t)
        BY <1>1, <3>2 DEF Goto, RestOK, OnlyTarget, CommitsOwn, history
      <3>6. HomeInv(t)'
        BY <1>1, <3>2, <3>3, <3>5, HomeStays DEF TargetInv
      <3>7. TargetInv(t)'
        BY <1>1, <3>1, <3>2, <3>6
        DEF Goto, RestOK, TargetInv, OpenInv, OwnInv, MergedInv, SilentInv, Closing, history
      <3> QED BY <3>3, <3>4, <3>5, <3>7, TypeOKSplitNext, StepInv
    <2> QED BY <2>1, <2>2
  <1>3. CASE Rebase(t)
    <2>1. HeadOK' /\ Grows /\ Stays(t)
      BY <1>1, <1>3, RebaseHead DEF TargetInv, Inv
    <2>2. RestOK'
      BY <1>1, <1>3 DEF Rebase, Goto, RestOK, operator, history, Steps
    <2>3. OnlyTarget(t) /\ CommitsOwn(t)
      BY <1>1, <1>3 DEF Rebase, Goto, RestOK, HeadOK, OnlyTarget, CommitsOwn, history
    <2>4. HomeInv(t)'
      BY <1>1, <1>3, <2>1, <2>3, HomeStays DEF Rebase, TargetInv
    <2>5. OpenInv(t)' /\ OwnInv(t)'
      BY <1>1, <1>3, <2>1
      DEF Rebase, Goto, RestOK, TargetInv, OpenInv, OwnInv, Stays, Closing, history
    <2>6. MergedInv(t)' /\ SilentInv(t)'
      BY <1>1, <1>3 DEF Rebase, Goto, RestOK, MergedInv, SilentInv
    <2>7. TargetInv(t)'
      BY <2>4, <2>5, <2>6 DEF TargetInv
    <2> QED BY <2>1, <2>2, <2>3, <2>7, TypeOKSplitNext, StepInv
  <1>4. CASE RebaseFails(t)
    BY <1>4, GiveUpSteps DEF RebaseFails, Closing
  <1>5. CASE Detach(t)
    <2>1. HeadOK' /\ Grows /\ Stays(t)
      BY <1>1, <1>5, HeadSame DEF Detach
    <2>2. RestOK'
      BY <1>1, <1>5, NamedBranches DEF Detach, Goto, RestOK, Named, operator, history, Steps
    <2>3. OnlyTarget(t) /\ CommitsOwn(t)
      BY <1>1, <1>5 DEF Detach, Goto, RestOK, OnlyTarget, CommitsOwn, history
    <2>4. HomeInv(t)'
      BY <1>1, <1>5, NamedBranches, <2>1, <2>3, HomeStays DEF Detach, TargetInv
    <2>5. TargetInv(t)'
      BY <1>1, <1>5, NamedBranches, <2>4
      DEF Detach, Goto, RestOK, Named, TargetInv, OpenInv, OwnInv, MergedInv, SilentInv,
          Closing, history
    <2> QED BY <2>1, <2>2, <2>3, <2>5, TypeOKSplitNext, StepInv
  <1>6. CASE LookAtCheckout(t)
    BY <1>6, GiveUpSteps, CheckSteps DEF LookAtCheckout, Closing
  <1>7. CASE LookAtStatus(t)
    BY <1>7, GiveUpSteps, CheckSteps DEF LookAtStatus, Closing
  <1> QED BY <1>2, <1>3, <1>4, <1>5, <1>6, <1>7

(* The merge and what follows it.                                          *)
LEMMA MergeSteps ==
    ASSUME Inv, NEW t \in Targets,
           Merge(t) \/ MergeFails(t) \/ DeleteBranch(t) \/ RemoveTree(t)
    PROVE  Inv' /\ Grows
  <1>1. HeadOK /\ RestOK /\ TargetInv(t) /\ Named
    BY TypeOKSplit, NamedBranches DEF Inv
  <1>2. CASE Merge(t)
    <2>1. /\ HeadOK' /\ Grows /\ \A u \in Targets : head'[u] = head[u]
          /\ \A c : Contains(head[t], c) => Contains(head'[checkout], c)
      BY <1>2, MergeHead DEF Inv
    <2>2. astray \subseteq astray' /\ astray' \subseteq astray \cup {Output(t, runs)}
      BY <1>2 DEF Merge
    <2>3. RestOK'
      BY <1>1, <1>2, <2>2 DEF Merge, Goto, RestOK, operator, Steps, Outputs
    <2>4. OnlyTarget(t) /\ CommitsOwn(t) /\ Stays(t)
      BY <1>1, <1>2, <2>1, <2>2 DEF Merge, Goto, RestOK, OnlyTarget, CommitsOwn, Stays
    <2>5. HomeInv(t)'
      BY <1>1, <1>2, <2>1, <2>4, HomeStays DEF Merge, TargetInv
    <2>6. MergedInv(t)'
      <3> SUFFICES ASSUME Output(t, runs) \in committed PROVE Settled(Output(t, runs))'
        BY <1>2 DEF Merge, MergedInv
      <3>1. CASE checkout = Detached
        BY <1>2, <3>1 DEF Merge, Settled
      <3>2. CASE checkout # Detached
        <4>1. checkout \in Shared
          BY <1>1, <3>2 DEF RestOK, Checkouts
        <4>2. Contains(head[t], Output(t, runs))
          BY <1>1, <1>2 DEF Merge, TargetInv, OwnInv, Closing
        <4>3. Contains(head'[checkout], Output(t, runs))
          BY <2>1, <4>2
        <4> QED BY <1>2, <4>1, <4>3 DEF Merge, process, Settled
      <3> QED BY <3>1, <3>2
    <2>7. TargetInv(t)'
      BY <1>1, <1>2, <2>1, <2>5, <2>6
      DEF Merge, Goto, RestOK, TargetInv, OpenInv, OwnInv, SilentInv, Closing
    <2> QED BY <2>1, <2>3, <2>4, <2>7, TypeOKSplitNext, StepInv
  <1>3. CASE MergeFails(t)
    BY <1>3, GiveUpSteps DEF MergeFails, Closing
  <1>4. CASE DeleteBranch(t)
    <2>1. CASE tree[t] # t /\ IsPrefix(head[t], Tip)
      <3>1. /\ head' = [head EXCEPT ![t] = Gone] /\ Goto(t, "remove") /\ at[t] = "merged"
            /\ UNCHANGED <<operator, base, warned, runs, tree, output, history>>
        BY <1>4, <2>1 DEF DeleteBranch
      <3>2. HeadOK' /\ Grows /\ head'[t] = Gone
        BY <3>1, DeleteHead DEF Inv
      <3>3. RestOK'
        BY <1>1, <3>1 DEF Goto, RestOK, operator, history, Steps
      <3>4. OnlyTarget(t) /\ CommitsOwn(t)
        BY <1>1, <3>1 DEF Goto, RestOK, HeadOK, OnlyTarget, CommitsOwn, history
      <3>5. \A n \in 1..MaxRuns : Output(t, n) \in committed => Settled(Output(t, n))
        BY <1>1, <3>1 DEF TargetInv, HomeInv, MergedInv
      <3>6. \A n \in 1..MaxRuns : Output(t, n) \in committed' => Settled(Output(t, n))'
        BY <1>1, <3>1, <3>2, <3>4, <3>5, SettledKeep DEF OnlyTarget, history
      <3>7. HomeInv(t)' /\ SilentInv(t)'
        <4>1. runs' = runs /\ runs \in 1..MaxRuns
          BY <1>1, <3>4 DEF OnlyTarget, RestOK
        <4> QED BY <3>2, <3>6, <4>1 DEF HomeInv, SilentInv
      <3>8. OpenInv(t)' /\ OwnInv(t)' /\ MergedInv(t)'
        BY <1>1, <3>1 DEF Goto, RestOK, OpenInv, OwnInv, MergedInv, Closing
      <3> QED BY <3>2, <3>3, <3>4, <3>7, <3>8, TypeOKSplitNext, StepInv DEF TargetInv
    <2>2. CASE ~(tree[t] # t /\ IsPrefix(head[t], Tip))
      BY <1>4, <2>2, GiveUpSteps DEF DeleteBranch, Closing
    <2> QED BY <2>1, <2>2
  <1>5. CASE RemoveTree(t)
    <2>1. HeadOK' /\ Grows /\ Stays(t)
      BY <1>1, <1>5, HeadSame DEF RemoveTree
    <2>2. RestOK'
      BY <1>1, <1>5 DEF RemoveTree, Goto, RestOK, operator, history, Steps
    <2>3. OnlyTarget(t) /\ CommitsOwn(t)
      BY <1>1, <1>5 DEF RemoveTree, Goto, RestOK, OnlyTarget, CommitsOwn, history
    <2>4. HomeInv(t)'
      BY <1>1, <1>5, <2>1, <2>3, HomeStays DEF RemoveTree, TargetInv
    <2>5. UNCHANGED <<head, warned, runs, history>>
      BY <1>5 DEF RemoveTree
    <2>6. SilentInv(t)'
      BY <1>1, <1>5, <2>5 DEF RemoveTree, TargetInv, SilentInv, Settled, history
    <2>7. TargetInv(t)'
      BY <1>1, <1>5, <2>4, <2>6
      DEF RemoveTree, Goto, RestOK, TargetInv, OpenInv, OwnInv, MergedInv, Closing
    <2> QED BY <2>1, <2>2, <2>3, <2>7, TypeOKSplitNext, StepInv
  <1> QED BY <1>2, <1>3, <1>4, <1>5

-----------------------------------------------------------------------------
(* The operator, restarts *)

(* A step of the operator only adds to the shared branches.                *)
LEMMA OperatorSteps == ASSUME Inv, Operator PROVE Inv' /\ Grows
  <1>1. HeadOK /\ RestOK
    BY TypeOKSplit DEF Inv
  <1>2. HeadOK' /\ Grows /\ \A u \in Targets : head'[u] = head[u]
    BY OperatorHead DEF Inv
  <1>3. UNCHANGED <<process, tree, output, history>>
    BY DEF Operator, OperatorCommits, OperatorEdits, OperatorSwitches, Works
  <1>4. RestOK'
    <2>1. work' \in 0..MaxWork
      BY <1>1, WorktreeConstants
      DEF WorktreeConstants, Operator, OperatorCommits, OperatorEdits, OperatorSwitches, Works,
          RestOK
    <2>2. checkout' \in Checkouts /\ dirty' \in BOOLEAN
      <3>1. CASE OperatorCommits
        BY <1>1, <3>1 DEF OperatorCommits, RestOK
      <3>2. CASE OperatorEdits
        BY <1>1, <3>2 DEF OperatorEdits, RestOK
      <3>3. CASE OperatorSwitches
        BY <1>1, <3>3 DEF OperatorSwitches, RestOK
      <3> QED BY <3>1, <3>2, <3>3 DEF Operator
    <2> QED BY <1>1, <1>3, <2>1, <2>2 DEF process, history, RestOK
  <1>5. \A c : Settled(c) => Settled(c)'
    BY <1>1, <1>2, <1>3, SettledKeep DEF history
  <1>6. RunInv'
    BY <1>3 DEF Inv, RunInv, process, history
  <1>7. ASSUME NEW t \in Targets PROVE TargetInv(t)'
    <2>1. TargetInv(t)
      BY DEF Inv
    <2>2. UNCHANGED <<at, base, warned, runs, tree, committed>> /\ head'[t] = head[t]
      BY <1>2, <1>3 DEF process, history
    <2>3. OpenInv(t)' /\ OwnInv(t)'
      BY <2>1, <2>2 DEF TargetInv, OpenInv, OwnInv
    <2>4. HomeInv(t)'
      BY <1>5, <2>1, <2>2 DEF TargetInv, HomeInv
    <2>5. MergedInv(t)' /\ SilentInv(t)'
      BY <1>5, <2>1, <2>2 DEF TargetInv, MergedInv, SilentInv
    <2> QED BY <2>3, <2>4, <2>5 DEF TargetInv
  <1> QED BY <1>2, <1>4, <1>6, <1>7, TypeOKSplitNext DEF Inv

LEMMA RestartSteps == ASSUME Inv, Restart PROVE Inv' /\ Grows
  <1>1. HeadOK /\ RestOK
    BY TypeOKSplit DEF Inv
  <1>2. HeadOK' /\ Grows
    BY <1>1, HeadSame DEF Restart
  <1>3. runs' = runs + 1 /\ runs' \in 1..MaxRuns /\ runs \in Nat
    <2>1. runs \in 1..MaxRuns /\ runs < MaxRuns /\ runs' = runs + 1
      BY <1>1 DEF Restart, RestOK
    <2>2. MaxRuns \in Nat
      BY WorktreeConstants DEF WorktreeConstants
    <2> QED BY <2>1, <2>2
  <1>4. RestOK'
    <2>1. /\ at' \in [Targets -> Steps]
          /\ base' \in [Targets -> Checkouts]
          /\ warned' \in [Targets -> BOOLEAN]
      BY DEF Restart, Steps, Checkouts
    <2>2. UNCHANGED <<checkout, dirty, work, tree, output, history>>
      BY DEF Restart, operator
    <2> QED BY <1>1, <1>3, <2>1, <2>2 DEF RestOK, history
  <1>5. RunInv'
    <2> SUFFICES ASSUME NEW t \in Targets, NEW n \in 1..MaxRuns, Output(t, n) \in committed
                 PROVE  n <= runs'
      BY DEF Restart, RunInv, history
    <2> QED BY <1>3 DEF Inv, RunInv
  <1>6. ASSUME NEW t \in Targets PROVE TargetInv(t)'
    <2>1. Output(t, runs') \notin committed
      BY <1>3 DEF Inv, RunInv
    <2>2. TargetInv(t) /\ at'[t] = "new" /\ UNCHANGED <<head, committed, astray>>
      BY DEF Inv, Restart, history
    <2>3. HomeInv(t)'
      BY <2>2 DEF TargetInv, HomeInv, Settled
    <2> QED BY <2>1, <2>2, <2>3 DEF TargetInv, OpenInv, OwnInv, MergedInv, SilentInv, Closing
  <1> QED BY <1>2, <1>4, <1>5, <1>6, TypeOKSplitNext DEF Inv

-----------------------------------------------------------------------------
LEMMA InitInv == Init => Inv
  <1> SUFFICES ASSUME Init PROVE Inv
    OBVIOUS
  <1>1. MaxWork \in Nat /\ MaxRuns \in Nat \ {0}
    BY WorktreeConstants DEF WorktreeConstants
  <1>2. HeadOK
    <2>1. OfOperator(0) \in Commits
      BY <1>1 DEF Commits
    <2>2. /\ <<OfOperator(0)>> \in Seq(Commits) /\ Gone \in Seq(Commits)
          /\ <<OfOperator(0)>> # Gone
      BY <2>1, EmptySeq DEF Gone
    <2> QED BY <2>2, NamedBranches DEF Init, HeadOK
  <1>3. RestOK
    <2>1. work \in 0..MaxWork /\ runs \in 1..MaxRuns
      BY <1>1 DEF Init
    <2>2. /\ at \in [Targets -> Steps]
          /\ base \in [Targets -> Checkouts]
          /\ tree \in [Targets -> Targets \cup {Detached, "none"}]
          /\ output \in [Targets -> {"none", "untracked", "staged"}]
          /\ warned \in [Targets -> BOOLEAN]
      BY DEF Init, Steps, Checkouts
    <2>3. \A t \in Targets : tree[t] = "none" /\ output[t] = "none"
      BY DEF Init
    <2> QED BY <2>1, <2>2, <2>3 DEF Init, RestOK
  <1>4. RunInv /\ \A t \in Targets : TargetInv(t)
    BY DEF Init, RunInv, TargetInv, OpenInv, OwnInv, HomeInv, MergedInv, SilentInv, Closing
  <1> QED BY <1>2, <1>3, <1>4, TypeOKSplit DEF Inv

LEMMA NextInv == Inv /\ [Next]_vars => Inv' /\ Grows
  <1> SUFFICES ASSUME Inv, [Next]_vars PROVE Inv' /\ Grows
    OBVIOUS
  <1>1. ASSUME NEW t \in Targets, TargetStep(t) PROVE Inv' /\ Grows
    BY <1>1, OpenSteps, CommitSteps, RebaseSteps, MergeSteps DEF TargetStep
  <1>2. CASE Operator
    BY <1>2, OperatorSteps
  <1>3. CASE Restart
    BY <1>3, RestartSteps
  <1>4. CASE UNCHANGED vars
    <2>1. Grows
      BY <1>4, TypeOKHead, HeadSame DEF vars, Inv
    <2>2. Inv'
      BY <1>4 DEF vars, operator, process, history, Inv, TypeOK, RunInv, TargetInv,
                  OpenInv, OwnInv, HomeInv, MergedInv, SilentInv, Settled
    <2> QED BY <2>1, <2>2
  <1> QED BY <1>1, <1>2, <1>3, <1>4 DEF Next

-----------------------------------------------------------------------------
(* Every variable keeps its type.                                          *)
THEOREM TypeCorrect == Spec => []TypeOK
  <1>1. Inv => TypeOK
    BY DEF Inv
  <1> QED BY <1>1, InitInv, NextInv, PTL DEF Spec

(* What a target committed is on some branch ever after, through every     *)
(* conflict, refused merge, deleted branch, removed worktree and restart,  *)
(* or went into a HEAD without a branch, by a merge that had found a       *)
(* branch checked out (mergeWorktreeToMain, GitWorktreeTarget.close).      *)
THEOREM CommittedStays == Spec => []CommittedIsKept
  <1>1. Inv => CommittedIsKept
    <2> SUFFICES ASSUME Inv, NEW c \in committed \ astray
                 PROVE  \E b \in Branches : Contains(head[b], c)
      BY DEF CommittedIsKept
    <2>1. PICK t \in Targets, n \in 1..MaxRuns : c = Output(t, n)
      BY DEF Inv, TypeOK, Outputs
    <2>2. Settled(c) \/ Contains(head[t], c)
      BY <2>1 DEF Inv, TargetInv, HomeInv
    <2> QED BY <2>2, NamedBranches DEF Settled, Named
  <1> QED BY <1>1, InitInv, NextInv, PTL DEF Spec

(* A target that ends without a warning is left without a branch, and what *)
(* it committed in this run is on a shared one, or went into the HEAD the  *)
(* operator detached after the check (GitWorktreeTarget.close).            *)
THEOREM SilenceMeansMerged == Spec => []SilentMeansMerged
  <1>1. Inv => SilentMeansMerged
    BY DEF Inv, TargetInv, SilentInv, Settled, SilentMeansMerged
  <1> QED BY <1>1, InitInv, NextInv, PTL DEF Spec

(* No step takes a commit from a branch others work on                     *)
(* (mergeWorktreeToMain).                                                  *)
THEOREM SharedGrow == Spec => SharedBranchesGrow
  <1>1. Inv /\ [Next]_vars => [Grows]_vars
    BY NextInv
  <1> QED BY <1>1, InitInv, NextInv, PTL DEF Spec, SharedBranchesGrow
=============================================================================
