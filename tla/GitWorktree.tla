----------------------------- MODULE GitWorktree -----------------------------
(***************************************************************************)
(* Targets that write into a git worktree of their own and merge it when   *)
(* they close (packages/core/src/engine: git-worktree-source.ts,           *)
(* git-worktree.ts, git.ts), next to an operator who works in the          *)
(* repository's own checkout.  Every git command is one step; between two  *)
(* of them other targets, the operator or the end of the process may come. *)
(*                                                                         *)
(* A branch is the sequence of its commits, a commit who made it and when; *)
(* a rebased commit is another one because it follows other commits.  The  *)
(* branch of a target is named after the target.  A HEAD without a branch  *)
(* has commits of its own that nothing keeps once it moves on.             *)
(***************************************************************************)
EXTENDS Integers, Sequences, SequencesExt

CONSTANTS
    Targets,
    Main, Topic,    \* branches the operator works on
    Detached,       \* HEAD without a branch
    Asked(_),       \* the base query parameter, Detached if not given
    MaxWork,        \* bound: commits and checkouts of the operator
    MaxRuns         \* bound: times the process is started

Shared == {Main, Topic}

Branches == Shared \cup Targets

\* What the operator's checkout may be on.
Checkouts == Shared \cup {Detached}

Heads == Branches \cup {Detached}

\* A branch that does not exist, or HEAD while it is on a branch; every branch that does
\* starts with the first commit.
Gone == <<>>

Output(t, run) == <<t, run>>

OfOperator(n) == <<Main, n>>

Outputs == {Output(t, n) : t \in Targets, n \in 1..MaxRuns}

Commits == Outputs \cup {OfOperator(n) : n \in 0..MaxWork}

ASSUME WorktreeConstants ==
    /\ Main # Topic /\ Detached \notin Branches /\ Shared \cap Targets = {}
    /\ "none" \notin Targets \cup {Detached}
    /\ \A t \in Targets : Asked(t) \in Shared \cup {Detached}
    /\ MaxWork \in Nat /\ MaxRuns \in Nat \ {0}

VARIABLES
    head,       \* the commits of every branch, and of a HEAD without one
    checkout,   \* what the operator's checkout is on
    dirty,      \* whether its tracked files are changed
    work,       \* what the operator has done so far
    at,         \* per target: the step it is at
    base,       \* per target: the branch it has found to be the base
    tree,       \* per target: what its worktree is on, "none" without one
    output,     \* per target: its files that are in no commit, untracked or staged
    warned,     \* per target: a warning of the run
    runs,
    committed,  \* history: output that was committed
    astray      \* history: output merged into a HEAD the operator had detached by then

operator == <<checkout, dirty, work>>
process  == <<at, base, warned, runs>>
history  == <<committed, astray>>
vars == <<head, operator, process, tree, output, history>>

Steps == {"new", "open", "closed", "committed", "base", "rebased", "detached", "current",
          "clean", "merged", "remove", "done", "failed"}

TypeOK ==
    /\ head \in [Heads -> Seq(Commits)]
    /\ \A b \in Shared : head[b] # Gone
    /\ checkout \in Checkouts
    /\ dirty \in BOOLEAN
    /\ work \in 0..MaxWork
    /\ at \in [Targets -> Steps]
    /\ base \in [Targets -> Checkouts]
    /\ tree \in [Targets -> Targets \cup {Detached, "none"}]
    /\ \A t \in Targets : tree[t] \in {t, Detached, "none"}
    /\ output \in [Targets -> {"none", "untracked", "staged"}]
    /\ \A t \in Targets : tree[t] = "none" => output[t] = "none"
    /\ warned \in [Targets -> BOOLEAN]
    /\ runs \in 1..MaxRuns
    /\ committed \subseteq Outputs /\ astray \subseteq Outputs

Init ==
    /\ checkout \in Checkouts
    /\ head = [b \in Heads |->
                IF b \in Shared \cup {checkout} THEN <<OfOperator(0)>> ELSE Gone]
    /\ dirty = FALSE
    /\ work = 0
    /\ at = [t \in Targets |-> "new"]
    /\ base = [t \in Targets |-> Detached]
    /\ tree = [t \in Targets |-> "none"]
    /\ output = [t \in Targets |-> "none"]
    /\ warned = [t \in Targets |-> FALSE]
    /\ runs = 1
    /\ committed = {} /\ astray = {}

Goto(t, s) == at' = [at EXCEPT ![t] = s]

\* The commits the operator's checkout shows.
Tip == head[checkout]

\* close() catches what committing and merging throw, warns and removes the worktree.
GiveUp(t) ==
    /\ Goto(t, "remove")
    /\ warned' = [warned EXCEPT ![t] = TRUE]

-----------------------------------------------------------------------------
(* open, write *)

\* (Mutant: -B, so that a branch of an earlier run is no obstacle.)
AddReset(t) ==
    /\ tree[t] = "none"
    /\ head' = [head EXCEPT ![t] = Tip]

\* git worktree add -b: neither the branch nor the directory may exist.
Add(t) ==
    /\ head[t] = Gone /\ tree[t] = "none"
    /\ head' = [head EXCEPT ![t] = Tip]

Open(t) ==
    /\ at[t] = "new"
    /\ Add(t)
    /\ tree' = [tree EXCEPT ![t] = t]
    /\ Goto(t, "open")
    /\ UNCHANGED <<operator, base, warned, runs, output, history>>

\* It may, or git fails otherwise, or the inner target does once the worktree is there:
\* open() throws and close() is not called.
OpenFails(t) ==
    /\ at[t] = "new"
    /\ \/ UNCHANGED <<head, tree>>
       \/ Add(t) /\ tree' = [tree EXCEPT ![t] = t]
    /\ Goto(t, "failed")
    /\ UNCHANGED <<operator, base, warned, runs, output, history>>

Write(t) ==
    /\ at[t] = "open"
    /\ output' = [output EXCEPT ![t] = "untracked"]
    /\ UNCHANGED <<head, operator, process, tree, history>>

\* close() of the inner target; if it throws, close() ends and the worktree stays.
CloseInner(t) ==
    /\ at[t] = "open"
    /\ \E s \in {"closed", "failed"} : Goto(t, s)
    /\ UNCHANGED <<head, operator, base, warned, runs, tree, output, history>>

-----------------------------------------------------------------------------
(* autoCommit *)

\* There is something to commit and it is committed.
Commit(t) ==
    /\ at[t] = "closed"
    /\ output[t] # "none"
    /\ head' = [head EXCEPT ![t] = Append(@, Output(t, runs))]
    /\ output' = [output EXCEPT ![t] = "none"]
    /\ committed' = committed \cup {Output(t, runs)}
    /\ Goto(t, "committed")
    /\ UNCHANGED <<operator, base, warned, runs, tree, astray>>

\* There is nothing that git would add, or adding fails, or committing; autoCommit tells
\* the console only and returns.
CommitNothing(t) ==
    /\ at[t] = "closed"
    /\ \/ UNCHANGED output
       \/ output[t] # "none" /\ output' = [output EXCEPT ![t] = "staged"]
    /\ Goto(t, "committed")
    /\ UNCHANGED <<head, operator, base, warned, runs, tree, history>>

-----------------------------------------------------------------------------
(* mergeWorktreeToMain *)

\* detectBaseBranch, unless the URI names the base; a repository without origin and without
\* init.defaultBranch here, so what is checked out is the base.
DetectBase(t) ==
    /\ at[t] = "committed"
    /\ LET found == IF Asked(t) # Detached THEN Asked(t) ELSE checkout IN
        IF found = Detached
          THEN GiveUp(t) /\ UNCHANGED base
          ELSE /\ base' = [base EXCEPT ![t] = found]
               /\ Goto(t, "base")
               /\ UNCHANGED warned
    /\ UNCHANGED <<head, operator, runs, tree, output, history>>

\* The commits of one branch that another has not, in their order.
Missing(branch, other) ==
    LET own    == {i \in DOMAIN branch : ~Contains(other, branch[i])}
        kth(k) == CHOOSE i \in own : Cardinality({j \in own : j <= i}) = k
    IN  [k \in 1..Cardinality(own) |-> branch[kth(k)]]

\* git rebase: what only the branch has follows what the base has.  Git refuses with
\* something staged and does not mind untracked files.
Rebase(t) ==
    /\ at[t] = "base"
    /\ output[t] # "staged"
    /\ head' = [head EXCEPT ![t] = head[base[t]] \o Missing(@, head[base[t]])]
    /\ Goto(t, "rebased")
    /\ UNCHANGED <<operator, base, warned, runs, tree, output, history>>

\* It refuses, or there are conflicts: the branch is where it was.
RebaseFails(t) ==
    /\ at[t] = "base"
    /\ output[t] = "staged" \/ ~IsPrefix(head[base[t]], head[t])
    /\ GiveUp(t)
    /\ UNCHANGED <<head, operator, base, runs, tree, output, history>>

\* git checkout --detach; its failure is ignored.
Detach(t) ==
    /\ at[t] = "rebased"
    /\ \E on \in {Detached, t} : tree' = [tree EXCEPT ![t] = on]
    /\ Goto(t, "detached")
    /\ UNCHANGED <<head, operator, base, warned, runs, output, history>>

\* (Mutant: another branch is no reason to warn.)
LookPast(t) ==
    /\ at[t] = "detached"
    /\ Goto(t, IF checkout = base[t] THEN "current" ELSE "remove")
    /\ UNCHANGED <<head, operator, base, warned, runs, tree, output, history>>

\* Only if the base is checked out ...
LookAtCheckout(t) ==
    /\ at[t] = "detached"
    /\ IF checkout = base[t] THEN Goto(t, "current") /\ UNCHANGED warned ELSE GiveUp(t)
    /\ UNCHANGED <<head, operator, base, runs, tree, output, history>>

\* ... and clean.
LookAtStatus(t) ==
    /\ at[t] = "current"
    /\ IF dirty THEN GiveUp(t) ELSE Goto(t, "clean") /\ UNCHANGED warned
    /\ UNCHANGED <<head, operator, base, runs, tree, output, history>>

\* (Mutant: the branch wins.)
FastForwardAnyway(t) == TRUE

\* git merge --ff-only is content with a HEAD that has the branch already, or is behind it.
FastForwards(t) == IsPrefix(head[t], Tip) \/ IsPrefix(Tip, head[t])

\* It moves what is checked out by now: the base, another branch the operator has switched
\* to since the check, or HEAD alone if she has detached it.
Merge(t) ==
    /\ at[t] = "clean"
    /\ FastForwards(t)
    /\ head' = IF IsPrefix(head[t], Tip) THEN head ELSE [head EXCEPT ![checkout] = head[t]]
    /\ astray' = IF checkout = Detached THEN astray \cup {Output(t, runs)} ELSE astray
    /\ Goto(t, "merged")
    /\ UNCHANGED <<operator, base, warned, runs, tree, output, committed>>

\* It has moved on, or the operator's changes are in the way.
MergeFails(t) ==
    /\ at[t] = "clean"
    /\ ~FastForwards(t) \/ (dirty /\ ~IsPrefix(head[t], Tip))
    /\ GiveUp(t)
    /\ UNCHANGED <<head, operator, base, runs, tree, output, history>>

\* git branch -d: only a branch no worktree is on and whose commits HEAD has.
DeleteBranch(t) ==
    /\ at[t] = "merged"
    /\ IF tree[t] # t /\ IsPrefix(head[t], Tip)
         THEN /\ head' = [head EXCEPT ![t] = Gone]
              /\ Goto(t, "remove")
              /\ UNCHANGED warned
         ELSE GiveUp(t) /\ UNCHANGED head
    /\ UNCHANGED <<operator, base, runs, tree, output, history>>

-----------------------------------------------------------------------------
\* git worktree remove --force, whatever the worktree holds; a failure is logged.
RemoveTree(t) ==
    /\ at[t] = "remove"
    /\ \/ /\ tree' = [tree EXCEPT ![t] = "none"]
          /\ output' = [output EXCEPT ![t] = "none"]
       \/ UNCHANGED <<tree, output>>
    /\ Goto(t, "done")
    /\ UNCHANGED <<head, operator, base, warned, runs, history>>

\* The process ends, and the run is resumed: its targets open again.
Restart ==
    /\ runs < MaxRuns
    /\ runs' = runs + 1
    /\ at' = [t \in Targets |-> "new"]
    /\ warned' = [t \in Targets |-> FALSE]
    /\ base' = [t \in Targets |-> Detached]
    /\ UNCHANGED <<head, operator, tree, output, history>>

-----------------------------------------------------------------------------
(* Operator *)

Works ==
    /\ work < MaxWork
    /\ work' = work + 1
    /\ UNCHANGED <<process, tree, output, history>>

\* Commits what is changed.
OperatorCommits ==
    /\ Works
    /\ head' = [head EXCEPT ![checkout] = Append(@, OfOperator(work'))]
    /\ dirty' = FALSE
    /\ UNCHANGED checkout

OperatorEdits ==
    /\ Works
    /\ dirty' = TRUE
    /\ UNCHANGED <<head, checkout>>

\* To a branch, or off any: what a detached HEAD had is left behind.
OperatorSwitches ==
    /\ Works
    /\ \E b \in Checkouts \ {checkout} :
          /\ checkout' = b
          /\ head' = [head EXCEPT ![Detached] = IF b = Detached THEN Tip ELSE Gone]
    /\ UNCHANGED dirty

-----------------------------------------------------------------------------
TargetStep(t) ==
    \/ Open(t) \/ OpenFails(t) \/ Write(t) \/ CloseInner(t)
    \/ Commit(t) \/ CommitNothing(t)
    \/ DetectBase(t) \/ Rebase(t) \/ RebaseFails(t) \/ Detach(t)
    \/ LookAtCheckout(t) \/ LookAtStatus(t)
    \/ Merge(t) \/ MergeFails(t) \/ DeleteBranch(t) \/ RemoveTree(t)

Operator == OperatorCommits \/ OperatorEdits \/ OperatorSwitches

Next ==
    \/ \E t \in Targets : TargetStep(t)
    \/ Operator
    \/ Restart

Spec == Init /\ [][Next]_vars

-----------------------------------------------------------------------------
\* The branches others work on only grow: no rebase, merge or concurrent close takes a
\* commit from them (git-worktree.ts:135, :172-177, :214-218).
Grows == \A b \in Shared : IsPrefix(head[b], head'[b])

SharedBranchesGrow == [][Grows]_vars

\* What was committed is on some branch ever after: through conflicts, refused merges,
\* deleted branches and removed worktrees, crashes and resumed runs
\* (git-worktree.ts:172-224, git-worktree-source.ts:109-127).  Excepted is what was merged
\* into a HEAD that the operator had detached between the check and the merge: its branch
\* is deleted, and HEAD may move on.
CommittedIsKept ==
    \A c \in committed \ astray : \E b \in Branches : Contains(head[b], c)

\* A target that ends without a warning is merged: its branch is gone, and what it has
\* committed in this run is on a branch the operator works on, or went into the HEAD she
\* detached in time (git-worktree-source.ts:62-65).
SilentMeansMerged ==
    \A t \in Targets :
        at[t] = "done" /\ ~warned[t] =>
            /\ head[t] = Gone
            /\ Output(t, runs) \in committed \ astray =>
                \E b \in Shared : Contains(head[b], Output(t, runs))

=============================================================================
