--------------------------- MODULE NestedStreams ---------------------------
(***************************************************************************)
(* The pipeline  source -> .batch(Size, scope) -> .fork(...) -> target :   *)
(* nested pipelines that run per group and per envelope inside the stream  *)
(* of their parent (packages/core/src/engine/runner.ts: groupStream,       *)
(* batchScopeStream, forkStream, parallelForkStream, enterNested,          *)
(* completeNested, failNested).                                            *)
(*                                                                         *)
(* Streams are pulled: a nested pipeline starts when the target asks for   *)
(* the next envelope, so that of all this only the branches of one         *)
(* parallel fork work at the same time.  Cursors and persists are the      *)
(* matter of DurableCursor.                                                *)
(***************************************************************************)
EXTENDS BatchScope, FiniteSets

CONSTANTS
    N,            \* envelopes of the source
    Size,         \* of a group
    Scopes,       \* scopes under study: the view each stage reads
    Original,     \* Original[m]: the value of variable x of envelope m, or None
    None,
    Branches,     \* branches of the parallel fork
    Children,     \* Children[b]: envelopes branch b makes of its parent
    StoreFails    \* whether events.jsonl may reject

ASSUME StreamConstants ==
    /\ N \in Nat /\ Size \in Nat \ {0} /\ Branches \in Nat \ {0}
    /\ Scopes \subseteq Seq({"group", "members"})
    /\ Children \in [1..Branches -> Nat]
    /\ StoreFails \in BOOLEAN

VARIABLES
    stages,     \* views of the scope's stages
    parallel,   \* the fork is .fork(name, branches)
    pc,         \* what the target's pull waits for
    pulled,     \* envelopes the source has yielded
    scope,      \* the scope of the group at hand
    stage,      \* its stage
    views,      \* exchanges the stage has still to run
    ready,      \* members that left the scope and were not forked yet
    branch,     \* per branch: idle, fresh, marked, ended, failed
    payload,    \* per branch: the payload it works on, in place
    given,      \* envelopes the sequential fork's child has yielded
    buffered,   \* outputs of a parallel fork not yet passed on
    out,        \* what the target got
    nodes,      \* checkpoint nodes entered, with their state
    due         \* history: per envelope, x and payload as last committed

nestedVars == <<pc, pulled, scope, stage, views, ready, branch, payload, given, buffered>>
vars == <<stages, parallel, nestedVars, out, nodes, due>>

\* The id of a folded group.
Group == <<0>>
X == Key("x", "new")
Yields == IF parallel THEN 1..Branches ELSE {1}
Idle == [b \in 1..Branches |-> "idle"]

\* An envelope of the source.
Envelope(m) ==
    CreateExchange(<<m>>, <<m>>, IF Original[m] = None THEN <<>> ELSE Only(X, Original[m]))

ValueOf(ex) == IF X \in DOMAIN ex.vars THEN ex.vars[X] ELSE None

TypeOK ==
    /\ stages \in Scopes
    /\ parallel \in BOOLEAN
    /\ pc \in {"group", "scope", "fork", "emit", "done", "failed"}
    /\ pulled \in 0..N
    /\ stage \in 0..Len(stages)
    /\ Len(views) <= Size /\ Len(ready) <= Size
    /\ branch \in [1..Branches -> {"idle", "fresh", "marked", "ended", "failed"}]
    /\ \A n \in DOMAIN nodes : nodes[n] \in {"in-progress", "done", "failed"}

Init ==
    /\ stages \in Scopes /\ parallel \in BOOLEAN
    /\ pc = "group" /\ pulled = 0
    /\ scope = <<>> /\ stage = 0 /\ views = <<>> /\ ready = <<>>
    /\ branch = Idle /\ payload = [b \in 1..Branches |-> <<>>]
    /\ given = 0 /\ buffered = <<>>
    /\ out = <<>> /\ nodes = <<>>
    /\ due = [m \in 1..N |-> [x |-> Original[m], item |-> <<m>>]]

-----------------------------------------------------------------------------
(* Checkpoint nodes *)

BatchNode == <<"batch", pulled>>
ForkNode(b) == <<"fork", Head(ready).id, b>>

Marked(n, state) == Only(n, state) ++ nodes

\* The step rejects: every level up to the target throws.
Fails == pc' = "failed"

-----------------------------------------------------------------------------
(* groupStream, batchScopeStream *)

\* The next Size envelopes, or what is left of the stream, are a group.
EnterScope ==
    /\ pc = "group" /\ pulled < N
    /\ LET upto   == IF pulled + Size <= N THEN pulled + Size ELSE N
           folded == ToBatchEnvelope(Group, [i \in 1..(upto - pulled) |-> Envelope(pulled + i)])
       IN /\ pulled' = upto
          /\ scope' = CreateBatchScope(folded)
          /\ nodes' = Marked(<<"batch", upto>>, "in-progress")
    /\ stage' = 0
    /\ views' = <<>>
    /\ pc' = "scope"
    /\ UNCHANGED <<stages, parallel, ready, branch, payload, given, buffered, out, due>>

\* The source throws; a group that is not full is lost.
SourceThrows ==
    /\ pc = "group" /\ pulled < N
    /\ Fails
    /\ UNCHANGED <<stages, parallel, pulled, scope, stage, views, ready, branch, payload,
                   given, buffered, out, nodes, due>>

\* A stage of the scope ends, the next one opens its source.
NextStage ==
    /\ pc = "scope" /\ views = <<>> /\ stage < Len(stages)
    /\ stage' = stage + 1
    /\ views' = View(scope, stages[stage + 1])
    /\ UNCHANGED <<stages, parallel, pc, pulled, scope, ready, branch, payload, given,
                   buffered, out, nodes, due>>

(* What the tool of a stage may make of an exchange: leave it, set or push *)
(* a variable, or give it another payload.                                 *)
Results(ex) ==
    {ex, SetVariable(ex, "x", stage), PushVariable(ex, "x", stage),
     WithItem(ex, Append(ex.vars[Item], stage))}

\* What a commit is to bring about: of a group x, of a member everything.
Due(env) ==
    LET ids     == {env.members[i].id[1] : i \in DOMAIN env.members}
        changed == X \in DOMAIN env.vars /\ env.vars[X] = stage
    IN IF env.id = Group
         THEN [m \in 1..N |-> IF m \in ids /\ changed THEN [due[m] EXCEPT !.x = stage] ELSE due[m]]
         ELSE [due EXCEPT ![env.id[1]] = [x |-> ValueOf(env), item |-> env.vars[Item]]]

\* The tool answers and batch://return commits.
CommitResult ==
    /\ pc = "scope" /\ views # <<>>
    /\ \E env \in Results(Head(views)) :
         /\ scope' = Commit(scope, env)
         /\ due' = Due(env)
    /\ views' = Tail(views)
    /\ UNCHANGED <<stages, parallel, pc, pulled, stage, ready, branch, payload, given,
                   buffered, out, nodes>>

\* skip-item, dead-letter: nothing is committed.
DropResult ==
    /\ pc = "scope" /\ views # <<>>
    /\ views' = Tail(views)
    /\ UNCHANGED <<stages, parallel, pc, pulled, scope, stage, ready, branch, payload, given,
                   buffered, out, nodes, due>>

\* The tool fails, or returns an exchange batch://return does not know.
ScopeFails ==
    /\ pc = "scope" /\ views # <<>>
    /\ nodes' = Marked(BatchNode, "failed")
    /\ Fails
    /\ UNCHANGED <<stages, parallel, pulled, scope, stage, views, ready, branch, payload, given,
                   buffered, out, due>>

\* The scope is through: its members go on, or its event is refused.
LeaveScope ==
    /\ pc = "scope" /\ views = <<>> /\ stage = Len(stages)
    /\ \/ /\ nodes' = Marked(BatchNode, "done")
          /\ ready' = Result(scope)
          /\ pc' = "fork"
       \/ /\ StoreFails
          /\ nodes' = Marked(BatchNode, "failed")
          /\ Fails
          /\ UNCHANGED ready
    /\ UNCHANGED <<stages, parallel, pulled, scope, stage, views, branch, payload, given,
                   buffered, out, due>>

-----------------------------------------------------------------------------
(* forkStream, parallelForkStream *)

\* The branches share one envelope (mutant of Reached).
Shared(b) == 1..Branches

\* The payload objects a write of branch b reaches: each has a clone.
Reached(b) == {b}

\* A member is forked: every branch has its node before any of them works.
EnterFork ==
    /\ pc = "fork" /\ ready # <<>> /\ branch = Idle
    /\ branch' = [b \in 1..Branches |-> IF b \in Yields THEN "fresh" ELSE "idle"]
    /\ payload' = [b \in 1..Branches |-> Head(ready).vars[Item]]
    /\ nodes' = [n \in {ForkNode(b) : b \in Yields} |-> "in-progress"] ++ nodes
    /\ given' = 0
    /\ UNCHANGED <<stages, parallel, pc, pulled, scope, stage, views, ready, buffered, out, due>>

\* The group is used up: the target's pull goes on to the next one.
NextGroup ==
    /\ pc = "fork" /\ ready = <<>>
    /\ pc' = "group"
    /\ UNCHANGED <<stages, parallel, pulled, scope, stage, views, ready, branch, payload, given,
                   buffered, out, nodes, due>>

\* A tool of the branch changes the payload in place.
BranchWrites(b) ==
    /\ pc = "fork" /\ branch[b] = "fresh"
    /\ payload' = [c \in 1..Branches |-> IF c \in Reached(b) THEN Append(payload[c], b)
                                                            ELSE payload[c]]
    /\ branch' = [branch EXCEPT ![b] = "marked"]
    /\ UNCHANGED <<stages, parallel, pc, pulled, scope, stage, views, ready, given, buffered,
                   out, nodes, due>>

\* The branch's stream has run out, its outputs are kept.
BranchEnds(b) ==
    /\ pc = "fork" /\ parallel /\ branch[b] = "marked"
    /\ branch' = [branch EXCEPT ![b] = "ended"]
    /\ UNCHANGED <<stages, parallel, pc, pulled, scope, stage, views, ready, payload, given,
                   buffered, out, nodes, due>>

BranchFails(b) ==
    /\ pc = "fork" /\ parallel /\ branch[b] \in {"fresh", "marked"}
    /\ branch' = [branch EXCEPT ![b] = "failed"]
    /\ UNCHANGED <<stages, parallel, pc, pulled, scope, stage, views, ready, payload, given,
                   buffered, out, nodes, due>>

\* What a branch makes of the member: Children[b] envelopes by flatMap (the id
\* also names the branch here).
Outputs(b) ==
    FanOut([Head(ready) EXCEPT !.id = Append(@, b)], [i \in 1..Children[b] |-> payload[b]])

Settled == \A b \in 1..Branches : branch[b] \in {"ended", "failed"}

\* Outputs in the order of the branches.
Merged == FlattenSeq([b \in 1..Branches |-> Outputs(b)])

(* All branches are accounted for, those that failed too, before their     *)
(* outputs are passed on or the first error is thrown.  A completion event *)
(* that is refused throws at once and leaves the nodes behind it as is.    *)
Settle ==
    /\ pc = "fork" /\ parallel /\ Settled
    /\ \E upto \in IF StoreFails THEN 1..(Branches + 1) ELSE {Branches + 1} :
         /\ upto <= Branches => branch[upto] = "ended"
         /\ nodes' = [n \in {ForkNode(b) : b \in {c \in 1..Branches : c < upto}} |->
                         IF branch[n[3]] = "ended" THEN "done" ELSE "failed"]
                     ++ (IF upto <= Branches THEN Only(ForkNode(upto), "done") ELSE <<>>) ++ nodes
         /\ IF upto <= Branches \/ \E b \in 1..Branches : branch[b] = "failed"
              THEN Fails /\ UNCHANGED <<ready, branch, buffered>>
              ELSE /\ buffered' = Merged
                   /\ ready' = Tail(ready)
                   /\ branch' = Idle
                   /\ pc' = "emit"
    /\ UNCHANGED <<stages, parallel, pulled, scope, stage, views, payload, given, out, due>>

\* The next output of the fork reaches the target.
Emit ==
    /\ pc = "emit"
    /\ IF buffered = <<>>
         THEN pc' = "fork" /\ UNCHANGED <<buffered, out>>
         ELSE /\ out' = Append(out, Head(buffered))
              /\ buffered' = Tail(buffered)
              /\ UNCHANGED pc
    /\ UNCHANGED <<stages, parallel, pulled, scope, stage, views, ready, branch, payload, given,
                   nodes, due>>

\* A sequential fork passes on what its child yields as it comes.
PassOn ==
    /\ pc = "fork" /\ ~parallel /\ branch[1] = "marked" /\ given < Children[1]
    /\ out' = Append(out, Outputs(1)[given + 1])
    /\ given' = given + 1
    /\ UNCHANGED <<stages, parallel, pc, pulled, scope, stage, views, ready, branch, payload,
                   buffered, nodes, due>>

ChildEnds ==
    /\ pc = "fork" /\ ~parallel /\ branch[1] = "marked" /\ given = Children[1]
    /\ \/ /\ nodes' = Marked(ForkNode(1), "done")
          /\ ready' = Tail(ready)
          /\ branch' = Idle
          /\ UNCHANGED pc
       \/ /\ StoreFails
          /\ nodes' = Marked(ForkNode(1), "failed")
          /\ Fails
          /\ UNCHANGED <<ready, branch>>
    /\ UNCHANGED <<stages, parallel, pulled, scope, stage, views, payload, given, buffered, out, due>>

ChildFails ==
    /\ pc = "fork" /\ ~parallel /\ branch[1] \in {"fresh", "marked"}
    /\ nodes' = Marked(ForkNode(1), "failed")
    /\ Fails
    /\ UNCHANGED <<stages, parallel, pulled, scope, stage, views, ready, branch, payload, given,
                   buffered, out, due>>

\* The source has ended and everything was passed on.
Finish ==
    /\ pc = "group" /\ pulled = N
    /\ pc' = "done"
    /\ UNCHANGED <<stages, parallel, pulled, scope, stage, views, ready, branch, payload, given,
                   buffered, out, nodes, due>>

Next ==
    \/ EnterScope \/ SourceThrows \/ NextStage \/ CommitResult \/ DropResult \/ ScopeFails
    \/ LeaveScope \/ EnterFork \/ NextGroup \/ Settle \/ Emit \/ PassOn \/ ChildEnds
    \/ ChildFails \/ Finish
    \/ \E b \in 1..Branches : BranchWrites(b) \/ BranchEnds(b) \/ BranchFails(b)

Spec == Init /\ [][Next]_vars

-----------------------------------------------------------------------------
\* All outputs of envelope m, branch by branch, as [id, payload].
Declared(m) ==
    FlattenSeq([b \in 1..Cardinality(Yields) |->
        [i \in 1..Children[b] |-> <<<<m, b, i>>, Append(due[m].item, b)>>]])

(* However the branches of a parallel fork overtake each other, the target *)
(* sees the outputs of one parent after the other, in the order the        *)
(* branches are declared, each made of that branch's own copy of what the  *)
(* scope committed; and a run that is done has passed on all of them       *)
(* (parallelForkStream, forkStream, batchScopeStream).                     *)
DeclaredOrder ==
    LET all  == FlattenSeq([m \in 1..N |-> Declared(m)])
        sent == [i \in DOMAIN out |-> <<out[i].id, out[i].vars[Item]>>]
    IN /\ IsPrefix(sent, all)
       /\ pc = "done" => Len(sent) = Len(all)

(* A member leaves its scope as it was last committed: with the variables  *)
(* of its own or of the last group stage that changed them, never those of *)
(* another member the group was merged from, and with its own payload      *)
(* whatever the group's was replaced by (createBatchScope,                 *)
(* unbatchExchange).                                                       *)
MembersAsCommitted ==
    \A i \in DOMAIN ready :
        LET d == due[ready[i].id[1]]
        IN ValueOf(ready[i]) = d.x /\ ready[i].vars[Item] = d.item
=============================================================================
