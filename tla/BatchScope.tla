----------------------------- MODULE BatchScope -----------------------------
(***************************************************************************)
(* The state of one `.batch(opts, nested)` group while its nested pipeline *)
(* runs (packages/core/src/batch-scope.ts) and the batch:// waypoints that *)
(* read and write it (packages/waypoint/src/batch-scope.ts).               *)
(***************************************************************************)
EXTENDS Exchange

CreateBatchScope(folded) == [folded |-> folded, groupVars |-> <<>>, patched |-> <<>>]

GroupView(s) == WithVariables(s.folded, s.groupVars)

\* A committed member stands as it was committed.
MemberViews(s) ==
    LET members == UnbatchExchange(GroupView(s))
    IN [i \in DOMAIN members |->
          IF members[i].id \in DOMAIN s.patched THEN s.patched[members[i].id] ELSE members[i]]

\* batch://group, batch://members: all a stage reads, taken when it starts.
View(s, name) == IF name = "group" THEN <<GroupView(s)>> ELSE MemberViews(s)

MemberIds(s) == {s.folded.members[i].id : i \in DOMAIN s.folded.members}

Accepts(s, env) == env.id = s.folded.id \/ env.id \in MemberIds(s)

(* batch://return: of the group its changed variables, of a member all.    *)
Commit(s, env) ==
    IF env.id = s.folded.id
      THEN [s EXCEPT !.groupVars = BatchOverrides(env, s.folded.base) ++ @]
      ELSE [s EXCEPT !.patched = Only(env.id, env) ++ @]

Result(s) == MemberViews(s)
=============================================================================
