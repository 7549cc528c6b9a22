------------------------------ MODULE Exchange ------------------------------
(***************************************************************************)
(* The unit of data of a pipeline and the operations the engine applies to *)
(* it (packages/core/src/exchange.ts; toBatchEnvelope and fanOut of        *)
(* engine/runner.ts).                                                      *)
(*                                                                         *)
(* An exchange is an id, its variables, a function on keys                 *)
(* <<name, qualifier>>, and, for a folded group, the members it carries    *)
(* with the variables it was folded from.  The payload is the variable     *)
(* Item.  Left out: meta, timestamps, the flag `ephemeral`, the qualifiers *)
(* copy and alt that no engine code writes, and blank values, of which     *)
(* push keeps no history.                                                  *)
(***************************************************************************)
EXTENDS Integers, SequencesExt

\* The spread of objects: f, and what only g has.
f ++ g == [x \in DOMAIN f \cup DOMAIN g |-> IF x \in DOMAIN f THEN f[x] ELSE g[x]]
Only(k, v) == [x \in {k} |-> v]

Key(name, qualifier) == <<name, qualifier>>
Item == Key("item", "new")
OldItem == Key("item", "old")

CreateExchange(id, item, variables) ==
    [id |-> id, vars |-> Only(Item, item) ++ variables, members |-> <<>>, base |-> <<>>]

\* A variable of the same name and qualifier is replaced.
WithVariables(ex, variables) == [ex EXCEPT !.vars = variables ++ @]

SetVariable(ex, name, value) == WithVariables(ex, Only(Key(name, "new"), value))

\* The current value becomes the `old` one.
PushVariable(ex, name, value) ==
    LET new == Key(name, "new")
    IN IF new \in DOMAIN ex.vars
         THEN WithVariables(ex, Only(Key(name, "old"), ex.vars[new]) ++ Only(new, value))
         ELSE SetVariable(ex, name, value)

WithItem(ex, item) == PushVariable(ex, "item", item)

\* Variables of several exchanges, the later one's value wins; no payload.
MergeVariables(group) ==
    LET keys    == (UNION {DOMAIN group[i].vars : i \in DOMAIN group}) \ {Item, OldItem}
        last(k) == CHOOSE i \in DOMAIN group :
                      /\ k \in DOMAIN group[i].vars
                      /\ \A j \in DOMAIN group : k \in DOMAIN group[j].vars => j <= i
    IN [k \in keys |-> group[last(k)].vars[k]]

\* The group as one exchange, its payload all the members' payloads.
ToBatchEnvelope(id, group) ==
    LET base == MergeVariables(group)
    IN [CreateExchange(id, FlattenSeq([i \in DOMAIN group |-> group[i].vars[Item]]), base)
          EXCEPT !.members = group, !.base = base]

\* Every variable of the group goes back (mutant of BatchOverrides).
EveryVariable(ex, base) == Restrict(ex.vars, DOMAIN ex.vars \ {Item})

\* What has changed since the group was folded.
BatchOverrides(ex, base) ==
    Restrict(ex.vars, {k \in DOMAIN ex.vars \ {Item} :
                          k \notin DOMAIN base \/ ex.vars[k] # base[k]})

\* The members again, stamped with what has changed.
UnbatchExchange(ex) ==
    [i \in DOMAIN ex.members |->
        WithVariables(ex.members[i], BatchOverrides(ex, ex.base))]

\* Children inherit the variables of their parent, but not its payload.
FanOut(env, items) ==
    [i \in DOMAIN items |->
        CreateExchange(Append(env.id, i), items[i],
                       Restrict(env.vars, DOMAIN env.vars \ {Item, OldItem}))]
=============================================================================
