---------------------------- MODULE RouterCalls ----------------------------
(***************************************************************************)
(* Requests to the router: budget check, forwarding with one retry, cost   *)
(* log (packages/router/server: middleware/rate-limit.ts,                  *)
(* utils/upstream-call.ts, routes/api/chat/completions.ts,                 *)
(* routes/api/translate.ts, utils/cost-tracker.ts, utils/log-rotator.ts).  *)
(*                                                                         *)
(* A slot is a connection that carries one request after the other: a chat *)
(* completion, streamed or not, or a translation of several texts, which   *)
(* makes one upstream call after the other.  A call of the default         *)
(* upstream costs 1, calls of other upstreams are free (free: kind !==     *)
(* 'openrouter').  A step is the code between two awaits.                  *)
(***************************************************************************)
EXTENDS UpstreamPools, FiniteSets, FiniteSetsExt

CONSTANTS
    Slots,
    Clients, Client(_),       \* who uses a slot
    Budget, ClientBudget,     \* dailyBudget, clientBudget
    Texts(_),                 \* bound per slot: texts of a translation, 1 for a chat
    MaxDay, MaxCalls, MaxBoots,   \* bounds: days, requests let in, restarts
    Streams,                  \* whether requests may ask for a stream
    Loses                     \* whether the log may be lost: append fails, rotation

Days == 1..MaxDay

ASSUME RouterConstants ==
    /\ IsFiniteSet(Slots) /\ IsFiniteSet(Clients) /\ \A r \in Slots : Client(r) \in Clients
    /\ Budget \in Nat \ {0} /\ ClientBudget \in Nat \ {0}
    /\ \A r \in Slots : Texts(r) \in Nat \ {0}
    /\ MaxDay \in Nat \ {0} /\ MaxCalls \in Nat /\ MaxBoots \in Nat
    /\ Streams \in BOOLEAN /\ Loses \in BOOLEAN

VARIABLES
    day,
    log,        \* cost per day and client, as log.jsonl has it
    pending,    \* appends that have not landed
    call,       \* per slot: where its request is
    letIn, boots,
    \* history
    spent,      \* cost of what the default upstream has answered today
    peak,       \* most calls and appends that were under way at once
    refused     \* per pool: keys that answered 402 to it

logVars == <<log, pending>>
bounds  == <<letIn, boots>>
vars == <<poolVars, day, logVars, call, bounds, spent, peak, refused>>

Idle == [at |-> "idle", up |-> Default, stream |-> FALSE, texts |-> 0,
         pool |-> 0, key |-> NoKey, other |-> NoKey]

Request ==
    [at : {"idle", "letIn", "sent", "again", "body"}, up : Upstreams, stream : BOOLEAN,
     texts : Nat, pool : Nat, key : Keys \cup {NoKey}, other : Keys \cup {NoKey}]

TypeOK ==
    /\ PoolTypeOK
    /\ day \in Days
    /\ log \in [Days -> [Clients -> Nat]]
    /\ pending \in [Days -> [Clients -> Nat]]
    /\ call \in [Slots -> Request]
    /\ \A r \in Slots :
        /\ call[r].texts <= Texts(r)
        /\ call[r].at \in {"sent", "again", "body"} =>
            call[r].pool \in DOMAIN pools /\ call[r].key \in KeysIn(pools[call[r].pool].keys)
    /\ letIn \in 0..MaxCalls /\ boots \in 0..MaxBoots
    /\ spent \in Nat
    /\ peak \in Nat
    /\ refused \in Seq(SUBSET Keys) /\ Len(refused) = Len(pools)

Init ==
    /\ PoolInit
    /\ day = 1
    /\ log = [d \in Days |-> [c \in Clients |-> 0]]
    /\ pending = [d \in Days |-> [c \in Clients |-> 0]]
    /\ call = [r \in Slots |-> Idle]
    /\ letIn = 0 /\ boots = 0
    /\ spent = 0
    /\ peak = 0
    /\ refused = <<>>

Total(f, S) == MapThenSumSet(LAMBDA x : f[x], S)

\* Calls that are not in the log yet: requested texts and appends on their way.
UnderWay ==
    Total([r \in Slots |-> call[r].texts], Slots)
        + Total([d \in Days |-> Total(pending[d], Clients)], Days)

-----------------------------------------------------------------------------
(* Requests *)

\* (Mutant: as long as the budget is not exceeded.)
WithinOrAt(d, c) == Total(log[d], Clients) <= Budget /\ log[d][c] <= ClientBudget

\* What getDailyCost reads leaves something of the budget and of the client's budget.
Within(d, c) == Total(log[d], Clients) < Budget /\ log[d][c] < ClientBudget

\* The rate-limit middleware lets a request pass; 429 otherwise.
LetIn(r) ==
    /\ call[r].at = "idle" /\ letIn < MaxCalls
    /\ Within(day, Client(r))
    /\ \E u \in Upstreams, s \in {FALSE, Streams}, n \in 1..Texts(r) :
        /\ s => n = 1
        /\ call' = [call EXCEPT ![r] = [Idle EXCEPT !.at = "letIn", !.up = u,
                                                    !.stream = s, !.texts = n]]
        /\ peak' = IF peak > UnderWay + n THEN peak ELSE UnderWay + n
    /\ letIn' = letIn + 1
    /\ UNCHANGED <<poolVars, day, logVars, boots, spent, refused>>

\* The handler ends with an error or a whole answer.
End(r) == call' = [call EXCEPT ![r] = Idle]

\* The handler after the body is read: the vault may be read again, the registry rebuilt,
\* the model resolved and a key picked; 503 if there is none.
Forward(r) ==
    /\ call[r].at = "letIn"
    /\ \E entries \in Seen :
        LET reg == Rebuilt(entries)
            u   == Resolve(reg, call[r].up)
            got == Supplied(reg[u])
            key == Picked(got.all[got.pool])
        IN  /\ registry' = [reg EXCEPT ![u].pool = got.pool]
            /\ pools' = [got.all EXCEPT ![got.pool] = Advanced(@)]
            /\ refused' = IF Len(got.all) > Len(pools) THEN Append(refused, {}) ELSE refused
            /\ IF key = NoKey THEN End(r)
               ELSE call' = [call EXCEPT ![r] = [@ EXCEPT !.at = "sent", !.up = u,
                                                          !.pool = got.pool, !.key = key]]
    /\ UNCHANGED <<vault, changes, day, logVars, bounds, spent, peak>>

\* 429: the key waits, the next one is tried; 503 if there is none.
Retry(r) ==
    /\ call[r].at = "sent"
    /\ \E waits \in BOOLEAN :
        LET pool == Limited(pools[call[r].pool], call[r].key, waits)
            key  == Picked(pool)
        IN  /\ pools' = [pools EXCEPT ![call[r].pool] = Advanced(pool)]
            /\ IF key = NoKey THEN End(r)
               ELSE call' = [call EXCEPT ![r] = [@ EXCEPT !.at = "again", !.key = key,
                                            !.other = IF waits THEN call[r].key ELSE NoKey]]
    /\ UNCHANGED <<vault, changes, registry, day, logVars, bounds, spent, peak, refused>>

\* 429 again: that key waits too and the client gets the 429.
Limit(r) ==
    /\ call[r].at = "again"
    /\ \E waits \in BOOLEAN :
        pools' = [pools EXCEPT ![call[r].pool] = Limited(@, call[r].key, waits)]
    /\ End(r)
    /\ UNCHANGED <<vault, changes, registry, day, logVars, bounds, spent, peak, refused>>

\* (Mutant: the key of the first attempt is out.)
RefusedFirst(r, pool) == Refused(pool, IF call[r].other # NoKey THEN call[r].other ELSE call[r].key)

RefusedUsed(r, pool) == Refused(pool, call[r].key)

\* 402: the key is out of the pool the request was sent from.
PaymentRequired(r) ==
    /\ call[r].at \in {"sent", "again"}
    /\ pools' = [pools EXCEPT ![call[r].pool] = RefusedUsed(r, @)]
    /\ refused' = [refused EXCEPT ![call[r].pool] = @ \cup {call[r].key}]
    /\ End(r)
    /\ UNCHANGED <<vault, changes, registry, day, logVars, bounds, spent, peak>>

\* Any other error, or no connection: 502.
BadGateway(r) ==
    /\ call[r].at \in {"sent", "again"}
    /\ End(r)
    /\ UNCHANGED <<poolVars, day, logVars, bounds, spent, peak, refused>>

\* The upstream answers, and charges for it.
Accept(r) ==
    /\ call[r].at \in {"sent", "again"}
    /\ spent' = IF call[r].up = Default THEN spent + 1 ELSE spent
    /\ call' = [call EXCEPT ![r].at = "body"]
    /\ UNCHANGED <<poolVars, day, logVars, bounds, peak, refused>>

\* The body is read: the call is logged, without waiting for it, and answered; a
\* translation calls on with the pool it holds.
Log(r) ==
    /\ call[r].at = "body" /\ ~call[r].stream
    /\ pending' = IF call[r].up = Default
                    THEN [pending EXCEPT ![day][Client(r)] = @ + 1] ELSE pending
    /\ IF call[r].texts = 1
         THEN End(r) /\ UNCHANGED pools
         ELSE LET key == Picked(pools[call[r].pool])
              IN  /\ pools' = [pools EXCEPT ![call[r].pool] = Advanced(@)]
                  /\ IF key = NoKey THEN End(r)
                     ELSE call' = [call EXCEPT ![r] =
                            [@ EXCEPT !.at = "sent", !.key = key, !.other = NoKey,
                                      !.texts = call[r].texts - 1]]
    /\ UNCHANGED <<vault, changes, registry, day, log, bounds, spent, peak, refused>>

\* A stream is passed on and nothing is logged; a body that does not parse is a 502.
PassOn(r) ==
    /\ call[r].at = "body"
    /\ call[r].stream \/ Loses
    /\ End(r)
    /\ UNCHANGED <<poolVars, day, logVars, bounds, spent, peak, refused>>

-----------------------------------------------------------------------------
(* Log, clock, process *)

\* appendFile lands; a failing one is reported on the console only.
Land(d, c) ==
    /\ pending[d][c] > 0
    /\ pending' = [pending EXCEPT ![d][c] = @ - 1]
    /\ \/ log' = [log EXCEPT ![d][c] = @ + 1]
       \/ Loses /\ UNCHANGED log
    /\ UNCHANGED <<poolVars, day, call, bounds, spent, peak, refused>>

Midnight ==
    /\ day < MaxDay
    /\ day' = day + 1
    /\ spent' = 0
    /\ UNCHANGED <<poolVars, logVars, call, bounds, peak, refused>>

\* The process ends and is started again; rotateLogs renames a log that has grown too big,
\* and the budget reads on from an empty one.
Restart ==
    /\ boots < MaxBoots
    /\ boots' = boots + 1
    /\ Booted
    /\ pending' = [d \in Days |-> [c \in Clients |-> 0]]
    /\ call' = [r \in Slots |-> Idle]
    /\ \/ UNCHANGED log
       \/ Loses /\ log' = [log EXCEPT ![day] = [c \in Clients |-> 0]]
    /\ refused' = <<>>
    /\ UNCHANGED <<vault, changes, day, letIn, spent, peak>>

-----------------------------------------------------------------------------
RequestStep(r) ==
    \/ Forward(r) \/ Retry(r) \/ Limit(r) \/ PaymentRequired(r)
    \/ BadGateway(r) \/ Accept(r) \/ Log(r) \/ PassOn(r)

PoolStep ==
    /\ \/ \E u \in Upstreams, s \in Specs \cup {Absent} : Edit(u, s)
       \/ \E p \in DOMAIN pools : Expire(p)
       \/ \E p \in DOMAIN pools : \E k \in Keys : Unblock(p, k)
    /\ UNCHANGED <<day, logVars, call, bounds, spent, peak, refused>>

Next ==
    \/ \E r \in Slots : LetIn(r) \/ RequestStep(r)
    \/ \E d \in Days : \E c \in Clients : Land(d, c)
    \/ PoolStep \/ Midnight \/ Restart

Spec == Init /\ [][Next]_vars

-----------------------------------------------------------------------------
\* The budgets are checked against the log before a call and charged after it: what a day's
\* log holds exceeds a budget by no more than the requests and appends that were under way
\* at the same time, across midnight and restarts too (rate-limit.ts:14-46).
LoggedIsBounded ==
    \A d \in Days :
        /\ Total(log[d], Clients) < Budget + peak
        /\ \A c \in Clients : log[d][c] < ClientBudget + peak

\* A reload keeps the pool, with its blocked and disabled keys, of every upstream whose
\* entry has not changed, whatever happened to the others (upstream.ts:137-162).
KeepsPools ==
    boots' = boots =>
        \A u \in Upstreams :
            /\ registry'[u].spec = registry[u].spec
            /\ registry[u].pool # 0 /\ ~pools[registry[u].pool].expired
            => registry'[u].pool = registry[u].pool

ReloadKeepsPools == [][KeepsPools]_vars

\* A key that answered 402 is not sent with again from the same pool, whichever attempt of
\* whichever request it answered (upstream-call.ts:69-78, openrouter-pool.ts:46-79).
NewlySent(r) == call'[r].at \in {"sent", "again"} /\ call'[r].at # call[r].at

SendsAllowedKeys ==
    \A r \in Slots : NewlySent(r) => call'[r].key \notin refused'[call'[r].pool]

RefusedStaysOut == [][SendsAllowedKeys]_vars

=============================================================================
