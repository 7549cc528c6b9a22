---------------------------- MODULE UpstreamPools ----------------------------
(***************************************************************************)
(* The router's registry of upstreams and their pools of API keys          *)
(* (packages/router/server/utils: vault-upstreams.ts, upstream.ts,         *)
(* openrouter-pool-supplier.ts, openrouter-pool.ts).                       *)
(*                                                                         *)
(* A registry entry is the spec it was built from and the pool its         *)
(* supplier made, 0 before the first use.  A pool is an object: a request  *)
(* that holds it goes on using it after the registry has dropped it.  The  *)
(* actions leave the variables of the requests to the module that extends  *)
(* this one.                                                               *)
(***************************************************************************)
EXTENDS Integers, Sequences

CONSTANTS
    Default,    \* the upstream that is always there
    Named,      \* upstreams a vault entry may add or remove
    Specs,      \* what an entry may say
    KeysOf(_),  \* its keys, in order
    Absent,     \* no entry
    Vault,      \* the entries when the router starts
    NoKey,
    MaxChanges  \* bound: edits of the vault and pools that outlive their TTL

Upstreams == {Default} \cup Named

KeysIn(q) == {q[i] : i \in DOMAIN q}

Keys == UNION {KeysIn(KeysOf(s)) : s \in Specs}

ASSUME PoolConstants ==
    /\ Default \notin Named
    /\ Absent \notin Specs
    /\ NoKey \notin Keys
    /\ Vault \in [Upstreams -> Specs \cup {Absent}] /\ Vault[Default] # Absent
    /\ \A s \in Specs : KeysOf(s) \in Seq(Keys) \ {<<>>}
    /\ MaxChanges \in Nat

VARIABLES
    vault,      \* entry per upstream, as the file has it
    changes,
    registry,
    pools

poolVars == <<vault, changes, registry, pools>>

Entries == [Upstreams -> Specs \cup {Absent}]

\* The registry before any pool is made.
Unused(entries) == [u \in Upstreams |-> [spec |-> entries[u], pool |-> 0]]

Pool ==
    [keys : {KeysOf(s) : s \in Specs}, index : Nat \ {0},
     blocked : SUBSET Keys, disabled : SUBSET Keys, expired : BOOLEAN]

PoolTypeOK ==
    /\ vault \in Entries /\ vault[Default] # Absent
    /\ changes \in 0..MaxChanges
    /\ registry \in [Upstreams -> [spec : Specs \cup {Absent}, pool : Nat]]
    /\ registry[Default].spec # Absent
    /\ \A u \in Upstreams : registry[u].pool <= Len(pools)
    /\ pools \in Seq(Pool)
    /\ \A p \in DOMAIN pools : pools[p].index <= Len(pools[p].keys)

\* A starting process reads the vault and has used no pool.
Booted ==
    /\ registry' = Unused(vault)
    /\ pools' = <<>>

PoolInit ==
    /\ vault = Vault
    /\ changes = 0
    /\ registry = Unused(vault)
    /\ pools = <<>>

NewPool(s) ==
    [keys |-> KeysOf(s), index |-> 1, blocked |-> {}, disabled |-> {}, expired |-> FALSE]

-----------------------------------------------------------------------------
\* Someone changes the vault; the default upstream always has keys here.
Edit(u, s) ==
    /\ changes < MaxChanges
    /\ s # vault[u] /\ (u = Default => s # Absent)
    /\ changes' = changes + 1
    /\ vault' = [vault EXCEPT ![u] = s]
    /\ UNCHANGED <<registry, pools>>

\* A pool outlives its TTL.
Expire(p) ==
    /\ p \in DOMAIN pools
    /\ changes < MaxChanges
    /\ changes' = changes + 1
    /\ ~pools[p].expired
    /\ pools' = [pools EXCEPT ![p].expired = TRUE]
    /\ UNCHANGED <<vault, registry>>

\* The wait a 429 asked for is over.
Unblock(p, k) ==
    /\ p \in DOMAIN pools /\ k \in pools[p].blocked
    /\ pools' = [pools EXCEPT ![p].blocked = @ \ {k}]
    /\ UNCHANGED <<vault, changes, registry>>

-----------------------------------------------------------------------------
(* getUpstreamRegistry *)

\* (Mutant: the registry is made anew.)
RebuiltAnew(entries) ==
    IF \A u \in Upstreams : registry[u].spec = entries[u] THEN registry
    ELSE Unused(entries)

\* The entries a request may see: as read last, or as the file has them by now (the file is
\* looked at every pollMs, keepass references are resolved in the background).
Seen == {[u \in Upstreams |-> registry[u].spec], vault}

\* Entries whose spec is what it was are adopted with their pool, others start without.
Rebuilt(entries) ==
    [u \in Upstreams |->
        IF registry[u].spec = entries[u] THEN registry[u]
        ELSE [spec |-> entries[u], pool |-> 0]]

\* resolve: a model of an upstream nobody has registered goes to the default one.
Resolve(reg, u) == IF reg[u].spec # Absent THEN u ELSE Default

\* getPool of the upstream a request goes to: the pool, and all pools afterwards.
Supplied(entry) ==
    IF entry.pool # 0 /\ ~pools[entry.pool].expired
      THEN [pool |-> entry.pool, all |-> pools]
      ELSE [pool |-> Len(pools) + 1, all |-> Append(pools, NewPool(entry.spec))]

-----------------------------------------------------------------------------
(* OpenRouterPool *)

\* The n-th key from the round-robin index on.
KeyAt(pool, n) == pool.keys[((pool.index + n - 2) % Len(pool.keys)) + 1]

Usable(pool, k) == k \notin pool.blocked \cup pool.disabled

\* getAvailableClient: the turn of the key it returns, 0 if it returns none.
Turn(pool) ==
    LET turns == {n \in 1..Len(pool.keys) : Usable(pool, KeyAt(pool, n))}
    IN  IF pool.expired \/ turns = {} THEN 0
        ELSE CHOOSE n \in turns : \A m \in turns : n <= m

Picked(pool) == IF Turn(pool) = 0 THEN NoKey ELSE KeyAt(pool, Turn(pool))

\* The pool after getAvailableClient; a full round leaves the index where it was.
Advanced(pool) ==
    [pool EXCEPT !.index = ((@ + Turn(pool) - 1) % Len(pool.keys)) + 1]

\* handleRateLimitError; a wait of no time, or one that is no number, replaces the one
\* the key may have.
Limited(pool, k, waits) ==
    [pool EXCEPT !.blocked = IF waits THEN @ \cup {k} ELSE @ \ {k}]

\* handle402Error
Refused(pool, k) == [pool EXCEPT !.disabled = @ \cup {k}]
=============================================================================
