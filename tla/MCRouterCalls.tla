--------------------------- MODULE MCRouterCalls ---------------------------
(* Instances of RouterCalls for TLC. *)
EXTENDS RouterCalls

CONSTANTS k1, k2, one, two, r1, r2, a, b

\* An entry with two keys, and one with the second only.
KeysOfSpec(s) == IF s = one THEN <<k1, k2>> ELSE <<k2>>

\* Both upstreams start with both keys.
BothKeys == [u \in Upstreams |-> one]

\* Each slot belongs to a client of its own.
OwnClient(r) == IF r = r1 THEN a ELSE b

\* The first translates, the second chats.
FirstTranslates(r) == IF r = r1 THEN 2 ELSE 1
=============================================================================
