--------------------------- MODULE MCSecretStore ---------------------------
(* An instance of SecretStore for TLC: a first command that makes a store   *)
(* or a key, and two of any kind.                                           *)
EXTENDS SecretStore, TLC

CONSTANTS c1, c2, c3, a, k1, k2

FirstMakes(c) == IF c = c1 THEN {"vault-add", "init"} ELSE Asks

Alike == Permutations({c2, c3}) \cup Permutations(Kids)
=============================================================================
