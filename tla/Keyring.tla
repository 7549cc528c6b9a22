------------------------------ MODULE Keyring ------------------------------
(* What the embedded store (core/src/embed.ts) holds once its master        *)
(* password has opened it: a keyring of encryption keys, of which one is    *)
(* active, and secrets, each sealed under the key it names.  An operator    *)
(* here is one edit of an open store: the set of contents it may lead to,   *)
(* empty where the code throws.                                             *)
EXTENDS Naturals

CONSTANTS Names,   \* names of secrets
          Kids     \* ids of encryption keys

Absent == [material |-> 0, status |-> "absent"]
NoSecret == [kid |-> "none", seal |-> 0, value |-> 0]

KeysIn(c) == {k \in Kids : c.keys[k] # Absent}

SecretsIn(c) == {n \in Names : c.secrets[n] # NoSecret}

Active(c) == {k \in Kids : c.keys[k].status = "active"}

\* openSecret: the keyring has the key the secret is sealed with.
Opens(c, n) ==
    LET s == c.secrets[n]
    IN s # NoSecret /\ s.kid \in KeysIn(c) /\ c.keys[s.kid].material = s.seal

\* One key becomes the active one, the others are retired.
Activated(keys, k) ==
    [j \in Kids |-> IF keys[j] = Absent THEN Absent
                    ELSE [keys[j] EXCEPT !.status = IF j = k THEN "active" ELSE "retired"]]

\* withKey, for an id that is free; the first key is active in any case.
WithKey(c, k, material, activate) ==
    LET added == [c.keys EXCEPT ![k] = [material |-> material, status |-> "retired"]]
    IN [c EXCEPT !.keys = IF activate \/ KeysIn(c) = {} THEN Activated(added, k) ELSE added]

Empty == [keys |-> [k \in Kids |-> Absent], secrets |-> [n \in Names |-> NoSecret]]

\* newStore: one generated key.
NewStores(material) == {WithKey(Empty, k, material, TRUE) : k \in Kids}

\* sealSecret under a key of the keyring.
Sealed(c, n, k, value) ==
    [c EXCEPT !.secrets[n] = [kid |-> k, seal |-> c.keys[k].material, value |-> value]]

-----------------------------------------------------------------------------
\* setEmbedSecret: under the active key or one that is asked for.
SetSecret(c, value) == {Sealed(c, n, k, value) : n \in Names, k \in KeysIn(c)}

SetNamed(c, n, value) == {Sealed(c, n, k, value) : k \in Active(c)}

\* rotateEmbedSecret
RotateSecret(c, value) ==
    {Sealed(c, n, k, value) : n \in {m \in Names : Opens(c, m)}, k \in Active(c)}

\* generateEmbedKey, addEmbedKey
GenerateKey(c, material) ==
    {WithKey(c, k, material, activate) : k \in Kids \ KeysIn(c), activate \in BOOLEAN}

\* useEmbedKey
UseKey(c) == {[c EXCEPT !.keys = Activated(@, k)] : k \in KeysIn(c)}

\* retireEmbedKey: what is not active is retired already.
RetireKey(c) == {d \in {c} : KeysIn(c) # Active(c)}

\* A key goes whatever it seals (mutant of Removable).
RemovableAny(c, force) == KeysIn(c) \ Active(c)

Sealing(c) == {c.secrets[n].kid : n \in SecretsIn(c)}

Removable(c, force) == (KeysIn(c) \ Active(c)) \ (IF force THEN {} ELSE Sealing(c))

\* removeEmbedKey
RemoveKey(c, force) == {[c EXCEPT !.keys[k] = Absent] : k \in Removable(c, force)}

\* Every secret is sealed again under the new key.
Resealed(c, k) ==
    [n \in Names |-> IF c.secrets[n] = NoSecret THEN NoSecret
                     ELSE [c.secrets[n] EXCEPT !.kid = k, !.seal = c.keys[k].material]]

\* rotateEmbedKeys; with reencrypt it throws on a secret it cannot open.
RotateKeys(c, material) ==
    LET with(k) == WithKey(c, k, material, TRUE)
        kept    == {with(k) : k \in Kids \ KeysIn(c)}
        moved   == {[with(k) EXCEPT !.secrets = Resealed(with(k), k)] : k \in Kids \ KeysIn(c)}
    IN kept \cup {d \in moved : \A n \in SecretsIn(c) : Opens(c, n)}
=============================================================================
