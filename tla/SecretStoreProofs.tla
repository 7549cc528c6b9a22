-------------------------- MODULE SecretStoreProofs --------------------------
(***************************************************************************)
(* Proofs about SecretStore, for any commands, names, keys and number of   *)
(* failed writes: whoever opens the store can use it, an entry refers to a *)
(* secret that is there, the store opens with the password the next        *)
(* command resolves, and a memoized store is never stale.                  *)
(***************************************************************************)
EXTENDS SecretStore, TLAPS

-----------------------------------------------------------------------------
(* Edits of an open store                                                  *)

KeyTables == [Kids -> [material : Nat, status : {"absent", "active", "retired"}]]

SecretTables == [Names -> [kid : Kids \cup {"none"}, seal : Nat, value : Nat]]

Fits(x) == \E k \in Kids : Active(x) = {k}

Sound(x) == \A n \in SecretsIn(x) : Opens(x, n)

\* y is what an edit may make of x: what could be opened can be.
Better(x, y) ==
    /\ y \in Contents /\ Fits(y)
    /\ Sound(x) => Sound(y)
    /\ \A n \in Names : Opens(x, n) => Opens(y, n)

LEMMA ActivatedFacts ==
    ASSUME NEW keys \in KeyTables, NEW k \in Kids, keys[k] # Absent
    PROVE  /\ Activated(keys, k) \in KeyTables
           /\ \A j \in Kids : /\ Activated(keys, k)[j].material = keys[j].material
                              /\ Activated(keys, k)[j] = Absent <=> keys[j] = Absent
                              /\ Activated(keys, k)[j].status = "active" <=> j = k
  <1> DEFINE new(j) == IF keys[j] = Absent THEN Absent
                       ELSE [keys[j] EXCEPT !.status = IF j = k THEN "active" ELSE "retired"]
  <1>1. ASSUME NEW j \in Kids
        PROVE  /\ new(j) \in [material : Nat, status : {"absent", "active", "retired"}]
               /\ new(j).material = keys[j].material
               /\ new(j) = Absent <=> keys[j] = Absent
               /\ new(j).status = "active" <=> j = k
    BY DEF KeyTables, Absent
  <1>2. Activated(keys, k) = [j \in Kids |-> new(j)]
    BY DEF Activated
  <1> HIDE DEF new
  <1> QED BY <1>1, <1>2 DEF KeyTables

(* An edit of the keys alone, that takes no key.                           *)
LEMMA MoreKeys ==
    ASSUME NEW x \in Contents, NEW y, y \in Contents, y.secrets = x.secrets, Fits(y),
           \A j \in KeysIn(x) : j \in KeysIn(y) /\ y.keys[j].material = x.keys[j].material
    PROVE  Better(x, y)
  <1>1. \A n \in Names : Opens(x, n) => Opens(y, n)
    BY DEF Opens
  <1>2. SecretsIn(y) = SecretsIn(x) /\ SecretsIn(x) \subseteq Names
    BY DEF SecretsIn
  <1> QED BY <1>1, <1>2 DEF Better, Sound

(* withKey: under a free id, and active whatever it is asked if there is   *)
(* no other key.                                                           *)
LEMMA WithKeyFacts ==
    ASSUME NEW x \in Contents, NEW k \in Kids \ KeysIn(x), NEW m \in Nat,
           NEW activate \in BOOLEAN
    PROVE  LET y == WithKey(x, k, m, activate) IN
             /\ y \in Contents /\ y.secrets = x.secrets
             /\ k \in KeysIn(y) /\ y.keys[k].material = m
             /\ \A j \in KeysIn(x) : j \in KeysIn(y) /\ y.keys[j].material = x.keys[j].material
             /\ Active(y) = IF activate \/ KeysIn(x) = {} THEN {k} ELSE Active(x)
  <1> DEFINE added == [x.keys EXCEPT ![k] = [material |-> m, status |-> "retired"]]
             y     == WithKey(x, k, m, activate)
  <1>1. /\ added \in KeyTables /\ added[k].material = m /\ added[k].status = "retired"
        /\ \A j \in Kids : j # k => added[j] = x.keys[j]
        /\ x.keys[k] = Absent
    BY DEF Contents, KeyTables, KeysIn
  <1>2. added[k] # Absent
    BY <1>1 DEF Absent
  <1>3. \A j \in Kids : j # k => (added[j] = Absent <=> j \notin KeysIn(x))
    BY <1>1 DEF KeysIn
  <1> DEFINE act == Activated(added, k)
  <1>4. /\ act \in KeyTables
        /\ \A j \in Kids : /\ act[j].material = added[j].material
                           /\ act[j] = Absent <=> added[j] = Absent
                           /\ act[j].status = "active" <=> j = k
    <2> HIDE DEF added
    <2> QED BY <1>1, <1>2, ActivatedFacts
  <1>5. y = [x EXCEPT !.keys = IF activate \/ KeysIn(x) = {} THEN act ELSE added]
    BY DEF WithKey
  <1> HIDE DEF added, act, y
  <1>6. CASE activate \/ KeysIn(x) = {}
    <2>1. y.keys = act /\ y.secrets = x.secrets /\ y \in Contents
      BY <1>4, <1>5, <1>6 DEF Contents, KeyTables
    <2>2. Active(y) = {k}
      BY <1>4, <2>1 DEF Active
    <2>3. k \in KeysIn(y) /\ y.keys[k].material = m
      BY <1>1, <1>2, <1>4, <2>1 DEF KeysIn
    <2>4. \A j \in KeysIn(x) : j \in KeysIn(y) /\ y.keys[j].material = x.keys[j].material
      BY <1>1, <1>3, <1>4, <2>1 DEF KeysIn
    <2> QED BY <1>6, <2>1, <2>2, <2>3, <2>4 DEF y
  <1>7. CASE ~(activate \/ KeysIn(x) = {})
    <2>1. y.keys = added /\ y.secrets = x.secrets /\ y \in Contents
      BY <1>1, <1>5, <1>7 DEF Contents, KeyTables
    <2>2. Active(y) = Active(x)
      BY <1>1, <2>1 DEF Active, Absent
    <2>3. k \in KeysIn(y) /\ y.keys[k].material = m
      BY <1>1, <1>2, <2>1 DEF KeysIn
    <2>4. \A j \in KeysIn(x) : j \in KeysIn(y) /\ y.keys[j].material = x.keys[j].material
      BY <1>1, <1>3, <2>1 DEF KeysIn
    <2> QED BY <1>7, <2>1, <2>2, <2>3, <2>4 DEF y
  <1> QED BY <1>6, <1>7

LEMMA EmptyFacts == Empty \in Contents /\ KeysIn(Empty) = {} /\ SecretsIn(Empty) = {}
  BY DEF Empty, Contents, KeysIn, SecretsIn, Absent, NoSecret

LEMMA NewStoreFacts ==
    ASSUME NEW m \in Nat, NEW y \in NewStores(m) PROVE y \in Contents /\ Fits(y) /\ Sound(y)
  <1>1. PICK k \in Kids : y = WithKey(Empty, k, m, TRUE)
    BY DEF NewStores
  <1>2. k \in Kids \ KeysIn(Empty)
    BY EmptyFacts
  <1>3. y \in Contents /\ y.secrets = Empty.secrets /\ Active(y) = {k}
    BY <1>1, <1>2, EmptyFacts, WithKeyFacts
  <1>4. SecretsIn(y) = {}
    BY <1>3, EmptyFacts DEF SecretsIn
  <1> QED BY <1>3, <1>4 DEF Fits, Sound

(* A secret sealed under a key of the keyring opens, the others as before. *)
LEMMA SealedFacts ==
    ASSUME NEW x \in Contents, Fits(x), NEW n \in Names, NEW k \in KeysIn(x), NEW v \in Nat \ {0}
    PROVE  Better(x, Sealed(x, n, k, v)) /\ Opens(Sealed(x, n, k, v), n)
  <1> DEFINE y == Sealed(x, n, k, v)
             s == [kid |-> k, seal |-> x.keys[k].material, value |-> v]
  <1>1. k \in Kids /\ x.keys[k].material \in Nat
    BY DEF KeysIn, Contents
  <1>2. /\ y.keys = x.keys /\ y.secrets = [x.secrets EXCEPT ![n] = s] /\ y \in Contents
    BY <1>1 DEF Sealed, Contents
  <1>3. s # NoSecret /\ s.kid = k /\ s.seal = x.keys[k].material
    BY DEF NoSecret
  <1>4. y.secrets[n] = s /\ \A m \in Names : m # n => y.secrets[m] = x.secrets[m]
    BY <1>2 DEF Contents
  <1> HIDE DEF y, s
  <1>5. KeysIn(y) = KeysIn(x) /\ Active(y) = Active(x)
    BY <1>2 DEF KeysIn, Active
  <1>6. Opens(y, n)
    BY <1>2, <1>3, <1>4, <1>5 DEF Opens
  <1>7. \A m \in Names : Opens(x, m) => Opens(y, m)
    BY <1>2, <1>4, <1>5, <1>6 DEF Opens
  <1>8. \A m \in SecretsIn(y) : m \in Names /\ (m = n \/ m \in SecretsIn(x))
    BY <1>4 DEF SecretsIn
  <1> QED BY <1>2, <1>5, <1>6, <1>7, <1>8 DEF Better, Fits, Sound, y

LEMMA ActiveKeys == ASSUME NEW x \in Contents PROVE Active(x) \subseteq KeysIn(x)
  BY DEF Active, KeysIn, Absent

LEMMA SetFacts ==
    ASSUME NEW x \in Contents, Fits(x), NEW v \in Nat \ {0}
    PROVE  /\ \A y \in SetSecret(x, v) \cup RotateSecret(x, v) : Better(x, y)
           /\ \A n \in Names : \A y \in SetNamed(x, n, v) : Better(x, y) /\ Opens(y, n)
  BY SealedFacts, ActiveKeys DEF SetSecret, RotateSecret, SetNamed

LEMMA GenerateFacts ==
    ASSUME NEW x \in Contents, Fits(x), NEW m \in Nat, NEW y \in GenerateKey(x, m)
    PROVE  Better(x, y)
  <1>1. PICK k \in Kids \ KeysIn(x), activate \in BOOLEAN : y = WithKey(x, k, m, activate)
    BY DEF GenerateKey
  <1>2. /\ y \in Contents /\ y.secrets = x.secrets
        /\ \A j \in KeysIn(x) : j \in KeysIn(y) /\ y.keys[j].material = x.keys[j].material
        /\ Active(y) = {k} \/ Active(y) = Active(x)
    BY <1>1, WithKeyFacts
  <1>3. Fits(y)
    BY <1>2 DEF Fits
  <1> QED BY <1>2, <1>3, MoreKeys

LEMMA UseFacts ==
    ASSUME NEW x \in Contents, Fits(x), NEW y \in UseKey(x) PROVE Better(x, y)
  <1>1. PICK k \in KeysIn(x) : y = [x EXCEPT !.keys = Activated(x.keys, k)]
    BY DEF UseKey
  <1>2. x.keys \in KeyTables /\ k \in Kids /\ x.keys[k] # Absent
    BY DEF Contents, KeyTables, KeysIn
  <1>3. /\ Activated(x.keys, k) \in KeyTables
        /\ \A j \in Kids : /\ Activated(x.keys, k)[j].material = x.keys[j].material
                           /\ Activated(x.keys, k)[j] = Absent <=> x.keys[j] = Absent
                           /\ Activated(x.keys, k)[j].status = "active" <=> j = k
    BY <1>2, ActivatedFacts
  <1>4. y.keys = Activated(x.keys, k) /\ y.secrets = x.secrets /\ y \in Contents
    BY <1>1, <1>3 DEF Contents, KeyTables
  <1>5. Active(y) = {k}
    BY <1>2, <1>3, <1>4 DEF Active
  <1>6. \A j \in KeysIn(x) : j \in KeysIn(y) /\ y.keys[j].material = x.keys[j].material
    BY <1>3, <1>4 DEF KeysIn
  <1> QED BY <1>2, <1>4, <1>5, <1>6, MoreKeys DEF Fits

(* A key goes that is not active, and unless forced seals nothing.         *)
LEMMA RemoveFacts ==
    ASSUME NEW x \in Contents, Fits(x), NEW force \in BOOLEAN, NEW y \in RemoveKey(x, force)
    PROVE  y \in Contents /\ Fits(y) /\ (~force => Better(x, y))
  <1>1. PICK k \in Removable(x, force) : y = [x EXCEPT !.keys[k] = Absent]
    BY DEF RemoveKey
  <1>2. k \in Kids /\ k \notin Active(x)
    BY <1>1 DEF Removable, KeysIn
  <1>3. /\ y.keys = [x.keys EXCEPT ![k] = Absent] /\ y.secrets = x.secrets /\ y \in Contents
    BY <1>1, <1>2 DEF Contents, Absent
  <1>4. y.keys[k] = Absent /\ \A j \in Kids : j # k => y.keys[j] = x.keys[j]
    BY <1>2, <1>3 DEF Contents
  <1>5. Active(y) = Active(x)
    BY <1>2, <1>4 DEF Active, Absent
  <1>6. ASSUME ~force PROVE Better(x, y)
    <2>1. k \notin Sealing(x)
      BY <1>1, <1>6 DEF Removable
    <2>2. \A n \in Names : Opens(x, n) => Opens(y, n)
      <3> SUFFICES ASSUME NEW n \in Names, Opens(x, n) PROVE Opens(y, n)
        OBVIOUS
      <3>1. n \in SecretsIn(x) /\ x.secrets[n].kid # k
        BY <2>1 DEF SecretsIn, Opens, Sealing
      <3>2. x.secrets[n].kid \in KeysIn(y)
        BY <1>4, <3>1 DEF Opens, KeysIn
      <3> QED BY <1>3, <1>4, <3>1, <3>2 DEF Opens, KeysIn
    <2>3. SecretsIn(y) = SecretsIn(x) /\ SecretsIn(x) \subseteq Names
      BY <1>3 DEF SecretsIn
    <2> QED BY <1>3, <1>5, <2>2, <2>3 DEF Better, Fits, Sound
  <1> QED BY <1>3, <1>5, <1>6 DEF Fits

(* A new key becomes the active one; secrets stay where they are or are    *)
(* all sealed again.                                                       *)
LEMMA RotateFacts ==
    ASSUME NEW x \in Contents, Fits(x), NEW m \in Nat \ {0}, NEW y \in RotateKeys(x, m)
    PROVE  Better(x, y)
  <1>1. PICK k \in Kids \ KeysIn(x) :
            LET w == WithKey(x, k, m, TRUE) IN
              y = w \/ y = [w EXCEPT !.secrets = Resealed(w, k)]
    BY DEF RotateKeys
  <1> DEFINE w == WithKey(x, k, m, TRUE)
  <1>2. /\ w \in Contents /\ w.secrets = x.secrets /\ Active(w) = {k}
        /\ k \in KeysIn(w) /\ w.keys[k].material = m
        /\ \A j \in KeysIn(x) : j \in KeysIn(w) /\ w.keys[j].material = x.keys[j].material
    BY WithKeyFacts
  <1>3. y = w \/ y = [w EXCEPT !.secrets = Resealed(w, k)]
    BY <1>1
  <1> HIDE DEF w
  <1>4. CASE y = w
    BY <1>2, <1>4, MoreKeys DEF Fits
  <1>5. CASE y = [w EXCEPT !.secrets = Resealed(w, k)]
    <2> DEFINE s(n) == IF w.secrets[n] = NoSecret THEN NoSecret
                       ELSE [w.secrets[n] EXCEPT !.kid = k, !.seal = w.keys[k].material]
    <2>1. \A n \in Names :
            /\ s(n) \in [kid : Kids \cup {"none"}, seal : Nat, value : Nat]
            /\ w.secrets[n] = NoSecret => s(n) = NoSecret
            /\ w.secrets[n] # NoSecret => s(n) # NoSecret /\ s(n).kid = k /\ s(n).seal = m
      <3> SUFFICES ASSUME NEW n \in Names
                   PROVE  /\ s(n) \in [kid : Kids \cup {"none"}, seal : Nat, value : Nat]
                          /\ w.secrets[n] = NoSecret => s(n) = NoSecret
                          /\ w.secrets[n] # NoSecret =>
                                s(n) # NoSecret /\ s(n).kid = k /\ s(n).seal = m
        OBVIOUS
      <3>1. w.secrets[n] \in [kid : Kids \cup {"none"}, seal : Nat, value : Nat]
        BY <1>2 DEF Contents
      <3>2. CASE w.secrets[n] = NoSecret
        BY <3>1, <3>2
      <3>3. CASE w.secrets[n] # NoSecret
        <4>1. s(n) = [w.secrets[n] EXCEPT !.kid = k, !.seal = m]
          BY <1>2, <3>3
        <4>2. s(n).seal = m /\ s(n).kid = k
          BY <3>1, <4>1
        <4>3. s(n) # NoSecret
          BY <4>2 DEF NoSecret
        <4>4. s(n) \in [kid : Kids \cup {"none"}, seal : Nat, value : Nat]
          BY <3>1, <4>1
        <4> QED BY <3>3, <4>2, <4>3, <4>4
      <3> QED BY <3>2, <3>3
    <2>2. Resealed(w, k) = [n \in Names |-> s(n)]
      BY DEF Resealed
    <2> HIDE DEF s
    <2>3. Resealed(w, k) \in SecretTables /\ \A n \in Names : Resealed(w, k)[n] = s(n)
      BY <2>1, <2>2 DEF SecretTables
    <2>4. y.keys = w.keys /\ y.secrets = Resealed(w, k) /\ y \in Contents
      BY <1>2, <1>5, <2>3 DEF Contents, SecretTables
    <2>5. Active(y) = {k} /\ k \in KeysIn(y)
      BY <1>2, <2>4 DEF Active, KeysIn
    <2>6. \A n \in Names : x.secrets[n] # NoSecret => Opens(y, n)
      BY <1>2, <2>1, <2>3, <2>4, <2>5 DEF Opens
    <2>7. \A n \in SecretsIn(y) : n \in Names /\ x.secrets[n] # NoSecret
      BY <1>2, <2>1, <2>3, <2>4 DEF SecretsIn
    <2> QED BY <2>4, <2>5, <2>6, <2>7 DEF Better, Fits, Sound, Opens
  <1> QED BY <1>3, <1>4, <1>5

LEMMA BetterSame == ASSUME NEW x \in Contents, Fits(x) PROVE Better(x, x)
  BY DEF Better

-----------------------------------------------------------------------------
(* Types                                                                   *)

Jobs == [ask : Asks, reads : Nat, seals : Nat, held : Contents, place : Places,
         previous : Nat \cup {Nothing}, name : Names \cup {Nothing}, refs : SUBSET Names]

\* The commands.
JobsOK == at \in [Commands -> Waits] /\ job \in [Commands -> Jobs]

\* The files and what commands do to the history.
FilesOK ==
    /\ disk \in Stores \cup {Nothing}
    /\ keyFile \in [Places -> Nat \cup {Nothing}]
    /\ exported \in Nat \cup {Nothing}
    /\ entries \in SUBSET Names
    /\ minted \in Nat
    /\ faults \in 0..MaxFaults
    /\ possible \subseteq Nat \cup {Nothing}
    /\ excuses \subseteq {"raced", "cut", "forced", "removed"}
    /\ ties \subseteq Nat

\* The process that resolves references.
LookupOK ==
    /\ cached \in Stores \cup {Nothing}
    /\ lookup \in [at : {"none", "stat", "read"}, name : Names \cup {Nothing},
                   password : Nat, signature : Nat, answer : Nat \cup {Nothing}]
    /\ lookup.at = "read" => disk # Nothing

LEMMA TypesSplit == /\ TypeOK <=> JobsOK /\ FilesOK /\ LookupOK
                    /\ TypeOK' <=> JobsOK' /\ FilesOK' /\ LookupOK'
  BY DEF TypeOK, JobsOK, FilesOK, LookupOK, Jobs

\* A step of c leaves the other commands and the process that reads alone.
OnlyCommand(c) ==
    /\ \A d \in Commands \ {c} : at'[d] = at[d] /\ job'[d] = job[d]
    /\ UNCHANGED readVars

LEMMA BlankType == Blank \in Jobs
  BY EmptyFacts DEF Blank, Jobs, Asks, Default, Places

LEMMA GotoFacts ==
    ASSUME JobsOK, NEW c \in Commands, NEW w \in Waits, Goto(c, w)
    PROVE  /\ at' \in [Commands -> Waits] /\ at'[c] = w
           /\ \A d \in Commands \ {c} : at'[d] = at[d]
  BY DEF JobsOK, Goto

LEMMA EndsFacts ==
    ASSUME JobsOK, NEW c \in Commands, Ends(c)
    PROVE  /\ JobsOK' /\ at'[c] = "over" /\ job'[c] = Blank
           /\ \A d \in Commands \ {c} : at'[d] = at[d] /\ job'[d] = job[d]
  <1>1. "over" \in Waits
    BY DEF Waits
  <1>2. /\ at' \in [Commands -> Waits] /\ at'[c] = "over"
        /\ \A d \in Commands \ {c} : at'[d] = at[d]
    BY <1>1, GotoFacts DEF Ends
  <1>3. /\ job' \in [Commands -> Jobs] /\ job'[c] = Blank
        /\ \A d \in Commands \ {c} : job'[d] = job[d]
    BY BlankType DEF Ends, JobsOK
  <1> QED BY <1>2, <1>3 DEF JobsOK

LEMMA UndoFacts ==
    ASSUME JobsOK, NEW c \in Commands, Undo(c)
    PROVE  /\ JobsOK'
           /\ \A d \in Commands \ {c} : at'[d] = at[d] /\ job'[d] = job[d]
           /\ IF job[c].ask \in KeyAsks THEN at'[c] = "rollback" /\ job'[c] = job[c]
              ELSE at'[c] = "over" /\ job'[c] = Blank
  <1>1. CASE job[c].ask \in KeyAsks
    <2>1. "rollback" \in Waits
      BY DEF Waits
    <2>2. Goto(c, "rollback") /\ UNCHANGED job
      BY <1>1 DEF Undo
    <2> QED BY <1>1, <2>1, <2>2, GotoFacts DEF JobsOK
  <1>2. CASE job[c].ask \notin KeyAsks
    BY <1>2, EndsFacts DEF Undo
  <1> QED BY <1>1, <1>2

(* The master password that is resolved is one.                            *)
LEMMA PasswordFacts ==
    ASSUME FilesOK, NEW env \in Nat \cup {Nothing}
    PROVE  /\ Password(env) \in Nat
           /\ Source(env) \in {"env", "project", "user", "default"}
           /\ Source(env) = "env" <=> env # Nothing
           /\ Source(env) = "env" => Password(env) = env
           /\ Source(env) \in Places => Password(env) = keyFile[Source(env)]
  <1>1. /\ keyFile["project"] \in Nat \cup {Nothing} /\ keyFile["user"] \in Nat \cup {Nothing}
    BY DEF FilesOK, Places
  <1> QED BY <1>1 DEF Password, Source, Default, Places

LEMMA ValueInType ==
    ASSUME NEW x \in Contents, NEW n
    PROVE  /\ ValueIn(x, n) \in Nat \cup {Nothing}
           /\ n \in Names => (ValueIn(x, n) # Nothing <=> Opens(x, n))
  BY StoreConstants DEF StoreConstants, ValueIn, Contents

LEMMA DiskFacts ==
    ASSUME FilesOK
    PROVE  /\ disk # Nothing => /\ disk \in Stores /\ disk.signature \in Nat
                                /\ disk.password \in Nat /\ disk.contents \in Contents
           /\ \A n : OnDisk(n) \in Nat \cup {Nothing}
           /\ \A n \in Names : OnDisk(n) # Nothing <=> disk # Nothing /\ Opens(disk.contents, n)
  <1>1. disk # Nothing => /\ disk \in Stores /\ disk.signature \in Nat
                          /\ disk.password \in Nat /\ disk.contents \in Contents
    BY DEF FilesOK, Stores
  <1> QED BY <1>1, ValueInType DEF OnDisk

\* The new store of a Save.
LEMMA SavedFacts ==
    ASSUME FilesOK, LookupOK, JobsOK, NEW c \in Commands, NEW y \in Contents,
           NEW signature \in Signatures,
           disk' = [signature |-> signature, password |-> job[c].seals, contents |-> y]
    PROVE  /\ disk' \in Stores /\ disk' # Nothing /\ disk'.contents = y
           /\ disk'.password = job[c].seals /\ disk'.signature = signature
           /\ signature \in Nat
  <1>1. job[c].seals \in Nat
    BY DEF JobsOK, Jobs
  <1>2. signature \in Nat
    BY DEF Signatures, FilesOK, LookupOK, Stores
  <1>3. disk' \in Stores
    BY <1>1, <1>2 DEF Stores
  <1> QED BY <1>2, <1>3, StoreConstants DEF StoreConstants

-----------------------------------------------------------------------------
(* The inductive invariant                                                 *)

RekeyAsks == {"rekey-key", "rekey-key-force"}

\* A command that has put a new key in its place and not yet the store under it.
Swapping(c) == at[c] \in {"verify", "load", "save", "rollback"} /\ job[c].ask \in KeyAsks

\* What a command awaits fixes what it was asked.
JobInv(c) ==
    /\ at[c] \in {"idle", "over"} => job[c] = Blank
    /\ at[c] \in {"entry", "peek", "record"} => job[c].ask \in {"vault-add", "vault-rm"}
    /\ at[c] = "peek" => job[c].ask = "vault-add"
    /\ at[c] \in {"locate", "load", "save"} => job[c].ask # "vault-rm"
    /\ at[c] \notin {"idle", "over"} /\ job[c].ask \in {"vault-add", "vault-rm"} =>
        job[c].name \in Names
    /\ at[c] = "locate" => job[c].ask \notin KeyAsks
    /\ at[c] \in {"check", "flags", "current", "writeKey"} => job[c].ask \in KeyAsks
    /\ at[c] = "flags" => job[c].ask # "init"
    /\ at[c] \in {"check", "flags", "current"} => ~Rekeys(c)
    /\ at[c] \in {"current", "verify", "rollback"} => job[c].ask \in RekeyAsks
    /\ Swapping(c) => job[c].ask \in RekeyAsks /\ Rekeys(c)
    /\ at[c] = "writeKey" /\ Rekeys(c) => job[c].ask \in RekeyAsks

\* Commands that were started one after the other run one after the other.
AloneInv == "raced" \notin excuses => \A c, d \in Busy : c = d

ContentsInv(x) == Fits(x) /\ ("removed" \notin excuses => Sound(x))

\* What is on disk and what commands are to write is in order.
KeyInv ==
    /\ disk # Nothing => ContentsInv(disk.contents)
    /\ \A c \in Commands : at[c] = "save" => ContentsInv(job[c].held)

\* A file that is to come has a new signature or a tied one, so that what is memoized under
\* that of the present file, and not tied, is what the file holds.
FreshInv ==
    /\ disk # Nothing => disk.signature <= minted
    /\ cached # Nothing =>
        /\ disk # Nothing /\ cached.signature <= minted
        /\ cached.signature = disk.signature /\ cached.signature \notin ties =>
            cached.contents = disk.contents
    /\ lookup.at = "read" => disk # Nothing /\ lookup.signature <= minted
    /\ lookup.at # "none" => lookup.answer = Nothing /\ OnDisk(lookup.name) \in possible
    /\ ReadsAreFresh

\* A command that is alone has read what is still there.
ReadInv(c) ==
    /\ job[c].refs \subseteq entries
    /\ at[c] = "save" /\ disk # Nothing => job[c].held = disk.contents
    /\ at[c] = "load" /\ job[c].ask = "create" => disk = Nothing
    /\ at[c] = "record" /\ job[c].ask = "vault-add" /\ "removed" \notin excuses =>
        OnDisk(job[c].name) # Nothing

RefInv ==
    /\ RefsResolve
    /\ "raced" \notin excuses => \A c \in Commands : ReadInv(c)

\* What StaysOpenable asks of the operator and the disk.
Careful == excuses \cap {"raced", "cut", "forced"} = {} /\ faults < 2

\* The password of the key files, without one in the environment.
KeyOf(kf) ==
    IF kf["project"] # Nothing THEN kf["project"]
    ELSE IF kf["user"] # Nothing THEN kf["user"] ELSE Default

Settled == disk # Nothing => disk.password = Password(exported)

\* What a command that changes the master key has found, and what it can go back to.
SwapInv(c) ==
    /\ at[c] = "current" \/ (at[c] = "writeKey" /\ Rekeys(c)) =>
        disk # Nothing /\ job[c].previous = keyFile[job[c].place]
    /\ at[c] = "writeKey" /\ Rekeys(c) => exported = Nothing /\ job[c].reads = Password(Nothing)
    /\ at[c] = "writeKey" /\ ~Rekeys(c) => disk = Nothing \/ job[c].ask = "force-key"
    /\ Swapping(c) =>
        /\ exported = Nothing /\ disk # Nothing /\ disk.password = job[c].reads
        /\ keyFile[job[c].place] = job[c].seals /\ KeyOf(Restored(c)) = job[c].reads
        /\ at[c] \in {"load", "save"} => Source(exported) = job[c].place
        /\ at[c] = "rollback" => faults >= 1 \/ Source(exported) # job[c].place
    /\ at[c] \in {"load", "save"} /\ job[c].ask \notin KeyAsks =>
        /\ job[c].reads = Password(exported)
        /\ job[c].ask = "rekey" \/ job[c].seals = Password(exported)

OpenInv ==
    Careful => /\ (\A c \in Commands : ~Swapping(c)) => Settled
               /\ \A c \in Commands : SwapInv(c)

Inv ==
    /\ TypeOK
    /\ \A c \in Commands : JobInv(c)
    /\ AloneInv
    /\ KeyInv
    /\ FreshInv
    /\ RefInv
    /\ OpenInv

-----------------------------------------------------------------------------
(* What a step of a command does to it, and the types                      *)

\* The command moves on as it should, and everything has its type.
MovesOn(c) == JobsOK' /\ FilesOK' /\ OnlyCommand(c) /\ JobInv(c)'

LEMMA EndMovesOn ==
    ASSUME JobsOK, NEW c \in Commands, Ends(c), FilesOK', UNCHANGED readVars PROVE MovesOn(c)
  BY EndsFacts DEF MovesOn, OnlyCommand, JobInv, Swapping

LEMMA StartTypes ==
    ASSUME JobsOK, FilesOK, NEW c \in Commands, NEW ask \in Does(c), Start(c, ask)
    PROVE  MovesOn(c)
  <1>1. ask \in Asks
    BY StoreConstants DEF StoreConstants
  <1>2. First(ask) \in Waits
    BY DEF First, Waits
  <1>3. /\ at' \in [Commands -> Waits] /\ at'[c] = First(ask)
        /\ \A d \in Commands \ {c} : at'[d] = at[d]
    BY <1>2, GotoFacts DEF Start
  <1>4. PICK n \in (IF First(ask) = "entry" THEN Names ELSE {Nothing}),
             p \in (IF First(ask) = "flags" THEN Places ELSE {"project"}) :
            job' = [job EXCEPT ![c] = [Blank EXCEPT !.ask = ask, !.name = n, !.place = p]]
    BY DEF Start
  <1>5. /\ p \in Places /\ n \in Names \cup {Nothing} /\ (First(ask) = "entry" => n \in Names)
    BY <1>4 DEF Places
  <1> DEFINE j == [Blank EXCEPT !.ask = ask, !.name = n, !.place = p]
  <1>6. j \in Jobs /\ j.ask = ask /\ j.name = n /\ j.seals = Default
    BY <1>1, <1>5, BlankType DEF Jobs, Blank
  <1>7. job' \in [Commands -> Jobs] /\ job'[c] = j /\ \A d \in Commands \ {c} : job'[d] = job[d]
    <2> HIDE DEF j
    <2> QED BY <1>4, <1>6 DEF JobsOK, j
  <1>8. FilesOK' /\ UNCHANGED readVars
    BY DEF Start, FilesOK, fileVars
  <1> HIDE DEF j
  <1>9. JobInv(c)'
    <2>1. ~Rekeys(c)'
      BY <1>6, <1>7 DEF Rekeys
    <2> QED BY <1>3, <1>5, <1>6, <1>7, <2>1 DEF First, JobInv, Swapping, KeyAsks, Asks
  <1> QED BY <1>3, <1>7, <1>8, <1>9 DEF MovesOn, OnlyCommand, JobsOK

LEMMA LocateTypes ==
    ASSUME JobsOK, FilesOK, NEW c \in Commands, JobInv(c), Locate(c) PROVE MovesOn(c)
  <1>1. FilesOK' /\ UNCHANGED readVars
    BY DEF Locate, FilesOK, fileVars
  <1>2. CASE job[c].ask = "create" /\ disk # Nothing
    BY <1>1, <1>2, EndMovesOn DEF Locate
  <1>3. CASE ~(job[c].ask = "create" /\ disk # Nothing)
    <2>1. Password(exported) \in Nat /\ minted + 1 \in Nat
      BY PasswordFacts DEF FilesOK
    <2>2. PICK now \in Nat, new \in Nat :
            job' = [job EXCEPT ![c].reads = now, ![c].seals = new]
      BY <1>3, <2>1 DEF Locate
    <2>3. "load" \in Waits /\ Goto(c, "load") /\ at[c] = "locate"
      BY <1>3 DEF Locate, Waits
    <2>4. /\ at' \in [Commands -> Waits] /\ at'[c] = "load"
          /\ \A d \in Commands \ {c} : at'[d] = at[d]
      BY <2>3, GotoFacts
    <2>5. /\ job' \in [Commands -> Jobs] /\ job'[c].ask = job[c].ask /\ job'[c].name = job[c].name
          /\ \A d \in Commands \ {c} : job'[d] = job[d]
      BY <2>2 DEF JobsOK, Jobs
    <2>6. JobInv(c)'
      BY <2>3, <2>4, <2>5 DEF JobInv, Swapping
    <2> QED BY <1>1, <2>4, <2>5, <2>6 DEF MovesOn, OnlyCommand, JobsOK
  <1> QED BY <1>2, <1>3

LEMMA LoadTypes ==
    ASSUME JobsOK, FilesOK, NEW c \in Commands, JobInv(c), Load(c) \/ LoadNew(c)
    PROVE  MovesOn(c)
  <1>1. /\ FilesOK' /\ UNCHANGED readVars /\ at[c] = "load"
    BY DEF Load, LoadNew, FilesOK, fileVars
  <1>2. CASE Undo(c)
    <2>1. /\ JobsOK' /\ OnlyCommand(c)
      BY <1>1, <1>2, UndoFacts DEF OnlyCommand
    <2>2. JobInv(c)'
      BY <1>1, <1>2, UndoFacts DEF JobInv, Swapping, Rekeys
    <2> QED BY <1>1, <2>1, <2>2 DEF MovesOn
  <1>3. CASE ~Undo(c)
    <2>1. minted + 1 \in Nat
      BY DEF FilesOK
    <2>2. \E x \in Contents : job' = [job EXCEPT ![c].held = x]
      <3>1. CASE Load(c)
        BY <1>3, <3>1, DiskFacts DEF Load
      <3>2. CASE LoadNew(c)
        BY <1>3, <2>1, <3>2, NewStoreFacts DEF LoadNew
      <3> QED BY <3>1, <3>2
    <2>3. Goto(c, "save") /\ "save" \in Waits
      BY <1>3 DEF Load, LoadNew, Waits
    <2>4. /\ at' \in [Commands -> Waits] /\ at'[c] = "save"
          /\ \A d \in Commands \ {c} : at'[d] = at[d]
      BY <2>3, GotoFacts
    <2>5. /\ job' \in [Commands -> Jobs] /\ job'[c].ask = job[c].ask /\ job'[c].name = job[c].name
          /\ job'[c].seals = job[c].seals
          /\ \A d \in Commands \ {c} : job'[d] = job[d]
      BY <2>2 DEF JobsOK, Jobs
    <2>6. JobInv(c)'
      BY <1>1, <2>4, <2>5 DEF JobInv, Swapping, Rekeys
    <2> QED BY <1>1, <2>4, <2>5, <2>6 DEF MovesOn, OnlyCommand, JobsOK
  <1> QED BY <1>2, <1>3

\* What is written is a store in order, and an improvement unless a key was forced out.
LEMMA EditedFacts ==
    ASSUME JobsOK, FilesOK, NEW c \in Commands, Fits(job[c].held), JobInv(c), at[c] = "save",
           NEW y \in Edited(c)
    PROVE  /\ y \in Contents /\ Fits(y)
           /\ job[c].ask # "force-remove" => Better(job[c].held, y)
           /\ job[c].ask = "vault-add" => Opens(y, job[c].name)
           /\ job[c].ask \in KeyAsks \cup {"create", "rekey"} => y = job[c].held
  <1> DEFINE x   == job[c].held
             ask == job[c].ask
  <1>1. x \in Contents /\ minted + 1 \in Nat \ {0} /\ minted + 1 \in Nat
    BY DEF JobsOK, Jobs, FilesOK
  <1>2. ASSUME Better(x, y), ask # "vault-add", ask \notin KeyAsks \cup {"create", "rekey"}
        PROVE  /\ y \in Contents /\ Fits(y)
               /\ job[c].ask # "force-remove" => Better(job[c].held, y)
               /\ job[c].ask = "vault-add" => Opens(y, job[c].name)
               /\ job[c].ask \in KeyAsks \cup {"create", "rekey"} => y = job[c].held
    BY <1>2 DEF Better
  <1>3. CASE ask = "set"
    BY <1>1, <1>2, <1>3, SetFacts DEF Edited, KeyAsks
  <1>4. CASE ask = "vault-add"
    <2>1. y \in SetNamed(x, job[c].name, minted + 1)
      BY <1>4 DEF Edited
    <2>2. job[c].name \in Names
      BY <1>4 DEF JobInv
    <2>3. Better(x, y) /\ Opens(y, job[c].name)
      BY <1>1, <2>1, <2>2, SetFacts
    <2> QED BY <1>4, <2>3 DEF Better, KeyAsks
  <1>5. CASE ask = "rotate"
    BY <1>1, <1>2, <1>5, SetFacts DEF Edited, KeyAsks
  <1>6. CASE ask = "generate"
    BY <1>1, <1>2, <1>6, GenerateFacts DEF Edited, KeyAsks
  <1>7. CASE ask = "use"
    BY <1>1, <1>2, <1>7, UseFacts DEF Edited, KeyAsks
  <1>8. CASE ask = "retire"
    <2>1. y = x
      BY <1>8 DEF Edited, RetireKey
    <2> QED BY <1>1, <1>2, <1>8, <2>1, BetterSame DEF KeyAsks
  <1>9. CASE ask = "remove"
    <2>1. y \in RemoveKey(x, FALSE)
      BY <1>9 DEF Edited
    <2> QED BY <1>1, <1>2, <1>9, <2>1, RemoveFacts DEF KeyAsks
  <1>10. CASE ask = "force-remove"
    <2>1. y \in RemoveKey(x, TRUE)
      BY <1>10 DEF Edited
    <2> QED BY <1>1, <1>10, <2>1, RemoveFacts DEF KeyAsks
  <1>11. CASE ask = "rotate-keys"
    <2>1. y \in RotateKeys(x, minted + 1)
      BY <1>11 DEF Edited
    <2> QED BY <1>1, <1>2, <1>11, <2>1, RotateFacts DEF KeyAsks
  <1>12. CASE ask \notin {"set", "vault-add", "rotate", "generate", "use", "retire", "remove",
                          "force-remove", "rotate-keys"}
    <2>1. y = x
      BY <1>12 DEF Edited
    <2> QED BY <1>1, <1>12, <2>1, BetterSame
  <1> QED BY <1>3, <1>4, <1>5, <1>6, <1>7, <1>8, <1>9, <1>10, <1>11, <1>12

LEMMA EditedSame ==
    ASSUME NEW c \in Commands, job[c].ask \in KeyAsks \cup {"create", "rekey"}
    PROVE  Edited(c) = {job[c].held}
  BY DEF Edited, KeyAsks

LEMMA SaveTypes ==
    ASSUME JobsOK, FilesOK, LookupOK, NEW c \in Commands, JobInv(c), Fits(job[c].held), Save(c)
    PROVE  MovesOn(c)
  <1>1. PICK y \in Edited(c), signature \in Signatures :
            disk' = [signature |-> signature, password |-> job[c].seals, contents |-> y]
    BY DEF Save
  <1>2. at[c] = "save"
    BY DEF Save
  <1>3. y \in Contents
    BY <1>2, EditedFacts
  <1>4. disk' \in Stores /\ disk'.contents \in Contents
    BY <1>1, <1>3, SavedFacts
  <1>5. ValueIn(disk'.contents, lookup.name) \in Nat \cup {Nothing}
    BY <1>4, ValueInType
  <1>6. job[c].seals \in Nat
    BY DEF JobsOK, Jobs
  <1>7. FilesOK' /\ UNCHANGED readVars
    <2>1. /\ exported' \in {exported, job[c].seals} /\ minted' = minted + 1
          /\ excuses' \in {excuses, excuses \cup {"removed"}}
          /\ possible' = possible \cup {ValueIn(disk'.contents, lookup.name)}
          /\ UNCHANGED <<keyFile, entries, faults, readVars>>
      BY DEF Save
    <2>2. minted' \in Nat /\ exported' \in Nat \cup {Nothing}
      BY <1>6, <2>1 DEF FilesOK
    <2>3. possible' \subseteq Nat \cup {Nothing}
      BY <1>5, <2>1 DEF FilesOK
    <2>4. excuses' \subseteq {"raced", "cut", "forced", "removed"}
      BY <2>1 DEF FilesOK
    <2>5. ties' \subseteq Nat
      <3>1. Signatures \subseteq Nat
        BY DEF Signatures, FilesOK, LookupOK, Stores
      <3>2. ties' \subseteq ties \cup Signatures
        BY DEF Save
      <3> QED BY <3>1, <3>2 DEF FilesOK
    <2> QED BY <1>4, <2>1, <2>2, <2>3, <2>4, <2>5 DEF FilesOK
  <1>8. CASE job[c].ask = "vault-add"
    <2>1. Goto(c, "record") /\ UNCHANGED job /\ "record" \in Waits
      BY <1>8 DEF Save, Waits
    <2>2. /\ at' \in [Commands -> Waits] /\ at'[c] = "record"
          /\ \A d \in Commands \ {c} : at'[d] = at[d]
      BY <2>1, GotoFacts
    <2>3. JobInv(c)'
      BY <1>2, <1>8, <2>1, <2>2 DEF JobInv, Swapping, Rekeys
    <2> QED BY <1>7, <2>1, <2>2, <2>3 DEF MovesOn, OnlyCommand, JobsOK
  <1>9. CASE job[c].ask # "vault-add"
    BY <1>7, <1>9, EndMovesOn DEF Save
  <1> QED BY <1>8, <1>9

LEMMA SaveFailsTypes ==
    ASSUME JobsOK, FilesOK, NEW c \in Commands, JobInv(c), SaveFails(c) PROVE MovesOn(c)
  <1>1. /\ FilesOK' /\ UNCHANGED readVars /\ at[c] = "save" /\ Undo(c)
    BY StoreConstants DEF StoreConstants, SaveFails, FilesOK, fileVars
  <1>2. JobsOK' /\ OnlyCommand(c)
    BY <1>1, UndoFacts DEF OnlyCommand
  <1>3. JobInv(c)'
    BY <1>1, UndoFacts DEF JobInv, Swapping, Rekeys
  <1> QED BY <1>1, <1>2, <1>3 DEF MovesOn

LEMMA VaultTypes ==
    ASSUME JobsOK, FilesOK, NEW c \in Commands, JobInv(c), VaultStep(c) PROVE MovesOn(c)
  <1>1. CASE Entry(c)
    <2>1. FilesOK' /\ UNCHANGED readVars /\ at[c] = "entry" /\ entries \in SUBSET Names
      BY <1>1 DEF Entry, FilesOK, fileVars
    <2>2. CASE Ends(c)
      BY <2>1, <2>2, EndMovesOn
    <2>3. CASE ~Ends(c)
      <3>1. /\ job' = [job EXCEPT ![c].refs = entries]
            /\ \E w \in {"peek", "record"} :
                 Goto(c, w) /\ (w = "peek" <=> job[c].ask = "vault-add")
        BY <1>1, <2>3 DEF Entry
      <3>2. /\ job' \in [Commands -> Jobs] /\ job'[c].ask = job[c].ask
            /\ job'[c].name = job[c].name
            /\ \A d \in Commands \ {c} : job'[d] = job[d]
        BY <2>1, <3>1 DEF JobsOK, Jobs
      <3>3. /\ at' \in [Commands -> Waits] /\ at'[c] \in {"peek", "record"}
            /\ at'[c] = "peek" <=> job[c].ask = "vault-add"
            /\ \A d \in Commands \ {c} : at'[d] = at[d]
        BY <3>1, GotoFacts DEF Waits
      <3>4. JobInv(c)'
        BY <2>1, <3>2, <3>3 DEF JobInv, Swapping
      <3> QED BY <2>1, <3>2, <3>3, <3>4 DEF MovesOn, OnlyCommand, JobsOK
    <2> QED BY <2>2, <2>3
  <1>2. CASE Peek(c)
    <2>1. FilesOK' /\ UNCHANGED readVars /\ at[c] = "peek"
      BY <1>2 DEF Peek, FilesOK, fileVars
    <2>2. CASE Ends(c)
      BY <2>1, <2>2, EndMovesOn
    <2>3. CASE ~Ends(c)
      <3>1. job' = job /\ \E w \in {"locate", "record"} : Goto(c, w)
        BY <1>2, <2>3 DEF Peek
      <3>2. /\ at' \in [Commands -> Waits] /\ at'[c] \in {"locate", "record"}
            /\ \A d \in Commands \ {c} : at'[d] = at[d]
        BY <3>1, GotoFacts DEF Waits
      <3>3. JobInv(c)'
        BY <2>1, <3>1, <3>2 DEF JobInv, Swapping, KeyAsks
      <3> QED BY <2>1, <3>1, <3>2, <3>3 DEF MovesOn, OnlyCommand, JobsOK
    <2> QED BY <2>2, <2>3
  <1>3. CASE Record(c)
    <2>1. job[c].refs \in SUBSET Names /\ job[c].name \in Names
      BY <1>3 DEF Record, JobInv, JobsOK, Jobs
    <2>2. FilesOK' /\ UNCHANGED readVars
      BY <1>3, <2>1, StoreConstants DEF StoreConstants, Record, FilesOK
    <2> QED BY <1>3, <2>2, EndMovesOn DEF Record
  <1> QED BY <1>1, <1>2, <1>3 DEF VaultStep

LEMMA KeyTypes ==
    ASSUME JobsOK, FilesOK, NEW c \in Commands, JobInv(c), KeyStep(c) PROVE MovesOn(c)
  <1>0. minted + 1 \in Nat /\ minted + 1 # Default /\ keyFile \in [Places -> Nat \cup {Nothing}]
        /\ job[c] \in Jobs /\ job[c].place \in Places /\ job[c].seals \in Nat
        /\ job[c].previous \in Nat \cup {Nothing}
    BY DEF FilesOK, Default, JobsOK, Jobs
  <1>1. CASE Ends(c)
    <2>1. FilesOK' /\ UNCHANGED readVars
      <3>1. CASE Check(c) \/ Flags(c) \/ Verify(c)
        BY <3>1 DEF Check, Flags, Verify, FilesOK, fileVars
      <3>2. CASE Current(c)
        BY <1>0, <3>2 DEF Current, FilesOK, fileVars
      <3>3. CASE WriteKey(c)
        BY <1>0, <3>3 DEF WriteKey, FilesOK
      <3>4. CASE WriteKeyFails(c)
        BY <3>4, StoreConstants DEF StoreConstants, WriteKeyFails, FilesOK, fileVars
      <3>5. CASE Rollback(c)
        BY <1>0, <3>5, StoreConstants DEF StoreConstants, Rollback, Restored, FilesOK
      <3> QED BY <3>1, <3>2, <3>3, <3>4, <3>5 DEF KeyStep
    <2> QED BY <1>1, <2>1, EndMovesOn
  <1>2. CASE Check(c) /\ ~Ends(c)
    <2>1. Goto(c, "writeKey") /\ job' = job /\ at[c] = "check" /\ "writeKey" \in Waits
      BY <1>2 DEF Check, Waits
    <2>2. /\ at' \in [Commands -> Waits] /\ at'[c] = "writeKey"
          /\ \A d \in Commands \ {c} : at'[d] = at[d]
      BY <2>1, GotoFacts
    <2>3. JobInv(c)'
      BY <2>1, <2>2 DEF JobInv, Swapping, Rekeys, KeyAsks
    <2>4. FilesOK' /\ UNCHANGED readVars
      BY <1>2 DEF Check, FilesOK, fileVars
    <2> QED BY <2>1, <2>2, <2>3, <2>4 DEF MovesOn, OnlyCommand, JobsOK
  <1>3. CASE Flags(c) /\ ~Ends(c)
    <2>1. /\ at[c] = "flags" /\ job' = [job EXCEPT ![c].previous = keyFile[job[c].place]]
          /\ \E w \in {"current", "writeKey"} :
               Goto(c, w) /\ (w = "current" => job[c].ask \in RekeyAsks)
      BY <1>3 DEF Flags, RekeyAsks
    <2>2. /\ job' \in [Commands -> Jobs] /\ job'[c].ask = job[c].ask
          /\ job'[c].name = job[c].name /\ job'[c].seals = job[c].seals
          /\ \A d \in Commands \ {c} : job'[d] = job[d]
      BY <1>0, <2>1 DEF JobsOK, Jobs
    <2>3. /\ at' \in [Commands -> Waits] /\ at'[c] \in {"current", "writeKey"}
          /\ at'[c] = "current" => job[c].ask \in RekeyAsks
          /\ \A d \in Commands \ {c} : at'[d] = at[d]
      BY <2>1, GotoFacts DEF Waits
    <2>4. JobInv(c)'
      BY <2>1, <2>2, <2>3 DEF JobInv, Swapping, Rekeys, KeyAsks
    <2>5. FilesOK' /\ UNCHANGED readVars
      BY <1>3 DEF Flags, FilesOK, fileVars
    <2> QED BY <2>2, <2>3, <2>4, <2>5 DEF MovesOn, OnlyCommand, JobsOK
  <1>4. CASE Current(c) /\ ~Ends(c)
    <2>1. Password(exported) \in Nat
      BY PasswordFacts DEF FilesOK
    <2>2. /\ at[c] = "current" /\ Goto(c, "writeKey") /\ "writeKey" \in Waits
          /\ job' = [job EXCEPT ![c].reads = Password(exported), ![c].seals = minted + 1]
      BY <1>4 DEF Current, Waits
    <2>3. /\ job' \in [Commands -> Jobs] /\ job'[c].ask = job[c].ask
          /\ job'[c].name = job[c].name /\ job'[c].seals = minted + 1
          /\ \A d \in Commands \ {c} : job'[d] = job[d]
      BY <1>0, <2>1, <2>2 DEF JobsOK, Jobs
    <2>4. /\ at' \in [Commands -> Waits] /\ at'[c] = "writeKey"
          /\ \A d \in Commands \ {c} : at'[d] = at[d]
      BY <2>2, GotoFacts
    <2>5. JobInv(c)'
      BY <2>2, <2>3, <2>4 DEF JobInv, Swapping, Rekeys, KeyAsks
    <2>6. FilesOK' /\ UNCHANGED readVars
      BY <1>0, <1>4 DEF Current, FilesOK, fileVars
    <2> QED BY <2>3, <2>4, <2>5, <2>6 DEF MovesOn, OnlyCommand, JobsOK
  <1>5. CASE WriteKey(c) /\ ~Ends(c)
    <2>1. /\ at[c] = "writeKey" /\ Rekeys(c) /\ Goto(c, "verify") /\ job' = job
          /\ "verify" \in Waits
      BY <1>5 DEF WriteKey, Waits
    <2>2. /\ at' \in [Commands -> Waits] /\ at'[c] = "verify"
          /\ \A d \in Commands \ {c} : at'[d] = at[d]
      BY <2>1, GotoFacts
    <2>3. JobInv(c)'
      BY <2>1, <2>2 DEF JobInv, Swapping, Rekeys, KeyAsks, RekeyAsks
    <2>4. FilesOK' /\ UNCHANGED readVars
      BY <1>0, <1>5 DEF WriteKey, FilesOK
    <2> QED BY <2>1, <2>2, <2>3, <2>4 DEF MovesOn, OnlyCommand, JobsOK
  <1>6. CASE Verify(c)
    <2>1. /\ at[c] = "verify" /\ job' = job /\ \E w \in {"load", "rollback"} : Goto(c, w)
      BY <1>6 DEF Verify
    <2>2. /\ at' \in [Commands -> Waits] /\ at'[c] \in {"load", "rollback"}
          /\ \A d \in Commands \ {c} : at'[d] = at[d]
      BY <2>1, GotoFacts DEF Waits
    <2>3. JobInv(c)'
      BY <2>1, <2>2 DEF JobInv, Swapping, Rekeys, KeyAsks, RekeyAsks
    <2>4. FilesOK' /\ UNCHANGED readVars
      BY <1>6 DEF Verify, FilesOK, fileVars
    <2> QED BY <2>1, <2>2, <2>3, <2>4 DEF MovesOn, OnlyCommand, JobsOK
  <1> QED BY <1>1, <1>2, <1>3, <1>4, <1>5, <1>6 DEF KeyStep, WriteKeyFails, Rollback

LEMMA KilledTypes ==
    ASSUME JobsOK, FilesOK, NEW c \in Commands, Killed(c) PROVE MovesOn(c)
  <1>1. FilesOK' /\ UNCHANGED readVars
    BY DEF Killed, FilesOK, fileVars
  <1> QED BY <1>1, EndMovesOn DEF Killed

-----------------------------------------------------------------------------
(* Commands and each other                                                 *)

CommandStep(c) ==
    (\E ask \in Does(c) : Start(c, ask)) \/ StoreStep(c) \/ VaultStep(c) \/ KeyStep(c) \/ Killed(c)

LEMMA CommandEffects ==
    ASSUME FilesOK, NEW c \in Commands, CommandStep(c)
    PROVE  /\ ~Save(c) => UNCHANGED <<disk, exported, possible, ties>>
           /\ ~Record(c) => UNCHANGED entries
           /\ ~WriteKey(c) /\ ~Rollback(c) => UNCHANGED keyFile
           /\ excuses \subseteq excuses' /\ faults <= faults' /\ minted <= minted'
           /\ at[c] # "over"
           /\ at[c] = "idle" => Busy = {} \/ "raced" \in excuses'
  <1>0. faults \in Nat /\ minted \in Nat
    BY StoreConstants DEF StoreConstants, FilesOK
  <1>1. CASE \E ask \in Does(c) : Start(c, ask)
    BY <1>0, <1>1 DEF Start, Record, WriteKey, Rollback, fileVars
  <1>2. CASE StoreStep(c)
    BY <1>0, <1>2 DEF StoreStep, Locate, Load, LoadNew, Save, SaveFails, Record, WriteKey, Rollback,
                      fileVars
  <1>3. CASE VaultStep(c)
    BY <1>0, <1>3 DEF VaultStep, Entry, Peek, Record, Save, WriteKey, Rollback, fileVars
  <1>4. CASE KeyStep(c)
    BY <1>0, <1>4 DEF KeyStep, Check, Flags, Current, WriteKey, WriteKeyFails, Verify, Rollback,
                      fileVars
  <1>5. CASE Killed(c)
    BY <1>0, <1>5 DEF Killed, Busy, fileVars
  <1> QED BY <1>1, <1>2, <1>3, <1>4, <1>5 DEF CommandStep

LEMMA CommandTypes ==
    ASSUME Inv, NEW c \in Commands, CommandStep(c)
    PROVE  MovesOn(c) /\ TypeOK' /\ \A d \in Commands : JobInv(d)'
  <1>1. JobsOK /\ FilesOK /\ LookupOK /\ JobInv(c)
    BY TypesSplit DEF Inv
  <1>2. Save(c) => Fits(job[c].held)
    BY DEF Save, Inv, KeyInv, ContentsInv
  <1>3. MovesOn(c)
    BY <1>1, <1>2, StartTypes, LocateTypes, LoadTypes, SaveTypes, SaveFailsTypes, VaultTypes,
       KeyTypes, KilledTypes
    DEF CommandStep, StoreStep
  <1>4. LookupOK'
    <2>1. disk # Nothing => disk' # Nothing
      <3>1. CASE Save(c)
        <4>1. PICK y \in Edited(c), signature \in Signatures :
                disk' = [signature |-> signature, password |-> job[c].seals, contents |-> y]
          BY <3>1 DEF Save
        <4>2. y \in Contents
          BY <1>1, <1>2, <3>1, EditedFacts DEF Save
        <4> QED BY <1>1, <4>1, <4>2, SavedFacts
      <3>2. CASE ~Save(c)
        BY <1>1, <3>2, CommandEffects
      <3> QED BY <3>1, <3>2
    <2> QED BY <1>1, <1>3, <2>1 DEF MovesOn, OnlyCommand, readVars, LookupOK
  <1>5. ASSUME NEW d \in Commands \ {c} PROVE JobInv(d)'
    <2>1. JobInv(d) /\ at'[d] = at[d] /\ job'[d] = job[d]
      BY <1>3 DEF Inv, MovesOn, OnlyCommand
    <2> QED BY <2>1 DEF JobInv, Swapping, Rekeys
  <1> QED BY <1>3, <1>4, <1>5, TypesSplit DEF MovesOn

(* A command that was not started next to others finds them all ended or   *)
(* not yet started.                                                        *)
LEMMA Alone ==
    ASSUME Inv, NEW c \in Commands, CommandStep(c), "raced" \notin excuses'
    PROVE  /\ "raced" \notin excuses
           /\ \A d \in Commands \ {c} : /\ at[d] \in {"idle", "over"} /\ job[d] = Blank
                                        /\ at'[d] = at[d] /\ job'[d] = job[d]
  <1>1. /\ "raced" \notin excuses /\ at[c] # "over"
        /\ at[c] = "idle" => Busy = {}
        /\ \A d \in Commands \ {c} : at'[d] = at[d] /\ job'[d] = job[d]
    BY CommandEffects, CommandTypes, TypesSplit DEF Inv, MovesOn, OnlyCommand
  <1>2. \A d \in Commands \ {c} : d \notin Busy
    BY <1>1 DEF Inv, AloneInv, Busy
  <1>3. \A d \in Commands \ {c} : at[d] \in {"idle", "over"} /\ job[d] = Blank
    BY <1>2 DEF Inv, JobInv, Busy
  <1> QED BY <1>1, <1>3

LEMMA AloneStep ==
    ASSUME Inv, NEW c \in Commands, CommandStep(c) PROVE AloneInv'
  BY Alone DEF AloneInv, Busy

-----------------------------------------------------------------------------
(* The keyring                                                             *)

LEMMA KeyringStep ==
    ASSUME Inv, NEW c \in Commands, CommandStep(c) PROVE KeyInv'
  <1>1. /\ JobsOK /\ FilesOK /\ JobInv(c) /\ KeyInv /\ MovesOn(c)
        /\ excuses \subseteq excuses' /\ (~Save(c) => UNCHANGED disk)
        /\ \A d \in Commands \ {c} : at'[d] = at[d] /\ job'[d] = job[d]
    BY TypesSplit, CommandTypes, CommandEffects DEF Inv, MovesOn, OnlyCommand
  <1>2. ASSUME NEW d \in Commands \ {c}, at'[d] = "save" PROVE ContentsInv(job[d].held)'
    BY <1>1, <1>2 DEF KeyInv, ContentsInv
  <1>3. CASE Save(c)
    <2>1. PICK y \in Edited(c), signature \in Signatures :
            disk' = [signature |-> signature, password |-> job[c].seals, contents |-> y]
      BY <1>3 DEF Save
    <2>2. at[c] = "save" /\ ContentsInv(job[c].held)
      BY <1>1, <1>3 DEF Save, KeyInv
    <2>3. y \in Contents /\ Fits(y) /\ (job[c].ask # "force-remove" => Better(job[c].held, y))
      BY <1>1, <2>1, <2>2, EditedFacts DEF ContentsInv
    <2>4. "removed" \notin excuses' => Sound(y)
      BY <1>1, <1>3, <2>2, <2>3 DEF Save, ContentsInv, Better
    <2>5. disk'.contents = y
      BY <2>1
    <2>6. at'[c] # "save"
      BY <1>1, <1>3 DEF Save, Ends, Goto, JobsOK
    <2> QED BY <1>2, <2>3, <2>4, <2>5, <2>6 DEF KeyInv, ContentsInv
  <1>4. CASE ~Save(c)
    <2>1. at'[c] = "save" => ContentsInv(job[c].held)'
      <3> SUFFICES ASSUME at'[c] = "save" PROVE ContentsInv(job[c].held)'
        OBVIOUS
      <3>1. Load(c) \/ LoadNew(c)
        <4>1. ~Start(c, "init") /\ \A ask \in Does(c) : ~Start(c, ask)
          BY <1>1 DEF Start, Goto, First, JobsOK
        <4>2. ~Locate(c) /\ ~SaveFails(c) /\ ~Killed(c)
          BY <1>1 DEF Locate, SaveFails, Killed, Undo, Ends, Goto, JobsOK
        <4>3. ~VaultStep(c)
          BY <1>1 DEF VaultStep, Entry, Peek, Record, Ends, Goto, JobsOK
        <4>4. ~KeyStep(c)
          BY <1>1 DEF KeyStep, Check, Flags, Current, WriteKey, WriteKeyFails, Verify, Rollback, Ends,
                      Goto, JobsOK
        <4> QED BY <1>4, <4>1, <4>2, <4>3, <4>4 DEF CommandStep, StoreStep
      <3>2. CASE Load(c)
        <4>1. ~Undo(c)
          BY <1>1, UndoFacts
        <4>2. job' = [job EXCEPT ![c].held = disk.contents] /\ disk # Nothing
          BY <3>2, <4>1 DEF Load
        <4>3. job'[c].held = disk.contents
          BY <1>1, <4>2 DEF JobsOK, Jobs
        <4> QED BY <1>1, <4>2, <4>3 DEF KeyInv, ContentsInv
      <3>3. CASE LoadNew(c)
        <4>1. ~Undo(c)
          BY <1>1, UndoFacts
        <4>2. PICK new \in NewStores(minted + 1) : job' = [job EXCEPT ![c].held = new]
          BY <3>3, <4>1 DEF LoadNew
        <4>3. job'[c].held = new
          BY <1>1, <4>2 DEF JobsOK, Jobs
        <4>4. minted + 1 \in Nat
          BY <1>1 DEF FilesOK
        <4> QED BY <4>2, <4>3, <4>4, NewStoreFacts DEF ContentsInv
      <3> QED BY <3>1, <3>2, <3>3
    <2>2. disk' # Nothing => ContentsInv(disk.contents)'
      BY <1>1, <1>4 DEF KeyInv, ContentsInv
    <2> QED BY <1>2, <2>1, <2>2 DEF KeyInv
  <1> QED BY <1>3, <1>4

-----------------------------------------------------------------------------
(* The process that memoizes the store                                     *)

LEMMA FreshStep ==
    ASSUME Inv, NEW c \in Commands, CommandStep(c) PROVE FreshInv'
  <1>1. /\ JobsOK /\ FilesOK /\ JobInv(c) /\ FreshInv /\ LookupOK
        /\ cached' = cached /\ lookup' = lookup /\ minted <= minted'
    BY TypesSplit, CommandTypes, CommandEffects DEF Inv, MovesOn, OnlyCommand, readVars
  <1>2. /\ minted \in Nat /\ minted' \in Nat /\ lookup.signature \in Nat
        /\ cached # Nothing => cached.signature \in Nat
        /\ disk # Nothing => disk.signature \in Nat
    BY <1>1, TypesSplit, CommandTypes DEF FilesOK, LookupOK, Stores
  <1>3. CASE Save(c)
    <2>1. PICK y \in Edited(c), signature \in Signatures :
            /\ disk' = [signature |-> signature, password |-> job[c].seals, contents |-> y]
            /\ ties' = ties \cup ({signature} \ {minted + 1})
      BY <1>3 DEF Save
    <2>2. y \in Contents
      BY <1>1, <1>3, <2>1, EditedFacts DEF Inv, KeyInv, ContentsInv, Save
    <2>3. disk' # Nothing /\ disk'.signature = signature /\ signature \in Nat
      BY <1>1, <2>1, <2>2, SavedFacts
    <2>4. minted' = minted + 1 /\ possible' = possible \cup {OnDisk(lookup.name)'}
      BY <1>1, <1>3, <2>3 DEF Save, OnDisk
    <2>5. signature <= minted'
      BY <1>1, <1>2, <2>4 DEF Signatures, FreshInv
    <2>6. cached # Nothing /\ cached.signature = signature => signature \in ties'
      BY <1>1, <1>2, <2>1 DEF FreshInv
    <2>7. ReadsAreFresh'
      BY <1>1, <2>1, <2>4 DEF FreshInv, ReadsAreFresh
    <2>8. /\ cached' # Nothing => cached'.signature <= minted'
          /\ lookup'.at = "read" => lookup'.signature <= minted'
          /\ lookup'.at # "none" => lookup'.answer = Nothing
      BY <1>1, <1>2 DEF FreshInv
    <2> QED BY <1>1, <2>3, <2>4, <2>5, <2>6, <2>7, <2>8 DEF FreshInv
  <1>4. CASE ~Save(c)
    <2>1. UNCHANGED <<disk, possible, ties>>
      BY <1>1, <1>4, CommandEffects
    <2>2. \A n : OnDisk(n)' = OnDisk(n)
      BY <2>1 DEF OnDisk
    <2> QED BY <1>1, <1>2, <2>1, <2>2 DEF FreshInv, ReadsAreFresh
  <1> QED BY <1>3, <1>4

\* What the process that reads does to the history of the secret.
LEMMA LookupSteps ==
    ASSUME Inv, (\E n \in Names : Look(n)) \/ Stat \/ Read
    PROVE  TypeOK' /\ FreshInv'
  <1>1. JobsOK /\ FilesOK /\ LookupOK /\ FreshInv
    BY TypesSplit DEF Inv
  <1>2. UNCHANGED <<fileVars, minted, faults, at, job, excuses, ties>>
    BY DEF Look, Stat, Read
  <1>3. JobsOK'
    BY <1>1, <1>2 DEF JobsOK
  <1>4. \A n : OnDisk(n)' = OnDisk(n)
    BY <1>2 DEF OnDisk, fileVars
  <1>5. CASE \E n \in Names : Look(n)
    <2>1. PICK n \in Names :
            /\ lookup' = [at |-> "stat", name |-> n, password |-> Password(Nothing),
                          signature |-> 0, answer |-> Nothing]
            /\ possible' = {OnDisk(n)} /\ cached' = cached
      BY <1>5 DEF Look
    <2>2. Password(Nothing) \in Nat /\ OnDisk(n) \in Nat \cup {Nothing}
      BY <1>1, PasswordFacts, DiskFacts
    <2>3. FilesOK' /\ LookupOK'
      BY <1>1, <1>2, <2>1, <2>2 DEF FilesOK, LookupOK, fileVars
    <2>4. FreshInv'
      BY <1>1, <1>2, <1>4, <2>1 DEF FreshInv, ReadsAreFresh, fileVars
    <2> QED BY <1>3, <2>3, <2>4, TypesSplit
  <1>6. ASSUME NEW v \in {Nothing, OnDisk(lookup.name)}, NEW g \in Nat,
               lookup.at # "none", lookup' = [lookup EXCEPT !.at = "none", !.answer = v,
                                                           !.signature = g],
               UNCHANGED possible
        PROVE  /\ FilesOK' /\ lookup'.at = "none" /\ ReadsAreFresh'
               /\ lookup' \in [at : {"none", "stat", "read"}, name : Names \cup {Nothing},
                               password : Nat, signature : Nat, answer : Nat \cup {Nothing}]
    <2>1. v \in Nat \cup {Nothing}
      BY <1>1, DiskFacts
    <2>2. lookup'.at = "none" /\ lookup'.answer = v
      BY <1>1, <1>6 DEF LookupOK
    <2>3. ReadsAreFresh'
      BY <1>1, <1>6, <2>2 DEF FreshInv, ReadsAreFresh
    <2> QED BY <1>1, <1>2, <1>6, <2>1, <2>2, <2>3 DEF FilesOK, LookupOK, fileVars
  <1>7. CASE Stat
    <2>1. lookup.at = "stat" /\ UNCHANGED <<cached, possible, disk>>
      BY <1>2, <1>7 DEF Stat, fileVars
    <2>2. CASE disk # Nothing /\ Matches /\ disk.signature \in ties
      <3> DEFINE v == ValueIn(cached.contents, lookup.name)
      <3>1. /\ lookup' = [lookup EXCEPT !.at = "none", !.answer = v, !.signature = disk.signature]
            /\ disk.signature \in Nat /\ cached \in Stores
        BY <1>1, <1>7, <2>2, DiskFacts DEF Stat, Answered, Matches, LookupOK
      <3>2. v \in Nat \cup {Nothing}
        BY <3>1, ValueInType DEF Stores
      <3> HIDE DEF v
      <3>3. FilesOK' /\ LookupOK' /\ lookup'.at = "none" /\ lookup'.signature = disk.signature
        BY <1>1, <1>2, <2>1, <3>1, <3>2 DEF FilesOK, LookupOK, fileVars
      <3>4. ReadsAreFresh'
        BY <1>2, <2>2, <3>3 DEF ReadsAreFresh
      <3>5. FreshInv'
        BY <1>1, <1>2, <2>1, <3>3, <3>4 DEF FreshInv, fileVars
      <3> QED BY <1>3, <3>3, <3>5, TypesSplit
    <2>3. CASE disk = Nothing \/ (Matches /\ disk.signature \notin ties)
      <3>1. \E v \in {Nothing, OnDisk(lookup.name)}, g \in Nat :
                lookup' = [lookup EXCEPT !.at = "none", !.answer = v, !.signature = g]
        BY <1>1, <1>7, <2>3, DiskFacts DEF Stat, Answered, Matches, FreshInv, OnDisk
      <3>2. /\ FilesOK' /\ lookup'.at = "none" /\ ReadsAreFresh'
            /\ lookup' \in [at : {"none", "stat", "read"}, name : Names \cup {Nothing},
                            password : Nat, signature : Nat, answer : Nat \cup {Nothing}]
        BY <1>6, <2>1, <3>1
      <3>3. LookupOK' /\ FreshInv'
        BY <1>1, <1>2, <2>1, <3>2 DEF LookupOK, FreshInv, fileVars
      <3> QED BY <1>3, <3>2, <3>3, TypesSplit
    <2>4. CASE disk # Nothing /\ ~Matches
      <3>1. /\ lookup' = [lookup EXCEPT !.at = "read", !.signature = disk.signature]
            /\ disk.signature \in Nat
        BY <1>1, <1>7, <2>4, DiskFacts DEF Stat
      <3>2. /\ lookup'.at = "read" /\ lookup'.name = lookup.name
            /\ lookup'.signature = disk.signature /\ lookup'.answer = lookup.answer
        BY <1>1, <3>1 DEF LookupOK
      <3>3. FilesOK' /\ LookupOK'
        BY <1>1, <1>2, <2>1, <2>4, <3>1 DEF FilesOK, LookupOK, fileVars
      <3>4. FreshInv'
        BY <1>1, <1>2, <1>4, <2>1, <2>4, <3>2 DEF FreshInv, ReadsAreFresh, fileVars
      <3> QED BY <1>3, <3>3, <3>4, TypesSplit
    <2> QED BY <2>2, <2>3, <2>4
  <1>8. CASE Read
    <2>1. /\ lookup.at = "read" /\ disk # Nothing /\ lookup.signature <= minted
          /\ UNCHANGED <<possible, disk>> /\ 0 \in Nat
      BY <1>1, <1>2, <1>8 DEF Read, FreshInv, fileVars
    <2>2. \/ /\ cached' = [signature |-> lookup.signature, password |-> lookup.password,
                           contents |-> disk.contents]
             /\ lookup' = [lookup EXCEPT !.at = "none", !.answer = OnDisk(lookup.name),
                                         !.signature = 0]
          \/ /\ cached' = Nothing
             /\ lookup' = [lookup EXCEPT !.at = "none", !.answer = Nothing, !.signature = 0]
      BY <1>8, <2>1 DEF Read, Answered, OnDisk
    <2>3. disk.contents \in Contents
      BY <1>1, <2>1, DiskFacts
    <2>4. /\ cached' \in Stores \cup {Nothing}
          /\ cached' # Nothing =>
               cached'.signature = lookup.signature /\ cached'.contents = disk.contents
      BY <1>1, <2>2, <2>3 DEF LookupOK, Stores
    <2>5. /\ FilesOK' /\ lookup'.at = "none" /\ ReadsAreFresh'
          /\ lookup' \in [at : {"none", "stat", "read"}, name : Names \cup {Nothing},
                          password : Nat, signature : Nat, answer : Nat \cup {Nothing}]
      BY <1>6, <2>1, <2>2
    <2>6. LookupOK' /\ FreshInv'
      BY <1>1, <1>2, <2>1, <2>4, <2>5 DEF LookupOK, FreshInv, fileVars
    <2> QED BY <1>3, <2>5, <2>6, TypesSplit
  <1> QED BY <1>5, <1>7, <1>8

(* It changes none of the files, and no command.                           *)
LEMMA LookupLeaves ==
    ASSUME Inv, (\E n \in Names : Look(n)) \/ Stat \/ Read PROVE Inv'
  <1>1. UNCHANGED <<disk, keyFile, exported, entries, minted, faults, at, job, excuses>>
    BY DEF Look, Stat, Read, fileVars
  <1>2. \A n : OnDisk(n)' = OnDisk(n)
    BY <1>1 DEF OnDisk
  <1>3. \A c : Rekeys(c)' = Rekeys(c) /\ Swapping(c)' = Swapping(c)
    BY <1>1 DEF Rekeys, Swapping
  <1>4. \A c \in Commands : JobInv(c)'
    BY <1>1, <1>3 DEF Inv, JobInv
  <1>5. AloneInv'
    BY <1>1 DEF Inv, AloneInv, Busy
  <1>6. KeyInv'
    BY <1>1 DEF Inv, KeyInv, ContentsInv
  <1>7. RefInv'
    BY <1>1, <1>2 DEF Inv, RefInv, RefsResolve, ReadInv
  <1>8. /\ Source(exported)' = Source(exported)
        /\ \A env : Password(env)' = Password(env)
        /\ \A c : Restored(c)' = Restored(c)
    BY <1>1 DEF Source, Password, Restored
  <1>9. Password(exported)' = Password(exported)
    BY <1>1 DEF Source, Password
  <1>10. (Careful' <=> Careful) /\ (Settled' <=> Settled)
    BY <1>1, <1>9 DEF Careful, Settled
  <1>11. ASSUME NEW c \in Commands, SwapInv(c) PROVE SwapInv(c)'
    BY <1>1, <1>3, <1>8, <1>9, <1>11 DEF SwapInv
  <1>12. OpenInv'
    BY <1>3, <1>10, <1>11 DEF Inv, OpenInv
  <1> QED BY <1>4, <1>5, <1>6, <1>7, <1>12, LookupSteps DEF Inv

-----------------------------------------------------------------------------
(* Entries and secrets                                                     *)

\* A command that is over refers to nothing.
LEMMA EndReads ==
    ASSUME JobsOK, NEW c \in Commands, Ends(c) PROVE ReadInv(c)'
  <1>1. at'[c] = "over" /\ job'[c].refs = {}
    BY EndsFacts DEF Blank
  <1> QED BY <1>1 DEF ReadInv

LEMMA UndoReads ==
    ASSUME JobsOK, NEW c \in Commands, Undo(c), UNCHANGED entries, ReadInv(c) PROVE ReadInv(c)'
  <1>1. /\ at'[c] \in {"over", "rollback"}
        /\ job'[c].refs \in {{}, job[c].refs}
    BY UndoFacts DEF Blank
  <1> QED BY <1>1 DEF ReadInv

\* A command that is alone goes on from what it has read.
LEMMA ReadStep ==
    ASSUME Inv, NEW c \in Commands, CommandStep(c), "raced" \notin excuses' PROVE ReadInv(c)'
  <1>1. /\ JobsOK /\ FilesOK /\ LookupOK /\ JobInv(c) /\ "raced" \notin excuses /\ ReadInv(c)
        /\ excuses \subseteq excuses'
    BY Alone, TypesSplit, CommandEffects DEF Inv, RefInv
  <1>2. CASE Ends(c)
    BY <1>1, <1>2, EndReads
  <1>3. CASE \E ask \in Does(c) : Start(c, ask)
    <2>1. /\ at'[c] \in {"entry", "check", "flags", "locate"} /\ job'[c].refs = {}
      BY <1>1, <1>3 DEF Start, Goto, First, JobsOK, Blank
    <2> QED BY <2>1 DEF ReadInv
  <1>4. CASE Locate(c) /\ ~Ends(c)
    <2>1. /\ at'[c] = "load" /\ job'[c].refs = job[c].refs /\ job'[c].ask = job[c].ask
          /\ UNCHANGED <<entries, disk>> /\ (job[c].ask = "create" => disk = Nothing)
      BY <1>1, <1>4 DEF Locate, Goto, JobsOK, Jobs, fileVars
    <2> QED BY <1>1, <2>1 DEF ReadInv
  <1>5. CASE (Load(c) \/ LoadNew(c)) /\ ~Ends(c)
    <2>1. UNCHANGED <<entries, disk>> /\ at[c] = "load"
      BY <1>5 DEF Load, LoadNew, fileVars
    <2>2. CASE Undo(c)
      BY <1>1, <2>1, <2>2, UndoReads
    <2>3. CASE ~Undo(c)
      <3>1. Goto(c, "save") /\ at'[c] = "save"
        BY <1>1, <1>5, <2>3 DEF Load, LoadNew, Goto, JobsOK
      <3>2. CASE Load(c)
        <4>1. job'[c].held = disk.contents /\ job'[c].refs = job[c].refs
          BY <1>1, <2>3, <3>2 DEF Load, JobsOK, Jobs
        <4> QED BY <1>1, <2>1, <3>1, <4>1 DEF ReadInv
      <3>3. CASE LoadNew(c)
        <4>1. job'[c].refs = job[c].refs
          BY <1>1, <2>3, <3>3 DEF LoadNew, JobsOK, Jobs
        <4>2. disk = Nothing
          BY <1>1, <2>1, <3>3 DEF LoadNew, ReadInv
        <4> QED BY <1>1, <2>1, <3>1, <4>1, <4>2 DEF ReadInv
      <3> QED BY <1>5, <3>2, <3>3
    <2> QED BY <2>2, <2>3
  <1>6. CASE Save(c) /\ ~Ends(c)
    <2>1. PICK y \in Edited(c), signature \in Signatures :
            disk' = [signature |-> signature, password |-> job[c].seals, contents |-> y]
      BY <1>6 DEF Save
    <2>2. /\ job[c].ask = "vault-add" /\ at[c] = "save" /\ UNCHANGED <<job, entries>>
          /\ at'[c] = "record"
      BY <1>1, <1>6 DEF Save, Goto, JobsOK
    <2>3. y \in Contents /\ Opens(y, job[c].name) /\ job[c].name \in Names
      BY <1>1, <2>2, EditedFacts DEF Inv, KeyInv, ContentsInv, JobInv
    <2>4. disk' # Nothing /\ disk'.contents = y
      BY <1>1, <2>1, <2>3, SavedFacts
    <2>5. OnDisk(job[c].name)' # Nothing
      BY <2>2, <2>3, <2>4, ValueInType DEF OnDisk
    <2> QED BY <1>1, <2>2, <2>5 DEF ReadInv
  <1>7. CASE SaveFails(c)
    BY <1>1, <1>7, UndoReads DEF SaveFails, fileVars
  <1>8. CASE VaultStep(c) /\ ~Ends(c)
    <2>1. UNCHANGED <<entries, disk>>
      BY <1>8 DEF VaultStep, Entry, Peek, Record, fileVars
    <2>2. CASE Entry(c)
      <3>1. /\ job'[c].refs = entries /\ job'[c].ask = job[c].ask
            /\ at'[c] = "peek" \/ (at'[c] = "record" /\ job[c].ask # "vault-add")
        BY <1>1, <1>8, <2>2 DEF Entry, Goto, JobsOK, Jobs
      <3> QED BY <2>1, <3>1 DEF ReadInv
    <2>3. CASE Peek(c)
      <3>1. /\ job' = job
            /\ at'[c] = "locate" \/ (at'[c] = "record" /\ OnDisk(job[c].name) # Nothing)
        BY <1>1, <1>8, <2>3 DEF Peek, Goto, JobsOK
      <3>2. OnDisk(job[c].name)' = OnDisk(job[c].name)
        BY <2>1, <3>1 DEF OnDisk
      <3> QED BY <1>1, <2>1, <3>1, <3>2 DEF ReadInv
    <2> QED BY <1>8, <2>2, <2>3 DEF VaultStep, Record
  <1>9. CASE KeyStep(c) /\ ~Ends(c)
    <2>1. UNCHANGED <<entries, disk>>
      BY <1>9 DEF KeyStep, Check, Flags, Current, WriteKey, WriteKeyFails, Verify, Rollback, fileVars
    <2>2. CASE Check(c) \/ WriteKey(c) \/ Verify(c)
      <3>1. /\ job' = job /\ at'[c] \in {"writeKey", "verify", "load", "rollback"}
            /\ job[c].ask \in KeyAsks
        BY <1>1, <1>9, <2>2 DEF Check, WriteKey, Verify, Goto, JobsOK, JobInv, RekeyAsks, KeyAsks
      <3> QED BY <1>1, <2>1, <3>1 DEF ReadInv, KeyAsks
    <2>3. CASE Flags(c) \/ Current(c)
      <3>1. at'[c] \in {"current", "writeKey"} /\ job'[c].refs = job[c].refs
        BY <1>1, <1>9, <2>3 DEF Flags, Current, Goto, JobsOK, Jobs
      <3> QED BY <1>1, <2>1, <3>1 DEF ReadInv
    <2> QED BY <1>9, <2>2, <2>3 DEF KeyStep, WriteKeyFails, Rollback
  <1>10. CASE Killed(c)
    BY <1>2, <1>10 DEF Killed
  <1> QED BY <1>2, <1>3, <1>4, <1>5, <1>6, <1>7, <1>8, <1>9, <1>10 DEF CommandStep, StoreStep

LEMMA RefStep ==
    ASSUME Inv, NEW c \in Commands, CommandStep(c) PROVE RefInv'
  <1>1. CASE "raced" \in excuses'
    BY <1>1 DEF RefInv, RefsResolve
  <1>2. CASE "raced" \notin excuses'
    <2>1. /\ JobsOK /\ FilesOK /\ LookupOK /\ JobInv(c) /\ "raced" \notin excuses
          /\ ReadInv(c) /\ RefsResolve /\ excuses \subseteq excuses'
      BY <1>2, Alone, TypesSplit, CommandEffects DEF Inv, RefInv
    <2>2. \A d \in Commands : ReadInv(d)'
      <3>1. ASSUME NEW d \in Commands \ {c} PROVE ReadInv(d)'
        <4>1. at'[d] \in {"idle", "over"} /\ job'[d].refs = {}
          BY <1>2, Alone DEF Blank
        <4> QED BY <4>1 DEF ReadInv
      <3> QED BY <1>2, <3>1, ReadStep
    <2>3. RefsResolve'
      <3> SUFFICES ASSUME "removed" \notin excuses', NEW n \in entries' PROVE OnDisk(n)' # Nothing
        BY DEF RefsResolve
      <3>1. \A m \in entries : OnDisk(m) # Nothing
        BY <2>1 DEF RefsResolve
      <3>2. entries \subseteq Names
        BY <2>1 DEF FilesOK
      <3>3. CASE Save(c)
        <4>1. PICK y \in Edited(c), signature \in Signatures :
                disk' = [signature |-> signature, password |-> job[c].seals, contents |-> y]
          BY <3>3 DEF Save
        <4>2. at[c] = "save" /\ n \in entries /\ job[c].ask # "force-remove"
          BY <3>3 DEF Save
        <4>3. disk # Nothing /\ Opens(disk.contents, n) /\ job[c].held = disk.contents
          BY <2>1, <3>1, <3>2, <4>2, DiskFacts DEF ReadInv
        <4>4. y \in Contents /\ Better(job[c].held, y)
          BY <2>1, <4>2, EditedFacts DEF Inv, KeyInv, ContentsInv
        <4>5. Opens(y, n)
          BY <3>2, <4>2, <4>3, <4>4 DEF Better
        <4>6. disk' # Nothing /\ disk'.contents = y
          BY <2>1, <4>1, <4>4, SavedFacts
        <4> QED BY <3>2, <4>2, <4>4, <4>5, <4>6, ValueInType DEF OnDisk
      <3>4. CASE Record(c)
        <4>1. /\ UNCHANGED disk
              /\ n \in entries \/ (n = job[c].name /\ at[c] = "record" /\ job[c].ask = "vault-add")
          BY <2>1, <3>4 DEF Record, ReadInv
        <4>2. OnDisk(n) # Nothing
          BY <2>1, <3>1, <4>1 DEF ReadInv
        <4> QED BY <4>1, <4>2 DEF OnDisk
      <3>5. CASE ~Save(c) /\ ~Record(c)
        <4>1. UNCHANGED <<disk, entries>>
          BY <2>1, <3>5, CommandEffects
        <4> QED BY <3>1, <4>1 DEF OnDisk
      <3> QED BY <3>3, <3>4, <3>5
    <2> QED BY <2>2, <2>3 DEF RefInv
  <1> QED BY <1>1, <1>2

-----------------------------------------------------------------------------
(* The store and the password that opens it                                *)

LEMMA KeyOfFacts ==
    ASSUME exported = Nothing
    PROVE  Password(exported) = KeyOf(keyFile) /\ Password(Nothing) = KeyOf(keyFile)
  BY DEF Password, Source, KeyOf

\* What has to be shown of a step of c.
OpenGoal(c) == SwapInv(c)' /\ (~Swapping(c)' => Settled')

LEMMA SameSettled ==
    ASSUME UNCHANGED <<disk, keyFile, exported>>
    PROVE  /\ Source(exported)' = Source(exported) /\ Password(exported)' = Password(exported)
           /\ Password(Nothing)' = Password(Nothing)
           /\ Settled => Settled'
  BY DEF Source, Password, Settled

LEMMA EndSettles ==
    ASSUME JobsOK, NEW c \in Commands, Ends(c), Settled' PROVE OpenGoal(c)
  <1>1. at'[c] = "over"
    BY EndsFacts
  <1> QED BY <1>1 DEF OpenGoal, SwapInv, Swapping

\* A command that is next to the store and has nothing to do with its password.
Aside(c) == at[c] \in {"entry", "peek", "record", "locate", "check", "flags", "over"}

LEMMA AsideSettles ==
    ASSUME NEW c \in Commands, Aside(c)', Settled' PROVE OpenGoal(c)
  BY DEF OpenGoal, SwapInv, Swapping, Aside

\* What is known where c takes a step and nothing has gone wrong.
OpenFacts(c) ==
    /\ JobsOK /\ FilesOK /\ JobInv(c) /\ SwapInv(c)
    /\ ~Swapping(c) => Settled
    /\ job[c].place \in Places /\ job[c].seals \in Nat /\ job[c].reads \in Nat
    /\ exported \in Nat \cup {Nothing} /\ keyFile \in [Places -> Nat \cup {Nothing}]
    /\ Nothing \notin Nat

LEMMA OpenStart ==
    ASSUME NEW c \in Commands, OpenFacts(c), NEW ask \in Does(c), Start(c, ask) PROVE OpenGoal(c)
  <1>1. /\ UNCHANGED <<disk, keyFile, exported>> /\ ~Swapping(c)
    BY DEF Start, fileVars, Swapping
  <1>2. at'[c] = First(ask)
    BY DEF Start, Goto, OpenFacts, JobsOK
  <1>3. Aside(c)'
    BY <1>2 DEF First, Aside
  <1> QED BY <1>1, <1>3, SameSettled, AsideSettles DEF OpenFacts

LEMMA OpenLocate ==
    ASSUME NEW c \in Commands, OpenFacts(c), Locate(c) PROVE OpenGoal(c)
  <1>1. /\ UNCHANGED <<disk, keyFile, exported>> /\ ~Swapping(c) /\ at[c] = "locate"
    BY DEF Locate, fileVars, Swapping
  <1>2. Settled'
    BY <1>1, SameSettled DEF OpenFacts
  <1>3. CASE Ends(c)
    BY <1>2, <1>3, EndSettles DEF OpenFacts
  <1>4. CASE ~Ends(c)
    <2>1. /\ at'[c] = "load" /\ job'[c].ask = job[c].ask
          /\ job'[c].reads = Password(exported)
          /\ job[c].ask = "rekey" \/ job'[c].seals = Password(exported)
      BY <1>4 DEF Locate, Goto, OpenFacts, JobsOK, Jobs
    <2>2. job[c].ask \notin KeyAsks
      BY <1>1 DEF OpenFacts, JobInv
    <2> QED BY <1>1, <1>2, <2>1, <2>2, SameSettled DEF OpenGoal, SwapInv, Swapping
  <1> QED BY <1>3, <1>4

\* A step that changes neither the files nor the job's passwords.
LEMMA OpenOn ==
    ASSUME NEW c \in Commands, OpenFacts(c), UNCHANGED <<disk, keyFile, exported>>,
           job'[c].ask = job[c].ask, job'[c].reads = job[c].reads, job'[c].seals = job[c].seals,
           job'[c].place = job[c].place, job'[c].previous = job[c].previous,
           \/ at[c] = "load" /\ at'[c] = "save"
           \/ at[c] = "save" /\ at'[c] = "rollback" /\ job[c].ask \in KeyAsks /\ faults' >= 1
           \/ at[c] = "verify" /\ at'[c] \in {"load", "rollback"}
              /\ (at'[c] = "load" <=> Source(exported) = job[c].place)
    PROVE  OpenGoal(c)
  <1>1. Restored(c)' = Restored(c)
    BY DEF Restored
  <1>2. Swapping(c)' <=> Swapping(c)
    BY DEF Swapping, OpenFacts, JobInv, RekeyAsks, KeyAsks
  <1>3. Settled \/ Swapping(c)
    BY DEF OpenFacts
  <1>4. /\ Source(exported)' = Source(exported) /\ Password(exported)' = Password(exported)
        /\ Settled => Settled'
    BY SameSettled
  <1>5. SwapInv(c)'
    <2>1. SwapInv(c) /\ JobInv(c)
      BY DEF OpenFacts
    <2>2. CASE Swapping(c)
      <3>1. job'[c].ask \in KeyAsks
        BY <2>2 DEF Swapping
      <3> QED BY <1>1, <1>2, <1>4, <2>1, <2>2, <3>1 DEF SwapInv, Swapping
    <2>3. CASE ~Swapping(c)
      <3>1. at[c] = "load" /\ at'[c] = "save" /\ job[c].ask \notin KeyAsks
        BY <2>1, <2>3 DEF Swapping, JobInv, RekeyAsks, KeyAsks
      <3> QED BY <1>2, <1>4, <2>1, <2>3, <3>1 DEF SwapInv
    <2> QED BY <2>2, <2>3
  <1> QED BY <1>2, <1>3, <1>4, <1>5 DEF OpenGoal

LEMMA OpenLoad ==
    ASSUME NEW c \in Commands, OpenFacts(c), Load(c) \/ LoadNew(c) PROVE OpenGoal(c)
  <1>1. /\ UNCHANGED <<disk, keyFile, exported>> /\ at[c] = "load"
    BY DEF Load, LoadNew, fileVars
  <1>2. CASE Undo(c)
    <2>1. CASE job[c].ask \in KeyAsks
      <3>1. /\ disk # Nothing /\ disk.password = job[c].reads /\ job[c].ask # "create"
        BY <1>1, <2>1 DEF OpenFacts, SwapInv, Swapping, KeyAsks
      <3>2. Load(c) /\ Goto(c, "save") /\ Goto(c, "rollback")
        BY <1>2, <2>1, <3>1 DEF Load, LoadNew, Undo
      <3> QED BY <3>2 DEF Goto, OpenFacts, JobsOK
    <2>2. CASE job[c].ask \notin KeyAsks
      <3>1. Ends(c) /\ ~Swapping(c)
        BY <1>2, <2>2 DEF Undo, Swapping
      <3> QED BY <1>1, <3>1, SameSettled, EndSettles DEF OpenFacts
    <2> QED BY <2>1, <2>2
  <1>3. CASE ~Undo(c)
    <2>1. at'[c] = "save" /\ \E x : job' = [job EXCEPT ![c].held = x]
      BY <1>3 DEF Load, LoadNew, Goto, OpenFacts, JobsOK
    <2>2. /\ job'[c].ask = job[c].ask /\ job'[c].reads = job[c].reads
          /\ job'[c].seals = job[c].seals /\ job'[c].place = job[c].place
          /\ job'[c].previous = job[c].previous
      BY <2>1 DEF OpenFacts, JobsOK, Jobs
    <2> QED BY <1>1, <2>1, <2>2, OpenOn
  <1> QED BY <1>2, <1>3

LEMMA OpenSave ==
    ASSUME NEW c \in Commands, OpenFacts(c), Fits(job[c].held), Save(c) PROVE OpenGoal(c)
  <1>1. PICK y \in Edited(c), signature \in Signatures :
          disk' = [signature |-> signature, password |-> job[c].seals, contents |-> y]
    BY DEF Save
  <1>2. /\ at[c] = "save" /\ UNCHANGED keyFile
        /\ exported' = IF job[c].ask = "rekey" THEN job[c].seals ELSE exported
    BY DEF Save
  <1>3. disk'.password = job[c].seals
    BY <1>1
  <1>4. Password(exported)' = job[c].seals
    <2>1. CASE job[c].ask = "rekey"
      <3>1. exported' = job[c].seals /\ exported' # Nothing
        BY <1>2, <2>1 DEF OpenFacts
      <3> QED BY <3>1 DEF Password, Source
    <2>2. CASE job[c].ask # "rekey"
      <3>1. UNCHANGED exported
        BY <1>2, <2>2
      <3>2. Password(exported)' = Password(exported)
        BY <1>2, <3>1 DEF Password, Source
      <3>3. CASE job[c].ask \in KeyAsks
        <4>1. /\ Source(exported) = job[c].place /\ keyFile[job[c].place] = job[c].seals
          BY <1>2, <3>3 DEF OpenFacts, SwapInv, Swapping
        <4>2. Password(exported) = job[c].seals
          BY <4>1, PasswordFacts DEF OpenFacts
        <4> QED BY <3>2, <4>2
      <3>4. CASE job[c].ask \notin KeyAsks
        BY <1>2, <2>2, <3>2, <3>4 DEF OpenFacts, SwapInv
      <3> QED BY <3>3, <3>4
    <2> QED BY <2>1, <2>2
  <1>5. Settled'
    BY <1>3, <1>4 DEF Settled
  <1>6. CASE Ends(c)
    BY <1>5, <1>6, EndSettles DEF OpenFacts
  <1>7. CASE ~Ends(c)
    <2>1. at'[c] = "record"
      BY <1>7 DEF Save, Goto, OpenFacts, JobsOK
    <2> QED BY <1>5, <2>1, AsideSettles DEF Aside
  <1> QED BY <1>6, <1>7

LEMMA OpenSaveFails ==
    ASSUME NEW c \in Commands, OpenFacts(c), SaveFails(c) PROVE OpenGoal(c)
  <1>1. UNCHANGED <<disk, keyFile, exported>> /\ at[c] = "save" /\ Undo(c)
    BY DEF SaveFails, fileVars
  <1>2. CASE job[c].ask \in KeyAsks
    <2>1. Edited(c) # {} /\ faults' = faults + 1 /\ faults \in Nat
      <3>1. Edited(c) # {}
        BY <1>2, EditedSame
      <3>2. faults \in Nat
        BY StoreConstants DEF StoreConstants, OpenFacts, FilesOK
      <3> QED BY <3>1, <3>2 DEF SaveFails
    <2>2. at'[c] = "rollback" /\ job' = job
      BY <1>1, <1>2 DEF Undo, Goto, OpenFacts, JobsOK
    <2>3. faults' >= 1
      BY <2>1
    <2> QED BY <1>1, <1>2, <2>2, <2>3, OpenOn
  <1>3. CASE job[c].ask \notin KeyAsks
    <2>1. Ends(c) /\ ~Swapping(c)
      BY <1>1, <1>3 DEF Undo, Swapping
    <2> QED BY <1>1, <2>1, SameSettled, EndSettles DEF OpenFacts
  <1> QED BY <1>2, <1>3

LEMMA OpenVault ==
    ASSUME NEW c \in Commands, OpenFacts(c), VaultStep(c) PROVE OpenGoal(c)
  <1>1. UNCHANGED <<disk, keyFile, exported>> /\ at[c] \in {"entry", "peek", "record"}
    BY DEF VaultStep, Entry, Peek, Record, fileVars
  <1>2. Settled'
    BY <1>1, SameSettled DEF OpenFacts, Swapping
  <1>3. at'[c] \in {"peek", "record", "locate", "over"}
    BY DEF VaultStep, Entry, Peek, Record, Ends, Goto, OpenFacts, JobsOK
  <1> QED BY <1>2, <1>3, AsideSettles DEF Aside

LEMMA OpenFlags ==
    ASSUME NEW c \in Commands, OpenFacts(c), Check(c) \/ Flags(c) \/ Current(c) PROVE OpenGoal(c)
  <1>1. /\ UNCHANGED <<disk, keyFile, exported>> /\ ~Swapping(c)
        /\ at[c] \in {"check", "flags", "current"} /\ ~Rekeys(c)
    BY DEF Check, Flags, Current, fileVars, Swapping, OpenFacts, JobInv
  <1>2. Settled'
    BY <1>1, SameSettled DEF OpenFacts
  <1>3. CASE Ends(c)
    BY <1>2, <1>3, EndSettles DEF OpenFacts
  <1>4. CASE Check(c) /\ ~Ends(c)
    <2>1. at'[c] = "writeKey" /\ job' = job /\ disk = Nothing
      BY <1>4 DEF Check, Goto, OpenFacts, JobsOK
    <2>2. ~Rekeys(c)'
      BY <1>1, <2>1 DEF Rekeys
    <2> QED BY <1>1, <1>2, <2>1, <2>2 DEF OpenGoal, SwapInv, Swapping
  <1>5. CASE Flags(c) /\ ~Ends(c)
    <2>1. /\ job' = [job EXCEPT ![c].previous = keyFile[job[c].place]]
          /\ at[c] = "flags" /\ at'[c] \in {"current", "writeKey"}
          /\ at'[c] = "current" <=> disk # Nothing /\ job[c].ask \in RekeyAsks
          /\ ~(disk # Nothing /\ job[c].ask = "generate-key")
      BY <1>5 DEF Flags, Goto, OpenFacts, JobsOK, RekeyAsks
    <2>2. /\ job'[c].ask = job[c].ask /\ job'[c].seals = job[c].seals
          /\ job'[c].place = job[c].place /\ job'[c].previous = keyFile[job[c].place]
      BY <2>1 DEF OpenFacts, JobsOK, Jobs
    <2>3. ~Rekeys(c)'
      BY <1>1, <2>2 DEF Rekeys
    <2>4. at'[c] = "writeKey" => disk = Nothing \/ job[c].ask = "force-key"
      BY <2>1 DEF OpenFacts, JobInv, KeyAsks, RekeyAsks
    <2> QED BY <1>1, <1>2, <2>1, <2>2, <2>3, <2>4 DEF OpenGoal, SwapInv, Swapping
  <1>6. CASE Current(c) /\ ~Ends(c)
    <2>1. /\ job' = [job EXCEPT ![c].reads = Password(exported), ![c].seals = minted + 1]
          /\ at[c] = "current" /\ at'[c] = "writeKey" /\ Source(exported) # "env"
      BY <1>6 DEF Current, Goto, OpenFacts, JobsOK
    <2>2. /\ job'[c].reads = Password(exported) /\ job'[c].seals = minted + 1
          /\ job'[c].place = job[c].place /\ job'[c].previous = job[c].previous
      BY <2>1 DEF OpenFacts, JobsOK, Jobs
    <2>3. Rekeys(c)'
      BY <2>2 DEF Rekeys, Default, OpenFacts, FilesOK
    <2>4. exported = Nothing /\ job'[c].reads = Password(Nothing)
      BY <2>1, <2>2 DEF Source
    <2>5. disk # Nothing /\ job[c].previous = keyFile[job[c].place]
      BY <2>1 DEF OpenFacts, SwapInv
    <2> QED BY <1>1, <1>2, <2>1, <2>2, <2>3, <2>4, <2>5, SameSettled DEF OpenGoal, SwapInv, Swapping
  <1> QED BY <1>3, <1>4, <1>5, <1>6

LEMMA OpenWriteKey ==
    ASSUME NEW c \in Commands, OpenFacts(c), WriteKey(c), "forced" \notin excuses'
    PROVE  OpenGoal(c)
  <1>1. /\ UNCHANGED <<disk, exported>> /\ at[c] = "writeKey" /\ job[c].ask # "force-key"
        /\ ~Swapping(c) /\ SwapInv(c) /\ Settled
    BY DEF WriteKey, Swapping, OpenFacts
  <1>2. CASE ~Rekeys(c)
    <2>1. disk = Nothing
      BY <1>1, <1>2 DEF SwapInv
    <2>2. Ends(c) /\ Settled'
      BY <1>1, <1>2, <2>1 DEF WriteKey, Settled
    <2> QED BY <2>2, EndSettles DEF OpenFacts
  <1>3. CASE Rekeys(c)
    <2> DEFINE place == job[c].place
    <2>1. /\ job' = job /\ at'[c] = "verify" /\ keyFile' = [keyFile EXCEPT ![place] = job[c].seals]
      BY <1>3 DEF WriteKey, Goto, OpenFacts, JobsOK
    <2>2. /\ disk # Nothing /\ job[c].previous = keyFile[place] /\ exported = Nothing
          /\ job[c].reads = Password(Nothing)
      BY <1>1, <1>3 DEF SwapInv
    <2>3. disk.password = job[c].reads
      BY <1>1, <2>2 DEF Settled
    <2>4. Restored(c)' = [keyFile' EXCEPT ![place] = keyFile[place]]
      BY <2>1, <2>2 DEF Restored
    <2>5. keyFile'[place] = job[c].seals /\ Restored(c)' = keyFile
      BY <2>1, <2>4 DEF OpenFacts
    <2>6. KeyOf(Restored(c)') = job[c].reads
      BY <2>2, <2>5, KeyOfFacts
    <2>7. job[c].ask \in RekeyAsks
      BY <1>1, <1>3 DEF OpenFacts, JobInv
    <2>8. Swapping(c)'
      BY <2>1, <2>7 DEF Swapping, RekeyAsks, KeyAsks
    <2>9. KeyOf(Restored(c))' = job[c].reads
      BY <2>6 DEF KeyOf
    <2> QED BY <1>1, <2>1, <2>2, <2>3, <2>5, <2>8, <2>9 DEF OpenGoal, SwapInv
  <1> QED BY <1>2, <1>3

LEMMA OpenVerify ==
    ASSUME NEW c \in Commands, OpenFacts(c), WriteKeyFails(c) \/ Verify(c) PROVE OpenGoal(c)
  <1>1. UNCHANGED <<disk, keyFile, exported>>
    BY DEF WriteKeyFails, Verify, fileVars
  <1>2. CASE WriteKeyFails(c)
    <2>1. Ends(c) /\ ~Swapping(c)
      BY <1>2 DEF WriteKeyFails, Swapping
    <2> QED BY <1>1, <2>1, SameSettled, EndSettles DEF OpenFacts
  <1>3. CASE Verify(c)
    <2>1. /\ job' = job /\ at[c] = "verify"
          /\ at'[c] = IF Source(exported) = job[c].place THEN "load" ELSE "rollback"
      BY <1>3 DEF Verify, Goto, OpenFacts, JobsOK
    <2> QED BY <1>1, <2>1, OpenOn
  <1> QED BY <1>2, <1>3

(* The old key comes back, or the one write that failed was this one, and  *)
(* then the key that nobody reads stays.                                   *)
LEMMA OpenRollback ==
    ASSUME NEW c \in Commands, OpenFacts(c), Rollback(c), faults' < 2 PROVE OpenGoal(c)
  <1>1. /\ UNCHANGED <<disk, exported>> /\ at[c] = "rollback" /\ Ends(c) /\ faults \in Nat
    BY StoreConstants DEF StoreConstants, Rollback, OpenFacts, FilesOK
  <1>2. Swapping(c)
    BY <1>1 DEF OpenFacts, JobInv, Swapping, RekeyAsks, KeyAsks
  <1>3. /\ exported = Nothing /\ disk.password = job[c].reads
        /\ keyFile[job[c].place] = job[c].seals /\ KeyOf(Restored(c)) = job[c].reads
        /\ faults >= 1 \/ Source(exported) # job[c].place
    BY <1>1, <1>2 DEF OpenFacts, SwapInv
  <1>4. KeyOf(keyFile') = job[c].reads
    <2>1. CASE keyFile' = Restored(c)
      BY <1>3, <2>1
    <2>2. CASE keyFile' = keyFile /\ faults' = faults + 1
      <3>1. Source(exported) # job[c].place
        BY <1>1, <1>3, <2>2
      <3>2. job[c].place = "user" /\ keyFile["project"] # Nothing
        BY <1>3, <3>1 DEF Source, OpenFacts, Places
      <3>3. Restored(c)["project"] = keyFile["project"]
        BY <3>2 DEF Restored, OpenFacts, Places
      <3> QED BY <1>3, <2>2, <3>2, <3>3 DEF KeyOf
    <2> QED BY <2>1, <2>2 DEF Rollback
  <1>5. Password(exported)' = KeyOf(keyFile')
    BY <1>1, <1>3 DEF Password, Source, KeyOf
  <1>6. Settled'
    BY <1>1, <1>3, <1>4, <1>5 DEF Settled
  <1> QED BY <1>1, <1>6, EndSettles DEF OpenFacts

LEMMA OpenKilled ==
    ASSUME NEW c \in Commands, OpenFacts(c), Killed(c), "cut" \notin excuses' PROVE OpenGoal(c)
  <1>1. /\ UNCHANGED <<disk, keyFile, exported>> /\ Ends(c) /\ ~Swapping(c)
    BY DEF Killed, fileVars, Swapping
  <1> QED BY <1>1, SameSettled, EndSettles DEF OpenFacts

LEMMA OpenStep ==
    ASSUME Inv, NEW c \in Commands, CommandStep(c) PROVE OpenInv'
  <1> SUFFICES ASSUME Careful'
               PROVE  /\ (\A d \in Commands : ~Swapping(d)') => Settled'
                      /\ \A d \in Commands : SwapInv(d)'
    BY DEF OpenInv
  <1>1. /\ JobsOK /\ FilesOK /\ JobInv(c) /\ excuses \subseteq excuses' /\ faults <= faults'
    BY TypesSplit, CommandEffects DEF Inv
  <1>2. /\ {"raced", "cut", "forced"} \cap excuses' = {} /\ faults' < 2 /\ faults \in Nat
        /\ faults' \in Nat
    BY CommandTypes, TypesSplit, StoreConstants
    DEF StoreConstants, Careful, Inv, FilesOK
  <1>3. Careful
    BY <1>1, <1>2 DEF Careful
  <1>4. \A d \in Commands \ {c} : /\ at[d] \in {"idle", "over"} /\ at'[d] = at[d]
    BY <1>2, Alone
  <1>5. \A d \in Commands \ {c} : ~Swapping(d) /\ SwapInv(d)'
    BY <1>4 DEF SwapInv, Swapping
  <1>6. /\ job[c].place \in Places /\ job[c].seals \in Nat /\ job[c].reads \in Nat
        /\ exported \in Nat \cup {Nothing} /\ keyFile \in [Places -> Nat \cup {Nothing}]
        /\ Nothing \notin Nat
    BY <1>1, StoreConstants DEF StoreConstants, JobsOK, Jobs, FilesOK
  <1>7. OpenFacts(c)
    BY <1>1, <1>3, <1>5, <1>6 DEF OpenFacts, Inv, OpenInv
  <1>8. Save(c) => Fits(job[c].held)
    BY DEF Save, Inv, KeyInv, ContentsInv
  <1>9. OpenGoal(c)
    BY <1>2, <1>7, <1>8, OpenStart, OpenLocate, OpenLoad, OpenSave, OpenSaveFails, OpenVault,
       OpenFlags, OpenWriteKey, OpenVerify, OpenRollback, OpenKilled
    DEF CommandStep, StoreStep, KeyStep
  <1> QED BY <1>5, <1>9 DEF OpenGoal

-----------------------------------------------------------------------------
(* The theorems                                                            *)

LEMMA InitInv == Init => Inv
  <1> SUFFICES ASSUME Init PROVE Inv
    OBVIOUS
  <1>1. job \in [Commands -> Jobs] /\ \A c \in Commands : at[c] = "idle" /\ job[c] = Blank
    BY BlankType DEF Init
  <1>2. JobsOK
    BY <1>1 DEF Init, JobsOK, Waits
  <1>3. FilesOK
    BY StoreConstants DEF StoreConstants, Init, FilesOK
  <1>4. LookupOK
    BY DEF Init, LookupOK, Default
  <1>5. \A c \in Commands : JobInv(c)
    BY <1>1 DEF JobInv, Swapping
  <1>6. AloneInv /\ KeyInv
    BY <1>1 DEF Init, AloneInv, KeyInv, Busy
  <1>7. FreshInv
    BY DEF Init, FreshInv, ReadsAreFresh
  <1>8. RefInv
    BY <1>1 DEF Init, RefInv, RefsResolve, ReadInv, Blank
  <1>9. OpenInv
    BY <1>1 DEF Init, OpenInv, Settled, SwapInv, Swapping
  <1> QED BY <1>2, <1>3, <1>4, <1>5, <1>6, <1>7, <1>8, <1>9, TypesSplit DEF Inv

LEMMA NextInv == Inv /\ [Next]_vars => Inv'
  <1> SUFFICES ASSUME Inv, [Next]_vars PROVE Inv'
    OBVIOUS
  <1>1. CASE UNCHANGED vars
    BY <1>1 DEF vars, fileVars, readVars, Inv, TypeOK, JobInv, AloneInv, KeyInv, ContentsInv,
       FreshInv, RefInv, OpenInv, Busy, Rekeys, Swapping, RefsResolve, ReadInv, ReadsAreFresh,
       OnDisk, Careful, Settled, SwapInv, Restored, Source, Password
  <1>2. ASSUME NEW c \in Commands, CommandStep(c) PROVE Inv'
    BY <1>2, CommandTypes, AloneStep, KeyringStep, FreshStep, RefStep, OpenStep DEF Inv
  <1>3. CASE (\E n \in Names : Look(n)) \/ Stat \/ Read
    BY <1>3, LookupLeaves
  <1> QED BY <1>1, <1>2, <1>3 DEF Next, CommandStep

LEMMA Invariant == Spec => []Inv
  BY InitInv, NextInv, PTL DEF Spec

(* Every variable keeps its type (EmbedStore of embed.ts, the options and  *)
(* the local state of the commands of vault.ts).                           *)
THEOREM TypeCorrect == Spec => []TypeOK
  BY Invariant, PTL DEF Inv

(* Whatever commands run into one another, the store has exactly one       *)
(* active key, and opens every secret in it unless --force took its key    *)
(* (withKey, removeEmbedKey, rotateEmbedKeys of embed.ts).                 *)
THEOREM KeyringAlwaysFits == Spec => []KeyringFits
  <1>1. Inv => KeyringFits
    BY DEF Inv, KeyInv, ContentsInv, Fits, Sound, KeyringFits
  <1> QED BY <1>1, Invariant, PTL

(* Commands that do not run next to one another leave no entry of          *)
(* vault.json without its secret, whatever of them fails or is killed      *)
(* (addCommand, rmCommand of vault.ts, saveVault).                         *)
THEOREM EntriesResolve == Spec => []RefsResolve
  <1>1. Inv => RefsResolve
    BY DEF Inv, RefInv
  <1> QED BY <1>1, Invariant, PTL

(* With no command under way the store opens under the password that the   *)
(* next one resolves, though a write of a re-key failed                    *)
(* (generateMasterKeyFile of master-key.ts, resolveMasterKey).             *)
THEOREM StoreStaysOpenable == Spec => []StaysOpenable
  <1>1. Inv => StaysOpenable
    <2> SUFFICES ASSUME Inv, Busy = {}, Careful PROVE Settled
      BY DEF StaysOpenable, Careful, Settled
    <2>1. \A c \in Commands : ~Swapping(c)
      BY DEF Busy, Swapping
    <2> QED BY <2>1 DEF Inv, OpenInv
  <1> QED BY <1>1, Invariant, PTL

(* A process that memoizes the store answers with a value the secret had   *)
(* since it was asked, unless from memory under a signature that more than *)
(* one file has had (openStore, fileSignature, getEmbedSecret of embed.ts).*)
THEOREM NoStaleReads == Spec => []ReadsAreFresh
  <1>1. Inv => ReadsAreFresh
    BY DEF Inv, FreshInv
  <1> QED BY <1>1, Invariant, PTL
=============================================================================
