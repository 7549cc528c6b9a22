---------------------------- MODULE SecretStore ----------------------------
(* The embedded secret store as the `mt vault` commands and the processes   *)
(* that resolve `embed:` references share it (core/src/embed.ts,            *)
(* core/src/vault.ts, cli/src/commands/vault.ts, master-key.ts): the store  *)
(* file under a master password, the key files and the environment the      *)
(* password comes from, and vault.json with its references.  Every command  *)
(* is a process of its own; nothing locks the files.                        *)
EXTENDS Keyring

CONSTANTS Commands,     \* commands that may be started, each once
          Does(_),      \* the things a command may be asked to do
          Nothing,      \* no store, no key, no answer
          MaxFaults     \* writes that may fail

Default == 0    \* DEFAULT_EMBED_PASSWORD; other passwords count upwards

Places == {"project", "user"}

KeyAsks == {"init", "generate-key", "rekey-key", "rekey-key-force", "force-key"}
Asks == {"create", "set", "rotate", "generate", "use", "retire", "remove", "force-remove",
         "rotate-keys", "rekey", "vault-add", "vault-rm"} \cup KeyAsks

Contents == [keys : [Kids -> [material : Nat, status : {"absent", "active", "retired"}]],
             secrets : [Names -> [kid : Kids \cup {"none"}, seal : Nat, value : Nat]]]

\* The file: its signature, and what the password seals.
Stores == [signature : Nat, password : Nat, contents : Contents]

ASSUME StoreConstants ==
    /\ MaxFaults \in Nat
    /\ Nothing \notin Nat \cup Stores
    /\ \A c \in Commands : Does(c) \subseteq Asks

VARIABLES disk,       \* secrets.embed.json, one of Stores, or Nothing
          keyFile,    \* the master key files
          exported,   \* MT_EMBED_PASSWORD of the operator's shell
          entries,    \* vault.json: the entries, each with a reference of its name
          minted,     \* keys, passwords and values made so far
          faults,     \* writes that failed
          at,         \* what a command awaits
          job,        \* what it was asked and what it has read
          cached,     \* storeCache of a process that resolves references
          lookup,     \* its getEmbedSecret under way
          possible,   \* what the secret was since then
          excuses,    \* how the operator may have lost a secret
          ties        \* signatures that more than one file has had

fileVars == <<disk, keyFile, exported, entries>>
readVars == <<cached, lookup>>
vars == <<fileVars, minted, faults, at, job, readVars, possible, excuses, ties>>

Waits == {"idle", "locate", "load", "save", "entry", "peek", "record",
          "check", "flags", "current", "writeKey", "verify", "rollback", "over"}

Blank == [ask |-> "create", reads |-> Default, seals |-> Default, held |-> Empty,
          place |-> "project", previous |-> Nothing, name |-> Nothing, refs |-> {}]

Busy == {c \in Commands : at[c] \notin {"idle", "over"}}

Goto(c, wait) == at' = [at EXCEPT ![c] = wait]

\* The command is over, its record of no use any more.
Ends(c) == Goto(c, "over") /\ job' = [job EXCEPT ![c] = Blank]

Init ==
    /\ disk = Nothing
    /\ keyFile = [p \in Places |-> Nothing]
    /\ exported = Nothing
    /\ entries = {}
    /\ minted = 0
    /\ faults = 0
    /\ at = [c \in Commands |-> "idle"]
    /\ job = [c \in Commands |-> Blank]
    /\ cached = Nothing
    /\ lookup = [at |-> "none", name |-> Nothing, password |-> Default, signature |-> 0,
                 answer |-> Nothing]
    /\ possible = {Nothing}
    /\ excuses = {}
    /\ ties = {}

-----------------------------------------------------------------------------
\* resolveMasterKey: the environment, the project's key, the user's.
Source(env) ==
    IF env # Nothing THEN "env"
    ELSE IF keyFile["project"] # Nothing THEN "project"
    ELSE IF keyFile["user"] # Nothing THEN "user" ELSE "default"

Password(env) ==
    LET source == Source(env)
    IN IF source = "env" THEN env
       ELSE IF source = "default" THEN Default ELSE keyFile[source]

\* What getEmbedSecret finds in a store that opens.
ValueIn(c, n) == IF n \in Names /\ Opens(c, n) THEN c.secrets[n].value ELSE Nothing

OnDisk(n) == IF disk = Nothing THEN Nothing ELSE ValueIn(disk.contents, n)

First(ask) ==
    CASE ask \in {"vault-add", "vault-rm"} -> "entry"
      [] ask = "init" -> "check"
      [] ask \in KeyAsks \ {"init"} -> "flags"
      [] OTHER -> "locate"

(* The operator runs a command: on an entry, or for the project's or the    *)
(* user's key file.                                                         *)
Start(c, ask) ==
    /\ at[c] = "idle"
    /\ Goto(c, First(ask))
    /\ \E n \in IF First(ask) = "entry" THEN Names ELSE {Nothing},
          p \in IF First(ask) = "flags" THEN Places ELSE {"project"} :
         job' = [job EXCEPT ![c] = [Blank EXCEPT !.ask = ask, !.name = n, !.place = p]]
    /\ excuses' = IF Busy = {} THEN excuses ELSE excuses \cup {"raced"}
    /\ UNCHANGED <<fileVars, minted, faults, readVars, possible, ties>>

-----------------------------------------------------------------------------
(* locate, requirePassword; embed-rekey brings the new password along, and  *)
(* embed-init looks for a store first.                                      *)
Locate(c) ==
    /\ at[c] = "locate"
    /\ IF job[c].ask = "create" /\ disk # Nothing
         THEN Ends(c) /\ UNCHANGED minted
         ELSE LET now == Password(exported)
                  new == IF job[c].ask = "rekey" THEN minted + 1 ELSE now
              IN /\ job' = [job EXCEPT ![c].reads = now, ![c].seals = new]
                 /\ minted' = IF job[c].ask = "rekey" THEN minted + 1 ELSE minted
                 /\ Goto(c, "load")
    /\ UNCHANGED <<fileVars, faults, readVars, possible, excuses, ties>>

NeedsStore == {"rotate", "rekey", "rekey-key", "rekey-key-force"}

\* A failed write goes unnoticed (mutant of Undo).
UndoUnheard(c) ==
    IF job[c].ask = "vault-add" THEN Goto(c, "record") /\ UNCHANGED job ELSE Ends(c)

\* An error ends the command, after the rollback where there is one.
Undo(c) == IF job[c].ask \in KeyAsks THEN Goto(c, "rollback") /\ UNCHANGED job ELSE Ends(c)

\* openStore: no file, or one under another password, is an error.
Load(c) ==
    /\ at[c] = "load"
    /\ disk # Nothing /\ job[c].ask # "create"
    /\ IF disk.password = job[c].reads
         THEN job' = [job EXCEPT ![c].held = disk.contents] /\ Goto(c, "save")
         ELSE Undo(c)
    /\ UNCHANGED <<fileVars, minted, faults, readVars, possible, excuses, ties>>

\* openOrNewStore without a file; embed-init does not look again.
LoadNew(c) ==
    /\ at[c] = "load"
    /\ disk = Nothing \/ job[c].ask = "create"
    /\ IF job[c].ask \in NeedsStore
         THEN Undo(c) /\ UNCHANGED minted
         ELSE /\ \E new \in NewStores(minted + 1) : job' = [job EXCEPT ![c].held = new]
              /\ minted' = minted + 1
              /\ Goto(c, "save")
    /\ UNCHANGED <<fileVars, faults, readVars, possible, excuses, ties>>

\* What a command makes of the store it has read.
Edited(c) ==
    LET held == job[c].held
        new  == minted + 1
    IN CASE job[c].ask = "set"          -> SetSecret(held, new)
         [] job[c].ask = "vault-add"    -> SetNamed(held, job[c].name, new)
         [] job[c].ask = "rotate"       -> RotateSecret(held, new)
         [] job[c].ask = "generate"     -> GenerateKey(held, new)
         [] job[c].ask = "use"          -> UseKey(held)
         [] job[c].ask = "retire"       -> RetireKey(held)
         [] job[c].ask = "remove"       -> RemoveKey(held, FALSE)
         [] job[c].ask = "force-remove" -> RemoveKey(held, TRUE)
         [] job[c].ask = "rotate-keys"  -> RotateKeys(held, new)
         [] OTHER -> {held}

\* fileSignature of the file to come: of its own, or that of an earlier one of its size,
\* written in the same tick of the clock.  Only one that a reader holds makes a difference.
Signatures ==
    {minted + 1} \cup (IF cached = Nothing THEN {} ELSE {cached.signature})
                 \cup (IF lookup.at = "read" THEN {lookup.signature} ELSE {})

(* writeStore, rekeyEmbedStore: the whole file is replaced by what was read *)
(* and edited.  The operator exports the password of embed-rekey; `mt vault *)
(* add` goes on to vault.json.                                              *)
Save(c) ==
    /\ at[c] = "save"
    /\ \E new \in Edited(c), signature \in Signatures :
         /\ disk' = [signature |-> signature, password |-> job[c].seals, contents |-> new]
         /\ ties' = ties \cup ({signature} \ {minted + 1})
    /\ minted' = minted + 1
    /\ exported' = IF job[c].ask = "rekey" THEN job[c].seals ELSE exported
    /\ IF job[c].ask = "vault-add" THEN Goto(c, "record") /\ UNCHANGED job ELSE Ends(c)
    /\ excuses' = IF job[c].ask = "force-remove" THEN excuses \cup {"removed"} ELSE excuses
    /\ possible' = possible \cup {ValueIn(disk'.contents, lookup.name)}
    /\ UNCHANGED <<keyFile, entries, faults, readVars>>

\* The edit is refused, or the file cannot be written.
SaveFails(c) ==
    /\ at[c] = "save"
    /\ \/ Edited(c) = {} /\ UNCHANGED faults
       \/ faults < MaxFaults /\ faults' = faults + 1
    /\ Undo(c)
    /\ UNCHANGED <<fileVars, minted, readVars, possible, excuses, ties>>

-----------------------------------------------------------------------------
(* addCommand, rmCommand: vault.json is read; an entry that exists takes    *)
(* --force.                                                                 *)
Entry(c) ==
    /\ at[c] = "entry"
    /\ IF job[c].ask = "vault-add"
         THEN job' = [job EXCEPT ![c].refs = entries] /\ Goto(c, "peek")
         ELSE IF job[c].name \in entries
         THEN job' = [job EXCEPT ![c].refs = entries] /\ Goto(c, "record")
         ELSE Ends(c)
    /\ UNCHANGED <<fileVars, minted, faults, readVars, possible, excuses, ties>>

(* moveKeysToEmbed: a secret that is there already is the same one, is to   *)
(* be overwritten, or stops the command; one that cannot be read counts as  *)
(* none.                                                                    *)
Peek(c) ==
    LET opens    == disk # Nothing /\ disk.password = Password(exported)
        existing == IF opens THEN OnDisk(job[c].name) ELSE Nothing
    IN /\ at[c] = "peek"
       /\ \/ Goto(c, "locate") /\ UNCHANGED job
          \/ existing # Nothing /\ Goto(c, "record") /\ UNCHANGED job
          \/ existing # Nothing /\ Ends(c)
       /\ UNCHANGED <<fileVars, minted, faults, readVars, possible, excuses, ties>>

\* saveVault: the whole file again.
Record(c) ==
    /\ at[c] = "record"
    /\ \/ /\ entries' = IF job[c].ask = "vault-add" THEN job[c].refs \cup {job[c].name}
                        ELSE job[c].refs \ {job[c].name}
          /\ UNCHANGED faults
       \/ faults < MaxFaults /\ faults' = faults + 1 /\ UNCHANGED entries
    /\ Ends(c)
    /\ UNCHANGED <<disk, keyFile, exported, minted, readVars, possible, excuses, ties>>

-----------------------------------------------------------------------------
\* ensureProjectMasterKey: no key is configured, and no store to lock.
Check(c) ==
    /\ at[c] = "check"
    /\ IF Source(exported) = "default" /\ disk = Nothing
         THEN Goto(c, "writeKey") /\ UNCHANGED job ELSE Ends(c)
    /\ UNCHANGED <<fileVars, minted, faults, readVars, possible, excuses, ties>>

(* generateMasterKeyFile: an existing store takes --rekey or --force; the   *)
(* old key is kept in memory.                                               *)
Flags(c) ==
    /\ at[c] = "flags"
    /\ IF disk # Nothing /\ job[c].ask = "generate-key"
         THEN Ends(c)
         ELSE /\ job' = [job EXCEPT ![c].previous = keyFile[job[c].place]]
              /\ Goto(c, IF disk # Nothing /\ job[c].ask \in {"rekey-key", "rekey-key-force"}
                           THEN "current" ELSE "writeKey")
    /\ UNCHANGED <<fileVars, minted, faults, readVars, possible, excuses, ties>>

\* A password from the environment would keep overriding the file.
Current(c) ==
    /\ at[c] = "current"
    /\ IF Source(exported) = "env"
         THEN Ends(c)
         ELSE /\ job' = [job EXCEPT ![c].reads = Password(exported), ![c].seals = minted + 1]
              /\ Goto(c, "writeKey")
    /\ minted' = minted + 1
    /\ UNCHANGED <<fileVars, faults, readVars, possible, excuses, ties>>

Rekeys(c) == job[c].seals # Default

(* writeMasterKeyFile: a file that exists is replaced with --force only.    *)
(* --force without --rekey gives the store up.                              *)
WriteKey(c) ==
    LET place == job[c].place
        key   == IF Rekeys(c) THEN job[c].seals ELSE minted + 1
    IN /\ at[c] = "writeKey"
       /\ keyFile[place] = Nothing \/ job[c].ask \in {"rekey-key-force", "force-key"}
       /\ keyFile' = [keyFile EXCEPT ![place] = key]
       /\ minted' = minted + 1
       /\ IF Rekeys(c) THEN Goto(c, "verify") /\ UNCHANGED job ELSE Ends(c)
       /\ excuses' = IF job[c].ask = "force-key" THEN excuses \cup {"forced"} ELSE excuses
       /\ UNCHANGED <<disk, exported, entries, faults, readVars, possible, ties>>

\* The file exists, or cannot be written: outside the try, nothing to undo.
WriteKeyFails(c) ==
    /\ at[c] = "writeKey"
    /\ \/ /\ keyFile[job[c].place] # Nothing
          /\ job[c].ask \notin {"rekey-key-force", "force-key"}
          /\ UNCHANGED faults
       \/ faults < MaxFaults /\ faults' = faults + 1
    /\ Ends(c)
    /\ UNCHANGED <<fileVars, minted, readVars, possible, excuses, ties>>

\* A source that takes precedence would hide the new key.
Verify(c) ==
    /\ at[c] = "verify"
    /\ Goto(c, IF Source(exported) = job[c].place THEN "load" ELSE "rollback")
    /\ UNCHANGED <<fileVars, minted, faults, job, readVars, possible, excuses, ties>>

\* The key file stays as it is (mutant of Restored).
RestoredNot(c) == keyFile

Restored(c) == [keyFile EXCEPT ![job[c].place] = job[c].previous]

\* The catch block puts the old file back, or removes the new one.
Rollback(c) ==
    /\ at[c] = "rollback"
    /\ \/ keyFile' = Restored(c) /\ UNCHANGED faults
       \/ faults < MaxFaults /\ faults' = faults + 1 /\ UNCHANGED keyFile
    /\ Ends(c)
    /\ UNCHANGED <<disk, exported, entries, minted, readVars, possible, excuses, ties>>

\* The command's process is killed.
Killed(c) ==
    /\ c \in Busy
    /\ Ends(c)
    /\ excuses' = IF at[c] \in {"verify", "load", "save", "rollback"} /\ job[c].ask \in KeyAsks
                    THEN excuses \cup {"cut"} ELSE excuses
    /\ UNCHANGED <<fileVars, minted, faults, readVars, possible, ties>>

-----------------------------------------------------------------------------
(* getEmbedSecret in a process that runs on, started before the operator    *)
(* exported anything.                                                       *)
Look(n) ==
    /\ lookup.at = "none"
    /\ lookup' = [at |-> "stat", name |-> n, password |-> Password(Nothing), signature |-> 0,
                  answer |-> Nothing]
    /\ possible' = {OnDisk(n)}
    /\ UNCHANGED <<fileVars, minted, faults, at, job, cached, excuses, ties>>

\* The answer, and for one from memory the signature it was memoized under.
Answered(value, signature) ==
    lookup' = [lookup EXCEPT !.at = "none", !.answer = value, !.signature = signature]

\* The signature is that of the password (mutant of Matches).
MatchesPassword == cached # Nothing /\ cached.password = lookup.password

Matches ==
    /\ cached # Nothing
    /\ cached.password = lookup.password
    /\ cached.signature = disk.signature

\* fileSignature: what is memoized under it is used.
Stat ==
    /\ lookup.at = "stat"
    /\ IF disk = Nothing THEN Answered(Nothing, 0)
       ELSE IF Matches THEN Answered(ValueIn(cached.contents, lookup.name), disk.signature)
       ELSE lookup' = [lookup EXCEPT !.at = "read", !.signature = disk.signature]
    /\ UNCHANGED <<fileVars, minted, faults, at, job, cached, possible, excuses, ties>>

\* The file is read, perhaps a newer one; a failed load is not kept.
Read ==
    /\ lookup.at = "read"
    /\ IF disk.password = lookup.password
         THEN /\ cached' = [signature |-> lookup.signature, password |-> lookup.password,
                            contents |-> disk.contents]
              /\ Answered(ValueIn(disk.contents, lookup.name), 0)
         ELSE cached' = Nothing /\ Answered(Nothing, 0)
    /\ UNCHANGED <<fileVars, minted, faults, at, job, possible, excuses, ties>>

-----------------------------------------------------------------------------
StoreStep(c) == Locate(c) \/ Load(c) \/ LoadNew(c) \/ Save(c) \/ SaveFails(c)

VaultStep(c) == Entry(c) \/ Peek(c) \/ Record(c)

KeyStep(c) == Check(c) \/ Flags(c) \/ Current(c) \/ WriteKey(c) \/ WriteKeyFails(c)
              \/ Verify(c) \/ Rollback(c)

Next ==
    \/ \E c \in Commands :
         \/ \E ask \in Does(c) : Start(c, ask)
         \/ StoreStep(c) \/ VaultStep(c) \/ KeyStep(c) \/ Killed(c)
    \/ \E n \in Names : Look(n)
    \/ Stat \/ Read

Spec == Init /\ [][Next]_vars

-----------------------------------------------------------------------------
TypeOK ==
    /\ disk \in Stores \cup {Nothing}
    /\ keyFile \in [Places -> Nat \cup {Nothing}]
    /\ exported \in Nat \cup {Nothing}
    /\ entries \in SUBSET Names
    /\ minted \in Nat
    /\ faults \in 0..MaxFaults
    /\ at \in [Commands -> Waits]
    /\ job \in [Commands -> [ask : Asks, reads : Nat, seals : Nat, held : Contents,
                            place : Places, previous : Nat \cup {Nothing},
                            name : Names \cup {Nothing}, refs : SUBSET Names]]
    /\ cached \in Stores \cup {Nothing}
    /\ lookup \in [at : {"none", "stat", "read"}, name : Names \cup {Nothing},
                   password : Nat, signature : Nat, answer : Nat \cup {Nothing}]
    /\ lookup.at = "read" => disk # Nothing
    /\ possible \subseteq Nat \cup {Nothing}
    /\ excuses \subseteq {"raced", "cut", "forced", "removed"}
    /\ ties \subseteq Nat

(* Whatever commands run into one another, whoever opens the store can open *)
(* every secret in it, unless --force removed its key, and finds exactly    *)
(* one active key to seal the next one with ("Exactly one key is active",   *)
(* docs/guiding/vault.md:178; withKey, removeEmbedKey, rotateEmbedKeys).    *)
KeyringFits ==
    disk # Nothing =>
      /\ \E k \in Kids : Active(disk.contents) = {k}
      /\ "removed" \notin excuses =>
           \A n \in SecretsIn(disk.contents) : Opens(disk.contents, n)

(* An entry of vault.json refers to a secret that is there: addCommand      *)
(* stores the secret first, so no crash or failed write in between leaves   *)
(* a dangling reference, and no later command drops a secret.               *)
RefsResolve ==
    excuses \cap {"raced", "removed"} = {} =>
      \A n \in entries : OnDisk(n) # Nothing

(* When no command is under way the store opens with the master password    *)
(* the next one will resolve: a re-key that fails halfway, or is hidden by  *)
(* a source that takes precedence, leaves file and store as they were       *)
(* (generateMasterKeyFile, "rolled back on failure").                       *)
StaysOpenable ==
    (Busy = {} /\ disk # Nothing /\ excuses \cap {"raced", "cut", "forced"} = {} /\ faults < 2)
      => disk.password = Password(exported)

(* A reference resolves to a value the secret had since the call began, or  *)
(* to an error, however commands replace the store under a process that     *)
(* memoizes it (openStore, fileSignature).  Excepted is an answer from      *)
(* memory under a signature that more than one file has had.                *)
ReadsAreFresh ==
    lookup.signature \notin ties => lookup.answer \in possible \cup {Nothing}
=============================================================================
