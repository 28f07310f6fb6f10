------------------------------ MODULE VRFKeyStore ------------------------------
(****************************************************************************)
(* The keys that prove randomness: encrypted rows of the database, secrets  *)
(* in the memory of a process that has unlocked them, and files that the    *)
(* commands write and read (core/store/vrf_key_store.go,                    *)
(* vrf_key_store_db.go, models/vrfkey, core/cmd/local_client_vrf.go).  One  *)
(* process at a time has the database (DatabaseLock): the node, or one that *)
(* calls the operations of the key store as the commands do.                *)
(****************************************************************************)
EXTENDS Naturals

CONSTANTS
    VRFSecrets,         \* secret keys; a public key is that of one of them
    Phrases,            \* passwords
    Paths,              \* files
    MaxVRFFaults        \* bound on failed calls, crashes and files thrown away

VARIABLES
    vrfProcess,         \* "off", "commands", "node" or "asleep", a node without VRF
    vrfRows,            \* the table: an encrypted key for each public key
    vrfMemory,          \* the keys unlocked: a secret for each public key
    keyFiles,           \* an encrypted key for each file there is
    backedUp,           \* history: the public keys exported and not thrown away
    vrfFaults

vrfKeyVars == <<vrfProcess, vrfRows, vrfMemory, keyFiles, backedUp, vrfFaults>>

NoKeys == [k \in {} |-> 0]
With(f, k, v) == [x \in DOMAIN f \cup {k} |-> IF x = k THEN v ELSE f[x]]
Without(f, k) == [x \in DOMAIN f \ {k} |-> f[x]]

VRFFails == vrfFaults < MaxVRFFaults /\ vrfFaults' = vrfFaults + 1

----------------------------------------------------------------------------
(* The secret and its encryption.                                           *)

\* The public key is computed from the secret, again whenever one is decrypted.
publicKey(k) == <<"public key of", k>>

newPrivateKey(k) == [k |-> k, PublicKey |-> publicKey(k)]
fromGethKey(gethKey) == newPrivateKey(gethKey)

Encrypt(key, auth) == [PublicKey |-> key.PublicKey, VRFKey |-> [k |-> key.k, auth |-> auth]]

CanDecrypt(e, auth) == e.VRFKey.auth = auth
Decrypt(e) == fromGethKey(e.VRFKey.k)

----------------------------------------------------------------------------
(* The store, of any process.                                               *)

get(k) == {vrfRows[x] : x \in DOMAIN vrfRows \cap {k}}

\* The row of a key that is there is left as it is.
FirstOrCreateEncryptedSecretVRFKey(e) ==
    vrfRows' = IF e.PublicKey \in DOMAIN vrfRows THEN vrfRows ELSE With(vrfRows, e.PublicKey, e)

Remember(key) == vrfMemory' = With(vrfMemory, key.PublicKey, key.k)

\* The database first, then the memory.
Store(key, phrase) ==
    \/ /\ FirstOrCreateEncryptedSecretVRFKey(Encrypt(key, phrase))
       /\ Remember(key)
       /\ UNCHANGED vrfFaults
    \/ VRFFails /\ UNCHANGED <<vrfRows, vrfMemory>>

\* CreateKey's secret is a new one.
Fresh == {k \in VRFSecrets : /\ publicKey(k) \notin DOMAIN vrfRows \cup DOMAIN vrfMemory \cup backedUp
                          /\ \A p \in DOMAIN keyFiles : keyFiles[p].VRFKey.k # k}

\* Mutant: the memory is cleared when the database has been.
Delete_DatabaseFirst(k) ==
    /\ k \in DOMAIN vrfRows
    /\ vrfRows' = Without(vrfRows, k)
    /\ \/ vrfMemory' = Without(vrfMemory, k) /\ UNCHANGED vrfFaults
       \/ VRFFails /\ UNCHANGED vrfMemory

\* The memory first, then the database.
Delete(k) ==
    /\ vrfMemory' = Without(vrfMemory, k)
    /\ \/ vrfRows' = Without(vrfRows, k) /\ UNCHANGED vrfFaults
       \/ VRFFails /\ UNCHANGED vrfRows

\* A key that the database has is refused.  A wrong password ends the process: the
\* message about it reads the key that there is none of.
Import(e, auth) ==
    \/ get(e.PublicKey) # {} /\ UNCHANGED <<vrfProcess, vrfRows, vrfMemory, vrfFaults>>
    \/ /\ get(e.PublicKey) = {} /\ CanDecrypt(e, auth)
       /\ \/ /\ FirstOrCreateEncryptedSecretVRFKey(e)
             /\ Remember(Decrypt(e))
             /\ UNCHANGED vrfFaults
          \/ VRFFails /\ UNCHANGED <<vrfRows, vrfMemory>>
       /\ UNCHANGED vrfProcess
    \/ /\ get(e.PublicKey) = {} /\ ~CanDecrypt(e, auth)
       /\ vrfProcess' = "off" /\ vrfMemory' = NoKeys
       /\ UNCHANGED <<vrfRows, vrfFaults>>

\* The keys that a password unlocks; an error says that there are others.
Unlocked(phrase) == {k \in DOMAIN vrfRows : CanDecrypt(vrfRows[k], phrase)}

CanProve(k) == k \in DOMAIN vrfMemory

----------------------------------------------------------------------------
(* The processes.                                                           *)

StartCommands ==
    /\ vrfProcess = "off"
    /\ vrfProcess' = "commands"
    /\ UNCHANGED <<vrfRows, vrfMemory, keyFiles, backedUp, vrfFaults>>

\* RunNode without the file of a password for these keys: it proves nothing.
StartNodeWithoutVRF ==
    /\ vrfProcess = "off"
    /\ vrfProcess' = "asleep"
    /\ UNCHANGED <<vrfRows, vrfMemory, keyFiles, backedUp, vrfFaults>>

\* Mutant: one key unlocked is enough.
AuthenticateVRFKey_AtLeastOne ==
    /\ vrfProcess = "off"
    /\ \E phrase \in Phrases :
        IF DOMAIN vrfRows = {}
        THEN \E k \in Fresh : Store(newPrivateKey(k), phrase)
        ELSE /\ vrfMemory' = [k \in Unlocked(phrase) |-> Decrypt(vrfRows[k]).k]
             /\ UNCHANGED <<vrfRows, vrfFaults>>
    /\ vrfProcess' = IF DOMAIN vrfMemory' # {} THEN "node" ELSE "off"
    /\ UNCHANGED <<keyFiles, backedUp>>

\* RunNode with one: a first key is made if there is none, and unless the password
\* unlocks every key the node ends.
AuthenticateVRFKey ==
    /\ vrfProcess = "off"
    /\ \E phrase \in Phrases :
        \/ /\ DOMAIN vrfRows = {}
           /\ \E k \in Fresh : Store(newPrivateKey(k), phrase)
        \/ /\ DOMAIN vrfRows # {} /\ Unlocked(phrase) = DOMAIN vrfRows
           /\ vrfMemory' = [k \in Unlocked(phrase) |-> Decrypt(vrfRows[k]).k]
           /\ UNCHANGED <<vrfRows, vrfFaults>>
    /\ vrfProcess' = IF vrfFaults' = vrfFaults THEN "node" ELSE "off"
    /\ UNCHANGED <<keyFiles, backedUp>>

StopProcess ==
    /\ vrfProcess # "off"
    /\ vrfProcess' = "off"
    /\ vrfMemory' = NoKeys
    /\ UNCHANGED <<vrfRows, keyFiles, backedUp, vrfFaults>>

\* Somebody removes a file, and with it the wish to have its key.
RemoveKeyFile ==
    /\ VRFFails
    /\ \E p \in DOMAIN keyFiles :
        /\ keyFiles' = Without(keyFiles, p)
        /\ backedUp' = backedUp \ {keyFiles[p].PublicKey}
    /\ UNCHANGED <<vrfProcess, vrfRows, vrfMemory>>

----------------------------------------------------------------------------
(* The commands.                                                            *)

CreateVRFKey ==
    /\ vrfProcess = "commands"
    /\ \E k \in Fresh, password \in Phrases : Store(newPrivateKey(k), password)
    /\ UNCHANGED <<vrfProcess, keyFiles, backedUp>>

noFileToOverwrite(path) == path \notin DOMAIN keyFiles

\* A key for tests, which is only a file.
CreateAndExportWeakVRFKey ==
    /\ vrfProcess = "commands"
    /\ \E k \in Fresh, password \in Phrases, path \in {p \in Paths : noFileToOverwrite(p)} :
        /\ keyFiles' = With(keyFiles, path, Encrypt(newPrivateKey(k), password))
        /\ backedUp' = backedUp \cup {publicKey(k)}
    /\ UNCHANGED <<vrfProcess, vrfRows, vrfMemory, vrfFaults>>

\* Mutant: the file is written over.
ExportVRFKey_Overwrites ==
    /\ vrfProcess = "commands"
    /\ \E k \in DOMAIN vrfRows, path \in Paths :
        /\ keyFiles' = With(keyFiles, path, vrfRows[k])
        /\ backedUp' = backedUp \cup {k}
    /\ UNCHANGED <<vrfProcess, vrfRows, vrfMemory, vrfFaults>>

ExportVRFKey ==
    /\ vrfProcess = "commands"
    /\ \E k \in DOMAIN vrfRows, path \in {p \in Paths : noFileToOverwrite(p)} :
        /\ keyFiles' = With(keyFiles, path, vrfRows[k])
        /\ backedUp' = backedUp \cup {k}
    /\ UNCHANGED <<vrfProcess, vrfRows, vrfMemory, vrfFaults>>

ImportVRFKey ==
    /\ vrfProcess = "commands"
    /\ \E path \in DOMAIN keyFiles, password \in Phrases : Import(keyFiles[path], password)
    /\ UNCHANGED <<keyFiles, backedUp>>

DeleteVRFKey ==
    /\ vrfProcess = "commands"
    /\ \E k \in DOMAIN vrfRows : Delete(k)
    /\ UNCHANGED <<vrfProcess, keyFiles, backedUp>>

----------------------------------------------------------------------------

VRFKeysInit ==
    /\ vrfProcess = "off"
    /\ vrfRows = NoKeys /\ vrfMemory = NoKeys /\ keyFiles = NoKeys
    /\ backedUp = {}
    /\ vrfFaults = 0

VRFKeysNext ==
    \/ StartCommands \/ StartNodeWithoutVRF \/ AuthenticateVRFKey \/ StopProcess
    \/ CreateVRFKey \/ CreateAndExportWeakVRFKey \/ ExportVRFKey
    \/ ImportVRFKey \/ DeleteVRFKey \/ RemoveKeyFile

VRFKeysSpec == VRFKeysInit /\ [][VRFKeysNext]_vrfKeyVars

----------------------------------------------------------------------------
(* Properties.                                                              *)

\* Delete, Store: a key that proves randomness is one that the database has, whatever
\* fails half way: a deleted key answers no request.
ProvingKeyIsStored == \A k \in DOMAIN vrfMemory : CanProve(k) => k \in DOMAIN vrfRows

\* RunNode: a node that has been given a password for these keys proves with every key of
\* the database, by whatever commands they came there.
NodeProvesWithAll == vrfProcess = "node" => \A k \in DOMAIN vrfRows : CanProve(k)

\* The advice of ImportVRFKey, to back a key up before it is deleted, is good: a key that
\* was exported is still in the database or in a file, whatever was exported since.
ExportedKeyIsKept ==
    \A k \in backedUp :
        k \in DOMAIN vrfRows \/ \E p \in DOMAIN keyFiles : keyFiles[p].PublicKey = k
=============================================================================
