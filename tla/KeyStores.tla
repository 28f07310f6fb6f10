------------------------------- MODULE KeyStores -------------------------------
(****************************************************************************)
(* The accounts of the node, which are files on disk and rows of the        *)
(* database (core/store/key_store.go, store.go).  The processes that use    *)
(* them, the node and the commands, do so one at a time (DatabaseLock).     *)
(****************************************************************************)
EXTENDS Naturals, FiniteSets

CONSTANTS
    Accounts,       \* Ethereum accounts, in the order they are made
    PasswordOf,     \* the password that a key is encrypted with
    Password,       \* the password that the node and its API are given
    MaxKeyFaults    \* bound on failed calls and crashes

Encrypted(keys) == {k \in keys : PasswordOf[k] = Password}

VARIABLES
    process,        \* where the process is, "off" if there is none
    disk,           \* the accounts on disk
    db,             \* the accounts in the database
    unlocked,       \* the accounts that are unlocked in memory
    registered,     \* the accounts of the transaction manager
    created,        \* the account that CreateKey has made and not yet stored
    reported,       \* history: the accounts whose creation was reported
    keyFaults

keyVars == <<process, disk, db, unlocked, registered, created, reported, keyFaults>>

KeysInit ==
    /\ process = "off"
    /\ disk = {} /\ db = {} /\ unlocked = {} /\ registered = {}
    /\ created = {} /\ reported = {}
    /\ keyFaults = 0

Fails == keyFaults < MaxKeyFaults /\ keyFaults' = keyFaults + 1

----------------------------------------------------------------------------
(* NewStore, for the node and for each command.                             *)

\* ClobberDiskKeyStoreWithDBKeys removes what is on disk and writes what is in the
\* database.
RemoveKeysDir ==
    /\ process = "off"
    /\ process' = "clobber"
    /\ disk' = {}
    /\ UNCHANGED <<db, unlocked, registered, created, reported, keyFaults>>

WriteKeysDir ==
    /\ process = "clobber"
    /\ process' = "new"
    /\ disk' = db
    /\ UNCHANGED <<db, unlocked, registered, created, reported, keyFaults>>

ProcessEnds ==
    /\ process # "off"
    /\ process' = "off"
    /\ Fails
    /\ unlocked' = {} /\ registered' = {} /\ created' = {}
    /\ UNCHANGED <<disk, db, reported>>

\* The end of a command, or a node that does not start.
Exit ==
    /\ process' = "off"
    /\ unlocked' = {} /\ registered' = {} /\ created' = {}

\* A key of the disk that is not in the database goes there (FirstOrCreateKey); a
\* failure of one is reported when the others are done.
SyncDiskKeyStoreToDB ==
    \/ db' = db \cup disk /\ UNCHANGED keyFaults
    \/ Fails /\ \E k \in disk \ db : db' = db \cup (disk \ {k})

----------------------------------------------------------------------------
(* The node: Authenticate, Start.                                           *)

New(keys, known) == {k \in Encrypted(keys) : k \notin known}

\* Authenticate with the password of the file: if there are accounts it must be the
\* password of them all, if there are none one is made.
Authenticate ==
    /\ process = "new"
    /\ \/ /\ disk # {}
          /\ disk \subseteq Encrypted(disk)
          /\ process' = "start" /\ unlocked' = disk
          /\ UNCHANGED <<disk, registered, created>>
       \/ disk # {} /\ ~(disk \subseteq Encrypted(disk)) /\ Exit /\ UNCHANGED disk
       \/ /\ disk = {}
          /\ \E k \in New(Accounts, reported) : disk' = {k} /\ unlocked' = {k}
          /\ process' = "start"
          /\ UNCHANGED <<registered, created>>
    /\ UNCHANGED <<db, reported, keyFaults>>

\* Store.Start: the accounts are registered, then stored.  If that fails the node
\* ends, when its other parts have been started too.
StartStore ==
    /\ process = "start"
    /\ registered' = disk
    /\ SyncDiskKeyStoreToDB
    /\ process' = IF keyFaults' = keyFaults THEN "running" ELSE "ending"
    /\ UNCHANGED <<disk, unlocked, created, reported>>

\* RunNode returns: the node is stopped, or its start has failed.
StopNode ==
    /\ process \in {"running", "ending"}
    /\ Exit
    /\ UNCHANGED <<disk, db, reported, keyFaults>>

----------------------------------------------------------------------------
(* POST keys: KeysController.Create, which only a node in dev mode routes.  *)

CreateKey ==
    /\ process = "running"
    /\ created = {}
    /\ disk \subseteq Encrypted(disk)
    /\ \E k \in New(Accounts, disk \cup reported) :
        /\ disk' = disk \cup {k}
        /\ created' = {k}
        /\ unlocked' = disk'
    /\ UNCHANGED <<process, db, registered, reported, keyFaults>>

\* Mutant: the answer does not depend on the error of the database.
StoreKey_ErrorIgnored ==
    /\ created # {}
    /\ SyncDiskKeyStoreToDB
    /\ reported' = reported \cup created
    /\ created' = {}
    /\ UNCHANGED <<process, disk, unlocked, registered>>

StoreKey ==
    /\ created # {}
    /\ SyncDiskKeyStoreToDB
    /\ reported' = IF keyFaults' = keyFaults THEN reported \cup created ELSE reported
    /\ created' = {}
    /\ UNCHANGED <<process, disk, unlocked, registered>>

----------------------------------------------------------------------------
(* The command that imports an account.                                     *)

ImportKey ==
    /\ process = "new"
    /\ \E k \in Accounts \ disk :
        /\ disk' = disk \cup {k}
        /\ \/ db' = db \cup disk' /\ reported' = reported \cup {k} /\ UNCHANGED keyFaults
           \/ Fails /\ UNCHANGED <<db, reported>>
    /\ Exit

----------------------------------------------------------------------------

KeysNext ==
    \/ RemoveKeysDir \/ WriteKeysDir \/ ProcessEnds
    \/ Authenticate \/ StartStore \/ StopNode
    \/ CreateKey \/ StoreKey \/ ImportKey

KeysSpec == KeysInit /\ [][KeysNext]_keyVars

----------------------------------------------------------------------------
(* Properties.                                                              *)

\* An account whose creation or import was reported is kept by whatever processes and
\* crashes follow: each new process removes the files that the database does not know.
\* So a key is reported only when it is there.
ReportedKeyIsKept == reported \subseteq db

\* key_store.go, store.go: the accounts that transactions are made from are in the
\* database, which survives the disk.  Not so while a node ends whose Start has failed
\* to store them: its other parts have been started all the same.
UsedKeyIsStored == process \in {"running", "ending"} => registered \subseteq db
=============================================================================
