------------------------------ MODULE DatabaseLock ------------------------------
(****************************************************************************)
(* The advisory lock of the database (core/store/orm/locking_strategies.go) *)
(* and the processes that share it: nodes, from NewORM and the migrations   *)
(* to Start and Stop of the application, and the local commands.            *)
(*                                                                          *)
(* Postgres is external: the lock belongs to a connection, and ends with    *)
(* it.  Every function of the ORM takes the lock again before it does its   *)
(* work.  MustEnsureAdvisoryLock that fails logs the error and closes the   *)
(* channel of gracefulpanic, which a started application listens to; the    *)
(* function goes on.                                                        *)
(****************************************************************************)
EXTENDS Naturals

CONSTANTS
    Processes,
    Nodes,          \* the processes that run a node; the others rebroadcast transactions
    Migrations,     \* the number of migrations that a process knows
    Times,          \* does the lock time out (DATABASE_TIMEOUT, 500ms by default)
    MaxLosses       \* bound on the lost connections

Nobody == "nobody"

ASSUME VersionsAssumption == Nobody \notin Processes /\ Migrations \in [Processes -> Nat]

VARIABLES
    holder,         \* the process whose connection has the lock
    connection,     \* s.conn of each process
    lockStep,       \* where each process is
    panicked,       \* the processes whose gracefulpanic channel is closed
    started,        \* the nodes whose application has been started
    schema,         \* the number of migrations in the database
    losses,
    breached        \* history: a process has gone on without the lock

lockVars == <<holder, connection, lockStep, panicked, started, schema, losses, breached>>

LockInit ==
    /\ holder = Nobody
    /\ connection = [p \in Processes |-> "none"]
    /\ lockStep = [p \in Processes |-> "off"]
    /\ panicked = {} /\ started = {}
    /\ schema = 0
    /\ losses = 0 /\ breached = FALSE

Goes(p, step) == lockStep' = [lockStep EXCEPT ![p] = step]

----------------------------------------------------------------------------
(* MustEnsureAdvisoryLock.                                                  *)

\* The connection is made once, and has the lock as often as it asks for it.
Acquires(p) ==
    /\ connection[p] # "lost"
    /\ holder \in {Nobody, p}
    /\ holder' = p
    /\ connection' = [connection EXCEPT ![p] = "open"]
    /\ UNCHANGED <<panicked, breached>>

\* The wait for the lock may time out, which may cost the connection.
FailsToLock(p) ==
    /\ \/ connection[p] = "lost" /\ UNCHANGED connection
       \/ /\ Times
          /\ connection[p] # "lost"
          /\ holder \notin {Nobody, p}
          /\ \E c \in {"open", "lost"} : connection' = [connection EXCEPT ![p] = c]
    /\ panicked' = panicked \cup {p}
    /\ breached' = TRUE
    /\ UNCHANGED holder

\* Mutant: the answer of the lock is not waited for.
MustEnsureAdvisoryLock_Tries(p, step) ==
    /\ \/ Acquires(p) \/ FailsToLock(p)
       \/ holder \notin {Nobody, p} /\ UNCHANGED <<holder, connection, panicked, breached>>
    /\ Goes(p, step)

MustEnsureAdvisoryLock(p, step) ==
    /\ Acquires(p) \/ FailsToLock(p)
    /\ Goes(p, step)

Disconnect(p) ==
    /\ connection[p] = "open"
    /\ losses < MaxLosses
    /\ losses' = losses + 1
    /\ breached' = TRUE
    /\ connection' = [connection EXCEPT ![p] = "lost"]
    /\ holder' = IF holder = p THEN Nobody ELSE holder
    /\ UNCHANGED <<lockStep, panicked, started, schema>>

\* The end of a process, by Close or not, ends its connection.
Ends(p) ==
    /\ lockStep[p] # "off"
    /\ Goes(p, "off")
    /\ holder' = IF holder = p THEN Nobody ELSE holder
    /\ connection' = [connection EXCEPT ![p] = "none"]
    /\ panicked' = panicked \ {p}
    /\ started' = started \ {p}
    /\ UNCHANGED breached

----------------------------------------------------------------------------
(* NewStore: NewORM and Migrate.                                            *)

Launch(p) ==
    /\ lockStep[p] = "off"
    /\ Goes(p, "lock")
    /\ UNCHANGED <<holder, connection, panicked, started, schema, losses, breached>>

NewORM(p) ==
    /\ lockStep[p] = "lock"
    /\ MustEnsureAdvisoryLock(p, "raw")
    /\ UNCHANGED <<started, schema, losses>>

RawDB(p) ==
    /\ lockStep[p] = "raw"
    /\ MustEnsureAdvisoryLock(p, "count")
    /\ UNCHANGED <<started, schema, losses>>

\* Mutant: a database that is newer than the program is taken.
CountMigrations_Unchecked(p) ==
    /\ lockStep[p] = "count"
    /\ Goes(p, "migrate")
    /\ UNCHANGED <<holder, connection, panicked, started, schema, losses, breached>>

CountMigrations(p) ==
    /\ lockStep[p] = "count"
    /\ \/ /\ schema <= Migrations[p]
          /\ Goes(p, "migrate")
          /\ UNCHANGED <<holder, connection, panicked, started, breached>>
       \/ schema > Migrations[p] /\ Ends(p)
    /\ UNCHANGED <<schema, losses>>

\* One transaction with the migrations that the database does not have.
MigrateTo(p) ==
    /\ lockStep[p] = "migrate"
    /\ schema' = IF schema < Migrations[p] THEN Migrations[p] ELSE schema
    /\ Goes(p, "ready")
    /\ UNCHANGED <<holder, connection, panicked, started, losses, breached>>

----------------------------------------------------------------------------
(* The functions of the ORM, and Start and Stop.                            *)

CallORM(p) ==
    /\ lockStep[p] = "ready"
    /\ Goes(p, "call")
    /\ UNCHANGED <<holder, connection, panicked, started, schema, losses, breached>>

EnsureLock(p) ==
    /\ lockStep[p] = "call"
    /\ MustEnsureAdvisoryLock(p, "access")
    /\ UNCHANGED <<started, schema, losses>>

Access(p) ==
    /\ lockStep[p] = "access"
    /\ Goes(p, "ready")
    /\ UNCHANGED <<holder, connection, panicked, started, schema, losses, breached>>

\* ChainlinkApplication.Start begins to listen to signals and to gracefulpanic.
StartNode(p) ==
    /\ p \in Nodes \ started
    /\ lockStep[p] = "ready"
    /\ started' = started \cup {p}
    /\ UNCHANGED <<holder, connection, lockStep, panicked, schema, losses, breached>>

\* Mutant: only a signal is listened to.
PanicStops_Deaf(p) == FALSE /\ Ends(p) /\ UNCHANGED <<schema, losses>>

\* The parts are stopped and the store is closed, whatever another goroutine does.
PanicStops(p) ==
    /\ p \in started \cap panicked
    /\ Ends(p)
    /\ UNCHANGED <<schema, losses>>

\* A signal, the end of a command, a crash.
ProcessExits(p) ==
    /\ Ends(p)
    /\ UNCHANGED <<schema, losses>>

----------------------------------------------------------------------------

LockNext ==
    \E p \in Processes :
        \/ Launch(p) \/ NewORM(p) \/ RawDB(p) \/ CountMigrations(p) \/ MigrateTo(p)
        \/ CallORM(p) \/ EnsureLock(p) \/ Access(p)
        \/ StartNode(p) \/ PanicStops(p) \/ ProcessExits(p) \/ Disconnect(p)

LockSpec == LockInit /\ [][LockNext]_lockVars

----------------------------------------------------------------------------
(* Properties.                                                              *)

Inside(p) == lockStep[p] \in {"count", "migrate", "access"}

\* Two processes are in the database at once only if one of them has been told that it
\* does not have the lock, or has lost its connection.
ToldOrAlone ==
    \A p, q \in Processes :
        p # q /\ Inside(p) /\ Inside(q) =>
            \E r \in {p, q} : r \in panicked \/ connection[r] = "lost"

\* A process works with a database whose migrations it knows, unless one of the
\* processes has gone on without the lock: an older node does not start after a newer.
SchemaIsKnown ==
    \A p \in Processes :
        lockStep[p] \in {"ready", "call", "access"} => schema <= Migrations[p] \/ breached

\* Nobody is in the database beside another, or an older node after a newer one, unless
\* one of them has been told.
DatabaseIsGuarded == ToldOrAlone /\ SchemaIsKnown

\* A node that is started and does not have the lock stops.
NodeWithoutLockStops == \A p \in Nodes : p \in started \cap panicked ~> p \notin started

\* local_client.go:169: a rebroadcast "MUST NOT be run concurrently with the node.
\* Currently the advisory lock in FindAllTxsInNonceRange prevents this."
RebroadcastAlone ==
    \A p \in Processes \ Nodes : lockStep[p] = "access" => \A n \in Nodes : n \notin started \/ holder # n
=============================================================================
