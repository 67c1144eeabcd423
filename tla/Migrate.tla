------------------------------ MODULE Migrate ------------------------------
(***************************************************************************)
(* The start of a server (main.go) and the migrations it applies (db.go).  *)
(* During a deploy an old and a new one start on one database; either may  *)
(* crash, and a server that cannot migrate exits and is started again.     *)
(***************************************************************************)
EXTENDS Naturals, Sequences

CONSTANTS
    Servers,
    Knows,       \* per server the highest version in its binary
    MaxStarts    \* bound on the starts of each

ASSUME MigrateAssumption == Knows \in [Servers -> Nat] /\ MaxStarts \in Nat

Versions == 1 .. 3

VARIABLES
    schema,     \* versions whose bodies were committed, in that order (history)
    recorded,   \* schema_migrations
    server      \* per server where its start is

migrateVars == <<schema, recorded, server>>

\* at: the version it works on; applied: what it read of schema_migrations.
Server ==
    [step : {"down", "apply", "record", "commit", "serves"},
     at : Nat, applied : SUBSET Versions, starts : 0 .. MaxStarts]

ASSUME KnowsVersions == \A s \in Servers : Knows[s] \in Versions

MigrateTypeOK ==
    /\ schema \in Seq(Versions)
    /\ recorded \subseteq Versions
    /\ server \in [Servers -> Server]

MigrateInit ==
    /\ schema = << >>
    /\ recorded = {}
    /\ server = [s \in Servers |-> [step |-> "down", at |-> 1, applied |-> {}, starts |-> 0]]

\* Migrate reads what is applied once, before the first transaction.
StartServer(s) ==
    /\ server[s].step = "down"
    /\ server[s].starts < MaxStarts
    /\ server' = [server EXCEPT ![s] = [step |-> "apply", at |-> 1, applied |-> recorded, starts |-> @.starts + 1]]
    /\ UNCHANGED <<schema, recorded>>

\* The next version, or the end: the server listens.
Onward(s) ==
    /\ server[s].step = "apply"
    /\ server[s].at \in server[s].applied \/ server[s].at > Knows[s]
    /\ IF server[s].at > Knows[s]
       THEN server' = [server EXCEPT ![s].step = "serves"]
       ELSE server' = [server EXCEPT ![s].at = @ + 1]
    /\ UNCHANGED <<schema, recorded>>

\* BEGIN and the body of the file.  A body that alters a table waits for another
\* server that is altering it, and fails on what that one left; one that moves
\* data or says IF NOT EXISTS goes through again.
ApplyBody(s) ==
    /\ server[s].step = "apply"
    /\ server[s].at \notin server[s].applied /\ server[s].at <= Knows[s]
    /\ server' = [server EXCEPT ![s].step = "record"]
    /\ UNCHANGED <<schema, recorded>>

\* Mutant of Recordable: the number is not a primary key.
RecordableAgain(s) == TRUE

\* The INSERT waits for a transaction that inserted the same number, and fails if
\* that one committed.
Recordable(s) ==
    /\ server[s].at \notin recorded
    /\ \A t \in Servers \ {s} : ~(server[t].step = "commit" /\ server[t].at = server[s].at)

Record(s) ==
    /\ server[s].step = "record"
    /\ Recordable(s)
    /\ server' = [server EXCEPT ![s].step = "commit"]
    /\ UNCHANGED <<schema, recorded>>

CommitMigration(s) ==
    /\ server[s].step = "commit"
    /\ schema' = Append(schema, server[s].at)
    /\ recorded' = recorded \cup {server[s].at}
    /\ \/ server' = [server EXCEPT ![s].step = "apply", ![s].at = @ + 1]
       \/ server' = [server EXCEPT ![s].step = "down"]     \* its answer was lost

\* A statement fails (the body, the number that is taken), or the server crashes or
\* is stopped: a transaction in progress rolls back.
StopServer(s) ==
    /\ server[s].step # "down"
    /\ server' = [server EXCEPT ![s].step = "down"]
    /\ UNCHANGED <<schema, recorded>>

MigrateNext ==
    \E s \in Servers :
        \/ StartServer(s) \/ Onward(s) \/ ApplyBody(s) \/ Record(s)
        \/ CommitMigration(s) \/ StopServer(s)

MigrateSpec == MigrateInit /\ [][MigrateNext]_migrateVars

\* db.go:34 "Idempotent": however many servers start at once, crash and start again,
\* the migrations are applied once each and in their order, and a server listens
\* only on a database that has all of its own.
MigratedOnce ==
    /\ \A i \in 1 .. Len(schema) : schema[i] = i
    /\ \A s \in Servers : server[s].step = "serves" => 1 .. Knows[s] \subseteq recorded
=============================================================================
