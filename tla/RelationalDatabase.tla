-------------------------- MODULE RelationalDatabase --------------------------
(***************************************************************************)
(* The database client, statement by statement, on one MySQL or PostgreSQL *)
(* server.  The calls of several reconciles share one pool of sessions     *)
(* (database/sql): each statement takes an idle session or a new one, and  *)
(* a session that said USE dbaas_controller is the only kind on which      *)
(* MySQL finds the table "users".                                          *)
(*                                                                         *)
(* Calls of the request controller about one name do not overlap, nor do   *)
(* calls of the provider controller.  The login with a seed has a pool of  *)
(* its own and changes nothing.                                            *)
(***************************************************************************)
EXTENDS Naturals, Sequences, SequencesExt

CONSTANTS
    Names,          \* the names (with namespace) of requests
    Workers,        \* goroutines that call the client
    Sessions,       \* the sessions the pool may have open
    Draws,          \* what createUserInfo may draw: [user, dbname]
    Seeds,          \* what users bring in seed secrets
    None,
    MaxFaults,      \* bound on statements that fail and sessions that are lost
    MaxCalls        \* bound on calls

Infos == Draws \cup Seeds

\* A password is that of its user.  Random names do not meet those of seeds: 16 and
\* more random characters.
ASSUME InfosAssumption ==
    /\ \A i \in Infos : i = [user |-> i.user, dbname |-> i.dbname]
    /\ \A d \in Draws, s \in Seeds : d.user /= s.user /\ d.dbname /= s.dbname

ASSUME BoundsAssumption == MaxFaults \in Nat /\ MaxCalls \in Nat

\* Idle sessions database/sql keeps (its default): the client sets no other.
MaxIdle == 2

VARIABLES
    server,         \* the state of the database server, with its type
    free,           \* the idle sessions of the pool, the last one used last
    selected,       \* sessions that said USE dbaas_controller
    call,           \* what each worker is about: [op, name] or None
    todo,           \* the statements its call has left
    info,           \* what it read, inserted or was given to insert
    session,        \* the session its statement runs on, or None
    faults, calls

vars == <<server, free, selected, call, todo, info, session, faults, calls>>

\* The statements of CreateDatabase and DropDatabase; "select" is followed by
\* "insert" when there is no row, "selectRole" by "createUser" when no role.
MutantMySQLCreate == <<"use", "select", "createDatabase", "createUser", "flush">>
MySQLCreate == <<"use", "select", "createDatabase", "createUser", "grant", "flush">>

MySQLDrop == <<"use", "select", "dropDatabase", "dropUser", "flush">>

PostgreSQLCreate == <<"select", "selectRole", "grantRole", "createDatabase">>

MutantPostgreSQLDrop == <<"select", "terminate", "dropDatabase">>
PostgreSQLDrop == <<"select", "terminate", "dropDatabase", "dropUser">>

\* Those of GetDatabaseInfo and SetDatabaseInfo.
MySQLGet == <<"use", "select">>
MySQLSet == <<"use", "insertIgnore">>
PostgreSQLGet == <<"select">>
PostgreSQLSet == <<"insertIgnore">>

\* Initialize of the provider controller; its Ping, Version and Load are queries.
MySQLInitialize == <<"createSchema", "use", "createTable">>
PostgreSQLInitialize == <<"createSchema", "createTable">>

MySQL == [
    initialize |-> MySQLInitialize, query |-> <<"query">>,
    create |-> MySQLCreate, drop |-> MySQLDrop, get |-> MySQLGet, set |-> MySQLSet]

PostgreSQL == [
    initialize |-> PostgreSQLInitialize, query |-> <<"query">>,
    create |-> PostgreSQLCreate, drop |-> PostgreSQLDrop,
    get |-> PostgreSQLGet, set |-> PostgreSQLSet]

Program == [mysql |-> MySQL, postgres |-> PostgreSQL]

Server == [
    type      : {"mysql", "postgres"},
    schema    : BOOLEAN,
    table     : BOOLEAN,
    rows      : [Names -> Infos \cup {None}],
    databases : SUBSET {i.dbname : i \in Infos},
    accounts  : SUBSET {i.user : i \in Infos},
    grants    : SUBSET {<<i.user, i.dbname>> : i \in Infos}]

Named == {"create", "drop", "get", "set"}
Provider == {"initialize", "query"}
Calls == [op : Named, name : Names] \cup [op : Provider, name : {None}]

ASSUME NoneAssumption == None \notin Infos \cup Names \cup Sessions \cup Calls

TypeOK ==
    /\ server \in Server
    /\ \A c \in ToSet(free) : c \in Sessions
    /\ selected \subseteq Sessions
    /\ call \in [Workers -> Calls \cup {None}]
    /\ \A w \in Workers :
        ToSet(todo[w]) \subseteq
            (UNION {ToSet(Program[server.type][op]) : op \in Named \cup Provider})
                \cup {"insert", "createUser"}
    /\ info \in [Workers -> Infos \cup {None}]
    /\ session \in [Workers -> Sessions \cup {None}]
    /\ faults \in 0 .. MaxFaults
    /\ calls \in 0 .. MaxCalls

Init ==
    /\ server \in [
        type      : {"mysql", "postgres"},
        schema    : {FALSE},
        table     : {FALSE},
        rows      : {[k \in Names |-> None]},
        databases : {{i.dbname : i \in Seeds}},
        accounts  : {{i.user : i \in Seeds}},
        grants    : {{<<i.user, i.dbname>> : i \in Seeds}}]
    /\ free = <<>>
    /\ selected = {}
    /\ call = [w \in Workers |-> None]
    /\ todo = [w \in Workers |-> <<>>]
    /\ info = [w \in Workers |-> None]
    /\ session = [w \in Workers |-> None]
    /\ faults = 0
    /\ calls = 0

-----------------------------------------------------------------------------
(* Calls and sessions.                                                     *)

Fault == faults < MaxFaults /\ faults' = faults + 1

Overlaps(c, d) ==
    IF c.op \in Named THEN d.name = c.name ELSE c.op = "initialize" /\ d.op = "initialize"

\* A reconcile calls the client; Set is given the credentials of a seed.
Begin(w, c, i) ==
    /\ call[w] = None
    /\ calls < MaxCalls
    /\ \A v \in Workers : call[v] /= None => ~Overlaps(c, call[v])
    /\ i \in IF c.op = "set" THEN Seeds ELSE {None}
    /\ call' = [call EXCEPT ![w] = c]
    /\ todo' = [todo EXCEPT ![w] = Program[server.type][c.op]]
    /\ info' = [info EXCEPT ![w] = i]
    /\ calls' = calls + 1
    /\ UNCHANGED <<server, free, selected, session, faults>>

Over(w) ==
    /\ call' = [call EXCEPT ![w] = None]
    /\ todo' = [todo EXCEPT ![w] = <<>>]
    /\ info' = [info EXCEPT ![w] = None]

Return(w) ==
    /\ call[w] /= None
    /\ todo[w] = <<>>
    /\ Over(w)
    /\ UNCHANGED <<server, free, selected, session, faults, calls>>

InUse == ToSet(free) \cup {session[w] : w \in Workers}

\* The next statement takes the session used last, or opens one.
Take(w) ==
    /\ todo[w] /= <<>>
    /\ session[w] = None
    /\ \/ /\ free /= <<>>
          /\ session' = [session EXCEPT ![w] = Last(free)]
          /\ free' = Front(free)
          /\ UNCHANGED selected
       \/ /\ free = <<>>
          /\ \E c \in Sessions \ InUse :
                /\ session' = [session EXCEPT ![w] = c]
                /\ selected' = selected \ {c}
          /\ UNCHANGED free
    /\ UNCHANGED <<server, call, todo, info, faults, calls>>

\* The session goes back to the pool, or is closed when enough are idle.
Release(w) ==
    /\ session' = [session EXCEPT ![w] = None]
    /\ free' = IF Len(free) < MaxIdle THEN Append(free, session[w]) ELSE free

\* An idle session is lost: the server, or a timeout, closes it.
Expire ==
    /\ Fault
    /\ \E n \in DOMAIN free : free' = RemoveAt(free, n)
    /\ UNCHANGED <<server, selected, call, todo, info, session, calls>>

-----------------------------------------------------------------------------
(* Statements.                                                             *)

Holds(w, statement) ==
    /\ session[w] /= None
    /\ Head(todo[w]) = statement

Proceed(w) == todo' = [todo EXCEPT ![w] = Tail(@)]

\* The statement runs and the call goes on as "rest" says; or it fails, before
\* or after it took effect, and the call with it.
Executed(w, statement, new, rest) ==
    /\ Holds(w, statement)
    /\ Release(w)
    /\ \/ server' = new /\ rest /\ UNCHANGED <<call, faults>>
       \/ server' \in {server, new} /\ Fault /\ Over(w)
    /\ UNCHANGED calls

\* The server refuses the statement.
Refused(w, statement) ==
    /\ Holds(w, statement)
    /\ Release(w)
    /\ Over(w)
    /\ UNCHANGED <<server, selected, faults, calls>>

Plain(w, statement, new) ==
    Executed(w, statement, new, Proceed(w) /\ UNCHANGED info) /\ UNCHANGED selected

Use(w) ==
    \/ /\ server.schema
       /\ Executed(w, "use", server, Proceed(w) /\ UNCHANGED info)
       /\ selected' = selected \cup {session[w]}
    \/ ~server.schema /\ Refused(w, "use")

\* MySQL finds "users" only in the selected database.
TableFound(w) == server.table /\ (server.type = "mysql" => session[w] \in selected)

\* The row of the name, or an INSERT of what createUserInfo draws.
Select(w) ==
    LET row == server.rows[call[w].name]
    IN  \/ /\ Holds(w, "select")
           /\ TableFound(w)
           /\ Executed(w, "select", server,
                IF row /= None
                THEN Proceed(w) /\ info' = [info EXCEPT ![w] = row]
                ELSE /\ todo' = [todo EXCEPT ![w] = <<"insert">> \o Tail(@)]
                     /\ \E i \in Draws : info' = [info EXCEPT ![w] = i])
           /\ UNCHANGED selected
        \/ ~TableFound(w) /\ Refused(w, "select")

\* The table without UNIQUE usernames and database names.
MutantUnique(k, i) == server.rows[k] = None

\* The UNIQUE columns of the table.
Unique(k, i) ==
    /\ server.rows[k] = None
    /\ \A j \in Names :
        server.rows[j] /= None =>
            server.rows[j].user /= i.user /\ server.rows[j].dbname /= i.dbname

\* The parameters of the INSERT in the wrong order.
MutantWithRow(w) ==
    [server EXCEPT !.rows[call[w].name] =
        [user |-> info[w].dbname, dbname |-> info[w].user]]

WithRow(w) == [server EXCEPT !.rows[call[w].name] = info[w]]

Insert(w) ==
    /\ Holds(w, "insert")
    /\ IF TableFound(w) /\ Unique(call[w].name, info[w])
       THEN Plain(w, "insert", WithRow(w))
       ELSE Refused(w, "insert")

\* INSERT IGNORE, ON CONFLICT DO NOTHING: no error when it inserts nothing.
InsertIgnore(w) ==
    \/ /\ Holds(w, "insertIgnore")
       /\ TableFound(w)
       /\ Plain(w, "insertIgnore",
            IF Unique(call[w].name, info[w]) THEN WithRow(w) ELSE server)
    \/ ~TableFound(w) /\ Refused(w, "insertIgnore")

Owned(w) == <<info[w].user, info[w].dbname>>

\* PostgreSQL gives a new database its owner; one that is there keeps its own.
CreateDatabase(w) ==
    Plain(w, "createDatabase",
        [server EXCEPT
            !.databases = @ \cup {info[w].dbname},
            !.grants = IF server.type = "postgres" /\ info[w].dbname \notin server.databases
                       THEN @ \cup {Owned(w)}
                       ELSE @])

CreateUser(w) ==
    Plain(w, "createUser", [server EXCEPT !.accounts = @ \cup {info[w].user}])

Grant(w) ==
    Plain(w, "grant", [server EXCEPT !.grants = @ \cup {Owned(w)}])

\* PostgreSQL has no CREATE USER IF NOT EXISTS.
SelectRole(w) ==
    /\ Executed(w, "selectRole", server,
        IF info[w].user \in server.accounts
        THEN Proceed(w) /\ UNCHANGED info
        ELSE todo' = [todo EXCEPT ![w] = <<"createUser">> \o Tail(@)] /\ UNCHANGED info)
    /\ UNCHANGED selected

\* A database takes its owner with it, MySQL's privileges go with the user.
DropDatabase(w) ==
    Plain(w, "dropDatabase",
        [server EXCEPT
            !.databases = @ \ {info[w].dbname},
            !.grants = IF server.type = "postgres" THEN @ \ {Owned(w)} ELSE @])

DropUser(w) ==
    Plain(w, "dropUser",
        [server EXCEPT
            !.accounts = @ \ {info[w].user},
            !.grants = {g \in @ : g[1] /= info[w].user}])

CreateSchema(w) ==
    Plain(w, "createSchema", [server EXCEPT !.schema = TRUE])

CreateTable(w) ==
    \/ /\ server.type = "mysql" => session[w] \in selected
       /\ Plain(w, "createTable", [server EXCEPT !.table = TRUE])
    \/ server.type = "mysql" /\ session[w] \notin selected /\ Refused(w, "createTable")

\* Statements that change nothing the calls can tell.
Query(w) ==
    \E statement \in {"query", "flush", "terminate", "grantRole"} :
        Plain(w, statement, server)

\* The controller restarts: its calls and sessions are gone.
Crash ==
    /\ Fault
    /\ free' = <<>>
    /\ call' = [w \in Workers |-> None]
    /\ todo' = [w \in Workers |-> <<>>]
    /\ info' = [w \in Workers |-> None]
    /\ session' = [w \in Workers |-> None]
    /\ UNCHANGED <<server, selected, calls>>

-----------------------------------------------------------------------------
Statement(w) ==
    \/ Use(w) \/ Select(w) \/ Insert(w) \/ InsertIgnore(w)
    \/ CreateDatabase(w) \/ CreateUser(w) \/ Grant(w) \/ SelectRole(w)
    \/ DropDatabase(w) \/ DropUser(w)
    \/ CreateSchema(w) \/ CreateTable(w) \/ Query(w)

Next ==
    \/ \E w \in Workers :
        \/ \E c \in Calls, i \in Seeds \cup {None} : Begin(w, c, i)
        \/ Take(w) \/ Statement(w) \/ Return(w)
    \/ Expire
    \/ Crash

Spec == Init /\ [][Next]_vars

-----------------------------------------------------------------------------
(* Properties.                                                             *)

\* The credentials open the database.
Usable(i) ==
    /\ i.dbname \in server.databases
    /\ i.user \in server.accounts
    /\ <<i.user, i.dbname>> \in server.grants

Succeeds(w, op) == call[w] /= None /\ call[w].op = op /\ todo[w] = <<>>

\* What CreateDatabase returns without an error opens a database, and is what
\* the users table has for the name, whatever failed in calls before it.
CreatedUsable ==
    \A w \in Workers :
        Succeeds(w, "create") =>
            info[w] = server.rows[call[w].name] /\ Usable(info[w])

\* What DropDatabase without an error leaves of the name on the server: a row.
DroppedGone ==
    \A w \in Workers :
        Succeeds(w, "drop") =>
            /\ info[w] = server.rows[call[w].name]
            /\ info[w].dbname \notin server.databases
            /\ info[w].user \notin server.accounts
            /\ \A g \in server.grants : g[1] /= info[w].user

\* The database of a name is not lost to a call about another name.
UsableKept ==
    [][\A k \in Names :
        /\ server.rows[k] /= None
        /\ Usable(server.rows[k])
        /\ \A w \in Workers : call[w] /= None => call[w] /= [op |-> "drop", name |-> k]
        => Usable(server.rows[k])']_vars

\* The statements implement the server the requests rely on.
Abstract ==
    INSTANCE DatabaseServer WITH
        Credentials <- Infos,
        SeedDatabases <- Seeds,
        users <- server.rows,
        databases <- {i \in Infos : Usable(i)}

Implements == Abstract!Spec
=============================================================================
