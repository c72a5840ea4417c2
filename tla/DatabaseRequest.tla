--------------------------- MODULE DatabaseRequest ---------------------------
(***************************************************************************)
(* The DatabaseRequest controller: every call a reconcile makes to the API *)
(* server or to a database server is a step of its own, so that users,     *)
(* informers, other requests, faults and restarts come between any two.    *)
(*                                                                         *)
(* A reconcile of request k is the value of pc[k]; obj[k] is the object in *)
(* its memory, dbInfo[k] the database it publishes and changed[k] whether  *)
(* it changed the Service or the Secret.  The work queue runs at most one  *)
(* reconcile per request (so the controller's own lock per name is never   *)
(* contended) and MaxConcurrentReconciles of different requests.           *)
(***************************************************************************)
EXTENDS DatabaseRequestObject, FiniteSets

CONSTANTS
    Requests,                   \* names (with namespace) of DatabaseRequests
    Pool,                       \* enabled connections the selectors match
    SeedCredentials,            \* credentials users bring in seed secrets
    SeedDatabases,              \* databases that exist before the controller
    Specs,                      \* the specs users apply
    Edits,                      \* the ways users edit an applied spec
    CacheLag,                   \* Service and Secret caches may be behind
    MaxConcurrentReconciles,    \* the controller's option
    MaxFaults,                  \* bound on failing calls, lost answers, crashes
    MaxOperations               \* bound on what users do

\* A draw that does not depend on the request.
MutantGenerated(n, k) == <<n, n>>

\* createUserInfo draws random names; a row for a request is drawn at most once
\* per connection, so <<n, k>> stands for the name, user and password drawn.
Generated(n, k) == <<n, k>>

Credentials == (Connections \X Requests) \cup SeedCredentials

\* In a Service the connection is its hostname, in a Secret its port.
DatabaseInfo == [conn : Connections, cred : Credentials]

ASSUME PoolAssumption == Pool \subseteq Connections

\* What is drawn is random: it does not meet what users bring.
ASSUME SeedAssumption ==
    /\ SeedDatabases \subseteq Connections \X SeedCredentials
    /\ None \notin Connections \X Credentials
    /\ None \notin Credentials
    /\ None \notin DatabaseInfo
    /\ SeedCredentials \cap (Connections \X Requests) = {}

ASSUME SpecsAssumption ==
    Specs \subseteq [type : Types,
                     seed : (Connections \X SeedCredentials) \cup {None},
                     reference : Connections \cup {None},
                     drop : BOOLEAN]

ASSUME BoundsAssumption ==
    /\ MaxConcurrentReconciles \in Nat \ {0}
    /\ MaxFaults \in Nat
    /\ MaxOperations \in Nat
    /\ CacheLag \in BOOLEAN

VARIABLES
    request,        \* the DatabaseRequests in the API server
    service,        \* the connection the request's Service names, or None
    secret,         \* the database the request's Secret publishes, or None
    seedSecret,     \* the database in the request's seed secret, or None
    cached,         \* the DatabaseRequests in the controller's cache
    stale,          \* Services and Secrets whose cache entry is behind ...
    seenService,    \* ... and what the cache holds for them
    seenSecret,
    queue,          \* requests in the work queue
    users,          \* the users table of each connection, by request
    databases,      \* databases with their user: <<connection, credentials>>
    pc, obj, dbInfo, changed,
    faults, operations

store  == <<request, service, secret, seedSecret>>
caches == <<cached, stale, seenService, seenSecret>>
server == <<users, databases>>
worker == <<pc, obj, dbInfo, changed>>
bounds == <<faults, operations>>
vars == <<store, caches, queue, server, worker, bounds>>

Creating == {"addFinalizer", "handleSeed", "setDatabaseInfo", "deleteSeedSecret",
             "createDatabase", "updateCreateStatus", "getDatabaseInfo",
             "handleService", "handleSecret", "updateRequest", "updateStatus"}
Deleting == {"dropDatabase", "updateDropStatus", "deleteService",
             "deleteSecret", "removeFinalizer"}
Failing == {"handleError", "ignoreError"}

TypeOK ==
    /\ request \in [Requests -> Object]
    /\ service \in [Requests -> Connections \cup {None}]
    /\ secret \in [Requests -> DatabaseInfo \cup {None}]
    /\ seedSecret \in [Requests -> (Connections \X SeedCredentials) \cup {None}]
    /\ cached \in [Requests -> Object]
    /\ stale \subseteq Requests \X {"service", "secret"}
    /\ seenService \in [Requests -> Connections \cup {None}]
    /\ seenSecret \in [Requests -> DatabaseInfo \cup {None}]
    /\ queue \subseteq Requests
    /\ users \in [Connections \X Requests -> Credentials \cup {None}]
    /\ databases \subseteq Connections \X Credentials
    /\ pc \in [Requests -> {"idle"} \cup Creating \cup Deleting \cup Failing]
    /\ obj \in [Requests -> Object]
    /\ dbInfo \in [Requests -> DatabaseInfo \cup {None}]
    /\ changed \in [Requests -> BOOLEAN]
    /\ faults \in 0 .. MaxFaults
    /\ operations \in 0 .. MaxOperations

Init ==
    /\ request = [k \in Requests |-> Absent(0)]
    /\ service = [k \in Requests |-> None]
    /\ secret = [k \in Requests |-> None]
    /\ seedSecret = [k \in Requests |-> None]
    /\ cached = [k \in Requests |-> Absent(0)]
    /\ stale = {}
    /\ seenService = [k \in Requests |-> None]
    /\ seenSecret = [k \in Requests |-> None]
    /\ queue = {}
    /\ users = [nk \in Connections \X Requests |-> None]
    /\ databases = SeedDatabases
    /\ pc = [k \in Requests |-> "idle"]
    /\ obj = [k \in Requests |-> Absent(0)]
    /\ dbInfo = [k \in Requests |-> None]
    /\ changed = [k \in Requests |-> FALSE]
    /\ faults = 0
    /\ operations = 0

-----------------------------------------------------------------------------
(* What a call may do, and how a step of a reconcile ends.                 *)

Fault == faults < MaxFaults /\ faults' = faults + 1

Goto(k, step) == pc' = [pc EXCEPT ![k] = step]

\* The reconcile returns; its memory is gone.
Idle(k) ==
    /\ Goto(k, "idle")
    /\ obj' = [obj EXCEPT ![k] = Absent(0)]
    /\ dbInfo' = [dbInfo EXCEPT ![k] = None]
    /\ changed' = [changed EXCEPT ![k] = FALSE]

Done(k) == Idle(k) /\ UNCHANGED queue

\* An error that is swallowed.
MutantRequeue(k) == Done(k)

Requeue(k) == Idle(k) /\ queue' = queue \cup {k}

\* The API server accepts a write of the object in memory only over the version
\* that was read.
Fresh(k) ==
    /\ request[k].exists
    /\ request[k].resourceVersion = obj[k].resourceVersion

Accepted(k, stored) ==
    /\ Fresh(k)
    /\ request' = [request EXCEPT ![k] = stored]
    /\ UNCHANGED faults

\* The write is refused (conflict, not found), does not arrive, or its answer
\* does not.
Refused(k, stored) ==
    \/ ~Fresh(k) /\ UNCHANGED <<request, faults>>
    \/ Fault /\ UNCHANGED request
    \/ Fresh(k) /\ Fault /\ request' = [request EXCEPT ![k] = stored]

\* A call to the database server or a write of a secondary object fails before
\* or after it took effect.
Fails(k, effect) ==
    /\ Fault
    /\ Goto(k, "handleError")
    /\ effect

\* The caches of Services and Secrets keep what they had until they are synced.
SeenService(k) ==
    IF <<k, "service">> \in stale THEN seenService[k] ELSE service[k]
SeenSecret(k) ==
    IF <<k, "secret">> \in stale THEN seenSecret[k] ELSE secret[k]

WriteService(k, new) ==
    /\ service' = [service EXCEPT ![k] = new]
    /\ IF CacheLag /\ new /= service[k]
       THEN /\ seenService' = [seenService EXCEPT ![k] = SeenService(k)]
            /\ stale' = stale \cup {<<k, "service">>}
       ELSE UNCHANGED <<seenService, stale>>
    /\ UNCHANGED <<secret, seenSecret>>

WriteSecret(k, new) ==
    /\ secret' = [secret EXCEPT ![k] = new]
    /\ IF CacheLag /\ new /= secret[k]
       THEN /\ seenSecret' = [seenSecret EXCEPT ![k] = SeenSecret(k)]
            /\ stale' = stale \cup {<<k, "secret">>}
       ELSE UNCHANGED <<seenSecret, stale>>
    /\ UNCHANGED <<service, seenService>>

publication == <<service, secret, stale, seenService, seenSecret>>

\* SELECT of the request's row in the users table, INSERT when there is none.
WithRow(n, k) ==
    IF users[<<n, k>>] = None
    THEN [users EXCEPT ![<<n, k>>] = Generated(n, k)]
    ELSE users

\* CREATE DATABASE IF NOT EXISTS, with the user of the row.
MutantWithDatabase(n, k) ==         \* only for a row that is new
    IF users[<<n, k>>] = None
    THEN databases \cup {<<n, WithRow(n, k)[<<n, k>>]>>}
    ELSE databases
WithDatabase(n, k) == databases \cup {<<n, WithRow(n, k)[<<n, k>>]>>}

MutantWithInfo(n, k, cred) == users                                 \* no INSERT
MutantWithInfoReplaced(n, k, cred) == [users EXCEPT ![<<n, k>>] = cred]  \* REPLACE

\* INSERT IGNORE: the row of the request, and usernames, are unique.
WithInfo(n, k, cred) ==
    IF \A j \in Requests : users[<<n, j>>] /= cred /\ users[<<n, k>>] = None
    THEN [users EXCEPT ![<<n, k>>] = cred]
    ELSE users

-----------------------------------------------------------------------------
(* Reconcile: read the object, and where to go from there.                 *)

\* Ready is believed whatever the generation.
MutantCreateStep(o) ==
    IF o.ready \in ReadyReasons THEN "idle"
    ELSE IF o.seed THEN "handleSeed"
    ELSE IF o.connectionReference = None THEN "createDatabase"
    ELSE "getDatabaseInfo"

\* After the finalizer: skip what was observed, then seed, create or refresh.
CreateStep(o) ==
    IF o.ready \in ReadyReasons /\ o.observedGeneration >= o.generation
    THEN "idle"
    ELSE IF o.seed THEN "handleSeed"
    ELSE IF o.connectionReference = None THEN "createDatabase"
    ELSE "getDatabaseInfo"

MutantDeleteStep(o) == "deleteService"      \* nothing is dropped

DeleteStep(o) ==
    IF ~o.seed /\ o.dropDatabaseOnDelete THEN "dropDatabase" ELSE "deleteService"

\* No finalizer is added.
MutantFirstStep(o) ==
    IF ~o.exists THEN "idle" ELSE IF o.deleting THEN DeleteStep(o) ELSE CreateStep(o)

FirstStep(o) ==
    IF ~o.exists THEN "idle"
    ELSE IF o.deleting THEN DeleteStep(o)
    ELSE IF ~o.finalizer THEN "addFinalizer"
    ELSE CreateStep(o)

\* A reconcile that has nothing to do is over at once.
Start(k, o, step) ==
    IF step = "idle"
    THEN Idle(k)
    ELSE Goto(k, step) /\ obj' = [obj EXCEPT ![k] = o] /\ UNCHANGED <<dbInfo, changed>>

Reconcile(k) ==
    /\ pc[k] = "idle"
    /\ k \in queue
    /\ Cardinality({j \in Requests : pc[j] /= "idle"}) < MaxConcurrentReconciles
    /\ queue' = queue \ {k}
    /\ Start(k, cached[k], FirstStep(cached[k]))
    /\ UNCHANGED <<store, caches, server, bounds>>

AddFinalizer(k) ==
    LET new == [obj[k] EXCEPT !.finalizer = TRUE]
        stored == PutObject(request[k], new)
        answer == Decode(stored, new)
    IN  /\ pc[k] = "addFinalizer"
        /\ \/ Accepted(k, stored) /\ Start(k, answer, CreateStep(answer))
           \/ /\ Refused(k, stored)
              /\ Goto(k, "handleError")
              /\ obj' = [obj EXCEPT ![k] = new]
              /\ UNCHANGED <<dbInfo, changed>>
        /\ UNCHANGED <<service, secret, seedSecret, caches, queue, server, operations>>

-----------------------------------------------------------------------------
(* Adopting the database of a seed secret.                                 *)

\* Read the seed secret, log in with it and find the connection it is on.
HandleSeed(k) ==
    /\ pc[k] = "handleSeed"
    /\ \/ /\ \/ seedSecret[k] = None
             \/ obj[k].type \notin RelationalTypes
             \/ seedSecret[k] \in databases /\ seedSecret[k][1] \notin Pool
          /\ Goto(k, "handleError")
          /\ UNCHANGED <<dbInfo, faults>>
       \/ /\ obj[k].type \in RelationalTypes
          /\ seedSecret[k] \notin databases \cup {None}
          /\ Goto(k, "ignoreError")
          /\ UNCHANGED <<dbInfo, faults>>
       \/ /\ obj[k].type \in RelationalTypes
          /\ seedSecret[k] \in databases
          /\ seedSecret[k][1] \in Pool
          /\ dbInfo' = [dbInfo EXCEPT
                ![k] = [conn |-> seedSecret[k][1], cred |-> seedSecret[k][2]]]
          /\ Goto(k, "setDatabaseInfo")
          /\ UNCHANGED faults
       \/ Fails(k, UNCHANGED dbInfo)
    /\ UNCHANGED <<store, caches, queue, server, obj, changed, operations>>

SetDatabaseInfo(k) ==
    LET set == users' = WithInfo(dbInfo[k].conn, k, dbInfo[k].cred)
    IN  /\ pc[k] = "setDatabaseInfo"
        /\ \/ set /\ Goto(k, "deleteSeedSecret") /\ UNCHANGED faults
           \/ Fails(k, set \/ UNCHANGED users)
        /\ UNCHANGED <<store, caches, queue, databases, obj, dbInfo, changed, operations>>

\* Then the request refers to the connection, in memory, and has no seed.
DeleteSeedSecret(k) ==
    LET delete == seedSecret' = [seedSecret EXCEPT ![k] = None]
    IN  /\ pc[k] = "deleteSeedSecret"
        /\ \/ /\ seedSecret[k] /= None
              /\ delete
              /\ obj' = [obj EXCEPT ![k] = [@ EXCEPT
                    !.connectionReference = dbInfo[k].conn,
                    !.observedReference = dbInfo[k].conn,
                    !.seed = FALSE]]
              /\ Goto(k, "handleService")
              /\ UNCHANGED faults
           \/ /\ seedSecret[k] = None
              /\ Goto(k, "handleError")
              /\ UNCHANGED <<seedSecret, obj, faults>>
           \/ Fails(k, delete \/ UNCHANGED seedSecret) /\ UNCHANGED obj
        /\ UNCHANGED <<request, service, secret, caches, queue, server, dbInfo,
                       changed, operations>>

-----------------------------------------------------------------------------
(* Creating a database, or finding the one the request refers to.          *)

\* The connections that may have the lowest load when they are asked.
Candidates(k) == {n \in Pool : obj[k].type \in RelationalTypes}

CreateDatabase(k) ==
    /\ pc[k] = "createDatabase"
    /\ \/ \E n \in Candidates(k) :
            /\ users' = WithRow(n, k)
            /\ databases' = WithDatabase(n, k)
            /\ obj' = [obj EXCEPT ![k].observedReference = n]
            /\ Goto(k, "updateCreateStatus")
            /\ UNCHANGED faults
       \/ \E n \in Candidates(k) :
            /\ Fails(k,
                /\ users' = WithRow(n, k)
                /\ databases' \in {databases, WithDatabase(n, k)})
            /\ UNCHANGED obj
       \/ /\ Candidates(k) /= {}
          /\ Fails(k, UNCHANGED <<users, databases, obj>>)
       \/ /\ Candidates(k) = {}
          /\ Goto(k, "handleError")
          /\ UNCHANGED <<users, databases, obj, faults>>
    /\ UNCHANGED <<store, caches, queue, dbInfo, changed, operations>>

\* The reference goes to the status now, to the spec only in memory.
UpdateCreateStatus(k) ==
    LET stored == PutStatus(request[k], obj[k])
    IN  /\ pc[k] = "updateCreateStatus"
        /\ \/ /\ Accepted(k, stored)
              /\ obj' = [obj EXCEPT ![k] =
                    [Decode(stored, obj[k]) EXCEPT
                        !.connectionReference = obj[k].observedReference]]
              /\ Goto(k, "getDatabaseInfo")
           \/ /\ Refused(k, stored)
              /\ Goto(k, "handleError")
              /\ UNCHANGED obj
        /\ UNCHANGED <<service, secret, seedSecret, caches, queue, server, dbInfo,
                       changed, operations>>

\* Other types have no database information: dbInfo stays nil.
GetDatabaseInfo(k) ==
    LET n == obj[k].connectionReference
    IN  /\ pc[k] = "getDatabaseInfo"
        /\ obj' = [obj EXCEPT ![k].observedReference = n]
        /\ \/ /\ obj[k].type \in RelationalTypes
              /\ users' = WithRow(n, k)
              /\ dbInfo' = [dbInfo EXCEPT
                    ![k] = [conn |-> n, cred |-> WithRow(n, k)[<<n, k>>]]]
              /\ Goto(k, "handleService")
              /\ UNCHANGED faults
           \/ /\ obj[k].type \in RelationalTypes
              /\ Fails(k, users' \in {users, WithRow(n, k)})
              /\ UNCHANGED dbInfo
           \/ /\ obj[k].type \notin RelationalTypes
              /\ Goto(k, "handleService")
              /\ UNCHANGED <<users, dbInfo, faults>>
        /\ UNCHANGED <<store, caches, queue, databases, changed, operations>>

-----------------------------------------------------------------------------
(* Publishing the database in a Service and a Secret.                      *)

\* Create fails when there is an object, Update when it is not the one read.
Writable(k, kind, seen, current) ==
    IF seen = None THEN current = None ELSE <<k, kind>> \notin stale

HandleService(k) ==
    LET seen == SeenService(k)
        new == dbInfo[k].conn
    IN  /\ pc[k] = "handleService"
        /\ dbInfo[k] /= None
        /\ \/ /\ seen = new
              /\ Goto(k, "handleSecret")
              /\ UNCHANGED <<publication, changed, faults>>
           \/ /\ seen /= new
              /\ Writable(k, "service", seen, service[k])
              /\ WriteService(k, new)
              /\ changed' = [changed EXCEPT ![k] = @ \/ seen /= None]
              /\ Goto(k, "handleSecret")
              /\ UNCHANGED faults
           \/ /\ seen /= new
              /\ ~Writable(k, "service", seen, service[k])
              /\ Goto(k, "handleError")
              /\ UNCHANGED <<publication, changed, faults>>
           \/ /\ seen /= new
              /\ Fails(k, \/ UNCHANGED publication
                          \/ /\ Writable(k, "service", seen, service[k])
                             /\ WriteService(k, new))
              /\ UNCHANGED changed
        /\ UNCHANGED <<request, seedSecret, cached, queue, server, obj, dbInfo, operations>>

HandleSecret(k) ==
    LET seen == SeenSecret(k)
    IN  /\ pc[k] = "handleSecret"
        /\ \/ /\ seen = dbInfo[k]
              /\ Goto(k, "updateRequest")
              /\ UNCHANGED <<publication, changed, faults>>
           \/ /\ seen /= dbInfo[k]
              /\ Writable(k, "secret", seen, secret[k])
              /\ WriteSecret(k, dbInfo[k])
              /\ changed' = [changed EXCEPT ![k] = @ \/ seen /= None]
              /\ Goto(k, "updateRequest")
              /\ UNCHANGED faults
           \/ /\ seen /= dbInfo[k]
              /\ ~Writable(k, "secret", seen, secret[k])
              /\ Goto(k, "handleError")
              /\ UNCHANGED <<publication, changed, faults>>
           \/ /\ seen /= dbInfo[k]
              /\ Fails(k, \/ UNCHANGED publication
                          \/ /\ Writable(k, "secret", seen, secret[k])
                             /\ WriteSecret(k, dbInfo[k]))
              /\ UNCHANGED changed
        /\ UNCHANGED <<request, seedSecret, cached, queue, server, obj, dbInfo, operations>>

\* handleService dereferences a nil dbInfo; the work queue recovers the panic
\* and retries, the status says nothing.
Panic(k) ==
    /\ pc[k] = "handleService"
    /\ dbInfo[k] = None
    /\ Requeue(k)
    /\ UNCHANGED <<store, caches, server, bounds>>

-----------------------------------------------------------------------------
(* The end of a successful reconcile, and of a failing one.                *)

\* The spec is written with the reference and without the seed; a failure is
\* retried without any trace in the status.
UpdateRequest(k) ==
    LET new == [obj[k] EXCEPT !.observedGeneration = obj[k].generation]
        stored == PutObject(request[k], new)
    IN  /\ pc[k] = "updateRequest"
        /\ \/ /\ Accepted(k, stored)
              /\ obj' = [obj EXCEPT ![k] = Decode(stored, new)]
              /\ Goto(k, "updateStatus")
              /\ UNCHANGED <<dbInfo, changed, queue>>
           \/ Refused(k, stored) /\ Requeue(k)
        /\ UNCHANGED <<service, secret, seedSecret, caches, server, operations>>

\* The status is written only when the Ready condition changes.
UpdateStatus(k) ==
    LET new == [obj[k] EXCEPT !.ready = IF changed[k] THEN "Changed" ELSE "Created"]
        stored == PutStatus(request[k], new)
    IN  /\ pc[k] = "updateStatus"
        /\ \/ /\ new.ready = obj[k].ready
              /\ Done(k)
              /\ UNCHANGED <<request, faults>>
           \/ /\ new.ready /= obj[k].ready
              /\ Accepted(k, stored)
              /\ Done(k)
           \/ /\ new.ready /= obj[k].ready
              /\ Refused(k, stored)
              /\ Goto(k, "handleError")
              /\ UNCHANGED <<obj, dbInfo, changed, queue>>
        /\ UNCHANGED <<service, secret, seedSecret, caches, server, operations>>

\* A failure to write the status is only logged; an invalid seed is not retried.
HandleError(k) ==
    LET stored == PutStatus(request[k], [obj[k] EXCEPT !.ready = "Failed"])
    IN  /\ pc[k] \in Failing
        /\ Accepted(k, stored) \/ Refused(k, stored)
        /\ IF pc[k] = "handleError" THEN Requeue(k) ELSE Done(k)
        /\ UNCHANGED <<service, secret, seedSecret, caches, server, operations>>

-----------------------------------------------------------------------------
(* Deletion.                                                               *)

\* DropDatabase reads the row, inserting one if there is none, and never
\* deletes it.
DropDatabase(k) ==
    LET n == obj[k].connectionReference
        remaining == databases \ {<<n, WithRow(n, k)[<<n, k>>]>>}
        droppable == obj[k].type \in RelationalTypes /\ n /= None
    IN  /\ pc[k] = "dropDatabase"
        /\ \/ /\ droppable
              /\ users' = WithRow(n, k)
              /\ databases' = remaining
              /\ obj' = [obj EXCEPT ![k].observedReference = None]
              /\ Goto(k, "updateDropStatus")
              /\ UNCHANGED faults
           \/ /\ droppable
              /\ Fails(k, \/ UNCHANGED <<users, databases>>
                          \/ /\ users' = WithRow(n, k)
                             /\ databases' \in {databases, remaining})
              /\ UNCHANGED obj
           \/ /\ obj[k].type = "mongodb"
              /\ Goto(k, "deleteService")
              /\ UNCHANGED <<server, obj, faults>>
           \/ /\ ~droppable /\ obj[k].type /= "mongodb"
              /\ Goto(k, "handleError")
              /\ UNCHANGED <<server, obj, faults>>
        /\ UNCHANGED <<store, caches, queue, dbInfo, changed, operations>>

UpdateDropStatus(k) ==
    LET stored == PutStatus(request[k], obj[k])
    IN  /\ pc[k] = "updateDropStatus"
        /\ \/ /\ Accepted(k, stored)
              /\ obj' = [obj EXCEPT ![k] =
                    [Decode(stored, obj[k]) EXCEPT !.connectionReference = None]]
              /\ Goto(k, "deleteService")
           \/ /\ Refused(k, stored)
              /\ Goto(k, "handleError")
              /\ UNCHANGED obj
        /\ UNCHANGED <<service, secret, seedSecret, caches, queue, server, dbInfo,
                       changed, operations>>

\* Deleting what is not there is no error.
DeleteService(k) ==
    /\ pc[k] = "deleteService"
    /\ \/ WriteService(k, None) /\ Goto(k, "deleteSecret") /\ UNCHANGED faults
       \/ Fails(k, WriteService(k, None) \/ UNCHANGED publication)
    /\ UNCHANGED <<request, seedSecret, cached, queue, server, obj, dbInfo, changed,
                   operations>>

DeleteSecret(k) ==
    /\ pc[k] = "deleteSecret"
    /\ \/ WriteSecret(k, None) /\ Goto(k, "removeFinalizer") /\ UNCHANGED faults
       \/ Fails(k, WriteSecret(k, None) \/ UNCHANGED publication)
    /\ UNCHANGED <<request, seedSecret, cached, queue, server, obj, dbInfo, changed,
                   operations>>

RemoveFinalizer(k) ==
    LET new == [obj[k] EXCEPT !.finalizer = FALSE]
        stored == PutObject(request[k], new)
    IN  /\ pc[k] = "removeFinalizer"
        /\ \/ Accepted(k, stored) /\ Done(k)
           \/ /\ Refused(k, stored)
              /\ Goto(k, "handleError")
              /\ obj' = [obj EXCEPT ![k] = new]
              /\ UNCHANGED <<dbInfo, changed, queue>>
        /\ UNCHANGED <<service, secret, seedSecret, caches, server, operations>>

-----------------------------------------------------------------------------
(* Informers: a cache catches up; only changes of the generation, creations *)
(* and deletions put a request into the queue.                              *)

SyncRequest(k) ==
    /\ cached[k] /= request[k]
    /\ cached' = [cached EXCEPT ![k] = request[k]]
    /\ queue' =
        IF \/ cached[k].uid /= request[k].uid
           \/ cached[k].generation /= request[k].generation
        THEN queue \cup {k}
        ELSE queue
    /\ UNCHANGED <<store, stale, seenService, seenSecret, server, worker, bounds>>

SyncService(k) ==
    /\ <<k, "service">> \in stale
    /\ stale' = stale \ {<<k, "service">>}
    /\ seenService' = [seenService EXCEPT ![k] = None]
    /\ UNCHANGED <<store, cached, seenSecret, queue, server, worker, bounds>>

SyncSecret(k) ==
    /\ <<k, "secret">> \in stale
    /\ stale' = stale \ {<<k, "secret">>}
    /\ seenSecret' = [seenSecret EXCEPT ![k] = None]
    /\ UNCHANGED <<store, cached, seenService, queue, server, worker, bounds>>

-----------------------------------------------------------------------------
(* Users, and the crash and restart of the controller.                     *)

Operation == operations < MaxOperations /\ operations' = operations + 1

CreateRequest(k, spec) ==
    /\ Operation
    /\ ~request[k].exists
    /\ request' = [request EXCEPT ![k] =
            Created(@.resourceVersion, spec.type, spec.seed /= None,
                    spec.reference, spec.drop)]
    /\ seedSecret' = IF spec.seed = None
                     THEN seedSecret
                     ELSE [seedSecret EXCEPT ![k] = spec.seed]
    /\ UNCHANGED <<service, secret, caches, queue, server, worker, faults>>

DeleteRequest(k) ==
    /\ Operation
    /\ request[k].exists
    /\ ~request[k].deleting
    /\ request' = [request EXCEPT ![k] = Deleted(@)]
    /\ UNCHANGED <<service, secret, seedSecret, caches, queue, server, worker, faults>>

Edit(k, new) ==
    /\ Operation
    /\ request[k].exists
    /\ request' = [request EXCEPT ![k] = Edited(new)]
    /\ UNCHANGED <<service, secret, seedSecret, caches, queue, server, worker, faults>>

ForceReconcile(k) == "force" \in Edits /\ Edit(k, request[k])

ChangeReference(k, n) ==
    /\ "reference" \in Edits
    /\ request[k].connectionReference /= n
    /\ Edit(k, [request[k] EXCEPT !.connectionReference = n])

\* The memory is gone; the informers list everything and the queue gets it all.
Crash ==
    /\ Fault
    /\ cached' = request
    /\ stale' = {}
    /\ seenService' = [k \in Requests |-> None]
    /\ seenSecret' = [k \in Requests |-> None]
    /\ queue' = {k \in Requests : request[k].exists}
    /\ pc' = [k \in Requests |-> "idle"]
    /\ obj' = [k \in Requests |-> Absent(0)]
    /\ dbInfo' = [k \in Requests |-> None]
    /\ changed' = [k \in Requests |-> FALSE]
    /\ UNCHANGED <<store, server, operations>>

-----------------------------------------------------------------------------
Step(k) ==
    \/ AddFinalizer(k)
    \/ HandleSeed(k) \/ SetDatabaseInfo(k) \/ DeleteSeedSecret(k)
    \/ CreateDatabase(k) \/ UpdateCreateStatus(k) \/ GetDatabaseInfo(k)
    \/ HandleService(k) \/ HandleSecret(k) \/ Panic(k)
    \/ UpdateRequest(k) \/ UpdateStatus(k) \/ HandleError(k)
    \/ DropDatabase(k) \/ UpdateDropStatus(k)
    \/ DeleteService(k) \/ DeleteSecret(k) \/ RemoveFinalizer(k)

Sync(k) == SyncRequest(k) \/ SyncService(k) \/ SyncSecret(k)

User(k) ==
    \/ \E spec \in Specs : CreateRequest(k, spec)
    \/ DeleteRequest(k)
    \/ ForceReconcile(k)
    \/ \E n \in Connections : ChangeReference(k, n)

Next ==
    \/ \E k \in Requests : Reconcile(k) \/ Step(k) \/ Sync(k) \/ User(k)
    \/ Crash

Spec == Init /\ [][Next]_vars

\* A worker that has a request goes on with it, a cache catches up, and the
\* work queue hands out its requests in order.  Users need not do anything and
\* faults need not stop on their own: their number is bounded.
Fairness ==
    \A k \in Requests :
        /\ WF_vars(Step(k))
        /\ SF_vars(Reconcile(k))
        /\ WF_vars(SyncRequest(k))
        /\ WF_vars(SyncService(k))
        /\ WF_vars(SyncSecret(k))

FairSpec == Spec /\ Fairness

-----------------------------------------------------------------------------
(* Properties.                                                             *)

\* Nothing is left to do for the request: no reconcile, none queued, and the
\* cache knows the object as it is.
Quiescent(k) ==
    /\ pc[k] = "idle"
    /\ k \notin queue
    /\ cached[k] = request[k]

IsReady(k) ==
    /\ request[k].exists
    /\ ~request[k].deleting
    /\ request[k].ready \in ReadyReasons

Published(k) == <<secret[k].conn, secret[k].cred>>

\* A request that is gone leaves neither Service nor Secret behind: the
\* finalizer is there before they are created (AddFinalizer in Reconcile) and
\* goes after they are deleted (deleteDatabase), whatever fails in between.
NoOrphans ==
    \A k \in Requests :
        ~request[k].exists => service[k] = None /\ secret[k] = None

\* When the controller is done with a request and reports Ready, its Service
\* and its Secret publish the connection the spec refers to and the row of the
\* request in that connection's users table (handleService, handleSecret).
ReadyPublished ==
    \A k \in Requests :
        Quiescent(k) /\ IsReady(k) =>
            LET n == request[k].connectionReference
            IN  /\ n /= None
                /\ service[k] = n
                /\ secret[k] = [conn |-> n, cred |-> users[<<n, k>>]]

\* When the controller is done with a request and reports Ready, the database
\* its Secret publishes exists, with that user (CreateDatabase, SetDatabaseInfo).
ReadyUsable ==
    \A k \in Requests :
        Quiescent(k) /\ IsReady(k) =>
            secret[k] /= None /\ Published(k) \in databases

\* A request that is gone leaves no database of its own behind, if it is to be
\* dropped (spec.dropDatabaseOnDelete, relDBDeletion).
NoLeak ==
    \A k \in Requests :
        ~request[k].exists =>
            \A n \in Connections : <<n, Generated(n, k)>> \notin databases

\* The database a Ready request publishes and has the row of is not dropped
\* under it, neither by a late step of a deletion nor by the deletion of another
\* request (relDBDeletion), though both may have been given the same seed.
LiveDatabaseKept ==
    [][\A k \in Requests :
        /\ IsReady(k)
        /\ secret[k] /= None
        /\ Published(k) \in databases
        /\ users[<<secret[k].conn, k>>] = secret[k].cred
        => Published(k) \in databases']_vars

\* While a Secret stays on the same connection its credentials do not change, and
\* the users table comes to have no other for the name: applications keep working
\* across retries, restarts and refreshes.  (The table may have had others before:
\* a name that is used again, now with a seed.)
CredentialsStable ==
    [][\A k \in Requests :
        LET row == users[<<secret[k].conn, k>>]
        IN  /\ secret[k] /= None
            /\ secret'[k] /= None
            /\ secret'[k].conn = secret[k].conn
            /\ row \in {None, secret[k].cred}
            => /\ secret'[k].cred = secret[k].cred
               /\ users'[<<secret[k].conn, k>>] \in {None, secret[k].cred}]_vars

\* Two requests never own the same user on one server (the UNIQUE columns of
\* the users table, Initialize and the INSERT IGNORE of SetDatabaseInfo).
RowsDistinct ==
    \A n \in Connections : \A j, k \in Requests :
        users[<<n, j>>] = users[<<n, k>>] /\ users[<<n, j>>] /= None => j = k

\* A request of a type the controller has no client for publishes nothing.
UnsupportedUnserved ==
    \A k \in Requests :
        request[k].exists /\ request[k].type \in {"mariadb", "mongodb"} =>
            service[k] = None /\ secret[k] = None

\* A deletion the controller can carry out: it needs no drop, or the type and
\* the reference to do it with.
Deletable(k) ==
    \/ request[k].seed
    \/ ~request[k].dropDatabaseOnDelete
    \/ request[k].type = "mongodb"
    \/ request[k].type \in RelationalTypes /\ request[k].connectionReference /= None

\* A deletion that can be carried out is, whatever fails: every error path of
\* deleteDatabase comes back to it, with the steps done before done again.
DeletionCompletes ==
    \A k \in Requests :
        request[k].deleting /\ Deletable(k) ~> ~request[k].exists

\* When users and faults leave it alone, the controller comes to rest with every
\* request Ready or gone, except a deletion that has no reference to drop by:
\* no error, lost event or stale cache leaves a request behind unserved.
Converges ==
    \A k \in Requests :
        <>[](\/ request[k].deleting /\ ~Deletable(k)
             \/ Quiescent(k) /\ (request[k].exists => IsReady(k)))

\* Only users change what is to happen to the database when a request of theirs
\* is deleted (README, spec.dropDatabaseOnDelete): here, for users who all ask
\* to keep it, no database is ever dropped.
NothingDropped == [][databases \subseteq databases']_vars

\* A request that reports a failure and still has its seed to adopt has its
\* seed secret: handleSeed can be tried again.
SeedSecretKept ==
    \A k \in Requests :
        /\ request[k].exists
        /\ request[k].seed
        /\ request[k].ready = "Failed"
        /\ pc[k] = "idle"
        => seedSecret[k] /= None

-----------------------------------------------------------------------------
(* What a step relies on in the memory of its reconcile: with TypeOK it is  *)
(* inductive.                                                              *)
WorkerInv ==
    \A k \in Requests :
        /\ pc[k] \in {"setDatabaseInfo", "deleteSeedSecret", "handleSecret"} =>
            dbInfo[k] /= None
        /\ pc[k] = "updateCreateStatus" => obj[k].observedReference /= None
        /\ pc[k] = "getDatabaseInfo" => obj[k].connectionReference /= None

(* The inductive strengthening of NoOrphans.                               *)

\* A Service or Secret only exists together with the finalizer.
Guarded(k) ==
    service[k] /= None \/ secret[k] /= None =>
        request[k].exists /\ request[k].finalizer

\* A deletion has deleted the Service, then the Secret, before the finalizer.
DeletingOrder(k) ==
    /\ pc[k] \in {"deleteSecret", "removeFinalizer"} => service[k] = None
    /\ pc[k] = "removeFinalizer" => secret[k] = None

\* The cache holds a past version; what it shows as served and not being
\* deleted still exists, and what it shows being deleted is.
CacheInv(k) ==
    /\ request[k].uid <= request[k].resourceVersion
    /\ cached[k].uid <= request[k].resourceVersion
    /\ cached[k].resourceVersion <= request[k].resourceVersion
    /\ cached[k].resourceVersion = request[k].resourceVersion =>
        cached[k] = request[k]
    /\ cached[k].exists /\ cached[k].finalizer /\ ~cached[k].deleting =>
        /\ request[k].exists
        /\ request[k].finalizer
        /\ request[k].uid = cached[k].uid
    /\ /\ cached[k].exists
       /\ cached[k].deleting
       /\ request[k].exists
       /\ request[k].uid = cached[k].uid
       => request[k].deleting

\* A reconcile works on a past version ...
MemoryVersion(k) ==
    pc[k] \in Creating \cup Deleting =>
        /\ obj[k].uid <= request[k].resourceVersion
        /\ obj[k].resourceVersion <= request[k].resourceVersion
        /\ obj[k].resourceVersion = request[k].resourceVersion =>
            /\ obj[k].uid = request[k].uid
            /\ obj[k].deleting = request[k].deleting

\* ... past AddFinalizer of an object that has the finalizer ...
CreatingInv(k) ==
    pc[k] \in Creating =>
        /\ ~obj[k].deleting
        /\ pc[k] /= "addFinalizer" =>
            obj[k].finalizer /\ request[k].exists /\ request[k].finalizer

\* ... or of one that was being deleted, and is as long as it is there.
DeletingInv(k) ==
    pc[k] \in Deleting =>
        /\ obj[k].deleting
        /\ \A o \in {request[k], cached[k]} :
            o.exists /\ o.uid = obj[k].uid => o.deleting

OrphanInvAt(k) ==
    /\ Guarded(k)
    /\ DeletingOrder(k)
    /\ CacheInv(k)
    /\ MemoryVersion(k)
    /\ CreatingInv(k)
    /\ DeletingInv(k)

OrphanInv == \A k \in Requests : OrphanInvAt(k)
=============================================================================
