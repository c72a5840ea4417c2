--------------------------- MODULE DatabaseProvider ---------------------------
(***************************************************************************)
(* The controllers of RelationalDatabaseProvider and MongoDBProvider.  They *)
(* are one program but for the calls they probe a connection with, and for  *)
(* the client, which cmd/main.go gives to the first of them only.           *)
(*                                                                         *)
(* The controller has one worker, so one provider is modelled: others only *)
(* delay it.  Every call to the API server and to a database server is a   *)
(* step; users, the informer, servers that go and come back, faults and    *)
(* restarts happen between any two.                                        *)
(***************************************************************************)
EXTENDS Naturals, Sequences

CONSTANTS
    Names,          \* names of connections
    Servers,        \* database servers, each with its password secret
    Specs,          \* the connections users give a provider
    MaxFaults,      \* bound on failing calls, lost answers, outages, restarts
    MaxOperations   \* bound on what users do

Connection == [name : Names, server : Servers, enabled : BOOLEAN]
ConnectionStatus == [name : Names, enabled : BOOLEAN, available : BOOLEAN]

ASSUME SpecsAssumption == Specs \subseteq Seq(Connection) \ {<<>>}

ASSUME BoundsAssumption == MaxFaults \in Nat /\ MaxOperations \in Nat

\* The calls that probe a connection, one after the other.
RelationalProbe == <<"ping", "version", "initialize">>
MongoDBProbe == <<"ping", "version">>

Kinds == {"relational", "mongodb"}
Probe(k) == IF k = "relational" THEN RelationalProbe ELSE MongoDBProbe

\* A provider in the API server, the cache or the memory of a reconcile.
Object == [
    exists             : BOOLEAN,
    uid                : Nat,
    resourceVersion    : Nat,
    generation         : Nat,
    deleting           : BOOLEAN,
    finalizer          : BOOLEAN,
    connections        : Seq(Connection),
    ready              : {"unset", "False", "True"},
    connectionStatus   : Seq(ConnectionStatus),
    observedGeneration : Nat]

VARIABLES
    kind,           \* which of the two controllers this is
    hasClient,      \* it has been given a client
    provider,       \* the provider in the API server
    cached,         \* the provider in the controller's cache
    queued,         \* it is in the work queue
    secrets,        \* servers whose password secret is there and not empty
    up,             \* servers that answer
    initialized,    \* servers with the table of users
    pc, obj,        \* the reconcile: its next call and the object in its memory,
    calls,          \* the calls left to probe the connection with,
    results,        \* and the status of the connections that were probed
    faults, operations

static == <<kind, hasClient>>
api == <<provider, cached, queued>>
world == <<secrets, up, initialized>>
memory == <<obj, calls, results>>
bounds == <<faults, operations>>
vars == <<static, api, world, pc, memory, bounds>>

\* The store without the provider, after resource version rv.
Absent(rv) == [
    exists |-> FALSE, uid |-> 0, resourceVersion |-> rv, generation |-> 0,
    deleting |-> FALSE, finalizer |-> FALSE, connections |-> <<>>,
    ready |-> "unset", connectionStatus |-> <<>>, observedGeneration |-> 0]

TypeOK ==
    /\ kind \in Kinds
    /\ hasClient \in BOOLEAN
    /\ provider \in Object
    /\ cached \in Object
    /\ queued \in BOOLEAN
    /\ secrets \subseteq Servers
    /\ up \subseteq Servers
    /\ initialized \subseteq Servers
    /\ pc \in {"idle", "addFinalizer", "readSecrets", "probe", "updateStatus",
               "handleError", "removeFinalizer"}
    /\ obj \in Object
    /\ calls \in Seq({"ping", "version", "initialize"})
    /\ results \in Seq(ConnectionStatus)
    /\ pc = "probe" => Len(results) < Len(obj.connections) /\ calls /= <<>>
    /\ faults \in 0 .. MaxFaults
    /\ operations \in 0 .. MaxOperations

Init ==
    /\ kind \in Kinds
    /\ hasClient \in {TRUE, kind = "relational"}
    /\ provider = Absent(0)
    /\ cached = Absent(0)
    /\ queued = FALSE
    /\ secrets = Servers
    /\ up = Servers
    /\ initialized = {}
    /\ pc = "idle"
    /\ obj = Absent(0)
    /\ calls = <<>>
    /\ results = <<>>
    /\ faults = 0
    /\ operations = 0

-----------------------------------------------------------------------------
(* The API server.                                                         *)

Written(new) ==
    IF new = provider
    THEN provider
    ELSE [new EXCEPT !.resourceVersion = provider.resourceVersion + 1]

\* The encoder drops an "enabled" that is FALSE (omitempty) and the API server
\* gives the absent field the default of the CRD, TRUE.
Encoded(connections) ==
    [n \in DOMAIN connections |-> [connections[n] EXCEPT !.enabled = TRUE]]

\* Update: an object that is being deleted goes with its finalizer.
PutObject(new) ==
    LET stored == [provider EXCEPT
            !.finalizer = new.finalizer,
            !.connections = Encoded(new.connections)]
    IN  IF provider.deleting /\ ~new.finalizer
        THEN Absent(provider.resourceVersion + 1)
        ELSE Written(
            IF stored.connections = provider.connections
            THEN stored
            ELSE [stored EXCEPT !.generation = @ + 1])

\* Status().Update.
PutStatus(new) ==
    Written([provider EXCEPT
        !.ready = new.ready,
        !.connectionStatus = new.connectionStatus,
        !.observedGeneration = new.observedGeneration])

Fault == faults < MaxFaults /\ faults' = faults + 1

\* A write is accepted over the version that was read.
Fresh == provider.exists /\ provider.resourceVersion = obj.resourceVersion

Accepted(stored) ==
    /\ Fresh
    /\ provider' = stored
    /\ UNCHANGED faults

\* It is refused, does not arrive, or its answer does not.
Refused(stored) ==
    \/ ~Fresh /\ UNCHANGED <<provider, faults>>
    \/ Fault /\ UNCHANGED provider
    \/ Fresh /\ Fault /\ provider' = stored

-----------------------------------------------------------------------------
(* Reconcile.                                                              *)

\* The reconcile returns, without or with an error.
Idle ==
    /\ pc' = "idle"
    /\ obj' = Absent(0)
    /\ calls' = <<>>
    /\ results' = <<>>

Done == Idle /\ UNCHANGED queued

MutantRequeue == Done                   \* the error is swallowed
Requeue == Idle /\ queued' = TRUE

\* The finalizer is written again on every reconcile.
MutantFirstStep(o) ==
    IF ~o.exists THEN "idle"
    ELSE IF o.deleting THEN IF o.finalizer THEN "removeFinalizer" ELSE "idle"
    ELSE IF o.ready = "True" /\ o.observedGeneration >= o.generation THEN "idle"
    ELSE "addFinalizer"

\* Deletion, the skip of what was observed, the finalizer, the connections.
FirstStep(o) ==
    IF ~o.exists THEN "idle"
    ELSE IF o.deleting THEN IF o.finalizer THEN "removeFinalizer" ELSE "idle"
    ELSE IF o.ready = "True" /\ o.observedGeneration >= o.generation THEN "idle"
    ELSE IF ~o.finalizer THEN "addFinalizer"
    ELSE "readSecrets"

Reconcile ==
    /\ pc = "idle"
    /\ queued
    /\ queued' = FALSE
    /\ IF FirstStep(cached) = "idle"
       THEN Idle
       ELSE /\ pc' = FirstStep(cached)
            /\ obj' = cached
            /\ UNCHANGED <<calls, results>>
    /\ UNCHANGED <<static, provider, cached, world, bounds>>

\* The answer to the Update, with its defaults, is decoded into the memory.
AddFinalizer ==
    LET new == [obj EXCEPT !.finalizer = TRUE]
    IN  /\ pc = "addFinalizer"
        /\ \/ Accepted(PutObject(new)) /\ pc' = "readSecrets" /\ obj' = PutObject(new)
           \/ Refused(PutObject(new)) /\ pc' = "handleError" /\ obj' = new
        /\ UNCHANGED <<static, cached, queued, world, calls, results, operations>>

\* The controller looks at providers of no request before it lets go of this one.
RemoveFinalizer ==
    LET new == [obj EXCEPT !.finalizer = FALSE]
    IN  /\ pc = "removeFinalizer"
        /\ \/ Accepted(PutObject(new)) /\ Done
           \/ /\ Refused(PutObject(new))
              /\ pc' = "handleError"
              /\ obj' = new
              /\ UNCHANGED <<queued, calls, results>>
        /\ UNCHANGED <<static, cached, world, operations>>

UniqueNames(connections) ==
    \A m, n \in DOMAIN connections : connections[m].name = connections[n].name => m = n

SecretsFound(connections) ==
    \A n \in DOMAIN connections : connections[n].server \in secrets

\* The passwords of all connections, then whether their names are unique.
MutantReadSecrets ==            \* equal names go unnoticed
    /\ pc = "readSecrets"
    /\ SecretsFound(obj.connections)
    /\ pc' = "probe"
    /\ calls' = Probe(kind)
    /\ UNCHANGED <<static, api, world, obj, results, bounds>>

ReadSecrets ==
    /\ pc = "readSecrets"
    /\ \/ /\ SecretsFound(obj.connections)
          /\ UniqueNames(obj.connections)
          /\ pc' = "probe"
          /\ calls' = Probe(kind)
          /\ UNCHANGED faults
       \/ /\ ~SecretsFound(obj.connections) \/ ~UniqueNames(obj.connections)
          /\ pc' = "handleError"
          /\ UNCHANGED <<calls, faults>>
       \/ /\ Fault
          /\ pc' = "handleError"
          /\ UNCHANGED calls
    /\ UNCHANGED <<static, api, world, obj, results, operations>>

-----------------------------------------------------------------------------
(* Probing the connections.                                                *)

Probed == obj.connections[Len(results) + 1]

\* A server with one connection that answers, enabled or not.
MutantServing(status) == \E n \in DOMAIN status : status[n].available

Serving(status) == \E n \in DOMAIN status : status[n].available /\ status[n].enabled

\* The last connection is followed by one more.
MutantRecord(available) ==
    /\ results' = Append(results,
            [name |-> Probed.name, enabled |-> Probed.enabled, available |-> available])
    /\ calls' = Probe(kind)
    /\ UNCHANGED <<pc, obj>>

\* The connection has its status; on to the next one, or to the provider's.
Record(available) ==
    LET status == Append(results,
            [name |-> Probed.name, enabled |-> Probed.enabled, available |-> available])
    IN  /\ results' = status
        /\ IF Len(status) < Len(obj.connections)
           THEN calls' = Probe(kind) /\ UNCHANGED <<pc, obj>>
           ELSE /\ calls' = <<>>
                /\ obj' = [obj EXCEPT
                        !.connectionStatus = status,
                        !.observedGeneration = obj.generation]
                /\ pc' = IF Serving(status) THEN "updateStatus" ELSE "handleError"

Effect(call) ==
    IF call = "initialize" THEN initialized \cup {Probed.server} ELSE initialized

\* A call that fails ends the probe of its connection, not the reconcile.
ProbeConnection ==
    /\ pc = "probe"
    /\ hasClient
    /\ \/ /\ Probed.server \in up
          /\ initialized' = Effect(Head(calls))
          /\ IF Tail(calls) = <<>>
             THEN Record(TRUE)
             ELSE calls' = Tail(calls) /\ UNCHANGED <<pc, obj, results>>
          /\ UNCHANGED faults
       \/ /\ Probed.server \notin up
          /\ Record(FALSE)
          /\ UNCHANGED <<initialized, faults>>
       \/ /\ Probed.server \in up
          /\ Fault
          /\ initialized' \in {initialized, Effect(Head(calls))}
          /\ Record(FALSE)
    /\ UNCHANGED <<static, api, secrets, up, operations>>

\* Ping of a nil client; the work queue recovers and tries again.
Panic ==
    /\ pc = "probe"
    /\ ~hasClient
    /\ Requeue
    /\ UNCHANGED <<static, provider, cached, world, bounds>>

UpdateStatus ==
    LET stored == PutStatus([obj EXCEPT !.ready = "True"])
    IN  /\ pc = "updateStatus"
        /\ \/ Accepted(stored) /\ Done
           \/ Refused(stored) /\ Requeue
        /\ UNCHANGED <<static, cached, world, operations>>

\* A failure to write the status is logged, or returned: both are tried again.
HandleError ==
    LET stored == PutStatus([obj EXCEPT !.ready = "False"])
    IN  /\ pc = "handleError"
        /\ Accepted(stored) \/ Refused(stored)
        /\ Requeue
        /\ UNCHANGED <<static, cached, world, operations>>

-----------------------------------------------------------------------------
(* The informer, users, servers and restarts.                              *)

\* The event filter passes changes of the generation.
Sync ==
    /\ cached /= provider
    /\ cached' = provider
    /\ queued' =
        (\/ queued
         \/ cached.uid /= provider.uid
         \/ cached.generation /= provider.generation)
    /\ UNCHANGED <<static, provider, world, pc, memory, bounds>>

Operation == operations < MaxOperations /\ operations' = operations + 1

CreateProvider(connections) ==
    /\ Operation
    /\ ~provider.exists
    /\ provider' = [Absent(provider.resourceVersion + 1) EXCEPT
            !.exists = TRUE,
            !.uid = provider.resourceVersion + 1,
            !.generation = 1,
            !.connections = connections]
    /\ UNCHANGED <<static, cached, queued, world, pc, memory, faults>>

EditProvider(connections) ==
    /\ Operation
    /\ provider.exists
    /\ ~provider.deleting
    /\ connections /= provider.connections
    /\ provider' = [provider EXCEPT
            !.connections = connections,
            !.generation = @ + 1,
            !.resourceVersion = @ + 1]
    /\ UNCHANGED <<static, cached, queued, world, pc, memory, faults>>

DeleteProvider ==
    /\ Operation
    /\ provider.exists
    /\ ~provider.deleting
    /\ provider' =
        IF provider.finalizer
        THEN [provider EXCEPT
                !.deleting = TRUE,
                !.generation = @ + 1,
                !.resourceVersion = @ + 1]
        ELSE Absent(provider.resourceVersion + 1)
    /\ UNCHANGED <<static, cached, queued, world, pc, memory, faults>>

\* A password secret is deleted, or written.
ChangeSecret(s) ==
    /\ Operation
    /\ secrets' = IF s \in secrets THEN secrets \ {s} ELSE secrets \cup {s}
    /\ UNCHANGED <<static, api, up, initialized, pc, memory, faults>>

Outage(s) ==
    /\ Fault
    /\ s \in up
    /\ up' = up \ {s}
    /\ UNCHANGED <<static, api, secrets, initialized, pc, memory, operations>>

Return(s) ==
    /\ s \notin up
    /\ up' = up \cup {s}
    /\ UNCHANGED <<static, api, secrets, initialized, pc, memory, bounds>>

\* The informer lists the provider again and the queue gets it.
Crash ==
    /\ Fault
    /\ cached' = provider
    /\ queued' = provider.exists
    /\ Idle
    /\ UNCHANGED <<static, provider, world, operations>>

-----------------------------------------------------------------------------
Step ==
    \/ AddFinalizer \/ RemoveFinalizer
    \/ ReadSecrets \/ ProbeConnection \/ Panic
    \/ UpdateStatus \/ HandleError

User ==
    \/ \E connections \in Specs :
        CreateProvider(connections) \/ EditProvider(connections)
    \/ DeleteProvider
    \/ \E s \in Servers : ChangeSecret(s)

Next ==
    \/ Reconcile \/ Step \/ Sync \/ User
    \/ \E s \in Servers : Outage(s) \/ Return(s)
    \/ Crash

Spec == Init /\ [][Next]_vars

\* The worker takes what is queued and goes on with it, and the informer
\* delivers.  Users and servers need not do anything.
Fairness == WF_vars(Reconcile) /\ WF_vars(Step) /\ WF_vars(Sync)

FairSpec == Spec /\ Fairness

-----------------------------------------------------------------------------
(* Properties.                                                             *)

Observed == provider.ready = "True" /\ provider.observedGeneration = provider.generation

\* Ready, as of the generation it names, means: the status lists the
\* connections of the spec as they are in it, one that is enabled answered, and
\* a relational one that is called available has the table requests need
\* (Initialize), although users edit the spec while it is being probed and
\* status and spec are written separately.
ReadyServes ==
    provider.exists /\ Observed =>
        LET spec == provider.connections
            status == provider.connectionStatus
        IN  /\ Len(status) = Len(spec)
            /\ \A n \in 1 .. Len(spec) :
                /\ status[n].name = spec[n].name
                /\ status[n].enabled = spec[n].enabled
                /\ status[n].available /\ kind = "relational" =>
                    spec[n].server \in initialized
            /\ \E n \in 1 .. Len(spec) : status[n].available /\ spec[n].enabled
            /\ \A m, n \in 1 .. Len(spec) : spec[m].name = spec[n].name => m = n

\* Once its finalizer is there, the controller leaves the spec alone: only the
\* Update that adds it may turn a disabled connection into an enabled one.
SpecKept ==
    [][/\ provider.exists /\ provider.finalizer
       /\ provider'.exists
       /\ operations' = operations
       => provider'.connections = provider.connections]_vars

\* Nothing but the controller is in the way of the provider.
Serviceable ==
    /\ hasClient
    /\ SecretsFound(provider.connections)
    /\ UniqueNames(provider.connections)
    /\ \E n \in DOMAIN provider.connections :
        provider.connections[n].enabled /\ provider.connections[n].server \in up

\* A provider that can be served becomes Ready for its last spec and one that is
\* deleted goes, whatever was refused, lost or down on the way: errors are
\* retried, and no edit is lost to the skip or to the event filter.
Converges ==
    <>[](provider.exists => ~provider.deleting /\ (Serviceable => Observed))

\* Connections of equal names are reported in the end, even when the write that
\* reports them fails (handleError only logs it).
DuplicatesReported ==
    <>[](/\ provider.exists
         /\ \E m, n \in DOMAIN provider.connections :
                m /= n /\ provider.connections[m].name = provider.connections[n].name
         => provider.ready = "False")
=============================================================================
