# Verification of the DBaaS controller

TLA+ modules, TLC configurations and TLAPS proofs about the controller in
`src/`: a Kubernetes operator that gives every `DatabaseRequest` a database on
one of the servers a `RelationalDatabaseProvider` lists, and publishes it as a
Service and a Secret.

Abbreviations: *DRC* is `src/internal/controller/databaserequest_controller.go`,
*RPC* and *MPC* are `relationaldatabaseprovider_controller.go` and
`mongodbprovider_controller.go` beside it, *database.go* is
`src/internal/database/database.go`, *mongodb.go* is
`src/internal/database/mongodb/mongodb.go`, *types* is
`src/api/v1alpha1/databaserequest_types.go`.

## 1. The system

| component | state it keeps | operations |
|---|---|---|
| DatabaseRequest controller (DRC) | nothing but a map of locks; everything else is re-read in every reconcile | `Reconcile`: finalizer, seed or creation, database information, Service, Secret, update of spec and status; `deleteDatabase`; `handleError` |
| DatabaseRequest type (types) | in the API server: metadata, spec, status | written by users (spec) and by the controller (finalizer, spec, status) |
| relational database client (database.go) | a cache of `*sql.DB` by DSN, each a pool of sessions; on every server a table `users` with name, namespace, username, password, dbname | `Ping`, `Version`, `Load`, `Initialize`, `CreateDatabase`, `DropDatabase`, `GetDatabaseInfo`, `SetDatabaseInfo` |
| provider selection (DRC 910-981, 670-743) | none | the enabled connection with the lowest load among the providers of the selector; the connection of a reference, by name |
| RelationalDatabaseProvider controller (RPC) | finalizer and status of the provider | ping, version and `Initialize` of every connection, Ready when one that is enabled works |
| MongoDBProvider controller (MPC) | the same for MongoDB | ping and version |
| MongoDB client (mongodb.go) | a cache of clients by options; on every server a collection `users`, a database and an account for each name | `Ping`, `Version`, `GetUser`, `CreateUserAndDatabase`, `DropUserAndDatabase` |
| cmd/main.go | - | wires one shared relational client into two controllers and none into the third; ten concurrent reconciles by default |
| metrics, events, generated code, mocks, tests | - | no effect on behaviour |

How they interact:

- Users write `DatabaseRequest`s and seed secrets. The informer of the controller
  delivers changes of the *generation* (`GenerationChangedPredicate`, DRC 583-600)
  into a work queue that runs at most one reconcile per name.
- A reconcile reads the request from the cache, then calls the API server and a
  database server, one call after the other. Every error returns, writes the
  failed status (`handleError`) and is retried by the queue.
- The two controllers that use the relational client share its cache of pools and
  its sessions. MySQL's `USE dbaas_controller` is a property of one session of a pool.
- The request controller reads the *spec* of providers (never their status) to
  find a connection; what it needs on the server, the table of users, the provider
  controller has made there in `Initialize`, if it could.
- Nothing calls the MongoDB client but the MongoDBProvider controller (`Ping`,
  `Version`), which is not given one.

What is hard about it: reconciles that stop between any two calls (a refused
write, a lost answer, a restart) and are done again from what is stored; reads
from caches that are behind; the answer to an Update that is decoded over the
object in memory; two requests on one server; statements of two goroutines on one
pool; and a status, a spec, a Service, a Secret, a table row and a database that
are written separately and have to agree in the end.

`PROJECT.json` lists the hazards at their lines, with the properties that would
catch each.

### What makes each component correct

- *DatabaseRequest controller*: nothing it publishes outlives the request
  (`NoOrphans`); at rest and Ready, Service and Secret are those of the
  connection in the spec (`ReadyPublished`) and can be used (`ReadyUsable`); the
  credentials applications got do not change under them (`CredentialsStable`); a
  deletion drops the request's own database (`NoLeak`) and no other
  (`LiveDatabaseKept`); whatever fails, it gets there in the end (`Converges`,
  `DeletionCompletes`).
- *relational client*: a call that returns without an error has done all of its
  work, whatever earlier calls left behind (`CreatedUsable`, `DroppedGone`); calls
  about one name never disturb another (`UsableKept`); together: it implements
  `DatabaseServer` (`Implements`).
- *provider selection*: a database is made where the load was least among all
  enabled connections, whatever is edited meanwhile (`CreatedOnLeast`); the
  reference, which is by names, leads back to it (`ReferenceLocates`); in the end
  a request is served or its database dropped if the servers allow it (`Settles`).
- *provider controllers*: Ready speaks of the generation it names (`ReadyServes`);
  the controller does not change the spec behind the user's back (`SpecKept`);
  errors, edits and deletions are dealt with in the end (`Converges`,
  `DuplicatesReported`).
- *connection cache*: a goroutine does not open a pool twice (`OpenedOnce`) and
  never gets one of another server or process (`NeverStale`).
- *MongoDB client*: as for the relational one (`CreatedUsable`, `DroppedGone`,
  `UsableKept`), and nothing is left that a later call could not find
  (`NothingUnnamed`).

## 2. The modules

    DatabaseRequestObject          the custom resource, API server and decoder
      ^
    DatabaseRequest                the controller, users, informers, faults
      ^                 ^
      |                 DatabaseRequestProofs
      |                 ^
      |                 DatabaseRequestServerProofs  (extends DatabaseRequestServer too)
      |                 ^
      |                 DatabaseRequestLiveProofs
      |
    DatabaseRequestServer  --INSTANCE, one per connection-->  DatabaseServer
      ^                                                         ^
    MCDatabaseRequest              RelationalDatabase  --INSTANCE, refines--+
                                     ^
                                   MCRelationalDatabase, RelationalDatabaseProofs

    DatabaseProvider     the two provider controllers
      <-- MCDatabaseProvider, DatabaseProviderProofs
    ProviderSelection    requests, providers and servers
      <-- MCProviderSelection, ProviderSelectionProofs
    ConnectionCache      the map of pools
      <-- MCConnectionCache, ConnectionCacheProofs
    MongoDBDatabase      the MongoDB client
      <-- MCMongoDBDatabase, MongoDBDatabaseProofs

Arrows point at the module that is extended; `...Proofs` hold the theorems TLAPS checks.

**DatabaseRequestObject** is a record for the object and the operators the API
server applies to it: `PutObject` (Update: finalizers and spec; a changed spec
gets a new generation; an object that is being deleted goes with its last
finalizer), `PutStatus` (Status().Update), `Deleted`, `Created`, `Edited`. Two
conversions are modelled by what they do: `EncodedDrop`, a `false` with
`omitempty` that the API server's default turns into `true` (types 87-89), and
`Decode`, the JSON answer to a write, whose absent fields leave what the object in
memory had. The condition Error is set exactly when Ready is False and removed
before Ready is True, so `ready` stands for both. The selector, `spec.name`, the
additional users and `status.databaseInfo` are left out.

**DatabaseRequest** is the controller. `pc[k]` is the call the reconcile of
request `k` makes next, `obj[k]`, `dbInfo[k]` and `changed[k]` are its memory. The
actions follow DRC call by call:

| action | code |
|---|---|
| `Reconcile`, `FirstStep`, `CreateStep`, `DeleteStep` | the Get and the decisions of `Reconcile`, 109-150 and 455-473 |
| `AddFinalizer` | 135-139 |
| `HandleSeed`, `SetDatabaseInfo`, `DeleteSeedSecret` | `handleSeed`, `relationalDatabaseInfoFromSeed`, 308-352, 831-908 |
| `Candidates`, `CreateDatabase`, `UpdateCreateStatus` | `findRelationalDatabaseProvider`, any of whose connections may have the lowest load, `createDatabase`, `relationalDatabaseOperation(create)`, 910-981, 517-545, 746-778 |
| `GetDatabaseInfo` | 178-214, 796-818 |
| `HandleService`, `HandleSecret`, `Panic` | 354-448; `Panic` is the nil `dbInfo` of a type without a client |
| `UpdateRequest`, `UpdateStatus` | 216-253 |
| `HandleError` | 256-298, with the status write that may fail and is only logged |
| `DropDatabase`, `UpdateDropStatus`, `DeleteService`, `DeleteSecret`, `RemoveFinalizer` | `deleteDatabase`, `relationalDatabaseOperation(drop)`, 450-515, 779-795 |
| `SyncRequest`, `SyncService`, `SyncSecret` | informers; `SyncRequest` has the event filter of `SetupWithManager` |
| `CreateRequest`, `DeleteRequest`, `ForceReconcile`, `ChangeReference` | users |
| `Crash` | the process ends and starts again: memory, queue and caches are rebuilt |

A write carries the version that was read (`Fresh`); it may be refused, may not
arrive, or may take effect without its answer coming back (`Refused`, `Fails`).
A call to a server may fail before it, after its row, or after all of it took
effect. The cache of requests is always allowed to be behind; the caches of
Services and Secrets are when `CacheLag` is TRUE.

**DatabaseServer** is what the requests rely on in a server: the table gives each
name credentials of its own once and for all, and a call about a name makes or
drops the database of these and no other. **RelationalDatabase** refines it
(`Implements`): every SQL statement of database.go is a step, on a session taken
from the pool (`Take`, `Release`: last in first out, two idle sessions, as in
`database/sql`), for a server that is MySQL or PostgreSQL from the start
(`server.type`). **DatabaseRequestServer** closes the loop: on every connection,
what `DatabaseRequest` does in its coarser steps is a behaviour of
`DatabaseServer` (`ServersUsed`). So the two levels of detail meet in one
specification.

**DatabaseProvider** is the controller of `RelationalDatabaseProvider` and of
`MongoDBProvider`: one program, but for the calls a connection is probed with and
for the client (`kind`, `hasClient`). It has one worker, so one provider is enough:

| action | code |
|---|---|
| `Reconcile`, `FirstStep` | the Get, the deletion, the skip on Ready and `observedGeneration`: RPC 91-127, MPC 95-130 |
| `AddFinalizer`, `RemoveFinalizer` | RPC 107-116, 129-133; MPC 110-119, 132-138. The Update writes the whole spec; `Encoded` is what `omitempty` and the CRD default of `enabled` make of it |
| `ReadSecrets` | the passwords of all connections and their unique names, RPC 135-178, MPC 140-175 |
| `ProbeConnection`, `Record` | `Ping`, `Version`, `Initialize` of one connection after the other; an error ends the probe of that connection only: RPC 180-265, MPC 177-248 |
| `Panic` | `Ping` of the client that cmd/main.go 147-150 does not set |
| `UpdateStatus`, `HandleError` | RPC 267-315, MPC 250-295; the lost write of a failed status is logged by one and returned by the other, and either way the queue tries again |
| `Sync` | the informer and the event filter, RPC 353-369, MPC 303-320 |
| `CreateProvider`, `EditProvider`, `DeleteProvider`, `ChangeSecret`, `Outage`, `Return`, `Crash` | users, servers, restarts |

**ProviderSelection** is what `relationalDatabaseOperation` does to find a server.
`List` takes the matching providers in any order. The two nested loops meet a
connection at a *place* `<<n, m>>`, the m-th connection of the n-th provider, and
the loops' order is that of places (`Before`, `Reached`). `Measure` is one turn of the
inner loop; `measured` and `best`, the loads of the places that are behind and the
place of the choice, stand for the loop's `load`, `provider` and `connName`
(`LeastLoad`, `ChosenFrom`, `Chosen`). `Target` resolves the choice, or a reference, to
the last connection of its name, as DRC 710-717 does; `Create` and `Drop` end with the reference
written, or not; `Fail` is any error, which ends the whole selection. It is
composed with what the other controller does to the servers (`Initialize`) and
with users that edit, disable, delete and restore providers (`ChangeProvider`).

**ConnectionCache** is `GetConnection` (database.go 94-107; `GetClient`, mongodb.go
102-114, is the same): `Look`, `Open` and `Write` are separate steps, and the write
of the map lasts until `Enter`. An access that overlaps one is a data race, with
the outcomes a Go program can have: the runtime ends the process (`FatalRace`), or
it notices nothing, and a lookup may miss or find the entry (`RacyLook`), a write
may lose entries (`RacyWrite`, `Written`). It stands by itself: callers do not
depend on which pool of a DSN they get, and the crash it may cause is a step of
every other module already.

**MongoDBDatabase** is the MongoDB client, one step per command, with `Program`
listing the commands of each call. `Upsert` is `$setOnInsert`: a document that is
there wins. `Find` draws new names when there is no document, and panics if there
is nothing to draw (a namespace of 63 characters, mongodb.go 139).

## 3. Model checking

Every run finishes in two minutes or less with two workers. Operations of users and
faults are bounded by `MaxOperations` and `MaxFaults` (for the clients calls by
`MaxCalls`, for the cache races by `MaxRaces`); a fault is a failing call, a lost
answer, a lost session, an outage or a restart. Deadlock is not checked where users
may use up their operations and the system is then at rest; it is in the run
`cache`, whose goroutines never stop. In no run is a bound so small that its case
does not occur: every action and disjunct fires.

| run | instance | checks |
|---|---|---|
| `single` | 1 request of any type, 1 connection, 2 faults, 4 operations; 194k states | `TypeOK`, `OrphanInv`, `NoOrphans`, `ReadyUsable`, `NoLeak`, `UnsupportedUnserved` |
| `migrate` | 1 request, plain or with a seed for either connection, 2 connections, edits of the reference, 1 fault, 4 operations; 650k | `ReadyPublished`, `ServersUsed`, `CredentialsStable` |
| `two` | 2 requests with or without the same seed, 2 workers, 1 fault, 4 operations, symmetric in the requests; 2.4M | `RowsDistinct`, `LiveDatabaseKept`, `ServersUsed` |
| `live` | `FairSpec`, lagging caches, 2 faults, 3 operations; 181k | `DeletionCompletes`, `Converges` |
| `relational` | 2 names, 2 goroutines, 2 sessions, both types, colliding draws and a seed, 1 fault, 4 calls, symmetric; 419k | `TypeOK`, `CreatedUsable`, `DroppedGone`, `UsableKept`, `Implements` |
| `provider` | `FairSpec`, a provider of either kind with one connection, with two of which one is disabled, or with two of one name; 2 servers, 2 faults, 3 operations; 541k | `TypeOK`, `ReadyServes`, `SpecKept`, `Converges`, `DuplicatesReported` |
| `selection` | `FairSpec`, 1 request, 2 providers that share a name of a connection, one with two connections, 2 servers, 2 loads, 2 faults, 3 operations; 112k | `TypeOK`, `ReferenceLocates`, `CreatedOnLeast`, `Settles` |
| `cache` | 3 goroutines, 2 DSNs, 2 data races, symmetric; 26k | `TypeOK`, `OpenedOnce`, `NeverStale` |
| `mongodb` | 2 names and one that cannot draw, 2 goroutines, 2 faults, 4 calls, symmetric; 74k | `TypeOK`, `CreatedUsable`, `DroppedGone`, `NothingUnnamed`, `UsableKept` |

Why these bounds are enough to be worth it: four operations are create, edit,
delete and create again, the longest life after which a name is where it was; two
faults make a retry fail as well; two requests with two workers are all a pair of
interleaved reconciles takes, and no step involves three; four calls are two per
name, so that a call meets what a failed one left. Requests do not see each other
in the selection, so one is enough there; three operations are an edit, a deletion
and a restoration of a provider, or a deletion of the request among two of these.
Two races are one that loses an entry and one that meets the loss; with three
goroutines two write while a third looks. `NoLeak` is checked on one
connection: with two, the code does not have it (section 5). `ReadyUsable` is checked
where users set no reference and have no seed, the hypothesis of its theorem
(section 4); with either, the code does not have it.

`CacheLag` is combined with one connection only. With two, a creation that is
retried against a stale Service may alternate between connections without end,
each time with a new resource version, and no bound in the code stops it.

In `selection` a name of a connection keeps its server within a provider: a user
who lets it stand for another one has moved the databases as well.

**Fairness** (`FairSpec`, run `live`): a worker goes on with the reconcile it has
(weak fairness of `Step`), informers deliver (weak fairness of the `Sync`
actions), and the work queue hands out its items in order (strong fairness of
`Reconcile`, because another request may take the worker in between). Users are
not fair: they may stop at any time. Faults are not fair: they may never happen.
`Converges` leaves out a deletion that has no reference to drop by, which
the code retries without end (`relDBDeletion`, DRC 983-996). In the run `provider`
the worker takes what is queued, goes on with it, and the informer delivers (weak
fairness of `Reconcile`, `Step` and `Sync`: one worker has one item, nothing else
takes it away). In `selection` weak fairness of each request's `Reconcile` stands for its
worker and the retries of the queue. Nothing is assumed of users, of the provider
controller or of servers coming back: `Converges`, `DuplicatesReported` and
`Settles` say what holds in the state the world is in when it stops changing.

Seed credentials are disjoint from generated ones in all instances: generated
names have 16 random characters.

## 4. Proofs

TLC checks the instances above; TLAPS proves the following for every value of the
constants that meets the named assumptions of the modules, which TLC evaluates in
every run. Each proof has the same shape: an inductive invariant (checked by TLC on the
instances above before it was proved), one lemma per action, and a last step
that puts them together.

**The assumptions.** Bounds are natural numbers and `None` is no other value; the
sets of requests, connections, names, workers, sessions and providers are any sets
(providers are finitely many, so that they can be listed).
About data: drawn credentials do not meet those of seeds (`SeedAssumption`,
`InfosAssumption`: 16 random characters); credentials that `RelationalDatabase`
draws may meet each other, as the table's unique keys are what settles that; two
draws of the MongoDB client differ in user and in database (`DistinctAssumption`: its
collection has no such keys); loads are less than the largest integer, the load a
selection starts with. Eight theorems have a hypothesis of their own: `SeedsApart`,
`NamesKeepServers`, `Unassisted` and `SeedsOwned` are about what users write,
`OneConnection` is about what there is to choose from, and `~CacheLag` says that the
caches of Services and Secrets are current. Each is explained below, with what goes
wrong without it.

**`DatabaseRequestProofs`**

- `TypeCorrect`: `Spec => []TypeOK`. `TypeOK` is not inductive alone: a step that
  reads `dbInfo[k]` or a reference needs it to be there. The inductive invariant
  is `TypeInv == TypeOK /\ WorkerInv`.
- `NoOrphansCorrect`: `Spec => []NoOrphans`. The argument: a Service or Secret
  only exists together with the object and its finalizer (`Guarded`). To keep
  that, a creating reconcile must still find the finalizer at every later call
  (`CreatingInv`), although it acts on an object read from a cache; so only a
  deleting reconcile may remove the finalizer, and it may not work on an object
  that lives (`DeletingInv`); a write is accepted only over the version that was
  read, and that version tells which life of the name it is
  (`MemoryVersion`, `CacheInv`); and the deletion removes the finalizer after the
  Service and the Secret (`DeletingOrder`). All six are needed per request.
- `OrphanInvCorrect`: their conjunction `OrphanInv`, inductive together with
  `TypeInv`, holds; `single` checks it too.

**`DatabaseRequestServerProofs`**

- `RowsDistinctCorrect`: `Spec => []RowsDistinct`. The strengthening `RowInv` says
  what a row may hold: what was drawn for it, or what a seed brought; and that a
  reconcile about to insert a row as it is holds a seed's.
- `ServersUsedCorrect`: `Spec => ServersUsed`, the refinement of `DatabaseServer` on
  every connection. `CallOn` and `AdoptOn` describe what a step of the controller
  does to the servers, `ServersStep` sorts all actions into these and those that
  leave the servers alone, and each is a step of `DatabaseServer`, or a stutter, on
  the connection it is about and a stutter on all others.

**`DatabaseRequestLiveProofs`**

- `LiveDatabaseKeptCorrect`: `Spec => LiveDatabaseKept`. A database goes only in a
  `DropDatabase` for the row of its own request (`RowsDistinct` with the lemmas about
  `CallOn`), so it is enough that no reconcile drops for a name whose object is Ready
  and not being deleted. That reconcile may have read an earlier life of the name;
  `IdentityInv` says it cannot: an object with the finalizer is the one the cache and
  the reconcile at work are about.
- `UnsupportedUnservedCorrect`: `Spec => []UnsupportedUnserved`, from `ServedInv`:
  database information is only ever held by a reconcile of a relational type, and
  what exists is of the type of the object that is there (`KindInv`: the type of a
  life does not change; a new life starts with neither Service nor Secret, by
  `Guarded`).
- `ReadyPublishedCorrect`: `ASSUME ~CacheLag PROVE Spec => []ReadyPublished`. Two
  invariants carry it. `GenerationInv` is about the object itself: which of the
  versions in the store, the cache and the memory of a reconcile have the same spec (a
  generation that is the same, of the same object, is the same spec: `CachedSpec`,
  `MemorySpec`), what the answer to a write leaves in memory (`MemoryStatus`), and what
  seed and reference are at each call (`PathInv`). `PublishedInv` adds what is
  published: past `handleService` and `handleSecret` the Service and the Secret are
  those of the reference in memory (`PublishMemory`), and a Ready object that does not
  publish what its spec says is in the queue, is behind in the cache, or has a
  reconcile at work that will write it or fail (`ReadyInv`, `BehindInv`, `DoneInv`). The
  hard part is the skip on `observedGeneration` (DRC 144-150): `SeenInv` and `DoneInv`
  say that when a generation counts as observed, the one published is that one, although
  the answer to the Update at DRC 219 overwrites the field. Users may share seeds and
  change references. The hypothesis is needed: a stale Service or Secret is taken for the
  current one and left as it is (section 5).
- `NoLeakCorrect`: `ASSUME OneConnection PROVE Spec => []NoLeak`. A database with the
  credentials drawn for a request is the one its row leads to, its object is there with
  the finalizer and has no seed (`OwnedInv`), and a deletion that has got past
  `dropDatabase` has dropped it (`DroppedInv`). That a deletion does not skip the drop
  rests on `SeedInvs`: `dropDatabaseOnDelete` is true from the finalizer on (the `FALSE`
  is lost there, section 5), and a seed once adopted never comes back from an older
  copy. The hypothesis is needed: with two connections the run `leak` shows a database
  left behind, and so would a change of the reference.
- `ReadyUsableCorrect`: `ASSUME ~CacheLag, Unassisted PROVE Spec => []ReadyUsable`, for
  any number of connections. With what `ReadyPublishedCorrect` gives it is enough that a
  reference, wherever a copy of the object is kept, leads to a row and the row to a
  database (`Backed`, in `UsableInv`): only `createDatabase` and the writes after it make
  references, and only the request's own deletion drops the database. `Unassisted` says
  that users set no reference of a relational type and change none, and that no database
  there is before the controller is opened by a seed (a seed may still be given, and is
  then invalid: `AdoptionInv`). Without the first, `getDatabaseInfo` draws a row for a
  connection no database was made on (section 5); without the second, two requests may
  adopt one database and the deletion of one takes it from the other.
- `CredentialsStableCorrect`: `Spec /\ []SeedsOwned => CredentialsStable`, with lagging
  caches too. `CredentialInv` has two parts. `InfoRow`: what the Secret publishes has a
  row, and a reconcile that is about to publish has the row itself in memory, or a seed
  while nothing is published. `SeedUnspent`: while the seed secret is there, no copy of
  the object has lost the seed without its having been adopted, so nothing is published
  yet; this is what keeps a late `handleSeed` from replacing a Secret. A row is never
  changed once it is there (`RowsKeptStep`). `SeedsOwned` says that what the seed secret of
  one request brings is not in the row of another. Without it the `INSERT IGNORE` of the
  second does nothing, its Secret has the seed's credentials all the same, and the next
  reconcile draws a row for it and publishes that.
- `CredentialsStableUnshared`: the hypothesis holds of itself for a single request (the
  instance of the run `migrate`) and for any number of requests without seeds.

**`RelationalDatabaseProofs`** is about the statements of database.go. `RelationalInv` has
for each server what its rows, databases, accounts and grants have to do with each
other (`ServerInv`), and for each call, by the statements it has left, what it has
already achieved (`CallInv`). What one call has achieved survives the statements of all
others because no two calls are about one name (`ApartInv`, the work queue) and rows of
two names have neither user nor database in common.

- `TypeCorrect`, `CreatedUsableCorrect`, `DroppedGoneCorrect`, `UsableKeptCorrect`: the
  four properties of the run `relational`.
- `ImplementsCorrect`: `ASSUME SeedsApart PROVE Spec => Implements`, every statement is a
  step of `DatabaseServer` or a stutter. `SeedsApart` says that two different seeds
  share neither user nor database. Without it the theorem is false, and TLC shows it:
  with two seeds of one user, the drop for one name takes away the user the database
  of the other needs. Nothing in the code checks what is in a seed secret.

**`MongoDBDatabaseProofs`** has the same plan with `MongoInv`: documents are what was drawn
for their name, an account is in a document (`DocumentsInv`), a call has done what the
commands it has left say (`CallInv`), and every database is named by a document, about
to be, or left by a call that failed (`Named`). It proves `TypeCorrect`,
`CreatedUsableCorrect`, `DroppedGoneCorrect`, `NothingUnnamedCorrect` and
`UsableKeptCorrect`, all that the run `mongodb` checks.

**`DatabaseProviderProofs`** proves, with `ProviderInv`:

- `TypeCorrect`: `Spec => []TypeOK`.
- `ReadyServesCorrect`: `Spec => []ReadyServes`. The strengthening: memory and cache are
  past versions and say which connections that version has (`MemoryInv`, `CacheInv`);
  the results of a probe report on the connections in memory as they are
  (`ProbeInv`); what is about to be written as Ready names the generation in memory.
  A write over another version is refused, and every write of the connections makes
  a generation that the status is not of.
- `SpecKeptCorrect`: `Spec => SpecKept`. The only Update after the finalizer's is the one
  that removes it from a provider being deleted, which goes with it.

**`ProviderSelectionProofs`** proves, with `SelectionInv`:

- `TypeCorrect`: `Spec => []TypeOK`.
- `CreatedOnLeastCorrect`: `ASSUME NamesKeepServers PROVE Spec => CreatedOnLeast`. The
  invariant of the loops is `MemoryInv`: what has been measured comes before what has
  not, the choice is the first of the least, there is one when anything is measured
  (a load is less than the largest integer), and a creation has measured all.
- `ReferenceLocatesCorrect`: `ASSUME NamesKeepServers PROVE Spec => []ReferenceLocates`,
  from `LocatedInv`: whichever spec of the provider users come back to, the name leads
  to a server with the database; and only a request that is deleted is dropped.

`NamesKeepServers` says that within a provider, over all its specs, a name stands for
one server. The code resolves a choice and a reference by name, so a user who
uses one name for two servers, or moves it, gets a database elsewhere than was measured
or loses sight of it (section 5); the provider controller reports the first and
nothing notices the second. The instance of the run `selection` satisfies it.

**`ConnectionCacheProofs`** proves, from `CacheAssumption`, for any number of goroutines,
DSNs and data races:

- `TypeCorrect`: `Spec => []TypeOK`, which is inductive.
- `NeverStaleCorrect`: `Spec => []NeverStale`. The strengthening is `PoolInv`: every
  entry of the map, and every pool a goroutine holds on its way into the map, was
  opened by this process; so a lookup that races with a write still finds such a one.
- `OpenedOnceCorrect`: `Spec => []OpenedOnce`. The strengthening is `OnceInv`: while
  nothing is torn, what a goroutine has opened is in the map or is being written by
  that goroutine, and a goroutine about to open a pool has not opened it before.
  It needs the lookup to come first: a goroutine that finds nothing has either never
  opened the pool or lost it to a race.

**Only model-checked**, and why:

- Liveness (`DeletionCompletes`, `Converges`, `DuplicatesReported`, `Settles`) is out of
  the prover's reach: it has no rules for fairness and `ENABLED`. Every safety invariant
  and action property that a passing run checks is stated by a theorem.
- What holds beyond the hypotheses above is not proved. `ReadyUsable` of a request that is
  the only one with its seed, and `NoLeak` on several connections for requests whose
  creation is never retried, are neither proved nor refuted here.

## 5. Where the code and its documents disagree

Each of these is a run that TLC must find violated; `PROJECT.json` quotes the lines.

| run | property | what happens |
|---|---|---|
| `drop_flag` | `NothingDropped` | `dropDatabaseOnDelete: false` does not survive the first Update, which adds the finalizer: the database is dropped |
| `seed_secret` | `SeedSecretKept` | the seed secret is deleted before the spec stops asking for it; an edit in between leaves a request that fails for ever |
| `leak` | `NoLeak` | a refused write after the creation, and the retry creates a second database on another connection; the first is never dropped |

Seen while modelling and not given a run of their own:

- `status.observedGeneration` and `status.observedDatabaseConnectionReference` are
  set in memory before the Update at DRC 219, whose answer overwrites them: at rest
  they are behind the object (types 113-120, README 155 of the repository). The
  skip at DRC 144-150 therefore seldom applies.
- A request that is created again with a seed under a name that has been used
  before: the row of its earlier life makes the `INSERT IGNORE` (database.go 504)
  do nothing, without an error, and a later reconcile publishes the old
  credentials (comment: "SetDatabaseInfo sets the database name, username, and
  password", database.go 74).
- After a change of the reference `GetDatabaseInfo` inserts a row with random
  credentials on the new server, which belong to no database (DRC 181: "BUT we do
  not create a new database, user or password").
- A request that is deleted and created again may take the old Service and Secret
  in the caches for its own and become Ready without either; nothing looks again.
- The selection never looks at the status of a provider. A provider that is
  reported for two connections of one name is selected from all the same, and the
  database is made on the last of that name, which may be disabled or was not the
  one measured (DRC 711-717). A server whose `Initialize` has failed is measured
  and picked; the creation then fails there until it is initialised.
- One connection that cannot be measured fails the selection altogether (DRC 962),
  although others would do.
- A deleted provider leaves the requests that refer to it undeletable until it is
  restored (RPC 109 asks the question).
- A provider that became Ready while one of its connections was down does not probe
  or initialise that connection again before its spec changes; nor is a changed
  password noticed (RPC 118-127: "in case of an error the controller will try to
  reconcile again").
- `Load` reads the first row of `information_schema.tables` on MySQL, one table,
  and the size of the database `postgres` on PostgreSQL (database.go 179, 184);
  its comment says "the load of the MySQL or PostgreSQL database measured in MB".
- `enabled: false` of a connection is turned into `true` by the Update that adds the
  finalizer (RPC 129, MPC 133); after that it is left alone (`SpecKept`).
- `MongoDBProviderReconciler` has no client (cmd/main.go 147): every provider panics
  at its first `Ping` and is retried for ever.
- `CreateUserAndDatabase` "is idempotent" (mongodb.go 197), but a call that fails
  between the init document and the user document leaves a database whose name
  nothing remembers, and the next call draws another. `DropUserAndDatabase` that
  fails after `dropUser` fails at `dropUser` for ever, and the document stays.
- mongodb.go 139 panics for a namespace of 63 characters; for one of 62 all names of
  it share a database. `CreateMongoDBInfo` (263) shortens the namespace to 50 and is
  not called.
- The controller's map of locks (DRC 1035) gets an entry for every name and loses none.
- A request of type mariadb, which the CRD and the README allow, is retried for
  ever; its deletion, when the database is to be dropped, too.
- With two goroutines the SELECT after `USE dbaas_controller` (database.go 458-463)
  may run on a session that never said USE; it fails and the request is retried.
- `DropDatabase` of a name without a row inserts one (database.go 366).

## 6. What is not modelled

- *Requests with all their writes and providers that change, in one specification*:
  their product is far beyond TLC. `DatabaseRequest` allows any connection of
  `Pool` at any time and `ProviderSelection` writes a request's status and spec in
  one step; each has what the other leaves out. A provider's hostname that moves
  under its requests' Services is in neither.
- *Ping and Version of the MongoDB client, CreateMongoDBInfo*: the first two change
  nothing on a server (that they may fail is in `DatabaseProvider`), the third is not
  called.
- *What a load is*: a number the server answers.
- *Metrics, events, condition texts, the manager's flags and leader election,
  generated code, mocks*: no decision depends on them.
- *Column widths, collations, passwords as text, DSNs*: credentials are values
  that are equal or not.
- *The controller's own locks*: the queue already keeps reconciles of one name
  apart.

## 7. What could come next

The plan this project started from is done: the parts of section 6 apart, every component
has its module, every safety property its run and its theorem. Worth adding, in this
order:

1. `ReadyUsable` for seeds that belong to one request: `SeedUnspent` and `SeedsOwned` say
   what is needed of the row; what is missing is that nobody else drops the database.
2. `NoLeak` on several connections for a code that keeps the choice of a creation over
   its retries: the run `leak` is the test of such a change, and `OwnedInv` its invariant.
3. A liveness proof by hand of `DeletionCompletes`, along the steps `DroppedInv` and
   `DeletingOrder` name.
