------------------------ MODULE DatabaseProviderProofs ------------------------
(***************************************************************************)
(* Proofs about DatabaseProvider, for both kinds of provider and every set *)
(* of specs, servers, faults and user operations.                          *)
(***************************************************************************)
EXTENDS DatabaseProvider, SequenceTheorems, TLAPS

-----------------------------------------------------------------------------
(* The invariant.                                                          *)

\* A provider has connections, and its status is of no later generation.
ObjectInv(o) ==
    /\ o.exists => o.connections /= <<>>
    /\ o.observedGeneration <= o.generation

\* The cache holds a past version.
CacheInv ==
    /\ cached.resourceVersion <= provider.resourceVersion
    /\ cached.resourceVersion = provider.resourceVersion => cached = provider

\* A reconcile works on a past version: nothing of it when it writes the spec,
\* and no part but the status, has changed in its memory.
MemoryInv ==
    /\ pc /= "idle" =>
        /\ obj.exists
        /\ obj.resourceVersion <= provider.resourceVersion
        /\ obj.resourceVersion = provider.resourceVersion =>
            /\ obj.connections = provider.connections
            /\ obj.generation = provider.generation
    /\ /\ pc \in {"addFinalizer", "removeFinalizer"}
       /\ obj.resourceVersion = provider.resourceVersion
       => obj = provider
    /\ pc = "addFinalizer" => ~obj.finalizer
    /\ pc = "removeFinalizer" => obj.deleting

\* The calls a probe has left: the last of a relational one is Initialize.
CallsLeft(k) ==
    IF k = "relational"
    THEN {RelationalProbe, <<"version", "initialize">>, <<"initialize">>}
    ELSE {MongoDBProbe, <<"version">>}

\* The status of the first connections says what they are and what was found.
Reports(spec, status) ==
    \A n \in 1 .. Len(status) :
        /\ status[n].name = spec[n].name
        /\ status[n].enabled = spec[n].enabled
        /\ status[n].available /\ kind = "relational" => spec[n].server \in initialized

\* What Ready says of a spec and a status.
Serves(spec, status) ==
    /\ Len(status) = Len(spec)
    /\ Reports(spec, status)
    /\ Serving(status)
    /\ UniqueNames(spec)

\* How far a reconcile has come.
ProbeInv ==
    /\ pc \in {"idle", "addFinalizer", "readSecrets"} => results = <<>>
    /\ pc = "probe" =>
        /\ calls \in CallsLeft(kind)
        /\ Len(results) < Len(obj.connections)
        /\ Reports(obj.connections, results)
        /\ UniqueNames(obj.connections)
    /\ pc = "updateStatus" =>
        /\ Serves(obj.connections, obj.connectionStatus)
        /\ obj.observedGeneration = obj.generation

\* What a provider that is called Ready as of its generation has.
ReadyInv ==
    provider.exists /\ Observed =>
        Serves(provider.connections, provider.connectionStatus)

ProviderInv ==
    /\ TypeOK
    /\ ObjectInv(provider) /\ ObjectInv(cached) /\ ObjectInv(obj)
    /\ CacheInv
    /\ MemoryInv
    /\ ProbeInv
    /\ ReadyInv

-----------------------------------------------------------------------------
(* What a write does to the provider.                                      *)

LEMMA Successor == \A n \in Nat : n + 1 \in Nat /\ n + 1 /= n
OBVIOUS

\* The provider in a state of its own, and the fields of an object.
LEMMA FieldTypes ==
    ASSUME NEW o \in Object
    PROVE  /\ o.exists \in BOOLEAN /\ o.deleting \in BOOLEAN /\ o.finalizer \in BOOLEAN
           /\ o.uid \in Nat /\ o.resourceVersion \in Nat /\ o.generation \in Nat
           /\ o.observedGeneration \in Nat
           /\ o.connections \in Seq(Connection)
           /\ o.connectionStatus \in Seq(ConnectionStatus)
           /\ o.ready \in {"unset", "False", "True"}
BY DEF Object

LEMMA AbsentType ==
    ASSUME NEW rv \in Nat
    PROVE  /\ Absent(rv) \in Object
           /\ ~Absent(rv).exists
           /\ ~Absent(rv).deleting
           /\ Absent(rv).resourceVersion = rv
           /\ Absent(rv).ready = "unset"
           /\ ObjectInv(Absent(rv))
<1>1. <<>> \in Seq(Connection) /\ <<>> \in Seq(ConnectionStatus)
  OBVIOUS
<1> QED
  BY <1>1 DEF Absent, Object, ObjectInv

\* The defaults of the CRD keep the number of connections.
LEMMA EncodedType ==
    ASSUME NEW connections \in Seq(Connection)
    PROVE  /\ Encoded(connections) \in Seq(Connection)
           /\ connections /= <<>> => Encoded(connections) /= <<>>
<1>1. /\ DOMAIN connections = 1 .. Len(connections) /\ Len(connections) \in Nat
      /\ \A n \in 1 .. Len(connections) : connections[n] \in Connection
  OBVIOUS
<1>2. \A n \in 1 .. Len(connections) :
        [connections[n] EXCEPT !.enabled = TRUE] \in Connection
  BY <1>1 DEF Connection
<1>3. Encoded(connections) \in [1 .. Len(connections) -> Connection]
  BY <1>1, <1>2 DEF Encoded
<1>4. Encoded(connections) \in Seq(Connection)
  BY <1>1, <1>3, SeqDef
<1>5. connections /= <<>> => Encoded(connections) /= <<>>
  BY <1>1, <1>3, <1>4
<1> QED
  BY <1>4, <1>5

\* A write that changes something makes a version.
LEMMA WrittenShape ==
    ASSUME provider \in Object, NEW new \in Object
    PROVE  /\ Written(new) \in Object
           /\ Written(new).exists = new.exists
           /\ Written(new).deleting = new.deleting
           /\ Written(new).finalizer = new.finalizer
           /\ Written(new).generation = new.generation
           /\ Written(new).connections = new.connections
           /\ Written(new).ready = new.ready
           /\ Written(new).connectionStatus = new.connectionStatus
           /\ Written(new).observedGeneration = new.observedGeneration
           /\ \/ Written(new) = provider
              \/ Written(new).resourceVersion = provider.resourceVersion + 1
<1>1. CASE new = provider
  BY <1>1 DEF Written
<1>2. CASE new /= provider
  <2>1. provider.resourceVersion + 1 \in Nat
    BY FieldTypes, Successor
  <2>2. Written(new) = [new EXCEPT !.resourceVersion = provider.resourceVersion + 1]
    BY <1>2 DEF Written
  <2> QED
    BY <2>1, <2>2 DEF Object
<1> QED
  BY <1>1, <1>2

\* Status().Update leaves everything else alone.
LEMMA PutStatusShape ==
    ASSUME provider \in Object, NEW new \in Object
    PROVE  /\ PutStatus(new) \in Object
           /\ PutStatus(new).exists = provider.exists
           /\ PutStatus(new).deleting = provider.deleting
           /\ PutStatus(new).finalizer = provider.finalizer
           /\ PutStatus(new).generation = provider.generation
           /\ PutStatus(new).connections = provider.connections
           /\ PutStatus(new).ready = new.ready
           /\ PutStatus(new).connectionStatus = new.connectionStatus
           /\ PutStatus(new).observedGeneration = new.observedGeneration
           /\ \/ PutStatus(new) = provider
              \/ PutStatus(new).resourceVersion = provider.resourceVersion + 1
<1> DEFINE stored == [provider EXCEPT
                        !.ready = new.ready,
                        !.connectionStatus = new.connectionStatus,
                        !.observedGeneration = new.observedGeneration]
<1>1. /\ stored \in Object
      /\ stored.exists = provider.exists
      /\ stored.deleting = provider.deleting
      /\ stored.finalizer = provider.finalizer
  BY DEF Object
<1>2. /\ stored.generation = provider.generation
      /\ stored.connections = provider.connections
      /\ stored.ready = new.ready
      /\ stored.connectionStatus = new.connectionStatus
      /\ stored.observedGeneration = new.observedGeneration
  BY DEF Object
<1>3. PutStatus(new) = Written(stored)
  BY DEF PutStatus
<1> HIDE DEF stored
<1> QED
  BY <1>1, <1>2, <1>3, WrittenShape

\* Update removes an object that is being deleted, or writes its finalizer and its
\* connections: other connections are another generation.
LEMMA PutObjectShape ==
    ASSUME provider \in Object, NEW new \in Object
    PROVE  \/ /\ PutObject(new) = Absent(provider.resourceVersion + 1)
              /\ provider.deleting /\ ~new.finalizer
           \/ /\ ~(provider.deleting /\ ~new.finalizer)
              /\ PutObject(new) \in Object
              /\ PutObject(new).exists = provider.exists
              /\ PutObject(new).deleting = provider.deleting
              /\ PutObject(new).finalizer = new.finalizer
              /\ PutObject(new).connections = Encoded(new.connections)
              /\ PutObject(new).ready = provider.ready
              /\ PutObject(new).connectionStatus = provider.connectionStatus
              /\ PutObject(new).observedGeneration = provider.observedGeneration
              /\ \/ /\ PutObject(new).generation = provider.generation
                    /\ PutObject(new).connections = provider.connections
                 \/ PutObject(new).generation = provider.generation + 1
              /\ \/ PutObject(new) = provider
                 \/ PutObject(new).resourceVersion = provider.resourceVersion + 1
<1> DEFINE stored == [provider EXCEPT
                        !.finalizer = new.finalizer,
                        !.connections = Encoded(new.connections)]
           bumped == [stored EXCEPT !.generation = stored.generation + 1]
<1>1. Encoded(new.connections) \in Seq(Connection)
  BY EncodedType, FieldTypes
<1>2. /\ stored \in Object
      /\ stored.exists = provider.exists
      /\ stored.deleting = provider.deleting
      /\ stored.finalizer = new.finalizer
      /\ stored.connections = Encoded(new.connections)
  BY <1>1 DEF Object
<1>3. /\ stored.ready = provider.ready
      /\ stored.connectionStatus = provider.connectionStatus
      /\ stored.observedGeneration = provider.observedGeneration
      /\ stored.generation = provider.generation
  BY DEF Object
<1> HIDE DEF stored
<1>4. stored.generation + 1 \in Nat
  BY <1>2, FieldTypes, Successor
<1>5. /\ bumped \in Object
      /\ bumped.exists = stored.exists
      /\ bumped.deleting = stored.deleting
      /\ bumped.finalizer = stored.finalizer
      /\ bumped.connections = stored.connections
  BY <1>2, <1>4 DEF Object
<1>6. /\ bumped.ready = stored.ready
      /\ bumped.connectionStatus = stored.connectionStatus
      /\ bumped.observedGeneration = stored.observedGeneration
      /\ bumped.generation = stored.generation + 1
  BY <1>2, <1>4 DEF Object
<1>7. CASE provider.deleting /\ ~new.finalizer
  BY <1>7 DEF PutObject
<1>8. CASE ~(provider.deleting /\ ~new.finalizer) /\ stored.connections = provider.connections
  <2>1. PutObject(new) = Written(stored)
    BY <1>8 DEF PutObject, stored
  <2> HIDE DEF bumped
  <2> QED
    BY <1>2, <1>3, <1>8, <2>1, WrittenShape
<1>9. CASE ~(provider.deleting /\ ~new.finalizer) /\ stored.connections /= provider.connections
  <2>1. PutObject(new) = Written(bumped)
    BY <1>9 DEF PutObject, stored
  <2> HIDE DEF bumped
  <2> QED
    BY <1>2, <1>3, <1>5, <1>6, <1>9, <2>1, WrittenShape
<1> QED
  BY <1>7, <1>8, <1>9

-----------------------------------------------------------------------------
(* The parts of the invariant a step leaves alone.                         *)

\* The provider is as it was, or of the next version.
Moved ==
    \/ provider' = provider
    \/ provider'.resourceVersion = provider.resourceVersion + 1

\* What is known of a provider stays true as tables of users come.
LEMMA ReadyKept ==
    ASSUME ReadyInv, provider' = provider, kind' = kind, initialized \subseteq initialized'
    PROVE  ReadyInv'
BY DEF ReadyInv, Observed, Serves, Reports

LEMMA CacheKept ==
    ASSUME TypeOK, provider' \in Object, CacheInv, Moved, cached' = cached
    PROVE  CacheInv'
<1>1. /\ cached.resourceVersion \in Nat /\ provider.resourceVersion \in Nat
      /\ provider'.resourceVersion \in Nat
  BY FieldTypes DEF TypeOK
<1> QED
  BY <1>1 DEF CacheInv, Moved

LEMMA MemoryKept ==
    ASSUME TypeOK, provider' \in Object, MemoryInv, Moved, pc' = pc, obj' = obj
    PROVE  MemoryInv'
<1>1. /\ obj.resourceVersion \in Nat /\ provider.resourceVersion \in Nat
      /\ provider'.resourceVersion \in Nat
  BY FieldTypes DEF TypeOK
<1> QED
  BY <1>1 DEF MemoryInv, Moved

\* A reconcile that goes on with the same version in its memory.
LEMMA MemoryMoved ==
    ASSUME TypeOK, provider' \in Object, MemoryInv, Moved, pc /= "idle",
           pc' \notin {"addFinalizer", "removeFinalizer"},
           obj'.exists = obj.exists,
           obj'.connections = obj.connections,
           obj'.resourceVersion = obj.resourceVersion,
           obj'.generation = obj.generation
    PROVE  MemoryInv'
<1>1. /\ obj.resourceVersion \in Nat /\ provider.resourceVersion \in Nat
      /\ provider'.resourceVersion \in Nat
  BY FieldTypes DEF TypeOK
<1>2. /\ obj.resourceVersion <= provider'.resourceVersion
      /\ obj.resourceVersion = provider'.resourceVersion => provider' = provider
  BY <1>1 DEF MemoryInv, Moved
<1> QED
  BY <1>2 DEF MemoryInv

\* A probe that goes on keeps what it has found, whoever makes tables.
LEMMA ProbeKept ==
    ASSUME ProbeInv, UNCHANGED <<pc, memory>>, kind' = kind,
           initialized \subseteq initialized'
    PROVE  ProbeInv'
BY DEF ProbeInv, Serves, Reports, memory, CallsLeft

LEMMA IdleKept ==
    ASSUME Idle
    PROVE  /\ MemoryInv' /\ ProbeInv'
           /\ obj' \in Object /\ ObjectInv(obj)'
           /\ calls' \in Seq({"ping", "version", "initialize"})
           /\ results' \in Seq(ConnectionStatus)
<1>1. Absent(0) \in Object /\ ObjectInv(Absent(0))
  BY AbsentType
<1>2. ObjectInv(obj)'
  BY <1>1 DEF Idle, ObjectInv
<1> QED
  BY <1>1, <1>2 DEF Idle, MemoryInv, ProbeInv

\* A write of the controller is refused or makes a version.
LEMMA WriteMoves ==
    ASSUME NEW stored,
           stored = provider \/ stored.resourceVersion = provider.resourceVersion + 1,
           Accepted(stored) \/ Refused(stored)
    PROVE  Moved /\ (provider' = provider \/ (provider' = stored /\ Fresh))
BY DEF Accepted, Refused, Moved

LEMMA FaultType ==
    ASSUME TypeOK, Fault \/ UNCHANGED faults
    PROVE  faults' \in 0 .. MaxFaults
BY BoundsAssumption DEF TypeOK, Fault, BoundsAssumption

LEMMA OperationType ==
    ASSUME TypeOK, Operation \/ UNCHANGED operations
    PROVE  operations' \in 0 .. MaxOperations
BY BoundsAssumption DEF TypeOK, Operation, BoundsAssumption

-----------------------------------------------------------------------------
(* ProviderInv, one lemma per action.                                      *)

LEMMA ReconcileInv == ProviderInv /\ Reconcile => ProviderInv'
<1> SUFFICES ASSUME ProviderInv, Reconcile PROVE ProviderInv'
  OBVIOUS
<1> USE DEF ProviderInv
<1>1. /\ UNCHANGED <<static, provider, cached, world, bounds>> /\ queued' = FALSE
  BY DEF Reconcile
<1>2. CacheInv' /\ ReadyInv' /\ ObjectInv(provider)' /\ ObjectInv(cached)'
  BY <1>1, ReadyKept DEF CacheInv, ObjectInv, static, world
<1>3. CASE FirstStep(cached) = "idle"
  <2>1. Idle
    BY <1>3 DEF Reconcile
  <2>2. TypeOK'
    BY <1>1, <2>1, IdleKept DEF TypeOK, Idle, static, world, bounds
  <2> QED
    BY <1>2, <2>1, <2>2, IdleKept
<1>4. CASE FirstStep(cached) /= "idle"
  <2>1. pc' = FirstStep(cached) /\ obj' = cached /\ UNCHANGED <<calls, results>>
    BY <1>4 DEF Reconcile
  <2>2. /\ cached.exists
        /\ FirstStep(cached) \in {"removeFinalizer", "addFinalizer", "readSecrets"}
        /\ FirstStep(cached) = "removeFinalizer" => cached.deleting
        /\ FirstStep(cached) = "addFinalizer" => ~cached.finalizer
    BY <1>4 DEF FirstStep
  <2>3. results = <<>>
    BY DEF Reconcile, ProbeInv
  <2>4. TypeOK'
    BY <1>1, <2>1, <2>2 DEF TypeOK, static, world, bounds
  <2>5. MemoryInv'
    BY <1>1, <2>1, <2>2 DEF MemoryInv, CacheInv
  <2>6. ProbeInv' /\ ObjectInv(obj)'
    BY <2>1, <2>2, <2>3 DEF ProbeInv, ObjectInv
  <2> QED
    BY <1>2, <2>4, <2>5, <2>6
<1> QED
  BY <1>3, <1>4

\* An Update of the controller keeps what Ready says, if it says it still.
LEMMA PutObjectInv ==
    ASSUME ProviderInv, NEW new \in Object,
           new.connections /= <<>>,
           Accepted(PutObject(new)) \/ Refused(PutObject(new)),
           kind' = kind, initialized' = initialized
    PROVE  /\ provider' \in Object /\ ObjectInv(provider)' /\ ReadyInv'
           /\ Moved
           /\ provider' = provider \/ (provider' = PutObject(new) /\ Fresh)
<1> USE DEF ProviderInv
<1>0. provider \in Object
  BY DEF TypeOK
<1>1. provider.resourceVersion + 1 \in Nat /\ provider.generation \in Nat
  BY <1>0, FieldTypes, Successor
<1>2. PutObject(new) = provider \/
        PutObject(new).resourceVersion = provider.resourceVersion + 1
  BY <1>0, <1>1, PutObjectShape, AbsentType
<1>3. Moved /\ (provider' = provider \/ (provider' = PutObject(new) /\ Fresh))
  BY <1>2, WriteMoves
<1>4. CASE provider' = provider
  BY <1>0, <1>3, <1>4, ReadyKept DEF ObjectInv
<1>5. CASE provider' = Absent(provider.resourceVersion + 1)
  <2>1. provider' \in Object /\ ObjectInv(provider)' /\ ~provider'.exists
    BY <1>1, <1>5, AbsentType DEF ObjectInv
  <2> QED
    BY <1>3, <2>1 DEF ReadyInv
<1>6. CASE provider' = PutObject(new) /\ PutObject(new) /= Absent(provider.resourceVersion + 1)
  <2>1. /\ provider' \in Object
        /\ provider'.exists = provider.exists
        /\ provider'.connections = Encoded(new.connections)
        /\ provider'.ready = provider.ready
        /\ provider'.connectionStatus = provider.connectionStatus
        /\ provider'.observedGeneration = provider.observedGeneration
        /\ \/ /\ provider'.generation = provider.generation
              /\ provider'.connections = provider.connections
           \/ provider'.generation = provider.generation + 1
    BY <1>0, <1>6, PutObjectShape
  <2>2. provider.observedGeneration \in Nat /\ provider.observedGeneration <= provider.generation
    BY <1>0, FieldTypes DEF ObjectInv
  <2>3. ObjectInv(provider)'
    <3>1. provider'.connections /= <<>>
      BY <2>1, EncodedType, FieldTypes
    <3>2. provider'.observedGeneration <= provider'.generation
      BY <1>1, <2>1, <2>2
    <3> QED
      BY <3>1, <3>2 DEF ObjectInv
  <2>4. provider'.observedGeneration = provider'.generation =>
            /\ provider'.connections = provider.connections
            /\ provider.observedGeneration = provider.generation
    BY <1>1, <2>1, <2>2
  <2>5. ReadyInv'
    BY <2>1, <2>4 DEF ReadyInv, Observed, Serves, Reports
  <2> QED
    BY <1>3, <2>1, <2>3, <2>5
<1> QED
  BY <1>3, <1>4, <1>5, <1>6

LEMMA AddFinalizerInv == ProviderInv /\ AddFinalizer => ProviderInv'
<1> SUFFICES ASSUME ProviderInv, AddFinalizer PROVE ProviderInv'
  OBVIOUS
<1> USE DEF ProviderInv
<1> DEFINE new == [obj EXCEPT !.finalizer = TRUE]
           stored == PutObject(new)
<1>1. /\ pc = "addFinalizer"
      /\ \/ Accepted(stored) /\ pc' = "readSecrets" /\ obj' = stored
         \/ Refused(stored) /\ pc' = "handleError" /\ obj' = new
      /\ UNCHANGED <<static, cached, queued, world, calls, results, operations>>
  BY DEF AddFinalizer
<1>2. /\ new \in Object /\ new.finalizer
      /\ new.exists = obj.exists
      /\ new.connections = obj.connections
      /\ new.resourceVersion = obj.resourceVersion
      /\ new.generation = obj.generation
      /\ new.observedGeneration = obj.observedGeneration
  BY DEF TypeOK, Object
<1> HIDE DEF new
<1>3. obj.exists /\ new.connections /= <<>> /\ new.observedGeneration <= new.generation
  BY <1>1, <1>2 DEF MemoryInv, ObjectInv
<1>4. /\ provider' \in Object /\ ObjectInv(provider)' /\ ReadyInv'
      /\ Moved
      /\ provider' = provider \/ (provider' = stored /\ Fresh)
  BY <1>1, <1>2, <1>3, PutObjectInv DEF static, world
<1>5. faults' \in 0 .. MaxFaults
  BY <1>1, FaultType DEF Accepted, Refused
<1>6. CacheInv' /\ ObjectInv(cached)'
  BY <1>1, <1>4, CacheKept DEF ObjectInv
<1>7. ProbeInv'
  BY <1>1 DEF ProbeInv
<1>8. CASE Accepted(stored) /\ pc' = "readSecrets" /\ obj' = stored
  <2>1. provider' = stored /\ provider.exists
    BY <1>8 DEF Accepted, Fresh
  <2>2. provider'.exists
    BY <1>2, <2>1, PutObjectShape DEF TypeOK
  <2>3. provider'.resourceVersion \in Nat
    BY <1>4, FieldTypes
  <2>4. MemoryInv' /\ ObjectInv(obj)'
    BY <1>4, <1>8, <2>1, <2>2, <2>3 DEF MemoryInv, ObjectInv
  <2>5. TypeOK'
    BY <1>1, <1>4, <1>5, <1>8, <2>1 DEF TypeOK, static, world
  <2> QED
    BY <1>4, <1>6, <1>7, <2>4, <2>5
<1>9. CASE pc' = "handleError" /\ obj' = new
  <2>1. MemoryInv'
    BY <1>1, <1>2, <1>4, <1>9, MemoryMoved
  <2>2. ObjectInv(obj)'
    BY <1>2, <1>3, <1>9 DEF ObjectInv
  <2>3. TypeOK'
    BY <1>1, <1>2, <1>4, <1>5, <1>9 DEF TypeOK, static, world
  <2> QED
    BY <1>4, <1>6, <1>7, <2>1, <2>2, <2>3
<1> QED
  BY <1>1, <1>8, <1>9

LEMMA RemoveFinalizerInv == ProviderInv /\ RemoveFinalizer => ProviderInv'
<1> SUFFICES ASSUME ProviderInv, RemoveFinalizer PROVE ProviderInv'
  OBVIOUS
<1> USE DEF ProviderInv
<1> DEFINE new == [obj EXCEPT !.finalizer = FALSE]
           stored == PutObject(new)
<1>1. /\ pc = "removeFinalizer"
      /\ Accepted(stored) \/ Refused(stored)
      /\ \/ Idle /\ UNCHANGED queued
         \/ pc' = "handleError" /\ obj' = new /\ UNCHANGED <<queued, calls, results>>
      /\ UNCHANGED <<static, cached, world, operations>>
  BY DEF RemoveFinalizer, Done
<1>2. /\ new \in Object
      /\ new.exists = obj.exists
      /\ new.connections = obj.connections
      /\ new.resourceVersion = obj.resourceVersion
      /\ new.generation = obj.generation
      /\ new.observedGeneration = obj.observedGeneration
  BY DEF TypeOK, Object
<1> HIDE DEF new
<1>3. obj.exists /\ new.connections /= <<>> /\ new.observedGeneration <= new.generation
  BY <1>1, <1>2 DEF MemoryInv, ObjectInv
<1>4. /\ provider' \in Object /\ ObjectInv(provider)' /\ ReadyInv'
      /\ Moved
      /\ provider' = provider \/ (provider' = stored /\ Fresh)
  BY <1>1, <1>2, <1>3, PutObjectInv DEF static, world
<1>5. faults' \in 0 .. MaxFaults
  BY <1>1, FaultType DEF Accepted, Refused
<1>6. CacheInv' /\ ObjectInv(cached)'
  BY <1>1, <1>4, CacheKept DEF ObjectInv
<1>7. CASE Idle /\ UNCHANGED queued
  <2>1. TypeOK'
    BY <1>1, <1>4, <1>5, <1>7, IdleKept DEF TypeOK, Idle, static, world
  <2> QED
    BY <1>4, <1>6, <1>7, <2>1, IdleKept
<1>8. CASE pc' = "handleError" /\ obj' = new /\ UNCHANGED <<queued, calls, results>>
  <2>1. MemoryInv'
    BY <1>1, <1>2, <1>4, <1>8, MemoryMoved
  <2>2. ObjectInv(obj)'
    BY <1>2, <1>3, <1>8 DEF ObjectInv
  <2>3. TypeOK' /\ ProbeInv'
    BY <1>1, <1>2, <1>4, <1>5, <1>8 DEF TypeOK, ProbeInv, static, world
  <2> QED
    BY <1>4, <1>6, <2>1, <2>2, <2>3
<1> QED
  BY <1>1, <1>7, <1>8

\* What is left of a probe's calls.
LEMMA CallsLeftTypes ==
    ASSUME NEW k, NEW left \in CallsLeft(k)
    PROVE  /\ left /= <<>>
           /\ left \in Seq({"ping", "version", "initialize"})
           /\ Tail(left) /= <<>> => Tail(left) \in CallsLeft(k)
           /\ Tail(left) = <<>> /\ k = "relational" => Head(left) = "initialize"
<1>1. CASE k = "relational"
  <2>1. CASE left = <<"ping", "version", "initialize">>
    BY <1>1, <2>1 DEF CallsLeft
  <2>2. CASE left = <<"version", "initialize">>
    BY <1>1, <2>2 DEF CallsLeft
  <2>3. CASE left = <<"initialize">>
    BY <1>1, <2>3 DEF CallsLeft
  <2> QED
    BY <1>1, <2>1, <2>2, <2>3 DEF CallsLeft, RelationalProbe
<1>2. CASE k /= "relational"
  <2>1. CASE left = <<"ping", "version">>
    BY <1>2, <2>1 DEF CallsLeft
  <2>2. CASE left = <<"version">>
    BY <1>2, <2>2 DEF CallsLeft
  <2> QED
    BY <1>2, <2>1, <2>2 DEF CallsLeft, MongoDBProbe
<1> QED
  BY <1>1, <1>2

LEMMA ProbeCalls ==
    /\ \A k \in Kinds : Probe(k) \in CallsLeft(k)
    /\ \A k \in Kinds : Probe(k) /= <<>> /\ Probe(k) \in Seq({"ping", "version", "initialize"})
<1>1. \A k \in Kinds : Probe(k) \in CallsLeft(k)
  BY DEF Probe, CallsLeft, RelationalProbe, MongoDBProbe, Kinds
<1> QED
  BY <1>1, CallsLeftTypes

LEMMA ReadSecretsInv == ProviderInv /\ ReadSecrets => ProviderInv'
<1> SUFFICES ASSUME ProviderInv, ReadSecrets PROVE ProviderInv'
  OBVIOUS
<1> USE DEF ProviderInv
<1>1. /\ pc = "readSecrets"
      /\ \/ pc' = "probe" /\ calls' = Probe(kind) /\ UniqueNames(obj.connections)
         \/ pc' = "handleError" /\ calls' = calls
      /\ UNCHANGED <<static, api, world, obj, results, operations>>
      /\ Fault \/ UNCHANGED faults
  BY DEF ReadSecrets
<1>2. /\ ObjectInv(provider)' /\ ObjectInv(cached)' /\ ObjectInv(obj)'
      /\ CacheInv' /\ ReadyInv'
  BY <1>1, ReadyKept DEF ObjectInv, CacheInv, static, api, world
<1>3. MemoryInv'
  BY <1>1 DEF MemoryInv, api
<1>4. /\ results = <<>>
      /\ obj.connections /= <<>> /\ obj.connections \in Seq(Connection)
  BY <1>1, FieldTypes DEF ProbeInv, MemoryInv, ObjectInv, TypeOK
<1>5. Len(results) < Len(obj.connections)
  BY <1>4, EmptySeq
<1>6. /\ Probe(kind) \in CallsLeft(kind)
      /\ Probe(kind) /= <<>>
      /\ Probe(kind) \in Seq({"ping", "version", "initialize"})
  BY ProbeCalls DEF TypeOK
<1>7. TypeOK'
  BY <1>1, <1>5, <1>6, FaultType DEF TypeOK, static, api, world
<1>8. ProbeInv'
  <2>1. Reports(obj.connections, results)'
    BY <1>1, <1>4 DEF Reports
  <2> QED
    BY <1>1, <1>5, <1>6, <2>1 DEF ProbeInv, static
<1> QED
  BY <1>2, <1>3, <1>7, <1>8

\* The status of a connection, which says what was found of it.
LEMMA RecordInv ==
    ASSUME ProviderInv, pc = "probe", NEW available \in BOOLEAN, Record(available),
           UNCHANGED <<kind, provider>>,
           initialized \subseteq initialized',
           available /\ kind = "relational" => Probed.server \in initialized'
    PROVE  /\ obj' \in Object /\ ObjectInv(obj)'
           /\ pc' \in {"probe", "updateStatus", "handleError"}
           /\ calls' \in Seq({"ping", "version", "initialize"})
           /\ results' \in Seq(ConnectionStatus)
           /\ pc' = "probe" => Len(results') < Len(obj'.connections) /\ calls' /= <<>>
           /\ MemoryInv' /\ ProbeInv'
<1> USE DEF ProviderInv
<1> DEFINE found == [name |-> Probed.name, enabled |-> Probed.enabled,
                     available |-> available]
           status == Append(results, found)
<1>1. /\ Len(results) \in Nat /\ Len(results) < Len(obj.connections)
      /\ results \in Seq(ConnectionStatus)
      /\ obj \in Object /\ obj.connections \in Seq(Connection)
      /\ kind \in Kinds
  BY FieldTypes DEF TypeOK
<1>2. Probed \in Connection
  BY <1>1 DEF Probed
<1>3. found \in ConnectionStatus
  BY <1>2 DEF Connection, ConnectionStatus
<1> HIDE DEF found
<1>4. /\ status \in Seq(ConnectionStatus)
      /\ Len(status) = Len(results) + 1
      /\ \A n \in 1 .. Len(results) : status[n] = results[n]
      /\ status[Len(results) + 1] = found
  BY <1>1, <1>3
<1>5. /\ found.name = obj.connections[Len(results) + 1].name
      /\ found.enabled = obj.connections[Len(results) + 1].enabled
      /\ found.available = available
  BY DEF found, Probed
<1> HIDE DEF status
<1>6. /\ results' = status
      /\ \/ /\ Len(status) < Len(obj.connections)
            /\ calls' = Probe(kind) /\ UNCHANGED <<pc, obj>>
         \/ /\ ~(Len(status) < Len(obj.connections))
            /\ calls' = <<>>
            /\ obj' = [obj EXCEPT !.connectionStatus = status,
                                  !.observedGeneration = obj.generation]
            /\ pc' = IF Serving(status) THEN "updateStatus" ELSE "handleError"
  BY DEF Record, status, found
<1>7. /\ \A n \in 1 .. Len(status) :
            /\ status[n].name = obj.connections[n].name
            /\ status[n].enabled = obj.connections[n].enabled
            /\ status[n].available /\ kind = "relational" =>
                obj.connections[n].server \in initialized'
      /\ UniqueNames(obj.connections)
  <2>1. /\ Reports(obj.connections, results)
        /\ UniqueNames(obj.connections)
    BY DEF ProbeInv
  <2>2. ASSUME NEW n \in 1 .. Len(status)
        PROVE  n \in 1 .. Len(results) \/ n = Len(results) + 1
    BY <1>1, <1>4, <2>2
  <2> QED
    BY <1>4, <1>5, <2>1, <2>2 DEF Reports, Probed
<1>8. CASE Len(status) < Len(obj.connections)
  <2>1. results' = status /\ calls' = Probe(kind) /\ UNCHANGED <<pc, obj>>
    BY <1>6, <1>8
  <2>2. MemoryInv' /\ ObjectInv(obj)'
    BY <2>1 DEF MemoryInv, ObjectInv
  <2>3. ProbeInv'
    BY <1>1, <1>7, <1>8, <2>1, ProbeCalls DEF ProbeInv, Reports
  <2> QED
    BY <1>1, <1>4, <1>8, <2>1, <2>2, <2>3, ProbeCalls
<1>9. CASE ~(Len(status) < Len(obj.connections))
  <2>1. /\ results' = status /\ calls' = <<>>
        /\ obj' = [obj EXCEPT !.connectionStatus = status,
                              !.observedGeneration = obj.generation]
        /\ pc' = IF Serving(status) THEN "updateStatus" ELSE "handleError"
    BY <1>6, <1>9
  <2>2. Len(status) = Len(obj.connections)
    BY <1>1, <1>4, <1>9
  <2>3. /\ obj' \in Object
        /\ obj'.exists = obj.exists
        /\ obj'.connections = obj.connections
        /\ obj'.resourceVersion = obj.resourceVersion
        /\ obj'.generation = obj.generation
        /\ obj'.connectionStatus = status
        /\ obj'.observedGeneration = obj.generation
    BY <1>1, <1>4, <2>1 DEF Object
  <2>4. obj.generation \in Nat
    BY <1>1, FieldTypes
  <2>5. ObjectInv(obj)'
    BY <2>3, <2>4 DEF ObjectInv
  <2>6. MemoryInv'
    BY <2>1, <2>3 DEF MemoryInv
  <2>7. ProbeInv'
    BY <1>7, <2>1, <2>2, <2>3 DEF ProbeInv, Serves, Reports
  <2> QED
    BY <1>4, <2>1, <2>3, <2>5, <2>6, <2>7
<1> QED
  BY <1>8, <1>9

LEMMA ProbeConnectionInv == ProviderInv /\ ProbeConnection => ProviderInv'
<1> SUFFICES ASSUME ProviderInv, ProbeConnection PROVE ProviderInv'
  OBVIOUS
<1> USE DEF ProviderInv
<1>1. /\ pc = "probe" /\ calls \in CallsLeft(kind)
      /\ UNCHANGED <<static, api, secrets, up, operations>>
      /\ Fault \/ UNCHANGED faults
  BY DEF ProbeConnection, ProbeInv
<1>2. Probed.server \in Servers
  <2>1. /\ Len(results) \in Nat /\ Len(results) < Len(obj.connections)
        /\ obj.connections \in Seq(Connection)
    BY <1>1, FieldTypes DEF TypeOK
  <2>2. Probed \in Connection
    BY <2>1 DEF Probed
  <2> QED
    BY <2>2 DEF Connection
<1>3. initialized \subseteq initialized' /\ initialized' \subseteq Servers
  BY <1>2 DEF ProbeConnection, Effect, TypeOK
<1>4. /\ ObjectInv(provider)' /\ ObjectInv(cached)' /\ CacheInv' /\ ReadyInv'
  BY <1>1, <1>3, ReadyKept DEF ObjectInv, CacheInv, static, api
<1>5. CASE Tail(calls) /= <<>> /\ calls' = Tail(calls) /\ UNCHANGED <<pc, obj, results>>
  <2>1. Tail(calls) \in CallsLeft(kind) /\ Tail(calls) \in Seq({"ping", "version", "initialize"})
    BY <1>1, <1>5, CallsLeftTypes
  <2>2. TypeOK'
    BY <1>1, <1>3, <1>5, <2>1, FaultType DEF TypeOK, static, api
  <2>3. MemoryInv' /\ ObjectInv(obj)'
    BY <1>1, <1>5 DEF MemoryInv, ObjectInv, api
  <2>4. ProbeInv'
    BY <1>1, <1>3, <1>5, <2>1 DEF ProbeInv, Reports, static
  <2> QED
    BY <1>4, <2>2, <2>3, <2>4
<1>6. ASSUME NEW available \in BOOLEAN, Record(available),
             available /\ kind = "relational" => Probed.server \in initialized'
      PROVE  ProviderInv'
  <2>1. UNCHANGED <<kind, provider>>
    BY <1>1 DEF static, api
  <2>2. /\ obj' \in Object /\ ObjectInv(obj)'
        /\ pc' \in {"probe", "updateStatus", "handleError"}
        /\ calls' \in Seq({"ping", "version", "initialize"})
        /\ results' \in Seq(ConnectionStatus)
        /\ pc' = "probe" => Len(results') < Len(obj'.connections) /\ calls' /= <<>>
        /\ MemoryInv' /\ ProbeInv'
    BY <1>1, <1>3, <1>6, <2>1, RecordInv
  <2>3. TypeOK'
    BY <1>1, <1>3, <2>2, FaultType DEF TypeOK, static, api
  <2> QED
    BY <1>4, <2>2, <2>3
<1>7. Tail(calls) = <<>> /\ kind = "relational" => Head(calls) = "initialize"
  BY <1>1, CallsLeftTypes
<1>8. CASE Record(FALSE)
  BY <1>6, <1>8
<1>9. CASE Tail(calls) = <<>> /\ initialized' = Effect(Head(calls)) /\ Record(TRUE)
  <2>1. kind = "relational" => Probed.server \in initialized'
    BY <1>7, <1>9 DEF Effect
  <2> QED
    BY <1>6, <1>9, <2>1
<1> QED
  BY <1>5, <1>8, <1>9 DEF ProbeConnection

LEMMA PanicInv == ProviderInv /\ Panic => ProviderInv'
<1> SUFFICES ASSUME ProviderInv, Panic PROVE ProviderInv'
  OBVIOUS
<1>1. /\ Idle /\ queued' = TRUE
      /\ UNCHANGED <<static, provider, cached, world, bounds>>
  BY DEF Panic, Requeue
<1>2. ObjectInv(provider)' /\ ObjectInv(cached)' /\ CacheInv' /\ ReadyInv'
  BY <1>1, ReadyKept DEF ProviderInv, ObjectInv, CacheInv, static, world
<1>3. TypeOK'
  BY <1>1, IdleKept DEF ProviderInv, TypeOK, Idle, static, world, bounds
<1> QED
  BY <1>1, <1>2, <1>3, IdleKept DEF ProviderInv

\* A status the controller writes: Ready only with what the reconcile has found,
\* of the version it has found it for.
LEMMA StatusInv ==
    ASSUME ProviderInv, pc \in {"updateStatus", "handleError"},
           NEW ready \in {"True", "False"}, ready = "True" => pc = "updateStatus",
           NEW stored, stored = PutStatus([obj EXCEPT !.ready = ready]),
           Accepted(stored) \/ Refused(stored),
           Idle, queued' \in BOOLEAN, UNCHANGED <<static, cached, world, operations>>
    PROVE  ProviderInv'
<1> USE DEF ProviderInv
<1> DEFINE new == [obj EXCEPT !.ready = ready]
<1>0. provider \in Object /\ obj \in Object
  BY DEF TypeOK
<1>1. /\ new \in Object
      /\ new.ready = ready
      /\ new.connectionStatus = obj.connectionStatus
      /\ new.observedGeneration = obj.observedGeneration
  BY <1>0 DEF Object
<1> HIDE DEF new
<1>2. stored = PutStatus(new)
  BY DEF new
<1>3. /\ stored \in Object
      /\ stored.exists = provider.exists
      /\ stored.generation = provider.generation
      /\ stored.connections = provider.connections
      /\ stored.ready = ready
      /\ stored.connectionStatus = obj.connectionStatus
      /\ stored.observedGeneration = obj.observedGeneration
      /\ stored = provider \/ stored.resourceVersion = provider.resourceVersion + 1
  BY <1>0, <1>1, <1>2, PutStatusShape
<1>4. Moved /\ (provider' = provider \/ (provider' = stored /\ Fresh))
  BY <1>3, WriteMoves
<1>5. provider' \in Object /\ ObjectInv(provider)' /\ ReadyInv'
  <2>1. CASE provider' = provider
    BY <1>0, <2>1, ReadyKept DEF ObjectInv, static, world
  <2>2. CASE provider' = stored /\ Fresh
    <3>1. /\ obj.exists
          /\ obj.connections = provider.connections
          /\ obj.generation = provider.generation
      BY <2>2 DEF MemoryInv, Fresh
    <3>2. ObjectInv(provider)'
      BY <1>3, <2>2, <3>1 DEF ObjectInv
    <3>3. ReadyInv'
      <4>1. CASE ready = "False"
        BY <1>3, <2>2, <4>1 DEF ReadyInv, Observed
      <4>2. CASE ready = "True"
        <5>1. Serves(obj.connections, obj.connectionStatus)
          BY <4>2 DEF ProbeInv
        <5>2. provider'.connections = obj.connections
          BY <1>3, <2>2, <3>1
        <5>3. provider'.connectionStatus = obj.connectionStatus
          BY <1>3, <2>2
        <5> QED
          BY <5>1, <5>2, <5>3 DEF ReadyInv, Serves, Reports, static, world
      <4> QED
        BY <4>1, <4>2
    <3> QED
      BY <1>3, <2>2, <3>2, <3>3
  <2> QED
    BY <1>4, <2>1, <2>2
<1>6. CacheInv' /\ ObjectInv(cached)'
  BY <1>4, <1>5, CacheKept DEF ObjectInv
<1>7. TypeOK'
  <2>1. faults' \in 0 .. MaxFaults
    BY FaultType DEF Accepted, Refused
  <2> QED
    BY <1>5, <2>1, IdleKept DEF TypeOK, Idle, static, world
<1> QED
  BY <1>5, <1>6, <1>7, IdleKept

LEMMA UpdateStatusInv == ProviderInv /\ UpdateStatus => ProviderInv'
<1> SUFFICES ASSUME ProviderInv, UpdateStatus PROVE ProviderInv'
  OBVIOUS
<1> DEFINE stored == PutStatus([obj EXCEPT !.ready = "True"])
<1>1. /\ pc = "updateStatus"
      /\ Accepted(stored) \/ Refused(stored)
      /\ Idle /\ queued' \in BOOLEAN
      /\ UNCHANGED <<static, cached, world, operations>>
  BY DEF UpdateStatus, Done, Requeue, ProviderInv, TypeOK
<1> QED
  BY <1>1, StatusInv

LEMMA HandleErrorInv == ProviderInv /\ HandleError => ProviderInv'
<1> SUFFICES ASSUME ProviderInv, HandleError PROVE ProviderInv'
  OBVIOUS
<1> DEFINE stored == PutStatus([obj EXCEPT !.ready = "False"])
<1>1. /\ pc = "handleError"
      /\ Accepted(stored) \/ Refused(stored)
      /\ Idle /\ queued' \in BOOLEAN
      /\ UNCHANGED <<static, cached, world, operations>>
  BY DEF HandleError, Requeue
<1> QED
  BY <1>1, StatusInv

LEMMA SyncInv == ProviderInv /\ Sync => ProviderInv'
<1> SUFFICES ASSUME ProviderInv, Sync PROVE ProviderInv'
  OBVIOUS
<1> USE DEF ProviderInv
<1>1. /\ cached' = provider /\ queued' \in BOOLEAN
      /\ UNCHANGED <<static, provider, world, pc, memory, bounds>>
  BY DEF Sync, TypeOK
<1>2. TypeOK' /\ ObjectInv(provider)' /\ ObjectInv(cached)' /\ ObjectInv(obj)'
  BY <1>1 DEF TypeOK, ObjectInv, static, world, memory, bounds
<1>3. CacheInv'
  BY <1>1, FieldTypes DEF CacheInv, TypeOK
<1>4. MemoryInv' /\ ProbeInv' /\ ReadyInv'
  BY <1>1, ProbeKept, ReadyKept DEF MemoryInv, memory, static, world
<1> QED
  BY <1>2, <1>3, <1>4

\* Users make another version of the provider, which is not observed yet.
LEMMA UserInv ==
    ASSUME ProviderInv, Operation,
           UNCHANGED <<static, cached, queued, world, pc, memory, faults>>,
           provider' \in Object, ObjectInv(provider)',
           provider'.resourceVersion = provider.resourceVersion + 1,
           ~(provider'.exists /\ Observed')
    PROVE  ProviderInv'
<1> USE DEF ProviderInv
<1>1. Moved
  BY DEF Moved
<1>2. CacheInv' /\ MemoryInv' /\ ProbeInv' /\ ReadyInv'
  BY <1>1, CacheKept, MemoryKept, ProbeKept DEF ReadyInv, memory, static, world
<1>3. TypeOK' /\ ObjectInv(cached)' /\ ObjectInv(obj)'
  BY OperationType DEF TypeOK, ObjectInv, static, world, memory
<1> QED
  BY <1>2, <1>3

LEMMA CreateProviderInv ==
    ASSUME ProviderInv, NEW connections \in Specs, CreateProvider(connections)
    PROVE  ProviderInv'
<1> DEFINE rv == provider.resourceVersion + 1
<1>1. rv \in Nat
  BY FieldTypes, Successor DEF ProviderInv, TypeOK
<1>2. provider' = [Absent(rv) EXCEPT !.exists = TRUE, !.uid = rv, !.generation = 1,
                                     !.connections = connections]
  BY DEF CreateProvider
<1>3. connections \in Seq(Connection) /\ connections /= <<>>
  BY SpecsAssumption DEF SpecsAssumption
<1> HIDE DEF rv
<1>4. /\ Absent(rv) \in Object
      /\ Absent(rv).resourceVersion = rv
      /\ Absent(rv).ready = "unset"
      /\ Absent(rv).observedGeneration = 0
  BY <1>1, AbsentType DEF Absent
<1>5. /\ provider' \in Object
      /\ provider'.resourceVersion = rv
      /\ provider'.ready = "unset"
      /\ provider'.observedGeneration = 0
      /\ provider'.generation = 1
      /\ provider'.connections = connections
  BY <1>1, <1>2, <1>3, <1>4 DEF Object
<1>6. ObjectInv(provider)' /\ ~Observed'
  BY <1>3, <1>5 DEF ObjectInv, Observed
<1> QED
  BY <1>5, <1>6, UserInv DEF CreateProvider, rv

LEMMA EditProviderInv ==
    ASSUME ProviderInv, NEW connections \in Specs, EditProvider(connections)
    PROVE  ProviderInv'
<1>0. /\ provider \in Object
      /\ provider.observedGeneration \in Nat /\ provider.generation \in Nat
      /\ provider.observedGeneration <= provider.generation
      /\ provider.resourceVersion + 1 \in Nat /\ provider.generation + 1 \in Nat
  BY FieldTypes, Successor DEF ProviderInv, TypeOK, ObjectInv
<1>1. provider' = [provider EXCEPT
            !.connections = connections,
            !.generation = provider.generation + 1,
            !.resourceVersion = provider.resourceVersion + 1]
  BY DEF EditProvider
<1>2. connections \in Seq(Connection) /\ connections /= <<>>
  BY SpecsAssumption DEF SpecsAssumption
<1>3. /\ provider' \in Object
      /\ provider'.resourceVersion = provider.resourceVersion + 1
      /\ provider'.observedGeneration = provider.observedGeneration
      /\ provider'.generation = provider.generation + 1
      /\ provider'.connections = connections
  BY <1>0, <1>1, <1>2 DEF Object
<1>4. ObjectInv(provider)' /\ ~Observed'
  BY <1>0, <1>2, <1>3 DEF ObjectInv, Observed
<1> QED
  BY <1>3, <1>4, UserInv DEF EditProvider

LEMMA DeleteProviderInv == ProviderInv /\ DeleteProvider => ProviderInv'
<1> SUFFICES ASSUME ProviderInv, DeleteProvider PROVE ProviderInv'
  OBVIOUS
<1>0. /\ provider \in Object
      /\ provider.observedGeneration \in Nat /\ provider.generation \in Nat
      /\ provider.exists
      /\ provider.connections /= <<>>
      /\ provider.observedGeneration <= provider.generation
      /\ provider.resourceVersion + 1 \in Nat /\ provider.generation + 1 \in Nat
  BY FieldTypes, Successor DEF ProviderInv, TypeOK, ObjectInv, DeleteProvider
<1>1. CASE provider.finalizer
  <2>1. provider' = [provider EXCEPT
            !.deleting = TRUE,
            !.generation = provider.generation + 1,
            !.resourceVersion = provider.resourceVersion + 1]
    BY <1>1 DEF DeleteProvider
  <2>2. /\ provider' \in Object
        /\ provider'.resourceVersion = provider.resourceVersion + 1
        /\ provider'.observedGeneration = provider.observedGeneration
        /\ provider'.generation = provider.generation + 1
        /\ provider'.connections = provider.connections
    BY <1>0, <2>1 DEF Object
  <2>3. ObjectInv(provider)' /\ ~Observed'
    BY <1>0, <2>2 DEF ObjectInv, Observed
  <2> QED
    BY <2>2, <2>3, UserInv DEF DeleteProvider
<1>2. CASE ~provider.finalizer
  <2>1. provider' = Absent(provider.resourceVersion + 1)
    BY <1>2 DEF DeleteProvider
  <2>2. /\ provider' \in Object
        /\ ~provider'.exists
        /\ provider'.resourceVersion = provider.resourceVersion + 1
        /\ ObjectInv(provider)'
    BY <1>0, <2>1, AbsentType DEF ObjectInv
  <2> QED
    BY <2>2, UserInv DEF DeleteProvider
<1> QED
  BY <1>1, <1>2

\* Secrets come and go, servers go and return; tables stay.
LEMMA WorldInv ==
    ASSUME ProviderInv, NEW s \in Servers, ChangeSecret(s) \/ Outage(s) \/ Return(s)
    PROVE  ProviderInv'
<1> USE DEF ProviderInv
<1>1. /\ UNCHANGED <<static, api, initialized, pc, memory>>
      /\ secrets' \subseteq Servers /\ up' \subseteq Servers
      /\ Fault \/ UNCHANGED faults
      /\ Operation \/ UNCHANGED operations
  BY DEF ChangeSecret, Outage, Return, bounds, TypeOK
<1>2. TypeOK'
  BY <1>1, FaultType, OperationType DEF TypeOK, static, api, memory
<1>3. ObjectInv(provider)' /\ ObjectInv(cached)' /\ ObjectInv(obj)' /\ CacheInv'
  BY <1>1 DEF ObjectInv, CacheInv, api, memory
<1>4. MemoryInv' /\ ProbeInv' /\ ReadyInv'
  BY <1>1, ProbeKept, ReadyKept DEF MemoryInv, memory, static, api
<1> QED
  BY <1>2, <1>3, <1>4

LEMMA CrashInv == ProviderInv /\ Crash => ProviderInv'
<1> SUFFICES ASSUME ProviderInv, Crash PROVE ProviderInv'
  OBVIOUS
<1> USE DEF ProviderInv
<1>1. /\ Idle /\ cached' = provider /\ queued' = provider.exists
      /\ UNCHANGED <<static, provider, world, operations>>
      /\ Fault
  BY DEF Crash
<1>2. ObjectInv(provider)' /\ ObjectInv(cached)' /\ CacheInv' /\ ReadyInv'
  BY <1>1, ReadyKept, FieldTypes DEF ObjectInv, CacheInv, static, world, TypeOK
<1>3. TypeOK'
  BY <1>1, IdleKept, FaultType, FieldTypes DEF TypeOK, Idle, static, world
<1> QED
  BY <1>1, <1>2, <1>3, IdleKept

LEMMA ProviderInvInit == Init => ProviderInv
<1> SUFFICES ASSUME Init PROVE ProviderInv
  OBVIOUS
<1>1. Absent(0) \in Object /\ ObjectInv(Absent(0)) /\ ~Absent(0).exists
  BY AbsentType
<1>2. 0 \in 0 .. MaxFaults /\ 0 \in 0 .. MaxOperations
  BY BoundsAssumption DEF BoundsAssumption
<1>3. <<>> \in Seq({"ping", "version", "initialize"}) /\ <<>> \in Seq(ConnectionStatus)
  OBVIOUS
<1>4. TypeOK
  BY <1>1, <1>2, <1>3 DEF Init, TypeOK, Kinds
<1>5. CacheInv /\ MemoryInv /\ ProbeInv /\ ReadyInv
  BY <1>1, FieldTypes DEF Init, CacheInv, MemoryInv, ProbeInv, ReadyInv
<1> QED
  BY <1>1, <1>4, <1>5 DEF ProviderInv, Init

LEMMA ProviderInvStep == ProviderInv /\ [Next]_vars => ProviderInv'
<1> SUFFICES ASSUME ProviderInv, [Next]_vars PROVE ProviderInv'
  OBVIOUS
<1>1. CASE Step
  BY <1>1, AddFinalizerInv, RemoveFinalizerInv, ReadSecretsInv, ProbeConnectionInv,
     PanicInv, UpdateStatusInv, HandleErrorInv DEF Step
<1>2. CASE User
  BY <1>2, CreateProviderInv, EditProviderInv, DeleteProviderInv, WorldInv DEF User
<1>3. CASE \E s \in Servers : Outage(s) \/ Return(s)
  BY <1>3, WorldInv
<1>4. CASE UNCHANGED vars
  <2>1. UNCHANGED <<static, api, world, pc, memory, bounds>>
    BY <1>4 DEF vars
  <2>2. TypeOK'
    BY <2>1 DEF ProviderInv, TypeOK, static, api, world, memory, bounds
  <2>3. ObjectInv(provider)' /\ ObjectInv(cached)' /\ ObjectInv(obj)' /\ CacheInv'
    BY <2>1 DEF ProviderInv, ObjectInv, CacheInv, api, memory
  <2>4. MemoryInv' /\ ProbeInv' /\ ReadyInv'
    BY <2>1, ProbeKept, ReadyKept DEF ProviderInv, MemoryInv, memory, static, api, world
  <2> QED
    BY <2>2, <2>3, <2>4 DEF ProviderInv
<1> QED
  BY <1>1, <1>2, <1>3, <1>4, ReconcileInv, SyncInv, CrashInv DEF Next

-----------------------------------------------------------------------------
(* The theorems.                                                           *)

\* Every state has the types of the Go program's, and a probe has a connection to
\* probe and a call to probe it with.
THEOREM TypeCorrect == Spec => []TypeOK
<1>1. ProviderInv => TypeOK
  BY DEF ProviderInv
<1> QED
  BY <1>1, ProviderInvInit, ProviderInvStep, PTL DEF Spec

\* Ready, as of the generation it names, is true of the spec, with any number of
\* connections, edits, outages and restarts: a status is accepted over the
\* version whose connections were probed and over no other, and every other write
\* of the connections makes a generation the status is not of.
THEOREM ReadyServesCorrect == Spec => []ReadyServes
<1>1. ProviderInv => ReadyServes
  <2> SUFFICES ASSUME ProviderInv, provider.exists, Observed
               PROVE  ReadyServes
    BY DEF ReadyServes
  <2>1. Serves(provider.connections, provider.connectionStatus)
    BY DEF ProviderInv, ReadyInv
  <2>2. /\ DOMAIN provider.connections = 1 .. Len(provider.connections)
        /\ DOMAIN provider.connectionStatus = 1 .. Len(provider.connectionStatus)
    BY FieldTypes DEF ProviderInv, TypeOK
  <2> QED
    BY <2>1, <2>2 DEF ReadyServes, Serves, Reports, Serving, UniqueNames
<1> QED
  BY <1>1, ProviderInvInit, ProviderInvStep, PTL DEF Spec

\* The controller leaves the connections of a provider alone once it has its
\* finalizer: the only Update that writes them over a provider that stays is
\* AddFinalizer's, which is refused when someone else has written meanwhile.
THEOREM SpecKeptCorrect == Spec => SpecKept
<1> DEFINE Kept ==
        /\ provider.exists /\ provider.finalizer
        /\ provider'.exists
        /\ operations' = operations
        => provider'.connections = provider.connections
<1>1. ProviderInv /\ [Next]_vars => Kept
  <2> SUFFICES ASSUME ProviderInv, [Next]_vars, provider.finalizer, provider'.exists,
                      operations' = operations
               PROVE  provider'.connections = provider.connections
    OBVIOUS
  <2>0. /\ provider \in Object /\ obj \in Object /\ operations \in Nat
    BY DEF ProviderInv, TypeOK
  <2>1. CASE AddFinalizer
    <3>1. provider' = provider \/ Fresh
      BY <2>1 DEF AddFinalizer, Accepted, Refused
    <3>2. Fresh => obj = provider /\ ~obj.finalizer
      BY <2>1 DEF AddFinalizer, Fresh, ProviderInv, MemoryInv
    <3> QED
      BY <3>1, <3>2
  <2>2. CASE RemoveFinalizer
    <3> DEFINE new == [obj EXCEPT !.finalizer = FALSE]
    <3>1. provider' = provider \/ (Fresh /\ provider' = PutObject(new))
      BY <2>2 DEF RemoveFinalizer, Accepted, Refused
    <3>2. Fresh => provider.deleting
      BY <2>2 DEF RemoveFinalizer, Fresh, ProviderInv, MemoryInv
    <3>3. new \in Object /\ ~new.finalizer
      BY <2>0 DEF Object
    <3> HIDE DEF new
    <3>4. provider.deleting => PutObject(new) = Absent(provider.resourceVersion + 1)
      BY <2>0, <3>3, PutObjectShape
    <3>5. ~Absent(provider.resourceVersion + 1).exists
      BY DEF Absent
    <3> QED
      BY <3>1, <3>2, <3>4, <3>5
  <2>3. ASSUME NEW ready \in {"True", "False"},
               \/ Accepted(PutStatus([obj EXCEPT !.ready = ready]))
               \/ Refused(PutStatus([obj EXCEPT !.ready = ready]))
        PROVE  provider'.connections = provider.connections
    <3> DEFINE new == [obj EXCEPT !.ready = ready]
    <3>1. new \in Object
      BY <2>0 DEF Object
    <3>2. provider' \in {provider, PutStatus(new)}
      BY <2>3 DEF Accepted, Refused
    <3> HIDE DEF new
    <3> QED
      BY <2>0, <3>1, <3>2, PutStatusShape
  <2>4. CASE UpdateStatus \/ HandleError
    BY <2>3, <2>4 DEF UpdateStatus, HandleError
  <2>5. CASE ReadSecrets \/ ProbeConnection \/ Panic \/ Reconcile \/ Sync \/ Crash
    BY <2>5 DEF ReadSecrets, ProbeConnection, Panic, Reconcile, Sync, Crash, api
  <2>6. CASE \E s \in Servers : ChangeSecret(s) \/ Outage(s) \/ Return(s)
    BY <2>6 DEF ChangeSecret, Outage, Return, api
  <2>7. ~(\/ \E connections \in Specs :
                CreateProvider(connections) \/ EditProvider(connections)
          \/ DeleteProvider)
    BY <2>0, Successor DEF CreateProvider, EditProvider, DeleteProvider, Operation
  <2>8. CASE UNCHANGED vars
    BY <2>8 DEF vars, api
  <2> QED
    BY <2>1, <2>2, <2>4, <2>5, <2>6, <2>7, <2>8 DEF Next, Step, User
<1> QED
  BY <1>1, ProviderInvInit, ProviderInvStep, PTL DEF Spec, SpecKept
=============================================================================
