------------------------ MODULE DatabaseRequestProofs ------------------------
(***************************************************************************)
(* Proofs about the DatabaseRequest controller, for every set of requests, *)
(* connections, specs and edits, and every number of faults and operations.*)
(***************************************************************************)
EXTENDS DatabaseRequest, TLAPS

-----------------------------------------------------------------------------
(* What the API server and the decoder return is an object.                *)

\* Versions and generations are counted.
LEMMA Successor ==
    ASSUME NEW n \in Nat
    PROVE  n + 1 \in Nat
OBVIOUS

\* The store without an object.
LEMMA AbsentType ==
    ASSUME NEW rv \in Nat
    PROVE  Absent(rv) \in Object
<1>1. "mysql" \in Types
  BY DEF Types, RelationalTypes
<1>2. DropDefault \in BOOLEAN
  BY DEF DropDefault
<1> QED
  BY <1>1, <1>2 DEF Absent, Object

\* A new object.
LEMMA CreatedType ==
    ASSUME NEW rv \in Nat, NEW type \in Types, NEW seed \in BOOLEAN,
           NEW reference \in Connections \cup {None}, NEW drop \in BOOLEAN
    PROVE  Created(rv, type, seed, reference, drop) \in Object
<1>1. rv + 1 \in Nat
  BY Successor
<1>2. Absent(rv + 1) \in Object
  BY <1>1, AbsentType
<1> QED
  BY <1>1, <1>2 DEF Created, Object

\* A write stores the new object but for its resource version.
LEMMA WrittenType ==
    ASSUME NEW current \in Object, NEW new \in Object
    PROVE  Written(current, new) \in Object
BY Successor DEF Written, Object

\* Update stores an object.
LEMMA PutObjectType ==
    ASSUME NEW current \in Object, NEW new \in Object
    PROVE  PutObject(current, new) \in Object
<1> DEFINE stored == [current EXCEPT
            !.finalizer = new.finalizer,
            !.seed = new.seed,
            !.connectionReference = new.connectionReference,
            !.dropDatabaseOnDelete = EncodedDrop(new.dropDatabaseOnDelete)]
<1>1. EncodedDrop(new.dropDatabaseOnDelete) \in BOOLEAN
  BY DEF EncodedDrop, DropDefault
<1>2. stored \in Object
  BY <1>1 DEF Object
<1>3. [stored EXCEPT !.generation = current.generation + 1] \in Object
  BY <1>2, Successor DEF Object
<1>4. Absent(current.resourceVersion + 1) \in Object
  BY AbsentType, Successor DEF Object
<1> QED
  BY <1>2, <1>3, <1>4, WrittenType DEF PutObject

\* Status().Update stores an object.
LEMMA PutStatusType ==
    ASSUME NEW current \in Object, NEW new \in Object
    PROVE  PutStatus(current, new) \in Object
<1>1. [current EXCEPT
            !.ready = new.ready,
            !.observedGeneration = new.observedGeneration,
            !.observedReference = new.observedReference] \in Object
  BY DEF Object
<1> QED
  BY <1>1, WrittenType DEF PutStatus

\* The decoder returns an object.
LEMMA DecodeType ==
    ASSUME NEW answer \in Object, NEW memory \in Object
    PROVE  Decode(answer, memory) \in Object
<1> DEFINE reference == IF answer.connectionReference = None
                        THEN memory.connectionReference
                        ELSE answer.connectionReference
           ready == IF answer.ready = "unset" THEN memory.ready ELSE answer.ready
           generation == IF answer.observedGeneration = 0
                         THEN memory.observedGeneration
                         ELSE answer.observedGeneration
           observed == IF answer.observedReference = None
                       THEN memory.observedReference
                       ELSE answer.observedReference
<1>1. reference \in Connections \cup {None} /\ observed \in Connections \cup {None}
  BY DEF Object
<1>2. ready \in ReadyReasons \cup {"unset", "Failed"} /\ generation \in Nat
  BY DEF Object
<1>3. Decode(answer, memory) =
        [answer EXCEPT !.connectionReference = reference,
                       !.ready = ready,
                       !.observedGeneration = generation,
                       !.observedReference = observed]
  BY DEF Decode
<1> HIDE DEF reference, ready, generation, observed
<1>4. [answer EXCEPT !.connectionReference = reference] \in Object
  BY <1>1 DEF Object
<1>5. \A o \in Object :
        [o EXCEPT !.ready = ready, !.observedGeneration = generation] \in Object
  BY <1>2 DEF Object
<1>6. \A o \in Object : [o EXCEPT !.observedReference = observed] \in Object
  BY <1>1 DEF Object
<1> DEFINE first == [answer EXCEPT !.connectionReference = reference]
           second == [first EXCEPT !.ready = ready, !.observedGeneration = generation]
<1>7. Decode(answer, memory) = [second EXCEPT !.observedReference = observed]
  BY <1>3 DEF Object
<1>8. second \in Object
  BY <1>4, <1>5
<1> QED
  BY <1>6, <1>7, <1>8

\* Users store objects.
LEMMA UserObjectType ==
    ASSUME NEW current \in Object
    PROVE  Deleted(current) \in Object /\ Edited(current) \in Object
<1>1. Absent(current.resourceVersion + 1) \in Object
  BY AbsentType, Successor DEF Object
<1>2. Edited(current) \in Object
  BY Successor DEF Edited, Object
<1>3. [current EXCEPT
            !.deleting = TRUE,
            !.generation = @ + 1,
            !.resourceVersion = @ + 1] \in Object
  BY Successor DEF Object
<1> QED
  BY <1>1, <1>2, <1>3 DEF Deleted

\* The controller's changes of an object in memory.
LEMMA MemoryType ==
    ASSUME NEW o \in Object, NEW flag \in BOOLEAN, NEW generation \in Nat,
           NEW reference \in Connections \cup {None},
           NEW ready \in ReadyReasons \cup {"unset", "Failed"}
    PROVE  /\ [o EXCEPT !.finalizer = flag] \in Object
           /\ [o EXCEPT !.observedGeneration = generation] \in Object
           /\ [o EXCEPT !.observedReference = reference] \in Object
           /\ [o EXCEPT !.connectionReference = reference] \in Object
           /\ [o EXCEPT !.ready = ready] \in Object
           /\ [o EXCEPT !.connectionReference = reference,
                        !.observedReference = reference,
                        !.seed = flag] \in Object
BY DEF Object

LEMMA FieldTypes ==
    ASSUME NEW o \in Object
    PROVE  /\ o.uid \in Nat
           /\ o.resourceVersion \in Nat
           /\ o.generation \in Nat
           /\ o.exists \in BOOLEAN
           /\ o.deleting \in BOOLEAN
           /\ o.finalizer \in BOOLEAN
           /\ o.type \in Types
           /\ o.connectionReference \in Connections \cup {None}
           /\ o.observedReference \in Connections \cup {None}
           /\ o.ready \in ReadyReasons \cup {"unset", "Failed"}
BY DEF Object

-----------------------------------------------------------------------------
(* Type correctness.  TypeOK is inductive together with WorkerInv.         *)

TypeInv == TypeOK /\ WorkerInv

Steps == {"idle"} \cup Creating \cup Deleting \cup Failing
Users == [Connections \X Requests -> Credentials \cup {None}]

\* The objects in the store, the cache and the memory of a reconcile.
LEMMA ObjectTypes ==
    ASSUME TypeOK, NEW k \in Requests
    PROVE  request[k] \in Object /\ cached[k] \in Object /\ obj[k] \in Object
BY DEF TypeOK

LEMMA StepNames ==
    /\ "idle" \in Steps
    /\ "addFinalizer" \in Steps
    /\ "handleSeed" \in Steps
    /\ "setDatabaseInfo" \in Steps
    /\ "deleteSeedSecret" \in Steps
    /\ "createDatabase" \in Steps
    /\ "updateCreateStatus" \in Steps
    /\ "getDatabaseInfo" \in Steps
    /\ "handleService" \in Steps
    /\ "handleSecret" \in Steps
    /\ "updateRequest" \in Steps
    /\ "updateStatus" \in Steps
    /\ "dropDatabase" \in Steps
    /\ "updateDropStatus" \in Steps
    /\ "deleteService" \in Steps
    /\ "deleteSecret" \in Steps
    /\ "removeFinalizer" \in Steps
    /\ "handleError" \in Steps
    /\ "ignoreError" \in Steps
BY DEF Steps, Creating, Deleting, Failing

\* The first step of a reconcile, and the step after the finalizer, are steps;
\* what has to be in memory first is there.
LEMMA StepTypes ==
    ASSUME NEW o \in Object
    PROVE  /\ FirstStep(o) \in Steps
           /\ CreateStep(o) \in Steps
           /\ \A step \in {FirstStep(o), CreateStep(o)} :
                /\ step \notin {"setDatabaseInfo", "deleteSeedSecret",
                               "handleSecret", "updateCreateStatus"}
                /\ step = "getDatabaseInfo" => o.connectionReference /= None
BY StepNames DEF FirstStep, CreateStep, DeleteStep

\* A reconcile that starts relies on nothing it does not have.
LEMMA StartWorker ==
    ASSUME TypeInv, NEW k \in Requests, NEW o \in Object,
           NEW step \in {FirstStep(o), CreateStep(o)}, Start(k, o, step)
    PROVE  WorkerInv'
<1>1. /\ step \notin {"setDatabaseInfo", "deleteSeedSecret", "handleSecret",
                     "updateCreateStatus"}
      /\ step = "getDatabaseInfo" => o.connectionReference /= None
  BY StepTypes
<1>2. CASE step = "idle"
  BY <1>2 DEF TypeInv, TypeOK, WorkerInv, Start, Idle, Goto
<1>3. CASE step /= "idle"
  BY <1>1, <1>3 DEF TypeInv, TypeOK, WorkerInv, Start, Goto
<1> QED
  BY <1>2, <1>3

LEMMA GotoType ==
    ASSUME TypeOK, NEW k \in Requests, NEW step \in Steps, Goto(k, step)
    PROVE  pc' \in [Requests -> Steps]
BY DEF TypeOK, Goto, Steps

LEMMA FaultType ==
    ASSUME TypeOK, Fault
    PROVE  faults' \in 0 .. MaxFaults
BY BoundsAssumption DEF TypeOK, Fault

LEMMA OperationType ==
    ASSUME TypeOK, Operation
    PROVE  operations' \in 0 .. MaxOperations
BY BoundsAssumption DEF TypeOK, Operation

\* A step that returns leaves the memory of the reconcile empty.
LEMMA IdleType ==
    ASSUME TypeOK, NEW k \in Requests, Idle(k)
    PROVE  /\ pc' \in [Requests -> Steps]
           /\ obj' \in [Requests -> Object]
           /\ dbInfo' \in [Requests -> DatabaseInfo \cup {None}]
           /\ changed' \in [Requests -> BOOLEAN]
<1>1. pc' \in [Requests -> Steps]
  BY GotoType, StepNames DEF Idle
<1>2. Absent(0) \in Object
  BY AbsentType
<1> QED
  BY <1>1, <1>2 DEF TypeOK, Idle

\* A reconcile that starts or goes on after AddFinalizer is well typed.
LEMMA StartType ==
    ASSUME TypeOK, NEW k \in Requests, NEW o \in Object, NEW step \in Steps,
           Start(k, o, step)
    PROVE  /\ pc' \in [Requests -> Steps]
           /\ obj' \in [Requests -> Object]
           /\ dbInfo' \in [Requests -> DatabaseInfo \cup {None}]
           /\ changed' \in [Requests -> BOOLEAN]
<1>1. CASE step = "idle"
  BY <1>1, IdleType DEF Start
<1>2. CASE step /= "idle"
  BY <1>2, GotoType DEF Start, TypeOK
<1> QED
  BY <1>1, <1>2

\* Accepted and refused writes store objects.
LEMMA WriteType ==
    ASSUME TypeOK, NEW k \in Requests, NEW stored \in Object,
           Accepted(k, stored) \/ Refused(k, stored)
    PROVE  /\ request' \in [Requests -> Object]
           /\ faults' \in 0 .. MaxFaults
BY FaultType DEF TypeOK, Accepted, Refused

\* What the caches of Services and Secrets show is typed as what is there.
LEMMA SeenType ==
    ASSUME TypeOK, NEW k \in Requests
    PROVE  /\ SeenService(k) \in Connections \cup {None}
           /\ SeenSecret(k) \in DatabaseInfo \cup {None}
BY DEF TypeOK, SeenService, SeenSecret

PublicationOK ==
    /\ service \in [Requests -> Connections \cup {None}]
    /\ secret \in [Requests -> DatabaseInfo \cup {None}]
    /\ stale \subseteq Requests \X {"service", "secret"}
    /\ seenService \in [Requests -> Connections \cup {None}]
    /\ seenSecret \in [Requests -> DatabaseInfo \cup {None}]

LEMMA WriteServiceType ==
    ASSUME TypeOK, NEW k \in Requests, NEW new \in Connections \cup {None},
           WriteService(k, new)
    PROVE  PublicationOK'
<1>1. SeenService(k) \in Connections \cup {None}
  BY SeenType
<1>2. service' \in [Requests -> Connections \cup {None}]
  BY DEF TypeOK, WriteService
<1>3. seenService' \in [Requests -> Connections \cup {None}]
  BY <1>1 DEF TypeOK, WriteService
<1>4. stale' \subseteq Requests \X {"service", "secret"}
  BY DEF TypeOK, WriteService
<1> QED
  BY <1>2, <1>3, <1>4 DEF TypeOK, WriteService, PublicationOK

LEMMA WriteSecretType ==
    ASSUME TypeOK, NEW k \in Requests, NEW new \in DatabaseInfo \cup {None},
           WriteSecret(k, new)
    PROVE  PublicationOK'
<1>1. SeenSecret(k) \in DatabaseInfo \cup {None}
  BY SeenType
<1>2. secret' \in [Requests -> DatabaseInfo \cup {None}]
  BY DEF TypeOK, WriteSecret
<1>3. seenSecret' \in [Requests -> DatabaseInfo \cup {None}]
  BY <1>1 DEF TypeOK, WriteSecret
<1>4. stale' \subseteq Requests \X {"service", "secret"}
  BY DEF TypeOK, WriteSecret
<1> QED
  BY <1>2, <1>3, <1>4 DEF TypeOK, WriteSecret, PublicationOK

\* The row that is read or inserted carries credentials.
LEMMA WithRowType ==
    ASSUME TypeOK, NEW n \in Connections, NEW k \in Requests
    PROVE  WithRow(n, k) \in Users /\ WithRow(n, k)[<<n, k>>] \in Credentials
BY DEF TypeOK, WithRow, Users, Credentials, Generated

LEMMA WithInfoType ==
    ASSUME TypeOK, NEW n \in Connections, NEW k \in Requests,
           NEW cred \in Credentials
    PROVE  WithInfo(n, k, cred) \in Users
BY DEF TypeOK, WithInfo, Users

-----------------------------------------------------------------------------
(* One lemma per action.                                                   *)

LEMMA ReconcileType ==
    ASSUME TypeInv, NEW k \in Requests, Reconcile(k)
    PROVE  TypeInv'
<1>1. cached[k] \in Object /\ FirstStep(cached[k]) \in Steps
  BY StepTypes DEF TypeInv, TypeOK
<1>2. /\ pc' \in [Requests -> Steps]
      /\ obj' \in [Requests -> Object]
      /\ dbInfo' \in [Requests -> DatabaseInfo \cup {None}]
      /\ changed' \in [Requests -> BOOLEAN]
  BY <1>1, StartType DEF TypeInv, Reconcile
<1>3. TypeOK'
  BY <1>2 DEF TypeInv, TypeOK, Reconcile, Steps, store, caches, server, bounds
<1>4. WorkerInv'
  BY <1>1, StartWorker DEF Reconcile
<1> QED
  BY <1>3, <1>4 DEF TypeInv

LEMMA AddFinalizerType ==
    ASSUME TypeInv, NEW k \in Requests, AddFinalizer(k)
    PROVE  TypeInv'
<1> DEFINE new == [obj[k] EXCEPT !.finalizer = TRUE]
           stored == PutObject(request[k], new)
           answer == Decode(stored, new)
<1>1. new \in Object
  BY ObjectTypes, MemoryType DEF TypeInv
<1>2. stored \in Object
  BY <1>1, ObjectTypes, PutObjectType DEF TypeInv
<1>3. answer \in Object /\ CreateStep(answer) \in Steps
  BY <1>1, <1>2, DecodeType, StepTypes
<1> HIDE DEF new, stored, answer
<1>4. \/ Accepted(k, stored) /\ Start(k, answer, CreateStep(answer))
      \/ /\ Refused(k, stored)
         /\ Goto(k, "handleError")
         /\ obj' = [obj EXCEPT ![k] = new]
         /\ UNCHANGED <<dbInfo, changed>>
  BY DEF AddFinalizer, new, stored, answer
<1>5. request' \in [Requests -> Object] /\ faults' \in 0 .. MaxFaults
  BY <1>2, <1>4, WriteType DEF TypeInv
<1>6. /\ pc' \in [Requests -> Steps]
      /\ obj' \in [Requests -> Object]
      /\ dbInfo' \in [Requests -> DatabaseInfo \cup {None}]
      /\ changed' \in [Requests -> BOOLEAN]
  <2>1. CASE Start(k, answer, CreateStep(answer))
    BY <1>3, <2>1, StartType DEF TypeInv
  <2>2. CASE Goto(k, "handleError") /\ obj' = [obj EXCEPT ![k] = new]
             /\ UNCHANGED <<dbInfo, changed>>
    BY <1>1, <2>2, GotoType, StepNames DEF TypeInv, TypeOK
  <2> QED
    BY <1>4, <2>1, <2>2
<1>7. TypeOK'
  BY <1>5, <1>6 DEF TypeInv, TypeOK, AddFinalizer, Steps, caches, server
<1>8. WorkerInv'
  <2>1. CASE Start(k, answer, CreateStep(answer))
    BY <1>3, <2>1, StartWorker
  <2>2. CASE Goto(k, "handleError") /\ obj' = [obj EXCEPT ![k] = new]
             /\ UNCHANGED <<dbInfo, changed>>
    BY <2>2 DEF TypeInv, TypeOK, WorkerInv, Goto
  <2> QED
    BY <1>4, <2>1, <2>2
<1> QED
  BY <1>7, <1>8 DEF TypeInv

LEMMA HandleSeedType ==
    ASSUME TypeInv, NEW k \in Requests, HandleSeed(k)
    PROVE  TypeInv'
<1>1. seedSecret[k] \in databases =>
        [conn |-> seedSecret[k][1], cred |-> seedSecret[k][2]] \in DatabaseInfo
  BY DEF TypeInv, TypeOK, DatabaseInfo
<1>2. dbInfo' \in [Requests -> DatabaseInfo \cup {None}]
  BY <1>1 DEF TypeInv, TypeOK, HandleSeed, Fails
<1>3. pc' \in [Requests -> Steps]
  BY GotoType, StepNames DEF TypeInv, HandleSeed, Fails
<1>4. faults' \in 0 .. MaxFaults
  BY FaultType DEF TypeInv, TypeOK, HandleSeed, Fails
<1>5. TypeOK'
  BY <1>2, <1>3, <1>4 DEF TypeInv, TypeOK, HandleSeed, Steps, store, caches, server
<1>6. WorkerInv'
  BY <1>1, SeedAssumption DEF TypeInv, TypeOK, WorkerInv, HandleSeed, Fails, Goto
<1> QED
  BY <1>5, <1>6 DEF TypeInv

LEMMA SetDatabaseInfoType ==
    ASSUME TypeInv, NEW k \in Requests, SetDatabaseInfo(k)
    PROVE  TypeInv'
<1>1. dbInfo[k].conn \in Connections /\ dbInfo[k].cred \in Credentials
  BY DEF TypeInv, TypeOK, WorkerInv, SetDatabaseInfo, DatabaseInfo
<1>2. users' \in Users
  <2>1. WithInfo(dbInfo[k].conn, k, dbInfo[k].cred) \in Users
    BY <1>1, WithInfoType DEF TypeInv
  <2>2. users' = WithInfo(dbInfo[k].conn, k, dbInfo[k].cred) \/ users' = users
    BY DEF SetDatabaseInfo, Fails
  <2> QED
    BY <2>1, <2>2 DEF TypeInv, TypeOK, Users
<1>3. pc' \in [Requests -> Steps]
  BY GotoType, StepNames DEF TypeInv, SetDatabaseInfo, Fails
<1>4. faults' \in 0 .. MaxFaults
  BY FaultType DEF TypeInv, TypeOK, SetDatabaseInfo, Fails
<1>5. TypeOK'
  BY <1>2, <1>3, <1>4 DEF TypeInv, TypeOK, SetDatabaseInfo, Steps, Users, store, caches
<1>6. WorkerInv'
  BY DEF TypeInv, TypeOK, WorkerInv, SetDatabaseInfo, Fails, Goto
<1> QED
  BY <1>5, <1>6 DEF TypeInv

LEMMA DeleteSeedSecretType ==
    ASSUME TypeInv, NEW k \in Requests, DeleteSeedSecret(k)
    PROVE  TypeInv'
<1>1. dbInfo[k].conn \in Connections
  BY DEF TypeInv, TypeOK, WorkerInv, DeleteSeedSecret, DatabaseInfo
<1>2. [obj[k] EXCEPT
            !.connectionReference = dbInfo[k].conn,
            !.observedReference = dbInfo[k].conn,
            !.seed = FALSE] \in Object
  BY <1>1, ObjectTypes, MemoryType DEF TypeInv
<1>3. obj' \in [Requests -> Object]
  BY <1>2 DEF TypeInv, TypeOK, DeleteSeedSecret
<1>4. seedSecret' \in [Requests -> (Connections \X SeedCredentials) \cup {None}]
  BY DEF TypeInv, TypeOK, DeleteSeedSecret, Fails
<1>5. pc' \in [Requests -> Steps]
  BY GotoType, StepNames DEF TypeInv, DeleteSeedSecret, Fails
<1>6. faults' \in 0 .. MaxFaults
  BY FaultType DEF TypeInv, TypeOK, DeleteSeedSecret, Fails
<1>7. TypeOK'
  BY <1>3, <1>4, <1>5, <1>6 DEF TypeInv, TypeOK, DeleteSeedSecret, Steps, caches, server
<1>8. WorkerInv'
  BY DEF TypeInv, TypeOK, WorkerInv, DeleteSeedSecret, Fails, Goto
<1> QED
  BY <1>7, <1>8 DEF TypeInv

LEMMA CreateDatabaseType ==
    ASSUME TypeInv, NEW k \in Requests, CreateDatabase(k)
    PROVE  TypeInv'
<1>1. \A n \in Pool :
        /\ n \in Connections
        /\ WithRow(n, k) \in Users
        /\ <<n, WithRow(n, k)[<<n, k>>]>> \in Connections \X Credentials
        /\ [obj[k] EXCEPT !.observedReference = n] \in Object
        /\ n /= None
  BY PoolAssumption, NoneAssumption, WithRowType, ObjectTypes, MemoryType DEF TypeInv
<1>2. users' \in Users /\ databases' \subseteq Connections \X Credentials
  <2>1. \/ UNCHANGED <<users, databases>>
        \/ \E n \in Pool :
            /\ users' = WithRow(n, k)
            /\ databases' \in {databases,
                    databases \cup {<<n, WithRow(n, k)[<<n, k>>]>>}}
    BY DEF CreateDatabase, Candidates, WithDatabase, Fails
  <2> QED
    BY <1>1, <2>1 DEF TypeInv, TypeOK, Users
<1>3. obj' \in [Requests -> Object]
  <2>1. \/ obj' = obj
        \/ \E n \in Pool :
            obj' = [obj EXCEPT ![k] = [obj[k] EXCEPT !.observedReference = n]]
    BY DEF CreateDatabase, Candidates, Fails
  <2>2. obj \in [Requests -> Object]
    BY DEF TypeInv, TypeOK
  <2>3. \A o \in Object : [obj EXCEPT ![k] = o] \in [Requests -> Object]
    BY <2>2
  <2> QED
    BY <1>1, <2>1, <2>2, <2>3
<1>4. pc' \in [Requests -> Steps]
  BY GotoType, StepNames DEF TypeInv, CreateDatabase, Fails
<1>5. faults' \in 0 .. MaxFaults
  BY FaultType DEF TypeInv, TypeOK, CreateDatabase, Fails
<1>6. TypeOK'
  BY <1>2, <1>3, <1>4, <1>5
     DEF TypeInv, TypeOK, CreateDatabase, Steps, Users, store, caches
<1>7. WorkerInv'
  <2>1. pc'[k] = "updateCreateStatus" => obj'[k].observedReference /= None
    <3>1. \/ Goto(k, "handleError")
          \/ \E n \in Pool : obj' = [obj EXCEPT ![k].observedReference = n]
      BY DEF CreateDatabase, Candidates, Fails
    <3>2. \A n \in Pool :
            obj' = [obj EXCEPT ![k].observedReference = n] =>
                obj'[k].observedReference = n
      BY ObjectTypes DEF TypeInv, TypeOK, Object
    <3> QED
      BY <1>1, <3>1, <3>2 DEF TypeInv, TypeOK, Goto
  <2>2. pc'[k] \in {"updateCreateStatus", "handleError"}
    BY DEF TypeInv, TypeOK, CreateDatabase, Fails, Goto
  <2>3. \A j \in Requests : j /= k =>
          pc'[j] = pc[j] /\ obj'[j] = obj[j] /\ dbInfo'[j] = dbInfo[j]
    BY DEF TypeInv, TypeOK, CreateDatabase, Fails, Goto
  <2> QED
    BY <2>1, <2>2, <2>3 DEF TypeInv, WorkerInv
<1> QED
  BY <1>6, <1>7 DEF TypeInv

LEMMA UpdateCreateStatusType ==
    ASSUME TypeInv, NEW k \in Requests, UpdateCreateStatus(k)
    PROVE  TypeInv'
<1> DEFINE stored == PutStatus(request[k], obj[k])
           answer == [Decode(stored, obj[k]) EXCEPT
                        !.connectionReference = obj[k].observedReference]
<1>1. stored \in Object
  BY ObjectTypes, PutStatusType DEF TypeInv
<1>2. Decode(stored, obj[k]) \in Object
  BY <1>1, ObjectTypes, DecodeType DEF TypeInv
<1>3. answer \in Object
  BY <1>2, ObjectTypes, FieldTypes, MemoryType DEF TypeInv
<1>4. answer.connectionReference = obj[k].observedReference
  BY <1>2 DEF Object
<1> HIDE DEF stored, answer
<1>5. \/ /\ Accepted(k, stored)
         /\ obj' = [obj EXCEPT ![k] = answer]
         /\ Goto(k, "getDatabaseInfo")
      \/ /\ Refused(k, stored)
         /\ Goto(k, "handleError")
         /\ UNCHANGED obj
  BY DEF UpdateCreateStatus, stored, answer
<1>6. request' \in [Requests -> Object] /\ faults' \in 0 .. MaxFaults
  BY <1>1, <1>5, WriteType DEF TypeInv
<1>7. obj' \in [Requests -> Object]
  BY <1>3, <1>5 DEF TypeInv, TypeOK
<1>8. pc' \in [Requests -> Steps]
  BY <1>5, GotoType, StepNames DEF TypeInv
<1>9. TypeOK'
  BY <1>6, <1>7, <1>8 DEF TypeInv, TypeOK, UpdateCreateStatus, Steps, caches, server
<1>10. WorkerInv'
  BY <1>4, <1>5 DEF TypeInv, TypeOK, WorkerInv, UpdateCreateStatus, Goto
<1> QED
  BY <1>9, <1>10 DEF TypeInv

LEMMA GetDatabaseInfoType ==
    ASSUME TypeInv, NEW k \in Requests, GetDatabaseInfo(k)
    PROVE  TypeInv'
<1> DEFINE n == obj[k].connectionReference
           info == [conn |-> n, cred |-> WithRow(n, k)[<<n, k>>]]
<1>1. n \in Connections
  BY ObjectTypes, FieldTypes DEF TypeInv, WorkerInv, GetDatabaseInfo
<1>2. /\ WithRow(n, k) \in Users
      /\ info \in DatabaseInfo
      /\ [obj[k] EXCEPT !.observedReference = n] \in Object
  BY <1>1, WithRowType, ObjectTypes, MemoryType DEF TypeInv, DatabaseInfo
<1> HIDE DEF n, info
<1>3. /\ obj' = [obj EXCEPT ![k].observedReference = n]
      /\ \/ /\ users' = WithRow(n, k)
            /\ dbInfo' = [dbInfo EXCEPT ![k] = info]
            /\ Goto(k, "handleService")
            /\ UNCHANGED faults
         \/ /\ Fails(k, users' \in {users, WithRow(n, k)})
            /\ UNCHANGED dbInfo
         \/ /\ Goto(k, "handleService")
            /\ UNCHANGED <<users, dbInfo, faults>>
  BY DEF GetDatabaseInfo, n, info
<1>4. users' \in Users
  BY <1>2, <1>3 DEF TypeInv, TypeOK, Fails, Users
<1>5. obj' \in [Requests -> Object]
  BY <1>2, <1>3 DEF TypeInv, TypeOK
<1>6. dbInfo' \in [Requests -> DatabaseInfo \cup {None}]
  BY <1>2, <1>3 DEF TypeInv, TypeOK
<1>7. pc' \in [Requests -> Steps] /\ faults' \in 0 .. MaxFaults
  BY <1>3, GotoType, FaultType, StepNames DEF TypeInv, TypeOK, Fails
<1>8. TypeOK'
  BY <1>4, <1>5, <1>6, <1>7
     DEF TypeInv, TypeOK, GetDatabaseInfo, Steps, Users, store, caches
<1>9. WorkerInv'
  BY <1>3 DEF TypeInv, TypeOK, WorkerInv, GetDatabaseInfo, Fails, Goto
<1> QED
  BY <1>8, <1>9 DEF TypeInv

LEMMA HandleServiceType ==
    ASSUME TypeInv, NEW k \in Requests, HandleService(k)
    PROVE  TypeInv'
<1>1. dbInfo[k].conn \in Connections \cup {None} /\ dbInfo[k] /= None
  BY DEF TypeInv, TypeOK, HandleService, DatabaseInfo
<1>2. UNCHANGED publication \/ WriteService(k, dbInfo[k].conn)
  BY DEF HandleService, Fails
<1>3. PublicationOK'
  BY <1>1, <1>2, WriteServiceType DEF TypeInv, TypeOK, PublicationOK, publication
<1>4. changed' \in [Requests -> BOOLEAN]
  BY DEF TypeInv, TypeOK, HandleService
<1>5. pc' \in [Requests -> Steps] /\ faults' \in 0 .. MaxFaults
  BY GotoType, FaultType, StepNames DEF TypeInv, TypeOK, HandleService, Fails
<1>6. TypeOK'
  BY <1>3, <1>4, <1>5 DEF TypeInv, TypeOK, HandleService, Steps, server, PublicationOK
<1>7. WorkerInv'
  BY <1>1 DEF TypeInv, TypeOK, WorkerInv, HandleService, Fails, Goto
<1> QED
  BY <1>6, <1>7 DEF TypeInv

LEMMA HandleSecretType ==
    ASSUME TypeInv, NEW k \in Requests, HandleSecret(k)
    PROVE  TypeInv'
<1>1. dbInfo[k] \in DatabaseInfo \cup {None}
  BY DEF TypeInv, TypeOK
<1>2. UNCHANGED publication \/ WriteSecret(k, dbInfo[k])
  BY DEF HandleSecret, Fails
<1>3. PublicationOK'
  BY <1>1, <1>2, WriteSecretType DEF TypeInv, TypeOK, PublicationOK, publication
<1>4. changed' \in [Requests -> BOOLEAN]
  BY DEF TypeInv, TypeOK, HandleSecret
<1>5. pc' \in [Requests -> Steps] /\ faults' \in 0 .. MaxFaults
  BY GotoType, FaultType, StepNames DEF TypeInv, TypeOK, HandleSecret, Fails
<1>6. TypeOK'
  BY <1>3, <1>4, <1>5 DEF TypeInv, TypeOK, HandleSecret, Steps, server, PublicationOK
<1>7. WorkerInv'
  BY DEF TypeInv, TypeOK, WorkerInv, HandleSecret, Fails, Goto
<1> QED
  BY <1>6, <1>7 DEF TypeInv

\* The end of a reconcile relies on nothing.
LEMMA IdleWorker ==
    ASSUME TypeInv, NEW k \in Requests, Idle(k)
    PROVE  WorkerInv'
BY DEF TypeInv, TypeOK, WorkerInv, Idle, Goto

LEMMA PanicType ==
    ASSUME TypeInv, NEW k \in Requests, Panic(k)
    PROVE  TypeInv'
<1>1. Idle(k) /\ queue' \subseteq Requests
  BY DEF TypeInv, TypeOK, Panic, Requeue
<1>2. TypeOK'
  BY <1>1, IdleType DEF TypeInv, TypeOK, Panic, Steps, store, caches, server, bounds
<1> QED
  BY <1>1, <1>2, IdleWorker DEF TypeInv

LEMMA UpdateRequestType ==
    ASSUME TypeInv, NEW k \in Requests, UpdateRequest(k)
    PROVE  TypeInv'
<1> DEFINE new == [obj[k] EXCEPT !.observedGeneration = obj[k].generation]
           stored == PutObject(request[k], new)
           answer == Decode(stored, new)
<1>1. new \in Object
  BY ObjectTypes, FieldTypes, MemoryType DEF TypeInv
<1>2. stored \in Object
  BY <1>1, ObjectTypes, PutObjectType DEF TypeInv
<1>3. answer \in Object
  BY <1>1, <1>2, DecodeType
<1> HIDE DEF new, stored, answer
<1>4. \/ /\ Accepted(k, stored)
         /\ obj' = [obj EXCEPT ![k] = answer]
         /\ Goto(k, "updateStatus")
         /\ UNCHANGED <<dbInfo, changed, queue>>
      \/ Refused(k, stored) /\ Idle(k) /\ queue' = queue \cup {k}
  BY DEF UpdateRequest, Requeue, new, stored, answer
<1>5. request' \in [Requests -> Object] /\ faults' \in 0 .. MaxFaults
  BY <1>2, <1>4, WriteType DEF TypeInv
<1>6. /\ pc' \in [Requests -> Steps]
      /\ obj' \in [Requests -> Object]
      /\ dbInfo' \in [Requests -> DatabaseInfo \cup {None}]
      /\ changed' \in [Requests -> BOOLEAN]
      /\ queue' \subseteq Requests
  <2>1. CASE obj' = [obj EXCEPT ![k] = answer] /\ Goto(k, "updateStatus")
             /\ UNCHANGED <<dbInfo, changed, queue>>
    BY <1>3, <2>1, GotoType, StepNames DEF TypeInv, TypeOK
  <2>2. CASE Idle(k) /\ queue' = queue \cup {k}
    BY <2>2, IdleType DEF TypeInv, TypeOK
  <2> QED
    BY <1>4, <2>1, <2>2
<1>7. TypeOK'
  BY <1>5, <1>6 DEF TypeInv, TypeOK, UpdateRequest, Steps, caches, server
<1>8. WorkerInv'
  <2>1. CASE obj' = [obj EXCEPT ![k] = answer] /\ Goto(k, "updateStatus")
             /\ UNCHANGED <<dbInfo, changed, queue>>
    BY <2>1 DEF TypeInv, TypeOK, WorkerInv, Goto
  <2> QED
    BY <1>4, <2>1, IdleWorker
<1> QED
  BY <1>7, <1>8 DEF TypeInv

LEMMA UpdateStatusType ==
    ASSUME TypeInv, NEW k \in Requests, UpdateStatus(k)
    PROVE  TypeInv'
<1> DEFINE new == [obj[k] EXCEPT
                    !.ready = IF changed[k] THEN "Changed" ELSE "Created"]
           stored == PutStatus(request[k], new)
<1>1. new \in Object
  BY ObjectTypes, MemoryType DEF TypeInv, ReadyReasons
<1>2. stored \in Object
  BY <1>1, ObjectTypes, PutStatusType DEF TypeInv
<1> HIDE DEF stored
<1>3. \/ Idle(k) /\ UNCHANGED queue /\ UNCHANGED <<request, faults>>
      \/ Idle(k) /\ UNCHANGED queue /\ Accepted(k, stored)
      \/ /\ Goto(k, "handleError")
         /\ UNCHANGED <<obj, dbInfo, changed, queue>>
         /\ Refused(k, stored)
  BY DEF UpdateStatus, Done, stored
<1>4. request' \in [Requests -> Object] /\ faults' \in 0 .. MaxFaults
  BY <1>2, <1>3, WriteType DEF TypeInv, TypeOK
<1>5. /\ pc' \in [Requests -> Steps]
      /\ obj' \in [Requests -> Object]
      /\ dbInfo' \in [Requests -> DatabaseInfo \cup {None}]
      /\ changed' \in [Requests -> BOOLEAN]
      /\ queue' \subseteq Requests
  BY <1>3, IdleType, GotoType, StepNames DEF TypeInv, TypeOK
<1>6. TypeOK'
  BY <1>4, <1>5 DEF TypeInv, TypeOK, UpdateStatus, Steps, caches, server
<1>7. WorkerInv'
  <2>1. CASE Goto(k, "handleError") /\ UNCHANGED <<obj, dbInfo, changed, queue>>
    BY <2>1 DEF TypeInv, TypeOK, WorkerInv, Goto
  <2> QED
    BY <1>3, <2>1, IdleWorker
<1> QED
  BY <1>6, <1>7 DEF TypeInv

LEMMA HandleErrorType ==
    ASSUME TypeInv, NEW k \in Requests, HandleError(k)
    PROVE  TypeInv'
<1> DEFINE new == [obj[k] EXCEPT !.ready = "Failed"]
           stored == PutStatus(request[k], new)
<1>1. new \in Object
  BY ObjectTypes, MemoryType DEF TypeInv
<1>2. stored \in Object
  BY <1>1, ObjectTypes, PutStatusType DEF TypeInv
<1> HIDE DEF stored
<1>3. /\ Accepted(k, stored) \/ Refused(k, stored)
      /\ Idle(k)
      /\ queue' \in {queue, queue \cup {k}}
  BY DEF HandleError, Requeue, Done, stored
<1>4. request' \in [Requests -> Object] /\ faults' \in 0 .. MaxFaults
  BY <1>2, <1>3, WriteType DEF TypeInv
<1>5. queue' \subseteq Requests
  BY <1>3 DEF TypeInv, TypeOK
<1>6. TypeOK'
  BY <1>3, <1>4, <1>5, IdleType
     DEF TypeInv, TypeOK, HandleError, Steps, caches, server
<1> QED
  BY <1>3, <1>6, IdleWorker DEF TypeInv

LEMMA DropDatabaseType ==
    ASSUME TypeInv, NEW k \in Requests, DropDatabase(k)
    PROVE  TypeInv'
<1> DEFINE n == obj[k].connectionReference
           remaining == databases \ {<<n, WithRow(n, k)[<<n, k>>]>>}
<1>1. [obj[k] EXCEPT !.observedReference = None] \in Object
  BY ObjectTypes, MemoryType DEF TypeInv
<1>2. n /= None => WithRow(n, k) \in Users
  BY WithRowType, ObjectTypes, FieldTypes DEF TypeInv
<1>3. remaining \subseteq databases
  OBVIOUS
<1> HIDE DEF n, remaining
<1>4. /\ users' = users \/ (n /= None /\ users' = WithRow(n, k))
      /\ databases' \in {databases, remaining}
      /\ obj' = obj \/ obj' = [obj EXCEPT ![k].observedReference = None]
  BY DEF DropDatabase, Fails, n, remaining, server
<1>5. users' \in Users /\ databases' \subseteq Connections \X Credentials
  BY <1>2, <1>3, <1>4 DEF TypeInv, TypeOK, Users
<1>6. obj' \in [Requests -> Object]
  BY <1>1, <1>4 DEF TypeInv, TypeOK
<1>7. pc' \in [Requests -> Steps]
  BY GotoType, StepNames DEF TypeInv, DropDatabase, Fails
<1>8. faults' \in 0 .. MaxFaults
  BY FaultType DEF TypeInv, TypeOK, DropDatabase, Fails
<1>9. TypeOK'
  BY <1>5, <1>6, <1>7, <1>8
     DEF TypeInv, TypeOK, DropDatabase, Steps, Users, store, caches
<1>10. WorkerInv'
  <2>1. pc'[k] \in {"updateDropStatus", "handleError", "deleteService"}
    BY DEF TypeInv, TypeOK, DropDatabase, Fails, Goto
  <2>2. \A j \in Requests : j /= k =>
          pc'[j] = pc[j] /\ obj'[j] = obj[j] /\ dbInfo'[j] = dbInfo[j]
    BY <1>4 DEF TypeInv, TypeOK, DropDatabase, Fails, Goto
  <2> QED
    BY <2>1, <2>2 DEF TypeInv, WorkerInv
<1> QED
  BY <1>9, <1>10 DEF TypeInv

LEMMA UpdateDropStatusType ==
    ASSUME TypeInv, NEW k \in Requests, UpdateDropStatus(k)
    PROVE  TypeInv'
<1> DEFINE stored == PutStatus(request[k], obj[k])
           answer == [Decode(stored, obj[k]) EXCEPT !.connectionReference = None]
<1>1. stored \in Object
  BY ObjectTypes, PutStatusType DEF TypeInv
<1>2. answer \in Object
  BY <1>1, ObjectTypes, DecodeType, MemoryType DEF TypeInv
<1> HIDE DEF stored, answer
<1>3. \/ /\ Accepted(k, stored)
         /\ obj' = [obj EXCEPT ![k] = answer]
         /\ Goto(k, "deleteService")
      \/ /\ Refused(k, stored)
         /\ Goto(k, "handleError")
         /\ UNCHANGED obj
  BY DEF UpdateDropStatus, stored, answer
<1>4. request' \in [Requests -> Object] /\ faults' \in 0 .. MaxFaults
  BY <1>1, <1>3, WriteType DEF TypeInv
<1>5. obj' \in [Requests -> Object]
  BY <1>2, <1>3 DEF TypeInv, TypeOK
<1>6. pc' \in [Requests -> Steps]
  BY <1>3, GotoType, StepNames DEF TypeInv
<1>7. TypeOK'
  BY <1>4, <1>5, <1>6 DEF TypeInv, TypeOK, UpdateDropStatus, Steps, caches, server
<1>8. WorkerInv'
  BY <1>3 DEF TypeInv, TypeOK, WorkerInv, UpdateDropStatus, Goto
<1> QED
  BY <1>7, <1>8 DEF TypeInv

LEMMA DeletePublicationType ==
    ASSUME TypeInv, NEW k \in Requests, DeleteService(k) \/ DeleteSecret(k)
    PROVE  TypeInv'
<1>1. UNCHANGED publication \/ WriteService(k, None) \/ WriteSecret(k, None)
  BY DEF DeleteService, DeleteSecret, Fails
<1>2. PublicationOK'
  BY <1>1, WriteServiceType, WriteSecretType
     DEF TypeInv, TypeOK, PublicationOK, publication
<1>3. pc' \in [Requests -> Steps] /\ faults' \in 0 .. MaxFaults
  BY GotoType, FaultType, StepNames DEF TypeInv, TypeOK, DeleteService, DeleteSecret, Fails
<1>4. UNCHANGED <<request, seedSecret, cached, queue, server, obj, dbInfo, changed,
                  operations>>
  BY DEF DeleteService, DeleteSecret
<1>5. TypeOK'
  BY <1>2, <1>3, <1>4 DEF TypeInv, TypeOK, Steps, server, PublicationOK
<1>6. \A j \in Requests :
        pc'[j] \in {pc[j], "deleteSecret", "removeFinalizer", "handleError"}
  BY DEF TypeInv, TypeOK, DeleteService, DeleteSecret, Fails, Goto
<1>7. WorkerInv'
  BY <1>4, <1>6 DEF TypeInv, WorkerInv
<1> QED
  BY <1>5, <1>7 DEF TypeInv

LEMMA RemoveFinalizerType ==
    ASSUME TypeInv, NEW k \in Requests, RemoveFinalizer(k)
    PROVE  TypeInv'
<1> DEFINE new == [obj[k] EXCEPT !.finalizer = FALSE]
           stored == PutObject(request[k], new)
<1>1. new \in Object
  BY ObjectTypes, MemoryType DEF TypeInv
<1>2. stored \in Object
  BY <1>1, ObjectTypes, PutObjectType DEF TypeInv
<1> HIDE DEF new, stored
<1>3. \/ Accepted(k, stored) /\ Idle(k) /\ UNCHANGED queue
      \/ /\ Refused(k, stored)
         /\ Goto(k, "handleError")
         /\ obj' = [obj EXCEPT ![k] = new]
         /\ UNCHANGED <<dbInfo, changed, queue>>
  BY DEF RemoveFinalizer, Done, new, stored
<1>4. request' \in [Requests -> Object] /\ faults' \in 0 .. MaxFaults
  BY <1>2, <1>3, WriteType DEF TypeInv
<1>5. /\ pc' \in [Requests -> Steps]
      /\ obj' \in [Requests -> Object]
      /\ dbInfo' \in [Requests -> DatabaseInfo \cup {None}]
      /\ changed' \in [Requests -> BOOLEAN]
      /\ queue' \subseteq Requests
  BY <1>1, <1>3, IdleType, GotoType, StepNames DEF TypeInv, TypeOK
<1>6. TypeOK'
  BY <1>4, <1>5 DEF TypeInv, TypeOK, RemoveFinalizer, Steps, caches, server
<1>7. WorkerInv'
  <2>1. CASE Goto(k, "handleError") /\ obj' = [obj EXCEPT ![k] = new]
             /\ UNCHANGED <<dbInfo, changed, queue>>
    BY <2>1 DEF TypeInv, TypeOK, WorkerInv, Goto
  <2> QED
    BY <1>3, <2>1, IdleWorker
<1> QED
  BY <1>6, <1>7 DEF TypeInv

LEMMA SyncType ==
    ASSUME TypeInv, NEW k \in Requests, Sync(k)
    PROVE  TypeInv'
<1>1. TypeOK'
  <2>1. CASE SyncRequest(k)
    BY <2>1 DEF TypeInv, TypeOK, SyncRequest, store, server, worker, bounds
  <2>2. CASE SyncService(k)
    BY <2>2 DEF TypeInv, TypeOK, SyncService, store, server, worker, bounds
  <2>3. CASE SyncSecret(k)
    BY <2>3 DEF TypeInv, TypeOK, SyncSecret, store, server, worker, bounds
  <2> QED
    BY <2>1, <2>2, <2>3 DEF Sync
<1>2. UNCHANGED worker
  BY DEF Sync, SyncRequest, SyncService, SyncSecret
<1> QED
  BY <1>1, <1>2 DEF TypeInv, WorkerInv, worker

LEMMA UserType ==
    ASSUME TypeInv, NEW k \in Requests, User(k)
    PROVE  TypeInv'
<1>1. /\ UNCHANGED <<service, secret, caches, queue, server, worker, faults>>
      /\ Operation
  BY DEF User, CreateRequest, DeleteRequest, ForceReconcile, ChangeReference, Edit
<1>2. /\ request' \in [Requests -> Object]
      /\ seedSecret' \in [Requests -> (Connections \X SeedCredentials) \cup {None}]
  <2>1. ASSUME NEW spec \in Specs, CreateRequest(k, spec)
        PROVE  <1>2!1 /\ <1>2!2
    <3> DEFINE new == Created(request[k].resourceVersion, spec.type,
                              spec.seed /= None, spec.reference, spec.drop)
    <3>1. /\ spec.type \in Types
          /\ spec.seed \in (Connections \X SeedCredentials) \cup {None}
          /\ spec.reference \in Connections \cup {None}
          /\ spec.drop \in BOOLEAN
      BY SpecsAssumption
    <3>2. new \in Object
      BY <3>1, CreatedType, ObjectTypes, FieldTypes DEF TypeInv
    <3> HIDE DEF new
    <3>3. /\ request' = [request EXCEPT ![k] = new]
          /\ seedSecret' \in {seedSecret, [seedSecret EXCEPT ![k] = spec.seed]}
      BY <2>1 DEF CreateRequest, new
    <3> QED
      BY <3>1, <3>2, <3>3 DEF TypeInv, TypeOK
  <2>2. ASSUME DeleteRequest(k)
        PROVE  <1>2!1 /\ <1>2!2
    BY <2>2, ObjectTypes, UserObjectType DEF TypeInv, TypeOK, DeleteRequest
  <2>3. ASSUME NEW new \in Object, Edit(k, new)
        PROVE  <1>2!1 /\ <1>2!2
    BY <2>3, UserObjectType DEF TypeInv, TypeOK, Edit
  <2>4. CASE ForceReconcile(k)
    BY <2>3, <2>4, ObjectTypes DEF TypeInv, ForceReconcile
  <2>5. ASSUME NEW n \in Connections, ChangeReference(k, n)
        PROVE  <1>2!1 /\ <1>2!2
    <3>1. [request[k] EXCEPT !.connectionReference = n] \in Object
      BY ObjectTypes, MemoryType DEF TypeInv
    <3> QED
      BY <2>3, <2>5, <3>1 DEF ChangeReference
  <2> QED
    BY <2>1, <2>2, <2>4, <2>5 DEF User
<1>3. operations' \in 0 .. MaxOperations
  BY <1>1, OperationType DEF TypeInv
<1>4. TypeOK'
  BY <1>1, <1>2, <1>3 DEF TypeInv, TypeOK, caches, server, worker
<1> QED
  BY <1>1, <1>4 DEF TypeInv, WorkerInv, worker

LEMMA CrashType ==
    ASSUME TypeInv, Crash
    PROVE  TypeInv'
<1>1. Absent(0) \in Object
  BY AbsentType
<1>2. faults' \in 0 .. MaxFaults
  BY FaultType DEF TypeInv, Crash
<1>3. TypeOK'
  BY <1>1, <1>2 DEF TypeInv, TypeOK, Crash, store, server
<1>4. WorkerInv'
  BY DEF WorkerInv, Crash
<1> QED
  BY <1>3, <1>4 DEF TypeInv

-----------------------------------------------------------------------------
LEMMA TypeInvInit == Init => TypeInv
<1>1. Absent(0) \in Object
  BY AbsentType
<1>2. SeedDatabases \subseteq Connections \X Credentials
  BY SeedAssumption DEF Credentials
<1> SUFFICES ASSUME Init PROVE TypeInv
  OBVIOUS
<1>3. TypeOK
  BY <1>1, <1>2, BoundsAssumption DEF Init, TypeOK
<1>4. WorkerInv
  BY DEF Init, WorkerInv
<1> QED
  BY <1>3, <1>4 DEF TypeInv

LEMMA TypeInvStep == TypeInv /\ [Next]_vars => TypeInv'
<1> SUFFICES ASSUME TypeInv, [Next]_vars PROVE TypeInv'
  OBVIOUS
<1>1. ASSUME NEW k \in Requests, Step(k)
      PROVE  TypeInv'
  BY <1>1, AddFinalizerType, HandleSeedType, SetDatabaseInfoType,
     DeleteSeedSecretType, CreateDatabaseType, UpdateCreateStatusType,
     GetDatabaseInfoType, HandleServiceType, HandleSecretType, PanicType,
     UpdateRequestType, UpdateStatusType, HandleErrorType, DropDatabaseType,
     UpdateDropStatusType, DeletePublicationType, RemoveFinalizerType
     DEF Step
<1>2. CASE UNCHANGED vars
  BY <1>2 DEF TypeInv, TypeOK, WorkerInv, vars, store, caches, server, worker, bounds
<1> QED
  BY <1>1, <1>2, ReconcileType, SyncType, UserType, CrashType DEF Next

\* Every reachable state is well typed (TypeOK), and no step of a reconcile
\* dereferences what it has not read or found before.
THEOREM TypeCorrect == Spec => []TypeOK
<1>1. TypeInv => TypeOK
  BY DEF TypeInv
<1> QED
  BY <1>1, TypeInvInit, TypeInvStep, PTL DEF Spec

-----------------------------------------------------------------------------
(* What a write does to the metadata of an object.                         *)

\* The object after a write that does not remove it: the same object of the same
\* type, being deleted or not as before, with the finalizer if it had one, and
\* either the same version or the next.
Touched(current, stored) ==
    /\ stored.exists = current.exists
    /\ stored.uid = current.uid
    /\ stored.type = current.type
    /\ stored.deleting = current.deleting
    /\ current.finalizer => stored.finalizer
    /\ \/ stored = current
       \/ stored.resourceVersion = current.resourceVersion + 1

\* The object is gone.
Gone(current, stored) ==
    /\ ~stored.exists
    /\ ~stored.deleting
    /\ stored.uid = 0
    /\ stored.resourceVersion = current.resourceVersion + 1

LEMMA WrittenMetadata ==
    ASSUME NEW current \in Object, NEW new \in Object
    PROVE  /\ Written(current, new).exists = new.exists
           /\ Written(current, new).uid = new.uid
           /\ Written(current, new).type = new.type
           /\ Written(current, new).deleting = new.deleting
           /\ Written(current, new).finalizer = new.finalizer
           /\ \/ Written(current, new) = current
              \/ Written(current, new).resourceVersion = current.resourceVersion + 1
<1>1. CASE new = current
  BY <1>1 DEF Written
<1>2. CASE new /= current
  <2>1. current.resourceVersion + 1 \in Nat
    BY Successor, FieldTypes
  <2> QED
    BY <1>2, <2>1 DEF Written, Object
<1> QED
  BY <1>1, <1>2

LEMMA AbsentMetadata ==
    ASSUME NEW rv \in Nat
    PROVE  /\ ~Absent(rv).exists
           /\ ~Absent(rv).deleting
           /\ Absent(rv).uid = 0
           /\ Absent(rv).resourceVersion = rv
BY DEF Absent

\* Status().Update touches the object.
LEMMA PutStatusMetadata ==
    ASSUME NEW current \in Object, NEW new \in Object
    PROVE  /\ Touched(current, PutStatus(current, new))
           /\ PutStatus(current, new).finalizer = current.finalizer
<1> DEFINE stored == [current EXCEPT
                        !.ready = new.ready,
                        !.observedGeneration = new.observedGeneration,
                        !.observedReference = new.observedReference]
<1>1. /\ stored \in Object
      /\ stored.exists = current.exists
      /\ stored.uid = current.uid
      /\ stored.type = current.type
      /\ stored.deleting = current.deleting
      /\ stored.finalizer = current.finalizer
  BY DEF Object
<1> HIDE DEF stored
<1>2. PutStatus(current, new) = Written(current, stored)
  BY DEF PutStatus, stored
<1> QED
  BY <1>1, <1>2, WrittenMetadata DEF Touched

\* Update with the finalizer touches the object and sets the finalizer; without
\* it, it removes an object that is being deleted.
LEMMA PutObjectMetadata ==
    ASSUME NEW current \in Object, NEW new \in Object
    PROVE  /\ new.finalizer =>
                /\ Touched(current, PutObject(current, new))
                /\ PutObject(current, new).finalizer
           /\ current.deleting /\ ~new.finalizer =>
                Gone(current, PutObject(current, new))
<1> DEFINE stored == [current EXCEPT
                        !.finalizer = new.finalizer,
                        !.seed = new.seed,
                        !.connectionReference = new.connectionReference,
                        !.dropDatabaseOnDelete = EncodedDrop(new.dropDatabaseOnDelete)]
           bumped == [stored EXCEPT !.generation = current.generation + 1]
<1>1. CASE current.deleting /\ ~new.finalizer
  <2>1. current.resourceVersion + 1 \in Nat
    BY Successor, FieldTypes
  <2>2. PutObject(current, new) = Absent(current.resourceVersion + 1)
    BY <1>1 DEF PutObject
  <2> QED
    BY <1>1, <2>1, <2>2, AbsentMetadata DEF Gone
<1>2. CASE new.finalizer
  <2>1. EncodedDrop(new.dropDatabaseOnDelete) \in BOOLEAN
    BY DEF EncodedDrop, DropDefault
  <2>2. /\ stored \in Object
        /\ stored.exists = current.exists
        /\ stored.uid = current.uid
        /\ stored.type = current.type
        /\ stored.deleting = current.deleting
        /\ stored.finalizer
    <3>1. stored \in Object
      BY <1>2, <2>1 DEF Object
    <3>2. stored.exists = current.exists /\ stored.uid = current.uid
      BY DEF Object
    <3>3. stored.deleting = current.deleting /\ stored.finalizer
      BY <1>2 DEF Object
    <3>4. stored.type = current.type
      BY DEF Object
    <3> QED
      BY <3>1, <3>2, <3>3, <3>4
  <2>3. /\ bumped \in Object
        /\ bumped.exists = current.exists
        /\ bumped.uid = current.uid
        /\ bumped.type = current.type
        /\ bumped.deleting = current.deleting
        /\ bumped.finalizer
    <3>1. current.generation + 1 \in Nat
      BY FieldTypes, Successor
    <3> HIDE DEF stored
    <3>2. [stored EXCEPT !.generation = current.generation + 1] \in Object
      BY <2>2, <3>1 DEF Object
    <3>3. bumped.exists = stored.exists /\ bumped.uid = stored.uid
      BY <2>2 DEF Object
    <3>4. bumped.deleting = stored.deleting /\ bumped.finalizer = stored.finalizer
      BY <2>2 DEF Object
    <3>5. bumped.type = stored.type
      BY <2>2 DEF Object
    <3> QED
      BY <2>2, <3>2, <3>3, <3>4, <3>5
  <2>4. \/ PutObject(current, new) = Written(current, stored)
        \/ PutObject(current, new) = Written(current, bumped)
    BY <1>2 DEF PutObject
  <2> HIDE DEF stored, bumped
  <2>5. Touched(current, Written(current, stored)) /\ Written(current, stored).finalizer
    BY <2>2, WrittenMetadata DEF Touched
  <2>6. Touched(current, Written(current, bumped)) /\ Written(current, bumped).finalizer
    BY <2>3, WrittenMetadata DEF Touched
  <2> QED
    BY <1>2, <2>4, <2>5, <2>6
<1>3. CASE ~new.finalizer /\ ~current.deleting
  BY <1>3
<1> QED
  BY <1>1, <1>2, <1>3, FieldTypes

\* The decoder takes the metadata from the answer.
LEMMA DecodeMetadata ==
    ASSUME NEW answer \in Object, NEW memory \in Object
    PROVE  /\ Decode(answer, memory).exists = answer.exists
           /\ Decode(answer, memory).uid = answer.uid
           /\ Decode(answer, memory).type = answer.type
           /\ Decode(answer, memory).deleting = answer.deleting
           /\ Decode(answer, memory).finalizer = answer.finalizer
           /\ Decode(answer, memory).resourceVersion = answer.resourceVersion
BY DEF Decode, Object

\* A user's deletion touches the object or, without a finalizer, removes it.
LEMMA DeletedMetadata ==
    ASSUME NEW current \in Object
    PROVE  /\ current.finalizer =>
                /\ Deleted(current).exists = current.exists
                /\ Deleted(current).uid = current.uid
                /\ Deleted(current).type = current.type
                /\ Deleted(current).deleting
                /\ Deleted(current).finalizer
                /\ Deleted(current).resourceVersion = current.resourceVersion + 1
           /\ ~current.finalizer => Gone(current, Deleted(current))
<1>1. current.resourceVersion + 1 \in Nat /\ current.generation + 1 \in Nat
  BY Successor, FieldTypes
<1>2. CASE current.finalizer
  BY <1>1, <1>2 DEF Deleted, Object
<1>3. CASE ~current.finalizer
  BY <1>1, <1>3, AbsentMetadata DEF Deleted, Gone
<1> QED
  BY <1>2, <1>3

LEMMA EditedMetadata ==
    ASSUME NEW current \in Object, NEW new \in Object,
           new.exists = current.exists, new.uid = current.uid, new.type = current.type,
           new.deleting = current.deleting, new.finalizer = current.finalizer,
           new.resourceVersion = current.resourceVersion
    PROVE  /\ Touched(current, Edited(new))
           /\ Edited(new).finalizer = current.finalizer
           /\ Edited(new).resourceVersion = current.resourceVersion + 1
<1>1. new.resourceVersion + 1 \in Nat /\ new.generation + 1 \in Nat
  BY Successor, FieldTypes
<1> QED
  BY <1>1 DEF Edited, Touched, Object

LEMMA CreatedMetadata ==
    ASSUME NEW rv \in Nat, NEW type, NEW seed, NEW reference, NEW drop
    PROVE  /\ Created(rv, type, seed, reference, drop).uid = rv + 1
           /\ Created(rv, type, seed, reference, drop).resourceVersion = rv + 1
           /\ ~Created(rv, type, seed, reference, drop).deleting
           /\ ~Created(rv, type, seed, reference, drop).finalizer
<1>1. rv + 1 \in Nat
  BY Successor
<1> QED
  BY <1>1 DEF Created, Absent

-----------------------------------------------------------------------------
(* What the parts of OrphanInv need of a step, whatever action takes it.   *)

Serving == Creating \ {"addFinalizer"}
Quiet == Failing \cup {"idle"}

LEMMA Kinds ==
    /\ Creating \cap Deleting = {}
    /\ Quiet \cap (Creating \cup Deleting) = {}
    /\ "addFinalizer" \in Creating
    /\ {"deleteSecret", "removeFinalizer"} \subseteq Deleting
    /\ {"handleSeed", "setDatabaseInfo", "deleteSeedSecret", "createDatabase",
        "updateCreateStatus", "getDatabaseInfo", "handleService", "handleSecret",
        "updateRequest", "updateStatus"} \subseteq Serving
    /\ {"dropDatabase", "updateDropStatus", "deleteService"} \subseteq
            Deleting \ {"deleteSecret", "removeFinalizer"}
    /\ {"idle", "handleError", "ignoreError"} \subseteq Quiet
BY DEF Creating, Deleting, Failing, Serving, Quiet

\* The versions and uids of the copies of an object are numbers.
LEMMA Numbers ==
    ASSUME TypeOK, NEW k \in Requests
    PROVE  /\ request[k].uid \in Nat /\ request[k].resourceVersion \in Nat
           /\ cached[k].uid \in Nat /\ cached[k].resourceVersion \in Nat
           /\ obj[k].uid \in Nat /\ obj[k].resourceVersion \in Nat
BY ObjectTypes, FieldTypes

\* The same of the next state.
LEMMA NumbersNext ==
    ASSUME TypeOK', NEW k \in Requests
    PROVE  /\ request'[k].uid \in Nat /\ request'[k].resourceVersion \in Nat
           /\ cached'[k].uid \in Nat /\ cached'[k].resourceVersion \in Nat
           /\ obj'[k].uid \in Nat /\ obj'[k].resourceVersion \in Nat
<1>1. request'[k] \in Object /\ cached'[k] \in Object /\ obj'[k] \in Object
  BY DEF TypeOK
<1> QED
  BY <1>1, FieldTypes

\* The finalizer is there after a write only if it was there before, or
\* AddFinalizer found the object as it had been read.
FinalizerAdded(k) ==
    request'[k].finalizer =>
        request[k].finalizer \/ (pc[k] = "addFinalizer" /\ Fresh(k))

\* The reconcile ends or fails; what it may have written touched the object.
Settled(k) ==
    /\ Touched(request[k], request'[k])
    /\ FinalizerAdded(k)
    /\ cached'[k] = cached[k]
    /\ service'[k] = service[k] /\ secret'[k] = secret[k]
    /\ pc'[k] \in Quiet

\* The reconcile goes on with the answer to its write.
Answered(k) ==
    /\ Fresh(k)
    /\ Touched(request[k], request'[k])
    /\ FinalizerAdded(k)
    /\ cached'[k] = cached[k]
    /\ service'[k] = service[k] /\ secret'[k] = secret[k]
    /\ obj'[k].uid = request'[k].uid
    /\ obj'[k].type = request'[k].type
    /\ obj'[k].resourceVersion = request'[k].resourceVersion
    /\ obj'[k].deleting = request'[k].deleting
    /\ obj'[k].finalizer = request'[k].finalizer
    /\ \/ pc[k] \in Creating /\ request'[k].finalizer /\ pc'[k] \in Serving
       \/ pc[k] \in Deleting /\ pc'[k] = "deleteService"

\* The finalizer of the object was the last thing in its way.
Removed(k) ==
    /\ Gone(request[k], request'[k])
    /\ cached'[k] = cached[k]
    /\ service'[k] = None /\ secret'[k] = None
    /\ ~(cached[k].exists /\ cached[k].finalizer /\ ~cached[k].deleting)
    /\ pc'[k] \in Quiet

\* The reconcile goes on and leaves the object alone, in the store, the cache and
\* the memory.
Advanced(k) ==
    /\ request'[k] = request[k]
    /\ cached'[k] = cached[k]
    /\ obj'[k].uid = obj[k].uid
    /\ obj'[k].type = obj[k].type
    /\ obj'[k].resourceVersion = obj[k].resourceVersion
    /\ obj'[k].deleting = obj[k].deleting
    /\ obj'[k].finalizer = obj[k].finalizer
    /\ \/ pc'[k] \in Quiet
       \/ pc[k] \in Serving /\ pc'[k] \in Serving
       \/ pc[k] \in Deleting /\ pc'[k] \in Deleting

\* It calls a server, or the seed secret, and publishes nothing.
Called(k) ==
    /\ Advanced(k)
    /\ service'[k] = service[k] /\ secret'[k] = secret[k]
    /\ pc'[k] \notin {"deleteSecret", "removeFinalizer"}

\* No reconcile, or one that only has its error to report, claims nothing.
LEMMA QuietInv ==
    ASSUME NEW k \in Requests, pc'[k] \in Quiet
    PROVE  MemoryVersion(k)' /\ CreatingInv(k)' /\ DeletingInv(k)' /\ DeletingOrder(k)'
BY Kinds DEF MemoryVersion, CreatingInv, DeletingInv, DeletingOrder

\* Touching an object keeps what the cache and the finalizer say of it.
LEMMA TouchInv ==
    ASSUME TypeOK, TypeOK', NEW k \in Requests, Guarded(k), CacheInv(k),
           Touched(request[k], request'[k]), cached'[k] = cached[k],
           service'[k] = service[k], secret'[k] = secret[k]
    PROVE  Guarded(k)' /\ CacheInv(k)'
<1>1. Guarded(k)'
  BY DEF Guarded, Touched
<1>2. CacheInv(k)'
  BY Numbers, NumbersNext DEF CacheInv, Touched
<1> QED
  BY <1>1, <1>2

LEMMA AdvanceInv ==
    ASSUME NEW k \in Requests, OrphanInvAt(k), Advanced(k)
    PROVE  CacheInv(k)' /\ MemoryVersion(k)' /\ CreatingInv(k)' /\ DeletingInv(k)'
<1>1. CacheInv(k)'
  BY DEF OrphanInvAt, CacheInv, Advanced
<1>2. CASE pc'[k] \in Quiet
  BY <1>1, <1>2, QuietInv
<1>3. CASE pc[k] \in Serving /\ pc'[k] \in Serving
  BY <1>1, <1>3, Kinds
     DEF OrphanInvAt, MemoryVersion, CreatingInv, DeletingInv, Serving, Advanced
<1>4. CASE pc[k] \in Deleting /\ pc'[k] \in Deleting
  BY <1>1, <1>4, Kinds DEF OrphanInvAt, MemoryVersion, CreatingInv, DeletingInv, Advanced
<1> QED
  BY <1>2, <1>3, <1>4 DEF Advanced

LEMMA AnswerInv ==
    ASSUME TypeOK, TypeOK', NEW k \in Requests, OrphanInvAt(k), Answered(k)
    PROVE  OrphanInvAt(k)'
<1> USE DEF Answered
<1>1. Guarded(k)' /\ CacheInv(k)'
  BY TouchInv DEF OrphanInvAt
<1>2. request[k].uid = obj[k].uid /\ request[k].deleting = obj[k].deleting
  BY DEF OrphanInvAt, MemoryVersion, Fresh
<1>3. MemoryVersion(k)'
  BY <1>1, NumbersNext DEF MemoryVersion, CacheInv
<1>4. CreatingInv(k)' /\ DeletingInv(k)' /\ DeletingOrder(k)'
  <2>1. CASE pc[k] \in Creating /\ request'[k].finalizer /\ pc'[k] \in Serving
    BY <1>2, <2>1, Kinds
       DEF OrphanInvAt, CreatingInv, DeletingInv, DeletingOrder, Touched, Fresh, Serving
  <2>2. CASE pc[k] \in Deleting /\ pc'[k] = "deleteService"
    BY <1>2, <2>2, Kinds
       DEF OrphanInvAt, CreatingInv, DeletingInv, DeletingOrder, Touched
  <2> QED
    BY <2>1, <2>2
<1> QED
  BY <1>1, <1>3, <1>4 DEF OrphanInvAt

\* A step that removes the object, with nothing published for it and no
\* reconcile that counts on it.
LEMMA GoneInv ==
    ASSUME TypeOK, TypeOK', NEW k \in Requests, OrphanInvAt(k),
           Gone(request[k], request'[k]), cached'[k] = cached[k],
           service'[k] = None, secret'[k] = None,
           ~(cached[k].exists /\ cached[k].finalizer /\ ~cached[k].deleting),
           \/ pc'[k] \in Quiet
           \/ /\ pc'[k] = pc[k] /\ obj'[k] = obj[k] /\ pc[k] \notin Serving
    PROVE  OrphanInvAt(k)'
<1>1. Guarded(k)'
  BY DEF Guarded
<1>2. CacheInv(k)'
  BY Numbers, NumbersNext DEF OrphanInvAt, CacheInv, Gone
<1>3. CASE pc'[k] \in Quiet
  BY <1>1, <1>2, <1>3, QuietInv DEF OrphanInvAt
<1>4. CASE pc'[k] = pc[k] /\ obj'[k] = obj[k] /\ pc[k] \notin Serving
  <2>1. MemoryVersion(k)'
    BY <1>4, Numbers, NumbersNext DEF OrphanInvAt, MemoryVersion, Gone
  <2>2. CreatingInv(k)' /\ DeletingInv(k)' /\ DeletingOrder(k)'
    BY <1>4, Kinds DEF OrphanInvAt, CreatingInv, DeletingInv, DeletingOrder, Gone, Serving
  <2> QED
    BY <1>1, <1>2, <2>1, <2>2 DEF OrphanInvAt
<1> QED
  BY <1>3, <1>4

\* A write of the controller touches the object, or does not arrive.
LEMMA WriteTouches ==
    ASSUME TypeOK, NEW k \in Requests, NEW stored, Touched(request[k], stored),
           Accepted(k, stored) \/ Refused(k, stored)
    PROVE  Touched(request[k], request'[k])
BY DEF TypeOK, Accepted, Refused, Touched

\* A write of the status leaves the finalizer as well.
LEMMA WriteMoves ==
    ASSUME TypeOK, NEW k \in Requests, NEW stored, Touched(request[k], stored),
           stored.finalizer = request[k].finalizer,
           Accepted(k, stored) \/ Refused(k, stored)
    PROVE  Touched(request[k], request'[k]) /\ FinalizerAdded(k)
<1>1. request'[k] \in {request[k], stored}
  BY DEF TypeOK, Accepted, Refused
<1> QED
  BY <1>1, WriteTouches DEF FinalizerAdded

LEMMA SettleInv ==
    ASSUME TypeOK, TypeOK', NEW k \in Requests, OrphanInvAt(k), Settled(k)
    PROVE  OrphanInvAt(k)'
BY TouchInv, QuietInv DEF OrphanInvAt, Settled

\* A step of another request.
LEMMA FrameInv ==
    ASSUME NEW j \in Requests, OrphanInvAt(j),
           request'[j] = request[j], cached'[j] = cached[j], obj'[j] = obj[j],
           pc'[j] = pc[j], service'[j] = service[j], secret'[j] = secret[j]
    PROVE  OrphanInvAt(j)'
BY DEF OrphanInvAt, Guarded, DeletingOrder, CacheInv, MemoryVersion, CreatingInv,
       DeletingInv

LEMMA CallInv ==
    ASSUME NEW k \in Requests, OrphanInvAt(k), Called(k)
    PROVE  OrphanInvAt(k)'
<1>1. CacheInv(k)' /\ MemoryVersion(k)' /\ CreatingInv(k)' /\ DeletingInv(k)'
  BY AdvanceInv DEF Called
<1>2. Guarded(k)'
  BY DEF OrphanInvAt, Guarded, Called, Advanced
<1>3. DeletingOrder(k)'
  BY DEF DeletingOrder, Called
<1> QED
  BY <1>1, <1>2, <1>3 DEF OrphanInvAt

LEMMA RemoveInv ==
    ASSUME TypeOK, TypeOK', NEW k \in Requests, OrphanInvAt(k), Removed(k)
    PROVE  OrphanInvAt(k)'
BY GoneInv DEF Removed

-----------------------------------------------------------------------------
(* OrphanInv of the request an action is about, one lemma per action.      *)

\* What a reconcile starts with comes from the cache.
LEMMA FirstStepKinds ==
    ASSUME NEW o \in Object, FirstStep(o) /= "idle"
    PROVE  /\ o.exists
           /\ o.deleting => FirstStep(o) \in {"dropDatabase", "deleteService"}
           /\ ~o.deleting /\ ~o.finalizer => FirstStep(o) = "addFinalizer"
           /\ ~o.deleting /\ o.finalizer =>
                FirstStep(o) \in {"handleSeed", "createDatabase", "getDatabaseInfo"}
BY DEF FirstStep, CreateStep, DeleteStep

LEMMA CreateStepKinds ==
    ASSUME NEW o \in Object
    PROVE  CreateStep(o) \in {"idle", "handleSeed", "createDatabase", "getDatabaseInfo"}
BY DEF CreateStep

LEMMA ReconcileOrphan ==
    ASSUME TypeOK, TypeOK', NEW k \in Requests, OrphanInvAt(k), Reconcile(k)
    PROVE  OrphanInvAt(k)'
<1> DEFINE step == FirstStep(cached[k])
<1>1. /\ request' = request /\ cached' = cached
      /\ service' = service /\ secret' = secret
      /\ Start(k, cached[k], step)
  BY DEF Reconcile, store, caches
<1>2. cached[k] \in Object
  BY ObjectTypes
<1>3. Guarded(k)' /\ CacheInv(k)'
  BY <1>1 DEF OrphanInvAt, Guarded, CacheInv
<1>4. CASE step = "idle"
  <2>1. pc'[k] \in Quiet
    BY <1>1, <1>4, Kinds DEF TypeOK, Start, Idle, Goto
  <2> QED
    BY <1>3, <2>1, QuietInv DEF OrphanInvAt
<1>5. CASE step /= "idle"
  <2>1. pc'[k] = step /\ obj'[k] = cached[k]
    BY <1>1, <1>5 DEF TypeOK, Start, Goto
  <2>2. /\ cached[k].exists
        /\ cached[k].deleting => step \in {"dropDatabase", "deleteService"}
        /\ ~cached[k].deleting /\ ~cached[k].finalizer => step = "addFinalizer"
        /\ ~cached[k].deleting /\ cached[k].finalizer =>
             step \in {"handleSeed", "createDatabase", "getDatabaseInfo"}
    BY <1>2, <1>5, FirstStepKinds
  <2> HIDE DEF step
  <2>3. MemoryVersion(k)'
    BY <1>1, <2>1 DEF OrphanInvAt, CacheInv, MemoryVersion
  <2>4. CreatingInv(k)'
    BY <1>1, <2>1, <2>2, Kinds DEF OrphanInvAt, CacheInv, CreatingInv
  <2>5. DeletingInv(k)' /\ DeletingOrder(k)'
    BY <1>1, <2>1, <2>2, Kinds, <1>2, FieldTypes
       DEF OrphanInvAt, CacheInv, DeletingInv, DeletingOrder, Serving
  <2> QED
    BY <1>3, <2>3, <2>4, <2>5 DEF OrphanInvAt
<1> QED
  BY <1>4, <1>5

LEMMA AddFinalizerMoves ==
    ASSUME TypeOK, NEW k \in Requests, OrphanInvAt(k), AddFinalizer(k)
    PROVE  Settled(k) \/ Answered(k)
<1> DEFINE new == [obj[k] EXCEPT !.finalizer = TRUE]
           stored == PutObject(request[k], new)
           answer == Decode(stored, new)
<1>1. /\ pc[k] = "addFinalizer"
      /\ cached' = cached /\ service' = service /\ secret' = secret
      /\ \/ Accepted(k, stored) /\ Start(k, answer, CreateStep(answer))
         \/ Refused(k, stored) /\ Goto(k, "handleError")
  BY DEF AddFinalizer, caches
<1>2. new \in Object /\ new.finalizer
  <2>1. obj[k] \in Object
    BY ObjectTypes
  <2>2. new.finalizer
    BY <2>1 DEF Object
  <2>3. new \in Object
    BY <2>1, MemoryType
  <2> QED
    BY <2>2, <2>3
<1>3. stored \in Object /\ request[k] \in Object
  BY <1>2, ObjectTypes, PutObjectType
<1>4. answer \in Object
  BY <1>2, <1>3, DecodeType
<1>5. Touched(request[k], stored) /\ stored.finalizer
  BY <1>2, <1>3, PutObjectMetadata
<1>6. /\ answer.uid = stored.uid
      /\ answer.type = stored.type
      /\ answer.resourceVersion = stored.resourceVersion
      /\ answer.deleting = stored.deleting
      /\ answer.finalizer = stored.finalizer
  BY <1>2, <1>3, DecodeMetadata
<1> HIDE DEF new, stored, answer
<1>7. Touched(request[k], request'[k]) /\ FinalizerAdded(k)
  <2>1. request'[k] = request[k] \/ Fresh(k)
    BY <1>1 DEF TypeOK, Accepted, Refused
  <2> QED
    BY <1>1, <1>5, <2>1, WriteTouches DEF FinalizerAdded
<1>8. CASE pc'[k] \in Quiet
  BY <1>1, <1>7, <1>8 DEF Settled
<1>9. CASE pc'[k] \notin Quiet
  <2>1. Accepted(k, stored) /\ Start(k, answer, CreateStep(answer))
    BY <1>1, <1>9, Kinds DEF TypeOK, Goto
  <2>2. CreateStep(answer) /= "idle"
    BY <1>9, <2>1, Kinds DEF TypeOK, Start, Idle, Goto
  <2>3. pc'[k] \in Serving /\ obj'[k] = answer
    BY <2>1, <2>2, <1>4, CreateStepKinds, Kinds DEF TypeOK, Start, Goto
  <2>4. Fresh(k) /\ request'[k] = stored
    BY <2>1 DEF TypeOK, Accepted
  <2> QED
    BY <1>1, <1>5, <1>6, <1>7, <2>3, <2>4, Kinds DEF Answered
<1> QED
  BY <1>8, <1>9

\* The steps that call a database server, read or delete the seed secret: they
\* change at most fields of the memory the invariant does not speak of.
LEMMA CallMoves ==
    ASSUME TypeOK, NEW k \in Requests,
           \/ HandleSeed(k) \/ SetDatabaseInfo(k) \/ DeleteSeedSecret(k)
           \/ CreateDatabase(k) \/ GetDatabaseInfo(k) \/ DropDatabase(k)
    PROVE  Called(k)
<1>0. obj[k] \in Object
  BY ObjectTypes
<1>1. CASE HandleSeed(k)
  <2>1. /\ pc[k] \in Serving
        /\ pc'[k] \in {"handleError", "ignoreError", "setDatabaseInfo"}
        /\ request' = request /\ cached' = cached /\ service' = service
        /\ secret' = secret /\ obj' = obj
    BY <1>1, Kinds DEF HandleSeed, TypeOK, Goto, Fails, store, caches
  <2> QED
    BY <2>1, Kinds DEF Called, Advanced, Serving
<1>2. CASE SetDatabaseInfo(k)
  <2>1. /\ pc[k] \in Serving
        /\ pc'[k] \in {"handleError", "deleteSeedSecret"}
        /\ request' = request /\ cached' = cached /\ service' = service
        /\ secret' = secret /\ obj' = obj
    BY <1>2, Kinds DEF SetDatabaseInfo, TypeOK, Goto, Fails, store, caches
  <2> QED
    BY <2>1, Kinds DEF Called, Advanced, Serving
<1>3. CASE DeleteSeedSecret(k)
  <2>1. /\ pc[k] \in Serving
        /\ pc'[k] \in {"handleError", "handleService"}
        /\ request' = request /\ cached' = cached /\ service' = service
        /\ secret' = secret
    BY <1>3, Kinds DEF DeleteSeedSecret, TypeOK, Goto, Fails, caches
  <2>2. \/ obj'[k] = obj[k]
        \/ obj'[k] = [obj[k] EXCEPT
                        !.connectionReference = dbInfo[k].conn,
                        !.observedReference = dbInfo[k].conn,
                        !.seed = FALSE]
    BY <1>3 DEF DeleteSeedSecret, TypeOK
  <2>3. /\ obj'[k].uid = obj[k].uid
        /\ obj'[k].type = obj[k].type
        /\ obj'[k].resourceVersion = obj[k].resourceVersion
        /\ obj'[k].deleting = obj[k].deleting
        /\ obj'[k].finalizer = obj[k].finalizer
    BY <1>0, <2>2 DEF Object
  <2> QED
    BY <2>1, <2>3, Kinds DEF Called, Advanced, Serving
<1>4. CASE CreateDatabase(k) \/ GetDatabaseInfo(k) \/ DropDatabase(k)
  <2>1. /\ \/ /\ pc[k] \in Serving
              /\ \/ pc'[k] = "handleError"
                 \/ pc'[k] \in {"updateCreateStatus", "handleService"}
           \/ /\ pc[k] = "dropDatabase"
              /\ pc'[k] \in {"handleError", "updateDropStatus", "deleteService"}
        /\ request' = request /\ cached' = cached /\ service' = service
        /\ secret' = secret
    BY <1>4, Kinds
       DEF CreateDatabase, GetDatabaseInfo, DropDatabase, TypeOK, Goto, Fails,
           store, caches
  <2>2. \/ obj'[k] = obj[k]
        \/ \E reference : obj'[k] = [obj[k] EXCEPT !.observedReference = reference]
    <3>1. CASE CreateDatabase(k)
      <4>1. \/ obj' = obj
            \/ \E n \in Pool :
                obj' = [obj EXCEPT ![k] = [obj[k] EXCEPT !.observedReference = n]]
        BY <3>1 DEF CreateDatabase, Candidates, Fails
      <4>2. \A o : [obj EXCEPT ![k] = o][k] = o
        BY DEF TypeOK
      <4> QED
        BY <4>1, <4>2
    <3>2. CASE GetDatabaseInfo(k)
      BY <3>2 DEF GetDatabaseInfo, TypeOK
    <3>3. CASE DropDatabase(k)
      BY <3>3 DEF DropDatabase, TypeOK
    <3> QED
      BY <1>4, <3>1, <3>2, <3>3
  <2>3. /\ obj'[k].uid = obj[k].uid
        /\ obj'[k].type = obj[k].type
        /\ obj'[k].resourceVersion = obj[k].resourceVersion
        /\ obj'[k].deleting = obj[k].deleting
        /\ obj'[k].finalizer = obj[k].finalizer
    BY <1>0, <2>2 DEF Object
  <2> QED
    BY <2>1, <2>3, Kinds DEF Called, Advanced, Serving
<1> QED
  BY <1>1, <1>2, <1>3, <1>4

\* The steps that write the Service or the Secret while a request is served ...
LEMMA PublishMoves ==
    ASSUME TypeOK, NEW k \in Requests, HandleService(k) \/ HandleSecret(k)
    PROVE  /\ Advanced(k)
           /\ pc[k] \in {"handleService", "handleSecret"}
           /\ pc'[k] \in {"handleError", "handleSecret", "updateRequest"}
<1>1. /\ pc[k] \in {"handleService", "handleSecret"}
      /\ pc'[k] \in {"handleError", "handleSecret", "updateRequest"}
      /\ request' = request /\ cached' = cached /\ obj' = obj
  BY DEF HandleService, HandleSecret, TypeOK, Goto, Fails
<1> QED
  BY <1>1, Kinds DEF Advanced

\* ... of an object that has the finalizer.
LEMMA PublishInv ==
    ASSUME TypeOK, NEW k \in Requests, OrphanInvAt(k),
           HandleService(k) \/ HandleSecret(k)
    PROVE  OrphanInvAt(k)'
<1>1. /\ Advanced(k)
      /\ pc[k] \in {"handleService", "handleSecret"}
      /\ pc'[k] \in {"handleError", "handleSecret", "updateRequest"}
  BY PublishMoves
<1>2. CacheInv(k)' /\ MemoryVersion(k)' /\ CreatingInv(k)' /\ DeletingInv(k)'
  BY <1>1, AdvanceInv
<1>3. Guarded(k)'
  BY <1>1, Kinds DEF OrphanInvAt, CreatingInv, Guarded, Serving, Advanced
<1>4. DeletingOrder(k)'
  BY <1>1 DEF DeletingOrder
<1> QED
  BY <1>2, <1>3, <1>4 DEF OrphanInvAt

\* The steps that delete them ...
LEMMA WithdrawMoves ==
    ASSUME TypeOK, NEW k \in Requests, DeleteService(k) \/ DeleteSecret(k)
    PROVE  /\ Advanced(k)
           /\ service'[k] \in {service[k], None}
           /\ secret'[k] \in {secret[k], None}
           /\ \/ pc'[k] = "handleError"
              \/ pc'[k] = "deleteSecret" /\ service'[k] = None
              \/ /\ pc[k] = "deleteSecret" /\ pc'[k] = "removeFinalizer"
                 /\ service'[k] = service[k] /\ secret'[k] = None
<1>1. /\ pc[k] \in Deleting
      /\ request' = request /\ cached' = cached /\ obj' = obj
      /\ service'[k] \in {service[k], None}
      /\ secret'[k] \in {secret[k], None}
  BY Kinds
     DEF DeleteService, DeleteSecret, WriteService, WriteSecret, publication, TypeOK, Fails
<1>2. \/ pc'[k] = "handleError"
      \/ pc'[k] = "deleteSecret" /\ service'[k] = None
      \/ /\ pc[k] = "deleteSecret" /\ pc'[k] = "removeFinalizer"
         /\ service'[k] = service[k] /\ secret'[k] = None
  BY DEF DeleteService, DeleteSecret, WriteService, WriteSecret, TypeOK, Goto, Fails
<1> QED
  BY <1>1, <1>2, Kinds DEF Advanced

\* ... and what is deleted stays so until the finalizer goes.
LEMMA WithdrawInv ==
    ASSUME TypeOK, NEW k \in Requests, OrphanInvAt(k),
           DeleteService(k) \/ DeleteSecret(k)
    PROVE  OrphanInvAt(k)'
<1>1. /\ Advanced(k)
      /\ service'[k] \in {service[k], None}
      /\ secret'[k] \in {secret[k], None}
      /\ \/ pc'[k] = "handleError"
         \/ pc'[k] = "deleteSecret" /\ service'[k] = None
         \/ /\ pc[k] = "deleteSecret" /\ pc'[k] = "removeFinalizer"
            /\ service'[k] = service[k] /\ secret'[k] = None
  BY WithdrawMoves
<1>2. CacheInv(k)' /\ MemoryVersion(k)' /\ CreatingInv(k)' /\ DeletingInv(k)'
  BY <1>1, AdvanceInv
<1>3. Guarded(k)'
  BY <1>1 DEF OrphanInvAt, Guarded, Advanced
<1>4. DeletingOrder(k)'
  BY <1>1 DEF OrphanInvAt, DeletingOrder
<1> QED
  BY <1>2, <1>3, <1>4 DEF OrphanInvAt

\* The status writes the reconcile goes on from.
LEMMA StatusMoves ==
    ASSUME TypeOK, NEW k \in Requests, OrphanInvAt(k),
           UpdateCreateStatus(k) \/ UpdateDropStatus(k)
    PROVE  Settled(k) \/ Answered(k)
<1> DEFINE stored == PutStatus(request[k], obj[k])
           answer == Decode(stored, obj[k])
<1>1. /\ cached' = cached /\ service' = service /\ secret' = secret
      /\ \/ /\ pc[k] = "updateCreateStatus" /\ Accepted(k, stored)
            /\ obj' = [obj EXCEPT ![k] =
                  [answer EXCEPT !.connectionReference = obj[k].observedReference]]
            /\ Goto(k, "getDatabaseInfo")
         \/ /\ pc[k] = "updateDropStatus" /\ Accepted(k, stored)
            /\ obj' = [obj EXCEPT ![k] = [answer EXCEPT !.connectionReference = None]]
            /\ Goto(k, "deleteService")
         \/ Refused(k, stored) /\ Goto(k, "handleError")
  BY DEF UpdateCreateStatus, UpdateDropStatus, caches
<1>2. request[k] \in Object /\ obj[k] \in Object
  BY ObjectTypes
<1>3. /\ stored \in Object
      /\ Touched(request[k], stored)
      /\ stored.finalizer = request[k].finalizer
  BY <1>2, PutStatusType, PutStatusMetadata
<1>4. answer \in Object
  BY <1>2, <1>3, DecodeType
<1>5. /\ answer.uid = stored.uid
      /\ answer.type = stored.type
      /\ answer.resourceVersion = stored.resourceVersion
      /\ answer.deleting = stored.deleting
      /\ answer.finalizer = stored.finalizer
  BY <1>2, <1>3, DecodeMetadata
<1> HIDE DEF stored, answer
<1>6. Touched(request[k], request'[k]) /\ FinalizerAdded(k)
  BY <1>1, <1>3, WriteMoves
<1>7. CASE Refused(k, stored) /\ Goto(k, "handleError")
  <2>1. pc'[k] \in Quiet
    BY <1>7, Kinds DEF TypeOK, Goto
  <2> QED
    BY <1>1, <1>6, <2>1 DEF Settled
<1>8. CASE Accepted(k, stored) /\ ~(Refused(k, stored) /\ Goto(k, "handleError"))
  <2>1. Fresh(k) /\ request'[k] = stored
    BY <1>8 DEF TypeOK, Accepted
  <2>2. \/ obj'[k] = [answer EXCEPT !.connectionReference = obj[k].observedReference]
        \/ obj'[k] = [answer EXCEPT !.connectionReference = None]
    BY <1>1, <1>8 DEF TypeOK
  <2>3. /\ obj'[k].uid = answer.uid
        /\ obj'[k].type = answer.type
        /\ obj'[k].resourceVersion = answer.resourceVersion
        /\ obj'[k].deleting = answer.deleting
        /\ obj'[k].finalizer = answer.finalizer
    BY <1>4, <2>2 DEF Object
  <2>4. \/ pc[k] = "updateCreateStatus" /\ pc'[k] = "getDatabaseInfo"
        \/ pc[k] = "updateDropStatus" /\ pc'[k] = "deleteService"
    BY <1>1, <1>8 DEF TypeOK, Goto
  <2>5. pc[k] = "updateCreateStatus" => request'[k].finalizer
    BY <1>6, Kinds DEF OrphanInvAt, CreatingInv, Touched, Serving
  <2> QED
    BY <1>1, <1>5, <1>6, <2>1, <2>3, <2>4, <2>5, Kinds DEF Answered, Serving
<1> QED
  BY <1>1, <1>7, <1>8

\* The spec is written with the finalizer; the reconcile goes on to the status.
LEMMA UpdateMoves ==
    ASSUME TypeOK, NEW k \in Requests, OrphanInvAt(k), UpdateRequest(k)
    PROVE  Settled(k) \/ Answered(k)
<1> DEFINE new == [obj[k] EXCEPT !.observedGeneration = obj[k].generation]
           stored == PutObject(request[k], new)
           answer == Decode(stored, new)
<1>1. /\ pc[k] = "updateRequest"
      /\ cached' = cached /\ service' = service /\ secret' = secret
      /\ \/ /\ Accepted(k, stored)
            /\ obj' = [obj EXCEPT ![k] = answer]
            /\ Goto(k, "updateStatus")
         \/ Refused(k, stored) /\ Idle(k)
  BY DEF UpdateRequest, Requeue, caches
<1>2. request[k] \in Object /\ obj[k] \in Object
  BY ObjectTypes
<1>3. new \in Object
  BY <1>2, MemoryType, FieldTypes
<1>4. new.finalizer /\ request[k].finalizer
  <2>1. obj[k].finalizer /\ request[k].finalizer
    BY <1>1, Kinds DEF OrphanInvAt, CreatingInv, Serving
  <2> QED
    BY <1>2, <2>1 DEF Object
<1>5. stored \in Object /\ Touched(request[k], stored) /\ stored.finalizer
  BY <1>2, <1>3, <1>4, PutObjectType, PutObjectMetadata
<1>6. /\ answer.uid = stored.uid
      /\ answer.type = stored.type
      /\ answer.resourceVersion = stored.resourceVersion
      /\ answer.deleting = stored.deleting
      /\ answer.finalizer = stored.finalizer
  BY <1>3, <1>5, DecodeMetadata
<1> HIDE DEF new, stored, answer
<1>7. Touched(request[k], request'[k]) /\ FinalizerAdded(k)
  BY <1>1, <1>4, <1>5, WriteTouches DEF FinalizerAdded
<1>8. CASE Refused(k, stored) /\ Idle(k)
  <2>1. pc'[k] \in Quiet
    BY <1>8, Kinds DEF TypeOK, Idle, Goto
  <2> QED
    BY <1>1, <1>7, <2>1 DEF Settled
<1>9. CASE /\ Accepted(k, stored)
           /\ obj' = [obj EXCEPT ![k] = answer]
           /\ Goto(k, "updateStatus")
  <2>1. Fresh(k) /\ request'[k] = stored /\ obj'[k] = answer /\ pc'[k] = "updateStatus"
    BY <1>9 DEF TypeOK, Accepted, Goto
  <2> QED
    BY <1>1, <1>5, <1>6, <1>7, <2>1, Kinds DEF Answered, Serving
<1> QED
  BY <1>1, <1>8, <1>9

\* The end of a reconcile: what it writes touches the object.
LEMMA ReturnMoves ==
    ASSUME TypeOK, NEW k \in Requests, UpdateStatus(k) \/ HandleError(k) \/ Panic(k)
    PROVE  Settled(k)
<1>0. request[k] \in Object /\ obj[k] \in Object
  BY ObjectTypes
<1>1. Touched(request[k], request[k])
  BY DEF Touched
<1>2. CASE UpdateStatus(k)
  <2> DEFINE new == [obj[k] EXCEPT !.ready = IF changed[k] THEN "Changed" ELSE "Created"]
             stored == PutStatus(request[k], new)
  <2>1. new \in Object
    <3>1. "Changed" \in ReadyReasons /\ "Created" \in ReadyReasons
      BY DEF ReadyReasons
    <3> QED
      BY <1>0, <3>1 DEF Object
  <2>2. Touched(request[k], stored) /\ stored.finalizer = request[k].finalizer
    BY <1>0, <2>1, PutStatusMetadata
  <2>3. /\ cached' = cached /\ service' = service /\ secret' = secret
        /\ \/ Accepted(k, stored) \/ Refused(k, stored)
           \/ request' = request
        /\ Idle(k) \/ Goto(k, "handleError")
    BY <1>2 DEF UpdateStatus, Done, caches
  <2> HIDE DEF new, stored
  <2>4. Touched(request[k], request'[k]) /\ FinalizerAdded(k)
    BY <1>1, <2>2, <2>3, WriteMoves DEF FinalizerAdded
  <2>5. pc'[k] \in Quiet
    BY <2>3, Kinds DEF TypeOK, Idle, Goto
  <2> QED
    BY <2>3, <2>4, <2>5 DEF Settled
<1>3. CASE HandleError(k)
  <2> DEFINE new == [obj[k] EXCEPT !.ready = "Failed"]
             stored == PutStatus(request[k], new)
  <2>1. new \in Object
    BY <1>0 DEF Object
  <2>2. Touched(request[k], stored) /\ stored.finalizer = request[k].finalizer
    BY <1>0, <2>1, PutStatusMetadata
  <2>3. /\ cached' = cached /\ service' = service /\ secret' = secret
        /\ Accepted(k, stored) \/ Refused(k, stored)
        /\ Idle(k)
    BY <1>3 DEF HandleError, Done, Requeue, caches
  <2> HIDE DEF new, stored
  <2>4. Touched(request[k], request'[k]) /\ FinalizerAdded(k)
    BY <2>2, <2>3, WriteMoves
  <2>5. pc'[k] \in Quiet
    BY <2>3, Kinds DEF TypeOK, Idle, Goto
  <2> QED
    BY <2>3, <2>4, <2>5 DEF Settled
<1>4. CASE Panic(k)
  <2>1. /\ request' = request /\ cached' = cached
        /\ service' = service /\ secret' = secret
        /\ Idle(k)
    BY <1>4 DEF Panic, Requeue, store, caches
  <2>2. pc'[k] \in Quiet
    BY <2>1, Kinds DEF TypeOK, Idle, Goto
  <2> QED
    BY <1>1, <2>1, <2>2 DEF Settled, FinalizerAdded
<1> QED
  BY <1>2, <1>3, <1>4

\* The finalizer goes over the version that was read, of an object that is being
\* deleted and publishes nothing.
LEMMA RemoveFinalizerMoves ==
    ASSUME TypeOK, NEW k \in Requests, OrphanInvAt(k), RemoveFinalizer(k)
    PROVE  Settled(k) \/ Removed(k)
<1> DEFINE new == [obj[k] EXCEPT !.finalizer = FALSE]
           stored == PutObject(request[k], new)
<1>1. /\ pc[k] = "removeFinalizer"
      /\ cached' = cached /\ service' = service /\ secret' = secret
      /\ Accepted(k, stored) \/ Refused(k, stored)
      /\ Idle(k) \/ Goto(k, "handleError")
  BY DEF RemoveFinalizer, Done, caches
<1>2. request[k] \in Object /\ obj[k] \in Object
  BY ObjectTypes
<1>3. new \in Object
  BY <1>2, MemoryType
<1>4. ~new.finalizer
  BY <1>2 DEF Object
<1>5. request[k].deleting => Gone(request[k], stored)
  BY <1>2, <1>3, <1>4, PutObjectMetadata
<1> HIDE DEF new, stored
<1>6. pc'[k] \in Quiet
  BY <1>1, Kinds DEF TypeOK, Idle, Goto
<1>7. service'[k] = None /\ secret'[k] = None
  BY <1>1 DEF OrphanInvAt, DeletingOrder
<1>8. CASE request'[k] = request[k]
  BY <1>1, <1>6, <1>8 DEF Settled, FinalizerAdded, Touched
<1>9. CASE request'[k] /= request[k]
  <2>1. Fresh(k) /\ request'[k] = stored
    BY <1>1, <1>9 DEF TypeOK, Accepted, Refused
  <2>2. request[k].exists /\ request[k].uid = obj[k].uid /\ request[k].deleting
    BY <1>1, <2>1, Kinds DEF OrphanInvAt, MemoryVersion, DeletingInv, Fresh
  <2>3. ~(cached[k].exists /\ cached[k].finalizer /\ ~cached[k].deleting)
    BY <1>1, <2>2, Kinds DEF OrphanInvAt, DeletingInv, CacheInv
  <2> QED
    BY <1>1, <1>5, <1>6, <1>7, <2>1, <2>2, <2>3 DEF Removed
<1> QED
  BY <1>8, <1>9

\* A step of a reconcile is of one of these shapes.
LEMMA StepOrphan ==
    ASSUME TypeOK, TypeOK', NEW k \in Requests, OrphanInvAt(k), Step(k)
    PROVE  OrphanInvAt(k)'
<1>1. CASE AddFinalizer(k)
  BY <1>1, AddFinalizerMoves, SettleInv, AnswerInv
<1>2. CASE \/ HandleSeed(k) \/ SetDatabaseInfo(k) \/ DeleteSeedSecret(k)
           \/ CreateDatabase(k) \/ GetDatabaseInfo(k) \/ DropDatabase(k)
  BY <1>2, CallMoves, CallInv
<1>3. CASE UpdateCreateStatus(k) \/ UpdateDropStatus(k)
  BY <1>3, StatusMoves, SettleInv, AnswerInv
<1>4. CASE HandleService(k) \/ HandleSecret(k)
  BY <1>4, PublishInv
<1>5. CASE DeleteService(k) \/ DeleteSecret(k)
  BY <1>5, WithdrawInv
<1>6. CASE UpdateRequest(k)
  BY <1>6, UpdateMoves, SettleInv, AnswerInv
<1>7. CASE UpdateStatus(k) \/ HandleError(k) \/ Panic(k)
  BY <1>7, ReturnMoves, SettleInv
<1>8. CASE RemoveFinalizer(k)
  BY <1>8, RemoveFinalizerMoves, SettleInv, RemoveInv
<1> QED
  BY <1>1, <1>2, <1>3, <1>4, <1>5, <1>6, <1>7, <1>8 DEF Step

\* A cache that catches up shows the object as it is.
LEMMA SyncOrphan ==
    ASSUME TypeOK, NEW k \in Requests, OrphanInvAt(k), Sync(k)
    PROVE  OrphanInvAt(k)'
<1>1. /\ request' = request /\ service' = service /\ secret' = secret
      /\ pc' = pc /\ obj' = obj
      /\ cached'[k] \in {cached[k], request[k]}
  BY DEF Sync, SyncRequest, SyncService, SyncSecret, store, worker, TypeOK
<1>2. CASE cached'[k] = cached[k]
  BY <1>1, <1>2, FrameInv
<1>3. CASE cached'[k] = request[k]
  <2>1. /\ Guarded(k)' /\ DeletingOrder(k)' /\ MemoryVersion(k)' /\ CreatingInv(k)'
    BY <1>1 DEF OrphanInvAt, Guarded, DeletingOrder, MemoryVersion, CreatingInv
  <2>2. CacheInv(k)'
    BY <1>1, <1>3, Numbers DEF OrphanInvAt, CacheInv
  <2>3. DeletingInv(k)'
    BY <1>1, <1>3 DEF OrphanInvAt, DeletingInv
  <2> QED
    BY <2>1, <2>2, <2>3 DEF OrphanInvAt
<1> QED
  BY <1>1, <1>2, <1>3

LEMMA CreateOrphan ==
    ASSUME TypeOK, TypeOK', NEW k \in Requests, OrphanInvAt(k),
           NEW spec \in Specs, CreateRequest(k, spec)
    PROVE  OrphanInvAt(k)'
<1>1. /\ ~request[k].exists
      /\ request'[k] = Created(request[k].resourceVersion, spec.type,
                               spec.seed /= None, spec.reference, spec.drop)
      /\ cached' = cached /\ service' = service /\ secret' = secret
      /\ pc' = pc /\ obj' = obj
  BY DEF CreateRequest, caches, worker, TypeOK
<1>2. /\ request'[k].uid = request[k].resourceVersion + 1
      /\ request'[k].resourceVersion = request[k].resourceVersion + 1
  BY <1>1, Numbers, CreatedMetadata
<1>3. Guarded(k)'
  BY <1>1 DEF OrphanInvAt, Guarded
<1>4. CacheInv(k)'
  BY <1>1, <1>2, Numbers, NumbersNext DEF OrphanInvAt, CacheInv
<1>5. MemoryVersion(k)'
  BY <1>1, <1>2, Numbers, NumbersNext DEF OrphanInvAt, MemoryVersion
<1>6. CreatingInv(k)' /\ DeletingOrder(k)'
  BY <1>1 DEF OrphanInvAt, CreatingInv, DeletingOrder
<1>7. pc[k] \in Deleting => request'[k].uid /= obj[k].uid
  BY <1>2, Numbers DEF OrphanInvAt, MemoryVersion
<1>8. DeletingInv(k)'
  BY <1>1, <1>7 DEF OrphanInvAt, DeletingInv
<1> QED
  BY <1>3, <1>4, <1>5, <1>6, <1>8 DEF OrphanInvAt

LEMMA DeleteOrphan ==
    ASSUME TypeOK, TypeOK', NEW k \in Requests, OrphanInvAt(k), DeleteRequest(k)
    PROVE  OrphanInvAt(k)'
<1>1. /\ request[k].exists /\ request'[k] = Deleted(request[k])
      /\ cached' = cached /\ service' = service /\ secret' = secret
      /\ pc' = pc /\ obj' = obj
  BY DEF DeleteRequest, caches, worker, TypeOK
<1>2. request[k] \in Object
  BY ObjectTypes
<1>3. CASE request[k].finalizer
  <2>1. /\ request'[k].exists /\ request'[k].uid = request[k].uid
        /\ request'[k].deleting /\ request'[k].finalizer
        /\ request'[k].resourceVersion = request[k].resourceVersion + 1
    BY <1>1, <1>2, <1>3, DeletedMetadata
  <2>2. Guarded(k)' /\ CreatingInv(k)' /\ DeletingInv(k)' /\ DeletingOrder(k)'
    BY <1>1, <2>1
       DEF OrphanInvAt, Guarded, CreatingInv, DeletingInv, DeletingOrder
  <2>3. CacheInv(k)'
    BY <1>1, <2>1, Numbers, NumbersNext DEF OrphanInvAt, CacheInv
  <2>4. MemoryVersion(k)'
    <3>1. pc[k] \in Creating \cup Deleting =>
            /\ obj[k].uid <= request'[k].resourceVersion
            /\ obj[k].resourceVersion <= request'[k].resourceVersion
            /\ obj[k].resourceVersion /= request'[k].resourceVersion
      BY <2>1, Numbers DEF OrphanInvAt, MemoryVersion
    <3> QED
      BY <1>1, <3>1 DEF MemoryVersion
  <2> QED
    BY <2>2, <2>3, <2>4 DEF OrphanInvAt
<1>4. CASE ~request[k].finalizer
  <2>1. Gone(request[k], request'[k])
    BY <1>1, <1>2, <1>4, DeletedMetadata
  <2>2. service'[k] = None /\ secret'[k] = None
    BY <1>1, <1>4 DEF OrphanInvAt, Guarded
  <2>3. ~(cached[k].exists /\ cached[k].finalizer /\ ~cached[k].deleting)
    BY <1>4 DEF OrphanInvAt, CacheInv
  <2>4. pc[k] \notin Serving
    BY <1>4 DEF OrphanInvAt, CreatingInv, Serving
  <2> QED
    BY <1>1, <2>1, <2>2, <2>3, <2>4, GoneInv
<1> QED
  BY <1>3, <1>4

\* An edit comes between any two steps of a reconcile ...
LEMMA EditMoves ==
    ASSUME TypeOK, NEW k \in Requests,
           ForceReconcile(k) \/ \E n \in Connections : ChangeReference(k, n)
    PROVE  /\ Touched(request[k], request'[k])
           /\ request'[k].finalizer = request[k].finalizer
           /\ request'[k].resourceVersion = request[k].resourceVersion + 1
           /\ cached' = cached /\ service' = service /\ secret' = secret
           /\ pc' = pc /\ obj' = obj
<1>1. request[k] \in Object
  BY ObjectTypes
<1>2. PICK n \in Connections \cup {None} :
        /\ request'[k] = Edited([request[k] EXCEPT !.connectionReference = n])
        /\ cached' = cached /\ service' = service /\ secret' = secret
        /\ pc' = pc /\ obj' = obj
  <2>1. CASE ForceReconcile(k)
    <3>1. [request[k] EXCEPT !.connectionReference = request[k].connectionReference]
            = request[k]
      BY <1>1 DEF Object
    <3>2. request[k].connectionReference \in Connections \cup {None}
      BY <1>1, FieldTypes
    <3> QED
      BY <2>1, <3>1, <3>2 DEF ForceReconcile, Edit, caches, worker, TypeOK
  <2>2. CASE \E n \in Connections : ChangeReference(k, n)
    BY <2>2 DEF ChangeReference, Edit, caches, worker, TypeOK
  <2> QED
    BY <2>1, <2>2
<1> DEFINE new == [request[k] EXCEPT !.connectionReference = n]
<1>3. new \in Object
  BY <1>1, MemoryType
<1>4. /\ new.exists = request[k].exists /\ new.uid = request[k].uid
      /\ new.type = request[k].type
      /\ new.deleting = request[k].deleting /\ new.finalizer = request[k].finalizer
      /\ new.resourceVersion = request[k].resourceVersion
  BY <1>1 DEF Object
<1> HIDE DEF new
<1>5. /\ Touched(request[k], Edited(new))
      /\ Edited(new).finalizer = request[k].finalizer
      /\ Edited(new).resourceVersion = request[k].resourceVersion + 1
  BY <1>1, <1>3, <1>4, EditedMetadata
<1> QED
  BY <1>2, <1>5 DEF new

\* ... and makes its memory a past version.
LEMMA EditOrphan ==
    ASSUME TypeOK, TypeOK', NEW k \in Requests, OrphanInvAt(k),
           ForceReconcile(k) \/ \E n \in Connections : ChangeReference(k, n)
    PROVE  OrphanInvAt(k)'
<1>1. /\ Touched(request[k], request'[k])
      /\ cached' = cached /\ service' = service /\ secret' = secret
      /\ pc' = pc /\ obj' = obj
  BY EditMoves
<1>2. Guarded(k)' /\ CacheInv(k)'
  BY <1>1, TouchInv DEF OrphanInvAt
<1>3. MemoryVersion(k)'
  BY <1>1, Numbers, NumbersNext DEF OrphanInvAt, MemoryVersion, Touched
<1>4. CreatingInv(k)' /\ DeletingInv(k)' /\ DeletingOrder(k)'
  BY <1>1 DEF OrphanInvAt, CreatingInv, DeletingInv, DeletingOrder, Touched
<1> QED
  BY <1>2, <1>3, <1>4 DEF OrphanInvAt

LEMMA CrashOrphan ==
    ASSUME TypeOK, NEW k \in Requests, OrphanInvAt(k), Crash
    PROVE  OrphanInvAt(k)'
<1>1. /\ request' = request /\ service' = service /\ secret' = secret
      /\ cached'[k] = request[k] /\ pc'[k] = "idle"
  BY DEF Crash, store
<1>2. Guarded(k)' /\ CacheInv(k)'
  BY <1>1, Numbers DEF OrphanInvAt, Guarded, CacheInv
<1>3. pc'[k] \in Quiet
  BY <1>1, Kinds
<1> QED
  BY <1>2, <1>3, QuietInv DEF OrphanInvAt

-----------------------------------------------------------------------------
(* NoOrphans.                                                              *)

\* What OrphanInv speaks of at j is left alone by the actions of another k.
Untouched(j) ==
    /\ request'[j] = request[j] /\ cached'[j] = cached[j] /\ obj'[j] = obj[j]
    /\ pc'[j] = pc[j] /\ service'[j] = service[j] /\ secret'[j] = secret[j]

LEMMA OtherRequests ==
    ASSUME TypeOK, NEW k \in Requests, NEW j \in Requests, j /= k,
           Reconcile(k) \/ Step(k) \/ Sync(k) \/ User(k)
    PROVE  Untouched(j)
<1>1. CASE Reconcile(k)
  BY <1>1 DEF Untouched, TypeOK, Reconcile, Start, Idle, Goto, store, caches
<1>2. CASE AddFinalizer(k)
  BY <1>2
     DEF Untouched, TypeOK, AddFinalizer, Accepted, Refused, Start, Idle, Goto, caches
<1>3. CASE HandleSeed(k) \/ SetDatabaseInfo(k) \/ DeleteSeedSecret(k)
  BY <1>3
     DEF Untouched, TypeOK, HandleSeed, SetDatabaseInfo, DeleteSeedSecret, Fails, Goto,
         store, caches
<1>4. CASE CreateDatabase(k) \/ GetDatabaseInfo(k) \/ DropDatabase(k)
  BY <1>4
     DEF Untouched, TypeOK, CreateDatabase, GetDatabaseInfo, DropDatabase, Fails, Goto,
         store, caches
<1>5. CASE UpdateCreateStatus(k) \/ UpdateDropStatus(k)
  BY <1>5
     DEF Untouched, TypeOK, UpdateCreateStatus, UpdateDropStatus, Accepted, Refused,
         Goto, caches
<1>6. CASE HandleService(k) \/ HandleSecret(k)
  BY <1>6
     DEF Untouched, TypeOK, HandleService, HandleSecret, WriteService, WriteSecret,
         publication, Fails, Goto
<1>7. CASE DeleteService(k) \/ DeleteSecret(k)
  BY <1>7
     DEF Untouched, TypeOK, DeleteService, DeleteSecret, WriteService, WriteSecret,
         publication, Fails, Goto
<1>8. CASE Panic(k)
  BY <1>8 DEF Untouched, TypeOK, Panic, Requeue, Idle, Goto, store, caches
<1>9. CASE UpdateRequest(k)
  BY <1>9
     DEF Untouched, TypeOK, UpdateRequest, Accepted, Refused, Requeue, Idle, Goto, caches
<1>10. CASE UpdateStatus(k)
  BY <1>10
     DEF Untouched, TypeOK, UpdateStatus, Accepted, Refused, Done, Idle, Goto, caches
<1>11. CASE HandleError(k)
  BY <1>11
     DEF Untouched, TypeOK, HandleError, Accepted, Refused, Done, Requeue, Idle, Goto,
         caches
<1>12. CASE RemoveFinalizer(k)
  BY <1>12
     DEF Untouched, TypeOK, RemoveFinalizer, Accepted, Refused, Done, Idle, Goto, caches
<1>13. CASE Sync(k)
  BY <1>13
     DEF Untouched, TypeOK, Sync, SyncRequest, SyncService, SyncSecret, store, worker
<1>14. CASE User(k)
  BY <1>14
     DEF Untouched, TypeOK, User, CreateRequest, DeleteRequest, ForceReconcile,
         ChangeReference, Edit, caches, worker
<1> QED
  BY <1>1, <1>2, <1>3, <1>4, <1>5, <1>6, <1>7, <1>8, <1>9, <1>10, <1>11, <1>12,
     <1>13, <1>14 DEF Step

LEMMA OrphanInvInit == Init => OrphanInv
<1> SUFFICES ASSUME Init, NEW k \in Requests
             PROVE  OrphanInvAt(k)
  BY DEF OrphanInv
<1>1. /\ request[k] = Absent(0) /\ cached[k] = Absent(0)
      /\ service[k] = None /\ secret[k] = None /\ pc[k] = "idle"
  BY DEF Init
<1>2. /\ ~Absent(0).exists /\ ~Absent(0).deleting
      /\ Absent(0).uid = 0 /\ Absent(0).resourceVersion = 0
  BY AbsentMetadata
<1>3. Guarded(k) /\ CacheInv(k)
  BY <1>1, <1>2 DEF Guarded, CacheInv
<1>4. MemoryVersion(k) /\ CreatingInv(k) /\ DeletingInv(k) /\ DeletingOrder(k)
  BY <1>1, Kinds DEF MemoryVersion, CreatingInv, DeletingInv, DeletingOrder
<1> QED
  BY <1>3, <1>4 DEF OrphanInvAt

LEMMA OrphanInvStep == TypeOK /\ TypeOK' /\ OrphanInv /\ [Next]_vars => OrphanInv'
<1> SUFFICES ASSUME TypeOK, TypeOK', OrphanInv, [Next]_vars, NEW j \in Requests
             PROVE  OrphanInvAt(j)'
  BY DEF OrphanInv
<1>0. OrphanInvAt(j)
  BY DEF OrphanInv
<1>1. ASSUME NEW k \in Requests, Reconcile(k) \/ Step(k) \/ Sync(k) \/ User(k)
      PROVE  OrphanInvAt(j)'
  <2>1. CASE j /= k
    <3>1. Untouched(j)
      BY <1>1, <2>1, OtherRequests
    <3> QED
      BY <1>0, <3>1, FrameInv DEF Untouched
  <2>2. CASE j = k
    <3>1. CASE Reconcile(j)
      BY <1>0, <3>1, ReconcileOrphan
    <3>2. CASE Step(j)
      BY <1>0, <3>2, StepOrphan
    <3>3. CASE Sync(j)
      BY <1>0, <3>3, SyncOrphan
    <3>4. CASE User(j)
      BY <1>0, <3>4, CreateOrphan, DeleteOrphan, EditOrphan DEF User
    <3> QED
      BY <1>1, <2>2, <3>1, <3>2, <3>3, <3>4
  <2> QED
    BY <2>1, <2>2
<1>2. CASE Crash
  BY <1>0, <1>2, CrashOrphan
<1>3. CASE UNCHANGED vars
  BY <1>0, <1>3, FrameInv DEF vars, store, caches, worker
<1> QED
  BY <1>1, <1>2, <1>3 DEF Next

\* The strengthening holds, with any number of requests, connections, faults,
\* crashes and user operations: the controller's cache and the memory of its
\* reconciles are past versions the API server still tells apart from the
\* current one (resourceVersion), a Service or Secret implies the finalizer, and
\* what a deletion relies on stays so (AddFinalizer, deleteDatabase).
THEOREM OrphanInvCorrect == Spec => []OrphanInv
<1>1. Init => TypeInv /\ OrphanInv
  BY TypeInvInit, OrphanInvInit
<1>2. TypeInv /\ OrphanInv /\ [Next]_vars => (TypeInv /\ OrphanInv)'
  <2> SUFFICES ASSUME TypeInv, OrphanInv, [Next]_vars
               PROVE  (TypeInv /\ OrphanInv)'
    OBVIOUS
  <2>1. TypeInv'
    BY TypeInvStep
  <2> QED
    BY <2>1, OrphanInvStep DEF TypeInv
<1> QED
  BY <1>1, <1>2, PTL DEF Spec

\* A request that is gone leaves neither Service nor Secret behind, with any
\* number of requests, connections, faults, crashes and user operations: the
\* ordering of AddFinalizer before and RemoveFinalizer after everything the
\* controller publishes, with the optimistic concurrency of the API server,
\* carries it.
THEOREM NoOrphansCorrect == Spec => []NoOrphans
<1>1. OrphanInv => NoOrphans
  BY DEF OrphanInv, OrphanInvAt, Guarded, NoOrphans
<1> QED
  BY <1>1, OrphanInvCorrect, PTL
=============================================================================
