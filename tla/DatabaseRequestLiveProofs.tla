----------------------- MODULE DatabaseRequestLiveProofs -----------------------
(***************************************************************************)
(* Proofs about the requests that are served, for every set of requests,   *)
(* connections, specs and edits: a reconcile works for the object that is  *)
(* in the API server now, not for one of the same name before it, so the   *)
(* database of a Ready request is not dropped and a type without a client  *)
(* publishes nothing; and, each under the hypothesis that is named where   *)
(* it is needed, what is Ready is published, a request that is gone leaves *)
(* no database behind, what is published is a database that exists, and it *)
(* keeps its credentials.                                                  *)
(***************************************************************************)
EXTENDS DatabaseRequestServerProofs

-----------------------------------------------------------------------------
(* Which object a reconcile is about.                                      *)

\* An object with the finalizer is the one the cache and the reconcile are
\* about: only a reconcile that read it adds the finalizer, and no cache goes
\* back to an older object.
IdentityInvAt(k) ==
    /\ request[k].exists /\ request[k].finalizer =>
        /\ cached[k].uid = request[k].uid
        /\ pc[k] \in Creating \cup Deleting => obj[k].uid = request[k].uid
    /\ pc[k] = "addFinalizer" /\ obj[k].resourceVersion = request[k].resourceVersion =>
        cached[k].uid = request[k].uid

\* The type of an object never changes.
KindInvAt(k) ==
    request[k].exists =>
        /\ cached[k].uid = request[k].uid => cached[k].type = request[k].type
        /\ pc[k] \in Creating \cup Deleting /\ obj[k].uid = request[k].uid =>
            obj[k].type = request[k].type

IdentityInv == \A k \in Requests : IdentityInvAt(k) /\ KindInvAt(k)

LEMMA SettleIdentity ==
    ASSUME NEW k \in Requests, IdentityInvAt(k), KindInvAt(k), Settled(k)
    PROVE  IdentityInvAt(k)' /\ KindInvAt(k)'
<1>1. pc'[k] \notin Creating \cup Deleting /\ pc'[k] /= "addFinalizer"
  BY Kinds DEF Settled
<1>2. request'[k].exists /\ request'[k].finalizer => cached'[k].uid = request'[k].uid
  BY DEF IdentityInvAt, Settled, FinalizerAdded, Touched, Fresh
<1> QED
  BY <1>1, <1>2 DEF IdentityInvAt, KindInvAt, Settled, Touched

LEMMA AnswerIdentity ==
    ASSUME NEW k \in Requests, IdentityInvAt(k), KindInvAt(k), Answered(k)
    PROVE  IdentityInvAt(k)' /\ KindInvAt(k)'
<1>1. pc'[k] /= "addFinalizer"
  BY Kinds DEF Answered, Serving
<1>2. request'[k].exists /\ request'[k].finalizer => cached'[k].uid = request'[k].uid
  BY DEF IdentityInvAt, Answered, FinalizerAdded, Touched, Fresh
<1> QED
  BY <1>1, <1>2 DEF IdentityInvAt, KindInvAt, Answered, Touched

LEMMA AdvanceIdentity ==
    ASSUME NEW k \in Requests, IdentityInvAt(k), KindInvAt(k), Advanced(k)
    PROVE  IdentityInvAt(k)' /\ KindInvAt(k)'
<1>1. /\ pc'[k] /= "addFinalizer"
      /\ pc'[k] \in Creating \cup Deleting => pc[k] \in Creating \cup Deleting
  BY Kinds DEF Advanced, Serving
<1> QED
  BY <1>1 DEF IdentityInvAt, KindInvAt, Advanced

\* An object that has gone, or has come, in a step that leaves the rest alone.
LEMMA NewIdentity ==
    ASSUME TypeOK, NEW k \in Requests, OrphanInvAt(k),
           ~(request'[k].exists /\ request'[k].finalizer),
           request'[k].resourceVersion = request[k].resourceVersion + 1,
           request'[k].exists => request'[k].uid = request[k].resourceVersion + 1,
           cached'[k] = cached[k],
           pc'[k] \in Quiet \/ (pc'[k] = pc[k] /\ obj'[k] = obj[k])
    PROVE  IdentityInvAt(k)' /\ KindInvAt(k)'
<1>1. pc'[k] \in Creating \cup Deleting =>
        /\ pc[k] = pc'[k] /\ obj'[k] = obj[k]
        /\ obj[k].resourceVersion <= request[k].resourceVersion
        /\ obj[k].uid <= request[k].resourceVersion
  BY Kinds DEF OrphanInvAt, MemoryVersion
<1>2. cached[k].uid <= request[k].resourceVersion
  BY DEF OrphanInvAt, CacheInv
<1>3. pc'[k] = "addFinalizer" => obj'[k].resourceVersion /= request'[k].resourceVersion
  BY <1>1, Kinds, Numbers
<1>4. request'[k].exists =>
        /\ cached'[k].uid /= request'[k].uid
        /\ pc'[k] \in Creating \cup Deleting => obj'[k].uid /= request'[k].uid
  BY <1>1, <1>2, Numbers
<1> QED
  BY <1>3, <1>4 DEF IdentityInvAt, KindInvAt

\* A user's edit or deletion of an object that stays.
LEMMA EditIdentity ==
    ASSUME TypeOK, NEW k \in Requests, OrphanInvAt(k), IdentityInvAt(k), KindInvAt(k),
           request'[k].exists = request[k].exists,
           request'[k].uid = request[k].uid,
           request'[k].type = request[k].type,
           request'[k].finalizer = request[k].finalizer,
           request'[k].resourceVersion = request[k].resourceVersion + 1,
           cached' = cached, pc' = pc, obj' = obj
    PROVE  IdentityInvAt(k)' /\ KindInvAt(k)'
<1>1. pc[k] = "addFinalizer" => obj[k].resourceVersion /= request'[k].resourceVersion
  BY Numbers, Kinds DEF OrphanInvAt, MemoryVersion
<1> QED
  BY <1>1 DEF IdentityInvAt, KindInvAt

\* A step of a reconcile has one of these shapes.
LEMMA StepShapes ==
    ASSUME TypeOK, NEW k \in Requests, OrphanInvAt(k), Step(k)
    PROVE  Settled(k) \/ Answered(k) \/ Advanced(k) \/ Removed(k)
BY AddFinalizerMoves, CallMoves, StatusMoves, PublishMoves, WithdrawMoves, UpdateMoves,
   ReturnMoves, RemoveFinalizerMoves DEF Step, Called

LEMMA StepIdentity ==
    ASSUME TypeOK, NEW k \in Requests, OrphanInvAt(k), IdentityInvAt(k), KindInvAt(k),
           Step(k)
    PROVE  IdentityInvAt(k)' /\ KindInvAt(k)'
<1>1. CASE Removed(k)
  BY <1>1, NewIdentity DEF Removed, Gone
<1> QED
  BY <1>1, StepShapes, SettleIdentity, AnswerIdentity, AdvanceIdentity

\* What a reconcile starts with, it has from the cache.
LEMMA ReconcileIdentity ==
    ASSUME TypeOK, NEW k \in Requests, OrphanInvAt(k), IdentityInvAt(k), KindInvAt(k),
           Reconcile(k)
    PROVE  IdentityInvAt(k)' /\ KindInvAt(k)'
<1>1. /\ request' = request /\ cached' = cached
      /\ pc'[k] = "idle" \/ obj'[k] = cached[k]
  BY DEF Reconcile, Start, Idle, Goto, TypeOK, store, caches
<1>2. cached[k].resourceVersion = request[k].resourceVersion => cached[k] = request[k]
  BY DEF OrphanInvAt, CacheInv
<1> QED
  BY <1>1, <1>2, Kinds DEF IdentityInvAt, KindInvAt

LEMMA SyncIdentity ==
    ASSUME TypeOK, NEW k \in Requests, IdentityInvAt(k), KindInvAt(k), Sync(k)
    PROVE  IdentityInvAt(k)' /\ KindInvAt(k)'
<1>1. /\ request' = request /\ pc' = pc /\ obj' = obj
      /\ cached'[k] \in {cached[k], request[k]}
  BY DEF Sync, SyncRequest, SyncService, SyncSecret, store, worker, TypeOK
<1> QED
  BY <1>1 DEF IdentityInvAt, KindInvAt

LEMMA UserIdentity ==
    ASSUME TypeOK, NEW k \in Requests, OrphanInvAt(k), IdentityInvAt(k), KindInvAt(k),
           User(k)
    PROVE  IdentityInvAt(k)' /\ KindInvAt(k)'
<1>0. request[k] \in Object
  BY ObjectTypes
<1>1. ASSUME NEW spec \in Specs, CreateRequest(k, spec)
      PROVE  IdentityInvAt(k)' /\ KindInvAt(k)'
  <2>1. /\ request'[k] = Created(request[k].resourceVersion, spec.type,
                                 spec.seed /= None, spec.reference, spec.drop)
        /\ cached' = cached /\ pc' = pc /\ obj' = obj
    BY <1>1 DEF CreateRequest, caches, worker, TypeOK
  <2>2. /\ ~request'[k].finalizer
        /\ request'[k].uid = request[k].resourceVersion + 1
        /\ request'[k].resourceVersion = request[k].resourceVersion + 1
    BY <2>1, Numbers, CreatedMetadata
  <2> QED
    BY <2>1, <2>2, NewIdentity
<1>2. CASE DeleteRequest(k)
  <2>1. /\ request'[k] = Deleted(request[k])
        /\ cached' = cached /\ pc' = pc /\ obj' = obj
    BY <1>2 DEF DeleteRequest, caches, worker, TypeOK
  <2>2. CASE request[k].finalizer
    BY <1>0, <2>1, <2>2, DeletedMetadata, EditIdentity
  <2>3. CASE ~request[k].finalizer
    <3>1. Gone(request[k], request'[k])
      BY <1>0, <2>1, <2>3, DeletedMetadata
    <3> QED
      BY <2>1, <3>1, NewIdentity DEF Gone
  <2> QED
    BY <1>0, <2>2, <2>3, FieldTypes
<1>3. CASE ForceReconcile(k) \/ \E n \in Connections : ChangeReference(k, n)
  BY <1>3, EditMoves, EditIdentity DEF Touched
<1> QED
  BY <1>1, <1>2, <1>3 DEF User

LEMMA IdentityInvInit == Init => IdentityInv
<1> SUFFICES ASSUME Init, NEW k \in Requests
             PROVE  IdentityInvAt(k) /\ KindInvAt(k)
  BY DEF IdentityInv
<1>1. request[k] = Absent(0) /\ pc[k] = "idle" /\ ~Absent(0).exists
  BY AbsentMetadata DEF Init
<1> QED
  BY <1>1 DEF IdentityInvAt, KindInvAt

LEMMA IdentityInvStep == TypeOK /\ OrphanInv /\ IdentityInv /\ [Next]_vars => IdentityInv'
<1> SUFFICES ASSUME TypeOK, OrphanInv, IdentityInv, [Next]_vars, NEW j \in Requests
             PROVE  IdentityInvAt(j)' /\ KindInvAt(j)'
  BY DEF IdentityInv
<1>1. OrphanInvAt(j) /\ IdentityInvAt(j) /\ KindInvAt(j)
  BY DEF OrphanInv, IdentityInv
<1>2. ASSUME Untouched(j)
      PROVE  IdentityInvAt(j)' /\ KindInvAt(j)'
  BY <1>1, <1>2 DEF IdentityInvAt, KindInvAt, Untouched
<1>3. ASSUME NEW k \in Requests, Reconcile(k) \/ Step(k) \/ Sync(k) \/ User(k)
      PROVE  IdentityInvAt(j)' /\ KindInvAt(j)'
  <2>1. CASE j /= k
    BY <1>2, <1>3, <2>1, OtherRequests
  <2>2. CASE j = k
    BY <1>1, <1>3, <2>2, ReconcileIdentity, StepIdentity, SyncIdentity, UserIdentity
  <2> QED
    BY <2>1, <2>2
<1>4. CASE Crash
  <2>1. request'[j] = request[j] /\ cached'[j] = request[j] /\ pc'[j] = "idle"
    BY <1>4 DEF Crash, store
  <2> QED
    BY <2>1, Kinds DEF IdentityInvAt, KindInvAt
<1>5. CASE UNCHANGED vars
  BY <1>2, <1>5 DEF Untouched, vars, store, caches, worker
<1> QED
  BY <1>3, <1>4, <1>5 DEF Next

-----------------------------------------------------------------------------
(* LiveDatabaseKept.                                                       *)

\* Rows tell the requests apart: a call about the row of another request is not
\* about the database this one has the row of.
LEMMA OwnDatabase ==
    ASSUME TypeOK, RowInv, NEW n \in Connections, NEW j \in Requests, NEW k \in Requests,
           users' = WithRow(n, j),
           users[<<n, k>>] = WithRow(n, j)[<<n, j>>]
    PROVE  j = k
<1>1. CASE users[<<n, j>>] = None
  <2>1. users'[<<n, j>>] = Generated(n, j) /\ users[<<n, k>>] /= Generated(n, j)
    BY <1>1, RowRead
  <2> QED
    BY <2>1
<1>2. CASE users[<<n, j>>] /= None
  <2>1. users[<<n, k>>] = users[<<n, j>>]
    BY <1>2 DEF WithRow
  <2> QED
    BY <1>2, <2>1 DEF RowInv, RowsDistinct
<1> QED
  BY <1>1, <1>2

\* The reconcile that drops is about an object that is being deleted; what is
\* published keeps the object, so it is this one.
LEMMA ReadyNotDropped ==
    ASSUME OrphanInv, IdentityInv, NEW k \in Requests, IsReady(k), secret[k] /= None
    PROVE  pc[k] \notin Deleting
<1>1. /\ Guarded(k) /\ DeletingInv(k) /\ IdentityInvAt(k)
  BY DEF OrphanInv, OrphanInvAt, IdentityInv
<1>2. request[k].exists /\ request[k].finalizer /\ ~request[k].deleting
  BY <1>1 DEF Guarded, IsReady
<1>3. pc[k] \in Deleting => obj[k].uid = request[k].uid
  BY <1>1, <1>2 DEF IdentityInvAt
<1> QED
  BY <1>1, <1>2, <1>3 DEF DeletingInv

\* The database a Ready request publishes and has the row of is not dropped
\* under it, however many requests share its server or its seed: the row's user
\* is of no other request, and a reconcile that drops for the same name is about
\* an object that is being deleted, which the Ready one is not (relDBDeletion,
\* DropDatabase).
THEOREM LiveDatabaseKeptCorrect == Spec => LiveDatabaseKept
<1> DEFINE Inv == TypeInv /\ RowInv /\ OrphanInv /\ IdentityInv
           Kept == \A k \in Requests :
                    /\ IsReady(k)
                    /\ secret[k] /= None
                    /\ Published(k) \in databases
                    /\ users[<<secret[k].conn, k>>] = secret[k].cred
                    => Published(k) \in databases'
<1>1. Init => Inv
  BY TypeInvInit, RowInvInit, OrphanInvInit, IdentityInvInit
<1>2. Inv /\ [Next]_vars => Inv'
  <2> SUFFICES ASSUME Inv, [Next]_vars PROVE Inv'
    OBVIOUS
  <2>1. TypeInv' /\ RowInv'
    BY TypeInvStep, RowInvStep
  <2>2. OrphanInv' /\ IdentityInv'
    BY <2>1, OrphanInvStep, IdentityInvStep DEF TypeInv
  <2> QED
    BY <2>1, <2>2
<1>3. Inv /\ [Next]_vars => Kept
  <2> SUFFICES ASSUME Inv, [Next]_vars, NEW k \in Requests, IsReady(k),
                      secret[k] /= None, Published(k) \in databases,
                      users[<<secret[k].conn, k>>] = secret[k].cred,
                      Published(k) \notin databases'
               PROVE  FALSE
    OBVIOUS
  <2>1. PICK n \in Connections, j \in Requests :
            /\ users' = WithRow(n, j)
            /\ pc[j] = "dropDatabase"
            /\ Published(k) = <<n, WithRow(n, j)[<<n, j>>]>>
    BY NextServer DEF ServerStep, CallOn, AdoptOn
  <2>2. n = secret[k].conn /\ users[<<n, k>>] = WithRow(n, j)[<<n, j>>]
    BY <2>1 DEF Published
  <2>3. j = k
    BY <2>1, <2>2, OwnDatabase DEF TypeInv
  <2> QED
    BY <2>1, <2>3, ReadyNotDropped, Kinds
<1> QED
  BY <1>1, <1>2, <1>3, PTL DEF Spec, LiveDatabaseKept

-----------------------------------------------------------------------------
(* UnsupportedUnserved.                                                    *)

\* Only reconciles of types there is a client for find a database to publish.
ServedInvAt(k) ==
    /\ dbInfo[k] /= None => pc[k] \in Serving \cup Failing
    /\ dbInfo[k] /= None /\ pc[k] \in Serving => obj[k].type \in RelationalTypes
    /\ service[k] /= None \/ secret[k] /= None => request[k].type \in RelationalTypes

ServedInv == \A k \in Requests : ServedInvAt(k)

\* The database information comes from a seed or from the users table, and goes
\* when the reconcile returns.
LEMMA InfoStep ==
    ASSUME TypeOK, NEW k \in Requests, Step(k), dbInfo'[k] /= None
    PROVE  /\ pc'[k] /= "idle"
           /\ \/ dbInfo[k] /= None
              \/ /\ HandleSeed(k) \/ GetDatabaseInfo(k)
                 /\ pc[k] \in Serving
                 /\ obj[k].type \in RelationalTypes
<1>1. CASE AddFinalizer(k)
  <2>1. Idle(k) => dbInfo'[k] = None
    BY DEF TypeOK, Idle
  <2>2. pc'[k] /= "idle" /\ dbInfo'[k] = dbInfo[k]
    BY <1>1, <2>1 DEF TypeOK, AddFinalizer, Start, Goto
  <2> QED
    BY <2>2
<1>2. CASE HandleSeed(k)
  BY <1>2, Kinds DEF TypeOK, HandleSeed, Fails, Goto
<1>3. CASE SetDatabaseInfo(k) \/ DeleteSeedSecret(k)
  BY <1>3 DEF TypeOK, SetDatabaseInfo, DeleteSeedSecret, Fails, Goto
<1>4. CASE CreateDatabase(k) \/ DropDatabase(k)
  BY <1>4 DEF TypeOK, CreateDatabase, DropDatabase, Fails, Goto
<1>5. CASE GetDatabaseInfo(k)
  BY <1>5, Kinds DEF TypeOK, GetDatabaseInfo, Fails, Goto
<1>6. CASE UpdateCreateStatus(k) \/ UpdateDropStatus(k)
  BY <1>6 DEF TypeOK, UpdateCreateStatus, UpdateDropStatus, Goto
<1>7. CASE HandleService(k) \/ HandleSecret(k) \/ DeleteService(k) \/ DeleteSecret(k)
  BY <1>7 DEF TypeOK, HandleService, HandleSecret, DeleteService, DeleteSecret, Fails, Goto
<1>8. CASE Panic(k) \/ UpdateRequest(k) \/ UpdateStatus(k) \/ HandleError(k)
           \/ RemoveFinalizer(k)
  <2>1. Idle(k) => dbInfo'[k] = None
    BY DEF TypeOK, Idle
  <2>2. ~Idle(k)
    BY <2>1
  <2> QED
    BY <1>8, <2>2
       DEF TypeOK, Panic, UpdateRequest, UpdateStatus, HandleError, RemoveFinalizer, Done,
           Requeue, Goto
<1> QED
  BY <1>1, <1>2, <1>3, <1>4, <1>5, <1>6, <1>7, <1>8 DEF Step

\* What the step of a reconcile does to the memory it publishes from.
LEMMA ServingStep ==
    ASSUME TypeOK, NEW k \in Requests, IdentityInvAt(k), KindInvAt(k), OrphanInvAt(k),
           ServedInvAt(k), Step(k), dbInfo'[k] /= None
    PROVE  /\ pc'[k] \in Serving \cup Failing
           /\ pc'[k] \in Serving => obj'[k].type \in RelationalTypes
<1>0. /\ pc'[k] /= "idle"
      /\ pc[k] \in Serving \cup Failing
      /\ pc[k] \in Serving => obj[k].type \in RelationalTypes
  BY InfoStep DEF ServedInvAt
<1>1. pc'[k] \in Quiet => pc'[k] \in Failing /\ pc'[k] \notin Serving
  BY <1>0, Kinds DEF Quiet, Serving
<1>2. pc[k] \notin Deleting
  BY <1>0, Kinds DEF Quiet, Serving
<1>3. CASE Settled(k) \/ Removed(k)
  BY <1>1, <1>3 DEF Settled, Removed
<1>4. CASE Answered(k)
  <2>1. pc[k] \in Creating /\ pc'[k] \in Serving
    BY <1>2, <1>4 DEF Answered
  <2>2. pc[k] \in Serving
    BY <1>0, <2>1, Kinds DEF Quiet
  <2>3. obj[k].type = request[k].type
    BY <1>4, <2>1 DEF Answered, Fresh, OrphanInvAt, MemoryVersion, KindInvAt
  <2> QED
    BY <1>0, <1>4, <2>1, <2>2, <2>3 DEF Answered, Touched
<1>5. CASE Advanced(k)
  BY <1>0, <1>1, <1>2, <1>5 DEF Advanced
<1>6. Settled(k) \/ Removed(k) \/ Answered(k) \/ Advanced(k)
  BY StepShapes
<1> QED
  BY <1>3, <1>4, <1>5, <1>6

\* What is published belongs to an object of a type there is a client for.
LEMMA PublishedStep ==
    ASSUME TypeInv, NEW k \in Requests, IdentityInvAt(k), KindInvAt(k), OrphanInvAt(k),
           ServedInvAt(k), Step(k), service'[k] /= None \/ secret'[k] /= None
    PROVE  request'[k].type \in RelationalTypes
<1>0. TypeOK
  BY DEF TypeInv
<1>1. CASE HandleService(k) \/ HandleSecret(k)
  <2>1. /\ request'[k] = request[k]
        /\ pc[k] \in {"handleService", "handleSecret"}
    BY <1>0, <1>1, PublishMoves DEF Advanced
  <2>2. dbInfo[k] /= None
    BY <1>1 DEF HandleService, HandleSecret, TypeInv, WorkerInv
  <2>3. pc[k] \in Serving /\ pc[k] \in Creating
    BY <2>1, Kinds DEF Serving
  <2>4. obj[k].type \in RelationalTypes
    BY <2>2, <2>3 DEF ServedInvAt
  <2>5. request[k].exists /\ request[k].finalizer
    BY <2>3 DEF OrphanInvAt, CreatingInv, Serving
  <2>6. obj[k].type = request[k].type
    BY <2>3, <2>5 DEF IdentityInvAt, KindInvAt
  <2> QED
    BY <2>1, <2>4, <2>6
<1>2. CASE /\ service'[k] \in {service[k], None}
           /\ secret'[k] \in {secret[k], None}
           /\ request'[k].type = request[k].type
  BY <1>2 DEF ServedInvAt
<1>3. CASE Settled(k) \/ Answered(k) \/ Called(k)
  BY <1>2, <1>3 DEF Settled, Answered, Called, Advanced, Touched
<1>4. CASE DeleteService(k) \/ DeleteSecret(k)
  BY <1>0, <1>2, <1>4, WithdrawMoves DEF Advanced
<1>5. ~Removed(k)
  BY DEF Removed
<1> QED
  BY <1>0, <1>1, <1>3, <1>4, <1>5, AddFinalizerMoves, CallMoves, StatusMoves, UpdateMoves,
     ReturnMoves, RemoveFinalizerMoves DEF Step

LEMMA ServedInvInit == Init => ServedInv
BY DEF Init, ServedInv, ServedInvAt

LEMMA ServedInvStep ==
    TypeInv /\ OrphanInv /\ IdentityInv /\ ServedInv /\ [Next]_vars => ServedInv'
<1> SUFFICES ASSUME TypeInv, OrphanInv, IdentityInv, ServedInv, [Next]_vars,
                    NEW j \in Requests
             PROVE  ServedInvAt(j)'
  BY DEF ServedInv
<1>0. TypeOK
  BY DEF TypeInv
<1>1. OrphanInvAt(j) /\ IdentityInvAt(j) /\ KindInvAt(j) /\ ServedInvAt(j)
  BY DEF OrphanInv, IdentityInv, ServedInv
<1>2. ASSUME dbInfo'[j] = dbInfo[j], Untouched(j)
      PROVE  ServedInvAt(j)'
  BY <1>1, <1>2 DEF ServedInvAt, Untouched
<1>3. CASE Step(j)
  <2>1. dbInfo'[j] /= None =>
            /\ pc'[j] \in Serving \cup Failing
            /\ pc'[j] \in Serving => obj'[j].type \in RelationalTypes
    BY <1>0, <1>1, <1>3, ServingStep
  <2>2. service'[j] /= None \/ secret'[j] /= None => request'[j].type \in RelationalTypes
    BY <1>1, <1>3, PublishedStep
  <2> QED
    BY <2>1, <2>2 DEF ServedInvAt
<1>4. CASE Reconcile(j)
  <2>1. dbInfo[j] = None
    BY <1>1, <1>4, Kinds DEF Reconcile, ServedInvAt, Quiet, Serving, Failing
  <2>2. dbInfo'[j] = None /\ UNCHANGED store
    BY <1>0, <1>4, <2>1 DEF Reconcile, Start, Idle, TypeOK
  <2> QED
    BY <1>1, <2>2 DEF ServedInvAt, store
<1>5. CASE Sync(j)
  BY <1>1, <1>5
     DEF ServedInvAt, Sync, SyncRequest, SyncService, SyncSecret, store, worker
<1>6. CASE User(j)
  <2>1. UNCHANGED worker /\ UNCHANGED <<service, secret>>
    BY <1>6 DEF User, CreateRequest, DeleteRequest, ForceReconcile, ChangeReference, Edit
  <2>2. service[j] /= None \/ secret[j] /= None => request'[j].type = request[j].type
    <3>1. request[j] \in Object
      BY <1>0, ObjectTypes
    <3>2. service[j] /= None \/ secret[j] /= None =>
            request[j].exists /\ request[j].finalizer
      BY <1>1 DEF OrphanInvAt, Guarded
    <3>3. ASSUME NEW spec \in Specs, CreateRequest(j, spec)
          PROVE  ~request[j].exists
      BY <3>3 DEF CreateRequest
    <3>4. CASE DeleteRequest(j)
      <4>1. request'[j] = Deleted(request[j])
        BY <1>0, <3>4 DEF DeleteRequest, TypeOK
      <4> QED
        BY <3>1, <3>2, <4>1, DeletedMetadata
    <3>5. CASE ForceReconcile(j) \/ \E n \in Connections : ChangeReference(j, n)
      BY <1>0, <3>5, EditMoves DEF Touched
    <3> QED
      BY <1>6, <3>2, <3>3, <3>4, <3>5 DEF User
  <2> QED
    BY <1>1, <2>1, <2>2 DEF ServedInvAt, worker
<1>7. ASSUME NEW k \in Requests, Reconcile(k) \/ Step(k) \/ Sync(k) \/ User(k)
      PROVE  ServedInvAt(j)'
  <2>1. CASE j /= k
    BY <1>0, <1>2, <1>7, <2>1, OtherRequests, OtherInfo
  <2>2. CASE j = k
    BY <1>3, <1>4, <1>5, <1>6, <1>7, <2>2
  <2> QED
    BY <2>1, <2>2
<1>8. CASE Crash
  <2>1. dbInfo'[j] = None /\ UNCHANGED store
    BY <1>8 DEF Crash
  <2> QED
    BY <1>1, <2>1 DEF ServedInvAt, store
<1>9. CASE UNCHANGED vars
  BY <1>2, <1>9 DEF Untouched, vars, store, caches, worker
<1> QED
  BY <1>7, <1>8, <1>9 DEF Next

\* A request of a type the controller has no client for publishes nothing, for
\* the whole life of its object: handleService and handleSecret are only passed
\* with database information, which only the calls of the relational client
\* bring, for the type of the object they serve (createDatabase, getDatabaseInfo,
\* handleSeed).
THEOREM UnsupportedUnservedCorrect == Spec => []UnsupportedUnserved
<1> DEFINE Inv == TypeInv /\ OrphanInv /\ IdentityInv /\ ServedInv
<1>1. Init => Inv
  BY TypeInvInit, OrphanInvInit, IdentityInvInit, ServedInvInit
<1>2. Inv /\ [Next]_vars => Inv'
  <2> SUFFICES ASSUME Inv, [Next]_vars PROVE Inv'
    OBVIOUS
  <2>1. TypeInv'
    BY TypeInvStep
  <2>2. OrphanInv' /\ IdentityInv'
    BY <2>1, OrphanInvStep, IdentityInvStep DEF TypeInv
  <2> QED
    BY <2>1, <2>2, ServedInvStep
<1>3. Inv => UnsupportedUnserved
  BY DEF ServedInv, ServedInvAt, UnsupportedUnserved, RelationalTypes
<1> QED
  BY <1>1, <1>2, <1>3, PTL DEF Spec

-----------------------------------------------------------------------------
(* What a write does to the spec, the generation and the status.           *)

\* The spec, as far as a reconcile follows it.
Followed(a, b) == a.seed = b.seed /\ a.connectionReference = b.connectionReference

SameStatus(a, b) == a.ready = b.ready /\ a.observedGeneration = b.observedGeneration

LEMMA WrittenFields ==
    ASSUME NEW current \in Object, NEW new \in Object
    PROVE  /\ Followed(Written(current, new), new)
           /\ SameStatus(Written(current, new), new)
           /\ Written(current, new).generation = new.generation
           /\ Written(current, new).dropDatabaseOnDelete = new.dropDatabaseOnDelete
<1>1. CASE new = current
  BY <1>1 DEF Written, Followed, SameStatus
<1>2. CASE new /= current
  <2>1. current.resourceVersion + 1 \in Nat
    BY Successor, FieldTypes
  <2> QED
    BY <1>2, <2>1 DEF Written, Followed, SameStatus, Object
<1> QED
  BY <1>1, <1>2

\* Status().Update leaves the spec and its generation alone.
LEMMA PutStatusFields ==
    ASSUME NEW current \in Object, NEW new \in Object
    PROVE  /\ Followed(PutStatus(current, new), current)
           /\ SameStatus(PutStatus(current, new), new)
           /\ PutStatus(current, new).generation = current.generation
           /\ PutStatus(current, new).dropDatabaseOnDelete = current.dropDatabaseOnDelete
<1> DEFINE stored == [current EXCEPT
                        !.ready = new.ready,
                        !.observedGeneration = new.observedGeneration,
                        !.observedReference = new.observedReference]
<1>1. stored \in Object /\ Followed(stored, current) /\ SameStatus(stored, new)
  BY DEF Object, Followed, SameStatus
<1>2. /\ stored.generation = current.generation
      /\ stored.dropDatabaseOnDelete = current.dropDatabaseOnDelete
  BY DEF Object
<1> HIDE DEF stored
<1>3. PutStatus(current, new) = Written(current, stored)
  BY DEF PutStatus, stored
<1> QED
  BY <1>1, <1>2, <1>3, WrittenFields DEF Followed, SameStatus

\* Update with the finalizer leaves the status alone and stores the spec; the
\* generation tells whether that changed it.
LEMMA PutObjectFields ==
    ASSUME NEW current \in Object, NEW new \in Object, new.finalizer
    PROVE  /\ Followed(PutObject(current, new), new)
           /\ SameStatus(PutObject(current, new), current)
           /\ PutObject(current, new).dropDatabaseOnDelete
           /\ \/ /\ PutObject(current, new).generation = current.generation
                 /\ Followed(PutObject(current, new), current)
              \/ PutObject(current, new).generation = current.generation + 1
<1> DEFINE stored == [current EXCEPT
                        !.finalizer = new.finalizer,
                        !.seed = new.seed,
                        !.connectionReference = new.connectionReference,
                        !.dropDatabaseOnDelete = EncodedDrop(new.dropDatabaseOnDelete)]
           bumped == [stored EXCEPT !.generation = current.generation + 1]
<1>0. current.generation \in Nat /\ current.generation + 1 \in Nat
  BY FieldTypes, Successor
<1>1. EncodedDrop(new.dropDatabaseOnDelete) = TRUE
  BY DEF EncodedDrop, DropDefault
<1>2. /\ stored \in Object
      /\ stored.dropDatabaseOnDelete
      /\ stored.generation = current.generation
  BY <1>1 DEF Object
<1>3. Followed(stored, new) /\ SameStatus(stored, current)
  BY <1>1 DEF Object, Followed, SameStatus
<1> HIDE DEF stored
<1>4. bumped \in Object /\ bumped.generation = current.generation + 1
  BY <1>0, <1>2 DEF Object
<1>5. /\ Followed(bumped, new)
      /\ SameStatus(bumped, current)
      /\ bumped.dropDatabaseOnDelete
  BY <1>2, <1>3 DEF Object, Followed, SameStatus
<1>6. \/ PutObject(current, new) = Written(current, stored) /\ SameSpec(current, stored)
      \/ PutObject(current, new) = Written(current, bumped)
  BY DEF PutObject, stored
<1> HIDE DEF bumped
<1>7. CASE PutObject(current, new) = Written(current, stored) /\ SameSpec(current, stored)
  BY <1>2, <1>3, <1>7, WrittenFields DEF Followed, SameStatus, SameSpec
<1>8. CASE PutObject(current, new) = Written(current, bumped)
  BY <1>4, <1>5, <1>8, WrittenFields DEF Followed, SameStatus
<1> QED
  BY <1>6, <1>7, <1>8

\* What the decoder keeps of the memory: what is unset in the answer.
LEMMA DecodeFields ==
    ASSUME NEW answer \in Object, NEW memory \in Object
    PROVE  /\ Decode(answer, memory).generation = answer.generation
           /\ Decode(answer, memory).seed = answer.seed
           /\ Decode(answer, memory).dropDatabaseOnDelete = answer.dropDatabaseOnDelete
           /\ Decode(answer, memory).connectionReference =
                IF answer.connectionReference = None
                THEN memory.connectionReference
                ELSE answer.connectionReference
           /\ Decode(answer, memory).ready =
                IF answer.ready = "unset" THEN memory.ready ELSE answer.ready
           /\ Decode(answer, memory).observedGeneration =
                IF answer.observedGeneration = 0
                THEN memory.observedGeneration
                ELSE answer.observedGeneration
<1>1. /\ Decode(answer, memory).generation = answer.generation
      /\ Decode(answer, memory).seed = answer.seed
      /\ Decode(answer, memory).dropDatabaseOnDelete = answer.dropDatabaseOnDelete
  BY DEF Decode, Object
<1>2. Decode(answer, memory).connectionReference =
                IF answer.connectionReference = None
                THEN memory.connectionReference
                ELSE answer.connectionReference
  BY DEF Decode, Object
<1>3. Decode(answer, memory).ready =
                IF answer.ready = "unset" THEN memory.ready ELSE answer.ready
  BY DEF Decode, Object
<1>4. Decode(answer, memory).observedGeneration =
                IF answer.observedGeneration = 0
                THEN memory.observedGeneration
                ELSE answer.observedGeneration
  BY DEF Decode, Object
<1> QED
  BY <1>1, <1>2, <1>3, <1>4

\* A user's edit or deletion of an object that stays counts the generation.
LEMMA UserFields ==
    ASSUME NEW current \in Object
    PROVE  /\ Edited(current).generation = current.generation + 1
           /\ SameStatus(Edited(current), current)
           /\ Followed(Edited(current), current)
           /\ Edited(current).dropDatabaseOnDelete = current.dropDatabaseOnDelete
           /\ current.finalizer =>
                /\ Deleted(current).generation = current.generation + 1
                /\ SameStatus(Deleted(current), current)
                /\ Followed(Deleted(current), current)
                /\ Deleted(current).dropDatabaseOnDelete = current.dropDatabaseOnDelete
<1>1. current.resourceVersion + 1 \in Nat /\ current.generation + 1 \in Nat
  BY Successor, FieldTypes
<1>2. /\ Edited(current).generation = current.generation + 1
      /\ SameStatus(Edited(current), current)
      /\ Followed(Edited(current), current)
      /\ Edited(current).dropDatabaseOnDelete = current.dropDatabaseOnDelete
  BY <1>1 DEF Edited, Object, SameStatus, Followed
<1>3. ASSUME current.finalizer
      PROVE  /\ Deleted(current).generation = current.generation + 1
             /\ SameStatus(Deleted(current), current)
             /\ Followed(Deleted(current), current)
             /\ Deleted(current).dropDatabaseOnDelete = current.dropDatabaseOnDelete
  BY <1>1, <1>3 DEF Deleted, Object, SameStatus, Followed
<1> QED
  BY <1>2, <1>3

\* A new object, and no object.
LEMMA NewFields ==
    ASSUME NEW rv \in Nat, NEW type, NEW seed, NEW reference, NEW drop
    PROVE  /\ Created(rv, type, seed, reference, drop).exists
           /\ Created(rv, type, seed, reference, drop).generation = 1
           /\ Created(rv, type, seed, reference, drop).observedGeneration = 0
           /\ Created(rv, type, seed, reference, drop).ready = "unset"
           /\ Created(rv, type, seed, reference, drop).type = type
           /\ Created(rv, type, seed, reference, drop).seed = seed
           /\ Created(rv, type, seed, reference, drop).connectionReference = reference
<1>1. rv + 1 \in Nat
  BY Successor
<1> QED
  BY <1>1 DEF Created, Absent

\* Generations and what was observed of them are numbers.
LEMMA Generations ==
    ASSUME NEW o \in Object
    PROVE  /\ o.generation \in Nat
           /\ o.observedGeneration \in Nat
           /\ o.seed \in BOOLEAN
BY DEF Object

-----------------------------------------------------------------------------
(* Generations: which spec and which status a copy of an object has.       *)

\* With the same generation, a copy of a request that has been given a reference
\* and has no seed has that reference, and no seed.
Agrees(copy, current) ==
    /\ copy.generation = current.generation
    /\ ~current.seed
    /\ current.connectionReference /= None
    => ~copy.seed /\ copy.connectionReference = current.connectionReference

\* The status of an object follows its generation; it is Ready with a reference.
StatusInv(k) ==
    /\ cached[k].uid /= 0 => cached[k].exists
    /\ request[k].uid /= 0 <=> request[k].exists
    /\ request[k].exists =>
        /\ request[k].generation /= 0
        /\ request[k].observedGeneration <= request[k].generation
        /\ request[k].ready \in ReadyReasons =>
            /\ request[k].finalizer
            /\ ~request[k].seed
            /\ request[k].connectionReference /= None

\* The cache has an older generation, or the same with its spec.
CachedSpec(k) ==
    request[k].exists /\ cached[k].uid = request[k].uid =>
        /\ cached[k].generation <= request[k].generation
        /\ cached[k].observedGeneration <= request[k].observedGeneration
        /\ cached[k].generation = request[k].generation => Followed(cached[k], request[k])

\* The steps in which the memory has the spec as it was read.
Reading == {"addFinalizer", "handleSeed", "setDatabaseInfo", "deleteSeedSecret",
            "createDatabase", "updateCreateStatus"}

\* So has the memory of a reconcile, until it has written the spec ...
MemorySpec(k) ==
    pc[k] \in Creating /\ request[k].exists /\ obj[k].uid = request[k].uid =>
        /\ obj[k].generation <= request[k].generation
        /\ obj[k].resourceVersion = request[k].resourceVersion =>
            obj[k].generation = request[k].generation
        /\ pc[k] \in Reading /\ obj[k].generation = request[k].generation =>
            Followed(obj[k], request[k])
        /\ IF pc[k] = "updateStatus"
           THEN ~request[k].seed /\ request[k].connectionReference /= None
           ELSE Agrees(obj[k], request[k])

\* ... with the status of the version it has read; UpdateRequest sets the first
\* observed generation.
MemoryStatus(k) ==
    pc[k] /= "idle" =>
        /\ obj[k].resourceVersion <= request[k].resourceVersion
        /\ obj[k].resourceVersion = request[k].resourceVersion =>
            /\ obj[k].ready = request[k].ready
            /\ \/ obj[k].observedGeneration = request[k].observedGeneration
               \/ /\ pc[k] \in {"updateStatus", "handleError"}
                  /\ request[k].observedGeneration = 0
                  /\ obj[k].observedGeneration <= request[k].generation

\* What has led the reconcile to its step.
PathInv(k) ==
    /\ pc[k] \in {"handleSeed", "setDatabaseInfo", "deleteSeedSecret", "ignoreError"} =>
        obj[k].seed
    /\ pc[k] \in {"createDatabase", "updateCreateStatus"} =>
        ~obj[k].seed /\ obj[k].connectionReference = None
    /\ pc[k] \in {"getDatabaseInfo", "handleService", "handleSecret", "updateRequest"} =>
        ~obj[k].seed /\ obj[k].connectionReference /= None

MemoryInv(k) == MemorySpec(k) /\ MemoryStatus(k) /\ PathInv(k)

GenerationInvAt(k) == StatusInv(k) /\ CachedSpec(k) /\ MemoryInv(k)

GenerationInv == \A k \in Requests : GenerationInvAt(k)

\* The names of the steps differ.
LEMMA Names ==
    /\ "idle" \notin Creating \cup Deleting \cup Failing
    /\ {"handleError", "ignoreError"} \cap (Creating \cup Deleting) = {}
    /\ {"addFinalizer", "handleSeed", "setDatabaseInfo", "deleteSeedSecret",
        "createDatabase", "updateCreateStatus", "getDatabaseInfo", "handleService",
        "handleSecret", "updateRequest", "updateStatus"} = Creating
BY DEF Creating, Deleting, Failing

\* Numbers in the state and in the next one.
LEMMA Counts ==
    ASSUME TypeOK, NEW k \in Requests
    PROVE  /\ request[k].generation \in Nat /\ request[k].observedGeneration \in Nat
           /\ cached[k].generation \in Nat /\ cached[k].observedGeneration \in Nat
           /\ obj[k].generation \in Nat /\ obj[k].observedGeneration \in Nat
BY ObjectTypes, Generations

LEMMA CountsNext ==
    ASSUME TypeOK', NEW k \in Requests
    PROVE  /\ request'[k].generation \in Nat /\ request'[k].observedGeneration \in Nat
           /\ cached'[k].generation \in Nat /\ cached'[k].observedGeneration \in Nat
           /\ obj'[k].generation \in Nat /\ obj'[k].observedGeneration \in Nat
<1>1. request'[k] \in Object /\ cached'[k] \in Object /\ obj'[k] \in Object
  BY DEF TypeOK
<1> QED
  BY <1>1, Generations

\* A write to an object that stays: a change of the spec counts the generation.
Grown(k) ==
    /\ request'[k].exists = request[k].exists
    /\ request'[k].uid = request[k].uid
    /\ request[k].generation <= request'[k].generation
    /\ request[k].observedGeneration <= request'[k].observedGeneration
    /\ request[k].exists => request'[k].observedGeneration <= request'[k].generation
    /\ request'[k].generation = request[k].generation => Followed(request'[k], request[k])
    /\ \/ request'[k] = request[k]
       \/ request'[k].resourceVersion = request[k].resourceVersion + 1

LEMMA GrownSpec ==
    ASSUME TypeOK, TypeOK', NEW k \in Requests, CachedSpec(k), Grown(k),
           cached'[k] = cached[k]
    PROVE  CachedSpec(k)'
BY Counts, CountsNext DEF CachedSpec, Grown, Agrees, Followed

\* A reconcile that ends or fails, whatever has become of its write.
LEMMA QuietMemory ==
    ASSUME TypeOK, TypeOK', NEW k \in Requests, MemoryStatus(k),
           \/ pc'[k] = "idle"
           \/ /\ pc[k] /= "idle"
              /\ \/ pc'[k] = "handleError"
                 \/ pc'[k] = "ignoreError" /\ obj'[k].seed /\ pc[k] = "handleSeed"
              /\ obj'[k].resourceVersion = obj[k].resourceVersion
              /\ SameStatus(obj'[k], obj[k]),
           \/ request'[k] = request[k]
           \/ request'[k].resourceVersion = request[k].resourceVersion + 1
    PROVE  MemoryInv(k)'
<1>1. MemorySpec(k)' /\ PathInv(k)'
  BY Names DEF MemorySpec, PathInv
<1>2. MemoryStatus(k)'
  BY Names, Numbers, NumbersNext, Counts DEF MemoryStatus, SameStatus
<1> QED
  BY <1>1, <1>2 DEF MemoryInv

\* A reconcile that goes on and has not written.
LEMMA LocalMemory ==
    ASSUME TypeOK, NEW k \in Requests, MemoryInv(k),
           request'[k] = request[k],
           obj'[k].uid = obj[k].uid,
           obj'[k].resourceVersion = obj[k].resourceVersion,
           obj'[k].generation = obj[k].generation,
           SameStatus(obj'[k], obj[k]),
           pc[k] \notin {"idle", "updateStatus"} \cup Failing,
           pc'[k] \in Creating => pc[k] \in Creating /\ pc'[k] /= "updateStatus",
           pc'[k] \in Reading => pc[k] \in Reading /\ Followed(obj'[k], obj[k]),
           Followed(obj'[k], obj[k]) \/ obj[k].seed,
           PathInv(k)'
    PROVE  MemoryInv(k)'
<1>1. MemorySpec(k)'
  BY Names DEF MemoryInv, MemorySpec, Agrees, Followed
<1>2. MemoryStatus(k)'
  BY Names DEF MemoryInv, MemoryStatus, SameStatus, Failing
<1> QED
  BY <1>1, <1>2 DEF MemoryInv

\* A reconcile that goes on with the answer to its write.
LEMMA AnswerMemory ==
    ASSUME TypeOK, TypeOK', NEW k \in Requests,
           obj'[k].resourceVersion = request'[k].resourceVersion,
           obj'[k].generation = request'[k].generation,
           obj'[k].ready = request'[k].ready,
           \/ obj'[k].observedGeneration = request'[k].observedGeneration
           \/ /\ pc'[k] = "updateStatus"
              /\ request'[k].observedGeneration = 0
              /\ obj'[k].observedGeneration <= request'[k].generation,
           pc'[k] \in Creating =>
                IF pc'[k] = "updateStatus"
                THEN ~request'[k].seed /\ request'[k].connectionReference /= None
                ELSE Agrees(obj'[k], request'[k]),
           pc'[k] \in Reading => Followed(obj'[k], request'[k]),
           PathInv(k)'
    PROVE  MemoryInv(k)'
<1>1. MemorySpec(k)'
  BY CountsNext DEF MemorySpec
<1>2. MemoryStatus(k)'
  BY NumbersNext DEF MemoryStatus
<1> QED
  BY <1>1, <1>2 DEF MemoryInv

\* The calls of a reconcile that do not write its object.
Local(k) ==
    /\ request'[k] = request[k]
    /\ cached'[k] = cached[k]
    /\ queue' = queue
    /\ obj'[k].uid = obj[k].uid
    /\ obj'[k].resourceVersion = obj[k].resourceVersion
    /\ obj'[k].generation = obj[k].generation
    /\ SameStatus(obj'[k], obj[k])

LEMMA CallLocal ==
    ASSUME TypeOK, NEW k \in Requests,
           \/ HandleSeed(k) \/ SetDatabaseInfo(k) \/ DeleteSeedSecret(k)
           \/ CreateDatabase(k) \/ GetDatabaseInfo(k) \/ HandleService(k)
           \/ HandleSecret(k) \/ DropDatabase(k) \/ DeleteService(k) \/ DeleteSecret(k)
    PROVE  /\ Local(k)
           /\ \/ Followed(obj'[k], obj[k])
              \/ /\ DeleteSeedSecret(k)
                 /\ pc'[k] = "handleService"
                 /\ ~obj'[k].seed
                 /\ obj'[k].connectionReference = dbInfo[k].conn
<1>0. obj[k] \in Object
  BY ObjectTypes
<1>1. request' = request /\ cached' = cached /\ queue' = queue
  BY DEF HandleSeed, SetDatabaseInfo, DeleteSeedSecret, CreateDatabase, GetDatabaseInfo,
         HandleService, HandleSecret, DropDatabase, DeleteService, DeleteSecret, store,
         caches
<1>2. CASE obj'[k] = obj[k]
  BY <1>1, <1>2 DEF Local, Followed, SameStatus
<1>3. ASSUME NEW reference, obj'[k] = [obj[k] EXCEPT !.observedReference = reference]
      PROVE  Local(k) /\ Followed(obj'[k], obj[k])
  BY <1>0, <1>1, <1>3 DEF Local, Followed, SameStatus, Object
<1>4. CASE DeleteSeedSecret(k) /\ obj'[k] /= obj[k]
  <2>1. /\ obj'[k] = [obj[k] EXCEPT
                        !.connectionReference = dbInfo[k].conn,
                        !.observedReference = dbInfo[k].conn,
                        !.seed = FALSE]
        /\ pc'[k] = "handleService"
    BY <1>4 DEF DeleteSeedSecret, TypeOK, Goto
  <2>2. /\ obj'[k].uid = obj[k].uid
        /\ obj'[k].resourceVersion = obj[k].resourceVersion
        /\ obj'[k].generation = obj[k].generation
    BY <1>0, <2>1 DEF Object
  <2>3. /\ SameStatus(obj'[k], obj[k])
        /\ ~obj'[k].seed
        /\ obj'[k].connectionReference = dbInfo[k].conn
    BY <1>0, <2>1 DEF Object, SameStatus
  <2> QED
    BY <1>1, <1>4, <2>1, <2>2, <2>3 DEF Local
<1>5. CASE CreateDatabase(k)
  <2>1. \/ obj' = obj
        \/ \E n \in Pool :
            obj' = [obj EXCEPT ![k] = [obj[k] EXCEPT !.observedReference = n]]
    BY <1>5 DEF CreateDatabase, Candidates, Fails
  <2>2. \A o : [obj EXCEPT ![k] = o][k] = o
    BY DEF TypeOK
  <2> QED
    BY <1>2, <1>3, <2>1, <2>2
<1>6. CASE GetDatabaseInfo(k) \/ DropDatabase(k)
  <2>1. \/ obj'[k] = obj[k]
        \/ \E reference : obj'[k] = [obj[k] EXCEPT !.observedReference = reference]
    BY <1>6 DEF GetDatabaseInfo, DropDatabase, TypeOK
  <2> QED
    BY <1>2, <1>3, <2>1
<1>7. CASE \/ HandleSeed(k) \/ SetDatabaseInfo(k) \/ HandleService(k)
           \/ HandleSecret(k) \/ DeleteService(k) \/ DeleteSecret(k)
  <2>1. obj' = obj
    BY <1>7
       DEF HandleSeed, SetDatabaseInfo, HandleService, HandleSecret, DeleteService,
           DeleteSecret
  <2> QED
    BY <1>2, <2>1
<1> QED
  BY <1>2, <1>4, <1>5, <1>6, <1>7

\* Where they go.
LEMMA CallGoes ==
    ASSUME TypeOK, NEW k \in Requests,
           \/ HandleSeed(k) \/ SetDatabaseInfo(k) \/ DeleteSeedSecret(k)
           \/ CreateDatabase(k) \/ GetDatabaseInfo(k) \/ HandleService(k)
           \/ HandleSecret(k) \/ DropDatabase(k) \/ DeleteService(k) \/ DeleteSecret(k)
    PROVE  \/ pc'[k] = "handleError"
           \/ /\ pc[k] = "handleSeed"
              /\ pc'[k] = "ignoreError" \/ pc'[k] = "setDatabaseInfo"
           \/ pc[k] = "setDatabaseInfo" /\ pc'[k] = "deleteSeedSecret"
           \/ pc[k] = "deleteSeedSecret" /\ pc'[k] = "handleService" /\ ~obj'[k].seed
           \/ pc[k] = "createDatabase" /\ pc'[k] = "updateCreateStatus"
           \/ pc[k] = "getDatabaseInfo" /\ pc'[k] = "handleService"
           \/ pc[k] = "handleService" /\ pc'[k] = "handleSecret"
           \/ pc[k] = "handleSecret" /\ pc'[k] = "updateRequest"
           \/ /\ pc[k] \in Deleting
              /\ pc'[k] \in Deleting
<1>1. CASE HandleSeed(k) \/ SetDatabaseInfo(k)
  BY <1>1 DEF HandleSeed, SetDatabaseInfo, TypeOK, Goto, Fails
<1>2. CASE DeleteSeedSecret(k)
  <2>1. \/ pc'[k] = "handleError"
        \/ /\ obj'[k] = [obj[k] EXCEPT
                        !.connectionReference = dbInfo[k].conn,
                        !.observedReference = dbInfo[k].conn,
                        !.seed = FALSE]
           /\ pc'[k] = "handleService"
           /\ pc[k] = "deleteSeedSecret"
    BY <1>2 DEF DeleteSeedSecret, TypeOK, Goto, Fails
  <2>2. obj[k] \in Object
    BY ObjectTypes
  <2> QED
    BY <2>1, <2>2 DEF Object
<1>3. CASE CreateDatabase(k) \/ GetDatabaseInfo(k)
  BY <1>3 DEF CreateDatabase, GetDatabaseInfo, TypeOK, Goto, Fails
<1>4. CASE HandleService(k) \/ HandleSecret(k)
  BY <1>4 DEF HandleService, HandleSecret, TypeOK, Goto, Fails
<1>5. CASE DropDatabase(k) \/ DeleteService(k) \/ DeleteSecret(k)
  BY <1>5, Kinds DEF DropDatabase, DeleteService, DeleteSecret, TypeOK, Goto, Fails, Deleting
<1> QED
  BY <1>1, <1>2, <1>3, <1>4, <1>5

LEMMA CallGeneration ==
    ASSUME TypeInv, TypeOK', NEW k \in Requests, MemoryInv(k),
           \/ HandleSeed(k) \/ SetDatabaseInfo(k) \/ DeleteSeedSecret(k)
           \/ CreateDatabase(k) \/ GetDatabaseInfo(k) \/ HandleService(k)
           \/ HandleSecret(k) \/ DropDatabase(k) \/ DeleteService(k) \/ DeleteSecret(k)
    PROVE  MemoryInv(k)'
<1>0. TypeOK
  BY DEF TypeInv
<1>1. pc[k] \notin {"idle", "updateStatus"} \cup Failing
  BY Kinds, Names
     DEF HandleSeed, SetDatabaseInfo, DeleteSeedSecret, CreateDatabase, GetDatabaseInfo,
         HandleService, HandleSecret, DropDatabase, DeleteService, DeleteSecret, Failing
<1>2. CASE pc'[k] \in Failing
  <2>1. pc'[k] = "handleError" \/ (pc'[k] = "ignoreError" /\ pc[k] = "handleSeed")
    BY <1>0, <1>2, Names, CallGoes DEF Failing
  <2>2. pc'[k] = "ignoreError" => obj'[k].seed
    BY <1>0, <2>1, CallLocal DEF MemoryInv, PathInv, Followed
  <2> QED
    BY <1>0, <1>1, <2>1, <2>2, QuietMemory, CallLocal DEF Local, MemoryInv
<1>3. CASE pc'[k] \notin Failing
  <2>1. /\ pc'[k] /= "handleError" /\ pc'[k] /= "ignoreError"
        /\ pc'[k] \in Creating => pc[k] \in Creating /\ pc'[k] /= "updateStatus"
    BY <1>0, <1>3, Names, Kinds, CallGoes DEF Failing
  <2>2. \/ Followed(obj'[k], obj[k])
        \/ pc[k] = "deleteSeedSecret" /\ pc'[k] = "handleService" /\ ~obj'[k].seed
    BY <1>0, CallLocal DEF DeleteSeedSecret
  <2>3. pc'[k] = "handleService" => obj'[k].connectionReference /= None
    <3>1. pc[k] = "deleteSeedSecret" => dbInfo[k].conn \in Connections
      BY DEF TypeInv, TypeOK, WorkerInv, DatabaseInfo
    <3>2. CASE pc[k] = "getDatabaseInfo"
      BY <1>0, <2>2, <3>2 DEF MemoryInv, PathInv, Followed
    <3>3. CASE pc[k] = "deleteSeedSecret" /\ pc'[k] = "handleService" /\ ~obj'[k].seed
      <4>1. obj'[k].connectionReference = dbInfo[k].conn
        BY <1>0, <3>3, CallLocal DEF MemoryInv, PathInv, Followed
      <4> QED
        BY <3>1, <3>3, <4>1, NoneAssumption DEF NoneAssumption
    <3> QED
      BY <1>0, <2>1, <3>2, <3>3, CallGoes, Names, Kinds
  <2>4. PathInv(k)'
    BY <1>0, <2>1, <2>2, <2>3, Names, Kinds, CallGoes DEF MemoryInv, PathInv, Followed
  <2>5. Followed(obj'[k], obj[k]) \/ obj[k].seed
    BY <2>2 DEF MemoryInv, PathInv
  <2>6. pc'[k] \in Reading => pc[k] \in Reading /\ Followed(obj'[k], obj[k])
    BY <1>0, <2>1, <2>2, Kinds, Names, CallGoes DEF Reading
  <2> QED
    BY <1>0, <1>1, <2>1, <2>4, <2>5, <2>6, LocalMemory, CallLocal DEF Local
<1> QED
  BY <1>2, <1>3

\* A status that has been written over the version that was read.
StatusStored(k, readies) ==
    /\ Fresh(k)
    /\ Touched(request[k], request'[k])
    /\ request'[k].finalizer = request[k].finalizer
    /\ request'[k].generation = request[k].generation
    /\ Followed(request'[k], request[k])
    /\ request'[k].dropDatabaseOnDelete = request[k].dropDatabaseOnDelete
    /\ request'[k].ready \in readies
    /\ request'[k].observedGeneration = obj[k].observedGeneration

LEMMA StatusWritten ==
    ASSUME TypeOK, NEW k \in Requests, NEW new \in Object,
           new.observedGeneration = obj[k].observedGeneration,
           \/ Accepted(k, PutStatus(request[k], new))
           \/ Refused(k, PutStatus(request[k], new))
    PROVE  \/ request'[k] = request[k] /\ ~Accepted(k, PutStatus(request[k], new))
           \/ StatusStored(k, {new.ready})
<1> DEFINE stored == PutStatus(request[k], new)
<1>1. request[k] \in Object
  BY ObjectTypes
<1>2. /\ Touched(request[k], stored)
      /\ stored.finalizer = request[k].finalizer
      /\ stored.generation = request[k].generation
      /\ Followed(stored, request[k])
      /\ SameStatus(stored, new)
      /\ stored.dropDatabaseOnDelete = request[k].dropDatabaseOnDelete
  BY <1>1, PutStatusMetadata, PutStatusFields
<1> HIDE DEF stored
<1>3. \/ request'[k] = request[k] /\ ~Accepted(k, stored)
      \/ Fresh(k) /\ request'[k] = stored
  BY DEF stored, TypeOK, Accepted, Refused
<1> QED
  BY <1>2, <1>3 DEF stored, StatusStored, SameStatus

LEMMA StatusGrown ==
    ASSUME TypeOK, NEW k \in Requests, NEW readies, StatusInv(k), MemoryStatus(k),
           pc[k] /= "idle", request'[k] = request[k] \/ StatusStored(k, readies)
    PROVE  Grown(k)
<1>1. CASE request'[k] = request[k]
  BY <1>1, Counts DEF Grown, StatusInv, Followed
<1>2. CASE StatusStored(k, readies) /\ request'[k] /= request[k]
  BY <1>2, Counts
     DEF Grown, StatusInv, MemoryStatus, StatusStored, Touched, Fresh
<1> QED
  BY <1>1, <1>2

\* What stays Ready, or becomes it, has a reference and no seed.
LEMMA GrownStatus ==
    ASSUME TypeOK, TypeOK', NEW k \in Requests, StatusInv(k), Grown(k),
           cached'[k] = cached[k],
           request'[k].exists /\ request'[k].ready \in ReadyReasons =>
                /\ request'[k].finalizer
                /\ ~request'[k].seed
                /\ request'[k].connectionReference /= None
    PROVE  StatusInv(k)'
BY Counts, CountsNext DEF StatusInv, Grown

\* A write of the status that sets Ready=False, or leaves it as it was.
LEMMA StatusReady ==
    ASSUME NEW k \in Requests, StatusInv(k), MemoryStatus(k), pc[k] /= "idle",
           StatusStored(k, {obj[k].ready}) \/ StatusStored(k, {"Failed"})
    PROVE  request'[k].exists /\ request'[k].ready \in ReadyReasons =>
                /\ request'[k].finalizer
                /\ ~request'[k].seed
                /\ request'[k].connectionReference /= None
BY DEF StatusInv, MemoryStatus, StatusStored, SameStatus, Followed, Touched, Fresh,
       ReadyReasons

\* What the reconcile goes on with after the status.
StatusAnswered(k) ==
    /\ StatusStored(k, {obj[k].ready})
    /\ Answered(k)
    /\ obj'[k].generation = request'[k].generation
    /\ SameStatus(obj'[k], request'[k])
    /\ obj'[k].seed = request'[k].seed
    /\ \/ /\ pc[k] = "updateCreateStatus"
          /\ pc'[k] = "getDatabaseInfo"
          /\ obj'[k].connectionReference = obj[k].observedReference
       \/ /\ pc[k] = "updateDropStatus"
          /\ pc'[k] = "deleteService"

StatusLost(k, readies) ==
    /\ pc'[k] = "handleError"
    /\ obj'[k] = obj[k]
    /\ request'[k] = request[k] \/ StatusStored(k, readies)

LEMMA StatusSteps ==
    ASSUME TypeOK, NEW k \in Requests, OrphanInvAt(k),
           UpdateCreateStatus(k) \/ UpdateDropStatus(k)
    PROVE  /\ cached' = cached /\ queue' = queue
           /\ pc[k] \in {"updateCreateStatus", "updateDropStatus"}
           /\ StatusAnswered(k) \/ StatusLost(k, {obj[k].ready})
<1> DEFINE stored == PutStatus(request[k], obj[k])
           answer == Decode(stored, obj[k])
<1>1. /\ cached' = cached /\ queue' = queue
      /\ pc[k] \in {"updateCreateStatus", "updateDropStatus"}
      /\ \/ /\ pc[k] = "updateCreateStatus" /\ Accepted(k, stored)
            /\ obj' = [obj EXCEPT ![k] =
                  [answer EXCEPT !.connectionReference = obj[k].observedReference]]
            /\ Goto(k, "getDatabaseInfo")
         \/ /\ pc[k] = "updateDropStatus" /\ Accepted(k, stored)
            /\ obj' = [obj EXCEPT ![k] = [answer EXCEPT !.connectionReference = None]]
            /\ Goto(k, "deleteService")
         \/ Refused(k, stored) /\ Goto(k, "handleError") /\ UNCHANGED obj
  BY DEF UpdateCreateStatus, UpdateDropStatus, caches
<1>2. request[k] \in Object /\ obj[k] \in Object
  BY ObjectTypes
<1>3. stored \in Object
  BY <1>2, PutStatusType
<1>4. answer \in Object
  BY <1>2, <1>3, DecodeType
<1>5. /\ answer.generation = stored.generation
      /\ answer.seed = stored.seed
      /\ SameStatus(stored, obj[k])
      /\ answer.ready = IF stored.ready = "unset" THEN obj[k].ready ELSE stored.ready
      /\ answer.observedGeneration =
            IF stored.observedGeneration = 0
            THEN obj[k].observedGeneration
            ELSE stored.observedGeneration
  BY <1>2, <1>3, DecodeFields, PutStatusFields
<1>6. SameStatus(answer, stored)
  BY <1>5 DEF SameStatus
<1>7. \/ request'[k] = request[k] /\ ~Accepted(k, stored)
      \/ StatusStored(k, {obj[k].ready})
  BY <1>1, <1>2, StatusWritten
<1> HIDE DEF stored, answer
<1>8. CASE Refused(k, stored) /\ Goto(k, "handleError") /\ UNCHANGED obj
  BY <1>1, <1>7, <1>8 DEF StatusLost, TypeOK, Goto
<1>9. CASE /\ Accepted(k, stored)
           /\ \/ /\ pc[k] = "updateCreateStatus"
                 /\ obj' = [obj EXCEPT ![k] =
                      [answer EXCEPT !.connectionReference = obj[k].observedReference]]
                 /\ Goto(k, "getDatabaseInfo")
              \/ /\ pc[k] = "updateDropStatus"
                 /\ obj' = [obj EXCEPT ![k] = [answer EXCEPT !.connectionReference = None]]
                 /\ Goto(k, "deleteService")
  <2>1. request'[k] = stored /\ StatusStored(k, {obj[k].ready})
    BY <1>7, <1>9 DEF TypeOK, Accepted
  <2>2. \/ /\ pc[k] = "updateCreateStatus" /\ pc'[k] = "getDatabaseInfo"
           /\ obj'[k] = [answer EXCEPT !.connectionReference = obj[k].observedReference]
        \/ /\ pc[k] = "updateDropStatus" /\ pc'[k] = "deleteService"
           /\ obj'[k] = [answer EXCEPT !.connectionReference = None]
    BY <1>9 DEF TypeOK, Goto
  <2>3. /\ obj'[k].generation = answer.generation
        /\ SameStatus(obj'[k], answer)
        /\ obj'[k].seed = answer.seed
    BY <1>4, <2>2 DEF Object, SameStatus
  <2>4. pc[k] = "updateCreateStatus" =>
            obj'[k].connectionReference = obj[k].observedReference
    BY <1>4, <2>2 DEF Object
  <2>5. Answered(k)
    <3>1. pc'[k] \notin Quiet
      BY <2>2, Kinds DEF Serving
    <3> QED
      BY <3>1, StatusMoves DEF Settled
  <2> QED
    BY <1>1, <1>5, <1>6, <2>1, <2>2, <2>3, <2>4, <2>5 DEF StatusAnswered, SameStatus
<1> QED
  BY <1>1, <1>8, <1>9

LEMMA StatusGeneration ==
    ASSUME TypeInv, TypeOK', NEW k \in Requests, OrphanInvAt(k), GenerationInvAt(k),
           UpdateCreateStatus(k) \/ UpdateDropStatus(k)
    PROVE  GenerationInvAt(k)'
<1>0. TypeOK /\ StatusInv(k) /\ CachedSpec(k) /\ MemoryInv(k) /\ MemoryStatus(k)
  BY DEF TypeInv, GenerationInvAt, MemoryInv
<1>1. /\ cached'[k] = cached[k]
      /\ pc[k] \in {"updateCreateStatus", "updateDropStatus"}
      /\ StatusAnswered(k) \/ StatusLost(k, {obj[k].ready})
  BY <1>0, StatusSteps
<1>2. pc[k] /= "idle" /\ (request'[k] = request[k] \/ StatusStored(k, {obj[k].ready}))
  BY <1>1 DEF StatusAnswered, StatusLost
<1>3. Grown(k)
  BY <1>0, <1>2, StatusGrown
<1>4. CachedSpec(k)'
  BY <1>0, <1>1, <1>3, GrownSpec
<1>5. StatusInv(k)'
  BY <1>0, <1>1, <1>2, <1>3, GrownStatus, StatusReady DEF StatusInv
<1>6. CASE StatusLost(k, {obj[k].ready})
  <2>1. MemoryInv(k)'
    BY <1>0, <1>2, <1>3, <1>6, QuietMemory DEF StatusLost, SameStatus, Grown
  <2> QED
    BY <1>4, <1>5, <2>1 DEF GenerationInvAt
<1>7. CASE StatusAnswered(k)
  <2>1. PathInv(k)'
    <3>1. pc[k] = "updateCreateStatus" =>
            ~obj'[k].seed /\ obj'[k].connectionReference /= None
      <4>1. StatusStored(k, {obj[k].ready}) /\ obj'[k].seed = request[k].seed
        BY <1>7 DEF StatusAnswered, StatusStored, Followed
      <4>2. pc[k] = "updateCreateStatus" => obj[k].seed = request[k].seed
        <5>1. obj[k].uid = request[k].uid
          BY <1>1, <4>1, Names, Kinds DEF OrphanInvAt, MemoryVersion, StatusStored, Fresh
        <5> QED
          BY <1>0, <4>1, <5>1, Names
             DEF MemoryInv, MemorySpec, StatusStored, Fresh, Followed, Reading
      <4> QED
        BY <1>0, <1>7, <4>1, <4>2, Kinds
           DEF MemoryInv, PathInv, StatusAnswered, TypeInv, WorkerInv
    <3> QED
      BY <1>7, <3>1, Kinds, Names DEF StatusAnswered, PathInv
  <2>2. pc'[k] \in Creating => Agrees(obj'[k], request'[k])
    <3>1. pc'[k] \in Creating => pc[k] = "updateCreateStatus"
      BY <1>7, Kinds DEF StatusAnswered
    <3>2. pc[k] = "updateCreateStatus" =>
            /\ obj[k].connectionReference = None
            /\ obj[k].connectionReference = request[k].connectionReference
      BY <1>0, <1>7, Names
         DEF OrphanInvAt, MemoryVersion, MemoryInv, MemorySpec, PathInv, StatusAnswered,
             StatusStored, Fresh, Followed, Reading
    <3> QED
      BY <1>7, <3>1, <3>2 DEF StatusAnswered, StatusStored, Followed, Agrees
  <2>3. MemoryInv(k)'
    BY <1>0, <1>7, <2>1, <2>2, AnswerMemory DEF StatusAnswered, Answered, SameStatus,
       Reading
  <2> QED
    BY <1>4, <1>5, <2>3 DEF GenerationInvAt
<1> QED
  BY <1>1, <1>6, <1>7

\* The end of a reconcile: UpdateStatus, when it has anything to write ...
LEMMA UpdateStatusStep ==
    ASSUME TypeOK, NEW k \in Requests, UpdateStatus(k)
    PROVE  /\ cached' = cached /\ queue' = queue
           /\ pc[k] = "updateStatus"
           /\ \/ StatusLost(k, ReadyReasons)
              \/ /\ pc'[k] = "idle"
                 /\ \/ request'[k] = request[k] /\ obj[k].ready \in ReadyReasons
                    \/ StatusStored(k, ReadyReasons)
<1> DEFINE new == [obj[k] EXCEPT !.ready = IF changed[k] THEN "Changed" ELSE "Created"]
           stored == PutStatus(request[k], new)
<1>1. obj[k] \in Object
  BY ObjectTypes
<1>2. "Changed" \in ReadyReasons /\ "Created" \in ReadyReasons
  BY DEF ReadyReasons
<1>3. /\ new \in Object
      /\ new.observedGeneration = obj[k].observedGeneration
      /\ new.ready \in ReadyReasons
  BY <1>1, <1>2 DEF Object
<1>4. /\ cached' = cached /\ pc[k] = "updateStatus"
      /\ \/ new.ready = obj[k].ready /\ Idle(k) /\ UNCHANGED <<request, queue>>
         \/ Accepted(k, stored) /\ Idle(k) /\ UNCHANGED queue
         \/ Refused(k, stored) /\ Goto(k, "handleError") /\ UNCHANGED <<obj, queue>>
  BY DEF UpdateStatus, Done, caches
<1> HIDE DEF new
<1>5. Accepted(k, stored) \/ Refused(k, stored) =>
        \/ request'[k] = request[k] /\ ~Accepted(k, stored)
        \/ StatusStored(k, {new.ready})
  BY <1>3, StatusWritten
<1>6. StatusStored(k, {new.ready}) => StatusStored(k, ReadyReasons)
  BY <1>3 DEF StatusStored
<1> HIDE DEF stored
<1> QED
  BY <1>3, <1>4, <1>5, <1>6 DEF StatusLost, TypeOK, Idle, Goto

\* ... and handleError, which queues the request unless its seed is invalid.
LEMMA HandleErrorStep ==
    ASSUME TypeOK, NEW k \in Requests, HandleError(k)
    PROVE  /\ cached' = cached
           /\ \/ pc[k] = "handleError" /\ queue' = queue \cup {k}
              \/ pc[k] = "ignoreError" /\ queue' = queue
           /\ pc'[k] = "idle"
           /\ request'[k] = request[k] \/ StatusStored(k, {"Failed"})
<1> DEFINE new == [obj[k] EXCEPT !.ready = "Failed"]
           stored == PutStatus(request[k], new)
<1>1. obj[k] \in Object
  BY ObjectTypes
<1>2. /\ new \in Object
      /\ new.observedGeneration = obj[k].observedGeneration
      /\ new.ready = "Failed"
  BY <1>1 DEF Object
<1>3. /\ cached' = cached
      /\ pc[k] \in Failing
      /\ Accepted(k, stored) \/ Refused(k, stored)
      /\ Idle(k)
      /\ IF pc[k] = "handleError" THEN queue' = queue \cup {k} ELSE queue' = queue
  BY DEF HandleError, Done, Requeue, caches
<1> HIDE DEF new
<1>4. request'[k] = request[k] \/ StatusStored(k, {"Failed"})
  BY <1>2, <1>3, StatusWritten
<1> QED
  BY <1>3, <1>4 DEF TypeOK, Idle, Goto, Failing

LEMMA ReturnGeneration ==
    ASSUME TypeInv, TypeOK', NEW k \in Requests, OrphanInvAt(k), GenerationInvAt(k),
           UpdateStatus(k) \/ HandleError(k) \/ Panic(k)
    PROVE  GenerationInvAt(k)'
<1>0. TypeOK /\ StatusInv(k) /\ CachedSpec(k) /\ MemoryInv(k) /\ MemoryStatus(k)
  BY DEF TypeInv, GenerationInvAt, MemoryInv
<1>1. CASE Panic(k)
  <2>1. /\ pc'[k] = "idle"
        /\ request'[k] = request[k] /\ cached'[k] = cached[k]
    BY <1>0, <1>1 DEF Panic, Requeue, Idle, Goto, TypeOK, store, caches
  <2>2. MemoryInv(k)'
    BY <1>0, <2>1, QuietMemory
  <2> QED
    BY <1>0, <2>1, <2>2 DEF GenerationInvAt, StatusInv, CachedSpec
<1>2. CASE UpdateStatus(k) \/ HandleError(k)
  <2>1. /\ cached'[k] = cached[k]
        /\ pc[k] /= "idle"
        /\ pc'[k] = "idle" \/ (pc'[k] = "handleError" /\ obj'[k] = obj[k])
        /\ \/ request'[k] = request[k]
           \/ StatusStored(k, {"Failed"})
           \/ StatusStored(k, ReadyReasons) /\ pc[k] = "updateStatus"
    BY <1>0, <1>2, UpdateStatusStep, HandleErrorStep DEF StatusLost
  <2>2. Grown(k)
    BY <1>0, <2>1, StatusGrown
  <2>3. CachedSpec(k)'
    BY <1>0, <2>1, <2>2, GrownSpec
  <2>4. request'[k].exists /\ request'[k].ready \in ReadyReasons =>
            /\ request'[k].finalizer
            /\ ~request'[k].seed
            /\ request'[k].connectionReference /= None
    <3>1. CASE request'[k] = request[k]
      BY <1>0, <3>1 DEF StatusInv
    <3>2. CASE StatusStored(k, {"Failed"})
      BY <1>0, <2>1, <3>2, StatusReady
    <3>3. CASE StatusStored(k, ReadyReasons) /\ pc[k] = "updateStatus"
      <4>1. request[k].exists /\ obj[k].uid = request[k].uid /\ request[k].finalizer
        BY <3>3, Kinds DEF StatusStored, Fresh, OrphanInvAt, MemoryVersion, CreatingInv, Serving
      <4>2. ~request[k].seed /\ request[k].connectionReference /= None
        BY <1>0, <3>3, <4>1, Names DEF MemoryInv, MemorySpec
      <4> QED
        BY <3>3, <4>1, <4>2 DEF StatusStored, Followed
    <3> QED
      BY <2>1, <3>1, <3>2, <3>3
  <2>5. StatusInv(k)'
    BY <1>0, <2>1, <2>2, <2>4, GrownStatus
  <2>6. MemoryInv(k)'
    BY <1>0, <2>1, <2>2, QuietMemory DEF Grown, SameStatus
  <2> QED
    BY <2>3, <2>5, <2>6 DEF GenerationInvAt
<1> QED
  BY <1>1, <1>2

\* An object that has been written, with the finalizer and the spec in memory,
\* over the version that was read.
ObjectStored(k) ==
    /\ Fresh(k)
    /\ Touched(request[k], request'[k])
    /\ request'[k].finalizer
    /\ request'[k].dropDatabaseOnDelete
    /\ Followed(request'[k], obj[k])
    /\ SameStatus(request'[k], request[k])
    /\ \/ /\ request'[k].generation = request[k].generation
          /\ Followed(request'[k], request[k])
       \/ request'[k].generation = request[k].generation + 1

LEMMA ObjectWritten ==
    ASSUME TypeOK, NEW k \in Requests, NEW new \in Object, new.finalizer,
           Followed(new, obj[k]),
           \/ Accepted(k, PutObject(request[k], new))
           \/ Refused(k, PutObject(request[k], new))
    PROVE  \/ request'[k] = request[k] /\ ~Accepted(k, PutObject(request[k], new))
           \/ ObjectStored(k) /\ request'[k] = PutObject(request[k], new)
<1> DEFINE stored == PutObject(request[k], new)
<1>1. request[k] \in Object
  BY ObjectTypes
<1>2. /\ Touched(request[k], stored)
      /\ stored.finalizer
      /\ stored.dropDatabaseOnDelete
      /\ Followed(stored, new)
      /\ SameStatus(stored, request[k])
      /\ \/ /\ stored.generation = request[k].generation
            /\ Followed(stored, request[k])
         \/ stored.generation = request[k].generation + 1
  BY <1>1, PutObjectMetadata, PutObjectFields
<1> HIDE DEF stored
<1>3. \/ request'[k] = request[k] /\ ~Accepted(k, stored)
      \/ Fresh(k) /\ request'[k] = stored
  BY DEF stored, TypeOK, Accepted, Refused
<1> QED
  BY <1>2, <1>3 DEF stored, ObjectStored, Followed

\* The object in memory after the answer, but for what was observed.
Answer(k, o) ==
    /\ o.exists = request'[k].exists
    /\ o.uid = request'[k].uid
    /\ o.deleting = request'[k].deleting
    /\ o.type = request'[k].type
    /\ o.resourceVersion = request'[k].resourceVersion
    /\ o.generation = request'[k].generation
    /\ o.finalizer = request'[k].finalizer
    /\ o.ready = request'[k].ready
    /\ o.dropDatabaseOnDelete
    /\ Followed(o, request'[k])

LEMMA ObjectAnswered ==
    ASSUME TypeOK, NEW k \in Requests, MemoryStatus(k), pc[k] /= "idle",
           NEW new \in Object, new.finalizer, Followed(new, obj[k]),
           new.ready = obj[k].ready, ObjectStored(k),
           request'[k] = PutObject(request[k], new)
    PROVE  /\ Decode(request'[k], new) \in Object
           /\ Answer(k, Decode(request'[k], new))
           /\ Decode(request'[k], new).observedGeneration =
                IF request[k].observedGeneration = 0
                THEN new.observedGeneration
                ELSE request[k].observedGeneration
<1> DEFINE stored == request'[k]
           answer == Decode(stored, new)
<1>1. stored \in Object
  BY ObjectTypes, PutObjectType
<1>2. answer \in Object
  BY <1>1, DecodeType
<1>3. /\ answer.exists = stored.exists
      /\ answer.uid = stored.uid
      /\ answer.type = stored.type
      /\ answer.deleting = stored.deleting
      /\ answer.finalizer = stored.finalizer
      /\ answer.resourceVersion = stored.resourceVersion
      /\ answer.generation = stored.generation
      /\ answer.seed = stored.seed
      /\ answer.dropDatabaseOnDelete = stored.dropDatabaseOnDelete
      /\ answer.connectionReference =
            IF stored.connectionReference = None
            THEN new.connectionReference
            ELSE stored.connectionReference
      /\ answer.ready = IF stored.ready = "unset" THEN new.ready ELSE stored.ready
      /\ answer.observedGeneration =
            IF stored.observedGeneration = 0
            THEN new.observedGeneration
            ELSE stored.observedGeneration
  BY <1>1, DecodeMetadata, DecodeFields
<1> HIDE DEF answer
<1>4. stored.ready = new.ready /\ stored.connectionReference = new.connectionReference
  BY DEF ObjectStored, MemoryStatus, Fresh, SameStatus, Followed
<1>5. stored.observedGeneration = request[k].observedGeneration
  BY DEF ObjectStored, SameStatus
<1>6. Answer(k, answer)
  BY <1>3, <1>4 DEF Answer, Followed, ObjectStored
<1> QED
  BY <1>2, <1>3, <1>5, <1>6 DEF answer

LEMMA ObjectGrown ==
    ASSUME TypeOK, TypeOK', NEW k \in Requests, StatusInv(k),
           request'[k] = request[k] \/ ObjectStored(k)
    PROVE  Grown(k)
<1>1. CASE request'[k] = request[k]
  BY <1>1, Counts DEF Grown, StatusInv, Followed
<1>2. CASE ObjectStored(k)
  <2>1. /\ request[k].generation <= request'[k].generation
        /\ request'[k].generation = request[k].generation => Followed(request'[k], request[k])
    BY <1>2, Counts, CountsNext DEF ObjectStored
  <2>2. request'[k].observedGeneration = request[k].observedGeneration
    BY <1>2 DEF ObjectStored, SameStatus
  <2> QED
    BY <1>2, <2>1, <2>2, Counts, CountsNext DEF Grown, StatusInv, ObjectStored, Touched
<1> QED
  BY <1>1, <1>2

\* AddFinalizer goes on with the answer ...
LEMMA AddFinalizerStep ==
    ASSUME TypeOK, NEW k \in Requests, MemoryStatus(k), AddFinalizer(k)
    PROVE  /\ cached' = cached /\ queue' = queue
           /\ pc[k] = "addFinalizer"
           /\ \/ /\ pc'[k] = "handleError"
                 /\ request'[k] = request[k] \/ ObjectStored(k)
                 /\ obj'[k].resourceVersion = obj[k].resourceVersion
                 /\ obj'[k].uid = obj[k].uid
                 /\ SameStatus(obj'[k], obj[k])
                 /\ Followed(obj'[k], obj[k])
              \/ /\ ObjectStored(k)
                 /\ \E answer \in Object :
                        /\ Answer(k, answer)
                        /\ SameStatus(answer, request'[k])
                        /\ pc'[k] = CreateStep(answer)
                        /\ pc'[k] /= "idle" => obj'[k] = answer
<1> DEFINE new == [obj[k] EXCEPT !.finalizer = TRUE]
           stored == PutObject(request[k], new)
           answer == Decode(stored, new)
<1>0. obj[k] \in Object
  BY ObjectTypes
<1>1. /\ pc[k] = "addFinalizer"
      /\ cached' = cached /\ queue' = queue
      /\ \/ Accepted(k, stored) /\ Start(k, answer, CreateStep(answer))
         \/ Refused(k, stored) /\ Goto(k, "handleError") /\ obj' = [obj EXCEPT ![k] = new]
  BY DEF AddFinalizer, caches
<1>2. /\ new \in Object
      /\ new.finalizer
      /\ new.resourceVersion = obj[k].resourceVersion
      /\ new.uid = obj[k].uid
      /\ SameStatus(new, obj[k])
      /\ Followed(new, obj[k])
  BY <1>0 DEF Object, SameStatus, Followed
<1> HIDE DEF new
<1>3. Accepted(k, stored) \/ Refused(k, stored) =>
        \/ request'[k] = request[k] /\ ~Accepted(k, stored)
        \/ ObjectStored(k) /\ request'[k] = stored
  BY <1>2, ObjectWritten
<1>4. CASE Accepted(k, stored) /\ Start(k, answer, CreateStep(answer))
  <2>1. ObjectStored(k) /\ request'[k] = stored
    BY <1>3, <1>4
  <2>2. new.ready = obj[k].ready
    BY <1>2 DEF SameStatus
  <2>3. /\ Decode(request'[k], new) \in Object
        /\ Answer(k, Decode(request'[k], new))
        /\ Decode(request'[k], new).observedGeneration =
                IF request[k].observedGeneration = 0
                THEN new.observedGeneration
                ELSE request[k].observedGeneration
    BY <1>1, <1>2, <2>1, <2>2, ObjectAnswered
  <2>4. answer = Decode(request'[k], new)
    BY <2>1
  <2> HIDE DEF answer, stored
  <2>5. answer \in Object /\ Answer(k, answer)
    BY <2>3, <2>4
  <2>6. /\ answer.observedGeneration =
                IF request[k].observedGeneration = 0
                THEN obj[k].observedGeneration
                ELSE request[k].observedGeneration
        /\ obj[k].observedGeneration = request[k].observedGeneration
    BY <1>1, <1>2, <2>1, <2>3, <2>4 DEF SameStatus, MemoryStatus, ObjectStored, Fresh
  <2>7. SameStatus(answer, request'[k])
    BY <2>1, <2>5, <2>6 DEF Answer, SameStatus, ObjectStored
  <2>8. pc'[k] = CreateStep(answer) /\ (pc'[k] /= "idle" => obj'[k] = answer)
    BY <1>4 DEF Start, Idle, Goto, TypeOK
  <2> QED
    BY <1>1, <2>1, <2>5, <2>7, <2>8
<1>5. CASE Refused(k, stored) /\ Goto(k, "handleError") /\ obj' = [obj EXCEPT ![k] = new]
  <2>1. request'[k] = request[k] \/ ObjectStored(k)
    BY <1>3, <1>5
  <2>2. pc'[k] = "handleError" /\ obj'[k] = new
    BY <1>5 DEF Goto, TypeOK
  <2> QED
    BY <1>1, <1>2, <2>1, <2>2
<1> QED
  BY <1>1, <1>4, <1>5

\* ... and so does UpdateRequest, which sets what is observed unless the answer
\* has it.
LEMMA UpdateRequestStep ==
    ASSUME TypeOK, NEW k \in Requests, OrphanInvAt(k), MemoryStatus(k), UpdateRequest(k)
    PROVE  /\ cached' = cached
           /\ pc[k] = "updateRequest"
           /\ \/ /\ pc'[k] = "idle" /\ queue' = queue \cup {k}
                 /\ request'[k] = request[k] \/ ObjectStored(k)
              \/ /\ pc'[k] = "updateStatus" /\ queue' = queue
                 /\ ObjectStored(k)
                 /\ Answer(k, obj'[k])
                 /\ obj'[k].observedGeneration =
                        IF request[k].observedGeneration = 0
                        THEN obj[k].generation
                        ELSE request[k].observedGeneration
<1> DEFINE new == [obj[k] EXCEPT !.observedGeneration = obj[k].generation]
           stored == PutObject(request[k], new)
           answer == Decode(stored, new)
<1>0. obj[k] \in Object /\ obj[k].generation \in Nat
  BY ObjectTypes, Counts
<1>1. /\ pc[k] = "updateRequest"
      /\ cached' = cached
      /\ \/ /\ Accepted(k, stored)
            /\ obj' = [obj EXCEPT ![k] = answer]
            /\ Goto(k, "updateStatus")
            /\ UNCHANGED queue
         \/ Refused(k, stored) /\ Idle(k) /\ queue' = queue \cup {k}
  BY DEF UpdateRequest, Requeue, caches
<1>2. obj[k].finalizer
  BY <1>1, Kinds DEF OrphanInvAt, CreatingInv, Serving
<1>3. /\ new \in Object
      /\ new.finalizer
      /\ new.ready = obj[k].ready
      /\ new.observedGeneration = obj[k].generation
      /\ Followed(new, obj[k])
  BY <1>0, <1>2 DEF Object, Followed
<1> HIDE DEF new
<1>4. Accepted(k, stored) \/ Refused(k, stored) =>
        \/ request'[k] = request[k] /\ ~Accepted(k, stored)
        \/ ObjectStored(k) /\ request'[k] = stored
  BY <1>3, ObjectWritten
<1>5. CASE /\ Accepted(k, stored)
           /\ obj' = [obj EXCEPT ![k] = answer]
           /\ Goto(k, "updateStatus")
           /\ UNCHANGED queue
  <2>1. ObjectStored(k) /\ request'[k] = stored
    BY <1>4, <1>5
  <2>2. /\ Answer(k, Decode(request'[k], new))
        /\ Decode(request'[k], new).observedGeneration =
                IF request[k].observedGeneration = 0
                THEN new.observedGeneration
                ELSE request[k].observedGeneration
    BY <1>1, <1>3, <2>1, ObjectAnswered
  <2>3. obj'[k] = Decode(request'[k], new) /\ pc'[k] = "updateStatus"
    BY <1>5, <2>1 DEF Goto, TypeOK
  <2> QED
    BY <1>1, <1>3, <1>5, <2>1, <2>2, <2>3
<1>6. CASE Refused(k, stored) /\ Idle(k) /\ queue' = queue \cup {k}
  BY <1>1, <1>4, <1>6 DEF Idle, Goto, TypeOK
<1> QED
  BY <1>1, <1>5, <1>6

\* Where CreateStep goes, by the object.
LEMMA CreatePath ==
    ASSUME NEW o \in Object
    PROVE  /\ CreateStep(o) = "handleSeed" => o.seed
           /\ CreateStep(o) = "createDatabase" => ~o.seed /\ o.connectionReference = None
           /\ CreateStep(o) = "getDatabaseInfo" => ~o.seed /\ o.connectionReference /= None
           /\ CreateStep(o) = "idle" <=>
                o.ready \in ReadyReasons /\ o.observedGeneration >= o.generation
BY DEF CreateStep

LEMMA AddFinalizerGeneration ==
    ASSUME TypeInv, TypeOK', NEW k \in Requests, OrphanInvAt(k), GenerationInvAt(k),
           AddFinalizer(k)
    PROVE  GenerationInvAt(k)'
<1>0. TypeOK /\ StatusInv(k) /\ CachedSpec(k) /\ MemoryInv(k) /\ MemoryStatus(k)
  BY DEF TypeInv, GenerationInvAt, MemoryInv
<1>1. /\ cached'[k] = cached[k]
      /\ pc[k] = "addFinalizer"
      /\ request'[k] = request[k] \/ ObjectStored(k)
  BY <1>0, AddFinalizerStep
<1>2. Grown(k)
  BY <1>0, <1>1, ObjectGrown
<1>3. CachedSpec(k)'
  BY <1>0, <1>1, <1>2, GrownSpec
<1>4. ObjectStored(k) => Followed(request'[k], request[k])
  <2>1. ObjectStored(k) => obj[k].uid = request[k].uid
    BY <1>1, Kinds DEF OrphanInvAt, MemoryVersion, ObjectStored, Fresh
  <2> QED
    BY <1>0, <1>1, <2>1, Names
       DEF MemoryInv, MemorySpec, ObjectStored, Fresh, Followed, Reading
<1>5. StatusInv(k)'
  <2>1. request'[k].exists /\ request'[k].ready \in ReadyReasons =>
            /\ request'[k].finalizer
            /\ ~request'[k].seed
            /\ request'[k].connectionReference /= None
    BY <1>0, <1>1, <1>2, <1>4
       DEF StatusInv, Grown, ObjectStored, SameStatus, Followed
  <2> QED
    BY <1>0, <1>1, <1>2, <2>1, GrownStatus
<1>6. CASE /\ pc'[k] = "handleError"
           /\ obj'[k].resourceVersion = obj[k].resourceVersion
           /\ SameStatus(obj'[k], obj[k])
  <2>1. MemoryInv(k)'
    BY <1>0, <1>1, <1>2, <1>6, Names, QuietMemory DEF Grown
  <2> QED
    BY <1>3, <1>5, <2>1 DEF GenerationInvAt
<1>7. ASSUME NEW answer \in Object, Answer(k, answer), SameStatus(answer, request'[k]),
             pc'[k] = CreateStep(answer), pc'[k] /= "idle" => obj'[k] = answer
      PROVE  GenerationInvAt(k)'
  <2>1. CASE pc'[k] = "idle"
    <3>1. MemoryInv(k)'
      BY <1>0, <1>2, <2>1, QuietMemory DEF Grown
    <3> QED
      BY <1>3, <1>5, <3>1 DEF GenerationInvAt
  <2>2. CASE pc'[k] /= "idle"
    <3>1. obj'[k] = answer /\ pc'[k] \in {"handleSeed", "createDatabase", "getDatabaseInfo"}
      BY <1>7, <2>2, CreateStepKinds
    <3>2. PathInv(k)'
      BY <1>7, <3>1, CreatePath DEF PathInv
    <3>3. MemoryInv(k)'
      BY <1>0, <1>7, <3>1, <3>2, AnswerMemory DEF Answer, SameStatus, Agrees, Followed
    <3> QED
      BY <1>3, <1>5, <3>3 DEF GenerationInvAt
  <2> QED
    BY <2>1, <2>2
<1> QED
  BY <1>0, <1>6, <1>7, AddFinalizerStep

LEMMA UpdateRequestGeneration ==
    ASSUME TypeInv, TypeOK', NEW k \in Requests, OrphanInvAt(k), GenerationInvAt(k),
           UpdateRequest(k)
    PROVE  GenerationInvAt(k)'
<1>0. TypeOK /\ StatusInv(k) /\ CachedSpec(k) /\ MemoryInv(k) /\ MemoryStatus(k)
  BY DEF TypeInv, GenerationInvAt, MemoryInv
<1>1. /\ cached'[k] = cached[k]
      /\ pc[k] = "updateRequest"
      /\ request'[k] = request[k] \/ ObjectStored(k)
  BY <1>0, UpdateRequestStep
<1>2. Grown(k)
  BY <1>0, <1>1, ObjectGrown
<1>3. CachedSpec(k)'
  BY <1>0, <1>1, <1>2, GrownSpec
<1>4. ObjectStored(k) => ~request'[k].seed /\ request'[k].connectionReference /= None
  BY <1>0, <1>1 DEF MemoryInv, PathInv, ObjectStored, Followed
<1>5. StatusInv(k)'
  <2>1. request'[k].exists /\ request'[k].ready \in ReadyReasons =>
            /\ request'[k].finalizer
            /\ ~request'[k].seed
            /\ request'[k].connectionReference /= None
    BY <1>0, <1>1, <1>2, <1>4
       DEF StatusInv, Grown, ObjectStored, SameStatus, Followed
  <2> QED
    BY <1>0, <1>1, <1>2, <2>1, GrownStatus
<1>6. CASE pc'[k] = "idle"
  <2>1. MemoryInv(k)'
    BY <1>0, <1>2, <1>6, QuietMemory DEF Grown
  <2> QED
    BY <1>3, <1>5, <2>1 DEF GenerationInvAt
<1>7. CASE /\ pc'[k] = "updateStatus" /\ ObjectStored(k) /\ Answer(k, obj'[k])
           /\ obj'[k].observedGeneration =
                    IF request[k].observedGeneration = 0
                    THEN obj[k].generation
                    ELSE request[k].observedGeneration
  <2>1. obj[k].generation <= request'[k].generation
    <3>1. obj[k].uid = request[k].uid
      BY <1>1, <1>7, Kinds DEF OrphanInvAt, MemoryVersion, ObjectStored, Fresh, Serving
    <3>2. obj[k].generation <= request[k].generation
      BY <1>0, <1>1, <1>7, <3>1, Names DEF MemoryInv, MemorySpec, ObjectStored, Fresh
    <3> QED
      BY <1>0, <1>2, <3>2, Counts, CountsNext DEF Grown
  <2>2. request'[k].observedGeneration = request[k].observedGeneration
    BY <1>7 DEF ObjectStored, SameStatus
  <2>3. PathInv(k)'
    BY <1>7 DEF PathInv
  <2>4. MemoryInv(k)'
    BY <1>0, <1>4, <1>7, <2>1, <2>2, <2>3, AnswerMemory DEF Answer, Reading
  <2> QED
    BY <1>3, <1>5, <2>4 DEF GenerationInvAt
<1> QED
  BY <1>0, <1>6, <1>7, UpdateRequestStep

\* The finalizer goes with the object, or the write is lost.
LEMMA RemoveFinalizerStep ==
    ASSUME TypeOK, NEW k \in Requests, OrphanInvAt(k), RemoveFinalizer(k)
    PROVE  /\ cached' = cached /\ queue' = queue
           /\ pc[k] = "removeFinalizer"
           /\ request'[k] = request[k] \/ (Fresh(k) /\ Gone(request[k], request'[k]))
           /\ \/ pc'[k] = "idle"
              \/ /\ pc'[k] = "handleError"
                 /\ obj'[k].resourceVersion = obj[k].resourceVersion
                 /\ SameStatus(obj'[k], obj[k])
                 /\ Followed(obj'[k], obj[k])
                 /\ obj'[k].generation = obj[k].generation
<1> DEFINE new == [obj[k] EXCEPT !.finalizer = FALSE]
           stored == PutObject(request[k], new)
<1>1. /\ pc[k] = "removeFinalizer"
      /\ cached' = cached /\ queue' = queue
      /\ Accepted(k, stored) \/ Refused(k, stored)
      /\ Idle(k) \/ (Goto(k, "handleError") /\ obj' = [obj EXCEPT ![k] = new])
  BY DEF RemoveFinalizer, Done, caches
<1>2. request[k] \in Object /\ obj[k] \in Object
  BY ObjectTypes
<1>3. /\ new \in Object /\ ~new.finalizer
      /\ new.resourceVersion = obj[k].resourceVersion
      /\ SameStatus(new, obj[k]) /\ Followed(new, obj[k])
      /\ new.generation = obj[k].generation
  BY <1>2 DEF Object, SameStatus, Followed
<1>4. request[k].deleting => Gone(request[k], stored)
  BY <1>2, <1>3, PutObjectMetadata
<1> HIDE DEF new, stored
<1>5. request'[k] = request[k] \/ (Fresh(k) /\ Gone(request[k], request'[k]))
  <2>1. request'[k] = request[k] \/ (Fresh(k) /\ request'[k] = stored)
    BY <1>1 DEF TypeOK, Accepted, Refused
  <2>2. Fresh(k) => request[k].deleting
    BY <1>1, Kinds DEF OrphanInvAt, MemoryVersion, DeletingInv, Fresh
  <2> QED
    BY <1>4, <2>1, <2>2
<1> QED
  BY <1>1, <1>3, <1>5 DEF TypeOK, Idle, Goto

\* An object that has gone leaves nothing to say of it.
LEMMA GoneGeneration ==
    ASSUME TypeOK, TypeOK', NEW k \in Requests, OrphanInvAt(k), GenerationInvAt(k),
           Gone(request[k], request'[k]), cached'[k] = cached[k],
           MemoryInv(k)'
    PROVE  GenerationInvAt(k)'
BY DEF GenerationInvAt, StatusInv, CachedSpec, Gone

LEMMA RemoveFinalizerGeneration ==
    ASSUME TypeOK, TypeOK', NEW k \in Requests, OrphanInvAt(k), GenerationInvAt(k),
           RemoveFinalizer(k)
    PROVE  GenerationInvAt(k)'
<1>1. /\ cached'[k] = cached[k] /\ pc[k] = "removeFinalizer"
      /\ request'[k] = request[k] \/ Gone(request[k], request'[k])
  BY RemoveFinalizerStep
<1>2. MemoryInv(k)'
  BY <1>1, RemoveFinalizerStep, QuietMemory DEF GenerationInvAt, MemoryInv, Gone
<1> QED
  BY <1>1, <1>2, GoneGeneration DEF GenerationInvAt, StatusInv, CachedSpec

LEMMA StepGeneration ==
    ASSUME TypeInv, TypeOK', NEW k \in Requests, OrphanInvAt(k), GenerationInvAt(k),
           Step(k)
    PROVE  GenerationInvAt(k)'
<1>0. TypeOK
  BY DEF TypeInv
<1>1. CASE \/ HandleSeed(k) \/ SetDatabaseInfo(k) \/ DeleteSeedSecret(k)
           \/ CreateDatabase(k) \/ GetDatabaseInfo(k) \/ HandleService(k)
           \/ HandleSecret(k) \/ DropDatabase(k) \/ DeleteService(k) \/ DeleteSecret(k)
  <2>1. request'[k] = request[k] /\ cached'[k] = cached[k]
    BY <1>0, <1>1, CallLocal DEF Local
  <2>2. MemoryInv(k)'
    BY <1>1, CallGeneration DEF GenerationInvAt
  <2> QED
    BY <2>1, <2>2 DEF GenerationInvAt, StatusInv, CachedSpec
<1> QED
  BY <1>0, <1>1, AddFinalizerGeneration, StatusGeneration, UpdateRequestGeneration,
     ReturnGeneration, RemoveFinalizerGeneration DEF Step

\* A reconcile starts from the cache.
LEMMA ReconcileStep ==
    ASSUME TypeOK, NEW k \in Requests, Reconcile(k)
    PROVE  /\ request' = request /\ cached' = cached
           /\ pc[k] = "idle" /\ k \in queue
           /\ queue' = queue \ {k}
           /\ pc'[k] = FirstStep(cached[k])
           /\ pc'[k] /= "idle" => obj'[k] = cached[k]
BY DEF Reconcile, Start, Idle, Goto, TypeOK, store, caches

LEMMA FirstPath ==
    ASSUME NEW o \in Object
    PROVE  /\ FirstStep(o) \in {"idle", "addFinalizer", "handleSeed", "createDatabase",
                                "getDatabaseInfo", "dropDatabase", "deleteService"}
           /\ FirstStep(o) \in {"handleSeed", "createDatabase", "getDatabaseInfo"} =>
                FirstStep(o) = CreateStep(o) /\ o.exists /\ o.finalizer /\ ~o.deleting
BY CreateStepKinds DEF FirstStep, DeleteStep

LEMMA ReconcileGeneration ==
    ASSUME TypeOK, TypeOK', NEW k \in Requests, OrphanInvAt(k), GenerationInvAt(k),
           Reconcile(k)
    PROVE  GenerationInvAt(k)'
<1>1. /\ request'[k] = request[k] /\ cached'[k] = cached[k]
      /\ pc'[k] = FirstStep(cached[k])
      /\ pc'[k] /= "idle" => obj'[k] = cached[k]
  BY ReconcileStep
<1>2. StatusInv(k)' /\ CachedSpec(k)'
  BY <1>1 DEF GenerationInvAt, StatusInv, CachedSpec
<1>3. CASE pc'[k] = "idle"
  BY <1>1, <1>2, <1>3, Names DEF GenerationInvAt, MemoryInv, MemorySpec, MemoryStatus,
     PathInv
<1>4. CASE pc'[k] /= "idle"
  <2>0. cached[k] \in Object
    BY ObjectTypes
  <2>1. /\ obj'[k] = cached[k]
        /\ cached[k].resourceVersion <= request[k].resourceVersion
        /\ cached[k].resourceVersion = request[k].resourceVersion => cached[k] = request[k]
    BY <1>1, <1>4 DEF OrphanInvAt, CacheInv
  <2>2. PathInv(k)'
    BY <1>1, <2>0, <2>1, CreatePath, FirstPath DEF PathInv
  <2>3. MemoryStatus(k)'
    BY <1>1, <2>1 DEF MemoryStatus
  <2>4. pc'[k] /= "updateStatus"
    BY <1>1, <2>0, FirstPath
  <2>5. MemorySpec(k)'
    BY <1>1, <2>1, <2>4, Counts DEF GenerationInvAt, CachedSpec, MemorySpec, Agrees, Followed
  <2> QED
    BY <1>2, <2>2, <2>3, <2>5 DEF GenerationInvAt, MemoryInv
<1> QED
  BY <1>3, <1>4

\* What users do: a new object, no object, or a new generation of the one there
\* is, which keeps the reference once it has one.
Begun(k) ==
    /\ ~request[k].exists
    /\ request'[k].exists
    /\ request'[k].uid = request[k].resourceVersion + 1
    /\ request'[k].resourceVersion = request[k].resourceVersion + 1
    /\ request'[k].generation = 1
    /\ request'[k].observedGeneration = 0
    /\ request'[k].ready = "unset"
    /\ ~request'[k].finalizer /\ ~request'[k].deleting
    /\ \E spec \in Specs :
        /\ request'[k].type = spec.type
        /\ request'[k].connectionReference = spec.reference

Changed(k) ==
    /\ request[k].exists /\ request'[k].exists
    /\ request'[k].uid = request[k].uid
    /\ request'[k].type = request[k].type
    /\ request'[k].finalizer = request[k].finalizer
    /\ request'[k].resourceVersion = request[k].resourceVersion + 1
    /\ request'[k].generation = request[k].generation + 1
    /\ SameStatus(request'[k], request[k])
    /\ request'[k].seed = request[k].seed
    /\ request'[k].dropDatabaseOnDelete = request[k].dropDatabaseOnDelete
    /\ request'[k].connectionReference \in {request[k].connectionReference} \cup Connections
    /\ request'[k].connectionReference /= request[k].connectionReference =>
        "reference" \in Edits
    /\ request[k].deleting => request'[k].deleting
    /\ request'[k].deleting => request[k].deleting \/ request[k].finalizer

LEMMA EditSpec ==
    ASSUME TypeOK, NEW k \in Requests,
           ForceReconcile(k) \/ \E n \in Connections : ChangeReference(k, n)
    PROVE  /\ request[k].exists
           /\ request'[k].generation = request[k].generation + 1
           /\ SameStatus(request'[k], request[k])
           /\ request'[k].seed = request[k].seed
           /\ request'[k].dropDatabaseOnDelete = request[k].dropDatabaseOnDelete
           /\ request'[k].connectionReference \in {request[k].connectionReference} \cup Connections
           /\ request'[k].connectionReference /= request[k].connectionReference =>
                "reference" \in Edits
<1>1. request[k] \in Object
  BY ObjectTypes
<1>2. CASE ForceReconcile(k)
  <2>1. request[k].exists /\ request'[k] = Edited(request[k])
    BY <1>2 DEF ForceReconcile, Edit, TypeOK
  <2> QED
    BY <1>1, <2>1, UserFields DEF Followed
<1>3. ASSUME NEW n \in Connections, ChangeReference(k, n)
      PROVE  /\ request[k].exists
             /\ request'[k].generation = request[k].generation + 1
             /\ SameStatus(request'[k], request[k])
             /\ request'[k].seed = request[k].seed
             /\ request'[k].dropDatabaseOnDelete = request[k].dropDatabaseOnDelete
             /\ request'[k].connectionReference = n
             /\ "reference" \in Edits
  <2> DEFINE new == [request[k] EXCEPT !.connectionReference = n]
  <2>1. request[k].exists /\ request'[k] = Edited(new) /\ "reference" \in Edits
    BY <1>3 DEF ChangeReference, Edit, TypeOK
  <2>2. new \in Object
    BY <1>1, MemoryType
  <2>3. /\ new.generation = request[k].generation
        /\ new.seed = request[k].seed
        /\ new.dropDatabaseOnDelete = request[k].dropDatabaseOnDelete
        /\ SameStatus(new, request[k])
        /\ new.connectionReference = n
    BY <1>1 DEF Object, SameStatus
  <2> HIDE DEF new
  <2> QED
    BY <2>1, <2>2, <2>3, UserFields DEF Followed, SameStatus
<1> QED
  BY <1>2, <1>3

LEMMA UserMoves ==
    ASSUME TypeOK, NEW k \in Requests, User(k)
    PROVE  /\ UNCHANGED <<caches, queue, server, worker, service, secret>>
           /\ \/ Begun(k) \/ Changed(k)
              \/ request[k].exists /\ ~request[k].finalizer /\ Gone(request[k], request'[k])
<1>0. request[k] \in Object
  BY ObjectTypes
<1>1. UNCHANGED <<caches, queue, server, worker, service, secret>>
  BY DEF User, CreateRequest, DeleteRequest, ForceReconcile, ChangeReference, Edit
<1>2. ASSUME NEW spec \in Specs, CreateRequest(k, spec)
      PROVE  Begun(k)
  <2>1. /\ ~request[k].exists
        /\ request'[k] = Created(request[k].resourceVersion, spec.type,
                                 spec.seed /= None, spec.reference, spec.drop)
    BY <1>2 DEF CreateRequest, TypeOK
  <2>2. request[k].resourceVersion \in Nat
    BY Numbers
  <2> QED
    BY <2>1, <2>2, CreatedMetadata, NewFields DEF Begun
<1>3. CASE DeleteRequest(k)
  <2>1. request[k].exists /\ request'[k] = Deleted(request[k])
    BY <1>3 DEF DeleteRequest, TypeOK
  <2>2. CASE request[k].finalizer
    <3>1. /\ request'[k].exists = request[k].exists
          /\ request'[k].uid = request[k].uid
          /\ request'[k].type = request[k].type
          /\ request'[k].deleting /\ request'[k].finalizer
          /\ request'[k].resourceVersion = request[k].resourceVersion + 1
      BY <1>0, <2>1, <2>2, DeletedMetadata
    <3>2. /\ request'[k].generation = request[k].generation + 1
          /\ SameStatus(request'[k], request[k])
          /\ Followed(request'[k], request[k])
          /\ request'[k].dropDatabaseOnDelete = request[k].dropDatabaseOnDelete
      BY <1>0, <2>1, <2>2, UserFields
    <3>3. request'[k].finalizer = request[k].finalizer
      BY <1>0, <2>1, <2>2 DEF Deleted, Object
    <3> QED
      BY <1>1, <2>1, <2>2, <3>1, <3>2, <3>3 DEF Changed, Followed
  <2>3. CASE ~request[k].finalizer
    BY <1>0, <1>1, <2>1, <2>3, DeletedMetadata
  <2> QED
    BY <2>2, <2>3
<1>4. CASE ForceReconcile(k) \/ \E n \in Connections : ChangeReference(k, n)
  BY <1>1, <1>4, EditMoves, EditSpec DEF Changed, Touched
<1> QED
  BY <1>1, <1>2, <1>3, <1>4 DEF User

LEMMA UserGeneration ==
    ASSUME TypeOK, TypeOK', NEW k \in Requests, OrphanInvAt(k), GenerationInvAt(k), User(k)
    PROVE  GenerationInvAt(k)'
<1>1. cached'[k] = cached[k] /\ pc'[k] = pc[k] /\ obj'[k] = obj[k]
  BY UserMoves DEF caches, worker
<1>2. request'[k].resourceVersion = request[k].resourceVersion + 1
  BY UserMoves DEF Begun, Changed, Gone
<1>3. PathInv(k)' /\ MemoryStatus(k)'
  BY <1>1, <1>2, Numbers DEF GenerationInvAt, MemoryInv, PathInv, MemoryStatus
<1>4. CASE Gone(request[k], request'[k])
  <2>1. MemorySpec(k)'
    BY <1>4 DEF MemorySpec, Gone
  <2> QED
    BY <1>1, <1>3, <1>4, <2>1, GoneGeneration DEF MemoryInv
<1>5. CASE Begun(k)
  <2>1. cached[k].uid /= request'[k].uid
    BY <1>5, Numbers DEF OrphanInvAt, CacheInv, Begun
  <2>2. pc[k] \in Creating => obj[k].uid /= request'[k].uid
    BY <1>5, Numbers DEF OrphanInvAt, MemoryVersion, Begun
  <2>3. CachedSpec(k)' /\ MemorySpec(k)'
    BY <1>1, <2>1, <2>2 DEF CachedSpec, MemorySpec
  <2>4. request'[k].uid /= 0
    BY <1>5, Numbers DEF Begun
  <2>5. StatusInv(k)'
    BY <1>1, <1>5, <2>4 DEF GenerationInvAt, StatusInv, Begun, ReadyReasons
  <2> QED
    BY <1>3, <2>3, <2>5 DEF GenerationInvAt, MemoryInv
<1>6. CASE Changed(k)
  <2>1. StatusInv(k)'
    <3>1. request'[k].ready \in ReadyReasons => request'[k].connectionReference /= None
      BY <1>6, NoneAssumption
         DEF GenerationInvAt, StatusInv, Changed, SameStatus, NoneAssumption
    <3> QED
      BY <1>1, <1>6, <3>1, Counts, CountsNext DEF GenerationInvAt, StatusInv, Changed, SameStatus
  <2>2. CachedSpec(k)'
    BY <1>1, <1>6, Counts, CountsNext DEF GenerationInvAt, CachedSpec, Changed, SameStatus
  <2>3. MemorySpec(k)'
    <3>1. pc[k] \in Creating => obj[k].resourceVersion /= request'[k].resourceVersion
      BY <1>2, Numbers DEF OrphanInvAt, MemoryVersion
    <3>2. pc[k] \in Creating /\ obj[k].uid = request[k].uid =>
            /\ obj[k].generation <= request[k].generation
            /\ pc[k] = "updateStatus" =>
                ~request[k].seed /\ request[k].connectionReference /= None
      BY <1>6 DEF GenerationInvAt, MemoryInv, MemorySpec, Changed
    <3> QED
      BY <1>1, <1>6, <3>1, <3>2, Counts, CountsNext, NoneAssumption
         DEF MemorySpec, Changed, Agrees, NoneAssumption
  <2> QED
    BY <1>3, <2>1, <2>2, <2>3 DEF GenerationInvAt, MemoryInv
<1> QED
  BY <1>4, <1>5, <1>6, UserMoves

LEMMA SyncGeneration ==
    ASSUME TypeOK, NEW k \in Requests, GenerationInvAt(k), Sync(k)
    PROVE  GenerationInvAt(k)'
<1>1. /\ request' = request /\ pc' = pc /\ obj' = obj
      /\ cached'[k] \in {cached[k], request[k]}
  BY DEF Sync, SyncRequest, SyncService, SyncSecret, store, worker, TypeOK
<1>2. StatusInv(k)' /\ CachedSpec(k)'
  BY <1>1, Counts DEF GenerationInvAt, StatusInv, CachedSpec, Followed
<1> QED
  BY <1>1, <1>2 DEF GenerationInvAt, MemoryInv, MemorySpec, MemoryStatus, PathInv

LEMMA GenerationInvInit == Init => GenerationInv
<1> SUFFICES ASSUME Init, NEW k \in Requests
             PROVE  GenerationInvAt(k)
  BY DEF GenerationInv
<1>1. /\ request[k] = Absent(0) /\ cached[k] = Absent(0) /\ pc[k] = "idle"
      /\ ~Absent(0).exists /\ Absent(0).uid = 0
  BY AbsentMetadata DEF Init
<1> QED
  BY <1>1, Names
     DEF GenerationInvAt, StatusInv, CachedSpec, MemoryInv, MemorySpec, MemoryStatus, PathInv

LEMMA GenerationInvStep ==
    TypeInv /\ TypeOK' /\ OrphanInv /\ GenerationInv /\ [Next]_vars => GenerationInv'
<1> SUFFICES ASSUME TypeInv, TypeOK', OrphanInv, GenerationInv, [Next]_vars,
                    NEW j \in Requests
             PROVE  GenerationInvAt(j)'
  BY DEF GenerationInv
<1>1. TypeOK /\ OrphanInvAt(j) /\ GenerationInvAt(j)
  BY DEF TypeInv, OrphanInv, GenerationInv
<1>2. ASSUME Untouched(j)
      PROVE  GenerationInvAt(j)'
  BY <1>1, <1>2
     DEF Untouched, GenerationInvAt, StatusInv, CachedSpec, MemoryInv, MemorySpec,
         MemoryStatus, PathInv
<1>3. ASSUME NEW k \in Requests, Reconcile(k) \/ Step(k) \/ Sync(k) \/ User(k)
      PROVE  GenerationInvAt(j)'
  <2>1. CASE j /= k
    BY <1>1, <1>2, <1>3, <2>1, OtherRequests
  <2>2. CASE j = k
    BY <1>1, <1>3, <2>2, ReconcileGeneration, StepGeneration, SyncGeneration, UserGeneration
  <2> QED
    BY <2>1, <2>2
<1>4. CASE Crash
  <2>1. request'[j] = request[j] /\ cached'[j] = request[j] /\ pc'[j] = "idle"
    BY <1>4 DEF Crash, store
  <2> QED
    BY <1>1, <2>1, Names, Counts
       DEF GenerationInvAt, StatusInv, CachedSpec, MemoryInv, MemorySpec, MemoryStatus,
           PathInv, Followed
<1>5. CASE UNCHANGED vars
  BY <1>2, <1>5 DEF Untouched, vars, store, caches, worker
<1> QED
  BY <1>3, <1>4, <1>5 DEF Next

-----------------------------------------------------------------------------
(* ReadyPublished, when the caches of Services and Secrets do not lag.      *)

Served(k) == request[k].exists /\ request[k].finalizer /\ ~request[k].deleting

\* A reconcile of the request is going to come.
Behind(k) == k \in queue \/ cached[k].generation /= request[k].generation

\* What ReadyPublished says of a request.
Publishes(k) ==
    LET n == request[k].connectionReference
    IN  /\ n /= None
        /\ service[k] = n
        /\ secret[k] /= None
        /\ secret[k] = [conn |-> n, cred |-> users[<<n, k>>]]

\* What a reconcile publishes belongs to the reference in its memory: it is the
\* row of the request, if there was nothing to adopt.
PublishMemory(k) ==
    pc[k] \in {"handleService", "handleSecret", "updateRequest"} =>
        /\ pc[k] = "updateRequest" => dbInfo[k] /= None
        /\ dbInfo[k] /= None =>
            /\ obj[k].connectionReference = dbInfo[k].conn
            /\ /\ obj[k].generation = request[k].generation
               /\ ~request[k].seed
               /\ request[k].connectionReference /= None
               => dbInfo[k].cred = users[<<dbInfo[k].conn, k>>]
            /\ pc[k] \in {"handleSecret", "updateRequest"} => service[k] = dbInfo[k].conn
            /\ pc[k] = "updateRequest" => secret[k] = dbInfo[k]

\* A cached object that is served has no newer generation in the API server.
CachedCurrent(k) == cached[k].finalizer => cached[k].generation = request[k].generation

\* When the newest generation was observed, the cache and the reconcile that is
\* running have it; a reconcile that sees it observed has seen it in the cache.
SeenInv(k) ==
    Served(k) =>
        /\ request[k].observedGeneration >= request[k].generation =>
            /\ CachedCurrent(k)
            /\ pc[k] \in Serving => obj[k].generation = request[k].generation
        /\ /\ pc[k] = "handleError"
           /\ obj[k].resourceVersion = request[k].resourceVersion
           /\ obj[k].observedGeneration >= request[k].generation
           => CachedCurrent(k)
        /\ pc[k] \in Serving =>
            \/ cached[k].finalizer => cached[k].generation >= obj[k].generation
            \/ pc[k] = "updateStatus" /\ obj[k].observedGeneration < obj[k].generation

\* A reconcile of an older generation is not the last one.
BehindInv(k) ==
    Served(k) /\ pc[k] \in Creating /\ obj[k].generation /= request[k].generation =>
        Behind(k)

\* Before Ready is written, and after the newest generation was observed Ready.
DoneInv(k) ==
    Served(k) =>
        /\ pc[k] = "updateStatus" =>
            IF obj[k].resourceVersion = request[k].resourceVersion
            THEN \/ Publishes(k)
                 \/ Behind(k) /\ obj[k].observedGeneration < obj[k].generation
            ELSE Behind(k)
        /\ /\ request[k].ready \in ReadyReasons
           /\ request[k].observedGeneration >= request[k].generation
           => Publishes(k)

\* A Ready request publishes what it should, or has a reconcile to come that
\* goes on from here.
ReadyInv(k) ==
    IsReady(k) =>
        \/ Publishes(k)
        \/ Behind(k)
        \/ pc[k] \in (Creating \ {"updateStatus"}) \cup {"handleError"}

\* The finalizer is added to a version that has none.
AddingInv(k) ==
    pc[k] = "addFinalizer" /\ obj[k].resourceVersion = request[k].resourceVersion =>
        ~request[k].finalizer

PublishedInvAt(k) ==
    /\ PublishMemory(k)
    /\ SeenInv(k)
    /\ BehindInv(k)
    /\ DoneInv(k)
    /\ ReadyInv(k)
    /\ AddingInv(k)

PublishedInv == stale = {} /\ \A k \in Requests : PublishedInvAt(k)

\* The invariants proved so far, of request k.
KnownAt(k) ==
    /\ TypeInv
    /\ OrphanInvAt(k) /\ IdentityInvAt(k) /\ ServedInvAt(k)
    /\ GenerationInvAt(k)

\* A reconcile that serves is about the object that is there.
LEMMA ServingFacts ==
    ASSUME NEW k \in Requests, KnownAt(k), pc[k] \in Serving
    PROVE  /\ request[k].exists /\ request[k].finalizer
           /\ obj[k].uid = request[k].uid /\ cached[k].uid = request[k].uid
           /\ obj[k].finalizer
           /\ pc[k] \in Creating
BY DEF KnownAt, OrphanInvAt, CreatingInv, IdentityInvAt, Serving

\* The cache has the object that is served, and no reconcile deletes it.
LEMMA ServedFacts ==
    ASSUME NEW k \in Requests, KnownAt(k), Served(k)
    PROVE  /\ cached[k].uid = request[k].uid
           /\ cached[k].exists /\ ~cached[k].deleting
           /\ pc[k] \notin Deleting
           /\ cached[k].generation <= request[k].generation
           /\ cached[k].observedGeneration <= request[k].observedGeneration
<1>1. cached[k].uid = request[k].uid /\ request[k].uid /= 0
  BY DEF KnownAt, Served, IdentityInvAt, GenerationInvAt, StatusInv
<1>2. cached[k].exists /\ ~cached[k].deleting
  BY <1>1 DEF KnownAt, Served, GenerationInvAt, StatusInv, OrphanInvAt, CacheInv
<1>3. pc[k] \notin Deleting
  BY DEF KnownAt, Served, IdentityInvAt, OrphanInvAt, DeletingInv
<1> QED
  BY <1>1, <1>2, <1>3 DEF KnownAt, Served, GenerationInvAt, CachedSpec

\* Rows that are there stay as they are.
RowsKept(k) ==
    \A n \in Connections : users[<<n, k>>] /= None => users'[<<n, k>>] = users[<<n, k>>]

LEMMA RowsKeptStep ==
    ASSUME TypeInv, RowInv, [Next]_vars, NEW k \in Requests
    PROVE  RowsKept(k)
<1>1. CASE users' = users
  BY <1>1 DEF RowsKept
<1>2. ASSUME NEW n \in Connections, NEW j \in Requests, users[<<n, j>>] = None,
             \A m \in Connections, i \in Requests :
                m /= n \/ i /= j => users'[<<m, i>>] = users[<<m, i>>]
      PROVE  RowsKept(k)
  BY <1>2 DEF RowsKept
<1> QED
  BY <1>1, <1>2, NextServer, OneRow

LEMMA PublishesKept ==
    ASSUME TypeOK, NEW k \in Requests, RowsKept(k), Publishes(k),
           request'[k].connectionReference = request[k].connectionReference,
           service'[k] = service[k], secret'[k] = secret[k]
    PROVE  Publishes(k)'
<1> DEFINE n == request[k].connectionReference
<1>1. n \in Connections
  BY ObjectTypes, FieldTypes DEF Publishes
<1>2. secret[k] \in DatabaseInfo
  BY DEF Publishes, TypeOK
<1>3. secret[k].cred = users[<<n, k>>] /\ secret[k].cred \in Credentials
  BY <1>2 DEF Publishes, DatabaseInfo
<1>4. users'[<<n, k>>] = users[<<n, k>>]
  BY <1>1, <1>3, SeedAssumption DEF RowsKept, SeedAssumption
<1> QED
  BY <1>4 DEF Publishes

\* A row that a reconcile has in its memory.
LEMMA InfoKept ==
    ASSUME TypeOK, NEW k \in Requests, RowsKept(k), dbInfo[k] /= None,
           dbInfo[k].cred = users[<<dbInfo[k].conn, k>>]
    PROVE  dbInfo[k].cred = users'[<<dbInfo[k].conn, k>>]
<1>1. dbInfo[k] \in DatabaseInfo
  BY DEF TypeOK
<1>2. dbInfo[k].conn \in Connections /\ dbInfo[k].cred \in Credentials
  BY <1>1 DEF DatabaseInfo
<1> QED
  BY <1>2, SeedAssumption DEF RowsKept, SeedAssumption

-----------------------------------------------------------------------------
\* A step that leaves the object, its cache and what is published alone, and the
\* reconcile where it is.
LEMMA QuietPublished ==
    ASSUME NEW k \in Requests, KnownAt(k), PublishedInvAt(k), RowsKept(k), Untouched(k),
           dbInfo'[k] = dbInfo[k], k \in queue => k \in queue'
    PROVE  PublishedInvAt(k)'
<1>0. TypeOK
  BY DEF KnownAt, TypeInv
<1>1. Publishes(k) => Publishes(k)'
  BY <1>0, PublishesKept DEF Untouched
<1>2. Behind(k) => Behind(k)'
  BY DEF Behind, Untouched
<1>3. PublishMemory(k)'
  BY <1>0, InfoKept DEF PublishedInvAt, PublishMemory, Untouched
<1>4. Served(k)' = Served(k) /\ IsReady(k)' = IsReady(k)
  BY DEF Served, IsReady, Untouched
<1>5. SeenInv(k)' /\ AddingInv(k)'
  BY <1>4 DEF PublishedInvAt, SeenInv, AddingInv, CachedCurrent, Untouched
<1>6. BehindInv(k)' /\ DoneInv(k)' /\ ReadyInv(k)'
  BY <1>1, <1>2, <1>4 DEF PublishedInvAt, BehindInv, DoneInv, ReadyInv, Untouched
<1> QED
  BY <1>3, <1>5, <1>6 DEF PublishedInvAt

LEMMA ReconcilePublished ==
    ASSUME NEW k \in Requests, KnownAt(k), PublishedInvAt(k), RowsKept(k), Reconcile(k)
    PROVE  PublishedInvAt(k)'
<1>0. TypeOK /\ cached[k] \in Object
  BY ObjectTypes DEF KnownAt, TypeInv
<1>1. /\ request' = request /\ cached' = cached
      /\ service' = service /\ secret' = secret
      /\ queue' = queue \ {k}
      /\ pc'[k] = FirstStep(cached[k])
      /\ pc'[k] /= "idle" => obj'[k] = cached[k]
  BY <1>0, ReconcileStep DEF Reconcile, store
<1>2. /\ pc'[k] \notin {"handleService", "handleSecret", "updateRequest", "updateStatus",
                        "handleError"}
      /\ pc'[k] \in Serving =>
            /\ pc'[k] = CreateStep(cached[k]) /\ obj'[k] = cached[k]
            /\ cached[k].exists /\ cached[k].finalizer /\ ~cached[k].deleting
  <2>1. pc'[k] \in {"idle", "addFinalizer", "dropDatabase", "deleteService"} =>
            pc'[k] \notin Serving
    BY Kinds DEF Serving
  <2> QED
    BY <1>0, <1>1, <2>1, FirstPath
<1>3. PublishMemory(k)'
  BY <1>2 DEF PublishMemory
<1>4. AddingInv(k)'
  <2>1. pc'[k] = "addFinalizer" => ~cached[k].finalizer
    BY <1>0, <1>1, CreateStepKinds DEF FirstStep, DeleteStep
  <2> QED
    BY <1>1, <2>1 DEF AddingInv, KnownAt, OrphanInvAt, CacheInv
<1>5. Served(k)' = Served(k) /\ IsReady(k)' = IsReady(k)
  BY <1>1 DEF Served, IsReady
<1>6. Publishes(k) => Publishes(k)'
  BY <1>0, <1>1, PublishesKept
<1>7. SeenInv(k)'
  BY <1>0, <1>1, <1>2, <1>5, Counts DEF PublishedInvAt, SeenInv, CachedCurrent
<1>8. BehindInv(k)'
  BY <1>1, Names DEF BehindInv, Behind
<1>9. DoneInv(k)'
  BY <1>1, <1>2, <1>5, <1>6 DEF PublishedInvAt, DoneInv
<1>10. ReadyInv(k)'
  <2> SUFFICES ASSUME IsReady(k), cached[k].generation = request[k].generation
               PROVE  \/ Publishes(k)
                      \/ pc'[k] \in (Creating \ {"updateStatus"}) \cup {"handleError"}
    BY <1>1, <1>5, <1>6 DEF ReadyInv, Behind
  <2>1. Served(k)
    BY DEF IsReady, Served, KnownAt, GenerationInvAt, StatusInv
  <2>2. cached[k].exists /\ ~cached[k].deleting
        /\ cached[k].observedGeneration <= request[k].observedGeneration
    BY <2>1, ServedFacts
  <2>3. pc'[k] \in {"addFinalizer", "handleSeed", "createDatabase", "getDatabaseInfo"} =>
            pc'[k] \in Creating \ {"updateStatus"}
    BY Names
  <2>4. CASE pc'[k] = "idle"
    <3>1. cached[k].observedGeneration >= cached[k].generation
      BY <1>0, <1>1, <2>2, <2>4 DEF FirstStep, CreateStep
    <3>2. request[k].observedGeneration >= request[k].generation
      BY <1>0, <2>2, <3>1, Counts
    <3> QED
      BY <2>1, <3>2 DEF PublishedInvAt, DoneInv, IsReady
  <2>5. pc'[k] \in {"idle", "addFinalizer", "handleSeed", "createDatabase", "getDatabaseInfo"}
    BY <1>0, <1>1, <2>2, CreateStepKinds DEF FirstStep
  <2> QED
    BY <2>3, <2>4, <2>5
<1> QED
  BY <1>3, <1>4, <1>7, <1>8, <1>9, <1>10 DEF PublishedInvAt

LEMMA SyncPublished ==
    ASSUME NEW k \in Requests, KnownAt(k), PublishedInvAt(k), RowsKept(k), Sync(k)
    PROVE  PublishedInvAt(k)'
<1>0. TypeOK
  BY DEF KnownAt, TypeInv
<1>1. /\ request' = request /\ service' = service /\ secret' = secret
      /\ pc' = pc /\ obj' = obj /\ dbInfo' = dbInfo
      /\ k \in queue => k \in queue'
      /\ \/ cached'[k] = cached[k]
         \/ /\ cached'[k] = request[k]
            /\ cached[k].generation /= request[k].generation => k \in queue'
  BY <1>0 DEF Sync, SyncRequest, SyncService, SyncSecret, store, worker, TypeOK
<1>2. CASE cached'[k] = cached[k]
  BY <1>1, <1>2, QuietPublished DEF Untouched
<1>3. CASE /\ cached'[k] = request[k]
           /\ cached[k].generation /= request[k].generation => k \in queue'
  <2>1. Publishes(k) => Publishes(k)'
    BY <1>0, <1>1, PublishesKept
  <2>2. Behind(k) => Behind(k)'
    BY <1>1, <1>3 DEF Behind
  <2>3. Served(k)' = Served(k) /\ IsReady(k)' = IsReady(k)
    BY <1>1 DEF Served, IsReady
  <2>4. PublishMemory(k)' /\ AddingInv(k)'
    BY <1>0, <1>1, InfoKept DEF PublishedInvAt, PublishMemory, AddingInv
  <2>5. pc[k] \in Serving => obj[k].generation <= request[k].generation
    BY ServingFacts DEF KnownAt, GenerationInvAt, MemoryInv, MemorySpec
  <2>6. SeenInv(k)'
    BY <1>0, <1>1, <1>3, <2>3, <2>5, Counts DEF PublishedInvAt, SeenInv, CachedCurrent
  <2>7. BehindInv(k)' /\ DoneInv(k)' /\ ReadyInv(k)'
    BY <1>1, <2>1, <2>2, <2>3 DEF PublishedInvAt, BehindInv, DoneInv, ReadyInv
  <2> QED
    BY <2>4, <2>6, <2>7 DEF PublishedInvAt
<1> QED
  BY <1>1, <1>2, <1>3

LEMMA UserPublished ==
    ASSUME TypeOK', NEW k \in Requests, KnownAt(k), PublishedInvAt(k), RowsKept(k), User(k)
    PROVE  PublishedInvAt(k)'
<1>0. TypeOK
  BY DEF KnownAt, TypeInv
<1>1. /\ cached'[k] = cached[k] /\ pc'[k] = pc[k] /\ obj'[k] = obj[k]
      /\ dbInfo'[k] = dbInfo[k] /\ queue' = queue
      /\ service'[k] = service[k] /\ secret'[k] = secret[k]
  BY <1>0, UserMoves DEF caches, worker
<1>2. CASE Begun(k) \/ (request[k].exists /\ ~request[k].finalizer /\ Gone(request[k], request'[k]))
  <2>1. ~Served(k)' /\ ~IsReady(k)'
    BY <1>2 DEF Served, IsReady, Begun, Gone, ReadyReasons
  <2>2. pc[k] \notin Serving
    BY <1>2, ServingFacts DEF Begun
  <2>3. PublishMemory(k)'
    BY <1>1, <2>2, Kinds DEF PublishMemory
  <2>4. AddingInv(k)'
    <3>1. pc[k] = "addFinalizer" => obj[k].resourceVersion /= request'[k].resourceVersion
      BY <1>0, <1>2, Numbers, Kinds DEF KnownAt, OrphanInvAt, MemoryVersion, Begun, Gone
    <3> QED
      BY <1>1, <3>1 DEF AddingInv
  <2> QED
    BY <2>1, <2>3, <2>4 DEF PublishedInvAt, SeenInv, BehindInv, DoneInv, ReadyInv
<1>3. CASE Changed(k)
  <2>1. Served(k)' => Served(k) /\ Behind(k)'
    <3>1. Served(k)' => Served(k)
      BY <1>3 DEF Served, Changed
    <3>2. Served(k) => cached[k].generation /= request'[k].generation
      BY <1>0, <1>3, ServedFacts, Counts DEF Changed
    <3> QED
      BY <1>1, <3>1, <3>2 DEF Behind
  <2>2. pc[k] \in Serving => obj[k].generation /= request'[k].generation
    BY <1>0, <1>3, ServingFacts, Counts
       DEF Changed, KnownAt, GenerationInvAt, MemoryInv, MemorySpec
  <2>3. pc[k] /= "idle" => obj[k].resourceVersion /= request'[k].resourceVersion
    BY <1>0, <1>3, Numbers DEF Changed, KnownAt, GenerationInvAt, MemoryInv, MemoryStatus
  <2>4. PublishMemory(k)'
    BY <1>1, <2>2, Kinds DEF PublishedInvAt, PublishMemory
  <2>5. request[k].exists => request'[k].observedGeneration < request'[k].generation
    BY <1>0, <1>3, Counts DEF Changed, SameStatus, KnownAt, GenerationInvAt, StatusInv
  <2>6. SeenInv(k)'
    <3>1. ~(request'[k].observedGeneration >= request'[k].generation)
      BY <1>3, <2>5, CountsNext DEF Changed
    <3> QED
      BY <1>1, <2>1, <2>3, <3>1 DEF PublishedInvAt, SeenInv
  <2>7. DoneInv(k)'
    <3>1. ~(request'[k].observedGeneration >= request'[k].generation)
      BY <1>3, <2>5, CountsNext DEF Changed
    <3> QED
      BY <1>1, <2>1, <2>3, <3>1 DEF DoneInv
  <2>8. ReadyInv(k)'
    <3>1. IsReady(k)' => Served(k)'
      BY <1>3 DEF IsReady, Served, Changed, SameStatus, KnownAt, GenerationInvAt, StatusInv
    <3> QED
      BY <2>1, <3>1 DEF ReadyInv
  <2>9. AddingInv(k)' /\ BehindInv(k)'
    BY <1>1, <2>1, <2>3 DEF AddingInv, BehindInv
  <2> QED
    BY <2>4, <2>6, <2>7, <2>8, <2>9 DEF PublishedInvAt
<1> QED
  BY <1>0, <1>2, <1>3, UserMoves

-----------------------------------------------------------------------------
\* A step of a reconcile that serves and does not write its object: what it
\* publishes is what a Ready request of the newest generation already does.
LEMMA LocalPublished ==
    ASSUME NEW k \in Requests, KnownAt(k), PublishedInvAt(k), Local(k),
           pc[k] \in Serving \ {"updateStatus"},
           pc'[k] \in (Serving \ {"updateStatus"}) \cup {"handleError", "ignoreError"},
           pc'[k] = "ignoreError" => obj[k].seed,
           PublishMemory(k)',
           Publishes(k) /\ Agrees(obj[k], request[k]) /\ ~request[k].seed
                /\ obj[k].generation = request[k].generation => Publishes(k)'
    PROVE  PublishedInvAt(k)'
<1>0. TypeOK
  BY DEF KnownAt, TypeInv
<1>1. /\ request[k].exists /\ request[k].finalizer /\ pc[k] \in Creating
      /\ Agrees(obj[k], request[k])
  BY ServingFacts DEF KnownAt, GenerationInvAt, MemoryInv, MemorySpec
<1>2. Served(k)' = Served(k) /\ IsReady(k)' = IsReady(k)
  BY DEF Served, IsReady, Local
<1>3. /\ pc'[k] /= "addFinalizer" /\ pc'[k] /= "updateStatus"
      /\ pc[k] \notin {"updateStatus", "handleError", "idle"}
  BY Kinds, Names DEF Serving
<1>4. SeenInv(k)'
  <2>1. /\ obj'[k].generation = obj[k].generation
        /\ obj'[k].observedGeneration = obj[k].observedGeneration
        /\ obj'[k].resourceVersion = obj[k].resourceVersion
        /\ request'[k] = request[k] /\ cached'[k] = cached[k]
    BY DEF Local, SameStatus
  <2>2. obj[k].resourceVersion = request[k].resourceVersion =>
            obj[k].observedGeneration = request[k].observedGeneration
    BY <1>3 DEF KnownAt, GenerationInvAt, MemoryInv, MemoryStatus
  <2> QED
    BY <1>2, <1>3, <2>1, <2>2 DEF PublishedInvAt, SeenInv, CachedCurrent
<1>5. Behind(k)' = Behind(k)
  BY DEF Behind, Local
<1>6. BehindInv(k)' /\ AddingInv(k)'
  BY <1>1, <1>2, <1>3, <1>5 DEF PublishedInvAt, BehindInv, AddingInv, Local
<1>7. DoneInv(k)'
  <2> SUFFICES ASSUME Served(k), request[k].ready \in ReadyReasons,
                      request[k].observedGeneration >= request[k].generation
               PROVE  Publishes(k)'
    BY <1>2, <1>3 DEF DoneInv, Local
  <2>1. obj[k].generation = request[k].generation
    BY DEF PublishedInvAt, SeenInv
  <2>2. ~request[k].seed
    BY <1>1 DEF KnownAt, GenerationInvAt, StatusInv
  <2> QED
    BY <1>1, <2>1, <2>2 DEF PublishedInvAt, DoneInv
<1>8. ReadyInv(k)'
  <2>1. CASE pc'[k] = "ignoreError"
    <3>1. IsReady(k) => Served(k) /\ obj[k].generation /= request[k].generation
      BY <1>1, <2>1
         DEF IsReady, Served, Agrees, KnownAt, GenerationInvAt, StatusInv
    <3> QED
      BY <1>1, <1>2, <1>5, <3>1 DEF PublishedInvAt, BehindInv, ReadyInv
  <2>2. CASE pc'[k] /= "ignoreError"
    BY <2>2 DEF ReadyInv, Serving
  <2> QED
    BY <2>1, <2>2
<1> QED
  BY <1>4, <1>6, <1>7, <1>8 DEF PublishedInvAt

LEMMA CallPublished ==
    ASSUME TypeOK', NEW k \in Requests, KnownAt(k), PublishedInvAt(k), RowsKept(k),
           \/ HandleSeed(k) \/ SetDatabaseInfo(k) \/ DeleteSeedSecret(k)
           \/ CreateDatabase(k) \/ GetDatabaseInfo(k)
    PROVE  PublishedInvAt(k)'
<1>0. TypeOK
  BY DEF KnownAt, TypeInv
<1>1. /\ service' = service /\ secret' = secret
      /\ pc[k] \in {"handleSeed", "setDatabaseInfo", "deleteSeedSecret", "createDatabase",
                    "getDatabaseInfo"}
  BY DEF HandleSeed, SetDatabaseInfo, DeleteSeedSecret, CreateDatabase, GetDatabaseInfo, store
<1>2. Local(k)
  BY <1>0, CallLocal
<1>3. pc[k] \in Serving \ {"updateStatus"} /\ pc[k] \notin Deleting
  BY <1>1, Kinds, Names DEF Serving
<1>4. /\ pc'[k] \in (Serving \ {"updateStatus"}) \cup {"handleError", "ignoreError"}
      /\ pc'[k] = "ignoreError" => pc[k] = "handleSeed"
      /\ pc'[k] \in {"handleService", "handleSecret", "updateRequest"} =>
            /\ pc'[k] = "handleService"
            /\ pc[k] \in {"deleteSeedSecret", "getDatabaseInfo"}
  BY <1>0, <1>1, <1>3, CallGoes, Kinds DEF Serving
<1>5. pc'[k] = "ignoreError" => obj[k].seed
  BY <1>4 DEF KnownAt, GenerationInvAt, MemoryInv, PathInv
<1>6. Publishes(k) => Publishes(k)'
  BY <1>0, <1>1, <1>2, PublishesKept DEF Local
<1>7. PublishMemory(k)'
  <2> SUFFICES ASSUME pc'[k] = "handleService", dbInfo'[k] /= None
               PROVE  /\ obj'[k].connectionReference = dbInfo'[k].conn
                      /\ /\ obj'[k].generation = request'[k].generation
                         /\ ~request'[k].seed
                         /\ request'[k].connectionReference /= None
                         => dbInfo'[k].cred = users'[<<dbInfo'[k].conn, k>>]
    BY <1>4 DEF PublishMemory
  <2>1. CASE pc[k] = "deleteSeedSecret"
    <3>1. dbInfo' = dbInfo
      BY <1>1, <2>1
         DEF HandleSeed, SetDatabaseInfo, DeleteSeedSecret, CreateDatabase, GetDatabaseInfo
    <3>2. obj'[k].connectionReference = dbInfo[k].conn
      <4>1. DeleteSeedSecret(k)
        BY <2>1 DEF HandleSeed, SetDatabaseInfo, CreateDatabase, GetDatabaseInfo
      <4>2. obj'[k] = [obj[k] EXCEPT
                        !.connectionReference = dbInfo[k].conn,
                        !.observedReference = dbInfo[k].conn,
                        !.seed = FALSE]
        BY <1>0, <4>1 DEF DeleteSeedSecret, TypeOK, Goto, Fails
      <4>3. obj[k] \in Object
        BY <1>0, ObjectTypes
      <4> QED
        BY <4>2, <4>3 DEF Object
    <3>3. obj[k].seed /\ Agrees(obj[k], request[k])
      BY <1>3, <2>1, ServingFacts
         DEF KnownAt, GenerationInvAt, MemoryInv, PathInv, MemorySpec
    <3> QED
      BY <1>2, <3>1, <3>2, <3>3 DEF Agrees, Local
  <2>2. CASE pc[k] = "getDatabaseInfo"
    <3> DEFINE n == obj[k].connectionReference
    <3>1. GetDatabaseInfo(k)
      BY <2>2 DEF HandleSeed, SetDatabaseInfo, CreateDatabase, DeleteSeedSecret
    <3>2. obj'[k].connectionReference = n
      <4>1. obj[k] \in Object
        BY <1>0, ObjectTypes
      <4>2. obj'[k] = [obj[k] EXCEPT !.observedReference = n]
        BY <1>0, <3>1 DEF GetDatabaseInfo, TypeOK
      <4> QED
        BY <4>1, <4>2 DEF Object
    <3>3. \/ /\ users' = WithRow(n, k)
             /\ dbInfo'[k] = [conn |-> n, cred |-> WithRow(n, k)[<<n, k>>]]
          \/ obj[k].type \notin RelationalTypes /\ dbInfo'[k] = dbInfo[k]
      BY <1>0, <3>1 DEF GetDatabaseInfo, Goto, Fails, TypeOK
    <3>4. obj[k].type \notin RelationalTypes => dbInfo[k] = None
      BY <1>3 DEF KnownAt, ServedInvAt
    <3> QED
      BY <3>2, <3>3, <3>4
  <2> QED
    BY <1>4, <2>1, <2>2
<1> QED
  BY <1>2, <1>3, <1>4, <1>5, <1>6, <1>7, LocalPublished

\* With caches that do not lag, what a reconcile goes on with is published.
LEMMA PublishSteps ==
    ASSUME TypeOK, NEW k \in Requests, stale = {}, HandleService(k) \/ HandleSecret(k)
    PROVE  /\ dbInfo' = dbInfo
           /\ \/ /\ pc[k] = "handleService"
                 /\ dbInfo[k] /= None
                 /\ secret'[k] = secret[k]
                 /\ service'[k] \in {service[k], dbInfo[k].conn}
                 /\ \/ pc'[k] = "handleSecret" /\ service'[k] = dbInfo[k].conn
                    \/ pc'[k] = "handleError"
              \/ /\ pc[k] = "handleSecret"
                 /\ service'[k] = service[k]
                 /\ secret'[k] \in {secret[k], dbInfo[k]}
                 /\ \/ pc'[k] = "updateRequest" /\ secret'[k] = dbInfo[k]
                    \/ pc'[k] = "handleError"
<1>1. SeenService(k) = service[k] /\ SeenSecret(k) = secret[k]
  BY DEF SeenService, SeenSecret
<1>2. CASE HandleService(k)
  BY <1>1, <1>2 DEF HandleService, WriteService, publication, Fails, Goto, TypeOK
<1>3. CASE HandleSecret(k)
  BY <1>1, <1>3 DEF HandleSecret, WriteSecret, publication, Fails, Goto, TypeOK
<1> QED
  BY <1>2, <1>3

LEMMA PublishPublished ==
    ASSUME NEW k \in Requests, KnownAt(k), PublishedInvAt(k), RowsKept(k), stale = {},
           HandleService(k) \/ HandleSecret(k)
    PROVE  PublishedInvAt(k)'
<1>0. TypeOK
  BY DEF KnownAt, TypeInv
<1>1. Local(k) /\ users' = users
  BY <1>0, CallLocal DEF HandleService, HandleSecret, server
<1>2. /\ dbInfo' = dbInfo
      /\ pc[k] \in {"handleService", "handleSecret"}
      /\ dbInfo[k] /= None
      /\ pc'[k] \in {"handleSecret", "updateRequest", "handleError"}
  BY <1>0, PublishSteps DEF KnownAt, TypeInv, WorkerInv
<1>3. obj'[k].connectionReference = obj[k].connectionReference
  BY <1>0, CallLocal, <1>2 DEF Followed, DeleteSeedSecret
<1>4. /\ pc[k] \in Serving \ {"updateStatus"}
      /\ pc'[k] \in (Serving \ {"updateStatus"}) \cup {"handleError", "ignoreError"}
  BY <1>2, Kinds
<1>5. PublishMemory(k)'
  BY <1>0, <1>1, <1>2, <1>3, PublishSteps DEF PublishedInvAt, PublishMemory, Local
<1>6. ASSUME Publishes(k), Agrees(obj[k], request[k]), ~request[k].seed,
             obj[k].generation = request[k].generation
      PROVE  Publishes(k)'
  <2>1. /\ request[k].connectionReference = dbInfo[k].conn
        /\ dbInfo[k].cred = users[<<dbInfo[k].conn, k>>]
    BY <1>2, <1>6 DEF Agrees, Publishes, PublishedInvAt, PublishMemory
  <2>2. dbInfo[k] \in DatabaseInfo
    BY <1>0, <1>2 DEF TypeOK
  <2>3. dbInfo[k] = [conn |-> dbInfo[k].conn, cred |-> dbInfo[k].cred]
    BY <2>2 DEF DatabaseInfo
  <2>4. secret[k] = dbInfo[k] /\ service[k] = dbInfo[k].conn
    BY <1>6, <2>1, <2>3 DEF Publishes
  <2>5. service'[k] = service[k] /\ secret'[k] = secret[k]
    BY <1>0, <2>4, PublishSteps
  <2> QED
    BY <1>0, <1>1, <1>6, <2>5, PublishesKept DEF Local
<1> QED
  BY <1>1, <1>2, <1>4, <1>5, <1>6, LocalPublished

-----------------------------------------------------------------------------
\* The steps that write the object.

\* A deletion is of no object that is served.
LEMMA DeletingPublished ==
    ASSUME NEW k \in Requests, KnownAt(k), KnownAt(k)', Step(k), pc[k] \in Deleting
    PROVE  PublishedInvAt(k)'
<1>0. TypeOK /\ OrphanInvAt(k)
  BY DEF KnownAt, TypeInv
<1>1. /\ pc'[k] \in Deleting \cup Quiet
      /\ Served(k)' => Served(k)
  <2>1. pc[k] \notin Serving /\ pc[k] \notin Creating
    BY Kinds DEF Serving
  <2>2. "deleteService" \in Deleting
    BY Kinds
  <2>3. pc[k] /= "addFinalizer"
    BY <2>1, Kinds
  <2> QED
    BY <1>0, <2>1, <2>2, <2>3, StepShapes
       DEF Settled, Answered, Advanced, Removed, Served, Touched, Gone, FinalizerAdded
<1>2. ~Served(k)'
  BY <1>1, ServedFacts
<1>3. ~IsReady(k)'
  BY <1>2 DEF IsReady, Served, KnownAt, GenerationInvAt, StatusInv
<1>4. pc'[k] \notin Serving /\ pc'[k] /= "addFinalizer"
  BY <1>1, Kinds DEF Serving
<1>5. PublishMemory(k)' /\ AddingInv(k)'
  BY <1>4, Kinds DEF PublishMemory, AddingInv
<1> QED
  BY <1>2, <1>3, <1>5 DEF PublishedInvAt, SeenInv, BehindInv, DoneInv, ReadyInv

\* A status write that the reconcile does not go on from.
LEMMA StatusEndPublished ==
    ASSUME NEW k \in Requests, NEW readies, KnownAt(k), KnownAt(k)', PublishedInvAt(k),
           RowsKept(k),
           pc[k] \in (Serving \cup Failing) \ {"idle"},
           cached'[k] = cached[k], k \in queue => k \in queue',
           service'[k] = service[k], secret'[k] = secret[k],
           request'[k] = request[k] \/ StatusStored(k, readies),
           \/ pc'[k] = "idle"
           \/ pc'[k] = "handleError" /\ obj'[k] = obj[k] /\ pc[k] \in Serving,
           pc[k] /= "updateStatus" => readies \cap ReadyReasons \subseteq {obj[k].ready},
           pc[k] = "handleError" => readies \cap ReadyReasons = {} /\ k \in queue',
           pc[k] \notin {"updateStatus", "handleError", "ignoreError"} =>
                pc'[k] = "handleError" \/ k \in queue',
           pc[k] = "ignoreError" => readies \cap ReadyReasons = {}
    PROVE  PublishedInvAt(k)'
<1>0. TypeOK /\ TypeOK'
  BY DEF KnownAt, TypeInv
<1>1. /\ Served(k)' = Served(k)
      /\ request'[k].generation = request[k].generation
      /\ request'[k].connectionReference = request[k].connectionReference
      /\ request'[k] = request[k] \/ request'[k].resourceVersion = request[k].resourceVersion + 1
  BY DEF StatusStored, Touched, Followed, Served
<1>2. Behind(k) => Behind(k)'
  BY <1>1 DEF Behind
<1>3. Publishes(k) => Publishes(k)'
  BY <1>0, <1>1, PublishesKept
<1>4. pc'[k] \in {"idle", "handleError"} /\ pc'[k] \notin Serving /\ pc'[k] \notin Creating
  BY Kinds DEF Serving
<1>5. PublishMemory(k)' /\ AddingInv(k)' /\ BehindInv(k)'
  BY <1>4, Kinds DEF PublishMemory, AddingInv, BehindInv
<1>6. /\ obj[k].resourceVersion <= request[k].resourceVersion
      /\ obj[k].resourceVersion = request[k].resourceVersion =>
            /\ obj[k].ready = request[k].ready
            /\ pc[k] \notin {"updateStatus", "handleError"} =>
                obj[k].observedGeneration = request[k].observedGeneration
  BY Names DEF KnownAt, GenerationInvAt, MemoryInv, MemoryStatus
<1>7. pc[k] \in Serving /\ obj[k].resourceVersion = request[k].resourceVersion =>
        obj[k].generation = request[k].generation
  BY ServingFacts DEF KnownAt, GenerationInvAt, MemoryInv, MemorySpec
<1>8. ASSUME Served(k), obj[k].resourceVersion = request[k].resourceVersion,
             obj[k].observedGeneration >= request[k].generation
      PROVE  CachedCurrent(k)
  <2>1. CASE pc[k] \notin {"updateStatus", "handleError"}
    BY <1>6, <1>8, <2>1 DEF PublishedInvAt, SeenInv
  <2>2. CASE pc[k] = "handleError"
    BY <1>8, <2>2 DEF PublishedInvAt, SeenInv
  <2>3. CASE pc[k] = "updateStatus"
    <3>1. cached[k].finalizer => cached[k].generation >= obj[k].generation
      BY <1>0, <1>7, <1>8, <2>3, Kinds, Counts DEF PublishedInvAt, SeenInv
    <3> QED
      BY <1>0, <1>7, <1>8, <2>3, <3>1, Kinds, Counts, ServedFacts DEF CachedCurrent
  <2> QED
    BY <2>1, <2>2, <2>3
<1>9. SeenInv(k)'
  <2> SUFFICES ASSUME Served(k)
               PROVE  /\ request'[k].observedGeneration >= request'[k].generation =>
                            CachedCurrent(k)'
                      /\ /\ pc'[k] = "handleError"
                         /\ obj'[k].resourceVersion = request'[k].resourceVersion
                         /\ obj'[k].observedGeneration >= request'[k].generation
                         => CachedCurrent(k)'
    BY <1>1, <1>4 DEF SeenInv
  <2>1. CachedCurrent(k)' = CachedCurrent(k)
    BY <1>1 DEF CachedCurrent
  <2>2. request'[k].observedGeneration >= request'[k].generation => CachedCurrent(k)
    <3>1. CASE request'[k] = request[k]
      BY <3>1 DEF PublishedInvAt, SeenInv
    <3>2. CASE StatusStored(k, readies)
      BY <1>1, <1>8, <3>2 DEF StatusStored, Fresh
    <3> QED
      BY <3>1, <3>2
  <2>3. pc'[k] = "handleError" /\ obj'[k].resourceVersion = request'[k].resourceVersion =>
            /\ obj'[k] = obj[k]
            /\ obj[k].resourceVersion = request[k].resourceVersion
    BY <1>0, <1>1, <1>6, Numbers
  <2> QED
    BY <1>1, <1>8, <2>1, <2>2, <2>3
<1>10. DoneInv(k)'
  <2> SUFFICES ASSUME Served(k), request'[k].ready \in ReadyReasons,
                      request'[k].observedGeneration >= request'[k].generation
               PROVE  Publishes(k)
    BY <1>1, <1>3, <1>4 DEF DoneInv
  <2>1. CASE request'[k] = request[k]
    BY <2>1 DEF PublishedInvAt, DoneInv
  <2>2. CASE StatusStored(k, readies)
    <3>1. /\ obj[k].resourceVersion = request[k].resourceVersion
          /\ obj[k].observedGeneration >= request[k].generation
          /\ request'[k].ready \in readies
      BY <1>1, <2>2 DEF StatusStored, Fresh
    <3>2. CASE pc[k] = "updateStatus"
      <4>1. obj[k].generation = request[k].generation
        BY <1>7, <3>1, <3>2, Kinds
      <4> QED
        BY <1>0, <3>1, <3>2, <4>1, Counts DEF PublishedInvAt, DoneInv
    <3>3. CASE pc[k] /= "updateStatus"
      <4>1. request'[k].ready = obj[k].ready /\ pc[k] /= "handleError"
        BY <3>1, <3>3
      <4> QED
        BY <1>6, <3>1, <3>3, <4>1 DEF PublishedInvAt, DoneInv
    <3> QED
      BY <3>2, <3>3
  <2> QED
    BY <2>1, <2>2
<1>11. ReadyInv(k)'
  <2> SUFFICES ASSUME IsReady(k)', pc'[k] = "idle"
               PROVE  Publishes(k) \/ Behind(k)'
    BY <1>3, <1>4 DEF ReadyInv
  <2>1. Served(k)
    BY <1>1 DEF IsReady, Served, KnownAt, GenerationInvAt, StatusInv
  <2>2. CASE pc[k] = "updateStatus"
    BY <1>2, <2>1, <2>2 DEF PublishedInvAt, DoneInv
  <2>3. CASE pc[k] = "ignoreError"
    <3>1. request'[k] = request[k]
      BY <2>3 DEF IsReady, StatusStored
    <3> QED
      BY <1>2, <2>3, <3>1, Names DEF PublishedInvAt, ReadyInv, IsReady
  <2>4. CASE pc[k] \notin {"updateStatus", "ignoreError"}
    BY <2>4, <1>4 DEF Behind
  <2> QED
    BY <2>2, <2>3, <2>4
<1> QED
  BY <1>5, <1>9, <1>10, <1>11 DEF PublishedInvAt

LEMMA StatusPublished ==
    ASSUME NEW k \in Requests, KnownAt(k), KnownAt(k)', PublishedInvAt(k), RowsKept(k),
           UpdateCreateStatus(k)
    PROVE  PublishedInvAt(k)'
<1>0. TypeOK /\ OrphanInvAt(k)
  BY DEF KnownAt, TypeInv
<1>1. /\ service' = service /\ secret' = secret
      /\ pc[k] = "updateCreateStatus" /\ pc[k] \in Serving
      /\ cached' = cached /\ queue' = queue
      /\ StatusAnswered(k) \/ StatusLost(k, {obj[k].ready})
  BY <1>0, StatusSteps, Kinds DEF UpdateCreateStatus
<1>2. CASE StatusLost(k, {obj[k].ready})
  <2>1. /\ pc'[k] = "handleError" /\ obj'[k] = obj[k]
        /\ request'[k] = request[k] \/ StatusStored(k, {obj[k].ready})
        /\ pc[k] \in (Serving \cup Failing) \ {"idle"}
    BY <1>1, <1>2 DEF StatusLost
  <2> QED
    BY <1>1, <2>1, StatusEndPublished
<1>3. CASE StatusAnswered(k)
  <2>1. /\ StatusStored(k, {obj[k].ready})
        /\ pc'[k] = "getDatabaseInfo"
        /\ obj'[k].generation = request'[k].generation
    BY <1>1, <1>3 DEF StatusAnswered
  <2>2. /\ Served(k)' = Served(k)
        /\ request'[k].generation = request[k].generation
        /\ request'[k].connectionReference = request[k].connectionReference
        /\ request'[k].observedGeneration = obj[k].observedGeneration
        /\ request'[k].ready = obj[k].ready
        /\ obj[k].resourceVersion = request[k].resourceVersion
    BY <2>1 DEF StatusStored, Touched, Followed, Served, Fresh
  <2>3. /\ obj[k].ready = request[k].ready
        /\ obj[k].observedGeneration = request[k].observedGeneration
        /\ obj[k].generation = request[k].generation
    BY <1>1, <2>2, ServingFacts
       DEF KnownAt, GenerationInvAt, MemoryInv, MemoryStatus, MemorySpec
  <2>4. Publishes(k) => Publishes(k)'
    BY <1>0, <1>1, <2>2, PublishesKept
  <2>5. PublishMemory(k)' /\ AddingInv(k)' /\ BehindInv(k)' /\ ReadyInv(k)'
    BY <2>1, Names DEF PublishMemory, AddingInv, BehindInv, ReadyInv
  <2>6. SeenInv(k)'
    BY <1>1, <2>1, <2>2, <2>3 DEF PublishedInvAt, SeenInv, CachedCurrent
  <2>7. DoneInv(k)'
    BY <2>1, <2>2, <2>3, <2>4 DEF PublishedInvAt, DoneInv
  <2> QED
    BY <2>5, <2>6, <2>7 DEF PublishedInvAt
<1> QED
  BY <1>1, <1>2, <1>3

LEMMA ReturnPublished ==
    ASSUME NEW k \in Requests, KnownAt(k), KnownAt(k)', PublishedInvAt(k), RowsKept(k),
           UpdateStatus(k) \/ HandleError(k) \/ Panic(k)
    PROVE  PublishedInvAt(k)'
<1>0. TypeOK
  BY DEF KnownAt, TypeInv
<1>1. service' = service /\ secret' = secret
  BY DEF UpdateStatus, HandleError, Panic, store
<1>2. CASE UpdateStatus(k)
  <2>1. /\ cached' = cached /\ queue' = queue
        /\ pc[k] = "updateStatus" /\ pc[k] \in (Serving \cup Failing) \ {"idle"}
        /\ request'[k] = request[k] \/ StatusStored(k, ReadyReasons)
        /\ \/ pc'[k] = "idle"
           \/ pc'[k] = "handleError" /\ obj'[k] = obj[k] /\ pc[k] \in Serving
    BY <1>0, <1>2, UpdateStatusStep, Kinds DEF StatusLost
  <2> QED
    BY <1>1, <2>1, StatusEndPublished
<1>3. CASE HandleError(k)
  <2>1. /\ cached' = cached
        /\ (k \in queue => k \in queue')
        /\ pc[k] \in {"handleError", "ignoreError"}
        /\ pc[k] \in (Serving \cup Failing) \ {"idle"}
        /\ pc[k] = "handleError" => k \in queue'
        /\ pc'[k] = "idle"
        /\ request'[k] = request[k] \/ StatusStored(k, {"Failed"})
    BY <1>0, <1>3, HandleErrorStep DEF Failing
  <2>2. {"Failed"} \cap ReadyReasons = {}
    BY DEF ReadyReasons
  <2> QED
    BY <1>1, <2>1, <2>2, StatusEndPublished
<1>4. CASE Panic(k)
  <2>1. /\ request' = request /\ cached' = cached /\ k \in queue'
        /\ pc'[k] = "idle" /\ pc[k] = "handleService"
        /\ pc[k] \in (Serving \cup Failing) \ {"idle"}
    BY <1>0, <1>4, Kinds DEF Panic, Requeue, Idle, Goto, TypeOK, store, caches
  <2> QED
    BY <1>1, <2>1, StatusEndPublished
<1> QED
  BY <1>2, <1>3, <1>4

LEMMA AddFinalizerPublished ==
    ASSUME NEW k \in Requests, KnownAt(k), KnownAt(k)', PublishedInvAt(k), RowsKept(k),
           AddFinalizer(k)
    PROVE  PublishedInvAt(k)'
<1>0. TypeOK /\ MemoryStatus(k)
  BY DEF KnownAt, TypeInv, GenerationInvAt, MemoryInv
<1>1. /\ service' = service /\ secret' = secret
      /\ cached' = cached /\ queue' = queue
      /\ pc[k] = "addFinalizer"
      /\ request'[k] = request[k] \/ ObjectStored(k)
  BY <1>0, AddFinalizerStep DEF AddFinalizer
<1>2. CASE request'[k] = request[k] /\ pc'[k] = "handleError"
           /\ obj'[k].resourceVersion = obj[k].resourceVersion
           /\ SameStatus(obj'[k], obj[k])
  <2>1. Served(k)' = Served(k) /\ (Publishes(k) => Publishes(k)')
    BY <1>0, <1>1, <1>2, PublishesKept DEF Served
  <2>2. pc'[k] \notin Serving /\ pc'[k] \notin Creating
    BY <1>2, Kinds DEF Serving
  <2>3. PublishMemory(k)' /\ AddingInv(k)' /\ BehindInv(k)' /\ ReadyInv(k)'
    BY <1>2, <2>2 DEF PublishMemory, AddingInv, BehindInv, ReadyInv
  <2>4. obj[k].resourceVersion = request[k].resourceVersion =>
            obj[k].observedGeneration = request[k].observedGeneration
    BY <1>0, <1>1 DEF MemoryStatus
  <2>5. SeenInv(k)'
    BY <1>1, <1>2, <2>1, <2>2, <2>4 DEF PublishedInvAt, SeenInv, CachedCurrent, SameStatus
  <2>6. DoneInv(k)'
    BY <1>1, <1>2, <2>1 DEF PublishedInvAt, DoneInv
  <2> QED
    BY <2>3, <2>5, <2>6 DEF PublishedInvAt
<1>3. ASSUME ObjectStored(k),
             \/ pc'[k] = "handleError"
             \/ \E answer \in Object :
                    /\ Answer(k, answer)
                    /\ pc'[k] = CreateStep(answer)
                    /\ pc'[k] /= "idle" => obj'[k] = answer
      PROVE  PublishedInvAt(k)'
  <2>1. ~request[k].finalizer /\ ~(request'[k].ready \in ReadyReasons)
    BY <1>1, <1>3
       DEF PublishedInvAt, AddingInv, ObjectStored, Fresh, SameStatus, KnownAt,
           GenerationInvAt, StatusInv
  <2>2. Served(k)' => ~cached'[k].finalizer
    <3>1. obj[k].resourceVersion = request[k].resourceVersion /\ request[k].exists
      BY <1>3 DEF ObjectStored, Fresh
    <3>2. cached[k].uid = request[k].uid
      BY <1>1, <3>1 DEF KnownAt, IdentityInvAt
    <3>3. cached[k].exists
      BY <3>1, <3>2 DEF KnownAt, GenerationInvAt, StatusInv
    <3>4. ~(cached[k].finalizer /\ ~cached[k].deleting)
      BY <2>1, <3>3 DEF KnownAt, OrphanInvAt, CacheInv
    <3>5. cached[k].deleting => request'[k].deleting
      BY <1>3, <3>1, <3>2, <3>3 DEF KnownAt, OrphanInvAt, CacheInv, ObjectStored, Touched
    <3> QED
      BY <1>1, <3>4, <3>5 DEF Served
  <2>3. \/ pc'[k] \in {"idle", "handleError"}
        \/ /\ pc'[k] \in {"handleSeed", "createDatabase", "getDatabaseInfo"}
           /\ obj'[k].generation = request'[k].generation
    BY <1>3, CreateStepKinds DEF Answer
  <2>4. {"idle", "handleError"} \cap Creating = {}
    BY Kinds
  <2>5. PublishMemory(k)' /\ AddingInv(k)' /\ BehindInv(k)'
    BY <2>3, <2>4 DEF PublishMemory, AddingInv, BehindInv
  <2>6. SeenInv(k)'
    BY <2>2, <2>3, <2>4 DEF SeenInv, CachedCurrent, Serving
  <2>7. DoneInv(k)' /\ ReadyInv(k)'
    BY <2>1, <2>3 DEF DoneInv, ReadyInv, IsReady
  <2> QED
    BY <2>5, <2>6, <2>7 DEF PublishedInvAt
<1> QED
  BY <1>0, <1>1, <1>2, <1>3, AddFinalizerStep

LEMMA UpdateRequestPublished ==
    ASSUME NEW k \in Requests, KnownAt(k), KnownAt(k)', PublishedInvAt(k), RowsKept(k),
           UpdateRequest(k)
    PROVE  PublishedInvAt(k)'
<1>0. TypeOK /\ TypeOK' /\ OrphanInvAt(k) /\ MemoryStatus(k)
  BY DEF KnownAt, TypeInv, GenerationInvAt, MemoryInv
<1>1. /\ service' = service /\ secret' = secret
      /\ cached' = cached
      /\ k \in queue => k \in queue'
      /\ pc[k] = "updateRequest" /\ pc[k] \in Serving
      /\ request'[k] = request[k] \/ ObjectStored(k)
  BY <1>0, UpdateRequestStep, Kinds DEF UpdateRequest
<1>2. /\ request[k].exists /\ request[k].finalizer
      /\ obj[k].uid = request[k].uid
      /\ obj[k].generation <= request[k].generation
      /\ obj[k].resourceVersion = request[k].resourceVersion =>
            obj[k].generation = request[k].generation
      /\ request[k].observedGeneration <= request[k].generation
  BY <1>1, ServingFacts
     DEF KnownAt, GenerationInvAt, StatusInv, MemoryInv, MemorySpec
<1>3. Served(k)' = Served(k)
  BY <1>1, <1>2 DEF Served, ObjectStored, Touched
<1>4. /\ request'[k].observedGeneration = request[k].observedGeneration
      /\ request'[k].ready = request[k].ready
      /\ \/ /\ request'[k].generation = request[k].generation
            /\ Followed(request'[k], request[k])
         \/ request'[k].generation = request[k].generation + 1
  BY <1>1 DEF ObjectStored, SameStatus, Followed
<1>5. Followed(request'[k], request[k]) /\ Publishes(k) => Publishes(k)'
  BY <1>0, <1>1, PublishesKept DEF Followed
<1>6. request'[k].generation = request[k].generation + 1 =>
        /\ ~(request'[k].observedGeneration >= request'[k].generation)
        /\ Served(k) => Behind(k)'
  <2> SUFFICES ASSUME request'[k].generation = request[k].generation + 1
               PROVE  /\ ~(request'[k].observedGeneration >= request'[k].generation)
                      /\ Served(k) => Behind(k)'
    OBVIOUS
  <2>1. ~(request'[k].observedGeneration >= request'[k].generation)
    BY <1>0, <1>2, <1>4, Counts
  <2>2. Served(k) => cached[k].generation /= request'[k].generation
    BY <1>0, ServedFacts, Counts
  <2> QED
    BY <1>1, <2>1, <2>2 DEF Behind
<1>7. Served(k) /\ request'[k].observedGeneration >= request'[k].generation =>
        CachedCurrent(k)'
  <2> SUFFICES ASSUME Served(k), request'[k].observedGeneration >= request'[k].generation
               PROVE  CachedCurrent(k)'
    OBVIOUS
  <2>1. /\ request'[k].generation = request[k].generation
        /\ request'[k].observedGeneration = request[k].observedGeneration
    BY <1>4, <1>6
  <2>2. CachedCurrent(k)
    BY <2>1 DEF PublishedInvAt, SeenInv
  <2> QED
    BY <1>1, <2>1, <2>2 DEF CachedCurrent
<1>8. /\ request'[k].ready \in ReadyReasons
      /\ request'[k].observedGeneration >= request'[k].generation
      /\ Served(k)
      => Publishes(k)'
  BY <1>4, <1>5, <1>6 DEF PublishedInvAt, DoneInv
<1>9. IsReady(k)' => Served(k)
  BY <1>3 DEF IsReady, Served, KnownAt, GenerationInvAt, StatusInv
<1>10. CASE pc'[k] = "idle" /\ k \in queue'
  <2>1. pc'[k] \notin Serving /\ pc'[k] \notin Creating
    BY <1>10, Kinds DEF Serving
  <2>2. PublishMemory(k)' /\ AddingInv(k)' /\ BehindInv(k)' /\ ReadyInv(k)'
    BY <1>10, <2>1 DEF PublishMemory, AddingInv, BehindInv, ReadyInv, Behind
  <2>3. SeenInv(k)' /\ DoneInv(k)'
    BY <1>3, <1>7, <1>8, <1>10, <2>1 DEF SeenInv, DoneInv
  <2> QED
    BY <2>2, <2>3 DEF PublishedInvAt
<1>11. CASE /\ pc'[k] = "updateStatus" /\ ObjectStored(k) /\ Answer(k, obj'[k])
            /\ obj'[k].observedGeneration =
                    IF request[k].observedGeneration = 0
                    THEN obj[k].generation
                    ELSE request[k].observedGeneration
  <2>1. /\ obj'[k].generation = request'[k].generation
        /\ obj'[k].resourceVersion = request'[k].resourceVersion
        /\ obj[k].generation = request[k].generation
    BY <1>2, <1>11 DEF Answer, ObjectStored, Fresh
  <2>2. PublishMemory(k)' /\ AddingInv(k)' /\ BehindInv(k)'
    BY <1>11, <2>1 DEF PublishMemory, AddingInv, BehindInv
  <2>3. request'[k].generation = request[k].generation + 1 =>
            obj'[k].observedGeneration < obj'[k].generation
    BY <1>0, <1>2, <1>11, <2>1, Counts
  <2>4. SeenInv(k)'
    <3>1. CASE request'[k].generation = request[k].generation
      <4>1. Served(k) => (cached[k].finalizer => cached[k].generation >= obj[k].generation)
        BY <1>1 DEF PublishedInvAt, SeenInv
      <4> QED
        BY <1>1, <1>3, <1>7, <1>11, <2>1, <3>1, <4>1 DEF SeenInv
    <3>2. CASE request'[k].generation = request[k].generation + 1
      BY <1>3, <1>7, <1>11, <2>1, <2>3, <3>2 DEF SeenInv
    <3> QED
      BY <1>4, <3>1, <3>2
  <2>5. Served(k) =>
            \/ Publishes(k)'
            \/ Behind(k)' /\ obj'[k].observedGeneration < obj'[k].generation
    <3>1. CASE Followed(request'[k], request[k])
      <4>1. /\ request[k].connectionReference = obj[k].connectionReference
            /\ ~request[k].seed
            /\ request[k].connectionReference /= None
        BY <1>1, <1>11, <3>1
           DEF ObjectStored, Followed, KnownAt, GenerationInvAt, MemoryInv, PathInv
      <4>2. /\ dbInfo[k] /= None /\ secret[k] = dbInfo[k]
            /\ service[k] = dbInfo[k].conn
            /\ obj[k].connectionReference = dbInfo[k].conn
            /\ dbInfo[k].cred = users[<<dbInfo[k].conn, k>>]
        BY <1>1, <2>1, <4>1 DEF PublishedInvAt, PublishMemory
      <4>3. dbInfo[k] \in DatabaseInfo
        BY <1>0, <4>2 DEF TypeOK
      <4>4. dbInfo[k] = [conn |-> dbInfo[k].conn, cred |-> dbInfo[k].cred]
        BY <4>3 DEF DatabaseInfo
      <4>5. Publishes(k)
        BY <4>1, <4>2, <4>4 DEF Publishes
      <4> QED
        BY <1>5, <3>1, <4>5
    <3>2. CASE request'[k].generation = request[k].generation + 1
      BY <1>6, <2>3, <3>2
    <3> QED
      BY <1>4, <3>1, <3>2
  <2>6. DoneInv(k)'
    BY <1>3, <1>8, <2>1, <2>5 DEF DoneInv
  <2>7. ReadyInv(k)'
    BY <1>9, <2>5 DEF ReadyInv
  <2> QED
    BY <2>2, <2>4, <2>6, <2>7 DEF PublishedInvAt
<1> QED
  BY <1>0, <1>10, <1>11, UpdateRequestStep

LEMMA StepPublished ==
    ASSUME NEW k \in Requests, KnownAt(k), KnownAt(k)', PublishedInvAt(k), RowsKept(k),
           stale = {}, Step(k)
    PROVE  PublishedInvAt(k)'
<1>0. TypeOK'
  BY DEF KnownAt, TypeInv
<1>1. CASE DropDatabase(k) \/ UpdateDropStatus(k) \/ DeleteService(k) \/ DeleteSecret(k)
           \/ RemoveFinalizer(k)
  <2>1. pc[k] \in Deleting
    BY <1>1, Kinds
       DEF DropDatabase, UpdateDropStatus, DeleteService, DeleteSecret, RemoveFinalizer
  <2> QED
    BY <2>1, DeletingPublished
<1> QED
  BY <1>0, <1>1, CallPublished, PublishPublished, StatusPublished, AddFinalizerPublished,
     UpdateRequestPublished, ReturnPublished DEF Step

\* The actions of other requests take a request out of the queue as little as
\* the caches of its Service and Secret.
LEMMA OtherQueue ==
    ASSUME TypeOK, NEW k \in Requests, NEW j \in Requests, j /= k, j \in queue,
           Reconcile(k) \/ Step(k) \/ Sync(k) \/ User(k)
    PROVE  j \in queue'
<1>1. CASE Reconcile(k) \/ AddFinalizer(k)
  BY <1>1 DEF Reconcile, AddFinalizer
<1>2. CASE HandleSeed(k) \/ SetDatabaseInfo(k) \/ DeleteSeedSecret(k)
  BY <1>2 DEF HandleSeed, SetDatabaseInfo, DeleteSeedSecret
<1>3. CASE CreateDatabase(k) \/ GetDatabaseInfo(k) \/ DropDatabase(k)
  BY <1>3 DEF CreateDatabase, GetDatabaseInfo, DropDatabase
<1>4. CASE UpdateCreateStatus(k) \/ UpdateDropStatus(k)
  BY <1>4 DEF UpdateCreateStatus, UpdateDropStatus
<1>5. CASE HandleService(k) \/ HandleSecret(k) \/ DeleteService(k) \/ DeleteSecret(k)
  BY <1>5 DEF HandleService, HandleSecret, DeleteService, DeleteSecret
<1>6. CASE Panic(k) \/ UpdateRequest(k) \/ UpdateStatus(k) \/ HandleError(k)
           \/ RemoveFinalizer(k)
  BY <1>6
     DEF Panic, UpdateRequest, UpdateStatus, HandleError, RemoveFinalizer, Done, Requeue
<1>7. CASE Sync(k)
  BY <1>7 DEF Sync, SyncRequest, SyncService, SyncSecret
<1>8. CASE User(k)
  BY <1>8 DEF User, CreateRequest, DeleteRequest, ForceReconcile, ChangeReference, Edit
<1> QED
  BY <1>1, <1>2, <1>3, <1>4, <1>5, <1>6, <1>7, <1>8 DEF Step

\* Without CacheLag the caches of Services and Secrets are never behind.
LEMMA StaleStep ==
    ASSUME ~CacheLag, stale = {}, [Next]_vars
    PROVE  stale' = {}
<1>1. ASSUME NEW k \in Requests, Reconcile(k) \/ Sync(k) \/ User(k) PROVE stale' = {}
  BY <1>1
     DEF Reconcile, Sync, SyncRequest, SyncService, SyncSecret, User, CreateRequest,
         DeleteRequest, ForceReconcile, ChangeReference, Edit, caches
<1>2. ASSUME NEW k \in Requests,
             HandleService(k) \/ HandleSecret(k) \/ DeleteService(k) \/ DeleteSecret(k)
      PROVE  stale' = {}
  BY <1>2
     DEF HandleService, HandleSecret, DeleteService, DeleteSecret, WriteService, WriteSecret,
         publication, Fails
<1>3. ASSUME NEW k \in Requests, Step(k),
             ~(HandleService(k) \/ HandleSecret(k) \/ DeleteService(k) \/ DeleteSecret(k))
      PROVE  stale' = {}
  <2>1. CASE AddFinalizer(k) \/ UpdateCreateStatus(k) \/ UpdateDropStatus(k)
             \/ RemoveFinalizer(k) \/ UpdateRequest(k) \/ UpdateStatus(k) \/ HandleError(k)
             \/ Panic(k)
    BY <2>1
       DEF AddFinalizer, UpdateCreateStatus, UpdateDropStatus, RemoveFinalizer,
           UpdateRequest, UpdateStatus, HandleError, Panic, caches
  <2>2. CASE HandleSeed(k) \/ SetDatabaseInfo(k) \/ DeleteSeedSecret(k)
             \/ CreateDatabase(k) \/ GetDatabaseInfo(k) \/ DropDatabase(k)
    BY <2>2
       DEF HandleSeed, SetDatabaseInfo, DeleteSeedSecret, CreateDatabase, GetDatabaseInfo,
           DropDatabase, caches
  <2> QED
    BY <1>3, <2>1, <2>2 DEF Step
<1> QED
  BY <1>1, <1>2, <1>3 DEF Next, Crash, vars, caches

LEMMA PublishedInvInit == Init => PublishedInv
<1> SUFFICES ASSUME Init PROVE PublishedInv
  OBVIOUS
<1>1. stale = {}
  BY DEF Init
<1>2. ASSUME NEW k \in Requests PROVE PublishedInvAt(k)
  <2>1. request[k] = Absent(0) /\ pc[k] = "idle" /\ ~request[k].exists
    BY <1>2, AbsentMetadata DEF Init
  <2>2. pc[k] \notin Creating
    BY <2>1, Kinds
  <2>3. PublishMemory(k) /\ AddingInv(k)
    BY <2>1 DEF PublishMemory, AddingInv
  <2>4. ~Served(k) /\ ~IsReady(k)
    BY <2>1 DEF Served, IsReady
  <2> QED
    BY <2>3, <2>4 DEF PublishedInvAt, SeenInv, BehindInv, DoneInv, ReadyInv
<1> QED
  BY <1>1, <1>2 DEF PublishedInv

\* The invariants proved so far.
Known ==
    TypeInv /\ RowInv /\ OrphanInv /\ IdentityInv /\ ServedInv /\ GenerationInv

LEMMA KnownInit == Init => Known
BY TypeInvInit, RowInvInit, OrphanInvInit, IdentityInvInit, ServedInvInit, GenerationInvInit
   DEF Known

LEMMA KnownStep == Known /\ [Next]_vars => Known'
<1> SUFFICES ASSUME Known, [Next]_vars PROVE Known'
  OBVIOUS
<1>1. TypeInv' /\ RowInv'
  BY TypeInvStep, RowInvStep DEF Known
<1>2. OrphanInv' /\ IdentityInv' /\ ServedInv'
  BY <1>1, OrphanInvStep, IdentityInvStep, ServedInvStep DEF Known, TypeInv
<1>3. GenerationInv'
  BY <1>1, GenerationInvStep DEF Known, TypeInv
<1> QED
  BY <1>1, <1>2, <1>3 DEF Known

LEMMA PublishedInvStep ==
    ~CacheLag /\ Known /\ Known' /\ PublishedInv /\ [Next]_vars => PublishedInv'
<1> SUFFICES ASSUME ~CacheLag, Known, Known', PublishedInv, [Next]_vars
             PROVE  PublishedInv'
  OBVIOUS
<1>0. TypeOK /\ TypeOK' /\ stale = {} /\ stale' = {}
  BY StaleStep DEF Known, TypeInv, PublishedInv
<1> SUFFICES ASSUME NEW j \in Requests PROVE PublishedInvAt(j)'
  BY <1>0 DEF PublishedInv
<1>1. KnownAt(j) /\ PublishedInvAt(j) /\ RowsKept(j)
  BY RowsKeptStep
     DEF Known, KnownAt, OrphanInv, IdentityInv, ServedInv, GenerationInv, PublishedInv
<1>2. KnownAt(j)'
  BY DEF Known, KnownAt, OrphanInv, IdentityInv, ServedInv, GenerationInv
<1>3. ASSUME NEW k \in Requests, Reconcile(k) \/ Step(k) \/ Sync(k) \/ User(k)
      PROVE  PublishedInvAt(j)'
  <2>1. CASE j /= k
    <3>1. Untouched(j) /\ dbInfo'[j] = dbInfo[j] /\ (j \in queue => j \in queue')
      BY <1>0, <1>3, <2>1, OtherRequests, OtherInfo, OtherQueue
    <3> QED
      BY <1>1, <3>1, QuietPublished
  <2>2. CASE j = k
    BY <1>0, <1>1, <1>2, <1>3, <2>2, ReconcilePublished, StepPublished, SyncPublished,
       UserPublished
  <2> QED
    BY <2>1, <2>2
<1>4. CASE Crash
  <2>1. /\ request' = request /\ cached' = request /\ service' = service /\ secret' = secret
        /\ pc'[j] = "idle"
        /\ request[j].exists => j \in queue'
    BY <1>4 DEF Crash, store
  <2>2. Served(j)' = Served(j) /\ IsReady(j)' = IsReady(j)
    BY <2>1 DEF Served, IsReady
  <2>3. pc'[j] \notin Serving /\ pc'[j] \notin Creating
    BY <2>1, Kinds DEF Serving
  <2>4. Publishes(j) => Publishes(j)'
    BY <1>0, <1>1, <2>1, PublishesKept
  <2>5. PublishMemory(j)' /\ AddingInv(j)' /\ SeenInv(j)' /\ BehindInv(j)'
    BY <2>1, <2>2, <2>3
       DEF PublishMemory, AddingInv, SeenInv, CachedCurrent, BehindInv
  <2>6. DoneInv(j)'
    BY <1>1, <2>1, <2>2, <2>4 DEF PublishedInvAt, DoneInv
  <2>7. ReadyInv(j)'
    BY <2>1, <2>2 DEF ReadyInv, Behind, IsReady
  <2> QED
    BY <2>5, <2>6, <2>7 DEF PublishedInvAt
<1>5. CASE UNCHANGED vars
  <2>1. Untouched(j) /\ dbInfo' = dbInfo /\ queue' = queue
    BY <1>5 DEF Untouched, vars, store, caches, worker
  <2> QED
    BY <1>1, <2>1, QuietPublished
<1> QED
  BY <1>3, <1>4, <1>5 DEF Next

\* A quiescent Ready request has nothing to come.
LEMMA QuiescentPublishes ==
    ASSUME NEW k \in Requests, PublishedInvAt(k), Quiescent(k), IsReady(k)
    PROVE  Publishes(k)
<1>1. pc[k] \notin Creating /\ pc[k] /= "handleError"
  BY Kinds DEF Quiescent
<1>2. ~Behind(k)
  BY DEF Quiescent, Behind
<1> QED
  BY <1>1, <1>2 DEF PublishedInvAt, ReadyInv

\* When the controller is done with a request that reports Ready, its Service and
\* Secret publish the connection of its spec and its row there: Ready is written
\* after handleService and handleSecret (updateStatus), or by the status of a new
\* database (createDatabase), with a reconcile that goes on to publish it.  With
\* Service and Secret caches that lag (CacheLag) this is not so: handleService
\* finds in its cache what it would write and leaves what is there.
THEOREM ReadyPublishedCorrect ==
    ASSUME ~CacheLag
    PROVE  Spec => []ReadyPublished
<1> DEFINE Inv == Known /\ PublishedInv
<1>1. Init => Inv
  BY KnownInit, PublishedInvInit
<1>2. Inv /\ [Next]_vars => Inv'
  BY KnownStep, PublishedInvStep
<1>3. Inv => ReadyPublished
  BY QuiescentPublishes DEF PublishedInv, ReadyPublished, Publishes
<1> QED
  BY <1>1, <1>2, <1>3, PTL DEF Spec

-----------------------------------------------------------------------------
(* NoLeak, on one connection.                                              *)

\* An object with the finalizer says that its database is to be dropped: the
\* write that adds the finalizer makes it so.
DropInv(k) ==
    \A o \in {request[k], cached[k]} :
        o.exists /\ (o.finalizer \/ o.deleting) => o.dropDatabaseOnDelete

\* The seed goes from the spec before it goes from the copies.
SeedInv(k) ==
    request[k].exists /\ request[k].seed =>
        /\ cached[k].uid = request[k].uid => cached[k].seed
        /\ pc[k] \in Reading /\ obj[k].uid = request[k].uid => obj[k].seed

\* A deletion that can remove the finalizer knows whether there is a seed.
DeletingSeed(k) ==
    pc[k] \in Deleting /\ obj[k].resourceVersion = request[k].resourceVersion =>
        obj[k].seed = request[k].seed

SeedInvAt(k) == DropInv(k) /\ SeedInv(k) /\ DeletingSeed(k)

\* A write to an object that stays.
LEMMA SeedsKept ==
    ASSUME NEW k \in Requests, SeedInvAt(k), cached'[k] = cached[k],
           request'[k].exists = request[k].exists,
           request'[k].uid = request[k].uid,
           request'[k].seed => request[k].seed,
           \/ request'[k].dropDatabaseOnDelete
           \/ /\ request'[k].dropDatabaseOnDelete = request[k].dropDatabaseOnDelete
              /\ request'[k].finalizer => request[k].finalizer
              /\ request'[k].deleting => request[k].deleting \/ request[k].finalizer,
           request'[k].exists /\ request'[k].seed
                /\ pc'[k] \in Reading /\ obj'[k].uid = request'[k].uid => obj'[k].seed,
           DeletingSeed(k)'
    PROVE  SeedInvAt(k)'
<1>1. DropInv(k)'
  BY DEF SeedInvAt, DropInv
<1>2. SeedInv(k)'
  BY DEF SeedInvAt, SeedInv
<1> QED
  BY <1>1, <1>2 DEF SeedInvAt

LEMMA StatusKeepsSeeds ==
    ASSUME NEW k \in Requests, NEW readies, SeedInvAt(k), cached'[k] = cached[k],
           request'[k] = request[k] \/ StatusStored(k, readies),
           pc'[k] \notin Reading,
           DeletingSeed(k)'
    PROVE  SeedInvAt(k)' /\ (request'[k].seed => request[k].seed)
<1>1. /\ request'[k].exists = request[k].exists /\ request'[k].uid = request[k].uid
      /\ request'[k].seed => request[k].seed
      /\ request'[k].dropDatabaseOnDelete = request[k].dropDatabaseOnDelete
      /\ request'[k].finalizer = request[k].finalizer
      /\ request'[k].deleting = request[k].deleting
  BY DEF StatusStored, Touched, Followed
<1> QED
  BY <1>1, SeedsKept

LEMMA ObjectKeepsSeeds ==
    ASSUME NEW k \in Requests, SeedInvAt(k), cached'[k] = cached[k],
           request'[k] = request[k] \/ ObjectStored(k),
           obj[k].seed => request[k].seed \/ ~Fresh(k),
           pc'[k] \in Reading => Answer(k, obj'[k]),
           pc'[k] \notin Deleting
    PROVE  SeedInvAt(k)' /\ (request'[k].seed => request[k].seed)
<1>1. /\ request'[k].exists = request[k].exists /\ request'[k].uid = request[k].uid
      /\ request'[k].seed => request[k].seed
      /\ \/ request'[k].dropDatabaseOnDelete
         \/ request'[k] = request[k]
  BY DEF ObjectStored, Touched, Followed
<1>2. pc'[k] \in Reading => obj'[k].seed = request'[k].seed
  BY DEF Answer, Followed
<1> QED
  BY <1>1, <1>2, SeedsKept DEF DeletingSeed

\* The names of the steps that read the spec.
LEMMA ReadingKinds ==
    /\ Reading \subseteq Creating
    /\ {"idle", "handleError", "ignoreError", "getDatabaseInfo", "handleService",
        "handleSecret", "updateRequest", "updateStatus", "deleteService"}
            \cap Reading = {}
    /\ Reading \cap Deleting = {}
    /\ {"idle", "handleError", "ignoreError", "setDatabaseInfo", "deleteSeedSecret",
        "handleSeed", "createDatabase", "updateCreateStatus", "getDatabaseInfo",
        "handleService", "handleSecret", "updateRequest", "updateStatus"}
            \cap Deleting = {}
    /\ {"handleSeed", "setDatabaseInfo", "deleteSeedSecret", "createDatabase"}
            \subseteq Reading
BY DEF Reading, Creating, Deleting

LEMMA CallSeeds ==
    ASSUME TypeOK, NEW k \in Requests, SeedInvAt(k),
           \/ HandleSeed(k) \/ SetDatabaseInfo(k) \/ DeleteSeedSecret(k)
           \/ CreateDatabase(k) \/ GetDatabaseInfo(k) \/ HandleService(k)
           \/ HandleSecret(k) \/ DropDatabase(k) \/ DeleteService(k) \/ DeleteSecret(k)
    PROVE  SeedInvAt(k)' /\ (request'[k].seed => request[k].seed)
<1>1. /\ Local(k)
      /\ Followed(obj'[k], obj[k]) \/ pc'[k] = "handleService"
  BY CallLocal
<1>2. /\ pc'[k] \in Reading => pc[k] \in Reading /\ pc'[k] /= "handleService"
      /\ pc'[k] \in Deleting => pc[k] \in Deleting /\ pc'[k] /= "handleService"
  BY CallGoes, ReadingKinds, Kinds DEF Reading
<1>3. DeletingSeed(k)'
  BY <1>1, <1>2 DEF SeedInvAt, DeletingSeed, Local, Followed
<1> QED
  BY <1>1, <1>2, <1>3, SeedsKept DEF SeedInvAt, SeedInv, Local, Followed

LEMMA StepSeeds ==
    ASSUME NEW k \in Requests, KnownAt(k), SeedInvAt(k), Step(k)
    PROVE  SeedInvAt(k)' /\ (request'[k].exists /\ request'[k].seed => request[k].seed)
<1>0. TypeOK /\ OrphanInvAt(k) /\ MemoryStatus(k)
  BY DEF KnownAt, TypeInv, GenerationInvAt, MemoryInv
<1>1. CASE AddFinalizer(k)
  <2>1. /\ cached' = cached /\ pc[k] = "addFinalizer"
        /\ request'[k] = request[k] \/ ObjectStored(k)
        /\ \/ pc'[k] = "handleError"
           \/ \E answer \in Object :
                /\ Answer(k, answer)
                /\ pc'[k] = CreateStep(answer)
                /\ pc'[k] /= "idle" => obj'[k] = answer
    BY <1>0, <1>1, AddFinalizerStep
  <2>2. Fresh(k) => request[k].exists /\ obj[k].uid = request[k].uid
                    /\ obj[k].generation = request[k].generation
    BY <1>0, <2>1, Kinds
       DEF Fresh, OrphanInvAt, MemoryVersion, KnownAt, GenerationInvAt, MemoryInv, MemorySpec
  <2>3. Fresh(k) => obj[k].seed = request[k].seed
    BY <1>0, <2>1, <2>2, Kinds
       DEF KnownAt, GenerationInvAt, MemoryInv, MemorySpec, Followed, Reading
  <2>4. pc'[k] \notin Deleting /\ (pc'[k] \in Reading => Answer(k, obj'[k]))
    BY <2>1, CreateStepKinds, ReadingKinds, Kinds
  <2> QED
    BY <2>1, <2>3, <2>4, ObjectKeepsSeeds
<1>2. CASE UpdateRequest(k)
  <2>1. /\ cached' = cached /\ pc[k] = "updateRequest"
        /\ request'[k] = request[k] \/ ObjectStored(k)
        /\ pc'[k] \in {"idle", "updateStatus"}
    BY <1>0, <1>2, UpdateRequestStep
  <2>2. ~obj[k].seed
    BY <2>1 DEF KnownAt, GenerationInvAt, MemoryInv, PathInv
  <2>3. pc'[k] \notin Deleting /\ pc'[k] \notin Reading
    BY <2>1, ReadingKinds, Kinds
  <2> QED
    BY <2>1, <2>2, <2>3, ObjectKeepsSeeds
<1>3. CASE UpdateCreateStatus(k) \/ UpdateDropStatus(k)
  <2>1. /\ cached' = cached
        /\ StatusAnswered(k) \/ StatusLost(k, {obj[k].ready})
    BY <1>0, <1>3, StatusSteps
  <2>2. /\ request'[k] = request[k] \/ StatusStored(k, {obj[k].ready})
        /\ \/ pc'[k] \in {"getDatabaseInfo", "deleteService"} /\ obj'[k].seed = request'[k].seed
           \/ pc'[k] = "handleError"
    BY <2>1 DEF StatusAnswered, StatusLost
  <2>3. pc'[k] \notin Reading
    BY <2>2, ReadingKinds
  <2>4. DeletingSeed(k)'
    BY <2>2, Kinds DEF DeletingSeed
  <2> QED
    BY <2>1, <2>2, <2>3, <2>4, StatusKeepsSeeds
<1>4. CASE UpdateStatus(k) \/ HandleError(k) \/ Panic(k)
  <2>1. /\ cached' = cached /\ pc'[k] \in {"idle", "handleError"}
        /\ \/ request'[k] = request[k]
           \/ StatusStored(k, ReadyReasons) \/ StatusStored(k, {"Failed"})
    <3>1. CASE UpdateStatus(k)
      BY <1>0, <3>1, UpdateStatusStep DEF StatusLost
    <3>2. CASE HandleError(k)
      BY <1>0, <3>2, HandleErrorStep
    <3>3. CASE Panic(k)
      BY <1>0, <3>3 DEF Panic, Requeue, Idle, Goto, TypeOK, store, caches
    <3> QED
      BY <1>4, <3>1, <3>2, <3>3
  <2>2. pc'[k] \notin Reading /\ pc'[k] \notin Deleting
    BY <2>1, ReadingKinds, Kinds
  <2>3. DeletingSeed(k)'
    BY <2>2 DEF DeletingSeed
  <2> QED
    BY <2>1, <2>2, <2>3, StatusKeepsSeeds
<1>5. CASE RemoveFinalizer(k)
  <2>1. /\ cached' = cached /\ pc'[k] \in {"idle", "handleError"}
        /\ request'[k] = request[k] \/ ~request'[k].exists
    BY <1>0, <1>5, RemoveFinalizerStep DEF Gone
  <2>2. pc'[k] \notin Reading /\ pc'[k] \notin Deleting
    BY <2>1, ReadingKinds, Kinds
  <2> QED
    BY <2>1, <2>2 DEF SeedInvAt, DropInv, SeedInv, DeletingSeed
<1> QED
  BY <1>0, <1>1, <1>2, <1>3, <1>4, <1>5, CallSeeds DEF Step

LEMMA ReconcileSeeds ==
    ASSUME NEW k \in Requests, KnownAt(k), SeedInvAt(k), Reconcile(k)
    PROVE  SeedInvAt(k)'
<1>0. TypeOK
  BY DEF KnownAt, TypeInv
<1>1. /\ request' = request /\ cached' = cached
      /\ pc'[k] /= "idle" => obj'[k] = cached[k]
  BY <1>0, ReconcileStep
<1>2. pc'[k] \in Reading \cup Deleting => obj'[k] = cached[k]
  BY <1>1, ReadingKinds
<1>3. DeletingSeed(k)'
  BY <1>1, <1>2 DEF DeletingSeed, KnownAt, OrphanInvAt, CacheInv
<1> QED
  BY <1>1, <1>2, <1>3 DEF SeedInvAt, DropInv, SeedInv

LEMMA SyncSeeds ==
    ASSUME NEW k \in Requests, KnownAt(k), SeedInvAt(k), Sync(k)
    PROVE  SeedInvAt(k)'
<1>0. TypeOK
  BY DEF KnownAt, TypeInv
<1>1. /\ request' = request /\ pc' = pc /\ obj' = obj
      /\ cached'[k] \in {cached[k], request[k]}
  BY <1>0 DEF Sync, SyncRequest, SyncService, SyncSecret, store, worker, TypeOK
<1> QED
  BY <1>1 DEF SeedInvAt, DropInv, SeedInv, DeletingSeed

LEMMA UserSeeds ==
    ASSUME NEW k \in Requests, KnownAt(k), SeedInvAt(k), User(k)
    PROVE  SeedInvAt(k)'
<1>0. TypeOK /\ OrphanInvAt(k)
  BY DEF KnownAt, TypeInv
<1>1. cached'[k] = cached[k] /\ pc'[k] = pc[k] /\ obj'[k] = obj[k]
  BY <1>0, UserMoves DEF caches, worker
<1>2. request'[k].resourceVersion = request[k].resourceVersion + 1
  BY <1>0, UserMoves DEF Begun, Changed, Gone
<1>3. DeletingSeed(k)'
  BY <1>0, <1>1, <1>2, Numbers DEF DeletingSeed, OrphanInvAt, MemoryVersion
<1>4. CASE Begun(k)
  <2>1. cached[k].uid /= request'[k].uid
    BY <1>0, <1>4, Numbers DEF OrphanInvAt, CacheInv, Begun
  <2>2. pc[k] \in Reading => obj[k].uid /= request'[k].uid
    BY <1>0, <1>4, Numbers, ReadingKinds DEF OrphanInvAt, MemoryVersion, Begun
  <2>3. DropInv(k)'
    BY <1>1, <1>4 DEF SeedInvAt, DropInv, Begun
  <2> QED
    BY <1>1, <1>3, <2>1, <2>2, <2>3 DEF SeedInvAt, SeedInv
<1>5. CASE Changed(k)
  <2>1. /\ request'[k].exists = request[k].exists
        /\ request'[k].seed = request[k].seed
    BY <1>5 DEF Changed
  <2> QED
    BY <1>1, <1>3, <1>5, <2>1, SeedsKept DEF Changed, SeedInvAt, SeedInv
<1>6. CASE Gone(request[k], request'[k])
  BY <1>1, <1>3, <1>6 DEF Gone, SeedInvAt, DropInv, SeedInv
<1> QED
  BY <1>0, <1>4, <1>5, <1>6, UserMoves

SeedInvs == \A k \in Requests : SeedInvAt(k)

LEMMA SeedsInit == Init => SeedInvs
<1> SUFFICES ASSUME Init, NEW k \in Requests PROVE SeedInvAt(k)
  BY DEF SeedInvs
<1>1. /\ request[k] = Absent(0) /\ cached[k] = Absent(0) /\ pc[k] = "idle"
      /\ ~Absent(0).exists
  BY AbsentMetadata DEF Init
<1> QED
  BY <1>1, Names DEF SeedInvAt, DropInv, SeedInv, DeletingSeed

LEMMA SeedsStep == Known /\ SeedInvs /\ [Next]_vars => SeedInvs'
<1> SUFFICES ASSUME Known, SeedInvs, [Next]_vars, NEW j \in Requests
             PROVE  SeedInvAt(j)'
  BY DEF SeedInvs
<1>1. KnownAt(j) /\ SeedInvAt(j) /\ TypeOK
  BY DEF Known, KnownAt, OrphanInv, IdentityInv, ServedInv, GenerationInv, SeedInvs, TypeInv
<1>2. ASSUME Untouched(j) PROVE SeedInvAt(j)'
  BY <1>1, <1>2 DEF Untouched, SeedInvAt, DropInv, SeedInv, DeletingSeed
<1>3. ASSUME NEW k \in Requests, Reconcile(k) \/ Step(k) \/ Sync(k) \/ User(k)
      PROVE  SeedInvAt(j)'
  <2>1. CASE j /= k
    BY <1>1, <1>2, <1>3, <2>1, OtherRequests
  <2>2. CASE j = k
    BY <1>1, <1>3, <2>2, ReconcileSeeds, StepSeeds, SyncSeeds, UserSeeds
  <2> QED
    BY <2>1, <2>2
<1>4. CASE Crash
  <2>1. request'[j] = request[j] /\ cached'[j] = request[j] /\ pc'[j] = "idle"
    BY <1>4 DEF Crash, store
  <2> QED
    BY <1>1, <2>1, Names, ReadingKinds DEF SeedInvAt, DropInv, SeedInv, DeletingSeed
<1>5. CASE UNCHANGED vars
  BY <1>2, <1>5 DEF Untouched, vars, store, caches, worker
<1> QED
  BY <1>3, <1>4, <1>5 DEF Next

-----------------------------------------------------------------------------
\* The database with the credentials drawn for k.
Drawn(n, k) == <<n, Generated(n, k)>> \in databases

\* It has the row of k, and k's object is there and will have it dropped ...
OwnedInv(k) ==
    \A n \in Connections : Drawn(n, k) =>
        /\ users[<<n, k>>] = Generated(n, k)
        /\ request[k].exists /\ request[k].finalizer
        /\ request[k].type \in RelationalTypes
        /\ ~request[k].seed

\* ... before its deletion gets any further.
DroppedInv(k) ==
    /\ pc[k] \in Deleting \ {"dropDatabase"}
    /\ request[k].exists /\ obj[k].uid = request[k].uid
    /\ obj[k].type \in RelationalTypes /\ ~obj[k].seed
    => \A n \in Connections : ~Drawn(n, k)

OwnedInvAt(k) == OwnedInv(k) /\ DroppedInv(k)

\* Credentials that were drawn are neither None nor a seed's, and of one row.
LEMMA GeneratedOnce ==
    ASSUME NEW n \in Connections, NEW k \in Requests
    PROVE  /\ Generated(n, k) /= None
           /\ Generated(n, k) \notin SeedCredentials
           /\ \A m, j : Generated(n, k) = Generated(m, j) => n = m /\ k = j
BY SeedAssumption DEF SeedAssumption, Credentials, Generated

\* Only CreateDatabase makes databases.
LEMMA DatabasesStep ==
    ASSUME NEW j \in Requests, ~CreateDatabase(j),
           Reconcile(j) \/ Step(j) \/ Sync(j) \/ User(j)
    PROVE  databases' \subseteq databases
<1>1. CASE Reconcile(j) \/ Sync(j) \/ User(j)
  BY <1>1
     DEF Reconcile, Sync, SyncRequest, SyncService, SyncSecret, User, CreateRequest,
         DeleteRequest, ForceReconcile, ChangeReference, Edit, server
<1>2. CASE DropDatabase(j)
  BY <1>2 DEF DropDatabase, Fails, server
<1>3. CASE \/ AddFinalizer(j) \/ HandleSeed(j) \/ DeleteSeedSecret(j)
           \/ UpdateCreateStatus(j) \/ HandleService(j) \/ HandleSecret(j) \/ Panic(j)
           \/ UpdateRequest(j) \/ UpdateStatus(j) \/ HandleError(j)
           \/ UpdateDropStatus(j) \/ DeleteService(j) \/ DeleteSecret(j)
           \/ RemoveFinalizer(j) \/ SetDatabaseInfo(j) \/ GetDatabaseInfo(j)
  BY <1>3
     DEF AddFinalizer, HandleSeed, DeleteSeedSecret, UpdateCreateStatus,
         HandleService, HandleSecret, Panic, UpdateRequest, UpdateStatus, HandleError,
         UpdateDropStatus, DeleteService, DeleteSecret, RemoveFinalizer, SetDatabaseInfo,
         GetDatabaseInfo, server
<1> QED
  BY <1>1, <1>2, <1>3 DEF Step

\* It makes the database of the row of its request.
LEMMA DatabaseMade ==
    ASSUME NEW j \in Requests, CreateDatabase(j)
    PROVE  /\ databases \subseteq databases'
           /\ \A d \in databases' \ databases :
                \E m \in Pool :
                    /\ obj[j].type \in RelationalTypes
                    /\ users' = WithRow(m, j)
                    /\ d = <<m, users'[<<m, j>>]>>
<1>1. \/ databases' = databases
      \/ \E m \in Pool :
            /\ obj[j].type \in RelationalTypes
            /\ users' = WithRow(m, j)
            /\ databases' = WithDatabase(m, j)
  BY DEF CreateDatabase, Candidates, Fails
<1> QED
  BY <1>1 DEF WithDatabase

LEMMA DrawnStep ==
    ASSUME TypeOK, RowInv, RowInv', NEW j \in Requests,
           Reconcile(j) \/ Step(j) \/ Sync(j) \/ User(j),
           NEW n \in Connections, NEW k \in Requests, Drawn(n, k)', ~Drawn(n, k)
    PROVE  /\ j = k /\ CreateDatabase(k)
           /\ obj[k].type \in RelationalTypes
           /\ users'[<<n, k>>] = Generated(n, k)
<1>1. CreateDatabase(j)
  BY DatabasesStep DEF Drawn
<1>2. PICK m \in Pool :
        /\ obj[j].type \in RelationalTypes
        /\ <<n, Generated(n, k)>> = <<m, users'[<<m, j>>]>>
  BY <1>1, DatabaseMade DEF Drawn
<1>3. n = m /\ users'[<<n, j>>] = Generated(n, k)
  BY <1>2
<1>4. users'[<<n, j>>] \in SeedCredentials \cup {Generated(n, j), None}
  BY DEF RowInv
<1>5. j = k
  BY <1>3, <1>4, GeneratedOnce
<1> QED
  BY <1>1, <1>2, <1>3, <1>5

\* A step that makes no database, and lets the object be as it is.
LEMMA QuietOwned ==
    ASSUME NEW k \in Requests, OwnedInvAt(k), RowsKept(k),
           \A n \in Connections : Drawn(n, k)' => Drawn(n, k),
           request'[k].exists = request[k].exists,
           request'[k].uid = request[k].uid,
           request[k].finalizer => request'[k].finalizer,
           request'[k].type = request[k].type,
           request'[k].seed => request[k].seed,
           \/ pc'[k] \notin Deleting \ {"dropDatabase"}
           \/ /\ pc'[k] \in Deleting => pc[k] \in Deleting \ {"dropDatabase"}
              /\ obj[k].uid = obj'[k].uid
              /\ obj[k].type = obj'[k].type
              /\ obj[k].seed = obj'[k].seed
    PROVE  OwnedInvAt(k)'
<1>1. OwnedInv(k)'
  BY GeneratedOnce DEF OwnedInvAt, OwnedInv, RowsKept
<1>2. DroppedInv(k)'
  BY DEF OwnedInvAt, DroppedInv
<1> QED
  BY <1>1, <1>2 DEF OwnedInvAt

\* The steps that write the object of k, or none.
LEMMA StepTouches ==
    ASSUME TypeOK, NEW k \in Requests, OrphanInvAt(k), Step(k), ~RemoveFinalizer(k)
    PROVE  Settled(k) \/ Answered(k) \/ Advanced(k)
BY AddFinalizerMoves, CallMoves, StatusMoves, PublishMoves, WithdrawMoves, UpdateMoves,
   ReturnMoves DEF Step, Called

LEMMA CreateOwned ==
    ASSUME NEW k \in Requests, KnownAt(k), KindInvAt(k), SeedInvAt(k), OwnedInvAt(k),
           RowInv, RowInv', RowsKept(k), CreateDatabase(k)
    PROVE  OwnedInvAt(k)'
<1>0. TypeOK
  BY DEF KnownAt, TypeInv
<1>1. /\ request'[k] = request[k] /\ pc[k] = "createDatabase"
      /\ pc'[k] \in {"updateCreateStatus", "handleError"}
  BY <1>0 DEF CreateDatabase, Fails, Goto, TypeOK, store
<1>2. pc[k] \in Serving /\ pc[k] \in Creating /\ pc[k] \in Reading
  BY <1>1, Kinds, ReadingKinds DEF Serving
<1>3. /\ request[k].exists /\ request[k].finalizer
      /\ obj[k].uid = request[k].uid /\ obj[k].type = request[k].type
  BY <1>2, ServingFacts DEF KindInvAt
<1>4. ~request[k].seed
  BY <1>1, <1>2, <1>3
     DEF KnownAt, GenerationInvAt, MemoryInv, PathInv, SeedInvAt, SeedInv
<1>5. ASSUME NEW n \in Connections, Drawn(n, k)'
      PROVE  /\ users'[<<n, k>>] = Generated(n, k)
             /\ request[k].type \in RelationalTypes
  <2>1. CASE Drawn(n, k)
    BY <2>1, GeneratedOnce DEF OwnedInvAt, OwnedInv, RowsKept
  <2>2. CASE ~Drawn(n, k)
    BY <1>0, <1>3, <1>5, <2>2, DrawnStep DEF Step
  <2> QED
    BY <2>1, <2>2
<1>6. DroppedInv(k)'
  BY <1>1, ReadingKinds DEF DroppedInv
<1> QED
  BY <1>1, <1>3, <1>4, <1>5, <1>6 DEF OwnedInvAt, OwnedInv

\* The connections there are.
OneConnection == \A m, n \in Connections : m = n

LEMMA DropOwned ==
    ASSUME OneConnection,
           NEW k \in Requests, KnownAt(k), SeedInvAt(k), OwnedInvAt(k), RowsKept(k),
           DropDatabase(k)
    PROVE  OwnedInvAt(k)'
<1>0. TypeOK
  BY DEF KnownAt, TypeInv
<1>1. /\ request'[k] = request[k]
      /\ databases' \subseteq databases
  BY DEF DropDatabase, Fails, server, store
<1>2. OwnedInv(k)'
  BY <1>1, GeneratedOnce DEF OwnedInvAt, OwnedInv, RowsKept, Drawn
<1>3. \/ pc'[k] = "handleError"
      \/ pc'[k] = "deleteService" /\ obj'[k].type = "mongodb"
      \/ /\ obj[k].connectionReference \in Connections
         /\ databases' = databases \ {<<obj[k].connectionReference,
                WithRow(obj[k].connectionReference, k)[<<obj[k].connectionReference, k>>]>>}
  <2>1. obj[k].connectionReference \in Connections \cup {None}
    BY <1>0, ObjectTypes, FieldTypes
  <2> QED
    BY <1>0, <2>1 DEF DropDatabase, Fails, Goto, TypeOK
<1>4. DroppedInv(k)'
  <2>1. CASE pc'[k] = "handleError"
    BY <2>1, ReadingKinds DEF DroppedInv
  <2>2. CASE pc'[k] = "deleteService" /\ obj'[k].type = "mongodb"
    BY <2>2 DEF DroppedInv, RelationalTypes
  <2>3. ASSUME NEW n \in Connections,
               databases' = databases \ {<<n, WithRow(n, k)[<<n, k>>]>>},
               NEW m \in Connections
        PROVE  ~Drawn(m, k)'
    <3> SUFFICES ASSUME Drawn(m, k) PROVE ~Drawn(m, k)'
      BY <1>1 DEF Drawn
    <3>1. m = n /\ users[<<n, k>>] = Generated(n, k)
      BY DEF OwnedInvAt, OwnedInv, OneConnection
    <3>2. WithRow(n, k) = users
      BY <3>1, GeneratedOnce DEF WithRow
    <3> QED
      BY <2>3, <3>1, <3>2 DEF Drawn
  <2> QED
    BY <1>3, <2>1, <2>2, <2>3 DEF DroppedInv
<1> QED
  BY <1>2, <1>4 DEF OwnedInvAt

LEMMA RemoveOwned ==
    ASSUME NEW k \in Requests, KnownAt(k), KindInvAt(k), SeedInvAt(k), OwnedInvAt(k),
           RowsKept(k), RemoveFinalizer(k)
    PROVE  OwnedInvAt(k)'
<1>0. TypeOK /\ OrphanInvAt(k)
  BY DEF KnownAt, TypeInv
<1>1. /\ pc[k] = "removeFinalizer" /\ pc'[k] \in {"idle", "handleError"}
      /\ request'[k] = request[k] \/ Fresh(k)
  BY <1>0, RemoveFinalizerStep
<1>2. databases' = databases
  BY DEF RemoveFinalizer, server
<1>3. DroppedInv(k)'
  BY <1>1, ReadingKinds DEF DroppedInv
<1>4. CASE request'[k] = request[k]
  BY <1>2, <1>3, <1>4, GeneratedOnce DEF OwnedInvAt, OwnedInv, RowsKept, Drawn
<1>5. CASE Fresh(k)
  <2>1. /\ pc[k] \in Deleting /\ pc[k] /= "dropDatabase"
        /\ request[k].exists /\ obj[k].uid = request[k].uid
    BY <1>0, <1>1, <1>5, Kinds DEF Fresh, OrphanInvAt, MemoryVersion
  <2>2. obj[k].type = request[k].type /\ obj[k].seed = request[k].seed
    BY <1>5, <2>1 DEF Fresh, KindInvAt, SeedInvAt, DeletingSeed
  <2>3. \A n \in Connections : ~Drawn(n, k)
    BY <2>1, <2>2 DEF OwnedInvAt, OwnedInv, DroppedInv
  <2> QED
    BY <1>2, <1>3, <2>3 DEF OwnedInvAt, OwnedInv, Drawn
<1> QED
  BY <1>1, <1>4, <1>5

LEMMA StepOwned ==
    ASSUME OneConnection,
           NEW k \in Requests, KnownAt(k), KindInvAt(k), SeedInvAt(k), OwnedInvAt(k),
           RowInv, RowInv', RowsKept(k), Step(k)
    PROVE  OwnedInvAt(k)'
<1>0. TypeOK /\ OrphanInvAt(k)
  BY DEF KnownAt, TypeInv
<1> SUFFICES ASSUME ~CreateDatabase(k), ~DropDatabase(k), ~RemoveFinalizer(k)
             PROVE  OwnedInvAt(k)'
  BY CreateOwned, DropOwned, RemoveOwned
<1>1. \A n \in Connections : Drawn(n, k)' => Drawn(n, k)
  BY <1>0, DatabasesStep DEF Drawn
<1>2. Touched(request[k], request'[k])
  BY <1>0, StepTouches DEF Settled, Answered, Advanced, Touched
<1>3. request[k].exists => (request'[k].seed => request[k].seed)
  BY <1>2, StepSeeds DEF Touched
<1>4. /\ request'[k].exists = request[k].exists
      /\ request'[k].uid = request[k].uid
      /\ request[k].finalizer => request'[k].finalizer
      /\ request'[k].type = request[k].type
  BY <1>2 DEF Touched
<1>5. OwnedInv(k)'
  BY <1>1, <1>3, <1>4, GeneratedOnce DEF OwnedInvAt, OwnedInv, RowsKept
<1>6. CASE pc'[k] \notin Deleting
  BY <1>5, <1>6 DEF OwnedInvAt, DroppedInv
<1>7. CASE pc'[k] \in Deleting
  <2>1. pc[k] \in Deleting
    BY <1>0, <1>7, StepTouches, Kinds DEF Settled, Answered, Advanced, Serving
  <2>2. UpdateDropStatus(k) \/ DeleteService(k) \/ DeleteSecret(k)
    BY <2>1, ReadingKinds, Kinds
       DEF Step, AddFinalizer, HandleSeed, SetDatabaseInfo, DeleteSeedSecret,
           UpdateCreateStatus, GetDatabaseInfo, HandleService, HandleSecret, Panic,
           UpdateRequest, UpdateStatus, HandleError, Failing
  <2>3. CASE DeleteService(k) \/ DeleteSecret(k)
    <3>1. obj' = obj /\ request' = request /\ pc[k] /= "dropDatabase"
      BY <2>3 DEF DeleteService, DeleteSecret
    <3> QED
      BY <1>1, <1>5, <2>1, <3>1 DEF OwnedInvAt, DroppedInv
  <2>4. CASE UpdateDropStatus(k)
    <3>1. StatusAnswered(k) /\ pc[k] = "updateDropStatus"
      BY <1>0, <1>7, <2>4, StatusSteps, ReadingKinds DEF StatusLost, UpdateDropStatus
    <3>2. /\ Fresh(k)
          /\ obj'[k].uid = request'[k].uid /\ obj'[k].type = request'[k].type
          /\ obj'[k].seed = request'[k].seed /\ request'[k].seed = request[k].seed
      BY <3>1 DEF StatusAnswered, StatusStored, Answered, Followed
    <3>3. request[k].exists /\ obj[k].uid = request[k].uid
      BY <1>0, <2>1, <3>2 DEF OrphanInvAt, MemoryVersion, Fresh
    <3>4. obj[k].type = request[k].type /\ obj[k].seed = request[k].seed
      BY <2>1, <3>2, <3>3 DEF Fresh, KindInvAt, SeedInvAt, DeletingSeed
    <3> QED
      BY <1>1, <1>4, <1>5, <2>1, <3>1, <3>2, <3>3, <3>4 DEF OwnedInvAt, DroppedInv
  <2> QED
    BY <2>2, <2>3, <2>4
<1> QED
  BY <1>6, <1>7

LEMMA UserOwned ==
    ASSUME NEW k \in Requests, KnownAt(k), OwnedInvAt(k), User(k)
    PROVE  OwnedInvAt(k)'
<1>0. TypeOK /\ OrphanInvAt(k)
  BY DEF KnownAt, TypeInv
<1>1. users' = users /\ databases' = databases /\ pc'[k] = pc[k] /\ obj'[k] = obj[k]
  BY <1>0, UserMoves DEF server, worker
<1>2. CASE Changed(k)
  BY <1>1, <1>2 DEF Changed, OwnedInvAt, OwnedInv, DroppedInv, Drawn
<1>3. CASE ~request[k].exists \/ ~request[k].finalizer
  BY <1>1, <1>3 DEF OwnedInvAt, OwnedInv, DroppedInv, Drawn
<1> QED
  BY <1>0, <1>2, <1>3, UserMoves DEF Begun

LEMMA ReconcileOwned ==
    ASSUME NEW k \in Requests, KnownAt(k), SeedInvAt(k), OwnedInvAt(k), Reconcile(k)
    PROVE  OwnedInvAt(k)'
<1>0. TypeOK /\ cached[k] \in Object
  BY ObjectTypes DEF KnownAt, TypeInv
<1>1. /\ request' = request /\ users' = users /\ databases' = databases
      /\ pc'[k] = FirstStep(cached[k])
      /\ pc'[k] /= "idle" => obj'[k] = cached[k]
  BY <1>0, ReconcileStep DEF Reconcile, server
<1>2. pc'[k] \in Deleting \ {"dropDatabase"} =>
        pc'[k] = "deleteService" /\ cached[k].exists /\ cached[k].deleting
  BY <1>0, <1>1, FirstPath, CreateStepKinds, ReadingKinds, Kinds DEF FirstStep
<1>3. pc'[k] \in Deleting \ {"dropDatabase"} => obj'[k].seed
  BY <1>1, <1>2 DEF SeedInvAt, DropInv, FirstStep, DeleteStep
<1> QED
  BY <1>1, <1>3 DEF OwnedInvAt, OwnedInv, DroppedInv, Drawn

OwnedInvs == \A k \in Requests : OwnedInvAt(k)

LEMMA OwnedInit == Init => OwnedInvs
<1> SUFFICES ASSUME Init, NEW k \in Requests PROVE OwnedInvAt(k)
  BY DEF OwnedInvs
<1>1. databases = SeedDatabases /\ pc[k] = "idle"
  BY DEF Init
<1>2. \A n \in Connections : ~Drawn(n, k)
  BY <1>1, SeedAssumption, GeneratedOnce DEF SeedAssumption, Drawn
<1> QED
  BY <1>1, <1>2, Names DEF OwnedInvAt, OwnedInv, DroppedInv

LEMMA OwnedStep ==
    OneConnection /\ Known /\ Known' /\ SeedInvs /\ OwnedInvs /\ [Next]_vars => OwnedInvs'
<1> SUFFICES ASSUME OneConnection, Known, Known', SeedInvs, OwnedInvs, [Next]_vars,
                    NEW j \in Requests
             PROVE  OwnedInvAt(j)'
  BY DEF OwnedInvs
<1>1. /\ KnownAt(j) /\ KindInvAt(j) /\ SeedInvAt(j) /\ OwnedInvAt(j)
      /\ TypeOK /\ RowInv /\ RowInv' /\ RowsKept(j)
  BY RowsKeptStep
     DEF Known, KnownAt, OrphanInv, IdentityInv, ServedInv, GenerationInv, SeedInvs,
         OwnedInvs, TypeInv
<1>2. ASSUME request'[j] = request[j], pc'[j] = pc[j], obj'[j] = obj[j],
             \A n \in Connections : Drawn(n, j)' => Drawn(n, j)
      PROVE  OwnedInvAt(j)'
  BY <1>1, <1>2, QuietOwned
<1>3. ASSUME NEW k \in Requests, Reconcile(k) \/ Step(k) \/ Sync(k) \/ User(k)
      PROVE  OwnedInvAt(j)'
  <2>1. CASE j /= k
    <3>1. \A n \in Connections : Drawn(n, j)' => Drawn(n, j)
      BY <1>1, <1>3, <2>1, DrawnStep
    <3> QED
      BY <1>1, <1>2, <1>3, <2>1, <3>1, OtherRequests DEF Untouched
  <2>2. CASE j = k /\ Sync(k)
    <3>1. request' = request /\ pc' = pc /\ obj' = obj /\ databases' = databases
      BY <2>2 DEF Sync, SyncRequest, SyncService, SyncSecret, store, worker, server
    <3> QED
      BY <1>2, <3>1 DEF Drawn
  <2>3. CASE j = k /\ ~Sync(k)
    BY <1>1, <1>3, <2>3, ReconcileOwned, StepOwned, UserOwned
  <2> QED
    BY <2>1, <2>2, <2>3
<1>4. CASE Crash
  <2>1. /\ request'[j] = request[j] /\ pc'[j] = "idle"
        /\ users' = users /\ databases' = databases
    BY <1>4 DEF Crash, store, server
  <2> QED
    BY <1>1, <2>1, Names DEF OwnedInvAt, OwnedInv, DroppedInv, Drawn
<1>5. CASE UNCHANGED vars
  BY <1>2, <1>5 DEF vars, store, worker, server, Drawn
<1> QED
  BY <1>3, <1>4, <1>5 DEF Next

\* On one connection, a request that is gone has left no database of its own
\* behind: a database that createDatabase made for it keeps the finalizer on until
\* relDBDeletion has dropped it, whatever fails, is repeated or comes from an older
\* cache in between; dropDatabaseOnDelete: false is lost when the finalizer is
\* added.  (With a second connection a retry of createDatabase may leave the first
\* database behind, as the run "leak" shows, and so may a change of the reference.)
THEOREM NoLeakCorrect ==
    ASSUME OneConnection
    PROVE  Spec => []NoLeak
<1> DEFINE Inv == Known /\ SeedInvs /\ OwnedInvs
<1>1. Init => Inv
  BY KnownInit, SeedsInit, OwnedInit
<1>2. Inv /\ [Next]_vars => Inv'
  BY KnownStep, SeedsStep, OwnedStep
<1>3. Inv => NoLeak
  BY DEF OwnedInvs, OwnedInvAt, OwnedInv, NoLeak, Drawn
<1> QED
  BY <1>1, <1>2, <1>3, PTL DEF Spec

-----------------------------------------------------------------------------
(* ReadyUsable, for users who leave the reference to the controller and have *)
(* no database to adopt.                                                   *)

Unassisted ==
    /\ SeedDatabases = {}
    /\ \A spec \in Specs : spec.type \in RelationalTypes => spec.reference = None
    /\ "reference" \notin Edits

\* No seed opens a database, so none is adopted.
AdoptionInv ==
    /\ \A n \in Connections, cred \in SeedCredentials : <<n, cred>> \notin databases
    /\ \A n \in Connections, k \in Requests : users[<<n, k>>] \notin SeedCredentials
    /\ \A k \in Requests : pc[k] \notin {"setDatabaseInfo", "deleteSeedSecret"}

\* The row of k on n leads to a database.
Usable(n, k) ==
    /\ users[<<n, k>>] /= None
    /\ <<n, users[<<n, k>>]>> \in databases

\* A reference comes after the finalizer, and from a database that was created.
Backed(o, k) ==
    o.type \in RelationalTypes /\ o.connectionReference /= None =>
        o.finalizer /\ Usable(o.connectionReference, k)

UsableInvAt(k) ==
    /\ \A o \in {request[k], cached[k]} : o.exists /\ ~o.deleting => Backed(o, k)
    /\ pc[k] \in Creating => Backed(obj[k], k)
    /\ pc[k] = "addFinalizer" => ~obj[k].finalizer
    /\ pc[k] = "updateCreateStatus" => Usable(obj[k].observedReference, k)

UsableInv == AdoptionInv /\ \A k \in Requests : UsableInvAt(k)

LEMMA AdoptionServers ==
    ASSUME TypeOK, AdoptionInv, ServerStep
    PROVE  /\ \A n \in Connections, cred \in SeedCredentials :
                <<n, cred>> \notin databases'
           /\ \A n \in Connections, k \in Requests :
                users'[<<n, k>>] \notin SeedCredentials
<1>1. CASE UNCHANGED <<users, databases>>
  BY <1>1 DEF AdoptionInv
<1>2. ASSUME NEW m \in Connections, NEW j \in Requests, CallOn(m, j)
      PROVE  /\ \A n \in Connections, cred \in SeedCredentials :
                    <<n, cred>> \notin databases'
             /\ \A n \in Connections, k \in Requests :
                    users'[<<n, k>>] \notin SeedCredentials
  <2>1. \A n \in Connections, k \in Requests :
            WithRow(m, j)[<<n, k>>] \notin SeedCredentials
    <3>1. CASE users[<<m, j>>] = None
      <4>1. WithRow(m, j) = [users EXCEPT ![<<m, j>>] = Generated(m, j)]
        BY <3>1 DEF WithRow
      <4>2. ASSUME NEW n \in Connections, NEW k \in Requests
            PROVE  WithRow(m, j)[<<n, k>>] \in {Generated(m, j), users[<<n, k>>]}
        BY <4>1 DEF TypeOK
      <4>3. Generated(m, j) \notin SeedCredentials
        BY GeneratedOnce
      <4> QED
        BY <4>2, <4>3 DEF AdoptionInv
    <3>2. CASE users[<<m, j>>] /= None
      BY <3>2 DEF WithRow, AdoptionInv
    <3> QED
      BY <3>1, <3>2
  <2>2. users' \in {users, WithRow(m, j)}
    BY <1>2 DEF CallOn
  <2>3. databases' \subseteq databases \cup {<<m, WithRow(m, j)[<<m, j>>]>>}
    BY <1>2 DEF CallOn
  <2>4. \A n \in Connections, cred \in SeedCredentials :
            <<n, cred>> /= <<m, WithRow(m, j)[<<m, j>>]>>
    BY <2>1
  <2> QED
    BY <2>1, <2>2, <2>3, <2>4 DEF AdoptionInv
<1>3. ASSUME NEW m \in Connections, NEW j \in Requests, AdoptOn(m, j)
      PROVE  FALSE
  BY <1>3 DEF AdoptOn, AdoptionInv
<1> QED
  BY <1>1, <1>2, <1>3 DEF ServerStep

LEMMA AdoptionWorker ==
    ASSUME TypeOK, OrphanInv, GenerationInv, AdoptionInv, NEW k \in Requests,
           Reconcile(k) \/ Step(k)
    PROVE  pc'[k] \notin {"setDatabaseInfo", "deleteSeedSecret"}
<1>0. OrphanInvAt(k) /\ MemoryStatus(k) /\ cached[k] \in Object
  BY ObjectTypes DEF OrphanInv, GenerationInv, GenerationInvAt, MemoryInv
<1>1. CASE Reconcile(k)
  BY <1>0, <1>1, ReconcileStep, FirstPath
<1>2. CASE HandleSeed(k)
  <2>1. seedSecret[k] \in (Connections \X SeedCredentials) \cup {None}
    BY DEF TypeOK
  <2>2. None \notin databases
    BY SeedAssumption DEF SeedAssumption, TypeOK
  <2>3. seedSecret[k] \notin databases
    BY <2>1, <2>2 DEF AdoptionInv
  <2>4. pc'[k] \in {"handleError", "ignoreError"}
    BY <1>2, <2>3 DEF HandleSeed, Fails, Goto, TypeOK
  <2> QED
    BY <2>4
<1>3. CASE \/ SetDatabaseInfo(k) \/ DeleteSeedSecret(k)
           \/ CreateDatabase(k) \/ GetDatabaseInfo(k) \/ HandleService(k)
           \/ HandleSecret(k) \/ DropDatabase(k) \/ DeleteService(k) \/ DeleteSecret(k)
  <2>1. pc[k] /= "handleSeed" /\ pc[k] /= "setDatabaseInfo"
    BY <1>3, Kinds
       DEF AdoptionInv, SetDatabaseInfo, DeleteSeedSecret, CreateDatabase, GetDatabaseInfo,
           HandleService, HandleSecret, DropDatabase, DeleteService, DeleteSecret
  <2>2. {"setDatabaseInfo", "deleteSeedSecret"} \cap Deleting = {}
    BY ReadingKinds
  <2> QED
    BY <1>3, <2>1, <2>2, CallGoes
<1>4. CASE AddFinalizer(k)
  BY <1>0, <1>4, AddFinalizerStep, CreateStepKinds
<1>5. CASE UpdateCreateStatus(k) \/ UpdateDropStatus(k)
  BY <1>0, <1>5, StatusSteps DEF StatusAnswered, StatusLost
<1>6. CASE UpdateRequest(k) \/ RemoveFinalizer(k)
  BY <1>0, <1>6, UpdateRequestStep, RemoveFinalizerStep
<1>7. CASE UpdateStatus(k) \/ HandleError(k)
  BY <1>7, UpdateStatusStep, HandleErrorStep DEF StatusLost
<1>8. CASE Panic(k)
  BY <1>8 DEF Panic, Requeue, Idle, Goto, TypeOK
<1> QED
  BY <1>1, <1>2, <1>3, <1>4, <1>5, <1>6, <1>7, <1>8 DEF Step

LEMMA AdoptionStep ==
    ASSUME Known, AdoptionInv, [Next]_vars
    PROVE  AdoptionInv'
<1>0. TypeOK /\ TypeInv /\ OrphanInv /\ GenerationInv
  BY DEF Known, TypeInv
<1>1. /\ \A n \in Connections, cred \in SeedCredentials : <<n, cred>> \notin databases'
      /\ \A n \in Connections, k \in Requests : users'[<<n, k>>] \notin SeedCredentials
  BY <1>0, NextServer, AdoptionServers
<1> SUFFICES ASSUME NEW j \in Requests
             PROVE  pc'[j] \notin {"setDatabaseInfo", "deleteSeedSecret"}
  BY <1>1 DEF AdoptionInv
<1>2. CASE pc'[j] = pc[j]
  BY <1>2 DEF AdoptionInv
<1>3. ASSUME NEW k \in Requests, Reconcile(k) \/ Step(k) \/ Sync(k) \/ User(k)
      PROVE  pc'[j] \notin {"setDatabaseInfo", "deleteSeedSecret"}
  <2>1. CASE j /= k
    BY <1>0, <1>2, <1>3, <2>1, OtherRequests DEF Untouched
  <2>2. CASE Sync(k) \/ User(k)
    BY <1>0, <1>2, <2>2, UserMoves DEF Sync, SyncRequest, SyncService, SyncSecret, worker
  <2>3. CASE j = k /\ (Reconcile(k) \/ Step(k))
    BY <1>0, <2>3, AdoptionWorker
  <2> QED
    BY <1>3, <2>1, <2>2, <2>3
<1>4. CASE Crash
  BY <1>4 DEF Crash
<1>5. CASE UNCHANGED vars
  BY <1>2, <1>5 DEF vars, worker
<1> QED
  BY <1>3, <1>4, <1>5 DEF Next

\* What is usable stays so, but for the deletion of its own request.
LEMMA UsableKept ==
    ASSUME TypeInv, RowInv, [Next]_vars, NEW k \in Requests, NEW n \in Connections,
           Usable(n, k), pc[k] /= "dropDatabase"
    PROVE  users'[<<n, k>>] /= None /\ <<n, users'[<<n, k>>]>> \in databases'
<1>1. users'[<<n, k>>] = users[<<n, k>>]
  BY RowsKeptStep DEF RowsKept, Usable
<1>2. ASSUME <<n, users[<<n, k>>]>> \notin databases'
      PROVE  FALSE
  <2>1. PICK m \in Connections, j \in Requests :
            /\ users' = WithRow(m, j)
            /\ pc[j] = "dropDatabase"
            /\ <<n, users[<<n, k>>]>> = <<m, WithRow(m, j)[<<m, j>>]>>
    BY <1>2, NextServer DEF ServerStep, CallOn, AdoptOn, Usable
  <2>2. n = m /\ users[<<m, k>>] = WithRow(m, j)[<<m, j>>]
    BY <2>1
  <2>3. j = k
    BY <2>1, <2>2, OwnDatabase DEF TypeInv
  <2> QED
    BY <2>1, <2>3
<1> QED
  BY <1>1, <1>2 DEF Usable

\* What backs an object now backs it in the next state.
BackedNext(o, k) ==
    o.type \in RelationalTypes /\ o.connectionReference /= None =>
        /\ o.finalizer
        /\ users'[<<o.connectionReference, k>>] /= None
        /\ <<o.connectionReference, users'[<<o.connectionReference, k>>]>> \in databases'

Lasts(k) ==
    /\ \A o \in {request[k], cached[k]} : o.exists /\ ~o.deleting => BackedNext(o, k)
    /\ pc[k] \in Creating => BackedNext(obj[k], k)

LEMMA LastsStep ==
    ASSUME RowInv, [Next]_vars, NEW k \in Requests, KnownAt(k), UsableInvAt(k)
    PROVE  Lasts(k)
<1>0. TypeInv /\ TypeOK
  BY DEF KnownAt, TypeInv
<1>1. "dropDatabase" \in Deleting /\ "dropDatabase" \notin Creating
  BY Kinds
<1>2. ASSUME NEW o \in Object, Backed(o, k), pc[k] /= "dropDatabase"
      PROVE  BackedNext(o, k)
  <2>1. o.connectionReference \in Connections \cup {None}
    BY FieldTypes
  <2> QED
    BY <1>0, <1>2, <2>1, UsableKept DEF Backed, BackedNext
<1>3. ASSUME NEW o \in {request[k], cached[k]}, o.exists, ~o.deleting
      PROVE  BackedNext(o, k)
  <2>1. o \in Object /\ Backed(o, k)
    BY <1>0, <1>3, ObjectTypes DEF UsableInvAt
  <2>2. o.finalizer => pc[k] /= "dropDatabase"
    <3>1. o.finalizer => /\ o.uid = request[k].uid
                         /\ request[k].exists /\ request[k].finalizer
      BY <1>3 DEF KnownAt, OrphanInvAt, CacheInv
    <3>2. o.finalizer => (pc[k] \in Deleting => obj[k].uid = o.uid)
      BY <3>1 DEF KnownAt, IdentityInvAt
    <3> QED
      BY <1>1, <1>3, <3>2 DEF KnownAt, OrphanInvAt, DeletingInv
  <2> QED
    BY <1>2, <2>1, <2>2 DEF Backed, BackedNext
<1>4. pc[k] \in Creating => BackedNext(obj[k], k)
  BY <1>0, <1>1, <1>2, ObjectTypes DEF UsableInvAt
<1> QED
  BY <1>3, <1>4 DEF Lasts

\* What a step has to show.
LEMMA UsableFrame ==
    ASSUME NEW k \in Requests, Lasts(k),
           cached'[k] = cached[k] \/ cached'[k] = request[k],
           \/ ~request'[k].exists
           \/ BackedNext(request'[k], k)
           \/ /\ request'[k].exists = request[k].exists
              /\ request[k].deleting => request'[k].deleting
              /\ request'[k].type = request[k].type
              /\ request[k].finalizer => request'[k].finalizer
              /\ request'[k].connectionReference = request[k].connectionReference,
           pc'[k] \in Creating => BackedNext(obj'[k], k),
           pc'[k] = "addFinalizer" => ~obj'[k].finalizer,
           pc'[k] = "updateCreateStatus" => Usable(obj[k].observedReference, k)'
    PROVE  UsableInvAt(k)'
BY DEF UsableInvAt, Lasts, Backed, BackedNext, Usable

\* A write of the status, or none.
LEMMA StatusUsable ==
    ASSUME NEW k \in Requests, NEW readies, Lasts(k), cached'[k] = cached[k],
           request'[k] = request[k] \/ StatusStored(k, readies),
           pc'[k] \in Creating => BackedNext(obj'[k], k),
           pc'[k] = "addFinalizer" => ~obj'[k].finalizer,
           pc'[k] = "updateCreateStatus" => Usable(obj[k].observedReference, k)'
    PROVE  UsableInvAt(k)'
<1>1. /\ request'[k].exists = request[k].exists
      /\ request[k].deleting => request'[k].deleting
      /\ request'[k].type = request[k].type
      /\ request[k].finalizer => request'[k].finalizer
      /\ request'[k].connectionReference = request[k].connectionReference
  BY DEF StatusStored, Touched, Followed
<1> QED
  BY <1>1, UsableFrame

\* A write of the object in memory, or none.
LEMMA ObjectUsable ==
    ASSUME NEW k \in Requests, KnownAt(k), KindInvAt(k), Lasts(k),
           cached'[k] = cached[k], pc[k] \in Creating,
           request'[k] = request[k] \/ ObjectStored(k),
           pc'[k] \in Creating => Answer(k, obj'[k]) /\ ObjectStored(k),
           pc'[k] \notin {"addFinalizer", "updateCreateStatus"}
    PROVE  UsableInvAt(k)'
<1>1. ObjectStored(k) => BackedNext(request'[k], k)
  <2> SUFFICES ASSUME ObjectStored(k) PROVE BackedNext(request'[k], k)
    OBVIOUS
  <2>1. request[k].exists /\ obj[k].uid = request[k].uid
    BY DEF KnownAt, OrphanInvAt, MemoryVersion, ObjectStored, Fresh
  <2>2. request'[k].type = obj[k].type
    BY <2>1 DEF KindInvAt, ObjectStored, Touched
  <2>3. /\ request'[k].finalizer
        /\ request'[k].connectionReference = obj[k].connectionReference
    BY DEF ObjectStored, Followed
  <2> QED
    BY <2>2, <2>3 DEF Lasts, BackedNext
<1>2. pc'[k] \in Creating => BackedNext(obj'[k], k)
  BY <1>1 DEF Answer, Followed, BackedNext
<1>3. request'[k] = request[k] \/ BackedNext(request'[k], k)
  BY <1>1
<1> QED
  BY <1>2, <1>3, UsableFrame

\* CreateDatabase makes the reference that is going to be stored usable.
LEMMA CreateUsable ==
    ASSUME TypeOK, RowInv, NEW k \in Requests, CreateDatabase(k),
           pc'[k] = "updateCreateStatus"
    PROVE  Usable(obj[k].observedReference, k)'
<1>1. PICK n \in Pool :
        /\ users' = WithRow(n, k)
        /\ databases' = WithDatabase(n, k)
        /\ obj' = [obj EXCEPT ![k] = [obj[k] EXCEPT !.observedReference = n]]
  BY DEF CreateDatabase, Candidates, Fails, Goto, TypeOK
<1>2. obj'[k].observedReference = n
  BY <1>1, ObjectTypes DEF TypeOK, Object
<1>3. n \in Connections
  BY PoolAssumption DEF PoolAssumption
<1>4. users'[<<n, k>>] /= None
  BY <1>1, <1>3, RowRead
<1>5. <<n, users'[<<n, k>>]>> \in databases'
  BY <1>1 DEF WithDatabase
<1> QED
  BY <1>2, <1>4, <1>5 DEF Usable

LEMMA CallUsable ==
    ASSUME RowInv, AdoptionInv, NEW k \in Requests, KnownAt(k), Lasts(k),
           \/ HandleSeed(k) \/ SetDatabaseInfo(k) \/ DeleteSeedSecret(k)
           \/ CreateDatabase(k) \/ GetDatabaseInfo(k) \/ HandleService(k)
           \/ HandleSecret(k) \/ DropDatabase(k) \/ DeleteService(k) \/ DeleteSecret(k)
    PROVE  UsableInvAt(k)'
<1>0. TypeOK /\ OrphanInvAt(k)
  BY DEF KnownAt, TypeInv
<1>1. /\ request'[k] = request[k] /\ cached'[k] = cached[k]
      /\ Followed(obj'[k], obj[k])
  BY <1>0, CallLocal DEF Local, DeleteSeedSecret, AdoptionInv
<1>2. /\ obj'[k].type = obj[k].type
      /\ obj'[k].finalizer = obj[k].finalizer
  BY <1>0, CallMoves, PublishMoves, WithdrawMoves DEF Called, Advanced
<1>3. /\ pc'[k] \in Creating => pc[k] \in Creating
      /\ pc'[k] /= "addFinalizer"
      /\ pc'[k] = "updateCreateStatus" => pc[k] = "createDatabase"
  BY <1>0, CallGoes, Kinds, Names, ReadingKinds DEF Serving
<1>4. pc'[k] \in Creating => BackedNext(obj'[k], k)
  BY <1>1, <1>2, <1>3 DEF Lasts, BackedNext, Followed
<1>5. pc[k] = "createDatabase" => CreateDatabase(k)
  <2>1. CASE HandleSeed(k) \/ SetDatabaseInfo(k) \/ DeleteSeedSecret(k)
    BY <2>1 DEF HandleSeed, SetDatabaseInfo, DeleteSeedSecret
  <2>2. CASE GetDatabaseInfo(k) \/ HandleService(k) \/ HandleSecret(k)
    BY <2>2 DEF GetDatabaseInfo, HandleService, HandleSecret
  <2>3. CASE DropDatabase(k) \/ DeleteService(k) \/ DeleteSecret(k)
    BY <2>3 DEF DropDatabase, DeleteService, DeleteSecret
  <2> QED
    BY <2>1, <2>2, <2>3
<1>6. pc'[k] = "updateCreateStatus" => Usable(obj[k].observedReference, k)'
  BY <1>0, <1>3, <1>5, CreateUsable
<1> QED
  BY <1>1, <1>3, <1>4, <1>6, UsableFrame

LEMMA StepUsable ==
    ASSUME RowInv, AdoptionInv, [Next]_vars, NEW k \in Requests, KnownAt(k), KindInvAt(k),
           UsableInvAt(k), Lasts(k), Step(k)
    PROVE  UsableInvAt(k)'
<1>0. TypeOK /\ TypeInv /\ OrphanInvAt(k) /\ MemoryStatus(k)
  BY DEF KnownAt, TypeInv, GenerationInvAt, MemoryInv
<1>1. CASE AddFinalizer(k)
  <2>1. /\ cached' = cached /\ pc[k] = "addFinalizer"
        /\ request'[k] = request[k] \/ ObjectStored(k)
        /\ \/ pc'[k] = "handleError"
           \/ /\ ObjectStored(k)
              /\ \E answer \in Object :
                /\ Answer(k, answer)
                /\ pc'[k] = CreateStep(answer)
                /\ pc'[k] /= "idle" => obj'[k] = answer
    BY <1>0, <1>1, AddFinalizerStep
  <2>2. /\ pc'[k] \notin {"addFinalizer", "updateCreateStatus"}
        /\ pc'[k] \in Creating => Answer(k, obj'[k]) /\ ObjectStored(k)
    BY <2>1, CreateStepKinds, Kinds
  <2>3. pc[k] \in Creating
    BY <2>1, Kinds
  <2> QED
    BY <2>1, <2>2, <2>3, ObjectUsable
<1>2. CASE UpdateRequest(k)
  <2>1. /\ cached' = cached /\ pc[k] = "updateRequest"
        /\ request'[k] = request[k] \/ ObjectStored(k)
        /\ \/ pc'[k] = "idle"
           \/ pc'[k] = "updateStatus" /\ Answer(k, obj'[k]) /\ ObjectStored(k)
    BY <1>0, <1>2, UpdateRequestStep
  <2>2. pc[k] \in Creating /\ "idle" \notin Creating
    BY <2>1, Kinds DEF Serving
  <2> QED
    BY <2>1, <2>2, ObjectUsable
<1>3. CASE UpdateCreateStatus(k) \/ UpdateDropStatus(k)
  <2>1. /\ cached' = cached
        /\ StatusAnswered(k) \/ StatusLost(k, {obj[k].ready})
    BY <1>0, <1>3, StatusSteps
  <2>2. /\ request'[k] = request[k] \/ StatusStored(k, {obj[k].ready})
        /\ pc'[k] \notin {"addFinalizer", "updateCreateStatus"}
        /\ pc'[k] \in Creating => StatusAnswered(k) /\ pc[k] = "updateCreateStatus"
    BY <2>1, Kinds DEF StatusAnswered, StatusLost
  <2>3. pc'[k] \in Creating => BackedNext(obj'[k], k)
    <3> SUFFICES ASSUME StatusAnswered(k), pc[k] = "updateCreateStatus"
                 PROVE  BackedNext(obj'[k], k)
      BY <2>2
    <3>1. obj'[k].connectionReference = obj[k].observedReference
      BY DEF StatusAnswered
    <3>2. obj'[k].finalizer
      BY Kinds DEF StatusAnswered, Answered
    <3>3. obj[k].observedReference \in Connections
      BY <1>0, ObjectTypes, FieldTypes DEF TypeInv, WorkerInv
    <3>4. Usable(obj[k].observedReference, k) /\ pc[k] /= "dropDatabase"
      BY DEF UsableInvAt
    <3>5. /\ users'[<<obj[k].observedReference, k>>] /= None
          /\ <<obj[k].observedReference, users'[<<obj[k].observedReference, k>>]>>
                \in databases'
      BY <1>0, <3>3, <3>4, UsableKept
    <3> QED
      BY <3>1, <3>2, <3>5 DEF BackedNext
  <2> QED
    BY <2>1, <2>2, <2>3, StatusUsable
<1>4. CASE UpdateStatus(k) \/ HandleError(k) \/ Panic(k)
  <2>1. /\ cached' = cached /\ pc'[k] \in {"idle", "handleError"}
        /\ \/ request'[k] = request[k]
           \/ StatusStored(k, ReadyReasons) \/ StatusStored(k, {"Failed"})
    <3>1. CASE UpdateStatus(k)
      BY <1>0, <3>1, UpdateStatusStep DEF StatusLost
    <3>2. CASE HandleError(k)
      BY <1>0, <3>2, HandleErrorStep
    <3>3. CASE Panic(k)
      BY <1>0, <3>3 DEF Panic, Requeue, Idle, Goto, TypeOK, store, caches
    <3> QED
      BY <1>4, <3>1, <3>2, <3>3
  <2>2. pc'[k] \notin Creating
    BY <2>1, Kinds
  <2> QED
    BY <2>1, <2>2, StatusUsable
<1>5. CASE RemoveFinalizer(k)
  <2>1. /\ cached' = cached /\ pc'[k] \in {"idle", "handleError"}
        /\ request'[k] = request[k] \/ ~request'[k].exists
    BY <1>0, <1>5, RemoveFinalizerStep DEF Gone
  <2>2. pc'[k] \notin Creating
    BY <2>1, Kinds
  <2> QED
    BY <2>1, <2>2, UsableFrame
<1> QED
  BY <1>1, <1>2, <1>3, <1>4, <1>5, CallUsable DEF Step

LEMMA UserUsable ==
    ASSUME Unassisted, NEW k \in Requests, KnownAt(k), Lasts(k), UsableInvAt(k),
           User(k)
    PROVE  UsableInvAt(k)'
<1>0. TypeOK
  BY DEF KnownAt, TypeInv
<1>1. /\ cached'[k] = cached[k] /\ pc'[k] = pc[k] /\ obj'[k] = obj[k]
      /\ users' = users /\ databases' = databases
  BY <1>0, UserMoves DEF caches, worker, server
<1>2. \/ ~request'[k].exists
      \/ BackedNext(request'[k], k)
      \/ /\ request'[k].exists = request[k].exists
         /\ request[k].deleting => request'[k].deleting
         /\ request'[k].type = request[k].type
         /\ request[k].finalizer => request'[k].finalizer
         /\ request'[k].connectionReference = request[k].connectionReference
  <2>1. CASE Begun(k)
    BY <2>1 DEF Begun, Unassisted, BackedNext
  <2>2. CASE Changed(k)
    BY <2>2 DEF Changed, Unassisted
  <2>3. CASE Gone(request[k], request'[k])
    BY <2>3 DEF Gone
  <2> QED
    BY <1>0, <2>1, <2>2, <2>3, UserMoves
<1>3. pc'[k] \in Creating => BackedNext(obj'[k], k)
  BY <1>1 DEF Lasts
<1>4. /\ pc'[k] = "addFinalizer" => ~obj'[k].finalizer
      /\ pc'[k] = "updateCreateStatus" => Usable(obj[k].observedReference, k)'
  BY <1>1 DEF UsableInvAt, Usable
<1> QED
  BY <1>1, <1>2, <1>3, <1>4, UsableFrame

LEMMA ReconcileUsable ==
    ASSUME NEW k \in Requests, KnownAt(k), Lasts(k), Reconcile(k)
    PROVE  UsableInvAt(k)'
<1>0. TypeOK /\ cached[k] \in Object
  BY ObjectTypes DEF KnownAt, TypeInv
<1>1. /\ request' = request /\ cached' = cached
      /\ pc'[k] = FirstStep(cached[k])
      /\ pc'[k] /= "idle" => obj'[k] = cached[k]
  BY <1>0, ReconcileStep
<1>2. /\ pc'[k] /= "updateCreateStatus"
      /\ pc'[k] \in Creating => pc'[k] /= "idle"
  BY <1>0, <1>1, FirstPath, Kinds
<1>3. pc'[k] \in Creating => cached[k].exists /\ ~cached[k].deleting
  BY <1>0, <1>1, <1>2, FirstStepKinds, Kinds
<1>4. pc'[k] = "addFinalizer" => ~cached[k].finalizer
  <2>1. "addFinalizer" \notin Deleting /\ "addFinalizer" /= "idle"
    BY Kinds
  <2> QED
    BY <1>0, <1>1, <2>1, FirstStepKinds, Kinds
<1> QED
  BY <1>1, <1>2, <1>3, <1>4, UsableFrame, Kinds DEF Lasts

LEMMA UsableInvInit == Unassisted /\ Init => UsableInv
<1> SUFFICES ASSUME Unassisted, Init PROVE UsableInv
  OBVIOUS
<1>1. AdoptionInv
  BY SeedAssumption DEF Init, Unassisted, AdoptionInv, SeedAssumption, Credentials
<1>2. ASSUME NEW k \in Requests PROVE UsableInvAt(k)
  <2>1. /\ request[k] = Absent(0) /\ cached[k] = Absent(0) /\ pc[k] = "idle"
        /\ ~Absent(0).exists
    BY AbsentMetadata DEF Init
  <2> QED
    BY <2>1, Kinds DEF UsableInvAt
<1> QED
  BY <1>1, <1>2 DEF UsableInv

LEMMA UsableInvStep ==
    Unassisted /\ Known /\ UsableInv /\ [Next]_vars => UsableInv'
<1> SUFFICES ASSUME Unassisted, Known, UsableInv, [Next]_vars PROVE UsableInv'
  OBVIOUS
<1>0. TypeOK /\ RowInv /\ AdoptionInv
  BY DEF Known, TypeInv, UsableInv
<1>1. AdoptionInv'
  BY <1>0, AdoptionStep
<1> SUFFICES ASSUME NEW j \in Requests PROVE UsableInvAt(j)'
  BY <1>1 DEF UsableInv
<1>2. KnownAt(j) /\ KindInvAt(j) /\ UsableInvAt(j)
  BY DEF Known, KnownAt, OrphanInv, IdentityInv, ServedInv, GenerationInv, UsableInv
<1>3. Lasts(j)
  BY <1>0, <1>2, LastsStep
<1>4. ASSUME request'[j] = request[j], pc'[j] = pc[j], obj'[j] = obj[j],
             cached'[j] = cached[j] \/ cached'[j] = request[j]
      PROVE  UsableInvAt(j)'
  <2>1. pc'[j] = "updateCreateStatus" => Usable(obj[j].observedReference, j)'
    <3> SUFFICES ASSUME pc[j] = "updateCreateStatus"
                 PROVE  Usable(obj[j].observedReference, j)'
      BY <1>4
    <3>1. obj[j].observedReference \in Connections
      BY <1>0, ObjectTypes, FieldTypes DEF Known, TypeInv, WorkerInv
    <3>2. Usable(obj[j].observedReference, j) /\ pc[j] /= "dropDatabase"
      BY <1>2 DEF UsableInvAt
    <3>3. /\ users'[<<obj[j].observedReference, j>>] /= None
          /\ <<obj[j].observedReference, users'[<<obj[j].observedReference, j>>]>>
                \in databases'
      BY <1>0, <3>1, <3>2, UsableKept DEF Known
    <3> QED
      BY <1>4, <3>3 DEF Usable
  <2>2. /\ pc'[j] \in Creating => BackedNext(obj'[j], j)
        /\ pc'[j] = "addFinalizer" => ~obj'[j].finalizer
    BY <1>2, <1>3, <1>4 DEF Lasts, UsableInvAt
  <2> QED
    BY <1>3, <1>4, <2>1, <2>2, UsableFrame
<1>5. ASSUME NEW k \in Requests, Reconcile(k) \/ Step(k) \/ Sync(k) \/ User(k)
      PROVE  UsableInvAt(j)'
  <2>1. CASE j /= k
    BY <1>0, <1>4, <1>5, <2>1, OtherRequests DEF Untouched
  <2>2. CASE j = k /\ Sync(k)
    <3>1. /\ request' = request /\ pc' = pc /\ obj' = obj
          /\ cached'[k] \in {cached[k], request[k]}
      BY <1>0, <2>2 DEF Sync, SyncRequest, SyncService, SyncSecret, store, worker, TypeOK
    <3> QED
      BY <1>4, <2>2, <3>1
  <2>3. CASE j = k /\ ~Sync(k)
    BY <1>0, <1>2, <1>3, <1>5, <2>3, ReconcileUsable, StepUsable, UserUsable
  <2> QED
    BY <2>1, <2>2, <2>3
<1>6. CASE Crash
  <2>1. request'[j] = request[j] /\ cached'[j] = request[j] /\ pc'[j] = "idle"
    BY <1>6 DEF Crash, store
  <2>2. pc'[j] \notin Creating
    BY <2>1, Kinds
  <2> QED
    BY <1>3, <2>1, <2>2, UsableFrame
<1>7. CASE UNCHANGED vars
  BY <1>4, <1>7 DEF vars, store, caches, worker
<1> QED
  BY <1>5, <1>6, <1>7 DEF Next

\* What the controller publishes exists, when it is done with a request that
\* reports Ready: a reference is only ever written after createDatabase has made
\* the database on it, for the row that getDatabaseInfo reads, and only the
\* deletion of the request drops it (deleteDatabase).  It takes users who leave the
\* reference to the controller, and no database that a seed opens: of a reference
\* they change or set the controller only reads the row, and a database that two
\* seed secrets open is dropped with the first of the two requests.
THEOREM ReadyUsableCorrect ==
    ASSUME ~CacheLag, Unassisted
    PROVE  Spec => []ReadyUsable
<1> DEFINE Inv == Known /\ PublishedInv /\ UsableInv
<1>1. Init => Inv
  BY KnownInit, PublishedInvInit, UsableInvInit
<1>2. Inv /\ [Next]_vars => Inv'
  BY KnownStep, PublishedInvStep, UsableInvStep
<1>3. Inv => ReadyUsable
  <2> SUFFICES ASSUME Inv, NEW k \in Requests, Quiescent(k), IsReady(k)
               PROVE  secret[k] /= None /\ Published(k) \in databases
    BY DEF ReadyUsable
  <2>1. Publishes(k)
    BY QuiescentPublishes DEF PublishedInv
  <2>2. request[k].type \in RelationalTypes
    BY <2>1 DEF Publishes, Known, ServedInv, ServedInvAt
  <2>3. Usable(request[k].connectionReference, k)
    BY <2>1, <2>2 DEF UsableInv, UsableInvAt, Backed, IsReady, Publishes
  <2> QED
    BY <2>1, <2>3 DEF Publishes, Usable, Published
<1> QED
  BY <1>1, <1>2, <1>3, PTL DEF Spec

-----------------------------------------------------------------------------
(* CredentialsStable, when no two requests adopt the same database.        *)

\* What a request's seed secret brings is in the users table for no other.
SeedsOwned ==
    \A j, k \in Requests :
        j /= k /\ seedSecret[k] /= None =>
            users[<<seedSecret[k][1], j>>] /= seedSecret[k][2]

\* Past the adoption, or where there is none to do.
Adopted == {"getDatabaseInfo", "handleService", "handleSecret", "updateRequest"}

\* While the seed secret is there the seed is still to be adopted: nobody has
\* taken it out of the spec, and nothing is published before it is adopted.
SeedUnspent(k) ==
    request[k].exists /\ seedSecret[k] /= None =>
        /\ cached[k].uid = request[k].uid /\ cached[k].seed => request[k].seed
        /\ pc[k] \in Reading /\ obj[k].uid = request[k].uid /\ obj[k].seed =>
            request[k].seed
        /\ request[k].seed => secret[k] = None /\ pc[k] \notin Adopted

\* What is published, or is going to be, has a row; and it is the row itself,
\* unless it is a seed's and nothing is published yet.
InfoRow(k) ==
    /\ secret[k] /= None => users[<<secret[k].conn, k>>] /= None
    /\ pc[k] = "setDatabaseInfo" => seedSecret[k] = <<dbInfo[k].conn, dbInfo[k].cred>>
    /\ pc[k] = "deleteSeedSecret" => users[<<dbInfo[k].conn, k>>] /= None
    /\ pc[k] \in {"handleService", "handleSecret"} /\ dbInfo[k] /= None =>
        /\ users[<<dbInfo[k].conn, k>>] /= None
        /\ secret[k] = None \/ dbInfo[k].cred = users[<<dbInfo[k].conn, k>>]

CredentialInvAt(k) == SeedUnspent(k) /\ InfoRow(k)

LEMMA AdoptedKinds ==
    /\ Adopted \cap Reading = {}
    /\ Adopted \subseteq Serving
    /\ {"idle", "addFinalizer", "handleError", "ignoreError", "handleSeed",
        "setDatabaseInfo", "deleteSeedSecret", "createDatabase", "updateCreateStatus",
        "updateStatus", "dropDatabase", "deleteService"} \cap Adopted = {}
    /\ Adopted \cap Deleting = {}
BY DEF Adopted, Reading, Serving, Creating, Deleting

\* Seed secrets come with a request and go when they are adopted.
LEMMA SeedSecretStep ==
    ASSUME TypeOK, NEW k \in Requests, Reconcile(k) \/ Step(k) \/ Sync(k) \/ User(k),
           NEW j \in Requests
    PROVE  \/ seedSecret'[j] = seedSecret[j]
           \/ j = k /\ DeleteSeedSecret(k) /\ seedSecret'[j] = None
           \/ j = k /\ User(k) /\ ~request[k].exists
<1>1. CASE Reconcile(k) \/ Sync(k)
  BY <1>1 DEF Reconcile, Sync, SyncRequest, SyncService, SyncSecret, store
<1>2. CASE User(k)
  <2>1. ASSUME NEW spec \in Specs, CreateRequest(k, spec)
        PROVE  /\ ~request[k].exists
               /\ j /= k => seedSecret'[j] = seedSecret[j]
    BY <2>1 DEF CreateRequest, TypeOK
  <2>2. CASE \/ DeleteRequest(k) \/ ForceReconcile(k)
             \/ \E n \in Connections : ChangeReference(k, n)
    BY <2>2 DEF DeleteRequest, ForceReconcile, ChangeReference, Edit
  <2> QED
    BY <1>2, <2>1, <2>2 DEF User
<1>3. CASE DeleteSeedSecret(k)
  BY <1>3 DEF DeleteSeedSecret, Fails, TypeOK
<1>4. CASE \/ AddFinalizer(k) \/ HandleSeed(k) \/ SetDatabaseInfo(k)
           \/ CreateDatabase(k) \/ UpdateCreateStatus(k) \/ GetDatabaseInfo(k)
           \/ HandleService(k) \/ HandleSecret(k) \/ Panic(k)
           \/ UpdateRequest(k) \/ UpdateStatus(k) \/ HandleError(k)
           \/ DropDatabase(k) \/ UpdateDropStatus(k)
           \/ DeleteService(k) \/ DeleteSecret(k) \/ RemoveFinalizer(k)
  BY <1>4
     DEF AddFinalizer, HandleSeed, SetDatabaseInfo, CreateDatabase, UpdateCreateStatus,
         GetDatabaseInfo, HandleService, HandleSecret, Panic, UpdateRequest, UpdateStatus,
         HandleError, DropDatabase, UpdateDropStatus, DeleteService, DeleteSecret,
         RemoveFinalizer, store
<1> QED
  BY <1>1, <1>2, <1>3, <1>4 DEF Step

\* A step that leaves the seed in the spec as it is.
LEMMA UnspentKept ==
    ASSUME NEW k \in Requests, SeedUnspent(k),
           seedSecret'[k] \in {seedSecret[k], None}, cached'[k] = cached[k],
           request'[k].exists =>
                /\ request[k].exists
                /\ request'[k].uid = request[k].uid
                /\ request'[k].seed = request[k].seed,
           pc'[k] \in Reading =>
                \/ obj'[k].seed = request[k].seed
                \/ /\ pc[k] \in Reading
                   /\ obj'[k].uid = obj[k].uid /\ obj'[k].seed = obj[k].seed,
           secret'[k] \in {secret[k], None} \/ pc[k] \in Adopted,
           request[k].exists /\ request[k].seed /\ seedSecret'[k] /= None =>
                pc'[k] \notin Adopted \/ pc[k] \in Adopted
    PROVE  SeedUnspent(k)'
<1> SUFFICES ASSUME request'[k].exists, seedSecret'[k] /= None
             PROVE  /\ cached'[k].uid = request'[k].uid /\ cached'[k].seed =>
                        request'[k].seed
                    /\ pc'[k] \in Reading /\ obj'[k].uid = request'[k].uid
                            /\ obj'[k].seed => request'[k].seed
                    /\ request'[k].seed => secret'[k] = None /\ pc'[k] \notin Adopted
  BY DEF SeedUnspent
<1>1. /\ cached[k].uid = request[k].uid /\ cached[k].seed => request[k].seed
      /\ pc[k] \in Reading /\ obj[k].uid = request[k].uid /\ obj[k].seed =>
            request[k].seed
      /\ request[k].seed => secret[k] = None /\ pc[k] \notin Adopted
  BY DEF SeedUnspent
<1> QED
  BY <1>1

\* A step that is not about to publish anything.
LEMMA RowsInfo ==
    ASSUME TypeOK, NEW k \in Requests, RowsKept(k), InfoRow(k),
           secret'[k] \in {secret[k], None},
           pc'[k] \notin {"setDatabaseInfo", "deleteSeedSecret", "handleService",
                          "handleSecret"}
    PROVE  InfoRow(k)'
<1>1. secret[k] /= None => secret[k].conn \in Connections
  BY DEF TypeOK, DatabaseInfo
<1> QED
  BY <1>1 DEF InfoRow, RowsKept

\* A step that leaves the reconcile and what it publishes alone.
LEMMA SameInfo ==
    ASSUME TypeOK, NEW k \in Requests, RowsKept(k), InfoRow(k), WorkerInv,
           secret'[k] = secret[k], pc'[k] = pc[k], dbInfo'[k] = dbInfo[k],
           seedSecret'[k] = seedSecret[k] \/ pc[k] /= "setDatabaseInfo"
    PROVE  InfoRow(k)'
<1>1. secret[k] /= None => secret[k].conn \in Connections
  BY DEF TypeOK, DatabaseInfo
<1>2. dbInfo[k] /= None => dbInfo[k].conn \in Connections
  BY DEF TypeOK, DatabaseInfo
<1>3. pc[k] = "deleteSeedSecret" => dbInfo[k] /= None
  BY DEF WorkerInv
<1>4. secret'[k] /= None => users'[<<secret'[k].conn, k>>] /= None
  BY <1>1 DEF InfoRow, RowsKept
<1>5. pc'[k] = "deleteSeedSecret" => users'[<<dbInfo'[k].conn, k>>] /= None
  BY <1>2, <1>3 DEF InfoRow, RowsKept
<1>6. pc'[k] \in {"handleService", "handleSecret"} /\ dbInfo'[k] /= None =>
        /\ users'[<<dbInfo'[k].conn, k>>] /= None
        /\ secret'[k] = None \/ dbInfo'[k].cred = users'[<<dbInfo'[k].conn, k>>]
  BY <1>2 DEF InfoRow, RowsKept
<1>7. pc'[k] = "setDatabaseInfo" => seedSecret'[k] = <<dbInfo'[k].conn, dbInfo'[k].cred>>
  BY DEF InfoRow
<1> QED
  BY <1>4, <1>5, <1>6, <1>7 DEF InfoRow

LEMMA CallUnspent ==
    ASSUME NEW k \in Requests, KnownAt(k), SeedUnspent(k),
           \/ HandleSeed(k) \/ SetDatabaseInfo(k) \/ DeleteSeedSecret(k)
           \/ CreateDatabase(k) \/ GetDatabaseInfo(k) \/ HandleService(k)
           \/ HandleSecret(k) \/ DropDatabase(k) \/ DeleteService(k) \/ DeleteSecret(k)
    PROVE  SeedUnspent(k)'
<1>0. TypeOK /\ Step(k)
  BY DEF KnownAt, TypeInv, Step
<1>1. /\ request'[k] = request[k] /\ cached'[k] = cached[k]
      /\ obj'[k].uid = obj[k].uid
      /\ Followed(obj'[k], obj[k]) \/ pc'[k] = "handleService"
  BY <1>0, CallLocal DEF Local
<1>2. seedSecret'[k] \in {seedSecret[k], None}
  BY <1>0, SeedSecretStep, UserMoves
     DEF HandleSeed, SetDatabaseInfo, DeleteSeedSecret, CreateDatabase, GetDatabaseInfo,
         HandleService, HandleSecret, DropDatabase, DeleteService, DeleteSecret, Fails,
         TypeOK, store
<1>3. pc'[k] \in Reading => pc[k] \in Reading /\ pc'[k] /= "handleService"
  BY <1>0, CallGoes, ReadingKinds, Names
     DEF Reading
<1>4. secret'[k] \in {secret[k], None} \/ pc[k] \in Adopted
  <2>1. CASE HandleService(k) \/ HandleSecret(k)
    BY <2>1 DEF HandleService, HandleSecret, Adopted
  <2>2. CASE DeleteService(k) \/ DeleteSecret(k)
    BY <1>0, <2>2, WithdrawMoves
  <2>3. CASE \/ HandleSeed(k) \/ SetDatabaseInfo(k) \/ DeleteSeedSecret(k)
             \/ CreateDatabase(k) \/ GetDatabaseInfo(k) \/ DropDatabase(k)
    BY <1>0, <2>3, CallMoves DEF Called
  <2> QED
    BY <2>1, <2>2, <2>3
<1>5. seedSecret'[k] /= None => pc'[k] \notin Adopted \/ pc[k] \in Adopted
  <2> SUFFICES ASSUME pc'[k] \in Adopted, pc[k] \notin Adopted
               PROVE  seedSecret'[k] = None
    OBVIOUS
  <2>1. pc[k] = "deleteSeedSecret" /\ pc'[k] = "handleService"
    BY <1>0, CallGoes, AdoptedKinds DEF Adopted
  <2>2. DeleteSeedSecret(k)
    BY <2>1, ReadingKinds
       DEF HandleSeed, SetDatabaseInfo, CreateDatabase, GetDatabaseInfo, HandleService,
           HandleSecret, DropDatabase, DeleteService, DeleteSecret
  <2> QED
    BY <1>0, <2>1, <2>2 DEF DeleteSeedSecret, Fails, Goto, TypeOK
<1> QED
  BY <1>1, <1>2, <1>3, <1>4, <1>5, UnspentKept DEF Followed

\* Where the object in memory is the one in the store, so is its seed.
LEMMA FreshSeed ==
    ASSUME NEW k \in Requests, KnownAt(k), Fresh(k), pc[k] \in Reading
    PROVE  obj[k].seed = request[k].seed
<1>1. pc[k] \in Creating
  BY ReadingKinds
<1>2. obj[k].uid = request[k].uid
  BY <1>1 DEF KnownAt, OrphanInvAt, MemoryVersion, Fresh
<1> QED
  BY <1>1, <1>2 DEF KnownAt, GenerationInvAt, MemoryInv, MemorySpec, Fresh, Followed

LEMMA StepUnspent ==
    ASSUME NEW k \in Requests, KnownAt(k), SeedInvAt(k), SeedUnspent(k), Step(k)
    PROVE  SeedUnspent(k)'
<1>0. TypeOK /\ OrphanInvAt(k) /\ MemoryStatus(k)
  BY DEF KnownAt, TypeInv, GenerationInvAt, MemoryInv
<1> SUFFICES ASSUME \/ AddFinalizer(k) \/ UpdateCreateStatus(k) \/ Panic(k)
                    \/ UpdateRequest(k) \/ UpdateStatus(k) \/ HandleError(k)
                    \/ UpdateDropStatus(k) \/ RemoveFinalizer(k)
             PROVE  SeedUnspent(k)'
  BY CallUnspent DEF Step
<1>1. secret'[k] = secret[k] /\ seedSecret'[k] = seedSecret[k]
  BY DEF AddFinalizer, UpdateCreateStatus, Panic, UpdateRequest, UpdateStatus, HandleError,
         UpdateDropStatus, RemoveFinalizer, store
<1>2. CASE AddFinalizer(k)
  <2>1. /\ cached' = cached /\ pc[k] = "addFinalizer"
        /\ request'[k] = request[k] \/ ObjectStored(k)
        /\ \/ pc'[k] = "handleError"
           \/ /\ ObjectStored(k)
              /\ \E answer \in Object :
                /\ Answer(k, answer)
                /\ pc'[k] = CreateStep(answer)
                /\ pc'[k] /= "idle" => obj'[k] = answer
    BY <1>0, <1>2, AddFinalizerStep
  <2>2. pc[k] \in Reading
    BY <2>1 DEF Reading
  <2>3. /\ request'[k].exists => request[k].exists
        /\ request'[k].uid = request[k].uid
        /\ request'[k].seed = request[k].seed
    BY <2>1, <2>2, FreshSeed DEF ObjectStored, Touched, Followed
  <2>4. pc'[k] \in Reading => obj'[k].seed = request[k].seed
    BY <2>1, <2>3, ReadingKinds DEF Answer, Followed
  <2>5. pc'[k] \in Adopted => ~request[k].seed
    <3> SUFFICES ASSUME pc'[k] \in Adopted PROVE ~request[k].seed
      OBVIOUS
    <3>1. PICK answer \in Object :
            Answer(k, answer) /\ pc'[k] = CreateStep(answer)
      BY <2>1, AdoptedKinds
    <3>2. pc'[k] = "getDatabaseInfo"
      BY <3>1, CreateStepKinds, AdoptedKinds
    <3>3. ~answer.seed
      BY <3>1, <3>2, CreatePath
    <3> QED
      BY <2>3, <3>1, <3>3 DEF Answer, Followed
  <2> QED
    BY <1>1, <2>1, <2>3, <2>4, <2>5, UnspentKept
<1>3. CASE UpdateRequest(k)
  <2>1. /\ cached' = cached /\ pc[k] = "updateRequest"
        /\ request'[k] = request[k] \/ ObjectStored(k)
        /\ pc'[k] \in {"idle", "updateStatus"}
    BY <1>0, <1>3, UpdateRequestStep
  <2>2. pc'[k] \notin Reading /\ pc'[k] \notin Adopted /\ pc[k] \in Adopted
    BY <2>1, ReadingKinds, AdoptedKinds DEF Adopted
  <2>3. CASE request'[k] = request[k]
    BY <1>1, <2>1, <2>2, <2>3, UnspentKept
  <2>4. CASE ObjectStored(k)
    <3>1. /\ ~request'[k].seed
          /\ request'[k].exists = request[k].exists
          /\ request'[k].uid = request[k].uid
      BY <2>1, <2>4
         DEF ObjectStored, Followed, Touched, KnownAt, GenerationInvAt, MemoryInv, PathInv
    <3> QED
      BY <1>1, <2>1, <2>2, <3>1 DEF SeedUnspent
  <2> QED
    BY <2>1, <2>3, <2>4
<1>4. CASE UpdateCreateStatus(k) \/ UpdateDropStatus(k)
  <2>1. /\ cached' = cached
        /\ StatusAnswered(k) \/ StatusLost(k, {obj[k].ready})
    BY <1>0, <1>4, StatusSteps
  <2>2. /\ request'[k].exists = request[k].exists
        /\ request'[k].uid = request[k].uid
        /\ request'[k].seed = request[k].seed
    BY <2>1 DEF StatusAnswered, StatusLost, StatusStored, Touched, Followed
  <2>3. pc'[k] \notin Reading
    BY <2>1, ReadingKinds DEF StatusAnswered, StatusLost
  <2>4. pc'[k] \in Adopted => ~request[k].seed
    <3> SUFFICES ASSUME pc'[k] \in Adopted PROVE ~request[k].seed
      OBVIOUS
    <3>1. StatusStored(k, {obj[k].ready}) /\ pc[k] = "updateCreateStatus"
      BY <2>1, AdoptedKinds DEF StatusAnswered, StatusLost
    <3>2. obj[k].seed = request[k].seed
      BY <3>1, FreshSeed DEF StatusStored, Reading
    <3> QED
      BY <3>1, <3>2 DEF KnownAt, GenerationInvAt, MemoryInv, PathInv
  <2> QED
    BY <1>1, <2>1, <2>2, <2>3, <2>4, UnspentKept
<1>5. CASE UpdateStatus(k) \/ HandleError(k) \/ Panic(k) \/ RemoveFinalizer(k)
  <2>1. /\ cached' = cached /\ pc'[k] \in {"idle", "handleError"}
        /\ request'[k].exists =>
            /\ request[k].exists
            /\ request'[k].uid = request[k].uid
            /\ request'[k].seed = request[k].seed
    <3>1. CASE UpdateStatus(k)
      BY <1>0, <3>1, UpdateStatusStep DEF StatusLost, StatusStored, Touched, Followed
    <3>2. CASE HandleError(k)
      BY <1>0, <3>2, HandleErrorStep DEF StatusStored, Touched, Followed
    <3>3. CASE Panic(k)
      BY <1>0, <3>3 DEF Panic, Requeue, Idle, Goto, TypeOK, store, caches
    <3>4. CASE RemoveFinalizer(k)
      BY <1>0, <3>4, RemoveFinalizerStep DEF Gone
    <3> QED
      BY <1>5, <3>1, <3>2, <3>3, <3>4
  <2>2. pc'[k] \notin Reading /\ pc'[k] \notin Adopted
    BY <2>1, ReadingKinds, AdoptedKinds
  <2> QED
    BY <1>1, <2>1, <2>2, UnspentKept
<1> QED
  BY <1>2, <1>3, <1>4, <1>5

LEMMA ReconcileUnspent ==
    ASSUME NEW k \in Requests, KnownAt(k), SeedInvAt(k), SeedUnspent(k), Reconcile(k)
    PROVE  SeedUnspent(k)'
<1>0. TypeOK /\ cached[k] \in Object
  BY ObjectTypes DEF KnownAt, TypeInv
<1>1. /\ request' = request /\ cached' = cached
      /\ pc'[k] = FirstStep(cached[k])
      /\ pc'[k] /= "idle" => obj'[k] = cached[k]
  BY <1>0, ReconcileStep
<1>2. secret' = secret /\ seedSecret' = seedSecret
  BY DEF Reconcile, store
<1>3. pc'[k] \in Reading => obj'[k] = cached[k]
  BY <1>1, ReadingKinds
<1>4. request[k].exists /\ request[k].seed => pc'[k] \notin Adopted
  <2> SUFFICES ASSUME request[k].exists, pc'[k] \in Adopted PROVE ~request[k].seed
    OBVIOUS
  <2>1. pc'[k] = "getDatabaseInfo"
    BY <1>0, <1>1, FirstPath, AdoptedKinds
  <2>2. /\ ~cached[k].seed
        /\ cached[k].exists /\ cached[k].finalizer /\ ~cached[k].deleting
    BY <1>0, <1>1, <2>1, FirstPath, CreatePath
  <2>3. cached[k].uid = request[k].uid
    BY <2>2 DEF KnownAt, OrphanInvAt, CacheInv
  <2> QED
    BY <2>2, <2>3 DEF SeedInvAt, SeedInv
<1> QED
  BY <1>1, <1>2, <1>3, <1>4 DEF SeedUnspent

LEMMA UserUnspent ==
    ASSUME NEW k \in Requests, KnownAt(k), SeedUnspent(k), User(k)
    PROVE  SeedUnspent(k)'
<1>0. TypeOK /\ OrphanInvAt(k)
  BY DEF KnownAt, TypeInv
<1>1. /\ cached'[k] = cached[k] /\ pc'[k] = pc[k] /\ obj'[k] = obj[k]
      /\ secret'[k] = secret[k]
  BY <1>0, UserMoves DEF caches, worker
<1>2. CASE Begun(k)
  <2>1. cached[k].uid /= request'[k].uid
    BY <1>0, <1>2, Numbers DEF OrphanInvAt, CacheInv, Begun
  <2>2. pc[k] \in Reading => obj[k].uid /= request'[k].uid
    BY <1>0, <1>2, Numbers, ReadingKinds DEF OrphanInvAt, MemoryVersion, Begun
  <2>3. secret[k] = None /\ pc[k] \notin Adopted
    BY <1>0, <1>2, AdoptedKinds, ServingFacts DEF OrphanInvAt, Guarded, Begun
  <2> QED
    BY <1>1, <2>1, <2>2, <2>3 DEF SeedUnspent
<1>3. CASE Changed(k)
  <2>1. seedSecret'[k] = seedSecret[k]
    BY <1>0, <1>3, SeedSecretStep DEF Changed, User, CreateRequest, DeleteRequest,
       ForceReconcile, ChangeReference, Edit
  <2>2. /\ request'[k].exists /\ request[k].exists
        /\ request'[k].uid = request[k].uid
        /\ request'[k].seed = request[k].seed
    BY <1>3 DEF Changed
  <2> QED
    BY <1>1, <2>1, <2>2, UnspentKept
<1>4. CASE Gone(request[k], request'[k])
  BY <1>4 DEF Gone, SeedUnspent
<1> QED
  BY <1>0, <1>2, <1>3, <1>4, UserMoves

LEMMA SyncUnspent ==
    ASSUME NEW k \in Requests, KnownAt(k), SeedUnspent(k), Sync(k)
    PROVE  SeedUnspent(k)'
<1>0. TypeOK
  BY DEF KnownAt, TypeInv
<1>1. /\ request' = request /\ pc' = pc /\ obj' = obj
      /\ secret' = secret /\ seedSecret' = seedSecret
      /\ cached'[k] \in {cached[k], request[k]}
  BY <1>0 DEF Sync, SyncRequest, SyncService, SyncSecret, store, worker, TypeOK
<1> QED
  BY <1>1 DEF SeedUnspent

\* The seed is in the users table when the seed secret is deleted.
LEMMA SeedRow ==
    ASSUME TypeInv, SeedsOwned, NEW k \in Requests, InfoRow(k),
           SetDatabaseInfo(k), pc'[k] = "deleteSeedSecret"
    PROVE  dbInfo' = dbInfo /\ users'[<<dbInfo[k].conn, k>>] /= None
<1> DEFINE n == dbInfo[k].conn
           cred == dbInfo[k].cred
<1>1. /\ pc[k] = "setDatabaseInfo" /\ dbInfo' = dbInfo
      /\ users' = WithInfo(n, k, cred)
  BY DEF SetDatabaseInfo, Fails, Goto, TypeInv, TypeOK
<1>2. dbInfo[k] \in DatabaseInfo
  BY <1>1 DEF TypeInv, TypeOK, WorkerInv
<1>3. n \in Connections /\ cred \in Credentials /\ cred /= None
  BY <1>2, SeedAssumption DEF SeedAssumption, DatabaseInfo
<1>4. seedSecret[k] = <<n, cred>>
  BY <1>1 DEF InfoRow
<1>5. \A j \in Requests : j /= k => users[<<n, j>>] /= cred
  <2>1. seedSecret[k] /= None
    BY <1>3, <1>4, SeedAssumption DEF SeedAssumption
  <2> QED
    BY <1>4, <2>1 DEF SeedsOwned
<1>6. CASE users[<<n, k>>] = None
  <2>1. \A j \in Requests : users[<<n, j>>] /= cred /\ users[<<n, k>>] = None
    BY <1>3, <1>5, <1>6
  <2>2. users' = [users EXCEPT ![<<n, k>>] = cred]
    BY <1>1, <2>1 DEF WithInfo
  <2> QED
    BY <1>1, <1>3, <2>2 DEF TypeInv, TypeOK
<1>7. CASE users[<<n, k>>] /= None
  BY <1>1, <1>7 DEF WithInfo
<1> QED
  BY <1>1, <1>6, <1>7

LEMMA StepInfo ==
    ASSUME SeedsOwned, RowInv, NEW k \in Requests, KnownAt(k), RowsKept(k),
           CredentialInvAt(k), Step(k)
    PROVE  InfoRow(k)'
<1>0. TypeOK /\ TypeInv /\ InfoRow(k) /\ SeedUnspent(k) /\ OrphanInvAt(k)
      /\ MemoryStatus(k)
  BY DEF KnownAt, TypeInv, CredentialInvAt, GenerationInvAt, MemoryInv
<1>1. CASE \/ AddFinalizer(k) \/ UpdateCreateStatus(k) \/ Panic(k)
           \/ UpdateRequest(k) \/ UpdateStatus(k) \/ HandleError(k)
           \/ UpdateDropStatus(k) \/ RemoveFinalizer(k)
  <2>1. secret'[k] = secret[k]
    BY <1>1
       DEF AddFinalizer, UpdateCreateStatus, Panic, UpdateRequest, UpdateStatus,
           HandleError, UpdateDropStatus, RemoveFinalizer, store
  <2>2. pc'[k] \notin {"setDatabaseInfo", "deleteSeedSecret", "handleService",
                       "handleSecret"}
    <3>1. CASE AddFinalizer(k)
      BY <1>0, <3>1, AddFinalizerStep, CreateStepKinds
    <3>2. CASE UpdateCreateStatus(k) \/ UpdateDropStatus(k)
      BY <1>0, <3>2, StatusSteps DEF StatusAnswered, StatusLost
    <3>3. CASE UpdateRequest(k) \/ RemoveFinalizer(k)
      BY <1>0, <3>3, UpdateRequestStep, RemoveFinalizerStep
    <3>4. CASE UpdateStatus(k) \/ HandleError(k)
      BY <3>4, <1>0, UpdateStatusStep, HandleErrorStep DEF StatusLost
    <3>5. CASE Panic(k)
      BY <1>0, <3>5 DEF Panic, Requeue, Idle, Goto, TypeOK
    <3> QED
      BY <1>1, <3>1, <3>2, <3>3, <3>4, <3>5
  <2> QED
    BY <1>0, <2>1, <2>2, RowsInfo
<1>2. CASE CreateDatabase(k) \/ DropDatabase(k) \/ DeleteService(k) \/ DeleteSecret(k)
  <2>1. secret'[k] \in {secret[k], None}
    BY <1>0, <1>2, CallMoves, WithdrawMoves DEF Called
  <2>2. pc'[k] \notin {"setDatabaseInfo", "deleteSeedSecret", "handleService",
                       "handleSecret"}
    <3>1. pc[k] \notin {"handleSeed", "setDatabaseInfo", "deleteSeedSecret",
                        "getDatabaseInfo", "handleService"}
      BY <1>2 DEF CreateDatabase, DropDatabase, DeleteService, DeleteSecret
    <3> QED
      BY <1>0, <1>2, <3>1, CallGoes, ReadingKinds
  <2> QED
    BY <1>0, <2>1, <2>2, RowsInfo
<1>3. CASE HandleSeed(k)
  <2>1. CASE pc'[k] = "setDatabaseInfo"
    <3>1. /\ secret' = secret /\ seedSecret' = seedSecret
          /\ seedSecret[k] \in databases
          /\ dbInfo' = [dbInfo EXCEPT
                ![k] = [conn |-> seedSecret[k][1], cred |-> seedSecret[k][2]]]
      BY <1>0, <1>3, <2>1 DEF HandleSeed, Fails, Goto, TypeOK, store
    <3>2. seedSecret[k] \in Connections \X Credentials
      BY <1>0, <3>1 DEF TypeOK
    <3>3. seedSecret'[k] = <<dbInfo'[k].conn, dbInfo'[k].cred>>
      BY <1>0, <3>1, <3>2 DEF TypeOK
    <3>4. secret[k] /= None => secret[k].conn \in Connections
      BY <1>0 DEF TypeOK, DatabaseInfo
    <3> QED
      BY <1>0, <2>1, <3>1, <3>3, <3>4 DEF InfoRow, RowsKept
  <2>2. CASE pc'[k] /= "setDatabaseInfo"
    <3>1. pc'[k] \in {"handleError", "ignoreError"} /\ secret' = secret
      BY <1>0, <1>3, <2>2 DEF HandleSeed, Fails, Goto, TypeOK, store
    <3> QED
      BY <1>0, <3>1, RowsInfo
  <2> QED
    BY <2>1, <2>2
<1>4. CASE SetDatabaseInfo(k)
  <2>1. pc'[k] \in {"deleteSeedSecret", "handleError"} /\ secret' = secret
    BY <1>0, <1>4 DEF SetDatabaseInfo, Fails, Goto, TypeOK, store
  <2>2. CASE pc'[k] = "deleteSeedSecret"
    <3>1. dbInfo' = dbInfo /\ users'[<<dbInfo[k].conn, k>>] /= None
      BY <1>0, <1>4, <2>2, SeedRow
    <3>2. secret[k] /= None => secret[k].conn \in Connections
      BY <1>0 DEF TypeOK, DatabaseInfo
    <3> QED
      BY <1>0, <2>1, <2>2, <3>1, <3>2 DEF InfoRow, RowsKept
  <2>3. CASE pc'[k] = "handleError"
    BY <1>0, <2>1, <2>3, RowsInfo
  <2> QED
    BY <2>1, <2>2, <2>3
<1>5. CASE DeleteSeedSecret(k)
  <2>1. /\ pc[k] = "deleteSeedSecret" /\ secret' = secret /\ dbInfo' = dbInfo
        /\ pc'[k] \in {"handleService", "handleError"}
        /\ pc'[k] = "handleService" => seedSecret[k] /= None
    BY <1>0, <1>5 DEF DeleteSeedSecret, Fails, Goto, TypeOK
  <2>2. CASE pc'[k] = "handleService"
    <3>1. pc[k] \in Serving /\ pc[k] \in Reading
      BY <2>1, Kinds, ReadingKinds
    <3>2. request[k].exists /\ obj[k].uid = request[k].uid /\ obj[k].seed
      BY <2>1, <3>1, ServingFacts DEF KnownAt, GenerationInvAt, MemoryInv, PathInv
    <3>3. secret[k] = None
      BY <1>0, <2>1, <2>2, <3>1, <3>2 DEF SeedUnspent
    <3>4. dbInfo[k].conn \in Connections
      BY <1>0, <2>1 DEF TypeInv, TypeOK, WorkerInv, DatabaseInfo
    <3>5. users'[<<dbInfo[k].conn, k>>] /= None
      BY <1>0, <2>1, <3>4 DEF InfoRow, RowsKept
    <3> QED
      BY <2>1, <2>2, <3>3, <3>5 DEF InfoRow
  <2>3. CASE pc'[k] = "handleError"
    BY <1>0, <2>1, <2>3, RowsInfo
  <2> QED
    BY <2>1, <2>2, <2>3
<1>6. CASE GetDatabaseInfo(k)
  <2> DEFINE n == obj[k].connectionReference
  <2>1. /\ pc[k] = "getDatabaseInfo" /\ secret' = secret
        /\ pc'[k] \in {"handleService", "handleError"}
        /\ pc'[k] = "handleService" =>
            \/ obj[k].type \notin RelationalTypes /\ dbInfo' = dbInfo
            \/ /\ users' = WithRow(n, k)
               /\ dbInfo'[k] = [conn |-> n, cred |-> users'[<<n, k>>]]
    BY <1>0, <1>6 DEF GetDatabaseInfo, Fails, Goto, TypeOK, store
  <2>2. secret[k] /= None => secret[k].conn \in Connections
    BY <1>0 DEF TypeOK, DatabaseInfo
  <2>3. CASE pc'[k] = "handleService" /\ obj[k].type \notin RelationalTypes /\ dbInfo' = dbInfo
    <3>1. dbInfo[k] = None
      BY <2>1, <2>3, Kinds DEF KnownAt, ServedInvAt
    <3> QED
      BY <1>0, <2>1, <2>2, <2>3, <3>1 DEF InfoRow, RowsKept
  <2>4. CASE /\ pc'[k] = "handleService" /\ users' = WithRow(n, k)
             /\ dbInfo'[k] = [conn |-> n, cred |-> users'[<<n, k>>]]
    <3>1. n \in Connections
      BY <1>0, <2>1, ObjectTypes, FieldTypes DEF TypeInv, WorkerInv
    <3>2. users'[<<n, k>>] /= None
      BY <1>0, <2>4, <3>1, RowRead
    <3>3. dbInfo'[k].conn = n /\ dbInfo'[k].cred = users'[<<n, k>>]
      BY <2>4
    <3> QED
      BY <1>0, <2>1, <2>2, <2>4, <3>2, <3>3 DEF InfoRow, RowsKept
  <2>5. CASE pc'[k] = "handleError"
    BY <1>0, <2>1, <2>5, RowsInfo
  <2> QED
    BY <2>1, <2>3, <2>4, <2>5
<1>7. CASE HandleService(k)
  <2>1. /\ pc[k] = "handleService" /\ secret' = secret /\ dbInfo' = dbInfo
        /\ dbInfo[k] /= None
        /\ pc'[k] \in {"handleSecret", "handleError"}
    BY <1>0, <1>7 DEF HandleService, WriteService, Fails, Goto, TypeOK, publication
  <2>2. CASE pc'[k] = "handleSecret"
    <3>1. /\ dbInfo[k].conn \in Connections
          /\ secret[k] /= None => secret[k].conn \in Connections
      BY <1>0, <2>1 DEF TypeOK, DatabaseInfo
    <3> QED
      BY <1>0, <2>1, <2>2, <3>1 DEF InfoRow, RowsKept
  <2>3. CASE pc'[k] = "handleError"
    BY <1>0, <2>1, <2>3, RowsInfo
  <2> QED
    BY <2>1, <2>2, <2>3
<1>8. CASE HandleSecret(k)
  <2>1. /\ pc[k] = "handleSecret" /\ secret'[k] \in {secret[k], dbInfo[k]}
        /\ pc'[k] \in {"updateRequest", "handleError"}
    BY <1>0, <1>8 DEF HandleSecret, WriteSecret, Fails, Goto, TypeOK, publication
  <2>2. dbInfo[k] /= None
    BY <1>0, <2>1 DEF TypeInv, WorkerInv
  <2>3. /\ dbInfo[k].conn \in Connections
        /\ secret[k] /= None => secret[k].conn \in Connections
    BY <1>0, <2>2 DEF TypeOK, DatabaseInfo
  <2> QED
    BY <1>0, <2>1, <2>2, <2>3 DEF InfoRow, RowsKept
<1> QED
  BY <1>1, <1>2, <1>3, <1>4, <1>5, <1>6, <1>7, <1>8 DEF Step

CredentialInv == \A k \in Requests : CredentialInvAt(k)

LEMMA CredentialInit == Init => CredentialInv
<1> SUFFICES ASSUME Init, NEW k \in Requests PROVE CredentialInvAt(k)
  BY DEF CredentialInv
<1>1. secret[k] = None /\ seedSecret[k] = None /\ pc[k] = "idle"
  BY DEF Init
<1> QED
  BY <1>1 DEF CredentialInvAt, SeedUnspent, InfoRow

LEMMA CredentialStep ==
    Known /\ SeedInvs /\ CredentialInv /\ SeedsOwned /\ [Next]_vars => CredentialInv'
<1> SUFFICES ASSUME Known, SeedInvs, CredentialInv, SeedsOwned, [Next]_vars,
                    NEW j \in Requests
             PROVE  CredentialInvAt(j)'
  BY DEF CredentialInv
<1>0. /\ KnownAt(j) /\ SeedInvAt(j) /\ CredentialInvAt(j)
      /\ TypeInv /\ TypeOK /\ WorkerInv /\ RowInv /\ RowsKept(j)
  BY RowsKeptStep
     DEF Known, KnownAt, OrphanInv, IdentityInv, ServedInv, GenerationInv, SeedInvs,
         CredentialInv, TypeInv
<1>1. SeedUnspent(j) /\ InfoRow(j)
  BY <1>0 DEF CredentialInvAt
<1>2. ASSUME Untouched(j), dbInfo'[j] = dbInfo[j], seedSecret'[j] = seedSecret[j]
      PROVE  CredentialInvAt(j)'
  <2>1. SeedUnspent(j)'
    BY <1>1, <1>2 DEF Untouched, SeedUnspent
  <2>2. InfoRow(j)'
    BY <1>0, <1>1, <1>2, SameInfo DEF Untouched
  <2> QED
    BY <2>1, <2>2 DEF CredentialInvAt
<1>3. ASSUME NEW k \in Requests, Reconcile(k) \/ Step(k) \/ Sync(k) \/ User(k)
      PROVE  CredentialInvAt(j)'
  <2>1. CASE j /= k
    BY <1>0, <1>2, <1>3, <2>1, OtherRequests, OtherInfo, SeedSecretStep
  <2>2. CASE j = k /\ Reconcile(k)
    <3>1. /\ pc'[j] = FirstStep(cached[j]) /\ secret' = secret
      BY <1>0, <2>2, ReconcileStep DEF Reconcile, store
    <3>2. pc'[j] \notin {"setDatabaseInfo", "deleteSeedSecret", "handleService",
                         "handleSecret"}
      BY <1>0, <3>1, FirstPath, ObjectTypes
    <3> QED
      BY <1>0, <1>1, <2>2, <3>1, <3>2, RowsInfo, ReconcileUnspent DEF CredentialInvAt
  <2>3. CASE j = k /\ Step(k)
    BY <1>0, <1>1, <2>3, StepUnspent, StepInfo DEF CredentialInvAt
  <2>4. CASE j = k /\ Sync(k)
    <3>1. /\ pc' = pc /\ dbInfo' = dbInfo /\ secret' = secret
          /\ seedSecret' = seedSecret
      BY <2>4 DEF Sync, SyncRequest, SyncService, SyncSecret, store, worker
    <3> QED
      BY <1>0, <1>1, <2>4, <3>1, SameInfo, SyncUnspent DEF CredentialInvAt
  <2>5. CASE j = k /\ User(k)
    <3>1. pc' = pc /\ dbInfo' = dbInfo /\ secret' = secret
      BY <1>0, <2>5, UserMoves DEF worker
    <3>2. seedSecret'[j] = seedSecret[j] \/ pc[j] /= "setDatabaseInfo"
      <4>1. pc[j] = "setDatabaseInfo" => request[j].exists
        BY <1>0, Kinds, ServingFacts
      <4>2. DeleteSeedSecret(k) => pc'[j] /= pc[j]
        BY <1>0, <2>5 DEF DeleteSeedSecret, Fails, Goto, TypeOK
      <4> QED
        BY <1>0, <2>5, <3>1, <4>1, <4>2, SeedSecretStep
    <3> QED
      BY <1>0, <1>1, <2>5, <3>1, <3>2, SameInfo, UserUnspent DEF CredentialInvAt
  <2> QED
    BY <1>3, <2>1, <2>2, <2>3, <2>4, <2>5
<1>4. CASE Crash
  <2>1. /\ request'[j] = request[j] /\ cached'[j] = request[j] /\ pc'[j] = "idle"
        /\ secret' = secret /\ seedSecret' = seedSecret
    BY <1>4 DEF Crash, store
  <2>2. InfoRow(j)'
    BY <1>0, <1>1, <2>1, RowsInfo
  <2>3. SeedUnspent(j)'
    BY <1>1, <2>1, ReadingKinds, AdoptedKinds DEF SeedUnspent
  <2> QED
    BY <2>2, <2>3 DEF CredentialInvAt
<1>5. CASE UNCHANGED vars
  BY <1>2, <1>5 DEF Untouched, vars, store, caches, worker
<1> QED
  BY <1>3, <1>4, <1>5 DEF Next

\* A Secret that is there is only replaced by what handleSecret has in memory.
LEMMA SecretStep ==
    ASSUME TypeOK, NEW k \in Requests, [Next]_vars, secret'[k] /= None
    PROVE  \/ secret'[k] = secret[k]
           \/ pc[k] = "handleSecret" /\ secret'[k] = dbInfo[k]
<1>1. ASSUME NEW j \in Requests, j /= k, Reconcile(j) \/ Step(j) \/ Sync(j) \/ User(j)
      PROVE  secret'[k] = secret[k]
  BY <1>1, OtherRequests DEF Untouched
<1>2. CASE Reconcile(k) \/ Sync(k)
  BY <1>2 DEF Reconcile, Sync, SyncRequest, SyncService, SyncSecret, store
<1>3. CASE User(k)
  BY <1>3, UserMoves
<1>4. CASE HandleSecret(k)
  BY <1>4 DEF HandleSecret, WriteSecret, Fails, TypeOK, publication
<1>5. CASE DeleteService(k) \/ DeleteSecret(k)
  BY <1>5, WithdrawMoves
<1>6. CASE HandleService(k)
  BY <1>6 DEF HandleService, WriteService, Fails, publication
<1>7. CASE \/ AddFinalizer(k) \/ HandleSeed(k) \/ SetDatabaseInfo(k)
           \/ DeleteSeedSecret(k) \/ CreateDatabase(k) \/ UpdateCreateStatus(k)
           \/ GetDatabaseInfo(k) \/ Panic(k)
           \/ UpdateRequest(k) \/ UpdateStatus(k) \/ HandleError(k)
           \/ DropDatabase(k) \/ UpdateDropStatus(k) \/ RemoveFinalizer(k)
  BY <1>7
     DEF AddFinalizer, HandleSeed, SetDatabaseInfo, DeleteSeedSecret, CreateDatabase,
         UpdateCreateStatus, GetDatabaseInfo, Panic, UpdateRequest, UpdateStatus,
         HandleError, DropDatabase, UpdateDropStatus, RemoveFinalizer, store
<1>8. CASE Crash
  BY <1>8 DEF Crash, store
<1>9. CASE UNCHANGED vars
  BY <1>9 DEF vars, store
<1> QED
  BY <1>1, <1>2, <1>3, <1>4, <1>5, <1>6, <1>7, <1>8, <1>9 DEF Next, Step

\* What is published has the row of its request, and stays what it is for as long
\* as the Secret stays on its connection: getDatabaseInfo reads the row, an adopted
\* seed becomes it (SetDatabaseInfo), the INSERT IGNORE never replaces it, and no
\* request adopts a seed over a Secret it has published.  It takes users who give a
\* seed to one request: the second that adopts a database has no row for it, and
\* the next getDatabaseInfo draws other credentials.
THEOREM CredentialsStableCorrect ==
    Spec /\ []SeedsOwned => CredentialsStable
<1> DEFINE Inv == Known /\ SeedInvs /\ CredentialInv
<1>1. Init => Inv
  BY KnownInit, SeedsInit, CredentialInit
<1>2. Inv /\ SeedsOwned /\ [Next]_vars => Inv'
  BY KnownStep, SeedsStep, CredentialStep
<1> DEFINE Stable(k) ==
        LET row == users[<<secret[k].conn, k>>]
        IN  /\ secret[k] /= None
            /\ secret'[k] /= None
            /\ secret'[k].conn = secret[k].conn
            /\ row \in {None, secret[k].cred}
            => /\ secret'[k].cred = secret[k].cred
               /\ users'[<<secret[k].conn, k>>] \in {None, secret[k].cred}
<1>3. Inv /\ [Next]_vars => \A k \in Requests : Stable(k)
  <2> SUFFICES ASSUME Inv, [Next]_vars, NEW k \in Requests,
                      secret[k] /= None, secret'[k] /= None,
                      secret'[k].conn = secret[k].conn,
                      users[<<secret[k].conn, k>>] \in {None, secret[k].cred}
               PROVE  /\ secret'[k].cred = secret[k].cred
                      /\ users'[<<secret[k].conn, k>>] \in {None, secret[k].cred}
    OBVIOUS
  <2>1. /\ TypeInv /\ TypeOK /\ WorkerInv /\ RowInv /\ RowsKept(k)
        /\ InfoRow(k)
    BY RowsKeptStep DEF Known, CredentialInv, CredentialInvAt, TypeInv
  <2>2. users[<<secret[k].conn, k>>] = secret[k].cred /\ secret[k].cred /= None
    BY <2>1 DEF InfoRow
  <2>3. secret[k].conn \in Connections
    BY <2>1 DEF TypeOK, DatabaseInfo
  <2>4. users'[<<secret[k].conn, k>>] = secret[k].cred
    BY <2>1, <2>2, <2>3 DEF RowsKept
  <2>5. secret'[k].cred = secret[k].cred
    BY <2>1, <2>2, SecretStep DEF InfoRow, WorkerInv
  <2> QED
    BY <2>4, <2>5
<1>4. Inv /\ [Next]_vars => [\A k \in Requests : Stable(k)]_vars
  BY <1>3
<1> QED
  BY <1>1, <1>2, <1>4, PTL DEF Spec, CredentialsStable

\* That hypothesis holds of itself where no two requests can share a seed: for one
\* request, with all the seeds users may give it, and for any number of requests
\* that have createDatabase make their databases.
THEOREM CredentialsStableUnshared ==
    ASSUME \/ \A j, k \in Requests : j = k
           \/ \A spec \in Specs : spec.seed = None
    PROVE  Spec => CredentialsStable
<1> DEFINE Unseeded == \A k \in Requests : seedSecret[k] = None
<1>1. CASE \A j, k \in Requests : j = k
  <2>1. SeedsOwned
    BY <1>1 DEF SeedsOwned
  <2> QED
    BY <2>1, CredentialsStableCorrect, PTL
<1>2. CASE \A spec \in Specs : spec.seed = None
  <2>1. Init => TypeInv /\ Unseeded
    BY TypeInvInit DEF Init
  <2>2. TypeInv /\ Unseeded /\ [Next]_vars => (TypeInv /\ Unseeded)'
    <3> SUFFICES ASSUME TypeInv, Unseeded, [Next]_vars, NEW j \in Requests
                 PROVE  seedSecret'[j] = None
      BY TypeInvStep
    <3>1. ASSUME NEW k \in Requests, User(k)
          PROVE  seedSecret'[j] = None
      <4>1. ASSUME NEW spec \in Specs, CreateRequest(k, spec)
            PROVE  seedSecret' = seedSecret
        BY <1>2, <4>1 DEF CreateRequest
      <4>2. CASE \/ DeleteRequest(k) \/ ForceReconcile(k)
                 \/ \E n \in Connections : ChangeReference(k, n)
        BY <4>2 DEF DeleteRequest, ForceReconcile, ChangeReference, Edit
      <4> QED
        BY <3>1, <4>1, <4>2 DEF User
    <3>2. ASSUME NEW k \in Requests, Reconcile(k) \/ Step(k) \/ Sync(k)
          PROVE  seedSecret'[j] = None \/ User(k)
      BY <3>2, SeedSecretStep DEF TypeInv
    <3>3. CASE Crash \/ UNCHANGED vars
      BY <3>3 DEF Crash, vars, store
    <3> QED
      BY <3>1, <3>2, <3>3 DEF Next
  <2>3. Unseeded => SeedsOwned
    BY DEF SeedsOwned
  <2>4. Spec => []SeedsOwned
    BY <2>1, <2>2, <2>3, PTL DEF Spec
  <2> QED
    BY <2>4, CredentialsStableCorrect, PTL
<1> QED
  BY <1>1, <1>2
=============================================================================
