---------------------- MODULE DatabaseRequestServerProofs ----------------------
(***************************************************************************)
(* Proofs about what the requests do to the database servers, for every    *)
(* set of requests, connections, specs and edits: which rows the users     *)
(* tables get, which databases a step makes or drops, and for whom.        *)
(***************************************************************************)
EXTENDS DatabaseRequestServer, DatabaseRequestProofs

-----------------------------------------------------------------------------
(* The invariants.                                                         *)

\* A row has what was drawn for it or what a seed brought, and only a seed is
\* going to be inserted as it is.
RowInv ==
    /\ \A n \in Connections, k \in Requests :
        users[<<n, k>>] \in SeedCredentials \cup {Generated(n, k), None}
    /\ RowsDistinct
    /\ \A k \in Requests :
        pc[k] = "setDatabaseInfo" => dbInfo[k].cred \in SeedCredentials

-----------------------------------------------------------------------------
(* What a step does on the database servers.                               *)

\* A call of the client about the row of request k on connection n, or a part of
\* one that failed: the row is read or inserted, its database made or dropped.
CallOn(n, k) ==
    /\ users' \in {users, WithRow(n, k)}
    /\ \/ databases' = databases
       \/ /\ users' = WithRow(n, k)
          /\ \/ databases' = databases \cup {<<n, WithRow(n, k)[<<n, k>>]>>}
             \/ /\ databases' = databases \ {<<n, WithRow(n, k)[<<n, k>>]>>}
                /\ pc[k] = "dropDatabase"

\* The row of request k takes what its seed brought.
AdoptOn(n, k) ==
    /\ databases' = databases
    /\ pc[k] = "setDatabaseInfo"
    /\ n = dbInfo[k].conn
    /\ users' = WithInfo(n, k, dbInfo[k].cred)

ServerStep ==
    \/ UNCHANGED <<users, databases>>
    \/ \E n \in Connections, k \in Requests : CallOn(n, k) \/ AdoptOn(n, k)

\* Of all actions these five call a database server.
LEMMA StepServer ==
    ASSUME TypeInv, NEW k \in Requests, Step(k)
    PROVE  ServerStep
<1>1. CASE SetDatabaseInfo(k)
  <2>1. dbInfo[k].conn \in Connections
    BY <1>1 DEF TypeInv, TypeOK, WorkerInv, SetDatabaseInfo, DatabaseInfo
  <2>2. users' = users \/ users' = WithInfo(dbInfo[k].conn, k, dbInfo[k].cred)
    BY <1>1 DEF SetDatabaseInfo, Fails
  <2>3. databases' = databases /\ pc[k] = "setDatabaseInfo"
    BY <1>1 DEF SetDatabaseInfo
  <2> QED
    BY <2>1, <2>2, <2>3 DEF ServerStep, AdoptOn
<1>2. CASE CreateDatabase(k)
  <2>1. \/ UNCHANGED <<users, databases>>
        \/ \E n \in Pool :
            users' = WithRow(n, k) /\ databases' \in {databases, WithDatabase(n, k)}
    BY <1>2 DEF CreateDatabase, Candidates, Fails
  <2> QED
    BY <2>1, PoolAssumption DEF PoolAssumption, ServerStep, CallOn, WithDatabase
<1>3. CASE GetDatabaseInfo(k)
  <2>1. obj[k].connectionReference \in Connections
    BY <1>3, ObjectTypes, FieldTypes DEF TypeInv, WorkerInv, GetDatabaseInfo
  <2>2. users' \in {users, WithRow(obj[k].connectionReference, k)}
    BY <1>3 DEF GetDatabaseInfo, Fails
  <2>3. databases' = databases
    BY <1>3 DEF GetDatabaseInfo
  <2> QED
    BY <2>1, <2>2, <2>3 DEF ServerStep, CallOn
<1>4. CASE DropDatabase(k)
  <2> DEFINE n == obj[k].connectionReference
  <2>1. n \in Connections \cup {None}
    BY ObjectTypes, FieldTypes DEF TypeInv
  <2> HIDE DEF n
  <2>2. \/ UNCHANGED <<users, databases>>
        \/ /\ n /= None
           /\ users' = WithRow(n, k)
           /\ databases' \in {databases, databases \ {<<n, WithRow(n, k)[<<n, k>>]>>}}
    BY <1>4 DEF DropDatabase, Fails, server, n
  <2>3. pc[k] = "dropDatabase"
    BY <1>4 DEF DropDatabase
  <2> QED
    BY <2>1, <2>2, <2>3 DEF ServerStep, CallOn
<1>5. CASE \/ AddFinalizer(k) \/ HandleSeed(k) \/ DeleteSeedSecret(k)
           \/ UpdateCreateStatus(k) \/ HandleService(k) \/ HandleSecret(k) \/ Panic(k)
           \/ UpdateRequest(k) \/ UpdateStatus(k) \/ HandleError(k)
           \/ UpdateDropStatus(k) \/ DeleteService(k) \/ DeleteSecret(k)
           \/ RemoveFinalizer(k)
  BY <1>5
     DEF ServerStep, AddFinalizer, HandleSeed, DeleteSeedSecret, UpdateCreateStatus,
         HandleService, HandleSecret, Panic, UpdateRequest, UpdateStatus, HandleError,
         UpdateDropStatus, DeleteService, DeleteSecret, RemoveFinalizer, server
<1> QED
  BY <1>1, <1>2, <1>3, <1>4, <1>5 DEF Step

LEMMA NextServer ==
    ASSUME TypeInv, [Next]_vars
    PROVE  ServerStep
<1>1. ASSUME NEW k \in Requests, Reconcile(k) \/ Sync(k) \/ User(k)
      PROVE  ServerStep
  BY <1>1
     DEF ServerStep, Reconcile, Sync, SyncRequest, SyncService, SyncSecret, User,
         CreateRequest, DeleteRequest, ForceReconcile, ChangeReference, Edit, server
<1>2. CASE Crash
  BY <1>2 DEF ServerStep, Crash, server
<1>3. CASE UNCHANGED vars
  BY <1>3 DEF ServerStep, vars, server
<1> QED
  BY <1>1, <1>2, <1>3, StepServer DEF Next

-----------------------------------------------------------------------------
(* The rows of the users tables.                                           *)

\* What was drawn for a row is in no other row.
LEMMA DrawnOnce ==
    ASSUME RowInv, NEW n \in Connections, NEW j \in Requests, NEW k \in Requests,
           users[<<n, j>>] = Generated(n, k)
    PROVE  j = k
<1>1. Generated(n, k) \notin SeedCredentials
  BY SeedAssumption DEF SeedAssumption, Generated
<1>2. Generated(n, k) /= None
  BY SeedAssumption DEF SeedAssumption, Credentials, Generated
<1>3. Generated(n, j) = Generated(n, k) => j = k
  BY DEF Generated
<1> QED
  BY <1>1, <1>2, <1>3 DEF RowInv

\* A row that is read is there afterwards, in no other place, and the others are
\* as they were.
LEMMA RowRead ==
    ASSUME TypeOK, RowInv, NEW n \in Connections, NEW k \in Requests,
           users' = WithRow(n, k)
    PROVE  /\ users'[<<n, k>>] /= None
           /\ users[<<n, k>>] /= None => users' = users
           /\ users[<<n, k>>] = None =>
                /\ users'[<<n, k>>] = Generated(n, k)
                /\ \A j \in Requests : users[<<n, j>>] /= Generated(n, k)
           /\ \A m \in Connections, j \in Requests :
                m /= n \/ j /= k => users'[<<m, j>>] = users[<<m, j>>]
<1>1. Generated(n, k) /= None
  BY SeedAssumption DEF SeedAssumption, Credentials, Generated
<1>2. users \in [Connections \X Requests -> Credentials \cup {None}]
  BY DEF TypeOK
<1>3. CASE users[<<n, k>>] /= None
  BY <1>3 DEF WithRow
<1>4. CASE users[<<n, k>>] = None
  <2>1. users' = [users EXCEPT ![<<n, k>>] = Generated(n, k)]
    BY <1>4 DEF WithRow
  <2>2. \A j \in Requests : users[<<n, j>>] /= Generated(n, k)
    BY <1>1, <1>4, DrawnOnce
  <2>3. users'[<<n, k>>] = Generated(n, k)
    BY <1>2, <2>1
  <2>4. \A m \in Connections, j \in Requests :
            m /= n \/ j /= k => users'[<<m, j>>] = users[<<m, j>>]
    BY <1>2, <2>1
  <2> QED
    BY <1>1, <1>4, <2>2, <2>3, <2>4
<1> QED
  BY <1>3, <1>4

\* A row that comes with a read.
LEMMA RowDrawn ==
    ASSUME TypeOK, RowInv, NEW n \in Connections, NEW k \in Requests,
           users' = WithRow(n, k), users' /= users
    PROVE  /\ users[<<n, k>>] = None
           /\ users'[<<n, k>>] = Generated(n, k)
           /\ \A j \in Requests : users[<<n, j>>] /= users'[<<n, k>>]
           /\ \A m \in Connections, j \in Requests :
                m /= n \/ j /= k => users'[<<m, j>>] = users[<<m, j>>]
<1>1. users[<<n, k>>] = None
  BY DEF WithRow
<1>2. /\ users'[<<n, k>>] = Generated(n, k)
      /\ \A j \in Requests : users[<<n, j>>] /= Generated(n, k)
  BY <1>1, RowRead
<1>3. \A m \in Connections, j \in Requests :
        m /= n \/ j /= k => users'[<<m, j>>] = users[<<m, j>>]
  BY <1>1 DEF WithRow, TypeOK
<1> QED
  BY <1>1, <1>2, <1>3

\* A seed is inserted for one request, if at all.
LEMMA SeedInserted ==
    ASSUME TypeOK, NEW n \in Connections, NEW k \in Requests, NEW cred,
           users' = WithInfo(n, k, cred)
    PROVE  \/ users' = users
           \/ /\ users[<<n, k>>] = None
              /\ \A j \in Requests : users[<<n, j>>] /= cred
              /\ users'[<<n, k>>] = cred
              /\ \A m \in Connections, j \in Requests :
                    m /= n \/ j /= k => users'[<<m, j>>] = users[<<m, j>>]
BY DEF TypeOK, WithInfo

\* What happens to the rows in a step: nothing, or one new row that no other
\* request has on that connection.
LEMMA OneRow ==
    ASSUME TypeInv, RowInv, ServerStep
    PROVE  \/ users' = users
           \/ \E n \in Connections, k \in Requests :
                /\ users[<<n, k>>] = None
                /\ users'[<<n, k>>] \in SeedCredentials \cup {Generated(n, k)}
                /\ \A j \in Requests : users[<<n, j>>] /= users'[<<n, k>>]
                /\ \A m \in Connections, j \in Requests :
                    m /= n \/ j /= k => users'[<<m, j>>] = users[<<m, j>>]
<1>1. TypeOK
  BY DEF TypeInv
<1>2. ASSUME NEW n \in Connections, NEW k \in Requests, CallOn(n, k), users' /= users
      PROVE  /\ users[<<n, k>>] = None
             /\ users'[<<n, k>>] \in SeedCredentials \cup {Generated(n, k)}
             /\ \A j \in Requests : users[<<n, j>>] /= users'[<<n, k>>]
             /\ \A m \in Connections, j \in Requests :
                    m /= n \/ j /= k => users'[<<m, j>>] = users[<<m, j>>]
  <2>1. users' = WithRow(n, k)
    BY <1>2 DEF CallOn
  <2> QED
    BY <1>1, <1>2, <2>1, RowDrawn
<1>3. ASSUME NEW n \in Connections, NEW k \in Requests, AdoptOn(n, k), users' /= users
      PROVE  /\ users[<<n, k>>] = None
             /\ users'[<<n, k>>] \in SeedCredentials \cup {Generated(n, k)}
             /\ \A j \in Requests : users[<<n, j>>] /= users'[<<n, k>>]
             /\ \A m \in Connections, j \in Requests :
                    m /= n \/ j /= k => users'[<<m, j>>] = users[<<m, j>>]
  <2>1. users' = WithInfo(n, k, dbInfo[k].cred) /\ dbInfo[k].cred \in SeedCredentials
    BY <1>3 DEF AdoptOn, RowInv
  <2> QED
    BY <1>1, <1>3, <2>1, SeedInserted
<1> QED
  BY <1>2, <1>3 DEF ServerStep

\* The memory of other reconciles is left alone.
LEMMA OtherInfo ==
    ASSUME TypeOK, NEW k \in Requests, NEW j \in Requests, j /= k,
           Reconcile(k) \/ Step(k) \/ Sync(k) \/ User(k)
    PROVE  dbInfo'[j] = dbInfo[j]
<1>1. CASE Reconcile(k) \/ AddFinalizer(k)
  BY <1>1 DEF TypeOK, Reconcile, AddFinalizer, Start, Idle
<1>2. CASE HandleSeed(k) \/ SetDatabaseInfo(k) \/ DeleteSeedSecret(k)
  BY <1>2 DEF TypeOK, HandleSeed, SetDatabaseInfo, DeleteSeedSecret, Fails
<1>3. CASE CreateDatabase(k) \/ GetDatabaseInfo(k) \/ DropDatabase(k)
  BY <1>3 DEF TypeOK, CreateDatabase, GetDatabaseInfo, DropDatabase, Fails
<1>4. CASE UpdateCreateStatus(k) \/ UpdateDropStatus(k)
  BY <1>4 DEF UpdateCreateStatus, UpdateDropStatus
<1>5. CASE HandleService(k) \/ HandleSecret(k) \/ DeleteService(k) \/ DeleteSecret(k)
  BY <1>5 DEF HandleService, HandleSecret, DeleteService, DeleteSecret
<1>6. CASE Panic(k) \/ UpdateRequest(k) \/ UpdateStatus(k) \/ HandleError(k)
           \/ RemoveFinalizer(k)
  BY <1>6
     DEF TypeOK, Panic, UpdateRequest, UpdateStatus, HandleError, RemoveFinalizer, Done,
         Requeue, Idle
<1>7. CASE Sync(k)
  BY <1>7 DEF Sync, SyncRequest, SyncService, SyncSecret, worker
<1>8. CASE User(k)
  BY <1>8
     DEF User, CreateRequest, DeleteRequest, ForceReconcile, ChangeReference, Edit, worker
<1> QED
  BY <1>1, <1>2, <1>3, <1>4, <1>5, <1>6, <1>7, <1>8 DEF Step

\* HandleSeed is the only way to SetDatabaseInfo.
LEMMA SeedStep ==
    ASSUME TypeOK, NEW k \in Requests, Reconcile(k) \/ Step(k) \/ Sync(k) \/ User(k),
           pc'[k] = "setDatabaseInfo"
    PROVE  HandleSeed(k) \/ (pc[k] = "setDatabaseInfo" /\ dbInfo'[k] = dbInfo[k])
<1>1. cached[k] \in Object
  BY ObjectTypes
<1>2. CASE Reconcile(k)
  <2>1. pc'[k] \in {"idle", FirstStep(cached[k])}
    BY <1>2 DEF TypeOK, Reconcile, Start, Idle, Goto
  <2> QED
    BY <1>1, <2>1, FirstStepKinds, StepTypes
<1>3. CASE AddFinalizer(k)
  <2>1. \E o : pc'[k] \in {"idle", "handleError", CreateStep(o)}
    BY <1>3 DEF TypeOK, AddFinalizer, Start, Idle, Goto
  <2> QED
    BY <2>1 DEF CreateStep
<1>4. CASE SetDatabaseInfo(k) \/ DeleteSeedSecret(k)
  BY <1>4 DEF TypeOK, SetDatabaseInfo, DeleteSeedSecret, Fails, Goto
<1>5. CASE CreateDatabase(k) \/ GetDatabaseInfo(k) \/ DropDatabase(k)
  BY <1>5 DEF TypeOK, CreateDatabase, GetDatabaseInfo, DropDatabase, Fails, Goto
<1>6. CASE UpdateCreateStatus(k) \/ UpdateDropStatus(k)
  BY <1>6 DEF TypeOK, UpdateCreateStatus, UpdateDropStatus, Goto
<1>7. CASE HandleService(k) \/ HandleSecret(k) \/ DeleteService(k) \/ DeleteSecret(k)
  BY <1>7 DEF TypeOK, HandleService, HandleSecret, DeleteService, DeleteSecret, Fails, Goto
<1>8. CASE Panic(k) \/ UpdateRequest(k) \/ UpdateStatus(k) \/ HandleError(k)
           \/ RemoveFinalizer(k)
  BY <1>8
     DEF TypeOK, Panic, UpdateRequest, UpdateStatus, HandleError, RemoveFinalizer, Done,
         Requeue, Idle, Goto
<1>9. CASE Sync(k) \/ User(k)
  BY <1>9
     DEF Sync, SyncRequest, SyncService, SyncSecret, User, CreateRequest, DeleteRequest,
         ForceReconcile, ChangeReference, Edit, worker
<1>10. CASE HandleSeed(k)
  BY <1>10
<1> QED
  BY <1>2, <1>3, <1>4, <1>5, <1>6, <1>7, <1>8, <1>9, <1>10 DEF Step

\* Only a seed secret's credentials are on their way into a row as they are.
LEMMA SeedOnItsWay ==
    ASSUME TypeInv, RowInv, [Next]_vars, NEW j \in Requests, pc'[j] = "setDatabaseInfo"
    PROVE  dbInfo'[j].cred \in SeedCredentials
<1>0. TypeOK
  BY DEF TypeInv
<1>1. CASE pc[j] = "setDatabaseInfo" /\ dbInfo'[j] = dbInfo[j]
  BY <1>1 DEF RowInv
<1>2. CASE HandleSeed(j)
  <2>1. /\ seedSecret[j] \in databases
        /\ dbInfo'[j] = [conn |-> seedSecret[j][1], cred |-> seedSecret[j][2]]
    BY <1>2 DEF HandleSeed, Fails, Goto, TypeInv, TypeOK
  <2>2. seedSecret[j] \in Connections \X SeedCredentials
    BY <2>1, SeedAssumption DEF SeedAssumption, TypeInv, TypeOK
  <2> QED
    BY <2>1, <2>2
<1>3. ASSUME NEW k \in Requests, Reconcile(k) \/ Step(k) \/ Sync(k) \/ User(k)
      PROVE  HandleSeed(j) \/ (pc[j] = "setDatabaseInfo" /\ dbInfo'[j] = dbInfo[j])
  <2>1. CASE j = k
    BY <1>0, <1>3, <2>1, SeedStep
  <2>2. CASE j /= k
    <3>1. Untouched(j)
      BY <1>0, <1>3, <2>2, OtherRequests
    <3>2. dbInfo'[j] = dbInfo[j]
      BY <1>0, <1>3, <2>2, OtherInfo
    <3> QED
      BY <3>1, <3>2 DEF Untouched
  <2> QED
    BY <2>1, <2>2
<1>4. ~Crash
  BY DEF Crash
<1>5. CASE UNCHANGED vars
  BY <1>5 DEF vars, worker, RowInv
<1> QED
  BY <1>1, <1>2, <1>3, <1>4, <1>5 DEF Next

LEMMA RowInvInit == Init => RowInv
<1> SUFFICES ASSUME Init PROVE RowInv
  OBVIOUS
<1>1. \A n \in Connections, k \in Requests : users[<<n, k>>] = None
  BY DEF Init
<1>2. \A k \in Requests : pc[k] /= "setDatabaseInfo"
  BY DEF Init
<1> QED
  BY <1>1, <1>2 DEF RowInv, RowsDistinct

LEMMA RowInvStep == TypeInv /\ RowInv /\ [Next]_vars => RowInv'
<1> SUFFICES ASSUME TypeInv, RowInv, [Next]_vars PROVE RowInv'
  OBVIOUS
<1>1. \/ users' = users
      \/ \E n \in Connections, k \in Requests :
            /\ users[<<n, k>>] = None
            /\ users'[<<n, k>>] \in SeedCredentials \cup {Generated(n, k)}
            /\ \A j \in Requests : users[<<n, j>>] /= users'[<<n, k>>]
            /\ \A m \in Connections, j \in Requests :
                m /= n \/ j /= k => users'[<<m, j>>] = users[<<m, j>>]
  BY NextServer, OneRow
<1>2. ASSUME NEW n \in Connections, NEW k \in Requests
      PROVE  users'[<<n, k>>] \in SeedCredentials \cup {Generated(n, k), None}
  BY <1>1 DEF RowInv
<1>3. RowsDistinct'
  <2> SUFFICES ASSUME NEW n \in Connections, NEW j \in Requests, NEW k \in Requests,
                      users'[<<n, j>>] = users'[<<n, k>>], users'[<<n, j>>] /= None
               PROVE  j = k
    BY DEF RowsDistinct
  <2>1. users[<<n, j>>] = users[<<n, k>>] /\ users[<<n, j>>] /= None => j = k
    BY DEF RowInv, RowsDistinct
  <2>2. CASE users' = users
    BY <2>1, <2>2
  <2>3. ASSUME NEW m \in Connections, NEW l \in Requests,
               \A i \in Requests : users[<<m, i>>] /= users'[<<m, l>>],
               \A o \in Connections, i \in Requests :
                    o /= m \/ i /= l => users'[<<o, i>>] = users[<<o, i>>]
        PROVE  j = k
    BY <2>1, <2>3
  <2> QED
    BY <1>1, <2>2, <2>3
<1>4. \A n, k : Generated(n, k)' = Generated(n, k)
  BY DEF Generated
<1> QED
  BY <1>2, <1>3, <1>4, SeedOnItsWay DEF RowInv

\* Two requests never own the same user on a server, however many share a seed
\* and whatever fails: the row of a request is inserted once, from a draw of its
\* own or from a seed that is in no other row (SetDatabaseInfo, Initialize).
THEOREM RowsDistinctCorrect == Spec => []RowsDistinct
<1>1. Init => TypeInv /\ RowInv
  BY TypeInvInit, RowInvInit
<1>2. TypeInv /\ RowInv /\ [Next]_vars => (TypeInv /\ RowInv)'
  BY TypeInvStep, RowInvStep
<1>3. RowInv => RowsDistinct
  BY DEF RowInv
<1> QED
  BY <1>1, <1>2, <1>3, PTL DEF Spec

-----------------------------------------------------------------------------
(* The servers are used as DatabaseServer says.                            *)

\* What DatabaseServer sees of connection n.
DatabasesOn(n) == {cred \in Credentials : <<n, cred>> \in databases}

\* The new row is one of DatabaseServer's.
LEMMA RowOn ==
    ASSUME TypeInv, RowInv, NEW n \in Connections, NEW k \in Requests,
           \/ users' = users
           \/ /\ users[<<n, k>>] = None
              /\ users'[<<n, k>>] \in Credentials
              /\ \A j \in Requests : users[<<n, j>>] /= users'[<<n, k>>]
              /\ \A j \in Requests : j /= k => users'[<<n, j>>] = users[<<n, j>>]
    PROVE  On(n)!Row(k)
<1>1. CASE users' = users
  BY <1>1 DEF On!Row
<1>2. CASE users' /= users
  <2>1. [j \in Requests |-> users'[<<n, j>>]] =
            [[j \in Requests |-> users[<<n, j>>]] EXCEPT ![k] = users'[<<n, k>>]]
    BY <1>2
  <2> QED
    BY <1>2, <2>1 DEF On!Row
<1> QED
  BY <1>1, <1>2

\* What a call about the row of request k does to the rows of its connection.
LEMMA RowCall ==
    ASSUME TypeInv, RowInv, NEW n \in Connections, NEW k \in Requests,
           CallOn(n, k) \/ AdoptOn(n, k)
    PROVE  /\ On(n)!Row(k)
           /\ \A m \in Connections \ {n}, j \in Requests :
                users'[<<m, j>>] = users[<<m, j>>]
<1>0. TypeOK
  BY DEF TypeInv
<1>1. CASE users' = users
  BY <1>1, RowOn
<1>2. CASE users' /= users /\ CallOn(n, k)
  <2>1. users' = WithRow(n, k)
    BY <1>2 DEF CallOn
  <2>2. Generated(n, k) \in Credentials
    BY DEF Generated, Credentials
  <2>3. /\ users[<<n, k>>] = None
        /\ users'[<<n, k>>] \in Credentials
        /\ \A j \in Requests : users[<<n, j>>] /= users'[<<n, k>>]
        /\ \A m \in Connections, j \in Requests :
                m /= n \/ j /= k => users'[<<m, j>>] = users[<<m, j>>]
    BY <1>0, <1>2, <2>1, <2>2, RowDrawn
  <2>4. On(n)!Row(k)
    BY <2>3, RowOn
  <2> QED
    BY <2>3, <2>4
<1>3. CASE users' /= users /\ AdoptOn(n, k)
  <2>1. users' = WithInfo(n, k, dbInfo[k].cred) /\ dbInfo[k].cred \in SeedCredentials
    BY <1>3 DEF AdoptOn, RowInv
  <2>2. dbInfo[k].cred \in Credentials
    BY <2>1 DEF Credentials
  <2>3. /\ users[<<n, k>>] = None
        /\ users'[<<n, k>>] \in Credentials
        /\ \A j \in Requests : users[<<n, j>>] /= users'[<<n, k>>]
        /\ \A m \in Connections, j \in Requests :
                m /= n \/ j /= k => users'[<<m, j>>] = users[<<m, j>>]
    BY <1>0, <1>3, <2>1, <2>2, SeedInserted
  <2>4. On(n)!Row(k)
    BY <2>3, RowOn
  <2> QED
    BY <2>3, <2>4
<1> QED
  BY <1>1, <1>2, <1>3

\* The databases of a connection, after a step that makes or drops one there.
LEMMA DatabaseCall ==
    ASSUME TypeInv, RowInv, NEW n \in Connections, NEW k \in Requests, CallOn(n, k),
           databases' /= databases
    PROVE  /\ users'[<<n, k>>] \in Credentials
           /\ DatabasesOn(n)' \in {DatabasesOn(n) \cup {users'[<<n, k>>]},
                                   DatabasesOn(n) \ {users'[<<n, k>>]}}
           /\ \A m \in Connections \ {n} : DatabasesOn(m)' = DatabasesOn(m)
<1>0. TypeOK
  BY DEF TypeInv
<1> DEFINE cred == users'[<<n, k>>]
<1>1. users' = WithRow(n, k)
  BY DEF CallOn
<1>2. cred \in Credentials
  BY <1>0, <1>1, RowRead, WithRowType DEF Users
<1>3. \/ databases' = databases \cup {<<n, cred>>}
      \/ databases' = databases \ {<<n, cred>>}
  BY <1>1 DEF CallOn
<1> HIDE DEF cred
<1>4. \A m \in Connections \ {n} : DatabasesOn(m)' = DatabasesOn(m)
  BY <1>3 DEF DatabasesOn
<1>5. \/ DatabasesOn(n)' = DatabasesOn(n) \cup {cred}
      \/ DatabasesOn(n)' = DatabasesOn(n) \ {cred}
  BY <1>2, <1>3 DEF DatabasesOn
<1> QED
  BY <1>2, <1>4, <1>5 DEF cred

\* Each step that calls a server is, on each connection, a call of DatabaseServer
\* about one request or nothing.
LEMMA ServersStep ==
    ASSUME TypeInv, RowInv, ServerStep, NEW m \in Connections
    PROVE  On(m)!Next \/ UNCHANGED On(m)!vars
<1>1. CASE UNCHANGED <<users, databases>>
  BY <1>1 DEF On!vars
<1>2. ASSUME NEW n \in Connections, NEW k \in Requests, CallOn(n, k) \/ AdoptOn(n, k)
      PROVE  On(m)!Next \/ UNCHANGED On(m)!vars
  <2>1. /\ On(n)!Row(k)
        /\ \A o \in Connections \ {n}, j \in Requests :
                users'[<<o, j>>] = users[<<o, j>>]
    BY <1>2, RowCall
  <2>2. \/ databases' = databases
        \/ /\ users'[<<n, k>>] \in Credentials
           /\ DatabasesOn(n)' \in {DatabasesOn(n) \cup {users'[<<n, k>>]},
                                   DatabasesOn(n) \ {users'[<<n, k>>]}}
           /\ \A o \in Connections \ {n} : DatabasesOn(o)' = DatabasesOn(o)
    BY <1>2, DatabaseCall DEF AdoptOn
  <2>3. CASE m = n
    <3>1. CASE databases' = databases
      <4>1. On(n)!Call(k)
        BY <2>1, <3>1 DEF On!Call
      <4> QED
        BY <2>3, <4>1 DEF On!Next
    <3>2. CASE databases' /= databases
      <4>1. users'[<<n, k>>] /= None
        BY <2>2, <3>2, SeedAssumption DEF SeedAssumption
      <4>2. [j \in Requests |-> users'[<<n, j>>]][k] = users'[<<n, k>>]
        OBVIOUS
      <4>3. On(n)!Call(k)
        BY <2>1, <2>2, <3>2, <4>1, <4>2 DEF On!Call, DatabasesOn
      <4> QED
        BY <2>3, <4>3 DEF On!Next
    <3> QED
      BY <3>1, <3>2
  <2>4. CASE m /= n
    <3>1. [j \in Requests |-> users'[<<m, j>>]] = [j \in Requests |-> users[<<m, j>>]]
      BY <2>1, <2>4
    <3>2. {cred \in Credentials : <<m, cred>> \in databases'} =
            {cred \in Credentials : <<m, cred>> \in databases}
      BY <2>2, <2>4 DEF DatabasesOn
    <3> QED
      BY <3>1, <3>2 DEF On!vars
  <2> QED
    BY <2>3, <2>4
<1> QED
  BY <1>1, <1>2 DEF ServerStep

LEMMA ServersInit ==
    ASSUME Init, NEW n \in Connections
    PROVE  On(n)!Init
BY DEF Init, On!Init

\* On every connection the controller uses the server as DatabaseServer says,
\* which the SQL statements of the client implement: a name gets credentials
\* once and for all and of no other name, and a step of a reconcile makes or
\* drops the database of its own request's row and no other.
THEOREM ServersUsedCorrect == Spec => ServersUsed
<1>1. Init => TypeInv /\ RowInv /\ \A n \in Connections : On(n)!Init
  BY TypeInvInit, RowInvInit, ServersInit
<1>2. TypeInv /\ RowInv /\ [Next]_vars => (TypeInv /\ RowInv)'
  BY TypeInvStep, RowInvStep
<1>3. TypeInv /\ RowInv /\ [Next]_vars =>
        [\A n \in Connections : On(n)!Next \/ UNCHANGED On(n)!vars]_vars
  BY NextServer, ServersStep
<1> QED
  BY <1>1, <1>2, <1>3, PTL DEF Spec, ServersUsed
=============================================================================
