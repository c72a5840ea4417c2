------------------------- MODULE MongoDBDatabaseProofs -------------------------
(***************************************************************************)
(* Proofs about MongoDBDatabase, for every set of names, workers and draws. *)
(***************************************************************************)
EXTENDS MongoDBDatabase, TLAPS

-----------------------------------------------------------------------------
(* The invariant.                                                          *)

\* The commands a call may have left, named for what the call has done.
Drawn == <<"insertInit", "upsert", "usersInfo", "createUser">>
Made == <<"upsert", "usersInfo", "createUser">>
Stored == <<"usersInfo", "createUser">>
Missing == <<"createUser">>
Found == <<"dropDatabase", "dropUser", "deleteOne">>
Emptied == <<"dropUser", "deleteOne">>
Closed == <<"deleteOne">>
Get == <<"find">>

Lefts == {Create, Drawn, Made, Stored, Missing, Drop, Found, Emptied, Closed, Get, <<>>}

\* A document is what was drawn for its name, and an account is in a document.
DocumentsInv(s) ==
    /\ \A k \in Names : s.documents[k] /= None => s.documents[k] \in Draws[k]
    /\ \A a \in s.accounts : \E k \in Names : s.documents[k] = a

\* How far a call about name k that has found or drawn i has come, when it has
\* the commands "left" to do: what it has done and has found out stays so until
\* it is over.
Creating(s, k, left, i) ==
    \/ left = Create /\ i = None
    \/ /\ left \in {Drawn, Made}
       /\ i \in Draws[k]
       /\ s.documents[k] \in {None, i}
       /\ left = Made => i.dbname \in s.databases
    \/ /\ left \in {Stored, Missing, <<>>}
       /\ i \in Draws[k]
       /\ s.documents[k] = i
       /\ i.dbname \in s.databases
       /\ left = <<>> => i \in s.accounts

Dropping(s, k, left, i) ==
    \/ left = Drop /\ i = None
    \/ left = <<>> /\ i = None /\ s.documents[k] = None
    \/ /\ left \in {Found, Emptied, Closed, <<>>}
       /\ i \in Draws[k]
       /\ s.documents[k] = IF left = <<>> THEN None ELSE i
       /\ left /= Found => i.dbname \notin s.databases
       /\ left \in {Closed, <<>>} => i \notin s.accounts

Getting(k, left, i) ==
    \/ left = Get /\ i = None
    \/ left = <<>> /\ i \in Draws[k]

CallInv(s, c, left, i) ==
    \/ c = None /\ left = <<>> /\ i = None
    \/ /\ c /= None
       /\ \/ c.op = "create" /\ Creating(s, c.name, left, i)
          \/ c.op = "drop" /\ Dropping(s, c.name, left, i)
          \/ c.op = "get" /\ Getting(c.name, left, i)

\* A database is named by a document, or about to be, unless a call has failed.
Named(d) ==
    \/ \E k \in Names : server.documents[k] /= None /\ server.documents[k].dbname = d
    \/ \E w \in Workers : Holds(w, "upsert") /\ info[w].dbname = d
    \/ faults > 0

TypeInv ==
    /\ server \in Server
    /\ drawn \subseteq Infos
    /\ call \in [Workers -> Calls \cup {None}]
    /\ todo \in [Workers -> Lefts]
    /\ info \in [Workers -> Infos \cup {None}]
    /\ faults \in 0 .. MaxFaults
    /\ calls \in 0 .. MaxCalls

\* No two calls are about one name.
ApartInv ==
    \A v, w \in Workers :
        v /= w /\ call[v] /= None /\ call[w] /= None => call[v].name /= call[w].name

MongoInv ==
    /\ TypeInv
    /\ ApartInv
    /\ DocumentsInv(server)
    /\ \A w \in Workers : CallInv(server, call[w], todo[w], info[w])
    /\ \A d \in server.databases : Named(d)

-----------------------------------------------------------------------------
(* What the commands and the draws are.                                    *)

LEMMA LeftSteps ==
    /\ Create /= <<>> /\ Head(Create) = "find" /\ Tail(Create) = Drawn
    /\ Drawn /= <<>> /\ Head(Drawn) = "insertInit" /\ Tail(Drawn) = Made
    /\ Made /= <<>> /\ Head(Made) = "upsert" /\ Tail(Made) = Stored
    /\ Stored /= <<>> /\ Head(Stored) = "usersInfo" /\ Tail(Stored) = Missing
    /\ Missing /= <<>> /\ Head(Missing) = "createUser" /\ Tail(Missing) = <<>>
    /\ Drop /= <<>> /\ Head(Drop) = "find" /\ Tail(Drop) = Found
    /\ Found /= <<>> /\ Head(Found) = "dropDatabase" /\ Tail(Found) = Emptied
    /\ Emptied /= <<>> /\ Head(Emptied) = "dropUser" /\ Tail(Emptied) = Closed
    /\ Closed /= <<>> /\ Head(Closed) = "deleteOne" /\ Tail(Closed) = <<>>
    /\ Get /= <<>> /\ Head(Get) = "find" /\ Tail(Get) = <<>>
BY DEF Create, Drawn, Made, Stored, Missing, Drop, Found, Emptied, Closed, Get

\* The commands of each call are a suffix of its program.
LEMMA LeftSuffixes ==
    /\ \A left \in {Create, Drawn, Made, Stored, Missing, <<>>} : IsSuffix(left, Create)
    /\ \A left \in {Drop, Found, Emptied, Closed, <<>>} : IsSuffix(left, Drop)
    /\ \A left \in {Get, <<>>} : IsSuffix(left, Get)
BY DEF IsSuffix, IsPrefix, Reverse,
       Create, Drawn, Made, Stored, Missing, Drop, Found, Emptied, Closed, Get

LEMMA CallTypes ==
    /\ \A c \in Calls : c.op \in {"create", "drop", "get"} /\ c.name \in Names
    /\ Program["create"] = Create /\ Program["drop"] = Drop /\ Program["get"] = Get
BY DEF Calls, Program, Get

\* Draws for different names, and different draws, have nothing in common.
LEMMA DrawTypes ==
    ASSUME NEW k \in Names, NEW i \in Draws[k]
    PROVE  /\ i \in Infos /\ i.dbname \in Databases /\ i /= None
           /\ \A j \in Names : j /= k => i \notin Draws[j]
           /\ \A j \in Infos : j /= i => j.user /= i.user /\ j.dbname /= i.dbname
<1>1. i \in Infos
  BY DEF Infos
<1> QED
  BY <1>1, NoneAssumption, DistinctAssumption DEF NoneAssumption, DistinctAssumption, Databases

\* A server has a document of the name's own, or none.
LEMMA FilteredShape ==
    ASSUME server \in Server, DocumentsInv(server), NEW k \in Names
    PROVE  \/ server.documents[k] = None /\ Filtered(k) = {}
           \/ /\ server.documents[k] \in Draws[k]
              /\ Filtered(k) = {server.documents[k]}
BY DEF Filtered, DocumentsInv

\* There is an account of the name that is drawn, or none of that user.
LEMMA AccountShape ==
    ASSUME server \in Server, NEW k \in Names, NEW w \in Workers, info[w] \in Draws[k]
    PROVE  /\ HasAccount(w) <=> info[w] \in server.accounts
           /\ {i \in server.accounts : i.user /= info[w].user} = server.accounts \ {info[w]}
<1>1. server.accounts \subseteq Infos
  BY DEF Server
<1> QED
  BY <1>1, DrawTypes DEF HasAccount

-----------------------------------------------------------------------------
(* A call changes nothing of other names.                                  *)

Around(s, new, k) ==
    \A j \in Names : j /= k =>
        /\ new.documents[j] = s.documents[j]
        /\ \A i \in Draws[j] :
            /\ i.dbname \in new.databases <=> i.dbname \in s.databases
            /\ i \in new.accounts <=> i \in s.accounts

LEMMA CallKept ==
    ASSUME NEW s, NEW new, NEW k, NEW c \in Calls \cup {None}, NEW left, NEW i,
           c /= None => c.name /= k,
           Around(s, new, k), CallInv(s, c, left, i)
    PROVE  CallInv(new, c, left, i)
<1>1. CASE c = None
  BY <1>1 DEF CallInv
<1>2. CASE c /= None
  <2>1. /\ c.name \in Names
        /\ new.documents[c.name] = s.documents[c.name]
        /\ i \in Draws[c.name] =>
            /\ i.dbname \in new.databases <=> i.dbname \in s.databases
            /\ i \in new.accounts <=> i \in s.accounts
    BY <1>2, CallTypes DEF Around
  <2> QED
    BY <1>2, <2>1 DEF CallInv, Creating, Dropping, Getting
<1> QED
  BY <1>1, <1>2

\* A call that has commands left goes on.
LEMMA HoldsCall ==
    ASSUME MongoInv, NEW w \in Workers, todo[w] /= <<>>
    PROVE  call[w] /= None /\ call[w] \in Calls /\ Name(w) \in Names
<1>1. call[w] \in Calls \cup {None} /\ CallInv(server, call[w], todo[w], info[w])
  BY DEF MongoInv, TypeInv
<1> QED
  BY <1>1, CallTypes DEF CallInv, Name

\* A step of a call leaves the calls of other workers as they are.
LEMMA OthersKept ==
    ASSUME MongoInv, NEW w \in Workers, call[w] /= None,
           Around(server, server', call[w].name),
           \A v \in Workers : v /= w =>
                call'[v] = call[v] /\ todo'[v] = todo[v] /\ info'[v] = info[v],
           CallInv(server', call'[w], todo'[w], info'[w])
    PROVE  \A v \in Workers : CallInv(server', call'[v], todo'[v], info'[v])
<1> SUFFICES ASSUME NEW v \in Workers, v /= w
             PROVE  CallInv(server', call[v], todo[v], info[v])
  OBVIOUS
<1>1. call[v] \in Calls \cup {None} /\ CallInv(server, call[v], todo[v], info[v])
  BY DEF MongoInv, TypeInv
<1>2. call[v] /= None => call[v].name /= call[w].name
  BY DEF MongoInv, ApartInv
<1> QED
  BY <1>1, <1>2, CallKept

-----------------------------------------------------------------------------
(* The steps of a call.                                                    *)

\* A server that a command for name k may leave.
Left(new, k) == new \in Server /\ DocumentsInv(new) /\ Around(server, new, k)

LEMMA LeftAlone == \A k : MongoInv => Left(server, k)
BY DEF MongoInv, TypeInv, Left, Around

\* A worker's memory is of the types, and that of the others as it was.
LEMMA MemoryTypes ==
    ASSUME MongoInv, NEW w \in Workers,
           NEW c \in Calls \cup {None}, NEW left \in Lefts, NEW i \in Infos \cup {None},
           call' = [call EXCEPT ![w] = c],
           todo' = [todo EXCEPT ![w] = left],
           info' = [info EXCEPT ![w] = i]
    PROVE  /\ call' \in [Workers -> Calls \cup {None}]
           /\ todo' \in [Workers -> Lefts]
           /\ info' \in [Workers -> Infos \cup {None}]
           /\ call'[w] = c /\ todo'[w] = left /\ info'[w] = i
           /\ \A v \in Workers : v /= w =>
                call'[v] = call[v] /\ todo'[v] = todo[v] /\ info'[v] = info[v]
BY DEF MongoInv, TypeInv

\* The call goes on.
LEMMA WentInv ==
    ASSUME MongoInv, NEW w \in Workers, call[w] /= None,
           NEW left \in Lefts, NEW i \in Infos \cup {None},
           Left(server', call[w].name),
           drawn' \subseteq Infos,
           call' = call, faults' = faults, calls' = calls,
           todo' = [todo EXCEPT ![w] = left],
           info' = [info EXCEPT ![w] = i],
           CallInv(server', call[w], left, i),
           \A d \in server'.databases : Named(d)'
    PROVE  MongoInv'
<1>1. call[w] \in Calls \cup {None} /\ call' = [call EXCEPT ![w] = call[w]]
  BY DEF MongoInv, TypeInv
<1>2. /\ call' \in [Workers -> Calls \cup {None}]
      /\ todo' \in [Workers -> Lefts]
      /\ info' \in [Workers -> Infos \cup {None}]
      /\ call'[w] = call[w] /\ todo'[w] = left /\ info'[w] = i
      /\ \A v \in Workers : v /= w =>
           call'[v] = call[v] /\ todo'[v] = todo[v] /\ info'[v] = info[v]
  BY <1>1, MemoryTypes
<1>3. \A v \in Workers : CallInv(server', call'[v], todo'[v], info'[v])
  BY <1>2, OthersKept DEF Left
<1>4. TypeInv' /\ ApartInv' /\ DocumentsInv(server')
  BY <1>2 DEF TypeInv, ApartInv, MongoInv, Left
<1>5. DocumentsInv(server)'
  BY <1>4 DEF DocumentsInv
<1>6. \A v \in Workers : CallInv(server, call[v], todo[v], info[v])'
  BY <1>3 DEF CallInv, Creating, Dropping, Getting
<1> QED
  BY <1>4, <1>5, <1>6 DEF MongoInv

\* The call is over.
LEMMA OverInv ==
    ASSUME MongoInv, NEW w \in Workers, call[w] /= None,
           Left(server', call[w].name),
           drawn' = drawn, calls' = calls,
           faults' \in 0 .. MaxFaults,
           Over(w),
           \A d \in server'.databases : Named(d)'
    PROVE  MongoInv'
<1>1. <<>> \in Lefts
  BY DEF Lefts
<1>2. /\ call' \in [Workers -> Calls \cup {None}]
      /\ todo' \in [Workers -> Lefts]
      /\ info' \in [Workers -> Infos \cup {None}]
      /\ call'[w] = None /\ todo'[w] = <<>> /\ info'[w] = None
      /\ \A v \in Workers : v /= w =>
           call'[v] = call[v] /\ todo'[v] = todo[v] /\ info'[v] = info[v]
  BY <1>1, MemoryTypes DEF Over
<1>3. \A v \in Workers : CallInv(server', call'[v], todo'[v], info'[v])
  <2>1. CallInv(server', call'[w], todo'[w], info'[w])
    BY <1>2 DEF CallInv
  <2> QED
    BY <1>2, <2>1, OthersKept DEF Left
<1>4. TypeInv' /\ ApartInv' /\ DocumentsInv(server')
  BY <1>2 DEF TypeInv, ApartInv, MongoInv, Left
<1>5. DocumentsInv(server)'
  BY <1>4 DEF DocumentsInv
<1>6. \A v \in Workers : CallInv(server, call[v], todo[v], info[v])'
  BY <1>3 DEF CallInv, Creating, Dropping, Getting
<1> QED
  BY <1>4, <1>5, <1>6 DEF MongoInv

LEMMA FaultTypes ==
    ASSUME TypeInv, Fault
    PROVE  faults' \in 0 .. MaxFaults /\ faults' > 0
BY BoundsAssumption DEF TypeInv, Fault, BoundsAssumption

\* What stays named: as long as no document goes and the worker is not about to
\* write one.
LEMMA NamedKept ==
    ASSUME MongoInv, NEW w \in Workers, ~Holds(w, "upsert"),
           server'.documents = server.documents,
           server'.databases \subseteq server.databases,
           faults' = faults,
           \A v \in Workers : v /= w => todo'[v] = todo[v] /\ info'[v] = info[v]
    PROVE  \A d \in server'.databases : Named(d)'
<1> SUFFICES ASSUME NEW d \in server'.databases PROVE Named(d)'
  OBVIOUS
<1>1. Named(d)
  BY DEF MongoInv
<1> QED
  BY <1>1 DEF Named, Holds

\* The call fails on an answer, or is over.
LEMMA RefusedInv ==
    ASSUME MongoInv, NEW w \in Workers, call[w] /= None, ~Holds(w, "upsert"),
           Over(w), UNCHANGED <<server, drawn, faults, calls>>
    PROVE  MongoInv'
<1>1. \A v \in Workers : v /= w => todo'[v] = todo[v] /\ info'[v] = info[v]
  BY DEF Over, MongoInv, TypeInv
<1>2. \A d \in server'.databases : Named(d)'
  BY <1>1, NamedKept
<1>3. faults' \in 0 .. MaxFaults
  BY DEF MongoInv, TypeInv
<1> QED
  BY <1>2, <1>3, OverInv, LeftAlone

\* A command that fails, before or after it took effect, ends the call.
LEMMA FailedInv ==
    ASSUME MongoInv, NEW w \in Workers, todo[w] /= <<>>, NEW new,
           Left(new, Name(w)),
           server' \in {server, new}, Fault, Over(w), UNCHANGED <<drawn, calls>>
    PROVE  MongoInv'
<1>1. call[w] /= None /\ Name(w) = call[w].name
  BY HoldsCall DEF Name
<1>2. Left(server', call[w].name)
  BY <1>1, LeftAlone
<1>3. faults' \in 0 .. MaxFaults /\ faults' > 0
  BY FaultTypes DEF MongoInv
<1>4. \A d \in server'.databases : Named(d)'
  BY <1>3 DEF Named
<1> QED
  BY <1>1, <1>2, <1>3, <1>4, OverInv

\* A command that takes the worker from one state of its memory to another.
Goes(w, new, left, i) ==
    /\ server' = new
    /\ todo' = [todo EXCEPT ![w] = left]
    /\ info' = [info EXCEPT ![w] = i]
    /\ drawn' \subseteq Infos
    /\ UNCHANGED <<call, faults, calls>>

LEMMA GoesInv ==
    ASSUME MongoInv, NEW w \in Workers, todo[w] /= <<>>,
           NEW new, NEW left \in Lefts, NEW i \in Infos \cup {None},
           Left(new, Name(w)),
           CallInv(new, call[w], left, i),
           Goes(w, new, left, i),
           \A d \in server'.databases : Named(d)'
    PROVE  MongoInv'
BY HoldsCall, WentInv DEF Goes, Name

\* Over a command of its own, every worker but the one keeps its memory.
LEMMA GoesOthers ==
    ASSUME MongoInv, NEW w \in Workers, NEW new, NEW left, NEW i, Goes(w, new, left, i)
    PROVE  /\ todo'[w] = left /\ info'[w] = i
           /\ \A v \in Workers : v /= w => todo'[v] = todo[v] /\ info'[v] = info[v]
           /\ server' = new /\ faults' = faults
BY DEF Goes, MongoInv, TypeInv

\* Proceed, with the same of what was found.
LEMMA PlainShape ==
    ASSUME MongoInv, NEW w \in Workers, NEW command, NEW new,
           Left(new, Name(w)), Plain(w, command, new)
    PROVE  MongoInv' \/ Goes(w, new, Tail(todo[w]), info[w])
<1>1. CASE server' \in {server, new} /\ Fault /\ Over(w) /\ UNCHANGED <<drawn, calls>>
  BY <1>1, FailedInv DEF Plain, Executed, Holds
<1>2. CASE /\ server' = new /\ Proceed(w)
           /\ UNCHANGED <<drawn, info, call, faults, calls>>
  BY <1>2 DEF Goes, Proceed, MongoInv, TypeInv
<1> QED
  BY <1>1, <1>2 DEF Plain, Executed

\* What a call has left to do says how far it has come.
LEMMA CommandShape ==
    ASSUME MongoInv, NEW w \in Workers
    PROVE  /\ Holds(w, "find") =>
                /\ info[w] = None
                /\ \/ call[w].op = "create" /\ todo[w] = Create
                   \/ call[w].op = "drop" /\ todo[w] = Drop
                   \/ call[w].op = "get" /\ todo[w] = Get
           /\ Holds(w, "insertInit") =>
                call[w].op = "create" /\ todo[w] = Drawn /\ Creating(server, Name(w), Drawn, info[w])
           /\ Holds(w, "upsert") =>
                call[w].op = "create" /\ todo[w] = Made /\ Creating(server, Name(w), Made, info[w])
           /\ Holds(w, "usersInfo") =>
                call[w].op = "create" /\ todo[w] = Stored /\ Creating(server, Name(w), Stored, info[w])
           /\ Holds(w, "createUser") =>
                call[w].op = "create" /\ todo[w] = Missing /\ Creating(server, Name(w), Missing, info[w])
           /\ Holds(w, "dropDatabase") =>
                call[w].op = "drop" /\ todo[w] = Found /\ Dropping(server, Name(w), Found, info[w])
           /\ Holds(w, "dropUser") =>
                call[w].op = "drop" /\ todo[w] = Emptied /\ Dropping(server, Name(w), Emptied, info[w])
           /\ Holds(w, "deleteOne") =>
                call[w].op = "drop" /\ todo[w] = Closed /\ Dropping(server, Name(w), Closed, info[w])
<1>1. CallInv(server, call[w], todo[w], info[w])
  BY DEF MongoInv
<1>2. CASE call[w].op = "create" /\ Creating(server, Name(w), todo[w], info[w])
  BY <1>2, LeftSteps DEF Creating, Holds
<1>3. CASE call[w].op = "drop" /\ Dropping(server, Name(w), todo[w], info[w])
  BY <1>3, LeftSteps DEF Dropping, Holds
<1>4. CASE call[w].op = "get" /\ Getting(Name(w), todo[w], info[w])
  BY <1>4, LeftSteps DEF Getting, Holds
<1>5. CASE todo[w] = <<>>
  BY <1>5 DEF Holds
<1> QED
  BY <1>1, <1>2, <1>3, <1>4, <1>5 DEF CallInv, Name

-----------------------------------------------------------------------------
(* The commands.                                                           *)

LEMMA FindInv == \A w \in Workers : MongoInv /\ Find(w) => MongoInv'
<1> SUFFICES ASSUME NEW w \in Workers, MongoInv, Find(w) PROVE MongoInv'
  OBVIOUS
<1> DEFINE k == Name(w)
<1>1. /\ Holds(w, "find") /\ todo[w] /= <<>> /\ ~Holds(w, "upsert")
      /\ call[w] /= None /\ call[w] \in Calls /\ k \in Names
      /\ server \in Server /\ DocumentsInv(server) /\ Left(server, k)
      /\ drawn \subseteq Infos
  BY HoldsCall, LeftAlone DEF Find, Holds, MongoInv, TypeInv
<1>2. /\ info[w] = None
      /\ \/ call[w].op = "create" /\ todo[w] = Create /\ Tail(todo[w]) = Drawn
         \/ call[w].op = "drop" /\ todo[w] = Drop /\ Tail(todo[w]) = Found
         \/ call[w].op = "get" /\ todo[w] = Get /\ Tail(todo[w]) = <<>>
  BY <1>1, CommandShape, LeftSteps
<1>3. server' \in {server} /\ Fault /\ Over(w) /\ UNCHANGED <<drawn, calls>> => MongoInv'
  BY <1>1, FailedInv
\* The call goes on with something of the name's own, or with nothing to do.
<1>4. ASSUME NEW left \in Lefts, NEW i \in Infos \cup {None},
             Goes(w, server, left, i), CallInv(server, call[w], left, i)
      PROVE  MongoInv'
  <2>1. /\ \A v \in Workers : v /= w => todo'[v] = todo[v] /\ info'[v] = info[v]
        /\ server' = server /\ faults' = faults
    BY <1>4, GoesOthers
  <2>2. \A d \in server'.databases : Named(d)'
    BY <1>1, <2>1, NamedKept
  <2> QED
    BY <1>1, <1>4, <2>2, GoesInv
<1>5. ASSUME NEW i \in Draws[k], server.documents[k] \in {None, i},
             call[w].op = "create" \/ i = server.documents[k],
             Proceed(w), Takes(w, i), server' = server, drawn' \in {drawn, drawn \cup {i}},
             UNCHANGED <<call, faults, calls>>
      PROVE  MongoInv'
  <2>1. i \in Infos /\ i /= None
    BY <1>1, DrawTypes
  <2>2. Goes(w, server, Tail(todo[w]), i)
    BY <1>1, <1>5, <2>1 DEF Goes, Proceed, Takes, MongoInv, TypeInv
  <2>3. Tail(todo[w]) \in Lefts
    BY <1>2 DEF Lefts
  <2>4. CallInv(server, call[w], Tail(todo[w]), i)
    BY <1>1, <1>2, <1>5, <2>1, LeftSteps DEF CallInv, Creating, Dropping, Getting, Name
  <2> QED
    BY <1>4, <2>1, <2>2, <2>3, <2>4
<1>6. CASE /\ Filtered(k) /= {}
           /\ \E i \in Filtered(k) :
                Executed(w, "find", server, Proceed(w) /\ Takes(w, i) /\ UNCHANGED drawn)
  <2>1. PICK i \in Filtered(k) :
          Executed(w, "find", server, Proceed(w) /\ Takes(w, i) /\ UNCHANGED drawn)
    BY <1>6
  <2>2. i \in Draws[k] /\ i = server.documents[k]
    BY <1>1, FilteredShape
  <2> QED
    BY <1>3, <1>5, <2>1, <2>2 DEF Executed
<1>7. CASE /\ Filtered(k) = {} /\ call[w].op = "create"
           /\ \E i \in Draws[k] \ drawn :
                Executed(w, "find", server, Proceed(w) /\ Takes(w, i) /\ drawn' = drawn \cup {i})
  <2>1. PICK i \in Draws[k] \ drawn :
          Executed(w, "find", server, Proceed(w) /\ Takes(w, i) /\ drawn' = drawn \cup {i})
    BY <1>7
  <2>2. server.documents[k] = None
    BY <1>1, <1>7, FilteredShape
  <2> QED
    BY <1>3, <1>5, <1>7, <2>1, <2>2 DEF Executed
<1>8. CASE Filtered(k) = {} /\ Refused(w, "find")
  BY <1>1, <1>8, RefusedInv DEF Refused
<1>9. CASE /\ Filtered(k) = {} /\ call[w].op = "drop"
           /\ Executed(w, "find", server,
                todo' = [todo EXCEPT ![w] = <<>>] /\ UNCHANGED <<drawn, info>>)
  <2>1. server.documents[k] = None
    BY <1>1, <1>9, FilteredShape
  <2>2. <<>> \in Lefts /\ CallInv(server, call[w], <<>>, None)
    BY <1>1, <1>9, <2>1 DEF Lefts, CallInv, Dropping, Name
  <2>3. CASE /\ server' = server /\ todo' = [todo EXCEPT ![w] = <<>>]
             /\ UNCHANGED <<drawn, info, call, faults, calls>>
    <3>1. Goes(w, server, <<>>, None)
      BY <1>1, <1>2, <2>3 DEF Goes, MongoInv, TypeInv
    <3> QED
      BY <1>4, <2>2, <3>1
  <2> QED
    BY <1>3, <1>9, <2>3 DEF Executed
<1> QED
  BY <1>6, <1>7, <1>8, <1>9 DEF Find

LEMMA InsertInitInv == \A w \in Workers : MongoInv /\ InsertInit(w) => MongoInv'
<1> SUFFICES ASSUME NEW w \in Workers, MongoInv, InsertInit(w) PROVE MongoInv'
  OBVIOUS
<1> DEFINE k == Name(w)
           i == info[w]
           new == [server EXCEPT !.databases = @ \cup {i.dbname}]
<1>1. /\ Holds(w, "insertInit") /\ todo[w] /= <<>>
      /\ call[w] /= None /\ call[w] \in Calls /\ k \in Names
      /\ server \in Server /\ DocumentsInv(server)
  BY HoldsCall DEF InsertInit, Plain, Executed, Holds, MongoInv, TypeInv
<1>2. /\ call[w].op = "create" /\ todo[w] = Drawn /\ Tail(todo[w]) = Made
      /\ i \in Draws[k] /\ server.documents[k] \in {None, i}
      /\ Creating(server, k, Drawn, i)
  BY <1>1, CommandShape, LeftSteps DEF Creating
<1>3. /\ i \in Infos /\ i.dbname \in Databases
      /\ \A j \in Names : j /= k => \A o \in Draws[j] : o.dbname /= i.dbname
  BY <1>1, <1>2, DrawTypes DEF Infos
<1>4. /\ new \in Server /\ new.documents = server.documents
      /\ new.accounts = server.accounts
      /\ new.databases = server.databases \cup {i.dbname}
  BY <1>1, <1>3 DEF Server
<1> HIDE DEF new
<1>5. Left(new, k)
  BY <1>1, <1>3, <1>4 DEF Left, DocumentsInv, Around
<1>6. CallInv(new, call[w], Made, i) /\ Made \in Lefts
  BY <1>1, <1>2, <1>4 DEF CallInv, Creating, Name, Lefts
<1>7. CASE Goes(w, new, Made, i)
  <2>1. \A d \in server'.databases : Named(d)'
    <3> SUFFICES ASSUME NEW d \in server'.databases PROVE Named(d)'
      OBVIOUS
    <3>1. /\ todo'[w] = Made /\ info'[w] = i
          /\ \A v \in Workers : v /= w => todo'[v] = todo[v] /\ info'[v] = info[v]
          /\ server' = new /\ faults' = faults
      BY <1>7, GoesOthers
    <3>2. CASE d = i.dbname
      BY <3>1, <3>2, LeftSteps DEF Named, Holds
    <3>3. CASE d \in server.databases
      <4>1. Named(d)
        BY <3>3 DEF MongoInv
      <4>2. ~Holds(w, "upsert")
        BY <1>1 DEF Holds
      <4> QED
        BY <1>4, <3>1, <4>1, <4>2 DEF Named, Holds
    <3> QED
      BY <1>4, <3>1, <3>2, <3>3
  <2> QED
    BY <1>1, <1>3, <1>5, <1>6, <1>7, <2>1, GoesInv
<1> QED
  BY <1>1, <1>2, <1>5, <1>7, PlainShape DEF InsertInit, new

LEMMA UpsertInv == \A w \in Workers : MongoInv /\ Upsert(w) => MongoInv'
<1> SUFFICES ASSUME NEW w \in Workers, MongoInv, Upsert(w) PROVE MongoInv'
  OBVIOUS
<1> DEFINE k == Name(w)
           i == info[w]
           new == [server EXCEPT !.documents[k] = i]
<1>1. /\ Holds(w, "upsert") /\ todo[w] /= <<>>
      /\ call[w] /= None /\ call[w] \in Calls /\ k \in Names
      /\ server \in Server /\ DocumentsInv(server) /\ drawn \subseteq Infos
  BY HoldsCall DEF Upsert, Holds, MongoInv, TypeInv
<1>2. /\ call[w].op = "create" /\ todo[w] = Made /\ Tail(todo[w]) = Stored
      /\ i \in Draws[k] /\ server.documents[k] \in {None, i}
      /\ i.dbname \in server.databases
  BY <1>1, CommandShape, LeftSteps DEF Creating
<1>3. i \in Infos /\ i /= None
  BY <1>1, <1>2, DrawTypes
<1>4. /\ new \in Server
      /\ new.documents = [server.documents EXCEPT ![k] = i]
      /\ new.documents[k] = i
      /\ \A j \in Names : j /= k => new.documents[j] = server.documents[j]
      /\ new.accounts = server.accounts
      /\ new.databases = server.databases
  BY <1>1, <1>3 DEF Server
<1>5. server.documents[k] = i => new = server
  BY <1>1 DEF Server
<1> HIDE DEF new
<1>6. Left(new, k)
  <2>1. DocumentsInv(new)
    <3>1. ASSUME NEW a \in new.accounts
          PROVE  \E j \in Names : new.documents[j] = a
      <4>1. PICK j \in Names : server.documents[j] = a
        BY <1>1, <1>4, <3>1 DEF DocumentsInv
      <4>2. a /= None
        BY <1>1, <1>4, <3>1, NoneAssumption DEF Server, NoneAssumption
      <4> QED
        BY <1>1, <1>2, <1>4, <4>1, <4>2
    <3> QED
      BY <1>1, <1>2, <1>4, <3>1 DEF DocumentsInv
  <2> QED
    BY <1>4, <2>1 DEF Left, Around
<1>7. CallInv(new, call[w], Stored, i) /\ Stored \in Lefts
  BY <1>1, <1>2, <1>4, LeftSteps DEF CallInv, Creating, Name, Lefts
<1>8. CASE Goes(w, new, Stored, i)
  <2>1. \A d \in server'.databases : Named(d)'
    <3> SUFFICES ASSUME NEW d \in server'.databases PROVE Named(d)'
      OBVIOUS
    <3>1. /\ \A v \in Workers : v /= w => todo'[v] = todo[v] /\ info'[v] = info[v]
          /\ server' = new /\ faults' = faults
      BY <1>8, GoesOthers
    <3>2. Named(d)
      BY <1>4, <3>1 DEF MongoInv
    <3>3. d = i.dbname => Named(d)'
      BY <1>1, <1>3, <1>4, <3>1 DEF Named
    <3>4. ASSUME NEW j \in Names, server.documents[j] /= None, server.documents[j].dbname = d
          PROVE  Named(d)'
      BY <1>1, <1>2, <1>4, <3>1, <3>3, <3>4 DEF Named
    <3> QED
      BY <3>1, <3>2, <3>3, <3>4 DEF Named, Holds
  <2> QED
    BY <1>1, <1>3, <1>6, <1>7, <1>8, <2>1, GoesInv
<1>9. CASE Plain(w, "upsert", new)
  BY <1>1, <1>2, <1>6, <1>8, <1>9, PlainShape
<1>10. CASE \E o \in Filtered(k) :
             Executed(w, "upsert", server, Proceed(w) /\ Takes(w, o) /\ UNCHANGED drawn)
  <2>1. PICK o \in Filtered(k) :
          Executed(w, "upsert", server, Proceed(w) /\ Takes(w, o) /\ UNCHANGED drawn)
    BY <1>10
  <2>2. o = i /\ new = server
    <3>1. server.documents[k] /= None /\ o = server.documents[k]
      BY <2>1 DEF Filtered
    <3> QED
      BY <1>2, <1>5, <3>1
  <2>3. CASE server' \in {server} /\ Fault /\ Over(w) /\ UNCHANGED <<drawn, calls>>
    BY <1>1, <1>6, <2>2, <2>3, FailedInv
  <2>4. CASE /\ server' = server /\ Proceed(w) /\ Takes(w, o)
             /\ UNCHANGED <<drawn, call, faults, calls>>
    BY <1>1, <1>2, <1>8, <2>2, <2>4 DEF Goes, Proceed, Takes
  <2> QED
    BY <2>1, <2>3, <2>4 DEF Executed
<1> QED
  BY <1>9, <1>10 DEF Upsert, new

LEMMA UsersInfoInv == \A w \in Workers : MongoInv /\ UsersInfo(w) => MongoInv'
<1> SUFFICES ASSUME NEW w \in Workers, MongoInv, UsersInfo(w) PROVE MongoInv'
  OBVIOUS
<1> DEFINE k == Name(w)
           i == info[w]
           left == IF HasAccount(w) THEN <<>> ELSE Missing
<1>1. /\ Holds(w, "usersInfo") /\ todo[w] /= <<>> /\ ~Holds(w, "upsert")
      /\ call[w] /= None /\ call[w] \in Calls /\ k \in Names
      /\ server \in Server /\ DocumentsInv(server) /\ Left(server, k)
      /\ drawn \subseteq Infos
  BY HoldsCall, LeftAlone DEF UsersInfo, Executed, Holds, MongoInv, TypeInv
<1>2. /\ call[w].op = "create" /\ todo[w] = Stored /\ Tail(todo[w]) = Missing
      /\ Creating(server, k, Stored, i)
      /\ i \in Draws[k]
  BY <1>1, CommandShape, LeftSteps DEF Creating
<1>3. i \in Infos /\ (HasAccount(w) <=> i \in server.accounts)
  BY <1>1, <1>2, DrawTypes, AccountShape
<1>4. left \in Lefts /\ CallInv(server, call[w], left, i)
  BY <1>1, <1>2, <1>3, LeftSteps DEF CallInv, Creating, Name, Lefts
<1>5. CASE server' \in {server} /\ Fault /\ Over(w) /\ UNCHANGED <<drawn, calls>>
  BY <1>1, <1>5, FailedInv
<1>6. CASE /\ server' = server /\ todo' = [todo EXCEPT ![w] = left]
           /\ UNCHANGED <<drawn, info, call, faults, calls>>
  <2>1. Goes(w, server, left, i)
    BY <1>1, <1>6 DEF Goes, MongoInv, TypeInv
  <2> HIDE DEF left
  <2>2. \A d \in server'.databases : Named(d)'
    BY <1>1, <2>1, GoesOthers, NamedKept
  <2> QED
    BY <1>1, <1>3, <1>4, <2>1, <2>2, GoesInv
<1> QED
  BY <1>2, <1>5, <1>6 DEF UsersInfo, Executed

LEMMA CreateUserInv == \A w \in Workers : MongoInv /\ CreateUser(w) => MongoInv'
<1> SUFFICES ASSUME NEW w \in Workers, MongoInv, CreateUser(w) PROVE MongoInv'
  OBVIOUS
<1> DEFINE k == Name(w)
           i == info[w]
           new == [server EXCEPT !.accounts = @ \cup {i}]
<1>1. /\ Holds(w, "createUser") /\ todo[w] /= <<>> /\ ~Holds(w, "upsert")
      /\ call[w] /= None /\ call[w] \in Calls /\ k \in Names
      /\ server \in Server /\ DocumentsInv(server)
  BY HoldsCall DEF CreateUser, Holds, MongoInv, TypeInv
<1>2. /\ call[w].op = "create" /\ todo[w] = Missing /\ Tail(todo[w]) = <<>>
      /\ i \in Draws[k] /\ server.documents[k] = i
      /\ i.dbname \in server.databases
  BY <1>1, CommandShape, LeftSteps DEF Creating
<1>3. i \in Infos /\ \A j \in Names : j /= k => i \notin Draws[j]
  BY <1>1, <1>2, DrawTypes
<1>4. /\ new \in Server /\ new.documents = server.documents
      /\ new.databases = server.databases
      /\ new.accounts = server.accounts \cup {i}
  BY <1>1, <1>3 DEF Server
<1> HIDE DEF new
<1>5. Left(new, k)
  BY <1>1, <1>2, <1>3, <1>4 DEF Left, DocumentsInv, Around
<1>6. CallInv(new, call[w], <<>>, i) /\ <<>> \in Lefts
  BY <1>1, <1>2, <1>4 DEF CallInv, Creating, Name, Lefts
<1>7. CASE Goes(w, new, <<>>, i)
  <2>1. \A d \in server'.databases : Named(d)'
    BY <1>1, <1>4, <1>7, GoesOthers, NamedKept
  <2> QED
    BY <1>1, <1>3, <1>5, <1>6, <1>7, <2>1, GoesInv
<1>8. CASE Plain(w, "createUser", new)
  BY <1>1, <1>2, <1>5, <1>7, <1>8, PlainShape
<1>9. CASE Refused(w, "createUser")
  BY <1>1, <1>9, RefusedInv DEF Refused
<1> QED
  BY <1>8, <1>9 DEF CreateUser, new

LEMMA DropDatabaseInv == \A w \in Workers : MongoInv /\ DropDatabase(w) => MongoInv'
<1> SUFFICES ASSUME NEW w \in Workers, MongoInv, DropDatabase(w) PROVE MongoInv'
  OBVIOUS
<1> DEFINE k == Name(w)
           i == info[w]
           new == [server EXCEPT !.databases = @ \ {i.dbname}]
<1>1. /\ Holds(w, "dropDatabase") /\ todo[w] /= <<>> /\ ~Holds(w, "upsert")
      /\ call[w] /= None /\ call[w] \in Calls /\ k \in Names
      /\ server \in Server /\ DocumentsInv(server)
  BY HoldsCall DEF DropDatabase, Plain, Executed, Holds, MongoInv, TypeInv
<1>2. /\ call[w].op = "drop" /\ todo[w] = Found /\ Tail(todo[w]) = Emptied
      /\ i \in Draws[k] /\ server.documents[k] = i
  BY <1>1, CommandShape, LeftSteps DEF Dropping
<1>3. /\ i \in Infos
      /\ \A j \in Names : j /= k => \A o \in Draws[j] : o.dbname /= i.dbname
  BY <1>1, <1>2, DrawTypes DEF Infos
<1>4. /\ new \in Server /\ new.documents = server.documents
      /\ new.accounts = server.accounts
      /\ new.databases = server.databases \ {i.dbname}
  BY <1>1 DEF Server
<1> HIDE DEF new
<1>5. Left(new, k)
  BY <1>1, <1>3, <1>4 DEF Left, DocumentsInv, Around
<1>6. CallInv(new, call[w], Emptied, i) /\ Emptied \in Lefts
  BY <1>1, <1>2, <1>4, LeftSteps DEF CallInv, Dropping, Name, Lefts
<1>7. CASE Goes(w, new, Emptied, i)
  <2>1. \A d \in server'.databases : Named(d)'
    BY <1>1, <1>4, <1>7, GoesOthers, NamedKept
  <2> QED
    BY <1>1, <1>3, <1>5, <1>6, <1>7, <2>1, GoesInv
<1> QED
  BY <1>1, <1>2, <1>5, <1>7, PlainShape DEF DropDatabase, new

LEMMA DropUserInv == \A w \in Workers : MongoInv /\ DropUser(w) => MongoInv'
<1> SUFFICES ASSUME NEW w \in Workers, MongoInv, DropUser(w) PROVE MongoInv'
  OBVIOUS
<1> DEFINE k == Name(w)
           i == info[w]
           new == [server EXCEPT !.accounts = {j \in @ : j.user /= i.user}]
<1>1. /\ Holds(w, "dropUser") /\ todo[w] /= <<>> /\ ~Holds(w, "upsert")
      /\ call[w] /= None /\ call[w] \in Calls /\ k \in Names
      /\ server \in Server /\ DocumentsInv(server)
  BY HoldsCall DEF DropUser, Holds, MongoInv, TypeInv
<1>2. /\ call[w].op = "drop" /\ todo[w] = Emptied /\ Tail(todo[w]) = Closed
      /\ i \in Draws[k] /\ server.documents[k] = i
      /\ i.dbname \notin server.databases
  BY <1>1, CommandShape, LeftSteps DEF Dropping
<1>3. /\ i \in Infos /\ \A j \in Names : j /= k => i \notin Draws[j]
      /\ {j \in server.accounts : j.user /= i.user} = server.accounts \ {i}
  BY <1>1, <1>2, DrawTypes, AccountShape
<1>4. /\ new \in Server /\ new.documents = server.documents
      /\ new.databases = server.databases
      /\ new.accounts = server.accounts \ {i}
  BY <1>1, <1>3 DEF Server
<1> HIDE DEF new
<1>5. Left(new, k)
  BY <1>1, <1>3, <1>4 DEF Left, DocumentsInv, Around
<1>6. CallInv(new, call[w], Closed, i) /\ Closed \in Lefts
  BY <1>1, <1>2, <1>4, LeftSteps DEF CallInv, Dropping, Name, Lefts
<1>7. CASE Goes(w, new, Closed, i)
  <2>1. \A d \in server'.databases : Named(d)'
    BY <1>1, <1>4, <1>7, GoesOthers, NamedKept
  <2> QED
    BY <1>1, <1>3, <1>5, <1>6, <1>7, <2>1, GoesInv
<1>8. CASE Plain(w, "dropUser", new)
  BY <1>1, <1>2, <1>5, <1>7, <1>8, PlainShape
<1>9. CASE Refused(w, "dropUser")
  BY <1>1, <1>9, RefusedInv DEF Refused
<1> QED
  BY <1>8, <1>9 DEF DropUser, new

LEMMA DeleteOneInv == \A w \in Workers : MongoInv /\ DeleteOne(w) => MongoInv'
<1> SUFFICES ASSUME NEW w \in Workers, MongoInv, DeleteOne(w) PROVE MongoInv'
  OBVIOUS
<1> DEFINE k == Name(w)
           i == info[w]
           new == [server EXCEPT !.documents[k] = None]
<1>1. /\ Holds(w, "deleteOne") /\ todo[w] /= <<>> /\ ~Holds(w, "upsert")
      /\ call[w] /= None /\ call[w] \in Calls /\ k \in Names
      /\ server \in Server /\ DocumentsInv(server)
  BY HoldsCall DEF DeleteOne, Holds, MongoInv, TypeInv
<1>2. /\ call[w].op = "drop" /\ todo[w] = Closed /\ Tail(todo[w]) = <<>>
      /\ i \in Draws[k] /\ server.documents[k] = i
      /\ i.dbname \notin server.databases /\ i \notin server.accounts
  BY <1>1, CommandShape, LeftSteps DEF Dropping
<1>3. i \in Infos
  BY <1>1, <1>2, DrawTypes
<1>4. /\ new \in Server
      /\ new.documents[k] = None
      /\ \A j \in Names : j /= k => new.documents[j] = server.documents[j]
      /\ new.accounts = server.accounts
      /\ new.databases = server.databases
  BY <1>1 DEF Server
<1> HIDE DEF new
<1>5. Left(new, k)
  BY <1>1, <1>2, <1>4 DEF Left, DocumentsInv, Around
<1>6. CallInv(new, call[w], <<>>, i) /\ <<>> \in Lefts
  BY <1>1, <1>2, <1>4, LeftSteps DEF CallInv, Dropping, Name, Lefts
<1>7. CASE Goes(w, new, <<>>, i)
  <2>1. \A d \in server'.databases : Named(d)'
    <3> SUFFICES ASSUME NEW d \in server'.databases PROVE Named(d)'
      OBVIOUS
    <3>1. /\ \A v \in Workers : v /= w => todo'[v] = todo[v] /\ info'[v] = info[v]
          /\ server' = new /\ faults' = faults
      BY <1>7, GoesOthers
    <3>2. Named(d) /\ d /= i.dbname
      BY <1>2, <1>4, <3>1 DEF MongoInv
    <3> QED
      BY <1>1, <1>2, <1>4, <3>1, <3>2 DEF Named, Holds
  <2> QED
    BY <1>1, <1>3, <1>5, <1>6, <1>7, <2>1, GoesInv
<1>8. CASE Plain(w, "deleteOne", new)
  BY <1>1, <1>2, <1>5, <1>7, <1>8, PlainShape
<1>9. CASE Refused(w, "deleteOne")
  BY <1>1, <1>9, RefusedInv DEF Refused
<1> QED
  BY <1>8, <1>9 DEF DeleteOne, new

LEMMA CommandInv == \A w \in Workers : MongoInv /\ Command(w) => MongoInv'
BY FindInv, InsertInitInv, UpsertInv, UsersInfoInv, CreateUserInv, DropDatabaseInv,
   DropUserInv, DeleteOneInv DEF Command

-----------------------------------------------------------------------------
(* Calls begin and end.                                                    *)

LEMMA BeginInv == \A w \in Workers, c \in Calls : MongoInv /\ Begin(w, c) => MongoInv'
<1> SUFFICES ASSUME NEW w \in Workers, NEW c \in Calls, MongoInv, Begin(w, c) PROVE MongoInv'
  OBVIOUS
<1>1. /\ call[w] = None /\ todo[w] = <<>> /\ info[w] = None /\ c /= None
      /\ call' = [call EXCEPT ![w] = c]
      /\ todo' = [todo EXCEPT ![w] = Program[c.op]]
      /\ UNCHANGED <<server, drawn, info, faults>>
      /\ calls' \in 0 .. MaxCalls
      /\ \A v \in Workers : call[v] /= None => call[v].name /= c.name
  <2>1. call[w] = None /\ todo[w] = <<>> /\ info[w] = None
    BY DEF Begin, MongoInv, CallInv
  <2>2. calls' \in 0 .. MaxCalls
    BY BoundsAssumption DEF Begin, MongoInv, TypeInv, BoundsAssumption
  <2>3. c /= None
    BY NoneAssumption DEF NoneAssumption
  <2> QED
    BY <2>1, <2>2, <2>3 DEF Begin
<1>2. /\ c.op \in {"create", "drop", "get"}
      /\ Program[c.op] \in Lefts
      /\ c.op = "create" => Program[c.op] = Create
      /\ c.op = "drop" => Program[c.op] = Drop
      /\ c.op = "get" => Program[c.op] = Get
  BY CallTypes DEF Lefts
<1>3. /\ call' \in [Workers -> Calls \cup {None}]
      /\ todo' \in [Workers -> Lefts]
      /\ call'[w] = c /\ todo'[w] = Program[c.op]
      /\ \A v \in Workers : v /= w => call'[v] = call[v] /\ todo'[v] = todo[v]
  BY <1>1, <1>2 DEF MongoInv, TypeInv
<1>4. \A v \in Workers : CallInv(server, call[v], todo[v], info[v])'
  <2>1. CallInv(server, c, Program[c.op], None)
    BY <1>1, <1>2 DEF CallInv, Creating, Dropping, Getting
  <2>2. \A v \in Workers : CallInv(server, call'[v], todo'[v], info[v])
    BY <1>1, <1>3, <2>1 DEF MongoInv
  <2> QED
    BY <1>1, <2>2 DEF CallInv, Creating, Dropping, Getting
<1>5. \A d \in server'.databases : Named(d)'
  <2> SUFFICES ASSUME NEW d \in server'.databases PROVE Named(d)'
    OBVIOUS
  <2>1. Named(d)
    BY <1>1 DEF MongoInv
  <2>2. \A v \in Workers : Holds(v, "upsert") => v /= w
    BY <1>1 DEF Holds
  <2> QED
    BY <1>1, <1>3, <2>1, <2>2 DEF Named, Holds
<1>6. TypeInv' /\ ApartInv' /\ DocumentsInv(server)'
  BY <1>1, <1>3 DEF MongoInv, TypeInv, ApartInv, DocumentsInv
<1> QED
  BY <1>4, <1>5, <1>6 DEF MongoInv

LEMMA ReturnInv == \A w \in Workers : MongoInv /\ Return(w) => MongoInv'
BY RefusedInv DEF Return, Holds

LEMMA CrashInv == MongoInv /\ Crash => MongoInv'
<1> SUFFICES ASSUME MongoInv, Crash PROVE MongoInv'
  OBVIOUS
<1>1. faults' \in 0 .. MaxFaults /\ faults' > 0
  BY FaultTypes DEF MongoInv, Crash
<1>2. \A w \in Workers : call'[w] = None /\ todo'[w] = <<>> /\ info'[w] = None
  BY DEF Crash
<1>3. TypeInv' /\ ApartInv'
  BY <1>1, <1>2 DEF Crash, MongoInv, TypeInv, ApartInv, Lefts
<1>4. DocumentsInv(server)'
  BY DEF Crash, MongoInv, DocumentsInv
<1>5. \A w \in Workers : CallInv(server, call[w], todo[w], info[w])'
  BY <1>2 DEF CallInv
<1> QED
  BY <1>1, <1>3, <1>4, <1>5 DEF MongoInv, Named

LEMMA MongoInvInit == Init => MongoInv
<1> SUFFICES ASSUME Init PROVE MongoInv
  OBVIOUS
<1>1. TypeInv /\ ApartInv
  BY BoundsAssumption DEF Init, TypeInv, ApartInv, Server, Lefts, BoundsAssumption
<1>2. DocumentsInv(server)
  BY DEF Init, DocumentsInv
<1>3. \A w \in Workers : CallInv(server, call[w], todo[w], info[w])
  BY DEF Init, CallInv
<1>4. server.databases = {}
  BY DEF Init
<1> QED
  BY <1>1, <1>2, <1>3, <1>4 DEF MongoInv

LEMMA MongoInvStep == MongoInv /\ [Next]_vars => MongoInv'
<1> SUFFICES ASSUME MongoInv, [Next]_vars PROVE MongoInv'
  OBVIOUS
<1>1. CASE Next
  BY <1>1, BeginInv, CommandInv, ReturnInv, CrashInv DEF Next
<1>2. CASE UNCHANGED vars
  BY <1>2 DEF vars, MongoInv, TypeInv, ApartInv, DocumentsInv, CallInv, Creating,
              Dropping, Getting, Named, Holds
<1> QED
  BY <1>1, <1>2

-----------------------------------------------------------------------------
(* The theorems.                                                           *)

\* Every state has the types of the Go program's, and the commands a call has left
\* are the last of its program.
THEOREM TypeCorrect == Spec => []TypeOK
<1>1. MongoInv => TypeOK
  <2> SUFFICES ASSUME MongoInv, NEW w \in Workers
               PROVE  IF call[w] = None
                      THEN todo[w] = <<>> /\ info[w] = None
                      ELSE IsSuffix(todo[w], Program[call[w].op])
    BY DEF MongoInv, TypeInv, TypeOK
  <2>1. CallInv(server, call[w], todo[w], info[w])
    BY DEF MongoInv
  <2>2. call[w] /= None =>
          \/ call[w].op = "create" /\ todo[w] \in {Create, Drawn, Made, Stored, Missing, <<>>}
          \/ call[w].op = "drop" /\ todo[w] \in {Drop, Found, Emptied, Closed, <<>>}
          \/ call[w].op = "get" /\ todo[w] \in {Get, <<>>}
    BY <2>1 DEF CallInv, Creating, Dropping, Getting
  <2> QED
    BY <2>1, <2>2, LeftSuffixes, CallTypes DEF CallInv
<1> QED
  BY <1>1, MongoInvInit, MongoInvStep, PTL DEF Spec

\* A creation that returns no error has returned credentials that open the
\* database and are in the document of the name, after any number of calls that
\* failed at any command, and while calls about other names go on.
THEOREM CreatedUsableCorrect == Spec => []CreatedUsable
<1>1. MongoInv => CreatedUsable
  <2> SUFFICES ASSUME MongoInv, NEW w \in Workers, Succeeds(w, "create")
               PROVE  Usable(info[w]) /\ info[w] = server.documents[call[w].name]
    BY DEF CreatedUsable
  <2>1. CallInv(server, call[w], todo[w], info[w])
    BY DEF MongoInv
  <2>2. Creating(server, call[w].name, <<>>, info[w])
    BY <2>1, LeftSteps DEF CallInv, Succeeds
  <2> QED
    BY <2>2, LeftSteps DEF Creating, Usable
<1> QED
  BY <1>1, MongoInvInit, MongoInvStep, PTL DEF Spec

\* A drop that returns no error has left neither document nor database nor account
\* of what it found.
THEOREM DroppedGoneCorrect == Spec => []DroppedGone
<1>1. MongoInv => DroppedGone
  <2> SUFFICES ASSUME MongoInv, NEW w \in Workers, Succeeds(w, "drop")
               PROVE  /\ server.documents[call[w].name] = None
                      /\ info[w] /= None =>
                            /\ info[w].dbname \notin server.databases
                            /\ info[w] \notin server.accounts
    BY DEF DroppedGone
  <2>1. CallInv(server, call[w], todo[w], info[w])
    BY DEF MongoInv
  <2>2. Dropping(server, call[w].name, <<>>, info[w])
    BY <2>1 DEF CallInv, Succeeds
  <2> QED
    BY <2>2, LeftSteps DEF Dropping
<1> QED
  BY <1>1, MongoInvInit, MongoInvStep, PTL DEF Spec

\* No account is there that a drop could not find, whichever calls have failed,
\* and no database but those of creations that failed.
THEOREM NothingUnnamedCorrect == Spec => []NothingUnnamed
<1>1. MongoInv => NothingUnnamed
  BY DEF MongoInv, DocumentsInv, Named, NothingUnnamed
<1> QED
  BY <1>1, MongoInvInit, MongoInvStep, PTL DEF Spec

\* What a command leaves of the server: it takes a document, a database or an
\* account away only if it is of a call that drops.
LEMMA CommandServer ==
    ASSUME MongoInv, NEW w \in Workers, Command(w)
    PROVE  /\ call[w] \in Calls
           /\ \/ server' = server
              \/ /\ call[w].op = "drop"
                 /\ info[w] \in Draws[Name(w)]
                 /\ \/ server' = [server EXCEPT !.databases = @ \ {info[w].dbname}]
                    \/ server' = [server EXCEPT !.accounts = @ \ {info[w]}]
                    \/ server' = [server EXCEPT !.documents[Name(w)] = None]
              \/ server' = [server EXCEPT !.databases = @ \cup {info[w].dbname}]
              \/ server' = [server EXCEPT !.accounts = @ \cup {info[w]}]
              \/ /\ server.documents[Name(w)] = None
                 /\ server' = [server EXCEPT !.documents[Name(w)] = info[w]]
<1>1. todo[w] /= <<>> /\ call[w] \in Calls /\ Name(w) \in Names
  BY HoldsCall DEF Command, Find, InsertInit, Upsert, UsersInfo, CreateUser, DropDatabase,
     DropUser, DeleteOne, Plain, Executed, Refused, Holds
<1>2. server \in Server /\ DocumentsInv(server)
  BY DEF MongoInv, TypeInv
<1>3. CASE Find(w) \/ UsersInfo(w)
  BY <1>1, <1>3 DEF Find, UsersInfo, Executed, Refused
<1>4. CASE InsertInit(w) \/ CreateUser(w)
  BY <1>1, <1>4 DEF InsertInit, CreateUser, Plain, Executed, Refused
<1>5. CASE Upsert(w)
  <2>1. Filtered(Name(w)) = {} => server.documents[Name(w)] = None
    BY DEF Filtered
  <2> QED
    BY <1>1, <1>5, <2>1 DEF Upsert, Plain, Executed
<1>6. CASE DropDatabase(w)
  <2>1. call[w].op = "drop" /\ info[w] \in Draws[Name(w)]
    BY <1>6, CommandShape, LeftSteps DEF DropDatabase, Plain, Executed, Dropping
  <2> QED
    BY <1>1, <1>6, <2>1 DEF DropDatabase, Plain, Executed
<1>7. CASE DropUser(w)
  <2>1. call[w].op = "drop" /\ info[w] \in Draws[Name(w)]
    BY <1>7, CommandShape, LeftSteps DEF DropUser, Dropping
  <2>2. {i \in server.accounts : i.user /= info[w].user} = server.accounts \ {info[w]}
    BY <1>1, <1>2, <2>1, AccountShape
  <2> QED
    BY <1>1, <1>7, <2>1, <2>2 DEF DropUser, Plain, Executed, Refused
<1>8. CASE DeleteOne(w)
  <2>1. call[w].op = "drop" /\ info[w] \in Draws[Name(w)]
    BY <1>8, CommandShape, LeftSteps DEF DeleteOne, Dropping
  <2> QED
    BY <1>1, <1>8, <2>1 DEF DeleteOne, Plain, Executed, Refused
<1> QED
  BY <1>3, <1>4, <1>5, <1>6, <1>7, <1>8 DEF Command

\* The database of a name goes on working as long as no call drops it.
THEOREM UsableKeptCorrect == Spec => UsableKept
<1> DEFINE Kept(k) ==
        /\ server.documents[k] /= None
        /\ Usable(server.documents[k])
        /\ \A w \in Workers : call[w] /= None => call[w] /= [op |-> "drop", name |-> k]
        => Usable(server.documents[k])'
<1>1. MongoInv /\ [Next]_vars => \A k \in Names : Kept(k)
  <2> SUFFICES ASSUME MongoInv, [Next]_vars, NEW k \in Names,
                      server.documents[k] /= None,
                      Usable(server.documents[k]),
                      \A w \in Workers : call[w] /= None =>
                            call[w] /= [op |-> "drop", name |-> k]
               PROVE  Usable(server.documents[k])'
    OBVIOUS
  <2> DEFINE i == server.documents[k]
  <2>1. server \in Server /\ i \in Draws[k] /\ i \in Infos
    BY DrawTypes DEF MongoInv, TypeInv, DocumentsInv
  <2>2. ASSUME NEW w \in Workers, Command(w) PROVE Usable(server.documents[k])'
    <3>1. call[w] \in Calls /\ call[w] /= None
      BY <2>2, CommandServer, NoneAssumption DEF NoneAssumption
    <3>2. call[w].op = "drop" => Name(w) /= k
      BY <3>1 DEF Calls, Name
    <3>3. call[w].op = "drop" /\ info[w] \in Draws[Name(w)] =>
            info[w] /= i /\ info[w].dbname /= i.dbname
      BY <2>1, <3>1, <3>2, CallTypes, DrawTypes DEF Name
    <3>4. \/ server' = server
          \/ server'.documents[k] = i /\ Usable(i) /\ i.dbname \in server'.databases /\ i \in server'.accounts
      BY <2>1, <2>2, <3>2, <3>3, CommandServer DEF Server, Usable
    <3> QED
      BY <3>4 DEF Usable
  <2>3. CASE server' = server
    BY <2>3 DEF Usable
  <2> QED
    BY <2>2, <2>3 DEF Next, Begin, Return, Crash, vars
<1> QED
  BY <1>1, MongoInvInit, MongoInvStep, PTL DEF Spec, UsableKept
=============================================================================
