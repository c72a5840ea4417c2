------------------------ MODULE RelationalDatabaseProofs ------------------------
(***************************************************************************)
(* Proofs about RelationalDatabase, for both types of server, every set of  *)
(* names, workers and sessions, and whatever is drawn and brought.         *)
(***************************************************************************)
EXTENDS RelationalDatabase, SequenceTheorems, TLAPS

-----------------------------------------------------------------------------
(* The statements a call may have left.                                    *)

MySQLSelect == <<"select", "createDatabase", "createUser", "grant", "flush">>
MySQLInsert == <<"insert", "createDatabase", "createUser", "grant", "flush">>
MySQLHasRow == <<"createDatabase", "createUser", "grant", "flush">>
MySQLHasDatabase == <<"createUser", "grant", "flush">>
MySQLHasUser == <<"grant", "flush">>
MySQLFlush == <<"flush">>

MySQLDropSelect == <<"select", "dropDatabase", "dropUser", "flush">>
MySQLDropInsert == <<"insert", "dropDatabase", "dropUser", "flush">>
MySQLDropHasRow == <<"dropDatabase", "dropUser", "flush">>
MySQLNoDatabase == <<"dropUser", "flush">>

PostgreSQLInsert == <<"insert", "selectRole", "grantRole", "createDatabase">>
PostgreSQLHasRow == <<"selectRole", "grantRole", "createDatabase">>
PostgreSQLNoUser == <<"createUser", "grantRole", "createDatabase">>
PostgreSQLHasUser == <<"grantRole", "createDatabase">>
PostgreSQLGranted == <<"createDatabase">>

PostgreSQLDropInsert == <<"insert", "terminate", "dropDatabase", "dropUser">>
PostgreSQLDropHasRow == <<"terminate", "dropDatabase", "dropUser">>
PostgreSQLTerminated == <<"dropDatabase", "dropUser">>
PostgreSQLNoDatabase == <<"dropUser">>

GetInsert == <<"insert">>
MySQLCreateTable == <<"use", "createTable">>

-----------------------------------------------------------------------------
(* The server.                                                             *)

HasDatabase(s, i) == i.dbname \in s.databases
HasUser(s, i) == i.user \in s.accounts
HasGrant(s, i) == <<i.user, i.dbname>> \in s.grants

\* No row has the user or the database of i.
Unclaimed(s, i) ==
    \A k \in Names :
        s.rows[k] /= None => s.rows[k].user /= i.user /\ s.rows[k].dbname /= i.dbname

\* Rows have nothing in common; what there is is a row's or a seed's; a database
\* of PostgreSQL that a row names is its user's; and seeds work until a row
\* claims something of theirs.
ServerInv(s) ==
    /\ \A j, k \in Names :
        j /= k /\ s.rows[j] /= None /\ s.rows[k] /= None =>
            s.rows[j].user /= s.rows[k].user /\ s.rows[j].dbname /= s.rows[k].dbname
    /\ \A d \in s.databases :
        \/ \E k \in Names : s.rows[k] /= None /\ s.rows[k].dbname = d
        \/ \E i \in Seeds : i.dbname = d
    /\ \A g \in s.grants :
        \/ \E k \in Names : s.rows[k] /= None /\ g = <<s.rows[k].user, s.rows[k].dbname>>
        \/ \E i \in Seeds : g = <<i.user, i.dbname>>
    /\ s.type = "postgres" =>
        \A k \in Names : s.rows[k] /= None /\ HasDatabase(s, s.rows[k]) => HasGrant(s, s.rows[k])
    /\ \A i \in Seeds : Unclaimed(s, i) => HasDatabase(s, i) /\ HasUser(s, i) /\ HasGrant(s, i)

-----------------------------------------------------------------------------
(* How far a call about name k has come that has "left" to do: from the row *)
(* on, its credentials are the row's, and what it has done stays so.        *)

CreatingMySQL(s, left, i) ==
    /\ left \in {MySQLHasRow, MySQLHasDatabase, MySQLHasUser, MySQLFlush, <<>>}
    /\ left /= MySQLHasRow => HasDatabase(s, i)
    /\ left \in {MySQLHasUser, MySQLFlush, <<>>} => HasUser(s, i)
    /\ left \in {MySQLFlush, <<>>} => HasGrant(s, i)

CreatingPostgreSQL(s, left, i) ==
    /\ left \in {PostgreSQLHasRow, PostgreSQLNoUser, PostgreSQLHasUser, PostgreSQLGranted, <<>>}
    /\ left \in {PostgreSQLHasUser, PostgreSQLGranted, <<>>} => HasUser(s, i)
    /\ left = <<>> => HasDatabase(s, i)

Creating(s, k, left, i) ==
    \/ i = None /\ s.type = "mysql" /\ left \in {MySQLCreate, MySQLSelect}
    \/ i = None /\ s.type = "postgres" /\ left = PostgreSQLCreate
    \/ i \in Draws /\ s.type = "mysql" /\ left = MySQLInsert
    \/ i \in Draws /\ s.type = "postgres" /\ left = PostgreSQLInsert
    \/ i /= None /\ s.rows[k] = i /\ s.type = "mysql" /\ CreatingMySQL(s, left, i)
    \/ i /= None /\ s.rows[k] = i /\ s.type = "postgres" /\ CreatingPostgreSQL(s, left, i)

NoUser(s, i) == ~HasUser(s, i) /\ \A g \in s.grants : g[1] /= i.user

DroppingMySQL(s, left, i) ==
    /\ left \in {MySQLDropHasRow, MySQLNoDatabase, MySQLFlush, <<>>}
    /\ left /= MySQLDropHasRow => ~HasDatabase(s, i)
    /\ left \in {MySQLFlush, <<>>} => NoUser(s, i)

DroppingPostgreSQL(s, left, i) ==
    /\ left \in {PostgreSQLDropHasRow, PostgreSQLTerminated, PostgreSQLNoDatabase, <<>>}
    /\ left \in {PostgreSQLNoDatabase, <<>>} => ~HasDatabase(s, i)
    /\ left = <<>> => NoUser(s, i)

Dropping(s, k, left, i) ==
    \/ i = None /\ s.type = "mysql" /\ left \in {MySQLDrop, MySQLDropSelect}
    \/ i = None /\ s.type = "postgres" /\ left = PostgreSQLDrop
    \/ i \in Draws /\ s.type = "mysql" /\ left = MySQLDropInsert
    \/ i \in Draws /\ s.type = "postgres" /\ left = PostgreSQLDropInsert
    \/ i /= None /\ s.rows[k] = i /\ s.type = "mysql" /\ DroppingMySQL(s, left, i)
    \/ i /= None /\ s.rows[k] = i /\ s.type = "postgres" /\ DroppingPostgreSQL(s, left, i)

Getting(s, left, i) ==
    \/ i = None /\ s.type = "mysql" /\ left = MySQLGet
    \/ i = None /\ left = PostgreSQLGet
    \/ i \in Draws /\ left = GetInsert
    \/ i \in Infos /\ left = <<>>

Setting(s, left, i) ==
    /\ i \in Seeds
    /\ \/ s.type = "mysql" /\ left = MySQLSet
       \/ left \in {PostgreSQLSet, <<>>}

Initializing(s, left, i) ==
    /\ i = None
    /\ \/ s.type = "mysql" /\ left \in {MySQLInitialize, MySQLCreateTable}
       \/ s.type = "postgres" /\ left = PostgreSQLInitialize
       \/ left \in {<<"createTable">>, <<>>}

CallInv(s, c, left, i) ==
    \/ c = None /\ left = <<>> /\ i = None
    \/ /\ c /= None
       /\ \/ c.op = "create" /\ Creating(s, c.name, left, i)
          \/ c.op = "drop" /\ Dropping(s, c.name, left, i)
          \/ c.op = "get" /\ Getting(s, left, i)
          \/ c.op = "set" /\ Setting(s, left, i)
          \/ c.op = "initialize" /\ Initializing(s, left, i)
          \/ c.op = "query" /\ i = None /\ left \in {<<"query">>, <<>>}

\* No two calls are about one name.
ApartInv ==
    \A v, w \in Workers :
        /\ v /= w
        /\ call[v] /= None /\ call[v].op \in Named
        /\ call[w] /= None /\ call[w].op \in Named
        => call[v].name /= call[w].name

Lefts == {
    MySQLCreate, MySQLSelect, MySQLInsert, MySQLHasRow, MySQLHasDatabase, MySQLHasUser,
    MySQLFlush, MySQLDrop, MySQLDropSelect, MySQLDropInsert, MySQLDropHasRow,
    MySQLNoDatabase, PostgreSQLCreate, PostgreSQLInsert, PostgreSQLHasRow,
    PostgreSQLNoUser, PostgreSQLHasUser, PostgreSQLGranted, PostgreSQLDrop,
    PostgreSQLDropInsert, PostgreSQLDropHasRow, PostgreSQLTerminated,
    PostgreSQLNoDatabase, GetInsert, MySQLGet, PostgreSQLGet, MySQLSet, PostgreSQLSet,
    MySQLInitialize, MySQLCreateTable, PostgreSQLInitialize, <<"createTable">>,
    <<"query">>, <<>>}

TypeInv ==
    /\ server \in Server
    /\ free \in Seq(Sessions)
    /\ selected \subseteq Sessions
    /\ call \in [Workers -> Calls \cup {None}]
    /\ todo \in [Workers -> Lefts]
    /\ info \in [Workers -> Infos \cup {None}]
    /\ session \in [Workers -> Sessions \cup {None}]
    /\ faults \in 0 .. MaxFaults
    /\ calls \in 0 .. MaxCalls

RelationalInv ==
    /\ TypeInv
    /\ ApartInv
    /\ ServerInv(server)
    /\ \A w \in Workers :
        /\ CallInv(server, call[w], todo[w], info[w])
        /\ todo[w] = <<>> => session[w] = None

-----------------------------------------------------------------------------
(* What the statements, calls and credentials are.                         *)

\* What a call has left is a statement and the rest, or another statement first.
Steps(left, statement, rest) ==
    left /= <<>> /\ Head(left) = statement /\ Tail(left) = rest

Inserts(left, statement, longer) == <<statement>> \o Tail(left) = longer

LEMMA MySQLCreateSteps ==
    /\ Steps(MySQLCreate, "use", MySQLSelect)
    /\ Steps(MySQLSelect, "select", MySQLHasRow)
    /\ Steps(MySQLInsert, "insert", MySQLHasRow)
    /\ Steps(MySQLHasRow, "createDatabase", MySQLHasDatabase)
    /\ Steps(MySQLHasDatabase, "createUser", MySQLHasUser)
    /\ Steps(MySQLHasUser, "grant", MySQLFlush)
    /\ Steps(MySQLFlush, "flush", <<>>)
BY DEF Steps, MySQLCreate, MySQLSelect, MySQLInsert, MySQLHasRow,
       MySQLHasDatabase, MySQLHasUser, MySQLFlush

LEMMA PostgreSQLCreateSteps ==
    /\ Steps(PostgreSQLCreate, "select", PostgreSQLHasRow)
    /\ Steps(PostgreSQLInsert, "insert", PostgreSQLHasRow)
    /\ Steps(PostgreSQLHasRow, "selectRole", PostgreSQLHasUser)
    /\ Steps(PostgreSQLNoUser, "createUser", PostgreSQLHasUser)
    /\ Steps(PostgreSQLHasUser, "grantRole", PostgreSQLGranted)
    /\ Steps(PostgreSQLGranted, "createDatabase", <<>>)
BY DEF Steps, PostgreSQLCreate, PostgreSQLInsert, PostgreSQLHasRow,
       PostgreSQLNoUser, PostgreSQLHasUser, PostgreSQLGranted

LEMMA MySQLDropSteps ==
    /\ Steps(MySQLDrop, "use", MySQLDropSelect)
    /\ Steps(MySQLDropSelect, "select", MySQLDropHasRow)
    /\ Steps(MySQLDropInsert, "insert", MySQLDropHasRow)
    /\ Steps(MySQLDropHasRow, "dropDatabase", MySQLNoDatabase)
    /\ Steps(MySQLNoDatabase, "dropUser", MySQLFlush)
BY DEF Steps, MySQLDrop, MySQLDropSelect, MySQLDropInsert,
       MySQLDropHasRow, MySQLNoDatabase, MySQLFlush

LEMMA PostgreSQLDropSteps ==
    /\ Steps(PostgreSQLDrop, "select", PostgreSQLDropHasRow)
    /\ Steps(PostgreSQLDropInsert, "insert", PostgreSQLDropHasRow)
    /\ Steps(PostgreSQLDropHasRow, "terminate", PostgreSQLTerminated)
    /\ Steps(PostgreSQLTerminated, "dropDatabase", PostgreSQLNoDatabase)
    /\ Steps(PostgreSQLNoDatabase, "dropUser", <<>>)
BY DEF Steps, PostgreSQLDrop, PostgreSQLDropInsert,
       PostgreSQLDropHasRow, PostgreSQLTerminated, PostgreSQLNoDatabase

LEMMA OtherSteps ==
    /\ Steps(GetInsert, "insert", <<>>)
    /\ Steps(MySQLGet, "use", PostgreSQLGet)
    /\ Steps(PostgreSQLGet, "select", <<>>)
    /\ Steps(MySQLSet, "use", PostgreSQLSet)
    /\ Steps(PostgreSQLSet, "insertIgnore", <<>>)
    /\ Steps(MySQLInitialize, "createSchema", MySQLCreateTable)
    /\ Steps(MySQLCreateTable, "use", <<"createTable">>)
    /\ Steps(PostgreSQLInitialize, "createSchema", <<"createTable">>)
    /\ Steps(<<"createTable">>, "createTable", <<>>)
    /\ Steps(<<"query">>, "query", <<>>)
BY DEF Steps, GetInsert, MySQLGet, PostgreSQLGet, MySQLSet,
       PostgreSQLSet, MySQLInitialize, MySQLCreateTable, PostgreSQLInitialize

\* A statement put first.
LEMMA Joined ==
    ASSUME NEW S, NEW r \in Seq(S), NEW h \in Seq(S), NEW t \in Seq(S),
           Len(h) = 1, h[1] = r[1], Len(r) = Len(t) + 1,
           \A n \in 1 .. Len(t) : t[n] = r[n + 1]
    PROVE  h \o t = r
<1>1. h \o t \in Seq(S) /\ Len(h \o t) = Len(h) + Len(t)
  BY ONLY h \in Seq(S), t \in Seq(S), ConcatProperties
<1>2. \A n \in 1 .. Len(h) + Len(t) : (h \o t)[n] = IF n <= Len(h) THEN h[n] ELSE t[n - Len(h)]
  BY ONLY h \in Seq(S), t \in Seq(S), ConcatProperties
<1>3. Len(h \o t) = Len(r)
  BY <1>1
<1>4. ASSUME NEW n \in 1 .. Len(r) PROVE (h \o t)[n] = r[n]
  <2>1. n \in 1 .. Len(h) + Len(t)
    OBVIOUS
  <2>2. (h \o t)[n] = IF n <= 1 THEN h[n] ELSE t[n - 1]
    BY <1>2, <2>1
  <2>3. n /= 1 => n - 1 \in 1 .. Len(t) /\ (n - 1) + 1 = n
    OBVIOUS
  <2> QED
    BY <2>2, <2>3
<1> QED
  BY <1>1, <1>3, <1>4, SeqEqual

LEMMA Prepended ==
    ASSUME NEW S, NEW r \in Seq(S), r /= <<>>
    PROVE  <<Head(r)>> \o Tail(r) = r
<1>1. /\ Head(r) \in S /\ Head(r) = r[1] /\ Tail(r) \in Seq(S)
      /\ Len(Tail(r)) + 1 = Len(r)
      /\ \A n \in 1 .. Len(Tail(r)) : Tail(r)[n] = r[n + 1]
  BY HeadTailProperties
<1>2. <<Head(r)>> \in Seq(S) /\ Len(<<Head(r)>>) = 1 /\ <<Head(r)>>[1] = r[1]
  BY <1>1
<1> QED
  BY <1>1, <1>2, Joined, Zenon

LEMMA InsertShape ==
    ASSUME NEW S, NEW left, NEW statement, NEW rest, NEW longer \in Seq(S),
           Tail(left) = rest, Steps(longer, statement, rest)
    PROVE  Inserts(left, statement, longer)
BY Prepended DEF Inserts, Steps

LEMMA InsertSteps ==
    /\ Inserts(MySQLSelect, "insert", MySQLInsert)
    /\ Inserts(MySQLDropSelect, "insert", MySQLDropInsert)
    /\ Inserts(PostgreSQLCreate, "insert", PostgreSQLInsert)
    /\ Inserts(PostgreSQLHasRow, "createUser", PostgreSQLNoUser)
    /\ Inserts(PostgreSQLDrop, "insert", PostgreSQLDropInsert)
    /\ Inserts(PostgreSQLGet, "insert", GetInsert)
<1> DEFINE S == {"insert", "createDatabase", "createUser", "grant", "flush", "selectRole",
                 "grantRole", "terminate", "dropDatabase", "dropUser"}
<1>1. MySQLInsert \in Seq(S) /\ MySQLDropInsert \in Seq(S)
  BY DEF MySQLInsert, MySQLDropInsert
<1>2. PostgreSQLInsert \in Seq(S) /\ PostgreSQLNoUser \in Seq(S)
  BY DEF PostgreSQLInsert, PostgreSQLNoUser
<1>3. PostgreSQLDropInsert \in Seq(S) /\ GetInsert \in Seq(S)
  BY DEF PostgreSQLDropInsert, GetInsert
<1> HIDE DEF S
<1>4. Inserts(MySQLSelect, "insert", MySQLInsert) /\ Inserts(MySQLDropSelect, "insert", MySQLDropInsert)
  BY <1>1, MySQLCreateSteps, MySQLDropSteps, InsertShape DEF Steps
<1>5. /\ Inserts(PostgreSQLCreate, "insert", PostgreSQLInsert)
      /\ Inserts(PostgreSQLHasRow, "createUser", PostgreSQLNoUser)
  BY <1>2, PostgreSQLCreateSteps, InsertShape DEF Steps
<1>6. Inserts(PostgreSQLDrop, "insert", PostgreSQLDropInsert) /\ Inserts(PostgreSQLGet, "insert", GetInsert)
  BY <1>3, PostgreSQLDropSteps, OtherSteps, InsertShape DEF Steps
<1> QED
  BY <1>4, <1>5, <1>6

LEMMA CallTypes ==
    ASSUME NEW c \in Calls
    PROVE  /\ c /= None
           /\ c.op \in {"create", "drop", "get", "set", "initialize", "query"}
           /\ c.op \in Named <=> c.op \in {"create", "drop", "get", "set"}
           /\ c.op \in Named => c.name \in Names
           /\ c.op \notin Named => c.name = None /\ c.name \notin Names
           /\ c.op \in Named => c = [op |-> c.op, name |-> c.name]
BY NoneAssumption DEF NoneAssumption, Calls, Named, Provider

LEMMA InfoTypes ==
    ASSUME NEW i \in Infos
    PROVE  /\ i /= None
           /\ i.dbname \in {j.dbname : j \in Infos}
           /\ i.user \in {j.user : j \in Infos}
           /\ <<i.user, i.dbname>> \in {<<j.user, j.dbname>> : j \in Infos}
BY NoneAssumption DEF NoneAssumption

\* Credentials are their user and their database.
LEMMA InfoEqual ==
    ASSUME NEW i \in Infos, NEW j \in Infos,
           <<i.user, i.dbname>> = <<j.user, j.dbname>>
    PROVE  i = j
<1>1. i = [user |-> i.user, dbname |-> i.dbname] /\ j = [user |-> j.user, dbname |-> j.dbname]
  BY InfosAssumption DEF InfosAssumption
<1>2. i.user = j.user /\ i.dbname = j.dbname
  OBVIOUS
<1> QED
  BY <1>1, <1>2

LEMMA RowTypes ==
    ASSUME NEW s \in Server, NEW k \in Names, s.rows[k] /= None
    PROVE  s.rows[k] \in Infos
BY DEF Server

-----------------------------------------------------------------------------
(* A call changes nothing of other names.                                  *)

Around(s, new, k) ==
    /\ new.type = s.type
    /\ \A j \in Names : j /= k =>
        /\ new.rows[j] = s.rows[j]
        /\ s.rows[j] /= None =>
            /\ HasDatabase(new, s.rows[j]) <=> HasDatabase(s, s.rows[j])
            /\ HasUser(new, s.rows[j]) <=> HasUser(s, s.rows[j])
            /\ HasGrant(new, s.rows[j]) <=> HasGrant(s, s.rows[j])
            /\ NoUser(new, s.rows[j]) <=> NoUser(s, s.rows[j])

LEMMA CallKept ==
    ASSUME NEW s, NEW new, NEW k, NEW c \in Calls \cup {None}, NEW left, NEW i,
           c /= None /\ c.op \in Named => c.name /= k,
           Around(s, new, k), CallInv(s, c, left, i)
    PROVE  CallInv(new, c, left, i)
<1>1. CASE c = None
  BY <1>1 DEF CallInv
<1>2. CASE c /= None /\ c.op \in Named
  <2>1. /\ c.name \in Names
        /\ new.type = s.type
        /\ new.rows[c.name] = s.rows[c.name]
        /\ s.rows[c.name] /= None =>
            /\ HasDatabase(new, s.rows[c.name]) <=> HasDatabase(s, s.rows[c.name])
            /\ HasUser(new, s.rows[c.name]) <=> HasUser(s, s.rows[c.name])
            /\ HasGrant(new, s.rows[c.name]) <=> HasGrant(s, s.rows[c.name])
            /\ NoUser(new, s.rows[c.name]) <=> NoUser(s, s.rows[c.name])
    BY <1>2, CallTypes DEF Around
  <2>2. Creating(s, c.name, left, i) => Creating(new, c.name, left, i)
    BY <2>1 DEF Creating, CreatingMySQL, CreatingPostgreSQL
  <2>3. Dropping(s, c.name, left, i) => Dropping(new, c.name, left, i)
    BY <2>1 DEF Dropping, DroppingMySQL, DroppingPostgreSQL
  <2>4. Getting(s, left, i) => Getting(new, left, i)
    BY <2>1 DEF Getting
  <2>5. Setting(s, left, i) => Setting(new, left, i)
    BY <2>1 DEF Setting
  <2>6. c.op \notin {"initialize", "query"}
    BY <1>2, CallTypes
  <2> QED
    BY <1>2, <2>2, <2>3, <2>4, <2>5, <2>6 DEF CallInv
<1>3. CASE c /= None /\ c.op \notin Named
  BY <1>3, CallTypes DEF CallInv, Initializing, Around
<1> QED
  BY <1>1, <1>2, <1>3

\* A call that has statements left goes on.
LEMMA HoldsCall ==
    ASSUME RelationalInv, NEW w \in Workers, session[w] /= None
    PROVE  todo[w] /= <<>> /\ call[w] /= None /\ call[w] \in Calls
<1>1. todo[w] /= <<>> /\ call[w] \in Calls \cup {None} /\ CallInv(server, call[w], todo[w], info[w])
  BY DEF RelationalInv, TypeInv
<1> QED
  BY <1>1 DEF CallInv

\* A step of a call leaves the calls of other workers as they are.
LEMMA OthersKept ==
    ASSUME RelationalInv, NEW w \in Workers, call[w] /= None,
           Around(server, server', call[w].name),
           \A v \in Workers : v /= w =>
                call'[v] = call[v] /\ todo'[v] = todo[v] /\ info'[v] = info[v],
           CallInv(server', call'[w], todo'[w], info'[w])
    PROVE  \A v \in Workers : CallInv(server', call'[v], todo'[v], info'[v])
<1> SUFFICES ASSUME NEW v \in Workers, v /= w
             PROVE  CallInv(server', call[v], todo[v], info[v])
  OBVIOUS
<1>1. /\ call[v] \in Calls \cup {None} /\ call[w] \in Calls
      /\ CallInv(server, call[v], todo[v], info[v])
  BY DEF RelationalInv, TypeInv
<1>2. call[v] /= None /\ call[v].op \in Named => call[v].name /= call[w].name
  BY <1>1, CallTypes DEF RelationalInv, ApartInv
<1> QED
  BY <1>1, <1>2, CallKept

-----------------------------------------------------------------------------
(* The steps of a call.                                                    *)

\* A server that a statement for name k may leave.
Leaves(new, k) == new \in Server /\ ServerInv(new) /\ Around(server, new, k)

LEMMA LeavesAlone == \A k : RelationalInv => Leaves(server, k)
BY DEF RelationalInv, TypeInv, Leaves, Around

LEMMA MemoryTypes ==
    ASSUME TypeInv, NEW w \in Workers,
           NEW c \in Calls \cup {None}, NEW left \in Lefts, NEW i \in Infos \cup {None},
           call' = [call EXCEPT ![w] = c],
           todo' = [todo EXCEPT ![w] = left],
           info' = [info EXCEPT ![w] = i]
    PROVE  /\ call' \in [Workers -> Calls \cup {None}]
           /\ todo' \in [Workers -> Lefts]
           /\ info' \in [Workers -> Infos \cup {None}]
           /\ call'[w] = c /\ todo'[w] = left /\ info'[w] = i
           /\ \A v \in Workers : v /= w =>
                call'[v] = call[v] /\ todo'[v] = todo[v] /\ info'[v] = info[v]
BY DEF TypeInv

\* The session goes back to the pool.
LEMMA ReleaseTypes ==
    ASSUME TypeInv, NEW w \in Workers, session[w] /= None, Release(w)
    PROVE  /\ free' \in Seq(Sessions)
           /\ session' \in [Workers -> Sessions \cup {None}]
           /\ session'[w] = None
           /\ \A v \in Workers : v /= w => session'[v] = session[v]
<1>1. session[w] \in Sessions /\ free \in Seq(Sessions)
  BY DEF TypeInv
<1>2. Append(free, session[w]) \in Seq(Sessions)
  BY <1>1, AppendProperties
<1> QED
  BY <1>1, <1>2 DEF TypeInv, Release

\* The invariant of the next state, from that of its parts.
LEMMA NextState ==
    ASSUME TypeInv', ApartInv', ServerInv(server'),
           \A v \in Workers : CallInv(server', call'[v], todo'[v], info'[v]),
           \A v \in Workers : todo'[v] = <<>> => session'[v] = None
    PROVE  RelationalInv'
<1>1. ServerInv(server)'
  BY DEF ServerInv, Unclaimed, HasDatabase, HasUser, HasGrant
<1>2. ASSUME NEW v \in Workers PROVE CallInv(server, call[v], todo[v], info[v])'
  <2>1. CallInv(server', call'[v], todo'[v], info'[v])
    OBVIOUS
  <2> QED
    BY ONLY <2>1 DEF CallInv, Creating, CreatingMySQL, CreatingPostgreSQL, Dropping, DroppingMySQL,
           DroppingPostgreSQL, NoUser, HasDatabase, HasUser, HasGrant, Getting, Setting,
           Initializing
<1> QED
  BY <1>1, <1>2 DEF RelationalInv

\* A statement takes a call from one state of its memory to another.
Goes(w, new, left, i) ==
    /\ server' = new
    /\ todo' = [todo EXCEPT ![w] = left]
    /\ info' = [info EXCEPT ![w] = i]
    /\ Release(w)
    /\ selected' \subseteq Sessions
    /\ UNCHANGED <<call, faults, calls>>

LEMMA GoesInv ==
    ASSUME RelationalInv, NEW w \in Workers, session[w] /= None,
           NEW new, NEW left \in Lefts, NEW i \in Infos \cup {None},
           Leaves(new, call[w].name),
           CallInv(new, call[w], left, i),
           Goes(w, new, left, i)
    PROVE  RelationalInv'
<1>1. call[w] /= None /\ call[w] \in Calls /\ call' = [call EXCEPT ![w] = call[w]]
  BY HoldsCall DEF RelationalInv, TypeInv, Goes
<1>2. /\ call' \in [Workers -> Calls \cup {None}]
      /\ todo' \in [Workers -> Lefts]
      /\ info' \in [Workers -> Infos \cup {None}]
      /\ call'[w] = call[w] /\ todo'[w] = left /\ info'[w] = i
      /\ \A v \in Workers : v /= w =>
           call'[v] = call[v] /\ todo'[v] = todo[v] /\ info'[v] = info[v]
  BY <1>1, MemoryTypes DEF RelationalInv, Goes
<1>3. /\ free' \in Seq(Sessions)
      /\ session' \in [Workers -> Sessions \cup {None}]
      /\ session'[w] = None
      /\ \A v \in Workers : v /= w => session'[v] = session[v]
  BY ReleaseTypes DEF RelationalInv, Goes
<1>4. server' = new
  BY DEF Goes
<1>5. \A v \in Workers : CallInv(server', call'[v], todo'[v], info'[v])
  BY <1>1, <1>2, <1>4, OthersKept DEF Leaves
<1>6. TypeInv' /\ ApartInv'
  BY <1>2, <1>3, <1>4 DEF TypeInv, ApartInv, RelationalInv, Leaves, Goes
<1>7. ServerInv(server')
  BY <1>4 DEF Leaves
<1>8. \A v \in Workers : todo'[v] = <<>> => session'[v] = None
  BY <1>2, <1>3 DEF RelationalInv
<1> QED
  BY <1>5, <1>6, <1>7, <1>8, NextState

\* The call ends with a statement, or fails.
LEMMA EndsInv ==
    ASSUME RelationalInv, NEW w \in Workers, session[w] /= None,
           Leaves(server', call[w].name),
           Over(w), Release(w), selected' \subseteq Sessions,
           calls' = calls, faults' \in 0 .. MaxFaults
    PROVE  RelationalInv'
<1>1. call[w] /= None /\ call[w] \in Calls /\ <<>> \in Lefts
  BY HoldsCall DEF Lefts
<1>2. /\ call' \in [Workers -> Calls \cup {None}]
      /\ todo' \in [Workers -> Lefts]
      /\ info' \in [Workers -> Infos \cup {None}]
      /\ call'[w] = None /\ todo'[w] = <<>> /\ info'[w] = None
      /\ \A v \in Workers : v /= w =>
           call'[v] = call[v] /\ todo'[v] = todo[v] /\ info'[v] = info[v]
  BY <1>1, MemoryTypes DEF RelationalInv, Over
<1>3. /\ free' \in Seq(Sessions)
      /\ session' \in [Workers -> Sessions \cup {None}]
      /\ session'[w] = None
      /\ \A v \in Workers : v /= w => session'[v] = session[v]
  BY ReleaseTypes DEF RelationalInv
<1>4. CallInv(server', call'[w], todo'[w], info'[w])
  BY <1>2 DEF CallInv
<1>5. \A v \in Workers : CallInv(server', call'[v], todo'[v], info'[v])
  BY <1>1, <1>2, <1>4, OthersKept DEF Leaves
<1>6. TypeInv' /\ ApartInv'
  BY <1>2, <1>3 DEF TypeInv, ApartInv, RelationalInv, Leaves
<1>7. \A v \in Workers : todo'[v] = <<>> => session'[v] = None
  BY <1>2, <1>3 DEF RelationalInv
<1> QED
  BY <1>5, <1>6, <1>7, NextState DEF Leaves

LEMMA FaultTypes ==
    ASSUME TypeInv, Fault
    PROVE  faults' \in 0 .. MaxFaults
BY BoundsAssumption DEF TypeInv, Fault, BoundsAssumption

LEMMA RefusedInv ==
    ASSUME RelationalInv, NEW w \in Workers, NEW statement, Refused(w, statement)
    PROVE  RelationalInv'
BY EndsInv, LeavesAlone DEF Refused, Holds, RelationalInv, TypeInv

\* A statement that fails, before or after it took effect, ends the call.
LEMMA FailedInv ==
    ASSUME RelationalInv, NEW w \in Workers, session[w] /= None, NEW new,
           Leaves(new, call[w].name), server' \in {server, new},
           Fault, Over(w), Release(w), selected' \subseteq Sessions, UNCHANGED calls
    PROVE  RelationalInv'
<1>1. Leaves(server', call[w].name)
  BY LeavesAlone
<1>2. faults' \in 0 .. MaxFaults
  BY FaultTypes DEF RelationalInv
<1> QED
  BY <1>1, <1>2, EndsInv

\* A statement that does its work and lets the call go on, or fails.
LEMMA ProceedInv ==
    ASSUME RelationalInv, NEW w \in Workers, NEW statement, NEW new,
           Executed(w, statement, new, Proceed(w) /\ UNCHANGED info),
           selected' \subseteq Sessions,
           Leaves(new, call[w].name),
           Tail(todo[w]) \in Lefts,
           CallInv(new, call[w], Tail(todo[w]), info[w])
    PROVE  RelationalInv'
<1>1. session[w] /= None /\ info[w] \in Infos \cup {None}
  BY DEF Executed, Holds, RelationalInv, TypeInv
<1>2. CASE server' \in {server, new} /\ Fault /\ Over(w) /\ Release(w) /\ UNCHANGED calls
  BY <1>1, <1>2, FailedInv
<1>3. CASE /\ server' = new /\ Proceed(w) /\ Release(w)
           /\ UNCHANGED <<info, call, faults, calls>>
  <2>1. Goes(w, new, Tail(todo[w]), info[w])
    BY <1>1, <1>3 DEF Goes, Proceed, RelationalInv, TypeInv
  <2> QED
    BY <1>1, <2>1, GoesInv
<1> QED
  BY <1>2, <1>3 DEF Executed

LEMMA PlainInv ==
    ASSUME RelationalInv, NEW w \in Workers, NEW statement, NEW new,
           Plain(w, statement, new),
           Leaves(new, call[w].name),
           Tail(todo[w]) \in Lefts,
           CallInv(new, call[w], Tail(todo[w]), info[w])
    PROVE  RelationalInv'
BY ProceedInv DEF Plain, RelationalInv, TypeInv

-----------------------------------------------------------------------------
(* What statements leave of the server.                                    *)

\* The schema and the table of users are no one's.
LEMMA SchemaLeaves ==
    ASSUME server \in Server, ServerInv(server), NEW k, NEW new \in Server,
           new.type = server.type, new.rows = server.rows,
           new.databases = server.databases, new.accounts = server.accounts,
           new.grants = server.grants
    PROVE  Leaves(new, k)
BY DEF Leaves, ServerInv, Around, Unclaimed, NoUser, HasDatabase, HasUser, HasGrant

\* A row that has nothing in common with the others: a draw has nothing on the
\* server yet, a seed all of it still.
LEMMA RowLeaves ==
    ASSUME server \in Server, ServerInv(server), NEW k \in Names, NEW i \in Infos,
           Unique(k, i), NEW new \in Server,
           new.type = server.type, new.databases = server.databases,
           new.accounts = server.accounts, new.grants = server.grants,
           new.rows = [server.rows EXCEPT ![k] = i]
    PROVE  Leaves(new, k)
<1>1. /\ server.rows[k] = None /\ new.rows[k] = i /\ i /= None
      /\ \A j \in Names : j /= k => new.rows[j] = server.rows[j]
      /\ \A j \in Names : server.rows[j] /= None =>
            server.rows[j].user /= i.user /\ server.rows[j].dbname /= i.dbname
  BY InfoTypes DEF Unique, Server
<1>2. \A o \in Infos : Unclaimed(new, o) => Unclaimed(server, o)
  BY <1>1 DEF Unclaimed
<1>3. HasDatabase(server, i) => HasGrant(server, i)
  <2>1. CASE i \in Seeds
    <3>1. Unclaimed(server, i)
      BY <1>1 DEF Unclaimed
    <3> QED
      BY <2>1, <3>1 DEF ServerInv
  <2>2. CASE i \in Draws
    BY <1>1, <2>2, InfosAssumption DEF ServerInv, HasDatabase, InfosAssumption
  <2> QED
    BY <2>1, <2>2 DEF Infos
<1>4. Around(server, new, k)
  BY <1>1 DEF Around, NoUser, HasDatabase, HasUser, HasGrant
<1>5. ServerInv(new)
  <2>1. \A j, l \in Names :
          j /= l /\ new.rows[j] /= None /\ new.rows[l] /= None =>
            new.rows[j].user /= new.rows[l].user /\ new.rows[j].dbname /= new.rows[l].dbname
    BY <1>1 DEF ServerInv
  <2>2. \A d \in new.databases :
          \/ \E j \in Names : new.rows[j] /= None /\ new.rows[j].dbname = d
          \/ \E o \in Seeds : o.dbname = d
    BY <1>1 DEF ServerInv
  <2>3. \A g \in new.grants :
          \/ \E j \in Names : new.rows[j] /= None /\ g = <<new.rows[j].user, new.rows[j].dbname>>
          \/ \E o \in Seeds : g = <<o.user, o.dbname>>
    BY <1>1 DEF ServerInv
  <2>4. new.type = "postgres" =>
          \A j \in Names : new.rows[j] /= None /\ HasDatabase(new, new.rows[j]) =>
            HasGrant(new, new.rows[j])
    BY <1>1, <1>3 DEF ServerInv, HasDatabase, HasGrant
  <2>5. \A o \in Seeds : Unclaimed(new, o) => HasDatabase(new, o) /\ HasUser(new, o) /\ HasGrant(new, o)
    BY <1>2 DEF ServerInv, HasDatabase, HasUser, HasGrant, Infos
  <2> QED
    BY <2>1, <2>2, <2>3, <2>4, <2>5 DEF ServerInv
<1> QED
  BY <1>4, <1>5 DEF Leaves

\* Something more of what a row names.
LEMMA MoreLeaves ==
    ASSUME server \in Server, ServerInv(server), NEW k \in Names, NEW i,
           i = server.rows[k], i /= None, NEW new \in Server,
           new.type = server.type, new.rows = server.rows,
           new.databases \in {server.databases, server.databases \cup {i.dbname}},
           new.accounts \in {server.accounts, server.accounts \cup {i.user}},
           new.grants \in {server.grants, server.grants \cup {<<i.user, i.dbname>>}},
           new.type = "postgres" /\ HasDatabase(new, i) => HasGrant(new, i)
    PROVE  Leaves(new, k)
<1>1. \A j \in Names : j /= k /\ server.rows[j] /= None =>
        server.rows[j].user /= i.user /\ server.rows[j].dbname /= i.dbname
  BY DEF ServerInv
<1>2. \A o \in Infos : Unclaimed(new, o) => Unclaimed(server, o)
  BY DEF Unclaimed
<1>3. \A j \in Names : j /= k /\ server.rows[j] /= None =>
        /\ HasDatabase(new, server.rows[j]) <=> HasDatabase(server, server.rows[j])
        /\ HasUser(new, server.rows[j]) <=> HasUser(server, server.rows[j])
        /\ HasGrant(new, server.rows[j]) <=> HasGrant(server, server.rows[j])
        /\ NoUser(new, server.rows[j]) <=> NoUser(server, server.rows[j])
  BY <1>1 DEF NoUser, HasDatabase, HasUser, HasGrant
<1>4. Around(server, new, k)
  BY <1>3 DEF Around
<1>5. ServerInv(new)
  <2>1. \A d \in new.databases :
          \/ \E j \in Names : new.rows[j] /= None /\ new.rows[j].dbname = d
          \/ \E o \in Seeds : o.dbname = d
    BY DEF ServerInv
  <2>2. \A g \in new.grants :
          \/ \E j \in Names : new.rows[j] /= None /\ g = <<new.rows[j].user, new.rows[j].dbname>>
          \/ \E o \in Seeds : g = <<o.user, o.dbname>>
    BY DEF ServerInv
  <2>3. new.type = "postgres" =>
          \A j \in Names : new.rows[j] /= None /\ HasDatabase(new, new.rows[j]) =>
            HasGrant(new, new.rows[j])
    BY <1>3 DEF ServerInv
  <2>4. \A o \in Seeds : Unclaimed(new, o) => HasDatabase(new, o) /\ HasUser(new, o) /\ HasGrant(new, o)
    BY <1>2 DEF ServerInv, HasDatabase, HasUser, HasGrant, Infos
  <2> QED
    BY <2>1, <2>2, <2>3, <2>4 DEF ServerInv
<1> QED
  BY <1>4, <1>5 DEF Leaves

\* Something less of what a row names.
LEMMA LessLeaves ==
    ASSUME server \in Server, ServerInv(server), NEW k \in Names, NEW i,
           i = server.rows[k], i /= None, NEW new \in Server,
           new.type = server.type, new.rows = server.rows,
           new.databases \in {server.databases, server.databases \ {i.dbname}},
           new.accounts \in {server.accounts, server.accounts \ {i.user}},
           new.grants \subseteq server.grants,
           \A g \in server.grants : g[1] /= i.user => g \in new.grants,
           new.type = "postgres" /\ HasDatabase(new, i) => HasGrant(new, i)
    PROVE  Leaves(new, k)
<1>1. \A j \in Names : j /= k /\ server.rows[j] /= None =>
        server.rows[j].user /= i.user /\ server.rows[j].dbname /= i.dbname
  BY DEF ServerInv
<1>2. ASSUME NEW o, o.user /= i.user, o.dbname /= i.dbname
      PROVE  /\ HasDatabase(new, o) <=> HasDatabase(server, o)
             /\ HasUser(new, o) <=> HasUser(server, o)
             /\ HasGrant(new, o) <=> HasGrant(server, o)
             /\ NoUser(new, o) <=> NoUser(server, o)
  <2>1. <<o.user, o.dbname>>[1] /= i.user
    BY <1>2
  <2> QED
    BY <1>2, <2>1 DEF NoUser, HasDatabase, HasUser, HasGrant
<1>3. Around(server, new, k)
  BY <1>1, <1>2 DEF Around
<1>4. ServerInv(new)
  <2>1. new.type = "postgres" =>
          \A j \in Names : new.rows[j] /= None /\ HasDatabase(new, new.rows[j]) =>
            HasGrant(new, new.rows[j])
    BY <1>1, <1>2 DEF ServerInv
  <2>2. ASSUME NEW o \in Seeds, Unclaimed(new, o)
        PROVE  HasDatabase(new, o) /\ HasUser(new, o) /\ HasGrant(new, o)
    <3>1. Unclaimed(server, o) /\ o.user /= i.user /\ o.dbname /= i.dbname
      BY <2>2 DEF Unclaimed
    <3> QED
      BY <1>2, <3>1 DEF ServerInv
  <2> QED
    BY <2>1, <2>2 DEF ServerInv
<1> QED
  BY <1>3, <1>4 DEF Leaves

-----------------------------------------------------------------------------
(* What the next statement of a call says of how far it has come.          *)

LEMMA CreatingShape ==
    ASSUME NEW s, NEW k, NEW left, NEW i, Creating(s, k, left, i), left /= <<>>
    PROVE  /\ Head(left) \in {"use", "select", "insert", "createDatabase", "createUser", "grant",
                              "flush", "selectRole", "grantRole"}
           /\ Head(left) = "use" => i = None /\ s.type = "mysql" /\ left = MySQLCreate
           /\ Head(left) = "select" =>
                /\ i = None
                /\ \/ s.type = "mysql" /\ left = MySQLSelect
                   \/ s.type = "postgres" /\ left = PostgreSQLCreate
           /\ Head(left) = "insert" =>
                /\ i \in Draws
                /\ \/ s.type = "mysql" /\ left = MySQLInsert
                   \/ s.type = "postgres" /\ left = PostgreSQLInsert
           /\ Head(left) \notin {"use", "select", "insert"} => i /= None /\ s.rows[k] = i
           /\ Head(left) = "createDatabase" =>
                \/ s.type = "mysql" /\ left = MySQLHasRow
                \/ s.type = "postgres" /\ left = PostgreSQLGranted /\ HasUser(s, i)
           /\ Head(left) = "createUser" =>
                \/ s.type = "mysql" /\ left = MySQLHasDatabase /\ HasDatabase(s, i)
                \/ s.type = "postgres" /\ left = PostgreSQLNoUser
           /\ Head(left) = "grant" =>
                s.type = "mysql" /\ left = MySQLHasUser /\ HasDatabase(s, i) /\ HasUser(s, i)
           /\ Head(left) = "flush" =>
                /\ s.type = "mysql" /\ left = MySQLFlush
                /\ HasDatabase(s, i) /\ HasUser(s, i) /\ HasGrant(s, i)
           /\ Head(left) = "selectRole" => s.type = "postgres" /\ left = PostgreSQLHasRow
           /\ Head(left) = "grantRole" =>
                s.type = "postgres" /\ left = PostgreSQLHasUser /\ HasUser(s, i)
<1>1. CASE i = None /\ s.type = "mysql" /\ left \in {MySQLCreate, MySQLSelect}
  BY <1>1, MySQLCreateSteps DEF Steps
<1>2. CASE i = None /\ s.type = "postgres" /\ left = PostgreSQLCreate
  BY <1>2, PostgreSQLCreateSteps DEF Steps
<1>3. CASE i \in Draws /\ s.type = "mysql" /\ left = MySQLInsert
  BY <1>3, MySQLCreateSteps DEF Steps
<1>4. CASE i \in Draws /\ s.type = "postgres" /\ left = PostgreSQLInsert
  BY <1>4, PostgreSQLCreateSteps DEF Steps
<1>5. CASE i /= None /\ s.rows[k] = i /\ s.type = "mysql" /\ CreatingMySQL(s, left, i)
  BY <1>5, MySQLCreateSteps DEF Steps, CreatingMySQL
<1>6. CASE i /= None /\ s.rows[k] = i /\ s.type = "postgres" /\ CreatingPostgreSQL(s, left, i)
  BY <1>6, PostgreSQLCreateSteps DEF Steps, CreatingPostgreSQL
<1> QED
  BY <1>1, <1>2, <1>3, <1>4, <1>5, <1>6 DEF Creating

LEMMA DroppingShape ==
    ASSUME NEW s, NEW k, NEW left, NEW i, Dropping(s, k, left, i), left /= <<>>
    PROVE  /\ Head(left) \in {"use", "select", "insert", "terminate", "dropDatabase",
                              "dropUser", "flush"}
           /\ Head(left) = "use" => i = None /\ s.type = "mysql" /\ left = MySQLDrop
           /\ Head(left) = "select" =>
                /\ i = None
                /\ \/ s.type = "mysql" /\ left = MySQLDropSelect
                   \/ s.type = "postgres" /\ left = PostgreSQLDrop
           /\ Head(left) = "insert" =>
                /\ i \in Draws
                /\ \/ s.type = "mysql" /\ left = MySQLDropInsert
                   \/ s.type = "postgres" /\ left = PostgreSQLDropInsert
           /\ Head(left) \notin {"use", "select", "insert"} => i /= None /\ s.rows[k] = i
           /\ Head(left) = "terminate" => s.type = "postgres" /\ left = PostgreSQLDropHasRow
           /\ Head(left) = "dropDatabase" =>
                \/ s.type = "mysql" /\ left = MySQLDropHasRow
                \/ s.type = "postgres" /\ left = PostgreSQLTerminated
           /\ Head(left) = "dropUser" =>
                /\ ~HasDatabase(s, i)
                /\ \/ s.type = "mysql" /\ left = MySQLNoDatabase
                   \/ s.type = "postgres" /\ left = PostgreSQLNoDatabase
           /\ Head(left) = "flush" =>
                s.type = "mysql" /\ left = MySQLFlush /\ ~HasDatabase(s, i) /\ NoUser(s, i)
<1>1. CASE i = None /\ s.type = "mysql" /\ left \in {MySQLDrop, MySQLDropSelect}
  BY <1>1, MySQLDropSteps DEF Steps
<1>2. CASE i = None /\ s.type = "postgres" /\ left = PostgreSQLDrop
  BY <1>2, PostgreSQLDropSteps DEF Steps
<1>3. CASE i \in Draws /\ s.type = "mysql" /\ left = MySQLDropInsert
  BY <1>3, MySQLDropSteps DEF Steps
<1>4. CASE i \in Draws /\ s.type = "postgres" /\ left = PostgreSQLDropInsert
  BY <1>4, PostgreSQLDropSteps DEF Steps
<1>5. CASE i /= None /\ s.rows[k] = i /\ s.type = "mysql" /\ DroppingMySQL(s, left, i)
  BY <1>5, MySQLDropSteps, MySQLCreateSteps DEF Steps, DroppingMySQL
<1>6. CASE i /= None /\ s.rows[k] = i /\ s.type = "postgres" /\ DroppingPostgreSQL(s, left, i)
  BY <1>6, PostgreSQLDropSteps DEF Steps, DroppingPostgreSQL
<1> QED
  BY <1>1, <1>2, <1>3, <1>4, <1>5, <1>6 DEF Dropping

\* The calls that neither create nor drop.
LEMMA OtherShape ==
    ASSUME NEW s, NEW left, NEW i, left /= <<>>
    PROVE  /\ Getting(s, left, i) =>
                \/ Head(left) = "use" /\ i = None /\ s.type = "mysql" /\ left = MySQLGet
                \/ Head(left) = "select" /\ i = None /\ left = PostgreSQLGet
                \/ Head(left) = "insert" /\ i \in Draws /\ left = GetInsert
           /\ Setting(s, left, i) =>
                /\ i \in Seeds
                /\ \/ Head(left) = "use" /\ s.type = "mysql" /\ left = MySQLSet
                   \/ Head(left) = "insertIgnore" /\ left = PostgreSQLSet
           /\ Initializing(s, left, i) =>
                /\ i = None
                /\ \/ Head(left) = "createSchema" /\ s.type = "mysql" /\ left = MySQLInitialize
                   \/ Head(left) = "createSchema" /\ s.type = "postgres" /\ left = PostgreSQLInitialize
                   \/ Head(left) = "use" /\ s.type = "mysql" /\ left = MySQLCreateTable
                   \/ Head(left) = "createTable" /\ left = <<"createTable">>
BY OtherSteps DEF Steps, Getting, Setting, Initializing

\* A worker that holds a statement: its call, by kind.
LEMMA HoldsShape ==
    ASSUME RelationalInv, NEW w \in Workers, NEW statement, Holds(w, statement)
    PROVE  /\ session[w] /= None /\ todo[w] /= <<>> /\ Head(todo[w]) = statement
           /\ call[w] \in Calls /\ call[w] /= None
           /\ server \in Server /\ ServerInv(server)
           /\ info[w] \in Infos \cup {None}
           /\ \/ call[w].op = "create" /\ Creating(server, call[w].name, todo[w], info[w])
              \/ call[w].op = "drop" /\ Dropping(server, call[w].name, todo[w], info[w])
              \/ call[w].op = "get" /\ Getting(server, todo[w], info[w])
              \/ call[w].op = "set" /\ Setting(server, todo[w], info[w])
              \/ call[w].op = "initialize" /\ Initializing(server, todo[w], info[w])
              \/ /\ call[w].op = "query" /\ info[w] = None
                 /\ todo[w] = <<"query">> /\ statement = "query"
<1>1. session[w] /= None /\ todo[w] /= <<>> /\ call[w] \in Calls /\ call[w] /= None
  BY HoldsCall DEF Holds
<1>2. CallInv(server, call[w], todo[w], info[w])
  BY DEF RelationalInv
<1> QED
  BY <1>1, <1>2, OtherSteps DEF CallInv, RelationalInv, TypeInv, Holds, Steps

-----------------------------------------------------------------------------
(* The statements.                                                         *)

\* Statements that tell the call nothing.
LEMMA QuietShape ==
    ASSUME RelationalInv, NEW w \in Workers,
           NEW statement \in {"use", "flush", "query", "terminate", "grantRole"},
           Holds(w, statement)
    PROVE  /\ Tail(todo[w]) \in Lefts
           /\ CallInv(server, call[w], Tail(todo[w]), info[w])
<1> DEFINE left == todo[w]
           i == info[w]
           k == call[w].name
<1>1. left /= <<>> /\ Head(left) = statement /\ call[w] /= None
  BY HoldsShape
<1>2. CASE call[w].op = "create" /\ Creating(server, k, left, i)
  <2>1. \/ left = MySQLCreate /\ i = None /\ server.type = "mysql"
        \/ /\ left = MySQLFlush /\ i /= None /\ server.rows[k] = i /\ server.type = "mysql"
           /\ HasDatabase(server, i) /\ HasUser(server, i) /\ HasGrant(server, i)
        \/ /\ left = PostgreSQLHasUser /\ i /= None /\ server.rows[k] = i
           /\ server.type = "postgres" /\ HasUser(server, i)
    BY <1>1, <1>2, CreatingShape
  <2>2. Tail(left) \in Lefts
    BY <2>1, MySQLCreateSteps, PostgreSQLCreateSteps DEF Steps, Lefts
  <2>3. Creating(server, k, Tail(left), i)
    BY <2>1, MySQLCreateSteps, PostgreSQLCreateSteps
    DEF Steps, Creating, CreatingMySQL, CreatingPostgreSQL
  <2> QED
    BY <1>1, <1>2, <2>2, <2>3 DEF CallInv
<1>3. CASE call[w].op = "drop" /\ Dropping(server, k, left, i)
  <2>1. \/ left = MySQLDrop /\ i = None /\ server.type = "mysql"
        \/ /\ left = MySQLFlush /\ i /= None /\ server.rows[k] = i /\ server.type = "mysql"
           /\ ~HasDatabase(server, i) /\ NoUser(server, i)
        \/ /\ left = PostgreSQLDropHasRow /\ i /= None /\ server.rows[k] = i
           /\ server.type = "postgres"
    BY <1>1, <1>3, DroppingShape
  <2>2. Tail(left) \in Lefts
    BY <2>1, MySQLCreateSteps, MySQLDropSteps, PostgreSQLDropSteps DEF Steps, Lefts
  <2>3. Dropping(server, k, Tail(left), i)
    BY <2>1, MySQLCreateSteps, MySQLDropSteps, PostgreSQLDropSteps
    DEF Steps, Dropping, DroppingMySQL, DroppingPostgreSQL
  <2> QED
    BY <1>1, <1>3, <2>2, <2>3 DEF CallInv
<1>4. CASE call[w].op = "get" /\ Getting(server, left, i)
  <2>1. left = MySQLGet /\ i = None
    BY <1>1, <1>4, OtherShape
  <2> QED
    BY <1>1, <1>4, <2>1, OtherSteps DEF Steps, CallInv, Getting, Lefts
<1>5. CASE call[w].op = "set" /\ Setting(server, left, i)
  <2>1. left = MySQLSet /\ i \in Seeds
    BY <1>1, <1>5, OtherShape
  <2> QED
    BY <1>1, <1>5, <2>1, OtherSteps DEF Steps, CallInv, Setting, Lefts
<1>6. CASE call[w].op = "initialize" /\ Initializing(server, left, i)
  <2>1. left = MySQLCreateTable /\ i = None
    BY <1>1, <1>6, OtherShape
  <2> QED
    BY <1>1, <1>6, <2>1, OtherSteps DEF Steps, CallInv, Initializing, Lefts
<1>7. CASE call[w].op = "query" /\ i = None /\ left = <<"query">>
  BY <1>1, <1>7, OtherSteps DEF Steps, CallInv, Lefts
<1> QED
  BY <1>2, <1>3, <1>4, <1>5, <1>6, <1>7, HoldsShape

LEMMA QueryInv == \A w \in Workers : RelationalInv /\ Query(w) => RelationalInv'
<1> SUFFICES ASSUME NEW w \in Workers, RelationalInv, Query(w) PROVE RelationalInv'
  OBVIOUS
<1>1. PICK statement \in {"query", "flush", "terminate", "grantRole"} : Plain(w, statement, server)
  BY DEF Query
<1>2. Holds(w, statement)
  BY <1>1 DEF Plain, Executed
<1>3. Tail(todo[w]) \in Lefts /\ CallInv(server, call[w], Tail(todo[w]), info[w])
  BY <1>2, QuietShape
<1> QED
  BY <1>1, <1>3, LeavesAlone, PlainInv

LEMMA UseInv == \A w \in Workers : RelationalInv /\ Use(w) => RelationalInv'
<1> SUFFICES ASSUME NEW w \in Workers, RelationalInv, Use(w) PROVE RelationalInv'
  OBVIOUS
<1>1. CASE /\ Executed(w, "use", server, Proceed(w) /\ UNCHANGED info)
           /\ selected' = selected \cup {session[w]}
  <2>1. Holds(w, "use")
    BY <1>1 DEF Executed
  <2>2. selected' \subseteq Sessions
    BY <1>1, <2>1 DEF RelationalInv, TypeInv, Holds
  <2>3. Tail(todo[w]) \in Lefts /\ CallInv(server, call[w], Tail(todo[w]), info[w])
    BY <2>1, QuietShape
  <2> QED
    BY <1>1, <2>2, <2>3, LeavesAlone, ProceedInv
<1> QED
  BY <1>1, RefusedInv DEF Use

\* CREATE SCHEMA and CREATE TABLE of the provider controller.
LEMMA InitializeInv ==
    \A w \in Workers : RelationalInv /\ (CreateSchema(w) \/ CreateTable(w)) => RelationalInv'
<1> SUFFICES ASSUME NEW w \in Workers, RelationalInv, CreateSchema(w) \/ CreateTable(w)
             PROVE  RelationalInv'
  OBVIOUS
<1>1. ASSUME NEW statement \in {"createSchema", "createTable"}, NEW new \in Server,
             Plain(w, statement, new),
             new.type = server.type, new.rows = server.rows,
             new.databases = server.databases, new.accounts = server.accounts,
             new.grants = server.grants
      PROVE  RelationalInv'
  <2>1. Holds(w, statement)
    BY <1>1 DEF Plain, Executed
  <2>2. /\ todo[w] /= <<>> /\ Head(todo[w]) = statement
        /\ call[w] /= None /\ call[w] \in Calls
        /\ server \in Server /\ ServerInv(server)
    BY <2>1, HoldsShape
  <2>3. call[w].op = "initialize" /\ Initializing(server, todo[w], info[w])
    BY <2>1, <2>2, HoldsShape, CreatingShape, DroppingShape, OtherShape
  <2>4. /\ info[w] = None
        /\ \/ server.type = "mysql" /\ todo[w] = MySQLInitialize
           \/ todo[w] = PostgreSQLInitialize
           \/ todo[w] = <<"createTable">>
    BY <2>2, <2>3, OtherShape
  <2>5. /\ Tail(todo[w]) \in Lefts
        /\ CallInv(new, call[w], Tail(todo[w]), info[w])
    BY <1>1, <2>2, <2>3, <2>4, OtherSteps DEF Steps, Lefts, CallInv, Initializing
  <2>6. Leaves(new, call[w].name)
    BY <1>1, <2>2, SchemaLeaves
  <2> QED
    BY <1>1, <2>5, <2>6, PlainInv
<1>2. CASE CreateSchema(w)
  <2> DEFINE new == [server EXCEPT !.schema = TRUE]
  <2>1. /\ new \in Server /\ new.type = server.type /\ new.rows = server.rows
        /\ new.databases = server.databases /\ new.accounts = server.accounts
        /\ new.grants = server.grants
    BY DEF RelationalInv, TypeInv, Server
  <2>2. Plain(w, "createSchema", new)
    BY <1>2 DEF CreateSchema
  <2> HIDE DEF new
  <2> QED
    BY <1>1, <2>1, <2>2
<1>3. CASE CreateTable(w)
  <2> DEFINE new == [server EXCEPT !.table = TRUE]
  <2>1. /\ new \in Server /\ new.type = server.type /\ new.rows = server.rows
        /\ new.databases = server.databases /\ new.accounts = server.accounts
        /\ new.grants = server.grants
    BY DEF RelationalInv, TypeInv, Server
  <2>2. Plain(w, "createTable", new) \/ Refused(w, "createTable")
    BY <1>3 DEF CreateTable
  <2> HIDE DEF new
  <2> QED
    BY <1>1, <2>1, <2>2, RefusedInv
<1> QED
  BY <1>2, <1>3

\* The row a SELECT finds, or the INSERT that takes its place.
LEMMA SelectShape ==
    ASSUME RelationalInv, NEW w \in Workers, Holds(w, "select")
    PROVE  /\ call[w].name \in Names
           /\ Tail(todo[w]) \in Lefts
           /\ <<"insert">> \o Tail(todo[w]) \in Lefts
           /\ server.rows[call[w].name] /= None =>
                CallInv(server, call[w], Tail(todo[w]), server.rows[call[w].name])
           /\ \A i \in Draws : CallInv(server, call[w], <<"insert">> \o Tail(todo[w]), i)
<1> DEFINE left == todo[w]
           k == call[w].name
           longer == <<"insert">> \o Tail(left)
<1>1. /\ left /= <<>> /\ Head(left) = "select" /\ call[w] /= None /\ call[w] \in Calls
      /\ server \in Server
  BY HoldsShape
<1>2. CASE call[w].op = "create" /\ Creating(server, k, left, info[w])
  <2>1. \/ server.type = "mysql" /\ left = MySQLSelect
        \/ server.type = "postgres" /\ left = PostgreSQLCreate
    BY <1>1, <1>2, CreatingShape
  <2>2. \/ server.type = "mysql" /\ Tail(left) = MySQLHasRow /\ longer = MySQLInsert
        \/ server.type = "postgres" /\ Tail(left) = PostgreSQLHasRow /\ longer = PostgreSQLInsert
    BY <2>1, MySQLCreateSteps, PostgreSQLCreateSteps, InsertSteps DEF Steps, Inserts
  <2>3. server.rows[k] /= None => Creating(server, k, Tail(left), server.rows[k])
    BY <2>2, MySQLCreateSteps, PostgreSQLCreateSteps
    DEF Steps, Creating, CreatingMySQL, CreatingPostgreSQL
  <2>4. \A i \in Draws : Creating(server, k, longer, i)
    BY <2>2 DEF Creating
  <2> QED
    BY <1>1, <1>2, <2>2, <2>3, <2>4, CallTypes DEF CallInv, Lefts
<1>3. CASE call[w].op = "drop" /\ Dropping(server, k, left, info[w])
  <2>1. \/ server.type = "mysql" /\ left = MySQLDropSelect
        \/ server.type = "postgres" /\ left = PostgreSQLDrop
    BY <1>1, <1>3, DroppingShape
  <2>2. \/ server.type = "mysql" /\ Tail(left) = MySQLDropHasRow /\ longer = MySQLDropInsert
        \/ server.type = "postgres" /\ Tail(left) = PostgreSQLDropHasRow /\ longer = PostgreSQLDropInsert
    BY <2>1, MySQLDropSteps, PostgreSQLDropSteps, InsertSteps DEF Steps, Inserts
  <2>3. server.rows[k] /= None => Dropping(server, k, Tail(left), server.rows[k])
    BY <2>2, MySQLCreateSteps, MySQLDropSteps, PostgreSQLDropSteps
    DEF Steps, Dropping, DroppingMySQL, DroppingPostgreSQL
  <2>4. \A i \in Draws : Dropping(server, k, longer, i)
    BY <2>2 DEF Dropping
  <2> QED
    BY <1>1, <1>3, <2>2, <2>3, <2>4, CallTypes DEF CallInv, Lefts
<1>4. CASE call[w].op = "get" /\ Getting(server, left, info[w])
  <2>1. Tail(left) = <<>> /\ longer = GetInsert /\ k \in Names
    BY <1>1, <1>4, OtherShape, OtherSteps, InsertSteps, CallTypes DEF Steps, Inserts
  <2>2. server.rows[k] /= None => Getting(server, Tail(left), server.rows[k])
    BY <1>1, <2>1, RowTypes DEF Getting
  <2>3. \A i \in Draws : Getting(server, longer, i)
    BY <2>1 DEF Getting
  <2> QED
    BY <1>1, <1>4, <2>1, <2>2, <2>3 DEF CallInv, Lefts
<1> QED
  BY <1>1, <1>2, <1>3, <1>4, HoldsShape, OtherShape

LEMMA SelectInv == \A w \in Workers : RelationalInv /\ Select(w) => RelationalInv'
<1> SUFFICES ASSUME NEW w \in Workers, RelationalInv, Select(w) PROVE RelationalInv'
  OBVIOUS
<1> DEFINE row == server.rows[call[w].name]
           longer == <<"insert">> \o Tail(todo[w])
<1>1. CASE Refused(w, "select")
  BY <1>1, RefusedInv
<1>2. CASE ~Refused(w, "select")
  <2>1. /\ Holds(w, "select") /\ Release(w) /\ UNCHANGED <<selected, calls>>
        /\ \/ /\ server' = server /\ UNCHANGED <<call, faults>>
              /\ \/ /\ row /= None
                    /\ Proceed(w) /\ info' = [info EXCEPT ![w] = row]
                 \/ /\ todo' = [todo EXCEPT ![w] = longer]
                    /\ \E i \in Draws : info' = [info EXCEPT ![w] = i]
           \/ server' = server /\ Fault /\ Over(w)
    BY <1>2 DEF Select, Executed
  <2>2. session[w] /= None /\ selected' \subseteq Sessions /\ Leaves(server, call[w].name)
    BY <2>1, LeavesAlone DEF Holds, RelationalInv, TypeInv
  <2>3. /\ call[w].name \in Names
        /\ Tail(todo[w]) \in Lefts
        /\ longer \in Lefts
        /\ row /= None => CallInv(server, call[w], Tail(todo[w]), row)
        /\ \A i \in Draws : CallInv(server, call[w], longer, i)
    BY <2>1, SelectShape
  <2> HIDE DEF longer
  <2>4. CASE server' = server /\ Fault /\ Over(w)
    BY <2>1, <2>2, <2>4, FailedInv
  <2>5. CASE /\ server' = server /\ UNCHANGED <<call, faults>> /\ row /= None
             /\ Proceed(w) /\ info' = [info EXCEPT ![w] = row]
    <3>1. Goes(w, server, Tail(todo[w]), row)
      BY <2>1, <2>2, <2>5 DEF Goes, Proceed, RelationalInv, TypeInv
    <3>2. row \in Infos
      BY <2>3, <2>5, RowTypes DEF RelationalInv, TypeInv
    <3> HIDE DEF row
    <3> QED
      BY <2>2, <2>3, <2>5, <3>1, <3>2, GoesInv
  <2>6. ASSUME server' = server, UNCHANGED <<call, faults>>,
               todo' = [todo EXCEPT ![w] = longer],
               NEW i \in Draws, info' = [info EXCEPT ![w] = i]
        PROVE  RelationalInv'
    <3>1. Goes(w, server, longer, i) /\ i \in Infos \cup {None}
      BY <2>1, <2>2, <2>6 DEF Goes, Infos
    <3> QED
      BY <2>2, <2>3, <3>1, GoesInv
  <2> QED
    BY <2>1, <2>4, <2>5, <2>6
<1> QED
  BY <1>1, <1>2

\* INSERT of a draw.
LEMMA InsertInv == \A w \in Workers : RelationalInv /\ Insert(w) => RelationalInv'
<1> SUFFICES ASSUME NEW w \in Workers, RelationalInv, Insert(w) PROVE RelationalInv'
  OBVIOUS
<1> DEFINE k == call[w].name
           i == info[w]
           left == todo[w]
           new == WithRow(w)
<1>1. CASE Refused(w, "insert")
  BY <1>1, RefusedInv
<1>2. CASE Unique(k, i) /\ Plain(w, "insert", new)
  <2>1. /\ Holds(w, "insert") /\ left /= <<>> /\ Head(left) = "insert" /\ call[w] /= None
        /\ call[w] \in Calls /\ server \in Server /\ ServerInv(server)
    BY <1>2, HoldsShape DEF Plain, Executed
  <2>2. /\ i \in Draws
        /\ \/ /\ call[w].op = "create"
              /\ \/ server.type = "mysql" /\ left = MySQLInsert
                 \/ server.type = "postgres" /\ left = PostgreSQLInsert
           \/ /\ call[w].op = "drop"
              /\ \/ server.type = "mysql" /\ left = MySQLDropInsert
                 \/ server.type = "postgres" /\ left = PostgreSQLDropInsert
           \/ call[w].op = "get" /\ left = GetInsert
    BY <2>1, HoldsShape, CreatingShape, DroppingShape, OtherShape
  <2>3. k \in Names /\ i \in Infos /\ i /= None
    BY <2>1, <2>2, CallTypes, InfoTypes DEF Infos
  <2>4. /\ new \in Server
        /\ new.type = server.type /\ new.databases = server.databases
        /\ new.accounts = server.accounts /\ new.grants = server.grants
        /\ new.rows = [server.rows EXCEPT ![k] = i] /\ new.rows[k] = i
    BY <2>1, <2>3 DEF WithRow, Server
  <2> HIDE DEF new
  <2>5. Leaves(new, k)
    BY <1>2, <2>1, <2>3, <2>4, RowLeaves
  <2>6. Tail(left) \in Lefts /\ CallInv(new, call[w], Tail(left), i)
    <3>1. CASE call[w].op = "create"
      <4>1. \/ server.type = "mysql" /\ Tail(left) = MySQLHasRow
            \/ server.type = "postgres" /\ Tail(left) = PostgreSQLHasRow
        BY <2>2, <3>1, MySQLCreateSteps, PostgreSQLCreateSteps DEF Steps
      <4>2. Creating(new, k, Tail(left), i)
        BY <2>3, <2>4, <4>1, MySQLCreateSteps, PostgreSQLCreateSteps
        DEF Steps, Creating, CreatingMySQL, CreatingPostgreSQL
      <4> QED
        BY <2>1, <3>1, <4>1, <4>2 DEF CallInv, Lefts
    <3>2. CASE call[w].op = "drop"
      <4>1. \/ server.type = "mysql" /\ Tail(left) = MySQLDropHasRow
            \/ server.type = "postgres" /\ Tail(left) = PostgreSQLDropHasRow
        BY <2>2, <3>2, MySQLDropSteps, PostgreSQLDropSteps DEF Steps
      <4>2. Dropping(new, k, Tail(left), i)
        BY <2>3, <2>4, <4>1, MySQLCreateSteps, MySQLDropSteps, PostgreSQLDropSteps
        DEF Steps, Dropping, DroppingMySQL, DroppingPostgreSQL
      <4> QED
        BY <2>1, <3>2, <4>1, <4>2 DEF CallInv, Lefts
    <3>3. CASE call[w].op = "get"
      BY <2>1, <2>2, <2>3, <3>3, OtherSteps DEF Steps, CallInv, Getting, Lefts
    <3> QED
      BY <2>2, <3>1, <3>2, <3>3
  <2> QED
    BY <1>2, <2>5, <2>6, PlainInv
<1> QED
  BY <1>1, <1>2 DEF Insert

\* INSERT of the credentials of a seed; it may insert nothing.
LEMMA InsertIgnoreInv == \A w \in Workers : RelationalInv /\ InsertIgnore(w) => RelationalInv'
<1> SUFFICES ASSUME NEW w \in Workers, RelationalInv, InsertIgnore(w) PROVE RelationalInv'
  OBVIOUS
<1> DEFINE k == call[w].name
           i == info[w]
           left == todo[w]
           new == IF Unique(k, i) THEN WithRow(w) ELSE server
<1>1. CASE Refused(w, "insertIgnore")
  BY <1>1, RefusedInv
<1>2. CASE Plain(w, "insertIgnore", new)
  <2>1. /\ Holds(w, "insertIgnore") /\ left /= <<>> /\ Head(left) = "insertIgnore"
        /\ call[w] /= None /\ call[w] \in Calls /\ server \in Server /\ ServerInv(server)
    BY <1>2, HoldsShape DEF Plain, Executed
  <2>2. i \in Seeds /\ call[w].op = "set" /\ left = PostgreSQLSet
    BY <2>1, HoldsShape, CreatingShape, DroppingShape, OtherShape
  <2>3. k \in Names /\ i \in Infos
    BY <2>1, <2>2, CallTypes DEF Infos
  <2>4. Leaves(new, k)
    <3>1. CASE Unique(k, i)
      <4> DEFINE n == WithRow(w)
      <4>1. /\ n \in Server
            /\ n.type = server.type /\ n.databases = server.databases
            /\ n.accounts = server.accounts /\ n.grants = server.grants
            /\ n.rows = [server.rows EXCEPT ![k] = i]
        BY <2>1, <2>3 DEF WithRow, Server
      <4> HIDE DEF n
      <4>2. Leaves(n, k)
        BY <2>1, <2>3, <3>1, <4>1, RowLeaves
      <4> QED
        BY <3>1, <4>2 DEF n
    <3> QED
      BY <3>1, LeavesAlone
  <2>5. Tail(left) = <<>> /\ <<>> \in Lefts
    BY <2>2, OtherSteps DEF Steps, Lefts
  <2>6. CallInv(new, call[w], Tail(left), i)
    BY <2>1, <2>2, <2>5 DEF CallInv, Setting
  <2> HIDE DEF new
  <2> QED
    BY <1>2, <2>4, <2>5, <2>6, PlainInv
<1> QED
  BY <1>1, <1>2 DEF InsertIgnore

\* A database, for the row's user.
LEMMA CreateDatabaseInv == \A w \in Workers : RelationalInv /\ CreateDatabase(w) => RelationalInv'
<1> SUFFICES ASSUME NEW w \in Workers, RelationalInv, CreateDatabase(w) PROVE RelationalInv'
  OBVIOUS
<1> DEFINE k == call[w].name
           i == info[w]
           left == todo[w]
           new == [server EXCEPT
                    !.databases = @ \cup {i.dbname},
                    !.grants = IF server.type = "postgres" /\ i.dbname \notin server.databases
                               THEN @ \cup {Owned(w)}
                               ELSE @]
<1>1. Plain(w, "createDatabase", new) /\ Holds(w, "createDatabase")
  BY DEF CreateDatabase, Plain, Executed
<1>2. /\ left /= <<>> /\ Head(left) = "createDatabase" /\ call[w] /= None
      /\ call[w] \in Calls /\ server \in Server /\ ServerInv(server)
  BY <1>1, HoldsShape
<1>3. call[w].op = "create" /\ Creating(server, k, left, i)
  BY <1>1, <1>2, HoldsShape, DroppingShape, OtherShape
<1>4. /\ i /= None /\ server.rows[k] = i
      /\ \/ server.type = "mysql" /\ left = MySQLHasRow
         \/ server.type = "postgres" /\ left = PostgreSQLGranted /\ HasUser(server, i)
  BY <1>2, <1>3, CreatingShape
<1>5. k \in Names /\ i \in Infos
  BY <1>2, <1>3, <1>4, CallTypes, RowTypes
<1>6. /\ new \in Server /\ new.type = server.type /\ new.rows = server.rows
      /\ new.databases = server.databases \cup {i.dbname}
      /\ new.accounts = server.accounts
      /\ new.grants \in {server.grants, server.grants \cup {<<i.user, i.dbname>>}}
      /\ new.type = "postgres" => HasGrant(new, i)
  <2>1. new.grants = IF server.type = "postgres" /\ i.dbname \notin server.databases
                     THEN server.grants \cup {<<i.user, i.dbname>>}
                     ELSE server.grants
    BY <1>2 DEF Server, Owned
  <2>2. server.type = "postgres" /\ i.dbname \in server.databases => HasGrant(server, i)
    BY <1>2, <1>4, <1>5 DEF ServerInv, HasDatabase
  <2>3. /\ new.type = server.type /\ new.rows = server.rows
        /\ new.databases = server.databases \cup {i.dbname}
        /\ new.accounts = server.accounts
    BY <1>2 DEF Server
  <2>4. new \in Server
    BY <1>2, <1>5, InfoTypes DEF Server, Owned
  <2> HIDE DEF new
  <2> QED
    BY <2>1, <2>2, <2>3, <2>4 DEF HasGrant
<1> HIDE DEF new
<1>7. Leaves(new, k)
  BY <1>2, <1>4, <1>5, <1>6, MoreLeaves
<1>8. \/ server.type = "mysql" /\ Tail(left) = MySQLHasDatabase
      \/ server.type = "postgres" /\ Tail(left) = <<>>
  BY <1>4, MySQLCreateSteps, PostgreSQLCreateSteps DEF Steps
<1>9. Creating(new, k, Tail(left), i)
  BY <1>4, <1>6, <1>8, MySQLCreateSteps
  DEF Steps, Creating, CreatingMySQL, CreatingPostgreSQL, HasDatabase, HasUser
<1> QED
  BY <1>1, <1>2, <1>3, <1>7, <1>8, <1>9, PlainInv DEF CallInv, Lefts

\* A user, or role.
LEMMA CreateUserInv == \A w \in Workers : RelationalInv /\ CreateUser(w) => RelationalInv'
<1> SUFFICES ASSUME NEW w \in Workers, RelationalInv, CreateUser(w) PROVE RelationalInv'
  OBVIOUS
<1> DEFINE k == call[w].name
           i == info[w]
           left == todo[w]
           new == [server EXCEPT !.accounts = @ \cup {i.user}]
<1>1. Plain(w, "createUser", new) /\ Holds(w, "createUser")
  BY DEF CreateUser, Plain, Executed
<1>2. /\ left /= <<>> /\ Head(left) = "createUser" /\ call[w] /= None
      /\ call[w] \in Calls /\ server \in Server /\ ServerInv(server)
  BY <1>1, HoldsShape
<1>3. call[w].op = "create" /\ Creating(server, k, left, i)
  BY <1>1, <1>2, HoldsShape, DroppingShape, OtherShape
<1>4. /\ i /= None /\ server.rows[k] = i
      /\ \/ server.type = "mysql" /\ left = MySQLHasDatabase /\ HasDatabase(server, i)
         \/ server.type = "postgres" /\ left = PostgreSQLNoUser
  BY <1>2, <1>3, CreatingShape
<1>5. k \in Names /\ i \in Infos
  BY <1>2, <1>3, <1>4, CallTypes, RowTypes
<1>6. /\ new \in Server /\ new.type = server.type /\ new.rows = server.rows
      /\ new.databases = server.databases /\ new.grants = server.grants
      /\ new.accounts = server.accounts \cup {i.user}
  BY <1>2, <1>5, InfoTypes DEF Server
<1> HIDE DEF new
<1>7. Leaves(new, k)
  <2>1. new.type = "postgres" /\ HasDatabase(new, i) => HasGrant(new, i)
    BY <1>2, <1>4, <1>5, <1>6 DEF ServerInv, HasDatabase, HasGrant
  <2> QED
    BY <1>2, <1>4, <1>5, <1>6, <2>1, MoreLeaves
<1>8. \/ server.type = "mysql" /\ Tail(left) = MySQLHasUser
      \/ server.type = "postgres" /\ Tail(left) = PostgreSQLHasUser
  BY <1>4, MySQLCreateSteps, PostgreSQLCreateSteps DEF Steps
<1>9. Creating(new, k, Tail(left), i)
  BY <1>4, <1>6, <1>8, MySQLCreateSteps, PostgreSQLCreateSteps
  DEF Steps, Creating, CreatingMySQL, CreatingPostgreSQL, HasDatabase, HasUser
<1> QED
  BY <1>1, <1>2, <1>3, <1>7, <1>8, <1>9, PlainInv DEF CallInv, Lefts

\* MySQL's privileges.
LEMMA GrantInv == \A w \in Workers : RelationalInv /\ Grant(w) => RelationalInv'
<1> SUFFICES ASSUME NEW w \in Workers, RelationalInv, Grant(w) PROVE RelationalInv'
  OBVIOUS
<1> DEFINE k == call[w].name
           i == info[w]
           left == todo[w]
           new == [server EXCEPT !.grants = @ \cup {Owned(w)}]
<1>1. Plain(w, "grant", new) /\ Holds(w, "grant")
  BY DEF Grant, Plain, Executed
<1>2. /\ left /= <<>> /\ Head(left) = "grant" /\ call[w] /= None
      /\ call[w] \in Calls /\ server \in Server /\ ServerInv(server)
  BY <1>1, HoldsShape
<1>3. call[w].op = "create" /\ Creating(server, k, left, i)
  BY <1>1, <1>2, HoldsShape, DroppingShape, OtherShape
<1>4. /\ i /= None /\ server.rows[k] = i
      /\ server.type = "mysql" /\ left = MySQLHasUser
      /\ HasDatabase(server, i) /\ HasUser(server, i)
  BY <1>2, <1>3, CreatingShape
<1>5. k \in Names /\ i \in Infos
  BY <1>2, <1>3, <1>4, CallTypes, RowTypes
<1>6. /\ new \in Server /\ new.type = server.type /\ new.rows = server.rows
      /\ new.databases = server.databases /\ new.accounts = server.accounts
      /\ new.grants = server.grants \cup {<<i.user, i.dbname>>}
  BY <1>2, <1>5, InfoTypes DEF Server, Owned
<1> HIDE DEF new
<1>7. Leaves(new, k)
  BY <1>2, <1>4, <1>5, <1>6, MoreLeaves DEF HasGrant
<1>8. Tail(left) = MySQLFlush
  BY <1>4, MySQLCreateSteps DEF Steps
<1>9. Creating(new, k, Tail(left), i)
  BY <1>4, <1>6, <1>8, MySQLCreateSteps
  DEF Steps, Creating, CreatingMySQL, HasDatabase, HasUser, HasGrant
<1> QED
  BY <1>1, <1>2, <1>3, <1>7, <1>8, <1>9, PlainInv DEF CallInv, Lefts

\* PostgreSQL tells whether the role is there.
LEMMA SelectRoleInv == \A w \in Workers : RelationalInv /\ SelectRole(w) => RelationalInv'
<1> SUFFICES ASSUME NEW w \in Workers, RelationalInv, SelectRole(w) PROVE RelationalInv'
  OBVIOUS
<1> DEFINE k == call[w].name
           i == info[w]
           left == todo[w]
           longer == <<"createUser">> \o Tail(left)
<1>1. /\ Holds(w, "selectRole") /\ Release(w) /\ UNCHANGED <<selected, calls>>
      /\ \/ /\ server' = server /\ UNCHANGED <<info, call, faults>>
            /\ \/ HasUser(server, i) /\ Proceed(w)
               \/ todo' = [todo EXCEPT ![w] = longer]
         \/ server' = server /\ Fault /\ Over(w)
  BY DEF SelectRole, Executed, HasUser
<1>2. /\ left /= <<>> /\ Head(left) = "selectRole" /\ call[w] /= None
      /\ call[w] \in Calls /\ server \in Server /\ ServerInv(server) /\ session[w] /= None
  BY <1>1, HoldsShape
<1>3. call[w].op = "create" /\ Creating(server, k, left, i)
  BY <1>1, <1>2, HoldsShape, DroppingShape, OtherShape
<1>4. i /= None /\ server.rows[k] = i /\ server.type = "postgres" /\ left = PostgreSQLHasRow
  BY <1>2, <1>3, CreatingShape
<1>5. Tail(left) = PostgreSQLHasUser /\ longer = PostgreSQLNoUser
  BY <1>4, PostgreSQLCreateSteps, InsertSteps DEF Steps, Inserts
<1>6. Leaves(server, k) /\ selected' \subseteq Sessions /\ i \in Infos \cup {None}
  BY <1>1, LeavesAlone DEF RelationalInv, TypeInv
<1> HIDE DEF longer
<1>7. CASE server' = server /\ Fault /\ Over(w)
  BY <1>1, <1>2, <1>6, <1>7, FailedInv
<1>8. CASE server' = server /\ UNCHANGED <<info, call, faults>> /\ HasUser(server, i) /\ Proceed(w)
  <2>1. Goes(w, server, PostgreSQLHasUser, i)
    BY <1>1, <1>5, <1>6, <1>8 DEF Goes, Proceed, RelationalInv, TypeInv
  <2>2. CallInv(server, call[w], PostgreSQLHasUser, i)
    BY <1>2, <1>3, <1>4, <1>8, PostgreSQLCreateSteps
    DEF Steps, CallInv, Creating, CreatingPostgreSQL
  <2> QED
    BY <1>2, <1>6, <2>1, <2>2, GoesInv DEF Lefts
<1>9. CASE /\ server' = server /\ UNCHANGED <<info, call, faults>>
           /\ todo' = [todo EXCEPT ![w] = longer]
  <2>1. Goes(w, server, PostgreSQLNoUser, i)
    BY <1>1, <1>5, <1>6, <1>9 DEF Goes, RelationalInv, TypeInv
  <2>2. CallInv(server, call[w], PostgreSQLNoUser, i)
    BY <1>2, <1>3, <1>4, PostgreSQLCreateSteps
    DEF Steps, CallInv, Creating, CreatingPostgreSQL
  <2> QED
    BY <1>2, <1>6, <2>1, <2>2, GoesInv DEF Lefts
<1> QED
  BY <1>1, <1>7, <1>8, <1>9

\* The database is gone, in PostgreSQL with what its owner had.
LEMMA DropDatabaseInv == \A w \in Workers : RelationalInv /\ DropDatabase(w) => RelationalInv'
<1> SUFFICES ASSUME NEW w \in Workers, RelationalInv, DropDatabase(w) PROVE RelationalInv'
  OBVIOUS
<1> DEFINE k == call[w].name
           i == info[w]
           left == todo[w]
           new == [server EXCEPT
                    !.databases = @ \ {i.dbname},
                    !.grants = IF server.type = "postgres" THEN @ \ {Owned(w)} ELSE @]
<1>1. Plain(w, "dropDatabase", new) /\ Holds(w, "dropDatabase")
  BY DEF DropDatabase, Plain, Executed
<1>2. /\ left /= <<>> /\ Head(left) = "dropDatabase" /\ call[w] /= None
      /\ call[w] \in Calls /\ server \in Server /\ ServerInv(server)
  BY <1>1, HoldsShape
<1>3. call[w].op = "drop" /\ Dropping(server, k, left, i)
  BY <1>1, <1>2, HoldsShape, CreatingShape, OtherShape
<1>4. /\ i /= None /\ server.rows[k] = i
      /\ \/ server.type = "mysql" /\ left = MySQLDropHasRow
         \/ server.type = "postgres" /\ left = PostgreSQLTerminated
  BY <1>2, <1>3, DroppingShape
<1>5. k \in Names /\ i \in Infos
  BY <1>2, <1>3, <1>4, CallTypes, RowTypes
<1>6. /\ new \in Server /\ new.type = server.type /\ new.rows = server.rows
      /\ new.databases = server.databases \ {i.dbname} /\ new.accounts = server.accounts
      /\ new.grants \subseteq server.grants
      /\ \A g \in server.grants : g /= Owned(w) => g \in new.grants
  BY <1>2 DEF Server
<1> HIDE DEF new
<1>7. Leaves(new, k)
  <2>1. Owned(w)[1] = i.user
    BY DEF Owned
  <2>2. ~HasDatabase(new, i) /\ \A g \in server.grants : g[1] /= i.user => g \in new.grants
    BY <1>6, <2>1 DEF HasDatabase
  <2> QED
    BY <1>2, <1>4, <1>5, <1>6, <2>2, LessLeaves
<1>8. \/ server.type = "mysql" /\ Tail(left) = MySQLNoDatabase
      \/ server.type = "postgres" /\ Tail(left) = PostgreSQLNoDatabase
  BY <1>4, MySQLDropSteps, PostgreSQLDropSteps DEF Steps
<1>9. Dropping(new, k, Tail(left), i)
  BY <1>4, <1>6, <1>8, MySQLCreateSteps, MySQLDropSteps, PostgreSQLDropSteps
  DEF Steps, Dropping, DroppingMySQL, DroppingPostgreSQL, HasDatabase
<1> QED
  BY <1>1, <1>2, <1>3, <1>7, <1>8, <1>9, PlainInv DEF CallInv, Lefts

\* The user is gone, with all it had.
LEMMA DropUserInv == \A w \in Workers : RelationalInv /\ DropUser(w) => RelationalInv'
<1> SUFFICES ASSUME NEW w \in Workers, RelationalInv, DropUser(w) PROVE RelationalInv'
  OBVIOUS
<1> DEFINE k == call[w].name
           i == info[w]
           left == todo[w]
           new == [server EXCEPT
                    !.accounts = @ \ {i.user},
                    !.grants = {g \in @ : g[1] /= i.user}]
<1>1. Plain(w, "dropUser", new) /\ Holds(w, "dropUser")
  BY DEF DropUser, Plain, Executed
<1>2. /\ left /= <<>> /\ Head(left) = "dropUser" /\ call[w] /= None
      /\ call[w] \in Calls /\ server \in Server /\ ServerInv(server)
  BY <1>1, HoldsShape
<1>3. call[w].op = "drop" /\ Dropping(server, k, left, i)
  BY <1>1, <1>2, HoldsShape, CreatingShape, OtherShape
<1>4. /\ i /= None /\ server.rows[k] = i /\ ~HasDatabase(server, i)
      /\ \/ server.type = "mysql" /\ left = MySQLNoDatabase
         \/ server.type = "postgres" /\ left = PostgreSQLNoDatabase
  BY <1>2, <1>3, DroppingShape
<1>5. k \in Names /\ i \in Infos
  BY <1>2, <1>3, <1>4, CallTypes, RowTypes
<1>6. /\ new \in Server /\ new.type = server.type /\ new.rows = server.rows
      /\ new.databases = server.databases /\ new.accounts = server.accounts \ {i.user}
      /\ new.grants = {g \in server.grants : g[1] /= i.user}
  <2>1. /\ new.type = server.type /\ new.rows = server.rows
        /\ new.databases = server.databases /\ new.accounts = server.accounts \ {i.user}
        /\ new.grants = {g \in server.grants : g[1] /= i.user}
    BY <1>2 DEF Server
  <2>2. /\ new = [server EXCEPT !.accounts = new.accounts, !.grants = new.grants]
        /\ new.accounts \subseteq server.accounts /\ new.grants \subseteq server.grants
    BY <2>1
  <2> HIDE DEF new
  <2>3. new \in Server
    BY <1>2, <2>2 DEF Server
  <2> QED
    BY <2>1, <2>3
<1> HIDE DEF new
<1>7. Leaves(new, k)
  <2>1. ~HasDatabase(new, i)
    BY <1>4, <1>6 DEF HasDatabase
  <2> QED
    BY <1>2, <1>4, <1>5, <1>6, <2>1, LessLeaves
<1>8. \/ server.type = "mysql" /\ Tail(left) = MySQLFlush
      \/ server.type = "postgres" /\ Tail(left) = <<>>
  BY <1>4, MySQLDropSteps, PostgreSQLDropSteps DEF Steps
<1>9. Dropping(new, k, Tail(left), i)
  BY <1>4, <1>6, <1>8, MySQLCreateSteps
  DEF Steps, Dropping, DroppingMySQL, DroppingPostgreSQL, HasDatabase, NoUser, HasUser
<1> QED
  BY <1>1, <1>2, <1>3, <1>7, <1>8, <1>9, PlainInv DEF CallInv, Lefts

LEMMA StatementInv == \A w \in Workers : RelationalInv /\ Statement(w) => RelationalInv'
BY UseInv, SelectInv, InsertInv, InsertIgnoreInv, CreateDatabaseInv, CreateUserInv, GrantInv,
   SelectRoleInv, DropDatabaseInv, DropUserInv, InitializeInv, QueryInv DEF Statement

-----------------------------------------------------------------------------
(* Calls, sessions and crashes.                                            *)

\* A call that begins has all its statements left.
LEMMA ProgramShape ==
    ASSUME NEW s \in Server, NEW c \in Calls, NEW i \in Seeds \cup {None},
           i \in IF c.op = "set" THEN Seeds ELSE {None}
    PROVE  /\ Program[s.type][c.op] \in Lefts
           /\ CallInv(s, c, Program[s.type][c.op], i)
<1>1. c /= None /\ c.op \in {"create", "drop", "get", "set", "initialize", "query"}
  BY CallTypes
<1>2. CASE s.type = "mysql"
  <2>1. Program[s.type] = MySQL
    BY <1>2 DEF Program
  <2>2. CASE c.op = "create"
    BY <1>1, <1>2, <2>1, <2>2 DEF MySQL, Lefts, CallInv, Creating
  <2>3. CASE c.op = "drop"
    BY <1>1, <1>2, <2>1, <2>3 DEF MySQL, Lefts, CallInv, Dropping
  <2>4. CASE c.op = "get"
    BY <1>1, <1>2, <2>1, <2>4 DEF MySQL, Lefts, CallInv, Getting
  <2>5. CASE c.op = "set"
    BY <1>1, <1>2, <2>1, <2>5 DEF MySQL, Lefts, CallInv, Setting
  <2>6. CASE c.op = "initialize"
    BY <1>1, <1>2, <2>1, <2>6 DEF MySQL, Lefts, CallInv, Initializing
  <2>7. CASE c.op = "query"
    BY <1>1, <1>2, <2>1, <2>7 DEF MySQL, Lefts, CallInv
  <2> QED
    BY <1>1, <2>2, <2>3, <2>4, <2>5, <2>6, <2>7
<1>3. CASE s.type = "postgres"
  <2>1. Program[s.type] = PostgreSQL
    BY <1>3 DEF Program
  <2>2. CASE c.op = "create"
    BY <1>1, <1>3, <2>1, <2>2 DEF PostgreSQL, Lefts, CallInv, Creating
  <2>3. CASE c.op = "drop"
    BY <1>1, <1>3, <2>1, <2>3 DEF PostgreSQL, Lefts, CallInv, Dropping
  <2>4. CASE c.op = "get"
    BY <1>1, <1>3, <2>1, <2>4 DEF PostgreSQL, Lefts, CallInv, Getting
  <2>5. CASE c.op = "set"
    BY <1>1, <1>3, <2>1, <2>5 DEF PostgreSQL, Lefts, CallInv, Setting
  <2>6. CASE c.op = "initialize"
    BY <1>1, <1>3, <2>1, <2>6 DEF PostgreSQL, Lefts, CallInv, Initializing
  <2>7. CASE c.op = "query"
    BY <1>1, <1>3, <2>1, <2>7 DEF PostgreSQL, Lefts, CallInv
  <2> QED
    BY <1>1, <2>2, <2>3, <2>4, <2>5, <2>6, <2>7
<1> QED
  BY <1>2, <1>3 DEF Server

LEMMA BeginInv ==
    \A w \in Workers, c \in Calls, i \in Seeds \cup {None} :
        RelationalInv /\ Begin(w, c, i) => RelationalInv'
<1> SUFFICES ASSUME NEW w \in Workers, NEW c \in Calls, NEW i \in Seeds \cup {None},
                    RelationalInv, Begin(w, c, i)
             PROVE  RelationalInv'
  OBVIOUS
<1> DEFINE left == Program[server.type][c.op]
<1>1. left \in Lefts /\ CallInv(server, c, left, i)
  BY ProgramShape DEF Begin, RelationalInv, TypeInv
<1>2. /\ call' = [call EXCEPT ![w] = c] /\ todo' = [todo EXCEPT ![w] = left]
      /\ info' = [info EXCEPT ![w] = i]
      /\ calls' = calls + 1 /\ calls < MaxCalls /\ call[w] = None
      /\ \A v \in Workers : call[v] /= None => ~Overlaps(c, call[v])
      /\ UNCHANGED <<server, free, selected, session, faults>>
  BY DEF Begin
<1> HIDE DEF left
<1>3. /\ call' \in [Workers -> Calls \cup {None}]
      /\ todo' \in [Workers -> Lefts]
      /\ info' \in [Workers -> Infos \cup {None}]
      /\ call'[w] = c /\ todo'[w] = left /\ info'[w] = i
      /\ \A v \in Workers : v /= w =>
           call'[v] = call[v] /\ todo'[v] = todo[v] /\ info'[v] = info[v]
  BY <1>1, <1>2, MemoryTypes DEF RelationalInv, Infos
<1>4. TypeInv'
  BY <1>2, <1>3, BoundsAssumption DEF RelationalInv, TypeInv, BoundsAssumption
<1>5. ApartInv'
  BY <1>2, <1>3 DEF RelationalInv, ApartInv, Overlaps
<1>6. todo[w] = <<>>
  BY <1>2, CallTypes DEF RelationalInv, CallInv
<1>7. \A v \in Workers : CallInv(server', call'[v], todo'[v], info'[v])
  BY <1>1, <1>2, <1>3 DEF RelationalInv
<1>8. \A v \in Workers : todo'[v] = <<>> => session'[v] = None
  BY <1>2, <1>3, <1>6 DEF RelationalInv
<1>9. ServerInv(server')
  BY <1>2 DEF RelationalInv
<1> QED
  BY <1>4, <1>5, <1>7, <1>8, <1>9, NextState

\* Steps that change neither the server nor what the calls remember.
LEMMA MemoryKept ==
    ASSUME RelationalInv, UNCHANGED <<server, call, todo, info, calls>>,
           free' \in Seq(Sessions), selected' \subseteq Sessions,
           session' \in [Workers -> Sessions \cup {None}],
           faults' \in 0 .. MaxFaults,
           \A v \in Workers : todo[v] = <<>> => session'[v] = session[v]
    PROVE  RelationalInv'
<1>1. TypeInv' /\ ApartInv'
  BY DEF RelationalInv, TypeInv, ApartInv
<1>2. /\ ServerInv(server')
      /\ \A v \in Workers : CallInv(server', call'[v], todo'[v], info'[v])
      /\ \A v \in Workers : todo'[v] = <<>> => session'[v] = None
  BY DEF RelationalInv
<1> QED
  BY <1>1, <1>2, NextState

LEMMA TakeInv == \A w \in Workers : RelationalInv /\ Take(w) => RelationalInv'
<1> SUFFICES ASSUME NEW w \in Workers, RelationalInv, Take(w) PROVE RelationalInv'
  OBVIOUS
<1>1. /\ todo[w] /= <<>> /\ UNCHANGED <<server, call, todo, info, faults, calls>>
      /\ free \in Seq(Sessions) /\ selected \subseteq Sessions /\ faults \in 0 .. MaxFaults
      /\ session \in [Workers -> Sessions \cup {None}]
  BY DEF Take, RelationalInv, TypeInv
<1>2. CASE /\ free /= <<>>
           /\ session' = [session EXCEPT ![w] = Last(free)]
           /\ free' = Front(free)
           /\ UNCHANGED selected
  <2>1. Len(free) \in Nat /\ Len(free) >= 1
    BY <1>1, <1>2, EmptySeq, LenProperties
  <2>2. Last(free) \in Sessions
    BY <1>1, <2>1, ElementOfSeq DEF Last
  <2>3. Front(free) \in Seq(Sessions)
    BY <1>1, <2>1, SubSeqProperties DEF Front
  <2> QED
    BY <1>1, <1>2, <2>2, <2>3, MemoryKept
<1>3. CASE /\ \E c \in Sessions \ InUse :
                /\ session' = [session EXCEPT ![w] = c]
                /\ selected' = selected \ {c}
           /\ UNCHANGED free
  BY <1>1, <1>3, MemoryKept
<1> QED
  BY <1>2, <1>3 DEF Take

LEMMA ExpireInv == RelationalInv /\ Expire => RelationalInv'
<1> SUFFICES ASSUME RelationalInv, Expire PROVE RelationalInv'
  OBVIOUS
<1>1. free \in Seq(Sessions)
  BY DEF RelationalInv, TypeInv
<1>2. PICK n \in DOMAIN free : free' = RemoveAt(free, n)
  BY DEF Expire
<1>3. n \in 1 .. Len(free) /\ Len(free) \in Nat
  BY <1>1, <1>2, LenProperties
<1>4. SubSeq(free, 1, n - 1) \in Seq(Sessions)
  BY <1>1, <1>3, SubSeqProperties
<1>5. SubSeq(free, n + 1, Len(free)) \in Seq(Sessions)
  BY <1>1, <1>3, SubSeqProperties
<1>6. free' \in Seq(Sessions)
  BY <1>2, <1>4, <1>5, ConcatProperties DEF RemoveAt
<1>7. faults' \in 0 .. MaxFaults
  BY FaultTypes DEF Expire, RelationalInv
<1> QED
  BY <1>6, <1>7, MemoryKept DEF Expire, RelationalInv, TypeInv

LEMMA ReturnInv == \A w \in Workers : RelationalInv /\ Return(w) => RelationalInv'
<1> SUFFICES ASSUME NEW w \in Workers, RelationalInv, Return(w) PROVE RelationalInv'
  OBVIOUS
<1>1. /\ call[w] /= None /\ todo[w] = <<>> /\ <<>> \in Lefts
      /\ UNCHANGED <<server, free, selected, session, faults, calls>>
  BY DEF Return, Lefts
<1>2. /\ call' \in [Workers -> Calls \cup {None}]
      /\ todo' \in [Workers -> Lefts]
      /\ info' \in [Workers -> Infos \cup {None}]
      /\ call'[w] = None /\ todo'[w] = <<>> /\ info'[w] = None
      /\ \A v \in Workers : v /= w =>
           call'[v] = call[v] /\ todo'[v] = todo[v] /\ info'[v] = info[v]
  BY <1>1, MemoryTypes DEF RelationalInv, Return, Over
<1>3. TypeInv' /\ ApartInv'
  BY <1>1, <1>2 DEF RelationalInv, TypeInv, ApartInv
<1>4. \A v \in Workers : CallInv(server', call'[v], todo'[v], info'[v])
  BY <1>1, <1>2 DEF RelationalInv, CallInv
<1>5. \A v \in Workers : todo'[v] = <<>> => session'[v] = None
  BY <1>1, <1>2 DEF RelationalInv
<1>6. ServerInv(server')
  BY <1>1 DEF RelationalInv
<1> QED
  BY <1>3, <1>4, <1>5, <1>6, NextState

LEMMA CrashInv == RelationalInv /\ Crash => RelationalInv'
<1> SUFFICES ASSUME RelationalInv, Crash PROVE RelationalInv'
  OBVIOUS
<1>1. faults' \in 0 .. MaxFaults
  BY FaultTypes DEF Crash, RelationalInv
<1>2. TypeInv' /\ ApartInv'
  BY <1>1 DEF Crash, RelationalInv, TypeInv, ApartInv, Lefts
<1>3. ServerInv(server')
  BY DEF Crash, RelationalInv
<1>4. \A v \in Workers : CallInv(server', call'[v], todo'[v], info'[v]) /\ session'[v] = None
  BY DEF Crash, CallInv
<1> QED
  BY <1>2, <1>3, <1>4, NextState

LEMMA RelationalInvInit == Init => RelationalInv
<1> SUFFICES ASSUME Init PROVE RelationalInv
  OBVIOUS
<1>1. /\ server.type \in {"mysql", "postgres"} /\ server.rows = [k \in Names |-> None]
      /\ server.databases = {i.dbname : i \in Seeds} /\ server.accounts = {i.user : i \in Seeds}
      /\ server.grants = {<<i.user, i.dbname>> : i \in Seeds}
      /\ server.schema = FALSE /\ server.table = FALSE
  BY DEF Init
<1>2. server \in Server
  <2>1. /\ server = [type |-> server.type, schema |-> server.schema, table |-> server.table,
                     rows |-> server.rows, databases |-> server.databases,
                     accounts |-> server.accounts, grants |-> server.grants]
    BY DEF Init
  <2>2. /\ server.databases \subseteq {i.dbname : i \in Infos}
        /\ server.accounts \subseteq {i.user : i \in Infos}
        /\ server.grants \subseteq {<<i.user, i.dbname>> : i \in Infos}
        /\ server.rows \in [Names -> Infos \cup {None}]
    BY <1>1 DEF Infos
  <2> QED
    BY <1>1, <2>1, <2>2 DEF Server
<1>3. TypeInv
  <2>1. <<>> \in Seq(Sessions) /\ 0 \in 0 .. MaxFaults /\ 0 \in 0 .. MaxCalls
    BY BoundsAssumption DEF BoundsAssumption
  <2> QED
    BY <1>2, <2>1 DEF Init, TypeInv, Lefts
<1>4. ServerInv(server)
  BY <1>1 DEF ServerInv, HasDatabase, HasUser, HasGrant
<1>5. ApartInv /\ \A w \in Workers : CallInv(server, call[w], todo[w], info[w]) /\ session[w] = None
  BY DEF Init, ApartInv, CallInv
<1> QED
  BY <1>3, <1>4, <1>5 DEF RelationalInv

LEMMA RelationalInvStep == RelationalInv /\ [Next]_vars => RelationalInv'
<1>1. RelationalInv /\ UNCHANGED vars => RelationalInv'
  BY MemoryKept DEF RelationalInv, TypeInv, vars
<1> QED
  BY <1>1, BeginInv, TakeInv, StatementInv, ReturnInv, ExpireInv, CrashInv DEF Next

LEMMA RelationalInvCorrect == Spec => []RelationalInv
BY RelationalInvInit, RelationalInvStep, PTL DEF Spec

-----------------------------------------------------------------------------
(* The theorems about calls.                                               *)

\* What a call has left are statements of a call of the server.
StatementsOf(type) ==
    IF type = "mysql"
    THEN {"createSchema", "use", "createTable", "query", "select", "createDatabase",
          "createUser", "grant", "flush", "dropDatabase", "dropUser", "insertIgnore", "insert"}
    ELSE {"createSchema", "createTable", "query", "select", "selectRole", "grantRole",
          "createDatabase", "terminate", "dropDatabase", "dropUser", "insertIgnore",
          "insert", "createUser"}

LEMMA ProgramStatements ==
    ASSUME NEW type \in {"mysql", "postgres"}
    PROVE  StatementsOf(type) \subseteq
             (UNION {ToSet(Program[type][op]) : op \in Named \cup Provider})
                \cup {"insert", "createUser"}
<1> DEFINE All == UNION {ToSet(Program[type][op]) : op \in Named \cup Provider}
<1>1. \A op \in {"create", "drop", "set", "initialize", "query"} : ToSet(Program[type][op]) \subseteq All
  BY DEF Named, Provider
<1> SUFFICES StatementsOf(type) \subseteq All \cup {"insert", "createUser"}
  OBVIOUS
<1> HIDE DEF All
<1>2. CASE type = "mysql"
  <2>1. /\ ToSet(MySQLCreate) \subseteq All /\ ToSet(MySQLDrop) \subseteq All
        /\ ToSet(MySQLSet) \subseteq All /\ ToSet(MySQLInitialize) \subseteq All
        /\ ToSet(<<"query">>) \subseteq All
    BY <1>1, <1>2 DEF Program, MySQL
  <2>2. {"use", "select", "createDatabase", "createUser", "grant", "flush"} \subseteq ToSet(MySQLCreate)
    <3>1. {"use", "select"} \subseteq ToSet(MySQLCreate)
      BY DEF ToSet, MySQLCreate
    <3>2. {"createDatabase", "createUser"} \subseteq ToSet(MySQLCreate)
      BY DEF ToSet, MySQLCreate
    <3>3. {"grant", "flush"} \subseteq ToSet(MySQLCreate)
      BY DEF ToSet, MySQLCreate
    <3> QED
      BY <3>1, <3>2, <3>3
  <2>3. {"dropDatabase", "dropUser"} \subseteq ToSet(MySQLDrop) /\ "insertIgnore" \in ToSet(MySQLSet)
    BY DEF ToSet, MySQLDrop, MySQLSet
  <2>4. {"createSchema", "createTable"} \subseteq ToSet(MySQLInitialize) /\ "query" \in ToSet(<<"query">>)
    BY DEF ToSet, MySQLInitialize
  <2> QED
    BY <1>2, <2>1, <2>2, <2>3, <2>4 DEF StatementsOf
<1>3. CASE type = "postgres"
  <2>1. /\ ToSet(PostgreSQLCreate) \subseteq All /\ ToSet(PostgreSQLDrop) \subseteq All
        /\ ToSet(PostgreSQLSet) \subseteq All /\ ToSet(PostgreSQLInitialize) \subseteq All
        /\ ToSet(<<"query">>) \subseteq All
    BY <1>1, <1>3 DEF Program, PostgreSQL
  <2>2. {"select", "selectRole", "grantRole", "createDatabase"} \subseteq ToSet(PostgreSQLCreate)
    <3>1. {"select", "selectRole"} \subseteq ToSet(PostgreSQLCreate)
      BY DEF ToSet, PostgreSQLCreate
    <3>2. {"grantRole", "createDatabase"} \subseteq ToSet(PostgreSQLCreate)
      BY DEF ToSet, PostgreSQLCreate
    <3> QED
      BY <3>1, <3>2
  <2>3. /\ {"terminate", "dropDatabase", "dropUser"} \subseteq ToSet(PostgreSQLDrop)
        /\ "insertIgnore" \in ToSet(PostgreSQLSet)
    BY DEF ToSet, PostgreSQLDrop, PostgreSQLSet
  <2>4. /\ {"createSchema", "createTable"} \subseteq ToSet(PostgreSQLInitialize)
        /\ "query" \in ToSet(<<"query">>)
    BY DEF ToSet, PostgreSQLInitialize
  <2> QED
    BY <1>3, <2>1, <2>2, <2>3, <2>4 DEF StatementsOf
<1> QED
  BY <1>2, <1>3

LEMMA LeftStatements ==
    ASSUME NEW s, s.type \in {"mysql", "postgres"}, NEW c \in Calls \cup {None}, NEW left, NEW i,
           CallInv(s, c, left, i)
    PROVE  ToSet(left) \subseteq StatementsOf(s.type)
<1> USE DEF ToSet, StatementsOf
<1>1. CASE c = None
  BY <1>1 DEF CallInv
<1>2. CASE c /= None /\ c.op = "create" /\ Creating(s, c.name, left, i)
  BY <1>2 DEF Creating, CreatingMySQL, CreatingPostgreSQL,
    MySQLCreate, MySQLSelect, MySQLInsert, MySQLHasRow, MySQLHasDatabase, MySQLHasUser, MySQLFlush,
    PostgreSQLCreate, PostgreSQLInsert, PostgreSQLHasRow, PostgreSQLNoUser, PostgreSQLHasUser,
    PostgreSQLGranted
<1>3. CASE c /= None /\ c.op = "drop" /\ Dropping(s, c.name, left, i)
  BY <1>3 DEF Dropping, DroppingMySQL, DroppingPostgreSQL,
    MySQLDrop, MySQLDropSelect, MySQLDropInsert, MySQLDropHasRow, MySQLNoDatabase, MySQLFlush,
    PostgreSQLDrop, PostgreSQLDropInsert, PostgreSQLDropHasRow, PostgreSQLTerminated,
    PostgreSQLNoDatabase
<1>4. CASE c /= None /\ c.op = "get" /\ Getting(s, left, i)
  BY <1>4 DEF Getting, MySQLGet, PostgreSQLGet, GetInsert
<1>5. CASE c /= None /\ c.op = "set" /\ Setting(s, left, i)
  BY <1>5 DEF Setting, MySQLSet, PostgreSQLSet
<1>6. CASE c /= None /\ c.op = "initialize" /\ Initializing(s, left, i)
  BY <1>6 DEF Initializing, MySQLInitialize, MySQLCreateTable, PostgreSQLInitialize
<1>7. CASE c /= None /\ c.op = "query" /\ left \in {<<"query">>, <<>>}
  BY <1>7
<1> QED
  BY <1>1, <1>2, <1>3, <1>4, <1>5, <1>6, <1>7 DEF CallInv

\* Values stay in their types: what is left of a call are statements of the server's kind.
THEOREM TypeCorrect == Spec => []TypeOK
<1>1. RelationalInv => TypeOK
  <2> SUFFICES ASSUME RelationalInv PROVE TypeOK
    OBVIOUS
  <2>1. TypeInv
    BY DEF RelationalInv
  <2>2. \A c \in ToSet(free) : c \in Sessions
    BY <2>1, LenProperties, ElementOfSeq DEF TypeInv, ToSet
  <2>3. ASSUME NEW w \in Workers
        PROVE  ToSet(todo[w]) \subseteq
                 (UNION {ToSet(Program[server.type][op]) : op \in Named \cup Provider})
                    \cup {"insert", "createUser"}
    <3>1. server.type \in {"mysql", "postgres"} /\ call[w] \in Calls \cup {None}
      BY <2>1 DEF TypeInv, Server
    <3>2. ToSet(todo[w]) \subseteq StatementsOf(server.type)
      BY <3>1, LeftStatements DEF RelationalInv
    <3> QED
      BY <3>1, <3>2, ProgramStatements
  <2> QED
    BY <2>1, <2>2, <2>3 DEF TypeOK, TypeInv
<1> QED
  BY <1>1, RelationalInvCorrect, PTL

\* CreateDatabase without an error: its credentials are the row's and open the database.
THEOREM CreatedUsableCorrect == Spec => []CreatedUsable
<1>1. RelationalInv => CreatedUsable
  <2> SUFFICES ASSUME RelationalInv, NEW w \in Workers, Succeeds(w, "create")
               PROVE  info[w] = server.rows[call[w].name] /\ Usable(info[w])
    BY DEF CreatedUsable
  <2>1. /\ call[w] \in Calls /\ call[w].op = "create" /\ todo[w] = <<>>
        /\ server.type \in {"mysql", "postgres"}
    BY DEF Succeeds, RelationalInv, TypeInv, Server
  <2>2. Creating(server, call[w].name, <<>>, info[w])
    BY <2>1, CallTypes DEF RelationalInv, CallInv
  <2>3. /\ info[w] /= None /\ server.rows[call[w].name] = info[w]
        /\ \/ server.type = "mysql" /\ CreatingMySQL(server, <<>>, info[w])
           \/ server.type = "postgres" /\ CreatingPostgreSQL(server, <<>>, info[w])
    BY <2>2, MySQLCreateSteps, PostgreSQLCreateSteps DEF Creating, Steps
  <2>4. HasDatabase(server, info[w]) /\ HasUser(server, info[w])
    BY <2>3, MySQLCreateSteps DEF Steps, CreatingMySQL, CreatingPostgreSQL
  <2>5. HasGrant(server, info[w])
    BY <2>1, <2>3, <2>4, CallTypes DEF CreatingMySQL, RelationalInv, ServerInv, Named
  <2> QED
    BY <2>3, <2>4, <2>5 DEF Usable, HasDatabase, HasUser, HasGrant
<1> QED
  BY <1>1, RelationalInvCorrect, PTL

\* DropDatabase without an error leaves neither database nor user nor privileges.
THEOREM DroppedGoneCorrect == Spec => []DroppedGone
<1>1. RelationalInv => DroppedGone
  <2> SUFFICES ASSUME RelationalInv, NEW w \in Workers, Succeeds(w, "drop")
               PROVE  /\ info[w] = server.rows[call[w].name]
                      /\ info[w].dbname \notin server.databases
                      /\ info[w].user \notin server.accounts
                      /\ \A g \in server.grants : g[1] /= info[w].user
    BY DEF DroppedGone
  <2>1. call[w] /= None /\ call[w].op = "drop" /\ todo[w] = <<>>
    BY DEF Succeeds
  <2>2. Dropping(server, call[w].name, <<>>, info[w])
    BY <2>1 DEF RelationalInv, CallInv
  <2>3. /\ info[w] /= None /\ server.rows[call[w].name] = info[w]
        /\ \/ server.type = "mysql" /\ DroppingMySQL(server, <<>>, info[w])
           \/ server.type = "postgres" /\ DroppingPostgreSQL(server, <<>>, info[w])
    BY <2>2, MySQLDropSteps, PostgreSQLDropSteps DEF Dropping, Steps
  <2>4. ~HasDatabase(server, info[w]) /\ NoUser(server, info[w])
    BY <2>3, MySQLDropSteps DEF Steps, DroppingMySQL, DroppingPostgreSQL
  <2> QED
    BY <2>3, <2>4 DEF NoUser, HasDatabase, HasUser
<1> QED
  BY <1>1, RelationalInvCorrect, PTL

-----------------------------------------------------------------------------
(* The theorems about steps.                                               *)

\* What a statement about name k does to the server.
Alone ==
    /\ server'.rows = server.rows /\ server'.databases = server.databases
    /\ server'.accounts = server.accounts /\ server'.grants = server.grants

Inserted(k) ==
    /\ \E i \in Infos : Unique(k, i) /\ server'.rows = [server.rows EXCEPT ![k] = i]
    /\ server'.databases = server.databases /\ server'.accounts = server.accounts
    /\ server'.grants = server.grants

Added(k) ==
    LET i == server.rows[k]
    IN  /\ i /= None
        /\ server'.rows = server.rows
        /\ server'.databases \in {server.databases, server.databases \cup {i.dbname}}
        /\ server'.accounts \in {server.accounts, server.accounts \cup {i.user}}
        /\ server'.grants \in {server.grants, server.grants \cup {<<i.user, i.dbname>>}}

Removed(k) ==
    LET i == server.rows[k]
    IN  /\ i /= None
        /\ server'.rows = server.rows
        /\ server'.databases \in {server.databases, server.databases \ {i.dbname}}
        /\ server'.accounts \in {server.accounts, server.accounts \ {i.user}}
        /\ server'.grants \subseteq server.grants
        /\ \A g \in server.grants : g[1] /= i.user => g \in server'.grants

\* Only a call that drops the database of a name takes something of it away.
ServerChange ==
    \/ Alone
    \/ \E k \in Names : Inserted(k) \/ Added(k)
    \/ \E w \in Workers, k \in Names : call[w] = [op |-> "drop", name |-> k] /\ Removed(k)

LEMMA PlainServer ==
    ASSUME NEW w, NEW statement, NEW new, Plain(w, statement, new)
    PROVE  Holds(w, statement) /\ (Alone \/ server' = new)
BY DEF Plain, Executed, Alone

LEMMA InsertedServer ==
    ASSUME RelationalInv, NEW w \in Workers, Insert(w) \/ InsertIgnore(w)
    PROVE  ServerChange
<1> DEFINE k == call[w].name
           i == info[w]
           new == WithRow(w)
<1>1. CASE Alone
  BY <1>1 DEF ServerChange
<1>2. ASSUME NEW statement \in {"insert", "insertIgnore"}, Holds(w, statement),
             Unique(k, i), server' = new
      PROVE  ServerChange
  <2>1. /\ todo[w] /= <<>> /\ Head(todo[w]) = statement /\ call[w] \in Calls
        /\ server \in Server
    BY <1>2, HoldsShape
  <2>2. i \in Infos /\ call[w].op \in Named
    BY <1>2, <2>1, HoldsShape, CreatingShape, DroppingShape, OtherShape DEF Infos, Named
  <2>3. k \in Names
    BY <2>1, <2>2, CallTypes
  <2>4. Inserted(k)
    BY <1>2, <2>1, <2>2 DEF Inserted, WithRow, Server
  <2> QED
    BY <2>3, <2>4 DEF ServerChange
<1>3. CASE Insert(w)
  <2>1. Refused(w, "insert") => Alone
    BY DEF Refused, Alone
  <2> QED
    BY <1>1, <1>2, <1>3, <2>1, PlainServer DEF Insert
<1>4. CASE InsertIgnore(w)
  <2>1. Refused(w, "insertIgnore") => Alone
    BY DEF Refused, Alone
  <2>2. server' = server => Alone
    BY DEF Alone
  <2> QED
    BY <1>1, <1>2, <1>4, <2>1, <2>2, PlainServer DEF InsertIgnore
<1> QED
  BY <1>3, <1>4

LEMMA AddedServer ==
    ASSUME RelationalInv, NEW w \in Workers, CreateDatabase(w) \/ CreateUser(w) \/ Grant(w)
    PROVE  ServerChange
<1> DEFINE k == call[w].name
           i == info[w]
<1>1. CASE Alone
  BY <1>1 DEF ServerChange
<1>2. ASSUME NEW statement \in {"createDatabase", "createUser", "grant"}, Holds(w, statement)
      PROVE  k \in Names /\ i /= None /\ server.rows[k] = i /\ server \in Server
  <2>1. /\ todo[w] /= <<>> /\ Head(todo[w]) = statement /\ call[w] \in Calls
        /\ server \in Server
    BY <1>2, HoldsShape
  <2>2. call[w].op = "create" /\ Creating(server, k, todo[w], i)
    BY <1>2, <2>1, HoldsShape, DroppingShape, OtherShape
  <2> QED
    BY <2>1, <2>2, CreatingShape, CallTypes
<1>3. CASE CreateDatabase(w)
  <2> DEFINE new == [server EXCEPT
                    !.databases = @ \cup {info[w].dbname},
                    !.grants = IF server.type = "postgres" /\ info[w].dbname \notin server.databases
                               THEN @ \cup {Owned(w)}
                               ELSE @]
  <2>1. Plain(w, "createDatabase", new)
    BY <1>3 DEF CreateDatabase
  <2>2. Holds(w, "createDatabase") /\ (Alone \/ server' = new)
    BY <2>1, PlainServer
  <2>3. CASE server' = new
    <3>1. Added(k)
      BY <1>2, <2>2, <2>3 DEF Added, Owned, Server
    <3> QED
      BY <1>2, <2>2, <3>1 DEF ServerChange
  <2> QED
    BY <1>1, <2>2, <2>3
<1>4. CASE CreateUser(w)
  <2> DEFINE new == [server EXCEPT !.accounts = @ \cup {info[w].user}]
  <2>1. Plain(w, "createUser", new)
    BY <1>4 DEF CreateUser
  <2>2. Holds(w, "createUser") /\ (Alone \/ server' = new)
    BY <2>1, PlainServer
  <2>3. CASE server' = new
    <3>1. Added(k)
      BY <1>2, <2>2, <2>3 DEF Added, Server
    <3> QED
      BY <1>2, <2>2, <3>1 DEF ServerChange
  <2> QED
    BY <1>1, <2>2, <2>3
<1>5. CASE Grant(w)
  <2> DEFINE new == [server EXCEPT !.grants = @ \cup {Owned(w)}]
  <2>1. Plain(w, "grant", new)
    BY <1>5 DEF Grant
  <2>2. Holds(w, "grant") /\ (Alone \/ server' = new)
    BY <2>1, PlainServer
  <2>3. CASE server' = new
    <3>1. Added(k)
      BY <1>2, <2>2, <2>3 DEF Added, Owned, Server
    <3> QED
      BY <1>2, <2>2, <3>1 DEF ServerChange
  <2> QED
    BY <1>1, <2>2, <2>3
<1> QED
  BY <1>3, <1>4, <1>5

LEMMA RemovedServer ==
    ASSUME RelationalInv, NEW w \in Workers, DropDatabase(w) \/ DropUser(w)
    PROVE  ServerChange
<1> DEFINE k == call[w].name
           i == info[w]
<1>1. CASE Alone
  BY <1>1 DEF ServerChange
<1>2. ASSUME NEW statement \in {"dropDatabase", "dropUser"}, Holds(w, statement)
      PROVE  /\ k \in Names /\ i /= None /\ server.rows[k] = i /\ server \in Server
             /\ call[w] = [op |-> "drop", name |-> k]
  <2>1. /\ todo[w] /= <<>> /\ Head(todo[w]) = statement /\ call[w] \in Calls
        /\ server \in Server
    BY <1>2, HoldsShape
  <2>2. call[w].op = "drop" /\ Dropping(server, k, todo[w], i)
    BY <1>2, <2>1, HoldsShape, CreatingShape, OtherShape
  <2>3. i /= None /\ server.rows[k] = i
    BY <2>1, <2>2, DroppingShape
  <2> QED
    BY <2>1, <2>2, <2>3, CallTypes
<1>3. CASE DropDatabase(w)
  <2> DEFINE new == [server EXCEPT
                    !.databases = @ \ {info[w].dbname},
                    !.grants = IF server.type = "postgres" THEN @ \ {Owned(w)} ELSE @]
  <2>1. Plain(w, "dropDatabase", new)
    BY <1>3 DEF DropDatabase
  <2>2. Holds(w, "dropDatabase") /\ (Alone \/ server' = new)
    BY <2>1, PlainServer
  <2>3. CASE server' = new
    <3>1. Owned(w)[1] = i.user
      BY DEF Owned
    <3>2. /\ server'.rows = server.rows /\ server'.accounts = server.accounts
          /\ server'.databases = server.databases \ {i.dbname}
          /\ server'.grants \in {server.grants, server.grants \ {Owned(w)}}
      BY <1>2, <2>2, <2>3 DEF Server
    <3>3. Removed(k)
      BY <1>2, <2>2, <3>1, <3>2 DEF Removed
    <3> QED
      BY <1>2, <2>2, <3>3 DEF ServerChange
  <2> QED
    BY <1>1, <2>2, <2>3
<1>4. CASE DropUser(w)
  <2> DEFINE new == [server EXCEPT
                    !.accounts = @ \ {info[w].user},
                    !.grants = {g \in @ : g[1] /= info[w].user}]
  <2>1. Plain(w, "dropUser", new)
    BY <1>4 DEF DropUser
  <2>2. Holds(w, "dropUser") /\ (Alone \/ server' = new)
    BY <2>1, PlainServer
  <2>3. CASE server' = new
    <3>1. /\ server'.rows = server.rows /\ server'.databases = server.databases
          /\ server'.accounts = server.accounts \ {i.user}
          /\ server'.grants = {g \in server.grants : g[1] /= i.user}
      BY <1>2, <2>2, <2>3 DEF Server
    <3>2. Removed(k)
      BY <1>2, <2>2, <3>1 DEF Removed
    <3> QED
      BY <1>2, <2>2, <3>2 DEF ServerChange
  <2> QED
    BY <1>1, <2>2, <2>3
<1> QED
  BY <1>3, <1>4

LEMMA OtherServer ==
    ASSUME RelationalInv, NEW w \in Workers,
           Use(w) \/ Select(w) \/ SelectRole(w) \/ CreateSchema(w) \/ CreateTable(w) \/ Query(w)
    PROVE  Alone
<1>1. server \in Server
  BY DEF RelationalInv, TypeInv
<1>2. CASE Use(w) \/ Select(w) \/ SelectRole(w)
  BY <1>2 DEF Use, Select, SelectRole, Executed, Refused, Alone
<1>3. CASE CreateSchema(w)
  BY <1>1, <1>3, PlainServer DEF CreateSchema, Alone, Server
<1>4. CASE CreateTable(w)
  BY <1>1, <1>4, PlainServer DEF CreateTable, Refused, Alone, Server
<1>5. CASE Query(w)
  BY <1>5, PlainServer DEF Query, Alone
<1> QED
  BY <1>2, <1>3, <1>4, <1>5

LEMMA NextServer == RelationalInv /\ [Next]_vars => ServerChange
<1> SUFFICES ASSUME RelationalInv, [Next]_vars PROVE ServerChange
  OBVIOUS
<1>1. ASSUME NEW w \in Workers, Statement(w) PROVE ServerChange
  BY <1>1, InsertedServer, AddedServer, RemovedServer, OtherServer DEF Statement, ServerChange
<1>2. CASE UNCHANGED server
  BY <1>2 DEF Alone, ServerChange
<1>3. CASE \E w \in Workers :
            (\E c \in Calls, i \in Seeds \cup {None} : Begin(w, c, i)) \/ Take(w) \/ Return(w)
  BY <1>2, <1>3 DEF Begin, Take, Return
<1>4. CASE Expire \/ Crash \/ UNCHANGED vars
  BY <1>2, <1>4 DEF Expire, Crash, vars
<1> QED
  BY <1>1, <1>3, <1>4 DEF Next

\* What is on the server for one row is not on it for another.
LEMMA RowsApart ==
    ASSUME RelationalInv, NEW j \in Names, NEW k \in Names, j /= k,
           server.rows[j] /= None, server.rows[k] /= None
    PROVE  server.rows[j].user /= server.rows[k].user /\ server.rows[j].dbname /= server.rows[k].dbname
BY DEF RelationalInv, ServerInv

LEMMA UsableKeptStep ==
    ASSUME RelationalInv, [Next]_vars, NEW k \in Names, server.rows[k] /= None,
           Usable(server.rows[k]),
           \A w \in Workers : call[w] /= None => call[w] /= [op |-> "drop", name |-> k]
    PROVE  Usable(server.rows[k])'
<1> DEFINE i == server.rows[k]
<1> SUFFICES /\ server'.rows[k] = i /\ i.dbname \in server'.databases
             /\ i.user \in server'.accounts /\ <<i.user, i.dbname>> \in server'.grants
  BY DEF Usable
<1>1. /\ i.dbname \in server.databases /\ i.user \in server.accounts
      /\ <<i.user, i.dbname>> \in server.grants /\ server \in Server
  BY DEF Usable, RelationalInv, TypeInv
<1>2. CASE Alone
  BY <1>1, <1>2 DEF Alone
<1>3. ASSUME NEW j \in Names, Inserted(j) PROVE j /= k /\ server'.rows[k] = i
  BY <1>1, <1>3 DEF Inserted, Unique, Server
<1>4. CASE \E j \in Names : Inserted(j)
  BY <1>1, <1>3, <1>4 DEF Inserted
<1>5. CASE \E j \in Names : Added(j)
  BY <1>1, <1>5 DEF Added
<1>6. ASSUME NEW w \in Workers, NEW j \in Names,
             call[w] = [op |-> "drop", name |-> j], Removed(j)
      PROVE  /\ server'.rows[k] = i /\ i.dbname \in server'.databases
             /\ i.user \in server'.accounts /\ <<i.user, i.dbname>> \in server'.grants
  <2>1. j /= k
    <3>1. call[w] \in Calls
      <4>1. call[w] \in Calls \cup {None}
        BY DEF RelationalInv, TypeInv
      <4>2. [op |-> "drop", name |-> j] \in Calls
        BY DEF Calls, Named
      <4> QED
        BY <1>6, <4>2
    <3> QED
      BY <1>6, <3>1, CallTypes
  <2>2. server.rows[j] /= None
    BY <1>6 DEF Removed
  <2>3. i.user /= server.rows[j].user /\ i.dbname /= server.rows[j].dbname
    BY <2>1, <2>2, RowsApart
  <2>4. <<i.user, i.dbname>>[1] /= server.rows[j].user
    BY <2>3
  <2> QED
    BY <1>1, <1>6, <2>3, <2>4 DEF Removed
<1> QED
  BY <1>2, <1>4, <1>5, <1>6, NextServer DEF ServerChange

\* The database of a name is lost to a call that drops it, never to a call about
\* another name, a statement that fails or a crash.
THEOREM UsableKeptCorrect == Spec => UsableKept
<1>1. RelationalInv /\ [Next]_vars =>
        [\A k \in Names :
            /\ server.rows[k] /= None
            /\ Usable(server.rows[k])
            /\ \A w \in Workers : call[w] /= None => call[w] /= [op |-> "drop", name |-> k]
            => Usable(server.rows[k])']_vars
  BY UsableKeptStep
<1> QED
  BY <1>1, RelationalInvCorrect, PTL DEF Spec, UsableKept

-----------------------------------------------------------------------------
(* The statements implement DatabaseServer.                                *)

\* No two seeds share a user or a database.  Nothing in the code sees to it, and
\* without it a statement for one takes away what the other needs.
SeedsApart ==
    \A i, j \in Seeds : i /= j => i.user /= j.user /\ i.dbname /= j.dbname

\* What opens a database is a row or a seed.
LEMMA UsableKnown ==
    ASSUME RelationalInv, NEW i \in Infos, HasGrant(server, i)
    PROVE  i \in Seeds \/ \E k \in Names : server.rows[k] /= None /\ i = server.rows[k]
<1>1. server \in Server
  BY DEF RelationalInv, TypeInv
<1>2. CASE \E k \in Names : /\ server.rows[k] /= None
                            /\ <<i.user, i.dbname>> = <<server.rows[k].user, server.rows[k].dbname>>
  BY <1>1, <1>2, RowTypes, InfoEqual
<1>3. CASE \E s \in Seeds : <<i.user, i.dbname>> = <<s.user, s.dbname>>
  BY <1>3, InfoEqual DEF Infos
<1> QED
  BY <1>2, <1>3 DEF RelationalInv, ServerInv, HasGrant

\* It has nothing in common with a row that is not it.
LEMMA UsableApart ==
    ASSUME SeedsApart, RelationalInv, NEW k \in Names, server.rows[k] /= None,
           NEW i \in Infos, HasGrant(server, i), i /= server.rows[k]
    PROVE  i.user /= server.rows[k].user /\ i.dbname /= server.rows[k].dbname
<1>1. server.rows[k] \in Infos
  BY RowTypes DEF RelationalInv, TypeInv
<1>2. CASE i \in Seeds
  BY <1>1, <1>2, InfosAssumption DEF SeedsApart, InfosAssumption, Infos
<1>3. CASE \E j \in Names : server.rows[j] /= None /\ i = server.rows[j]
  BY <1>3, RowsApart
<1> QED
  BY <1>2, <1>3, UsableKnown

\* The credentials that open a database.
Usables(s) == {i \in Infos : HasDatabase(s, i) /\ HasUser(s, i) /\ HasGrant(s, i)}

LEMMA ServerStep ==
    ASSUME SeedsApart, RelationalInv, ServerChange
    PROVE  \/ server'.rows = server.rows /\ Usables(server') = Usables(server)
           \/ \E k \in Names :
                /\ server.rows[k] = None /\ Usables(server') = Usables(server)
                /\ \E i \in Infos :
                    /\ \A j \in Names : server.rows[j] /= i
                    /\ server'.rows = [server.rows EXCEPT ![k] = i]
           \/ \E k \in Names :
                /\ server.rows[k] /= None /\ server'.rows = server.rows
                /\ Usables(server') \in
                    {Usables(server) \cup {server.rows[k]}, Usables(server) \ {server.rows[k]}}
<1>1. CASE Alone
  BY <1>1 DEF Alone, Usables, HasDatabase, HasUser, HasGrant
<1>2. ASSUME NEW k \in Names, Inserted(k)
      PROVE  /\ server.rows[k] = None /\ Usables(server') = Usables(server)
             /\ \E i \in Infos :
                    /\ \A j \in Names : server.rows[j] /= i
                    /\ server'.rows = [server.rows EXCEPT ![k] = i]
  <2>1. Usables(server') = Usables(server)
    BY <1>2 DEF Inserted, Usables, HasDatabase, HasUser, HasGrant
  <2>2. PICK i \in Infos : Unique(k, i) /\ server'.rows = [server.rows EXCEPT ![k] = i]
    BY <1>2 DEF Inserted
  <2>3. server.rows[k] = None /\ \A j \in Names : server.rows[j] /= i
    BY <2>2, InfoTypes DEF Unique
  <2> QED
    BY <2>1, <2>2, <2>3
<1>3. ASSUME NEW k \in Names, Added(k) \/ Removed(k)
      PROVE  /\ server.rows[k] /= None /\ server'.rows = server.rows
             /\ Usables(server') \in
                    {Usables(server) \cup {server.rows[k]}, Usables(server) \ {server.rows[k]}}
  <2> DEFINE i == server.rows[k]
  <2>1. i /= None /\ server'.rows = server.rows
    BY <1>3 DEF Added, Removed
  <2>2. i \in Infos
    BY <2>1, RowTypes DEF RelationalInv, TypeInv
  <2>3. ASSUME NEW o \in Infos, o /= i PROVE o \in Usables(server') <=> o \in Usables(server)
    <3>1. <<o.user, o.dbname>> /= <<i.user, i.dbname>>
      BY <2>2, <2>3, InfoEqual
    <3>2. CASE HasGrant(server, o)
      <4>1. o.user /= i.user /\ o.dbname /= i.dbname
        BY <2>1, <2>3, <3>2, UsableApart
      <4>2. <<o.user, o.dbname>>[1] /= i.user
        BY <4>1
      <4> QED
        BY <1>3, <3>1, <4>1, <4>2 DEF Added, Removed, Usables, HasDatabase, HasUser, HasGrant
    <3>3. CASE ~HasGrant(server, o)
      BY <1>3, <3>1, <3>3 DEF Added, Removed, Usables, HasGrant
    <3> QED
      BY <3>2, <3>3
  <2>4. Usables(server') \subseteq Infos /\ Usables(server) \subseteq Infos
    BY DEF Usables
  <2>5. CASE i \in Usables(server')
    <3>1. Usables(server') = Usables(server) \cup {i}
      BY <2>2, <2>3, <2>4, <2>5
    <3> QED
      BY <2>1, <3>1
  <2>6. CASE i \notin Usables(server')
    <3>1. Usables(server') = Usables(server) \ {i}
      BY <2>2, <2>3, <2>4, <2>6
    <3> QED
      BY <2>1, <3>1
  <2> QED
    BY <2>5, <2>6
<1> QED
  BY <1>1, <1>2, <1>3 DEF ServerChange

LEMMA AbstractInit == Init => Abstract!Init
<1> SUFFICES ASSUME Init PROVE Abstract!Init
  OBVIOUS
<1>1. /\ server.rows = [k \in Names |-> None]
      /\ server.databases = {i.dbname : i \in Seeds} /\ server.accounts = {i.user : i \in Seeds}
      /\ server.grants = {<<i.user, i.dbname>> : i \in Seeds}
  BY DEF Init
<1>2. ASSUME NEW i \in Infos, <<i.user, i.dbname>> \in server.grants PROVE i \in Seeds
  <2>1. PICK s \in Seeds : <<i.user, i.dbname>> = <<s.user, s.dbname>>
    BY <1>1, <1>2
  <2> QED
    BY <2>1, InfoEqual DEF Infos
<1>3. {i \in Infos : Usable(i)} = Seeds
  BY <1>1, <1>2 DEF Usable, Infos
<1> QED
  BY <1>1, <1>3 DEF Abstract!Init

\* A statement is a step of DatabaseServer, or none.
LEMMA AbstractStep ==
    ASSUME SeedsApart, RelationalInv, [Next]_vars
    PROVE  [Abstract!Next]_(Abstract!vars)
<1>1. {i \in Infos : Usable(i)} = Usables(server)
  BY DEF Usables, Usable, HasDatabase, HasUser, HasGrant
<1>2. {i \in Infos : Usable(i)}' = Usables(server')
  BY DEF Usables, Usable, HasDatabase, HasUser, HasGrant
<1>3. CASE server'.rows = server.rows /\ Usables(server') = Usables(server)
  BY <1>1, <1>2, <1>3 DEF Abstract!vars
<1>4. ASSUME NEW k \in Names, server.rows[k] = None, Usables(server') = Usables(server),
             NEW i \in Infos, \A j \in Names : server.rows[j] /= i,
             server'.rows = [server.rows EXCEPT ![k] = i]
      PROVE  Abstract!Next
  <2>1. Abstract!Row(k)
    BY <1>4 DEF Abstract!Row
  <2> QED
    BY <1>1, <1>2, <1>4, <2>1 DEF Abstract!Next, Abstract!Call
<1>5. ASSUME NEW k \in Names, server.rows[k] /= None, server'.rows = server.rows,
             Usables(server') \in
                {Usables(server) \cup {server.rows[k]}, Usables(server) \ {server.rows[k]}}
      PROVE  Abstract!Next
  <2>1. Abstract!Row(k)
    BY <1>5 DEF Abstract!Row
  <2> QED
    BY <1>1, <1>2, <1>5, <2>1 DEF Abstract!Next, Abstract!Call
<1> QED
  BY <1>3, <1>4, <1>5, NextServer, ServerStep

\* On either type of server the statements of the client, interleaved, failing
\* half-way and cut off by a crash, do what the requests rely on: a name gets its
\* row once, and only its own calls make and drop its database.
THEOREM ImplementsCorrect ==
    ASSUME SeedsApart
    PROVE  Spec => Implements
<1>1. Init => Abstract!Init
  BY AbstractInit
<1>2. RelationalInv /\ [Next]_vars => [Abstract!Next]_(Abstract!vars)
  BY AbstractStep
<1> QED
  BY <1>1, <1>2, RelationalInvCorrect, PTL DEF Spec, Implements, Abstract!Spec
=============================================================================
