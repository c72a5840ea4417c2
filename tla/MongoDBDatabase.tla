---------------------------- MODULE MongoDBDatabase ----------------------------
(***************************************************************************)
(* The MongoDB client, command by command, on one server: CreateUser-       *)
(* AndDatabase, DropUserAndDatabase and GetUser.  No controller calls them  *)
(* yet; calls about one name are taken not to overlap, as those of the      *)
(* request controller do not, and a call that failed may be made again.    *)
(*                                                                         *)
(* The collection "users" of dbaas_controller has a document for each name, *)
(* which says what the name's database and account are called.  It has no   *)
(* unique index; names are random.                                         *)
(***************************************************************************)
EXTENDS Naturals, Sequences, SequencesExt

CONSTANTS
    Names,          \* the names (with namespace) of requests
    Workers,        \* goroutines that call the client
    Draws,          \* what createMongoDBUserInfo may draw for each name
    None,
    MaxFaults,      \* bound on commands that fail and restarts
    MaxCalls        \* bound on calls

Infos == UNION {Draws[k] : k \in Names}
Databases == {i.dbname : i \in Infos}

\* A namespace of 63 characters leaves the name of a database a negative length
\* of random ones: nothing can be drawn.
ASSUME DrawsAssumption ==
    /\ DOMAIN Draws = Names
    /\ \A i \in Infos : DOMAIN i = {"user", "dbname"}

\* Users are 16 random characters and databases a namespace and random ones: two
\* draws have neither in common (a namespace of 62 characters leaves none random,
\* and is not among the names).
ASSUME DistinctAssumption ==
    /\ \A j, k \in Names : j /= k => Draws[j] \cap Draws[k] = {}
    /\ \A i, j \in Infos : i /= j => i.user /= j.user /\ i.dbname /= j.dbname

ASSUME BoundsAssumption == MaxFaults \in Nat /\ MaxCalls \in Nat

VARIABLES
    server,         \* the documents of "users", the databases that exist, and the
                    \* users of "admin", each with the role for its database
    drawn,          \* what was drawn so far: random, so never again
    call,           \* what each worker is about: [op, name] or None
    todo,           \* the commands its call has left
    info,           \* what it found, or drew
    faults, calls

vars == <<server, drawn, call, todo, info, faults, calls>>

MutantCreate == <<"find", "upsert", "usersInfo", "createUser">>
Create == <<"find", "insertInit", "upsert", "usersInfo", "createUser">>

MutantDrop == <<"find", "dropUser", "deleteOne">>
MutantDropOrder == <<"find", "deleteOne", "dropDatabase", "dropUser">>
Drop == <<"find", "dropDatabase", "dropUser", "deleteOne">>

Program == [create |-> Create, drop |-> Drop, get |-> <<"find">>]

Server == [
    documents : [Names -> Infos \cup {None}],
    databases : SUBSET Databases,
    accounts  : SUBSET Infos]

Calls == [op : DOMAIN Program, name : Names]

ASSUME NoneAssumption == None \notin Infos \cup Calls

TypeOK ==
    /\ server \in Server
    /\ drawn \subseteq Infos
    /\ call \in [Workers -> Calls \cup {None}]
    /\ info \in [Workers -> Infos \cup {None}]
    /\ \A w \in Workers :
        IF call[w] = None
        THEN todo[w] = <<>> /\ info[w] = None
        ELSE IsSuffix(todo[w], Program[call[w].op])
    /\ faults \in 0 .. MaxFaults
    /\ calls \in 0 .. MaxCalls

Init ==
    /\ server = [documents |-> [k \in Names |-> None], databases |-> {}, accounts |-> {}]
    /\ drawn = {}
    /\ call = [w \in Workers |-> None]
    /\ todo = [w \in Workers |-> <<>>]
    /\ info = [w \in Workers |-> None]
    /\ faults = 0
    /\ calls = 0

-----------------------------------------------------------------------------
(* Calls.                                                                  *)

Fault == faults < MaxFaults /\ faults' = faults + 1

Begin(w, c) ==
    /\ call[w] = None
    /\ calls < MaxCalls
    /\ \A v \in Workers : call[v] /= None => call[v].name /= c.name
    /\ call' = [call EXCEPT ![w] = c]
    /\ todo' = [todo EXCEPT ![w] = Program[c.op]]
    /\ calls' = calls + 1
    /\ UNCHANGED <<server, drawn, info, faults>>

MutantOver(w) ==                    \* what it found is found by the next call
    /\ call' = [call EXCEPT ![w] = None]
    /\ todo' = [todo EXCEPT ![w] = <<>>]
    /\ UNCHANGED info

Over(w) ==
    /\ call' = [call EXCEPT ![w] = None]
    /\ todo' = [todo EXCEPT ![w] = <<>>]
    /\ info' = [info EXCEPT ![w] = None]

\* The call has succeeded.
Return(w) ==
    /\ call[w] /= None
    /\ todo[w] = <<>>
    /\ Over(w)
    /\ UNCHANGED <<server, drawn, faults, calls>>

-----------------------------------------------------------------------------
(* Commands.                                                               *)

Holds(w, command) == todo[w] /= <<>> /\ Head(todo[w]) = command

Name(w) == call[w].name

Proceed(w) == todo' = [todo EXCEPT ![w] = Tail(@)]

\* The command runs and the call goes on as "rest" says; or it fails, before or
\* after it took effect, and the call with it.
Executed(w, command, new, rest) ==
    /\ Holds(w, command)
    /\ \/ server' = new /\ rest /\ UNCHANGED <<call, faults>>
       \/ server' \in {server, new} /\ Fault /\ Over(w) /\ UNCHANGED drawn
    /\ UNCHANGED calls

Plain(w, command, new) ==
    Executed(w, command, new, Proceed(w) /\ UNCHANGED <<drawn, info>>)

\* The call fails, on what it was answered.
Refused(w, command) ==
    /\ Holds(w, command)
    /\ Over(w)
    /\ UNCHANGED <<server, drawn, faults, calls>>

\* The documents a filter on name and namespace finds.
MutantFiltered(k) == {server.documents[j] : j \in Names} \ {None}

Filtered(k) == {server.documents[k]} \ {None}

Takes(w, i) == info' = [info EXCEPT ![w] = i]

\* GetUser.  A call that creates draws what it does not find, unless it panics;
\* one that drops has nothing to do then.
Find(w) ==
    /\ Holds(w, "find")
    /\ \/ /\ Filtered(Name(w)) /= {}
          /\ \E i \in Filtered(Name(w)) :
               Executed(w, "find", server, Proceed(w) /\ Takes(w, i) /\ UNCHANGED drawn)
       \/ /\ Filtered(Name(w)) = {}
          /\ call[w].op = "create"
          /\ \E i \in Draws[Name(w)] \ drawn :
               Executed(w, "find", server, Proceed(w) /\ Takes(w, i) /\ drawn' = drawn \cup {i})
       \/ /\ Filtered(Name(w)) = {}
          /\ call[w].op = "create"
          /\ Draws[Name(w)] = {}
          /\ Refused(w, "find")
       \/ /\ Filtered(Name(w)) = {}
          /\ call[w].op = "drop"
          /\ Executed(w, "find", server,
               todo' = [todo EXCEPT ![w] = <<>>] /\ UNCHANGED <<drawn, info>>)
       \/ /\ Filtered(Name(w)) = {}
          /\ call[w].op = "get"
          /\ Refused(w, "find")

\* A document in the collection "init" makes the database exist.
InsertInit(w) ==
    Plain(w, "insertInit", [server EXCEPT !.databases = @ \cup {info[w].dbname}])

\* FindOneAndUpdate with $setOnInsert and upsert: a document that is there stays
\* and is answered, none is no error.
Upsert(w) ==
    /\ Holds(w, "upsert")
    /\ \/ /\ Filtered(Name(w)) = {}
          /\ Plain(w, "upsert", [server EXCEPT !.documents[Name(w)] = info[w]])
       \/ \E i \in Filtered(Name(w)) :
           Executed(w, "upsert", server, Proceed(w) /\ Takes(w, i) /\ UNCHANGED drawn)

HasAccount(w) == \E i \in server.accounts : i.user = info[w].user

\* An account that is there is left as it is, and the call has succeeded.
UsersInfo(w) ==
    Executed(w, "usersInfo", server,
        /\ todo' = [todo EXCEPT ![w] = IF HasAccount(w) THEN <<>> ELSE Tail(@)]
        /\ UNCHANGED <<drawn, info>>)

CreateUser(w) ==
    /\ Holds(w, "createUser")
    /\ IF HasAccount(w)
       THEN Refused(w, "createUser")
       ELSE Plain(w, "createUser", [server EXCEPT !.accounts = @ \cup {info[w]}])

DropDatabase(w) ==
    Plain(w, "dropDatabase", [server EXCEPT !.databases = @ \ {info[w].dbname}])

\* dropUser fails when there is no such user.
DropUser(w) ==
    /\ Holds(w, "dropUser")
    /\ IF HasAccount(w)
       THEN Plain(w, "dropUser",
                [server EXCEPT !.accounts = {i \in @ : i.user /= info[w].user}])
       ELSE Refused(w, "dropUser")

DeleteOne(w) ==
    /\ Holds(w, "deleteOne")
    /\ IF Filtered(Name(w)) = {}
       THEN Refused(w, "deleteOne")
       ELSE Plain(w, "deleteOne", [server EXCEPT !.documents[Name(w)] = None])

Crash ==
    /\ Fault
    /\ call' = [w \in Workers |-> None]
    /\ todo' = [w \in Workers |-> <<>>]
    /\ info' = [w \in Workers |-> None]
    /\ UNCHANGED <<server, drawn, calls>>

-----------------------------------------------------------------------------
Command(w) ==
    \/ Find(w)
    \/ InsertInit(w) \/ Upsert(w) \/ UsersInfo(w) \/ CreateUser(w)
    \/ DropDatabase(w) \/ DropUser(w) \/ DeleteOne(w)

Next ==
    \/ \E w \in Workers :
        \/ \E c \in Calls : Begin(w, c)
        \/ Command(w) \/ Return(w)
    \/ Crash

Spec == Init /\ [][Next]_vars

-----------------------------------------------------------------------------
(* Properties.                                                             *)

\* The credentials open the database.
Usable(i) == i.dbname \in server.databases /\ i \in server.accounts

Succeeds(w, op) == call[w] /= None /\ call[w].op = op /\ todo[w] = <<>>

\* What CreateUserAndDatabase returns without an error opens a database and is
\* what the document of the name says, whatever creations and deletions have
\* failed halfway before it.
CreatedUsable ==
    \A w \in Workers :
        Succeeds(w, "create") =>
            Usable(info[w]) /\ info[w] = server.documents[call[w].name]

\* DropUserAndDatabase without an error leaves neither document nor database nor
\* account of what it found.
DroppedGone ==
    \A w \in Workers :
        Succeeds(w, "drop") =>
            /\ server.documents[call[w].name] = None
            /\ info[w] /= None =>
                info[w].dbname \notin server.databases /\ info[w] \notin server.accounts

\* The database of a name is not lost to a call about another name.
UsableKept ==
    [][\A k \in Names :
        LET i == server.documents[k]
        IN  /\ i /= None
            /\ Usable(i)
            /\ \A w \in Workers : call[w] /= None => call[w] /= [op |-> "drop", name |-> k]
            => Usable(i)']_vars

\* Documents come before accounts and go after them: no account is there that a
\* drop could not find, wherever calls have failed.  The same holds of databases
\* but for those of a creation that failed: they are made before the document.
NothingUnnamed ==
    /\ \A a \in server.accounts : \E k \in Names : server.documents[k] = a
    /\ \A d \in server.databases :
        \/ \E k \in Names : server.documents[k] /= None /\ server.documents[k].dbname = d
        \/ \E w \in Workers : Holds(w, "upsert") /\ info[w].dbname = d
        \/ faults > 0
=============================================================================
