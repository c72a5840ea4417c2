------------------------ MODULE DatabaseRequestObject ------------------------
(***************************************************************************)
(* The DatabaseRequest custom resource and what the API server and the     *)
(* JSON decoder of the client do with it.                                  *)
(*                                                                         *)
(* An object has metadata (uid, resourceVersion, generation, whether the   *)
(* deletion timestamp and the controller's finalizer are set), a spec and  *)
(* a status.  The status is a subresource: Update writes the metadata and  *)
(* the spec, Status().Update writes the status, each leaves the other part *)
(* alone, and the generation counts changes of the spec.                   *)
(*                                                                         *)
(* Abstracted: the selector, the service name and the additional users (no *)
(* action changes them), status.databaseInfo (a metrics label), and the    *)
(* texts of the conditions.  The Error condition is set exactly with       *)
(* Ready=False and removed exactly before Ready=True, so "ready" stands    *)
(* for both; its values name the status and the reason of Ready.           *)
(***************************************************************************)
EXTENDS Naturals

CONSTANTS
    Connections,    \* the connections of all relational database providers
    None            \* a nil pointer, an absent row, an absent object

ASSUME NoneAssumption == None \notin Connections

MutantRelationalTypes == {"mysql", "postgres", "mariadb"}     \* an alias of MySQL
RelationalTypes == {"mysql", "postgres"}
Types == RelationalTypes \cup {"mariadb", "mongodb"}

\* The CRD's default of spec.dropDatabaseOnDelete.
DropDefault == TRUE

ReadyReasons == {"Created", "Changed"}     \* Ready=True, by reason

Object == [
    exists               : BOOLEAN,
    uid                  : Nat,
    resourceVersion      : Nat,
    generation           : Nat,
    deleting             : BOOLEAN,
    finalizer            : BOOLEAN,
    type                 : Types,
    seed                 : BOOLEAN,
    connectionReference  : Connections \cup {None},
    dropDatabaseOnDelete : BOOLEAN,
    ready                : ReadyReasons \cup {"unset", "Failed"},
    observedGeneration   : Nat,
    observedReference    : Connections \cup {None}]

\* The store without the object, after resource version rv.
Absent(rv) == [
    exists |-> FALSE, uid |-> 0, resourceVersion |-> rv, generation |-> 0,
    deleting |-> FALSE, finalizer |-> FALSE, type |-> "mysql", seed |-> FALSE,
    connectionReference |-> None, dropDatabaseOnDelete |-> DropDefault,
    ready |-> "unset", observedGeneration |-> 0, observedReference |-> None]

\* The object a user creates; its uid is the resource version of the creation.
Created(rv, type, seed, reference, drop) ==
    [Absent(rv + 1) EXCEPT
        !.exists = TRUE, !.uid = rv + 1, !.generation = 1, !.type = type,
        !.seed = seed, !.connectionReference = reference,
        !.dropDatabaseOnDelete = drop]

-----------------------------------------------------------------------------
\* A write that changes nothing keeps the resource version.
Written(current, new) ==
    IF new = current
    THEN current
    ELSE [new EXCEPT !.resourceVersion = current.resourceVersion + 1]

\* The JSON encoder drops a FALSE dropDatabaseOnDelete (omitempty) and the API
\* server gives the absent field the default of the CRD.
EncodedDrop(drop) == drop \/ DropDefault

SameSpec(a, b) ==
    /\ a.seed = b.seed
    /\ a.connectionReference = b.connectionReference
    /\ a.dropDatabaseOnDelete = b.dropDatabaseOnDelete

\* Update: finalizers and spec of "new" over "current"; an object that is being
\* deleted goes when its last finalizer does.
PutObject(current, new) ==
    LET stored == [current EXCEPT
            !.finalizer = new.finalizer,
            !.seed = new.seed,
            !.connectionReference = new.connectionReference,
            !.dropDatabaseOnDelete = EncodedDrop(new.dropDatabaseOnDelete)]
    IN  IF current.deleting /\ ~new.finalizer
        THEN Absent(current.resourceVersion + 1)
        ELSE Written(current,
                IF SameSpec(current, stored)
                THEN stored
                ELSE [stored EXCEPT !.generation = current.generation + 1])

\* Status().Update: the status of "new" over "current".
PutStatus(current, new) ==
    Written(current,
        [current EXCEPT
            !.ready = new.ready,
            !.observedGeneration = new.observedGeneration,
            !.observedReference = new.observedReference])

\* The answer to a write is decoded into the object in memory: a field the
\* answer omits (nil, zero or no condition) keeps the value it has in memory.
Decode(answer, memory) ==
    [answer EXCEPT
        !.connectionReference = IF @ = None THEN memory.connectionReference ELSE @,
        !.ready = IF @ = "unset" THEN memory.ready ELSE @,
        !.observedGeneration = IF @ = 0 THEN memory.observedGeneration ELSE @,
        !.observedReference = IF @ = None THEN memory.observedReference ELSE @]

\* DELETE by a user: with a finalizer the object only starts being deleted.
Deleted(current) ==
    IF current.finalizer
    THEN [current EXCEPT
            !.deleting = TRUE,
            !.generation = @ + 1,
            !.resourceVersion = @ + 1]
    ELSE Absent(current.resourceVersion + 1)

\* A user's edit: the spec changes, so the generation does.
Edited(new) ==
    [new EXCEPT !.generation = @ + 1, !.resourceVersion = @ + 1]
=============================================================================
