---------------------------- MODULE DatabaseServer ----------------------------
(***************************************************************************)
(* What the requests rely on in one database server: the users table gives *)
(* each name credentials of its own, once and for all, and a call about a  *)
(* name makes or drops the database of these credentials and no other.     *)
(*                                                                         *)
(* The statements of RelationalDatabase implement this, and the steps of   *)
(* DatabaseRequest are, for each connection, steps of it.                  *)
(***************************************************************************)
CONSTANTS
    Names,          \* the names (with namespace) of requests
    Credentials,    \* username, password and database name, drawn or brought
    SeedDatabases,  \* the credentials of databases that are there before
    None

VARIABLES
    users,          \* the users table: the credentials of a name, or None
    databases       \* the credentials with which a database can be used

vars == <<users, databases>>

Init ==
    /\ users = [k \in Names |-> None]
    /\ databases = SeedDatabases

\* A row is inserted once; no two names have the same.
Row(k) ==
    \/ UNCHANGED users
    \/ /\ users[k] = None
       /\ \E cred \in Credentials :
            /\ \A j \in Names : users[j] /= cred
            /\ users' = [users EXCEPT ![k] = cred]

Call(k) ==
    /\ Row(k)
    /\ \/ UNCHANGED databases
       \/ /\ users'[k] /= None
          /\ databases' \in {databases \cup {users'[k]}, databases \ {users'[k]}}

Next == \E k \in Names : Call(k)

Spec == Init /\ [][Next]_vars
=============================================================================
