------------------------- MODULE DatabaseRequestServer -------------------------
(***************************************************************************)
(* The requests and the database servers together: what the controller does *)
(* on each connection is a behaviour of DatabaseServer, the specification   *)
(* RelationalDatabase implements with SQL statements.  So the steps in      *)
(* which DatabaseRequest takes a whole call of the client, or a part of one *)
(* that failed, are steps its statements can make.                          *)
(***************************************************************************)
EXTENDS DatabaseRequest

On(n) ==
    INSTANCE DatabaseServer WITH
        Names <- Requests,
        SeedDatabases <- {cred \in Credentials : <<n, cred>> \in SeedDatabases},
        users <- [k \in Requests |-> users[<<n, k>>]],
        databases <- {cred \in Credentials : <<n, cred>> \in databases}

\* On every connection the users table gives each request credentials once and
\* for all, of no other request, and a reconcile makes or drops the database of
\* its own request's row only (the calls of relationalDatabaseOperation).
ServersUsed ==
    /\ \A n \in Connections : On(n)!Init
    /\ [][\A n \in Connections : On(n)!Next \/ UNCHANGED On(n)!vars]_vars
=============================================================================
