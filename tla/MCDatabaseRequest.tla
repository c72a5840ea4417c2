-------------------------- MODULE MCDatabaseRequest --------------------------
(***************************************************************************)
(* Instances of DatabaseRequest for TLC: who the requests and connections  *)
(* are, which specs users apply, and how many faults and operations there  *)
(* may be.  The cfg files choose among these definitions.                  *)
(***************************************************************************)
EXTENDS DatabaseRequestServer, TLC

CONSTANTS n1, n2, r1, r2, s1

One == {n1}
Two == {n1, n2}

Plain(type, drop) ==
    [type |-> type, seed |-> None, reference |-> None, drop |-> drop]
Seeded(type, conn, cred) ==
    [Plain(type, TRUE) EXCEPT !.seed = <<conn, cred>>]

MySQL == {Plain("mysql", TRUE)}
KeepDatabase == {Plain("mysql", FALSE)}
NoSeeds == {}

\* A seed secret of a database on n1; the same one for every request.
SeedUsers == {s1}
SeedOnN1 == {<<n1, s1>>}
SeededSpecs == {Seeded("mysql", n1, s1)}
SeededOrPlain == MySQL \cup SeededSpecs

\* Seeds on the connection of the pool and on one no selector matches.
SeedOnBoth == {<<n1, s1>>, <<n2, s1>>}
SeededAnywhere == {Seeded("mysql", n, s1) : n \in Two}
PlainOrSeededAnywhere == MySQL \cup SeededAnywhere

\* Types without a client, with and without a reference set by the user.
Referring(type, conn) == [Plain(type, TRUE) EXCEPT !.reference = conn]
Unsupported ==
    {Plain(type, drop) : type \in {"mongodb", "mariadb"}, drop \in BOOLEAN}
        \cup {Referring("mongodb", n1), Referring("mariadb", n1)}
AllTypes == MySQL \cup Unsupported

\* Nothing tells one request from the other where both get the same specs.
Symmetric == Permutations(Requests)
=============================================================================
