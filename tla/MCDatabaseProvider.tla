-------------------------- MODULE MCDatabaseProvider --------------------------
(***************************************************************************)
(* Instances of DatabaseProvider for TLC: the specs users apply.            *)
(***************************************************************************)
EXTENDS DatabaseProvider

CONSTANTS a, b, s1, s2

On(name, server) == [name |-> name, server |-> server, enabled |-> TRUE]
Disabled(connection) == [connection EXCEPT !.enabled = FALSE]

\* One connection, two, one of two disabled, and two of one name.
AllSpecs == {
    <<On(a, s1)>>,
    <<Disabled(On(a, s1)), On(b, s2)>>,
    <<On(a, s1), On(a, s2)>>}
=============================================================================
