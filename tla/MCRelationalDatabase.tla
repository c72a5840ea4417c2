------------------------- MODULE MCRelationalDatabase -------------------------
(***************************************************************************)
(* Instances of RelationalDatabase for TLC.  Two of the draws have the same *)
(* user and two the same database name, so that inserts collide.           *)
(***************************************************************************)
EXTENDS RelationalDatabase, TLC

CONSTANTS w1, w2, k1, k2, c1, c2

Draw(user, dbname) == [user |-> user, dbname |-> dbname]

Colliding == {Draw("u1", "d1"), Draw("u1", "d2"), Draw("u2", "d2")}
OneSeed == {Draw("s1", "e1")}

\* Nothing tells one name, worker or session from another.
Symmetric == Permutations(Names) \cup Permutations(Workers) \cup Permutations(Sessions)
=============================================================================
