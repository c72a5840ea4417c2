--------------------------- MODULE MCMongoDBDatabase ---------------------------
(***************************************************************************)
(* Instances of MongoDBDatabase for TLC: two names that can draw, and one   *)
(* whose namespace is too long for it.                                     *)
(***************************************************************************)
EXTENDS MongoDBDatabase, TLC

CONSTANTS w1, w2, k1, k2, long

Draw(user, dbname) == [user |-> user, dbname |-> dbname]

RandomDraws ==
    k1 :> {Draw("u1", "d1"), Draw("u2", "d2")}
    @@ k2 :> {Draw("u3", "d3"), Draw("u4", "d4")}
    @@ long :> {}

Symmetric == Permutations(Workers)
=============================================================================
