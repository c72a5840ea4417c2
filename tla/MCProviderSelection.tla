-------------------------- MODULE MCProviderSelection --------------------------
(***************************************************************************)
(* Instances of ProviderSelection for TLC: the specs users apply.  A user   *)
(* who lets a name stand for another server loses the databases of it, so   *)
(* within a provider a name keeps its server.                               *)
(***************************************************************************)
EXTENDS ProviderSelection

CONSTANTS a, b, p, q, s1, s2

Offering(connections) == [exists |-> TRUE, matches |-> TRUE, connections |-> connections]
Hidden(provider) == [provider EXCEPT !.matches = FALSE]
On(name, server, enabled) == [name |-> name, server |-> server, enabled |-> enabled]

\* p has two connections, of which users disable one and change the order; q has
\* one of the same name for another server, and is for these requests or not.
AllSpecs ==
    p :> {Offering(<<On(a, s1, TRUE), On(b, s2, TRUE)>>),
          Offering(<<On(b, s2, TRUE), On(a, s1, FALSE)>>)}
    @@ q :> {Offering(<<On(a, s2, TRUE)>>), Hidden(Offering(<<On(a, s2, TRUE)>>))}
=============================================================================
