--------------------------- MODULE ProviderSelection ---------------------------
(***************************************************************************)
(* How a DatabaseRequest finds its database server: by the loads of the     *)
(* connections of all matching providers when its database is created, and *)
(* by its reference when it is dropped.  Providers are edited and deleted   *)
(* meanwhile, and the provider controller initializes the servers.         *)
(*                                                                         *)
(* Every call is a step.  The writes of the request to the API server are  *)
(* one step here (DatabaseRequest has them in full), and so are the         *)
(* statements of a call to a server (RelationalDatabase has those, and      *)
(* ConnectionCache the pools they are sent over).                           *)
(***************************************************************************)
EXTENDS Naturals, FiniteSets, Sequences, SequencesExt

CONSTANTS
    Requests,       \* requests, of one type and selector, each with its worker
    Servers,        \* database servers, each with its password secret
    Providers,      \* names of providers
    Names,          \* names of connections
    Specs,          \* what users give each provider
    Loads,          \* loads a server may report
    MaxLoad,        \* the load a selection starts with, the largest integer
    None,           \* no reference
    MaxFaults,      \* bound on failing calls, outages and restarts
    MaxOperations   \* bound on what users do

Connection == [name : Names, server : Servers, enabled : BOOLEAN]

\* "matches": its type and selector are those of the requests.
Provider == [exists : BOOLEAN, matches : BOOLEAN, connections : Seq(Connection)]

NoProvider == [exists |-> FALSE, matches |-> FALSE, connections |-> <<>>]

ASSUME SelectionAssumption ==
    /\ IsFiniteSet(Providers)
    /\ None \notin Providers
    /\ Specs \in [Providers -> SUBSET Provider]
    /\ Loads \subseteq Nat
    /\ MaxLoad \in Nat
    /\ \A l \in Loads : l < MaxLoad

ASSUME BoundsAssumption == MaxFaults \in Nat /\ MaxOperations \in Nat

Reference == [provider : Providers, name : Names]

VARIABLES
    providers,      \* the providers, as the controllers' cache has them
    answering,      \* servers that answer, with a password secret
    initialized,    \* servers with the table of users
    databases,      \* for each server, the requests with a database on it
    wish,           \* what users want of a request
    reference,      \* its reference to a connection
    pc,             \* what its reconcile is at
    list,           \* the providers it has read, in the order it got them
    measured,       \* the loads of the connections it has measured, by their places
    best,           \* the place of the choice so far
    faults, operations

world == <<providers, answering, initialized>>
stored == <<databases, wish, reference>>
memory == <<pc, list, measured, best>>
bounds == <<faults, operations>>
vars == <<world, stored, memory, bounds>>

-----------------------------------------------------------------------------
(* The connections of providers.  The loops over a list of providers and    *)
(* over the connections of each meet a connection at a place <<n, m>>.      *)

NoChoice == <<0, 0>>

ConnectionAt(providerList, place) == providerList[place[1]].connections[place[2]]

Before(x, y) == x[1] < y[1] \/ (x[1] = y[1] /\ x[2] < y[2])

Places(providerList) ==
    UNION {{n} \X DOMAIN providerList[n].connections : n \in DOMAIN providerList}

\* What the loops measure.
MutantCandidates(providerList) == Places(providerList)          \* the disabled ones as well

Candidates(providerList) ==
    {x \in Places(providerList) : ConnectionAt(providerList, x).enabled}

TypeOK ==
    /\ providers \in [Providers -> Provider]
    /\ answering \subseteq Servers
    /\ initialized \subseteq Servers
    /\ databases \in [Servers -> SUBSET Requests]
    /\ wish \in [Requests -> {"wanted", "deleted", "gone"}]
    /\ reference \in [Requests -> Reference \cup {None}]
    /\ pc \in [Requests -> {"idle", "measure", "create", "drop"}]
    /\ list \in [Requests -> Seq([name : Providers, connections : Seq(Connection)])]
    /\ \A r \in Requests :
        /\ DOMAIN measured[r] \subseteq Candidates(list[r])
        /\ \A x \in DOMAIN measured[r] : measured[r][x] \in Loads
        /\ best[r] \in DOMAIN measured[r] \cup {NoChoice}
        /\ pc[r] = "create" => best[r] /= NoChoice
    /\ faults \in 0 .. MaxFaults
    /\ operations \in 0 .. MaxOperations

Init ==
    /\ providers \in {f \in [Providers -> UNION {Specs[p] : p \in Providers}] :
            \A p \in Providers : f[p] \in Specs[p]}
    /\ answering = Servers
    /\ initialized = {}
    /\ databases = [s \in Servers |-> {}]
    /\ wish = [r \in Requests |-> "wanted"]
    /\ reference = [r \in Requests |-> None]
    /\ pc = [r \in Requests |-> "idle"]
    /\ list = [r \in Requests |-> <<>>]
    /\ measured = [r \in Requests |-> <<>>]
    /\ best = [r \in Requests |-> NoChoice]
    /\ faults = 0
    /\ operations = 0

Fault == faults < MaxFaults /\ faults' = faults + 1
Operation == operations < MaxOperations /\ operations' = operations + 1

-----------------------------------------------------------------------------
(* Which connection is next.                                               *)

Matching == {p \in Providers : providers[p].exists /\ providers[p].matches}

\* A provider as a reconcile has read it.
Read(p) == [name |-> p, connections |-> providers[p].connections]

Ahead(r) == Candidates(list[r]) \ DOMAIN measured[r]

\* The place where the loops are.
Reached(r, x) == x \in Ahead(r) /\ \A y \in Ahead(r) \ {x} : Before(x, y)

\* The last connection of the name, 0 if there is none.
Named(connections, name) == SelectLastInSeq(connections, LAMBDA c : c.name = name)

\* What a selection returns: the name of the connection and, copied, its provider;
\* what a drop starts with: the name and the provider of the reference.
Chosen(r) == ConnectionAt(list[r], best[r]).name
ChosenFrom(r) == list[r][best[r][1]]

Target(connections, name) == connections[Named(connections, name)].server

\* The server CreateDatabase or DropDatabase is called on.
Server(r) ==
    CASE pc[r] = "create" -> Target(ChosenFrom(r).connections, Chosen(r))
      [] pc[r] = "drop" -> Target(list[r][1].connections, reference[r].name)

-----------------------------------------------------------------------------
(* The reconcile of a request.                                             *)

Goto(r, step, providerList) ==
    /\ pc' = [pc EXCEPT ![r] = step]
    /\ list' = [list EXCEPT ![r] = providerList]
    /\ measured' = [measured EXCEPT ![r] = <<>>]
    /\ best' = [best EXCEPT ![r] = NoChoice]

Return(r) == Goto(r, "idle", <<>>)

\* The informer's cache lists the providers in any order.
List(r) ==
    /\ pc[r] = "idle"
    /\ wish[r] = "wanted"
    /\ reference[r] = None
    /\ \E order \in SetToSeqs(Matching) :
        LET providerList == [n \in DOMAIN order |-> Read(order[n])]
        IN  /\ Candidates(providerList) /= {}
            /\ Goto(r, "measure", providerList)
    /\ UNCHANGED <<world, stored, bounds>>

\* The choice so far has the least load so far, or the largest integer.
MutantLeastLoad(r) == IF best[r] = NoChoice THEN 0 ELSE measured[r][best[r]]

LeastLoad(r) == IF best[r] = NoChoice THEN MaxLoad ELSE measured[r][best[r]]

MutantLighter(r, load) == load <= LeastLoad(r)
Lighter(r, load) == load < LeastLoad(r)

Noted(loads, x, load) ==
    [y \in DOMAIN loads \cup {x} |-> IF y = x THEN load ELSE loads[y]]

Measure(r) ==
    /\ pc[r] = "measure"
    /\ \E x \in Ahead(r), load \in Loads :
        /\ Reached(r, x)
        /\ ConnectionAt(list[r], x).server \in answering
        /\ measured' = [measured EXCEPT ![r] = Noted(@, x, load)]
        /\ best' = [best EXCEPT ![r] = IF Lighter(r, load) THEN x ELSE @]
        /\ pc' = [pc EXCEPT ![r] = IF Ahead(r) = {x} THEN "create" ELSE "measure"]
    /\ UNCHANGED <<list, world, stored, bounds>>

MutantReferenceTo(r) ==         \* the loop variable instead of a copy of it
    [provider |-> list[r][Len(list[r])].name, name |-> Chosen(r)]

ReferenceTo(r) == [provider |-> ChosenFrom(r).name, name |-> Chosen(r)]

\* CreateDatabase, and the reference to where, unless a write of it fails.
Create(r) ==
    /\ pc[r] = "create"
    /\ Server(r) \in answering \cap initialized
    /\ databases' = [databases EXCEPT ![Server(r)] = @ \cup {r}]
    /\ \/ reference' = [reference EXCEPT ![r] = ReferenceTo(r)] /\ UNCHANGED faults
       \/ Fault /\ UNCHANGED reference
    /\ Return(r)
    /\ UNCHANGED <<world, wish, operations>>

\* A drop goes to the provider of the reference as it is now, enabled or not.
GetProvider(r) ==
    LET ref == reference[r]
    IN  /\ pc[r] = "idle"
        /\ wish[r] = "deleted"
        /\ ref /= None
        /\ providers[ref.provider].exists
        /\ Named(providers[ref.provider].connections, ref.name) /= 0
        /\ Goto(r, "drop", <<Read(ref.provider)>>)
        /\ UNCHANGED <<world, stored, bounds>>

\* DropDatabase, then the finalizer, unless the write of that fails.
Drop(r) ==
    /\ pc[r] = "drop"
    /\ Server(r) \in answering \cap initialized
    /\ databases' = [databases EXCEPT ![Server(r)] = @ \ {r}]
    /\ \/ /\ reference' = [reference EXCEPT ![r] = None]
          /\ wish' = [wish EXCEPT ![r] = "gone"]
          /\ UNCHANGED faults
       \/ Fault /\ UNCHANGED <<reference, wish>>
    /\ Return(r)
    /\ UNCHANGED <<world, operations>>

\* Any error ends the reconcile: that of one connection, the whole selection.
Fail(r) ==
    /\ pc[r] /= "idle"
    /\ \/ /\ pc[r] = "measure"
          /\ \E x \in Ahead(r) :
                Reached(r, x) /\ ConnectionAt(list[r], x).server \notin answering
          /\ UNCHANGED faults
       \/ /\ pc[r] \in {"create", "drop"}
          /\ Server(r) \notin answering \cap initialized
          /\ UNCHANGED faults
       \/ Fault
    /\ Return(r)
    /\ UNCHANGED <<world, stored, operations>>

Reconcile(r) ==
    \/ List(r) \/ GetProvider(r)
    \/ Measure(r) \/ Create(r) \/ Drop(r)
    \/ Fail(r)

-----------------------------------------------------------------------------
(* The provider controller, the process, users and servers.                *)

\* Connections of all providers are probed, enabled or not, and a server that
\* answers is left with the table of users.
Initialize(p) ==
    /\ providers[p].exists
    /\ \E n \in DOMAIN providers[p].connections :
        LET s == providers[p].connections[n].server
        IN  /\ s \in answering \ initialized
            /\ initialized' = initialized \cup {s}
    /\ UNCHANGED <<providers, answering, stored, memory, bounds>>

Restart ==
    /\ Fault
    /\ pc' = [r \in Requests |-> "idle"]
    /\ list' = [r \in Requests |-> <<>>]
    /\ measured' = [r \in Requests |-> <<>>]
    /\ best' = [r \in Requests |-> NoChoice]
    /\ UNCHANGED <<world, stored, operations>>

\* Nothing keeps a user from deleting a provider that is referred to.
ChangeProvider(p) ==
    /\ Operation
    /\ \E spec \in Specs[p] \cup {NoProvider} :
        /\ spec /= providers[p]
        /\ providers' = [providers EXCEPT ![p] = spec]
    /\ UNCHANGED <<answering, initialized, stored, memory, faults>>

DeleteRequest(r) ==
    /\ Operation
    /\ wish[r] = "wanted"
    /\ wish' = [wish EXCEPT ![r] = "deleted"]
    /\ UNCHANGED <<world, databases, reference, memory, faults>>

Outage(s) ==
    /\ Fault
    /\ s \in answering
    /\ answering' = answering \ {s}
    /\ UNCHANGED <<providers, initialized, stored, memory, operations>>

Recover(s) ==
    /\ s \notin answering
    /\ answering' = answering \cup {s}
    /\ UNCHANGED <<providers, initialized, stored, memory, bounds>>

Next ==
    \/ \E r \in Requests : Reconcile(r) \/ DeleteRequest(r)
    \/ \E p \in Providers : Initialize(p) \/ ChangeProvider(p)
    \/ \E s \in Servers : Outage(s) \/ Recover(s)
    \/ Restart

Spec == Init /\ [][Next]_vars

\* Workers go on, and errors are retried.
Fairness == \A r \in Requests : WF_vars(Reconcile(r))

FairSpec == Spec /\ Fairness

-----------------------------------------------------------------------------
(* Properties.                                                             *)

\* A database is created where the load was least, and first of those, among all
\* the enabled connections of the providers that were listed and no others,
\* although the loops remember a copy of a provider and a name, which is resolved
\* once more to a connection, and although providers have changed since.
CreatedOnLeast ==
    [][\A r \in Requests, s \in Servers :
        r \in databases'[s] \ databases[s] =>
            /\ \E x \in DOMAIN measured[r] :
                /\ ConnectionAt(list[r], x).server = s
                /\ \A y \in DOMAIN measured[r] :
                    /\ measured[r][x] <= measured[r][y]
                    /\ Before(y, x) => measured[r][x] < measured[r][y]
            /\ \A n \in DOMAIN list[r] : \A m \in DOMAIN list[r][n].connections :
                list[r][n].connections[m].enabled <=> <<n, m>> \in DOMAIN measured[r]]_vars

\* A reference, which is by names, leads to the database as long as the provider
\* and the connection it names are there, whatever else was edited, disabled,
\* deleted or created again, and whichever providers share the connection's name.
ReferenceLocates ==
    \A r \in Requests :
        LET ref == reference[r]
        IN  ref /= None /\ wish[r] = "wanted" =>
                \A n \in DOMAIN providers[ref.provider].connections :
                    LET c == providers[ref.provider].connections[n]
                    IN  c.name = ref.name => r \in databases[c.server]

\* Every enabled connection of a matching provider can be created on.
Usable ==
    \A p \in Matching : \A n \in DOMAIN providers[p].connections :
        providers[p].connections[n].enabled =>
            providers[p].connections[n].server \in answering \cap initialized

Offered ==
    \E p \in Matching : \E n \in DOMAIN providers[p].connections :
        providers[p].connections[n].enabled

\* A request finds its server when all enabled connections work, disabled ones
\* need not; its database is found again for deletion, enabled or not, as long as
\* its provider and the connection are there.
Settles ==
    <>[](\A r \in Requests :
        LET ref == reference[r]
        IN  /\ wish[r] = "wanted" /\ Offered /\ Usable => ref /= None
            /\ wish[r] = "deleted" /\ ref /= None =>
                \A n \in DOMAIN providers[ref.provider].connections :
                    LET c == providers[ref.provider].connections[n]
                    IN  c.name = ref.name => c.server \notin answering \cap initialized)
=============================================================================
