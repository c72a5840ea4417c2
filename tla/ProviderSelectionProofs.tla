------------------------- MODULE ProviderSelectionProofs -------------------------
(***************************************************************************)
(* Proofs about ProviderSelection, for every set of requests, servers and  *)
(* providers, whatever users give the providers and servers report.        *)
(***************************************************************************)
EXTENDS ProviderSelection, FiniteSetTheorems, WellFoundedInduction, TLAPS

\* What a reconcile keeps of a provider.
Listed == [name : Providers, connections : Seq(Connection)]

\* Within a provider a name stands for one server, now and after edits.  The API
\* asks for unique names; users who let a name stand for another server lose what
\* is on the first.
NamesKeepServers ==
    \A p \in Providers : \A f, g \in Specs[p] :
        \A n \in DOMAIN f.connections, m \in DOMAIN g.connections :
            f.connections[n].name = g.connections[m].name =>
                f.connections[n].server = g.connections[m].server

-----------------------------------------------------------------------------
(* The invariant.                                                          *)

\* What a selection remembers: connections as some spec of their provider has them,
\* the loads of those that come first, and the first of the least of these.
MemoryInv(step, providerList, loads, choice) ==
    /\ \A n \in DOMAIN providerList :
        \E f \in Specs[providerList[n].name] : providerList[n].connections = f.connections
    /\ DOMAIN loads \subseteq Candidates(providerList)
    /\ \A x \in DOMAIN loads : loads[x] \in Loads
    /\ \A x \in DOMAIN loads, y \in Candidates(providerList) \ DOMAIN loads : Before(x, y)
    /\ choice \in DOMAIN loads \cup {NoChoice}
    /\ DOMAIN loads /= {} => choice /= NoChoice
    /\ choice /= NoChoice =>
        \A y \in DOMAIN loads :
            /\ loads[choice] <= loads[y]
            /\ Before(y, choice) => loads[choice] < loads[y]
    /\ step = "create" => choice /= NoChoice /\ DOMAIN loads = Candidates(providerList)

TypeInv ==
    /\ providers \in [Providers -> Provider]
    /\ \A p \in Providers : providers[p] \in Specs[p] \cup {NoProvider}
    /\ answering \subseteq Servers
    /\ initialized \subseteq Servers
    /\ databases \in [Servers -> SUBSET Requests]
    /\ wish \in [Requests -> {"wanted", "deleted", "gone"}]
    /\ reference \in [Requests -> Reference \cup {None}]
    /\ pc \in [Requests -> {"idle", "measure", "create", "drop"}]
    /\ list \in [Requests -> Seq(Listed)]
    /\ measured = [r \in Requests |-> measured[r]]
    /\ best = [r \in Requests |-> best[r]]
    /\ faults \in 0 .. MaxFaults
    /\ operations \in 0 .. MaxOperations

SelectionInv ==
    /\ TypeInv
    /\ \A r \in Requests : MemoryInv(pc[r], list[r], measured[r], best[r])

\* The reference of a request that is wanted names a connection whose server has
\* its database, whichever spec of the provider users come back to.
LocatedInv ==
    \A r \in Requests :
        /\ pc[r] = "drop" => wish[r] = "deleted"
        /\ reference[r] /= None /\ wish[r] = "wanted" =>
            \A f \in Specs[reference[r].provider] : \A n \in DOMAIN f.connections :
                f.connections[n].name = reference[r].name =>
                    r \in databases[f.connections[n].server]

-----------------------------------------------------------------------------
(* Places, names and specs.                                                *)

\* A bounded set of numbers has a largest.
LEMMA LargestIn ==
    ASSUME NEW L \in Nat, NEW I \in SUBSET (1 .. L), I /= {}
    PROVE  Max(I) \in I
<1> DEFINE T == {L - i : i \in I}
           R == OpToRel(<, Nat)
<1>1. T \subseteq Nat /\ T /= {}
  <2>1. \A i \in I : L - i \in Nat
    OBVIOUS
  <2> QED
    BY <2>1
<1>2. IsWellFoundedOn(R, Nat)
  BY NatLessThanWellFounded, Zenon
<1>3. \A x, y \in Nat : y < x => <<y, x>> \in R
  BY DEF OpToRel
<1> HIDE DEF T, R
<1>4. PICK x \in T : \A y \in T : ~(<<y, x>> \in R)
  BY <1>1, <1>2, WFMin
<1>5. \A y \in T : ~(y < x)
  BY <1>1, <1>3, <1>4
<1>6. PICK i \in I : x = L - i
  BY DEF T
<1>7. \A j \in I : i >= j
  <2> SUFFICES ASSUME NEW j \in I, ~(i >= j) PROVE FALSE
    OBVIOUS
  <2>1. L - j \in T /\ L - j < L - i
    BY DEF T
  <2> QED
    BY <1>5, <1>6, <2>1
<1> QED
  BY <1>7 DEF Max

\* A name that is there is found.
LEMMA NamedFound ==
    ASSUME NEW connections \in Seq(Connection), NEW m \in DOMAIN connections
    PROVE  /\ Named(connections, connections[m].name) \in DOMAIN connections
           /\ connections[Named(connections, connections[m].name)].name = connections[m].name
<1> DEFINE I == {i \in 1 .. Len(connections) : connections[i].name = connections[m].name}
<1>1. Len(connections) \in Nat /\ DOMAIN connections = 1 .. Len(connections)
  OBVIOUS
<1>2. I \in SUBSET (1 .. Len(connections)) /\ m \in I
  BY <1>1
<1>3. Max(I) \in I
  BY <1>1, <1>2, LargestIn
<1>4. Named(connections, connections[m].name) = Max(I)
  BY <1>2 DEF Named, SelectLastInSeq
<1> QED
  BY <1>1, <1>3, <1>4

LEMMA PlaceTypes ==
    ASSUME NEW providerList \in Seq(Listed), NEW x \in Candidates(providerList)
    PROVE  /\ x = <<x[1], x[2]>> /\ x[1] \in Nat /\ x[2] \in Nat /\ x /= NoChoice
           /\ x[1] \in DOMAIN providerList
           /\ providerList[x[1]] \in Listed
           /\ providerList[x[1]].connections \in Seq(Connection)
           /\ x[2] \in DOMAIN providerList[x[1]].connections
           /\ ConnectionAt(providerList, x) = providerList[x[1]].connections[x[2]]
           /\ ConnectionAt(providerList, x) \in Connection
           /\ ConnectionAt(providerList, x).enabled
<1>1. PICK n \in DOMAIN providerList : x \in {n} \X DOMAIN providerList[n].connections
  BY DEF Candidates, Places
<1>2. x = <<x[1], x[2]>> /\ x[1] = n /\ x[2] \in DOMAIN providerList[n].connections
  BY <1>1
<1>3. n \in 1 .. Len(providerList) /\ Len(providerList) \in Nat /\ providerList[n] \in Listed
  OBVIOUS
<1>4. providerList[n].connections \in Seq(Connection)
  BY <1>3 DEF Listed
<1>5. /\ x[2] \in 1 .. Len(providerList[n].connections)
      /\ Len(providerList[n].connections) \in Nat
      /\ providerList[n].connections[x[2]] \in Connection
  BY <1>2, <1>4
<1>6. x /= NoChoice
  BY <1>2, <1>3 DEF NoChoice
<1> QED
  BY <1>2, <1>3, <1>4, <1>5, <1>6 DEF Candidates, ConnectionAt

\* The places of enabled connections, and no others.
LEMMA EnabledPlaces ==
    ASSUME NEW providerList \in Seq(Listed), NEW n \in DOMAIN providerList,
           NEW m \in DOMAIN providerList[n].connections
    PROVE  providerList[n].connections[m].enabled <=> <<n, m>> \in Candidates(providerList)
<1>1. <<n, m>> \in Places(providerList)
  BY DEF Places
<1> QED
  BY <1>1 DEF Candidates, ConnectionAt

LEMMA SpecTypes ==
    ASSUME NEW p \in Providers, NEW f \in Specs[p] \cup {NoProvider}
    PROVE  f \in Provider /\ f.connections \in Seq(Connection)
<1>1. CASE f \in Specs[p]
  BY <1>1, SelectionAssumption DEF SelectionAssumption, Provider
<1>2. CASE f = NoProvider
  <2>1. <<>> \in Seq(Connection)
    OBVIOUS
  <2> QED
    BY <1>2, <2>1 DEF NoProvider, Provider
<1> QED
  BY <1>1, <1>2

\* What is read of a provider that exists is of a spec that users gave it.
LEMMA ReadTypes ==
    ASSUME TypeInv, NEW p \in Providers, providers[p].exists
    PROVE  /\ Read(p) \in Listed /\ Read(p).name = p
           /\ \E f \in Specs[p] : Read(p).connections = f.connections
<1>1. providers[p] \in Specs[p] \cup {NoProvider}
  BY DEF TypeInv
<1>2. providers[p] \in Specs[p]
  BY <1>1 DEF NoProvider
<1> QED
  BY <1>1, <1>2, SpecTypes DEF Read, Listed

-----------------------------------------------------------------------------
(* The memory of a reconcile.                                              *)

\* Nothing is measured yet, or remembered any more.
LEMMA MemoryFresh ==
    ASSUME NEW step, step /= "create", NEW providerList,
           \A n \in DOMAIN providerList :
                \E f \in Specs[providerList[n].name] : providerList[n].connections = f.connections
    PROVE  MemoryInv(step, providerList, <<>>, NoChoice)
<1>1. DOMAIN <<>> = {}
  OBVIOUS
<1> QED
  BY <1>1 DEF MemoryInv

\* A connection is measured where the loops are.
LEMMA MemoryMeasured ==
    ASSUME NEW step, NEW next, NEW providerList \in Seq(Listed), NEW loads, NEW choice,
           MemoryInv(step, providerList, loads, choice),
           NEW x \in Candidates(providerList) \ DOMAIN loads,
           \A y \in (Candidates(providerList) \ DOMAIN loads) \ {x} : Before(x, y),
           NEW load \in Loads, NEW choice2,
           choice2 = IF load < (IF choice = NoChoice THEN MaxLoad ELSE loads[choice])
                     THEN x ELSE choice,
           next = "create" => Candidates(providerList) \ DOMAIN loads = {x}
    PROVE  MemoryInv(next, providerList, Noted(loads, x, load), choice2)
<1> DEFINE new == Noted(loads, x, load)
           All == Candidates(providerList)
<1>1. /\ DOMAIN new = DOMAIN loads \cup {x} /\ new[x] = load
      /\ \A y \in DOMAIN loads : new[y] = loads[y] /\ y /= x
  BY DEF Noted
<1> HIDE DEF new
<1>2. /\ DOMAIN loads \subseteq All
      /\ \A y \in DOMAIN loads : loads[y] \in Loads
      /\ \A y \in DOMAIN loads, z \in All \ DOMAIN loads : Before(y, z)
      /\ choice \in DOMAIN loads \cup {NoChoice}
      /\ DOMAIN loads /= {} => choice /= NoChoice
  BY DEF MemoryInv
<1>3. Loads \subseteq Nat /\ MaxLoad \in Nat /\ load < MaxLoad
  BY SelectionAssumption DEF SelectionAssumption
<1>4. /\ x \in All /\ x /= NoChoice /\ x[1] \in Nat /\ x[2] \in Nat
      /\ \A y \in All : y /= NoChoice /\ y[1] \in Nat /\ y[2] \in Nat
  BY PlaceTypes
<1>5. choice2 \in DOMAIN new /\ choice2 /= NoChoice
  BY <1>1, <1>2, <1>3, <1>4
<1>6. ASSUME NEW y \in DOMAIN new
      PROVE  new[choice2] <= new[y] /\ (Before(y, choice2) => new[choice2] < new[y])
  <2>1. new[y] \in Nat /\ new[choice2] \in Nat
    BY <1>1, <1>2, <1>3, <1>5
  <2>2. CASE choice = NoChoice
    <3>1. DOMAIN loads = {} /\ choice2 = x /\ y = x
      BY <1>1, <1>2, <1>3, <2>2
    <3> QED
      BY <1>4, <2>1, <3>1 DEF Before
  <2>3. CASE choice /= NoChoice
    <3>1. /\ choice \in DOMAIN loads
          /\ \A z \in DOMAIN loads :
                loads[choice] <= loads[z] /\ (Before(z, choice) => loads[choice] < loads[z])
      BY <1>2, <2>3 DEF MemoryInv
    <3>2. CASE load < loads[choice]
      <4>1. choice2 = x
        BY <2>3, <3>2
      <4>2. ~Before(x, x)
        BY <1>4 DEF Before
      <4>3. ASSUME NEW z \in DOMAIN loads PROVE load < loads[z]
        <5>1. load \in Nat /\ loads[z] \in Nat /\ loads[choice] \in Nat
          BY <1>2, <1>3, <3>1
        <5>2. loads[choice] <= loads[z]
          BY <3>1
        <5> QED
          BY <3>2, <5>1, <5>2
      <4> QED
        BY <1>1, <2>1, <4>1, <4>2, <4>3
    <3>3. CASE ~(load < loads[choice])
      <4>1. choice2 = choice
        BY <2>3, <3>3
      <4>2. Before(choice, x)
        BY <1>2, <3>1
      <4>3. ~Before(x, choice)
        BY <1>2, <1>4, <3>1, <4>2 DEF Before
      <4>4. loads[choice] <= load
        <5>1. load \in Nat /\ loads[choice] \in Nat
          BY <1>2, <1>3, <3>1
        <5> QED
          BY <3>3, <5>1
      <4> QED
        BY <1>1, <3>1, <4>1, <4>3, <4>4
    <3> QED
      BY <3>2, <3>3
  <2> QED
    BY <2>2, <2>3
<1>7. \A y \in DOMAIN new, z \in All \ DOMAIN new : Before(y, z)
  BY <1>1, <1>2
<1>8. next = "create" => DOMAIN new = All
  BY <1>1, <1>2
<1>9. DOMAIN new \subseteq All /\ \A y \in DOMAIN new : new[y] \in Loads
  BY <1>1, <1>2
<1>10. \A n \in DOMAIN providerList :
         \E f \in Specs[providerList[n].name] : providerList[n].connections = f.connections
  BY DEF MemoryInv
<1>11. MemoryInv(next, providerList, new, choice2)
  BY <1>5, <1>6, <1>7, <1>8, <1>9, <1>10 DEF MemoryInv
<1> QED
  BY <1>11 DEF new

\* Steps of one reconcile.
LEMMA OneStep ==
    ASSUME SelectionInv, NEW r \in Requests,
           NEW step \in {"idle", "measure", "create", "drop"}, NEW providerList \in Seq(Listed),
           NEW loads, NEW choice, MemoryInv(step, providerList, loads, choice),
           pc' = [pc EXCEPT ![r] = step], list' = [list EXCEPT ![r] = providerList],
           measured' = [measured EXCEPT ![r] = loads], best' = [best EXCEPT ![r] = choice]
    PROVE  /\ pc' \in [Requests -> {"idle", "measure", "create", "drop"}]
           /\ list' \in [Requests -> Seq(Listed)]
           /\ measured' = [q \in Requests |-> measured'[q]]
           /\ best' = [q \in Requests |-> best'[q]]
           /\ \A q \in Requests : MemoryInv(pc'[q], list'[q], measured'[q], best'[q])
<1>1. /\ pc \in [Requests -> {"idle", "measure", "create", "drop"}]
      /\ list \in [Requests -> Seq(Listed)]
      /\ measured = [q \in Requests |-> measured[q]] /\ best = [q \in Requests |-> best[q]]
  BY DEF SelectionInv, TypeInv
<1>2. /\ DOMAIN measured = Requests /\ DOMAIN best = Requests
  BY <1>1
<1>3. /\ measured' = [q \in Requests |-> measured'[q]] /\ measured'[r] = loads
      /\ \A q \in Requests : q /= r => measured'[q] = measured[q]
  BY <1>2
<1>4. /\ best' = [q \in Requests |-> best'[q]] /\ best'[r] = choice
      /\ \A q \in Requests : q /= r => best'[q] = best[q]
  BY <1>2
<1>5. /\ pc' \in [Requests -> {"idle", "measure", "create", "drop"}] /\ pc'[r] = step
      /\ list' \in [Requests -> Seq(Listed)] /\ list'[r] = providerList
      /\ \A q \in Requests : q /= r => pc'[q] = pc[q] /\ list'[q] = list[q]
  BY <1>1
<1>6. ASSUME NEW q \in Requests PROVE MemoryInv(pc'[q], list'[q], measured'[q], best'[q])
  <2>1. CASE q = r
    BY <1>3, <1>4, <1>5, <2>1
  <2>2. CASE q /= r
    <3>1. /\ pc'[q] = pc[q] /\ list'[q] = list[q]
          /\ measured'[q] = measured[q] /\ best'[q] = best[q]
      BY <1>3, <1>4, <1>5, <2>2
    <3> QED
      BY <3>1 DEF SelectionInv
  <2> QED
    BY <2>1, <2>2
<1> QED
  BY <1>3, <1>4, <1>5, <1>6

\* A reconcile starts with a list, or ends without.
LEMMA GotoMemory ==
    ASSUME SelectionInv, NEW r \in Requests,
           NEW step \in {"idle", "measure", "drop"}, NEW providerList \in Seq(Listed),
           \A n \in DOMAIN providerList :
                \E f \in Specs[providerList[n].name] : providerList[n].connections = f.connections,
           Goto(r, step, providerList)
    PROVE  /\ pc' \in [Requests -> {"idle", "measure", "create", "drop"}]
           /\ list' \in [Requests -> Seq(Listed)]
           /\ measured' = [q \in Requests |-> measured'[q]]
           /\ best' = [q \in Requests |-> best'[q]]
           /\ \A q \in Requests : MemoryInv(pc'[q], list'[q], measured'[q], best'[q])
<1>1. MemoryInv(step, providerList, <<>>, NoChoice)
  BY MemoryFresh
<1> QED
  BY <1>1, OneStep DEF Goto

LEMMA ReturnMemory ==
    ASSUME SelectionInv, NEW r \in Requests, Return(r)
    PROVE  /\ pc' \in [Requests -> {"idle", "measure", "create", "drop"}]
           /\ list' \in [Requests -> Seq(Listed)]
           /\ measured' = [q \in Requests |-> measured'[q]]
           /\ best' = [q \in Requests |-> best'[q]]
           /\ \A q \in Requests : MemoryInv(pc'[q], list'[q], measured'[q], best'[q])
<1>1. <<>> \in Seq(Listed) /\ DOMAIN <<>> = {}
  OBVIOUS
<1> QED
  BY <1>1, GotoMemory DEF Return

-----------------------------------------------------------------------------
(* The invariant is inductive.                                             *)

LEMMA FaultTypes ==
    ASSUME TypeInv
    PROVE  /\ Fault => faults' \in 0 .. MaxFaults
           /\ Operation => operations' \in 0 .. MaxOperations
BY BoundsAssumption DEF TypeInv, Fault, Operation, BoundsAssumption

\* A list has each provider once, in some order.
LEMMA ListTypes ==
    ASSUME TypeInv, NEW order \in SetToSeqs(Matching)
    PROVE  LET providerList == [n \in DOMAIN order |-> Read(order[n])]
           IN  /\ providerList \in Seq(Listed)
               /\ \A n \in DOMAIN providerList :
                    \E f \in Specs[providerList[n].name] : providerList[n].connections = f.connections
<1> DEFINE providerList == [n \in DOMAIN order |-> Read(order[n])]
           c == Cardinality(Matching)
<1>1. c \in Nat
  <2>1. Matching \in SUBSET Providers
    BY DEF Matching
  <2> QED
    BY <2>1, SelectionAssumption, FS_Subset, FS_CardinalityType DEF SelectionAssumption
<1>2. order \in [1 .. c -> Matching]
  BY DEF SetToSeqs
<1>3. ASSUME NEW n \in 1 .. c
      PROVE  /\ order[n] \in Providers /\ providers[order[n]].exists
  BY <1>2, <1>3 DEF Matching
<1>4. ASSUME NEW n \in 1 .. c
      PROVE  /\ providerList[n] \in Listed /\ providerList[n].name = order[n]
             /\ \E f \in Specs[order[n]] : providerList[n].connections = f.connections
  BY <1>2, <1>3, <1>4, ReadTypes
<1>5. DOMAIN providerList = 1 .. c
  BY <1>2
<1>6. providerList \in Seq(Listed)
  BY <1>1, <1>4, <1>5
<1> QED
  BY <1>4, <1>5, <1>6

LEMMA ListInv == \A r \in Requests : SelectionInv /\ List(r) => SelectionInv'
<1> SUFFICES ASSUME NEW r \in Requests, SelectionInv, List(r) PROVE SelectionInv'
  OBVIOUS
<1>1. PICK order \in SetToSeqs(Matching) :
        Goto(r, "measure", [n \in DOMAIN order |-> Read(order[n])])
  BY DEF List
<1>2. /\ pc' \in [Requests -> {"idle", "measure", "create", "drop"}]
      /\ list' \in [Requests -> Seq(Listed)]
      /\ measured' = [q \in Requests |-> measured'[q]]
      /\ best' = [q \in Requests |-> best'[q]]
      /\ \A q \in Requests : MemoryInv(pc'[q], list'[q], measured'[q], best'[q])
  BY <1>1, ListTypes, GotoMemory DEF SelectionInv
<1>3. UNCHANGED <<world, stored, bounds>>
  BY DEF List
<1>4. TypeInv'
  BY <1>2, <1>3 DEF SelectionInv, TypeInv, world, stored, bounds
<1> QED
  BY <1>2, <1>4 DEF SelectionInv

LEMMA GetProviderInv == \A r \in Requests : SelectionInv /\ GetProvider(r) => SelectionInv'
<1> SUFFICES ASSUME NEW r \in Requests, SelectionInv, GetProvider(r) PROVE SelectionInv'
  OBVIOUS
<1> DEFINE p == reference[r].provider
<1>1. p \in Providers /\ providers[p].exists
  BY DEF GetProvider, SelectionInv, TypeInv, Reference
<1>2. /\ Read(p) \in Listed /\ Read(p).name = p
      /\ \E f \in Specs[p] : Read(p).connections = f.connections
  BY <1>1, ReadTypes DEF SelectionInv
<1>3. <<Read(p)>> \in Seq(Listed) /\ \A n \in DOMAIN <<Read(p)>> : <<Read(p)>>[n] = Read(p)
  BY <1>2
<1>4. Goto(r, "drop", <<Read(p)>>) /\ UNCHANGED <<world, stored, bounds>>
  BY DEF GetProvider
<1>5. /\ pc' \in [Requests -> {"idle", "measure", "create", "drop"}]
      /\ list' \in [Requests -> Seq(Listed)]
      /\ measured' = [q \in Requests |-> measured'[q]]
      /\ best' = [q \in Requests |-> best'[q]]
      /\ \A q \in Requests : MemoryInv(pc'[q], list'[q], measured'[q], best'[q])
  BY <1>2, <1>3, <1>4, GotoMemory
<1>6. TypeInv'
  BY <1>4, <1>5 DEF SelectionInv, TypeInv, world, stored, bounds
<1> QED
  BY <1>5, <1>6 DEF SelectionInv

LEMMA MeasureInv == \A r \in Requests : SelectionInv /\ Measure(r) => SelectionInv'
<1> SUFFICES ASSUME NEW r \in Requests, SelectionInv, Measure(r) PROVE SelectionInv'
  OBVIOUS
<1> DEFINE step(x) == IF Ahead(r) = {x} THEN "create" ELSE "measure"
           choice(x, load) == IF Lighter(r, load) THEN x ELSE best[r]
<1>1. PICK x \in Ahead(r), load \in Loads :
        /\ Reached(r, x)
        /\ measured' = [measured EXCEPT ![r] = Noted(@, x, load)]
        /\ best' = [best EXCEPT ![r] = IF Lighter(r, load) THEN x ELSE @]
        /\ pc' = [pc EXCEPT ![r] = IF Ahead(r) = {x} THEN "create" ELSE "measure"]
  BY DEF Measure
<1>2. UNCHANGED <<list, world, stored, bounds>>
  BY DEF Measure
<1>3. /\ list[r] \in Seq(Listed) /\ MemoryInv(pc[r], list[r], measured[r], best[r])
      /\ DOMAIN measured = Requests /\ DOMAIN best = Requests
      /\ list \in [Requests -> Seq(Listed)]
  BY DEF SelectionInv, TypeInv
<1>4. MemoryInv(step(x), list[r], Noted(measured[r], x, load), choice(x, load))
  <2>1. x \in Candidates(list[r]) \ DOMAIN measured[r]
    BY DEF Ahead
  <2>2. \A y \in (Candidates(list[r]) \ DOMAIN measured[r]) \ {x} : Before(x, y)
    BY <1>1 DEF Reached, Ahead
  <2>3. choice(x, load) = IF load < (IF best[r] = NoChoice THEN MaxLoad ELSE measured[r][best[r]])
                          THEN x ELSE best[r]
    BY DEF Lighter, LeastLoad
  <2>4. step(x) = "create" => Candidates(list[r]) \ DOMAIN measured[r] = {x}
    BY DEF Ahead
  <2> HIDE DEF step, choice
  <2> QED
    BY <1>3, <2>1, <2>2, <2>3, <2>4, MemoryMeasured
<1>5. /\ measured' = [measured EXCEPT ![r] = Noted(measured[r], x, load)]
      /\ best' = [best EXCEPT ![r] = choice(x, load)]
      /\ pc' = [pc EXCEPT ![r] = step(x)]
      /\ list' = [list EXCEPT ![r] = list[r]]
      /\ step(x) \in {"idle", "measure", "create", "drop"}
  BY <1>1, <1>2, <1>3
<1> HIDE DEF step, choice
<1>6. /\ pc' \in [Requests -> {"idle", "measure", "create", "drop"}]
      /\ list' \in [Requests -> Seq(Listed)]
      /\ measured' = [q \in Requests |-> measured'[q]]
      /\ best' = [q \in Requests |-> best'[q]]
      /\ \A q \in Requests : MemoryInv(pc'[q], list'[q], measured'[q], best'[q])
  BY <1>3, <1>4, <1>5, OneStep
<1>7. TypeInv'
  BY <1>2, <1>6 DEF SelectionInv, TypeInv, world, stored, bounds
<1> QED
  BY <1>6, <1>7 DEF SelectionInv

\* The choice of a creation, and the server it leads to.
LEMMA ChoiceTypes ==
    ASSUME SelectionInv, NEW r \in Requests, pc[r] = "create"
    PROVE  /\ best[r] \in DOMAIN measured[r] /\ best[r] \in Candidates(list[r])
           /\ list[r] \in Seq(Listed)
           /\ ChosenFrom(r) \in Listed /\ ChosenFrom(r) = list[r][best[r][1]]
           /\ best[r][1] \in DOMAIN list[r]
           /\ best[r][2] \in DOMAIN ChosenFrom(r).connections
           /\ ChosenFrom(r).connections \in Seq(Connection)
           /\ ConnectionAt(list[r], best[r]) = ChosenFrom(r).connections[best[r][2]]
           /\ Chosen(r) = ChosenFrom(r).connections[best[r][2]].name
           /\ ReferenceTo(r) \in Reference
           /\ \E f \in Specs[ChosenFrom(r).name] : ChosenFrom(r).connections = f.connections
<1>1. /\ list[r] \in Seq(Listed) /\ MemoryInv(pc[r], list[r], measured[r], best[r])
  BY DEF SelectionInv, TypeInv
<1>2. best[r] \in DOMAIN measured[r] /\ best[r] \in Candidates(list[r])
  BY <1>1 DEF MemoryInv
<1>3. /\ best[r][1] \in DOMAIN list[r]
      /\ list[r][best[r][1]] \in Listed
      /\ list[r][best[r][1]].connections \in Seq(Connection)
      /\ best[r][2] \in DOMAIN list[r][best[r][1]].connections
      /\ ConnectionAt(list[r], best[r]) = list[r][best[r][1]].connections[best[r][2]]
      /\ ConnectionAt(list[r], best[r]) \in Connection
  BY <1>1, <1>2, PlaceTypes
<1>4. ReferenceTo(r) \in Reference
  BY <1>3 DEF ReferenceTo, Reference, ChosenFrom, Chosen, Listed, Connection
<1>5. \E f \in Specs[list[r][best[r][1]].name] : list[r][best[r][1]].connections = f.connections
  BY <1>1, <1>3 DEF MemoryInv
<1> QED
  BY <1>1, <1>2, <1>3, <1>4, <1>5 DEF ChosenFrom, Chosen

LEMMA CreateInv == \A r \in Requests : SelectionInv /\ Create(r) => SelectionInv'
<1> SUFFICES ASSUME NEW r \in Requests, SelectionInv, Create(r) PROVE SelectionInv'
  OBVIOUS
<1>1. /\ pc[r] = "create" /\ Return(r) /\ UNCHANGED <<world, wish, operations>>
      /\ databases' = [databases EXCEPT ![Server(r)] = @ \cup {r}]
      /\ \/ reference' = [reference EXCEPT ![r] = ReferenceTo(r)] /\ UNCHANGED faults
         \/ Fault /\ UNCHANGED reference
  BY DEF Create
<1>2. /\ pc' \in [Requests -> {"idle", "measure", "create", "drop"}]
      /\ list' \in [Requests -> Seq(Listed)]
      /\ measured' = [q \in Requests |-> measured'[q]]
      /\ best' = [q \in Requests |-> best'[q]]
      /\ \A q \in Requests : MemoryInv(pc'[q], list'[q], measured'[q], best'[q])
  BY <1>1, ReturnMemory
<1>3. databases' \in [Servers -> SUBSET Requests]
  BY <1>1 DEF SelectionInv, TypeInv
<1>4. reference' \in [Requests -> Reference \cup {None}] /\ faults' \in 0 .. MaxFaults
  <2>1. ReferenceTo(r) \in Reference
    BY <1>1, ChoiceTypes
  <2>2. reference \in [Requests -> Reference \cup {None}] /\ faults \in 0 .. MaxFaults
    BY DEF SelectionInv, TypeInv
  <2>3. Fault => faults' \in 0 .. MaxFaults
    BY FaultTypes DEF SelectionInv
  <2>4. reference' = reference \/ reference' = [reference EXCEPT ![r] = ReferenceTo(r)]
    BY <1>1
  <2>5. reference' \in [Requests -> Reference \cup {None}]
    BY <2>1, <2>2, <2>4
  <2> QED
    BY <1>1, <2>2, <2>3, <2>5
<1>5. TypeInv'
  BY <1>1, <1>2, <1>3, <1>4 DEF SelectionInv, TypeInv, world
<1> QED
  BY <1>2, <1>5 DEF SelectionInv

LEMMA DropInv == \A r \in Requests : SelectionInv /\ Drop(r) => SelectionInv'
<1> SUFFICES ASSUME NEW r \in Requests, SelectionInv, Drop(r) PROVE SelectionInv'
  OBVIOUS
<1>1. /\ Return(r) /\ UNCHANGED <<world, operations>>
      /\ databases' = [databases EXCEPT ![Server(r)] = @ \ {r}]
      /\ \/ /\ reference' = [reference EXCEPT ![r] = None]
            /\ wish' = [wish EXCEPT ![r] = "gone"]
            /\ UNCHANGED faults
         \/ Fault /\ UNCHANGED <<reference, wish>>
  BY DEF Drop
<1>2. /\ pc' \in [Requests -> {"idle", "measure", "create", "drop"}]
      /\ list' \in [Requests -> Seq(Listed)]
      /\ measured' = [q \in Requests |-> measured'[q]]
      /\ best' = [q \in Requests |-> best'[q]]
      /\ \A q \in Requests : MemoryInv(pc'[q], list'[q], measured'[q], best'[q])
  BY <1>1, ReturnMemory
<1>3. databases' \in [Servers -> SUBSET Requests]
  BY <1>1 DEF SelectionInv, TypeInv
<1>4. /\ reference' \in [Requests -> Reference \cup {None}]
      /\ wish' \in [Requests -> {"wanted", "deleted", "gone"}]
      /\ faults' \in 0 .. MaxFaults
  BY <1>1, FaultTypes DEF SelectionInv, TypeInv
<1>5. TypeInv'
  BY <1>1, <1>2, <1>3, <1>4 DEF SelectionInv, TypeInv, world
<1> QED
  BY <1>2, <1>5 DEF SelectionInv

LEMMA FailInv == \A r \in Requests : SelectionInv /\ Fail(r) => SelectionInv'
<1> SUFFICES ASSUME NEW r \in Requests, SelectionInv, Fail(r) PROVE SelectionInv'
  OBVIOUS
<1>1. Return(r) /\ UNCHANGED <<world, stored, operations>> /\ (Fault \/ UNCHANGED faults)
  BY DEF Fail
<1>2. /\ pc' \in [Requests -> {"idle", "measure", "create", "drop"}]
      /\ list' \in [Requests -> Seq(Listed)]
      /\ measured' = [q \in Requests |-> measured'[q]]
      /\ best' = [q \in Requests |-> best'[q]]
      /\ \A q \in Requests : MemoryInv(pc'[q], list'[q], measured'[q], best'[q])
  BY <1>1, ReturnMemory
<1>3. faults' \in 0 .. MaxFaults
  BY <1>1, FaultTypes DEF SelectionInv, TypeInv
<1>4. TypeInv'
  BY <1>1, <1>2, <1>3 DEF SelectionInv, TypeInv, world, stored
<1> QED
  BY <1>2, <1>4 DEF SelectionInv

\* Steps that leave the memory of every reconcile alone.
LEMMA MemoryKept ==
    ASSUME SelectionInv, TypeInv', UNCHANGED memory
    PROVE  SelectionInv'
<1>1. \A q \in Requests : MemoryInv(pc'[q], list'[q], measured'[q], best'[q])
  BY DEF SelectionInv, memory
<1> QED
  BY <1>1 DEF SelectionInv

LEMMA InitializeInv == \A p \in Providers : SelectionInv /\ Initialize(p) => SelectionInv'
<1> SUFFICES ASSUME NEW p \in Providers, SelectionInv, Initialize(p) PROVE SelectionInv'
  OBVIOUS
<1>1. initialized' \subseteq Servers
  BY DEF Initialize, SelectionInv, TypeInv
<1>2. UNCHANGED <<providers, answering, stored, memory, bounds>>
  BY DEF Initialize
<1>3. TypeInv'
  BY <1>1, <1>2 DEF SelectionInv, TypeInv, stored, memory, bounds
<1> QED
  BY <1>2, <1>3, MemoryKept

LEMMA ChangeProviderInv == \A p \in Providers : SelectionInv /\ ChangeProvider(p) => SelectionInv'
<1> SUFFICES ASSUME NEW p \in Providers, SelectionInv, ChangeProvider(p) PROVE SelectionInv'
  OBVIOUS
<1>1. PICK spec \in Specs[p] \cup {NoProvider} : providers' = [providers EXCEPT ![p] = spec]
  BY DEF ChangeProvider
<1>2. /\ providers' \in [Providers -> Provider]
      /\ \A q \in Providers : providers'[q] \in Specs[q] \cup {NoProvider}
  BY <1>1, SpecTypes DEF SelectionInv, TypeInv
<1>3. UNCHANGED <<answering, initialized, stored, memory, faults>> /\ operations' \in 0 .. MaxOperations
  BY FaultTypes DEF ChangeProvider, SelectionInv
<1>4. TypeInv'
  BY <1>2, <1>3 DEF SelectionInv, TypeInv, stored, memory
<1> QED
  BY <1>3, <1>4, MemoryKept

LEMMA DeleteRequestInv == \A r \in Requests : SelectionInv /\ DeleteRequest(r) => SelectionInv'
<1> SUFFICES ASSUME NEW r \in Requests, SelectionInv, DeleteRequest(r) PROVE SelectionInv'
  OBVIOUS
<1>1. /\ UNCHANGED <<world, databases, reference, memory, faults>>
      /\ wish' \in [Requests -> {"wanted", "deleted", "gone"}]
      /\ operations' \in 0 .. MaxOperations
  BY FaultTypes DEF DeleteRequest, SelectionInv, TypeInv
<1>2. TypeInv'
  BY <1>1 DEF SelectionInv, TypeInv, world, memory
<1> QED
  BY <1>1, <1>2, MemoryKept

LEMMA ServersInv == \A s \in Servers : SelectionInv /\ (Outage(s) \/ Recover(s)) => SelectionInv'
<1> SUFFICES ASSUME NEW s \in Servers, SelectionInv, Outage(s) \/ Recover(s) PROVE SelectionInv'
  OBVIOUS
<1>1. /\ UNCHANGED <<providers, initialized, stored, memory, operations>>
      /\ answering' \subseteq Servers /\ faults' \in 0 .. MaxFaults
  BY FaultTypes DEF Outage, Recover, SelectionInv, TypeInv, bounds
<1>2. TypeInv'
  BY <1>1 DEF SelectionInv, TypeInv, stored, memory
<1> QED
  BY <1>1, <1>2, MemoryKept

LEMMA RestartInv == SelectionInv /\ Restart => SelectionInv'
<1> SUFFICES ASSUME SelectionInv, Restart PROVE SelectionInv'
  OBVIOUS
<1>1. /\ UNCHANGED <<world, stored, operations>> /\ faults' \in 0 .. MaxFaults
      /\ pc' = [r \in Requests |-> "idle"] /\ list' = [r \in Requests |-> <<>>]
      /\ measured' = [r \in Requests |-> <<>>] /\ best' = [r \in Requests |-> NoChoice]
  BY FaultTypes DEF Restart, SelectionInv
<1>2. <<>> \in Seq(Listed) /\ DOMAIN <<>> = {}
  OBVIOUS
<1>3. TypeInv'
  BY <1>1, <1>2 DEF SelectionInv, TypeInv, world, stored
<1>4. MemoryInv("idle", <<>>, <<>>, NoChoice)
  BY <1>2, MemoryFresh
<1>5. \A q \in Requests : MemoryInv(pc'[q], list'[q], measured'[q], best'[q])
  BY <1>1, <1>4
<1> QED
  BY <1>3, <1>5 DEF SelectionInv

LEMMA SelectionInvInit == Init => SelectionInv
<1> SUFFICES ASSUME Init PROVE SelectionInv
  OBVIOUS
<1>1. /\ \A p \in Providers : providers[p] \in Specs[p]
      /\ DOMAIN providers = Providers
      /\ providers = [p \in Providers |-> providers[p]]
  BY DEF Init
<1>2. providers \in [Providers -> Provider]
  <2>1. \A p \in Providers : providers[p] \in Provider
    BY <1>1, SpecTypes
  <2> QED
    BY <1>1, <2>1
<1>3. /\ <<>> \in Seq(Listed) /\ DOMAIN <<>> = {}
      /\ 0 \in 0 .. MaxFaults /\ 0 \in 0 .. MaxOperations
  BY BoundsAssumption DEF BoundsAssumption
<1>4. TypeInv
  BY <1>1, <1>2, <1>3 DEF Init, TypeInv
<1>5. MemoryInv("idle", <<>>, <<>>, NoChoice)
  BY <1>3, MemoryFresh
<1> QED
  BY <1>4, <1>5 DEF Init, SelectionInv

LEMMA SelectionInvStep == SelectionInv /\ [Next]_vars => SelectionInv'
<1>1. SelectionInv /\ UNCHANGED vars => SelectionInv'
  <2> SUFFICES ASSUME SelectionInv, UNCHANGED vars PROVE SelectionInv'
    OBVIOUS
  <2>1. TypeInv' /\ UNCHANGED memory
    BY DEF SelectionInv, TypeInv, vars, world, stored, memory, bounds
  <2> QED
    BY <2>1, MemoryKept
<1> QED
  BY <1>1, ListInv, GetProviderInv, MeasureInv, CreateInv, DropInv, FailInv, InitializeInv,
     ChangeProviderInv, DeleteRequestInv, ServersInv, RestartInv
  DEF Next, Reconcile

LEMMA SelectionInvCorrect == Spec => []SelectionInv
BY SelectionInvInit, SelectionInvStep, PTL DEF Spec

-----------------------------------------------------------------------------
(* Theorems.                                                               *)

\* Whatever users give the providers and servers report, every selection compares
\* loads of enabled connections it has read, and has a choice when it creates.
THEOREM TypeCorrect == Spec => []TypeOK
<1>1. SelectionInv => TypeOK
  <2> SUFFICES ASSUME SelectionInv PROVE TypeOK
    OBVIOUS
  <2>1. TypeInv /\ \A r \in Requests : MemoryInv(pc[r], list[r], measured[r], best[r])
    BY DEF SelectionInv
  <2>2. \A r \in Requests :
          /\ DOMAIN measured[r] \subseteq Candidates(list[r])
          /\ \A x \in DOMAIN measured[r] : measured[r][x] \in Loads
          /\ best[r] \in DOMAIN measured[r] \cup {NoChoice}
          /\ pc[r] = "create" => best[r] /= NoChoice
    BY <2>1 DEF MemoryInv
  <2> QED
    BY <2>1, <2>2 DEF TypeOK, TypeInv, Listed
<1> QED
  BY <1>1, SelectionInvCorrect, PTL

\* The server of a creation is that of the choice, although it is looked up by name.
LEMMA ServerOfChoice ==
    ASSUME NamesKeepServers, SelectionInv, NEW r \in Requests, pc[r] = "create"
    PROVE  /\ Server(r) = ConnectionAt(list[r], best[r]).server
           /\ Server(r) \in Servers
           /\ \A f \in Specs[ChosenFrom(r).name] : \A n \in DOMAIN f.connections :
                f.connections[n].name = Chosen(r) => f.connections[n].server = Server(r)
<1> DEFINE connections == ChosenFrom(r).connections
           last == Named(connections, Chosen(r))
<1>1. /\ connections \in Seq(Connection) /\ best[r][2] \in DOMAIN connections
      /\ ConnectionAt(list[r], best[r]) = connections[best[r][2]]
      /\ Chosen(r) = connections[best[r][2]].name
      /\ ChosenFrom(r).name \in Providers
      /\ \E f \in Specs[ChosenFrom(r).name] : connections = f.connections
  BY ChoiceTypes DEF Listed
<1>2. last \in DOMAIN connections /\ connections[last].name = Chosen(r)
  BY <1>1, NamedFound
<1>3. Server(r) = connections[last].server
  BY DEF Server, Target
<1>4. connections[last] \in Connection
  BY <1>1, <1>2
<1>5. \A f \in Specs[ChosenFrom(r).name] : \A n \in DOMAIN f.connections :
        f.connections[n].name = Chosen(r) => f.connections[n].server = connections[last].server
  BY <1>1, <1>2 DEF NamesKeepServers
<1>6. connections[best[r][2]].server = connections[last].server
  BY <1>1, <1>5
<1>7. connections[last].server \in Servers
  BY <1>4 DEF Connection
<1> QED
  BY <1>1, <1>3, <1>5, <1>6, <1>7

\* A database appears on a server only when it is created there.
LEMMA OnlyCreates ==
    ASSUME SelectionInv, [Next]_vars, NEW r \in Requests, NEW s \in Servers,
           r \in databases'[s] \ databases[s]
    PROVE  pc[r] = "create" /\ s = Server(r)
<1>1. databases \in [Servers -> SUBSET Requests]
  BY DEF SelectionInv, TypeInv
<1>2. ~ UNCHANGED databases
  OBVIOUS
<1>3. ~ UNCHANGED stored
  BY <1>2 DEF stored
<1>4. PICK q \in Requests : Create(q) \/ Drop(q)
  BY <1>2, <1>3 DEF Next, Reconcile, vars, DeleteRequest, Initialize, ChangeProvider, Outage,
     Recover, Restart, List, GetProvider, Measure, Fail
<1>5. CASE Create(q)
  <2>1. pc[q] = "create" /\ databases' = [databases EXCEPT ![Server(q)] = @ \cup {q}]
    BY <1>5 DEF Create
  <2>2. s = Server(q) /\ databases'[s] = databases[s] \cup {q}
    BY <1>1, <2>1
  <2> QED
    BY <2>1, <2>2
<1>6. CASE Drop(q)
  <2>1. databases' = [databases EXCEPT ![Server(q)] = @ \ {q}]
    BY <1>6 DEF Drop
  <2> QED
    BY <1>1, <2>1
<1> QED
  BY <1>4, <1>5, <1>6

\* Whatever the providers and loads, and however often providers are edited while
\* a selection runs, a database is created on the server of the first connection
\* with the least load among all enabled connections that were listed.
THEOREM CreatedOnLeastCorrect == ASSUME NamesKeepServers PROVE Spec => CreatedOnLeast
<1>1. SelectionInv /\ [Next]_vars =>
        [\A r \in Requests, s \in Servers :
            r \in databases'[s] \ databases[s] =>
                /\ \E x \in DOMAIN measured[r] :
                    /\ ConnectionAt(list[r], x).server = s
                    /\ \A y \in DOMAIN measured[r] :
                        /\ measured[r][x] <= measured[r][y]
                        /\ Before(y, x) => measured[r][x] < measured[r][y]
                /\ \A n \in DOMAIN list[r] : \A m \in DOMAIN list[r][n].connections :
                    list[r][n].connections[m].enabled <=> <<n, m>> \in DOMAIN measured[r]]_vars
  <2> SUFFICES ASSUME SelectionInv, [Next]_vars,
                      NEW r \in Requests, NEW s \in Servers, r \in databases'[s] \ databases[s]
               PROVE  /\ \E x \in DOMAIN measured[r] :
                            /\ ConnectionAt(list[r], x).server = s
                            /\ \A y \in DOMAIN measured[r] :
                                /\ measured[r][x] <= measured[r][y]
                                /\ Before(y, x) => measured[r][x] < measured[r][y]
                      /\ \A n \in DOMAIN list[r] : \A m \in DOMAIN list[r][n].connections :
                            list[r][n].connections[m].enabled <=> <<n, m>> \in DOMAIN measured[r]
    BY Zenon
  <2>1. pc[r] = "create" /\ s = Server(r)
    BY OnlyCreates
  <2>2. ConnectionAt(list[r], best[r]).server = s
    BY <2>1, ServerOfChoice
  <2>3. /\ list[r] \in Seq(Listed)
        /\ MemoryInv(pc[r], list[r], measured[r], best[r])
    BY DEF SelectionInv, TypeInv
  <2>4. /\ best[r] \in DOMAIN measured[r]
        /\ DOMAIN measured[r] = Candidates(list[r])
        /\ \A y \in DOMAIN measured[r] :
            /\ measured[r][best[r]] <= measured[r][y]
            /\ Before(y, best[r]) => measured[r][best[r]] < measured[r][y]
    BY <2>1, <2>3 DEF MemoryInv
  <2>5. \A n \in DOMAIN list[r] : \A m \in DOMAIN list[r][n].connections :
          list[r][n].connections[m].enabled <=> <<n, m>> \in DOMAIN measured[r]
    BY <2>3, <2>4, EnabledPlaces
  <2> QED
    BY <2>2, <2>4, <2>5
<1> QED
  BY <1>1, SelectionInvCorrect, PTL DEF Spec, CreatedOnLeast

\* Steps that take no reconcile to a drop, leave references and databases, and
\* make no request wanted.
LEMMA LocatedKept ==
    ASSUME LocatedInv, UNCHANGED <<databases, reference>>,
           \A r \in Requests :
                wish'[r] = wish[r] \/ (wish[r] = "wanted" /\ wish'[r] = "deleted"),
           \A r \in Requests : pc'[r] = "drop" => pc[r] = "drop" \/ wish'[r] = "deleted"
    PROVE  LocatedInv'
<1> SUFFICES ASSUME NEW r \in Requests
             PROVE  /\ pc'[r] = "drop" => wish'[r] = "deleted"
                    /\ reference'[r] /= None /\ wish'[r] = "wanted" =>
                        \A f \in Specs[reference'[r].provider] : \A n \in DOMAIN f.connections :
                            f.connections[n].name = reference'[r].name =>
                                r \in databases'[f.connections[n].server]
  BY DEF LocatedInv
<1>1. pc'[r] = "drop" => wish'[r] = "deleted"
  BY DEF LocatedInv
<1> QED
  BY <1>1 DEF LocatedInv

LEMMA UnwantedKept ==
    ASSUME LocatedInv, UNCHANGED <<databases, reference, wish>>,
           \A r \in Requests : pc'[r] = "drop" => pc[r] = "drop" \/ wish[r] = "deleted"
    PROVE  LocatedInv'
<1>1. UNCHANGED <<databases, reference>> /\ \A r \in Requests : wish'[r] = wish[r]
  OBVIOUS
<1>2. \A r \in Requests : pc'[r] = "drop" => pc[r] = "drop" \/ wish'[r] = "deleted"
  BY <1>1
<1> QED
  BY <1>1, <1>2, LocatedKept

\* What a Goto leaves the steps of reconciles at.
LEMMA Gone ==
    ASSUME SelectionInv, NEW r \in Requests, NEW step, NEW providerList, Goto(r, step, providerList)
    PROVE  pc'[r] = step /\ \A q \in Requests \ {r} : pc'[q] = pc[q]
BY DEF Goto, SelectionInv, TypeInv

LEMMA CreateLocated ==
    ASSUME NamesKeepServers, SelectionInv, LocatedInv, NEW r \in Requests, Create(r)
    PROVE  LocatedInv'
<1>1. /\ pc[r] = "create" /\ UNCHANGED <<wish>>
      /\ databases' = [databases EXCEPT ![Server(r)] = @ \cup {r}]
      /\ \/ reference' = [reference EXCEPT ![r] = ReferenceTo(r)]
         \/ UNCHANGED reference
  BY DEF Create
<1>2. pc'[r] = "idle" /\ \A q \in Requests \ {r} : pc'[q] = pc[q]
  BY Gone DEF Create, Return
<1>3. /\ databases \in [Servers -> SUBSET Requests] /\ DOMAIN reference = Requests
  BY DEF SelectionInv, TypeInv
<1>4. /\ Server(r) \in Servers
      /\ \A f \in Specs[ReferenceTo(r).provider] : \A n \in DOMAIN f.connections :
            f.connections[n].name = ReferenceTo(r).name => f.connections[n].server = Server(r)
  BY <1>1, ServerOfChoice DEF ReferenceTo
<1>5. \A s : \A q \in databases[s] : q \in databases'[s]
  <2> SUFFICES ASSUME NEW s, NEW q \in databases[s] PROVE q \in databases'[s]
    OBVIOUS
  <2>1. CASE s = Server(r)
    BY <1>1, <1>3, <1>4, <2>1
  <2>2. CASE s /= Server(r) /\ s \in Servers
    BY <1>1, <1>3, <2>2
  <2>3. CASE s \notin Servers
    BY <1>1, <1>3, <2>3
  <2> QED
    BY <2>1, <2>2, <2>3
<1>6. r \in databases'[Server(r)]
  BY <1>1, <1>3, <1>4
<1> SUFFICES ASSUME NEW q \in Requests
             PROVE  /\ pc'[q] = "drop" => wish'[q] = "deleted"
                    /\ reference'[q] /= None /\ wish'[q] = "wanted" =>
                        \A f \in Specs[reference'[q].provider] : \A n \in DOMAIN f.connections :
                            f.connections[n].name = reference'[q].name =>
                                q \in databases'[f.connections[n].server]
  BY DEF LocatedInv
<1>7. pc'[q] = "drop" => wish'[q] = "deleted"
  BY <1>1, <1>2 DEF LocatedInv
<1>8. CASE reference'[q] = reference[q]
  BY <1>1, <1>5, <1>7, <1>8 DEF LocatedInv
<1>9. CASE reference'[q] /= reference[q]
  <2>1. q = r /\ reference'[q] = ReferenceTo(r)
    BY <1>1, <1>3, <1>9
  <2> QED
    BY <1>4, <1>6, <1>7, <2>1
<1> QED
  BY <1>8, <1>9

LEMMA DropLocated ==
    ASSUME SelectionInv, LocatedInv, NEW r \in Requests, Drop(r)
    PROVE  LocatedInv'
<1>1. /\ pc[r] = "drop"
      /\ databases' = [databases EXCEPT ![Server(r)] = @ \ {r}]
      /\ \/ /\ reference' = [reference EXCEPT ![r] = None]
            /\ wish' = [wish EXCEPT ![r] = "gone"]
         \/ UNCHANGED <<reference, wish>>
  BY DEF Drop
<1>2. pc'[r] = "idle" /\ \A q \in Requests \ {r} : pc'[q] = pc[q]
  BY Gone DEF Drop, Return
<1>3. /\ databases \in [Servers -> SUBSET Requests]
      /\ DOMAIN reference = Requests /\ DOMAIN wish = Requests
  BY DEF SelectionInv, TypeInv
<1>4. wish[r] = "deleted" /\ wish'[r] /= "wanted"
  BY <1>1, <1>3 DEF LocatedInv
<1>5. \A q \in Requests \ {r} : /\ reference'[q] = reference[q] /\ wish'[q] = wish[q]
                                /\ \A s : q \in databases[s] => q \in databases'[s]
  <2> SUFFICES ASSUME NEW q \in Requests \ {r}
               PROVE  /\ reference'[q] = reference[q] /\ wish'[q] = wish[q]
                      /\ \A s : q \in databases[s] => q \in databases'[s]
    OBVIOUS
  <2>1. reference'[q] = reference[q] /\ wish'[q] = wish[q]
    BY <1>1, <1>3
  <2>2. \A s \in Servers : q \in databases[s] => q \in databases'[s]
    BY <1>1, <1>3
  <2>3. \A s : s \notin Servers => databases'[s] = databases[s]
    BY <1>1, <1>3
  <2> QED
    BY <2>1, <2>2, <2>3
<1> SUFFICES ASSUME NEW q \in Requests
             PROVE  /\ pc'[q] = "drop" => wish'[q] = "deleted"
                    /\ reference'[q] /= None /\ wish'[q] = "wanted" =>
                        \A f \in Specs[reference'[q].provider] : \A n \in DOMAIN f.connections :
                            f.connections[n].name = reference'[q].name =>
                                q \in databases'[f.connections[n].server]
  BY DEF LocatedInv
<1>6. CASE q = r
  BY <1>2, <1>4, <1>6
<1>7. CASE q /= r
  BY <1>2, <1>5, <1>7 DEF LocatedInv
<1> QED
  BY <1>6, <1>7

LEMMA LocatedInvStep ==
    ASSUME NamesKeepServers
    PROVE  SelectionInv /\ LocatedInv /\ [Next]_vars => LocatedInv'
<1> SUFFICES ASSUME SelectionInv, LocatedInv, [Next]_vars PROVE LocatedInv'
  OBVIOUS
<1>1. wish \in [Requests -> {"wanted", "deleted", "gone"}] /\ DOMAIN pc = Requests
  BY DEF SelectionInv, TypeInv
<1>2. ASSUME NEW r \in Requests, List(r) PROVE LocatedInv'
  <2>1. UNCHANGED <<databases, reference, wish>> /\ \E l : Goto(r, "measure", l)
    BY <1>2 DEF List, stored
  <2>2. \A q \in Requests : pc'[q] = "drop" => pc[q] = "drop"
    BY <2>1, Gone
  <2> QED
    BY <2>1, <2>2, UnwantedKept
<1>3. ASSUME NEW r \in Requests, GetProvider(r) PROVE LocatedInv'
  <2>1. /\ UNCHANGED <<databases, reference, wish>> /\ wish[r] = "deleted"
        /\ \E l : Goto(r, "drop", l)
    BY <1>3 DEF GetProvider, stored
  <2>2. \A q \in Requests : pc'[q] = "drop" => pc[q] = "drop" \/ wish[q] = "deleted"
    BY <2>1, Gone
  <2> QED
    BY <2>1, <2>2, UnwantedKept
<1>4. ASSUME NEW r \in Requests, Measure(r) PROVE LocatedInv'
  <2>1. /\ UNCHANGED <<databases, reference, wish>>
        /\ \E step \in {"create", "measure"} : pc' = [pc EXCEPT ![r] = step]
    BY <1>4 DEF Measure, stored
  <2>2. \A q \in Requests : pc'[q] = "drop" => pc[q] = "drop"
    BY <1>1, <2>1
  <2> QED
    BY <2>1, <2>2, UnwantedKept
<1>5. ASSUME NEW r \in Requests, Create(r) PROVE LocatedInv'
  BY <1>5, CreateLocated
<1>6. ASSUME NEW r \in Requests, Drop(r) PROVE LocatedInv'
  BY <1>6, DropLocated
<1>7. ASSUME NEW r \in Requests, Fail(r) PROVE LocatedInv'
  <2>1. UNCHANGED <<databases, reference, wish>> /\ Goto(r, "idle", <<>>)
    BY <1>7 DEF Fail, Return, stored
  <2>2. \A q \in Requests : pc'[q] = "drop" => pc[q] = "drop"
    BY <2>1, Gone
  <2> QED
    BY <2>1, <2>2, UnwantedKept
<1>8. ASSUME NEW r \in Requests, DeleteRequest(r) PROVE LocatedInv'
  <2>1. /\ UNCHANGED <<databases, reference, pc>>
        /\ wish[r] = "wanted" /\ wish' = [wish EXCEPT ![r] = "deleted"]
    BY <1>8 DEF DeleteRequest, memory
  <2>2. \A q \in Requests :
            wish'[q] = wish[q] \/ (wish[q] = "wanted" /\ wish'[q] = "deleted")
    BY <1>1, <2>1
  <2>3. \A q \in Requests : pc'[q] = "drop" => pc[q] = "drop" \/ wish'[q] = "deleted"
    BY <2>1
  <2>4. UNCHANGED <<databases, reference>>
    BY <2>1
  <2> QED
    BY <2>2, <2>3, <2>4, LocatedKept
<1>9. ASSUME UNCHANGED stored, UNCHANGED memory PROVE LocatedInv'
  <2>1. /\ UNCHANGED <<databases, reference, wish>>
        /\ \A q \in Requests : pc'[q] = "drop" => pc[q] = "drop"
    BY <1>9 DEF stored, memory
  <2> QED
    BY <2>1, UnwantedKept
<1>10. ASSUME Restart PROVE LocatedInv'
  <2>1. /\ UNCHANGED <<databases, reference, wish>>
        /\ \A q \in Requests : pc'[q] = "drop" => pc[q] = "drop"
    BY <1>10 DEF Restart, stored
  <2> QED
    BY <2>1, UnwantedKept
<1>11. CASE \E p \in Providers : Initialize(p) \/ ChangeProvider(p)
  BY <1>9, <1>11 DEF Initialize, ChangeProvider
<1>12. CASE \E s \in Servers : Outage(s) \/ Recover(s)
  BY <1>9, <1>12 DEF Outage, Recover
<1>13. CASE UNCHANGED vars
  BY <1>9, <1>13 DEF vars
<1> QED
  BY <1>2, <1>3, <1>4, <1>5, <1>6, <1>7, <1>8, <1>10, <1>11, <1>12, <1>13 DEF Next, Reconcile

\* Whatever else is edited, disabled, deleted or created again, the names in the
\* reference of a wanted request lead to the server with its database whenever
\* the provider and connection are there.
THEOREM ReferenceLocatesCorrect == ASSUME NamesKeepServers PROVE Spec => []ReferenceLocates
<1>1. Init => LocatedInv
  BY DEF Init, LocatedInv
<1>2. SelectionInv /\ LocatedInv => ReferenceLocates
  <2> SUFFICES ASSUME SelectionInv, LocatedInv, NEW r \in Requests,
                      reference[r] /= None, wish[r] = "wanted",
                      NEW n \in DOMAIN providers[reference[r].provider].connections,
                      providers[reference[r].provider].connections[n].name = reference[r].name
               PROVE  r \in databases[providers[reference[r].provider].connections[n].server]
    BY DEF ReferenceLocates
  <2>1. reference[r].provider \in Providers
    BY DEF SelectionInv, TypeInv, Reference
  <2>2. providers[reference[r].provider] \in Specs[reference[r].provider] \cup {NoProvider}
    BY <2>1 DEF SelectionInv, TypeInv
  <2>3. providers[reference[r].provider] /= NoProvider
    <3>1. NoProvider.connections = <<>> /\ DOMAIN <<>> = {}
      BY DEF NoProvider
    <3> QED
      BY <3>1
  <2> QED
    BY <2>2, <2>3 DEF LocatedInv
<1>3. SelectionInv /\ LocatedInv /\ [Next]_vars => LocatedInv'
  BY LocatedInvStep
<1> QED
  BY <1>1, <1>2, <1>3, SelectionInvCorrect, PTL DEF Spec
=============================================================================
