---------------------------- MODULE ConnectionCache ----------------------------
(***************************************************************************)
(* The map of connection pools of RelationalDatabaseImpl, shared by all     *)
(* reconcilers of the process and guarded by no lock.  (MongoDBImpl keeps   *)
(* its clients in the same way.)                                            *)
(*                                                                         *)
(* An entry is looked up and written by different steps, and a write of a  *)
(* Go map takes time.  An access that overlaps one is a data race: the     *)
(* runtime notices it and ends the process, or it does not notice, and then *)
(* a lookup may miss what is there and a write may lose entries.            *)
(***************************************************************************)
EXTENDS Naturals, FiniteSets

CONSTANTS
    Goroutines,     \* workers of the controllers
    DSNs,           \* data source names, one for each connection
    None,           \* no data source name
    MaxRaces        \* bound on the data races, noticed or not

ASSUME CacheAssumption ==
    IsFiniteSet(Goroutines) /\ None \notin DSNs /\ MaxRaces \in Nat

VARIABLES
    connectionCache,    \* the DSNs with an entry
    access,             \* where every goroutine is in GetConnection, and for which DSN
    opened,             \* which goroutines of this process have opened a pool for a DSN
    reopened,           \* one of them has opened another pool for the same DSN
    torn,               \* it has had a data race that was not noticed
    races               \* data races so far

vars == <<connectionCache, access, opened, reopened, torn, races>>

Steps == {"none", "open", "write", "writing", "tearing", "done"}

TypeOK ==
    /\ connectionCache \subseteq DSNs
    /\ access \in [Goroutines -> [step : Steps, dsn : DSNs \cup {None}]]
    /\ opened \in [DSNs -> SUBSET Goroutines]
    /\ reopened \in BOOLEAN
    /\ torn \in BOOLEAN
    /\ races \in 0 .. MaxRaces
    /\ \A g \in Goroutines : access[g].step = "none" <=> access[g].dsn = None

NoAccess == [g \in Goroutines |-> [step |-> "none", dsn |-> None]]

\* New: a process starts with an empty map.
Init ==
    /\ connectionCache = {}
    /\ access = NoAccess
    /\ opened = [d \in DSNs |-> {}]
    /\ reopened = FALSE
    /\ torn = FALSE
    /\ races = 0

-----------------------------------------------------------------------------
Writers == {g \in Goroutines : access[g].step \in {"writing", "tearing"}}

At(g, step) == access[g].step = step

Goes(g, step) == access' = [access EXCEPT ![g].step = step]

\* The two outcomes of a step that overlaps a write.
Race == Writers /= {} /\ races < MaxRaces /\ races' = races + 1

Unnoticed == Race /\ torn' = TRUE

\* "concurrent map read and map write", "concurrent map writes".  What else a
\* goroutine was doing ends with it.
FatalRace(g) ==
    /\ At(g, "none") \/ At(g, "write")
    /\ Race
    /\ connectionCache' = {}
    /\ access' = NoAccess
    /\ opened' = [d \in DSNs |-> {}]
    /\ reopened' = FALSE
    /\ torn' = FALSE

MutantFound(d) == connectionCache /= {}     \* the map has the type for its key

Found(d) == d \in connectionCache

Look(g, d) ==
    /\ At(g, "none")
    /\ Writers = {}
    /\ access' = [access EXCEPT
            ![g] = [step |-> IF Found(d) THEN "done" ELSE "open", dsn |-> d]]
    /\ UNCHANGED <<connectionCache, opened, reopened, torn, races>>

\* The entry may be found as it is written, and missed although it is there.
RacyLook(g, d) ==
    /\ At(g, "none")
    /\ Unnoticed
    /\ \/ access' = [access EXCEPT ![g] = [step |-> "open", dsn |-> d]]
       \/ /\ d \in connectionCache \/ \E h \in Writers : access[h].dsn = d
          /\ access' = [access EXCEPT ![g] = [step |-> "done", dsn |-> d]]
    /\ UNCHANGED <<connectionCache, opened, reopened>>

\* sql.Open makes a pool, connected to nothing yet.
Open(g) ==
    /\ At(g, "open")
    /\ opened' = [opened EXCEPT ![access[g].dsn] = @ \cup {g}]
    /\ reopened' = (reopened \/ g \in opened[access[g].dsn])
    /\ Goes(g, "write")
    /\ UNCHANGED <<connectionCache, torn, races>>

\* It fails on a DSN it cannot read.
OpenFails(g) ==
    /\ At(g, "open")
    /\ access' = [access EXCEPT ![g] = [step |-> "none", dsn |-> None]]
    /\ UNCHANGED <<connectionCache, opened, reopened, torn, races>>

Write(g) ==
    /\ At(g, "write")
    /\ Writers = {}
    /\ Goes(g, "writing")
    /\ UNCHANGED <<connectionCache, opened, reopened, torn, races>>

\* Neither write is sound any more.
RacyWrite(g) ==
    /\ At(g, "write")
    /\ Unnoticed
    /\ access' = [h \in Goroutines |->
            IF h \in Writers \cup {g} THEN [access[h] EXCEPT !.step = "tearing"] ELSE access[h]]
    /\ UNCHANGED <<connectionCache, opened, reopened>>

MutantWritten(g) == {connectionCache}                   \* the pool is not kept

\* What the map may hold after the write.
Written(g) ==
    IF At(g, "writing")
    THEN {connectionCache \cup {access[g].dsn}}
    ELSE SUBSET (connectionCache \cup {access[g].dsn})

Enter(g) ==
    /\ g \in Writers
    /\ connectionCache' \in Written(g)
    /\ Goes(g, "done")
    /\ UNCHANGED <<opened, reopened, torn, races>>

MutantUse(g) ==                             \* it goes on, the pool in its hands
    /\ At(g, "done")
    /\ Goes(g, "none")
    /\ UNCHANGED <<connectionCache, opened, reopened, torn, races>>

\* The caller uses the pool and is done with it.
Use(g) ==
    /\ At(g, "done")
    /\ access' = [access EXCEPT ![g] = [step |-> "none", dsn |-> None]]
    /\ UNCHANGED <<connectionCache, opened, reopened, torn, races>>

\* Any worker may need any connection at any time.
Next ==
    \E g \in Goroutines :
        \/ \E d \in DSNs : Look(g, d) \/ RacyLook(g, d)
        \/ Open(g) \/ OpenFails(g)
        \/ Write(g) \/ RacyWrite(g) \/ Enter(g)
        \/ Use(g)
        \/ FatalRace(g)

Spec == Init /\ [][Next]_vars

-----------------------------------------------------------------------------
\* GetConnection checks, then opens, then writes: goroutines that miss at the
\* same time each open a pool, and all but one of these are never closed.  But no
\* goroutine opens a second one, however often it needs the connection, unless a
\* data race loses entries: there are never more pools than goroutines.
OpenedOnce == ~torn => ~reopened

\* Whatever was torn or missed, and after a restart, a goroutine only gets a pool
\* this process has opened for the DSN it asked for.
NeverStale ==
    \A g \in Goroutines : At(g, "done") => opened[access[g].dsn] /= {}
=============================================================================
