------------------------- MODULE ConnectionCacheProofs -------------------------
(***************************************************************************)
(* Proofs about ConnectionCache, for any number of goroutines, connections  *)
(* and data races.                                                          *)
(***************************************************************************)
EXTENDS ConnectionCache, TLAPS

\* The steps of a goroutine that has, or has been given, a pool.
Holding == {"write", "writing", "tearing", "done"}

\* The entries of the map, and the pools goroutines hold, were opened by this
\* process.
PoolInv ==
    /\ \A d \in connectionCache : opened[d] /= {}
    /\ \A g \in Goroutines : access[g].step \in Holding => opened[access[g].dsn] /= {}

\* Unless a data race has lost entries, what a goroutine has opened is in the map
\* or on its way there, so that a goroutine that opens a pool has not opened it
\* before.
OnceInv ==
    ~torn =>
        /\ ~reopened
        /\ \A g \in Goroutines :
            /\ access[g].step /= "tearing"
            /\ access[g].step = "open" => g \notin opened[access[g].dsn]
            /\ \A d \in DSNs : g \in opened[d] =>
                \/ d \in connectionCache
                \/ access[g].dsn = d /\ access[g].step \in {"write", "writing"}

-----------------------------------------------------------------------------
(* Types.                                                                  *)

LEMMA NoAccessType ==
    /\ NoAccess \in [Goroutines -> [step : Steps, dsn : DSNs \cup {None}]]
    /\ \A g \in Goroutines : NoAccess[g].step = "none" /\ NoAccess[g].dsn = None
<1>1. [step |-> "none", dsn |-> None] \in [step : Steps, dsn : DSNs \cup {None}]
  BY DEF Steps
<1> QED
  BY <1>1 DEF NoAccess

LEMMA TypeInit == Init => TypeOK
<1> SUFFICES ASSUME Init PROVE TypeOK
  OBVIOUS
<1>1. 0 \in 0 .. MaxRaces
  BY CacheAssumption DEF CacheAssumption
<1>2. \A g \in Goroutines : access[g].step = "none" <=> access[g].dsn = None
  BY NoAccessType DEF Init
<1> QED
  BY <1>1, <1>2, NoAccessType DEF Init, TypeOK

\* A step that leaves one goroutine at another step of the same call.
LEMMA GoesType ==
    ASSUME TypeOK, NEW g \in Goroutines, NEW step \in Steps \ {"none"},
           access[g].step /= "none", Goes(g, step)
    PROVE  /\ access' \in [Goroutines -> [step : Steps, dsn : DSNs \cup {None}]]
           /\ \A h \in Goroutines : access'[h].step = "none" <=> access'[h].dsn = None
BY DEF TypeOK, Goes

\* A goroutine in a call is there for a DSN.
LEMMA InCall ==
    ASSUME TypeOK, NEW g \in Goroutines, access[g].step /= "none"
    PROVE  access[g].dsn \in DSNs
BY DEF TypeOK

LEMMA TypeNext == TypeOK /\ [Next]_vars => TypeOK'
<1> SUFFICES ASSUME TypeOK, [Next]_vars PROVE TypeOK'
  OBVIOUS
<1> USE CacheAssumption DEF CacheAssumption
<1>1. ASSUME NEW g \in Goroutines, NEW d \in DSNs, Look(g, d) PROVE TypeOK'
  BY <1>1 DEF TypeOK, Look, Steps
<1>2. ASSUME NEW g \in Goroutines, NEW d \in DSNs, RacyLook(g, d) PROVE TypeOK'
  BY <1>2 DEF TypeOK, RacyLook, Unnoticed, Race, Steps
<1>3. ASSUME NEW g \in Goroutines, Open(g) PROVE TypeOK'
  <2>1. access[g].step /= "none" /\ Goes(g, "write") /\ "write" \in Steps \ {"none"}
    BY <1>3 DEF Open, At, Steps
  <2>2. access[g].dsn \in DSNs
    BY <2>1, InCall
  <2>3. opened' \in [DSNs -> SUBSET Goroutines] /\ reopened' \in BOOLEAN
    BY <1>3, <2>2 DEF Open, TypeOK
  <2> QED
    BY <1>3, <2>1, <2>3, GoesType DEF Open, TypeOK
<1>4. ASSUME NEW g \in Goroutines, OpenFails(g) PROVE TypeOK'
  BY <1>4 DEF TypeOK, OpenFails, Steps
<1>5. ASSUME NEW g \in Goroutines, Write(g) PROVE TypeOK'
  <2>1. access[g].step /= "none" /\ Goes(g, "writing") /\ "writing" \in Steps \ {"none"}
    BY <1>5 DEF Write, At, Steps
  <2> QED
    BY <1>5, <2>1, GoesType DEF Write, TypeOK
<1>6. ASSUME NEW g \in Goroutines, RacyWrite(g) PROVE TypeOK'
  <2>1. \A h \in Writers \cup {g} : access[h].step /= "none"
    BY <1>6 DEF RacyWrite, At, Writers
  <2>2. \A h \in Goroutines :
            access'[h] = IF h \in Writers \cup {g}
                         THEN [access[h] EXCEPT !.step = "tearing"] ELSE access[h]
    BY <1>6 DEF RacyWrite
  <2>3. \A h \in Goroutines :
            /\ access'[h] \in [step : Steps, dsn : DSNs \cup {None}]
            /\ access'[h].step = "none" <=> access'[h].dsn = None
    BY <2>1, <2>2 DEF TypeOK, Steps
  <2>4. access' = [h \in Goroutines |-> access'[h]]
    BY <1>6 DEF RacyWrite
  <2> QED
    BY <1>6, <2>3, <2>4 DEF TypeOK, RacyWrite, Unnoticed, Race
<1>7. ASSUME NEW g \in Goroutines, Enter(g) PROVE TypeOK'
  <2>1. access[g].step /= "none" /\ Goes(g, "done") /\ "done" \in Steps \ {"none"}
    BY <1>7 DEF Enter, Writers, Steps
  <2>2. access[g].dsn \in DSNs
    BY <2>1, InCall
  <2>3. connectionCache' \subseteq DSNs
    BY <1>7, <2>2 DEF Enter, Written, TypeOK
  <2> QED
    BY <1>7, <2>1, <2>3, GoesType DEF Enter, TypeOK
<1>8. ASSUME NEW g \in Goroutines, Use(g) PROVE TypeOK'
  BY <1>8 DEF TypeOK, Use, Steps
<1>9. ASSUME NEW g \in Goroutines, FatalRace(g) PROVE TypeOK'
  <2>1. races' \in 0 .. MaxRaces
    BY <1>9 DEF TypeOK, FatalRace, Race
  <2>2. \A h \in Goroutines : access'[h].step = "none" <=> access'[h].dsn = None
    BY <1>9, NoAccessType DEF FatalRace
  <2> QED
    BY <1>9, <2>1, <2>2, NoAccessType DEF TypeOK, FatalRace
<1>10. CASE UNCHANGED vars
  BY <1>10 DEF TypeOK, vars
<1> QED
  BY <1>1, <1>2, <1>3, <1>4, <1>5, <1>6, <1>7, <1>8, <1>9, <1>10 DEF Next

\* Every reachable state has the types of TypeOK; a goroutine inside GetConnection
\* is there for a data source name.
THEOREM TypeCorrect == Spec => []TypeOK
BY TypeInit, TypeNext, PTL DEF Spec

-----------------------------------------------------------------------------
(* A pool is one this process has opened.                                  *)

LEMMA PoolInit == Init => PoolInv
BY DEF Init, PoolInv, NoAccess, Holding

LEMMA PoolNext == TypeOK /\ PoolInv /\ [Next]_vars => PoolInv'
<1> SUFFICES ASSUME TypeOK, PoolInv, [Next]_vars PROVE PoolInv'
  OBVIOUS
<1>1. ASSUME NEW g \in Goroutines, NEW d \in DSNs, Look(g, d) PROVE PoolInv'
  BY <1>1 DEF TypeOK, PoolInv, Look, Found, Holding
<1>2. ASSUME NEW g \in Goroutines, NEW d \in DSNs, RacyLook(g, d) PROVE PoolInv'
  <2>1. \A h \in Writers : opened[access[h].dsn] /= {}
    BY DEF PoolInv, Writers, Holding
  <2> QED
    BY <1>2, <2>1 DEF TypeOK, PoolInv, RacyLook, Unnoticed, Holding
<1>3. ASSUME NEW g \in Goroutines, Open(g) PROVE PoolInv'
  <2>1. access[g].dsn \in DSNs
    BY <1>3, InCall DEF Open, At
  <2>2. opened' = [opened EXCEPT ![access[g].dsn] = @ \cup {g}]
    BY <1>3 DEF Open
  <2>3. opened'[access[g].dsn] /= {}
    BY <2>1, <2>2 DEF TypeOK
  <2>4. \A d \in DSNs : opened[d] /= {} => opened'[d] /= {}
    BY <2>1, <2>2 DEF TypeOK
  <2>5. \A d \in connectionCache' : opened'[d] /= {}
    BY <1>3, <2>4 DEF Open, PoolInv, TypeOK
  <2>6. ASSUME NEW h \in Goroutines, access'[h].step \in Holding
        PROVE  opened'[access'[h].dsn] /= {}
    <3>1. access'[h].dsn = access[h].dsn
      BY <1>3 DEF Open, Goes, TypeOK
    <3>2. CASE h = g
      BY <2>3, <3>1, <3>2
    <3>3. CASE h /= g
      <4>1. access[h].step \in Holding
        BY <1>3, <2>6, <3>3 DEF Open, Goes, TypeOK
      <4>2. access[h].dsn \in DSNs
        BY <4>1, InCall DEF Holding
      <4> QED
        BY <2>4, <3>1, <4>1, <4>2 DEF PoolInv
    <3> QED
      BY <3>2, <3>3
  <2> QED
    BY <2>5, <2>6 DEF PoolInv
<1>4. ASSUME NEW g \in Goroutines, OpenFails(g) PROVE PoolInv'
  BY <1>4 DEF TypeOK, PoolInv, OpenFails, Holding
<1>5. ASSUME NEW g \in Goroutines, Write(g) PROVE PoolInv'
  BY <1>5 DEF TypeOK, PoolInv, Write, Goes, At, Holding
<1>6. ASSUME NEW g \in Goroutines, RacyWrite(g) PROVE PoolInv'
  <2>1. \A h \in Goroutines :
            /\ access'[h].dsn = access[h].dsn
            /\ access'[h].step \in Holding => access[h].step \in Holding
    BY <1>6 DEF TypeOK, RacyWrite, At, Writers, Holding
  <2> QED
    BY <1>6, <2>1 DEF PoolInv, RacyWrite
<1>7. ASSUME NEW g \in Goroutines, Enter(g) PROVE PoolInv'
  <2>1. opened[access[g].dsn] /= {}
    BY <1>7 DEF Enter, Writers, PoolInv, Holding
  <2>2. connectionCache' \subseteq connectionCache \cup {access[g].dsn}
    BY <1>7 DEF Enter, Written
  <2> QED
    BY <1>7, <2>1, <2>2 DEF TypeOK, PoolInv, Enter, Goes, Holding
<1>8. ASSUME NEW g \in Goroutines, Use(g) PROVE PoolInv'
  BY <1>8 DEF TypeOK, PoolInv, Use, Holding
<1>9. ASSUME NEW g \in Goroutines, FatalRace(g) PROVE PoolInv'
  BY <1>9 DEF PoolInv, FatalRace, NoAccess, Holding
<1>10. CASE UNCHANGED vars
  BY <1>10 DEF PoolInv, vars
<1> QED
  BY <1>1, <1>2, <1>3, <1>4, <1>5, <1>6, <1>7, <1>8, <1>9, <1>10 DEF Next

\* A goroutine only gets a pool this process has opened for the DSN it asked for,
\* although lookups and writes of GetConnection race.
THEOREM NeverStaleCorrect == Spec => []NeverStale
<1>1. PoolInv => NeverStale
  BY DEF PoolInv, NeverStale, At, Holding
<1> QED
  BY <1>1, TypeInit, TypeNext, PoolInit, PoolNext, PTL DEF Spec

-----------------------------------------------------------------------------
(* No goroutine opens a pool twice.                                        *)

LEMMA OnceInit == Init => OnceInv
BY DEF Init, OnceInv, NoAccess

LEMMA OnceNext == TypeOK /\ OnceInv /\ [Next]_vars => OnceInv'
<1> SUFFICES ASSUME TypeOK, OnceInv, [Next]_vars, ~torn' PROVE OnceInv'
  BY DEF OnceInv
<1>1. ASSUME NEW g \in Goroutines, NEW d \in DSNs, Look(g, d) PROVE OnceInv'
  <2>1. ~torn
    BY <1>1 DEF Look
  <2>2. access' = [access EXCEPT
            ![g] = [step |-> IF d \in connectionCache THEN "done" ELSE "open", dsn |-> d]]
    BY <1>1 DEF Look, Found
  <2>3. d \notin connectionCache => g \notin opened[d]
    BY <1>1, <2>1 DEF Look, At, OnceInv
  <2>4. \A e \in DSNs : g \in opened[e] => e \in connectionCache
    BY <1>1, <2>1 DEF Look, At, OnceInv
  <2> QED
    BY <1>1, <2>1, <2>2, <2>3, <2>4 DEF TypeOK, OnceInv, Look
<1>2. ASSUME NEW g \in Goroutines, NEW d \in DSNs, RacyLook(g, d) PROVE OnceInv'
  BY <1>2 DEF RacyLook, Unnoticed
<1>3. ASSUME NEW g \in Goroutines, Open(g) PROVE OnceInv'
  <2>1. ~torn /\ access[g].dsn \in DSNs
    BY <1>3, InCall DEF Open, At
  <2>2. g \notin opened[access[g].dsn]
    BY <1>3, <2>1 DEF Open, At, OnceInv
  <2>3. ~reopened'
    BY <1>3, <2>1, <2>2 DEF Open, OnceInv
  <2>4. access' = [access EXCEPT ![g].step = "write"]
    BY <1>3 DEF Open, Goes
  <2>5. \A e \in DSNs : opened'[e] = IF e = access[g].dsn THEN opened[e] \cup {g} ELSE opened[e]
    BY <1>3, <2>1 DEF Open, TypeOK
  <2>6. connectionCache' = connectionCache
    BY <1>3 DEF Open
  <2>7. ASSUME NEW h \in Goroutines
        PROVE  /\ access'[h].step /= "tearing"
               /\ access'[h].step = "open" => h \notin opened'[access'[h].dsn]
               /\ \A e \in DSNs : h \in opened'[e] =>
                    \/ e \in connectionCache'
                    \/ access'[h].dsn = e /\ access'[h].step \in {"write", "writing"}
    <3>1. CASE h = g
      <4>1. access'[h].step = "write" /\ access'[h].dsn = access[g].dsn
        BY <2>4, <3>1 DEF TypeOK
      <4>2. ASSUME NEW e \in DSNs, h \in opened'[e], e /= access[g].dsn
            PROVE  e \in connectionCache
        BY <1>3, <2>1, <2>5, <3>1, <4>2 DEF OnceInv, Open, At
      <4> QED
        BY <2>6, <4>1, <4>2
    <3>2. CASE h /= g
      <4>1. access'[h] = access[h]
        BY <2>4, <3>2 DEF TypeOK
      <4>2. \A e \in DSNs : h \in opened'[e] <=> h \in opened[e]
        BY <2>5, <3>2
      <4>3. access[h].step = "open" => access[h].dsn \in DSNs
        BY InCall
      <4> QED
        BY <2>1, <2>6, <4>1, <4>2, <4>3 DEF OnceInv
    <3> QED
      BY <3>1, <3>2
  <2> QED
    BY <2>3, <2>7 DEF OnceInv
<1>4. ASSUME NEW g \in Goroutines, OpenFails(g) PROVE OnceInv'
  BY <1>4 DEF TypeOK, OnceInv, OpenFails, At
<1>5. ASSUME NEW g \in Goroutines, Write(g) PROVE OnceInv'
  BY <1>5 DEF TypeOK, OnceInv, Write, Goes, At
<1>6. ASSUME NEW g \in Goroutines, RacyWrite(g) PROVE OnceInv'
  BY <1>6 DEF RacyWrite, Unnoticed
<1>7. ASSUME NEW g \in Goroutines, Enter(g) PROVE OnceInv'
  <2>1. ~torn
    BY <1>7 DEF Enter
  <2>2. access[g].step = "writing"
    BY <1>7, <2>1 DEF Enter, Writers, OnceInv
  <2>3. connectionCache' = connectionCache \cup {access[g].dsn}
    BY <1>7, <2>2 DEF Enter, Written, At
  <2>4. access' = [access EXCEPT ![g].step = "done"]
    BY <1>7 DEF Enter, Goes
  <2> QED
    BY <1>7, <2>1, <2>2, <2>3, <2>4 DEF TypeOK, OnceInv, Enter
<1>8. ASSUME NEW g \in Goroutines, Use(g) PROVE OnceInv'
  BY <1>8 DEF TypeOK, OnceInv, Use, At
<1>9. ASSUME NEW g \in Goroutines, FatalRace(g) PROVE OnceInv'
  BY <1>9 DEF OnceInv, FatalRace, NoAccess
<1>10. CASE UNCHANGED vars
  BY <1>10 DEF OnceInv, vars
<1> QED
  BY <1>1, <1>2, <1>3, <1>4, <1>5, <1>6, <1>7, <1>8, <1>9, <1>10 DEF Next

\* As long as no data race has gone unnoticed, no goroutine opens a second pool
\* for a DSN: GetConnection leaves at most one per goroutine.
THEOREM OpenedOnceCorrect == Spec => []OpenedOnce
<1>1. OnceInv => OpenedOnce
  BY DEF OnceInv, OpenedOnce
<1> QED
  BY <1>1, TypeInit, TypeNext, OnceInit, OnceNext, PTL DEF Spec
=============================================================================
