---------------------------- MODULE ServerProofs ----------------------------
(***************************************************************************)
(* For any period and ticks of any length: the liveness probe passes while *)
(* the ticks are no more than half a period behind, and what is served was *)
(* stored within a period and the length of a tick.                        *)
(***************************************************************************)
EXTENDS Server, TLAPS

(* Where the last start, the beats and the ticker stand to each other while  *)
(* the loop runs.  The last start lies between the beginning of the tick and *)
(* what the ticks are behind; until a beat waits, the next one is due a      *)
(* period after the last start or later; and a beat that waits came a period *)
(* or more after the last start, and during the tick.                        *)
BeatInv ==
    Running =>
        /\ tickLastStart \in Nat
        /\ loop = "scrape" => scraping <= tickLastStart /\ tickLastStart <= behind + scraping
        /\ tickC = None => /\ Resolution <= tickLastStart + fire
                           /\ tickLastStart + fire <= behind + Resolution
        /\ tickC # None => Resolution <= tickC + fire
        /\ loop = "scrape" /\ tickC # None =>
               tickC + Resolution <= tickLastStart /\ tickC <= scraping
        /\ loop = "select" /\ tickC # None =>
               /\ \/ tickLastStart <= behind + scraping
                  \/ tickLastStart <= behind + Resolution
               /\ tickC # 0 => tickC + Resolution <= behind + scraping /\ tickC <= scraping

(* The storage is filled by a tick and filled again by the next, which       *)
(* begins with the first beat after it at the latest.  The loop begins when  *)
(* RunUntil has waited for both informers.                                   *)
StoreInv ==
    /\ main \in {"nodes", "pods"} => loop = "none"
    /\ loop \in {"none", "start"} => ~last
    /\ loop = "select" => sinceStore <= Resolution
    /\ loop = "select" /\ tickC = None => sinceStore + fire <= Resolution
    /\ loop = "scrape" /\ last => sinceStore <= Resolution + scraping

Inv == TypeOK /\ BeatInv /\ StoreInv

(* Before RunUntil there is no tick and nothing is stored.                    *)
LEMMA InitInv ==
    Init => Inv
  <1> SUFFICES ASSUME Init PROVE Inv
    OBVIOUS
  <1>1. TypeOK
    <2>1. fire \in 1..Resolution /\ scraping \in 0..TickLimit /\ behind \in 0..TickLimit
          /\ sinceStore \in Nat
      BY TimesAssumption DEF Init
    <2>2. stop \in BOOLEAN /\ last \in BOOLEAN /\ prev \in BOOLEAN
      BY DEF Init
    <2> QED
      BY <2>1, <2>2 DEF Init, TypeOK, Ages, Outcomes
  <1>2. BeatInv /\ StoreInv
    BY DEF Init, BeatInv, StoreInv, Running
  <1> QED
    BY <1>1, <1>2 DEF Inv

(* RunUntil does not touch what the loop keeps, and starts it once (server.go: *)
(* 89-112).                                                                    *)
LEMMA RunUntilInv ==
    ASSUME Inv, \/ CloseStop \/ \E informer \in {"nodes", "pods"} : Sync(informer)
                \/ CacheSynced \/ CacheSyncStopped \/ ServeReturns
    PROVE  Inv'
  <1> USE DEF ticker, ticks, storage
  <1>1. UNCHANGED <<ticker, ticks, storage>>
    BY DEF CloseStop, Sync, CacheSynced, CacheSyncStopped, ServeReturns
  <1>2. TypeOK'
    BY <1>1 DEF CloseStop, Sync, CacheSynced, CacheSyncStopped, ServeReturns, Inv, TypeOK
  <1>3. CASE UNCHANGED loop /\ main' \in {main, "return"}
    BY <1>1, <1>2, <1>3 DEF Inv, BeatInv, StoreInv, Running
  <1>4. CASE CacheSynced
    <2>1. main \in {"nodes", "pods"} /\ loop = "none"
      BY <1>4 DEF CacheSynced, Inv, TypeOK, StoreInv
    <2>2. loop' \in {"none", "start"} /\ (main' \in {"nodes", "pods"} => loop' = "none")
      BY <1>4, <2>1 DEF CacheSynced
    <2> QED
      BY <1>1, <1>2, <2>1, <2>2 DEF Inv, BeatInv, StoreInv, Running
  <1> QED
    BY <1>3, <1>4 DEF CloseStop, Sync, CacheSyncStopped, ServeReturns

(* What the ticks are behind is a time no longer than a tick. *)
LEMMA ExcessType ==
    ASSUME NEW time \in Nat
    PROVE  Excess(time) \in 0..TickLimit
  BY TimesAssumption DEF Excess

(* A tick begins with a beat that came at once, or has waited no longer than *)
(* the ticks are behind (server.go:114-131).                                 *)
LEMMA BeginTickInv ==
    ASSUME Inv, FirstTick \/ SelectTick
    PROVE  Inv'
  <1> USE DEF runUntil, storage, BeginTick
  <1>1. /\ loop' = "scrape" /\ scraping' = 0 /\ tickC' = None
        /\ behind' = Excess(behind + scraping)
        /\ UNCHANGED <<stop, synced, main, last, prev, outcome, sinceStore>>
    BY DEF FirstTick, SelectTick
  <1>2. behind' \in 0..TickLimit /\ scraping' \in 0..TickLimit
    BY <1>1, ExcessType, TimesAssumption DEF Inv, TypeOK
  <1>3. /\ tickLastStart' \in Nat /\ tickLastStart' <= behind'
        /\ fire' \in 1..Resolution /\ Resolution <= tickLastStart' + fire'
    <2>1. CASE FirstTick
      BY <1>2, <2>1, TimesAssumption DEF FirstTick
    <2>2. CASE SelectTick
      <3>1. /\ loop = "select" /\ tickC \in Nat /\ tickLastStart' = tickC /\ fire' = fire
            /\ fire \in 1..Resolution /\ Resolution <= tickC + fire
            /\ scraping \in 0..TickLimit /\ behind \in 0..TickLimit
        BY <2>2 DEF SelectTick, Inv, TypeOK, Ages, BeatInv, Running
      <3>2. tickC # 0 => tickC + Resolution <= behind + scraping /\ tickC <= scraping
        BY <2>2, <3>1 DEF SelectTick, Inv, BeatInv, Running
      <3>3. tickC <= Excess(behind + scraping)
        BY <3>1, <3>2, TimesAssumption DEF Excess
      <3> QED
        BY <1>1, <3>1, <3>3
    <2> QED
      BY <2>1, <2>2
  <1>4. TypeOK'
    BY <1>1, <1>2, <1>3 DEF Inv, TypeOK, Ages
  <1>5. BeatInv'
    BY <1>1, <1>2, <1>3, TimesAssumption DEF BeatInv, Running
  <1>6. StoreInv'
    <2>1. main \notin {"nodes", "pods"} /\ (last => sinceStore <= Resolution)
      BY DEF FirstTick, SelectTick, Inv, StoreInv
    <2> QED
      BY <1>1, <2>1, TimesAssumption DEF Inv, TypeOK, StoreInv
  <1> QED
    BY <1>4, <1>5, <1>6 DEF Inv

(* The batch of a tick replaces what the storage held (server.go:138-144). *)
LEMMA EndTickInv ==
    ASSUME Inv, EndTick
    PROVE  Inv'
  <1> USE DEF runUntil, ticker, ticks
  <1>1. PICK batch \in Outcomes : Store(batch)
    BY DEF EndTick
  <1>2. /\ last' \in BOOLEAN /\ prev' \in BOOLEAN /\ outcome' \in Outcomes /\ sinceStore' = 0
    BY <1>1 DEF Store, Outcomes, Inv, TypeOK
  <1>3. loop = "scrape" /\ loop' = "select" /\ UNCHANGED <<runUntil, ticker, ticks>>
    BY DEF EndTick
  <1>4. TypeOK'
    BY <1>2, <1>3 DEF Inv, TypeOK
  <1>5. BeatInv'
    <2>1. /\ tickLastStart \in Nat /\ scraping \in Nat /\ behind \in Nat
          /\ tickLastStart <= behind + scraping
          /\ tickC # None => /\ tickC \in Nat /\ Resolution <= tickC + fire
                             /\ tickC + Resolution <= tickLastStart /\ tickC <= scraping
      BY <1>3 DEF Inv, TypeOK, Ages, BeatInv, Running
    <2>2. tickC # None => tickC + Resolution <= behind + scraping
      BY <2>1, TimesAssumption
    <2> QED
      BY <1>3, <2>1, <2>2 DEF Inv, BeatInv, Running
  <1>6. StoreInv'
    BY <1>2, <1>3, TimesAssumption DEF Inv, TypeOK, StoreInv
  <1> QED
    BY <1>4, <1>5, <1>6 DEF Inv

(* The loop ends when its context is done (server.go:118-123).                *)
LEMMA SelectDoneInv ==
    ASSUME Inv, SelectDone
    PROVE  Inv'
  BY DEF SelectDone, runUntil, ticker, ticks, storage, Inv, TypeOK, BeatInv, StoreInv, Running

(* Time passes while a tick goes on or the loop waits for a beat: the first  *)
(* beat that comes stays in the channel (server.go:115-126).                 *)
LEMMA PassTimeInv ==
    ASSUME Inv, PassTime
    PROVE  Inv'
  <1> USE DEF runUntil
  <1>1. /\ Running /\ UNCHANGED <<stop, synced, main, loop, behind, last, prev, outcome>>
        /\ Beat /\ tickLastStart' = Older(tickLastStart)
        /\ scraping' = IF loop = "scrape" THEN scraping + 1 ELSE scraping
        /\ sinceStore' = sinceStore + 1
    BY DEF PassTime, Advance, Running
  <1>2. /\ loop = "scrape" => scraping < TickLimit
        /\ loop = "select" => tickC = None
    BY <1>1, TimesAssumption DEF PassTime, Due, Overdue, Inv, TypeOK
  <1>3. /\ tickLastStart \in Nat /\ tickLastStart' = tickLastStart + 1
        /\ fire \in 1..Resolution /\ scraping \in 0..TickLimit /\ behind \in 0..TickLimit
        /\ tickC \in Nat \cup {None}
    BY <1>1, NoneAssumption DEF Inv, TypeOK, Ages, BeatInv, Older
  <1>4. /\ fire = 1 => fire' = Resolution
        /\ fire # 1 => fire' = fire - 1
        /\ tickC = None => tickC' = IF fire = 1 THEN 0 ELSE None
        /\ tickC # None => tickC' = tickC + 1
    BY <1>1, <1>3 DEF Beat, Older
  <1>5. TypeOK'
    <2>1. fire' \in 1..Resolution /\ tickC' \in Ages /\ tickLastStart' \in Ages
      BY <1>3, <1>4, TimesAssumption DEF Ages
    <2>2. scraping' \in 0..TickLimit /\ sinceStore' \in Nat
      BY <1>1, <1>2, <1>3, TimesAssumption DEF Inv, TypeOK
    <2> QED
      BY <1>1, <2>1, <2>2 DEF Inv, TypeOK
  <1>6. BeatInv'
    <2>1. CASE loop = "scrape"
      <3>1. /\ scraping' = scraping + 1
            /\ scraping <= tickLastStart /\ tickLastStart <= behind + scraping
        BY <1>1, <2>1 DEF Inv, BeatInv
      <3>2. CASE tickC = None
        <4>1. Resolution <= tickLastStart + fire /\ tickLastStart + fire <= behind + Resolution
          BY <1>1, <3>2 DEF Inv, BeatInv
        <4> QED
          BY <1>1, <1>3, <1>4, <2>1, <3>1, <3>2, <4>1, TimesAssumption, NoneAssumption
          DEF BeatInv, Running
      <3>3. CASE tickC # None
        <4>1. /\ tickC \in Nat /\ Resolution <= tickC + fire
              /\ tickC + Resolution <= tickLastStart /\ tickC <= scraping
          BY <1>1, <1>3, <2>1, <3>3 DEF Inv, BeatInv
        <4>2. tickC' \in Nat /\ Resolution <= tickC' + fire'
          BY <1>3, <1>4, <3>3, <4>1, TimesAssumption
        <4> QED
          BY <1>1, <1>3, <1>4, <2>1, <3>1, <3>3, <4>1, <4>2, TimesAssumption, NoneAssumption
          DEF BeatInv, Running
      <3> QED
        BY <3>2, <3>3
    <2>2. CASE loop = "select"
      <3>1. /\ tickC = None
            /\ Resolution <= tickLastStart + fire /\ tickLastStart + fire <= behind + Resolution
        BY <1>1, <1>2, <2>2 DEF Inv, BeatInv
      <3> QED
        BY <1>1, <1>3, <1>4, <2>2, <3>1, TimesAssumption, NoneAssumption DEF BeatInv, Running
    <2> QED
      BY <1>1, <2>1, <2>2 DEF Running
  <1>7. StoreInv'
    BY <1>1, <1>2, <1>3, <1>4, TimesAssumption, NoneAssumption
    DEF Inv, TypeOK, StoreInv, Running
  <1> QED
    BY <1>5, <1>6, <1>7 DEF Inv

(* Every step of the server keeps the invariant.                              *)
LEMMA NextInv ==
    Inv /\ [Next]_vars => Inv'
  <1> SUFFICES ASSUME Inv, [Next]_vars PROVE Inv'
    OBVIOUS
  <1>1. ASSUME UNCHANGED vars PROVE Inv'
    BY <1>1 DEF vars, Inv, TypeOK, BeatInv, StoreInv, Running
  <1> QED
    BY <1>1, RunUntilInv, BeginTickInv, EndTickInv, SelectDoneInv, PassTimeInv DEF Next

(* The invariant holds of every reachable state of the server.                *)
LEMMA Invariance ==
    Spec => []Inv
  BY InitInv, NextInv, PTL DEF Spec, SafeSpec

-----------------------------------------------------------------------------
(* The liveness probe passes at every moment of the scrape loop, whatever    *)
(* the kubelets do, until the ticks are more than half a period behind: the  *)
(* last tick started no longer ago than the longer of a period and what it   *)
(* has run, and as much as the ticks before it were behind (server.go:114-   *)
(* 145, 171-183).                                                            *)
THEOREM CollectionIsTimely ==
    Spec => []CollectionTimely
  <1>1. Inv => CollectionTimely
    <2> SUFFICES ASSUME Inv, Running, 2 * (behind + Excess(scraping)) <= Resolution
                 PROVE  Livez
      BY DEF CollectionTimely
    <2>1. /\ tickLastStart \in Nat
          /\ behind \in 0..TickLimit /\ scraping \in 0..TickLimit /\ fire \in 1..Resolution
      BY DEF Inv, TypeOK, BeatInv
    <2>2. \/ tickLastStart <= behind + scraping
          \/ tickLastStart <= behind + Resolution
      <3>1. CASE loop = "scrape"
        BY <3>1 DEF Inv, BeatInv, Running
      <3>2. CASE loop = "select" /\ tickC # None
        BY <3>2 DEF Inv, BeatInv, Running
      <3>3. CASE tickC = None
        <4>1. tickLastStart + fire <= behind + Resolution
          BY <3>3 DEF Inv, BeatInv
        <4> QED
          BY <2>1, <4>1, TimesAssumption
      <3> QED
        BY <3>1, <3>2, <3>3 DEF Running
    <2>3. \/ scraping <= Resolution /\ Excess(scraping) = 0
          \/ Excess(scraping) = scraping - Resolution
      BY <2>1, TimesAssumption DEF Excess
    <2>4. ~(2 * tickLastStart > 3 * Resolution)
      <3>1. Excess(scraping) \in 0..TickLimit
        BY <2>1, ExcessType
      <3>2. tickLastStart <= behind + Excess(scraping) + Resolution
        BY <2>1, <2>2, <2>3, <3>1, TimesAssumption
      <3> QED
        BY <2>1, <3>1, <3>2, TimesAssumption
    <2> QED
      BY <2>4 DEF Livez, CollectionTimelyPasses, MetadataInformerSyncPasses, StartedByFactory
  <1> QED
    BY <1>1, Invariance, PTL

(* What the storage holds was stored within the last period and the length   *)
(* of a tick, because every tick, even one without answers, stores, and the  *)
(* next one follows within a period (server.go:117-124, 138-144).            *)
THEOREM NothingStaleIsServed ==
    Spec => []NothingStaleServed
  <1>1. Inv => NothingStaleServed
    BY TimesAssumption DEF Inv, TypeOK, StoreInv, Running, NothingStaleServed
  <1> QED
    BY <1>1, Invariance, PTL
=============================================================================
