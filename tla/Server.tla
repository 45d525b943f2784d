------------------------------- MODULE Server -------------------------------
(***************************************************************************)
(* The server's life (pkg/server/server.go): RunUntil waits for the two    *)
(* informers and then serves, while runScrape calls tick on every beat of  *)
(* a ticker; the probes read what both leave behind.                       *)
(*                                                                         *)
(* Time passes in discrete steps.  Points in time are kept as ages, so     *)
(* that the state stays finite although the server runs for ever.  A tick  *)
(* is represented by how long it takes and by what its batch makes of the  *)
(* storage.  Scrape is given the whole period, counted from the start of   *)
(* the tick, and merging the answers and storing them come on top, so that *)
(* a tick may outlast its period.                                          *)
(***************************************************************************)
EXTENDS Integers

CONSTANTS
    Resolution,  \* the scrape period, --metric-resolution
    TickLimit,   \* the longest a tick takes: Scrape until its deadline, then Store
    None         \* no such time

ASSUME TimesAssumption == {Resolution, TickLimit} \subseteq Nat \ {0}

ASSUME NoneAssumption == None \notin Nat

VARIABLES
    stop,           \* stopCh is closed
    synced,         \* the informers whose HasSynced is true
    main,           \* RunUntil: waiting for "nodes" or "pods", "serve" or "return"
    loop,           \* runScrape: "none", "start", "scrape", "select" or "end"
    fire,           \* until the ticker's next beat
    tickC,          \* the age of the beat in ticker.C, whose capacity is 1, or None
    tickLastStart,  \* the age of the field, or None while it is zero
    scraping,       \* how long the current tick has run, or the last one did
    behind,         \* history: how much longer than their periods the ticks before
                    \* it took, less what shorter ones made up for
    last, prev,     \* whether the storage holds last and previous points
    outcome,        \* of the last tick
    sinceStore      \* the time since a tick last ended

vars == <<stop, synced, main, loop, fire, tickC, tickLastStart, scraping, behind, last, prev,
          outcome, sinceStore>>
runUntil == <<stop, synced, main>>
ticker == <<fire, tickC>>
ticks == <<tickLastStart, scraping, behind>>
storage == <<last, prev, outcome, sinceStore>>

Init ==
    /\ stop = FALSE
    /\ synced = {}
    /\ main = "nodes"
    /\ loop = "none"
    /\ fire = Resolution
    /\ tickC = None
    /\ tickLastStart = None
    /\ scraping = 0 /\ behind = 0
    /\ last = FALSE /\ prev = FALSE
    /\ outcome = "none"
    /\ sinceStore = 0

-----------------------------------------------------------------------------
(* RunUntil *)

CloseStop ==
    /\ ~stop
    /\ stop' = TRUE
    /\ UNCHANGED <<synced, main, loop, ticker, ticks, storage>>

Sync(informer) ==
    /\ informer \notin synced
    /\ synced' = synced \cup {informer}
    /\ UNCHANGED <<stop, main, loop, ticker, ticks, storage>>

(* WaitForCacheSync returns true; after the second one the scrape loop is   *)
(* started and the API served.                                              *)
CacheSynced ==
    /\ main \in synced
    /\ main' = IF main = "nodes" THEN "pods" ELSE "serve"
    /\ loop' = IF main = "nodes" THEN "none" ELSE "start"
    /\ UNCHANGED <<stop, synced, ticker, ticks, storage>>

(* Mutant: stopCh is not heeded while waiting for the pods. *)
CacheSyncStoppedNodes ==
    /\ stop
    /\ main = "nodes"
    /\ main' = "return"
    /\ UNCHANGED <<stop, synced, loop, ticker, ticks, storage>>

(* WaitForCacheSync returns false. *)
CacheSyncStopped ==
    /\ stop
    /\ main \in {"nodes", "pods"}
    /\ main' = "return"
    /\ UNCHANGED <<stop, synced, loop, ticker, ticks, storage>>

(* The API server's Run returns, because of stopCh or with an error. *)
ServeReturns ==
    /\ main = "serve"
    /\ main' = "return"
    /\ UNCHANGED <<stop, synced, loop, ticker, ticks, storage>>

(* Mutant: RunUntil does not cancel its context. *)
NeverCancelled == FALSE

(* The deferred cancel(). *)
Cancelled == main = "return"

-----------------------------------------------------------------------------
(* runScrape *)

(* By how much a time exceeds a period.  A beat waits no longer than a tick  *)
(* takes, and more than that need not be told apart.                         *)
Excess(time) ==
    IF time <= Resolution THEN 0
    ELSE IF time - Resolution < TickLimit THEN time - Resolution
    ELSE TickLimit

(* tick up to its call of Scrape, with the age of startTime. *)
BeginTick(age) ==
    /\ tickLastStart' = age
    /\ scraping' = 0
    /\ behind' = Excess(behind + scraping)
    /\ loop' = "scrape"

FirstTick ==
    /\ loop = "start"
    /\ fire' = Resolution
    /\ tickC' = None
    /\ BeginTick(0)
    /\ UNCHANGED <<runUntil, storage>>

SelectTick ==
    /\ loop = "select"
    /\ tickC # None
    /\ tickC' = None
    /\ BeginTick(tickC)
    /\ UNCHANGED <<runUntil, fire, storage>>

SelectDone ==
    /\ loop = "select"
    /\ Cancelled
    /\ loop' = "end"
    /\ UNCHANGED <<runUntil, ticker, ticks, storage>>

(* What a batch does to the storage: "none" when no kubelet answered, "new" *)
(* for newer points, "same" for those already stored, "fresh" when one is   *)
(* of a fresh container, and "other" when no point follows a stored one.    *)
Outcomes == {"none", "new", "same", "fresh", "other"}

(* Mutant: the new points are not kept as last. *)
StoreForgetful(batch) ==
    /\ last' = FALSE
    /\ prev' = CASE batch \in {"none", "other"} -> FALSE
                 [] batch = "new"   -> last
                 [] batch = "same"  -> last /\ prev
                 [] batch = "fresh" -> TRUE
    /\ outcome' = batch
    /\ sinceStore' = 0

(* Mutant: an empty batch is not stored. *)
StoreNonEmpty(batch) ==
    /\ last' = (batch # "none" \/ last)
    /\ prev' = CASE batch = "none"  -> prev
                 [] batch = "other" -> FALSE
                 [] batch = "new"   -> last
                 [] batch = "same"  -> last /\ prev
                 [] batch = "fresh" -> TRUE
    /\ outcome' = batch
    /\ sinceStore' = IF batch = "none" THEN sinceStore ELSE 0

Store(batch) ==
    /\ last' = (batch # "none")
    /\ prev' = CASE batch \in {"none", "other"} -> FALSE
                 [] batch = "new"   -> last
                 [] batch = "same"  -> last /\ prev
                 [] batch = "fresh" -> TRUE
    /\ outcome' = batch
    /\ sinceStore' = 0

(* Scrape returns and its batch is stored. *)
EndTick ==
    /\ loop = "scrape"
    /\ \E batch \in Outcomes : Store(batch)
    /\ loop' = "select"
    /\ UNCHANGED <<runUntil, ticker, ticks>>

(* The context given to Scrape has expired, and its batch been stored. *)
Overdue == scraping >= TickLimit

-----------------------------------------------------------------------------
(* Some step of this process is due. *)
Due ==
    \/ loop = "start"
    \/ loop = "select" /\ (tickC # None \/ Cancelled)
    \/ loop = "scrape" /\ Overdue

Older(age) == IF age = None THEN None ELSE age + 1

(* Mutant: a beat is lost unless the loop waits for it. *)
BeatUnbuffered ==
    /\ fire' = IF fire = 1 THEN Resolution ELSE fire - 1
    /\ tickC' = IF fire = 1 /\ loop = "select" THEN 0 ELSE Older(tickC)

(* A beat finds the channel empty, or is dropped. *)
Beat ==
    /\ fire' = IF fire = 1 THEN Resolution ELSE fire - 1
    /\ tickC' = IF fire = 1 /\ tickC = None THEN 0 ELSE Older(tickC)

Advance ==
    /\ loop \in {"scrape", "select"}
    /\ Beat
    /\ tickLastStart' = Older(tickLastStart)
    /\ scraping' = IF loop = "scrape" THEN scraping + 1 ELSE scraping
    /\ sinceStore' = sinceStore + 1
    /\ UNCHANGED <<runUntil, loop, behind, last, prev, outcome>>

PassTime == ~Due /\ Advance

LoopStep == FirstTick \/ SelectTick \/ SelectDone \/ (Overdue /\ EndTick)

Next ==
    \/ CloseStop
    \/ \E informer \in {"nodes", "pods"} : Sync(informer)
    \/ CacheSynced
    \/ CacheSyncStopped
    \/ ServeReturns
    \/ FirstTick
    \/ SelectTick
    \/ SelectDone
    \/ EndTick
    \/ PassTime

(* Goroutines run when they can, time passes, and the API server heeds      *)
(* stopCh.  select chooses at random among the cases that are ready, so it  *)
(* does not pass over ctx.Done() for ever: ticks that outlast their period  *)
(* may leave a beat waiting each time.  Nothing obliges an informer to sync,*)
(* or stopCh to be closed.                                                  *)
Fairness ==
    /\ WF_vars(PassTime)
    /\ WF_vars(LoopStep)
    /\ SF_vars(SelectDone)
    /\ WF_vars(CacheSynced \/ CacheSyncStopped)
    /\ WF_vars(stop /\ ServeReturns)

SafeSpec == Init /\ [][Next]_vars
Spec == SafeSpec /\ Fairness

-----------------------------------------------------------------------------
(* The probes *)

(* probeMetricCollectionTimely *)
CollectionTimelyPasses == tickLastStart = None \/ ~(2 * tickLastStart > 3 * Resolution)

(* probeMetricStorageReady, by way of storage.Ready *)
StorageReadyPasses == prev

(* probeMetricCacheHasSynced *)
CacheHasSyncedPasses == synced = {"nodes", "pods"}

(* external: the informers the factory's WaitForCacheSync reports on are    *)
(* those started through the factory, and RunUntil starts both itself.      *)
StartedByFactory == {}

(* metadataInformerSync.Check: each informer reported has synced. *)
MetadataInformerSyncPasses == StartedByFactory \subseteq synced

Readyz == StorageReadyPasses /\ CacheHasSyncedPasses /\ MetadataInformerSyncPasses
Livez == CollectionTimelyPasses /\ MetadataInformerSyncPasses

Running == loop \in {"scrape", "select"}

Ages == Nat \cup {None}

(* The types of the server's fields, its channel and its ages. *)
TypeOK ==
    /\ stop \in BOOLEAN
    /\ synced \subseteq {"nodes", "pods"}
    /\ main \in {"nodes", "pods", "serve", "return"}
    /\ loop \in {"none", "start", "scrape", "select", "end"}
    /\ fire \in 1..Resolution
    /\ tickC \in Ages
    /\ tickLastStart \in Ages
    /\ scraping \in 0..TickLimit /\ behind \in 0..TickLimit
    /\ last \in BOOLEAN /\ prev \in BOOLEAN
    /\ outcome \in Outcomes
    /\ sinceStore \in Nat

(* The liveness probe tolerates ticks that outlast their period: it passes  *)
(* until they are half a period behind altogether, although the time a tick *)
(* starts with is when the ticker beat, which is earlier when the beat had  *)
(* to wait in the channel, and beats are dropped meanwhile (server.go:119,  *)
(* 127-129, 175-177).                                                       *)
CollectionTimely == Running /\ 2 * (behind + Excess(scraping)) <= Resolution => Livez

(* What the storage serves was stored within a period and the length of a   *)
(* tick: a scrape that fails, even with no answer at all, replaces the      *)
(* older points (server.go:140), and a tick that outlasts its period is     *)
(* followed by the next one at once, by the beat that waits (server.go:119).*)
NothingStaleServed == Running /\ last => sinceStore <= Resolution + TickLimit

(* Once every scrape brings newer points, every check of the readiness      *)
(* probe passes for good, whatever happened before (server.go:147-165, 187, *)
(* 199; storage/node.go:81).                                                *)
EventuallyReady == <>[](main = "serve" /\ outcome = "new") => <>[]Readyz

(* When RunUntil returns, the scrape loop ends although select may prefer   *)
(* the ticker to ctx.Done() each time both are ready (server.go:118-124).   *)
LoopEnds == (main = "return" /\ loop # "none") ~> (loop = "end")

(* Closing stopCh makes RunUntil return from wherever it is, also while it  *)
(* waits for an informer that never syncs (server.go:99-106).               *)
StopReturns == stop ~> (main = "return")
=============================================================================
