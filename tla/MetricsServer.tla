---------------------------- MODULE MetricsServer ----------------------------
(***************************************************************************)
(* The parts put together: each tick of the server's loop (Server) is a    *)
(* Scrape with its goroutines (Scraper) under a context that ends with the *)
(* period and is cancelled when RunUntil returns; the batch goes into the  *)
(* node storage (StorageData), which the probes and the API read.          *)
(*                                                                         *)
(* Timestamps are kept relative to the present, the time Now: as time      *)
(* passes they fall.  Only differences of timestamps matter to the code,   *)
(* and MaxAge bounds how old a stored one is.  Kubelets report points that *)
(* are up to Lag old; their counters and memory stand still.               *)
(***************************************************************************)
EXTENDS Integers, FiniteSets

CONSTANTS
    Nodes, NoSource,  \* see Scraper
    Resolution, ScrapeTimeout, DelayPerSource, MaxDelay,  \* see Server and Scraper
    Lists,            \* what the node lister may return
    Lag,              \* how old the newest point of a kubelet may be
    MaxAge,           \* bound: the oldest a stored point ever is
    NoPoint, None     \* see Points and Server

(* See Scraper and Server; the validated options put a period above any      *)
(* sleep.  A last point is replaced within two periods, and a previous one   *)
(* with the last one it precedes.                                            *)
ASSUME CompositionAssumption ==
    /\ IsFiniteSet(Nodes) /\ NoSource \notin Nodes /\ None \notin Nat
    /\ Lists \subseteq SUBSET Nodes
    /\ {Resolution, ScrapeTimeout, DelayPerSource} \subseteq Nat \ {0}
    /\ MaxDelay \in 2 .. Resolution
    /\ {Lag, MaxAge} \subseteq Nat
    /\ 4 * Resolution + 2 * Lag <= MaxAge

VARIABLES
    stop, synced, main, loop, fire, tickC, tickLastStart, scraping, outcome, sinceStore,
                                                      \* see Server
    pc, listed, goroutine, channel, received, res,    \* see Scraper
    measured,  \* the timestamp in each goroutine's answer
    store      \* the node storage, [last, prev]

server == <<stop, synced, main, loop, fire, tickC, tickLastStart, outcome, sinceStore>>
scraper == <<pc, listed, goroutine, channel, received, res>>
vars == <<server, scraping, scraper, measured, store>>

(* Computing takes no time, and a Scrape ends with the context tick gives   *)
(* it; how long a tick has run is also the time since Scrape was called.    *)
Scr == INSTANCE Scraper WITH
    Pods <- {}, BaseTimeout <- Resolution, elapsed <- scraping

Data == INSTANCE StorageData WITH
    Pods <- {}, Containers <- {}, FreshMin <- 1, MaxDuration <- MaxAge, MaxInt64 <- 1,
    Undefined <- NoPoint, NotServed <- NoPoint

Holds(points) == \E n \in Nodes : points[n] # NoPoint

(* No tick outlasts its period, so the ticks are never behind. *)
Srv == INSTANCE Server WITH
    TickLimit <- Resolution, behind <- 0,
    last <- Holds(store.last), prev <- Holds(store.prev)

Now == MaxAge + 1
Point(t) ==
    [StartTime |-> 0, Timestamp |-> t, CumulativeCpuUsed |-> 0, MemoryUsage |-> 0]

ASSUME NoPointAssumption == NoPoint \notin {Point(t) : t \in 0 .. Now}

Init ==
    /\ store = [last |-> Data!NoNodes, prev |-> Data!NoNodes]
    /\ measured = [n \in Nodes |-> 0]
    /\ Scr!Init /\ Srv!Init

-----------------------------------------------------------------------------
(* Steps of one part alone *)

(* stopCh stays open: what closing it does before the API is served is      *)
(* checked of Server alone, and afterwards it makes Run return, which Run   *)
(* also does with an error.                                                 *)
RunUntil ==
    /\ UNCHANGED <<scraper, measured, store>>
    /\ \/ \E informer \in {"nodes", "pods"} : Srv!Sync(informer)
       \/ Srv!CacheSynced
       \/ Srv!ServeReturns
       \/ Srv!SelectDone

Scrape ==
    /\ UNCHANGED <<server, measured, store>>
    /\ \/ \E n \in Nodes : Scr!Step(n) \/ Scr!KubeletFails(n)
       \/ Scr!Receive
       \/ Scr!Return

-----------------------------------------------------------------------------
(* Steps of two parts *)

(* tick calls Scrape with the nodes of the lister. *)
BeginTick ==
    /\ UNCHANGED <<measured, store>>
    /\ Srv!FirstTick \/ Srv!SelectTick
    /\ \E list \in Lists : Scr!StartScrape(list)

(* Mutant: requests outlive the context. *)
RequestsLinger == TRUE

(* A request under a cancelled context fails at once. *)
RequestsEnd == Srv!Cancelled => \A n \in listed : goroutine[n].pc # "request"

(* A kubelet answers with its newest point.  An answer without the node's   *)
(* point is to the node storage what a failure is.                          *)
KubeletAnswers(n) ==
    /\ ~Srv!Cancelled
    /\ UNCHANGED <<server, store>>
    /\ Scr!KubeletAnswers(n) /\ goroutine'[n].msg.node
    /\ \E age \in 0 .. Lag : measured' = [measured EXCEPT ![n] = Now - age]

Classify(batch, prev) ==
    IF ~Holds(batch) THEN "none" ELSE IF Holds(prev) THEN "new" ELSE "other"

(* Scrape returns and tick stores the batch. *)
EndTick ==
    LET batch == [n \in Nodes |-> IF res.Nodes[n] = NoSource THEN NoPoint
                                  ELSE Point(measured[n])]
    IN  /\ loop = "scrape"
        /\ Scr!Deliver
        /\ store' = Data!nodeStore(store, batch)
        /\ outcome' = Classify(batch, store'.prev)
        /\ loop' = "select" /\ sinceStore' = 0
        /\ measured' = [n \in Nodes |-> 0]
        /\ UNCHANGED <<stop, synced, main, fire, tickC, tickLastStart>>

Fall(points) ==
    [n \in Nodes |-> IF points[n] = NoPoint THEN NoPoint
                     ELSE Point(points[n].Timestamp - 1)]

(* Time passes when no goroutine of the process can run. *)
PassTime ==
    /\ store' = [last |-> Fall(store.last), prev |-> Fall(store.prev)]
    /\ measured' = [n \in Nodes |-> IF measured[n] = 0 THEN 0 ELSE measured[n] - 1]
    /\ RequestsEnd
    /\ \/ loop = "select" /\ tickC = None /\ ~Srv!Cancelled
       \/ loop = "scrape" /\ ~Scr!Busy
    /\ pc # "return"
    /\ Srv!Advance
    /\ UNCHANGED scraper

Next ==
    \/ RunUntil \/ Scrape
    \/ BeginTick \/ EndTick
    \/ \E n \in Nodes : KubeletAnswers(n)
    \/ PassTime

Spec == Init /\ [][Next]_vars

-----------------------------------------------------------------------------
(* Timestamps lie between the bound and the present. *)
TypeOK ==
    /\ Srv!TypeOK /\ Scr!TypeOK
    /\ measured \in [Nodes -> 0 .. Now]
    /\ \A n \in Nodes :
        {store.last[n], store.prev[n]} \subseteq {Point(t) : t \in 1 .. Now} \cup {NoPoint}

(* The composition is a server as module Server describes it: Scrape, with  *)
(* its sleeps and its timeouts, ends every tick with the period at the      *)
(* latest, and the storage is ready when the batches say so                 *)
(* (server.go:114-145, scraper.go:115-184).                                 *)
ImplementsServer == Srv!SafeSpec

(* Once RunUntil has returned, a scrape goes on no longer than the longest  *)
(* sleep after its start: the sleeps ignore the cancelled context, and      *)
(* every request under it fails at once (server.go:91-92, 133;              *)
(* scraper.go:137-143).                                                     *)
EndsWhenCancelled == [][Srv!Cancelled /\ scraping' > scraping => scraping' < MaxDelay]_vars

(* While the loop runs, what the API serves of a node was measured no more  *)
(* than two periods and the kubelet's own lag ago, however kubelets fail    *)
(* and however long they take.                                              *)
ServedIsFresh ==
    Srv!Running =>
        \A n \in Nodes : Data!NodeServed(store, n) =>
            Now - store.last[n].Timestamp <= 2 * Resolution + Lag
=============================================================================
