------------------------- MODULE MetricsServerProofs ------------------------
(***************************************************************************)
(* For any nodes, times and lists: the parts put together behave as module *)
(* Server says of a server and as module Scraper says of its scrapes, and  *)
(* what is served is fresh.                                                *)
(***************************************************************************)
EXTENDS MetricsServer, FiniteSetTheorems, TLAPS

ScrP == INSTANCE ScraperProofs WITH
    Pods <- {}, BaseTimeout <- Resolution, elapsed <- scraping

SrvP == INSTANCE ServerProofs WITH
    TickLimit <- Resolution, behind <- 0,
    last <- Holds(store.last), prev <- Holds(store.prev)


(* Both instances count sets alike. *)
LEMMA SameCounts ==
    /\ \A S : Scr!Cardinality(S) = ScrP!Cardinality(S)
    /\ \A S : Cardinality(S) = ScrP!Cardinality(S)
    /\ \A S : IsFiniteSet(S) = ScrP!IsFiniteSet(S)
  BY DEF Scr!Cardinality, ScrP!Cardinality, Cardinality, IsFiniteSet, ScrP!IsFiniteSet

(* The assumptions of the two modules. *)
LEMMA ScraperAssumptions ==
    /\ {ScrapeTimeout, Resolution, DelayPerSource, MaxDelay} \subseteq Nat \ {0}
    /\ MaxDelay <= Resolution
    /\ NoSource \notin Nodes
    /\ ScrP!IsFiniteSet(Nodes)
  BY CompositionAssumption, SameCounts

(* What Server assumes of its constants holds of those it is given here.      *)
LEMMA ServerAssumptions ==
    /\ {Resolution, Resolution} \subseteq Nat \ {0}
    /\ None \notin Nat
  BY CompositionAssumption

-----------------------------------------------------------------------------
(* A scrape is under way exactly while a tick is, and answers are kept no    *)
(* longer.  A point that a kubelet answered with was new, up to its lag,     *)
(* when it answered.                                                         *)
AnswerInv ==
    /\ loop = "scrape" <=> pc # "idle"
    /\ measured \in [Nodes -> 0 .. Now]
    /\ \A n \in Nodes :
        /\ measured[n] # 0 => loop = "scrape" /\ Now - measured[n] <= Lag + scraping
        /\ goroutine[n].msg.node => measured[n] # 0

(* How old a last point may be. *)
OldestLast ==
    IF loop = "select" THEN Lag + tickLastStart
    ELSE IF loop = "scrape" THEN Lag + Resolution + tickLastStart
    ELSE Lag + 2 * Resolution

(* A last point is no older than that, and the previous point was the last   *)
(* one when something newer came.                                            *)
Aged(last, prev, oldest) ==
    /\ last = NoPoint => prev = NoPoint
    /\ last # NoPoint => \E t \in 1 .. Now :
        /\ last = Point(t) /\ Now - t <= oldest
        /\ prev # NoPoint => \E u \in 1 .. Now :
            prev = Point(u) /\ u < t /\ t - u <= 2 * Resolution + Lag

AgeInv == \A n \in Nodes : Aged(store.last[n], store.prev[n], OldestLast)

Inv == ScrP!Inv /\ SrvP!Inv /\ AnswerInv /\ AgeInv

-----------------------------------------------------------------------------
(* Every step of the composition is a step of the scraper, or leaves it      *)
(* alone (server.go:126-140).                                                *)
LEMMA ScraperStep ==
    ASSUME loop = "scrape" => pc # "idle", pc \in {"idle", "collect", "return"}, [Next]_vars
    PROVE  [ScrP!Next]_(ScrP!vars)
  <1>1. CASE UNCHANGED vars
    BY <1>1 DEF vars, scraper, ScrP!vars
  <1>2. CASE RunUntil
    BY <1>2 DEF RunUntil, scraper, ScrP!vars, Srv!ticks,
                Srv!Sync, Srv!CacheSynced, Srv!ServeReturns, Srv!SelectDone
  <1>3. CASE Scrape
    <2>1. ASSUME NEW n \in Nodes, Scr!Step(n) PROVE ScrP!Step(n)
      BY <2>1, SameCounts
      DEF Scr!Step, Scr!Wake, Scr!DeadlineExceeded, Scr!Send,
          Scr!Collected, Scr!Goroutine, Scr!nil, Scr!MinOf, Scr!scrape,
          ScrP!Step, ScrP!Wake, ScrP!DeadlineExceeded, ScrP!Send,
          ScrP!Collected, ScrP!Goroutine, ScrP!nil, ScrP!MinOf, ScrP!scrape
    <2>2. ASSUME NEW n \in Nodes, Scr!KubeletFails(n) PROVE ScrP!KubeletFails(n)
      BY <2>2
      DEF Scr!KubeletFails, Scr!Collected, Scr!Goroutine, Scr!nil, Scr!scrape,
          ScrP!KubeletFails, ScrP!Collected, ScrP!Goroutine, ScrP!nil, ScrP!scrape
    <2>3. ASSUME Scr!Receive PROVE ScrP!Receive
      BY <2>3, SameCounts DEF Scr!Receive, Scr!Merge, ScrP!Receive, ScrP!Merge
    <2>4. ASSUME Scr!Return PROVE ScrP!Return
      BY <2>4, SameCounts DEF Scr!Return, ScrP!Return
    <2> QED
      BY <1>3, <2>1, <2>2, <2>3, <2>4 DEF Scrape, ScrP!Next
  <1>4. CASE BeginTick
    <2>1. PICK list \in Lists : Scr!StartScrape(list)
      BY <1>4 DEF BeginTick
    <2>2. ScrP!StartScrape(list)
      BY <2>1, SameCounts
      DEF Scr!StartScrape, Scr!Delays, Scr!MinOf, Scr!Goroutine, Scr!NoGoroutine, Scr!nil,
          Scr!EmptyBatch, ScrP!StartScrape, ScrP!Delays, ScrP!MinOf, ScrP!Goroutine,
          ScrP!NoGoroutine, ScrP!nil, ScrP!EmptyBatch
    <2> QED
      BY <2>2, CompositionAssumption DEF ScrP!Next
  <1>5. CASE EndTick
    <2>1. ScrP!Deliver
      BY <1>5 DEF EndTick, Scr!Deliver, Scr!Goroutine, Scr!NoGoroutine, Scr!nil,
                  Scr!EmptyBatch, ScrP!Deliver, ScrP!Goroutine, ScrP!NoGoroutine, ScrP!nil,
                  ScrP!EmptyBatch
    <2> QED
      BY <2>1 DEF ScrP!Next
  <1>6. ASSUME NEW n \in Nodes, KubeletAnswers(n) PROVE ScrP!Next
    <2>1. ScrP!KubeletAnswers(n)
      BY <1>6
      DEF KubeletAnswers, Scr!KubeletAnswers, Scr!Response, Scr!Collected, Scr!Goroutine,
          Scr!scrape, ScrP!KubeletAnswers, ScrP!Response, ScrP!Collected, ScrP!Goroutine,
          ScrP!scrape
    <2> QED
      BY <2>1 DEF ScrP!Next
  <1>7. CASE PassTime
    <2>1. CASE loop = "scrape"
      <3>1. pc = "collect" /\ ~Scr!Busy /\ scraping' = scraping + 1 /\ UNCHANGED scraper
        BY <1>7, <2>1 DEF PassTime, Srv!Advance
      <3>2. ~ScrP!Busy
        BY <3>1, SameCounts DEF Scr!Busy, ScrP!Busy
      <3>3. ScrP!Tick
        BY <3>1, <3>2 DEF scraper, ScrP!Tick, ScrP!scrape
      <3> QED
        BY <3>3 DEF ScrP!Next
    <2>2. CASE loop = "select"
      BY <1>7, <2>2 DEF PassTime, Srv!Advance, scraper, ScrP!vars
    <2> QED
      BY <1>7, <2>1, <2>2 DEF PassTime
  <1> QED
    BY <1>1, <1>2, <1>3, <1>4, <1>5, <1>6, <1>7 DEF Next

-----------------------------------------------------------------------------
(* Time passes in a scrape only before the deadline of its context and, once *)
(* that is cancelled, only while some goroutine sleeps (scraper.go:137-143,  *)
(* server.go:92, 133).                                                       *)
LEMMA NotOverdue ==
    ASSUME Inv, PassTime, loop = "scrape"
    PROVE  scraping < Resolution /\ (main = "return" => scraping < MaxDelay - 1)
  <1>1. pc = "collect" /\ ~Scr!Busy /\ scraping \in Nat
    BY DEF Inv, AnswerInv, ScrP!Inv, ScrP!TypeOK, PassTime
  <1>2. received # ScrP!Cardinality(listed) /\ channel = << >>
    BY <1>1, SameCounts DEF Scr!Busy
  <1>3. listed \in SUBSET Nodes
    BY DEF Inv, ScrP!Inv, ScrP!TypeOK
  <1>4. ScrP!Unsent # {}
    <2>1. received + 0 + ScrP!Cardinality(ScrP!Unsent) = ScrP!Cardinality(listed)
      BY <1>2 DEF Inv, ScrP!Inv, ScrP!ChannelInv
    <2>2. ScrP!Cardinality({}) = 0
      BY SameCounts, FS_EmptySet
    <2>3. received \in Nat
      BY SameCounts, CompositionAssumption, FS_CardinalityType
      DEF Inv, ScrP!Inv, ScrP!TypeOK
    <2>4. received + 0 + 0 # ScrP!Cardinality(listed)
      BY <1>2, <2>3
    <2> QED
      BY <2>1, <2>2, <2>4, Zenon
  <1>5. PICK n \in ScrP!Unsent : TRUE
    BY <1>4
  <1>6. n \in listed /\ n \in Nodes
    BY <1>3 DEF Inv, ScrP!Inv, ScrP!ChannelInv
  <1>7. goroutine[n].pc \in {"sleep", "request"}
    BY <1>1, <1>6 DEF Inv, ScrP!Inv, ScrP!TypeOK, ScrP!Unsent, Scr!Busy
  <1>8. /\ goroutine[n].wake \in Nat /\ goroutine[n].deadline \in Nat
    BY <1>6 DEF Inv, ScrP!Inv, ScrP!TypeOK
  <1>9. /\ ScrP!LongestSleep(listed) \in Nat /\ ScrP!Latest(listed) \in Nat
        /\ ScrP!LongestSleep(listed) <= MaxDelay
        /\ ScrP!LongestSleep(listed) <= ScrP!Latest(listed)
        /\ ScrP!Latest(listed) <= Resolution
    <2>1. /\ ScrP!LongestSleep(listed) \in Nat /\ ScrP!Latest(listed) \in Nat
          /\ ScrP!LongestSleep(listed) <= ScrP!Latest(listed)
          /\ ScrP!Latest(listed) <= Resolution
      BY <1>3, ScrP!Times, ScraperAssumptions
    <2>2. DelayPerSource * ScrP!Cardinality(listed) \in Nat
      <3>1. IsFiniteSet(Nodes) /\ DelayPerSource \in Nat
        BY CompositionAssumption
      <3>2. Cardinality(listed) \in Nat
        BY <1>3, <3>1, FS_Subset, FS_CardinalityType
      <3> QED
        BY <3>1, <3>2, SameCounts
    <2>3. ScrP!LongestSleep(listed) <= MaxDelay
      <3> DEFINE sleep == DelayPerSource * ScrP!Cardinality(listed)
      <3>1. ScrP!LongestSleep(listed) = ScrP!MinOf(sleep, MaxDelay) /\ sleep \in Nat
        BY <2>2 DEF ScrP!LongestSleep
      <3> HIDE DEF sleep
      <3> QED
        BY <3>1, CompositionAssumption DEF ScrP!MinOf
    <2> QED
      BY <2>1, <2>3
  <1>10. CASE goroutine[n].pc = "sleep"
    <2>1. scraping < goroutine[n].wake
      BY <1>1, <1>6, <1>8, <1>10 DEF Scr!Busy
    <2>2. goroutine[n].wake < ScrP!LongestSleep(listed)
      BY <1>5, <1>10 DEF Inv, ScrP!Inv, ScrP!TimeInv
    <2> QED
      BY <1>1, <1>8, <1>9, <2>1, <2>2, CompositionAssumption
  <1>11. CASE goroutine[n].pc = "request"
    <2>1. scraping < goroutine[n].deadline
      BY <1>1, <1>6, <1>8, <1>11 DEF Scr!Busy
    <2>2. goroutine[n].deadline <= ScrP!Latest(listed)
      BY <1>5, <1>11 DEF Inv, ScrP!Inv, ScrP!TimeInv
    <2>3. main # "return"
      BY <1>6, <1>11 DEF PassTime, RequestsEnd, Srv!Cancelled
    <2> QED
      BY <1>1, <1>8, <1>9, <2>1, <2>2, <2>3, CompositionAssumption
  <1> QED
    BY <1>7, <1>10, <1>11

(* What tick stores is one of the batches that module Server knows           *)
(* (server.go:138-144, storage/node.go:85-110).                              *)
LEMMA EndTickStores ==
    ASSUME Inv, EndTick
    PROVE  Srv!EndTick
  <1> DEFINE batch == [n \in Nodes |-> IF res.Nodes[n] = NoSource THEN NoPoint
                                       ELSE Point(measured[n])]
  <1>1. /\ loop = "scrape" /\ Scr!Deliver /\ loop' = "select" /\ sinceStore' = 0
        /\ store' = Data!nodeStore(store, batch) /\ outcome' = Classify(batch, store'.prev)
        /\ UNCHANGED <<stop, synced, main, fire, tickC, tickLastStart>>
    BY DEF EndTick
  <1> HIDE DEF batch
  <1>2. store'.last = batch
    BY <1>1 DEF Data!nodeStore
  <1>3. Holds(store'.prev) => Holds(batch) /\ Holds(store.last)
    <2>1. ASSUME NEW n \in Nodes, store'.prev[n] # NoPoint
          PROVE  batch[n] # NoPoint /\ store.last[n] # NoPoint
      BY <1>1, <2>1 DEF Data!nodeStore, Data!PrevNode
    <2> QED
      BY <2>1 DEF Holds
  <1>4. Holds(store.last)' = Holds(batch) /\ Holds(store.prev)' = Holds(store'.prev)
    BY <1>2 DEF Holds
  <1>5. Srv!Store(outcome')
    <2>1. Holds(batch) \in BOOLEAN /\ Holds(store'.prev) \in BOOLEAN /\ Holds(store.last) \in BOOLEAN
      BY DEF Holds
    <2>2. CASE ~Holds(batch)
      <3>1. outcome' = "none" /\ ~Holds(store'.prev)
        BY <1>1, <1>3, <2>2 DEF Classify
      <3> QED
        BY <1>1, <1>4, <2>1, <2>2, <3>1 DEF Srv!Store
    <2>3. CASE Holds(batch) /\ Holds(store'.prev)
      <3>1. outcome' = "new" /\ Holds(store.last)
        BY <1>1, <1>3, <2>3 DEF Classify
      <3> QED
        BY <1>1, <1>4, <2>1, <2>3, <3>1 DEF Srv!Store
    <2>4. CASE Holds(batch) /\ ~Holds(store'.prev)
      <3>1. outcome' = "other"
        BY <1>1, <2>4 DEF Classify
      <3> QED
        BY <1>1, <1>4, <2>1, <2>4, <3>1 DEF Srv!Store
    <2> QED
      BY <2>2, <2>3, <2>4
  <1>6. outcome' \in Srv!Outcomes /\ scraping' = scraping
    BY <1>1 DEF Classify, Srv!Outcomes, Scr!Deliver
  <1> QED
    BY <1>1, <1>5, <1>6 DEF Srv!EndTick, Srv!runUntil, Srv!ticker, Srv!ticks

(* Every step of the composition is a step of a server, or leaves it alone. *)
LEMMA ServerStep ==
    ASSUME Inv, [Next]_vars
    PROVE  [Srv!Next]_(Srv!vars)
  <1>1. ASSUME UNCHANGED <<server, scraping, store>> PROVE UNCHANGED Srv!vars
    BY <1>1 DEF server, Srv!vars, Holds
  <1>2. CASE UNCHANGED vars
    BY <1>1, <1>2 DEF vars
  <1>3. CASE RunUntil
    BY <1>3 DEF RunUntil, Srv!Next
  <1>4. CASE Scrape
    <2>1. UNCHANGED <<server, store, scraping>>
      BY <1>4 DEF Scrape, Scr!Step, Scr!Wake, Scr!DeadlineExceeded, Scr!Send, Scr!KubeletFails,
                  Scr!Collected, Scr!Receive, Scr!Return
    <2> QED
      BY <1>1, <2>1
  <1>5. CASE BeginTick
    BY <1>5 DEF BeginTick, Srv!Next
  <1>6. CASE EndTick
    BY <1>6, EndTickStores DEF Srv!Next
  <1>7. ASSUME NEW n \in Nodes, KubeletAnswers(n) PROVE UNCHANGED Srv!vars
    <2>1. UNCHANGED <<server, store, scraping>>
      BY <1>7 DEF KubeletAnswers, Scr!KubeletAnswers, Scr!Collected
    <2> QED
      BY <1>1, <2>1
  <1>8. CASE PassTime
    <2>1. Srv!Advance
      BY <1>8 DEF PassTime
    <2>2. ~Srv!Due
      <3>1. CASE loop = "scrape"
        <4>1. scraping \in Nat
          BY DEF Inv, ScrP!Inv, ScrP!TypeOK
        <4>2. ~Srv!Overdue
          BY <1>8, <3>1, <4>1, NotOverdue, CompositionAssumption
          DEF Srv!Overdue, Srv!Cancelled
        <4> QED
          BY <3>1, <4>2 DEF Srv!Due
      <3>2. CASE loop = "select"
        BY <1>8, <3>2 DEF PassTime, Srv!Due, Srv!Overdue, Srv!Cancelled
      <3> QED
        BY <1>8, <3>1, <3>2 DEF PassTime
    <2> QED
      BY <2>1, <2>2 DEF Srv!Next, Srv!PassTime
  <1> QED
    BY <1>2, <1>3, <1>4, <1>5, <1>6, <1>7, <1>8 DEF Next

(* A step of the one instance of Server is a step of the other. *)
LEMMA SameServer ==
    [Srv!Next]_(Srv!vars) => [SrvP!Next]_(SrvP!vars)
  BY DEF Srv!Next, Srv!vars, Srv!runUntil, Srv!ticker, Srv!ticks, Srv!storage, Srv!CloseStop,
         Srv!Sync, Srv!Excess,
         Srv!CacheSynced, Srv!CacheSyncStopped, Srv!ServeReturns, Srv!Cancelled,
         Srv!BeginTick, Srv!FirstTick, Srv!SelectTick, Srv!SelectDone, Srv!Outcomes,
         Srv!Store, Srv!EndTick, Srv!Overdue, Srv!Due, Srv!Older, Srv!Beat, Srv!Advance,
         Srv!PassTime,
         SrvP!Next, SrvP!vars, SrvP!runUntil, SrvP!ticker, SrvP!ticks, SrvP!storage,
         SrvP!CloseStop, SrvP!Sync, SrvP!Excess, SrvP!CacheSynced, SrvP!CacheSyncStopped, SrvP!ServeReturns,
         SrvP!Cancelled, SrvP!BeginTick, SrvP!FirstTick, SrvP!SelectTick, SrvP!SelectDone,
         SrvP!Outcomes, SrvP!Store, SrvP!EndTick, SrvP!Overdue, SrvP!Due, SrvP!Older,
         SrvP!Beat, SrvP!Advance, SrvP!PassTime

-----------------------------------------------------------------------------
(* As no tick outlasts its period, the last one starts with its beat, no     *)
(* longer than a period ago.                                                 *)
LEMMA LoopStarts ==
    SrvP!Inv =>
        /\ loop \in {"none", "start", "scrape", "select", "end"}
        /\ loop \in {"scrape", "select"} => tickLastStart \in 0 .. Resolution
        /\ loop = "scrape" => scraping = tickLastStart
  <1> SUFFICES ASSUME SrvP!Inv
               PROVE  /\ loop \in {"none", "start", "scrape", "select", "end"}
                      /\ loop \in {"scrape", "select"} => tickLastStart \in 0 .. Resolution
                      /\ loop = "scrape" => scraping = tickLastStart
    OBVIOUS
  <1>1. /\ loop \in {"none", "start", "scrape", "select", "end"}
        /\ scraping \in 0 .. Resolution /\ fire \in 1 .. Resolution
    BY DEF SrvP!Inv, SrvP!TypeOK
  <1>2. ASSUME loop \in {"scrape", "select"} PROVE tickLastStart \in 0 .. Resolution
    BY <1>1, <1>2, CompositionAssumption DEF SrvP!Inv, SrvP!BeatInv, SrvP!Running
  <1>3. ASSUME loop = "scrape" PROVE scraping = tickLastStart
    BY <1>1, <1>2, <1>3 DEF SrvP!Inv, SrvP!BeatInv, SrvP!Running
  <1> QED
    BY <1>1, <1>2, <1>3

(* The times of the loop, and the numbers they are compared with. *)
LEMMA LoopTimes ==
    ASSUME Inv
    PROVE  /\ Resolution \in Nat \ {0} /\ Lag \in Nat /\ MaxAge \in Nat
           /\ 4 * Resolution + 2 * Lag <= MaxAge /\ Now = MaxAge + 1
           /\ scraping \in 0 .. Resolution
           /\ loop \in {"none", "start", "scrape", "select", "end"}
           /\ loop \in {"scrape", "select"} => tickLastStart \in 0 .. Resolution
           /\ loop = "scrape" => scraping = tickLastStart
  <1>1. /\ scraping \in 0 .. Resolution
        /\ loop \in {"none", "start", "scrape", "select", "end"}
    BY DEF Inv, SrvP!Inv, SrvP!TypeOK
  <1>2. /\ loop \in {"scrape", "select"} => tickLastStart \in 0 .. Resolution
        /\ loop = "scrape" => scraping = tickLastStart
    BY LoopStarts DEF Inv
  <1> QED
    BY <1>1, <1>2, CompositionAssumption DEF Now

(* A goroutine that has not been answered has nil to send. *)
LEMMA ScrapeAnswers ==
    ASSUME Inv, Scrape
    PROVE  AnswerInv'
  <1>1. UNCHANGED <<server, measured, scraping>>
    BY DEF Scrape, Scr!Step, Scr!Wake, Scr!DeadlineExceeded, Scr!Send, Scr!KubeletFails,
           Scr!Collected, Scr!Receive, Scr!Return
  <1>2. pc # "idle" <=> pc' # "idle"
    BY DEF Scrape, Scr!Step, Scr!Wake, Scr!DeadlineExceeded, Scr!Send, Scr!KubeletFails,
           Scr!Collected, Scr!scrape, Scr!Receive, Scr!Return
  <1>3. \A n \in Nodes : goroutine'[n].msg.node => goroutine[n].msg.node
    <2>1. CASE UNCHANGED goroutine
      BY <2>1
    <2>2. ASSUME NEW n \in Nodes, Scr!Step(n) \/ Scr!KubeletFails(n)
          PROVE  /\ goroutine' = [goroutine EXCEPT ![n] = goroutine'[n]]
                 /\ goroutine'[n].msg.node => goroutine[n].msg.node
      <3>1. goroutine \in [Nodes -> [pc : {"sleep", "request", "send", "end"}, wake : Nat,
                                deadline : Nat, msg : ScrP!Response \cup {ScrP!nil}]]
        BY DEF Inv, ScrP!Inv, ScrP!TypeOK
      <3> QED
        BY <2>2, <3>1 DEF Scr!Step, Scr!Wake, Scr!DeadlineExceeded, Scr!Send, Scr!KubeletFails,
                    Scr!Collected, Scr!Goroutine, Scr!nil
    <2>3. DOMAIN goroutine = Nodes
      BY DEF Inv, ScrP!Inv, ScrP!TypeOK
    <2> QED
      BY <2>1, <2>2, <2>3 DEF Scrape, Scr!Receive, Scr!Return
  <1> QED
    BY <1>1, <1>2, <1>3 DEF Inv, AnswerInv, server, Now

(* The answers of a tick are dated after it began, up to the lag of a        *)
(* kubelet, and dropped when it ends.                                        *)
LEMMA AnswerStep ==
    ASSUME Inv, [Next]_vars
    PROVE  AnswerInv'
  <1> USE LoopTimes
  <1>1. CASE UNCHANGED vars
    BY <1>1 DEF Inv, AnswerInv, vars, server, scraper, Now
  <1>2. CASE RunUntil
    <2>1. /\ UNCHANGED <<scraper, measured, scraping>>
          /\ loop' = "scrape" <=> loop = "scrape"
      <3>1. main \in {"nodes", "pods", "serve", "return"}
            /\ (main \in {"nodes", "pods"} => loop = "none") /\ synced \subseteq {"nodes", "pods"}
        BY DEF Inv, SrvP!Inv, SrvP!TypeOK, SrvP!StoreInv
      <3> QED
        BY <1>2, <3>1
        DEF RunUntil, Srv!Sync, Srv!CacheSynced, Srv!ServeReturns, Srv!SelectDone, Srv!ticks
    <2> QED
      BY <2>1 DEF Inv, AnswerInv, scraper, Now
  <1>3. CASE Scrape
    BY <1>3, ScrapeAnswers
  <1>4. CASE BeginTick
    <2>1. UNCHANGED measured /\ loop # "scrape" /\ loop' = "scrape" /\ pc' = "collect"
      BY <1>4 DEF BeginTick, Srv!FirstTick, Srv!SelectTick, Srv!BeginTick, Scr!StartScrape
    <2>2. \A n \in Nodes : measured[n] = 0
      BY <2>1 DEF Inv, AnswerInv
    <2>3. \A n \in Nodes : goroutine'[n].msg.node = FALSE
      BY <1>4 DEF BeginTick, Scr!StartScrape, Scr!Goroutine, Scr!NoGoroutine, Scr!nil
    <2> QED
      BY <2>1, <2>2, <2>3 DEF Inv, AnswerInv, Now
  <1>5. CASE EndTick
    <2>1. measured' = [n \in Nodes |-> 0] /\ loop' = "select" /\ pc' = "idle"
      BY <1>5 DEF EndTick, Scr!Deliver
    <2>2. \A n \in Nodes : goroutine'[n].msg.node = FALSE
      BY <1>5 DEF EndTick, Scr!Deliver, Scr!Goroutine, Scr!NoGoroutine, Scr!nil
    <2> QED
      BY <2>1, <2>2 DEF Inv, AnswerInv, Now
  <1>6. ASSUME NEW n \in Nodes, KubeletAnswers(n) PROVE AnswerInv'
    <2>1. PICK age \in 0 .. Lag : measured' = [measured EXCEPT ![n] = Now - age]
      BY <1>6 DEF KubeletAnswers
    <2>2. /\ UNCHANGED <<loop, pc, scraping>> /\ goroutine[n].pc = "request"
          /\ \E g : goroutine' = [goroutine EXCEPT ![n] = g]
      BY <1>6 DEF KubeletAnswers, Scr!KubeletAnswers, Scr!Collected, Scr!scrape, server
    <2>3. loop = "scrape"
      <3>1. n \in listed
        BY <2>2 DEF Inv, ScrP!Inv, ScrP!ChannelInv, ScrP!Unsent
      <3>2. pc # "idle"
        BY <3>1 DEF Inv, ScrP!Inv, ScrP!ChannelInv
      <3> QED
        BY <3>2 DEF Inv, AnswerInv
    <2>4. Now - age \in 1 .. Now
      OBVIOUS
    <2>5. \A m \in Nodes : m # n => goroutine'[m] = goroutine[m]
      <3>1. goroutine = [m \in Nodes |-> goroutine[m]]
        BY DEF Inv, ScrP!Inv, ScrP!TypeOK
      <3> QED
        BY <2>2, <3>1
    <2> QED
      BY <2>1, <2>2, <2>3, <2>4, <2>5 DEF Inv, AnswerInv, Now
  <1>7. CASE PassTime
    <2>1. /\ measured' = [n \in Nodes |-> IF measured[n] = 0 THEN 0 ELSE measured[n] - 1]
          /\ UNCHANGED <<loop, pc, goroutine>>
          /\ loop = "scrape" => scraping' = scraping + 1
      BY <1>7 DEF PassTime, Srv!Advance, scraper
    <2>2. ASSUME NEW n \in Nodes, measured[n] # 0
          PROVE  measured[n] - 1 \in 1 .. Now /\ Now - (measured[n] - 1) <= Lag + scraping'
                 /\ loop = "scrape"
      BY <2>1, <2>2 DEF Inv, AnswerInv
    <2> QED
      BY <2>1, <2>2 DEF Inv, AnswerInv, Now
  <1> QED
    BY <1>1, <1>2, <1>3, <1>4, <1>5, <1>6, <1>7 DEF Next

-----------------------------------------------------------------------------
(* A point that grew older may be older. *)
LEMMA AgedLonger ==
    ASSUME NEW last, NEW prev, NEW old \in Int, NEW older \in Int, old <= older,
           Aged(last, prev, old)
    PROVE  Aged(last, prev, older)
  BY CompositionAssumption DEF Aged, Now

(* Points of Point are told apart from none, and by their times. *)
LEMMA PointsDiffer ==
    ASSUME NEW t \in 0 .. Now
    PROVE  Point(t) # NoPoint /\ Point(t).Timestamp = t
  BY NoPointAssumption DEF Point

(* The previous point that Store keeps is not far from the new one: it was   *)
(* the last one, which is not old, or stands no further apart from it than   *)
(* it did (storage/node.go:92-102).                                          *)
LEMMA StoreAges ==
    ASSUME NEW last, NEW prev, NEW old \in Int, old <= 2 * Resolution + Lag,
           Aged(last, prev, old), NEW t \in 1 .. Now, NEW new \in Int, Now - t <= new
    PROVE  Aged(Point(t), Data!PrevNode(last, prev, Point(t)), new)
  <1> DEFINE kept == Data!PrevNode(last, prev, Point(t))
  <1>1. Now \in Nat /\ Resolution \in Nat /\ Lag \in Nat
    BY CompositionAssumption DEF Now
  <1>2. Point(t) # NoPoint /\ Point(t).Timestamp = t
    BY <1>1, PointsDiffer
  <1>3. ASSUME kept # NoPoint
        PROVE  \E u \in 1 .. Now : kept = Point(u) /\ u < t /\ t - u <= 2 * Resolution + Lag
    <2>1. last # NoPoint
      BY <1>3 DEF Data!PrevNode
    <2>2. PICK s \in 1 .. Now :
            /\ last = Point(s) /\ Now - s <= old
            /\ prev # NoPoint => \E u \in 1 .. Now :
                prev = Point(u) /\ u < s /\ s - u <= 2 * Resolution + Lag
      BY <2>1 DEF Aged
    <2>3. last.Timestamp = s
      BY <1>1, <2>2, PointsDiffer
    <2>4. CASE t > s
      <3>1. kept = last
        BY <1>2, <2>1, <2>3, <2>4 DEF Data!PrevNode
      <3>2. t - s <= 2 * Resolution + Lag
        BY <1>1, <2>2
      <3> QED
        BY <2>2, <2>4, <3>1, <3>2
    <2>5. CASE ~(t > s)
      <3>1. kept = prev /\ prev # NoPoint /\ prev.Timestamp < t
        BY <1>2, <1>3, <2>1, <2>3, <2>5 DEF Data!PrevNode
      <3>2. PICK u \in 1 .. Now : prev = Point(u) /\ u < s /\ s - u <= 2 * Resolution + Lag
        BY <2>2, <3>1
      <3>3. prev.Timestamp = u
        BY <1>1, <3>2, PointsDiffer
      <3>4. u < t /\ t - u <= 2 * Resolution + Lag
        BY <1>1, <2>5, <3>1, <3>2, <3>3
      <3> QED
        BY <3>1, <3>2, <3>4
    <2> QED
      BY <2>4, <2>5
  <1> HIDE DEF kept
  <1>4. Aged(Point(t), kept, new)
    BY <1>2, <1>3 DEF Aged
  <1> QED
    BY <1>4 DEF kept

(* As time passes a point grows older, and the distance to the previous one  *)
(* stays.                                                                    *)
LEMMA FallAges ==
    ASSUME NEW lasts, NEW prevs, NEW n \in Nodes, NEW old \in Int,
           old < 2 * Resolution + Lag, Aged(lasts[n], prevs[n], old)
    PROVE  Aged(Fall(lasts)[n], Fall(prevs)[n], old + 1)
  <1>1. /\ Now = MaxAge + 1 /\ MaxAge \in Nat /\ Resolution \in Nat /\ Lag \in Nat
        /\ 4 * Resolution + 2 * Lag <= MaxAge
    BY CompositionAssumption DEF Now
  <1>2. CASE lasts[n] = NoPoint
    <2>1. Fall(lasts)[n] = NoPoint /\ Fall(prevs)[n] = NoPoint
      BY <1>2 DEF Fall, Aged
    <2> QED
      BY <2>1 DEF Aged
  <1>3. CASE lasts[n] # NoPoint
    <2>1. PICK t \in 1 .. Now :
            /\ lasts[n] = Point(t) /\ Now - t <= old
            /\ prevs[n] # NoPoint => \E u \in 1 .. Now :
                prevs[n] = Point(u) /\ u < t /\ t - u <= 2 * Resolution + Lag
      BY <1>3 DEF Aged
    <2>2. t - 1 \in 1 .. Now /\ Now - (t - 1) <= old + 1
      BY <1>1, <2>1
    <2>3. Fall(lasts)[n] = Point(t - 1)
      <3>1. lasts[n].Timestamp = t
        BY <1>1, <2>1, PointsDiffer
      <3> QED
        BY <1>3, <3>1 DEF Fall
    <2>4. Point(t - 1) # NoPoint
      BY <1>1, <2>2, PointsDiffer
    <2>5. ASSUME Fall(prevs)[n] # NoPoint
          PROVE  \E u \in 1 .. Now : /\ Fall(prevs)[n] = Point(u) /\ u < t - 1
                                     /\ (t - 1) - u <= 2 * Resolution + Lag
      <3>1. prevs[n] # NoPoint
        BY <2>5 DEF Fall
      <3>2. PICK u \in 1 .. Now : prevs[n] = Point(u) /\ u < t /\ t - u <= 2 * Resolution + Lag
        BY <2>1, <3>1
      <3>3. prevs[n].Timestamp = u
        BY <1>1, <3>2, PointsDiffer
      <3>4. Fall(prevs)[n] = Point(u - 1)
        BY <3>1, <3>3 DEF Fall
      <3>5. u - 1 \in 1 .. Now /\ u - 1 < t - 1 /\ (t - 1) - (u - 1) <= 2 * Resolution + Lag
        BY <1>1, <2>1, <3>2
      <3> QED
        BY <3>4, <3>5
    <2> QED
      BY <2>2, <2>3, <2>4, <2>5 DEF Aged
  <1> QED
    BY <1>2, <1>3

(* Every tick replaces the last points, with what kubelets answered during   *)
(* it (server.go:114-145).                                                   *)
LEMMA AgeStep ==
    ASSUME Inv, SrvP!Inv', [Next]_vars
    PROVE  AgeInv'
  <1>1. /\ loop' \in {"none", "start", "scrape", "select", "end"}
        /\ loop' \in {"scrape", "select"} => tickLastStart' \in 0 .. Resolution
    <2>1. (SrvP!Inv => /\ loop \in {"none", "start", "scrape", "select", "end"}
                       /\ loop \in {"scrape", "select"} => tickLastStart \in 0 .. Resolution)'
      BY LoopStarts, PTL
    <2> QED
      BY <2>1
  <1>2. OldestLast \in Int /\ OldestLast <= 2 * Resolution + Lag /\ OldestLast' \in Int
    BY <1>1, LoopTimes DEF OldestLast
  <1>3. ASSUME UNCHANGED store, OldestLast <= OldestLast' PROVE AgeInv'
    BY <1>2, <1>3, AgedLonger DEF Inv, AgeInv
  <1>4. ASSUME UNCHANGED <<store, loop, tickLastStart>> PROVE AgeInv'
    BY <1>2, <1>3, <1>4 DEF OldestLast
  <1>5. CASE UNCHANGED vars
    BY <1>4, <1>5 DEF vars, server
  <1>6. CASE RunUntil
    <2>1. UNCHANGED store
      BY <1>6 DEF RunUntil
    <2>2. CASE UNCHANGED <<loop, tickLastStart>>
      BY <1>4, <2>1, <2>2
    <2>3. CASE Srv!CacheSynced
      <3>1. loop' \in {"none", "start"}
        BY <2>3 DEF Srv!CacheSynced
      <3>2. OldestLast <= OldestLast'
        BY <1>2, <3>1, LoopTimes DEF OldestLast
      <3> QED
        BY <1>3, <2>1, <3>2
    <2>4. CASE Srv!SelectDone
      <3>1. OldestLast <= OldestLast'
        BY <1>2, <2>4, LoopTimes DEF Srv!SelectDone, OldestLast
      <3> QED
        BY <1>3, <2>1, <3>1
    <2> QED
      BY <1>6, <2>2, <2>3, <2>4 DEF RunUntil, Srv!Sync, Srv!ServeReturns, Srv!ticks
  <1>7. CASE Scrape
    BY <1>4, <1>7 DEF Scrape, server
  <1>8. CASE BeginTick
    <2>1. UNCHANGED store /\ loop' = "scrape"
      BY <1>8 DEF BeginTick, Srv!FirstTick, Srv!SelectTick, Srv!BeginTick
    <2>2. CASE loop = "start"
      <3>1. \A n \in Nodes : store.last[n] = NoPoint
        BY <2>2 DEF Inv, SrvP!Inv, SrvP!StoreInv, Holds
      <3> QED
        BY <2>1, <3>1 DEF Inv, AgeInv, Aged
    <2>3. CASE loop = "select"
      <3>1. OldestLast <= OldestLast'
        BY <1>1, <2>1, <2>3, LoopTimes DEF OldestLast
      <3> QED
        BY <1>3, <2>1, <3>1
    <2> QED
      BY <1>8, <2>2, <2>3 DEF BeginTick, Srv!FirstTick, Srv!SelectTick
  <1>9. CASE EndTick
    <2> DEFINE batch == [n \in Nodes |-> IF res.Nodes[n] = NoSource THEN NoPoint
                                         ELSE Point(measured[n])]
    <2>1. /\ store' = Data!nodeStore(store, batch) /\ loop = "scrape" /\ loop' = "select"
          /\ UNCHANGED tickLastStart
      BY <1>9 DEF EndTick
    <2>2. SUFFICES ASSUME NEW n \in Nodes
                   PROVE  Aged(store'.last[n], store'.prev[n], OldestLast')
      BY DEF AgeInv
    <2>3. CASE res.Nodes[n] = NoSource
      BY <2>1, <2>3 DEF Data!nodeStore, Aged
    <2>4. CASE res.Nodes[n] # NoSource
      <3>1. goroutine[n].msg.node
        BY <2>4 DEF Inv, ScrP!Inv, ScrP!BatchInv
      <3>2. measured[n] \in 1 .. Now /\ Now - measured[n] <= Lag + scraping
        BY <3>1, LoopTimes DEF Inv, AnswerInv
      <3>3. Now - measured[n] <= OldestLast'
        BY <2>1, <3>2, LoopTimes DEF OldestLast
      <3>4. Aged(store.last[n], store.prev[n], OldestLast)
        BY DEF Inv, AgeInv
      <3>5. batch[n] = Point(measured[n]) /\ Point(measured[n]) # NoPoint
        BY <2>4, <3>2, LoopTimes, PointsDiffer
      <3>6. /\ store'.last[n] = Point(measured[n])
            /\ store'.prev[n] = Data!PrevNode(store.last[n], store.prev[n], Point(measured[n]))
        <4> HIDE DEF batch
        <4> QED
          BY <2>1, <3>5 DEF Data!nodeStore
      <3> QED
        BY <1>2, <3>2, <3>3, <3>4, <3>6, StoreAges
    <2> QED
      BY <2>3, <2>4
  <1>10. ASSUME NEW n \in Nodes, KubeletAnswers(n) PROVE AgeInv'
    BY <1>4, <1>10 DEF KubeletAnswers, server
  <1>11. CASE PassTime
    <2>1. /\ store'.last = Fall(store.last) /\ store'.prev = Fall(store.prev)
          /\ UNCHANGED loop /\ loop \in {"scrape", "select"}
          /\ tickLastStart' = Srv!Older(tickLastStart)
      BY <1>11 DEF PassTime, Srv!Advance
    <2>2. tickLastStart' = tickLastStart + 1
      BY <2>1, LoopTimes, CompositionAssumption DEF Srv!Older
    <2>3. OldestLast' = OldestLast + 1 /\ OldestLast < 2 * Resolution + Lag
      BY <1>1, <2>1, <2>2, LoopTimes DEF OldestLast
    <2>4. ASSUME NEW n \in Nodes PROVE Aged(store'.last[n], store'.prev[n], OldestLast')
      BY <1>2, <2>1, <2>3, FallAges DEF Inv, AgeInv
    <2> QED
      BY <2>4 DEF AgeInv
  <1> QED
    BY <1>5, <1>6, <1>7, <1>8, <1>9, <1>10, <1>11 DEF Next

-----------------------------------------------------------------------------
(* The invariants of the parts and of the ages hold at the start.             *)
LEMMA InitInv ==
    Init => Inv
  <1> SUFFICES ASSUME Init PROVE Inv
    OBVIOUS
  <1>1. ScrP!Inv
    <2>1. ScrP!Init
      BY DEF Init, Scr!Init, Scr!NoGoroutine, Scr!Goroutine, Scr!nil, Scr!EmptyBatch,
             ScrP!Init, ScrP!NoGoroutine, ScrP!Goroutine, ScrP!nil, ScrP!EmptyBatch
    <2> QED
      BY <2>1, ScrP!InitInv, ScraperAssumptions
  <1>2. SrvP!Inv
    <2>1. SrvP!Init
      BY DEF Init, Srv!Init, SrvP!Init
    <2> QED
      BY <2>1, SrvP!InitInv, ServerAssumptions
  <1>3. AnswerInv
    BY CompositionAssumption
    DEF Init, Scr!Init, Scr!NoGoroutine, Scr!Goroutine, Scr!nil, Srv!Init, AnswerInv, Now
  <1>4. AgeInv
    BY DEF Init, Data!NoNodes, AgeInv, Aged
  <1> QED
    BY <1>1, <1>2, <1>3, <1>4 DEF Inv

(* Every step of the composition keeps the invariants of parts and ages.      *)
LEMMA NextInv ==
    Inv /\ [Next]_vars => Inv'
  <1> SUFFICES ASSUME Inv, [Next]_vars PROVE Inv'
    OBVIOUS
  <1>1. ScrP!Inv'
    <2>1. pc \in {"idle", "collect", "return"} /\ (loop = "scrape" => pc # "idle")
      BY DEF Inv, AnswerInv, ScrP!Inv, ScrP!TypeOK
    <2>2. ScrP!Inv /\ [ScrP!Next]_(ScrP!vars)
      BY <2>1, ScraperStep DEF Inv
    <2> QED
      BY <2>2, ScrP!NextInv, ScraperAssumptions
  <1>2. SrvP!Inv'
    <2>1. SrvP!Inv /\ [SrvP!Next]_(SrvP!vars)
      BY ServerStep, SameServer DEF Inv
    <2> QED
      BY <2>1, SrvP!NextInv, ServerAssumptions
  <1> QED
    BY <1>1, <1>2, AnswerStep, AgeStep DEF Inv

(* The invariants hold of every reachable state of the composition.           *)
LEMMA Invariance ==
    Spec => []Inv
  BY InitInv, NextInv, PTL DEF Spec

-----------------------------------------------------------------------------
(* Every stored timestamp lies between the bound and the present, and the    *)
(* parts keep their types.                                                   *)
THEOREM CompositionTypeCorrect ==
    Spec => []TypeOK
  <1>1. Inv => TypeOK
    <2> SUFFICES ASSUME Inv PROVE TypeOK
      OBVIOUS
    <2>1. Srv!TypeOK
      BY DEF Inv, SrvP!Inv, SrvP!TypeOK, SrvP!Ages, SrvP!Outcomes, Srv!TypeOK, Srv!Ages,
             Srv!Outcomes
    <2>2. Scr!TypeOK
      BY SameCounts DEF Inv, ScrP!Inv, ScrP!TypeOK, ScrP!Response, ScrP!nil, ScrP!Sources,
                        Scr!TypeOK, Scr!Response, Scr!nil, Scr!Sources
    <2>3. \A n \in Nodes :
            {store.last[n], store.prev[n]} \subseteq {Point(t) : t \in 1 .. Now} \cup {NoPoint}
      BY DEF Inv, AgeInv, Aged
    <2> QED
      BY <2>1, <2>2, <2>3 DEF Inv, AnswerInv, TypeOK
  <1> QED
    BY <1>1, Invariance, PTL

(* The composition, with the goroutines of its scrapes and the points of its *)
(* storage, implements the server of module Server: a tick ends within its   *)
(* period, and the storage holds previous points when module Server says so  *)
(* (server.go:114-145, scraper.go:115-184, storage/node.go:76-110).          *)
THEOREM CompositionImplementsServer ==
    Spec => ImplementsServer
  <1>1. Init => Srv!Init
    BY DEF Init
  <1>2. Inv /\ [Next]_vars => [Srv!Next]_(Srv!vars)
    BY ServerStep
  <1> QED
    BY <1>1, <1>2, Invariance, PTL DEF Spec, ImplementsServer, Srv!SafeSpec

(* Once RunUntil has returned, no scrape goes on beyond the longest sleep:   *)
(* when its context is cancelled only goroutines that sleep are waited for   *)
(* (server.go:91-92, 133; scraper.go:137-143).                               *)
THEOREM ScrapesEndWhenCancelled ==
    Spec => EndsWhenCancelled
  <1>1. ASSUME Inv, [Next]_vars
        PROVE  [Srv!Cancelled /\ scraping' > scraping => scraping' < MaxDelay]_vars
    <2>1. CASE PassTime
      <3>1. scraping \in Nat
        BY <1>1 DEF Inv, ScrP!Inv, ScrP!TypeOK
      <3>2. CASE loop = "scrape"
        <4>1. scraping' = scraping + 1 /\ (main = "return" => scraping < MaxDelay - 1)
          BY <1>1, <2>1, <3>2, NotOverdue DEF PassTime, Srv!Advance
        <4> QED
          BY <3>1, <4>1, CompositionAssumption DEF Srv!Cancelled
      <3>3. CASE loop = "select"
        BY <2>1, <3>1, <3>3 DEF PassTime, Srv!Advance
      <3> QED
        BY <2>1, <3>2, <3>3 DEF PassTime
    <2>2. ASSUME ~PassTime PROVE UNCHANGED vars \/ scraping' = scraping \/ scraping' = 0
      BY <1>1, <2>2
      DEF Next, RunUntil, Srv!Sync, Srv!CacheSynced, Srv!ServeReturns, Srv!SelectDone, Srv!ticks,
          Scrape, Scr!Step, Scr!Wake, Scr!DeadlineExceeded, Scr!Send, Scr!KubeletFails,
          Scr!Collected, Scr!Receive, Scr!Return, BeginTick, Srv!FirstTick, Srv!SelectTick,
          Srv!BeginTick, EndTick, Scr!Deliver, KubeletAnswers, Scr!KubeletAnswers
    <2>3. CASE ~PassTime
      <3>1. scraping \in Nat
        BY <1>1 DEF Inv, ScrP!Inv, ScrP!TypeOK
      <3> QED
        BY <2>2, <2>3, <3>1 DEF vars
    <2> QED
      BY <2>1, <2>3
  <1> QED
    BY <1>1, Invariance, PTL DEF Spec, EndsWhenCancelled

(* Within the server as within module Scraper alone, no goroutine of a       *)
(* scrape finds its channel closed or full, and the batch that is stored has *)
(* exactly the nodes whose kubelets answered (scraper.go:123-124, 152-181).  *)
THEOREM CompositionScrapesSafely ==
    Spec => [](Scr!SendIsSafe /\ Scr!BatchIsComplete)
  <1>1. Inv => ScrP!SendIsSafe /\ ScrP!BatchIsComplete
    BY ScrP!SafeSends, ScrP!CompleteBatches, ScraperAssumptions DEF Inv
  <1>2. ScrP!SendIsSafe /\ ScrP!BatchIsComplete => Scr!SendIsSafe /\ Scr!BatchIsComplete
    BY SameCounts DEF ScrP!SendIsSafe, ScrP!Unsent, ScrP!BatchIsComplete, ScrP!Answered,
                      Scr!SendIsSafe, Scr!Unsent, Scr!BatchIsComplete, Scr!Answered
  <1> QED
    BY <1>1, <1>2, Invariance, PTL

(* While the loop runs, what is served of a node is at most two periods and  *)
(* the kubelet's lag old, because a tick dates its answers after it began    *)
(* and replaces every last point when it ends (server.go:126-145).           *)
THEOREM ServedIsAlwaysFresh ==
    Spec => []ServedIsFresh
  <1>1. Inv => ServedIsFresh
    <2> SUFFICES ASSUME Inv, NEW n \in Nodes, store.last[n] # NoPoint
                 PROVE  Now - store.last[n].Timestamp <= 2 * Resolution + Lag
      BY DEF ServedIsFresh, Data!NodeServed
    <2>1. PICK t \in 1 .. Now : store.last[n] = Point(t) /\ Now - t <= OldestLast
      BY DEF Inv, AgeInv, Aged
    <2>2. store.last[n].Timestamp = t
      BY <2>1, LoopTimes, PointsDiffer
    <2>3. OldestLast \in Int /\ OldestLast <= 2 * Resolution + Lag
      BY LoopTimes DEF OldestLast
    <2> QED
      BY <2>1, <2>2, <2>3, LoopTimes
  <1> QED
    BY <1>1, Invariance, PTL
=============================================================================
