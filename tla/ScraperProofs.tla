---------------------------- MODULE ScraperProofs ---------------------------
(***************************************************************************)
(* For any nodes, pods and times: no goroutine of a scrape finds the       *)
(* channel closed or full, the batch is complete, and Scrape is back in    *)
(* time.                                                                   *)
(***************************************************************************)
EXTENDS Scraper, FiniteSetTheorems, SequenceTheorems, TLAPS

(* The goroutines whose answers are in the channel, and those whose answers *)
(* Scrape has received.                                                     *)
Waiting == {channel[i].from : i \in 1..Len(channel)}
Merged == (listed \ Unsent) \ Waiting

(* Every goroutine is of a listed node, and sends once: what it sent is in  *)
(* the channel or has been received.                                        *)
ChannelInv ==
    /\ Unsent \subseteq listed
    /\ \A i \in 1..Len(channel) :
        /\ channel[i].from \in listed \ Unsent
        /\ channel[i].msg = goroutine[channel[i].from].msg
    /\ \A i, j \in 1..Len(channel) : channel[i].from = channel[j].from => i = j
    /\ received + Len(channel) + Cardinality(Unsent) = Cardinality(listed)
    /\ pc = "idle" => listed = {}
    /\ pc = "return" => received = Cardinality(listed)

Reporters(set, p) == {n \in set : goroutine[n].msg.ok /\ p \in goroutine[n].msg.pods}

(* The batch has what the answers received so far contain. *)
BatchInv ==
    /\ \A n \in Nodes :
        res.Nodes[n] = IF n \in Merged /\ goroutine[n].msg.ok /\ goroutine[n].msg.node
                       THEN n ELSE NoSource
    /\ \A p \in Pods :
        IF Reporters(Merged, p) = {} THEN res.Pods[p] = NoSource
        ELSE res.Pods[p] \in Reporters(Merged, p)

LongestSleep(sources) == MinOf(DelayPerSource * Cardinality(sources), MaxDelay)
Latest(sources) == MinOf(BaseTimeout, LongestSleep(sources) + ScrapeTimeout)

(* A sleep ends when it should, a request by its deadline, and both do so   *)
(* before Scrape has to be back.                                            *)
TimeInv ==
    /\ pc = "collect" => elapsed <= Latest(listed)
    /\ \A n \in Unsent :
        /\ goroutine[n].pc = "sleep" =>
            elapsed <= goroutine[n].wake /\ goroutine[n].wake < LongestSleep(listed)
        /\ goroutine[n].pc = "request" =>
            elapsed <= goroutine[n].deadline /\ goroutine[n].deadline <= Latest(listed)

Inv == TypeOK /\ ChannelInv /\ BatchInv /\ TimeInv

-----------------------------------------------------------------------------
(* The goroutines are finitely many, so that they can be counted. *)
LEMMA Counting ==
    ASSUME TypeOK
    PROVE  /\ IsFiniteSet(listed) /\ Cardinality(listed) \in 0..Cardinality(Nodes)
           /\ IsFiniteSet(Unsent) /\ Cardinality(Unsent) \in Nat
           /\ Cardinality(Nodes) \in Nat
  <1>1. listed \in SUBSET Nodes /\ Unsent \in SUBSET Nodes
    BY DEF TypeOK, Unsent
  <1> QED
    BY <1>1, NodesAssumption, FS_Subset, FS_CardinalityType

(* Times and sleeps are naturals; no sleep reaches the deadline (pkg/scraper *)
(* /scraper.go:32-35, options.go:71).                                        *)
LEMMA Times ==
    ASSUME NEW sources \in SUBSET Nodes
    PROVE  /\ LongestSleep(sources) \in Nat /\ Latest(sources) \in Nat
           /\ LongestSleep(sources) <= Latest(sources)
           /\ Latest(sources) <= BaseTimeout
           /\ \A wake \in Nat : wake < LongestSleep(sources) =>
                /\ MinOf(BaseTimeout, wake + ScrapeTimeout) \in Nat
                /\ wake <= MinOf(BaseTimeout, wake + ScrapeTimeout)
                /\ MinOf(BaseTimeout, wake + ScrapeTimeout) <= Latest(sources)
  <1> DEFINE sleep == DelayPerSource * Cardinality(sources)
  <1>1. Cardinality(sources) \in Nat
    BY NodesAssumption, FS_Subset, FS_CardinalityType
  <1>2. sleep \in Nat
    BY <1>1, TimesAssumption
  <1> HIDE DEF sleep
  <1>3. LongestSleep(sources) = MinOf(sleep, MaxDelay)
    BY DEF LongestSleep, sleep
  <1> QED
    BY <1>2, <1>3, TimesAssumption DEF Latest, MinOf

(* Nothing has been scraped yet (scraper.go:108-123). *)
LEMMA InitInv ==
    Init => Inv
  <1> SUFFICES ASSUME Init PROVE Inv
    OBVIOUS
  <1> USE DEF Init
  <1>1. Cardinality(Nodes) \in Nat /\ Cardinality({}) = 0
    BY NodesAssumption, FS_CardinalityType, FS_EmptySet
  <1>2. TypeOK
    BY <1>1 DEF TypeOK, NoGoroutine, Goroutine, EmptyBatch, Sources
  <1>3. Unsent = {} /\ Len(channel) = 0 /\ Merged = {}
    BY DEF Unsent, NoGoroutine, Goroutine, Merged
  <1>4. ChannelInv
    BY <1>1, <1>3 DEF ChannelInv
  <1>5. BatchInv
    BY <1>3 DEF BatchInv, Reporters, EmptyBatch
  <1>6. TimeInv
    BY <1>3 DEF TimeInv
  <1> QED
    BY <1>2, <1>4, <1>5, <1>6 DEF Inv

-----------------------------------------------------------------------------
(* Scrape begins with one sleeping goroutine per listed node (scraper.go:    *)
(* 118-143).                                                                 *)
LEMMA StartScrapeInv ==
    ASSUME Inv, NEW list \in SUBSET Nodes, StartScrape(list)
    PROVE  Inv'
  <1> DEFINE longest == MinOf(DelayPerSource * Cardinality(list), MaxDelay)
  <1>1. PICK delay \in [list -> 0 .. (longest - 1)] :
            goroutine' = [n \in Nodes |->
                IF n \in list THEN Goroutine("sleep", delay[n], 0, nil) ELSE NoGoroutine]
    BY DEF StartScrape, Delays
  <1>2. /\ pc' = "collect" /\ listed' = list /\ channel' = << >> /\ received' = 0
        /\ res' = EmptyBatch /\ elapsed' = 0
    BY DEF StartScrape
  <1>3. Cardinality(list) \in Nat /\ Cardinality(Nodes) \in Nat
    BY NodesAssumption, FS_Subset, FS_CardinalityType
  <1>4. \A n \in list : delay[n] \in Nat /\ delay[n] < longest
    BY <1>1, <1>3, TimesAssumption DEF MinOf
  <1>5. TypeOK'
    <2>1. goroutine' \in [Nodes -> [pc : {"sleep", "request", "send", "end"}, wake : Nat,
                                     deadline : Nat, msg : Response \cup {nil}]]
      BY <1>1, <1>4 DEF NoGoroutine, Goroutine
    <2> QED
      BY <1>2, <1>3, <2>1 DEF TypeOK, EmptyBatch, Sources
  <1>6. Unsent' = list
    BY <1>1 DEF Unsent, NoGoroutine, Goroutine
  <1>7. Len(channel') = 0 /\ Merged' = {}
    BY <1>2, <1>6 DEF Merged
  <1>8. ChannelInv'
    BY <1>2, <1>3, <1>6, <1>7 DEF ChannelInv
  <1>9. BatchInv'
    BY <1>2, <1>7 DEF BatchInv, Reporters, EmptyBatch
  <1>10. TimeInv'
    <2>1. LongestSleep(listed)' = longest
      BY <1>2 DEF LongestSleep
    <2>2. Latest(listed)' \in Nat
      BY <1>2, Times
    <2>3. \A n \in Unsent' : goroutine'[n].pc = "sleep" /\ goroutine'[n].wake = delay[n]
      BY <1>1, <1>6 DEF Goroutine
    <2>4. \A n \in Unsent' : delay[n] \in Nat /\ delay[n] < LongestSleep(listed)'
      BY <1>4, <1>6, <2>1
    <2> QED
      BY <1>2, <2>2, <2>3, <2>4 DEF TimeInv
  <1> QED
    BY <1>5, <1>8, <1>9, <1>10 DEF Inv

(* A goroutine that goes on to another stage before it sends changes nothing *)
(* but its own state.                                                        *)
LEMMA StageInv ==
    ASSUME Inv, NEW n \in Nodes, n \in Unsent,
           NEW g \in [pc : {"request", "send"}, wake : Nat, deadline : Nat,
                      msg : Response \cup {nil}],
           goroutine' = [goroutine EXCEPT ![n] = g],
           UNCHANGED <<elapsed, channel, scrape>>,
           g.pc = "request" => elapsed <= g.deadline /\ g.deadline <= Latest(listed)
    PROVE  Inv'
  <1> USE DEF scrape
  <1>1. TypeOK'
    BY DEF Inv, TypeOK
  <1>2. /\ Unsent' = Unsent
        /\ \A m \in Nodes \ {n} : goroutine'[m] = goroutine[m]
        /\ goroutine'[n] = g
    BY DEF Unsent, Inv, TypeOK
  <1>3. Merged' = Merged /\ n \notin Merged /\ Merged \subseteq Nodes
    BY <1>2 DEF Merged, Waiting, Inv, TypeOK
  <1>4. ChannelInv'
    <2>1. \A i \in 1..Len(channel) : channel[i].from \in Nodes \ {n}
      BY DEF Inv, ChannelInv, TypeOK
    <2> QED
      BY <1>2, <2>1 DEF Inv, ChannelInv
  <1>5. BatchInv'
    <2>1. \A p : Reporters(Merged, p)' = Reporters(Merged, p)
      BY <1>2, <1>3 DEF Reporters
    <2>2. \A m \in Nodes : m \in Merged => goroutine'[m] = goroutine[m]
      BY <1>2, <1>3
    <2> QED
      BY <1>3, <2>1, <2>2 DEF Inv, BatchInv
  <1>6. TimeInv'
    BY <1>2 DEF Inv, TimeInv, Latest, LongestSleep
  <1> QED
    BY <1>1, <1>4, <1>5, <1>6 DEF Inv

(* The deadline of a request is that of the context or of the timeout,      *)
(* whichever is earlier (scraper.go:137-148).                               *)
LEMMA WakeInv ==
    ASSUME Inv, NEW n \in Nodes, Wake(n)
    PROVE  Inv'
  <1> DEFINE deadline == MinOf(BaseTimeout, elapsed + ScrapeTimeout)
             g == Goroutine("request", 0, deadline, nil)
  <1>1. n \in Unsent
    BY DEF Unsent, Wake
  <1>2. elapsed = goroutine[n].wake /\ goroutine[n].wake < LongestSleep(listed)
    BY <1>1 DEF Wake, Inv, TimeInv, TypeOK
  <1>3. elapsed <= deadline /\ deadline <= Latest(listed) /\ deadline \in Nat
    BY <1>2, Times DEF Inv, TypeOK
  <1>4. /\ g \in [pc : {"request", "send"}, wake : Nat, deadline : Nat,
                  msg : Response \cup {nil}]
        /\ g.deadline = deadline
    BY <1>3 DEF Goroutine
  <1> HIDE DEF deadline
  <1>5. goroutine' = [goroutine EXCEPT ![n] = g] /\ UNCHANGED <<elapsed, channel, scrape>>
    BY DEF Wake, deadline
  <1> HIDE DEF g
  <1> QED
    BY <1>1, <1>3, <1>4, <1>5, StageInv

(* The kubelet's answer, or its absence, waits to be sent (scraper.go:       *)
(* 144-153).                                                                 *)
LEMMA CollectedInv ==
    ASSUME Inv, NEW n \in Nodes, NEW m \in Response \cup {nil}, Collected(n, m)
    PROVE  Inv'
  <1> DEFINE g == Goroutine("send", 0, 0, m)
  <1>1. n \in Unsent
    BY DEF Unsent, Collected
  <1>2. /\ g \in [pc : {"request", "send"}, wake : Nat, deadline : Nat,
                  msg : Response \cup {nil}]
        /\ g.pc = "send"
    BY DEF Goroutine
  <1>3. goroutine' = [goroutine EXCEPT ![n] = g] /\ UNCHANGED <<elapsed, channel, scrape>>
    BY DEF Collected
  <1> HIDE DEF g
  <1> QED
    BY <1>1, <1>2, <1>3, StageInv

(* The channel has room: the capacity is the number of goroutines, and each  *)
(* sends once (scraper.go:123, 152).                                         *)
LEMMA SendInv ==
    ASSUME Inv, NEW n \in Nodes, Send(n)
    PROVE  Inv'
  <1> DEFINE Elements == [from : Nodes, msg : Response \cup {nil}]
             e == [from |-> n, msg |-> goroutine[n].msg]
  <1>1. n \in Unsent /\ n \in listed
    BY DEF Unsent, Send, Inv, ChannelInv
  <1>2. channel \in Seq(Elements) /\ e \in Elements
    BY DEF Inv, TypeOK
  <1>3. channel' = Append(channel, e) /\ UNCHANGED <<elapsed, pc, listed, received, res>>
    BY DEF Send, scrape
  <1>4. /\ channel' \in Seq(Elements)
        /\ Len(channel) \in Nat /\ Len(channel') = Len(channel) + 1
        /\ \A i \in 1..Len(channel) : channel'[i] = channel[i]
        /\ channel'[Len(channel) + 1] = e
    BY <1>2, <1>3, AppendProperties, LenProperties
  <1>5. /\ Unsent' = Unsent \ {n}
        /\ \A m \in Nodes : goroutine'[m].msg = goroutine[m].msg
        /\ \A m \in Unsent' : goroutine'[m] = goroutine[m]
    BY DEF Send, Goroutine, Unsent, Inv, TypeOK
  <1>6. TypeOK'
    <2>1. goroutine' \in [Nodes -> [pc : {"sleep", "request", "send", "end"}, wake : Nat,
                                     deadline : Nat, msg : Response \cup {nil}]]
      BY DEF Send, Goroutine, Inv, TypeOK
    <2> QED
      BY <1>3, <1>4, <2>1 DEF Inv, TypeOK
  <1>7. Waiting \subseteq listed \ Unsent
    BY DEF Waiting, Inv, ChannelInv
  <1>8. Waiting' = Waiting \cup {n}
    BY <1>4 DEF Waiting
  <1>9. Merged' = Merged /\ Merged \subseteq Nodes
    BY <1>1, <1>3, <1>5, <1>7, <1>8 DEF Merged, Inv, TypeOK
  <1>10. ChannelInv'
    <2>1. \A i \in 1..Len(channel') :
            /\ channel'[i].from \in listed \ Unsent'
            /\ channel'[i].msg = goroutine'[channel'[i].from].msg
      <3>1. ASSUME NEW i \in 1..Len(channel)
            PROVE  /\ channel'[i].from \in listed \ Unsent'
                   /\ channel'[i].msg = goroutine'[channel'[i].from].msg
        <4>1. channel[i].from \in listed \ Unsent /\ channel[i].from \in Nodes
          BY DEF Inv, ChannelInv, TypeOK
        <4>2. channel[i].msg = goroutine[channel[i].from].msg
          BY DEF Inv, ChannelInv
        <4> QED
          BY <1>4, <1>5, <4>1, <4>2
      <3>2. e.from \in listed \ Unsent' /\ e.msg = goroutine'[e.from].msg
        BY <1>1, <1>5
      <3> QED
        BY <1>4, <3>1, <3>2
    <2>2. \A i \in 1..Len(channel) : channel[i].from # n
      BY <1>1 DEF Inv, ChannelInv
    <2>3. \A i, j \in 1..Len(channel') : channel'[i].from = channel'[j].from => i = j
      BY <1>4, <2>2 DEF Inv, ChannelInv
    <2>4. Cardinality(Unsent') = Cardinality(Unsent) - 1
      BY <1>1, <1>5, Counting, FS_RemoveElement DEF Inv
    <2>5. received + Len(channel') + Cardinality(Unsent') = Cardinality(listed)
      BY <1>4, <2>4, Counting DEF Inv, ChannelInv, TypeOK
    <2> QED
      BY <1>3, <1>5, <2>1, <2>3, <2>5 DEF Inv, ChannelInv
  <1>11. BatchInv'
    <2>1. \A p : Reporters(Merged, p)' = Reporters(Merged, p)
      BY <1>5, <1>9 DEF Reporters
    <2> QED
      BY <1>3, <1>5, <1>9, <2>1 DEF Inv, BatchInv
  <1>12. TimeInv'
    BY <1>3, <1>5 DEF Inv, TimeInv, Latest, LongestSleep
  <1> QED
    BY <1>6, <1>10, <1>11, <1>12 DEF Inv

(* An answer that is received moves from the channel to the batch, where the *)
(* first report of a pod stays (scraper.go:161-181).                         *)
LEMMA ReceiveInv ==
    ASSUME Inv, Receive
    PROVE  Inv'
  <1> DEFINE Elements == [from : Nodes, msg : Response \cup {nil}]
             from == channel[1].from
             msg == channel[1].msg
  <1>1. /\ channel \in Seq(Elements) /\ channel # << >>
        /\ Len(channel) \in Nat \ {0}
        /\ Head(channel) = channel[1]
        /\ channel' = Tail(channel)
        /\ channel' \in Seq(Elements)
        /\ Len(channel') = Len(channel) - 1
        /\ \A i \in 1..Len(channel') : channel'[i] = channel[i + 1]
    BY HeadTailProperties, EmptySeq DEF Receive, Inv, TypeOK
  <1>2. /\ UNCHANGED <<elapsed, pc, listed, goroutine>> /\ received' = received + 1
        /\ res' = IF msg.ok THEN Merge(res, from, msg) ELSE res
    BY <1>1 DEF Receive
  <1>3. /\ from \in Nodes /\ msg \in Response \cup {nil}
        /\ from \in listed \ Unsent /\ msg = goroutine[from].msg
    BY <1>1 DEF Inv, ChannelInv, TypeOK
  <1> HIDE DEF from, msg
  <1>4. Unsent' = Unsent
    BY <1>2 DEF Unsent
  <1>5. Waiting' = Waiting \ {from} /\ from \in Waiting
    <2>1. from \in Waiting
      BY <1>1 DEF Waiting, from
    <2>2. \A i \in 1..Len(channel') : channel'[i].from \in Waiting \ {from}
      BY <1>1 DEF Waiting, Inv, ChannelInv, from
    <2>3. ASSUME NEW i \in 1..Len(channel), channel[i].from # from
          PROVE  channel[i].from \in Waiting'
      <3>1. i - 1 \in 1..Len(channel') /\ channel'[i - 1] = channel[i]
        BY <1>1, <2>3 DEF from
      <3> QED
        BY <3>1 DEF Waiting
    <2> QED
      BY <2>1, <2>2, <2>3 DEF Waiting
  <1>6. Merged' = Merged \cup {from} /\ from \notin Merged /\ Merged \subseteq Nodes
    BY <1>2, <1>3, <1>4, <1>5 DEF Merged, Inv, TypeOK
  <1>7. TypeOK'
    <2>1. received' \in 0..Cardinality(Nodes)
      BY <1>2, Counting DEF Receive, Inv, TypeOK
    <2>2. Merge(res, from, msg) \in [Nodes : [Nodes -> Sources], Pods : [Pods -> Sources]]
      BY <1>3 DEF Merge, Sources, Inv, TypeOK
    <2> QED
      BY <1>1, <1>2, <2>1, <2>2 DEF Inv, TypeOK
  <1>8. ChannelInv'
    <2>1. \A i \in 1..Len(channel') : i + 1 \in 1..Len(channel)
      BY <1>1
    <2>2. \A i, j \in 1..Len(channel') : channel'[i].from = channel'[j].from => i = j
      BY <1>1, <2>1 DEF Inv, ChannelInv
    <2>3. received' + Len(channel') + Cardinality(Unsent') = Cardinality(listed')
      BY <1>1, <1>2, <1>4, Counting DEF Inv, ChannelInv, TypeOK
    <2> QED
      BY <1>1, <1>2, <1>4, <2>1, <2>2, <2>3 DEF Inv, ChannelInv, Receive
  <1>9. BatchInv'
    <2> DEFINE R(p) == Reporters(Merged, p)
               new(p) == msg.ok /\ p \in msg.pods
    <2>1. \A p : Reporters(Merged, p)' = IF new(p) THEN R(p) \cup {from} ELSE R(p)
      BY <1>2, <1>3, <1>6 DEF Reporters
    <2>2. ASSUME NEW n \in Nodes
          PROVE  res'.Nodes[n] = IF n \in Merged' /\ goroutine[n].msg.ok /\ goroutine[n].msg.node
                                 THEN n ELSE NoSource
      <3>1. res.Nodes[n] = IF n \in Merged /\ goroutine[n].msg.ok /\ goroutine[n].msg.node
                           THEN n ELSE NoSource
        BY DEF Inv, BatchInv
      <3>2. res'.Nodes[n] = IF msg.ok /\ res.Nodes[n] = NoSource /\ msg.node /\ n = from THEN from
                            ELSE res.Nodes[n]
        BY <1>2 DEF Merge
      <3> QED
        BY <1>3, <1>6, <3>1, <3>2, NoSourceAssumption
    <2>3. ASSUME NEW p \in Pods
          PROVE  IF Reporters(Merged, p)' = {} THEN res'.Pods[p] = NoSource
                 ELSE res'.Pods[p] \in Reporters(Merged, p)'
      <3>1. IF R(p) = {} THEN res.Pods[p] = NoSource ELSE res.Pods[p] \in R(p)
        BY DEF Inv, BatchInv
      <3>2. res'.Pods[p] = IF new(p) /\ res.Pods[p] = NoSource THEN from ELSE res.Pods[p]
        BY <1>2 DEF Merge
      <3>3. R(p) \subseteq Nodes
        BY <1>6 DEF Reporters
      <3> HIDE DEF R, new
      <3> QED
        BY <2>1, <3>1, <3>2, <3>3, NoSourceAssumption
    <2> QED
      BY <1>2, <2>2, <2>3 DEF BatchInv
  <1>10. TimeInv'
    BY <1>2, <1>4 DEF Inv, TimeInv
  <1> QED
    BY <1>7, <1>8, <1>9, <1>10 DEF Inv

(* When Scrape has received once per node, no goroutine is left (scraper.go: *)
(* 124, 161, 190).                                                           *)
LEMMA ReturnInv ==
    ASSUME Inv, Return
    PROVE  Inv'
  <1>1. Unsent' = Unsent /\ Merged' = Merged
    BY DEF Return, Unsent, Merged, Waiting
  <1>2. TypeOK' /\ ChannelInv'
    BY <1>1 DEF Inv, TypeOK, ChannelInv, Return
  <1>3. BatchInv' /\ TimeInv'
    BY <1>1 DEF Inv, BatchInv, TimeInv, Reporters, Return
  <1> QED
    BY <1>2, <1>3 DEF Inv

(* The next scrape begins with nothing of this one (scraper.go:191). *)
LEMMA DeliverInv ==
    ASSUME Inv, Deliver
    PROVE  Inv'
  <1>1. Cardinality(Nodes) \in Nat /\ Cardinality({}) = 0
    BY NodesAssumption, FS_CardinalityType, FS_EmptySet
  <1>2. TypeOK'
    BY <1>1 DEF Deliver, Inv, TypeOK, NoGoroutine, Goroutine, EmptyBatch, Sources
  <1>3. Unsent' = {} /\ Len(channel') = 0 /\ Merged' = {}
    BY DEF Deliver, Unsent, NoGoroutine, Goroutine, Merged
  <1>4. ChannelInv'
    BY <1>1, <1>3 DEF Deliver, ChannelInv
  <1>5. BatchInv'
    BY <1>3 DEF Deliver, BatchInv, Reporters, EmptyBatch
  <1>6. TimeInv'
    BY <1>3 DEF Deliver, TimeInv
  <1> QED
    BY <1>2, <1>4, <1>5, <1>6 DEF Inv

(* Time passes only while a goroutine sleeps or waits for its kubelet, and   *)
(* such a wait ends before Scrape has to be back (scraper.go:137-148).       *)
LEMMA TickInv ==
    ASSUME Inv, Tick
    PROVE  Inv'
  <1>1. /\ UNCHANGED <<pc, listed, goroutine, channel, received, res>>
        /\ pc = "collect" /\ elapsed' = elapsed + 1 /\ elapsed \in Nat
    BY DEF Tick, scrape, Inv, TypeOK
  <1>2. Unsent' = Unsent /\ Merged' = Merged
    BY <1>1 DEF Unsent, Merged, Waiting
  <1>3. TypeOK' /\ ChannelInv'
    BY <1>1, <1>2 DEF Inv, TypeOK, ChannelInv
  <1>4. BatchInv'
    BY <1>1, <1>2 DEF Inv, BatchInv, Reporters
  <1>5. \A n \in Unsent :
            \/ /\ goroutine[n].pc = "sleep"
               /\ elapsed' <= goroutine[n].wake /\ goroutine[n].wake < LongestSleep(listed)
            \/ /\ goroutine[n].pc = "request"
               /\ elapsed' <= goroutine[n].deadline /\ goroutine[n].deadline <= Latest(listed)
    <2> SUFFICES ASSUME NEW n \in Unsent
                 PROVE  \/ /\ goroutine[n].pc = "sleep"
                           /\ elapsed' <= goroutine[n].wake
                           /\ goroutine[n].wake < LongestSleep(listed)
                        \/ /\ goroutine[n].pc = "request"
                           /\ elapsed' <= goroutine[n].deadline
                           /\ goroutine[n].deadline <= Latest(listed)
      OBVIOUS
    <2>1. n \in Nodes /\ n \in listed /\ goroutine[n].pc # "end"
      BY DEF Unsent, Inv, ChannelInv
    <2>2. /\ goroutine[n].pc \in {"sleep", "request", "send", "end"}
          /\ goroutine[n].wake \in Nat /\ goroutine[n].deadline \in Nat
      BY <2>1 DEF Inv, TypeOK
    <2>3. /\ ~ (goroutine[n].pc = "sleep" /\ goroutine[n].wake <= elapsed)
          /\ ~ (goroutine[n].pc = "request" /\ goroutine[n].deadline <= elapsed)
          /\ goroutine[n].pc # "send"
      BY <2>1 DEF Tick, Busy
    <2> QED
      BY <1>1, <2>1, <2>2, <2>3 DEF Inv, TimeInv
  <1>6. PICK n \in Unsent : TRUE
    <2>1. channel = << >> /\ received # Cardinality(listed)
      BY <1>1 DEF Tick, Busy
    <2>2. Cardinality(Unsent) # 0
      BY <2>1, Counting DEF Inv, ChannelInv, TypeOK
    <2> QED
      BY <2>2, FS_EmptySet
  <1>7. elapsed' <= Latest(listed)
    <2>1. goroutine[n].wake \in Nat /\ goroutine[n].deadline \in Nat
      BY DEF Inv, TypeOK, Unsent
    <2>2. /\ LongestSleep(listed) \in Nat /\ Latest(listed) \in Nat
          /\ LongestSleep(listed) <= Latest(listed)
      BY Times DEF Inv, TypeOK
    <2> QED
      BY <1>1, <1>5, <2>1, <2>2
  <1>8. TimeInv'
    BY <1>1, <1>2, <1>5, <1>7 DEF TimeInv, Latest, LongestSleep
  <1> QED
    BY <1>3, <1>4, <1>8 DEF Inv

(* The invariant holds whatever the order of sends, answers and deadlines. *)
LEMMA NextInv ==
    Inv /\ [Next]_vars => Inv'
  <1> SUFFICES ASSUME Inv, [Next]_vars PROVE Inv'
    OBVIOUS
  <1>1. ASSUME NEW list \in SUBSET Nodes, StartScrape(list) PROVE Inv'
    BY <1>1, StartScrapeInv
  <1>2. ASSUME NEW n \in Nodes, Step(n) PROVE Inv'
    <2>1. ASSUME DeadlineExceeded(n) PROVE Inv'
      BY <2>1, CollectedInv DEF DeadlineExceeded
    <2> QED
      BY <1>2, <2>1, WakeInv, SendInv DEF Step
  <1>3. ASSUME NEW n \in Nodes, KubeletAnswers(n) \/ KubeletFails(n) PROVE Inv'
    BY <1>3, CollectedInv DEF KubeletAnswers, KubeletFails
  <1>4. ASSUME UNCHANGED vars PROVE Inv'
    <2>1. Unsent' = Unsent /\ Merged' = Merged
      BY <1>4 DEF vars, Unsent, Merged, Waiting
    <2>2. TypeOK' /\ ChannelInv'
      BY <1>4, <2>1 DEF vars, Inv, TypeOK, ChannelInv
    <2>3. BatchInv' /\ TimeInv'
      BY <1>4, <2>1 DEF vars, Inv, BatchInv, TimeInv, Reporters, Latest, LongestSleep
    <2> QED
      BY <2>2, <2>3 DEF Inv
  <1> QED
    BY <1>1, <1>2, <1>3, <1>4, ReceiveInv, ReturnInv, DeliverInv, TickInv DEF Next

(* The invariants hold of every reachable state of a scrape.                  *)
LEMMA Invariance ==
    Spec => []Inv
  BY InitInv, NextInv, PTL DEF Spec

-----------------------------------------------------------------------------
(* Who has yet to send has been counted, and Scrape waits for as many. *)
LEMMA SafeSends ==
    Inv => SendIsSafe
  <1> SUFFICES ASSUME Inv PROVE SendIsSafe
    OBVIOUS
  <1>1. Len(channel) \in Nat /\ received \in Nat
    BY LenProperties DEF Inv, TypeOK
  <1>2. Len(channel) + Cardinality(Unsent) <= Cardinality(listed)
    BY <1>1, Counting DEF Inv, ChannelInv
  <1>3. ASSUME pc # "collect" PROVE Unsent = {}
    <2>1. CASE pc = "idle"
      BY <2>1 DEF Inv, ChannelInv
    <2>2. CASE pc = "return"
      <3>1. Cardinality(Unsent) = 0
        BY <2>2, <1>1, Counting DEF Inv, ChannelInv
      <3> QED
        BY <3>1, Counting, FS_EmptySet DEF Inv
    <2> QED
      BY <1>3, <2>1, <2>2 DEF Inv, TypeOK
  <1> QED
    BY <1>2, <1>3 DEF SendIsSafe

(* No goroutine of a scrape ever sends on a closed channel or waits for room *)
(* in a full one, however the answers and the deadlines interleave           *)
(* (scraper.go:123-124, 152): each sends once, and Scrape closes the channel *)
(* only after it has received as often as there are goroutines.              *)
THEOREM SendsAreSafe ==
    Spec => []SendIsSafe
  BY SafeSends, Invariance, PTL

(* When Scrape has received as often as there are goroutines, it has merged *)
(* what each of them sent.                                                  *)
LEMMA CompleteBatches ==
    Inv => BatchIsComplete
  <1> SUFFICES ASSUME Inv, pc = "return"
               PROVE  /\ \A n \in Nodes :
                          res.Nodes[n] = IF Answered(n) /\ goroutine[n].msg.node
                                         THEN n ELSE NoSource
                      /\ \A p \in Pods :
                          LET reporters == {n \in listed : Answered(n)
                                              /\ p \in goroutine[n].msg.pods}
                          IN  IF reporters = {} THEN res.Pods[p] = NoSource
                              ELSE res.Pods[p] \in reporters
    BY DEF BatchIsComplete
  <1>1. channel \in Seq([from : Nodes, msg : Response \cup {nil}])
        /\ Len(channel) \in Nat /\ received \in Nat
    BY LenProperties DEF Inv, TypeOK
  <1>2. Len(channel) = 0 /\ Cardinality(Unsent) = 0
    BY <1>1, Counting DEF Inv, ChannelInv
  <1>3. Unsent = {} /\ Waiting = {}
    BY <1>2, Counting, FS_EmptySet DEF Inv, Waiting
  <1>4. Merged = listed
    BY <1>3 DEF Merged
  <1>5. \A p \in Pods : Reporters(Merged, p) =
          {n \in listed : Answered(n) /\ p \in goroutine[n].msg.pods}
    BY <1>4 DEF Reporters, Answered
  <1> QED
    BY <1>4, <1>5 DEF Inv, BatchInv, Answered

(* The batch Scrape returns has the nodes and the pods of exactly the        *)
(* kubelets that answered (scraper.go:162-181), in whatever order their      *)
(* answers came.                                                             *)
THEOREM BatchesAreComplete ==
    Spec => []BatchIsComplete
  BY CompleteBatches, Invariance, PTL

(* However many nodes are listed and however many of their kubelets hang,    *)
(* Scrape does not outlast the deadline of its caller nor the longest sleep  *)
(* plus the timeout (scraper.go:126-143).                                    *)
THEOREM ScrapesAreInTime ==
    Spec => []ScrapeInTime
  <1>1. Inv => ScrapeInTime
    BY DEF Inv, TimeInv, ScrapeInTime, Latest, LongestSleep
  <1> QED
    BY <1>1, Invariance, PTL
=============================================================================
