------------------------------ MODULE Scraper -------------------------------
(***************************************************************************)
(* One scrape after another (pkg/scraper/scraper.go): Scrape starts a      *)
(* goroutine per listed node, which sleeps, asks the kubelet under a       *)
(* timeout and sends what it got, or nil, on a buffered channel; Scrape    *)
(* receives once per node and merges what arrives.                         *)
(*                                                                         *)
(* Time is counted from the call of Scrape, in discrete steps, and         *)
(* computing takes none: the clock advances only when every goroutine      *)
(* waits for a timer or for its kubelet.                                   *)
(* A point is represented by the kubelet that reported it.                 *)
(***************************************************************************)
EXTENDS Integers, Sequences, FiniteSets

CONSTANTS
    Nodes, Pods,       \* names; a kubelet has the name of its node
    NoSource,          \* the batch has no such node or pod
    ScrapeTimeout,     \* the scraper's own timeout per kubelet
    BaseTimeout,       \* the deadline of the context Scrape is called with
    DelayPerSource,    \* delayPerSourceMs
    MaxDelay           \* maxDelayMs

(* The options keep the period, which is the deadline, above the longest    *)
(* sleep: validate refuses a period below 10s and maxDelayMs is 4s.         *)
ASSUME TimesAssumption ==
    /\ {ScrapeTimeout, BaseTimeout, DelayPerSource, MaxDelay} \subseteq Nat \ {0}
    /\ MaxDelay <= BaseTimeout

ASSUME NoSourceAssumption == NoSource \notin Nodes

ASSUME NodesAssumption == IsFiniteSet(Nodes)

VARIABLES
    elapsed,    \* since Scrape was called
    pc,         \* Scrape: "idle", "collect" (starting to receiving), "return"
    listed,     \* the nodes of this scrape
    goroutine,  \* of each node
    channel,    \* responseChannel, of capacity Cardinality(listed)
    received,   \* how often Scrape received
    res         \* the merged batch

vars == <<elapsed, pc, listed, goroutine, channel, received, res>>

(* What a kubelet's answer decodes to: its own node, unless the node's      *)
(* metrics are incomplete, and some pods.  nil is an answer that failed.    *)
nil == [ok |-> FALSE, node |-> FALSE, pods |-> {}]
Response == [ok : {TRUE}, node : BOOLEAN, pods : SUBSET Pods]

Goroutine(stage, wake, deadline, msg) ==
    [pc |-> stage, wake |-> wake, deadline |-> deadline, msg |-> msg]

NoGoroutine == Goroutine("end", 0, 0, nil)

EmptyBatch == [Nodes |-> [n \in Nodes |-> NoSource], Pods |-> [p \in Pods |-> NoSource]]

Init ==
    /\ elapsed = 0
    /\ pc = "idle"
    /\ listed = {}
    /\ goroutine = [n \in Nodes |-> NoGoroutine]
    /\ channel = << >>
    /\ received = 0
    /\ res = EmptyBatch

-----------------------------------------------------------------------------
MinOf(a, b) == IF a < b THEN a ELSE b

(* rand.Intn(delayMs) *)
Delays(sources) == 0 .. (MinOf(DelayPerSource * sources, MaxDelay) - 1)

(* List, make(chan), and one go statement per node.  When List fails it     *)
(* returns no nodes and Scrape carries on with none.                        *)
StartScrape(list) ==
    /\ pc = "idle"
    /\ pc' = "collect"
    /\ listed' = list
    /\ \E delay \in [list -> Delays(Cardinality(list))] :
        goroutine' = [n \in Nodes |->
            IF n \in list THEN Goroutine("sleep", delay[n], 0, nil) ELSE NoGoroutine]
    /\ channel' = << >>
    /\ received' = 0
    /\ res' = EmptyBatch
    /\ elapsed' = 0

scrape == <<pc, listed, received, res>>

(* Mutant: the timeout is not derived from the caller's context. *)
WakeOwnContext(n) ==
    /\ goroutine[n].pc = "sleep"
    /\ goroutine[n].wake <= elapsed
    /\ goroutine' = [goroutine EXCEPT
            ![n] = Goroutine("request", 0, elapsed + ScrapeTimeout, nil)]
    /\ UNCHANGED <<elapsed, channel, scrape>>

(* time.Sleep is over; context.WithTimeout(baseCtx, scrapeTimeout). *)
Wake(n) ==
    /\ goroutine[n].pc = "sleep"
    /\ goroutine[n].wake <= elapsed
    /\ goroutine' = [goroutine EXCEPT
            ![n] = Goroutine("request", 0, MinOf(BaseTimeout, elapsed + ScrapeTimeout), nil)]
    /\ UNCHANGED <<elapsed, channel, scrape>>

(* collectNode returns, with err or without; the goroutine is about to send. *)
Collected(n, m) ==
    /\ goroutine[n].pc = "request"
    /\ goroutine' = [goroutine EXCEPT ![n] = Goroutine("send", 0, 0, m)]
    /\ UNCHANGED <<elapsed, channel, scrape>>

KubeletAnswers(n) ==
    /\ elapsed <= goroutine[n].deadline
    /\ \E m \in Response : Collected(n, m)

KubeletFails(n) == Collected(n, nil)

(* Mutant: the request ends only after its deadline has passed. *)
DeadlineIgnored(n) ==
    /\ elapsed > goroutine[n].deadline
    /\ Collected(n, nil)

DeadlineExceeded(n) ==
    /\ elapsed >= goroutine[n].deadline
    /\ Collected(n, nil)

Send(n) ==
    /\ goroutine[n].pc = "send"
    /\ Len(channel) < Cardinality(listed)
    /\ channel' = Append(channel, [from |-> n, msg |-> goroutine[n].msg])
    /\ goroutine' = [goroutine EXCEPT ![n] = Goroutine("end", 0, 0, goroutine[n].msg)]
    /\ UNCHANGED <<elapsed, scrape>>

(* Mutant: the pods of a kubelet that lacks its node are dropped. *)
MergeWithNode(batch, from, m) ==
    [Nodes |-> [n \in Nodes |->
        IF batch.Nodes[n] = NoSource /\ m.node /\ n = from THEN from ELSE batch.Nodes[n]],
     Pods  |-> [p \in Pods |->
        IF batch.Pods[p] = NoSource /\ m.node /\ p \in m.pods THEN from ELSE batch.Pods[p]]]

(* The first response that has a node or a pod wins. *)
Merge(batch, from, m) ==
    [Nodes |-> [n \in Nodes |->
        IF batch.Nodes[n] = NoSource /\ m.node /\ n = from THEN from ELSE batch.Nodes[n]],
     Pods  |-> [p \in Pods |->
        IF batch.Pods[p] = NoSource /\ p \in m.pods THEN from ELSE batch.Pods[p]]]

Receive ==
    /\ pc = "collect"
    /\ received < Cardinality(listed)
    /\ channel # << >>
    /\ received' = received + 1
    /\ channel' = Tail(channel)
    /\ res' = IF Head(channel).msg.ok THEN Merge(res, Head(channel).from, Head(channel).msg)
              ELSE res
    /\ UNCHANGED <<elapsed, pc, listed, goroutine>>

(* Mutant: Scrape gives up at its deadline. *)
ReturnAtDeadline ==
    /\ pc = "collect"
    /\ received = Cardinality(listed) \/ elapsed >= BaseTimeout
    /\ pc' = "return"
    /\ UNCHANGED <<elapsed, listed, goroutine, channel, received, res>>

(* The loop is over; the deferred close(responseChannel). *)
Return ==
    /\ pc = "collect"
    /\ received = Cardinality(listed)
    /\ pc' = "return"
    /\ UNCHANGED <<elapsed, listed, goroutine, channel, received, res>>

(* The caller takes the batch, and Scrape's variables are gone. *)
Deliver ==
    /\ pc = "return"
    /\ pc' = "idle"
    /\ listed' = {}
    /\ goroutine' = [n \in Nodes |-> NoGoroutine]
    /\ channel' = << >>
    /\ received' = 0
    /\ res' = EmptyBatch
    /\ UNCHANGED elapsed

-----------------------------------------------------------------------------
(* Some step of this process is due: only kubelets are waited for. *)
Busy ==
    \/ pc = "collect" /\ (channel # << >> \/ received = Cardinality(listed))
    \/ \E n \in listed :
        \/ goroutine[n].pc = "sleep" /\ goroutine[n].wake <= elapsed
        \/ goroutine[n].pc = "request" /\ goroutine[n].deadline <= elapsed
        \/ goroutine[n].pc = "send"

Tick ==
    /\ pc = "collect"
    /\ ~Busy
    /\ elapsed' = elapsed + 1
    /\ UNCHANGED <<channel, goroutine, scrape>>

Step(n) == Wake(n) \/ DeadlineExceeded(n) \/ Send(n)

Next ==
    \/ Tick
    \/ \E list \in SUBSET Nodes : StartScrape(list)
    \/ \E n \in Nodes : Step(n) \/ KubeletAnswers(n) \/ KubeletFails(n)
    \/ Receive
    \/ Return
    \/ Deliver

(* Goroutines run when they can and time passes.  A kubelet need never      *)
(* answer.                                                                  *)
Fairness ==
    /\ WF_vars(Tick)
    /\ \A n \in Nodes : WF_vars(Step(n))
    /\ WF_vars(Receive)
    /\ WF_vars(Return)

Spec == Init /\ [][Next]_vars /\ Fairness

-----------------------------------------------------------------------------
Sources == Nodes \cup {NoSource}

(* The types of the goroutines, the channel and the batch. *)
TypeOK ==
    /\ elapsed \in Nat
    /\ pc \in {"idle", "collect", "return"}
    /\ listed \subseteq Nodes
    /\ goroutine \in [Nodes -> [pc : {"sleep", "request", "send", "end"}, wake : Nat,
                                deadline : Nat, msg : Response \cup {nil}]]
    /\ channel \in Seq([from : Nodes, msg : Response \cup {nil}])
    /\ received \in 0..Cardinality(Nodes)
    /\ res \in [Nodes : [Nodes -> Sources], Pods : [Pods -> Sources]]

Unsent == {n \in Nodes : goroutine[n].pc # "end"}

(* A goroutine never finds the channel closed, which would panic, nor full, *)
(* which would keep it and its context alive: while any has yet to send,    *)
(* Scrape has not returned, and there is room for all of them               *)
(* (scraper.go:123-124, 152).                                               *)
SendIsSafe ==
    /\ Unsent # {} => pc = "collect"
    /\ Len(channel) + Cardinality(Unsent) <= Cardinality(listed)

Answered(n) == n \in listed /\ goroutine[n].msg.ok

(* The batch Scrape returns has exactly the nodes and pods of the kubelets  *)
(* that answered, each from a kubelet that reported it, in whatever order   *)
(* the answers came and however many kubelets failed (scraper.go:162-181).  *)
BatchIsComplete ==
    pc = "return" =>
        /\ \A n \in Nodes :
            res.Nodes[n] = IF Answered(n) /\ goroutine[n].msg.node THEN n ELSE NoSource
        /\ \A p \in Pods :
            LET reporters == {n \in listed : Answered(n) /\ p \in goroutine[n].msg.pods}
            IN  IF reporters = {} THEN res.Pods[p] = NoSource ELSE res.Pods[p] \in reporters

(* Scrape never lasts beyond the deadline it was given, nor beyond the      *)
(* longest sleep plus the timeout, even when no kubelet answers: the sleep  *)
(* ignores the context but is short (scraper.go:137-143).                   *)
ScrapeInTime ==
    pc = "collect" =>
        elapsed <= MinOf(BaseTimeout,
                         MinOf(DelayPerSource * Cardinality(listed), MaxDelay) + ScrapeTimeout)

(* Every Scrape returns although kubelets may hang (scraper.go:161). *)
ScrapeReturns == (pc = "collect") ~> (pc = "return")
=============================================================================
