-------------------------- MODULE MetricsAPIProofs --------------------------
(***************************************************************************)
(* For any nodes and pods, and however informers and scrapes interleave    *)
(* with a request: what its answer and its table hold.                     *)
(***************************************************************************)
EXTENDS MetricsAPI, FiniteSetTheorems, WellFoundedInduction, TLAPS

(* What a call knows between its steps: the history has the present, what   *)
(* was steady still is, and the lister returned nothing else than what was  *)
(* wanted and all of it that stayed.                                        *)
CallInv ==
    /\ pc # "idle" => request \in Requests
    /\ pc \in {"called", "looked"} =>
        /\ Wanted(request, lister) \subseteq seen
        /\ stored \in stores
        /\ steady \subseteq Wanted(request, lister) \cap stored.objects
    /\ pc = "looked" => looked \subseteq seen /\ steady \subseteq looked
    /\ pc \in {"idle", "called", "looked"} => answer = NoAnswer
    /\ answer.items \in Seq(Items)

(* The inductive invariant. *)
Inv ==
    /\ TypeOK /\ CallInv
    /\ ServesOnlyCurrent /\ ServesAllSteady /\ TableShowsAnswer

-----------------------------------------------------------------------------
(* The objects are pairs of numbers, finitely many, and no name is 0. *)
LEMMA ObjectFacts ==
    /\ \A o \in Objects : o = <<o[1], o[2]>> /\ o[1] \in Nat /\ o[2] \in Nat \ {0}
    /\ \A o \in Nodes : o[1] = 0
    /\ \A o \in Pods : o[1] # 0
    /\ IsFiniteSet(Objects)
  <1>1. IsFiniteSet(Objects)
    BY APIAssumption, FS_Union DEF Objects
  <1> QED
    BY <1>1, APIAssumption DEF Objects

(* A request for one object names it and has no selector (node.go:115, pod.go:113). *)
LEMMA RequestFacts ==
    ASSUME NEW q \in Requests
    PROVE  /\ q.verb \in {"list", "get"} /\ q.resource \in {"nodes", "pods"}
           /\ q.labelled \in BOOLEAN
           /\ q.resource = "nodes" => q.namespace = 0
           /\ q.verb = "list" => q.name = 0
           /\ q.verb = "get" =>
                /\ q.labelled = FALSE /\ q.fields = {}
                /\ <<q.namespace, q.name>> \in (IF q.resource = "nodes" THEN Nodes ELSE Pods)
  <1>1. CASE \E o \in Nodes : q = [verb |-> "get", resource |-> "nodes", namespace |-> 0,
                                   name |-> o[2], labelled |-> FALSE, fields |-> {}]
    BY <1>1, ObjectFacts DEF Objects
  <1>2. CASE \E o \in Pods : q = [verb |-> "get", resource |-> "pods", namespace |-> o[1],
                                  name |-> o[2], labelled |-> FALSE, fields |-> {}]
    BY <1>2, ObjectFacts DEF Objects
  <1> QED
    BY <1>1, <1>2 DEF Requests

(* Such a request wants its object, if the lister has it (node.go:117-123, pod.go:115-121). *)
LEMMA WantedOfGet ==
    ASSUME NEW q \in Requests, q.verb = "get", NEW l, DOMAIN l \subseteq Objects
    PROVE  Wanted(q, l) = {<<q.namespace, q.name>>} \cap DOMAIN l
  <1> DEFINE object == <<q.namespace, q.name>>
  <1>1. object \in (IF q.resource = "nodes" THEN Nodes ELSE Pods) /\ q.labelled = FALSE /\ q.fields = {}
    BY RequestFacts
  <1>2. q.name # 0 /\ (q.resource # "nodes" => q.namespace # 0)
        /\ (q.resource = "nodes" => q.namespace = 0)
    BY <1>1, ObjectFacts, RequestFacts DEF Objects
  <1>3. ASSUME NEW o \in Wanted(q, l) PROVE o = object
    <2>1. /\ o \in Objects /\ o[2] = q.name /\ q.namespace \in {0, o[1]}
          /\ o \in (IF q.resource = "nodes" THEN Nodes ELSE Pods)
      BY <1>2 DEF Wanted
    <2>2. o[1] = q.namespace
      BY <1>2, <2>1, ObjectFacts
    <2> QED
      BY <2>1, <2>2, ObjectFacts
  <1>4. ASSUME object \in DOMAIN l PROVE object \in Wanted(q, l)
    BY <1>1, <1>4 DEF Wanted, Matches
  <1> QED
    BY <1>3, <1>4 DEF Wanted

(* The lookups of a list find what it wants (node.go:95-112, pod.go:94-110). *)
LEMMA WantedOfList ==
    ASSUME NEW q \in Requests, q.verb = "list"
    PROVE  /\ q.resource = "nodes" => nodes(q) = Wanted(q, lister)
           /\ q.resource = "pods" => pods(q) = Wanted(q, lister)
  <1> USE DEF Wanted, Matches, filter, ListerList, LabelSelector, NodeSelector
  <1>1. ASSUME q.resource = "nodes" PROVE nodes(q) = Wanted(q, lister)
    <2>1. q.namespace = 0
      BY <1>1, RequestFacts
    <2> QED
      BY <1>1, <2>1, RequestFacts DEF nodes
  <1>2. ASSUME q.resource = "pods" PROVE pods(q) = Wanted(q, lister)
    BY <1>2, RequestFacts DEF pods
  <1> QED
    BY <1>1, <1>2

(* A sorted list has every object, and each once (node.go:167-170, pod.go:172-177). *)
LEMMA SortedOnto ==
    ASSUME NEW objects \in SUBSET Objects, NEW s \in Sorted(objects)
    PROVE  /\ Cardinality(objects) \in Nat
           /\ s \in [1..Cardinality(objects) -> objects]
           /\ \A o \in objects : \E i \in 1..Cardinality(objects) : s[i] = o
  <1> DEFINE n == Cardinality(objects)
  <1>1. IsFiniteSet(objects) /\ n \in Nat
    BY ObjectFacts, FS_Subset, FS_CardinalityType
  <1> HIDE DEF n
  <1>2. s \in [1..n -> objects] /\ \A i, j \in 1..n : i < j => Less(s[i], s[j])
    BY DEF Sorted, n
  <1>3. ASSUME NEW i \in 1..n, NEW j \in 1..n, s[i] = s[j] PROVE i = j
    <2>1. \A o \in Objects : ~Less(o, o)
      BY ObjectFacts DEF Less
    <2>2. s[i] \in Objects /\ i \in Int /\ j \in Int
      BY <1>1, <1>2
    <2>3. ~(i < j) /\ ~(j < i)
      BY <1>2, <1>3, <2>1, <2>2
    <2> QED
      BY <2>2, <2>3
  <1>4. s \in Injection(1..n, objects)
    BY <1>2, <1>3 DEF Injection, IsInjective
  <1>5. Cardinality(1..n) = n
    BY <1>1, FS_Interval
  <1>6. s \in Surjection(1..n, objects)
    BY <1>1, <1>4, <1>5, FS_Injection DEF n
  <1> QED
    BY <1>1, <1>2, <1>6 DEF Surjection, n

(* The usages of an object have the type of an item's. *)
LEMMA UsagesType ==
    ASSUME NEW o \in Objects, NEW u \in Usages(o)
    PROVE  u \in SUBSET (Objects \X (1..MaxContainers))
  <1>1. CASE o \in Nodes
    BY <1>1, APIAssumption DEF Usages
  <1>2. CASE o \notin Nodes
    <2>1. PICK n \in 0..MaxContainers : u = {o} \X (1..n)
      BY <1>2 DEF Usages
    <2>2. 1..n \subseteq 1..MaxContainers
      BY APIAssumption
    <2> QED
      BY <2>1, <2>2
  <1> QED
    BY <1>1, <1>2

(* What the storage serves of the objects looked up, and all of it          *)
(* (node.go:139-172, pod.go:160-179).                                       *)
LEMMA Served ==
    ASSUME looked \subseteq Objects, stored.at \in 0..MaxStores, NEW ms \in getMetrics
    PROVE  /\ Cardinality(looked \cap stored.objects) \in Nat
           /\ DOMAIN ms = 1..Cardinality(looked \cap stored.objects)
           /\ ms \in Seq(Items)
           /\ \A i \in DOMAIN ms : ms[i].at = stored.at /\ ms[i].object \in looked \cap stored.objects
           /\ \A o \in looked \cap stored.objects : \E i \in DOMAIN ms : ms[i].object = o
           /\ \A i \in DOMAIN ms : ms[i].usages \in Usages(ms[i].object)
  <1> DEFINE S == looked \cap stored.objects
             U == {u \in [S -> UNION {Usages(o) : o \in S}] : \A o \in S : u[o] \in Usages(o)}
             n == Cardinality(S)
  <1>1. PICK s \in Sorted(S), u \in U :
            ms = [i \in 1..n |-> [object |-> s[i], at |-> stored.at, usages |-> u[s[i]]]]
    BY ZenonT(30) DEF getMetrics
  <1>2. S \in SUBSET Objects
    OBVIOUS
  <1>3. \A o \in S : u[o] \in Usages(o)
    OBVIOUS
  <1> HIDE DEF S, U
  <1>4. /\ n \in Nat /\ s \in [1..n -> S]
        /\ \A o \in S : \E i \in 1..n : s[i] = o
    BY <1>2, SortedOnto
  <1> HIDE DEF n
  <1>5. DOMAIN ms = 1..n /\ \A i \in 1..n : ms[i] =
            [object |-> s[i], at |-> stored.at, usages |-> u[s[i]]]
    BY <1>1
  <1>6. ASSUME NEW i \in 1..n PROVE ms[i] \in Items
    <2>1. s[i] \in Objects /\ u[s[i]] \in Usages(s[i])
      BY <1>2, <1>3, <1>4
    <2> QED
      BY <1>5, <2>1, UsagesType DEF Items
  <1>7. ms \in Seq(Items)
    BY <1>1, <1>4, <1>5, <1>6
  <1>8. \A i \in 1..n : ms[i].object = s[i] /\ ms[i].at = stored.at /\ ms[i].usages = u[s[i]]
    BY <1>5
  <1>9. \A i \in 1..n : ms[i].usages \in Usages(ms[i].object)
    BY <1>3, <1>4, <1>8
  <1>10. /\ n \in Nat /\ DOMAIN ms = 1..n /\ ms \in Seq(Items)
         /\ \A i \in DOMAIN ms : ms[i].at = stored.at /\ ms[i].object \in S
         /\ \A o \in S : \E i \in DOMAIN ms : ms[i].object = o
         /\ \A i \in DOMAIN ms : ms[i].usages \in Usages(ms[i].object)
    <2>1. \A o \in S : \E i \in DOMAIN ms : ms[i].object = o
      <3>1. ASSUME NEW o \in S PROVE \E i \in 1..n : ms[i].object = o
        <4>1. PICK i \in 1..n : s[i] = o
          BY <1>4, Zenon
        <4>2. ms[i].object = o
          BY <1>8, <4>1, Zenon
        <4> QED
          BY <4>2, Zenon
      <3> QED
        BY <1>5, <3>1, Zenon
    <2>2. \A i \in DOMAIN ms : ms[i].object \in S
      BY <1>4, <1>5, <1>8
    <2> QED
      BY <1>4, <1>5, <1>7, <1>8, <1>9, <2>1, <2>2
  <1> QED
    BY <1>10, Zenon DEF S, n

-----------------------------------------------------------------------------
(* Before the first call nothing has been looked up or answered. *)
LEMMA InitInv ==
    Init => Inv
  <1> SUFFICES ASSUME Init PROVE Inv
    OBVIOUS
  <1> USE DEF Init, NoAnswer, NoTable
  <1>1. TypeOK
    BY APIAssumption DEF TypeOK, NoRequest
  <1>2. CallInv
    BY DEF CallInv
  <1>3. ServesOnlyCurrent /\ ServesAllSteady
    BY DEF ServesOnlyCurrent, ServesAllSteady
  <1>4. TableShowsAnswer
    BY DEF TableShowsAnswer
  <1> QED
    BY <1>1, <1>2, <1>3, <1>4 DEF Inv

(* The informers and the scrape loop change what is observed, not what was. *)
LEMMA ObserveInv ==
    ASSUME Inv, pc \notin {"answered", "tabled"}, Observe(lister', stored'), UNCHANGED call,
           DOMAIN lister' \subseteq Objects, \A o \in DOMAIN lister' : lister'[o] \subseteq Labels(o),
           stored' \in [at : 0..MaxStores, objects : SUBSET Objects]
    PROVE  Inv'
  <1>0. answer = NoAnswer
    BY DEF Inv, CallInv, TypeOK
  <1>1. TypeOK'
    BY DEF call, Inv, TypeOK
  <1>2. CallInv'
    BY DEF call, Inv, CallInv, Observe
  <1>3. (ServesOnlyCurrent /\ ServesAllSteady /\ TableShowsAnswer)'
    BY <1>0 DEF call, NoAnswer, ServesOnlyCurrent, ServesAllSteady, TableShowsAnswer
  <1> QED
    BY <1>1, <1>2, <1>3 DEF Inv

(* An informer's cache changes at any moment of a call. *)
LEMMA InformerInv ==
    ASSUME Inv, NEW o \in Objects, Informer(o)
    PROVE  Inv'
  <1>1. DOMAIN lister' \subseteq Objects /\ \A p \in DOMAIN lister' : lister'[p] \subseteq Labels(p)
    <2>1. CASE \E labels \in SUBSET Labels(o) :
                lister' = [p \in DOMAIN lister \cup {o} |-> IF p = o THEN labels ELSE lister[p]]
      BY <2>1 DEF Inv, TypeOK
    <2>2. CASE lister' = [p \in DOMAIN lister \ {o} |-> lister[p]]
      BY <2>2 DEF Inv, TypeOK
    <2> QED
      BY <2>1, <2>2 DEF Informer
  <1>2. stored' \in [at : 0..MaxStores, objects : SUBSET Objects] /\ Observe(lister', stored')
    BY DEF Informer, Inv, TypeOK, Observe
  <1> QED
    BY <1>1, <1>2, ObserveInv DEF Informer

(* So does the storage. *)
LEMMA StoreInv ==
    ASSUME Inv, Store
    PROVE  Inv'
  <1>1. stored' \in [at : 0..MaxStores, objects : SUBSET Objects]
    BY APIAssumption DEF Store, Inv, TypeOK
  <1>2. Observe(lister', stored')
    BY DEF Store, Observe
  <1> QED
    BY <1>1, <1>2, ObserveInv DEF Store, Inv, TypeOK

(* A call begins. *)
LEMMA CallKeepsInv ==
    ASSUME Inv, NEW q \in Requests, Call(q)
    PROVE  Inv'
  <1>1. TypeOK'
    BY DEF Call, Inv, TypeOK
  <1>2. CallInv'
    BY DEF Call, Inv, CallInv, Wanted
  <1>3. (ServesOnlyCurrent /\ ServesAllSteady /\ TableShowsAnswer)'
    BY DEF Call, Inv, CallInv, NoAnswer, ServesOnlyCurrent, ServesAllSteady, TableShowsAnswer
  <1> QED
    BY <1>1, <1>2, <1>3 DEF Inv

(* A lookup that finds what is wanted and nothing else (node.go:81-85,      *)
(* pod.go:80-84 and Get's).                                                 *)
LEMMA LookedInv ==
    ASSUME Inv, pc = "called", pc' = "looked", looked' = Wanted(request, lister),
           request.verb = "get" => looked' = {<<request.namespace, request.name>>},
           UNCHANGED <<lister, stored, request, answer, table, seen, steady, stores>>
    PROVE  Inv'
  <1>1. TypeOK'
    BY DEF Inv, TypeOK, Wanted
  <1>2. CallInv'
    BY DEF Inv, CallInv
  <1>3. (ServesOnlyCurrent /\ ServesAllSteady /\ TableShowsAnswer)'
    BY DEF Inv, CallInv, NoAnswer, ServesOnlyCurrent, ServesAllSteady, TableShowsAnswer
  <1> QED
    BY <1>1, <1>2, <1>3 DEF Inv

(* Both lists look up what they want. *)
LEMMA ListInv ==
    ASSUME Inv, ListNodes \/ ListPods
    PROVE  Inv'
  <1>1. request \in Requests
    BY DEF Inv, CallInv, ListNodes, ListPods
  <1>2. looked' = Wanted(request, lister)
    BY <1>1, WantedOfList DEF ListNodes, ListPods
  <1> QED
    BY <1>2, LookedInv DEF ListNodes, ListPods

(* An answer without items says nothing, and only one that says "not found" *)
(* must know that the object was not there all the time.                    *)
LEMMA NoItemsInv ==
    ASSUME Inv, pc \in {"called", "looked"}, pc' = "answered",
           NEW status \in {"not_found", "error"}, status = "not_found" => steady = {},
           answer' = [status |-> status, items |-> << >>],
           UNCHANGED <<lister, stored, request, looked, table, seen, steady, stores>>
    PROVE  Inv'
  <1>1. TypeOK'
    BY DEF Inv, TypeOK
  <1>2. CallInv'
    BY DEF Inv, CallInv
  <1>3. (ServesOnlyCurrent /\ ServesAllSteady /\ TableShowsAnswer)'
    BY DEF ServesOnlyCurrent, ServesAllSteady, TableShowsAnswer
  <1> QED
    BY <1>1, <1>2, <1>3 DEF Inv

(* Get looks one object up, or says that it is not there (node.go:115-123,  *)
(* pod.go:113-121).                                                         *)
LEMMA GetInv ==
    ASSUME Inv, Get
    PROVE  Inv'
  <1> DEFINE object == <<request.namespace, request.name>>
  <1>1. Wanted(request, lister) = {object} \cap DOMAIN lister
    BY WantedOfGet DEF Get, Inv, CallInv, TypeOK
  <1>2. CASE object \in DOMAIN lister
    <2>1. looked' = {object} /\ pc' = "looked" /\ UNCHANGED answer
      BY <1>2 DEF Get
    <2> QED
      BY <1>1, <1>2, <2>1, LookedInv DEF Get
  <1>3. CASE object \notin DOMAIN lister
    <2>1. steady = {}
      BY <1>1, <1>3 DEF Get, Inv, CallInv
    <2>2. Answer("not_found", << >>) /\ UNCHANGED looked
      BY <1>3 DEF Get
    <2> QED
      BY <2>1, <2>2, NoItemsInv DEF Get, Answer
  <1> QED
    BY <1>2, <1>3

(* The lister's error is the call's. *)
LEMMA ListerFailsInv ==
    ASSUME Inv, ListerFails
    PROVE  Inv'
  BY NoItemsInv DEF ListerFails, Answer

(* An answer with items: of objects looked up, out of one store, and with   *)
(* all that was steady.                                                     *)
LEMMA ItemsInv ==
    ASSUME Inv, pc = "looked", pc' = "answered",
           NEW items \in Seq(Items), answer' = [status |-> "ok", items |-> items],
           \A i \in DOMAIN items :
                items[i].at = stored.at /\ items[i].object \in looked \cap stored.objects,
           \A o \in looked \cap stored.objects : \E i \in DOMAIN items : items[i].object = o,
           request.verb = "get" => Len(items) = 1,
           UNCHANGED <<lister, stored, request, looked, table, seen, steady, stores>>
    PROVE  Inv'
  <1>1. TypeOK'
    <2>1. \A i \in DOMAIN items : items[i] \in Items
      OBVIOUS
    <2> QED
      BY <2>1 DEF Inv, TypeOK
  <1>2. CallInv'
    BY DEF Inv, CallInv
  <1>3. ServesOnlyCurrent'
    BY DEF Inv, CallInv, ServesOnlyCurrent
  <1>4. ServesAllSteady'
    <2>1. steady \subseteq looked \cap stored.objects
      BY DEF Inv, CallInv
    <2>2. steady \subseteq {i.object : i \in ToSet(items)}
      BY <2>1 DEF ToSet
    <2> QED
      BY <2>2 DEF ServesAllSteady
  <1>5. TableShowsAnswer'
    BY DEF TableShowsAnswer
  <1> QED
    BY <1>1, <1>2, <1>3, <1>4, <1>5 DEF Inv

(* A list is answered (node.go:87-93, pod.go:86-92). *)
LEMMA ListAnswerInv ==
    ASSUME Inv, ListAnswer
    PROVE  Inv'
  <1>1. PICK ms \in getMetrics : Answer("ok", ms)
    BY DEF ListAnswer
  <1>2. looked \subseteq Objects /\ stored.at \in 0..MaxStores
    BY DEF Inv, TypeOK
  <1>3. /\ ms \in Seq(Items)
        /\ \A i \in DOMAIN ms : ms[i].at = stored.at /\ ms[i].object \in looked \cap stored.objects
        /\ \A o \in looked \cap stored.objects : \E i \in DOMAIN ms : ms[i].object = o
    BY <1>2, Served
  <1> QED
    BY <1>1, <1>3, ItemsInv DEF ListAnswer, Answer

(* A Get is answered with the one item there is, or with none               *)
(* (node.go:125-136, pod.go:123-137).                                       *)
LEMMA GetAnswerInv ==
    ASSUME Inv, GetAnswer
    PROVE  Inv'
  <1> DEFINE object == <<request.namespace, request.name>>
  <1>1. PICK ms \in getMetrics : \/ ms = << >> /\ Answer("not_found", << >>)
                                 \/ ms # << >> /\ Answer("ok", <<ms[1]>>)
    BY DEF GetAnswer
  <1>2. looked \subseteq Objects /\ stored.at \in 0..MaxStores /\ looked = {object}
    BY DEF GetAnswer, Inv, TypeOK
  <1>3. /\ ms \in Seq(Items)
        /\ \A i \in DOMAIN ms : ms[i].at = stored.at /\ ms[i].object \in looked \cap stored.objects
        /\ \A o \in looked \cap stored.objects : \E i \in DOMAIN ms : ms[i].object = o
    BY <1>2, Served
  <1>4. CASE ms = << >>
    <2>1. looked \cap stored.objects = {}
      BY <1>3, <1>4
    <2>2. steady = {}
      BY <2>1 DEF GetAnswer, Inv, CallInv
    <2> QED
      BY <1>1, <1>4, <2>2, NoItemsInv DEF GetAnswer, Answer
  <1>5. CASE ms # << >>
    <2> DEFINE items == <<ms[1]>>
    <2>1. 1 \in DOMAIN ms
      BY <1>3, <1>5
    <2>2. items \in Seq(Items) /\ Len(items) = 1 /\ DOMAIN items = {1} /\ items[1] = ms[1]
      BY <1>3, <2>1
    <2> HIDE DEF items
    <2>3. \A i \in DOMAIN items :
            items[i].at = stored.at /\ items[i].object \in looked \cap stored.objects
      BY <1>3, <2>1, <2>2
    <2>4. \A o \in looked \cap stored.objects : \E i \in DOMAIN items : items[i].object = o
      BY <1>2, <1>3, <2>1, <2>2
    <2>5. answer' = [status |-> "ok", items |-> items] /\ pc' = "answered"
      BY <1>1, <1>5 DEF Answer, items
    <2> QED
      BY <2>2, <2>3, <2>4, <2>5, ItemsInv DEF GetAnswer
  <1> QED
    BY <1>4, <1>5

(* The answer is sent. *)
LEMMA SentInv ==
    ASSUME Inv, Sent
    PROVE  Inv'
  <1> USE DEF Sent, NoAnswer, NoTable
  <1>1. TypeOK'
    BY DEF Inv, TypeOK
  <1>2. CallInv'
    BY DEF CallInv
  <1>3. (ServesOnlyCurrent /\ ServesAllSteady /\ TableShowsAnswer)'
    BY DEF ServesOnlyCurrent, ServesAllSteady, TableShowsAnswer
  <1> QED
    BY <1>1, <1>2, <1>3 DEF Inv

-----------------------------------------------------------------------------
(* Every set of numbers has a least one: induction over the pods of a table. *)
LEMMA LeastNumber ==
    ASSUME NEW T \in SUBSET Nat, T # {}
    PROVE  \E n \in T : \A m \in T : n <= m
  <1>1. \E R : /\ \A x, y \in Nat : <<y, x>> \in R <=> y < x
               /\ \E x \in T : \A y \in T : ~ (<<y, x>> \in R)
    <2>1. \E x \in T : \A y \in T : ~ (<<y, x>> \in OpToRel(<, Nat))
      BY NatLessThanWellFounded, WFMin
    <2>2. \A x, y \in Nat : <<y, x>> \in OpToRel(<, Nat) <=> y < x
      BY DEF OpToRel
    <2> QED
      BY <2>1, <2>2, Zenon
  <1>2. PICK R : /\ \A x, y \in Nat : <<y, x>> \in R <=> y < x
                 /\ \E x \in T : \A y \in T : ~ (<<y, x>> \in R)
    BY <1>1
  <1>3. PICK n \in T : \A y \in T : ~ (<<y, n>> \in R)
    BY <1>2
  <1>4. \A m \in T : ~ (m < n)
    BY <1>2, <1>3
  <1>5. \A m \in T : n <= m
    BY <1>4
  <1> QED
    BY <1>5

(* The tables of each number of pods are what the loop makes of them, one   *)
(* pod after the other (table.go:29-73).                                    *)
LEMMA TablesOfLoop ==
    ASSUME NEW items \in Seq(Items)
    PROVE  PodTables(items) = [n \in 0..Len(items) |->
              IF n = 0 THEN [usage |-> [k \in {} |-> {}], columns |-> {}, rows |-> << >>]
              ELSE AddPod(PodTables(items)[n - 1], items[n])]
  <1> DEFINE Start == [usage |-> [k \in {} |-> {}], columns |-> {}, rows |-> << >>]
             Loop(m, t) == t = [n \in 0..m |-> IF n = 0 THEN Start
                                               ELSE AddPod(t[n - 1], items[n])]
             Endless == {m \in Nat : ~ \E t : Loop(m, t)}
  <1> HIDE DEF Start
  <1>1. Endless = {}
    <2> SUFFICES ASSUME Endless # {} PROVE FALSE
      OBVIOUS
    <2>1. PICK m \in Endless : \A l \in Endless : m <= l
      BY LeastNumber
    <2>2. m # 0
      <3> SUFFICES ASSUME m = 0 PROVE FALSE
        OBVIOUS
      <3>1. Loop(0, [n \in 0..0 |-> Start])
        OBVIOUS
      <3> QED
        BY <3>1
    <2>3. PICK t : Loop(m - 1, t)
      <3>1. m - 1 \in Nat /\ ~(m <= m - 1)
        BY <2>2
      <3>2. m - 1 \notin Endless
        BY <2>1, <3>1
      <3> HIDE DEF Loop
      <3> QED
        BY <3>1, <3>2
    <2>4. Loop(m, [n \in 0..m |-> IF n = m THEN AddPod(t[m - 1], items[m]) ELSE t[n]])
      BY <2>1, <2>2, <2>3
    <2> QED
      BY <2>4
  <1>2. \E t : Loop(Len(items), t)
    BY <1>1
  <1>3. PodTables(items) = CHOOSE t : Loop(Len(items), t)
    BY DEF PodTables, Start
  <1> HIDE DEF Loop
  <1>4. Loop(Len(items), PodTables(items))
    BY <1>2, <1>3
  <1> QED
    BY <1>4 DEF Loop, Start

(* A row, whatever its cells are. *)
Rows ==
    [object : Objects,
     cells  : UNION {[names -> SUBSET (Objects \X (1..MaxContainers))] : names \in SUBSET Resources}]

(* The table of the first n pods: its columns are named once one of them has *)
(* a usage, and each row shows its own pod.                                  *)
TableOf(t, items, n) ==
    /\ t.columns = IF \E j \in 1..n : items[j].usages # {} THEN Resources ELSE {}
    /\ t.rows \in Seq(Rows) /\ Len(t.rows) = n
    /\ \A i \in 1..n :
        /\ t.rows[i].object = items[i].object
        /\ \A k \in DOMAIN t.rows[i].cells : t.rows[i].cells[k] = items[i].usages
        /\ (\E j \in 1..i : items[j].usages # {}) => DOMAIN t.rows[i].cells = Resources

(* One turn of the loop adds the row of its pod (table.go:29-73). *)
LEMMA AddPodOK ==
    ASSUME NEW items \in Seq(Items), NEW n \in 1..Len(items), NEW t, TableOf(t, items, n - 1)
    PROVE  TableOf(AddPod(t, items[n]), items, n)
  <1> DEFINE pod == items[n]
             usage == [k \in Keys(pod.usages) |-> pod.usages]
             names == IF t.columns = {} THEN Keys(pod.usages) ELSE t.columns
             row == [object |-> pod.object, cells |-> CellsOf(names, usage)]
             named == \E j \in 1..n : items[j].usages # {}
  <1>1. pod \in Items /\ n \in Nat \ {0} /\ n - 1 \in Nat
    OBVIOUS
  <1>2. AddPod(t, pod) = [usage |-> usage, columns |-> names, rows |-> Append(t.rows, row)]
    <2> DEFINE before == Emptied(t.usage)
               keys == DOMAIN before \cup Keys(pod.usages)
    <2>1. before = [k \in {} |-> {}] /\ keys = Keys(pod.usages)
      BY DEF Emptied
    <2>2. [k \in keys |-> CellsOf(keys, before)[k] \cup pod.usages] = usage
      BY <2>1 DEF CellsOf
    <2>3. DOMAIN usage = Keys(pod.usages)
      OBVIOUS
    <2> QED
      BY <2>2, <2>3 DEF AddPod
  <1>3. names = IF named THEN Resources ELSE {}
    <2>1. Resources # {}
      BY DEF Resources
    <2>2. named <=> pod.usages # {} \/ \E j \in 1..(n - 1) : items[j].usages # {}
      BY <1>1
    <2> QED
      BY <2>1, <2>2 DEF TableOf, Keys
  <1>4. /\ CellsOf(names, usage) \in [names -> SUBSET (Objects \X (1..MaxContainers))]
        /\ \A k \in names : CellsOf(names, usage)[k] = pod.usages
    <2>1. \A k \in names : k \notin DOMAIN usage => pod.usages = {}
      BY <1>3 DEF Keys
    <2>2. pod.usages \in SUBSET (Objects \X (1..MaxContainers))
      BY <1>1 DEF Items
    <2> QED
      BY <2>1, <2>2 DEF CellsOf
  <1> HIDE DEF names, usage, named
  <1>5. names \in SUBSET Resources
    BY <1>3
  <1>6. row \in Rows
    BY <1>1, <1>4, <1>5 DEF Rows, Items
  <1>7. DOMAIN row.cells = names
    BY <1>4
  <1> HIDE DEF pod
  <1>8. /\ row.object = pod.object
        /\ \A k \in DOMAIN row.cells : row.cells[k] = pod.usages
        /\ named => DOMAIN row.cells = Resources
    BY <1>3, <1>4, <1>7
  <1> HIDE DEF row
  <1> DEFINE rows == Append(t.rows, row)
  <1>9. /\ rows \in Seq(Rows) /\ Len(rows) = n /\ rows[n] = row
        /\ \A i \in 1..(n - 1) : rows[i] = t.rows[i]
    BY <1>1, <1>6 DEF TableOf
  <1> HIDE DEF rows
  <1>10. ASSUME NEW i \in 1..n
         PROVE  /\ rows[i].object = items[i].object
                /\ \A k \in DOMAIN rows[i].cells : rows[i].cells[k] = items[i].usages
                /\ (\E j \in 1..i : items[j].usages # {}) => DOMAIN rows[i].cells = Resources
    <2>1. CASE i = n
      BY <1>8, <1>9, <2>1 DEF pod, named
    <2>2. CASE i # n
      <3>1. i \in 1..(n - 1)
        BY <2>2
      <3>2. rows[i] = t.rows[i]
        BY <1>9, <3>1, Zenon
      <3> QED
        BY <3>1, <3>2, Zenon DEF TableOf
    <2> QED
      BY <2>1, <2>2
  <1>11. /\ AddPod(t, items[n]).columns = names
         /\ AddPod(t, items[n]).rows = rows
    BY <1>2 DEF pod, rows
  <1> QED
    BY <1>3, <1>9, <1>10, <1>11 DEF TableOf, named

(* So that the loop makes the table of all pods. *)
LEMMA TableOfPods ==
    ASSUME NEW items \in Seq(Items)
    PROVE  TableOf(addPodMetricsToTable(items), items, Len(items))
  <1> DEFINE t == PodTables(items)
             Wrong == {n \in 0..Len(items) : ~TableOf(t[n], items, n)}
  <1>0. Len(items) \in Nat
    OBVIOUS
  <1>1. t[0].rows = << >> /\ t[0].columns = {}
        /\ \A n \in 1..Len(items) : t[n] = AddPod(t[n - 1], items[n])
    <2> DEFINE Turn(n) ==
                IF n = 0 THEN [usage |-> [k \in {} |-> {}], columns |-> {}, rows |-> << >>]
                ELSE AddPod(t[n - 1], items[n])
    <2>1. t = [n \in 0..Len(items) |-> Turn(n)]
      BY TablesOfLoop
    <2> HIDE DEF t, Turn
    <2>2. \A n \in 0..Len(items) : t[n] = Turn(n)
      BY <2>1
    <2>3. t[0] = [usage |-> [k \in {} |-> {}], columns |-> {}, rows |-> << >>]
      BY <1>0, <2>2 DEF Turn
    <2>4. \A n \in 1..Len(items) : t[n] = AddPod(t[n - 1], items[n])
      BY <1>0, <2>2 DEF Turn
    <2>5. t[0].rows = << >> /\ t[0].columns = {}
      BY <2>3
    <2> QED
      BY <2>4, <2>5
  <1> HIDE DEF t
  <1>2. Wrong = {}
    <2> SUFFICES ASSUME Wrong # {} PROVE FALSE
      OBVIOUS
    <2>1. PICK n \in Wrong : \A m \in Wrong : n <= m
      <3>1. Wrong \in SUBSET Nat
        BY <1>0
      <3> QED
        BY <3>1, LeastNumber
    <2>2. TableOf(t[0], items, 0)
      BY <1>1 DEF TableOf
    <2>3. n # 0
      BY <2>2
    <2>4. n \in 1..Len(items) /\ n - 1 \in 0..Len(items) /\ ~(n <= n - 1)
      BY <1>0, <2>3
    <2>5. TableOf(t[n - 1], items, n - 1)
      BY <2>1, <2>4
    <2> QED
      BY <1>1, <2>4, <2>5, AddPodOK
  <1>3. TableOf(t[Len(items)], items, Len(items))
    BY <1>0, <1>2
  <1> QED
    BY <1>3 DEF addPodMetricsToTable, TableOf, t

(* An answer becomes a table (node.go:139-157, pod.go:140-158). *)
LEMMA ConvertToTableInv ==
    ASSUME Inv, ConvertToTable
    PROVE  Inv'
  <1>1. /\ UNCHANGED <<lister, stored, request, looked, answer, seen, steady, stores>>
        /\ pc = "answered" /\ pc' = "tabled"
    BY DEF ConvertToTable
  <1>2. answer.items \in Seq(Items)
    BY DEF Inv, CallInv
  <1>3. /\ table'.columns \subseteq Resources
        /\ DOMAIN table'.rows = DOMAIN answer.items
        /\ \A i \in DOMAIN table'.rows :
            /\ table'.rows[i].object = answer.items[i].object
            /\ \A k \in DOMAIN table'.rows[i].cells : table'.rows[i].cells[k] = answer.items[i].usages
            /\ (\E j \in 1..i : answer.items[j].usages # {}) =>
                    DOMAIN table'.rows[i].cells = table'.columns
    <2>1. CASE request.resource = "nodes"
      <3>1. table' = addNodeMetricsToTable(answer.items)
        BY <2>1 DEF ConvertToTable
      <3> QED
        BY <3>1 DEF addNodeMetricsToTable, Keys
    <2>2. CASE request.resource # "nodes"
      <3>1. table' = addPodMetricsToTable(answer.items)
        BY <2>2 DEF ConvertToTable
      <3>2. TableOf(table', answer.items, Len(answer.items))
        BY <1>2, <3>1, TableOfPods
      <3>3. DOMAIN table'.rows = 1..Len(answer.items) /\ DOMAIN answer.items = 1..Len(answer.items)
        BY <1>2, <3>2 DEF TableOf
      <3>4. ASSUME NEW i \in 1..Len(answer.items), NEW j \in 1..i, answer.items[j].usages # {}
            PROVE  table'.columns = Resources
        <4>1. j \in 1..Len(answer.items)
          BY <1>2
        <4> QED
          BY <3>2, <3>4, <4>1 DEF TableOf
      <3> QED
        BY <3>2, <3>3, <3>4 DEF TableOf
    <2> QED
      BY <2>1, <2>2
  <1>4. TypeOK'
    <2>0. \A i \in DOMAIN answer.items : answer.items[i].object \in Objects
      <3>1. \A i \in DOMAIN answer.items : answer.items[i] \in Items
        BY DEF Inv, TypeOK
      <3> QED
        BY <3>1 DEF Items
    <2>1. \A i \in DOMAIN table'.rows : table'.rows[i].object \in Objects
      BY <1>3, <2>0
    <2> QED
      BY <1>1, <1>3, <2>1 DEF Inv, TypeOK
  <1>5. CallInv'
    BY <1>1 DEF Inv, CallInv
  <1>6. (ServesOnlyCurrent /\ ServesAllSteady)'
    BY <1>1 DEF Inv, ServesOnlyCurrent, ServesAllSteady
  <1>7. TableShowsAnswer'
    BY <1>1, <1>3 DEF TableShowsAnswer
  <1> QED
    BY <1>4, <1>5, <1>6, <1>7 DEF Inv

-----------------------------------------------------------------------------
(* Every step keeps the invariant. *)
LEMMA NextInv ==
    Inv /\ [Next]_vars => Inv'
  <1> SUFFICES ASSUME Inv, [Next]_vars PROVE Inv'
    OBVIOUS
  <1>1. CASE UNCHANGED vars
    BY <1>1 DEF vars, call, Inv, TypeOK, CallInv, ServesOnlyCurrent, ServesAllSteady,
                TableShowsAnswer
  <1>2. CASE Next
    BY <1>2, InformerInv, StoreInv, CallKeepsInv, ListInv, GetInv, ListerFailsInv, ListAnswerInv,
       GetAnswerInv, ConvertToTableInv, SentInv DEF Next
  <1> QED
    BY <1>1, <1>2

(* The invariant holds of every behaviour. *)
LEMMA Invariance ==
    Spec => []Inv
  BY InitInv, NextInv, PTL DEF Spec

(* Every reachable state is well typed, a Get asks the storage for the one  *)
(* object, and an answer that is not OK is empty (node.go:81-137,           *)
(* pod.go:80-138).                                                          *)
THEOREM Typing ==
    Spec => []TypeOK
  <1>1. Inv => TypeOK
    BY DEF Inv
  <1> QED
    BY <1>1, Invariance, PTL

(* Whatever informers and scrapes do between the two reads of a call, its   *)
(* answer has only objects that were asked for and in the lister during the *)
(* call, with metrics of one store (node.go:81-137, pod.go:80-138).         *)
THEOREM OnlyCurrent ==
    Spec => []ServesOnlyCurrent
  <1>1. Inv => ServesOnlyCurrent
    BY DEF Inv
  <1> QED
    BY <1>1, Invariance, PTL

(* No object that stayed in the lister and in the storage during a call is  *)
(* left out of its answer (node.go:81-137, pod.go:80-138).                  *)
THEOREM AllSteady ==
    Spec => []ServesAllSteady
  <1>1. Inv => ServesAllSteady
    BY DEF Inv
  <1> QED
    BY <1>1, Invariance, PTL

(* However many pods a table has, and although all of them share one map of *)
(* sums, each row shows its own pod (table.go:26-100).                      *)
THEOREM TablesShowAnswers ==
    Spec => []TableShowsAnswer
  <1>1. Inv => TableShowsAnswer
    BY DEF Inv
  <1> QED
    BY <1>1, Invariance, PTL
=============================================================================
