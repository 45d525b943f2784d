------------------------------ MODULE MetricsAPI ----------------------------
(***************************************************************************)
(* The resource metrics API (pkg/api): List and Get of node and of pod     *)
(* metrics.  A call first reads the lister, which informers keep changing, *)
(* then the storage, which the scrape loop keeps replacing.  Calls only    *)
(* read, so that one call at a time, among any changes of the lister and   *)
(* of the storage, is every call.                                          *)
(*                                                                         *)
(* An object is a pair of numbers, its namespace and its name, ordered as  *)
(* the strings are.  A node has the namespace 0, which as the namespace of *)
(* a request means all of them.  The two labels that matter are whether    *)
(* the object satisfies the server's node selector ("scraped") and the     *)
(* label selector of the request ("picked").  The storage is seen through  *)
(* its interface: the objects it would serve, and the store they come from.*)
(* A node has one usage and a pod one per container, none when the storage *)
(* left all of its containers out.                                         *)
(***************************************************************************)
EXTENDS Naturals, FiniteSets, SequencesExt

CONSTANTS
    Nodes,            \* the nodes there may be
    Pods,             \* the pods there may be
    HasNodeSelector,  \* whether the server has a node selector
    FieldSelectors,   \* of lists: sets of terms [field, equal, value]; {} is no selector
    MaxContainers,    \* how many containers of a pod are shown
    MaxStores         \* how many batches are stored

Objects == Nodes \cup Pods

(* No node selector is for pods. *)
Labels(o) == IF o \in Nodes THEN {"scraped", "picked"} ELSE {"picked"}

ASSUME APIAssumption ==
    /\ Nodes \subseteq {0} \X (Nat \ {0})
    /\ Pods \subseteq (Nat \ {0}) \X (Nat \ {0})
    /\ IsFiniteSet(Nodes) /\ IsFiniteSet(Pods)
    /\ HasNodeSelector \in BOOLEAN
    /\ FieldSelectors \subseteq SUBSET [field : {1, 2}, equal : BOOLEAN, value : Nat]
    /\ MaxStores \in Nat /\ MaxContainers \in Nat \ {0}

VARIABLES
    lister,   \* the labels of the objects in the informers' caches
    stored,   \* what the storage serves: [at, objects]
    pc,       \* of the call: "idle", "called", "looked", "answered", "tabled"
    request,  \* [verb, resource, namespace, name, labelled, fields]
    looked,   \* the objects the lister returned
    answer,   \* [status, items]
    table,    \* the answer as a table: [columns, rows]
    seen,     \* history: the wanted objects in the lister at some moment of the call
    steady,   \* history: those in the lister and the storage at every moment of it
    stores    \* history: what the storage served at some moment of it

call == <<pc, request, looked, answer, table>>
vars == <<lister, stored, call, seen, steady, stores>>

(* A list has no name, which is 0, and a Get has no selectors. *)
Requests ==
    [verb : {"list"}, resource : {"nodes"}, namespace : {0}, name : {0}, labelled : BOOLEAN,
     fields : FieldSelectors]
    \cup [verb : {"list"}, resource : {"pods"}, namespace : {0} \cup {o[1] : o \in Pods},
          name : {0}, labelled : BOOLEAN, fields : FieldSelectors]
    \cup {[verb |-> "get", resource |-> "nodes", namespace |-> 0, name |-> o[2],
           labelled |-> FALSE, fields |-> {}] : o \in Nodes}
    \cup {[verb |-> "get", resource |-> "pods", namespace |-> o[1], name |-> o[2],
           labelled |-> FALSE, fields |-> {}] : o \in Pods}

NoRequest ==
    [verb |-> "none", resource |-> "none", namespace |-> 0, name |-> 0, labelled |-> FALSE,
     fields |-> {}]

NoAnswer == [status |-> "none", items |-> << >>]

NoTable == [columns |-> {}, rows |-> << >>]

Init ==
    /\ lister = [o \in {} |-> {}]
    /\ stored = [at |-> 0, objects |-> {}]
    /\ pc = "idle"
    /\ request = NoRequest
    /\ looked = {}
    /\ answer = NoAnswer /\ table = NoTable
    /\ seen = {} /\ steady = {} /\ stores = {}

-----------------------------------------------------------------------------
(* fields.Selector: every term is about metadata.namespace (1) or            *)
(* metadata.name (2), and asks for a value or for another one.  A node has   *)
(* no namespace in its fields, which reads as the empty one.                 *)
Matches(selector, o) == \A f \in selector : f.equal = (o[f.field] = f.value)

(* What a call may serve when the lister is l: the meaning of its request.  *)
Wanted(q, l) ==
    {o \in DOMAIN l :
        /\ o \in (IF q.resource = "nodes" THEN Nodes ELSE Pods)
        /\ q.name \in {0, o[2]}
        /\ q.namespace \in {0, o[1]}
        /\ Matches(q.fields, o)
        /\ q.labelled => "picked" \in l[o]
        /\ (q.verb = "list" /\ q.resource = "nodes" /\ HasNodeSelector) => "scraped" \in l[o]}

(* The history of the call up to a moment with this lister and this storage. *)
Observe(l, s) ==
    IF pc \in {"called", "looked"}
    THEN /\ seen' = seen \cup Wanted(request, l)
         /\ steady' = steady \cap Wanted(request, l) \cap s.objects
         /\ stores' = stores \cup {s}
    ELSE UNCHANGED <<seen, steady, stores>>

-----------------------------------------------------------------------------
(* The informers: an object appears, changes its labels or is removed.  What *)
(* changes once the answer is there can as well change before the next call. *)
Informer(o) ==
    /\ pc \notin {"answered", "tabled"}
    /\ \/ \E labels \in SUBSET Labels(o) :
            lister' = [p \in DOMAIN lister \cup {o} |-> IF p = o THEN labels ELSE lister[p]]
       \/ lister' = [p \in DOMAIN lister \ {o} |-> lister[p]]
    /\ lister' # lister
    /\ Observe(lister', stored)
    /\ UNCHANGED <<stored, call>>

(* The scrape loop stores a batch: what it serves may be of objects that are  *)
(* in the lister no more, and never of some that are.                         *)
Store ==
    /\ pc \notin {"answered", "tabled"}
    /\ stored.at < MaxStores
    /\ \E served \in SUBSET Objects : stored' = [at |-> stored.at + 1, objects |-> served]
    /\ Observe(lister, stored')
    /\ UNCHANGED <<lister, call>>

-----------------------------------------------------------------------------
Call(q) ==
    /\ pc = "idle"
    /\ pc' = "called"
    /\ request' = q
    /\ seen' = Wanted(q, lister)
    /\ steady' = Wanted(q, lister) \cap stored.objects
    /\ stores' = {stored}
    /\ UNCHANGED <<lister, stored, looked, answer, table>>

Answer(status, items) ==
    /\ pc' = "answered"
    /\ answer' = [status |-> status, items |-> items]

(* The selectors a lister is given.  labels.Everything selects all. *)
LabelSelector(q) == IF q.labelled THEN {"picked"} ELSE {}

NodeSelector == IF HasNodeSelector THEN {"scraped"} ELSE {}

(* client-go's listers: the objects that have the labels. *)
ListerList(objects, labels) == {o \in DOMAIN lister \cap objects : labels \subseteq lister[o]}

(* Those whose fields the field selector matches, if there is one. *)
filter(objects, q) ==
    IF q.fields = {} THEN objects ELSE {o \in objects : Matches(q.fields, o)}

nodes(q) == filter(ListerList(Nodes, LabelSelector(q) \cup NodeSelector), q)

(* Mutant: a request for all namespaces is one for the namespace without a name. *)
podsOfOne(q) == filter(ListerList({o \in Pods : o[1] = q.namespace}, LabelSelector(q)), q)

pods(q) ==
    LET ByNamespace == {o \in Pods : q.namespace = 0 \/ o[1] = q.namespace}
    IN  filter(ListerList(ByNamespace, LabelSelector(q)), q)

ListNodes ==
    /\ pc = "called" /\ request.verb = "list" /\ request.resource = "nodes"
    /\ looked' = nodes(request)
    /\ pc' = "looked"
    /\ UNCHANGED <<lister, stored, request, answer, table, seen, steady, stores>>

ListPods ==
    /\ pc = "called" /\ request.verb = "list" /\ request.resource = "pods"
    /\ looked' = pods(request)
    /\ pc' = "looked"
    /\ UNCHANGED <<lister, stored, request, answer, table, seen, steady, stores>>

(* Mutant: the error of the lister is not returned. *)
GetUnchecked ==
    /\ pc = "called" /\ request.verb = "get"
    /\ looked' = DOMAIN lister \cap {<<request.namespace, request.name>>}
    /\ pc' = "looked"
    /\ UNCHANGED <<lister, stored, request, answer, table, seen, steady, stores>>

(* Mutant: the storage is asked for a name the lister may not know. *)
GetByName ==
    /\ pc = "called" /\ request.verb = "get"
    /\ looked' = {<<request.namespace, request.name>>}
    /\ pc' = "looked"
    /\ UNCHANGED <<lister, stored, request, answer, table, seen, steady, stores>>

(* Get of a node, which the node selector does not restrict, or of a pod. *)
Get ==
    /\ pc = "called" /\ request.verb = "get"
    /\ LET object == <<request.namespace, request.name>> IN
       \/ /\ object \in DOMAIN lister
          /\ looked' = {object}
          /\ pc' = "looked"
          /\ UNCHANGED answer
       \/ /\ object \notin DOMAIN lister
          /\ Answer("not_found", << >>)
          /\ UNCHANGED looked
    /\ UNCHANGED <<lister, stored, request, table, seen, steady, stores>>

(* The lister returns an error. *)
ListerFails ==
    /\ pc = "called"
    /\ Answer("error", << >>)
    /\ UNCHANGED <<lister, stored, request, looked, table, seen, steady, stores>>

(* By namespace and then by name, the order of the Kubernetes API. *)
Less(o, p) == IF o[1] # p[1] THEN o[1] < p[1] ELSE o[2] < p[2]

(* The usages the storage may serve of an object. *)
Usages(o) == IF o \in Nodes THEN {{o} \X {1}} ELSE {{o} \X (1..n) : n \in 0..MaxContainers}

(* sort.Slice: the objects one by one, each less than those behind it. *)
Sorted(objects) ==
    {s \in [1..Cardinality(objects) -> objects] :
        \A i, j \in 1..Cardinality(objects) : i < j => Less(s[i], s[j])}

(* getMetrics: what the storage serves of the objects, sorted. *)
getMetrics ==
    LET served == looked \cap stored.objects
        usages == {u \in [served -> UNION {Usages(o) : o \in served}] :
                    \A o \in served : u[o] \in Usages(o)}
    IN  UNION {{[i \in 1..Cardinality(served) |->
                    [object |-> s[i], at |-> stored.at, usages |-> u[s[i]]]] : u \in usages} :
                s \in Sorted(served)}

ListAnswer ==
    /\ pc = "looked" /\ request.verb = "list"
    /\ \E ms \in getMetrics : Answer("ok", ms)
    /\ UNCHANGED <<lister, stored, request, looked, table, seen, steady, stores>>

GetAnswer ==
    /\ pc = "looked" /\ request.verb = "get"
    /\ \E ms \in getMetrics :
        \/ ms = << >> /\ Answer("not_found", << >>)
        \/ ms # << >> /\ Answer("ok", <<ms[1]>>)
    /\ UNCHANGED <<lister, stored, request, looked, table, seen, steady, stores>>

-----------------------------------------------------------------------------
(* What every usage has, and what the table has columns for beside the name *)
(* and the window.                                                          *)
Resources == {"cpu", "memory"}

Keys(usages) == IF usages = {} THEN {} ELSE Resources

(* A sum of usages is the set of them, and zero the empty set. *)
CellsOf(names, usage) == [k \in names |-> IF k \in DOMAIN usage THEN usage[k] ELSE {}]

(* Mutant: the map of the sums keeps those of the pods before. *)
EmptiedNot(usage) == usage

(* Every key is deleted from the map of the sums. *)
Emptied(usage) == [k \in {} |-> {}]

(* One pod's row.  The columns are named by the first pod that has a usage. *)
AddPod(t, pod) ==
    LET before == Emptied(t.usage)
        keys == DOMAIN before \cup Keys(pod.usages)
        usage == [k \in keys |-> CellsOf(keys, before)[k] \cup pod.usages]
        names == IF t.columns = {} THEN DOMAIN usage ELSE t.columns
    IN  [usage   |-> usage,
         columns |-> names,
         rows    |-> Append(t.rows, [object |-> pod.object, cells |-> CellsOf(names, usage)])]

(* The table after each number of pods. *)
PodTables(pods_) ==
    LET t[n \in 0..Len(pods_)] ==
            IF n = 0 THEN [usage |-> [k \in {} |-> {}], columns |-> {}, rows |-> << >>]
            ELSE AddPod(t[n - 1], pods_[n])
    IN  t

addPodMetricsToTable(pods_) ==
    LET t == PodTables(pods_)[Len(pods_)]
    IN  [columns |-> t.columns, rows |-> t.rows]

addNodeMetricsToTable(nodes_) ==
    LET names == IF nodes_ = << >> THEN {} ELSE Keys(nodes_[1].usages)
    IN  [columns |-> names,
         rows    |-> [i \in DOMAIN nodes_ |->
                        [object |-> nodes_[i].object,
                         cells  |-> [k \in names |-> nodes_[i].usages]]]]

(* The client asked for a table. *)
ConvertToTable ==
    /\ pc = "answered" /\ answer.status = "ok"
    /\ pc' = "tabled"
    /\ table' = IF request.resource = "nodes" THEN addNodeMetricsToTable(answer.items)
                ELSE addPodMetricsToTable(answer.items)
    /\ UNCHANGED <<lister, stored, request, looked, answer, seen, steady, stores>>

(* The answer has been sent; another call may come. *)
Sent ==
    /\ pc \in {"answered", "tabled"}
    /\ pc' = "idle"
    /\ request' = NoRequest
    /\ looked' = {} /\ answer' = NoAnswer /\ table' = NoTable
    /\ seen' = {} /\ steady' = {} /\ stores' = {}
    /\ UNCHANGED <<lister, stored>>

Next ==
    \/ \E o \in Objects : Informer(o)
    \/ Store
    \/ \E q \in Requests : Call(q)
    \/ ListNodes \/ ListPods \/ Get \/ ListerFails
    \/ ListAnswer \/ GetAnswer \/ ConvertToTable \/ Sent

Spec == Init /\ [][Next]_vars

-----------------------------------------------------------------------------
Items ==
    [object : Objects, at : 0..MaxStores, usages : SUBSET (Objects \X (1..MaxContainers))]

(* The types of the lister, the storage and the call.  A Get that goes on to *)
(* the storage asks it for the one object (node.go:129, pod.go:128), and an  *)
(* answer that is not OK has no items.                                       *)
TypeOK ==
    /\ DOMAIN lister \subseteq Objects
    /\ \A o \in DOMAIN lister : lister[o] \subseteq Labels(o)
    /\ stored \in [at : 0..MaxStores, objects : SUBSET Objects]
    /\ pc \in {"idle", "called", "looked", "answered", "tabled"}
    /\ request \in Requests \cup {NoRequest}
    /\ looked \subseteq Objects
    /\ (pc = "looked" /\ request.verb = "get") => looked = {<<request.namespace, request.name>>}
    /\ answer.status \in {"none", "ok", "not_found", "error"}
    /\ \A i \in DOMAIN answer.items : answer.items[i] \in Items
    /\ answer.status # "ok" => answer.items = << >>
    /\ table.columns \subseteq Resources
    /\ \A i \in DOMAIN table.rows : table.rows[i].object \in Objects

(* Every item of an answer is of an object the request asks for that was in  *)
(* the lister at some moment of the call, however long its metrics stay in   *)
(* the storage; and all of them come from one store that the storage served  *)
(* at some moment of the call (node.go:81-137, pod.go:80-138).               *)
ServesOnlyCurrent ==
    /\ \A i \in DOMAIN answer.items : answer.items[i].object \in seen
    /\ answer.items # << >> =>
        \E s \in stores : \A i \in DOMAIN answer.items :
            answer.items[i].at = s.at /\ answer.items[i].object \in s.objects

(* An object that the request asks for, and that was in the lister and had   *)
(* metrics during the whole call, is in the list; a Get says "not found"     *)
(* only of one that was not, and otherwise has an item (node.go:81-137,      *)
(* pod.go:80-138).                                                           *)
ServesAllSteady ==
    /\ answer.status = "ok" => steady \subseteq {i.object : i \in ToSet(answer.items)}
    /\ answer.status = "not_found" => steady = {}
    /\ (answer.status = "ok" /\ request.verb = "get") => Len(answer.items) = 1

(* A table has the items of the answer in their order, and a row shows the   *)
(* sums of its own object, although one map serves all pods and the columns  *)
(* are named before the later pods are seen.  A row has a cell for every     *)
(* column, unless it is of a pod without a usage ahead of all others: its    *)
(* row is written before the columns have names (table.go:26-73).            *)
TableShowsAnswer ==
    pc = "tabled" =>
        /\ DOMAIN table.rows = DOMAIN answer.items
        /\ \A i \in DOMAIN table.rows :
            LET row == table.rows[i]
                item == answer.items[i]
            IN  /\ row.object = item.object
                /\ \A k \in DOMAIN row.cells : row.cells[k] = item.usages
                /\ (\E j \in 1..i : answer.items[j].usages # {}) =>
                        DOMAIN row.cells = table.columns
=============================================================================
