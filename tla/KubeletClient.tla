---------------------------- MODULE KubeletClient ---------------------------
(***************************************************************************)
(* The kubelet client (pkg/scraper/client/resource/client.go), called by   *)
(* the goroutines of a scrape and of the scrapes that follow.  Each call   *)
(* finds the kubelet's address and port in the status of its node          *)
(* (pkg/utils/address_resolver.go), sends the request, takes a slice from  *)
(* a pool, copies the body of the answer into a bytes.Buffer made of it,   *)
(* decodes the buffer and puts the slice back, whatever went wrong.        *)
(*                                                                         *)
(* A body is a number of pieces, and a piece is represented by the call it *)
(* answers and its position in the body.  An array keeps what was written  *)
(* to it, so that a slice from the pool holds the end of an older body.    *)
(***************************************************************************)
EXTENDS Naturals, Sequences, SequencesExt, FiniteSets

CONSTANTS
    Callers,    \* the goroutines
    Small,      \* the arrays New makes: too short for some bodies
    Large,      \* the arrays a bytes.Buffer grows into
    SmallRoom,  \* the number of pieces a small array has room for
    MaxPieces,  \* the longest body explored; a large array has room for it
    NoArray,    \* the caller has no slice
    NodeStatuses,         \* of the nodes scraped: [Addresses, Port]
    AddressTypePriority,  \* --kubelet-preferred-address-types
    DefaultPort,          \* --kubelet-port
    UseNodeStatusPort     \* --kubelet-use-node-status-port

Arrays == Small \cup Large

ASSUME ClientAssumption ==
    /\ IsFiniteSet(Callers)
    /\ SmallRoom \in Nat /\ MaxPieces \in Nat
    /\ SmallRoom <= MaxPieces
    /\ Small \cap Large = {}
    /\ NoArray \notin Arrays \cup Callers \cup NodeStatuses
    /\ DefaultPort \in Nat /\ UseNodeStatusPort \in BOOLEAN
    /\ AddressTypePriority \in Seq(STRING)
    /\ NodeStatuses \subseteq [Addresses : Seq([Type : STRING, Address : Nat]), Port : Nat]

VARIABLES
    pc,       \* of each call: "idle", "request", "copy", "decode", "return"
    asked,    \* of a request under way: the status of its node, the address and the port
    b,        \* the array of the slice that will be put back
    buf,      \* the array of the bytes.Buffer
    len,      \* the number of pieces in the buffer
    body,     \* the number of pieces of the answer
    decoded,  \* the pieces decodeBatch has met
    memory,   \* the contents of each array
    pool      \* the arrays in kc.buffers

vars == <<pc, asked, b, buf, len, body, decoded, memory, pool>>

NotAsked == [node |-> NoArray, address |-> NoArray, port |-> 0]

Room(a) == IF a \in Small THEN SmallRoom ELSE MaxPieces

Zeroed == [i \in 1..MaxPieces |-> [from |-> NoArray, at |-> 0]]

Held == {b[r] : r \in Callers} \cup {buf[r] : r \in Callers}

(* An array nothing refers to is garbage, and its memory is allocated again. *)
Unused == Arrays \ (Held \cup pool)

Init ==
    /\ pc = [r \in Callers |-> "idle"]
    /\ asked = [r \in Callers |-> NotAsked]
    /\ b = [r \in Callers |-> NoArray]
    /\ buf = [r \in Callers |-> NoArray]
    /\ len = [r \in Callers |-> 0]
    /\ body = [r \in Callers |-> 0]
    /\ decoded = [r \in Callers |-> << >>]
    /\ memory = [a \in Arrays |-> Zeroed]
    /\ pool = {}

-----------------------------------------------------------------------------
(* Mutant: the first address of any of the types is taken. *)
NodeAddressInOrder(node) ==
    SelectInSeq(node.Addresses, LAMBDA a : a.Type \in ToSet(AddressTypePriority))

(* The position of the address to use, or 0 when none is of a known type: for *)
(* each type the addresses are searched, and the first found is returned.     *)
NodeAddress(node) ==
    LET OfType(type) == SelectInSeq(node.Addresses, LAMBDA a : a.Type = type)
        preferred == SelectInSeq(AddressTypePriority, LAMBDA type : OfType(type) # 0)
    IN  IF preferred = 0 THEN 0 ELSE OfType(AddressTypePriority[preferred])

(* Mutant: the default port is used whatever the node reports. *)
PortOfDefault(node) == DefaultPort

(* A kubelet that reports no port is asked at the default one. *)
PortOf(node) == IF UseNodeStatusPort /\ node.Port # 0 THEN node.Port ELSE DefaultPort

(* GetMetrics finds the address of the node and sends the request, or fails   *)
(* when none is of a known type.                                              *)
GetMetrics(r, node) ==
    /\ pc[r] = "idle"
    /\ LET found == NodeAddress(node) IN
       IF found = 0
       THEN pc' = [pc EXCEPT ![r] = "return"] /\ UNCHANGED asked
       ELSE /\ pc' = [pc EXCEPT ![r] = "request"]
            /\ asked' = [asked EXCEPT ![r] =
                    [node |-> node, address |-> node.Addresses[found].Address,
                     port |-> PortOf(node)]]
    /\ decoded' = [decoded EXCEPT ![r] = << >>]
    /\ UNCHANGED <<b, buf, len, body, memory, pool>>

(* The request cannot be made or fails, or the status of its answer is not   *)
(* OK: there is no slice yet.                                                *)
RequestFails(r) ==
    /\ pc[r] = "request"
    /\ pc' = [pc EXCEPT ![r] = "return"]
    /\ asked' = [asked EXCEPT ![r] = NotAsked]
    /\ UNCHANGED <<b, buf, len, body, decoded, memory, pool>>

(* sync.Pool's Get: a slice of the pool, or one that New makes. *)
Get(a) ==
    \/ /\ a \in pool
       /\ pool' = pool \ {a}
       /\ UNCHANGED memory
    \/ /\ a \in Small \cap Unused
       /\ memory' = [memory EXCEPT ![a] = Zeroed]
       /\ UNCHANGED pool

(* Mutant: the buffer is not reset, and keeps what the slice holds. *)
GetBufferUnreset(r) ==
    /\ pc[r] = "request"
    /\ \E a \in Arrays, pieces \in 0..MaxPieces :
        /\ Get(a)
        /\ b' = [b EXCEPT ![r] = a]
        /\ buf' = [buf EXCEPT ![r] = a]
        /\ body' = [body EXCEPT ![r] = pieces]
        /\ len' = [len EXCEPT ![r] = Room(a)]
    /\ pc' = [pc EXCEPT ![r] = "copy"]
    /\ asked' = [asked EXCEPT ![r] = NotAsked]
    /\ UNCHANGED decoded

(* The answer is OK: a slice is taken, and an empty buffer made of it. *)
GetBuffer(r) ==
    /\ pc[r] = "request"
    /\ \E a \in Arrays, pieces \in 0..MaxPieces :
        /\ Get(a)
        /\ b' = [b EXCEPT ![r] = a]
        /\ buf' = [buf EXCEPT ![r] = a]
        /\ body' = [body EXCEPT ![r] = pieces]
        /\ len' = [len EXCEPT ![r] = 0]
    /\ pc' = [pc EXCEPT ![r] = "copy"]
    /\ asked' = [asked EXCEPT ![r] = NotAsked]
    /\ UNCHANGED decoded

(* io.Copy appends a piece of the body to the buffer. *)
Copy(r) ==
    /\ pc[r] = "copy"
    /\ len[r] < body[r]
    /\ len[r] < Room(buf[r])
    /\ memory' = [memory EXCEPT ![buf[r]][len[r] + 1] = [from |-> r, at |-> len[r] + 1]]
    /\ len' = [len EXCEPT ![r] = @ + 1]
    /\ UNCHANGED <<pc, asked, b, buf, body, decoded, pool>>

(* A full buffer moves to a larger array; the slice taken from the pool      *)
(* remains where it was.                                                     *)
Grow(r) ==
    /\ pc[r] = "copy"
    /\ len[r] < body[r]
    /\ len[r] >= Room(buf[r])
    /\ \E a \in Large \cap Unused :
        /\ memory' = [memory EXCEPT ![a] = [i \in 1..MaxPieces |->
                        IF i <= len[r] THEN memory[buf[r]][i] ELSE Zeroed[i]]]
        /\ buf' = [buf EXCEPT ![r] = a]
    /\ UNCHANGED <<pc, asked, b, len, body, decoded, pool>>

(* Mutant: the slice is put back as soon as the body has been read. *)
CopyEndsPut(r) ==
    /\ pc[r] = "copy"
    /\ len[r] >= body[r]
    /\ b' = [b EXCEPT ![r] = buf[r]]
    /\ pool' = pool \cup {buf[r]}
    /\ pc' = [pc EXCEPT ![r] = "decode"]
    /\ UNCHANGED <<asked, buf, len, body, decoded, memory>>

(* The body has been read, and the slice becomes the buffer's. *)
CopyEnds(r) ==
    /\ pc[r] = "copy"
    /\ len[r] >= body[r]
    /\ b' = [b EXCEPT ![r] = buf[r]]
    /\ pc' = [pc EXCEPT ![r] = "decode"]
    /\ UNCHANGED <<asked, buf, len, body, decoded, memory, pool>>

(* The deferred function puts the slice back; the call ends. *)
Put(r) ==
    /\ pool' = pool \cup {b[r]}
    /\ b' = [b EXCEPT ![r] = NoArray]
    /\ buf' = [buf EXCEPT ![r] = NoArray]
    /\ pc' = [pc EXCEPT ![r] = "return"]

(* Mutant: the slice is not put back by a deferred function, and an error     *)
(* returns past it.                                                           *)
FailsUndeferred(r) ==
    /\ pc[r] \in {"copy", "decode"}
    /\ pc' = [pc EXCEPT ![r] = "return"]
    /\ decoded' = [decoded EXCEPT ![r] = << >>]
    /\ UNCHANGED <<asked, b, buf, len, body, memory, pool>>

(* Reading the body fails, by the request's deadline too, or parsing it does. *)
Fails(r) ==
    /\ pc[r] \in {"copy", "decode"}
    /\ Put(r)
    /\ decoded' = [decoded EXCEPT ![r] = << >>]
    /\ UNCHANGED <<asked, len, body, memory>>

(* decodeBatch reads the buffer while other calls go on; the names it keeps   *)
(* are copies.                                                                *)
Decode(r) ==
    /\ pc[r] = "decode"
    /\ Len(decoded[r]) < len[r]
    /\ decoded' = [decoded EXCEPT ![r] = Append(@, memory[b[r]][Len(@) + 1])]
    /\ UNCHANGED <<pc, asked, b, buf, len, body, memory, pool>>

Return(r) ==
    /\ pc[r] = "decode"
    /\ Len(decoded[r]) = len[r]
    /\ Put(r)
    /\ UNCHANGED <<asked, len, body, decoded, memory>>

(* The goroutine ends; one of a later scrape calls again. *)
Ended(r) ==
    /\ pc[r] = "return"
    /\ pc' = [pc EXCEPT ![r] = "idle"]
    /\ decoded' = [decoded EXCEPT ![r] = << >>]
    /\ len' = [len EXCEPT ![r] = 0]
    /\ body' = [body EXCEPT ![r] = 0]
    /\ UNCHANGED <<asked, b, buf, memory, pool>>

(* The garbage collector empties the pool. *)
Collect ==
    /\ pool # {}
    /\ pool' = {}
    /\ UNCHANGED <<pc, asked, b, buf, len, body, decoded, memory>>

Next ==
    \/ \E r \in Callers :
        \/ \E node \in NodeStatuses : GetMetrics(r, node)
        \/ RequestFails(r) \/ GetBuffer(r)
        \/ Copy(r) \/ Grow(r) \/ CopyEnds(r)
        \/ Fails(r) \/ Decode(r) \/ Return(r) \/ Ended(r)
    \/ Collect

Spec == Init /\ [][Next]_vars

-----------------------------------------------------------------------------
Pieces == [from : Callers \cup {NoArray}, at : 0..MaxPieces]

(* The types of the calls, the arrays and the pool.  A call has a slice and a *)
(* buffer exactly from kc.buffers.Get to its return (client.go:110-127).      *)
TypeOK ==
    /\ pc \in [Callers -> {"idle", "request", "copy", "decode", "return"}]
    /\ \A r \in Callers : pc[r] = "request" <=> asked[r] # NotAsked
    /\ b \in [Callers -> Arrays \cup {NoArray}]
    /\ buf \in [Callers -> Arrays \cup {NoArray}]
    /\ \A r \in Callers :
        /\ pc[r] \in {"copy", "decode"} <=> b[r] # NoArray
        /\ pc[r] \in {"copy", "decode"} <=> buf[r] # NoArray
    /\ len \in [Callers -> 0..MaxPieces]
    /\ body \in [Callers -> 0..MaxPieces]
    /\ \A r \in Callers : \A i \in 1..Len(decoded[r]) : decoded[r][i] \in Pieces
    /\ memory \in [Arrays -> [1..MaxPieces -> Pieces]]
    /\ pool \subseteq Arrays

(* No two calls have an array in common, and none has one of the pool, where  *)
(* another call would take it: a slice goes back when nothing reads it any    *)
(* more, and a buffer that has grown leaves nobody its old array              *)
(* (client.go:110-122).                                                       *)
ExclusiveArrays ==
    \A r \in Callers :
        LET mine == {b[r], buf[r]} \ {NoArray} IN
        /\ mine \cap pool = {}
        /\ \A q \in Callers \ {r} : mine \cap {b[q], buf[q]} = {}

(* What decodeBatch reads is the body of this call's own answer, in order,    *)
(* from its first piece; when the call returns, it has been given all of it   *)
(* and nothing that an older and longer body left in the array                *)
(* (client.go:116-123).                                                       *)
DecodesOwnBody ==
    \A r \in Callers :
        /\ \A i \in 1..Len(decoded[r]) : decoded[r][i] = [from |-> r, at |-> i]
        /\ pc[r] = "decode" => len[r] = body[r]

(* A request goes to an address that its own node reports, to none of a less  *)
(* preferred type than another one it reports, to the first of its type,      *)
(* whatever the order of the node's addresses; and to the kubelet's own port  *)
(* exactly when the option says so and there is one (client.go:78-98,         *)
(* address_resolver.go:57-68).                                                *)
AsksPreferred ==
    \A r \in Callers : pc[r] = "request" =>
        LET addresses == asked[r].node.Addresses
        IN  /\ \E k \in DOMAIN AddressTypePriority, i \in DOMAIN addresses :
                /\ addresses[i] = [Type |-> AddressTypePriority[k], Address |-> asked[r].address]
                /\ \A j \in 1..(i - 1) : addresses[j].Type # AddressTypePriority[k]
                /\ \A l \in 1..(k - 1), j \in DOMAIN addresses :
                    addresses[j].Type # AddressTypePriority[l]
            /\ UseNodeStatusPort /\ asked[r].node.Port # 0 => asked[r].port = asked[r].node.Port
            /\ asked[r].port # DefaultPort =>
                UseNodeStatusPort /\ asked[r].port = asked[r].node.Port /\ asked[r].port # 0
=============================================================================
