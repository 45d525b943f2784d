------------------------- MODULE KubeletClientProofs ------------------------
(***************************************************************************)
(* For any number of concurrent calls, any arrays and any lengths of       *)
(* bodies: the calls share no array, each decodes its own body and asks    *)
(* the address preferred.  For any options and any width of integers: the  *)
(* start of the process configures the client and the times as they say.   *)
(***************************************************************************)
EXTENDS KubeletClient, Startup, SequenceTheorems, WellFoundedInduction, TLAPS

Piece(r, i) == [from |-> r, at |-> i]

HasBuffer(r) == pc[r] \in {"copy", "decode"}

(* The buffer of a call holds the beginning of its own body, as much of it   *)
(* as has been copied; what has been decoded is part of it.                  *)
CallInv(r) ==
    /\ \A i \in 1..Len(decoded[r]) : decoded[r][i] = Piece(r, i)
    /\ HasBuffer(r) =>
        /\ len[r] <= body[r]
        /\ \A i \in 1..len[r] : memory[buf[r]][i] = Piece(r, i)
    /\ pc[r] = "decode" => b[r] = buf[r] /\ len[r] = body[r]

Mine(r) == {b[r], buf[r]} \ {NoArray}

(* What TypeOK leaves open: a call decodes into a sequence, and has asked or  *)
(* not.                                                                       *)
Types ==
    /\ TypeOK
    /\ decoded \in [Callers -> Seq(Pieces)]
    /\ asked = [r \in Callers |-> asked[r]]

Inv == Types /\ ExclusiveArrays /\ \A r \in Callers : CallInv(r)

-----------------------------------------------------------------------------
(* A call that leaves the arrays of the others alone, and out of the pool,    *)
(* leaves the others as they are.                                             *)
LEMMA Frame ==
    ASSUME Inv, Types', NEW r \in Callers,
           \A q \in Callers \ {r} :
                /\ pc'[q] = pc[q] /\ b'[q] = b[q] /\ buf'[q] = buf[q]
                /\ len'[q] = len[q] /\ body'[q] = body[q] /\ decoded'[q] = decoded[q]
                /\ HasBuffer(q) => memory'[buf[q]] = memory[buf[q]]
                /\ Mine(q) \cap pool' = {}
                /\ Mine(r)' \cap Mine(q) = {},
           Mine(r)' \cap pool' = {},
           CallInv(r)'
    PROVE  Inv'
  <1>1. \A q \in Callers \ {r} : CallInv(q)'
    BY DEF Inv, CallInv, HasBuffer
  <1>2. \A q \in Callers \ {r} : Mine(q)' = Mine(q)
    BY DEF Mine
  <1>3. \A q, s \in Callers : q # s => Mine(q)' \cap Mine(s)' = {}
    <2>1. \A q, s \in Callers : q # s => Mine(q) \cap Mine(s) = {}
      BY DEF Inv, ExclusiveArrays, Mine
    <2> QED
      BY <1>2, <2>1
  <1>4. \A q \in Callers : Mine(q)' \cap pool' = {}
    BY <1>2
  <1>5. ExclusiveArrays'
    BY <1>3, <1>4 DEF ExclusiveArrays, Mine
  <1> QED
    BY <1>1, <1>5 DEF Inv

(* The calls have no arrays in common. *)
LEMMA Exclusive ==
    ASSUME Inv
    PROVE  /\ \A q, s \in Callers : q # s => Mine(q) \cap Mine(s) = {}
           /\ \A q \in Callers : Mine(q) \cap pool = {}
  BY DEF Inv, ExclusiveArrays, Mine

(* Before any call the pool is empty and nobody holds an array.               *)
LEMMA InitInv ==
    Init => Inv
  <1> SUFFICES ASSUME Init PROVE Inv
    OBVIOUS
  <1>1. decoded \in [Callers -> Seq(Pieces)] /\ \A r \in Callers : Len(decoded[r]) = 0
    BY DEF Init
  <1>2. memory \in [Arrays -> [1..MaxPieces -> Pieces]]
    BY ClientAssumption DEF Init, Zeroed, Pieces
  <1>3. Types
    BY <1>1, <1>2, ClientAssumption DEF Init, Types, TypeOK
  <1>4. ExclusiveArrays
    BY DEF Init, ExclusiveArrays
  <1>5. \A r \in Callers : CallInv(r)
    BY <1>1 DEF Init, CallInv, HasBuffer
  <1> QED
    BY <1>3, <1>4, <1>5 DEF Inv

-----------------------------------------------------------------------------
(* Before a call has a slice it disturbs nobody (client.go:78-109). *)
LEMMA GetMetricsInv ==
    ASSUME Inv, NEW r \in Callers, NEW node \in NodeStatuses, GetMetrics(r, node)
    PROVE  Inv'
  <1> DEFINE request == [node |-> node, address |-> node.Addresses[NodeAddress(node)].Address,
                         port |-> PortOf(node)]
  <1>1. request # NotAsked
    BY ClientAssumption DEF NotAsked
  <1>2. /\ \/ pc' = [pc EXCEPT ![r] = "return"] /\ asked' = asked
           \/ pc' = [pc EXCEPT ![r] = "request"] /\ asked' = [asked EXCEPT ![r] = request]
        /\ decoded' = [decoded EXCEPT ![r] = << >>]
        /\ pc[r] = "idle"
        /\ UNCHANGED <<b, buf, len, body, memory, pool>>
    BY DEF GetMetrics
  <1> HIDE DEF request
  <1>3. decoded' \in [Callers -> Seq(Pieces)] /\ Len(decoded'[r]) = 0
    BY <1>2 DEF Inv, Types
  <1>4. Types'
    <2>1. /\ pc' \in [Callers -> {"idle", "request", "copy", "decode", "return"}]
          /\ pc'[r] \in {"request", "return"}
          /\ \A q \in Callers \ {r} : pc'[q] = pc[q]
      BY <1>2 DEF Inv, Types, TypeOK
    <2>2. /\ asked' = [q \in Callers |-> asked'[q]]
          /\ \A q \in Callers : pc'[q] = "request" <=> asked'[q] # NotAsked
      BY <1>1, <1>2 DEF Inv, Types, TypeOK
    <2>3. \A q \in Callers : \A i \in 1..Len(decoded'[q]) : decoded'[q][i] \in Pieces
      BY <1>3
    <2> QED
      BY <1>2, <1>3, <2>1, <2>2, <2>3 DEF Inv, Types, TypeOK
  <1>5. CallInv(r)'
    BY <1>2, <1>3 DEF CallInv, HasBuffer, Inv, Types, TypeOK
  <1>6. Mine(r)' = Mine(r)
    BY <1>2 DEF Mine
  <1>7. \A q \in Callers \ {r} : pc'[q] = pc[q] /\ decoded'[q] = decoded[q]
    BY <1>2 DEF Inv, Types, TypeOK
  <1> QED
    BY <1>2, <1>4, <1>5, <1>6, <1>7, Frame, Exclusive

(* A request that fails returns before a slice is taken (client.go:97-109).   *)
LEMMA RequestFailsInv ==
    ASSUME Inv, NEW r \in Callers, RequestFails(r)
    PROVE  Inv'
  <1>1. /\ pc' = [pc EXCEPT ![r] = "return"] /\ asked' = [asked EXCEPT ![r] = NotAsked]
        /\ pc[r] = "request"
        /\ UNCHANGED <<b, buf, len, body, decoded, memory, pool>>
    BY DEF RequestFails
  <1>2. Types'
    <2>1. /\ pc' \in [Callers -> {"idle", "request", "copy", "decode", "return"}]
          /\ pc'[r] = "return"
          /\ \A q \in Callers \ {r} : pc'[q] = pc[q]
      BY <1>1 DEF Inv, Types, TypeOK
    <2>2. /\ asked' = [q \in Callers |-> asked'[q]]
          /\ \A q \in Callers : pc'[q] = "request" <=> asked'[q] # NotAsked
      BY <1>1 DEF Inv, Types, TypeOK
    <2> QED
      BY <1>1, <2>1, <2>2 DEF Inv, Types, TypeOK
  <1>3. CallInv(r)'
    BY <1>1 DEF CallInv, HasBuffer, Inv, Types, TypeOK
  <1>4. Mine(r)' = Mine(r)
    BY <1>1 DEF Mine
  <1>5. \A q \in Callers \ {r} : pc'[q] = pc[q]
    BY <1>1 DEF Inv, Types, TypeOK
  <1> QED
    BY <1>1, <1>2, <1>3, <1>4, <1>5, Frame, Exclusive

(* A slice comes from the pool, which shares none with a call, or is new     *)
(* (client.go:110-116).                                                      *)
LEMMA GetBufferInv ==
    ASSUME Inv, NEW r \in Callers, GetBuffer(r)
    PROVE  Inv'
  <1>1. PICK a \in Arrays, pieces \in 0..MaxPieces :
            /\ Get(a)
            /\ b' = [b EXCEPT ![r] = a] /\ buf' = [buf EXCEPT ![r] = a]
            /\ body' = [body EXCEPT ![r] = pieces] /\ len' = [len EXCEPT ![r] = 0]
    BY DEF GetBuffer
  <1>2. /\ pc' = [pc EXCEPT ![r] = "copy"] /\ asked' = [asked EXCEPT ![r] = NotAsked]
        /\ pc[r] = "request" /\ decoded' = decoded
    BY DEF GetBuffer
  <1>3. /\ \A q \in Callers \ {r} :
                /\ pc'[q] = pc[q] /\ asked'[q] = asked[q]
                /\ b'[q] = b[q] /\ buf'[q] = buf[q] /\ len'[q] = len[q] /\ body'[q] = body[q]
        /\ pc'[r] = "copy" /\ asked'[r] = NotAsked /\ b'[r] = a /\ buf'[r] = a
        /\ len'[r] = 0 /\ body'[r] = pieces
    BY <1>1, <1>2 DEF Inv, Types, TypeOK
  <1>4. a # NoArray
    BY ClientAssumption
  <1>5. /\ \A q \in Callers : a \notin Mine(q)
        /\ a \notin pool' /\ pool' \subseteq pool
        /\ memory' \in [Arrays -> [1..MaxPieces -> Pieces]]
        /\ \A c \in Arrays \ {a} : memory'[c] = memory[c]
    <2>1. CASE a \in pool /\ pool' = pool \ {a} /\ UNCHANGED memory
      BY <2>1, Exclusive DEF Inv, Types, TypeOK
    <2>2. CASE a \in Small \cap Unused /\ memory' = [memory EXCEPT ![a] = Zeroed]
               /\ UNCHANGED pool
      <3>1. Zeroed \in [1..MaxPieces -> Pieces]
        BY ClientAssumption DEF Zeroed, Pieces
      <3> QED
        BY <2>2, <3>1 DEF Unused, Held, Mine, Inv, Types, TypeOK
    <2> QED
      BY <1>1, <2>1, <2>2 DEF Get
  <1>6. Types'
    <2>1. /\ pc' \in [Callers -> {"idle", "request", "copy", "decode", "return"}]
          /\ b' \in [Callers -> Arrays \cup {NoArray}]
          /\ buf' \in [Callers -> Arrays \cup {NoArray}]
          /\ len' \in [Callers -> 0..MaxPieces]
          /\ body' \in [Callers -> 0..MaxPieces]
      BY <1>1, <1>2, ClientAssumption DEF Inv, Types, TypeOK
    <2>4. asked' = [q \in Callers |-> asked'[q]]
      BY <1>2 DEF Inv, Types
    <2>2. pool' \subseteq Arrays
      BY <1>5 DEF Inv, Types, TypeOK
    <2>3. \A q \in Callers :
            /\ pc'[q] = "request" <=> asked'[q] # NotAsked
            /\ pc'[q] \in {"copy", "decode"} <=> b'[q] # NoArray
            /\ pc'[q] \in {"copy", "decode"} <=> buf'[q] # NoArray
      BY <1>3, <1>4 DEF Inv, Types, TypeOK
    <2> QED
      BY <1>2, <1>5, <2>4, <2>1, <2>2, <2>3 DEF Inv, Types, TypeOK
  <1>7. CallInv(r)'
    BY <1>2, <1>3 DEF CallInv, Inv
  <1>8. Mine(r)' = {a}
    BY <1>3, <1>4 DEF Mine
  <1>9. ASSUME NEW q \in Callers \ {r}
        PROVE  HasBuffer(q) => memory'[buf[q]] = memory[buf[q]]
    <2>1. HasBuffer(q) => buf[q] \in Arrays \ {a}
      BY <1>5 DEF Mine, HasBuffer, Inv, Types, TypeOK
    <2> QED
      BY <1>5, <2>1
  <1>10. ASSUME NEW q \in Callers \ {r}
         PROVE  Mine(q) \cap pool' = {} /\ Mine(r)' \cap Mine(q) = {}
    BY <1>5, <1>8, Exclusive
  <1> QED
    BY <1>2, <1>3, <1>5, <1>6, <1>7, <1>8, <1>9, <1>10, Frame

(* A call writes only to its own array, after what it has written already    *)
(* (client.go:118).                                                          *)
LEMMA CopyInv ==
    ASSUME Inv, NEW r \in Callers, Copy(r)
    PROVE  Inv'
  <1> DEFINE c == buf[r]
             k == len[r] + 1
  <1>1. /\ pc[r] = "copy" /\ len[r] < body[r]
        /\ len' = [len EXCEPT ![r] = @ + 1]
        /\ memory' = [memory EXCEPT ![c][k] = Piece(r, k)]
        /\ UNCHANGED <<pc, asked, b, buf, body, decoded, pool>>
    BY DEF Copy, Piece
  <1>2. c \in Arrays /\ len[r] \in Nat /\ body[r] \in 0..MaxPieces /\ k \in 1..MaxPieces
    BY <1>1, ClientAssumption DEF Inv, Types, TypeOK
  <1>3. Piece(r, k) \in Pieces
    BY <1>2, ClientAssumption DEF Piece, Pieces
  <1>4. /\ len' \in [Callers -> 0..MaxPieces] /\ len'[r] = k
        /\ \A q \in Callers \ {r} : len'[q] = len[q]
    BY <1>1, <1>2 DEF Inv, Types, TypeOK
  <1> HIDE DEF c, k
  <1>5. /\ memory' \in [Arrays -> [1..MaxPieces -> Pieces]]
        /\ \A d \in Arrays \ {c} : memory'[d] = memory[d]
        /\ \A i \in (1..MaxPieces) \ {k} : memory'[c][i] = memory[c][i]
        /\ memory'[c][k] = Piece(r, k)
    BY <1>1, <1>2, <1>3 DEF Inv, Types, TypeOK
  <1>6. Types'
    BY <1>1, <1>4, <1>5 DEF Inv, Types, TypeOK
  <1>7. CallInv(r)'
    <2>1. \A i \in 1..len[r] : memory[c][i] = Piece(r, i)
      BY <1>1 DEF Inv, CallInv, HasBuffer, c
    <2>2. \A i \in 1..len'[r] : i \in 1..MaxPieces /\ (i = k \/ (i \in 1..len[r] /\ i # k))
      BY <1>2, <1>4, ClientAssumption DEF k
    <2>3. \A i \in 1..len'[r] : memory'[c][i] = Piece(r, i)
      BY <1>5, <2>1, <2>2
    <2>4. len'[r] <= body'[r]
      BY <1>1, <1>2, <1>4 DEF k
    <2> QED
      BY <1>1, <2>3, <2>4 DEF Inv, CallInv, HasBuffer, c
  <1>8. \A q \in Callers : Mine(q)' = Mine(q)
    BY <1>1 DEF Mine
  <1>9. ASSUME NEW q \in Callers \ {r}
        PROVE  HasBuffer(q) => memory'[buf[q]] = memory[buf[q]]
    <2>1. c \in Mine(r)
      BY <1>2, ClientAssumption DEF Mine, c
    <2>2. HasBuffer(q) => buf[q] \in Arrays /\ buf[q] \in Mine(q)
      BY DEF HasBuffer, Mine, Inv, Types, TypeOK
    <2> QED
      BY <1>5, <2>1, <2>2, Exclusive
  <1> QED
    BY <1>1, <1>4, <1>6, <1>7, <1>8, <1>9, Frame, Exclusive

(* The array a full buffer moves to is new, and begins with what the buffer  *)
(* held (client.go:118).                                                     *)
LEMMA GrowInv ==
    ASSUME Inv, NEW r \in Callers, Grow(r)
    PROVE  Inv'
  <1> DEFINE copied == [i \in 1..MaxPieces |->
                            IF i <= len[r] THEN memory[buf[r]][i] ELSE Zeroed[i]]
  <1>1. PICK a \in Large \cap Unused :
            memory' = [memory EXCEPT ![a] = copied] /\ buf' = [buf EXCEPT ![r] = a]
    BY DEF Grow
  <1>2. pc[r] = "copy" /\ UNCHANGED <<pc, asked, b, len, body, decoded, pool>>
    BY DEF Grow
  <1>3. /\ a \in Arrays /\ a # NoArray /\ a \notin pool
        /\ \A q \in Callers : a \notin Mine(q)
    BY ClientAssumption DEF Arrays, Unused, Held, Mine
  <1>4. /\ buf' \in [Callers -> Arrays \cup {NoArray}]
        /\ buf'[r] = a /\ \A q \in Callers \ {r} : buf'[q] = buf[q]
    BY <1>1, <1>3 DEF Inv, Types, TypeOK
  <1>5. copied \in [1..MaxPieces -> Pieces]
    <2>1. buf[r] \in Arrays
      BY <1>2 DEF Inv, Types, TypeOK
    <2>2. Zeroed \in [1..MaxPieces -> Pieces]
      BY ClientAssumption DEF Zeroed, Pieces
    <2>3. memory[buf[r]] \in [1..MaxPieces -> Pieces]
      BY <2>1 DEF Inv, Types, TypeOK
    <2> QED
      BY <2>2, <2>3
  <1>6. \A i \in 1..len[r] : copied[i] = Piece(r, i)
    <2>1. len[r] \in 0..MaxPieces
      BY DEF Inv, Types, TypeOK
    <2>2. \A i \in 1..len[r] : memory[buf[r]][i] = Piece(r, i)
      BY <1>2 DEF Inv, CallInv, HasBuffer
    <2> QED
      BY <2>1, <2>2, ClientAssumption
  <1> HIDE DEF copied
  <1>7. /\ memory' \in [Arrays -> [1..MaxPieces -> Pieces]]
        /\ memory'[a] = copied
        /\ \A c \in Arrays \ {a} : memory'[c] = memory[c]
    BY <1>1, <1>3, <1>5 DEF Inv, Types, TypeOK
  <1>8. Types'
    <2>1. \A q \in Callers : pc'[q] \in {"copy", "decode"} <=> buf'[q] # NoArray
      BY <1>2, <1>3, <1>4 DEF Inv, Types, TypeOK
    <2> QED
      BY <1>2, <1>4, <1>7, <2>1 DEF Inv, Types, TypeOK
  <1>9. CallInv(r)'
    BY <1>2, <1>4, <1>6, <1>7 DEF Inv, CallInv, HasBuffer
  <1>10. Mine(r)' \subseteq Mine(r) \cup {a} /\ \A q \in Callers \ {r} : Mine(q)' = Mine(q)
    BY <1>2, <1>4 DEF Mine
  <1>11. ASSUME NEW q \in Callers \ {r}
         PROVE  HasBuffer(q) => memory'[buf[q]] = memory[buf[q]]
    <2>1. HasBuffer(q) => buf[q] \in Arrays \ {a}
      BY <1>3 DEF HasBuffer, Mine, Inv, Types, TypeOK
    <2> QED
      BY <1>7, <2>1
  <1>12. Mine(r)' \cap pool' = {} /\ \A q \in Callers \ {r} : Mine(r)' \cap Mine(q) = {}
    BY <1>2, <1>3, <1>10, Exclusive
  <1> QED
    BY <1>2, <1>4, <1>8, <1>9, <1>11, <1>12, Frame, Exclusive

(* All of the body is in the buffer, whose array is decoded and put back     *)
(* (client.go:118-122).                                                      *)
LEMMA CopyEndsInv ==
    ASSUME Inv, NEW r \in Callers, CopyEnds(r)
    PROVE  Inv'
  <1>1. /\ pc[r] = "copy" /\ len[r] >= body[r]
        /\ b' = [b EXCEPT ![r] = buf[r]] /\ pc' = [pc EXCEPT ![r] = "decode"]
        /\ UNCHANGED <<asked, buf, len, body, decoded, memory, pool>>
    BY DEF CopyEnds
  <1>2. /\ \A q \in Callers \ {r} : pc'[q] = pc[q] /\ b'[q] = b[q]
        /\ pc'[r] = "decode" /\ b'[r] = buf[r] /\ buf[r] # NoArray
        /\ pc' \in [Callers -> {"idle", "request", "copy", "decode", "return"}]
        /\ b' \in [Callers -> Arrays \cup {NoArray}]
    BY <1>1 DEF Inv, Types, TypeOK
  <1>3. Types'
    BY <1>1, <1>2 DEF Inv, Types, TypeOK
  <1>4. CallInv(r)'
    BY <1>1, <1>2 DEF Inv, CallInv, HasBuffer, Types, TypeOK
  <1>5. Mine(r)' \subseteq Mine(r)
    BY <1>1, <1>2 DEF Mine
  <1> QED
    BY <1>1, <1>2, <1>3, <1>4, <1>5, Frame, Exclusive

(* A call that puts its slice back keeps no reference to it (client.go:      *)
(* 112-115).                                                                 *)
LEMMA PutInv ==
    ASSUME Inv, NEW r \in Callers, HasBuffer(r), Put(r),
           NEW d \in Seq(Pieces), \A i \in 1..Len(d) : d[i] = Piece(r, i),
           decoded' = [decoded EXCEPT ![r] = d],
           UNCHANGED <<asked, len, body, memory>>
    PROVE  Inv'
  <1>1. /\ pool' = pool \cup {b[r]}
        /\ b' = [b EXCEPT ![r] = NoArray] /\ buf' = [buf EXCEPT ![r] = NoArray]
        /\ pc' = [pc EXCEPT ![r] = "return"]
    BY DEF Put
  <1>2. /\ \A q \in Callers \ {r} :
                pc'[q] = pc[q] /\ b'[q] = b[q] /\ buf'[q] = buf[q] /\ decoded'[q] = decoded[q]
        /\ pc'[r] = "return" /\ b'[r] = NoArray /\ buf'[r] = NoArray /\ decoded'[r] = d
        /\ decoded' \in [Callers -> Seq(Pieces)]
    BY <1>1 DEF Inv, Types, TypeOK
  <1>3. b[r] \in Arrays /\ b[r] \in Mine(r)
    BY DEF HasBuffer, Mine, Inv, Types, TypeOK
  <1>4. Types'
    <2>1. /\ pc' \in [Callers -> {"idle", "request", "copy", "decode", "return"}]
          /\ b' \in [Callers -> Arrays \cup {NoArray}]
          /\ buf' \in [Callers -> Arrays \cup {NoArray}]
          /\ pool' \subseteq Arrays
      BY <1>1, <1>3 DEF Inv, Types, TypeOK
    <2>2. \A q \in Callers : \A i \in 1..Len(decoded'[q]) : decoded'[q][i] \in Pieces
      BY <1>2
    <2>3. \A q \in Callers :
            /\ pc'[q] = "request" <=> asked'[q] # NotAsked
            /\ pc'[q] \in {"copy", "decode"} <=> b'[q] # NoArray
            /\ pc'[q] \in {"copy", "decode"} <=> buf'[q] # NoArray
      BY <1>2, ZenonT(30) DEF HasBuffer, Inv, Types, TypeOK
    <2> QED
      BY <1>2, <2>1, <2>2, <2>3 DEF Inv, Types, TypeOK
  <1>5. CallInv(r)'
    BY <1>2 DEF CallInv, HasBuffer
  <1>6. Mine(r)' = {}
    BY <1>2 DEF Mine
  <1>7. \A q \in Callers \ {r} : Mine(q) \cap pool' = {}
    BY <1>1, <1>3, Exclusive
  <1> QED
    BY <1>2, <1>4, <1>5, <1>6, <1>7, Frame

(* A read or decode that fails returns no points; the slice goes to the pool. *)
LEMMA FailsInv ==
    ASSUME Inv, NEW r \in Callers, Fails(r)
    PROVE  Inv'
  <1>1. << >> \in Seq(Pieces) /\ \A i \in 1..Len(<< >>) : << >>[i] = Piece(r, i)
    OBVIOUS
  <1>2. HasBuffer(r) /\ Put(r) /\ decoded' = [decoded EXCEPT ![r] = << >>]
        /\ UNCHANGED <<asked, len, body, memory>>
    BY DEF Fails, HasBuffer
  <1> QED
    BY <1>1, <1>2, PutInv

(* A call returns what it decoded, which is of its own body.                  *)
LEMMA ReturnInv ==
    ASSUME Inv, NEW r \in Callers, Return(r)
    PROVE  Inv'
  <1>1. decoded[r] \in Seq(Pieces) /\ \A i \in 1..Len(decoded[r]) : decoded[r][i] = Piece(r, i)
    BY DEF Inv, Types, CallInv
  <1>2. HasBuffer(r) /\ Put(r) /\ decoded' = decoded /\ UNCHANGED <<asked, len, body, memory>>
    BY DEF Return, HasBuffer
  <1>3. decoded' = [decoded EXCEPT ![r] = decoded[r]]
    BY <1>2 DEF Inv, Types
  <1> QED
    BY <1>1, <1>2, <1>3, PutInv

(* The next piece of the buffer is the next of the call's own body (client.go *)
(* :123).                                                                     *)
LEMMA DecodeInv ==
    ASSUME Inv, NEW r \in Callers, Decode(r)
    PROVE  Inv'
  <1> DEFINE d == decoded[r]
             k == Len(d) + 1
             piece == memory[b[r]][k]
  <1>1. /\ pc[r] = "decode" /\ Len(d) < len[r]
        /\ decoded' = [decoded EXCEPT ![r] = Append(d, piece)]
        /\ UNCHANGED <<pc, asked, b, buf, len, body, memory, pool>>
    BY DEF Decode
  <1>2. d \in Seq(Pieces) /\ len[r] \in 0..MaxPieces /\ b[r] = buf[r] /\ b[r] \in Arrays
    BY <1>1 DEF Inv, Types, TypeOK, CallInv
  <1>3. k \in 1..len[r] /\ k \in 1..MaxPieces
    BY <1>1, <1>2, LenProperties, ClientAssumption
  <1>4. piece = Piece(r, k) /\ piece \in Pieces
    <2>1. piece = Piece(r, k)
      BY <1>1, <1>2, <1>3 DEF Inv, CallInv, HasBuffer
    <2>2. piece \in Pieces
      BY <1>2, <1>3 DEF Inv, Types, TypeOK
    <2> QED
      BY <2>1, <2>2
  <1> HIDE DEF piece
  <1>5. /\ Append(d, piece) \in Seq(Pieces)
        /\ Len(Append(d, piece)) = k
        /\ \A i \in 1..Len(d) : Append(d, piece)[i] = d[i]
        /\ Append(d, piece)[k] = piece
    BY <1>2, <1>4, AppendProperties
  <1>6. /\ decoded' \in [Callers -> Seq(Pieces)]
        /\ decoded'[r] = Append(d, piece)
        /\ \A q \in Callers \ {r} : decoded'[q] = decoded[q]
    BY <1>1, <1>5 DEF Inv, Types
  <1>7. Types'
    <2>1. \A q \in Callers : \A i \in 1..Len(decoded'[q]) : decoded'[q][i] \in Pieces
      BY <1>6
    <2> QED
      BY <1>1, <1>6, <2>1 DEF Inv, Types, TypeOK
  <1>8. CallInv(r)'
    <2>1. \A i \in 1..k : i = k \/ i \in 1..Len(d)
      BY <1>2, LenProperties
    <2>2. \A i \in 1..Len(d) : d[i] = Piece(r, i)
      BY DEF Inv, CallInv
    <2>3. \A i \in 1..Len(decoded'[r]) : decoded'[r][i] = Piece(r, i)
      BY <1>4, <1>5, <1>6, <2>1, <2>2
    <2> QED
      BY <1>1, <2>3 DEF Inv, CallInv, HasBuffer
  <1>9. Mine(r)' = Mine(r)
    BY <1>1 DEF Mine
  <1> QED
    BY <1>1, <1>6, <1>7, <1>8, <1>9, Frame, Exclusive

(* The result is handed over and the caller may call again.                   *)
LEMMA EndedInv ==
    ASSUME Inv, NEW r \in Callers, Ended(r)
    PROVE  Inv'
  <1>1. /\ pc[r] = "return" /\ pc' = [pc EXCEPT ![r] = "idle"]
        /\ decoded' = [decoded EXCEPT ![r] = << >>]
        /\ len' = [len EXCEPT ![r] = 0] /\ body' = [body EXCEPT ![r] = 0]
        /\ UNCHANGED <<asked, b, buf, memory, pool>>
    BY DEF Ended
  <1>2. /\ \A q \in Callers \ {r} : pc'[q] = pc[q] /\ decoded'[q] = decoded[q]
                                   /\ len'[q] = len[q] /\ body'[q] = body[q]
        /\ pc'[r] = "idle" /\ Len(decoded'[r]) = 0
        /\ decoded' \in [Callers -> Seq(Pieces)]
    BY <1>1 DEF Inv, Types, TypeOK
  <1>3. Types'
    <2>1. /\ pc' \in [Callers -> {"idle", "request", "copy", "decode", "return"}]
          /\ len' \in [Callers -> 0..MaxPieces]
          /\ body' \in [Callers -> 0..MaxPieces]
      BY <1>1, ClientAssumption DEF Inv, Types, TypeOK
    <2>2. \A q \in Callers : \A i \in 1..Len(decoded'[q]) : decoded'[q][i] \in Pieces
      BY <1>2
    <2> QED
      BY <1>1, <1>2, <2>1, <2>2 DEF Inv, Types, TypeOK
  <1>4. CallInv(r)'
    BY <1>2 DEF CallInv, HasBuffer
  <1>5. Mine(r)' = Mine(r)
    BY <1>1 DEF Mine
  <1> QED
    BY <1>1, <1>2, <1>3, <1>4, <1>5, Frame, Exclusive

-----------------------------------------------------------------------------
(* The invariant holds however the calls and the garbage collector           *)
(* interleave.                                                               *)
LEMMA NextInv ==
    Inv /\ [Next]_vars => Inv'
  <1> SUFFICES ASSUME Inv, [Next]_vars PROVE Inv'
    OBVIOUS
  <1>1. ASSUME NEW r \in Callers, NEW node \in NodeStatuses, GetMetrics(r, node) PROVE Inv'
    BY <1>1, GetMetricsInv
  <1>2. ASSUME NEW r \in Callers,
               \/ RequestFails(r) \/ GetBuffer(r)
               \/ Copy(r) \/ Grow(r) \/ CopyEnds(r)
               \/ Fails(r) \/ Decode(r) \/ Return(r) \/ Ended(r)
        PROVE  Inv'
    BY <1>2, RequestFailsInv, GetBufferInv, CopyInv, GrowInv, CopyEndsInv, FailsInv,
       DecodeInv, ReturnInv, EndedInv
  <1>3. ASSUME \/ UNCHANGED vars \/ Collect PROVE Inv'
    <2>1. /\ UNCHANGED <<pc, asked, b, buf, len, body, decoded, memory>>
          /\ pool' \subseteq pool
      BY <1>3 DEF Collect, vars
    <2>2. Types'
      BY <2>1 DEF Inv, Types, TypeOK
    <2>3. ExclusiveArrays'
      BY <2>1 DEF Inv, ExclusiveArrays
    <2>4. \A r \in Callers : CallInv(r)'
      BY <2>1 DEF Inv, CallInv, HasBuffer
    <2> QED
      BY <2>2, <2>3, <2>4 DEF Inv
  <1> QED
    BY <1>1, <1>2, <1>3 DEF Next

(* The conjunction of the invariants holds of every reachable state.          *)
LEMMA Invariance ==
    Spec => []Inv
  BY InitInv, NextInv, PTL DEF Spec

(* A call has a slice and a buffer exactly from kc.buffers.Get to its return, *)
(* and an address exactly while it asks (client.go:91-127).                   *)
THEOREM ClientTypeCorrect ==
    Spec => []TypeOK
  <1>1. Inv => TypeOK
    BY DEF Inv, Types
  <1> QED
    BY <1>1, Invariance, PTL

(* No array is in two calls, nor in a call and the pool: a slice that is put  *)
(* back while another call grows or copies is never written to or read by     *)
(* both (client.go:110-122).                                                  *)
THEOREM ArraysAreExclusive ==
    Spec => []ExclusiveArrays
  <1>1. Inv => ExclusiveArrays
    BY DEF Inv
  <1> QED
    BY <1>1, Invariance, PTL

(* decodeBatch meets the body of its own answer, from the first piece on and  *)
(* in order, and nothing an older body left in the array (client.go:116-123). *)
THEOREM DecodesOwnBodies ==
    Spec => []DecodesOwnBody
  <1>1. Inv => DecodesOwnBody
    BY DEF Inv, CallInv, DecodesOwnBody, Piece
  <1> QED
    BY <1>1, Invariance, PTL

-----------------------------------------------------------------------------
(* Every set of numbers has a least one. *)
LEMMA LeastNumber ==
    ASSUME NEW T \in SUBSET Nat, T # {}
    PROVE  \E n \in T : \A m \in T : n <= m
  <1>1. \E R : /\ \A x, y \in Nat : <<y, x>> \in R <=> y < x
               /\ \E x \in T : \A y \in T : ~ (<<y, x>> \in R)
    <2>1. \E x \in T : \A y \in T : ~ (<<y, x>> \in OpToRel(<, Nat))
      BY NatLessThanWellFounded, WFMin
    <2>2. \A x, y \in Nat : <<y, x>> \in OpToRel(<, Nat) <=> y < x
      BY DEF OpToRel
    <2> QED
      BY <2>1, <2>2, Zenon
  <1>2. PICK R : /\ \A x, y \in Nat : <<y, x>> \in R <=> y < x
                 /\ \E x \in T : \A y \in T : ~ (<<y, x>> \in R)
    BY <1>1
  <1>3. PICK n \in T : \A y \in T : ~ (<<y, n>> \in R)
    BY <1>2
  <1>4. \A m \in T : ~ (m < n)
    BY <1>2, <1>3
  <1>5. \A m \in T : n <= m
    BY <1>4
  <1> QED
    BY <1>5

(* The first of some positions in a sequence. *)
LEMMA FirstPosition ==
    ASSUME NEW n \in Nat, NEW I \in SUBSET (1..n), I # {}
    PROVE  Min(I) \in I /\ \A i \in 1..(Min(I) - 1) : i \notin I
  <1>1. I \in SUBSET Nat
    OBVIOUS
  <1>2. \E x \in I : \A y \in I : x <= y
    BY <1>1, LeastNumber
  <1> DEFINE first == Min(I)
  <1>3. first \in I /\ \A y \in I : first <= y
    BY <1>2 DEF Min
  <1> HIDE DEF first
  <1>4. first \in Nat /\ \A i \in 1..(first - 1) : ~(first <= i)
    BY <1>3
  <1>5. \A i \in 1..(first - 1) : i \notin I
    BY <1>3, <1>4
  <1> QED
    BY <1>3, <1>5 DEF first

(* The elements of a sequence. *)
LEMMA ElementOf ==
    ASSUME NEW S, NEW s \in Seq(S), NEW i \in DOMAIN s
    PROVE  s[i] \in S
  OBVIOUS

(* What NodeAddress returns is of the first type any address has, and the     *)
(* first address of that type (address_resolver.go:57-68).                    *)
LEMMA PreferredAddress ==
    ASSUME NEW node \in NodeStatuses, NodeAddress(node) # 0
    PROVE  /\ NodeAddress(node) \in DOMAIN node.Addresses
           /\ \E k \in DOMAIN AddressTypePriority :
                /\ node.Addresses[NodeAddress(node)].Type = AddressTypePriority[k]
                /\ \A j \in 1..(NodeAddress(node) - 1) :
                        node.Addresses[j].Type # AddressTypePriority[k]
                /\ \A l \in 1..(k - 1), j \in DOMAIN node.Addresses :
                        node.Addresses[j].Type # AddressTypePriority[l]
  <1> DEFINE n == Len(node.Addresses)
             m == Len(AddressTypePriority)
             At(type) == {i \in 1..n : node.Addresses[i].Type = type}
             OfType(type) == IF At(type) # {} THEN Min(At(type)) ELSE 0
             Types_ == {k \in 1..m : OfType(AddressTypePriority[k]) # 0}
             preferred == IF Types_ # {} THEN Min(Types_) ELSE 0
  <1>1. /\ n \in Nat /\ DOMAIN node.Addresses = 1..n
        /\ m \in Nat /\ DOMAIN AddressTypePriority = 1..m
    BY ClientAssumption
  <1>2. NodeAddress(node) = IF preferred = 0 THEN 0 ELSE OfType(AddressTypePriority[preferred])
    BY DEF NodeAddress, SelectInSeq
  <1> HIDE DEF n, m
  <1>3. ASSUME NEW type, At(type) # {}
        PROVE  Min(At(type)) \in At(type) /\ \A i \in 1..(Min(At(type)) - 1) : i \notin At(type)
    BY <1>1, <1>3, FirstPosition
  <1>4. ASSUME NEW type PROVE OfType(type) # 0 <=> At(type) # {}
    <2>1. CASE At(type) = {}
      BY <2>1
    <2>2. CASE At(type) # {}
      <3>1. Min(At(type)) \in 1..n
        BY <1>3, <2>2
      <3> QED
        BY <1>1, <2>2, <3>1
    <2> QED
      BY <2>1, <2>2
  <1>5. Types_ # {} /\ preferred = Min(Types_)
    BY <1>2
  <1>6. preferred \in Types_ /\ \A l \in 1..(preferred - 1) : l \notin Types_
    BY <1>1, <1>5, FirstPosition
  <1> HIDE DEF preferred
  <1> DEFINE type == AddressTypePriority[preferred]
             i == NodeAddress(node)
  <1>7. At(type) # {} /\ preferred \in 1..m
    BY <1>4, <1>6
  <1>8. i = Min(At(type))
    BY <1>1, <1>2, <1>7
  <1>9. i \in 1..n /\ node.Addresses[i].Type = type
        /\ \A j \in 1..(i - 1) : node.Addresses[j].Type # type
    <2> HIDE DEF i, type
    <2>1. i \in At(type) /\ \A j \in 1..(i - 1) : j \notin At(type)
      <3> HIDE DEF At
      <3> QED
        BY <1>3, <1>7, <1>8
    <2>2. i \in 1..n /\ node.Addresses[i].Type = type
      BY <2>1
    <2>3. \A j \in 1..(i - 1) : j \in 1..n
      BY <1>1, <2>2
    <2> QED
      BY <2>1, <2>2, <2>3
  <1>10. ASSUME NEW l \in 1..(preferred - 1) PROVE At(AddressTypePriority[l]) = {}
    <2>1. l \in 1..m /\ l \notin Types_
      BY <1>1, <1>6, <1>7
    <2>2. OfType(AddressTypePriority[l]) = 0
      BY <2>1
    <2> HIDE DEF OfType, At
    <2> QED
      BY <1>4, <2>2
  <1> HIDE DEF i
  <1> QED
    BY <1>1, <1>7, <1>9, <1>10 DEF i

(* What a request is sent with: the body of AsksPreferred for one call.       *)
Preferred(a) ==
    LET addresses == a.node.Addresses
    IN  /\ \E k \in DOMAIN AddressTypePriority, i \in DOMAIN addresses :
            /\ addresses[i] = [Type |-> AddressTypePriority[k], Address |-> a.address]
            /\ \A j \in 1..(i - 1) : addresses[j].Type # AddressTypePriority[k]
            /\ \A l \in 1..(k - 1), j \in DOMAIN addresses :
                addresses[j].Type # AddressTypePriority[l]
        /\ UseNodeStatusPort /\ a.node.Port # 0 => a.port = a.node.Port
        /\ a.port # DefaultPort => UseNodeStatusPort /\ a.port = a.node.Port /\ a.port # 0

(* GetMetrics asks so (client.go:78-98). *)
LEMMA GetMetricsAsks ==
    ASSUME NEW node \in NodeStatuses, NodeAddress(node) # 0
    PROVE  Preferred([node |-> node, address |-> node.Addresses[NodeAddress(node)].Address,
                      port |-> PortOf(node)])
  <1> DEFINE i == NodeAddress(node)
  <1>1. PICK k \in DOMAIN AddressTypePriority :
            /\ node.Addresses[i].Type = AddressTypePriority[k]
            /\ \A j \in 1..(i - 1) : node.Addresses[j].Type # AddressTypePriority[k]
            /\ \A l \in 1..(k - 1), j \in DOMAIN node.Addresses :
                    node.Addresses[j].Type # AddressTypePriority[l]
    BY PreferredAddress
  <1>2. i \in DOMAIN node.Addresses
    BY PreferredAddress
  <1>3. node.Addresses \in Seq([Type : STRING, Address : Nat])
    BY ClientAssumption
  <1> HIDE DEF i
  <1>4. node.Addresses[i] = [Type |-> AddressTypePriority[k], Address |-> node.Addresses[i].Address]
    <2>1. node.Addresses[i] \in [Type : STRING, Address : Nat]
      BY <1>2, <1>3, ElementOf
    <2> QED
      BY <1>1, <2>1
  <1>5. /\ UseNodeStatusPort /\ node.Port # 0 => PortOf(node) = node.Port
        /\ PortOf(node) # DefaultPort =>
                UseNodeStatusPort /\ PortOf(node) = node.Port /\ PortOf(node) # 0
    BY DEF PortOf
  <1> QED
    BY <1>1, <1>2, <1>4, <1>5 DEF Preferred, i

(* No other step asks, or changes what was asked. *)
LEMMA NextAsks ==
    ASSUME Inv, AsksPreferred, Next
    PROVE  AsksPreferred'
  <1>1. AsksPreferred <=> \A r \in Callers : pc[r] = "request" => Preferred(asked[r])
    BY DEF AsksPreferred, Preferred
  <1>2. AsksPreferred' <=> \A r \in Callers : pc'[r] = "request" => Preferred(asked'[r])
    BY DEF AsksPreferred, Preferred
  <1>3. ASSUME NEW r \in Callers, NEW node \in NodeStatuses, GetMetrics(r, node),
               NEW q \in Callers, pc'[q] = "request"
        PROVE  Preferred(asked'[q])
    <2>1. CASE q # r
      <3>1. pc[q] = "request" /\ asked'[q] = asked[q]
        BY <1>3, <2>1 DEF GetMetrics, Inv, Types, TypeOK
      <3> QED
        BY <1>1, <3>1
    <2>2. CASE q = r
      <3>1. NodeAddress(node) # 0
        BY <1>3, <2>2 DEF GetMetrics, Inv, Types, TypeOK
      <3>2. asked'[q] = [node |-> node, address |-> node.Addresses[NodeAddress(node)].Address,
                         port |-> PortOf(node)]
        BY <1>3, <2>2, <3>1 DEF GetMetrics, Inv, Types, TypeOK
      <3> QED
        BY <3>1, <3>2, GetMetricsAsks
    <2> QED
      BY <2>1, <2>2
  <1>4. ASSUME ~ \E r \in Callers, node \in NodeStatuses : GetMetrics(r, node),
               NEW q \in Callers, pc'[q] = "request"
        PROVE  pc[q] = "request" /\ asked'[q] = asked[q]
    BY <1>4 DEF Next, RequestFails, GetBuffer, Copy, Grow, CopyEnds, Put, Fails, Decode, Return,
                Ended, Collect, Inv, Types, TypeOK
  <1>5. CASE \E r \in Callers, node \in NodeStatuses : GetMetrics(r, node)
    BY <1>2, <1>3, <1>5
  <1>6. CASE ~ \E r \in Callers, node \in NodeStatuses : GetMetrics(r, node)
    BY <1>1, <1>2, <1>4, <1>6
  <1> QED
    BY <1>5, <1>6

(* Whatever addresses its node reports, and in whatever order, a request goes *)
(* to the first of the most preferred type there is, at the right port        *)
(* (client.go:78-98, address_resolver.go:57-68).                              *)
THEOREM AsksPreferredAddresses ==
    Spec => []AsksPreferred
  <1>1. Init => AsksPreferred
    BY DEF Init, AsksPreferred
  <1>2. Inv /\ AsksPreferred /\ [Next]_vars => AsksPreferred'
    <2> SUFFICES ASSUME Inv, AsksPreferred, [Next]_vars PROVE AsksPreferred'
      OBVIOUS
    <2>1. CASE UNCHANGED vars
      BY <2>1 DEF vars, AsksPreferred
    <2> QED
      BY <2>1, NextAsks
  <1> QED
    BY <1>1, <1>2, Invariance, PTL DEF Spec

-----------------------------------------------------------------------------
(* The start of the process, which validates the options and makes the       *)
(* configuration of the client                                               *)

(* A remainder is not larger than what is divided. *)
LEMMA Remainder ==
    ASSUME NEW x \in Nat, NEW d \in Nat \ {0}
    PROVE  x % d \in 0..(d - 1) /\ x % d <= x
  OBVIOUS

(* An int64 product that wraps is smaller than the product. *)
LEMMA WrapBelow ==
    ASSUME MaxInt64 \in Nat, NEW x \in Nat
    PROVE  Wrap(x) \in Int /\ Wrap(x) <= x
  <1> DEFINE y == x + MaxInt64 + 1
             d == 2 * (MaxInt64 + 1)
  <1>1. y \in Nat /\ d \in Nat \ {0}
    OBVIOUS
  <1>2. Wrap(x) = (y % d) - (MaxInt64 + 1)
    BY Zenon DEF Wrap
  <1>3. y = x + MaxInt64 + 1
    OBVIOUS
  <1> HIDE DEF y, d
  <1>4. y % d \in Int /\ y % d <= y
    BY <1>1, Remainder
  <1> QED BY <1>1, <1>2, <1>3, <1>4

(* Division by 10 truncates towards zero, so that a quotient that reaches a   *)
(* positive number comes from ten times as much.                              *)
LEMMA QuotientAbove ==
    ASSUME NEW x \in Int, NEW t \in Int, t > 0, ~(Quotient(x, 10) < t)
    PROVE 10 * t <= x
  BY DEF Quotient

(* A function on 1..n is a sequence. *)
LEMMA AsSequence ==
    ASSUME NEW S, NEW n \in Nat, NEW f \in [1..n -> S]
    PROVE  f \in Seq(S)
  OBVIOUS

(* The elements of a concatenation. *)
LEMMA Joined ==
    ASSUME NEW S, NEW T, NEW a \in Seq(S), NEW d \in Seq(T)
    PROVE  /\ DOMAIN (a \o d) = 1..(Len(a) + Len(d))
           /\ \A i \in 1..Len(a) : (a \o d)[i] = a[i]
           /\ \A i \in 1..Len(d) : (a \o d)[Len(a) + i] = d[i]
  OBVIOUS

(* What options mean that no rule fails for (options.go:66-75,                *)
(* kubelet_client.go:42-70).                                                  *)
Accepted(k) ==
    /\ ~(k.kubelet.caFile /\ k.kubelet.insecureTLS)
    /\ k.kubelet.keyFile = k.kubelet.certFile
    /\ k.kubelet.completelyInsecure =>
            /\ ~k.kubelet.keyFile /\ ~k.kubelet.certFile
            /\ ~k.kubelet.insecureTLS /\ ~k.kubelet.caFile
    /\ ~(k.kubelet.timeout <= 0)
    /\ ~(k.resolution < MinResolution)
    /\ ~(Quotient(Wrap(k.resolution * 9), 10) < k.kubelet.timeout)

(* runCommand goes on only with such options (start.go:75-78). *)
LEMMA Rules ==
    ASSUME NEW k, Failing(Validate(k)) = {}
    PROVE  Accepted(k)
  <1> DEFINE a == KubeletValidate(k.kubelet)
             d == OptionsValidate(k)
  <1>1. /\ Len(a) = 7 /\ DOMAIN a = 1..7
        /\ a[1][1] = (k.kubelet.caFile /\ k.kubelet.insecureTLS)
        /\ a[2][1] = (k.kubelet.keyFile # k.kubelet.certFile)
        /\ a[3][1] = (k.kubelet.keyFile /\ k.kubelet.completelyInsecure)
        /\ a[4][1] = (k.kubelet.certFile /\ k.kubelet.completelyInsecure)
        /\ a[5][1] = (k.kubelet.insecureTLS /\ k.kubelet.completelyInsecure)
        /\ a[6][1] = (k.kubelet.caFile /\ k.kubelet.completelyInsecure)
        /\ a[7][1] = (k.kubelet.timeout <= 0)
    BY DEF KubeletValidate
  <1>2. /\ Len(d) = 2
        /\ d[1][1] = (k.resolution < MinResolution)
        /\ d[2][1] = (Quotient(Wrap(k.resolution * 9), 10) < k.kubelet.timeout)
    BY DEF OptionsValidate
  <1>3. a \in Seq({a[i] : i \in 1..7})
    <2>1. a \in [1..7 -> {a[i] : i \in 1..7}]
      BY DEF KubeletValidate
    <2> HIDE DEF a
    <2> QED
      BY <2>1, AsSequence
  <1>4. d \in Seq({d[i] : i \in 1..2})
    <2>1. d \in [1..2 -> {d[i] : i \in 1..2}]
      BY DEF OptionsValidate
    <2> HIDE DEF d
    <2> QED
      BY <2>1, AsSequence
  <1> HIDE DEF a, d
  <1>5. /\ DOMAIN (a \o d) = 1..9
        /\ \A i \in 1..7 : (a \o d)[i] = a[i]
        /\ \A i \in 1..2 : (a \o d)[7 + i] = d[i]
    <2>1. /\ DOMAIN (a \o d) = 1..(Len(a) + Len(d))
          /\ \A i \in 1..Len(a) : (a \o d)[i] = a[i]
          /\ \A i \in 1..Len(d) : (a \o d)[Len(a) + i] = d[i]
      BY <1>3, <1>4, Joined
    <2> DEFINE ad == a \o d
    <2> HIDE DEF ad
    <2>2. Len(a) = 7 /\ Len(d) = 2 /\ Len(a) + Len(d) = 9
      BY <1>1, <1>2
    <2>3. /\ DOMAIN ad = 1..9
          /\ \A i \in 1..7 : ad[i] = a[i]
          /\ \A i \in 1..2 : ad[7 + i] = d[i]
      BY <2>1, <2>2, Zenon DEF ad
    <2> QED
      BY <2>3, Zenon DEF ad
  <1>6. \A i \in 1..9 : ~((a \o d)[i][1])
    BY <1>5 DEF Failing, Validate, a, d
  <1>7. /\ ~a[1][1] /\ ~a[2][1] /\ ~a[3][1] /\ ~a[4][1] /\ ~a[5][1] /\ ~a[6][1] /\ ~a[7][1]
        /\ ~d[1][1] /\ ~d[2][1]
    <2>1. ASSUME NEW i \in 1..7 PROVE ~(a[i][1])
      <3>1. i \in 1..9
        OBVIOUS
      <3>2. (a \o d)[i] = a[i]
        BY <1>5, Zenon
      <3> QED
        BY <1>6, <3>1, <3>2, Zenon
    <2>2. ASSUME NEW i \in 1..2 PROVE ~(d[i][1])
      <3>1. 7 + i \in 1..9
        OBVIOUS
      <3>2. (a \o d)[7 + i] = d[i]
        BY <1>5, Zenon
      <3> QED
        BY <1>6, <3>1, <3>2, Zenon
    <2> QED
      BY <2>1, <2>2
  <1> QED
    BY <1>1, <1>2, <1>7 DEF Accepted

(* The same for sequences of numbers, with the length. *)
LEMMA JoinedNumbers ==
    ASSUME NEW a \in Seq(Int), NEW d \in Seq(Int)
    PROVE  /\ a \o d \in Seq(Int) /\ Len(a \o d) = Len(a) + Len(d)
           /\ \A i \in 1..Len(a) : (a \o d)[i] = a[i]
           /\ \A i \in 1..Len(d) : (a \o d)[Len(a) + i] = d[i]
  OBVIOUS

(* The elements after an insertion. *)
LEMMA Inserted ==
    ASSUME NEW s \in Seq(Int), NEW k \in 1..Len(s), NEW e \in Int
    PROVE  /\ InsertAt(s, k, e) \in Seq(Int)
           /\ Len(InsertAt(s, k, e)) = Len(s) + 1
           /\ \A i \in 1..(Len(s) + 1) :
                InsertAt(s, k, e)[i] =
                    IF i < k THEN s[i] ELSE IF i = k THEN e ELSE s[i - 1]
  <1> DEFINE front == SubSeq(s, 1, k - 1)
             back == SubSeq(s, k, Len(s))
             n == Len(s)
  <1>1. n \in Nat /\ k \in Nat /\ k <= n /\ k >= 1
    OBVIOUS
  <1>2. /\ front \in Seq(Int) /\ Len(front) = k - 1
        /\ \A i \in 1..(k - 1) : front[i] = s[i]
    BY <1>1
  <1>3. /\ back \in Seq(Int) /\ Len(back) = n - k + 1
        /\ \A i \in 1..(n - k + 1) : back[i] = s[k + i - 1]
    BY <1>1
  <1>4. InsertAt(s, k, e) = front \o <<e>> \o back
    BY DEF InsertAt
  <1> HIDE DEF front, back, n
  <1>5. /\ front \o <<e>> \in Seq(Int) /\ Len(front \o <<e>>) = k
        /\ \A i \in 1..(k - 1) : (front \o <<e>>)[i] = s[i]
        /\ (front \o <<e>>)[k] = e
    <2>1. <<e>> \in Seq(Int) /\ Len(<<e>>) = 1 /\ <<e>>[1] = e
      OBVIOUS
    <2> HIDE DEF front
    <2> DEFINE g == <<e>>
    <2> HIDE DEF g
    <2>2. /\ front \o g \in Seq(Int) /\ Len(front \o g) = Len(front) + Len(g)
          /\ \A i \in 1..Len(front) : (front \o g)[i] = front[i]
          /\ \A i \in 1..Len(g) : (front \o g)[Len(front) + i] = g[i]
      BY <1>2, <2>1, JoinedNumbers DEF g
    <2>3. Len(front) + Len(g) = k /\ 1 \in 1..Len(g) /\ Len(front) + 1 = k
      BY <1>1, <1>2, <2>1 DEF g
    <2>4. front \o g \in Seq(Int) /\ Len(front \o g) = k
      BY <2>2, <2>3
    <2>5. (front \o g)[k] = e
      BY <2>1, <2>2, <2>3 DEF g
    <2> QED
      BY <1>2, <2>2, <2>4, <2>5 DEF g
  <1> DEFINE f == front \o <<e>>
             r == f \o back
  <1> HIDE DEF f
  <1>6. f \in Seq(Int) /\ Len(f) = k /\ f[k] = e /\ \A i \in 1..(k - 1) : f[i] = s[i]
    BY <1>5, Zenon DEF f
  <1>7. /\ r \in Seq(Int) /\ Len(r) = n + 1
        /\ \A i \in 1..k : r[i] = f[i]
        /\ \A i \in 1..(n - k + 1) : r[k + i] = back[i]
    <2>1. /\ f \o back \in Seq(Int) /\ Len(f \o back) = Len(f) + Len(back)
          /\ \A i \in 1..Len(f) : (f \o back)[i] = f[i]
          /\ \A i \in 1..Len(back) : (f \o back)[Len(f) + i] = back[i]
      BY <1>3, <1>6, JoinedNumbers
    <2>2. Len(f) + Len(back) = n + 1
      <3> HIDE DEF r
      <3> QED
        BY <1>1, <1>3, <1>6
    <2> QED
      BY <1>3, <1>6, <2>1, <2>2
  <1> HIDE DEF r
  <1>8. ASSUME NEW i \in 1..(n + 1)
        PROVE  r[i] = IF i < k THEN s[i] ELSE IF i = k THEN e ELSE s[i - 1]
    <2>1. CASE i <= k
      <3>1. r[i] = f[i]
        BY <1>1, <1>7, <2>1
      <3>2. CASE i = k
        BY <1>1, <1>6, <3>1, <3>2
      <3>3. CASE i < k
        <4>1. i \in 1..(k - 1)
          BY <1>1, <3>3
        <4> QED
          BY <1>6, <3>1, <3>3, <4>1
      <3> QED
        BY <1>1, <2>1, <3>2, <3>3
    <2>2. CASE i > k
      <3>1. i - k \in 1..(n - k + 1) /\ k + (i - k) = i /\ k + (i - k) - 1 = i - 1
        BY <1>1, <2>2
      <3> QED
        <4>1. r[k + (i - k)] = s[k + (i - k) - 1]
          BY <1>3, <1>7, <3>1
        <4> QED
          BY <1>1, <2>2, <3>1, <4>1
    <2> QED
      BY <1>1, <2>1, <2>2
  <1> QED
    BY <1>4, <1>7, <1>8 DEF f, r, n

(* The buckets around an expected duration (monitoring.go:25-58): beyond the  *)
(* default ones four are added, between two of them one, unless one is near.  *)
LEMMA Buckets ==
    ASSUME NEW t \in 1..MaxInt64,
           Last(DefBuckets) < t => HasHalves(t)
    PROVE  BucketsAround(BucketsForScrapeDuration(t), t)
  <1> DEFINE D == DefBuckets
             n == Len(D)
             max == D[n]
             Above == {i \in 1..n : D[i] > t}
             above == IF Above # {} THEN Min(Above) ELSE 0
             near == \/ D[above] - t < D[1]
                     \/ above > 1 /\ t - D[above - 1] < D[1]
             B == BucketsForScrapeDuration(t)
  <1>1. /\ D \in Seq(Int) /\ n \in Nat /\ n >= 1 /\ t \in Nat /\ t > 0
        /\ \A i \in 1..n : D[i] \in Nat
        /\ D[1] \in Nat /\ D[1] > 0 /\ max \in Nat
        /\ \A i \in 2..n : D[i - 1] < D[i]
    BY OptionsAssumption, StartupAssumption
  <1>2. B = CASE t > max -> D \o <<max + (t - max) \div 2, t, t + t \div 2, 2 * t>>
              [] t = max -> D
              [] t < max -> IF near THEN D ELSE InsertAt(D, above, t)
    BY DEF BucketsForScrapeDuration, Last, SelectInSeq, Min, Min
  <1> HIDE DEF D, n, max, B, near
  <1> SUFFICES /\ \A i \in 2..Len(B) : B[i - 1] < B[i]
               /\ \E i \in 1..Len(B) : B[i] \in (t - D[1])..(t + D[1])
    BY DEF BucketsAround, D, B
  <1>3. CASE t > max
    <2>1. t - max >= 2 /\ t >= 2
      BY <1>1, <1>3, OptionsAssumption, StartupAssumption DEF HasHalves, Last, D, n, max
    <2> DEFINE a == max + (t - max) \div 2
               c == t + t \div 2
               d == 2 * t
               E == <<a, t, c, d>>
    <2>2. /\ a \in Int /\ c \in Int /\ d \in Int /\ max < a /\ a < t /\ t < c /\ c < d
      BY <1>1, <2>1
    <2> HIDE DEF a, c, d
    <2>3. B = D \o E
      <3>1. ~(t = max) /\ ~(t < max)
        BY <1>1, <1>3
      <3> QED
        BY <1>2, <1>3, <3>1, Zenon DEF a, c, d
    <2>4. /\ E \in Seq(Int) /\ Len(E) = 4
          /\ E[1] = a /\ E[2] = t /\ E[3] = c /\ E[4] = d
      BY <1>1, <2>2
    <2> HIDE DEF E
    <2>5. /\ Len(B) = n + 4
          /\ \A i \in 1..n : B[i] = D[i]
          /\ \A i \in 1..4 : B[n + i] = E[i]
      <3>1. /\ Len(D \o E) = Len(D) + Len(E)
            /\ \A i \in 1..Len(D) : (D \o E)[i] = D[i]
            /\ \A i \in 1..Len(E) : (D \o E)[Len(D) + i] = E[i]
        BY <1>1, <2>4, JoinedNumbers
      <3> QED
        BY <2>3, <2>4, <3>1 DEF n
    <2>6. /\ B[n] = max /\ B[n + 1] = a /\ B[n + 2] = t /\ B[n + 3] = c /\ B[n + 4] = d
      BY <1>1, <2>4, <2>5 DEF max
    <2>7. ASSUME NEW i \in 2..(n + 4) PROVE B[i - 1] < B[i]
      <3>1. CASE i <= n
        BY <1>1, <2>5, <3>1
      <3>2. CASE i = n + 1
        BY <1>1, <2>2, <2>6, <3>2
      <3>3. CASE i = n + 2
        BY <1>1, <2>2, <2>6, <3>3
      <3>4. CASE i = n + 3
        BY <1>1, <2>2, <2>6, <3>4
      <3>5. CASE i = n + 4
        BY <1>1, <2>2, <2>6, <3>5
      <3> QED
        BY <1>1, <3>1, <3>2, <3>3, <3>4, <3>5
    <2>8. n + 2 \in 1..(n + 4) /\ t \in (t - D[1])..(t + D[1])
      BY <1>1
    <2> QED
      BY <2>5, <2>6, <2>7, <2>8
  <1>4. CASE t = max
    <2>1. B = D
      BY <1>1, <1>2, <1>4
    <2>2. n \in 1..n /\ D[n] = t /\ t \in (t - D[1])..(t + D[1])
      BY <1>1, <1>4 DEF max
    <2> QED
      BY <1>1, <2>1, <2>2 DEF n
  <1>5. CASE t < max
    <2>1. n \in Above
      BY <1>1, <1>5 DEF max
    <2>2. above \in Above /\ \A i \in 1..(above - 1) : i \notin Above
      <3>1. Above \in SUBSET (1..n) /\ Above # {}
        BY <2>1
      <3> HIDE DEF Above
      <3> QED
        BY <1>1, <3>1, FirstPosition
    <2>3. /\ above \in 1..n /\ D[above] > t
          /\ above > 1 => above - 1 \in 1..n /\ D[above - 1] <= t
      <3> HIDE DEF above
      <3>1. above \in 1..n /\ D[above] > t
        BY <2>2
      <3>2. ASSUME above > 1 PROVE above - 1 \in 1..n /\ D[above - 1] <= t
        <4>1. above - 1 \in 1..n /\ above - 1 \in 1..(above - 1)
          BY <1>1, <3>1, <3>2
        <4> QED
          BY <1>1, <2>2, <4>1
      <3> QED
        BY <3>1, <3>2
    <2> HIDE DEF above
    <2>4. CASE near
      <3>1. B = D
        BY <1>1, <1>2, <1>5, <2>4
      <3>2. \E i \in 1..n : D[i] \in (t - D[1])..(t + D[1])
        <4>1. CASE D[above] - t < D[1]
          <5>1. D[above] \in (t - D[1])..(t + D[1])
            BY <1>1, <2>3, <4>1
          <5> QED
            BY <2>3, <5>1
        <4>2. CASE above > 1 /\ t - D[above - 1] < D[1]
          <5>1. D[above - 1] \in (t - D[1])..(t + D[1])
            BY <1>1, <2>3, <4>2
          <5> QED
            BY <2>3, <4>2, <5>1
        <4> QED
          BY <2>4, <4>1, <4>2 DEF near
      <3> QED
        BY <1>1, <3>1, <3>2 DEF n
    <2>5. CASE ~near
      <3>1. B = InsertAt(D, above, t)
        BY <1>1, <1>2, <1>5, <2>5
      <3>2. /\ Len(B) = n + 1
            /\ \A i \in 1..(n + 1) :
                B[i] = IF i < above THEN D[i] ELSE IF i = above THEN t ELSE D[i - 1]
        <4>1. above \in 1..Len(D) /\ D \in Seq(Int) /\ t \in Int
          BY <1>1, <2>3 DEF n
        <4>2. /\ Len(InsertAt(D, above, t)) = Len(D) + 1
              /\ \A i \in 1..(Len(D) + 1) :
                    InsertAt(D, above, t)[i] =
                        IF i < above THEN D[i] ELSE IF i = above THEN t ELSE D[i - 1]
          BY <4>1, Inserted
        <4> QED
          BY <3>1, <4>2 DEF n
      <3>3. above > 1 => D[above - 1] < t
        BY <1>1, <2>3, <2>5 DEF near
      <3>4. ASSUME NEW i \in 2..(n + 1) PROVE B[i - 1] < B[i]
        <4>1. CASE i < above
          <5>1. i \in 2..n /\ i - 1 \in 1..(n + 1) /\ i - 1 < above /\ i \in 1..(n + 1)
            BY <1>1, <2>3, <4>1
          <5>2. B[i - 1] = D[i - 1] /\ B[i] = D[i]
            BY <3>2, <4>1, <5>1
          <5> QED
            BY <1>1, <5>1, <5>2
        <4>2. CASE i = above
          BY <1>1, <2>3, <3>2, <3>3, <4>2
        <4>3. CASE i = above + 1
          BY <1>1, <2>3, <3>2, <4>3
        <4>4. CASE i > above + 1
          <5>1. B[i - 1] = D[i - 2] /\ B[i] = D[i - 1] /\ i - 1 \in 2..n /\ (i - 1) - 1 = i - 2
            BY <1>1, <2>3, <3>2, <4>4
          <5> QED
            BY <1>1, <5>1
        <4> QED
          BY <2>3, <4>1, <4>2, <4>3, <4>4
      <3>5. B[above] = t /\ above \in 1..(n + 1) /\ t \in (t - D[1])..(t + D[1])
        BY <1>1, <2>3, <3>2
      <3> QED
        BY <3>2, <3>4, <3>5
    <2> QED
      BY <2>4, <2>5
  <1> QED
    BY <1>1, <1>3, <1>4, <1>5

(* The check of the timeout is sound although its product may wrap: a wrapped *)
(* product is only smaller, and refuses more (options.go:71).                 *)
LEMMA Times ==
    ASSUME NEW k \in Options(Resolutions, Timeouts, NodeSelectors),
           Accepted(k)
    PROVE  /\ k.resolution \in 1..MaxInt64 /\ k.resolution >= MinResolution
           /\ k.kubelet.timeout > 0 /\ 10 * k.kubelet.timeout <= 9 * k.resolution
  <1> DEFINE resolution == k.resolution
             timeout == k.kubelet.timeout
  <1>1. resolution \in Resolutions /\ timeout \in Timeouts
    BY DEF Options, KubeletClientOptions
  <1>2. resolution \in Int /\ timeout \in Int /\ resolution <= MaxInt64
    <2> HIDE DEF resolution, timeout
    <2>1. MaxInt64 \in Nat
      BY OptionsAssumption
    <2>2. Resolutions \subseteq -MaxInt64 .. MaxInt64 /\ Timeouts \subseteq -MaxInt64 .. MaxInt64
      BY StartupAssumption, Zenon
    <2>3. resolution \in -MaxInt64 .. MaxInt64 /\ timeout \in -MaxInt64 .. MaxInt64
      BY <1>1, <2>2, Zenon
    <2> QED
      BY <2>1, <2>3
  <1>3. /\ ~(timeout <= 0) /\ ~(resolution < MinResolution)
        /\ ~(Quotient(Wrap(resolution * 9), 10) < timeout)
    BY DEF Accepted
  <1> SUFFICES /\ resolution \in 1..MaxInt64 /\ resolution >= MinResolution
               /\ timeout > 0 /\ 10 * timeout <= 9 * resolution
    OBVIOUS
  <1> HIDE DEF resolution, timeout
  <1>4. timeout > 0 /\ resolution >= MinResolution /\ resolution \in 1..MaxInt64
    BY <1>2, <1>3, OptionsAssumption, StartupAssumption
  <1> DEFINE w == Wrap(resolution * 9)
  <1>5. w \in Int /\ w <= resolution * 9
    <2>1. resolution * 9 \in Nat
      BY <1>4
    <2> QED
      BY <2>1, WrapBelow, OptionsAssumption, StartupAssumption
  <1>6. 10 * timeout <= w
    <2> HIDE DEF w
    <2> QED
      BY <1>2, <1>3, <1>4, <1>5, QuotientAbove DEF w
  <1> HIDE DEF w
  <1> QED
    BY <1>2, <1>4, <1>5, <1>6

(* The configuration of the kubelet client made of validated options          *)
(* (kubelet_client.go:101-132).                                               *)
LEMMA Connection ==
    ASSUME NEW k \in Options(Resolutions, Timeouts, NodeSelectors), Accepted(k),
           NEW r \in RestConfigs(k),
           o = k, rest = r, kubelet = KubeletConfig(k.kubelet, r)
    PROVE  ConnectionAsConfigured
  <1> DEFINE c == k.kubelet
  <1>1. c \in KubeletClientOptions(Timeouts, NodeSelectors)
    BY DEF Options
  <1>2. /\ {c.caFile, c.certFile, c.keyFile, c.insecureTLS, c.completelyInsecure} \subseteq BOOLEAN
        /\ ~(c.caFile /\ c.insecureTLS) /\ c.keyFile = c.certFile
        /\ c.completelyInsecure => ~c.certFile /\ ~c.insecureTLS /\ ~c.caFile
    BY <1>1 DEF KubeletClientOptions, Accepted
  <1> DEFINE client == Anonymous(c, r)
             tls == Unverified(c, client.tls)
             x == KubeletConfig(c, r)
  <1> DEFINE Made(v, y, z) ==
                /\ client.tls = [insecure |-> v, ca |-> y, cert |-> z, key |-> z]
                /\ v => y = Nothing
  <1>3. PICK v \in BOOLEAN : \E y, z : Made(v, y, z)
    <2>1. \E v \in BOOLEAN : \E y, z :
            /\ r.tls = [insecure |-> v, ca |-> y, cert |-> z, key |-> z]
            /\ v => y = Nothing
      <3>1. r \in KubeconfigConfigs
        BY DEF RestConfigs, InClusterConfigs
      <3>2. /\ r.tls \in [insecure : BOOLEAN, ca : Forms, cert : Forms, key : Forms]
            /\ r.tls.key = r.tls.cert /\ (r.tls.insecure => r.tls.ca = Nothing)
        BY <3>1 DEF KubeconfigConfigs
      <3>3. /\ r.tls.insecure \in BOOLEAN
            /\ r.tls = [insecure |-> r.tls.insecure, ca |-> r.tls.ca,
                        cert |-> r.tls.cert, key |-> r.tls.cert]
        BY <3>2
      <3> QED
        BY <3>2, <3>3, Zenon
    <2>2. client.tls \in {NoTLS, r.tls}
      BY DEF Anonymous
    <2> HIDE DEF client
    <2>3. CASE client.tls = NoTLS
      <3>1. Made(FALSE, Nothing, Nothing)
        BY <2>3 DEF NoTLS
      <3> QED
        BY <3>1
    <2>4. CASE client.tls = r.tls
      BY <2>1, <2>4
    <2> QED
      BY <2>2, <2>3, <2>4
  <1>4. PICK y, z : Made(v, y, z)
    BY <1>3
  <1>5. /\ c.completelyInsecure => client.tls = NoTLS /\ ~client.token
        /\ ~c.completelyInsecure => client = r
    BY DEF Anonymous
  <1> HIDE DEF client
  <1>6. tls = [insecure |-> v \/ c.insecureTLS,
               ca |-> IF c.insecureTLS THEN Nothing ELSE y, cert |-> z, key |-> z]
    <2>1. CASE c.insecureTLS
      <3>1. tls = [client.tls EXCEPT !.insecure = TRUE, !.ca = Nothing]
        BY <2>1 DEF Unverified
      <3>2. tls = [insecure |-> TRUE, ca |-> Nothing, cert |-> z, key |-> z]
        <4> DEFINE q == client.tls
                   t == TRUE
        <4>1. q = [insecure |-> v, ca |-> y, cert |-> z, key |-> z]
          BY <1>4
        <4> HIDE DEF q, t
        <4> DEFINE p == [q EXCEPT !.insecure = t, !.ca = Nothing]
        <4>2. /\ p.insecure = t /\ p.ca = Nothing /\ p.cert = z /\ p.key = z
              /\ p \in [insecure : {t}, ca : {Nothing}, cert : {z}, key : {z}]
          BY <4>1
        <4>3. p = tls
          BY <3>1, Zenon DEF q, t
        <4> HIDE DEF p
        <4>4. p = [insecure |-> t, ca |-> Nothing, cert |-> z, key |-> z]
          BY <4>2
        <4> QED
          BY <4>3, <4>4, Zenon DEF t
      <3>3. (v \/ c.insecureTLS) = TRUE
        BY <2>1
      <3> QED
        BY <2>1, <3>2, <3>3
    <2>2. CASE ~c.insecureTLS
      BY <1>4, <2>2 DEF Unverified
    <2> QED
      BY <2>1, <2>2
  <1>7. x = [scheme |-> Scheme(c), token |-> client.token,
             tls |-> [tls EXCEPT !.ca = Override(c.caFile, @),
                                 !.cert = Override(c.certFile, @),
                                 !.key = Override(c.keyFile, @)]]
    BY DEF KubeletConfig, client
  <1> HIDE DEF tls, x
  <1>8. /\ x.scheme = Scheme(c) /\ x.token = client.token
        /\ x.tls = [insecure |-> v \/ c.insecureTLS,
                    ca |-> IF c.caFile THEN File("flag")
                           ELSE IF c.insecureTLS THEN Nothing ELSE y,
                    cert |-> IF c.certFile THEN File("flag") ELSE z,
                    key |-> IF c.certFile THEN File("flag") ELSE z]
    BY <1>2, <1>6, <1>7 DEF Override
  <1>9. /\ x.tls.cert = x.tls.key
        /\ c.certFile => x.tls.cert = File("flag")
        /\ c.caFile => x.tls.ca = File("flag")
        /\ ~c.caFile /\ (c.insecureTLS \/ v) => x.tls.ca = Nothing
        /\ x.tls.insecure <=> v \/ c.insecureTLS
    BY <1>2, <1>4, <1>8
  <1>10. Effective(File("flag")) = "flag" /\ Effective(Nothing) = None
    BY DEF Effective, File, Nothing, None
  <1>11. x.scheme = "http" => ~x.token /\ x.tls = NoTLS
    <2> SUFFICES ASSUME x.scheme = "http" PROVE ~x.token /\ x.tls = NoTLS
      OBVIOUS
    <2>1. c.completelyInsecure
      BY <1>8 DEF Scheme
    <2>2. /\ ~c.certFile /\ ~c.insecureTLS /\ ~c.caFile /\ ~client.token
          /\ client.tls = NoTLS
      BY <1>2, <1>5, <2>1
    <2>3. v = FALSE /\ y = Nothing /\ z = Nothing
      BY <1>4, <2>2 DEF NoTLS
    <2> QED
      BY <1>8, <2>2, <2>3 DEF NoTLS
  <1>12. x.scheme = "https" => x.tls.insecure = (c.insecureTLS \/ r.tls.insecure)
    <2> SUFFICES ASSUME x.scheme = "https"
                 PROVE  x.tls.insecure = (c.insecureTLS \/ r.tls.insecure)
      OBVIOUS
    <2>1. ~c.completelyInsecure
      BY <1>8 DEF Scheme
    <2>2. r.tls.insecure = v
      BY <1>4, <1>5, <2>1
    <2> QED
      BY <1>8, <2>2
  <1>13. TransportRefuses(x) => c.caFile /\ r.tls.insecure
    <2> SUFFICES ASSUME x.tls.insecure, Effective(x.tls.ca) # None
                 PROVE  c.caFile /\ r.tls.insecure
      BY DEF TransportRefuses
    <2>1. c.caFile
      BY <1>9, <1>10
    <2>2. ~c.insecureTLS /\ ~c.completelyInsecure /\ v
      BY <1>2, <1>9, <2>1
    <2>3. client = r /\ client.tls.insecure = v
      BY <1>4, <1>5, <2>2
    <2> QED
      BY <2>1, <2>2, <2>3
  <1>14. kubelet = x /\ o.kubelet = c /\ rest = r
    BY DEF x, client
  <1> HIDE DEF c
  <1> QED
    BY <1>9, <1>10, <1>11, <1>12, <1>13, <1>14 DEF ConnectionAsConfigured

(* The inductive invariant of the start: whoever got past runCommand has      *)
(* validated options, and each part was made from them.                       *)
StartInv ==
    /\ o \in Options(Resolutions, Timeouts, NodeSelectors)
    /\ phase \notin {"runCommand", "exited"} => Failing(Validate(o)) = {}
    /\ kubelet # NoKubelet =>
            /\ Failing(Validate(o)) = {}
            /\ rest \in RestConfigs(o) /\ kubelet = KubeletConfig(o.kubelet, rest)
    /\ DOMAIN parts = DOMAIN NoParts
    /\ phase \in {"metricsHandler", "New", "Install", "RegisterProbes", "PrepareRun", "running"} =>
            parts.scrapeTimeout = o.kubelet.timeout
    /\ phase \in {"RegisterProbes", "PrepareRun", "running"} =>
            parts.storeResolution = o.resolution
    /\ parts.buckets # <<>> =>
            /\ Failing(Validate(o)) = {}
            /\ parts.buckets = BucketsForScrapeDuration(o.resolution)

(* Nothing is constructed before runCommand. *)
LEMMA StartInitInv ==
    ASSUME StartInit PROVE StartInv
  BY DEF StartInit, StartInv, NoParts

(* Each step of the start, with its failures. *)
LEMMA StartNextInv ==
    ASSUME StartInv, [StartNext]_startVars
    PROVE  StartInv'
  <1> USE DEF Goes, Exits
  <1>1. CASE RunCommand
    BY <1>1 DEF RunCommand, StartInv
  <1>2. CASE ApiserverConfig
    BY <1>2 DEF ApiserverConfig, StartInv
  <1>3. CASE ServerConfig
    BY <1>3 DEF ServerConfig, StartInv
  <1>4. CASE Informers
    BY <1>4 DEF Informers, StartInv
  <1>5. CASE NewForConfig
    BY <1>5 DEF NewForConfig, StartInv
  <1>6. CASE NewScraper
    BY <1>6 DEF NewScraper, StartInv, NoParts
  <1>7. CASE MetricsHandler
    BY <1>7 DEF MetricsHandler, StartInv, NoParts
  <1>8. CASE New
    BY <1>8 DEF New, StartInv
  <1>9. CASE Install
    BY <1>9 DEF Install, StartInv, NoParts
  <1>10. CASE RegisterProbes
    BY <1>10 DEF RegisterProbes, StartInv, NoParts
  <1>11. CASE PrepareRun
    BY <1>11 DEF PrepareRun, StartInv
  <1>12. CASE UNCHANGED startVars
    BY <1>12 DEF startVars, StartInv
  <1> QED
    BY <1>1, <1>2, <1>3, <1>4, <1>5, <1>6, <1>7, <1>8, <1>9, <1>10, <1>11, <1>12 DEF StartNext

(* The invariant holds at every step of the start. *)
LEMMA StartInvariance ==
    StartSpec => []StartInv
  <1>1. StartInit => StartInv
    BY StartInitInv
  <1>2. StartInv /\ [StartNext]_startVars => StartInv'
    BY StartNextInv
  <1> QED
    BY <1>1, <1>2, PTL DEF StartSpec

(* What the invariant says of the properties. *)
LEMMA StartFacts ==
    ASSUME StartInv
    PROVE  TimesAreSound /\ ConnectionAsConfigured /\ BucketsPinpointResolution
  <1>1. o \in Options(Resolutions, Timeouts, NodeSelectors)
    BY DEF StartInv
  <1>2. ASSUME Failing(Validate(o)) = {}
        PROVE  /\ Accepted(o)
               /\ o.resolution \in 1..MaxInt64 /\ o.resolution >= MinResolution
               /\ o.kubelet.timeout > 0 /\ 10 * o.kubelet.timeout <= 9 * o.resolution
    BY <1>1, <1>2, Rules, Times
  <1>3. TimesAreSound
    BY <1>2 DEF StartInv, TimesAreSound
  <1>4. ConnectionAsConfigured
    <2>1. CASE kubelet = NoKubelet
      BY <2>1 DEF ConnectionAsConfigured
    <2>2. CASE kubelet # NoKubelet
      <3>1. Accepted(o) /\ rest \in RestConfigs(o)
            /\ kubelet = KubeletConfig(o.kubelet, rest)
        BY <1>2, <2>2 DEF StartInv
      <3> QED
        BY <1>1, <3>1, Connection
    <2> QED
      BY <2>1, <2>2
  <1>5. ASSUME parts.buckets # <<>>
        PROVE  BucketsAround(parts.buckets, o.resolution)
    <2>1. /\ parts.buckets = BucketsForScrapeDuration(o.resolution)
          /\ o.resolution \in 1..MaxInt64
      BY <1>2, <1>5 DEF StartInv
    <2>2. o.resolution \in Resolutions
      BY <1>1 DEF Options
    <2> QED
      BY <2>1, <2>2, Buckets, OptionsAssumption, StartupAssumption
  <1>6. ASSUME NEW t \in BucketTimes
        PROVE  BucketsAround(BucketsForScrapeDuration(t), t)
    BY Buckets, OptionsAssumption, StartupAssumption
  <1>7. BucketsPinpointResolution
    BY <1>5, <1>6 DEF BucketsPinpointResolution
  <1> QED
    BY <1>3, <1>4, <1>7

(* They hold at every step. *)
LEMMA StartFactsAlways ==
    StartSpec =>
        []TimesAreSound /\ []ConnectionAsConfigured /\ []BucketsPinpointResolution
  <1>1. StartInv =>
            TimesAreSound /\ ConnectionAsConfigured /\ BucketsPinpointResolution
    BY StartFacts
  <1> QED
    BY <1>1, StartInvariance, PTL

(* A process that serves has a scrape timeout of at most nine tenths of its   *)
(* resolution, whatever the width of the integers: the validation             *)
(* (options.go:66-75) is sound although it multiplies in int64.               *)
THEOREM StartsWithSoundTimes ==
    StartSpec => []TimesAreSound
  BY StartFactsAlways, PTL

(* The kubelets are addressed with the identity and the trust that the        *)
(* options and the kubeconfig say (kubelet_client.go:101-132).                *)
THEOREM ConnectsAsConfigured ==
    StartSpec => []ConnectionAsConfigured
  BY StartFactsAlways, PTL

(* The buckets of the tick histogram are strictly increasing, with one at the *)
(* resolution or next to it, for every increasing list of default buckets and *)
(* every duration (monitoring.go:25-58).                                      *)
THEOREM BucketsPinpoint ==
    StartSpec => []BucketsPinpointResolution
  BY StartFactsAlways, PTL
=============================================================================
