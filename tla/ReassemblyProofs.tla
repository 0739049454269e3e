---------------------------- MODULE ReassemblyProofs ----------------------------
(***************************************************************************)
(* Proofs about the two places that cut a bundle and put it together again: *)
(* Meshtastic, for any messages, clients, IDs, chunk counts, byte width and *)
(* bounds, and Fragmentation, for any payload, header lengths and limits.   *)
(*                                                                          *)
(* The argument of AllArrivedIsDelivered: the buffer of a message with an   *)
(* ID of its own holds at index i chunk i of that message and nothing else, *)
(* and it holds every chunk that has arrived since the last delivery or     *)
(* discard.  The number of its chunks is then at most that of the message,  *)
(* which a byte can count, so that the counts agree exactly when the buffer *)
(* is whole.  A complete buffer is removed in the step that completes it.   *)
(*                                                                          *)
(* The argument of Fragmentation: the slices of one cut follow one another  *)
(* without gap or overlap, which FragInv says of a cut under way and of a   *)
(* cut that is done.  Sorted by their offsets they are the payload again;   *)
(* what the loop of mergeFragmentPayload computes is proved by induction    *)
(* over its steps.                                                          *)
(***************************************************************************)
EXTENDS Meshtastic, Fragmentation, SequenceTheorems, FiniteSetTheorems, TLAPS

-----------------------------------------------------------------------------
(* Counting *)

\* Of the subsets of 0 .. n - 1 only the whole interval has n elements.
LEMMA CountsToWhole ==
    ASSUME NEW n \in Nat, NEW S \in SUBSET (0 .. n - 1)
    PROVE  /\ Cardinality(S) \in 0 .. n
           /\ Cardinality(S) = n <=> S = 0 .. n - 1
<1>1. IsFiniteSet(0 .. n - 1) /\ Cardinality(0 .. n - 1) = n
  <2>1. 0 \in Int /\ n - 1 \in Int
    OBVIOUS
  <2>2. IsFiniteSet(0 .. n - 1)
        /\ Cardinality(0 .. n - 1) = IF 0 > n - 1 THEN 0 ELSE (n - 1) - 0 + 1
    BY <2>1, FS_Interval
  <2>. QED  BY <2>2
<1>2. /\ IsFiniteSet(S)
      /\ Cardinality(S) <= Cardinality(0 .. n - 1)
      /\ Cardinality(S) = Cardinality(0 .. n - 1) => S = 0 .. n - 1
  BY <1>1, FS_Subset, Zenon
<1>3. Cardinality(S) \in Nat
  BY <1>2, FS_CardinalityType
<1>. QED  BY <1>1, <1>2, <1>3

-----------------------------------------------------------------------------
(* The inductive invariant *)

\* A buffer holds chunks of its bundle at their index; its total is that of the
\* message, if only one has the ID.
GoodBuffer(id, rb) ==
    /\ rb \in Buffers
    /\ \A i \in DOMAIN rb.chunks : /\ BundleID[rb.chunks[i][1]] = id
                                   /\ rb.chunks[i][2] % Width = i
    /\ \A m \in Messages : Unambiguous(m) /\ BundleID[m] = id
                               => rb.totalChunks = Chunks[m] % Width

GoodBuffers == \A id \in DOMAIN reassembly : GoodBuffer(id, reassembly[id])

\* A complete buffer does not stay in the map.
StillOpen == \A id \in DOMAIN reassembly : ~Complete(reassembly[id])

\* What has arrived of a message that is still to be delivered is in its buffer.
Accounted ==
    \A m \in Messages :
        (/\ Unambiguous(m) /\ Fits(m)
         /\ m \notin delivered \cup expired
         /\ BundleID[m] \notin discarded)
        => \A i \in Positions(m) : <<m, i>> \in arrived =>
               /\ BundleID[m] \in DOMAIN reassembly
               /\ i \in DOMAIN reassembly[BundleID[m]].chunks

MeshInv == MeshTypeOK /\ GoodBuffers /\ StillOpen /\ Accounted /\ NeverMixed

-----------------------------------------------------------------------------
(* Packets and buffers *)

LEMMA PieceType ==
    ASSUME NEW x \in Pieces
    PROVE  /\ x = <<x[1], x[2]>>
           /\ x[1] \in Messages /\ x[2] \in Positions(x[1])
           /\ x[2] \in Nat /\ Chunks[x[1]] \in Nat
BY MeshAssumption DEF Pieces, Positions

LEMMA PiecesAre ==
    ASSUME NEW m \in Messages, NEW i \in Positions(m)
    PROVE  <<m, i>> \in Pieces
BY DEF Pieces

LEMMA PacketType ==
    ASSUME NEW p \in Packets
    PROVE  /\ p.payload \in Pieces
           /\ p.bundleID = BundleID[p.payload[1]]
           /\ p.bundleID \in IDs
           /\ p.chunkIdx = p.payload[2] % Width
           /\ p.chunkIdx \in 0 .. Width - 1
           /\ p.totalChunks = Chunks[p.payload[1]] % Width
           /\ p.totalChunks \in 0 .. Width - 1
<1>1. PICK x \in Pieces : p = Packet(x[1], x[2])
  BY DEF Packets
<1>2. p.payload = x
  BY <1>1, PieceType DEF Packet
<1>3. /\ p.bundleID = BundleID[x[1]] /\ p.chunkIdx = x[2] % Width
      /\ p.totalChunks = Chunks[x[1]] % Width
  BY <1>1 DEF Packet
<1>4. x[2] % Width \in 0 .. Width - 1 /\ Chunks[x[1]] % Width \in 0 .. Width - 1
  BY PieceType, MeshAssumption
<1>. QED  BY <1>2, <1>3, <1>4, PieceType DEF IDs

LEMMA BufferType ==
    ASSUME NEW rb \in Buffers
    PROVE  /\ rb.chunks \in [DOMAIN rb.chunks -> Pieces]
           /\ DOMAIN rb.chunks \subseteq 0 .. Width - 1
           /\ rb.totalChunks \in 0 .. Width - 1
           /\ rb.stale \in BOOLEAN
<1>1. rb.chunks \in Maps /\ rb.totalChunks \in 0 .. Width - 1 /\ rb.stale \in BOOLEAN
  BY DEF Buffers
<1>2. PICK S \in SUBSET (0 .. Width - 1) : rb.chunks \in [S -> Pieces]
  BY <1>1 DEF Maps
<1>. QED  BY <1>1, <1>2

\* Storing a packet keeps a buffer good, and adds just its chunk.
LEMMA StoredIsGood ==
    ASSUME MeshTypeOK, GoodBuffers, NEW p \in packet
    PROVE  /\ GoodBuffer(p.bundleID, Stored(p))
           /\ DOMAIN Stored(p).chunks = DOMAIN Buffer(p).chunks \cup {p.chunkIdx}
<1>. DEFINE old == Buffer(p)
            new == [i \in DOMAIN old.chunks \cup {p.chunkIdx} |->
                       IF i = p.chunkIdx THEN p.payload ELSE old.chunks[i]]
<1>0. p \in Packets
  BY DEF MeshTypeOK
<1>1. GoodBuffer(p.bundleID, old)
  <2>1. CASE p.bundleID \in DOMAIN reassembly
    BY <2>1 DEF Buffer, GoodBuffers
  <2>2. CASE p.bundleID \notin DOMAIN reassembly
    <3>. DEFINE none == [i \in {} |-> p.payload]
    <3>1. old = [chunks |-> none, totalChunks |-> p.totalChunks, stale |-> FALSE]
      BY <2>2 DEF Buffer
    <3>2. none \in [{} -> Pieces] /\ DOMAIN none = {}
      OBVIOUS
    <3>. HIDE DEF none
    <3>3. none \in Maps
      BY <3>2 DEF Maps
    <3>4. old \in Buffers
      BY <3>1, <3>3, <1>0, PacketType DEF Buffers
    <3>5. ASSUME NEW m \in Messages, Unambiguous(m), BundleID[m] = p.bundleID
          PROVE  old.totalChunks = Chunks[m] % Width
      <4>1. p.payload[1] \in Messages /\ BundleID[p.payload[1]] = BundleID[m]
        BY <3>5, <1>0, PacketType, PieceType
      <4>2. p.payload[1] = m
        BY <3>5, <4>1 DEF Unambiguous
      <4>. QED  BY <4>2, <3>1, <1>0, PacketType
    <3>6. DOMAIN old.chunks = {}
      BY <3>1, <3>2
    <3>. QED  BY <3>4, <3>5, <3>6 DEF GoodBuffer
  <2>. QED  BY <2>1, <2>2
<1>2. Stored(p) = [chunks |-> new, totalChunks |-> old.totalChunks, stale |-> FALSE]
  BY DEF Stored
<1>3. /\ old \in Buffers
      /\ old.chunks \in [DOMAIN old.chunks -> Pieces]
      /\ DOMAIN old.chunks \subseteq 0 .. Width - 1
      /\ old.totalChunks \in 0 .. Width - 1
  BY <1>1, BufferType DEF GoodBuffer
<1>. HIDE DEF old
<1>4. /\ new \in [DOMAIN old.chunks \cup {p.chunkIdx} -> Pieces]
      /\ DOMAIN new = DOMAIN old.chunks \cup {p.chunkIdx}
      /\ \A i \in DOMAIN new : new[i] = IF i = p.chunkIdx THEN p.payload
                                        ELSE old.chunks[i]
  BY <1>0, <1>3, PacketType
<1>. HIDE DEF new
<1>5. DOMAIN old.chunks \cup {p.chunkIdx} \in SUBSET (0 .. Width - 1)
  BY <1>0, <1>3, PacketType
<1>6. new \in Maps
  BY <1>4, <1>5 DEF Maps
<1>7. Stored(p) \in Buffers
  BY <1>2, <1>3, <1>6 DEF Buffers
<1>8. /\ Stored(p).chunks = new
      /\ Stored(p).totalChunks = old.totalChunks
  BY <1>2
<1>9. \A i \in DOMAIN new : BundleID[new[i][1]] = p.bundleID /\ new[i][2] % Width = i
  BY <1>4, <1>1, <1>0, PacketType DEF GoodBuffer
<1>10. GoodBuffer(p.bundleID, Stored(p))
  BY <1>1, <1>7, <1>8, <1>9 DEF GoodBuffer
<1>. QED  BY <1>4, <1>8, <1>10 DEF old

\* The buffer of a message with an ID of its own and a countable number of chunks
\* holds only chunks of the message, each at its position.
LEMMA OnlyOwnChunks ==
    ASSUME NEW m \in Messages, Unambiguous(m), Fits(m),
           NEW rb, GoodBuffer(BundleID[m], rb), NEW i \in DOMAIN rb.chunks
    PROVE  i \in Positions(m) /\ rb.chunks[i] = <<m, i>>
<1>. DEFINE x == rb.chunks[i]
<1>1. x \in Pieces
  BY BufferType DEF GoodBuffer
<1>2. BundleID[x[1]] = BundleID[m] /\ x[2] % Width = i
  BY DEF GoodBuffer
<1>3. x[1] \in Messages /\ x[2] \in Positions(x[1]) /\ x = <<x[1], x[2]>>
  BY <1>1, PieceType
<1>4. x[1] = m
  BY <1>2, <1>3 DEF Unambiguous
<1>5. x[2] \in Positions(m)
  BY <1>3, <1>4
<1>6. x[2] % Width = x[2]
  BY <1>5, MeshAssumption DEF Positions, Fits
<1>. QED  BY <1>2, <1>3, <1>4, <1>5, <1>6

\* Such a buffer is complete just when it holds all chunks of the message.
LEMMA CompleteIsWhole ==
    ASSUME NEW m \in Messages, Unambiguous(m), Fits(m),
           NEW rb, GoodBuffer(BundleID[m], rb)
    PROVE  /\ Complete(rb) <=> DOMAIN rb.chunks = Positions(m)
           /\ Complete(rb) => Whole(rb, m)
<1>1. Chunks[m] \in Nat \ {0} /\ Width \in Nat \ {0} /\ Chunks[m] < Width
  BY MeshAssumption DEF Fits
<1>2. Chunks[m] % Width = Chunks[m]
  BY <1>1
<1>3. rb.totalChunks = Chunks[m]
  BY <1>2 DEF GoodBuffer
<1>4. \A i \in DOMAIN rb.chunks : i \in Positions(m) /\ rb.chunks[i] = <<m, i>>
  BY OnlyOwnChunks
<1>5. DOMAIN rb.chunks \in SUBSET (0 .. Chunks[m] - 1)
  BY <1>4 DEF Positions
<1>6. /\ Cardinality(DOMAIN rb.chunks) \in 0 .. Chunks[m]
      /\ Cardinality(DOMAIN rb.chunks) = Chunks[m]
             <=> DOMAIN rb.chunks = 0 .. Chunks[m] - 1
  BY <1>1, <1>5, CountsToWhole
<1>7. Cardinality(DOMAIN rb.chunks) % Width = Cardinality(DOMAIN rb.chunks)
  BY <1>1, <1>6
<1>8. Complete(rb) <=> DOMAIN rb.chunks = Positions(m)
  BY <1>3, <1>6, <1>7 DEF Complete, Positions
<1>9. DOMAIN rb.chunks = Positions(m) => Whole(rb, m)
  BY <1>1, <1>3, <1>4 DEF Whole
<1>. QED  BY <1>8, <1>9

-----------------------------------------------------------------------------
(* Type correctness *)

LEMMA SenderType ==
    ASSUME MeshTypeOK, NEW x \in sending
    PROVE  /\ x.message \in Messages /\ x.next \in Nat
           /\ x.next \in Positions(x.message)
           /\ Chunks[x.message] \in Nat \ {0}
           /\ x = [message |-> x.message, next |-> x.next]
BY MeshAssumption DEF MeshTypeOK

LEMMA InitInvariant == MeshInit => MeshInv
<1>. SUFFICES ASSUME MeshInit PROVE MeshInv
  OBVIOUS
<1>1. DOMAIN reassembly = {}
  BY DEF MeshInit
<1>2. MeshTypeOK
  BY <1>1, MeshAssumption DEF MeshInit, MeshTypeOK
<1>3. GoodBuffers /\ StillOpen
  BY <1>1 DEF GoodBuffers, StillOpen
<1>4. Accounted
  BY DEF MeshInit, Accounted
<1>5. NeverMixed
  BY DEF MeshInit, NeverMixed
<1>. QED  BY <1>2, <1>3, <1>4, <1>5 DEF MeshInv

\* Steps that leave the server's data alone.
LEMMA ServerUntouched ==
    ASSUME MeshInv, MeshTypeOK',
           UNCHANGED <<reassembly, delivered, arrived, discarded, expired>>
    PROVE  MeshInv'
<1>1. GoodBuffers'
  BY DEF MeshInv, GoodBuffers
<1>2. StillOpen'
  BY DEF MeshInv, StillOpen
<1>3. Accounted'
  BY DEF MeshInv, Accounted
<1>4. NeverMixed'
  BY DEF MeshInv, NeverMixed
<1>. QED  BY <1>1, <1>2, <1>3, <1>4 DEF MeshInv

LEMMA ClientSteps ==
    ASSUME MeshInv,
           \/ \E m \in Messages : Send(m)
           \/ \E x \in sending : SendChunk(x) \/ SendFails(x)
    PROVE  MeshInv'
<1>. USE DEF MeshInv
<1>1. ASSUME NEW m \in Messages, Send(m) PROVE MeshInv'
  <2>. DEFINE x == [message |-> m, next |-> 0]
  <2>1. x \in [message : Messages, next : Nat] /\ x.message = m /\ x.next = 0
    OBVIOUS
  <2>2. 0 \in Positions(m)
    BY MeshAssumption DEF Positions
  <2>3. sending' = sending \cup {x} /\ \A y \in sending : Client[y.message] # Client[m]
    BY <1>1 DEF Send
  <2>. HIDE DEF x
  <2>4. sends' \in 0 .. MaxSends
    BY <1>1, MeshAssumption DEF Send, MeshTypeOK
  <2>5. /\ sending' \subseteq [message : Messages, next : Nat]
        /\ \A y \in sending' : y.next \in Positions(y.message)
        /\ \A y, z \in sending' : Client[y.message] = Client[z.message] => y = z
    BY <2>1, <2>2, <2>3 DEF MeshTypeOK
  <2>6. MeshTypeOK'
    BY <1>1, <2>4, <2>5 DEF Send, channelVars, serverVars, MeshTypeOK
  <2>. QED  BY <1>1, <2>6, ServerUntouched DEF Send, serverVars
<1>2. ASSUME NEW x \in sending, SendChunk(x) PROVE MeshInv'
  <2>0. /\ x.message \in Messages /\ x.next \in Nat
        /\ x.next \in Positions(x.message)
        /\ Chunks[x.message] \in Nat \ {0}
        /\ x \in [message : Messages, next : Nat]
    BY SenderType DEF MeshTypeOK
  <2>1. Packet(x.message, x.next) \in Packets
    <3>1. <<x.message, x.next>> \in Pieces
      BY <2>0, PiecesAre
    <3>. QED  BY <3>1 DEF Packets
  <2>2. /\ sending' \subseteq [message : Messages, next : Nat]
        /\ \A y \in sending' : y.next \in Positions(y.message)
        /\ \A y, z \in sending' : Client[y.message] = Client[z.message] => y = z
        /\ sent' \subseteq Messages
    <3>1. CASE x.next + 1 < Chunks[x.message]
      <4>. DEFINE n == [x EXCEPT !.next = @ + 1]
      <4>1. n \in [message : Messages, next : Nat] /\ n.message = x.message
            /\ n.next = x.next + 1
        BY <2>0
      <4>2. n.next \in Positions(n.message)
        BY <3>1, <4>1, <2>0 DEF Positions
      <4>3. sending' = (sending \ {x}) \cup {n} /\ sent' = sent
        BY <1>2, <3>1 DEF SendChunk
      <4>. HIDE DEF n
      <4>. QED  BY <4>1, <4>2, <4>3, <2>0 DEF MeshTypeOK
    <3>2. CASE ~(x.next + 1 < Chunks[x.message])
      BY <1>2, <3>2, <2>0 DEF SendChunk, MeshTypeOK
    <3>. QED  BY <3>1, <3>2
  <2>3. MeshTypeOK'
    BY <1>2, <2>1, <2>2 DEF SendChunk, serverVars, MeshTypeOK
  <2>. QED  BY <1>2, <2>3, ServerUntouched DEF SendChunk, serverVars
<1>3. ASSUME NEW x \in sending, SendFails(x) PROVE MeshInv'
  <2>1. MeshTypeOK'
    BY <1>3 DEF SendFails, channelVars, serverVars, MeshTypeOK
  <2>. QED  BY <1>3, <2>1, ServerUntouched DEF SendFails, serverVars
<1>. QED  BY <1>1, <1>2, <1>3

LEMMA LifeCycleSteps ==
    ASSUME MeshInv,
           \/ Start \/ Close \/ CloseClient
           \/ \E p \in air : Lose(p) \/ ReceivePacket(p)
    PROVE  MeshInv'
<1>. USE DEF MeshInv, clientVars, channelVars, serverVars
<1>1. CASE Start
  <2>1. MeshTypeOK'
    BY <1>1 DEF Start, MeshTypeOK
  <2>. QED  BY <1>1, <2>1, ServerUntouched DEF Start
<1>2. CASE Close
  <2>1. server' \in {"closed", "panic"} /\ transport' \in BOOLEAN
    BY <1>2 DEF Close, MeshTypeOK
  <2>2. MeshTypeOK'
    BY <1>2, <2>1 DEF Close, MeshTypeOK
  <2>. QED  BY <1>2, <2>2, ServerUntouched DEF Close
<1>3. CASE CloseClient
  <2>1. MeshTypeOK'
    BY <1>3 DEF CloseClient, MeshTypeOK
  <2>. QED  BY <1>3, <2>1, ServerUntouched DEF CloseClient
<1>4. ASSUME NEW p \in air, Lose(p) PROVE MeshInv'
  <2>1. p.payload[1] \in Messages
    BY PacketType, PieceType DEF MeshTypeOK
  <2>2. MeshTypeOK'
    BY <1>4, <2>1 DEF Lose, MeshTypeOK
  <2>. QED  BY <1>4, <2>2, ServerUntouched DEF Lose
<1>5. ASSUME NEW p \in air, ReceivePacket(p) PROVE MeshInv'
  <2>1. copies' \in 0 .. MaxCopies /\ air' \subseteq air
    BY <1>5, MeshAssumption DEF ReceivePacket, MeshTypeOK
  <2>2. MeshTypeOK'
    BY <1>5, <2>1 DEF ReceivePacket, MeshTypeOK
  <2>. QED  BY <1>5, <2>2, ServerUntouched DEF ReceivePacket
<1>. QED  BY <1>1, <1>2, <1>3, <1>4, <1>5

-----------------------------------------------------------------------------
(* The reassembly buffers *)

LEMMA AgeStep ==
    ASSUME MeshInv, NEW id \in DOMAIN reassembly, Age(id)
    PROVE  MeshInv'
<1>. USE DEF MeshInv
<1>1. DOMAIN reassembly' = DOMAIN reassembly
  BY DEF Age
<1>2. ASSUME NEW k \in DOMAIN reassembly
      PROVE  /\ reassembly[k] \in Buffers /\ reassembly'[k] \in Buffers
             /\ reassembly'[k].chunks = reassembly[k].chunks
             /\ reassembly'[k].totalChunks = reassembly[k].totalChunks
  <2>1. reassembly[k] \in Buffers
    BY DEF MeshTypeOK
  <2>2. reassembly'[k] = IF k = id THEN [reassembly[k] EXCEPT !.stale = TRUE]
                         ELSE reassembly[k]
    BY DEF Age
  <2>. QED  BY <2>1, <2>2 DEF Buffers
<1>3. MeshTypeOK'
  BY <1>1, <1>2 DEF Age, clientVars, channelVars, MeshTypeOK
<1>4. GoodBuffers'
  BY <1>1, <1>2 DEF GoodBuffers, GoodBuffer
<1>5. StillOpen'
  BY <1>1, <1>2 DEF StillOpen, Complete
<1>6. Accounted'
  BY <1>1, <1>2 DEF Age, Accounted
<1>7. NeverMixed'
  BY DEF Age, NeverMixed
<1>. QED  BY <1>3, <1>4, <1>5, <1>6, <1>7

LEMMA TickStep == MeshInv /\ Tick => MeshInv'
<1>. SUFFICES ASSUME MeshInv, Tick PROVE MeshInv'
  OBVIOUS
<1>. USE DEF MeshInv
<1>1. /\ DOMAIN reassembly' = DOMAIN reassembly \ Stale
      /\ \A k \in DOMAIN reassembly' : reassembly'[k] = reassembly[k]
      /\ discarded' = discarded \cup Stale
      /\ Stale \subseteq DOMAIN reassembly
  BY DEF Tick, Stale
<1>. HIDE DEF Stale
<1>2. MeshTypeOK'
  BY <1>1 DEF Tick, clientVars, channelVars, MeshTypeOK
<1>3. GoodBuffers'
  BY <1>1 DEF GoodBuffers, GoodBuffer
<1>4. StillOpen'
  BY <1>1 DEF StillOpen
<1>5. Accounted'
  BY <1>1 DEF Tick, Accounted
<1>6. NeverMixed'
  BY DEF Tick, NeverMixed
<1>. QED  BY <1>2, <1>3, <1>4, <1>5, <1>6

\* The step that stores a packet and, if that completes the buffer, delivers.
LEMMA ReassembleStep ==
    ASSUME MeshInv, NEW p \in packet, Reassemble(p)
    PROVE  MeshInv'
<1>. USE DEF MeshInv
<1>. DEFINE rb == Stored(p)
            id == p.bundleID
<1>0. p \in Packets
  BY DEF MeshTypeOK
<1>1. GoodBuffer(id, rb) /\ DOMAIN rb.chunks = DOMAIN Buffer(p).chunks \cup {p.chunkIdx}
  BY StoredIsGood
<1>2. /\ packet' = {} /\ arrived' = arrived \cup {p.payload}
      /\ UNCHANGED <<clientVars, channelVars, transport, server, discarded, tardy>>
  BY DEF Reassemble
<1>3. ASSUME Complete(rb)
      PROVE  /\ DOMAIN reassembly' = DOMAIN reassembly \ {id}
             /\ \A k \in DOMAIN reassembly' : reassembly'[k] = reassembly[k]
             /\ Deliver(rb)
  BY <1>3 DEF Reassemble
<1>4. ASSUME ~Complete(rb)
      PROVE  /\ DOMAIN reassembly' = DOMAIN reassembly \cup {id}
             /\ \A k \in DOMAIN reassembly' :
                    reassembly'[k] = IF k = id THEN rb ELSE reassembly[k]
             /\ UNCHANGED <<delivered, expired>>
  BY <1>4 DEF Reassemble
<1>5. id \in IDs /\ p.payload \in Pieces
  BY <1>0, PacketType
<1>6. delivered \subseteq delivered' /\ expired \subseteq expired'
  BY <1>3, <1>4 DEF Deliver
<1>7. delivered' \subseteq Messages \cup {Splice} /\ expired' \subseteq Messages
  BY <1>3, <1>4 DEF Deliver, MeshTypeOK
<1>. HIDE DEF rb, id
<1>8. rb \in Buffers
  BY <1>1 DEF GoodBuffer
<1>9. GoodBuffers'
  <2>. SUFFICES ASSUME NEW k \in DOMAIN reassembly' PROVE GoodBuffer(k, reassembly'[k])
    BY DEF GoodBuffers, GoodBuffer
  <2>. QED  BY <1>1, <1>3, <1>4 DEF GoodBuffers
<1>10. StillOpen'
  <2>. SUFFICES ASSUME NEW k \in DOMAIN reassembly' PROVE ~Complete(reassembly'[k])
    BY DEF StillOpen, Complete
  <2>. QED  BY <1>3, <1>4 DEF StillOpen
<1>11. DOMAIN reassembly' \subseteq IDs /\ \A k \in DOMAIN reassembly' : reassembly'[k] \in Buffers
  BY <1>3, <1>4, <1>5, <1>8 DEF MeshTypeOK
<1>12. MeshTypeOK'
  BY <1>2, <1>5, <1>7, <1>11 DEF clientVars, channelVars, MeshTypeOK
<1>13. Accounted'
  <2>. SUFFICES ASSUME NEW m \in Messages, Unambiguous(m), Fits(m),
                       m \notin delivered' \cup expired',
                       BundleID[m] \notin discarded',
                       NEW i \in Positions(m), <<m, i>> \in arrived'
                PROVE  /\ BundleID[m] \in DOMAIN reassembly'
                       /\ i \in DOMAIN reassembly'[BundleID[m]].chunks
    BY DEF Accounted, Fits, Unambiguous, Positions
  <2>1. m \notin delivered \cup expired /\ BundleID[m] \notin discarded
    BY <1>2, <1>6
  <2>2. <<m, i>> \in arrived => /\ BundleID[m] \in DOMAIN reassembly
                                /\ i \in DOMAIN reassembly[BundleID[m]].chunks
    BY <2>1 DEF Accounted
  <2>3. CASE BundleID[m] = id
    <3>1. ASSUME Complete(rb) PROVE FALSE
      <4>1. Whole(rb, m)
        BY <3>1, <1>1, <2>3, CompleteIsWhole
      <4>2. PICK n \in Messages : Whole(rb, n) /\ n \in delivered' \cup expired'
        BY <1>3, <3>1, <4>1 DEF Deliver
      <4>3. 0 \in Positions(m) /\ 0 \in Positions(n)
        BY MeshAssumption DEF Positions
      <4>4. <<m, 0>> = <<n, 0>>
        BY <4>1, <4>2, <4>3 DEF Whole
      <4>. QED  BY <4>2, <4>4
    <3>2. BundleID[m] \in DOMAIN reassembly' /\ reassembly'[BundleID[m]] = rb
      BY <1>4, <2>3, <3>1
    <3>3. CASE <<m, i>> \in arrived
      <4>1. Buffer(p) = reassembly[BundleID[m]]
        BY <2>2, <2>3, <3>3 DEF Buffer, id
      <4>. QED  BY <1>1, <2>2, <3>2, <3>3, <4>1
    <3>4. CASE <<m, i>> \notin arrived
      <4>1. p.payload = <<m, i>>
        BY <1>2, <3>4
      <4>2. p.chunkIdx = i % Width
        BY <1>0, <4>1, PacketType
      <4>3. i % Width = i
        BY MeshAssumption DEF Fits, Positions
      <4>. QED  BY <1>1, <3>2, <4>2, <4>3
    <3>. QED  BY <3>3, <3>4
  <2>4. CASE BundleID[m] # id
    <3>1. p.payload # <<m, i>>
      BY <2>4, <1>0, PacketType DEF id
    <3>2. <<m, i>> \in arrived
      BY <3>1, <1>2
    <3>. QED  BY <2>2, <2>4, <3>2, <1>3, <1>4
  <2>. QED  BY <2>3, <2>4
<1>14. NeverMixed'
  <2>. SUFFICES ASSUME \A m \in Messages : Unambiguous(m), Splice \notin delivered,
                       Splice \in delivered'
                PROVE  FALSE
    BY DEF NeverMixed, Unambiguous
  <2>1. Complete(rb) /\ Deliver(rb)
    BY <1>3, <1>4
  <2>2. PICK i, j \in DOMAIN rb.chunks : rb.chunks[i][1] # rb.chunks[j][1]
    BY <2>1, MeshAssumption DEF Deliver
  <2>3. /\ rb.chunks[i] \in Pieces /\ rb.chunks[j] \in Pieces
        /\ BundleID[rb.chunks[i][1]] = id /\ BundleID[rb.chunks[j][1]] = id
    BY <1>1, <1>8, BufferType DEF GoodBuffer
  <2>4. rb.chunks[i][1] \in Messages /\ rb.chunks[j][1] \in Messages
    BY <2>3, PieceType
  <2>. QED  BY <2>2, <2>3, <2>4 DEF Unambiguous
<1>. QED  BY <1>9, <1>10, <1>12, <1>13, <1>14

-----------------------------------------------------------------------------
(* The theorems *)

\* Every reachable state of clients, radio and server satisfies the invariant.
THEOREM MeshInvariant == MeshSpec => []MeshInv
<1>1. MeshInit => MeshInv
  BY InitInvariant
<1>2. MeshInv /\ [MeshNext]_meshVars => MeshInv'
  <2>. SUFFICES ASSUME MeshInv, [MeshNext]_meshVars PROVE MeshInv'
    OBVIOUS
  <2>1. CASE \/ \E m \in Messages : Send(m)
             \/ \E x \in sending : SendChunk(x) \/ SendFails(x)
    BY <2>1, ClientSteps
  <2>2. CASE \/ Start \/ Close \/ CloseClient
             \/ \E p \in air : Lose(p) \/ ReceivePacket(p)
    BY <2>2, LifeCycleSteps
  <2>3. CASE \E p \in packet : Reassemble(p)
    BY <2>3, ReassembleStep
  <2>4. CASE \E id \in DOMAIN reassembly : Age(id)
    BY <2>4, AgeStep
  <2>5. CASE Tick
    BY <2>5, TickStep
  <2>6. CASE UNCHANGED meshVars
    <3>1. MeshTypeOK'
      BY <2>6 DEF meshVars, clientVars, channelVars, serverVars, MeshInv, MeshTypeOK
    <3>. QED  BY <2>6, <3>1, ServerUntouched DEF meshVars, serverVars
  <2>. QED  BY <2>1, <2>2, <2>3, <2>4, <2>5, <2>6 DEF MeshNext
<1>. QED  BY <1>1, <1>2, PTL DEF MeshSpec

\* The variables of the model keep their types; in particular at most one Send per
\* client is between two chunks.
THEOREM MeshTypeCorrect == MeshSpec => []MeshTypeOK
<1>1. MeshInv => MeshTypeOK
  BY DEF MeshInv
<1>. QED  BY <1>1, MeshInvariant, PTL

\* receiveLoop hands over a mixture of messages only if two have the same ID.
THEOREM MeshNeverMixes == MeshSpec => []NeverMixed
<1>1. MeshInv => NeverMixed
  BY DEF MeshInv
<1>. QED  BY <1>1, MeshInvariant, PTL

\* Whatever the channel does, a message whose chunks have all arrived was decoded.
THEOREM MeshDelivers == MeshSpec => []AllArrivedIsDelivered
<1>1. MeshInv => AllArrivedIsDelivered
  <2>. SUFFICES ASSUME MeshInv, NEW m \in Messages, Unambiguous(m), Fits(m), Missed(m)
                PROVE  FALSE
    BY DEF AllArrivedIsDelivered
  <2>1. \A i \in Positions(m) : <<m, i>> \in arrived
    BY DEF Missed
  <2>2. \A i \in Positions(m) : /\ BundleID[m] \in DOMAIN reassembly
                                /\ i \in DOMAIN reassembly[BundleID[m]].chunks
    BY <2>1 DEF MeshInv, Accounted, Missed
  <2>3. 0 \in Positions(m)
    BY MeshAssumption DEF Positions
  <2>. DEFINE rb == reassembly[BundleID[m]]
  <2>4. GoodBuffer(BundleID[m], rb) /\ ~Complete(rb) /\ Positions(m) \subseteq DOMAIN rb.chunks
    BY <2>2, <2>3 DEF MeshInv, GoodBuffers, StillOpen
  <2>5. DOMAIN rb.chunks \subseteq Positions(m)
    BY <2>4, OnlyOwnChunks
  <2>. QED  BY <2>4, <2>5, CompleteIsWhole
<1>. QED  BY <1>1, MeshInvariant, PTL

-----------------------------------------------------------------------------
(* Fragmentation: induction and sequences *)

\* Every set of numbers that is not empty has a least element.
LEMMA LeastNumber ==
    ASSUME NEW T \in SUBSET Nat, T # {}
    PROVE  \E n \in T : \A m \in T : n <= m
<1> DEFINE R == OpToRel(<, Nat)
<1>1. IsWellFoundedOn(R, Nat)
  BY NatLessThanWellFounded
<1>2. ASSUME NEW x \in Nat, NEW y \in Nat, <<y, x>> \notin R PROVE x <= y
  BY <1>2 DEF OpToRel
<1> HIDE DEF R
<1>3. PICK n \in T : \A y \in T : <<y, n>> \notin R
  BY <1>1, WFMin
<1>4. \A y \in T : n <= y
  BY <1>2, <1>3
<1> QED BY <1>4

\* Induction, for the numbers in a set.
LEMMA NumberInduction ==
    ASSUME NEW T, 0 \in T, \A n \in Nat : n \in T => n + 1 \in T
    PROVE  Nat \subseteq T
<1> SUFFICES ASSUME Nat \ T # {} PROVE FALSE
  OBVIOUS
<1>1. PICK n \in Nat \ T : \A m \in Nat \ T : n <= m
  BY LeastNumber
<1>2. n # 0 /\ n - 1 \in Nat /\ ~(n <= n - 1)
  OBVIOUS
<1> QED BY <1>1, <1>2

\* Appending the next m positions to the first a gives the first a + m.
LEMMA AppendPositions ==
    ASSUME NEW a \in Nat, NEW m \in Nat
    PROVE  [i \in 1 .. a |-> i] \o [i \in 1 .. m |-> a + i] = [i \in 1 .. a + m |-> i]
<1> DEFINE s == [i \in 1 .. a |-> i]
           t == [i \in 1 .. m |-> a + i]
           u == [i \in 1 .. a + m |-> i]
<1>1. s \in Seq(Nat) /\ t \in Seq(Nat) /\ u \in Seq(Nat)
  OBVIOUS
<1>2. Len(s) = a /\ Len(t) = m /\ Len(u) = a + m
  OBVIOUS
<1>3. \A i \in 1 .. a + m : (s \o t)[i] = u[i]
  <2>1. ASSUME NEW i \in 1 .. a + m PROVE (s \o t)[i] = i
    <3>1. (s \o t)[i] = IF i <= a THEN s[i] ELSE t[i - a]
      BY <1>1, <1>2, ConcatProperties
    <3> QED BY <3>1
  <2> QED BY <2>1
<1>4. s \o t \in Seq(Nat) /\ Len(s \o t) = a + m
  BY <1>1, <1>2, ConcatProperties
<1> HIDE DEF s, t, u
<1>5. s \o t = u
  BY <1>1, <1>2, <1>3, <1>4, SeqEqual
<1> QED BY <1>5 DEF s, t, u

\* The numbers in a bundle are numbers.
LEMMA BundleNumbers ==
    ASSUME NEW b \in BundleType
    PROVE  /\ b.start \in Nat /\ b.off \in Nat /\ b.len \in Nat /\ b.total \in Nat
           /\ b.hop \in Nat /\ b.cut \in Nat /\ End(b) \in Nat /\ End(b) = b.off + b.len
  BY FragmentationAssumption DEF BundleType, End

\* What the k-th iteration of mergeFragmentPayload appends.
Appended(s, k) == [i \in 1 .. s[k].len - known(s, k) |-> s[k].start + known(s, k) + i]

\* Fragments that say where their data begin, leave no gap and never end before
\* their predecessor merge to the first positions of the payload.
LEMMA MergeIsPrefix ==
    ASSUME NEW s \in Seq(BundleType), 
           \A k \in DOMAIN s : s[k].start = s[k].off /\ s[k].off <= lastIndex(s, k - 1),
           ~mergePanics(s)
    PROVE  mergeFragmentPayload(s) = [i \in 1 .. lastIndex(s, Len(s)) |-> i]
<1> DEFINE n == Len(s)
           Defines(f) == f = [k \in 0 .. n |-> IF k = 0 THEN <<>>
                                               ELSE f[k - 1] \o Appended(s, k)]
           g == [k \in 0 .. n |-> [i \in 1 .. lastIndex(s, k) |-> i]]
           d == CHOOSE f : Defines(f)
<1>0. mergeFragmentPayload(s) = d[n]
  BY DEF mergeFragmentPayload, Appended
<1>1. n \in Nat /\ DOMAIN s = 1 .. n /\ \A k \in 1 .. n : s[k] \in BundleType
  BY LenProperties, ElementOfSeq
<1>2. \A k \in 0 .. n : lastIndex(s, k) \in Nat
  <2>1. ASSUME NEW k \in 0 .. n, k # 0 PROVE End(s[k]) \in Nat
    BY <2>1, <1>1, BundleNumbers
  <2> QED BY <2>1 DEF lastIndex
<1>3. ASSUME NEW k \in 1 .. n
      PROVE  [i \in 1 .. lastIndex(s, k - 1) |-> i] \o Appended(s, k) =
                 [i \in 1 .. lastIndex(s, k) |-> i]
  <2> DEFINE a == lastIndex(s, k - 1)
             m == s[k].len - known(s, k)
  <2>1. a \in Nat /\ s[k].len \in Nat /\ s[k].off \in Nat /\ s[k].start = s[k].off
        /\ s[k].off <= a
    <3>1. k \in DOMAIN s /\ s[k] \in BundleType /\ k - 1 \in 0 .. n
      BY <1>1
    <3> QED BY <3>1, <1>2, BundleNumbers
  <2>2. known(s, k) = a - s[k].off /\ ~(known(s, k) > s[k].len)
    BY <1>1 DEF known, mergePanics
  <2>3. lastIndex(s, k) = s[k].off + s[k].len
    BY <1>1 DEF lastIndex, End
  <2>4. m \in Nat /\ a + m = lastIndex(s, k) /\ s[k].start + known(s, k) = a
    BY <2>1, <2>2, <2>3
  <2>5. Appended(s, k) = [i \in 1 .. m |-> a + i]
    BY <2>4 DEF Appended
  <2> HIDE DEF a, m
  <2>6. [i \in 1 .. a |-> i] \o [i \in 1 .. m |-> a + i] = [i \in 1 .. a + m |-> i]
    BY <2>1, <2>4, AppendPositions DEF a
  <2> QED BY <2>4, <2>5, <2>6 DEF a
<1> HIDE DEF n
<1>4. Defines(g)
  <2>1. ASSUME NEW k \in 0 .. n
        PROVE  g[k] = IF k = 0 THEN <<>> ELSE g[k - 1] \o Appended(s, k)
    <3>1. CASE k = 0
      BY <3>1, <1>1 DEF lastIndex
    <3>2. CASE k # 0
      <4>1. k \in 1 .. n /\ k - 1 \in 0 .. n
        BY <3>2, <1>1
      <4>2. g[k] = [i \in 1 .. lastIndex(s, k) |-> i]
            /\ g[k - 1] = [i \in 1 .. lastIndex(s, k - 1) |-> i]
        BY <4>1
      <4> HIDE DEF g
      <4> QED BY <3>2, <4>1, <4>2, <1>3
    <3> QED BY <3>1, <3>2
  <2>2. g = [k \in 0 .. n |-> g[k]]
    OBVIOUS
  <2> HIDE DEF g
  <2> QED BY <2>1, <2>2
<1>5. Defines(d)
  BY <1>4
<1> HIDE DEF d
<1>6. \A k \in 0 .. n : d[k] = IF k = 0 THEN <<>> ELSE d[k - 1] \o Appended(s, k)
  BY <1>5
<1> DEFINE T == {k \in Nat : k <= n => d[k] = [i \in 1 .. lastIndex(s, k) |-> i]}
<1>7. 0 \in T
  BY <1>1, <1>6 DEF lastIndex
<1>8. ASSUME NEW k \in Nat, k \in T PROVE k + 1 \in T
  <2> SUFFICES ASSUME k + 1 <= n
               PROVE  d[k + 1] = [i \in 1 .. lastIndex(s, k + 1) |-> i]
    OBVIOUS
  <2>1. k + 1 \in 1 .. n /\ k + 1 \in 0 .. n /\ k + 1 # 0 /\ (k + 1) - 1 = k /\ k <= n
    BY <1>1
  <2>2. d[k] = [i \in 1 .. lastIndex(s, k) |-> i]
    BY <2>1, <1>8
  <2>3. d[k + 1] = d[k] \o Appended(s, k + 1)
    BY <2>1, <1>6
  <2>4. [i \in 1 .. lastIndex(s, k) |-> i] \o Appended(s, k + 1) =
            [i \in 1 .. lastIndex(s, k + 1) |-> i]
    BY <2>1, <1>3
  <2> QED BY <2>2, <2>3, <2>4
<1> HIDE DEF T
<1>9. n \in T
  BY <1>1, <1>7, <1>8, NumberInduction
<1> QED BY <1>0, <1>1, <1>9 DEF T, n

-----------------------------------------------------------------------------
(* The slice *)

\* What InsertAt does.
LEMMA InsertAtProperties ==
    ASSUME NEW S, NEW s \in Seq(S), NEW k \in 1 .. Len(s) + 1, NEW e \in S
    PROVE  /\ InsertAt(s, k, e) \in Seq(S) /\ Len(InsertAt(s, k, e)) = Len(s) + 1
           /\ \A i \in 1 .. Len(s) + 1 :
                  InsertAt(s, k, e)[i] =
                      IF i < k THEN s[i] ELSE IF i = k THEN e ELSE s[i - 1]
<1> DEFINE n == Len(s)
           u == SubSeq(s, 1, k - 1)
           v == SubSeq(s, k, n)
<1>1. n \in Nat /\ k \in Nat /\ k - 1 \in Nat /\ k <= n + 1 /\ 1 <= k
      /\ \A i \in 1 .. n : s[i] \in S
  BY LenProperties, ElementOfSeq
<1>2. /\ u \in Seq(S) /\ Len(u) = k - 1
      /\ \A i \in 1 .. k - 1 : u[i] = s[i]
  <2>1. \A i \in 1 .. k - 1 : s[i] \in S
    BY <1>1
  <2>2. /\ u \in Seq(S) /\ Len(u) = IF 1 <= k - 1 THEN (k - 1) - 1 + 1 ELSE 0
        /\ \A i \in 1 .. (k - 1) - 1 + 1 : u[i] = s[1 + i - 1]
    BY <2>1, <1>1, SubSeqProperties
  <2> HIDE DEF u
  <2> QED BY <2>2, <1>1
<1>3. /\ v \in Seq(S) /\ Len(v) = n - k + 1
      /\ \A i \in 1 .. n - k + 1 : v[i] = s[k + i - 1]
  <2>1. \A i \in k .. n : s[i] \in S
    BY <1>1
  <2>2. /\ v \in Seq(S) /\ Len(v) = IF k <= n THEN n - k + 1 ELSE 0
        /\ \A i \in 1 .. n - k + 1 : v[i] = s[k + i - 1]
    BY <2>1, <1>1, SubSeqProperties
  <2> HIDE DEF v
  <2> QED BY <2>2, <1>1
<1> HIDE DEF n, u, v
<1>4. <<e>> \in Seq(S) /\ Len(<<e>>) = 1 /\ <<e>>[1] = e
  OBVIOUS
<1> DEFINE w == u \o <<e>>
<1>5. /\ w \in Seq(S) /\ Len(w) = k
      /\ \A i \in 1 .. k : w[i] = IF i < k THEN s[i] ELSE e
  <2>1. /\ w \in Seq(S) /\ Len(w) = (k - 1) + 1
        /\ \A i \in 1 .. (k - 1) + 1 : w[i] = IF i <= k - 1 THEN u[i] ELSE <<e>>[i - (k - 1)]
    BY <1>2, <1>4, ConcatProperties
  <2> HIDE DEF w
  <2>2. \A i \in 1 .. k : i < k => i \in 1 .. k - 1 /\ i <= k - 1
    BY <1>1
  <2>3. \A i \in 1 .. k : ~(i < k) => i = k /\ ~(i <= k - 1) /\ i - (k - 1) = 1
    BY <1>1
  <2>4. (k - 1) + 1 = k
    BY <1>1
  <2> QED BY <2>1, <2>2, <2>3, <2>4, <1>1, <1>2, <1>4
<1> HIDE DEF w
<1> DEFINE t == w \o v
<1>6. /\ t \in Seq(S) /\ Len(t) = n + 1
      /\ \A i \in 1 .. n + 1 : t[i] = IF i <= k THEN w[i] ELSE v[i - k]
  <2>1. /\ t \in Seq(S) /\ Len(t) = Len(w) + Len(v)
        /\ \A i \in 1 .. Len(w) + Len(v) : t[i] = IF i <= Len(w) THEN w[i] ELSE v[i - Len(w)]
    BY <1>3, <1>5, ConcatProperties
  <2>2. Len(w) + Len(v) = n + 1 /\ Len(w) = k
    BY <1>1, <1>3, <1>5
  <2> HIDE DEF t
  <2> QED BY <2>1, <2>2
<1>7. InsertAt(s, k, e) = t
  BY DEF InsertAt, u, v, w, n
<1> HIDE DEF t
<1>8. ASSUME NEW i \in 1 .. n + 1
      PROVE  t[i] = IF i < k THEN s[i] ELSE IF i = k THEN e ELSE s[i - 1]
  <2>1. CASE i <= k
    <3>1. i \in 1 .. k
      BY <2>1, <1>1
    <3> QED BY <2>1, <3>1, <1>1, <1>5, <1>6
  <2>2. CASE ~(i <= k)
    <3>1. i \in Int /\ k \in Int /\ n \in Int /\ k < i /\ i <= n + 1
      BY <2>2, <1>1
    <3>2. i - k \in 1 .. n - k + 1 /\ k + (i - k) - 1 = i - 1 /\ ~(i < k) /\ i # k
      BY <3>1
    <3> QED BY <2>2, <3>2, <1>3, <1>6
  <2> QED BY <2>1, <2>2
<1> QED BY <1>6, <1>7, <1>8 DEF n

\* Whatever arrives, the slice stays sorted.
LEMMA SliceNext ==
    ASSUME FragInv, NEW b \in out, Receive(b)
    PROVE  SliceInv' /\ slice' \in Seq(BundleType)
<1>0. /\ slice \in Seq(BundleType) /\ b \in BundleType /\ out' = out
      /\ DOMAIN slice = 1 .. Len(slice) /\ Len(slice) \in Nat
      /\ \A i \in 1 .. Len(slice) : slice[i] \in BundleType /\ slice[i].off \in Nat
      /\ b.off \in Nat
  BY LenProperties, ElementOfSeq, BundleNumbers DEF FragInv, FragTypeOK, Receive
<1>1. PICK k \in 1 .. Len(slice) + 1 :
          /\ \A i \in 1 .. k - 1 : slice[i].off <= b.off
          /\ \A i \in k .. Len(slice) : b.off <= slice[i].off
          /\ slice' = InsertAt(slice, k, b)
  BY DEF Receive
<1>2. /\ slice' \in Seq(BundleType) /\ Len(slice') = Len(slice) + 1
      /\ \A i \in 1 .. Len(slice) + 1 :
             slice'[i] = IF i < k THEN slice[i] ELSE IF i = k THEN b ELSE slice[i - 1]
  <2> DEFINE t == InsertAt(slice, k, b)
  <2>1. /\ t \in Seq(BundleType) /\ Len(t) = Len(slice) + 1
        /\ \A i \in 1 .. Len(slice) + 1 :
               t[i] = IF i < k THEN slice[i] ELSE IF i = k THEN b ELSE slice[i - 1]
    <3>1. slice \in Seq(BundleType) /\ k \in 1 .. Len(slice) + 1 /\ b \in BundleType
      BY <1>0
    <3> HIDE <1>0
    <3> QED BY <3>1, InsertAtProperties
  <2>2. slice' = t
    BY <1>1
  <2> HIDE DEF t
  <2> QED BY <2>1, <2>2
<1>3. DOMAIN slice' = 1 .. Len(slice) + 1
  BY <1>2, LenProperties
<1>4. ASSUME NEW i \in 1 .. Len(slice) + 1
      PROVE  /\ i < k => i \in 1 .. Len(slice) /\ i \in 1 .. k - 1
             /\ k < i => i - 1 \in 1 .. Len(slice) /\ i - 1 \in k .. Len(slice)
  <2>1. i \in Int /\ k \in Int /\ Len(slice) \in Int /\ 1 <= i /\ i <= Len(slice) + 1 /\ 1 <= k
        /\ k <= Len(slice) + 1
    BY <1>0, <1>1
  <2> HIDE <1>1
  <2> QED BY <2>1
<1>5. \A i \in DOMAIN slice' : slice'[i] \in out'
  <2>1. \A i \in 1 .. Len(slice) : slice[i] \in out
    BY <1>0 DEF FragInv, SliceInv
  <2>2. ASSUME NEW i \in 1 .. Len(slice) + 1 PROVE slice'[i] \in out
    <3>1. CASE i < k
      BY <3>1, <2>1, <1>2, <1>4
    <3>2. CASE i = k
      BY <3>2, <1>2
    <3>3. CASE k < i
      <4>1. ~(i < k) /\ i # k /\ i - 1 \in 1 .. Len(slice)
        BY <3>3, <1>4
      <4> QED BY <4>1, <2>1, <1>2
    <3>4. i < k \/ i = k \/ k < i
      OBVIOUS
    <3> QED BY <3>1, <3>2, <3>3, <3>4
  <2> QED BY <2>2, <1>0, <1>3
<1>6. ASSUME NEW i \in DOMAIN slice', NEW j \in DOMAIN slice', i <= j
      PROVE  slice'[i].off <= slice'[j].off
  <2>0. i \in 1 .. Len(slice) + 1 /\ j \in 1 .. Len(slice) + 1
    BY <1>3
  <2>1. \A p, q \in 1 .. Len(slice) : p <= q => slice[p].off <= slice[q].off
    BY <1>0 DEF FragInv, SliceInv
  <2>2. CASE j < k
    BY <2>0, <2>1, <2>2, <1>2, <1>4, <1>6
  <2>3. CASE j = k
    <3>1. slice'[j] = b /\ (slice'[i] = b \/ (slice'[i] = slice[i] /\ i \in 1 .. k - 1))
      BY <2>0, <2>3, <1>2, <1>4, <1>6
    <3>2. CASE slice'[i] = b
      <4>1. slice'[i].off = b.off /\ slice'[j].off = b.off
        BY <3>1, <3>2
      <4> QED BY <4>1, <1>0
    <3>3. CASE slice'[i] = slice[i] /\ i \in 1 .. k - 1
      BY <3>1, <3>3, <1>1
    <3> QED BY <3>1, <3>2, <3>3
  <2>4. CASE k < j /\ i < k
    <3>1. i <= j - 1 /\ i \in 1 .. Len(slice) /\ j - 1 \in 1 .. Len(slice) /\ ~(j < k) /\ j # k
      BY <2>0, <2>4, <1>0, <1>4
    <3>2. slice'[i] = slice[i] /\ slice'[j] = slice[j - 1]
      BY <2>0, <2>4, <3>1, <1>2
    <3> QED BY <2>1, <3>1, <3>2
  <2>5. CASE k < j /\ i = k
    <3>1. j - 1 \in k .. Len(slice) /\ ~(j < k) /\ j # k /\ ~(i < k)
      BY <2>0, <2>5, <1>0, <1>4
    <3> QED BY <2>0, <2>5, <3>1, <1>1, <1>2
  <2>6. CASE k < j /\ k < i
    <3>1. i - 1 <= j - 1 /\ ~(j < k) /\ j # k /\ ~(i < k) /\ i # k
      BY <2>0, <2>6, <1>6, <1>0
    <3> QED BY <2>0, <2>1, <2>6, <3>1, <1>2, <1>4
  <2> QED BY <2>0, <2>2, <2>3, <2>4, <2>5, <2>6, <1>1, <1>0
<1> QED BY <1>2, <1>5, <1>6 DEF SliceInv

-----------------------------------------------------------------------------
(* Fragmentation: the cuts *)

-----------------------------------------------------------------------------
(* The tiling *)

\* A call that has read nothing has tiled nothing.
LEMMA TilesNothing == Tiles({}, 0)
  BY DEF Tiles

\* A fragment that begins where the tiled part ends extends it.
LEMMA TilesMore ==
    ASSUME NEW fs \in SUBSET BundleType, NEW n \in Nat, Tiles(fs, n),
           NEW f \in BundleType, f.off = n, f.len > 0
    PROVE  Tiles(fs \cup {f}, End(f))
<1>1. \A g \in fs \cup {f} : g.off \in Nat /\ g.len \in Nat /\ End(g) \in Nat
                             /\ End(g) = g.off + g.len
  BY BundleNumbers
<1>2. \A g \in fs : g.len > 0 /\ End(g) <= n
  BY DEF Tiles
<1>3. \A g \in fs \cup {f} : g.len > 0 /\ End(g) <= End(f)
  BY <1>1, <1>2
<1>4. \A g, h \in fs \cup {f} : g = h \/ End(g) <= h.off \/ End(h) <= g.off
  BY <1>2 DEF Tiles
<1>5. \A g \in fs \cup {f} : g.off = 0 \/ \E h \in fs \cup {f} : End(h) = g.off
  <2>1. n = 0 \/ \E h \in fs : End(h) = n
    BY DEF Tiles
  <2> QED BY <2>1 DEF Tiles
<1>6. End(f) > 0 => \E g \in fs \cup {f} : End(g) = End(f)
  OBVIOUS
<1> QED BY <1>3, <1>4, <1>5, <1>6 DEF Tiles

-----------------------------------------------------------------------------
(* The inductive invariant *)

\* The bundle of the application is a bundle.
LEMMA OriginalIsBundle == Original \in BundleType
  BY FragmentationAssumption DEF Original, BundleType

\* It has all of its payload.
LEMMA OriginalInv == cuts \in Nat => BundleInv(Original)
  BY FragmentationAssumption DEF Original, BundleInv

\* What is true of a bundle stays true.
LEMMA BundleInvKept ==
    ASSUME NEW b \in BundleType, BundleInv(b), cuts \in Nat, cuts' \in Nat, cuts <= cuts'
    PROVE  BundleInv(b)'
<1>1. b.cut \in Nat
  BY BundleNumbers
<1>2. b.cut <= cuts => b.cut <= cuts'
  BY <1>1
<1> QED BY <1>2 DEF BundleInv

\* FragInv holds initially.
LEMMA FragInvInit == FragInit => FragInv
<1> SUFFICES ASSUME FragInit PROVE FragInv
  OBVIOUS
<1>1. FragTypeOK
  <2>1. Cardinality({}) = 0
    BY FS_EmptySet
  <2> QED BY <2>1, FragmentationAssumption DEF FragInit, FragTypeOK
<1>2. SliceInv
  BY DEF FragInit, SliceInv
<1> QED BY <1>1, <1>2 DEF FragInit, FragInv

\* One call runs at a time.
LEMMA OneJob == ASSUME NEW j PROVE Cardinality({j}) <= 1
<1>1. Cardinality({j}) = 1
  BY FS_Singleton
<1> QED BY <1>1

\* What a call is given.
LEMMA SourceFacts ==
    ASSUME FragInv, NEW src \in {Original} \cup out
    PROVE  src \in BundleType /\ BundleInv(src)
  BY OriginalIsBundle, OriginalInv DEF FragInv, FragTypeOK

\* Fragment starts a cut with nothing cut off yet.
LEMMA FragmentNext ==
    ASSUME FragInv, NEW src \in {Original} \cup out, NEW mtu \in MTUs, Fragment(src, mtu)
    PROVE  FragInv'
<1> DEFINE j == [src |-> src, mtu |-> mtu, i |-> 0, bs |-> {}]
<1>1. /\ job' = {j} /\ cuts' = cuts + 1 /\ out' = out /\ slice' = slice
      /\ cuts \in Nat /\ cuts < MaxCuts
  BY FragmentationAssumption DEF Fragment, FragInv, FragTypeOK
<1>2. src \in BundleType /\ BundleInv(src) /\ \A b \in out : b \in BundleType
  BY SourceFacts DEF FragInv, FragTypeOK
<1>3. FragTypeOK'
  <2>1. j \in [src : BundleType, mtu : MTUs, i : Nat, bs : SUBSET BundleType]
    BY <1>2
  <2> HIDE DEF j
  <2>2. cuts' \in 0 .. MaxCuts
    BY <1>1, FragmentationAssumption
  <2> QED BY <1>1, <2>1, <2>2, OneJob DEF FragInv, FragTypeOK
<1>4. JobInv(j)'
  <2>1. j.src = src /\ j.i = 0 /\ j.bs = {}
    OBVIOUS
  <2> HIDE DEF j
  <2>2. ASSUME NEW b \in {src} \cup out PROVE b.cut < cuts'
    <3>1. b.cut \in Nat /\ b.cut <= cuts
      BY <1>2, BundleNumbers DEF FragInv, BundleInv
    <3> QED BY <3>1, <1>1
  <2>3. (IF 0 < src.len THEN 0 ELSE src.len) = 0
    BY <1>2, BundleNumbers
  <2> QED BY <1>1, <2>1, <2>2, <2>3, TilesNothing DEF JobInv
<1>5. \A b \in out' : BundleInv(b)' /\ CutInv(b)'
  <2>1. ASSUME NEW b \in out PROVE BundleInv(b)'
    <3>1. BundleInv(b) /\ b \in BundleType /\ cuts' \in Nat /\ cuts <= cuts'
      BY <1>1, <1>2 DEF FragInv
    <3> QED BY <3>1, <1>1, BundleInvKept
  <2>2. ASSUME NEW b \in out PROVE CutInv(b)'
    BY <1>1 DEF FragInv, CutInv
  <2> QED BY <2>1, <2>2, <1>1
<1>6. SliceInv'
  BY <1>1 DEF FragInv, SliceInv
<1> HIDE DEF j
<1>7. \A l \in job' : JobInv(l)'
  BY <1>1, <1>4
<1> QED BY <1>3, <1>5, <1>6, <1>7 DEF FragInv

\* The parts of the invariant that a step leaves alone if it changes job only.
LEMMA FragInvJob ==
    ASSUME FragInv, UNCHANGED <<cuts, out, slice>>
    PROVE  /\ \A b \in out' : BundleInv(b)' /\ CutInv(b)'
           /\ SliceInv' /\ cuts' \in 0 .. MaxCuts
           /\ out' \subseteq BundleType /\ slice' \in Seq(BundleType)
  BY DEF FragInv, FragTypeOK, SliceInv, BundleInv, CutInv

\* CutFragment takes the next slice off, right after those before.
LEMMA CutFragmentNext ==
    ASSUME FragInv, NEW j \in job, CutFragment(j)
    PROVE  FragInv'
<1>0. PICK c : c = cuts
  OBVIOUS
<1> DEFINE src == j.src
           size == j.mtu - overhead(j)
           end == IF j.i + size < j.src.len THEN j.i + size ELSE j.src.len
           frag == [start |-> j.src.start + j.i, off |-> j.i, len |-> end - j.i,
                    total |-> j.src.len, fragment |-> TRUE, blocks |-> Carried(j),
                    hop |-> j.src.hop + 1, cut |-> c]
           n == [src |-> j.src, mtu |-> j.mtu, i |-> j.i + size, bs |-> j.bs \cup {frag}]
<1>1. /\ j.i < src.len /\ overhead(j) < j.mtu /\ job' = {n}
      /\ cuts' = cuts /\ out' = out /\ slice' = slice
  BY <1>0 DEF CutFragment
<1>2. /\ j \in [src : BundleType, mtu : MTUs, i : Nat, bs : SUBSET BundleType]
      /\ cuts \in Nat /\ cuts <= MaxCuts /\ JobInv(j)
  BY FragmentationAssumption DEF FragInv, FragTypeOK
<1>3. src \in BundleType /\ BundleInv(src) /\ j.i \in Nat /\ j.bs \subseteq BundleType
      /\ src.start \in Nat /\ src.len \in Nat /\ src.hop \in Nat /\ src.cut \in Nat
      /\ src.start + src.len <= Length /\ src.hop <= src.cut /\ src.cut < cuts
      /\ src.len <= Length /\ src.blocks \subseteq Extensions
  <2>1. src \in BundleType /\ BundleInv(src)
    BY <1>2, SourceFacts DEF JobInv
  <2>2. src.start \in Nat /\ src.len \in Nat /\ src.hop \in Nat /\ src.cut \in Nat
    BY <2>1, BundleNumbers
  <2>3. src.len <= Length /\ src.blocks \subseteq Extensions
    BY <2>1, FragmentationAssumption DEF BundleType
  <2>4. src.start + src.len <= Length /\ src.hop <= src.cut
    BY <2>1 DEF BundleInv
  <2>5. src.cut < cuts
    BY <1>2 DEF JobInv
  <2> QED BY <1>2, <2>1, <2>2, <2>3, <2>4, <2>5
<1>4. size \in Nat /\ size > 0
  <2>1. Carried(j) \in SUBSET Extensions
    BY <1>3, FragmentationAssumption DEF Carried
  <2>2. PrimaryLen[<<j.i, j.src.len>>] \in Nat
    <3>1. <<j.i, src.len>> \in (0 .. Length) \X (0 .. Length)
      BY <1>1, <1>3, FragmentationAssumption
    <3> QED BY <3>1, FragmentationAssumption
  <2>3. BlocksLen[Carried(j)] \in Nat /\ PayloadLen[j.mtu] \in Nat /\ j.mtu \in Nat
    BY <2>1, <1>2, FragmentationAssumption
  <2>4. overhead(j) \in Nat
    BY <2>2, <2>3 DEF overhead
  <2> QED BY <2>3, <2>4, <1>1
<1> HIDE DEF size
<1>5. end \in Nat /\ j.i < end /\ end <= src.len
      /\ end = IF j.i + size < src.len THEN j.i + size ELSE src.len
  BY <1>1, <1>3, <1>4
<1> HIDE DEF end
<1>6. /\ frag.start = src.start + j.i /\ frag.off = j.i /\ frag.len = end - j.i
      /\ frag.total = src.len /\ frag.fragment = TRUE /\ frag.blocks = Carried(j)
      /\ frag.hop = src.hop + 1 /\ frag.cut = cuts
  BY <1>0
<1>7. frag \in BundleType
  <2>1. Carried(j) \in SUBSET Extensions
    BY <1>3, FragmentationAssumption DEF Carried
  <2>2. src.start + j.i \in 0 .. Length /\ j.i \in 0 .. Length /\ end - j.i \in 0 .. Length
        /\ src.len \in 0 .. Length
    BY <1>1, <1>3, <1>5, FragmentationAssumption
  <2>3. src.hop + 1 \in 0 .. MaxCuts /\ cuts \in 0 .. MaxCuts
    BY <1>2, <1>3, FragmentationAssumption
  <2> QED BY <1>0, <2>1, <2>2, <2>3 DEF BundleType
<1>8. n.src = src /\ n.mtu = j.mtu /\ n.i = j.i + size /\ n.bs = j.bs \cup {frag}
      /\ n \in [src : BundleType, mtu : MTUs, i : Nat, bs : SUBSET BundleType]
  <2> HIDE DEF frag
  <2> QED BY <1>2, <1>3, <1>4, <1>7
<1> HIDE DEF frag, n
<1>9. BundleInv(frag)
  <2>1. (src.start + j.i) + (end - j.i) <= Length
    <3>1. /\ src.start \in Int /\ src.len \in Int /\ j.i \in Int /\ end \in Int /\ Length \in Int
          /\ src.start + src.len <= Length /\ end <= src.len
      BY <1>3, <1>5, FragmentationAssumption
    <3> QED BY <3>1
  <2>2. src.hop + 1 <= cuts /\ cuts <= cuts /\ src.hop + 1 > 0
    BY <1>2, <1>3
  <2>3. ASSUME src.hop + 1 = 1
        PROVE  /\ frag.start = frag.off /\ frag.total = Length
               /\ frag.off = 0 => frag.blocks = Extensions
    <3>0. src.hop = 0
      BY <2>3, <1>3
    <3>1. src = Original
      BY <3>0, <1>3 DEF BundleInv
    <3>2. src.start = 0 /\ src.len = Length /\ src.blocks = Extensions
      BY <3>1 DEF Original
    <3> QED BY <1>3, <1>6, <3>2 DEF Carried
  <2>4. frag.hop # 0
    BY <1>3, <1>6
  <2> QED BY <1>6, <2>1, <2>2, <2>3, <2>4 DEF BundleInv
<1>10. Tiles(n.bs, IF n.i < n.src.len THEN n.i ELSE n.src.len)
  <2>1. Tiles(j.bs, j.i)
    BY <1>1, <1>2 DEF JobInv
  <2>2. frag.off = j.i /\ frag.len > 0
    BY <1>3, <1>5, <1>6
  <2>3. Tiles(j.bs \cup {frag}, End(frag))
    BY <1>3, <1>7, <2>1, <2>2, TilesMore
  <2>4. End(frag) = end
    BY <1>3, <1>5, <1>6 DEF End
  <2> QED BY <1>5, <1>8, <2>3, <2>4
<1>11. JobInv(n)'
  <2>1. n.src \in {Original} \cup out /\ \A b \in {n.src} \cup out : b.cut < cuts
    BY <1>2, <1>8 DEF JobInv
  <2>2. \A f \in n.bs : BundleInv(f) /\ f.cut = cuts /\ f.hop = n.src.hop + 1
    BY <1>2, <1>6, <1>8, <1>9 DEF JobInv
  <2>3. (\A f \in n.bs : BundleInv(f))'
    BY <1>1, <2>2 DEF BundleInv
  <2> QED BY <1>1, <1>10, <2>1, <2>2, <2>3 DEF JobInv
<1>12. FragTypeOK'
  BY <1>1, <1>8, OneJob, FragInvJob DEF FragTypeOK
<1>13. \A l \in job' : JobInv(l)'
  <2>1. \A l : l \in job' => l = n
    BY <1>1
  <2> QED BY <1>11, <2>1
<1> QED BY <1>1, <1>12, <1>13, FragInvJob DEF FragInv

\* A cut that fails leaves the bundles as they are.
LEMMA CutFailsNext ==
    ASSUME FragInv, NEW j \in job, CutFails(j)
    PROVE  FragInv'
<1>1. job' = {} /\ UNCHANGED <<cuts, out, slice>>
  BY DEF CutFails
<1>2. Cardinality({}) <= 1
  BY FS_EmptySet
<1>3. FragTypeOK'
  BY <1>1, <1>2, FragInvJob DEF FragTypeOK
<1> QED BY <1>1, <1>3, FragInvJob DEF FragInv

\* The slices of a cut that is done tile the bundle it cut.
LEMMA CutReturnsNext ==
    ASSUME FragInv, NEW j \in job, CutReturns(j)
    PROVE  FragInv'
<1> DEFINE src == j.src
           new == IF Cardinality(j.bs) = 1 THEN {j.src} ELSE j.bs
<1>1. job' = {} /\ cuts' = cuts /\ slice' = slice /\ out' = out \cup new /\ j.i >= src.len
  BY DEF CutReturns
<1>2. /\ j \in [src : BundleType, mtu : MTUs, i : Nat, bs : SUBSET BundleType]
      /\ cuts \in Nat /\ cuts \in 0 .. MaxCuts /\ JobInv(j) /\ out \subseteq BundleType
      /\ slice \in Seq(BundleType)
  BY FragmentationAssumption DEF FragInv, FragTypeOK
<1>3. src \in BundleType /\ BundleInv(src) /\ src.len \in Nat /\ src.hop \in Nat
  BY <1>2, SourceFacts, BundleNumbers DEF JobInv
<1>4. new \subseteq BundleType /\ \A b \in new : BundleInv(b)
  BY <1>2, <1>3 DEF JobInv
<1>5. ASSUME NEW b \in out, b.hop = 1
      PROVE  {f \in out' : f.cut = b.cut} = {f \in out : f.cut = b.cut}
  <2>1. b.cut < cuts /\ 1 <= b.cut /\ b.cut \in Nat
    BY <1>2, <1>5, BundleNumbers DEF FragInv, JobInv, BundleInv
  <2>2. ASSUME NEW f \in new, f \notin out PROVE f.cut # b.cut
    <3>1. CASE f = src
      <4>1. f = Original
        BY <1>2, <2>2, <3>1 DEF JobInv
      <4> QED BY <4>1, <2>1 DEF Original
    <3>2. CASE f \in j.bs
      BY <1>2, <2>1, <3>2 DEF JobInv
    <3> QED BY <3>1, <3>2
  <2> HIDE DEF new
  <2> QED BY <1>1, <2>2
<1>6. ASSUME NEW b \in new, b \notin out, b.hop = 1
      PROVE  {f \in out' : f.cut = b.cut} = j.bs /\ Tiles(j.bs, Length)
             /\ \A f \in j.bs : f.hop = 1
  <2>1. new = j.bs /\ b \in j.bs
    <3> SUFFICES ASSUME b = src PROVE FALSE
      BY DEF new
    <3>1. b = Original
      BY <1>2, <1>6 DEF JobInv
    <3> QED BY <3>1, <1>6 DEF Original
  <2> HIDE DEF new
  <2>2. b.cut = cuts /\ 1 = src.hop + 1 /\ \A f \in j.bs : f.cut = cuts /\ f.hop = 1
    BY <1>2, <1>6, <2>1 DEF JobInv
  <2>3. src = Original
    BY <1>3, <2>2 DEF BundleInv
  <2>4. Tiles(j.bs, Length)
    <3>1. src.len = Length /\ ~(j.i < src.len)
      BY <1>1, <1>2, <1>3, <2>3 DEF Original
    <3> QED BY <1>2, <3>1 DEF JobInv
  <2>5. \A f \in out : f.cut # cuts
    <3>1. \A f \in out : f.cut < cuts /\ f.cut \in Nat
      BY <1>2, BundleNumbers DEF JobInv
    <3> QED BY <3>1, <1>2
  <2> QED BY <1>1, <2>1, <2>2, <2>4, <2>5
<1> HIDE DEF new
<1>7. \A b \in out' : BundleInv(b)' /\ CutInv(b)'
  <2>1. ASSUME NEW b \in out' PROVE BundleInv(b)'
    BY <1>1, <1>4 DEF FragInv, BundleInv
  <2>2. ASSUME NEW b \in out' PROVE CutInv(b)'
    <3>1. CASE b \in out
      BY <1>5, <3>1 DEF FragInv, CutInv
    <3>2. CASE b \notin out
      BY <1>1, <1>6, <3>2 DEF CutInv
    <3> QED BY <3>1, <3>2
  <2> QED BY <2>1, <2>2
<1>8. Cardinality({}) <= 1
  BY FS_EmptySet
<1>9. FragTypeOK'
  BY <1>1, <1>2, <1>4, <1>8 DEF FragTypeOK
<1>10. SliceInv'
  BY <1>1 DEF FragInv, SliceInv
<1> QED BY <1>1, <1>7, <1>9, <1>10 DEF FragInv

\* A bundle received is one that has been made.
LEMMA ReceiveNext ==
    ASSUME FragInv, NEW b \in out, Receive(b)
    PROVE  FragInv'
<1>1. cuts' = cuts /\ job' = job /\ out' = out
  BY DEF Receive
<1>2. SliceInv' /\ slice' \in Seq(BundleType)
  BY SliceNext
<1>3. FragTypeOK'
  BY <1>1, <1>2 DEF FragInv, FragTypeOK
<1>4. \A j \in job : JobInv(j)'
  BY <1>1 DEF FragInv, JobInv, BundleInv
<1>5. \A f \in out : BundleInv(f)' /\ CutInv(f)'
  BY <1>1 DEF FragInv, BundleInv, CutInv
<1> QED BY <1>1, <1>2, <1>3, <1>4, <1>5 DEF FragInv

\* No call of Fragment and no arrival breaks the invariant.
LEMMA FragInvNext == FragInv /\ [FragNext]_fragVars => FragInv'
<1> SUFFICES ASSUME FragInv, [FragNext]_fragVars PROVE FragInv'
  OBVIOUS
<1>1. ASSUME NEW src \in {Original} \cup out, NEW mtu \in MTUs, Fragment(src, mtu)
      PROVE  FragInv'
  BY <1>1, FragmentNext
<1>2. ASSUME NEW j \in job, CutFragment(j) PROVE FragInv'
  BY <1>2, CutFragmentNext
<1>3. ASSUME NEW j \in job, CutFails(j) PROVE FragInv'
  BY <1>3, CutFailsNext
<1>4. ASSUME NEW j \in job, CutReturns(j) PROVE FragInv'
  BY <1>4, CutReturnsNext
<1>5. ASSUME NEW b \in out, Receive(b) PROVE FragInv'
  BY <1>5, ReceiveNext
<1>6. CASE UNCHANGED fragVars
  BY <1>6 DEF fragVars, FragInv, FragTypeOK, JobInv, BundleInv, CutInv, SliceInv
<1> QED BY <1>1, <1>2, <1>3, <1>4, <1>5, <1>6 DEF FragNext

\* FragInv is an invariant: the fragments of every cut of Bundle.Fragment follow one
\* another without gap or overlap, whatever the payload lengths, limits and cuts.
THEOREM FragInvAlways == FragSpec => []FragInv
  BY FragInvInit, FragInvNext, PTL DEF FragSpec

-----------------------------------------------------------------------------
(* Fragmentation: the fragments of one cut, put together *)

-----------------------------------------------------------------------------
(* What the invariant says of the collected fragments *)

\* The collected fragments are bundles with numbers in them, sorted by offset.
LEMMA CollectedFacts ==
    ASSUME FragInv
    PROVE  /\ slice \in Seq(BundleType) /\ Len(slice) \in Nat /\ DOMAIN slice = 1 .. Len(slice)
           /\ \A k \in 1 .. Len(slice) :
                  /\ slice[k] \in out /\ slice[k] \in BundleType /\ BundleInv(slice[k])
                  /\ slice[k].off \in Nat /\ slice[k].len \in Nat /\ End(slice[k]) \in Nat
                  /\ End(slice[k]) = slice[k].off + slice[k].len
           /\ \A k, l \in 1 .. Len(slice) : k <= l => slice[k].off <= slice[l].off
<1>1. slice \in Seq(BundleType) /\ Len(slice) \in Nat /\ DOMAIN slice = 1 .. Len(slice)
  BY LenProperties DEF FragInv, FragTypeOK
<1>2. ASSUME NEW k \in 1 .. Len(slice)
      PROVE  slice[k] \in out /\ slice[k] \in BundleType /\ BundleInv(slice[k])
  BY <1>1 DEF FragInv, FragTypeOK, SliceInv
<1>3. \A k, l \in 1 .. Len(slice) : k <= l => slice[k].off <= slice[l].off
  BY <1>1 DEF FragInv, SliceInv
<1> QED BY <1>1, <1>2, <1>3, BundleNumbers

\* The collected fragments of one call belong to a tiling of the payload.
LEMMA OneCutTiles ==
    ASSUME FragInv, OneCut, slice # <<>>
    PROVE  LET family == {f \in out : f.cut = slice[1].cut}
           IN  /\ Tiles(family, Length)
               /\ \A k \in 1 .. Len(slice) : slice[k] \in family
               /\ 1 \in 1 .. Len(slice)
<1>1. /\ DOMAIN slice = 1 .. Len(slice) /\ 1 \in 1 .. Len(slice)
      /\ \A k \in 1 .. Len(slice) : slice[k] \in out
  <2>1. slice \in Seq(BundleType) /\ Len(slice) \in Nat
    BY CollectedFacts
  <2>2. Len(slice) # 0
    BY <2>1, EmptySeq
  <2> QED BY <2>1, <2>2, CollectedFacts
<1>2. slice[1].hop = 1 /\ \A k \in 1 .. Len(slice) : slice[k].cut = slice[1].cut
  BY <1>1 DEF OneCut, FirstHand
<1>3. CutInv(slice[1])
  BY <1>1 DEF FragInv
<1> QED BY <1>1, <1>2, <1>3 DEF CutInv

\* Two collected fragments of one call are the same or do not overlap.
LEMMA OneCutApart ==
    ASSUME FragInv, OneCut, NEW k \in 1 .. Len(slice), NEW l \in 1 .. Len(slice)
    PROVE  /\ slice[k].len > 0 /\ End(slice[k]) <= Length
           /\ \/ slice[k] = slice[l]
              \/ End(slice[k]) <= slice[l].off
              \/ End(slice[l]) <= slice[k].off
<1>1. slice # <<>>
  <2>1. Len(slice) # 0
    BY CollectedFacts
  <2> QED BY <2>1
<1>2. PICK family : Tiles(family, Length) /\ slice[k] \in family /\ slice[l] \in family
  BY <1>1, OneCutTiles
<1> QED BY <1>2 DEF Tiles

-----------------------------------------------------------------------------
(* The theorems *)

\* The fragments of one call, whatever of them got lost, came twice or overtook
\* another, never make mergeFragmentPayload slice past a fragment's end.
THEOREM OneCutNeverPanics == FragSpec => []OneCutMerges
<1>1. FragInv => OneCutMerges
  <2> SUFFICES ASSUME FragInv, OneCut, NEW k \in DOMAIN slice,
                      known(slice, k) > slice[k].len
               PROVE  FALSE
    BY DEF OneCutMerges, mergePanics
  <2>1. k \in 1 .. Len(slice) /\ Len(slice) \in Nat
    BY CollectedFacts
  <2>2. slice[k].off \in Nat /\ slice[k].len \in Nat
        /\ End(slice[k]) = slice[k].off + slice[k].len
    BY <2>1, CollectedFacts
  <2>3. CASE k = 1
    BY <2>2, <2>3 DEF known, lastIndex
  <2>4. CASE k # 1
    <3> DEFINE f == slice[k - 1]
               g == slice[k]
    <3>1. k - 1 \in 1 .. Len(slice) /\ k - 1 # 0 /\ k - 1 <= k
      BY <2>1, <2>4
    <3>2. f.off \in Nat /\ f.len \in Nat /\ End(f) = f.off + f.len /\ f.off <= g.off
      BY <2>1, <3>1, CollectedFacts
    <3>3. known(slice, k) = End(f) - g.off
      BY <3>1 DEF known, lastIndex
    <3>4. End(f) > End(g)
      BY <2>2, <3>2, <3>3
    <3>5. g.len > 0 /\ (g = f \/ End(g) <= f.off \/ End(f) <= g.off)
      BY <2>1, <3>1, OneCutApart
    <3> HIDE DEF f, g
    <3>6. g.off \in Nat /\ g.len \in Nat /\ End(g) = g.off + g.len
      BY <2>2 DEF g
    <3>7. g # f
      BY <3>4, <3>6
    <3> QED BY <3>2, <3>4, <3>5, <3>6, <3>7
  <2> QED BY <2>3, <2>4
<1> QED BY <1>1, FragInvAlways, PTL

\* What is accepted and merged, of one call or of several, is the original payload
\* and has the original's blocks.
THEOREM ReassemblyRestores == FragSpec => []ReassembledIsOriginal
<1>1. FragInv => ReassembledIsOriginal
  <2> SUFFICES ASSUME FragInv, FirstHand, prepareReassembly(slice), ~mergePanics(slice)
               PROVE  /\ mergeFragmentPayload(slice) = [i \in 1 .. Length |-> i]
                      /\ ReassembledBlocks(slice) = Extensions
    BY DEF ReassembledIsOriginal
  <2>1. /\ slice \in Seq(BundleType) /\ Len(slice) \in Nat /\ DOMAIN slice = 1 .. Len(slice)
        /\ slice # <<>> /\ 1 \in 1 .. Len(slice)
    <3>1. slice \in Seq(BundleType) /\ Len(slice) \in Nat /\ DOMAIN slice = 1 .. Len(slice)
      BY CollectedFacts
    <3>2. slice # <<>>
      BY DEF prepareReassembly
    <3> QED BY <3>1, <3>2, EmptySeq
  <2>2. \A k \in DOMAIN slice :
            /\ slice[k].start = slice[k].off /\ slice[k].total = Length
            /\ slice[k].off = 0 => slice[k].blocks = Extensions
    <3>1. ASSUME NEW k \in DOMAIN slice PROVE BundleInv(slice[k]) /\ slice[k].hop = 1
      BY <2>1, CollectedFacts DEF FirstHand
    <3> QED BY <3>1 DEF BundleInv
  <2>3. \A k \in DOMAIN slice : slice[k].off <= lastIndex(slice, k - 1)
    BY DEF prepareReassembly
  <2>4. mergeFragmentPayload(slice) = [i \in 1 .. lastIndex(slice, Len(slice)) |-> i]
    BY <2>1, <2>2, <2>3, MergeIsPrefix
  <2>5. lastIndex(slice, Len(slice)) = Length
    BY <2>1, <2>2 DEF prepareReassembly
  <2>6. slice[1].off = 0
    <3>1. slice[1].off <= 0
      BY <2>1, <2>3 DEF lastIndex
    <3>2. slice[1].off \in Nat
      BY <2>1, CollectedFacts
    <3> QED BY <3>1, <3>2
  <2> QED BY <2>1, <2>2, <2>4, <2>5, <2>6 DEF ReassembledBlocks
<1> QED BY <1>1, FragInvAlways, PTL

\* All fragments of one call, in whatever order and however often they came, pass
\* the checks of prepareReassembly.
THEOREM CompleteCutAccepted == FragSpec => []CompleteIsAccepted
<1>1. FragInv => CompleteIsAccepted
  <2> SUFFICES ASSUME FragInv, OneCut, slice # <<>>,
                      {b \in out : b.cut = slice[1].cut} \subseteq ToSet(slice)
               PROVE  prepareReassembly(slice)
    BY DEF CompleteIsAccepted
  <2> DEFINE n == Len(slice)
             family == {f \in out : f.cut = slice[1].cut}
  <2>1. n \in Nat /\ DOMAIN slice = 1 .. n /\ 1 \in 1 .. n /\ n \in 1 .. n
    <3>1. n \in Nat /\ DOMAIN slice = 1 .. n /\ 1 \in 1 .. n
      BY CollectedFacts, OneCutTiles
    <3> QED BY <3>1
  <2>2. Tiles(family, Length) /\ \A k \in 1 .. n : slice[k] \in family
    BY OneCutTiles
  <2>3. \A g \in family : \E l \in 1 .. n : slice[l] = g
    BY <2>1 DEF ToSet
  <2> HIDE DEF family
  <2>4. ASSUME NEW k \in 1 .. n
        PROVE  /\ slice[k].off \in Nat /\ slice[k].len \in Nat /\ slice[k].len > 0
               /\ End(slice[k]) = slice[k].off + slice[k].len /\ End(slice[k]) <= Length
               /\ End(slice[k]) \in Nat
    BY CollectedFacts, OneCutApart
  <2>5. \A k, l \in 1 .. n : k <= l => slice[k].off <= slice[l].off
    BY CollectedFacts
  <2>6. ASSUME NEW k \in 1 .. n PROVE slice[k].fragment /\ slice[k].total = Length
    <3>1. BundleInv(slice[k]) /\ slice[k].hop = 1
      BY <2>1, CollectedFacts DEF OneCut, FirstHand
    <3> QED BY <3>1 DEF BundleInv
  <2>7. ASSUME NEW k \in 1 .. n, slice[k].off # 0
        PROVE  slice[k].off <= lastIndex(slice, k - 1)
    <3>1. PICK l \in 1 .. n : End(slice[l]) = slice[k].off
      <4>1. PICK g \in family : End(g) = slice[k].off
        BY <2>2, <2>7 DEF Tiles
      <4> QED BY <4>1, <2>3
    <3>2. slice[l].off < slice[k].off
      BY <2>4, <3>1
    <3>3. l < k
      <4>1. ~(slice[k].off <= slice[l].off)
        BY <2>4, <3>2
      <4>2. ~(k <= l)
        BY <2>5, <4>1
      <4> QED BY <4>2
    <3>4. k - 1 \in 1 .. n /\ k - 1 # 0 /\ l <= k - 1
      BY <2>1, <3>3
    <3> DEFINE f == slice[k - 1]
               g == slice[l]
    <3>5. f = g \/ End(f) <= g.off \/ End(g) <= f.off
      BY <3>4, OneCutApart
    <3>6. /\ f.off \in Nat /\ f.len \in Nat /\ f.len > 0 /\ End(f) = f.off + f.len
          /\ g.off \in Nat /\ g.off <= f.off /\ End(g) = slice[k].off /\ slice[k].off \in Nat
      BY <2>4, <2>5, <3>1, <3>4
    <3>7. lastIndex(slice, k - 1) = End(f)
      BY <3>4 DEF lastIndex
    <3> HIDE DEF f, g
    <3>8. slice[k].off <= End(f)
      <4>1. CASE f = g
        BY <4>1, <3>6
      <4>2. CASE End(f) <= g.off
        BY <4>2, <3>6
      <4>3. CASE End(g) <= f.off
        BY <4>3, <3>6
      <4> QED BY <3>5, <4>1, <4>2, <4>3
    <3> QED BY <3>7, <3>8
  <2>8. ASSUME NEW k \in 1 .. n, slice[k].off = 0
        PROVE  slice[k].off <= lastIndex(slice, k - 1)
    <3>1. k - 1 = 0 \/ k - 1 \in 1 .. n
      BY <2>1
    <3>2. CASE k - 1 = 0
      BY <2>8, <3>2 DEF lastIndex
    <3>3. CASE k - 1 \in 1 .. n
      <4>1. End(slice[k - 1]) \in Nat /\ k - 1 # 0
        BY <2>4, <3>3
      <4> QED BY <2>8, <4>1 DEF lastIndex
    <3> QED BY <3>1, <3>2, <3>3
  <2>9. lastIndex(slice, n) = Length
    <3>1. Length > 0 /\ Length \in Nat
      <4>1. End(slice[1]) > 0 /\ End(slice[1]) <= Length /\ End(slice[1]) \in Nat
        BY <2>1, <2>4
      <4> QED BY <4>1, FragmentationAssumption
    <3>2. PICK l \in 1 .. n : End(slice[l]) = Length
      <4>1. PICK g \in family : End(g) = Length
        BY <2>2, <3>1 DEF Tiles
      <4> QED BY <4>1, <2>3
    <3> DEFINE f == slice[n]
               g == slice[l]
    <3>3. f = g \/ End(f) <= g.off \/ End(g) <= f.off
      BY <2>1, OneCutApart
    <3>4. /\ f.off \in Nat /\ f.len \in Nat /\ f.len > 0 /\ End(f) = f.off + f.len
          /\ End(f) <= Length /\ g.off \in Nat /\ g.off <= f.off /\ End(g) = Length
      <4>1. l <= n
        BY <2>1
      <4> QED BY <2>1, <2>4, <2>5, <3>2, <4>1
    <3>5. lastIndex(slice, n) = End(f)
      BY <2>1 DEF lastIndex
    <3> HIDE DEF f, g
    <3>6. End(f) = Length
      <4>1. CASE f = g
        BY <4>1, <3>4
      <4>2. CASE End(f) <= g.off
        BY <4>2, <3>4
      <4>3. CASE End(g) <= f.off
        BY <4>3, <3>1, <3>4
      <4> QED BY <3>3, <4>1, <4>2, <4>3
    <3> QED BY <3>5, <3>6
  <2>10. \A k \in 1 .. n : slice[k].off <= lastIndex(slice, k - 1)
    BY <2>7, <2>8
  <2> QED BY <2>1, <2>6, <2>9, <2>10 DEF prepareReassembly
<1> QED BY <1>1, FragInvAlways, PTL
=================================================================================
