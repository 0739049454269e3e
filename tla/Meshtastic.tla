------------------------------- MODULE Meshtastic -------------------------------
(***************************************************************************)
(* The Meshtastic convergence layer, pkg/cla/meshtastic: MeshtasticClients  *)
(* cut bundles into chunks that fit a LoRa packet, and the MeshtasticServer *)
(* of one node in their range puts them together again.                     *)
(*                                                                          *)
(* The bridge broadcasts every packet, so the server hears all clients.     *)
(* Packets are lost, duplicated and overtake each other.  A message is the  *)
(* CBOR encoding of a bundle as one node sends it; the chunks of a message  *)
(* have a header of which the index and the total are one byte wide and the *)
(* bundle ID is a part of the creation timestamp only.  Packets that no     *)
(* MeshtasticClient has written are not modelled.                           *)
(***************************************************************************)
EXTENDS Naturals, FiniteSets

CONSTANTS
    Messages,   \* the encodings that are ever sent
    Client,     \* Client[m]: the client whose Send gets m
    BundleID,   \* BundleID[m]: the lower 32 bits of its creation time
    Chunks,     \* Chunks[m]: how many pieces of maxPayloadBytes it makes
    Width,      \* the number of values of a byte, 256
    MaxSends,   \* bound: Send calls
    MaxCopies,  \* bound: packets the channel duplicates
    Splice      \* what a mixture of several messages decodes to, if it does

ASSUME MeshAssumption ==
    /\ Chunks \in [Messages -> Nat \ {0}]
    /\ Width \in Nat \ {0}
    /\ MaxSends \in Nat /\ MaxCopies \in Nat
    /\ Splice \notin Messages

IDs == {BundleID[m] : m \in Messages}

VARIABLES
    sending,    \* the Sends that hold their client's mutex: the message and
                \* the position of the next chunk
    sends,      \* Send calls so far
    sent,       \* the messages for which a Send has returned nil
    air,        \* the packets under way
    copies,     \* packets the channel has duplicated
    transport,  \* whether the receiving node's transport is open; its server
                \* and its client share it
    server,     \* "new", "running", "closed"; "panic": stopCh was closed twice
    packet,     \* the packet receiveLoop has read and not stored yet, if any
    reassembly, \* the buffers by bundle ID; `stale` once lastSeen is more than
                \* 60 seconds ago
    delivered,  \* what receiveCallback was called with
    expired,    \* the messages that had exceeded their lifetime when decoded
    \* What the properties need to know of the past
    arrived,    \* the chunks receiveLoop has stored
    lost,       \* the messages of which a packet was lost
    discarded,  \* the IDs of which the timeout cleaner has discarded a buffer
    tardy       \* those of them of which more chunks were on their way

clientVars == <<sending, sends, sent>>
channelVars == <<air, copies, lost>>
serverVars == <<transport, server, packet, reassembly, delivered, arrived,
                discarded, tardy>>
meshVars == <<clientVars, channelVars, serverVars, expired>>

\* A chunk is given by its message and its position there.
Positions(m) == 0 .. Chunks[m] - 1
Pieces == UNION {{m} \X Positions(m) : m \in Messages}

\* Faulty Packet: the ID is a coarser part of the timestamp.
PacketCoarseID(m, i) ==
    [bundleID    |-> BundleID[m] \div 4,
     chunkIdx    |-> i % Width,
     totalChunks |-> Chunks[m] % Width,
     payload     |-> <<m, i>>]

\* The packet of a chunk; uint8(i) and uint8(totalChunks) keep one byte.
Packet(m, i) ==
    [bundleID    |-> BundleID[m],
     chunkIdx    |-> i % Width,
     totalChunks |-> Chunks[m] % Width,
     payload     |-> <<m, i>>]

Packets == {Packet(x[1], x[2]) : x \in Pieces}

\* A reassemblyBuffer; chunks is a map from one byte.
Maps == UNION {[S -> Pieces] : S \in SUBSET (0 .. Width - 1)}
Buffers == [chunks : Maps, totalChunks : 0 .. Width - 1, stale : BOOLEAN]

MeshTypeOK ==
    /\ sending \subseteq [message : Messages, next : Nat]
    /\ \A x \in sending : x.next \in Positions(x.message)
    /\ \A x, y \in sending : Client[x.message] = Client[y.message] => x = y
    /\ sends \in 0 .. MaxSends
    /\ sent \subseteq Messages
    /\ air \subseteq Packets
    /\ copies \in 0 .. MaxCopies
    /\ transport \in BOOLEAN
    /\ server \in {"new", "running", "closed", "panic"}
    /\ packet \subseteq Packets
    /\ \A p, q \in packet : p = q
    /\ DOMAIN reassembly \subseteq IDs
    /\ \A id \in DOMAIN reassembly : reassembly[id] \in Buffers
    /\ delivered \subseteq Messages \cup {Splice}
    /\ expired \subseteq Messages
    /\ arrived \subseteq Pieces
    /\ lost \subseteq Messages
    /\ discarded \subseteq IDs
    /\ tardy \subseteq discarded

\* After NewMeshtasticServer, with the transport of main.
MeshInit ==
    /\ sending = {} /\ sends = 0 /\ sent = {}
    /\ air = {} /\ copies = 0 /\ lost = {}
    /\ transport = TRUE /\ server = "new" /\ packet = {}
    /\ reassembly = [id \in {} |-> {}]
    /\ delivered = {} /\ arrived = {} /\ discarded = {} /\ tardy = {}
    /\ expired = {}

\* The process of the receiving node has not ended by a panic.
Alive == server # "panic"

-----------------------------------------------------------------------------
(* The clients *)

\* Send up to the acquisition of the mutex: the bundle is marshalled and cut.
Send(m) ==
    /\ sends < MaxSends
    /\ \A x \in sending : Client[x.message] # Client[m]
    /\ sending' = sending \cup {[message |-> m, next |-> 0]}
    /\ sends' = sends + 1
    /\ UNCHANGED <<sent, channelVars, serverVars, expired>>

\* Faulty SendChunk: the loop leaves out the last chunk.
SendChunkShort(x) ==
    /\ air' = air \cup {Packet(x.message, x.next)}
    /\ IF x.next + 2 < Chunks[x.message]
       THEN /\ sending' = (sending \ {x}) \cup {[x EXCEPT !.next = @ + 1]}
            /\ UNCHANGED sent
       ELSE /\ sending' = sending \ {x}
            /\ sent' = sent \cup {x.message}
    /\ UNCHANGED <<sends, copies, lost, serverVars, expired>>

\* SendPacket writes the next chunk; after the last one Send returns nil.
SendChunk(x) ==
    /\ air' = air \cup {Packet(x.message, x.next)}
    /\ IF x.next + 1 < Chunks[x.message]
       THEN /\ sending' = (sending \ {x}) \cup {[x EXCEPT !.next = @ + 1]}
            /\ UNCHANGED sent
       ELSE /\ sending' = sending \ {x}
            /\ sent' = sent \cup {x.message}
    /\ UNCHANGED <<sends, copies, lost, serverVars, expired>>

\* SendPacket fails: its transport is closed or the write is refused.
SendFails(x) ==
    /\ sending' = sending \ {x}
    /\ UNCHANGED <<sends, sent, channelVars, serverVars, expired>>

-----------------------------------------------------------------------------
(* The radio, the bridge and the sockets in between *)

Lose(p) ==
    /\ air' = air \ {p}
    /\ lost' = lost \cup {p.payload[1]}
    /\ UNCHANGED <<copies, clientVars, serverVars, expired>>

-----------------------------------------------------------------------------
(* The server *)

Start ==
    /\ server = "new"
    /\ server' = "running"
    /\ UNCHANGED <<clientVars, channelVars, transport, packet, reassembly,
                   delivered, arrived, discarded, tardy, expired>>

\* receiveLoop finds stopCh open and ReceivePacket returns p, which the channel
\* may deliver again.
ReceivePacket(p) ==
    /\ server = "running" /\ transport /\ packet = {}
    /\ packet' = {p}
    /\ \/ air' = air \ {p} /\ UNCHANGED copies
       \/ copies < MaxCopies /\ copies' = copies + 1 /\ UNCHANGED air
    /\ UNCHANGED <<lost, clientVars, transport, server, reassembly, delivered,
                   arrived, discarded, tardy, expired>>

\* The buffer p is stored in: that of its bundle, or a new one.
Buffer(p) ==
    IF p.bundleID \in DOMAIN reassembly THEN reassembly[p.bundleID]
    ELSE [chunks |-> [i \in {} |-> p.payload], totalChunks |-> p.totalChunks,
          stale |-> FALSE]

\* The buffer with p in it.
Stored(p) ==
    LET old == Buffer(p).chunks
    IN [chunks      |-> [i \in DOMAIN old \cup {p.chunkIdx} |->
                            IF i = p.chunkIdx THEN p.payload ELSE old[i]],
        totalChunks |-> Buffer(p).totalChunks,
        stale       |-> FALSE]

\* Faulty Complete: the last index has been seen, which is not the last to arrive.
CompleteAtLastIndex(rb) ==
    \E i \in DOMAIN rb.chunks : (i + 1) % Width = rb.totalChunks

\* uint8(len(rb.chunks)) == rb.totalChunks
Complete(rb) == Cardinality(DOMAIN rb.chunks) % Width = rb.totalChunks

\* The first chunks of the buffer are those of m.  A decoder stops at the end of
\* the bundle's outer array, what follows does not matter.
Whole(rb, m) ==
    /\ Chunks[m] <= rb.totalChunks
    /\ \A i \in Positions(m) : i \in DOMAIN rb.chunks /\ rb.chunks[i] = <<m, i>>

\* UnmarshalCbor and, unless it fails, receiveCallback.  A bundle fails if it has
\* exceeded its lifetime.  Blocks carry their own checksums: a mixture fails unless
\* the seam is the end of a block.
Deliver(rb) ==
    LET used == DOMAIN rb.chunks \cap (0 .. rb.totalChunks - 1)
    IN \/ \E m \in Messages :
              /\ Whole(rb, m)
              /\ \/ /\ m \notin expired
                    /\ delivered' = delivered \cup {m}
                    /\ UNCHANGED expired
                 \/ expired' = expired \cup {m} /\ UNCHANGED delivered
       \/ /\ \A m \in Messages : ~Whole(rb, m)
          /\ UNCHANGED expired
          /\ \/ UNCHANGED delivered
             \/ /\ \E i, j \in used : rb.chunks[i][1] # rb.chunks[j][1]
                /\ delivered' = delivered \cup {Splice}

\* receiveLoop from the parsing of the header on.
Reassemble(p) ==
    LET rb == Stored(p)
        id == p.bundleID
    IN /\ Alive
       /\ packet' = {}
       /\ arrived' = arrived \cup {p.payload}
       /\ IF Complete(rb)
          THEN /\ reassembly' = [k \in DOMAIN reassembly \ {id} |-> reassembly[k]]
               /\ Deliver(rb)
          ELSE /\ reassembly' = [k \in DOMAIN reassembly \cup {id} |->
                                    IF k = id THEN rb ELSE reassembly[k]]
               /\ UNCHANGED <<delivered, expired>>
       /\ UNCHANGED <<clientVars, channelVars, transport, server, discarded, tardy>>

\* No chunk of the bundle has arrived for 60 seconds.
Age(id) ==
    /\ Alive /\ ~reassembly[id].stale
    /\ reassembly' = [reassembly EXCEPT ![id].stale = TRUE]
    /\ UNCHANGED <<clientVars, channelVars, transport, server, packet, delivered,
                   arrived, discarded, tardy, expired>>

\* Faulty Stale: only buffers that wait for chunks by their count are looked at.
StaleByCount ==
    {id \in DOMAIN reassembly :
        /\ reassembly[id].stale
        /\ Cardinality(DOMAIN reassembly[id].chunks) < reassembly[id].totalChunks}

Stale == {id \in DOMAIN reassembly : reassembly[id].stale}

\* The IDs of the chunks that are still to be stored.
OnTheWay ==
    {BundleID[x.message] : x \in sending} \cup {p.bundleID : p \in air \cup packet}

\* The timeout cleaner of Start; a tick may still run when stopCh is closed.
Tick ==
    /\ server \in {"running", "closed"}
    /\ Stale # {}
    /\ reassembly' = [k \in DOMAIN reassembly \ Stale |-> reassembly[k]]
    /\ discarded' = discarded \cup Stale
    /\ tardy' = tardy \cup (Stale \cap OnTheWay)
    /\ UNCHANGED <<clientVars, channelVars, transport, server, packet, delivered,
                   arrived, expired>>

\* Close, by the shutdown of the manager, which has a server in two lists.
Close ==
    /\ Alive /\ server # "new"
    /\ server' = IF server = "closed" THEN "panic" ELSE "closed"
    /\ transport' = IF server = "closed" THEN transport ELSE FALSE
    /\ UNCHANGED <<clientVars, channelVars, packet, reassembly, delivered,
                   arrived, discarded, tardy, expired>>

\* Close of the receiving node's own client takes the transport from the server;
\* receiveLoop goes on with errors from ReceivePacket until stopCh is closed.
CloseClient ==
    /\ Alive /\ transport
    /\ transport' = FALSE
    /\ UNCHANGED <<clientVars, channelVars, server, packet, reassembly,
                   delivered, arrived, discarded, tardy, expired>>

MeshNext ==
    \/ \E m \in Messages : Send(m)
    \/ \E x \in sending : SendChunk(x) \/ SendFails(x)
    \/ \E p \in air : Lose(p) \/ ReceivePacket(p)
    \/ \E p \in packet : Reassemble(p)
    \/ \E id \in DOMAIN reassembly : Age(id)
    \/ Start \/ Tick \/ Close \/ CloseClient

MeshSpec == MeshInit /\ [][MeshNext]_meshVars

\* The goroutines of a started server run, the cleaner's ticker and the clock go
\* on, a packet that is not lost is read, and a Send that holds the mutex comes to
\* an end.
MeshFairness ==
    /\ WF_meshVars(Start)
    /\ WF_meshVars(\E x \in sending : SendChunk(x) \/ SendFails(x))
    /\ WF_meshVars(\E p \in air : ReceivePacket(p))
    /\ WF_meshVars(\E p \in packet : Reassemble(p))
    /\ WF_meshVars(\E id \in DOMAIN reassembly : Age(id))
    /\ WF_meshVars(server = "running" /\ Tick)

FairMeshSpec == MeshSpec /\ MeshFairness

-----------------------------------------------------------------------------
(* Properties *)

\* No other message has the bundle ID of m, and its chunks can be counted.
Unambiguous(m) == \A n \in Messages : BundleID[n] = BundleID[m] => n = m
Fits(m) == Chunks[m] < Width

\* receiveLoop never hands over a bundle that is made of chunks of several
\* messages, however packets of different clients interleave and are repeated,
\* unless two messages have the same bundle ID.
NeverMixed == (\A m \in Messages : Unambiguous(m)) => Splice \notin delivered

\* All chunks of m have been stored by receiveLoop and the cleaner has discarded
\* none, but m was neither handed over nor found to have exceeded its lifetime.
Missed(m) ==
    /\ {m} \X Positions(m) \subseteq arrived
    /\ BundleID[m] \notin discarded
    /\ m \notin delivered \cup expired

\* A message whose chunks have all arrived, in whatever order, how often and in the
\* course of how many Sends, is decoded, if its ID is its own and its chunks can be
\* counted in a byte.
AllArrivedIsDelivered ==
    \A m \in Messages : Unambiguous(m) /\ Fits(m) => ~Missed(m)

\* A Send that has returned nil reaches the receiver's callback if no packet of the
\* message is lost and none is so late that the cleaner does not wait for it.
SentIsDelivered ==
    \A m \in Messages : Unambiguous(m) /\ Fits(m) =>
        (m \in sent ~> \/ m \in delivered \cup expired \cup lost
                       \/ BundleID[m] \in tardy
                       \/ ~transport)

\* No chunk is kept for ever once the packets of its bundle have stopped, as they do
\* here after MaxSends and MaxCopies (each renews lastSeen): a buffer is completed or
\* the cleaner discards it, until the server is closed.
BufferIsFreed ==
    \A id \in IDs :
        id \in DOMAIN reassembly ~> \/ id \notin DOMAIN reassembly
                                    \/ server \in {"closed", "panic"}
=============================================================================
