------------------------------- MODULE Processing -------------------------------
(***************************************************************************)
(* The bundle processing pipeline of one dtn7-go node: reception            *)
(* (pkg/processing/reception.go), dispatching and forwarding                *)
(* (pkg/processing/processing.go) with epidemic routing                     *)
(* (pkg/routing/epidemic.go), running on the bundle store.                  *)
(*                                                                          *)
(* receiveAsync and forwardingAsync are goroutines: any number of them run  *)
(* at the same time, on the same descriptor too, and every call they make   *)
(* on the store is a step of its own.  DispatchPending is started by cron   *)
(* and by every new peer.                                                   *)
(*                                                                          *)
(* The convergence layers appear as the set of peers the CLA manager lists  *)
(* as senders, and a Send that succeeds or fails.                           *)
(***************************************************************************)
EXTENDS BundleStore

CONSTANTS
    MaxForwards,  \* bound: forwardingAsync goroutines per bundle
    MaxReceives   \* bound: receiveAsync goroutines per bundle

ASSUME ProcessingAssumption ==
    /\ MaxForwards \in Nat \ {0}
    /\ MaxReceives \in Nat \ {0}

Peers == Nodes \ {Self}
Forwards == Bundles \X (1 .. MaxForwards)
Receives == Bundles \X (1 .. MaxReceives)

VARIABLES
    senders,   \* the peers GetSenders returns a ConvergenceSender for
    fw,        \* forwardingAsync goroutines
    rx,        \* receiveAsync goroutines
    got,       \* history: the bundles a peer has received from this node
    source,    \* history: the peers this node has received the bundle from
    abandoned  \* history: descriptors whose ForwardPending was left behind by a
               \* forwardingAsync that could not load the bundle, and not taken
               \* away since

pipeVars == <<senders, fw, rx, got, source, abandoned>>
vars == <<storeVars, pipeVars>>

\* forwardingAsync: gen is its descriptor, peers the senders it works with,
\* sent those whose Send has returned nil, intact whether Load read a complete
\* bundle.
ForwardState ==
    [pc : {"none", "add", "drop", "senders", "filter", "load", "send"},
     gen : Gens \cup {0}, peers : SUBSET Peers, sent : SUBSET Peers,
     intact : BOOLEAN]
NoForward == [pc |-> "none", gen |-> 0, peers |-> {}, sent |-> {}, intact |-> FALSE]

\* receiveAsync: prev holds the sender's PreviousNodeBlock, gen the
\* descriptor InsertBundle returned.
ReceiveState ==
    [pc : {"none", "insert", "storing", "check"}, gen : Gens \cup {0},
     prev : PreviousNode]
NoReceive == [pc |-> "none", gen |-> 0, prev |-> {}]

PipeTypeOK ==
    /\ senders \subseteq Peers
    /\ fw \in [Forwards -> ForwardState]
    /\ rx \in [Receives -> ReceiveState]
    /\ got \in [Peers -> SUBSET Bundles]
    /\ source \in [Bundles -> SUBSET Peers]
    /\ abandoned \subseteq Refs

Init ==
    /\ StoreInit
    /\ senders = {}
    /\ fw = [f \in Forwards |-> NoForward]
    /\ rx = [x \in Receives |-> NoReceive]
    /\ got = [p \in Peers |-> {}]
    /\ source = [b \in Bundles |-> {}]
    /\ abandoned = {}

-----------------------------------------------------------------------------
(* Forwarding *)

FwRef(f) == <<f[1], fw[f].gen>>

\* The goroutine f goes on with state s.
FwGoto(f, s) == fw' = [fw EXCEPT ![f] = s]
FwAt(f, pc) == phase = "up" /\ fw[f].pc = pc
FwEnd(f) == FwGoto(f, NoForward)

\* go forwardingAsync(descriptor), in a free slot.
Idle(b) == {f \in Forwards : f[1] = b /\ fw[f].pc = "none"}
Slot(b) == CHOOSE f \in Idle(b) : TRUE
Start(g) == [NoForward EXCEPT !.pc = "add", !.gen = g]

\* A call returned BundleDeletedError; forwardingAsync gives up.
FwDeleted(f) ==
    /\ phase = "up"
    /\ fw[f].pc \in {"add", "drop"}
    /\ desc[FwRef(f)].deleted
    /\ FwEnd(f)
    /\ UNCHANGED <<storeVars, senders, rx, got, source, abandoned>>

FwAddConstraint(f) ==
    /\ FwAt(f, "add")
    /\ AddConstraint(FwRef(f), "ForwardPending")
    /\ FwGoto(f, [fw[f] EXCEPT !.pc = "drop"])
    /\ UNCHANGED <<senders, rx, got, source, abandoned>>

FwRemoveDispatchPending(f) ==
    /\ FwAt(f, "drop")
    /\ RemoveConstraint(FwRef(f), "DispatchPending")
    /\ FwGoto(f, [fw[f] EXCEPT !.pc = "senders"])
    /\ UNCHANGED <<senders, rx, got, source, abandoned>>

FwGetSenders(f) ==
    /\ FwAt(f, "senders")
    /\ FwGoto(f, [fw[f] EXCEPT !.pc = "filter", !.peers = senders])
    /\ UNCHANGED <<storeVars, senders, rx, got, source, abandoned>>

\* filterPeers: nobody for a deleted descriptor, else who is not a known holder.
filterPeers(r, peers) ==
    IF desc[r].deleted THEN {} ELSE peers \ GetKnownHolders(r)

\* SelectPeersForForwarding of epidemic routing finds someone.
FwSelectPeers(f) ==
    LET selected == filterPeers(FwRef(f), fw[f].peers)
    IN  /\ FwAt(f, "filter")
        /\ selected # {}
        /\ FwGoto(f, [fw[f] EXCEPT !.pc = "load", !.peers = selected])
        /\ UNCHANGED <<storeVars, senders, rx, got, source, abandoned>>

\* Faulty FwContraindicated: the constraints are not reset.
FwContraindicatedKeepsMark(f) ==
    /\ FwAt(f, "filter")
    /\ filterPeers(FwRef(f), fw[f].peers) = {}
    /\ FwEnd(f)
    /\ UNCHANGED <<storeVars, senders, rx, got, source, abandoned>>

\* It finds nobody: bundleContraindicated, which resets the constraints of a
\* descriptor that is not deleted.
FwContraindicated(f) ==
    /\ FwAt(f, "filter")
    /\ filterPeers(FwRef(f), fw[f].peers) = {}
    /\ IF desc[FwRef(f)].deleted THEN UNCHANGED storeVars
                                 ELSE ResetConstraints(FwRef(f))
    /\ FwEnd(f)
    /\ abandoned' = abandoned \ {FwRef(f)}
    /\ UNCHANGED <<senders, rx, got, source>>

FwLoad(f) ==
    /\ FwAt(f, "load")
    /\ LoadSucceeds(FwRef(f))
    /\ FwGoto(f, [fw[f] EXCEPT !.pc = "send", !.intact = file[f[1]] = "full"])
    /\ UNCHANGED <<storeVars, senders, rx, got, source, abandoned>>

\* Load returns an error: forwardingAsync returns at once and leaves its
\* constraint where it is.
FwLoadFails(f) ==
    /\ FwAt(f, "load")
    /\ LoadFails(FwRef(f))
    /\ FwEnd(f)
    /\ abandoned' = IF HasConstraint(FwRef(f), "ForwardPending")
                    THEN abandoned \cup {FwRef(f)} ELSE abandoned
    /\ UNCHANGED <<storeVars, senders, rx, got, source>>

\* forwardBundleToPeer, one goroutine per peer: Send returns nil ...
FwSend(f, p) ==
    /\ FwAt(f, "send")
    /\ p \in fw[f].peers /\ p \in senders
    /\ FwGoto(f, [fw[f] EXCEPT !.peers = @ \ {p}, !.sent = @ \cup {p}])
    /\ got' = IF fw[f].intact THEN [got EXCEPT ![p] = @ \cup {f[1]}] ELSE got
    /\ UNCHANGED <<storeVars, senders, rx, source, abandoned>>

\* Faulty FwSendFails: the error is not looked at.
FwSendFailsUnnoticed(f, p) ==
    /\ FwAt(f, "send")
    /\ p \in fw[f].peers
    /\ FwGoto(f, [fw[f] EXCEPT !.peers = @ \ {p}, !.sent = @ \cup {p}])
    /\ UNCHANGED <<storeVars, senders, rx, got, source, abandoned>>

\* ... or an error, ...
FwSendFails(f, p) ==
    /\ FwAt(f, "send")
    /\ p \in fw[f].peers
    /\ FwGoto(f, [fw[f] EXCEPT !.peers = @ \ {p}])
    /\ UNCHANGED <<storeVars, senders, rx, got, source, abandoned>>

\* ... and after a success the peer becomes a known holder.
FwAddKnownHolder(f, p) ==
    /\ FwAt(f, "send")
    /\ p \in fw[f].sent
    /\ IF desc[FwRef(f)].deleted THEN UNCHANGED storeVars
                                 ELSE AddKnownHolder(FwRef(f), p)
    /\ FwGoto(f, [fw[f] EXCEPT !.sent = @ \ {p}])
    /\ UNCHANGED <<senders, rx, got, source, abandoned>>

\* All of them are done: "Forward Pending" goes.
FwRemoveForwardPending(f) ==
    /\ FwAt(f, "send")
    /\ fw[f].peers = {} /\ fw[f].sent = {}
    /\ IF desc[FwRef(f)].deleted THEN UNCHANGED storeVars
                                 ELSE RemoveConstraint(FwRef(f), "ForwardPending")
    /\ FwEnd(f)
    /\ abandoned' = abandoned \ {FwRef(f)}
    /\ UNCHANGED <<senders, rx, got, source>>

\* DispatchPending, by cron or by NewPeer: one goroutine for every dispatchable
\* bundle.  GetDispatchable takes stateMutex for reading.
DispatchPending ==
    /\ phase = "up" /\ LockFree
    /\ GetDispatchable # {}
    /\ \A b \in GetDispatchable : Idle(b) # {}
    /\ fw' = [f \in Forwards |->
                 IF f[1] \in GetDispatchable /\ f = Slot(f[1])
                 THEN Start(bundles[f[1]]) ELSE fw[f]]
    /\ UNCHANGED <<storeVars, senders, rx, got, source, abandoned>>

-----------------------------------------------------------------------------
(* Reception *)

RxRef(x) == <<x[1], rx[x].gen>>
RxGoto(x, s) == rx' = [rx EXCEPT ![x] = s]
RxAt(x, pc) == phase = "up" /\ rx[x].pc = pc
RxEnd(x) == RxGoto(x, NoReceive)

\* ReceiveBundle, for a bundle that arrives from node n, or NewBundle, for one
\* created on this node (from = {}), starts receiveAsync.
ReceiveBundle(x, from) ==
    /\ phase = "up" /\ rx[x].pc = "none"
    /\ RxGoto(x, [NoReceive EXCEPT !.pc = "insert", !.prev = from])
    /\ source' = [source EXCEPT ![x[1]] = @ \cup from]
    /\ UNCHANGED <<storeVars, senders, fw, got, abandoned>>

\* InsertBundle finds the bundle; its descriptor is returned even if it is
\* deleted, unless there is a previous node to record.
RxKnownBundle(x) ==
    /\ RxAt(x, "insert")
    /\ InsertKnownBundle(x[1], rx[x].prev)
    /\ LET r == Current(x[1])
       IN  IF desc[r].deleted /\ rx[x].prev # {}
           THEN RxEnd(x)
           ELSE RxGoto(x, [rx[x] EXCEPT !.pc = "check", !.gen = r[2]])
    /\ UNCHANGED <<senders, fw, got, source, abandoned>>

RxNewBundle(x) ==
    /\ RxAt(x, "insert")
    /\ InsertNewBundle(x[1], rx[x].prev)
    /\ RxGoto(x, [rx[x] EXCEPT !.pc = "storing"])
    /\ UNCHANGED <<senders, fw, got, source, abandoned>>

RxCreateFile(x) ==
    /\ rx[x].pc = "storing"
    /\ CreateFile(x[1])
    /\ UNCHANGED pipeVars

RxWriteFile(x) ==
    /\ rx[x].pc = "storing"
    /\ WriteFile(x[1])
    /\ RxGoto(x, [rx[x] EXCEPT !.pc = "check", !.gen = alloc'[x[1]]])
    /\ UNCHANGED <<senders, fw, got, source, abandoned>>

\* InsertBundle fails: the error is logged and the bundle is lost.
RxInsertFails(x) ==
    /\ \/ RxAt(x, "insert") /\ InsertNewBundleFails(x[1])
       \/ rx[x].pc = "storing" /\ (CreateFileFails(x[1]) \/ WriteFileFails(x[1]))
    /\ RxEnd(x)
    /\ UNCHANGED <<senders, fw, got, source, abandoned>>

\* Delivery to the application agents and the routing algorithm's Notify leave
\* store and pipeline alone; then the bundle is forwarded if its dispatch is
\* pending.
RxDispatch(x) ==
    /\ RxAt(x, "check")
    /\ HasConstraint(RxRef(x), "DispatchPending")
    /\ Idle(x[1]) # {}
    /\ FwGoto(Slot(x[1]), Start(rx[x].gen))
    /\ RxEnd(x)
    /\ UNCHANGED <<storeVars, senders, got, source, abandoned>>

RxDone(x) ==
    /\ RxAt(x, "check")
    /\ ~HasConstraint(RxRef(x), "DispatchPending")
    /\ RxEnd(x)
    /\ UNCHANGED <<storeVars, senders, fw, got, source, abandoned>>

-----------------------------------------------------------------------------
(* The environment *)

Connect(p) ==
    /\ p \notin senders
    /\ senders' = senders \cup {p}
    /\ UNCHANGED <<storeVars, fw, rx, got, source, abandoned>>

Disconnect(p) ==
    /\ p \in senders
    /\ senders' = senders \ {p}
    /\ UNCHANGED <<storeVars, fw, rx, got, source, abandoned>>

\* The store's own goroutines, and the clock.
StoreStep ==
    /\ \/ GarbageCollect
       \/ \E b \in Bundles : Collection(b) \/ Deletion(b) \/ Expire(b)
       \/ InitialiseStore \/ ShutdownStore
    /\ UNCHANGED pipeVars

\* The end of the process ends every goroutine.
Crash ==
    /\ Halt
    /\ senders' = {}
    /\ fw' = [f \in Forwards |-> NoForward]
    /\ rx' = [x \in Receives |-> NoReceive]
    /\ abandoned' = {}
    /\ UNCHANGED <<got, source>>

-----------------------------------------------------------------------------
(* Specification *)

Forward(f) ==
    \/ FwDeleted(f) \/ FwAddConstraint(f) \/ FwRemoveDispatchPending(f)
    \/ FwGetSenders(f) \/ FwSelectPeers(f) \/ FwContraindicated(f)
    \/ FwLoad(f) \/ FwLoadFails(f)
    \/ \E p \in Peers : FwSend(f, p) \/ FwSendFails(f, p) \/ FwAddKnownHolder(f, p)
    \/ FwRemoveForwardPending(f)

Receive(x) ==
    \/ RxKnownBundle(x) \/ RxNewBundle(x)
    \/ RxCreateFile(x) \/ RxWriteFile(x) \/ RxInsertFails(x)
    \/ RxDispatch(x) \/ RxDone(x)

Next ==
    \/ \E f \in Forwards : Forward(f)
    \/ DispatchPending
    \/ \E x \in Receives : Receive(x)
    \/ \E x \in Receives, from \in PreviousNode : ReceiveBundle(x, from)
    \/ \E p \in Peers : Connect(p) \/ Disconnect(p)
    \/ StoreStep \/ Crash

Spec == Init /\ [][Next]_vars

\* The scheduler runs every goroutine and cron starts the two jobs for ever; a
\* goroutine that waits for stateMutex gets it.  A link that stays up does not
\* fail every Send.
Fairness ==
    /\ SF_vars(DispatchPending)
    /\ \A f \in Forwards :
           /\ WF_vars(Forward(f))
           /\ \A p \in Peers : SF_vars(FwSend(f, p)) /\ WF_vars(FwAddKnownHolder(f, p))
    /\ \A x \in Receives : SF_vars(Receive(x))
    /\ SF_vars(GarbageCollect /\ UNCHANGED pipeVars)
    /\ \A b \in Bundles :
           /\ WF_vars(Collection(b) /\ UNCHANGED pipeVars)
           /\ SF_vars(Deletion(b) /\ UNCHANGED pipeVars)

-----------------------------------------------------------------------------
(* Properties *)

\* f has announced itself with ForwardPending and has not taken it back.
Forwarding(f) == fw[f].pc \in {"drop", "senders", "filter", "load", "send"}

Live(b) == phase = "up" /\ Stored(b) /\ ~desc[Current(b)].deleted

\* A descriptor marked ForwardPending, which DispatchPending skips and the
\* garbage collector spares, has a forwarding goroutine that will take the mark
\* away.  The exception is the early return of forwardingAsync when Load fails,
\* on a file that is gone or cannot be opened: it leaves the mark, and nothing
\* but another forwarding that is under way already takes it away.
MarkHasForwarder ==
    \A b \in Bundles :
        Live(b) /\ HasConstraint(Current(b), "ForwardPending") =>
            \/ Current(b) \in abandoned
            \/ \E f \in Forwards : Forwarding(f) /\ FwRef(f) = Current(b)

HasBundle(b, p) == b \in got[p] \/ p \in source[b]

\* The known holders on record have the bundle: this node's Send to them
\* returned nil or it came from them, over restarts too.
HoldersHaveBundle ==
    \A b \in Bundles \ interrupted : db[b] # NoRecord =>
        \A p \in db[b].holders \ {Self} : HasBundle(b, p)

\* A stored bundle reaches every peer that stays connected, unless the bundle
\* is deleted, the peer is known to have it already, the process ends, or a
\* forwarding could not load the bundle and left it marked ForwardPending.
EventuallyForwarded ==
    \A b \in Bundles, p \in Peers :
        (Live(b) /\ p \in senders)
            ~> \/ b \in got[p]
               \/ p \notin senders
               \/ ~Live(b)
               \/ p \in GetKnownHolders(Current(b))
               \/ b \in interrupted
               \/ Current(b) \in abandoned

-----------------------------------------------------------------------------
(* The inductive invariant behind MarkHasForwarder *)

\* A goroutine that works on a descriptor has one.
GoroutinesHaveDescriptors ==
    /\ \A f \in Forwards : fw[f].pc # "none" => fw[f].gen # 0
    /\ \A x \in Receives : rx[x].pc = "check" => rx[x].gen # 0

PipeInv == PipeTypeOK /\ GoroutinesHaveDescriptors /\ MarkHasForwarder

-----------------------------------------------------------------------------
(* The inductive invariant behind HoldersHaveBundle, HoldersKept and         *)
(* MetadataPersisted                                                         *)

\* No goroutine refers to a descriptor that is yet to be created.
GoroutinesAreBound ==
    /\ \A f \in Forwards : fw[f].gen <= alloc[f[1]]
    /\ \A x \in Receives : rx[x].gen <= alloc[x[1]]

\* A bundle being inserted, of which there is one at a time, has its metadata on
\* record, and the holders in them are those it came from.
InsertionIsOnRecord ==
    \A b \in Bundles : step[b] \in {"create", "write"} =>
        /\ db[b] = newMeta
        /\ \A c \in Bundles \ {b} : step[c] \notin {"create", "write"}
        /\ \A p \in newMeta.holders \ {Self} : p \in source[b]

\* A live descriptor knows what is on record, and an Update that cannot fail
\* keeps the two equal.
DescriptorKnowsRecord ==
    \A b \in Bundles : Stored(b) /\ ~desc[Current(b)].deleted =>
        /\ db[b].holders \subseteq desc[Current(b)].meta.holders
        /\ "update" \notin Faults => db[b] = desc[Current(b)].meta

\* The holders a live descriptor knows have the bundle, not only those on record.
KnownHoldersHaveBundle ==
    \A b \in Bundles \ interrupted : Stored(b) /\ ~desc[Current(b)].deleted =>
        \A p \in desc[Current(b)].meta.holders \ {Self} : HasBundle(b, p)

\* Who is about to record a peer as a holder has sent it the complete bundle.
SentIsReceived ==
    \A f \in Forwards :
        /\ fw[f].pc # "send" => fw[f].sent = {}
        /\ fw[f].pc = "send" /\ ~desc[FwRef(f)].deleted /\ f[1] \notin interrupted =>
               fw[f].intact /\ \A p \in fw[f].sent : f[1] \in got[p]

PreviousNodeIsSource == \A x \in Receives : rx[x].prev \subseteq source[x[1]]

KnowledgeInv ==
    /\ GoroutinesAreBound
    /\ InsertionIsOnRecord
    /\ DescriptorKnowsRecord
    /\ HoldersHaveBundle
    /\ KnownHoldersHaveBundle
    /\ SentIsReceived
    /\ PreviousNodeIsSource
=============================================================================
