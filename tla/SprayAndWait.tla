------------------------------ MODULE SprayAndWait ------------------------------
(***************************************************************************)
(* Spray and wait routing, pkg/routing/spray_and_wait.go, in a network of  *)
(* nodes that carry one bundle, with the parts of the processing pipeline  *)
(* (pkg/processing) and of the descriptor that its copy counter needs.     *)
(*                                                                         *)
(* A node keeps the copies it may still hand out in the miscellaneous data *)
(* of its descriptor, and a binary node tells its peer's share in a        *)
(* BinarySprayBlock.  SelectPeersForForwarding reads the counter, selects  *)
(* and writes the counter in calls of their own, and forwardingAsync runs  *)
(* as often as DispatchPending and reception start it.  A bundle is in the *)
(* store before the algorithm is told about it.                            *)
(*                                                                         *)
(* The bundle does not expire here, and a node has one link to a peer.     *)
(***************************************************************************)
EXTENDS Integers, FiniteSets, FiniteSetsExt, Functions, Bags

CONSTANTS
    Nodes,
    Origin,       \* the node whose application creates the bundle
    Neighbours,   \* Neighbours[n]: the nodes n may have a link to
    Configs,      \* the configurations: a mode for every node, and router.copies
    MaxForwards   \* bound: forwardingAsync goroutines of each node

ASSUME SprayAssumption ==
    /\ IsFiniteSet(Nodes) /\ Origin \in Nodes
    /\ Neighbours \in [Nodes -> SUBSET Nodes]
    /\ Configs \subseteq [mode : [Nodes -> {"basic", "binary"}], copies : Nat \ {0}]
    /\ MaxForwards \in [Nodes -> Nat \ {0}]

VARIABLES
    conf,      \* the configuration of this network
    stored,    \* nodes that have the bundle in their store
    block,     \* the value of the BinarySprayBlock in the stored file, {} without
    copies,    \* sprayBundleCopiesKey in the miscellaneous data, {} if not set
    holders,   \* KnownHolders
    pending,   \* nodes whose descriptor has the constraint DispatchPending
    marked,    \* ... and ForwardPending
    net,       \* the transmitted bundles that are not received completely
    fw,        \* forwardingAsync goroutines
    anomalies  \* history: see FwRead and Select

sprayVars == <<conf, stored, block, copies, holders, pending, marked, net, fw, anomalies>>

Copies == conf.copies
Count == 0 .. Copies
Optional == {{}} \cup {{k} : k \in Count}
Forwards == UNION {{n} \X (1 .. MaxForwards[n]) : n \in Nodes}

\* A bundle on its way; once kept, it is in the receiver's store and receiveAsync
\* is about to notify the algorithm.  NewBundle is a bundle from the node itself.
Transfer == [from : Nodes, to : Nodes, block : Optional, kept : BOOLEAN]

\* seen: the copies read; peers: the senders still to be tried; block: what is
\* sent along; sent: peers whose Send has returned nil.
ForwardState ==
    [pc : {"none", "start", "read", "select", "load", "send", "reset"}, seen : Count,
     peers : SUBSET Nodes, block : Optional, sent : SUBSET Nodes]
ForwardAt(pc, seen, peers, b, sent) ==
    [pc |-> pc, seen |-> seen, peers |-> peers, block |-> b, sent |-> sent]
NoForward == ForwardAt("none", 0, {}, {}, {})

SprayTypeOK ==
    /\ conf \in Configs
    /\ stored \subseteq Nodes /\ pending \subseteq stored /\ marked \subseteq stored
    /\ block \in [Nodes -> Optional]
    /\ copies \in [Nodes -> Optional]
    /\ holders \in [Nodes -> SUBSET Nodes]
    /\ IsABag(net) /\ BagToSet(net) \subseteq Transfer /\ IsFiniteSet(BagToSet(net))
    /\ fw \in [Forwards -> ForwardState]
    /\ anomalies \subseteq {"default", "stale"}

\* The application's bundle has been inserted at its origin.
SprayInit ==
    /\ conf \in Configs
    /\ stored = {Origin} /\ pending = {Origin} /\ marked = {}
    /\ block = [n \in Nodes |-> {}]
    /\ copies = [n \in Nodes |-> {}]
    /\ holders = [n \in Nodes |-> IF n = Origin THEN {n} ELSE {}]
    /\ net = SetToBag({[from |-> Origin, to |-> Origin, block |-> {}, kept |-> TRUE]})
    /\ fw = [f \in Forwards |-> NoForward]
    /\ anomalies = {}

Goto(f, s) == fw' = [fw EXCEPT ![f] = s]
Idle(n) == {f \in Forwards : f[1] = n /\ fw[f].pc = "none"}
Start(n) == [fw EXCEPT ![CHOOSE f \in Idle(n) : TRUE] = [NoForward EXCEPT !.pc = "start"]]

-----------------------------------------------------------------------------
(* Reception *)

\* InsertBundle: the previous node becomes a known holder; the file of a known
\* bundle, with its block, stays as it is.
Insert(m) ==
    LET n == m.to
    IN  /\ BagIn(m, net) /\ ~m.kept
        /\ net' = (net (-) SetToBag({m})) (+) SetToBag({[m EXCEPT !.kept = TRUE]})
        /\ stored' = stored \cup {n}
        /\ holders' = [holders EXCEPT ![n] = @ \cup {n, m.from}]
        /\ block' = IF n \in stored THEN block ELSE [block EXCEPT ![n] = m.block]
        /\ pending' = IF n \in stored THEN pending ELSE pending \cup {n}
        /\ UNCHANGED <<conf, copies, marked, fw, anomalies>>

\* NotifyNewBundle, or NotifyReceivedBundle for a bundle from another node.
Share(m) ==
    IF m.from = m.to THEN {Copies}
    ELSE IF m.block = {} THEN {0} ELSE m.block

\* The rest of receiveAsync.
Notify(m) ==
    /\ BagIn(m, net) /\ m.kept
    /\ net' = net (-) SetToBag({m})
    /\ copies' = [copies EXCEPT ![m.to] = Share(m)]
    /\ IF m.to \in pending
       THEN Idle(m.to) # {} /\ fw' = Start(m.to)
       ELSE UNCHANGED fw
    /\ UNCHANGED <<conf, stored, block, holders, pending, marked, anomalies>>

-----------------------------------------------------------------------------
(* Forwarding *)

\* DispatchPending, by cron or for a new peer, of a bundle that is not marked.
Dispatch(n) ==
    /\ n \in stored \ marked /\ Idle(n) # {}
    /\ fw' = Start(n)
    /\ UNCHANGED <<conf, stored, block, copies, holders, pending, marked, net, anomalies>>

\* forwardingAsync exchanges DispatchPending for ForwardPending ...
FwMark(f) ==
    /\ fw[f].pc = "start"
    /\ marked' = marked \cup {f[1]}
    /\ pending' = pending \ {f[1]}
    /\ Goto(f, [fw[f] EXCEPT !.pc = "read"])
    /\ UNCHANGED <<conf, stored, block, copies, holders, net, anomalies>>

\* The copies at which spraying ends.  A node that has come to this sends the bundle
\* to nobody any more, its recipient included: the "direct transmission (when a
\* carrying node encounters the recipient)" of selectBasicSpray's comment is not in
\* the code.
Stop(n) == IF conf.mode[n] = "basic" THEN 0 ELSE 1

\* ... and asks for the senders.  SelectPeersForForwarding reads the counter; a
\* counter that is not set becomes the default, which the anomaly "default"
\* records.
FwRead(f, peers) ==
    LET n == f[1]
        seen == IF copies[n] = {} THEN Copies ELSE CHOOSE k \in copies[n] : TRUE
    IN  /\ fw[f].pc = "read"
        /\ copies' = [copies EXCEPT ![n] = {seen}]
        /\ anomalies' = anomalies \cup (IF copies[n] = {} THEN {"default"} ELSE {})
        /\ Goto(f, IF seen > Stop(n)
                   THEN ForwardAt("select", seen, peers, {}, {})
                   ELSE [fw[f] EXCEPT !.pc = "reset"])
        /\ UNCHANGED <<conf, stored, block, holders, pending, marked, net>>

filterPeers(f) == fw[f].peers \ holders[f[1]]

\* The counter is written; the anomaly "stale" records that it has changed since
\* it was read.
Select(f, peers, rest, b, pc) ==
    /\ copies' = [copies EXCEPT ![f[1]] = {rest}]
    /\ anomalies' = anomalies \cup (IF copies[f[1]] # {fw[f].seen} THEN {"stale"} ELSE {})
    /\ Goto(f, ForwardAt(pc, 0, peers, b, {}))
    /\ UNCHANGED <<conf, stored, block, holders, pending, marked, net>>

\* Faulty selectBasicSpray: the bundle goes to every peer.
selectBasicSprayToAll(f) ==
    LET found == filterPeers(f)
        n == Cardinality(found)
    IN  Select(f, found, IF n <= fw[f].seen THEN fw[f].seen - n ELSE 0, block[f[1]], "load")

\* The bundle is then loaded from disk, with the block it came with.
selectBasicSpray(f) ==
    LET found == filterPeers(f)
        n == Cardinality(found)
    IN  \/ n <= fw[f].seen /\ Select(f, found, fw[f].seen - n, block[f[1]], "load")
        \/ n > fw[f].seen /\ \E peers \in kSubset(fw[f].seen, found) :
                                 Select(f, peers, 0, block[f[1]], "load")

\* Faulty selectBinarySpray: the odd copy is given away and kept, too.
selectBinarySprayRoundsUp(f) ==
    \E p \in filterPeers(f) :
        Select(f, {p}, (fw[f].seen + 1) \div 2, {(fw[f].seen + 1) \div 2}, "send")

selectBinarySpray(f) ==
    \E p \in filterPeers(f) :
        Select(f, {p}, fw[f].seen \div 2 + (fw[f].seen % 2), {fw[f].seen \div 2}, "send")

FwSelect(f) ==
    /\ fw[f].pc = "select"
    /\ filterPeers(f) # {}
    /\ IF conf.mode[f[1]] = "basic" THEN selectBasicSpray(f) ELSE selectBinarySpray(f)

\* There are no suitable peers, or a binary node cannot load the bundle.
FwNoPeers(f) ==
    /\ fw[f].pc = "select"
    /\ filterPeers(f) = {} \/ conf.mode[f[1]] = "binary"
    /\ Goto(f, [NoForward EXCEPT !.pc = "reset"])
    /\ UNCHANGED <<conf, stored, block, copies, holders, pending, marked, net, anomalies>>

FwLoad(f) ==
    /\ fw[f].pc = "load"
    /\ Goto(f, [fw[f] EXCEPT !.pc = "send"])
    /\ UNCHANGED <<conf, stored, block, copies, holders, pending, marked, net, anomalies>>

\* forwardingAsync cannot load the bundle for a basic node: the counter has been
\* written and the mark stays.
FwLoadFails(f) ==
    /\ fw[f].pc = "load"
    /\ Goto(f, NoForward)
    /\ UNCHANGED <<conf, stored, block, copies, holders, pending, marked, net, anomalies>>

\* bundleContraindicated
FwReset(f) ==
    /\ fw[f].pc = "reset"
    /\ pending' = pending \ {f[1]}
    /\ marked' = marked \ {f[1]}
    /\ Goto(f, NoForward)
    /\ UNCHANGED <<conf, stored, block, copies, holders, net, anomalies>>

\* forwardBundleToPeer: Send returns nil, ...
FwSend(f, p) ==
    /\ fw[f].pc = "send" /\ p \in fw[f].peers
    /\ net' = net (+) SetToBag({[from |-> f[1], to |-> p, block |-> fw[f].block,
                                 kept |-> FALSE]})
    /\ Goto(f, ForwardAt("send", 0, fw[f].peers \ {p}, fw[f].block, fw[f].sent \cup {p}))
    /\ UNCHANGED <<conf, stored, block, copies, holders, pending, marked, anomalies>>

\* ... or an error: the share is not given back.
FwSendFails(f, p) ==
    /\ fw[f].pc = "send" /\ p \in fw[f].peers
    /\ Goto(f, [fw[f] EXCEPT !.peers = @ \ {p}])
    /\ UNCHANGED <<conf, stored, block, copies, holders, pending, marked, net, anomalies>>

FwAddKnownHolder(f, p) ==
    /\ fw[f].pc = "send" /\ p \in fw[f].sent
    /\ holders' = [holders EXCEPT ![f[1]] = @ \cup {p}]
    /\ Goto(f, [fw[f] EXCEPT !.sent = @ \ {p}])
    /\ UNCHANGED <<conf, stored, block, copies, pending, marked, net, anomalies>>

FwDone(f) ==
    /\ fw[f].pc = "send" /\ fw[f].peers = {} /\ fw[f].sent = {}
    /\ marked' = marked \ {f[1]}
    /\ Goto(f, NoForward)
    /\ UNCHANGED <<conf, stored, block, copies, holders, pending, net, anomalies>>

-----------------------------------------------------------------------------
(* The environment *)

\* A transmission is cut off after Send has returned.
Lose(m) ==
    /\ BagIn(m, net) /\ ~m.kept
    /\ net' = net (-) SetToBag({m})
    /\ UNCHANGED <<conf, stored, block, copies, holders, pending, marked, fw, anomalies>>

\* A node's process ends and starts again: the metadata is persisted, the
\* goroutines are gone and the descriptor is new.
Restart(n) ==
    /\ n \in stored
    /\ fw' = [f \in Forwards |-> IF f[1] = n THEN NoForward ELSE fw[f]]
    /\ net' = [m \in {m \in DOMAIN net : ~(m.kept /\ m.to = n)} |-> net[m]]
    /\ pending' = pending \cup {n}
    /\ marked' = marked \ {n}
    /\ UNCHANGED <<conf, stored, block, copies, holders, anomalies>>

-----------------------------------------------------------------------------
(* Specification *)

Forward(f) ==
    \/ FwMark(f) \/ FwSelect(f) \/ FwNoPeers(f) \/ FwLoad(f) \/ FwLoadFails(f)
    \/ FwReset(f) \/ FwDone(f)
    \/ \E peers \in SUBSET Neighbours[f[1]] : FwRead(f, peers)
    \/ \E p \in Nodes : FwSend(f, p) \/ FwSendFails(f, p) \/ FwAddKnownHolder(f, p)

SprayNext ==
    \/ \E m \in BagToSet(net) : Insert(m) \/ Notify(m) \/ Lose(m)
    \/ \E n \in Nodes : Dispatch(n) \/ Restart(n)
    \/ \E f \in Forwards : Forward(f)

SpraySpec == SprayInit /\ [][SprayNext]_sprayVars

-----------------------------------------------------------------------------
(* Properties *)

Uniform(m) == \A n \in Nodes : conf.mode[n] = m

\* A number that may be missing.
Number(k) == IF k = {} THEN 0 ELSE CHOOSE i \in k : TRUE

\* The copies a forwarding has taken from the counter and not yet sent.
Taken(f) ==
    IF fw[f].pc \in {"load", "send"} THEN Number(fw[f].block) * Cardinality(fw[f].peers) ELSE 0

\* What nodes, forwardings and the messages under way weigh together.
Total(ofNode, ofForward, ofMessage) ==
    SumFunction(ofNode) + SumFunction(ofForward)
    + SumFunction([m \in DOMAIN net |-> net[m] * ofMessage[m]])

\* All copies there are, in the counters, with forwardings and under way.
AllCopies ==
    Total([n \in Nodes |-> Number(copies[n])], [f \in Forwards |-> Taken(f)],
          [m \in DOMAIN net |-> Number(Share(m))])

\* "The originating node starts with l copies, and every time it forwards the
\* bundle, it is tagged with n/2 copies, while the transmitting node keeps the
\* other n/2": losses, duplicates and restarts never make a copy, unless a node
\* forwarded before it was notified or with a counter that had changed.
CopiesConserved ==
    Uniform("binary") /\ anomalies = {} => AllCopies <= Copies

\* So the bundle is never on more nodes than it has copies, the origin's own not
\* counted in basic mode.
CarriersBounded ==
    anomalies = {} =>
        /\ Uniform("binary") => Cardinality(stored) <= Copies
        /\ Uniform("basic") => Cardinality(stored \ {Origin}) <= Copies

-----------------------------------------------------------------------------
(* The inductive invariant behind the safety properties *)

\* Who works on the bundle has it, and nobody sends it to itself.
PlaceInv ==
    /\ Origin \in stored
    /\ \A n \in stored : n \in holders[n]
    /\ \A n \in Nodes : copies[n] # {} => n \in stored
    /\ \A f \in Forwards : fw[f].pc # "none" => f[1] \in stored
    /\ \A f \in Forwards : fw[f].pc \in {"load", "send"} => f[1] \notin fw[f].peers
    /\ \A m \in DOMAIN net : /\ m.kept => m.to \in stored
                             /\ m.from = m.to => m.kept /\ m.to = Origin

\* Binary nodes never give the last copy away and never send a bundle without one.
BinaryInv ==
    Uniform("binary") =>
        /\ \A n \in Nodes : copies[n] # {} => Number(copies[n]) > 0
        /\ \A f \in Forwards : /\ fw[f].pc # "load"
                               /\ fw[f].pc = "select" => fw[f].seen > 1
                               /\ fw[f].pc = "send" => Number(fw[f].block) > 0
        /\ \A m \in DOMAIN net : m.from # m.to => Number(m.block) > 0

\* Basic nodes send no block, and only the origin has copies to give away.
BasicInv ==
    Uniform("basic") =>
        /\ \A n \in Nodes : block[n] = {}
        /\ \A f \in Forwards : fw[f].block = {}
        /\ \A m \in DOMAIN net : m.block = {}
        /\ anomalies = {} =>
               /\ \A n \in Nodes \ {Origin} : copies[n] \subseteq {0}
               /\ \A f \in Forwards : f[1] # Origin =>
                      fw[f].pc \in {"none", "start", "read", "reset"}

\* Three ways to weigh: the copies; for binary nodes, the copies and one for every
\* node that has the bundle; for basic nodes, the origin's copies, the other nodes
\* that have the bundle and those it is sent to.
Weights == {"copies", "binary", "basic"}

NodeWeight(w, n) ==
    IF w = "copies" THEN Number(copies[n])
    ELSE IF n \notin stored THEN 0
    ELSE IF w = "binary" THEN (IF copies[n] = {} THEN 1 ELSE Number(copies[n]))
    ELSE IF n = Origin THEN Number(copies[n]) ELSE 1

ForwardWeight(w, f) ==
    IF fw[f].pc \notin {"load", "send"} THEN 0
    ELSE IF w = "basic" THEN Cardinality(fw[f].peers)
    ELSE Number(fw[f].block) * Cardinality(fw[f].peers)

MessageWeight(w, m) ==
    IF w = "copies" THEN Number(Share(m))
    ELSE IF w = "binary" THEN (IF m.kept THEN Number(Share(m)) - 1 ELSE Number(Share(m)))
    ELSE IF m.from = m.to THEN Copies ELSE IF m.kept THEN 0 ELSE 1

Weight(w) ==
    Total([n \in Nodes |-> NodeWeight(w, n)], [f \in Forwards |-> ForwardWeight(w, f)],
          [m \in DOMAIN net |-> MessageWeight(w, m)])

\* The weight never exceeds the copies the bundle began with.
Applies(w) == anomalies = {} /\ Uniform(IF w = "basic" THEN "basic" ELSE "binary")
WeightInv == \A w \in Weights : Applies(w) => Weight(w) <= Copies

SprayInv ==
    /\ SprayTypeOK
    /\ PlaceInv /\ BinaryInv /\ BasicInv
    /\ WeightInv
=============================================================================
