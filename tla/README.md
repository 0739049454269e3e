# A TLA+ verification of dtn7-go

dtn7-go is a delay-tolerant networking daemon: it accepts bundles from local
applications and from neighbouring nodes, keeps them on disk until they expire, and
forwards them whenever a neighbour comes into reach. This directory holds TLA+
models of its core, the TLC configurations that check them, and theorems that TLAPS
checks. All paths below are relative to `src/`.

## 1. The system

| component | state it keeps | operations | talks to |
|---|---|---|---|
| bundle store (`pkg/store`) | map of descriptors, badgerhold metadata, one file per bundle; per descriptor: constraints, `retain`, `dispatch`, `deleted`, `shouldDelete` | `InsertBundle`, `AddConstraint`, `RemoveConstraint`, `ResetConstraints`, `AddKnownHolder`, `SetMiscData`, `Delete`, `Load`, `GetDispatchable`, `GarbageCollect`, start and shutdown | called by processing, routing, agents and cron |
| processing (`pkg/processing`) | none of its own: goroutines working on descriptors | `ReceiveBundle`, `NewBundle`, `DispatchPending`, `forwardingAsync` | store, CLA manager, routing, agents |
| routing (`pkg/routing`) | epidemic: none; spray and wait: copies left, in the descriptor's misc data | `SelectPeersForForwarding`, notifications | store |
| CLA manager (`pkg/cla`) | lists of senders, receivers, listeners, pending starts, pending removals | `Register`, `NotifyConnect`, `NotifyDisconnect`, `NotifyReceive`, shutdown | adapters call it; it calls back into processing and routing |
| adapters (`pkg/cla/mtcp`, `quicl`, `meshtastic`) | a connection; the MTCP server's channels; QUICL's handshake, rate limiter and streams; Meshtastic's reassembly buffers | `Activate`, `Send`, `Close`, accept and receive loops | CLA manager |
| discovery (`pkg/discovery`) | announcement loops and their stop channels | `InitialiseManager`, `notify`, `handleDiscovery`, shutdown | CLA manager |
| ID keeper (`pkg/id_keeper`) | last sequence number per source and time | `Update`, `Clean` | agent manager |
| agents (`pkg/application_agent`) | registered agents; mailboxes with their read state | `Delivery`, `Send`, mailbox access | processing, store |
| bundle model (`pkg/bpv7`) | none | parsing, validity, building | everything |
| fragmentation (`pkg/bpv7/fragmentation.go`) | none | `Fragment`, `IsBundleReassemblable`, `ReassembleFragments` | its tests only |
| daemon (`cmd/dtnd`) | the singletons of the above; two cron jobs | start, stop | everything |

What is hard about it:

* nearly every call starts a goroutine; two mutexes (the store's and a descriptor's)
  protect single calls, never a sequence of calls;
* descriptors are shared pointers that outlive their entry in the map, and deletion
  happens in a goroutine of its own, later than the flag that announces it;
* an insertion and a deletion write to database and directory one after the other
  and the process can end, or an operation fail, in between;
* adapters are identified by address, but several objects with one address follow
  each other, and messages of the old ones arrive late;
* components are started while others already serve clients, and singletons are cleared on
  shutdown while their users still run;
* spray and wait counts copies in a field that concurrent forwardings read and write in
  separate calls, and every node believes the number it is told;
* a connection may end at any step of a handshake or a transfer, and each end learns of it
  at its own time;
* arithmetic of offsets, bytes and thresholds (fragments, Meshtastic headers, `Clean`);
* failed or fruitless forwardings are repeated by cron alone.

`PROJECT.json` lists these as hazards with the line where each bites and the
properties that cover it.

## 2. Modules

```
StoreView ◄── implemented by ── BundleStore ── extended by ──► Processing
    │
    └─ extended by ──► Agents

SprayAndWait   CLAManager   Quicl   Meshtastic   IdKeeper   Fragmentation   Daemon
```

| module | models | MC module | proofs |
|---|---|---|---|
| StoreView, BundleStore | the bundle store, and what its users see of it | MCBundleStore | BundleStoreProofs |
| Processing | reception, dispatching, forwarding, epidemic routing, on BundleStore | MCProcessing | ProcessingProofs |
| Agents | agent manager, mailboxes, REST and UNIX agent, on StoreView | MCAgents | AgentsProofs |
| CLAManager | the manager and the life cycle of its adapters | MCCLAManager | CLAManagerProofs |
| SprayAndWait | spray and wait routing in a network of nodes | MCSprayAndWait | SprayAndWaitProofs |
| Quicl | one QUICL connection, both ends | MCQuicl | QuiclProofs |
| Meshtastic | Meshtastic clients, radio and server | MCMeshtastic | ReassemblyProofs |
| Fragmentation | cutting and reassembling bundles | MCFragmentation | ReassemblyProofs |
| IdKeeper | sequence numbers | MCIdKeeper | DaemonProofs |
| Daemon | start and stop of all components, MTCP server, discovery | MCDaemon | DaemonProofs |

**BundleStore** (store.go, bundle_descriptor.go). `bundles`, `db` and `file` are the
three copies of a bundle; `desc` holds the descriptor objects, `<<b, g>>` being the
g-th one a process made for bundle b, because old pointers stay in use. `step` is what
the holder of the store's mutex still has to do: an insertion is the action
`InsertNewBundle` (database), `CreateFile` (os.Create) and `WriteFile` (flush, map entry),
a deletion `deleteBundle` and `UnlinkFile`, a garbage collection `GarbageCollect`, and
per bundle `CollectTest` and `CollectDelete`. Descriptor methods, which only take the
descriptor's mutex, interleave with all of these, as do `ShutdownStore`, which closes the
database without any lock, and `Halt`, the end of the process. `Faults` names the seven I/O
operations that may fail: those of the insertion, the update and the deletion of a record, those
that make, write and remove a file, and `open`, the `os.Open` of a file that exists. The constraints are a set although the code keeps a slice:
all readers ask for membership or emptiness and removal drops every occurrence. The
module is open: any caller may call any method on any descriptor it could hold.

**Processing** (processing.go, reception.go, epidemic.go) closes it. `fw` and `rx` are
goroutines with a program counter, one step per call on the store. A `Send` to a peer
succeeds or fails; `got` and `source` remember who really has the bundle. Every action is an
action of BundleStore together with a step of a goroutine, or leaves the store alone.
`abandoned` records the descriptors whose `ForwardPending` a goroutine left behind because its
`Load` failed (processing.go:62-67): nothing but a restart, or another
forwarding that was under way already, takes such a mark away.

**StoreView** is what users of the store can observe: per bundle `absent`, `live`,
`broken` (its file is missing) or `deleted`. `ImplementsView` in BundleStore shows that
the store implements it, whatever its callers do; models of the store's users then use it in
place of the store. A `Load` may fail for a live bundle, too, which is up to those models.

**Agents** (agent_manager.go, mailbox_bank.go, mailbox.go, rest_agent.go, unix_agent.go) is
such a user. Mailboxes are objects, numbered in the order in which they are made, because a
request may hold one that has been unregistered; `bank` says which one an endpoint has. `delivery` is the goroutine that runs `Manager.Delivery`,
`request` a fetch (`Get`, `GetAll` or `GetNew`, with or without removal), `gc` the garbage
collection of a mailbox; each visits one bundle per step, while the store goes on deleting.
`BankFree`, `CanLock` and `CanRLock` are the locks; `CanRLock` has the rule of `sync.RWMutex`
that a waiting writer holds up new readers. Writes under a read lock, which Go may answer by
ending the process, are covered by `Halt`. `fate` remembers, for every mark, whether the request
that set it answered with the bundle or failed on a later one and answered with the error alone.
`instance` is chosen once, from `Instances`: the agents, bundles, kinds of request and number of
mailboxes a behaviour makes use of, so that one run covers several small instances. A delivery may hold an old, deleted descriptor of a bundle that is live again (`current`).

**CLAManager** (cla_manager.go, mtcp/client.go, mtcp/server.go, quicl/endpoint.go).
One action per critical section; `reg` follows an adapter through `registerAsync`,
`Activate` and `activateCLA`, `link` is its connection, `calls` and `removing` its
`NotifyDisconnect` calls. `WithManager` is `GetManagerSingleton`: without a singleton the
process ends in `log.Fatalf`. An adapter object is registered once, so the slices are
sets. Discovery and the QUICL listener appear as the unconditional `Register`: the
`CheckPresent` of discovery is an optimisation whose answer may be stale.

**Meshtastic** (meshtastic/client.go, meshtastic/server.go). A message is the encoding of a
bundle as one node sends it, a chunk the pair of message and position. `Packet` is the
header: bundle ID, and index and total `% Width`, the values of a byte. `sending` holds the
`Send` of each client that has the mutex, one packet per step (`SendChunk`), failing at any of
them (`SendFails`). `air` is the channel between the clients and one server, from which packets
are lost, read out of order, or read and kept (the bridge broadcasts, so the server hears all
clients). `ReceivePacket` and `Reassemble` are `receiveLoop`, `Tick` is the timeout cleaner,
`Age` the passing of its 60 seconds. `Deliver` is the decoder: it takes the buffer for the
message it starts with, fails for an incomplete or expired one, and for a mixture of messages
either fails or, when the seam is the end of a block, yields something nobody sent (`Splice`).
`arrived`, `lost`, `discarded` and `tardy` only record the past for the properties.

**IdKeeper** (id_keeper.go). `None` (-1) is an absent entry, so that the code's
"0, or the old number plus 1" is `+ 1`. Creation times are the application's: past, future or the
epoch. `Clean` and `Restart` happen at any time; `session` is what the present process has been
given, `dropped` the tuples whose entry its `Clean` has deleted. The width of the number (uint64) is not
modelled: one millisecond does not hold 2^64 bundles.

**SprayAndWait** (spray_and_wait.go, extension_block_spray.go, and what it needs of
processing.go and reception.go). A network whose nodes carry one bundle. `copies` is the
counter in a descriptor's miscellaneous data, `block` the `BinarySprayBlock` of the stored file;
both are `{}` when absent. A reception is `Insert` (the store) and, later, `Notify` (the
algorithm), a forwarding `FwMark`, `FwRead`, `FwSelect` and the sends, so forwardings and
receptions of a node interleave as the goroutines do; `Restart` keeps what the database has.
The two orders in which the code miscounts are recorded in `anomalies`: `default`, a forwarding
before the algorithm was notified, and `stale`, a counter that changed between reading and
writing. The properties are about the states without them.

**Quicl** (quicl/endpoint.go, quicl/listener.go). One connection: `view` is what each end knows
of it, `pc` where its `Activate` is, `tx` and `rx` the calls of `Send` and the goroutines of
`handleStream`. `Break` is quic-go's report of a failure to one end, `Learn` that of the other's
end; an error is of one of the kinds the code distinguishes. `AcceptPresent` is a listener's
endpoint that the manager does not start because its address is present (cla_manager.go:183);
`handleStreamRefuses` is a bundle of `Invalid` that its decoder turns down on a connection that
stands (endpoint.go:379-392), after `Send` has returned nil. `opened` counts streams against
`MaxIncomingStreams`: `Send` and `handleStream` close one direction each at most, so none is ever
given back.

**Fragmentation** (fragmentation.go). A bundle is where its data begins, what its primary block
says of that, and which extension blocks it has. `CutFragment` is an iteration of the loop of
`Fragment`, whose overhead is any function of the offset and the blocks; `Receive` is the
collector, sorted as `sort.Slice` leaves it; `prepareReassembly`, `mergeFragmentPayload` and
`mergePanics` are the operators the properties compare with the original.

**Daemon** (cmd/dtnd/main.go, mtcp/server.go, discovery_manager.go). `main` is the next statement
of `startDtnd` or `stopDtnd`, `up` the singletons that are not nil, `task` the goroutines, each the
list of singletons it still has to ask for; an agent, a connection, cron or discovery may start
one whenever its source exists. Any component may fail to start, also one agent of two. `Ends` is `log.Fatalf` or a panic. The MTCP server's `Close` closes
a channel, so that a second one panics.

Definitions whose comment begins with *Faulty* are deliberately broken variants of
the definition after them. With one of them in its place TLC refutes the property
`PROJECT.json` pairs it with; no specification uses them.

## 3. What TLC checks

| run | instance | result |
|---|---|---|
| `store_faults` | 1 bundle, 2 descriptors per process, 2 nodes, all seven faults, arbitrary callers | types; a deleted descriptor has no constraints; the flags follow the constraints; one live descriptor; a deletion hits its own descriptor; the copies agree; the store implements StoreView |
| `node_crash` | 1 bundle that is expired on arrival, 2 forwardings, 1 reception, 1 peer, all faults | a mark has a forwarder or was left by a failed `Load`; holders have the bundle and stay on record |
| `node_forwards` | the same, with no fault but `open` and no stops, fairness | a live bundle reaches a peer that stays connected, unless a failed `Load` has left its mark; the record equals the live metadata; an expired bundle nobody retains leaves memory and disk |
| `cla_mtcp` | 2 MTCP clients of one address, a QUICL endpoint that notifies twice, an MTCP server | an address is opened once; a live MTCP link stays listed |
| `id_one_run` | 3 bundles with any creation times of 0 .. 6, 0 being the epoch, an hour of 2 ticks | an ID is repeated in a run only if `Clean` has dropped its entry and it is more than an hour old |
| `mesh` | 2 clients, a message of 2 and one of 3 chunks, bytes of 3 values, 2 `Send` calls, 1 duplicated packet, fairness | no mixture is handed over; a message whose chunks have all arrived is decoded; what `Send` reports as sent and no packet of which is lost or late is handed over; no buffer stays for ever |
| `agents` | six instances: the REST agent, the UNIX agent or both; 2 mailboxes one after the other, 2 concurrent requests or 2 bundles; 1 endpoint, fairness | types; a mailbox forgets a bundle only when it is handed out or gone, `GetNew(true)` after a failed request excepted; a delivery reaches the endpoint's present mailbox; stale entries are collected |
| `spray` | 4 nodes, all linked, 2 copies in basic and 3 in binary mode, 2 forwardings at the origin | copies are never multiplied by losses, failed sends, duplicates or restarts; no more nodes carry the bundle than it has copies |
| `fragments` | 6 bytes, a replicated and an unreplicated block, 5 MTUs, 2 cuts, 5 received bundles | what is accepted and merged is the original, also from overlapping cuts; the fragments of one cut never make the merge panic and are accepted once complete |
| `quicl` | 3 calls of `Send`, two of one end, one of an invalid bundle, rate limit 1, 2 streams, a listener's endpoint that may be refused, fairness | both ends know their peer; only a lost connection is reported, and it is; no handshake waits for ever unless the listener's endpoint was refused, and no `Send` does; what is sent arrives or is turned down as invalid while the connection stands |
| `daemon` | 2 goroutines, 1 connection, packets with own, foreign, unsupported and invalid announcements, fairness | a daemon that serves finds every component; a stop comes to its end |

One run shows that the code does not do what a message of it says: `daemon_startup`. Agents are
registered, and serve clients, before the CLA manager is initialised; a bundle a client creates in
between is forwarded at once, and `GetManagerSingleton` ends the daemon with "Attempting to access
an uninitialised CLA manager. This must never happen!".

Further disagreements of this kind that the models reach, without a run of their own:

* two forwardings share one `ForwardPending`, although "bundle's with constraints are also
  currently being processed": when the first is done, the garbage collector deletes under the second;
* two goroutines forward one descriptor although "it should not be dispatched again";
* a bundle that arrives while its expired copy is being deleted is accepted and lost, although
  "InsertBundle inserts a bundle into the store";
* a failed `Load`, be it of a missing file or of one that cannot be opened for the moment, leaves
  `ForwardPending` set: the bundle is neither dispatched again nor collected until the next restart,
  although constraints stand for processing that is under way;
* `loadEntireBundle` drops the parser's error, so that `Load` of a file cut short by a crash
  succeeds although it "returns the causing error";
* a loss reported before `activateCLA` lists the client leaves it listed for ever
  (cla_manager.go:230), although `NotifyDisconnect` "Will remove the CLA from either or both of the
  manager's lists." (:251);
* a second `NotifyDisconnect` of a dead QUICL endpoint removes its connected successor;
* closing an MTCP or Meshtastic server twice in `shutdown` panics, and goroutines ask for the CLA
  manager after shutdown has cleared it;
* discovery's shutdown waits for ever if `Discover` has ended by itself;
* a QUICL stream is never closed in both directions, so a connection ends its service after
  `MaxIncomingStreams` bundles of one end (compare quicl/doc.go:48); doc.go:33 and :36 name
  error codes other than the ones the code sends;
* Meshtastic's bundle ID is the creation time in milliseconds alone, although "This lets the
  reciever know which chunks belong together": chunks of two bundles of one millisecond fill one
  buffer; a bundle of 256 chunks or more is never handed over, although `Send` returns nil;
* `GetAll` and `GetNew` mark bundles while they load and, when a later one cannot be loaded, their
  callers answer with the error alone (mailbox.go:138, :147, :187). The bundles are marked and
  nobody was given them, although the mark is to "signify whether the bundle has already been
  retrieved" (:18) and a failed call "still returns all bundles that were successfully loaded"
  (:124, :160); `GetNew` passes over them from then on, and `GetNew(true)` drops them;
* a basic spray node that is left without copies does not transmit to the destination either,
  although a second hop is to happen "when a carrying node encounters the recipient" (spray_and_wait.go:95);
* the ID keeper repeats numbers after a restart, and `Clean` drops the epoch's entry, although it is
  to remove states that "aren't the epoch time" (id_keeper.go:90);
* a QUICL listener whose endpoint the manager refuses as present neither serves nor closes the
  connection, and its dialer waits without a limit; a bundle that the receiver's decoder turns down
  is dropped after `Send` has reported success;
* `handleRegister` ignores the error of `Register` (rest_agent.go:157), so a client may be told that
  an endpoint it shares with another is its own; an error of the database's `Close` is only logged
  (main.go:216-219), and the daemon ends with the database as it is;
* the fragments of a fragment count their offsets from the fragment and not from the original, and
  fragments of two cuts, one containing the other, make the merge panic.

**Bounds.** `MaxGen` = 2 descriptors per bundle suffice for an old and a new one to meet, which is
what `OneLiveDescriptor` and `DeletesOwnDescriptor` are about. Bundles interact only through the
store's mutex and the collector's loop; one bundle leaves both in, and the theorems cover any
number. Two forwardings are the least that can share a constraint; `DispatchPending` and
`RxDispatch` wait for a free slot, the one place where the bound shows. Two clients of one address
are the least that can compete, as are two requests for one mailbox. The instances of `agents` are
the smallest for each question: 2 mailboxes, so that an endpoint is registered again under a
delivery or a request that knows the first; 2 requests for one mailbox; 2 bundles, so that a
request fails after it has marked one; both agents, so that one delivery has two to serve. The
theorems cover what the instances do not combine. In `id_one_run` three bundles are one more than
the two that collide, and the clock passes the hour of any entry. With bytes of three values two chunks are the most a header can count and three the
least it cannot, so the 2 `Send` calls of `mesh` meet both sides of that boundary; they are a
repetition of one message or a contest of two. In `spray` 3 copies are the least that are halved
unevenly and passed on twice, and 4 nodes the least that could exceed them; the constraint
`Regular` cuts off what follows an anomaly, which the properties do not speak of, and the peers
are symmetric. In `fragments` the MTUs give cuts into pieces of 1 byte, pieces that overlap those
of another cut, a single fragment and an overhead that fills the MTU at once. In `quicl` the two streams of the dialer are the handshake's and one bundle's, so its
second `Send` meets the limit; two `Send` calls of one end compete for one token. The number of
packets in `mesh` is bounded, which `BufferIsFreed` relies on: each packet renews the age of its
buffer (meshtastic/server.go:138), so packets that never stop keep one from being freed. In `daemon` two
goroutines are enough for one to be anywhere when the other, or main, ends the process. Where
`CHECK_DEADLOCK FALSE` is set, the process ends for good (CLAManager, Daemon), the connection does
(Quicl), the senders have sent all they ever will (Meshtastic), or nothing is left to cut and to
receive (Fragmentation).

**What the properties leave out.** Some hold with an exception only, which their definition names
and the list above describes: `CopiesAgree` is not about bundles one of whose operations a fault, a
crash or the closed database has cut short; `MarkHasForwarder` and `EventuallyForwarded` excuse a
mark a failed `Load` left behind; `LiveLinkIsListed` is about MTCP, since QUICL notifies twice;
`NeverMixed` and the delivery of Meshtastic are about messages with an ID of their own, and
`SentIsDelivered` about packets the cleaner waits for; `CopiesConserved` and `CarriersBounded` end
with a `default` or `stale` count; `LostIsReported` is about the errors the code distinguishes;
`HandshakeEnds` excuses a refused endpoint and `StopTerminates` a `Discover` that has ended by
itself, or a process that ended in `log.Fatalf` or a panic.

**Fairness.** The cron jobs of `startDtnd` run for ever, so `GarbageCollect` and `DispatchPending`
are repeated; goroutines are scheduled (weak fairness); `sync.RWMutex` lets a waiting `Lock` in
before later ones, so steps that need the store's mutex are strongly fair, and so is the `Lock` of
a mailbox's garbage collection. Requests that hold a mailbox are assumed to go on (the store
answers); clients need not ask. `EventuallyForwarded` assumes moreover that a link which stays up
does not fail every `Send` (strong fairness of `FwSend`): without it nothing could be promised. In
Meshtastic a packet that is not lost is read in the end, a `Send` comes to its end, and the clock
and the ticker of the cleaner go on. In Quicl the goroutines are scheduled, a `Send` that has been
called goes on, and the idle timeout makes an end learn that the connection has ended for its
peer; nobody has to dial, send or close. In Daemon main is scheduled, and no signal has to come.
No fairness is assumed of applications, peers, crashes, the loss of packets or, elsewhere, the
clock.

## 4. What is proved

All theorems hold for every value of the constants that satisfies the named
assumptions (`StoreAssumption`, `NoRecordAssumption`, `ProcessingAssumption`,
`ClaAssumption`, `IdAssumption`, `AgentsAssumption`, `MeshAssumption`, `QuiclAssumption`,
`SprayAssumption`, `FragmentationAssumption`, `DaemonAssumption`), which TLC
evaluates in every run.

* **BundleStoreProofs**: `StoreInv` is inductive. Its parts need each other: a deletion
  hits its own descriptor only because an insertion is refused while the map or the
  database has the bundle (`StepsAreSound`, `StoredHasRecord`), the copies agree only
  because a live descriptor is unique, and a deleted descriptor is unconstrained only
  because `Settle` and `Deleted` look at the constraints under the descriptor's mutex. Each
  action is one step of the proof. From it: `StoreTypeCorrect`, `NeverDeletesConstrained`,
  `StoreFlagsFollow`, `LiveDescriptorIsUnique`, `DeletionHitsItsOwn`, `StoreCopiesAgree`.
  `StoreImplementsView` is
  the refinement of StoreView: a step changes the view of one bundle at most, along its life
  cycle; it needs that a deletion hits its own descriptor and that a deletion's goroutine finds
  the bundle still listed.
* **AgentsProofs**: `AgentsInv` says that goroutines use mailboxes that exist, that the bank's
  lock keeps a delivery's mailbox registered (`DeliveryHoldsBank`, from which
  `DeliveryReaches` follows), that whoever removes from a mailbox is alone with it
  (`RemoverIsAlone`), and that a request which will clear a mailbox has loaded or has yet to
  load whatever is unread in it (`RequestCovers`). `MarksAreSettled`: whoever set a mark has
  answered, has failed, or is still at it. Together they give `RemovedIsAnswered`, in which the
  bundles a failed request marked and `GetNew(true)` then drops are an exception of their own.
* **ProcessingProofs**: the store's invariant carries over to the node
  (`NodeNeverDeletesConstrained`). `NoForgottenMark` rests on `PipeInv` and on it: a goroutine
  leaves the pipeline by taking the mark away, because its descriptor is deleted, because
  `Load` found no file, which by `CopiesAgree` happens only to bundles whose last operation was
  cut short, or because `Load` could not open it (`abandoned`).
  `KnowledgeInv` says what node, descriptors and database know of a bundle: a goroutine works on a
  descriptor of its own bundle, an insertion under way is that of the record it has written, the
  current descriptor knows every holder its record names, and whoever a descriptor or a record
  names has the bundle. `RecordedHoldersHaveBundle` and the action property `NodeKeepsHolders`
  follow for any faults and any stops; `NodePersistsMetadata` has the hypothesis that no `Update`
  of the database fails, without which it is false.
* **CLAManagerProofs**: `ClaInv` ties the lists to the registrations; `NoAddressOpenedTwice`
  follows because `pendingStart` keeps the address from `checkPresent` to `activateCLA`.
  `MtcpLinksStayListed` adds that a client whose removal is pending is itself being started
  or listed, so that no other client can have its address (`RemovalKeepsAddress`); this is
  where a second notification, as QUICL sends it, breaks the argument, hence the hypothesis
  `NotifiesOnce`.
* **ReassemblyProofs**, Meshtastic: the buffer of a message with an ID of its own holds at index i chunk i of
  that message and nothing else (`GoodBuffers`), no complete buffer stays in the map
  (`StillOpen`), and what has arrived of a message that is neither delivered nor discarded is
  in its buffer (`Accounted`). If the message has fewer chunks than a byte has values, the count
  that `receiveLoop` compares is exact (`CompleteIsWhole`), hence `MeshDelivers`; `MeshNeverMixes`
  needs the first part only. Both are false without their hypotheses: two messages with one ID, or
  a message of 256 chunks, are counterexamples.
* **ReassemblyProofs**, Fragmentation: `FragInv`. The slices `Fragment` has cut off so far begin
  where the cut bundle begins, each where another ends, and none is empty (`Tiles`); a cut of the
  original that has returned tiles all of it. The collector's list is sorted by offset. For
  fragments of one cut that gives `OneCutNeverPanics`: two of them are equal or lie apart, so no
  fragment lies inside what the ones before it have filled, the case in which the slice expression
  of `mergeFragmentPayload` panics. `ReassemblyRestores` is a loop invariant: after k fragments the
  payload is the first positions of the original up to the largest end so far (`MergeIsPrefix`), and
  `prepareReassembly` excludes gaps. It holds for overlapping cuts too, if they are cuts of the
  original itself. `CompleteCutAccepted` walks along the tiles.
* **SprayAndWaitProofs**: `SprayInv`. `CopiesConserved` is not inductive: a copy may leave a counter
  only with the message that carries it. `WeightInv` therefore weighs counters, forwardings and
  messages together, in three ways: the copies (for `SprayConservesCopies`); for binary nodes the
  copies, where a node that has the bundle and has not been notified weighs one and a kept message
  one less than its share; for basic nodes the origin's copies, the nodes that have the bundle and
  those it is on its way to. No step adds to a weight. The last two bound the carriers
  (`SprayBoundsCarriers`), because every carrier weighs at least one: `BinaryInv` says that no
  binary node gives its last copy away, `BasicInv` that only the origin has copies to give, and `PlaceInv` that nobody sends to itself. The network may have any finite
  number of nodes, any links and any number of copies and goroutines.
* **QuiclProofs**: `QuiclInv`. `KnownPeer` needs the order of the handshake: the listener writes its
  id only after it has read the dialer's, so an id that is under way from the listener shows that
  both are known, and nobody sends, receives or reports before its handshake (`HandshakeOrder`).
  `ReportedIsDown` follows because an end's view is final once it has ended; the one exception,
  `CloseListener`, concerns an end that has not shaken hands. `TokensAreHeld` (tokens are the `Send`
  calls between `Acquire` and `Release`) gives the types.
* **DaemonProofs**: `DaemonInv`. What main has passed is up or its error is noted (`Initialised`), so
  without errors all six singletons are up when main waits for the signal, whatever the goroutines
  ask for; and before the shutdown nobody closes the MTCP server's channel a second time
  (`ServerIsOpen`).
* **DaemonProofs**, ID keeper: `IdsAreUnique`, for any creation times. The entry of a tuple that
  `Clean` has not dropped since the start is at least the largest number given out, and what it has
  dropped was, and stays, more than an hour old (`EntriesCover`).

Induction. The library's induction theorems take an operator, which the provers cannot
instantiate. The proofs that need induction over data use sets instead: `LeastNumber` comes from the
well-foundedness of `<`, `NumberInduction` and `SubsetInduction` (for the subsets of a finite set)
from it, with the property as a set. With these, `SumStep` shows that the fold behind
`SumFunctionOnSet` is the sum it should be, and `SumTakeOut`, `SumChange`, `SumGrows` and `SumCounts`
that sums may be taken apart, compared and used to count; `Bulk...` carry this over to bags of
messages. In the same way `MergeIsPrefix` follows the recursive function
`mergeFragmentPayload` along its list. Both modules have their own copy of the first two lemmas.

Only model-checked: the liveness properties (fairness is out of the prover's reach), and
`NeverUninitialised`, which the code violates. Every invariant and action property of the passing
runs is a theorem. The type invariants of Processing, CLAManager, Meshtastic, Quicl, Daemon,
SprayAndWait and Fragmentation are parts of the proved invariants and not repeated in the runs.

## 5. What is not modelled, and the plan

Not modelled, because they are sequential conversions or I/O without state that outlives a call:
the CBOR, msgpack and JSON encodings, CRCs, the bundle builder, the validity checks of blocks and
status reports (which nothing in the daemon sends) in `pkg/bpv7`; HTTP; the configuration file (in
Daemon it is the choice of what is started); logging; the transports below Meshtastic; TLS. The
dummy adapter is a test double and the command line client a front end of the UNIX agent. quic-go,
peerdiscovery, badgerhold and gocron are external and appear as far as the code relies on them.
The file of the UNIX socket, which a crash leaves behind, and the second close of the UNIX agent's
channel are not modelled either.

What could follow:

1. **Network**: several Processing nodes with epidemic routing: every bundle reaches every node of
   a network that stays connected.
2. The steps of the liveness arguments as theorems: under which steps the states they lead through
   are left, and to where.
