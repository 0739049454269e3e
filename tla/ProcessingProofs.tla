--------------------------- MODULE ProcessingProofs ---------------------------
(***************************************************************************)
(* Proofs about Processing: the pipeline is one of the callers the store    *)
(* allows and inherits its invariants, and it forgets a ForwardPending mark *)
(* only where a bundle could not be loaded.                                 *)
(***************************************************************************)
EXTENDS Processing, BundleStoreProofs

\* What the step lemmas assume of the state before a step.
PipeTypes == PipeTypeOK /\ GoroutinesHaveDescriptors

\* A running forwardingAsync refers to a descriptor.
LEMMA ForwardRef ==
    ASSUME PipeTypes, NEW f \in Forwards, fw[f].pc # "none"
    PROVE  FwRef(f) \in Refs /\ f[1] \in Bundles
  BY DEF PipeTypes, PipeTypeOK, GoroutinesHaveDescriptors, ForwardState, FwRef,
         Forwards, Refs

\* Every step of forwardingAsync is a call on its descriptor or leaves the store alone.
LEMMA ForwardCalls ==
    ASSUME PipeTypes, NEW f \in Forwards, Forward(f)
    PROVE  (DescriptorCall(FwRef(f)) /\ FwRef(f) \in Refs) \/ UNCHANGED storeVars
<1>1. fw[f].pc # "none"
  BY DEF Forward, FwDeleted, FwAt, FwAddConstraint, FwRemoveDispatchPending,
         FwGetSenders, FwSelectPeers, FwContraindicated, FwLoad, FwLoadFails,
         FwSend, FwSendFails, FwAddKnownHolder, FwRemoveForwardPending
<1>2. FwRef(f) \in Refs
  BY <1>1, ForwardRef
<1>3. "ForwardPending" \in Constraint /\ "DispatchPending" \in Constraint
      /\ Peers \subseteq Nodes
  BY DEF Constraint, Peers
<1> QED
  BY <1>2, <1>3
     DEF Forward, FwDeleted, FwAddConstraint, FwRemoveDispatchPending,
         FwGetSenders, FwSelectPeers, FwContraindicated, FwLoad, FwLoadFails,
         FwSend, FwSendFails, FwAddKnownHolder, FwRemoveForwardPending,
         DescriptorCall

\* Every step of receiveAsync is a step of an insertion or leaves the store alone.
LEMMA ReceiveInserts ==
    ASSUME PipeTypes, NEW x \in Receives, Receive(x)
    PROVE  x[1] \in Bundles /\ (Insertion(x[1]) \/ UNCHANGED storeVars)
<1>1. x[1] \in Bundles /\ rx[x].prev \in PreviousNode
  BY DEF PipeTypes, PipeTypeOK, ReceiveState, Receives
<1> QED
  BY <1>1 DEF Receive, RxKnownBundle, RxNewBundle, RxCreateFile, RxWriteFile,
              RxInsertFails, RxDispatch, RxDone, Insertion

\* With the pipeline's variables hidden, a step of the node is one of the store.
LEMMA NextImplementsStore ==
    ASSUME PipeTypes, [Next]_vars
    PROVE  [StoreNext]_storeVars
<1>1. ASSUME NEW f \in Forwards, Forward(f) PROVE [StoreNext]_storeVars
  BY <1>1, ForwardCalls DEF StoreNext
<1>2. ASSUME NEW x \in Receives, Receive(x) PROVE [StoreNext]_storeVars
  BY <1>2, ReceiveInserts DEF StoreNext
<1>3. CASE StoreStep
  BY <1>3 DEF StoreStep, StoreNext
<1>4. CASE Crash
  BY <1>4 DEF Crash, StoreNext
<1>5. ASSUME UNCHANGED storeVars PROVE [StoreNext]_storeVars
  BY <1>5
<1> QED
  BY <1>1, <1>2, <1>3, <1>4, <1>5
     DEF Next, DispatchPending, ReceiveBundle, Connect, Disconnect, vars

-----------------------------------------------------------------------------
(* Types of the pipeline *)

\* A goroutine of either kind that is replaced by a well-formed state leaves
\* its table well formed.
LEMMA FwGotoTypes ==
    ASSUME PipeTypes, NEW f \in Forwards, NEW s \in ForwardState, FwGoto(f, s),
           s.pc # "none" => s.gen # 0
    PROVE  /\ fw' \in [Forwards -> ForwardState]
           /\ \A e \in Forwards : fw'[e].pc # "none" => fw'[e].gen # 0
  BY DEF PipeTypes, PipeTypeOK, GoroutinesHaveDescriptors, FwGoto

\* Likewise for receiveAsync.
LEMMA RxGotoTypes ==
    ASSUME PipeTypes, NEW x \in Receives, NEW s \in ReceiveState, RxGoto(x, s),
           s.pc = "check" => s.gen # 0
    PROVE  /\ rx' \in [Receives -> ReceiveState]
           /\ \A y \in Receives : rx'[y].pc = "check" => rx'[y].gen # 0
  BY DEF PipeTypes, PipeTypeOK, GoroutinesHaveDescriptors, RxGoto

\* The resting states of the two kinds of goroutine.
LEMMA RestTypes ==
    /\ NoForward \in ForwardState /\ NoForward.pc = "none"
    /\ NoReceive \in ReceiveState /\ NoReceive.pc = "none"
  BY DEF NoForward, NoReceive, ForwardState, ReceiveState, PreviousNode

\* A started forwardingAsync.
LEMMA StartType ==
    ASSUME NEW g \in Gens
    PROVE  /\ Start(g) \in ForwardState
           /\ Start(g).pc = "add" /\ Start(g).gen = g
  BY DEF Start, NoForward, ForwardState

\* A slot for a new goroutine is a free one.
LEMMA SlotIsIdle ==
    ASSUME NEW b, Idle(b) # {}
    PROVE  Slot(b) \in Idle(b)
  BY DEF Slot

\* Forwarding keeps the types.
LEMMA ForwardTypes ==
    ASSUME PipeTypes, NEW f \in Forwards, Forward(f)
    PROVE  PipeTypes'
<1>0. fw[f] \in ForwardState /\ (fw[f].pc # "none" => fw[f].gen # 0)
      /\ senders \subseteq Peers
  BY DEF PipeTypes, PipeTypeOK, GoroutinesHaveDescriptors
<1>1. \E s \in ForwardState : FwGoto(f, s) /\ (s.pc # "none" => s.gen # 0)
  <2>1. CASE FwEnd(f)
    BY <2>1, RestTypes DEF FwEnd
  <2>2. CASE FwAddConstraint(f)
    BY <2>2, <1>0 DEF FwAddConstraint, FwAt, ForwardState
  <2>3. CASE FwRemoveDispatchPending(f)
    BY <2>3, <1>0 DEF FwRemoveDispatchPending, FwAt, ForwardState
  <2>4. CASE FwGetSenders(f)
    <3> DEFINE s == [fw[f] EXCEPT !.pc = "filter", !.peers = senders]
    <3>1. s \in ForwardState /\ s.gen = fw[f].gen
      BY <1>0 DEF ForwardState
    <3>2. FwGoto(f, s) /\ fw[f].pc # "none"
      BY <2>4 DEF FwGetSenders, FwAt
    <3> QED BY <3>1, <3>2, <1>0
  <2>5. CASE FwSelectPeers(f)
    <3> DEFINE s == [fw[f] EXCEPT !.pc = "load",
                              !.peers = filterPeers(FwRef(f), fw[f].peers)]
    <3>1. s \in ForwardState /\ s.gen = fw[f].gen
      BY <1>0 DEF ForwardState, filterPeers
    <3>2. FwGoto(f, s) /\ fw[f].pc # "none"
      BY <2>5 DEF FwSelectPeers, FwAt
    <3> QED BY <3>1, <3>2, <1>0
  <2>6. CASE FwLoad(f)
    <3> DEFINE s == [fw[f] EXCEPT !.pc = "send", !.intact = file[f[1]] = "full"]
    <3>1. s \in ForwardState /\ s.gen = fw[f].gen
      BY <1>0 DEF ForwardState
    <3>2. FwGoto(f, s) /\ fw[f].pc # "none"
      BY <2>6 DEF FwLoad, FwAt
    <3> QED BY <3>1, <3>2, <1>0
  <2>7. ASSUME NEW p \in Peers, FwSend(f, p)
        PROVE  \E s \in ForwardState : FwGoto(f, s) /\ (s.pc # "none" => s.gen # 0)
    <3> DEFINE s == [fw[f] EXCEPT !.peers = @ \ {p}, !.sent = @ \cup {p}]
    <3>1. s \in ForwardState /\ s.gen = fw[f].gen
      BY <1>0, <2>7 DEF ForwardState
    <3>2. FwGoto(f, s) /\ fw[f].pc # "none"
      BY <2>7 DEF FwSend, FwAt
    <3> QED BY <3>1, <3>2, <1>0
  <2>8. ASSUME NEW p \in Peers, FwSendFails(f, p)
        PROVE  \E s \in ForwardState : FwGoto(f, s) /\ (s.pc # "none" => s.gen # 0)
    BY <2>8, <1>0 DEF FwSendFails, FwAt, ForwardState
  <2>9. ASSUME NEW p \in Peers, FwAddKnownHolder(f, p)
        PROVE  \E s \in ForwardState : FwGoto(f, s) /\ (s.pc # "none" => s.gen # 0)
    BY <2>9, <1>0 DEF FwAddKnownHolder, FwAt, ForwardState
  <2> QED
    BY <2>1, <2>2, <2>3, <2>4, <2>5, <2>6, <2>7, <2>8, <2>9
       DEF Forward, FwDeleted, FwContraindicated, FwLoadFails, FwRemoveForwardPending
<1>2. /\ UNCHANGED <<senders, rx, source>>
      /\ got' \in [Peers -> SUBSET Bundles]
      /\ abandoned' \subseteq Refs
  <2>1. f[1] \in Bundles
    BY DEF Forwards
  <2>2. got' = got \/ \E p \in Peers : got' = [got EXCEPT ![p] = @ \cup {f[1]}]
    BY DEF Forward, FwDeleted, FwAddConstraint, FwRemoveDispatchPending,
           FwGetSenders, FwSelectPeers, FwContraindicated, FwLoad, FwLoadFails,
           FwSend, FwSendFails, FwAddKnownHolder, FwRemoveForwardPending
  <2>3. UNCHANGED <<senders, rx, source>>
    BY DEF Forward, FwDeleted, FwAddConstraint, FwRemoveDispatchPending,
           FwGetSenders, FwSelectPeers, FwContraindicated, FwLoad, FwLoadFails,
           FwSend, FwSendFails, FwAddKnownHolder, FwRemoveForwardPending
  <2>4. abandoned' \in {abandoned, abandoned \ {FwRef(f)}, abandoned \cup {FwRef(f)}}
    BY DEF Forward, FwDeleted, FwAddConstraint, FwRemoveDispatchPending,
           FwGetSenders, FwSelectPeers, FwContraindicated, FwLoad, FwLoadFails,
           FwSend, FwSendFails, FwAddKnownHolder, FwRemoveForwardPending
  <2>5. fw[f].pc # "none"
    BY DEF Forward, FwDeleted, FwAt, FwAddConstraint, FwRemoveDispatchPending,
           FwGetSenders, FwSelectPeers, FwContraindicated, FwLoad, FwLoadFails,
           FwSend, FwSendFails, FwAddKnownHolder, FwRemoveForwardPending
  <2>6. FwRef(f) \in Refs
    BY <2>5, ForwardRef
  <2> QED BY <2>1, <2>2, <2>3, <2>4, <2>6 DEF PipeTypes, PipeTypeOK
<1>3. /\ fw' \in [Forwards -> ForwardState]
      /\ \A e \in Forwards : fw'[e].pc # "none" => fw'[e].gen # 0
  BY <1>1, FwGotoTypes
<1> QED BY <1>2, <1>3 DEF PipeTypes, PipeTypeOK, GoroutinesHaveDescriptors

\* Reception keeps the types.
LEMMA ReceiveTypes ==
    ASSUME PipeTypes, StoreInv, StoreInv', NEW x \in Receives, Receive(x)
    PROVE  PipeTypes'
<1>0. /\ rx[x] \in ReceiveState /\ (rx[x].pc = "check" => rx[x].gen # 0)
      /\ x[1] \in Bundles
      /\ bundles \in [Bundles -> Gens \cup {0}]
  BY DEF PipeTypes, PipeTypeOK, GoroutinesHaveDescriptors, StoreInv, TypeOK, Receives
<1>1. UNCHANGED <<senders, got, source, abandoned>>
  BY DEF Receive, RxKnownBundle, RxNewBundle, RxCreateFile, RxWriteFile,
         RxInsertFails, RxDispatch, RxDone, pipeVars
<1>2. /\ rx' \in [Receives -> ReceiveState]
      /\ \A y \in Receives : rx'[y].pc = "check" => rx'[y].gen # 0
  <2> DEFINE Goal == \E s \in ReceiveState : RxGoto(x, s) /\ (s.pc = "check" => s.gen # 0)
  <2>1. CASE RxEnd(x)
    <3>1. Goal
      BY <2>1, RestTypes DEF RxEnd
    <3> QED BY <3>1, RxGotoTypes
  <2>2. CASE RxKnownBundle(x) /\ ~RxEnd(x)
    <3> DEFINE s == [rx[x] EXCEPT !.pc = "check", !.gen = bundles[x[1]]]
    <3>1. RxGoto(x, s) /\ Stored(x[1])
      BY <2>2 DEF RxKnownBundle, InsertKnownBundle, Current
    <3>2. s \in ReceiveState /\ s.gen # 0
      BY <3>1, <1>0 DEF ReceiveState, Stored
    <3> HIDE DEF s
    <3> QED BY <3>1, <3>2, RxGotoTypes
  <2>3. CASE RxNewBundle(x)
    <3> DEFINE s == [rx[x] EXCEPT !.pc = "storing"]
    <3>1. RxGoto(x, s) /\ s \in ReceiveState /\ s.pc # "check"
      BY <2>3, <1>0 DEF RxNewBundle, ReceiveState
    <3> HIDE DEF s
    <3> QED BY <3>1, RxGotoTypes
  <2>4. CASE RxWriteFile(x)
    <3> DEFINE s == [rx[x] EXCEPT !.pc = "check", !.gen = alloc'[x[1]]]
    <3>1. RxGoto(x, s) /\ alloc'[x[1]] = bundles'[x[1]] /\ alloc'[x[1]] # 0
      BY <2>4, <1>0 DEF RxWriteFile, WriteFile, StoreInv, TypeOK, Gens
    <3>2. s \in ReceiveState /\ s.gen # 0
      BY <3>1, <1>0 DEF ReceiveState, StoreInv, TypeOK
    <3> HIDE DEF s
    <3> QED BY <3>1, <3>2, RxGotoTypes
  <2>5. CASE rx' = rx
    BY <2>5 DEF PipeTypes, PipeTypeOK, GoroutinesHaveDescriptors
  <2> QED
    BY <2>1, <2>2, <2>3, <2>4, <2>5
       DEF Receive, RxCreateFile, RxInsertFails, RxDispatch, RxDone, pipeVars
<1>3. /\ fw' \in [Forwards -> ForwardState]
      /\ \A e \in Forwards : fw'[e].pc # "none" => fw'[e].gen # 0
  <2>1. CASE RxDispatch(x)
    <3>1. PICK f \in Forwards : FwGoto(f, Start(rx[x].gen))
      BY <2>1, SlotIsIdle DEF RxDispatch, Idle
    <3>2. rx[x].gen \in Gens
      BY <2>1, <1>0 DEF RxDispatch, RxAt, ReceiveState
    <3>3. /\ Start(rx[x].gen) \in ForwardState
          /\ Start(rx[x].gen).gen = rx[x].gen
      BY <3>2, StartType
    <3>4. rx[x].gen # 0
      BY <3>2 DEF Gens
    <3> QED BY <3>1, <3>3, <3>4, FwGotoTypes
  <2>2. CASE fw' = fw
    BY <2>2 DEF PipeTypes, PipeTypeOK, GoroutinesHaveDescriptors
  <2> QED
    BY <2>1, <2>2 DEF Receive, RxKnownBundle, RxNewBundle, RxCreateFile,
       RxWriteFile, RxInsertFails, RxDone, pipeVars
<1> QED BY <1>1, <1>2, <1>3 DEF PipeTypes, PipeTypeOK, GoroutinesHaveDescriptors

\* DispatchPending touches free slots only, and starts well-formed goroutines.
LEMMA DispatchFrame ==
    ASSUME PipeTypes, StoreInv, DispatchPending, NEW f \in Forwards
    PROVE  \/ fw'[f] = fw[f]
           \/ /\ fw[f].pc = "none" /\ fw'[f] \in ForwardState
              /\ fw'[f].pc = "add" /\ fw'[f].gen # 0
<1>1. fw'[f] = IF f[1] \in GetDispatchable /\ f = Slot(f[1])
               THEN Start(bundles[f[1]]) ELSE fw[f]
  BY DEF DispatchPending
<1>2. CASE f[1] \in GetDispatchable /\ f = Slot(f[1])
  <2>1. f[1] \in Bundles /\ Stored(f[1])
    BY <1>2 DEF GetDispatchable
  <2>2. bundles[f[1]] \in Gens /\ bundles[f[1]] # 0
    BY <2>1 DEF Stored, StoreInv, TypeOK
  <2>3. fw[f].pc = "none"
    BY <1>2, SlotIsIdle DEF DispatchPending, Idle
  <2> QED BY <1>1, <1>2, <2>2, <2>3, StartType
<1> QED BY <1>1, <1>2

\* The types of the pipeline are invariant.
LEMMA PipeTypesNext ==
    ASSUME PipeTypes, StoreInv, StoreInv', [Next]_vars
    PROVE  PipeTypes'
<1>1. ASSUME NEW f \in Forwards, Forward(f) PROVE PipeTypes'
  BY <1>1, ForwardTypes
<1>2. ASSUME NEW x \in Receives, Receive(x) PROVE PipeTypes'
  BY <1>2, ReceiveTypes
<1>3. CASE DispatchPending
  <2>1. \A f \in Forwards : /\ fw'[f] \in ForwardState
                            /\ fw'[f].pc # "none" => fw'[f].gen # 0
    BY <1>3, DispatchFrame DEF PipeTypes, PipeTypeOK, GoroutinesHaveDescriptors
  <2>2. fw' \in [Forwards -> ForwardState]
    <3>1. fw' = [f \in Forwards |-> fw'[f]]
      BY <1>3 DEF DispatchPending
    <3> QED BY <2>1, <3>1
  <2> QED BY <1>3, <2>1, <2>2
          DEF DispatchPending, PipeTypes, PipeTypeOK, GoroutinesHaveDescriptors
<1>4. ASSUME NEW x \in Receives, NEW from \in PreviousNode, ReceiveBundle(x, from)
      PROVE  PipeTypes'
  <2> DEFINE s == [NoReceive EXCEPT !.pc = "insert", !.prev = from]
  <2>1. s \in ReceiveState /\ s.pc # "check" /\ RxGoto(x, s)
    BY <1>4 DEF NoReceive, ReceiveState, ReceiveBundle
  <2> HIDE DEF s
  <2>2. /\ rx' \in [Receives -> ReceiveState]
        /\ \A y \in Receives : rx'[y].pc = "check" => rx'[y].gen # 0
    BY <2>1, RxGotoTypes
  <2>3. from \subseteq Peers /\ x[1] \in Bundles
    BY DEF PreviousNode, Peers, Receives
  <2> QED BY <1>4, <2>2, <2>3
          DEF ReceiveBundle, PipeTypes, PipeTypeOK, GoroutinesHaveDescriptors
<1>5. CASE Crash
  BY <1>5, RestTypes DEF Crash, PipeTypes, PipeTypeOK, GoroutinesHaveDescriptors
<1>6. CASE UNCHANGED pipeVars
  BY <1>6 DEF pipeVars, PipeTypes, PipeTypeOK, GoroutinesHaveDescriptors
<1>7. ASSUME NEW p \in Peers, Connect(p) \/ Disconnect(p) PROVE PipeTypes'
  BY <1>7 DEF Connect, Disconnect, PipeTypes, PipeTypeOK, GoroutinesHaveDescriptors
<1> QED
  BY <1>1, <1>2, <1>3, <1>4, <1>5, <1>6, <1>7 DEF Next, StoreStep, vars

-----------------------------------------------------------------------------
(* The ForwardPending mark *)

\* r is a live descriptor that carries the mark.
Marked(r) == ~desc[r].deleted /\ "ForwardPending" \in desc[r].constraints

\* The mark of r has a goroutine that will remove it, or one has left it behind.
Owned(r) ==
    \/ r \in abandoned
    \/ \E f \in Forwards : Forwarding(f) /\ FwRef(f) = r

\* MarkHasForwarder in these terms.
LEMMA MarkAsOwned ==
    MarkHasForwarder <=>
        \A b \in Bundles :
            phase = "up" /\ Stored(b) /\ Marked(Current(b)) => Owned(Current(b))
  BY DEF MarkHasForwarder, Live, HasConstraint, Marked, Owned

\* To prove the property after a step that keeps map and phase, look at one
\* marked descriptor of the map.
LEMMA MarkOne ==
    ASSUME StoreInv, UNCHANGED <<phase, bundles>>,
           \A b \in Bundles : \A r \in Refs :
               phase = "up" /\ Stored(b) /\ r = Current(b) /\ Marked(r)' => Owned(r)'
    PROVE  MarkHasForwarder'
<1>1. \A b \in Bundles : Stored(b) => Current(b) \in Refs
  BY DEF StoreInv, TypeOK, Current, Stored, Refs
<1>2. \A b \in Bundles : Current(b)' = Current(b) /\ (Stored(b)' <=> Stored(b))
  BY DEF Current, Stored
<1> QED BY <1>1, <1>2 DEF MarkHasForwarder, Live, HasConstraint, Marked, Owned

\* Forwarding keeps the property: whoever ends either has no live descriptor or
\* takes the mark with him, or leaves it on record that he did not.
LEMMA ForwardMark ==
    ASSUME PipeTypes, StoreInv, MarkHasForwarder, NEW f \in Forwards, Forward(f)
    PROVE  MarkHasForwarder'
<1>1. UNCHANGED <<phase, bundles>>
  BY ForwardCalls DEF DescriptorCall, AddConstraint, RemoveConstraint,
     ResetConstraints, AddKnownHolder, SetMiscData, Delete, storeVars
<1>2. SUFFICES ASSUME NEW b \in Bundles, NEW r \in Refs, phase = "up",
                      Stored(b), r = Current(b), Marked(r)'
               PROVE  Owned(r)'
  BY <1>1, MarkOne
<1>3. /\ \A e \in Forwards \ {f} : fw'[e] = fw[e]
      /\ fw \in [Forwards -> ForwardState]
      /\ fw[f].pc # "none"
      /\ desc \in [Refs -> BundleDescriptor]
  BY DEF Forward, FwDeleted, FwAt, FwAddConstraint, FwRemoveDispatchPending,
         FwGetSenders, FwSelectPeers, FwContraindicated, FwLoad, FwLoadFails,
         FwSend, FwSendFails, FwAddKnownHolder, FwRemoveForwardPending, FwEnd,
         FwGoto, PipeTypes, PipeTypeOK, StoreInv, TypeOK
<1>a. \A q \in abandoned : q # FwRef(f) => q \in abandoned'
  BY DEF Forward, FwDeleted, FwAddConstraint, FwRemoveDispatchPending,
         FwGetSenders, FwSelectPeers, FwContraindicated, FwLoad, FwLoadFails,
         FwSend, FwSendFails, FwAddKnownHolder, FwRemoveForwardPending
<1>4. FwRef(f) \in Refs
  BY <1>3, ForwardRef
<1>5. Marked(r) => Owned(r)
  BY <1>2, MarkAsOwned
<1>6. ASSUME NEW e \in Forwards \ {f}, Forwarding(e), FwRef(e) = r PROVE Owned(r)'
  BY <1>3, <1>6 DEF Owned, Forwarding, FwRef
<1>7. ASSUME FwRef(f) = r, fw'[f].gen = fw[f].gen, Forwarding(f)' PROVE Owned(r)'
  BY <1>7 DEF Owned, FwRef
<1>8. ASSUME Marked(r), abandoned' = abandoned,
             Forwarding(f) => /\ fw'[f].gen = fw[f].gen
                              /\ Forwarding(f)'
      PROVE  Owned(r)'
  <2>1. CASE r \in abandoned
    BY <2>1, <1>8 DEF Owned
  <2> QED BY <2>1, <1>5, <1>6, <1>7, <1>8 DEF Owned
<1>b. ASSUME Marked(r), FwRef(f) # r PROVE Owned(r)'
  <2>1. CASE r \in abandoned
    BY <2>1, <1>a, <1>b DEF Owned
  <2> QED BY <2>1, <1>5, <1>6, <1>b DEF Owned
<1>9. ASSUME UNCHANGED storeVars PROVE Marked(r)
  BY <1>9, <1>2 DEF storeVars, Marked
<1>10. CASE FwDeleted(f)
  <2>1. Marked(r) /\ FwRef(f) # r
    BY <1>10, <1>9 DEF FwDeleted, Marked
  <2> QED BY <2>1, <1>b
<1>11. CASE FwAddConstraint(f)
  <2>1. fw'[f].gen = fw[f].gen /\ Forwarding(f)' /\ abandoned' = abandoned
    BY <1>11, <1>3 DEF FwAddConstraint, FwGoto, Forwarding, ForwardState
  <2>2. r # FwRef(f) => desc'[r] = desc[r]
    BY <1>11, <1>3 DEF FwAddConstraint, AddConstraint
  <2> QED BY <2>1, <2>2, <1>2, <1>7, <1>8 DEF Marked
<1>12. CASE FwRemoveDispatchPending(f)
  <2>1. fw'[f].gen = fw[f].gen /\ Forwarding(f)' /\ abandoned' = abandoned
    BY <1>12, <1>3 DEF FwRemoveDispatchPending, FwGoto, Forwarding, ForwardState
  <2>2. Marked(r)
    BY <1>2, <1>3, <1>4, <1>12 DEF FwRemoveDispatchPending, RemoveConstraint, Settle,
       Marked, BundleDescriptor
  <2> QED BY <2>1, <2>2, <1>8
<1>13. CASE FwGetSenders(f) \/ FwSelectPeers(f) \/ FwLoad(f)
            \/ (\E p \in Peers : FwSend(f, p) \/ FwSendFails(f, p))
  <2>1. fw'[f].gen = fw[f].gen /\ Forwarding(f)'
    <3>1. CASE FwGetSenders(f) \/ FwSelectPeers(f)
      BY <3>1, <1>3 DEF FwGetSenders, FwSelectPeers, FwGoto, Forwarding, ForwardState
    <3>2. CASE FwLoad(f)
      BY <3>2, <1>3 DEF FwLoad, FwGoto, Forwarding, ForwardState
    <3>3. ASSUME NEW p \in Peers, FwSend(f, p)
          PROVE  fw'[f].gen = fw[f].gen /\ Forwarding(f)'
      BY <3>3, <1>3 DEF FwSend, FwAt, FwGoto, Forwarding, ForwardState
    <3>4. ASSUME NEW p \in Peers, FwSendFails(f, p)
          PROVE  fw'[f].gen = fw[f].gen /\ Forwarding(f)'
      BY <3>4, <1>3 DEF FwSendFails, FwAt, FwGoto, Forwarding, ForwardState
    <3> QED BY <3>1, <3>2, <3>3, <3>4, <1>13
  <2>2. UNCHANGED storeVars /\ abandoned' = abandoned
    BY <1>13 DEF FwGetSenders, FwSelectPeers, FwLoad, FwSend, FwSendFails
  <2> QED BY <2>1, <2>2, <1>8, <1>9
<1>14. CASE \E p \in Peers : FwAddKnownHolder(f, p)
  <2>1. fw'[f].gen = fw[f].gen /\ Forwarding(f)' /\ abandoned' = abandoned
    BY <1>14, <1>3 DEF FwAddKnownHolder, FwAt, FwGoto, Forwarding, ForwardState
  <2>2. CASE UNCHANGED storeVars
    BY <2>1, <2>2, <1>8, <1>9
  <2>3. ASSUME NEW p \in Peers, AddKnownHolder(FwRef(f), p) PROVE Owned(r)'
    <3>1. Marked(r)
      BY <2>3, <1>2, <1>3, <1>4 DEF AddKnownHolder, Marked, BundleDescriptor
    <3> QED BY <2>1, <3>1, <1>8
  <2> QED BY <2>2, <2>3, <1>14 DEF FwAddKnownHolder
<1>15. CASE FwLoadFails(f)
  <2>1. Marked(r)
    BY <1>9, <1>15 DEF FwLoadFails
  <2>2. FwRef(f) = r => r \in abandoned'
    BY <2>1, <1>15 DEF FwLoadFails, HasConstraint, Marked
  <2> QED BY <2>1, <2>2, <1>b DEF Owned
<1>16. CASE FwContraindicated(f) \/ FwRemoveForwardPending(f)
  <2>1. CASE desc[FwRef(f)].deleted
    <3>1. UNCHANGED storeVars
      BY <2>1, <1>16 DEF FwContraindicated, FwRemoveForwardPending
    <3>2. Marked(r) /\ FwRef(f) # r
      BY <2>1, <3>1, <1>9 DEF Marked
    <3> QED BY <3>2, <1>b
  <2>2. CASE ~desc[FwRef(f)].deleted
    <3>1. \/ ResetConstraints(FwRef(f))
          \/ RemoveConstraint(FwRef(f), "ForwardPending")
      BY <2>2, <1>16 DEF FwContraindicated, FwRemoveForwardPending
    <3>2. "ForwardPending" \notin desc'[FwRef(f)].constraints
      <4>1. /\ FwRef(f) \in Refs /\ desc \in [Refs -> BundleDescriptor]
            /\ desc[FwRef(f)] \in BundleDescriptor
        BY <1>3, <1>4
      <4>2. \A kept : Settle(desc[FwRef(f)], kept).constraints = kept
        BY <4>1 DEF Settle, BundleDescriptor
      <4>3. \E kept : /\ desc' = [desc EXCEPT ![FwRef(f)] = Settle(desc[FwRef(f)], kept)]
                      /\ "ForwardPending" \notin kept
        BY <3>1 DEF ResetConstraints, RemoveConstraint
      <4> QED BY <4>1, <4>2, <4>3
    <3>3. FwRef(f) # r
      BY <3>2, <1>2 DEF Marked
    <3>4. Marked(r)
      BY <3>1, <3>3, <1>2, <1>3 DEF ResetConstraints, RemoveConstraint, Marked
    <3> QED BY <3>3, <3>4, <1>b
  <2> QED BY <2>1, <2>2
<1> QED
  BY <1>10, <1>11, <1>12, <1>13, <1>14, <1>15, <1>16 DEF Forward

\* Nobody but the pipeline's goroutines sets the mark: insertions keep the
\* property when they end no forwarding ...
LEMMA InsertionMark ==
    ASSUME StoreInv, MarkHasForwarder, NEW c \in Bundles, Insertion(c),
           abandoned' = abandoned,
           \A f \in Forwards : fw'[f] = fw[f] \/ fw[f].pc = "none"
    PROVE  MarkHasForwarder'
<1>0. /\ TypeOK
      /\ \A r : Owned(r) => Owned(r)'
  BY DEF StoreInv, Owned, Forwarding, FwRef
<1>1. ASSUME UNCHANGED <<phase, bundles>>,
             \A r \in Refs : Marked(r)' => Marked(r)
      PROVE  MarkHasForwarder'
  BY <1>0, <1>1, MarkOne, MarkAsOwned
<1>2. CASE UNCHANGED storeVars
  BY <1>1, <1>2 DEF storeVars, Marked
<1>3. ASSUME NEW prev \in PreviousNode, InsertKnownBundle(c, prev)
      PROVE  MarkHasForwarder'
  <2>1. ASSUME NEW n, AddKnownHolder(Current(c), n) PROVE MarkHasForwarder'
    <3>1. \A r \in Refs : Marked(r)' => Marked(r)
      BY <2>1, <1>0 DEF AddKnownHolder, Marked, TypeOK, BundleDescriptor
    <3> QED BY <2>1, <3>1, <1>1 DEF AddKnownHolder
  <2> QED BY <2>1, <1>2, <1>3 DEF InsertKnownBundle
<1>4. ASSUME NEW prev \in PreviousNode, InsertNewBundle(c, prev)
      PROVE  MarkHasForwarder'
  BY <1>1, <1>4 DEF InsertNewBundle, Marked, memory
<1>5. CASE CreateFile(c) \/ WriteFileFails(c)
  BY <1>1, <1>5 DEF CreateFile, WriteFileFails, Marked, memory
<1>6. CASE CreateFileFails(c)
  <2>1. ~Stored(c)
    BY <1>6 DEF CreateFileFails, StoreInv, DiskInv, StepsAreSound, Stored
  <2>2. UNCHANGED <<phase, bundles, desc>>
    BY <1>6 DEF CreateFileFails, memory
  <2> QED BY <2>1, <2>2, <1>0, MarkOne, MarkAsOwned DEF Marked
<1>7. CASE WriteFile(c)
  <2>0. PICK g \in Gens : g = alloc[c] + 1
    BY <1>7, <1>0, StoreAssumption
       DEF WriteFile, StoreInv, DiskInv, StepsAreSound, TypeOK, Gens
  <2>1. /\ <<c, g>> \in Refs /\ desc'[<<c, g>>] = NewBundleDescriptor(newMeta)
        /\ \A r \in Refs : r # <<c, g>> => desc'[r] = desc[r]
        /\ bundles'[c] = g
        /\ \A b \in Bundles \ {c} : bundles'[b] = bundles[b]
        /\ phase' = phase
    BY <1>7, <1>0, <2>0 DEF WriteFile, TypeOK, Refs
  <2>2. ~Marked(<<c, g>>)'
    BY <2>1 DEF Marked, NewBundleDescriptor
  <2>3. SUFFICES ASSUME NEW b \in Bundles, phase' = "up", Stored(b)',
                        Marked(Current(b))'
                 PROVE  Owned(Current(b))'
    BY DEF MarkHasForwarder, Live, HasConstraint, Marked, Owned
  <2>4. b # c /\ bundles'[b] = bundles[b]
    BY <2>1, <2>2, <2>3 DEF Current, Marked
  <2>5. PICK r \in Refs : r = Current(b) /\ r = Current(b)'
    BY <2>3, <2>4, <1>0 DEF Current, Stored, TypeOK, Refs
  <2>6. Stored(b) /\ phase = "up" /\ Marked(r) /\ Marked(r)' /\ r # <<c, g>>
    BY <2>1, <2>3, <2>4, <2>5 DEF Stored, Marked, Current
  <2>7. Owned(r)
    BY <2>4, <2>5, <2>6, MarkAsOwned
  <2> QED BY <2>5, <2>7, <1>0 DEF Owned, Current
<1>8. CASE InsertNewBundleFails(c)
  BY <1>2, <1>8 DEF InsertNewBundleFails
<1> QED BY <1>3, <1>4, <1>5, <1>6, <1>7, <1>8 DEF Insertion

\* ... and so do the store's own goroutines and the clock, which never add a mark.
LEMMA StoreStepMark ==
    ASSUME StoreInv, MarkHasForwarder, StoreStep
    PROVE  MarkHasForwarder'
<1>0. TypeOK /\ UNCHANGED pipeVars /\ \A r : Owned(r) => Owned(r)'
  BY DEF StoreInv, StoreStep, pipeVars, Owned, Forwarding, FwRef
<1>1. ASSUME UNCHANGED <<phase, bundles>>,
             \A r \in Refs : Marked(r)' => Marked(r)
      PROVE  MarkHasForwarder'
  BY <1>0, <1>1, MarkOne, MarkAsOwned
<1>2. CASE GarbageCollect
  BY <1>1, <1>2 DEF GarbageCollect, Marked, memory
<1>3. ASSUME NEW b \in Bundles, CollectTest(b) \/ UnlinkFile(b) \/ Expire(b)
      PROVE  MarkHasForwarder'
  BY <1>1, <1>3 DEF CollectTest, UnlinkFile, Expire, Marked, memory
<1>4. ASSUME NEW b \in Bundles, CollectDelete(b) PROVE MarkHasForwarder'
  <2>1. \A r \in Refs : Marked(r)' => Marked(r)
    BY <1>0, <1>4 DEF CollectDelete, Deleted, Marked, TypeOK, BundleDescriptor
  <2> QED BY <2>1, <1>1, <1>4 DEF CollectDelete
<1>5. ASSUME NEW b \in Bundles, NEW g \in Gens, deleteBundle(<<b, g>>)
      PROVE  MarkHasForwarder'
  <2>1. /\ bundles'[b] = 0 /\ \A c \in Bundles \ {b} : bundles'[c] = bundles[c]
        /\ UNCHANGED <<phase, desc>>
    BY <1>0, <1>5 DEF deleteBundle, TypeOK
  <2>2. SUFFICES ASSUME NEW c \in Bundles, phase' = "up", Stored(c)',
                        Marked(Current(c))'
                 PROVE  Owned(Current(c))'
    BY DEF MarkHasForwarder, Live, HasConstraint, Marked, Owned
  <2>3. c # b /\ bundles'[c] = bundles[c]
    BY <2>1, <2>2 DEF Stored
  <2>4. PICK r \in Refs : r = Current(c) /\ r = Current(c)'
    BY <2>2, <2>3, <1>0 DEF Current, Stored, TypeOK, Refs
  <2>5. Stored(c) /\ phase = "up" /\ Marked(r)
    BY <2>1, <2>2, <2>3, <2>4 DEF Stored, Marked, Current
  <2>6. Owned(r)
    BY <2>3, <2>4, <2>5, MarkAsOwned
  <2> QED BY <2>4, <2>6, <1>0 DEF Owned, Current
<1>6. CASE InitialiseStore
  <2>1. \A b \in Bundles : Stored(b)' => ~Marked(Current(b))'
    BY <1>6, StoreAssumption
       DEF InitialiseStore, Stored, Marked, Current, NewBundleDescriptor, Refs, Gens
  <2> QED BY <2>1 DEF MarkHasForwarder, Live, HasConstraint, Marked
<1>7. CASE ShutdownStore
  BY <1>7 DEF ShutdownStore, MarkHasForwarder, Live
<1> QED
  BY <1>2, <1>3, <1>4, <1>5, <1>6, <1>7 DEF StoreStep, Collection, Deletion

\* Every step of the node keeps the property.
LEMMA MarkNext ==
    ASSUME PipeTypes, StoreInv, MarkHasForwarder, [Next]_vars
    PROVE  MarkHasForwarder'
<1>1. ASSUME NEW f \in Forwards, Forward(f) PROVE MarkHasForwarder'
  BY <1>1, ForwardMark
<1>2. ASSUME UNCHANGED storeVars, abandoned' = abandoned,
             \A f \in Forwards : fw'[f] = fw[f] \/ fw[f].pc = "none"
      PROVE  MarkHasForwarder'
  <2>1. \A r : Owned(r) => Owned(r)'
    BY <1>2 DEF Owned, Forwarding, FwRef
  <2>2. UNCHANGED <<phase, bundles, desc>>
    BY <1>2 DEF storeVars
  <2> QED BY <2>1, <2>2, MarkOne, MarkAsOwned DEF Marked
<1>3. ASSUME NEW x \in Receives, Receive(x) PROVE MarkHasForwarder'
  <2>1. \A f \in Forwards : fw'[f] = fw[f] \/ fw[f].pc = "none"
    <3>1. CASE RxDispatch(x)
      BY <3>1, SlotIsIdle DEF RxDispatch, FwGoto, Idle, PipeTypes, PipeTypeOK
    <3> QED BY <1>3, <3>1 DEF Receive, RxKnownBundle, RxNewBundle, RxCreateFile,
               RxWriteFile, RxInsertFails, RxDone, pipeVars
  <2>2. abandoned' = abandoned
    BY <1>3 DEF Receive, RxKnownBundle, RxNewBundle, RxCreateFile, RxWriteFile,
       RxInsertFails, RxDispatch, RxDone, pipeVars
  <2> QED BY <2>1, <2>2, <1>2, <1>3, ReceiveInserts, InsertionMark
<1>4. CASE DispatchPending
  <2>1. \A f \in Forwards : fw'[f] = fw[f] \/ fw[f].pc = "none"
    BY <1>4, DispatchFrame
  <2> QED BY <2>1, <1>2, <1>4 DEF DispatchPending
<1>5. ASSUME NEW x \in Receives, NEW from \in PreviousNode, ReceiveBundle(x, from)
      PROVE  MarkHasForwarder'
  BY <1>2, <1>5 DEF ReceiveBundle
<1>6. ASSUME NEW p \in Peers, Connect(p) \/ Disconnect(p) PROVE MarkHasForwarder'
  BY <1>2, <1>6 DEF Connect, Disconnect
<1>7. CASE StoreStep
  BY <1>7, StoreStepMark
<1>8. CASE Crash
  BY <1>8 DEF Crash, Halt, MarkHasForwarder, Live
<1>9. CASE UNCHANGED vars
  BY <1>9, <1>2 DEF vars, pipeVars
<1> QED
  BY <1>1, <1>3, <1>4, <1>5, <1>6, <1>7, <1>8, <1>9 DEF Next

-----------------------------------------------------------------------------
(* What the node knows about holders *)

\* The parts of KnowledgeInv about records and descriptors, and those about
\* goroutines.
RecordInv ==
    /\ InsertionIsOnRecord
    /\ DescriptorKnowsRecord
    /\ HoldersHaveBundle
    /\ KnownHoldersHaveBundle

BoundInv == GoroutinesAreBound /\ SentIsReceived /\ PreviousNodeIsSource

\* Peers never lose a bundle, and where it came from is not forgotten.
HistoryGrows ==
    /\ \A p \in Peers : got[p] \subseteq got'[p]
    /\ \A b \in Bundles : source[b] \subseteq source'[b]

\* The holders in a record are nodes.
LEMMA HoldersAreNodes ==
    ASSUME StoreInv, NEW b \in Bundles
    PROVE  /\ db[b] # NoRecord => db[b].holders \subseteq Nodes
           /\ Stored(b) => /\ Current(b) \in Refs
                           /\ desc[Current(b)].meta.holders \subseteq Nodes
           /\ newMeta.holders \subseteq Nodes
  BY DEF StoreInv, TypeOK, BundleMetadata, BundleDescriptor, Current, Stored, Refs

\* Who has the bundle keeps it.
LEMMA HasBundleGrows ==
    ASSUME HistoryGrows, NEW b \in Bundles, NEW p \in Peers, HasBundle(b, p)
    PROVE  HasBundle(b, p)'
  BY DEF HistoryGrows, HasBundle

\* Every step of the node adds to the history only.
LEMMA HistoryNext ==
    ASSUME PipeTypes, [Next]_vars
    PROVE  HistoryGrows
<1>0. got \in [Peers -> SUBSET Bundles] /\ source \in [Bundles -> SUBSET Peers]
  BY DEF PipeTypes, PipeTypeOK
<1>1. CASE UNCHANGED <<got, source>>
  BY <1>1 DEF HistoryGrows
<1>2. ASSUME NEW f \in Forwards, Forward(f) PROVE HistoryGrows
  <2>1. source' = source /\ (got' = got \/ \E p \in Peers : got' = [got EXCEPT ![p] = @ \cup {f[1]}])
    BY <1>2 DEF Forward, FwDeleted, FwAddConstraint, FwRemoveDispatchPending,
           FwGetSenders, FwSelectPeers, FwContraindicated, FwLoad, FwLoadFails,
           FwSend, FwSendFails, FwAddKnownHolder, FwRemoveForwardPending
  <2> QED BY <2>1, <1>0 DEF HistoryGrows
<1>3. ASSUME NEW x \in Receives, NEW from \in PreviousNode, ReceiveBundle(x, from)
      PROVE  HistoryGrows
  BY <1>3, <1>0 DEF ReceiveBundle, HistoryGrows
<1> QED
  BY <1>1, <1>2, <1>3 DEF Next, vars, pipeVars, DispatchPending, Receive, RxKnownBundle,
     RxNewBundle, RxCreateFile, RxWriteFile, RxInsertFails, RxDispatch, RxDone,
     Connect, Disconnect, StoreStep, Crash

\* Steps that leave metadata and records alone keep what is known about them,
\* if they end insertions only and make no interrupted bundle whole.
LEMMA RecordFrame ==
    ASSUME StoreInv, RecordInv, HistoryGrows,
           UNCHANGED <<bundles, db>>, interrupted \subseteq interrupted',
           \A r \in Refs : /\ desc'[r].meta = desc[r].meta
                           /\ desc[r].deleted => desc'[r].deleted,
           \A b \in Bundles : step'[b] \in {"create", "write"} =>
               step[b] \in {"create", "write"} /\ newMeta' = newMeta
    PROVE  RecordInv'
<1>1. ASSUME NEW b \in Bundles
      PROVE  /\ Current(b)' = Current(b) /\ (Stored(b)' <=> Stored(b))
             /\ b \notin interrupted' => b \notin interrupted
             /\ db'[b] = db[b]
             /\ Stored(b) /\ ~desc'[Current(b)].deleted =>
                    /\ ~desc[Current(b)].deleted
                    /\ desc'[Current(b)].meta = desc[Current(b)].meta
  BY HoldersAreNodes DEF Current, Stored
<1>2. InsertionIsOnRecord'
  BY DEF RecordInv, InsertionIsOnRecord, HistoryGrows
<1>3. DescriptorKnowsRecord'
  BY <1>1 DEF RecordInv, DescriptorKnowsRecord
<1>4. HoldersHaveBundle'
  BY <1>1, HoldersAreNodes, HasBundleGrows DEF RecordInv, HoldersHaveBundle, Peers
<1>5. KnownHoldersHaveBundle'
  BY <1>1, HoldersAreNodes, HasBundleGrows DEF RecordInv, KnownHoldersHaveBundle, Peers
<1> QED BY <1>2, <1>3, <1>4, <1>5 DEF RecordInv

\* A call on a live descriptor that leaves the metadata alone is such a step.
LEMMA QuietCall ==
    ASSUME StoreInv, RecordInv, HistoryGrows, NEW r \in Refs,
           (\E c \in Constraint : AddConstraint(r, c) \/ RemoveConstraint(r, c))
           \/ ResetConstraints(r)
    PROVE  RecordInv'
<1>0. desc \in [Refs -> BundleDescriptor]
  BY DEF StoreInv, TypeOK
<1>1. UNCHANGED <<bundles, db, interrupted, step, newMeta>> /\ ~desc[r].deleted
  BY DEF AddConstraint, RemoveConstraint, ResetConstraints, disk
<1>2. \A q \in Refs : /\ desc'[q].meta = desc[q].meta
                      /\ desc[q].deleted => desc'[q].deleted
  <2>1. \A q \in Refs \ {r} : desc'[q] = desc[q]
    BY <1>0 DEF AddConstraint, RemoveConstraint, ResetConstraints
  <2>2. desc'[r].meta = desc[r].meta
    <3>1. ASSUME NEW c \in Constraint, AddConstraint(r, c) PROVE desc'[r].meta = desc[r].meta
      BY <3>1, <1>0 DEF AddConstraint, BundleDescriptor
    <3>2. ASSUME NEW c \in Constraint, RemoveConstraint(r, c)
          PROVE  desc'[r].meta = desc[r].meta
      <4>1. \A kept : Settle(desc[r], kept).meta = desc[r].meta
        BY <1>0 DEF Settle, BundleDescriptor
      <4>2. \E kept : desc' = [desc EXCEPT ![r] = Settle(desc[r], kept)]
        BY <3>2 DEF RemoveConstraint
      <4> QED BY <1>0, <4>1, <4>2
    <3>3. ASSUME ResetConstraints(r) PROVE desc'[r].meta = desc[r].meta
      BY <3>3, <1>0 DEF ResetConstraints, Settle, BundleDescriptor
    <3> QED BY <3>1, <3>2, <3>3
  <2> QED BY <2>1, <2>2, <1>1
<1> QED BY <1>1, <1>2, RecordFrame

\* A holder that has the bundle may be recorded.
LEMMA HolderRecorded ==
    ASSUME StoreInv, StoreInv', RecordInv, HistoryGrows, NEW r \in Refs, NEW n \in Peers,
           AddKnownHolder(r, n), r[1] \notin interrupted => HasBundle(r[1], n)'
    PROVE  RecordInv'
<1>0. /\ desc \in [Refs -> BundleDescriptor] /\ r[1] \in Bundles /\ r = <<r[1], r[2]>>
      /\ db \in [Bundles -> BundleMetadata \cup {NoRecord}]
      /\ UNCHANGED <<bundles, interrupted, step, newMeta>> /\ ~desc[r].deleted
      /\ bundles[r[1]] = r[2] /\ r[2] # 0
  BY StoreAssumption
     DEF StoreInv, TypeOK, DescriptorInv, OneLiveDescriptor, AddKnownHolder, Refs, Gens
<1>1. /\ \A q \in Refs \ {r} : desc'[q] = desc[q]
      /\ desc'[r].deleted = desc[r].deleted
      /\ desc'[r].meta.holders = desc[r].meta.holders \cup {n}
      /\ desc'[r].meta \in BundleMetadata
  BY <1>0 DEF AddKnownHolder, BundleDescriptor, BundleMetadata, StoreInv, TypeOK
<1>2. db[r[1]] # NoRecord /\ Current(r[1]) = r /\ Stored(r[1])
      /\ step[r[1]] \notin {"create", "write"}
  BY <1>0 DEF StoreInv, DiskInv, StoredHasRecord, StepsAreSound, Stored, Current
<1>3. /\ \A b \in Bundles \ {r[1]} : db'[b] = db[b]
      /\ \/ db'[r[1]] = desc'[r].meta
         \/ "update" \in Faults /\ db'[r[1]] = db[r[1]]
  BY <1>0, <1>2 DEF AddKnownHolder, updateBundleMetadata, MayFail
<1>4. \A b \in Bundles : /\ Current(b)' = Current(b) /\ (Stored(b)' <=> Stored(b))
                         /\ b # r[1] => Current(b) # r
  BY <1>0 DEF Current, Stored
<1>5. /\ db[r[1]].holders \subseteq desc[r].meta.holders
      /\ "update" \notin Faults => db[r[1]] = desc[r].meta
  BY <1>0, <1>2 DEF RecordInv, DescriptorKnowsRecord
<1>6. r[1] \notin interrupted =>
          \A p \in desc'[r].meta.holders \ {Self} : HasBundle(r[1], p)'
  <2>1. desc[r].meta.holders \subseteq Nodes
    BY <1>0, <1>2, HoldersAreNodes
  <2> QED BY <2>1, <1>0, <1>1, <1>2, HasBundleGrows
          DEF RecordInv, KnownHoldersHaveBundle, Peers
<1>7. InsertionIsOnRecord'
  BY <1>0, <1>2, <1>3 DEF RecordInv, InsertionIsOnRecord, HistoryGrows
<1>8. DescriptorKnowsRecord'
  <2> SUFFICES ASSUME NEW b \in Bundles, Stored(b)', ~desc'[Current(b)'].deleted
               PROVE  /\ db'[b].holders \subseteq desc'[Current(b)'].meta.holders
                      /\ "update" \notin Faults => db'[b] = desc'[Current(b)'].meta
    BY DEF DescriptorKnowsRecord
  <2>1. CASE b = r[1]
    BY <2>1, <1>1, <1>2, <1>3, <1>4, <1>5
  <2>2. CASE b # r[1]
    <3>1. Current(b) \in Refs \ {r} /\ Stored(b)
      BY <2>2, <1>4, HoldersAreNodes
    <3>2. db'[b] = db[b] /\ desc'[Current(b)'] = desc[Current(b)]
      BY <3>1, <2>2, <1>1, <1>3, <1>4
    <3> QED BY <3>1, <3>2 DEF RecordInv, DescriptorKnowsRecord
  <2> QED BY <2>1, <2>2
<1>9. HoldersHaveBundle'
  <2> SUFFICES ASSUME NEW b \in Bundles \ interrupted, db'[b] # NoRecord,
                      NEW p \in db'[b].holders \ {Self}
               PROVE  HasBundle(b, p)'
    BY <1>0 DEF HoldersHaveBundle
  <2>1. CASE db'[b] = db[b]
    <3>1. HasBundle(b, p) /\ p \in Peers
      BY <2>1, HoldersAreNodes DEF RecordInv, HoldersHaveBundle, Peers
    <3> QED BY <3>1, HasBundleGrows
  <2>2. CASE b = r[1] /\ db'[b] = desc'[r].meta
    BY <2>2, <1>6
  <2> QED BY <2>1, <2>2, <1>3
<1>10. KnownHoldersHaveBundle'
  <2> SUFFICES ASSUME NEW b \in Bundles \ interrupted, Stored(b)',
                      ~desc'[Current(b)'].deleted,
                      NEW p \in desc'[Current(b)'].meta.holders \ {Self}
               PROVE  HasBundle(b, p)'
    BY <1>0 DEF KnownHoldersHaveBundle
  <2>1. CASE b = r[1]
    BY <2>1, <1>2, <1>4, <1>6
  <2>2. CASE b # r[1]
    <3>1. Current(b) \in Refs \ {r} /\ Stored(b)
      BY <2>2, <1>4, HoldersAreNodes
    <3>2. desc'[Current(b)'] = desc[Current(b)]
      BY <3>1, <1>1, <1>4
    <3>3. HasBundle(b, p) /\ p \in Peers
      BY <3>1, <3>2, HoldersAreNodes DEF RecordInv, KnownHoldersHaveBundle, Peers
    <3> QED BY <3>3, HasBundleGrows
  <2> QED BY <2>1, <2>2
<1> QED BY <1>7, <1>8, <1>9, <1>10 DEF RecordInv

\* The metadata InsertBundle writes name the nodes the bundle came from.
LEMMA InsertNewRecord ==
    ASSUME StoreInv, RecordInv, HistoryGrows, NEW c \in Bundles, NEW prev \in PreviousNode,
           InsertNewBundle(c, prev), prev \subseteq source[c]
    PROVE  RecordInv'
<1>0. /\ UNCHANGED <<bundles, desc, interrupted>> /\ LockFree
      /\ step' = [step EXCEPT ![c] = "create"] /\ db' = [db EXCEPT ![c] = newMeta']
      /\ newMeta'.holders = {Self} \cup prev
      /\ step \in [Bundles -> Steps]
      /\ db \in [Bundles -> BundleMetadata \cup {NoRecord}]
      /\ prev \subseteq Peers
      /\ ~Stored(c)
  BY DEF InsertNewBundle, memory, StoreInv, TypeOK, PreviousNode, Peers
<1>1. \A b \in Bundles : /\ b # c => db'[b] = db[b] /\ step'[b] = "idle"
                         /\ Current(b)' = Current(b) /\ (Stored(b)' <=> Stored(b))
  BY <1>0 DEF LockFree, Current, Stored
<1>2. db'[c] = newMeta' /\ step'[c] = "create"
  BY <1>0
<1>3. \A p \in newMeta'.holders \ {Self} : p \in source'[c] /\ HasBundle(c, p)'
  BY <1>0 DEF HistoryGrows, HasBundle
<1>4. InsertionIsOnRecord'
  BY <1>1, <1>2, <1>3 DEF InsertionIsOnRecord
<1>5. DescriptorKnowsRecord'
  BY <1>0, <1>1 DEF RecordInv, DescriptorKnowsRecord
<1>6. HoldersHaveBundle'
  BY <1>0, <1>1, <1>2, <1>3, HoldersAreNodes, HasBundleGrows
     DEF RecordInv, HoldersHaveBundle, Peers
<1>7. KnownHoldersHaveBundle'
  BY <1>0, <1>1, HoldersAreNodes, HasBundleGrows
     DEF RecordInv, KnownHoldersHaveBundle, Peers
<1> QED BY <1>4, <1>5, <1>6, <1>7 DEF RecordInv

\* A bundle that leaves the store, or never entered it, takes its record with it
\* or counts as interrupted.
LEMMA RecordRemoved ==
    ASSUME StoreInv, RecordInv, HistoryGrows, NEW c \in Bundles,
           desc' = desc, bundles'[c] = 0,
           \A b \in Bundles \ {c} : /\ db'[b] = db[b] /\ bundles'[b] = bundles[b]
                                    /\ step'[b] = step[b]
                                    /\ b \in interrupted' <=> b \in interrupted,
           step'[c] \notin {"create", "write"},
           db'[c] = NoRecord \/ c \in interrupted',
           newMeta' = newMeta \/ \A b \in Bundles : step'[b] \notin {"create", "write"}
    PROVE  RecordInv'
<1>1. \A b \in Bundles \ {c} : Current(b)' = Current(b) /\ (Stored(b)' <=> Stored(b))
  BY DEF Current, Stored
<1>2. ~Stored(c)'
  BY DEF Stored
<1>3. InsertionIsOnRecord'
  BY DEF RecordInv, InsertionIsOnRecord, HistoryGrows
<1>4. DescriptorKnowsRecord'
  BY <1>1, <1>2 DEF RecordInv, DescriptorKnowsRecord
<1>5. HoldersHaveBundle'
  BY HoldersAreNodes, HasBundleGrows DEF RecordInv, HoldersHaveBundle, Peers
<1>6. KnownHoldersHaveBundle'
  BY <1>1, <1>2, HoldersAreNodes, HasBundleGrows
     DEF RecordInv, KnownHoldersHaveBundle, Peers
<1> QED BY <1>3, <1>4, <1>5, <1>6 DEF RecordInv

\* Only one bundle is being inserted.
LEMMA OneInsertion ==
    ASSUME RecordInv, NEW c \in Bundles, step[c] \in {"create", "write"},
           step \in [Bundles -> Steps], step' = [step EXCEPT ![c] = "idle"]
    PROVE  \A b \in Bundles : step'[b] \notin {"create", "write"}
  BY DEF RecordInv, InsertionIsOnRecord

\* The rest of an insertion, whichever way it ends.
LEMMA InsertionRecord ==
    ASSUME StoreInv, RecordInv, HistoryGrows, NEW c \in Bundles,
           CreateFile(c) \/ CreateFileFails(c) \/ WriteFile(c) \/ WriteFileFails(c)
    PROVE  RecordInv'
<1>0. /\ step \in [Bundles -> Steps] /\ bundles \in [Bundles -> Gens \cup {0}]
      /\ db \in [Bundles -> BundleMetadata \cup {NoRecord}]
      /\ desc \in [Refs -> BundleDescriptor]
      /\ alloc \in [Bundles -> Gens \cup {0}]
  BY DEF StoreInv, TypeOK
<1>1. CASE CreateFile(c)
  <2>1. UNCHANGED <<bundles, desc, db, interrupted, newMeta>>
        /\ step[c] = "create" /\ step' = [step EXCEPT ![c] = "write"]
    BY <1>1 DEF CreateFile, memory
  <2> QED BY <2>1, <1>0, RecordFrame
<1>2. CASE WriteFileFails(c)
  <2>1. UNCHANGED <<bundles, desc, db>> /\ interrupted \subseteq interrupted'
        /\ step[c] = "write" /\ step' = [step EXCEPT ![c] = "idle"]
    BY <1>2 DEF WriteFileFails, memory, disk
  <2>2. \A b \in Bundles : step'[b] \notin {"create", "write"}
    BY <2>1, <1>0, OneInsertion
  <2> QED BY <2>1, <2>2, RecordFrame
<1>3. CASE CreateFileFails(c)
  <2>1. /\ UNCHANGED <<bundles, desc>> /\ bundles[c] = 0
        /\ step[c] = "create" /\ step' = [step EXCEPT ![c] = "idle"]
        /\ \A b \in Bundles \ {c} : db'[b] = db[b] /\ (b \in interrupted' <=> b \in interrupted)
        /\ db'[c] = NoRecord \/ c \in interrupted'
    BY <1>0, <1>3 DEF CreateFileFails, memory, RemoveRecord, StoreInv, DiskInv, StepsAreSound
  <2>2. \A b \in Bundles : step'[b] \notin {"create", "write"}
    BY <2>1, <1>0, OneInsertion
  <2> QED BY <2>1, <2>2, <1>0, RecordRemoved
<1>4. CASE WriteFile(c)
  <2> DEFINE g == alloc[c] + 1
  <2>1. /\ g \in Gens /\ g # 0 /\ db' = db /\ step[c] = "write"
        /\ step' = [step EXCEPT ![c] = "idle"]
        /\ bundles' = [bundles EXCEPT ![c] = g]
        /\ desc' = [desc EXCEPT ![<<c, g>>] = NewBundleDescriptor(newMeta)]
        /\ interrupted' = interrupted \ {c}
    BY <1>0, <1>4, StoreAssumption DEF WriteFile, StoreInv, DiskInv, StepsAreSound, Gens
  <2> HIDE DEF g
  <2>2. \A b \in Bundles : step'[b] \notin {"create", "write"}
    BY <2>1, <1>0, OneInsertion
  <2>3. /\ db[c] = newMeta /\ newMeta.holders \subseteq Nodes
        /\ \A p \in newMeta.holders \ {Self} : HasBundle(c, p)
    BY <2>1, HoldersAreNodes DEF RecordInv, InsertionIsOnRecord, HasBundle
  <2>4. \A p \in newMeta.holders \ {Self} : HasBundle(c, p)'
    BY <2>3, HasBundleGrows DEF Peers
  <2>5. Current(c)' = <<c, g>> /\ desc'[<<c, g>>].meta = newMeta
    BY <2>1, <1>0 DEF Current, NewBundleDescriptor, Refs
  <2>6. ASSUME NEW b \in Bundles \ {c}, Stored(b)'
        PROVE  /\ Stored(b) /\ Current(b)' = Current(b)
               /\ desc'[Current(b)] = desc[Current(b)]
    <3>1. Stored(b) /\ Current(b)' = Current(b) /\ Current(b) # <<c, g>>
      BY <2>1, <2>6, <1>0 DEF Stored, Current
    <3>2. Current(b) \in Refs
      BY <3>1, HoldersAreNodes
    <3> QED BY <3>1, <3>2, <2>1, <1>0
  <2>7. InsertionIsOnRecord'
    BY <2>2 DEF InsertionIsOnRecord
  <2>8. DescriptorKnowsRecord'
    <3> SUFFICES ASSUME NEW b \in Bundles, Stored(b)', ~desc'[Current(b)'].deleted
                 PROVE  /\ db'[b].holders \subseteq desc'[Current(b)'].meta.holders
                        /\ "update" \notin Faults => db'[b] = desc'[Current(b)'].meta
      BY DEF DescriptorKnowsRecord
    <3>1. CASE b = c
      BY <3>1, <2>1, <2>3, <2>5
    <3>2. CASE b # c
      BY <3>2, <2>1, <2>6 DEF RecordInv, DescriptorKnowsRecord
    <3> QED BY <3>1, <3>2
  <2>9. HoldersHaveBundle'
    <3> SUFFICES ASSUME NEW b \in Bundles \ interrupted', db'[b] # NoRecord,
                        NEW p \in db'[b].holders \ {Self}
                 PROVE  HasBundle(b, p)'
      BY DEF HoldersHaveBundle
    <3>1. CASE b = c
      BY <3>1, <2>1, <2>3, <2>4
    <3>2. CASE b # c
      BY <3>2, <2>1, HoldersAreNodes, HasBundleGrows DEF RecordInv, HoldersHaveBundle, Peers
    <3> QED BY <3>1, <3>2
  <2>10. KnownHoldersHaveBundle'
    <3> SUFFICES ASSUME NEW b \in Bundles \ interrupted', Stored(b)',
                        ~desc'[Current(b)'].deleted,
                        NEW p \in desc'[Current(b)'].meta.holders \ {Self}
                 PROVE  HasBundle(b, p)'
      BY DEF KnownHoldersHaveBundle
    <3>1. CASE b = c
      BY <3>1, <2>4, <2>5
    <3>2. CASE b # c
      <4>1. HasBundle(b, p) /\ p \in Peers
        BY <3>2, <2>1, <2>6, HoldersAreNodes DEF RecordInv, KnownHoldersHaveBundle, Peers
      <4> QED BY <4>1, HasBundleGrows
    <3> QED BY <3>1, <3>2
  <2> QED BY <2>7, <2>8, <2>9, <2>10 DEF RecordInv
<1> QED BY <1>1, <1>2, <1>3, <1>4

\* The store's own goroutines, its start and its end.
LEMMA StoreStepRecord ==
    ASSUME StoreInv, StoreInv', RecordInv, HistoryGrows, StoreStep \/ Crash
    PROVE  RecordInv'
<1>0. /\ step \in [Bundles -> Steps] /\ bundles \in [Bundles -> Gens \cup {0}]
      /\ db \in [Bundles -> BundleMetadata \cup {NoRecord}]
      /\ desc \in [Refs -> BundleDescriptor]
  BY DEF StoreInv, TypeOK
<1>1. CASE GarbageCollect
  BY <1>1, RecordFrame DEF GarbageCollect, memory, disk
<1>2. ASSUME NEW b \in Bundles, CollectTest(b) PROVE RecordInv'
  BY <1>0, <1>2, RecordFrame DEF CollectTest, memory, disk
<1>3. ASSUME NEW b \in Bundles, CollectDelete(b) PROVE RecordInv'
  <2>1. UNCHANGED <<bundles, db, interrupted, newMeta>>
        /\ step' = [step EXCEPT ![b] = "idle"]
    BY <1>3 DEF CollectDelete, disk
  <2>2. Current(b) \in Refs
    BY <1>3, HoldersAreNodes DEF CollectDelete, StoreInv, DiskInv, StepsAreSound, Stored
  <2>3. desc' = desc \/ (desc' = [desc EXCEPT ![Current(b)] = Deleted(desc[Current(b)], FALSE)]
                         /\ ~desc[Current(b)].deleted)
    BY <1>3 DEF CollectDelete
  <2>4. Deleted(desc[Current(b)], FALSE).meta = desc[Current(b)].meta
    BY <2>2, <1>0 DEF Deleted, BundleDescriptor
  <2>5. \A r \in Refs : desc'[r].meta = desc[r].meta
                        /\ (desc[r].deleted => desc'[r].deleted)
    BY <2>2, <2>3, <2>4, <1>0
  <2> QED BY <2>1, <2>5, <1>0, RecordFrame
<1>4. ASSUME NEW b \in Bundles, NEW g \in Gens, deleteBundle(<<b, g>>) PROVE RecordInv'
  <2>1. /\ UNCHANGED <<desc, newMeta>> /\ bundles' = [bundles EXCEPT ![b] = 0]
        /\ step' = [step EXCEPT ![b] = "unlink"]
        /\ db' = [db EXCEPT ![b] = NoRecord] \/ db' = db
        /\ \A c \in Bundles \ {b} : c \in interrupted' <=> c \in interrupted
        /\ db'[b] = NoRecord \/ b \in interrupted'
    BY <1>4 DEF deleteBundle, RemoveRecord
  <2> QED BY <2>1, <1>0, RecordRemoved
<1>5. ASSUME NEW b \in Bundles, UnlinkFile(b) PROVE RecordInv'
  <2>1. UNCHANGED <<bundles, desc, db, newMeta>> /\ interrupted \subseteq interrupted'
        /\ step' = [step EXCEPT ![b] = "idle"]
    BY <1>5 DEF UnlinkFile, memory
  <2> QED BY <2>1, <1>0, RecordFrame
<1>6. ASSUME NEW b \in Bundles, Expire(b) PROVE RecordInv'
  BY <1>6, RecordFrame DEF Expire, memory, disk
<1>7. CASE ShutdownStore
  BY <1>7, RecordFrame DEF ShutdownStore, memory, disk
<1>8. CASE InitialiseStore
  <2>1. UNCHANGED <<db, newMeta, interrupted, step>> /\ \A b \in Bundles : step[b] = "idle"
    BY <1>8 DEF InitialiseStore, disk, StoreInv, DiskInv, DownIsEmpty
  <2>2. ASSUME NEW b \in Bundles, Stored(b)'
        PROVE  db[b] # NoRecord /\ desc'[Current(b)'].meta = db[b]
    BY <1>8, <2>2, StoreAssumption
       DEF InitialiseStore, Stored, Current, NewBundleDescriptor, Refs, Gens
  <2>3. InsertionIsOnRecord'
    BY <2>1 DEF InsertionIsOnRecord
  <2>4. DescriptorKnowsRecord'
    BY <2>1, <2>2 DEF DescriptorKnowsRecord
  <2>5. HoldersHaveBundle'
    BY <2>1, HoldersAreNodes, HasBundleGrows DEF RecordInv, HoldersHaveBundle, Peers
  <2>6. KnownHoldersHaveBundle'
    BY <2>1, <2>2, HoldersAreNodes, HasBundleGrows
       DEF RecordInv, HoldersHaveBundle, KnownHoldersHaveBundle, Peers
  <2> QED BY <2>3, <2>4, <2>5, <2>6 DEF RecordInv
<1>9. CASE Crash
  <2>1. /\ db' = db /\ interrupted \subseteq interrupted'
        /\ \A b \in Bundles : step'[b] = "idle" /\ ~Stored(b)'
    BY <1>9 DEF Crash, Halt, disk, Stored
  <2>2. HoldersHaveBundle'
    BY <2>1, HoldersAreNodes, HasBundleGrows DEF RecordInv, HoldersHaveBundle, Peers
  <2> QED BY <2>1, <2>2 DEF RecordInv, InsertionIsOnRecord, DescriptorKnowsRecord,
                            KnownHoldersHaveBundle
<1> QED BY <1>1, <1>2, <1>3, <1>4, <1>5, <1>6, <1>7, <1>8, <1>9
        DEF StoreStep, Collection, Deletion

-----------------------------------------------------------------------------
(* What the goroutines rely on *)

\* As long as the process runs, no descriptor comes back to life, and a bundle
\* that is whole again has no live descriptor from before.
RefsKeepMeaning ==
    /\ \A b \in Bundles : alloc[b] <= alloc'[b]
    /\ \A r \in Refs : Allocated(r) /\ ~desc'[r].deleted =>
           ~desc[r].deleted /\ (r[1] \in interrupted => r[1] \in interrupted')

\* A call on a descriptor respects that, ...
LEMMA CallKeepsMeaning ==
    ASSUME StoreInv, NEW r \in Refs, DescriptorCall(r)
    PROVE  RefsKeepMeaning
<1>0. /\ desc \in [Refs -> BundleDescriptor] /\ alloc \in [Bundles -> Gens \cup {0}]
      /\ alloc' = alloc /\ interrupted' = interrupted
  BY DEF StoreInv, TypeOK, DescriptorCall, AddConstraint, RemoveConstraint,
         ResetConstraints, AddKnownHolder, SetMiscData, Delete
<1>1. \A q \in Refs : desc[q].deleted => desc'[q].deleted
  <2>1. \A q \in Refs \ {r} : desc'[q] = desc[q]
    BY <1>0 DEF DescriptorCall, AddConstraint, RemoveConstraint, ResetConstraints,
                AddKnownHolder, SetMiscData, Delete
  <2>2. ~desc[r].deleted \/ \E v \in MiscValues : SetMiscData(r, v)
    BY DEF DescriptorCall, AddConstraint, RemoveConstraint, ResetConstraints,
           AddKnownHolder, Delete
  <2>3. ASSUME NEW v \in MiscValues, SetMiscData(r, v)
        PROVE  desc'[r].deleted = desc[r].deleted
    BY <2>3, <1>0 DEF SetMiscData, BundleDescriptor
  <2> QED BY <2>1, <2>2, <2>3
<1> QED BY <1>0, <1>1, StoreAssumption DEF RefsKeepMeaning, Gens

\* ... and so does the holder of stateMutex.
LEMMA HolderKeepsMeaning ==
    ASSUME StoreInv, NEW b \in Bundles,
           Insertion(b) \/ Deletion(b) \/ Collection(b) \/ Expire(b)
    PROVE  RefsKeepMeaning
<1>0. /\ desc \in [Refs -> BundleDescriptor] /\ alloc \in [Bundles -> Gens \cup {0}]
      /\ bundles \in [Bundles -> Gens \cup {0}]
      /\ \A r \in Refs : r[1] \in Bundles /\ r[2] \in Gens /\ r[2] # 0
      /\ \A c \in Bundles : alloc[c] <= alloc[c]
      /\ \A r \in Refs : ~desc[r].deleted => bundles[r[1]] = r[2]
  BY StoreAssumption DEF StoreInv, TypeOK, Refs, Gens, DescriptorInv, OneLiveDescriptor
<1>1. ASSUME UNCHANGED <<desc, alloc>>, interrupted \subseteq interrupted'
      PROVE  RefsKeepMeaning
  BY <1>0, <1>1 DEF RefsKeepMeaning
<1>2. ASSUME NEW prev \in PreviousNode, InsertKnownBundle(b, prev) PROVE RefsKeepMeaning
  <2>1. CASE UNCHANGED storeVars
    BY <2>1, <1>1 DEF storeVars
  <2>2. ASSUME NEW n \in prev, AddKnownHolder(Current(b), n) PROVE RefsKeepMeaning
    <3>1. n \in Nodes /\ Current(b) \in Refs
      BY <1>0, <1>2 DEF PreviousNode, Current, InsertKnownBundle, Stored, Refs
    <3> QED BY <3>1, <2>2, CallKeepsMeaning DEF DescriptorCall
  <2> QED BY <2>1, <2>2, <1>2 DEF InsertKnownBundle
<1>3. CASE (\E prev \in PreviousNode : InsertNewBundle(b, prev)) \/ InsertNewBundleFails(b)
           \/ CreateFile(b) \/ WriteFileFails(b) \/ UnlinkFile(b) \/ CollectTest(b) \/ Expire(b)
  BY <1>3, <1>1 DEF InsertNewBundle, InsertNewBundleFails, CreateFile, WriteFileFails,
     UnlinkFile, CollectTest, Expire, storeVars, memory
<1>4. CASE CreateFileFails(b)
  <2>1. /\ UNCHANGED <<desc, alloc>> /\ bundles[b] = 0
        /\ \A c \in Bundles \ {b} : c \in interrupted => c \in interrupted'
    BY <1>4 DEF CreateFileFails, memory, StoreInv, DiskInv, StepsAreSound
  <2> QED BY <2>1, <1>0 DEF RefsKeepMeaning
<1>5. CASE WriteFile(b)
  <2> DEFINE g == alloc[b] + 1
  <2>1. /\ alloc' = [alloc EXCEPT ![b] = g] /\ bundles[b] = 0
        /\ desc' = [desc EXCEPT ![<<b, g>>] = NewBundleDescriptor(newMeta)]
        /\ \A c \in Bundles \ {b} : c \in interrupted => c \in interrupted'
    BY <1>5 DEF WriteFile, StoreInv, DiskInv, StepsAreSound
  <2>2. \A c \in Bundles : alloc[c] <= alloc'[c]
    BY <2>1, <1>0, StoreAssumption DEF Gens
  <2>3. ASSUME NEW r \in Refs, Allocated(r) PROVE desc'[r] = desc[r]
    <3>1. r # <<b, g>>
      BY <2>3, <1>0, StoreAssumption DEF Allocated, Gens
    <3> HIDE DEF g
    <3> QED BY <3>1, <2>1, <1>0
  <2> HIDE DEF g
  <2>4. \A r \in Refs : ~desc[r].deleted => r[1] # b
    BY <2>1, <1>0
  <2> QED BY <2>1, <2>2, <2>3, <2>4, <1>0 DEF RefsKeepMeaning
<1>6. ASSUME NEW g \in Gens, deleteBundle(<<b, g>>) PROVE RefsKeepMeaning
  <2>1. /\ UNCHANGED <<desc, alloc>> /\ <<b, g>> \in delq
        /\ \A c \in Bundles \ {b} : c \in interrupted => c \in interrupted'
    BY <1>6 DEF deleteBundle
  <2>2. desc[<<b, g>>].deleted /\ bundles[b] = g
    BY <2>1 DEF StoreInv, DescriptorInv, DeletesOwnDescriptor, Refs
  <2>3. \A r \in Refs : ~desc[r].deleted => r[1] # b
    BY <2>2, <1>0 DEF Refs
  <2> QED BY <2>1, <2>3, <1>0 DEF RefsKeepMeaning
<1>7. CASE CollectDelete(b)
  <2>1. UNCHANGED <<alloc, interrupted>>
    BY <1>7 DEF CollectDelete
  <2>2. \A r \in Refs : desc[r].deleted => desc'[r].deleted
    BY <1>7, <1>0 DEF CollectDelete
  <2> QED BY <2>1, <2>2, <1>0 DEF RefsKeepMeaning
<1> QED BY <1>2, <1>3, <1>4, <1>5, <1>6, <1>7 DEF Insertion, Deletion, Collection

\* SentIsReceived of one goroutine.
SentOk(f) ==
    /\ fw[f].pc # "send" => fw[f].sent = {}
    /\ fw[f].pc = "send" /\ ~desc[FwRef(f)].deleted /\ f[1] \notin interrupted =>
           fw[f].intact /\ \A p \in fw[f].sent : f[1] \in got[p]

\* A goroutine that does not move is not disturbed.
LEMMA SentFrame ==
    ASSUME PipeTypes, StoreInv, StoreInv', BoundInv, HistoryGrows, RefsKeepMeaning,
           NEW f \in Forwards, fw'[f] = fw[f]
    PROVE  SentOk(f)' /\ fw'[f].gen <= alloc'[f[1]]
<1>0. /\ f[1] \in Bundles /\ fw[f] \in ForwardState
      /\ alloc \in [Bundles -> Gens \cup {0}] /\ alloc' \in [Bundles -> Gens \cup {0}]
      /\ fw[f].gen <= alloc[f[1]]
      /\ SentOk(f)
  BY DEF PipeTypes, PipeTypeOK, StoreInv, TypeOK, Forwards, BoundInv, GoroutinesAreBound,
         SentIsReceived, SentOk
<1>1. fw'[f].gen <= alloc'[f[1]]
  BY <1>0, StoreAssumption DEF RefsKeepMeaning, ForwardState, Gens
<1>2. fw[f].pc # "none" => FwRef(f) \in Refs /\ Allocated(FwRef(f))
  BY <1>0, ForwardRef DEF Allocated, FwRef
<1>3. \A p \in fw[f].sent : p \in Peers
  BY <1>0 DEF ForwardState
<1>4. FwRef(f)' = FwRef(f) /\ FwRef(f)[1] = f[1]
  BY DEF FwRef
<1>5. SentOk(f)'
  BY <1>0, <1>2, <1>3, <1>4 DEF SentOk, RefsKeepMeaning, HistoryGrows
<1> QED BY <1>1, <1>5

\* What a step has to show of the goroutines that move.
FwMoves ==
    \A f \in Forwards : \/ fw'[f] = fw[f]
                        \/ SentOk(f)' /\ fw'[f].gen <= alloc'[f[1]]
RxMoves ==
    \A x \in Receives : \/ rx'[x] = rx[x]
                        \/ /\ rx'[x].prev \subseteq source'[x[1]]
                           /\ rx'[x].gen <= alloc'[x[1]]

\* The others are not disturbed, so that is enough.
LEMMA BoundFrame ==
    ASSUME PipeTypes, StoreInv, StoreInv', BoundInv, HistoryGrows, RefsKeepMeaning,
           FwMoves, RxMoves
    PROVE  BoundInv'
<1>1. \A f \in Forwards : SentOk(f)' /\ fw'[f].gen <= alloc'[f[1]]
  BY SentFrame DEF FwMoves
<1>2. ASSUME NEW x \in Receives
      PROVE  rx'[x].prev \subseteq source'[x[1]] /\ rx'[x].gen <= alloc'[x[1]]
  <2>1. /\ x[1] \in Bundles /\ rx[x] \in ReceiveState
        /\ alloc \in [Bundles -> Gens \cup {0}] /\ alloc' \in [Bundles -> Gens \cup {0}]
        /\ rx[x].gen <= alloc[x[1]] /\ rx[x].prev \subseteq source[x[1]]
    BY DEF PipeTypes, PipeTypeOK, StoreInv, TypeOK, Receives, BoundInv, GoroutinesAreBound,
           PreviousNodeIsSource
  <2>2. CASE rx'[x] = rx[x]
    BY <2>1, <2>2, StoreAssumption DEF RefsKeepMeaning, ReceiveState, Gens, HistoryGrows
  <2> QED BY <2>2 DEF RxMoves
<1> QED BY <1>1, <1>2 DEF BoundInv, GoroutinesAreBound, SentIsReceived, SentOk,
                          PreviousNodeIsSource

\* No goroutine of a kind moves.
LEMMA NobodyMoves == (fw' = fw => FwMoves) /\ (rx' = rx => RxMoves)
  BY DEF FwMoves, RxMoves

\* A goroutine that rests, or has just been started, has sent nothing.
LEMMA FreshSent ==
    /\ NoForward.pc # "send" /\ NoForward.sent = {} /\ NoForward.gen = 0
    /\ \A g \in Gens : Start(g).pc # "send" /\ Start(g).sent = {} /\ Start(g).gen = g
    /\ NoReceive.prev = {} /\ NoReceive.gen = 0
  BY DEF NoForward, Start, NoReceive

\* The steps of forwardingAsync: a peer enters `sent` when it has received the
\* bundle, complete if the copies of the bundle agree.
LEMMA ForwardBound ==
    ASSUME PipeTypes, StoreInv, StoreInv', BoundInv, HistoryGrows, RefsKeepMeaning,
           NEW f \in Forwards, Forward(f)
    PROVE  BoundInv'
<1>0. /\ f[1] \in Bundles /\ fw \in [Forwards -> ForwardState] /\ fw[f] \in ForwardState
      /\ got \in [Peers -> SUBSET Bundles]
      /\ alloc \in [Bundles -> Gens \cup {0}] /\ alloc' \in [Bundles -> Gens \cup {0}]
      /\ fw[f].gen <= alloc[f[1]] /\ SentOk(f)
  BY DEF PipeTypes, PipeTypeOK, StoreInv, TypeOK, Forwards, BoundInv, GoroutinesAreBound,
         SentIsReceived, SentOk
<1>1. /\ \A e \in Forwards \ {f} : fw'[e] = fw[e]
      /\ rx' = rx /\ fw[f].pc # "none"
  <2>1. rx' = rx
    BY DEF Forward, FwDeleted, FwAddConstraint, FwRemoveDispatchPending,
           FwGetSenders, FwSelectPeers, FwContraindicated, FwLoad, FwLoadFails,
           FwSend, FwSendFails, FwAddKnownHolder, FwRemoveForwardPending
  <2>2. fw[f].pc # "none"
    BY DEF Forward, FwDeleted, FwAt, FwAddConstraint, FwRemoveDispatchPending,
           FwGetSenders, FwSelectPeers, FwContraindicated, FwLoad, FwLoadFails,
           FwSend, FwSendFails, FwAddKnownHolder, FwRemoveForwardPending
  <2>3. \E s : FwGoto(f, s)
    BY DEF Forward, FwDeleted, FwAddConstraint, FwRemoveDispatchPending,
           FwGetSenders, FwSelectPeers, FwContraindicated, FwLoad, FwLoadFails,
           FwSend, FwSendFails, FwAddKnownHolder, FwRemoveForwardPending, FwEnd
  <2> QED BY <2>1, <2>2, <2>3, <1>0 DEF FwGoto
<1>2. SUFFICES SentOk(f)' /\ fw'[f].gen <= alloc'[f[1]]
  <2>1. ASSUME SentOk(f)' /\ fw'[f].gen <= alloc'[f[1]] PROVE FwMoves
    BY <2>1, <1>1 DEF FwMoves
  <2> QED BY <2>1, <1>1, BoundFrame, NobodyMoves
<1>3. FwRef(f) \in Refs /\ Allocated(FwRef(f)) /\ FwRef(f)[1] = f[1]
  BY <1>0, <1>1, ForwardRef DEF Allocated, FwRef
<1>4. CASE FwEnd(f)
  <2>1. fw'[f] = NoForward
    BY <1>0, <1>4 DEF FwEnd, FwGoto
  <2> QED BY <2>1, <1>0, FreshSent, StoreAssumption DEF SentOk, Gens
<1>5. ASSUME fw'[f].gen = fw[f].gen PROVE fw'[f].gen <= alloc'[f[1]] /\ FwRef(f)' = FwRef(f)
  BY <1>0, <1>5, StoreAssumption DEF RefsKeepMeaning, ForwardState, Gens, FwRef
<1>6. ASSUME fw'[f].gen = fw[f].gen, fw'[f].pc # "send", fw'[f].sent = fw[f].sent,
             fw[f].pc # "send"
      PROVE  SentOk(f)' /\ fw'[f].gen <= alloc'[f[1]]
  BY <1>0, <1>5, <1>6 DEF SentOk
<1>7. CASE FwAddConstraint(f) \/ FwRemoveDispatchPending(f) \/ FwGetSenders(f)
           \/ FwSelectPeers(f)
  <2>1. CASE FwAddConstraint(f)
    BY <2>1, <1>0, <1>6 DEF FwAddConstraint, FwAt, FwGoto, ForwardState
  <2>2. CASE FwRemoveDispatchPending(f)
    BY <2>2, <1>0, <1>6 DEF FwRemoveDispatchPending, FwAt, FwGoto, ForwardState
  <2>3. CASE FwGetSenders(f)
    BY <2>3, <1>0, <1>6 DEF FwGetSenders, FwAt, FwGoto, ForwardState
  <2>4. CASE FwSelectPeers(f)
    BY <2>4, <1>0, <1>6 DEF FwSelectPeers, FwAt, FwGoto, ForwardState
  <2> QED BY <1>7, <2>1, <2>2, <2>3, <2>4
<1>8. CASE FwLoad(f)
  <2>1. /\ fw'[f].gen = fw[f].gen /\ fw'[f].pc = "send" /\ fw'[f].sent = fw[f].sent
        /\ fw'[f].intact = (file[f[1]] = "full")
        /\ fw[f].pc = "load" /\ UNCHANGED storeVars
    BY <1>8, <1>0 DEF FwLoad, FwAt, FwGoto, ForwardState
  <2>2. fw[f].sent = {}
    BY <2>1, <1>0 DEF SentOk
  <2>3. ASSUME ~desc[FwRef(f)].deleted, f[1] \notin interrupted
        PROVE  file[f[1]] = "full"
    <3>1. Stored(f[1])
      BY <2>3, <1>3, StoreAssumption DEF StoreInv, DescriptorInv, OneLiveDescriptor,
         Stored, Refs, Gens
    <3>2. step[f[1]] \in {"idle", "visit", "collect"} /\ db[f[1]] # NoRecord
      BY <3>1, <1>0 DEF StoreInv, DiskInv, StepsAreSound, StoredHasRecord, Stored, TypeOK, Steps
    <3> QED BY <2>3, <3>2, <1>0 DEF StoreInv, DiskInv, CopiesAgree
  <2>4. UNCHANGED <<desc, interrupted>>
    BY <2>1 DEF storeVars
  <2>5. SentOk(f)'
    BY <2>1, <2>2, <2>3, <2>4, <1>5 DEF SentOk
  <2> QED BY <2>1, <2>5, <1>5
<1>9. ASSUME NEW p \in Peers, FwSend(f, p)
      PROVE  SentOk(f)' /\ fw'[f].gen <= alloc'[f[1]]
  <2>1. /\ fw'[f].gen = fw[f].gen /\ fw'[f].pc = "send" /\ fw'[f].sent = fw[f].sent \cup {p}
        /\ fw'[f].intact = fw[f].intact
        /\ fw[f].pc = "send" /\ UNCHANGED storeVars
        /\ fw[f].intact => got' = [got EXCEPT ![p] = @ \cup {f[1]}]
    BY <1>9, <1>0 DEF FwSend, FwAt, FwGoto, ForwardState
  <2>2. UNCHANGED <<desc, interrupted>>
    BY <2>1 DEF storeVars
  <2>3. \A q \in fw[f].sent : q \in Peers
    BY <1>0 DEF ForwardState
  <2>4. SentOk(f)'
    BY <2>1, <2>2, <2>3, <1>0, <1>5 DEF SentOk, HistoryGrows
  <2> QED BY <2>1, <2>4, <1>5
<1>10. ASSUME NEW p \in Peers, FwSendFails(f, p) \/ FwAddKnownHolder(f, p)
       PROVE  SentOk(f)' /\ fw'[f].gen <= alloc'[f[1]]
  <2>1. /\ fw'[f].gen = fw[f].gen /\ fw'[f].pc = "send" /\ fw'[f].sent \subseteq fw[f].sent
        /\ fw'[f].intact = fw[f].intact /\ fw[f].pc = "send"
    <3>1. CASE FwSendFails(f, p)
      BY <3>1, <1>0 DEF FwSendFails, FwAt, FwGoto, ForwardState
    <3>2. CASE FwAddKnownHolder(f, p)
      BY <3>2, <1>0 DEF FwAddKnownHolder, FwAt, FwGoto, ForwardState
    <3> QED BY <1>10, <3>1, <3>2
  <2>2. \A q \in fw[f].sent : q \in Peers
    BY <1>0 DEF ForwardState
  <2>3. SentOk(f)'
    BY <2>1, <2>2, <1>0, <1>3, <1>5 DEF SentOk, HistoryGrows, RefsKeepMeaning
  <2> QED BY <2>1, <2>3, <1>5
<1> QED BY <1>4, <1>7, <1>8, <1>9, <1>10
        DEF Forward, FwDeleted, FwContraindicated, FwLoadFails, FwRemoveForwardPending

\* The steps of receiveAsync.
LEMMA ReceiveBound ==
    ASSUME PipeTypes, StoreInv, StoreInv', BoundInv, HistoryGrows, RefsKeepMeaning,
           NEW x \in Receives, Receive(x)
    PROVE  BoundInv'
<1>0. /\ x[1] \in Bundles /\ rx \in [Receives -> ReceiveState] /\ rx[x] \in ReceiveState
      /\ fw \in [Forwards -> ForwardState]
      /\ alloc \in [Bundles -> Gens \cup {0}] /\ alloc' \in [Bundles -> Gens \cup {0}]
      /\ bundles \in [Bundles -> Gens \cup {0}]
      /\ bundles[x[1]] <= alloc[x[1]]
      /\ rx[x].gen <= alloc[x[1]] /\ rx[x].prev \subseteq source[x[1]]
      /\ source[x[1]] \subseteq source'[x[1]] /\ alloc[x[1]] <= alloc'[x[1]]
  BY DEF PipeTypes, PipeTypeOK, StoreInv, TypeOK, Receives, BoundInv, GoroutinesAreBound,
         PreviousNodeIsSource, DiskInv, StepsAreSound, HistoryGrows, RefsKeepMeaning
<1>1. rx[x].gen <= alloc'[x[1]] /\ bundles[x[1]] <= alloc'[x[1]] /\ 0 <= alloc'[x[1]]
  BY <1>0, StoreAssumption DEF ReceiveState, Gens
<1>2. ASSUME NEW s, RxGoto(x, s), s.prev \subseteq rx[x].prev, s.gen <= alloc'[x[1]]
      PROVE  RxMoves
  BY <1>0, <1>2 DEF RxGoto, RxMoves
<1>3. CASE RxEnd(x) /\ fw' = fw
  <2>1. NoReceive.prev \subseteq rx[x].prev /\ NoReceive.gen <= alloc'[x[1]]
    BY <1>1, FreshSent
  <2> QED BY <2>1, <1>2, <1>3, BoundFrame, NobodyMoves DEF RxEnd
<1>4. CASE RxKnownBundle(x) /\ ~RxEnd(x)
  <2> DEFINE s == [rx[x] EXCEPT !.pc = "check", !.gen = bundles[x[1]]]
  <2>1. RxGoto(x, s) /\ fw' = fw
    BY <1>4 DEF RxKnownBundle, Current
  <2>2. s.prev = rx[x].prev /\ s.gen = bundles[x[1]]
    BY <1>0 DEF ReceiveState
  <2> HIDE DEF s
  <2> QED BY <2>1, <2>2, <1>1, <1>2, BoundFrame, NobodyMoves
<1>5. CASE RxNewBundle(x)
  <2> DEFINE s == [rx[x] EXCEPT !.pc = "storing"]
  <2>1. RxGoto(x, s) /\ fw' = fw
    BY <1>5 DEF RxNewBundle
  <2>2. s.prev = rx[x].prev /\ s.gen = rx[x].gen
    BY <1>0 DEF ReceiveState
  <2> HIDE DEF s
  <2> QED BY <2>1, <2>2, <1>1, <1>2, BoundFrame, NobodyMoves
<1>6. CASE RxCreateFile(x)
  BY <1>6, BoundFrame, NobodyMoves DEF RxCreateFile, pipeVars
<1>7. CASE RxWriteFile(x)
  <2> DEFINE s == [rx[x] EXCEPT !.pc = "check", !.gen = alloc'[x[1]]]
  <2>1. RxGoto(x, s) /\ fw' = fw
    BY <1>7 DEF RxWriteFile
  <2>2. s.prev = rx[x].prev /\ s.gen = alloc'[x[1]] /\ s.gen <= alloc'[x[1]]
    BY <1>0, StoreAssumption DEF ReceiveState, Gens
  <2> HIDE DEF s
  <2> QED BY <2>1, <2>2, <1>2, BoundFrame, NobodyMoves
<1>8. CASE RxDispatch(x)
  <2>1. rx[x].gen \in Gens
    BY <1>0, <1>8 DEF RxDispatch, RxAt, PipeTypes, GoroutinesHaveDescriptors, ReceiveState
  <2>2. PICK f \in Forwards : f[1] = x[1] /\ FwGoto(f, Start(rx[x].gen))
    BY <1>8, SlotIsIdle DEF RxDispatch, Idle
  <2>3. \A e \in Forwards : fw'[e] = IF e = f THEN Start(rx[x].gen) ELSE fw[e]
    BY <2>2, <1>0 DEF FwGoto
  <2>4. SentOk(f)' /\ fw'[f].gen <= alloc'[f[1]]
    BY <2>1, <2>2, <2>3, <1>1, FreshSent DEF SentOk
  <2>5. NoReceive.prev \subseteq rx[x].prev /\ NoReceive.gen <= alloc'[x[1]]
    BY <1>1, FreshSent
  <2>6. RxMoves
    BY <1>2, <1>8, <2>5 DEF RxDispatch, RxEnd
  <2>7. FwMoves
    BY <2>3, <2>4 DEF FwMoves
  <2> QED BY <2>6, <2>7, BoundFrame
<1> QED BY <1>3, <1>4, <1>5, <1>6, <1>7, <1>8
        DEF Receive, RxKnownBundle, RxInsertFails, RxDone

\* What the node knows about holders stays right, whatever step it takes.
LEMMA KnowledgeNext ==
    ASSUME PipeTypes, StoreInv, StoreInv', KnowledgeInv, [Next]_vars
    PROVE  KnowledgeInv'
<1>0. RecordInv /\ BoundInv /\ HistoryGrows
  BY HistoryNext DEF KnowledgeInv, RecordInv, BoundInv
<1> SUFFICES RecordInv' /\ BoundInv'
  BY DEF KnowledgeInv, RecordInv, BoundInv
<1>1. ASSUME UNCHANGED storeVars PROVE RecordInv' /\ RefsKeepMeaning
  <2>1. UNCHANGED <<bundles, desc, alloc, db, interrupted, step, newMeta>>
    BY <1>1 DEF storeVars
  <2>2. \A b \in Bundles : alloc[b] <= alloc[b]
    BY StoreAssumption DEF StoreInv, TypeOK, Gens
  <2> QED BY <2>1, <2>2, <1>0, RecordFrame DEF RefsKeepMeaning
<1>2. ASSUME NEW f \in Forwards, Forward(f) PROVE RecordInv' /\ BoundInv'
  <2>1. RefsKeepMeaning
    BY <1>1, <1>2, ForwardCalls, CallKeepsMeaning
  <2>2. BoundInv'
    BY <2>1, <1>0, <1>2, ForwardBound
  <2>3. RecordInv'
    <3>1. FwRef(f) \in Refs /\ fw[f].pc # "none" /\ FwRef(f)[1] = f[1]
      <4>1. fw[f].pc # "none"
        BY <1>2 DEF Forward, FwDeleted, FwAt, FwAddConstraint, FwRemoveDispatchPending,
           FwGetSenders, FwSelectPeers, FwContraindicated, FwLoad, FwLoadFails,
           FwSend, FwSendFails, FwAddKnownHolder, FwRemoveForwardPending
      <4> QED BY <4>1, ForwardRef DEF FwRef
    <3>2. "ForwardPending" \in Constraint /\ "DispatchPending" \in Constraint
      BY DEF Constraint
    <3>3. ASSUME NEW p \in Peers, FwAddKnownHolder(f, p), ~desc[FwRef(f)].deleted
          PROVE  RecordInv'
      <4>1. AddKnownHolder(FwRef(f), p) /\ fw[f].pc = "send" /\ p \in fw[f].sent
        BY <3>3 DEF FwAddKnownHolder, FwAt
      <4>2. f[1] \notin interrupted => f[1] \in got[p]
        BY <4>1, <3>3, <1>0 DEF BoundInv, SentIsReceived
      <4>3. f[1] \notin interrupted => HasBundle(f[1], p)'
        BY <4>2, <3>3, <1>0, HasBundleGrows DEF HasBundle, Forwards
      <4> QED BY <4>1, <4>3, <3>1, <1>0, HolderRecorded
    <3> QED BY <3>1, <3>2, <3>3, <1>0, <1>1, <1>2, QuietCall
            DEF Forward, FwDeleted, FwAddConstraint, FwRemoveDispatchPending,
                FwGetSenders, FwSelectPeers, FwContraindicated, FwLoad, FwLoadFails,
                FwSend, FwSendFails, FwAddKnownHolder, FwRemoveForwardPending
  <2> QED BY <2>2, <2>3
<1>3. ASSUME NEW x \in Receives, Receive(x) PROVE RecordInv' /\ BoundInv'
  <2>0. x[1] \in Bundles /\ rx[x].prev \in PreviousNode /\ rx[x].prev \subseteq source[x[1]]
    BY <1>0 DEF PipeTypes, PipeTypeOK, ReceiveState, Receives, BoundInv, PreviousNodeIsSource
  <2>1. RefsKeepMeaning
    BY <1>1, <1>3, ReceiveInserts, HolderKeepsMeaning
  <2>2. BoundInv'
    BY <2>1, <1>0, <1>3, ReceiveBound
  <2>3. RecordInv'
    <3>1. ASSUME NEW n \in rx[x].prev, Stored(x[1]), AddKnownHolder(Current(x[1]), n)
          PROVE  RecordInv'
      <4>1. n \in Peers /\ HasBundle(x[1], n)
        BY <2>0, <3>1 DEF PreviousNode, Peers, HasBundle
      <4>2. HasBundle(x[1], n)'
        BY <4>1, <2>0, <1>0, HasBundleGrows
      <4>3. Current(x[1]) \in Refs /\ Current(x[1])[1] = x[1]
        BY <2>0, <3>1, HoldersAreNodes DEF Current
      <4> QED BY <4>1, <4>2, <4>3, <3>1, <1>0, HolderRecorded
    <3>2. CASE RxKnownBundle(x)
      BY <3>1, <3>2, <1>1 DEF RxKnownBundle, InsertKnownBundle
    <3>3. CASE RxNewBundle(x)
      BY <3>3, <2>0, <1>0, InsertNewRecord DEF RxNewBundle
    <3>4. CASE RxCreateFile(x) \/ RxWriteFile(x) \/ RxInsertFails(x)
      BY <3>4, <2>0, <1>0, <1>1, InsertionRecord
         DEF RxCreateFile, RxWriteFile, RxInsertFails, InsertNewBundleFails
    <3>5. CASE RxDispatch(x) \/ RxDone(x)
      BY <3>5, <1>1 DEF RxDispatch, RxDone
    <3> QED BY <3>2, <3>3, <3>4, <3>5, <1>3 DEF Receive
  <2> QED BY <2>2, <2>3
<1>4. CASE DispatchPending
  <2>1. RecordInv' /\ RefsKeepMeaning
    BY <1>1, <1>4 DEF DispatchPending
  <2>2. ASSUME NEW f \in Forwards
        PROVE  fw'[f] = fw[f] \/ (SentOk(f)' /\ fw'[f].gen <= alloc'[f[1]])
    <3>1. fw'[f] = IF f[1] \in GetDispatchable /\ f = Slot(f[1])
                   THEN Start(bundles[f[1]]) ELSE fw[f]
      BY <1>4 DEF DispatchPending
    <3>2. CASE f[1] \in GetDispatchable
      <4>1. f[1] \in Bundles /\ bundles[f[1]] \in Gens /\ bundles[f[1]] <= alloc[f[1]]
        BY <3>2 DEF GetDispatchable, Stored, StoreInv, TypeOK, DiskInv, StepsAreSound
      <4>2. alloc' = alloc
        BY <1>4 DEF DispatchPending, storeVars
      <4> QED BY <3>1, <4>1, <4>2, FreshSent DEF SentOk
    <3> QED BY <3>1, <3>2
  <2>3. RxMoves
    BY <1>4, NobodyMoves DEF DispatchPending
  <2>4. FwMoves
    BY <2>2 DEF FwMoves
  <2> QED BY <2>1, <2>3, <2>4, <1>0, BoundFrame
<1>5. ASSUME NEW x \in Receives, NEW from \in PreviousNode, ReceiveBundle(x, from)
      PROVE  RecordInv' /\ BoundInv'
  <2>1. RecordInv' /\ RefsKeepMeaning /\ fw' = fw
    BY <1>1, <1>5 DEF ReceiveBundle
  <2> DEFINE s == [NoReceive EXCEPT !.pc = "insert", !.prev = from]
  <2>2. RxGoto(x, s) /\ from \subseteq source'[x[1]] /\ x[1] \in Bundles
    BY <1>5 DEF ReceiveBundle, PipeTypes, PipeTypeOK, Receives
  <2>3. s.prev = from /\ s.gen = 0
    BY DEF NoReceive
  <2>4. 0 <= alloc'[x[1]]
    BY <2>2, StoreAssumption DEF StoreInv, TypeOK, Gens
  <2> HIDE DEF s
  <2>5. RxMoves
    BY <2>2, <2>3, <2>4 DEF RxGoto, PipeTypes, PipeTypeOK, RxMoves
  <2> QED BY <2>1, <2>5, <1>0, BoundFrame, NobodyMoves
<1>6. ASSUME NEW p \in Peers, Connect(p) \/ Disconnect(p) PROVE RecordInv' /\ BoundInv'
  BY <1>0, <1>1, <1>6, BoundFrame, NobodyMoves DEF Connect, Disconnect
<1>7. CASE StoreStep
  <2>1. RecordInv'
    BY <1>0, <1>7, StoreStepRecord
  <2>2. fw' = fw /\ rx' = rx
    BY <1>7 DEF StoreStep, pipeVars
  <2>3. CASE InitialiseStore
    <3>1. phase = "down" /\ \A b \in Bundles : alloc[b] = 0
      BY <2>3 DEF InitialiseStore, StoreInv, DiskInv, DownIsEmpty
    <3>2. \A b \in Bundles : 0 <= alloc'[b]
      BY StoreAssumption DEF StoreInv, TypeOK, Gens
    <3>3. \A f \in Forwards : f[1] \in Bundles /\ fw[f].gen = 0 /\ fw[f].pc = "none"
      BY <3>1, <1>0, StoreAssumption DEF BoundInv, GoroutinesAreBound, Forwards, PipeTypes,
         PipeTypeOK, ForwardState, Gens, GoroutinesHaveDescriptors
    <3>4. \A x \in Receives : x[1] \in Bundles /\ rx[x].gen = 0
      BY <3>1, <1>0, StoreAssumption DEF BoundInv, GoroutinesAreBound, Receives, PipeTypes,
         PipeTypeOK, ReceiveState, Gens
    <3>5. source' = source
      BY <1>7 DEF StoreStep, pipeVars
    <3> QED BY <2>1, <2>2, <3>2, <3>3, <3>4, <3>5, <1>0
            DEF BoundInv, GoroutinesAreBound, SentIsReceived, PreviousNodeIsSource
  <2>4. CASE GarbageCollect \/ ShutdownStore
    <3>1. UNCHANGED <<desc, alloc, interrupted>>
      BY <2>4 DEF GarbageCollect, ShutdownStore, memory
    <3>2. \A b \in Bundles : alloc[b] <= alloc[b]
      BY StoreAssumption DEF StoreInv, TypeOK, Gens
    <3> QED BY <2>1, <2>2, <3>1, <3>2, <1>0, BoundFrame, NobodyMoves DEF RefsKeepMeaning
  <2>5. CASE \E b \in Bundles : Collection(b) \/ Deletion(b) \/ Expire(b)
    BY <2>1, <2>2, <2>5, <1>0, HolderKeepsMeaning, BoundFrame, NobodyMoves
  <2> QED BY <2>3, <2>4, <2>5, <1>7 DEF StoreStep
<1>8. CASE Crash
  <2>1. RecordInv'
    BY <1>0, <1>8, StoreStepRecord
  <2>2. \A b \in Bundles : 0 <= alloc'[b]
    BY StoreAssumption DEF StoreInv, TypeOK, Gens
  <2>3. \A f \in Forwards : f[1] \in Bundles /\ fw'[f] = NoForward
    BY <1>8 DEF Crash, Forwards
  <2>4. \A x \in Receives : x[1] \in Bundles /\ rx'[x] = NoReceive
    BY <1>8 DEF Crash, Receives
  <2> QED BY <2>1, <2>2, <2>3, <2>4, FreshSent
          DEF BoundInv, GoroutinesAreBound, SentIsReceived, PreviousNodeIsSource
<1>9. CASE UNCHANGED vars
  BY <1>0, <1>1, <1>9, BoundFrame, NobodyMoves DEF vars, pipeVars
<1> QED BY <1>2, <1>3, <1>4, <1>5, <1>6, <1>7, <1>8, <1>9 DEF Next

\* No step takes a holder off a record that stays: only AddKnownHolder rewrites a
\* record, from a descriptor that knows all holders on it.
LEMMA HoldersKeptNext ==
    ASSUME PipeTypes, StoreInv, KnowledgeInv, [Next]_vars, NEW b \in Bundles,
           db[b] # NoRecord, db'[b] # NoRecord
    PROVE  db[b].holders \subseteq db'[b].holders
<1>0. /\ desc \in [Refs -> BundleDescriptor]
      /\ db \in [Bundles -> BundleMetadata \cup {NoRecord}]
  BY DEF StoreInv, TypeOK
<1>1. ASSUME db' = db PROVE db[b].holders \subseteq db'[b].holders
  BY <1>1
<1>2. ASSUME NEW r \in Refs, NEW n, AddKnownHolder(r, n)
      PROVE  db[b].holders \subseteq db'[b].holders
  <2>1. ~desc[r].deleted /\ r[1] \in Bundles /\ Current(r[1]) = r /\ Stored(r[1])
    BY <1>2, StoreAssumption DEF AddKnownHolder, StoreInv, DescriptorInv,
       OneLiveDescriptor, Current, Stored, Refs, Gens
  <2>2. db[r[1]].holders \subseteq desc[r].meta.holders
    BY <2>1 DEF KnowledgeInv, DescriptorKnowsRecord
  <2>3. desc'[r].meta.holders = desc[r].meta.holders \cup {n}
    BY <1>0, <1>2 DEF AddKnownHolder, BundleDescriptor, BundleMetadata
  <2>4. db' = db \/ db' = [db EXCEPT ![r[1]] = desc'[r].meta]
    BY <1>2 DEF AddKnownHolder, updateBundleMetadata
  <2> QED BY <2>1, <2>2, <2>3, <2>4, <1>0
<1>3. ASSUME NEW f \in Forwards, Forward(f)
      PROVE  db[b].holders \subseteq db'[b].holders
  <2>1. db' = db \/ \E p \in Peers : FwAddKnownHolder(f, p)
    BY <1>3 DEF Forward, FwDeleted, FwAddConstraint, FwRemoveDispatchPending,
       FwGetSenders, FwSelectPeers, FwContraindicated, FwLoad, FwLoadFails,
       FwSend, FwSendFails, FwRemoveForwardPending, storeVars, AddConstraint,
       RemoveConstraint, ResetConstraints, disk
  <2>2. ASSUME NEW p \in Peers, FwAddKnownHolder(f, p)
        PROVE  db[b].holders \subseteq db'[b].holders
    <3>1. FwRef(f) \in Refs
      BY <2>2, ForwardRef DEF FwAddKnownHolder, FwAt
    <3> QED BY <2>2, <3>1, <1>1, <1>2 DEF FwAddKnownHolder, storeVars
  <2> QED BY <2>1, <2>2, <1>1
<1>4. ASSUME NEW c \in Bundles, Insertion(c) \/ Deletion(c) \/ Collection(c) \/ Expire(c)
      PROVE  db[b].holders \subseteq db'[b].holders
  <2>1. ASSUME NEW prev \in PreviousNode, InsertKnownBundle(c, prev)
        PROVE  db[b].holders \subseteq db'[b].holders
    <3>1. Current(c) \in Refs
      BY <2>1, HoldersAreNodes DEF InsertKnownBundle
    <3> QED BY <2>1, <3>1, <1>1, <1>2 DEF InsertKnownBundle, storeVars
  <2>2. ASSUME NEW prev \in PreviousNode, InsertNewBundle(c, prev) PROVE db'[b] = db[b]
    BY <2>2, <1>0 DEF InsertNewBundle
  <2>3. ASSUME CreateFileFails(c) \/ \E g \in Gens : deleteBundle(<<c, g>>)
        PROVE  db'[b] = db[b]
    BY <2>3, <1>0 DEF CreateFileFails, deleteBundle, RemoveRecord
  <2>4. CASE InsertNewBundleFails(c) \/ CreateFile(c) \/ WriteFile(c) \/ WriteFileFails(c)
             \/ UnlinkFile(c) \/ CollectTest(c) \/ CollectDelete(c) \/ Expire(c)
    BY <2>4, <1>1 DEF InsertNewBundleFails, CreateFile, WriteFile, WriteFileFails,
       UnlinkFile, CollectTest, CollectDelete, Expire, storeVars, disk
  <2> QED BY <1>4, <2>1, <2>2, <2>3, <2>4 DEF Insertion, Deletion, Collection
<1>5. ASSUME NEW x \in Receives, Receive(x)
      PROVE  db[b].holders \subseteq db'[b].holders
  BY <1>1, <1>4, <1>5, ReceiveInserts DEF storeVars
<1>6. CASE StoreStep
  BY <1>1, <1>4, <1>6 DEF StoreStep, GarbageCollect, InitialiseStore, ShutdownStore, disk
<1>7. CASE Crash
  BY <1>1, <1>7 DEF Crash, Halt, disk
<1> QED
  BY <1>1, <1>3, <1>5, <1>6, <1>7 DEF Next, DispatchPending, ReceiveBundle, Connect,
     Disconnect, vars, storeVars

-----------------------------------------------------------------------------
(* The theorems *)

NodeInv == StoreInv /\ PipeTypes /\ MarkHasForwarder /\ KnowledgeInv

\* The invariant of the node: the store's and the pipeline's together, since
\* each needs the other.
LEMMA NodeInvariant == Spec => []NodeInv
<1>1. Init => NodeInv
  <2> SUFFICES ASSUME Init PROVE NodeInv
    OBVIOUS
  <2>1. StoreInv
    BY StoreInvInit DEF Init
  <2>2. PipeTypes
    BY RestTypes DEF Init, PipeTypes, PipeTypeOK, GoroutinesHaveDescriptors
  <2>3. MarkHasForwarder
    BY DEF Init, StoreInit, MarkHasForwarder, Live
  <2>4. RecordInv
    BY DEF Init, StoreInit, RecordInv, InsertionIsOnRecord, DescriptorKnowsRecord,
           HoldersHaveBundle, KnownHoldersHaveBundle, Stored
  <2>5. BoundInv
    <3>1. \A f \in Forwards : f[1] \in Bundles /\ fw[f] = NoForward
      BY DEF Init, Forwards
    <3>2. \A x \in Receives : x[1] \in Bundles /\ rx[x] = NoReceive
      BY DEF Init, Receives
    <3>3. \A b \in Bundles : alloc[b] = 0
      BY DEF Init, StoreInit
    <3> QED BY <3>1, <3>2, <3>3, FreshSent
            DEF BoundInv, GoroutinesAreBound, SentIsReceived, PreviousNodeIsSource
  <2> QED BY <2>1, <2>2, <2>3, <2>4, <2>5 DEF NodeInv, KnowledgeInv, RecordInv, BoundInv
<1>2. NodeInv /\ [Next]_vars => NodeInv'
  <2> SUFFICES ASSUME NodeInv, [Next]_vars PROVE NodeInv'
    OBVIOUS
  <2>1. StoreInv'
    BY NextImplementsStore, StoreInvNext DEF NodeInv
  <2>2. PipeTypes'
    BY <2>1, PipeTypesNext DEF NodeInv
  <2>3. MarkHasForwarder'
    BY MarkNext DEF NodeInv
  <2>4. KnowledgeInv'
    BY <2>1, KnowledgeNext DEF NodeInv
  <2> QED BY <2>1, <2>2, <2>3, <2>4 DEF NodeInv
<1> QED BY <1>1, <1>2, PTL DEF Spec

\* Whatever fails and whenever the process ends, a ForwardPending mark is
\* forgotten in one way only: by a forwardingAsync that could not load the bundle.
\* In every other case a forwarding goroutine is there to take it away.
THEOREM NoForgottenMark == Spec => []MarkHasForwarder
<1>1. NodeInv => MarkHasForwarder
  BY DEF NodeInv
<1> QED BY <1>1, NodeInvariant, PTL

\* In the running node, too, no bundle with retention constraints is deleted.
THEOREM NodeNeverDeletesConstrained == Spec => []DeletedIsUnconstrained
<1>1. NodeInv => DeletedIsUnconstrained
  BY DEF NodeInv, StoreInv, DescriptorInv
<1> QED BY <1>1, NodeInvariant, PTL

\* Whoever a record names as a holder has the bundle, unless the bundle's last
\* insertion or deletion was cut short: no failed Send, no goroutine that outlived
\* its descriptor and no restart puts a node there that never received it.
THEOREM RecordedHoldersHaveBundle == Spec => []HoldersHaveBundle
<1>1. NodeInv => HoldersHaveBundle
  BY DEF NodeInv, KnowledgeInv
<1> QED BY <1>1, NodeInvariant, PTL

\* No holder is ever taken off a record that stays, although several goroutines
\* rewrite it from their own descriptors and an Update may fail.
THEOREM NodeKeepsHolders == Spec => HoldersKept
<1>1. NodeInv /\ [Next]_vars =>
          [\A b \in Bundles : db[b] # NoRecord /\ db'[b] # NoRecord =>
               db[b].holders \subseteq db'[b].holders]_storeVars
  BY HoldersKeptNext DEF NodeInv
<1> QED BY <1>1, NodeInvariant, PTL DEF Spec, HoldersKept

\* If no Update of the database fails, the record of a live descriptor always
\* equals its metadata, whatever else fails and whenever the process ends.
THEOREM NodePersistsMetadata ==
    ASSUME "update" \notin Faults
    PROVE  Spec => []MetadataPersisted
<1>1. NodeInv => MetadataPersisted
  BY DEF NodeInv, KnowledgeInv, DescriptorKnowsRecord, MetadataPersisted
<1> QED BY <1>1, NodeInvariant, PTL
=============================================================================
