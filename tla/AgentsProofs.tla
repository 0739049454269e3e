----------------------------- MODULE AgentsProofs -----------------------------
(***************************************************************************)
(* Proofs about Agents, for any number of agents' endpoints, bundles,        *)
(* requests and mailboxes.                                                   *)
(***************************************************************************)
EXTENDS Agents, TLAPS

\* The resting states of the goroutines have the types of the running ones.
LEMMA RestingTypes ==
    /\ NoClient \in Client /\ NoDelivery \in DeliveryState
    /\ NoRequest \in RequestState /\ NoGC \in GCState
<1>1. PICK e \in Eids : TRUE
  BY AgentsAssumption
<1>2. (CHOOSE e2 \in Eids : TRUE) \in Eids
  BY <1>1
<1>3. (CHOOSE k \in Keys : TRUE) \in Keys
  <2>1. <<"rest", e>> \in Keys
    BY DEF Keys, AgentNames
  <2> QED BY <2>1
<1>4. 0 \in 0 .. MaxBoxes
  BY AgentsAssumption
<1>5. NoClient \in Client
  BY <1>2 DEF NoClient, Client
<1>6. NoRequest \in RequestState
  BY <1>3, <1>4 DEF NoRequest, RequestState, Kinds
<1> QED
  BY <1>4, <1>5, <1>6 DEF NoDelivery, DeliveryState, NoGC, GCState, AgentNames

\* Between two agents, or at its end, a delivery is in no mailbox.
LEMMA ContinueRests ==
    ASSUME NEW todo \in SUBSET AgentNames
    PROVE  Continue(todo) \in DeliveryState /\ Continue(todo).pc # "box"
<1>1. CASE todo = {}
  BY <1>1, RestingTypes DEF Continue, NoDelivery
<1>2. CASE todo # {}
  <2>1. /\ [NoDelivery EXCEPT !.pc = "agents", !.todo = todo] \in DeliveryState
        /\ [NoDelivery EXCEPT !.pc = "agents", !.todo = todo].pc # "box"
    BY RestingTypes DEF NoDelivery, DeliveryState
  <2> QED BY <1>2, <2>1 DEF Continue
<1> QED BY <1>1, <1>2

\* The variables a process begins with.
LEMMA FreshTypes ==
    ASSUME instance \in Instances,
           ForgetAgents, agents' \subseteq AgentNames, singleton' \in BOOLEAN,
           serving' \in BOOLEAN, view' \in [Bundles -> Views]
    PROVE  AgentsInv'
<1> USE AgentsAssumption, RestingTypes
<1>1. AgentsTypeOK'
  BY DEF ForgetAgents, AgentsTypeOK, Message, Fate
<1>2. BoxesAreMade' /\ DeliveryHoldsBank'
  BY DEF ForgetAgents, BoxesAreMade, DeliveryHoldsBank, NoDelivery, NoRequest
<1>3. RemoverIsAlone' /\ RequestCovers'
  BY DEF ForgetAgents, RemoverIsAlone, RequestCovers, NoRequest, NoGC
<1> QED BY <1>1, <1>2, <1>3 DEF AgentsInv

\* The first state.
LEMMA AgentsInvInit == AgentsInit => AgentsInv
<1> SUFFICES ASSUME AgentsInit PROVE AgentsInv
  OBVIOUS
<1> USE AgentsAssumption, RestingTypes
<1>1. AgentsTypeOK
  <2>1. serving \in BOOLEAN /\ singleton \in BOOLEAN
    BY DEF AgentsInit, ViewInit
  <2>2. view \in [Bundles -> Views]
    BY DEF AgentsInit, ViewInit, Views
  <2>3. messages \in [Boxes -> [Bundles -> Message]] /\ fate \in [Boxes -> [Bundles -> Fate]]
    BY DEF AgentsInit, Message, Fate
  <2> QED BY <2>1, <2>2, <2>3 DEF AgentsInit, AgentsTypeOK
<1>2. BoxesAreMade /\ DeliveryHoldsBank
  BY DEF AgentsInit, BoxesAreMade, DeliveryHoldsBank, NoDelivery, NoRequest
<1>3. RemoverIsAlone /\ RequestCovers
  BY DEF AgentsInit, RemoverIsAlone, RequestCovers, NoRequest, NoGC
<1> QED BY <1>1, <1>2, <1>3 DEF AgentsInv

\* A mailbox in use exists.
LEMMA BoxInUse ==
    ASSUME AgentsInv
    PROVE  /\ \A q \in Requests : request[q].pc \in {"lock", "load"} => BoxOf(q) \in Boxes
           /\ \A b \in Bundles : delivery[b].pc = "box" =>
                  delivery[b].box \in Boxes
  BY AgentsAssumption
     DEF AgentsInv, AgentsTypeOK, BoxesAreMade, BoxOf, Boxes, Keys, RequestState,
         DeliveryState

\* A step that leaves mailboxes, requests and their collection alone keeps what
\* is known about them.
LEMMA RequestsUntouched ==
    ASSUME RemoverIsAlone, RequestCovers, UNCHANGED <<messages, request, gc>>
    PROVE  RemoverIsAlone' /\ RequestCovers'
  BY DEF RemoverIsAlone, RequestCovers, Covered, Loading, BoxOf, Listed

\* The manager's and the bank's part of a delivery.
LEMMA ManagerInv ==
    ASSUME AgentsInv,
           StoreStep \/ ShutdownStore \/ ShutdownAAManager \/ ShutdownUNIXAgent
    PROVE  AgentsInv'
<1>1. AgentsTypeOK'
  BY DEF AgentsInv, AgentsTypeOK, StoreStep, ShutdownStore, ShutdownAAManager,
         ShutdownUNIXAgent, ViewStep, ViewInsert, ViewDelete, ViewRemove, ViewClose,
         viewVars, managerVars, agentVars, Views
<1>2. UNCHANGED <<bank, delivery, request, gc, messages>>
  BY DEF StoreStep, ShutdownStore, ShutdownAAManager, ShutdownUNIXAgent, agentVars
<1>3. BoxesAreMade' /\ DeliveryHoldsBank'
  BY <1>2 DEF AgentsInv, BoxesAreMade, DeliveryHoldsBank
<1> QED BY <1>1, <1>2, <1>3, RequestsUntouched DEF AgentsInv

\* A delivery.
LEMMA DeliveryInv ==
    ASSUME AgentsInv, NEW b \in Bundles, DeliveryStep(b)
    PROVE  AgentsInv'
<1> USE AgentsAssumption, RestingTypes
<1>0. /\ AgentsTypeOK /\ BoxesAreMade /\ DeliveryHoldsBank /\ RemoverIsAlone /\ RequestCovers
      /\ delivery[b] \in DeliveryState /\ Dest[b] \in Eids
  BY DEF AgentsInv, AgentsTypeOK
<1>1. CASE Delivery(b)
  <2>1. AgentsTypeOK'
    BY <1>0, <1>1 DEF Delivery, AgentsTypeOK, DeliveryState, viewVars, managerVars
  <2>2. BoxesAreMade' /\ DeliveryHoldsBank'
    BY <1>0, <1>1 DEF Delivery, BoxesAreMade, DeliveryHoldsBank, AgentsTypeOK
  <2> QED BY <2>1, <2>2, <1>0, <1>1, RequestsUntouched DEF AgentsInv, Delivery
<1>2. ASSUME NEW a \in AgentNames, NEW current \in BOOLEAN, BankDeliver(b, a, current) PROVE AgentsInv'
  <2> DEFINE box == bank[<<a, Dest[b]>>]
             rest == delivery[b].todo \ {a}
             held == [pc |-> "box", todo |-> rest, agent |-> a, box |-> box]
  <2>0. box \in 0 .. MaxBoxes /\ rest \in SUBSET AgentNames
    BY <1>0 DEF AgentsTypeOK, Keys, DeliveryState
  <2>1. PICK d2 \in DeliveryState :
            /\ delivery' = [delivery EXCEPT ![b] = d2]
            /\ d2.pc = "box" => d2.agent = a /\ d2.box = box /\ box # 0
    <3>1. held \in DeliveryState /\ held.agent = a /\ held.box = box
      BY <2>0 DEF DeliveryState
    <3>2. Continue(rest) \in DeliveryState /\ Continue(rest).pc # "box"
      BY <2>0, ContinueRests
    <3>3. \/ delivery' = [delivery EXCEPT ![b] = held] /\ box # 0
          \/ delivery' = [delivery EXCEPT ![b] = Continue(rest)]
      BY <1>2 DEF BankDeliver
    <3> HIDE DEF held, rest, box
    <3> QED BY <3>1, <3>2, <3>3
  <2>2. AgentsTypeOK'
    BY <2>1, <1>0, <1>2 DEF BankDeliver, AgentsTypeOK, viewVars, managerVars
  <2>3. \A p \in Bundles : delivery'[p] = IF p = b THEN d2 ELSE delivery[p]
    BY <2>1, <1>0 DEF AgentsTypeOK
  <2>4. BoxesAreMade'
    BY <2>1, <2>3, <1>0, <1>2 DEF BankDeliver, BoxesAreMade
  <2>5. DeliveryHoldsBank'
    BY <2>1, <2>3, <1>0, <1>2 DEF BankDeliver, DeliveryHoldsBank
  <2> QED BY <2>2, <2>4, <2>5, <1>0, <1>2, RequestsUntouched DEF AgentsInv, BankDeliver
<1>3. CASE MailboxDeliver(b)
  <2> DEFINE x == delivery[b].box
  <2>0. x \in Boxes /\ CanLock(x)
    BY <1>3, BoxInUse DEF MailboxDeliver
  <2>1. AgentsTypeOK'
    <3>1. messages' \in [Boxes -> [Bundles -> Message]]
      <4>1. messages \in [Boxes -> [Bundles -> Message]]
        BY <1>0 DEF AgentsTypeOK
      <4>2. \/ messages' = messages
            \/ messages' = [messages EXCEPT ![x] = [@ EXCEPT ![b] = "new"]]
        BY <1>3 DEF MailboxDeliver
      <4>3. "new" \in Message
        BY DEF Message
      <4>4. [messages[x] EXCEPT ![b] = "new"] \in [Bundles -> Message]
        BY <4>1, <4>3, <2>0
      <4> HIDE DEF x
      <4> QED BY <4>1, <4>2, <4>4, <2>0
    <3>2. Continue(delivery[b].todo) \in DeliveryState
      BY <1>0, ContinueRests DEF DeliveryState
    <3>3. delivery' \in [Bundles -> DeliveryState]
      BY <3>2, <1>0, <1>3 DEF MailboxDeliver, AgentsTypeOK
    <3> QED BY <3>1, <3>3, <1>0, <1>3 DEF MailboxDeliver, AgentsTypeOK, viewVars, managerVars
  <2>2. BoxesAreMade' /\ DeliveryHoldsBank'
    BY <1>0, <1>3, ContinueRests
       DEF MailboxDeliver, BoxesAreMade, DeliveryHoldsBank, AgentsTypeOK, DeliveryState
  <2>3. UNCHANGED <<request, gc>>
    BY <1>3 DEF MailboxDeliver
  <2>4. RemoverIsAlone'
    BY <2>3, <1>0 DEF RemoverIsAlone, Loading, BoxOf
  <2>5. ASSUME NEW q \in Requests, request[q].pc = "load"
        PROVE  BoxOf(q) \in Boxes /\ messages'[BoxOf(q)] = messages[BoxOf(q)]
    <3>1. BoxOf(q) \in Boxes /\ BoxOf(q) # x
      BY <2>0, <2>5, BoxInUse DEF CanLock, Loading
    <3> QED BY <3>1, <2>0, <1>0, <1>3 DEF MailboxDeliver, AgentsTypeOK
  <2>6. RequestCovers'
    BY <2>3, <2>5, <1>0 DEF RequestCovers, Covered, BoxOf, Listed
  <2> QED BY <2>1, <2>2, <2>4, <2>6 DEF AgentsInv
<1> QED BY <1>1, <1>2, <1>3 DEF DeliveryStep

\* Register and Unregister wait for the deliveries of their bank.
LEMMA BankInv ==
    ASSUME AgentsInv, NEW k \in Keys, Register(k) \/ Unregister(k), UNCHANGED delivery
    PROVE  /\ bank' \in [Keys -> 0 .. MaxBoxes] /\ made' \in 0 .. MaxBoxes
           /\ DeliveryHoldsBank'
<1> USE AgentsAssumption
<1>0. /\ bank \in [Keys -> 0 .. MaxBoxes] /\ made \in 0 .. MaxBoxes
      /\ delivery \in [Bundles -> DeliveryState] /\ BankFree(k[1])
      /\ instance.boxes \in 1 .. MaxBoxes
  BY DEF AgentsInv, AgentsTypeOK, Register, Unregister
<1>1. bank' \in [Keys -> 0 .. MaxBoxes] /\ made' \in 0 .. MaxBoxes
  BY <1>0 DEF Register, Unregister
<1>2. ASSUME NEW b \in Bundles, delivery[b].pc = "box"
      PROVE  bank'[<<delivery[b].agent, Dest[b]>>] = delivery[b].box
  <2>1. <<delivery[b].agent, Dest[b]>> \in Keys /\ delivery[b].agent # k[1]
    BY <1>0, <1>2 DEF BankFree, Keys, DeliveryState
  <2>2. bank'[<<delivery[b].agent, Dest[b]>>] = bank[<<delivery[b].agent, Dest[b]>>]
    BY <2>1, <1>0 DEF Register, Unregister
  <2> QED BY <2>2, <1>2 DEF AgentsInv, DeliveryHoldsBank
<1> QED BY <1>1, <1>2 DEF DeliveryHoldsBank

\* The registrations of clients.
LEMMA ClientInv ==
    ASSUME AgentsInv,
           (\E u \in Uuids : ClientStep(u)) \/ (\E e \in Eids : handleRegisterUnregister(e))
    PROVE  AgentsInv'
<1> USE RestingTypes
<1>0. AgentsTypeOK /\ BoxesAreMade /\ DeliveryHoldsBank /\ RemoverIsAlone /\ RequestCovers
  BY DEF AgentsInv
<1>1. UNCHANGED <<messages, request, gc, delivery>>
  BY DEF ClientStep, handleRegister, StoreClient, handleUnregister, DeleteClient,
         handleRegisterUnregister
<1>2. /\ bank' \in [Keys -> 0 .. MaxBoxes] /\ made' \in 0 .. MaxBoxes
      /\ DeliveryHoldsBank'
  <2>1. ASSUME NEW k \in Keys, Register(k) \/ Unregister(k)
        PROVE  /\ bank' \in [Keys -> 0 .. MaxBoxes] /\ made' \in 0 .. MaxBoxes
               /\ DeliveryHoldsBank'
    BY <2>1, <1>1, BankInv
  <2>2. CASE UNCHANGED <<bank, made>>
    BY <2>2, <1>0, <1>1 DEF AgentsTypeOK, DeliveryHoldsBank
  <2>3. \A e \in Eids, a \in AgentNames : <<a, e>> \in Keys
    BY DEF Keys
  <2>4. \A u \in Uuids : clients[u].eid \in Eids
    BY <1>0 DEF AgentsTypeOK, Client
  <2> QED
    BY <2>1, <2>2, <2>3, <2>4
       DEF ClientStep, handleRegister, StoreClient, handleUnregister, DeleteClient,
           handleRegisterUnregister, AgentNames
<1>3. clients' \in [Uuids -> Client]
  <2>0. clients \in [Uuids -> Client]
    BY <1>0 DEF AgentsTypeOK
  <2>1. ASSUME NEW u \in Uuids, NEW e \in Eids, handleRegister(u, e)
        PROVE  clients' \in [Uuids -> Client]
    BY <2>0, <2>1 DEF handleRegister, Client
  <2>2. ASSUME NEW u \in Uuids, StoreClient(u) \/ handleUnregister(u)
        PROVE  clients' \in [Uuids -> Client]
    BY <2>0, <2>2 DEF StoreClient, handleUnregister, Client
  <2>3. ASSUME NEW u \in Uuids, DeleteClient(u) PROVE clients' \in [Uuids -> Client]
    BY <2>0, <2>3 DEF DeleteClient
  <2>4. ASSUME NEW e \in Eids, handleRegisterUnregister(e)
        PROVE  clients' \in [Uuids -> Client]
    BY <2>0, <2>4 DEF handleRegisterUnregister
  <2> QED BY <2>1, <2>2, <2>3, <2>4 DEF ClientStep
<1>4. AgentsTypeOK'
  BY <1>0, <1>1, <1>2, <1>3
     DEF ClientStep, handleRegister, StoreClient, handleUnregister, DeleteClient,
         handleRegisterUnregister, AgentsTypeOK, viewVars, managerVars
<1>5. BoxesAreMade'
  BY <1>0, <1>1 DEF BoxesAreMade
<1> QED BY <1>0, <1>1, <1>2, <1>4, <1>5, RequestsUntouched DEF AgentsInv

\* The history keeps its type.
LEMMA SettledType ==
    ASSUME NEW f \in [Bundles -> Fate], NEW r, NEW outcome \in Fate
    PROVE  Settled(f, r, outcome) \in [Bundles -> Fate]
  BY DEF Settled

\* The same for entries that are removed.
LEMMA KeptType ==
    ASSUME NEW f \in [Bundles -> Fate], NEW m
    PROVE  Kept(f, m) \in [Bundles -> Fate]
  BY DEF Kept, Fate

\* A request that does not hold a mailbox after its step.
LEMMA QuietRequest ==
    ASSUME AgentsInv, NEW q \in Requests, NEW r2 \in RequestState,
           r2.pc # "load", r2.pc = "lock" => r2.box # 0,
           request' = [request EXCEPT ![q] = r2],
           fate' \in [Boxes -> [Bundles -> Fate]],
           UNCHANGED <<viewVars, managerVars, bank, made, messages,
                       clients, delivery, gc>>
    PROVE  AgentsInv'
<1>0. /\ AgentsTypeOK /\ BoxesAreMade /\ DeliveryHoldsBank /\ RemoverIsAlone /\ RequestCovers
      /\ request \in [Requests -> RequestState]
  BY DEF AgentsInv, AgentsTypeOK
<1>1. AgentsTypeOK'
  BY <1>0 DEF AgentsTypeOK, viewVars, managerVars
<1>2. BoxesAreMade' /\ DeliveryHoldsBank'
  BY <1>0 DEF BoxesAreMade, DeliveryHoldsBank
<1>3. \A p \in Requests : request'[p].pc = "load" => request'[p] = request[p] /\ p # q
  BY <1>0
<1>4. RemoverIsAlone'
  BY <1>0, <1>3 DEF RemoverIsAlone, Loading, BoxOf
<1>5. RequestCovers'
  BY <1>0, <1>3 DEF RequestCovers, Covered, BoxOf, Listed
<1> QED BY <1>1, <1>2, <1>4, <1>5 DEF AgentsInv

\* The beginning of a request.
LEMMA RequestBegins ==
    ASSUME AgentsInv, NEW q \in Requests,
           \/ \E u \in Uuids : handleFetch(q, u)
           \/ \E e \in Eids, remove \in BOOLEAN :
                  \/ \E b \in Bundles : handleGet(q, e, "one", remove, {b})
                  \/ \E kind \in {"all", "new"} : handleGet(q, e, kind, remove, {})
           \/ GetMailbox(q)
    PROVE  AgentsInv'
<1> USE AgentsAssumption, RestingTypes
<1>z. fate \in [Boxes -> [Bundles -> Fate]]
  BY DEF AgentsInv, AgentsTypeOK
<1>0. /\ request[q] \in RequestState /\ bank \in [Keys -> 0 .. MaxBoxes]
      /\ \A u \in Uuids : clients[u].eid \in Eids
      /\ \A e \in Eids, a \in AgentNames : <<a, e>> \in Keys
  BY DEF AgentsInv, AgentsTypeOK, Client, Keys
<1>1. ASSUME NEW u \in Uuids, handleFetch(q, u) PROVE AgentsInv'
  <2> DEFINE r2 == [NoRequest EXCEPT !.pc = "mailbox", !.key = <<"rest", clients[u].eid>>]
  <2>1. r2 \in RequestState /\ r2.pc = "mailbox"
    BY <1>0 DEF RequestState, NoRequest, AgentNames
  <2>2. request' = [request EXCEPT ![q] = r2]
    BY <1>1 DEF handleFetch
  <2> HIDE DEF r2
  <2> QED BY <2>1, <2>2, <1>1, <1>z, QuietRequest DEF handleFetch
<1>2. ASSUME NEW e \in Eids, NEW remove \in BOOLEAN, NEW kind \in Kinds,
             NEW bids \in SUBSET Bundles, handleGet(q, e, kind, remove, bids)
      PROVE  AgentsInv'
  <2> DEFINE k == <<"unix", e>>
             r2 == [pc |-> "lock", key |-> k, box |-> bank[k], kind |-> kind,
                    remove |-> remove, todo |-> bids, got |-> {}]
  <2>1. r2 \in RequestState /\ r2.pc = "lock" /\ r2.box # 0
    BY <1>0, <1>2 DEF RequestState, AgentNames, handleGet
  <2>2. request' = [request EXCEPT ![q] = r2]
    BY <1>2 DEF handleGet
  <2> HIDE DEF r2
  <2> QED BY <2>1, <2>2, <1>2, <1>z, QuietRequest DEF handleGet
<1>3. CASE GetMailbox(q)
  <2> DEFINE num == bank[request[q].key]
             r2 == IF num = 0 THEN NoRequest
                   ELSE [request[q] EXCEPT !.pc = "lock", !.box = num]
  <2>1. r2 \in RequestState /\ r2.pc # "load" /\ (r2.pc = "lock" => r2.box # 0)
    <3>1. num \in 0 .. MaxBoxes
      BY <1>0 DEF RequestState
    <3>2. CASE num = 0
      BY <3>2 DEF NoRequest
    <3>3. CASE num # 0
      BY <3>1, <3>3, <1>0 DEF RequestState
    <3> QED BY <3>2, <3>3
  <2>2. request' = [request EXCEPT ![q] = r2]
    BY <1>3 DEF GetMailbox
  <2> HIDE DEF r2
  <2> QED BY <2>1, <2>2, <1>3, <1>z, QuietRequest DEF GetMailbox
<1>4. ASSUME NEW e \in Eids, NEW remove \in BOOLEAN, NEW b \in Bundles,
             handleGet(q, e, "one", remove, {b})
      PROVE  AgentsInv'
  <2>1. "one" \in Kinds /\ {b} \in SUBSET Bundles
    BY DEF Kinds
  <2> QED BY <2>1, <1>2, <1>4
<1>5. ASSUME NEW e \in Eids, NEW remove \in BOOLEAN, NEW kind \in {"all", "new"},
             handleGet(q, e, kind, remove, {})
      PROVE  AgentsInv'
  <2>1. kind \in Kinds /\ {} \in SUBSET Bundles
    BY DEF Kinds
  <2> QED BY <2>1, <1>2, <1>5
<1> QED BY <1>1, <1>3, <1>4, <1>5

\* A request gets its mailbox.
LEMMA RequestLocks ==
    ASSUME AgentsInv, NEW q \in Requests, LockMailbox(q)
    PROVE  AgentsInv'
<1> USE AgentsAssumption, RestingTypes
<1> DEFINE x == BoxOf(q)
           r == request[q]
           todo == IF r.kind = "one" THEN r.todo ELSE List(x)
           r2 == [r EXCEPT !.pc = "load", !.todo = todo, !.got = {}]
<1>0. /\ AgentsTypeOK /\ BoxesAreMade /\ DeliveryHoldsBank /\ RemoverIsAlone /\ RequestCovers
      /\ request \in [Requests -> RequestState] /\ r \in RequestState /\ x \in Boxes
      /\ r.pc = "lock" /\ r.box # 0
      /\ UNCHANGED <<viewVars, managerVars, bank, made, messages,
                     clients, delivery, gc, fate>>
  BY BoxInUse DEF AgentsInv, AgentsTypeOK, LockMailbox, BoxesAreMade
<1>1. CASE ~(todo \subseteq List(x))
  <2>1. request' = [request EXCEPT ![q] = NoRequest] /\ NoRequest.pc = "idle"
    BY <1>1 DEF LockMailbox, NoRequest
  <2>2. fate' \in [Boxes -> [Bundles -> Fate]]
    BY <1>0 DEF AgentsTypeOK
  <2> QED BY <2>1, <2>2, <1>0, QuietRequest
<1>2. CASE todo \subseteq List(x)
  <2>1. /\ request' = [request EXCEPT ![q] = r2] /\ r2 \in RequestState
        /\ request'[q] = r2
    <3>1. todo \in SUBSET Bundles
      BY <1>2 DEF List, Listed
    <3>2. r2 \in RequestState
      BY <3>1, <1>0 DEF RequestState
    <3>3. request' = [request EXCEPT ![q] = r2]
      BY <1>2 DEF LockMailbox
    <3> HIDE DEF r2
    <3> QED BY <3>2, <3>3, <1>0
  <2>2. /\ r2.pc = "load" /\ r2.key = r.key /\ r2.box = r.box /\ r2.kind = r.kind
        /\ r2.remove = r.remove /\ r2.todo = todo /\ r2.got = {}
    BY <1>0 DEF RequestState
  <2>3. \A p \in Requests : p # q => request'[p] = request[p]
    BY <2>1, <1>0
  <2>4. BoxOf(q)' = x /\ \A p \in Requests : p # q => BoxOf(p)' = BoxOf(p)
    BY <2>1, <2>2, <2>3 DEF BoxOf
  <2>5. AgentsTypeOK'
    BY <2>1, <1>0 DEF AgentsTypeOK, viewVars, managerVars
  <2>6. BoxesAreMade' /\ DeliveryHoldsBank'
    BY <2>1, <2>2, <2>3, <1>0 DEF BoxesAreMade, DeliveryHoldsBank
  <2>7. RemoverIsAlone'
    <3>1. gc[x].pc # "run" /\ \A p \in Requests : Loading(p, x) => ~r.remove /\ ~request[p].remove
      BY <1>0 DEF LockMailbox, CanLock, CanRLock
    <3>2. ASSUME NEW y \in Boxes, gc'[y].pc = "run", NEW p \in Requests PROVE ~Loading(p, y)'
      <4>1. y # x
        BY <3>1, <3>2, <1>0
      <4> QED BY <4>1, <3>2, <2>3, <2>4, <1>0 DEF RemoverIsAlone, Loading
    <3>3. ASSUME NEW p \in Requests, NEW p2 \in Requests, p # p2,
                 request'[p].pc = "load", request'[p2].pc = "load", BoxOf(p)' = BoxOf(p2)'
          PROVE  ~request'[p].remove
      <4>1. CASE p = q
        <5>1. request'[p2] = request[p2] /\ BoxOf(p2)' = BoxOf(p2) /\ BoxOf(p)' = x
          BY <4>1, <3>3, <2>3, <2>4
        <5>2. Loading(p2, x)
          BY <5>1, <3>3 DEF Loading
        <5>3. ~r.remove
          BY <5>2, <3>1
        <5> HIDE DEF r2
        <5> QED BY <5>3, <4>1, <2>1, <2>2
      <4>2. CASE p2 = q
        <5>1. request'[p] = request[p] /\ BoxOf(p)' = BoxOf(p) /\ BoxOf(p2)' = x
          BY <4>2, <3>3, <2>3, <2>4
        <5>2. Loading(p, x)
          BY <5>1, <3>3 DEF Loading
        <5>3. ~request[p].remove
          BY <5>2, <3>1
        <5> HIDE DEF x
        <5> QED BY <5>1, <5>3
      <4>3. CASE p # q /\ p2 # q
        BY <4>3, <3>3, <2>3, <2>4, <1>0 DEF RemoverIsAlone
      <4> QED BY <4>1, <4>2, <4>3
    <3> QED BY <3>2, <3>3 DEF RemoverIsAlone
  <2>8. RequestCovers'
    <3>1. todo \subseteq Listed(messages[x]) /\ (r.kind # "one" => todo = Listed(messages[x]))
      BY <1>2 DEF List
    <3>2. Covered(r2, messages[x])
      BY <3>1, <2>2 DEF Covered, Listed
    <3> HIDE DEF x, r2
    <3>3. ASSUME NEW p \in Requests, request'[p].pc = "load"
          PROVE  Covered(request'[p], messages'[BoxOf(p)'])
      <4>1. CASE p = q
        BY <4>1, <3>2, <2>1, <2>4, <1>0
      <4>2. CASE p # q
        BY <4>2, <3>3, <2>3, <2>4, <1>0 DEF RequestCovers
      <4> QED BY <4>1, <4>2
    <3> QED BY <3>3 DEF RequestCovers, Covered, Listed
  <2> QED BY <2>5, <2>6, <2>7, <2>8 DEF AgentsInv
<1> QED BY <1>1, <1>2

\* A round of the loop.
LEMMA RequestLoads ==
    ASSUME AgentsInv, NEW q \in Requests, NEW b \in Bundles,
           NEW opens \in BOOLEAN, LoadMessage(q, b, opens)
    PROVE  AgentsInv'
<1> USE AgentsAssumption, RestingTypes
<1> DEFINE x == BoxOf(q)
           r == request[q]
           skipped == r.kind = "new" /\ messages[x][b] = "read"
           loaded == ~skipped /\ view[b] = "live" /\ opens
           r2 == [r EXCEPT !.todo = @ \ {b}, !.got = IF loaded THEN @ \cup {b} ELSE @]
<1>0. /\ AgentsTypeOK /\ BoxesAreMade /\ DeliveryHoldsBank /\ RemoverIsAlone /\ RequestCovers
      /\ request \in [Requests -> RequestState] /\ r \in RequestState /\ x \in Boxes
      /\ messages \in [Boxes -> [Bundles -> Message]]
      /\ fate \in [Boxes -> [Bundles -> Fate]]
      /\ r.pc = "load" /\ r.box # 0 /\ b \in r.todo
      /\ UNCHANGED <<viewVars, managerVars, bank, made,
                     clients, delivery, gc>>
  BY BoxInUse DEF AgentsInv, AgentsTypeOK, LoadMessage, BoxesAreMade
<1>a. fate' \in [Boxes -> [Bundles -> Fate]]
  <2>1. Settled(fate[x], r, "failed") \in [Bundles -> Fate]
    BY <1>0, SettledType DEF Fate
  <2> HIDE DEF x, r
  <2>2. fate' = fate \/ fate' = [fate EXCEPT ![x] = Settled(fate[x], r, "failed")]
    BY DEF LoadMessage, x, r
  <2> QED BY <2>1, <2>2, <1>0
<1>1. CASE ~skipped /\ ~loaded
  <2>1. request' = [request EXCEPT ![q] = NoRequest] /\ NoRequest.pc = "idle"
        /\ messages' = messages
    BY <1>1 DEF LoadMessage, NoRequest
  <2> QED BY <2>1, <1>0, <1>a, QuietRequest
<1>2. CASE skipped \/ loaded
  <2>1. request' = [request EXCEPT ![q] = r2]
    BY <1>2 DEF LoadMessage
  <2>2. /\ r2 \in RequestState
        /\ r2.pc = "load" /\ r2.key = r.key /\ r2.box = r.box /\ r2.kind = r.kind
        /\ r2.remove = r.remove /\ r2.todo = r.todo \ {b}
        /\ r2.got = IF loaded THEN r.got \cup {b} ELSE r.got
    BY <1>0 DEF RequestState
  <2>3. request'[q] = r2 /\ \A p \in Requests : p # q => request'[p] = request[p]
    <3> HIDE DEF r2
    <3> QED BY <2>1, <1>0
  <2>4. BoxOf(q)' = x /\ \A p \in Requests : p # q => BoxOf(p)' = BoxOf(p)
    <3> HIDE DEF r2
    <3> QED BY <2>2, <2>3 DEF BoxOf
  <2> HIDE DEF r2
  <2>5. /\ messages' \in [Boxes -> [Bundles -> Message]]
        /\ \A y \in Boxes, c \in Bundles :
               \/ messages'[y][c] = messages[y][c]
               \/ y = x /\ c = b /\ messages'[y][c] = "read"
        /\ loaded /\ r.kind # "one" => messages'[x][b] = "read"
    <3>1. CASE loaded /\ r.kind # "one"
      <4>1. messages' = [messages EXCEPT ![x] = [@ EXCEPT ![b] = "read"]]
        BY <3>1 DEF LoadMessage
      <4>2. [messages[x] EXCEPT ![b] = "read"] \in [Bundles -> Message]
        BY <1>0 DEF Message
      <4> HIDE DEF x
      <4> QED BY <4>1, <4>2, <1>0
    <3>2. CASE ~(loaded /\ r.kind # "one")
      <4>1. messages' = messages
        BY <3>2 DEF LoadMessage
      <4> QED BY <4>1, <3>2, <1>0
    <3> QED BY <3>1, <3>2
  <2>6. AgentsTypeOK'
    BY <2>1, <2>2, <2>5, <1>0, <1>a DEF AgentsTypeOK, viewVars, managerVars
  <2>7. BoxesAreMade' /\ DeliveryHoldsBank'
    BY <2>2, <2>3, <1>0 DEF BoxesAreMade, DeliveryHoldsBank
  <2>8. \A p \in Requests : /\ request'[p].pc = "load" <=> request[p].pc = "load"
                            /\ BoxOf(p)' = BoxOf(p)
                            /\ request'[p].remove = request[p].remove
    BY <2>2, <2>3, <2>4, <1>0
  <2>9. RemoverIsAlone'
    BY <2>8, <1>0 DEF RemoverIsAlone, Loading
  <2>10. b \in Listed(messages[x])
    BY <1>0 DEF RequestCovers, Covered
  <2>11. \A y \in Boxes : Listed(messages'[y]) = Listed(messages[y])
    <3> HIDE DEF x
    <3> QED BY <2>5, <2>10 DEF Listed
  <2>12. ASSUME NEW p \in Requests, request'[p].pc = "load"
         PROVE  Covered(request'[p], messages'[BoxOf(p)'])
    <3>1. BoxOf(p) \in Boxes /\ request[p].pc = "load" /\ Covered(request[p], messages[BoxOf(p)])
      BY <2>8, <2>12, <1>0, BoxInUse DEF RequestCovers
    <3>2. CASE p # q
      <4>1. \A c \in Bundles : messages'[BoxOf(p)][c] = "new" => messages[BoxOf(p)][c] = "new"
        BY <3>1, <2>5
      <4> QED BY <4>1, <3>1, <3>2, <2>3, <2>8, <2>11 DEF Covered
    <3>3. CASE p = q
      <4> HIDE DEF x
      <4>1. Covered(r, messages[x])
        BY <3>1, <3>3 DEF x
      <4>2. /\ r2.todo \cup r2.got \subseteq Listed(messages'[x])
            /\ r2.remove /\ r2.kind = "all" => Listed(messages'[x]) \subseteq r2.todo \cup r2.got
        BY <4>1, <2>2, <2>11, <1>0, <1>2 DEF Covered
      <4>3. ASSUME r2.remove, r2.kind = "new", NEW c \in Bundles, messages'[x][c] = "new"
            PROVE  c \in r2.todo
        <5>1. messages[x][c] = "new" /\ c \in r.todo
          BY <4>1, <4>3, <2>2, <2>5, <1>0 DEF Covered
        <5>2. c # b
          <6>1. CASE skipped
            BY <5>1, <6>1
          <6>2. CASE loaded
            BY <6>2, <4>3, <2>2, <2>5
          <6> QED BY <6>1, <6>2, <1>2
        <5> QED BY <5>1, <5>2, <2>2
      <4> QED BY <4>2, <4>3, <3>3, <2>3, <2>4 DEF Covered
    <3> QED BY <3>2, <3>3
  <2>13. RequestCovers'
    BY <2>12 DEF RequestCovers, Covered, Listed
  <2> QED BY <2>6, <2>7, <2>9, <2>13 DEF AgentsInv
<1> QED BY <1>1, <1>2

\* The end of a request: what it removes nobody else is loading.
LEMMA RequestAnswers ==
    ASSUME AgentsInv, NEW q \in Requests, Answer(q)
    PROVE  AgentsInv'
<1> USE AgentsAssumption, RestingTypes
<1> DEFINE x == BoxOf(q)
           r == request[q]
           m == Remaining(r, messages[x])
<1>0. /\ AgentsTypeOK /\ BoxesAreMade /\ DeliveryHoldsBank /\ RemoverIsAlone /\ RequestCovers
      /\ request \in [Requests -> RequestState] /\ r \in RequestState /\ x \in Boxes
      /\ messages \in [Boxes -> [Bundles -> Message]]
      /\ fate \in [Boxes -> [Bundles -> Fate]]
      /\ r.pc = "load" /\ r.todo = {}
      /\ request' = [request EXCEPT ![q] = NoRequest]
      /\ messages' = [messages EXCEPT ![x] = m]
      /\ fate' = [fate EXCEPT ![x] = IF r.remove THEN Kept(@, messages'[x])
                                     ELSE Settled(@, r, "answered")]
      /\ UNCHANGED <<viewVars, managerVars, bank, made,
                     clients, delivery, gc>>
  BY BoxInUse DEF AgentsInv, AgentsTypeOK, Answer
<1>1. m \in [Bundles -> Message]
  BY <1>0 DEF Remaining, Message
<1>2. r.got \in SUBSET Bundles
  BY <1>0 DEF RequestState
<1>3. ~r.remove =>
          /\ Listed(m) = Listed(messages[x])
          /\ \A c \in Bundles : m[c] = "new" => messages[x][c] = "new"
  <2> SUFFICES ASSUME ~r.remove
               PROVE  \A c \in Bundles : /\ m[c] # "none" <=> messages[x][c] # "none"
                                         /\ m[c] = "new" => messages[x][c] = "new"
    BY DEF Listed
  <2>1. r.got \subseteq Listed(messages[x])
    BY <1>0 DEF RequestCovers, Covered
  <2> QED BY <2>1 DEF Remaining, Listed
<1> HIDE DEF m, x
<1>4. messages'[x] = m /\ \A y \in Boxes : y # x => messages'[y] = messages[y]
  BY <1>0
<1>5. AgentsTypeOK'
  <2>1. messages' \in [Boxes -> [Bundles -> Message]]
    BY <1>0, <1>1
  <2>2. fate' \in [Boxes -> [Bundles -> Fate]]
    <3>1. /\ Settled(fate[x], r, "answered") \in [Bundles -> Fate]
          /\ Kept(fate[x], messages'[x]) \in [Bundles -> Fate]
      BY <1>0, SettledType, KeptType DEF Fate
    <3> QED BY <3>1, <1>0
  <2>3. request' \in [Requests -> RequestState]
    BY <1>0
  <2> QED BY <2>1, <2>2, <2>3, <1>0 DEF AgentsTypeOK, viewVars, managerVars
<1>6. \A p \in Requests : request'[p].pc # "idle" => p # q /\ request'[p] = request[p]
  BY <1>0 DEF NoRequest
<1>7. BoxesAreMade' /\ DeliveryHoldsBank'
  BY <1>0, <1>6 DEF BoxesAreMade, DeliveryHoldsBank
<1>8. RemoverIsAlone'
  BY <1>0, <1>6 DEF RemoverIsAlone, Loading, BoxOf
<1>9. ASSUME NEW p \in Requests, request'[p].pc = "load"
      PROVE  Covered(request'[p], messages'[BoxOf(p)'])
  <2>1. /\ p # q /\ request'[p] = request[p] /\ BoxOf(p)' = BoxOf(p)
        /\ request[p].pc = "load" /\ BoxOf(p) \in Boxes
    BY <1>6, <1>9, BoxInUse DEF BoxOf
  <2>2. Covered(request[p], messages[BoxOf(p)])
    BY <2>1, <1>0 DEF RequestCovers
  <2>3. CASE BoxOf(p) # x
    BY <2>1, <2>2, <2>3, <1>4
  <2>4. CASE BoxOf(p) = x
    <3>1. ~r.remove
      BY <2>1, <2>4, <1>0 DEF RemoverIsAlone, x
    <3>2. Covered(request[p], m)
      BY <3>1, <2>2, <2>4, <1>3 DEF Covered
    <3> QED BY <3>2, <2>1, <2>4, <1>4
  <2> QED BY <2>3, <2>4
<1>10. RequestCovers'
  BY <1>9 DEF RequestCovers, Covered, Listed
<1> QED BY <1>5, <1>7, <1>8, <1>10 DEF AgentsInv

\* Between two bundles, or at its end, a collection has the type of one.
LEMMA VisitingType ==
    ASSUME NEW todo \in SUBSET Bundles
    PROVE  Visiting(todo) \in GCState
  BY RestingTypes DEF Visiting, GCState

\* The garbage collection of a mailbox begins when nobody is loading from it.
LEMMA GCInv ==
    ASSUME AgentsInv, NEW x \in Boxes, GCStep(x)
    PROVE  AgentsInv'
<1>0. /\ AgentsTypeOK /\ BoxesAreMade /\ DeliveryHoldsBank /\ RemoverIsAlone /\ RequestCovers
      /\ messages \in [Boxes -> [Bundles -> Message]] /\ gc \in [Boxes -> GCState]
      /\ gc[x] \in GCState /\ fate \in [Boxes -> [Bundles -> Fate]]
  BY DEF AgentsInv, AgentsTypeOK
<1>1. UNCHANGED <<viewVars, managerVars, bank, made, clients, delivery,
                  request>>
  BY DEF GCStep, StartGC, GCLock, GCVisit
<1>2. BoxesAreMade' /\ DeliveryHoldsBank'
  BY <1>0, <1>1 DEF BoxesAreMade, DeliveryHoldsBank
<1>3. gc' \in [Boxes -> GCState]
  <2>1. CASE StartGC(x)
    BY <2>1, <1>0 DEF StartGC, GCState
  <2>2. CASE GCLock(x)
    <3>1. Visiting(List(x)) \in GCState
      BY VisitingType DEF List, Listed
    <3> QED BY <2>2, <3>1, <1>0 DEF GCLock
  <2>3. ASSUME NEW b \in Bundles, GCVisit(x, b) PROVE gc' \in [Boxes -> GCState]
    <3>1. Visiting(gc[x].todo \ {b}) \in GCState
      BY <1>0, VisitingType DEF GCState
    <3> QED BY <2>3, <3>1, <1>0 DEF GCVisit
  <2> QED BY <2>1, <2>2, <2>3 DEF GCStep
<1>a. fate' \in [Boxes -> [Bundles -> Fate]]
  <2>1. Kept(fate[x], messages'[x]) \in [Bundles -> Fate]
    BY <1>0, KeptType
  <2>2. fate' = fate \/ fate' = [fate EXCEPT ![x] = Kept(fate[x], messages'[x])]
    BY DEF GCStep, StartGC, GCLock, GCVisit
  <2> QED BY <2>1, <2>2, <1>0
<1>4. /\ messages' \in [Boxes -> [Bundles -> Message]]
      /\ \A y \in Boxes : messages'[y] # messages[y] => gc[y].pc = "run"
  <2>1. CASE messages' = messages
    BY <2>1, <1>0
  <2>2. CASE messages' # messages
    <3>1. PICK b \in Bundles : GCVisit(x, b)
      BY <2>2 DEF GCStep, StartGC, GCLock
    <3>2. /\ messages' = [messages EXCEPT ![x] = [@ EXCEPT ![b] = "none"]]
          /\ gc[x].pc = "run"
      BY <3>1, <2>2 DEF GCVisit
    <3>3. [messages[x] EXCEPT ![b] = "none"] \in [Bundles -> Message]
      BY <1>0 DEF Message
    <3> QED BY <3>2, <3>3, <1>0
  <2> QED BY <2>1, <2>2
<1>5. AgentsTypeOK'
  BY <1>0, <1>1, <1>3, <1>4, <1>a DEF AgentsTypeOK, viewVars, managerVars
<1>6. RemoverIsAlone'
  <2>1. \A y \in Boxes : gc'[y].pc = "run" => \A q \in Requests : ~Loading(q, y)
    <3>1. ASSUME NEW y \in Boxes, gc'[y].pc = "run"
          PROVE  gc[y].pc = "run" \/ CanLock(y)
      <4>1. CASE StartGC(x)
        BY <3>1, <4>1, <1>0 DEF StartGC, GCState
      <4>2. CASE GCLock(x)
        BY <3>1, <4>2, <1>0 DEF GCLock
      <4>3. ASSUME NEW b \in Bundles, GCVisit(x, b) PROVE gc[y].pc = "run" \/ CanLock(y)
        BY <3>1, <4>3, <1>0 DEF GCVisit
      <4> QED BY <4>1, <4>2, <4>3 DEF GCStep
    <3> QED BY <3>1, <1>0 DEF RemoverIsAlone, CanLock
  <2> QED BY <2>1, <1>0, <1>1 DEF RemoverIsAlone, Loading, BoxOf
<1>7. \A q \in Requests : request[q].pc = "load" => messages'[BoxOf(q)] = messages[BoxOf(q)]
  BY <1>0, <1>4, BoxInUse DEF RemoverIsAlone, Loading
<1>8. RequestCovers'
  BY <1>0, <1>1, <1>7 DEF RequestCovers, Covered, BoxOf, Listed
<1> QED BY <1>2, <1>5, <1>6, <1>8 DEF AgentsInv

\* Every step keeps the invariant.
LEMMA AgentsInvNext == AgentsInv /\ [AgentsNext]_allVars => AgentsInv'
<1> SUFFICES ASSUME AgentsInv, [AgentsNext]_allVars PROVE AgentsInv'
  OBVIOUS
<1>1. CASE Start
  <2>1. agents' \subseteq AgentNames
    BY <1>1, AgentsAssumption DEF Start, AgentsInv, AgentsTypeOK
  <2>2. /\ instance \in Instances /\ singleton' \in BOOLEAN
        /\ serving' \in BOOLEAN /\ view' \in [Bundles -> Views]
    BY <1>1 DEF Start, ViewStart, AgentsInv, AgentsTypeOK, Views
  <2> QED BY <2>1, <2>2, <1>1, FreshTypes DEF Start
<1>2. CASE Halt
  <2>1. /\ instance \in Instances /\ singleton' \in BOOLEAN
        /\ serving' \in BOOLEAN /\ view' \in [Bundles -> Views]
    BY <1>2 DEF Halt, ViewHalt, AgentsInv, AgentsTypeOK, Views
  <2> QED BY <2>1, <1>2, FreshTypes DEF Halt
<1>3. CASE StoreStep \/ ShutdownStore \/ ShutdownAAManager \/ ShutdownUNIXAgent
  BY <1>3, ManagerInv
<1>4. CASE \E b \in Bundles : DeliveryStep(b)
  BY <1>4, DeliveryInv
<1>5. CASE (\E u \in Uuids : ClientStep(u)) \/ (\E e \in Eids : handleRegisterUnregister(e))
  BY <1>5, ClientInv
<1>6. ASSUME NEW q \in Requests, RequestStep(q) PROVE AgentsInv'
  BY <1>6, RequestBegins, RequestLocks, RequestLoads, RequestAnswers DEF RequestStep
<1>7. CASE \E x \in Boxes : GCStep(x)
  BY <1>7, GCInv
<1>8. CASE UNCHANGED allVars
  <2>1. AgentsTypeOK' /\ BoxesAreMade' /\ DeliveryHoldsBank'
    BY <1>8 DEF allVars, AgentsInv, AgentsTypeOK, BoxesAreMade, DeliveryHoldsBank
  <2> QED BY <2>1, <1>8, RequestsUntouched DEF allVars, AgentsInv
<1> QED BY <1>1, <1>2, <1>3, <1>4, <1>5, <1>6, <1>7, <1>8 DEF AgentsNext

\* The inductive invariant: goroutines use mailboxes that exist, a delivery's
\* mailbox stays registered, who removes from a mailbox is alone with it and a
\* request that clears it covers what it lists.
THEOREM AgentsInvariant == AgentsSpec => []AgentsInv
<1> QED BY AgentsInvInit, AgentsInvNext, PTL DEF AgentsSpec

\* Type correctness, which includes that a process never makes more mailboxes
\* than it is allowed to.
THEOREM AgentsTypeCorrect == AgentsSpec => []AgentsTypeOK
<1>1. AgentsInv => AgentsTypeOK
  BY DEF AgentsInv
<1> QED BY <1>1, AgentsInvariant, PTL

\* What a step does to a mailbox.
LEMMA MailboxChanges ==
    ASSUME AgentsNext
    PROVE  \/ Start \/ Halt
           \/ \E c \in Bundles : MailboxDeliver(c)
           \/ \E q \in Requests : Answer(q) \/ \E c \in Bundles, o \in BOOLEAN : LoadMessage(q, c, o)
           \/ \E y \in Boxes : GCStep(y)
           \/ messages' = messages
  BY DEF AgentsNext, StoreStep, ShutdownStore, ShutdownAAManager, ShutdownUNIXAgent,
         DeliveryStep, Delivery, BankDeliver, ClientStep, handleRegister,
         StoreClient, handleUnregister, DeleteClient, handleRegisterUnregister,
         RequestStep, handleFetch, handleGet, GetMailbox, LockMailbox, agentVars

\* MailboxBank.Deliver puts a bundle only into the mailbox its endpoint has now.
THEOREM DeliveryReaches == AgentsSpec => DeliveredIsReachable
<1> DEFINE Reach ==
      \A x \in Boxes, b \in Bundles :
          messages[x][b] = "none" /\ messages'[x][b] # "none" =>
              \E a \in AgentNames : bank[<<a, Dest[b]>>] = x
<1>1. AgentsInv /\ [AgentsNext]_allVars => [Reach]_allVars
  <2> SUFFICES ASSUME AgentsInv, AgentsNext, NEW x \in Boxes, NEW b \in Bundles,
                      messages[x][b] = "none", messages'[x][b] # "none"
               PROVE  \E a \in AgentNames : bank[<<a, Dest[b]>>] = x
    BY DEF allVars
  <2>0. messages \in [Boxes -> [Bundles -> Message]] /\ DeliveryHoldsBank
    BY DEF AgentsInv, AgentsTypeOK
  <2>1. CASE Start \/ Halt
    BY <2>1 DEF Start, Halt, ForgetAgents
  <2>2. ASSUME NEW c \in Bundles, MailboxDeliver(c)
        PROVE  \E a \in AgentNames : bank[<<a, Dest[b]>>] = x
    <3> DEFINE y == delivery[c].box
    <3>1. y \in Boxes /\ delivery[c].pc = "box"
      BY <2>2, BoxInUse DEF MailboxDeliver
    <3>2. bank[<<delivery[c].agent, Dest[c]>>] = y /\ delivery[c].agent \in AgentNames
      BY <3>1, <2>0 DEF DeliveryHoldsBank, AgentsInv, AgentsTypeOK, DeliveryState
    <3>3. x = y /\ b = c
      BY <3>1, <2>0, <2>2 DEF MailboxDeliver
    <3> HIDE DEF y
    <3> QED BY <3>2, <3>3
  <2>3. ASSUME NEW q \in Requests, NEW c \in Bundles, NEW o \in BOOLEAN, LoadMessage(q, c, o)
        PROVE  FALSE
    <3>1. /\ BoxOf(q) \in Boxes /\ c \in request[q].todo /\ request[q].pc = "load"
          /\ Covered(request[q], messages[BoxOf(q)])
      BY <2>3, BoxInUse DEF LoadMessage, AgentsInv, RequestCovers
    <3>2. messages[BoxOf(q)][c] # "none"
      BY <3>1 DEF Covered, Listed
    <3>3. messages' = messages \/ messages' = [messages EXCEPT ![BoxOf(q)][c] = "read"]
      BY <2>3 DEF LoadMessage
    <3> QED BY <3>1, <3>2, <3>3, <2>0
  <2>4. ASSUME NEW q \in Requests, Answer(q) PROVE FALSE
    <3>1. /\ BoxOf(q) \in Boxes /\ request[q].pc = "load"
          /\ Covered(request[q], messages[BoxOf(q)])
      BY <2>4, BoxInUse DEF Answer, AgentsInv, RequestCovers
    <3>2. messages' = [messages EXCEPT ![BoxOf(q)] = Remaining(request[q], @)]
      BY <2>4 DEF Answer
    <3>3. CASE x # BoxOf(q)
      BY <3>2, <3>3, <2>0
    <3>4. CASE x = BoxOf(q)
      <4>1. messages'[x] = Remaining(request[q], messages[x])
        BY <3>2, <3>4, <2>0
      <4>2. b \notin request[q].got
        BY <3>1, <3>4 DEF Covered, Listed
      <4> QED BY <4>1, <4>2 DEF Remaining
    <3> QED BY <3>3, <3>4
  <2>5. ASSUME NEW y \in Boxes, GCStep(y) PROVE FALSE
    <3>1. CASE messages' = messages
      BY <3>1
    <3>2. ASSUME NEW c \in Bundles, messages' = [messages EXCEPT ![y][c] = "none"] PROVE FALSE
      BY <3>2, <2>0
    <3> QED BY <3>1, <3>2, <2>5 DEF GCStep, StartGC, GCLock, GCVisit
  <2> QED BY <2>1, <2>2, <2>3, <2>4, <2>5, MailboxChanges
<1> QED BY <1>1, AgentsInvariant, PTL DEF AgentsSpec, DeliveredIsReachable

\* What a step that is neither a load nor an answer nor a collection does to the
\* marks: nothing, and a request in its loop stays there.
LEMMA MarksUntouched ==
    ASSUME AgentsInv, AgentsNext, ~Start, ~Halt,
           \A c \in Bundles : ~MailboxDeliver(c),
           \A q \in Requests : ~Answer(q),
           \A q \in Requests, c \in Bundles, o \in BOOLEAN : ~LoadMessage(q, c, o),
           \A y \in Boxes, c \in Bundles : ~GCVisit(y, c)
    PROVE  /\ UNCHANGED <<messages, fate>>
           /\ \A q \in Requests : request[q].pc = "load" => request'[q] = request[q]
<1>1. request \in [Requests -> RequestState]
  BY DEF AgentsInv, AgentsTypeOK
<1>2. CASE \E q \in Requests : RequestStep(q)
  <2>1. PICK q \in Requests : RequestStep(q)
    BY <1>2
  <2> DEFINE Quiet == /\ UNCHANGED <<messages, fate>> /\ request[q].pc # "load"
                      /\ \A p \in Requests : p # q => request'[p] = request[p]
  <2>2. Quiet
    <3>1. ASSUME NEW u \in Uuids, handleFetch(q, u) PROVE Quiet
      BY <1>1, <3>1 DEF handleFetch
    <3>2. ASSUME NEW e \in Eids, NEW kind, NEW remove, NEW bids, handleGet(q, e, kind, remove, bids)
          PROVE  Quiet
      BY <1>1, <3>2 DEF handleGet
    <3>3. CASE GetMailbox(q)
      BY <1>1, <3>3 DEF GetMailbox
    <3>4. CASE LockMailbox(q)
      BY <1>1, <3>4 DEF LockMailbox
    <3> HIDE DEF Quiet
    <3> QED BY <2>1, <3>1, <3>2, <3>3, <3>4 DEF RequestStep
  <2> QED BY <2>2
<1>3. CASE ~\E q \in Requests : RequestStep(q)
  BY <1>3
     DEF AgentsNext, StoreStep, ShutdownStore, ShutdownAAManager, ShutdownUNIXAgent,
         DeliveryStep, Delivery, BankDeliver, ClientStep, handleRegister,
         StoreClient, handleUnregister, DeleteClient, handleRegisterUnregister,
         GCStep, StartGC, GCLock, agentVars
<1> QED BY <1>2, <1>3

\* Every step settles the marks of the request it ends.
LEMMA MarkNext ==
    ASSUME AgentsInv, MarkIsSettled, AgentsNext
    PROVE  MarkIsSettled'
<1> DEFINE Held(x, c) == \E q \in Requests : Loading(q, x) /\ c \in request[q].got
<1> SUFFICES ASSUME NEW x \in Boxes, NEW c \in Bundles, messages'[x][c] = "read"
             PROVE  fate'[x][c] # "none" \/ Held(x, c)'
  BY DEF MarkIsSettled
<1>0. /\ messages \in [Boxes -> [Bundles -> Message]] /\ fate \in [Boxes -> [Bundles -> Fate]]
      /\ request \in [Requests -> RequestState]
      /\ RemoverIsAlone
      /\ messages[x][c] = "read" => fate[x][c] # "none" \/ Held(x, c)
  BY DEF AgentsInv, AgentsTypeOK, MarkIsSettled
<1>1. CASE Start \/ Halt
  BY <1>1 DEF Start, Halt, ForgetAgents
<1>2. ASSUME UNCHANGED <<messages, fate>>,
             \A q \in Requests : request[q].pc = "load" => request'[q] = request[q]
      PROVE  fate'[x][c] # "none" \/ Held(x, c)'
  BY <1>0, <1>2 DEF Loading, BoxOf
<1>3. ASSUME NEW b \in Bundles, MailboxDeliver(b)
      PROVE  fate'[x][c] # "none" \/ Held(x, c)'
  <2>1. UNCHANGED <<request, fate>>
    BY <1>3 DEF MailboxDeliver
  <2>2. messages[x][c] = "read"
    BY <1>0, <1>3 DEF MailboxDeliver
  <2> QED BY <2>1, <2>2, <1>0 DEF Loading, BoxOf
<1>4. ASSUME NEW y \in Boxes, NEW b \in Bundles, GCVisit(y, b)
      PROVE  fate'[x][c] # "none" \/ Held(x, c)'
  <2>1. UNCHANGED request /\ messages[x][c] = "read"
    BY <1>0, <1>4 DEF GCVisit
  <2>2. fate'[x][c] = fate[x][c]
    <3>1. fate' = [fate EXCEPT ![y] = Kept(fate[y], messages'[y])]
      BY <1>4 DEF GCVisit
    <3>2. CASE x = y
      BY <3>1, <3>2, <1>0 DEF Kept
    <3>3. CASE x # y
      BY <3>1, <3>3, <1>0
    <3> QED BY <3>2, <3>3
  <2> QED BY <2>1, <2>2, <1>0 DEF Loading, BoxOf
<1>5. ASSUME NEW q \in Requests, NEW b \in Bundles, NEW opens \in BOOLEAN,
             LoadMessage(q, b, opens)
      PROVE  fate'[x][c] # "none" \/ Held(x, c)'
  <2> DEFINE r == request[q]
             r2 == request'[q]
             loaded == /\ ~(r.kind = "new" /\ messages[BoxOf(q)][b] = "read")
                       /\ view[b] = "live" /\ opens
             fails == /\ ~(r.kind = "new" /\ messages[BoxOf(q)][b] = "read")
                      /\ ~loaded
  <2>1. /\ BoxOf(q) \in Boxes /\ r \in RequestState /\ r.pc = "load"
        /\ \A p \in Requests : p # q => request'[p] = request[p]
    BY <1>0, <1>5, BoxInUse DEF LoadMessage
  <2>2. CASE fails
    <3>1. messages' = messages /\ fate' = [fate EXCEPT ![BoxOf(q)] = Settled(@, r, "failed")]
      BY <2>2, <1>5 DEF LoadMessage
    <3>2. fate[x][c] # "none" => fate'[x][c] # "none"
      BY <3>1, <2>1, <1>0 DEF Settled
    <3>3. ASSUME NEW p \in Requests, Loading(p, x), c \in request[p].got
          PROVE  fate'[x][c] # "none" \/ Held(x, c)'
      <4>1. CASE p # q
        BY <4>1, <3>3, <2>1 DEF Loading, BoxOf
      <4>2. CASE p = q
        BY <4>2, <3>3, <3>1, <2>1, <1>0 DEF Settled, Loading
      <4> QED BY <4>1, <4>2
    <3> QED BY <3>1, <3>2, <3>3, <1>0
  <2>3. CASE ~fails
    <3>1. /\ fate' = fate
          /\ messages' = IF loaded /\ r.kind # "one"
                         THEN [messages EXCEPT ![BoxOf(q)][b] = "read"] ELSE messages
          /\ request' = [request EXCEPT ![q] =
                 [r EXCEPT !.todo = @ \ {b}, !.got = IF loaded THEN @ \cup {b} ELSE @]]
      BY <2>3, <1>5 DEF LoadMessage
    <3>2. /\ r2.pc = "load" /\ r2.box = r.box
          /\ r2.got = IF loaded THEN r.got \cup {b} ELSE r.got
      <4> HIDE DEF loaded, fails
      <4> QED BY <3>1, <2>1, <1>0 DEF RequestState
    <3>3. \A p \in Requests : Loading(p, x) /\ c \in request[p].got =>
                                  Loading(p, x)' /\ c \in request'[p].got
      <4> HIDE DEF loaded, fails
      <4> QED BY <3>2, <2>1 DEF Loading, BoxOf
    <3>4. CASE messages[x][c] = "read"
      BY <3>1, <3>3, <3>4, <1>0
    <3>5. CASE messages[x][c] # "read"
      <4>1. loaded /\ x = BoxOf(q) /\ c = b
        <5> HIDE DEF loaded, fails
        <5> QED BY <3>1, <3>5, <2>1, <1>0
      <4>2. Loading(q, x)' /\ c \in request'[q].got
        <5> HIDE DEF loaded, fails
        <5> QED BY <4>1, <3>2, <2>1 DEF Loading, BoxOf
      <4> QED BY <4>2
    <3> QED BY <3>4, <3>5
  <2> QED BY <2>2, <2>3
<1>6. ASSUME NEW q \in Requests, Answer(q)
      PROVE  fate'[x][c] # "none" \/ Held(x, c)'
  <2> DEFINE r == request[q]
             y == BoxOf(q)
             f == fate[y]
             m == messages[y]
  <2>1. /\ y \in Boxes /\ r \in RequestState /\ r.pc = "load"
        /\ messages' = [messages EXCEPT ![y] = Remaining(r, m)]
        /\ fate' = [fate EXCEPT ![y] = IF r.remove THEN Kept(f, messages'[y])
                                       ELSE Settled(f, r, "answered")]
        /\ \A p \in Requests : p # q => request'[p] = request[p]
    BY <1>0, <1>6, BoxInUse DEF Answer
  <2>2. \A p \in Requests : p # q /\ Loading(p, x) /\ c \in request[p].got => Held(x, c)'
    BY <2>1 DEF Loading, BoxOf
  <2>3. CASE x # y
    <3>1. messages'[x] = messages[x] /\ fate'[x] = fate[x]
      BY <2>1, <2>3, <1>0
    <3>2. \A p \in Requests : Loading(p, x) => p # q
      BY <2>3 DEF Loading
    <3> QED BY <3>1, <3>2, <2>2, <1>0
  <2>4. CASE x = y
    <3> HIDE DEF y
    <3>1. /\ messages'[x] = Remaining(r, m)
          /\ fate'[x] = IF r.remove THEN Kept(f, messages'[x]) ELSE Settled(f, r, "answered")
      BY <2>1, <2>4, <1>0
    <3>2. CASE r.remove
      <4>1. r.kind = "one" /\ c \notin r.got /\ m[c] = "read"
        BY <3>1, <3>2 DEF Remaining
      <4>2. fate'[x][c] = fate[x][c]
        BY <3>1, <3>2, <2>4 DEF Kept
      <4>3. \A p \in Requests : Loading(p, x) => p = q
        BY <3>2, <2>1, <2>4, <1>0 DEF RemoverIsAlone, Loading, y
      <4> QED BY <4>1, <4>2, <4>3, <2>4, <1>0
    <3>3. CASE ~r.remove
      <4>1. CASE c \in r.got
        BY <4>1, <3>1, <3>3 DEF Settled
      <4>2. CASE c \notin r.got
        <5>1. m[c] = "read" /\ fate'[x][c] = f[c]
          BY <4>2, <3>1, <3>3 DEF Settled, Remaining
        <5> QED BY <5>1, <4>2, <2>2, <2>4, <1>0
      <4> QED BY <4>1, <4>2
    <3> QED BY <3>2, <3>3
  <2> QED BY <2>3, <2>4
<1> HIDE DEF Held
<1> QED BY <1>1, <1>2, <1>3, <1>4, <1>5, <1>6, MarksUntouched

\* A marked entry of a mailbox has been answered with, was marked by a request
\* that failed, or is in the hands of a request in GetAll or GetNew.
THEOREM MarksAreSettled == AgentsSpec => []MarkIsSettled
<1>1. AgentsInit => MarkIsSettled
  BY DEF AgentsInit, MarkIsSettled
<1>2. AgentsInv /\ MarkIsSettled /\ [AgentsNext]_allVars => MarkIsSettled'
  <2>1. CASE UNCHANGED allVars
    BY <2>1 DEF allVars, MarkIsSettled, Loading, BoxOf
  <2> QED BY <2>1, MarkNext
<1> QED BY <1>1, <1>2, AgentsInvariant, PTL DEF AgentsSpec

\* Mailbox.GC removes a bundle only when the store has lost it, and GetAll, GetNew
\* and Get only when they answer: with it, or after an earlier request did.  The
\* exception is GetNew(true), which also drops what only a failed request marked.
THEOREM RemovedIsAnswered == AgentsSpec => KeptUntilAnswered
<1> DEFINE Fine(x, b) ==
               \/ Gone(b)
               \/ \E q \in Requests :
                      /\ Answers(q, x)
                      /\ \/ b \in request[q].got
                         \/ fate[x][b] = "answered"
                         \/ fate[x][b] = "failed" /\ request[q].kind = "new"
           Forgotten ==
               \/ \A x \in Boxes, b \in Bundles :
                      messages[x][b] # "none" /\ messages'[x][b] = "none" => Fine(x, b)
               \/ Start \/ Halt
<1>1. AgentsInv /\ MarkIsSettled /\ [AgentsNext]_allVars => [Forgotten]_allVars
  <2> SUFFICES ASSUME AgentsInv, MarkIsSettled, AgentsNext, ~Start, ~Halt,
                      NEW x \in Boxes, NEW b \in Bundles,
                      messages[x][b] # "none", messages'[x][b] = "none"
               PROVE  Fine(x, b)
    BY DEF allVars
  <2>0. messages \in [Boxes -> [Bundles -> Message]] /\ fate \in [Boxes -> [Bundles -> Fate]]
    BY DEF AgentsInv, AgentsTypeOK
  <2>1. ASSUME NEW c \in Bundles, MailboxDeliver(c) PROVE FALSE
    <3> DEFINE y == delivery[c].box
    <3>1. messages' = messages \/ messages' = [messages EXCEPT ![y][c] = "new"]
      BY <2>1 DEF MailboxDeliver
    <3> HIDE DEF y
    <3> QED BY <3>1, <2>0
  <2>2. ASSUME NEW q \in Requests, NEW c \in Bundles, NEW o \in BOOLEAN, LoadMessage(q, c, o)
        PROVE  FALSE
    <3>1. messages' = messages \/ messages' = [messages EXCEPT ![BoxOf(q)][c] = "read"]
      BY <2>2 DEF LoadMessage
    <3> QED BY <3>1, <2>0
  <2>3. ASSUME NEW y \in Boxes, GCStep(y) PROVE Gone(b)
    <3>1. PICK c \in Bundles : GCVisit(y, c) /\ messages' # messages
      BY <2>3 DEF GCStep, StartGC, GCLock
    <3>2. messages' = [messages EXCEPT ![y][c] = "none"] /\ Gone(c)
      BY <3>1 DEF GCVisit, Gone
    <3>3. b = c
      BY <3>2, <2>0
    <3> QED BY <3>2, <3>3
  <2>4. ASSUME NEW q \in Requests, Answer(q) PROVE Fine(x, b)
    <3> DEFINE r == request[q]
    <3>1. /\ BoxOf(q) \in Boxes /\ r \in RequestState /\ r.pc = "load" /\ r.todo = {}
          /\ Covered(r, messages[BoxOf(q)])
          /\ messages' = [messages EXCEPT ![BoxOf(q)] = Remaining(r, @)]
          /\ request'[q].pc = "idle"
      BY <2>4, BoxInUse DEF Answer, AgentsInv, AgentsTypeOK, RequestCovers, NoRequest
    <3>2. x = BoxOf(q)
      BY <3>1, <2>0
    <3>3. messages'[x][b] = Remaining(r, messages[x])[b] /\ Answers(q, x)
      BY <3>1, <3>2, <2>0 DEF Answers, Loading
    <3>4. CASE r.kind = "one"
      BY <3>3, <3>4 DEF Remaining
    <3>5. CASE r.kind # "one"
      <4>1. r.remove
        BY <3>3, <3>5 DEF Remaining
      <4>2. CASE r.kind = "all"
        BY <4>1, <4>2, <3>1, <3>2, <3>3 DEF Covered, Listed
      <4>3. CASE r.kind = "new"
        <5>1. messages[x][b] = "read"
          BY <4>1, <4>3, <3>1, <3>2, <2>0 DEF Covered, Message
        <5>2. fate[x][b] \in {"answered", "failed"}
              \/ \E p \in Requests : Loading(p, x) /\ b \in request[p].got
          BY <5>1, <2>0 DEF MarkIsSettled, Fate
        <5>3. \A p \in Requests : Loading(p, x) => p = q
          BY <4>1, <3>1, <3>2 DEF AgentsInv, RemoverIsAlone, Loading
        <5> QED BY <5>2, <5>3, <4>3, <3>3
      <4> QED BY <4>2, <4>3, <3>1, <3>5 DEF RequestState, Kinds
    <3> QED BY <3>4, <3>5
  <2> HIDE DEF Fine
  <2>5. Gone(b) => Fine(x, b)
    BY DEF Fine
  <2> QED BY <2>1, <2>2, <2>3, <2>4, <2>5, MailboxChanges
<1> QED BY <1>1, AgentsInvariant, MarksAreSettled, PTL DEF AgentsSpec, KeptUntilAnswered
=============================================================================
