-------------------------------- MODULE Agents --------------------------------
(***************************************************************************)
(* Application agents: pkg/application_agent (agent manager, mailbox bank,   *)
(* mailbox), its REST agent and its UNIX socket agent, on top of the store   *)
(* as StoreView shows it.                                                   *)
(*                                                                          *)
(* A mailbox lists bundle IDs; whoever reads it asks the store for every     *)
(* bundle, one after the other, while bundles expire.  Mailboxes are objects *)
(* that a request may still hold when their endpoint has been unregistered:  *)
(* they are numbered in the order in which they are made.                    *)
(***************************************************************************)
EXTENDS StoreView, Naturals, FiniteSets

CONSTANTS
    Eids,         \* endpoint IDs applications register
    Dest,         \* the destination of every bundle
    Uuids,        \* the identifiers randomUuid hands out to REST clients
    Requests,     \* bound: fetch requests that are served at the same time
    MaxBoxes,     \* bound: mailboxes a process makes
    Instances     \* what a behaviour makes use of: the agents it configures, and
                  \* how much of the bounds

AgentNames == {"rest", "unix"}
Keys == AgentNames \X Eids
Boxes == 1 .. MaxBoxes

\* "one" is Mailbox.Get, "all" GetAll, "new" GetNew; each with its remove.
Kinds == {"one", "all", "new"}
Gets == Kinds \X BOOLEAN

ASSUME AgentsAssumption ==
    /\ Dest \in [Bundles -> Eids]
    /\ Eids # {}
    /\ MaxBoxes \in Nat \ {0}
    /\ Instances \subseteq
           [agents : SUBSET AgentNames, bundles : SUBSET Bundles,
            requests : SUBSET Requests, gets : SUBSET Gets, boxes : 1 .. MaxBoxes]

VARIABLES
    instance,     \* the one of Instances this behaviour keeps to
    singleton,    \* the agent manager's managerSingleton is set
    agents,       \* the manager's map of registered agents
    listening,    \* agents whose server accepts requests
    bank,         \* MailboxBank.mailboxes of an agent: 0, or the mailbox
    made,         \* how many mailboxes have been made
    messages,     \* Mailbox.messages: absent, FALSE or TRUE (already retrieved)
    clients,      \* REST: what the handlers of a UUID have done
    delivery,     \* Delivery(b), a goroutine of receiveAsync
    request,      \* handleFetch and the UNIX agent's fetch handlers
    gc,           \* the GC goroutine of a mailbox
    fate          \* history: what became of the request that marked an entry

managerVars == <<instance, singleton, agents, listening>>
agentVars == <<instance, singleton, agents, listening, bank, made, messages,
               clients, delivery, request, gc, fate>>
allVars == <<serving, view, instance, singleton, agents, listening, bank, made,
             messages, clients, delivery, request, gc, fate>>

Message == {"none", "new", "read"}

\* An entry is marked by a request that answers with its bundle, or by one that
\* fails later and answers with nothing.
Fate == {"none", "answered", "failed"}

NoClient == [pc |-> "none", eid |-> CHOOSE e \in Eids : TRUE]
Client == [pc : {"none", "storing", "client", "deleting"}, eid : Eids]

NoDelivery == [pc |-> "idle", todo |-> {}, agent |-> "rest", box |-> 0]
DeliveryState ==
    [pc : {"idle", "agents", "box"}, todo : SUBSET AgentNames,
     agent : AgentNames, box : 0 .. MaxBoxes]

NoRequest ==
    [pc |-> "idle", key |-> CHOOSE k \in Keys : TRUE, box |-> 0, kind |-> "all",
     remove |-> TRUE, todo |-> {}, got |-> {}]
RequestState ==
    [pc : {"idle", "mailbox", "lock", "load"}, key : Keys, box : 0 .. MaxBoxes,
     kind : Kinds, remove : BOOLEAN, todo : SUBSET Bundles, got : SUBSET Bundles]

NoGC == [pc |-> "idle", todo |-> {}]
GCState == [pc : {"idle", "queued", "run"}, todo : SUBSET Bundles]

AgentsTypeOK ==
    /\ serving \in BOOLEAN /\ view \in [Bundles -> Views]
    /\ instance \in Instances /\ singleton \in BOOLEAN
    /\ agents \subseteq AgentNames /\ listening \subseteq AgentNames
    /\ bank \in [Keys -> 0 .. MaxBoxes] /\ made \in 0 .. MaxBoxes
    /\ messages \in [Boxes -> [Bundles -> Message]]
    /\ clients \in [Uuids -> Client]
    /\ delivery \in [Bundles -> DeliveryState]
    /\ request \in [Requests -> RequestState]
    /\ gc \in [Boxes -> GCState]
    /\ fate \in [Boxes -> [Bundles -> Fate]]

\* The memory of a process that has not started an agent.
AgentsInit ==
    /\ ViewInit
    /\ instance \in Instances
    /\ singleton = FALSE /\ agents = {} /\ listening = {}
    /\ bank = [k \in Keys |-> 0] /\ made = 0
    /\ messages = [x \in Boxes |-> [b \in Bundles |-> "none"]]
    /\ clients = [u \in Uuids |-> NoClient]
    /\ delivery = [b \in Bundles |-> NoDelivery]
    /\ request = [q \in Requests |-> NoRequest]
    /\ gc = [x \in Boxes |-> NoGC]
    /\ fate = [x \in Boxes |-> [b \in Bundles |-> "none"]]

-----------------------------------------------------------------------------
\* GetBundleDescriptor returns an error.
Gone(b) == view[b] \in {"absent", "deleted"}

(* The locks.  A delivery holds the manager's lock from start to end and the *)
(* bank's while it waits for the mailbox; requests and GC hold a mailbox's.  *)

\* Faulty BankFree: a delivery gives the bank's lock back before it has one of
\* the mailbox.
BankFreeAlways(a) == TRUE

BankFree(a) ==
    \A b \in Bundles : ~(delivery[b].pc = "box" /\ delivery[b].agent = a)

BoxOf(q) == request[q].box

Loading(q, x) == request[q].pc = "load" /\ BoxOf(q) = x

\* sync.RWMutex lets no reader pass a Lock that is waiting.
CanRLock(x) ==
    /\ gc[x].pc = "idle"
    /\ \A q \in Requests : Loading(q, x) => ~request[q].remove

\* Faulty CanLock: requests do not lock the mailbox.
CanLockIgnoresRequests(x) == gc[x].pc # "run"

CanLock(x) == gc[x].pc # "run" /\ \A q \in Requests : ~Loading(q, x)

-----------------------------------------------------------------------------
(* The agent manager *)

\* shutdown empties the map under a read lock, beneath running deliveries.
ShutdownAAManager ==
    /\ singleton
    /\ singleton' = FALSE
    /\ agents' = {}
    /\ UNCHANGED <<viewVars, instance, listening, bank, made, messages,
                   clients, delivery, request, gc, fate>>

\* The goroutine shutdown starts for the UNIX agent.
ShutdownUNIXAgent ==
    /\ "unix" \in listening \ agents
    /\ listening' = listening \ {"unix"}
    /\ UNCHANGED <<viewVars, instance, singleton, agents, bank, made, messages,
                   clients, delivery, request, gc, fate>>

\* The rest of Delivery's loop over the agents.
Continue(todo) ==
    IF todo = {} THEN NoDelivery
    ELSE [NoDelivery EXCEPT !.pc = "agents", !.todo = todo]

\* Delivery: for a descriptor InsertBundle has just returned ...
Delivery(b) ==
    /\ singleton /\ view[b] # "absent" /\ delivery[b].pc = "idle"
    /\ agents # {}
    /\ delivery' = [delivery EXCEPT ![b].pc = "agents", ![b].todo = agents]
    /\ UNCHANGED <<viewVars, managerVars, bank, made, messages, clients,
                   request, gc, fate>>

\* ... every agent's bank looks for the destination's mailbox.  The metadata of
\* a deleted descriptor are refused, also those of an old descriptor of a bundle
\* that has been inserted again (not current) ...
BankDeliver(b, a, current) ==
    LET box == bank[<<a, Dest[b]>>]
        d == delivery[b]
    IN  /\ d.pc = "agents" /\ a \in d.todo
        /\ delivery' = [delivery EXCEPT ![b] =
               IF a \in agents /\ current /\ ~Gone(b) /\ box # 0
               THEN [pc |-> "box", todo |-> d.todo \ {a}, agent |-> a, box |-> box]
               ELSE Continue(d.todo \ {a})]
        /\ UNCHANGED <<viewVars, managerVars, bank, made, messages, clients,
                       request, gc, fate>>

\* ... which takes it unless it lists the bundle or the store has lost it.
MailboxDeliver(b) ==
    LET d == delivery[b]
        x == d.box
    IN  /\ serving /\ d.pc = "box" /\ CanLock(x)
        /\ messages' = IF messages[x][b] = "none" /\ ~Gone(b)
                       THEN [messages EXCEPT ![x][b] = "new"] ELSE messages
        /\ delivery' = [delivery EXCEPT ![b] = Continue(d.todo)]
        /\ UNCHANGED <<viewVars, managerVars, bank, made, clients, request, gc,
                       fate>>

-----------------------------------------------------------------------------
(* Registration of endpoints *)

\* Faulty Register: the endpoint is not looked for first.
RegisterAgain(k) ==
    /\ BankFree(k[1])
    /\ made' = made + 1
    /\ bank' = [bank EXCEPT ![k] = made + 1]

\* MailboxBank.Register; an endpoint that has a mailbox keeps it.
Register(k) ==
    /\ BankFree(k[1])
    /\ IF bank[k] # 0
       THEN UNCHANGED <<bank, made>>
       ELSE /\ made < instance.boxes
            /\ made' = made + 1
            /\ bank' = [bank EXCEPT ![k] = made + 1]

Unregister(k) ==
    /\ BankFree(k[1])
    /\ bank' = [bank EXCEPT ![k] = 0]
    /\ UNCHANGED made

\* handleRegister ignores the error of Register ...
handleRegister(u, e) ==
    /\ "rest" \in listening /\ clients[u].pc = "none"
    /\ Register(<<"rest", e>>)
    /\ clients' = [clients EXCEPT ![u] = [pc |-> "storing", eid |-> e]]
    /\ UNCHANGED <<viewVars, managerVars, messages, delivery, request, gc,
                   fate>>

\* ... and stores the client.
StoreClient(u) ==
    /\ clients[u].pc = "storing"
    /\ clients' = [clients EXCEPT ![u].pc = "client"]
    /\ UNCHANGED <<viewVars, managerVars, bank, made, messages, delivery,
                   request, gc, fate>>

\* handleUnregister, maybe repeated before the client is deleted.
handleUnregister(u) ==
    /\ clients[u].pc \in {"client", "deleting"}
    /\ Unregister(<<"rest", clients[u].eid>>)
    /\ clients' = [clients EXCEPT ![u].pc = "deleting"]
    /\ UNCHANGED <<viewVars, managerVars, messages, delivery, request, gc,
                   fate>>

DeleteClient(u) ==
    /\ clients[u].pc = "deleting"
    /\ clients' = [clients EXCEPT ![u] = NoClient]
    /\ UNCHANGED <<viewVars, managerVars, bank, made, messages, delivery,
                   request, gc, fate>>

handleRegisterUnregister(e) ==
    /\ "unix" \in listening
    /\ Register(<<"unix", e>>) \/ Unregister(<<"unix", e>>)
    /\ UNCHANGED <<viewVars, managerVars, messages, clients, delivery, request,
                   gc, fate>>

-----------------------------------------------------------------------------
(* Requests *)

Listed(m) == {b \in Bundles : m[b] # "none"}
List(x) == Listed(messages[x])

\* handleFetch of a known client: GetAll(true) of its mailbox.
handleFetch(q, u) ==
    /\ "rest" \in listening /\ q \in instance.requests
    /\ request[q].pc = "idle" /\ clients[u].pc \in {"client", "deleting"}
    /\ request' = [request EXCEPT ![q] = [NoRequest EXCEPT
                       !.pc = "mailbox", !.key = <<"rest", clients[u].eid>>]]
    /\ UNCHANGED <<viewVars, managerVars, bank, made, messages, clients,
                   delivery, gc, fate>>

\* handleGetBundle and handleGetAllBundles of an endpoint that has a mailbox.
handleGet(q, e, kind, remove, bids) ==
    LET k == <<"unix", e>>
    IN  /\ "unix" \in listening
        /\ q \in instance.requests /\ <<kind, remove>> \in instance.gets
        /\ request[q].pc = "idle" /\ bank[k] # 0
        /\ request' = [request EXCEPT ![q] =
               [pc |-> "lock", key |-> k, box |-> bank[k], kind |-> kind,
                remove |-> remove, todo |-> bids, got |-> {}]]
        /\ UNCHANGED <<viewVars, managerVars, bank, made, messages, clients,
                       delivery, gc, fate>>

GetMailbox(q) ==
    LET box == bank[request[q].key]
    IN  /\ request[q].pc = "mailbox"
        /\ request' = [request EXCEPT ![q] =
               IF box = 0 THEN NoRequest ELSE [@ EXCEPT !.pc = "lock", !.box = box]]
        /\ UNCHANGED <<viewVars, managerVars, bank, made, messages, clients,
                       delivery, gc, fate>>

\* Get, GetAll and GetNew lock the mailbox for writing only if they remove.
LockMailbox(q) ==
    LET r == request[q]
        x == BoxOf(q)
        todo == IF r.kind = "one" THEN r.todo ELSE List(x)
    IN  /\ r.pc = "lock"
        /\ IF r.remove THEN CanLock(x) ELSE CanRLock(x)
        /\ request' = [request EXCEPT ![q] =
               IF todo \subseteq List(x)
               THEN [r EXCEPT !.pc = "load", !.todo = todo, !.got = {}]
               ELSE NoRequest]
        /\ UNCHANGED <<viewVars, managerVars, bank, made, messages, clients,
                       delivery, gc, fate>>

\* The entries of request r have been answered, or r has failed.
Settled(f, r, outcome) ==
    [b \in Bundles |-> IF b \in r.got /\ f[b] # "answered" THEN outcome ELSE f[b]]

\* One round of the loop; opening a bundle's file may fail.  GetAll and GetNew
\* mark what they have loaded, and any error ends the request: the caller
\* answers with the error alone.
LoadMessage(q, b, opens) ==
    LET r == request[q]
        x == BoxOf(q)
        skipped == r.kind = "new" /\ messages[x][b] = "read"
        loaded == ~skipped /\ view[b] = "live" /\ opens
        fails == ~skipped /\ ~loaded
    IN  /\ serving /\ r.pc = "load" /\ b \in r.todo
        /\ request' = [request EXCEPT ![q] =
               IF fails THEN NoRequest
               ELSE [r EXCEPT !.todo = @ \ {b},
                              !.got = IF loaded THEN @ \cup {b} ELSE @]]
        /\ messages' = IF loaded /\ r.kind # "one"
                       THEN [messages EXCEPT ![x][b] = "read"] ELSE messages
        /\ fate' = IF fails THEN [fate EXCEPT ![x] = Settled(@, r, "failed")]
                   ELSE fate
        /\ UNCHANGED <<viewVars, managerVars, bank, made, clients, delivery,
                       gc>>

\* The history ends with the entry.
Kept(f, m) == [b \in Bundles |-> IF m[b] = "none" THEN "none" ELSE f[b]]

\* What a mailbox lists after request r.
Remaining(r, m) ==
    [b \in Bundles |->
        IF r.kind = "one" /\ b \notin r.got THEN m[b]
        ELSE IF r.remove THEN "none"
        ELSE IF r.kind = "one" THEN "read" ELSE m[b]]

Answer(q) ==
    LET r == request[q]
        x == BoxOf(q)
    IN  /\ r.pc = "load" /\ r.todo = {}
        /\ messages' = [messages EXCEPT ![x] = Remaining(r, @)]
        /\ fate' = [fate EXCEPT ![x] =
               IF r.remove THEN Kept(@, messages'[x])
               ELSE Settled(@, r, "answered")]
        /\ request' = [request EXCEPT ![q] = NoRequest]
        /\ UNCHANGED <<viewVars, managerVars, bank, made, clients, delivery,
                       gc>>

-----------------------------------------------------------------------------
(* Garbage collection of mailboxes *)

\* Manager.GC, the agents' GC and MailboxBank.GC start a goroutine for every
\* mailbox of a registered agent, which calls Lock.
StartGC(x) ==
    /\ singleton /\ \E k \in Keys : k[1] \in agents /\ bank[k] = x
    /\ gc[x].pc = "idle"
    /\ gc' = [gc EXCEPT ![x].pc = "queued"]
    /\ UNCHANGED <<viewVars, managerVars, bank, made, messages, clients,
                   delivery, request, fate>>

\* The rest of GC's loop.
Visiting(todo) == IF todo = {} THEN NoGC ELSE [pc |-> "run", todo |-> todo]

GCLock(x) ==
    /\ gc[x].pc = "queued" /\ CanLock(x)
    /\ gc' = [gc EXCEPT ![x] = Visiting(List(x))]
    /\ UNCHANGED <<viewVars, managerVars, bank, made, messages, clients,
                   delivery, request, fate>>

\* Faulty GCVisit: a bundle the store does not know is left alone.
GCVisitKeepsUnknown(x, b) ==
    /\ serving /\ gc[x].pc = "run" /\ b \in gc[x].todo
    /\ gc' = [gc EXCEPT ![x] = Visiting(gc[x].todo \ {b})]
    /\ messages' = IF view[b] = "deleted"
                   THEN [messages EXCEPT ![x][b] = "none"] ELSE messages
    /\ fate' = [fate EXCEPT ![x] = Kept(@, messages'[x])]
    /\ UNCHANGED <<viewVars, managerVars, bank, made, clients, delivery,
                   request>>

GCVisit(x, b) ==
    /\ serving /\ gc[x].pc = "run" /\ b \in gc[x].todo
    /\ gc' = [gc EXCEPT ![x] = Visiting(gc[x].todo \ {b})]
    /\ messages' = IF Gone(b)
                   THEN [messages EXCEPT ![x][b] = "none"] ELSE messages
    /\ fate' = [fate EXCEPT ![x] = Kept(@, messages'[x])]
    /\ UNCHANGED <<viewVars, managerVars, bank, made, clients, delivery,
                   request>>

-----------------------------------------------------------------------------
(* The process and the specification *)

\* A process begins and ends without mailboxes and goroutines.
ForgetAgents ==
    /\ listening' = agents' /\ UNCHANGED instance
    /\ bank' = [k \in Keys |-> 0] /\ made' = 0
    /\ messages' = [x \in Boxes |-> [b \in Bundles |-> "none"]]
    /\ clients' = [u \in Uuids |-> NoClient]
    /\ delivery' = [b \in Bundles |-> NoDelivery]
    /\ request' = [q \in Requests |-> NoRequest]
    /\ gc' = [x \in Boxes |-> NoGC]
    /\ fate' = [x \in Boxes |-> [b \in Bundles |-> "none"]]

\* Bundles a behaviour does not use are never inserted.
InBounds == \A b \in Bundles \ instance.bundles : view'[b] = "absent"

\* startDtnd initialises the store and the manager and registers the agents;
\* RegisterAgent starts an agent and leaves out one that does not start.
Start ==
    /\ ViewStart
    /\ singleton' = TRUE
    /\ agents' \in SUBSET instance.agents /\ InBounds
    /\ ForgetAgents

\* stopDtnd shuts the manager down before the store.
ShutdownStore == ~singleton /\ ViewClose /\ UNCHANGED agentVars

\* Also what log.Fatalf does to a goroutine that asks for a missing singleton,
\* and what the Go runtime may do when two read-locked requests, or a GC and a
\* registration, use one map at the same time.
Halt == ViewHalt /\ singleton' = FALSE /\ agents' = {} /\ ForgetAgents

StoreStep == ViewStep /\ InBounds /\ UNCHANGED agentVars

DeliveryStep(b) ==
    \/ Delivery(b)
    \/ \E a \in AgentNames, current \in BOOLEAN : BankDeliver(b, a, current)
    \/ MailboxDeliver(b)

RequestStep(q) ==
    \/ \E u \in Uuids : handleFetch(q, u)
    \/ \E e \in Eids, remove \in BOOLEAN :
           \/ \E b \in Bundles : handleGet(q, e, "one", remove, {b})
           \/ \E kind \in {"all", "new"} : handleGet(q, e, kind, remove, {})
    \/ GetMailbox(q) \/ LockMailbox(q)
    \/ \E b \in Bundles, opens \in BOOLEAN : LoadMessage(q, b, opens)
    \/ Answer(q)

ClientStep(u) ==
    \/ \E e \in Eids : handleRegister(u, e)
    \/ StoreClient(u) \/ handleUnregister(u) \/ DeleteClient(u)

GCStep(x) ==
    \/ StartGC(x) \/ GCLock(x)
    \/ \E b \in Bundles : GCVisit(x, b)

AgentsNext ==
    \/ StoreStep \/ Start \/ ShutdownStore \/ Halt
    \/ ShutdownAAManager \/ ShutdownUNIXAgent
    \/ \E b \in Bundles : DeliveryStep(b)
    \/ \E u \in Uuids : ClientStep(u)
    \/ \E e \in Eids : handleRegisterUnregister(e)
    \/ \E q \in Requests : RequestStep(q)
    \/ \E x \in Boxes : GCStep(x)

AgentsSpec == AgentsInit /\ [][AgentsNext]_allVars

\* The cron job of main.go starts GC for ever, goroutines go on, and a waiting
\* Lock of a sync.RWMutex is served before later ones.
AgentsFairness ==
    /\ \A x \in Boxes :
           /\ WF_allVars(StartGC(x))
           /\ SF_allVars(GCLock(x) \/ \E b \in Bundles : GCVisit(x, b))
    /\ \A q \in Requests :
           WF_allVars(Answer(q) \/ \E b \in Bundles, opens \in BOOLEAN :
                                       LoadMessage(q, b, opens))

FairAgentsSpec == AgentsSpec /\ AgentsFairness

-----------------------------------------------------------------------------
(* Properties *)

\* Request q has gone through its loop over mailbox x and answers.
Answers(q, x) == Loading(q, x) /\ request[q].todo = {} /\ request'[q].pc = "idle"

\* A mailbox forgets a bundle only when the store has lost it, or in a request
\* that answers, and then the client gets it or has got it from an earlier
\* request: not when a delivery, another request or the garbage collection comes
\* between the loop of GetAll and its clear.  One case is left, in which nobody
\* gets the bundle: GetNew(true) clears what a request marked that failed on a
\* later bundle and answered with the error alone (mailbox.go:138, :147, :187),
\* although the mark "signif[ies] whether the bundle has already been retrieved"
\* (mailbox.go:18) and the failed request "still returns all bundles that were
\* successfully loaded before the error" (mailbox.go:124, :160).
KeptUntilAnswered ==
    [][\/ \A x \in Boxes, b \in Bundles :
              messages[x][b] # "none" /\ messages'[x][b] = "none" =>
                  \/ Gone(b)
                  \/ \E q \in Requests :
                         /\ Answers(q, x)
                         /\ \/ b \in request[q].got
                            \/ fate[x][b] = "answered"
                            \/ fate[x][b] = "failed" /\ request[q].kind = "new"
       \/ Start \/ Halt]_allVars

\* A bundle is put only into the mailbox its endpoint has at that moment: an
\* endpoint that is unregistered, and maybe registered again with a new mailbox,
\* between the look-up of the bank and Mailbox.Deliver does not lose it.
DeliveredIsReachable ==
    [][\A x \in Boxes, b \in Bundles :
           messages[x][b] = "none" /\ messages'[x][b] # "none" =>
               \E a \in AgentNames : bank[<<a, Dest[b]>>] = x]_allVars

Collectable(x) ==
    serving /\ singleton /\ \E k \in Keys : k[1] \in agents /\ bank[k] = x

\* "Removes all bundles which can longer be loaded from the store": an entry
\* whose bundle is gone, which makes every GetAll of its mailbox fail, is
\* removed in the end.
StaleIsCollected ==
    \A x \in Boxes, b \in Bundles :
        (Collectable(x) /\ messages[x][b] # "none" /\ Gone(b))
            ~> (~Collectable(x) \/ messages[x][b] = "none" \/ ~Gone(b))
-----------------------------------------------------------------------------
(* The inductive invariant behind the action properties *)

\* Goroutines that wait for a mailbox or use it have one.
BoxesAreMade ==
    /\ \A b \in Bundles : delivery[b].pc = "box" => delivery[b].box # 0
    /\ \A q \in Requests : request[q].pc \in {"lock", "load"} => request[q].box # 0

\* The bank's lock keeps the mailbox of a delivery registered.
DeliveryHoldsBank ==
    \A b \in Bundles : delivery[b].pc = "box" =>
        bank[<<delivery[b].agent, Dest[b]>>] = delivery[b].box

\* Who removes from a mailbox is alone with it.
RemoverIsAlone ==
    /\ \A x \in Boxes : gc[x].pc = "run" => \A q \in Requests : ~Loading(q, x)
    /\ \A p, q \in Requests :
           p # q /\ request[p].pc = "load" /\ request[q].pc = "load"
               /\ BoxOf(p) = BoxOf(q) => ~request[p].remove

\* A request r works on bundles its mailbox m lists, and one that will clear the
\* mailbox has yet to load, or has loaded, whatever is unread.
Covered(r, m) ==
    /\ r.todo \cup r.got \subseteq Listed(m)
    /\ r.remove /\ r.kind = "all" => Listed(m) \subseteq r.todo \cup r.got
    /\ r.remove /\ r.kind = "new" => \A b \in Bundles : m[b] = "new" => b \in r.todo

RequestCovers ==
    \A q \in Requests :
        request[q].pc = "load" => Covered(request[q], messages[BoxOf(q)])

AgentsInv ==
    /\ AgentsTypeOK /\ BoxesAreMade /\ DeliveryHoldsBank
    /\ RemoverIsAlone /\ RequestCovers

\* A marked entry was marked by a request that has ended, or has it in hand.
MarkIsSettled ==
    \A x \in Boxes, b \in Bundles :
        messages[x][b] = "read" =>
            \/ fate[x][b] # "none"
            \/ \E q \in Requests : Loading(q, x) /\ b \in request[q].got
=============================================================================
