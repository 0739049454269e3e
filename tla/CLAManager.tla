------------------------------- MODULE CLAManager -------------------------------
(***************************************************************************)
(* The manager of convergence layer adapters, pkg/cla/cla_manager.go, with  *)
(* the adapters as far as they drive it: the MTCP client and server         *)
(* (pkg/cla/mtcp) and the QUICL endpoint (pkg/cla/quicl).                   *)
(*                                                                          *)
(* An adapter is an object with an address; neighbour discovery and the     *)
(* QUICL listener make a new one for every announcement and connection, so  *)
(* several objects share an address.  The manager identifies adapters by    *)
(* their address alone.                                                     *)
(*                                                                          *)
(* Every section the manager runs under stateMutex or disconnectMutex is    *)
(* one action; between them run the adapters' own goroutines, the loss of   *)
(* connections and the shutdown of the manager.                             *)
(***************************************************************************)
EXTENDS Naturals

CONSTANTS
    Clas,       \* the adapter objects that are ever created
    Address,    \* Address[c]: what c.Address() returns
    Type,       \* Type[c]: "mtcp", an MTCPClient; "quicl", an Endpoint;
                \* "server", an MTCPServer
    MaxNotify   \* bound: NotifyDisconnect calls per QUICL endpoint

ASSUME ClaAssumption ==
    /\ Type \in [Clas -> {"mtcp", "quicl", "server"}]
    /\ MaxNotify \in Nat \ {0}

ConvergenceSender == {c \in Clas : Type[c] # "server"}
ConvergenceReceiver == {c \in Clas : Type[c] # "mtcp"}
ConvergenceListener == {c \in Clas : Type[c] = "server"}

VARIABLES
    phase,           \* "up"; "stopping": managerSingleton is nil; "stopped": the
                     \* lists are empty, too; "exited": stopDtnd has returned and
                     \* with it the process; "fatal", "panic": the process was
                     \* ended by log.Fatalf or by a panic
    pendingStart, senders, receivers, listeners,
                     \* the manager's lists; an object is registered only once,
                     \* so each is the set of its elements
    pendingRemoval,  \* the addresses NotifyDisconnect is at work on
    reg,             \* how far the registration of an adapter has come
    link,            \* its connection; "lost" is also a server that was closed
    announced,       \* adapters that have called NotifyConnect
    calls,           \* how often an adapter has called NotifyDisconnect
    removing,        \* those of the calls that wait for stateMutex
    closing          \* pending Close calls shutdown has started

lists == <<pendingStart, senders, receivers, listeners>>
claVars == <<phase, lists, pendingRemoval, reg, link, announced, calls,
             removing, closing>>

Phases == {"up", "stopping", "stopped", "exited", "fatal", "panic"}
Running == phase \in {"up", "stopping", "stopped"}

Registration == {"new", "registering", "rejected", "activating", "activated",
                 "failed", "done"}

ClaTypeOK ==
    /\ phase \in Phases
    /\ pendingStart \subseteq Clas
    /\ senders \subseteq ConvergenceSender
    /\ receivers \subseteq ConvergenceReceiver
    /\ listeners \subseteq ConvergenceListener
    /\ pendingRemoval \subseteq {Address[c] : c \in Clas}
    /\ reg \in [Clas -> Registration]
    /\ link \in [Clas -> {"none", "up", "lost"}]
    /\ announced \subseteq Clas
    /\ calls \in [Clas -> 0 .. MaxNotify]
    /\ removing \subseteq Clas
    /\ closing \in [Clas -> 0 .. 2]

\* After InitialiseCLAManager.
ClaInit ==
    /\ phase = "up"
    /\ pendingStart = {} /\ senders = {} /\ receivers = {} /\ listeners = {}
    /\ pendingRemoval = {}
    /\ reg = [c \in Clas |-> "new"]
    /\ link = [c \in Clas |-> "none"]
    /\ announced = {}
    /\ calls = [c \in Clas |-> 0]
    /\ removing = {}
    /\ closing = [c \in Clas |-> 0]

\* GetManagerSingleton: a nil singleton ends the process, otherwise A happens.
WithManager(A) ==
    IF phase = "up" THEN A
    ELSE phase' = "fatal" /\ UNCHANGED <<lists, pendingRemoval, reg, link,
                                         announced, calls, removing, closing>>

SameAddress(c, S) == {d \in S : Address[d] = Address[c]}

-----------------------------------------------------------------------------
(* Registration *)

checkPresent(c) ==
    \/ SameAddress(c, pendingStart) # {}
    \/ c \in ConvergenceReceiver /\ SameAddress(c, receivers) # {}
    \/ c \in ConvergenceSender /\ SameAddress(c, senders) # {}

\* Register, by main, the QUICL listener or handleDiscovery; the latter asks
\* CheckPresent first, an answer that is stale when registerAsync runs.
Register(c) ==
    /\ Running /\ reg[c] = "new"
    /\ Type[c] = "server" => phase = "up"
    /\ WithManager(/\ reg' = [reg EXCEPT ![c] = "registering"]
                   /\ UNCHANGED <<phase, lists, pendingRemoval, link, announced,
                                  calls, removing, closing>>)

\* Faulty registerAsync: the answer of CheckPresent is trusted.
registerAsyncUnchecked(c) ==
    /\ Running /\ reg[c] = "registering"
    /\ reg' = [reg EXCEPT ![c] = "activating"]
    /\ pendingStart' = pendingStart \cup {c}
    /\ UNCHANGED <<phase, senders, receivers, listeners, pendingRemoval, link,
                   announced, calls, removing, closing>>

registerAsync(c) ==
    /\ Running /\ reg[c] = "registering"
    /\ IF checkPresent(c)
       THEN reg' = [reg EXCEPT ![c] = "rejected"] /\ UNCHANGED pendingStart
       ELSE /\ reg' = [reg EXCEPT ![c] = "activating"]
            /\ pendingStart' = pendingStart \cup {c}
    /\ UNCHANGED <<phase, senders, receivers, listeners, pendingRemoval, link,
                   announced, calls, removing, closing>>

\* Activate of a client connects (QUICL: and shakes hands) and starts the
\* goroutine that serves the connection, before it returns.
Connect(c) ==
    /\ Running /\ reg[c] = "activating" /\ link[c] = "none"
    /\ c \in ConvergenceSender
    /\ link' = [link EXCEPT ![c] = "up"]
    /\ UNCHANGED <<phase, lists, pendingRemoval, reg, announced, calls, removing,
                   closing>>

\* NotifyConnect, called by the MTCP client's goroutine or by the QUICL
\* endpoint's Activate; it starts connectCallback.
NotifyConnect(c) ==
    /\ Running /\ link[c] # "none" /\ c \notin announced
    /\ WithManager(/\ announced' = announced \cup {c}
                   /\ UNCHANGED <<phase, lists, pendingRemoval, reg, link, calls,
                                  removing, closing>>)

\* Activate returns nil, ...
ActivateReturns(c) ==
    /\ Running /\ reg[c] = "activating"
    /\ \/ Type[c] = "server"
       \/ Type[c] = "mtcp" /\ link[c] # "none"
       \/ Type[c] = "quicl" /\ c \in announced
    /\ reg' = [reg EXCEPT ![c] = "activated"]
    /\ UNCHANGED <<phase, lists, pendingRemoval, link, announced, calls, removing,
                   closing>>

\* ... or the error of a dial or handshake that failed.
ActivateFails(c) ==
    /\ Running /\ reg[c] = "activating" /\ link[c] = "none"
    /\ c \in ConvergenceSender
    /\ reg' = [reg EXCEPT ![c] = "failed"]
    /\ UNCHANGED <<phase, lists, pendingRemoval, link, announced, calls, removing,
                   closing>>

\* activateCLA, once Activate has returned.
activateCLA(c) ==
    /\ Running /\ reg[c] \in {"activated", "failed"}
    /\ pendingStart' = pendingStart \ SameAddress(c, pendingStart)
    /\ receivers' = IF reg[c] = "activated" /\ c \in ConvergenceReceiver
                    THEN receivers \cup {c} ELSE receivers
    /\ senders' = IF reg[c] = "activated" /\ c \in ConvergenceSender
                  THEN senders \cup {c} ELSE senders
    /\ reg' = [reg EXCEPT ![c] = "done"]
    /\ UNCHANGED <<phase, listeners, pendingRemoval, link, announced, calls,
                   removing, closing>>

\* RegisterListener, by main, of a listener whose Start succeeds.
RegisterListener(c) ==
    /\ phase = "up" /\ c \in ConvergenceListener \ listeners
    /\ listeners' = listeners \cup {c}
    /\ UNCHANGED <<phase, pendingStart, senders, receivers, pendingRemoval, reg,
                   link, announced, calls, removing, closing>>

-----------------------------------------------------------------------------
(* Disconnection *)

\* The network: a connection breaks, before or after Activate has returned.
LoseLink(c) ==
    /\ Running /\ link[c] = "up"
    /\ link' = [link EXCEPT ![c] = "lost"]
    /\ UNCHANGED <<phase, lists, pendingRemoval, reg, announced, calls, removing,
                   closing>>

\* Faulty MtcpNotices: the client does not look at `stopped`.
MtcpNoticesRepeatedly(c) == Type[c] = "mtcp" /\ calls[c] < MaxNotify

\* The MTCP client notices a lost connection in its keepalive goroutine or in
\* Send; its flag `stopped` lets Close notify once.
MtcpNotices(c) ==
    Type[c] = "mtcp" /\ calls[c] = 0 /\ (c \in announced \/ c \in senders)

\* Every Send, every stream and the accepting goroutine of a QUICL endpoint may
\* notice, and each of them notifies.
QuiclNotices(c) == Type[c] = "quicl" /\ calls[c] < MaxNotify

\* NotifyDisconnect up to the unlocking of disconnectMutex: a call for an
\* address that is being removed returns.
NotifyDisconnect(c) ==
    /\ Running /\ link[c] = "lost"
    /\ MtcpNotices(c) \/ QuiclNotices(c)
    /\ WithManager(
           /\ calls' = [calls EXCEPT ![c] = @ + 1]
           /\ IF Address[c] \in pendingRemoval
              THEN UNCHANGED <<pendingRemoval, removing>>
              ELSE /\ pendingRemoval' = pendingRemoval \cup {Address[c]}
                   /\ removing' = removing \cup {c}
           /\ UNCHANGED <<phase, lists, reg, link, announced, closing>>)

\* The rest of it, under stateMutex.
RemoveDisconnected(c) ==
    /\ Running /\ c \in removing
    /\ receivers' = IF c \in ConvergenceReceiver
                    THEN receivers \ SameAddress(c, receivers) ELSE receivers
    /\ senders' = IF c \in ConvergenceSender
                  THEN senders \ SameAddress(c, senders) ELSE senders
    /\ pendingRemoval' = pendingRemoval \ {Address[c]}
    /\ removing' = removing \ {c}
    /\ UNCHANGED <<phase, pendingStart, listeners, reg, link, announced, calls,
                   closing>>

-----------------------------------------------------------------------------
(* Shutdown *)

\* shutdown forgets the singleton ...
Shutdown ==
    /\ phase = "up"
    /\ phase' = "stopping"
    /\ UNCHANGED <<lists, pendingRemoval, reg, link, announced, calls, removing,
                   closing>>

\* ... and then, under stateMutex, starts a Close for every element of every
\* list: an MTCPServer is both a receiver and a listener.
CloseAll ==
    /\ phase = "stopping"
    /\ phase' = "stopped"
    /\ closing' = [c \in Clas |-> (IF c \in receivers THEN 1 ELSE 0)
                                  + (IF c \in senders THEN 1 ELSE 0)
                                  + (IF c \in listeners THEN 1 ELSE 0)]
    /\ receivers' = {} /\ senders' = {} /\ listeners' = {}
    /\ UNCHANGED <<pendingStart, pendingRemoval, reg, link, announced, calls,
                   removing>>

\* One of these calls.  A connected MTCPClient calls NotifyDisconnect of the
\* singleton, an MTCPServer closes its channel, which panics the second time,
\* a QUICL endpoint closes its connection without notifying anybody.
Close(c) ==
    /\ phase = "stopped" /\ closing[c] > 0
    /\ closing' = [closing EXCEPT ![c] = @ - 1]
    /\ link' = [link EXCEPT ![c] = "lost"]
    /\ phase' = IF Type[c] = "mtcp" /\ calls[c] = 0 THEN "fatal"
                ELSE IF Type[c] = "server" /\ link[c] = "lost" THEN "panic"
                ELSE phase
    /\ UNCHANGED <<lists, pendingRemoval, reg, announced, calls, removing>>

\* stopDtnd returns, and main with it.
Exit ==
    /\ phase = "stopped"
    /\ phase' = "exited"
    /\ UNCHANGED <<lists, pendingRemoval, reg, link, announced, calls, removing,
                   closing>>

-----------------------------------------------------------------------------
(* Specification *)

ClaNext ==
    \/ \E c \in Clas :
           \/ Register(c) \/ registerAsync(c)
           \/ Connect(c) \/ NotifyConnect(c)
           \/ ActivateReturns(c) \/ ActivateFails(c) \/ activateCLA(c)
           \/ RegisterListener(c)
           \/ LoseLink(c) \/ NotifyDisconnect(c) \/ RemoveDisconnected(c)
           \/ Close(c)
    \/ Shutdown \/ CloseAll \/ Exit

ClaSpec == ClaInit /\ [][ClaNext]_claVars

-----------------------------------------------------------------------------
(* Properties *)

\* The address is there to "ensure it will not be opened twice": however the
\* registrations of adapters with one address overlap, at most one of them is
\* being started, and a sender (receiver) is started only while no other one is
\* in the list of senders (receivers).
OpenedOnce ==
    \A c, d \in Clas : Address[c] = Address[d] /\ c # d =>
        /\ ~(c \in pendingStart /\ d \in pendingStart)
        /\ c \in ConvergenceSender =>
               ~(c \in pendingStart \cup senders /\ d \in senders)
        /\ c \in ConvergenceReceiver =>
               ~(c \in pendingStart \cup receivers /\ d \in receivers)

\* No QUICL endpoint, which may notify twice, has the address of c.
NotifiesOnce(c) == \A d \in Clas : Address[d] = Address[c] => Type[d] # "quicl"

\* An MTCP client that was activated and whose connection stands is a sender
\* until the shutdown: the disconnection of another client of its address, an
\* older one of the same peer, does not remove it.
LiveLinkIsListed ==
    \A c \in ConvergenceSender :
        NotifiesOnce(c) /\ phase = "up" /\ reg[c] = "done" /\ link[c] = "up" =>
            c \in senders

-----------------------------------------------------------------------------
(* The inductive invariants behind OpenedOnce and LiveLinkIsListed *)

\* The lists follow the registrations.
ListsFollowRegistration ==
    \A c \in Clas :
        /\ c \in pendingStart <=> reg[c] \in {"activating", "activated", "failed"}
        /\ c \in senders \cup receivers => reg[c] = "done"

ClaInv == ClaTypeOK /\ OpenedOnce /\ ListsFollowRegistration

\* A connection exists from Activate on, it is reported only when it is lost,
\* and until it is reported its adapter is listed.
LinkInv ==
    \A c \in Clas : NotifiesOnce(c) =>
        /\ link[c] # "none" => /\ c \in ConvergenceSender
                               /\ reg[c] \in {"activating", "activated", "done"}
        /\ link[c] # "lost" => calls[c] = 0
        /\ c \in removing => link[c] = "lost" /\ calls[c] > 0
        /\ reg[c] = "done" /\ link[c] # "none" /\ calls[c] = 0 => c \in senders

\* While the removal of an adapter is pending, no other one can take its address.
RemovalKeepsAddress ==
    \A c \in removing : NotifiesOnce(c) => c \in pendingStart \cup senders

MtcpInv == phase = "up" => LinkInv /\ RemovalKeepsAddress
=============================================================================
