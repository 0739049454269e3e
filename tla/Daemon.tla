--------------------------------- MODULE Daemon ---------------------------------
(***************************************************************************)
(* The daemon's process, cmd/dtnd/main.go: main starts the components one  *)
(* after the other, waits for a signal and stops them again, while the     *)
(* goroutines that agents, the MTCP server (pkg/cla/mtcp/server.go),       *)
(* neighbour discovery (pkg/discovery) and the cron jobs start go on.      *)
(*                                                                         *)
(* A component is reached through its singleton, and the getter of a       *)
(* singleton that is nil ends the process.  A goroutine is the sequence of *)
(* the singletons it asks for.  What the components do is modelled in      *)
(* BundleStore, Processing, Agents, CLAManager and the others.             *)
(***************************************************************************)
EXTENDS Naturals, Sequences

CONSTANTS
    Tasks,      \* bound: goroutines that use singletons at the same time
    MaxConns,   \* bound: connections of the MTCP server
    Packets     \* what discovery may receive: sets of announcements

AnnouncementType ==
    [own : BOOLEAN, type : {"TCPCLv4", "MTCP", "QUICL", "meshtastic", "unknown"}]

ASSUME DaemonAssumption ==
    /\ MaxConns \in Nat
    /\ Packets \subseteq SUBSET AnnouncementType

Singletons == {"store", "ids", "routing", "agents", "cla", "discovery"}

VARIABLES
    process,    \* "running", or how it ended: "exited", "fatal" or "panic"
    main,       \* what startDtnd, main or stopDtnd does next
    errs,       \* startupErrors: the components that had one
    up,         \* the singletons that are not nil
    serving,    \* an application agent accepts clients
    cron,       \* the scheduler runs
    discover,   \* peerdiscovery.Discover
    server,     \* the MTCP server's accepting goroutine: "none", "listening",
                \* "closed", or "stuck", waiting for itself
    stopSyn,    \* the MTCP server's channel is closed
    closes,     \* calls of MTCPServer.Close that shutdown has started
    conns,      \* handleSender goroutines
    task        \* the singletons a goroutine is going to ask for

serverVars == <<server, stopSyn, closes, conns>>
daemonVars == <<process, main, errs, up, serving, cron, discover, serverVars, task>>

Starting == {"store", "ids", "routing", "agents", "agent", "cla", "listener",
             "discovery", "discovering", "cron"}
Stopping == {"stopDiscovery", "stopDiscover", "stopCla", "stopAgents",
             "stopRouting", "stopIds", "stopStore"}

\* After its step, main goes on with ...
After == [ids |-> "routing", routing |-> "agents", agents |-> "agent", cla |-> "listener",
          stopAgents |-> "stopRouting", stopRouting |-> "stopIds", stopIds |-> "stopStore"]

\* The goroutines, by what starts them; a forwarding ends three of them.
forwarding == <<"cla", "routing", "store">>
receiving == <<"store", "agents", "routing">> \o forwarding
Uses == [create |-> <<"agents", "ids">> \o receiving,
         receive |-> receiving,
         dispatch |-> <<"store">> \o forwarding,
         gc |-> <<"store", "agents">>,
         discovery |-> <<"cla", "cla">>]

DaemonTypeOK ==
    /\ process \in {"running", "exited", "fatal", "panic"}
    /\ main \in Starting \cup {"wait"} \cup Stopping
    /\ errs \subseteq {"store", "agent", "listener", "discovery", "cron"}
    /\ serving \in BOOLEAN /\ cron \in BOOLEAN
    /\ up \subseteq Singletons
    /\ discover \in {"off", "running", "ended", "stopped"}
    /\ server \in {"none", "listening", "closed", "stuck"}
    /\ stopSyn \in BOOLEAN
    /\ closes \in 0 .. 2 /\ conns \in 0 .. MaxConns
    /\ task \in [Tasks -> Seq(Singletons)]

DaemonInit ==
    /\ process = "running" /\ main = "store"
    /\ errs = {} /\ serving = FALSE /\ cron = FALSE
    /\ up = {}
    /\ discover = "off"
    /\ server = "none" /\ stopSyn = FALSE /\ closes = 0 /\ conns = 0
    /\ task = [t \in Tasks |-> <<>>]

Ends(how) ==
    /\ process' = how
    /\ UNCHANGED <<main, errs, up, serving, cron, discover, serverVars, task>>

-----------------------------------------------------------------------------
(* startDtnd: an error is noted, and the startup goes on *)

\* InitialiseStore sets its singleton last, if nothing fails before.
InitialiseStore ==
    /\ process = "running" /\ main = "store" /\ main' = "ids"
    /\ \/ up' = up \cup {"store"} /\ UNCHANGED errs
       \/ errs' = errs \cup {"store"} /\ UNCHANGED up
    /\ UNCHANGED <<process, serving, cron, discover, serverVars, task>>

\* InitializeIdKeeper, InitialiseAlgorithm, InitialiseApplicationAgentManager and
\* InitialiseCLAManager.
Initialise ==
    /\ process = "running" /\ main \in {"ids", "routing", "agents", "cla"}
    /\ up' = up \cup {main}
    /\ main' = After[main]
    /\ UNCHANGED <<process, errs, serving, cron, discover, serverVars, task>>

\* RegisterAgent for each of the two agents that is configured: one may serve while
\* the other fails to listen.
RegisterAgent ==
    /\ process = "running" /\ main = "agent" /\ main' = "cla"
    /\ serving' \in BOOLEAN
    /\ errs' \in {errs, errs \cup {"agent"}}
    /\ UNCHANGED <<process, up, cron, discover, serverVars, task>>

\* RegisterListener of an MTCPServer, if there is one: Start listens, or fails.
RegisterListener ==
    /\ process = "running" /\ main = "listener" /\ main' = "discovery"
    /\ \/ server' = "listening" /\ UNCHANGED errs
       \/ errs' = errs \cup {"listener"} /\ UNCHANGED server
       \/ UNCHANGED <<errs, server>>
    /\ UNCHANGED <<process, up, serving, cron, discover, stopSyn, closes, conns, task>>

\* InitialiseManager of discovery starts Discover ...
StartDiscover ==
    /\ process = "running" /\ main = "discovery" /\ main' = "discovering"
    /\ discover' = "running"
    /\ UNCHANGED <<process, errs, up, serving, cron, serverVars, task>>

\* ... and gives it a second to fail.
InitialiseDiscovery ==
    /\ process = "running" /\ main = "discovering" /\ main' = "cron"
    /\ \/ up' = up \cup {"discovery"} /\ UNCHANGED errs
       \/ discover = "ended" /\ errs' = errs \cup {"discovery"} /\ UNCHANGED up
    /\ UNCHANGED <<process, serving, cron, discover, serverVars, task>>

\* Faulty StartCron: the daemon serves in spite of errors.
StartCronAnyway ==
    /\ process = "running" /\ main = "cron" /\ main' = "wait"
    /\ cron' = TRUE /\ UNCHANGED errs
    /\ UNCHANGED <<process, up, serving, discover, serverVars, task>>

\* The scheduler and its jobs; main returns if there has been an error.
StartCron ==
    /\ process = "running" /\ main = "cron"
    /\ \/ cron' = TRUE /\ errs' \in {errs, errs \cup {"cron"}}
       \/ errs' = errs \cup {"cron"} /\ UNCHANGED cron
    /\ main' = IF errs' # {} THEN "stopDiscovery" ELSE "wait"
    /\ UNCHANGED <<process, up, serving, discover, serverVars, task>>

-----------------------------------------------------------------------------
(* stopDtnd: the scheduler is not stopped *)

Signal ==
    /\ process = "running" /\ main = "wait" /\ main' = "stopDiscovery"
    /\ UNCHANGED <<process, errs, up, serving, cron, discover, serverVars, task>>

ShutdownDiscovery ==
    /\ process = "running" /\ main = "stopDiscovery"
    /\ up' = up \ {"discovery"}
    /\ main' = IF "discovery" \in up THEN "stopDiscover" ELSE "stopCla"
    /\ UNCHANGED <<process, errs, serving, cron, discover, serverVars, task>>

\* Faulty StopDiscover: the nil channel of IPv6 is sent to as well.
StopDiscoverBoth ==
    /\ process = "running" /\ main = "stopDiscover"
    /\ discover = "running" /\ discover' = "stopped"
    /\ UNCHANGED <<process, main, errs, up, serving, cron, serverVars, task>>

\* The send on stopChan4 waits until Discover takes it.
StopDiscover ==
    /\ process = "running" /\ main = "stopDiscover" /\ main' = "stopCla"
    /\ discover = "running" /\ discover' = "stopped"
    /\ UNCHANGED <<process, errs, up, serving, cron, serverVars, task>>

\* The MTCP server is closed as a listener, if it was started, and as a receiver,
\* if its registration has come so far.
ShutdownCLAManager ==
    /\ process = "running" /\ main = "stopCla" /\ main' = "stopAgents"
    /\ up' = up \ {"cla"}
    /\ \E receiver \in 0 .. 1 :
           closes' = IF server = "none" THEN receiver ELSE receiver + 1
    /\ UNCHANGED <<process, errs, serving, cron, discover, server, stopSyn, conns, task>>

\* ShutdownAAManager, ShutdownAlgorithm and ShutdownIdKeeper.  The REST agent's
\* HTTP server goes on.
Shutdown ==
    /\ process = "running" /\ main \in {"stopAgents", "stopRouting", "stopIds"}
    /\ up' = up \ {CASE main = "stopAgents" -> "agents"
                     [] main = "stopRouting" -> "routing"
                     [] main = "stopIds" -> "ids"}
    /\ main' = After[main]
    /\ UNCHANGED <<process, errs, serving, cron, discover, serverVars, task>>

\* ShutdownStore forgets the singleton and closes the database; an error of Close
\* is logged.  Then stopDtnd and main return.
ShutdownStore ==
    /\ process = "running" /\ main = "stopStore"
    /\ up' = up \ {"store"}
    /\ process' = "exited"
    /\ UNCHANGED <<main, errs, serving, cron, discover, serverVars, task>>

-----------------------------------------------------------------------------
(* The MTCP server *)

Accept ==
    /\ process = "running" /\ server = "listening" /\ conns < MaxConns
    /\ conns' = conns + 1
    /\ UNCHANGED <<process, main, errs, up, serving, cron, discover, server, stopSyn,
                   closes, task>>

\* handleSender returns: end of file, a broken connection or a bad bundle.
ConnectionEnds ==
    /\ process = "running" /\ conns > 0
    /\ conns' = conns - 1
    /\ UNCHANGED <<process, main, errs, up, serving, cron, discover, server, stopSyn,
                   closes, task>>

\* The accepting goroutine sees that stopSyn is closed; connections stay.
StopAck ==
    /\ process = "running" /\ server = "listening" /\ stopSyn
    /\ server' = "closed"
    /\ UNCHANGED <<process, main, errs, up, serving, cron, discover, stopSyn, closes,
                   conns, task>>

\* SetDeadline fails, and the accepting goroutine calls Close: it waits for an
\* acknowledgement only itself could give.
DeadlineFails ==
    /\ process = "running" /\ server = "listening"
    /\ IF stopSyn THEN Ends("panic")
       ELSE /\ stopSyn' = TRUE /\ server' = "stuck"
            /\ UNCHANGED <<process, main, errs, up, serving, cron, discover, closes,
                           conns, task>>

\* A Close that shutdown has started: a channel cannot be closed twice.
CloseServer ==
    /\ process = "running" /\ closes > 0
    /\ IF stopSyn THEN Ends("panic")
       ELSE /\ stopSyn' = TRUE /\ closes' = closes - 1
            /\ UNCHANGED <<process, main, errs, up, serving, cron, discover, server,
                           conns, task>>

-----------------------------------------------------------------------------
(* Goroutines *)

\* Discover ends with an error, of which nobody hears after the first second.
DiscoverFails ==
    /\ process = "running" /\ discover = "running"
    /\ discover' = "ended"
    /\ UNCHANGED <<process, main, errs, up, serving, cron, serverVars, task>>

CheckValid(a) == a.type # "unknown"

\* One announcement of an invalid type, and the whole packet is refused.
UnmarshalAnnouncements(packet) == IF \A a \in packet : CheckValid(a) THEN packet ELSE {}

\* handleDiscovery ignores its own node and the types it has no client for.
Handled(packet) ==
    {a \in UnmarshalAnnouncements(packet) : ~a.own /\ a.type \in {"MTCP", "QUICL"}}

\* What may start a goroutine of a kind.
Causes == [create |-> serving,
           receive |-> conns > 0,
           dispatch |-> cron,
           gc |-> cron,
           discovery |-> discover = "running" /\ \E p \in Packets : Handled(p) # {}]

StartTask(t, kind) ==
    /\ process = "running" /\ task[t] = <<>>
    /\ Causes[kind]
    /\ task' = [task EXCEPT ![t] = Uses[kind]]
    /\ UNCHANGED <<process, main, errs, up, serving, cron, discover, serverVars>>

\* GetStoreSingleton, GetManagerSingleton and so on.
UseSingleton(t) ==
    /\ process = "running" /\ task[t] # <<>>
    /\ IF Head(task[t]) \in up
       THEN /\ task' = [task EXCEPT ![t] = Tail(@)]
            /\ UNCHANGED <<process, main, errs, up, serving, cron, discover, serverVars>>
       ELSE Ends("fatal")

\* An error, or nothing more to do.
Return(t) ==
    /\ process = "running" /\ task[t] # <<>>
    /\ task' = [task EXCEPT ![t] = <<>>]
    /\ UNCHANGED <<process, main, errs, up, serving, cron, discover, serverVars>>

-----------------------------------------------------------------------------
(* Specification *)

\* main's own steps, but for the signal it waits for.
Main ==
    \/ InitialiseStore \/ Initialise \/ RegisterAgent \/ RegisterListener
    \/ StartDiscover \/ InitialiseDiscovery \/ StartCron
    \/ ShutdownDiscovery \/ StopDiscover \/ ShutdownCLAManager \/ Shutdown
    \/ ShutdownStore

DaemonNext ==
    \/ Main \/ Signal \/ DiscoverFails
    \/ Accept \/ ConnectionEnds \/ StopAck \/ DeadlineFails \/ CloseServer
    \/ \E t \in Tasks :
           \/ UseSingleton(t) \/ Return(t)
           \/ \E kind \in DOMAIN Uses : StartTask(t, kind)

DaemonSpec == DaemonInit /\ [][DaemonNext]_daemonVars

\* main is scheduled; no signal has to come.
FairDaemonSpec == DaemonSpec /\ WF_daemonVars(Main)

-----------------------------------------------------------------------------
(* Properties *)

\* Once the startup has succeeded, and until a signal comes, no goroutine finds a
\* singleton missing: the daemon does not serve after an error of its startup.
ServingNeverDies == main = "wait" => process = "running"

\* An error of the startup, or a signal, ends the process, unless Discover ended
\* by itself and nobody takes the message of its shutdown.
StopTerminates ==
    errs # {} \/ main \in Stopping ~> process # "running" \/ discover = "ended"

\* "Attempting to access an uninitialised CLA manager. This must never happen!":
\* not while the daemon starts, as long as all that is started succeeds.
NeverUninitialised == process = "fatal" => errs # {} \/ main \in Stopping

-----------------------------------------------------------------------------
(* The inductive invariant behind ServingNeverDies *)

\* startDtnd's order: what main has passed is there, or its error is noted.
Initialised ==
    main \notin Stopping =>
        /\ main # "store" => "store" \in up \cup errs
        /\ main \notin {"store", "ids"} => "ids" \in up
        /\ main \notin {"store", "ids", "routing"} => "routing" \in up
        /\ main \notin {"store", "ids", "routing", "agents"} => "agents" \in up
        /\ main \in {"listener", "discovery", "discovering", "cron", "wait"} => "cla" \in up
        /\ main \in {"cron", "wait"} => "discovery" \in up \cup errs

\* Before the shutdown only the accepting goroutine closes stopSyn, and it is stuck
\* then; there is no such goroutine before RegisterListener.
ServerIsOpen ==
    main \notin Stopping =>
        /\ closes = 0
        /\ stopSyn => server = "stuck"
        /\ main \in {"store", "ids", "routing", "agents", "agent", "cla", "listener"} =>
               server = "none"

DaemonInv ==
    /\ DaemonTypeOK /\ Initialised /\ ServerIsOpen
    /\ main = "wait" => errs = {}
    /\ ServingNeverDies
=============================================================================
