------------------------------ MODULE DaemonProofs ------------------------------
(***************************************************************************)
(* Proofs about the daemon's start and stop, for any number of goroutines  *)
(* and connections and any packets of discovery: DaemonInv is inductive.   *)
(* And about the ID keeper the daemon sets up first: within one run of the *)
(* daemon it gives out no ID twice, unless Clean has deleted an entry.     *)
(***************************************************************************)
EXTENDS Daemon, IdKeeper, SequenceTheorems, TLAPS

\* The types without those of the goroutines.
StateTypeOK ==
    /\ process \in {"running", "exited", "fatal", "panic"}
    /\ main \in Starting \cup {"wait"} \cup Stopping
    /\ errs \subseteq {"store", "agent", "listener", "discovery", "cron"}
    /\ up \subseteq Singletons
    /\ discover \in {"off", "running", "ended", "stopped"}
    /\ server \in {"none", "listening", "closed", "stuck"}
    /\ closes \in 0 .. 2 /\ conns \in 0 .. MaxConns

FlagTypeOK ==
    serving \in BOOLEAN /\ cron \in BOOLEAN /\ stopSyn \in BOOLEAN
TaskTypeOK == task \in [Tasks -> Seq(Singletons)]

\* They are the types together.
LEMMA TypeParts == DaemonTypeOK <=> StateTypeOK /\ FlagTypeOK /\ TaskTypeOK
  BY DEF DaemonTypeOK, StateTypeOK, FlagTypeOK, TaskTypeOK

\* A goroutine asks for singletons only.
LEMMA UsesSingletons == \A kind \in DOMAIN Uses : Uses[kind] \in Seq(Singletons)
<1>1. forwarding \in Seq(Singletons)
  BY DEF forwarding, Singletons
<1>2. receiving \in Seq(Singletons)
  <2>1. <<"store", "agents", "routing">> \in Seq(Singletons)
    BY DEF Singletons
  <2> QED BY <1>1, <2>1, ConcatProperties DEF receiving
<1>3. Uses.create \in Seq(Singletons)
  <2>1. <<"agents", "ids">> \in Seq(Singletons)
    BY DEF Singletons
  <2> QED BY <1>2, <2>1, ConcatProperties DEF Uses
<1>4. Uses.dispatch \in Seq(Singletons)
  <2>1. <<"store">> \in Seq(Singletons)
    BY DEF Singletons
  <2> QED BY <1>1, <2>1, ConcatProperties DEF Uses
<1>5. Uses.receive \in Seq(Singletons)
  BY <1>2 DEF Uses
<1>6. Uses.gc \in Seq(Singletons) /\ Uses.discovery \in Seq(Singletons)
  BY DEF Uses, Singletons
<1>7. DOMAIN Uses = {"create", "receive", "dispatch", "gc", "discovery"}
  BY DEF Uses
<1> QED BY <1>3, <1>4, <1>5, <1>6, <1>7

\* Nothing is there when the process starts.
LEMMA DaemonInitInv == DaemonInit => DaemonInv
<1> SUFFICES ASSUME DaemonInit PROVE DaemonInv
  OBVIOUS
<1> USE DaemonAssumption
<1>1. StateTypeOK
  BY DEF DaemonInit, StateTypeOK, Starting, Singletons
<1>2. FlagTypeOK
  BY DEF DaemonInit, FlagTypeOK
<1>4. TaskTypeOK
  <2>1. <<>> \in Seq(Singletons)
    BY EmptySeq
  <2> QED BY <2>1 DEF DaemonInit, TaskTypeOK
<1>3. Initialised /\ ServerIsOpen /\ ServingNeverDies
  BY DEF DaemonInit, Initialised, ServerIsOpen, ServingNeverDies
<1> QED BY <1>1, <1>2, <1>3, <1>4, TypeParts DEF DaemonInv, DaemonInit

\* What the steps of main and of the goroutines keep, but for the types.
Order == Initialised /\ (main = "wait" => errs = {})
Rest == ServerIsOpen /\ ServingNeverDies

\* Every step keeps the invariant.
LEMMA DaemonStep == DaemonInv /\ [DaemonNext]_daemonVars => DaemonInv'
<1> SUFFICES ASSUME DaemonInv, [DaemonNext]_daemonVars PROVE DaemonInv'
  OBVIOUS
<1> USE DaemonAssumption
<1>0. StateTypeOK /\ FlagTypeOK /\ TaskTypeOK /\ Order /\ Rest
  BY TypeParts DEF DaemonInv, Order, Rest
<1>z. StateTypeOK' /\ FlagTypeOK' /\ TaskTypeOK' /\ Order' /\ Rest' => DaemonInv'
  BY DEF DaemonInv, DaemonTypeOK, StateTypeOK, FlagTypeOK, TaskTypeOK, Order, Rest
<1>1. CASE InitialiseStore
  <2>1. StateTypeOK'
    BY <1>1, <1>0
     DEF InitialiseStore, StateTypeOK, Starting, Stopping, Singletons, After, serverVars
  <2>2. FlagTypeOK'
    BY <1>1, <1>0 DEF InitialiseStore, FlagTypeOK, serverVars
  <2>3. TaskTypeOK'
    BY <1>1, <1>0 DEF InitialiseStore, TaskTypeOK
  <2>4. Order'
    BY <1>1, <1>0
     DEF InitialiseStore, StateTypeOK, Order, Initialised, Starting, Stopping, After
  <2>5. Rest'
    BY <1>1, <1>0
     DEF InitialiseStore, StateTypeOK, FlagTypeOK, TaskTypeOK, Order, Initialised,
         Rest, ServerIsOpen, ServingNeverDies,
         Starting, Stopping, Singletons, After, serverVars
  <2> QED BY <2>1, <2>2, <2>3, <2>4, <2>5, <1>z
<1>2. CASE Initialise
  <2>1. StateTypeOK'
    BY <1>2, <1>0
     DEF Initialise, StateTypeOK, Starting, Stopping, Singletons, After, serverVars
  <2>2. FlagTypeOK'
    BY <1>2, <1>0 DEF Initialise, FlagTypeOK, serverVars
  <2>3. TaskTypeOK'
    BY <1>2, <1>0 DEF Initialise, TaskTypeOK
  <2>4. Order'
    BY <1>2, <1>0
     DEF Initialise, StateTypeOK, Order, Initialised, Starting, Stopping, After
  <2>5. Rest'
    BY <1>2, <1>0
     DEF Initialise, StateTypeOK, FlagTypeOK, TaskTypeOK, Order, Initialised,
         Rest, ServerIsOpen, ServingNeverDies,
         Starting, Stopping, Singletons, After, serverVars
  <2> QED BY <2>1, <2>2, <2>3, <2>4, <2>5, <1>z
<1>3. CASE RegisterAgent
  <2>1. StateTypeOK'
    BY <1>3, <1>0
     DEF RegisterAgent, StateTypeOK, Starting, Stopping, Singletons, After, serverVars
  <2>2. FlagTypeOK'
    BY <1>3, <1>0 DEF RegisterAgent, FlagTypeOK, serverVars
  <2>3. TaskTypeOK'
    BY <1>3, <1>0 DEF RegisterAgent, TaskTypeOK
  <2>4. Order'
    BY <1>3, <1>0
     DEF RegisterAgent, StateTypeOK, Order, Initialised, Starting, Stopping, After
  <2>5. Rest'
    BY <1>3, <1>0
     DEF RegisterAgent, StateTypeOK, FlagTypeOK, TaskTypeOK, Order, Initialised,
         Rest, ServerIsOpen, ServingNeverDies,
         Starting, Stopping, Singletons, After, serverVars
  <2> QED BY <2>1, <2>2, <2>3, <2>4, <2>5, <1>z
<1>4. CASE RegisterListener
  <2>1. StateTypeOK'
    BY <1>4, <1>0
     DEF RegisterListener, StateTypeOK, Starting, Stopping, Singletons, After, serverVars
  <2>2. FlagTypeOK'
    BY <1>4, <1>0 DEF RegisterListener, FlagTypeOK, serverVars
  <2>3. TaskTypeOK'
    BY <1>4, <1>0 DEF RegisterListener, TaskTypeOK
  <2>4. Order'
    BY <1>4, <1>0
     DEF RegisterListener, StateTypeOK, Order, Initialised, Starting, Stopping, After
  <2>5. Rest'
    BY <1>4, <1>0
     DEF RegisterListener, StateTypeOK, FlagTypeOK, TaskTypeOK, Order, Initialised,
         Rest, ServerIsOpen, ServingNeverDies,
         Starting, Stopping, Singletons, After, serverVars
  <2> QED BY <2>1, <2>2, <2>3, <2>4, <2>5, <1>z
<1>5. CASE StartDiscover
  <2>1. StateTypeOK'
    BY <1>5, <1>0
     DEF StartDiscover, StateTypeOK, Starting, Stopping, Singletons, After, serverVars
  <2>2. FlagTypeOK'
    BY <1>5, <1>0 DEF StartDiscover, FlagTypeOK, serverVars
  <2>3. TaskTypeOK'
    BY <1>5, <1>0 DEF StartDiscover, TaskTypeOK
  <2>4. Order'
    BY <1>5, <1>0
     DEF StartDiscover, StateTypeOK, Order, Initialised, Starting, Stopping, After
  <2>5. Rest'
    BY <1>5, <1>0
     DEF StartDiscover, StateTypeOK, FlagTypeOK, TaskTypeOK, Order, Initialised,
         Rest, ServerIsOpen, ServingNeverDies,
         Starting, Stopping, Singletons, After, serverVars
  <2> QED BY <2>1, <2>2, <2>3, <2>4, <2>5, <1>z
<1>6. CASE InitialiseDiscovery
  <2>1. StateTypeOK'
    BY <1>6, <1>0
     DEF InitialiseDiscovery, StateTypeOK, Starting, Stopping, Singletons, After, serverVars
  <2>2. FlagTypeOK'
    BY <1>6, <1>0 DEF InitialiseDiscovery, FlagTypeOK, serverVars
  <2>3. TaskTypeOK'
    BY <1>6, <1>0 DEF InitialiseDiscovery, TaskTypeOK
  <2>4. Order'
    BY <1>6, <1>0
     DEF InitialiseDiscovery, StateTypeOK, Order, Initialised, Starting, Stopping, After
  <2>5. Rest'
    BY <1>6, <1>0
     DEF InitialiseDiscovery, StateTypeOK, FlagTypeOK, TaskTypeOK, Order, Initialised,
         Rest, ServerIsOpen, ServingNeverDies,
         Starting, Stopping, Singletons, After, serverVars
  <2> QED BY <2>1, <2>2, <2>3, <2>4, <2>5, <1>z
<1>7. CASE StartCron
  <2>1. StateTypeOK'
    BY <1>7, <1>0
     DEF StartCron, StateTypeOK, Starting, Stopping, Singletons, After, serverVars
  <2>2. FlagTypeOK'
    BY <1>7, <1>0 DEF StartCron, FlagTypeOK, serverVars
  <2>3. TaskTypeOK'
    BY <1>7, <1>0 DEF StartCron, TaskTypeOK
  <2>4. Order'
    BY <1>7, <1>0
     DEF StartCron, StateTypeOK, Order, Initialised, Starting, Stopping, After
  <2>5. Rest'
    BY <1>7, <1>0
     DEF StartCron, StateTypeOK, FlagTypeOK, TaskTypeOK, Order, Initialised,
         Rest, ServerIsOpen, ServingNeverDies,
         Starting, Stopping, Singletons, After, serverVars
  <2> QED BY <2>1, <2>2, <2>3, <2>4, <2>5, <1>z
<1>8. CASE ShutdownDiscovery
  <2>1. StateTypeOK'
    BY <1>8, <1>0
     DEF ShutdownDiscovery, StateTypeOK, Starting, Stopping, Singletons, After, serverVars
  <2>2. FlagTypeOK'
    BY <1>8, <1>0 DEF ShutdownDiscovery, FlagTypeOK, serverVars
  <2>3. TaskTypeOK'
    BY <1>8, <1>0 DEF ShutdownDiscovery, TaskTypeOK
  <2>4. Order'
    BY <1>8, <1>0
     DEF ShutdownDiscovery, StateTypeOK, Order, Initialised, Starting, Stopping, After
  <2>5. Rest'
    BY <1>8, <1>0
     DEF ShutdownDiscovery, StateTypeOK, FlagTypeOK, TaskTypeOK, Order, Initialised,
         Rest, ServerIsOpen, ServingNeverDies,
         Starting, Stopping, Singletons, After, serverVars
  <2> QED BY <2>1, <2>2, <2>3, <2>4, <2>5, <1>z
<1>9. CASE StopDiscover
  <2>1. StateTypeOK'
    BY <1>9, <1>0
     DEF StopDiscover, StateTypeOK, Starting, Stopping, Singletons, After, serverVars
  <2>2. FlagTypeOK'
    BY <1>9, <1>0 DEF StopDiscover, FlagTypeOK, serverVars
  <2>3. TaskTypeOK'
    BY <1>9, <1>0 DEF StopDiscover, TaskTypeOK
  <2>4. Order'
    BY <1>9, <1>0
     DEF StopDiscover, StateTypeOK, Order, Initialised, Starting, Stopping, After
  <2>5. Rest'
    BY <1>9, <1>0
     DEF StopDiscover, StateTypeOK, FlagTypeOK, TaskTypeOK, Order, Initialised,
         Rest, ServerIsOpen, ServingNeverDies,
         Starting, Stopping, Singletons, After, serverVars
  <2> QED BY <2>1, <2>2, <2>3, <2>4, <2>5, <1>z
<1>10. CASE ShutdownCLAManager
  <2>1. StateTypeOK'
    BY <1>10, <1>0
     DEF ShutdownCLAManager, StateTypeOK, Starting, Stopping, Singletons, After, serverVars
  <2>2. FlagTypeOK'
    BY <1>10, <1>0 DEF ShutdownCLAManager, FlagTypeOK, serverVars
  <2>3. TaskTypeOK'
    BY <1>10, <1>0 DEF ShutdownCLAManager, TaskTypeOK
  <2>4. Order'
    BY <1>10, <1>0
     DEF ShutdownCLAManager, StateTypeOK, Order, Initialised, Starting, Stopping, After
  <2>5. Rest'
    BY <1>10, <1>0
     DEF ShutdownCLAManager, StateTypeOK, FlagTypeOK, TaskTypeOK, Order, Initialised,
         Rest, ServerIsOpen, ServingNeverDies,
         Starting, Stopping, Singletons, After, serverVars
  <2> QED BY <2>1, <2>2, <2>3, <2>4, <2>5, <1>z
<1>11. CASE Shutdown
  <2>1. StateTypeOK'
    BY <1>11, <1>0
     DEF Shutdown, StateTypeOK, Starting, Stopping, Singletons, After, serverVars
  <2>2. FlagTypeOK'
    BY <1>11, <1>0 DEF Shutdown, FlagTypeOK, serverVars
  <2>3. TaskTypeOK'
    BY <1>11, <1>0 DEF Shutdown, TaskTypeOK
  <2>4. Order'
    BY <1>11, <1>0
     DEF Shutdown, StateTypeOK, Order, Initialised, Starting, Stopping, After
  <2>5. Rest'
    BY <1>11, <1>0
     DEF Shutdown, StateTypeOK, FlagTypeOK, TaskTypeOK, Order, Initialised,
         Rest, ServerIsOpen, ServingNeverDies,
         Starting, Stopping, Singletons, After, serverVars
  <2> QED BY <2>1, <2>2, <2>3, <2>4, <2>5, <1>z
<1>12. CASE ShutdownStore
  <2>1. StateTypeOK'
    BY <1>12, <1>0
     DEF ShutdownStore, StateTypeOK, Starting, Stopping, Singletons, After, serverVars
  <2>2. FlagTypeOK'
    BY <1>12, <1>0 DEF ShutdownStore, FlagTypeOK, serverVars
  <2>3. TaskTypeOK'
    BY <1>12, <1>0 DEF ShutdownStore, TaskTypeOK
  <2>4. Order'
    BY <1>12, <1>0
     DEF ShutdownStore, StateTypeOK, Order, Initialised, Starting, Stopping, After
  <2>5. Rest'
    BY <1>12, <1>0
     DEF ShutdownStore, StateTypeOK, FlagTypeOK, TaskTypeOK, Order, Initialised,
         Rest, ServerIsOpen, ServingNeverDies,
         Starting, Stopping, Singletons, After, serverVars
  <2> QED BY <2>1, <2>2, <2>3, <2>4, <2>5, <1>z
<1>13. CASE Signal
  <2>1. StateTypeOK'
    BY <1>13, <1>0
     DEF Signal, StateTypeOK, Starting, Stopping, Singletons, After, serverVars
  <2>2. FlagTypeOK'
    BY <1>13, <1>0 DEF Signal, FlagTypeOK, serverVars
  <2>3. TaskTypeOK'
    BY <1>13, <1>0 DEF Signal, TaskTypeOK
  <2>4. Order'
    BY <1>13, <1>0
     DEF Signal, StateTypeOK, Order, Initialised, Starting, Stopping, After
  <2>5. Rest'
    BY <1>13, <1>0
     DEF Signal, StateTypeOK, FlagTypeOK, TaskTypeOK, Order, Initialised,
         Rest, ServerIsOpen, ServingNeverDies,
         Starting, Stopping, Singletons, After, serverVars
  <2> QED BY <2>1, <2>2, <2>3, <2>4, <2>5, <1>z
<1>14. CASE DiscoverFails
  <2>1. StateTypeOK'
    BY <1>14, <1>0
     DEF DiscoverFails, StateTypeOK, Starting, Stopping, Singletons, After, serverVars
  <2>2. FlagTypeOK'
    BY <1>14, <1>0 DEF DiscoverFails, FlagTypeOK, serverVars
  <2>3. TaskTypeOK'
    BY <1>14, <1>0 DEF DiscoverFails, TaskTypeOK
  <2>4. Order'
    BY <1>14, <1>0
     DEF DiscoverFails, StateTypeOK, Order, Initialised, Starting, Stopping, After
  <2>5. Rest'
    BY <1>14, <1>0
     DEF DiscoverFails, StateTypeOK, FlagTypeOK, TaskTypeOK, Order, Initialised,
         Rest, ServerIsOpen, ServingNeverDies,
         Starting, Stopping, Singletons, After, serverVars
  <2> QED BY <2>1, <2>2, <2>3, <2>4, <2>5, <1>z
<1>15. CASE Accept
  <2>1. StateTypeOK'
    BY <1>15, <1>0
     DEF Accept, StateTypeOK, Starting, Stopping, Singletons, After, serverVars
  <2>2. FlagTypeOK'
    BY <1>15, <1>0 DEF Accept, FlagTypeOK, serverVars
  <2>3. TaskTypeOK'
    BY <1>15, <1>0 DEF Accept, TaskTypeOK
  <2>4. Order'
    BY <1>15, <1>0
     DEF Accept, StateTypeOK, Order, Initialised, Starting, Stopping, After
  <2>5. Rest'
    BY <1>15, <1>0
     DEF Accept, StateTypeOK, FlagTypeOK, TaskTypeOK, Order, Initialised,
         Rest, ServerIsOpen, ServingNeverDies,
         Starting, Stopping, Singletons, After, serverVars
  <2> QED BY <2>1, <2>2, <2>3, <2>4, <2>5, <1>z
<1>16. CASE ConnectionEnds
  <2>1. StateTypeOK'
    BY <1>16, <1>0
     DEF ConnectionEnds, StateTypeOK, Starting, Stopping, Singletons, After, serverVars
  <2>2. FlagTypeOK'
    BY <1>16, <1>0 DEF ConnectionEnds, FlagTypeOK, serverVars
  <2>3. TaskTypeOK'
    BY <1>16, <1>0 DEF ConnectionEnds, TaskTypeOK
  <2>4. Order'
    BY <1>16, <1>0
     DEF ConnectionEnds, StateTypeOK, Order, Initialised, Starting, Stopping, After
  <2>5. Rest'
    BY <1>16, <1>0
     DEF ConnectionEnds, StateTypeOK, FlagTypeOK, TaskTypeOK, Order, Initialised,
         Rest, ServerIsOpen, ServingNeverDies,
         Starting, Stopping, Singletons, After, serverVars
  <2> QED BY <2>1, <2>2, <2>3, <2>4, <2>5, <1>z
<1>17. CASE StopAck
  <2>1. StateTypeOK'
    BY <1>17, <1>0
     DEF StopAck, StateTypeOK, Starting, Stopping, Singletons, After, serverVars
  <2>2. FlagTypeOK'
    BY <1>17, <1>0 DEF StopAck, FlagTypeOK, serverVars
  <2>3. TaskTypeOK'
    BY <1>17, <1>0 DEF StopAck, TaskTypeOK
  <2>4. Order'
    BY <1>17, <1>0
     DEF StopAck, StateTypeOK, Order, Initialised, Starting, Stopping, After
  <2>5. Rest'
    BY <1>17, <1>0
     DEF StopAck, StateTypeOK, FlagTypeOK, TaskTypeOK, Order, Initialised,
         Rest, ServerIsOpen, ServingNeverDies,
         Starting, Stopping, Singletons, After, serverVars
  <2> QED BY <2>1, <2>2, <2>3, <2>4, <2>5, <1>z
<1>18. CASE DeadlineFails
  <2>1. StateTypeOK'
    BY <1>18, <1>0
     DEF DeadlineFails, Ends, StateTypeOK, Starting, Stopping, Singletons, After, serverVars
  <2>2. FlagTypeOK'
    BY <1>18, <1>0 DEF DeadlineFails, Ends, FlagTypeOK, serverVars
  <2>3. TaskTypeOK'
    BY <1>18, <1>0 DEF DeadlineFails, Ends, TaskTypeOK
  <2>4. Order'
    BY <1>18, <1>0
     DEF DeadlineFails, Ends, StateTypeOK, Order, Initialised, Starting, Stopping, After
  <2>5. Rest'
    BY <1>18, <1>0
     DEF DeadlineFails, Ends, StateTypeOK, FlagTypeOK, TaskTypeOK, Order, Initialised,
         Rest, ServerIsOpen, ServingNeverDies,
         Starting, Stopping, Singletons, After, serverVars
  <2> QED BY <2>1, <2>2, <2>3, <2>4, <2>5, <1>z
<1>19. CASE CloseServer
  <2>1. StateTypeOK'
    <3>1. CASE stopSyn
      BY <1>19, <1>0, <3>1 DEF CloseServer, Ends, StateTypeOK, serverVars
    <3>2. CASE ~stopSyn
      <4>1. closes' = closes - 1 /\ closes > 0
        BY <1>19, <3>2 DEF CloseServer
      <4>2. closes' \in 0 .. 2
        BY <4>1, <1>0 DEF StateTypeOK
      <4> QED BY <1>19, <1>0, <3>2, <4>2 DEF CloseServer, StateTypeOK
    <3> QED BY <3>1, <3>2
  <2>2. FlagTypeOK'
    BY <1>19, <1>0 DEF CloseServer, Ends, FlagTypeOK, serverVars
  <2>3. TaskTypeOK'
    BY <1>19, <1>0 DEF CloseServer, Ends, TaskTypeOK
  <2>4. Order'
    BY <1>19, <1>0
     DEF CloseServer, Ends, StateTypeOK, Order, Initialised, Starting, Stopping, After
  <2>5. Rest'
    BY <1>19, <1>0
     DEF CloseServer, Ends, StateTypeOK, FlagTypeOK, TaskTypeOK, Order, Initialised,
         Rest, ServerIsOpen, ServingNeverDies,
         Starting, Stopping, Singletons, After, serverVars
  <2> QED BY <2>1, <2>2, <2>3, <2>4, <2>5, <1>z
<1>20. ASSUME NEW t \in Tasks, UseSingleton(t) PROVE DaemonInv'
  <2>1. StateTypeOK'
    BY <1>20, <1>0
     DEF UseSingleton, Ends, StateTypeOK, Starting, Stopping, Singletons, After, serverVars
  <2>2. FlagTypeOK'
    BY <1>20, <1>0 DEF UseSingleton, Ends, FlagTypeOK, serverVars
  <2>3. TaskTypeOK'
    <3>1. task' = task \/ task' = [task EXCEPT ![t] = Tail(@)]
      BY <1>20 DEF UseSingleton, Ends
    <3>2. task[t] # <<>> /\ task[t] \in Seq(Singletons)
      BY <1>20, <1>0 DEF UseSingleton, TaskTypeOK
    <3>3. Tail(task[t]) \in Seq(Singletons)
      BY <3>2, HeadTailProperties
    <3> QED BY <3>1, <3>3, <1>0 DEF TaskTypeOK
  <2>4. Order'
    BY <1>20, <1>0
     DEF UseSingleton, Ends, StateTypeOK, Order, Initialised, Starting, Stopping, After
  <2>5. Rest'
    BY <1>20, <1>0
     DEF UseSingleton, Ends, StateTypeOK, FlagTypeOK, TaskTypeOK, Order, Initialised,
         Rest, ServerIsOpen, ServingNeverDies,
         Starting, Stopping, Singletons, After, serverVars
  <2> QED BY <2>1, <2>2, <2>3, <2>4, <2>5, <1>z
<1>21. ASSUME NEW t \in Tasks, Return(t) PROVE DaemonInv'
  <2>1. StateTypeOK'
    BY <1>21, <1>0
     DEF Return, StateTypeOK, Starting, Stopping, Singletons, After, serverVars
  <2>2. FlagTypeOK'
    BY <1>21, <1>0 DEF Return, FlagTypeOK, serverVars
  <2>3. TaskTypeOK'
    BY <1>21, <1>0 DEF Return, TaskTypeOK
  <2>4. Order'
    BY <1>21, <1>0
     DEF Return, StateTypeOK, Order, Initialised, Starting, Stopping, After
  <2>5. Rest'
    BY <1>21, <1>0
     DEF Return, StateTypeOK, FlagTypeOK, TaskTypeOK, Order, Initialised,
         Rest, ServerIsOpen, ServingNeverDies,
         Starting, Stopping, Singletons, After, serverVars
  <2> QED BY <2>1, <2>2, <2>3, <2>4, <2>5, <1>z
<1>22. ASSUME NEW t \in Tasks, NEW kind \in DOMAIN Uses, StartTask(t, kind) PROVE DaemonInv'
  <2>1. StateTypeOK'
    BY <1>22, <1>0
     DEF StartTask, StateTypeOK, Starting, Stopping, Singletons, After, serverVars
  <2>2. FlagTypeOK'
    BY <1>22, <1>0 DEF StartTask, FlagTypeOK, serverVars
  <2>3. TaskTypeOK'
    BY <1>22, <1>0, UsesSingletons DEF StartTask, TaskTypeOK
  <2>4. Order'
    BY <1>22, <1>0
     DEF StartTask, StateTypeOK, Order, Initialised, Starting, Stopping, After
  <2>5. Rest'
    BY <1>22, <1>0
     DEF StartTask, StateTypeOK, FlagTypeOK, TaskTypeOK, Order, Initialised,
         Rest, ServerIsOpen, ServingNeverDies,
         Starting, Stopping, Singletons, After, serverVars
  <2> QED BY <2>1, <2>2, <2>3, <2>4, <2>5, <1>z
<1>23. CASE UNCHANGED daemonVars
  BY <1>23
   DEF daemonVars, serverVars, DaemonInv, DaemonTypeOK, Initialised, ServerIsOpen,
       ServingNeverDies
<1> QED
  BY <1>1, <1>2, <1>3, <1>4, <1>5, <1>6, <1>7, <1>8, <1>9, <1>10, <1>11,
     <1>12, <1>13, <1>14, <1>15, <1>16, <1>17, <1>18, <1>19, <1>20, <1>21, <1>22,
     <1>23
   DEF DaemonNext, Main

\* The states of the process have their types: in particular Close of the MTCP
\* server is started at most twice.
THEOREM DaemonTypeCorrect == DaemonSpec => []DaemonTypeOK
<1>1. DaemonInv => DaemonTypeOK
  BY DEF DaemonInv
<1> QED BY <1>1, DaemonInitInv, DaemonStep, PTL DEF DaemonSpec

\* A daemon that started without an error serves until it gets a signal: no getter
\* of a singleton ends it.
THEOREM ServesUntilSignal == DaemonSpec => []ServingNeverDies
<1>1. DaemonInv => ServingNeverDies
  BY DEF DaemonInv
<1> QED BY <1>1, DaemonInitInv, DaemonStep, PTL DEF DaemonSpec

-----------------------------------------------------------------------------
(* The ID keeper *)

\* What is an hour old stays so: the clock only moves on.
LEMMA OldStaysOld ==
    ASSUME IdTypeOK, Tick, NEW t \in Tuples, HourOld(t)
    PROVE  HourOld(t)'
<1>1. now \in Int /\ now' = now + 1 /\ t[2] \in Int /\ Hour \in Int
  BY IdAssumption DEF IdTypeOK, Tick, Tuples, Times
<1>2. now - t[2] > Hour
  BY DEF HourOld
<1>3. now' - t[2] > Hour
  BY <1>1, <1>2
<1> QED BY <1>1, <1>3 DEF HourOld, Tick

\* Every step keeps the table ahead of the numbers given out: Update moves on,
\* and what Clean forgets is on record.
LEMMA IdStepInv == IdInv /\ [IdNext]_idVars => IdInv'
<1> SUFFICES ASSUME IdInv, [IdNext]_idVars PROVE IdInv'
  OBVIOUS
<1> USE IdAssumption DEF IdInv, IdTypeOK, None
<1>t. \A b \in Bundles : tuple[b] \in Tuples
  OBVIOUS
<1>1. ASSUME NEW b \in Bundles, Update(b) PROVE IdInv'
  <2> DEFINE t == tuple[b]
  <2>1. t \in Tuples /\ data[t] \in Int
    BY <1>t
  <2>2. /\ data' = [data EXCEPT ![t] = data[t] + 1]
        /\ seqno' = [seqno EXCEPT ![b] = data[t] + 1]
        /\ session' = session \cup {b}
        /\ UNCHANGED <<now, tuple, dropped>>
    BY <1>1, <2>1 DEF Update
  <2>3. IdTypeOK'
    BY <2>1, <2>2
  <2>4. \A c \in session : tuple[c] = t /\ t \notin dropped => seqno[c] <= data[t]
    BY DEF EntriesCover
  <2>5. EntriesCover'
    BY <1>t, <2>1, <2>2 DEF EntriesCover, HourOld
  <2>6. UniquePerRun'
    <3>1. \A q : HourOld(q)' <=> HourOld(q)
      BY <2>2 DEF HourOld
    <3>2. t \in dropped => HourOld(t)
      BY DEF EntriesCover
    <3> QED BY <2>1, <2>2, <2>4, <3>1, <3>2 DEF UniquePerRun, SameId, EntriesCover
  <2> QED BY <2>3, <2>5, <2>6
<1>2. CASE Clean
  <2>1. /\ data' = [q \in Tuples |-> IF Stale(q) THEN None ELSE data[q]]
        /\ dropped' = dropped \cup {q \in Tuples : Stale(q) /\ data[q] # None}
        /\ UNCHANGED <<now, tuple, seqno, session>>
    BY <1>2 DEF Clean
  <2>2. \A q : HourOld(q)' <=> HourOld(q)
    BY <2>1 DEF HourOld
  <2>6. \A q \in Tuples : Stale(q) => HourOld(q)
    BY DEF Stale, HourOld, Tuples, Times
  <2>3. IdTypeOK'
    BY <2>1
  <2>4. EntriesCover'
    <3>1. \A c \in session : tuple[c] \notin dropped' =>
              tuple[c] \notin dropped /\ data'[tuple[c]] = data[tuple[c]]
      BY <2>1, <1>t DEF EntriesCover
    <3> QED BY <2>1, <2>2, <2>6, <3>1, <1>t DEF EntriesCover
  <2>5. UniquePerRun'
    BY <2>1, <2>2 DEF UniquePerRun, SameId
  <2> QED BY <2>3, <2>4, <2>5
<1>3. CASE Tick
  <2>1. IdTypeOK' /\ UNCHANGED <<data, tuple, seqno, session, dropped>>
    BY <1>3 DEF Tick, Times
  <2>2. \A q \in Tuples : HourOld(q) => HourOld(q)'
    BY <1>3, OldStaysOld
  <2>3. EntriesCover'
    BY <2>1, <2>2 DEF EntriesCover
  <2>4. UniquePerRun'
    BY <2>1, <2>2, <1>t DEF UniquePerRun, SameId
  <2> QED BY <2>1, <2>3, <2>4
<1>4. CASE Restart
  BY <1>4 DEF Restart, EntriesCover, UniquePerRun
<1>5. CASE UNCHANGED idVars
  BY <1>5 DEF idVars, EntriesCover, UniquePerRun, SameId, HourOld
<1> QED BY <1>1, <1>2, <1>3, <1>4, <1>5 DEF IdNext

\* Within one run of the daemon an ID is given out twice in one case only, for any
\* bundles, sources and creation times, the epoch included: Clean deleted the entry
\* in between, and the creation time lies more than an hour back.  In particular
\* IDs are unique as long as Clean does not run, and nothing in the repository
\* calls it.
THEOREM IdsAreUnique == IdSpec => []UniquePerRun
<1>1. IdInit => IdInv
  BY IdAssumption DEF IdInit, IdInv, IdTypeOK, EntriesCover, UniquePerRun, None
<1>2. IdInv => UniquePerRun
  BY DEF IdInv
<1> QED BY <1>1, <1>2, IdStepInv, PTL DEF IdSpec
=============================================================================
