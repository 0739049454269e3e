-------------------------------- MODULE IdKeeper --------------------------------
(***************************************************************************)
(* pkg/id_keeper/id_keeper.go: the sequence numbers of the bundles this node *)
(* creates.  Source node, creation time and sequence number identify a       *)
(* bundle; application agents choose the first two, Update the third.        *)
(* Update takes any creation time: one in the past, one in the future, and   *)
(* the epoch a source without a clock uses.                                  *)
(*                                                                           *)
(* The table lives in memory only: a restart of the daemon empties it.       *)
(* Nothing in the repository calls Clean; the model lets it run at any time. *)
(***************************************************************************)
EXTENDS Integers

CONSTANTS
    Bundles,    \* the bundles the application agents submit
    Sources,    \* the source nodes they name
    Hour,       \* the age, in ticks of the clock, Clean looks at
    MaxTime     \* bound: the clock and the creation times stop here

ASSUME IdAssumption ==
    /\ Hour \in Nat \ {0}
    /\ MaxTime \in Nat

\* 0 is the epoch.
Times == 0 .. MaxTime
Tuples == Sources \X Times

None == -1     \* "no entry in data", "not submitted yet"

VARIABLES
    data,      \* idKeeper.data: tuple -> last sequence number
    now,       \* the clock
    tuple,     \* the idTuple of a bundle
    seqno,     \* the sequence number Update gave it
    session,   \* history: bundles submitted since the daemon was last started
    dropped    \* history: tuples whose entry Clean has deleted since then

idVars == <<data, now, tuple, seqno, session, dropped>>

IdTypeOK ==
    /\ data \in [Tuples -> Int]
    /\ now \in Times
    /\ tuple \in [Bundles -> Tuples]
    /\ seqno \in [Bundles -> Int]
    /\ session \subseteq Bundles
    /\ dropped \subseteq Tuples

\* InitializeIdKeeper, at least an hour after the epoch.
IdInit ==
    /\ data = [t \in Tuples |-> None]
    /\ now \in {t \in Times : t > Hour}
    /\ tuple \in [Bundles -> Tuples]
    /\ seqno = [b \in Bundles |-> None]
    /\ session = {}
    /\ dropped = {}

\* Update, called by Send of the agent manager, under the keeper's mutex.
Update(b) ==
    LET t == tuple[b]
    IN  /\ seqno[b] = None
        /\ data' = [data EXCEPT ![t] = @ + 1]
        /\ seqno' = [seqno EXCEPT ![b] = data'[t]]
        /\ session' = session \cup {b}
        /\ UNCHANGED <<now, tuple, dropped>>

\* Faulty Stale: the hour's last tick is dropped, too.
StaleInclusive(t) == t[2] <= now - Hour

\* What Clean drops: every entry older than an hour, those of the epoch too.
Stale(t) == t[2] < now - Hour

Clean ==
    /\ data' = [t \in Tuples |-> IF Stale(t) THEN None ELSE data[t]]
    /\ dropped' = dropped \cup {t \in Tuples : Stale(t) /\ data[t] # None}
    /\ UNCHANGED <<now, tuple, seqno, session>>

\* ShutdownIdKeeper or a crash, and InitializeIdKeeper of the next process.
Restart ==
    /\ data' = [t \in Tuples |-> None]
    /\ session' = {}
    /\ dropped' = {}
    /\ UNCHANGED <<now, tuple, seqno>>

Tick ==
    /\ now < MaxTime
    /\ now' = now + 1
    /\ UNCHANGED <<data, tuple, seqno, session, dropped>>

IdNext == (\E b \in Bundles : Update(b)) \/ Clean \/ Restart \/ Tick

IdSpec == IdInit /\ [][IdNext]_idVars

-----------------------------------------------------------------------------
(* Properties *)

\* The two bundles have one ID.
SameId(b, c) ==
    seqno[b] # None /\ seqno[c] # None /\ tuple[b] = tuple[c] /\ seqno[b] = seqno[c]

\* The creation time lies more than an hour back.
HourOld(t) == now - t[2] > Hour

\* The keeper is there for "ensuring that they are unique".  Two bundles
\* submitted to one process get the same source, time and sequence number in one
\* case only: Clean has deleted the entry of their tuple in between, and their
\* creation time lies more than an hour back by now.  The epoch is such a time:
\* Clean does not spare it, although its comment says so.
UniquePerRun ==
    \A b, c \in session : b # c /\ SameId(b, c) =>
        tuple[b] \in dropped /\ HourOld(tuple[b])

-----------------------------------------------------------------------------
(* The inductive invariant behind UniquePerRun *)

\* The entry of every tuple Clean has spared covers the numbers given out.
EntriesCover ==
    /\ \A t \in Tuples : data[t] >= None
    /\ \A t \in dropped : HourOld(t)
    /\ \A b \in session :
           /\ seqno[b] >= 0
           /\ tuple[b] \notin dropped => seqno[b] <= data[tuple[b]]

IdInv == IdTypeOK /\ EntriesCover /\ UniquePerRun
=============================================================================
