---------------------------- MODULE CLAManagerProofs ----------------------------
(* Theorems about CLAManager: no address is opened twice, and no connected MTCP  *)
(* client drops out of the list of senders.                                      *)
EXTENDS CLAManager, TLAPS

\* The manager starts empty.
LEMMA ClaInitInv == ClaInit => ClaInv
  BY ClaAssumption
     DEF ClaInit, ClaInv, ClaTypeOK, OpenedOnce, ListsFollowRegistration, Phases,
         Registration

\* No step of the manager or of an adapter leaves the types.
LEMMA ClaStepType == ClaTypeOK /\ [ClaNext]_claVars => ClaTypeOK'
<1> SUFFICES ASSUME ClaTypeOK, [ClaNext]_claVars PROVE ClaTypeOK'
    OBVIOUS
<1> USE ClaAssumption DEF ClaTypeOK, Phases, Registration, lists
<1>1. ASSUME NEW c \in Clas, Register(c) PROVE ClaTypeOK'
    BY <1>1 DEF Register, WithManager
<1>2. ASSUME NEW c \in Clas, registerAsync(c) PROVE ClaTypeOK'
    BY <1>2 DEF registerAsync
<1>3. ASSUME NEW c \in Clas, Connect(c) PROVE ClaTypeOK'
    BY <1>3 DEF Connect
<1>4. ASSUME NEW c \in Clas, NotifyConnect(c) PROVE ClaTypeOK'
    BY <1>4 DEF NotifyConnect, WithManager
<1>5. ASSUME NEW c \in Clas, ActivateReturns(c) PROVE ClaTypeOK'
    BY <1>5 DEF ActivateReturns
<1>6. ASSUME NEW c \in Clas, ActivateFails(c) PROVE ClaTypeOK'
    BY <1>6 DEF ActivateFails
<1>7. ASSUME NEW c \in Clas, activateCLA(c) PROVE ClaTypeOK'
    BY <1>7 DEF activateCLA, SameAddress
<1>8. ASSUME NEW c \in Clas, RegisterListener(c) PROVE ClaTypeOK'
    BY <1>8 DEF RegisterListener
<1>9. ASSUME NEW c \in Clas, LoseLink(c) PROVE ClaTypeOK'
    BY <1>9 DEF LoseLink
<1>10. ASSUME NEW c \in Clas, NotifyDisconnect(c) PROVE ClaTypeOK'
    BY <1>10 DEF NotifyDisconnect, MtcpNotices, QuiclNotices, WithManager
<1>11. ASSUME NEW c \in Clas, RemoveDisconnected(c) PROVE ClaTypeOK'
    BY <1>11 DEF RemoveDisconnected, SameAddress
<1>12. ASSUME NEW c \in Clas, Close(c) PROVE ClaTypeOK'
    BY <1>12 DEF Close
<1>13. CASE Shutdown
    BY <1>13 DEF Shutdown
<1>14. CASE CloseAll
    <2>1. closing' \in [Clas -> 0 .. 2]
        BY <1>14 DEF CloseAll, ConvergenceSender, ConvergenceListener
    <2>2. QED
        BY <1>14, <2>1 DEF CloseAll
<1>15. CASE Exit
    BY <1>15 DEF Exit
<1>16. CASE UNCHANGED claVars
    BY <1>16 DEF claVars
<1>17. QED
    BY <1>1, <1>2, <1>3, <1>4, <1>5, <1>6, <1>7, <1>8, <1>9, <1>10, <1>11, <1>12,
       <1>13, <1>14, <1>15, <1>16
    DEF ClaNext

\* The steps that leave the lists alone, and do not change which adapters are
\* being started, keep both invariants of the lists.
LEMMA ListsUnchanged ==
    ASSUME ClaInv, UNCHANGED <<pendingStart, senders, receivers>>,
           \A c \in Clas :
               /\ reg'[c] \in {"activating", "activated", "failed"} <=>
                      reg[c] \in {"activating", "activated", "failed"}
               /\ reg[c] = "done" => reg'[c] = "done"
    PROVE  OpenedOnce' /\ ListsFollowRegistration'
  BY DEF ClaInv, OpenedOnce, ListsFollowRegistration

\* Every step keeps the addresses in the lists apart: registerAsync looks before
\* it adds and activateCLA moves what registerAsync has added.
LEMMA ClaStepInv == ClaInv /\ [ClaNext]_claVars => ClaInv'
<1> SUFFICES ASSUME ClaInv, [ClaNext]_claVars PROVE OpenedOnce' /\ ListsFollowRegistration'
    BY ClaStepType DEF ClaInv
<1> USE DEF lists
<1>t. ClaTypeOK /\ OpenedOnce /\ ListsFollowRegistration /\ reg \in [Clas -> Registration]
    BY DEF ClaInv, ClaTypeOK
<1>1. ASSUME NEW c \in Clas, Register(c) PROVE OpenedOnce' /\ ListsFollowRegistration'
    BY <1>1, <1>t, ListsUnchanged DEF Register, WithManager
<1>2. ASSUME NEW c \in Clas, registerAsync(c)
      PROVE  OpenedOnce' /\ ListsFollowRegistration'
    <2>1. CASE checkPresent(c)
        BY <1>2, <1>t, <2>1, ListsUnchanged DEF registerAsync
    <2>2. CASE ~checkPresent(c)
        <3>1. OpenedOnce'
            BY <1>2, <1>t, <2>2
            DEF registerAsync, checkPresent, SameAddress, OpenedOnce, ClaTypeOK,
                ConvergenceSender, ConvergenceReceiver
        <3>2. ListsFollowRegistration'
            BY <1>2, <1>t, <2>2 DEF registerAsync, ListsFollowRegistration
        <3>3. QED
            BY <3>1, <3>2
    <2>3. QED
        BY <2>1, <2>2
<1>3. ASSUME NEW c \in Clas, activateCLA(c) PROVE OpenedOnce' /\ ListsFollowRegistration'
    <2>1. c \in pendingStart
        BY <1>3, <1>t DEF activateCLA, ListsFollowRegistration
    <2>2. pendingStart' = pendingStart \ {c}
        BY <1>3, <1>t, <2>1 DEF activateCLA, SameAddress, OpenedOnce, ClaTypeOK
    <2>3. OpenedOnce'
        BY <1>3, <1>t, <2>1, <2>2
        DEF activateCLA, OpenedOnce, ClaTypeOK, ConvergenceSender, ConvergenceReceiver
    <2>4. ListsFollowRegistration'
        BY <1>3, <1>t, <2>2 DEF activateCLA, ListsFollowRegistration
    <2>5. QED
        BY <2>3, <2>4
<1>4. ASSUME NEW c \in Clas, RemoveDisconnected(c)
      PROVE  OpenedOnce' /\ ListsFollowRegistration'
    <2>1. senders' \subseteq senders /\ receivers' \subseteq receivers
          /\ UNCHANGED <<pendingStart, reg>>
        BY <1>4 DEF RemoveDisconnected
    <2>2. QED
        BY <1>t, <2>1 DEF OpenedOnce, ListsFollowRegistration
<1>5. CASE CloseAll
    BY <1>5, <1>t DEF CloseAll, OpenedOnce, ListsFollowRegistration
<1>6. ASSUME NEW c \in Clas, ActivateReturns(c) \/ ActivateFails(c)
      PROVE  OpenedOnce' /\ ListsFollowRegistration'
    BY <1>6, <1>t, ListsUnchanged DEF ActivateReturns, ActivateFails
<1>7. ASSUME NEW c \in Clas,
             \/ Connect(c) \/ NotifyConnect(c) \/ RegisterListener(c) \/ LoseLink(c)
             \/ NotifyDisconnect(c) \/ Close(c)
      PROVE  OpenedOnce' /\ ListsFollowRegistration'
    BY <1>7, ListsUnchanged
    DEF Connect, NotifyConnect, RegisterListener, LoseLink, NotifyDisconnect, Close,
        WithManager
<1>8. CASE Shutdown \/ Exit \/ UNCHANGED claVars
    BY <1>8, ListsUnchanged DEF Shutdown, Exit, claVars
<1>9. QED
    BY <1>1, <1>2, <1>3, <1>4, <1>5, <1>6, <1>7, <1>8 DEF ClaNext

\* The invariant of the lists holds for any number of adapters and addresses.
THEOREM ClaInvariant == ClaSpec => []ClaInv
<1>1. ClaInit => ClaInv
    BY ClaInitInv
<1>2. ClaInv /\ [ClaNext]_claVars => ClaInv'
    BY ClaStepInv
<1>3. QED
    BY <1>1, <1>2, PTL DEF ClaSpec

\* However registrations overlap, the manager never has two adapters for the
\* same address (checkPresent and pendingStart of cla_manager.go).
THEOREM NoAddressOpenedTwice == ClaSpec => []OpenedOnce
<1>1. ClaInv => OpenedOnce
    BY DEF ClaInv
<1>2. QED
    BY <1>1, ClaInvariant, PTL

-----------------------------------------------------------------------------
(* MTCP alone *)

\* An MTCP client reports its loss once, and only while it is being started or
\* listed; therefore the address it removes is its own.
LEMMA MtcpStepInv == ClaInv /\ MtcpInv /\ [ClaNext]_claVars => MtcpInv'
<1> SUFFICES ASSUME ClaInv, MtcpInv, [ClaNext]_claVars, phase' = "up"
             PROVE  LinkInv' /\ RemovalKeepsAddress'
    BY DEF MtcpInv
<1> USE DEF lists
<1>t. ClaTypeOK /\ OpenedOnce /\ ListsFollowRegistration
    BY DEF ClaInv
<1>u. phase = "up"
    BY DEF ClaNext, claVars, Register, registerAsync, Connect, NotifyConnect,
           ActivateReturns, ActivateFails, activateCLA, RegisterListener, LoseLink,
           NotifyDisconnect, RemoveDisconnected, Close, Shutdown, CloseAll, Exit,
           WithManager
<1>i. LinkInv /\ RemovalKeepsAddress
    BY <1>u DEF MtcpInv
<1>1. ASSUME NEW c \in Clas,
             \/ Register(c) \/ registerAsync(c) \/ NotifyConnect(c)
             \/ ActivateReturns(c) \/ RegisterListener(c)
      PROVE  LinkInv' /\ RemovalKeepsAddress'
    BY <1>1, <1>t, <1>u, <1>i
    DEF Register, registerAsync, NotifyConnect, ActivateReturns, RegisterListener,
        WithManager, LinkInv, RemovalKeepsAddress, NotifiesOnce, ClaTypeOK
<1>2. ASSUME NEW c \in Clas, Connect(c) \/ ActivateFails(c) \/ LoseLink(c)
      PROVE  LinkInv' /\ RemovalKeepsAddress'
    <2>1. LinkInv'
        BY <1>2, <1>t, <1>i
        DEF Connect, ActivateFails, LoseLink, LinkInv, ListsFollowRegistration, ClaTypeOK,
            NotifiesOnce
    <2>2. RemovalKeepsAddress'
        BY <1>2, <1>i DEF Connect, ActivateFails, LoseLink, RemovalKeepsAddress, NotifiesOnce
    <2>3. QED
        BY <2>1, <2>2
<1>3. ASSUME NEW c \in Clas, activateCLA(c) PROVE LinkInv' /\ RemovalKeepsAddress'
    <2>1. c \in pendingStart /\ c \notin senders
        BY <1>3, <1>t DEF activateCLA, ListsFollowRegistration
    <2>2. pendingStart' = pendingStart \ {c}
        BY <1>3, <1>t, <2>1 DEF activateCLA, SameAddress, OpenedOnce, ClaTypeOK
    <2>3. NotifiesOnce(c) /\ link[c] # "none" => c \in senders'
        BY <1>3, <1>i, <1>t DEF activateCLA, LinkInv, ClaTypeOK
    <2>4. senders \subseteq senders' /\ reg' = [reg EXCEPT ![c] = "done"]
          /\ UNCHANGED <<link, calls, removing>>
        BY <1>3 DEF activateCLA
    <2>5. reg[c] \in {"activated", "failed"}
        BY <1>3 DEF activateCLA
    <2>6. LinkInv'
        BY <1>t, <1>i, <2>3, <2>4, <2>5 DEF LinkInv, NotifiesOnce, ClaTypeOK
    <2>7. RemovalKeepsAddress'
        BY <1>i, <1>t, <2>2, <2>3, <2>4
        DEF RemovalKeepsAddress, LinkInv, NotifiesOnce, ClaTypeOK
    <2>8. QED
        BY <2>6, <2>7
<1>4. ASSUME NEW c \in Clas, NotifyDisconnect(c) PROVE LinkInv' /\ RemovalKeepsAddress'
    <2>1. calls' = [calls EXCEPT ![c] = calls[c] + 1] /\ removing' \subseteq removing \cup {c}
          /\ UNCHANGED <<reg, link, senders, pendingStart>>
        BY <1>4, <1>u DEF NotifyDisconnect, WithManager
    <2>2. CASE NotifiesOnce(c)
        <3>1. Type[c] = "mtcp" /\ link[c] = "lost" /\ calls[c] = 0
            BY <1>4, <2>2 DEF NotifyDisconnect, MtcpNotices, QuiclNotices, NotifiesOnce
        <3>2. c \in pendingStart \cup senders
            BY <1>t, <1>i, <2>2, <3>1 DEF LinkInv, ListsFollowRegistration
        <3>3. RemovalKeepsAddress'
            BY <1>i, <2>1, <3>2 DEF RemovalKeepsAddress, NotifiesOnce
        <3>4. calls' = [calls EXCEPT ![c] = 1]
            BY <2>1, <3>1
        <3>5. LinkInv'
            BY <1>i, <1>t, <2>1, <3>1, <3>4 DEF LinkInv, NotifiesOnce, ClaTypeOK
        <3>6. QED
            BY <3>3, <3>5
    <2>3. CASE ~NotifiesOnce(c)
        <3>1. RemovalKeepsAddress'
            BY <1>i, <2>1, <2>3 DEF RemovalKeepsAddress, NotifiesOnce
        <3>2. LinkInv'
            BY <1>i, <1>t, <2>1, <2>3 DEF LinkInv, NotifiesOnce, ClaTypeOK
        <3>3. QED
            BY <3>1, <3>2
    <2>4. QED
        BY <2>2, <2>3
<1>5. ASSUME NEW c \in Clas, RemoveDisconnected(c)
      PROVE  LinkInv' /\ RemovalKeepsAddress'
    <2>1. c \in removing /\ removing' = removing \ {c}
          /\ UNCHANGED <<pendingStart, reg, link, calls>>
        BY <1>5 DEF RemoveDisconnected
    <2>2. ASSUME NEW d \in senders, NotifiesOnce(d), d # c PROVE d \in senders'
        <3>1. CASE Address[d] # Address[c]
            BY <1>5, <3>1 DEF RemoveDisconnected, SameAddress
        <3>2. CASE Address[d] = Address[c]
            <4>1. NotifiesOnce(c)
                BY <2>2, <3>2, <1>t DEF NotifiesOnce, ClaTypeOK
            <4>2. c \in ConvergenceSender /\ c \in pendingStart \cup senders
                BY <1>i, <2>1, <4>1 DEF LinkInv, RemovalKeepsAddress
            <4>3. QED
                BY <1>t, <2>2, <3>2, <4>2 DEF OpenedOnce, ClaTypeOK, ConvergenceSender
        <3>3. QED
            BY <3>1, <3>2
    <2>3. NotifiesOnce(c) => calls[c] > 0
        BY <1>i, <2>1 DEF LinkInv
    <2>4. LinkInv'
        BY <1>i, <1>t, <2>1, <2>2, <2>3 DEF LinkInv, NotifiesOnce, ClaTypeOK
    <2>5. RemovalKeepsAddress'
        BY <1>i, <2>1, <2>2 DEF RemovalKeepsAddress, NotifiesOnce
    <2>6. QED
        BY <2>4, <2>5
<1>6. CASE UNCHANGED claVars
    BY <1>6, <1>i DEF claVars, LinkInv, RemovalKeepsAddress, NotifiesOnce
<1>7. ASSUME NEW c \in Clas PROVE ~Close(c)
    BY <1>u DEF Close
<1>8. ~Shutdown /\ ~CloseAll /\ ~Exit
    BY <1>u DEF Shutdown, CloseAll, Exit
<1>9. QED
    BY <1>1, <1>2, <1>3, <1>4, <1>5, <1>6, <1>7, <1>8 DEF ClaNext

\* A connected MTCP client never drops out of the list of senders, whatever other
\* clients of the same peer come and go.
THEOREM MtcpLinksStayListed == ClaSpec => []LiveLinkIsListed
<1>1. ClaInit => MtcpInv
    BY DEF ClaInit, MtcpInv, LinkInv, RemovalKeepsAddress
<1>2. ClaInv /\ MtcpInv /\ [ClaNext]_claVars => MtcpInv'
    BY MtcpStepInv
<1>3. ClaInv /\ MtcpInv => LiveLinkIsListed
    BY DEF MtcpInv, LinkInv, LiveLinkIsListed, ConvergenceSender
<1>4. QED
    BY <1>1, <1>2, <1>3, ClaInvariant, PTL DEF ClaSpec
=============================================================================
