------------------------------ MODULE QuiclProofs ------------------------------
(***************************************************************************)
(* Proofs about a QUICL connection, for any number of Sends, any weight of *)
(* the rate limiter and any limit of streams: QuiclInv is inductive.       *)
(***************************************************************************)
EXTENDS Quicl, FiniteSetTheorems, TLAPS

\* The invariant without the count of tokens.
Rest == QuiclTypeOK /\ BeforeDial /\ HandshakeOrder /\ KnownPeer /\ ReportedIsDown

\* Initially no connection exists and no Send has been called.
LEMMA QuiclInitInv == QuiclInit => QuiclInv
<1> SUFFICES ASSUME QuiclInit PROVE QuiclInv
  OBVIOUS
<1> USE QuiclAssumption
<1>1. Rest
  BY DEF QuiclInit, Rest, QuiclTypeOK, BeforeDial, HandshakeOrder, KnownPeer,
     ReportedIsDown, Ends, Knows, handshake, Receiver, Other
<1>2. TokensAreHeld
  <2>1. ASSUME NEW e \in Ends PROVE Holding(e) = {}
    BY DEF QuiclInit, Holding
  <2> QED BY <2>1, FS_EmptySet DEF QuiclInit, TokensAreHeld, Ends
<1> QED BY <1>1, <1>2 DEF QuiclInv, Rest

\* The Sends that hold a token are finitely many.
LEMMA HoldingFinite ==
    \A e \in Ends : IsFiniteSet(Holding(e)) /\ Cardinality(Holding(e)) \in Nat
<1> SUFFICES ASSUME NEW e \in Ends
             PROVE  IsFiniteSet(Holding(e)) /\ Cardinality(Holding(e)) \in Nat
  OBVIOUS
<1>1. IsFiniteSet(Sends) /\ Holding(e) \subseteq Sends
  BY QuiclAssumption DEF Holding
<1> QED BY <1>1, FS_Subset, FS_CardinalityType

\* A step after which the same Sends hold tokens, and that leaves rateLimiter
\* alone, keeps the count.
LEMMA TokensKept ==
    ASSUME TokensAreHeld, tokens' = tokens,
           \A s \in Sends : tx'[s] \in {"open", "write"} <=> tx[s] \in {"open", "write"}
    PROVE  TokensAreHeld'
<1>1. \A e \in Ends : Holding(e)' = Holding(e)
  BY DEF Holding
<1> QED BY <1>1 DEF TokensAreHeld

\* Acquire counts the Send that gets the token, ...
LEMMA TokensAcquired ==
    ASSUME NEW s \in Sends, QuiclTypeOK, TokensAreHeld, Acquire(s) PROVE TokensAreHeld'
<1> USE QuiclAssumption
<1>1. \A e \in Ends : Holding(e)' = IF e = Owner[s] THEN Holding(e) \cup {s} ELSE Holding(e)
  BY DEF Acquire, Holding, Goto, QuiclTypeOK
<1>2. s \notin Holding(Owner[s]) /\ Owner[s] \in Ends
  BY DEF Acquire, Holding
<1>3. Cardinality(Holding(Owner[s]) \cup {s}) = Cardinality(Holding(Owner[s])) + 1
  BY <1>2, HoldingFinite, FS_AddElement
<1>4. tokens' = [tokens EXCEPT ![Owner[s]] = @ + 1]
  BY DEF Acquire
<1> QED BY <1>1, <1>2, <1>3, <1>4 DEF TokensAreHeld, QuiclTypeOK

\* ... and Release takes the one that returns out again, of which there is one.
LEMMA TokensReleased ==
    ASSUME NEW s \in Sends, QuiclTypeOK, TokensAreHeld, tx[s] \in {"open", "write"},
           Release(s), NEW l \in {"sent", "failed", "cut"}, Goto(s, l)
    PROVE  TokensAreHeld' /\ tokens'[Owner[s]] \in 0 .. RateLimit
<1> USE QuiclAssumption
<1>1. \A e \in Ends : Holding(e)' = IF e = Owner[s] THEN Holding(e) \ {s} ELSE Holding(e)
  BY DEF Holding, Goto, QuiclTypeOK
<1>2. s \in Holding(Owner[s]) /\ Owner[s] \in Ends
  BY DEF Holding
<1>3. Cardinality(Holding(Owner[s]) \ {s}) = Cardinality(Holding(Owner[s])) - 1
  BY <1>2, HoldingFinite, FS_RemoveElement
<1>4. Cardinality(Holding(Owner[s]) \ {s}) \in Nat
  BY <1>2, HoldingFinite, FS_RemoveElement, FS_CardinalityType
<1>5. tokens' = [tokens EXCEPT ![Owner[s]] = @ - 1]
  BY DEF Release
<1>6. TokensAreHeld'
  BY <1>1, <1>2, <1>3, <1>5 DEF TokensAreHeld, QuiclTypeOK
<1>7. tokens'[Owner[s]] \in 0 .. RateLimit
  BY <1>2, <1>3, <1>4, <1>5 DEF TokensAreHeld, QuiclTypeOK
<1> QED BY <1>6, <1>7


\* Every step keeps the invariant.
LEMMA QuiclStep == QuiclInv /\ [QuiclNext]_quiclVars => QuiclInv'
<1> SUFFICES ASSUME QuiclInv, [QuiclNext]_quiclVars PROVE QuiclInv'
  OBVIOUS
<1> USE QuiclAssumption
<1>0. Rest /\ TokensAreHeld
  BY DEF QuiclInv, Rest
<1>z. Rest' /\ TokensAreHeld' => QuiclInv'
  BY DEF QuiclInv, Rest
<1>1. ASSUME Dial PROVE QuiclInv'
  <2>1. Rest'
    BY <1>1, <1>0
     DEF Rest, QuiclTypeOK, BeforeDial, HandshakeOrder, KnownPeer,
         ReportedIsDown, Ends, Other, Knows, handshake, Receiver, transfer,
         Dial
  <2>2. TokensAreHeld'
    BY <1>1, <1>0, TokensKept DEF Dial, transfer, Rest, QuiclTypeOK
  <2> QED BY <2>1, <2>2, <1>z
<1>2. ASSUME DialFails PROVE QuiclInv'
  <2>1. Rest'
    BY <1>2, <1>0
     DEF Rest, QuiclTypeOK, BeforeDial, HandshakeOrder, KnownPeer,
         ReportedIsDown, Ends, Other, Knows, handshake, Receiver, transfer,
         DialFails
  <2>2. TokensAreHeld'
    BY <1>2, <1>0, TokensKept DEF DialFails, transfer, Rest, QuiclTypeOK
  <2> QED BY <2>1, <2>2, <1>z
<1>3. ASSUME CloseListener PROVE QuiclInv'
  <2>a. QuiclTypeOK'
    <3>1. /\ pc' \in [Ends -> {"new", "queued", "accept", "sendId", "recvId", "close",
                               "handshake", "active", "failed", "refused"}]
          /\ view' \in [Ends -> {"none", "open", "local", "remote", "timeout", "other"}]
      BY <1>3, <1>0 DEF Rest, QuiclTypeOK, CloseListener
    <3>2. listening' \in BOOLEAN /\ UNCHANGED <<underway, peerId, loop, transfer, reported>>
      BY <1>3 DEF CloseListener
    <3> QED BY <3>1, <3>2, <1>0 DEF Rest, QuiclTypeOK, transfer
  <2>b. BeforeDial'
    BY <1>3, <1>0 DEF Rest, QuiclTypeOK, BeforeDial, Ends, transfer, CloseListener
  <2>c. HandshakeOrder' /\ KnownPeer'
    BY <1>3, <1>0
     DEF Rest, QuiclTypeOK, HandshakeOrder, KnownPeer, Ends, Other, Knows, handshake,
         Receiver, transfer, CloseListener
  <2>d. ReportedIsDown'
    BY <1>3, <1>0
     DEF Rest, QuiclTypeOK, HandshakeOrder, handshake, ReportedIsDown, Ends, transfer,
         CloseListener
  <2>1. Rest'
    BY <2>a, <2>b, <2>c, <2>d DEF Rest
  <2>2. TokensAreHeld'
    BY <1>3, <1>0, TokensKept DEF CloseListener, transfer, Rest, QuiclTypeOK
  <2> QED BY <2>1, <2>2, <1>z
<1>4. ASSUME Accept PROVE QuiclInv'
  <2>1. Rest'
    BY <1>4, <1>0
     DEF Rest, QuiclTypeOK, BeforeDial, HandshakeOrder, KnownPeer,
         ReportedIsDown, Ends, Other, Knows, handshake, Receiver, transfer,
         Accept
  <2>2. TokensAreHeld'
    BY <1>4, <1>0, TokensKept DEF Accept, transfer, Rest, QuiclTypeOK
  <2> QED BY <2>1, <2>2, <1>z
<1>4a. ASSUME AcceptPresent PROVE QuiclInv'
  <2>1. Rest'
    BY <1>4a, <1>0
     DEF Rest, QuiclTypeOK, BeforeDial, HandshakeOrder, KnownPeer,
         ReportedIsDown, Ends, Other, Knows, handshake, Receiver, transfer,
         AcceptPresent
  <2>2. TokensAreHeld'
    BY <1>4a, <1>0, TokensKept DEF AcceptPresent, transfer, Rest, QuiclTypeOK
  <2> QED BY <2>1, <2>2, <1>z
<1>5. ASSUME AcceptStream PROVE QuiclInv'
  <2>1. Rest'
    BY <1>5, <1>0
     DEF Rest, QuiclTypeOK, BeforeDial, HandshakeOrder, KnownPeer,
         ReportedIsDown, Ends, Other, Knows, handshake, Receiver, transfer,
         AcceptStream
  <2>2. TokensAreHeld'
    BY <1>5, <1>0, TokensKept DEF AcceptStream, transfer, Rest, QuiclTypeOK
  <2> QED BY <2>1, <2>2, <1>z
<1>6. ASSUME CloseStream PROVE QuiclInv'
  <2>1. Rest'
    BY <1>6, <1>0
     DEF Rest, QuiclTypeOK, BeforeDial, HandshakeOrder, KnownPeer,
         ReportedIsDown, Ends, Other, Knows, handshake, Receiver, transfer,
         CloseStream
  <2>2. TokensAreHeld'
    BY <1>6, <1>0, TokensKept DEF CloseStream, transfer, Rest, QuiclTypeOK
  <2> QED BY <2>1, <2>2, <1>z
<1>7. ASSUME NEW e \in Ends, NEW error \in {"timeout", "other"}, Break(e, error)
      PROVE  QuiclInv'
  <2>1. Rest'
    BY <1>7, <1>0
     DEF Rest, QuiclTypeOK, BeforeDial, HandshakeOrder, KnownPeer,
         ReportedIsDown, Ends, Other, Knows, handshake, Receiver, transfer,
         Break
  <2>2. TokensAreHeld'
    BY <1>7, <1>0, TokensKept DEF Break, transfer, Rest, QuiclTypeOK
  <2> QED BY <2>1, <2>2, <1>z
<1>8. ASSUME NEW e \in Ends, Learn(e) PROVE QuiclInv'
  <2>1. Rest'
    BY <1>8, <1>0
     DEF Rest, QuiclTypeOK, BeforeDial, HandshakeOrder, KnownPeer,
         ReportedIsDown, Ends, Other, Knows, handshake, Receiver, transfer,
         Learn
  <2>2. TokensAreHeld'
    BY <1>8, <1>0, TokensKept DEF Learn, transfer, Rest, QuiclTypeOK
  <2> QED BY <2>1, <2>2, <1>z
<1>9. ASSUME NEW e \in Ends, sendEndpointID(e) PROVE QuiclInv'
  <2>1. Rest'
    BY <1>9, <1>0
     DEF Rest, QuiclTypeOK, BeforeDial, HandshakeOrder, KnownPeer,
         ReportedIsDown, Ends, Other, Knows, handshake, Receiver, transfer,
         sendEndpointID
  <2>2. TokensAreHeld'
    BY <1>9, <1>0, TokensKept DEF sendEndpointID, transfer, Rest, QuiclTypeOK
  <2> QED BY <2>1, <2>2, <1>z
<1>10. ASSUME NEW e \in Ends, receiveEndpointID(e) PROVE QuiclInv'
  <2>1. Rest'
    BY <1>10, <1>0
     DEF Rest, QuiclTypeOK, BeforeDial, HandshakeOrder, KnownPeer,
         ReportedIsDown, Ends, Other, Knows, handshake, Receiver, transfer,
         receiveEndpointID
  <2>2. TokensAreHeld'
    BY <1>10, <1>0, TokensKept DEF receiveEndpointID, transfer, Rest, QuiclTypeOK
  <2> QED BY <2>1, <2>2, <1>z
<1>11. ASSUME NEW e \in Ends, HandshakeFails(e) PROVE QuiclInv'
  <2>1. Rest'
    BY <1>11, <1>0
     DEF Rest, QuiclTypeOK, BeforeDial, HandshakeOrder, KnownPeer,
         ReportedIsDown, Ends, Other, Knows, handshake, Receiver, transfer,
         HandshakeFails, InHandshake, CloseWithError
  <2>2. TokensAreHeld'
    BY <1>11, <1>0, TokensKept DEF HandshakeFails, transfer, Rest, QuiclTypeOK
  <2> QED BY <2>1, <2>2, <1>z
<1>12. ASSUME NEW e \in Ends, Activate(e) PROVE QuiclInv'
  <2>1. Rest'
    BY <1>12, <1>0
     DEF Rest, QuiclTypeOK, BeforeDial, HandshakeOrder, KnownPeer,
         ReportedIsDown, Ends, Other, Knows, handshake, Receiver, transfer,
         Activate
  <2>2. TokensAreHeld'
    BY <1>12, <1>0, TokensKept DEF Activate, transfer, Rest, QuiclTypeOK
  <2> QED BY <2>1, <2>2, <1>z
<1>13. ASSUME NEW e \in Ends, Close(e) PROVE QuiclInv'
  <2>1. Rest'
    BY <1>13, <1>0
     DEF Rest, QuiclTypeOK, BeforeDial, HandshakeOrder, KnownPeer,
         ReportedIsDown, Ends, Other, Knows, handshake, Receiver, transfer,
         Close, CloseWithError
  <2>2. TokensAreHeld'
    BY <1>13, <1>0, TokensKept DEF Close, transfer, Rest, QuiclTypeOK
  <2> QED BY <2>1, <2>2, <1>z
<1>14. ASSUME NEW e \in Ends, handleConnection(e) PROVE QuiclInv'
  <2>1. Rest'
    BY <1>14, <1>0
     DEF Rest, QuiclTypeOK, BeforeDial, HandshakeOrder, KnownPeer,
         ReportedIsDown, Ends, Other, Knows, handshake, Receiver, transfer,
         handleConnection
  <2>2. TokensAreHeld'
    BY <1>14, <1>0, TokensKept DEF handleConnection, transfer, Rest, QuiclTypeOK
  <2> QED BY <2>1, <2>2, <1>z
<1>15. ASSUME NEW s \in Sends, AcceptBundle(s) PROVE QuiclInv'
  <2>1. Rest'
    BY <1>15, <1>0
     DEF Rest, QuiclTypeOK, BeforeDial, HandshakeOrder, KnownPeer,
         ReportedIsDown, Ends, Other, Knows, handshake, Receiver, transfer,
         AcceptBundle
  <2>2. TokensAreHeld'
    BY <1>15, <1>0, TokensKept DEF AcceptBundle, transfer, Rest, QuiclTypeOK
  <2> QED BY <2>1, <2>2, <1>z
<1>16. ASSUME NEW s \in Sends, handleStream(s) PROVE QuiclInv'
  <2>1. Rest'
    BY <1>16, <1>0
     DEF Rest, QuiclTypeOK, BeforeDial, HandshakeOrder, KnownPeer,
         ReportedIsDown, Ends, Other, Knows, handshake, Receiver, transfer,
         handleStream
  <2>2. TokensAreHeld'
    BY <1>16, <1>0, TokensKept DEF handleStream, transfer, Rest, QuiclTypeOK
  <2> QED BY <2>1, <2>2, <1>z
<1>16a. ASSUME NEW s \in Sends, handleStreamRefuses(s) PROVE QuiclInv'
  <2>1. Rest'
    BY <1>16a, <1>0
     DEF Rest, QuiclTypeOK, BeforeDial, HandshakeOrder, KnownPeer,
         ReportedIsDown, Ends, Other, Knows, handshake, Receiver, transfer,
         handleStreamRefuses
  <2>2. TokensAreHeld'
    BY <1>16a, <1>0, TokensKept DEF handleStreamRefuses, transfer, Rest, QuiclTypeOK
  <2> QED BY <2>1, <2>2, <1>z
<1>17. ASSUME NEW s \in Sends, handleStreamFails(s) PROVE QuiclInv'
  <2>a. UNCHANGED <<listening, view, pc, underway, peerId, loop, opened, tokens, tx>>
    BY <1>17 DEF handleStreamFails
  <2>z. Receiver(s) \in Ends
    BY <1>0 DEF Receiver, Other, Ends
  <2>y. reported' = reported \/ (view[Receiver(s)] = "timeout" /\ reported' = reported \cup {Receiver(s)})
    BY <1>17 DEF handleStreamFails, Notifies
  <2>b. /\ reported' \subseteq Ends /\ reported \subseteq reported'
        /\ \A e \in reported' : e \in reported \/ view[e] = "timeout"
        /\ (\A e \in Ends : view[e] = "none") => reported' = reported
    BY <2>y, <2>z, <1>0 DEF Rest, QuiclTypeOK
  <2>c. QuiclTypeOK'
    BY <1>17, <2>a, <2>b, <1>0 DEF Rest, QuiclTypeOK, handleStreamFails
  <2>d. BeforeDial'
    BY <2>a, <2>b, <1>0 DEF Rest, BeforeDial
  <2>e. HandshakeOrder' /\ KnownPeer'
    BY <2>a, <1>17, <1>0
     DEF Rest, QuiclTypeOK, HandshakeOrder, KnownPeer, Knows, handshake, Receiver,
         handleStreamFails, Notifies
  <2>f. ReportedIsDown'
    BY <2>a, <2>b, <1>0 DEF Rest, ReportedIsDown
  <2>1. Rest'
    BY <2>c, <2>d, <2>e, <2>f DEF Rest
  <2>2. TokensAreHeld'
    BY <1>17, <1>0, TokensKept DEF handleStreamFails, transfer, Rest, QuiclTypeOK
  <2> QED BY <2>1, <2>2, <1>z
<1>18. ASSUME NEW s \in Sends, Send(s) PROVE QuiclInv'
  <2>1. Rest'
    BY <1>18, <1>0
     DEF Rest, QuiclTypeOK, BeforeDial, HandshakeOrder, KnownPeer,
         ReportedIsDown, Ends, Other, Knows, handshake, Receiver, transfer,
         Send, Goto
  <2>2. TokensAreHeld'
    BY <1>18, <1>0, TokensKept DEF Send, transfer, Rest, QuiclTypeOK, Goto
  <2> QED BY <2>1, <2>2, <1>z
<1>19. ASSUME NEW s \in Sends, Acquire(s) PROVE QuiclInv'
  <2>1. Rest'
    BY <1>19, <1>0
     DEF Rest, QuiclTypeOK, BeforeDial, HandshakeOrder, KnownPeer,
         ReportedIsDown, Ends, Other, Knows, handshake, Receiver, transfer,
         Acquire, Goto
  <2>2. TokensAreHeld'
    BY <1>19, <1>0, TokensAcquired DEF Rest
  <2> QED BY <2>1, <2>2, <1>z
<1>20. ASSUME NEW s \in Sends, OpenStream(s) PROVE QuiclInv'
  <2>1. Rest'
    BY <1>20, <1>0
     DEF Rest, QuiclTypeOK, BeforeDial, HandshakeOrder, KnownPeer,
         ReportedIsDown, Ends, Other, Knows, handshake, Receiver, transfer,
         OpenStream, Goto
  <2>2. TokensAreHeld'
    BY <1>20, <1>0, TokensKept DEF OpenStream, transfer, Rest, QuiclTypeOK, Goto
  <2> QED BY <2>1, <2>2, <1>z
<1>21. ASSUME NEW s \in Sends, OpenStreamFails(s) PROVE QuiclInv'
  <2>1. Release(s) /\ Goto(s, "failed") /\ tx[s] \in {"open", "write"}
    BY <1>21 DEF OpenStreamFails
  <2>2. TokensAreHeld' /\ tokens'[Owner[s]] \in 0 .. RateLimit
    BY <2>1, <1>0, TokensReleased DEF Rest
  <2>a. UNCHANGED <<listening, view, pc, underway, peerId, loop, opened, rx>>
    BY <1>21 DEF OpenStreamFails
  <2>b. /\ reported' \subseteq Ends /\ reported \subseteq reported'
        /\ \A e \in reported' : e \in reported \/ view[e] = "timeout"
        /\ (\A e \in Ends : view[e] = "none") => reported' = reported
    BY <1>21, <1>0 DEF OpenStreamFails, Notifies, Rest, QuiclTypeOK
  <2>c. QuiclTypeOK'
    BY <2>1, <2>2, <2>a, <2>b, <1>0 DEF Rest, QuiclTypeOK, Goto, Release
  <2>d. BeforeDial'
    BY <2>a, <2>b, <1>0 DEF Rest, BeforeDial
  <2>e. HandshakeOrder' /\ KnownPeer'
    BY <2>1, <2>a, <1>21, <1>0
     DEF Rest, QuiclTypeOK, HandshakeOrder, KnownPeer, Knows, handshake, Receiver, Goto,
         OpenStreamFails, Notifies
  <2>f. ReportedIsDown'
    BY <2>a, <2>b, <1>0 DEF Rest, ReportedIsDown
  <2>3. Rest'
    BY <2>c, <2>d, <2>e, <2>f DEF Rest
  <2> QED BY <2>2, <2>3, <1>z
<1>22. ASSUME NEW s \in Sends, Write(s) PROVE QuiclInv'
  <2>1. Release(s) /\ Goto(s, "sent") /\ tx[s] \in {"open", "write"}
    BY <1>22 DEF Write
  <2>2. TokensAreHeld' /\ tokens'[Owner[s]] \in 0 .. RateLimit
    BY <2>1, <1>0, TokensReleased DEF Rest
  <2>3. Rest'
    BY <1>22, <1>0, <2>2
     DEF Rest, QuiclTypeOK, BeforeDial, HandshakeOrder, KnownPeer,
         ReportedIsDown, Ends, Other, Knows, handshake, Receiver, transfer,
         Write, Goto, Release
  <2> QED BY <2>2, <2>3, <1>z
<1>23. ASSUME NEW s \in Sends, WriteFails(s) PROVE QuiclInv'
  <2>1. Release(s) /\ Goto(s, "cut") /\ tx[s] \in {"open", "write"}
    BY <1>23 DEF WriteFails
  <2>2. TokensAreHeld' /\ tokens'[Owner[s]] \in 0 .. RateLimit
    BY <2>1, <1>0, TokensReleased DEF Rest
  <2>a. UNCHANGED <<listening, view, pc, underway, peerId, loop, opened, rx>>
    BY <1>23 DEF WriteFails
  <2>b. /\ reported' \subseteq Ends /\ reported \subseteq reported'
        /\ \A e \in reported' : e \in reported \/ view[e] = "timeout"
        /\ (\A e \in Ends : view[e] = "none") => reported' = reported
    BY <1>23, <1>0 DEF WriteFails, Notifies, Rest, QuiclTypeOK
  <2>c. QuiclTypeOK'
    BY <2>1, <2>2, <2>a, <2>b, <1>0 DEF Rest, QuiclTypeOK, Goto, Release
  <2>d. BeforeDial'
    BY <2>a, <2>b, <1>0 DEF Rest, BeforeDial
  <2>e. HandshakeOrder' /\ KnownPeer'
    BY <2>1, <2>a, <1>23, <1>0
     DEF Rest, QuiclTypeOK, HandshakeOrder, KnownPeer, Knows, handshake, Receiver, Goto,
         WriteFails, Notifies
  <2>f. ReportedIsDown'
    BY <2>a, <2>b, <1>0 DEF Rest, ReportedIsDown
  <2>3. Rest'
    BY <2>c, <2>d, <2>e, <2>f DEF Rest
  <2> QED BY <2>2, <2>3, <1>z
<1>24. CASE UNCHANGED quiclVars
  <2>1. Rest'
    BY <1>24, <1>0 DEF quiclVars, Rest, QuiclTypeOK, BeforeDial, HandshakeOrder, KnownPeer,
         ReportedIsDown, Ends, Other, Knows, handshake, Receiver, transfer
  <2>2. TokensAreHeld'
    BY <1>24, <1>0, TokensKept DEF quiclVars
  <2> QED BY <2>1, <2>2, <1>z
<1> QED
  BY <1>1, <1>2, <1>3, <1>4, <1>4a, <1>5, <1>6, <1>7, <1>8, <1>9, <1>10, <1>11,
     <1>12, <1>13, <1>14, <1>15, <1>16, <1>16a, <1>17, <1>18, <1>19, <1>20, <1>21,
     <1>22, <1>23, <1>24
   DEF QuiclNext, Handshaking, Sending, Receiving

\* The states of a connection have their types: in particular the rate limiter
\* never gives back a token twice, and streams stay within their limit.
THEOREM QuiclTypeCorrect == QuiclSpec => []QuiclTypeOK
<1>1. QuiclInv => QuiclTypeOK
  BY DEF QuiclInv
<1> QED BY <1>1, QuiclInitInv, QuiclStep, PTL DEF QuiclSpec

\* Who sends or receives a bundle knows its peer, as the handshake promises.
THEOREM PeersAreKnown == QuiclSpec => []KnownPeer
<1>1. QuiclInv => KnownPeer
  BY DEF QuiclInv
<1> QED BY <1>1, QuiclInitInv, QuiclStep, PTL DEF QuiclSpec

\* NotifyDisconnect is called only for a connection that has ended.
THEOREM OnlyLostIsReported == QuiclSpec => []ReportedIsDown
<1>1. QuiclInv => ReportedIsDown
  BY DEF QuiclInv
<1> QED BY <1>1, QuiclInitInv, QuiclStep, PTL DEF QuiclSpec
=============================================================================
