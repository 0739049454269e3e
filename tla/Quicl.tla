--------------------------------- MODULE Quicl ---------------------------------
(***************************************************************************)
(* The QUICL convergence layer, pkg/cla/quicl: one QUIC connection between *)
(* the endpoint of a node that dialled and the endpoint the other node's   *)
(* listener made for it, from the exchange of endpoint ids to the loss of  *)
(* the connection.                                                         *)
(*                                                                         *)
(* quic-go is external: a connection is reliable until it fails, an end    *)
(* learns of the failure at its own time and as one of the kinds of error  *)
(* the code distinguishes, and a stream counts against MaxIncomingStreams  *)
(* until both of its directions are closed.  The manager behind            *)
(* NotifyConnect and NotifyDisconnect is CLAManager's.                     *)
(***************************************************************************)
EXTENDS Naturals, FiniteSets

CONSTANTS
    Sends,               \* the calls of Send
    Owner,               \* Owner[s]: the end that makes the call
    Invalid,             \* those whose bundle is not, or no longer, valid: it has
                         \* expired or was loaded from an incomplete file
    Id,                  \* Id[e]: the endpoint id of e's node
    RateLimit,           \* the weight of rateLimiter
    MaxIncomingStreams   \* streams an end may have open

Ends == {"dialer", "listener"}
Other(e) == IF e = "dialer" THEN "listener" ELSE "dialer"

ASSUME QuiclAssumption ==
    /\ IsFiniteSet(Sends) /\ Owner \in [Sends -> Ends] /\ Invalid \subseteq Sends
    /\ RateLimit \in Nat \ {0}
    /\ MaxIncomingStreams \in Nat \ {0}

VARIABLES
    listening,   \* the listener's handle goroutine runs
    view,        \* the connection as an end sees it, or how it ended for it:
                 \* "local": closed here; "remote": closed by the peer;
                 \* "timeout": idle for too long; "other": any other error
    pc,          \* where Activate of an end is; "refused": it is never called
    underway,    \* ends whose id has been written and not been read
    peerId,      \* peerId[e], {} until the handshake has set it
    loop,        \* ends whose handleConnection runs
    tx,          \* where a Send is; "sent", "failed", "cut": it has returned,
                 \* "cut" with a stream that ends early
    tokens,      \* what is taken of an end's rateLimiter
    opened,      \* streams an end has opened that are not completed
    rx,          \* handleStream for the stream of a Send
    reported     \* ends for which NotifyDisconnect has been called

quiclVars ==
    <<listening, view, pc, underway, peerId, loop, tx, tokens, opened, rx, reported>>
transfer == <<tx, tokens, opened, rx>>

QuiclTypeOK ==
    /\ listening \in BOOLEAN
    /\ view \in [Ends -> {"none", "open", "local", "remote", "timeout", "other"}]
    /\ pc \in [Ends -> {"new", "queued", "accept", "sendId", "recvId", "close",
                        "handshake", "active", "failed", "refused"}]
    /\ underway \subseteq Ends /\ loop \subseteq Ends /\ reported \subseteq Ends
    /\ peerId \in [Ends -> SUBSET {Id[e] : e \in Ends}]
    /\ tx \in [Sends -> {"idle", "acquire", "open", "write", "sent", "failed", "cut"}]
    /\ tokens \in [Ends -> 0 .. RateLimit]
    /\ opened \in [Ends -> 0 .. MaxIncomingStreams]
    /\ rx \in [Sends -> {"none", "reading", "received", "refused", "failed"}]

QuiclInit ==
    /\ listening = TRUE
    /\ view = [e \in Ends |-> "none"]
    /\ pc = [e \in Ends |-> "new"]
    /\ underway = {} /\ loop = {} /\ reported = {}
    /\ peerId = [e \in Ends |-> {}]
    /\ tx = [s \in Sends |-> "idle"]
    /\ tokens = [e \in Ends |-> 0]
    /\ opened = [e \in Ends |-> 0]
    /\ rx = [s \in Sends |-> "none"]

-----------------------------------------------------------------------------
(* The connection: quic-go and the network *)

\* DialAddr succeeds, and the connection waits for the listener's Accept.
Dial ==
    /\ pc["dialer"] = "new"
    /\ listening
    /\ view' = [e \in Ends |-> "open"]
    /\ pc' = [dialer |-> "sendId", listener |-> "queued"]
    /\ UNCHANGED <<listening, underway, peerId, loop, transfer, reported>>

DialFails ==
    /\ pc["dialer"] = "new"
    /\ pc' = [pc EXCEPT !["dialer"] = "failed"]
    /\ UNCHANGED <<listening, view, underway, peerId, loop, transfer, reported>>

\* CloseWithError: it does nothing once the connection has ended.
CloseWithError(e) == view' = IF view[e] = "open" THEN [view EXCEPT ![e] = "local"] ELSE view

\* A peer that is out of reach, has restarted or violates the protocol.
Break(e, error) ==
    /\ view[e] = "open"
    /\ view' = [view EXCEPT ![e] = error]
    /\ UNCHANGED <<listening, pc, underway, peerId, loop, transfer, reported>>

\* An end learns that the connection has ended for its peer: a close may get lost.
Learn(e) ==
    /\ view[e] = "open" /\ view[Other(e)] # "open"
    /\ \E error \in {"timeout"} \cup (IF view[Other(e)] = "local" THEN {"remote"} ELSE {}) :
           view' = [view EXCEPT ![e] = error]
    /\ UNCHANGED <<listening, pc, underway, peerId, loop, transfer, reported>>

-----------------------------------------------------------------------------
(* Listener and handshake *)

\* handle: a new endpoint is registered, and activated by the manager.
Accept ==
    /\ listening /\ pc["listener"] = "queued"
    /\ pc' = [pc EXCEPT !["listener"] = "accept"]
    /\ UNCHANGED <<listening, view, underway, peerId, loop, transfer, reported>>

\* An endpoint of this address is registered already, and registerAsync returns:
\* nobody serves the connection, and nobody closes it.
AcceptPresent ==
    /\ listening /\ pc["listener"] = "queued"
    /\ pc' = [pc EXCEPT !["listener"] = "refused"]
    /\ UNCHANGED <<listening, view, underway, peerId, loop, transfer, reported>>

\* Listener.Close: a connection that is not accepted is refused, and one that is
\* does not notice.
CloseListener ==
    /\ listening /\ pc["listener"] \in {"new", "queued"}
    /\ listening' = FALSE
    /\ IF pc["listener"] = "queued"
       THEN /\ pc' = [pc EXCEPT !["listener"] = "failed"]
            /\ view' = [view EXCEPT !["listener"] = "other"]
       ELSE UNCHANGED <<pc, view>>
    /\ UNCHANGED <<underway, peerId, loop, transfer, reported>>

\* handshakeListener: the stream is visible once the dialer has written to it.
AcceptStream ==
    /\ pc["listener"] = "accept" /\ view["listener"] = "open"
    /\ "dialer" \in underway
    /\ pc' = [pc EXCEPT !["listener"] = "recvId"]
    /\ UNCHANGED <<listening, view, underway, peerId, loop, transfer, reported>>

\* sendEndpointID; the dialer, who begins, has to open the stream.
sendEndpointID(e) ==
    /\ pc[e] = "sendId" /\ view[e] = "open"
    /\ underway' = underway \cup {e}
    /\ opened' = IF e = "dialer" THEN [opened EXCEPT ![e] = @ + 1] ELSE opened
    /\ pc' = [pc EXCEPT ![e] = IF e = "dialer" THEN "recvId" ELSE "close"]
    /\ UNCHANGED <<listening, view, peerId, loop, tx, tokens, rx, reported>>

\* Faulty receiveEndpointID: the own id is taken for the peer's.
receiveEndpointIDOwn(e) ==
    /\ pc[e] = "recvId" /\ view[e] = "open"
    /\ Other(e) \in underway
    /\ underway' = underway \ {Other(e)}
    /\ peerId' = [peerId EXCEPT ![e] = {Id[e]}]
    /\ pc' = [pc EXCEPT ![e] = IF e = "dialer" THEN "handshake" ELSE "sendId"]
    /\ UNCHANGED <<listening, view, loop, transfer, reported>>

receiveEndpointID(e) ==
    /\ pc[e] = "recvId" /\ view[e] = "open"
    /\ Other(e) \in underway
    /\ underway' = underway \ {Other(e)}
    /\ peerId' = [peerId EXCEPT ![e] = {Id[Other(e)]}]
    /\ pc' = [pc EXCEPT ![e] = IF e = "dialer" THEN "handshake" ELSE "sendId"]
    /\ UNCHANGED <<listening, view, loop, transfer, reported>>

\* The listener closes its direction of the stream.
CloseStream ==
    /\ pc["listener"] = "close" /\ view["listener"] = "open"
    /\ pc' = [pc EXCEPT !["listener"] = "handshake"]
    /\ UNCHANGED <<listening, view, underway, peerId, loop, transfer, reported>>

InHandshake(e) == pc[e] \in {"accept", "sendId", "recvId", "close"}

\* Faulty HandshakeFails: the connection is left open.
HandshakeFailsOpen(e) ==
    /\ InHandshake(e)
    /\ view[e] # "open" \/ pc[e] = "accept"
    /\ pc' = [pc EXCEPT ![e] = "failed"]
    /\ UNCHANGED <<listening, view, underway, peerId, loop, transfer, reported>>

\* A HandshakeError: the connection has ended, or the dialer's stream does not
\* come within handshakeTimeout.  Activate closes the connection.
HandshakeFails(e) ==
    /\ InHandshake(e)
    /\ view[e] # "open" \/ pc[e] = "accept"
    /\ CloseWithError(e)
    /\ pc' = [pc EXCEPT ![e] = "failed"]
    /\ UNCHANGED <<listening, underway, peerId, loop, transfer, reported>>

\* Faulty Activate: only the dialer listens for streams.
ActivateDialerOnly(e) ==
    /\ pc[e] = "handshake"
    /\ pc' = [pc EXCEPT ![e] = "active"]
    /\ loop' = loop \cup ({e} \cap {"dialer"})
    /\ UNCHANGED <<listening, view, underway, peerId, transfer, reported>>

\* The rest of Activate: handleConnection is started and the peer announced.
Activate(e) ==
    /\ pc[e] = "handshake"
    /\ pc' = [pc EXCEPT ![e] = "active"]
    /\ loop' = loop \cup {e}
    /\ UNCHANGED <<listening, view, underway, peerId, transfer, reported>>

\* Endpoint.Close, when the manager shuts down.
Close(e) ==
    /\ pc[e] = "active"
    /\ view[e] = "open" /\ CloseWithError(e)
    /\ UNCHANGED <<listening, pc, underway, peerId, loop, transfer, reported>>

-----------------------------------------------------------------------------
(* Send *)

Goto(s, l) == tx' = [tx EXCEPT ![s] = l]
handshake(e) == pc[e] \in {"handshake", "active"}

Send(s) ==
    /\ tx[s] = "idle" /\ pc[Owner[s]] # "new"
    /\ \/ handshake(Owner[s]) /\ Goto(s, "acquire")
       \/ ~handshake(Owner[s]) /\ Goto(s, "failed")
       \/ s \in Invalid /\ Goto(s, "failed")
    /\ UNCHANGED <<listening, view, pc, underway, peerId, loop, tokens, opened, rx, reported>>

Acquire(s) ==
    /\ tx[s] = "acquire" /\ tokens[Owner[s]] < RateLimit
    /\ tokens' = [tokens EXCEPT ![Owner[s]] = @ + 1]
    /\ Goto(s, "open")
    /\ UNCHANGED <<listening, view, pc, underway, peerId, loop, opened, rx, reported>>

OpenStream(s) ==
    /\ tx[s] = "open" /\ view[Owner[s]] = "open"
    /\ opened[Owner[s]] < MaxIncomingStreams
    /\ opened' = [opened EXCEPT ![Owner[s]] = @ + 1]
    /\ Goto(s, "write")
    /\ UNCHANGED <<listening, view, pc, underway, peerId, loop, tokens, rx, reported>>

\* Faulty Release: a Send that cannot open a stream keeps its token.
ReleaseOpened(s) ==
    tokens' = [tokens EXCEPT ![Owner[s]] = IF tx[s] = "open" THEN @ ELSE @ - 1]

Release(s) == tokens' = [tokens EXCEPT ![Owner[s]] = @ - 1]

\* Faulty Notifies: every error is taken for a lost connection.
NotifiesAlways(e) == reported' = reported \cup {e}

\* NotifyDisconnect is called for a net.Error that is a timeout.
Notifies(e) == reported' = IF view[e] = "timeout" THEN reported \cup {e} ELSE reported

\* The connection has ended, or the limit of streams is reached.
OpenStreamFails(s) ==
    /\ tx[s] = "open"
    /\ view[Owner[s]] # "open" \/ opened[Owner[s]] = MaxIncomingStreams
    /\ Notifies(Owner[s]) /\ Release(s)
    /\ Goto(s, "failed")
    /\ UNCHANGED <<listening, view, pc, underway, peerId, loop, opened, rx>>

\* WriteTo, Flush and Close: the stream's other direction stays open.
Write(s) ==
    /\ tx[s] = "write" /\ view[Owner[s]] = "open"
    /\ Release(s)
    /\ Goto(s, "sent")
    /\ UNCHANGED <<listening, view, pc, underway, peerId, loop, opened, rx, reported>>

WriteFails(s) ==
    /\ tx[s] = "write" /\ view[Owner[s]] # "open"
    /\ Notifies(Owner[s]) /\ Release(s)
    /\ Goto(s, "cut")
    /\ UNCHANGED <<listening, view, pc, underway, peerId, loop, opened, rx>>

-----------------------------------------------------------------------------
(* handleConnection and handleStream *)

Receiver(s) == Other(Owner[s])

\* AcceptStream succeeds; handleStream runs in a goroutine of its own.
AcceptBundle(s) ==
    /\ Receiver(s) \in loop /\ view[Receiver(s)] = "open"
    /\ tx[s] \in {"write", "sent", "cut"} /\ rx[s] = "none"
    /\ rx' = [rx EXCEPT ![s] = "reading"]
    /\ UNCHANGED <<listening, view, pc, underway, peerId, loop, tx, tokens, opened, reported>>

\* Faulty handleConnection: a connection the peer has closed is not reported.
handleConnectionQuiet(e) ==
    /\ e \in loop /\ view[e] \in {"local", "remote", "timeout"}
    /\ loop' = loop \ {e}
    /\ Notifies(e)
    /\ UNCHANGED <<listening, view, pc, underway, peerId, transfer>>

\* AcceptStream fails with an application error or a timeout.  After any other
\* error the loop goes on, and fails again.
handleConnection(e) ==
    /\ e \in loop /\ view[e] \in {"local", "remote", "timeout"}
    /\ loop' = loop \ {e}
    /\ reported' = IF view[e] = "local" THEN reported ELSE reported \cup {e}
    /\ UNCHANGED <<listening, view, pc, underway, peerId, transfer>>

\* The bundle is complete and handed to receiveCallback, ...
handleStream(s) ==
    /\ rx[s] = "reading" /\ view[Receiver(s)] = "open"
    /\ tx[s] = "sent"
    /\ rx' = [rx EXCEPT ![s] = "received"]
    /\ UNCHANGED <<listening, view, pc, underway, peerId, loop, tx, tokens, opened, reported>>

\* ... or Unmarshal refuses it and the stream is dropped, of which the sender
\* hears nothing, ...
handleStreamRefuses(s) ==
    /\ rx[s] = "reading" /\ view[Receiver(s)] = "open"
    /\ tx[s] = "sent" /\ s \in Invalid
    /\ rx' = [rx EXCEPT ![s] = "refused"]
    /\ UNCHANGED <<listening, view, pc, underway, peerId, loop, tx, tokens, opened, reported>>

\* ... or it cannot be read to its end.  After the first byte Unmarshal returns an
\* error of its own in place of the net.Error.
handleStreamFails(s) ==
    /\ rx[s] = "reading" /\ view[Receiver(s)] # "open"
    /\ Notifies(Receiver(s)) \/ UNCHANGED reported
    /\ rx' = [rx EXCEPT ![s] = "failed"]
    /\ UNCHANGED <<listening, view, pc, underway, peerId, loop, tx, tokens, opened>>

-----------------------------------------------------------------------------
(* Specification *)

Handshaking(e) ==
    \/ sendEndpointID(e) \/ receiveEndpointID(e) \/ HandshakeFails(e) \/ Activate(e)
    \/ e = "listener" /\ (Accept \/ AcceptPresent \/ AcceptStream \/ CloseStream)

\* A Send that has been called goes on.
Sending(s) ==
    Acquire(s) \/ OpenStream(s) \/ OpenStreamFails(s) \/ Write(s) \/ WriteFails(s)

Receiving(s) ==
    AcceptBundle(s) \/ handleStream(s) \/ handleStreamRefuses(s) \/ handleStreamFails(s)

QuiclNext ==
    \/ Dial \/ DialFails \/ CloseListener
    \/ \E e \in Ends :
           \/ Handshaking(e) \/ handleConnection(e) \/ Learn(e) \/ Close(e)
           \/ \E error \in {"timeout", "other"} : Break(e, error)
    \/ \E s \in Sends : Send(s) \/ Sending(s) \/ Receiving(s)

QuiclSpec == QuiclInit /\ [][QuiclNext]_quiclVars

\* The scheduler runs the goroutines, and the idle timeout makes an end learn of
\* its peer's end of the connection.  Nobody has to dial, send or close.
FairQuiclSpec ==
    /\ QuiclSpec
    /\ \A e \in Ends : /\ WF_quiclVars(Handshaking(e) \/ handleConnection(e))
                       /\ WF_quiclVars(Learn(e))
    /\ \A s \in Sends : WF_quiclVars(Sending(s)) /\ WF_quiclVars(Receiving(s))

-----------------------------------------------------------------------------
(* Properties *)

Knows(e) == peerId[e] = {Id[Other(e)]}

\* Who sends knows the endpoint id of its peer and who receives knows whose
\* bundle it is; when the dialer has the listener's id, the listener has its.
KnownPeer ==
    /\ handshake("dialer") => Knows("dialer") /\ Knows("listener")
    /\ \A s \in Sends : /\ tx[s] \notin {"idle", "failed"} => Knows(Owner[s])
                        /\ rx[s] # "none" => Knows(Receiver(s))

\* NotifyDisconnect is called "if it notices that it has lost its connection":
\* no endpoint is removed from the manager's lists while its connection stands,
\* not even if it runs out of streams.
ReportedIsDown == \A e \in reported : view[e] \in {"remote", "timeout"}

\* Neither end waits in the handshake for ever for the other one, unless the
\* listener's manager has refused the endpoint: the dialer waits then for as long as
\* the connection stands.
HandshakeEnds ==
    \A e \in Ends :
        InHandshake(e) ~> \/ pc[e] \in {"active", "failed"}
                          \/ pc["listener"] = "refused" /\ view[e] = "open"

\* A connection the peer has closed or that has timed out is reported, unless the
\* node closed it itself.
LostIsReported ==
    \A e \in Ends :
        pc[e] = "active" /\ view[e] \in {"remote", "timeout"} ~> e \in reported

\* Every Send returns, whatever the connection does: none keeps its token of the
\* rate limiter.
SendReturns ==
    \A s \in Sends : tx[s] = "acquire" ~> tx[s] \in {"sent", "failed", "cut"}

\* What Send has reported as sent is handed to receiveCallback, unless the
\* connection ends.  A bundle that has become invalid on its way is dropped there,
\* on a connection that stands, and the sender takes the peer for a holder of it.
SentIsReceived ==
    \A s \in Sends :
        tx[s] = "sent" ~> \/ rx[s] = "received"
                          \/ rx[s] = "refused" /\ s \in Invalid
                          \/ \E e \in Ends : view[e] # "open"

-----------------------------------------------------------------------------
(* The inductive invariant behind KnownPeer and ReportedIsDown *)

\* rateLimiter counts the Sends between Acquire and Release.
Holding(e) == {s \in Sends : Owner[s] = e /\ tx[s] \in {"open", "write"}}
TokensAreHeld == \A e \in Ends : tokens[e] = Cardinality(Holding(e))

\* Before DialAddr has returned there is nothing, and the dialer's first stream is
\* the handshake's.
BeforeDial ==
    /\ pc["dialer"] = "new" => /\ pc["listener"] = "new" /\ reported = {}
                              /\ \A e \in Ends : view[e] = "none"
    /\ pc["dialer"] \in {"new", "sendId"} => opened["dialer"] = 0

\* The listener answers only after it has read the dialer's id, and both send,
\* receive and report a disconnect only after the handshake.
HandshakeOrder ==
    /\ \A e \in Ends : /\ pc[e] \in {"close", "handshake", "active"} => Knows(e)
                       /\ e \in loop \cup reported => handshake(e)
    /\ pc["listener"] = "sendId" \/ "listener" \in underway => Knows("listener")
    /\ \A s \in Sends : /\ tx[s] \notin {"idle", "failed"} => handshake(Owner[s])
                        /\ rx[s] # "none" => handshake(Receiver(s))

QuiclInv ==
    /\ QuiclTypeOK /\ TokensAreHeld /\ BeforeDial /\ HandshakeOrder
    /\ KnownPeer /\ ReportedIsDown
=============================================================================
