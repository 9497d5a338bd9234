----------------------------- MODULE Conductor -----------------------------
(***************************************************************************)
(* Call set-up and hang-up between signed-in clients: Conductor           *)
(* (src/Src/Client/conductor.cpp) together with the Media and MediaMsg    *)
(* handlers of PeerConnectionClient that drive it, over the server's      *)
(* relay.                                                                  *)
(*                                                                         *)
(* A caller sends a call request (Media 0) through the server; the callee *)
(* answers 1, or -1 when IsBusy.  On 1 the caller creates its             *)
(* PeerConnection and an offer; when ICE gathering completes, the         *)
(* description is queued to the UI thread and sent as a MediaMsg to the  *)
(* peer_id_ of that moment.  The callee creates its PeerConnection on the *)
(* first description and answers the same way.  "BYE" ends a call.       *)
(*                                                                         *)
(* Each client's link is two FIFO streams: up (to the server) and down    *)
(* (from it); Relay is cServer forwarding the head of one client's up     *)
(* stream to the addressee's down stream, and dropping it when the id is  *)
(* not a connected client (spec.md 5).  The WebRTC PeerConnection is not  *)
(* in the sources; pc abstracts its signaling state as JSEP defines it:  *)
(* "new" (no description), "offer" (local offer), "answer" (remote offer *)
(* applied, answer created), "stable" (remote answer applied).  A         *)
(* description in the wrong state fails and changes nothing.             *)
(***************************************************************************)
EXTENDS Integers, Sequences, FiniteSets

CONSTANTS
    Clients,     \* the signed-in clients
    None,        \* peer_id_ = -1
    MaxCalls,    \* bound on the call requests the users make
    MaxHangUps,  \* bound on the hang-ups the users make
    MaxSignOuts, \* bound on the sign-outs the users make
    MaxLinkDrops, \* bound on the links to the server that fail
    MaxInitFailures \* bound on the PeerConnection factories that fail

ASSUME /\ None \notin Clients
       /\ {MaxCalls, MaxHangUps, MaxSignOuts, MaxLinkDrops, MaxInitFailures} \subseteq Nat

Codes == {0, 1, -1}                 \* Media: request, accept, busy
Descs == {"offer", "answer", "BYE"}  \* MediaMsg payloads

VARIABLES
    peer_,     \* peer_id_
    pc,        \* peer_connection_: "none" or its signaling state
    gather,    \* a local description waits for ICE gathering to complete
    uiq,       \* the UI thread's queue of callbacks
    up,        \* packets a client has written to the server
    down,      \* packets the server has written to a client
    calls,     \* call requests made so far
    hangups,   \* hang-ups made so far
    online,    \* PeerConnectionClient::is_connected()
    registered,\* the server still holds the client's connection
    signouts,  \* sign-outs made so far
    drops,     \* links dropped so far
    initFails  \* failed InitializePeerConnection calls so far

session == <<online, registered, signouts, drops, initFails>>
vars == <<peer_, pc, gather, uiq, up, down, calls, hangups, session>>

Media(to, code) == [to |-> to, kind |-> "Media", val |-> code]
MediaMsg(to, d) == [to |-> to, kind |-> "MediaMsg", val |-> d]

UpMsgs == [to : Clients \cup {None}, kind : {"Media"}, val : Codes] \cup
          [to : Clients \cup {None}, kind : {"MediaMsg"}, val : Descs]
DownMsgs == [from : Clients, kind : {"Media"}, val : Codes] \cup
            [from : Clients, kind : {"MediaMsg"}, val : Descs] \cup
            [from : Clients, kind : {"UserInfo"}, val : {"offline"}]
UiMsgs == [kind : {"CLOSED"}] \cup [kind : {"SEND"}, desc : {"offer", "answer"}]

-----------------------------------------------------------------------------
(* Helpers                                                                *)

\* Conductor::IsBusy.
IsBusy(x) == peer_[x] # None /\ pc[x] # "none"

\* Conductor::DeletePeerConnection.
DeletePeerConnection(x) ==
    /\ pc' = [pc EXCEPT ![x] = "none"]
    /\ peer_' = [peer_ EXCEPT ![x] = None]
    /\ gather' = [gather EXCEPT ![x] = FALSE]

\* Conductor::OnDisconnected: DeletePeerConnection and the connect view.
OnDisconnected(x) == DeletePeerConnection(x)

\* PeerConnectionClient::SignOut on a connected socket: SIGNING_OUT, Close
\* (the socket; m_ReceivedData, which the caller clears) and
\* callback_->OnDisconnected.
SignOut(x) ==
    /\ online' = [online EXCEPT ![x] = FALSE]
    /\ OnDisconnected(x)

\* Conductor::InitializePeerConnection: CreatePeerConnectionFactory
\* succeeds, or fails (a fault of the WebRTC library, bounded) and then
\* the method shows a message box, calls DeletePeerConnection and returns
\* false.
InitializeOutcomes == IF initFails < MaxInitFailures THEN BOOLEAN ELSE {TRUE}

InitializeFails(x) ==
    /\ DeletePeerConnection(x)
    /\ initFails' = initFails + 1

\* Conductor::SendMessage: the description goes to the UI thread's queue.
SendMessage(x, d) == uiq' = [uiq EXCEPT ![x] = Append(@, [kind |-> "SEND", desc |-> d])]

\* PeerConnectionClient::SendData: a packet written while the client is
\* not connected is discarded.
Write(x, msg) == IF online[x] THEN [up EXCEPT ![x] = Append(@, msg)] ELSE up

\* SetRemoteDescription of desc d, then CreateAnswer for an offer.
RemoteDesc(s, d) ==
    CASE d = "offer"  /\ s \in {"new", "answer", "stable"} -> "answer"
      [] d = "answer" /\ s = "offer"                       -> "stable"
      [] OTHER                                             -> s

-----------------------------------------------------------------------------
(* Actions                                                                *)

Init ==
    /\ peer_ = [x \in Clients |-> None]
    /\ pc = [x \in Clients |-> "none"]
    /\ gather = [x \in Clients |-> FALSE]
    /\ uiq = [x \in Clients |-> <<>>]
    /\ up = [x \in Clients |-> <<>>]
    /\ down = [x \in Clients |-> <<>>]
    /\ calls = 0
    /\ hangups = 0
    /\ online = [x \in Clients |-> TRUE]
    /\ registered = [x \in Clients |-> TRUE]
    /\ signouts = 0
    /\ drops = 0
    /\ initFails = 0

\* Conductor::ConnectToPeer from the peer list (shown while there is no
\* PeerConnection; the method asserts peer_id_ == -1): RequestToPeer
\* writes Media(peer, 0).
ConnectToPeer(x, y) ==
    /\ online[x] /\ x # y /\ pc[x] = "none" /\ peer_[x] = None /\ calls < MaxCalls
    /\ up' = [up EXCEPT ![x] = Append(@, Media(y, 0))]
    /\ calls' = calls + 1
    /\ UNCHANGED <<peer_, pc, gather, uiq, down, hangups, session>>

\* Mutant of Relay: the packet is forwarded as it was received, still
\* naming the addressee instead of the sender.
RelayVerbatim(x) ==
    /\ up[x] # <<>>
    /\ LET m == Head(up[x]) IN
       down' = IF m.to \in Clients /\ online[m.to] THEN [down EXCEPT ![m.to] = Append(@, m)] ELSE down
    /\ up' = [up EXCEPT ![x] = Tail(@)]
    /\ UNCHANGED <<peer_, pc, gather, uiq, calls, hangups, session>>

\* cProtocol_impl::ForwardMedia / ForwardMediaMsg: the packet the
\* addressee gets names the sender's id.
Forward(x, m) == [from |-> x, kind |-> m.kind, val |-> m.val]

\* cProtocol_impl::HandlePacketMedia / HandlePacketMediaMsg read the
\* head of x's stream and cServer forwards it to the addressee, whose
\* ForwardMedia / ForwardMediaMsg write it with x as the peer id; an id
\* that is not a connected client is dropped (spec.md 5).  The server
\* keeps reading what a client sent before it signed out.
Relay(x) ==
    /\ up[x] # <<>>
    /\ LET m == Head(up[x]) IN
       down' = IF m.to \in Clients /\ online[m.to]
               THEN [down EXCEPT ![m.to] = Append(@, Forward(x, m))]
               ELSE down
    /\ up' = [up EXCEPT ![x] = Tail(@)]
    /\ UNCHANGED <<peer_, pc, gather, uiq, calls, hangups, session>>

\* HandlePacketMedia, type 0: answer -1 when busy, 1 otherwise.
AnswerRequest(x, m) ==
    /\ m.kind = "Media" /\ m.val = 0
    /\ up' = [up EXCEPT ![x] = Append(@, Media(m.from, IF IsBusy(x) THEN -1 ELSE 1))]
    /\ UNCHANGED <<peer_, pc, gather, uiq, online, initFails>>

\* Conductor::OnPeerResponse: on 1, unless a PeerConnection exists,
\* InitializePeerConnection, then peer_id_ and CreateOffer, whose
\* OnSuccess sets the local offer and starts ICE gathering; a failed
\* initialization only shows a message box.  On -1, peer_id_ = -1.
OnPeerResponse(x, m) ==
    /\ m.kind = "Media" /\ m.val # 0
    /\ CASE m.val = 1 /\ pc[x] = "none" ->
              \E ok \in InitializeOutcomes :
                 IF ok THEN /\ pc' = [pc EXCEPT ![x] = "offer"]
                            /\ peer_' = [peer_ EXCEPT ![x] = m.from]
                            /\ gather' = [gather EXCEPT ![x] = TRUE]
                            /\ UNCHANGED initFails
                       ELSE InitializeFails(x)
         [] m.val = -1 -> peer_' = [peer_ EXCEPT ![x] = None] /\ UNCHANGED <<pc, gather, initFails>>
         [] OTHER -> UNCHANGED <<peer_, pc, gather, initFails>>
    /\ UNCHANGED <<up, uiq, online>>

\* Mutant of OnPeerDisconnected: the test of the sender against peer_id_
\* inverted, so the loss of the current peer only refreshes the list.
OnPeerDisconnectedInverted(x, id) ==
    uiq' = IF id # peer_[x] THEN [uiq EXCEPT ![x] = Append(@, [kind |-> "CLOSED"])] ELSE uiq

\* Conductor::OnPeerDisconnected: for our peer, queue
\* PEER_CONNECTION_CLOSED; otherwise only the list is refreshed.
OnPeerDisconnected(x, id) ==
    uiq' = IF id = peer_[x] THEN [uiq EXCEPT ![x] = Append(@, [kind |-> "CLOSED"])] ELSE uiq

\* HandlePacketMediaMsg: the "BYE" sentinel goes to OnPeerDisconnected.
ByeReceived(x, m) ==
    /\ m.kind = "MediaMsg" /\ m.val = "BYE"
    /\ OnPeerDisconnected(x, m.from)
    /\ UNCHANGED <<peer_, pc, gather, up, online, initFails>>

\* Mutant of UserInfo: the offline branch only erases the user from peers_.
UserInfoEraseOnly(x, m) ==
    /\ m.kind = "UserInfo"
    /\ UNCHANGED <<peer_, pc, gather, up, uiq, online, initFails>>

\* HandlePacketUserInfo, offline branch (state > 3): peers_.erase and
\* OnPeerDisconnected.
UserInfo(x, m) ==
    /\ m.kind = "UserInfo"
    /\ OnPeerDisconnected(x, m.from)
    /\ UNCHANGED <<peer_, pc, gather, up, online, initFails>>

\* Conductor::OnMessageFromPeer: without a PeerConnection, bind to the
\* sender and initialize one; if that fails, SignOut and return.  A
\* message from another peer is dropped.  Then the description is
\* applied; an offer starts an answer, whose gathering is awaited when it
\* is the PeerConnection's first one.
OnMessageFromPeer(x, m) ==
    /\ m.kind = "MediaMsg" /\ m.val # "BYE"
    /\ IF pc[x] # "none" /\ m.from # peer_[x]
       THEN UNCHANGED <<peer_, pc, gather, online, initFails>>
       ELSE \/ /\ pc[x] = "none" /\ FALSE \in InitializeOutcomes
               /\ InitializeFails(x)
               /\ SignOut(x)
            \/ /\ LET s == IF pc[x] = "none" THEN "new" ELSE pc[x]
                  IN  /\ peer_' = [peer_ EXCEPT ![x] = m.from]
                      /\ pc' = [pc EXCEPT ![x] = RemoteDesc(s, m.val)]
                      /\ gather' = [gather EXCEPT ![x] = @ \/ (RemoteDesc(s, m.val) = "answer" /\ s = "new")]
               /\ UNCHANGED <<online, initFails>>
    /\ UNCHANGED <<up, uiq>>

\* OnRead -> HandlePacket for the head of x's stream from the server; a
\* handler that signed out has cleared the rest (Close).
Receive(x) ==
    /\ down[x] # <<>>
    /\ LET m == Head(down[x]) IN
       \/ AnswerRequest(x, m)
       \/ OnPeerResponse(x, m)
       \/ ByeReceived(x, m)
       \/ UserInfo(x, m)
       \/ OnMessageFromPeer(x, m)
    /\ down' = [down EXCEPT ![x] = IF online'[x] THEN Tail(@) ELSE <<>>]
    /\ UNCHANGED <<calls, hangups, registered, signouts, drops>>

\* OnIceGatheringChange(complete) -> SendMessage: the local description is
\* queued to the UI thread as SEND_MESSAGE_TO_PEER.
GatheringComplete(x) ==
    /\ gather[x] /\ pc[x] \in {"offer", "answer"}
    /\ SendMessage(x, pc[x])
    /\ gather' = [gather EXCEPT ![x] = FALSE]
    /\ UNCHANGED <<peer_, pc, up, down, calls, hangups, session>>

\* Conductor::UIThreadCallback for the head of the UI queue.
\* PEER_CONNECTION_CLOSED: DeletePeerConnection.  SEND_MESSAGE_TO_PEER:
\* SendToPeer(peer_id_, msg), then peer_id_ = -1 if there is no
\* PeerConnection.  pending_messages_ never holds more than the message
\* just queued: IsSendingMessage needs state_ == CONNECTED, which
\* PeerConnectionClient never sets, so the message is sent at once.
UIThreadCallback(x) ==
    /\ uiq[x] # <<>>
    /\ LET u == Head(uiq[x]) IN
       IF u.kind = "CLOSED"
       THEN DeletePeerConnection(x) /\ UNCHANGED up
       ELSE /\ up' = Write(x, MediaMsg(peer_[x], u.desc))
            /\ peer_' = IF pc[x] = "none" THEN [peer_ EXCEPT ![x] = None] ELSE peer_
            /\ UNCHANGED <<pc, gather>>
    /\ uiq' = [uiq EXCEPT ![x] = Tail(@)]
    /\ UNCHANGED <<down, calls, hangups, session>>

\* Conductor::DisconnectFromCurrentPeer (the user hangs up): SendHangUp to
\* peer_id_ and DeletePeerConnection.
DisconnectFromCurrentPeer(x) ==
    /\ pc[x] # "none" /\ hangups < MaxHangUps
    /\ up' = Write(x, MediaMsg(peer_[x], "BYE"))
    /\ DeletePeerConnection(x)
    /\ hangups' = hangups + 1
    /\ UNCHANGED <<uiq, down, calls, session>>

\* Conductor::DisconnectFromServer while connected: SignOut closes the
\* socket (Close clears m_ReceivedData) and calls OnDisconnected, which
\* deletes the PeerConnection without a BYE.  The UI queue survives.
DisconnectFromServer(x) ==
    /\ online[x] /\ signouts < MaxSignOuts
    /\ SignOut(x)
    /\ down' = [down EXCEPT ![x] = <<>>]
    /\ signouts' = signouts + 1
    /\ UNCHANGED <<uiq, up, calls, hangups, registered, drops, initFails>>

\* The server handles the closed connection after the data before it:
\* the client leaves the registry and the others are told it is offline
\* (UserInfo with a state above 3; spec.md 3 and 5, cServer is not in the
\* sources).
ServerRemoves(x) ==
    /\ registered[x] /\ ~online[x] /\ up[x] = <<>>
    /\ registered' = [registered EXCEPT ![x] = FALSE]
    /\ down' = [y \in Clients |->
                  IF online[y] THEN Append(down[y], [from |-> x, kind |-> "UserInfo", val |-> "offline"])
                  ELSE down[y]]
    /\ UNCHANGED <<peer_, pc, gather, uiq, up, calls, hangups, online, signouts, drops, initFails>>

\* No peer_id_ and no packet on the way names x's last connection.  The
\* server gives every connection a new id (cClientHandle::GetUniqueID,
\* spec.md 3), so nothing addressed to the old session reaches the new
\* one; the model names a client by one value and therefore signs it in
\* again only once the old name is no longer in use.
OldSessionForgotten(x) ==
    \A y \in Clients :
        /\ peer_[y] # x
        /\ \A i \in DOMAIN up[y] : up[y][i].to # x
        /\ \A i \in DOMAIN down[y] : down[y][i].from # x

\* StartLogin again after the server let go of the old connection; the
\* login itself is ClientProtocol's.
SignIn(x) ==
    /\ ~online[x] /\ ~registered[x] /\ OldSessionForgotten(x)
    /\ online' = [online EXCEPT ![x] = TRUE]
    /\ registered' = [registered EXCEPT ![x] = TRUE]
    /\ UNCHANGED <<peer_, pc, gather, uiq, up, down, calls, hangups, signouts, drops, initFails>>

\* PeerConnectionClient::OnClose, the link to the server failing: the
\* socket and Close (m_ReceivedData cleared, so what was on the way down
\* is lost), then only OnServerConnectionFailure, a message box.  Unlike
\* SignOut it does not call OnDisconnected: the Conductor keeps its
\* PeerConnection and peer_id_.  Bytes written before the failure may or
\* may not have reached the server.
LinkDrop(x) ==
    /\ online[x] /\ drops < MaxLinkDrops
    /\ online' = [online EXCEPT ![x] = FALSE]
    /\ down' = [down EXCEPT ![x] = <<>>]
    /\ up' \in {up, [up EXCEPT ![x] = <<>>]}
    /\ drops' = drops + 1
    /\ UNCHANGED <<peer_, pc, gather, uiq, calls, hangups, registered, signouts, initFails>>

Next ==
    \E x \in Clients :
        \/ \E y \in Clients : ConnectToPeer(x, y)
        \/ Relay(x)
        \/ Receive(x)
        \/ GatheringComplete(x)
        \/ UIThreadCallback(x)
        \/ DisconnectFromCurrentPeer(x)
        \/ DisconnectFromServer(x)
        \/ ServerRemoves(x)
        \/ SignIn(x)
        \/ LinkDrop(x)

\* The server relays, the network thread reads, the signaling thread
\* completes ICE gathering and the UI thread runs its queue: all of them
\* keep going.  The users (ConnectToPeer, hang-up) may stop at any time.
Fairness ==
    \A x \in Clients : /\ WF_vars(Relay(x)) /\ WF_vars(Receive(x))
                       /\ WF_vars(GatheringComplete(x)) /\ WF_vars(UIThreadCallback(x))
                       /\ WF_vars(ServerRemoves(x))

Spec == Init /\ [][Next]_vars /\ Fairness

-----------------------------------------------------------------------------
(* Properties                                                             *)

TypeOK ==
    /\ peer_ \in [Clients -> Clients \cup {None}]
    /\ pc \in [Clients -> {"none", "new", "offer", "answer", "stable"}]
    /\ gather \in [Clients -> BOOLEAN]
    /\ uiq \in [Clients -> Seq(UiMsgs)]
    /\ up \in [Clients -> Seq(UpMsgs)]
    /\ down \in [Clients -> Seq(DownMsgs)]
    /\ calls \in 0..MaxCalls /\ hangups \in 0..MaxHangUps /\ signouts \in 0..MaxSignOuts
    /\ drops \in 0..MaxLinkDrops /\ initFails \in 0..MaxInitFailures
    /\ online \in [Clients -> BOOLEAN] /\ registered \in [Clients -> BOOLEAN]

\* Nothing is in transit: no packet on the link, no UI callback queued, no
\* ICE gathering pending.
Quiet ==
    \A x \in Clients : up[x] = <<>> /\ down[x] = <<>> /\ uiq[x] = <<>> /\ ~gather[x]

\* x and y are in one call: bound to each other, the offer answered.
InCall(x, y) ==
    /\ peer_[x] = y /\ peer_[y] = x
    /\ {pc[x], pc[y]} = {"stable", "answer"}

\* Every client is either idle (no PeerConnection, peer_id_ -1) or in a
\* call with the client it is bound to.
Settled ==
    Quiet /\ \A x \in Clients : (pc[x] = "none" /\ peer_[x] = None) \/ \E y \in Clients : InCall(x, y)

\* The call set-up and tear-down of Conductor (OnPeerResponse, OnMessage-
\* FromPeer, UIThreadCallback, DisconnectFromCurrentPeer) always comes to
\* rest: once the users stop, every client ends idle or in a mutual call,
\* never holding a PeerConnection nobody answers.
CallSettles == <>[]Settled

\* Whenever a client holds a PeerConnection it knows its peer: the
\* RTC_DCHECK(peer_id_ != -1) of Conductor::OnMessageFromPeer, and what
\* IsBusy relies on to turn away call requests during a call (spec.md 5).
PeerConnectionHasPeer == \A x \in Clients : pc[x] # "none" => peer_[x] # None

BoundTo(y, x) == pc[y] # "none" /\ peer_[y] = x

ByeInFlight(x, y) ==
    \/ \E i \in DOMAIN up[x] : up[x][i] = MediaMsg(y, "BYE")
    \/ \E i \in DOMAIN down[y] : down[y][i] = [from |-> x, kind |-> "MediaMsg", val |-> "BYE"]

\* A hang-up (DisconnectFromCurrentPeer's SendHangUp) reaches the peer and
\* makes it release the PeerConnection it holds for the caller: the BYE is
\* recognised by HandlePacketMediaMsg, OnPeerDisconnected queues
\* PEER_CONNECTION_CLOSED and the UI thread deletes the connection.  The
\* exception is the peer's own link failing first (OnClose), which drops
\* the BYE with the rest of its input; without link failures a client is
\* offline only after OnDisconnected has already let go.
HangUpReleasesPeer ==
    \A x, y \in Clients :
        (BoundTo(y, x) /\ ByeInFlight(x, y)) ~> (~BoundTo(y, x) \/ ~online[y])

\* A peer that signs out or loses its link mid-call sends no BYE; the
\* client bound to it still lets go of the PeerConnection, through the
\* offline UserInfo the server sends when it removes the connection
\* (HandlePacketUserInfo, OnPeerDisconnected), whatever was still in flight
\* between them, unless its own link fails and the notice is lost with it.
PeerLossReleases ==
    \A x, y \in Clients :
        (BoundTo(y, x) /\ ~online[x] /\ registered[x]) ~> (~BoundTo(y, x) \/ ~online[y])



=============================================================================
