--------------------------- MODULE ClientProtocol ---------------------------
(***************************************************************************)
(* The client's end of the server link: PeerConnectionClient              *)
(* (src/Src/Client/peer_connection_client.cpp).                           *)
(*                                                                         *)
(* The client resolves the server's address, opens a socket, and on       *)
(* OnConnect sends its StatusRequest.  Every OnRead appends a chunk of    *)
(* the stream to m_ReceivedData and dispatches the complete packets by    *)
(* (m_State, type), mirroring cProtocol_impl.  The handlers answer the    *)
(* server, update peers_ and call the observer (the Conductor), whose     *)
(* calls are recorded in cb.  SignOut and Close end a session.           *)
(*                                                                         *)
(* The server is the environment: per socket it follows its own protocol  *)
(* (srv: "status", "login", "work", "closed" after a kick), answering    *)
(* the StatusRequest and the LoginInfo the client has sent and then       *)
(* writing Work packets.  The network may close the socket at any time.   *)
(***************************************************************************)
EXTENDS ByteBuffer, TLC

CONSTANTS
    AppName, ServerName, Port, \* the fields of the StatusRequest
    UserName, PassWord,   \* the credentials Connect is given
    Ip,                   \* the address the server reports
    Bye,                  \* kByeMessage, "BYE"
    Reasons,              \* error codes the server may send
    PeerIds,              \* ids of other users
    PingIds,              \* keep-alive ids the server may use
    PeerNames,            \* their names
    UserStates,           \* user states BroadcastUserInfo may carry
    Messages,             \* MediaMsg strings other than Bye
    Capacity,             \* capacity of m_ReceivedData (64 KiB)
    MaxChunk,             \* largest chunk one Recv returns (0xffff)
    MaxConnects,          \* bound on the calls of Connect
    MaxWork,              \* bound on the Work packets per socket
    MaxOut                \* bound on the packets the client sends per socket

States == {"NOT_CONNECTED", "RESOLVING", "SIGNING_IN", "CONNECTED",
           "SIGNING_OUT_WAITING", "SIGNING_OUT"}

VARIABLES
    state_,          \* the State enum of peer_connection_client.h
    sock,            \* control_socket_: "none", "closed", "connecting", "connected"
    m_bConnect,      \* set by OnConnect, cleared by Close
    m_State,         \* protocol state: 1 status, 2 login, 3 work
    m_ReceivedData,  \* bytes received and not yet consumed
    peers_,          \* ids in the peer map
    cred,            \* m_strUserName / m_strPassWord are set
    busy,            \* Conductor::IsBusy
    srv,             \* the server's protocol state on this socket
    wire,            \* bytes the server has written that have not arrived
    sent,            \* bodies the server has written on this socket
    frames,          \* bodies AddReceivedData has extracted (history)
    out,             \* bodies the client has sent on this socket
    cb,              \* observer calls since the last Connect
    connects         \* calls of Connect so far

vars == <<state_, sock, m_bConnect, m_State, m_ReceivedData, peers_, cred, busy,
          srv, wire, sent, frames, out, cb, connects>>

-----------------------------------------------------------------------------
(* The client as one record, so that the packet loop can thread it.       *)

Conn == [state_ |-> state_, sock |-> sock, m_bConnect |-> m_bConnect, m_State |-> m_State,
         buf |-> m_ReceivedData, peers_ |-> peers_, cred |-> cred, busy |-> busy,
         srv |-> srv, wire |-> wire, sent |-> sent, frames |-> frames, out |-> out, cb |-> cb]

Apply(c) ==
    /\ state_' = c.state_ /\ sock' = c.sock /\ m_bConnect' = c.m_bConnect
    /\ m_State' = c.m_State /\ m_ReceivedData' = c.buf /\ peers_' = c.peers_
    /\ cred' = c.cred /\ srv' = c.srv /\ wire' = c.wire /\ sent' = c.sent
    /\ frames' = c.frames /\ out' = c.out /\ cb' = c.cb

\* cPacketizer -> SendData: nothing is sent unless is_connected().
Send(c, body) == IF c.m_bConnect THEN [c EXCEPT !.out = Append(@, body)] ELSE c

Callback(c, op) == [c EXCEPT !.cb = Append(@, op)]

\* Variants with a plausible bug, each placed before the definition it
\* replaces.
\* Variant: Close forgets to reset m_State.
CloseKeepsState(c) ==
    [c EXCEPT !.sock = IF @ = "none" THEN "none" ELSE "closed", !.state_ = "NOT_CONNECTED",
              !.m_bConnect = FALSE, !.buf = <<>>]

\* Close: the socket, the state, the flag, both buffers and m_State.
Close(c) ==
    [c EXCEPT !.sock = IF @ = "none" THEN "none" ELSE "closed", !.state_ = "NOT_CONNECTED",
              !.m_bConnect = FALSE, !.buf = <<>>, !.m_State = 1]

\* SignOut: a connected socket is closed at once and the observer told;
\* otherwise the client waits in SIGNING_OUT_WAITING.  Both forget the
\* credentials.
SignOut(c) ==
    IF c.state_ \in {"NOT_CONNECTED", "SIGNING_OUT"} THEN c
    ELSE IF c.sock = "connected"
         THEN [Callback(Close([c EXCEPT !.state_ = "SIGNING_OUT"]), "OnDisconnected")
                 EXCEPT !.cred = FALSE]
         ELSE [c EXCEPT !.state_ = "SIGNING_OUT_WAITING", !.cred = FALSE]

\* HandleErrorCode: SignOut, then OnDisconnected and the notification.
HandleErrorCode(c) == Callback(Callback(SignOut(c), "OnDisconnected"), "PostNotification")

-----------------------------------------------------------------------------
(* Packet handlers; each returns the client.  A failed HANDLE_READ       *)
(* returns before any effect.                                             *)

\* The UInt32 comparison state > 3 on the two's-complement value.
UInt32Gt3(v) == v > 3 \/ v < 0

\* Variant: the range test of the answered state is inverted.
CheckStateInverted(c, state) ==
    IF state <= 3 /\ state >= 1 THEN c
    ELSE Send([c EXCEPT !.m_State = state],
              IF c.cred THEN LoginInfoBody(UserName, PassWord) ELSE LoginInfoBody(<<>>, <<>>))

CheckState(c, state) ==
    IF state > 3 \/ state < 1 THEN c
    ELSE Send([c EXCEPT !.m_State = state],
              IF c.cred THEN LoginInfoBody(UserName, PassWord) ELSE LoginInfoBody(<<>>, <<>>))

StatusRead(c, r) == IF r.ok THEN CheckState(c, r.vals[1]) ELSE c

HandlePacketStatusRequest(c, bb) == StatusRead(c, HandleReads(<<"be32", "str">>, bb))

ErrorRead(c, r) == IF r.ok THEN HandleErrorCode(c) ELSE c

HandlePacketLoginDisconnect(c, bb) == ErrorRead(c, HandleReads(<<"be32">>, bb))

HandlePacketLoginSuccess(c, bb) == Callback([c EXCEPT !.m_State = 3], "OnSignedIn")

\* Variant: the echo writes the id as a BE32 instead of a varint.
EchoReadBE32(c, r) == IF r.ok THEN Send(c, VarIntEncode(0) \o BE32Encode(r.vals[1])) ELSE c

EchoRead(c, r) == IF r.ok THEN Send(c, KeepAliveBody(r.vals[1])) ELSE c

HandlePacketKeepAlive(c, bb) == EchoRead(c, HandleReads(<<"var">>, bb))

UserInfo(c, uid, state) ==
    IF UInt32Gt3(state)
    THEN Callback([c EXCEPT !.peers_ = @ \ {uid}], "OnPeerDisconnected")
    ELSE Callback([c EXCEPT !.peers_ = @ \cup {uid}], "OnPeerConnected")

UserInfoRead(c, r) == IF r.ok THEN UserInfo(c, r.vals[1], r.vals[3]) ELSE c

HandlePacketUserInfo(c, bb) == UserInfoRead(c, HandleReads(<<"var", "str", "var">>, bb))

\* A call request (type 0) is answered 1, or -1 when busy.
Media(c, peer, type) ==
    IF type = 0 THEN Send(c, MediaBody(peer, IF c.busy THEN -1 ELSE 1))
    ELSE Callback(c, "OnPeerResponse")

MediaRead(c, r) == IF r.ok THEN Media(c, r.vals[1], r.vals[2]) ELSE c

HandlePacketMedia(c, bb) == MediaRead(c, HandleReads(<<"var", "var">>, bb))

MediaMsgRead(c, r) ==
    IF ~r.ok THEN c
    ELSE Callback(c, IF r.vals[2] = Bye THEN "OnPeerDisconnected" ELSE "OnMessageFromPeer")

HandlePacketMediaMsg(c, bb) == MediaMsgRead(c, HandleReads(<<"var", "str">>, bb))

HandlePacketErrorCode(c, bb) == ErrorRead(c, HandleReads(<<"be32">>, bb))

\* The dispatch table of HandlePacket: (m_State, packet type) -> handler.
Dispatch ==
    (<<1, 0>> :> "StatusRequest") @@ (<<2, 0>> :> "LoginDisconnect") @@
    (<<2, 1>> :> "LoginSuccess") @@ (<<3, 0>> :> "KeepAlive") @@ (<<3, 1>> :> "UserInfo") @@
    (<<3, 17>> :> "Media") @@ (<<3, 18>> :> "MediaMsg") @@ (<<3, 64>> :> "ErrorCode")

RunHandler(h, c, bb) ==
    CASE h = "StatusRequest"   -> HandlePacketStatusRequest(c, bb)
      [] h = "LoginDisconnect" -> HandlePacketLoginDisconnect(c, bb)
      [] h = "LoginSuccess"    -> HandlePacketLoginSuccess(c, bb)
      [] h = "KeepAlive"       -> HandlePacketKeepAlive(c, bb)
      [] h = "UserInfo"        -> HandlePacketUserInfo(c, bb)
      [] h = "Media"           -> HandlePacketMedia(c, bb)
      [] h = "MediaMsg"        -> HandlePacketMediaMsg(c, bb)
      [] h = "ErrorCode"       -> HandlePacketErrorCode(c, bb)

\* HandlePacket: FALSE for a type the state does not know; a state outside
\* the table becomes 255.
HandlePacket(c, bb, type) ==
    IF <<c.m_State, type>> \in DOMAIN Dispatch
    THEN [ok |-> TRUE, c |-> RunHandler(Dispatch[<<c.m_State, type>>], c, bb)]
    ELSE [ok |-> FALSE, c |-> IF c.m_State \in {1, 2, 3, 255} THEN c
                              ELSE [c EXCEPT !.m_State = 255]]

-----------------------------------------------------------------------------
(* The for (;;) of AddReceivedData after the write, one operator per      *)
(* stage.  Unlike the server's loop, an unhandled packet ends the call.   *)

RECURSIVE ProcessPackets(_), ReadPacketLen(_, _), ReadPacket(_, _, _),
          CommitPacket(_, _, _), DispatchPacket(_, _, _), AfterHandle(_)

\* ReadVarInt(PacketLen): not enough data, ResetRead and break.
ReadPacketLen(c, n) == IF n \notin 1..5 THEN c ELSE ReadPacket(c, n, VarIntValue(c.buf, n))

\* Variant: no ResetRead when the body is incomplete (the length is lost).
ReadPacketNoRewind(c, n, len) ==
    IF len < 0 \/ Len(c.buf) - n < len THEN [c EXCEPT !.buf = Drop(c.buf, n)]
    ELSE CommitPacket(c, n, SubSeq(c.buf, n + 1, n + len))

\* CanReadBytes(PacketLen): the body is incomplete, ResetRead and break.
ReadPacket(c, n, len) ==
    IF len < 0 \/ Len(c.buf) - n < len THEN c
    ELSE CommitPacket(c, n, SubSeq(c.buf, n + 1, n + len))

\* ReadToByteBuffer and CommitRead, then bb.ReadVarInt(PacketType).
CommitPacket(c, n, body) ==
    DispatchPacket([c EXCEPT !.buf = Drop(c.buf, n + Len(body)), !.frames = Append(@, body)],
                   body, VarIntLen(body))

\* No type: break.  Else HandlePacket on the rest of the body and a NUL.
DispatchPacket(c, body, tn) ==
    IF tn \notin 1..5 THEN c
    ELSE AfterHandle(HandlePacket(c, Drop(body, tn) \o <<0>>, VarIntValue(body, tn)))

\* HandlePacket false: return.  A wrong read count is only an ASSERT.
AfterHandle(r) == IF r.ok THEN ProcessPackets(r.c) ELSE r.c

ProcessPackets(c) == ReadPacketLen(c, VarIntLen(c.buf))

\* AddReceivedData: a chunk that does not fit is dropped without a word.
AddReceivedData(c, data) ==
    IF Len(c.buf) + Len(data) > Capacity THEN c
    ELSE ProcessPackets([c EXCEPT !.buf = @ \o data])

-----------------------------------------------------------------------------
(* Operations of the client                                               *)

\* DoConnect: a new socket; ConnectControlSocket either starts connecting
\* or fails, and a failure closes the client and tells the observer.
NewSocket(c) ==
    [c EXCEPT !.sock = "closed", !.srv = "status", !.wire = <<>>, !.sent = <<>>, !.frames = <<>>,
              !.out = <<>>]

DoConnect(c, ok) ==
    IF ok THEN [NewSocket(c) EXCEPT !.sock = "connecting", !.state_ = "SIGNING_IN"]
    ELSE Callback(Close(NewSocket(c)), "OnServerConnectionFailure")

\* Connect, reached through Conductor::StartLogin when not is_connected().
ConnectOp(c, unresolved, ok) ==
    IF c.state_ # "NOT_CONNECTED" THEN Callback(c, "OnServerConnectionFailure")
    ELSE IF unresolved THEN [c EXCEPT !.cred = TRUE, !.cb = <<>>, !.state_ = "RESOLVING"]
    ELSE DoConnect([c EXCEPT !.cred = TRUE, !.cb = <<>>], ok)

OnResolveResultOp(c, resolved, ok) ==
    IF resolved THEN DoConnect(c, ok)
    ELSE [Callback(c, "OnServerConnectionFailure") EXCEPT !.state_ = "NOT_CONNECTED"]

\* OnConnect: the flag, then the StatusRequest asking for state 2.
OnConnectOp(c) ==
    Send([c EXCEPT !.sock = "connected", !.m_bConnect = TRUE],
         StatusRequestBody(AppName, ServerName, Port, 2))

\* OnClose: the socket is closed, the client closed, the observer told
\* (both branches of the err test make the same call).
OnCloseOp(c) == Callback(Close([c EXCEPT !.sock = "closed"]), "OnServerConnectionFailure")

-----------------------------------------------------------------------------
(* Actions                                                                *)

Init ==
    /\ state_ = "NOT_CONNECTED" /\ sock = "none" /\ m_bConnect = FALSE /\ m_State = 1
    /\ m_ReceivedData = <<>> /\ peers_ = {} /\ cred = FALSE /\ busy = FALSE
    /\ srv = "status" /\ wire = <<>> /\ sent = <<>> /\ frames = <<>> /\ out = <<>> /\ cb = <<>>
    /\ connects = 0

\* The user logs in: Conductor::StartLogin returns when is_connected().
StartLogin(unresolved, ok) ==
    /\ ~m_bConnect /\ connects < MaxConnects
    /\ Apply(ConnectOp(Conn, unresolved, ok))
    /\ connects' = connects + 1
    /\ UNCHANGED busy

OnResolveResult(resolved, ok) ==
    /\ state_ = "RESOLVING"
    /\ Apply(OnResolveResultOp(Conn, resolved, ok))
    /\ UNCHANGED <<busy, connects>>

OnConnect ==
    /\ sock = "connecting"
    /\ Apply(OnConnectOp(Conn))
    /\ UNCHANGED <<busy, connects>>

\* The server closes the link or the network fails.
OnClose ==
    /\ sock \in {"connecting", "connected"}
    /\ Apply(OnCloseOp(Conn))
    /\ UNCHANGED <<busy, connects>>

\* OnRead: Recv returns the next k bytes, DataReceived hands them on.
OnRead(k) ==
    /\ sock = "connected" /\ k <= Len(wire)
    /\ Apply([AddReceivedData(Conn, SubSeq(wire, 1, k)) EXCEPT !.wire = Drop(wire, k)])
    /\ UNCHANGED <<busy, connects>>

\* Conductor::DisconnectFromServer: SignOut when is_connected().
DisconnectFromServer ==
    /\ m_bConnect
    /\ Apply(SignOut(Conn))
    /\ UNCHANGED <<busy, connects>>

\* RequestToPeer, SendToPeer and SendHangUp from the signed-in UI.
UserSends(body) ==
    /\ m_State = 3 /\ Len(out) < MaxOut
    /\ Apply(Send(Conn, body))
    /\ UNCHANGED <<busy, connects>>

\* Conductor starts or ends a call with a peer.
BusyChanges ==
    /\ busy' = ~busy
    /\ UNCHANGED <<state_, sock, m_bConnect, m_State, m_ReceivedData, peers_, cred,
                   srv, wire, sent, frames, out, cb, connects>>

\* The server writes one body on the link.
ServerWrites(body, next) ==
    /\ sock = "connected"
    /\ sent' = Append(sent, body) /\ wire' = wire \o Frame(body) /\ srv' = next
    /\ UNCHANGED <<state_, sock, m_bConnect, m_State, m_ReceivedData, peers_, cred, busy,
                   frames, out, cb, connects>>

\* cProtocol_impl answers the StatusRequest and then the LoginInfo.
ServerStatus == srv = "status" /\ Len(out) >= 1 /\ ServerWrites(StatusResponseBody(2, Ip), "login")

ServerLogin ==
    /\ srv = "login" /\ Len(out) >= 2
    /\ \/ ServerWrites(LoginSuccessBody, "work")
       \/ \E r \in Reasons : ServerWrites(LoginDisconnectBody(r), "closed")

WorkBodies ==
    {KeepAliveBody(id) : id \in PingIds} \cup
    {UserInfoBody(id, n, st) : id \in PeerIds, n \in PeerNames, st \in UserStates} \cup
    {MediaBody(p, t) : p \in PeerIds, t \in {-1, 0, 1}} \cup
    {MediaMsgBody(p, m) : p \in PeerIds, m \in Messages \cup {Bye}}

ServerWork ==
    /\ srv = "work" /\ Len(sent) < 2 + MaxWork
    /\ \/ \E b \in WorkBodies : ServerWrites(b, "work")
       \/ \E r \in Reasons : ServerWrites(WorkDisconnectBody(r), "closed")

UserBodies ==
    {MediaBody(p, 0) : p \in PeerIds} \cup {MediaMsgBody(p, m) : p \in PeerIds, m \in Messages}
      \cup {MediaMsgBody(p, Bye) : p \in PeerIds}

Next ==
    \/ \E u, ok \in BOOLEAN : StartLogin(u, ok)
    \/ \E r, ok \in BOOLEAN : OnResolveResult(r, ok)
    \/ OnConnect
    \/ OnClose
    \/ \E k \in 1..MaxChunk : OnRead(k)
    \/ DisconnectFromServer
    \/ \E b \in UserBodies : UserSends(b)
    \/ BusyChanges
    \/ ServerStatus
    \/ ServerLogin
    \/ ServerWork

(* Fairness.  The event loop delivers the resolver's answer, the connect *)
(* event of a connecting socket and every readable byte; the server      *)
(* answers a StatusRequest and a LoginInfo it has received.  OnClose is a *)
(* failure of the network and is not assumed to happen.  Reads are stated *)
(* on the wire alone, as in ServerProtocol.                               *)
SocketRead == sock = "connected" /\ \E k \in 1..MaxChunk : k <= Len(wire) /\ wire' = Drop(wire, k)

Fairness ==
    /\ WF_vars(\E r, ok \in BOOLEAN : OnResolveResult(r, ok))
    /\ WF_vars(OnConnect)
    /\ WF_wire(SocketRead)
    /\ WF_vars(ServerStatus) /\ WF_vars(ServerLogin)

Spec == Init /\ [][Next]_vars /\ Fairness

-----------------------------------------------------------------------------
(* Properties                                                             *)

\* The bodies the client writes: its StatusRequest, LoginInfo, KeepAlive
\* echo, call requests and answers, and messages.
ClientBodies ==
    {StatusRequestBody(AppName, ServerName, Port, 2)} \cup
    {LoginInfoBody(UserName, PassWord), LoginInfoBody(<<>>, <<>>)} \cup
    {KeepAliveBody(id) : id \in PingIds} \cup
    {MediaBody(p, t) : p \in PeerIds, t \in {-1, 0, 1}} \cup
    {MediaMsgBody(p, m) : p \in PeerIds, m \in Messages \cup {Bye}}

\* Type invariant; every body on the client's side of the link has the
\* layout the server's handlers read.
TypeOK ==
    /\ state_ \in States /\ sock \in {"none", "closed", "connecting", "connected"}
    /\ m_bConnect \in BOOLEAN /\ m_State \in {1, 2, 3, 255}
    /\ m_ReceivedData \in Seq(Byte) /\ Len(m_ReceivedData) <= Capacity
    /\ peers_ \subseteq PeerIds /\ cred \in BOOLEAN /\ busy \in BOOLEAN
    /\ srv \in {"status", "login", "work", "closed"} /\ wire \in Seq(Byte)
    /\ sent \in Seq(Seq(Byte)) /\ frames \in Seq(Seq(Byte)) /\ out \in Seq(ClientBodies)
    /\ cb \in Seq({"OnServerConnectionFailure", "OnDisconnected", "PostNotification",
                   "OnSignedIn", "OnPeerConnected", "OnPeerDisconnected",
                   "OnPeerResponse", "OnMessageFromPeer"})
    /\ connects \in 0..MaxConnects

\* Framing of the client's loop: whatever sizes Recv returns, the packets
\* AddReceivedData extracts are the ones the server wrote, in order.
ClientFramesArePrefix ==
    /\ Len(frames) <= Len(sent)
    /\ \A i \in DOMAIN frames : frames[i] = sent[i]

\* Close resets m_State together with m_bConnect: the client is past the
\* status exchange only while its socket is connected.  A handler that
\* signs out (HandleErrorCode) runs inside the packet loop.
StateRequiresConnection == m_State # 1 => m_bConnect /\ sock = "connected"

\* A login attempt ends: once the client is resolving or signing in, it
\* eventually reaches the Work state or is back to NOT_CONNECTED.
LoginEnds ==
    \A s \in {"RESOLVING", "SIGNING_IN"} : state_ = s ~> (m_State = 3 \/ state_ = "NOT_CONNECTED")

\* The observer hears of a sign-out once per login attempt (spec.md 5:
\* the client is notified of the disconnect).
DisconnectNotifiedOnce == Len(SelectSeq(cb, LAMBDA op : op = "OnDisconnected")) <= 1

\* Once signed in, peers_ (what OnSignedIn shows the user) holds only
\* users the server has announced online since this socket was opened.
PeersAreCurrent ==
    m_State = 3 => \A u \in peers_ : \E i \in DOMAIN sent :
        \E n \in PeerNames, st \in UserStates : ~UInt32Gt3(st) /\ sent[i] = UserInfoBody(u, n, st)

=============================================================================
