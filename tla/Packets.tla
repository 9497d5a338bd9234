------------------------------ MODULE Packets ------------------------------
(***************************************************************************)
(* Packet bodies as the peers put them on the wire, and the framing that  *)
(* cPacketizer applies.  A body is the varint packet type followed by the *)
(* fields; a frame is the varint body length followed by the body.        *)
(* Strings are abstracted to short byte strings (an application name,    *)
(* a user name, a message); integers keep their 32-bit encoding.         *)
(***************************************************************************)
EXTENDS VarInt

\* cPacketizer destructor -> SendPacket: [varint length][type][fields].
Frame(body) == VarIntEncode(Len(body)) \o body

\* PeerConnectionClient::OnConnect: StatusRequest (0x00) with the
\* application name, the server name, the port and the requested state.
StatusRequestBody(app, server, port, state) ==
    VarIntEncode(0) \o StrEncode(app) \o StrEncode(server)
      \o BE32Encode(port) \o BE32Encode(state)

\* StatusPing (0x01) carries an int64 timestamp, high word first.  The
\* client sends none (its handler is commented out); spec.md section 6.
StatusPingBody(hi, lo) == VarIntEncode(1) \o BE32Encode(hi) \o BE32Encode(lo)

\* PeerConnectionClient::HandlePacketStatusRequest: LoginInfo (0x00).
LoginInfoBody(user, pass) == VarIntEncode(0) \o StrEncode(user) \o StrEncode(pass)

\* PeerConnectionClient::HandlePacketKeepAlive: the KeepAlive echo (0x00).
KeepAliveBody(id) == VarIntEncode(0) \o VarIntEncode(id)

\* RequestToPeer and the answer in HandlePacketMedia: Media (0x11) with
\* the peer id and the code (0 request, 1 accept, -1 busy).
MediaBody(peer, code) == VarIntEncode(17) \o VarIntEncode(peer) \o VarIntEncode(code)

\* SendToPeer: MediaMsg (0x12) with the peer id and the message string.
MediaMsgBody(peer, msg) == VarIntEncode(18) \o VarIntEncode(peer) \o StrEncode(msg)

(* The bodies the server writes (cProtocol_impl).  Its KeepAlive, Media   *)
(* and MediaMsg have the shapes of the client's bodies above.             *)

\* HandlePacketStatusRequest: the answer (0x00) with the new state and the
\* peer's address.
StatusResponseBody(state, ip) == VarIntEncode(0) \o BE32Encode(state) \o StrEncode(ip)

\* SendLoginSuccess: LoginSuccess (0x01) has no fields.
LoginSuccessBody == VarIntEncode(1)

\* SendDisconnect: 0x00 with the reason in Login, 0x40 in Work.
LoginDisconnectBody(reason) == VarIntEncode(0) \o BE32Encode(reason)

WorkDisconnectBody(reason) == VarIntEncode(64) \o BE32Encode(reason)

\* BroadcastUserInfo: UserInfo (0x01) with the user's id, name and state.
UserInfoBody(id, name, state) ==
    VarIntEncode(1) \o VarIntEncode(id) \o StrEncode(name) \o VarIntEncode(state)

=============================================================================
