--------------------------- MODULE ServerProtocol ---------------------------
(***************************************************************************)
(* One server connection: cProtocol_impl (src/Src/Server/Protocol).       *)
(*                                                                         *)
(* The peer writes frames onto a TCP byte stream; the stream reaches the  *)
(* server in chunks of any size, and each chunk is one call of            *)
(* DataReceived, which appends it to m_ReceivedData and then extracts and *)
(* dispatches every complete packet (AddReceivedData).  The handlers read *)
(* their fields from the packet bytes, may change m_State, reply to the   *)
(* peer (out) or call the client handle and the server (calls).  The     *)
(* other threads that use the connection -- the authenticator callback,   *)
(* the keep-alive timer and the relay -- are the remaining actions.       *)
(*                                                                         *)
(* cClientHandle and cServer are not in the sources: Kick is modelled    *)
(* from spec.md (send the disconnect packet, then the link is closed) and *)
(* the relay only targets connections that completed login (spec 4.3:    *)
(* Work is the only state in which relay traffic is valid).              *)
(***************************************************************************)
EXTENDS ByteBuffer, TLC

CONSTANTS
    Catalog,       \* packet bodies the peer may send
    MaxSent,       \* bound on the number of packets the peer sends
    MaxChunk,      \* largest number of bytes one socket read delivers
    Capacity,      \* capacity of m_ReceivedData (64 KiB in the code)
    AppName,       \* the byte string standing for "p2pchat"
    BAD_APP,       \* ERROR_CODE_BAD_APP
    Reasons,       \* reject codes the authenticator may return
    PingIds,       \* keep-alive ids the timer may use
    PeerIds,       \* ids of other clients the relay may forward from
    Codes,         \* media codes the relay may forward
    Messages,      \* media messages the relay may forward
    MaxOut         \* bound on packets sent by the other threads

ASSUME Capacity \in Nat \ {0} /\ MaxChunk \in Nat \ {0} /\ MaxSent \in Nat

VARIABLES
    m_State,        \* 1 status, 2 login, 3 work, 255 ignore
    m_ReceivedData, \* bytes received and not yet consumed
    wire,           \* bytes the peer has written that have not arrived
    sent,           \* bodies the peer has written (history)
    frames,         \* bodies AddReceivedData has extracted (history)
    out,            \* packets sent to the peer, in order
    calls,          \* calls into the client handle and the server, in order
    kicked,         \* the client handle kicked the connection
    halted,         \* the last pass stopped on a packet it could not handle
    atKick,         \* <<m_State, #out, #calls>> just after the kick (history)
    authAnswered    \* HandleLogin calls the authenticator has answered

vars == <<m_State, m_ReceivedData, wire, sent, frames, out, calls, kicked,
          halted, atKick, authAnswered>>

-----------------------------------------------------------------------------
(* The connection as one record, so that the packet loop can thread it.   *)

Conn == [st |-> m_State, buf |-> m_ReceivedData, frames |-> frames, out |-> out,
         calls |-> calls, kicked |-> kicked, halted |-> halted, atKick |-> atKick]

Apply(c) ==
    /\ m_State' = c.st
    /\ m_ReceivedData' = c.buf
    /\ frames' = c.frames
    /\ out' = c.out
    /\ calls' = c.calls
    /\ kicked' = c.kicked
    /\ halted' = c.halted
    /\ atKick' = c.atKick

Send(c, kind, type, args) ==
    [c EXCEPT !.out = Append(@, [kind |-> kind, type |-> type, args |-> args])]

Call(c, op, args) == [c EXCEPT !.calls = Append(@, [op |-> op, args |-> args])]

\* SendDisconnect: only Login and Work have a disconnect packet.
SendDisconnect(c, reason) ==
    CASE c.st = 2 -> Send(c, "LoginDisconnect", 0, <<reason>>)
      [] c.st = 3 -> Send(c, "WorkDisconnect", 64, <<reason>>)
      [] OTHER    -> c

\* cClientHandle::Kick (not in the sources): disconnect packet, link closed.
Kicked(c) == [c EXCEPT !.kicked = TRUE, !.atKick = <<c.st, Len(c.out), Len(c.calls)>>]
Kick(c, reason) == Kicked(Call(SendDisconnect(c, reason), "Kick", <<reason>>))

-----------------------------------------------------------------------------
(* Packet handlers.  Each returns the connection and the unread bytes.    *)

\* Variants with a plausible bug, each placed before the definition it
\* replaces; a property that no variant violates says nothing.
\* Variant: the state test admits 3, the Work state.
CheckStatusAllowsWork(c, app, state) ==
    IF app # AppName \/ state < 1 \/ state > 3
    THEN Kick(c, BAD_APP)
    ELSE Send([c EXCEPT !.st = state], "StatusResponse", 0, <<state>>)

\* HandlePacketStatusRequest after its four reads: check the application
\* and the requested state, then switch state and answer.
CheckStatus(c, app, state) ==
    IF app # AppName \/ state < 1 \/ state > 2
    THEN Kick(c, BAD_APP)
    ELSE Send([c EXCEPT !.st = state], "StatusResponse", 0, <<state>>)

StatusRequestRead(c, r) ==
    [rest |-> r.rest, c |-> IF r.ok THEN CheckStatus(c, r.vals[1], r.vals[4]) ELSE c]

HandlePacketStatusRequest(c, bb) ==
    StatusRequestRead(c, HandleReads(<<"str", "str", "be32", "be32">>, bb))

\* A handler whose effect is one reply (Ping) or one call into the client
\* handle or the server, made only when every read succeeded.
SendAfterReads(c, r, kind, type) ==
    [rest |-> r.rest, c |-> IF r.ok THEN Send(c, kind, type, r.vals) ELSE c]

CallAfterReads(c, r, op) ==
    [rest |-> r.rest, c |-> IF r.ok THEN Call(c, op, r.vals) ELSE c]

HandlePacketStatusPing(c, bb) == SendAfterReads(c, HandleReads(<<"be64">>, bb), "Pong", 1)

HandlePacketLoginInfo(c, bb) == CallAfterReads(c, HandleReads(<<"str", "str">>, bb), "HandleLogin")

HandlePacketKeepAlive(c, bb) == CallAfterReads(c, HandleReads(<<"var">>, bb), "HandleKeepAlive")

HandlePacketMedia(c, bb) == CallAfterReads(c, HandleReads(<<"var", "var">>, bb), "ForwardMedia")

HandlePacketMediaMsg(c, bb) ==
    CallAfterReads(c, HandleReads(<<"var", "str">>, bb), "ForwardMediaMsg")

\* The dispatch table of HandlePacket: (state, packet type) -> handler.
Dispatch ==
    (<<1, 0>> :> "StatusRequest") @@ (<<1, 1>> :> "StatusPing") @@
    (<<2, 0>> :> "LoginInfo") @@ (<<3, 0>> :> "KeepAlive") @@
    (<<3, 17>> :> "Media") @@ (<<3, 18>> :> "MediaMsg")

RunHandler(h, c, bb) ==
    CASE h = "StatusRequest" -> HandlePacketStatusRequest(c, bb)
      [] h = "StatusPing"    -> HandlePacketStatusPing(c, bb)
      [] h = "LoginInfo"     -> HandlePacketLoginInfo(c, bb)
      [] h = "KeepAlive"     -> HandlePacketKeepAlive(c, bb)
      [] h = "Media"         -> HandlePacketMedia(c, bb)
      [] h = "MediaMsg"      -> HandlePacketMediaMsg(c, bb)

Handled(r) == [ok |-> TRUE, c |-> r.c, rest |-> r.rest]

\* HandlePacket: FALSE for a packet the current state does not know; an
\* unknown type in a known state is reported to the client handle.
HandlePacket(c, bb, type) ==
    IF <<c.st, type>> \in DOMAIN Dispatch
    THEN Handled(RunHandler(Dispatch[<<c.st, type>>], c, bb))
    ELSE [ok |-> FALSE, rest |-> bb,
          c |-> CASE c.st \in {1, 2, 3} -> Call(c, "PacketUnknown", <<type>>)
                  [] c.st = 255         -> c
                  [] OTHER              -> [c EXCEPT !.st = 255]]

-----------------------------------------------------------------------------
(* The for (;;) of AddReceivedData after the write, one operator per      *)
(* stage of an iteration.  A pass ends with halted FALSE when it waits for *)
(* more bytes and TRUE when it stopped at a packet it could not handle.    *)

RECURSIVE ProcessPackets(_), ReadPacketLen(_, _), ReadPacket(_, _, _),
          CommitPacket(_, _, _), DispatchPacket(_, _, _), AfterHandle(_, _)

\* ReadVarInt(PacketLen): not enough data, ResetRead and break.
ReadPacketLen(c, n) ==
    IF n \notin 1..5 THEN [c EXCEPT !.halted = FALSE]
    ELSE ReadPacket(c, n, VarIntValue(c.buf, n))

\* Variant: no ResetRead when the body is incomplete (the length is lost).
ReadPacketNoRewind(c, n, len) ==
    IF len < 0 \/ Len(c.buf) - n < len THEN [c EXCEPT !.halted = FALSE, !.buf = Drop(c.buf, n)]
    ELSE CommitPacket(c, n, SubSeq(c.buf, n + 1, n + len))

\* CanReadBytes(PacketLen): the body is incomplete, ResetRead and break.
ReadPacket(c, n, len) ==
    IF len < 0 \/ Len(c.buf) - n < len THEN [c EXCEPT !.halted = FALSE]
    ELSE CommitPacket(c, n, SubSeq(c.buf, n + 1, n + len))

\* ReadToByteBuffer and CommitRead, then bb.ReadVarInt(PacketType).
CommitPacket(c, n, body) ==
    DispatchPacket([c EXCEPT !.buf = Drop(c.buf, n + Len(body)), !.frames = Append(@, body)],
                   body, VarIntLen(body))

\* No type: break.  Else HandlePacket on the rest of the body and a NUL.
DispatchPacket(c, body, tn) ==
    IF tn \notin 1..5 THEN [c EXCEPT !.halted = TRUE]
    ELSE AfterHandle(HandlePacket(c, Drop(body, tn) \o <<0>>, VarIntValue(body, tn)),
                     VarIntValue(body, tn))

\* Variant: one packet per DataReceived instead of the for (;;).
AfterHandleOnce(r, type) ==
    IF ~r.ok THEN [r.c EXCEPT !.halted = TRUE]
    ELSE IF Len(r.rest) # 1 THEN [Call(r.c, "PacketError", <<type>>) EXCEPT !.halted = FALSE]
    ELSE [r.c EXCEPT !.halted = FALSE]

\* HandlePacket false: return.  A handler that did not read exactly the
\* body reports PacketError; the loop goes on either way.
AfterHandle(r, type) ==
    IF ~r.ok THEN [r.c EXCEPT !.halted = TRUE]
    ELSE IF Len(r.rest) # 1 THEN ProcessPackets(Call(r.c, "PacketError", <<type>>))
    ELSE ProcessPackets(r.c)

ProcessPackets(c) == ReadPacketLen(c, VarIntLen(c.buf))

\* AddReceivedData: a write beyond the capacity drops the data.
AddReceivedData(c, data) ==
    IF Len(c.buf) + Len(data) > Capacity
    THEN Call(c, "PacketBufferFull", <<>>)
    ELSE ProcessPackets([c EXCEPT !.buf = @ \o data])

-----------------------------------------------------------------------------
(* Sends made on behalf of the other threads.                             *)

\* Variant: the m_State != 3 check of SendKeepAlive is missing.
SendKeepAliveUnguarded(c, id) == Send(c, "KeepAlive", 0, <<id>>)

SendKeepAliveOp(c, id) == IF c.st # 3 THEN c ELSE Send(c, "KeepAlive", 0, <<id>>)

SendLoginSuccessOp(c) == [Send(c, "LoginSuccess", 1, <<>>) EXCEPT !.st = 3]

BroadcastUserInfoOp(c, id, state) == Send(c, "UserInfo", 1, <<id, state>>)

ForwardMediaOp(c, from, type) == Send(c, "Media", 17, <<from, type>>)

\* Variant: ForwardMediaMsg copied from ForwardMedia with its id 0x11.
ForwardMediaMsgWrongId(c, from, msg) == Send(c, "MediaMsg", 17, <<from, msg>>)

ForwardMediaMsgOp(c, from, msg) == Send(c, "MediaMsg", 18, <<from, msg>>)

-----------------------------------------------------------------------------
(* Actions                                                                *)

Init ==
    /\ m_State = 1
    /\ m_ReceivedData = <<>>
    /\ wire = <<>>
    /\ sent = <<>>
    /\ frames = <<>>
    /\ out = <<>>
    /\ calls = <<>>
    /\ kicked = FALSE
    /\ halted = FALSE
    /\ atKick = <<>>
    /\ authAnswered = 0

\* The peer writes one packet onto the stream.
PeerSends(body) ==
    /\ Len(sent) < MaxSent
    /\ sent' = Append(sent, body)
    /\ wire' = wire \o Frame(body)
    /\ UNCHANGED <<m_State, m_ReceivedData, frames, out, calls, kicked, halted, atKick,
                   authAnswered>>

\* A socket read delivers the next k bytes: DataReceived(data, k).
DataReceived(k) ==
    /\ ~kicked
    /\ k <= Len(wire)
    /\ Apply(AddReceivedData(Conn, SubSeq(wire, 1, k)))
    /\ wire' = Drop(wire, k)
    /\ UNCHANGED <<sent, authAnswered>>

LoginsPending == Len(SelectSeq(calls, LAMBDA e : e.op = "HandleLogin")) - authAnswered

\* The authenticator accepts a login: cServer::AuthenticateUser ends in
\* SendLoginSuccess on this connection.
SendLoginSuccess ==
    /\ ~kicked
    /\ LoginsPending > 0
    /\ Apply(SendLoginSuccessOp(Conn))
    /\ authAnswered' = authAnswered + 1
    /\ UNCHANGED <<wire, sent>>

\* The authenticator rejects a login: cServer::KickUser kicks the client.
KickUser(reason) ==
    /\ ~kicked
    /\ LoginsPending > 0
    /\ Apply(Kick(Conn, reason))
    /\ authAnswered' = authAnswered + 1
    /\ UNCHANGED <<wire, sent>>

\* The keep-alive timer of the client handle.
SendKeepAlive(id) ==
    /\ ~kicked /\ Len(out) < MaxOut
    /\ Apply(SendKeepAliveOp(Conn, id))
    /\ UNCHANGED <<wire, sent, authAnswered>>

\* Sends of the server and the relay to a connection in its registry.
Relay(c2) ==
    /\ ~kicked /\ Len(out) < MaxOut /\ m_State = 3
    /\ Apply(c2)
    /\ UNCHANGED <<wire, sent, authAnswered>>

Next ==
    \/ \E b \in Catalog : PeerSends(b)
    \/ \E k \in 1..MaxChunk : DataReceived(k)
    \/ SendLoginSuccess
    \/ \E r \in Reasons : KickUser(r)
    \/ \E id \in PingIds : SendKeepAlive(id)
    \/ \E p \in PeerIds, s \in {0, 4} : Relay(BroadcastUserInfoOp(Conn, p, s))
    \/ \E p \in PeerIds, t \in Codes : Relay(ForwardMediaOp(Conn, p, t))
    \/ \E p \in PeerIds, m \in Messages : Relay(ForwardMediaMsgOp(Conn, p, m))

\* The event loop calls DataReceived whenever bytes are readable.  Only
\* DataReceived consumes the wire, so weak fairness of a read of the wire
\* is weak fairness of DataReceived; it is stated on the wire alone because
\* TLC cannot decide enabledness of the packet loop in reasonable time.
SocketRead == ~kicked /\ \E k \in 1..MaxChunk : k <= Len(wire) /\ wire' = Drop(wire, k)
Fairness == WF_wire(SocketRead)

Spec == Init /\ [][Next]_vars /\ Fairness

-----------------------------------------------------------------------------
(* Properties                                                             *)

\* The packet id of every packet kind the server sends (spec.md 6).
PacketId ==
    [StatusResponse |-> 0, Pong |-> 1, LoginDisconnect |-> 0, LoginSuccess |-> 1,
     KeepAlive |-> 0, UserInfo |-> 1, Media |-> 17, MediaMsg |-> 18, WorkDisconnect |-> 64]

\* Type invariant; every packet the server sends carries its kind's id.
TypeOK ==
    /\ m_State \in {1, 2, 3, 255}
    /\ m_ReceivedData \in Seq(Byte) /\ Len(m_ReceivedData) <= Capacity
    /\ wire \in Seq(Byte)
    /\ sent \in Seq(Catalog) /\ Len(sent) <= MaxSent
    /\ frames \in Seq(Seq(Byte))
    /\ \A i \in DOMAIN out : out[i].kind \in DOMAIN PacketId
                             /\ out[i].type = PacketId[out[i].kind]
    /\ \A i \in DOMAIN calls : calls[i].op \in
         {"Kick", "HandleLogin", "HandleKeepAlive", "ForwardMedia", "ForwardMediaMsg",
          "PacketUnknown", "PacketError", "PacketBufferFull"}
    /\ kicked \in BOOLEAN /\ halted \in BOOLEAN
    /\ atKick \in {<<>>} \cup ({1, 2, 3, 255} \X Nat \X Nat)
    /\ authAnswered \in 0..Len(calls)

\* Framing: whatever sizes the socket reads have, AddReceivedData extracts
\* exactly the packets the peer wrote, in order, each with its own bytes:
\* the extracted packets are always a prefix of the written ones.
FramesArePrefix ==
    /\ Len(frames) <= Len(sent)
    /\ \A i \in DOMAIN frames : frames[i] = sent[i]

\* Progress of AddReceivedData: once the stream has been delivered, every
\* written packet is extracted, unless a pass stopped at a packet the
\* protocol state could not handle and no byte arrived after it.
FramesEventuallyExtracted == <>[](Len(frames) = Len(sent) \/ halted \/ kicked)

\* SendKeepAlive drops the packet before Work ("caused a client crash"):
\* no Work packet reaches the peer ahead of LoginSuccess, where the
\* client would read the KeepAlive (0x00) as a login disconnect.
WorkKinds == {"KeepAlive", "UserInfo", "Media", "MediaMsg", "WorkDisconnect"}
NoWorkPacketBeforeLoginSuccess ==
    \A i \in DOMAIN out :
        out[i].kind \in WorkKinds => \E j \in 1..(i - 1) : out[j].kind = "LoginSuccess"

\* Authentication cannot be skipped: the connection is in Work only after
\* the authenticator accepted a login and LoginSuccess was sent, even for
\* a peer whose StatusRequest asks for state 3 directly.
WorkOnlyAfterLogin ==
    m_State = 3 => \E i \in DOMAIN out : out[i].kind = "LoginSuccess"

\* spec.md 4.3: a StatusRequest with a bad application disconnects the
\* client; nothing it sent after it may change the connection's state,
\* draw a reply or reach the client handle.
KickIsFinal == kicked => atKick = <<m_State, Len(out), Len(calls)>>

=============================================================================
