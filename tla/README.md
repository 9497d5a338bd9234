# P2PChat: TLA+ models of the packet protocol and the authentication pipeline

This directory holds TLA+ models of the P2PChat sources under `src/`.
They cover the server's per-connection protocol engine, the wire codecs it
shares with the client, and the server's authentication worker. TLC checks
each model under the configurations listed below.

## 1. The system

P2PChat has a central server and a Windows client. They exchange
length-prefixed, varint-framed packets over TCP. Both ends run a mirrored
protocol state machine: 1 Status, 2 Login, 3 Work, and 255 Ignore.

| Part | Source | State | Operations |
|---|---|---|---|
| Framed buffer and codecs | `cByteBuffer`, `cPacketizer` (headers not in `src/`) | read and write positions | `WriteVarInt32`, `ReadVarInt`, `Read/WriteBEInt32`, `Read/WriteVarUTF8String`, `ResetRead`, `CommitRead` |
| Server protocol | `Server/Protocol/cProtocol_impl.cpp` | `m_State`, `m_ReceivedData` | `DataReceived`/`AddReceivedData` (the packet loop), `HandlePacket`, six handlers, `SendKeepAlive`, `SendLoginSuccess`, `SendDisconnect`, `BroadcastUserInfo`, `ForwardMedia`, `ForwardMediaMsg` |
| Authentication pipeline | `Server/Protocol/Authenticator.cpp` | `m_Queue`, `m_CS`, `m_QueueNonempty`, `m_ShouldTerminate` | `Authenticate`, the `Execute` worker loop, `Stop`, `AuthFromDBPoll` |
| Client handle, registry, relay | `cClientHandle`, `cServer`, `cRoot` (only `Server.h` in `src/`) | the client list | `Kick`, `HandleLogin`, `AuthenticateUser`, `KickUser`, `ForwardMedia`, `ForwardMediaMsg`, `BroadcastUserInfo` |
| Client protocol | `Client/peer_connection_client.cpp` | `m_State`, `state_`, `m_ReceivedData`, `peers_` | `OnConnect`, `OnRead`/`AddReceivedData`, `HandlePacket`, the handlers, `RequestToPeer`, `SendToPeer`, `SignOut`, `Close` |
| Call logic | `Client/conductor.cpp` | `peer_id_`, `peer_connection_`, `pending_messages_` | `IsBusy`, `OnPeerResponse`, `OnMessageFromPeer`, `OnPeerDisconnected`, `DisconnectFromCurrentPeer`, `UIThreadCallback` |
| GUI, entry point, helpers | `MainFrame.h`, `main.cpp`, `func.cpp` | windows | not modelled: layout and string conversion only |

### How the parts interact

1. The client connects and `OnConnect` sends StatusRequest with `"p2pchat"`
   and next state 2.
2. The server's `HandlePacketStatusRequest` checks the application and the
   state, moves to state 2 and answers. If either check fails, it kicks the
   client.
3. The client answers with LoginInfo.
4. The server's `HandlePacketLoginInfo` hands the credentials to
   `cClientHandle::HandleLogin`, which queues them on the `cAuthenticator`.
5. The worker thread answers with `cRoot::AuthenticateUser`, which ends in
   `SendLoginSuccess` and state 3, or with `cRoot::KickUser`.
6. In Work, the server's keep-alive timer sends KeepAlive, and the client
   echoes it.
7. Calls are negotiated with Media packets (0x11). The code is 0 for a
   request, 1 to accept and -1 for busy.
8. Hang-ups travel as MediaMsg (0x12) with `"BYE"`. The server relays both
   kinds of packet to the peer id named in the packet.

Several threads touch the server side:

- The network thread runs `AddReceivedData`.
- The authenticator worker runs `AuthFromDBPoll` and the callbacks it makes.
- The tick thread sends keep-alives.
- Other connections' network threads run the relay sends.

### Hard behaviours, by part

- **Framing:**
  - a TCP read may end anywhere, including inside the length varint;
  - one read may hold several packets;
  - a packet may be of zero length, or longer than its fields;
  - a handler may kick the client in the middle of a read.
- **Protocol state:**
  - the peer chooses the next state it asks for;
  - the timer thread may send while the connection is still in Status or Login;
  - an unknown type stops the current pass only.
- **Authenticator:**
  - producer and consumer race on one queue;
  - the lock is released before the slow check;
  - a wake-up may be lost between the unlock and the wait;
  - the stop flag is written without the lock;
  - the join must complete;
  - the result is a bool compared with an error code.
- **Client and Conductor:**
  - a full receive buffer drops data silently;
  - `HandleErrorCode` calls `OnDisconnected` twice and clears the buffer
    while the loop still runs;
  - `IsBusy` does not count a call that has been accepted but not yet
    established;
  - a late message after a hang-up re-creates a peer connection.

## 2. Modules

| Module | Models | Kind |
|---|---|---|
| `VarInt` | the codecs of `cByteBuffer`: `VarIntEncode`, `VarIntLen`, `VarIntValue`, `BE32Encode`, `BE32Value`, `StrEncode` | pure operators, modelled from spec.md 4.1 because the header is not in `src/` |
| `Packets` | the packet bodies the client writes (`OnConnect`, `HandlePacketStatusRequest`, `HandlePacketKeepAlive`, `HandlePacketMedia`, `SendToPeer`), the bodies the server writes (`HandlePacketStatusRequest`, `SendLoginSuccess`, `SendDisconnect`, `BroadcastUserInfo`) and the framing of `SendPacket` | pure operators |
| `ByteBuffer` | the field readers of `cByteBuffer` and the `HANDLE_READ` macro, shared by both ends | pure operators |
| `ServerProtocol` | one server connection, `cProtocol_impl` | state machine |
| `ClientProtocol` | the client's link to the server, `PeerConnectionClient` | state machine with the server as environment |
| `AuthQueue` | what the authentication pipeline promises: one FIFO queue served by one worker that stops on a flag, taking at most one request after it | abstract specification |
| `Authenticator` | `cAuthenticator`, shown to implement `AuthQueue` | state machine of two threads, with a refinement mapping |
| `Conductor` | `Conductor`'s call set-up, hang-up and sign-out, with the Media, MediaMsg and UserInfo handlers of both ends and the relay | state machine of several clients |
| `MC_ServerProtocol`, `MC_Authenticator`, `MC_ClientProtocol`, `MC_Conductor` | instantiations for TLC | model-checking modules |

### ServerProtocol

State:

- `m_State` and `m_ReceivedData` are the class members.
- `wire` is the part of the TCP stream the peer has written that has not yet
  been read.
- `out` holds the packets sent to the peer (kind, id, fields).
- `calls` holds the calls into `cClientHandle` and `cServer`, in order.
- `kicked` records that the client handle kicked the connection.
- History variables: `sent` (the bodies the peer wrote) and `frames` (the
  bodies `AddReceivedData` extracted). The checks compare these two.

The connection is threaded through the packet loop as one record, `Conn`.
`Apply` writes the record back.

- **Packet loop.** `ProcessPackets` is the `for (;;)` of `AddReceivedData`:
  - a read of the length varint that fails, or a body that is not yet
    complete, rewinds and stops;
  - otherwise it commits the bytes;
  - a body without a type stops;
  - otherwise it calls `HandlePacket` on the body plus the NUL byte the code
    appends;
  - it stops on `false`;
  - it reports `PacketError` when the handler left more or less than that
    NUL byte.
- **Handlers and dispatch.** Each handler is its run of `HANDLE_READ` lines
  (`HandleReads`) followed by its effect. `Dispatch` is the table of
  `HandlePacket`.
- **Other threads.** Each is an action:
  - `SendLoginSuccess` / `KickUser`: the authenticator answering a queued
    `HandleLogin`;
  - `SendKeepAlive`: the timer;
  - `Relay`: `BroadcastUserInfo`, `ForwardMedia` and `ForwardMediaMsg`
    called by other connections.
- **The peer.** `PeerSends` appends a body from `Catalog` to the wire, and
  `DataReceived(k)` delivers the next k bytes. Every split of the stream is
  therefore explored.

### ClientProtocol

State: the members `state_`, `m_bConnect`, `m_State`, `m_ReceivedData`,
`peers_` (the ids only), and `cred` for whether `m_strUserName` and
`m_strPassWord` are set. `sock` is the state of `control_socket_`
("none" before the first `DoConnect`). `busy` is `Conductor::IsBusy`.
`cb` lists the observer calls since the last `Connect`. Per socket, `srv`,
`wire` and `sent` are the server's side, and `out` holds the bodies the
client sent.

- **Operations** are operators on the client record, composed as in the
  code. `SignOut` closes at once on a connected socket (and calls
  `OnDisconnected`) and otherwise waits in `SIGNING_OUT_WAITING`. `Close`
  resets the socket, state, flag, buffer and `m_State`, but not `peers_`.
  `HandleErrorCode` is `SignOut`, then `OnDisconnected` and the
  notification.
- **Packet loop.** This is the same stage structure as the server, with the
  client's differences:
  - a chunk that does not fit is dropped silently;
  - an unhandled packet returns from `AddReceivedData`;
  - a wrong read count is only an `ASSERT`.
- **Actions:**
  - `StartLogin`: `Conductor::StartLogin` and `Connect`, with a resolved or
    unresolved address and a `ConnectControlSocket` that succeeds or fails;
  - `OnResolveResult`, `OnConnect`, `OnClose` (the network or the server
    closing), and `OnRead(k)` for one `Recv` of k bytes;
  - `DisconnectFromServer`, `UserSends` (`RequestToPeer`, `SendToPeer`,
    `SendHangUp`) and `BusyChanges`.
- **The server** follows `cProtocol_impl`'s order:
  - `ServerStatus` answers the StatusRequest with state 2;
  - `ServerLogin` answers the LoginInfo with LoginSuccess or a
    LoginDisconnect (a kick);
  - `ServerWork` writes KeepAlive, UserInfo, Media, MediaMsg or a
    WorkDisconnect.

### Authenticator

- Submissions:
  - `Authenticate` is one step under `m_CS`, because the network thread
    holds the lock only inside it.
- The worker is a program counter over `Execute`:
  - `WorkerLock` is `cCSLock`;
  - `WorkerIdle` is the `while` test, `cCSUnlock` and the start of the wait;
  - `WorkerWake` is `Wait` returning;
  - `WorkerRelock` is the destructor of `cCSUnlock`;
  - `WorkerTest` leaves the `while` and makes the terminate test at line
    88, returning (and unlocking) when the flag is set;
  - `WorkerTake` is the pop and `Unlock` at lines 94-99. `Stop` writes
    the flag without `m_CS`, so the flag can be set between the two
    steps, and the worker then takes one more request (`lateTakes`
    counts these);
  - `WorkerAnswer` is `AuthFromDBPoll` and the callback.
- `Stop` is `StopSetFlag`, `StopSignal` and `StopJoin`.
- `m_QueueNonempty` is the flag `ev`. A cEvent keeps a `Set` until a `Wait`
  consumes it.
- `ErrorCode.h` is not in `src/`, so the two error codes are state chosen in
  `Init` from the candidate values a configuration lists.
- Refinement. `AuthQueue` says what the pipeline promises without threads,
  locks or events: `Submit` appends to a FIFO queue; `Take` moves its head
  to the worker only when the worker is idle, and at most once after the
  flag is set;
  `Reply` answers the request in hand; `Stop` sets the flag; `Finish`
  ends the worker once nothing it took is unanswered, leaving the queue.
  `Authenticator` implements it under the mapping `AQ`:
  - `pending` is `m_Queue`;
  - `taken` is the prefix of the submitted requests that has left the
    queue;
  - `replied` is the number of answers;
  - `stopped` is `m_ShouldTerminate`;
  - `late` is `lateTakes`;
  - `finished` is the worker having returned.
  The lock, wait and relock steps map to stuttering steps.

### Conductor

Every client starts signed in; the model is about what happens between two
`Conductor`s once they exchange Media (0x11) and MediaMsg (0x12) packets,
and when one of them signs out.

- State, per client:
  - `peer_` is `peer_id_` (`None` for -1);
  - `pc` is `peer_connection_`: `"none"`, or the signaling state of the
    WebRTC PeerConnection. The library is not in `src/`; its JSEP states
    are abstracted to `"new"` (created, no description applied), `"offer"`
    (local offer set by `OnSuccess`), `"answer"` (remote offer applied and
    answer set) and `"stable"` (remote answer applied). A description that
    is not valid in the current state fails and changes nothing
    (`RemoteDesc`).
  - `gather` is an ICE gathering the PeerConnection has not finished;
  - `uiq` is the UI thread's queue (`QueueUIThreadCallback`);
  - `up` and `down` are the FIFO streams to and from the server;
  - `online` is a connected control socket, and `registered` is the
    server still holding the client in its registry;
  - `initFails` counts the failed `InitializePeerConnection` calls.
- Helpers: `DeletePeerConnection`, `OnDisconnected` (which calls it),
  `SignOut` (socket closed, then `OnDisconnected`), `SendMessage` (queue
  `SEND_MESSAGE_TO_PEER`), `Write` (`SendData`, which drops a packet
  while not connected), and `InitializeOutcomes`/`InitializeFails`:
  `CreatePeerConnectionFactory` succeeds, or fails (a bounded fault of
  the WebRTC library); then the method shows a message box, calls
  `DeletePeerConnection` and returns false.
- Actions:
  - `ConnectToPeer(x, y)`: the user picks `y` from the peer list;
    `RequestToPeer` writes Media(y, 0).
  - `Relay(x)`: the server reads the head of `x`'s stream and forwards it
    with `x` as the id (`ForwardMedia`, `ForwardMediaMsg`), or drops it
    when the id is not a signed-in client (spec.md 5).
  - `Receive(x)`: `HandlePacketMedia` and `HandlePacketMediaMsg`, with
    the Conductor callback each one makes: `AnswerRequest` (the `IsBusy`
    answer), `OnPeerResponse`, `OnPeerDisconnected` (for `BYE`, in
    `ByeReceived`), `OnMessageFromPeer`, and `HandlePacketUserInfo`'s
    offline branch, which also calls `OnPeerDisconnected` (`UserInfo`).
    A failed initialization in `OnPeerResponse` only shows a message box.
    In `OnMessageFromPeer`, where `peer_id_` was already set, it signs
    out: the rest of the input is dropped, and no BYE is sent.
  - `GatheringComplete(x)`: `OnIceGatheringChange(complete)` reads the
    local description and `SendMessage` queues `SEND_MESSAGE_TO_PEER`.
  - `UIThreadCallback(x)`: `PEER_CONNECTION_CLOSED` deletes the
    PeerConnection; `SEND_MESSAGE_TO_PEER` sends to the `peer_id_` of that
    moment, then resets `peer_id_` if there is no PeerConnection.
    `pending_messages_` never holds more than the message just queued,
    because `IsSendingMessage` needs `state_ == CONNECTED`, which
    `PeerConnectionClient` never sets.
  - `DisconnectFromCurrentPeer(x)`: the user hangs up; `SendHangUp` and
    `DeletePeerConnection`.
  - `DisconnectFromServer(x)`: the user signs out. `SignOut` closes the
    socket, and `Close` drops the unread input. `OnDisconnected` deletes
    the PeerConnection, and no BYE is sent. Writes after this are dropped
    by `SendData` (`Write`).
  - `ServerRemoves(x)`: the server handles the closed connection after
    the bytes written before it. It removes `x` from the registry and
    sends every signed-in client a UserInfo with an offline state.
    `cServer` is not in `src/`, so this is modelled from spec.md 3 and 5.
  - `SignIn(x)`: `StartLogin` again once the server has let go of the old
    connection. The login exchange itself is `ClientProtocol`'s. The server
    gives every connection a new id, so nothing addressed to the old
    session reaches the new one. The model names a client by one value, so
    `OldSessionForgotten` lets it sign in only when no `peer_id_` and no
    packet on the way still names it.
  - `LinkDrop(x)`: `OnClose`, the link failing. The socket closes and
    `Close` drops the unread input. What `x` wrote may or may not have
    reached the server. Only `OnServerConnectionFailure` is called, so
    the PeerConnection and `peer_id_` stay. The server then handles the
    closed connection as after a sign-out (`ServerRemoves`).
- `MaxCalls`, `MaxHangUps`, `MaxSignOuts`, `MaxLinkDrops` and
  `MaxInitFailures` bound the users' actions and the faults.

## 3. Runs

| Run | Config | Expect | What it shows |
|---|---|---|---|
| server_protocol | `ServerProtocol.cfg` on `MC_ServerProtocol` | pass | See below. |
| kick_is_final | `ServerProtocol_KickIsFinal.cfg` | violation | A StatusRequest with a bad application is followed in the same read by another packet. After `Kick`, the loop of `AddReceivedData` still dispatches that packet. The same path lets a later good StatusRequest change the state and draw a reply. |
| client_protocol | `ClientProtocol.cfg` on `MC_ClientProtocol` | pass | See below. |
| client_disconnect_once | `ClientProtocol_DisconnectNotifiedOnce.cfg` | violation | The server rejects the login. `HandleErrorCode` calls `SignOut`, which calls `OnDisconnected`, and then calls `OnDisconnected` again. |
| client_stale_peers | `ClientProtocol_PeersAreCurrent.cfg` | violation | A user is announced online. The link drops and the user logs in again. `Close` never cleared `peers_`, so the new session shows the old user although the server has not announced them again. |
| client_buffer_full | `ClientProtocol_BufferFull.cfg` | violation | Capacity 16 and chunk 15 stand for 64 KiB and the 0xffff `Recv` buffer. Two bytes of a split packet are buffered, and the next 15-byte chunk does not fit. It is dropped silently, and the next read is misframed. |
| authenticator | `Authenticator.cfg` on `MC_Authenticator` | pass | See below. |
| conductor_hangup | `Conductor.cfg` on `MC_Conductor` | pass | See below. |
| conductor_late_answer | `Conductor_LateAnswer.cfg` | violation | `a` calls `b` and hangs up while its offer is on the way. `b` applies the offer and sends its answer before it handles the BYE. The answer reaches `a` after `DeletePeerConnection`; `OnMessageFromPeer` creates a new PeerConnection bound to `b`, the answer fails on it, and `a` stays busy with a call nobody answers, so `CallSettles` fails. |
| conductor_link_drop | `Conductor_LinkDrop.cfg` | violation | `a` calls `b`, and `a`'s link to the server fails while it holds its offer. `OnClose` never calls `OnDisconnected`, so `a` keeps its PeerConnection. The server's offline notice releases `b`. `a` logs in again and stays busy for good, so `CallSettles` fails. |
| conductor_busy_reset | `Conductor_BusyReset.cfg` | violation | `a` and `b` call each other. `b` accepts first and sends its offer; `a` takes it and starts answering; then `b`'s busy answer (-1) to `a`'s own request arrives and `OnPeerResponse` sets `peer_id_ = -1` under the live PeerConnection. `a`'s answer then goes to id -1 and is dropped. |
| auth_outcome | `Authenticator_CredentialsDecideOutcome.cfg` | violation | `AuthFromDBPoll` returns the bool `strPassWord == a_PassWord`. When `ERROR_CODE_ACCOUNT_AUTH_OK` is 0, a wrong password is accepted. When it is 1, a mismatch is rejected with reason 0 rather than with `ERROR_CODE_ACCOUNT_NOT_MATCH` (unless that code is 0). |

**server_protocol.** The peer is a client that writes up to 4 packets from
the real encoders, in any order. One of them is a modified StatusRequest
asking for state 3 directly. Each socket read delivers 1 to 8 bytes, and the
other threads interleave. The properties:

- `FramesArePrefix`: the extracted packets are always a prefix of the written
  ones.
- `FramesEventuallyExtracted`: eventually every written packet is extracted,
  unless the pass stopped on an unhandled packet or the connection was
  kicked.
- `NoWorkPacketBeforeLoginSuccess`: no Work packet is sent before
  LoginSuccess.
- `WorkOnlyAfterLogin`: state 3 is reached only through LoginSuccess.
- `TypeOK`: every packet sent carries its kind's id.
**client_protocol.** The client makes up to two login attempts; resolution,
connection and the link may fail at each point; the server answers in
order and then writes up to two Work packets; the user may send up to three
packets. The properties:

- `ClientFramesArePrefix`: the client extracts exactly the server's packets.
- `StateRequiresConnection`: `m_State` is past 1 only while the socket is
  connected and `m_bConnect` is set. A sign-out inside the packet loop must
  reset both.
- `LoginEnds`: every attempt that starts resolving or signing in ends
  signed in (`m_State` 3) or back at `NOT_CONNECTED`.
- `TypeOK`: every body the client sent has a layout the server reads.

**authenticator.** Two connections submit three logins while the worker runs
and Stop may be called at any point. The properties:

- `AnswersInSubmissionOrder`: answers come in FIFO order, exactly once each,
  and each with its own request's outcome.
- `AtMostOneAnswerAfterStop`: after the flag is set, at most one request is
  finished.
- `LoginsEventuallyAnswered`: no wake-up is lost; every login is answered
  unless the authenticator is stopping.
- `StopReturns`: the join completes.
- `AuthQueueRefined`: every behaviour of the threads, locks and event is a
  behaviour of `AuthQueue`, fairness included. Requests are taken in queue
  order and one at a time. At most one is taken after the flag is set,
  which happens when `Stop` lands between the test and the pop. Each
  request taken is answered, and the worker ends.
- `TypeOK`: the worker holds `m_CS` exactly inside its scoped locks.

**conductor_hangup.** Two clients, two call requests, one hang-up, one
sign-out and one failed link, in every order the threads and the relay
allow:

- `HangUpReleasesPeer`: while a BYE from `x` is on its way to a `y` whose
  PeerConnection is bound to `x`, `y` eventually lets go of it
  (`OnPeerDisconnected` queues `PEER_CONNECTION_CLOSED`, the UI thread
  deletes the connection).
- `PeerLossReleases`: when `x` signs out or loses its link while `y`'s
  PeerConnection is bound to it, and the server has not yet removed `x`,
  `y` eventually lets go of it or is itself offline. No BYE is sent; the
  server's offline UserInfo reaches `y`, whatever descriptions were still
  in flight. The condition on the server matters: if `y`'s own link fails
  first, the notice is lost with it, and that is the `conductor_link_drop`
  finding, not a second one.
- `TypeOK`: every packet the relay delivers names its sender.

The two properties the violation runs break, `CallSettles` (once the users
stop, every client is idle or in a mutual call) and `PeerConnectionHasPeer`
(a PeerConnection always has a `peer_id_`, as the `RTC_DCHECK` in
`OnMessageFromPeer` asserts), are what a reviewer would expect of the call
logic; they fail on the two races above.

Every property of a passing run has a mutant in `PROJECT.json`. The mutant is
a variant of the code's definition with a plausible bug, placed just before
that definition in the module, and TLC finds the property violated with it.
Examples:

- a `ResetRead` that is missing;
- a loop that handles one packet per read;
- the `m_State != 3` test of `SendKeepAlive` dropped;
- accepting state 3 in StatusRequest;
- the MediaMsg id copied from Media;
- `pop_back` instead of `pop_front`;
- a missing `Set`;
- a `while` that ignores the terminate flag;
- draining the queue before honouring the flag;
- an unscoped lock;
- `Close` not resetting `m_State`;
- an inverted range test on the answered state;
- the KeepAlive echo written as a BE32;
- a relay that forwards the packet with the addressee's id;
- an inverted `id == peer_id_` test in `OnPeerDisconnected`;
- an offline UserInfo that only erases the user from `peers_`;

## 4. Bounds and why they suffice

- **server_protocol.**
  - `MaxSent = 4` packets are enough for the whole handshake (status, login)
    followed by two Work packets, or for the bypass attempt followed by
    traffic.
  - `MaxChunk = 8` is shorter than the longest frame (14 bytes) and longer
    than the shortest (3), so reads split both the length varint and bodies,
    and also carry several packets at once.
  - `MaxOut = 3` lets each of the timer and relay sends happen.
  - Capacity is the code's 64 KiB, which these streams never reach. The
    overflow path is left for a scaled run (see the plan).
  - The state space is 94 thousand distinct states, checked in about 20 s.
- **client_protocol.**
  - `MaxConnects = 2` is what a reconnect needs.
  - `MaxWork = 2` Work packets are drawn from every kind (including the
    busy code -1 and the `BYE` sentinel), plus a WorkDisconnect.
  - `MaxChunk = 6` splits every frame longer than 6 bytes (the StatusResponse
    is 8) and still lets two short frames arrive together.
  - `Capacity = 1000` is not reached. The drop is shown by
    `client_buffer_full` at the scaled capacity 16 with chunks of up to 15,
    the code's ratio.
  - The run reaches 131 thousand distinct states.
- **conductor_hangup.** Two clients and two requests let the requests
  cross, and let a second request reach a client that is already in a
  call. One hang-up reaches every point at which a BYE can overtake or
  follow a description. One sign-out reaches every point of a call at
  which the link can go, and the re-sign-in afterwards. One link failure
  does the same for the fault, and one failed PeerConnectionFactory
  reaches both the caller's and the callee's failure branch. The run has
  about 65 thousand distinct states and takes about 30 s. A third client (two
  callers competing for one callee) with these bounds takes TLC more than
  15 minutes. Three clients with one request take 10 thousand states, and
  they pass too.
- **conductor_late_answer**, **conductor_busy_reset** and
  **conductor_link_drop** use two clients: one request and one hang-up,
  two requests with no hang-up, and one request and one link failure, the
  least each race needs.
- **authenticator.** Two client ids, three requests and both password
  outcomes. This is enough for a request to arrive while the worker is in
  each of its positions, for two to be queued when Stop comes, and for the
  queue to be non-empty at the terminate test. TLC reaches a state where
  the flag is set between the test and the pop, and the worker takes a
  request after it. The run has about 15 thousand distinct states.

## 5. Fairness

- **ServerProtocol.** `WF_wire(SocketRead)`: the event loop calls
  `DataReceived` whenever bytes are readable (libevent read callback). It
  is stated on `wire` alone; `SocketRead` is exactly the wire effect of
  `DataReceived`. That keeps the enabledness test from evaluating the packet
  loop. The peer, the timer and the relay get no fairness: they may stop at
  any time, so deadlock checking is off in these runs (an idle connection is
  a normal end).
- **ClientProtocol.** Weak fairness holds for the resolver's answer
  (`OnResolveResult`), for `OnConnect` of a connecting socket, and for reads
  (`WF_wire(SocketRead)`, as on the server). The environment's answers
  `ServerStatus` and `ServerLogin` are fair because the server model answers
  every packet it reads. `OnClose`, the user, the Work traffic and `busy`
  get no fairness.
- **Conductor.** Weak fairness, per client, of `Relay` (the server reads
  every connection), `Receive` (the client's read callback),
  `GatheringComplete` (ICE gathering finishes; an assumption about the
  library and the network) and `UIThreadCallback` (the UI message loop
  runs). `ServerRemoves` is weakly fair too, because the server handles
  every closed connection. The users' `ConnectToPeer`, hang-up, sign-out
  and sign-in, link failures and failing factories, get none. Deadlock checking is off, because idle clients are
  a normal end.
- **Authenticator.** Weak fairness of the worker thread's steps and of the
  remaining steps of `Stop` once it has been called. Calling `Stop` at all,
  and submitting, are up to the callers.

## 6. Not modelled, and why

- **Code that is not under `src/`.** `cByteBuffer`, `cPacketizer`,
  `cClientHandle`, `cServer` and `cRoot` are absent. Their behaviour is
  taken from spec.md and marked `spec_modelled` in the map.
- **Strings and text.** Names, addresses and message text are one-byte
  strings. Log output, comm logs and the debug hex dump are left out.
- **`StatusResponse`.** The IP string is one byte string, and the client does
  not use it.
- **`PeerConnectionClient::OnMessage`.** This is the reconnect timer. Its
  only poster, in `OnClose`, is commented out.
- **The null `control_socket_` in `SignOut`.** `Conductor::Close` calls
  `SignOut` during the first resolution. Its caller, the main window, is not
  in `src/`, so this path is listed as a hazard only.
- **The rest of `Conductor`.** The stream callbacks (`OnAddStream`,
  `NEW_STREAM_ADDED`, `STREAM_REMOVED`, `AddStreams`, video capture) only
  drive rendering. ICE candidates are never sent (the send is commented
  out). A failing `CreatePeerConnectionFactory` is modelled; a failing
  `CreatePeerConnection` is not. In that case the code calls
  `DeletePeerConnection`, which resets the factory, and then still calls
  `AddStreams`, which dereferences it. The process crashes. The peers see
  the server removing the connection, as after a failed link. This is
  listed as a hazard.
- **The gathering callback racing `DeletePeerConnection`.**
  `OnIceGatheringChange` runs on WebRTC's signaling thread and reads
  `peer_connection_`, which the UI thread may reset. Which thread runs the
  observer, and whether `Close` waits for it, is decided inside WebRTC.
  The model takes the callback as one step, guarded by an existing
  PeerConnection.
- **GUI and helpers.** `MainFrame.h`, `main.cpp` and `func.cpp` are pure UI
  and string conversion.
- **`event-config.h`.** It is generated build configuration.

## 7. Plan

Steps 1 to 5 are done; steps 6 and 7 are for later sittings.

1. `VarInt` and `Packets`: codecs and encoders (done). The codecs are
   written from spec.md, because `cByteBuffer` is not in `src/`. A check of
   them alone would test the model's own operators, so none is run.
2. `ServerProtocol`: the connection engine under arbitrary chunking, with the
   other server threads as actions (done). This includes the violation run
   for the kick. An unknown packet type never moves the connection to
   Ignore (255), as spec.md 8 says it should: the branch that sets 255 is
   reachable only from a state no handler assigns. This is recorded as a
   hazard, not as a run.
3. `Authenticator`: queue, worker and Stop, with FIFO, shutdown and liveness
   properties (done).
4. `ClientProtocol`: the client's mirror loop and handlers,
   `SignOut`/`Close` and `HandleErrorCode` (done). It includes the violation
   runs for the buffer drop, the double `OnDisconnected` and the stale
   `peers_`.
5. `Conductor`: call set-up, hang-up and sign-out between clients through
   the relay (done), with the hang-up and peer-loss properties and the
   violation runs for the late answer and the busy reset. The link failure
   (`OnClose`) was added later, with its violation run. `Authenticator`
   is shown to implement the abstract `AuthQueue` (done). Later still: a
   failing PeerConnectionFactory (done).
6. `Session` (to do): an abstract specification of the connection, "the
   server handles the client's packets in order and answers once per
   request". `ServerProtocol` composed with `ClientProtocol` over two byte
   streams would be shown to implement it by `INSTANCE ... WITH` a
   refinement mapping that maps the streams' frames to the abstract message
   queues.
7. `Server` (to do): several connections sharing the registry, with the
   relay and `KickUser` from the authenticator's thread.
