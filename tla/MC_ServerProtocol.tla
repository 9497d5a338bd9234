-------------------------- MODULE MC_ServerProtocol --------------------------
(***************************************************************************)
(* Instantiates ServerProtocol with the packets a real client writes      *)
(* (PeerConnectionClient's encoders) and a few a faulty peer could write. *)
(* Byte strings stand for the names: <<1>> is "p2pchat", <<2>> another    *)
(* application, <<3>> the server name, <<4>>/<<5>> user and password,     *)
(* <<6>> an SDP message.                                                  *)
(***************************************************************************)
EXTENDS ServerProtocol

App   == <<1>>
Other == <<2>>

\* OnConnect's StatusRequest (port 25565, next state 2) and its variants.
GoodStatus   == StatusRequestBody(App, <<3>>, 25565, 2)
BadAppStatus == StatusRequestBody(Other, <<3>>, 25565, 2)
Login        == LoginInfoBody(<<4>>, <<5>>)
Echo         == KeepAliveBody(7)
Busy         == MediaBody(9, -1)
Sdp          == MediaMsgBody(9, <<6>>)
Ping         == StatusPingBody(0, 42)
UnknownType  == VarIntEncode(5)
SkipLogin    == StatusRequestBody(App, <<3>>, 25565, 3)

\* The client's packets, and a modified client asking for Work at once.
ClientCatalog == {GoodStatus, Login, Echo, Busy, Sdp, SkipLogin}
FaultyCatalog == {GoodStatus, BadAppStatus, Login, Ping, UnknownType}

MCPingIds  == {3}
MCPeerIds  == {9}
MCCodes    == {-1}
MCMessages == {<<6>>}

=============================================================================
