------------------------- MODULE MC_ClientProtocol -------------------------
(* Small byte strings stand for the names, the credentials and the        *)
(* messages; one other user, one error code.                              *)
EXTENDS ClientProtocol

MCAppName == <<112>>
MCServerName == <<115>>
MCUserName == <<117>>
MCPassWord == <<119>>
MCIp == <<105>>
MCBye == <<66, 89, 69>>
MCPeerNames == {<<110>>}
MCMessages == {<<109>>}

=============================================================================
