CONSTANTS
    AppName <- MCAppName
    ServerName <- MCServerName
    Port = 25565
    UserName <- MCUserName
    PassWord <- MCPassWord
    Ip <- MCIp
    Bye <- MCBye
    Reasons = {3}
    PeerIds = {7}
    PingIds = {0, 1}
    PeerNames <- MCPeerNames
    UserStates = {1, 4}
    Messages <- MCMessages
    Capacity = 1000
    MaxChunk = 6
    MaxConnects = 2
    MaxWork = 2
    MaxOut = 3

SPECIFICATION Spec
INVARIANT PeersAreCurrent
CHECK_DEADLOCK FALSE
