CONSTANTS
    AppName <- MCAppName
    ServerName <- MCServerName
    Port = 25565
    UserName <- MCUserName
    PassWord <- MCPassWord
    Ip <- MCIp
    Bye <- MCBye
    Reasons = {3}
    PeerIds = {7}
    PingIds = {0, 1}
    PeerNames <- MCPeerNames
    UserStates = {1, 4}
    Messages <- MCMessages
    Capacity = 16
    MaxChunk = 15
    MaxConnects = 1
    MaxWork = 3
    MaxOut = 3

SPECIFICATION Spec
INVARIANT ClientFramesArePrefix
CHECK_DEADLOCK FALSE
