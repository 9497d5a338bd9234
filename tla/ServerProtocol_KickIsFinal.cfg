\* A faulty peer: packets of other applications, pings and unknown types.
CONSTANTS
    Catalog <- FaultyCatalog
    MaxSent = 3
    MaxChunk = 32
    Capacity = 65536
    AppName <- App
    BAD_APP = 9
    Reasons = {2}
    PingIds <- MCPingIds
    PeerIds <- MCPeerIds
    Codes <- MCCodes
    Messages <- MCMessages
    MaxOut = 1
SPECIFICATION Spec
INVARIANT KickIsFinal
CHECK_DEADLOCK FALSE
