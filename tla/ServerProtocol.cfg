\* A client that writes up to four packets from the real encoders, in any
\* order, split by the socket into reads of up to 8 bytes.  An idle
\* connection stops, so deadlock is not an error.
CONSTANTS
    Catalog <- ClientCatalog
    MaxSent = 4
    MaxChunk = 8
    Capacity = 65536
    AppName <- App
    BAD_APP = 9
    Reasons = {2}
    PingIds <- MCPingIds
    PeerIds <- MCPeerIds
    Codes <- MCCodes
    Messages <- MCMessages
    MaxOut = 3
SPECIFICATION Spec
INVARIANT TypeOK
INVARIANT FramesArePrefix
INVARIANT NoWorkPacketBeforeLoginSuccess
INVARIANT WorkOnlyAfterLogin
PROPERTY FramesEventuallyExtracted
CHECK_DEADLOCK FALSE
