\* One call and one failed link: the client whose link failed keeps its
\* PeerConnection after the server and its peer have let go of the call.
CONSTANTS
    a = a
    b = b
    c = c
    None = None
    Clients <- MCTwoClients
    MaxCalls = 1
    MaxHangUps = 0
    MaxSignOuts = 0
    MaxLinkDrops = 1
    MaxInitFailures = 0
SPECIFICATION Spec
PROPERTIES CallSettles
CHECK_DEADLOCK FALSE
