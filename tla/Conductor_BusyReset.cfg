\* Two crossing call requests: a late busy answer clears peer_id_ while a
\* PeerConnection exists.
CONSTANTS
    a = a
    b = b
    c = c
    None = None
    Clients <- MCTwoClients
    MaxCalls = 2
    MaxHangUps = 0
    MaxSignOuts = 0
    MaxLinkDrops = 0
    MaxInitFailures = 0
SPECIFICATION Spec
INVARIANTS PeerConnectionHasPeer
CHECK_DEADLOCK FALSE
