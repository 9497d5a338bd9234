\* One call and one hang-up: a description sent before the hang-up arrives
\* afterwards and leaves a PeerConnection nobody answers.
CONSTANTS
    a = a
    b = b
    c = c
    None = None
    Clients <- MCTwoClients
    MaxCalls = 1
    MaxHangUps = 1
    MaxSignOuts = 0
    MaxLinkDrops = 0
    MaxInitFailures = 0
SPECIFICATION Spec
PROPERTIES CallSettles
CHECK_DEADLOCK FALSE
