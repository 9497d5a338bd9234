\* Two clients, two call requests, one hang-up, one sign-out and one failed
\* link: every hang-up and every lost peer releases the PeerConnection bound
\* to it, unless the holder's own link fails first.
CONSTANTS
    a = a
    b = b
    c = c
    None = None
    Clients <- MCTwoClients
    MaxCalls = 2
    MaxHangUps = 1
    MaxSignOuts = 1
    MaxLinkDrops = 1
    MaxInitFailures = 1
SPECIFICATION Spec
INVARIANTS TypeOK
PROPERTIES HangUpReleasesPeer PeerLossReleases
CHECK_DEADLOCK FALSE
