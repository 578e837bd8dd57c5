CONSTANTS
    s1 = s1  s2 = s2  t1 = t1  t2 = t2  d1 = d1  d2 = d2
    Suite = "CHACHA20_POLY1305"
    Iv <- MCIv
    MaskOf <- MCMaskOf
    Samples <- MCSamples
    Leads <- MCLeads
    Paths <- MCPaths
    PacketNumbers <- MCPacketNumbers
    Expected <- MCExpected
    FirstBytes <- MCFirstBytes
    TokenNonces <- MCTokenNonces
    Data <- MCData
    MaxSeals = 2
    MaxDamaged = 1
SPECIFICATION Spec
INVARIANTS IntactIsOpened OpenedAsSealed NonceUsedOnce AcceptedWasIssued
CHECK_DEADLOCK FALSE
