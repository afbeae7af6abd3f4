SPECIFICATION Spec
CONSTANTS
    t1 = t1
    t2 = t2
    t3 = t3
    p1 = p1
    p2 = p2
    NoPeer = NoPeer
    Tx = {t1}
    LocalTx = {t1}
    Size <- SizeDef
    Peer = {p1, p2}
    Outbound = {p1}
    Netgroup <- NetgroupDef
    InitialPeers <- InitialPeersDef
    MAX_DESTINATIONS = 2
    MAX_STEM_TXS_PER_PEER = 2
    MAX_STEMPOOL_SIZE = 1
    MAX_STEMPOOL_BYTES = 2
    MaxInputs = 4
INVARIANT MainBeforeNodes
CHECK_DEADLOCK FALSE
