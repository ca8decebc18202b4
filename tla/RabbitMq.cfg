CONSTANTS
    Message = {m1}
    Slot = {s1, s2}
    Loop = {l1, l2, l3}
    Boot = boot
    Conn = {c1, c2, c3, c4}
    NoConn = noConn
    NoMessage = noMessage
    Environments = {"local", "dev"}
    RetryCount = 1
    MaxFaults = 2
SPECIFICATION FairSpec
INVARIANTS TypeOK ChannelFresh OneKeeperEach AckOnce
PROPERTIES RoutedOnceAsserted DeliverySpec ChannelRecovers Settled
CHECK_DEADLOCK FALSE
