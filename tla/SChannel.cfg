SPECIFICATION FairSpec
CONSTANTS
    Servers = 2
    MaxMessage = 3
    HandshakeLength = 3
    SendSizes = {4}
    RecvSizes = {1, 4}
    MaxSent = 4
    MaxServed = 3
    MaxRecords = 2
    Early <- EarlyData
    Renegotiations = 1
    MaxFailures = 1
    Trusts <- EachSetting
    Certs <- AllCerts
INVARIANTS TypeOK AnswersInOrder RequestsInOrder VerifiedPeer
PROPERTIES Delivered
CHECK_DEADLOCK FALSE
