SPECIFICATION Spec
CONSTANTS
    Servers = 2
    MaxMessage = 2
    HandshakeLength = 1
    SendSizes = {}
    RecvSizes = {1}
    MaxSent = 0
    MaxServed = 1
    MaxRecords = 1
    Early <- NoEarlyData
    Renegotiations = 0
    MaxFailures = 1
    Trusts <- EachSetting
    Certs <- AllCerts
INVARIANT ReadsMore
CHECK_DEADLOCK FALSE
