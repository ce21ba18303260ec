SPECIFICATION SyncSpec
SYMMETRY OptionSymmetry
CONSTANTS
    CR = CR
    LF = LF
    Options = {SO_SNDTIMEO, SO_RCVTIMEO}
    Fds = {3}
    Bytes = {CR, LF}
    Delimiter <- CRLF
    kDefaultReceiveChunkSize = 2
    Sizes = {0, 1, 3}
    Timeouts <- NegativeAndLong
    MaxAddresses = 2
    MaxStream = 3
INVARIANTS
    StreamIntact
    ResultIsHonest
    SocketInOrder
