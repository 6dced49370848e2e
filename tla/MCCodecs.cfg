CONSTANTS
    Null = Null
    Junk = Junk
    Narrow = 16
    Wide = 24
    MaxBytes = 2
    SizeMax = 2
    WordBits = 4
    MaxChunks = 3
    Chunks <- MessageChunks
    Type <- MessageType
    Table <- MessageTable
    DNS_P_DICTSIZE = 3
    DNS_D_MAXPTRS = 4
    DNS_D_MAXNAME = 255
    TextChunk = 3
    MaxPacket = 512
    Header = 92
    Pushes <- SomePushes
    Sizes = {56, 200}
    Cuts = {30, 61}
    MaxPush = 3
SPECIFICATION CodecsSpec
INVARIANTS NanoReads NanoFreesAll NanoRoundTrip CfReads CfRoundTrip RecordsReadBack AddressesOnce
CHECK_DEADLOCK FALSE
