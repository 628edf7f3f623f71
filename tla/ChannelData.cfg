SPECIFICATION Spec
CONSTANTS
    Base = 4
    Blake160Size = 2
    Blake256Size = 2
    SignatureSize = 3
    Terms <- MCTerms
    Blocks <- MCBlocks
    Pkhashes <- MCPkhashes
    NftLists <- MCNftLists
    OperationLists <- MCOperationLists
    RoundLists <- MCRoundLists
    Hash <- MCHash
    SignatureOf <- MCSignatureOf
    LockCodeHash <- MCLockCodeHash
    ForeignArgs <- MCForeignArgs
    ForeignData <- MCForeignData
    MaxForeign = 1
    None = None
    Unreadable = Unreadable
INVARIANTS
    TypeOK
    ReadsInBounds
    Canonical
    CountTellsTurn
PROPERTIES
    RecordsImplemented
CHECK_DEADLOCK FALSE
