SPECIFICATION Spec
CONSTANTS
    single = single
    import = import
    raw = raw
    huge = huge
    a = a
    b = b
    A = A
    Requests <- MCRequests
    Addresses <- MCAddresses
    Variants <- MCVariants
    Stored <- MCStored
    Kind <- MCKind
    Rows <- MCRows
    MaxRows = 5
    MaxDbErrors = 1
    MaxCrashes = 1
INVARIANTS
    TypeOK
    SummaryIsHonest
    QueuedOnce
    StrandedIsFault
    OwnDuplicatesAreSkipped
PROPERTY StoredIsProcessedOrStranded
CHECK_DEADLOCK FALSE
