CONSTANTS
    BucketInterval = 2
    NumBuckets = 3
    U64Max = 15
    Hashes = {h1, h2, h3}
    InvoiceIds = {i1}
    Amounts = {1, 2}
    NodeLimit = 3
    ApproverLimit = 2
    MaxInvoices = 2
    MaxNow = 6
    Memorized <- MCMemorized
SYMMETRY HashSymmetry
SPECIFICATION ApprovalsSpec
INVARIANTS
    NodeUnderLimitSinceStart
    AutoApprovedUnderLimit
    TakesWhatFits
