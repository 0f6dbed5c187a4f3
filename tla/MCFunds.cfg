CONSTANTS
    KW = 2
    U32 = 9
    MinFeerate = 1
    MaxFeerate = 3
    Epsilon = 1
    MaxChannelSize = 8
    MaxHtlcs = 1
    MaxHtlcValue = 5
    MinDelay = 1
    MaxDelay = 2
    UseChainState = TRUE
    Filter <- WarnsOfAnchors
    ChannelDust = 2
    HtlcDust = 1
    AnchorValue = 2
    MaxScriptDelay = 2
    MaxChainLag = 0
    CommitWeight <- SmallCommitWeight
    HtlcWeight <- SmallHtlcWeight
    CloseWeight <- SmallCloseWeight
    None = None
    BucketInterval = 1
    NumBuckets = 2
    U64Max = 63
    Scenarios <- EveryScenario
    FeeLimit = 4
    Allowed <- AddressAndXpub
    MaxNow = 2
    MaxHeight = 1
    MaxCommits = 2
SPECIFICATION Spec
INVARIANTS
    CloseIsFair
    FundingIsRecoverable
    FeesAreBounded
    CommitmentsAreCovered
    HtlcsCanBeClaimed
    PhasesAgree
    RemovedIsNotPaid
