CONSTANTS
    MaxCommitNum = 2
    None = None
    Infos = {plain, htlc}
    HtlcFree = {plain}
    Secrets = {s1, s2}
SPECIFICATION Spec
SYMMETRY SecretSymmetry
CONSTRAINT Small
INVARIANTS
    HolderNotRevoked
    RevokedArePunishable
    NoRevocationAfterClose
    LastRequestCanBeRetried
    TypeOK
    RevokedOnlyWhenReplaced
    CounterpartyRetrySame
PROPERTIES
    ClosedIsFinal
    ImplementsPromise
