CONSTANTS
    Hashes = {h1}
    Channels = {c1, c2}
    InvoiceAmounts = {1}
    HtlcAmounts = {0, 1, 2}
    MaxRoutingFee = 0
    MaxInvoices = 1
SYMMETRY ChannelSymmetry
SPECIFICATION Spec
INVARIANTS
    InFlightIsRecorded
    PruningNeverPanics
PROPERTY
    InFlightWithinInvoice
