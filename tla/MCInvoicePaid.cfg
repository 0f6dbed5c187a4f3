CONSTANTS
    Hashes = {h1}
    Channels = {c1}
    InvoiceAmounts = {1}
    HtlcAmounts = {0, 1}
    MaxRoutingFee = 0
    MaxInvoices = 1
SPECIFICATION SettlingSpec
INVARIANT
    NoOverpayment
