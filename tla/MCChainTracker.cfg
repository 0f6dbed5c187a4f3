CONSTANTS
    None = None
    funding = funding
    closing = closing
    spend1 = spend1
    spend2 = spend2
    spendBoth = spendBoth
    output = output
    in1 = in1
    in2 = in2
    Txs <- MCTxs
    FundingTx = funding
    FundingOutpoint = output
    Outpoints <- MCOutpoints
    Inputs <- MCInputs
    Outputs <- MCOutputs
    MaxCommitmentOutputs = 2
    Vouts = {1, 2}
    Blocks <- QuietBlock
    MaxChain = 4
    BaseHeight = 10
    MaxReorgSize = 3
    Streaming = {"add", "remove"}
SPECIFICATION Spec
INVARIANTS
    MonitorMatchesChain
    WatchesSuffice
    MonitorAssertsHold
