SPECIFICATION Spec
CONSTANTS
    MaxMoney = 5
    MaxSats = 3
    NoOutpoint = "null"
    NoDeposit = "none"
    Txs <- MCTxs
    Outpoints <- MCOutpoints
    vin <- MCvin
    vout <- MCvout
    Kind <- MCKind
    Value <- MCValue
    Op <- MCOp
    Witness <- MCWitness
    Deposits <- MCDeposits
    GenesisCoins <- MCGenesis
    ActivationHeight = 0
    EnforcementHeight = 0
    Blocks <- SimpleBlocks
    MaxHeight = 5
INVARIANTS MintedOnce DepositsOfChain AssetsMatchCoins DisconnectClean
