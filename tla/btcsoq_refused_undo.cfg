SPECIFICATION Spec
CONSTANTS
    MaxMoney = 5
    MaxSats = 3
    NoOutpoint = "null"
    NoDeposit = "none"
    Txs <- MCTxs
    Outpoints <- MCOutpoints
    vin <- MCvin
    vout <- MCvout
    Kind <- MCKind
    Value <- MCValue
    Op <- MCOp
    Witness <- MCWitness
    Deposits <- MCDeposits
    GenesisCoins <- MCGenesis
    ActivationHeight = 0
    EnforcementHeight = 0
    Blocks <- MintBurnBlocks
    MaxHeight = 3
INVARIANTS
    MintedOnce
