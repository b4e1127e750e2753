SPECIFICATION Spec
CONSTANTS
    MaxMoney = 3
    NoOutpoint = "null"
    Txs <- MCTxs
    Outpoints <- MCOutpoints
    vin <- MCvin
    vout <- MCvout
    Kind <- MCKind
    Value <- MCValue
    AuthoritySigned <- MCSigned
    FreezeOp <- MCFreezeOp
    Unwitnessed <- MCUnwitnessed
    GenesisCoins <- MCGenesis
    Blocks <- AllBlocks
    MaxHeight = 5
    ActivationHeight = 0
    EnforcementHeight = 0
    InputEnforcementHeight = 0
    CheckDepth = 1
    CheckLevel = 4
INVARIANTS SupplySane AssetsAreReplay AssetsMatchCoins
PROPERTIES
    TrackerNeverForks
    DryRunTouchesNothing
