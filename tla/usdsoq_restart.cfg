SPECIFICATION RSpec
CONSTANTS
    MaxMoney = 3
    NoOutpoint = "null"
    Txs <- MCTxs
    Outpoints <- MCOutpoints
    vin <- MCvin
    vout <- MCvout
    Kind <- MCKind
    Value <- MCValue
    AuthoritySigned <- MCSigned
    FreezeOp <- MCFreezeOp
    Unwitnessed <- MCUnwitnessed
    GenesisCoins <- MCGenesis
    Blocks <- IssuerBlocks
    MaxHeight = 4
    ActivationHeight = 0
    EnforcementHeight = 0
    InputEnforcementHeight = 0
    CheckDepth = 1
    CheckLevel = 3
INVARIANTS CoinsAreReplay AssetsSurviveQuietCrash
