\* Three options of two traders, strategies interleaved with the pool's own methods.
SPECIFICATION RouterSpec
CONSTANTS
    alice = alice
    bob = bob
    Pool = Pool
    NoOne = NoOne
    MIN_GRACE_PERIOD_BLOCKS = 1
    MAX_GRACE_PERIOD_BLOCKS = 5
    Users = {alice, bob}
    Underlying = MOTO
    PremiumToken = PILL
    GracePeriod = 1
    MAX_EXPIRY_BLOCKS = 1
    FeeRecipients = {alice}
    InitialFunds = 320
    Strikes = {25}
    Amounts = {3}
    Premiums = {150}
    MaxOptions = 3
    MaxBlock = 2
    PRECISION = 10
    MaxU256 = 1000000
PROPERTIES AllLegsOrNone OnlyTheWalletPays StrategiesFollowLifecycle
CHECK_DEADLOCK FALSE
