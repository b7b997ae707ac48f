\* The first option of a pool is reserved and not paid for.
SPECIFICATION QuoteSpec
CONSTANTS
    alice = alice
    bob = bob
    Pool = Pool
    NoOne = NoOne
    NoKey = NoKey
    NoScript = NoScript
    MIN_GRACE_PERIOD_BLOCKS = 1
    MAX_GRACE_PERIOD_BLOCKS = 5
    Users = {alice, bob}
    Underlying = MOTO
    PremiumToken = PILL
    GracePeriod = 1
    MAX_EXPIRY_BLOCKS = 3
    RESERVATION_EXPIRY_BLOCKS = 1
    MAX_PRICE_STALENESS = 1
    PricesAt <- SteadyPrice
    CSV_BLOCKS = 6
    KeysOf <- EachOneKey
    FeeRecipients = {alice}
    InitialFunds = 6
    Strikes = {10}
    Amounts = {3}
    Premiums = {3}
    Sats = {3}
    MaxOptions = 1
    MaxReservations = 1
    MaxStrayOutputs = 0
    MaxBlock = 4
    PRECISION = 10
    MaxU256 = 1000000
    MaxU64 = 1000
INVARIANTS LapsedCanBeCancelled
