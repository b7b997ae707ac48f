\* Two options of either type, a writer with two keys, one output to spare.
SPECIFICATION ReclaimSpec
CONSTANTS
    alice = alice
    bob = bob
    Pool = Pool
    NoOne = NoOne
    NoKey = NoKey
    PlaceholderBuyer = PlaceholderBuyer
    MIN_GRACE_PERIOD_BLOCKS = 1
    MAX_GRACE_PERIOD_BLOCKS = 5
    Users = {alice, bob}
    Underlying = BTC
    PremiumToken = PILL
    GracePeriod = 1
    MAX_EXPIRY_BLOCKS = 1
    CSV_BLOCKS = 6
    KeysOf <- TwoKeysAndOne
    FeeRecipients = {alice, bob}
    InitialFunds = 30
    Strikes = {10}
    Amounts = {3}
    Premiums = {3}
    MaxOptions = 2
    MaxOutputs = 3
    MaxBlock = 3
    PRECISION = 10
    MaxU256 = 1000000
    MaxU64 = 1000
INVARIANTS PutsBacked CallsBacked PutsPaidInBitcoin
PROPERTIES  UnderlyingImplementsLifecycle
