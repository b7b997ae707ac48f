\* Two options, two traders, any interleaving of all operations.
SPECIFICATION KeeperSpec
CONSTANTS
    alice = alice
    bob = bob
    carol = carol
    Pool = Pool
    NoOne = NoOne
    MIN_GRACE_PERIOD_BLOCKS = 1
    MAX_GRACE_PERIOD_BLOCKS = 5
    Users = {alice, bob}
    Underlying = MOTO
    PremiumToken = PILL
    GracePeriod = 2
    MAX_EXPIRY_BLOCKS = 1
    FeeRecipients = {alice, bob}
    InitialFunds = 160
    Strikes = {25}
    Amounts = {3}
    Premiums = {150}
    MaxOptions = 2
    MaxBlock = 4
    PRECISION = 10
    MaxU256 = 1000000
    URGENT_BLOCKS = 1
    ALERT_BLOCKS = 2
    Spots = {20, 40}
INVARIANTS TypeOK NothingStranded 
PROPERTIES ImplementsLifecycle SoldOptionsResolve NobodyPaysMoreThanShown WritersMadeWhole
