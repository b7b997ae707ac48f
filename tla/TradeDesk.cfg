\* Alice trades in a pool that Bob writes into.
SPECIFICATION FairDesk
CONSTANTS
    alice = alice
    bob = bob
    Pool = Pool
    NoOne = NoOne
    MIN_GRACE_PERIOD_BLOCKS = 1
    MAX_GRACE_PERIOD_BLOCKS = 5
    Users = {alice, bob}
    Trader = alice
    Underlying = MOTO
    PremiumToken = PILL
    GracePeriod = 1
    MAX_EXPIRY_BLOCKS = 2
    FeeRecipients = {bob}
    InitialFunds = 120
    Strikes = {15, 18}
    Amounts = {3}
    Premiums = {30}
    Offers <- OneOffer
    Counterparty = bob
    Books <- OneBook
    MaxOptions = 3
    MaxBlock = 2
    MAX_PARALLEL_FLOWS = 1
    MaxFreshStarts = 1
    MaxEffort = 3
    PRECISION = 10
    MaxU256 = 1000000
    URGENT_BLOCKS = 1
    ALERT_BLOCKS = 2
    BLOCKS_PER_DAY = 1
    BLOCKS_PER_WEEK = 2
    BLOCKS_PER_MONTH = 3
    Spots = {20, 40}
    Quotes = {2, 5}
INVARIANTS  DeskOffersTheMarket ForecastsAreTrue
PROPERTIES TradesGoThrough
CHECK_DEADLOCK FALSE
