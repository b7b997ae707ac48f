\* A writer with a key and a buyer: reserve, pay, release, reserve again, exercise, lapse.
SPECIFICATION ReleaserSpec
CONSTANTS
    alice = alice
    bob = bob
    Pool = Pool
    NoOne = NoOne
    NoKey = NoKey
    NoScript = NoScript
    MIN_GRACE_PERIOD_BLOCKS = 1
    MAX_GRACE_PERIOD_BLOCKS = 5
    Users = {alice, bob}
    Underlying = MOTO
    PremiumToken = PILL
    GracePeriod = 1
    MAX_EXPIRY_BLOCKS = 3
    RESERVATION_EXPIRY_BLOCKS = 1
    MAX_PRICE_STALENESS = 0
    PricesAt <- RisingPrice
    CSV_BLOCKS = 6
    KeysOf <- AliceOneKey
    FeeRecipients = {alice, Pool}
    InitialFunds = 3
    Strikes = {10}
    Amounts = {3}
    Premiums = {3}
    Sats = {3, 6}
    MaxOptions = 2
    MaxReservations = 2
    MaxStrayOutputs = 1
    MaxBlock = 5
    PRECISION = 10
    MaxU256 = 1000000
    MaxU64 = 1000
INVARIANTS Solvent ReservedByOne SoldThroughReservation EveryDueIsPaid PriceIsRecent
PROPERTIES ReservationHolds QuoteImplementsLifecycle ReservationsEnd
