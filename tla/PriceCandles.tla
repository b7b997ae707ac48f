---------------------------- MODULE PriceCandles ----------------------------
(***************************************************************************)
(* What a run of the poller does after its batch: it asks NativeSwap for   *)
(* prices and stores snapshots, rolls snapshots up into candles and prunes *)
(* old rows (src/indexer/src/poller/index.ts), all at the same time; and   *)
(* what a chart makes of the candles (api/router.ts, priceService.ts).     *)
(*                                                                         *)
(* The unit of time is the ten minutes the code takes a block to last.     *)
(* Blocks come whenever they do, but the clock that timestamps are read    *)
(* from counts from an epoch long before the first: it is always at least  *)
(* Origin units ahead of the height.                                       *)
(***************************************************************************)
EXTENDS Naturals, FiniteSets, Sequences, FiniteSetsExt

CONSTANTS
    Quotes,       \* amounts getQuote may answer
    NoQuote,      \* a call that failed
    Origin,       \* units the clock is ahead of the height
    Intervals,    \* lengths of candles
    Scale,        \* 18-decimal PRECISION
    QuoteSats,    \* satoshis a quote is for
    Traded,       \* tokens that are swapped
    Volumes,      \* amounts of a swap
    Retention,    \* age at which rows are pruned
    Limit,        \* candles a chart asks for
    MaxBlocks,    \* blocks per run
    MaxClock,     \* bound
    MaxMined     \* bound

ASSUME PriceAssumption ==
    /\ Quotes \subseteq Nat /\ NoQuote \notin Quotes
    /\ Scale \in Nat \ {0} /\ QuoteSats \in Nat \ {0}
    /\ Volumes \subseteq Nat
    /\ Limit \in Nat /\ MaxBlocks \in Nat \ {0}

(* The longest candle is a week, rows are kept for half a year, and the    *)
(* epoch is decades before the chain.                                      *)
ASSUME TimeAssumption ==
    /\ Origin \in Nat /\ Retention \in Nat
    /\ \A i \in Intervals : i \in Nat \ {0} /\ i <= Retention /\ i <= Origin

VARIABLES
    clock,
    height,      \* the chain's
    tip,         \* the cursor
    snapshots,   \* rows of price_snapshots
    quoted,      \* history: all rows ever saved there
    swaps,       \* rows of swap_events
    candles,     \* rows of price_candles
    poll,        \* pollPrices in progress
    roll         \* rollUpAllCandles in progress

priceVars == <<clock, height, tip, snapshots, quoted, swaps, candles, poll, roll>>

Base == {"A", "B"}
Pairs == {"A_B", "A_BTC", "B_BTC"}
Tokens == Base \cup Pairs
RollOrder == <<"A", "B", "A_B", "A_BTC", "B_BTC">>

NoPoll == [phase |-> "idle", time |-> 0, block |-> 0, prices |-> <<>>]
NoRoll == [phase |-> "idle", time |-> 0, block |-> 0, todo |-> <<>>, rows |-> {}]

PricesInit ==
    /\ clock = Origin
    /\ height = 0 /\ tip = 0
    /\ snapshots = {} /\ quoted = {} /\ swaps = {} /\ candles = {}
    /\ poll = NoPoll /\ roll = NoRoll

Idle == poll = NoPoll /\ roll = NoRoll

(* ---- the run ---- *)

Tick ==
    /\ clock < MaxClock
    /\ clock' = clock + 1
    /\ UNCHANGED <<height, tip, snapshots, quoted, swaps, candles, poll, roll>>

BlockMined ==
    /\ Origin + height < clock /\ height < MaxMined
    /\ height' = height + 1
    /\ UNCHANGED <<clock, tip, snapshots, quoted, swaps, candles, poll, roll>>

SwapsIn(blocks) ==
    {{}} \cup {{[token |-> t, block |-> b, sats |-> v, tokens |-> w]} :
                 t \in Traded, b \in blocks, v, w \in Volumes}

(* The batch is committed with at most one swap in its blocks; a run that  *)
(* is still behind then asks for prices and does nothing else, so that the *)
(* next may ask again at the same height.                                  *)
StartTasks ==
    /\ Idle
    /\ height > tip
    /\ tip' = IF height < tip + MaxBlocks THEN height ELSE tip + MaxBlocks
    /\ \E mined \in SwapsIn(tip + 1 .. tip') : swaps' = swaps \cup mined
    /\ poll' = [NoPoll EXCEPT !.phase = "quote", !.time = clock, !.block = height]
    /\ roll' = IF tip' < height THEN NoRoll
               ELSE [NoRoll EXCEPT !.phase = "read", !.time = clock, !.block = height,
                                   !.todo = RollOrder]
    /\ UNCHANGED <<clock, height, snapshots, quoted, candles>>

(* ---- prices ---- *)

BaseRates(q) == [t \in {t \in Base : q[t] # NoQuote} |-> q[t]]
CrossRate(q) ==
    IF q["A"] # NoQuote /\ q["B"] # NoQuote /\ q["A"] # 0
      THEN [t \in {"A_B"} |-> (q["B"] * Scale) \div q["A"]] ELSE <<>>
BtcRate(q, t, pair) ==
    IF q[t] # NoQuote /\ q[t] # 0
      THEN [p \in {pair} |-> (QuoteSats * Scale * Scale) \div q[t]] ELSE <<>>

Merge(f, g) == [t \in DOMAIN f \cup DOMAIN g |-> IF t \in DOMAIN f THEN f[t] ELSE g[t]]
PricesOf(q) ==
    Merge(BaseRates(q), Merge(CrossRate(q),
          Merge(BtcRate(q, "A", "A_BTC"), BtcRate(q, "B", "B_BTC"))))

GetQuotes(q) ==
    /\ poll.phase = "quote"
    /\ poll' = [poll EXCEPT !.phase = "save", !.prices = PricesOf(q)]
    /\ UNCHANGED <<clock, height, tip, snapshots, quoted, swaps, candles, roll>>

Snapshots(p) ==
    {[token |-> t, block |-> p.block, time |-> p.time, price |-> p.prices[t]] :
        t \in DOMAIN p.prices}

(* INSERT OR REPLACE, keyed by token and block. *)
SavePrices ==
    /\ poll.phase = "save"
    /\ snapshots' = {s \in snapshots : ~(s.block = poll.block /\ s.token \in DOMAIN poll.prices)}
                      \cup Snapshots(poll)
    /\ quoted' = quoted \cup Snapshots(poll)
    /\ poll' = NoPoll
    /\ UNCHANGED <<clock, height, tip, swaps, candles, roll>>

(* ---- candles ---- *)

BucketStart(t, interval) == (t \div interval) * interval

InBucket(t, start, interval) == start <= t /\ t < start + interval

BucketSnapshots(rows, token, start, interval) ==
    {s \in rows : s.token = token /\ InBucket(s.time, start, interval)}

Earliest(rows) == CHOOSE s \in rows : \A r \in rows : s.block <= r.block
Latest(rows) == CHOOSE s \in rows : \A r \in rows : r.block <= s.block

(* Blocks are looked up by the time since the epoch, not since block 0.    *)
BucketSwaps(token, start, interval) ==
    IF token \in Pairs THEN {}
    ELSE {s \in swaps :
            s.token = token /\ start <= s.block /\ s.block < start + interval}

SwapPrices(traded) ==
    {(s.tokens * QuoteSats) \div s.sats : s \in {x \in traded : x.sats > 0}}

Highest(S) == CHOOSE x \in S : \A y \in S : y <= x
Lowest(S) == CHOOSE x \in S : \A y \in S : x <= y

(* Mutant: high and low start at the open and are never moved. *)
OpenSeen(rows, traded) == {Earliest(rows).price} \cup SwapPrices(traded)

PricesSeen(rows, traded) == {s.price : s \in rows} \cup SwapPrices(traded)

(* The rows are read in the order of their blocks. *)
Candle(token, start, interval, rows, traded) ==
    [token |-> token, interval |-> interval, openTime |-> start,
     open |-> Earliest(rows).price, close |-> Latest(rows).price,
     high |-> Highest(PricesSeen(rows, traded)),
     low |-> Lowest(PricesSeen(rows, traded)),
     volume |-> MapThenSumSet(LAMBDA s : s.sats, traded), trades |-> Cardinality(traded)]

CandleNow(token, now, i) ==
    LET start == BucketStart(now, i)
    IN  Candle(token, start, i, BucketSnapshots(snapshots, token, start, i),
               BucketSwaps(token, start, i))

CandlesNow(token, now) ==
    {CandleNow(token, now, i) :
        i \in {i \in Intervals :
                 BucketSnapshots(snapshots, token, BucketStart(now, i), i) # {}}}

(* Token after token, each with a read of its own. *)
RollRead ==
    /\ roll.phase = "read"
    /\ roll' = [roll EXCEPT !.todo = Tail(@),
                            !.rows = @ \cup CandlesNow(Head(roll.todo), roll.time),
                            !.phase = IF Len(roll.todo) = 1 THEN "save" ELSE "read"]
    /\ UNCHANGED <<clock, height, tip, snapshots, quoted, swaps, candles, poll>>

SameKey(a, b) ==
    a.token = b.token /\ a.interval = b.interval /\ a.openTime = b.openTime

RollSave ==
    /\ roll.phase = "save"
    /\ candles' = {c \in candles : \A r \in roll.rows : ~SameKey(c, r)} \cup roll.rows
    /\ roll' = NoRoll
    /\ UNCHANGED <<clock, height, tip, snapshots, quoted, swaps, poll>>

(* Snapshots go by age, swaps by block; candles are kept.                  *)
Prune ==
    /\ roll.phase # "idle"
    /\ snapshots' = {s \in snapshots : roll.time <= s.time + Retention}
    /\ swaps' = {s \in swaps : roll.block <= s.block + Retention}
    /\ UNCHANGED <<clock, height, tip, quoted, candles, poll, roll>>

(* Any of the tasks may fail without the others. *)
TaskFails ==
    /\ \/ poll # NoPoll /\ poll' = NoPoll /\ UNCHANGED roll
       \/ roll # NoRoll /\ roll' = NoRoll /\ UNCHANGED poll
    /\ UNCHANGED <<clock, height, tip, snapshots, quoted, swaps, candles>>

PricesNext ==
    \/ Tick \/ BlockMined \/ StartTasks \/ SavePrices
    \/ RollRead \/ RollSave \/ Prune \/ TaskFails
    \/ \E q \in [Base -> Quotes \cup {NoQuote}] : GetQuotes(q)

PricesSpec == PricesInit /\ [][PricesNext]_priceVars

(* ---- the chart ---- *)

ReversePair == [B_A |-> "A_B", BTC_A |-> "A_BTC", BTC_B |-> "B_BTC"]
Requests == Tokens \cup DOMAIN ReversePair
Canonical(t) == IF t \in Tokens THEN t ELSE ReversePair[t]

InvertPrice(p) == IF p = 0 THEN 0 ELSE (Scale * Scale) \div p
SafeInvert(p) == IF p > 0 THEN (QuoteSats * Scale) \div p ELSE 0

InvertedFor(request, p) ==
    IF request \in DOMAIN ReversePair THEN InvertPrice(p) ELSE SafeInvert(p)
Inverted(request, c) ==
    [c EXCEPT !.open = InvertedFor(request, @), !.close = InvertedFor(request, @),
              !.high = InvertedFor(request, c.low), !.low = InvertedFor(request, c.high)]

(* The first of them: ORDER BY open_time ASC LIMIT ? *)
GetCandles(token, interval) ==
    LET all == {c \in candles : c.token = token /\ c.interval = interval}
    IN  {c \in all : Cardinality({d \in all : d.openTime < c.openTime}) < Limit}

(* The API inverts a pair asked for the other way round, the page a token  *)
(* on its own.                                                             *)
ChartCandle(request, c) ==
    IF request \in Pairs THEN c ELSE Inverted(request, c)

Chart(request, interval) ==
    {ChartCandle(request, c) : c \in GetCandles(Canonical(request), interval)}
=============================================================================
