---------------------------- MODULE StrategyDesk ----------------------------
(***************************************************************************)
(* The trade wizard over a pool's open options: which strategies a goal    *)
(* offers, which listing or pair of listings a strategy would buy          *)
(* (strategyMath.ts), whether its card is enabled, what its panel          *)
(* forecasts (TradeConfigurator.tsx), and what the configurator reckons    *)
(* for a position the user shapes (StrategyConfigurator.tsx,               *)
(* calcLiveOutcome).                                                       *)
(*                                                                         *)
(* Prices are scaled by PRECISION and moneyness is in thousandths of the   *)
(* price.  A finder answers with the set of what it found: one option or   *)
(* pair, or none.  Money a panel shows is in premium tokens scaled by      *)
(* PRECISION, so that the page's fractions stay integers; a break-even     *)
(* price is given times the amount it is divided by.                       *)
(***************************************************************************)
EXTENDS OptionsChain

CONSTANT Quotes  \* premiums per unit, scaled by PRECISION, for trying outcomes

ASSUME DeskAssumption == Quotes \subseteq Nat

BuySide  == {"protective-put", "long-call", "long-put",
             "long-straddle", "long-strangle"}

Strategies(intent) ==
    CASE intent = "earn-yield"        -> {"covered-call", "write-put"}
      [] intent = "protect"           -> {"protective-put"}
      [] intent = "speculate-up"      -> {"long-call", "bull-call-spread"}
      [] intent = "speculate-down"    -> {"long-put", "bear-put-spread"}
      [] intent = "expect-volatility" -> {"long-straddle", "long-strangle"}
      [] intent = "earn-both"         -> {"collar"}

IntentNeedsLiquidity(intent) ==
    intent \in {"protect", "speculate-up", "speculate-down", "expect-volatility"}

-----------------------------------------------------------------------------
(* Finders and counters. *)

NotSelf(u, o) == o.writer # u

OpenOf(u, book, type) ==
    {id \in DOMAIN book : /\ book[id].status = OPEN
                          /\ book[id].optionType = type
                          /\ NotSelf(u, book[id])}

(* The first of the smallest, as a reduce or a loop with "<" finds it. *)
Closest(ids, score(_)) ==
    {id \in ids : /\ \A j \in ids : score(id) <= score(j)
                  /\ \A j \in ids : j < id => score(id) < score(j)}

PutsBelow(u, book, s)  == {id \in OpenOf(u, book, PUT)  : book[id].strikePrice <= s}
CallsAbove(u, book, s) == {id \in OpenOf(u, book, CALL) : book[id].strikePrice >= s}

(* 87.5% and 112.5% of spot are the targets. *)
FindBestProtectivePut(u, book, s) ==
    LET score(id) == Distance(8 * book[id].strikePrice, 7 * s)
    IN  Closest(PutsBelow(u, book, s), score)

FindBestCall(u, book, s) ==
    LET score(id) == Distance(8 * book[id].strikePrice, 9 * s)
    IN  Closest(CallsAbove(u, book, s), score)

FirstPair(pairs, score(_)) ==
    {p \in pairs :
        /\ \A q \in pairs : score(p) <= score(q)
        /\ \A q \in pairs :
              q.call < p.call \/ (q.call = p.call /\ q.put < p.put)
                => score(p) < score(q)}

Pairs(calls, puts) == [call : calls, put : puts]

(* Strikes that match first, near the price second; 2 x spot x the score. *)
FindStraddlePair(u, book, s) ==
    LET k(id) == book[id].strikePrice
        score(p) == 4 * Distance(k(p.call), k(p.put))
                      + Distance(k(p.call) + k(p.put), 2 * s)
    IN  FirstPair(Pairs(OpenOf(u, book, CALL), OpenOf(u, book, PUT)), score)

(* More than 2% either side of the price, as even as possible. *)
FindStranglePair(u, book, s) ==
    LET k(id) == book[id].strikePrice
        otmCalls == {id \in OpenOf(u, book, CALL) : 100 * k(id) > 102 * s}
        otmPuts  == {id \in OpenOf(u, book, PUT)  : 100 * k(id) < 98 * s}
        score(p) == Distance(k(p.call) + k(p.put), 2 * s)
    IN  FirstPair(Pairs(otmCalls, otmPuts), score)

Smaller(x, y) == IF x < y THEN x ELSE y

(* Mutant: a pair needs a call or a put. *)
CountEither(u, book, strategy, s) ==
    CASE strategy \in {"protective-put", "long-put"} ->
            Cardinality(PutsBelow(u, book, s))
      [] strategy = "long-call" -> Cardinality(CallsAbove(u, book, s))
      [] OTHER -> Cardinality(OpenOf(u, book, CALL) \cup OpenOf(u, book, PUT))

CountOpenOptionsForStrategy(u, book, strategy, s) ==
    CASE strategy \in {"protective-put", "long-put"} ->
            Cardinality(PutsBelow(u, book, s))
      [] strategy = "long-call" -> Cardinality(CallsAbove(u, book, s))
      [] strategy \in {"long-straddle", "long-strangle"} ->
            Smaller(Cardinality(OpenOf(u, book, CALL)), Cardinality(OpenOf(u, book, PUT)))
      [] OTHER -> 0

CountBuyableOptionsForIntent(u, book, intent) ==
    CASE intent \in {"protect", "speculate-down"} -> Cardinality(OpenOf(u, book, PUT))
      [] intent = "speculate-up" -> Cardinality(OpenOf(u, book, CALL))
      [] intent = "expect-volatility" ->
            Smaller(Cardinality(OpenOf(u, book, CALL)), Cardinality(OpenOf(u, book, PUT)))
      [] OTHER -> 0

(* The market can be picked, the strategy's card can be clicked. *)
MarketEnabled(u, book, intent) ==
    ~IntentNeedsLiquidity(intent) \/ CountBuyableOptionsForIntent(u, book, intent) > 0
CardEnabled(u, book, strategy, s) ==
    strategy \in BuySide => CountOpenOptionsForStrategy(u, book, strategy, s) > 0

(* The listings the panel of a buy-side strategy has buttons for. *)
PanelTargets(u, book, strategy, s) ==
    CASE strategy \in {"protective-put", "long-put"} -> FindBestProtectivePut(u, book, s)
      [] strategy = "long-call" -> FindBestCall(u, book, s)
      [] strategy = "long-straddle" ->
            UNION {{p.call, p.put} : p \in FindStraddlePair(u, book, s)}
      [] strategy = "long-strangle" ->
            UNION {{p.call, p.put} : p \in FindStranglePair(u, book, s)}
      [] OTHER -> {}

(* What wallet u can buy through the wizard, whatever its goal. *)
WizardTargets(u, book, s) ==
    UNION {IF MarketEnabled(u, book, i)
           THEN UNION {PanelTargets(u, book, st, s) :
                          st \in {x \in Strategies(i) : CardEnabled(u, book, x, s)}}
           ELSE {} :
              i \in {"protect", "speculate-up", "speculate-down", "expect-volatility"}}

-----------------------------------------------------------------------------
(* The panels' forecasts for option o, or a pair, at spot s. *)

Value(o, price) == o.underlyingAmount * price
Cost(o) == InPremium(o.premium, PremiumToken, 0)

AtLeastZero(x) == IF x < 0 THEN 0 ELSE x

(* Mutant: the premium left out of the break-even. *)
BreakEvenAtStrike(o) == Value(o, o.strikePrice)

(* Where exercising pays the premium back. *)
BreakEven(o) ==
    IF o.optionType = CALL THEN Value(o, o.strikePrice) + Cost(o)
                           ELSE Value(o, o.strikePrice) - Cost(o)

(* "You save" is against the price falling by half, and twice the amount. *)
ProtectivePutPanel(o, s) ==
    [netPayout |-> Value(o, o.strikePrice) - Cost(o),
     saved     |-> AtLeastZero(2 * (Value(o, o.strikePrice) - Cost(o)) - Value(o, s))]

(* The example is the price doubling. *)
LongCallPanel(o, s) ==
    [breakEven |-> BreakEven(o), loss |-> Cost(o),
     profitIfDouble |-> AtLeastZero(Value(o, 2 * s - o.strikePrice) - Cost(o))]

(* The example is the price falling by half: twice the amount. *)
LongPutPanel(o, s) ==
    [breakEven |-> BreakEven(o), loss |-> Cost(o),
     profitIfCrash |->
        IF s < 2 * o.strikePrice
        THEN AtLeastZero(Value(o, 2 * o.strikePrice - s) - 2 * Cost(o)) ELSE 0]

(* The call's amount stands for both; break-evens are times that amount,   *)
(* the straddle's twice, because its strikes are averaged.                 *)
StraddlePanel(call, put) ==
    LET mid   == Value(call, call.strikePrice + put.strikePrice)
        total == Cost(call) + Cost(put)
    IN  [loss |-> total, upper |-> mid + 2 * total, lower |-> mid - 2 * total]

StranglePanel(call, put) ==
    LET total == Cost(call) + Cost(put)
    IN  [loss  |-> total, upper |-> Value(call, call.strikePrice) + total,
         lower |-> AtLeastZero(Value(call, put.strikePrice) - total)]

-----------------------------------------------------------------------------
(* The configurator: sliders whose ranges widen with the days. *)

DAY_PRESETS == {7, 14, 30, 90}

CallMax(days) == IF days <= 7 THEN 1500 ELSE IF days <= 14 THEN 2000
                 ELSE IF days <= 30 THEN 3000 ELSE 4000
PutMin(days)  == IF days <= 7 THEN 700 ELSE IF days <= 14 THEN 500
                 ELSE IF days <= 30 THEN 300 ELSE 200

Slider(lo, hi, default) == [min |-> lo, max |-> hi, default |-> default]

(* Strategies of one leg have one slider. *)
MoneyRanges(strategy, days) ==
    LET below == Slider(PutMin(days), 1000, 875)
    IN  CASE strategy \in {"write-put", "protective-put", "long-put"} -> [leg1 |-> below]
          [] strategy = "covered-call" ->
                [leg1 |-> Slider(1000, CallMax(days), 1200)]
          [] strategy = "long-call" ->
                [leg1 |-> Slider(1000, CallMax(days), 1125)]
          [] strategy = "long-straddle" ->
                [leg1 |-> Slider(PutMin(days), CallMax(days), 1000)]
          [] strategy = "collar" ->
                [leg1 |-> Slider(1050, CallMax(days), 1200),
                 leg2 |-> Slider(PutMin(days), 950, 800)]
          [] strategy = "long-strangle" ->
                [leg1 |-> Slider(1050, CallMax(days), 1150),
                 leg2 |-> Slider(PutMin(days), 950, 850)]
          [] strategy = "bull-call-spread" ->
                [leg1 |-> Slider(1100, CallMax(days), 1200),
                 leg2 |-> Slider(900, 1100, 1000)]
          [] strategy = "bear-put-spread" ->
                [leg1 |-> Slider(PutMin(days), 900, 800),
                 leg2 |-> Slider(900, 1100, 1000)]

(* What was chosen under other days is pushed back into the range. *)
Clamped(raw, range) ==
    IF raw < range.min THEN range.min ELSE IF range.max < raw THEN range.max ELSE raw

(* calcLiveOutcome for strikes k1, k2 and premiums q1, q2 per unit of the  *)
(* sliders' legs, all in one scale.  "writes" is what the form is filled   *)
(* in with.                                                                *)
WhatItWrites(type, k, amount, q) ==
    [optionType |-> type, strike |-> k, amount |-> amount, premium |-> amount * q]

WrittenOutcome(strategy, amount, k1, q1, q2) ==
    CASE strategy = "covered-call" ->
            [locks |-> amount, fee |-> amount * q1, writes |-> WhatItWrites(CALL, k1, amount, q1)]
      [] strategy = "write-put" ->
            [locks |-> k1 * amount, fee |-> amount * q1,
             writes |-> WhatItWrites(PUT, k1, amount, q1)]
      [] strategy = "collar" ->
            [fee |-> amount * (q1 - q2), writes |-> WhatItWrites(CALL, k1, amount, q1)]

(* A spread sells its first leg and buys its second. *)
SpreadOutcome(type, amount, k1, k2, q1, q2) ==
    LET net == q2 - q1
    IN  [cost |-> amount * net, maxLoss |-> amount * net,
         maxProfit |-> amount * (Distance(k1, k2) - net),
         breakeven |-> IF type = CALL THEN k2 + net ELSE k2 - net,
         writes |-> WhatItWrites(type, k1, amount, q1)]

BoughtOutcome(strategy, amount, k1, q1) ==
    LET type == IF strategy = "long-call" THEN CALL ELSE PUT
        cost == amount * q1
        writes == WhatItWrites(type, k1, amount, q1)
    IN  IF strategy = "protective-put"
        THEN [cost |-> cost, writes |-> writes, netPayout |-> amount * (k1 - q1)]
        ELSE [cost |-> cost, writes |-> writes,
              breakeven |-> IF type = CALL THEN k1 + q1 ELSE k1 - q1]

(* The second leg of a straddle is the put at the strike of the first. *)
PairOutcome(amount, k1, kPut, q1, q2) ==
    [cost |-> amount * (q1 + q2), upper |-> k1 + q1 + q2, lower |-> kPut - q1 - q2,
     writes |-> WhatItWrites(CALL, k1, amount, q1)]

LiveOutcome(strategy, amount, k1, k2, q1, q2) ==
    CASE strategy \in {"covered-call", "write-put", "collar"} ->
            WrittenOutcome(strategy, amount, k1, q1, q2)
      [] strategy = "bull-call-spread" -> SpreadOutcome(CALL, amount, k1, k2, q1, q2)
      [] strategy = "bear-put-spread"  -> SpreadOutcome(PUT, amount, k1, k2, q1, q2)
      [] strategy = "long-straddle"    -> PairOutcome(amount, k1, k1, q1, q2)
      [] strategy = "long-strangle"    -> PairOutcome(amount, k1, k2, q1, q2)
      [] OTHER                         -> BoughtOutcome(strategy, amount, k1, q1)

(* WriteOptionPanel: what the writer is told before he writes o.           *)
WriterOutlook(o, s) ==
    LET locked == InPremium(ShownCollateral(o), CollateralToken(o), s)
    IN  [maxProfit |-> Cost(o), maxLoss |-> AtLeastZero(locked - Cost(o))]

-----------------------------------------------------------------------------
(* The forecasts against what options pay. *)

Intrinsic(type, k, price) ==
    AtLeastZero(IF type = CALL THEN price - k ELSE k - price)

(* What the outcome's legs are worth at a price, less what they cost.      *)
Profit(strategy, amount, k1, k2, q1, q2, price) ==
    LET first(type)  == Intrinsic(type, k1, price) - q1
        second(type) == Intrinsic(type, k2, price) - q2
    IN  amount * CASE strategy = "bull-call-spread" -> second(CALL) - first(CALL)
                   [] strategy = "bear-put-spread"  -> second(PUT) - first(PUT)
                   [] strategy = "long-call" -> first(CALL)
                   [] strategy = "long-put"  -> first(PUT)
                   [] strategy = "long-straddle" ->
                         first(CALL) + Intrinsic(PUT, k1, price) - q2
                   [] strategy = "long-strangle" -> first(CALL) + second(PUT)

(* Wherever the sliders stand, left there under other days or not, and     *)
(* whatever the premiums suggested, the bought leg of a spread being the   *)
(* dearer: no price makes a position lose more or earn more than it says,  *)
(* it earns exactly beyond its break-even, and a written position locks    *)
(* its strike and amount.                                                  *)
OutcomesHold(strategy, days, raw1, raw2, s, q1, q2, price) ==
    LET ranges == MoneyRanges(strategy, days)
        k1 == s * Clamped(raw1, ranges.leg1)
        k2 == IF "leg2" \in DOMAIN ranges THEN s * Clamped(raw2, ranges.leg2)
              ELSE s * 1000
        out    == LiveOutcome(strategy, 2, k1, k2, q1, q2)
        profit == Profit(strategy, 2, k1, k2, q1, q2, price)
    IN  CASE strategy \in {"bull-call-spread", "bear-put-spread"} ->
                q1 <= q2 =>
                  /\ -out.maxLoss <= profit /\ profit <= out.maxProfit
                  /\ profit > 0 => IF strategy = "bull-call-spread"
                                   THEN price > out.breakeven ELSE price < out.breakeven
          [] strategy = "long-call" -> profit > 0 <=> price > out.breakeven
          [] strategy = "long-put"  -> profit > 0 <=> price < out.breakeven
          [] strategy \in {"long-straddle", "long-strangle"} ->
                /\ -out.cost <= profit
                /\ profit > 0 <=> price > out.upper \/ price < out.lower
          [] strategy = "collar" -> k2 < k1

OutcomesAreTrue ==
    \A intent \in {"speculate-up", "speculate-down", "expect-volatility", "earn-both"} :
      \A strategy \in Strategies(intent), days, before \in DAY_PRESETS, s \in Spots :
        LET old   == MoneyRanges(strategy, before)
            ends(r) == {r.min, r.max, r.default}
        IN  \A raw1 \in ends(old.leg1), q1, q2 \in Quotes,
               raw2 \in IF "leg2" \in DOMAIN old THEN ends(old.leg2) ELSE {1000},
               m \in {0, 500, 1000, 1500, 4500} :
              OutcomesHold(strategy, days, raw1, raw2, s, 1000 * q1, 1000 * q2, s * m)

-----------------------------------------------------------------------------
(* The desk against the pool. *)

(* The market the wallet can reach: the chain's buttons, over a chain just *)
(* loaded (see ChainOffersTheMarket), and the wizard's.  Whatever the      *)
(* wizard offers is open, and refused only for the reasons of Unsold.      *)
(* Where the pool would sell a put at or below the price, a call at or     *)
(* above it, or a call and a put, the goal that wants it can be picked,    *)
(* the strategy's card is enabled and its panel has a button: for a        *)
(* listing no farther from the panel's target than any the pool would      *)
(* sell.  An enabled card opens a panel that is not empty, the strangle's  *)
(* excepted.                                                               *)
DeskOffersTheMarket ==
    /\ ChainOffersTheMarket
    /\ \A u \in Users : LET forSale == ForSale(u) IN \A s \in Spots :
         LET type(id)   == options[id].optionType
             strike(id) == options[id].strikePrice
             puts  == {id \in forSale : type(id) = PUT  /\ strike(id) <= s}
             calls == {id \in forSale : type(id) = CALL /\ strike(id) >= s}
             both  == {type(id) : id \in forSale} = OptionTypes
             reached(intent, strategy) ==
                /\ MarketEnabled(u, options, intent)
                /\ strategy \in Strategies(intent)
                /\ CardEnabled(u, options, strategy, s)
             panel == [st \in BuySide |-> PanelTargets(u, options, st, s)]
         IN  /\ \A id \in WizardTargets(u, options, s) :
                  \/ id \in forSale
                  \/ options[id].status = OPEN /\ Unsold(u, options[id])
             /\ puts # {} =>
                  /\ reached("protect", "protective-put")
                  /\ reached("speculate-down", "long-put")
                  /\ \E id \in panel["long-put"] : \A p \in puts :
                        Distance(8 * strike(id), 7 * s) <= Distance(8 * strike(p), 7 * s)
             /\ calls # {} =>
                  /\ reached("speculate-up", "long-call")
                  /\ \E id \in panel["long-call"] : \A c \in calls :
                        Distance(8 * strike(id), 9 * s) <= Distance(8 * strike(c), 9 * s)
             /\ both => /\ reached("expect-volatility", "long-straddle")
                        /\ {type(id) : id \in panel["long-straddle"]} = OptionTypes
             /\ \A strategy \in BuySide \ {"long-strangle"} :
                  CardEnabled(u, options, strategy, s) <=> panel[strategy] # {}

(* What a forecast leaves out: the exercise fee, and the pool's rounding.  *)
FeeShare(o, price) ==
    InPremium(ShownCollateral(o) - ShownReceive(o), CollateralToken(o), price)

Within(error, o, price) == error > -PRECISION /\ error < FeeShare(o, price) + PRECISION

(* What the writer of o has made once it is exercised at a price.          *)
WriterResult(o, price) ==
    LET in == IF o.optionType = CALL THEN PremiumToken ELSE Underlying
    IN  WriterReceives(o) * PRECISION + InPremium(ShownPay(o), in, price)
          - InPremium(ShownCollateral(o), CollateralToken(o), price)

(* The panels reckon each for itself what the exercise modal reckons later *)
(* and the contract pays.  Their examples err by no more than the exercise *)
(* fee, in the trader's favour, and the rounding; so does a break-even; a  *)
(* straddle's or strangle's two, when its legs match.  A writer whose      *)
(* option is exercised loses no more than he was told and the buy fee,     *)
(* and when the holder profits gains no more.  What a fall by half would   *)
(* bring is compared where half of the price is a price.  And the          *)
(* configurator's outcomes hold (OutcomesAreTrue).                         *)
ForecastsAreTrue ==
    /\ OutcomesAreTrue
    /\ \A id \in DOMAIN options, s \in Spots :
         LET o     == options[id]
             call  == LongCallPanel(o, s)
             put   == LongPutPanel(o, s)
             guard == ProtectivePutPanel(o, s)
             outlook == WriterOutlook(o, s)
         IN  /\ IF o.optionType = CALL
                THEN /\ call.profitIfDouble > 0 =>
                          Within(call.profitIfDouble - ExercisePnl(o, 2 * s), o, 2 * s)
                     /\ Value(o, s) >= call.breakEven =>
                          ExercisePnl(o, s) + FeeShare(o, s) >= 0
                ELSE /\ put.profitIfCrash > 0 /\ s % 2 = 0 =>
                          Within((put.profitIfCrash \div 2) - ExercisePnl(o, s \div 2),
                                 o, s)
                     /\ guard.saved > 0 /\ s % 2 = 0 =>
                          Within((guard.saved \div 2) - ExercisePnl(o, s \div 2), o, s)
                     /\ Value(o, s) <= put.breakEven =>
                          ExercisePnl(o, s) + FeeShare(o, s) > -PRECISION
                     /\ Within(guard.netPayout - (ExercisePnl(o, s) + Value(o, s)), o, s)
             /\ WriterResult(o, s) >=
                  -outlook.maxLoss - (o.premium - WriterReceives(o)) * PRECISION
             /\ ExercisePnl(o, s) + Cost(o) >= 0 => WriterResult(o, s) <= outlook.maxProfit
    /\ \A id, other \in DOMAIN options :
         LET call == options[id]
             put  == options[other]
             amount == call.underlyingAmount
             pays(p) == amount * (Intrinsic(CALL, call.strikePrice, p)
                                    + Intrinsic(PUT, put.strikePrice, p))
             straddle == StraddlePanel(call, put)
             strangle == StranglePanel(call, put)
         IN  /\ call.optionType = CALL /\ put.optionType = PUT
             /\ put.underlyingAmount = amount
             => \A p \in Spots \cup {0} :
                  /\ call.strikePrice = put.strikePrice =>
                       (pays(p) > straddle.loss <=> \/ 2 * amount * p > straddle.upper
                                                   \/ 2 * amount * p < straddle.lower)
                  /\ call.strikePrice > put.strikePrice =>
                       (pays(p) > strangle.loss <=> \/ amount * p > strangle.upper
                                                   \/ amount * p < strangle.lower)
=============================================================================
