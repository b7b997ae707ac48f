------------------------------ MODULE PoolMath ------------------------------
(***************************************************************************)
(* The option record's vocabulary and the pure arithmetic shared by the    *)
(* three pool contracts (src/contracts/pool/constants.ts and the fee,      *)
(* strike-value and collateral expressions that every handler repeats).    *)
(*                                                                         *)
(* u256 arithmetic goes through SafeMath, which reverts on overflow; a     *)
(* result therefore equals the mathematical one, and every product that is *)
(* taken has a companion "...Fits" guard.                                  *)
(***************************************************************************)
EXTENDS Naturals

CONSTANTS
    PRECISION,   \* fixed-point scale of strike prices (10^18 in the code)
    MaxU256      \* the largest u256

ASSUME PrecisionAssumption == PRECISION \in Nat \ {0}
ASSUME WidthAssumption == MaxU256 \in Nat

(* Option types. *)
CALL == "CALL"
PUT  == "PUT"
OptionTypes == {CALL, PUT}

(* Option statuses. *)
OPEN      == "OPEN"
PURCHASED == "PURCHASED"
EXERCISED == "EXERCISED"
EXPIRED   == "EXPIRED"
CANCELLED == "CANCELLED"
RESERVED  == "RESERVED"
Statuses  == {OPEN, PURCHASED, EXERCISED, EXPIRED, CANCELLED, RESERVED}

(* Fees, in basis points. *)
CANCEL_FEE_BPS   == 100
BUY_FEE_BPS      == 100
EXERCISE_FEE_BPS == 10

MAX_BATCH_SIZE == 5

Fits(x) == x <= MaxU256

(* A fee is rounded up: (x * bps + 9999) / 10000. *)
FeeOf(x, bps)   == (x * bps + 9999) \div 10000
FeeFits(x, bps) == Fits(x * bps + 9999)

(* What the holder pays (CALL) or receives (PUT), rounded down. *)
StrikeValue(o) == (o.strikePrice * o.underlyingAmount) \div PRECISION
StrikeFits(o)  == Fits(o.strikePrice * o.underlyingAmount)

(* What the writer escrows: the underlying of a CALL, the strike value of a *)
(* PUT.  Only a PUT needs the product.                                      *)
Collateral(o)     == IF o.optionType = CALL THEN o.underlyingAmount
                                            ELSE StrikeValue(o)
CollateralFits(o) == o.optionType = CALL \/ StrikeFits(o)
=============================================================================
