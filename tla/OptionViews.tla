----------------------------- MODULE OptionViews -----------------------------
(***************************************************************************)
(* What the pages show and offer about an OP20 pool's options, over the    *)
(* pool itself: the rows of OptionsTable.tsx with their buttons and batch  *)
(* buttons, the alerts of useExpiryAlerts.ts, and the amounts the modals   *)
(* reckon before a call is signed.  A page reckons from the options it     *)
(* loaded and from the block it last saw, so every operator takes the      *)
(* block "shown"; the pool decides later, from its own block.              *)
(***************************************************************************)
EXTENDS OptionsPoolProperties, Integers

CONSTANTS
    URGENT_BLOCKS,   \* 144: alerts become urgent
    ALERT_BLOCKS,    \* 1008: alerts begin
    Spots            \* prices of the underlying tried, scaled by PRECISION

ASSUME AlertAssumption == URGENT_BLOCKS \in Nat /\ ALERT_BLOCKS \in Nat
ASSUME SpotAssumption == Spots \subseteq Nat \ {0}

-----------------------------------------------------------------------------
(* A row of the table and its buttons, for the wallet u. *)

IsWriter(u, o) == o.writer = u
IsBuyer(u, o)  == o.buyer = u

(* Mutant: the grace period taken to end at expiry. *)
GraceIgnored(o, shown) == shown <= o.expiryBlock

(* The page still counts the block in which the grace period ends. *)
GraceActive(o, shown) == shown <= GraceEnd(o)

RowAction(u, o, shown) ==
    CASE o.status = OPEN /\ IsWriter(u, o)  -> {"cancel", "roll"}
      [] o.status = OPEN /\ ~IsWriter(u, o) -> {"buy"}
      [] o.status = PURCHASED /\ IsBuyer(u, o) /\ GraceActive(o, shown) ->
            {"exercise", "transfer"}
      [] o.status = PURCHASED /\ ~GraceActive(o, shown) -> {"settle"}
      [] o.status = EXPIRED -> {"settle"}
      [] OTHER -> {}

(* The batch buttons, over the ticked rows that the filters leave visible. *)
SelectedOpen(u, ticked) ==
    {id \in ticked : options[id].status = OPEN /\ IsWriter(u, options[id])}

SelectedSettleable(ticked, shown) ==
    {id \in ticked : options[id].status = PURCHASED
                       /\ GraceEnd(options[id]) <= shown}

(* A batch modal sends nothing for an empty selection or an oversized one. *)
BatchSent(ids) == ids # {} /\ Cardinality(ids) <= MAX_BATCH_SIZE

(* useExpiryAlerts: the alert for the holder of o, none outside its window. *)
BlocksLeft(o, shown) == GraceEnd(o) - shown
ExpiryAlert(u, o, shown) ==
    LET left == BlocksLeft(o, shown)
    IN  IF o.status # PURCHASED \/ ~IsBuyer(u, o) \/ left <= 0 \/ left > ALERT_BLOCKS
        THEN "none"
        ELSE IF left < URGENT_BLOCKS THEN "urgent" ELSE "warning"

-----------------------------------------------------------------------------
(* What the modals show before the call is signed. *)

(* The pages' own reckoning of a collateral. *)
ShownCollateral(o) ==
    IF o.optionType = CALL THEN o.underlyingAmount
    ELSE (o.strikePrice * o.underlyingAmount) \div PRECISION

(* Mutant: rounded down, as amounts usually are. *)
FlooredFee(amount, bps) == (amount * bps) \div 10000

ShownFee(amount, bps) ==
    IF bps > 0 THEN (amount * bps + 9999) \div 10000 ELSE 0

(* Cancel and BatchCancel: no fee once the page has seen the expiry. *)
ShownCancelFee(o, shown) ==
    ShownFee(ShownCollateral(o),
             IF shown >= o.expiryBlock THEN 0 ELSE CANCEL_FEE_BPS)
ShownRefund(o, shown) == ShownCollateral(o) - ShownCancelFee(o, shown)

(* Roll: what the writer adds (or, negative, gets back) for new terms. *)
ShownNetDelta(o, newStrike, shown) ==
    ShownCollateral([o EXCEPT !.strikePrice = newStrike]) - ShownRefund(o, shown)

(* Buy: the premium is the whole price, the fee comes out of it. *)
TotalCost(o)      == o.premium
WriterReceives(o) == o.premium - ShownFee(o.premium, BUY_FEE_BPS)

(* Exercise: what is paid to the writer and what is received. *)
ShownPay(o) ==
    IF o.optionType = CALL
    THEN (o.strikePrice * o.underlyingAmount) \div PRECISION
    ELSE o.underlyingAmount
ShownReceive(o) ==
    ShownCollateral(o) - ShownFee(ShownCollateral(o), EXERCISE_FEE_BPS)

(* The profit shown for exercising at spot s, the premium included, scaled *)
(* by PRECISION so that it stays an integer.                               *)
InPremium(amount, token, s) ==
    IF token = Underlying THEN amount * s ELSE amount * PRECISION
ExercisePnl(o, s) ==
    IF o.optionType = CALL
    THEN InPremium(ShownReceive(o), Underlying, s)
           - InPremium(o.premium + ShownPay(o), PremiumToken, s)
    ELSE InPremium(ShownReceive(o), PremiumToken, s)
           - InPremium(o.premium, PremiumToken, s)
           - InPremium(ShownPay(o), Underlying, s)

-----------------------------------------------------------------------------
(* The pages against the pool. *)

(* What the pool accepts from u about option id, as far as who he is, the  *)
(* option's status and the block decide it.                                *)
Accepted(u, id) ==
    {a \in {"cancel", "roll", "buy", "exercise", "transfer", "settle"} :
        CASE a \in {"cancel", "roll"} -> MayCancel(u, id)
          [] a = "buy"      -> MayBuy(u, id)
          [] a = "exercise" -> MayExercise(u, id)
          [] a = "transfer" -> MayTransfer(u, id)
          [] OTHER          -> CanSettle(id)}

(* The one block in which the row and the pool disagree: the grace period  *)
(* has just ended, the row still offers the holder his last two buttons.   *)
LastGraceBlock(id) == block = GraceEnd(options[id])

(* Nobody who follows the chain is kept from what is his.  Whatever the    *)
(* pool would accept from a user, the row of the option offers him (settle *)
(* one block late); while the pool would still let him exercise in the     *)
(* last ALERT_BLOCKS, he is being alerted; and a batch he is offered over  *)
(* any ticked rows is one the pool carries out in full: no id in it        *)
(* reverts a batchCancel (but for a fee beyond the contract's arithmetic)  *)
(* or is skipped by a batchSettle.                                         *)
PagesOfferWhatIsDue ==
    \A u \in Users :
      /\ \A id \in DOMAIN options :
           LET offered == RowAction(u, options[id], block)
               due     == Accepted(u, id)
           IN  /\ due \subseteq offered \cup {"settle"}
               /\ "settle" \in due \ offered => LastGraceBlock(id)
               /\ "exercise" \in due /\ BlocksLeft(options[id], block) <= ALERT_BLOCKS
                    => ExpiryAlert(u, options[id], block) # "none"
      /\ \A ticked \in SUBSET DOMAIN options :
           LET open == SelectedOpen(u, ticked)
               due  == SelectedSettleable(ticked, block)
           IN  /\ BatchSent(open) => \/ CanBatchCancel(u, open)
                                      \/ \E id \in open : ~CancelFeeFits(options[id])
               /\ BatchSent(due)  => \A id \in due : CanSettle(id)

Gain(u, t) == balance'[t][u] - balance[t][u]

(* What u gains in both tokens at spot s, a token that is both counted once. *)
GainWorth(u, s) ==
    InPremium(Gain(u, Underlying), Underlying, s)
      + (IF PremiumToken = Underlying THEN 0
         ELSE InPremium(Gain(u, PremiumToken), PremiumToken, s))

(* What u gets less of token t in a step he signed, if he trusted a modal  *)
(* that had seen block "shown".                                            *)
ModalsHold(u, shown) ==
    /\ \A type \in OptionTypes, k \in Strikes, a \in Amounts, p \in Premiums,
          e \in Expiries :
         WriteOption(u, type, k, a, p, e) =>
            LET o == NewOption(u, type, k, a, p, e)
            IN  Gain(u, CollateralToken(o)) = -ShownCollateral(o)
    /\ \A ids \in SUBSET DOMAIN options :
         BatchCancel(u, ids) =>
            \A t \in Tokens :
               Gain(u, t) >= BatchTotal(ids, t,
                   [id \in DOMAIN options |-> ShownRefund(options[id], shown)])
    /\ \A id \in DOMAIN options :
         LET o == options[id]
             t == CollateralToken(o)
         IN  /\ CancelOption(u, id) => Gain(u, t) >= ShownRefund(o, shown)
             /\ \A k \in Strikes, e \in Expiries, p \in Premiums :
                  RollOption(u, id, k, e, p) =>
                     Gain(u, t) >= -ShownNetDelta(o, k, shown)
             /\ BuyOption(u, id) =>
                  /\ Gain(u, PremiumToken) >= -TotalCost(o)
                  /\ Gain(o.writer, PremiumToken) >= WriterReceives(o)
             /\ Exercise(u, id) /\ o.writer # u =>
                  \A s \in Spots :
                     GainWorth(u, s)
                     >= ExercisePnl(o, s) + InPremium(o.premium, PremiumToken, s)

(* A user's tokens leave his account only in a transaction he signed       *)
(* himself, and never more of them than the modal showed, at whatever      *)
(* earlier block it was opened: the pages and the contract each do their   *)
(* own fixed-point arithmetic, fees lapse at expiry and the fee recipient  *)
(* changes between the two.                                                *)
NobodyPaysMoreThanShown ==
    [][\A u \in Users :
          /\ (\E t \in Tokens : Gain(u, t) < 0) => SignedBy(u)
          /\ \A shown \in 0 .. block : ModalsHold(u, shown)]_vars
=============================================================================
