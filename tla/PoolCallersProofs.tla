-------------------------- MODULE PoolCallersProofs --------------------------
(***************************************************************************)
(* Proofs about those who call the OP20 pool: what its methods do to the   *)
(* accounts of its users, what a user who trusted a modal of the pages     *)
(* pays, what the two legs of a router call do together, what a trader     *)
(* approves before he calls, what the pages, the chain and the wizard      *)
(* offer him, and what they forecast.                                      *)
(***************************************************************************)
EXTENDS OptionViews, TradeModals, SpreadRouter, OptionsPoolProofs, FiniteSetTheorems

-----------------------------------------------------------------------------
(* What each method does to the account of a user u in token t. *)

(* Users' accounts are naturals, and no user is the pool. *)
LEMMA Accounts ==
    ASSUME TypeOK, NEW u \in Users, NEW t \in Tokens
    PROVE  u \in Addresses /\ u # Pool /\ balance[t][u] \in Nat
BY AddressAssumption DEF TypeOK, Addresses

(* writeOption takes the collateral from the writer and nothing else. *)
LEMMA WriteMoves ==
    ASSUME TypeOK, NEW w \in Users, NEW type \in OptionTypes,
           NEW k \in Strikes, NEW a \in Amounts, NEW p \in Premiums,
           NEW e \in Nat, WriteOption(w, type, k, a, p, e),
           NEW u \in Users, NEW t \in Tokens
    PROVE  LET o == NewOption(w, type, k, a, p, e)
           IN  balance'[t][u] = balance[t][u]
                 - (IF t = CollateralToken(o) /\ u = w
                    THEN Collateral(o) ELSE 0)
<1> DEFINE o == NewOption(w, type, k, a, p, e)
           c == Collateral(o)
           ct == CollateralToken(o)
<1>1. o \in Option
  BY NewOptionType, InputAssumption
<1>2. c \in Nat /\ ct \in Tokens
  BY <1>1, AmountsNat DEF CollateralToken, Tokens
<1>3. balance' = Pay(balance, ct, w, Pool, c) /\ Affords(balance, ct, w, c)
  BY DEF WriteOption
<1>4. /\ w \in Addresses /\ Pool \in Addresses /\ u \in Addresses /\ u # Pool
      /\ balance \in [Tokens -> Ledgers] /\ balance[t][u] \in Nat
  BY Basics, Accounts DEF Addresses
<1> HIDE DEF o, c, ct
<1>5. balance'[t][u] =
        balance[t][u] - (IF t = ct /\ u = w THEN c ELSE 0)
                      + (IF t = ct /\ u = Pool THEN c ELSE 0)
  BY <1>2, <1>3, <1>4, PayFacts
<1>6. balance'[t][u] = balance[t][u] - (IF t = ct /\ u = w THEN c ELSE 0)
  BY <1>2, <1>4, <1>5
<1> QED BY <1>6 DEF o, c, ct

(* cancelOption gives the writer his collateral back less the fee. *)
LEMMA CancelMoves ==
    ASSUME TypeOK, NEW w \in Users, NEW id \in DOMAIN options,
           CancelOption(w, id), NEW u \in Users, NEW t \in Tokens
    PROVE  LET o == options[id]
           IN  balance'[t][u] >= balance[t][u]
                 + (IF t = CollateralToken(o) /\ u = w
                    THEN Collateral(o) - CancelFee(o) ELSE 0)
<1> DEFINE o == options[id]
           c == Collateral(o)
           fee == CancelFee(o)
           ct == CollateralToken(o)
<1>1. /\ c \in Nat /\ fee \in 0..c /\ ct \in Tokens /\ o.writer \in Users
      /\ feeRecipient \in Addresses /\ balance \in [Tokens -> Ledgers]
  BY Basics, AmountsNat, CancelFeeBounds
<1>2. /\ Affords(balance, ct, Pool, c) /\ w = o.writer
      /\ balance' = Pay(Pay(balance, ct, Pool, o.writer, c - fee),
                        ct, Pool, feeRecipient, fee)
  BY DEF CancelOption, MayCancel
<1> HIDE DEF o, c, fee, ct
<1>3. balance'[t][u] >= balance[t][u]
                          + (IF t = ct /\ u = o.writer THEN c - fee ELSE 0)
  BY <1>1, <1>2, PayoutReceived
<1> QED BY <1>2, <1>3 DEF o, c, fee, ct

(* Two payments in a row that u does not make, or the first of which he    *)
(* makes: what he has at least.                                            *)
LEMMA TwoPayments ==
    ASSUME NEW b \in [Tokens -> Ledgers], NEW s \in Tokens,
           NEW from \in Addresses, NEW to \in Addresses, NEW r \in Addresses,
           NEW x \in Nat, NEW y \in Nat, from # Pool,
           Affords(b, s, from, x + y),
           NEW u \in Users, NEW t \in Tokens,
           NEW n, n = Pay(Pay(b, s, from, to, x), s, from, r, y)
    PROVE  n[t][u] >= b[t][u] - (IF t = s /\ u = from THEN x + y ELSE 0)
                              + (IF t = s /\ u = to THEN x ELSE 0)
<1> DEFINE m == Pay(b, s, from, to, x)
<1>1. u \in Addresses /\ b[t][u] \in Nat /\ b[s][from] \in Nat
  BY DEF Addresses, Ledgers
<1>2. b[s][from] >= x + y /\ Affords(b, s, from, x)
  BY <1>1 DEF Affords, CanPay
<1>3. /\ m \in [Tokens -> Ledgers]
      /\ \A v \in Tokens, a \in Addresses :
           m[v][a] = b[v][a] - (IF v = s /\ a = from THEN x ELSE 0)
                             + (IF v = s /\ a = to THEN x ELSE 0)
  BY <1>2, PayFacts
<1>4. n = Pay(m, s, from, r, y)
  OBVIOUS
<1> HIDE DEF m
<1>5. /\ m[s][from] = b[s][from] - x + (IF from = to THEN x ELSE 0)
      /\ m[t][u] = b[t][u] - (IF t = s /\ u = from THEN x ELSE 0)
                           + (IF t = s /\ u = to THEN x ELSE 0)
  BY <1>1, <1>3
<1>6. Affords(m, s, from, y)
  BY <1>1, <1>2, <1>5 DEF Affords, CanPay
<1>7. n[t][u] = m[t][u] - (IF t = s /\ u = from THEN y ELSE 0)
                        + (IF t = s /\ u = r THEN y ELSE 0)
  BY <1>1, <1>3, <1>4, <1>6, PayFacts
<1> QED BY <1>1, <1>5, <1>7

(* buyOption: the buyer pays the premium and no more, the writer gets it   *)
(* less the fee, whoever receives the fees.                                *)
LEMMA BuyMoves ==
    ASSUME TypeOK, NEW w \in Users, NEW id \in DOMAIN options,
           BuyOption(w, id), NEW u \in Users, NEW t \in Tokens
    PROVE  LET o == options[id]
           IN  balance'[t][u] >= balance[t][u]
                 - (IF t = PremiumToken /\ u = w THEN o.premium ELSE 0)
                 + (IF t = PremiumToken /\ u = o.writer
                    THEN o.premium - FeeOf(o.premium, BUY_FEE_BPS) ELSE 0)
<1> DEFINE o == options[id]
           p == o.premium
           fee == FeeOf(p, BUY_FEE_BPS)
<1>1. /\ p \in Nat /\ fee \in 0..p /\ o.writer \in Addresses
      /\ w \in Addresses /\ w # Pool /\ PremiumToken \in Tokens
      /\ feeRecipient \in Addresses /\ balance \in [Tokens -> Ledgers]
  <2>1. p \in Nat
    BY Basics DEF Option
  <2> QED BY <2>1, Basics, FeeBounds, Accounts
<1>2. /\ Affords(balance, PremiumToken, w, p)
      /\ balance' = Pay(Pay(balance, PremiumToken, w, o.writer, p - fee),
                        PremiumToken, w, feeRecipient, fee)
  BY DEF BuyOption, CanBuy, MayBuy
<1> HIDE DEF o, p, fee
<1>3. p - fee \in Nat /\ fee \in Nat /\ (p - fee) + fee = p
  BY <1>1
<1>4. Affords(balance, PremiumToken, w, (p - fee) + fee)
  BY <1>2, <1>3
<1>5. balance'[t][u] >= balance[t][u]
         - (IF t = PremiumToken /\ u = w THEN (p - fee) + fee ELSE 0)
         + (IF t = PremiumToken /\ u = o.writer THEN p - fee ELSE 0)
  BY <1>1, <1>2, <1>3, <1>4, TwoPayments
<1> QED BY <1>3, <1>5 DEF o, p, fee

(* exercise: the holder pays the price to the writer and takes the         *)
(* collateral less the fee.                                                *)
LEMMA ExerciseMoves ==
    ASSUME TypeOK, NEW w \in Users, NEW id \in DOMAIN options,
           Exercise(w, id), NEW u \in Users, NEW t \in Tokens
    PROVE  LET o == options[id]
               c == Collateral(o)
               in == IF o.optionType = CALL THEN PremiumToken ELSE Underlying
               price == IF o.optionType = CALL THEN StrikeValue(o)
                                               ELSE o.underlyingAmount
           IN  /\ price \in Nat
               /\ FeeOf(c, EXERCISE_FEE_BPS) \in 0..c
               /\ balance'[t][u] >= balance[t][u]
                    - (IF t = in /\ u = w THEN price ELSE 0)
                    + (IF t = in /\ u = o.writer THEN price ELSE 0)
                    + (IF t = CollateralToken(o) /\ u = w
                       THEN c - FeeOf(c, EXERCISE_FEE_BPS) ELSE 0)
<1> DEFINE o == options[id]
           c == Collateral(o)
           fee == FeeOf(c, EXERCISE_FEE_BPS)
           out == CollateralToken(o)
           in == IF o.optionType = CALL THEN PremiumToken ELSE Underlying
           price == IF o.optionType = CALL THEN StrikeValue(o)
                                           ELSE o.underlyingAmount
           d == Pay(balance, in, w, o.writer, price)
<1>1. /\ c \in Nat /\ fee \in 0..c /\ price \in Nat
      /\ out \in Tokens /\ in \in Tokens
      /\ o.writer \in Addresses /\ w \in Addresses
      /\ feeRecipient \in Addresses /\ balance \in [Tokens -> Ledgers]
  <2>1. /\ o \in Option /\ out \in Tokens /\ in \in Tokens
        /\ o.writer \in Addresses /\ w \in Addresses
        /\ feeRecipient \in Addresses /\ balance \in [Tokens -> Ledgers]
    BY Basics DEF Addresses
  <2>2. o.underlyingAmount \in Nat
    BY <2>1 DEF Option
  <2> QED BY <2>1, <2>2, AmountsNat, FeeBounds
<1>2. /\ Affords(balance, in, w, price) /\ Affords(d, out, Pool, c)
      /\ balance' = Pay(Pay(d, out, Pool, w, c - fee),
                        out, Pool, feeRecipient, fee)
  BY DEF Exercise
<1> HIDE DEF o, c, fee, out, in, price
<1>3. u \in Addresses /\ balance[t][u] \in Nat
  BY Accounts
<1>4. /\ d \in [Tokens -> Ledgers]
      /\ d[t][u] = balance[t][u]
                     - (IF t = in /\ u = w THEN price ELSE 0)
                     + (IF t = in /\ u = o.writer THEN price ELSE 0)
  BY <1>1, <1>2, <1>3, PayFacts
<1> HIDE DEF d
<1>5. balance'[t][u] >= d[t][u] + (IF t = out /\ u = w THEN c - fee ELSE 0)
  BY <1>1, <1>2, <1>4, PayoutReceived
<1>6. balance'[t][u] >= balance[t][u]
        - (IF t = in /\ u = w THEN price ELSE 0)
        + (IF t = in /\ u = o.writer THEN price ELSE 0)
        + (IF t = out /\ u = w THEN c - fee ELSE 0)
  BY <1>4, <1>5
<1> QED BY <1>1, <1>6 DEF o, c, fee, out, in, price

(* settle takes nothing from any user. *)
LEMMA SettleMoves ==
    ASSUME TypeOK, NEW id \in DOMAIN options, Settle(id),
           NEW u \in Users, NEW t \in Tokens
    PROVE  balance'[t][u] >= balance[t][u]
<1> DEFINE o == options[id]
           c == Collateral(o)
           ct == CollateralToken(o)
<1>1. /\ c \in Nat /\ ct \in Tokens /\ Pool \in Addresses
      /\ o.writer \in Addresses /\ balance \in [Tokens -> Ledgers]
  BY Basics, AmountsNat
<1>2. /\ Affords(balance, ct, Pool, c)
      /\ balance' = Pay(balance, ct, Pool, o.writer, c)
  BY DEF Settle
<1>3. u \in Addresses /\ u # Pool /\ balance[t][u] \in Nat
  BY Accounts
<1> HIDE DEF o, c, ct
<1>4. balance'[t][u] = balance[t][u] - (IF t = ct /\ u = Pool THEN c ELSE 0)
                                     + (IF t = ct /\ u = o.writer THEN c ELSE 0)
  BY <1>1, <1>2, <1>3, PayFacts
<1> QED BY <1>1, <1>3, <1>4

(* rollOption settles the difference between refund and new collateral.    *)
LEMMA RollMoves ==
    ASSUME TypeOK, NEW w \in Users, NEW id \in DOMAIN options,
           NEW k \in Strikes, NEW e \in Nat, NEW p \in Premiums,
           RollOption(w, id, k, e, p), NEW u \in Users, NEW t \in Tokens
    PROVE  LET old == options[id]
               new == NewOption(w, old.optionType, k, old.underlyingAmount, p, e)
           IN  /\ Collateral(new) \in Nat
               /\ balance'[t][u] >= balance[t][u]
                    + (IF t = CollateralToken(old) /\ u = w
                       THEN Collateral(old) - CancelFee(old) - Collateral(new)
                       ELSE 0)
<1> DEFINE old == options[id]
           new == NewOption(w, old.optionType, k, old.underlyingAmount, p, e)
           ct == CollateralToken(old)
           c == Collateral(old)
           d == Collateral(new)
           fee == CancelFee(old)
           refund == c - fee
           feeOut == Pay(balance, ct, Pool, feeRecipient, fee)
<1>1. /\ c \in Nat /\ d \in Nat /\ fee \in 0..c /\ refund \in Nat
      /\ ct \in Tokens
  <2>1. /\ old \in Option /\ old.optionType \in OptionTypes
        /\ old.underlyingAmount \in Nat \ {0}
    BY Basics DEF Option
  <2>2. new \in Option
    BY <2>1, NewOptionType, InputAssumption
  <2> QED BY <2>1, <2>2, AmountsNat, CancelFeeBounds, Basics
<1>2. Affords(balance, ct, Pool, fee)
  BY DEF RollOption
<1>3. \/ /\ d >= refund
         /\ Affords(feeOut, ct, w, d - refund)
         /\ balance' = Pay(feeOut, ct, w, Pool, d - refund)
      \/ /\ d < refund
         /\ Affords(feeOut, ct, Pool, refund - d)
         /\ balance' = Pay(feeOut, ct, Pool, w, refund - d)
  BY DEF RollOption
<1>4. /\ w \in Addresses /\ w # Pool /\ Pool \in Addresses
      /\ u \in Addresses /\ u # Pool /\ feeRecipient \in Addresses
      /\ balance \in [Tokens -> Ledgers] /\ balance[t][u] \in Nat
  BY Basics, Accounts
<1> HIDE DEF old, new, ct, c, d, fee, refund, feeOut
<1>5. /\ feeOut \in [Tokens -> Ledgers]
      /\ feeOut[t][u] >= balance[t][u] /\ feeOut[t][u] \in Nat
  <2>1. /\ feeOut \in [Tokens -> Ledgers] /\ balance[t][u] \in Nat
        /\ feeOut[t][u] = balance[t][u] + (IF t = ct /\ u = feeRecipient
                                           THEN fee ELSE 0)
    BY <1>1, <1>2, <1>4, PaidOnly DEF feeOut
  <2> QED BY <1>1, <2>1
<1>6. balance'[t][u] = feeOut[t][u]
         + (IF t = ct /\ u = w THEN refund - d ELSE 0)
  <2>1. CASE d >= refund
    <3>1. d - refund \in Nat /\ ~(d < refund)
      BY <1>1, <2>1
    <3>2. balance'[t][u] = feeOut[t][u]
            - (IF t = ct /\ u = w THEN d - refund ELSE 0)
            + (IF t = ct /\ u = Pool THEN d - refund ELSE 0)
      BY <1>1, <1>3, <1>4, <1>5, <3>1, PayFacts
    <3> QED BY <1>1, <1>4, <1>5, <3>2
  <2>2. CASE d < refund
    <3>1. refund - d \in Nat /\ ~(d >= refund)
      BY <1>1, <2>2
    <3>2. balance'[t][u] = feeOut[t][u]
            - (IF t = ct /\ u = Pool THEN refund - d ELSE 0)
            + (IF t = ct /\ u = w THEN refund - d ELSE 0)
      BY <1>1, <1>3, <1>4, <1>5, <3>1, PayFacts
    <3> QED BY <1>1, <1>4, <1>5, <3>2
  <2> QED BY <1>3, <2>1, <2>2
<1>7. balance'[t][u] >= balance[t][u]
                          + (IF t = ct /\ u = w THEN refund - d ELSE 0)
  BY <1>1, <1>4, <1>5, <1>6
<1> QED BY <1>1, <1>7 DEF refund, old, new, ct, c, d, fee

(* batchCancel gives its caller the collaterals less the fees. *)
LEMMA BatchCancelMoves ==
    ASSUME TypeOK, NEW w \in Users, NEW ids \in SUBSET DOMAIN options,
           BatchCancel(w, ids), NEW u \in Users, NEW t \in Tokens
    PROVE  balance'[t][u] >= balance[t][u]
             + (IF u = w THEN BatchTotal(ids, t, Collaterals)
                                - BatchTotal(ids, t, CancelFees)
                ELSE 0)
<1> DEFINE total == BatchTotal(ids, t, Collaterals)
           fees  == BatchTotal(ids, t, CancelFees)
           mid   == Moved(balance[t], Pool, w, total - fees)
<1>1. /\ Affords(balance, t, Pool, total)
      /\ balance'[t] = Moved(mid, Pool, feeRecipient, fees)
  BY DEF BatchCancel, CanBatchCancel, MayCancel
<1>2. /\ w \in Addresses /\ w # Pool /\ Pool \in Addresses
      /\ u \in Addresses /\ u # Pool /\ feeRecipient \in Addresses
      /\ balance[t] \in Ledgers /\ balance[t][u] \in Nat
      /\ balance[t][Pool] \in Nat
  BY Basics, Accounts, LockedNat
<1>3. /\ total \in Nat /\ fees \in Nat /\ fees <= total
      /\ balance[t][Pool] >= total
  <2>1. total \in Nat /\ fees \in Nat /\ fees <= total
    BY AmountTypes, BatchTotalNat, BatchFeesBounded
  <2> QED BY <1>1, <2>1 DEF Affords, CanPay
<1> HIDE DEF total, fees
<1>4. /\ mid \in Ledgers
      /\ mid[u] = balance[t][u] + (IF u = w THEN total - fees ELSE 0)
      /\ mid[Pool] = balance[t][Pool] - (total - fees)
  <2>1. CanPay(balance[t], Pool, total - fees) /\ total - fees \in Nat
    BY <1>2, <1>3 DEF CanPay
  <2>2. /\ mid \in Ledgers
        /\ \A a \in Addresses : mid[a] =
             balance[t][a] - (IF a = Pool THEN total - fees ELSE 0)
                           + (IF a = w THEN total - fees ELSE 0)
    BY <1>2, <2>1, MovedFacts
  <2> HIDE DEF mid
  <2> QED BY <1>2, <1>3, <2>2
<1> HIDE DEF mid
<1>5. balance'[t][u] = mid[u] + (IF u = feeRecipient THEN fees ELSE 0)
  <2>1. CanPay(mid, Pool, fees)
    BY <1>2, <1>3, <1>4 DEF CanPay
  <2>2. balance'[t][u] = mid[u] - (IF u = Pool THEN fees ELSE 0)
                                + (IF u = feeRecipient THEN fees ELSE 0)
    BY <1>1, <1>2, <1>3, <1>4, <2>1, MovedFacts
  <2>3. mid[u] \in Nat
    BY <1>2, <1>4 DEF Ledgers
  <2> QED BY <1>2, <1>3, <2>2, <2>3
<1>6. balance'[t][u] >= balance[t][u]
                          + (IF u = w THEN total - fees ELSE 0)
  BY <1>2, <1>3, <1>4, <1>5
<1> QED BY <1>6 DEF total, fees

(* batchSettle takes nothing from any user. *)
LEMMA BatchSettleMoves ==
    ASSUME TypeOK, NEW ids, BatchSettle(ids),
           NEW u \in Users, NEW t \in Tokens
    PROVE  balance'[t][u] >= balance[t][u]
<1> DEFINE due == {id \in ids : CanSettle(id)}
           mine == {id \in due : options[id].writer = u}
<1>1. mine \in SUBSET DOMAIN options
  BY DEF CanSettle, Exists
<1>2. balance' = [v \in Tokens |-> [a \in Addresses |->
            IF a = Pool THEN balance[v][a] - BatchTotal(due, v, Collaterals)
                        ELSE balance[v][a] + SettledTo(due, v, a)]]
  BY DEF BatchSettle
<1> HIDE DEF due
<1>3. balance'[t][u] = balance[t][u] + SettledTo(due, t, u)
  BY <1>2, Accounts
<1>4. balance[t][u] \in Nat /\ SettledTo(due, t, u) \in Nat
  <2>1. SettledTo(due, t, u) \in Nat
    BY <1>1, AmountTypes, BatchTotalNat DEF SettledTo
  <2> QED BY <2>1, Accounts
<1> QED BY <1>3, <1>4

(* Nobody's account falls by a transaction somebody else signed. *)
LEMMA OthersKeep ==
    ASSUME TypeOK, NEW w \in Users, SignedBy(w),
           NEW u \in Users, u # w, NEW t \in Tokens
    PROVE  balance'[t][u] >= balance[t][u]
<1>1. balance[t][u] \in Nat /\ \A e \in Expiries : e \in Nat
  BY Accounts DEF Expiries
<1>2. ASSUME NEW type \in OptionTypes, NEW k \in Strikes,
             NEW a \in Amounts, NEW p \in Premiums, NEW e \in Expiries,
             WriteOption(w, type, k, a, p, e)
      PROVE  balance'[t][u] >= balance[t][u]
  BY <1>1, <1>2, WriteMoves
<1>3. CASE \E id \in DOMAIN options : CancelOption(w, id)
  BY <1>1, <1>3, CancelMoves
<1>4. ASSUME NEW id \in DOMAIN options, BuyOption(w, id)
      PROVE  balance'[t][u] >= balance[t][u]
  <2>1. /\ options[id].premium \in Nat
        /\ FeeOf(options[id].premium, BUY_FEE_BPS) \in 0 .. options[id].premium
    <3>1. options[id].premium \in Nat
      BY Basics DEF Option
    <3> QED BY <3>1, FeeBounds
  <2>2. balance'[t][u] >= balance[t][u]
          - (IF t = PremiumToken /\ u = w THEN options[id].premium ELSE 0)
          + (IF t = PremiumToken /\ u = options[id].writer
             THEN options[id].premium
                    - FeeOf(options[id].premium, BUY_FEE_BPS) ELSE 0)
    BY <1>4, BuyMoves
  <2>3. balance'[t][u] \in Nat
    BY <1>4, BuyStep, Accounts DEF TypeOK
  <2> QED BY <1>1, <2>1, <2>2, <2>3
<1>5. ASSUME NEW id \in DOMAIN options, Exercise(w, id)
      PROVE  balance'[t][u] >= balance[t][u]
  <2> DEFINE price == IF options[id].optionType = CALL
                      THEN StrikeValue(options[id])
                      ELSE options[id].underlyingAmount
             in == IF options[id].optionType = CALL
                   THEN PremiumToken ELSE Underlying
             c == Collateral(options[id])
             fee == FeeOf(c, EXERCISE_FEE_BPS)
  <2>1. /\ price \in Nat
        /\ balance'[t][u] >= balance[t][u]
             - (IF t = in /\ u = w THEN price ELSE 0)
             + (IF t = in /\ u = options[id].writer THEN price ELSE 0)
             + (IF t = CollateralToken(options[id]) /\ u = w
                THEN c - fee ELSE 0)
    BY <1>5, ExerciseMoves
  <2>2. balance'[t][u] \in Nat
    BY <1>5, ExerciseStep, Accounts DEF TypeOK
  <2> HIDE DEF price, in, c, fee
  <2> QED BY <1>1, <2>1, <2>2
<1>6. CASE \E id \in DOMAIN options, new \in Addresses :
              TransferOption(w, id, new)
  BY <1>1, <1>6 DEF TransferOption
<1>7. ASSUME NEW id \in DOMAIN options, NEW k \in Strikes,
             NEW e \in Expiries, NEW p \in Premiums,
             RollOption(w, id, k, e, p)
      PROVE  balance'[t][u] >= balance[t][u]
  BY <1>1, <1>7, RollMoves
<1>8. CASE \E ids \in SUBSET DOMAIN options : BatchCancel(w, ids)
  BY <1>1, <1>8, BatchCancelMoves
<1>9. CASE \E new \in FeeRecipients : UpdateFeeRecipient(w, new)
  BY <1>1, <1>9 DEF UpdateFeeRecipient
<1> QED BY <1>2, <1>3, <1>4, <1>5, <1>6, <1>7, <1>8, <1>9 DEF SignedBy

-----------------------------------------------------------------------------
(* What the modals show, against what the methods do. *)

(* Batch totals add up and keep an order between their amounts. *)
LEMMA BatchTotalsOrdered ==
    ASSUME TypeOK, NEW ids, NEW t,
           NEW x \in [DOMAIN options -> Int], NEW y \in [DOMAIN options -> Int],
           NEW z \in [DOMAIN options -> Int],
           \A id \in DOMAIN options : x[id] + y[id] <= z[id]
    PROVE  BatchTotal(ids, t, x) + BatchTotal(ids, t, y)
             <= BatchTotal(ids, t, z)
<1> DEFINE In(id) == id \in ids /\ CollateralToken(options[id]) = t
           Part(v) == [id \in DOMAIN options |->
                         IF id \in ids /\ CollateralToken(options[id]) = t
                         THEN v[id] ELSE 0]
           f == Part(x)
           g == Part(y)
           h == Part(z)
           s == [id \in DOMAIN options |-> f[id] + g[id]]
<1>1. nextId \in Nat /\ DOMAIN options = 0 .. nextId - 1
  BY Basics DEF TypeOK
<1>2. ASSUME NEW id \in DOMAIN options
      PROVE  /\ f[id] \in Int /\ g[id] \in Int /\ h[id] \in Int
             /\ f[id] + g[id] <= h[id]
  <2>1. /\ f[id] = IF In(id) THEN x[id] ELSE 0
        /\ g[id] = IF In(id) THEN y[id] ELSE 0
        /\ h[id] = IF In(id) THEN z[id] ELSE 0
    OBVIOUS
  <2> HIDE DEF f, g, h, In
  <2> QED BY <2>1
<1>3. /\ f = [id \in DOMAIN options |-> f[id]]
      /\ g = [id \in DOMAIN options |-> g[id]]
      /\ h = [id \in DOMAIN options |-> h[id]]
  OBVIOUS
<1>4. /\ BatchTotal(ids, t, x) = SumUpTo(f, nextId)
      /\ BatchTotal(ids, t, y) = SumUpTo(g, nextId)
      /\ BatchTotal(ids, t, z) = SumUpTo(h, nextId)
  BY DEF BatchTotal
<1> HIDE DEF f, g, h
<1>5. /\ f \in [0 .. nextId - 1 -> Int] /\ g \in [0 .. nextId - 1 -> Int]
      /\ h \in [0 .. nextId - 1 -> Int] /\ s \in [0 .. nextId - 1 -> Int]
  BY <1>1, <1>2, <1>3
<1>6. \A id \in 0 .. nextId - 1 : s[id] = f[id] + g[id] /\ s[id] <= h[id]
  BY <1>1, <1>2
<1> HIDE DEF s
<1>7. SumUpTo(s, nextId) = SumUpTo(f, nextId) + SumUpTo(g, nextId)
  BY <1>1, <1>5, <1>6, SumAdd
<1>8. SumUpTo(s, nextId) <= SumUpTo(h, nextId)
  BY <1>1, <1>5, <1>6, SumMonotone
<1> QED BY <1>4, <1>7, <1>8

(* The pages' amounts are the contract's; their cancel fee, reckoned at an *)
(* earlier block, is the contract's or a fee that has lapsed since.        *)
LEMMA ShownAmounts ==
    ASSUME NEW o \in Option, block \in Nat, NEW shown \in 0 .. block
    PROVE  /\ ShownCollateral(o) = Collateral(o)
           /\ ShownRefund(o, shown) \in Int
           /\ ShownRefund(o, shown) <= Collateral(o) - CancelFee(o)
           /\ CancelFee(o) \in 0 .. Collateral(o)
           /\ WriterReceives(o) = o.premium - FeeOf(o.premium, BUY_FEE_BPS)
           /\ ShownReceive(o) =
                Collateral(o) - FeeOf(Collateral(o), EXERCISE_FEE_BPS)
<1>1. ShownCollateral(o) = Collateral(o)
  BY DEF ShownCollateral, Collateral, StrikeValue
<1>2. Collateral(o) \in Nat /\ CancelFee(o) \in 0 .. Collateral(o)
  BY AmountsNat, CancelFeeBounds
<1>3. FeeOf(Collateral(o), CANCEL_FEE_BPS) \in Nat
  BY <1>2, FeeBounds
<1>4. \A x, bps : ShownFee(x, bps) = IF bps > 0 THEN FeeOf(x, bps) ELSE 0
  BY DEF ShownFee, FeeOf
<1>5. /\ CANCEL_FEE_BPS > 0 /\ BUY_FEE_BPS > 0 /\ EXERCISE_FEE_BPS > 0
      /\ ~(0 > 0)
  BY DEF CANCEL_FEE_BPS, BUY_FEE_BPS, EXERCISE_FEE_BPS
<1>6. ShownCancelFee(o, shown) =
        IF shown >= o.expiryBlock THEN 0
        ELSE FeeOf(Collateral(o), CANCEL_FEE_BPS)
  BY <1>1, <1>4, <1>5 DEF ShownCancelFee
<1>7. /\ ShownCancelFee(o, shown) \in Nat
      /\ ShownCancelFee(o, shown) >= CancelFee(o)
  <2>1. o.expiryBlock \in Nat
    BY DEF Option
  <2> QED BY <1>3, <1>6, <2>1 DEF CancelFee
<1>8. /\ ShownRefund(o, shown) \in Int
      /\ ShownRefund(o, shown) <= Collateral(o) - CancelFee(o)
  BY <1>1, <1>2, <1>7 DEF ShownRefund
<1>9. /\ WriterReceives(o) = o.premium - FeeOf(o.premium, BUY_FEE_BPS)
      /\ ShownReceive(o) =
           Collateral(o) - FeeOf(Collateral(o), EXERCISE_FEE_BPS)
  BY <1>1, <1>4, <1>5 DEF WriterReceives, ShownReceive
<1> QED BY <1>1, <1>2, <1>8, <1>9

(* The write modal. *)
LEMMA WriteAsShown ==
    ASSUME TypeOK, NEW w \in Users, NEW type \in OptionTypes,
           NEW k \in Strikes, NEW a \in Amounts, NEW p \in Premiums,
           NEW e \in Expiries, WriteOption(w, type, k, a, p, e)
    PROVE  LET o == NewOption(w, type, k, a, p, e)
           IN  Gain(w, CollateralToken(o)) = -ShownCollateral(o)
<1> DEFINE o == NewOption(w, type, k, a, p, e)
           ct == CollateralToken(o)
<1>1. e \in Nat /\ block \in Nat
  BY DEF Expiries, TypeOK
<1>2. o \in Option
  BY <1>1, NewOptionType, InputAssumption
<1>3. ct \in Tokens /\ Collateral(o) \in Nat
  BY <1>2, AmountsNat DEF CollateralToken, Tokens
<1>4. balance'[ct][w] = balance[ct][w] - Collateral(o)
  BY <1>1, <1>3, WriteMoves
<1>5. ShownCollateral(o) = Collateral(o)
  BY <1>1, <1>2, ShownAmounts
<1>6. balance[ct][w] \in Nat
  BY <1>3, Accounts
<1> HIDE DEF o, ct
<1>7. Gain(w, ct) = -ShownCollateral(o)
  BY <1>3, <1>4, <1>5, <1>6 DEF Gain
<1> QED BY <1>7 DEF o, ct

(* The modals of an unsold option: cancel, roll, and what a batch is shown *)
(* to return.                                                              *)
LEMMA CancelAsShown ==
    ASSUME TypeOK, NEW w \in Users, NEW id \in DOMAIN options,
           CancelOption(w, id), NEW shown \in 0 .. block
    PROVE  Gain(w, CollateralToken(options[id]))
             >= ShownRefund(options[id], shown)
<1> DEFINE o == options[id]
           t == CollateralToken(o)
<1>1. o \in Option /\ t \in Tokens /\ block \in Nat
  BY Basics DEF TypeOK
<1>2. balance[t][w] \in Nat /\ balance'[t][w] \in Nat
  BY <1>1, CancelStep, Accounts DEF TypeOK
<1>3. balance'[t][w] >= balance[t][w] + (Collateral(o) - CancelFee(o))
  BY <1>1, CancelMoves
<1>4. /\ Collateral(o) \in Nat /\ CancelFee(o) \in 0 .. Collateral(o)
      /\ ShownRefund(o, shown) \in Int
      /\ ShownRefund(o, shown) <= Collateral(o) - CancelFee(o)
  BY <1>1, ShownAmounts, AmountsNat
<1> HIDE DEF o, t
<1>5. Gain(w, t) >= ShownRefund(o, shown)
  BY <1>2, <1>3, <1>4 DEF Gain
<1> QED BY <1>5 DEF o, t

(* A roll costs its writer no more than the difference the modal showed: the
   fee only falls as blocks pass and the new collateral is what was typed. *)
LEMMA RollAsShown ==
    ASSUME TypeOK, NEW w \in Users, NEW id \in DOMAIN options,
           NEW k \in Strikes, NEW e \in Expiries, NEW p \in Premiums,
           RollOption(w, id, k, e, p), NEW shown \in 0 .. block
    PROVE  Gain(w, CollateralToken(options[id]))
             >= -ShownNetDelta(options[id], k, shown)
<1> DEFINE o == options[id]
           new == NewOption(w, o.optionType, k, o.underlyingAmount, p, e)
           t == CollateralToken(o)
<1>1. o \in Option /\ t \in Tokens /\ block \in Nat /\ e \in Nat
  BY Basics DEF TypeOK, Expiries
<1>2. balance[t][w] \in Nat /\ balance'[t][w] \in Nat
  BY <1>1, RollStep, Accounts DEF TypeOK
<1>3. /\ balance'[t][w] >= balance[t][w]
           + (Collateral(o) - CancelFee(o) - Collateral(new))
      /\ Collateral(new) \in Nat
  BY <1>1, RollMoves
<1>4. /\ Collateral(o) \in Nat /\ CancelFee(o) \in 0 .. Collateral(o)
      /\ ShownRefund(o, shown) \in Int
      /\ ShownRefund(o, shown) <= Collateral(o) - CancelFee(o)
  BY <1>1, ShownAmounts, AmountsNat
<1>5. ShownCollateral([o EXCEPT !.strikePrice = k]) = Collateral(new)
  BY <1>1 DEF ShownCollateral, Collateral, StrikeValue, NewOption, Option
<1> HIDE DEF o, t, new
<1>6. Gain(w, t) >= -ShownNetDelta(o, k, shown)
  BY <1>2, <1>3, <1>4, <1>5 DEF Gain, ShownNetDelta
<1> QED BY <1>6 DEF o, t

(* A batch cancel pays back, in each token, at least the sum of the refunds
   shown for the rows of that token. *)
LEMMA BatchCancelAsShown ==
    ASSUME TypeOK, NEW w \in Users, NEW ids \in SUBSET DOMAIN options,
           BatchCancel(w, ids), NEW shown \in 0 .. block, NEW t \in Tokens
    PROVE  Gain(w, t) >= BatchTotal(ids, t,
             [id \in DOMAIN options |-> ShownRefund(options[id], shown)])
<1> DEFINE back == [id \in DOMAIN options |-> ShownRefund(options[id], shown)]
<1>1. ASSUME NEW id \in DOMAIN options
      PROVE  /\ back[id] \in Int
             /\ CancelFees[id] \in Nat /\ Collaterals[id] \in Nat
             /\ back[id] + CancelFees[id] <= Collaterals[id]
  <2>1. options[id] \in Option /\ block \in Nat
    BY Basics DEF TypeOK
  <2>2. /\ ShownRefund(options[id], shown) \in Int
        /\ ShownRefund(options[id], shown)
             <= Collateral(options[id]) - CancelFee(options[id])
    BY <2>1, ShownAmounts
  <2>3. /\ CancelFees[id] = CancelFee(options[id]) /\ CancelFees[id] \in Nat
        /\ Collaterals[id] = Collateral(options[id]) /\ Collaterals[id] \in Nat
    BY AmountTypes DEF CancelFees, Collaterals
  <2> QED BY <2>2, <2>3
<1>2. back \in [DOMAIN options -> Int]
  BY <1>1
<1>3. /\ CancelFees \in [DOMAIN options -> Int]
      /\ Collaterals \in [DOMAIN options -> Int]
  BY AmountTypes
<1> HIDE DEF back
<1>4. BatchTotal(ids, t, back) + BatchTotal(ids, t, CancelFees)
        <= BatchTotal(ids, t, Collaterals)
  BY <1>1, <1>2, <1>3, BatchTotalsOrdered
<1>5. /\ BatchTotal(ids, t, CancelFees) \in Nat
      /\ BatchTotal(ids, t, Collaterals) \in Nat
  BY AmountTypes, BatchTotalNat
<1>6. /\ balance[t][w] \in Nat /\ balance'[t][w] \in Nat
  BY BatchCancelStep, Accounts DEF TypeOK
<1>7. balance'[t][w] >= balance[t][w]
        + (BatchTotal(ids, t, Collaterals) - BatchTotal(ids, t, CancelFees))
  BY BatchCancelMoves
<1>8. BatchTotal(ids, t, back) \in Int
  <2> DEFINE f == [id \in DOMAIN options |->
                     IF id \in ids /\ CollateralToken(options[id]) = t
                     THEN back[id] ELSE 0]
  <2>1. nextId \in Nat /\ f \in [0 .. nextId - 1 -> Int]
    BY <1>2, Basics DEF TypeOK
  <2> HIDE DEF f
  <2>2. SumUpTo(f, nextId) \in Int
    BY <2>1, SumType
  <2> QED BY <2>2 DEF f, BatchTotal
<1>9. Gain(w, t) >= BatchTotal(ids, t, back)
  BY <1>4, <1>5, <1>6, <1>7, <1>8 DEF Gain
<1> QED BY <1>9 DEF back

(* The buy modal: its price, and what it says the writer receives. *)
LEMMA BuyAsShown ==
    ASSUME TypeOK, NEW w \in Users, NEW id \in DOMAIN options,
           BuyOption(w, id)
    PROVE  LET o == options[id]
           IN  /\ Gain(w, PremiumToken) >= -TotalCost(o)
               /\ Gain(o.writer, PremiumToken) >= WriterReceives(o)
<1> DEFINE o == options[id]
           p == o.premium
           fee == FeeOf(p, BUY_FEE_BPS)
<1>1. /\ o \in Option /\ o.writer \in Users /\ w # o.writer
      /\ PremiumToken \in Tokens
  BY Basics DEF BuyOption, CanBuy, MayBuy
<1>2. p \in Nat /\ fee \in 0..p
  <2>1. p \in Nat
    BY <1>1 DEF Option
  <2> QED BY <2>1, FeeBounds
<1>3. ASSUME NEW u \in Users
      PROVE  balance[PremiumToken][u] \in Nat /\ balance'[PremiumToken][u] \in Nat
  BY <1>1, BuyStep, Accounts DEF TypeOK
<1>4. ASSUME NEW u \in Users
      PROVE  balance'[PremiumToken][u] >= balance[PremiumToken][u]
               - (IF u = w THEN p ELSE 0)
               + (IF u = o.writer THEN p - fee ELSE 0)
  <2>1. balance'[PremiumToken][u] >= balance[PremiumToken][u]
          - (IF PremiumToken = PremiumToken /\ u = w THEN p ELSE 0)
          + (IF PremiumToken = PremiumToken /\ u = o.writer
             THEN p - fee ELSE 0)
    BY <1>1, BuyMoves
  <2> HIDE DEF o, p, fee
  <2> QED BY <2>1
<1>5. WriterReceives(o) = p - fee /\ TotalCost(o) = p
  <2>1. block \in Nat /\ 0 \in 0 .. block
    BY DEF TypeOK
  <2> QED BY <1>1, <2>1, ShownAmounts DEF TotalCost
<1> HIDE DEF o, p, fee
<1>6. Gain(w, PremiumToken) >= -TotalCost(o)
  BY <1>1, <1>2, <1>3, <1>4, <1>5 DEF Gain
<1>7. Gain(o.writer, PremiumToken) >= WriterReceives(o)
  BY <1>1, <1>2, <1>3, <1>4, <1>5 DEF Gain
<1> QED BY <1>6, <1>7 DEF o

(* A larger gain is worth no less at any spot. *)
LEMMA WorthOrdered ==
    ASSUME NEW x \in Int, NEW y \in Int, x >= y, NEW s \in Nat
    PROVE  x * s >= y * s
<1>1. x - y \in Nat
  OBVIOUS
<1>2. (x - y) * s \in Nat
  BY <1>1, ProductNat
<1>3. x * s = y * s + (x - y) * s
  OBVIOUS
<1>4. y * s \in Int
  OBVIOUS
<1> QED BY <1>2, <1>3, <1>4

(* The exercise modal: whatever the spot, the profit it shows is a lower   *)
(* bound of what the two tokens moved are worth.                           *)
LEMMA ExerciseAsShown ==
    ASSUME TypeOK, NEW w \in Users, NEW id \in DOMAIN options,
           Exercise(w, id), options[id].writer # w, NEW s \in Spots
    PROVE  LET o == options[id]
           IN  GainWorth(w, s)
                 >= ExercisePnl(o, s) + InPremium(o.premium, PremiumToken, s)
<1> DEFINE o == options[id]
           c == Collateral(o)
           fee == FeeOf(c, EXERCISE_FEE_BPS)
           in == IF o.optionType = CALL THEN PremiumToken ELSE Underlying
           out == CollateralToken(o)
           price == IF o.optionType = CALL THEN StrikeValue(o)
                                           ELSE o.underlyingAmount
           rate(t) == IF t = Underlying THEN s ELSE PRECISION
           got == ShownReceive(o)
<1>1. /\ o \in Option /\ o.writer # w /\ o.premium \in Nat
      /\ o.optionType \in {CALL, PUT}
      /\ Underlying \in Tokens /\ PremiumToken \in Tokens
  BY Basics DEF Option, OptionTypes
<1>2. s \in Nat /\ PRECISION \in Nat /\ \A t : rate(t) \in Nat
  BY SpotAssumption, PrecisionAssumption
<1>3. /\ c \in Nat /\ price \in Nat /\ fee \in 0..c
  BY <1>1, AmountsNat, ExerciseMoves
<1>4. got = c - fee /\ got \in Nat
  <2>1. block \in Nat /\ 0 \in 0 .. block
    BY DEF TypeOK
  <2>2. got = c - fee
    BY <1>1, <2>1, ShownAmounts
  <2> QED BY <1>3, <2>2
<1>5. ShownPay(o) = price
  BY DEF ShownPay, StrikeValue
<1>6. \A x, t : InPremium(x, t, s) = x * rate(t)
  BY DEF InPremium
<1>7. ASSUME NEW t \in Tokens
      PROVE  /\ Gain(w, t) \in Int
             /\ Gain(w, t) >= (IF t = out THEN got ELSE 0)
                                - (IF t = in THEN price ELSE 0)
  <2>1. balance'[t][w] >= balance[t][w]
          - (IF t = in /\ w = w THEN price ELSE 0)
          + (IF t = in /\ w = o.writer THEN price ELSE 0)
          + (IF t = out /\ w = w THEN c - fee ELSE 0)
    BY ExerciseMoves
  <2>2. balance[t][w] \in Nat /\ balance'[t][w] \in Nat
    BY ExerciseStep, Accounts DEF TypeOK
  <2> HIDE DEF o, c, fee, in, out, price, got
  <2> QED BY <1>1, <1>3, <1>4, <2>1, <2>2 DEF Gain
<1>8. {in, out} = {Underlying, PremiumToken}
  BY <1>1 DEF CollateralToken
<1>9. ExercisePnl(o, s) + InPremium(o.premium, PremiumToken, s)
        = got * rate(out) - price * rate(in)
  <2> DEFINE q == o.premium
             r == rate(PremiumToken)
             v == rate(Underlying)
  <2>1. r \in Nat /\ v \in Nat /\ q \in Nat
    BY <1>1, <1>2
  <2>2. (q + price) * r = q * r + price * r
    <3> HIDE DEF q, r, v, price
    <3> QED BY <1>3, <2>1
  <2>3. /\ got * r \in Int /\ got * v \in Int /\ price * r \in Int
        /\ price * v \in Int /\ q * r \in Int
    <3> HIDE DEF q, r, v, price, got
    <3> QED BY <1>3, <1>4, <2>1
  <2>4. CASE o.optionType = CALL
    <3>1. out = Underlying /\ in = PremiumToken
      BY <2>4 DEF CollateralToken
    <3>2. ExercisePnl(o, s) = got * v - (q + price) * r
      BY <1>5, <1>6, <2>4 DEF ExercisePnl
    <3>3. InPremium(o.premium, PremiumToken, s) = q * r
      BY <1>6
    <3>4. rate(out) = v /\ rate(in) = r
      BY <3>1
    <3> HIDE DEF q, r, v, price, got, o, in, out, rate
    <3> QED BY <2>2, <2>3, <3>2, <3>3, <3>4
  <2>5. CASE o.optionType # CALL
    <3>1. out = PremiumToken /\ in = Underlying
      BY <2>5 DEF CollateralToken
    <3>2. ExercisePnl(o, s) = got * r - q * r - price * v
      BY <1>5, <1>6, <2>5 DEF ExercisePnl
    <3>3. InPremium(o.premium, PremiumToken, s) = q * r
      BY <1>6
    <3>4. rate(out) = r /\ rate(in) = v
      BY <3>1
    <3> HIDE DEF q, r, v, price, got, o, in, out, rate
    <3> QED BY <2>3, <3>2, <3>3, <3>4
  <2> QED BY <2>4, <2>5
<1> HIDE DEF o, c, fee, price, got, in, out, rate
<1>10. GainWorth(w, s) >= got * rate(out) - price * rate(in)
  <2>1. /\ got * rate(out) \in Int /\ price * rate(in) \in Int
        /\ rate(in) \in Nat /\ rate(out) \in Nat
    BY <1>2, <1>3, <1>4
  <2>2. in \in Tokens /\ out \in Tokens
    BY <1>1, <1>8
  <2>3. CASE Underlying = PremiumToken
    <3>1. in = out /\ in = Underlying /\ out = Underlying
      BY <1>8, <2>3
    <3>2. GainWorth(w, s) = Gain(w, Underlying) * rate(Underlying) + 0
      BY <1>6, <2>3 DEF GainWorth
    <3>3. Gain(w, in) >= got - price /\ Gain(w, in) \in Int
      BY <1>7, <2>2, <3>1
    <3>4. Gain(w, in) * rate(in) >= (got - price) * rate(in)
      BY <1>3, <1>4, <2>1, <3>3, WorthOrdered
    <3>5. (got - price) * rate(in) = got * rate(in) - price * rate(in)
      BY <1>3, <1>4, <2>1
    <3>6. Gain(w, in) * rate(in) \in Int
      BY <2>1, <3>3
    <3> QED BY <3>1, <3>2, <3>4, <3>5, <3>6
  <2>4. CASE Underlying # PremiumToken
    <3>1. in # out
      BY <1>8, <2>4
    <3>2. GainWorth(w, s) = Gain(w, Underlying) * rate(Underlying)
                              + Gain(w, PremiumToken) * rate(PremiumToken)
      BY <1>6, <2>4 DEF GainWorth
    <3>3. /\ Gain(w, in) >= -price /\ Gain(w, in) \in Int
          /\ Gain(w, out) >= got /\ Gain(w, out) \in Int
      BY <1>3, <1>4, <1>7, <2>2, <3>1
    <3>4. Gain(w, in) * rate(in) >= (-price) * rate(in)
      BY <1>3, <2>1, <3>3, WorthOrdered
    <3>5. Gain(w, out) * rate(out) >= got * rate(out)
      BY <1>4, <2>1, <3>3, WorthOrdered
    <3>6. (-price) * rate(in) = -(price * rate(in))
      BY <1>3, <2>1
    <3>7. Gain(w, in) * rate(in) \in Int /\ Gain(w, out) * rate(out) \in Int
      BY <2>1, <3>3
    <3>8. GainWorth(w, s) = Gain(w, in) * rate(in) + Gain(w, out) * rate(out)
      <4>1. \/ in = Underlying /\ out = PremiumToken
            \/ in = PremiumToken /\ out = Underlying
        BY <1>8, <3>1
      <4>2. CASE in = Underlying /\ out = PremiumToken
        <5>1. GainWorth(w, s) = Gain(w, in) * rate(in)
                                  + Gain(w, out) * rate(out)
          BY <3>2, <4>2, Zenon
        <5> QED BY <5>1
      <4>3. CASE in = PremiumToken /\ out = Underlying
        <5>1. GainWorth(w, s) = Gain(w, out) * rate(out)
                                  + Gain(w, in) * rate(in)
          BY <3>2, <4>3, Zenon
        <5> QED BY <3>7, <5>1
      <4> QED BY <4>1, <4>2, <4>3
    <3> QED BY <2>1, <3>4, <3>5, <3>6, <3>7, <3>8
  <2> QED BY <2>3, <2>4
<1> QED BY <1>9, <1>10 DEF o

(* Nobody pays more than he was shown: whatever the pool's state and the   *)
(* block at which a modal of the pages was opened, the call it signs takes *)
(* no more and gives no less than it showed, at any spot price; and no     *)
(* account falls in a transaction of somebody else.                        *)
THEOREM ModalsAreHonest == Spec => NobodyPaysMoreThanShown
<1> DEFINE Honest == \A u \in Users :
              /\ (\E t \in Tokens : Gain(u, t) < 0) => SignedBy(u)
              /\ \A shown \in 0 .. block : ModalsHold(u, shown)
<1>1. TypeOK /\ Next => Honest
  <2> SUFFICES ASSUME TypeOK, Next, NEW u \in Users PROVE
        /\ (\E t \in Tokens : Gain(u, t) < 0) => SignedBy(u)
        /\ \A shown \in 0 .. block : ModalsHold(u, shown)
    OBVIOUS
  <2>1. ASSUME NEW t \in Tokens, Gain(u, t) < 0
        PROVE  SignedBy(u)
    <3>1. TypeOK'
      BY NextStep
    <3>2. balance[t][u] \in Nat /\ balance'[t][u] \in Nat
      BY <3>1, Accounts DEF TypeOK
    <3>3. ~(balance'[t][u] >= balance[t][u])
      BY <2>1, <3>2 DEF Gain
    <3>4. CASE NextBlock
      BY <3>2, <3>3, <3>4 DEF NextBlock
    <3>5. CASE Permissionless
      <4>1. CASE \E id \in DOMAIN options : Settle(id)
        BY <3>3, <4>1, SettleMoves
      <4>2. CASE \E ids \in SUBSET (0 .. MaxOptions) : BatchSettle(ids)
        BY <3>3, <4>2, BatchSettleMoves
      <4> QED BY <3>5, <4>1, <4>2 DEF Permissionless
    <3>6. CASE \E w \in Users : SignedBy(w)
      BY <3>3, <3>6, OthersKeep
    <3> QED BY <3>4, <3>5, <3>6 DEF Next
  <2>2. ASSUME NEW shown \in 0 .. block PROVE ModalsHold(u, shown)
    <3>1. ASSUME NEW id \in DOMAIN options
          PROVE  LET o == options[id]
                     t == CollateralToken(o)
                 IN  /\ CancelOption(u, id) => Gain(u, t) >= ShownRefund(o, shown)
                     /\ \A k \in Strikes, e \in Expiries, p \in Premiums :
                          RollOption(u, id, k, e, p) =>
                             Gain(u, t) >= -ShownNetDelta(o, k, shown)
                     /\ BuyOption(u, id) =>
                          /\ Gain(u, PremiumToken) >= -TotalCost(o)
                          /\ Gain(o.writer, PremiumToken) >= WriterReceives(o)
                     /\ Exercise(u, id) /\ o.writer # u =>
                          \A s \in Spots :
                             GainWorth(u, s)
                             >= ExercisePnl(o, s)
                                  + InPremium(o.premium, PremiumToken, s)
      BY CancelAsShown, RollAsShown, BuyAsShown, ExerciseAsShown
    <3>2. \A type \in OptionTypes, k \in Strikes, a \in Amounts, p \in Premiums,
             e \in Expiries :
            WriteOption(u, type, k, a, p, e) =>
               LET o == NewOption(u, type, k, a, p, e)
               IN  Gain(u, CollateralToken(o)) = -ShownCollateral(o)
      BY WriteAsShown
    <3>3. \A ids \in SUBSET DOMAIN options :
            BatchCancel(u, ids) =>
               \A t \in Tokens :
                  Gain(u, t) >= BatchTotal(ids, t,
                      [id \in DOMAIN options |-> ShownRefund(options[id], shown)])
      BY BatchCancelAsShown
    <3> QED BY <3>1, <3>2, <3>3 DEF ModalsHold
  <2> QED BY <2>1, <2>2
<1>2. TypeOK /\ [Next]_vars => [Honest]_vars
  BY <1>1
<1> QED BY <1>2, TypeCorrect, PTL DEF Spec, NobodyPaysMoreThanShown

-----------------------------------------------------------------------------
(* The spread router.  A router call in progress has run none, one or both *)
(* of its legs; the inductive invariant says what the legs that ran have   *)
(* changed since the transaction began.                                    *)

TriedWrites == {WriteLeg(type, k, a, p, e) : type \in OptionTypes,
                  k \in Strikes, a \in Amounts, p \in Premiums, e \in Expiries}
TriedBuys == {BuyLeg(id) : id \in 0 .. MaxOptions}

(* The option a write leg of wallet w writes. *)
LegOption(w, leg) ==
    NewOption(w, leg.type, leg.strike, leg.amount, leg.premium, leg.expiry)

(* What a leg takes from the wallet in token t, over the pool's options    *)
(* when the router call began.                                             *)
WriteCost(w, leg, t) ==
    IF CollateralToken(LegOption(w, leg)) = t
    THEN Collateral(LegOption(w, leg)) ELSE 0
BuyCost(leg, opts, t) ==
    IF PremiumToken = t /\ leg.id \in DOMAIN opts
    THEN opts[leg.id].premium ELSE 0
LegCost(w, leg, opts, t) ==
    IF leg.method = "writeOption" THEN WriteCost(w, leg, t)
    ELSE BuyCost(leg, opts, t)

WellFormed(b) ==
    /\ b = [nextId |-> b.nextId, options |-> b.options, balance |-> b.balance]
    /\ b.nextId \in Nat
    /\ b.options \in [0 .. b.nextId - 1 -> Option]
    /\ b.balance \in [Tokens -> Ledgers]

(* After the first leg: one option more, of the wallet's own. *)
FirstLegRan(w, leg, b) ==
    /\ nextId = b.nextId + 1
    /\ \A id \in DOMAIN b.options : options[id] = b.options[id]
    /\ options[b.nextId].writer = w
    /\ OnOffer(options[b.nextId])
    /\ \A t \in Tokens, u \in Users :
          balance[t][u] = b.balance[t][u]
                            - (IF u = w THEN WriteCost(w, leg, t) ELSE 0)

(* After both: every earlier option as it was or moved along an edge of    *)
(* the lifecycle, the new ones on offer, two effects, and a bounded price. *)
BothLegsRan(w, leg1, leg2, b) ==
    /\ DOMAIN b.options \subseteq DOMAIN options
    /\ \A id \in DOMAIN b.options :
          options[id] = b.options[id] \/ Advances(b.options[id], options[id])
    /\ \A id \in DOMAIN options \ DOMAIN b.options : OnOffer(options[id])
    /\ (nextId - b.nextId) + Sales(options, b.options) = 2
    /\ \A t \in Tokens, u \in Users :
          balance[t][u] >= b.balance[t][u]
             - (IF u = w THEN WriteCost(w, leg1, t)
                                + LegCost(w, leg2, b.options, t)
                ELSE 0)

(* A router call in progress, over its two legs. *)
CallState(w, leg1, leg2, b) ==
    \/ strategy.legs = <<leg1, leg2>> /\ PoolState = b
    \/ strategy.legs = <<leg2>> /\ FirstLegRan(w, leg1, b)
    \/ strategy.legs = <<>> /\ BothLegsRan(w, leg1, leg2, b)

Approvals(w, leg1, leg2, b, approved) ==
    \A t \in DOMAIN approved :
        approved[t] = WriteCost(w, leg1, t) + LegCost(w, leg2, b.options, t)

InCall ==
    /\ strategy = [wallet |-> strategy.wallet, legs |-> strategy.legs,
                   before |-> strategy.before, approved |-> strategy.approved]
    /\ strategy.wallet \in Users
    /\ WellFormed(strategy.before)
    /\ \E leg1 \in TriedWrites, leg2 \in TriedWrites \cup TriedBuys :
          /\ Approvals(strategy.wallet, leg1, leg2, strategy.before,
                       strategy.approved)
          /\ CallState(strategy.wallet, leg1, leg2, strategy.before)

RouterInv == TypeOK /\ (Idle \/ InCall)

(* Sequences of at most two legs. *)
LEMMA LegSequences ==
    ASSUME NEW x, NEW y
    PROVE  /\ <<x, y>> # <<>> /\ Head(<<x, y>>) = x /\ Tail(<<x, y>>) = <<y>>
           /\ <<y>> # <<>> /\ Head(<<y>>) = y /\ Tail(<<y>>) = <<>>
OBVIOUS

(* A wallet's write leg is a well-formed call with its option's price. *)
LEMMA WriteLegFacts ==
    ASSUME NEW w \in Users, NEW leg \in TriedWrites
    PROVE  /\ leg.method = "writeOption"
           /\ leg.type \in OptionTypes /\ leg.strike \in Strikes
           /\ leg.amount \in Amounts /\ leg.premium \in Premiums
           /\ leg.expiry \in Nat /\ leg.expiry \in Expiries
           /\ LegOption(w, leg) \in Option
           /\ LegOption(w, leg).writer = w
           /\ LegOption(w, leg).status = OPEN
           /\ LegOption(w, leg).buyer = NoOne
           /\ LegOption(w, leg).expiryBlock = leg.expiry
           /\ \A t : WriteCost(w, leg, t) \in Nat
           /\ RequiredFor(leg).token = CollateralToken(LegOption(w, leg))
           /\ RequiredFor(leg).amount = Collateral(LegOption(w, leg))
<1>1. PICK type \in OptionTypes, k \in Strikes, a \in Amounts, p \in Premiums,
           e \in Expiries : leg = WriteLeg(type, k, a, p, e)
  BY DEF TriedWrites
<1>2. /\ leg.method = "writeOption" /\ leg.type = type /\ leg.strike = k
      /\ leg.amount = a /\ leg.premium = p /\ leg.expiry = e
  BY <1>1 DEF WriteLeg
<1>3. e \in Nat
  BY DEF Expiries
<1>4. LegOption(w, leg) = NewOption(w, type, k, a, p, e)
  BY <1>2 DEF LegOption
<1>5. NewOption(w, type, k, a, p, e) \in Option
  BY <1>3, NewOptionType, InputAssumption
<1>6. /\ LegOption(w, leg).writer = w /\ LegOption(w, leg).status = OPEN
      /\ LegOption(w, leg).buyer = NoOne /\ LegOption(w, leg).expiryBlock = e
  BY <1>4 DEF NewOption
<1>7. \A t : WriteCost(w, leg, t) \in Nat
  BY <1>4, <1>5, AmountsNat DEF WriteCost
<1>8. /\ RequiredFor(leg).token = CollateralToken(LegOption(w, leg))
      /\ RequiredFor(leg).amount = Collateral(LegOption(w, leg))
  BY <1>2, <1>4 DEF RequiredFor, CollateralToken, Collateral, StrikeValue,
                    NewOption
<1> QED BY <1>2, <1>3, <1>4, <1>5, <1>6, <1>7, <1>8

(* A buy leg's price is a natural number. *)
LEMMA BuyLegFacts ==
    ASSUME NEW leg \in TriedBuys, NEW b, WellFormed(b)
    PROVE  leg.method = "buyOption" /\ \A t : BuyCost(leg, b.options, t) \in Nat
<1>1. PICK id \in 0 .. MaxOptions : leg = BuyLeg(id)
  BY DEF TriedBuys
<1>2. leg.method = "buyOption" /\ leg.id = id
  BY <1>1 DEF BuyLeg
<1>3. \A i \in DOMAIN b.options : b.options[i].premium \in Nat
  BY DEF WellFormed, Option
<1> QED BY <1>2, <1>3 DEF BuyCost

(* The call in progress is that of wallet w, with these legs, on this state. *)
IsCall(w, leg1, leg2, b, approved) ==
    /\ strategy = [wallet |-> w, legs |-> strategy.legs,
                   before |-> b, approved |-> approved]
    /\ WellFormed(b)
    /\ Approvals(w, leg1, leg2, b, approved)
    /\ CallState(w, leg1, leg2, b)

(* A call in progress taken apart and put together. *)
LEMMA CallParts ==
    ASSUME InCall
    PROVE  \E w \in Users, leg1 \in TriedWrites,
              leg2 \in TriedWrites \cup TriedBuys :
             \E b, approved : IsCall(w, leg1, leg2, b, approved)
BY DEF InCall, IsCall

(* A step inside a router call that keeps who signed, what was saved and what
   was approved leaves the invariant to one fact: the state of the call. *)
LEMMA CallWhole ==
    ASSUME NEW w \in Users, NEW leg1 \in TriedWrites,
           NEW leg2 \in TriedWrites \cup TriedBuys,
           NEW b, NEW approved, NEW legs,
           strategy' = [wallet |-> w, legs |-> legs, before |-> b,
                        approved |-> approved],
           WellFormed(b), Approvals(w, leg1, leg2, b, approved),
           CallState(w, leg1, leg2, b)'
    PROVE  InCall'
<1>1. /\ strategy'.wallet = w /\ strategy'.legs = legs
      /\ strategy'.before = b /\ strategy'.approved = approved
  OBVIOUS
<1>2. TriedWrites' = TriedWrites /\ TriedBuys' = TriedBuys
  BY DEF TriedWrites, TriedBuys
<1> QED BY <1>1, <1>2
        DEF InCall, WellFormed, Approvals, LegCost, WriteCost, BuyCost

(* The state of the call tells whether one is in progress. *)
LEMMA CallIsNotIdle == ASSUME InCall PROVE ~Idle
<1>1. strategy.wallet # NoOne
  BY AddressAssumption DEF InCall, Addresses
<1> QED BY <1>1 DEF Idle, NoCall

(* executeSpread and executeDualWrite: nothing has changed, and what the   *)
(* page asked the wallet to approve is what the two legs cost.             *)
LEMMA BeginCalls ==
    ASSUME TypeOK, NEW w \in Users, NEW leg1 \in TriedWrites,
           NEW leg2 \in TriedWrites \cup TriedBuys,
           Begin(w, <<leg1, leg2>>)
    PROVE  RouterInv' /\ strategy'.before = PoolState
<1> DEFINE legs == <<leg1, leg2>>
<1>1. PICK b : b = PoolState
  OBVIOUS
<1>2. PICK approved : approved = IF PageStrategy(legs)
                                 THEN ComputeRequiredAllowances(legs) ELSE <<>>
  OBVIOUS
<1>3. /\ strategy' = [wallet |-> w, legs |-> legs, before |-> b,
                      approved |-> approved]
      /\ UNCHANGED vars
  BY <1>1, <1>2 DEF Begin
<1>4. /\ b.nextId = nextId /\ b.options = options /\ b.balance = balance
      /\ WellFormed(b)
  BY <1>1 DEF PoolState, WellFormed, TypeOK, Ledgers
<1>5. Approvals(w, leg1, leg2, b, approved)
  <2>1. CASE ~PageStrategy(legs)
    BY <1>2, <2>1 DEF Approvals
  <2>2. CASE PageStrategy(legs)
    <3> SUFFICES ASSUME NEW t \in Tokens
                 PROVE  ComputeRequiredAllowances(legs)[t] =
                          WriteCost(w, leg1, t) + LegCost(w, leg2, options, t)
      BY <1>2, <1>4, <2>2 DEF Approvals, ComputeRequiredAllowances
    <3> DEFINE of(leg) ==
                 IF leg.method = "buyOption" /\ leg.id \notin DOMAIN options
                 THEN 0
                 ELSE LET r == RequiredFor(leg)
                      IN  IF r.token = t THEN r.amount ELSE 0
    <3>1. ComputeRequiredAllowances(legs)[t] = of(leg1) + of(leg2)
      BY DEF ComputeRequiredAllowances
    <3>2. ASSUME NEW leg \in TriedWrites
          PROVE  of(leg) = WriteCost(w, leg, t) /\ leg.method = "writeOption"
      BY <3>2, WriteLegFacts DEF WriteCost
    <3>3. ASSUME NEW leg \in TriedBuys
          PROVE  of(leg) = BuyCost(leg, options, t) /\ leg.method = "buyOption"
      <4>1. leg.method = "buyOption"
        BY <1>4, BuyLegFacts
      <4> QED BY <4>1 DEF BuyCost, RequiredFor
    <3>4. of(leg2) = LegCost(w, leg2, options, t)
      BY <3>2, <3>3 DEF LegCost
    <3> QED BY <3>1, <3>2, <3>4
  <2> QED BY <2>1, <2>2
<1>6. CallState(w, leg1, leg2, b)'
  <2>1. strategy'.legs = <<leg1, leg2>>
    BY <1>3
  <2>2. PoolState' = b
    BY <1>1, <1>3 DEF PoolState, vars
  <2> QED BY <2>1, <2>2 DEF CallState
<1> HIDE DEF legs
<1>7. InCall'
  BY <1>3, <1>4, <1>5, <1>6, CallWhole
<1>8. TypeOK'
  BY <1>3 DEF TypeOK, vars
<1>9. strategy'.before = PoolState
  BY <1>1, <1>3
<1> QED BY <1>7, <1>8, <1>9 DEF RouterInv

(* A write leg is one call of the pool's writeOption for the wallet. *)
LEMMA WriteLegRuns ==
    ASSUME TypeOK, NEW w \in Users, NEW leg \in TriedWrites, PoolCall(w, leg)
    PROVE  /\ TypeOK'
           /\ block' = block /\ nextId' = nextId + 1
           /\ DOMAIN options' = 0 .. nextId
           /\ options'[nextId] = LegOption(w, leg)
           /\ \A id \in DOMAIN options : options'[id] = options[id]
           /\ OnOffer(LegOption(w, leg))
           /\ \A t \in Tokens, u \in Users :
                balance'[t][u] = balance[t][u]
                  - (IF u = w THEN WriteCost(w, leg, t) ELSE 0)
<1>1. /\ leg.method = "writeOption" /\ leg.type \in OptionTypes
      /\ leg.strike \in Strikes /\ leg.amount \in Amounts
      /\ leg.premium \in Premiums /\ leg.expiry \in Nat
      /\ LegOption(w, leg) \in Option /\ LegOption(w, leg).status = OPEN
      /\ LegOption(w, leg).buyer = NoOne
      /\ LegOption(w, leg).expiryBlock = leg.expiry
  BY WriteLegFacts
<1>2. WriteOption(w, leg.type, leg.strike, leg.amount, leg.premium, leg.expiry)
  BY <1>1 DEF PoolCall
<1>3. TypeOK'
  BY <1>1, <1>2, WriteStep
<1>4. /\ block' = block /\ nextId' = nextId + 1
      /\ options' = Extended(options, LegOption(w, leg))
      /\ ExpiryInRange(leg.expiry)
  BY <1>2 DEF WriteOption, LegOption
<1>5. /\ nextId \in Nat /\ DOMAIN options = 0 .. nextId - 1
      /\ options \in [0 .. nextId - 1 -> Option]
  BY DEF TypeOK
<1>6. /\ DOMAIN options' = 0 .. nextId
      /\ options'[nextId] = LegOption(w, leg)
      /\ \A id \in DOMAIN options : options'[id] = options[id]
  BY <1>1, <1>4, <1>5, ExtendedType
<1>7. OnOffer(LegOption(w, leg))
  BY <1>1, <1>4 DEF OnOffer, ExpiryInRange
<1>8. ASSUME NEW t \in Tokens, NEW u \in Users
      PROVE  balance'[t][u] = balance[t][u]
               - (IF u = w THEN WriteCost(w, leg, t) ELSE 0)
  <2>1. balance'[t][u] = balance[t][u]
          - (IF t = CollateralToken(LegOption(w, leg)) /\ u = w
             THEN Collateral(LegOption(w, leg)) ELSE 0)
    BY <1>1, <1>2, WriteMoves DEF LegOption
  <2> QED BY <2>1 DEF WriteCost
<1> QED BY <1>3, <1>4, <1>6, <1>7, <1>8

(* The first leg always writes. *)
LEMMA FirstLegRuns ==
    ASSUME TypeOK, NEW w \in Users, NEW leg \in TriedWrites, PoolCall(w, leg),
           NEW b, b = PoolState
    PROVE  TypeOK' /\ FirstLegRan(w, leg, b)'
<1>1. /\ b.nextId = nextId /\ b.options = options /\ b.balance = balance
  BY DEF PoolState
<1>2. /\ TypeOK' /\ block' = block /\ nextId' = nextId + 1
      /\ options'[nextId] = LegOption(w, leg)
      /\ \A id \in DOMAIN options : options'[id] = options[id]
      /\ OnOffer(LegOption(w, leg))
      /\ \A t \in Tokens, u \in Users :
           balance'[t][u] = balance[t][u]
             - (IF u = w THEN WriteCost(w, leg, t) ELSE 0)
  BY WriteLegRuns
<1>3. LegOption(w, leg).writer = w
  BY WriteLegFacts
<1>4. OnOffer(options[b.nextId])'
  BY <1>1, <1>2 DEF OnOffer
<1>5. Users' = Users /\ Tokens' = Tokens
  BY DEF Tokens
<1> QED BY <1>1, <1>2, <1>3, <1>4, <1>5 DEF FirstLegRan, WriteCost

(* What the first leg left for the second. *)
LEMMA AfterFirstLeg ==
    ASSUME TypeOK, NEW w \in Users, NEW leg \in TriedWrites, NEW b,
           WellFormed(b), FirstLegRan(w, leg, b)
    PROVE  /\ b.nextId \in Nat /\ nextId = b.nextId + 1
           /\ DOMAIN b.options = 0 .. b.nextId - 1
           /\ DOMAIN options = 0 .. b.nextId
           /\ \A id \in DOMAIN b.options :
                 b.options[id] \in Option /\ options[id] = b.options[id]
           /\ \A t \in Tokens, u \in Users :
                 /\ b.balance[t][u] \in Nat
                 /\ balance[t][u] \in Nat
                 /\ WriteCost(w, leg, t) \in Nat
                 /\ balance[t][u] = b.balance[t][u]
                      - (IF u = w THEN WriteCost(w, leg, t) ELSE 0)
<1>1. /\ b.nextId \in Nat /\ nextId = b.nextId + 1
      /\ DOMAIN b.options = 0 .. b.nextId - 1
      /\ \A id \in DOMAIN b.options :
            b.options[id] \in Option /\ options[id] = b.options[id]
  BY DEF WellFormed, FirstLegRan
<1>2. DOMAIN options = 0 .. b.nextId
  BY <1>1 DEF TypeOK
<1>3. ASSUME NEW t \in Tokens, NEW u \in Users
      PROVE  /\ b.balance[t][u] \in Nat /\ balance[t][u] \in Nat
             /\ WriteCost(w, leg, t) \in Nat
  BY WriteLegFacts, Accounts DEF WellFormed, Ledgers, Addresses
<1> QED BY <1>1, <1>2, <1>3 DEF FirstLegRan

(* The second leg writes: two new options of the wallet's. *)
LEMMA SecondWriteRuns ==
    ASSUME TypeOK, NEW w \in Users, NEW leg1 \in TriedWrites,
           NEW leg2 \in TriedWrites, PoolCall(w, leg2),
           NEW b, WellFormed(b), FirstLegRan(w, leg1, b)
    PROVE  TypeOK' /\ BothLegsRan(w, leg1, leg2, b)'
<1>1. /\ TypeOK' /\ block' = block /\ nextId' = nextId + 1
      /\ DOMAIN options' = 0 .. nextId
      /\ options'[nextId] = LegOption(w, leg2)
      /\ \A id \in DOMAIN options : options'[id] = options[id]
      /\ OnOffer(LegOption(w, leg2))
      /\ \A t \in Tokens, u \in Users :
           balance'[t][u] = balance[t][u]
             - (IF u = w THEN WriteCost(w, leg2, t) ELSE 0)
  BY WriteLegRuns
<1>2. /\ b.nextId \in Nat /\ nextId = b.nextId + 1
      /\ DOMAIN b.options = 0 .. b.nextId - 1
      /\ DOMAIN options = 0 .. b.nextId
      /\ \A id \in DOMAIN b.options :
            b.options[id] \in Option /\ options[id] = b.options[id]
  BY AfterFirstLeg
<1>3. /\ DOMAIN b.options \subseteq DOMAIN options'
      /\ \A id \in DOMAIN b.options : options'[id] = b.options[id]
  BY <1>1, <1>2
<1>4. ASSUME NEW id \in DOMAIN options' \ DOMAIN b.options
      PROVE  OnOffer(options[id])'
  <2>1. id = b.nextId \/ id = nextId
    BY <1>1, <1>2
  <2>2. CASE id = b.nextId
    BY <1>1, <1>2, <2>2 DEF FirstLegRan, OnOffer
  <2>3. CASE id = nextId
    BY <1>1, <2>3 DEF OnOffer
  <2> QED BY <2>1, <2>2, <2>3
<1>5. Sales(options', b.options) = 0
  <2>1. {id \in DOMAIN b.options :
           b.options[id].status = OPEN /\ options'[id].status = PURCHASED} = {}
    BY <1>3 DEF OPEN, PURCHASED
  <2> QED BY <2>1, FS_EmptySet DEF Sales
<1>6. (nextId' - b.nextId) + Sales(options', b.options) = 2
  BY <1>1, <1>2, <1>5
<1>7. ASSUME NEW t \in Tokens, NEW u \in Users
      PROVE  balance'[t][u] >= b.balance[t][u]
               - (IF u = w THEN WriteCost(w, leg1, t)
                                  + LegCost(w, leg2, b.options, t)
                  ELSE 0)
  <2>1. LegCost(w, leg2, b.options, t) = WriteCost(w, leg2, t)
    BY WriteLegFacts DEF LegCost
  <2>2. WriteCost(w, leg2, t) \in Nat
    BY WriteLegFacts
  <2>3. /\ b.balance[t][u] \in Nat /\ WriteCost(w, leg1, t) \in Nat
        /\ balance[t][u] = b.balance[t][u]
             - (IF u = w THEN WriteCost(w, leg1, t) ELSE 0)
    BY AfterFirstLeg
  <2>4. balance'[t][u] = balance[t][u]
          - (IF u = w THEN WriteCost(w, leg2, t) ELSE 0)
    BY <1>1
  <2> QED BY <2>1, <2>2, <2>3, <2>4
<1>8. BothLegsRan(w, leg1, leg2, b)'
  BY <1>3, <1>4, <1>6, <1>7
     DEF BothLegsRan, LegCost, WriteCost, BuyCost, Tokens, Sales
<1> QED BY <1>1, <1>8

(* The second leg buys: not the option just written, whose writer is the   *)
(* wallet itself, so one that was there before.                            *)
LEMMA SecondBuyRuns ==
    ASSUME TypeOK, NEW w \in Users, NEW leg1 \in TriedWrites,
           NEW leg2 \in TriedBuys, PoolCall(w, leg2),
           NEW b, WellFormed(b), FirstLegRan(w, leg1, b)
    PROVE  TypeOK' /\ BothLegsRan(w, leg1, leg2, b)'
<1> DEFINE id == leg2.id
           o == b.options[id]
           n == [o EXCEPT !.buyer = w, !.status = PURCHASED]
<1>1. /\ b.nextId \in Nat /\ nextId = b.nextId + 1
      /\ DOMAIN b.options = 0 .. b.nextId - 1
      /\ DOMAIN options = 0 .. b.nextId
      /\ \A i \in DOMAIN b.options :
            b.options[i] \in Option /\ options[i] = b.options[i]
  BY AfterFirstLeg
<1>2. leg2.method = "buyOption"
  BY BuyLegFacts
<1>3. BuyOption(w, id)
  BY <1>2 DEF PoolCall
<1>4. /\ id \in DOMAIN options /\ options[id].status = OPEN
      /\ block < options[id].expiryBlock /\ w # options[id].writer
      /\ options' = [options EXCEPT ![id].buyer = w, ![id].status = PURCHASED]
      /\ block' = block /\ nextId' = nextId
  BY <1>3 DEF BuyOption, Exists, CanBuy, MayBuy
<1>5. TypeOK'
  BY <1>3, <1>4, BuyStep
<1>6. id \in DOMAIN b.options /\ o \in Option /\ options[id] = o
  <2>1. id # b.nextId
    BY <1>4 DEF FirstLegRan
  <2> QED BY <1>1, <1>4, <2>1
<1>7. /\ DOMAIN options' = DOMAIN options /\ options'[id] = n
      /\ \A i \in DOMAIN options : i # id => options'[i] = options[i]
  BY <1>4, <1>6
<1>8. /\ n.status = PURCHASED /\ n.buyer = w /\ Terms(n) = Terms(o)
      /\ w # NoOne
  BY <1>6, AddressAssumption DEF Option, Terms, Addresses
<1>9. Advances(o, n)
  BY <1>4, <1>6, <1>8 DEF Advances
<1> HIDE DEF n
<1>10. ASSUME NEW i \in DOMAIN b.options
       PROVE  options'[i] = b.options[i]
                \/ Advances(b.options[i], options[i])'
  <2>1. CASE i = id
    <3>1. options'[i] = n /\ b.options[i] = o
      BY <1>7, <2>1
    <3> HIDE DEF o, id
    <3> QED BY <1>4, <1>9, <3>1 DEF Advances, GraceEnd
  <2>2. CASE i # id
    BY <1>1, <1>7, <2>2
  <2> QED BY <2>1, <2>2
<1>11. ASSUME NEW i \in DOMAIN options' \ DOMAIN b.options
       PROVE  OnOffer(options[i])'
  <2>1. i = b.nextId /\ i # id /\ i \in DOMAIN options
    BY <1>1, <1>6, <1>7
  <2>2. options'[i] = options[i]
    BY <1>7, <2>1
  <2> QED BY <1>4, <2>1, <2>2 DEF FirstLegRan, OnOffer
<1>12. Sales(options', b.options) = 1
  <2>1. {i \in DOMAIN b.options :
           b.options[i].status = OPEN /\ options'[i].status = PURCHASED} = {id}
    <3>1. ASSUME NEW i \in DOMAIN b.options
          PROVE  b.options[i].status = OPEN /\ options'[i].status = PURCHASED
                   <=> i = id
      <4>1. CASE i = id
        BY <1>4, <1>6, <1>7, <1>8, <4>1
      <4>2. CASE i # id
        BY <1>1, <1>7, <4>2 DEF OPEN, PURCHASED
      <4> QED BY <4>1, <4>2
    <3> QED BY <1>6, <3>1
  <2> QED BY <2>1, FS_Singleton DEF Sales
<1>13. (nextId' - b.nextId) + Sales(options', b.options) = 2
  BY <1>1, <1>4, <1>12
<1>14. ASSUME NEW t \in Tokens, NEW u \in Users
       PROVE  balance'[t][u] >= b.balance[t][u]
                - (IF u = w THEN WriteCost(w, leg1, t)
                                   + LegCost(w, leg2, b.options, t)
                   ELSE 0)
  <2> DEFINE p == o.premium
             fee == FeeOf(p, BUY_FEE_BPS)
  <2>1. LegCost(w, leg2, b.options, t) = IF t = PremiumToken THEN p ELSE 0
    BY <1>2, <1>6 DEF LegCost, BuyCost
  <2>2. p \in Nat /\ fee \in 0..p
    <3>1. p \in Nat
      BY <1>6 DEF Option
    <3> QED BY <3>1, FeeBounds
  <2>3. /\ b.balance[t][u] \in Nat /\ WriteCost(w, leg1, t) \in Nat
        /\ balance[t][u] \in Nat
        /\ balance[t][u] = b.balance[t][u]
             - (IF u = w THEN WriteCost(w, leg1, t) ELSE 0)
    BY AfterFirstLeg
  <2>4. balance'[t][u] >= balance[t][u]
          - (IF t = PremiumToken /\ u = w THEN p ELSE 0)
          + (IF t = PremiumToken /\ u = o.writer THEN p - fee ELSE 0)
    BY <1>3, <1>4, <1>6, BuyMoves
  <2>5. balance'[t][u] \in Nat
    BY <1>5, Accounts DEF TypeOK
  <2> HIDE DEF o, p, fee
  <2> QED BY <2>1, <2>2, <2>3, <2>4, <2>5
<1>15. BothLegsRan(w, leg1, leg2, b)'
  BY <1>1, <1>7, <1>10, <1>11, <1>13, <1>14
     DEF BothLegsRan, LegCost, WriteCost, BuyCost, Tokens, Sales
<1> QED BY <1>5, <1>15

(* A leg runs: the call goes on, over the same pool it began with. *)
LEMMA RunLegStep ==
    ASSUME RouterInv, RunLeg
    PROVE  /\ RouterInv' /\ ~Idle' /\ block' = block
           /\ strategy'.before = strategy.before
<1>1. TypeOK /\ InCall
  BY DEF RouterInv, RunLeg
<1>a. PICK w \in Users, leg1 \in TriedWrites,
           leg2 \in TriedWrites \cup TriedBuys :
        \E b, approved : IsCall(w, leg1, leg2, b, approved)
  BY <1>1, CallParts
<1>b. PICK b, approved : IsCall(w, leg1, leg2, b, approved)
  BY <1>a
<1>2. /\ strategy = [wallet |-> w, legs |-> strategy.legs,
                   before |-> b, approved |-> approved]
      /\ WellFormed(b)
      /\ Approvals(w, leg1, leg2, b, approved)
      /\ CallState(w, leg1, leg2, b)
  BY <1>b DEF IsCall
<1>3. PICK legs : legs = strategy.legs
  OBVIOUS
<1>4. strategy = [wallet |-> w, legs |-> legs, before |-> b,
                  approved |-> approved]
  BY <1>2, <1>3
<1>5. /\ legs # <<>> /\ PoolCall(w, Head(legs))
      /\ strategy' = [wallet |-> w, legs |-> Tail(legs), before |-> b,
                      approved |-> approved]
  <2>1. strategy.legs = legs /\ strategy.wallet = w
    BY <1>4
  <2>2. strategy' = [strategy EXCEPT !.legs = Tail(legs)]
    BY <2>1 DEF RunLeg
  <2> QED BY <1>4, <2>1, <2>2 DEF RunLeg
<1>6. TypeOK' /\ CallState(w, leg1, leg2, b)'
  <2>1. CASE legs = <<leg1, leg2>> /\ PoolState = b
    <3>1. PoolCall(w, leg1) /\ strategy'.legs = <<leg2>>
      BY <1>5, <2>1, LegSequences
    <3>2. TypeOK' /\ FirstLegRan(w, leg1, b)'
      BY <1>1, <2>1, <3>1, FirstLegRuns
    <3> QED BY <3>1, <3>2 DEF CallState
  <2>2. CASE legs = <<leg2>> /\ FirstLegRan(w, leg1, b)
    <3>1. PoolCall(w, leg2) /\ strategy'.legs = <<>>
      BY <1>5, <2>2, LegSequences
    <3>2. TypeOK' /\ BothLegsRan(w, leg1, leg2, b)'
      BY <1>1, <1>2, <2>2, <3>1, SecondWriteRuns, SecondBuyRuns
    <3> QED BY <3>1, <3>2 DEF CallState
  <2> QED BY <1>2, <1>3, <1>5, <2>1, <2>2 DEF CallState
<1>7. InCall'
  BY <1>2, <1>5, <1>6, CallWhole
<1>8. ~Idle'
  <2>1. strategy'.wallet = w
    BY <1>5
  <2> QED BY <2>1, AddressAssumption DEF Idle, NoCall, Addresses
<1>9. block' = block
  BY <1>5 DEF PoolCall, WriteOption, BuyOption
<1>10. strategy'.before = strategy.before
  BY <1>4, <1>5
<1> QED BY <1>6, <1>7, <1>8, <1>9, <1>10 DEF RouterInv

(* A failing leg restores the pool and every balance. *)
LEMMA LegFailsStep ==
    ASSUME RouterInv, LegFails
    PROVE  /\ RouterInv' /\ Idle' /\ block' = block
           /\ PoolState' = strategy.before
<1>1. TypeOK /\ WellFormed(strategy.before)
  BY DEF RouterInv, LegFails, InCall
<1>2. /\ nextId' = strategy.before.nextId
      /\ options' = strategy.before.options
      /\ balance' = strategy.before.balance
      /\ block' = block /\ feeRecipient' = feeRecipient /\ Idle'
  BY DEF LegFails, Idle
<1>3. TypeOK'
  BY <1>1, <1>2 DEF TypeOK, WellFormed, Ledgers
<1>4. PoolState' = strategy.before
  BY <1>1, <1>2 DEF PoolState, WellFormed
<1> QED BY <1>2, <1>3, <1>4 DEF RouterInv

(* A call that returns has run both its legs. *)
LEMMA ReturnStep ==
    ASSUME RouterInv, Return
    PROVE  /\ RouterInv' /\ Idle' /\ UNCHANGED vars
           /\ WellFormed(strategy.before)
           /\ \E leg1 \in TriedWrites, leg2 \in TriedWrites \cup TriedBuys :
                 /\ Approvals(strategy.wallet, leg1, leg2, strategy.before,
                              strategy.approved)
                 /\ BothLegsRan(strategy.wallet, leg1, leg2, strategy.before)
<1>1. TypeOK /\ InCall /\ strategy.legs = <<>> /\ UNCHANGED vars /\ Idle'
  BY DEF RouterInv, Return, Idle
<1>2. TypeOK'
  BY <1>1 DEF TypeOK, vars
<1>3. PICK leg1 \in TriedWrites, leg2 \in TriedWrites \cup TriedBuys :
        /\ Approvals(strategy.wallet, leg1, leg2, strategy.before,
                     strategy.approved)
        /\ CallState(strategy.wallet, leg1, leg2, strategy.before)
  BY <1>1 DEF InCall
<1>4. <<leg1, leg2>> # <<>> /\ <<leg2>> # <<>>
  BY LegSequences
<1>5. BothLegsRan(strategy.wallet, leg1, leg2, strategy.before)
  BY <1>1, <1>3, <1>4 DEF CallState
<1> QED BY <1>1, <1>2, <1>3, <1>5 DEF RouterInv, InCall

(* A router call begins over the pool as it is. *)
LEMMA RouterCallStep ==
    ASSUME RouterInv, NEW u \in Users, RouterCall(u)
    PROVE  /\ RouterInv' /\ Idle /\ ~Idle' /\ UNCHANGED vars
           /\ strategy'.before = PoolState
<1>1. PICK leg1 \in TriedWrites, leg2 \in TriedWrites \cup TriedBuys :
        Begin(u, <<leg1, leg2>>)
  <2>1. WriteLegs \subseteq TriedWrites
    BY DEF WriteLegs, TriedWrites
  <2>2. CASE \E leg \in WriteLegs, id \in 0 .. MaxOptions :
               ExecuteSpread(u, leg, id)
    BY <2>1, <2>2 DEF ExecuteSpread, TriedBuys
  <2>3. CASE \E l1, l2 \in WriteLegs : ExecuteDualWrite(u, l1, l2)
    BY <2>1, <2>3 DEF ExecuteDualWrite
  <2> QED BY <2>2, <2>3 DEF RouterCall
<1>2. RouterInv' /\ strategy'.before = PoolState
  BY <1>1, BeginCalls DEF RouterInv
<1>3. /\ Idle /\ UNCHANGED vars /\ strategy'.wallet = u
  BY <1>1 DEF Begin
<1>4. ~Idle'
  BY <1>3, AddressAssumption DEF Idle, NoCall, Addresses
<1> QED BY <1>2, <1>3, <1>4

(* The invariant is inductive. *)
LEMMA RouterStep ==
    ASSUME RouterInv, [RouterNext]_routerVars
    PROVE  RouterInv'
<1>1. CASE UNCHANGED routerVars
  <2>1. UNCHANGED vars /\ strategy' = strategy
    BY <1>1 DEF routerVars
  <2>2. TypeOK'
    BY <2>1 DEF RouterInv, TypeOK, vars
  <2>3. Idle' <=> Idle
    BY <2>1 DEF Idle
  <2>4. ASSUME InCall PROVE InCall'
    <3>a. PICK w \in Users, leg1 \in TriedWrites,
               leg2 \in TriedWrites \cup TriedBuys :
            \E b, approved : IsCall(w, leg1, leg2, b, approved)
      BY <2>4, CallParts
    <3>b. PICK b, approved : IsCall(w, leg1, leg2, b, approved)
      BY <3>a
    <3>1. /\ strategy = [wallet |-> w, legs |-> strategy.legs,
                       before |-> b, approved |-> approved]
          /\ WellFormed(b)
          /\ Approvals(w, leg1, leg2, b, approved)
          /\ CallState(w, leg1, leg2, b)
      BY <3>b DEF IsCall
    <3>2. PICK legs : legs = strategy.legs
      OBVIOUS
    <3>3. strategy' = [wallet |-> w, legs |-> legs, before |-> b,
                       approved |-> approved]
      BY <2>1, <3>1, <3>2
    <3>4. CallState(w, leg1, leg2, b)'
      <4>1. /\ block' = block /\ nextId' = nextId /\ options' = options
            /\ balance' = balance /\ strategy' = strategy
        BY <2>1 DEF vars
      <4>2. PoolState' = PoolState
        BY <4>1 DEF PoolState
      <4>3. \A o : OnOffer(o)' <=> OnOffer(o)
        BY <4>1 DEF OnOffer
      <4>4. FirstLegRan(w, leg1, b) => FirstLegRan(w, leg1, b)'
        BY <4>1, <4>3 DEF FirstLegRan, WriteCost, Tokens, OnOffer
      <4>5. BothLegsRan(w, leg1, leg2, b) => BothLegsRan(w, leg1, leg2, b)'
        <5> SUFFICES ASSUME BothLegsRan(w, leg1, leg2, b)
                     PROVE  BothLegsRan(w, leg1, leg2, b)'
          OBVIOUS
        <5>1. \A id \in DOMAIN b.options :
                 options'[id] = b.options[id]
                   \/ Advances(b.options[id], options[id])'
          BY <4>1 DEF BothLegsRan, Advances, GraceEnd
        <5>2. \A id \in DOMAIN options' \ DOMAIN b.options :
                 OnOffer(options[id])'
          BY <4>1 DEF BothLegsRan, OnOffer
        <5>3. Sales(options', b.options) = Sales(options, b.options)
          BY <4>1
        <5>4. \A t \in Tokens, u \in Users :
                 balance'[t][u] >= b.balance[t][u]
                    - (IF u = w THEN WriteCost(w, leg1, t)
                                       + LegCost(w, leg2, b.options, t)
                       ELSE 0)
          BY <4>1 DEF BothLegsRan
        <5> QED BY <4>1, <5>1, <5>2, <5>3, <5>4
                DEF BothLegsRan, LegCost, WriteCost, BuyCost, Tokens, Sales
      <4> QED BY <3>1, <4>1, <4>2, <4>4, <4>5 DEF CallState
    <3> QED BY <3>1, <3>3, <3>4, CallWhole
  <2> QED BY <2>2, <2>3, <2>4 DEF RouterInv
<1>2. CASE Idle /\ Next /\ UNCHANGED strategy
  <2>1. TypeOK' /\ Idle'
    BY <1>2, NextStep DEF RouterInv, Idle
  <2> QED BY <2>1 DEF RouterInv
<1>3. CASE \E u \in Users : RouterCall(u)
  BY <1>3, RouterCallStep
<1>4. CASE RunLeg
  BY <1>4, RunLegStep
<1>5. CASE Return
  BY <1>5, ReturnStep
<1>6. CASE LegFails
  BY <1>6, LegFailsStep
<1> QED BY <1>1, <1>2, <1>3, <1>4, <1>5, <1>6 DEF RouterNext

(* executeSpread and executeDualWrite, at any point between their calls, have
   run no leg, the first, or both, on the state the transaction began with. *)
LEMMA RouterInvariant == RouterSpec => []RouterInv
<1>1. RouterInit => RouterInv
  BY InitState DEF RouterInit, RouterInv, Idle
<1> QED BY <1>1, RouterStep, PTL DEF RouterSpec

(* The steps that end a router call. *)
LEMMA CallEnds ==
    ASSUME RouterInv, RouterNext, ~Idle, Idle'
    PROVE  LegFails \/ Return
<1>1. ~RunLeg
  BY RunLegStep
<1>2. ASSUME NEW u \in Users PROVE ~RouterCall(u)
  BY RouterCallStep
<1> QED BY <1>1, <1>2 DEF RouterNext

(* All legs or none: a call of executeSpread or executeDualWrite that has  *)
(* ended either left the pool as it was or had two effects on it.          *)
THEOREM LegsAreAtomic == RouterSpec => AllLegsOrNone
<1> DEFINE Atomic == ~Idle /\ Idle' =>
              \/ PoolState' = strategy.before
              \/ (nextId' - strategy.before.nextId)
                   + Sales(options', strategy.before.options) = 2
<1>1. RouterInv /\ [RouterNext]_routerVars => [Atomic]_routerVars
  <2> SUFFICES ASSUME RouterInv, RouterNext, ~Idle, Idle'
               PROVE  \/ PoolState' = strategy.before
                      \/ (nextId' - strategy.before.nextId)
                           + Sales(options', strategy.before.options) = 2
    OBVIOUS
  <2>1. CASE LegFails
    BY <2>1, LegFailsStep
  <2>2. CASE Return
    <3>1. /\ nextId' = nextId /\ options' = options
          /\ (nextId - strategy.before.nextId)
               + Sales(options, strategy.before.options) = 2
      BY <2>2, ReturnStep DEF vars, BothLegsRan
    <3> QED BY <3>1
  <2> QED BY <2>1, <2>2, CallEnds
<1> QED BY <1>1, RouterInvariant, PTL DEF RouterSpec, AllLegsOrNone

(* Only the signing wallet pays for a router call, and never more of a     *)
(* token than the page had it approve.                                     *)
THEOREM OnlySignersPay == RouterSpec => OnlyTheWalletPays
<1> DEFINE Pays == ~Idle /\ Idle' =>
              \A t \in Tokens, u \in Users :
                  LET paid == strategy.before.balance[t][u] - balance'[t][u]
                  IN  paid > 0 =>
                        /\ u = strategy.wallet
                        /\ t \in DOMAIN strategy.approved =>
                             paid <= strategy.approved[t]
<1>1. RouterInv /\ [RouterNext]_routerVars => [Pays]_routerVars
  <2> SUFFICES ASSUME RouterInv, RouterNext, ~Idle, Idle',
                      NEW t \in Tokens, NEW u \in Users,
                      strategy.before.balance[t][u] - balance'[t][u] > 0
               PROVE  /\ u = strategy.wallet
                      /\ t \in DOMAIN strategy.approved =>
                           strategy.before.balance[t][u] - balance'[t][u]
                             <= strategy.approved[t]
    OBVIOUS
  <2>1. /\ TypeOK /\ InCall
    BY DEF RouterInv
  <2>2. u \in Addresses /\ strategy.before.balance[t][u] \in Nat
    BY <2>1 DEF InCall, WellFormed, Ledgers, Addresses
  <2>3. CASE LegFails
    <3>1. balance' = strategy.before.balance
      BY <2>3 DEF LegFails
    <3> QED BY <2>2, <3>1
  <2>4. CASE Return
    <3>1. PICK leg1 \in TriedWrites, leg2 \in TriedWrites \cup TriedBuys :
            /\ Approvals(strategy.wallet, leg1, leg2, strategy.before,
                         strategy.approved)
            /\ BothLegsRan(strategy.wallet, leg1, leg2, strategy.before)
      BY <2>4, ReturnStep
    <3>2. balance'[t][u] = balance[t][u] /\ balance[t][u] \in Nat
      BY <2>1, <2>4, ReturnStep, Accounts DEF vars
    <3> DEFINE w == strategy.wallet
               b == strategy.before
               cost == WriteCost(w, leg1, t) + LegCost(w, leg2, b.options, t)
    <3>3. cost \in Nat
      <4>1. w \in Users /\ WellFormed(b)
        BY <2>1 DEF InCall
      <4>2. WriteCost(w, leg1, t) \in Nat
        BY <4>1, WriteLegFacts
      <4>3. LegCost(w, leg2, b.options, t) \in Nat
        BY <4>1, WriteLegFacts, BuyLegFacts DEF LegCost
      <4> QED BY <4>2, <4>3
    <3>4. balance[t][u] >= b.balance[t][u] - (IF u = w THEN cost ELSE 0)
      BY <3>1 DEF BothLegsRan
    <3>5. t \in DOMAIN strategy.approved => strategy.approved[t] = cost
      BY <3>1 DEF Approvals
    <3> HIDE DEF cost
    <3> QED BY <2>2, <3>2, <3>3, <3>4, <3>5
  <2> QED BY <2>3, <2>4, CallEnds
<1> QED BY <1>1, RouterInvariant, PTL DEF RouterSpec, OnlyTheWalletPays

-----------------------------------------------------------------------------
(* The pool with the router in front of it follows the lifecycle. *)

USE DEF SeenLifecycle!OPEN, SeenLifecycle!PURCHASED, SeenLifecycle!EXERCISED,
        SeenLifecycle!EXPIRED, SeenLifecycle!CANCELLED, SeenLifecycle!RESERVED

(* What a step does to the records everybody sees. *)
SeenContinues ==
    /\ block' = block
    /\ DOMAIN Seen.options \subseteq DOMAIN Seen'.options
    /\ \A id \in DOMAIN Seen.options :
          \/ Seen'.options[id] = Seen.options[id]
          \/ Advances(Seen.options[id], Seen'.options[id])
    /\ \A id \in DOMAIN Seen'.options \ DOMAIN Seen.options :
          OnOffer(Seen'.options[id])

(* An option that advances between two moments anybody but the running router
   call can see has moved along one edge of the lifecycle. *)
LEMMA SeenAdvanceIsLegal ==
    ASSUME NEW id \in DOMAIN Seen.options, id \in DOMAIN Seen'.options,
           Advances(Seen.options[id], Seen'.options[id])
    PROVE  SeenLifecycle!LegalMove(id)
<1> DEFINE o == Seen.options[id]
           n == Seen'.options[id]
           then == [i \in DOMAIN Seen.options |-> Entry(Seen.options[i])]
           now  == [i \in DOMAIN Seen'.options |-> Entry(Seen'.options[i])]
<1>1. /\ then[id] = Entry(o) /\ now[id] = Entry(n)
      /\ Entry(o).status = o.status /\ Entry(n).status = n.status
      /\ Entry(o).holder = o.buyer /\ Entry(n).holder = n.buyer
      /\ Entry(o).terms = Terms(o) /\ Entry(n).terms = Terms(n)
      /\ Terms(o).expiryBlock = o.expiryBlock
      /\ Terms(o).writer = o.writer
  BY DEF Entry, Terms
<1>2. Terms(n) = Terms(o)
  BY DEF Advances
<1> QED
  BY <1>1, <1>2
     DEF Advances, GraceEnd, OPEN, PURCHASED, EXERCISED, EXPIRED, CANCELLED,
         SeenLifecycle!LegalMove, SeenLifecycle!Withdraw,
         SeenLifecycle!Sell, SeenLifecycle!Assign, SeenLifecycle!Exercise,
         SeenLifecycle!Lapse, SeenLifecycle!Moves, SeenLifecycle!KeepsHolder,
         SeenLifecycle!NewHolder, SeenLifecycle!Expiry,
         SeenLifecycle!GraceEnd

(* What a whole router call does to the options is one step of the abstract
   specification. *)
LEMMA SeenContinuesIsTransact ==
    ASSUME SeenContinues
    PROVE  SeenLifecycle!Transact
<1> DEFINE then == [i \in DOMAIN Seen.options |-> Entry(Seen.options[i])]
           now  == [i \in DOMAIN Seen'.options |-> Entry(Seen'.options[i])]
<1>1. DOMAIN then = DOMAIN Seen.options /\ DOMAIN now = DOMAIN Seen'.options
  OBVIOUS
<1>2. ASSUME NEW id \in DOMAIN Seen.options
      PROVE  now[id] = then[id] \/ SeenLifecycle!LegalMove(id)
  BY SeenAdvanceIsLegal DEF SeenContinues
<1>3. ASSUME NEW id \in DOMAIN Seen'.options \ DOMAIN Seen.options
      PROVE  SeenLifecycle!Listed(id)
  <2>1. OnOffer(Seen'.options[id])
    BY DEF SeenContinues
  <2>2. now[id] = Entry(Seen'.options[id])
    OBVIOUS
  <2> QED BY <2>1, <2>2 DEF OnOffer, OPEN, Entry, Terms, SeenLifecycle!Listed
<1> QED
  BY <1>1, <1>2, <1>3
     DEF SeenContinues, SeenLifecycle!Transact, SeenLifecycle!Ids

(* Every step of the pool's own methods but a new block. *)
LEMMA MethodContinues ==
    ASSUME TypeOK, Next
    PROVE  NextBlock \/ Continues
<1>1. ASSUME NEW id \in DOMAIN options, Settle(id) PROVE Continues
  BY <1>1, OneCloses
     DEF Settle, SetStatus, CanSettle, OPEN, PURCHASED, EXPIRED
<1>2. ASSUME NEW ids, BatchSettle(ids) PROVE Continues
  BY <1>2, BatchContinues DEF BatchSettle, EXPIRED
<1> QED
  BY <1>1, <1>2, SignedContinues DEF Next, Permissionless

(* With the router in use the pool still implements the lifecycle: the two *)
(* legs of a router call are one step of it, and a failed call none.       *)
THEOREM RouterKeepsLifecycle == RouterSpec => StrategiesFollowLifecycle
<1>1. RouterInit => SeenLifecycle!Init
  <2> SUFFICES ASSUME RouterInit PROVE SeenLifecycle!Init
    OBVIOUS
  <2>1. block \in Nat /\ DOMAIN options = {} /\ Idle
    BY DEF RouterInit, Init, Idle
  <2>2. Seen.options = options
    BY <2>1 DEF Seen, PoolState
  <2> QED BY <2>1, <2>2 DEF SeenLifecycle!Init
<1>2. RouterInv /\ [RouterNext]_routerVars
        => [SeenLifecycle!Next]_(SeenLifecycle!lifecycleVars)
  <2> SUFFICES ASSUME RouterInv, [RouterNext]_routerVars
               PROVE  [SeenLifecycle!Next]_(SeenLifecycle!lifecycleVars)
    OBVIOUS
  <2>1. CASE block' = block /\ Seen'.options = Seen.options
    BY <2>1 DEF SeenLifecycle!lifecycleVars
  <2>2. CASE SeenContinues
    BY <2>2, SeenContinuesIsTransact DEF SeenLifecycle!Next
  <2>3. CASE UNCHANGED routerVars
    <3>1. block' = block /\ Seen' = Seen
      BY <2>3 DEF routerVars, vars, Seen, Idle, PoolState
    <3> QED BY <2>1, <3>1
  <2>4. CASE Idle /\ Next /\ UNCHANGED strategy
    <3>1. /\ Idle' /\ TypeOK
      BY <2>4 DEF Idle, RouterInv
    <3>2. Seen.options = options /\ Seen'.options = options'
      BY <2>4, <3>1 DEF Seen, PoolState
    <3>3. CASE NextBlock
      BY <3>2, <3>3 DEF NextBlock, SeenLifecycle!Tick, SeenLifecycle!Next
    <3>4. CASE Continues
      <4>1. SeenContinues
        BY <3>2, <3>4 DEF Continues, SeenContinues
      <4> QED BY <2>2, <4>1
    <3> QED BY <2>4, <3>1, <3>3, <3>4, MethodContinues
  <2>5. ASSUME NEW u \in Users, RouterCall(u)
        PROVE  block' = block /\ Seen'.options = Seen.options
    <3>1. /\ Idle /\ ~Idle' /\ UNCHANGED vars /\ strategy'.before = PoolState
      BY <2>5, RouterCallStep
    <3>2. Seen = PoolState /\ Seen' = strategy'.before
      BY <3>1 DEF Seen
    <3> QED BY <3>1, <3>2 DEF vars
  <2>6. CASE RunLeg
    <3>1. /\ ~Idle /\ ~Idle' /\ block' = block
          /\ strategy'.before = strategy.before
      BY <2>6, RunLegStep DEF RunLeg
    <3>2. Seen = strategy.before /\ Seen' = strategy'.before
      BY <3>1 DEF Seen
    <3> QED BY <2>1, <3>1, <3>2
  <2>7. CASE LegFails
    <3>1. /\ ~Idle /\ Idle' /\ block' = block /\ PoolState' = strategy.before
      BY <2>7, LegFailsStep DEF LegFails
    <3>2. Seen = strategy.before /\ Seen' = PoolState'
      BY <3>1 DEF Seen
    <3> QED BY <2>1, <3>1, <3>2
  <2>8. CASE Return
    <3>1. PICK leg1 \in TriedWrites, leg2 \in TriedWrites \cup TriedBuys :
            BothLegsRan(strategy.wallet, leg1, leg2, strategy.before)
      BY <2>8, ReturnStep
    <3>2. ~Idle /\ Idle' /\ block' = block /\ options' = options
      BY <2>8, ReturnStep DEF Return, vars
    <3>3. Seen.options = strategy.before.options /\ Seen'.options = options
      BY <3>2 DEF Seen, PoolState
    <3>4. SeenContinues
      BY <3>1, <3>2, <3>3 DEF BothLegsRan, SeenContinues
    <3> QED BY <2>2, <3>4
  <2> QED
    BY <2>1, <2>3, <2>4, <2>5, <2>6, <2>7, <2>8 DEF RouterNext
<1> QED
  BY <1>1, <1>2, RouterInvariant, PTL
     DEF RouterSpec, StrategiesFollowLifecycle, SeenLifecycle!Spec

-----------------------------------------------------------------------------
(* A trader's approvals. *)

(* A transaction of the trader, of whatever values. *)
DeskTx(A) == [job : A, step : A, token : A, amount : A, expiry : A, state : A]

(* A job's approvals that the page has not noticed yet. *)
Unseen(job) ==
    {n \in DOMAIN txs : /\ txs[n].job = job /\ txs[n].step = "approve"
                        /\ ~IsSeen(n)}

(* An approval that is under way is the flow's, and none is once the flow  *)
(* has gone on to its call.                                                *)
ApprovalOK(job) ==
    IF job \in DOMAIN flows
    THEN /\ flows[job].approval # 0
         /\ Unseen(job) \subseteq {flows[job].approval}
         /\ flows[job].action # 0 => Unseen(job) = {}
    ELSE Unseen(job) = {}

FlowRecord == [approval : Nat, action : Nat]

DeskInv ==
    /\ \E A : txs \in Seq(DeskTx(A))
    /\ flows \in [DOMAIN flows -> FlowRecord]
    /\ \A job \in Jobs \ fresh : ApprovalOK(job)

(* The trader signs one more transaction. *)
LEMMA TxAppended ==
    ASSUME NEW A, txs \in Seq(DeskTx(A)), NEW job, NEW step,
           txs' = Append(txs, Signed(job, step))
    PROVE  /\ \E B : txs' \in Seq(DeskTx(B))
           /\ Len(txs) \in Nat
           /\ \A j : IF step = "approve" /\ j = job
                     THEN Unseen(j)' = Unseen(j) \cup {Len(txs) + 1}
                     ELSE Unseen(j)' = Unseen(j)
<1>1. PICK x : x = Signed(job, step)
  OBVIOUS
<1>2. x = [job |-> job, step |-> step, token |-> x.token, amount |-> x.amount,
           expiry |-> x.expiry, state |-> "sent"]
  BY <1>1 DEF Signed
<1> DEFINE B == A \cup {job, step, x.token, x.amount, x.expiry, "sent"}
<1>3. x \in DeskTx(B)
  BY <1>2 DEF DeskTx
<1>4. DeskTx(A) \subseteq DeskTx(B)
  BY DEF DeskTx
<1> HIDE DEF B
<1>5. txs \in Seq(DeskTx(B))
  BY <1>4
<1>6. /\ txs' \in Seq(DeskTx(B)) /\ Len(txs) \in Nat
      /\ DOMAIN txs = 1 .. Len(txs) /\ DOMAIN txs' = 1 .. Len(txs) + 1
      /\ txs'[Len(txs) + 1] = x
      /\ \A n \in DOMAIN txs : txs'[n] = txs[n]
  BY <1>1, <1>3, <1>5
<1>7. x.job = job /\ x.step = step /\ x.state = "sent"
  BY <1>2
<1>8. ASSUME NEW j
      PROVE  IF step = "approve" /\ j = job
             THEN Unseen(j)' = Unseen(j) \cup {Len(txs) + 1}
             ELSE Unseen(j)' = Unseen(j)
  BY <1>6, <1>7 DEF Unseen, IsSeen
<1> QED BY <1>6, <1>8

(* A transaction is mined, or the poller has seen it. *)
LEMMA TxMovesOn ==
    ASSUME NEW A, txs \in Seq(DeskTx(A)), NEW n \in DOMAIN txs,
           txs[n].state # "seen", NEW state,
           txs' = [txs EXCEPT ![n].state = state]
    PROVE  /\ \E B : txs' \in Seq(DeskTx(B))
           /\ \A j : Unseen(j)' \subseteq Unseen(j)
<1>1. PICK x : x = [txs[n] EXCEPT !.state = state]
  OBVIOUS
<1>2. /\ txs' = [txs EXCEPT ![n] = x] /\ DOMAIN txs = 1 .. Len(txs)
      /\ txs[n] \in DeskTx(A) /\ Len(txs) \in Nat
  BY <1>1
<1> DEFINE B == A \cup {state}
<1>3. DeskTx(A) \subseteq DeskTx(B) /\ x \in DeskTx(B) /\ x.job = txs[n].job
      /\ x.step = txs[n].step
  BY <1>1, <1>2 DEF DeskTx
<1> HIDE DEF B
<1>4. txs \in Seq(DeskTx(B))
  BY <1>3
<1>5. /\ txs' \in Seq(DeskTx(B)) /\ DOMAIN txs' = DOMAIN txs /\ txs'[n] = x
      /\ \A k \in DOMAIN txs : k # n => txs'[k] = txs[k]
  BY <1>2, <1>3, <1>4
<1>6. ASSUME NEW j PROVE Unseen(j)' \subseteq Unseen(j)
  BY <1>3, <1>5 DEF Unseen, IsSeen
<1> QED BY <1>5, <1>6

(* What ends the wait for an approval: it has been seen. *)
LEMMA ApprovalSeen ==
    ASSUME NEW job, IsMyFlow(job), ApprovalOK(job), ~ApprovalPending(job)
    PROVE  /\ Unseen(job) = {}
           /\ flows[job].action = 0 => ApprovalReady(job)
<1>1. /\ flows[job].approval # 0 /\ Unseen(job) \subseteq {flows[job].approval}
      /\ flows[job].action # 0 => Unseen(job) = {}
  BY DEF ApprovalOK, IsMyFlow
<1>2. CASE flows[job].action # 0
  BY <1>1, <1>2
<1>3. CASE flows[job].action = 0
  <2>1. FlowStatus(flows[job]) # "approval_pending"
    BY <1>1 DEF ApprovalPending
  <2>2. IsSeen(flows[job].approval)
    BY <1>1, <1>3, <2>1 DEF FlowStatus
  <2>3. FlowStatus(flows[job]) = "approval_confirmed"
    BY <1>1, <1>3, <2>2 DEF FlowStatus
  <2> QED BY <1>1, <2>2, <2>3 DEF ApprovalReady, Unseen
<1> QED BY <1>2, <1>3

(* Nothing the approvals depend on changes. *)
LEMMA SameApprovals ==
    ASSUME DeskInv, UNCHANGED <<txs, flows, fresh>> PROVE DeskInv'
<1>1. \A job : Unseen(job)' = Unseen(job)
  BY DEF Unseen, IsSeen
<1>2. \A job : ApprovalOK(job) => ApprovalOK(job)'
  BY <1>1 DEF ApprovalOK
<1> QED BY <1>2 DEF DeskInv

(* An approval is signed. *)
LEMMA ClickApproveKeeps ==
    ASSUME DeskInv, ClickApprove PROVE DeskInv'
<1>1. PICK A : txs \in Seq(DeskTx(A))
  BY DEF DeskInv
<1>2. PICK job : job = modal
  OBVIOUS
<1>3. /\ ~ApprovalPending(job) /\ ~ApprovalReady(job)
      /\ txs' = Append(txs, Signed(job, "approve"))
  BY <1>2 DEF ClickApprove, NeedsApproval
<1>4. /\ (\E B : txs' \in Seq(DeskTx(B))) /\ Len(txs) \in Nat
      /\ Unseen(job)' = Unseen(job) \cup {Len(txs) + 1}
      /\ \A j : j # job => Unseen(j)' = Unseen(j)
  BY <1>1, <1>3, TxAppended
<1>5. flows \in [DOMAIN flows -> FlowRecord]
  BY DEF DeskInv
<1>6. PICK f \in FlowRecord :
         /\ flows' = [j \in DOMAIN flows \cup {job} |->
                        IF j = job THEN f ELSE flows[j]]
         /\ ~IsMyFlow(job) => f.approval = Len(txs) + 1 /\ f.action = 0
  <2>1. CASE IsMyFlow(job)
    <3>1. NoFlow \in FlowRecord /\ flows' = Put(flows, job, NoFlow)
      BY <1>2, <2>1 DEF ClickApprove, NoFlow, FlowRecord
    <3> QED BY <2>1, <3>1 DEF Put
  <2>2. CASE ~IsMyFlow(job)
    <3>1. PICK f : f = [NoFlow EXCEPT !.approval = Len(txs) + 1]
      OBVIOUS
    <3>2. f = [approval |-> Len(txs) + 1, action |-> 0]
      BY <3>1 DEF NoFlow
    <3>3. f \in FlowRecord
      BY <1>4, <3>2 DEF FlowRecord
    <3>4. flows' = Put(flows, job, f)
      BY <1>2, <2>2, <3>1 DEF ClickApprove
    <3> QED BY <3>2, <3>3, <3>4 DEF Put
  <2> QED BY <2>1, <2>2
<1>7. /\ DOMAIN flows' = DOMAIN flows \cup {job} /\ flows'[job] = f
      /\ \A j \in DOMAIN flows : j # job => flows'[j] = flows[j]
      /\ flows' \in [DOMAIN flows' -> FlowRecord]
  BY <1>5, <1>6
<1>8. fresh \subseteq fresh'
  BY DEF ClickApprove
<1>9. ASSUME NEW k \in Jobs \ fresh' PROVE ApprovalOK(k)'
  <2>1. ApprovalOK(k)
    BY <1>8 DEF DeskInv
  <2>2. CASE k # job
    BY <1>4, <1>7, <2>1, <2>2 DEF ApprovalOK
  <2>3. CASE k = job /\ IsMyFlow(job)
    <3>1. flows[job].action # 0
      BY <1>3, <2>1, <2>3, ApprovalSeen
    <3>2. job \in fresh'
      BY <1>2, <2>3, <3>1 DEF ClickApprove
    <3> QED BY <2>3, <3>2
  <2>4. CASE k = job /\ ~IsMyFlow(job)
    <3>1. Unseen(k) = {}
      BY <2>1, <2>4 DEF ApprovalOK, IsMyFlow
    <3>2. /\ k \in DOMAIN flows' /\ flows'[k].approval = Len(txs) + 1
          /\ flows'[k].action = 0 /\ Unseen(k)' = {Len(txs) + 1}
      BY <1>4, <1>6, <1>7, <2>4, <3>1
    <3> QED BY <1>4, <3>2 DEF ApprovalOK
  <2> QED BY <2>2, <2>3, <2>4
<1> QED BY <1>4, <1>7, <1>9 DEF DeskInv

(* A call is signed: its approval has been seen. *)
LEMMA ClickActKeeps ==
    ASSUME DeskInv, ClickAct PROVE DeskInv'
<1>1. PICK A : txs \in Seq(DeskTx(A))
  BY DEF DeskInv
<1>2. /\ ~ApprovalPending(modal)
      /\ txs' = Append(txs, Signed(modal, "act")) /\ fresh' = fresh
      /\ flows' = IF IsMyFlow(modal)
                  THEN [flows EXCEPT ![modal].action = Len(txs) + 1] ELSE flows
  BY DEF ClickAct, ActOffered
<1>3. /\ \E B : txs' \in Seq(DeskTx(B)) /\ Len(txs) \in Nat
      /\ \A j : Unseen(j)' = Unseen(j)
  BY <1>1, <1>2, TxAppended
<1>4. flows \in [DOMAIN flows -> FlowRecord]
  BY DEF DeskInv
<1>5. CASE ~IsMyFlow(modal)
  <2>1. \A job : ApprovalOK(job) => ApprovalOK(job)'
    BY <1>2, <1>3, <1>5 DEF ApprovalOK
  <2> QED BY <1>2, <1>3, <1>5, <2>1 DEF DeskInv
<1>6. CASE IsMyFlow(modal)
  <2>1. PICK f : f = [flows[modal] EXCEPT !.action = Len(txs) + 1]
    OBVIOUS
  <2>2. modal \in DOMAIN flows /\ flows[modal] \in FlowRecord
    BY <1>4, <1>6 DEF IsMyFlow
  <2>3. f \in FlowRecord /\ f.approval = flows[modal].approval
    BY <1>3, <2>1, <2>2 DEF FlowRecord
  <2>4. flows' = [flows EXCEPT ![modal] = f]
    BY <1>2, <1>6, <2>1
  <2>5. /\ DOMAIN flows' = DOMAIN flows /\ flows'[modal] = f
        /\ \A j \in DOMAIN flows : j # modal => flows'[j] = flows[j]
        /\ flows' \in [DOMAIN flows' -> FlowRecord]
    BY <1>4, <2>2, <2>3, <2>4
  <2>6. ASSUME NEW job \in Jobs \ fresh' PROVE ApprovalOK(job)'
    <3>1. ApprovalOK(job)
      BY <1>2 DEF DeskInv
    <3>2. CASE job # modal
      BY <1>3, <2>5, <3>1, <3>2 DEF ApprovalOK
    <3>3. CASE job = modal
      <4>1. Unseen(modal) = {}
        BY <1>2, <1>6, <3>1, <3>3, ApprovalSeen
      <4>2. flows[modal].approval # 0
        BY <2>2, <3>1, <3>3 DEF ApprovalOK
      <4> QED BY <1>3, <2>2, <2>3, <2>5, <3>3, <4>1, <4>2 DEF ApprovalOK
    <3> QED BY <3>2, <3>3
  <2> QED BY <1>3, <2>5, <2>6 DEF DeskInv
<1> QED BY <1>5, <1>6

(* A flow goes: abandoned, or its call has been seen. *)
LEMMA FlowDrops ==
    ASSUME DeskInv, NEW job, flows' = Drop(flows, job), UNCHANGED txs,
           fresh \subseteq fresh',
           job \in fresh' \/ Unseen(job) = {}
    PROVE  DeskInv'
<1>1. /\ DOMAIN flows' = DOMAIN flows \ {job}
      /\ \A j \in DOMAIN flows' : flows'[j] = flows[j]
      /\ flows' \in [DOMAIN flows' -> FlowRecord]
  BY DEF DeskInv, Drop
<1>2. \A j : Unseen(j)' = Unseen(j)
  BY DEF Unseen, IsSeen
<1>3. ASSUME NEW j \in Jobs \ fresh' PROVE ApprovalOK(j)'
  <2>1. ApprovalOK(j)
    BY DEF DeskInv
  <2> QED BY <1>1, <1>2, <2>1 DEF ApprovalOK
<1> QED BY <1>1, <1>3 DEF DeskInv

(* Mined or seen, an approval does not begin. *)
LEMMA TxKeeps ==
    ASSUME DeskInv, NEW n \in DOMAIN txs, txs[n].state # "seen", NEW state,
           txs' = [txs EXCEPT ![n].state = state], UNCHANGED <<flows, fresh>>
    PROVE  DeskInv'
<1>1. PICK A : txs \in Seq(DeskTx(A))
  BY DEF DeskInv
<1>2. (\E B : txs' \in Seq(DeskTx(B))) /\ \A j : Unseen(j)' \subseteq Unseen(j)
  BY <1>1, TxMovesOn
<1>3. \A job : ApprovalOK(job) => ApprovalOK(job)'
  BY <1>2 DEF ApprovalOK
<1> QED BY <1>2, <1>3 DEF DeskInv

(* DeskInv is an invariant of the page, its trader and the chain. *)
LEMMA DeskInvariant == DeskSpec => []DeskInv
<1>1. DeskInit => DeskInv
  <2> SUFFICES ASSUME DeskInit PROVE DeskInv
    OBVIOUS
  <2>1. txs = <<>> /\ flows = [job \in {} |-> NoFlow]
    BY DEF DeskInit
  <2>2. txs \in Seq(DeskTx({})) /\ DOMAIN txs = {}
    BY <2>1
  <2>3. DOMAIN flows = {} /\ flows \in [DOMAIN flows -> FlowRecord]
    BY <2>1
  <2> QED BY <2>2, <2>3 DEF DeskInv, ApprovalOK, Unseen
<1>2. DeskInv /\ [DeskNext]_deskVars => DeskInv'
  <2> SUFFICES ASSUME DeskInv, [DeskNext]_deskVars PROVE DeskInv'
    OBVIOUS
  <2>1. ASSUME NEW job \in Jobs, OpenModal(job) PROVE DeskInv'
    BY <2>1, SameApprovals DEF OpenModal
  <2>2. ASSUME NEW job \in Jobs, Release(job) PROVE DeskInv'
    <3>1. flows' = Drop(flows, job) /\ UNCHANGED <<txs, fresh>>
      BY <2>2 DEF Release
    <3>2. ASSUME job \notin fresh PROVE Unseen(job) = {}
      <4>1. job \in DOMAIN flows /\ FlowStatus(flows[job]) = "action_confirmed"
        BY <2>2 DEF Release, IsMyFlow
      <4>2. flows[job].action # 0
        BY <4>1 DEF FlowStatus
      <4> QED BY <3>2, <4>1, <4>2 DEF DeskInv, ApprovalOK
    <3> QED BY <3>1, <3>2, FlowDrops
  <2>3. CASE CloseModal \/ ReadToken
    BY <2>3, SameApprovals DEF CloseModal, ReadToken
  <2>4. CASE ClickApprove
    BY <2>4, ClickApproveKeeps
  <2>5. CASE ClickAct
    BY <2>5, ClickActKeeps
  <2>6. CASE StartFresh
    BY <2>6, FlowDrops DEF StartFresh
  <2>7. ASSUME NEW n \in DOMAIN txs, Poll(n) PROVE DeskInv'
    BY <2>7, TxKeeps DEF Poll
  <2>8. ASSUME NEW n \in DOMAIN txs, Mine(n) PROVE DeskInv'
    BY <2>8, TxKeeps DEF Mine, WithMined
  <2>9. CASE OthersMove \/ Block
    BY <2>9, SameApprovals DEF OthersMove, Block
  <2>10. CASE UNCHANGED deskVars
    BY <2>10, SameApprovals DEF deskVars
  <2> QED BY <2>1, <2>2, <2>3, <2>4, <2>5, <2>6, <2>7, <2>8, <2>9, <2>10
             DEF DeskNext
<1> QED BY <1>1, <1>2, PTL DEF DeskSpec

(* For any options, offers and other users (BuyOptionModal, ExerciseModal, *)
(* WriteOptionPanel and useActiveFlow): of one job there are never two     *)
(* approvals under way, unless the trader started afresh or replaced a     *)
(* flow whose call was sent.                                               *)
THEOREM ApprovalsAreSingle == DeskSpec => []ApprovalsDoNotPileUp
<1>1. DeskInv => ApprovalsDoNotPileUp
  <2> SUFFICES ASSUME DeskInv, NEW job \in Jobs \ fresh
               PROVE  Cardinality(Unseen(job)) <= 1
    BY DEF ApprovalsDoNotPileUp, Unseen
  <2>1. Unseen(job) = {} \/ \E n : Unseen(job) = {n}
    <3>1. \E n : Unseen(job) \subseteq {n}
      BY DEF DeskInv, ApprovalOK
    <3> QED BY <3>1
  <2>2. Cardinality({}) = 0 /\ \A n : Cardinality({n}) = 1
    BY FS_EmptySet, FS_Singleton
  <2>3. CASE Unseen(job) = {}
    BY <2>2, <2>3
  <2>4. CASE \E n : Unseen(job) = {n}
    <3>1. Cardinality(Unseen(job)) = 1
      BY <2>2, <2>4
    <3> QED BY <3>1
  <2> QED BY <2>1, <2>3, <2>4
<1> QED BY <1>1, DeskInvariant, PTL

-----------------------------------------------------------------------------
(* What the pages offer against what the pool accepts. *)

(* A row offers what the pool accepts, settling at most a block late, and  *)
(* a holder who may exercise is alerted.                                   *)
LEMMA RowOffersWhatIsDue ==
    ASSUME TypeOK, NEW u \in Users, NEW id \in DOMAIN options
    PROVE  LET offered == RowAction(u, options[id], block)
               due     == Accepted(u, id)
           IN  /\ due \subseteq offered \cup {"settle"}
               /\ "settle" \in due \ offered => LastGraceBlock(id)
               /\ "exercise" \in due /\ BlocksLeft(options[id], block) <= ALERT_BLOCKS
                    => ExpiryAlert(u, options[id], block) # "none"
<1> DEFINE o == options[id]
           offered == RowAction(u, o, block)
<1>1. /\ block \in Nat /\ GraceEnd(o) \in Nat /\ ALERT_BLOCKS \in Nat
  BY Basics, DeploymentAssumption, AlertAssumption DEF TypeOK, GraceEnd, Option
<1>2. OPEN # PURCHASED /\ EXPIRED # PURCHASED /\ OPEN # EXPIRED
  BY DEF OPEN, PURCHASED, EXPIRED
<1>3. MayCancel(u, id) => {"cancel", "roll"} \subseteq offered
  <2> SUFFICES ASSUME MayCancel(u, id) PROVE offered = {"cancel", "roll"}
    OBVIOUS
  <2>1. o.status = OPEN /\ IsWriter(u, o)
    BY DEF MayCancel, IsWriter
  <2> QED BY <1>2, <2>1 DEF RowAction
<1>4. MayBuy(u, id) => "buy" \in offered
  BY <1>2 DEF MayBuy, RowAction, IsWriter
<1>5. MayExercise(u, id) \/ MayTransfer(u, id) => {"exercise", "transfer"} \subseteq offered
  BY <1>1, <1>2 DEF MayExercise, MayTransfer, RowAction, IsBuyer, GraceActive
<1>6. CanSettle(id) /\ "settle" \notin offered => LastGraceBlock(id)
  <2> SUFFICES ASSUME CanSettle(id), "settle" \notin offered PROVE block = GraceEnd(o)
    BY DEF LastGraceBlock
  <2>1. o.status = PURCHASED /\ GraceEnd(o) <= block
    BY DEF CanSettle
  <2>2. GraceActive(o, block)
    BY <1>2, <2>1 DEF RowAction
  <2> QED BY <1>1, <2>1, <2>2 DEF GraceActive
<1>7. MayExercise(u, id) /\ BlocksLeft(o, block) <= ALERT_BLOCKS
        => ExpiryAlert(u, o, block) # "none"
  <2> SUFFICES ASSUME MayExercise(u, id), BlocksLeft(o, block) <= ALERT_BLOCKS
               PROVE  ExpiryAlert(u, o, block) # "none"
    OBVIOUS
  <2>1. /\ o.status = PURCHASED /\ IsBuyer(u, o)
        /\ ~(BlocksLeft(o, block) <= 0) /\ ~(BlocksLeft(o, block) > ALERT_BLOCKS)
    BY <1>1 DEF MayExercise, IsBuyer, BlocksLeft
  <2> QED BY <2>1 DEF ExpiryAlert
<1>8. \A a \in Accepted(u, id) :
        \/ a \in {"cancel", "roll"} /\ MayCancel(u, id)
        \/ a = "buy" /\ MayBuy(u, id)
        \/ a = "exercise" /\ MayExercise(u, id)
        \/ a = "transfer" /\ MayTransfer(u, id)
        \/ a = "settle" /\ CanSettle(id)
  BY DEF Accepted
<1> HIDE DEF offered, o
<1>9. Accepted(u, id) \subseteq offered \cup {"settle"}
  BY <1>3, <1>4, <1>5, <1>8
<1>10. "settle" \in Accepted(u, id) => CanSettle(id)
  BY <1>8
<1>11. "exercise" \in Accepted(u, id) => MayExercise(u, id)
  BY <1>8
<1> QED BY <1>6, <1>7, <1>9, <1>10, <1>11 DEF offered, o

(* Every batch modal's cancellation is carried out, unless a fee is beyond *)
(* the contract's arithmetic: the pool has the collateral.                 *)
LEMMA BatchIsCarriedOut ==
    ASSUME TypeOK, Solvent, NEW u \in Users, NEW ticked \in SUBSET DOMAIN options,
           NEW open, open = SelectedOpen(u, ticked), BatchSent(open),
           \A id \in open : CancelFeeFits(options[id])
    PROVE  CanBatchCancel(u, open)
<1>1. open \subseteq DOMAIN options /\ \A id \in open : MayCancel(u, id)
  BY DEF SelectedOpen, IsWriter, MayCancel, Exists
<1>2. BatchSize(open)
  <2>1. nextId \in Nat /\ DOMAIN options = 0 .. nextId - 1
    BY Basics DEF TypeOK
  <2>2. IsFiniteSet(open)
    <3>1. IsFiniteSet(0 .. nextId - 1)
      BY <2>1, FS_Interval
    <3> QED BY <1>1, <2>1, <3>1, FS_Subset
  <2>3. Cardinality(open) \in Nat /\ Cardinality(open) # 0
    BY <2>2, FS_CardinalityType, FS_EmptySet DEF BatchSent
  <2> QED BY <2>3 DEF BatchSent, BatchSize, MAX_BATCH_SIZE
<1>3. ASSUME NEW t \in Tokens
      PROVE  Affords(balance, t, Pool, BatchTotal(open, t, Collaterals))
  <2>1. \A id \in open : Live(options[id])
    BY <1>1 DEF MayCancel, Live
  <2>2. /\ WithStatus(open, CANCELLED) \in [0 .. nextId - 1 -> Option]
        /\ LockedIn(WithStatus(open, CANCELLED), nextId, t)
             = Locked(t) - BatchTotal(open, t, Collaterals)
    BY <1>1, <2>1, BatchReleases
  <2>3. LockedIn(WithStatus(open, CANCELLED), nextId, t) \in Nat
    BY <2>2, LockedType, Basics DEF TypeOK
  <2>4. /\ Locked(t) \in Nat /\ balance[t][Pool] \in Nat
        /\ BatchTotal(open, t, Collaterals) \in Nat
    BY <1>1, LockedNat, BatchTotalNat, AmountTypes
  <2>5. balance[t][Pool] >= Locked(t)
    BY DEF Solvent
  <2> QED BY <2>2, <2>3, <2>4, <2>5 DEF Affords, CanPay
<1> QED BY <1>1, <1>2, <1>3 DEF CanBatchCancel

(* Whatever the pool would accept from a user its pages offer him, they    *)
(* alert him in time, and it carries out every batch they send, however    *)
(* many options, users and ticks there are (OptionsTable.tsx,              *)
(* useExpiryAlerts.ts and the batch modals).                               *)
THEOREM PagesOfferAllDues == Spec => []PagesOfferWhatIsDue
<1>1. TypeOK /\ Solvent => PagesOfferWhatIsDue
  <2> SUFFICES ASSUME TypeOK, Solvent, NEW u \in Users
               PROVE  /\ \A id \in DOMAIN options :
                           LET offered == RowAction(u, options[id], block)
                               due     == Accepted(u, id)
                           IN  /\ due \subseteq offered \cup {"settle"}
                               /\ "settle" \in due \ offered => LastGraceBlock(id)
                               /\ "exercise" \in due
                                    /\ BlocksLeft(options[id], block) <= ALERT_BLOCKS
                                    => ExpiryAlert(u, options[id], block) # "none"
                      /\ \A ticked \in SUBSET DOMAIN options :
                           LET open == SelectedOpen(u, ticked)
                               due  == SelectedSettleable(ticked, block)
                           IN  /\ BatchSent(open) =>
                                    \/ CanBatchCancel(u, open)
                                    \/ \E id \in open : ~CancelFeeFits(options[id])
                               /\ BatchSent(due)  => \A id \in due : CanSettle(id)
    BY DEF PagesOfferWhatIsDue
  <2>1. \A ticked \in SUBSET DOMAIN options :
          \A id \in SelectedSettleable(ticked, block) : CanSettle(id)
    BY DEF SelectedSettleable, CanSettle, Exists
  <2> QED BY <2>1, RowOffersWhatIsDue, BatchIsCarriedOut
<1> QED BY <1>1, TypeCorrect, PoolSolvent, PTL

-----------------------------------------------------------------------------
(* Order: every finite set of listings can be laid out as a page does. *)

(* R orders S, no two elements equal in rank. *)
Orders(R, S) ==
    /\ \A x \in S : <<x, x>> \notin R
    /\ \A x, y \in S : x = y \/ <<x, y>> \in R \/ <<y, x>> \in R
    /\ \A x, y, z \in S : <<x, y>> \in R /\ <<y, z>> \in R => <<x, z>> \in R

(* A finite set that is ordered and not empty has a last element. *)
LEMMA LastExists ==
    ASSUME NEW S, NEW R, Orders(R, S), NEW T \in SUBSET S, IsFiniteSet(T), T # {}
    PROVE  \E m \in T : \A x \in T : x = m \/ <<x, m>> \in R
<1> DEFINE Has(U) == \E m \in U : \A x \in U : x = m \/ <<x, m>> \in R
           A == {n \in Nat : \A U \in SUBSET S :
                    IsFiniteSet(U) /\ Cardinality(U) = n /\ U # {} => Has(U)}
<1>1. 0 \in A
  BY FS_EmptySet
<1>2. ASSUME NEW n \in Nat, n \in A PROVE n + 1 \in A
  <2> SUFFICES ASSUME NEW U \in SUBSET S, IsFiniteSet(U), Cardinality(U) = n + 1
               PROVE  Has(U)
    OBVIOUS
  <2>1. U # {}
    BY FS_EmptySet
  <2>2. PICK y : y \in U
    BY <2>1
  <2> DEFINE V == U \ {y}
  <2>3. V \in SUBSET S /\ IsFiniteSet(V) /\ Cardinality(V) = n
    <3>1. IsFiniteSet(V) /\ Cardinality(V) = Cardinality(U) - 1
      BY <2>2, FS_RemoveElement
    <3> QED BY <3>1
  <2>4. CASE V = {}
    <3>1. \A x \in U : x = y
      BY <2>4
    <3> QED BY <2>2, <3>1
  <2>5. CASE V # {}
    <3>1. PICK m \in V : \A x \in V : x = m \/ <<x, m>> \in R
      BY <1>2, <2>3, <2>5
    <3>2. m # y /\ m \in S /\ y \in S /\ m \in U
      BY <2>2
    <3>3. CASE <<y, m>> \in R
      <4>1. \A x \in U : x = m \/ <<x, m>> \in R
        BY <3>1, <3>3
      <4> QED BY <3>2, <4>1
    <3>4. CASE <<m, y>> \in R
      <4>1. \A x \in U : x = y \/ <<x, y>> \in R
        BY <3>1, <3>2, <3>4 DEF Orders
      <4> QED BY <2>2, <4>1
    <3> QED BY <3>2, <3>3, <3>4 DEF Orders
  <2> QED BY <2>4, <2>5
<1>3. Nat \subseteq A
  <2> HIDE DEF A
  <2> QED BY <1>1, <1>2, SetInduction
<1> QED BY <1>3, FS_CardinalityType

(* A finite set that is ordered can be laid out in that order. *)
LEMMA LayoutExists ==
    ASSUME NEW S, NEW R, Orders(R, S), IsFiniteSet(S)
    PROVE  \E s \in [1 .. Cardinality(S) -> S] :
              \A i, j \in DOMAIN s : i < j => <<s[i], s[j]>> \in R
<1> DEFINE Laid(U, n) == \E s \in [1 .. n -> U] :
                            \A i, j \in DOMAIN s : i < j => <<s[i], s[j]>> \in R
           A == {n \in Nat : \A U \in SUBSET S :
                    IsFiniteSet(U) /\ Cardinality(U) = n => Laid(U, n)}
<1>1. 0 \in A
  <2> SUFFICES ASSUME NEW U PROVE Laid(U, 0)
    OBVIOUS
  <2> DEFINE s == [i \in 1 .. 0 |-> 0]
  <2>1. s \in [1 .. 0 -> U] /\ DOMAIN s = {}
    OBVIOUS
  <2> QED BY <2>1
<1>2. ASSUME NEW n \in Nat, n \in A PROVE n + 1 \in A
  <2> SUFFICES ASSUME NEW U \in SUBSET S, IsFiniteSet(U), Cardinality(U) = n + 1
               PROVE  Laid(U, n + 1)
    OBVIOUS
  <2>1. PICK m \in U : \A x \in U : x = m \/ <<x, m>> \in R
    BY FS_EmptySet, LastExists
  <2>2. /\ U \ {m} \in SUBSET S /\ IsFiniteSet(U \ {m})
        /\ Cardinality(U \ {m}) = n
    BY FS_RemoveElement
  <2>3. PICK s \in [1 .. n -> U \ {m}] :
           \A i, j \in DOMAIN s : i < j => <<s[i], s[j]>> \in R
    BY <1>2, <2>2
  <2> DEFINE t == [i \in 1 .. n + 1 |-> IF i = n + 1 THEN m ELSE s[i]]
  <2>4. t \in [1 .. n + 1 -> U]
    OBVIOUS
  <2>5. ASSUME NEW i \in 1 .. n + 1, NEW j \in 1 .. n + 1, i < j
        PROVE  <<t[i], t[j]>> \in R
    <3>1. i \in 1 .. n /\ t[i] = s[i] /\ s[i] \in U \ {m}
      BY <2>5
    <3>2. CASE j = n + 1
      BY <2>1, <3>1, <3>2
    <3>3. CASE j # n + 1
      BY <2>3, <2>5, <3>1, <3>3
    <3> QED BY <3>2, <3>3
  <2> QED BY <2>4, <2>5
<1>3. Nat \subseteq A
  <2> HIDE DEF A
  <2> QED BY <1>1, <1>2, SetInduction
<1> QED BY <1>3, FS_CardinalityType

(* A layout in order holds every element. *)
LEMMA LayoutCovers ==
    ASSUME NEW S, IsFiniteSet(S), NEW s \in [1 .. Cardinality(S) -> S],
           \A i, j \in DOMAIN s : i < j => s[i] # s[j]
    PROVE  Range(s) = S /\ DOMAIN s = 1 .. Cardinality(S)
<1> DEFINE n == Cardinality(S)
<1>1. n \in Nat
  BY FS_CardinalityType
<1>2. IsFiniteSet(1 .. n) /\ Cardinality(1 .. n) = n
  <2> HIDE DEF n
  <2>1. IsFiniteSet(1 .. n) /\ Cardinality(1 .. n) = IF 1 > n THEN 0 ELSE n - 1 + 1
    BY <1>1, FS_Interval
  <2> QED BY <1>1, <2>1
<1>3. s \in Injection(1 .. n, S)
  <2>1. ASSUME NEW i \in 1 .. n, NEW j \in 1 .. n, s[i] = s[j] PROVE i = j
    BY <1>1, <2>1
  <2> QED BY <2>1 DEF Injection, IsInjective
<1>4. s \in Surjection(1 .. n, S)
  BY <1>2, <1>3, FS_Injection
<1> QED BY <1>4 DEF Surjection, Range

-----------------------------------------------------------------------------
(* The option chain. *)

(* The book a page loads: what the chain's operators need of it. *)
Book(book, ids) ==
    /\ IsFiniteSet(ids) /\ ids \subseteq Nat
    /\ \A id \in ids : book[id].premium \in Nat /\ book[id].strikePrice \in Nat

(* A cell stacks exactly its ids, a cheapest one first. *)
LEMMA CellStacks ==
    ASSUME NEW book, NEW ids, Book(book, ids), ids # {}
    PROVE  LET cell == BuildCell(book, ids)
           IN  /\ Range(cell.options) = ids
               /\ cell.options[1] \in ids
               /\ cell.bestPremium = book[cell.options[1]].premium
               /\ \A id \in ids : cell.bestPremium <= book[id].premium
<1> DEFINE R == {p \in ids \X ids : \/ book[p[1]].premium < book[p[2]].premium
                                    \/ book[p[1]].premium = book[p[2]].premium /\ p[1] < p[2]}
           Laid(s) == /\ s \in [1 .. Cardinality(ids) -> ids]
                      /\ \A i, j \in DOMAIN s : i < j =>
                            \/ book[s[i]].premium < book[s[j]].premium
                            \/ book[s[i]].premium = book[s[j]].premium /\ s[i] < s[j]
           s == BuildCell(book, ids).options
           low == BuildCell(book, ids).bestPremium
<1>1. s = CHOOSE x : Laid(x)
  BY DEF BuildCell, InOrder
<1>2. low = Min({book[id].premium : id \in ids})
  BY DEF BuildCell
<1>3. Orders(R, ids)
  <2>1. \A id \in ids : id \in Nat /\ book[id].premium \in Nat
    BY DEF Book
  <2> QED BY <2>1 DEF Orders
<1>4. PICK x \in [1 .. Cardinality(ids) -> ids] :
         \A i, j \in DOMAIN x : i < j => <<x[i], x[j]>> \in R
  <2> HIDE DEF R
  <2> QED BY <1>3, LayoutExists DEF Book
<1>5. Laid(x)
  BY <1>4
<1> HIDE DEF s, low
<1>6. Laid(s)
  <2> HIDE DEF Laid
  <2> QED BY <1>1, <1>5
<1>7. \A i, j \in DOMAIN s : i < j => s[i] # s[j]
  <2> SUFFICES ASSUME NEW i \in DOMAIN s, NEW j \in DOMAIN s, i < j, s[i] = s[j]
               PROVE  FALSE
    OBVIOUS
  <2>1. s[i] \in ids /\ s[i] \in Nat /\ book[s[i]].premium \in Nat
    BY <1>6 DEF Book
  <2> QED BY <1>6, <2>1
<1>8. Range(s) = ids /\ DOMAIN s = 1 .. Cardinality(ids)
  BY <1>6, <1>7, LayoutCovers DEF Book
<1>9. Cardinality(ids) \in Nat /\ Cardinality(ids) # 0
  BY FS_CardinalityType, FS_EmptySet DEF Book
<1>10. 1 \in DOMAIN s /\ s[1] \in ids
  BY <1>6, <1>8, <1>9
<1>11. \A id \in ids : book[s[1]].premium <= book[id].premium
  <2> SUFFICES ASSUME NEW id \in ids PROVE book[s[1]].premium <= book[id].premium
    OBVIOUS
  <2>1. PICK i \in DOMAIN s : s[i] = id
    BY <1>8 DEF Range
  <2>2. i \in Nat /\ i >= 1 /\ book[id].premium \in Nat /\ book[s[1]].premium \in Nat
    <3>1. i \in 1 .. Cardinality(ids)
      BY <1>8
    <3>2. \A k \in ids : book[k].premium \in Nat
      BY DEF Book
    <3> QED BY <1>9, <1>10, <3>1, <3>2
  <2>3. CASE i = 1
    BY <2>1, <2>2, <2>3
  <2>4. CASE i > 1
    BY <1>6, <1>10, <2>1, <2>2, <2>4
  <2> QED BY <2>2, <2>3, <2>4
<1>12. low = book[s[1]].premium
  <2> DEFINE P == {book[id].premium : id \in ids}
             F(m) == m \in P /\ \A y \in P : m =< y
  <2>1. F(book[s[1]].premium)
    BY <1>10, <1>11
  <2>2. low = CHOOSE m : F(m)
    BY <1>2 DEF Min
  <2>3. F(low)
    <3> HIDE DEF F
    <3> QED BY <2>1, <2>2
  <2>4. low \in P /\ book[s[1]].premium \in P
    BY <2>1, <2>3
  <2>5. low <= book[s[1]].premium /\ book[s[1]].premium <= low
    BY <2>1, <2>3, <2>4
  <2>6. \A m \in P : m \in Nat
    BY DEF Book
  <2> HIDE DEF P, F
  <2> QED BY <2>4, <2>5, <2>6
<1> QED BY <1>8, <1>10, <1>11, <1>12 DEF s, low

(* The cell of a strike and a type. *)
CellIds(book, ids, k, type) ==
    {id \in ids : book[id].strikePrice = k /\ book[id].optionType = type}

(* There is one row for each strike. *)
LEMMA RowsByStrike ==
    ASSUME NEW book, NEW ids, Book(book, ids)
    PROVE  LET rows == BuildRows(book, ids)
           IN  /\ \E m \in Nat : DOMAIN rows = 1 .. m
               /\ rows = [n \in DOMAIN rows |-> rows[n]]
               /\ \A n \in DOMAIN rows :
                    /\ rows[n].strikePrice \in Nat
                    /\ \E id \in ids : book[id].strikePrice = rows[n].strikePrice
                    /\ rows[n].call =
                         BuildCell(book, CellIds(book, ids, rows[n].strikePrice, CALL))
                    /\ rows[n].put =
                         BuildCell(book, CellIds(book, ids, rows[n].strikePrice, PUT))
               /\ \A id \in ids :
                    \E n \in DOMAIN rows : rows[n].strikePrice = book[id].strikePrice
<1> DEFINE S == {book[id].strikePrice : id \in ids}
           R == {p \in S \X S : p[1] < p[2]}
           Laid(s) == /\ s \in [1 .. Cardinality(S) -> S]
                      /\ \A i, j \in DOMAIN s : i < j => s[i] < s[j]
           s == InOrder(S, <)
           rows == BuildRows(book, ids)
<1>1. IsFiniteSet(S)
  <2> DEFINE f == [id \in ids |-> book[id].strikePrice]
  <2>1. f \in Surjection(ids, S)
    BY DEF Surjection
  <2> HIDE DEF f, S
  <2> QED BY <2>1, FS_Surjection DEF Book
<1>2. \A k \in S : k \in Nat
  BY DEF Book
<1>3. s = CHOOSE x : Laid(x)
  BY DEF InOrder
<1>4. Orders(R, S)
  <2> HIDE DEF S
  <2> QED BY <1>2 DEF Orders
<1>5. PICK x \in [1 .. Cardinality(S) -> S] :
         \A i, j \in DOMAIN x : i < j => <<x[i], x[j]>> \in R
  <2> HIDE DEF R, S
  <2> QED BY <1>1, <1>4, LayoutExists
<1>6. Laid(x)
  BY <1>5
<1>7. rows = [n \in DOMAIN s |->
                [strikePrice |-> s[n],
                 call |-> BuildCell(book, CellIds(book, ids, s[n], CALL)),
                 put  |-> BuildCell(book, CellIds(book, ids, s[n], PUT))]]
  BY DEF BuildRows, CellIds
<1> HIDE DEF s, rows
<1>8. Laid(s)
  <2> HIDE DEF Laid
  <2> QED BY <1>3, <1>6
<1> HIDE DEF S
<1>9. \A i, j \in DOMAIN s : i < j => s[i] # s[j]
  <2> SUFFICES ASSUME NEW i \in DOMAIN s, NEW j \in DOMAIN s, i < j, s[i] = s[j]
               PROVE  FALSE
    OBVIOUS
  <2> QED BY <1>2, <1>8
<1>10. Range(s) = S /\ DOMAIN s = 1 .. Cardinality(S)
  BY <1>1, <1>8, <1>9, LayoutCovers
<1>11. DOMAIN rows = DOMAIN s /\ \A n \in DOMAIN rows : rows[n].strikePrice = s[n]
  BY <1>7
<1>12. \A id \in ids : \E n \in DOMAIN rows : rows[n].strikePrice = book[id].strikePrice
  <2>1. \A k \in S : \E n \in DOMAIN rows : rows[n].strikePrice = k
    BY <1>10, <1>11 DEF Range
  <2> QED BY <2>1 DEF S
<1>13. \A n \in DOMAIN rows :
         /\ rows[n].call = BuildCell(book, CellIds(book, ids, rows[n].strikePrice, CALL))
         /\ rows[n].put  = BuildCell(book, CellIds(book, ids, rows[n].strikePrice, PUT))
  BY <1>7, <1>11
<1>14. \A n \in DOMAIN rows : /\ rows[n].strikePrice \in Nat
                              /\ \E id \in ids : book[id].strikePrice = rows[n].strikePrice
  <2>1. \A n \in DOMAIN rows : rows[n].strikePrice \in S
    BY <1>8, <1>11
  <2> QED BY <1>2, <2>1 DEF S
<1>15. rows = [n \in DOMAIN rows |-> rows[n]]
  BY <1>7
<1>16. \E m \in Nat : DOMAIN rows = 1 .. m
  BY <1>1, <1>10, <1>11, FS_CardinalityType
<1> QED BY <1>12, <1>13, <1>14, <1>15, <1>16 DEF rows

(* A chain has a button for every listing in it but the wallet's own. *)
LEMMA RowsOffer ==
    ASSUME NEW book, NEW ids, Book(book, ids), NEW u,
           \A id \in ids : book[id].optionType \in OptionTypes
    PROVE  /\ RowOffers(u, book, BuildRows(book, ids)) = {id \in ids : book[id].writer # u}
           /\ BuildRows(book, ids) = <<>> => ids = {}
<1> DEFINE rows == BuildRows(book, ids)
           In(n, type) == CellIds(book, ids, rows[n].strikePrice, type)
<1>1. rows = BuildRows(book, ids)
  OBVIOUS
<1> HIDE DEF rows
<1>2. /\ \A n \in DOMAIN rows : /\ rows[n].call = BuildCell(book, In(n, CALL))
                                /\ rows[n].put  = BuildCell(book, In(n, PUT))
      /\ \A id \in ids : \E n \in DOMAIN rows : rows[n].strikePrice = book[id].strikePrice
  BY <1>1, RowsByStrike
<1>3. ASSUME NEW n \in DOMAIN rows, NEW type \in OptionTypes
      PROVE  CellOffers(u, book, BuildCell(book, In(n, type)))
               = {id \in In(n, type) : book[id].writer # u}
  <2>1. Book(book, In(n, type))
    <3>1. In(n, type) \subseteq ids
      BY DEF CellIds
    <3> HIDE DEF In
    <3> QED BY <3>1, FS_Subset DEF Book
  <2> HIDE DEF In
  <2>2. Range(BuildCell(book, In(n, type)).options) = In(n, type)
    <3>1. CASE In(n, type) = {}
      BY <3>1 DEF BuildCell, NoCell, Range
    <3>2. CASE In(n, type) # {}
      BY <2>1, <3>2, CellStacks
    <3> QED BY <3>1, <3>2
  <2> QED BY <2>2 DEF CellOffers
<1>4. \A n \in DOMAIN rows :
         CellOffers(u, book, rows[n].call) \cup CellOffers(u, book, rows[n].put)
           = {id \in ids : book[id].writer # u /\ book[id].strikePrice = rows[n].strikePrice}
  <2> SUFFICES ASSUME NEW n \in DOMAIN rows
               PROVE CellOffers(u, book, rows[n].call) \cup CellOffers(u, book, rows[n].put)
           = {id \in ids : book[id].writer # u /\ book[id].strikePrice = rows[n].strikePrice}
    OBVIOUS
  <2>1. /\ CellOffers(u, book, rows[n].call) = {id \in In(n, CALL) : book[id].writer # u}
        /\ CellOffers(u, book, rows[n].put) = {id \in In(n, PUT) : book[id].writer # u}
    <3> HIDE DEF In
    <3> QED BY <1>2, <1>3 DEF OptionTypes
  <2> QED BY <2>1 DEF CellIds, OptionTypes
<1>5. RowOffers(u, book, rows) = {id \in ids : book[id].writer # u}
  <2> DEFINE At(n) == CellOffers(u, book, rows[n].call) \cup CellOffers(u, book, rows[n].put)
  <2>1. RowOffers(u, book, rows) = UNION {At(n) : n \in DOMAIN rows}
    BY DEF RowOffers
  <2>2. \A n \in DOMAIN rows :
          At(n) = {id \in ids : book[id].writer # u /\ book[id].strikePrice = rows[n].strikePrice}
    BY <1>4
  <2>3. \A id \in ids : \E n \in DOMAIN rows : rows[n].strikePrice = book[id].strikePrice
    BY <1>2
  <2> HIDE DEF At
  <2> QED BY <2>1, <2>2, <2>3
<1>6. rows = <<>> => ids = {}
  <2> SUFFICES ASSUME rows = <<>> PROVE ids = {}
    OBVIOUS
  <2>1. DOMAIN rows = {}
    OBVIOUS
  <2> QED BY <1>2, <2>1
<1> QED BY <1>5, <1>6 DEF rows

Bucket(b) == InBucket(options, b, block)
Tab(id)   == ClassifyBucket(options[id].expiryBlock - block)

(* Every open option is in the tab "all" and in the tab of its expiry. *)
LEMMA TabsHold ==
    ASSUME TypeOK
    PROVE  LET chain == BuildChain(options, block)
           IN  /\ "all" \in DOMAIN chain /\ Bucket("all") = Listed(options)
               /\ \A b \in DOMAIN chain :
                    /\ b \in ExpiryTabs
                    /\ chain[b] = BuildRows(options, Bucket(b))
                    /\ b = "all" \/ Bucket(b) # {}
               /\ \A id \in Listed(options) :
                    /\ Tab(id) \in DOMAIN chain /\ Tab(id) # "all"
                    /\ \A b \in ExpiryTabs : id \in Bucket(b) <=> b \in {"all", Tab(id)}
<1> DEFINE chain == BuildChain(options, block)
<1>1. block # Unknown
  BY DEF TypeOK, Unknown
<1>2. \A id : Tab(id) \in ExpiryTabs \ {"all"}
  BY DEF Tab, ClassifyBucket, ExpiryTabs
<1>3. \A id \in Listed(options), b \in ExpiryTabs : id \in Bucket(b) <=> b \in {"all", Tab(id)}
  BY <1>1 DEF Bucket, Tab, InBucket
<1>4. DOMAIN chain = {b \in ExpiryTabs : b = "all" \/ Bucket(b) # {}}
  BY DEF BuildChain, ActiveBuckets, Bucket
<1>5. \A b \in DOMAIN chain : chain[b] = BuildRows(options, Bucket(b))
  BY DEF BuildChain, Bucket
<1>6. Bucket("all") = Listed(options)
  BY DEF Bucket, InBucket
<1> HIDE DEF chain
<1>7. "all" \in DOMAIN chain
  BY <1>4 DEF ExpiryTabs
<1>8. \A id \in Listed(options) : Tab(id) \in DOMAIN chain /\ Tab(id) # "all"
  BY <1>2, <1>3, <1>4
<1> QED BY <1>3, <1>4, <1>5, <1>6, <1>7, <1>8 DEF chain

(* What a page has loaded of the pool. *)
LEMMA LoadedBook ==
    ASSUME TypeOK
    PROVE  /\ IsFiniteSet(Listed(options))
           /\ \A ids \in SUBSET Listed(options) :
                /\ Book(options, ids)
                /\ \A id \in ids : /\ id \in DOMAIN options
                                   /\ options[id].optionType \in OptionTypes
                                   /\ options[id].status = OPEN
           /\ \A b : Bucket(b) \subseteq Listed(options)
<1>1. IsFiniteSet(DOMAIN options) /\ DOMAIN options \subseteq Nat
  <2>1. nextId \in Nat /\ DOMAIN options = 0 .. nextId - 1
    BY Basics DEF TypeOK
  <2>2. IsFiniteSet(0 .. nextId - 1)
    BY <2>1, FS_Interval
  <2> QED BY <2>1, <2>2
<1>2. \A id \in DOMAIN options : /\ options[id].premium \in Nat
                                 /\ options[id].strikePrice \in Nat
                                 /\ options[id].optionType \in OptionTypes
  <2> SUFFICES ASSUME NEW id \in DOMAIN options
               PROVE  /\ options[id].premium \in Nat
                      /\ options[id].strikePrice \in Nat
                      /\ options[id].optionType \in OptionTypes
    OBVIOUS
  <2>1. options[id] \in Option
    BY Basics
  <2> QED BY <2>1 DEF Option
<1>3. \A ids \in SUBSET DOMAIN options : IsFiniteSet(ids)
  BY <1>1, FS_Subset
<1>4. Listed(options) \subseteq DOMAIN options
  BY DEF Listed
<1>5. \A id \in Listed(options) : options[id].status = OPEN
  BY DEF Listed
<1>6. \A b : Bucket(b) \subseteq Listed(options)
  BY DEF Bucket, InBucket
<1> QED BY <1>1, <1>2, <1>3, <1>4, <1>5, <1>6 DEF Book

(* Whatever is open and somebody else's, the pool sells or has cause.      *)
LEMMA RefusedForCause ==
    ASSUME TypeOK, NEW u \in Users, NEW id \in Listed(options), options[id].writer # u
    PROVE  id \in ForSale(u) \/ Unsold(u, options[id])
<1> SUFFICES ASSUME ~Unsold(u, options[id]) PROVE id \in ForSale(u)
  OBVIOUS
<1>1. id \in DOMAIN options /\ id \in 0 .. nextId - 1 /\ options[id].status = OPEN
  BY Basics DEF Listed
<1>2. options[id] \in Option /\ block # Unknown /\ block \in Nat
  BY <1>1, Basics DEF TypeOK, Unknown
<1>3. /\ block < options[id].expiryBlock
      /\ FeeFits(options[id].premium, BUY_FEE_BPS)
  BY <1>2 DEF Unsold, ListingExpired, Option
<1>4. Affords(balance, PremiumToken, u, options[id].premium)
  <2>1. balance[PremiumToken][u] \in Nat /\ options[id].premium \in Nat
    BY <1>2, Basics DEF TypeOK, Addresses, Option
  <2>2. ~(balance[PremiumToken][u] < options[id].premium)
    BY DEF Unsold, TotalCost
  <2> QED BY <2>1, <2>2 DEF Affords, CanPay
<1> QED BY <1>1, <1>3, <1>4 DEF ForSale, CanBuy, MayBuy, Exists

(* Buttons, tabs and what the pool would sell. *)
LEMMA ChainHasButtons ==
    ASSUME TypeOK, NEW u \in Users
    PROVE  LET chain == BuildChain(options, block)
               offers == [b \in DOMAIN chain |-> RowOffers(u, options, chain[b])]
           IN  /\ ForSale(u) \subseteq offers["all"]
               /\ \A tab \in ExpiryTabs : ShownRows(chain, tab) = <<>> => chain["all"] = <<>>
               /\ \A id \in offers["all"] :
                    /\ Cardinality({b \in DOMAIN chain : id \in offers[b]}) = 2
                    /\ id \in ForSale(u) \/ Unsold(u, options[id])
<1> DEFINE chain == BuildChain(options, block)
           offers == [b \in DOMAIN chain |-> RowOffers(u, options, chain[b])]
           Others == {id \in Listed(options) : options[id].writer # u}
<1>1. /\ "all" \in DOMAIN chain /\ Bucket("all") = Listed(options)
      /\ \A b \in DOMAIN chain : /\ b \in ExpiryTabs
                                 /\ chain[b] = BuildRows(options, Bucket(b))
                                 /\ b = "all" \/ Bucket(b) # {}
      /\ \A id \in Listed(options) :
           /\ Tab(id) \in DOMAIN chain /\ Tab(id) # "all"
           /\ \A b \in ExpiryTabs : id \in Bucket(b) <=> b \in {"all", Tab(id)}
  BY TabsHold
<1>2. \A b : /\ Book(options, Bucket(b))
             /\ \A id \in Bucket(b) : options[id].optionType \in OptionTypes
  BY LoadedBook
<1> HIDE DEF chain
<1>3. \A b \in DOMAIN chain : offers[b] = {id \in Bucket(b) : options[id].writer # u}
  <2> SUFFICES ASSUME NEW b \in DOMAIN chain
               PROVE  RowOffers(u, options, chain[b]) = {id \in Bucket(b) : options[id].writer # u}
    OBVIOUS
  <2> QED BY <1>1, <1>2, RowsOffer
<1>4. \A b \in DOMAIN chain : chain[b] = <<>> => Bucket(b) = {}
  BY <1>1, <1>2, RowsOffer
<1> HIDE DEF offers
<1>5. offers["all"] = Others
  BY <1>1, <1>3
<1>6. ForSale(u) \subseteq Others
  BY DEF ForSale, CanBuy, MayBuy, Listed
<1>7. ASSUME NEW tab \in ExpiryTabs, ShownRows(chain, tab) = <<>> PROVE chain["all"] = <<>>
  <2>1. CASE tab \in DOMAIN chain
    <3>1. chain[tab] = <<>>
      BY <1>7, <2>1 DEF ShownRows
    <3> QED BY <1>1, <1>4, <2>1, <3>1
  <2>2. CASE tab \notin DOMAIN chain
    BY <1>7, <2>2 DEF ShownRows
  <2> QED BY <2>1, <2>2
<1>8. ASSUME NEW id \in Others
      PROVE  /\ Cardinality({b \in DOMAIN chain : id \in offers[b]}) = 2
             /\ id \in ForSale(u) \/ Unsold(u, options[id])
  <2>1. {b \in DOMAIN chain : id \in offers[b]} = {"all"} \cup {Tab(id)}
    BY <1>1, <1>3
  <2>2. Cardinality({"all"} \cup {Tab(id)}) = 2
    <3>1. IsFiniteSet({"all"}) /\ Cardinality({"all"}) = 1
      BY FS_Singleton
    <3>2. Tab(id) \notin {"all"}
      BY <1>1
    <3>3. Cardinality({"all"} \cup {Tab(id)}) = 1 + 1
      BY <3>1, <3>2, FS_AddElement
    <3> QED BY <3>3
  <2>3. id \in ForSale(u) \/ Unsold(u, options[id])
    BY RefusedForCause
  <2> QED BY <2>1, <2>2, <2>3
<1> QED BY <1>5, <1>6, <1>7, <1>8 DEF chain, offers

(* What a cell advertises is its first listing's premium, and the lowest. *)
LEMMA CellsAreCheapest ==
    ASSUME TypeOK, NEW u \in Users, NEW b \in DOMAIN BuildChain(options, block),
           NEW n \in DOMAIN BuildChain(options, block)[b],
           NEW cell \in {BuildChain(options, block)[b][n].call,
                         BuildChain(options, block)[b][n].put} \ {NoCell}
    PROVE  LET top == options[cell.options[1]]
           IN  /\ cell.bestPremium = top.premium
               /\ \A id \in ForSale(u) :
                    /\ b \in {"all", Tab(id)}
                    /\ options[id].strikePrice = top.strikePrice
                    /\ options[id].optionType = top.optionType
                    => cell.bestPremium <= options[id].premium
<1> DEFINE rows == BuildChain(options, block)[b]
           At(k, type) == CellIds(options, Bucket(b), k, type)
<1>1. rows = BuildRows(options, Bucket(b)) /\ b \in ExpiryTabs
  BY TabsHold
<1>2. Book(options, Bucket(b))
  BY LoadedBook
<1>3. PICK type, k : type \in OptionTypes /\ cell = BuildCell(options, At(k, type))
  <2>1. /\ rows[n].call = BuildCell(options, At(rows[n].strikePrice, CALL))
        /\ rows[n].put = BuildCell(options, At(rows[n].strikePrice, PUT))
    BY <1>1, <1>2, RowsByStrike
  <2> QED BY <2>1 DEF OptionTypes
<1> DEFINE ids == At(k, type)
<1>4. ids # {}
  BY <1>3 DEF BuildCell
<1>5. Book(options, ids)
  <2>1. ids \subseteq Listed(options)
    BY LoadedBook DEF CellIds
  <2> HIDE DEF ids
  <2> QED BY <2>1, LoadedBook
<1> HIDE DEF ids
<1>6. /\ cell.options[1] \in ids
      /\ cell.bestPremium = options[cell.options[1]].premium
      /\ \A id \in ids : cell.bestPremium <= options[id].premium
  BY <1>3, <1>4, <1>5, CellStacks DEF ids
<1>7. \A id \in ids : options[id].strikePrice = k /\ options[id].optionType = type
  BY DEF ids, CellIds
<1>8. ASSUME NEW id \in ForSale(u), b \in {"all", Tab(id)},
             options[id].strikePrice = k, options[id].optionType = type
      PROVE  id \in ids
  <2>1. id \in Listed(options)
    BY DEF ForSale, CanBuy, MayBuy, Listed
  <2>2. id \in Bucket(b)
    BY <1>1, <1>8, <2>1, TabsHold
  <2> QED BY <1>8, <2>2 DEF ids, CellIds
<1> QED BY <1>6, <1>7, <1>8

(* A set of naturals that is not empty has a smallest. *)
LEMMA SmallestExists ==
    ASSUME NEW S, S # {}, \A x \in S : x \in Nat
    PROVE  Min(S) \in S /\ \A y \in S : Min(S) <= y
<1> DEFINE A == {n \in Nat : \A x \in S : x > n}
           F(m) == m \in S /\ \A y \in S : m =< y
<1>1. \E m : F(m)
  <2> SUFFICES ASSUME \A m : ~F(m) PROVE FALSE
    OBVIOUS
  <2>1. 0 \in A
    <3>1. ASSUME 0 \in S PROVE FALSE
      <4>1. F(0)
        BY <3>1
      <4> QED BY <4>1
    <3> QED BY <3>1
  <2>2. ASSUME NEW n \in Nat, n \in A PROVE n + 1 \in A
    <3>1. ASSUME n + 1 \in S PROVE FALSE
      <4>1. F(n + 1)
        BY <2>2, <3>1
      <4> QED BY <4>1
    <3> QED BY <2>2, <3>1
  <2>3. Nat \subseteq A
    <3> HIDE DEF A
    <3> QED BY <2>1, <2>2, SetInduction
  <2>4. PICK x : x \in S
    OBVIOUS
  <2> QED BY <2>3, <2>4
<1>2. Min(S) = CHOOSE m : F(m)
  BY DEF Min
<1>3. F(Min(S))
  <2> HIDE DEF F
  <2> QED BY <1>1, <1>2
<1> QED BY <1>3

(* Some element of a set that is not empty scores lowest. *)
LEMMA LowestExists ==
    ASSUME NEW S, S # {}, NEW f, \A x \in S : f[x] \in Nat
    PROVE  \E x \in S : \A y \in S : f[x] <= f[y]
<1> DEFINE P == {f[x] : x \in S}
<1>1. P # {} /\ \A y \in P : y \in Nat
  OBVIOUS
<1> HIDE DEF P
<1>2. Min(P) \in P /\ \A y \in P : Min(P) <= y
  BY <1>1, SmallestExists
<1> QED BY <1>2 DEF P

(* The divider stands at a strike that is nearest to the price. *)
LEMMA DividerIsNearest ==
    ASSUME TypeOK, NEW s \in Spots
    PROVE  LET rows == BuildChain(options, block)["all"]
               d == FindAtmStrikeIndex(rows, s)
           IN  DOMAIN rows # {} =>
                 /\ d \in DOMAIN rows
                 /\ \A n \in DOMAIN rows : /\ rows[n].strikePrice \in Nat
                                           /\ Distance(rows[d].strikePrice, s)
                                                <= Distance(rows[n].strikePrice, s)
<1> DEFINE rows == BuildChain(options, block)["all"]
           d == FindAtmStrikeIndex(rows, s)
           near == [n \in DOMAIN rows |-> Distance(rows[n].strikePrice, s)]
           I == {n \in DOMAIN rows : \A m \in DOMAIN rows : near[n] <= near[m]}
<1>1. rows = BuildRows(options, Bucket("all"))
  BY TabsHold
<1>2. Book(options, Bucket("all"))
  BY LoadedBook
<1>3. /\ \E m \in Nat : DOMAIN rows = 1 .. m
      /\ rows = [n \in DOMAIN rows |-> rows[n]]
      /\ \A n \in DOMAIN rows : rows[n].strikePrice \in Nat
  BY <1>1, <1>2, RowsByStrike
<1>4. d = IF I # {} THEN Min(I) ELSE 0
  <2> HIDE DEF rows
  <2>1. rows \in Seq({rows[n] : n \in DOMAIN rows})
    BY <1>3
  <2>2. 1 .. Len(rows) = DOMAIN rows
    BY <2>1
  <2> QED BY <2>2 DEF FindAtmStrikeIndex, SelectInSeq
<1> HIDE DEF rows, d
<1>5. s \in Nat
  BY SpotAssumption
<1>6. \A n \in DOMAIN rows : near[n] \in Nat
  BY <1>3, <1>5 DEF Distance
<1>7. ASSUME DOMAIN rows # {} PROVE d \in I
  <2> HIDE DEF near
  <2>1. I # {}
    BY <1>6, <1>7, LowestExists
  <2>2. \A n \in I : n \in Nat
    BY <1>3
  <2> HIDE DEF I
  <2>3. Min(I) \in I
    BY <2>1, <2>2, SmallestExists
  <2> QED BY <1>4, <2>1, <2>3
<1> QED BY <1>3, <1>7 DEF rows, d

(* The rows are marked and divided truly. *)
LEMMA MoneynessIsShown ==
    ASSUME TypeOK, NEW s \in Spots
    PROVE  LET rows == BuildChain(options, block)["all"]
               atm(n) == ClassifyMoneyness(CALL, rows[n].strikePrice, s) = "ATM"
           IN  /\ \A n \in DOMAIN rows : \A type \in OptionTypes :
                    ClassifyMoneyness(type, rows[n].strikePrice, s) = "ITM" =>
                       IF type = CALL THEN IsCallItm(rows[n].strikePrice, s)
                                      ELSE IsPutItm(rows[n].strikePrice, s)
               /\ (\E n \in DOMAIN rows : atm(n)) => atm(FindAtmStrikeIndex(rows, s))
<1> DEFINE rows == BuildChain(options, block)["all"]
           d == FindAtmStrikeIndex(rows, s)
<1>1. DOMAIN rows # {} =>
         /\ d \in DOMAIN rows
         /\ \A n \in DOMAIN rows : /\ rows[n].strikePrice \in Nat
                                   /\ Distance(rows[d].strikePrice, s)
                                        <= Distance(rows[n].strikePrice, s)
  BY DividerIsNearest
<1> HIDE DEF rows, d
<1>2. s \in Nat /\ CALL # PUT
  BY SpotAssumption DEF CALL, PUT
<1>3. ASSUME NEW type \in OptionTypes, NEW k \in Nat
      PROVE  /\ ClassifyMoneyness(type, k, s) = "ITM" =>
                  IF type = CALL THEN IsCallItm(k, s) ELSE IsPutItm(k, s)
             /\ ClassifyMoneyness(type, k, s) = "ATM" <=> 20 * Distance(k, s) <= s
  <2>1. CASE 20 * Distance(k, s) <= s
    <3>1. ClassifyMoneyness(type, k, s) = "ATM"
      BY <2>1 DEF ClassifyMoneyness
    <3> QED BY <2>1, <3>1
  <2>2. CASE ~(20 * Distance(k, s) <= s)
    <3>1. CASE type = CALL
      BY <1>2, <2>2, <3>1 DEF ClassifyMoneyness, IsCallItm
    <3>2. CASE type = PUT
      BY <1>2, <2>2, <3>2 DEF ClassifyMoneyness, IsPutItm
    <3> QED BY <3>1, <3>2 DEF OptionTypes
  <2> QED BY <2>1, <2>2
<1>4. ASSUME NEW n \in DOMAIN rows,
             ClassifyMoneyness(CALL, rows[n].strikePrice, s) = "ATM"
      PROVE  ClassifyMoneyness(CALL, rows[d].strikePrice, s) = "ATM"
  <2>1. /\ d \in DOMAIN rows /\ rows[n].strikePrice \in Nat /\ rows[d].strikePrice \in Nat
        /\ Distance(rows[d].strikePrice, s) <= Distance(rows[n].strikePrice, s)
    BY <1>1
  <2>2. Distance(rows[d].strikePrice, s) \in Nat /\ Distance(rows[n].strikePrice, s) \in Nat
    BY <1>2, <2>1 DEF Distance
  <2>3. 20 * Distance(rows[n].strikePrice, s) <= s
    BY <1>3, <1>4, <2>1 DEF OptionTypes
  <2>4. 20 * Distance(rows[d].strikePrice, s) <= s
    <3> DEFINE x == Distance(rows[d].strikePrice, s)
               y == Distance(rows[n].strikePrice, s)
    <3>1. x \in Nat /\ y \in Nat /\ x <= y /\ 20 * y <= s
      BY <2>1, <2>2, <2>3
    <3> HIDE DEF x, y
    <3>2. 20 * x <= s
      BY <1>2, <3>1
    <3> QED BY <3>2 DEF x
  <2> QED BY <1>3, <2>1, <2>4 DEF OptionTypes
<1> QED BY <1>1, <1>3, <1>4 DEF rows, d

(* The chain against the pool. *)
LEMMA ChainIsTheMarket == TypeOK => ChainOffersTheMarket
<1> SUFFICES ASSUME TypeOK, NEW u \in Users
             PROVE  LET chain == BuildChain(options, block)
                        forSale == ForSale(u)
                        offers == [b \in DOMAIN chain |-> RowOffers(u, options, chain[b])]
                    IN  /\ forSale \subseteq offers["all"]
                        /\ \A tab \in ExpiryTabs :
                             ShownRows(chain, tab) = <<>> => chain["all"] = <<>>
                        /\ \A id \in offers["all"] :
                             /\ Cardinality({b \in DOMAIN chain : id \in offers[b]}) = 2
                             /\ id \in forSale \/ Unsold(u, options[id])
                        /\ \A b \in DOMAIN chain : \A n \in DOMAIN chain[b] :
                             \A cell \in {chain[b][n].call, chain[b][n].put} \ {NoCell} :
                                LET top == options[cell.options[1]]
                                IN  /\ cell.bestPremium = top.premium
                                    /\ \A id \in forSale :
                                         /\ b \in {"all", Tab(id)}
                                         /\ options[id].strikePrice = top.strikePrice
                                         /\ options[id].optionType = top.optionType
                                         => cell.bestPremium <= options[id].premium
                        /\ \A s \in Spots :
                             LET rows == chain["all"]
                                 atm(n) == ClassifyMoneyness(CALL, rows[n].strikePrice, s) = "ATM"
                             IN  /\ \A n \in DOMAIN rows : \A type \in OptionTypes :
                                      ClassifyMoneyness(type, rows[n].strikePrice, s) = "ITM" =>
                                         IF type = CALL THEN IsCallItm(rows[n].strikePrice, s)
                                                        ELSE IsPutItm(rows[n].strikePrice, s)
                                 /\ (\E n \in DOMAIN rows : atm(n)) =>
                                      atm(FindAtmStrikeIndex(rows, s))
  BY DEF ChainOffersTheMarket, Tab
<1>1. \A s \in Spots :
         LET rows == BuildChain(options, block)["all"]
             atm(n) == ClassifyMoneyness(CALL, rows[n].strikePrice, s) = "ATM"
         IN  /\ \A n \in DOMAIN rows : \A type \in OptionTypes :
                  ClassifyMoneyness(type, rows[n].strikePrice, s) = "ITM" =>
                     IF type = CALL THEN IsCallItm(rows[n].strikePrice, s)
                                    ELSE IsPutItm(rows[n].strikePrice, s)
             /\ (\E n \in DOMAIN rows : atm(n)) => atm(FindAtmStrikeIndex(rows, s))
  BY MoneynessIsShown
<1>2. LET chain == BuildChain(options, block)
      IN  \A b \in DOMAIN chain : \A n \in DOMAIN chain[b] :
            \A cell \in {chain[b][n].call, chain[b][n].put} \ {NoCell} :
               LET top == options[cell.options[1]]
               IN  /\ cell.bestPremium = top.premium
                   /\ \A id \in ForSale(u) :
                        /\ b \in {"all", Tab(id)}
                        /\ options[id].strikePrice = top.strikePrice
                        /\ options[id].optionType = top.optionType
                        => cell.bestPremium <= options[id].premium
  BY CellsAreCheapest
<1> QED BY <1>1, <1>2, ChainHasButtons

-----------------------------------------------------------------------------
(* The wizard. *)

(* A finder over listings finds one when there are any. *)
LEMMA FirstLowestExists ==
    ASSUME NEW S, S # {}, S \subseteq Nat, NEW f, \A x \in S : f[x] \in Nat
    PROVE  \E x \in S : /\ \A y \in S : f[x] <= f[y]
                        /\ \A y \in S : y < x => f[x] < f[y]
<1> DEFINE L == {x \in S : \A y \in S : f[x] <= f[y]}
<1>1. L # {}
  BY LowestExists
<1>2. \A x \in L : x \in Nat
  OBVIOUS
<1>3. Min(L) \in L /\ \A y \in L : Min(L) <= y
  <2> HIDE DEF L
  <2> QED BY <1>1, <1>2, SmallestExists
<1>4. ASSUME NEW y \in S, y < Min(L) PROVE f[Min(L)] < f[y]
  <2>1. y \notin L
    <3> HIDE DEF L
    <3>1. y \in Nat /\ Min(L) \in Nat
      BY <1>2, <1>3
    <3> QED BY <1>3, <1>4, <3>1
  <2>2. PICK z \in S : ~(f[y] <= f[z])
    BY <2>1
  <2>3. f[Min(L)] <= f[z] /\ Min(L) \in S
    BY <1>3
  <2>4. f[Min(L)] \in Nat /\ f[y] \in Nat /\ f[z] \in Nat
    BY <2>3
  <2> QED BY <2>2, <2>3, <2>4
<1> QED BY <1>3, <1>4

(* A finder over pairs finds one when there are a call and a put. *)
LEMMA FirstPairExists ==
    ASSUME NEW calls, NEW puts, calls # {}, puts # {},
           calls \subseteq Nat, puts \subseteq Nat,
           NEW f, \A p \in Pairs(calls, puts) : f[p] \in Nat
    PROVE  \E p \in Pairs(calls, puts) :
              /\ \A q \in Pairs(calls, puts) : f[p] <= f[q]
              /\ \A q \in Pairs(calls, puts) :
                   q.call < p.call \/ (q.call = p.call /\ q.put < p.put) => f[p] < f[q]
<1> DEFINE S == Pairs(calls, puts)
           L == {p \in S : \A q \in S : f[p] <= f[q]}
           C == {p.call : p \in L}
           P == {p.put : p \in {q \in L : q.call = Min(C)}}
<1>1. \A p : p \in S <=> /\ p = [call |-> p.call, put |-> p.put]
                         /\ p.call \in calls /\ p.put \in puts
  BY DEF Pairs
<1>2. S # {}
  <2>1. PICK c \in calls, p \in puts : TRUE
    OBVIOUS
  <2>2. [call |-> c, put |-> p] \in S
    BY <2>1 DEF Pairs
  <2> QED BY <2>2
<1>3. \A p \in S : f[p] \in Nat
  OBVIOUS
<1> HIDE DEF S
<1>4. L # {} /\ L \subseteq S
  BY <1>2, <1>3, LowestExists
<1>5. C # {} /\ \A c \in C : c \in Nat
  BY <1>1, <1>4
<1>6. Min(C) \in C /\ \A c \in C : Min(C) <= c
  <2> HIDE DEF C
  <2> QED BY <1>5, SmallestExists
<1>7. P # {} /\ \A p \in P : p \in Nat
  BY <1>1, <1>4, <1>6
<1>8. Min(P) \in P /\ \A p \in P : Min(P) <= p
  <2> HIDE DEF P
  <2> QED BY <1>7, SmallestExists
<1>9. PICK p \in L : p.call = Min(C) /\ p.put = Min(P)
  BY <1>8
<1>10. ASSUME NEW q \in S, q.call < p.call \/ (q.call = p.call /\ q.put < p.put)
       PROVE  f[p] < f[q]
  <2>1. q.call \in Nat /\ q.put \in Nat /\ p \in S /\ p.call \in Nat /\ p.put \in Nat
    BY <1>1, <1>4
  <2>2. q \notin L
    <3> SUFFICES ASSUME q \in L PROVE FALSE
      OBVIOUS
    <3>1. q.call \in C
      OBVIOUS
    <3>2. p.call <= q.call
      BY <1>6, <1>9, <3>1
    <3>3. q.call = p.call /\ q.put < p.put
      BY <1>10, <2>1, <3>2
    <3>4. q.put \in P
      BY <1>9, <3>3
    <3>5. p.put <= q.put
      BY <1>8, <1>9, <3>4
    <3> QED BY <2>1, <3>3, <3>5
  <2>3. PICK z \in S : ~(f[q] <= f[z])
    BY <2>2
  <2>4. f[p] <= f[z] /\ f[p] \in Nat /\ f[q] \in Nat /\ f[z] \in Nat
    BY <1>3, <2>1
  <2> QED BY <2>3, <2>4
<1> QED BY <1>4, <1>9, <1>10 DEF S

(* What the finders and the counters look at. *)
LEMMA DeskSees ==
    ASSUME TypeOK, NEW u \in Users, NEW type \in OptionTypes
    PROVE  /\ OpenOf(u, options, type) =
                {id \in Listed(options) : options[id].optionType = type /\ options[id].writer # u}
           /\ {id \in ForSale(u) : options[id].optionType = type}
                \subseteq OpenOf(u, options, type)
           /\ OpenOf(u, options, type) \subseteq Nat
           /\ \A id \in OpenOf(u, options, type) : options[id].strikePrice \in Nat
           /\ \A ids \in SUBSET OpenOf(u, options, type) :
                Cardinality(ids) \in Nat /\ (Cardinality(ids) > 0 <=> ids # {})
<1>1. OpenOf(u, options, type) =
        {id \in Listed(options) : options[id].optionType = type /\ options[id].writer # u}
  BY DEF OpenOf, Listed, NotSelf
<1>2. {id \in ForSale(u) : options[id].optionType = type} \subseteq OpenOf(u, options, type)
  BY DEF ForSale, CanBuy, MayBuy, OpenOf, NotSelf
<1>3. OpenOf(u, options, type) \subseteq Listed(options)
  BY <1>1
<1>4. Book(options, OpenOf(u, options, type))
  BY <1>3, LoadedBook
<1>5. ASSUME NEW ids \in SUBSET OpenOf(u, options, type)
      PROVE  Cardinality(ids) \in Nat /\ (Cardinality(ids) > 0 <=> ids # {})
  <2>1. IsFiniteSet(ids)
    BY <1>4, FS_Subset DEF Book
  <2>2. Cardinality(ids) \in Nat /\ (Cardinality(ids) = 0 <=> ids = {})
    BY <2>1, FS_CardinalityType, FS_EmptySet
  <2> QED BY <2>2
<1> QED BY <1>1, <1>2, <1>4, <1>5 DEF Book

(* The finders answer with something there is, and with the best of it. *)
LEMMA FindersAnswer ==
    ASSUME TypeOK, NEW u \in Users, NEW s \in Spots
    PROVE  /\ FindBestProtectivePut(u, options, s) \subseteq PutsBelow(u, options, s)
           /\ FindBestCall(u, options, s) \subseteq CallsAbove(u, options, s)
           /\ PutsBelow(u, options, s) # {} =>
                \E id \in FindBestProtectivePut(u, options, s) :
                   \A p \in PutsBelow(u, options, s) :
                      Distance(8 * options[id].strikePrice, 7 * s)
                        <= Distance(8 * options[p].strikePrice, 7 * s)
           /\ CallsAbove(u, options, s) # {} =>
                \E id \in FindBestCall(u, options, s) :
                   \A c \in CallsAbove(u, options, s) :
                      Distance(8 * options[id].strikePrice, 9 * s)
                        <= Distance(8 * options[c].strikePrice, 9 * s)
<1> DEFINE P == PutsBelow(u, options, s)
           C == CallsAbove(u, options, s)
           fp == [id \in P |-> Distance(8 * options[id].strikePrice, 7 * s)]
           fc == [id \in C |-> Distance(8 * options[id].strikePrice, 9 * s)]
<1>1. s \in Nat
  BY SpotAssumption
<1>2. /\ P \subseteq Nat /\ C \subseteq Nat
      /\ \A id \in P \cup C : options[id].strikePrice \in Nat
  BY DeskSees DEF PutsBelow, CallsAbove, OptionTypes
<1>3. FindBestProtectivePut(u, options, s) =
        {id \in P : (\A j \in P : fp[id] <= fp[j]) /\ (\A j \in P : j < id => fp[id] < fp[j])}
  <2> HIDE DEF P
  <2> QED BY DEF FindBestProtectivePut, Closest, P
<1>4. FindBestCall(u, options, s) =
        {id \in C : (\A j \in C : fc[id] <= fc[j]) /\ (\A j \in C : j < id => fc[id] < fc[j])}
  <2> HIDE DEF C
  <2> QED BY DEF FindBestCall, Closest, C
<1> HIDE DEF P, C
<1>5. (\A id \in P : fp[id] \in Nat) /\ \A id \in C : fc[id] \in Nat
  BY <1>1, <1>2 DEF Distance
<1>6. P # {} => \E id \in FindBestProtectivePut(u, options, s) : \A p \in P : fp[id] <= fp[p]
  <2> HIDE DEF fp
  <2> QED BY <1>2, <1>3, <1>5, FirstLowestExists
<1>7. C # {} => \E id \in FindBestCall(u, options, s) : \A c \in C : fc[id] <= fc[c]
  <2> HIDE DEF fc
  <2> QED BY <1>2, <1>4, <1>5, FirstLowestExists
<1>8. P # {} => \E id \in FindBestProtectivePut(u, options, s) : \A p \in P :
                   Distance(8 * options[id].strikePrice, 7 * s)
                     <= Distance(8 * options[p].strikePrice, 7 * s)
  BY <1>3, <1>6
<1>9. C # {} => \E id \in FindBestCall(u, options, s) : \A c \in C :
                   Distance(8 * options[id].strikePrice, 9 * s)
                     <= Distance(8 * options[c].strikePrice, 9 * s)
  BY <1>4, <1>7
<1> QED BY <1>3, <1>4, <1>8, <1>9 DEF P, C

(* So do the finders of pairs. *)
LEMMA PairFindersAnswer ==
    ASSUME TypeOK, NEW u \in Users, NEW s \in Spots
    PROVE  LET pairs == Pairs(OpenOf(u, options, CALL), OpenOf(u, options, PUT))
           IN  /\ FindStraddlePair(u, options, s) \subseteq pairs
               /\ FindStranglePair(u, options, s) \subseteq pairs
               /\ OpenOf(u, options, CALL) # {} /\ OpenOf(u, options, PUT) # {}
                    => FindStraddlePair(u, options, s) # {}
<1> DEFINE C == OpenOf(u, options, CALL)
           P == OpenOf(u, options, PUT)
           k(id) == options[id].strikePrice
           f == [p \in Pairs(C, P) |-> 4 * Distance(k(p.call), k(p.put))
                                         + Distance(k(p.call) + k(p.put), 2 * s)]
<1>1. s \in Nat
  BY SpotAssumption
<1>2. C \subseteq Nat /\ P \subseteq Nat /\ \A id \in C \cup P : k(id) \in Nat
  BY DeskSees DEF OptionTypes
<1>3. FindStraddlePair(u, options, s) =
        {p \in Pairs(C, P) :
           /\ \A q \in Pairs(C, P) : f[p] <= f[q]
           /\ \A q \in Pairs(C, P) :
                q.call < p.call \/ (q.call = p.call /\ q.put < p.put) => f[p] < f[q]}
  BY DEF FindStraddlePair, FirstPair
<1>4. FindStranglePair(u, options, s) \subseteq Pairs(C, P)
  BY DEF FindStranglePair, FirstPair, Pairs
<1> HIDE DEF C, P
<1>5. \A p \in Pairs(C, P) : f[p] \in Nat
  <2> SUFFICES ASSUME NEW p \in Pairs(C, P) PROVE f[p] \in Nat
    OBVIOUS
  <2>1. k(p.call) \in Nat /\ k(p.put) \in Nat
    BY <1>2 DEF Pairs
  <2>2. Distance(k(p.call), k(p.put)) \in Nat /\ Distance(k(p.call) + k(p.put), 2 * s) \in Nat
    BY <1>1, <2>1 DEF Distance
  <2> QED BY <2>2
<1>6. C # {} /\ P # {} => FindStraddlePair(u, options, s) # {}
  <2> HIDE DEF f
  <2> QED BY <1>2, <1>3, <1>5, FirstPairExists
<1> QED BY <1>3, <1>4, <1>6 DEF C, P

(* A card is enabled where its panel has something to sell. *)
LEMMA CardsAreTrue ==
    ASSUME TypeOK, NEW u \in Users, NEW s \in Spots
    PROVE  /\ CardEnabled(u, options, "protective-put", s) <=> PutsBelow(u, options, s) # {}
           /\ CardEnabled(u, options, "long-put", s) <=> PutsBelow(u, options, s) # {}
           /\ CardEnabled(u, options, "long-call", s) <=> CallsAbove(u, options, s) # {}
           /\ CardEnabled(u, options, "long-straddle", s) <=>
                OpenOf(u, options, CALL) # {} /\ OpenOf(u, options, PUT) # {}
<1> DEFINE n(ids) == Cardinality(ids)
           C == OpenOf(u, options, CALL)
           P == OpenOf(u, options, PUT)
<1>1. /\ \A ids \in SUBSET P : n(ids) \in Nat /\ (n(ids) > 0 <=> ids # {})
      /\ \A ids \in SUBSET C : n(ids) \in Nat /\ (n(ids) > 0 <=> ids # {})
  BY DeskSees DEF OptionTypes
<1>2. PutsBelow(u, options, s) \subseteq P /\ CallsAbove(u, options, s) \subseteq C
  BY DEF PutsBelow, CallsAbove
<1>3. /\ CountOpenOptionsForStrategy(u, options, "protective-put", s) = n(PutsBelow(u, options, s))
      /\ CountOpenOptionsForStrategy(u, options, "long-put", s) = n(PutsBelow(u, options, s))
      /\ CountOpenOptionsForStrategy(u, options, "long-call", s) = n(CallsAbove(u, options, s))
      /\ CountOpenOptionsForStrategy(u, options, "long-straddle", s) = Smaller(n(C), n(P))
  BY DEF CountOpenOptionsForStrategy
<1> HIDE DEF C, P
<1>4. Smaller(n(C), n(P)) > 0 <=> C # {} /\ P # {}
  <2>1. n(C) \in Nat /\ n(P) \in Nat /\ (n(C) > 0 <=> C # {}) /\ (n(P) > 0 <=> P # {})
    BY <1>1
  <2> QED BY <2>1 DEF Smaller
<1>5. \A st \in BuySide : CardEnabled(u, options, st, s) <=>
                            CountOpenOptionsForStrategy(u, options, st, s) > 0
  BY DEF CardEnabled
<1>6. {"protective-put", "long-put", "long-call", "long-straddle"} \subseteq BuySide
  BY DEF BuySide
<1> HIDE DEF n
<1> QED BY <1>1, <1>2, <1>3, <1>4, <1>5, <1>6 DEF C, P, n

(* The wizard reaches only listings that are open and somebody else's.     *)
LEMMA WizardReaches ==
    ASSUME TypeOK, NEW u \in Users, NEW s \in Spots,
           NEW id \in WizardTargets(u, options, s)
    PROVE  id \in Listed(options) /\ options[id].writer # u
<1> DEFINE C == OpenOf(u, options, CALL)
           P == OpenOf(u, options, PUT)
<1>1. PICK st : id \in PanelTargets(u, options, st, s)
  BY DEF WizardTargets
<1>2. /\ FindBestProtectivePut(u, options, s) \subseteq P
      /\ FindBestCall(u, options, s) \subseteq C
  BY FindersAnswer DEF PutsBelow, CallsAbove
<1>3. /\ FindStraddlePair(u, options, s) \subseteq Pairs(C, P)
      /\ FindStranglePair(u, options, s) \subseteq Pairs(C, P)
  BY PairFindersAnswer
<1>4. \/ id \in FindBestProtectivePut(u, options, s)
      \/ id \in FindBestCall(u, options, s)
      \/ id \in UNION {{p.call, p.put} : p \in FindStraddlePair(u, options, s)}
      \/ id \in UNION {{p.call, p.put} : p \in FindStranglePair(u, options, s)}
  BY <1>1 DEF PanelTargets
<1>5. C \cup P \subseteq {x \in Listed(options) : options[x].writer # u}
  BY DeskSees DEF OptionTypes
<1> HIDE DEF C, P
<1>6. \A p \in Pairs(C, P) : p.call \in C /\ p.put \in P
  BY DEF Pairs
<1> QED BY <1>2, <1>3, <1>4, <1>5, <1>6

(* Every goal whose market has something for the wallet can be picked.     *)
LEMMA MarketsAreOpen ==
    ASSUME TypeOK, NEW u \in Users
    PROVE  LET calls == OpenOf(u, options, CALL)
               puts  == OpenOf(u, options, PUT)
           IN  /\ puts # {} => /\ MarketEnabled(u, options, "protect")
                               /\ MarketEnabled(u, options, "speculate-down")
               /\ calls # {} => MarketEnabled(u, options, "speculate-up")
               /\ calls # {} /\ puts # {} => MarketEnabled(u, options, "expect-volatility")
<1> DEFINE n(ids) == Cardinality(ids)
           C == OpenOf(u, options, CALL)
           P == OpenOf(u, options, PUT)
<1>1. n(C) \in Nat /\ n(P) \in Nat /\ (n(C) > 0 <=> C # {}) /\ (n(P) > 0 <=> P # {})
  BY DeskSees DEF OptionTypes
<1>2. /\ CountBuyableOptionsForIntent(u, options, "protect") = n(P)
      /\ CountBuyableOptionsForIntent(u, options, "speculate-down") = n(P)
      /\ CountBuyableOptionsForIntent(u, options, "speculate-up") = n(C)
      /\ CountBuyableOptionsForIntent(u, options, "expect-volatility") = Smaller(n(C), n(P))
  BY DEF CountBuyableOptionsForIntent
<1> HIDE DEF C, P, n
<1>3. C # {} /\ P # {} => Smaller(n(C), n(P)) > 0
  BY <1>1 DEF Smaller
<1> QED BY <1>1, <1>2, <1>3 DEF MarketEnabled, C, P

(* The wizard against the pool. *)
LEMMA WizardIsTheMarket ==
    ASSUME TypeOK, NEW u \in Users, NEW s \in Spots
    PROVE  LET forSale == ForSale(u)
               type(id)   == options[id].optionType
               strike(id) == options[id].strikePrice
               puts  == {id \in forSale : type(id) = PUT  /\ strike(id) <= s}
               calls == {id \in forSale : type(id) = CALL /\ strike(id) >= s}
               both  == {type(id) : id \in forSale} = OptionTypes
               reached(intent, card) ==
                  /\ MarketEnabled(u, options, intent)
                  /\ card \in Strategies(intent)
                  /\ CardEnabled(u, options, card, s)
               panel == [st \in BuySide |-> PanelTargets(u, options, st, s)]
           IN  /\ \A id \in WizardTargets(u, options, s) :
                    \/ id \in forSale
                    \/ options[id].status = OPEN /\ Unsold(u, options[id])
               /\ puts # {} =>
                    /\ reached("protect", "protective-put")
                    /\ reached("speculate-down", "long-put")
                    /\ \E id \in panel["long-put"] : \A p \in puts :
                          Distance(8 * strike(id), 7 * s) <= Distance(8 * strike(p), 7 * s)
               /\ calls # {} =>
                    /\ reached("speculate-up", "long-call")
                    /\ \E id \in panel["long-call"] : \A c \in calls :
                          Distance(8 * strike(id), 9 * s) <= Distance(8 * strike(c), 9 * s)
               /\ both => /\ reached("expect-volatility", "long-straddle")
                          /\ {type(id) : id \in panel["long-straddle"]} = OptionTypes
               /\ \A card \in BuySide \ {"long-strangle"} :
                    CardEnabled(u, options, card, s) <=> panel[card] # {}
<1> DEFINE type(id)   == options[id].optionType
           strike(id) == options[id].strikePrice
           puts  == {id \in ForSale(u) : type(id) = PUT  /\ strike(id) <= s}
           calls == {id \in ForSale(u) : type(id) = CALL /\ strike(id) >= s}
           both  == {type(id) : id \in ForSale(u)} = OptionTypes
           panel(st) == PanelTargets(u, options, st, s)
           C == OpenOf(u, options, CALL)
           P == OpenOf(u, options, PUT)
           straddle == FindStraddlePair(u, options, s)
<1>1. /\ {id \in ForSale(u) : type(id) = CALL} \subseteq C
      /\ {id \in ForSale(u) : type(id) = PUT} \subseteq P
      /\ \A id \in C : type(id) = CALL
      /\ \A id \in P : type(id) = PUT
  BY DeskSees DEF OptionTypes
<1>2. puts \subseteq PutsBelow(u, options, s) /\ calls \subseteq CallsAbove(u, options, s)
  BY <1>1 DEF PutsBelow, CallsAbove
<1>3. both => C # {} /\ P # {}
  BY <1>1 DEF OptionTypes
<1>4. PutsBelow(u, options, s) \subseteq P /\ CallsAbove(u, options, s) \subseteq C
  BY DEF PutsBelow, CallsAbove
<1>5. /\ panel("protective-put") = FindBestProtectivePut(u, options, s)
      /\ panel("long-put") = FindBestProtectivePut(u, options, s)
      /\ panel("long-call") = FindBestCall(u, options, s)
      /\ panel("long-straddle") = UNION {{p.call, p.put} : p \in straddle}
  BY DEF PanelTargets
<1>6. /\ "protective-put" \in Strategies("protect")
      /\ "long-put" \in Strategies("speculate-down")
      /\ "long-call" \in Strategies("speculate-up")
      /\ "long-straddle" \in Strategies("expect-volatility")
  BY DEF Strategies
<1>7. \A p \in straddle : p.call \in C /\ p.put \in P
  BY PairFindersAnswer DEF Pairs
<1> HIDE DEF C, P, panel, straddle
<1>8. C # {} /\ P # {} => {type(id) : id \in panel("long-straddle")} = OptionTypes
  <2> SUFFICES ASSUME C # {}, P # {}
               PROVE  {type(id) : id \in panel("long-straddle")} = OptionTypes
    OBVIOUS
  <2>1. PICK p : p \in straddle
    BY PairFindersAnswer DEF straddle, C, P
  <2>2. p.call \in panel("long-straddle") /\ p.put \in panel("long-straddle")
    BY <1>5, <2>1
  <2>3. type(p.call) = CALL /\ type(p.put) = PUT
    BY <1>1, <1>7, <2>1
  <2>4. \A id \in panel("long-straddle") : type(id) \in {CALL, PUT}
    BY <1>1, <1>5, <1>7
  <2> QED BY <2>2, <2>3, <2>4 DEF OptionTypes
<1>9. \A st \in BuySide \ {"long-strangle"} :
         CardEnabled(u, options, st, s) <=> panel(st) # {}
  <2>1. panel("long-straddle") # {} <=> C # {} /\ P # {}
    <3>1. straddle # {} <=> C # {} /\ P # {}
      BY <1>7, PairFindersAnswer DEF straddle, C, P
    <3> QED BY <1>5, <3>1
  <2>2. /\ FindBestProtectivePut(u, options, s) # {} <=> PutsBelow(u, options, s) # {}
        /\ FindBestCall(u, options, s) # {} <=> CallsAbove(u, options, s) # {}
    BY FindersAnswer
  <2>3. BuySide \ {"long-strangle"}
          = {"protective-put", "long-call", "long-put", "long-straddle"}
    BY DEF BuySide
  <2>4. CardEnabled(u, options, "long-straddle", s) <=> C # {} /\ P # {}
    BY CardsAreTrue DEF C, P
  <2> QED BY <1>5, <2>1, <2>2, <2>3, <2>4, CardsAreTrue
<1>10. puts # {} =>
         /\ MarketEnabled(u, options, "protect") /\ MarketEnabled(u, options, "speculate-down")
         /\ CardEnabled(u, options, "protective-put", s)
         /\ CardEnabled(u, options, "long-put", s)
         /\ \E id \in panel("long-put") : \A p \in puts :
               Distance(8 * strike(id), 7 * s) <= Distance(8 * strike(p), 7 * s)
  <2> SUFFICES ASSUME puts # {}
               PROVE  /\ MarketEnabled(u, options, "protect")
                      /\ MarketEnabled(u, options, "speculate-down")
                      /\ CardEnabled(u, options, "protective-put", s)
                      /\ CardEnabled(u, options, "long-put", s)
                      /\ \E id \in panel("long-put") : \A p \in puts :
                            Distance(8 * strike(id), 7 * s) <= Distance(8 * strike(p), 7 * s)
    OBVIOUS
  <2>1. PutsBelow(u, options, s) # {} /\ P # {}
    BY <1>2, <1>4
  <2>2. MarketEnabled(u, options, "protect") /\ MarketEnabled(u, options, "speculate-down")
    BY <2>1, MarketsAreOpen DEF P
  <2>3. \E id \in panel("long-put") : \A p \in PutsBelow(u, options, s) :
               Distance(8 * strike(id), 7 * s) <= Distance(8 * strike(p), 7 * s)
    BY <1>5, <2>1, FindersAnswer
  <2> HIDE DEF puts
  <2> QED BY <1>2, <2>1, <2>2, <2>3, CardsAreTrue
<1>11. calls # {} =>
         /\ MarketEnabled(u, options, "speculate-up")
         /\ CardEnabled(u, options, "long-call", s)
         /\ \E id \in panel("long-call") : \A c \in calls :
               Distance(8 * strike(id), 9 * s) <= Distance(8 * strike(c), 9 * s)
  <2> SUFFICES ASSUME calls # {}
               PROVE  /\ MarketEnabled(u, options, "speculate-up")
                      /\ CardEnabled(u, options, "long-call", s)
                      /\ \E id \in panel("long-call") : \A c \in calls :
                            Distance(8 * strike(id), 9 * s) <= Distance(8 * strike(c), 9 * s)
    OBVIOUS
  <2>1. CallsAbove(u, options, s) # {} /\ C # {}
    BY <1>2, <1>4
  <2>2. MarketEnabled(u, options, "speculate-up")
    BY <2>1, MarketsAreOpen DEF C
  <2>3. \E id \in panel("long-call") : \A c \in CallsAbove(u, options, s) :
               Distance(8 * strike(id), 9 * s) <= Distance(8 * strike(c), 9 * s)
    BY <1>5, <2>1, FindersAnswer
  <2> HIDE DEF calls
  <2> QED BY <1>2, <2>1, <2>2, <2>3, CardsAreTrue
<1>12. both => /\ MarketEnabled(u, options, "expect-volatility")
               /\ CardEnabled(u, options, "long-straddle", s)
               /\ {type(id) : id \in panel("long-straddle")} = OptionTypes
  <2> HIDE DEF both
  <2> QED BY <1>3, <1>8, MarketsAreOpen, CardsAreTrue DEF C, P
<1>13. \A id \in WizardTargets(u, options, s) :
         \/ id \in ForSale(u)
         \/ options[id].status = OPEN /\ Unsold(u, options[id])
  BY WizardReaches, RefusedForCause DEF Listed
<1>14. {"long-put", "long-call", "long-straddle"} \subseteq BuySide
  BY DEF BuySide
<1> DEFINE panels == [st \in BuySide |-> PanelTargets(u, options, st, s)]
<1>15. \A st \in BuySide : panels[st] = panel(st)
  BY DEF panel
<1> HIDE DEF panels, puts, calls, both
<1>16. /\ panels["long-put"] = panel("long-put")
       /\ panels["long-call"] = panel("long-call")
       /\ panels["long-straddle"] = panel("long-straddle")
  BY <1>14, <1>15
<1>17. \A st \in BuySide \ {"long-strangle"} :
         CardEnabled(u, options, st, s) <=> panels[st] # {}
  BY <1>9, <1>15
<1> QED BY <1>6, <1>10, <1>11, <1>12, <1>13, <1>16, <1>17 DEF panels, puts, calls, both

(* The desk offers the market, whatever options and wallets there are.     *)
THEOREM DeskOffersAllTheMarket == Spec => []DeskOffersTheMarket
<1>1. TypeOK => DeskOffersTheMarket
  BY ChainIsTheMarket, WizardIsTheMarket DEF DeskOffersTheMarket
<1> QED BY <1>1, TypeCorrect, PTL

-----------------------------------------------------------------------------
(* The forecasts. *)

(* Division rounds down by less than one. *)
LEMMA QuotientBounds ==
    ASSUME NEW x \in Nat, NEW d \in Nat \ {0}
    PROVE  /\ x \div d \in Nat
           /\ (x \div d) * d <= x
           /\ x < (x \div d) * d + d
OBVIOUS

(* A fee the pages show is at most the amount. *)
LEMMA ShownFeeBounds ==
    ASSUME NEW x \in Nat
    PROVE  ShownFee(x, BUY_FEE_BPS) \in 0 .. x /\ ShownFee(x, EXERCISE_FEE_BPS) \in 0 .. x
BY DEF ShownFee, BUY_FEE_BPS, EXERCISE_FEE_BPS

(* The figures of a call of amount a at strike k for premium p: f is the   *)
(* fee for exercising, v what is paid, z the scale of prices.              *)
LEMMA CallForecast ==
    ASSUME NEW a \in Nat, NEW k \in Nat, NEW p \in Nat, NEW s \in Nat, NEW z \in Nat \ {0},
           NEW f \in 0 .. a, NEW v \in Nat, v * z <= k * a, k * a < v * z + z
    PROVE  /\ a * (2 * s - k) - p * z > 0 =>
                LET e == (a * (2 * s - k) - p * z) - ((a - f) * (2 * s) - (p + v) * z)
                IN  e > -z /\ e < (a - (a - f)) * (2 * s) + z
           /\ a * s >= a * k + p * z =>
                ((a - f) * s - (p + v) * z) + (a - (a - f)) * s >= 0
<1> DEFINE sa == a * s
           ak == a * k
           fs == f * s
           vz == v * z
           pz == p * z
<1>1. /\ a * (2 * s - k) = 2 * sa - ak /\ k * a = ak
      /\ (a - f) * (2 * s) = 2 * sa - 2 * fs
      /\ (a - f) * s = sa - fs
      /\ (p + v) * z = pz + vz
      /\ (a - (a - f)) * (2 * s) = 2 * fs
      /\ (a - (a - f)) * s = fs
  OBVIOUS
<1>2. sa \in Nat /\ ak \in Nat /\ fs \in Nat /\ vz \in Nat /\ pz \in Nat
  BY ProductNat
<1>3. vz <= ak /\ ak < vz + z
  BY <1>1
<1> HIDE DEF sa, ak, fs, vz, pz
<1>4. a * (2 * s - k) - p * z > 0 =>
         LET e == (a * (2 * s - k) - p * z) - ((a - f) * (2 * s) - (p + v) * z)
         IN  e > -z /\ e < (a - (a - f)) * (2 * s) + z
  BY <1>1, <1>2, <1>3 DEF pz
<1>5. a * s >= a * k + p * z => ((a - f) * s - (p + v) * z) + (a - (a - f)) * s >= 0
  BY <1>1, <1>2, <1>3 DEF pz, sa, ak
<1> QED BY <1>4, <1>5

(* The figures of a put: c is the collateral, h half the price.            *)
LEMMA PutForecast ==
    ASSUME NEW a \in Nat, NEW k \in Nat, NEW p \in Nat, NEW s \in Nat, NEW z \in Nat \ {0},
           NEW c \in Nat, NEW f \in 0 .. c, c * z <= k * a, k * a < c * z + z,
           NEW h \in Nat, NEW w \in Nat
    PROVE  LET pnl(x)    == (c - f) * z - p * z - a * x
               within(e) == e > -z /\ e < (c - (c - f)) * z + z
           IN  /\ s = 2 * h /\ w = a * (2 * k - s) - 2 * (p * z) => within((w \div 2) - pnl(h))
               /\ s = 2 * h /\ w = 2 * (a * k - p * z) - a * s => within((w \div 2) - pnl(h))
               /\ a * s <= a * k - p * z => pnl(s) + (c - (c - f)) * z > -z
               /\ within((a * k - p * z) - (pnl(s) + a * s))
<1> DEFINE sa == a * s
           ah == a * h
           ak == a * k
           fz == f * z
           cz == c * z
           pz == p * z
<1>1. /\ a * (2 * k - s) = 2 * ak - sa /\ k * a = ak
      /\ (c - f) * z = cz - fz
      /\ (c - (c - f)) * z = fz
      /\ s = 2 * h => sa = 2 * ah
  OBVIOUS
<1>2. sa \in Nat /\ ak \in Nat /\ fz \in Nat /\ cz \in Nat /\ pz \in Nat /\ ah \in Nat
  BY ProductNat
<1>3. cz <= ak /\ ak < cz + z
  BY <1>1
<1> HIDE DEF sa, ak, fz, cz, pz, ah
<1>4. s = 2 * h /\ w = a * (2 * k - s) - 2 * (p * z) => w \div 2 = ak - ah - pz
  <2> SUFFICES ASSUME s = 2 * h, w = a * (2 * k - s) - 2 * (p * z)
               PROVE  w \div 2 = ak - ah - pz
    OBVIOUS
  <2>1. w = 2 * (ak - ah - pz)
    BY <1>1, <1>2 DEF pz
  <2> QED BY <1>2, <2>1
<1>5. s = 2 * h /\ w = 2 * (a * k - p * z) - a * s => w \div 2 = ak - ah - pz
  <2> SUFFICES ASSUME s = 2 * h, w = 2 * (a * k - p * z) - a * s
               PROVE  w \div 2 = ak - ah - pz
    OBVIOUS
  <2>1. w = 2 * (ak - ah - pz)
    BY <1>1, <1>2 DEF pz, ak, sa
  <2> QED BY <1>2, <2>1
<1>6. LET pnl(x)    == (c - f) * z - p * z - a * x
          within(e) == e > -z /\ e < (c - (c - f)) * z + z
      IN  within((ak - ah - pz) - pnl(h))
  BY <1>1, <1>2, <1>3 DEF pz, ah
<1>7. a * s <= a * k - p * z => ((c - f) * z - p * z - a * s) + (c - (c - f)) * z > -z
  BY <1>1, <1>2, <1>3 DEF pz, sa, ak
<1>8. LET e == (a * k - p * z) - (((c - f) * z - p * z - a * s) + a * s)
      IN  e > -z /\ e < (c - (c - f)) * z + z
  BY <1>1, <1>2, <1>3 DEF pz, sa, ak
<1> QED BY <1>4, <1>5, <1>6, <1>7, <1>8

(* Never below zero. *)
LEMMA AtLeastZeroIs ==
    ASSUME NEW x \in Int
    PROVE  /\ AtLeastZero(x) \in Nat /\ AtLeastZero(x) >= x
           /\ AtLeastZero(x) > 0 => AtLeastZero(x) = x
           /\ x >= 0 => AtLeastZero(x) = x
           /\ x <= 0 => AtLeastZero(x) = 0
BY DEF AtLeastZero

(* What a writer has made of premium q less g, once y is paid for x.       *)
LEMMA CallSums ==
    ASSUME NEW x \in Nat, NEW y \in Nat, NEW q \in Nat, NEW g \in Nat,
           NEW f \in Nat, NEW l \in Nat, l >= x - q
    PROVE  /\ q - g + y - x >= -l - g
           /\ x - f - (q + y) + q >= 0 => q - g + y - x <= q
OBVIOUS

(* The same of a put: x is received for the collateral c. *)
LEMMA PutSums ==
    ASSUME NEW x \in Nat, NEW c \in Nat, NEW q \in Nat, NEW g \in Nat,
           NEW f \in Nat, NEW l \in Nat, l >= c - q
    PROVE  /\ q - g + x - c >= -l - g
           /\ c - f - q - x + q >= 0 => q - g + x - c <= q
OBVIOUS

(* A call's panels, when the pool's tokens differ. *)
LEMMA CallPanels ==
    ASSUME NEW o \in Option, o.optionType = CALL, Underlying # PremiumToken, NEW s \in Spots
    PROVE  LET call == LongCallPanel(o, s)
               outlook == WriterOutlook(o, s)
           IN  /\ call.profitIfDouble > 0 =>
                    Within(call.profitIfDouble - ExercisePnl(o, 2 * s), o, 2 * s)
               /\ Value(o, s) >= call.breakEven => ExercisePnl(o, s) + FeeShare(o, s) >= 0
               /\ WriterResult(o, s) >=
                    -outlook.maxLoss - (o.premium - WriterReceives(o)) * PRECISION
               /\ ExercisePnl(o, s) + Cost(o) >= 0 => WriterResult(o, s) <= outlook.maxProfit
<1> DEFINE a == o.underlyingAmount
           k == o.strikePrice
           p == o.premium
           z == PRECISION
           f == ShownFee(a, EXERCISE_FEE_BPS)
           g == ShownFee(p, BUY_FEE_BPS)
           v == (k * a) \div z
<1>1. a \in Nat /\ k \in Nat /\ p \in Nat /\ s \in Nat /\ z \in Nat \ {0}
  BY SpotAssumption, PrecisionAssumption DEF Option
<1>2. /\ ShownCollateral(o) = a /\ ShownReceive(o) = a - f /\ ShownPay(o) = v
      /\ WriterReceives(o) = p - g
      /\ Cost(o) = p * z
      /\ \A x : ExercisePnl(o, x) = (a - f) * x - (p + v) * z
      /\ \A x : FeeShare(o, x) = (a - (a - f)) * x
      /\ \A x : Value(o, x) = a * x
      /\ WriterResult(o, s) = (p - g) * z + v * z - a * s
      /\ WriterOutlook(o, s).maxLoss = AtLeastZero(a * s - p * z)
      /\ WriterOutlook(o, s).maxProfit = p * z
      /\ LongCallPanel(o, s).profitIfDouble = AtLeastZero(a * (2 * s - k) - p * z)
      /\ LongCallPanel(o, s).breakEven = a * k + p * z
  BY DEF ShownCollateral, ShownReceive, ShownPay, WriterReceives, Cost, InPremium,
         ExercisePnl, FeeShare, Value, WriterResult, WriterOutlook, LongCallPanel,
         CollateralToken, BreakEven
<1> HIDE DEF a, k, p, z
<1>3. f \in 0 .. a /\ g \in 0 .. p
  BY <1>1, ShownFeeBounds
<1>4. v \in Nat /\ v * z <= k * a /\ k * a < v * z + z
  BY <1>1, ProductNat, QuotientBounds
<1> HIDE DEF f, g, v
<1>5. /\ a * (2 * s - k) - p * z > 0 =>
           LET e == (a * (2 * s - k) - p * z) - ((a - f) * (2 * s) - (p + v) * z)
           IN  e > -z /\ e < (a - (a - f)) * (2 * s) + z
      /\ a * s >= a * k + p * z =>
           ((a - f) * s - (p + v) * z) + (a - (a - f)) * s >= 0
  BY <1>1, <1>3, <1>4, CallForecast
<1>6. LongCallPanel(o, s).profitIfDouble > 0 =>
        Within(LongCallPanel(o, s).profitIfDouble - ExercisePnl(o, 2 * s), o, 2 * s)
  <2> SUFFICES ASSUME LongCallPanel(o, s).profitIfDouble > 0
               PROVE  Within(LongCallPanel(o, s).profitIfDouble - ExercisePnl(o, 2 * s), o, 2 * s)
    OBVIOUS
  <2>1. /\ a * (2 * s - k) - p * z > 0
        /\ LongCallPanel(o, s).profitIfDouble = a * (2 * s - k) - p * z
    <3> DEFINE x == a * (2 * s - k) - p * z
    <3>1. x \in Int
      BY <1>1
    <3>2. AtLeastZero(x) > 0
      BY <1>2
    <3> HIDE DEF x
    <3>3. x > 0 /\ AtLeastZero(x) = x
      BY <3>1, <3>2 DEF AtLeastZero
    <3> QED BY <1>2, <3>3 DEF x
  <2> QED BY <1>2, <1>5, <2>1 DEF Within, z
<1>7. Value(o, s) >= LongCallPanel(o, s).breakEven => ExercisePnl(o, s) + FeeShare(o, s) >= 0
  BY <1>2, <1>5
<1> DEFINE sa == a * s
           vz == v * z
           pz == p * z
           gz == g * z
           fs == f * s
<1>8. /\ (p - g) * z = pz - gz /\ (p - (p - g)) * z = gz
      /\ (a - f) * s = sa - fs /\ (p + v) * z = pz + vz
  BY <1>1, <1>3, <1>4
<1>9. sa \in Nat /\ vz \in Nat /\ pz \in Nat /\ gz \in Nat /\ fs \in Nat
  BY <1>1, <1>3, <1>4, ProductNat
<1> DEFINE loss == AtLeastZero(sa - pz)
<1>10. /\ WriterResult(o, s) = pz - gz + vz - sa
       /\ WriterOutlook(o, s).maxLoss = loss
       /\ WriterOutlook(o, s).maxProfit = pz
       /\ (p - WriterReceives(o)) * z = gz
       /\ ExercisePnl(o, s) + Cost(o) = sa - fs - (pz + vz) + pz
  BY <1>2, <1>8
<1> HIDE DEF sa, vz, pz, gz, fs
<1>11. loss \in Nat /\ loss >= sa - pz
  <2>1. sa - pz \in Int
    BY <1>9
  <2> QED BY <2>1, AtLeastZeroIs DEF loss
<1> HIDE DEF loss
<1>12. WriterResult(o, s) >= -WriterOutlook(o, s).maxLoss - (p - WriterReceives(o)) * z
  <2>1. pz - gz + vz - sa >= -loss - gz
    BY <1>9, <1>11, CallSums
  <2> QED BY <1>10, <2>1
<1>13. ExercisePnl(o, s) + Cost(o) >= 0 => WriterResult(o, s) <= WriterOutlook(o, s).maxProfit
  <2>1. sa - fs - (pz + vz) + pz >= 0 => pz - gz + vz - sa <= pz
    BY <1>9, <1>11, CallSums
  <2> QED BY <1>10, <2>1
<1> QED BY <1>6, <1>7, <1>12, <1>13 DEF p, z

(* A put's panels, when the pool's tokens differ. *)
LEMMA PutPanels ==
    ASSUME NEW o \in Option, o.optionType = PUT, Underlying # PremiumToken, NEW s \in Spots
    PROVE  LET put   == LongPutPanel(o, s)
               guard == ProtectivePutPanel(o, s)
               outlook == WriterOutlook(o, s)
           IN  /\ put.profitIfCrash > 0 /\ s % 2 = 0 =>
                    Within((put.profitIfCrash \div 2) - ExercisePnl(o, s \div 2), o, s)
               /\ guard.saved > 0 /\ s % 2 = 0 =>
                    Within((guard.saved \div 2) - ExercisePnl(o, s \div 2), o, s)
               /\ Value(o, s) <= put.breakEven =>
                    ExercisePnl(o, s) + FeeShare(o, s) > -PRECISION
               /\ Within(guard.netPayout - (ExercisePnl(o, s) + Value(o, s)), o, s)
               /\ WriterResult(o, s) >=
                    -outlook.maxLoss - (o.premium - WriterReceives(o)) * PRECISION
               /\ ExercisePnl(o, s) + Cost(o) >= 0 => WriterResult(o, s) <= outlook.maxProfit
<1> DEFINE a == o.underlyingAmount
           k == o.strikePrice
           p == o.premium
           z == PRECISION
           c == (k * a) \div z
           f == ShownFee(c, EXERCISE_FEE_BPS)
           g == ShownFee(p, BUY_FEE_BPS)
           h == s \div 2
           saved == 2 * (a * k - p * z) - a * s
           crash == a * (2 * k - s) - 2 * (p * z)
           pnl(x) == (c - f) * z - p * z - a * x
           within(e) == e > -z /\ e < (c - (c - f)) * z + z
<1>1. a \in Nat /\ k \in Nat /\ p \in Nat /\ s \in Nat /\ z \in Nat \ {0}
  BY SpotAssumption, PrecisionAssumption DEF Option
<1>2. /\ ShownCollateral(o) = c /\ ShownReceive(o) = c - f /\ ShownPay(o) = a
      /\ WriterReceives(o) = p - g
      /\ Cost(o) = p * z
      /\ \A x : Value(o, x) = a * x
  BY DEF ShownCollateral, ShownReceive, ShownPay, WriterReceives, Cost, InPremium, Value,
         CALL, PUT
<1>21. /\ \A x : ExercisePnl(o, x) = pnl(x)
       /\ \A x : FeeShare(o, x) = (c - (c - f)) * z
       /\ WriterResult(o, s) = (p - g) * z + a * s - c * z
       /\ WriterOutlook(o, s).maxLoss = AtLeastZero(c * z - p * z)
       /\ WriterOutlook(o, s).maxProfit = p * z
  <2> HIDE DEF c, f, g
  <2> QED BY <1>2 DEF ExercisePnl, FeeShare, WriterResult, WriterOutlook, InPremium,
                      CollateralToken, CALL, PUT
<1>22. /\ LongPutPanel(o, s).profitIfCrash = IF s < 2 * k THEN AtLeastZero(crash) ELSE 0
       /\ LongPutPanel(o, s).breakEven = a * k - p * z
       /\ ProtectivePutPanel(o, s).netPayout = a * k - p * z
       /\ ProtectivePutPanel(o, s).saved = AtLeastZero(saved)
  BY <1>2 DEF LongPutPanel, ProtectivePutPanel, BreakEven, CALL, PUT
<1> HIDE DEF a, k, p, z
<1>3. c \in Nat /\ c * z <= k * a /\ k * a < c * z + z
  BY <1>1, ProductNat, QuotientBounds
<1> HIDE DEF c
<1>4. f \in 0 .. c /\ g \in 0 .. p
  BY <1>1, <1>3, ShownFeeBounds
<1>5. h \in Nat /\ (s % 2 = 0 => s = 2 * h)
  BY <1>1
<1> HIDE DEF f, g, h
<1>6. \A w \in Nat :
        /\ s = 2 * h /\ w = crash => within((w \div 2) - pnl(h))
        /\ s = 2 * h /\ w = saved => within((w \div 2) - pnl(h))
  BY <1>1, <1>3, <1>4, <1>5, PutForecast
<1>7. /\ a * s <= a * k - p * z => pnl(s) + (c - (c - f)) * z > -z
      /\ within((a * k - p * z) - (pnl(s) + a * s))
  BY <1>1, <1>3, <1>4, <1>5, PutForecast
<1>8. crash \in Int /\ saved \in Int
  BY <1>1
<1> HIDE DEF crash, saved, pnl
<1>9. \A e : within(e) <=> Within(e, o, s)
  BY <1>21 DEF Within, z
<1> HIDE DEF within
<1>10. LongPutPanel(o, s).profitIfCrash > 0 /\ s % 2 = 0 =>
         Within((LongPutPanel(o, s).profitIfCrash \div 2) - ExercisePnl(o, s \div 2), o, s)
  <2> SUFFICES ASSUME LongPutPanel(o, s).profitIfCrash > 0, s % 2 = 0
               PROVE  Within((LongPutPanel(o, s).profitIfCrash \div 2) - ExercisePnl(o, h), o, s)
    BY DEF h
  <2>1. crash \in Nat /\ LongPutPanel(o, s).profitIfCrash = crash
    BY <1>22, <1>8 DEF AtLeastZero
  <2> QED BY <1>21, <1>5, <1>6, <1>9, <2>1
<1>11. ProtectivePutPanel(o, s).saved > 0 /\ s % 2 = 0 =>
         Within((ProtectivePutPanel(o, s).saved \div 2) - ExercisePnl(o, s \div 2), o, s)
  <2> SUFFICES ASSUME ProtectivePutPanel(o, s).saved > 0, s % 2 = 0
               PROVE  Within((ProtectivePutPanel(o, s).saved \div 2) - ExercisePnl(o, h), o, s)
    BY DEF h
  <2>1. saved \in Nat /\ ProtectivePutPanel(o, s).saved = saved
    BY <1>22, <1>8 DEF AtLeastZero
  <2> QED BY <1>21, <1>5, <1>6, <1>9, <2>1
<1>12. /\ Value(o, s) <= LongPutPanel(o, s).breakEven =>
            ExercisePnl(o, s) + FeeShare(o, s) > -PRECISION
       /\ Within(ProtectivePutPanel(o, s).netPayout - (ExercisePnl(o, s) + Value(o, s)), o, s)
  BY <1>2, <1>21, <1>22, <1>7, <1>9 DEF z
<1> DEFINE sa == a * s
           cz == c * z
           pz == p * z
           gz == g * z
           fz == f * z
<1>13. (p - g) * z = pz - gz /\ (p - (p - g)) * z = gz /\ (c - f) * z = cz - fz
  BY <1>1, <1>3, <1>4
<1>14. sa \in Nat /\ cz \in Nat /\ pz \in Nat /\ gz \in Nat /\ fz \in Nat
  BY <1>1, <1>3, <1>4, ProductNat
<1> DEFINE loss == AtLeastZero(cz - pz)
<1>15. /\ WriterResult(o, s) = pz - gz + sa - cz
       /\ WriterOutlook(o, s).maxLoss = loss
       /\ WriterOutlook(o, s).maxProfit = pz
       /\ (p - WriterReceives(o)) * z = gz
       /\ ExercisePnl(o, s) + Cost(o) = cz - fz - pz - sa + pz
  BY <1>2, <1>21, <1>13 DEF pnl
<1> HIDE DEF sa, cz, pz, gz, fz
<1>16. loss \in Nat /\ loss >= cz - pz
  <2>1. cz - pz \in Int
    BY <1>14
  <2> QED BY <2>1, AtLeastZeroIs DEF loss
<1> HIDE DEF loss
<1>17. WriterResult(o, s) >= -WriterOutlook(o, s).maxLoss - (p - WriterReceives(o)) * z
  <2>1. pz - gz + sa - cz >= -loss - gz
    BY <1>14, <1>16, PutSums
  <2> QED BY <1>15, <2>1
<1>18. ExercisePnl(o, s) + Cost(o) >= 0 => WriterResult(o, s) <= WriterOutlook(o, s).maxProfit
  <2>1. cz - fz - pz - sa + pz >= 0 => pz - gz + sa - cz <= pz
    BY <1>14, <1>16, PutSums
  <2> QED BY <1>15, <2>1
<1> QED BY <1>10, <1>11, <1>12, <1>17, <1>18 DEF p, z

(* Multiplication keeps the order. *)
LEMMA ProductOrder ==
    ASSUME NEW a \in Nat, NEW x \in Nat, NEW y \in Nat, x <= y
    PROVE  a * x <= a * y
<1>1. a * (y - x) \in Nat
  <2>1. y - x \in Nat
    OBVIOUS
  <2> QED BY <2>1, ProductNat
<1>2. a * (y - x) = a * y - a * x
  OBVIOUS
<1>3. a * x \in Nat /\ a * y \in Nat
  BY ProductNat
<1> QED BY <1>1, <1>2, <1>3

(* A straddle of amount a at strike k, bought for t, pays it back beyond   *)
(* its break-evens.                                                        *)
LEMMA StraddleForecast ==
    ASSUME NEW a \in Nat, NEW k \in Nat, NEW p \in Nat, NEW t \in Nat
    PROVE  a * (Intrinsic(CALL, k, p) + Intrinsic(PUT, k, p)) > t <=>
             2 * a * p > a * (k + k) + 2 * t \/ 2 * a * p < a * (k + k) - 2 * t
<1> DEFINE x == a * p
           y == a * k
<1>1. x \in Nat /\ y \in Nat
  BY ProductNat
<1>2. 2 * a * p = 2 * x /\ a * (k + k) = 2 * y
  OBVIOUS
<1>3. CASE p >= k
  <2>1. Intrinsic(CALL, k, p) = p - k /\ Intrinsic(PUT, k, p) = 0
    BY <1>3 DEF Intrinsic, AtLeastZero, CALL, PUT
  <2>2. a * ((p - k) + 0) = x - y
    OBVIOUS
  <2>3. x >= y
    BY <1>3, ProductOrder
  <2> HIDE DEF x, y
  <2> QED BY <1>1, <1>2, <2>1, <2>2, <2>3
<1>4. CASE p < k
  <2>1. Intrinsic(CALL, k, p) = 0 /\ Intrinsic(PUT, k, p) = k - p
    BY <1>4 DEF Intrinsic, AtLeastZero, CALL, PUT
  <2>2. a * (0 + (k - p)) = y - x
    OBVIOUS
  <2>3. x <= y
    BY <1>4, ProductOrder
  <2> HIDE DEF x, y
  <2> QED BY <1>1, <1>2, <2>1, <2>2, <2>3
<1> QED BY <1>3, <1>4

(* A strangle with the call's strike k above the put's j. *)
LEMMA StrangleForecast ==
    ASSUME NEW a \in Nat, NEW k \in Nat, NEW j \in Nat, j < k, NEW p \in Nat, NEW t \in Nat
    PROVE  a * (Intrinsic(CALL, k, p) + Intrinsic(PUT, j, p)) > t <=>
             a * p > a * k + t \/ a * p < AtLeastZero(a * j - t)
<1> DEFINE x == a * p
           y == a * k
           w == a * j
           low == AtLeastZero(w - t)
<1>1. x \in Nat /\ y \in Nat /\ w \in Nat /\ w <= y
  BY ProductNat, ProductOrder
<1>2. low \in Nat /\ low >= w - t /\ (low > 0 => low = w - t)
  <2>1. w - t \in Int
    BY <1>1
  <2> HIDE DEF w
  <2> QED BY <2>1, AtLeastZeroIs
<1> HIDE DEF low
<1>3. CASE p >= k
  <2>1. Intrinsic(CALL, k, p) = p - k /\ Intrinsic(PUT, j, p) = 0
    BY <1>3 DEF Intrinsic, AtLeastZero, CALL, PUT
  <2>2. a * ((p - k) + 0) = x - y
    OBVIOUS
  <2>3. x >= y
    BY <1>3, ProductOrder
  <2> HIDE DEF x, y, w
  <2>4. x - y > t <=> x > y + t \/ x < low
    BY <1>1, <1>2, <2>3
  <2> QED BY <2>1, <2>2, <2>4 DEF x, y, w, low
<1>4. CASE p <= j
  <2>1. Intrinsic(CALL, k, p) = 0 /\ Intrinsic(PUT, j, p) = j - p
    BY <1>4 DEF Intrinsic, AtLeastZero, CALL, PUT
  <2>2. a * (0 + (j - p)) = w - x
    OBVIOUS
  <2>3. x <= w
    BY <1>4, ProductOrder
  <2> HIDE DEF x, y, w
  <2>4. w - x > t <=> x > y + t \/ x < low
    BY <1>1, <1>2, <2>3
  <2> QED BY <2>1, <2>2, <2>4 DEF x, y, w, low
<1>5. CASE j < p /\ p < k
  <2>1. Intrinsic(CALL, k, p) = 0 /\ Intrinsic(PUT, j, p) = 0
    BY <1>5 DEF Intrinsic, AtLeastZero, CALL, PUT
  <2>2. a * (0 + 0) = 0
    OBVIOUS
  <2>3. x >= w /\ x <= y
    BY <1>5, ProductOrder
  <2> HIDE DEF x, y, w
  <2>4. 0 > t <=> x > y + t \/ x < low
    BY <1>1, <1>2, <2>3
  <2> QED BY <2>1, <2>2, <2>4 DEF x, y, w, low
<1> QED BY <1>3, <1>4, <1>5

(* The panels of two options bought together. *)
LEMMA PairPanels ==
    ASSUME NEW call \in Option, NEW put \in Option, NEW p \in Nat
    PROVE  LET amount == call.underlyingAmount
               pays == amount * (Intrinsic(CALL, call.strikePrice, p)
                                   + Intrinsic(PUT, put.strikePrice, p))
               straddle == StraddlePanel(call, put)
               strangle == StranglePanel(call, put)
           IN  /\ call.strikePrice = put.strikePrice =>
                    (pays > straddle.loss <=> \/ 2 * amount * p > straddle.upper
                                              \/ 2 * amount * p < straddle.lower)
               /\ call.strikePrice > put.strikePrice =>
                    (pays > strangle.loss <=> \/ amount * p > strangle.upper
                                              \/ amount * p < strangle.lower)
<1> DEFINE a == call.underlyingAmount
           k == call.strikePrice
           j == put.strikePrice
           t == Cost(call) + Cost(put)
<1>1. a \in Nat /\ k \in Nat /\ j \in Nat
  BY DEF Option
<1>2. t \in Nat
  <2>1. \A o \in Option : Cost(o) \in Nat
    <3> SUFFICES ASSUME NEW o \in Option PROVE Cost(o) \in Nat
      OBVIOUS
    <3>1. o.premium \in Nat /\ PRECISION \in Nat
      BY PrecisionAssumption DEF Option
    <3> QED BY <3>1, ProductNat DEF Cost, InPremium
  <2> QED BY <2>1
<1>3. /\ StraddlePanel(call, put).loss = t
      /\ StraddlePanel(call, put).upper = a * (k + j) + 2 * t
      /\ StraddlePanel(call, put).lower = a * (k + j) - 2 * t
      /\ StranglePanel(call, put).loss = t
      /\ StranglePanel(call, put).upper = a * k + t
      /\ StranglePanel(call, put).lower = AtLeastZero(a * j - t)
  BY DEF StraddlePanel, StranglePanel, Value
<1> HIDE DEF a, k, j, t
<1>4. k = j => (a * (Intrinsic(CALL, k, p) + Intrinsic(PUT, j, p)) > t <=>
                  2 * a * p > a * (k + j) + 2 * t \/ 2 * a * p < a * (k + j) - 2 * t)
  BY <1>1, <1>2, StraddleForecast
<1>5. k > j => (a * (Intrinsic(CALL, k, p) + Intrinsic(PUT, j, p)) > t <=>
                  a * p > a * k + t \/ a * p < AtLeastZero(a * j - t))
  BY <1>1, <1>2, StrangleForecast
<1> QED BY <1>3, <1>4, <1>5 DEF a, k, j

(* A slider stays in its range. *)
LEMMA ClampedInRange ==
    ASSUME NEW raw \in Nat, NEW lo \in Nat, NEW hi \in Nat, lo <= hi, NEW d
    PROVE  /\ Clamped(raw, Slider(lo, hi, d)) \in Nat
           /\ lo <= Clamped(raw, Slider(lo, hi, d))
           /\ Clamped(raw, Slider(lo, hi, d)) <= hi
BY DEF Clamped, Slider

(* The ends of the sliders' ranges. *)
LEMMA RangeEnds ==
    ASSUME NEW days \in DAY_PRESETS
    PROVE  /\ CallMax(days) \in Nat /\ CallMax(days) >= 1500
           /\ PutMin(days) \in Nat /\ PutMin(days) <= 700
BY DEF CallMax, PutMin, DAY_PRESETS

(* What a spread's outcome says, the bought leg being the dearer. *)
LEMMA SpreadForecast ==
    ASSUME NEW k1 \in Nat, NEW k2 \in Nat, NEW q1 \in Nat, NEW q2 \in Nat,
           NEW p \in Nat, q1 <= q2, NEW type \in OptionTypes,
           IF type = CALL THEN k2 <= k1 ELSE k1 <= k2
    PROVE  LET out == SpreadOutcome(type, 2, k1, k2, q1, q2)
               profit == 2 * ((Intrinsic(type, k2, p) - q2) - (Intrinsic(type, k1, p) - q1))
           IN  /\ -out.maxLoss <= profit /\ profit <= out.maxProfit
               /\ profit > 0 => IF type = CALL THEN p > out.breakeven ELSE p < out.breakeven
<1> DEFINE out == SpreadOutcome(type, 2, k1, k2, q1, q2)
           i1 == Intrinsic(type, k1, p)
           i2 == Intrinsic(type, k2, p)
<1>1. /\ out.maxLoss = 2 * (q2 - q1)
      /\ out.maxProfit = 2 * (Distance(k1, k2) - (q2 - q1))
      /\ out.breakeven = IF type = CALL THEN k2 + (q2 - q1) ELSE k2 - (q2 - q1)
  BY DEF SpreadOutcome
<1> HIDE DEF out
<1>2. CASE type = CALL
  <2>1. Distance(k1, k2) = k1 - k2
    BY <1>2 DEF Distance
  <2>2. /\ i1 = IF p < k1 THEN 0 ELSE p - k1
        /\ i2 = IF p < k2 THEN 0 ELSE p - k2
    BY <1>2 DEF Intrinsic, AtLeastZero
  <2> HIDE DEF i1, i2
  <2> QED BY <1>1, <1>2, <2>1, <2>2 DEF out, i1, i2
<1>3. CASE type # CALL
  <2>1. Distance(k1, k2) = k2 - k1
    BY <1>3 DEF Distance
  <2>2. /\ i1 = IF k1 < p THEN 0 ELSE k1 - p
        /\ i2 = IF k2 < p THEN 0 ELSE k2 - p
    BY <1>3 DEF Intrinsic, AtLeastZero
  <2> HIDE DEF i1, i2
  <2> QED BY <1>1, <1>3, <2>1, <2>2 DEF out, i1, i2
<1> QED BY <1>2, <1>3

(* What a bought call's or put's outcome says. *)
LEMMA SingleForecast ==
    ASSUME NEW k \in Nat, NEW q \in Nat, NEW p \in Nat
    PROVE  /\ 2 * (Intrinsic(CALL, k, p) - q) > 0 <=> p > k + q
           /\ 2 * (Intrinsic(PUT, k, p) - q) > 0 <=> p < k - q
BY DEF Intrinsic, AtLeastZero, CALL, PUT

(* What the outcome of a call and a put says. *)
LEMMA TwoLegForecast ==
    ASSUME NEW k \in Nat, NEW j \in Nat, j <= k, NEW q1 \in Nat, NEW q2 \in Nat, NEW p \in Nat
    PROVE  LET profit == 2 * (Intrinsic(CALL, k, p) - q1 + (Intrinsic(PUT, j, p) - q2))
           IN  /\ -(2 * (q1 + q2)) <= profit
               /\ profit > 0 <=> p > k + q1 + q2 \/ p < j - q1 - q2
<1>1. /\ Intrinsic(CALL, k, p) = IF p < k THEN 0 ELSE p - k
      /\ Intrinsic(PUT, j, p) = IF j < p THEN 0 ELSE j - p
  BY DEF Intrinsic, AtLeastZero, CALL, PUT
<1> QED BY <1>1

(* The configurator's outcomes hold at any price, wherever the sliders are. *)
LEMMA OutcomeHolds ==
    ASSUME NEW plan \in {"bull-call-spread", "bear-put-spread", "long-call", "long-put",
                             "long-straddle", "long-strangle", "collar"},
           NEW days \in DAY_PRESETS, NEW raw1 \in Nat, NEW raw2 \in Nat,
           NEW s \in Nat \ {0}, NEW q1 \in Nat, NEW q2 \in Nat, NEW price \in Nat
    PROVE  OutcomesHold(plan, days, raw1, raw2, s, q1, q2, price)
<1> DEFINE ranges == MoneyRanges(plan, days)
           c1 == Clamped(raw1, ranges.leg1)
           c2 == Clamped(raw2, ranges.leg2)
           hi == CallMax(days)
           lo == PutMin(days)
<1>1. hi \in Nat /\ hi >= 1500 /\ lo \in Nat /\ lo <= 700
  BY RangeEnds
<1> HIDE DEF hi, lo
<1>2. ASSUME NEW a \in Nat, NEW b \in Nat, a <= b
      PROVE  s * a \in Nat /\ s * b \in Nat /\ s * a <= s * b
  BY <1>2, ProductNat, ProductOrder
<1>3. CASE plan = "bull-call-spread"
  <2>1. ranges = [leg1 |-> Slider(1100, hi, 1200), leg2 |-> Slider(900, 1100, 1000)]
    BY <1>3 DEF MoneyRanges, hi
  <2>2. ranges.leg1 = Slider(1100, hi, 1200) /\ ranges.leg2 = Slider(900, 1100, 1000)
        /\ "leg2" \in DOMAIN ranges
    BY <2>1
  <2> HIDE DEF ranges
  <2>3. c1 \in Nat /\ c2 \in Nat /\ c2 <= c1
    <3>1. c1 \in Nat /\ 1100 <= c1
      <4> DEFINE x == Clamped(raw1, Slider(1100, hi, 1200))
      <4>1. x \in Nat /\ 1100 <= x
        BY <1>1, ClampedInRange
      <4> QED BY <2>2, <4>1
    <3>2. c2 \in Nat /\ c2 <= 1100
      <4> DEFINE x == Clamped(raw2, Slider(900, 1100, 1000))
      <4>1. x \in Nat /\ x <= 1100
        BY ClampedInRange
      <4> QED BY <2>2, <4>1
    <3> QED BY <3>1, <3>2
  <2> HIDE DEF c1, c2
  <2> DEFINE k1 == s * c1
             k2 == s * c2
             out == SpreadOutcome(CALL, 2, k1, k2, q1, q2)
             profit == 2 * ((Intrinsic(CALL, k2, price) - q2) - (Intrinsic(CALL, k1, price) - q1))
  <2>4. k1 \in Nat /\ k2 \in Nat /\ k2 <= k1
    BY <1>2, <2>3
  <2>5. /\ LiveOutcome(plan, 2, k1, k2, q1, q2) = out
        /\ Profit(plan, 2, k1, k2, q1, q2, price) = profit
    BY <1>3 DEF LiveOutcome, Profit
  <2>6. q1 <= q2 => /\ -out.maxLoss <= profit /\ profit <= out.maxProfit
                    /\ profit > 0 => price > out.breakeven
    <3> HIDE DEF k1, k2
    <3> QED BY <2>4, SpreadForecast DEF OptionTypes
  <2> HIDE DEF out, profit
  <2> QED BY <1>3, <2>2, <2>5, <2>6 DEF OutcomesHold, ranges, c1, c2, k1, k2
<1>4. CASE plan = "bear-put-spread"
  <2>1. ranges = [leg1 |-> Slider(lo, 900, 800), leg2 |-> Slider(900, 1100, 1000)]
    BY <1>4 DEF MoneyRanges, lo
  <2>2. ranges.leg1 = Slider(lo, 900, 800) /\ ranges.leg2 = Slider(900, 1100, 1000)
        /\ "leg2" \in DOMAIN ranges
    BY <2>1
  <2> HIDE DEF ranges
  <2>3. c1 \in Nat /\ c2 \in Nat /\ c1 <= c2
    <3>1. c1 \in Nat /\ c1 <= 900
      <4> DEFINE x == Clamped(raw1, Slider(lo, 900, 800))
      <4>1. x \in Nat /\ x <= 900
        BY <1>1, ClampedInRange
      <4> QED BY <2>2, <4>1
    <3>2. c2 \in Nat /\ 900 <= c2
      <4> DEFINE x == Clamped(raw2, Slider(900, 1100, 1000))
      <4>1. x \in Nat /\ 900 <= x
        BY ClampedInRange
      <4> QED BY <2>2, <4>1
    <3> QED BY <3>1, <3>2
  <2> HIDE DEF c1, c2
  <2> DEFINE k1 == s * c1
             k2 == s * c2
             out == SpreadOutcome(PUT, 2, k1, k2, q1, q2)
             profit == 2 * ((Intrinsic(PUT, k2, price) - q2) - (Intrinsic(PUT, k1, price) - q1))
  <2>4. k1 \in Nat /\ k2 \in Nat /\ k1 <= k2
    BY <1>2, <2>3
  <2>5. /\ LiveOutcome(plan, 2, k1, k2, q1, q2) = out
        /\ Profit(plan, 2, k1, k2, q1, q2, price) = profit
    BY <1>4 DEF LiveOutcome, Profit
  <2>6. q1 <= q2 => /\ -out.maxLoss <= profit /\ profit <= out.maxProfit
                    /\ profit > 0 => price < out.breakeven
    <3> HIDE DEF k1, k2
    <3> QED BY <2>4, SpreadForecast DEF OptionTypes, CALL, PUT
  <2> HIDE DEF out, profit
  <2> QED BY <1>4, <2>2, <2>5, <2>6 DEF OutcomesHold, ranges, c1, c2, k1, k2
<1>5. CASE plan = "long-call"
  <2>1. ranges = [leg1 |-> Slider(1000, hi, 1125)]
    BY <1>5 DEF MoneyRanges, hi
  <2>2. ranges.leg1 = Slider(1000, hi, 1125) /\ "leg2" \notin DOMAIN ranges
    BY <2>1
  <2> HIDE DEF ranges
  <2>3. c1 \in Nat
    <3> DEFINE x == Clamped(raw1, Slider(1000, hi, 1125))
    <3>1. x \in Nat
      BY <1>1, ClampedInRange
    <3> QED BY <2>2, <3>1
  <2> HIDE DEF c1
  <2> DEFINE k1 == s * c1
             k2 == s * 1000
  <2>4. k1 \in Nat
    BY <2>3, ProductNat
  <2>5. /\ LiveOutcome(plan, 2, k1, k2, q1, q2).breakeven = k1 + q1
        /\ Profit(plan, 2, k1, k2, q1, q2, price) = 2 * (Intrinsic(CALL, k1, price) - q1)
    BY <1>5 DEF LiveOutcome, BoughtOutcome, Profit
  <2>6. 2 * (Intrinsic(CALL, k1, price) - q1) > 0 <=> price > k1 + q1
    <3> HIDE DEF k1
    <3> QED BY <2>4, SingleForecast
  <2> QED BY <1>5, <2>2, <2>5, <2>6 DEF OutcomesHold, ranges, c1
<1>6. CASE plan = "long-put"
  <2>1. ranges = [leg1 |-> Slider(lo, 1000, 875)]
    BY <1>6 DEF MoneyRanges, lo
  <2>2. ranges.leg1 = Slider(lo, 1000, 875) /\ "leg2" \notin DOMAIN ranges
    BY <2>1
  <2> HIDE DEF ranges
  <2>3. c1 \in Nat
    <3> DEFINE x == Clamped(raw1, Slider(lo, 1000, 875))
    <3>1. x \in Nat
      BY <1>1, ClampedInRange
    <3> QED BY <2>2, <3>1
  <2> HIDE DEF c1
  <2> DEFINE k1 == s * c1
             k2 == s * 1000
  <2>4. k1 \in Nat
    BY <2>3, ProductNat
  <2>5. /\ LiveOutcome(plan, 2, k1, k2, q1, q2).breakeven = k1 - q1
        /\ Profit(plan, 2, k1, k2, q1, q2, price) = 2 * (Intrinsic(PUT, k1, price) - q1)
    BY <1>6 DEF LiveOutcome, BoughtOutcome, Profit, CALL, PUT
  <2>6. 2 * (Intrinsic(PUT, k1, price) - q1) > 0 <=> price < k1 - q1
    <3> HIDE DEF k1
    <3> QED BY <2>4, SingleForecast
  <2> QED BY <1>6, <2>2, <2>5, <2>6 DEF OutcomesHold, ranges, c1
<1>7. CASE plan = "long-straddle"
  <2>1. ranges = [leg1 |-> Slider(lo, hi, 1000)]
    BY <1>7 DEF MoneyRanges, hi, lo
  <2>2. ranges.leg1 = Slider(lo, hi, 1000) /\ "leg2" \notin DOMAIN ranges
    BY <2>1
  <2> HIDE DEF ranges
  <2>3. c1 \in Nat
    <3> DEFINE x == Clamped(raw1, Slider(lo, hi, 1000))
    <3>1. x \in Nat
      BY <1>1, ClampedInRange
    <3> QED BY <2>2, <3>1
  <2> HIDE DEF c1
  <2> DEFINE k1 == s * c1
             k2 == s * 1000
             out == LiveOutcome(plan, 2, k1, k2, q1, q2)
             profit == 2 * (Intrinsic(CALL, k1, price) - q1 + (Intrinsic(PUT, k1, price) - q2))
  <2>4. k1 \in Nat
    BY <2>3, ProductNat
  <2>5. /\ out.cost = 2 * (q1 + q2) /\ out.upper = k1 + q1 + q2 /\ out.lower = k1 - q1 - q2
    BY <1>7 DEF LiveOutcome, PairOutcome
  <2>6. Profit(plan, 2, k1, k2, q1, q2, price) = profit
    <3>1. Profit(plan, 2, k1, k2, q1, q2, price)
            = 2 * (Intrinsic(CALL, k1, price) - q1 + Intrinsic(PUT, k1, price) - q2)
      BY <1>7 DEF Profit
    <3>2. Intrinsic(CALL, k1, price) \in Int /\ Intrinsic(PUT, k1, price) \in Int
      <4> HIDE DEF k1
      <4> QED BY <2>4 DEF Intrinsic, AtLeastZero, CALL, PUT
    <3> QED BY <3>1, <3>2
  <2>7. /\ -(2 * (q1 + q2)) <= profit
        /\ profit > 0 <=> price > k1 + q1 + q2 \/ price < k1 - q1 - q2
    <3> HIDE DEF k1
    <3> QED BY <2>4, TwoLegForecast
  <2>8. /\ -out.cost <= profit
        /\ profit > 0 <=> price > out.upper \/ price < out.lower
    BY <2>5, <2>7
  <2> HIDE DEF out, profit
  <2> QED BY <1>7, <2>2, <2>6, <2>8 DEF OutcomesHold, ranges, c1, out
<1>8. CASE plan = "long-strangle"
  <2>1. ranges = [leg1 |-> Slider(1050, hi, 1150), leg2 |-> Slider(lo, 950, 850)]
    BY <1>8 DEF MoneyRanges, hi, lo
  <2>2. ranges.leg1 = Slider(1050, hi, 1150) /\ ranges.leg2 = Slider(lo, 950, 850)
        /\ "leg2" \in DOMAIN ranges
    BY <2>1
  <2> HIDE DEF ranges
  <2>3. c1 \in Nat /\ c2 \in Nat /\ c2 <= c1
    <3>1. c1 \in Nat /\ 1050 <= c1
      <4> DEFINE x == Clamped(raw1, Slider(1050, hi, 1150))
      <4>1. x \in Nat /\ 1050 <= x
        BY <1>1, ClampedInRange
      <4> QED BY <2>2, <4>1
    <3>2. c2 \in Nat /\ c2 <= 950
      <4> DEFINE x == Clamped(raw2, Slider(lo, 950, 850))
      <4>1. x \in Nat /\ x <= 950
        BY <1>1, ClampedInRange
      <4> QED BY <2>2, <4>1
    <3> QED BY <3>1, <3>2
  <2> HIDE DEF c1, c2
  <2> DEFINE k1 == s * c1
             k2 == s * c2
             out == LiveOutcome(plan, 2, k1, k2, q1, q2)
             profit == 2 * (Intrinsic(CALL, k1, price) - q1 + (Intrinsic(PUT, k2, price) - q2))
  <2>4. k1 \in Nat /\ k2 \in Nat /\ k2 <= k1
    BY <1>2, <2>3
  <2>5. /\ out.cost = 2 * (q1 + q2) /\ out.upper = k1 + q1 + q2 /\ out.lower = k2 - q1 - q2
    BY <1>8 DEF LiveOutcome, PairOutcome
  <2>6. Profit(plan, 2, k1, k2, q1, q2, price) = profit
    BY <1>8 DEF Profit
  <2>7. /\ -(2 * (q1 + q2)) <= profit
        /\ profit > 0 <=> price > k1 + q1 + q2 \/ price < k2 - q1 - q2
    <3> HIDE DEF k1, k2
    <3> QED BY <2>4, TwoLegForecast
  <2>8. /\ -out.cost <= profit
        /\ profit > 0 <=> price > out.upper \/ price < out.lower
    BY <2>5, <2>7
  <2> HIDE DEF out, profit
  <2> QED BY <1>8, <2>2, <2>6, <2>8 DEF OutcomesHold, ranges, c1, c2, out
<1>9. CASE plan = "collar"
  <2>1. ranges = [leg1 |-> Slider(1050, hi, 1200), leg2 |-> Slider(lo, 950, 800)]
    BY <1>9 DEF MoneyRanges, hi, lo
  <2>2. ranges.leg1 = Slider(1050, hi, 1200) /\ ranges.leg2 = Slider(lo, 950, 800)
        /\ "leg2" \in DOMAIN ranges
    BY <2>1
  <2> HIDE DEF ranges
  <2>3. c1 \in Nat /\ c2 \in Nat /\ c2 + 1 <= c1
    <3>1. c1 \in Nat /\ 1050 <= c1
      <4> DEFINE x == Clamped(raw1, Slider(1050, hi, 1200))
      <4>1. x \in Nat /\ 1050 <= x
        BY <1>1, ClampedInRange
      <4> QED BY <2>2, <4>1
    <3>2. c2 \in Nat /\ c2 <= 950
      <4> DEFINE x == Clamped(raw2, Slider(lo, 950, 800))
      <4>1. x \in Nat /\ x <= 950
        BY <1>1, ClampedInRange
      <4> QED BY <2>2, <4>1
    <3> QED BY <3>1, <3>2
  <2> HIDE DEF c1, c2
  <2>4. s * c2 < s * c1
    <3>1. s * (c2 + 1) = s * c2 + s
      BY <2>3
    <3>2. s * (c2 + 1) <= s * c1 /\ s * c2 \in Nat /\ s * c1 \in Nat
      BY <2>3, ProductNat, ProductOrder
    <3> QED BY <3>1, <3>2
  <2> QED BY <1>9, <2>2, <2>4 DEF OutcomesHold, ranges, c1, c2
<1> QED BY <1>3, <1>4, <1>5, <1>6, <1>7, <1>8, <1>9

(* Wherever the sliders were left. *)
LEMMA OutcomesAre == OutcomesAreTrue
<1> DEFINE Tried == {"bull-call-spread", "bear-put-spread", "long-call", "long-put",
                     "long-straddle", "long-strangle", "collar"}
           Ends(r) == {r.min, r.max, r.default}
           Second(old) == IF "leg2" \in DOMAIN old THEN Ends(old.leg2) ELSE {1000}
<1>1. \A i \in {"speculate-up", "speculate-down", "expect-volatility", "earn-both"} :
         Strategies(i) \subseteq Tried
  BY DEF Strategies
<1>2. ASSUME NEW st \in Tried, NEW days \in DAY_PRESETS
      PROVE  LET old == MoneyRanges(st, days)
             IN  Ends(old.leg1) \subseteq Nat /\ Second(old) \subseteq Nat
  <2>1. CallMax(days) \in Nat /\ PutMin(days) \in Nat
    BY RangeEnds
  <2>2. \A lo, hi, d \in Nat : Ends(Slider(lo, hi, d)) \subseteq Nat
    BY DEF Slider
  <2> DEFINE old == MoneyRanges(st, days)
             IsSlider(r) == \E lo, hi, d \in Nat : r = Slider(lo, hi, d)
  <2>3. /\ IsSlider(old.leg1)
        /\ "leg2" \in DOMAIN old => IsSlider(old.leg2)
    <3>1. CASE st = "bull-call-spread"
      BY <2>1, <3>1 DEF MoneyRanges
    <3>2. CASE st = "bear-put-spread"
      BY <2>1, <3>2 DEF MoneyRanges
    <3>3. CASE st = "long-call"
      BY <2>1, <3>3 DEF MoneyRanges
    <3>4. CASE st = "long-put"
      BY <2>1, <3>4 DEF MoneyRanges
    <3>5. CASE st = "long-straddle"
      BY <2>1, <3>5 DEF MoneyRanges
    <3>6. CASE st = "long-strangle"
      BY <2>1, <3>6 DEF MoneyRanges
    <3>7. CASE st = "collar"
      <4>1. old = [leg1 |-> Slider(1050, CallMax(days), 1200),
                   leg2 |-> Slider(PutMin(days), 950, 800)]
        BY <3>7 DEF MoneyRanges
      <4>2. /\ old.leg1 = Slider(1050, CallMax(days), 1200)
            /\ old.leg2 = Slider(PutMin(days), 950, 800)
        BY <4>1
      <4> HIDE DEF old
      <4> QED BY <2>1, <4>2
    <3> QED BY <3>1, <3>2, <3>3, <3>4, <3>5, <3>6, <3>7
  <2> HIDE DEF old, Ends
  <2>4. Ends(old.leg1) \subseteq Nat
    BY <2>2, <2>3
  <2>5. "leg2" \in DOMAIN old => Ends(old.leg2) \subseteq Nat
    BY <2>2, <2>3
  <2> QED BY <2>4, <2>5 DEF old
<1>3. SUFFICES ASSUME NEW intent \in {"speculate-up", "speculate-down",
                                      "expect-volatility", "earn-both"},
                      NEW st \in Strategies(intent), NEW days \in DAY_PRESETS,
                      NEW before \in DAY_PRESETS, NEW s \in Spots,
                      NEW raw1 \in Ends(MoneyRanges(st, before).leg1),
                      NEW q1 \in Quotes, NEW q2 \in Quotes,
                      NEW raw2 \in Second(MoneyRanges(st, before)),
                      NEW m \in {0, 500, 1000, 1500, 4500}
               PROVE  OutcomesHold(st, days, raw1, raw2, s, 1000 * q1, 1000 * q2, s * m)
  BY DEF OutcomesAreTrue
<1>4. st \in Tried
  BY <1>1
<1> HIDE DEF Ends, Second
<1>5. raw1 \in Nat /\ raw2 \in Nat
  BY <1>2, <1>4
<1>6. /\ s \in Nat \ {0} /\ q1 \in Nat /\ q2 \in Nat /\ m \in Nat
      /\ 1000 * q1 \in Nat /\ 1000 * q2 \in Nat
  BY SpotAssumption, DeskAssumption
<1>7. s * m \in Nat
  BY <1>6, ProductNat
<1>8. \A a, b, price \in Nat : OutcomesHold(st, days, raw1, raw2, s, a, b, price)
  <2> SUFFICES ASSUME NEW a \in Nat, NEW b \in Nat, NEW price \in Nat
               PROVE  OutcomesHold(st, days, raw1, raw2, s, a, b, price)
    OBVIOUS
  <2>1. s \in Nat \ {0}
    BY <1>6
  <2> QED BY <1>4, <1>5, <2>1, OutcomeHolds
<1> QED BY <1>6, <1>7, <1>8

(* Where the pool's tokens differ, every forecast on the desk is true, of  *)
(* any options at any prices.                                              *)
THEOREM ForecastsHold ==
    ASSUME Underlying # PremiumToken
    PROVE  Spec => []ForecastsAreTrue
<1>1. TypeOK => ForecastsAreTrue
  <2> SUFFICES ASSUME TypeOK PROVE ForecastsAreTrue
    OBVIOUS
  <2>1. \A id \in DOMAIN options : options[id] \in Option
    BY Basics
  <2> HIDE DEF TypeOK
  <2>2. \A o \in Option : o.optionType \in {CALL, PUT} /\ CALL # PUT
    BY DEF Option, OptionTypes, CALL, PUT
  <2>3. \A p \in Spots \cup {0} : p \in Nat
    BY SpotAssumption
  <2>4. ASSUME NEW o \in Option, NEW s \in Spots
        PROVE  LET call  == LongCallPanel(o, s)
                   put   == LongPutPanel(o, s)
                   guard == ProtectivePutPanel(o, s)
                   outlook == WriterOutlook(o, s)
               IN  /\ IF o.optionType = CALL
                      THEN /\ call.profitIfDouble > 0 =>
                                Within(call.profitIfDouble - ExercisePnl(o, 2 * s), o, 2 * s)
                           /\ Value(o, s) >= call.breakEven =>
                                ExercisePnl(o, s) + FeeShare(o, s) >= 0
                      ELSE /\ put.profitIfCrash > 0 /\ s % 2 = 0 =>
                                Within((put.profitIfCrash \div 2) - ExercisePnl(o, s \div 2),
                                       o, s)
                           /\ guard.saved > 0 /\ s % 2 = 0 =>
                                Within((guard.saved \div 2) - ExercisePnl(o, s \div 2), o, s)
                           /\ Value(o, s) <= put.breakEven =>
                                ExercisePnl(o, s) + FeeShare(o, s) > -PRECISION
                           /\ Within(guard.netPayout - (ExercisePnl(o, s) + Value(o, s)), o, s)
                   /\ WriterResult(o, s) >=
                        -outlook.maxLoss - (o.premium - WriterReceives(o)) * PRECISION
                   /\ ExercisePnl(o, s) + Cost(o) >= 0 =>
                        WriterResult(o, s) <= outlook.maxProfit
    <3>1. CASE o.optionType = CALL
      BY <3>1, CallPanels
    <3>2. CASE o.optionType = PUT
      BY <2>2, <3>2, PutPanels
    <3> QED BY <2>2, <3>1, <3>2
  <2>5. ASSUME NEW call \in Option, NEW put \in Option, NEW p \in Spots \cup {0}
        PROVE  LET amount == call.underlyingAmount
                   pays == amount * (Intrinsic(CALL, call.strikePrice, p)
                                       + Intrinsic(PUT, put.strikePrice, p))
                   straddle == StraddlePanel(call, put)
                   strangle == StranglePanel(call, put)
               IN  /\ call.strikePrice = put.strikePrice =>
                        (pays > straddle.loss <=> \/ 2 * amount * p > straddle.upper
                                                  \/ 2 * amount * p < straddle.lower)
                   /\ call.strikePrice > put.strikePrice =>
                        (pays > strangle.loss <=> \/ amount * p > strangle.upper
                                                  \/ amount * p < strangle.lower)
    BY <2>3, PairPanels
  <2> QED BY <2>1, <2>4, <2>5, OutcomesAre DEF ForecastsAreTrue
<1> QED BY <1>1, TypeCorrect, PTL
=============================================================================
