----------------------------- MODULE OptionsPool -----------------------------
(***************************************************************************)
(* The OP20/OP20 options pool (pool type 0): contract.ts, with the fee     *)
(* recipient of base.ts and the option records of storage.ts.              *)
(*                                                                         *)
(* A transaction runs alone and either completes or reverts with nothing   *)
(* changed (@nonReentrant on every method), so each method is one action   *)
(* whose guard is the conjunction of the conditions it does not revert on. *)
(* The id of an option is the counter nextId at its creation, so options   *)
(* is a function on 0 .. nextId - 1 and "exists" is membership in that     *)
(* interval.                                                               *)
(***************************************************************************)
EXTENDS PoolMath, OP20, Sums, FiniteSets

CONSTANTS
    Users,             \* addresses that sign transactions
    Pool,              \* the pool contract's own address
    NoOne,             \* Address.zero()
    Underlying,        \* the pool's underlying OP20
    PremiumToken,      \* the pool's premium OP20 (may be the same contract)
    GracePeriod,       \* fixed at deployment
    MIN_GRACE_PERIOD_BLOCKS, MAX_GRACE_PERIOD_BLOCKS,
    MAX_EXPIRY_BLOCKS, \* longest life of an option
    FeeRecipients,     \* addresses the fee recipient role is given to
    InitialFunds,      \* each user's balance of each token at deployment
    Strikes, Amounts, Premiums, \* calldata values tried for a new option
    MaxOptions,        \* bound: options ever written
    MaxBlock           \* bound: last block modelled

Addresses == Users \cup {Pool}
Tokens    == {Underlying, PremiumToken}

ASSUME AddressAssumption ==
    /\ Pool \notin Users
    /\ NoOne \notin Addresses
    /\ FeeRecipients \subseteq Addresses
ASSUME DeploymentAssumption ==
    /\ MIN_GRACE_PERIOD_BLOCKS \in Nat
    /\ MAX_GRACE_PERIOD_BLOCKS \in Nat
    /\ GracePeriod \in MIN_GRACE_PERIOD_BLOCKS .. MAX_GRACE_PERIOD_BLOCKS
    /\ MAX_EXPIRY_BLOCKS \in Nat
ASSUME InputAssumption ==
    /\ Strikes \subseteq Nat \ {0}
    /\ Amounts \subseteq Nat \ {0}
    /\ Premiums \subseteq Nat \ {0}
ASSUME BoundAssumption ==
    InitialFunds \in Nat /\ MaxOptions \in Nat /\ MaxBlock \in Nat

VARIABLES
    block,        \* Blockchain.block.number of the next transaction
    nextId,       \* _nextId
    options,      \* id -> option record
    balance,      \* token -> address -> balance, kept by the two OP20s
    feeRecipient  \* feeRecipientStore

vars == <<block, nextId, options, balance, feeRecipient>>

Option == [writer : Users, buyer : Addresses \cup {NoOne},
           strikePrice : Nat \ {0}, underlyingAmount : Nat \ {0},
           premium : Nat \ {0}, expiryBlock : Nat,
           optionType : OptionTypes, status : Statuses]

TypeOK ==
    /\ block \in Nat
    /\ nextId \in Nat
    /\ options \in [0 .. nextId - 1 -> Option]
    /\ balance \in [Tokens -> [Addresses -> Nat]]
    /\ feeRecipient \in Addresses

(* onDeployment: any fee recipient but Address.zero(). *)
Init ==
    /\ block = 0
    /\ nextId = 0
    /\ options = [id \in 0 .. nextId - 1 |-> NoOne]
    /\ balance = [t \in Tokens |->
                    [a \in Addresses |-> IF a = Pool THEN 0 ELSE InitialFunds]]
    /\ feeRecipient \in FeeRecipients

-----------------------------------------------------------------------------
(* Helpers the handlers share. *)

Exists(id) == id \in DOMAIN options

CollateralToken(o) == IF o.optionType = CALL THEN Underlying ELSE PremiumToken

GraceEnd(o) == o.expiryBlock + GracePeriod

(* Mutant: sender and receiver swapped. *)
PaySwapped(b, token, from, to, amount) ==
    [b EXCEPT ![token] = Moved(b[token], to, from, amount)]

(* _transferFrom / _transfer: one token's ledger after a payment. *)
Pay(b, token, from, to, amount) ==
    [b EXCEPT ![token] = Moved(b[token], from, to, amount)]

(* Mutant: the result of the token call is ignored. *)
AffordsAnything(b, token, from, amount) == TRUE

Affords(b, token, from, amount) == CanPay(b[token], from, amount)

(* The fee for withdrawing an unsold option: none once it has expired. *)
CancelFee(o) ==
    IF block >= o.expiryBlock THEN 0 ELSE FeeOf(Collateral(o), CANCEL_FEE_BPS)

CancelFeeFits(o) ==
    /\ CollateralFits(o)
    /\ block >= o.expiryBlock \/ FeeFits(Collateral(o), CANCEL_FEE_BPS)

SetStatus(id, s) == options' = [options EXCEPT ![id].status = s]

(* Mutant: an option may expire in the block it is written in. *)
ExpiryNowAllowed(expiry) ==
    block <= expiry /\ expiry <= block + MAX_EXPIRY_BLOCKS

ExpiryInRange(expiry) ==
    block < expiry /\ expiry <= block + MAX_EXPIRY_BLOCKS

NewOption(writer, type, strike, amount, premium, expiry) ==
    [writer |-> writer, buyer |-> NoOne, strikePrice |-> strike,
     underlyingAmount |-> amount, premium |-> premium,
     expiryBlock |-> expiry, optionType |-> type, status |-> OPEN]

(* options.set(nextId, o) over the records in book. *)
Extended(book, o) ==
    [id \in 0 .. nextId |-> IF id = nextId THEN o ELSE book[id]]

-----------------------------------------------------------------------------
(* Writing, cancelling, buying. *)

WriteOption(caller, type, strike, amount, premium, expiry) ==
    LET o == NewOption(caller, type, strike, amount, premium, expiry)
        t == CollateralToken(o)
        c == Collateral(o)
    IN  /\ nextId < MaxOptions
        /\ ExpiryInRange(expiry)
        /\ CollateralFits(o)
        /\ Affords(balance, t, caller, c)
        /\ nextId' = nextId + 1
        /\ options' = Extended(options, o)
        /\ balance' = Pay(balance, t, caller, Pool, c)
        /\ UNCHANGED <<block, feeRecipient>>

(* What a call asks of its caller and the option, apart from amounts: the  *)
(* contract's reverts, which its callers reckon with too.                  *)
MayCancel(caller, id) ==
    /\ Exists(id)
    /\ caller = options[id].writer
    /\ options[id].status = OPEN

CancelOption(caller, id) ==
    /\ MayCancel(caller, id)
    /\ LET o   == options[id]
           t   == CollateralToken(o)
           c   == Collateral(o)
           fee == CancelFee(o)
       IN  /\ CancelFeeFits(o)
           /\ Affords(balance, t, Pool, c)
           /\ SetStatus(id, CANCELLED)
           /\ balance' = Pay(Pay(balance, t, Pool, o.writer, c - fee),
                             t, Pool, feeRecipient, fee)
    /\ UNCHANGED <<block, nextId, feeRecipient>>

MayBuy(caller, id) ==
    /\ Exists(id)
    /\ options[id].status = OPEN
    /\ block < options[id].expiryBlock
    /\ caller # options[id].writer

CanBuy(caller, id) ==
    /\ MayBuy(caller, id)
    /\ FeeFits(options[id].premium, BUY_FEE_BPS)
    /\ Affords(balance, PremiumToken, caller, options[id].premium)

BuyOption(caller, id) ==
    /\ CanBuy(caller, id)
    /\ LET o   == options[id]
           fee == FeeOf(o.premium, BUY_FEE_BPS)
       IN  /\ options' = [options EXCEPT ![id].buyer = caller,
                                         ![id].status = PURCHASED]
           /\ balance' =
                Pay(Pay(balance, PremiumToken, caller, o.writer, o.premium - fee),
                    PremiumToken, caller, feeRecipient, fee)
    /\ UNCHANGED <<block, nextId, feeRecipient>>

-----------------------------------------------------------------------------
(* Holding, exercising, settling. *)

MayExercise(caller, id) ==
    /\ Exists(id)
    /\ options[id].status = PURCHASED
    /\ caller = options[id].buyer
    /\ options[id].expiryBlock <= block
    /\ block < GraceEnd(options[id])

(* The holder delivers what the option obliges him to deliver to the       *)
(* writer, then takes the escrowed collateral less the fee.                *)
Exercise(caller, id) ==
    /\ MayExercise(caller, id)
    /\ LET o     == options[id]
           c     == Collateral(o)
           fee   == FeeOf(c, EXERCISE_FEE_BPS)
           out   == CollateralToken(o)
           in    == IF o.optionType = CALL THEN PremiumToken ELSE Underlying
           price == IF o.optionType = CALL THEN StrikeValue(o)
                                           ELSE o.underlyingAmount
           delivered == Pay(balance, in, caller, o.writer, price)
       IN  /\ StrikeFits(o)
           /\ FeeFits(c, EXERCISE_FEE_BPS)
           /\ Affords(balance, in, caller, price)
           /\ Affords(delivered, out, Pool, c)
           /\ SetStatus(id, EXERCISED)
           /\ balance' = Pay(Pay(delivered, out, Pool, caller, c - fee),
                             out, Pool, feeRecipient, fee)
    /\ UNCHANGED <<block, nextId, feeRecipient>>

(* Mutant: the grace period forgotten. *)
CanSettleAtExpiry(id) ==
    /\ Exists(id)
    /\ options[id].status = PURCHASED
    /\ options[id].expiryBlock <= block

CanSettle(id) ==
    /\ Exists(id)
    /\ options[id].status = PURCHASED
    /\ GraceEnd(options[id]) <= block

(* Mutant: a fee is withheld and paid to nobody. *)
SettleWithFee(id) ==
    /\ CanSettle(id)
    /\ LET o == options[id]
           t == CollateralToken(o)
           c == Collateral(o)
       IN  /\ CollateralFits(o)
           /\ Affords(balance, t, Pool, c)
           /\ SetStatus(id, EXPIRED)
           /\ balance' = Pay(balance, t, Pool, o.writer,
                             c - FeeOf(c, CANCEL_FEE_BPS))
    /\ UNCHANGED <<block, nextId, feeRecipient>>

(* Mutant: only in the very block in which the grace period ends. *)
SettleOnTheDot(id) ==
    /\ CanSettle(id)
    /\ LET o == options[id]
           t == CollateralToken(o)
       IN  /\ block = GraceEnd(o)
           /\ SetStatus(id, EXPIRED)
           /\ balance' = Pay(balance, t, Pool, o.writer, Collateral(o))
    /\ UNCHANGED <<block, nextId, feeRecipient>>

(* Permissionless: the caller has no part in the effect. *)
Settle(id) ==
    /\ CanSettle(id)
    /\ LET o == options[id]
           t == CollateralToken(o)
           c == Collateral(o)
       IN  /\ CollateralFits(o)
           /\ Affords(balance, t, Pool, c)
           /\ SetStatus(id, EXPIRED)
           /\ balance' = Pay(balance, t, Pool, o.writer, c)
    /\ UNCHANGED <<block, nextId, feeRecipient>>

MayTransfer(caller, id) ==
    /\ Exists(id)
    /\ options[id].status = PURCHASED
    /\ caller = options[id].buyer
    /\ block < GraceEnd(options[id])

TransferOption(caller, id, newBuyer) ==
    /\ MayTransfer(caller, id)
    /\ newBuyer # options[id].buyer
    /\ options' = [options EXCEPT ![id].buyer = newBuyer]
    /\ UNCHANGED <<block, nextId, balance, feeRecipient>>

-----------------------------------------------------------------------------
(* Rolling: cancel and write again in one transaction, netting the         *)
(* collateral.  The fee leaves first, so a writer who is also the fee      *)
(* recipient can fund the top-up with it.                                  *)
RollOption(caller, id, strike, expiry, premium) ==
    /\ MayCancel(caller, id)
    /\ nextId < MaxOptions
    /\ LET old    == options[id]
           new    == NewOption(caller, old.optionType, strike,
                               old.underlyingAmount, premium, expiry)
           t      == CollateralToken(old)
           fee    == CancelFee(old)
           refund == Collateral(old) - fee
           feeOut == Pay(balance, t, Pool, feeRecipient, fee)
           topUp  == Collateral(new) - refund
           back   == refund - Collateral(new)
       IN  /\ ExpiryInRange(expiry)
           /\ CancelFeeFits(old)
           /\ CollateralFits(new)
           /\ Affords(balance, t, Pool, fee)
           /\ \/ /\ Collateral(new) >= refund
                 /\ Affords(feeOut, t, caller, topUp)
                 /\ balance' = Pay(feeOut, t, caller, Pool, topUp)
              \/ /\ Collateral(new) < refund
                 /\ Affords(feeOut, t, Pool, back)
                 /\ balance' = Pay(feeOut, t, Pool, caller, back)
           /\ options' =
                Extended([options EXCEPT ![id].status = CANCELLED], new)
    /\ nextId' = nextId + 1
    /\ UNCHANGED <<block, feeRecipient>>

-----------------------------------------------------------------------------
(* Batches.  The ids of a batch are distinct (a repeated id reverts), so a *)
(* batch is a set of at most MAX_BATCH_SIZE ids and the payments, all out  *)
(* of the pool, add up whatever their order.                               *)

BatchSize(ids) == Cardinality(ids) \in 1 .. MAX_BATCH_SIZE

(* The sum of amount[id] over the options of ids whose collateral is t. *)
BatchTotal(ids, t, amount) ==
    SumUpTo([id \in DOMAIN options |->
               IF id \in ids /\ CollateralToken(options[id]) = t
               THEN amount[id] ELSE 0], nextId)

Collaterals == [id \in DOMAIN options |-> Collateral(options[id])]
CancelFees  == [id \in DOMAIN options |-> CancelFee(options[id])]

WithStatus(ids, s) ==
    [id \in DOMAIN options |->
       IF id \in ids THEN [options[id] EXCEPT !.status = s] ELSE options[id]]

(* All or nothing: one id that cannot be cancelled reverts the batch. *)
CanBatchCancel(caller, ids) ==
    /\ BatchSize(ids)
    /\ \A id \in ids : MayCancel(caller, id) /\ CancelFeeFits(options[id])
    /\ \A t \in Tokens : Affords(balance, t, Pool, BatchTotal(ids, t, Collaterals))

BatchCancel(caller, ids) ==
    LET total(t)  == BatchTotal(ids, t, Collaterals)
        fees(t)   == BatchTotal(ids, t, CancelFees)
    IN  /\ CanBatchCancel(caller, ids)
        /\ options' = WithStatus(ids, CANCELLED)
        /\ balance' = [t \in Tokens |->
             Moved(Moved(balance[t], Pool, caller, total(t) - fees(t)),
                   Pool, feeRecipient, fees(t))]
        /\ UNCHANGED <<block, nextId, feeRecipient>>

(* Mutant: the batch paid to the options' holders. *)
SettledToHolder(ids, t, w) ==
    BatchTotal({id \in ids : options[id].buyer = w}, t, Collaterals)

(* What writer w gets back in token t when the options of ids settle. *)
SettledTo(ids, t, w) ==
    BatchTotal({id \in ids : options[id].writer = w}, t, Collaterals)

(* Best effort: an id that cannot be settled is skipped. *)
BatchSettle(ids) ==
    LET due == {id \in ids : CanSettle(id)}
    IN  /\ BatchSize(ids)
        /\ \A id \in due : CollateralFits(options[id])
        /\ \A t \in Tokens :
              Affords(balance, t, Pool, BatchTotal(due, t, Collaterals))
        /\ options' = WithStatus(due, EXPIRED)
        /\ balance' = [t \in Tokens |-> [a \in Addresses |->
             IF a = Pool
             THEN balance[t][a] - BatchTotal(due, t, Collaterals)
             ELSE balance[t][a] + SettledTo(due, t, a)]]
        /\ UNCHANGED <<block, nextId, feeRecipient>>

-----------------------------------------------------------------------------
(* Only the current recipient hands the role on; a role given to the pool  *)
(* itself stays there, because the pool signs nothing.                     *)
UpdateFeeRecipient(caller, new) ==
    /\ caller = feeRecipient
    /\ new # feeRecipient
    /\ feeRecipient' = new
    /\ UNCHANGED <<block, nextId, options, balance>>

NextBlock ==
    /\ block < MaxBlock
    /\ block' = block + 1
    /\ UNCHANGED <<nextId, options, balance, feeRecipient>>

(* Every transaction user u can sign.  Expiries beyond the last block      *)
(* modelled are left out, so that every option can run its whole course.   *)
Expiries == {e \in 0 .. MaxBlock : e + GracePeriod <= MaxBlock}

SignedBy(u) ==
    \/ \E type \in OptionTypes, k \in Strikes, a \in Amounts,
          p \in Premiums, e \in Expiries : WriteOption(u, type, k, a, p, e)
    \/ \E id \in DOMAIN options : CancelOption(u, id)
    \/ \E id \in DOMAIN options : BuyOption(u, id)
    \/ \E id \in DOMAIN options : Exercise(u, id)
    \/ \E id \in DOMAIN options, new \in Addresses : TransferOption(u, id, new)
    \/ \E id \in DOMAIN options, k \in Strikes, e \in Expiries,
          p \in Premiums : RollOption(u, id, k, e, p)
    \/ \E ids \in SUBSET DOMAIN options : BatchCancel(u, ids)
    \/ \E new \in FeeRecipients : UpdateFeeRecipient(u, new)

Permissionless ==
    \/ \E id \in DOMAIN options : Settle(id)
    \/ \E ids \in SUBSET (0 .. MaxOptions) : BatchSettle(ids)

Next == NextBlock \/ Permissionless \/ \E u \in Users : SignedBy(u)

Spec == Init /\ [][Next]_vars

(* Blocks keep coming, and somebody settles what is due (any third party   *)
(* may: that is why settle is permissionless).                             *)
KeeperSpec ==
    /\ Spec
    /\ WF_vars(NextBlock)
    /\ \A id \in 0 .. MaxOptions - 1 : WF_vars(Settle(id))
=============================================================================
