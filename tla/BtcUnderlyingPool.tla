-------------------------- MODULE BtcUnderlyingPool --------------------------
(***************************************************************************)
(* The BTC/OP20 options pool (pool type 2): btc-underlying.ts.  A put is   *)
(* escrowed in the quote token as in type 0.  A call is escrowed on        *)
(* Bitcoin: writing it takes a transaction that pays the amount to a       *)
(* dual-path script, which the pool verifies through the bridge and never  *)
(* touches again.                                                          *)
(*                                                                         *)
(* Outputs are kept in the order they were made; those after tx.from are   *)
(* the outputs of the transaction running now, which may call the pool     *)
(* several times (through another contract).                               *)
(***************************************************************************)
EXTENDS OptionsPool, Sequences

CONSTANTS
    KeysOf,           \* user -> public keys whose private key he has
    NoKey,            \* no key registered
    PlaceholderBuyer, \* the 33 bytes 02 00 .. 00
    CSV_BLOCKS,       \* time lock of a payment to the writer (6 in the code)
    MaxU64,           \* largest amount of satoshis
    MaxOutputs        \* bound: outputs ever made

ASSUME KeyAssumption ==
    /\ NoKey \notin UNION {KeysOf[u] : u \in Users}
    /\ PlaceholderBuyer \notin UNION {KeysOf[u] : u \in Users}
ASSUME BitcoinAssumption == MaxU64 \in Nat /\ MaxOutputs \in Nat

VARIABLES
    pubkeys,   \* user -> registered public key
    escrowOf,  \* id of a call -> extended slots: script and satoshis
    utxos,     \* outputs made so far: script, value, spent
    tx,        \* the running transaction: sender, outputs made before it
    consumed,  \* kept by the bridge
    priceCache \* kept by the bridge, not used by this pool

btcVars == <<pubkeys, escrowOf, utxos, tx, consumed, priceCache>>
underlyingVars == <<vars, btcVars>>

Bridge == INSTANCE NativeSwapBridge WITH
    PricedTokens <- {}, MAX_PRICE_STALENESS <- 0, PricesAt <- <<>>

Keys == UNION {KeysOf[u] : u \in Users}

CsvScripts == {Bridge!CsvScript(k, CSV_BLOCKS) : k \in Keys}

UnderlyingInit ==
    /\ Init
    /\ pubkeys = [u \in Users |-> NoKey]
    /\ escrowOf = <<>>
    /\ utxos = <<>>
    /\ tx = [sender |-> NoOne, from |-> 0]
    /\ Bridge!BridgeInit

-----------------------------------------------------------------------------
(* Transactions and their outputs. *)

(* A transaction of its own that makes no output of interest. *)
NewTransaction(sender) == tx' = [sender |-> sender, from |-> Len(utxos)]

PlainTransaction(sender) ==
    /\ NewTransaction(sender)
    /\ UNCHANGED <<pubkeys, escrowOf, utxos, consumed, priceCache>>

Output(out) == [script |-> out.script, value |-> out.value, spent |-> FALSE]

(* The call runs in a new transaction that makes out, or in the sender's   *)
(* running transaction, one of whose outputs is out.                       *)
CallPaidBy(sender, out) ==
    \/ /\ Len(utxos) < MaxOutputs
       /\ NewTransaction(sender)
       /\ utxos' = Append(utxos, Output(out))
    \/ /\ tx.sender = sender
       /\ \E i \in tx.from + 1 .. Len(utxos) :
             utxos[i].script = out.script /\ utxos[i].value = out.value
       /\ UNCHANGED <<tx, utxos>>

-----------------------------------------------------------------------------
(* Puts are written, cancelled and settled in OP20s, and every option is   *)
(* bought, as in the type 0 pool.                                          *)

WritePut(caller, strike, amount, premium, expiry) ==
    /\ WriteOption(caller, PUT, strike, amount, premium, expiry)
    /\ PlainTransaction(caller)

CancelPut(caller, id) ==
    /\ Exists(id)
    /\ options[id].optionType = PUT
    /\ CancelOption(caller, id)
    /\ PlainTransaction(caller)

SettlePut(id) ==
    /\ Exists(id)
    /\ options[id].optionType = PUT
    /\ Settle(id)
    /\ PlainTransaction(NoOne)

UnderlyingBuyOption(caller, id) ==
    BuyOption(caller, id) /\ PlainTransaction(caller)

RegisterBtcPubkey(caller, key) ==
    /\ pubkeys' = [pubkeys EXCEPT ![caller] = key]
    /\ NewTransaction(caller)
    /\ UNCHANGED <<vars, escrowOf, utxos, consumed, priceCache>>

-----------------------------------------------------------------------------
(* Calls. *)

(* Mutant: the writer's path opens at expiry, before the grace period.     *)
EscrowUntilExpiry(writer, expiry) ==
    Bridge!EscrowScript(PlaceholderBuyer, pubkeys[writer], expiry)

(* Mutant: the expiry taken for a number of blocks from now. *)
EscrowRelative(writer, expiry) ==
    Bridge!EscrowScript(PlaceholderBuyer, pubkeys[writer],
                        block + expiry + GracePeriod)

EscrowFor(writer, expiry) ==
    Bridge!EscrowScript(PlaceholderBuyer, pubkeys[writer], expiry + GracePeriod)

(* The slots of a new call, whose id has none yet. *)
WithEscrow(id, script, amount) ==
    [i \in DOMAIN escrowOf \cup {id} |->
        IF i = id THEN [script |-> script, amount |-> amount] ELSE escrowOf[i]]

WriteCall(caller, strike, amount, premium, expiry, value) ==
    LET o      == NewOption(caller, CALL, strike, amount, premium, expiry)
        script == EscrowFor(caller, expiry)
        out    == [script |-> script, value |-> value]
    IN  /\ nextId < MaxOptions
        /\ ExpiryInRange(expiry)
        /\ amount <= MaxU64
        /\ pubkeys[caller] # NoKey
        /\ CallPaidBy(caller, out)
        /\ Bridge!VerifyBtcOutput(script, amount, out)
        /\ nextId' = nextId + 1
        /\ options' = Extended(options, o)
        /\ escrowOf' = WithEscrow(nextId, script, amount)
        /\ UNCHANGED <<block, balance, feeRecipient, pubkeys>>

(* The strike, less the fee it bears, is paid to the writer in the quote   *)
(* token; the collateral is left to the escrow's paths.                    *)
ExerciseCall(caller, id) ==
    /\ Exists(id)
    /\ LET o      == options[id]
           strike == StrikeValue(o)
           fee    == FeeOf(strike, EXERCISE_FEE_BPS)
       IN  /\ o.optionType = CALL
           /\ o.status = PURCHASED
           /\ caller = o.buyer
           /\ o.expiryBlock <= block
           /\ block < GraceEnd(o)
           /\ StrikeFits(o)
           /\ FeeFits(strike, EXERCISE_FEE_BPS)
           /\ fee <= strike
           /\ Affords(balance, PremiumToken, caller, strike)
           /\ SetStatus(id, EXERCISED)
           /\ balance' =
                Pay(Pay(balance, PremiumToken, caller, o.writer, strike - fee),
                    PremiumToken, caller, feeRecipient, fee)
    /\ UNCHANGED <<block, nextId, feeRecipient>>
    /\ PlainTransaction(caller)

CancelCall(caller, id) ==
    /\ Exists(id)
    /\ options[id].optionType = CALL
    /\ caller = options[id].writer
    /\ options[id].status = OPEN
    /\ SetStatus(id, CANCELLED)
    /\ UNCHANGED <<block, nextId, balance, feeRecipient>>
    /\ PlainTransaction(caller)

SettleCall(id) ==
    /\ CanSettle(id)
    /\ options[id].optionType = CALL
    /\ SetStatus(id, EXPIRED)
    /\ UNCHANGED <<block, nextId, balance, feeRecipient>>
    /\ PlainTransaction(NoOne)

(* Mutant: the bitcoin payment is not looked for. *)
ExercisePutUnpaid(caller, id, value) ==
    /\ Exists(id)
    /\ options[id].optionType = PUT
    /\ options[id].status = PURCHASED
    /\ caller = options[id].buyer
    /\ options[id].expiryBlock <= block
    /\ block < GraceEnd(options[id])
    /\ SetStatus(id, EXERCISED)
    /\ balance' = Pay(balance, PremiumToken, Pool, caller,
                      StrikeValue(options[id]))
    /\ UNCHANGED <<block, nextId, feeRecipient>>
    /\ PlainTransaction(caller)

(* The holder of a put pays the underlying bitcoin to the writer's script, *)
(* under the key the writer has registered now, and takes the collateral.  *)
ExercisePut(caller, id, value) ==
    /\ Exists(id)
    /\ LET o      == options[id]
           strike == StrikeValue(o)
           fee    == FeeOf(strike, EXERCISE_FEE_BPS)
           script == Bridge!CsvScript(pubkeys[o.writer], CSV_BLOCKS)
           out    == [script |-> script, value |-> value]
       IN  /\ o.optionType = PUT
           /\ o.status = PURCHASED
           /\ caller = o.buyer
           /\ o.expiryBlock <= block
           /\ block < GraceEnd(o)
           /\ StrikeFits(o)
           /\ pubkeys[o.writer] # NoKey
           /\ o.underlyingAmount <= MaxU64
           /\ CallPaidBy(caller, out)
           /\ Bridge!VerifyBtcOutput(script, o.underlyingAmount, out)
           /\ FeeFits(strike, EXERCISE_FEE_BPS)
           /\ fee <= strike
           /\ Affords(balance, PremiumToken, Pool, strike)
           /\ SetStatus(id, EXERCISED)
           /\ balance' =
                Pay(Pay(balance, PremiumToken, Pool, caller, strike - fee),
                    PremiumToken, Pool, feeRecipient, fee)
    /\ UNCHANGED <<block, nextId, feeRecipient, pubkeys, escrowOf>>

-----------------------------------------------------------------------------
(* Bitcoin. *)

(* Who may spend a dual-path output, and from which block on. *)
SpendPaths(script) ==
    {[key |-> script.buyerPubkey, from |-> 0],
     [key |-> script.writerPubkey, from |-> script.cltvBlock]}

CanSpend(u, i) ==
    /\ utxos[i].script \notin CsvScripts
    /\ ~utxos[i].spent
    /\ \E path \in SpendPaths(utxos[i].script) :
          path.key \in KeysOf[u] /\ path.from <= block

SpendEscrow(u, i) ==
    /\ CanSpend(u, i)
    /\ utxos' = [utxos EXCEPT ![i].spent = TRUE]
    /\ NewTransaction(u)
    /\ UNCHANGED <<vars, pubkeys, escrowOf, consumed, priceCache>>

UnderlyingNextBlock ==
    /\ NextBlock
    /\ NewTransaction(NoOne)
    /\ UNCHANGED <<pubkeys, escrowOf, utxos, consumed, priceCache>>

-----------------------------------------------------------------------------
UnderlyingSignedBy(u) ==
    \/ \E k \in Strikes, a \in Amounts, p \in Premiums, e \in Expiries :
          WritePut(u, k, a, p, e)
    \/ \E k \in Strikes, a \in Amounts, p \in Premiums, e \in Expiries,
          v \in Amounts : WriteCall(u, k, a, p, e, v)
    \/ \E id \in DOMAIN options : CancelPut(u, id)
    \/ \E id \in DOMAIN options : CancelCall(u, id)
    \/ \E id \in DOMAIN options : UnderlyingBuyOption(u, id)
    \/ \E id \in DOMAIN options : ExerciseCall(u, id)
    \/ \E id \in DOMAIN options, v \in Amounts : ExercisePut(u, id, v)
    \/ \E k \in KeysOf[u] : RegisterBtcPubkey(u, k)
    \/ \E i \in DOMAIN utxos : SpendEscrow(u, i)
    \/ \E new \in FeeRecipients :
          UpdateFeeRecipient(u, new) /\ PlainTransaction(u)

UnderlyingNext ==
    \/ UnderlyingNextBlock
    \/ \E id \in DOMAIN options : SettlePut(id)
    \/ \E id \in DOMAIN options : SettleCall(id)
    \/ \E u \in Users : UnderlyingSignedBy(u)

UnderlyingSpec == UnderlyingInit /\ [][UnderlyingNext]_underlyingVars

(* Blocks keep coming, and a writer takes back what he may. *)
ReclaimSpec ==
    /\ UnderlyingSpec
    /\ WF_underlyingVars(UnderlyingNextBlock)
    /\ \A u \in Users, i \in 1 .. MaxOutputs :
          WF_underlyingVars(i \in DOMAIN utxos /\ SpendEscrow(u, i))
=============================================================================
