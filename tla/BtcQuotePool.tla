---------------------------- MODULE BtcQuotePool ----------------------------
(***************************************************************************)
(* The OP20/BTC options pool (pool type 1): btc-quote.ts with the          *)
(* reservations of reservation-storage.ts, the public-key registry of      *)
(* base.ts and the bridge.  Writing, cancelling and settling are those of  *)
(* the type 0 pool; buying is a two-phase commit: reserveOption fixes the  *)
(* price and the payment script, executeReservation needs a transaction    *)
(* that pays it, cancelReservation releases what was not paid in time.     *)
(*                                                                         *)
(* The outputs of a transaction are whatever its sender made them, so      *)
(* every action that verifies one takes it as a parameter.                 *)
(***************************************************************************)
EXTENDS OptionsPool

CONSTANTS
    KeysOf,            \* user -> public keys he may register
    NoKey,             \* none registered
    NoScript,          \* a script-hash slot never written
    CSV_BLOCKS,        \* time lock of a payment script (6 in the code)
    RESERVATION_EXPIRY_BLOCKS,
    MAX_PRICE_STALENESS, PricesAt, \* see NativeSwapBridge
    MaxU64,            \* largest amount of satoshis
    Sats,              \* output values tried
    MaxReservations,   \* bound: reservations ever made
    MaxStrayOutputs    \* bound: outputs consumed when a stray one is

Keys == UNION {KeysOf[u] : u \in Users}

ASSUME ReservationAssumption ==
    /\ RESERVATION_EXPIRY_BLOCKS \in Nat \ {0}
    /\ MAX_PRICE_STALENESS \in Nat
    /\ MaxU64 \in Nat
    /\ MaxReservations \in Nat
    /\ MaxStrayOutputs \in Nat
    /\ Sats \subseteq Nat
    /\ NoKey \notin Keys

VARIABLES
    pubkeys,            \* user -> registered public key
    nextReservationId,  \* nextReservationId
    reservations,       \* id -> reservation record
    scriptOf,           \* id of a sold option -> its payment script
    priceCache,         \* kept by the bridge
    consumed            \* kept by the bridge

reservationVars == <<pubkeys, nextReservationId, reservations, scriptOf>>
bridgeVars == <<priceCache, consumed>>
btcVars == <<reservationVars, bridgeVars>>
quoteVars == <<vars, btcVars>>

Bridge == INSTANCE NativeSwapBridge WITH PricedTokens <- {PremiumToken}

PENDING  == "PENDING"
EXECUTED == "EXECUTED"

Scripts == {Bridge!CsvScript(k, CSV_BLOCKS) : k \in Keys}
Outputs == [script : Scripts, value : Sats]
AllPrices == UNION {PricesAt[b] : b \in 0 .. MaxBlock}

Reservation ==
    [optionId : Nat, buyer : Users \cup {NoOne}, btcAmount : Nat,
     csvScriptHash : Scripts \cup {NoScript}, expiryBlock : Nat,
     status : {PENDING, EXECUTED}]

QuoteTypeOK ==
    /\ TypeOK
    /\ pubkeys \in [Users -> Keys \cup {NoKey}]
    /\ nextReservationId \in Nat
    /\ reservations \in [0 .. nextReservationId - 1 -> Reservation]
    /\ DOMAIN scriptOf \subseteq DOMAIN options
    /\ \A id \in DOMAIN scriptOf : scriptOf[id] \in Scripts
    /\ consumed \subseteq Outputs

QuoteInit ==
    /\ Init
    /\ pubkeys = [u \in Users |-> NoKey]
    /\ nextReservationId = 0
    /\ reservations = [rid \in 0 .. nextReservationId - 1 |-> NoOne]
    /\ scriptOf = [id \in {} |-> NoScript]
    /\ Bridge!BridgeInit

-----------------------------------------------------------------------------
(* Storage. *)

(* A storage slot that holds zero is a slot that was never written. *)
HasStorageAt(value) == value # 0

(* A reservation exists if its first slot, the option's id, does. *)
ReservationExists(rid) ==
    rid \in DOMAIN reservations /\ HasStorageAt(reservations[rid].optionId)

NewReservation(id, buyer, amount, script) ==
    [optionId |-> id, buyer |-> buyer, btcAmount |-> amount,
     csvScriptHash |-> script,
     expiryBlock |-> block + RESERVATION_EXPIRY_BLOCKS, status |-> PENDING]

(* Every slot zeroed; zero is also the code of PENDING. *)
Cleared == [optionId |-> 0, buyer |-> NoOne, btcAmount |-> 0,
            csvScriptHash |-> NoScript, expiryBlock |-> 0, status |-> PENDING]

(* Mutant: the script is filed under the reservation's id. *)
ScriptUnderReservation(rid, script) ==
    scriptOf' = [i \in DOMAIN scriptOf \cup {rid} |->
                    IF i = rid THEN script ELSE scriptOf[i]]

SetScript(rid, script) ==
    LET id == reservations[rid].optionId
    IN  scriptOf' = [i \in DOMAIN scriptOf \cup {id} |->
                        IF i = id THEN script ELSE scriptOf[i]]

-----------------------------------------------------------------------------
(* As in the type 0 pool. *)

QuoteWriteOption(caller, type, strike, amount, premium, expiry) ==
    /\ WriteOption(caller, type, strike, amount, premium, expiry)
    /\ UNCHANGED btcVars

QuoteCancelOption(caller, id) == CancelOption(caller, id) /\ UNCHANGED btcVars

QuoteSettle(id) == Settle(id) /\ UNCHANGED btcVars

(* A put is exercised in OP20s only. *)
ExercisePut(caller, id) ==
    /\ Exists(id)
    /\ options[id].optionType = PUT
    /\ Exercise(caller, id)
    /\ UNCHANGED btcVars

RegisterBtcPubkey(caller, key) ==
    /\ pubkeys' = [pubkeys EXCEPT ![caller] = key]
    /\ UNCHANGED <<vars, nextReservationId, reservations, scriptOf, bridgeVars>>

-----------------------------------------------------------------------------
(* The two-phase purchase. *)

BtcAmount(o, price) == (o.premium * price) \div PRECISION

(* The option outlives the reservation window. *)
OutlivesReservation(o) == block + RESERVATION_EXPIRY_BLOCKS < o.expiryBlock

ReserveOption(caller, id, price) ==
    /\ nextReservationId < MaxReservations
    /\ Exists(id)
    /\ LET o      == options[id]
           amount == BtcAmount(o, price)
           script == Bridge!CsvScript(pubkeys[o.writer], CSV_BLOCKS)
       IN  /\ o.status = OPEN
           /\ block < o.expiryBlock
           /\ OutlivesReservation(o)
           /\ caller # o.writer
           /\ Bridge!GetBtcPrice(PremiumToken, price)
           /\ Fits(o.premium * price)
           /\ amount \in 1 .. MaxU64
           /\ pubkeys[o.writer] # NoKey
           /\ SetStatus(id, RESERVED)
           /\ reservations' =
                [rid \in 0 .. nextReservationId |->
                   IF rid = nextReservationId
                   THEN NewReservation(id, caller, amount, script)
                   ELSE reservations[rid]]
    /\ nextReservationId' = nextReservationId + 1
    /\ UNCHANGED <<block, nextId, balance, feeRecipient, pubkeys, scriptOf>>

(* Anyone may execute a reservation: the buyer is the one it names. *)
ExecuteReservation(rid, out) ==
    /\ ReservationExists(rid)
    /\ LET r == reservations[rid]
       IN  /\ r.status = PENDING
           /\ block < r.expiryBlock
           /\ Bridge!VerifyBtcOutput(r.csvScriptHash, r.btcAmount, out)
           /\ options' = [options EXCEPT ![r.optionId].buyer = r.buyer,
                                         ![r.optionId].status = PURCHASED]
           /\ SetScript(rid, r.csvScriptHash)
           /\ reservations' = [reservations EXCEPT ![rid].status = EXECUTED]
    /\ UNCHANGED <<block, nextId, balance, feeRecipient, pubkeys,
                   nextReservationId>>

(* Mutant: an unexpired reservation may be cancelled. *)
ReleasableAnyTime(rid)    == reservations[rid].status = PENDING
(* Mutant: not once the option itself has expired. *)
ReleasableBeforeExpiry(rid) ==
    /\ reservations[rid].status = PENDING
    /\ reservations[rid].expiryBlock <= block
    /\ block < options[reservations[rid].optionId].expiryBlock

Releasable(rid) ==
    /\ reservations[rid].status = PENDING
    /\ reservations[rid].expiryBlock <= block

(* Mutant: the record is not cleared. *)
CancelWithoutClear(rid) ==
    /\ ReservationExists(rid)
    /\ Releasable(rid)
    /\ SetStatus(reservations[rid].optionId, OPEN)
    /\ UNCHANGED <<block, nextId, balance, feeRecipient, btcVars>>

CancelReservation(rid) ==
    /\ ReservationExists(rid)
    /\ Releasable(rid)
    /\ SetStatus(reservations[rid].optionId, OPEN)
    /\ reservations' = [reservations EXCEPT ![rid] = Cleared]
    /\ UNCHANGED <<block, nextId, balance, feeRecipient, pubkeys,
                   nextReservationId, scriptOf, bridgeVars>>

(* The strike of a call is paid in Bitcoin to the script of the sale. *)
ExerciseCall(caller, id, out) ==
    /\ Exists(id)
    /\ id \in DOMAIN scriptOf
    /\ LET o   == options[id]
           c   == o.underlyingAmount
           fee == FeeOf(c, EXERCISE_FEE_BPS)
       IN  /\ o.optionType = CALL
           /\ o.status = PURCHASED
           /\ caller = o.buyer
           /\ o.expiryBlock <= block
           /\ block < GraceEnd(o)
           /\ StrikeFits(o)
           /\ StrikeValue(o) <= MaxU64
           /\ Bridge!VerifyBtcOutput(scriptOf[id], StrikeValue(o), out)
           /\ FeeFits(c, EXERCISE_FEE_BPS)
           /\ Affords(balance, Underlying, Pool, c)
           /\ SetStatus(id, EXERCISED)
           /\ balance' = Pay(Pay(balance, Underlying, Pool, caller, c - fee),
                             Underlying, Pool, feeRecipient, fee)
    /\ UNCHANGED <<block, nextId, feeRecipient, reservationVars>>

-----------------------------------------------------------------------------
(* The bridge is a contract of its own: anybody may ask it for a price or  *)
(* have it count an output that pays no pool.                              *)

AskPrice(price) ==
    /\ Bridge!GetBtcPrice(PremiumToken, price)
    /\ UNCHANGED <<vars, reservationVars>>

VerifyStray(out) ==
    /\ Cardinality(consumed) < MaxStrayOutputs
    /\ Bridge!VerifyBtcOutput(out.script, out.value, out)
    /\ UNCHANGED <<vars, reservationVars>>

-----------------------------------------------------------------------------
QuoteSignedBy(u) ==
    \/ \E type \in OptionTypes, k \in Strikes, a \in Amounts,
          p \in Premiums, e \in Expiries : QuoteWriteOption(u, type, k, a, p, e)
    \/ \E id \in DOMAIN options : QuoteCancelOption(u, id)
    \/ \E id \in DOMAIN options, p \in AllPrices : ReserveOption(u, id, p)
    \/ \E id \in DOMAIN options : ExercisePut(u, id)
    \/ \E id \in DOMAIN options, out \in Outputs : ExerciseCall(u, id, out)
    \/ \E k \in KeysOf[u] : RegisterBtcPubkey(u, k)
    \/ \E new \in FeeRecipients :
          UpdateFeeRecipient(u, new) /\ UNCHANGED btcVars

QuotePermissionless ==
    \/ \E rid \in DOMAIN reservations, out \in Outputs :
          ExecuteReservation(rid, out)
    \/ \E rid \in DOMAIN reservations : CancelReservation(rid)
    \/ \E id \in DOMAIN options : QuoteSettle(id)
    \/ \E p \in AllPrices : AskPrice(p)
    \/ \E out \in Outputs : VerifyStray(out)

QuoteNextBlock == NextBlock /\ UNCHANGED btcVars

QuoteNext ==
    QuoteNextBlock \/ QuotePermissionless \/ \E u \in Users : QuoteSignedBy(u)

QuoteSpec == QuoteInit /\ [][QuoteNext]_quoteVars

(* Blocks keep coming, and somebody releases reservations that lapsed. *)
ReleaserSpec ==
    /\ QuoteSpec
    /\ WF_quoteVars(QuoteNextBlock)
    /\ \A rid \in 0 .. MaxReservations - 1 : WF_quoteVars(CancelReservation(rid))
=============================================================================
