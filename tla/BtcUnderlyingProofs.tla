------------------------- MODULE BtcUnderlyingProofs -------------------------
(***************************************************************************)
(* Proofs about the BTC/OP20 pool, for any sets of users, keys, inputs and *)
(* bounds, equal tokens included.                                          *)
(***************************************************************************)
EXTENDS BtcUnderlyingProperties, OptionsPoolProofs

USE DEF CALL, PUT, OPEN, PURCHASED, EXERCISED, EXPIRED, CANCELLED, RESERVED

(* The scripts a call is escrowed to: nobody has the buyer's key. *)
EscrowScripts ==
    {Bridge!EscrowScript(PlaceholderBuyer, k, b) : k \in Keys, b \in Nat}

OutputRecord ==
    [script : CsvScripts \cup EscrowScripts, value : Nat, spent : BOOLEAN]

UnderlyingTypeOK ==
    /\ TypeOK
    /\ pubkeys \in [Users -> Keys \cup {NoKey}]
    /\ \A u \in Users : pubkeys[u] \in KeysOf[u] \cup {NoKey}
    /\ utxos \in Seq(OutputRecord)
    /\ tx.from \in Nat
    /\ DOMAIN escrowOf \subseteq DOMAIN options
    /\ \A id \in DOMAIN escrowOf :
          escrowOf[id].script \in EscrowScripts /\ escrowOf[id].amount \in Nat

(* Memberships the type invariant gives. *)
LEMMA UnderlyingBasics ==
    ASSUME UnderlyingTypeOK
    PROVE  /\ TypeOK
           /\ DOMAIN options = 0 .. nextId - 1 /\ nextId \in Nat /\ block \in Nat
           /\ Len(utxos) \in Nat /\ DOMAIN utxos = 1 .. Len(utxos)
           /\ \A i \in 1 .. Len(utxos) : utxos[i] \in OutputRecord
           /\ Amounts \subseteq Nat
           /\ \A id \in DOMAIN options : options[id] \in Option
BY Basics, InputAssumption DEF UnderlyingTypeOK, TypeOK

-----------------------------------------------------------------------------
(* Every option's record only moves along the lifecycle's edges. *)

(* What a step does to the block and the options. *)
LEMMA UnderlyingMoves ==
    ASSUME TypeOK, [UnderlyingNext]_underlyingVars
    PROVE  \/ Continues
           \/ NextBlock
<1>1. ASSUME options' = options, block' = block PROVE Continues
  BY <1>1 DEF Continues
<1>2. CASE UNCHANGED underlyingVars
  BY <1>1, <1>2 DEF underlyingVars, vars
<1>3. CASE UnderlyingNextBlock
  BY <1>3 DEF UnderlyingNextBlock
<1>4. ASSUME NEW id \in DOMAIN options, SettlePut(id) \/ SettleCall(id)
      PROVE  Continues
  BY <1>4, OneCloses DEF SettlePut, SettleCall, Settle, CanSettle, SetStatus
<1>5. ASSUME NEW u \in Users, UnderlyingSignedBy(u) PROVE Continues
  <2>1. ASSUME NEW k, NEW a, NEW p, NEW e, WritePut(u, k, a, p, e)
        PROVE  Continues
    BY <2>1, WriteContinues DEF WritePut, WriteOption
  <2>2. ASSUME NEW k, NEW a, NEW p, NEW e, NEW v, WriteCall(u, k, a, p, e, v)
        PROVE  Continues
    BY <2>2, WriteContinues DEF WriteCall
  <2>3. ASSUME NEW id \in DOMAIN options, CancelPut(u, id) \/ CancelCall(u, id)
        PROVE  Continues
    BY <2>3, OneCloses DEF CancelPut, CancelCall, CancelOption, SetStatus, MayCancel
  <2>4. ASSUME NEW id \in DOMAIN options, UnderlyingBuyOption(u, id)
        PROVE  Continues
    BY <2>4, SaleContinues DEF UnderlyingBuyOption, BuyOption, CanBuy, MayBuy
  <2>5. ASSUME NEW id \in DOMAIN options, ExerciseCall(u, id) PROVE Continues
    BY <2>5, OneCloses DEF ExerciseCall, SetStatus
  <2>6. ASSUME NEW id \in DOMAIN options, NEW v, ExercisePut(u, id, v)
        PROVE  Continues
    BY <2>6, OneCloses DEF ExercisePut, SetStatus
  <2>7. CASE \E k \in KeysOf[u] : RegisterBtcPubkey(u, k)
    BY <1>1, <2>7 DEF RegisterBtcPubkey, vars
  <2>8. CASE \E i \in DOMAIN utxos : SpendEscrow(u, i)
    BY <1>1, <2>8 DEF SpendEscrow, vars
  <2>9. CASE \E new \in FeeRecipients :
                UpdateFeeRecipient(u, new) /\ PlainTransaction(u)
    BY <1>1, <2>9 DEF UpdateFeeRecipient
  <2> QED
    BY <1>5, <2>1, <2>2, <2>3, <2>4, <2>5, <2>6, <2>7, <2>8, <2>9
       DEF UnderlyingSignedBy
<1> QED BY <1>2, <1>3, <1>4, <1>5 DEF UnderlyingNext

(* The terms of an option never change. *)
LEMMA TermsFrozen ==
    ASSUME TypeOK, [UnderlyingNext]_underlyingVars
    PROVE  /\ DOMAIN options \subseteq DOMAIN options'
           /\ \A id \in DOMAIN options : Terms(options'[id]) = Terms(options[id])
<1>1. CASE Continues
  BY <1>1 DEF Continues, Advances
<1>2. CASE NextBlock
  BY <1>2 DEF NextBlock
<1> QED BY <1>1, <1>2, UnderlyingMoves
-----------------------------------------------------------------------------
(* The collateral of the puts. *)

PutPart(o) == IF o.optionType = PUT THEN LockedBy(o, PremiumToken) ELSE 0

PutSurplus == balance[PremiumToken][Pool] - PutsLocked

(* No step takes collateral out for anything but the put it belongs to,    *)
(* and only a fee paid to the pool itself adds to the surplus.             *)
PutsStep ==
    /\ PutSurplus' \in Int
    /\ PutSurplus' >= PutSurplus
    /\ feeRecipient # Pool => PutSurplus' = PutSurplus

(* The sum's terms are natural numbers. *)
LEMMA PutsLockedFacts ==
    ASSUME TypeOK
    PROVE  /\ PutsLocked = SumUpTo([id \in DOMAIN options |->
                                       PutPart(options[id])], nextId)
           /\ [id \in DOMAIN options |-> PutPart(options[id])]
                 \in [0 .. nextId - 1 -> Nat]
           /\ PutsLocked \in Nat
<1> DEFINE f == [id \in DOMAIN options |-> PutPart(options[id])]
<1>1. DOMAIN options = 0 .. nextId - 1 /\ nextId \in Nat
  BY Basics DEF TypeOK
<1>2. f \in [0 .. nextId - 1 -> Nat]
  <2>1. \A id \in DOMAIN options : PutPart(options[id]) \in Nat
    BY Basics, LockedByNat DEF PutPart
  <2> QED BY <1>1, <2>1
<1>3. PutsLocked = SumUpTo(f, nextId)
  BY DEF PutsLocked, PutPart
<1>4. SumUpTo(f, nextId) \in Nat
  <2> HIDE DEF f
  <2> QED BY <1>1, <1>2, SumNat
<1> QED BY <1>2, <1>3, <1>4

(* One record replaced. *)
LEMMA PutsUpdate ==
    ASSUME TypeOK, NEW id \in DOMAIN options, NEW o \in Option,
           options' = [options EXCEPT ![id] = o], nextId' = nextId
    PROVE  PutsLocked' = PutsLocked + PutPart(o) - PutPart(options[id])
<1> DEFINE f == [i \in DOMAIN options |-> PutPart(options[i])]
           h == [i \in DOMAIN options' |-> PutPart(options'[i])]
<1>1. /\ DOMAIN options = 0 .. nextId - 1 /\ nextId \in Nat
      /\ DOMAIN options' = 0 .. nextId - 1
      /\ f \in [0 .. nextId - 1 -> Int]
  BY Basics, PutsLockedFacts DEF TypeOK
<1>2. h \in [0 .. nextId - 1 -> Int]
  <2>1. \A i \in DOMAIN options' : options'[i] \in Option
    BY Basics
  <2>2. \A i \in DOMAIN options' : PutPart(options'[i]) \in Int
    BY <2>1, LockedByNat DEF PutPart
  <2> QED BY <1>1, <2>2
<1>3. \A i \in 0 .. nextId - 1 : i # id => h[i] = f[i]
  BY <1>1
<1>4. h[id] = PutPart(o) /\ f[id] = PutPart(options[id])
  BY <1>1
<1>5. PutsLocked' = SumUpTo(h, nextId) /\ PutsLocked = SumUpTo(f, nextId)
  BY DEF PutsLocked, PutPart
<1> HIDE DEF f, h
<1> QED BY <1>1, <1>2, <1>3, <1>4, <1>5, SumUpdate

(* One record added. *)
LEMMA PutsExtend ==
    ASSUME TypeOK, NEW o \in Option,
           options' = Extended(options, o), nextId' = nextId + 1
    PROVE  PutsLocked' = PutsLocked + PutPart(o)
<1> DEFINE f == [i \in DOMAIN options |-> PutPart(options[i])]
           h == [i \in DOMAIN options' |-> PutPart(options'[i])]
<1>1. /\ DOMAIN options = 0 .. nextId - 1 /\ nextId \in Nat
      /\ options \in [0 .. nextId - 1 -> Option]
      /\ f \in [0 .. nextId - 1 -> Int]
  BY Basics, PutsLockedFacts DEF TypeOK
<1>2. /\ options' \in [0 .. nextId -> Option] /\ options'[nextId] = o
      /\ \A i \in 0 .. nextId - 1 : options'[i] = options[i]
  BY <1>1, ExtendedType
<1>3. h \in [0 .. nextId -> Int]
  <2>1. \A i \in DOMAIN options' : PutPart(options'[i]) \in Int
    BY <1>2, LockedByNat DEF PutPart
  <2> QED BY <1>2, <2>1
<1>4. \A i \in 0 .. nextId - 1 : h[i] = f[i]
  BY <1>1, <1>2
<1>5. h[nextId] = PutPart(o)
  BY <1>1, <1>2
<1>6. PutsLocked' = SumUpTo(h, nextId + 1) /\ PutsLocked = SumUpTo(f, nextId)
  BY DEF PutsLocked, PutPart
<1> HIDE DEF f, h
<1> QED BY <1>1, <1>3, <1>4, <1>5, <1>6, SumExtend

(* The sides of the surplus are numbers, before and after. *)
LEMMA PutSurplusType ==
    ASSUME TypeOK
    PROVE  balance[PremiumToken][Pool] \in Nat /\ PutsLocked \in Nat
BY Basics, LockedNat, PutsLockedFacts

(* Replacing a record by one that locks as much less as the pool pays out. *)
LEMMA PutsSingle ==
    ASSUME TypeOK, NEW id \in DOMAIN options, NEW o \in Option,
           options' = [options EXCEPT ![id] = o],
           block' = block, nextId' = nextId, feeRecipient' = feeRecipient,
           balance' \in [Tokens -> Ledgers],
           balance'[PremiumToken][Pool] >= balance[PremiumToken][Pool]
                                             + PutPart(o) - PutPart(options[id]),
           feeRecipient # Pool =>
               balance'[PremiumToken][Pool] = balance[PremiumToken][Pool]
                                             + PutPart(o) - PutPart(options[id])
    PROVE  TypeOK' /\ PutsStep
<1>1. TypeOK'
  BY DEF TypeOK, Ledgers
<1>2. PutsLocked' = PutsLocked + PutPart(o) - PutPart(options[id])
  BY PutsUpdate
<1>3. PutPart(o) \in Nat /\ PutPart(options[id]) \in Nat
  BY Basics, LockedByNat DEF PutPart
<1>4. balance[PremiumToken][Pool] \in Nat /\ PutsLocked \in Nat
  BY PutSurplusType
<1>5. balance'[PremiumToken][Pool] \in Nat
  BY Basics DEF Ledgers
<1> QED BY <1>1, <1>2, <1>3, <1>4, <1>5 DEF PutsStep, PutSurplus

(* A step that touches neither the records nor the pool's account. *)
LEMMA PutsQuiet ==
    ASSUME TypeOK, UNCHANGED <<nextId, options, balance>>,
           block' \in Nat, feeRecipient' \in Addresses
    PROVE  TypeOK' /\ PutsStep
<1>1. TypeOK'
  BY QuietStep
<1>2. PutSurplus' = PutSurplus
  BY DEF PutSurplus, PutsLocked, LockedBy, Live, CollateralToken, Collateral,
         StrikeValue
<1>3. PutSurplus \in Int
  BY PutSurplusType DEF PutSurplus
<1> QED BY <1>1, <1>2, <1>3 DEF PutsStep

(* Where the type 0 step lemma speaks of all the collateral, a put's part  *)
(* changes by the same amount.                                             *)
LEMMA PutsAsBefore ==
    ASSUME TypeOK, TypeOK', EscrowStep(PremiumToken), NEW d \in Int,
           PutsLocked' = PutsLocked + d,
           Locked(PremiumToken)' = Locked(PremiumToken) + d
    PROVE  TypeOK' /\ PutsStep
<1>1. /\ balance[PremiumToken][Pool] \in Nat /\ PutsLocked \in Nat
      /\ Locked(PremiumToken) \in Nat
  BY PutSurplusType, LockedNat, Basics
<1>2. balance'[PremiumToken][Pool] \in Nat
  BY Basics DEF TypeOK
<1> QED BY <1>1, <1>2 DEF PutsStep, EscrowStep, Surplus, PutSurplus

(* writeOptionBtc of a put. *)
LEMMA WritePutStep ==
    ASSUME TypeOK, NEW w \in Users, NEW k \in Strikes, NEW a \in Amounts,
           NEW p \in Premiums, NEW e \in Nat, WritePut(w, k, a, p, e)
    PROVE  TypeOK' /\ PutsStep
<1> DEFINE o == NewOption(w, PUT, k, a, p, e)
<1>1. WriteOption(w, PUT, k, a, p, e) /\ PUT \in OptionTypes
  BY DEF WritePut, OptionTypes
<1>2. o \in Option /\ o.optionType = PUT
  BY <1>1, NewOptionType, InputAssumption DEF NewOption
<1>3. /\ TypeOK' /\ EscrowStep(PremiumToken)
      /\ options' = Extended(options, o) /\ nextId' = nextId + 1
  BY <1>1, WriteStep, Basics DEF WriteOption
<1> HIDE DEF o
<1>4. PutsLocked' = PutsLocked + LockedBy(o, PremiumToken)
  BY <1>2, <1>3, PutsExtend DEF PutPart
<1>5. Locked(PremiumToken)' = Locked(PremiumToken) + LockedBy(o, PremiumToken)
  <2>1. /\ nextId \in Nat /\ options \in [0 .. nextId - 1 -> Option]
        /\ options' \in [0 .. nextId -> Option] /\ options'[nextId] = o
        /\ \A i \in 0 .. nextId - 1 : options'[i] = options[i]
    BY <1>2, <1>3, ExtendedType DEF TypeOK
  <2>2. LockedIn(options', nextId + 1, PremiumToken) =
          LockedIn(options, nextId, PremiumToken)
            + LockedBy(options'[nextId], PremiumToken)
    BY <2>1, LockedExtend
  <2> QED BY <1>3, <2>1, <2>2 DEF Locked
<1>6. LockedBy(o, PremiumToken) \in Int
  BY <1>2, LockedByNat
<1> QED BY <1>3, <1>4, <1>5, <1>6, PutsAsBefore

(* One record replaced, of a put or by one that locks the same. *)
LEMMA PutsReplaced ==
    ASSUME TypeOK, TypeOK', EscrowStep(PremiumToken),
           NEW id \in DOMAIN options, NEW o \in Option,
           options' = [options EXCEPT ![id] = o], nextId' = nextId,
           o.optionType = options[id].optionType,
           \/ options[id].optionType = PUT
           \/ LockedBy(o, PremiumToken) = LockedBy(options[id], PremiumToken)
    PROVE  TypeOK' /\ PutsStep
<1> DEFINE d == LockedBy(o, PremiumToken) - LockedBy(options[id], PremiumToken)
<1>1. /\ LockedBy(o, PremiumToken) \in Nat
      /\ LockedBy(options[id], PremiumToken) \in Nat
      /\ PutsLocked \in Nat /\ Locked(PremiumToken) \in Nat
  BY Basics, LockedByNat, PutSurplusType, LockedNat
<1>2. PutsLocked' = PutsLocked + d
  <2>1. PutsLocked' = PutsLocked + PutPart(o) - PutPart(options[id])
    BY PutsUpdate
  <2>2. PutPart(o) - PutPart(options[id]) = d
    BY <1>1 DEF PutPart
  <2>3. PutPart(o) \in Int /\ PutPart(options[id]) \in Int
    BY <1>1 DEF PutPart
  <2> HIDE DEF d
  <2> QED BY <1>1, <2>1, <2>2, <2>3
<1>3. Locked(PremiumToken)' = Locked(PremiumToken) + d
  <2>0. /\ nextId \in Nat /\ options \in [0 .. nextId - 1 -> Option]
        /\ id \in 0 .. nextId - 1
    BY Basics DEF TypeOK
  <2>1. LockedIn([options EXCEPT ![id] = o], nextId, PremiumToken) =
          LockedIn(options, nextId, PremiumToken)
            + LockedBy(o, PremiumToken) - LockedBy(options[id], PremiumToken)
    BY <2>0, LockedUpdate
  <2> QED BY <1>1, <2>1 DEF Locked
<1>4. d \in Int
  BY <1>1
<1> HIDE DEF d
<1> QED BY <1>2, <1>3, <1>4, PutsAsBefore

(* cancelOption and settle of a put. *)
LEMMA ClosePutStep ==
    ASSUME TypeOK, NEW u \in Users, NEW id \in DOMAIN options,
           CancelPut(u, id) \/ SettlePut(id)
    PROVE  TypeOK' /\ PutsStep
<1>1. /\ CancelOption(u, id) \/ Settle(id)
      /\ options[id].optionType = PUT /\ nextId' = nextId
  BY DEF CancelPut, SettlePut, CancelOption, Settle
<1>2. TypeOK' /\ EscrowStep(PremiumToken)
  BY <1>1, CancelStep, SettleStep, Basics
<1>3. PICK s \in {CANCELLED, EXPIRED} :
         options' = [options EXCEPT ![id].status = s]
  BY <1>1 DEF CancelOption, Settle, SetStatus
<1> DEFINE o == [options[id] EXCEPT !.status = s]
<1>4. options' = [options EXCEPT ![id] = o] /\ o \in Option
  BY <1>3, ClosedRecord
<1>5. o.optionType = options[id].optionType
  BY Basics DEF Option
<1> HIDE DEF o
<1> QED BY <1>1, <1>2, <1>4, <1>5, PutsReplaced

(* buyOption: the record locks what it locked. *)
LEMMA UnderlyingBuyStep ==
    ASSUME TypeOK, NEW u \in Users, NEW id \in DOMAIN options,
           UnderlyingBuyOption(u, id)
    PROVE  TypeOK' /\ PutsStep
<1> DEFINE o == [options[id] EXCEPT !.buyer = u, !.status = PURCHASED]
<1>1. /\ BuyOption(u, id) /\ nextId' = nextId
      /\ options' = [options EXCEPT ![id] = o] /\ options[id].status = OPEN
  BY DEF UnderlyingBuyOption, BuyOption, CanBuy, MayBuy
<1>2. TypeOK' /\ EscrowStep(PremiumToken)
  BY <1>1, BuyStep, Basics
<1>3. options[id] \in Option
  BY Basics
<1>4. /\ o \in Option /\ o.optionType = options[id].optionType
      /\ LockedBy(o, PremiumToken) = LockedBy(options[id], PremiumToken)
  BY <1>1, <1>3 DEF Option, Statuses, Addresses, LockedBy, Live,
                    CollateralToken, Collateral, StrikeValue
<1> HIDE DEF o
<1> QED BY <1>1, <1>2, <1>4, PutsReplaced
(* writeOptionBtc of a call, which moves no token. *)
LEMMA WriteCallStep ==
    ASSUME TypeOK, NEW w \in Users, NEW k \in Strikes, NEW a \in Amounts,
           NEW p \in Premiums, NEW e \in Nat, NEW v,
           WriteCall(w, k, a, p, e, v)
    PROVE  TypeOK' /\ PutsStep
<1> DEFINE o == NewOption(w, CALL, k, a, p, e)
<1>1. CALL \in OptionTypes
  BY DEF OptionTypes
<1>2. o \in Option /\ o.optionType = CALL
  BY <1>1, NewOptionType, InputAssumption DEF NewOption
<1>3. /\ options' = Extended(options, o) /\ nextId' = nextId + 1
      /\ UNCHANGED <<block, balance, feeRecipient>>
  BY DEF WriteCall
<1> HIDE DEF o
<1>4. PutsLocked' = PutsLocked + 0
  BY <1>2, <1>3, PutsExtend DEF PutPart
<1>5. TypeOK'
  <2>1. options' \in [0 .. nextId -> Option]
    BY <1>2, <1>3, ExtendedType DEF TypeOK
  <2>2. nextId' \in Nat /\ nextId' - 1 = nextId
    BY <1>3 DEF TypeOK
  <2> QED BY <1>3, <2>1, <2>2 DEF TypeOK
<1>6. PutsLocked \in Nat /\ balance[PremiumToken][Pool] \in Nat
  BY PutSurplusType
<1> QED BY <1>3, <1>4, <1>5, <1>6 DEF PutsStep, PutSurplus

(* cancelOption and settle of a call: its bitcoin is not the pool's. *)
LEMMA CloseCallStep ==
    ASSUME TypeOK, NEW u \in Users, NEW id \in DOMAIN options,
           CancelCall(u, id) \/ SettleCall(id)
    PROVE  TypeOK' /\ PutsStep
<1>1. /\ options[id].optionType = CALL
      /\ UNCHANGED <<block, nextId, balance, feeRecipient>>
  BY DEF CancelCall, SettleCall
<1>2. PICK s \in {CANCELLED, EXPIRED} :
         options' = [options EXCEPT ![id].status = s]
  BY DEF CancelCall, SettleCall, SetStatus
<1> DEFINE o == [options[id] EXCEPT !.status = s]
<1>3. options' = [options EXCEPT ![id] = o] /\ o \in Option
  BY <1>2, ClosedRecord
<1>4. PutPart(o) = 0 /\ PutPart(options[id]) = 0
  BY <1>1, Basics DEF PutPart, Option
<1>5. balance \in [Tokens -> Ledgers] /\ balance[PremiumToken][Pool] \in Nat
  BY Basics, PutSurplusType
<1>6. /\ balance' = balance
      /\ balance[PremiumToken][Pool] = balance[PremiumToken][Pool]
                                         + PutPart(o) - PutPart(options[id])
  BY <1>1, <1>4, <1>5
<1>7. balance' \in [Tokens -> Ledgers]
  BY <1>5, <1>6
<1>8. balance'[PremiumToken][Pool] = balance[PremiumToken][Pool]
                                         + PutPart(o) - PutPart(options[id])
  BY <1>6
<1>9. balance'[PremiumToken][Pool] >= balance[PremiumToken][Pool]
                                         + PutPart(o) - PutPart(options[id])
  BY <1>5, <1>6, <1>8
<1> HIDE DEF o
<1> QED BY <1>1, <1>3, <1>7, <1>8, <1>9, PutsSingle

(* A caller pays a user and then a fee: the pool's accounts only see a fee *)
(* that is directed to the pool.                                           *)
LEMMA PaymentWithFee ==
    ASSUME NEW b \in [Tokens -> Ledgers], NEW t \in Tokens,
           NEW from \in Users, NEW to \in Users, NEW r \in Addresses,
           NEW c \in Nat, NEW fee \in 0..c, Affords(b, t, from, c),
           NEW n, n = Pay(Pay(b, t, from, to, c - fee), t, from, r, fee)
    PROVE  /\ n \in [Tokens -> Ledgers]
           /\ \A u \in Tokens : n[u][Pool] =
                b[u][Pool] + (IF u = t /\ r = Pool THEN fee ELSE 0)
<1> DEFINE m == Pay(b, t, from, to, c - fee)
<1>1. /\ from \in Addresses /\ to \in Addresses /\ Pool \in Addresses
      /\ from # Pool /\ to # Pool
  BY AddressAssumption DEF Addresses
<1>2. /\ \A u \in Tokens : b[u][Pool] \in Nat
      /\ b[t][from] \in Nat /\ b[t][from] >= c
      /\ c - fee \in Nat /\ fee \in Nat
  BY <1>1 DEF Ledgers, Affords, CanPay
<1>3. Affords(b, t, from, c - fee)
  BY <1>2 DEF Affords, CanPay
<1>4. /\ m \in [Tokens -> Ledgers]
      /\ \A u \in Tokens : m[u][Pool] = b[u][Pool]
  BY <1>2, <1>3, UserPayment
<1>5. m[t][from] >= fee
  <2>1. m[t][from] = b[t][from] - (IF t = t /\ from = from THEN c - fee ELSE 0)
                       + (IF t = t /\ from = to THEN c - fee ELSE 0)
    BY <1>1, <1>2, <1>3, PayFacts
  <2> HIDE DEF m
  <2> QED BY <1>2, <2>1
<1>6. n = Pay(m, t, from, r, fee)
  OBVIOUS
<1> HIDE DEF m
<1>7. Affords(m, t, from, fee)
  BY <1>5 DEF Affords, CanPay
<1>8. /\ n \in [Tokens -> Ledgers]
      /\ \A u \in Tokens, a \in Addresses :
           n[u][a] = m[u][a] - (IF u = t /\ a = from THEN fee ELSE 0)
                             + (IF u = t /\ a = r THEN fee ELSE 0)
  BY <1>1, <1>2, <1>4, <1>6, <1>7, PayFacts
<1> QED BY <1>1, <1>2, <1>4, <1>8

(* exercise of a call: the strike passes between users. *)
LEMMA UnderlyingExerciseCallStep ==
    ASSUME TypeOK, NEW u \in Users, NEW id \in DOMAIN options,
           ExerciseCall(u, id)
    PROVE  TypeOK' /\ PutsStep
<1> DEFINE o == options[id]
           n == [o EXCEPT !.status = EXERCISED]
           strike == StrikeValue(o)
           fee == FeeOf(strike, EXERCISE_FEE_BPS)
<1>1. /\ o \in Option /\ o.optionType = CALL /\ o.writer \in Users
      /\ strike \in Nat /\ fee \in 0..strike
  BY Basics, AmountsNat, FeeBounds DEF ExerciseCall
<1>2. /\ options' = [options EXCEPT ![id] = n] /\ n \in Option
  BY ClosedRecord DEF ExerciseCall, SetStatus
<1>3. PutPart(n) = 0 /\ PutPart(o) = 0
  BY <1>1 DEF PutPart, Option
<1>4. /\ Affords(balance, PremiumToken, u, strike)
      /\ balance' = Pay(Pay(balance, PremiumToken, u, o.writer, strike - fee),
                        PremiumToken, u, feeRecipient, fee)
      /\ block' = block /\ nextId' = nextId /\ feeRecipient' = feeRecipient
  BY DEF ExerciseCall
<1>5. /\ feeRecipient \in Addresses /\ balance \in [Tokens -> Ledgers]
      /\ PremiumToken \in Tokens /\ balance[PremiumToken][Pool] \in Nat
  BY Basics, PutSurplusType
<1>6. /\ balance' \in [Tokens -> Ledgers]
      /\ balance'[PremiumToken][Pool] = balance[PremiumToken][Pool]
            + (IF feeRecipient = Pool THEN fee ELSE 0)
  <2> HIDE DEF o, n, strike, fee
  <2>1. PICK n2 : n2 = balance'
    OBVIOUS
  <2>2. n2 = Pay(Pay(balance, PremiumToken, u, o.writer, strike - fee),
                 PremiumToken, u, feeRecipient, fee)
    BY <1>4, <2>1
  <2>3. /\ n2 \in [Tokens -> Ledgers]
        /\ \A t \in Tokens : n2[t][Pool] = balance[t][Pool]
              + (IF t = PremiumToken /\ feeRecipient = Pool THEN fee ELSE 0)
    BY <1>1, <1>4, <1>5, <2>2, PaymentWithFee
  <2> QED BY <1>5, <2>1, <2>3
<1>7. PutPart(options[id]) = 0
  BY <1>3
<1>8. /\ balance'[PremiumToken][Pool] >= balance[PremiumToken][Pool]
                                           + PutPart(n) - PutPart(options[id])
      /\ feeRecipient # Pool =>
           balance'[PremiumToken][Pool] = balance[PremiumToken][Pool]
                                           + PutPart(n) - PutPart(options[id])
  <2> HIDE DEF n, fee
  <2> QED BY <1>1, <1>3, <1>5, <1>6, <1>7
<1> HIDE DEF n
<1> QED BY <1>2, <1>4, <1>6, <1>8, PutsSingle

(* exercise of a put: the pool pays out the strike it holds for it. *)
LEMMA ExercisePutStep ==
    ASSUME TypeOK, NEW u \in Users, NEW id \in DOMAIN options, NEW v,
           ExercisePut(u, id, v)
    PROVE  TypeOK' /\ PutsStep
<1> DEFINE o == options[id]
           n == [o EXCEPT !.status = EXERCISED]
           strike == StrikeValue(o)
           fee == FeeOf(strike, EXERCISE_FEE_BPS)
<1>1. /\ o \in Option /\ o.optionType = PUT /\ o.status = PURCHASED
      /\ strike \in Nat /\ fee \in 0..strike
  BY Basics, AmountsNat, FeeBounds DEF ExercisePut
<1>2. /\ options' = [options EXCEPT ![id] = n] /\ n \in Option
      /\ LockedBy(n, PremiumToken) = 0
  BY ClosedRecord, Basics DEF ExercisePut, SetStatus
<1>3. PutPart(n) = 0 /\ PutPart(o) = strike
  BY <1>1, <1>2 DEF PutPart, LockedBy, Live, CollateralToken, Collateral
<1>4. /\ Affords(balance, PremiumToken, Pool, strike)
      /\ balance' = Pay(Pay(balance, PremiumToken, Pool, u, strike - fee),
                        PremiumToken, Pool, feeRecipient, fee)
      /\ block' = block /\ nextId' = nextId /\ feeRecipient' = feeRecipient
  BY DEF ExercisePut
<1>5. /\ feeRecipient \in Addresses /\ balance \in [Tokens -> Ledgers]
      /\ PremiumToken \in Tokens /\ balance[PremiumToken][Pool] \in Nat
  BY Basics, PutSurplusType
<1> HIDE DEF o, n, strike, fee
<1>6. /\ balance' \in [Tokens -> Ledgers]
      /\ \A t \in Tokens : balance'[t][Pool] =
            balance[t][Pool] - (IF t = PremiumToken THEN strike ELSE 0)
                + (IF t = PremiumToken /\ feeRecipient = Pool THEN fee ELSE 0)
  BY <1>1, <1>4, <1>5, PayoutWithFee
<1>7. PutPart(options[id]) = strike
  BY <1>3 DEF o
<1>8. balance'[PremiumToken][Pool] = balance[PremiumToken][Pool] - strike
                                       + (IF feeRecipient = Pool THEN fee ELSE 0)
  BY <1>5, <1>6
<1>9. /\ balance'[PremiumToken][Pool] >= balance[PremiumToken][Pool]
                                           + PutPart(n) - PutPart(options[id])
      /\ feeRecipient # Pool =>
           balance'[PremiumToken][Pool] = balance[PremiumToken][Pool]
                                           + PutPart(n) - PutPart(options[id])
  BY <1>1, <1>3, <1>5, <1>7, <1>8
<1> QED BY <1>2, <1>4, <1>6, <1>9, PutsSingle

(* Every step. *)
LEMMA PutsEscrow ==
    ASSUME TypeOK, [UnderlyingNext]_underlyingVars
    PROVE  TypeOK' /\ PutsStep
<1>1. CASE UNCHANGED underlyingVars
  BY <1>1, PutsQuiet DEF underlyingVars, vars, TypeOK
<1>2. CASE UnderlyingNextBlock
  BY <1>2, PutsQuiet DEF UnderlyingNextBlock, NextBlock, TypeOK
<1>3. ASSUME NEW u \in Users, UnderlyingSignedBy(u)
      PROVE  TypeOK' /\ PutsStep
  <2>1. CASE \E k \in Strikes, a \in Amounts, p \in Premiums, e \in Expiries :
                WritePut(u, k, a, p, e)
    BY <2>1, WritePutStep DEF Expiries
  <2>2. CASE \E k \in Strikes, a \in Amounts, p \in Premiums, e \in Expiries,
                v \in Amounts : WriteCall(u, k, a, p, e, v)
    BY <2>2, WriteCallStep DEF Expiries
  <2>3. CASE \E id \in DOMAIN options : CancelPut(u, id)
    BY <2>3, ClosePutStep
  <2>4. CASE \E id \in DOMAIN options : CancelCall(u, id)
    BY <2>4, CloseCallStep
  <2>5. CASE \E id \in DOMAIN options : UnderlyingBuyOption(u, id)
    BY <2>5, UnderlyingBuyStep
  <2>6. CASE \E id \in DOMAIN options : ExerciseCall(u, id)
    BY <2>6, UnderlyingExerciseCallStep
  <2>7. CASE \E id \in DOMAIN options, v \in Amounts : ExercisePut(u, id, v)
    BY <2>7, ExercisePutStep
  <2>8. CASE \E k \in KeysOf[u] : RegisterBtcPubkey(u, k)
    BY <2>8, PutsQuiet DEF RegisterBtcPubkey, vars, TypeOK
  <2>9. CASE \E i \in DOMAIN utxos : SpendEscrow(u, i)
    BY <2>9, PutsQuiet DEF SpendEscrow, vars, TypeOK
  <2>10. CASE \E new \in FeeRecipients :
                 UpdateFeeRecipient(u, new) /\ PlainTransaction(u)
    BY <2>10, PutsQuiet, AddressAssumption DEF UpdateFeeRecipient, TypeOK
  <2> QED
    BY <1>3, <2>1, <2>2, <2>3, <2>4, <2>5, <2>6, <2>7, <2>8, <2>9, <2>10
       DEF UnderlyingSignedBy
<1>4. ASSUME NEW id \in DOMAIN options, SettlePut(id) \/ SettleCall(id)
      PROVE  TypeOK' /\ PutsStep
  <2>1. options[id].writer \in Users
    BY Basics
  <2> QED BY <1>4, <2>1, ClosePutStep, CloseCallStep
<1> QED BY <1>1, <1>2, <1>3, <1>4 DEF UnderlyingNext

(* The inductive invariant of PutsBacked: the fee role only goes to        *)
(* FeeRecipients, so when the pool is not among them no fee comes back.    *)
PutsExact ==
    /\ TypeOK
    /\ feeRecipient \in FeeRecipients
    /\ PutSurplus >= 0
    /\ Pool \notin FeeRecipients => PutSurplus = 0

(* Only updateFeeRecipient changes the role. *)
LEMMA RecipientStep ==
    ASSUME feeRecipient \in FeeRecipients, [UnderlyingNext]_underlyingVars
    PROVE  feeRecipient' \in FeeRecipients
<1>1. CASE UNCHANGED underlyingVars
  BY <1>1 DEF underlyingVars, vars
<1>2. CASE UnderlyingNextBlock
  BY <1>2 DEF UnderlyingNextBlock, NextBlock
<1>3. ASSUME NEW id, SettlePut(id) \/ SettleCall(id)
      PROVE  feeRecipient' = feeRecipient
  BY <1>3 DEF SettlePut, SettleCall, Settle
<1>4. ASSUME NEW u \in Users, UnderlyingSignedBy(u)
      PROVE  feeRecipient' \in FeeRecipients
  <2>1. CASE \E new \in FeeRecipients :
                UpdateFeeRecipient(u, new) /\ PlainTransaction(u)
    BY <2>1 DEF UpdateFeeRecipient
  <2>2. ASSUME NEW k, NEW a, NEW p, NEW e, NEW v,
               WritePut(u, k, a, p, e) \/ WriteCall(u, k, a, p, e, v)
        PROVE  feeRecipient' = feeRecipient
    BY <2>2 DEF WritePut, WriteOption, WriteCall
  <2>3. ASSUME NEW id, NEW v,
               \/ CancelPut(u, id) \/ CancelCall(u, id)
               \/ UnderlyingBuyOption(u, id)
               \/ ExerciseCall(u, id) \/ ExercisePut(u, id, v)
        PROVE  feeRecipient' = feeRecipient
    BY <2>3 DEF CancelPut, CancelOption, CancelCall, UnderlyingBuyOption,
                BuyOption, ExerciseCall, ExercisePut
  <2>4. ASSUME NEW k, NEW i, RegisterBtcPubkey(u, k) \/ SpendEscrow(u, i)
        PROVE  feeRecipient' = feeRecipient
    BY <2>4 DEF RegisterBtcPubkey, SpendEscrow, vars
  <2> QED BY <1>4, <2>1, <2>2, <2>3, <2>4 DEF UnderlyingSignedBy
<1> QED BY <1>1, <1>2, <1>3, <1>4 DEF UnderlyingNext

(* Nothing is written at deployment. *)
LEMMA UnderlyingInitState ==
    ASSUME UnderlyingInit
    PROVE  PutsExact
<1>1. TypeOK /\ feeRecipient \in FeeRecipients
  BY InitState DEF UnderlyingInit
<1>2. nextId = 0 /\ balance[PremiumToken][Pool] = 0
  BY DEF UnderlyingInit, Init, Addresses, Tokens
<1>3. PutsLocked = 0
  <2> DEFINE f == [id \in DOMAIN options |-> PutPart(options[id])]
  <2>1. f \in [0 .. -1 -> Nat] /\ PutsLocked = SumUpTo(f, 0)
    BY <1>1, <1>2, PutsLockedFacts
  <2>2. f \in [0 .. -1 -> Int]
    BY <2>1
  <2> HIDE DEF f
  <2> QED BY <2>1, <2>2, SumEmpty
<1> QED BY <1>1, <1>2, <1>3 DEF PutsExact, PutSurplus

(* The invariant holds throughout. *)
LEMMA PutsInvariant == UnderlyingSpec => []PutsExact
<1>1. UnderlyingInit => PutsExact
  BY UnderlyingInitState
<1>2. PutsExact /\ [UnderlyingNext]_underlyingVars => PutsExact'
  <2> SUFFICES ASSUME PutsExact, [UnderlyingNext]_underlyingVars
               PROVE  PutsExact'
    OBVIOUS
  <2>1. TypeOK' /\ PutsStep
    BY PutsEscrow DEF PutsExact
  <2>2. feeRecipient' \in FeeRecipients
    BY RecipientStep DEF PutsExact
  <2>3. PutSurplus \in Int
    BY PutSurplusType DEF PutsExact, PutSurplus
  <2>4. PutSurplus' >= 0
    BY <2>1, <2>3 DEF PutsStep, PutsExact
  <2>5. Pool \notin FeeRecipients => PutSurplus' = 0
    BY <2>1, <2>3 DEF PutsStep, PutsExact
  <2> QED BY <2>1, <2>2, <2>4, <2>5 DEF PutsExact
<1> QED BY <1>1, <1>2, PTL DEF UnderlyingSpec

(* Whatever its calls do, the pool holds the strike value of every live    *)
(* put, and exactly that unless fees are directed to the pool itself.      *)
THEOREM PutsAreBacked == UnderlyingSpec => []PutsBacked
<1>1. PutsExact => PutsBacked
  BY PutSurplusType DEF PutsExact, PutsBacked, PutSurplus
<1> QED BY <1>1, PutsInvariant, PTL

(* The type 2 pool makes the moves of the lifecycle and no others.         *)
THEOREM UnderlyingPoolImplementsLifecycle ==
    UnderlyingSpec => UnderlyingImplementsLifecycle
<1>1. UnderlyingInit => Lifecycle!Init
  <2> SUFFICES ASSUME UnderlyingInit PROVE Lifecycle!Init
    OBVIOUS
  <2>1. block \in Nat /\ DOMAIN options = {}
    BY DEF UnderlyingInit, Init
  <2> QED BY <2>1 DEF Lifecycle!Init
<1>2. TypeOK /\ [UnderlyingNext]_underlyingVars
        => [Lifecycle!Next]_(Lifecycle!lifecycleVars)
  <2> SUFFICES ASSUME TypeOK, [UnderlyingNext]_underlyingVars
               PROVE  [Lifecycle!Next]_(Lifecycle!lifecycleVars)
    OBVIOUS
  <2>1. CASE Continues
    BY <2>1, ContinuesIsTransact DEF Lifecycle!Next
  <2>2. CASE NextBlock
    BY <2>2, BlockTicks DEF Lifecycle!Next
  <2> QED BY <2>1, <2>2, UnderlyingMoves
<1>3. PutsExact => TypeOK
  BY DEF PutsExact
<1> QED
  BY <1>1, <1>2, <1>3, PutsInvariant, PTL
     DEF UnderlyingSpec, UnderlyingImplementsLifecycle, Lifecycle!Spec
-----------------------------------------------------------------------------
(* Sums over the outputs and the options. *)

(* A sum of zeros is zero. *)
LEMMA SumZero ==
    ASSUME NEW n \in Nat, NEW f \in [0 .. n-1 -> Int],
           \A i \in 0 .. n-1 : f[i] = 0
    PROVE  SumUpTo(f, n) = 0
<1>1. \A i \in 0 .. n-1 : f[i] = f[i] + f[i]
  OBVIOUS
<1>2. SumUpTo(f, n) = SumUpTo(f, n) + SumUpTo(f, n)
  BY <1>1, SumAdd
<1>3. SumUpTo(f, n) \in Int
  BY SumType
<1> QED BY <1>2, <1>3

(* PaidTo as a function of the outputs. *)
PaidPart(out, S) == IF out.script \in S THEN out.value ELSE 0
PaidIn(q, S) ==
    SumUpTo([i \in 0 .. Len(q) - 1 |-> PaidPart(q[i + 1], S)], Len(q))

(* It is what PaidTo says of the outputs made so far. *)
LEMMA PaidToIs == \A S : PaidTo(S) = PaidIn(utxos, S)
BY DEF PaidTo, PaidIn, PaidPart

(* The outputs' values are naturals, and so is their sum. *)
LEMMA PaidType ==
    ASSUME NEW q \in Seq(OutputRecord), NEW S
    PROVE  /\ [i \in 0 .. Len(q) - 1 |-> PaidPart(q[i + 1], S)]
                 \in [0 .. Len(q) - 1 -> Nat]
           /\ PaidIn(q, S) \in Nat
<1> DEFINE f == [i \in 0 .. Len(q) - 1 |-> PaidPart(q[i + 1], S)]
<1>1. Len(q) \in Nat /\ \A i \in 0 .. Len(q) - 1 : q[i + 1] \in OutputRecord
  OBVIOUS
<1>2. f \in [0 .. Len(q) - 1 -> Nat]
  BY <1>1 DEF PaidPart, OutputRecord
<1>3. SumUpTo(f, Len(q)) \in Nat
  <2> HIDE DEF f
  <2> QED BY <1>1, <1>2, SumNat
<1> QED BY <1>2, <1>3 DEF PaidIn

(* An output more. *)
LEMMA PaidAppend ==
    ASSUME NEW q \in Seq(OutputRecord), NEW out \in OutputRecord, NEW S
    PROVE  PaidIn(Append(q, out), S) = PaidIn(q, S) + PaidPart(out, S)
<1> DEFINE r == Append(q, out)
           f == [i \in 0 .. Len(q) - 1 |-> PaidPart(q[i + 1], S)]
           h == [i \in 0 .. Len(q) |-> PaidPart(r[i + 1], S)]
<1>1. /\ Len(q) \in Nat /\ Len(r) = Len(q) + 1 /\ r \in Seq(OutputRecord)
      /\ \A i \in 1 .. Len(q) : r[i] = q[i]
      /\ r[Len(q) + 1] = out
  OBVIOUS
<1>2. f \in [0 .. Len(q) - 1 -> Int]
  <2>1. f \in [0 .. Len(q) - 1 -> Nat]
    BY PaidType
  <2> QED BY <2>1
<1>3. h \in [0 .. Len(q) -> Int]
  <2>1. [i \in 0 .. Len(r) - 1 |-> PaidPart(r[i + 1], S)]
           \in [0 .. Len(r) - 1 -> Nat]
    <3> HIDE DEF r
    <3> QED BY <1>1, PaidType
  <2>2. Len(r) - 1 = Len(q)
    BY <1>1
  <2> QED BY <2>1, <2>2
<1>4. \A i \in 0 .. Len(q) - 1 : h[i] = f[i]
  <2> SUFFICES ASSUME NEW i \in 0 .. Len(q) - 1
               PROVE  h[i] = f[i]
    OBVIOUS
  <2>1. r[i + 1] = q[i + 1] /\ i \in 0 .. Len(q)
    BY <1>1
  <2> HIDE DEF r
  <2> QED BY <2>1
<1>5. h[Len(q)] = PaidPart(out, S)
  <2> HIDE DEF r
  <2> QED BY <1>1
<1>6. PaidIn(r, S) = SumUpTo(h, Len(q) + 1) /\ PaidIn(q, S) = SumUpTo(f, Len(q))
  <2>1. Len(r) - 1 = Len(q)
    BY <1>1
  <2> HIDE DEF r
  <2> QED BY <1>1, <2>1 DEF PaidIn
<1> HIDE DEF f, h, r
<1>7. SumUpTo(h, Len(q) + 1) = SumUpTo(f, Len(q)) + h[Len(q)]
  BY <1>1, <1>2, <1>3, <1>4, SumExtend
<1> QED BY <1>5, <1>6, <1>7 DEF r

(* Spending an output leaves what was paid. *)
LEMMA PaidSpent ==
    ASSUME NEW q \in Seq(OutputRecord), NEW i \in 1 .. Len(q), NEW S
    PROVE  PaidIn([q EXCEPT ![i].spent = TRUE], S) = PaidIn(q, S)
<1> DEFINE r == [q EXCEPT ![i].spent = TRUE]
<1>1. Len(r) = Len(q)
  OBVIOUS
<1>2. \A j \in 0 .. Len(q) - 1 : PaidPart(r[j + 1], S) = PaidPart(q[j + 1], S)
  BY DEF PaidPart, OutputRecord
<1> HIDE DEF r
<1>3. [j \in 0 .. Len(r) - 1 |-> PaidPart(r[j + 1], S)]
        = [j \in 0 .. Len(q) - 1 |-> PaidPart(q[j + 1], S)]
  BY <1>1, <1>2
<1> QED BY <1>1, <1>3 DEF PaidIn, r

(* What an exercised put of writer w was to bring him. *)
PutPaid(o, w) ==
    IF o.writer = w /\ o.optionType = PUT /\ o.status = EXERCISED
    THEN o.underlyingAmount ELSE 0

(* The sum over the puts, with its terms. *)
LEMMA ExercisedFacts ==
    ASSUME TypeOK, NEW w
    PROVE  /\ PutsExercised(w) = SumUpTo([id \in DOMAIN options |->
                                    PutPaid(options[id], w)], nextId)
           /\ [id \in DOMAIN options |-> PutPaid(options[id], w)]
                 \in [0 .. nextId - 1 -> Int]
           /\ PutsExercised(w) \in Nat
<1> DEFINE f == [id \in DOMAIN options |-> PutPaid(options[id], w)]
<1>1. DOMAIN options = 0 .. nextId - 1 /\ nextId \in Nat
  BY Basics DEF TypeOK
<1>2. f \in [0 .. nextId - 1 -> Nat]
  <2>1. \A id \in DOMAIN options : PutPaid(options[id], w) \in Nat
    BY Basics DEF PutPaid, Option
  <2> QED BY <1>1, <2>1
<1>3. PutsExercised(w) = SumUpTo(f, nextId)
  BY DEF PutsExercised, PutPaid
<1>4. SumUpTo(f, nextId) \in Nat
  <2> HIDE DEF f
  <2> QED BY <1>1, <1>2, SumNat
<1>5. f \in [0 .. nextId - 1 -> Int]
  BY <1>2
<1> QED BY <1>3, <1>4, <1>5

(* One record replaced. *)
LEMMA ExercisedUpdate ==
    ASSUME TypeOK, TypeOK', NEW id \in DOMAIN options, NEW o \in Option,
           options' = [options EXCEPT ![id] = o], nextId' = nextId,
           NEW w
    PROVE  PutsExercised(w)' =
             PutsExercised(w) + PutPaid(o, w) - PutPaid(options[id], w)
<1> DEFINE f == [i \in DOMAIN options |-> PutPaid(options[i], w)]
           h == [i \in DOMAIN options' |-> PutPaid(options'[i], w)]
<1>1. /\ DOMAIN options = 0 .. nextId - 1 /\ nextId \in Nat
      /\ DOMAIN options' = 0 .. nextId - 1
      /\ f \in [0 .. nextId - 1 -> Int]
  BY Basics, ExercisedFacts DEF TypeOK
<1>2. h \in [0 .. nextId - 1 -> Int]
  <2>1. \A i \in DOMAIN options' : options'[i] \in Option
    BY Basics
  <2>2. \A i \in DOMAIN options' : PutPaid(options'[i], w) \in Int
    BY <2>1 DEF PutPaid, Option
  <2> QED BY <1>1, <2>2
<1>3. \A i \in 0 .. nextId - 1 : i # id => h[i] = f[i]
  BY <1>1
<1>4. h[id] = PutPaid(o, w) /\ f[id] = PutPaid(options[id], w)
  BY <1>1
<1>5. PutsExercised(w)' = SumUpTo(h, nextId)
  BY DEF PutsExercised, PutPaid
<1>6. PutsExercised(w) = SumUpTo(f, nextId)
  BY ExercisedFacts
<1> HIDE DEF f, h
<1> QED BY <1>1, <1>2, <1>3, <1>4, <1>5, <1>6, SumUpdate

(* One record added, of an option just written. *)
LEMMA ExercisedExtend ==
    ASSUME TypeOK, TypeOK', NEW o \in Option, o.status = OPEN,
           options' = Extended(options, o), nextId' = nextId + 1, NEW w
    PROVE  PutsExercised(w)' = PutsExercised(w)
<1> DEFINE f == [i \in DOMAIN options |-> PutPaid(options[i], w)]
           h == [i \in DOMAIN options' |-> PutPaid(options'[i], w)]
<1>1. /\ DOMAIN options = 0 .. nextId - 1 /\ nextId \in Nat
      /\ options \in [0 .. nextId - 1 -> Option]
      /\ f \in [0 .. nextId - 1 -> Int]
  BY Basics, ExercisedFacts DEF TypeOK
<1>2. /\ options' \in [0 .. nextId -> Option] /\ options'[nextId] = o
      /\ \A i \in 0 .. nextId - 1 : options'[i] = options[i]
  BY <1>1, ExtendedType
<1>3. h \in [0 .. nextId -> Int]
  <2>1. \A i \in DOMAIN options' : PutPaid(options'[i], w) \in Int
    BY <1>2 DEF PutPaid, Option
  <2> QED BY <1>2, <2>1
<1>4. \A i \in 0 .. nextId - 1 : h[i] = f[i]
  BY <1>1, <1>2
<1>5. h[nextId] = 0
  BY <1>1, <1>2 DEF PutPaid
<1>6. PutsExercised(w)' = SumUpTo(h, nextId + 1)
  BY DEF PutsExercised, PutPaid
<1>7. PutsExercised(w) = SumUpTo(f, nextId) /\ PutsExercised(w) \in Nat
  BY ExercisedFacts
<1> HIDE DEF f, h
<1>8. SumUpTo(h, nextId + 1) = SumUpTo(f, nextId) + h[nextId]
  BY <1>1, <1>3, <1>4, SumExtend
<1> QED BY <1>5, <1>6, <1>7, <1>8

(* All that was ever escrowed at script s, per option and in sum. *)
EscrowPart(id, s) ==
    IF id \in DOMAIN escrowOf /\ escrowOf[id].script = s
    THEN escrowOf[id].amount ELSE 0

EscrowedFor(s) ==
    SumUpTo([id \in 0 .. nextId - 1 |-> EscrowPart(id, s)], nextId)

(* Escrowed amounts are naturals. *)
LEMMA EscrowedType ==
    ASSUME UnderlyingTypeOK, NEW s
    PROVE  /\ [id \in 0 .. nextId - 1 |-> EscrowPart(id, s)]
                 \in [0 .. nextId - 1 -> Int]
           /\ EscrowedFor(s) \in Nat
<1> DEFINE f == [id \in 0 .. nextId - 1 |-> EscrowPart(id, s)]
<1>1. f \in [0 .. nextId - 1 -> Nat] /\ nextId \in Nat
  BY DEF UnderlyingTypeOK, EscrowPart, TypeOK
<1>2. SumUpTo(f, nextId) \in Nat
  <2> HIDE DEF f
  <2> QED BY <1>1, SumNat
<1>3. f \in [0 .. nextId - 1 -> Int]
  BY <1>1
<1> QED BY <1>2, <1>3 DEF EscrowedFor

(* A new id n, with or without slots of its own. *)
LEMMA EscrowedExtend ==
    ASSUME UnderlyingTypeOK, NEW n \in Nat, nextId = n, nextId' = n + 1,
           NEW s, NEW part \in Nat,
           \A id \in 0 .. n - 1 : EscrowPart(id, s)' = EscrowPart(id, s),
           EscrowPart(n, s)' = part
    PROVE  EscrowedFor(s)' = EscrowedFor(s) + part
<1> DEFINE f == [id \in 0 .. n - 1 |-> EscrowPart(id, s)]
           h == [id \in 0 .. n |-> EscrowPart(id, s)']
<1>1. f \in [0 .. n - 1 -> Int]
  BY EscrowedType
<1>2. h \in [0 .. n -> Int]
  <2>1. ASSUME NEW id \in 0 .. n PROVE EscrowPart(id, s)' \in Int
    <3>1. CASE id = n
      BY <3>1
    <3>2. CASE id # n
      <4>1. id \in 0 .. n - 1 /\ f[id] = EscrowPart(id, s)
        BY <3>2
      <4> HIDE DEF f
      <4> QED BY <1>1, <4>1
    <3> QED BY <3>1, <3>2
  <2> QED BY <2>1
<1>3. \A id \in 0 .. n - 1 : h[id] = f[id]
  OBVIOUS
<1>4. h[n] = part
  OBVIOUS
<1>5. EscrowedFor(s) = SumUpTo(f, n)
  BY DEF EscrowedFor
<1>6. EscrowedFor(s)' = SumUpTo(h, n + 1)
  <2>1. (n + 1) - 1 = n
    OBVIOUS
  <2> QED BY <2>1 DEF EscrowedFor
<1> HIDE DEF f, h
<1>7. SumUpTo(h, n + 1) = SumUpTo(f, n) + h[n]
  BY <1>1, <1>2, <1>3, SumExtend
<1> QED BY <1>4, <1>5, <1>6, <1>7

-----------------------------------------------------------------------------
(* Every output is counted once, paid to the script it was made for, and   *)
(* not spent before its lock ends.                                         *)

WriterScripts(w) == {Bridge!CsvScript(k, CSV_BLOCKS) : k \in KeysOf[w]}

OutputsCounted ==
    \A i \in DOMAIN utxos :
        [script |-> utxos[i].script, value |-> utxos[i].value] \in consumed

EscrowsLocked ==
    /\ \A id \in DOMAIN escrowOf :
          escrowOf[id].script.cltvBlock = GraceEnd(options[id])
    /\ \A i \in DOMAIN utxos : utxos[i].spent =>
          /\ utxos[i].script \in EscrowScripts
          /\ utxos[i].script.cltvBlock <= block

(* The inductive invariant about Bitcoin. *)
BitcoinOK ==
    /\ UnderlyingTypeOK
    /\ OutputsCounted
    /\ EscrowsLocked
    /\ \A w \in Users : PutsExercised(w) <= PaidTo(WriterScripts(w))
    /\ \A s \in EscrowScripts : EscrowedFor(s) <= PaidTo({s})

(* A verified payment is an output of its own: one made by this very call, *)
(* because every earlier one has been counted.                             *)
LEMMA FreshPayment ==
    ASSUME UnderlyingTypeOK, OutputsCounted, NEW caller, NEW script, NEW amount,
           NEW value, amount \in Nat, value \in Nat,
           script \in CsvScripts \cup EscrowScripts,
           CallPaidBy(caller, [script |-> script, value |-> value]),
           Bridge!VerifyBtcOutput(script, amount,
                                  [script |-> script, value |-> value])
    PROVE  /\ value >= amount
           /\ utxos' = Append(utxos, [script |-> script, value |-> value,
                                      spent |-> FALSE])
           /\ utxos' \in Seq(OutputRecord)
           /\ OutputsCounted'
           /\ tx'.from \in Nat
           /\ \A S : PaidTo(S)' = PaidTo(S)
                       + (IF script \in S THEN value ELSE 0)
<1> DEFINE out == [script |-> script, value |-> value]
           new == [script |-> script, value |-> value, spent |-> FALSE]
<1>1. /\ value >= amount /\ out \notin consumed
      /\ consumed' = consumed \cup {out}
  BY DEF Bridge!VerifyBtcOutput
<1>2. /\ Len(utxos) \in Nat /\ utxos \in Seq(OutputRecord)
      /\ DOMAIN utxos = 1 .. Len(utxos) /\ tx.from \in Nat
  BY DEF UnderlyingTypeOK
<1>3. utxos' = Append(utxos, new) /\ tx' = [sender |-> caller, from |-> Len(utxos)]
  <2>1. ASSUME NEW i \in tx.from + 1 .. Len(utxos),
               utxos[i].script = script, utxos[i].value = value
        PROVE  FALSE
    <3>1. i \in DOMAIN utxos
      BY <1>2
    <3>2. out \in consumed
      BY <2>1, <3>1 DEF OutputsCounted
    <3> QED BY <1>1, <3>2
  <2> QED BY <2>1 DEF CallPaidBy, NewTransaction, Output
<1>4. new \in OutputRecord
  BY DEF OutputRecord
<1>5. utxos' \in Seq(OutputRecord)
  BY <1>2, <1>3, <1>4
<1>6. OutputsCounted'
  <2> SUFFICES ASSUME NEW i \in DOMAIN utxos'
               PROVE  [script |-> utxos'[i].script, value |-> utxos'[i].value]
                         \in consumed'
    BY DEF OutputsCounted
  <2>1. /\ DOMAIN utxos' = 1 .. Len(utxos) + 1
        /\ utxos'[Len(utxos) + 1] = new
        /\ \A j \in 1 .. Len(utxos) : utxos'[j] = utxos[j]
    BY <1>2, <1>3, <1>4
  <2>2. CASE i = Len(utxos) + 1
    BY <1>1, <2>1, <2>2
  <2>3. CASE i \in 1 .. Len(utxos)
    BY <1>1, <1>2, <2>1, <2>3 DEF OutputsCounted
  <2> QED BY <1>2, <2>1, <2>2, <2>3
<1>7. \A S : PaidTo(S)' = PaidTo(S) + (IF script \in S THEN value ELSE 0)
  <2> SUFFICES ASSUME NEW S
               PROVE  PaidTo(S)' = PaidTo(S) + (IF script \in S THEN value ELSE 0)
    OBVIOUS
  <2>1. PaidIn(Append(utxos, new), S) = PaidIn(utxos, S) + PaidPart(new, S)
    BY <1>2, <1>4, PaidAppend
  <2>2. PaidTo(S) = PaidIn(utxos, S) /\ PaidTo(S)' = PaidIn(utxos', S)
    BY DEF PaidTo, PaidIn, PaidPart
  <2>3. PaidPart(new, S) = IF script \in S THEN value ELSE 0
    BY DEF PaidPart
  <2> HIDE DEF new
  <2> QED BY <1>3, <2>1, <2>2, <2>3
<1> QED BY <1>1, <1>2, <1>3, <1>5, <1>6, <1>7

(* A step that makes no payment keeps the invariant, if it leaves what is  *)
(* due where it was.                                                       *)
LEMMA BitcoinKept ==
    ASSUME BitcoinOK, [UnderlyingNext]_underlyingVars,
           UNCHANGED <<utxos, consumed, escrowOf>>, tx'.from \in Nat,
           pubkeys' \in [Users -> Keys \cup {NoKey}],
           \A u \in Users : pubkeys'[u] \in KeysOf[u] \cup {NoKey},
           block' >= block,
           \A w \in Users : PutsExercised(w)' = PutsExercised(w),
           \A s \in EscrowScripts : EscrowedFor(s)' = EscrowedFor(s)
    PROVE  BitcoinOK'
<1>1. /\ TypeOK' /\ DOMAIN options \subseteq DOMAIN options'
      /\ \A id \in DOMAIN options : Terms(options'[id]) = Terms(options[id])
  BY PutsEscrow, TermsFrozen DEF BitcoinOK, UnderlyingTypeOK
<1>2. UnderlyingTypeOK'
  BY <1>1 DEF BitcoinOK, UnderlyingTypeOK
<1>3. OutputsCounted'
  BY DEF BitcoinOK, OutputsCounted
<1>4. EscrowsLocked'
  <2>1. ASSUME NEW id \in DOMAIN escrowOf
        PROVE  GraceEnd(options'[id]) = GraceEnd(options[id])
    BY <1>1 DEF BitcoinOK, UnderlyingTypeOK, GraceEnd, Terms
  <2>2. ASSUME NEW i \in DOMAIN utxos, utxos[i].spent
        PROVE  /\ utxos[i].script \in EscrowScripts
               /\ utxos[i].script.cltvBlock <= block'
    <3>1. /\ utxos[i].script \in EscrowScripts
          /\ utxos[i].script.cltvBlock <= block
      BY <2>2 DEF BitcoinOK, EscrowsLocked
    <3>2. utxos[i].script.cltvBlock \in Nat
      BY <3>1 DEF EscrowScripts, Bridge!EscrowScript
    <3>3. block \in Nat /\ block' \in Nat
      BY <1>1 DEF BitcoinOK, UnderlyingTypeOK, TypeOK
    <3> QED BY <3>1, <3>2, <3>3
  <2> QED BY <2>1, <2>2 DEF BitcoinOK, EscrowsLocked, GraceEnd
<1>5. \A S : PaidTo(S)' = PaidTo(S)
  BY DEF PaidTo
<1> QED BY <1>2, <1>3, <1>4, <1>5 DEF BitcoinOK

(* One record replaced by one that is owed the same. *)
LEMMA BitcoinReplaced ==
    ASSUME BitcoinOK, [UnderlyingNext]_underlyingVars,
           UNCHANGED <<block, nextId, pubkeys, utxos, consumed, escrowOf>>,
           tx'.from \in Nat, NEW id \in DOMAIN options, NEW o \in Option,
           options' = [options EXCEPT ![id] = o],
           \A w : PutPaid(o, w) = PutPaid(options[id], w)
    PROVE  BitcoinOK'
<1>1. TypeOK /\ TypeOK'
  BY PutsEscrow DEF BitcoinOK, UnderlyingTypeOK
<1>2. ASSUME NEW w \in Users PROVE PutsExercised(w)' = PutsExercised(w)
  <2>1. PutsExercised(w)' =
          PutsExercised(w) + PutPaid(o, w) - PutPaid(options[id], w)
    BY <1>1, ExercisedUpdate
  <2>2. PutPaid(options[id], w) \in Nat /\ PutsExercised(w) \in Nat
    BY <1>1, Basics, ExercisedFacts DEF PutPaid, Option
  <2> QED BY <2>1, <2>2
<1>3. ASSUME NEW s PROVE EscrowedFor(s)' = EscrowedFor(s)
  BY DEF EscrowedFor, EscrowPart
<1>4. block' >= block
  BY <1>1 DEF TypeOK
<1> QED BY <1>2, <1>3, <1>4, BitcoinKept DEF BitcoinOK, UnderlyingTypeOK

(* Closing, selling, or exercising a call: no put is exercised.            *)
LEMMA BitcoinOneRecord ==
    ASSUME BitcoinOK, NEW u \in Users, NEW id \in DOMAIN options,
           [UnderlyingNext]_underlyingVars,
           \/ CancelPut(u, id) \/ CancelCall(u, id)
           \/ SettlePut(id) \/ SettleCall(id)
           \/ UnderlyingBuyOption(u, id) \/ ExerciseCall(u, id)
    PROVE  BitcoinOK'
<1>1. TypeOK /\ options[id] \in Option /\ Len(utxos) \in Nat
  BY Basics DEF BitcoinOK, UnderlyingTypeOK
<1>2. /\ UNCHANGED <<block, nextId, pubkeys, utxos, consumed, escrowOf>>
      /\ tx'.from \in Nat
  BY <1>1 DEF CancelPut, CancelOption, CancelCall, SettlePut, Settle,
              SettleCall, UnderlyingBuyOption, BuyOption, ExerciseCall,
              PlainTransaction, NewTransaction
<1>3. CASE CancelPut(u, id) \/ CancelCall(u, id) \/ SettlePut(id) \/ SettleCall(id)
  <2>1. PICK s \in {CANCELLED, EXPIRED} :
           options' = [options EXCEPT ![id].status = s]
    BY <1>3 DEF CancelPut, CancelOption, CancelCall, SettlePut, Settle,
                SettleCall, SetStatus
  <2>2. options[id].status \in {OPEN, PURCHASED}
    BY <1>3 DEF CancelPut, CancelOption, CancelCall, SettlePut, Settle,
                SettleCall, CanSettle, MayCancel
  <2> DEFINE o == [options[id] EXCEPT !.status = s]
  <2>3. options' = [options EXCEPT ![id] = o] /\ o \in Option
    BY <1>1, <2>1, ClosedRecord
  <2>4. \A w : PutPaid(o, w) = PutPaid(options[id], w)
    BY <1>1, <2>2 DEF PutPaid, Option
  <2> HIDE DEF o
  <2> QED BY <1>2, <2>3, <2>4, BitcoinReplaced
<1>4. CASE UnderlyingBuyOption(u, id)
  <2> DEFINE o == [options[id] EXCEPT !.buyer = u, !.status = PURCHASED]
  <2>1. options' = [options EXCEPT ![id] = o] /\ options[id].status = OPEN
    BY <1>4 DEF UnderlyingBuyOption, BuyOption, CanBuy, MayBuy
  <2>2. o \in Option
    BY <1>1 DEF Option, Statuses, Addresses
  <2>3. \A w : PutPaid(o, w) = PutPaid(options[id], w)
    BY <1>1, <2>1 DEF PutPaid, Option
  <2> HIDE DEF o
  <2> QED BY <1>2, <2>1, <2>2, <2>3, BitcoinReplaced
<1>5. CASE ExerciseCall(u, id)
  <2> DEFINE o == [options[id] EXCEPT !.status = EXERCISED]
  <2>1. options' = [options EXCEPT ![id] = o] /\ options[id].optionType = CALL
    BY <1>5 DEF ExerciseCall, SetStatus
  <2>2. o \in Option
    BY <1>1 DEF Option, Statuses
  <2>3. \A w : PutPaid(o, w) = PutPaid(options[id], w)
    BY <1>1, <2>1 DEF PutPaid, Option
  <2> HIDE DEF o
  <2> QED BY <1>2, <2>1, <2>2, <2>3, BitcoinReplaced
<1> QED BY <1>3, <1>4, <1>5

(* Writing a put: the new id has no escrow on Bitcoin. *)
LEMMA BitcoinWritePut ==
    ASSUME BitcoinOK, [UnderlyingNext]_underlyingVars, NEW w \in Users,
           NEW k \in Strikes, NEW a \in Amounts, NEW p \in Premiums,
           NEW e \in Nat, WritePut(w, k, a, p, e)
    PROVE  BitcoinOK'
<1> DEFINE o == NewOption(w, PUT, k, a, p, e)
<1>1. TypeOK /\ TypeOK' /\ UnderlyingTypeOK
  BY PutsEscrow DEF BitcoinOK, UnderlyingTypeOK
<1>2. /\ UNCHANGED <<block, pubkeys, utxos, consumed, escrowOf>>
      /\ tx'.from \in Nat
      /\ options' = Extended(options, o) /\ nextId' = nextId + 1
  BY <1>1 DEF WritePut, WriteOption, PlainTransaction, NewTransaction,
              UnderlyingTypeOK
<1>3. o \in Option /\ o.status = OPEN
  BY NewOptionType, InputAssumption DEF NewOption, OptionTypes
<1> HIDE DEF o
<1>4. \A x \in Users : PutsExercised(x)' = PutsExercised(x)
  BY <1>1, <1>2, <1>3, ExercisedExtend
<1>5. ASSUME NEW s PROVE EscrowedFor(s)' = EscrowedFor(s)
  <2>1. PICK n \in Nat : n = nextId
    BY <1>1 DEF TypeOK
  <2>2. DOMAIN escrowOf \subseteq 0 .. n - 1
    BY <1>1, <2>1 DEF UnderlyingTypeOK, TypeOK
  <2>3. \A id : EscrowPart(id, s)' = EscrowPart(id, s)
    BY <1>2 DEF EscrowPart
  <2>4. EscrowPart(n, s)' = 0
    BY <1>2, <2>1, <2>2 DEF EscrowPart
  <2>5. EscrowedFor(s)' = EscrowedFor(s) + 0
    BY <1>1, <1>2, <2>1, <2>3, <2>4, EscrowedExtend
  <2> QED BY <1>1, <2>5, EscrowedType
<1>6. block' >= block
  BY <1>1, <1>2 DEF TypeOK
<1> QED BY <1>2, <1>4, <1>5, <1>6, BitcoinKept DEF BitcoinOK, UnderlyingTypeOK

(* Writing a call: its own output pays for its escrow. *)
LEMMA BitcoinWriteCall ==
    ASSUME BitcoinOK, [UnderlyingNext]_underlyingVars, NEW w \in Users,
           NEW k \in Strikes, NEW a \in Amounts, NEW p \in Premiums,
           NEW e \in Nat, NEW v \in Amounts, WriteCall(w, k, a, p, e, v)
    PROVE  BitcoinOK'
<1> DEFINE o == NewOption(w, CALL, k, a, p, e)
           script == EscrowFor(w, e)
<1>1. TypeOK /\ TypeOK' /\ UnderlyingTypeOK /\ OutputsCounted
  BY PutsEscrow DEF BitcoinOK, UnderlyingTypeOK
<1>2. /\ UNCHANGED <<block, pubkeys>>
      /\ options' = Extended(options, o) /\ nextId' = nextId + 1
      /\ escrowOf' = WithEscrow(nextId, script, a)
      /\ pubkeys[w] # NoKey
      /\ CallPaidBy(w, [script |-> script, value |-> v])
      /\ Bridge!VerifyBtcOutput(script, a, [script |-> script, value |-> v])
  BY DEF WriteCall
<1>3. o \in Option /\ o.status = OPEN /\ GraceEnd(o) = e + GracePeriod
  BY NewOptionType, InputAssumption DEF NewOption, OptionTypes, GraceEnd
<1>4. script \in EscrowScripts /\ script.cltvBlock = e + GracePeriod
  <2>1. pubkeys[w] \in Keys
    BY <1>1, <1>2 DEF UnderlyingTypeOK, Keys
  <2>2. e + GracePeriod \in Nat
    BY DeploymentAssumption
  <2> QED BY <2>1, <2>2 DEF EscrowScripts, EscrowFor, Bridge!EscrowScript
<1>5. a \in Nat /\ v \in Nat
  BY InputAssumption
<1> HIDE DEF o, script
<1>6. /\ v >= a /\ utxos' \in Seq(OutputRecord) /\ OutputsCounted'
      /\ utxos' = Append(utxos, [script |-> script, value |-> v, spent |-> FALSE])
      /\ tx'.from \in Nat
      /\ \A S : PaidTo(S)' = PaidTo(S) + (IF script \in S THEN v ELSE 0)
  BY <1>1, <1>2, <1>4, <1>5, FreshPayment
<1>7. \A S : PaidTo(S) \in Nat
  BY <1>1, PaidToIs, PaidType DEF UnderlyingTypeOK
<1>8. PICK n \in Nat : n = nextId
  BY <1>1 DEF TypeOK
<1>9. /\ DOMAIN escrowOf \subseteq 0 .. n - 1
      /\ DOMAIN escrowOf' = DOMAIN escrowOf \cup {n}
      /\ escrowOf'[n] = [script |-> script, amount |-> a]
      /\ \A id \in DOMAIN escrowOf : id # n => escrowOf'[id] = escrowOf[id]
  BY <1>1, <1>2, <1>8 DEF UnderlyingTypeOK, TypeOK, WithEscrow
<1>10. /\ options' \in [0 .. n -> Option] /\ options'[n] = o
       /\ \A id \in 0 .. n - 1 : options'[id] = options[id]
  BY <1>1, <1>2, <1>3, <1>8, ExtendedType DEF TypeOK
<1>11. UnderlyingTypeOK'
  <2>1. \A id \in DOMAIN escrowOf' : /\ escrowOf'[id].script \in EscrowScripts
                                     /\ escrowOf'[id].amount \in Nat
    BY <1>1, <1>4, <1>5, <1>9 DEF UnderlyingTypeOK
  <2>2. DOMAIN escrowOf' \subseteq DOMAIN options'
    BY <1>9, <1>10
  <2> QED BY <1>1, <1>2, <1>6, <2>1, <2>2 DEF UnderlyingTypeOK
<1>12. EscrowsLocked'
  <2>1. ASSUME NEW id \in DOMAIN escrowOf'
        PROVE  escrowOf'[id].script.cltvBlock = GraceEnd(options'[id])
    <3>1. CASE id = n
      BY <1>3, <1>4, <1>9, <1>10, <3>1
    <3>2. CASE id # n
      <4>1. id \in DOMAIN escrowOf /\ escrowOf'[id] = escrowOf[id]
        BY <1>9, <3>2
      <4>2. options'[id] = options[id]
        BY <1>9, <1>10, <4>1
      <4> QED BY <4>1, <4>2 DEF BitcoinOK, EscrowsLocked
    <3> QED BY <3>1, <3>2
  <2>2. ASSUME NEW i \in DOMAIN utxos', utxos'[i].spent
        PROVE  i \in DOMAIN utxos /\ utxos'[i] = utxos[i]
    BY <1>1, <1>6, <2>2 DEF UnderlyingTypeOK
  <2> QED BY <1>2, <2>1, <2>2 DEF BitcoinOK, EscrowsLocked, GraceEnd
<1>13. ASSUME NEW x \in Users
       PROVE  PutsExercised(x)' <= PaidTo(WriterScripts(x))'
  <2>1. PutsExercised(x)' = PutsExercised(x) /\ PutsExercised(x) \in Nat
    BY <1>1, <1>2, <1>3, ExercisedExtend, ExercisedFacts
  <2>2. PaidTo(WriterScripts(x))' >= PaidTo(WriterScripts(x))
    BY <1>5, <1>6, <1>7 DEF WriterScripts
  <2>3. PutsExercised(x) <= PaidTo(WriterScripts(x))
    BY DEF BitcoinOK
  <2>4. PaidTo(WriterScripts(x))' \in Int /\ PaidTo(WriterScripts(x)) \in Int
    BY <1>5, <1>6, <1>7 DEF WriterScripts
  <2> QED BY <2>1, <2>2, <2>3, <2>4
<1>14. ASSUME NEW s \in EscrowScripts PROVE EscrowedFor(s)' <= PaidTo({s})'
  <2> DEFINE part == IF s = script THEN a ELSE 0
  <2>1. EscrowPart(n, s)' = part
    BY <1>9 DEF EscrowPart
  <2>2. \A id \in 0 .. n - 1 : EscrowPart(id, s)' = EscrowPart(id, s)
    BY <1>9 DEF EscrowPart
  <2>3. EscrowedFor(s)' = EscrowedFor(s) + part
    BY <1>1, <1>2, <1>5, <1>8, <2>1, <2>2, EscrowedExtend
  <2>4. PaidTo({s})' = PaidTo({s}) + (IF s = script THEN v ELSE 0)
    BY <1>6
  <2>5. EscrowedFor(s) <= PaidTo({s}) /\ EscrowedFor(s) \in Nat
    BY <1>1, EscrowedType DEF BitcoinOK
  <2> QED BY <1>5, <1>6, <1>7, <2>3, <2>4, <2>5
<1> QED BY <1>6, <1>11, <1>12, <1>13, <1>14 DEF BitcoinOK

(* Exercising a put: its own output pays its writer. *)
LEMMA BitcoinExercisePut ==
    ASSUME BitcoinOK, [UnderlyingNext]_underlyingVars, NEW u \in Users,
           NEW id \in DOMAIN options, NEW v \in Amounts, ExercisePut(u, id, v)
    PROVE  BitcoinOK'
<1> DEFINE n == [options[id] EXCEPT !.status = EXERCISED]
           w == options[id].writer
           a == options[id].underlyingAmount
           script == Bridge!CsvScript(pubkeys[w], CSV_BLOCKS)
<1>1. /\ TypeOK /\ TypeOK' /\ UnderlyingTypeOK /\ OutputsCounted
      /\ options[id] \in Option
  BY PutsEscrow, Basics DEF BitcoinOK, UnderlyingTypeOK
<1>2. /\ UNCHANGED <<block, nextId, pubkeys, escrowOf>>
      /\ options[id].optionType = PUT /\ options[id].status = PURCHASED
      /\ options' = [options EXCEPT ![id] = n]
      /\ pubkeys[w] # NoKey
      /\ CallPaidBy(u, [script |-> script, value |-> v])
      /\ Bridge!VerifyBtcOutput(script, a, [script |-> script, value |-> v])
  BY DEF ExercisePut, SetStatus
<1>3. w \in Users /\ a \in Nat /\ v \in Nat
  BY <1>1, InputAssumption DEF Option
<1>4. script \in WriterScripts(w) /\ script \in CsvScripts
  <2>1. pubkeys[w] \in KeysOf[w] /\ pubkeys[w] \in Keys
    BY <1>1, <1>2, <1>3 DEF UnderlyingTypeOK, Keys
  <2> QED BY <2>1 DEF WriterScripts, CsvScripts
<1>5. n \in Option
  BY <1>1, ClosedRecord
<1>6. \A x : PutPaid(n, x) = (IF x = w THEN a ELSE 0) /\ PutPaid(options[id], x) = 0
  BY <1>1, <1>2 DEF PutPaid, Option
<1> HIDE DEF n, w, a, script
<1>7. /\ v >= a /\ utxos' \in Seq(OutputRecord) /\ OutputsCounted'
      /\ utxos' = Append(utxos, [script |-> script, value |-> v, spent |-> FALSE])
      /\ tx'.from \in Nat
      /\ \A S : PaidTo(S)' = PaidTo(S) + (IF script \in S THEN v ELSE 0)
  BY <1>1, <1>2, <1>3, <1>4, FreshPayment
<1>8. \A S : PaidTo(S) \in Nat
  BY <1>1, PaidToIs, PaidType DEF UnderlyingTypeOK
<1>9. UnderlyingTypeOK'
  BY <1>1, <1>2, <1>7 DEF UnderlyingTypeOK
<1>10. EscrowsLocked'
  <2>1. ASSUME NEW i \in DOMAIN escrowOf
        PROVE  GraceEnd(options'[i]) = GraceEnd(options[i])
    BY <1>1, TermsFrozen DEF UnderlyingTypeOK, GraceEnd, Terms
  <2>2. ASSUME NEW i \in DOMAIN utxos', utxos'[i].spent
        PROVE  i \in DOMAIN utxos /\ utxos'[i] = utxos[i]
    BY <1>1, <1>7, <2>2 DEF UnderlyingTypeOK
  <2> QED BY <1>2, <2>1, <2>2 DEF BitcoinOK, EscrowsLocked, GraceEnd
<1>11. ASSUME NEW x \in Users
       PROVE  PutsExercised(x)' <= PaidTo(WriterScripts(x))'
  <2>1. PutsExercised(x)' = PutsExercised(x) + (IF x = w THEN a ELSE 0)
    <3>1. PutsExercised(x)' =
            PutsExercised(x) + PutPaid(n, x) - PutPaid(options[id], x)
      BY <1>1, <1>2, <1>5, ExercisedUpdate
    <3>2. PutsExercised(x) \in Nat
      BY <1>1, ExercisedFacts
    <3> QED BY <1>3, <1>6, <3>1, <3>2
  <2>2. PaidTo(WriterScripts(x))' =
          PaidTo(WriterScripts(x)) + (IF script \in WriterScripts(x) THEN v ELSE 0)
    BY <1>7 DEF WriterScripts
  <2>3. PutsExercised(x) <= PaidTo(WriterScripts(x)) /\ PutsExercised(x) \in Nat
    BY <1>1, ExercisedFacts DEF BitcoinOK
  <2> QED BY <1>3, <1>4, <1>7, <1>8, <2>1, <2>2, <2>3
<1>12. ASSUME NEW s \in EscrowScripts PROVE EscrowedFor(s)' <= PaidTo({s})'
  <2>1. EscrowedFor(s)' = EscrowedFor(s)
    BY <1>2 DEF EscrowedFor, EscrowPart
  <2>2. PaidTo({s})' = PaidTo({s}) + (IF script \in {s} THEN v ELSE 0)
    BY <1>7
  <2>3. EscrowedFor(s) <= PaidTo({s}) /\ EscrowedFor(s) \in Nat
    BY <1>1, EscrowedType DEF BitcoinOK
  <2> QED BY <1>3, <1>8, <2>1, <2>2, <2>3
<1> QED BY <1>7, <1>9, <1>10, <1>11, <1>12 DEF BitcoinOK

(* Spending an escrow: nobody has the buyer's key, so only the writer's    *)
(* path is open, and not before its lock ends.                             *)
LEMMA BitcoinSpend ==
    ASSUME BitcoinOK, [UnderlyingNext]_underlyingVars, NEW u \in Users,
           NEW i \in DOMAIN utxos, SpendEscrow(u, i)
    PROVE  BitcoinOK'
<1>1. /\ TypeOK' /\ UnderlyingTypeOK /\ utxos \in Seq(OutputRecord)
      /\ Len(utxos) \in Nat /\ DOMAIN utxos = 1 .. Len(utxos)
  BY PutsEscrow DEF BitcoinOK, UnderlyingTypeOK
<1>2. /\ UNCHANGED <<block, nextId, options, pubkeys, escrowOf, consumed>>
      /\ CanSpend(u, i)
      /\ utxos' = [utxos EXCEPT ![i].spent = TRUE]
      /\ tx'.from = Len(utxos)
  BY DEF SpendEscrow, NewTransaction, vars
<1>3. /\ utxos' \in Seq(OutputRecord) /\ DOMAIN utxos' = DOMAIN utxos
      /\ \A j \in DOMAIN utxos : /\ utxos'[j].script = utxos[j].script
                                 /\ utxos'[j].value = utxos[j].value
                                 /\ j # i => utxos'[j].spent = utxos[j].spent
  <2>1. utxos[i] \in OutputRecord
    BY <1>1
  <2>2. [utxos[i] EXCEPT !.spent = TRUE] \in OutputRecord
    BY <2>1 DEF OutputRecord
  <2>3. utxos' = [utxos EXCEPT ![i] = [utxos[i] EXCEPT !.spent = TRUE]]
    BY <1>2
  <2>4. /\ [utxos[i] EXCEPT !.spent = TRUE].script = utxos[i].script
        /\ [utxos[i] EXCEPT !.spent = TRUE].value = utxos[i].value
    BY <2>1 DEF OutputRecord
  <2>5. PICK new \in OutputRecord :
           /\ new.script = utxos[i].script /\ new.value = utxos[i].value
           /\ utxos' = [utxos EXCEPT ![i] = new]
    BY <2>2, <2>3, <2>4
  <2>6. utxos' \in Seq(OutputRecord) /\ DOMAIN utxos' = DOMAIN utxos
    BY <1>1, <2>5
  <2>7. utxos'[i] = new /\ \A j \in DOMAIN utxos : j # i => utxos'[j] = utxos[j]
    BY <1>1, <2>5
  <2> QED BY <2>5, <2>6, <2>7
<1>4. utxos[i].script \in EscrowScripts
  <2>0. utxos[i] \in OutputRecord
    BY <1>1
  <2>1. utxos[i].script \in CsvScripts \cup EscrowScripts
    BY <2>0 DEF OutputRecord
  <2>2. utxos[i].script \notin CsvScripts
    BY <1>2 DEF CanSpend
  <2> QED BY <2>1, <2>2
<1>5. utxos[i].script.cltvBlock <= block
  <2>1. PICK path \in SpendPaths(utxos[i].script) :
           path.key \in KeysOf[u] /\ path.from <= block
    BY <1>2 DEF CanSpend
  <2>2. utxos[i].script.buyerPubkey = PlaceholderBuyer
    BY <1>4 DEF EscrowScripts, Bridge!EscrowScript
  <2>3. path.key # PlaceholderBuyer
    BY <2>1, KeyAssumption
  <2> QED BY <2>1, <2>2, <2>3 DEF SpendPaths
<1>6. UnderlyingTypeOK'
  BY <1>1, <1>2, <1>3 DEF UnderlyingTypeOK
<1>7. OutputsCounted'
  BY <1>2, <1>3 DEF BitcoinOK, OutputsCounted
<1>8. EscrowsLocked'
  BY <1>2, <1>3, <1>4, <1>5 DEF BitcoinOK, EscrowsLocked, GraceEnd
<1>9. \A S : PaidTo(S)' = PaidTo(S)
  <2> SUFFICES ASSUME NEW S PROVE PaidTo(S)' = PaidTo(S)
    OBVIOUS
  <2>1. PaidIn([utxos EXCEPT ![i].spent = TRUE], S) = PaidIn(utxos, S)
    BY <1>1, PaidSpent
  <2>2. PaidTo(S) = PaidIn(utxos, S) /\ PaidTo(S)' = PaidIn(utxos', S)
    BY DEF PaidTo, PaidIn, PaidPart
  <2> QED BY <1>2, <2>1, <2>2
<1>10. \A w \in Users : PutsExercised(w)' = PutsExercised(w)
  BY <1>2 DEF PutsExercised
<1>11. \A s : EscrowedFor(s)' = EscrowedFor(s)
  BY <1>2 DEF EscrowedFor, EscrowPart
<1>12. \A w : WriterScripts(w)' = WriterScripts(w)
  BY DEF WriterScripts
<1> QED BY <1>6, <1>7, <1>8, <1>9, <1>10, <1>11 DEF BitcoinOK, WriterScripts

(* Every step. *)
LEMMA BitcoinStep ==
    ASSUME BitcoinOK, [UnderlyingNext]_underlyingVars
    PROVE  BitcoinOK'
<1>1. TypeOK /\ UnderlyingTypeOK /\ Len(utxos) \in Nat /\ block \in Nat
  BY DEF BitcoinOK, UnderlyingTypeOK, TypeOK
<1>2. ASSUME UNCHANGED <<nextId, options, utxos, consumed, escrowOf>>,
             block' >= block, tx'.from \in Nat,
             pubkeys' \in [Users -> Keys \cup {NoKey}],
             \A u \in Users : pubkeys'[u] \in KeysOf[u] \cup {NoKey}
      PROVE  BitcoinOK'
  <2>1. \A w \in Users : PutsExercised(w)' = PutsExercised(w)
    BY <1>2 DEF PutsExercised
  <2>2. \A s \in EscrowScripts : EscrowedFor(s)' = EscrowedFor(s)
    BY <1>2 DEF EscrowedFor, EscrowPart
  <2> QED BY <1>2, <2>1, <2>2, BitcoinKept
<1>3. CASE UNCHANGED underlyingVars
  BY <1>1, <1>2, <1>3
     DEF underlyingVars, vars, btcVars, BitcoinOK, UnderlyingTypeOK
<1>4. CASE UnderlyingNextBlock
  BY <1>1, <1>2, <1>4
     DEF UnderlyingNextBlock, NextBlock, NewTransaction, UnderlyingTypeOK
<1>5. ASSUME NEW id \in DOMAIN options, SettlePut(id) \/ SettleCall(id)
      PROVE  BitcoinOK'
  <2>1. options[id].writer \in Users
    BY <1>1, Basics
  <2> QED BY <1>5, <2>1, BitcoinOneRecord
<1>6. ASSUME NEW u \in Users, UnderlyingSignedBy(u) PROVE BitcoinOK'
  <2>1. CASE \E k \in Strikes, a \in Amounts, p \in Premiums, e \in Expiries :
                WritePut(u, k, a, p, e)
    BY <2>1, BitcoinWritePut DEF Expiries
  <2>2. CASE \E k \in Strikes, a \in Amounts, p \in Premiums, e \in Expiries,
                v \in Amounts : WriteCall(u, k, a, p, e, v)
    BY <2>2, BitcoinWriteCall DEF Expiries
  <2>3. CASE \E id \in DOMAIN options :
                \/ CancelPut(u, id) \/ CancelCall(u, id)
                \/ UnderlyingBuyOption(u, id) \/ ExerciseCall(u, id)
    BY <2>3, BitcoinOneRecord
  <2>4. CASE \E id \in DOMAIN options, v \in Amounts : ExercisePut(u, id, v)
    BY <2>4, BitcoinExercisePut
  <2>5. CASE \E k \in KeysOf[u] : RegisterBtcPubkey(u, k)
    <3>1. PICK k \in KeysOf[u] : RegisterBtcPubkey(u, k)
      BY <2>5
    <3>2. /\ UNCHANGED <<nextId, options, utxos, consumed, escrowOf, block>>
          /\ tx'.from = Len(utxos) /\ pubkeys' = [pubkeys EXCEPT ![u] = k]
      BY <3>1 DEF RegisterBtcPubkey, NewTransaction, vars
    <3>3. k \in Keys
      BY DEF Keys
    <3>4. /\ pubkeys' \in [Users -> Keys \cup {NoKey}]
          /\ \A x \in Users : pubkeys'[x] \in KeysOf[x] \cup {NoKey}
      BY <1>1, <3>2, <3>3 DEF UnderlyingTypeOK
    <3> QED BY <1>1, <1>2, <3>2, <3>4
  <2>6. CASE \E i \in DOMAIN utxos : SpendEscrow(u, i)
    BY <2>6, BitcoinSpend
  <2>7. CASE \E new \in FeeRecipients :
                UpdateFeeRecipient(u, new) /\ PlainTransaction(u)
    BY <1>1, <1>2, <2>7
       DEF UpdateFeeRecipient, PlainTransaction, NewTransaction,
           UnderlyingTypeOK
  <2> QED
    BY <1>6, <2>1, <2>2, <2>3, <2>4, <2>5, <2>6, <2>7 DEF UnderlyingSignedBy
<1> QED BY <1>3, <1>4, <1>5, <1>6 DEF UnderlyingNext

(* At deployment nothing is owed, and nothing has been paid. *)
LEMMA BitcoinInit ==
    ASSUME UnderlyingInit
    PROVE  BitcoinOK
<1>1. /\ TypeOK /\ nextId = 0 /\ DOMAIN options = {}
      /\ utxos = <<>> /\ escrowOf = <<>> /\ tx.from = 0
      /\ pubkeys = [u \in Users |-> NoKey]
  BY InitState DEF UnderlyingInit, Init
<1>2. UnderlyingTypeOK
  BY <1>1 DEF UnderlyingTypeOK
<1>3. OutputsCounted /\ EscrowsLocked
  BY <1>1 DEF OutputsCounted, EscrowsLocked
<1>4. \A S : PaidTo(S) \in Nat
  BY <1>2, PaidToIs, PaidType DEF UnderlyingTypeOK
<1>5. ASSUME NEW w \in Users PROVE PutsExercised(w) = 0
  <2> DEFINE f == [id \in DOMAIN options |-> PutPaid(options[id], w)]
  <2>1. f \in [0 .. -1 -> Int] /\ PutsExercised(w) = SumUpTo(f, 0)
    BY <1>1, ExercisedFacts
  <2> HIDE DEF f
  <2> QED BY <2>1, SumEmpty
<1>6. ASSUME NEW s PROVE EscrowedFor(s) = 0
  <2> DEFINE f == [id \in 0 .. nextId - 1 |-> EscrowPart(id, s)]
  <2>1. f \in [0 .. -1 -> Int] /\ EscrowedFor(s) = SumUpTo(f, 0)
    BY <1>1, <1>2, EscrowedType DEF EscrowedFor
  <2> HIDE DEF f
  <2> QED BY <2>1, SumEmpty
<1> QED BY <1>2, <1>3, <1>4, <1>5, <1>6 DEF BitcoinOK

(* The invariant holds throughout. *)
LEMMA BitcoinInvariant == UnderlyingSpec => []BitcoinOK
<1>1. UnderlyingInit => BitcoinOK
  BY BitcoinInit
<1>2. BitcoinOK /\ [UnderlyingNext]_underlyingVars => BitcoinOK'
  BY BitcoinStep
<1> QED BY <1>1, <1>2, PTL DEF UnderlyingSpec

(* Every exercised put was paid to a key of its writer, once per put,      *)
(* whatever keys are registered in between.                                *)
THEOREM PutsArePaid == UnderlyingSpec => []PutsPaidInBitcoin
<1>1. BitcoinOK => PutsPaidInBitcoin
  BY DEF BitcoinOK, PutsPaidInBitcoin, WriterScripts
<1> QED BY <1>1, BitcoinInvariant, PTL

(* While its lock lasts an escrow is whole; afterwards nobody needs it.    *)
LEMMA EscrowHolds ==
    ASSUME BitcoinOK, NEW s \in EscrowScripts
    PROVE  EscrowNeeded(s) <= UnspentAt(s)
<1> DEFINE need == [id \in DOMAIN options |->
                      IF /\ id \in DOMAIN escrowOf
                         /\ escrowOf[id].script = s /\ Exercisable(id)
                      THEN escrowOf[id].amount ELSE 0]
           left == [i \in 0 .. Len(utxos) - 1 |->
                      IF utxos[i + 1].script = s /\ ~utxos[i + 1].spent
                      THEN utxos[i + 1].value ELSE 0]
           all == [id \in 0 .. nextId - 1 |-> EscrowPart(id, s)]
<1>1. /\ UnderlyingTypeOK /\ TypeOK /\ nextId \in Nat /\ block \in Nat
      /\ DOMAIN options = 0 .. nextId - 1
      /\ Len(utxos) \in Nat /\ DOMAIN utxos = 1 .. Len(utxos)
      /\ \A i \in 1 .. Len(utxos) : utxos[i] \in OutputRecord
  BY UnderlyingBasics DEF BitcoinOK, UnderlyingTypeOK
<1>2. EscrowNeeded(s) = SumUpTo(need, nextId) /\ UnspentAt(s) = SumUpTo(left, Len(utxos))
  BY DEF EscrowNeeded, UnspentAt
<1>3. need \in [0 .. nextId - 1 -> Int]
  BY <1>1 DEF UnderlyingTypeOK
<1>4. left \in [0 .. Len(utxos) - 1 -> Nat]
  <2>1. \A i \in 0 .. Len(utxos) - 1 : utxos[i + 1].value \in Nat
    BY <1>1 DEF OutputRecord
  <2> QED BY <2>1
<1>5. s.cltvBlock \in Nat
  BY DEF EscrowScripts, Bridge!EscrowScript
<1>6. CASE block < s.cltvBlock
  <2>1. \A i \in 0 .. Len(utxos) - 1 :
           utxos[i + 1].script = s => ~utxos[i + 1].spent
    <3> SUFFICES ASSUME NEW i \in 0 .. Len(utxos) - 1,
                        utxos[i + 1].script = s, utxos[i + 1].spent
                 PROVE  FALSE
      OBVIOUS
    <3>1. i + 1 \in DOMAIN utxos
      BY <1>1
    <3>2. s.cltvBlock <= block
      BY <3>1 DEF BitcoinOK, EscrowsLocked
    <3> QED BY <1>1, <1>5, <1>6, <3>2
  <2>2. UnspentAt(s) = PaidTo({s})
    BY <2>1 DEF UnspentAt, PaidTo
  <2>3. EscrowedFor(s) <= PaidTo({s})
    BY DEF BitcoinOK
  <2>4. all \in [0 .. nextId - 1 -> Int] /\ EscrowedFor(s) = SumUpTo(all, nextId)
    BY <1>1, EscrowedType DEF EscrowedFor
  <2>5. \A id \in 0 .. nextId - 1 : need[id] <= all[id]
    <3>1. \A id \in DOMAIN escrowOf : escrowOf[id].amount \in Nat
      BY <1>1 DEF UnderlyingTypeOK
    <3> QED BY <1>1, <3>1 DEF EscrowPart
  <2> HIDE DEF need, all, left
  <2>6. SumUpTo(need, nextId) <= SumUpTo(all, nextId)
    BY <1>1, <1>3, <2>4, <2>5, SumMonotone
  <2>7. /\ SumUpTo(need, nextId) \in Int /\ EscrowedFor(s) \in Int
        /\ PaidTo({s}) \in Int
    BY <1>1, <1>3, SumType, EscrowedType, PaidToIs, PaidType
       DEF UnderlyingTypeOK
  <2> QED BY <1>2, <2>2, <2>3, <2>4, <2>6, <2>7
<1>7. CASE ~(block < s.cltvBlock)
  <2>1. ASSUME NEW id \in DOMAIN options, id \in DOMAIN escrowOf,
               escrowOf[id].script = s
        PROVE  ~Exercisable(id)
    BY <1>7, <2>1 DEF BitcoinOK, EscrowsLocked, Exercisable
  <2>2. \A id \in 0 .. nextId - 1 : need[id] = 0
    BY <1>1, <2>1
  <2> HIDE DEF need, left
  <2>3. SumUpTo(need, nextId) = 0
    BY <1>1, <1>3, <2>2, SumZero
  <2>4. SumUpTo(left, Len(utxos)) \in Nat
    BY <1>1, <1>4, SumNat
  <2> QED BY <1>2, <2>3, <2>4
<1> QED BY <1>6, <1>7

(* Every call that may still be exercised has its own unspent bitcoin      *)
(* behind it, until the last block in which it may be.                     *)
THEOREM CallsAreBacked == UnderlyingSpec => []CallsBacked
<1>1. BitcoinOK => CallsBacked
  <2> SUFFICES ASSUME BitcoinOK, NEW id \in DOMAIN escrowOf
               PROVE  EscrowNeeded(escrowOf[id].script)
                         <= UnspentAt(escrowOf[id].script)
    BY DEF CallsBacked
  <2>1. escrowOf[id].script \in EscrowScripts
    BY DEF BitcoinOK, UnderlyingTypeOK
  <2> QED BY <2>1, EscrowHolds
<1> QED BY <1>1, BitcoinInvariant, PTL
=============================================================================
