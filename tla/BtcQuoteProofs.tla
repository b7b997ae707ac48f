--------------------------- MODULE BtcQuoteProofs ---------------------------
(***************************************************************************)
(* Proofs about the OP20/BTC pool, for any sets of users, keys, inputs and *)
(* bounds.                                                                 *)
(***************************************************************************)
EXTENDS BtcQuoteProperties, OptionsPoolProofs, FiniteSetTheorems

USE DEF CALL, PUT, OPEN, PURCHASED, EXERCISED, EXPIRED, CANCELLED, RESERVED,
        PENDING, EXECUTED

(* The inductive invariant: reserved options and pending reservations      *)
(* match one to one, and a cleared record points at option 0, so that it   *)
(* does not exist.                                                         *)
PointsAtReserved(rid) ==
    LET id == reservations[rid].optionId
    IN  /\ Stored(rid) => id \in DOMAIN options
        /\ Pending(rid) => options[id].status = RESERVED
        /\ ~Stored(rid) => id = 0

Matched ==
    /\ \A rid \in DOMAIN reservations : PointsAtReserved(rid)
    /\ \A r, s \in DOMAIN reservations :
          /\ Pending(r) /\ Pending(s)
          /\ reservations[r].optionId = reservations[s].optionId
          => r = s
    /\ \A id \in DOMAIN options : options[id].status = RESERVED =>
          \E rid \in DOMAIN reservations :
             Pending(rid) /\ reservations[rid].optionId = id

QInv == QuoteTypeOK /\ Matched

-----------------------------------------------------------------------------
(* Memberships. *)

(* The domains the counters give, and the record a reservation is. *)
LEMMA QuoteBasics ==
    ASSUME QuoteTypeOK
    PROVE  /\ TypeOK
           /\ DOMAIN reservations = 0 .. nextReservationId - 1
           /\ nextReservationId \in Nat
           /\ NoOne \notin Users
           /\ \A rid \in DOMAIN reservations : reservations[rid] \in Reservation
BY AddressAssumption DEF QuoteTypeOK, Addresses

(* What a pending, existing reservation says of its option. *)
LEMMA PendingOption ==
    ASSUME QInv, NEW rid, ReservationExists(rid),
           reservations[rid].status = PENDING
    PROVE  /\ rid \in DOMAIN reservations
           /\ Pending(rid)
           /\ reservations[rid].optionId \in DOMAIN options
           /\ options[reservations[rid].optionId].status = RESERVED
           /\ reservations[rid].buyer \in Users
           /\ reservations[rid] \in Reservation
<1>1. rid \in DOMAIN reservations /\ reservations[rid].optionId # 0
  BY DEF ReservationExists, HasStorageAt
<1>2. PointsAtReserved(rid)
  BY <1>1 DEF QInv, Matched
<1>3. Stored(rid)
  BY <1>1, <1>2 DEF PointsAtReserved
<1>4. reservations[rid] \in Reservation
  BY <1>1, QuoteBasics DEF QInv
<1> QED BY <1>1, <1>2, <1>3, <1>4 DEF PointsAtReserved, Pending, Stored, Reservation

-----------------------------------------------------------------------------
(* The options and the escrow. *)

(* Moving one option between live statuses leaves the escrow alone. *)
LEMMA LiveStep ==
    ASSUME TypeOK, NEW id \in DOMAIN options, NEW o \in Option,
           Live(options[id]), Live(o),
           Collateral(o) = Collateral(options[id]),
           CollateralToken(o) = CollateralToken(options[id]),
           options' = [options EXCEPT ![id] = o],
           UNCHANGED <<block, nextId, balance, feeRecipient>>
    PROVE  TypeOK' /\ \A t \in Tokens : EscrowStep(t)
<1>1. \A t \in Tokens : LockedBy(o, t) = LockedBy(options[id], t)
  BY DEF LockedBy
<1>2. \A t \in Tokens : LockedBy(o, t) \in Nat /\ balance[t][Pool] \in Nat
  BY LockedByNat, LockedNat
<1>3. balance' \in [Tokens -> Ledgers]
  BY Basics
<1>4. ASSUME NEW t \in Tokens
      PROVE  LET drop == LockedBy(options[id], t) - LockedBy(o, t)
             IN  /\ balance'[t][Pool] >= balance[t][Pool] - drop
                 /\ feeRecipient # Pool =>
                      balance'[t][Pool] = balance[t][Pool] - drop
  BY <1>1, <1>2
<1> QED BY <1>3, <1>4, SingleStep

(* reserveOption changes the status only. *)
LEMMA ReserveEscrow ==
    ASSUME TypeOK, NEW u \in Users, NEW id, NEW p, ReserveOption(u, id, p)
    PROVE  TypeOK' /\ \A t \in Tokens : EscrowStep(t)
<1> DEFINE n == [options[id] EXCEPT !.status = RESERVED]
<1>1. id \in DOMAIN options /\ options[id].status = OPEN
  BY DEF ReserveOption, Exists
<1>2. options[id] \in Option
  BY <1>1, Basics
<1>3. n \in Option /\ options' = [options EXCEPT ![id] = n]
  BY <1>2 DEF ReserveOption, SetStatus, Option, Statuses
<1>4. /\ Collateral(n) = Collateral(options[id])
      /\ CollateralToken(n) = CollateralToken(options[id])
  BY <1>2 DEF Collateral, CollateralToken, StrikeValue, Option
<1>5. Live(n) /\ Live(options[id])
  BY <1>1, <1>2 DEF Live, Option
<1>6. UNCHANGED <<block, nextId, balance, feeRecipient>>
  BY DEF ReserveOption
<1> HIDE DEF n
<1> QED BY <1>1, <1>3, <1>4, <1>5, <1>6, LiveStep

(* executeReservation sells a reserved option. *)
LEMMA ExecuteEscrow ==
    ASSUME QInv, NEW rid, NEW out, ExecuteReservation(rid, out)
    PROVE  TypeOK' /\ \A t \in Tokens : EscrowStep(t)
<1> DEFINE r == reservations[rid]
           id == r.optionId
           n == [options[id] EXCEPT !.buyer = r.buyer, !.status = PURCHASED]
<1>1. /\ id \in DOMAIN options /\ options[id].status = RESERVED
      /\ r.buyer \in Users
  BY PendingOption DEF ExecuteReservation
<1>2. TypeOK /\ options[id] \in Option
  BY <1>1, Basics, QuoteBasics DEF QInv
<1>3. n \in Option /\ options' = [options EXCEPT ![id] = n]
  BY <1>1, <1>2 DEF ExecuteReservation, Option, Statuses, Addresses
<1>4. /\ Collateral(n) = Collateral(options[id])
      /\ CollateralToken(n) = CollateralToken(options[id])
  BY <1>2 DEF Collateral, CollateralToken, StrikeValue, Option
<1>5. Live(n) /\ Live(options[id])
  BY <1>1, <1>2 DEF Live, Option
<1>6. UNCHANGED <<block, nextId, balance, feeRecipient>>
  BY DEF ExecuteReservation
<1> HIDE DEF n, id
<1> QED BY <1>1, <1>2, <1>3, <1>4, <1>5, <1>6, LiveStep

(* cancelReservation re-opens a reserved option. *)
LEMMA ReleaseEscrow ==
    ASSUME QInv, NEW rid, CancelReservation(rid)
    PROVE  TypeOK' /\ \A t \in Tokens : EscrowStep(t)
<1> DEFINE id == reservations[rid].optionId
           n == [options[id] EXCEPT !.status = OPEN]
<1>1. id \in DOMAIN options /\ options[id].status = RESERVED
  BY PendingOption DEF CancelReservation, Releasable
<1>2. TypeOK /\ options[id] \in Option
  BY <1>1, Basics, QuoteBasics DEF QInv
<1>3. n \in Option /\ options' = [options EXCEPT ![id] = n]
  BY <1>2 DEF CancelReservation, SetStatus, Option, Statuses
<1>4. /\ Collateral(n) = Collateral(options[id])
      /\ CollateralToken(n) = CollateralToken(options[id])
  BY <1>2 DEF Collateral, CollateralToken, StrikeValue, Option
<1>5. Live(n) /\ Live(options[id])
  BY <1>1, <1>2 DEF Live, Option
<1>6. UNCHANGED <<block, nextId, balance, feeRecipient>>
  BY DEF CancelReservation
<1> HIDE DEF n, id
<1> QED BY <1>1, <1>2, <1>3, <1>4, <1>5, <1>6, LiveStep

(* exercise of a call: the underlying leaves, the strike is paid in BTC. *)
LEMMA ExerciseCallEscrow ==
    ASSUME TypeOK, NEW u \in Users, NEW id, NEW out, ExerciseCall(u, id, out)
    PROVE  TypeOK' /\ \A t \in Tokens : EscrowStep(t)
<1> DEFINE o == options[id]
           n == [o EXCEPT !.status = EXERCISED]
           c == o.underlyingAmount
           fee == FeeOf(c, EXERCISE_FEE_BPS)
<1>1. id \in DOMAIN options /\ o \in Option
  BY Basics DEF ExerciseCall, Exists
<1>2. c \in Nat /\ fee \in 0..c
  BY <1>1, FeeBounds DEF Option
<1>3. /\ options' = [options EXCEPT ![id] = n] /\ n \in Option
      /\ \A t \in Tokens : LockedBy(n, t) = 0
  BY <1>1, ClosedRecord DEF ExerciseCall, SetStatus
<1>4. \A t \in Tokens : LockedBy(o, t) = IF t = Underlying THEN c ELSE 0
  BY DEF ExerciseCall, LockedBy, Live, Collateral, CollateralToken
<1>5. /\ Affords(balance, Underlying, Pool, c)
      /\ balance' = Pay(Pay(balance, Underlying, Pool, u, c - fee),
                        Underlying, Pool, feeRecipient, fee)
      /\ block' = block /\ nextId' = nextId /\ feeRecipient' = feeRecipient
  BY DEF ExerciseCall
<1> HIDE DEF o, n, c, fee
<1>6. /\ balance' \in [Tokens -> Ledgers]
      /\ \A t \in Tokens : balance'[t][Pool] =
            balance[t][Pool] - (IF t = Underlying THEN c ELSE 0)
                + (IF t = Underlying /\ feeRecipient = Pool THEN fee ELSE 0)
  <2>1. /\ Underlying \in Tokens /\ feeRecipient \in Addresses
        /\ balance \in [Tokens -> Ledgers]
    BY Basics
  <2>2. PICK n2 : n2 = balance'
    OBVIOUS
  <2>3. n2 = Pay(Pay(balance, Underlying, Pool, u, c - fee),
                 Underlying, Pool, feeRecipient, fee)
    BY <1>5, <2>2
  <2>4. /\ n2 \in [Tokens -> Ledgers]
        /\ \A t \in Tokens : n2[t][Pool] =
              balance[t][Pool] - (IF t = Underlying THEN c ELSE 0)
                + (IF t = Underlying /\ feeRecipient = Pool THEN fee ELSE 0)
    BY <1>2, <1>5, <2>1, <2>3, PayoutWithFee
  <2> QED BY <2>2, <2>4
<1>7. ASSUME NEW t \in Tokens
      PROVE  LET drop == LockedBy(o, t) - LockedBy(n, t)
             IN  /\ balance'[t][Pool] >= balance[t][Pool] - drop
                 /\ feeRecipient # Pool =>
                      balance'[t][Pool] = balance[t][Pool] - drop
  BY <1>2, <1>3, <1>4, <1>6, LockedNat
<1> QED BY <1>1, <1>3, <1>5, <1>6, <1>7, SingleStep DEF o

(* Every step of the pool keeps the option types and the escrow. *)
LEMMA QuoteEscrow ==
    ASSUME QInv, [QuoteNext]_quoteVars
    PROVE  TypeOK' /\ \A t \in Tokens : EscrowStep(t)
<1>0. TypeOK
  BY QuoteBasics DEF QInv
<1>1. CASE UNCHANGED quoteVars
  BY <1>0, <1>1, QuietStep DEF quoteVars, vars, TypeOK
<1>2. CASE QuoteNextBlock
  BY <1>0, <1>2, QuietStep DEF QuoteNextBlock, NextBlock, TypeOK
<1>3. CASE QuotePermissionless
  <2>1. CASE \E rid \in DOMAIN reservations, out \in Outputs :
                ExecuteReservation(rid, out)
    BY <2>1, ExecuteEscrow
  <2>2. CASE \E rid \in DOMAIN reservations : CancelReservation(rid)
    BY <2>2, ReleaseEscrow
  <2>3. CASE \E id \in DOMAIN options : QuoteSettle(id)
    BY <1>0, <2>3, SettleStep DEF QuoteSettle
  <2>4. CASE \E p \in AllPrices : AskPrice(p)
    BY <1>0, <2>4, QuietStep DEF AskPrice, vars, TypeOK
  <2>5. CASE \E out \in Outputs : VerifyStray(out)
    BY <1>0, <2>5, QuietStep DEF VerifyStray, vars, TypeOK
  <2> QED BY <1>3, <2>1, <2>2, <2>3, <2>4, <2>5 DEF QuotePermissionless
<1>4. ASSUME NEW u \in Users, QuoteSignedBy(u)
      PROVE  TypeOK' /\ \A t \in Tokens : EscrowStep(t)
  <2>1. CASE \E type \in OptionTypes, k \in Strikes, a \in Amounts,
                p \in Premiums, e \in Expiries :
                QuoteWriteOption(u, type, k, a, p, e)
    BY <1>0, <2>1, WriteStep DEF QuoteWriteOption, Expiries
  <2>2. CASE \E id \in DOMAIN options : QuoteCancelOption(u, id)
    BY <1>0, <2>2, CancelStep DEF QuoteCancelOption
  <2>3. CASE \E id \in DOMAIN options, p \in AllPrices : ReserveOption(u, id, p)
    BY <1>0, <2>3, ReserveEscrow
  <2>4. CASE \E id \in DOMAIN options : ExercisePut(u, id)
    BY <1>0, <2>4, ExerciseStep DEF ExercisePut
  <2>5. CASE \E id \in DOMAIN options, out \in Outputs : ExerciseCall(u, id, out)
    BY <1>0, <2>5, ExerciseCallEscrow
  <2>6. CASE \E k \in KeysOf[u] : RegisterBtcPubkey(u, k)
    BY <1>0, <2>6, QuietStep DEF RegisterBtcPubkey, vars, TypeOK
  <2>7. CASE \E new \in FeeRecipients :
                UpdateFeeRecipient(u, new) /\ UNCHANGED btcVars
    BY <1>0, <2>7, QuietStep, AddressAssumption DEF UpdateFeeRecipient, TypeOK
  <2> QED BY <1>4, <2>1, <2>2, <2>3, <2>4, <2>5, <2>6, <2>7 DEF QuoteSignedBy
<1> QED BY <1>1, <1>2, <1>3, <1>4 DEF QuoteNext

-----------------------------------------------------------------------------
(* The types and the matching of reservations to options. *)

(* Options may be added, and move among statuses other than RESERVED, as   *)
(* long as the reservations stay as they are.                              *)
LEMMA MatchedFrame ==
    ASSUME Matched, UNCHANGED reservations,
           DOMAIN options \subseteq DOMAIN options',
           \A id \in DOMAIN options :
              options'[id].status = RESERVED <=> options[id].status = RESERVED,
           \A id \in DOMAIN options' \ DOMAIN options :
              options'[id].status # RESERVED
    PROVE  Matched'
<1>1. \A rid : /\ Stored(rid)' <=> Stored(rid)
               /\ Pending(rid)' <=> Pending(rid)
  BY DEF Stored, Pending
<1>2. ASSUME NEW rid \in DOMAIN reservations' PROVE PointsAtReserved(rid)'
  <2>1. PointsAtReserved(rid)
    BY DEF Matched
  <2>2. Pending(rid) => Stored(rid)
    BY DEF Pending
  <2> QED BY <1>1, <2>1, <2>2 DEF PointsAtReserved
<1>3. \A r, s \in DOMAIN reservations' :
         /\ Pending(r)' /\ Pending(s)'
         /\ reservations'[r].optionId = reservations'[s].optionId
         => r = s
  BY <1>1 DEF Matched
<1>4. \A id \in DOMAIN options' : options'[id].status = RESERVED =>
         \E rid \in DOMAIN reservations' :
            Pending(rid)' /\ reservations'[rid].optionId = id
  BY <1>1 DEF Matched
<1> QED BY <1>2, <1>3, <1>4 DEF Matched

(* The statuses a type 0 method leaves behind. *)
LEMMA OtherStatuses ==
    ASSUME TypeOK, NEW u, NEW id \in DOMAIN options,
           CancelOption(u, id) \/ Settle(id) \/ Exercise(u, id)
    PROVE  /\ DOMAIN options' = DOMAIN options
           /\ \A i \in DOMAIN options :
                 options'[i].status = RESERVED <=> options[i].status = RESERVED
<1>1. \E s \in {CANCELLED, EXPIRED, EXERCISED} :
         options' = [options EXCEPT ![id].status = s]
  BY DEF CancelOption, Settle, Exercise, SetStatus
<1>2. options[id].status \in {OPEN, PURCHASED}
  BY DEF CancelOption, Settle, CanSettle, Exercise, MayCancel, MayExercise
<1>3. options[id] \in Option
  BY Basics
<1> QED BY <1>1, <1>2, <1>3 DEF Option

(* Types of what the reservations add, when only options change. *)
LEMMA QuoteTypeFrame ==
    ASSUME QuoteTypeOK, TypeOK', DOMAIN options \subseteq DOMAIN options',
           UNCHANGED <<pubkeys, nextReservationId, reservations, scriptOf>>,
           consumed' \subseteq Outputs
    PROVE  QuoteTypeOK'
BY DEF QuoteTypeOK

(* Methods that leave the reservations alone. *)
LEMMA FrameStep ==
    ASSUME QInv, TypeOK', UNCHANGED reservationVars,
           consumed' \subseteq Outputs,
           DOMAIN options \subseteq DOMAIN options',
           \A id \in DOMAIN options :
              options'[id].status = RESERVED <=> options[id].status = RESERVED,
           \A id \in DOMAIN options' \ DOMAIN options :
              options'[id].status # RESERVED
    PROVE  QInv'
BY MatchedFrame, QuoteTypeFrame DEF QInv, reservationVars

(* writeOption adds an open option. *)
LEMMA WriteMatched ==
    ASSUME QInv, TypeOK', NEW u, NEW type, NEW k, NEW a, NEW p, NEW e,
           QuoteWriteOption(u, type, k, a, p, e)
    PROVE  QInv'
<1> DEFINE o == NewOption(u, type, k, a, p, e)
<1>1. DOMAIN options = 0 .. nextId - 1 /\ nextId \in Nat
  BY QuoteBasics, Basics DEF QInv, TypeOK
<1>2. options' = [id \in 0 .. nextId |-> IF id = nextId THEN o ELSE options[id]]
  BY DEF QuoteWriteOption, WriteOption, Extended
<1>3. o.status = OPEN
  BY DEF NewOption
<1> HIDE DEF o
<1>4. /\ DOMAIN options \subseteq DOMAIN options'
      /\ \A id \in DOMAIN options : options'[id] = options[id]
      /\ \A id \in DOMAIN options' \ DOMAIN options : options'[id] = o
  BY <1>1, <1>2
<1>5. UNCHANGED reservationVars /\ consumed' \subseteq Outputs
  BY DEF QuoteWriteOption, btcVars, bridgeVars, QInv, QuoteTypeOK
<1> QED BY <1>3, <1>4, <1>5, FrameStep

(* reserveOption adds the one pending reservation of the option. *)
LEMMA ReserveMatched ==
    ASSUME QInv, TypeOK', NEW u \in Users, NEW id, NEW p,
           ReserveOption(u, id, p)
    PROVE  QInv'
<1>0. PICK n : n = nextReservationId
  OBVIOUS
<1> DEFINE w == options[id].writer
           amount == BtcAmount(options[id], p)
           script == Bridge!CsvScript(pubkeys[w], CSV_BLOCKS)
           r == NewReservation(id, u, amount, script)
<1>1. /\ DOMAIN reservations = 0 .. n - 1 /\ n \in Nat
      /\ u # NoOne /\ NoOne \notin Users
      /\ DOMAIN options = 0 .. nextId - 1 /\ nextId \in Nat
      /\ block \in Nat
  BY <1>0, QuoteBasics, Basics DEF QInv, TypeOK
<1>2. /\ id \in DOMAIN options /\ options[id].status = OPEN
      /\ options' = [options EXCEPT ![id].status = RESERVED]
      /\ reservations' =
           [rid \in 0 .. n |-> IF rid = n THEN r ELSE reservations[rid]]
      /\ nextReservationId' = n + 1
      /\ amount \in 1 .. MaxU64 /\ pubkeys[w] # NoKey
      /\ UNCHANGED <<pubkeys, scriptOf>>
  BY <1>0 DEF ReserveOption, Exists, SetStatus
<1>3. options[id] \in Option
  BY <1>2, QuoteBasics, Basics DEF QInv
<1>4. r \in Reservation
  <2>1. pubkeys[w] \in Keys
    BY <1>2, <1>3 DEF QInv, QuoteTypeOK, Option
  <2>2. script \in Scripts
    BY <2>1 DEF Scripts
  <2>3. id \in Nat /\ amount \in Nat
    BY <1>1, <1>2, ReservationAssumption
  <2>4. block + RESERVATION_EXPIRY_BLOCKS \in Nat
    BY <1>1, ReservationAssumption
  <2> HIDE DEF script, amount
  <2> QED BY <2>2, <2>3, <2>4 DEF NewReservation, Reservation
<1>5. r.buyer = u /\ r.optionId = id /\ r.status = PENDING
  BY DEF NewReservation
<1> HIDE DEF r, amount, script
<1>6. /\ DOMAIN reservations' = 0 .. n
      /\ reservations'[n] = r
      /\ \A rid \in DOMAIN reservations : reservations'[rid] = reservations[rid]
      /\ \A rid \in 0 .. n : rid # n => rid \in DOMAIN reservations
  BY <1>1, <1>2
<1>7. /\ Pending(n)' /\ Stored(n)'
      /\ \A rid \in DOMAIN reservations :
            (Stored(rid)' <=> Stored(rid)) /\ (Pending(rid)' <=> Pending(rid))
  BY <1>1, <1>5, <1>6 DEF Stored, Pending
<1>8. /\ DOMAIN options' = DOMAIN options
      /\ options'[id].status = RESERVED
      /\ \A i \in DOMAIN options : i # id => options'[i] = options[i]
  BY <1>2, <1>3 DEF Option
<1>9. \A rid \in DOMAIN reservations :
         Pending(rid) => reservations[rid].optionId # id
  BY <1>2 DEF QInv, Matched, PointsAtReserved
<1>10. QuoteTypeOK'
  <2>1. consumed' \subseteq Outputs
    BY DEF ReserveOption, Bridge!GetBtcPrice, QInv, QuoteTypeOK
  <2>2. reservations' \in [0 .. nextReservationId' - 1 -> Reservation]
    <3>1. nextReservationId' - 1 = n /\ nextReservationId' \in Nat
      BY <1>1, <1>2
    <3>2. \A rid \in 0 .. n : reservations'[rid] \in Reservation
      BY <1>4, <1>6, QuoteBasics DEF QInv
    <3> QED BY <1>2, <3>1, <3>2
  <2>3. nextReservationId' \in Nat
    BY <1>1, <1>2
  <2> QED BY <1>2, <1>8, <2>1, <2>2, <2>3 DEF QInv, QuoteTypeOK
<1>11. Matched'
  <2>1. ASSUME NEW rid \in DOMAIN reservations' PROVE PointsAtReserved(rid)'
    <3>1. CASE rid = n
      BY <1>2, <1>5, <1>6, <1>7, <1>8, <3>1 DEF PointsAtReserved
    <3>2. CASE rid # n
      <4>1. rid \in DOMAIN reservations /\ PointsAtReserved(rid)
        BY <1>6, <3>2 DEF QInv, Matched
      <4>2. Pending(rid) => Stored(rid)
        BY DEF Pending
      <4> QED BY <1>6, <1>7, <1>8, <4>1, <4>2 DEF PointsAtReserved
    <3> QED BY <3>1, <3>2
  <2>2. ASSUME NEW x \in DOMAIN reservations', NEW y \in DOMAIN reservations',
               Pending(x)', Pending(y)',
               reservations'[x].optionId = reservations'[y].optionId
        PROVE  x = y
    BY <1>5, <1>6, <1>7, <1>9, <2>2 DEF QInv, Matched
  <2>3. ASSUME NEW i \in DOMAIN options', options'[i].status = RESERVED
        PROVE  \E rid \in DOMAIN reservations' :
                  Pending(rid)' /\ reservations'[rid].optionId = i
    <3>1. CASE i = id
      <4>1. n \in DOMAIN reservations'
        BY <1>1, <1>6
      <4> QED BY <1>5, <1>6, <1>7, <3>1, <4>1
    <3>2. CASE i # id
      <4>1. PICK rid \in DOMAIN reservations :
               Pending(rid) /\ reservations[rid].optionId = i
        BY <1>8, <2>3, <3>2 DEF QInv, Matched
      <4>2. rid \in DOMAIN reservations'
        BY <1>1, <1>6
      <4> QED BY <1>6, <1>7, <4>1, <4>2
    <3> QED BY <3>1, <3>2
  <2> QED BY <2>1, <2>2, <2>3 DEF Matched
<1> QED BY <1>10, <1>11 DEF QInv

(* A pending reservation ends, executed or cleared, and its option leaves  *)
(* RESERVED with it.                                                       *)
LEMMA EndMatched ==
    ASSUME Matched, NEW rid \in DOMAIN reservations, Pending(rid),
           NEW id, id = reservations[rid].optionId,
           NEW r, reservations' = [reservations EXCEPT ![rid] = r],
           \/ r.buyer # NoOne /\ r.status = EXECUTED /\ r.optionId = id
           \/ r.buyer = NoOne /\ r.optionId = 0,
           DOMAIN options' = DOMAIN options,
           \A i \in DOMAIN options : i # id => options'[i] = options[i],
           options'[id].status # RESERVED
    PROVE  Matched'
<1>1. /\ DOMAIN reservations' = DOMAIN reservations
      /\ reservations'[rid] = r
      /\ \A x \in DOMAIN reservations :
            x # rid => reservations'[x] = reservations[x]
  OBVIOUS
<1>2. /\ ~Pending(rid)'
      /\ \A x \in DOMAIN reservations : x # rid =>
            (Stored(x)' <=> Stored(x)) /\ (Pending(x)' <=> Pending(x))
  BY <1>1 DEF Stored, Pending
<1>3. \A x \in DOMAIN reservations :
         Pending(x) /\ x # rid => reservations[x].optionId # id
  BY DEF Matched
<1>4. id \in DOMAIN options
  BY DEF Matched, PointsAtReserved, Pending
<1>5. ASSUME NEW x \in DOMAIN reservations' PROVE PointsAtReserved(x)'
  <2>1. CASE x = rid
    BY <1>1, <1>2, <1>4, <2>1 DEF PointsAtReserved, Stored
  <2>2. CASE x # rid
    <3>1. x \in DOMAIN reservations /\ PointsAtReserved(x)
      BY <1>1 DEF Matched
    <3>2. Pending(x) => Stored(x)
      BY DEF Pending
    <3> QED BY <1>1, <1>2, <1>3, <2>2, <3>1, <3>2 DEF PointsAtReserved
  <2> QED BY <2>1, <2>2
<1>6. ASSUME NEW x \in DOMAIN reservations', NEW y \in DOMAIN reservations',
             Pending(x)', Pending(y)',
             reservations'[x].optionId = reservations'[y].optionId
      PROVE  x = y
  BY <1>1, <1>2, <1>6 DEF Matched
<1>7. ASSUME NEW i \in DOMAIN options', options'[i].status = RESERVED
      PROVE  \E x \in DOMAIN reservations' :
                Pending(x)' /\ reservations'[x].optionId = i
  <2>1. i # id /\ i \in DOMAIN options /\ options[i].status = RESERVED
    BY <1>7
  <2>2. PICK x \in DOMAIN reservations :
           Pending(x) /\ reservations[x].optionId = i
    BY <2>1 DEF Matched
  <2>3. x # rid
    BY <2>1, <2>2
  <2> QED BY <1>1, <1>2, <2>2, <2>3
<1> QED BY <1>5, <1>6, <1>7 DEF Matched

(* executeReservation: the reservation becomes the record of the sale. *)
LEMMA ExecuteMatched ==
    ASSUME QInv, TypeOK', NEW rid, NEW out \in Outputs,
           ExecuteReservation(rid, out)
    PROVE  QInv'
<1> DEFINE old == reservations[rid]
           id == old.optionId
           r == [old EXCEPT !.status = EXECUTED]
<1>1. /\ rid \in DOMAIN reservations /\ Pending(rid)
      /\ id \in DOMAIN options
      /\ old.buyer \in Users /\ old \in Reservation
  BY PendingOption DEF ExecuteReservation
<1>2. /\ options' = [options EXCEPT ![id].buyer = old.buyer,
                                    ![id].status = PURCHASED]
      /\ reservations' = [reservations EXCEPT ![rid] = r]
      /\ SetScript(rid, old.csvScriptHash)
      /\ consumed' = consumed \cup {out}
      /\ out.script = old.csvScriptHash
      /\ UNCHANGED <<pubkeys, nextReservationId>>
  BY DEF ExecuteReservation, Bridge!VerifyBtcOutput
<1>3. options[id] \in Option /\ NoOne \notin Users
  BY <1>1, Basics, QuoteBasics DEF QInv
<1>4. /\ r \in Reservation /\ r.buyer # NoOne /\ r.status = EXECUTED
      /\ r.optionId = id
  BY <1>1, <1>3 DEF Reservation
<1>5. /\ DOMAIN options' = DOMAIN options
      /\ \A i \in DOMAIN options : i # id => options'[i] = options[i]
      /\ options'[id].status # RESERVED
  BY <1>1, <1>2, <1>3 DEF Option
<1>6. Matched'
  <2>1. PICK n, i : n = r /\ i = id
    OBVIOUS
  <2>2. i = reservations[rid].optionId /\ Matched
    BY <2>1 DEF QInv
  <2>3. reservations' = [reservations EXCEPT ![rid] = n]
    BY <1>2, <2>1
  <2>4. n.buyer # NoOne /\ n.status = EXECUTED /\ n.optionId = i
    BY <1>4, <2>1
  <2>5. /\ DOMAIN options' = DOMAIN options
        /\ \A x \in DOMAIN options : x # i => options'[x] = options[x]
        /\ options'[i].status # RESERVED
    BY <1>5, <2>1
  <2> HIDE DEF r, id
  <2> QED BY <1>1, <2>2, <2>3, <2>4, <2>5, EndMatched
<1> HIDE DEF r, id
<1>7. QuoteTypeOK'
  <2>1. reservations' \in [0 .. nextReservationId' - 1 -> Reservation]
    BY <1>1, <1>2, <1>4 DEF QInv, QuoteTypeOK
  <2>2. old.csvScriptHash \in Scripts
    BY <1>2 DEF Outputs
  <2>3. /\ DOMAIN scriptOf' = DOMAIN scriptOf \cup {id}
        /\ \A i \in DOMAIN scriptOf' : scriptOf'[i] =
              IF i = id THEN old.csvScriptHash ELSE scriptOf[i]
    BY <1>2 DEF SetScript, id
  <2>4. \A i \in DOMAIN scriptOf' : scriptOf'[i] \in Scripts
    BY <2>2, <2>3 DEF QInv, QuoteTypeOK
  <2>5. DOMAIN scriptOf' \subseteq DOMAIN options'
    BY <1>1, <1>5, <2>3 DEF QInv, QuoteTypeOK
  <2>6. consumed' \subseteq Outputs
    BY <1>2 DEF QInv, QuoteTypeOK
  <2> QED BY <1>2, <2>1, <2>4, <2>5, <2>6 DEF QInv, QuoteTypeOK
<1> QED BY <1>6, <1>7 DEF QInv

(* cancelReservation: the record is cleared and the option open again. *)
LEMMA ReleaseMatched ==
    ASSUME QInv, TypeOK', NEW rid, CancelReservation(rid)
    PROVE  QInv'
<1> DEFINE old == reservations[rid]
           id == old.optionId
<1>1. /\ rid \in DOMAIN reservations /\ Pending(rid)
      /\ id \in DOMAIN options
  BY PendingOption DEF CancelReservation, Releasable
<1>2. /\ options' = [options EXCEPT ![id].status = OPEN]
      /\ reservations' = [reservations EXCEPT ![rid] = Cleared]
      /\ UNCHANGED <<pubkeys, nextReservationId, scriptOf, consumed>>
  BY DEF CancelReservation, SetStatus, bridgeVars
<1>3. options[id] \in Option
  BY <1>1, Basics, QuoteBasics DEF QInv
<1>4. Cleared \in Reservation /\ Cleared.buyer = NoOne /\ Cleared.optionId = 0
  BY DEF Cleared, Reservation
<1>5. /\ DOMAIN options' = DOMAIN options
      /\ \A i \in DOMAIN options : i # id => options'[i] = options[i]
      /\ options'[id].status = OPEN
  BY <1>1, <1>2, <1>3 DEF Option
<1> HIDE DEF id
<1>6. Matched'
  BY <1>1, <1>2, <1>4, <1>5, EndMatched DEF QInv, id
<1>7. reservations' \in [0 .. nextReservationId' - 1 -> Reservation]
  BY <1>1, <1>2, <1>4 DEF QInv, QuoteTypeOK
<1>8. QuoteTypeOK'
  BY <1>2, <1>5, <1>7 DEF QInv, QuoteTypeOK
<1> QED BY <1>6, <1>8 DEF QInv

(* Cancelling, settling and exercising touch no reserved option. *)
LEMMA CloseMatched ==
    ASSUME QInv, TypeOK', NEW u, NEW id \in DOMAIN options,
           CancelOption(u, id) \/ Settle(id) \/ Exercise(u, id),
           UNCHANGED btcVars
    PROVE  QInv'
<1>1. /\ DOMAIN options' = DOMAIN options
      /\ \A i \in DOMAIN options :
            options'[i].status = RESERVED <=> options[i].status = RESERVED
  BY OtherStatuses, QuoteBasics DEF QInv
<1>2. UNCHANGED reservationVars /\ consumed' \subseteq Outputs
  BY DEF btcVars, bridgeVars, QInv, QuoteTypeOK
<1> QED BY <1>1, <1>2, FrameStep

(* The same for a call, whose exercise counts an output. *)
LEMMA ExerciseCallMatched ==
    ASSUME QInv, TypeOK', NEW u, NEW id, NEW out \in Outputs,
           ExerciseCall(u, id, out)
    PROVE  QInv'
<1>1. /\ id \in DOMAIN options /\ options[id].status = PURCHASED
      /\ options' = [options EXCEPT ![id].status = EXERCISED]
      /\ consumed' = consumed \cup {out}
      /\ UNCHANGED reservationVars
  BY DEF ExerciseCall, Exists, SetStatus, Bridge!VerifyBtcOutput
<1>2. options[id] \in Option
  BY <1>1, Basics, QuoteBasics DEF QInv
<1>3. /\ DOMAIN options' = DOMAIN options
      /\ \A i \in DOMAIN options :
            options'[i].status = RESERVED <=> options[i].status = RESERVED
  BY <1>1, <1>2 DEF Option
<1>4. consumed' \subseteq Outputs
  BY <1>1 DEF QInv, QuoteTypeOK
<1> QED BY <1>1, <1>3, <1>4, FrameStep

(* Steps that touch neither options nor reservations. *)
LEMMA QuietMatched ==
    ASSUME QInv, TypeOK', UNCHANGED <<nextId, options>>,
           pubkeys' \in [Users -> Keys \cup {NoKey}],
           UNCHANGED <<nextReservationId, reservations, scriptOf>>,
           consumed' \subseteq Outputs
    PROVE  QInv'
<1>1. Matched'
  BY MatchedFrame DEF QInv
<1> QED BY <1>1 DEF QInv, QuoteTypeOK

(* Every step preserves the invariant. *)
LEMMA QuoteStep ==
    ASSUME QInv, [QuoteNext]_quoteVars
    PROVE  QInv'
<1>0. /\ TypeOK' /\ pubkeys \in [Users -> Keys \cup {NoKey}]
      /\ consumed \subseteq Outputs
  BY QuoteEscrow DEF QInv, QuoteTypeOK
<1>1. CASE UNCHANGED quoteVars
  BY <1>0, <1>1, QuietMatched
     DEF quoteVars, vars, btcVars, reservationVars, bridgeVars
<1>2. CASE QuoteNextBlock
  BY <1>0, <1>2, QuietMatched
     DEF QuoteNextBlock, NextBlock, btcVars, reservationVars, bridgeVars
<1>3. CASE QuotePermissionless
  <2>1. CASE \E rid \in DOMAIN reservations, out \in Outputs :
                ExecuteReservation(rid, out)
    BY <1>0, <2>1, ExecuteMatched
  <2>2. CASE \E rid \in DOMAIN reservations : CancelReservation(rid)
    BY <1>0, <2>2, ReleaseMatched
  <2>3. CASE \E id \in DOMAIN options : QuoteSettle(id)
    BY <1>0, <2>3, CloseMatched DEF QuoteSettle
  <2>4. CASE \E p \in AllPrices : AskPrice(p)
    BY <1>0, <2>4, QuietMatched
       DEF AskPrice, Bridge!GetBtcPrice, vars, reservationVars
  <2>5. CASE \E out \in Outputs : VerifyStray(out)
    BY <1>0, <2>5, QuietMatched
       DEF VerifyStray, Bridge!VerifyBtcOutput, vars, reservationVars
  <2> QED BY <1>3, <2>1, <2>2, <2>3, <2>4, <2>5 DEF QuotePermissionless
<1>4. ASSUME NEW u \in Users, QuoteSignedBy(u)
      PROVE  QInv'
  <2>1. CASE \E type \in OptionTypes, k \in Strikes, a \in Amounts,
                p \in Premiums, e \in Expiries :
                QuoteWriteOption(u, type, k, a, p, e)
    BY <1>0, <2>1, WriteMatched
  <2>2. CASE \E id \in DOMAIN options : QuoteCancelOption(u, id)
    BY <1>0, <2>2, CloseMatched DEF QuoteCancelOption
  <2>3. CASE \E id \in DOMAIN options, p \in AllPrices : ReserveOption(u, id, p)
    BY <1>0, <2>3, ReserveMatched
  <2>4. CASE \E id \in DOMAIN options : ExercisePut(u, id)
    BY <1>0, <2>4, CloseMatched DEF ExercisePut
  <2>5. CASE \E id \in DOMAIN options, out \in Outputs : ExerciseCall(u, id, out)
    BY <1>0, <2>5, ExerciseCallMatched
  <2>6. CASE \E k \in KeysOf[u] : RegisterBtcPubkey(u, k)
    <3>1. PICK k \in KeysOf[u] : RegisterBtcPubkey(u, k)
      BY <2>6
    <3>2. k \in Keys
      BY DEF Keys
    <3> QED BY <1>0, <3>1, <3>2, QuietMatched
              DEF RegisterBtcPubkey, vars, bridgeVars
  <2>7. CASE \E new \in FeeRecipients :
                UpdateFeeRecipient(u, new) /\ UNCHANGED btcVars
    BY <1>0, <2>7, QuietMatched
       DEF UpdateFeeRecipient, btcVars, reservationVars, bridgeVars
  <2> QED BY <1>4, <2>1, <2>2, <2>3, <2>4, <2>5, <2>6, <2>7 DEF QuoteSignedBy
<1> QED BY <1>1, <1>2, <1>3, <1>4 DEF QuoteNext

(* Nothing is written or reserved at deployment. *)
LEMMA QuoteInitState ==
    ASSUME QuoteInit
    PROVE  QInv
<1>1. TypeOK
  BY InitState DEF QuoteInit
<1>2. DOMAIN options = {} /\ DOMAIN reservations = {}
  BY DEF QuoteInit, Init
<1>3. QuoteTypeOK
  BY <1>1, <1>2 DEF QuoteInit, QuoteTypeOK, Bridge!BridgeInit
<1>4. Matched
  BY <1>2 DEF Matched
<1> QED BY <1>3, <1>4 DEF QInv

(* The invariant holds throughout. *)
LEMMA QuoteInvariant == QuoteSpec => []QInv
<1>1. QuoteInit => QInv
  BY QuoteInitState
<1>2. QInv /\ [QuoteNext]_quoteVars => QInv'
  BY QuoteStep
<1> QED BY <1>1, <1>2, PTL DEF QuoteSpec

-----------------------------------------------------------------------------
(* Theorems. *)

(* The variables of the pool, its reservations and the bridge's registry   *)
(* keep their types, whatever the constants.                               *)
THEOREM QuoteTypeCorrect == QuoteSpec => []QuoteTypeOK
<1>1. QInv => QuoteTypeOK
  BY DEF QInv
<1> QED BY <1>1, QuoteInvariant, PTL

(* Whatever is reserved, released, executed and exercised, the pool holds  *)
(* the collateral of every open, reserved and purchased option.            *)
THEOREM QuotePoolSolvent == QuoteSpec => []Solvent
<1>1. QuoteInit => Solvent
  <2> SUFFICES ASSUME QuoteInit, NEW t \in Tokens
               PROVE  balance[t][Pool] >= Locked(t)
    BY DEF Solvent
  <2> QED BY InitState, SurplusMeaning DEF QuoteInit
<1>2. QInv /\ Solvent /\ [QuoteNext]_quoteVars => Solvent'
  <2> SUFFICES ASSUME QInv, Solvent, [QuoteNext]_quoteVars, NEW t \in Tokens
               PROVE  (balance[t][Pool] >= Locked(t))'
    BY DEF Solvent
  <2>1. TypeOK /\ TypeOK'
    BY QuoteBasics, QuoteEscrow DEF QInv
  <2>2. Surplus(t) \in Int /\ Surplus(t) >= 0
    BY <2>1, SurplusMeaning DEF Solvent
  <2>3. Surplus(t)' >= Surplus(t)
    BY QuoteEscrow DEF EscrowStep
  <2>4. Locked(t)' \in Nat /\ (balance[t][Pool])' \in Nat
    <3>1. Locked(t)' \in Nat
      BY <2>1, LockedType DEF TypeOK, Locked
    <3> QED BY <2>1, <3>1, AddressAssumption DEF TypeOK, Addresses
  <2> QED BY <2>2, <2>3, <2>4 DEF Surplus
<1> QED BY <1>1, <1>2, QuoteInvariant, PTL DEF QuoteSpec

(* An option is reserved exactly while one reservation of it is pending,   *)
(* for any number of options, users and reservations.                      *)
THEOREM OneReservationEach == QuoteSpec => []ReservedByOne
<1>1. QInv => ReservedByOne
  <2> SUFFICES ASSUME QInv, NEW id \in DOMAIN options
               PROVE  Cardinality(PendingFor(id)) =
                        IF options[id].status = RESERVED THEN 1 ELSE 0
    BY DEF ReservedByOne
  <2>1. CASE options[id].status = RESERVED
    <3>1. PICK rid \in DOMAIN reservations :
             Pending(rid) /\ reservations[rid].optionId = id
      BY <2>1 DEF QInv, Matched
    <3>2. PendingFor(id) = {rid}
      BY <3>1 DEF QInv, Matched, PendingFor
    <3> QED BY <2>1, <3>2, FS_Singleton
  <2>2. CASE options[id].status # RESERVED
    <3>1. PendingFor(id) = {}
      BY <2>2 DEF QInv, Matched, PointsAtReserved, PendingFor
    <3> QED BY <2>2, <3>1, FS_EmptySet
  <2> QED BY <2>1, <2>2
<1> QED BY <1>1, QuoteInvariant, PTL

(* A step that leaves every reserved option as it is keeps reservations.   *)
KeptFor(rid) ==
    LET r == reservations[rid]
    IN  \/ options'[r.optionId] = options[r.optionId]
        \/ options'[r.optionId] =
              [options[r.optionId] EXCEPT !.buyer = r.buyer, !.status = PURCHASED]

(* Until it lapses, nobody but the one it names takes a reserved option:   *)
(* no cancellation, second sale, second reservation or early release.      *)
THEOREM ReservationsAreKept == QuoteSpec => ReservationHolds
<1>1. ASSUME QInv, QuoteNext, NEW rid \in DOMAIN reservations,
             Pending(rid), block < reservations[rid].expiryBlock
      PROVE  KeptFor(rid)
  <2> DEFINE id == reservations[rid].optionId
  <2>0. /\ id \in DOMAIN options /\ options[id].status = RESERVED
        /\ options[id] \in Option
        /\ DOMAIN options = 0 .. nextId - 1 /\ nextId \in Nat
        /\ block \in Nat /\ reservations[rid].expiryBlock \in Nat
    <3>1. id \in DOMAIN options /\ options[id].status = RESERVED
      BY <1>1 DEF QInv, Matched, PointsAtReserved, Pending
    <3>2. reservations[rid].expiryBlock \in Nat
      BY <1>1, QuoteBasics DEF QInv, Reservation
    <3> QED BY <1>1, <3>1, <3>2, QuoteBasics, Basics DEF QInv, TypeOK
  <2>1. ASSUME options' = options PROVE KeptFor(rid)
    BY <2>1 DEF KeptFor
  <2>2. ASSUME NEW i \in DOMAIN options, options[i].status # RESERVED,
               NEW s, options' = [options EXCEPT ![i].status = s]
        PROVE  KeptFor(rid)
    <3>1. i # id
      BY <2>0, <2>2
    <3> QED BY <2>0, <2>2, <3>1 DEF KeptFor
  <2>3. CASE QuoteNextBlock
    BY <2>1, <2>3 DEF QuoteNextBlock, NextBlock
  <2>4. CASE QuotePermissionless
    <3>1. ASSUME NEW x \in DOMAIN reservations, NEW out \in Outputs,
                 ExecuteReservation(x, out)
          PROVE  KeptFor(rid)
      <4> DEFINE j == reservations[x].optionId
      <4>1. /\ Pending(x) /\ j \in DOMAIN options
            /\ options' = [options EXCEPT
                              ![j].buyer = reservations[x].buyer,
                              ![j].status = PURCHASED]
        BY <1>1, <3>1, PendingOption DEF ExecuteReservation
      <4>2. CASE j = id
        <5>1. x = rid
          BY <1>1, <4>1, <4>2 DEF QInv, Matched
        <5> QED BY <2>0, <4>1, <5>1 DEF KeptFor, Option
      <4>3. CASE j # id
        BY <2>0, <4>1, <4>3 DEF KeptFor
      <4> QED BY <4>2, <4>3
    <3>2. ASSUME NEW x \in DOMAIN reservations, CancelReservation(x)
          PROVE  KeptFor(rid)
      <4> DEFINE j == reservations[x].optionId
      <4>1. /\ Pending(x) /\ reservations[x].expiryBlock <= block
            /\ options' = [options EXCEPT ![j].status = OPEN]
        BY <1>1, <3>2, PendingOption
           DEF CancelReservation, Releasable, SetStatus
      <4>2. j # id
        BY <1>1, <2>0, <4>1 DEF QInv, Matched
      <4> QED BY <2>0, <4>1, <4>2 DEF KeptFor
    <3>3. ASSUME NEW i \in DOMAIN options, QuoteSettle(i) PROVE KeptFor(rid)
      BY <2>2, <3>3 DEF QuoteSettle, Settle, CanSettle, SetStatus
    <3>4. CASE \E p \in AllPrices : AskPrice(p)
      BY <2>1, <3>4 DEF AskPrice, vars
    <3>5. CASE \E out \in Outputs : VerifyStray(out)
      BY <2>1, <3>5 DEF VerifyStray, vars
    <3> QED BY <2>4, <3>1, <3>2, <3>3, <3>4, <3>5 DEF QuotePermissionless
  <2>5. ASSUME NEW u \in Users, QuoteSignedBy(u) PROVE KeptFor(rid)
    <3>1. ASSUME NEW type, NEW k, NEW a, NEW p, NEW e,
                 QuoteWriteOption(u, type, k, a, p, e)
          PROVE  KeptFor(rid)
      <4>1. options'[id] = options[id]
        BY <2>0, <3>1 DEF QuoteWriteOption, WriteOption, Extended
      <4> QED BY <4>1 DEF KeptFor
    <3>2. ASSUME NEW i \in DOMAIN options, QuoteCancelOption(u, i)
          PROVE  KeptFor(rid)
      BY <2>2, <3>2 DEF QuoteCancelOption, CancelOption, SetStatus, MayCancel
    <3>3. ASSUME NEW i \in DOMAIN options, NEW p, ReserveOption(u, i, p)
          PROVE  KeptFor(rid)
      BY <2>2, <3>3 DEF ReserveOption, SetStatus
    <3>4. ASSUME NEW i \in DOMAIN options, ExercisePut(u, i)
          PROVE  KeptFor(rid)
      BY <2>2, <3>4 DEF ExercisePut, Exercise, SetStatus, MayExercise
    <3>5. ASSUME NEW i \in DOMAIN options, NEW out, ExerciseCall(u, i, out)
          PROVE  KeptFor(rid)
      BY <2>2, <3>5 DEF ExerciseCall, SetStatus
    <3>6. CASE \E k \in KeysOf[u] : RegisterBtcPubkey(u, k)
      BY <2>1, <3>6 DEF RegisterBtcPubkey, vars
    <3>7. CASE \E new \in FeeRecipients :
                  UpdateFeeRecipient(u, new) /\ UNCHANGED btcVars
      BY <2>1, <3>7 DEF UpdateFeeRecipient
    <3> QED BY <2>5, <3>1, <3>2, <3>3, <3>4, <3>5, <3>6, <3>7 DEF QuoteSignedBy
  <2> QED BY <1>1, <2>3, <2>4, <2>5 DEF QuoteNext
<1>2. QInv /\ [QuoteNext]_quoteVars =>
        [\A rid \in DOMAIN reservations :
            LET r  == reservations[rid]
                id == r.optionId
            IN  Pending(rid) /\ block < r.expiryBlock =>
                  \/ options'[id] = options[id]
                  \/ options'[id] = [options[id] EXCEPT !.buyer = r.buyer,
                                                        !.status = PURCHASED]]_quoteVars
  BY <1>1 DEF KeptFor
<1> QED BY <1>2, QuoteInvariant, PTL DEF QuoteSpec, ReservationHolds
-----------------------------------------------------------------------------
(* The pool implements the lifecycle with reservations. *)

USE DEF QuoteLifecycle!OPEN, QuoteLifecycle!PURCHASED,
        QuoteLifecycle!EXERCISED, QuoteLifecycle!EXPIRED,
        QuoteLifecycle!CANCELLED, QuoteLifecycle!RESERVED

(* A pending reservation runs out before its option does, and its buyer is *)
(* not the writer: what makes a late executeReservation a legal sale.      *)
ReservedInTime ==
    \A rid \in DOMAIN reservations : Pending(rid) =>
        LET r == reservations[rid]
            o == options[r.optionId]
        IN  r.expiryBlock < o.expiryBlock /\ r.buyer # o.writer

QuoteAdvances(o, n) ==
    \/ Advances(o, n)
    \/ /\ Terms(n) = Terms(o)
       /\ \/ /\ o.status = OPEN /\ n.status = RESERVED
             /\ block < o.expiryBlock
             /\ n.buyer = o.buyer
          \/ /\ o.status = RESERVED /\ n.status = OPEN
             /\ n.buyer = o.buyer
          \/ /\ o.status = RESERVED /\ n.status = PURCHASED
             /\ block < o.expiryBlock
             /\ n.buyer \notin {NoOne, o.writer}

QuoteContinues ==
    /\ block' = block
    /\ DOMAIN options \subseteq DOMAIN options'
    /\ \A id \in DOMAIN options :
          \/ options'[id] = options[id]
          \/ QuoteAdvances(options[id], options'[id])
    /\ \A id \in DOMAIN options' \ DOMAIN options : OnOffer(options'[id])

(* An edge of the records is a legal move of the abstract book. *)
LEMMA QuoteAdvanceIsLegal ==
    ASSUME NEW id \in DOMAIN options, id \in DOMAIN options',
           QuoteAdvances(options[id], options'[id])
    PROVE  QuoteLifecycle!LegalMove(id)
<1> DEFINE o == options[id]
           n == options'[id]
           then == [i \in DOMAIN options |-> Entry(options[i])]
           now  == [i \in DOMAIN options' |-> Entry(options'[i])]
<1>1. /\ then[id] = Entry(o) /\ now[id] = Entry(n)
      /\ Entry(o).status = o.status /\ Entry(n).status = n.status
      /\ Entry(o).holder = o.buyer /\ Entry(n).holder = n.buyer
      /\ Entry(o).terms = Terms(o) /\ Entry(n).terms = Terms(n)
      /\ Terms(o).expiryBlock = o.expiryBlock
      /\ Terms(o).writer = o.writer
  BY DEF Entry, Terms
<1>2. Terms(n) = Terms(o)
  BY DEF QuoteAdvances, Advances
<1> QED
  BY <1>1, <1>2
     DEF QuoteAdvances, Advances, GraceEnd, QuoteLifecycle!LegalMove,
         QuoteLifecycle!Withdraw, QuoteLifecycle!Sell,
         QuoteLifecycle!Reserve, QuoteLifecycle!Release,
         QuoteLifecycle!SellReserved, QuoteLifecycle!Assign,
         QuoteLifecycle!Exercise, QuoteLifecycle!Lapse,
         QuoteLifecycle!Moves, QuoteLifecycle!KeepsHolder,
         QuoteLifecycle!NewHolder, QuoteLifecycle!Expiry,
         QuoteLifecycle!GraceEnd

(* A transaction that continues the records is one of the lifecycle's. *)
LEMMA QuoteContinuesIsTransact ==
    ASSUME QuoteContinues
    PROVE  QuoteLifecycle!Transact
<1> DEFINE then == [i \in DOMAIN options |-> Entry(options[i])]
           now  == [i \in DOMAIN options' |-> Entry(options'[i])]
<1>1. DOMAIN then = DOMAIN options /\ DOMAIN now = DOMAIN options'
  OBVIOUS
<1>2. ASSUME NEW id \in DOMAIN options
      PROVE  now[id] = then[id] \/ QuoteLifecycle!LegalMove(id)
  BY QuoteAdvanceIsLegal DEF QuoteContinues
<1>3. ASSUME NEW id \in DOMAIN options' \ DOMAIN options
      PROVE  QuoteLifecycle!Listed(id)
  <2>1. OnOffer(options'[id])
    BY DEF QuoteContinues
  <2>2. now[id] = Entry(options'[id])
    OBVIOUS
  <2> QED BY <2>1, <2>2 DEF OnOffer, Entry, Terms, QuoteLifecycle!Listed
<1> QED
  BY <1>1, <1>2, <1>3
     DEF QuoteContinues, QuoteLifecycle!Transact, QuoteLifecycle!Ids

(* The moves shared with the type 0 pool. *)
LEMMA ContinuesIsQuoteContinues ==
    ASSUME Continues
    PROVE  QuoteContinues
BY DEF Continues, QuoteContinues, QuoteAdvances

(* One record replaced along an edge. *)
LEMMA OneQuoteAdvances ==
    ASSUME NEW id \in DOMAIN options, NEW n,
           options' = [options EXCEPT ![id] = n],
           QuoteAdvances(options[id], n), block' = block
    PROVE  QuoteContinues
<1>1. DOMAIN options' = DOMAIN options
  OBVIOUS
<1>2. /\ options'[id] = n
      /\ \A i \in DOMAIN options : i # id => options'[i] = options[i]
  OBVIOUS
<1> QED BY <1>1, <1>2 DEF QuoteContinues

(* reserveOption. *)
LEMMA ReserveContinues ==
    ASSUME TypeOK, NEW u, NEW id, NEW p, ReserveOption(u, id, p)
    PROVE  QuoteContinues
<1> DEFINE n == [options[id] EXCEPT !.status = RESERVED]
<1>1. /\ id \in DOMAIN options /\ options[id].status = OPEN
      /\ block < options[id].expiryBlock /\ block' = block
      /\ options' = [options EXCEPT ![id] = n]
  BY DEF ReserveOption, Exists, SetStatus
<1>2. options[id] \in Option
  BY <1>1, Basics
<1>3. QuoteAdvances(options[id], n)
  BY <1>1, <1>2 DEF QuoteAdvances, Option, Terms
<1> HIDE DEF n
<1> QED BY <1>1, <1>3, OneQuoteAdvances

(* executeReservation: the option has not expired, because its reservation *)
(* has not.                                                                *)
LEMMA ExecuteContinues ==
    ASSUME QInv, ReservedInTime, NEW rid, NEW out, ExecuteReservation(rid, out)
    PROVE  QuoteContinues
<1> DEFINE r == reservations[rid]
           id == r.optionId
           n == [options[id] EXCEPT !.buyer = r.buyer, !.status = PURCHASED]
<1>1. /\ rid \in DOMAIN reservations /\ Pending(rid) /\ block < r.expiryBlock
      /\ id \in DOMAIN options /\ options[id].status = RESERVED
      /\ r.buyer \in Users /\ r \in Reservation /\ block' = block
      /\ options' = [options EXCEPT ![id] = n]
  BY PendingOption DEF ExecuteReservation
<1>2. options[id] \in Option /\ block \in Nat
  BY <1>1, Basics, QuoteBasics DEF QInv, TypeOK
<1>3. r.expiryBlock < options[id].expiryBlock /\ r.buyer # options[id].writer
  BY <1>1 DEF ReservedInTime
<1>4. r.expiryBlock \in Nat /\ options[id].expiryBlock \in Nat
  BY <1>1, <1>2 DEF Reservation, Option
<1>5. block < options[id].expiryBlock /\ r.buyer # NoOne
  BY <1>1, <1>2, <1>3, <1>4, QuoteBasics DEF QInv
<1>6. n.status = PURCHASED /\ n.buyer = r.buyer /\ Terms(n) = Terms(options[id])
  BY <1>2 DEF Option, Terms
<1> HIDE DEF n
<1>7. QuoteAdvances(options[id], n)
  BY <1>1, <1>3, <1>5, <1>6 DEF QuoteAdvances
<1> HIDE DEF id
<1> QED BY <1>1, <1>7, OneQuoteAdvances

(* cancelReservation. *)
LEMMA ReleaseContinues ==
    ASSUME QInv, NEW rid, CancelReservation(rid)
    PROVE  QuoteContinues
<1> DEFINE id == reservations[rid].optionId
           n == [options[id] EXCEPT !.status = OPEN]
<1>1. /\ id \in DOMAIN options /\ options[id].status = RESERVED
      /\ block' = block /\ options' = [options EXCEPT ![id] = n]
  BY PendingOption DEF CancelReservation, Releasable, SetStatus
<1>2. options[id] \in Option
  BY <1>1, Basics, QuoteBasics DEF QInv
<1>3. QuoteAdvances(options[id], n)
  BY <1>1, <1>2 DEF QuoteAdvances, Option, Terms
<1> HIDE DEF n, id
<1> QED BY <1>1, <1>3, OneQuoteAdvances

(* Every transaction. *)
LEMMA QuoteTransaction ==
    ASSUME QInv, ReservedInTime, QuoteNext, ~QuoteNextBlock
    PROVE  QuoteContinues
<1>0. TypeOK
  BY QuoteBasics DEF QInv
<1>1. ASSUME options' = options, block' = block PROVE QuoteContinues
  BY <1>1 DEF QuoteContinues
<1>2. CASE QuotePermissionless
  <2>1. ASSUME NEW id \in DOMAIN options, QuoteSettle(id) PROVE Continues
    BY <1>0, <2>1, OneCloses DEF QuoteSettle, Settle, SetStatus, CanSettle
  <2>2. CASE \E p \in AllPrices : AskPrice(p)
    BY <1>1, <2>2 DEF AskPrice, vars
  <2>3. CASE \E out \in Outputs : VerifyStray(out)
    BY <1>1, <2>3 DEF VerifyStray, vars
  <2> QED
    BY <1>2, <2>1, <2>2, <2>3, ExecuteContinues, ReleaseContinues,
       ContinuesIsQuoteContinues DEF QuotePermissionless
<1>3. ASSUME NEW u \in Users, QuoteSignedBy(u) PROVE QuoteContinues
  <2>1. ASSUME NEW type, NEW k, NEW a, NEW p, NEW e,
               QuoteWriteOption(u, type, k, a, p, e)
        PROVE  Continues
    BY <1>0, <2>1, WriteContinues DEF QuoteWriteOption, WriteOption
  <2>2. ASSUME NEW id \in DOMAIN options, QuoteCancelOption(u, id)
        PROVE  Continues
    BY <1>0, <2>2, OneCloses DEF QuoteCancelOption, CancelOption, SetStatus, MayCancel
  <2>3. ASSUME NEW id \in DOMAIN options, ExercisePut(u, id) PROVE Continues
    BY <1>0, <2>3, OneCloses DEF ExercisePut, Exercise, SetStatus, MayExercise
  <2>4. ASSUME NEW id \in DOMAIN options, NEW out, ExerciseCall(u, id, out)
        PROVE  Continues
    BY <1>0, <2>4, OneCloses DEF ExerciseCall, SetStatus
  <2>5. CASE \E k \in KeysOf[u] : RegisterBtcPubkey(u, k)
    BY <1>1, <2>5 DEF RegisterBtcPubkey, vars
  <2>6. CASE \E new \in FeeRecipients :
                UpdateFeeRecipient(u, new) /\ UNCHANGED btcVars
    BY <1>1, <2>6 DEF UpdateFeeRecipient
  <2>7. CASE \E id \in DOMAIN options, p \in AllPrices : ReserveOption(u, id, p)
    BY <1>0, <2>7, ReserveContinues
  <2> QED
    BY <1>3, <2>1, <2>2, <2>3, <2>4, <2>5, <2>6, <2>7,
       ContinuesIsQuoteContinues DEF QuoteSignedBy
<1> QED BY <1>2, <1>3 DEF QuoteNext

(* A reservation that is pending after a step was pending before it, or is *)
(* the one the step made.                                                  *)
MadeNow(rid) ==
    LET r == reservations'[rid]
        o == options[r.optionId]
    IN  /\ r.optionId \in DOMAIN options
        /\ r.expiryBlock = block + RESERVATION_EXPIRY_BLOCKS
        /\ OutlivesReservation(o)
        /\ r.buyer # o.writer

LEMMA PendingBefore ==
    ASSUME QInv, [QuoteNext]_quoteVars, NEW rid \in DOMAIN reservations',
           Pending(rid)'
    PROVE  \/ /\ rid \in DOMAIN reservations
              /\ Pending(rid)
              /\ reservations'[rid] = reservations[rid]
           \/ MadeNow(rid)
<1> DEFINE Kept == /\ rid \in DOMAIN reservations
                   /\ Pending(rid)
                   /\ reservations'[rid] = reservations[rid]
<1>0. /\ reservations'[rid].buyer # NoOne
      /\ reservations'[rid].status = PENDING
      /\ DOMAIN reservations = 0 .. nextReservationId - 1
      /\ nextReservationId \in Nat
      /\ \A x \in DOMAIN reservations : reservations[x] \in Reservation
  BY QuoteBasics DEF Pending, Stored, QInv
<1>1. ASSUME reservations' = reservations PROVE Kept
  BY <1>0, <1>1 DEF Pending, Stored
<1>2. ASSUME NEW x, NEW out, ExecuteReservation(x, out) PROVE Kept
  <2>1. /\ x \in DOMAIN reservations
        /\ reservations' = [reservations EXCEPT ![x].status = EXECUTED]
    BY <1>2 DEF ExecuteReservation, ReservationExists
  <2>2. x # rid
    BY <1>0, <2>1 DEF Reservation
  <2> QED BY <1>0, <2>1, <2>2 DEF Pending, Stored
<1>3. ASSUME NEW x, CancelReservation(x) PROVE Kept
  <2>1. /\ x \in DOMAIN reservations
        /\ reservations' = [reservations EXCEPT ![x] = Cleared]
    BY <1>3 DEF CancelReservation, ReservationExists
  <2>2. x # rid
    BY <1>0, <2>1 DEF Cleared
  <2> QED BY <1>0, <2>1, <2>2 DEF Pending, Stored
<1>4. ASSUME NEW u, NEW id, NEW p, ReserveOption(u, id, p)
      PROVE  Kept \/ MadeNow(rid)
  <2> DEFINE amount == BtcAmount(options[id], p)
             script == Bridge!CsvScript(pubkeys[options[id].writer], CSV_BLOCKS)
             new == NewReservation(id, u, amount, script)
  <2>1. /\ id \in DOMAIN options /\ u # options[id].writer
        /\ OutlivesReservation(options[id])
        /\ reservations' = [x \in 0 .. nextReservationId |->
              IF x = nextReservationId THEN new ELSE reservations[x]]
    BY <1>4 DEF ReserveOption, Exists
  <2>2. /\ new.optionId = id /\ new.buyer = u
        /\ new.expiryBlock = block + RESERVATION_EXPIRY_BLOCKS
    BY DEF NewReservation
  <2> HIDE DEF new
  <2>3. CASE rid = nextReservationId
    BY <1>0, <2>1, <2>2, <2>3 DEF MadeNow
  <2>4. CASE rid # nextReservationId
    BY <1>0, <2>1, <2>4 DEF Pending, Stored
  <2> QED BY <2>3, <2>4
<1>5. CASE \/ UNCHANGED quoteVars
           \/ QuoteNextBlock
           \/ \E id \in DOMAIN options : QuoteSettle(id)
           \/ \E p \in AllPrices : AskPrice(p)
           \/ \E out \in Outputs : VerifyStray(out)
  BY <1>1, <1>5 DEF quoteVars, btcVars, reservationVars, QuoteNextBlock,
                    QuoteSettle, AskPrice, VerifyStray
<1>6. ASSUME NEW u \in Users, QuoteSignedBy(u) PROVE Kept \/ MadeNow(rid)
  <2>1. CASE \/ \E type \in OptionTypes, k \in Strikes, a \in Amounts,
                   p \in Premiums, e \in Expiries :
                   QuoteWriteOption(u, type, k, a, p, e)
             \/ \E id \in DOMAIN options : QuoteCancelOption(u, id)
             \/ \E id \in DOMAIN options : ExercisePut(u, id)
             \/ \E id \in DOMAIN options, out \in Outputs :
                   ExerciseCall(u, id, out)
             \/ \E k \in KeysOf[u] : RegisterBtcPubkey(u, k)
             \/ \E new \in FeeRecipients :
                   UpdateFeeRecipient(u, new) /\ UNCHANGED btcVars
    BY <1>1, <2>1 DEF QuoteWriteOption, QuoteCancelOption, ExercisePut,
                      ExerciseCall, RegisterBtcPubkey, btcVars, reservationVars
  <2> QED BY <1>4, <1>6, <2>1 DEF QuoteSignedBy
<1> QED BY <1>2, <1>3, <1>5, <1>6 DEF QuoteNext, QuotePermissionless

(* Terms are frozen, so a reservation made in time stays in time. *)
LEMMA InTimeStep ==
    ASSUME QInv, ReservedInTime, [QuoteNext]_quoteVars
    PROVE  ReservedInTime'
<1>1. ASSUME NEW id \in DOMAIN options
      PROVE  /\ options'[id].expiryBlock = options[id].expiryBlock
             /\ options'[id].writer = options[id].writer
  <2>1. CASE options' = options
    BY <2>1
  <2>2. CASE QuoteContinues
    BY <2>2 DEF QuoteContinues, QuoteAdvances, Advances, Terms
  <2> QED
    BY <2>1, <2>2, QuoteTransaction
       DEF quoteVars, vars, QuoteNextBlock, NextBlock
<1> SUFFICES ASSUME NEW rid \in DOMAIN reservations', Pending(rid)'
             PROVE  LET r == reservations'[rid]
                        o == options'[r.optionId]
                    IN  r.expiryBlock < o.expiryBlock /\ r.buyer # o.writer
  BY DEF ReservedInTime
<1>2. CASE MadeNow(rid)
  BY <1>1, <1>2 DEF MadeNow, OutlivesReservation
<1>3. CASE /\ rid \in DOMAIN reservations
           /\ Pending(rid)
           /\ reservations'[rid] = reservations[rid]
  <2>1. reservations[rid].optionId \in DOMAIN options
    BY <1>3 DEF QInv, Matched, PointsAtReserved, Pending
  <2> QED BY <1>1, <1>3, <2>1 DEF ReservedInTime
<1> QED BY <1>2, <1>3, PendingBefore

(* Reservations are made in time, and stay so. *)
LEMMA InTimeInvariant == QuoteSpec => []ReservedInTime
<1>1. QuoteInit => ReservedInTime
  BY DEF QuoteInit, ReservedInTime
<1>2. QInv /\ ReservedInTime /\ [QuoteNext]_quoteVars => ReservedInTime'
  BY InTimeStep
<1> QED BY <1>1, <1>2, QuoteInvariant, PTL DEF QuoteSpec

(* Reservations add a detour to the lifecycle and nothing else: what is    *)
(* reserved is sold before it expires, even if the reservation is executed *)
(* in the last block of its window.                                        *)
THEOREM QuotePoolImplementsLifecycle == QuoteSpec => QuoteImplementsLifecycle
<1>1. QuoteInit => QuoteLifecycle!Init
  <2> SUFFICES ASSUME QuoteInit PROVE QuoteLifecycle!Init
    OBVIOUS
  <2>1. block \in Nat /\ DOMAIN options = {}
    BY DEF QuoteInit, Init
  <2> QED BY <2>1 DEF QuoteLifecycle!Init
<1>2. QInv /\ ReservedInTime /\ [QuoteNext]_quoteVars
        => [QuoteLifecycle!Next]_(QuoteLifecycle!lifecycleVars)
  <2> SUFFICES ASSUME QInv, ReservedInTime, [QuoteNext]_quoteVars
               PROVE  [QuoteLifecycle!Next]_(QuoteLifecycle!lifecycleVars)
    OBVIOUS
  <2>1. CASE UNCHANGED quoteVars
    BY <2>1 DEF quoteVars, vars, QuoteLifecycle!lifecycleVars
  <2>2. CASE QuoteNextBlock
    BY <2>2 DEF QuoteNextBlock, NextBlock, QuoteLifecycle!Next,
                QuoteLifecycle!Tick
  <2>3. CASE QuoteNext /\ ~QuoteNextBlock
    BY <2>3, QuoteTransaction, QuoteContinuesIsTransact DEF QuoteLifecycle!Next
  <2> QED BY <2>1, <2>2, <2>3
<1> QED
  BY <1>1, <1>2, QuoteInvariant, InTimeInvariant, PTL
     DEF QuoteSpec, QuoteImplementsLifecycle, QuoteLifecycle!Spec
-----------------------------------------------------------------------------
(* Sales: what the five kinds of step do to them. *)

(* Nothing is reserved, sold, released or paid in Bitcoin. *)
QuietRecord(o, n) ==
    /\ Terms(n) = Terms(o) /\ n.buyer = o.buyer
    /\ Sold(n) <=> Sold(o)
    /\ ExercisedCall(n) <=> ExercisedCall(o)

QuoteQuiet ==
    /\ UNCHANGED <<nextReservationId, reservations, scriptOf>>
    /\ consumed \subseteq consumed'
    /\ DOMAIN options \subseteq DOMAIN options'
    /\ \A id \in DOMAIN options : QuietRecord(options[id], options'[id])
    /\ \A id \in DOMAIN options' \ DOMAIN options : OnOffer(options'[id])

(* Nothing at all happens to the options. *)
LEMMA QuietOptions ==
    ASSUME UNCHANGED <<options, nextReservationId, reservations, scriptOf>>,
           consumed \subseteq consumed'
    PROVE  QuoteQuiet
BY DEF QuoteQuiet, QuietRecord

(* One option closes; a call is not exercised. *)
LEMMA QuietClose ==
    ASSUME TypeOK, NEW id \in DOMAIN options, NEW s,
           \/ s = CANCELLED /\ options[id].status = OPEN
           \/ s = EXPIRED /\ options[id].status = PURCHASED
           \/ /\ s = EXERCISED /\ options[id].status = PURCHASED
              /\ options[id].optionType = PUT,
           options' = [options EXCEPT ![id].status = s], UNCHANGED btcVars
    PROVE  QuoteQuiet
<1> DEFINE n == [options[id] EXCEPT !.status = s]
<1>1. options[id] \in Option
  BY Basics
<1>2. QuietRecord(options[id], n)
  BY <1>1 DEF QuietRecord, Option, Terms, Sold, ExercisedCall
<1>3. /\ DOMAIN options' = DOMAIN options /\ options'[id] = n
      /\ \A i \in DOMAIN options : i # id => options'[i] = options[i]
  OBVIOUS
<1> HIDE DEF n
<1>4. \A i \in DOMAIN options : QuietRecord(options[i], options'[i])
  BY <1>2, <1>3 DEF QuietRecord
<1> QED BY <1>3, <1>4 DEF QuoteQuiet, btcVars, reservationVars, bridgeVars

(* writeOption adds an open option. *)
LEMMA QuietWrite ==
    ASSUME TypeOK, NEW u, NEW type, NEW k, NEW a, NEW p, NEW e,
           QuoteWriteOption(u, type, k, a, p, e)
    PROVE  QuoteQuiet
<1>1. Continues
  BY WriteContinues DEF QuoteWriteOption, WriteOption
<1>2. /\ DOMAIN options = 0 .. nextId - 1 /\ nextId \in Nat
      /\ options' = [id \in 0 .. nextId |-> IF id = nextId
                       THEN NewOption(u, type, k, a, p, e) ELSE options[id]]
  BY Basics DEF QuoteWriteOption, WriteOption, Extended, TypeOK
<1>3. \A id \in DOMAIN options : options'[id] = options[id]
  BY <1>2
<1> QED
  BY <1>1, <1>3 DEF QuoteQuiet, QuietRecord, Continues, QuoteWriteOption,
                    btcVars, reservationVars, bridgeVars

(* Every step is quiet or one of the four that deal in Bitcoin. *)
LEMMA QuoteKinds ==
    ASSUME QInv, [QuoteNext]_quoteVars
    PROVE  \/ QuoteQuiet
           \/ \E u \in Users, id \in DOMAIN options, p \in AllPrices :
                 ReserveOption(u, id, p)
           \/ \E rid \in DOMAIN reservations, out \in Outputs :
                 ExecuteReservation(rid, out)
           \/ \E rid \in DOMAIN reservations : CancelReservation(rid)
           \/ \E u \in Users, id \in DOMAIN options, out \in Outputs :
                 ExerciseCall(u, id, out)
<1>0. TypeOK
  BY QuoteBasics DEF QInv
<1>1. CASE UNCHANGED quoteVars \/ QuoteNextBlock
  BY <1>1, QuietOptions DEF quoteVars, vars, btcVars, reservationVars,
                            bridgeVars, QuoteNextBlock, NextBlock
<1>2. ASSUME NEW p, AskPrice(p) PROVE QuoteQuiet
  BY <1>2, QuietOptions DEF AskPrice, vars, reservationVars, Bridge!GetBtcPrice
<1>3. ASSUME NEW out, VerifyStray(out) PROVE QuoteQuiet
  BY <1>3, QuietOptions DEF VerifyStray, vars, reservationVars,
                            Bridge!VerifyBtcOutput
<1>4. ASSUME NEW id \in DOMAIN options, QuoteSettle(id) PROVE QuoteQuiet
  BY <1>0, <1>4, QuietClose DEF QuoteSettle, Settle, CanSettle, SetStatus
<1>5. ASSUME NEW u \in Users, NEW id \in DOMAIN options,
             QuoteCancelOption(u, id)
      PROVE  QuoteQuiet
  BY <1>0, <1>5, QuietClose DEF QuoteCancelOption, CancelOption, SetStatus, MayCancel
<1>6. ASSUME NEW u \in Users, NEW id \in DOMAIN options, ExercisePut(u, id)
      PROVE  QuoteQuiet
  BY <1>0, <1>6, QuietClose DEF ExercisePut, Exercise, SetStatus, MayExercise
<1>7. ASSUME NEW u \in Users, NEW k, RegisterBtcPubkey(u, k) PROVE QuoteQuiet
  BY <1>7, QuietOptions DEF RegisterBtcPubkey, vars, bridgeVars
<1>8. ASSUME NEW u \in Users, NEW new, UpdateFeeRecipient(u, new),
             UNCHANGED btcVars
      PROVE  QuoteQuiet
  BY <1>8, QuietOptions DEF UpdateFeeRecipient, btcVars, reservationVars,
                            bridgeVars
<1>9. CASE QuotePermissionless
  BY <1>2, <1>3, <1>4, <1>9 DEF QuotePermissionless
<1>10. ASSUME NEW u \in Users, QuoteSignedBy(u),
              ~(\E id \in DOMAIN options, p \in AllPrices :
                   ReserveOption(u, id, p)),
              ~(\E id \in DOMAIN options, out \in Outputs :
                   ExerciseCall(u, id, out))
       PROVE  QuoteQuiet
  BY <1>0, <1>5, <1>6, <1>7, <1>8, <1>10, QuietWrite DEF QuoteSignedBy
<1> QED BY <1>1, <1>9, <1>10 DEF QuoteNext

(* No sale is made or undone. *)
SalesKept ==
    /\ \A rid \in DOMAIN reservations : Executed(rid) =>
          rid \in DOMAIN reservations' /\ reservations'[rid] = reservations[rid]
    /\ \A rid \in DOMAIN reservations' : Executed(rid)' =>
          rid \in DOMAIN reservations /\ Executed(rid)

(* reserveOption adds a pending record and keeps the others. *)
LEMMA ReserveKeepsSales ==
    ASSUME QInv, NEW u, NEW id, NEW p, ReserveOption(u, id, p)
    PROVE  SalesKept
<1> DEFINE amount == BtcAmount(options[id], p)
           script == Bridge!CsvScript(pubkeys[options[id].writer], CSV_BLOCKS)
           new == NewReservation(id, u, amount, script)
<1>1. /\ DOMAIN reservations = 0 .. nextReservationId - 1
      /\ nextReservationId \in Nat
  BY QuoteBasics DEF QInv
<1>2. reservations' = [x \in 0 .. nextReservationId |->
          IF x = nextReservationId THEN new ELSE reservations[x]]
  BY DEF ReserveOption
<1>3. new.status = PENDING
  BY DEF NewReservation
<1> HIDE DEF new
<1>4. ASSUME NEW rid \in DOMAIN reservations', Executed(rid)'
      PROVE  rid \in DOMAIN reservations /\ Executed(rid)
  <2>1. reservations'[rid].status = EXECUTED /\ rid # nextReservationId
    BY <1>2, <1>3, <1>4 DEF Executed
  <2> QED BY <1>1, <1>2, <1>4, <2>1 DEF Executed, Stored
<1>5. ASSUME NEW rid \in DOMAIN reservations
      PROVE  rid \in DOMAIN reservations' /\ reservations'[rid] = reservations[rid]
  BY <1>1, <1>2
<1> QED BY <1>4, <1>5 DEF SalesKept

(* cancelReservation clears a pending record. *)
LEMMA ReleaseKeepsSales ==
    ASSUME QInv, NEW rid, CancelReservation(rid)
    PROVE  SalesKept
<1>1. /\ rid \in DOMAIN reservations /\ Pending(rid)
      /\ reservations' = [reservations EXCEPT ![rid] = Cleared]
  BY PendingOption DEF CancelReservation, Releasable
<1>2. ~Executed(rid)
  BY <1>1 DEF Pending, Executed
<1>3. /\ DOMAIN reservations' = DOMAIN reservations
      /\ reservations'[rid].status = PENDING
      /\ \A x \in DOMAIN reservations : x # rid =>
            reservations'[x] = reservations[x]
  BY <1>1 DEF Cleared
<1>4. ASSUME NEW x \in DOMAIN reservations', Executed(x)'
      PROVE  x \in DOMAIN reservations /\ Executed(x)
  <2>1. x # rid
    BY <1>3, <1>4 DEF Executed
  <2> QED BY <1>3, <1>4, <2>1 DEF Executed, Stored
<1> QED BY <1>2, <1>3, <1>4 DEF SalesKept

(* What executeReservation does to the records. *)
LEMMA ExecuteMakesSale ==
    ASSUME QInv, NEW rid, NEW out, ExecuteReservation(rid, out)
    PROVE  /\ rid \in DOMAIN reservations /\ Pending(rid)
           /\ reservations[rid].optionId \in DOMAIN options
           /\ options[reservations[rid].optionId].status = RESERVED
           /\ options[reservations[rid].optionId] \in Option
           /\ DOMAIN reservations' = DOMAIN reservations
           /\ Executed(rid)' /\ ~Executed(rid)
           /\ reservations'[rid].optionId = reservations[rid].optionId
           /\ reservations'[rid].buyer = reservations[rid].buyer
           /\ reservations'[rid].btcAmount = reservations[rid].btcAmount
           /\ reservations'[rid].csvScriptHash = reservations[rid].csvScriptHash
           /\ \A x \in DOMAIN reservations : x # rid =>
                 reservations'[x] = reservations[x]
<1>1. /\ rid \in DOMAIN reservations /\ Pending(rid)
      /\ reservations[rid].optionId \in DOMAIN options
      /\ options[reservations[rid].optionId].status = RESERVED
      /\ reservations[rid] \in Reservation /\ reservations[rid].buyer \in Users
      /\ reservations' = [reservations EXCEPT ![rid].status = EXECUTED]
  BY PendingOption DEF ExecuteReservation
<1>2. options[reservations[rid].optionId] \in Option /\ NoOne \notin Users
  BY <1>1, Basics, QuoteBasics DEF QInv
<1>3. reservations'[rid] = [reservations[rid] EXCEPT !.status = EXECUTED]
  BY <1>1
<1>4. /\ reservations'[rid].optionId = reservations[rid].optionId
      /\ reservations'[rid].buyer = reservations[rid].buyer
      /\ reservations'[rid].btcAmount = reservations[rid].btcAmount
      /\ reservations'[rid].csvScriptHash = reservations[rid].csvScriptHash
      /\ reservations'[rid].status = EXECUTED
  BY <1>1, <1>3 DEF Reservation
<1>5. Executed(rid)' /\ ~Executed(rid)
  BY <1>1, <1>2, <1>4 DEF Executed, Stored, Pending
<1> QED BY <1>1, <1>2, <1>3, <1>4, <1>5

(* Where no sale is made and the options keep buyers and scripts, every    *)
(* sold option still has the sale it had.                                  *)
LEMMA SoldKept ==
    ASSUME QInv, QInv', SoldThroughReservation, SalesKept,
           UNCHANGED scriptOf, DOMAIN options \subseteq DOMAIN options',
           \A id \in DOMAIN options :
              /\ options'[id].buyer = options[id].buyer
              /\ Sold(options'[id]) <=> Sold(options[id]),
           \A id \in DOMAIN options' \ DOMAIN options :
              options'[id].buyer = NoOne /\ ~Sold(options'[id])
    PROVE  SoldThroughReservation'
<1>1. ASSUME NEW id PROVE SalesOf(id)' = SalesOf(id)
  BY DEF SalesKept, SalesOf, Executed, Stored
<1> SUFFICES ASSUME NEW id \in DOMAIN options'
             PROVE  IF Sold(options'[id])
                    THEN \E rid \in DOMAIN reservations' :
                            /\ SalesOf(id)' = {rid}
                            /\ options'[id].buyer = reservations'[rid].buyer
                            /\ id \in DOMAIN scriptOf'
                            /\ scriptOf'[id] = reservations'[rid].csvScriptHash
                    ELSE SalesOf(id)' = {} /\ options'[id].buyer = NoOne
  BY DEF SoldThroughReservation
<1>2. CASE id \notin DOMAIN options
  <2>1. SalesOf(id) = {}
    BY <1>2 DEF SalesOf, Executed, QInv, Matched, PointsAtReserved
  <2> QED BY <1>1, <1>2, <2>1
<1>3. CASE id \in DOMAIN options /\ Sold(options[id])
  <2>1. PICK rid \in DOMAIN reservations :
           /\ SalesOf(id) = {rid} /\ options[id].buyer = reservations[rid].buyer
           /\ id \in DOMAIN scriptOf
           /\ scriptOf[id] = reservations[rid].csvScriptHash
    BY <1>3 DEF SoldThroughReservation
  <2>2. Executed(rid)
    BY <2>1 DEF SalesOf
  <2>3. rid \in DOMAIN reservations' /\ reservations'[rid] = reservations[rid]
    BY <2>2 DEF SalesKept
  <2>4. Sold(options'[id]) /\ options'[id].buyer = options[id].buyer
    BY <1>3
  <2> QED BY <1>1, <2>1, <2>3, <2>4
<1>4. CASE id \in DOMAIN options /\ ~Sold(options[id])
  BY <1>1, <1>4 DEF SoldThroughReservation
<1> QED BY <1>2, <1>3, <1>4

(* executeReservation makes the one sale of the option it names. *)
LEMMA ExecuteSells ==
    ASSUME QInv, SoldThroughReservation,
           NEW rid, NEW out, ExecuteReservation(rid, out)
    PROVE  SoldThroughReservation'
<1> DEFINE r == reservations[rid]
           sold == r.optionId
<1>1. /\ rid \in DOMAIN reservations /\ sold \in DOMAIN options
      /\ options[sold].status = RESERVED /\ options[sold] \in Option
      /\ DOMAIN reservations' = DOMAIN reservations
      /\ Executed(rid)' /\ ~Executed(rid)
      /\ reservations'[rid].optionId = sold /\ reservations'[rid].buyer = r.buyer
      /\ reservations'[rid].csvScriptHash = r.csvScriptHash
      /\ \A x \in DOMAIN reservations : x # rid =>
            reservations'[x] = reservations[x]
  BY ExecuteMakesSale
<1>2. /\ options' = [options EXCEPT ![sold].buyer = r.buyer,
                                    ![sold].status = PURCHASED]
      /\ scriptOf' = [i \in DOMAIN scriptOf \cup {sold} |->
                        IF i = sold THEN r.csvScriptHash ELSE scriptOf[i]]
  BY DEF ExecuteReservation, SetScript
<1>3. \A x \in DOMAIN reservations : x # rid => (Executed(x)' <=> Executed(x))
  BY <1>1 DEF Executed, Stored
<1> SUFFICES ASSUME NEW id \in DOMAIN options'
             PROVE  IF Sold(options'[id])
                    THEN \E x \in DOMAIN reservations' :
                            /\ SalesOf(id)' = {x}
                            /\ options'[id].buyer = reservations'[x].buyer
                            /\ id \in DOMAIN scriptOf'
                            /\ scriptOf'[id] = reservations'[x].csvScriptHash
                    ELSE SalesOf(id)' = {} /\ options'[id].buyer = NoOne
  BY DEF SoldThroughReservation
<1>4. CASE id = sold
  <2>1. ~Sold(options[sold])
    BY <1>1 DEF Sold
  <2>2. SalesOf(sold) = {}
    BY <1>1, <2>1 DEF SoldThroughReservation
  <2>3. SalesOf(sold)' = {rid}
    BY <1>1, <1>3, <2>2 DEF SalesOf
  <2>4. options'[sold].buyer = r.buyer
    BY <1>1, <1>2 DEF Option
  <2>5. Sold(options'[sold])
    BY <1>1, <1>2 DEF Option, Sold
  <2>6. sold \in DOMAIN scriptOf' /\ scriptOf'[sold] = r.csvScriptHash
    BY <1>2
  <2>7. /\ SalesOf(id)' = {rid} /\ Sold(options'[id])
        /\ options'[id].buyer = reservations'[rid].buyer
        /\ id \in DOMAIN scriptOf'
        /\ scriptOf'[id] = reservations'[rid].csvScriptHash
    BY <1>1, <1>4, <2>3, <2>4, <2>5, <2>6
  <2> QED BY <1>1, <2>7
<1>5. CASE id # sold
  <2>1. id \in DOMAIN options /\ options'[id] = options[id]
    BY <1>2, <1>5
  <2>2. SalesOf(id)' = SalesOf(id)
    BY <1>1, <1>3, <1>5 DEF SalesOf
  <2>3. CASE Sold(options[id])
    <3>1. PICK x \in DOMAIN reservations :
             /\ SalesOf(id) = {x} /\ options[id].buyer = reservations[x].buyer
             /\ id \in DOMAIN scriptOf
             /\ scriptOf[id] = reservations[x].csvScriptHash
      BY <2>1, <2>3 DEF SoldThroughReservation
    <3>2. x # rid
      BY <1>1, <3>1 DEF SalesOf
    <3>3. id \in DOMAIN scriptOf' /\ scriptOf'[id] = scriptOf[id]
      BY <1>2, <1>5, <3>1
    <3> HIDE DEF sold
    <3> QED BY <1>1, <2>1, <2>2, <2>3, <3>1, <3>2, <3>3
  <2>4. CASE ~Sold(options[id])
    BY <2>1, <2>2, <2>4 DEF SoldThroughReservation
  <2> QED BY <2>3, <2>4
<1> QED BY <1>4, <1>5

(* exercise of a call keeps the sale it is exercised on. *)
LEMMA ExerciseKeepsSales ==
    ASSUME QInv, NEW u, NEW id, NEW out, ExerciseCall(u, id, out)
    PROVE  /\ UNCHANGED reservationVars
           /\ id \in DOMAIN options /\ options[id] \in Option
           /\ options[id].status = PURCHASED /\ options[id].optionType = CALL
           /\ options' = [options EXCEPT ![id].status = EXERCISED]
           /\ DOMAIN options' = DOMAIN options
           /\ \A i \in DOMAIN options :
                 /\ Terms(options'[i]) = Terms(options[i])
                 /\ options'[i].buyer = options[i].buyer
                 /\ Sold(options'[i]) <=> Sold(options[i])
           /\ \A i \in DOMAIN options : i # id => options'[i] = options[i]
<1>1. /\ id \in DOMAIN options /\ options[id].status = PURCHASED
      /\ options[id].optionType = CALL
      /\ options' = [options EXCEPT ![id].status = EXERCISED]
      /\ UNCHANGED reservationVars
  BY DEF ExerciseCall, Exists, SetStatus
<1>2. options[id] \in Option
  BY <1>1, Basics, QuoteBasics DEF QInv
<1>3. options'[id] = [options[id] EXCEPT !.status = EXERCISED]
  BY <1>1
<1>4. /\ Terms(options'[id]) = Terms(options[id])
      /\ options'[id].buyer = options[id].buyer
      /\ Sold(options'[id]) <=> Sold(options[id])
  BY <1>1, <1>2, <1>3 DEF Option, Sold, Terms
<1>5. /\ DOMAIN options' = DOMAIN options
      /\ \A i \in DOMAIN options : i # id => options'[i] = options[i]
  BY <1>1
<1> QED BY <1>1, <1>2, <1>4, <1>5

LEMMA SoldStep ==
    ASSUME QInv, QInv', SoldThroughReservation, [QuoteNext]_quoteVars
    PROVE  SoldThroughReservation'
<1>1. CASE QuoteQuiet
  <2>1. SalesKept
    BY <1>1 DEF QuoteQuiet, SalesKept, Executed, Stored
  <2>2. \A id \in DOMAIN options' \ DOMAIN options :
           options'[id].buyer = NoOne /\ ~Sold(options'[id])
    BY <1>1 DEF QuoteQuiet, OnOffer, Sold
  <2> QED BY <1>1, <2>1, <2>2, SoldKept DEF QuoteQuiet, QuietRecord
<1>2. ASSUME NEW u \in Users, NEW id \in DOMAIN options, NEW p \in AllPrices,
             ReserveOption(u, id, p)
      PROVE  SoldThroughReservation'
  <2>1. /\ options[id].status = OPEN /\ options[id] \in Option
        /\ options' = [options EXCEPT ![id].status = RESERVED]
        /\ UNCHANGED scriptOf
    BY <1>2, Basics, QuoteBasics DEF ReserveOption, SetStatus, QInv
  <2>2. \A i \in DOMAIN options :
           /\ options'[i].buyer = options[i].buyer
           /\ Sold(options'[i]) <=> Sold(options[i])
    BY <2>1 DEF Option, Sold
  <2> QED BY <1>2, <2>1, <2>2, SoldKept, ReserveKeepsSales
<1>3. ASSUME NEW rid \in DOMAIN reservations, CancelReservation(rid)
      PROVE  SoldThroughReservation'
  <2> DEFINE id == reservations[rid].optionId
  <2>1. /\ id \in DOMAIN options /\ options[id].status = RESERVED
        /\ options[id] \in Option
        /\ options' = [options EXCEPT ![id].status = OPEN]
        /\ UNCHANGED scriptOf
    BY <1>3, PendingOption, Basics, QuoteBasics
       DEF CancelReservation, Releasable, SetStatus, QInv
  <2> HIDE DEF id
  <2>2. \A i \in DOMAIN options :
           /\ options'[i].buyer = options[i].buyer
           /\ Sold(options'[i]) <=> Sold(options[i])
    BY <2>1 DEF Option, Sold
  <2> QED BY <1>3, <2>1, <2>2, SoldKept, ReleaseKeepsSales
<1>4. ASSUME NEW u \in Users, NEW id \in DOMAIN options, NEW out \in Outputs,
             ExerciseCall(u, id, out)
      PROVE  SoldThroughReservation'
  <2>1. SalesKept
    BY <1>4, ExerciseKeepsSales DEF reservationVars, SalesKept, Executed, Stored
  <2> QED BY <1>4, <2>1, ExerciseKeepsSales, SoldKept DEF reservationVars
<1> QED BY <1>1, <1>2, <1>3, <1>4, QuoteKinds, ExecuteSells

(* Every sold option was sold by one executed reservation, for whose buyer *)
(* it is kept and whose script takes the strike; no other was sold at all. *)
(* The code promises no such pairing anywhere: reservation and option are  *)
(* stored apart.                                                           *)
THEOREM SalesAreReserved == QuoteSpec => []SoldThroughReservation
<1>1. QuoteInit => SoldThroughReservation
  BY DEF QuoteInit, Init, SoldThroughReservation
<1>2. QInv /\ QInv' /\ SoldThroughReservation /\ [QuoteNext]_quoteVars
        => SoldThroughReservation'
  BY SoldStep
<1> QED BY <1>1, <1>2, QuoteInvariant, PTL DEF QuoteSpec

-----------------------------------------------------------------------------
(* Payments: every due keeps its output, a new due brings one. *)

Covered(D, C) ==
    \E paidBy \in [D -> C] :
        /\ \A d, e \in D : paidBy[d] = paidBy[e] => d = e
        /\ \A d \in D : /\ paidBy[d].script = d.script
                         /\ paidBy[d].value >= d.amount

(* Nothing new is due. *)
LEMMA StillCovered ==
    ASSUME NEW D, NEW C, NEW D2, NEW C2, Covered(D, C),
           D2 \subseteq D, C \subseteq C2
    PROVE  Covered(D2, C2)
<1>1. PICK by \in [D -> C] :
         /\ \A d, e \in D : by[d] = by[e] => d = e
         /\ \A d \in D : by[d].script = d.script /\ by[d].value >= d.amount
  BY DEF Covered
<1> DEFINE by2 == [d \in D2 |-> by[d]]
<1>2. by2 \in [D2 -> C2]
  BY <1>1
<1>3. \A d \in D2 : d \in D /\ by2[d] = by[d]
  OBVIOUS
<1> HIDE DEF by2
<1>4. \A d, e \in D2 : by2[d] = by2[e] => d = e
  BY <1>1, <1>3
<1>5. \A d \in D2 : by2[d].script = d.script /\ by2[d].value >= d.amount
  BY <1>1, <1>3
<1> QED BY <1>2, <1>4, <1>5 DEF Covered

(* One more thing is due, and an output not counted before pays it. *)
LEMMA NewlyCovered ==
    ASSUME NEW D, NEW C, NEW D2, NEW C2, NEW d0, NEW out, Covered(D, C),
           D2 \subseteq D \cup {d0}, C \cup {out} \subseteq C2,
           out \notin C, out.script = d0.script, out.value >= d0.amount
    PROVE  Covered(D2, C2)
<1>1. PICK by \in [D -> C] :
         /\ \A d, e \in D : by[d] = by[e] => d = e
         /\ \A d \in D : by[d].script = d.script /\ by[d].value >= d.amount
  BY DEF Covered
<1> DEFINE by2 == [d \in D2 |-> IF d \in D THEN by[d] ELSE out]
<1>2. by2 \in [D2 -> C2]
  BY <1>1
<1>3. ASSUME NEW d \in D2, NEW e \in D2, by2[d] = by2[e] PROVE d = e
  <2>1. \A x \in D : by[x] \in C /\ by[x] # out
    BY <1>1
  <2> QED BY <1>1, <1>3, <2>1
<1>4. \A d \in D2 : by2[d].script = d.script /\ by2[d].value >= d.amount
  BY <1>1
<1> HIDE DEF by2
<1> QED BY <1>2, <1>3, <1>4 DEF Covered

(* The strike of an option follows from its terms. *)
LEMMA SameStrike ==
    ASSUME NEW o, NEW n, Terms(n) = Terms(o)
    PROVE  /\ StrikeValue(n) = StrikeValue(o) /\ n.optionType = o.optionType
           /\ n.premium = o.premium /\ n.expiryBlock = o.expiryBlock
           /\ n.writer = o.writer
<1>1. /\ n.strikePrice = o.strikePrice
      /\ n.underlyingAmount = o.underlyingAmount
      /\ n.optionType = o.optionType
      /\ n.premium = o.premium /\ n.expiryBlock = o.expiryBlock
      /\ n.writer = o.writer
  BY DEF Terms
<1> QED BY <1>1 DEF StrikeValue

(* A due that is due already: the sale or the exercise is an old one. *)
LEMMA OldPremium ==
    ASSUME NEW rid \in DOMAIN reservations, Executed(rid),
           reservations'[rid] = reservations[rid]
    PROVE  PremiumDue(rid)' \in Dues
BY DEF PremiumDue, Dues

LEMMA OldStrike ==
    ASSUME NEW id \in DOMAIN options, ExercisedCall(options[id]),
           Terms(options'[id]) = Terms(options[id]),
           scriptOf'[id] = scriptOf[id]
    PROVE  StrikeDue(id)' \in Dues
BY SameStrike DEF StrikeDue, Dues

(* Where no call is exercised and scripts stay, the strikes are old. *)
LEMMA NothingNewDue ==
    ASSUME SalesKept, UNCHANGED scriptOf,
           \A id \in DOMAIN options :
              /\ Terms(options'[id]) = Terms(options[id])
              /\ ExercisedCall(options'[id]) => ExercisedCall(options[id]),
           \A id \in DOMAIN options' \ DOMAIN options :
              ~ExercisedCall(options'[id])
    PROVE  Dues' \subseteq Dues
<1>1. ASSUME NEW rid \in DOMAIN reservations', Executed(rid)'
      PROVE  PremiumDue(rid)' \in Dues
  BY <1>1, OldPremium DEF SalesKept
<1>2. ASSUME NEW id \in DOMAIN options', ExercisedCall(options'[id])
      PROVE  StrikeDue(id)' \in Dues
  BY <1>2, OldStrike
<1> QED BY <1>1, <1>2 DEF Dues

(* executeReservation makes one premium due, the one it has just seen. *)
LEMMA ExecutePays ==
    ASSUME QInv, SoldThroughReservation, EveryDueIsPaid,
           NEW rid, NEW out, ExecuteReservation(rid, out)
    PROVE  EveryDueIsPaid'
<1> DEFINE r == reservations[rid]
           sold == r.optionId
<1>1. /\ rid \in DOMAIN reservations /\ sold \in DOMAIN options
      /\ options[sold].status = RESERVED /\ options[sold] \in Option
      /\ DOMAIN reservations' = DOMAIN reservations
      /\ reservations'[rid].btcAmount = r.btcAmount
      /\ reservations'[rid].csvScriptHash = r.csvScriptHash
      /\ \A x \in DOMAIN reservations : x # rid =>
            reservations'[x] = reservations[x]
  BY ExecuteMakesSale
<1>2. /\ options' = [options EXCEPT ![sold].buyer = r.buyer,
                                    ![sold].status = PURCHASED]
      /\ scriptOf' = [i \in DOMAIN scriptOf \cup {sold} |->
                        IF i = sold THEN r.csvScriptHash ELSE scriptOf[i]]
      /\ out.script = r.csvScriptHash /\ out.value >= r.btcAmount
      /\ out \notin consumed /\ consumed' = consumed \cup {out}
  BY DEF ExecuteReservation, SetScript, Bridge!VerifyBtcOutput
<1>3. ASSUME NEW x \in DOMAIN reservations', Executed(x)', x # rid
      PROVE  PremiumDue(x)' \in Dues
  <2>1. Executed(x)
    BY <1>1, <1>3 DEF Executed, Stored
  <2> QED BY <1>1, <1>3, <2>1, OldPremium
<1>4. ASSUME NEW id \in DOMAIN options', ExercisedCall(options'[id])
      PROVE  StrikeDue(id)' \in Dues
  <2>1. options'[sold].status = PURCHASED
    BY <1>1, <1>2 DEF Option
  <2>2. id # sold
    BY <1>4, <2>1 DEF ExercisedCall
  <2>3. id \in DOMAIN options /\ options'[id] = options[id]
    BY <1>2, <2>2
  <2>4. id \in DOMAIN scriptOf
    BY <1>4, <2>3 DEF SoldThroughReservation, Sold, ExercisedCall
  <2>5. scriptOf'[id] = scriptOf[id]
    BY <1>2, <2>2, <2>4
  <2> QED BY <1>4, <2>3, <2>5, OldStrike
<1>5. Dues' \subseteq Dues \cup {PremiumDue(rid)'}
  BY <1>3, <1>4 DEF Dues
<1>6. /\ PremiumDue(rid)'.script = r.csvScriptHash
      /\ PremiumDue(rid)'.amount = r.btcAmount
  BY <1>1 DEF PremiumDue
<1>7. Covered(Dues, consumed)
  BY DEF EveryDueIsPaid, Covered
<1>8. \E d0 : /\ Dues' \subseteq Dues \cup {d0}
              /\ out.script = d0.script /\ out.value >= d0.amount
  BY <1>2, <1>5, <1>6
<1>9. Covered(Dues', consumed')
  BY <1>2, <1>7, <1>8, NewlyCovered
<1> QED BY <1>9 DEF EveryDueIsPaid, Covered

(* exercise of a call makes its strike due, paid in the same transaction. *)
LEMMA ExerciseCallPays ==
    ASSUME QInv, SoldThroughReservation, EveryDueIsPaid,
           NEW u, NEW id, NEW out, ExerciseCall(u, id, out)
    PROVE  EveryDueIsPaid'
<1>1. /\ UNCHANGED reservations /\ UNCHANGED scriptOf
      /\ id \in DOMAIN options /\ DOMAIN options' = DOMAIN options
      /\ \A i \in DOMAIN options : Terms(options'[i]) = Terms(options[i])
      /\ \A i \in DOMAIN options : i # id => options'[i] = options[i]
  BY ExerciseKeepsSales DEF reservationVars
<1>2. /\ out.script = scriptOf[id]
      /\ out.value >= StrikeValue(options[id])
      /\ out \notin consumed /\ consumed' = consumed \cup {out}
  BY DEF ExerciseCall, Bridge!VerifyBtcOutput
<1>3. ASSUME NEW x \in DOMAIN reservations', Executed(x)'
      PROVE  PremiumDue(x)' \in Dues
  BY <1>1, <1>3, OldPremium DEF Executed, Stored
<1>4. ASSUME NEW i \in DOMAIN options', ExercisedCall(options'[i]), i # id
      PROVE  StrikeDue(i)' \in Dues
  BY <1>1, <1>4, OldStrike
<1>5. Dues' \subseteq Dues \cup {StrikeDue(id)'}
  BY <1>3, <1>4 DEF Dues
<1>6. /\ StrikeDue(id)'.script = scriptOf[id]
      /\ StrikeDue(id)'.amount = StrikeValue(options[id])
  BY <1>1, SameStrike DEF StrikeDue
<1>7. Covered(Dues, consumed)
  BY DEF EveryDueIsPaid, Covered
<1>8. \E d0 : /\ Dues' \subseteq Dues \cup {d0}
              /\ out.script = d0.script /\ out.value >= d0.amount
  BY <1>2, <1>5, <1>6
<1>9. Covered(Dues', consumed')
  BY <1>2, <1>7, <1>8, NewlyCovered
<1> QED BY <1>9 DEF EveryDueIsPaid, Covered

LEMMA PaidStep ==
    ASSUME QInv, SoldThroughReservation, EveryDueIsPaid,
           [QuoteNext]_quoteVars
    PROVE  EveryDueIsPaid'
<1>0. Covered(Dues, consumed)
  BY DEF EveryDueIsPaid, Covered
<1>1. ASSUME Dues' \subseteq Dues, consumed \subseteq consumed'
      PROVE  EveryDueIsPaid'
  <2>1. Covered(Dues', consumed')
    BY <1>0, <1>1, StillCovered
  <2> QED BY <2>1 DEF EveryDueIsPaid, Covered
<1>2. CASE QuoteQuiet
  <2>1. SalesKept
    BY <1>2 DEF QuoteQuiet, SalesKept, Executed, Stored
  <2>2. \A id \in DOMAIN options' \ DOMAIN options :
           ~ExercisedCall(options'[id])
    BY <1>2 DEF QuoteQuiet, OnOffer, ExercisedCall
  <2>3. Dues' \subseteq Dues
    BY <1>2, <2>1, <2>2, NothingNewDue DEF QuoteQuiet, QuietRecord
  <2> QED BY <1>1, <1>2, <2>3 DEF QuoteQuiet
<1>3. ASSUME NEW u \in Users, NEW id \in DOMAIN options, NEW p \in AllPrices,
             ReserveOption(u, id, p)
      PROVE  EveryDueIsPaid'
  <2>1. /\ options[id].status = OPEN /\ options[id] \in Option
        /\ options' = [options EXCEPT ![id].status = RESERVED]
        /\ UNCHANGED scriptOf /\ UNCHANGED consumed
    BY <1>3, Basics, QuoteBasics
       DEF ReserveOption, SetStatus, QInv, Bridge!GetBtcPrice
  <2>2. \A i \in DOMAIN options :
           /\ Terms(options'[i]) = Terms(options[i])
           /\ ExercisedCall(options'[i]) => ExercisedCall(options[i])
    BY <2>1 DEF Option, Terms, ExercisedCall
  <2>3. Dues' \subseteq Dues
    BY <1>3, <2>1, <2>2, ReserveKeepsSales, NothingNewDue
  <2> QED BY <1>1, <2>1, <2>3
<1>4. ASSUME NEW rid \in DOMAIN reservations, CancelReservation(rid)
      PROVE  EveryDueIsPaid'
  <2> DEFINE id == reservations[rid].optionId
  <2>1. /\ id \in DOMAIN options /\ options[id].status = RESERVED
        /\ options[id] \in Option
        /\ options' = [options EXCEPT ![id].status = OPEN]
        /\ UNCHANGED scriptOf /\ UNCHANGED consumed
    BY <1>4, PendingOption, Basics, QuoteBasics
       DEF CancelReservation, Releasable, SetStatus, QInv, bridgeVars
  <2> HIDE DEF id
  <2>2. \A i \in DOMAIN options :
           /\ Terms(options'[i]) = Terms(options[i])
           /\ ExercisedCall(options'[i]) => ExercisedCall(options[i])
    BY <2>1 DEF Option, Terms, ExercisedCall
  <2>3. Dues' \subseteq Dues
    BY <1>4, <2>1, <2>2, ReleaseKeepsSales, NothingNewDue
  <2> QED BY <1>1, <2>1, <2>3
<1> QED BY <1>2, <1>3, <1>4, QuoteKinds, ExecutePays, ExerciseCallPays

(* No payment is passed off twice: whatever became due has a counted       *)
(* output of its own, because the bridge refuses an output it has counted  *)
(* and the script of a sold option never changes.                          *)
THEOREM DuesArePaid == QuoteSpec => []EveryDueIsPaid
<1>1. QuoteInit => EveryDueIsPaid
  <2> SUFFICES ASSUME QuoteInit PROVE EveryDueIsPaid
    OBVIOUS
  <2>1. DOMAIN options = {} /\ DOMAIN reservations = {}
    BY DEF QuoteInit, Init
  <2>2. Dues = {}
    BY <2>1 DEF Dues
  <2>3. [d \in {} |-> d] \in [Dues -> consumed]
    BY <2>2
  <2> QED BY <2>2, <2>3 DEF EveryDueIsPaid
<1>2. QInv /\ SoldThroughReservation /\ EveryDueIsPaid /\ [QuoteNext]_quoteVars
        => EveryDueIsPaid'
  BY PaidStep
<1> QED BY <1>1, <1>2, QuoteInvariant, SalesAreReserved, PTL DEF QuoteSpec

-----------------------------------------------------------------------------
(* Prices: the bridge's cache holds what was quoted when it was filled, so *)
(* a reservation never gets an older price than the cache may serve.       *)

QuotedFor(o, amount, made) ==
    \E b \in 0 .. made :
        /\ made - b <= MAX_PRICE_STALENESS
        /\ \E p \in PricesAt[b] : amount = BtcAmount(o, p)

TrueCache ==
    /\ priceCache = [t \in {PremiumToken} |-> priceCache[PremiumToken]]
    /\ priceCache[PremiumToken].block \in 0 .. block
    /\ priceCache[PremiumToken].block # 0 =>
          priceCache[PremiumToken].price
              \in PricesAt[priceCache[PremiumToken].block]

(* What getBtcPrice answers was quoted a short while ago. *)
LEMMA AnswerIsRecent ==
    ASSUME block \in Nat, TrueCache, NEW p, Bridge!GetBtcPrice(PremiumToken, p),
           block' = block
    PROVE  /\ TrueCache'
           /\ \E b \in 0 .. block :
                 block - b <= MAX_PRICE_STALENESS /\ p \in PricesAt[b]
<1> DEFINE c == priceCache[PremiumToken]
<1>1. CASE Bridge!Fresh(PremiumToken) /\ p = c.price /\ priceCache' = priceCache
  <2>1. c.block # 0 /\ block - c.block <= MAX_PRICE_STALENESS
    BY <1>1 DEF Bridge!Fresh
  <2>2. c.block \in 0 .. block /\ p \in PricesAt[c.block]
    BY <1>1, <2>1 DEF TrueCache
  <2> QED BY <1>1, <2>1, <2>2 DEF TrueCache
<1>2. CASE /\ p \in Bridge!Quotes
           /\ priceCache' = [priceCache EXCEPT
                 ![PremiumToken] = [price |-> p, block |-> block]]
  <2>1. p \in PricesAt[block] /\ block - block <= MAX_PRICE_STALENESS
    BY <1>2, ReservationAssumption DEF Bridge!Quotes
  <2>2. DOMAIN priceCache = {PremiumToken}
    BY DEF TrueCache
  <2>3. /\ priceCache' = [t \in {PremiumToken} |-> priceCache'[PremiumToken]]
        /\ priceCache'[PremiumToken] = [price |-> p, block |-> block]
    BY <1>2, <2>2
  <2>4. TrueCache'
    BY <2>1, <2>3 DEF TrueCache
  <2> QED BY <2>1, <2>4
<1> QED BY <1>1, <1>2 DEF Bridge!GetBtcPrice

(* Nobody but getBtcPrice writes the cache. *)
LEMMA CacheStep ==
    ASSUME QInv, TrueCache, [QuoteNext]_quoteVars
    PROVE  TrueCache'
<1>0. block \in Nat
  BY QuoteBasics DEF QInv, TypeOK
<1>1. ASSUME UNCHANGED priceCache, block' = block PROVE TrueCache'
  BY <1>1 DEF TrueCache
<1>2. CASE UNCHANGED quoteVars
  BY <1>1, <1>2 DEF quoteVars, vars, btcVars, bridgeVars
<1>3. CASE QuoteNextBlock
  <2>1. UNCHANGED priceCache /\ block' = block + 1
    BY <1>3 DEF QuoteNextBlock, NextBlock, btcVars, bridgeVars
  <2> QED BY <1>0, <2>1 DEF TrueCache
<1>4. ASSUME NEW p, AskPrice(p) PROVE TrueCache'
  BY <1>0, <1>4, AnswerIsRecent DEF AskPrice, vars
<1>5. ASSUME NEW u, NEW id, NEW p, ReserveOption(u, id, p) PROVE TrueCache'
  BY <1>0, <1>5, AnswerIsRecent DEF ReserveOption
<1>6. ASSUME NEW rid, NEW out, ExecuteReservation(rid, out) PROVE TrueCache'
  BY <1>1, <1>6 DEF ExecuteReservation, Bridge!VerifyBtcOutput
<1>7. ASSUME NEW rid, CancelReservation(rid) PROVE TrueCache'
  BY <1>1, <1>7 DEF CancelReservation, bridgeVars
<1>8. ASSUME NEW u, NEW id, NEW out, ExerciseCall(u, id, out) PROVE TrueCache'
  BY <1>1, <1>8 DEF ExerciseCall, Bridge!VerifyBtcOutput
<1>9. ASSUME NEW out, VerifyStray(out) PROVE TrueCache'
  BY <1>1, <1>9 DEF VerifyStray, Bridge!VerifyBtcOutput, vars
<1>10. ASSUME NEW u, NEW k, RegisterBtcPubkey(u, k) PROVE TrueCache'
  BY <1>1, <1>10 DEF RegisterBtcPubkey, vars, bridgeVars
<1>11. ASSUME UNCHANGED btcVars, block' = block PROVE TrueCache'
  BY <1>1, <1>11 DEF btcVars, bridgeVars
<1>12. ASSUME NEW id, QuoteSettle(id) PROVE TrueCache'
  BY <1>11, <1>12 DEF QuoteSettle, Settle
<1>13. CASE QuotePermissionless
  BY <1>4, <1>6, <1>7, <1>9, <1>12, <1>13 DEF QuotePermissionless
<1>14. ASSUME NEW u \in Users, QuoteSignedBy(u) PROVE TrueCache'
  <2>1. ASSUME NEW type, NEW k, NEW a, NEW p, NEW e,
               QuoteWriteOption(u, type, k, a, p, e)
        PROVE  TrueCache'
    BY <1>11, <2>1 DEF QuoteWriteOption, WriteOption
  <2>2. ASSUME NEW id, QuoteCancelOption(u, id) PROVE TrueCache'
    BY <1>11, <2>2 DEF QuoteCancelOption, CancelOption
  <2>3. ASSUME NEW id, ExercisePut(u, id) PROVE TrueCache'
    BY <1>11, <2>3 DEF ExercisePut, Exercise
  <2>4. ASSUME NEW new, UpdateFeeRecipient(u, new), UNCHANGED btcVars
        PROVE  TrueCache'
    BY <1>11, <2>4 DEF UpdateFeeRecipient
  <2> QED BY <1>5, <1>8, <1>10, <1>14, <2>1, <2>2, <2>3, <2>4
          DEF QuoteSignedBy
<1> QED BY <1>2, <1>3, <1>13, <1>14 DEF QuoteNext

(* The terms of an option are written once. *)
LEMMA TermsKept ==
    ASSUME QInv, ReservedInTime, [QuoteNext]_quoteVars
    PROVE  \A id \in DOMAIN options : Terms(options'[id]) = Terms(options[id])
<1>1. CASE UNCHANGED quoteVars \/ QuoteNextBlock
  BY <1>1 DEF quoteVars, vars, QuoteNextBlock, NextBlock
<1>2. CASE QuoteNext /\ ~QuoteNextBlock
  <2>1. QuoteContinues
    BY <1>2, QuoteTransaction
  <2> QED BY <2>1 DEF QuoteContinues, QuoteAdvances, Advances
<1> QED BY <1>1, <1>2

PriceOf(rid) ==
    QuotedFor(options[reservations[rid].optionId], reservations[rid].btcAmount,
              reservations[rid].expiryBlock - RESERVATION_EXPIRY_BLOCKS)

(* A record that was there already keeps the price it had. *)
LEMMA SamePrice ==
    ASSUME QInv, ReservedInTime, [QuoteNext]_quoteVars, PriceIsRecent,
           NEW rid \in DOMAIN reservations, Stored(rid),
           reservations'[rid].optionId = reservations[rid].optionId,
           reservations'[rid].btcAmount = reservations[rid].btcAmount,
           reservations'[rid].expiryBlock = reservations[rid].expiryBlock
    PROVE  PriceOf(rid)'
<1>1. reservations[rid].optionId \in DOMAIN options
  BY DEF QInv, Matched, PointsAtReserved
<1>2. PriceOf(rid)
  BY DEF PriceIsRecent, PriceOf, QuotedFor
<1>3. options'[reservations[rid].optionId].premium
         = options[reservations[rid].optionId].premium
  BY <1>1, TermsKept, SameStrike
<1> QED BY <1>2, <1>3 DEF PriceOf, QuotedFor, BtcAmount

(* reserveOption takes the bridge's price of this block. *)
LEMMA ReservePrice ==
    ASSUME QInv, TrueCache, NEW u, NEW id, NEW p, ReserveOption(u, id, p),
           NEW rid, rid = nextReservationId
    PROVE  PriceOf(rid)'
<1> DEFINE new == reservations'[rid]
<1>1. /\ nextReservationId \in Nat /\ block \in Nat
      /\ id \in DOMAIN options /\ options[id] \in Option
  BY QuoteBasics, Basics DEF QInv, TypeOK, ReserveOption, Exists
<1>2. /\ new.optionId = id /\ new.btcAmount = BtcAmount(options[id], p)
      /\ new.expiryBlock = block + RESERVATION_EXPIRY_BLOCKS
  BY <1>1 DEF ReserveOption, NewReservation
<1>3. options'[id].premium = options[id].premium
  BY <1>1 DEF ReserveOption, SetStatus, Option
<1>4. PICK b \in 0 .. block :
         block - b <= MAX_PRICE_STALENESS /\ p \in PricesAt[b]
  BY <1>1, AnswerIsRecent DEF ReserveOption
<1>5. new.expiryBlock - RESERVATION_EXPIRY_BLOCKS = block
  BY <1>1, <1>2, ReservationAssumption
<1>6. BtcAmount(options'[id], p) = BtcAmount(options[id], p)
  BY <1>3 DEF BtcAmount
<1> QED BY <1>2, <1>4, <1>5, <1>6 DEF PriceOf, QuotedFor

LEMMA PriceStep ==
    ASSUME QInv, ReservedInTime, TrueCache, PriceIsRecent,
           [QuoteNext]_quoteVars
    PROVE  PriceIsRecent'
<1> SUFFICES ASSUME NEW rid \in DOMAIN reservations', Stored(rid)'
             PROVE  PriceOf(rid)'
  BY DEF PriceIsRecent, PriceOf, QuotedFor
<1>1. ASSUME UNCHANGED reservations PROVE PriceOf(rid)'
  BY <1>1, SamePrice DEF Stored
<1>2. ASSUME NEW u, NEW id, NEW p, ReserveOption(u, id, p)
      PROVE  PriceOf(rid)'
  <2>1. /\ DOMAIN reservations = 0 .. nextReservationId - 1
        /\ nextReservationId \in Nat
    BY QuoteBasics DEF QInv
  <2>2. /\ DOMAIN reservations' = 0 .. nextReservationId
        /\ \A x \in DOMAIN reservations : reservations'[x] = reservations[x]
    BY <1>2, <2>1 DEF ReserveOption
  <2>3. CASE rid = nextReservationId
    BY <1>2, <2>3, ReservePrice
  <2>4. CASE rid # nextReservationId
    BY <2>1, <2>2, <2>4, SamePrice DEF Stored
  <2> QED BY <2>3, <2>4
<1>3. ASSUME NEW x, NEW out, ExecuteReservation(x, out) PROVE PriceOf(rid)'
  <2>1. /\ rid \in DOMAIN reservations
        /\ reservations' = [reservations EXCEPT ![x].status = EXECUTED]
        /\ reservations[rid] \in Reservation
    BY <1>3, QuoteBasics DEF ExecuteReservation, QInv
  <2>2. /\ reservations'[rid].buyer = reservations[rid].buyer
        /\ reservations'[rid].optionId = reservations[rid].optionId
        /\ reservations'[rid].btcAmount = reservations[rid].btcAmount
        /\ reservations'[rid].expiryBlock = reservations[rid].expiryBlock
    BY <2>1 DEF Reservation
  <2> QED BY <2>1, <2>2, SamePrice DEF Stored
<1>4. ASSUME NEW x, CancelReservation(x) PROVE PriceOf(rid)'
  <2>1. /\ rid \in DOMAIN reservations
        /\ reservations' = [reservations EXCEPT ![x] = Cleared]
    BY <1>4 DEF CancelReservation
  <2>2. rid # x
    BY <2>1 DEF Cleared, Stored
  <2> QED BY <2>1, <2>2, SamePrice DEF Stored
<1>5. ASSUME NEW u, NEW id, NEW out, ExerciseCall(u, id, out)
      PROVE  PriceOf(rid)'
  BY <1>1, <1>5 DEF ExerciseCall, reservationVars
<1>6. CASE QuoteQuiet
  BY <1>1, <1>6 DEF QuoteQuiet
<1> QED BY <1>2, <1>3, <1>4, <1>5, <1>6, QuoteKinds

(* The amount of a reservation comes from a quote at most                  *)
(* MAX_PRICE_STALENESS blocks older than the reservation, for any quotes   *)
(* NativeSwap gives and whoever else made the bridge fill its cache.       *)
THEOREM PricesAreRecent == QuoteSpec => []PriceIsRecent
<1>1. QuoteInit => TrueCache /\ PriceIsRecent
  <2> SUFFICES ASSUME QuoteInit PROVE TrueCache /\ PriceIsRecent
    OBVIOUS
  <2>1. /\ block \in Nat /\ DOMAIN reservations = {}
        /\ priceCache = [t \in {PremiumToken} |-> [price |-> 0, block |-> 0]]
    BY DEF QuoteInit, Init, Bridge!BridgeInit
  <2> QED BY <2>1 DEF TrueCache, PriceIsRecent
<1>2. QInv /\ ReservedInTime /\ TrueCache /\ PriceIsRecent
        /\ [QuoteNext]_quoteVars => TrueCache' /\ PriceIsRecent'
  BY CacheStep, PriceStep
<1> QED BY <1>1, <1>2, QuoteInvariant, InTimeInvariant, PTL DEF QuoteSpec
=============================================================================
