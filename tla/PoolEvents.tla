----------------------------- MODULE PoolEvents -----------------------------
(***************************************************************************)
(* The chain as the indexer sees it: the book of one pool and, block by    *)
(* block, the events its methods emit.  A block carries one transaction;   *)
(* transactions of one block reach the decoder in the same order as those  *)
(* of two blocks.  The guards on time and on tokens are the pool modules'  *)
(* matter and left open here: any legal change of status may come next.    *)
(*                                                                         *)
(* Beside its events a block records the book after it and the fees,       *)
(* transfers and swaps it made: what an index of the block has to say.     *)
(***************************************************************************)
EXTENDS PoolMath, Sequences, SequencesExt

CONSTANTS
    NoOne,
    Users,
    PoolTypes,   \* which of the pools 0, 1, 2 may be behind the address
    MaxHeight,   \* bound: blocks mined
    MaxIds       \* bound: options written

Premium == 5     \* of every sale
EscrowHash == 9  \* a hash, read as a number

VARIABLES
    poolType,
    book,   \* id -> [writer, buyer, status, type, reservedFor]
    chain   \* block number -> [events, book, fees, transfers, swaps]

chainVars == <<poolType, book, chain>>

Ids == DOMAIN book
Height == Len(chain)
In(id, s) == id \in Ids /\ book[id].status = s

ChainInit ==
    /\ poolType \in PoolTypes
    /\ book = <<>>
    /\ chain = <<>>

NoLedger == [fees |-> <<>>, transfers |-> <<>>, swaps |-> <<>>]

Event(contract, type, data) == [contract |-> contract, type |-> type, data |-> data]
PoolEvent(type, data) == Event("pool", type, data)

(* What an index has to say of the block that is mined now. *)
FeeRow(id, kind, amount) ==
    [id |-> id, kind |-> kind, amount |-> amount, block |-> Height + 1]
FeeRows(id, kind, amount) ==
    IF amount = 0 THEN <<>> ELSE <<FeeRow(id, kind, amount)>>
Fees(rows) == [NoLedger EXCEPT !.fees = rows]

Block(newBook, events, ledger) ==
    [events |-> events, book |-> newBook, fees |-> ledger.fees,
     transfers |-> ledger.transfers, swaps |-> ledger.swaps]

Mine(newBook, events, ledger) ==
    /\ Height < MaxHeight
    /\ book' = newBook
    /\ chain' = Append(chain, Block(newBook, events, ledger))
    /\ UNCHANGED poolType

New(writer, type) ==
    [writer |-> writer, buyer |-> NoOne, status |-> OPEN, type |-> type,
     reservedFor |-> NoOne]
NextId == Cardinality(Ids)
WithNew(b, writer, type) ==
    [id \in Ids \cup {NextId} |-> IF id = NextId THEN New(writer, type) ELSE b[id]]
Becomes(id, status) == [book EXCEPT ![id].status = status]
AllBecome(ids, status) ==
    [id \in Ids |-> IF id \in ToSet(ids) THEN [book[id] EXCEPT !.status = status]
                                        ELSE book[id]]

WrittenEvent(id, writer, type) ==
    PoolEvent(IF poolType = 2 /\ type = CALL THEN "OptionWrittenBtc" ELSE "OptionWritten",
              [id |-> id, writer |-> writer])

(* Only a type 2 pool treats calls and puts differently. *)
Kinds == IF poolType = 2 THEN {CALL, PUT} ELSE {CALL}

WriteOption(writer, type) ==
    /\ NextId < MaxIds
    /\ type \in Kinds
    /\ Mine(WithNew(book, writer, type), <<WrittenEvent(NextId, writer, type)>>,
            NoLedger)

(* Nobody is paid when a call of a type 2 pool is cancelled (its bitcoin   *)
(* sits in the escrow); the event then ends with the escrow's hash, where  *)
(* every other OptionCancelled has the fee.                                *)
EscrowOnly(id) == poolType = 2 /\ book[id].type = CALL
CancelledEvent(id, fee) ==
    PoolEvent("OptionCancelled",
      [id |-> id, writer |-> book[id].writer,
       fourth |-> IF EscrowOnly(id) THEN EscrowHash ELSE fee])

(* A batch names no option twice; only a type 0 pool takes more than one.  *)
Batches == UNION {[1 .. n -> Ids] : n \in 1 .. NextId}
IsBatch(ids) == IsInjective(ids) /\ (Len(ids) > 1 => poolType = 0)

Cancel(ids, fee) ==
    /\ IsBatch(ids)
    /\ \A k \in DOMAIN ids :
          /\ In(ids[k], OPEN)
          /\ EscrowOnly(ids[k]) => fee = 0
          /\ book[ids[k]].writer = book[ids[1]].writer
    /\ Mine(AllBecome(ids, CANCELLED),
            [k \in DOMAIN ids |-> CancelledEvent(ids[k], fee)],
            Fees(IF fee = 0 THEN <<>>
                 ELSE [k \in DOMAIN ids |-> FeeRow(ids[k], "cancel", fee)]))

Roll(id, fee) ==
    LET w == book[id].writer IN
    /\ poolType = 0
    /\ In(id, OPEN)
    /\ NextId < MaxIds
    /\ Mine(WithNew(Becomes(id, CANCELLED), w, book[id].type),
            <<CancelledEvent(id, fee), WrittenEvent(NextId, w, book[id].type),
              PoolEvent("OptionRolled", [id |-> id])>>,
            Fees(FeeRows(id, "cancel", fee)))

Sold(id, buyer) == [book EXCEPT ![id].status = PURCHASED, ![id].buyer = buyer]

BuyOption(id, buyer, fee) ==
    /\ poolType \in {0, 2}
    /\ In(id, OPEN)
    /\ buyer # book[id].writer
    /\ Mine(Sold(id, buyer),
            <<PoolEvent("OptionPurchased", [id |-> id, buyer |-> buyer,
                 premium |-> Premium, writerAmount |-> Premium - fee])>>,
            Fees(FeeRows(id, "buy", fee)))

ReserveOption(id, buyer) ==
    /\ poolType = 1
    /\ In(id, OPEN)
    /\ buyer # book[id].writer
    /\ Mine([book EXCEPT ![id].status = RESERVED, ![id].reservedFor = buyer],
            <<PoolEvent("OptionReserved", [id |-> id, buyer |-> buyer])>>, NoLedger)

ExecuteReservation(id) ==
    /\ In(id, RESERVED)
    /\ Mine(Sold(id, book[id].reservedFor),
            <<PoolEvent("ReservationExecuted",
                        [id |-> id, buyer |-> book[id].reservedFor])>>, NoLedger)

CancelReservation(id) ==
    /\ In(id, RESERVED)
    /\ Mine([book EXCEPT ![id].status = OPEN, ![id].reservedFor = NoOne],
            <<PoolEvent("ReservationCancelled", [id |-> id]),
              PoolEvent("OptionRestored", [id |-> id])>>, NoLedger)

Exercise(id, fee) ==
    /\ In(id, PURCHASED)
    /\ Mine(Becomes(id, EXERCISED),
            (IF poolType = 2 /\ book[id].type = CALL
               THEN <<PoolEvent("BtcClaimable", [id |-> id])>> ELSE <<>>)
              \o <<PoolEvent("OptionExercised", [id |-> id, fee |-> fee])>>,
            Fees(FeeRows(id, "exercise", fee)))

Settle(ids) ==
    /\ IsBatch(ids)
    /\ \A k \in DOMAIN ids : In(ids[k], PURCHASED)
    /\ Mine(AllBecome(ids, EXPIRED),
            [k \in DOMAIN ids |-> PoolEvent("OptionExpired", [id |-> ids[k]])], NoLedger)

TransferOption(id, to) ==
    /\ poolType = 0
    /\ In(id, PURCHASED)
    /\ to # book[id].buyer
    /\ LET moved == [id |-> id, from |-> book[id].buyer, to |-> to]
           row   == [id |-> id, from |-> book[id].buyer, to |-> to, block |-> Height + 1]
       IN Mine([book EXCEPT ![id].buyer = to],
               <<PoolEvent("OptionTransferred", moved)>>,
               [NoLedger EXCEPT !.transfers = <<row>>])

(* NativeSwap trades a token the indexer follows. *)
Swap(buyer) ==
    Mine(book, <<Event("token", "SwapExecuted", [buyer |-> buyer])>>,
         [NoLedger EXCEPT !.swaps = <<[buyer |-> buyer, block |-> Height + 1]>>])

(* A contract nobody follows emits an event of a pool. *)
Elsewhere(writer) ==
    Mine(book, <<Event("other", "OptionWritten", [id |-> 0, writer |-> writer])>>, NoLedger)

MineBlock ==
    \E u \in Users, id \in 0 .. MaxIds - 1, fee \in {0, 1} :
        \/ \E type \in {CALL, PUT} : WriteOption(u, type)
        \/ BuyOption(id, u, fee) \/ ReserveOption(id, u)
        \/ ExecuteReservation(id) \/ CancelReservation(id)
        \/ Roll(id, fee) \/ Exercise(id, fee)
        \/ TransferOption(id, u)
        \/ Swap(u) \/ Elsewhere(u)
        \/ \E ids \in Batches : Cancel(ids, fee) \/ Settle(ids)
=============================================================================
