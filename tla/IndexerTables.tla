--------------------------- MODULE IndexerTables ---------------------------
(***************************************************************************)
(* The event decoder and the tables it writes (src/indexer/src/decoder,    *)
(* db/queries.ts, db/schema.sql): an event becomes a sequence of           *)
(* statements, and a batch runs the statements in order.                   *)
(*                                                                         *)
(* Tables are [options, fees, transfers, swaps].  Option rows are keyed by *)
(* id; the others are lists, because their key is an autoincrement.        *)
(***************************************************************************)
EXTENDS PoolMath, Sequences, SequencesExt

CONSTANTS
    NULL,             \* SQL's NULL; also the holder nobody is
    Tracked,          \* contracts configured as pools
    SwapContracts,    \* contracts configured as swap tokens
    DefaultGrace,     \* DEFAULT_GRACE_PERIOD_BLOCKS
    GracePeriod       \* what the pool answers

NoTables == [options |-> <<>>, fees |-> <<>>, transfers |-> <<>>, swaps |-> <<>>]

(* ---- statements ---- *)

(* INSERT OR IGNORE *)
InsertOption(id, row) == [op |-> "insertOption", id |-> id, row |-> row]
UpdateStatus(id, status, buyer, n) ==
    [op |-> "updateStatus", id |-> id, status |-> status, buyer |-> buyer, block |-> n]
UpdateBuyer(id, buyer, n) ==
    [op |-> "updateBuyer", id |-> id, buyer |-> buyer, block |-> n]
Insert(table, row) == [op |-> "insert", table |-> table, row |-> row]

(* Mutant: what the writer got taken for the fee. *)
WriterAmountAsFee(e) == e.writerAmount

(* ---- handlers: e is the data of the event ---- *)

HandleWritten(e, n, grace) ==
    <<InsertOption(e.id, [writer |-> e.writer, buyer |-> NULL, status |-> OPEN,
                          created |-> n, updated |-> 0, grace |-> grace])>>

(* The collateral and the escrow the event names are not stored. *)
HandleWrittenBtc(e, n, grace) == HandleWritten(e, n, grace)

FeeInsert(e, n, kind, amount) ==
    IF amount = 0 THEN <<>>
    ELSE <<Insert("fees", [id |-> e.id, kind |-> kind, amount |-> amount, block |-> n])>>

HandleCancelled(e, n) ==
    <<UpdateStatus(e.id, CANCELLED, NULL, n)>> \o FeeInsert(e, n, "cancel", e.fourth)

SaleFee(e) == IF e.premium >= e.writerAmount THEN e.premium - e.writerAmount ELSE 0

HandlePurchased(e, n) ==
    <<UpdateStatus(e.id, PURCHASED, e.buyer, n)>> \o FeeInsert(e, n, "buy", SaleFee(e))

HandleExercised(e, n) ==
    <<UpdateStatus(e.id, EXERCISED, NULL, n)>> \o FeeInsert(e, n, "exercise", e.fee)

HandleSettled(e, n) == <<UpdateStatus(e.id, EXPIRED, NULL, n)>>

HandleTransferred(e, n) ==
    <<UpdateBuyer(e.id, e.to, n),
      Insert("transfers", [id |-> e.id, from |-> e.from, to |-> e.to, block |-> n])>>

HandleOptionReserved(e, n) == <<UpdateStatus(e.id, RESERVED, NULL, n)>>

HandleReservationExecuted(e, n) ==
    <<UpdateStatus(e.id, PURCHASED, e.buyer, n), UpdateBuyer(e.id, e.buyer, n)>>

HandleReservationCancelled(e, n) == <<UpdateStatus(e.id, OPEN, NULL, n)>>

HandleSwapExecuted(e, n) == <<Insert("swaps", [buyer |-> e.buyer, block |-> n])>>

DecodePoolEvent(e, n, grace) ==
    CASE e.type = "OptionWritten"        -> HandleWritten(e.data, n, grace)
      [] e.type = "OptionWrittenBtc"     -> HandleWrittenBtc(e.data, n, grace)
      [] e.type = "OptionCancelled"      -> HandleCancelled(e.data, n)
      [] e.type = "OptionPurchased"      -> HandlePurchased(e.data, n)
      [] e.type = "OptionExercised"      -> HandleExercised(e.data, n)
      [] e.type = "OptionExpired"        -> HandleSettled(e.data, n)
      [] e.type = "OptionTransferred"    -> HandleTransferred(e.data, n)
      [] e.type = "OptionReserved"       -> HandleOptionReserved(e.data, n)
      [] e.type = "ReservationExecuted"  -> HandleReservationExecuted(e.data, n)
      [] e.type = "ReservationCancelled" -> HandleReservationCancelled(e.data, n)
      [] OTHER                           -> <<>>

(* pools: the tracked pools whose address this run could resolve. *)
DecodeEvent(e, n, pools, grace) ==
    IF e.contract \in SwapContracts /\ e.type = "SwapExecuted"
      THEN HandleSwapExecuted(e.data, n)
    ELSE IF e.contract \in pools
      THEN DecodePoolEvent(e, n, grace)
    ELSE <<>>

DecodeBlock(events, n, pools, grace) ==
    FlattenSeq([k \in DOMAIN events |-> DecodeEvent(events[k], n, pools, grace)])

(* ---- what a statement does ---- *)

(* Mutant: SET buyer = ? without the COALESCE. *)
FirstOnly(a, b) == a
Coalesce(a, b) == IF a = NULL THEN b ELSE a

DoInsertOption(t, s) ==
    IF s.id \in DOMAIN t.options THEN t
    ELSE [t EXCEPT !.options = [id \in DOMAIN t.options \cup {s.id} |->
                                  IF id = s.id THEN s.row ELSE t.options[id]]]

(* UPDATE ... WHERE the row has this id. *)
UpdateRow(t, id, row) ==
    IF id \in DOMAIN t.options THEN [t EXCEPT !.options[id] = row] ELSE t

DoUpdateStatus(t, s) ==
    LET row == t.options[s.id] IN
    UpdateRow(t, s.id, [row EXCEPT !.status = s.status, !.updated = s.block,
                                   !.buyer = Coalesce(s.buyer, @)])
DoUpdateBuyer(t, s) ==
    LET row == t.options[s.id] IN
    UpdateRow(t, s.id, [row EXCEPT !.buyer = s.buyer, !.updated = s.block])

Do(t, s) ==
    CASE s.op = "insertOption" -> DoInsertOption(t, s)
      [] s.op = "updateStatus" -> DoUpdateStatus(t, s)
      [] s.op = "updateBuyer"  -> DoUpdateBuyer(t, s)
      [] s.op = "insert"       -> [t EXCEPT ![s.table] = Append(@, s.row)]

Batch(t, stmts) ==
    LET after[k \in 0 .. Len(stmts)] ==
            IF k = 0 THEN t ELSE Do(after[k - 1], stmts[k])
    IN after[Len(stmts)]
=============================================================================
