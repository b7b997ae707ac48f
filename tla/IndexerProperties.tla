------------------------- MODULE IndexerProperties -------------------------
(* What the indexer's tables owe their readers. *)
EXTENDS IndexerPoller

(* The configuration names the pool and the traded token, and not the      *)
(* contract nobody follows; the holder nobody is, is NULL in a row.        *)
ASSUME ConfigAssumption ==
    /\ NULL = NoOne /\ NoOne \notin Users
    /\ "pool" \in Tracked /\ "token" \in SwapContracts
    /\ "other" \notin Tracked

(* ---- what a prefix of the chain says ---- *)

BookOf(blocks) == IF blocks = <<>> THEN <<>> ELSE Last(blocks).book
RowsOf(blocks, table) == FlattenSeq([n \in DOMAIN blocks |-> blocks[n][table]])
Position(o) == [writer |-> o.writer, buyer |-> o.buyer, status |-> o.status]
Positions(rows) == [id \in DOMAIN rows |-> Position(rows[id])]

Indexed == SubSeq(chain, 1, cursor)

(* What was skipped is never asked for again. *)
Lossless == ToSet(faults) \cap {"unresolved", "nullBlock"} = {}

(* A cancelled call of a type 2 pool leaves a fee row nobody paid, of the  *)
(* amount the event gives; the properties are about every other row.       *)
Real(fees) ==
    FlattenSeq([k \in DOMAIN fees |->
        IF fees[k].amount = EscrowHash THEN <<>> ELSE <<fees[k]>>])

(* A reader of the API sees the chain block by block.  While nothing was   *)
(* skipped, the options table is the pool's book as it stood after the     *)
(* block the cursor names (each event alone changes one column: status,    *)
(* buyer and the rows' existence must come out right together), every fee, *)
(* transfer and swap up to the cursor is recorded once and in order (their *)
(* tables have no key that would refuse a second copy), and no failure of  *)
(* a run shows half a block or an earlier prefix than before.              *)
Shown == [options |-> Positions(tables.options), fees |-> Real(tables.fees),
          transfers |-> tables.transfers, swaps |-> tables.swaps]
SaidBy(blocks) ==
    [options |-> Positions(BookOf(blocks)), fees |-> RowsOf(blocks, "fees"),
     transfers |-> RowsOf(blocks, "transfers"), swaps |-> RowsOf(blocks, "swaps")]
View == INSTANCE IndexedView WITH
          blocks <- chain, upto <- cursor, Says <- SaidBy,
          shown <- IF Lossless THEN Shown ELSE SaidBy(Indexed)
ShowsPrefixes == View!Spec

(* The cursor never goes back.  *)
CursorOnlyAdvances == [][cursor' >= cursor]_pollerVars

(* Whatever blocks, addresses and answers are lost, a row never says what  *)
(* no block said: its writer, its status and its holder were the option's  *)
(* at some block up to the cursor, and its fees were charged.              *)
NeverInvents ==
    /\ \A id \in DOMAIN tables.options :
          LET row == tables.options[id]
              past == {n \in 1 .. cursor : id \in DOMAIN chain[n].book}
          IN /\ \E n \in past : chain[n].book[id].status = row.status
             /\ \E n \in past : chain[n].book[id].buyer = row.buyer
             /\ \A n \in past : chain[n].book[id].writer = row.writer
    /\ \A row \in ToSet(tables.fees) :
          \/ row.amount = EscrowHash
          \/ row.block \in 1 .. cursor /\ row \in ToSet(chain[row.block].fees)

(* Every block is indexed in the end, however often a run fails.           *)
CatchesUp == \A n \in 1 .. MaxHeight : Height >= n ~> cursor >= n

=============================================================================
