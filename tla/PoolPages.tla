------------------------------ MODULE PoolPages ------------------------------
(***************************************************************************)
(* A tab of the site over pools that others use meanwhile: the option      *)
(* chain (ChainPage: one pool, hooks/usePool.ts), the portfolio            *)
(* (PortfolioPage: the wallet's options, hooks/useUserOptions.ts) and the  *)
(* market picker (MarketPicker: every pool, hooks/useMultiPool.ts).  A     *)
(* page reads the chain one call at a time, offers calls in a modal, and   *)
(* reads again when one of its own transactions is confirmed.              *)
(*                                                                         *)
(* Every load is numbered; a load is cancelled when a later one begins,    *)
(* and its calls still return.  An option is what a listing shows of it:   *)
(* its writer, its holder and how far it has come (CLOSED stands for       *)
(* exercised, expired and cancelled).                                      *)
(***************************************************************************)
EXTENDS Naturals, Sequences, FiniteSets

CONSTANTS
    Pools, Pages,      \* pools discovered; pages visited in the run
    Me, Others, NoOne, \* the connected wallet, another user, no holder
    MAX_BATCH_SIZE,    \* options per getOptionsBatch call (9 in the code)
    NoModal,
    MaxIds,            \* bound: options per pool
    MaxOthersMoves,    \* bound: transactions of others
    MaxCalls,          \* bound: transactions of the wallet
    MaxLoads,          \* bound: loads begun
    MaxInFlight        \* bound: loads whose calls are out

ASSUME BatchAssumption == MAX_BATCH_SIZE \in Nat \ {0}
ASSUME PagesAssumption == Pages \subseteq {"chain", "portfolio", "market"}
ASSUME WalletAssumption == Me # NoOne

VARIABLES
    book,      \* pool -> sequence of options: what the chain says
    indexed,   \* what the indexer's tables say: an earlier book
    moves,     \* transactions of others so far
    calls,     \* the wallet's transactions, as TransactionContext keeps them
    page,      \* the page shown
    selected,  \* the pool it is about
    counted,   \* confirmedCountRef
    loads,     \* the loads begun on any page, the last one not cancelled
    shown,     \* [rows, failed, source]: the lists of options in the page
    modal      \* the open modal

chainVars == <<book, indexed, moves>>
pageVars  == <<page, selected, counted, loads, shown, modal>>
vars      == <<chainVars, calls, pageVars>>

Option(writer, status, buyer) ==
    [writer |-> writer, status |-> status, buyer |-> buyer]

(* How far an option has come: it never goes back. *)
Progress == [OPEN |-> 0, PURCHASED |-> 1, CLOSED |-> 2]

Row(p, id, o) == [pool |-> p, id |-> id, option |-> o]

Mine(o) == Me \in {o.writer, o.buyer}

-----------------------------------------------------------------------------
(* The pools. *)

MayWrite(p) == Len(book[p]) < MaxIds

Written(p, u) == [book EXCEPT ![p] = Append(@, Option(u, "OPEN", NoOne))]

MayBuy(p, id, u) ==
    book[p][id].status = "OPEN" /\ book[p][id].writer # u

Bought(p, id, u) ==
    [book EXCEPT ![p][id] = [@ EXCEPT !.status = "PURCHASED", !.buyer = u]]

(* Cancelled by its writer, exercised by its holder, settled by anyone. *)
MayClose(p, id, u) ==
    \/ book[p][id].status = "OPEN" /\ book[p][id].writer = u
    \/ book[p][id].status = "PURCHASED"

Closed(p, id) == [book EXCEPT ![p][id].status = "CLOSED"]

OthersMove ==
    /\ moves < MaxOthersMoves
    /\ \E p \in Pools, u \in Others :
          \/ MayWrite(p) /\ book' = Written(p, u)
          \/ \E id \in DOMAIN book[p] :
                \/ MayBuy(p, id, u) /\ book' = Bought(p, id, u)
                \/ MayClose(p, id, u) /\ book' = Closed(p, id)
    /\ moves' = moves + 1
    /\ UNCHANGED <<indexed, calls, pageVars>>

(* What IndexedView promises: the tables move to a longer prefix. *)
IndexerCatchesUp ==
    /\ indexed # book
    /\ indexed' = book
    /\ UNCHANGED <<book, moves, calls, pageVars>>

-----------------------------------------------------------------------------
(* Loads.  A load reads the options of the pools in DOMAIN part, each pool *)
(* on its own: first the count, then batches from where the last one       *)
(* ended.  since is not kept by the code: what the source said when the    *)
(* load began.                                                             *)

Last  == Len(loads)
IsOver(l) == l.step = "pools" /\ \A p \in DOMAIN l.part :
                                    l.part[p].step \in {"read", "failed"}

Loading == ~IsOver(loads[Last])

NothingShown == [rows |-> {}, failed |-> {}, source |-> "none"]

(* The pools a page asks. *)
PoolsOf(pg, p) == IF pg = "market" THEN Pools ELSE {p}

NewLoad(pg, p) ==
    [page |-> pg,
     step |-> IF pg = "portfolio" THEN "indexer" ELSE "pools",
     part |-> [q \in PoolsOf(pg, p) |->
                 [step |-> "count", total |-> 0, got |-> <<>>]],
     since |-> book]

(* The flag set by the effect's cleanup. *)
Current(n) == n = Last

Rows(p, got) == {Row(p, id, got[id]) : id \in DOMAIN got}

(* usePool: the answer is shown as the options of the pool selected now;   *)
(* one failed call and nothing is shown.                                   *)
ChainRows(l, read) == UNION {Rows(selected, l.part[p].got) : p \in read}

(* useUserOptions: what the wallet wrote and what it holds. *)
PortfolioRows(l, read) ==
    {r \in UNION {Rows(p, l.part[p].got) : p \in read} : Mine(r.option)}

(* useMultiPool: each pool's options, or its error, under its address. *)
MarketRows(l, read) == UNION {Rows(p, l.part[p].got) : p \in read}

RowsOf(l, read) ==
    CASE l.page = "chain"     -> ChainRows(l, read)
      [] l.page = "portfolio" -> PortfolioRows(l, read)
      [] l.page = "market"    -> MarketRows(l, read)

(* setOptions and its like, unless the effect was cleaned up meanwhile. *)
Show(n, l) ==
    IF ~(Current(n) /\ IsOver(l)) THEN shown
    ELSE LET read == {p \in DOMAIN l.part : l.part[p].step = "read"}
         IN  [rows   |-> RowsOf(l, read),
              failed |-> DOMAIN l.part \ read,
              source |-> "chain"]

(* What matters of an earlier load: the calls still out. *)
Cancelled(l) ==
    IF IsOver(l) THEN [l EXCEPT !.part = <<>>, !.since = <<>>]
                 ELSE [l EXCEPT !.since = <<>>]

Advance(n, l) ==
    /\ loads' = [loads EXCEPT ![n] = IF Current(n) THEN l ELSE Cancelled(l)]
    /\ shown' = Show(n, l)
    /\ UNCHANGED <<chainVars, calls, page, selected, counted, modal>>

AdvancePart(n, p, part) == Advance(n, [loads[n] EXCEPT !.part[p] = part])

Waits(n, p, step) ==
    /\ loads[n].step = "pools"
    /\ p \in DOMAIN loads[n].part
    /\ loads[n].part[p].step = step

(* optionCount; an empty pool needs no batch. *)
ReadCount(n, p) ==
    /\ Waits(n, p, "count")
    /\ LET total == Len(book[p])
       IN  AdvancePart(n, p,
             [step |-> IF total = 0 THEN "read" ELSE "batch",
              total |-> total, got |-> <<>>])

(* The contract's getOptionsBatch: at most what there is by now. *)
OptionsBatch(p, start, count) ==
    LET available == Len(book[p]) - start
    IN  SubSeq(book[p], start + 1,
               start + (IF count > available THEN available ELSE count))

(* Mutant: the first batch taken for the whole pool. *)
OneBatch(part, got) == TRUE

AllRead(part, got) == Len(got) >= part.total

ReadBatch(n, p) ==
    /\ Waits(n, p, "batch")
    /\ LET part == loads[n].part[p]
           got  == part.got \o OptionsBatch(p, Len(part.got), MAX_BATCH_SIZE)
       IN  AdvancePart(n, p,
             [part EXCEPT !.got = got,
                          !.step = IF AllRead(part, got) THEN "read" ELSE @])

ReadFails(n, p) ==
    /\ Waits(n, p, "count") \/ Waits(n, p, "batch")
    /\ AdvancePart(n, p, [loads[n].part[p] EXCEPT !.step = "failed"])

(* SELECT ... WHERE writer = ? OR buyer = ?: of every pool. *)
GetOptionsByUser ==
    UNION {{r \in Rows(p, indexed[p]) : Mine(r.option)} : p \in Pools}

(* The fast path: the answer is shown as it is. *)
IndexerAnswers(n) ==
    /\ loads[n].step = "indexer"
    /\ LET done == [p \in Pools |->
                      [step |-> "read", total |-> 0, got |-> <<>>]]
           l    == [loads[n] EXCEPT !.step = "pools", !.since = indexed,
                                    !.part = done]
       IN  /\ loads' = [loads EXCEPT ![n] =
                          IF Current(n) THEN l ELSE Cancelled(l)]
           /\ shown' = IF Current(n)
                       THEN [rows |-> GetOptionsByUser, failed |-> {},
                             source |-> "indexer"]
                       ELSE shown
    /\ UNCHANGED <<chainVars, calls, page, selected, counted, modal>>

(* No address configured, no answer, or an answer that is not a list: null,*)
(* and the selected pool is scanned instead.                               *)
IndexerUnavailable(n) ==
    /\ loads[n].step = "indexer"
    /\ Advance(n, [loads[n] EXCEPT !.step = "pools"])

LoadSteps(n) ==
    \/ IndexerAnswers(n) \/ IndexerUnavailable(n)
    \/ \E p \in Pools : ReadCount(n, p) \/ ReadBatch(n, p) \/ ReadFails(n, p)

-----------------------------------------------------------------------------
(* The page. *)

(* Confirmed transactions of pool p in the context. *)
Confirmed(cs, p) ==
    Cardinality({n \in DOMAIN cs : cs[n].status = "confirmed"
                                   /\ cs[n].pool = p})

(* The effect of usePool: a new load, everything shown so far gone.  The   *)
(* portfolio keeps its lists but shows a skeleton until the load is over.  *)
Fetch(pg, p) ==
    /\ Last < MaxLoads
    /\ Cardinality({n \in DOMAIN loads : ~IsOver(loads[n])}) < MaxInFlight
    /\ loads' = Append([n \in DOMAIN loads |-> Cancelled(loads[n])],
                      NewLoad(pg, p))
    /\ shown' = NothingShown

Select(p) ==
    /\ p # selected
    /\ Fetch(page, p)
    /\ selected' = p
    /\ counted' = Confirmed(calls, p)
    /\ UNCHANGED <<chainVars, calls, page, modal>>

(* The tabs of the chain page, or the browser's back button, which leaves  *)
(* an open modal where it is: the pool is in the address of the page.      *)
SelectMarket(p) == page = "chain" /\ Select(p)

(* The portfolio's buttons, hidden while it loads and behind a modal. *)
SelectPortfolioPool(p) ==
    page = "portfolio" /\ modal = NoModal /\ ~Loading /\ Select(p)

Failed == shown.failed # {}

Displayed == ~Loading /\ ~Failed

Retry ==
    /\ page \in {"chain", "portfolio"}
    /\ ~Loading /\ Failed
    /\ Fetch(page, selected)
    /\ UNCHANGED <<chainVars, calls, page, selected, counted, modal>>

(* What a row offers the wallet: cancelling, exercising and settling are   *)
(* "close".  The portfolio's tables have no buyers.                        *)
PortfolioOffers(r) ==
    IF \/ r.option.status = "OPEN" /\ r.option.writer = Me
       \/ r.option.status = "PURCHASED"
    THEN {"close"} ELSE {}

ChainOffers(r) ==
    PortfolioOffers(r)
    \cup (IF r.option.status = "OPEN" /\ r.option.writer # Me
          THEN {"buy"} ELSE {})

Opens(kind, p, id) ==
    /\ modal = NoModal
    /\ modal' = [kind |-> kind, of |-> p, id |-> id]
    /\ UNCHANGED <<chainVars, calls, page, selected, counted, loads, shown>>

OpenChainModal ==
    /\ page = "chain" /\ Displayed
    /\ \/ Opens("write", selected, 0)
       \/ \E r \in shown.rows : \E k \in ChainOffers(r) : Opens(k, r.pool, r.id)

OpenPortfolioModal ==
    /\ page = "portfolio" /\ Displayed
    /\ \E r \in shown.rows : \E k \in PortfolioOffers(r) :
          Opens(k, r.pool, r.id)

CloseModal ==
    /\ modal # NoModal
    /\ modal' = NoModal
    /\ UNCHANGED <<chainVars, calls, page, selected, counted, loads, shown>>

(* A call as the context records it; of says whose option the modal was    *)
(* opened for, did and masked what became of it.                           *)
Posted(p) ==
    Append(calls, [kind |-> modal.kind, pool |-> p, id |-> modal.id,
                   of |-> modal.of, status |-> "pending", did |-> FALSE,
                   masked |-> FALSE])

(* Once the transaction is sent the modal closes and the page reads again. *)
Sends(p) ==
    /\ modal # NoModal
    /\ Displayed
    /\ Len(calls) < MaxCalls
    /\ calls' = Posted(p)
    /\ modal' = NoModal
    /\ Fetch(page, selected)
    /\ UNCHANGED <<chainVars, page, selected, counted>>

(* Both pages hand every modal the address of the pool selected now. *)
SendFromChain     == page = "chain" /\ Sends(selected)
SendFromPortfolio == page = "portfolio" /\ Sends(selected)

Possible(c) ==
    \/ c.kind = "write" /\ MayWrite(c.pool)
    \/ c.kind = "buy" /\ c.id \in DOMAIN book[c.pool] /\ MayBuy(c.pool, c.id, Me)
    \/ c.kind = "close" /\ c.id \in DOMAIN book[c.pool]
                       /\ MayClose(c.pool, c.id, Me)

Effect(c) ==
    CASE c.kind = "write" -> Written(c.pool, Me)
      [] c.kind = "buy"   -> Bought(c.pool, c.id, Me)
      [] c.kind = "close" -> Closed(c.pool, c.id)

(* A transaction is mined: it has its effect, or it has become impossible  *)
(* and reverts, which the receipt the site waits for does not tell.        *)
IsMined(n) ==
    /\ calls[n].status = "pending"
    /\ LET c  == calls[n]
           id == IF c.kind = "write" THEN Len(book[c.pool]) + 1 ELSE c.id
       IN  /\ book' = IF Possible(c) THEN Effect(c) ELSE book
           /\ calls' = [calls EXCEPT ![n] = [c EXCEPT
                  !.status = "mined", !.did = Possible(c), !.id = id]]
    /\ UNCHANGED <<indexed, moves, pageVars>>

(* Mutant: the highest count ever is remembered. *)
Recounted(count) == IF count > counted THEN count ELSE counted

Counted(count) == count

(* The page's effect on the transactions, after a rendering with cs. *)
Notice(cs) ==
    LET count == Confirmed(cs, selected)
    IN  IF page = "market" THEN UNCHANGED <<counted, loads, shown>>
        ELSE /\ counted' = Counted(count)
             /\ IF count > counted THEN Fetch(page, selected)
                                   ELSE UNCHANGED <<loads, shown>>

(* A poll finds the receipt; the poll that finds the last one also drops   *)
(* confirmed transactions that are a day old, in the same rendering.  A    *)
(* call is masked when its pool's count does not grow for that reason.     *)
Confirm(n, old) ==
    /\ calls[n].status = "mined"
    /\ LET cs == [m \in DOMAIN calls |->
                    IF m = n THEN [calls[m] EXCEPT !.status = "confirmed",
                        !.masked = \E k \in old : calls[k].pool = calls[n].pool]
                    ELSE IF m \in old THEN [calls[m] EXCEPT !.status = "dropped"]
                    ELSE calls[m]]
       IN  calls' = cs /\ Notice(cs)
    /\ UNCHANGED <<chainVars, page, selected, modal>>

OldOnes == SUBSET {n \in DOMAIN calls : calls[n].status = "confirmed"}

ClearConfirmed ==
    /\ \E n \in DOMAIN calls : calls[n].status = "confirmed"
    /\ LET cs == [n \in DOMAIN calls |->
                    IF calls[n].status = "confirmed"
                    THEN [calls[n] EXCEPT !.status = "dropped"] ELSE calls[n]]
       IN  calls' = cs /\ Notice(cs)
    /\ UNCHANGED <<chainVars, page, selected, modal>>

-----------------------------------------------------------------------------
(* A page is opened (its component mounted) on pools with a past, perhaps  *)
(* the wallet's own: a confirmed transaction that wrote the first option   *)
(* is still in the browser's storage.  Leaving it ends the component.      *)
Histories ==
    {<<>>, <<Option(Me, "OPEN", NoOne)>>}
    \cup {<<Option(u, "PURCHASED", Me)>> : u \in Others}

Remembered(p) ==
    [kind |-> "write", pool |-> p, id |-> 1, of |-> p,
     status |-> "confirmed", did |-> TRUE, masked |-> FALSE]

Init ==
    /\ book \in [Pools -> Histories]
    /\ indexed = book
    /\ moves = 0
    /\ calls \in {<<>>} \cup {<<Remembered(p)>> :
                    p \in {q \in Pools : book[q] # <<>> /\ book[q][1].writer = Me}}
    /\ page \in Pages
    /\ selected \in Pools
    /\ counted = Confirmed(calls, selected)
    /\ loads = <<NewLoad(page, selected)>>
    /\ shown = NothingShown
    /\ modal = NoModal

Next ==
    \/ OthersMove \/ IndexerCatchesUp
    \/ \E n \in DOMAIN loads : LoadSteps(n)
    \/ \E p \in Pools : SelectMarket(p) \/ SelectPortfolioPool(p)
    \/ Retry \/ OpenChainModal \/ OpenPortfolioModal \/ CloseModal
    \/ SendFromChain \/ SendFromPortfolio
    \/ \E n \in DOMAIN calls : IsMined(n) \/ \E old \in OldOnes : Confirm(n, old)
    \/ ClearConfirmed

Spec == Init /\ [][Next]_vars
=============================================================================
