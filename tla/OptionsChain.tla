---------------------------- MODULE OptionsChain ----------------------------
(***************************************************************************)
(* The option chain of a pool: optionsChain.ts and OptionsChain.tsx.  The  *)
(* open options a page has loaded ("book": id -> option, ids in order) are *)
(* laid out as strikes by expiry tabs, calls and puts side by side, equal  *)
(* ones stacked in one cell with the cheapest on top.  Prices are scaled   *)
(* by PRECISION, as strikes are.                                           *)
(***************************************************************************)
EXTENDS OptionViews, Sequences, SequencesExt

CONSTANTS BLOCKS_PER_DAY, BLOCKS_PER_WEEK, BLOCKS_PER_MONTH

ASSUME PeriodAssumption ==
    /\ BLOCKS_PER_DAY \in Nat /\ BLOCKS_PER_WEEK \in Nat
    /\ BLOCKS_PER_MONTH \in Nat
    /\ BLOCKS_PER_DAY < BLOCKS_PER_WEEK /\ BLOCKS_PER_WEEK < BLOCKS_PER_MONTH

Distance(x, y) == IF x < y THEN y - x ELSE x - y

(* The number of the block is not known yet. *)
Unknown == -1

-----------------------------------------------------------------------------
(* Buckets and cells. *)

(* An option that has expired unsold stays in the first bucket. *)
ClassifyBucket(blocksLeft) ==
    IF blocksLeft < BLOCKS_PER_DAY        THEN "lt1d"
    ELSE IF blocksLeft < BLOCKS_PER_WEEK  THEN "1to7d"
    ELSE IF blocksLeft < BLOCKS_PER_MONTH THEN "7to30d"
    ELSE "30dplus"

Listed(book) == {id \in DOMAIN book : book[id].status = OPEN}

InBucket(book, bucket, shown) ==
    {id \in Listed(book) :
        \/ bucket = "all"
        \/ /\ shown # Unknown
           /\ bucket = ClassifyBucket(book[id].expiryBlock - shown)}

ExpiryTabs == {"all", "lt1d", "1to7d", "7to30d", "30dplus"}

ActiveBuckets(book, shown) ==
    {b \in ExpiryTabs : b = "all" \/ InBucket(book, b, shown) # {}}

(* The elements of S one before the other; there is only one such order    *)
(* when no two of them come before each other in either direction.         *)
InOrder(S, before(_, _)) ==
    CHOOSE s \in [1 .. Cardinality(S) -> S] :
        \A i, j \in DOMAIN s : i < j => before(s[i], s[j])

NoCell == [bestPremium |-> 0, depth |-> 0, totalAmount |-> 0, options |-> <<>>]

(* Sorting is stable: equal premiums stay in the order of their ids. *)
BuildCell(book, ids) ==
    IF ids = {} THEN NoCell
    ELSE [bestPremium |-> Min({book[id].premium : id \in ids}),
          depth       |-> Cardinality(ids),
          totalAmount |-> MapThenSumSet(LAMBDA id : book[id].underlyingAmount, ids),
          options     |-> InOrder(ids, LAMBDA i, j :
                             \/ book[i].premium < book[j].premium
                             \/ book[i].premium = book[j].premium /\ i < j)]

BuildRows(book, ids) ==
    LET strikes == InOrder({book[id].strikePrice : id \in ids}, <)
        cell(k, type) == BuildCell(book, {id \in ids : book[id].strikePrice = k
                                                  /\ book[id].optionType = type})
    IN  [n \in DOMAIN strikes |->
            [strikePrice |-> strikes[n],
             call |-> cell(strikes[n], CALL), put |-> cell(strikes[n], PUT)]]

BuildChain(book, shown) ==
    [b \in ActiveBuckets(book, shown) |-> BuildRows(book, InBucket(book, b, shown))]

(* The rows under the chosen tab; all of them once the tab has no options. *)
ShownRows(chain, activeBucket) ==
    chain[IF activeBucket \in DOMAIN chain THEN activeBucket ELSE "all"]

-----------------------------------------------------------------------------
(* Moneyness, spot being known (positive). *)

IsCallItm(strike, spot) == spot > strike
IsPutItm(strike, spot)  == spot < strike

(* 0 when there are no rows: no divider is drawn. *)
FindAtmStrikeIndex(rows, spot) ==
    SelectInSeq(rows, LAMBDA r : \A n \in DOMAIN rows :
        Distance(r.strikePrice, spot) <= Distance(rows[n].strikePrice, spot))

(* Within 5% either way is at the money. *)
ClassifyMoneyness(type, strike, spot) ==
    IF 20 * Distance(strike, spot) <= spot THEN "ATM"
    ELSE IF \/ type = CALL /\ strike < spot
            \/ type = PUT  /\ strike > spot THEN "ITM"
    ELSE "OTM"

-----------------------------------------------------------------------------
(* What can be bought from the chain by wallet u. *)

(* A single listing has its button in the row, several are expanded into a *)
(* table with one button each; the wallet's own have none.                 *)
CellOffers(u, book, cell) ==
    {id \in Range(cell.options) : book[id].writer # u}

RowOffers(u, book, rows) ==
    UNION {CellOffers(u, book, rows[n].call) \cup CellOffers(u, book, rows[n].put) :
              n \in DOMAIN rows}

ListingExpired(o, shown) == shown # Unknown /\ o.expiryBlock <= shown

-----------------------------------------------------------------------------
(* The options the pool would sell u now. *)
ForSale(u) == {id \in DOMAIN options : CanBuy(u, id)}

(* Why the pool would not sell u the open option o of somebody else.       *)
Unsold(u, o) ==
    \/ ListingExpired(o, block)
    \/ balance[PremiumToken][u] < TotalCost(o)
    \/ ~FeeFits(o.premium, BUY_FEE_BPS)

(* Over a chain just loaded, for any wallet: every option the pool would   *)
(* sell it has a Buy button in the tab "all" and in exactly one expiry     *)
(* tab (a tab whose options are gone shows them all), and whatever else    *)
(* has a button is refused only because it expired, which its listing      *)
(* says, because the wallet cannot pay, or because its fee is beyond the   *)
(* contract's arithmetic (see Unsold).  The premium on a cell is that of   *)
(* its first listing, and no buyable option of the same strike and type is *)
(* cheaper.  A row is marked in the money for whichever of its sides is    *)
(* classified so, and the divider for the price stands at a strike at the  *)
(* money if there is one.                                                  *)
ChainOffersTheMarket ==
    LET chain == BuildChain(options, block)
    IN  \A u \in Users :
          LET forSale == ForSale(u)
              offers == [b \in DOMAIN chain |-> RowOffers(u, options, chain[b])]
          IN  /\ forSale \subseteq offers["all"]
              /\ \A tab \in ExpiryTabs :
                   ShownRows(chain, tab) = <<>> => chain["all"] = <<>>
              /\ \A id \in offers["all"] :
                   /\ Cardinality({b \in DOMAIN chain : id \in offers[b]}) = 2
                   /\ id \in forSale \/ Unsold(u, options[id])
              /\ \A b \in DOMAIN chain : \A n \in DOMAIN chain[b] :
                   \A cell \in {chain[b][n].call, chain[b][n].put} \ {NoCell} :
                      LET top == options[cell.options[1]]
                      IN  /\ cell.bestPremium = top.premium
                          /\ \A id \in forSale :
                               /\ b \in {"all", ClassifyBucket(options[id].expiryBlock - block)}
                               /\ options[id].strikePrice = top.strikePrice
                               /\ options[id].optionType = top.optionType
                               => cell.bestPremium <= options[id].premium
              /\ \A s \in Spots :
                   LET rows == chain["all"]
                       atm(n) == ClassifyMoneyness(CALL, rows[n].strikePrice, s) = "ATM"
                   IN  /\ \A n \in DOMAIN rows : \A type \in OptionTypes :
                            ClassifyMoneyness(type, rows[n].strikePrice, s) = "ITM" =>
                               IF type = CALL THEN IsCallItm(rows[n].strikePrice, s)
                                              ELSE IsPutItm(rows[n].strikePrice, s)
                       /\ (\E n \in DOMAIN rows : atm(n)) =>
                            atm(FindAtmStrikeIndex(rows, s))
=============================================================================
