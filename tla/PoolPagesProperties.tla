------------------------- MODULE PoolPagesProperties -------------------------
(***************************************************************************)
(* What the tables of the pages may be relied on for.                      *)
(***************************************************************************)
EXTENDS PoolPages

(* Option o of the chain, as it was and as it is, with shown in between. *)
Between(before, o, after) ==
    /\ o.writer = after.writer
    /\ Progress[o.status] \in Progress[before.status] .. Progress[after.status]
    /\ Progress[o.status] = Progress[after.status] => o = after

LoadShown == loads[Last]
AtStart(p) == LoadShown.since[p]

(* A row tells what its option was at some moment since the load began, in *)
(* the pool it stands under. *)
RowIsTrue(r) ==
    /\ r.id \in DOMAIN book[r.pool]
    /\ LET now == book[r.pool][r.id]
       IN  Between(IF r.id \in DOMAIN AtStart(r.pool)
                   THEN AtStart(r.pool)[r.id]
                   ELSE Option(now.writer, "OPEN", NoOne), r.option, now)

Listable(p) ==
    {id \in DOMAIN AtStart(p) : page = "portfolio" => Mine(AtStart(p)[id])}

(* Listings are true: once a page has loaded, every row is what that       *)
(* option was at some moment since the load began (or since the indexer    *)
(* last caught up), under the right pool; and every option there was then  *)
(* has a row, however the pool grew while it was read in batches and       *)
(* whatever was selected meanwhile.                                        *)
ListingsAreTrue ==
    ~Loading =>
        /\ \A r \in shown.rows : RowIsTrue(r)
        /\ \A p \in DOMAIN LoadShown.part \ shown.failed :
              \A id \in Listable(p) :
                 \E r \in shown.rows : r.pool = p /\ r.id = id

(* What a confirmed call has done shows in the row. *)
Reflects(c, r) ==
    /\ r.pool = c.pool
    /\ r.id = c.id
    /\ c.kind = "buy" => Progress[r.option.status] >= Progress["PURCHASED"]
    /\ c.kind = "close" => r.option.status = "CLOSED"

Owned(c) == c.kind # "close" \/ Mine(book[c.pool][c.id])

(* Own calls are seen: when nothing is loading and nothing has failed, the *)
(* table of the selected pool shows the effect of every own transaction    *)
(* the site calls confirmed, whatever else was confirmed, cleared or       *)
(* selected before.  Not claimed for the indexer's rows, which lag, nor    *)
(* for a call confirmed in the very rendering in which a day-old one of    *)
(* the same pool was dropped: the count then stays as it was.              *)
OwnCallsAreSeen ==
    (Displayed /\ page # "market" /\ shown.source = "chain") =>
        \A n \in DOMAIN calls :
            LET c == calls[n]
            IN  (/\ c.status \in {"confirmed", "dropped"}
                 /\ c.did /\ ~c.masked
                 /\ c.pool = selected
                 /\ page = "portfolio" => Owned(c))
                    => \E r \in shown.rows : Reflects(c, r)

(* A transaction goes to the pool of the option its modal was opened for:  *)
(* services/types.ts keeps "Pool contract address this option belongs to". *)
CallsNameWhatWasShown ==
    \A n \in DOMAIN calls : calls[n].pool = calls[n].of
=============================================================================
