----------------------- MODULE PriceCandlesProperties -----------------------
(* What snapshots, candles and charts owe one another. *)
EXTENDS PriceCandles

Ordered(c) ==
    /\ c.low <= c.open /\ c.low <= c.close
    /\ c.open <= c.high /\ c.close <= c.high

(* c is borne out by rows, one row each of the first blocks of its bucket: *)
(* of no block before the last of them is there a row that is not counted. *)
BorneOut(rows, c) ==
    /\ rows # {}
    /\ \A r, s \in rows : r.block = s.block => r = s
    /\ \A q \in BucketSnapshots(quoted, c.token, c.openTime, c.interval) :
          (\E r \in rows : q.block < r.block) => \E r \in rows : r.block = q.block
    /\ c.open = Earliest(rows).price /\ c.close = Latest(rows).price
    /\ c.high = Highest({r.price : r \in rows})
    /\ c.low = Lowest({r.price : r \in rows})

(* A candle is what the snapshots of the first few blocks of its bucket    *)
(* say, none of another bucket's among them and none left out, although    *)
(* the bucket goes on, prices are saved, or replaced at the same height,   *)
(* while it is read, and old rows are pruned beside it.  Whichever way     *)
(* round a chart asks for a pair, and after the inversions of the API and  *)
(* of the page, a candle's low is its lowest price, unless it is zero.     *)
CandlesAreTrue ==
    /\ \A t \in Requests, i \in Intervals :
         \A c \in GetCandles(Canonical(t), i) :
            c.low > 0 => Ordered(ChartCandle(t, c))
    /\ \A c \in candles :
         \E rows \in SUBSET BucketSnapshots(quoted, c.token, c.openTime, c.interval) :
            BorneOut(rows, c)
=============================================================================
