--------------------------- MODULE PoolPagesProofs ---------------------------
(***************************************************************************)
(* Proofs about the pages' listings, for any number of pools, options,     *)
(* loads and transactions and any batch size.                              *)
(*                                                                         *)
(* They rest on one order: an option only moves forward (Later), so that a *)
(* book the chain shows now is a later one than any read before (Grown),   *)
(* and what a load has read of an option lies between the two (Tells).     *)
(***************************************************************************)
EXTENDS PoolPagesProperties, SequenceTheorems, FiniteSetTheorems, TLAPS

-----------------------------------------------------------------------------
(* Sequences whose elements need no type. *)

IsSeq(s) == s \in Seq({s[n] : n \in DOMAIN s})

(* A sequence over any set is one. *)
LEMMA SeqIsSeq ==
    ASSUME NEW S, NEW s \in Seq(S)
    PROVE  IsSeq(s) /\ Len(s) \in Nat /\ DOMAIN s = 1 .. Len(s)
<1>1. Len(s) \in Nat /\ DOMAIN s = 1 .. Len(s)
  OBVIOUS
<1>2. s \in [1 .. Len(s) -> {s[n] : n \in DOMAIN s}]
  BY <1>1
<1>3. s \in Seq({s[n] : n \in DOMAIN s})
  BY <1>1, <1>2
<1> QED BY <1>1, <1>3 DEF IsSeq

(* The indices of a sequence. *)
LEMMA SeqDomain ==
    ASSUME NEW s, IsSeq(s)
    PROVE  Len(s) \in Nat /\ DOMAIN s = 1 .. Len(s)
BY DEF IsSeq

(* What Append, EXCEPT and a function over its indices make of a sequence. *)
LEMMA SeqAppended ==
    ASSUME NEW s, IsSeq(s), NEW x
    PROVE  /\ IsSeq(Append(s, x)) /\ Len(Append(s, x)) = Len(s) + 1
           /\ DOMAIN Append(s, x) = 1 .. Len(s) + 1
           /\ Append(s, x)[Len(s) + 1] = x
           /\ \A n \in DOMAIN s : Append(s, x)[n] = s[n]
<1> DEFINE S == {s[n] : n \in DOMAIN s} \cup {x}
<1>1. s \in Seq(S) /\ x \in S
  BY DEF IsSeq
<1>2. Append(s, x) \in Seq(S)
  BY <1>1
<1>3. IsSeq(Append(s, x))
  BY <1>2, SeqIsSeq
<1> QED BY <1>1, <1>3

(* A function over the indices of a sequence is a sequence as long. *)
LEMMA SeqReplaced ==
    ASSUME NEW s, IsSeq(s), NEW t, DOMAIN t = DOMAIN s,
           t = [n \in DOMAIN s |-> t[n]]
    PROVE  IsSeq(t) /\ Len(t) = Len(s)
<1>1. Len(s) \in Nat /\ DOMAIN s = 1 .. Len(s)
  BY SeqDomain
<1>2. t \in [1 .. Len(s) -> {t[n] : n \in DOMAIN t}]
  BY <1>1
<1>3. t \in Seq({t[n] : n \in DOMAIN t})
  BY <1>1, <1>2
<1> QED BY <1>1, <1>3, <1>2 DEF IsSeq

-----------------------------------------------------------------------------
(* The order of options. *)

Persons == {Me, NoOne} \cup Others
Statuses == {"OPEN", "PURCHASED", "CLOSED"}

(* Options of the chain: one for sale has no holder. *)
Listed ==
    {o \in [writer : Persons, status : Statuses, buyer : Persons] :
        o.status = "OPEN" => o.buyer = NoOne}

(* b is a, or what a became. *)
Later(a, b) ==
    /\ a.writer = b.writer
    /\ Progress[a.status] <= Progress[b.status]
    /\ Progress[a.status] = Progress[b.status] => a = b
    /\ a.buyer # NoOne => b.buyer = a.buyer

(* The three stages are 0, 1 and 2. *)
LEMMA ProgressValues ==
    /\ Progress["OPEN"] = 0 /\ Progress["PURCHASED"] = 1
    /\ Progress["CLOSED"] = 2
BY DEF Progress

(* An option's stage tells its status, and the fields are all of it. *)
LEMMA ListedProgress ==
    ASSUME NEW o \in Listed
    PROVE  /\ o.status \in Statuses /\ Progress[o.status] \in 0 .. 2
           /\ o = [writer |-> o.writer, status |-> o.status, buyer |-> o.buyer]
           /\ Progress[o.status] = 0 <=> o.status = "OPEN"
           /\ Progress[o.status] = 1 <=> o.status = "PURCHASED"
           /\ Progress[o.status] = 2 <=> o.status = "CLOSED"
<1>1. o.status \in Statuses
      /\ o = [writer |-> o.writer, status |-> o.status, buyer |-> o.buyer]
  BY DEF Listed
<1> QED BY <1>1, ProgressValues DEF Statuses

(* Later orders the options: it is reflexive ... *)
LEMMA LaterRefl == ASSUME NEW o \in Listed PROVE Later(o, o)
BY ListedProgress DEF Later

(* ... and transitive. *)
LEMMA LaterTrans ==
    ASSUME NEW a \in Listed, NEW b \in Listed, NEW c \in Listed,
           Later(a, b), Later(b, c)
    PROVE  Later(a, c)
BY ListedProgress DEF Later

(* An option for sale comes before whatever its writer's option became. *)
LEMMA LaterThanNew ==
    ASSUME NEW o \in Listed
    PROVE  /\ Option(o.writer, "OPEN", NoOne) \in Listed
           /\ Later(Option(o.writer, "OPEN", NoOne), o)
<1> DEFINE n == Option(o.writer, "OPEN", NoOne)
<1>1. n \in Listed /\ n.status = "OPEN" /\ n.writer = o.writer /\ n.buyer = NoOne
  BY DEF Listed, Option, Persons, Statuses
<1>2. Progress[n.status] = 0 /\ Progress[o.status] \in 0 .. 2
  BY <1>1, ProgressValues, ListedProgress
<1>3. ASSUME Progress[o.status] = 0 PROVE o = n
  <2>1. o.status = "OPEN" /\ o.buyer = NoOne
    BY <1>3, ListedProgress DEF Listed
  <2> QED BY <2>1, ListedProgress DEF Option
<1> QED BY <1>1, <1>2, <1>3 DEF Later

(* What lies between in the order lies between for the property. *)
LEMMA LaterBetween ==
    ASSUME NEW a \in Listed, NEW b \in Listed, NEW c \in Listed,
           Later(a, b), Later(b, c)
    PROVE  Between(a, b, c)
BY ListedProgress DEF Later, Between

-----------------------------------------------------------------------------
(* The order of books. *)

Books == [Pools -> Seq(Listed)]

Grown(b, c) ==
    \A p \in Pools :
        /\ Len(b[p]) <= Len(c[p])
        /\ \A id \in 1 .. Len(b[p]) : Later(b[p][id], c[p][id])

(* A pool's book is a sequence of options. *)
LEMMA BookFacts ==
    ASSUME NEW b \in Books, NEW p \in Pools
    PROVE  /\ b[p] \in Seq(Listed) /\ Len(b[p]) \in Nat
           /\ DOMAIN b[p] = 1 .. Len(b[p])
           /\ \A id \in 1 .. Len(b[p]) : b[p][id] \in Listed
BY DEF Books

(* Grown orders the books: it is reflexive ... *)
LEMMA GrownRefl == ASSUME NEW b \in Books PROVE Grown(b, b)
BY BookFacts, LaterRefl DEF Grown

(* ... and transitive. *)
LEMMA GrownTrans ==
    ASSUME NEW b \in Books, NEW c \in Books, NEW d \in Books,
           Grown(b, c), Grown(c, d)
    PROVE  Grown(b, d)
<1>1. SUFFICES ASSUME NEW p \in Pools
               PROVE  /\ Len(b[p]) <= Len(d[p])
                      /\ \A id \in 1 .. Len(b[p]) : Later(b[p][id], d[p][id])
  BY DEF Grown
<1>2. Len(b[p]) \in Nat /\ Len(c[p]) \in Nat /\ Len(d[p]) \in Nat
  BY BookFacts
<1>3. Len(b[p]) <= Len(c[p]) /\ Len(c[p]) <= Len(d[p])
  BY DEF Grown
<1>4. ASSUME NEW id \in 1 .. Len(b[p]) PROVE Later(b[p][id], d[p][id])
  <2>1. id \in 1 .. Len(c[p]) /\ id \in 1 .. Len(d[p])
    BY <1>2, <1>3
  <2>2. Later(b[p][id], c[p][id]) /\ Later(c[p][id], d[p][id])
    BY <2>1 DEF Grown
  <2> QED BY <2>1, <2>2, BookFacts, LaterTrans
<1> QED BY <1>2, <1>3, <1>4

(* A new option at the end of a book. *)
LEMMA WrittenGrows ==
    ASSUME book \in Books, NEW p \in Pools, NEW u \in Persons
    PROVE  /\ Written(p, u) \in Books /\ Grown(book, Written(p, u))
           /\ Len(Written(p, u)[p]) = Len(book[p]) + 1
           /\ Written(p, u)[p][Len(book[p]) + 1].writer = u
<1> DEFINE o == Option(u, "OPEN", NoOne)
           c == Written(p, u)
<1>1. o \in Listed /\ o.writer = u
  BY DEF Option, Listed, Persons, Statuses
<1> HIDE DEF o
<1>2. DOMAIN c = Pools /\ c[p] = Append(book[p], o)
      /\ \A q \in Pools : q # p => c[q] = book[q]
  BY DEF Books, Written, o
<1> HIDE DEF c
<1>3. /\ c[p] \in Seq(Listed) /\ Len(c[p]) = Len(book[p]) + 1
      /\ c[p][Len(book[p]) + 1] = o
      /\ \A id \in 1 .. Len(book[p]) : c[p][id] = book[p][id]
  BY <1>1, <1>2, BookFacts
<1>4. c \in Books
  <2>1. \A q \in Pools : c[q] \in Seq(Listed)
    BY <1>2, <1>3, BookFacts
  <2>2. c = [q \in Pools |-> c[q]]
    BY DEF c, Written, Books
  <2> QED BY <2>1, <2>2 DEF Books
<1>5. Grown(book, c)
  <2>1. ASSUME NEW q \in Pools
        PROVE  /\ Len(book[q]) <= Len(c[q])
               /\ \A id \in 1 .. Len(book[q]) : Later(book[q][id], c[q][id])
    BY <1>2, <1>3, BookFacts, LaterRefl
  <2> QED BY <2>1 DEF Grown
<1> QED BY <1>1, <1>3, <1>4, <1>5 DEF c

(* One option of a book moves forward. *)
Changed(p, id, o) == [book EXCEPT ![p] = [book[p] EXCEPT ![id] = o]]

(* Then the book has grown. *)
LEMMA ChangedGrows ==
    ASSUME book \in Books, NEW p \in Pools, NEW id \in DOMAIN book[p],
           NEW o \in Listed, Later(book[p][id], o)
    PROVE  /\ Changed(p, id, o) \in Books /\ Grown(book, Changed(p, id, o))
           /\ Len(Changed(p, id, o)[p]) = Len(book[p])
           /\ Changed(p, id, o)[p][id] = o
<1> DEFINE c == Changed(p, id, o)
<1>1. DOMAIN c = Pools /\ c[p] = [book[p] EXCEPT ![id] = o]
      /\ \A q \in Pools : q # p => c[q] = book[q]
  BY DEF Books, Changed
<1>2. c = [q \in Pools |-> c[q]]
  BY DEF Books, Changed
<1> HIDE DEF c
<1>3. /\ c[p] \in Seq(Listed) /\ Len(c[p]) = Len(book[p])
      /\ c[p][id] = o
      /\ \A i \in 1 .. Len(book[p]) : i # id => c[p][i] = book[p][i]
  BY <1>1, BookFacts
<1>4. c \in Books
  <2>1. \A q \in Pools : c[q] \in Seq(Listed)
    BY <1>1, <1>3, BookFacts
  <2> QED BY <1>2, <2>1 DEF Books
<1>5. Grown(book, c)
  <2>1. ASSUME NEW q \in Pools
        PROVE  /\ Len(book[q]) <= Len(c[q])
               /\ \A i \in 1 .. Len(book[q]) : Later(book[q][i], c[q][i])
    <3>1. CASE q = p
      <4>1. Len(book[q]) <= Len(c[q])
        BY <1>3, <3>1, BookFacts
      <4>2. \A i \in 1 .. Len(book[q]) : Later(book[q][i], c[q][i])
        BY <1>3, <3>1, BookFacts, LaterRefl
      <4> QED BY <4>1, <4>2
    <3>2. CASE q # p
      BY <1>1, <3>2, BookFacts, LaterRefl
    <3> QED BY <3>1, <3>2
  <2> QED BY <2>1 DEF Grown
<1> QED BY <1>3, <1>4, <1>5 DEF c

(* An option bought is a later one (buyOption). *)
LEMMA BoughtGrows ==
    ASSUME book \in Books, NEW p \in Pools, NEW id \in DOMAIN book[p],
           NEW u \in Persons, MayBuy(p, id, u)
    PROVE  /\ Bought(p, id, u) \in Books /\ Grown(book, Bought(p, id, u))
           /\ Len(Bought(p, id, u)[p]) = Len(book[p])
           /\ Bought(p, id, u)[p][id].status = "PURCHASED"
           /\ Bought(p, id, u)[p][id].buyer = u
<1> DEFINE o == [book[p][id] EXCEPT !.status = "PURCHASED", !.buyer = u]
<1>1. book[p][id] \in Listed /\ book[p][id].status = "OPEN"
  BY BookFacts DEF MayBuy
<1>2. o \in Listed /\ o.status = "PURCHASED" /\ o.buyer = u
      /\ o.writer = book[p][id].writer
  BY <1>1 DEF Listed, Statuses
<1>3. Later(book[p][id], o)
  <2>1. book[p][id].buyer = NoOne
    BY <1>1 DEF Listed
  <2> QED BY <1>1, <1>2, <2>1, ProgressValues DEF Later
<1> HIDE DEF o
<1>4. Bought(p, id, u) = Changed(p, id, o)
  BY DEF Bought, Changed, Books, o
<1>5. /\ Changed(p, id, o) \in Books /\ Grown(book, Changed(p, id, o))
      /\ Len(Changed(p, id, o)[p]) = Len(book[p])
      /\ Changed(p, id, o)[p][id] = o
  BY <1>2, <1>3, ChangedGrows
<1> QED BY <1>2, <1>4, <1>5

(* So is one cancelled, exercised or settled. *)
LEMMA ClosedGrows ==
    ASSUME book \in Books, NEW p \in Pools, NEW id \in DOMAIN book[p],
           NEW u \in Persons, MayClose(p, id, u)
    PROVE  /\ Closed(p, id) \in Books /\ Grown(book, Closed(p, id))
           /\ Len(Closed(p, id)[p]) = Len(book[p])
           /\ Closed(p, id)[p][id].status = "CLOSED"
<1> DEFINE o == [book[p][id] EXCEPT !.status = "CLOSED"]
<1>1. book[p][id] \in Listed /\ book[p][id].status \in {"OPEN", "PURCHASED"}
  BY BookFacts DEF MayClose
<1>2. o \in Listed /\ o.status = "CLOSED" /\ o.buyer = book[p][id].buyer
      /\ o.writer = book[p][id].writer
  BY <1>1 DEF Listed, Statuses
<1>3. Later(book[p][id], o)
  BY <1>1, <1>2, ProgressValues DEF Later
<1> HIDE DEF o
<1>4. Closed(p, id) = Changed(p, id, o)
  BY DEF Closed, Changed, Books, o
<1>5. /\ Changed(p, id, o) \in Books /\ Grown(book, Changed(p, id, o))
      /\ Len(Changed(p, id, o)[p]) = Len(book[p])
      /\ Changed(p, id, o)[p][id] = o
  BY <1>2, <1>3, ChangedGrows
<1> QED BY <1>2, <1>4, <1>5

-----------------------------------------------------------------------------
(* The invariant of a page and its last load. *)

(* The option as it was when the load began. *)
AtFirst(p, id, since) ==
    IF id \in 1 .. Len(since[p]) THEN since[p][id]
    ELSE Option(book[p][id].writer, "OPEN", NoOne)

(* o is what that option of the pool was at some moment since then. *)
Tells(p, id, o, since) ==
    /\ id \in 1 .. Len(book[p])
    /\ o \in Listed
    /\ Later(AtFirst(p, id, since), o)
    /\ Later(o, book[p][id])

Parts == [step : {"count", "batch", "read", "failed"}, total : Nat,
          got : Seq(Listed)]

(* What has been read of a pool is true, and once it is all read, so is    *)
(* that nothing of the load's beginning is missing.                        *)
PartOK(p, part, since) ==
    /\ part \in Parts
    /\ \A id \in 1 .. Len(part.got) : Tells(p, id, part.got[id], since)
    /\ part.step = "count" => Len(part.got) = 0
    /\ part.step = "batch" => part.total >= Len(since[p])
    /\ part.step = "read" => Len(part.got) >= Len(since[p])

PartsOK(l) ==
    /\ l = [page |-> page, step |-> l.step, part |-> l.part, since |-> l.since]
    /\ l.part \in [PoolsOf(page, selected) -> Parts]
    /\ \A p \in PoolsOf(page, selected) : PartOK(p, l.part[p], l.since)
    /\ l.step = "indexer" => page = "portfolio"

ReadOf(l) == {p \in DOMAIN l.part : l.part[p].step = "read"}

FromChain(l) ==
    /\ PartsOK(l)
    /\ IsOver(l) => /\ shown.rows = RowsOf(l, ReadOf(l))
                    /\ shown.failed = DOMAIN l.part \ ReadOf(l)

FromIndexer(l) ==
    /\ page = "portfolio"
    /\ IsOver(l)
    /\ l = [page |-> page, step |-> l.step, part |-> l.part, since |-> l.since]
    /\ DOMAIN l.part = Pools /\ shown.failed = {}
    /\ shown.rows = UNION {{r \in Rows(p, l.since[p]) : Mine(r.option)} :
                              p \in Pools}

SinceOK(l) == l.since \in Books /\ Grown(l.since, book)

LoadOK(l) ==
    /\ SinceOK(l)
    /\ IF shown.source = "indexer" THEN FromIndexer(l) ELSE FromChain(l)

PageOK == page \in Pages /\ selected \in Pools

ListingInv ==
    /\ book \in Books /\ indexed \in Books /\ Grown(indexed, book)
    /\ PageOK
    /\ IsSeq(loads) /\ Last \in DOMAIN loads
    /\ LoadOK(LoadShown)

-----------------------------------------------------------------------------
(* What has been read stays true while the chain goes on. *)

(* An option read is told truly however the chain goes on. *)
LEMMA TellsGrows ==
    ASSUME book \in Books, book' \in Books, Grown(book, book'),
           NEW since, NEW p \in Pools, NEW id, NEW o,
           Tells(p, id, o, since)
    PROVE  Tells(p, id, o, since)'
<1>1. id \in 1 .. Len(book[p]) /\ o \in Listed /\ Later(o, book[p][id])
  BY DEF Tells
<1>2. Len(book[p]) \in Nat /\ Len(book'[p]) \in Nat
      /\ Len(book[p]) <= Len(book'[p])
  BY BookFacts DEF Grown
<1>3. id \in 1 .. Len(book'[p])
  BY <1>1, <1>2
<1>4. book[p][id] \in Listed /\ book'[p][id] \in Listed
  BY <1>1, <1>3, BookFacts
<1>5. Later(book[p][id], book'[p][id])
  BY <1>1 DEF Grown
<1>6. Later(o, book'[p][id])
  BY <1>1, <1>4, <1>5, LaterTrans
<1>7. AtFirst(p, id, since)' = AtFirst(p, id, since)
  BY <1>5 DEF AtFirst, Later
<1> QED BY <1>1, <1>3, <1>6, <1>7 DEF Tells

(* Options read now are true. *)
LEMMA TellsNow ==
    ASSUME book \in Books, NEW since \in Books, Grown(since, book),
           NEW p \in Pools, NEW id \in 1 .. Len(book[p])
    PROVE  Tells(p, id, book[p][id], since)
<1>1. book[p][id] \in Listed
  BY BookFacts
<1>2. Later(AtFirst(p, id, since), book[p][id])
  BY <1>1, LaterThanNew DEF AtFirst, Grown
<1> QED BY <1>1, <1>2, LaterRefl DEF Tells

(* So is all that has been read of a pool. *)
LEMMA PartGrows ==
    ASSUME book \in Books, book' \in Books, Grown(book, book'),
           NEW since, NEW p \in Pools, NEW part, PartOK(p, part, since)
    PROVE  PartOK(p, part, since)'
<1>1. \A id \in 1 .. Len(part.got) : Tells(p, id, part.got[id], since)'
  BY TellsGrows DEF PartOK
<1> QED BY <1>1 DEF PartOK

(* The pools a load asks are pools. *)
LEMMA AskedPools ==
    ASSUME PageOK
    PROVE  /\ PoolsOf(page, selected) \subseteq Pools
           /\ PoolsOf(page, selected) # {}
           /\ page \in {"chain", "portfolio", "market"}
           /\ page # "market" => PoolsOf(page, selected) = {selected}
           /\ page = "market" => PoolsOf(page, selected) = Pools
BY PagesAssumption DEF PageOK, PoolsOf

(* A step of the chain, which no page notices. *)
LEMMA ChainMoves ==
    ASSUME ListingInv, book' \in Books, Grown(book, book'),
           indexed' \in {indexed, book},
           UNCHANGED <<page, selected, loads, shown>>
    PROVE  ListingInv'
<1>1. PICK l : l = LoadShown
  OBVIOUS
<1>2. l = LoadShown'
  BY <1>1 DEF LoadShown, Last
<1>3. book \in Books /\ indexed \in Books /\ Grown(indexed, book)
      /\ LoadOK(l) /\ PageOK
  BY <1>1 DEF ListingInv
<1>4. indexed' \in Books /\ Grown(indexed', book')
  BY <1>3, GrownTrans
<1>5. SinceOK(l)'
  BY <1>3, GrownTrans DEF LoadOK, SinceOK
<1>6. FromIndexer(l) => FromIndexer(l)'
  BY DEF FromIndexer, Rows, IsOver
<1>7. ASSUME FromChain(l) PROVE FromChain(l)'
  <2>1. PartsOK(l)'
    BY <1>3, <1>7, PartGrows, AskedPools DEF FromChain, PartsOK
  <2> QED BY <1>7, <2>1
          DEF FromChain, IsOver, ReadOf, RowsOf, ChainRows, PortfolioRows,
              MarketRows
<1>8. LoadOK(l)'
  BY <1>3, <1>5, <1>6, <1>7 DEF LoadOK
<1> QED BY <1>2, <1>4, <1>8 DEF ListingInv, PageOK, Last

-----------------------------------------------------------------------------
(* Steps of a load. *)

(* The last load after a step of load n: l, or as it was. *)
LEMMA StepOfLoad ==
    ASSUME ListingInv, NEW n \in DOMAIN loads, NEW l, NEW x,
           x = (IF Current(n) THEN l ELSE Cancelled(l)),
           loads' = [loads EXCEPT ![n] = x]
    PROVE  /\ IsSeq(loads') /\ Last' = Last /\ Last' \in DOMAIN loads'
           /\ Current(n) => LoadShown' = l
           /\ ~Current(n) => LoadShown' = LoadShown
<1>1. IsSeq(loads) /\ Last \in DOMAIN loads
  BY DEF ListingInv
<1>2. /\ DOMAIN loads' = DOMAIN loads
      /\ loads' = [k \in DOMAIN loads |-> loads'[k]]
      /\ loads'[n] = x
      /\ \A k \in DOMAIN loads : k # n => loads'[k] = loads[k]
  OBVIOUS
<1>3. IsSeq(loads') /\ Len(loads') = Len(loads)
  BY <1>1, <1>2, SeqReplaced
<1> QED BY <1>1, <1>2, <1>3 DEF Last, LoadShown, Current

(* A cancelled load changes nothing that is shown. *)
LEMMA CancelledStep ==
    ASSUME ListingInv, NEW n \in DOMAIN loads, ~Current(n),
           UNCHANGED <<chainVars, page, selected, shown>>,
           IsSeq(loads'), Last' \in DOMAIN loads', LoadShown' = LoadShown
    PROVE  ListingInv'
<1>1. PICK l : l = LoadShown
  OBVIOUS
<1>2. LoadOK(l) /\ LoadShown' = l
  BY <1>1 DEF ListingInv
<1>3. SinceOK(l) => SinceOK(l)'
  BY DEF SinceOK, chainVars
<1>4. FromIndexer(l) => FromIndexer(l)'
  BY DEF FromIndexer, IsOver, Rows
<1>5. PartsOK(l) => PartsOK(l)'
  BY DEF PartsOK, PartOK, Tells, AtFirst, chainVars
<1>6. FromChain(l) => FromChain(l)'
  BY <1>5 DEF FromChain, IsOver, ReadOf, RowsOf, ChainRows, PortfolioRows,
              MarketRows
<1>7. LoadOK(l)'
  BY <1>2, <1>3, <1>4, <1>6 DEF LoadOK
<1> QED BY <1>2, <1>7 DEF ListingInv, PageOK, chainVars

(* What the rows are measured against stays the same. *)
SinceKept ==
    shown'.source # "indexer" =>
        shown.source # "indexer" /\ LoadShown'.since = LoadShown.since

(* The last load goes on to l, whose parts are in order. *)
LEMMA AdvanceOK ==
    ASSUME ListingInv, NEW n \in DOMAIN loads, NEW l, Advance(n, l),
           Current(n) => /\ shown.source # "indexer"
                         /\ PartsOK(l) /\ l.since = LoadShown.since
    PROVE  ListingInv' /\ SinceKept
<1>1. PICK x : x = (IF Current(n) THEN l ELSE Cancelled(l))
  OBVIOUS
<1>2. loads' = [loads EXCEPT ![n] = x] /\ shown' = Show(n, l)
      /\ UNCHANGED <<chainVars, page, selected>>
  BY <1>1 DEF Advance
<1>3. /\ IsSeq(loads') /\ Last' = Last /\ Last' \in DOMAIN loads'
      /\ Current(n) => LoadShown' = l
      /\ ~Current(n) => LoadShown' = LoadShown
  BY <1>1, <1>2, StepOfLoad
<1>4. CASE ~Current(n)
  <2>1. shown' = shown
    BY <1>2, <1>4 DEF Show
  <2> QED BY <1>2, <1>3, <1>4, <2>1, CancelledStep DEF SinceKept
<1>5. CASE Current(n)
  <2>1. LoadShown' = l /\ PartsOK(l) /\ SinceOK(l)
    BY <1>3, <1>5 DEF ListingInv, LoadOK, SinceOK
  <2>2. shown'.source # "indexer"
    BY <1>2, <1>5 DEF Show
  <2>3. PartsOK(l)' /\ SinceOK(l)'
    BY <1>2, <2>1 DEF PartsOK, PartOK, Tells, AtFirst, SinceOK, chainVars
  <2>4. ASSUME IsOver(l)
        PROVE  shown'.rows = RowsOf(l, ReadOf(l))
               /\ shown'.failed = DOMAIN l.part \ ReadOf(l)
    BY <1>2, <1>5, <2>4 DEF Show, ReadOf
  <2>5. FromChain(l)'
    BY <1>2, <2>3, <2>4
       DEF FromChain, IsOver, ReadOf, RowsOf, ChainRows, PortfolioRows,
           MarketRows
  <2> QED BY <1>2, <1>3, <1>5, <2>1, <2>2, <2>3, <2>5
          DEF ListingInv, LoadOK, PageOK, chainVars, SinceKept
<1> QED BY <1>4, <1>5

(* A load that still waits for a call is not shown yet. *)
LEMMA WaitingLoad ==
    ASSUME ListingInv, NEW n \in DOMAIN loads, Current(n),
           \/ loads[n].step = "indexer"
           \/ \E p : Waits(n, p, "count") \/ Waits(n, p, "batch")
    PROVE  /\ loads[n] = LoadShown /\ shown.source # "indexer"
           /\ PartsOK(LoadShown)
<1>1. loads[n] = LoadShown /\ LoadOK(LoadShown)
  BY DEF Current, LoadShown, ListingInv
<1>2. ~IsOver(LoadShown)
  BY <1>1 DEF Waits, IsOver
<1> QED BY <1>1, <1>2 DEF LoadOK, FromIndexer, FromChain

(* One part of a load replaced. *)
LEMMA PartReplaced ==
    ASSUME PageOK, NEW l, PartsOK(l), NEW p \in DOMAIN l.part, NEW part,
           PartOK(p, part, l.since),
           NEW m, m = [l EXCEPT !.part[p] = part]
    PROVE  PartsOK(m) /\ m.since = l.since
<1>1. /\ l = [page |-> page, step |-> l.step, part |-> l.part, since |-> l.since]
      /\ l.part \in [PoolsOf(page, selected) -> Parts]
      /\ \A q \in PoolsOf(page, selected) : PartOK(q, l.part[q], l.since)
  BY DEF PartsOK
<1>2. part \in Parts
  BY DEF PartOK
<1>3. /\ m = [page |-> page, step |-> l.step, since |-> l.since,
              part |-> [l.part EXCEPT ![p] = part]]
      /\ m.part = [l.part EXCEPT ![p] = part]
      /\ m.step = l.step /\ m.since = l.since
  BY <1>1
<1>4. /\ m.part \in [PoolsOf(page, selected) -> Parts]
      /\ m.part[p] = part
      /\ \A q \in PoolsOf(page, selected) : q # p => m.part[q] = l.part[q]
  BY <1>1, <1>2, <1>3
<1>5. \A q \in PoolsOf(page, selected) : PartOK(q, m.part[q], m.since)
  BY <1>1, <1>3, <1>4
<1>6. m = [page |-> page, step |-> m.step, part |-> m.part, since |-> m.since]
  BY <1>3
<1> QED BY <1>3, <1>4, <1>5, <1>6 DEF PartsOK

(* A part read further leaves a load as it has to be. *)
LEMMA ReadPart ==
    ASSUME ListingInv, NEW n \in DOMAIN loads, NEW p \in Pools, NEW part,
           Waits(n, p, "count") \/ Waits(n, p, "batch"),
           AdvancePart(n, p, part),
           Current(n) => PartOK(p, part, LoadShown.since)
    PROVE  ListingInv' /\ SinceKept
<1>1. PICK l : l = loads[n]
  OBVIOUS
<1>2. PICK m : m = [l EXCEPT !.part[p] = part]
  OBVIOUS
<1>3. Advance(n, m) /\ p \in DOMAIN l.part
  BY <1>1, <1>2 DEF AdvancePart, Waits
<1>4. ASSUME Current(n)
      PROVE  /\ shown.source # "indexer"
             /\ PartsOK(m) /\ m.since = LoadShown.since
  <2>1. l = LoadShown /\ shown.source # "indexer" /\ PartsOK(l)
    BY <1>1, <1>4, WaitingLoad
  <2>2. PartOK(p, part, l.since) /\ PageOK
    BY <1>4, <2>1 DEF ListingInv
  <2> QED BY <1>2, <1>3, <2>1, <2>2, PartReplaced
<1> QED BY <1>3, <1>4, AdvanceOK

(* A load reads a pool's option count. *)
LEMMA ReadCountStep ==
    ASSUME ListingInv, NEW n \in DOMAIN loads, NEW p \in Pools, ReadCount(n, p)
    PROVE  ListingInv' /\ SinceKept
<1> DEFINE total == Len(book[p])
           part == [step |-> IF total = 0 THEN "read" ELSE "batch",
                    total |-> total, got |-> <<>>]
<1>1. Waits(n, p, "count") /\ AdvancePart(n, p, part)
  BY DEF ReadCount
<1>2. ASSUME Current(n) PROVE PartOK(p, part, LoadShown.since)
  <2>1. SinceOK(LoadShown) /\ book \in Books
    BY DEF ListingInv, LoadOK
  <2>2. Len(LoadShown.since[p]) <= total /\ total \in Nat
        /\ Len(LoadShown.since[p]) \in Nat
    BY <2>1, BookFacts DEF SinceOK, Grown
  <2>3. part \in Parts /\ Len(part.got) = 0
    BY <2>2 DEF Parts
  <2> QED BY <2>2, <2>3 DEF PartOK
<1> HIDE DEF part
<1> QED BY <1>1, <1>2, ReadPart

(* A batch appended to what was read before. *)
Joined(got, s, k) == got \o SubSeq(s, Len(got) + 1, Len(got) + k)

(* A batch continues where the last one ended. *)
LEMMA BatchRead ==
    ASSUME NEW s \in Seq(Listed), NEW got \in Seq(Listed),
           NEW k \in Nat, Len(got) + k <= Len(s)
    PROVE  /\ Joined(got, s, k) \in Seq(Listed)
           /\ Len(Joined(got, s, k)) = Len(got) + k
           /\ \A id \in 1 .. Len(got) + k :
                 Joined(got, s, k)[id] = IF id <= Len(got) THEN got[id] ELSE s[id]
<1> DEFINE t == Joined(got, s, k)
<1> DEFINE b == SubSeq(s, Len(got) + 1, Len(got) + k)
<1>1. Len(s) \in Nat /\ Len(got) \in Nat
  OBVIOUS
<1>2. /\ b \in Seq(Listed) /\ Len(b) = k
      /\ \A i \in 1 .. k : b[i] = s[Len(got) + i]
  BY <1>1, SubSeqProperties
<1> HIDE DEF b
<1>3. t = got \o b
  BY DEF b, Joined
<1> HIDE DEF t
<1>4. /\ t \in Seq(Listed) /\ Len(t) = Len(got) + Len(b)
      /\ \A i \in 1 .. Len(t) :
            t[i] = IF i <= Len(got) THEN got[i] ELSE b[i - Len(got)]
  BY <1>2, <1>3, ConcatProperties
<1>5. ASSUME NEW id \in 1 .. Len(t), id > Len(got)
      PROVE  b[id - Len(got)] = s[id]
  <2>1. id - Len(got) \in 1 .. k /\ Len(got) + (id - Len(got)) = id
    BY <1>1, <1>2, <1>4, <1>5
  <2> QED BY <1>2, <2>1
<1> QED BY <1>1, <1>2, <1>4, <1>5 DEF t

(* A batch more keeps what is known of a part. *)
LEMMA BatchPart ==
    ASSUME book \in Books, NEW since \in Books, Grown(since, book),
           NEW p \in Pools, NEW old, PartOK(p, old, since), old.step = "batch",
           NEW got,
           got = old.got \o OptionsBatch(p, Len(old.got), MAX_BATCH_SIZE),
           NEW part,
           part = [old EXCEPT !.got = got,
                              !.step = IF AllRead(old, got) THEN "read" ELSE @]
    PROVE  PartOK(p, part, since)
<1>1. /\ old.got \in Seq(Listed) /\ old.total \in Nat
      /\ old.total >= Len(since[p])
      /\ \A id \in 1 .. Len(old.got) : Tells(p, id, old.got[id], since)
      /\ old \in Parts
  BY DEF PartOK, Parts
<1>2. PICK len \in Nat : len = Len(old.got)
  BY <1>1
<1>3. PICK size \in Nat : size = Len(book[p])
  BY BookFacts
<1>4. len <= size
  <2>1. CASE len = 0
    BY <2>1
  <2>2. CASE len # 0
    <3>1. len \in 1 .. Len(old.got)
      BY <1>2, <2>2
    <3>2. len \in 1 .. size
      BY <1>1, <1>3, <3>1 DEF Tells
    <3> QED BY <3>2
  <2> QED BY <2>1, <2>2
<1>5. PICK k \in Nat : /\ k = IF MAX_BATCH_SIZE > size - len THEN size - len
                               ELSE MAX_BATCH_SIZE
                       /\ len + k <= size
  BY <1>4, BatchAssumption
<1>6. OptionsBatch(p, len, MAX_BATCH_SIZE)
        = SubSeq(book[p], len + 1, len + k)
  BY <1>3, <1>5 DEF OptionsBatch
<1>7. got = Joined(old.got, book[p], k)
  BY <1>2, <1>6 DEF Joined
<1>8. Len(old.got) + k <= Len(book[p]) /\ book[p] \in Seq(Listed)
  BY <1>2, <1>3, <1>5, BookFacts
<1>9. /\ got \in Seq(Listed) /\ Len(got) = len + k
      /\ \A id \in 1 .. len + k :
            got[id] = IF id <= len THEN old.got[id] ELSE book[p][id]
  BY <1>1, <1>2, <1>7, <1>8, BatchRead
<1>a. len \in Nat /\ k \in Nat /\ size \in Nat /\ len + k <= size
  BY <1>5
<1>10. ASSUME NEW id \in 1 .. Len(got) PROVE Tells(p, id, got[id], since)
  <2>1. CASE id <= len
    <3>1. id \in 1 .. len + k /\ id \in 1 .. len
      BY <1>a, <1>9, <2>1
    <3>2. id \in 1 .. Len(old.got) /\ got[id] = old.got[id]
      BY <1>2, <1>9, <2>1, <3>1
    <3> QED BY <1>1, <3>2
  <2>2. CASE ~(id <= len)
    <3>1. id \in 1 .. len + k /\ id \in 1 .. size
      BY <1>a, <1>9, <2>2
    <3>2. id \in 1 .. Len(book[p]) /\ got[id] = book[p][id]
      BY <1>3, <1>9, <2>2, <3>1
    <3> QED BY <3>2, TellsNow
  <2> QED BY <2>1, <2>2
<1>11. /\ part \in Parts /\ part.got = got /\ part.total = old.total
       /\ part.step \in {"read", "batch"}
       /\ part.step = "read" => Len(got) >= old.total
  BY <1>1, <1>9 DEF Parts, AllRead
<1>12. /\ Len(since[p]) \in Nat /\ Len(got) \in Nat /\ old.total \in Nat
       /\ old.total >= Len(since[p])
  BY <1>1, <1>9, <1>a, BookFacts
<1>13. part.step = "read" => Len(got) >= Len(since[p])
  <2>1. part.step = "read" => Len(got) >= old.total
    BY <1>11
  <2>2. \A a, b, c \in Nat : a >= b /\ b >= c => a >= c
    OBVIOUS
  <2> QED BY <1>12, <2>1, <2>2, Zenon
<1> QED BY <1>1, <1>10, <1>11, <1>13 DEF PartOK

(* A load reads a batch. *)
LEMMA ReadBatchStep ==
    ASSUME ListingInv, NEW n \in DOMAIN loads, NEW p \in Pools, ReadBatch(n, p)
    PROVE  ListingInv' /\ SinceKept
<1>1. PICK old : old = loads[n].part[p]
  OBVIOUS
<1>2. PICK got : got = old.got \o OptionsBatch(p, Len(old.got), MAX_BATCH_SIZE)
  OBVIOUS
<1>3. PICK part : part = [old EXCEPT !.got = got,
                             !.step = IF AllRead(old, got) THEN "read" ELSE @]
  OBVIOUS
<1>4. Waits(n, p, "batch") /\ AdvancePart(n, p, part)
  BY <1>1, <1>2, <1>3 DEF ReadBatch
<1>5. ASSUME Current(n) PROVE PartOK(p, part, LoadShown.since)
  <2>1. /\ PartsOK(LoadShown) /\ loads[n] = LoadShown
        /\ p \in PoolsOf(page, selected)
    BY <1>4, <1>5, WaitingLoad DEF PartsOK, Waits
  <2>2. PartOK(p, old, LoadShown.since) /\ old.step = "batch"
    BY <1>1, <1>4, <2>1 DEF PartsOK, Waits
  <2>3. /\ LoadShown.since \in Books /\ Grown(LoadShown.since, book)
        /\ book \in Books
    BY DEF ListingInv, LoadOK, SinceOK
  <2> QED BY <1>2, <1>3, <2>2, <2>3, BatchPart
<1> QED BY <1>4, <1>5, ReadPart

(* A call of a load fails. *)
LEMMA ReadFailsStep ==
    ASSUME ListingInv, NEW n \in DOMAIN loads, NEW p \in Pools, ReadFails(n, p)
    PROVE  ListingInv' /\ SinceKept
<1> DEFINE old == loads[n].part[p]
           part == [old EXCEPT !.step = "failed"]
<1>1. /\ Waits(n, p, "count") \/ Waits(n, p, "batch")
      /\ AdvancePart(n, p, part)
  BY DEF ReadFails
<1>2. ASSUME Current(n) PROVE PartOK(p, part, LoadShown.since)
  <2>1. /\ PartsOK(LoadShown) /\ loads[n] = LoadShown
        /\ p \in PoolsOf(page, selected)
    BY <1>1, <1>2, WaitingLoad DEF PartsOK, Waits
  <2>2. PartOK(p, old, LoadShown.since)
    BY <2>1 DEF PartsOK
  <2>3. /\ part \in Parts /\ part.step = "failed" /\ part.got = old.got
    BY <2>2 DEF PartOK, Parts
  <2> QED BY <2>2, <2>3 DEF PartOK
<1> HIDE DEF part
<1> QED BY <1>1, <1>2, ReadPart

(* The portfolio falls back to the scan. *)
LEMMA IndexerUnavailableStep ==
    ASSUME ListingInv, NEW n \in DOMAIN loads, IndexerUnavailable(n)
    PROVE  ListingInv' /\ SinceKept
<1>1. PICK m : m = [loads[n] EXCEPT !.step = "pools"]
  OBVIOUS
<1>2. Advance(n, m) /\ loads[n].step = "indexer"
  BY <1>1 DEF IndexerUnavailable
<1>3. ASSUME Current(n)
      PROVE  /\ shown.source # "indexer"
             /\ PartsOK(m) /\ m.since = LoadShown.since
  <2>1. /\ loads[n] = LoadShown /\ shown.source # "indexer"
        /\ PartsOK(LoadShown)
    BY <1>2, <1>3, WaitingLoad
  <2> QED BY <1>1, <2>1 DEF PartsOK
<1> QED BY <1>2, <1>3, AdvanceOK

(* The fast path: the rows are those of the indexed book, which becomes    *)
(* what the load is measured against.                                      *)
LEMMA IndexerAnswersStep ==
    ASSUME ListingInv, NEW n \in DOMAIN loads, IndexerAnswers(n)
    PROVE  ListingInv' /\ SinceKept
<1>1. PICK done : done = [p \in Pools |->
                            [step |-> "read", total |-> 0, got |-> <<>>]]
  OBVIOUS
<1>2. PICK l : l = [loads[n] EXCEPT !.step = "pools", !.since = indexed,
                                    !.part = done]
  OBVIOUS
<1>3. PICK x : x = IF Current(n) THEN l ELSE Cancelled(l)
  OBVIOUS
<1>4. /\ loads[n].step = "indexer"
      /\ loads' = [loads EXCEPT ![n] = x]
      /\ shown' = IF Current(n) THEN [rows |-> GetOptionsByUser, failed |-> {},
                                      source |-> "indexer"]
                  ELSE shown
      /\ UNCHANGED <<chainVars, page, selected>>
  BY <1>1, <1>2, <1>3 DEF IndexerAnswers
<1>5. /\ IsSeq(loads') /\ Last' = Last /\ Last' \in DOMAIN loads'
      /\ Current(n) => LoadShown' = l
      /\ ~Current(n) => LoadShown' = LoadShown
  BY <1>3, <1>4, StepOfLoad
<1>6. CASE ~Current(n)
  BY <1>4, <1>5, <1>6, CancelledStep DEF SinceKept
<1>7. CASE Current(n)
  <2>1. loads[n] = LoadShown /\ PartsOK(LoadShown) /\ shown.source # "indexer"
    BY <1>4, <1>7, WaitingLoad
  <2>2. /\ l = [page |-> page, step |-> l.step, part |-> l.part,
                since |-> l.since]
        /\ l.part = done /\ l.since = indexed /\ l.step = "pools"
    <3>1. PICK step, part, since :
            loads[n] = [page |-> page, step |-> step, part |-> part,
                        since |-> since]
      BY <2>1 DEF PartsOK
    <3>2. PICK r : r = [loads[n] EXCEPT !.step = "pools"]
      OBVIOUS
    <3>3. r = [page |-> page, step |-> "pools", part |-> part,
               since |-> since]
      BY <3>1, <3>2
    <3>4. PICK s : s = [r EXCEPT !.since = indexed]
      OBVIOUS
    <3>5. s = [page |-> page, step |-> "pools", part |-> part,
               since |-> indexed]
      BY <3>3, <3>4
    <3>6. l = [s EXCEPT !.part = done]
      BY <1>2, <3>2, <3>4
    <3>7. l = [page |-> page, step |-> "pools", part |-> done,
               since |-> indexed]
      BY <3>5, <3>6
    <3> QED BY <3>7
  <2>3. page = "portfolio"
    BY <1>4, <2>1 DEF PartsOK
  <2>4. SinceOK(l)'
    BY <1>4, <2>2 DEF SinceOK, ListingInv, chainVars
  <2>5. IsOver(l) /\ DOMAIN l.part = Pools
    BY <1>1, <2>2 DEF IsOver
  <2>6. shown'.rows = UNION {{r \in Rows(p, l.since[p]) : Mine(r.option)} :
                                p \in Pools}
        /\ shown'.failed = {} /\ shown'.source = "indexer"
    BY <1>4, <1>7, <2>2 DEF GetOptionsByUser
  <2>7. FromIndexer(l)'
    BY <1>4, <2>2, <2>3, <2>5, <2>6 DEF FromIndexer, IsOver, Rows
  <2> QED BY <1>4, <1>5, <1>7, <2>4, <2>6, <2>7
          DEF ListingInv, LoadOK, PageOK, chainVars, SinceKept
<1> QED BY <1>6, <1>7

-----------------------------------------------------------------------------
(* The page. *)

(* A load that begins shows nothing and has missed nothing. *)
LEMMA NewLoadOK ==
    ASSUME ListingInv, PageOK', NEW p \in Pools, Fetch(page, p),
           page' = page, selected' = p, UNCHANGED chainVars
    PROVE  /\ ListingInv' /\ LoadShown'.since = book /\ Loading'
           /\ shown' = NothingShown
<1>1. PICK l : l = NewLoad(page, p)
  OBVIOUS
<1>2. PICK old : old = [n \in DOMAIN loads |-> Cancelled(loads[n])]
  OBVIOUS
<1>3. loads' = Append(old, l) /\ shown' = NothingShown
  BY <1>1, <1>2 DEF Fetch
<1>4. IsSeq(old)
  BY <1>2, SeqReplaced DEF ListingInv
<1>5. IsSeq(loads') /\ Last' \in DOMAIN loads' /\ LoadShown' = l
  <2>1. /\ IsSeq(loads') /\ Len(loads') = Len(old) + 1
        /\ DOMAIN loads' = 1 .. Len(old) + 1
        /\ loads'[Len(old) + 1] = l
    BY <1>3, <1>4, SeqAppended
  <2>2. Len(old) \in Nat
    BY <1>4, SeqDomain
  <2> QED BY <2>1, <2>2 DEF Last, LoadShown
<1>6. /\ l.page = page /\ l.since = book
      /\ l.step = (IF page = "portfolio" THEN "indexer" ELSE "pools")
      /\ l.part = [q \in PoolsOf(page, p) |->
                     [step |-> "count", total |-> 0, got |-> <<>>]]
      /\ l = [page |-> page, step |-> l.step, part |-> l.part,
              since |-> l.since]
  BY <1>1 DEF NewLoad
<1>7. SinceOK(l)'
  BY <1>6, GrownRefl DEF SinceOK, ListingInv, chainVars
<1>8. PoolsOf(page, p) \subseteq Pools /\ PoolsOf(page, p) # {}
  BY AskedPools DEF PoolsOf
<1>9. PartsOK(l)'
  <2>1. \A q \in PoolsOf(page, p) :
           l.part[q] \in Parts /\ Len(l.part[q].got) = 0
           /\ l.part[q].step = "count"
    BY <1>6 DEF Parts
  <2>2. l.part \in [PoolsOf(page, p) -> Parts]
    BY <1>6, <2>1
  <2>3. \A q \in PoolsOf(page, p) : PartOK(q, l.part[q], l.since)'
    BY <2>1 DEF PartOK
  <2> QED BY <1>6, <2>2, <2>3 DEF PartsOK
<1>10. ~IsOver(l)
  BY <1>6, <1>8 DEF IsOver
<1>11. LoadOK(l)'
  BY <1>3, <1>7, <1>9, <1>10 DEF LoadOK, FromChain, NothingShown, IsOver
<1> QED BY <1>3, <1>5, <1>6, <1>10, <1>11
        DEF ListingInv, PageOK, chainVars, Loading, LoadShown, IsOver

(* Steps that touch neither the chain nor what is shown. *)
LEMMA NothingMoves ==
    ASSUME ListingInv, UNCHANGED <<chainVars, page, selected, loads, shown>>
    PROVE  ListingInv'
<1>1. book \in Books /\ indexed \in Books /\ Grown(indexed, book)
  BY DEF ListingInv
<1>2. book' = book /\ indexed' = indexed
      /\ UNCHANGED <<page, selected, loads, shown>>
  BY DEF chainVars
<1>3. Grown(book, book') /\ book' \in Books
  BY <1>1, <1>2, GrownRefl
<1> QED BY <1>2, <1>3, ChainMoves

(* Others write, buy and close. *)
LEMMA OthersMoveStep ==
    ASSUME book \in Books, OthersMove
    PROVE  book' \in Books /\ Grown(book, book')
<1>1. PICK p \in Pools, u \in Others :
        \/ MayWrite(p) /\ book' = Written(p, u)
        \/ \E id \in DOMAIN book[p] :
              \/ MayBuy(p, id, u) /\ book' = Bought(p, id, u)
              \/ MayClose(p, id, u) /\ book' = Closed(p, id)
  BY DEF OthersMove
<1>2. u \in Persons
  BY DEF Persons
<1>3. CASE book' = Written(p, u)
  BY <1>2, <1>3, WrittenGrows
<1>4. ASSUME NEW id \in DOMAIN book[p], MayBuy(p, id, u),
             book' = Bought(p, id, u)
      PROVE  book' \in Books /\ Grown(book, book')
  BY <1>2, <1>4, BoughtGrows
<1>5. ASSUME NEW id \in DOMAIN book[p], MayClose(p, id, u),
             book' = Closed(p, id)
      PROVE  book' \in Books /\ Grown(book, book')
  BY <1>2, <1>5, ClosedGrows
<1> QED BY <1>1, <1>3, <1>4, <1>5

-----------------------------------------------------------------------------
(* The invariant of the wallet's transactions. *)

(* What call c did shows in option o of its id. *)
Done(c, o) ==
    /\ c.kind \in {"write", "buy", "close"}
    /\ c.kind = "write" => o.writer = Me
    /\ c.kind = "buy" => Progress[o.status] >= 1 /\ o.buyer = Me
    /\ c.kind = "close" => o.status = "CLOSED"

DoneIn(c, b) == c.id \in 1 .. Len(b[c.pool]) /\ Done(c, b[c.pool][c.id])

CallOK(c, b) ==
    /\ c = [kind |-> c.kind, pool |-> c.pool, id |-> c.id, of |-> c.of,
            status |-> c.status, did |-> c.did, masked |-> c.masked]
    /\ c.pool \in Pools
    /\ c.status = "pending" => ~c.did
    /\ c.did => DoneIn(c, b)

CallsInv ==
    /\ IsSeq(calls)
    /\ \A n \in DOMAIN calls : CallOK(calls[n], book)
    /\ page # "market" => counted = Confirmed(calls, selected)

(* The last load began after the calls it has to show. *)
Expected(c, p) ==
    c.status \in {"confirmed", "dropped"} /\ c.did /\ ~c.masked
    /\ c.pool = p

SeenInv ==
    (page # "market" /\ shown.source # "indexer") =>
        \A n \in DOMAIN calls :
            Expected(calls[n], selected) => DoneIn(calls[n], LoadShown.since)

PagesInv == ListingInv /\ CallsInv /\ SeenInv

(* What was done stays done. *)
LEMMA DoneGrows ==
    ASSUME NEW b \in Books, NEW d \in Books, Grown(b, d),
           NEW c, c.pool \in Pools, DoneIn(c, b)
    PROVE  DoneIn(c, d)
<1>1. /\ c.id \in 1 .. Len(b[c.pool]) /\ Done(c, b[c.pool][c.id])
      /\ Len(b[c.pool]) <= Len(d[c.pool])
      /\ Later(b[c.pool][c.id], d[c.pool][c.id])
  BY DEF DoneIn, Grown
<1>2. Len(b[c.pool]) \in Nat /\ Len(d[c.pool]) \in Nat
  BY BookFacts
<1>3. c.id \in 1 .. Len(d[c.pool])
  BY <1>1, <1>2
<1>4. b[c.pool][c.id] \in Listed /\ d[c.pool][c.id] \in Listed
  BY <1>1, <1>3, BookFacts
<1>5. PICK o \in Listed, n \in Listed :
        o = b[c.pool][c.id] /\ n = d[c.pool][c.id]
  BY <1>4
<1>6. Later(o, n) /\ Done(c, o)
  BY <1>1, <1>5
<1>7. Done(c, n)
  BY <1>6, ListedProgress, WalletAssumption DEF Done, Later
<1> QED BY <1>3, <1>5, <1>7 DEF DoneIn

(* A call's effect stays in a grown book. *)
LEMMA CallGrows ==
    ASSUME book \in Books, book' \in Books, Grown(book, book'),
           NEW c, CallOK(c, book)
    PROVE  CallOK(c, book')
BY DoneGrows DEF CallOK

(* The calls, the load and the selection as they were: nothing more is     *)
(* expected, whatever the chain does. *)
LEMMA CallsWait ==
    ASSUME PagesInv, book' \in Books, Grown(book, book'),
           UNCHANGED <<calls, counted, page, selected>>
    PROVE  CallsInv'
<1>1. \A n \in DOMAIN calls : CallOK(calls[n], book')
  BY CallGrows DEF PagesInv, CallsInv, ListingInv
<1> QED BY <1>1 DEF PagesInv, CallsInv, Confirmed

(* What is shown still has what it had, when calls and loads rest. *)
LEMMA SeenWait ==
    ASSUME PagesInv, UNCHANGED <<calls, page, selected>>,
           shown'.source # "indexer" => shown.source # "indexer"
                                        /\ LoadShown'.since = LoadShown.since
    PROVE  SeenInv'
<1>1. ASSUME page # "market", shown'.source # "indexer"
      PROVE  \A n \in DOMAIN calls :
                Expected(calls[n], selected) => DoneIn(calls[n], LoadShown'.since)
  BY <1>1 DEF PagesInv, SeenInv
<1> QED BY <1>1 DEF SeenInv, Expected, DoneIn, Done

(* A load that begins now has nothing to wait for. *)
LEMMA SeenAtFetch ==
    ASSUME CallsInv', LoadShown'.since = book'
    PROVE  SeenInv'
<1>1. \A n \in DOMAIN calls' : CallOK(calls'[n], book')
  BY DEF CallsInv
<1>2. \A n \in DOMAIN calls' : calls'[n].did => DoneIn(calls'[n], book')
  BY <1>1 DEF CallOK, DoneIn, Done
<1>3. \A n \in DOMAIN calls' : Expected(calls'[n], selected') => calls'[n].did
  BY DEF Expected
<1> QED BY <1>2, <1>3 DEF SeenInv, DoneIn, Done

(* A new call waits for the chain. *)
LEMMA PostedStep ==
    ASSUME PagesInv, NEW p \in Pools, calls' = Posted(p),
           UNCHANGED <<book, page, selected, counted>>
    PROVE  CallsInv'
<1>1. PICK c : c = [kind |-> modal.kind, pool |-> p, id |-> modal.id,
                    of |-> modal.of, status |-> "pending", did |-> FALSE,
                    masked |-> FALSE]
  OBVIOUS
<1>2. /\ IsSeq(calls') /\ DOMAIN calls' = 1 .. Len(calls) + 1
      /\ calls'[Len(calls) + 1] = c
      /\ \A n \in DOMAIN calls : calls'[n] = calls[n]
      /\ Len(calls) \in Nat /\ DOMAIN calls = 1 .. Len(calls)
  <2>1. IsSeq(calls) /\ calls' = Append(calls, c)
    BY <1>1 DEF PagesInv, CallsInv, Posted
  <2>2. Len(calls) \in Nat /\ DOMAIN calls = 1 .. Len(calls)
    BY <2>1, SeqDomain
  <2> QED BY <2>1, <2>2, SeqAppended
<1>3. CallOK(c, book')
  BY <1>1 DEF CallOK
<1>4. ASSUME NEW n \in DOMAIN calls' PROVE CallOK(calls'[n], book')
  <2>1. CASE n \in DOMAIN calls
    <3>1. CallOK(calls[n], book')
      BY <2>1 DEF PagesInv, CallsInv
    <3> QED BY <1>2, <2>1, <3>1
  <2>2. CASE n \notin DOMAIN calls
    <3>1. n = Len(calls) + 1
      BY <1>2, <2>2
    <3> QED BY <1>2, <1>3, <3>1
  <2> QED BY <2>1, <2>2
<1>5. Confirmed(calls', selected) = Confirmed(calls, selected)
  <2>1. {n \in DOMAIN calls' : calls'[n].status = "confirmed"
                               /\ calls'[n].pool = selected}
          = {n \in DOMAIN calls : calls[n].status = "confirmed"
                                  /\ calls[n].pool = selected}
    <3>1. \A n \in DOMAIN calls' \ DOMAIN calls : calls'[n] = c
      BY <1>2
    <3>2. DOMAIN calls \subseteq DOMAIN calls' /\ c.status # "confirmed"
      BY <1>1, <1>2
    <3> QED BY <1>2, <3>1, <3>2
  <2> QED BY <2>1 DEF Confirmed
<1> QED BY <1>2, <1>4, <1>5 DEF PagesInv, CallsInv

(* A call is mined: with its effect, or without. *)
LEMMA MinedStep ==
    ASSUME PagesInv, NEW n \in DOMAIN calls, IsMined(n)
    PROVE  PagesInv'
<1>1. PICK c : c = calls[n]
  OBVIOUS
<1>2. PICK id : id = IF c.kind = "write" THEN Len(book[c.pool]) + 1 ELSE c.id
  OBVIOUS
<1>3. PICK d : d = [c EXCEPT !.status = "mined", !.did = Possible(c), !.id = id]
  OBVIOUS
<1>4. /\ c.status = "pending"
      /\ book' = IF Possible(c) THEN Effect(c) ELSE book
      /\ calls' = [calls EXCEPT ![n] = d]
      /\ UNCHANGED <<indexed, moves, pageVars>>
  BY <1>1, <1>2, <1>3 DEF IsMined
<1>5. /\ book \in Books /\ c.pool \in Pools /\ CallOK(c, book) /\ Me \in Persons
      /\ IsSeq(calls) /\ ListingInv
  BY <1>1 DEF PagesInv, ListingInv, CallsInv, CallOK, Persons
<1>6. /\ d = [kind |-> d.kind, pool |-> d.pool, id |-> d.id, of |-> d.of,
              status |-> d.status, did |-> d.did, masked |-> d.masked]
      /\ d.kind = c.kind /\ d.pool = c.pool /\ d.id = id
      /\ d.status = "mined" /\ d.did = Possible(c) /\ d.masked = c.masked
  <2>1. PICK kind, pool, i, of, status, did, masked :
          c = [kind |-> kind, pool |-> pool, id |-> i, of |-> of,
               status |-> status, did |-> did, masked |-> masked]
    BY <1>5 DEF CallOK
  <2>2. d = [kind |-> kind, pool |-> pool, id |-> id, of |-> of,
             status |-> "mined", did |-> Possible(c), masked |-> masked]
    BY <1>3, <2>1
  <2> QED BY <2>1, <2>2
<1>7. /\ book' \in Books /\ Grown(book, book')
      /\ Possible(c) => DoneIn(d, book')
  <2>1. CASE ~Possible(c)
    BY <1>4, <1>5, <2>1, GrownRefl
  <2>2. CASE c.kind = "write" /\ MayWrite(c.pool)
    <3>1. book' = Written(c.pool, Me) /\ id = Len(book[c.pool]) + 1
      BY <1>2, <1>4, <2>2 DEF Possible, Effect
    <3>2. /\ book' \in Books /\ Grown(book, book')
          /\ Len(book'[c.pool]) = Len(book[c.pool]) + 1
          /\ book'[c.pool][Len(book[c.pool]) + 1].writer = Me
      BY <1>5, <3>1, WrittenGrows
    <3>3. Len(book[c.pool]) \in Nat
      BY <1>5, BookFacts
    <3>4. id \in 1 .. Len(book'[c.pool]) /\ book'[c.pool][id].writer = Me
      BY <3>1, <3>2, <3>3
    <3> QED BY <1>6, <2>2, <3>2, <3>4 DEF DoneIn, Done
  <2>3. CASE c.kind = "buy" /\ c.id \in DOMAIN book[c.pool]
             /\ MayBuy(c.pool, c.id, Me)
    <3>1. book' = Bought(c.pool, c.id, Me) /\ id = c.id
      BY <1>2, <1>4, <2>3 DEF Possible, Effect
    <3>2. /\ book' \in Books /\ Grown(book, book')
          /\ Len(book'[c.pool]) = Len(book[c.pool])
          /\ book'[c.pool][id].status = "PURCHASED"
          /\ book'[c.pool][id].buyer = Me
      BY <1>5, <2>3, <3>1, BoughtGrows
    <3>3. id \in 1 .. Len(book'[c.pool])
      BY <1>5, <2>3, <3>1, <3>2, BookFacts
    <3> QED BY <1>6, <2>3, <3>2, <3>3, ProgressValues DEF DoneIn, Done
  <2>4. CASE c.kind = "close" /\ c.id \in DOMAIN book[c.pool]
             /\ MayClose(c.pool, c.id, Me)
    <3>1. book' = Closed(c.pool, c.id) /\ id = c.id
      BY <1>2, <1>4, <2>4 DEF Possible, Effect
    <3>2. /\ book' \in Books /\ Grown(book, book')
          /\ Len(book'[c.pool]) = Len(book[c.pool])
          /\ book'[c.pool][id].status = "CLOSED"
      BY <1>5, <2>4, <3>1, ClosedGrows
    <3>3. id \in 1 .. Len(book'[c.pool])
      BY <1>5, <2>4, <3>1, <3>2, BookFacts
    <3> QED BY <1>6, <2>4, <3>2, <3>3 DEF DoneIn, Done
  <2> QED BY <2>1, <2>2, <2>3, <2>4 DEF Possible
<1>8. ListingInv'
  BY <1>4, <1>5, <1>7, ChainMoves DEF pageVars
<1>9. CallOK(d, book')
  BY <1>5, <1>6, <1>7 DEF CallOK, DoneIn, Done
<1>10. /\ DOMAIN calls' = DOMAIN calls /\ calls'[n] = d
       /\ \A m \in DOMAIN calls : m # n => calls'[m] = calls[m]
       /\ calls' = [m \in DOMAIN calls |-> calls'[m]]
  BY <1>4
<1>11. IsSeq(calls')
  BY <1>5, <1>10, SeqReplaced
<1>12. \A m \in DOMAIN calls' : CallOK(calls'[m], book')
  <2>1. \A m \in DOMAIN calls : CallOK(calls[m], book')
    BY <1>5, <1>7, CallGrows DEF PagesInv, CallsInv
  <2> QED BY <1>9, <1>10, <2>1
<1>13. \A p : Confirmed(calls', p) = Confirmed(calls, p)
  <2>1. ASSUME NEW p
        PROVE  {m \in DOMAIN calls' : calls'[m].status = "confirmed"
                                      /\ calls'[m].pool = p}
                 = {m \in DOMAIN calls : calls[m].status = "confirmed"
                                         /\ calls[m].pool = p}
    <3>1. d.status # "confirmed" /\ calls[n].status # "confirmed"
      BY <1>1, <1>4, <1>6
    <3> QED BY <1>10, <3>1
  <2> QED BY <2>1 DEF Confirmed
<1>14. CallsInv'
  BY <1>4, <1>11, <1>12, <1>13 DEF CallsInv, PagesInv, pageVars
<1>15. SeenInv'
  <2>1. ASSUME page # "market", shown.source # "indexer",
               NEW m \in DOMAIN calls', Expected(calls'[m], selected)
        PROVE  DoneIn(calls'[m], LoadShown.since)
    <3>1. ~Expected(d, selected)
      BY <1>6 DEF Expected
    <3>2. m # n
      BY <1>10, <2>1, <3>1
    <3> QED BY <1>10, <2>1, <3>2 DEF PagesInv, SeenInv
  <2>2. /\ page' = page /\ shown' = shown /\ LoadShown' = LoadShown
        /\ selected' = selected
    BY <1>4 DEF pageVars, LoadShown, Last
  <2> QED BY <2>1, <2>2 DEF SeenInv, Expected, DoneIn, Done
<1> QED BY <1>8, <1>14, <1>15 DEF PagesInv

(* The cardinalities by which a page notices: one more confirmed call of   *)
(* the pool, where no old one of it is dropped in the same rendering.      *)
LEMMA OneMoreConfirmed ==
    ASSUME NEW cs, IsSeq(cs), NEW ds, DOMAIN ds = DOMAIN cs,
           NEW n \in DOMAIN cs, NEW p,
           cs[n].status # "confirmed",
           ds[n].status = "confirmed", ds[n].pool = p,
           \A m \in DOMAIN cs : m # n =>
               (ds[m].status = "confirmed" /\ ds[m].pool = p
                  <=> cs[m].status = "confirmed" /\ cs[m].pool = p)
    PROVE  Confirmed(ds, p) = Confirmed(cs, p) + 1 /\ Confirmed(cs, p) \in Nat
<1> DEFINE S == {m \in DOMAIN cs : cs[m].status = "confirmed" /\ cs[m].pool = p}
           T == {m \in DOMAIN ds : ds[m].status = "confirmed" /\ ds[m].pool = p}
<1>1. T = S \cup {n} /\ n \notin S
  OBVIOUS
<1>2. IsFiniteSet(S)
  <2>1. S \subseteq 1 .. Len(cs) /\ Len(cs) \in Nat
    BY SeqDomain
  <2>2. IsFiniteSet(1 .. Len(cs))
    <3>1. 1 \in Int /\ Len(cs) \in Int
      BY <2>1
    <3> QED BY <3>1, FS_Interval
  <2> QED BY <2>1, <2>2, FS_Subset
<1> HIDE DEF S, T
<1>3. Cardinality(T) = Cardinality(S) + 1 /\ Cardinality(S) \in Nat
  BY <1>1, <1>2, FS_AddElement, FS_CardinalityType
<1> QED BY <1>3 DEF Confirmed, S, T

(* The page looks at the calls again: it counts them, and reads the pool   *)
(* again where there is one more.                                          *)
LEMMA NoticeStep ==
    ASSUME PagesInv, IsSeq(calls'), Notice(calls'),
           \A n \in DOMAIN calls' : CallOK(calls'[n], book),
           UNCHANGED <<chainVars, page, selected>>,
           \A n \in DOMAIN calls' :
              page # "market" /\ Expected(calls'[n], selected)
                => \/ n \in DOMAIN calls /\ Expected(calls[n], selected)
                      /\ calls'[n].kind = calls[n].kind
                      /\ calls'[n].id = calls[n].id
                      /\ calls'[n].pool = calls[n].pool
                   \/ Confirmed(calls', selected) > counted
    PROVE  PagesInv'
<1>1. ListingInv /\ PageOK /\ SeenInv /\ book' = book
  BY DEF PagesInv, ListingInv, chainVars
<1>2. PageOK'
  BY <1>1 DEF PageOK
<1>3. page # "market" => counted' = Confirmed(calls', selected)
  BY DEF Notice, Counted
<1>4. CallsInv'
  BY <1>1, <1>3 DEF CallsInv
<1>5. CASE page # "market" /\ Confirmed(calls', selected) > counted
  <2>1. Fetch(page, selected) /\ selected \in Pools /\ selected' = selected
    BY <1>1, <1>5 DEF Notice, PageOK
  <2>2. ListingInv' /\ LoadShown'.since = book
    BY <1>1, <1>2, <2>1, NewLoadOK
  <2> QED BY <1>1, <1>4, <2>2, SeenAtFetch DEF PagesInv
<1>6. CASE ~(page # "market" /\ Confirmed(calls', selected) > counted)
  <2>1. UNCHANGED <<loads, shown>>
    BY <1>6 DEF Notice
  <2>2. ListingInv'
    BY <1>1, <2>1, NothingMoves
  <2>3. LoadShown' = LoadShown
    BY <2>1 DEF LoadShown, Last
  <2>4. ASSUME page # "market", shown.source # "indexer",
               NEW n \in DOMAIN calls', Expected(calls'[n], selected)
        PROVE  DoneIn(calls'[n], LoadShown.since)
    <3>1. /\ n \in DOMAIN calls /\ Expected(calls[n], selected)
          /\ calls'[n].kind = calls[n].kind /\ calls'[n].id = calls[n].id
          /\ calls'[n].pool = calls[n].pool
      BY <1>6, <2>4
    <3>2. DoneIn(calls[n], LoadShown.since)
      BY <1>1, <2>4, <3>1 DEF SeenInv
    <3> QED BY <3>1, <3>2 DEF DoneIn, Done
  <2>5. SeenInv'
    BY <2>1, <2>3, <2>4 DEF SeenInv
  <2> QED BY <1>4, <2>2, <2>5 DEF PagesInv
<1> QED BY <1>5, <1>6

(* What the poller makes of a call. *)
AsConfirmed(c, masked) == [c EXCEPT !.status = "confirmed", !.masked = masked]
AsDropped(c) == [c EXCEPT !.status = "dropped"]

(* The record of a call after a poll that finds its receipt. *)
LEMMA ConfirmedCall ==
    ASSUME NEW c, NEW b, CallOK(c, b), c.status = "mined", NEW masked
    PROVE  LET d == AsConfirmed(c, masked)
           IN  /\ CallOK(d, b) /\ d.status = "confirmed"
               /\ d.kind = c.kind /\ d.pool = c.pool /\ d.id = c.id
               /\ d.did = c.did /\ d.masked = masked
<1> DEFINE d == AsConfirmed(c, masked)
<1>1. PICK kind, pool, i, of, st, did, mk :
        c = [kind |-> kind, pool |-> pool, id |-> i, of |-> of,
             status |-> st, did |-> did, masked |-> mk]
  BY DEF CallOK
<1>2. d = [kind |-> kind, pool |-> pool, id |-> i, of |-> of,
           status |-> "confirmed", did |-> did, masked |-> masked]
  <2>1. PICK e : e = [c EXCEPT !.status = "confirmed"]
    OBVIOUS
  <2>2. e = [kind |-> kind, pool |-> pool, id |-> i, of |-> of,
             status |-> "confirmed", did |-> did, masked |-> mk]
    BY <1>1, <2>1
  <2>3. d = [e EXCEPT !.masked = masked]
    BY <2>1 DEF AsConfirmed
  <2> HIDE DEF d
  <2> QED BY <2>2, <2>3
<1> HIDE DEF d
<1>3. /\ d.status = "confirmed" /\ d.kind = c.kind /\ d.pool = c.pool
      /\ d.id = c.id /\ d.did = c.did /\ d.masked = masked
      /\ d = [kind |-> d.kind, pool |-> d.pool, id |-> d.id, of |-> d.of,
              status |-> d.status, did |-> d.did, masked |-> d.masked]
  BY <1>1, <1>2
<1>4. CallOK(d, b)
  BY <1>3 DEF CallOK, DoneIn, Done
<1> QED BY <1>3, <1>4 DEF d

(* The record of a call dropped from the context. *)
LEMMA DroppedCall ==
    ASSUME NEW c, NEW b, CallOK(c, b), c.status = "confirmed"
    PROVE  LET d == AsDropped(c)
           IN  /\ CallOK(d, b) /\ d.status = "dropped"
               /\ d.kind = c.kind /\ d.pool = c.pool /\ d.id = c.id
               /\ d.did = c.did /\ d.masked = c.masked
<1> DEFINE d == AsDropped(c)
<1>1. PICK kind, pool, i, of, st, did, mk :
        c = [kind |-> kind, pool |-> pool, id |-> i, of |-> of,
             status |-> st, did |-> did, masked |-> mk]
  BY DEF CallOK
<1>2. d = [kind |-> kind, pool |-> pool, id |-> i, of |-> of,
           status |-> "dropped", did |-> did, masked |-> mk]
  BY <1>1 DEF AsDropped
<1> HIDE DEF d
<1>3. /\ d.status = "dropped" /\ d.kind = c.kind /\ d.pool = c.pool
      /\ d.id = c.id /\ d.did = c.did /\ d.masked = c.masked
      /\ d = [kind |-> d.kind, pool |-> d.pool, id |-> d.id, of |-> d.of,
              status |-> d.status, did |-> d.did, masked |-> d.masked]
  BY <1>1, <1>2
<1>4. CallOK(d, b)
  BY <1>3 DEF CallOK, DoneIn, Done
<1> QED BY <1>3, <1>4 DEF d

(* A poll finds the receipt of a call. *)
LEMMA ConfirmStep ==
    ASSUME PagesInv, NEW n \in DOMAIN calls, NEW old \in OldOnes, Confirm(n, old)
    PROVE  PagesInv'
<1>1. PICK masks \in BOOLEAN :
        masks <=> \E k \in old : calls[k].pool = calls[n].pool
  OBVIOUS
<1>2. PICK conf : conf = AsConfirmed(calls[n], masks)
  OBVIOUS
<1>3. /\ calls[n].status = "mined"
      /\ calls' = [m \in DOMAIN calls |->
                     IF m = n THEN conf
                     ELSE IF m \in old THEN AsDropped(calls[m]) ELSE calls[m]]
      /\ Notice(calls')
      /\ UNCHANGED <<chainVars, page, selected>>
  <2>1. masks = (\E k \in old : calls[k].pool = calls[n].pool)
    BY <1>1
  <2> QED BY <1>2, <2>1 DEF Confirm, AsConfirmed, AsDropped
<1>4. /\ IsSeq(calls) /\ \A m \in DOMAIN calls : CallOK(calls[m], book)
      /\ page # "market" => counted = Confirmed(calls, selected)
  BY DEF PagesInv, CallsInv
<1>5. old \subseteq {m \in DOMAIN calls : calls[m].status = "confirmed"}
  BY DEF OldOnes
<1>6. DOMAIN calls' = DOMAIN calls
      /\ calls' = [m \in DOMAIN calls |-> calls'[m]]
  BY <1>3
<1>7. IsSeq(calls')
  BY <1>4, <1>6, SeqReplaced
<1>8. /\ calls'[n] = conf /\ CallOK(conf, book) /\ conf.status = "confirmed"
      /\ conf.kind = calls[n].kind /\ conf.pool = calls[n].pool
      /\ conf.id = calls[n].id /\ conf.did = calls[n].did
      /\ conf.masked = masks
  BY <1>2, <1>3, <1>4, ConfirmedCall
<1>9. ASSUME NEW m \in DOMAIN calls, m # n
      PROVE  /\ m \notin old => calls'[m] = calls[m]
             /\ m \in old => calls'[m].status = "dropped"
             /\ calls'[m].kind = calls[m].kind /\ calls'[m].pool = calls[m].pool
             /\ calls'[m].id = calls[m].id /\ calls'[m].did = calls[m].did
             /\ calls'[m].masked = calls[m].masked
             /\ CallOK(calls'[m], book)
  <2>1. CASE m \notin old
    BY <1>3, <1>4, <1>9, <2>1
  <2>2. CASE m \in old
    <3>1. calls'[m] = AsDropped(calls[m]) /\ calls[m].status = "confirmed"
      BY <1>3, <1>5, <1>9, <2>2
    <3> QED BY <1>4, <2>2, <3>1, DroppedCall
  <2> QED BY <2>1, <2>2
<1>10. \A m \in DOMAIN calls' : CallOK(calls'[m], book)
  BY <1>6, <1>8, <1>9
<1>11. ASSUME page # "market", Expected(calls'[n], selected)
       PROVE  Confirmed(calls', selected) > counted
  <2>1. conf.pool = selected /\ ~masks
    BY <1>8, <1>11 DEF Expected
  <2>2. \A k \in old : calls[k].pool # selected
    BY <1>1, <1>8, <2>1
  <2>3. \A m \in DOMAIN calls : m # n =>
          (calls'[m].status = "confirmed" /\ calls'[m].pool = selected
             <=> calls[m].status = "confirmed" /\ calls[m].pool = selected)
    BY <1>9, <2>2
  <2>4. Confirmed(calls', selected) = Confirmed(calls, selected) + 1
        /\ Confirmed(calls, selected) \in Nat
    <3>1. PICK ds, p : ds = calls' /\ p = selected
      OBVIOUS
    <3>2. /\ DOMAIN ds = DOMAIN calls
          /\ calls[n].status # "confirmed"
          /\ ds[n].status = "confirmed" /\ ds[n].pool = p
      BY <1>3, <1>6, <1>8, <2>1, <3>1
    <3>3. \A m \in DOMAIN calls : m # n =>
            (ds[m].status = "confirmed" /\ ds[m].pool = p
               <=> calls[m].status = "confirmed" /\ calls[m].pool = p)
      BY <2>3, <3>1
    <3>4. Confirmed(ds, p) = Confirmed(calls, p) + 1 /\ Confirmed(calls, p) \in Nat
      BY <1>4, <3>2, <3>3, OneMoreConfirmed
    <3> QED BY <3>1, <3>4
  <2> QED BY <1>4, <1>11, <2>4
<1>12. ASSUME NEW m \in DOMAIN calls', page # "market",
              Expected(calls'[m], selected), m # n
       PROVE  /\ m \in DOMAIN calls /\ Expected(calls[m], selected)
              /\ calls'[m].kind = calls[m].kind /\ calls'[m].id = calls[m].id
              /\ calls'[m].pool = calls[m].pool
  BY <1>5, <1>6, <1>9, <1>12 DEF Expected
<1> QED BY <1>3, <1>7, <1>10, <1>11, <1>12, NoticeStep

(* The confirmed calls are cleared. *)
LEMMA ClearConfirmedStep ==
    ASSUME PagesInv, ClearConfirmed
    PROVE  PagesInv'
<1>1. /\ calls' = [m \in DOMAIN calls |->
                     IF calls[m].status = "confirmed"
                     THEN AsDropped(calls[m]) ELSE calls[m]]
      /\ Notice(calls')
      /\ UNCHANGED <<chainVars, page, selected>>
  BY DEF ClearConfirmed, AsDropped
<1>2. IsSeq(calls) /\ \A m \in DOMAIN calls : CallOK(calls[m], book)
  BY DEF PagesInv, CallsInv
<1>3. DOMAIN calls' = DOMAIN calls
      /\ calls' = [m \in DOMAIN calls |-> calls'[m]]
  BY <1>1
<1>4. IsSeq(calls')
  BY <1>2, <1>3, SeqReplaced
<1>5. ASSUME NEW m \in DOMAIN calls
      PROVE  /\ CallOK(calls'[m], book)
             /\ calls'[m].kind = calls[m].kind /\ calls'[m].id = calls[m].id
             /\ calls'[m].pool = calls[m].pool
             /\ Expected(calls'[m], selected) => Expected(calls[m], selected)
  <2>1. CASE calls[m].status = "confirmed"
    <3>1. calls'[m] = AsDropped(calls[m])
      BY <1>1, <2>1
    <3> QED BY <1>2, <2>1, <3>1, DroppedCall DEF Expected
  <2>2. CASE calls[m].status # "confirmed"
    BY <1>1, <1>2, <2>2
  <2> QED BY <2>1, <2>2
<1>6. \A m \in DOMAIN calls' : CallOK(calls'[m], book)
  BY <1>3, <1>5
<1> QED BY <1>1, <1>3, <1>4, <1>5, <1>6, NoticeStep

-----------------------------------------------------------------------------
(* The invariant holds in every state. *)

(* The page's own load steps change no call. *)
LEMMA LoadStepsStep ==
    ASSUME PagesInv, NEW n \in DOMAIN loads, LoadSteps(n)
    PROVE  PagesInv'
<1>1. ListingInv /\ book \in Books
  BY DEF PagesInv, ListingInv
<1>2. ListingInv'
  BY <1>1, IndexerAnswersStep, IndexerUnavailableStep, ReadCountStep,
     ReadBatchStep, ReadFailsStep DEF LoadSteps
<1>3. UNCHANGED <<chainVars, calls, page, selected, counted, modal>>
  BY DEF LoadSteps, IndexerAnswers, IndexerUnavailable, ReadCount, ReadBatch,
         ReadFails, AdvancePart, Advance
<1>4. book' \in Books /\ Grown(book, book')
  BY <1>1, <1>3, GrownRefl DEF chainVars
<1>5. CallsInv'
  BY <1>3, <1>4, CallsWait
<1>6. SinceKept
  BY <1>1, IndexerAnswersStep, IndexerUnavailableStep, ReadCountStep,
     ReadBatchStep, ReadFailsStep DEF LoadSteps
<1>7. SeenInv'
  BY <1>3, <1>6, SeenWait DEF SinceKept
<1> QED BY <1>2, <1>5, <1>7 DEF PagesInv

(* A new load, on the pool shown or another. *)
LEMMA FetchStep ==
    ASSUME PagesInv, NEW p \in Pools, Fetch(page, p), page' = page,
           selected' = p, UNCHANGED <<chainVars, calls>>,
           page # "market" => counted' = Confirmed(calls, p)
    PROVE  PagesInv'
<1>1. PageOK' /\ ListingInv
  BY DEF PageOK, PagesInv, ListingInv
<1>2. ListingInv' /\ LoadShown'.since = book
  BY <1>1, NewLoadOK
<1>3. book' = book
  BY DEF chainVars
<1>4. CallsInv'
  BY <1>3 DEF PagesInv, CallsInv, Confirmed
<1> QED BY <1>2, <1>3, <1>4, SeenAtFetch DEF PagesInv

(* A modal sends its call. *)
LEMMA SendsStep ==
    ASSUME PagesInv, Sends(selected)
    PROVE  PagesInv'
<1>1. /\ calls' = Posted(selected) /\ Fetch(page, selected)
      /\ UNCHANGED <<chainVars, page, selected, counted>>
  BY DEF Sends
<1>2. PageOK /\ PageOK' /\ ListingInv /\ selected \in Pools
  BY <1>1 DEF PageOK, PagesInv, ListingInv
<1>3. ListingInv' /\ LoadShown'.since = book /\ book' = book
  BY <1>1, <1>2, NewLoadOK DEF chainVars
<1>4. CallsInv'
  BY <1>1, <1>2, <1>3, PostedStep
<1> QED BY <1>3, <1>4, SeenAtFetch DEF PagesInv

(* Steps a listing does not see: the chain's, and a modal opening. *)
LEMMA UnseenStep ==
    ASSUME PagesInv, book' \in Books, Grown(book, book'),
           indexed' \in {indexed, book},
           UNCHANGED <<calls, page, selected, counted, loads, shown>>
    PROVE  PagesInv'
<1>1. ListingInv'
  BY ChainMoves DEF PagesInv
<1>2. CallsInv'
  BY CallsWait
<1>3. LoadShown' = LoadShown
  BY DEF LoadShown, Last
<1>4. SeenInv'
  BY <1>3, SeenWait
<1> QED BY <1>1, <1>2, <1>4 DEF PagesInv

(* Every step keeps the invariant. *)
LEMMA PagesStep == PagesInv /\ [Next]_vars => PagesInv'
<1> SUFFICES ASSUME PagesInv, [Next]_vars PROVE PagesInv'
  OBVIOUS
<1>1. book \in Books /\ Grown(book, book) /\ PageOK
  BY GrownRefl DEF PagesInv, ListingInv
<1>2. CASE OthersMove
  <2>1. book' \in Books /\ Grown(book, book')
    BY <1>1, <1>2, OthersMoveStep
  <2> QED BY <1>2, <2>1, UnseenStep DEF OthersMove, pageVars
<1>3. CASE IndexerCatchesUp
  BY <1>1, <1>3, UnseenStep DEF IndexerCatchesUp, pageVars
<1>4. ASSUME NEW n \in DOMAIN loads, LoadSteps(n) PROVE PagesInv'
  BY <1>4, LoadStepsStep
<1>5. ASSUME NEW p \in Pools, Select(p) PROVE PagesInv'
  BY <1>5, FetchStep DEF Select
<1>6. CASE Retry
  <2>1. page # "market" => counted' = Confirmed(calls, selected)
    BY <1>6 DEF Retry, PagesInv, CallsInv
  <2> QED BY <1>1, <1>6, <2>1, FetchStep DEF Retry, PageOK
<1>7. CASE OpenChainModal \/ OpenPortfolioModal \/ CloseModal
  <2>1. UNCHANGED <<chainVars, calls, page, selected, counted, loads, shown>>
    BY <1>7 DEF OpenChainModal, OpenPortfolioModal, CloseModal, Opens
  <2>2. book' = book /\ indexed' = indexed
    BY <2>1 DEF chainVars
  <2> QED BY <1>1, <2>1, <2>2, UnseenStep
<1>8. CASE SendFromChain \/ SendFromPortfolio
  BY <1>8, SendsStep DEF SendFromChain, SendFromPortfolio
<1>9. ASSUME NEW n \in DOMAIN calls, IsMined(n) PROVE PagesInv'
  BY <1>9, MinedStep
<1>10. ASSUME NEW n \in DOMAIN calls, NEW old \in OldOnes, Confirm(n, old)
       PROVE  PagesInv'
  BY <1>10, ConfirmStep
<1>11. CASE ClearConfirmed
  BY <1>11, ClearConfirmedStep
<1>12. CASE UNCHANGED vars
  <2>1. book' = book /\ indexed' = indexed
        /\ UNCHANGED <<calls, page, selected, counted, loads, shown>>
    BY <1>12 DEF vars, chainVars, pageVars
  <2> QED BY <1>1, <2>1, UnseenStep
<1> QED BY <1>2, <1>3, <1>4, <1>5, <1>6, <1>7, <1>8, <1>9, <1>10, <1>11, <1>12
        DEF Next, SelectMarket, SelectPortfolioPool

-----------------------------------------------------------------------------
(* A page is opened on pools with a past. *)

(* A pool the wallet began has its one option. *)
LEMMA HistoryFacts ==
    ASSUME NEW h \in Histories
    PROVE  /\ h \in Seq(Listed)
           /\ h # <<>> /\ h[1].writer = Me => Len(h) = 1
<1>1. \A u \in Others : Option(u, "PURCHASED", Me) \in Listed
  BY DEF Option, Listed, Persons, Statuses
<1>2. Option(Me, "OPEN", NoOne) \in Listed
  BY DEF Option, Listed, Persons, Statuses
<1>3. \/ h = <<>>
      \/ \E o \in Listed : h = <<o>>
  BY <1>1, <1>2 DEF Histories
<1>4. CASE h = <<>>
  BY <1>4
<1>5. ASSUME NEW o \in Listed, h = <<o>>
      PROVE  h \in Seq(Listed) /\ Len(h) = 1
  BY <1>5
<1> QED BY <1>3, <1>4, <1>5

(* At first nothing but an old call is confirmed, of an option that is     *)
(* there.                                                                  *)
LEMMA InitCalls ==
    ASSUME Init
    PROVE  IsSeq(calls) /\ \A n \in DOMAIN calls : CallOK(calls[n], book)
<1>1. CASE calls = <<>>
  <2>1. calls \in Seq({})
    BY <1>1
  <2>2. IsSeq(calls)
    BY <2>1, SeqIsSeq
  <2>3. DOMAIN calls = {}
    BY <1>1
  <2> QED BY <2>2, <2>3
<1>2. ASSUME NEW p \in Pools, book[p] # <<>>, book[p][1].writer = Me,
             calls = <<Remembered(p)>>
      PROVE  IsSeq(calls) /\ \A n \in DOMAIN calls : CallOK(calls[n], book)
  <2>1. PICK c : c = Remembered(p)
    OBVIOUS
  <2>2. calls = <<c>>
    BY <1>2, <2>1
  <2>3. calls \in Seq({c}) /\ DOMAIN calls = {1} /\ calls[1] = c
    BY <2>2
  <2>4. book[p] \in Histories
    BY DEF Init
  <2>5. Len(book[p]) = 1
    BY <1>2, <2>4, HistoryFacts
  <2>6. CallOK(c, book)
    BY <1>2, <2>1, <2>5 DEF CallOK, Remembered, DoneIn, Done
  <2> QED BY <2>3, <2>6, SeqIsSeq
<1>3. calls = <<>> \/ \E p \in Pools : book[p] # <<>> /\ book[p][1].writer = Me
                                       /\ calls = <<Remembered(p)>>
  BY DEF Init
<1> QED BY <1>1, <1>2, <1>3

(* The invariant holds when a page is opened. *)
LEMMA PagesInit == Init => PagesInv
<1> SUFFICES ASSUME Init PROVE PagesInv
  OBVIOUS
<1>1. book \in Books /\ indexed = book /\ Grown(book, book)
  <2>1. book \in Books
    BY HistoryFacts DEF Init, Books
  <2> QED BY <2>1, GrownRefl DEF Init
<1>2. PageOK
  BY DEF Init, PageOK
<1>3. PICK l : l = NewLoad(page, selected)
  OBVIOUS
<1>4. loads = <<l>> /\ shown = NothingShown
  BY <1>3 DEF Init
<1>5. loads \in Seq({l}) /\ Len(loads) = 1 /\ loads[1] = l
  BY <1>4
<1>6. IsSeq(loads) /\ Last \in DOMAIN loads /\ LoadShown = l
  BY <1>5, SeqIsSeq DEF Last, LoadShown
<1>7. /\ l.page = page /\ l.since = book
      /\ l.step = (IF page = "portfolio" THEN "indexer" ELSE "pools")
      /\ l.part = [q \in PoolsOf(page, selected) |->
                     [step |-> "count", total |-> 0, got |-> <<>>]]
      /\ l = [page |-> page, step |-> l.step, part |-> l.part,
              since |-> l.since]
  BY <1>3 DEF NewLoad
<1>8. SinceOK(l)
  BY <1>1, <1>7 DEF SinceOK
<1>9. PartsOK(l)
  <2>1. \A q \in PoolsOf(page, selected) :
           l.part[q] \in Parts /\ Len(l.part[q].got) = 0
           /\ l.part[q].step = "count"
    BY <1>7 DEF Parts
  <2>2. l.part \in [PoolsOf(page, selected) -> Parts]
    BY <1>7, <2>1
  <2>3. \A q \in PoolsOf(page, selected) : PartOK(q, l.part[q], l.since)
    BY <2>1 DEF PartOK
  <2> QED BY <1>7, <2>2, <2>3 DEF PartsOK
<1>10. ~IsOver(l)
  BY <1>2, <1>7, AskedPools DEF IsOver
<1>11. LoadOK(l)
  BY <1>4, <1>8, <1>9, <1>10 DEF LoadOK, FromChain, NothingShown
<1>12. ListingInv
  BY <1>1, <1>2, <1>6, <1>11 DEF ListingInv
<1>13. CallsInv
  BY InitCalls DEF CallsInv, Init
<1>14. SeenInv
  <2>1. \A n \in DOMAIN calls : calls[n].did => DoneIn(calls[n], book)
    BY <1>13 DEF CallsInv, CallOK
  <2> QED BY <1>6, <1>7, <2>1 DEF SeenInv, Expected
<1> QED BY <1>12, <1>13, <1>14 DEF PagesInv

(* In every state of a page: what its last load has read of an option lies *)
(* between the load's beginning and now, and the load is no older than     *)
(* what the wallet's confirmed calls have done.                            *)
LEMMA PagesInvariant == Spec => []PagesInv
BY PagesInit, PagesStep, PTL DEF Spec

-----------------------------------------------------------------------------
(* The theorems. *)

(* What a finished load has read of a pool. *)
LEMMA FinishedLoad ==
    ASSUME PagesInv, ~Loading, shown.source # "indexer"
    PROVE  LET l == LoadShown
           IN  /\ DOMAIN l.part = PoolsOf(page, selected)
               /\ PoolsOf(page, selected) \subseteq Pools
               /\ l.page = page
               /\ shown.rows = RowsOf(l, ReadOf(l))
               /\ shown.failed = DOMAIN l.part \ ReadOf(l)
               /\ \A p \in ReadOf(l) :
                     /\ p \in Pools /\ l.part[p].got \in Seq(Listed)
                     /\ Len(l.since[p]) <= Len(l.part[p].got)
                     /\ \A id \in 1 .. Len(l.part[p].got) :
                           Tells(p, id, l.part[p].got[id], l.since)
<1> DEFINE l == LoadShown
<1>1. LoadOK(l) /\ IsOver(l) /\ PageOK
  BY DEF PagesInv, ListingInv, Loading, LoadShown
<1>2. FromChain(l) /\ SinceOK(l)
  BY <1>1 DEF LoadOK
<1> HIDE DEF l
<1>3. /\ PartsOK(l) /\ shown.rows = RowsOf(l, ReadOf(l))
      /\ shown.failed = DOMAIN l.part \ ReadOf(l)
  BY <1>1, <1>2 DEF FromChain
<1>4. DOMAIN l.part = PoolsOf(page, selected) /\ l.page = page
  BY <1>3 DEF PartsOK
<1>5. PoolsOf(page, selected) \subseteq Pools
  BY <1>1, AskedPools
<1>6. ASSUME NEW p \in ReadOf(l)
      PROVE  /\ p \in Pools /\ l.part[p].got \in Seq(Listed)
             /\ Len(l.since[p]) <= Len(l.part[p].got)
             /\ \A id \in 1 .. Len(l.part[p].got) :
                   Tells(p, id, l.part[p].got[id], l.since)
  <2>1. p \in Pools /\ PartOK(p, l.part[p], l.since) /\ l.part[p].step = "read"
    BY <1>3, <1>4, <1>5, <1>6 DEF PartsOK, ReadOf
  <2>2. l.part[p].got \in Seq(Listed)
    BY <2>1 DEF PartOK, Parts
  <2>3. Len(l.since[p]) \in Nat /\ Len(l.part[p].got) \in Nat
    BY <1>2, <2>1, <2>2, BookFacts DEF SinceOK
  <2> QED BY <2>1, <2>2, <2>3 DEF PartOK
<1> QED BY <1>3, <1>4, <1>5, <1>6 DEF l

(* What is between a load's beginning and now is between for the property. *)
LEMMA TellsTrue ==
    ASSUME PagesInv, NEW p \in Pools, NEW id, NEW o,
           Tells(p, id, o, LoadShown.since)
    PROVE  RowIsTrue(Row(p, id, o))
<1> DEFINE since == LoadShown.since
           r == Row(p, id, o)
<1>1. book \in Books /\ since \in Books
  BY DEF PagesInv, ListingInv, LoadOK, SinceOK
<1>2. r.pool = p /\ r.id = id /\ r.option = o
  BY DEF Row
<1>3. /\ id \in 1 .. Len(book[p]) /\ o \in Listed
      /\ Later(AtFirst(p, id, since), o) /\ Later(o, book[p][id])
  BY DEF Tells
<1>4. book[p][id] \in Listed /\ DOMAIN book[p] = 1 .. Len(book[p])
      /\ DOMAIN since[p] = 1 .. Len(since[p])
  BY <1>1, <1>3, BookFacts
<1>5. AtFirst(p, id, since) \in Listed
  BY <1>1, <1>4, BookFacts, LaterThanNew DEF AtFirst
<1>6. Between(AtFirst(p, id, since), o, book[p][id])
  BY <1>3, <1>4, <1>5, LaterBetween
<1>7. AtFirst(p, id, since) =
        IF id \in DOMAIN AtStart(p) THEN AtStart(p)[id]
        ELSE Option(book[p][id].writer, "OPEN", NoOne)
  BY <1>4 DEF AtFirst, AtStart
<1> HIDE DEF r
<1> QED BY <1>2, <1>3, <1>4, <1>6, <1>7 DEF RowIsTrue, r

(* Whose an option is, it stays. *)
LEMMA MineStays ==
    ASSUME NEW a, NEW b, Later(a, b), Mine(a)
    PROVE  Mine(b)
BY WalletAssumption DEF Later, Mine

(* The rows a page makes of what it has read: the pool's, the wallet's on  *)
(* the portfolio.                                                          *)
LEMMA RowsOfRead ==
    ASSUME PagesInv, ~Loading, shown.source # "indexer"
    PROVE  LET l == LoadShown
           IN  /\ \A r \in shown.rows :
                    \E p \in ReadOf(l) : \E id \in 1 .. Len(l.part[p].got) :
                        r = Row(p, id, l.part[p].got[id])
               /\ \A p \in ReadOf(l) : \A id \in 1 .. Len(l.part[p].got) :
                    (page = "portfolio" => Mine(l.part[p].got[id]))
                        => Row(p, id, l.part[p].got[id]) \in shown.rows
<1>1. PICK l : l = LoadShown
  OBVIOUS
<1>2. /\ DOMAIN l.part = PoolsOf(page, selected) /\ l.page = page
      /\ shown.rows = RowsOf(l, ReadOf(l))
      /\ \A p \in ReadOf(l) : l.part[p].got \in Seq(Listed)
  BY <1>1, FinishedLoad
<1>3. PageOK
  BY DEF PagesInv, ListingInv
<1>4. \A p \in ReadOf(l) : \A r :
         r \in Rows(p, l.part[p].got) <=>
           \E id \in 1 .. Len(l.part[p].got) : r = Row(p, id, l.part[p].got[id])
  BY <1>2 DEF Rows
<1> DEFINE readRows == UNION {Rows(p, l.part[p].got) : p \in ReadOf(l)}
<1>9. \A r : r \in readRows <=>
         \E p \in ReadOf(l) : \E id \in 1 .. Len(l.part[p].got) :
            r = Row(p, id, l.part[p].got[id])
  <2> TAKE r
  <2>1. r \in readRows <=> \E p \in ReadOf(l) : r \in Rows(p, l.part[p].got)
    OBVIOUS
  <2> HIDE DEF readRows
  <2>2. \A p \in ReadOf(l) :
           r \in Rows(p, l.part[p].got) <=>
             \E id \in 1 .. Len(l.part[p].got) :
                r = Row(p, id, l.part[p].got[id])
    BY <1>4
  <2> QED BY <2>1, <2>2
<1>5. ReadOf(l) \subseteq PoolsOf(page, selected)
  BY <1>2 DEF ReadOf
<1>6. CASE page = "chain"
  <2>1. \A p \in ReadOf(l) : p = selected
    BY <1>3, <1>5, <1>6, AskedPools
  <2>2. shown.rows = readRows
    BY <1>2, <1>6, <2>1 DEF RowsOf, ChainRows
  <2> HIDE DEF readRows
  <2> QED BY <1>1, <1>6, <1>9, <2>2
<1>7. CASE page = "portfolio"
  <2>1. shown.rows = {r \in readRows : Mine(r.option)}
    BY <1>2, <1>7 DEF RowsOf, PortfolioRows
  <2>2. \A p, id, o : Row(p, id, o).option = o
    BY DEF Row
  <2> HIDE DEF readRows
  <2>3. \A r \in shown.rows : r \in readRows
    BY <2>1
  <2>4. \A p \in ReadOf(l) : \A id \in 1 .. Len(l.part[p].got) :
           Mine(l.part[p].got[id]) => Row(p, id, l.part[p].got[id]) \in shown.rows
    BY <1>9, <2>1, <2>2
  <2> QED BY <1>1, <1>7, <1>9, <2>3, <2>4
<1>8. CASE page = "market"
  <2>1. shown.rows = readRows
    BY <1>2, <1>8 DEF RowsOf, MarketRows
  <2> HIDE DEF readRows
  <2> QED BY <1>1, <1>8, <1>9, <2>1
<1> QED BY <1>3, <1>6, <1>7, <1>8, AskedPools

(* The listings a load from the chain has made. *)
LEMMA ChainListings ==
    ASSUME PagesInv, ~Loading, shown.source # "indexer"
    PROVE  /\ \A r \in shown.rows : RowIsTrue(r)
           /\ \A p \in DOMAIN LoadShown.part \ shown.failed :
                 \A id \in Listable(p) :
                    \E r \in shown.rows : r.pool = p /\ r.id = id
<1>1. PICK l : l = LoadShown
  OBVIOUS
<1>2. /\ shown.failed = DOMAIN l.part \ ReadOf(l)
      /\ \A p \in ReadOf(l) :
            /\ p \in Pools /\ l.part[p].got \in Seq(Listed)
            /\ Len(l.since[p]) <= Len(l.part[p].got)
            /\ \A id \in 1 .. Len(l.part[p].got) :
                  Tells(p, id, l.part[p].got[id], l.since)
  BY <1>1, FinishedLoad
<1>3. ASSUME NEW r \in shown.rows PROVE RowIsTrue(r)
  <2>1. PICK p \in ReadOf(l) : \E id \in 1 .. Len(l.part[p].got) :
                                   r = Row(p, id, l.part[p].got[id])
    BY <1>1, RowsOfRead
  <2>2. PICK id \in 1 .. Len(l.part[p].got) : r = Row(p, id, l.part[p].got[id])
    BY <2>1
  <2> QED BY <1>1, <1>2, <2>2, TellsTrue
<1>4. ASSUME NEW p \in DOMAIN l.part \ shown.failed, NEW id \in Listable(p)
      PROVE  \E r \in shown.rows : r.pool = p /\ r.id = id
  <2>1. p \in ReadOf(l)
    BY <1>2 DEF ReadOf
  <2>2. l.since \in Books
    BY <1>1 DEF PagesInv, ListingInv, LoadOK, SinceOK
  <2>3. /\ id \in 1 .. Len(l.since[p])
        /\ page = "portfolio" => Mine(l.since[p][id])
    BY <1>1, <1>2, <2>1, <2>2, BookFacts DEF Listable, AtStart
  <2>4. id \in 1 .. Len(l.part[p].got)
    <3>1. Len(l.since[p]) \in Nat /\ Len(l.part[p].got) \in Nat
          /\ Len(l.since[p]) <= Len(l.part[p].got)
      BY <1>2, <2>1, <2>2, BookFacts
    <3> QED BY <2>3, <3>1
  <2>5. Later(l.since[p][id], l.part[p].got[id])
    BY <1>2, <2>1, <2>3, <2>4 DEF Tells, AtFirst
  <2>6. page = "portfolio" => Mine(l.part[p].got[id])
    BY <2>3, <2>5, MineStays
  <2>7. Row(p, id, l.part[p].got[id]) \in shown.rows
    BY <1>1, <2>1, <2>4, <2>6, RowsOfRead
  <2> QED BY <2>7 DEF Row
<1> QED BY <1>1, <1>3, <1>4

(* The portfolio's listings when the indexer has answered. *)
LEMMA IndexerListings ==
    ASSUME PagesInv, shown.source = "indexer"
    PROVE  /\ \A r \in shown.rows : RowIsTrue(r)
           /\ \A p \in DOMAIN LoadShown.part \ shown.failed :
                 \A id \in Listable(p) :
                    \E r \in shown.rows : r.pool = p /\ r.id = id
<1>1. PICK l : l = LoadShown
  OBVIOUS
<1>2. /\ page = "portfolio" /\ DOMAIN l.part = Pools
      /\ shown.rows = UNION {{r \in Rows(p, l.since[p]) : Mine(r.option)} :
                                p \in Pools}
      /\ l.since \in Books /\ Grown(l.since, book) /\ book \in Books
  BY <1>1 DEF PagesInv, ListingInv, LoadOK, FromIndexer, SinceOK
<1>3. \A p, id, o : /\ Row(p, id, o).option = o /\ Row(p, id, o).pool = p
                    /\ Row(p, id, o).id = id
  BY DEF Row
<1>4. \A p \in Pools : \A r :
         r \in Rows(p, l.since[p]) <=>
           \E id \in 1 .. Len(l.since[p]) : r = Row(p, id, l.since[p][id])
  BY <1>2, BookFacts DEF Rows
<1>5. ASSUME NEW r \in shown.rows PROVE RowIsTrue(r)
  <2>1. PICK p \in Pools : r \in Rows(p, l.since[p])
    BY <1>2
  <2>2. PICK id \in 1 .. Len(l.since[p]) : r = Row(p, id, l.since[p][id])
    BY <1>4, <2>1
  <2>3. Tells(p, id, l.since[p][id], l.since)
    <3>1. l.since[p][id] \in Listed
      BY <1>2, BookFacts
    <3>2. id \in 1 .. Len(book[p])
      <4>1. Len(l.since[p]) \in Nat /\ Len(book[p]) \in Nat
            /\ Len(l.since[p]) <= Len(book[p])
        BY <1>2, BookFacts DEF Grown
      <4> QED BY <4>1
    <3>3. Later(l.since[p][id], book[p][id])
      BY <1>2 DEF Grown
    <3> QED BY <3>1, <3>2, <3>3, LaterRefl DEF Tells, AtFirst
  <2> QED BY <1>1, <2>2, <2>3, TellsTrue
<1>6. ASSUME NEW p \in Pools, NEW id \in Listable(p)
      PROVE  \E r \in shown.rows : r.pool = p /\ r.id = id
  <2>1. id \in 1 .. Len(l.since[p]) /\ Mine(l.since[p][id])
    BY <1>1, <1>2, BookFacts DEF Listable, AtStart
  <2>2. Row(p, id, l.since[p][id]) \in Rows(p, l.since[p])
    BY <1>4, <2>1
  <2>3. Mine(Row(p, id, l.since[p][id]).option)
    BY <1>3, <2>1
  <2>4. \A q \in Pools : \A r \in Rows(q, l.since[q]) :
           Mine(r.option) => r \in shown.rows
    BY <1>2
  <2>5. Row(p, id, l.since[p][id]) \in shown.rows
    BY <2>2, <2>3, <2>4
  <2> QED BY <1>3, <2>5
<1> QED BY <1>1, <1>2, <1>5, <1>6

(* Listings are true (PoolPagesProperties): whenever the page has loaded,  *)
(* every row is what that option was at some moment since the load began,  *)
(* and none of the options there were then is missing, whatever others do  *)
(* between two batches, whatever is selected meanwhile, and however late   *)
(* the answers of cancelled loads return (usePool.ts, useUserOptions.ts,   *)
(* useMultiPool.ts).                                                       *)
THEOREM PagesListTheTruth == Spec => []ListingsAreTrue
<1>1. PagesInv => ListingsAreTrue
  BY ChainListings, IndexerListings DEF ListingsAreTrue
<1> QED BY <1>1, PagesInvariant, PTL

(* A confirmed call shows in what a finished load has read of its pool. *)
LEMMA CallSeen ==
    ASSUME PagesInv, Displayed, page # "market", shown.source # "indexer",
           NEW n \in DOMAIN calls, Expected(calls[n], selected),
           page = "portfolio" => Owned(calls[n])
    PROVE  \E r \in shown.rows : Reflects(calls[n], r)
<1>1. PICK l : l = LoadShown
  OBVIOUS
<1>2. PICK c : c = calls[n]
  OBVIOUS
<1>3. PICK got : got = l.part[selected].got
  OBVIOUS
<1>4. /\ DOMAIN l.part = PoolsOf(page, selected)
      /\ shown.failed = DOMAIN l.part \ ReadOf(l)
      /\ \A p \in ReadOf(l) :
            /\ p \in Pools /\ l.part[p].got \in Seq(Listed)
            /\ Len(l.since[p]) <= Len(l.part[p].got)
            /\ \A id \in 1 .. Len(l.part[p].got) :
                  Tells(p, id, l.part[p].got[id], l.since)
  BY <1>1, FinishedLoad DEF Displayed
<1>5. selected \in ReadOf(l)
  <2>1. PoolsOf(page, selected) = {selected}
    BY AskedPools DEF PagesInv, ListingInv
  <2> QED BY <1>4, <2>1 DEF Displayed, Failed
<1>6. c.pool = selected /\ DoneIn(c, l.since) /\ l.since \in Books
      /\ book \in Books
  BY <1>1, <1>2 DEF PagesInv, SeenInv, Expected, ListingInv, LoadOK, SinceOK
<1>7. /\ c.id \in 1 .. Len(l.since[selected])
      /\ Done(c, l.since[selected][c.id])
  BY <1>6 DEF DoneIn
<1>8. c.id \in 1 .. Len(got)
  <2>1. Len(l.since[selected]) \in Nat /\ Len(got) \in Nat
        /\ Len(l.since[selected]) <= Len(got)
    BY <1>3, <1>4, <1>5, <1>6, BookFacts
  <2> QED BY <1>7, <2>1
<1>9. /\ got[c.id] \in Listed /\ l.since[selected][c.id] \in Listed
      /\ book[selected][c.id] \in Listed
      /\ Later(l.since[selected][c.id], got[c.id])
      /\ Later(got[c.id], book[selected][c.id])
  <2>1. Tells(selected, c.id, got[c.id], l.since)
    BY <1>3, <1>4, <1>5, <1>8
  <2>2. selected \in Pools
    BY <1>4, <1>5
  <2> QED BY <1>6, <1>7, <2>1, <2>2, BookFacts DEF Tells, AtFirst
<1>10. /\ c.kind = "write" => got[c.id].writer = Me
       /\ c.kind = "buy" => got[c.id].buyer = Me /\ Progress[got[c.id].status] >= 1
       /\ c.kind = "close" => got[c.id].status = "CLOSED"
  <2>1. c.kind = "write" => got[c.id].writer = Me
    BY <1>7, <1>9 DEF Done, Later
  <2>2. c.kind = "buy" => got[c.id].buyer = Me /\ Progress[got[c.id].status] >= 1
    BY <1>7, <1>9, WalletAssumption, ListedProgress DEF Done, Later
  <2>3. c.kind = "close" => got[c.id].status = "CLOSED"
    BY <1>7, <1>9, ProgressValues, ListedProgress DEF Done, Later
  <2> QED BY <2>1, <2>2, <2>3
<1>11. c.kind \in {"write", "buy", "close"}
  BY <1>7 DEF Done
<1>12. page = "portfolio" => Mine(got[c.id])
  <2>1. ASSUME page = "portfolio", c.kind = "close" PROVE Mine(got[c.id])
    <3>1. Mine(book[selected][c.id])
      BY <1>2, <1>6, <2>1 DEF Owned
    <3>2. got[c.id] = book[selected][c.id]
      BY <1>9, <1>10, <2>1, ProgressValues, ListedProgress DEF Later
    <3> QED BY <3>1, <3>2
  <2> QED BY <1>10, <1>11, <2>1 DEF Mine
<1>13. Row(selected, c.id, got[c.id]) \in shown.rows
  BY <1>1, <1>3, <1>5, <1>8, <1>12, RowsOfRead DEF Displayed
<1>14. Reflects(c, Row(selected, c.id, got[c.id]))
  BY <1>6, <1>10, ProgressValues DEF Reflects, Row
<1> QED BY <1>2, <1>13, <1>14

(* Own calls are seen (PoolPagesProperties): when nothing is loading and   *)
(* nothing has failed, the table of the selected pool shows the effect of  *)
(* every own transaction the site calls confirmed: counting them, as       *)
(* usePool.ts and useUserOptions.ts do, misses none, but for the one       *)
(* rendering the property excepts.                                         *)
THEOREM OwnCallsAreShown == Spec => []OwnCallsAreSeen
<1>1. PagesInv => OwnCallsAreSeen
  BY CallSeen DEF OwnCallsAreSeen, Expected
<1> QED BY <1>1, PagesInvariant, PTL
=============================================================================
