------------------------- MODULE BtcQuoteProperties -------------------------
(***************************************************************************)
(* What the OP20/BTC pool must guarantee.                                  *)
(***************************************************************************)
EXTENDS BtcQuotePool, OptionsPoolProperties

(* A reservation record that has not been cleared. *)
Stored(rid)   == reservations[rid].buyer # NoOne
Pending(rid)  == Stored(rid) /\ reservations[rid].status = PENDING
Executed(rid) == Stored(rid) /\ reservations[rid].status = EXECUTED

PendingFor(id) ==
    {rid \in DOMAIN reservations : Pending(rid) /\ reservations[rid].optionId = id}
SalesOf(id) ==
    {rid \in DOMAIN reservations : Executed(rid) /\ reservations[rid].optionId = id}

Sold(o) == o.status \in {PURCHASED, EXERCISED, EXPIRED}

(* An option is reserved exactly while one reservation of it is pending:   *)
(* no option is promised twice, and none stays blocked by a reservation    *)
(* that was executed or released.                                          *)
ReservedByOne ==
    \A id \in DOMAIN options :
        Cardinality(PendingFor(id)) =
            IF options[id].status = RESERVED THEN 1 ELSE 0

(* Every sale went through one executed reservation, whose buyer holds the *)
(* option and whose script, fixed when it was reserved, is the one the     *)
(* strike must be paid to, whatever key the writer registered since.       *)
SoldThroughReservation ==
    \A id \in DOMAIN options :
        IF Sold(options[id])
        THEN \E rid \in DOMAIN reservations :
                /\ SalesOf(id) = {rid}
                /\ options[id].buyer = reservations[rid].buyer
                /\ id \in DOMAIN scriptOf
                /\ scriptOf[id] = reservations[rid].csvScriptHash
        ELSE SalesOf(id) = {} /\ options[id].buyer = NoOne

-----------------------------------------------------------------------------
(* Bitcoin payments. *)

(* What has become due to the writers' scripts: the premium of every sale, *)
(* and the strike of every call exercised.                                 *)
PremiumDue(rid) ==
    [for |-> <<"premium", rid>>, script |-> reservations[rid].csvScriptHash,
     amount |-> reservations[rid].btcAmount]
StrikeDue(id) ==
    [for |-> <<"strike", id>>, script |-> scriptOf[id],
     amount |-> StrikeValue(options[id])]

ExercisedCall(o) == o.status = EXERCISED /\ o.optionType = CALL

Dues ==
    {PremiumDue(rid) : rid \in {r \in DOMAIN reservations : Executed(r)}}
    \cup {StrikeDue(id) : id \in {i \in DOMAIN options :
                                     ExercisedCall(options[i])}}

(* No output counts twice: every premium and every strike that was due has *)
(* a counted output of its own, to its script and of its amount at least,  *)
(* although each payment is only seen by the one call that verifies it and *)
(* premiums and strikes go to the same scripts.                            *)
EveryDueIsPaid ==
    \E paidBy \in [Dues -> consumed] :
        /\ \A d, e \in Dues : paidBy[d] = paidBy[e] => d = e
        /\ \A d \in Dues : /\ paidBy[d].script = d.script
                            /\ paidBy[d].value >= d.amount

(* A reservation's amount comes from a price NativeSwap quoted at most     *)
(* MAX_PRICE_STALENESS blocks before it was made, cache or no cache.       *)
PriceIsRecent ==
    \A rid \in DOMAIN reservations : Stored(rid) =>
        LET r    == reservations[rid]
            made == r.expiryBlock - RESERVATION_EXPIRY_BLOCKS
        IN  \E b \in 0 .. made :
              /\ made - b <= MAX_PRICE_STALENESS
              /\ \E p \in PricesAt[b] :
                    r.btcAmount = BtcAmount(options[r.optionId], p)

-----------------------------------------------------------------------------
(* The two phases against each other. *)

(* Until its reservation lapses, a reserved option is kept for the one who *)
(* reserved it: nobody buys, cancels, re-reserves or releases it.          *)
ReservationHolds ==
    [][\A rid \in DOMAIN reservations :
          LET r  == reservations[rid]
              id == r.optionId
          IN  Pending(rid) /\ block < r.expiryBlock =>
                \/ options'[id] = options[id]
                \/ options'[id] = [options[id] EXCEPT !.buyer = r.buyer,
                                                      !.status = PURCHASED]]_quoteVars

QuoteLifecycle == INSTANCE OptionLifecycle WITH
    now <- block,
    book <- [id \in DOMAIN options |-> Entry(options[id])],
    Reservable <- TRUE

(* Reservations add a detour to the lifecycle and nothing else: an option  *)
(* is reserved and sold before it expires, even if it is executed in the   *)
(* last block of the window, and everything else is as in type 0.          *)
QuoteImplementsLifecycle == QuoteLifecycle!Spec

(* Under ReleaserSpec a reservation does not block its option for ever: it *)
(* is executed or released.  (Of option 0, see the next section.)          *)
ReservationsEnd ==
    \A rid \in 0 .. MaxReservations - 1 :
        (rid < nextReservationId /\ Pending(rid) /\ ReservationExists(rid))
            ~> (rid < nextReservationId /\ ~Pending(rid))

-----------------------------------------------------------------------------
(* Statements of the documentation that the code does not keep. *)

(* docs/technical/contracts/options-pool.md, access table:                 *)
(* "`cancelReservation` | Any (after expiry)".                             *)
LapsedCanBeCancelled ==
    \A rid \in DOMAIN reservations :
        Pending(rid) /\ reservations[rid].expiryBlock <= block
            => ENABLED CancelReservation(rid)
=============================================================================
