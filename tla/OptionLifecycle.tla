--------------------------- MODULE OptionLifecycle ---------------------------
(***************************************************************************)
(* What a pool promises about one option, whichever contract keeps it: the *)
(* state machine of docs/technical/contracts/architecture.md as the code   *)
(* of the three pools realises it, without tokens, fees or callers.        *)
(*                                                                         *)
(* book[id] holds the option's status, its holder, and its terms (writer,  *)
(* expiry block and everything else fixed when it was written).  One       *)
(* transaction may move several options (the batch calls), and each of     *)
(* them must make a legal move of its own.                                 *)
(***************************************************************************)
EXTENDS PoolMath

CONSTANTS
    NoOne,         \* Address.zero(): no holder yet
    GracePeriod,   \* blocks after expiry in which the holder may exercise
    Reservable     \* whether the pool takes reservations (type 1 only)

VARIABLES
    now,    \* the block the next transaction executes in
    book    \* id -> [status, holder, terms]

lifecycleVars == <<now, book>>

Ids == DOMAIN book
Expiry(id)   == book[id].terms.expiryBlock
GraceEnd(id) == Expiry(id) + GracePeriod

(* From status s to status t, the terms and everything else preserved. *)
Moves(id, s, t) ==
    /\ book[id].status = s
    /\ book'[id].status = t
    /\ book'[id].terms = book[id].terms

KeepsHolder(id) == book'[id].holder = book[id].holder

(* A buyer who is neither nobody nor the writer becomes the holder. *)
NewHolder(id) ==
    book'[id].holder \notin {NoOne, book[id].terms.writer}

Withdraw(id) == Moves(id, OPEN, CANCELLED) /\ KeepsHolder(id)

Sell(id) ==
    /\ Moves(id, OPEN, PURCHASED)
    /\ now < Expiry(id)
    /\ NewHolder(id)

Reserve(id) ==
    /\ Reservable
    /\ Moves(id, OPEN, RESERVED)
    /\ now < Expiry(id)
    /\ KeepsHolder(id)

Release(id) == Moves(id, RESERVED, OPEN) /\ KeepsHolder(id)

SellReserved(id) ==
    /\ Moves(id, RESERVED, PURCHASED)
    /\ now < Expiry(id)
    /\ NewHolder(id)

Assign(id) ==
    /\ Moves(id, PURCHASED, PURCHASED)
    /\ now < GraceEnd(id)
    /\ book'[id].holder \notin {NoOne, book[id].holder}

Exercise(id) ==
    /\ Moves(id, PURCHASED, EXERCISED)
    /\ Expiry(id) <= now
    /\ now < GraceEnd(id)
    /\ KeepsHolder(id)

Lapse(id) ==
    /\ Moves(id, PURCHASED, EXPIRED)
    /\ GraceEnd(id) <= now
    /\ KeepsHolder(id)

LegalMove(id) ==
    \/ Withdraw(id) \/ Sell(id) \/ Reserve(id) \/ Release(id)
    \/ SellReserved(id) \/ Assign(id) \/ Exercise(id) \/ Lapse(id)

Listed(id) ==
    /\ book'[id].status = OPEN
    /\ book'[id].holder = NoOne
    /\ now < book'[id].terms.expiryBlock

Tick == now' = now + 1 /\ UNCHANGED book

Transact ==
    /\ UNCHANGED now
    /\ Ids \subseteq DOMAIN book'
    /\ \A id \in Ids : book'[id] = book[id] \/ LegalMove(id)
    /\ \A id \in DOMAIN book' \ Ids : Listed(id)

Init == now \in Nat /\ DOMAIN book = {}

Next == Tick \/ Transact

Spec == Init /\ [][Next]_lifecycleVars
=============================================================================
