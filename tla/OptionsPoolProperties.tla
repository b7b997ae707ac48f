------------------------ MODULE OptionsPoolProperties ------------------------
(***************************************************************************)
(* What the OP20 pool must guarantee.                                      *)
(***************************************************************************)
EXTENDS OptionsPool

Live(o) == o.status \in {OPEN, RESERVED, PURCHASED}

(* Collateral the pool owes in token t for option o. *)
LockedBy(o, t) ==
    IF Live(o) /\ CollateralToken(o) = t THEN Collateral(o) ELSE 0

LockedIn(opts, n, t) ==
    SumUpTo([id \in 0 .. n - 1 |-> LockedBy(opts[id], t)], n)
Locked(t) == LockedIn(options, nextId, t)

(* Solvency: whatever sequence of writes, rolls, batches, exercises and    *)
(* settlements led here, the pool holds at least the collateral of every   *)
(* option that can still be cancelled, exercised or settled, so none of    *)
(* the transfers out of the pool can fail.                                 *)
Solvent == \A t \in Tokens : balance[t][Pool] >= Locked(t)

(* No dust: unless fees are directed to the pool itself, the pool holds    *)
(* exactly the live collateral: rounding of fees and strike values never   *)
(* strands tokens that no method can pay out.                              *)
NothingStranded ==
    Pool \notin FeeRecipients =>
        \A t \in Tokens : balance[t][Pool] = Locked(t)

-----------------------------------------------------------------------------
(* The lifecycle the pool implements. *)

Terms(o) == [writer |-> o.writer, strikePrice |-> o.strikePrice,
             underlyingAmount |-> o.underlyingAmount, premium |-> o.premium,
             expiryBlock |-> o.expiryBlock, optionType |-> o.optionType]

Entry(o) == [status |-> o.status, holder |-> o.buyer, terms |-> Terms(o)]

Lifecycle == INSTANCE OptionLifecycle WITH
    now <- block,
    book <- [id \in DOMAIN options |-> Entry(options[id])],
    Reservable <- FALSE

(* Every transaction, batches and rolls included, moves each option along  *)
(* the lifecycle's edges, inside that edge's block window, with the terms  *)
(* frozen at writing: exercise and settlement never overlap, terminal      *)
(* statuses are final, an option is sold once and only to another address. *)
ImplementsLifecycle == Lifecycle!Spec

-----------------------------------------------------------------------------
(* Whose money moves. *)

(* A writer's stake in token t: his balance and his escrowed collateral. *)
OwnLocked(u, t) ==
    SumUpTo([id \in DOMAIN options |->
        IF options[id].writer = u THEN LockedBy(options[id], t) ELSE 0], nextId)
Stake(u, t) == balance[t][u] + OwnLocked(u, t)

Turns(id, s, r) == options[id].status = s /\ options'[id].status = r

(* u is the counterparty who pays in this step. *)
PaysAsHolder(u) == \E id \in DOMAIN options :
    /\ Turns(id, OPEN, PURCHASED) \/ Turns(id, PURCHASED, EXERCISED)
    /\ options'[id].buyer = u

(* The cancel fees u owes in token t for the options the step cancels. *)
FeesCharged(u, t) ==
    SumUpTo([id \in DOMAIN options |->
        IF /\ options[id].writer = u
           /\ Turns(id, OPEN, CANCELLED)
           /\ CollateralToken(options[id]) = t
        THEN CancelFee(options[id]) ELSE 0], nextId)

(* What an exercise takes from the writer of o in token t, and pays him. *)
Surrendered(o, t) == IF CollateralToken(o) = t THEN Collateral(o) ELSE 0
Delivered(o, t) ==
    (IF o.optionType = CALL /\ t = PremiumToken THEN StrikeValue(o) ELSE 0)
    + (IF o.optionType = PUT /\ t = Underlying THEN o.underlyingAmount ELSE 0)

ExerciseEffect(u, t) ==
    SumUpTo([id \in DOMAIN options |->
        IF options[id].writer = u /\ Turns(id, PURCHASED, EXERCISED)
        THEN Delivered(options[id], t) - Surrendered(options[id], t)
        ELSE 0], nextId)

(* Writers are made whole: across any step that u does not pay for as a    *)
(* buyer or exercising holder, his stake falls by no more than the         *)
(* published cancel fees of his own unsold options plus collateral swapped *)
(* for its full price in an exercise.  Writing, rolling (in either         *)
(* direction) and any mixture of options in a batch keep the value.        *)
WritersMadeWhole ==
    [][\A u \in Users, t \in Tokens :
          ~PaysAsHolder(u) =>
              Stake(u, t)' >= Stake(u, t) - FeesCharged(u, t)
                                + ExerciseEffect(u, t)]_vars

(* Under KeeperSpec, no sold option is forgotten: it is exercised in its   *)
(* grace period or settled after it, and the writer's collateral is freed. *)
SoldOptionsResolve ==
    \A id \in 0 .. MaxOptions - 1 :
        (Exists(id) /\ options[id].status = PURCHASED)
            ~> (Exists(id) /\ options[id].status \in {EXERCISED, EXPIRED})
=============================================================================
