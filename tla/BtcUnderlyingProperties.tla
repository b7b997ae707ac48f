----------------------- MODULE BtcUnderlyingProperties -----------------------
(***************************************************************************)
(* What the BTC/OP20 pool must guarantee.                                  *)
(***************************************************************************)
EXTENDS BtcUnderlyingPool, OptionsPoolProperties

(* What the live puts lock; a live call locks nothing in the pool. *)
PutsLocked ==
    SumUpTo([id \in DOMAIN options |->
        IF options[id].optionType = PUT
        THEN LockedBy(options[id], PremiumToken) ELSE 0], nextId)

(* Puts are backed: the pool holds the strike value of every put that can  *)
(* still be cancelled, exercised or settled, and nothing more unless fees  *)
(* are directed to the pool itself, although its calls share the same ids, *)
(* statuses and fees and escrow nothing with it.                           *)
PutsBacked ==
    /\ balance[PremiumToken][Pool] >= PutsLocked
    /\ Pool \notin FeeRecipients => balance[PremiumToken][Pool] = PutsLocked

-----------------------------------------------------------------------------
(* Bitcoin the pool relies on but does not hold. *)

(* A call whose holder, present or future, may still exercise it. *)
Exercisable(id) ==
    Live(options[id]) /\ block < GraceEnd(options[id])

EscrowNeeded(s) ==
    SumUpTo([id \in DOMAIN options |->
        IF id \in DOMAIN escrowOf /\ escrowOf[id].script = s /\ Exercisable(id)
        THEN escrowOf[id].amount ELSE 0], nextId)

(* The values of the outputs to a script of S, all and unspent ones. *)
PaidTo(S) ==
    SumUpTo([i \in 0 .. Len(utxos) - 1 |->
        IF utxos[i + 1].script \in S THEN utxos[i + 1].value ELSE 0], Len(utxos))

UnspentAt(s) ==
    SumUpTo([i \in 0 .. Len(utxos) - 1 |->
        IF utxos[i + 1].script = s /\ ~utxos[i + 1].spent
        THEN utxos[i + 1].value ELSE 0], Len(utxos))

(* Calls are backed: until the last block in which it can be exercised,    *)
(* each call has its own bitcoin behind it, unspent.  One output never     *)
(* stands behind two calls, even when one transaction writes both, and the *)
(* writer cannot take it back while the holder may still exercise.         *)
CallsBacked ==
    \A id \in DOMAIN escrowOf :
        EscrowNeeded(escrowOf[id].script) <= UnspentAt(escrowOf[id].script)

(* What the exercised puts of writer w were to bring him. *)
PutsExercised(w) ==
    SumUpTo([id \in DOMAIN options |->
        IF /\ options[id].writer = w /\ options[id].optionType = PUT
           /\ options[id].status = EXERCISED
        THEN options[id].underlyingAmount ELSE 0], nextId)

(* Puts are paid: the bitcoin of every exercised put reached a script its  *)
(* writer can spend, once per put, whichever keys he registered meanwhile. *)
PutsPaidInBitcoin ==
    \A w \in Users :
        PutsExercised(w) <=
            PaidTo({Bridge!CsvScript(k, CSV_BLOCKS) : k \in KeysOf[w]})

(* The type 2 pool makes the same moves as the type 0 pool: its calls,     *)
(* which move no collateral, still go through OPEN, PURCHASED and one of   *)
(* the terminal statuses, inside the same block windows.                   *)
UnderlyingImplementsLifecycle == Lifecycle!Spec

(* Under ReclaimSpec no collateral is lost: whatever became of the call,   *)
(* its escrowed bitcoin is spent in the end, though the pool itself never  *)
(* pays it out and the writer may have registered other keys since.        *)
EscrowsEnd ==
    \A i \in 1 .. MaxOutputs :
        (i \in DOMAIN utxos /\ utxos[i].script \notin CsvScripts)
            ~> (i \in DOMAIN utxos /\ utxos[i].spent)
=============================================================================
