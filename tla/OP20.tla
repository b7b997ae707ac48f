-------------------------------- MODULE OP20 --------------------------------
(***************************************************************************)
(* The OP20 token as the pools use it (base.ts _transferFrom, _transfer):  *)
(* every movement is transferFrom(from, to, amount), which either moves    *)
(* the amount or fails, and a failure reverts the caller's transaction.    *)
(* A ledger is the balance function of one token.  Allowances are not      *)
(* kept: a missing allowance is one more way for a call to revert.         *)
(***************************************************************************)
EXTENDS Naturals

CanPay(ledger, from, amount) == ledger[from] >= amount

Moved(ledger, from, to, amount) ==
    LET debited == [ledger EXCEPT ![from] = @ - amount]
    IN  [debited EXCEPT ![to] = @ + amount]
=============================================================================
