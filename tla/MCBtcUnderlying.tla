--------------------------- MODULE MCBtcUnderlying ---------------------------
(***************************************************************************)
(* Instances of the BTC/OP20 pool for TLC.                                 *)
(***************************************************************************)
EXTENDS BtcUnderlyingProperties, TLC

CONSTANTS alice, bob

(* Alice may change to a second key; bob has one. *)
TwoKeysAndOne == [u \in Users |-> IF u = alice THEN {"a1", "a2"} ELSE {"b1"}]
=============================================================================
