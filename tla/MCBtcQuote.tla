----------------------------- MODULE MCBtcQuote -----------------------------
(***************************************************************************)
(* Instances of the OP20/BTC pool for TLC.                                 *)
(***************************************************************************)
EXTENDS BtcQuoteProperties, TLC

CONSTANTS alice, bob

(* Only alice registers a key, so only her options are reserved.           *)
AliceOneKey == [u \in Users |-> IF u = alice THEN {"k1"} ELSE {}]
EachOneKey == [u \in Users |-> {"k1"}]

(* One price for ever; and one that rises in block 2.                      *)
RisingPrice == [b \in 0 .. MaxBlock |-> IF b < 2 THEN {10} ELSE {20}]
SteadyPrice == [b \in 0 .. MaxBlock |-> {10}]
=============================================================================
