---------------------------- MODULE MCTradeModals ----------------------------
(***************************************************************************)
(* A pool, its option chain, the trade wizard and one trader's modals.     *)
(***************************************************************************)
EXTENDS TradeModals

CONSTANTS alice, bob

Form(type, strike, premium, days) ==
    [optionType |-> type, strikePrice |-> strike, underlyingAmount |-> 3,
     premium |-> premium, days |-> days, sold |-> FALSE]

OneOffer == {Form(PUT, 18, 40, 1)}

(* A call for sale and a put the trader holds. *)
OneBook ==
    {<<Form(CALL, 25, 40, 1), [Form(PUT, 18, 30, 1) EXCEPT !.sold = TRUE]>>}
=============================================================================
