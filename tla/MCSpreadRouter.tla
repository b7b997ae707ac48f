--------------------------- MODULE MCSpreadRouter ---------------------------
(***************************************************************************)
(* Instances of the router and its pool for TLC.                           *)
(***************************************************************************)
EXTENDS SpreadRouter

CONSTANTS alice, bob
=============================================================================
