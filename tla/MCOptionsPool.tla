---------------------------- MODULE MCOptionsPool ----------------------------
(***************************************************************************)
(* Instances of the OP20 pool for TLC.                                     *)
(***************************************************************************)
EXTENDS OptionViews

CONSTANTS alice, bob, carol
=============================================================================
