---------------------------- MODULE IndexedView ----------------------------
(***************************************************************************)
(* What an index promises its readers: whatever it shows is what a prefix  *)
(* of the chain says, nothing missing and nothing twice, and the prefix    *)
(* only gets longer.  How the prefix is read is left open.                 *)
(***************************************************************************)
EXTENDS Naturals, Sequences

CONSTANT Says(_)   \* what a sequence of blocks says

VARIABLES
    blocks,   \* the chain
    upto,     \* the prefix the index has taken in
    shown     \* what it shows

viewVars == <<blocks, upto, shown>>

Init == blocks = <<>> /\ upto = 0 /\ shown = Says(<<>>)

Grow ==
    /\ Len(blocks') = Len(blocks) + 1
    /\ SubSeq(blocks', 1, Len(blocks)) = blocks
    /\ UNCHANGED <<upto, shown>>

Advance ==
    /\ \E n \in upto + 1 .. Len(blocks) :
          upto' = n /\ shown' = Says(SubSeq(blocks, 1, n))
    /\ UNCHANGED blocks

Next == Grow \/ Advance
Spec == Init /\ [][Next]_viewVars
=============================================================================
