---------------------------- MODULE MCMultiProof ----------------------------
(* Trees of one to five leaves, each slot zero or not; the second one is    *)
(* replaced by zero. *)
EXTENDS ProverGuests

CONSTANTS a, b, c, d, e, v, x, y, z

Before == <<a, b, c, d, e>>
After == <<v, Zero, x, y, z>>
UpToFive == 1..5
UpToFour == 1..4
=============================================================================
