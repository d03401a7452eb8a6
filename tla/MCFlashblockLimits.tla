------------------------- MODULE MCFlashblockLimits -------------------------
(***************************************************************************)
(* FlashblockLimits on a job of three to four flashblocks, with a deadline *)
(* and a gas limit that do not divide evenly.                              *)
(***************************************************************************)
EXTENDS FlashblockLimits
=============================================================================
