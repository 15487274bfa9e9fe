------------------------- MODULE MCThreadedDecoder -------------------------
(***************************************************************************)
(* Model checking of ThreadedDecoder: two discontinuities are enough for a *)
(* completion to be two generations old, and three selections after the    *)
(* seed frame for a queued, a running, a waiting and a shown one to exist  *)
(* together.                                                               *)
(***************************************************************************)
EXTENDS ThreadedDecoder
=============================================================================
