--------------------------- MODULE MCAsyncLogger ----------------------------
(* AsyncLogger with a few events and a channel smaller than their number.  *)
EXTENDS AsyncLogger
=============================================================================
