--------------------------- MODULE MCBrowserLogin ---------------------------
(* A small instance of BrowserLogin: two tabs, each callback sent up to two  *)
(* times, one restart, and a clock that outlives cookie and ledger entry.    *)
EXTENDS BrowserLogin, TLC

Symmetry == Permutations(Logins) \cup Permutations(Sends)
=============================================================================
