---------------------------- MODULE MCLifecycle -----------------------------
(* A small instance of Lifecycle: two requests and a channel of one, so that *)
(* a drop, a buffered event and a write in flight can meet a shutdown, and   *)
(* one request can outlive the grace period while the other is settled.      *)
EXTENDS Lifecycle
=============================================================================
