---------------------------- MODULE MCJWKSCache -----------------------------
(* A small instance of JWKSCache: two callers that call again and again, so  *)
(* that flights follow each other and one can miss before a flight and ask    *)
(* after it; one rotating key id; a clock that outlives a grace period.      *)
EXTENDS JWKSCache
=============================================================================
