--------------------------- MODULE MCInboundAuth ----------------------------
(* A small instance of InboundAuth: two concurrent requests, one database    *)
(* key, and requests that present each kind of credential, two at once, or   *)
(* none.                                                                     *)
EXTENDS InboundAuth

CONSTANTS fileKey, dbKey, otherKey

V1(h, q, b, pre) ==
  [surface |-> "v1", header |-> h, query |-> q, bearer |-> b, pre |-> pre,
   session |-> FALSE]

Portal(h, b, s) ==
  [surface |-> "portal", header |-> h, query |-> NoKey, bearer |-> b, pre |-> FALSE,
   session |-> s]

MCRequests ==
  { V1(dbKey, NoKey, "none", FALSE),
    V1(otherKey, dbKey, "static", FALSE),
    V1(NoKey, dbKey, "jwt", TRUE),
    V1(NoKey, fileKey, "wrong", FALSE),
    V1(NoKey, NoKey, "jwt", TRUE),
    V1(NoKey, NoKey, "badJwt", FALSE),
    V1(NoKey, NoKey, "static", FALSE),
    V1(NoKey, NoKey, "none", TRUE),
    V1(NoKey, NoKey, "none", FALSE),
    V1(Blank, NoKey, "blank", TRUE),
    Portal(dbKey, "none", FALSE),
    Portal(NoKey, "wrong", FALSE),
    Portal(otherKey, "none", TRUE),
    Portal(NoKey, "none", FALSE) }
=============================================================================
