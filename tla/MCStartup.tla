----------------------------- MODULE MCStartup ------------------------------
(* A small instance of Startup: every combination of the settings that        *)
(* Validate or Build compare with each other, and secrets that are missing,   *)
(* too short and long enough.  Two requests and a channel of one, so that a   *)
(* drop, a buffered event and a write in flight can meet a shutdown, and one  *)
(* request can outlive the grace period while the other is settled.           *)
EXTENDS Startup

MCConfigs ==
  {c \in [url : BOOLEAN, audit : BOOLEAN, keysDB : BOOLEAN, fileKeys : {FALSE},
          tokens : BOOLEAN, anonymous : BOOLEAN, oidc : BOOLEAN, issuer : BOOLEAN,
          skipSignature : BOOLEAN, insecure : BOOLEAN, portal : BOOLEAN, secret : {0, 1, 2},
          register : BOOLEAN, adminURL : BOOLEAN] :
     /\ c.issuer => c.oidc
     /\ c.insecure => c.skipSignature
     /\ c.adminURL => c.register
     /\ c.secret > 0 => c.portal
     /\ c.tokens => ~c.anonymous}
=============================================================================
