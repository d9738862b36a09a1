------------------------------ MODULE Startup -------------------------------
(***************************************************************************)
(* The server process from its start: main.run (cmd/api-test/main.go)      *)
(* loads and validates the configuration (pkg/config/config.go), Build     *)
(* (internal/server/server.go) makes the parts it asks for, and Run and    *)
(* Close are those of module Lifecycle, whose phase is "building" before.  *)
(*                                                                         *)
(* A configuration is a record of what Validate and Build look at: url,    *)
(* fileKeys, tokens, issuer and adminURL say that a value is not empty,    *)
(* insecure that the environment has APITEST_INSECURE=1, and secret is the *)
(* length of the cookie secret.                                            *)
(***************************************************************************)
EXTENDS Lifecycle

CONSTANTS Configs,      \* the configurations that a file may hold
          NoConfig,
          MinSecret     \* bytes a session secret must have

ASSUME StartupAssumption ==
  /\ Configs \subseteq
       [url : BOOLEAN, audit : BOOLEAN, keysDB : BOOLEAN, fileKeys : BOOLEAN,
        tokens : BOOLEAN, anonymous : BOOLEAN, oidc : BOOLEAN, issuer : BOOLEAN,
        skipSignature : BOOLEAN, insecure : BOOLEAN, portal : BOOLEAN, secret : Nat,
        register : BOOLEAN, adminURL : BOOLEAN]
  /\ MinSecret \in Nat

VARIABLES
  boot,      \* where run and Build are; "run" once Run is called
  cfg,       \* the configuration that Load and Build read; NoConfig after
  migrated,  \* the tables are those this build expects
  failure    \* which return ended the process before Run

bootVars == <<boot, cfg, migrated, failure>>
svars == <<lvars, bootVars>>

BootSteps == {"load", "migrate", "open", "audit", "keys", "discover", "fetchKeys",
              "sessions", "login", "mux", "run"}

-----------------------------------------------------------------------------
(* Load.                                                                   *)

hasInboundAuthOrAnonymous(c) ==
  c.oidc \/ c.fileKeys \/ c.keysDB \/ c.tokens \/ c.anonymous

ValidateAuditOnly(c) ==
  /\ c.audit => c.url
  /\ c.portal => c.secret > 0
  /\ c.oidc => c.issuer
  /\ c.skipSignature => c.insecure
  /\ hasInboundAuthOrAnonymous(c)
  /\ c.register => c.adminURL

Validate(c) ==
  /\ c.audit \/ c.keysDB => c.url
  /\ c.portal => c.secret > 0
  /\ c.oidc => c.issuer
  /\ c.skipSignature => c.insecure
  /\ hasInboundAuthOrAnonymous(c)
  /\ c.register => c.adminURL

\* The process ends with an error, as it does whenever run returns one.  What
\* Build has made is not closed.
Fail(why) ==
  /\ failure' = why
  /\ phase' = "exited" /\ result' = "error"

bootFrame == <<vars, signals, ready, inShutdown, listener, bound, errBuf, elapsed, request>>

\* The file is missing or no YAML, or Validate refuses it.
Load ==
  /\ boot = "load" /\ phase = "building"
  /\ \/ Fail("file") /\ UNCHANGED boot
     \/ ~Validate(cfg) /\ Fail("invalid") /\ UNCHANGED boot
     \/ /\ Validate(cfg)
        /\ boot' = IF cfg.url THEN "migrate" ELSE "audit"
        /\ UNCHANGED <<failure, phase, result>>
  /\ UNCHANGED <<bootFrame, audited, pool, cfg, migrated>>

\* Before NotifyContext a signal has its default effect.
KilledEarly ==
  /\ boot = "load" /\ phase = "building"
  /\ Fail("killed")
  /\ UNCHANGED <<bootFrame, audited, pool, boot, cfg, migrated>>

-----------------------------------------------------------------------------
(* Build.                                                                  *)

At(step) == boot = step /\ phase = "building"

Go(next) == boot' = next /\ UNCHANGED <<failure, phase, result>>

\* A call that talks to another process: it succeeds or not, and not if ctx is
\* done before it.
Call(next, why) ==
  \/ ~ctxDone /\ Go(next)
  \/ Fail(why) /\ UNCHANGED boot

\* migrate.Up has no context.
MigrateUp ==
  /\ At("migrate")
  /\ \/ Go("open") /\ migrated' = TRUE
     \/ Fail("migrations") /\ UNCHANGED <<boot, migrated>>
  /\ UNCHANGED <<bootFrame, audited, pool, cfg>>

\* database.Open pings, and closes the pool it cannot ping.
OpenPool ==
  /\ At("open")
  /\ Call("audit", "database")
  /\ pool' = IF boot' = "audit" THEN "open" ELSE pool
  /\ UNCHANGED <<bootFrame, audited, cfg, migrated>>

\* NewAsyncLogger starts the worker.
MakeAudit ==
  /\ At("audit")
  /\ \/ cfg.audit /\ pool = "none" /\ Fail("audit needs url") /\ UNCHANGED <<boot, audited>>
     \/ /\ cfg.audit => pool = "open"
        /\ audited' = cfg.audit
        /\ Go("keys")
  /\ UNCHANGED <<bootFrame, pool, cfg, migrated>>

\* The key store, and the bearer tokens, which need nothing.
MakeKeys ==
  /\ At("keys")
  /\ \/ cfg.keysDB /\ pool = "none" /\ Fail("keys need url") /\ UNCHANGED boot
     \/ /\ cfg.keysDB => pool = "open"
        /\ Go(IF cfg.oidc THEN "discover" ELSE "sessions")
  /\ UNCHANGED <<bootFrame, audited, pool, cfg, migrated>>

\* NewOIDC: the discovery document, then the keys.
Discover ==
  /\ At("discover")
  /\ Call("fetchKeys", "discovery")
  /\ UNCHANGED <<bootFrame, audited, pool, cfg, migrated>>

FetchKeys ==
  /\ At("fetchKeys")
  /\ Call("sessions", "keys")
  /\ UNCHANGED <<bootFrame, audited, pool, cfg, migrated>>

\* buildPortal up to NewBrowserAuth.  The secret of the login cookie is derived
\* and long enough.
MakeSessions ==
  /\ At("sessions")
  /\ \/ ~cfg.portal /\ Go("mux")
     \/ /\ cfg.portal /\ cfg.secret < MinSecret
        /\ Fail("secret") /\ UNCHANGED boot
     \/ /\ cfg.portal /\ cfg.secret >= MinSecret
        /\ Go(IF cfg.oidc THEN "login" ELSE "mux")
  /\ UNCHANGED <<bootFrame, audited, pool, cfg, migrated>>

\* NewBrowserAuth reads the discovery document again.
MakeLogin ==
  /\ At("login")
  /\ Call("mux", "endpoints")
  /\ UNCHANGED <<bootFrame, audited, pool, cfg, migrated>>

\* BuildMux, and run calls Run, which reads no more of the configuration than
\* its durations.  (Registry, document and mux are those of module Routing.)
CallRun ==
  /\ At("mux")
  /\ boot' = "run" /\ phase' = "serving" /\ cfg' = NoConfig
  /\ UNCHANGED <<bootFrame, audited, pool, result, migrated, failure>>

\* A signal cancels the context that Build and Run share.
SignalWhileBuilding ==
  /\ phase = "building" /\ boot # "load"
  /\ signals < MaxSignals
  /\ signals' = signals + 1
  /\ UNCHANGED <<vars, phase, result, ready, inShutdown, listener, bound, errBuf,
                 elapsed, audited, pool, request, bootVars>>

-----------------------------------------------------------------------------
SInit ==
  /\ Init
  /\ phase = "building" /\ result = "none"
  /\ signals = 0 /\ ready = TRUE /\ inShutdown = FALSE
  /\ listener = "starting" /\ bound = FALSE /\ errBuf = FALSE /\ elapsed = FALSE
  /\ audited = FALSE /\ pool = "none"
  /\ request = [r \in Events |-> "none"]
  /\ boot = "load" /\ cfg \in Configs /\ migrated = FALSE /\ failure = "none"

BootStep ==
  \/ Load \/ MigrateUp \/ OpenPool \/ MakeAudit \/ MakeKeys \/ Discover
  \/ FetchKeys \/ MakeSessions \/ MakeLogin \/ CallRun

SNext ==
  \/ BootStep
  \/ KilledEarly
  \/ SignalWhileBuilding
  \/ boot = "run" /\ LNext /\ UNCHANGED bootVars

\* Build is scheduled and its calls end: pings and fetches have timeouts, and a
\* migration ends because the database answers or the connection breaks.
SSpec == SInit /\ [][SNext]_svars
SFairSpec == SSpec /\ WF_svars(BootStep) /\ LFairness

-----------------------------------------------------------------------------
\* The step's part of the next property.
HonoursConfig ==
  /\ failure' # failure =>
       \/ failure' \in {"file", "killed", "migrations", "database", "discovery",
                        "keys", "endpoints"}
       \/ failure' = "invalid" /\ ~Validate(cfg)
       \/ failure' = "secret" /\ cfg.portal /\ cfg.secret < MinSecret
  /\ boot # "run" /\ boot' = "run" =>
       /\ Validate(cfg)
       /\ (pool = "open" /\ migrated <=> cfg.url) /\ (pool = "none" <=> ~cfg.url)
       /\ audited <=> cfg.audit
       /\ cfg.keysDB => pool = "open"

\* "Validate fails fast on impossible or insecure configurations": if Build ends
\* the process after Validate has accepted the configuration, then a call to the
\* database or the provider failed or was cancelled, or the cookie secret is too
\* short, which Validate does not look at.  If Run is called, what was configured
\* exists: the pool over migrated tables, and the audit logger over the pool.
BuildHonoursConfig == [][HonoursConfig]_svars

(* The facts that make the properties inductive, together with LInv.        *)

\* Before Run, and after a failed Build, the process serves nothing.
NotServing ==
  /\ Init
  /\ phase \in {"building", "exited"}
  /\ result = IF phase = "building" THEN "none" ELSE "error"
  /\ signals \in 0..MaxSignals
  /\ ready = TRUE /\ inShutdown = FALSE
  /\ listener = "starting" /\ bound = FALSE /\ errBuf = FALSE /\ elapsed = FALSE
  /\ audited \in BOOLEAN
  /\ pool \in IF audited THEN {"open"} ELSE {"none", "open"}
  /\ request = [r \in Events |-> "none"]

\* What each step of Build may rely on.
BuildOrder ==
  /\ cfg \in Configs
  /\ boot \in BootSteps \ {"run"}
  /\ boot # "load" => Validate(cfg)
  /\ boot \in {"migrate", "open"} => cfg.url
  /\ boot \in {"load", "migrate"} => ~migrated
  /\ boot = "open" => migrated
  /\ boot \in {"load", "migrate", "open"} => pool = "none" /\ ~audited
  /\ boot \notin {"load", "migrate", "open"} =>
       /\ migrated <=> cfg.url
       /\ pool = IF cfg.url THEN "open" ELSE "none"
  /\ boot \notin {"load", "migrate", "open", "audit"} => (audited <=> cfg.audit)

SInv ==
  \/ boot = "run" /\ LInv
  \/ NotServing /\ BuildOrder /\ migrated \in BOOLEAN
=============================================================================
