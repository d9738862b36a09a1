---------------------------- MODULE InboundAuth -----------------------------
(***************************************************************************)
(* Authentication of requests: the Identity middleware in front of /v1 and *)
(* the portal's middleware (pkg/httpmw/identity.go,                        *)
(* pkg/httpsrv/portalauth.go), the chain of authenticators                 *)
(* (pkg/auth/inbound), and the API keys in Postgres (pkg/apikeys), whose   *)
(* lookup holds one pool connection and needs a second one, while keys are *)
(* created, deleted and expire.                                            *)
(*                                                                         *)
(* A request is a record: surface ("v1" or "portal"), header and query     *)
(* (the API key presented there, Blank or NoKey), bearer ("none", "blank", *)
(* "jwt", "badJwt", "static", "wrong"), pre (the portal has put an         *)
(* identity on the context, as Try-It and replay do) and session (a valid  *)
(* session cookie).  "jwt" and "badJwt" look like a JWT, and "jwt"         *)
(* verifies (how is JWKSCache's subject).  Key management in the portal    *)
(* borrows a connection for one statement only.                            *)
(***************************************************************************)
EXTENDS Naturals, FiniteSets

CONSTANTS Callers,         \* request goroutines
          Requests,        \* the requests they may carry
          FileKeys,        \* API keys of the config file
          DBKeys,          \* API keys that the portal may create
          NoKey, Blank,    \* nothing, and only white space
          MaxConns,        \* size of the pool
          OIDCEnabled, AllowAnonymous

ASSUME AuthAssumption ==
  /\ MaxConns \in Nat \ {0}
  /\ Requests # {}
  /\ FileKeys \cap DBKeys = {}
  /\ {NoKey, Blank} \cap (FileKeys \cup DBKeys) = {}
  /\ OIDCEnabled \in BOOLEAN /\ AllowAnonymous \in BOOLEAN

VARIABLES
  pc,        \* [Callers -> States]
  req,       \* [Callers -> Requests]: the request of each caller
  rows,      \* [Callers -> SUBSET DBKeys]: what the caller's SELECT returned
  verdict,   \* [Callers -> Verdicts]: how the request was answered
  free,      \* idle connections of the pool
  live,      \* keys with an unexpired row
  gone,      \* keys that were deleted or have expired
  \* History: keys live at some instant, and at every instant, of the request.
  liveOnce, liveAlways

vars == <<pc, req, rows, verdict, free, live, gone, liveOnce, liveAlways>>
keyVars == <<live, gone, liveOnce, liveAlways>>

States == {"idle", "key", "wantConn", "scan", "wantTouch", "touch",
           "oidc", "bearer", "end"}
Refusals == {"missing", "invalid", "error"}
Verdicts == {"none", "preset", "session", "apikey", "oidc", "bearer", "anonymous"}
              \cup Refusals

\* What the authenticators find once they have trimmed white space; the header
\* wins over the query.
Candidate(q) == CASE q.header \notin {NoKey, Blank} -> q.header
                  [] q.query \notin {NoKey, Blank} -> q.query
                  [] OTHER -> NoKey
extractBearer(q) == IF q.bearer = "blank" THEN "none" ELSE q.bearer

\* The middlewares' own tests, which do not trim.
hasInboundCredential(q) == q.header # NoKey \/ q.query # NoKey \/ q.bearer # "none"
hasCredential(q) == q.header # NoKey \/ q.bearer # "none"

\* The middleware's answer.  Identity passes the chain's verdict on; the portal
\* refuses the anonymous identity, and answers 401 whatever the error.
Decide(p, v) ==
  /\ pc' = [pc EXCEPT ![p] = "idle"]
  /\ rows' = [rows EXCEPT ![p] = {}]
  /\ verdict' = [verdict EXCEPT ![p] =
                   IF req[p].surface = "portal" /\ v \in Refusals \cup {"anonymous"}
                   THEN "missing" ELSE v]

-----------------------------------------------------------------------------
(* The middlewares, up to the chain.                                       *)

Begin(p, q) ==
  /\ pc[p] = "idle"
  /\ req' = [req EXCEPT ![p] = q]
  /\ liveOnce' = [liveOnce EXCEPT ![p] = live]
  /\ liveAlways' = [liveAlways EXCEPT ![p] = live]
  /\ LET v == CASE q.surface = "v1" /\ q.pre /\ ~hasInboundCredential(q) -> "preset"
                  [] q.surface = "portal" /\ q.session -> "session"
                  [] q.surface = "portal" /\ ~q.session /\ ~hasCredential(q) -> "missing"
                  [] OTHER -> "none"
     IN  /\ verdict' = [verdict EXCEPT ![p] = v]
         /\ pc' = IF v = "none" THEN [pc EXCEPT ![p] = "key"] ELSE pc
  /\ UNCHANGED <<rows, free, live, gone>>

-----------------------------------------------------------------------------
(* The chain: API key, then OIDC, then static bearer, then anonymous.      *)

CheckKeyFallingThrough(p) ==
  /\ pc[p] = "key"
  /\ \/ /\ Candidate(req[p]) \in FileKeys
        /\ Decide(p, "apikey")
     \/ /\ Candidate(req[p]) \notin FileKeys
        /\ pc' = [pc EXCEPT ![p] = "oidc"]
        /\ UNCHANGED <<rows, verdict>>
  /\ UNCHANGED <<req, free, keyVars>>

\* The file store answers at once; the database store comes second.
CheckKey(p) ==
  LET key == Candidate(req[p])
  IN  /\ pc[p] = "key"
      /\ \/ /\ key \in FileKeys
            /\ Decide(p, "apikey")
         \/ /\ key \notin FileKeys
            /\ pc' = [pc EXCEPT ![p] = IF key = NoKey THEN "oidc" ELSE "wantConn"]
            /\ UNCHANGED <<rows, verdict>>
      /\ UNCHANGED <<req, free, keyVars>>

\* The OIDC authenticator passes on what does not look like a JWT; a JWT that
\* would verify is invalid all the same while its key cannot be fetched.
CheckOIDC(p) ==
  LET b == extractBearer(req[p])
  IN  /\ pc[p] = "oidc"
      /\ \/ /\ ~OIDCEnabled \/ b \notin {"jwt", "badJwt"}
            /\ pc' = [pc EXCEPT ![p] = "bearer"]
            /\ UNCHANGED <<rows, verdict>>
         \/ OIDCEnabled /\ b = "jwt" /\ Decide(p, "oidc")
         \/ OIDCEnabled /\ b \in {"jwt", "badJwt"} /\ Decide(p, "invalid")
      /\ UNCHANGED <<req, free, keyVars>>

CheckBearer(p) ==
  LET b == extractBearer(req[p])
  IN  /\ pc[p] = "bearer"
      /\ \/ /\ b = "none"
            /\ pc' = [pc EXCEPT ![p] = "end"]
            /\ UNCHANGED <<rows, verdict>>
         \/ /\ b # "none"
            /\ Decide(p, IF b = "static" THEN "bearer" ELSE "invalid")
      /\ UNCHANGED <<req, free, keyVars>>

\* No authenticator found its credential.
EndOfChain(p) ==
  /\ pc[p] = "end"
  /\ Decide(p, IF AllowAnonymous THEN "anonymous" ELSE "missing")
  /\ UNCHANGED <<req, free, keyVars>>

-----------------------------------------------------------------------------
(* Store.Authenticate: the SELECT keeps its connection until return.       *)

SelectCached(p) ==
  /\ pc[p] = "wantConn" /\ free > 0
  /\ free' = free - 1
  /\ rows' = [rows EXCEPT ![p] = live \cup gone]
  /\ pc' = [pc EXCEPT ![p] = "scan"]
  /\ UNCHANGED <<req, verdict, keyVars>>

Select(p) ==
  /\ pc[p] = "wantConn" /\ free > 0
  /\ free' = free - 1
  /\ rows' = [rows EXCEPT ![p] = live]
  /\ pc' = [pc EXCEPT ![p] = "scan"]
  /\ UNCHANGED <<req, verdict, keyVars>>

SelectFailsAsInvalid(p) ==
  /\ pc[p] = "wantConn"
  /\ Decide(p, "invalid")
  /\ UNCHANGED <<req, free, keyVars>>

\* The database or the request's context fails before a row is read.
SelectFails(p) ==
  /\ pc[p] = "wantConn"
  /\ Decide(p, "error")
  /\ UNCHANGED <<req, free, keyVars>>

ScanLeaking(p) ==
  /\ pc[p] = "scan"
  /\ \/ /\ Candidate(req[p]) \in rows[p]
        /\ pc' = [pc EXCEPT ![p] = "wantTouch"]
        /\ UNCHANGED <<rows, verdict>>
     \/ /\ Candidate(req[p]) \notin rows[p]
        /\ Decide(p, "invalid")
  /\ UNCHANGED <<req, free, keyVars>>

\* The bcrypt comparisons: a match goes on to touchLastUsed, no match is
\* ErrNotFound and a broken result set is an error.
Scan(p) ==
  /\ pc[p] = "scan"
  /\ \/ /\ Candidate(req[p]) \in rows[p]
        /\ pc' = [pc EXCEPT ![p] = "wantTouch"]
        /\ UNCHANGED <<rows, verdict, free>>
     \/ /\ Candidate(req[p]) \notin rows[p]
        /\ Decide(p, "invalid")
        /\ free' = free + 1
     \/ /\ Decide(p, "error")
        /\ free' = free + 1
  /\ UNCHANGED <<req, keyVars>>

\* touchLastUsed takes a connection of its own.
TouchAcquire(p) ==
  /\ pc[p] = "wantTouch" /\ free > 0
  /\ free' = free - 1
  /\ pc' = [pc EXCEPT ![p] = "touch"]
  /\ UNCHANGED <<req, rows, verdict, keyVars>>

\* Updated or failed, both connections go back and the key is accepted.
TouchDone(p) ==
  /\ pc[p] = "touch"
  /\ free' = free + 2
  /\ Decide(p, "apikey")
  /\ UNCHANGED <<req, keyVars>>

\* The client goes away while touchLastUsed waits for its connection.
TouchCancelled(p) ==
  /\ pc[p] = "wantTouch"
  /\ free' = free + 1
  /\ Decide(p, "apikey")
  /\ UNCHANGED <<req, keyVars>>

-----------------------------------------------------------------------------
(* The portal's key management, and expiry.                                *)

Create(k) ==
  /\ free > 0
  /\ k \notin live \cup gone
  /\ live' = live \cup {k}
  /\ liveOnce' = [p \in Callers |-> liveOnce[p] \cup {k}]
  /\ UNCHANGED <<pc, req, rows, verdict, free, gone, liveAlways>>

RemoveRow(k) ==
  /\ k \in live
  /\ live' = live \ {k}
  /\ gone' = gone \cup {k}
  /\ liveAlways' = [p \in Callers |-> liveAlways[p] \ {k}]
  /\ UNCHANGED <<pc, req, rows, verdict, free, liveOnce>>

Delete(k) == free > 0 /\ RemoveRow(k)
Expire(k) == RemoveRow(k)

-----------------------------------------------------------------------------
Init ==
  /\ pc = [p \in Callers |-> "idle"]
  /\ req \in [Callers -> {CHOOSE q \in Requests : TRUE}]
  /\ rows = [p \in Callers |-> {}]
  /\ verdict = [p \in Callers |-> "none"]
  /\ free = MaxConns
  /\ live = {} /\ gone = {}
  /\ liveOnce = [p \in Callers |-> {}]
  /\ liveAlways = [p \in Callers |-> {}]

Next ==
  \/ \E p \in Callers :
       \/ \E q \in Requests : Begin(p, q)
       \/ CheckKey(p) \/ CheckOIDC(p) \/ CheckBearer(p) \/ EndOfChain(p)
       \/ Select(p) \/ SelectFails(p) \/ Scan(p)
       \/ TouchAcquire(p) \/ TouchDone(p) \/ TouchCancelled(p)
  \/ \E k \in DBKeys : Create(k) \/ Delete(k) \/ Expire(k)

\* Goroutines run, the database answers, and pgxpool serves waiters in turn.
\* No client is obliged to give up.
Fairness ==
  \A p \in Callers :
    /\ WF_vars(Scan(p) \/ TouchDone(p))
    /\ SF_vars(Select(p))
    /\ SF_vars(TouchAcquire(p))

Spec == Init /\ [][Next]_vars
FairSpec == Spec /\ Fairness

-----------------------------------------------------------------------------
Answered(p) == pc[p] = "idle" /\ verdict[p] # "none"

\* "The first one that finds its credential type in the request decides": a
\* presented API key is never passed over for a bearer token, and no presented
\* credential for the anonymous or a preset identity.
FirstCredentialDecides ==
  \A p \in Callers : Answered(p) =>
    LET q == req[p]
    IN  /\ verdict[p] \in {"oidc", "bearer"} => Candidate(q) = NoKey
        /\ verdict[p] \in {"preset", "anonymous"} =>
             Candidate(q) = NoKey /\ extractBearer(q) = "none"
        /\ q.surface = "portal" => verdict[p] # "anonymous"

\* A database key opens the door only if its row was live at some instant of
\* the request: a key deleted before the request began never does.
RevokedKeyRefused ==
  \A p \in Callers :
    Answered(p) /\ verdict[p] = "apikey" /\ Candidate(req[p]) \in DBKeys =>
      Candidate(req[p]) \in liveOnce[p]

\* A database outage is no verdict on the key: on /v1, a key that was live
\* during the whole request is never answered as an invalid credential.
LiveKeyNeverInvalid ==
  \A p \in Callers :
    /\ Answered(p) /\ req[p].surface = "v1"
    /\ Candidate(req[p]) \in liveAlways[p]
    => verdict[p] \notin {"invalid", "missing"}

\* "auth succeeded regardless": a request whose key matched is answered, also
\* when no client gives up waiting.
MatchedKeyIsAnswered ==
  \A p \in Callers : (pc[p] = "wantTouch") ~> (pc[p] = "idle")

-----------------------------------------------------------------------------
(* The inductive invariant behind the three safety properties.             *)

TypeOK ==
  /\ pc \in [Callers -> States]
  /\ req \in [Callers -> Requests]
  /\ rows \in [Callers -> SUBSET DBKeys]
  /\ verdict \in [Callers -> Verdicts]
  /\ live \subseteq DBKeys
  /\ liveOnce \in [Callers -> SUBSET DBKeys]
  /\ liveAlways \in [Callers -> SUBSET DBKeys]

\* What has been live throughout is live, and what is live has been live.
LiveInBetween == \A p \in Callers : liveAlways[p] \subseteq live /\ live \subseteq liveOnce[p]

\* The rows a request holds are those of one instant of it.
RowsOfOneInstant ==
  \A p \in Callers :
    /\ pc[p] = "idle" => rows[p] = {}
    /\ rows[p] \subseteq liveOnce[p]
    /\ pc[p] = "scan" => liveAlways[p] \subseteq rows[p]

\* A request is where it is in the chain because of the credentials it carries.
PlaceInChain ==
  \A p \in Callers :
    /\ pc[p] \in {"oidc", "bearer", "end"} => Candidate(req[p]) = NoKey
    /\ pc[p] = "end" => extractBearer(req[p]) = "none"
    /\ pc[p] \in {"wantConn", "scan"} => Candidate(req[p]) # NoKey
    /\ pc[p] \in {"wantTouch", "touch"} => Candidate(req[p]) \in rows[p]

AInv ==
  /\ TypeOK /\ LiveInBetween /\ RowsOfOneInstant /\ PlaceInChain
  /\ FirstCredentialDecides /\ RevokedKeyRefused /\ LiveKeyNeverInvalid
=============================================================================
