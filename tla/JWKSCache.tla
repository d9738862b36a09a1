----------------------------- MODULE JWKSCache ------------------------------
(***************************************************************************)
(* The signing-key cache of auth.OIDCAuthenticator (pkg/auth/oidc.go):     *)
(* request goroutines that call publicKey, the refresh that singleflight   *)
(* shares between them, and an identity provider that rotates its keys and *)
(* may be unreachable.                                                     *)
(*                                                                         *)
(* A key is its kid.  Time is a counter.  A fetch reads what the provider  *)
(* publishes at one instant and installs it at a later one.  It fails for  *)
(* any of the code's reasons, the cancellation of the leader's request     *)
(* among them, because refreshJWKS runs with the context of the caller     *)
(* that leads the flight.                                                  *)
(***************************************************************************)
EXTENDS Naturals, FiniteSets

CONSTANTS Lookups,      \* goroutines that call publicKey
          Kids,         \* key ids
          NoLookup, NoKid,
          TTL,          \* jwks_cache_ttl
          StaleGrace,   \* staleGracePeriod
          MaxTime       \* bound on the clock

ASSUME JWKSAssumption ==
  /\ TTL \in Nat \ {0} /\ StaleGrace \in Nat /\ MaxTime \in Nat
  /\ NoLookup \notin Lookups
  /\ NoKid \notin Kids

VARIABLES
  now,        \* the clock
  published,  \* kids the provider serves now
  keys,       \* kids in the cache
  expiresAt, staleOK,
  leader,     \* the caller whose function singleflight runs, or NoLookup
  fetched,    \* the document its fetch has read; {NoKid} before
  at,         \* [Lookups -> Stages]
  kid,        \* [Lookups -> Kids \cup {NoKid}]: the argument of publicKey
  cached,     \* [Lookups -> Kids \cup {NoKid}]: the local variable
  deadline,   \* [Lookups -> Nat]: the local copy of staleOK
  \* History: start of the call, last installation of a document with the kid,
  \* kids that were not published at some instant since the flight took off, and
  \* callers whose kid was not at some instant since the flight they wait or
  \* waited for did.
  startedAt, installedAt, absent, unpublished

cacheVars == <<keys, expiresAt, staleOK>>
callVars == <<kid, cached, deadline, startedAt, unpublished>>
jwksVars == <<now, published, keys, expiresAt, staleOK, leader, fetched, at, kid,
              cached, deadline, startedAt, installedAt, absent, unpublished>>

Stages == {"called", "missed", "waiting", "refreshed", "failed", "accepted", "refused"}
Returned == {"accepted", "refused"}
InFlight == leader # NoLookup

-----------------------------------------------------------------------------
(* publicKey.                                                              *)

\* publicKey returns a key or an error, and its locals go out of scope.
Return(p, key) ==
  /\ at' = [at EXCEPT ![p] = IF key = NoKid THEN "refused" ELSE "accepted"]
  /\ kid' = [kid EXCEPT ![p] = NoKid]
  /\ cached' = [cached EXCEPT ![p] = NoKid]
  /\ deadline' = [deadline EXCEPT ![p] = 0]
  /\ startedAt' = [startedAt EXCEPT ![p] = 0]
  /\ unpublished' = unpublished \ {p}

\* ValidateBearer calls publicKey with the kid of the token.
Call(p, k) ==
  /\ at[p] \in Returned
  /\ at' = [at EXCEPT ![p] = "called"]
  /\ kid' = [kid EXCEPT ![p] = k]
  /\ startedAt' = [startedAt EXCEPT ![p] = now]
  /\ UNCHANGED <<now, published, cacheVars, leader, fetched, cached, deadline,
                 installedAt, absent, unpublished>>

\* Under the read lock: a fresh key is returned, otherwise the cached key and
\* its deadline are kept for later.
ReadCache(p) ==
  LET known == kid[p] \in keys
  IN  /\ at[p] = "called"
      /\ \/ now < expiresAt /\ known /\ Return(p, kid[p])
         \/ /\ ~(now < expiresAt /\ known)
            /\ at' = [at EXCEPT ![p] = "missed"]
            /\ cached' = [cached EXCEPT ![p] = IF known THEN kid[p] ELSE NoKid]
            /\ deadline' = [deadline EXCEPT ![p] = staleOK]
            /\ UNCHANGED <<kid, startedAt, unpublished>>
      /\ UNCHANGED <<now, published, cacheVars, leader, fetched, installedAt, absent>>

\* refresh.Do: lead a new flight, or wait for the one under way.
Do(p) ==
  /\ at[p] = "missed"
  /\ at' = [at EXCEPT ![p] = "waiting"]
  /\ \/ InFlight /\ UNCHANGED <<leader, absent>>
     \/ ~InFlight /\ leader' = p /\ absent' = Kids \ published
  /\ unpublished' = IF kid[p] \in absent' THEN unpublished \cup {p} ELSE unpublished
  /\ UNCHANGED <<now, published, cacheVars, fetched, kid, cached, deadline,
                 startedAt, installedAt>>

\* The provider answers the leader's GET.
Fetch ==
  /\ InFlight /\ fetched = {NoKid}
  /\ fetched' = published
  /\ UNCHANGED <<now, published, cacheVars, leader, at, callVars, installedAt, absent>>

\* The flight is over: leader and waiters share its outcome.
Land(outcome) ==
  /\ leader' = NoLookup
  /\ fetched' = {NoKid} /\ absent' = {}
  /\ at' = [p \in Lookups |-> IF at[p] = "waiting" THEN outcome ELSE at[p]]

\* Under the write lock: the document replaces the cache.
Install ==
  /\ InFlight /\ fetched # {NoKid}
  /\ keys' = fetched
  /\ expiresAt' = now + TTL
  /\ staleOK' = now + TTL + StaleGrace
  /\ installedAt' = [k \in Kids |-> IF k \in fetched THEN now ELSE installedAt[k]]
  /\ Land("refreshed")
  /\ UNCHANGED <<now, published, callVars>>

\* The GET, its status or its body fails, or the leader's request is cancelled.
FetchFails ==
  /\ InFlight
  /\ Land("failed")
  /\ UNCHANGED <<now, published, cacheVars, callVars, installedAt>>

AfterRefreshFromSnapshot(p) ==
  /\ at[p] = "refreshed"
  /\ Return(p, cached[p])
  /\ UNCHANGED <<now, published, cacheVars, leader, fetched, installedAt, absent>>

\* After a refresh: the cache as it is by then decides.
AfterRefresh(p) ==
  /\ at[p] = "refreshed"
  /\ Return(p, IF kid[p] \in keys THEN kid[p] ELSE NoKid)
  /\ UNCHANGED <<now, published, cacheVars, leader, fetched, installedAt, absent>>

AfterFailureForever(p) ==
  /\ at[p] = "failed"
  /\ Return(p, cached[p])
  /\ UNCHANGED <<now, published, cacheVars, leader, fetched, installedAt, absent>>

AfterFailureNoGrace(p) ==
  /\ at[p] = "failed"
  /\ Return(p, NoKid)
  /\ UNCHANGED <<now, published, cacheVars, leader, fetched, installedAt, absent>>

AfterFailureRetrying(p) ==
  /\ at[p] = "failed"
  /\ \/ now < deadline[p] /\ Return(p, cached[p])
     \/ now >= deadline[p] /\ at' = [at EXCEPT ![p] = "missed"] /\ UNCHANGED callVars
  /\ UNCHANGED <<now, published, cacheVars, leader, fetched, installedAt, absent>>

\* After a failed refresh: the key kept from before, until its deadline.
AfterFailure(p) ==
  /\ at[p] = "failed"
  /\ Return(p, IF now < deadline[p] THEN cached[p] ELSE NoKid)
  /\ UNCHANGED <<now, published, cacheVars, leader, fetched, installedAt, absent>>

-----------------------------------------------------------------------------
(* The clock and the identity provider.                                    *)

Tick ==
  /\ now < MaxTime
  /\ now' = now + 1
  /\ UNCHANGED <<published, cacheVars, leader, fetched, at, callVars, installedAt, absent>>

Rotate(doc) ==
  /\ doc # published
  /\ published' = doc
  /\ absent' = IF InFlight THEN absent \cup (Kids \ doc) ELSE absent
  /\ unpublished' = unpublished \cup
       {p \in Lookups : at[p] \in {"waiting", "refreshed", "failed"} /\ kid[p] \notin doc}
  /\ UNCHANGED <<now, cacheVars, leader, fetched, at, kid, cached, deadline,
                 startedAt, installedAt>>

-----------------------------------------------------------------------------
\* NewOIDC has fetched the first document, at time 1.
JWKSInit ==
  /\ now = 1
  /\ published \in SUBSET Kids
  /\ keys = published
  /\ expiresAt = 1 + TTL
  /\ staleOK = 1 + TTL + StaleGrace
  /\ leader = NoLookup /\ fetched = {NoKid}
  /\ at = [p \in Lookups |-> "refused"]
  /\ kid = [p \in Lookups |-> NoKid]
  /\ cached = [p \in Lookups |-> NoKid]
  /\ deadline = [p \in Lookups |-> 0]
  /\ startedAt = [p \in Lookups |-> 0]
  /\ installedAt = [k \in Kids |-> IF k \in keys THEN 1 ELSE 0]
  /\ absent = {} /\ unpublished = {}

CallerStep(p) == ReadCache(p) \/ Do(p) \/ AfterRefresh(p) \/ AfterFailure(p)

JWKSNext ==
  \/ \E p \in Lookups : (\E k \in Kids : Call(p, k)) \/ CallerStep(p)
  \/ Fetch
  \/ Install
  \/ FetchFails
  \/ Tick
  \/ \E doc \in SUBSET Kids : Rotate(doc)

\* A goroutine that can run does, and the HTTP client's timeout ends a fetch.
JWKSFairness ==
  /\ \A p \in Lookups : WF_jwksVars(CallerStep(p))
  /\ WF_jwksVars(Install \/ FetchFails)

JWKSSpec == JWKSInit /\ [][JWKSNext]_jwksVars
JWKSFairSpec == JWKSSpec /\ JWKSFairness

-----------------------------------------------------------------------------
JWKSTypeOK ==
  /\ now \in Nat
  /\ published \subseteq Kids /\ keys \subseteq Kids
  /\ expiresAt \in Nat /\ staleOK \in Nat
  /\ leader \in Lookups \cup {NoLookup}
  /\ fetched = {NoKid} \/ (fetched \subseteq Kids /\ InFlight)
  /\ at \in [Lookups -> Stages]
  /\ InFlight => at[leader] = "waiting"
  /\ kid \in [Lookups -> Kids \cup {NoKid}]
  /\ cached \in [Lookups -> Kids \cup {NoKid}]
  /\ deadline \in [Lookups -> Nat]
  /\ startedAt \in [Lookups -> Nat]
  /\ installedAt \in [Kids -> Nat]
  /\ absent \subseteq Kids /\ unpublished \subseteq Lookups

Accepts(p) == at[p] \notin Returned /\ at'[p] = "accepted"
Refuses(p) == at[p] \notin Returned /\ at'[p] = "refused"

InstalledMeanwhile(p) == installedAt[kid[p]] >= startedAt[p]
Recent(p) == InstalledMeanwhile(p) \/ now < installedAt[kid[p]] + TTL + StaleGrace

\* "stale keys are served briefly past their TTL": a call accepts a key only
\* if a document with it was installed during the call or less than TTL plus
\* grace ago, however refreshes, failures and other callers interleave.
AcceptsOnlyRecentKeys == [][\A p \in Lookups : Accepts(p) => Recent(p)]_jwksVars

\* "ride out transient outages": a call whose refresh failed refuses a key that
\* some document in its grace period still has only if that document was
\* installed after the call began.
RidesOutOutage ==
  [][\A p \in Lookups :
       Refuses(p) /\ at[p] = "failed" /\ kid[p] \in keys /\ now < staleOK
       => InstalledMeanwhile(p)]_jwksVars

\* A refresh decides by what the provider published while it lasted or later: a
\* call is refused after a refresh, its own or one of another caller that it
\* joined under way, only if its kid was unpublished at some instant since that
\* refresh took off.  (A joiner may be refused although its kid was published
\* during all of its own call.)
RefreshSeesRotation ==
  [][\A p \in Lookups : Refuses(p) /\ at[p] = "refreshed" => p \in unpublished]_jwksVars

\* No call waits forever, whoever leads the flight and however it ends.
CallsReturn ==
  \A p \in Lookups : (at[p] \notin Returned) ~> (at[p] \in Returned)

(* The facts that make the first three inductive.                          *)

\* A call has a kid and keeps no key before it has looked at the cache.
LocalsInScope ==
  \A p \in Lookups : /\ at[p] \notin Returned => kid[p] \in Kids
                     /\ at[p] \in Returned \cup {"called"} => cached[p] = NoKid
                     /\ startedAt[p] <= now

\* The times of the cache are those of the document it was made of.
CacheHasAge ==
  /\ staleOK = expiresAt + StaleGrace
  /\ \A k \in keys : installedAt[k] + TTL = expiresAt
  /\ \A k \in Kids : installedAt[k] <= now

\* What a caller has kept from its look at the cache: a key, with a deadline that
\* the last document with that key would allow; and unless a document was
\* installed since the call began, what the cache would still give it.
KeptIsCached ==
  \A p \in Lookups :
    /\ cached[p] # NoKid =>
         /\ cached[p] = kid[p]
         /\ deadline[p] <= installedAt[kid[p]] + TTL + StaleGrace
    /\ at[p] \in {"missed", "waiting", "failed"} =>
         \/ expiresAt >= startedAt[p] + TTL
         \/ /\ cached[p] = IF kid[p] \in keys THEN kid[p] ELSE NoKid
            /\ deadline[p] = staleOK
    /\ at[p] = "refreshed" => expiresAt >= startedAt[p] + TTL

\* absent and unpublished keep what they are meant to keep, so a kid that is in
\* neither the document of the flight nor the cache was unpublished meanwhile.
AbsenceIsNoted ==
  /\ fetched # {NoKid} => Kids \ fetched \subseteq absent
  /\ InFlight => Kids \ published \subseteq absent
  /\ \A p \in Lookups :
       /\ at[p] \in {"waiting", "refreshed"} =>
            (kid[p] \notin published \/ kid[p] \in absent => p \in unpublished)
       /\ at[p] = "refreshed" => (kid[p] \notin keys => p \in unpublished)

JInv == JWKSTypeOK /\ LocalsInScope /\ CacheHasAge /\ KeptIsCached /\ AbsenceIsNoted
=============================================================================
