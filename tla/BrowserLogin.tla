---------------------------- MODULE BrowserLogin ----------------------------
(***************************************************************************)
(* The portal's OIDC login (pkg/httpsrv/browserauth.go, session.go): one   *)
(* browser with several tabs, each of which starts one login; the login    *)
(* and callback handlers; the in-memory nonce ledger; the identity         *)
(* provider, whose codes are single-use; and server restarts.              *)
(*                                                                         *)
(* A login draws a fresh state, verifier and nonce: all three are the      *)
(* login itself.  The signed PKCE cookie that carries them is the login it *)
(* was issued for; the browser keeps one such cookie, for 600 s, and sends *)
(* it along.  The user may reload a callback, so one login can cause       *)
(* several callback requests.  A request reaches its handler within one    *)
(* unit of the clock.                                                      *)
(***************************************************************************)
EXTENDS Naturals

CONSTANTS Logins,       \* login attempts, one per tab
          Sends,        \* callback requests a login can cause
          NoLogin,
          CookieAge,    \* MaxAge of the PKCE cookie
          NonceTTL,     \* how long the ledger remembers a nonce
          MaxTime, MaxRestarts

ASSUME LoginAssumption ==
  /\ NoLogin \notin Logins
  /\ CookieAge \in Nat \ {0} /\ NonceTTL \in Nat /\ CookieAge <= NonceTTL
  /\ MaxTime \in Nat /\ MaxRestarts \in Nat

VARIABLES
  now, restarts,
  tab,         \* [Logins -> TabStates]: where the user is with each login
  jar,         \* the PKCE cookie in the browser, or NoLogin
  jarExpires,  \* when the browser drops it
  code,        \* [Logins -> CodeStates]: the provider's authorization code
  usedNonces,  \* [Logins -> Nat]: when the nonce was recorded, 0 if it is not
  request,     \* [Logins \X Sends -> RequestStates]: callback requests
  cookie,      \* [Logins \X Sends -> Logins \cup {NoLogin}]: the cookie sent
  session,     \* the login whose session cookie the browser holds, or NoLogin
  \* History: how often the ledger admitted a login, and the logins whose
  \* cookie left the jar in another way than by their own success.
  admitted, displaced

Callbacks == Logins \X Sends
requestVars == <<request, cookie>>
bvars == <<now, restarts, tab, jar, jarExpires, code, usedNonces, request, cookie,
          session, admitted, displaced>>

TabStates == {"closed", "starting", "atProvider", "approved", "denied"}
CodeStates == {"none", "issued", "redeemed"}
Failures == {"missing", "mismatch", "replay", "noCode", "exchange", "idToken"}
RequestStates == {"none", "sent", "admitted", "exchanged", "success", "over", "lost"}
                   \cup Failures

-----------------------------------------------------------------------------
(* The user, the browser and the provider.                                 *)

OpenTab(l) ==
  /\ tab[l] = "closed"
  /\ tab' = [tab EXCEPT ![l] = "starting"]
  /\ UNCHANGED <<now, restarts, jar, jarExpires, code, usedNonces, requestVars,
                 session, admitted, displaced>>

\* handleLogin: the response sets the PKCE cookie and redirects the tab.
HandleLogin(l) ==
  /\ tab[l] = "starting"
  /\ tab' = [tab EXCEPT ![l] = "atProvider"]
  /\ jar' = l
  /\ jarExpires' = now + CookieAge
  /\ displaced' = displaced \cup ({jar} \ {NoLogin})
  /\ UNCHANGED <<now, restarts, code, usedNonces, requestVars, session, admitted>>

\* The provider sends the browser back, with a code or with an error.
Authorize(l) ==
  /\ tab[l] = "atProvider"
  /\ \/ tab' = [tab EXCEPT ![l] = "approved"] /\ code' = [code EXCEPT ![l] = "issued"]
     \/ tab' = [tab EXCEPT ![l] = "denied"] /\ UNCHANGED code
  /\ UNCHANGED <<now, restarts, jar, jarExpires, usedNonces, requestVars, session,
                 admitted, displaced>>

\* The redirect to the callback, or a reload of it, with the cookie of now.
SendCallback(r) ==
  /\ tab[r[1]] \in {"approved", "denied"}
  /\ request[r] = "none"
  /\ request' = [request EXCEPT ![r] = "sent"]
  /\ cookie' = [cookie EXCEPT ![r] = jar]
  /\ UNCHANGED <<now, restarts, tab, jar, jarExpires, code, usedNonces, session,
                 admitted, displaced>>

\* Time passes; the browser drops an old cookie.
Tick ==
  /\ now < MaxTime
  /\ \A r \in Callbacks : request[r] # "sent"
  /\ now' = now + 1
  /\ \/ jarExpires > now' /\ UNCHANGED <<jar, displaced>>
     \/ /\ jarExpires <= now'
        /\ jar' = NoLogin
        /\ displaced' = displaced \cup ({jar} \ {NoLogin})
  /\ UNCHANGED <<restarts, tab, jarExpires, code, usedNonces, requestVars, session, admitted>>

-----------------------------------------------------------------------------
(* handleCallback.                                                         *)

Answer(r, outcome) == request' = [request EXCEPT ![r] = outcome]

\* consumeNonce evicts what is older than the TTL, then looks the nonce up.
EvictAll == [l \in Logins |-> IF now - usedNonces[l] >= 1 THEN 0 ELSE usedNonces[l]]

Evict == [l \in Logins |-> IF now - usedNonces[l] > NonceTTL THEN 0 ELSE usedNonces[l]]

\* Up to the exchange: the cookie, its signature, the state, the nonce, the
\* code.  The nonce is recorded before the code is looked at.
Check(r) ==
  LET l == r[1]
  IN  /\ request[r] = "sent"
      /\ \/ /\ cookie[r] = NoLogin
            /\ Answer(r, "missing")
            /\ UNCHANGED <<usedNonces, admitted>>
         \/ /\ cookie[r] \notin {NoLogin, l}
            /\ Answer(r, "mismatch")
            /\ UNCHANGED <<usedNonces, admitted>>
         \/ /\ cookie[r] = l
            /\ Evict[l] # 0
            /\ Answer(r, "replay")
            /\ usedNonces' = Evict
            /\ UNCHANGED admitted
         \/ /\ cookie[r] = l
            /\ Evict[l] = 0
            /\ Answer(r, IF tab[l] = "approved" THEN "admitted" ELSE "noCode")
            /\ usedNonces' = [Evict EXCEPT ![l] = now]
            /\ admitted' = [admitted EXCEPT ![l] = @ + 1]
      /\ UNCHANGED <<now, restarts, tab, jar, jarExpires, code, cookie, session, displaced>>

ExchangeUnchecked(r) ==
  /\ request[r] = "admitted"
  /\ code' = [code EXCEPT ![r[1]] = "redeemed"]
  /\ Answer(r, "exchanged")
  /\ UNCHANGED <<now, restarts, tab, jar, jarExpires, usedNonces, cookie, session,
                 admitted, displaced>>

ExchangeClearingCookie(r) ==
  /\ request[r] = "admitted"
  /\ Answer(r, "exchange")
  /\ jar' = NoLogin
  /\ UNCHANGED <<now, restarts, tab, jarExpires, code, usedNonces, cookie, session,
                 admitted, displaced>>

\* exchangeCode: the token endpoint honours a code once; a failure may strike
\* before or after it did.
Exchange(r) ==
  LET l == r[1]
  IN  /\ request[r] = "admitted"
      /\ \/ /\ code[l] = "issued"
            /\ code' = [code EXCEPT ![l] = "redeemed"]
            /\ \E outcome \in {"exchanged", "exchange"} : Answer(r, outcome)
         \/ Answer(r, "exchange") /\ UNCHANGED code
      /\ UNCHANGED <<now, restarts, tab, jar, jarExpires, usedNonces, cookie, session,
                     admitted, displaced>>

\* ValidateBearer; on success the response clears the PKCE cookie and sets the
\* session cookie.
Validate(r) ==
  /\ request[r] = "exchanged"
  /\ \E outcome \in {"success", "idToken"} : Answer(r, outcome)
  /\ UNCHANGED <<now, restarts, tab, jar, jarExpires, code, usedNonces, cookie, session,
                 admitted, displaced>>

\* The browser receives the response of a successful callback.  The cookie is
\* cleared by name: whichever login's cookie is in the jar is gone.
Receive(r) ==
  /\ request[r] = "success"
  /\ Answer(r, "over")
  /\ session' = r[1]
  /\ jar' = NoLogin
  /\ displaced' = displaced \cup ({jar} \ {NoLogin, r[1]})
  /\ UNCHANGED <<now, restarts, tab, jarExpires, code, usedNonces, cookie, admitted>>

\* handleLogout clears the session cookie.
Logout ==
  /\ session # NoLogin
  /\ session' = NoLogin
  /\ UNCHANGED <<now, restarts, tab, jar, jarExpires, code, usedNonces, requestVars,
                 admitted, displaced>>

\* The server restarts: the ledger and the running handlers are gone.
Restart ==
  /\ restarts < MaxRestarts
  /\ restarts' = restarts + 1
  /\ usedNonces' = [l \in Logins |-> 0]
  /\ request' = [r \in Callbacks |->
                   IF request[r] \in {"sent", "admitted", "exchanged"} THEN "lost"
                   ELSE request[r]]
  /\ UNCHANGED <<now, tab, jar, jarExpires, code, cookie, session, admitted, displaced>>

-----------------------------------------------------------------------------
BInit ==
  /\ now = 1 /\ restarts = 0
  /\ tab = [l \in Logins |-> "closed"]
  /\ jar = NoLogin /\ jarExpires = 0
  /\ code = [l \in Logins |-> "none"]
  /\ usedNonces = [l \in Logins |-> 0]
  /\ request = [r \in Callbacks |-> "none"]
  /\ cookie = [r \in Callbacks |-> NoLogin]
  /\ session = NoLogin
  /\ admitted = [l \in Logins |-> 0]
  /\ displaced = {}

BNext ==
  \/ \E l \in Logins : OpenTab(l) \/ HandleLogin(l) \/ Authorize(l)
  \/ \E r \in Callbacks :
       SendCallback(r) \/ Check(r) \/ Exchange(r) \/ Validate(r) \/ Receive(r)
  \/ Tick
  \/ Logout
  \/ Restart

BSpec == BInit /\ [][BNext]_bvars

-----------------------------------------------------------------------------
BTypeOK ==
  /\ now \in Nat \ {0} /\ restarts \in 0..MaxRestarts
  /\ tab \in [Logins -> TabStates]
  /\ jar \in Logins \cup {NoLogin} /\ jarExpires \in Nat
  /\ code \in [Logins -> CodeStates]
  /\ usedNonces \in [Logins -> 0..now]
  /\ request \in [Callbacks -> RequestStates]
  /\ cookie \in [Callbacks -> Logins \cup {NoLogin}]
  /\ session \in Logins \cup {NoLogin}
  /\ admitted \in [Logins -> Nat]
  /\ displaced \subseteq Logins

\* "reject replays for 10 minutes": between two restarts the ledger admits the
\* callbacks of a login at most once, however often the callback is reloaded
\* and although the ledger forgets nonces, because the browser forgets the
\* cookie no later.
LedgerAdmitsOnce == \A l \in Logins : admitted[l] <= 1 + restarts

Succeeded(l) == {k \in Sends : request[<<l, k>>] \in {"success", "over"}}

\* A login gives at most one session, also when a restart empties the ledger
\* between the callback and its reload.
OneSessionPerLogin == \A l \in Logins : \A k, m \in Succeeded(l) : k = m

\* A callback is refused for its cookie only for a reason the user caused: a
\* later login or the success of another tab took the cookie away, the cookie
\* got too old, or the login has already succeeded.
RefusedOnlyIfDisplaced ==
  \A r \in Callbacks :
    request[r] \in {"missing", "mismatch"} =>
      r[1] \in displaced \/ Succeeded(r[1]) # {}

-----------------------------------------------------------------------------
(* The inductive invariant behind the three properties.                    *)

Carries(r, l) == request[r] = "sent" /\ cookie[r] = l

\* A login that has not reached handleLogin has left no trace.
Unstarted ==
  \A l \in Logins : tab[l] \in {"closed", "starting"} =>
    /\ jar # l /\ usedNonces[l] = 0 /\ admitted[l] = 0
    /\ \A r \in Callbacks : ~Carries(r, l)

\* The browser never holds a cookie that is too old.
JarIsFresh == jar # NoLogin => now < jarExpires /\ jarExpires <= now + CookieAge

\* While the cookie of a login can still reach the handler, its nonce is young.
NonceOutlivesCookie ==
  \A l \in Logins : usedNonces[l] # 0 =>
    /\ jar = l => jarExpires <= usedNonces[l] + CookieAge
    /\ \A r \in Callbacks : Carries(r, l) => now <= usedNonces[l] + NonceTTL

\* The cookie of the login cannot reach the handler any more.
Spent(l) ==
  /\ tab[l] \notin {"closed", "starting"} /\ jar # l
  /\ \A r \in Callbacks : ~Carries(r, l)

\* What is admitted once more than the server restarted is remembered or spent.
AdmittedIsRemembered ==
  \A l \in Logins :
    \/ admitted[l] <= restarts
    \/ admitted[l] = restarts + 1 /\ (usedNonces[l] # 0 \/ Spent(l))

Redeemed == {"exchanged", "success", "over"}

\* A code is issued once and redeemed by one request.
CodeIsRedeemedOnce ==
  /\ \A l \in Logins :
       tab[l] \in {"closed", "starting", "atProvider"} => code[l] = "none"
  /\ \A r \in Callbacks : request[r] \in Redeemed =>
       /\ code[r[1]] = "redeemed"
       /\ \A o \in Callbacks : o[1] = r[1] /\ request[o] \in Redeemed => o = r

Excused(l) == l \in displaced \/ \E k \in Sends : request[<<l, k>>] \in {"success", "over"}

\* A cookie is missing from the jar, or from a request, for a reason.
MissingIsExcused ==
  /\ \A l \in Logins :
       tab[l] \notin {"closed", "starting"} => jar = l \/ Excused(l)
  /\ \A r \in Callbacks :
       /\ request[r] = "sent" => cookie[r] = r[1] \/ Excused(r[1])
       /\ request[r] \in {"missing", "mismatch"} => Excused(r[1])

BInv ==
  /\ BTypeOK /\ Unstarted /\ JarIsFresh /\ NonceOutlivesCookie
  /\ AdmittedIsRemembered /\ CodeIsRedeemedOnce /\ MissingIsExcused
=============================================================================
