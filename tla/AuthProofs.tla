----------------------------- MODULE AuthProofs -----------------------------
(***************************************************************************)
(* Proofs about the two halves of authentication: InboundAuth, the chain   *)
(* of authenticators and the API keys, and JWKSCache, the keys that verify *)
(* a JWT.  They hold for any callers, requests, API keys, pool size and    *)
(* settings, and for any key ids, TTL and grace.  AInv of InboundAuth and  *)
(* JInv of JWKSCache are inductive; the properties follow from them.       *)
(***************************************************************************)
EXTENDS InboundAuth, JWKSCache, TLAPS

-----------------------------------------------------------------------------
(* The chain of authenticators and the API keys.                           *)


\* A verdict that the request's credentials and the rows of its time allow.
Allowed(p, v) ==
  /\ v \in Verdicts
  /\ v \in {"oidc", "bearer"} => Candidate(req[p]) = NoKey
  /\ v \in {"preset", "anonymous"} =>
       Candidate(req[p]) = NoKey /\ extractBearer(req[p]) = "none"
  /\ v = "apikey" /\ Candidate(req[p]) \in DBKeys => Candidate(req[p]) \in liveOnce[p]
  /\ v \in {"invalid", "missing"} => Candidate(req[p]) \notin liveAlways[p]

-----------------------------------------------------------------------------
(* The two kinds of step a request takes: an answer, and a move.           *)

\* An answer with an allowed verdict preserves AInv.
LEMMA DecideAInv ==
  ASSUME AInv, NEW p \in Callers, NEW v, Decide(p, v), Allowed(p, v),
         UNCHANGED <<req, keyVars>>
  PROVE  AInv'
<1> USE DEF keyVars
<1>1. /\ TypeOK /\ RowsOfOneInstant /\ PlaceInChain
      /\ LiveInBetween /\ FirstCredentialDecides /\ RevokedKeyRefused /\ LiveKeyNeverInvalid
  BY DEF AInv
<1>2. /\ pc' = [pc EXCEPT ![p] = "idle"] /\ rows' = [rows EXCEPT ![p] = {}]
      /\ verdict' = [verdict EXCEPT ![p] =
                       IF req[p].surface = "portal" /\ v \in Refusals \cup {"anonymous"}
                       THEN "missing" ELSE v]
      /\ UNCHANGED <<req, live, gone, liveOnce, liveAlways>>
  BY DEF Decide
<1>3. /\ pc'[p] = "idle" /\ rows'[p] = {}
      /\ \/ verdict'[p] = v /\ ~(req[p].surface = "portal" /\ v \in Refusals \cup {"anonymous"})
         \/ verdict'[p] = "missing" /\ req[p].surface = "portal"
      /\ \A q \in Callers \ {p} :
           pc'[q] = pc[q] /\ rows'[q] = rows[q] /\ verdict'[q] = verdict[q]
  BY <1>1, <1>2 DEF TypeOK
<1>4. TypeOK'
  <2>1. pc' \in [Callers -> States] /\ rows' \in [Callers -> SUBSET DBKeys]
    BY <1>1, <1>2 DEF TypeOK, States
  <2>2. verdict' \in [Callers -> Verdicts]
    BY <1>1, <1>2 DEF TypeOK, Verdicts, Refusals, Allowed
  <2> QED
    BY <1>1, <1>2, <2>1, <2>2 DEF TypeOK
<1>5. LiveInBetween'
  BY <1>1, <1>2 DEF LiveInBetween
<1>6. RowsOfOneInstant'
  BY <1>1, <1>2, <1>3 DEF RowsOfOneInstant
<1>7. PlaceInChain'
  BY <1>1, <1>2, <1>3 DEF PlaceInChain
<1>8. FirstCredentialDecides'
  BY <1>1, <1>2, <1>3 DEF FirstCredentialDecides, Answered, Allowed, Refusals
<1>9. RevokedKeyRefused'
  BY <1>1, <1>2, <1>3 DEF RevokedKeyRefused, Answered, Allowed
<1>10. LiveKeyNeverInvalid'
  BY <1>1, <1>2, <1>3 DEF LiveKeyNeverInvalid, Answered, Allowed
<1> QED
  BY <1>4, <1>5, <1>6, <1>7, <1>8, <1>9, <1>10 DEF AInv

\* A move to a place of the chain where the request's credentials belong
\* preserves AInv.
LEMMA MoveAInv ==
  ASSUME AInv, NEW p \in Callers, NEW s \in States \ {"idle", "scan"},
         pc' = [pc EXCEPT ![p] = s], UNCHANGED <<req, rows, verdict, keyVars>>,
         s \in {"oidc", "bearer", "end"} => Candidate(req[p]) = NoKey,
         s = "end" => extractBearer(req[p]) = "none",
         s = "wantConn" => Candidate(req[p]) # NoKey,
         s \in {"wantTouch", "touch"} => Candidate(req[p]) \in rows[p]
  PROVE  AInv'
<1> USE DEF keyVars
<1>1. /\ TypeOK /\ RowsOfOneInstant /\ PlaceInChain
      /\ LiveInBetween /\ FirstCredentialDecides /\ RevokedKeyRefused /\ LiveKeyNeverInvalid
  BY DEF AInv
<1>2. /\ pc' \in [Callers -> States] /\ pc'[p] = s /\ s # "idle" /\ s # "scan"
      /\ \A q \in Callers \ {p} : pc'[q] = pc[q]
  BY <1>1 DEF TypeOK
<1>3. TypeOK'
  BY <1>1, <1>2 DEF TypeOK
<1>4. LiveInBetween'
  BY <1>1 DEF LiveInBetween
<1>5. RowsOfOneInstant'
  BY <1>1, <1>2 DEF RowsOfOneInstant
<1>6. PlaceInChain'
  BY <1>1, <1>2 DEF PlaceInChain
<1>7. FirstCredentialDecides'
  BY <1>1, <1>2 DEF FirstCredentialDecides, Answered
<1>8. RevokedKeyRefused'
  BY <1>1, <1>2 DEF RevokedKeyRefused, Answered
<1>9. LiveKeyNeverInvalid'
  BY <1>1, <1>2 DEF LiveKeyNeverInvalid, Answered
<1> QED
  BY <1>3, <1>4, <1>5, <1>6, <1>7, <1>8, <1>9 DEF AInv

-----------------------------------------------------------------------------
(* The actions.                                                            *)

\* The start of a request: what the middleware answers by itself is allowed,
\* and a request it passes on is at the head of the chain.
LEMMA BeginAInv ==
  ASSUME AInv, NEW p \in Callers, NEW q \in Requests, Begin(p, q)
  PROVE  AInv'
<1>1. /\ TypeOK /\ RowsOfOneInstant /\ PlaceInChain
      /\ LiveInBetween /\ FirstCredentialDecides /\ RevokedKeyRefused /\ LiveKeyNeverInvalid
  BY DEF AInv
<1>2. /\ pc[p] = "idle" /\ req' = [req EXCEPT ![p] = q]
      /\ liveOnce' = [liveOnce EXCEPT ![p] = live]
      /\ liveAlways' = [liveAlways EXCEPT ![p] = live]
      /\ UNCHANGED <<rows, free, live, gone>>
  BY DEF Begin
<1>3. PICK v \in {"preset", "session", "missing", "none"} :
        /\ verdict' = [verdict EXCEPT ![p] = v]
        /\ pc' = IF v = "none" THEN [pc EXCEPT ![p] = "key"] ELSE pc
        /\ v = "preset" => q.surface = "v1" /\ ~hasInboundCredential(q)
        /\ v = "missing" => q.surface = "portal"
  BY DEF Begin
<1>4. v = "preset" => Candidate(q) = NoKey /\ extractBearer(q) = "none"
  BY <1>3 DEF hasInboundCredential, Candidate, extractBearer
<1>5. /\ req'[p] = q /\ verdict'[p] = v /\ pc'[p] \in {"idle", "key"}
      /\ pc'[p] = "idle" => v # "none"
      /\ liveOnce'[p] = live /\ liveAlways'[p] = live
      /\ \A o \in Callers \ {p} :
           /\ pc'[o] = pc[o] /\ req'[o] = req[o] /\ verdict'[o] = verdict[o]
           /\ liveOnce'[o] = liveOnce[o] /\ liveAlways'[o] = liveAlways[o]
  BY <1>1, <1>2, <1>3 DEF TypeOK
<1>6. TypeOK'
  <2>1. pc' \in [Callers -> States] /\ verdict' \in [Callers -> Verdicts]
    BY <1>1, <1>3 DEF TypeOK, States, Verdicts, Refusals
  <2> QED
    BY <1>1, <1>2, <2>1 DEF TypeOK
<1>7. LiveInBetween'
  BY <1>1, <1>2, <1>5 DEF LiveInBetween
<1>8. RowsOfOneInstant'
  BY <1>1, <1>2, <1>5 DEF RowsOfOneInstant
<1>9. PlaceInChain'
  BY <1>1, <1>2, <1>5 DEF PlaceInChain
<1>10. FirstCredentialDecides'
  BY <1>1, <1>3, <1>4, <1>5 DEF FirstCredentialDecides, Answered
<1>11. RevokedKeyRefused'
  BY <1>1, <1>3, <1>5 DEF RevokedKeyRefused, Answered
<1>12. LiveKeyNeverInvalid'
  BY <1>1, <1>3, <1>5 DEF LiveKeyNeverInvalid, Answered
<1> QED
  BY <1>6, <1>7, <1>8, <1>9, <1>10, <1>11, <1>12 DEF AInv

\* The three authenticators and the end of the chain.
LEMMA ChainAInv ==
  ASSUME AInv, NEW p \in Callers,
         CheckKey(p) \/ CheckOIDC(p) \/ CheckBearer(p) \/ EndOfChain(p)
  PROVE  AInv'
<1> USE DEF keyVars
<1>1. /\ PlaceInChain
      /\ Candidate(req[p]) = NoKey => Candidate(req[p]) \notin liveAlways[p]
  BY AuthAssumption DEF AInv, TypeOK
<1>2. CASE CheckKey(p)
  <2>1. CASE Candidate(req[p]) \in FileKeys /\ Decide(p, "apikey")
    <3>1. Allowed(p, "apikey")
      BY <2>1, AuthAssumption DEF Allowed, Verdicts
    <3> QED
      BY <1>2, <2>1, <3>1, DecideAInv DEF CheckKey
  <2>2. CASE /\ pc' = [pc EXCEPT ![p] = IF Candidate(req[p]) = NoKey THEN "oidc" ELSE "wantConn"]
             /\ UNCHANGED <<rows, verdict>>
    <3>1. CASE Candidate(req[p]) = NoKey
      BY <1>2, <2>2, <3>1, MoveAInv DEF CheckKey, States
    <3>2. CASE Candidate(req[p]) # NoKey
      BY <1>2, <2>2, <3>2, MoveAInv DEF CheckKey, States
    <3> QED
      BY <3>1, <3>2
  <2> QED
    BY <1>2, <2>1, <2>2 DEF CheckKey
<1>3. CASE CheckOIDC(p)
  <2>1. Candidate(req[p]) = NoKey
    BY <1>1, <1>3 DEF PlaceInChain, CheckOIDC
  <2>2. Allowed(p, "oidc") /\ Allowed(p, "invalid")
    BY <1>1, <2>1 DEF Allowed, Verdicts, Refusals
  <2>3. CASE Decide(p, "oidc") \/ Decide(p, "invalid")
    BY <1>3, <2>2, <2>3, DecideAInv DEF CheckOIDC
  <2>4. CASE pc' = [pc EXCEPT ![p] = "bearer"] /\ UNCHANGED <<rows, verdict>>
    BY <1>3, <2>1, <2>4, MoveAInv DEF CheckOIDC, States
  <2> QED
    BY <1>3, <2>3, <2>4 DEF CheckOIDC
<1>4. CASE CheckBearer(p)
  <2>1. Candidate(req[p]) = NoKey
    BY <1>1, <1>4 DEF PlaceInChain, CheckBearer
  <2>2. Allowed(p, "bearer") /\ Allowed(p, "invalid")
    BY <1>1, <2>1 DEF Allowed, Verdicts, Refusals
  <2>3. CASE Decide(p, "bearer") \/ Decide(p, "invalid")
    BY <1>4, <2>2, <2>3, DecideAInv DEF CheckBearer
  <2>4. CASE /\ extractBearer(req[p]) = "none"
             /\ pc' = [pc EXCEPT ![p] = "end"] /\ UNCHANGED <<rows, verdict>>
    BY <1>4, <2>1, <2>4, MoveAInv DEF CheckBearer, States
  <2>5. Decide(p, "bearer") \/ Decide(p, "invalid") \/
          (/\ extractBearer(req[p]) = "none"
           /\ pc' = [pc EXCEPT ![p] = "end"] /\ UNCHANGED <<rows, verdict>>)
    <3>1. CASE extractBearer(req[p]) = "static"
      BY <1>4, <3>1 DEF CheckBearer
    <3>2. CASE extractBearer(req[p]) # "static"
      BY <1>4, <3>2 DEF CheckBearer
    <3> QED
      BY <3>1, <3>2
  <2> QED
    BY <2>3, <2>4, <2>5
<1>5. CASE EndOfChain(p)
  <2>1. Candidate(req[p]) = NoKey /\ extractBearer(req[p]) = "none"
    BY <1>1, <1>5 DEF PlaceInChain, EndOfChain
  <2>2. Allowed(p, "anonymous") /\ Allowed(p, "missing")
    BY <1>1, <2>1 DEF Allowed, Verdicts, Refusals
  <2>3. Decide(p, "anonymous") \/ Decide(p, "missing")
    BY <1>5, AuthAssumption DEF EndOfChain
  <2> QED
    BY <1>5, <2>2, <2>3, DecideAInv DEF EndOfChain
<1> QED
  BY <1>2, <1>3, <1>4, <1>5

\* The SELECT: its rows are those live now.
LEMMA SelectAInv ==
  ASSUME AInv, NEW p \in Callers, Select(p)
  PROVE  AInv'
<1> USE DEF keyVars
<1>1. /\ TypeOK /\ RowsOfOneInstant /\ PlaceInChain
      /\ LiveInBetween /\ FirstCredentialDecides /\ RevokedKeyRefused /\ LiveKeyNeverInvalid
  BY DEF AInv
<1>2. /\ pc[p] = "wantConn" /\ pc' = [pc EXCEPT ![p] = "scan"]
      /\ rows' = [rows EXCEPT ![p] = live]
      /\ UNCHANGED <<req, verdict, live, gone, liveOnce, liveAlways>>
  BY DEF Select
<1>3. /\ pc'[p] = "scan" /\ rows'[p] = live
      /\ \A q \in Callers \ {p} : pc'[q] = pc[q] /\ rows'[q] = rows[q]
  BY <1>1, <1>2 DEF TypeOK
<1>4. TypeOK'
  BY <1>1, <1>2 DEF TypeOK, States
<1>5. LiveInBetween'
  BY <1>1, <1>2 DEF LiveInBetween
<1>6. RowsOfOneInstant'
  BY <1>1, <1>2, <1>3 DEF RowsOfOneInstant, LiveInBetween
<1>7. PlaceInChain'
  BY <1>1, <1>2, <1>3 DEF PlaceInChain
<1>8. FirstCredentialDecides'
  BY <1>1, <1>2, <1>3 DEF FirstCredentialDecides, Answered
<1>9. RevokedKeyRefused'
  BY <1>1, <1>2, <1>3 DEF RevokedKeyRefused, Answered
<1>10. LiveKeyNeverInvalid'
  BY <1>1, <1>2, <1>3 DEF LiveKeyNeverInvalid, Answered
<1> QED
  BY <1>4, <1>5, <1>6, <1>7, <1>8, <1>9, <1>10 DEF AInv

\* The rest of Store.Authenticate.
LEMMA StoreAInv ==
  ASSUME AInv, NEW p \in Callers,
         \/ SelectFails(p) \/ Scan(p)
         \/ TouchAcquire(p) \/ TouchDone(p) \/ TouchCancelled(p)
  PROVE  AInv'
<1> USE DEF keyVars
<1>1. PlaceInChain /\ RowsOfOneInstant
  BY DEF AInv
<1>2. Allowed(p, "error")
  BY DEF Allowed, Verdicts, Refusals
<1>3. CASE SelectFails(p)
  BY <1>2, <1>3, DecideAInv DEF SelectFails
<1>4. CASE Scan(p)
  <2>1. CASE Decide(p, "error")
    BY <1>2, <1>4, <2>1, DecideAInv DEF Scan
  <2>2. CASE Candidate(req[p]) \notin rows[p] /\ Decide(p, "invalid")
    <3>1. Allowed(p, "invalid")
      BY <1>1, <1>4, <2>2 DEF RowsOfOneInstant, Scan, Allowed, Verdicts, Refusals
    <3> QED
      BY <1>4, <2>2, <3>1, DecideAInv DEF Scan
  <2>3. CASE /\ Candidate(req[p]) \in rows[p]
             /\ pc' = [pc EXCEPT ![p] = "wantTouch"] /\ UNCHANGED <<rows, verdict>>
    BY <1>4, <2>3, MoveAInv DEF Scan, States
  <2> QED
    BY <1>4, <2>1, <2>2, <2>3 DEF Scan
<1>5. CASE TouchAcquire(p)
  <2>1. Candidate(req[p]) \in rows[p]
    BY <1>1, <1>5 DEF PlaceInChain, TouchAcquire
  <2> QED
    BY <1>5, <2>1, MoveAInv DEF TouchAcquire, States
<1>6. CASE TouchDone(p) \/ TouchCancelled(p)
  <2>1. Candidate(req[p]) \in rows[p]
    BY <1>1, <1>6 DEF PlaceInChain, TouchDone, TouchCancelled
  <2>2. Allowed(p, "apikey")
    BY <1>1, <2>1 DEF RowsOfOneInstant, Allowed, Verdicts
  <2> QED
    BY <1>6, <2>2, DecideAInv DEF TouchDone, TouchCancelled
<1> QED
  BY <1>3, <1>4, <1>5, <1>6

\* Key management and expiry: the rows change under the running requests.
LEMMA KeysAInv ==
  ASSUME AInv, NEW k \in DBKeys, Create(k) \/ Delete(k) \/ Expire(k)
  PROVE  AInv'
<1>1. /\ TypeOK /\ RowsOfOneInstant /\ PlaceInChain
      /\ LiveInBetween /\ FirstCredentialDecides /\ RevokedKeyRefused /\ LiveKeyNeverInvalid
  BY DEF AInv
<1>2. UNCHANGED <<pc, req, rows, verdict>>
  BY DEF Create, Delete, Expire, RemoveRow
<1>3. \/ /\ live' = live \cup {k} /\ UNCHANGED liveAlways
         /\ liveOnce' = [p \in Callers |-> liveOnce[p] \cup {k}]
      \/ /\ live' = live \ {k} /\ UNCHANGED liveOnce
         /\ liveAlways' = [p \in Callers |-> liveAlways[p] \ {k}]
  BY DEF Create, Delete, Expire, RemoveRow
<1>4. \A p \in Callers :
        liveOnce[p] \subseteq liveOnce'[p] /\ liveAlways'[p] \subseteq liveAlways[p]
  BY <1>3
<1>5. TypeOK'
  BY <1>1, <1>2, <1>3 DEF TypeOK
<1>6. LiveInBetween'
  BY <1>1, <1>3 DEF LiveInBetween
<1>7. RowsOfOneInstant'
  BY <1>1, <1>2, <1>4 DEF RowsOfOneInstant
<1>8. PlaceInChain'
  BY <1>1, <1>2 DEF PlaceInChain
<1>9. FirstCredentialDecides'
  BY <1>1, <1>2 DEF FirstCredentialDecides, Answered
<1>10. RevokedKeyRefused'
  BY <1>1, <1>2, <1>4 DEF RevokedKeyRefused, Answered
<1>11. LiveKeyNeverInvalid'
  BY <1>1, <1>2, <1>4 DEF LiveKeyNeverInvalid, Answered
<1> QED
  BY <1>5, <1>6, <1>7, <1>8, <1>9, <1>10, <1>11 DEF AInv

-----------------------------------------------------------------------------
(* The theorems.                                                           *)

\* In every reachable state a request is where its credentials put it, and the
\* rows it holds are those of one instant of its life.
THEOREM AInvCorrect == Spec => []AInv
<1>1. Init => AInv
  <2> SUFFICES ASSUME Init PROVE AInv
    OBVIOUS
  <2>1. TypeOK
    BY AuthAssumption DEF Init, TypeOK, States, Verdicts, Refusals
  <2>2. LiveInBetween /\ RowsOfOneInstant /\ PlaceInChain
    BY DEF Init, LiveInBetween, RowsOfOneInstant, PlaceInChain
  <2>3. FirstCredentialDecides /\ RevokedKeyRefused /\ LiveKeyNeverInvalid
    BY DEF Init, FirstCredentialDecides, RevokedKeyRefused, LiveKeyNeverInvalid, Answered
  <2> QED
    BY <2>1, <2>2, <2>3 DEF AInv
<1>2. AInv /\ [Next]_vars => AInv'
  <2> SUFFICES ASSUME AInv, [Next]_vars PROVE AInv'
    OBVIOUS
  <2>1. CASE Next
    BY <2>1, BeginAInv, ChainAInv, SelectAInv, StoreAInv, KeysAInv DEF Next
  <2>2. CASE UNCHANGED vars
    <3>1. TypeOK' /\ LiveInBetween' /\ RowsOfOneInstant' /\ PlaceInChain'
      BY <2>2 DEF AInv, vars, TypeOK, LiveInBetween, RowsOfOneInstant, PlaceInChain
    <3>2. FirstCredentialDecides' /\ RevokedKeyRefused' /\ LiveKeyNeverInvalid'
      BY <2>2 DEF AInv, vars, FirstCredentialDecides, RevokedKeyRefused,
                  LiveKeyNeverInvalid, Answered
    <3> QED
      BY <3>1, <3>2 DEF AInv
  <2> QED
    BY <2>1, <2>2
<1> QED
  BY <1>1, <1>2, PTL DEF Spec

\* The chain's order is the order of credentials, on both surfaces, whatever
\* the other requests and the key management do: a presented API key is never
\* passed over, and anonymous access needs the absence of every credential.
THEOREM ChainOrderCorrect == Spec => []FirstCredentialDecides
<1>1. AInv => FirstCredentialDecides
  BY DEF AInv
<1> QED
  BY <1>1, AInvCorrect, PTL

\* Store.Authenticate never accepts a key whose row was deleted or had expired
\* before the request began.
THEOREM RevocationCorrect == Spec => []RevokedKeyRefused
<1>1. AInv => RevokedKeyRefused
  BY DEF AInv
<1> QED
  BY <1>1, AInvCorrect, PTL

\* A failing database or a full pool never turns a live key into an invalid
\* credential on /v1.
THEOREM OutageIsNoVerdict == Spec => []LiveKeyNeverInvalid
<1>1. AInv => LiveKeyNeverInvalid
  BY DEF AInv
<1> QED
  BY <1>1, AInvCorrect, PTL

-----------------------------------------------------------------------------
(* The cache of signing keys.                                              *)

-----------------------------------------------------------------------------
(* Preservation, one lemma per kind of step.                               *)

\* A return forgets the caller's locals and leaves the other callers alone.
LEMMA ReturnForgets ==
  ASSUME JWKSTypeOK, NEW p \in Lookups, NEW key \in Kids \cup {NoKid}, Return(p, key)
  PROVE  /\ at' \in [Lookups -> Stages] /\ at'[p] \in Returned
         /\ kid' \in [Lookups -> Kids \cup {NoKid}]
         /\ cached' \in [Lookups -> Kids \cup {NoKid}] /\ cached'[p] = NoKid
         /\ deadline' \in [Lookups -> Nat]
         /\ startedAt' \in [Lookups -> Nat] /\ startedAt'[p] = 0
         /\ unpublished' \subseteq Lookups
         /\ \A q \in Lookups \ {p} :
              /\ at'[q] = at[q] /\ kid'[q] = kid[q] /\ cached'[q] = cached[q]
              /\ deadline'[q] = deadline[q] /\ startedAt'[q] = startedAt[q]
              /\ q \in unpublished' <=> q \in unpublished
  BY DEF JWKSTypeOK, Return, Stages, Returned

\* A step that ends in a return preserves JInv.
LEMMA ReturnJInv ==
  ASSUME JInv, NEW p \in Lookups, NEW key \in Kids \cup {NoKid}, Return(p, key),
         at[p] # "waiting",
         UNCHANGED <<now, published, cacheVars, leader, fetched, installedAt, absent>>
  PROVE  JInv'
<1> USE DEF cacheVars
<1>0. JWKSTypeOK
  BY DEF JInv
<1>1. JWKSTypeOK'
  <2>1. InFlight' => at'[leader'] = "waiting"
    BY <1>0, ReturnForgets DEF JWKSTypeOK, InFlight
  <2> QED
    BY <1>0, <2>1, ReturnForgets DEF JWKSTypeOK, InFlight
<1>2. LocalsInScope'
  BY <1>0, ReturnForgets DEF JInv, LocalsInScope, JWKSTypeOK
<1>3. CacheHasAge'
  BY DEF JInv, CacheHasAge
<1>4. KeptIsCached'
  BY <1>0, ReturnForgets DEF JInv, KeptIsCached, Returned
<1>5. AbsenceIsNoted'
  BY <1>0, ReturnForgets DEF JInv, AbsenceIsNoted, Returned, InFlight
<1> QED
  BY <1>1, <1>2, <1>3, <1>4, <1>5 DEF JInv

\* A call preserves JInv.
LEMMA CallJInv ==
  ASSUME JInv, NEW p \in Lookups, NEW k \in Kids, Call(p, k)
  PROVE  JInv'
<1> USE DEF cacheVars
<1>0. /\ at[p] \in Returned /\ at' = [at EXCEPT ![p] = "called"]
      /\ kid' = [kid EXCEPT ![p] = k] /\ startedAt' = [startedAt EXCEPT ![p] = now]
      /\ UNCHANGED <<now, published, cacheVars, leader, fetched, cached, deadline,
                     installedAt, absent, unpublished>>
  BY DEF Call
<1>1. JWKSTypeOK'
  BY <1>0 DEF JInv, JWKSTypeOK, InFlight, Stages, Returned
<1>2. LocalsInScope'
  BY <1>0 DEF JInv, JWKSTypeOK, LocalsInScope, Returned
<1>3. CacheHasAge'
  BY <1>0 DEF JInv, CacheHasAge
<1>4. KeptIsCached'
  <2>1. cached[p] = NoKid
    BY <1>0 DEF JInv, LocalsInScope
  <2> QED
    BY <1>0, <2>1 DEF JInv, JWKSTypeOK, KeptIsCached
<1>5. AbsenceIsNoted'
  BY <1>0 DEF JInv, JWKSTypeOK, AbsenceIsNoted, InFlight
<1> QED
  BY <1>1, <1>2, <1>3, <1>4, <1>5 DEF JInv

\* The look at the cache preserves JInv: what is kept is what the cache has.
LEMMA ReadCacheJInv ==
  ASSUME JInv, NEW p \in Lookups, ReadCache(p)
  PROVE  JInv'
<1> USE DEF cacheVars
<1>0. /\ at[p] = "called" /\ kid[p] \in Kids
      /\ UNCHANGED <<now, published, cacheVars, leader, fetched, installedAt, absent>>
  BY DEF ReadCache, JInv, LocalsInScope, Returned
<1>1. CASE Return(p, kid[p])
  BY <1>0, <1>1, ReturnJInv
<1>2. ASSUME at' = [at EXCEPT ![p] = "missed"],
             cached' = [cached EXCEPT ![p] = IF kid[p] \in keys THEN kid[p] ELSE NoKid],
             deadline' = [deadline EXCEPT ![p] = staleOK],
             UNCHANGED <<kid, startedAt, unpublished>>
      PROVE  JInv'
  <2>1. JWKSTypeOK'
    BY <1>0, <1>2 DEF JInv, JWKSTypeOK, InFlight, Stages
  <2>2. LocalsInScope'
    BY <1>0, <1>2 DEF JInv, JWKSTypeOK, LocalsInScope, Returned
  <2>3. CacheHasAge'
    BY <1>0 DEF JInv, CacheHasAge
  <2>4. KeptIsCached'
    <3>1. kid[p] \in keys => staleOK = installedAt[kid[p]] + TTL + StaleGrace
      BY <1>0, JWKSAssumption DEF JInv, CacheHasAge, JWKSTypeOK
    <3>2. staleOK \in Nat /\ cached'[p] = (IF kid[p] \in keys THEN kid[p] ELSE NoKid)
          /\ deadline'[p] = staleOK /\ at'[p] = "missed"
      BY <1>2 DEF JInv, JWKSTypeOK
    <3>3. \A q \in Lookups \ {p} : at'[q] = at[q] /\ cached'[q] = cached[q]
                                  /\ deadline'[q] = deadline[q]
      BY <1>2 DEF JInv, JWKSTypeOK
    <3> QED
      BY <1>0, <1>2, <3>1, <3>2, <3>3 DEF JInv, KeptIsCached
  <2>5. AbsenceIsNoted'
    BY <1>0, <1>2 DEF JInv, JWKSTypeOK, AbsenceIsNoted, InFlight
  <2> QED
    BY <2>1, <2>2, <2>3, <2>4, <2>5 DEF JInv
<1> QED
  BY <1>1, <1>2 DEF ReadCache

\* Joining a flight or leading one preserves JInv: absent starts with what is
\* not published at that instant.
LEMMA DoJInv ==
  ASSUME JInv, NEW p \in Lookups, Do(p)
  PROVE  JInv'
<1> USE DEF cacheVars
<1>0. /\ at[p] = "missed" /\ at' = [at EXCEPT ![p] = "waiting"]
      /\ unpublished' = IF kid[p] \in absent' THEN unpublished \cup {p} ELSE unpublished
      /\ UNCHANGED <<now, published, cacheVars, fetched, kid, cached, deadline,
                     startedAt, installedAt>>
  BY DEF Do
<1>1. \/ InFlight /\ leader' = leader /\ absent' = absent
      \/ ~InFlight /\ leader' = p /\ absent' = Kids \ published
  BY DEF Do
<1>2. JWKSTypeOK'
  <2>1. /\ leader' \in Lookups \cup {NoLookup} /\ absent' \subseteq Kids
        /\ InFlight' /\ at'[leader'] = "waiting"
    BY <1>0, <1>1, JWKSAssumption DEF JInv, JWKSTypeOK, InFlight
  <2> QED
    BY <1>0, <2>1 DEF JInv, JWKSTypeOK, Stages
<1>3. LocalsInScope'
  BY <1>0 DEF JInv, JWKSTypeOK, LocalsInScope, Returned
<1>4. CacheHasAge'
  BY <1>0 DEF JInv, CacheHasAge
<1>5. KeptIsCached'
  BY <1>0 DEF JInv, JWKSTypeOK, KeptIsCached
<1>6. AbsenceIsNoted'
  <2>1. fetched # {NoKid} => InFlight
    BY DEF JInv, JWKSTypeOK
  <2>2. Kids \ published \subseteq absent'
    BY <1>1 DEF JInv, AbsenceIsNoted
  <2>3. fetched # {NoKid} => Kids \ fetched \subseteq absent'
    BY <1>1, <2>1 DEF JInv, AbsenceIsNoted
  <2>4. kid[p] \in Kids /\ (kid[p] \notin published => kid[p] \in absent')
    BY <1>0, <2>2 DEF JInv, LocalsInScope, Returned
  <2>5. ASSUME NEW q \in Lookups \ {p}, at[q] \in {"waiting", "refreshed"},
               kid[q] \notin published \/ kid[q] \in absent'
        PROVE  q \in unpublished
    BY <1>1, <2>5 DEF JInv, AbsenceIsNoted
  <2>6. at'[p] = "waiting" /\ \A q \in Lookups \ {p} : at'[q] = at[q]
    BY <1>0 DEF JInv, JWKSTypeOK
  <2>7. p \in unpublished' <=> p \in unpublished \/ kid[p] \in absent'
    BY <1>0
  <2>8. unpublished \subseteq unpublished'
    BY <1>0
  <2>9. ASSUME NEW q \in Lookups
        PROVE  /\ at'[q] \in {"waiting", "refreshed"} =>
                    (kid[q] \notin published \/ kid[q] \in absent' => q \in unpublished')
               /\ at'[q] = "refreshed" => (kid[q] \notin keys => q \in unpublished')
    <3>1. CASE q = p
      BY <2>4, <2>6, <2>7, <3>1
    <3>2. CASE q # p
      BY <2>5, <2>6, <2>8, <3>2 DEF JInv, AbsenceIsNoted
    <3> QED
      BY <3>1, <3>2
  <2> QED
    BY <1>0, <2>2, <2>3, <2>9 DEF AbsenceIsNoted
<1> QED
  BY <1>2, <1>3, <1>4, <1>5, <1>6 DEF JInv

\* The answer to the GET preserves JInv: a kid it lacks is unpublished now.
LEMMA FetchJInv ==
  ASSUME JInv, Fetch
  PROVE  JInv'
<1> USE DEF cacheVars, callVars
<1>0. /\ InFlight /\ fetched' = published
      /\ UNCHANGED <<now, published, cacheVars, leader, at, callVars, installedAt, absent>>
  BY DEF Fetch
<1>1. JWKSTypeOK'
  BY <1>0 DEF JInv, JWKSTypeOK, InFlight
<1>2. LocalsInScope' /\ CacheHasAge' /\ KeptIsCached'
  BY <1>0 DEF JInv, LocalsInScope, CacheHasAge, KeptIsCached
<1>3. AbsenceIsNoted'
  BY <1>0 DEF JInv, AbsenceIsNoted, InFlight
<1> QED
  BY <1>1, <1>2, <1>3 DEF JInv

\* Installing the document preserves JInv: every call under way began before
\* now, so the new times satisfy what any of them may need.
LEMMA InstallJInv ==
  ASSUME JInv, Install
  PROVE  JInv'
<1> USE DEF cacheVars, callVars
<1>0. /\ InFlight /\ fetched # {NoKid}
      /\ keys' = fetched /\ expiresAt' = now + TTL /\ staleOK' = now + TTL + StaleGrace
      /\ installedAt' = [k \in Kids |-> IF k \in fetched THEN now ELSE installedAt[k]]
      /\ leader' = NoLookup /\ fetched' = {NoKid} /\ absent' = {}
      /\ at' = [p \in Lookups |-> IF at[p] = "waiting" THEN "refreshed" ELSE at[p]]
      /\ UNCHANGED <<now, published, callVars>>
  BY DEF Install, Land
<1>1. /\ now \in Nat /\ TTL \in Nat /\ StaleGrace \in Nat
      /\ fetched \subseteq Kids
      /\ \A k \in Kids : installedAt[k] \in Nat
      /\ \A p \in Lookups : startedAt[p] \in Nat /\ startedAt[p] <= now /\ deadline[p] \in Nat
  BY <1>0, JWKSAssumption DEF JInv, JWKSTypeOK, LocalsInScope
<1>2. JWKSTypeOK'
  BY <1>0, <1>1 DEF JInv, JWKSTypeOK, InFlight, Stages
<1>3. LocalsInScope'
  BY <1>0 DEF JInv, LocalsInScope, Returned
<1>4. CacheHasAge'
  BY <1>0, <1>1 DEF JInv, CacheHasAge
<1>5. KeptIsCached'
  <2> SUFFICES ASSUME NEW p \in Lookups
               PROVE  /\ cached[p] # NoKid =>
                           /\ cached[p] = kid[p]
                           /\ deadline[p] <= installedAt'[kid[p]] + TTL + StaleGrace
                      /\ expiresAt' >= startedAt[p] + TTL
    BY <1>0 DEF KeptIsCached
  <2>1. expiresAt' >= startedAt[p] + TTL
    BY SMTT(30), <1>0, <1>1
  <2>2. ASSUME cached[p] # NoKid
        PROVE  /\ cached[p] = kid[p] /\ kid[p] \in Kids
               /\ deadline[p] <= installedAt[kid[p]] + TTL + StaleGrace
               /\ installedAt[kid[p]] <= now
    BY <2>2 DEF JInv, KeptIsCached, CacheHasAge, LocalsInScope, JWKSTypeOK
  <2>3. ASSUME cached[p] # NoKid
        PROVE  installedAt[kid[p]] <= installedAt'[kid[p]] /\ installedAt'[kid[p]] \in Nat
    BY <1>0, <1>1, <2>2, <2>3
  <2> QED
    BY <1>1, <2>1, <2>2, <2>3
<1>6. AbsenceIsNoted'
  <2>1. \A p \in Lookups : at[p] \in {"waiting", "refreshed"} /\ kid[p] \notin fetched =>
                             p \in unpublished
    BY <1>0 DEF JInv, AbsenceIsNoted, LocalsInScope, Returned
  <2>2. \A p \in Lookups : at'[p] \in {"waiting", "refreshed"} =>
                             at[p] \in {"waiting", "refreshed"}
    BY <1>0
  <2>3. \A p \in Lookups : at[p] \in {"waiting", "refreshed"} /\ kid[p] \notin published =>
                             p \in unpublished
    BY DEF JInv, AbsenceIsNoted
  <2> QED
    BY <1>0, <2>1, <2>2, <2>3 DEF AbsenceIsNoted, InFlight
<1> QED
  BY <1>2, <1>3, <1>4, <1>5, <1>6 DEF JInv

\* A failed fetch preserves JInv.
LEMMA FetchFailsJInv ==
  ASSUME JInv, FetchFails
  PROVE  JInv'
<1> USE DEF cacheVars, callVars
<1>0. /\ leader' = NoLookup /\ fetched' = {NoKid} /\ absent' = {}
      /\ at' = [p \in Lookups |-> IF at[p] = "waiting" THEN "failed" ELSE at[p]]
      /\ UNCHANGED <<now, published, cacheVars, callVars, installedAt>>
  BY DEF FetchFails, Land
<1>1. JWKSTypeOK'
  BY <1>0 DEF JInv, JWKSTypeOK, InFlight, Stages
<1>2. LocalsInScope'
  BY <1>0 DEF JInv, LocalsInScope, Returned
<1>3. CacheHasAge'
  BY <1>0 DEF JInv, CacheHasAge
<1>4. KeptIsCached'
  BY <1>0 DEF JInv, KeptIsCached
<1>5. AbsenceIsNoted'
  BY <1>0 DEF JInv, AbsenceIsNoted, InFlight
<1> QED
  BY <1>1, <1>2, <1>3, <1>4, <1>5 DEF JInv

\* Time and the provider preserve JInv: a rotation is noted for every call that
\* has joined a flight.
LEMMA WorldJInv ==
  ASSUME JInv, Tick \/ \E doc \in SUBSET Kids : Rotate(doc)
  PROVE  JInv'
<1> USE DEF cacheVars, callVars
<1>1. CASE Tick
  <2>0. /\ now' = now + 1
        /\ UNCHANGED <<published, cacheVars, leader, fetched, at, callVars, installedAt, absent>>
    BY <1>1 DEF Tick
  <2>1. JWKSTypeOK'
    BY <2>0 DEF JInv, JWKSTypeOK, InFlight
  <2>2. LocalsInScope' /\ CacheHasAge'
    BY <2>0 DEF JInv, JWKSTypeOK, LocalsInScope, CacheHasAge
  <2>3. KeptIsCached' /\ AbsenceIsNoted'
    BY <2>0 DEF JInv, KeptIsCached, AbsenceIsNoted, InFlight
  <2> QED
    BY <2>1, <2>2, <2>3 DEF JInv
<1>2. ASSUME NEW doc \in SUBSET Kids, Rotate(doc)
      PROVE  JInv'
  <2>0. /\ published' = doc
        /\ absent' = IF InFlight THEN absent \cup (Kids \ doc) ELSE absent
        /\ unpublished' = unpublished \cup
             {p \in Lookups : at[p] \in {"waiting", "refreshed", "failed"} /\ kid[p] \notin doc}
        /\ UNCHANGED <<now, cacheVars, leader, fetched, at, kid, cached, deadline,
                       startedAt, installedAt>>
    BY <1>2 DEF Rotate
  <2>1. JWKSTypeOK'
    BY <2>0 DEF JInv, JWKSTypeOK, InFlight
  <2>2. LocalsInScope' /\ CacheHasAge' /\ KeptIsCached'
    BY <2>0 DEF JInv, LocalsInScope, CacheHasAge, KeptIsCached
  <2>3. AbsenceIsNoted'
    BY <2>0 DEF JInv, JWKSTypeOK, AbsenceIsNoted, InFlight
  <2> QED
    BY <2>1, <2>2, <2>3 DEF JInv
<1> QED
  BY <1>1, <1>2

\* Every step preserves JInv.
LEMMA StepJInv ==
  ASSUME JInv, [JWKSNext]_jwksVars
  PROVE  JInv'
<1>1. ASSUME NEW p \in Lookups, AfterRefresh(p) \/ AfterFailure(p)
      PROVE  JInv'
  <2>1. /\ at[p] # "waiting"
        /\ UNCHANGED <<now, published, cacheVars, leader, fetched, installedAt, absent>>
    BY <1>1 DEF AfterRefresh, AfterFailure
  <2>2. \E key \in Kids \cup {NoKid} : Return(p, key)
    <3>1. /\ (IF kid[p] \in keys THEN kid[p] ELSE NoKid) \in Kids \cup {NoKid}
          /\ (IF now < deadline[p] THEN cached[p] ELSE NoKid) \in Kids \cup {NoKid}
      BY DEF JInv, JWKSTypeOK
    <3> QED
      BY <1>1, <3>1 DEF AfterRefresh, AfterFailure
  <2> QED
    BY <2>1, <2>2, ReturnJInv
<1>2. CASE UNCHANGED jwksVars
  BY <1>2 DEF jwksVars, JInv, JWKSTypeOK, LocalsInScope, CacheHasAge, KeptIsCached, AbsenceIsNoted,
              InFlight
<1> QED
  BY <1>1, <1>2, CallJInv, ReadCacheJInv, DoJInv, FetchJInv, InstallJInv, FetchFailsJInv,
     WorldJInv DEF JWKSNext, CallerStep

-----------------------------------------------------------------------------
(* The theorems.                                                           *)

\* JInv holds in every reachable state.
THEOREM JInvCorrect == JWKSSpec => []JInv
<1>1. ASSUME JWKSInit
      PROVE  JInv
  <2> USE JWKSAssumption DEF JWKSInit
  <2>1. JWKSTypeOK
    BY <1>1 DEF JWKSTypeOK, InFlight, Stages
  <2>2. LocalsInScope /\ CacheHasAge /\ KeptIsCached /\ AbsenceIsNoted
    BY <1>1 DEF LocalsInScope, CacheHasAge, KeptIsCached, AbsenceIsNoted, InFlight, Returned
  <2> QED
    BY <2>1, <2>2 DEF JInv
<1>2. JInv /\ [JWKSNext]_jwksVars => JInv'
  BY StepJInv
<1> QED
  BY <1>1, <1>2, PTL DEF JWKSSpec

\* A call ends only with the cache fresh, after a refresh or after a failed one;
\* every other step leaves its at unreturned.
LEMMA HowCallsEnd ==
  ASSUME JInv, [JWKSNext]_jwksVars, NEW p \in Lookups, at[p] \notin Returned, at'[p] \in Returned
  PROVE  \/ at[p] = "called" /\ now < expiresAt /\ kid[p] \in keys /\ at'[p] = "accepted"
         \/ AfterRefresh(p)
         \/ AfterFailure(p)
<1>0. at \in [Lookups -> Stages]
  BY DEF JInv, JWKSTypeOK
<1>1. ASSUME NEW q \in Lookups, NEW k \in Kids, Call(q, k)
      PROVE  FALSE
  BY <1>0, <1>1 DEF Call, Returned
<1>2. ASSUME NEW q \in Lookups, CallerStep(q), q # p
      PROVE  FALSE
  BY <1>0, <1>2 DEF CallerStep, ReadCache, Do, AfterRefresh, AfterFailure, Return
<1>3. CASE ReadCache(p)
  <2>1. kid[p] # NoKid
    BY <1>3, JWKSAssumption DEF ReadCache, JInv, LocalsInScope, Returned
  <2> QED
    BY <1>0, <1>3, <2>1 DEF ReadCache, Return, Returned
<1>4. CASE Do(p)
  BY <1>0, <1>4 DEF Do, Returned
<1>5. CASE Fetch \/ Tick \/ (\E doc \in SUBSET Kids : Rotate(doc)) \/ UNCHANGED jwksVars
  BY <1>5 DEF Fetch, Tick, Rotate, jwksVars
<1>6. CASE Install \/ FetchFails
  BY <1>0, <1>6 DEF Install, FetchFails, Land, Returned
<1> QED
  BY <1>1, <1>2, <1>3, <1>4, <1>5, <1>6 DEF JWKSNext, CallerStep

\* What publicKey accepts was installed during the call or less than TTL plus
\* grace ago.
THEOREM AcceptsRecent == JWKSSpec => AcceptsOnlyRecentKeys
<1>1. ASSUME JInv, [JWKSNext]_jwksVars, NEW p \in Lookups, Accepts(p)
      PROVE  Recent(p)
  <2>0. /\ at[p] \notin Returned /\ at'[p] = "accepted" /\ at'[p] \in Returned
        /\ kid[p] \in Kids /\ installedAt[kid[p]] \in Nat /\ startedAt[p] \in Nat
        /\ now \in Nat /\ TTL \in Nat /\ StaleGrace \in Nat /\ deadline[p] \in Nat
    BY <1>1, JWKSAssumption DEF Accepts, Returned, JInv, LocalsInScope, JWKSTypeOK
  <2>1. CASE at[p] = "called" /\ now < expiresAt /\ kid[p] \in keys
    <3>1. installedAt[kid[p]] + TTL = expiresAt
      BY <1>1, <2>1 DEF JInv, CacheHasAge
    <3> QED
      BY <2>0, <2>1, <3>1 DEF Recent
  <2>2. CASE AfterRefresh(p)
    <3>0. at \in [Lookups -> Stages]
      BY <1>1 DEF JInv, JWKSTypeOK
    <3>1. kid[p] \in keys
      BY <2>0, <2>2, <3>0 DEF AfterRefresh, Return
    <3>2. installedAt[kid[p]] + TTL = expiresAt /\ expiresAt >= startedAt[p] + TTL
      BY <1>1, <2>2, <3>1 DEF AfterRefresh, JInv, CacheHasAge, KeptIsCached
    <3> QED
      BY <2>0, <3>2 DEF Recent, InstalledMeanwhile
  <2>3. CASE AfterFailure(p)
    <3>0. at \in [Lookups -> Stages]
      BY <1>1 DEF JInv, JWKSTypeOK
    <3>1. now < deadline[p] /\ cached[p] # NoKid
      BY <2>0, <2>3, <3>0 DEF AfterFailure, Return
    <3>2. deadline[p] <= installedAt[kid[p]] + TTL + StaleGrace
      BY <1>1, <3>1 DEF JInv, KeptIsCached
    <3> QED
      BY SMTT(30), <2>0, <3>1, <3>2 DEF Recent
  <2> QED
    BY <1>1, <2>0, <2>1, <2>2, <2>3, HowCallsEnd
<1>2. JInv /\ [JWKSNext]_jwksVars => [\A p \in Lookups : Accepts(p) => Recent(p)]_jwksVars
  BY <1>1
<1> QED
  BY <1>2, JInvCorrect, PTL DEF JWKSSpec, AcceptsOnlyRecentKeys

\* A failed refresh costs no caller a key that the cache still may serve, unless
\* that key arrived after the call began.
THEOREM OutageRiddenOut == JWKSSpec => RidesOutOutage
<1>1. ASSUME JInv, [JWKSNext]_jwksVars, NEW p \in Lookups,
             Refuses(p), at[p] = "failed", kid[p] \in keys, now < staleOK
      PROVE  InstalledMeanwhile(p)
  <2>0. /\ kid[p] \in Kids /\ kid[p] # NoKid
        /\ installedAt[kid[p]] \in Nat /\ startedAt[p] \in Nat /\ TTL \in Nat
        /\ installedAt[kid[p]] + TTL = expiresAt
    BY <1>1, JWKSAssumption DEF JInv, JWKSTypeOK, CacheHasAge
  <2>1. AfterFailure(p)
    <3>1. at[p] \notin Returned /\ at'[p] \in Returned /\ ~AfterRefresh(p) /\ at[p] # "called"
      BY <1>1 DEF Refuses, Returned, AfterRefresh
    <3> QED
      BY <1>1, <3>1, HowCallsEnd
  <2>2. ~(now < deadline[p]) \/ cached[p] = NoKid
    BY <1>1, <2>1 DEF AfterFailure, Return, Refuses, JInv, JWKSTypeOK
  <2>3. expiresAt >= startedAt[p] + TTL
    BY <1>1, <2>0, <2>2 DEF JInv, KeptIsCached
  <2> QED
    BY <2>0, <2>3 DEF InstalledMeanwhile
<1>2. JInv /\ [JWKSNext]_jwksVars =>
        [\A p \in Lookups :
           Refuses(p) /\ at[p] = "failed" /\ kid[p] \in keys /\ now < staleOK
           => InstalledMeanwhile(p)]_jwksVars
  BY <1>1
<1> QED
  BY <1>2, JInvCorrect, PTL DEF JWKSSpec, RidesOutOutage

\* After a refresh a call is refused only if its kid was unpublished at some
\* instant since that refresh took off.
THEOREM RotationSeen == JWKSSpec => RefreshSeesRotation
<1>1. ASSUME JInv, [JWKSNext]_jwksVars, NEW p \in Lookups, Refuses(p), at[p] = "refreshed"
      PROVE  p \in unpublished
  <2>1. AfterRefresh(p)
    <3>1. at[p] \notin Returned /\ at'[p] \in Returned /\ ~AfterFailure(p) /\ at[p] # "called"
      BY <1>1 DEF Refuses, Returned, AfterFailure
    <3> QED
      BY <1>1, <3>1, HowCallsEnd
  <2>2. kid[p] \in Kids /\ kid[p] # NoKid
    BY <1>1, JWKSAssumption DEF JInv, LocalsInScope, Returned
  <2>3. kid[p] \notin keys
    BY <1>1, <2>1, <2>2 DEF AfterRefresh, Return, Refuses, JInv, JWKSTypeOK
  <2> QED
    BY <1>1, <2>3 DEF JInv, AbsenceIsNoted
<1>2. JInv /\ [JWKSNext]_jwksVars =>
        [\A p \in Lookups : Refuses(p) /\ at[p] = "refreshed" => p \in unpublished]_jwksVars
  BY <1>1
<1> QED
  BY <1>2, JInvCorrect, PTL DEF JWKSSpec, RefreshSeesRotation
=============================================================================
