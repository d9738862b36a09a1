------------------------------ MODULE Routing -------------------------------
(***************************************************************************)
(* How a request finds its handler and its name.  buildRegistry            *)
(* (internal/server/server.go) adds the enabled endpoint groups to the     *)
(* registry (pkg/endpoints/registry.go), oapi.Build makes the document of  *)
(* their routes, SelfCheck compares the two, and BuildMux                  *)
(* (pkg/httpsrv/mux.go) mounts the patterns.  Each group lists its routes  *)
(* twice: Routes() is what the catalogue, the document and the audit rows  *)
(* know, Mount() what the mux serves.                                      *)
(*                                                                         *)
(* A path is the sequence of its segments.  A segment of a request is the  *)
(* sequence of the pieces between its escaped slashes, <<"a", "b">> for    *)
(* a%2Fb.  slash says that the path ends with a slash.                     *)
(***************************************************************************)
EXTENDS Naturals, Sequences, FiniteSets, Functions

CONSTANTS Setups,      \* configurations: the enabled groups, the portal, its login
          Requests,    \* what clients send
          Verbs,       \* what Try-It may name instead of the route's method
          Values       \* what Try-It may put in the place of a path parameter

Empty == ""
Segments == Seq(STRING) \ {<<>>}

VARIABLES
  setup,     \* the configuration that Build reads
  stage,     \* where Build is, then "serving"
  groups,    \* Registry.groups: the names of the groups added so far
  request,   \* the request the mux got
  answer,    \* what became of it: [to, pattern, row]
  tried      \* the route that Try-It was asked for

rvars == <<setup, stage, groups, request, answer, tried>>

-----------------------------------------------------------------------------
(* The groups.                                                             *)

Route(name, method, path) == [name |-> name, method |-> method, path |-> path]
Pattern(method, path) == [method |-> method, path |-> path, tree |-> FALSE]
Tree(method, path) == [method |-> method, path |-> path, tree |-> TRUE]

identity_Routes ==
  <<Route("whoami", "GET", <<"v1", "whoami">>), Route("headers", "GET", <<"v1", "headers">>)>>
identity_Mount == <<Pattern("GET", <<"v1", "whoami">>), Pattern("GET", <<"v1", "headers">>)>>

data_Routes ==
  <<Route("fixed", "GET", <<"v1", "fixed", "<key>">>), Route("sized", "GET", <<"v1", "sized">>),
    Route("lorem", "GET", <<"v1", "lorem">>)>>
data_Mount ==
  <<Pattern("GET", <<"v1", "fixed", "<key>">>), Pattern("GET", <<"v1", "sized">>),
    Pattern("GET", <<"v1", "lorem">>)>>

failure_Routes ==
  <<Route("status", "GET", <<"v1", "status", "<code>">>), Route("slow", "GET", <<"v1", "slow">>),
    Route("flaky", "GET", <<"v1", "flaky">>)>>
failure_Mount ==
  <<Pattern("GET", <<"v1", "status", "<code>">>), Pattern("GET", <<"v1", "slow">>),
    Pattern("GET", <<"v1", "flaky">>)>>

echo_Names == <<"echo_get", "echo_post", "echo_put", "echo_patch", "echo_delete", "echo_head">>
echo_Verbs == <<"GET", "POST", "PUT", "PATCH", "DELETE", "HEAD">>
echo_Routes == [i \in 1..Len(echo_Verbs) |-> Route(echo_Names[i], echo_Verbs[i], <<"v1", "echo">>)]
echo_Mount == [i \in 1..Len(echo_Verbs) |-> Pattern(echo_Verbs[i], <<"v1", "echo">>)]

supportedMethods == <<"GET", "POST", "PUT", "PATCH", "DELETE", "HEAD", "OPTIONS">>
methods_Names ==
  <<"method_get", "method_post", "method_put", "method_patch", "method_delete", "method_head",
    "method_options">>
methods_Routes ==
  [i \in 1..Len(supportedMethods) |->
     Route(methods_Names[i], supportedMethods[i], <<"v1", "method", "echo">>)]
methods_Mount ==
  [i \in 1..Len(supportedMethods) |-> Pattern(supportedMethods[i], <<"v1", "method", "echo">>)]

streaming_Routes ==
  <<Route("streaming_chunked", "GET", <<"v1", "streaming", "chunked">>),
    Route("streaming_sse", "GET", <<"v1", "streaming", "sse">>),
    Route("streaming_ndjson", "GET", <<"v1", "streaming", "ndjson">>)>>
streaming_Mount ==
  <<Pattern("GET", <<"v1", "streaming", "chunked">>), Pattern("GET", <<"v1", "streaming", "sse">>),
    Pattern("GET", <<"v1", "streaming", "ndjson">>)>>

pagination_Routes ==
  <<Route("pagination_link", "GET", <<"v1", "pagination", "link">>),
    Route("pagination_odata", "GET", <<"v1", "pagination", "odata">>),
    Route("pagination_cursor", "GET", <<"v1", "pagination", "cursor">>)>>
pagination_Mount ==
  <<Pattern("GET", <<"v1", "pagination", "link">>), Pattern("GET", <<"v1", "pagination", "odata">>),
    Pattern("GET", <<"v1", "pagination", "cursor">>)>>

security_Routes ==
  <<Route("security_admin", "GET", <<"v1", "security", "admin", "secret">>),
    Route("security_fetch", "GET", <<"v1", "security", "fetch">>),
    Route("security_big_headers", "GET", <<"v1", "security", "big-headers">>),
    Route("security_redirect_to", "POST", <<"v1", "security", "redirect-to">>),
    Route("security_control_chars", "GET", <<"v1", "security", "control-chars">>)>>
security_Mount ==
  <<Pattern("GET", <<"v1", "security", "admin", "secret">>),
    Pattern("GET", <<"v1", "security", "fetch">>),
    Pattern("GET", <<"v1", "security", "big-headers">>),
    Pattern("POST", <<"v1", "security", "redirect-to">>),
    Pattern("GET", <<"v1", "security", "control-chars">>)>>

export_Routes ==
  <<Route("export_big_body", "GET", <<"v1", "export", "big-body">>),
    Route("export_csv", "GET", <<"v1", "export", "csv">>),
    Route("export_long_running", "GET", <<"v1", "export", "long-running">>)>>
export_Mount ==
  <<Pattern("GET", <<"v1", "export", "big-body">>), Pattern("GET", <<"v1", "export", "csv">>),
    Pattern("GET", <<"v1", "export", "long-running">>)>>

Routes ==
  [identity |-> identity_Routes, data |-> data_Routes, failure |-> failure_Routes,
   echo |-> echo_Routes, streaming |-> streaming_Routes, pagination |-> pagination_Routes,
   methods |-> methods_Routes, security |-> security_Routes, export |-> export_Routes]
\* The order in which buildRegistry looks at the groups.
buildRegistry ==
  <<"identity", "data", "failure", "echo", "streaming", "pagination", "methods", "security",
    "export">>

-----------------------------------------------------------------------------
(* The registry.                                                           *)

\* The places of the members of a family of lists, in the order of reading, and
\* the first of a set of places.
Places(lists) == UNION {{i} \X DOMAIN lists[i] : i \in DOMAIN lists}

Earlier(p, q) == p[1] < q[1] \/ (p[1] = q[1] /\ p[2] < q[2])

First(places) == CHOOSE p \in places : \A q \in places : q = p \/ Earlier(p, q)

\* Registry.flat and Registry.All: the lists of the groups, and what is at a place.
All == [i \in 1..Len(groups) |-> Routes[groups[i]]]

meta(p) == All[p[1]][p[2]]

\* A parameter {key} of a path is the segment "<key>".
Wildcards == {"<key>", "<code>", "<name>", "<id>", "<group>", "<route>"}

matchLiterally(pattern, segs) == pattern = segs

matchSegments(pattern, segs) ==
  /\ Len(pattern) = Len(segs)
  /\ \A i \in 1..Len(pattern) : pattern[i] \in Wildcards \/ pattern[i] = segs[i]

\* The decoded path, split at every slash, without empty segments.
splitPathSegments(segs) ==
  LET pieces == {p \in Places(segs) : segs[p[1]][p[2]] # Empty}
      nth(k) == CHOOSE p \in pieces : Cardinality({q \in pieces : Earlier(q, p)}) = k - 1
  IN  [k \in 1..Cardinality(pieces) |-> segs[nth(k)[1]][nth(k)[2]]]

NoRoute == <<Empty, Empty>>

RouteForRequest(method, segs) ==
  LET path == splitPathSegments(segs)
      hits == {p \in Places(All) : meta(p).method = method /\ matchSegments(meta(p).path, path)}
  IN  IF hits = {} THEN NoRoute ELSE <<groups[First(hits)[1]], meta(First(hits)).name>>

-----------------------------------------------------------------------------
(* The document.                                                           *)

assignNoOptions(method) == method \in {"GET", "POST", "PUT", "PATCH", "DELETE", "HEAD"}

\* The methods that have a place in a PathItem; for any other one the operation
\* is dropped.
assignOperation(method) ==
  method \in {"GET", "POST", "PUT", "PATCH", "DELETE", "HEAD", "OPTIONS"}

registryRouteSet == {<<meta(p).method, meta(p).path>> : p \in Places(All)}
docRouteSet == {r \in registryRouteSet : assignOperation(r[1])}

SelfCheck == docRouteSet = registryRouteSet

-----------------------------------------------------------------------------
(* http.ServeMux, with the rules that decide which pattern gets a request  *)
(* and which two patterns it panics over.                                  *)

MethodCovers(m, n) == m = n \/ (m = "GET" /\ n = "HEAD")

SegmentCovers(s, t) == s \in Wildcards \/ s = t

\* Pattern p gets every request that r gets.
Covers(p, r) ==
  /\ MethodCovers(p.method, r.method)
  /\ \/ p.tree /\ Len(p.path) < Len(r.path)
     \/ p.tree = r.tree /\ Len(p.path) = Len(r.path)
  /\ \A i \in 1..Len(p.path) : SegmentCovers(p.path[i], r.path[i])

\* Some request is for both.
Overlap(p, r) ==
  LET short == IF Len(p.path) <= Len(r.path) THEN p ELSE r
  IN  /\ MethodCovers(p.method, r.method) \/ MethodCovers(r.method, p.method)
      /\ IF Len(p.path) = Len(r.path) THEN p.tree = r.tree ELSE short.tree
      /\ \A i \in 1..Len(short.path) :
           SegmentCovers(p.path[i], r.path[i]) \/ SegmentCovers(r.path[i], p.path[i])

Conflict(p, r) == Overlap(p, r) /\ (Covers(p, r) <=> Covers(r, p))

Matches(p, r) ==
  /\ MethodCovers(p.method, r.method)
  /\ \/ p.tree /\ Len(p.path) < Len(r.segs)
     \/ p.tree = r.slash /\ Len(p.path) = Len(r.segs)
  /\ \A i \in 1..Len(p.path) : p.path[i] \in Wildcards \/ <<p.path[i]>> = r.segs[i]

\* The mux redirects to the path without these segments.
Unclean(r) == \E i \in 1..Len(r.segs) : r.segs[i] \in {<<Empty>>, <<".">>, <<"..">>}

-----------------------------------------------------------------------------
(* BuildMux.                                                               *)

BrowserAuth_Mount ==
  <<Pattern("GET", <<"portal", "auth", "login">>), Pattern("GET", <<"portal", "auth", "callback">>),
    Pattern("POST", <<"portal", "auth", "logout">>)>>

PortalAPI_Mount ==
  <<Pattern("GET", <<"api", "v1", "portal", "me">>),
    Pattern("GET", <<"api", "v1", "portal", "server">>),
    Pattern("GET", <<"api", "v1", "portal", "wellknown">>),
    Pattern("GET", <<"api", "v1", "portal", "dashboard">>),
    Pattern("GET", <<"api", "v1", "portal", "endpoints">>),
    Pattern("GET", <<"api", "v1", "portal", "endpoints", "<name>">>),
    Pattern("GET", <<"api", "v1", "portal", "audit", "meta">>),
    Pattern("GET", <<"api", "v1", "portal", "audit", "events">>),
    Pattern("GET", <<"api", "v1", "portal", "audit", "events", "<id>">>),
    Pattern("GET", <<"api", "v1", "portal", "audit", "timeseries">>),
    Pattern("GET", <<"api", "v1", "portal", "audit", "breakdown">>),
    Pattern("GET", <<"api", "v1", "portal", "audit", "stats">>),
    Pattern("GET", <<"api", "v1", "portal", "audit", "stream">>),
    Pattern("GET", <<"api", "v1", "portal", "audit", "export.ndjson">>),
    Pattern("POST", <<"api", "v1", "portal", "audit", "replay", "<id>">>),
    Pattern("POST", <<"api", "v1", "portal", "tryit", "<group>", "<route>">>),
    Pattern("GET", <<"api", "v1", "admin", "keys">>),
    Pattern("POST", <<"api", "v1", "admin", "keys">>),
    Pattern("DELETE", <<"api", "v1", "admin", "keys", "<name>">>)>>

mountOpenAPI ==
  <<Pattern("GET", <<"openapi.json">>), Pattern("GET", <<"openapi.yaml">>),
    Pattern("GET", <<"docs">>)>>

\* The parts of the mux, the groups first.
Mounts ==
  [identity |-> identity_Mount, data |-> data_Mount, failure |-> failure_Mount,
   echo |-> echo_Mount, streaming |-> streaming_Mount, pagination |-> pagination_Mount,
   methods |-> methods_Mount, security |-> security_Mount, export |-> export_Mount,
   health |-> <<Pattern("GET", <<"healthz">>), Pattern("GET", <<"readyz">>)>>,
   openapi |-> mountOpenAPI,
   metadata |-> <<Pattern("GET", <<".well-known", "oauth-protected-resource">>),
                  Pattern("GET", <<".well-known", "oauth-authorization-server">>)>>,
   login |-> BrowserAuth_Mount, api |-> PortalAPI_Mount,
   spa |-> <<Tree("GET", <<"portal">>)>>, root |-> <<Tree("GET", <<>>)>>]

PortalParts == {"metadata", "api", "spa"} \cup {part \in {"login"} : setup.login}

BuildMux ==
  [part \in {"health", "openapi", "root"} \cup Range(groups)
            \cup (IF setup.portal THEN PortalParts ELSE {}) |-> Mounts[part]]

Patterns == {BuildMux[p[1]][p[2]] : p \in Places(BuildMux)}

\* Registry.Mount: the patterns behind the identity and audit middleware.
EndpointPatterns == UNION {Range(Mounts[g]) : g \in Range(groups)}

Panics ==
  \E p, q \in Places(BuildMux) : p # q /\ Conflict(BuildMux[p[1]][p[2]], BuildMux[q[1]][q[2]])

-----------------------------------------------------------------------------
(* Build.                                                                  *)

NoRequest == [method |-> Empty, segs |-> <<>>, slash |-> FALSE, html |-> FALSE]
NoAnswer == [to |-> "none", pattern |-> Tree(Empty, <<>>), row |-> NoRoute]

\* Registry.Add, for the next group that is enabled.
Add ==
  /\ stage = "registry"
  /\ \E i \in 1..Len(buildRegistry) :
       /\ buildRegistry[i] \in setup.enabled \ Range(groups)
       /\ \A j \in 1..(i - 1) :
            buildRegistry[j] \in setup.enabled => buildRegistry[j] \in Range(groups)
       /\ groups' = Append(groups, buildRegistry[i])
  /\ UNCHANGED <<setup, stage, request, answer, tried>>

\* buildOpenAPI and SelfCheck.
Document ==
  /\ stage = "registry" /\ setup.enabled \subseteq Range(groups)
  /\ stage' = IF SelfCheck THEN "documented" ELSE "mismatch"
  /\ UNCHANGED <<setup, groups, request, answer, tried>>

Mount ==
  /\ stage = "documented"
  /\ stage' = IF Panics THEN "panic" ELSE "serving"
  /\ UNCHANGED <<setup, groups, request, answer, tried>>

-----------------------------------------------------------------------------
(* A request.                                                              *)

\* The match that every other one covers.
Best(hits) == {p \in hits : \A other \in hits : Covers(other, p)}

\* The mux redirects a path to the tree it is the root of, unless a pattern for
\* that very path gets it.
RootOfTree(r) ==
  /\ ~r.slash
  /\ \E p \in Patterns : /\ p.tree /\ p.path # <<>> /\ Len(p.path) = Len(r.segs)
                         /\ Matches(p, [r EXCEPT !.slash = TRUE])
  /\ \A p \in Patterns : Matches(p, r) => p.tree

ServeHTTP(r) ==
  LET hits == {p \in Patterns : Matches(p, r)}
      to(what) == [NoAnswer EXCEPT !.to = what]
  IN  IF RootOfTree(r) \/ Unclean(r) THEN to("redirect")
      ELSE IF hits = {} THEN to("no_method")
      ELSE IF Best(hits) \cap EndpointPatterns = {} THEN to("other")
      ELSE [to |-> "endpoint", pattern |-> CHOOSE p \in Best(hits) : TRUE,
            row |-> RouteForRequest(r.method, r.segs)]

isBrowserRoot(r) == r.method = "GET" /\ r.segs = <<>> /\ r.html

\* The server waits for the request.
Idle == stage = "serving" /\ answer = NoAnswer

\* A request from the wire: CORS, then BrowserRedirect, then the mux.
Wire(r) ==
  /\ Idle
  /\ request' = r
  /\ answer' = CASE r.method = "OPTIONS" -> [NoAnswer EXCEPT !.to = "preflight"]
                 [] r.method # "OPTIONS" /\ setup.portal /\ isBrowserRoot(r)
                      -> [NoAnswer EXCEPT !.to = "redirect"]
                 [] OTHER -> ServeHTTP(r)
  /\ UNCHANGED <<setup, stage, groups, tried>>

\* Try-It of a route of the catalogue, found by its names, goes to the mux itself.
findRoute(group, name) ==
  meta(First({p \in Places(All) : groups[p[1]] = group /\ meta(p).name = name}))

substitutePathParams(path, value) ==
  [i \in 1..Len(path) |-> IF path[i] \in Wildcards THEN value ELSE <<path[i]>>]

TryIt(p, verb, value) ==
  LET asked == <<groups[p[1]], meta(p).name>>
      route == findRoute(asked[1], asked[2])
      path == substitutePathParams(route.path, value)
      r == [NoRequest EXCEPT !.method = IF verb = Empty THEN route.method ELSE verb, !.segs = path]
      refused == /\ Wildcards \cap Range(route.path) # {}
                 /\ value = <<Empty>> \/ Len(value) > 1
  IN  /\ Idle /\ setup.portal
      /\ tried' = asked
      /\ request' = r
      /\ answer' = IF refused THEN [NoAnswer EXCEPT !.to = "bad_params"] ELSE ServeHTTP(r)
      /\ UNCHANGED <<setup, stage, groups>>

-----------------------------------------------------------------------------
\* What configurations and requests are made of.
ASSUME RoutingAssumption ==
  /\ Setups \subseteq [enabled : SUBSET DOMAIN Routes, portal : BOOLEAN, login : BOOLEAN]
  /\ Requests \subseteq [method : STRING, segs : Seq(Segments), slash : BOOLEAN, html : BOOLEAN]
  /\ Verbs \subseteq STRING
  /\ Values \subseteq Segments

RInit ==
  /\ setup \in Setups
  /\ stage = "registry"
  /\ groups = <<>>
  /\ request = NoRequest /\ answer = NoAnswer
  /\ tried = NoRoute

RNext ==
  \/ Add \/ Document \/ Mount
  \/ Idle /\ \E r \in Requests : Wire(r)
  \/ Idle /\ \E p \in Places(All), verb \in Verbs, value \in Values : TryIt(p, verb, value)

RSpec == RInit /\ [][RNext]_rvars

-----------------------------------------------------------------------------
(* Properties.                                                             *)

\* The audit row of a request has the group and the name that the catalogue has
\* for the pattern that served it, although the registry matches the decoded path
\* by rules of its own: with two exceptions, in which it has neither.  A HEAD
\* request that a GET pattern gets is not in the catalogue, and a path parameter
\* with escaped slashes may be more than one segment to the registry, or none.
AuditNamesTheRoute ==
  answer.to = "endpoint" =>
    IF /\ request.method = answer.pattern.method
       /\ Len(splitPathSegments(request.segs)) = Len(request.segs)
    THEN \E p \in Places(All) : /\ answer.row = <<groups[p[1]], meta(p).name>>
                                /\ meta(p).method = answer.pattern.method
                                /\ meta(p).path = answer.pattern.path
    ELSE answer.row = NoRoute

\* No segment has an escaped slash.
Plain(r) == \A i \in 1..Len(r.segs) : Len(r.segs[i]) = 1

\* For every set of enabled groups, with or without the portal: SelfCheck passes,
\* no two patterns conflict (the mux would panic while Build runs), what the
\* groups mount is what they list, and no two routes share the name by which the
\* portal looks one up.  A request for a route of the catalogue reaches it, except
\* an OPTIONS request from the wire, which the CORS handler answers; a Try-It with
\* the route's own method reaches the route it names, unless the mux redirects
\* the path that a parameter has made.
CatalogueIsServed ==
  /\ stage \notin {"mismatch", "panic"}
  /\ Idle =>
       /\ {<<p.method, p.path>> : p \in EndpointPatterns} = registryRouteSet
       /\ \A p, q \in Places(All) : meta(p).name = meta(q).name => p = q
  /\ /\ answer # NoAnswer /\ answer.to # "bad_params"
     /\ Plain(request) /\ ~Unclean(request) /\ ~request.slash
     /\ RouteForRequest(request.method, request.segs) # NoRoute
     => answer.to = IF request.method = "OPTIONS" /\ tried = NoRoute THEN "preflight"
                    ELSE "endpoint"
  /\ tried # NoRoute /\ request.method = findRoute(tried[1], tried[2]).method =>
       \/ answer.row = tried
       \/ answer.to = "bad_params" \/ (answer.to = "redirect" /\ Unclean(request))
=============================================================================
