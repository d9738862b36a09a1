---------------------------- MODULE RoutingProofs ----------------------------
(***************************************************************************)
(* Proofs about Routing: for every set of enabled groups and every request *)
(* that a client or Try-It can send, mux, registry and audit rows agree.   *)
(*                                                                         *)
(* The tables of routes and patterns enter through a few facts about them  *)
(* (GroupTable, NoConflicts).  Two routes that fit one request have one    *)
(* path, so that the mux's choice of the most specific pattern and the     *)
(* registry's choice of the first fitting route come to the same.          *)
(***************************************************************************)
EXTENDS Routing, FiniteSetTheorems, TLAPS

-----------------------------------------------------------------------------
(* The tables of the groups.                                               *)

Methods == {"GET", "POST", "PUT", "PATCH", "DELETE", "HEAD", "OPTIONS"}

\* A sequence of something.
IsList(list) == Len(list) \in Nat /\ list = [k \in 1..Len(list) |-> list[k]]

\* The path of a route: no empty segment, and a parameter only behind a segment
\* that no other path has.
IsRoutePath(path) ==
  /\ IsList(path) /\ Len(path) \in 2..4 /\ path[1] = "v1"
  /\ \A k \in 1..Len(path) :
       path[k] # Empty /\ (path[k] \in Wildcards => k = 3 /\ Len(path) = 3)
  /\ path[2] = "fixed" => Len(path) = 3 /\ path[3] = "<key>"
  /\ path[2] = "status" => Len(path) = 3 /\ path[3] = "<code>"
  /\ (\E k \in 1..Len(path) : path[k] \in Wildcards) => path[2] \in {"fixed", "status"}

\* What no two groups share: the second segments of their paths, and the names.
OwnPaths ==
  [identity |-> {"whoami", "headers"},
   data |-> {"fixed", "sized", "lorem"},
   failure |-> {"status", "slow", "flaky"},
   echo |-> {"echo"},
   streaming |-> {"streaming"},
   pagination |-> {"pagination"},
   methods |-> {"method"},
   security |-> {"security"},
   export |-> {"export"}]

OwnNames ==
  [identity |-> {"whoami", "headers"},
   data |-> {"fixed", "sized", "lorem"},
   failure |-> {"status", "slow", "flaky"},
   echo |-> {"echo_get", "echo_post", "echo_put", "echo_patch", "echo_delete",
             "echo_head"},
   streaming |-> {"streaming_chunked", "streaming_sse", "streaming_ndjson"},
   pagination |-> {"pagination_link", "pagination_odata", "pagination_cursor"},
   methods |-> {"method_get", "method_post", "method_put", "method_patch",
                "method_delete", "method_head", "method_options"},
   security |-> {"security_admin", "security_fetch", "security_big_headers",
                 "security_redirect_to", "security_control_chars"},
   export |-> {"export_big_body", "export_csv", "export_long_running"}]

\* A route of a group, and what the group mounts for it.
RowOf(group, route, mounted) ==
  /\ route.name \in OwnNames[group] /\ route.method \in Methods
  /\ IsRoutePath(route.path) /\ route.path[2] \in OwnPaths[group]
  /\ mounted = Pattern(route.method, route.path)

\* A group mounts what it lists, and lists nothing twice.
GroupTable(group, routes, mount) ==
  /\ DOMAIN routes \subseteq Nat /\ DOMAIN mount = DOMAIN routes
  /\ \A j \in DOMAIN routes : RowOf(group, routes[j], mount[j])
  /\ \A j, k \in DOMAIN routes :
       \/ j = k
       \/ /\ routes[j].name # routes[k].name
          /\ routes[j].method # routes[k].method \/ routes[j].path # routes[k].path

\* A sequence is a list.
LEMMA List ==
  ASSUME NEW S, NEW list \in Seq(S)
  PROVE  IsList(list)
  BY DEF IsList

\* No segment of a route is empty.
LEMMA Words ==
  \A w \in {"<code>", "<key>", "admin", "big-body", "big-headers", "chunked",
          "control-chars", "csv", "cursor", "echo", "export", "fetch", "fixed",
          "flaky", "headers", "link", "long-running", "lorem", "method", "ndjson",
          "odata", "pagination", "redirect-to", "secret", "security", "sized", "slow",
          "sse", "status", "streaming", "v1", "whoami"} :
    w # Empty
  BY Zenon DEF Empty

\* A path /v1/s is the path of a route.
LEMMA ShortPath ==
  ASSUME NEW s, s \notin Wildcards, s # "fixed", s # "status", s # Empty,
         NEW p, p = <<"v1", s>>
  PROVE  IsRoutePath(p)
<1>1. p \in Seq({"v1", s}) /\ Len(p) = 2 /\ p[1] = "v1" /\ p[2] = s
  OBVIOUS
<1>2. IsList(p)
  BY <1>1, List
<1>3. \A k \in 1..2 : k = 1 \/ k = 2
  OBVIOUS
<1> QED
  BY <1>1, <1>2, <1>3, Words DEF IsRoutePath, Wildcards

\* So is a path /v1/s/t without a parameter.
LEMMA LongPath ==
  ASSUME NEW s, s \notin Wildcards, s # "fixed", s # "status", s # Empty,
         NEW t, t \notin Wildcards, t # Empty,
         NEW p, p = <<"v1", s, t>>
  PROVE  IsRoutePath(p)
<1>1. p \in Seq({"v1", s, t}) /\ Len(p) = 3 /\ p[1] = "v1" /\ p[2] = s /\ p[3] = t
  OBVIOUS
<1>2. IsList(p)
  BY <1>1, List
<1>3. \A k \in 1..3 : k = 1 \/ k = 2 \/ k = 3
  OBVIOUS
<1> QED
  BY <1>1, <1>2, <1>3, Words DEF IsRoutePath, Wildcards

\* So are the two paths with a parameter.
LEMMA ParameterPath ==
  ASSUME NEW p, p = <<"v1", "fixed", "<key>">> \/ p = <<"v1", "status", "<code>">>
  PROVE  IsRoutePath(p)
<1>1. (\E S : p \in Seq(S)) /\ Len(p) = 3 /\ p[1] = "v1"
  <2>1. CASE p = <<"v1", "fixed", "<key>">>
    <3>1. p \in Seq({"v1", "fixed", "<key>"})
      BY <2>1
    <3> QED
      BY <2>1, <3>1
  <2>2. CASE p = <<"v1", "status", "<code>">>
    <3>1. p \in Seq({"v1", "status", "<code>"})
      BY <2>2
    <3> QED
      BY <2>2, <3>1
  <2> QED
    BY <2>1, <2>2
<1>2. (p[2] = "fixed" /\ p[3] = "<key>") \/ (p[2] = "status" /\ p[3] = "<code>")
  OBVIOUS
<1>3. IsList(p)
  BY <1>1, List
<1>4. \A k \in 1..3 : k = 1 \/ k = 2 \/ k = 3
  OBVIOUS
<1> QED
  BY <1>1, <1>2, <1>3, <1>4, Words DEF IsRoutePath, Wildcards

\* So is the one path of four segments.
LEMMA SecretPath ==
  ASSUME NEW p, p = <<"v1", "security", "admin", "secret">>
  PROVE  IsRoutePath(p)
<1>1. /\ p \in Seq({"v1", "security", "admin", "secret"}) /\ Len(p) = 4
      /\ p[1] = "v1" /\ p[2] = "security" /\ p[3] = "admin" /\ p[4] = "secret"
  OBVIOUS
<1>2. IsList(p)
  BY <1>1, List
<1>3. \A k \in 1..4 : k = 1 \/ k = 2 \/ k = 3 \/ k = 4
  OBVIOUS
<1> QED
  BY <1>1, <1>2, <1>3, Words DEF IsRoutePath, Wildcards

\* What the identity group mounts is what it lists.
LEMMA IdentityTable == GroupTable("identity", identity_Routes, identity_Mount)
<1>1. DOMAIN identity_Routes = 1..2 /\ DOMAIN identity_Mount = 1..2
  BY DEF identity_Routes, identity_Mount
<1>2. ASSUME NEW j \in 1..2, NEW r, r = identity_Routes[j]
      PROVE  RowOf("identity", r, identity_Mount[j])
  <2> DEFINE p == r.path
  <2>1. p = <<"v1", "whoami">> \/ p = <<"v1", "headers">>
    BY <1>2 DEF identity_Routes, Route
  <2>2. r.name \in {"whoami", "headers"}
    BY <1>2 DEF identity_Routes, Route
  <2>3. r.method \in {"GET"}
    BY <1>2 DEF identity_Routes, Route
  <2>4. identity_Mount[j] = Pattern(r.method, r.path)
    BY <1>2 DEF identity_Routes, identity_Mount, Route
  <2> HIDE DEF p
  <2>5. p[2] \in {"whoami", "headers"}
    BY <2>1
  <2>6. IsRoutePath(p)
    BY <2>1, Words, ShortPath DEF Wildcards
  <2> QED
    BY <2>2, <2>3, <2>4, <2>5, <2>6 DEF p, RowOf, OwnNames, OwnPaths, Methods
<1>3. ASSUME NEW j \in 1..2, NEW k \in 1..2, j # k
      PROVE  /\ identity_Routes[j].name # identity_Routes[k].name
             /\ identity_Routes[j].path # identity_Routes[k].path
  BY <1>3 DEF identity_Routes, Route
<1> QED
  BY <1>1, <1>2, <1>3 DEF GroupTable

\* The same of the data group.
LEMMA DataTable == GroupTable("data", data_Routes, data_Mount)
<1>1. DOMAIN data_Routes = 1..3 /\ DOMAIN data_Mount = 1..3
  BY DEF data_Routes, data_Mount
<1>2. ASSUME NEW j \in 1..3, NEW r, r = data_Routes[j]
      PROVE  RowOf("data", r, data_Mount[j])
  <2> DEFINE p == r.path
  <2>1. p = <<"v1", "fixed", "<key>">> \/ p = <<"v1", "sized">> \/
        p = <<"v1", "lorem">>
    BY <1>2 DEF data_Routes, Route
  <2>2. r.name \in {"fixed", "sized", "lorem"}
    BY <1>2 DEF data_Routes, Route
  <2>3. r.method \in {"GET"}
    BY <1>2 DEF data_Routes, Route
  <2>4. data_Mount[j] = Pattern(r.method, r.path)
    BY <1>2 DEF data_Routes, data_Mount, Route
  <2> HIDE DEF p
  <2>5. p[2] \in {"fixed", "sized", "lorem"}
    BY <2>1
  <2>6. IsRoutePath(p)
    BY <2>1, Words, ParameterPath, ShortPath DEF Wildcards
  <2> QED
    BY <2>2, <2>3, <2>4, <2>5, <2>6 DEF p, RowOf, OwnNames, OwnPaths, Methods
<1>3. ASSUME NEW j \in 1..3, NEW k \in 1..3, j # k
      PROVE  /\ data_Routes[j].name # data_Routes[k].name
             /\ data_Routes[j].path # data_Routes[k].path
  BY <1>3 DEF data_Routes, Route
<1> QED
  BY <1>1, <1>2, <1>3 DEF GroupTable

\* The same of the failure group.
LEMMA FailureTable == GroupTable("failure", failure_Routes, failure_Mount)
<1>1. DOMAIN failure_Routes = 1..3 /\ DOMAIN failure_Mount = 1..3
  BY DEF failure_Routes, failure_Mount
<1>2. ASSUME NEW j \in 1..3, NEW r, r = failure_Routes[j]
      PROVE  RowOf("failure", r, failure_Mount[j])
  <2> DEFINE p == r.path
  <2>1. p = <<"v1", "status", "<code>">> \/ p = <<"v1", "slow">> \/
        p = <<"v1", "flaky">>
    BY <1>2 DEF failure_Routes, Route
  <2>2. r.name \in {"status", "slow", "flaky"}
    BY <1>2 DEF failure_Routes, Route
  <2>3. r.method \in {"GET"}
    BY <1>2 DEF failure_Routes, Route
  <2>4. failure_Mount[j] = Pattern(r.method, r.path)
    BY <1>2 DEF failure_Routes, failure_Mount, Route
  <2> HIDE DEF p
  <2>5. p[2] \in {"status", "slow", "flaky"}
    BY <2>1
  <2>6. IsRoutePath(p)
    BY <2>1, Words, ParameterPath, ShortPath DEF Wildcards
  <2> QED
    BY <2>2, <2>3, <2>4, <2>5, <2>6 DEF p, RowOf, OwnNames, OwnPaths, Methods
<1>3. ASSUME NEW j \in 1..3, NEW k \in 1..3, j # k
      PROVE  /\ failure_Routes[j].name # failure_Routes[k].name
             /\ failure_Routes[j].path # failure_Routes[k].path
  BY <1>3 DEF failure_Routes, Route
<1> QED
  BY <1>1, <1>2, <1>3 DEF GroupTable

\* The same of the streaming group.
LEMMA StreamingTable == GroupTable("streaming", streaming_Routes, streaming_Mount)
<1>1. DOMAIN streaming_Routes = 1..3 /\ DOMAIN streaming_Mount = 1..3
  BY DEF streaming_Routes, streaming_Mount
<1>2. ASSUME NEW j \in 1..3, NEW r, r = streaming_Routes[j]
      PROVE  RowOf("streaming", r, streaming_Mount[j])
  <2> DEFINE p == r.path
  <2>1. p = <<"v1", "streaming", "chunked">> \/ p = <<"v1", "streaming", "sse">> \/
        p = <<"v1", "streaming", "ndjson">>
    BY <1>2 DEF streaming_Routes, Route
  <2>2. r.name \in {"streaming_chunked", "streaming_sse", "streaming_ndjson"}
    BY <1>2 DEF streaming_Routes, Route
  <2>3. r.method \in {"GET"}
    BY <1>2 DEF streaming_Routes, Route
  <2>4. streaming_Mount[j] = Pattern(r.method, r.path)
    BY <1>2 DEF streaming_Routes, streaming_Mount, Route
  <2> HIDE DEF p
  <2>5. p[2] \in {"streaming"}
    BY <2>1
  <2>6. IsRoutePath(p)
    BY <2>1, Words, LongPath DEF Wildcards
  <2> QED
    BY <2>2, <2>3, <2>4, <2>5, <2>6 DEF p, RowOf, OwnNames, OwnPaths, Methods
<1>3. ASSUME NEW j \in 1..3, NEW k \in 1..3, j # k
      PROVE  /\ streaming_Routes[j].name # streaming_Routes[k].name
             /\ streaming_Routes[j].path # streaming_Routes[k].path
  BY <1>3 DEF streaming_Routes, Route
<1> QED
  BY <1>1, <1>2, <1>3 DEF GroupTable

\* The same of the pagination group.
LEMMA PaginationTable == GroupTable("pagination", pagination_Routes, pagination_Mount)
<1>1. DOMAIN pagination_Routes = 1..3 /\ DOMAIN pagination_Mount = 1..3
  BY DEF pagination_Routes, pagination_Mount
<1>2. ASSUME NEW j \in 1..3, NEW r, r = pagination_Routes[j]
      PROVE  RowOf("pagination", r, pagination_Mount[j])
  <2> DEFINE p == r.path
  <2>1. p = <<"v1", "pagination", "link">> \/ p = <<"v1", "pagination", "odata">> \/
        p = <<"v1", "pagination", "cursor">>
    BY <1>2 DEF pagination_Routes, Route
  <2>2. r.name \in {"pagination_link", "pagination_odata", "pagination_cursor"}
    BY <1>2 DEF pagination_Routes, Route
  <2>3. r.method \in {"GET"}
    BY <1>2 DEF pagination_Routes, Route
  <2>4. pagination_Mount[j] = Pattern(r.method, r.path)
    BY <1>2 DEF pagination_Routes, pagination_Mount, Route
  <2> HIDE DEF p
  <2>5. p[2] \in {"pagination"}
    BY <2>1
  <2>6. IsRoutePath(p)
    BY <2>1, Words, LongPath DEF Wildcards
  <2> QED
    BY <2>2, <2>3, <2>4, <2>5, <2>6 DEF p, RowOf, OwnNames, OwnPaths, Methods
<1>3. ASSUME NEW j \in 1..3, NEW k \in 1..3, j # k
      PROVE  /\ pagination_Routes[j].name # pagination_Routes[k].name
             /\ pagination_Routes[j].path # pagination_Routes[k].path
  BY <1>3 DEF pagination_Routes, Route
<1> QED
  BY <1>1, <1>2, <1>3 DEF GroupTable

\* The same of the security group.
LEMMA SecurityTable == GroupTable("security", security_Routes, security_Mount)
<1>1. DOMAIN security_Routes = 1..5 /\ DOMAIN security_Mount = 1..5
  BY DEF security_Routes, security_Mount
<1>2. ASSUME NEW j \in 1..5, NEW r, r = security_Routes[j]
      PROVE  RowOf("security", r, security_Mount[j])
  <2> DEFINE p == r.path
  <2>1. p = <<"v1", "security", "admin", "secret">> \/
        p = <<"v1", "security", "fetch">> \/
        p = <<"v1", "security", "big-headers">> \/
        p = <<"v1", "security", "redirect-to">> \/
        p = <<"v1", "security", "control-chars">>
    BY <1>2 DEF security_Routes, Route
  <2>2. r.name \in {"security_admin", "security_fetch", "security_big_headers",
                   "security_redirect_to", "security_control_chars"}
    BY <1>2 DEF security_Routes, Route
  <2>3. r.method \in {"GET", "POST"}
    BY <1>2 DEF security_Routes, Route
  <2>4. security_Mount[j] = Pattern(r.method, r.path)
    BY <1>2 DEF security_Routes, security_Mount, Route
  <2> HIDE DEF p
  <2>5. p[2] \in {"security"}
    BY <2>1
  <2>6. IsRoutePath(p)
    BY <2>1, Words, LongPath, SecretPath DEF Wildcards
  <2> QED
    BY <2>2, <2>3, <2>4, <2>5, <2>6 DEF p, RowOf, OwnNames, OwnPaths, Methods
<1>3. ASSUME NEW j \in 1..5, NEW k \in 1..5, j # k
      PROVE  /\ security_Routes[j].name # security_Routes[k].name
             /\ security_Routes[j].path # security_Routes[k].path
  BY <1>3 DEF security_Routes, Route
<1> QED
  BY <1>1, <1>2, <1>3 DEF GroupTable

\* The same of the export group.
LEMMA ExportTable == GroupTable("export", export_Routes, export_Mount)
<1>1. DOMAIN export_Routes = 1..3 /\ DOMAIN export_Mount = 1..3
  BY DEF export_Routes, export_Mount
<1>2. ASSUME NEW j \in 1..3, NEW r, r = export_Routes[j]
      PROVE  RowOf("export", r, export_Mount[j])
  <2> DEFINE p == r.path
  <2>1. p = <<"v1", "export", "big-body">> \/ p = <<"v1", "export", "csv">> \/
        p = <<"v1", "export", "long-running">>
    BY <1>2 DEF export_Routes, Route
  <2>2. r.name \in {"export_big_body", "export_csv", "export_long_running"}
    BY <1>2 DEF export_Routes, Route
  <2>3. r.method \in {"GET"}
    BY <1>2 DEF export_Routes, Route
  <2>4. export_Mount[j] = Pattern(r.method, r.path)
    BY <1>2 DEF export_Routes, export_Mount, Route
  <2> HIDE DEF p
  <2>5. p[2] \in {"export"}
    BY <2>1
  <2>6. IsRoutePath(p)
    BY <2>1, Words, LongPath DEF Wildcards
  <2> QED
    BY <2>2, <2>3, <2>4, <2>5, <2>6 DEF p, RowOf, OwnNames, OwnPaths, Methods
<1>3. ASSUME NEW j \in 1..3, NEW k \in 1..3, j # k
      PROVE  /\ export_Routes[j].name # export_Routes[k].name
             /\ export_Routes[j].path # export_Routes[k].path
  BY <1>3 DEF export_Routes, Route
<1> QED
  BY <1>1, <1>2, <1>3 DEF GroupTable

\* The same of the echo group.
LEMMA EchoTable == GroupTable("echo", echo_Routes, echo_Mount)
<1>1. Len(echo_Verbs) = 6
  BY DEF echo_Verbs
<1>2. DOMAIN echo_Routes = 1..6 /\ DOMAIN echo_Mount = 1..6
  BY <1>1 DEF echo_Routes, echo_Mount
<1>3. ASSUME NEW j \in 1..6
      PROVE  /\ echo_Names[j] \in {"echo_get", "echo_post", "echo_put", "echo_patch",
                            "echo_delete", "echo_head"}
             /\ echo_Verbs[j] \in {"GET", "POST", "PUT", "PATCH", "DELETE", "HEAD"}
  BY <1>3 DEF echo_Names, echo_Verbs
<1>4. ASSUME NEW j \in 1..6, NEW r, r = echo_Routes[j]
      PROVE  RowOf("echo", r, echo_Mount[j])
  <2> DEFINE p == r.path
  <2>1. r = Route(echo_Names[j], echo_Verbs[j], <<"v1", "echo">>)
    BY <1>1, <1>4 DEF echo_Routes
  <2>2. p = <<"v1", "echo">> /\ r.name = echo_Names[j] /\ r.method = echo_Verbs[j]
    BY <2>1 DEF Route
  <2>3. echo_Mount[j] = Pattern(r.method, r.path)
    BY <1>1, <1>4, <2>2 DEF echo_Mount
  <2> HIDE DEF p
  <2>4. p[2] \in {"echo"}
    BY <2>2
  <2>5. IsRoutePath(p)
    BY <2>2, Words, ShortPath DEF Wildcards
  <2> QED
    BY <1>3, <1>4, <2>2, <2>3, <2>4, <2>5 DEF p, RowOf, OwnNames, OwnPaths, Methods
<1>5. ASSUME NEW j \in 1..6, NEW k \in 1..6, j # k
      PROVE  echo_Names[j] # echo_Names[k] /\ echo_Verbs[j] # echo_Verbs[k]
  BY <1>5 DEF echo_Names, echo_Verbs
<1>6. ASSUME NEW j \in 1..6
      PROVE  echo_Routes[j].name = echo_Names[j] /\ echo_Routes[j].method = echo_Verbs[j]
  BY <1>1, <1>6 DEF echo_Routes, Route
<1> QED
  BY <1>2, <1>4, <1>5, <1>6 DEF GroupTable

\* The same of the methods group.
LEMMA MethodsTable == GroupTable("methods", methods_Routes, methods_Mount)
<1>1. Len(supportedMethods) = 7
  BY DEF supportedMethods
<1>2. DOMAIN methods_Routes = 1..7 /\ DOMAIN methods_Mount = 1..7
  BY <1>1 DEF methods_Routes, methods_Mount
<1>3. ASSUME NEW j \in 1..7
      PROVE  /\ methods_Names[j] \in {"method_get", "method_post", "method_put", "method_patch",
                            "method_delete", "method_head", "method_options"}
             /\ supportedMethods[j] \in {"GET", "POST", "PUT", "PATCH", "DELETE", "HEAD", "OPTIONS"}
  BY <1>3 DEF methods_Names, supportedMethods
<1>4. ASSUME NEW j \in 1..7, NEW r, r = methods_Routes[j]
      PROVE  RowOf("methods", r, methods_Mount[j])
  <2> DEFINE p == r.path
  <2>1. r = Route(methods_Names[j], supportedMethods[j], <<"v1", "method", "echo">>)
    BY <1>1, <1>4 DEF methods_Routes
  <2>2. /\ p = <<"v1", "method", "echo">>
        /\ r.name = methods_Names[j] /\ r.method = supportedMethods[j]
    BY <2>1 DEF Route
  <2>3. methods_Mount[j] = Pattern(r.method, r.path)
    BY <1>1, <1>4, <2>2 DEF methods_Mount
  <2> HIDE DEF p
  <2>4. p[2] \in {"method"}
    BY <2>2
  <2>5. IsRoutePath(p)
    BY <2>2, Words, LongPath DEF Wildcards
  <2> QED
    BY <1>3, <1>4, <2>2, <2>3, <2>4, <2>5 DEF p, RowOf, OwnNames, OwnPaths, Methods
<1>5. ASSUME NEW j \in 1..7, NEW k \in 1..7, j # k
      PROVE  methods_Names[j] # methods_Names[k] /\ supportedMethods[j] # supportedMethods[k]
  BY <1>5 DEF methods_Names, supportedMethods
<1>6. ASSUME NEW j \in 1..7
      PROVE  /\ methods_Routes[j].name = methods_Names[j]
             /\ methods_Routes[j].method = supportedMethods[j]
  BY <1>1, <1>6 DEF methods_Routes, Route
<1> QED
  BY <1>2, <1>4, <1>5, <1>6 DEF GroupTable

\* The groups, and the tables of all of them.
LEMMA Tables ==
  /\ DOMAIN Routes = {"identity", "data", "failure", "echo", "streaming", "pagination", "methods",
                      "security", "export"}
  /\ \A g \in DOMAIN Routes : GroupTable(g, Routes[g], Mounts[g])
<1>1. DOMAIN Routes = {"identity", "data", "failure", "echo", "streaming", "pagination",
                       "methods", "security", "export"}
  BY DEF Routes
<1>2. GroupTable("identity", Routes["identity"], Mounts["identity"])
  BY IdentityTable DEF Routes, Mounts
<1>3. GroupTable("data", Routes["data"], Mounts["data"])
  BY DataTable DEF Routes, Mounts
<1>4. GroupTable("failure", Routes["failure"], Mounts["failure"])
  BY FailureTable DEF Routes, Mounts
<1>5. GroupTable("echo", Routes["echo"], Mounts["echo"])
  BY EchoTable DEF Routes, Mounts
<1>6. GroupTable("streaming", Routes["streaming"], Mounts["streaming"])
  BY StreamingTable DEF Routes, Mounts
<1>7. GroupTable("pagination", Routes["pagination"], Mounts["pagination"])
  BY PaginationTable DEF Routes, Mounts
<1>8. GroupTable("methods", Routes["methods"], Mounts["methods"])
  BY MethodsTable DEF Routes, Mounts
<1>9. GroupTable("security", Routes["security"], Mounts["security"])
  BY SecurityTable DEF Routes, Mounts
<1>10. GroupTable("export", Routes["export"], Mounts["export"])
  BY ExportTable DEF Routes, Mounts
<1> QED
  BY <1>1, <1>2, <1>3, <1>4, <1>5, <1>6, <1>7, <1>8, <1>9, <1>10

\* A segment or a name belongs to one group.
LEMMA OneOwner ==
  ASSUME NEW g \in DOMAIN Routes, NEW h \in DOMAIN Routes, g # h
  PROVE  OwnPaths[g] \cap OwnPaths[h] = {} /\ OwnNames[g] \cap OwnNames[h] = {}
<1> USE Tables
<1>1. CASE g = "identity"
  BY <1>1 DEF OwnPaths, OwnNames
<1>2. CASE g = "data"
  BY <1>2 DEF OwnPaths, OwnNames
<1>3. CASE g = "failure"
  BY <1>3 DEF OwnPaths, OwnNames
<1>4. CASE g = "echo"
  BY <1>4 DEF OwnPaths, OwnNames
<1>5. CASE g = "streaming"
  BY <1>5 DEF OwnPaths, OwnNames
<1>6. CASE g = "pagination"
  BY <1>6 DEF OwnPaths, OwnNames
<1>7. CASE g = "methods"
  BY <1>7 DEF OwnPaths, OwnNames
<1>8. CASE g = "security"
  BY <1>8 DEF OwnPaths, OwnNames
<1>9. CASE g = "export"
  BY <1>9 DEF OwnPaths, OwnNames
<1> QED
  BY <1>1, <1>2, <1>3, <1>4, <1>5, <1>6, <1>7, <1>8, <1>9

-----------------------------------------------------------------------------
(* Routes that fit one request.                                            *)

\* The place of a route in the tables is known from its name, and from its method
\* and path.
LEMMA OnePlace ==
  ASSUME NEW g \in DOMAIN Routes, NEW j \in DOMAIN Routes[g],
         NEW h \in DOMAIN Routes, NEW l \in DOMAIN Routes[h],
         \/ Routes[g][j].name = Routes[h][l].name
         \/ Routes[g][j].method = Routes[h][l].method /\ Routes[g][j].path = Routes[h][l].path
  PROVE  g = h /\ j = l
<1>1. GroupTable(g, Routes[g], Mounts[g]) /\ GroupTable(h, Routes[h], Mounts[h])
  BY Tables
<1>2. RowOf(g, Routes[g][j], Mounts[g][j]) /\ RowOf(h, Routes[h][l], Mounts[h][l])
  BY <1>1 DEF GroupTable
<1>3. g = h
  BY <1>2, OneOwner DEF RowOf
<1> QED
  BY <1>1, <1>3 DEF GroupTable

\* Two paths of routes are the same when they agree wherever neither has a parameter.
LEMMA OnePath ==
  ASSUME NEW p, IsRoutePath(p), NEW q, IsRoutePath(q), Len(p) = Len(q),
         \A k \in 1..Len(p) : p[k] \in Wildcards \/ q[k] \in Wildcards \/ p[k] = q[k]
  PROVE  p = q
<1>1. p[1] = q[1] /\ p[2] = q[2] /\ Len(p) \in Nat
  BY DEF IsRoutePath
<1>2. ASSUME NEW k \in 1..Len(p)
      PROVE  p[k] = q[k]
  <2>1. CASE p[k] \in Wildcards \/ q[k] \in Wildcards
    BY <1>1, <1>2, <2>1 DEF IsRoutePath
  <2> QED
    BY <1>2, <2>1
<1> QED
  BY <1>1, <1>2 DEF IsRoutePath, IsList

-----------------------------------------------------------------------------
(* No two patterns of the mux conflict.                                    *)

\* What the lemmas need of a pattern.
IsPattern(p) == IsList(p.path) /\ p.tree \in BOOLEAN

\* Patterns with different words at one place do not conflict.
LEMMA DifferAt ==
  ASSUME NEW p, IsPattern(p), NEW r, IsPattern(r),
         NEW k \in Nat \ {0}, k <= Len(p.path), k <= Len(r.path), p.path[k] # r.path[k],
         p.path[k] \notin Wildcards, r.path[k] \notin Wildcards
  PROVE  ~Conflict(p, r)
  BY DEF Conflict, Overlap, SegmentCovers, IsPattern, IsList

\* Nor do patterns of different lengths that end where their paths end.
LEMMA DifferInLength ==
  ASSUME NEW p, IsPattern(p), ~p.tree, NEW r, IsPattern(r), ~r.tree, Len(p.path) # Len(r.path)
  PROVE  ~Conflict(p, r)
  BY DEF Conflict, Overlap, IsPattern, IsList

\* A tree of GET requests covers what is below it, and not the other way round.
LEMMA BelowTree ==
  ASSUME NEW p, IsPattern(p), p.tree, p.method = "GET", NEW r, IsPattern(r),
         Len(p.path) < Len(r.path),
         \A k \in 1..Len(p.path) : p.path[k] \notin Wildcards /\ r.path[k] \notin Wildcards
  PROVE  ~Conflict(p, r) /\ ~Conflict(r, p)
<1>0. Len(p.path) \in Nat /\ Len(r.path) \in Nat
  BY DEF IsPattern, IsList
<1>1. ~Covers(r, p)
  <2>1. ~(Len(r.path) < Len(p.path)) /\ Len(r.path) # Len(p.path)
    BY <1>0
  <2> QED
    BY <2>1, Zenon DEF Covers
<1>2. ASSUME Overlap(p, r) \/ Overlap(r, p)
      PROVE  Covers(p, r)
  <2>1. MethodCovers(p.method, r.method)
    BY <1>2 DEF Overlap, MethodCovers
  <2>2. ASSUME NEW k \in 1..Len(p.path)
        PROVE  SegmentCovers(p.path[k], r.path[k])
    <3> DEFINE s == IF Len(p.path) <= Len(r.path) THEN p ELSE r
               t == IF Len(r.path) <= Len(p.path) THEN r ELSE p
    <3>1. s = p /\ t = p
      BY <1>0
    <3>2. \/ SegmentCovers(p.path[k], r.path[k]) \/ SegmentCovers(r.path[k], p.path[k])
      BY <1>2, <2>2, <3>1, Zenon DEF Overlap
    <3> QED
      BY <2>2, <3>2 DEF SegmentCovers
  <2> QED
    BY <2>1, <2>2 DEF Covers
<1> QED
  BY <1>1, <1>2 DEF Conflict

\* No two patterns of the groups conflict.
LEMMA EndpointsDoNotConflict ==
  ASSUME NEW g \in DOMAIN Routes, NEW j \in DOMAIN Mounts[g],
         NEW h \in DOMAIN Routes, NEW l \in DOMAIN Mounts[h], g # h \/ j # l
  PROVE  ~Conflict(Mounts[g][j], Mounts[h][l])
<1> DEFINE a == Routes[g][j]
           b == Routes[h][l]
           p == Pattern(a.method, a.path)
           r == Pattern(b.method, b.path)
<1>1. /\ GroupTable(g, Routes[g], Mounts[g]) /\ GroupTable(h, Routes[h], Mounts[h])
      /\ j \in DOMAIN Routes[g] /\ l \in DOMAIN Routes[h]
  BY Tables DEF GroupTable
<1>2. RowOf(g, a, Mounts[g][j]) /\ RowOf(h, b, Mounts[h][l])
  BY <1>1 DEF GroupTable
<1>3. a.method # b.method \/ a.path # b.path
  BY <1>1, OnePlace
<1> HIDE DEF a
<1> HIDE DEF b
<1>4. /\ Mounts[g][j] = p /\ IsRoutePath(a.path)
      /\ Mounts[h][l] = r /\ IsRoutePath(b.path)
  BY <1>2 DEF RowOf
<1>5. /\ p.method = a.method /\ p.path = a.path /\ p.tree = FALSE
      /\ r.method = b.method /\ r.path = b.path /\ r.tree = FALSE
  BY DEF Pattern
<1> HIDE DEF p
<1> HIDE DEF r
<1>6. SUFFICES ASSUME Overlap(p, r)
               PROVE  ~(Covers(p, r) <=> Covers(r, p))
  BY <1>4 DEF Conflict
<1>7. /\ Len(a.path) = Len(b.path) /\ Len(a.path) \in Nat
      /\ \A k \in 1..Len(a.path) :
           a.path[k] \in Wildcards \/ b.path[k] \in Wildcards \/ a.path[k] = b.path[k]
  BY <1>4, <1>5, <1>6 DEF Overlap, SegmentCovers, IsRoutePath, IsList
<1>8. a.path = b.path
  BY <1>4, <1>7, OnePath
<1>9. /\ Covers(p, r) <=> MethodCovers(a.method, b.method)
      /\ Covers(r, p) <=> MethodCovers(b.method, a.method)
  BY <1>5, <1>8 DEF Covers, SegmentCovers
<1>10. MethodCovers(a.method, b.method) \/ MethodCovers(b.method, a.method)
  BY <1>5, <1>6 DEF Overlap
<1> QED
  BY <1>3, <1>8, <1>9, <1>10 DEF MethodCovers

\* Short sequences are lists.
LEMMA Lists ==
  ASSUME NEW a, NEW b, NEW c, NEW d, NEW e, NEW f
  PROVE  /\ IsList(<<>>) /\ IsList(<<a>>) /\ IsList(<<a, b>>) /\ IsList(<<a, b, c>>)
         /\ IsList(<<a, b, c, d>>) /\ IsList(<<a, b, c, d, e>>) /\ IsList(<<a, b, c, d, e, f>>)
<1>1. <<>> \in Seq({a}) /\ <<a>> \in Seq({a})
  OBVIOUS
<1>2. <<a, b>> \in Seq({a, b})
  OBVIOUS
<1>3. <<a, b, c>> \in Seq({a, b, c})
  OBVIOUS
<1>4. <<a, b, c, d>> \in Seq({a, b, c, d})
  OBVIOUS
<1>5. <<a, b, c, d, e>> \in Seq({a, b, c, d, e})
  OBVIOUS
<1>6. <<a, b, c, d, e, f>> \in Seq({a, b, c, d, e, f})
  OBVIOUS
<1> QED
  BY <1>1, <1>2, <1>3, <1>4, <1>5, <1>6, List

\* The portal's API: the length of the path, the method and the segments that tell
\* the patterns apart.
APIRow(j, len, m, a, b, c) ==
  \/ j = 1 /\ len = 4 /\ m = "GET" /\ a = "portal" /\ b = "me"
  \/ j = 2 /\ len = 4 /\ m = "GET" /\ a = "portal" /\ b = "server"
  \/ j = 3 /\ len = 4 /\ m = "GET" /\ a = "portal" /\ b = "wellknown"
  \/ j = 4 /\ len = 4 /\ m = "GET" /\ a = "portal" /\ b = "dashboard"
  \/ j = 5 /\ len = 4 /\ m = "GET" /\ a = "portal" /\ b = "endpoints"
  \/ j = 6 /\ len = 5 /\ m = "GET" /\ a = "portal" /\ b = "endpoints" /\ c = "<name>"
  \/ j = 7 /\ len = 5 /\ m = "GET" /\ a = "portal" /\ b = "audit" /\ c = "meta"
  \/ j = 8 /\ len = 5 /\ m = "GET" /\ a = "portal" /\ b = "audit" /\ c = "events"
  \/ j = 9 /\ len = 6 /\ m = "GET" /\ a = "portal" /\ b = "audit" /\ c = "events"
  \/ j = 10 /\ len = 5 /\ m = "GET" /\ a = "portal" /\ b = "audit" /\ c = "timeseries"
  \/ j = 11 /\ len = 5 /\ m = "GET" /\ a = "portal" /\ b = "audit" /\ c = "breakdown"
  \/ j = 12 /\ len = 5 /\ m = "GET" /\ a = "portal" /\ b = "audit" /\ c = "stats"
  \/ j = 13 /\ len = 5 /\ m = "GET" /\ a = "portal" /\ b = "audit" /\ c = "stream"
  \/ j = 14 /\ len = 5 /\ m = "GET" /\ a = "portal" /\ b = "audit" /\ c = "export.ndjson"
  \/ j = 15 /\ len = 6 /\ m = "POST" /\ a = "portal" /\ b = "audit" /\ c = "replay"
  \/ j = 16 /\ len = 6 /\ m = "POST" /\ a = "portal" /\ b = "tryit" /\ c = "<group>"
  \/ j = 17 /\ len = 4 /\ m = "GET" /\ a = "admin" /\ b = "keys"
  \/ j = 18 /\ len = 4 /\ m = "POST" /\ a = "admin" /\ b = "keys"
  \/ j = 19 /\ len = 5 /\ m = "DELETE" /\ a = "admin" /\ b = "keys" /\ c = "<name>"

\* No two rows of the API overlap.
LEMMA OneAPIRow ==
  ASSUME NEW j, NEW l, NEW len, NEW m1, NEW m2, NEW a, NEW b, NEW c1, NEW c2,
         APIRow(j, len, m1, a, b, c1), APIRow(l, len, m2, a, b, c2),
         MethodCovers(m1, m2) \/ MethodCovers(m2, m1),
         len > 4 => c1 = c2 \/ c1 \in Wildcards \/ c2 \in Wildcards
  PROVE  j = l
  BY DEF APIRow, MethodCovers, Wildcards

\* Each pattern of the API has the row of its place.
LEMMA APIRows ==
  ASSUME NEW j \in DOMAIN PortalAPI_Mount, NEW p, p = PortalAPI_Mount[j]
  PROVE  /\ IsPattern(p) /\ p.tree = FALSE /\ p.path[1] = "api" /\ Len(p.path) \in 4..6
         /\ p.path[3] \notin Wildcards /\ p.path[4] \notin Wildcards
         /\ APIRow(j, Len(p.path), p.method, p.path[3], p.path[4], p.path[5])
<1> DEFINE q == p.path
<1>1. j \in 1..19
  BY DEF PortalAPI_Mount
<1>2. /\ p.tree = FALSE /\ q[1] = "api" /\ Len(q) \in 4..6
      /\ APIRow(j, Len(q), p.method, q[3], q[4], q[5])
  <2>1. CASE j \in 1..3
    BY <2>1 DEF PortalAPI_Mount, Pattern, APIRow
  <2>2. CASE j \in 4..6
    BY <2>2 DEF PortalAPI_Mount, Pattern, APIRow
  <2>3. CASE j \in 7..9
    BY <2>3 DEF PortalAPI_Mount, Pattern, APIRow
  <2>4. CASE j \in 10..12
    BY <2>4 DEF PortalAPI_Mount, Pattern, APIRow
  <2>5. CASE j \in 13..16
    BY <2>5 DEF PortalAPI_Mount, Pattern, APIRow
  <2>6. CASE j \in 17..19
    BY <2>6 DEF PortalAPI_Mount, Pattern, APIRow
  <2>7. \/ j \in 1..3 \/ j \in 4..6 \/ j \in 7..9
        \/ j \in 10..12 \/ j \in 13..16 \/ j \in 17..19
    BY <1>1
  <2> QED
    BY <2>1, <2>2, <2>3, <2>4, <2>5, <2>6, <2>7, Zenon
<1>3. IsList(q)
  <2>1. \/ q = <<q[1], q[2], q[3], q[4]>> \/ q = <<q[1], q[2], q[3], q[4], q[5]>>
        \/ q = <<q[1], q[2], q[3], q[4], q[5], q[6]>>
    BY <1>1 DEF PortalAPI_Mount, Pattern
  <2> HIDE DEF q
  <2> QED
    BY <2>1, Lists, Zenon
<1> HIDE DEF q
<1>4. q[3] \notin Wildcards /\ q[4] \notin Wildcards
  BY <1>2 DEF APIRow, Wildcards
<1> QED
  BY <1>2, <1>3, <1>4 DEF q, IsPattern

\* No two patterns of the API conflict.
LEMMA APIDoesNotConflict ==
  ASSUME NEW j \in DOMAIN PortalAPI_Mount, NEW l \in DOMAIN PortalAPI_Mount, j # l
  PROVE  ~Conflict(PortalAPI_Mount[j], PortalAPI_Mount[l])
<1> DEFINE p == PortalAPI_Mount[j]
           r == PortalAPI_Mount[l]
<1>1. /\ IsPattern(p) /\ p.tree = FALSE /\ Len(p.path) \in 4..6
      /\ p.path[3] \notin Wildcards /\ p.path[4] \notin Wildcards
      /\ APIRow(j, Len(p.path), p.method, p.path[3], p.path[4], p.path[5])
  BY APIRows
<1>2. /\ IsPattern(r) /\ r.tree = FALSE /\ Len(r.path) \in 4..6
      /\ r.path[3] \notin Wildcards /\ r.path[4] \notin Wildcards
      /\ APIRow(l, Len(r.path), r.method, r.path[3], r.path[4], r.path[5])
  BY APIRows
<1> HIDE DEF p
<1> HIDE DEF r
<1>3. SUFFICES ASSUME Conflict(p, r) PROVE FALSE
  BY DEF p, r
<1>4. Len(p.path) = Len(r.path)
  BY <1>1, <1>2, <1>3, DifferInLength
<1>5. p.path[3] = r.path[3] /\ p.path[4] = r.path[4]
  BY <1>1, <1>2, <1>3, DifferAt
<1>6. Len(p.path) > 4 =>
        \/ p.path[5] = r.path[5] \/ p.path[5] \in Wildcards \/ r.path[5] \in Wildcards
  BY <1>1, <1>2, <1>3, <1>4, DifferAt
<1>7. MethodCovers(p.method, r.method) \/ MethodCovers(r.method, p.method)
  BY <1>3, Zenon DEF Conflict, Overlap
<1> QED
  BY <1>1, <1>2, <1>4, <1>5, <1>6, <1>7, OneAPIRow

\* The first segment of the path of a pattern, for every part but the root.
HeadOf(part, j, head) ==
  \/ part \in DOMAIN Routes /\ head = "v1"
  \/ part = "health" /\ j = 1 /\ head = "healthz"
  \/ part = "health" /\ j = 2 /\ head = "readyz"
  \/ part = "openapi" /\ j = 1 /\ head = "openapi.json"
  \/ part = "openapi" /\ j = 2 /\ head = "openapi.yaml"
  \/ part = "openapi" /\ j = 3 /\ head = "docs"
  \/ part = "metadata" /\ head = ".well-known"
  \/ part = "login" /\ head = "portal"
  \/ part = "api" /\ head = "api"
  \/ part = "spa" /\ j = 1 /\ head = "portal"

Headed(part, j, p) ==
  /\ IsPattern(p) /\ Len(p.path) >= 1 /\ p.path[1] \notin Wildcards
  /\ HeadOf(part, j, p.path[1])

\* The parts of the mux.
LEMMA Parts ==
  /\ DOMAIN Mounts =
       DOMAIN Routes \cup {"health", "openapi", "metadata", "login", "api", "spa", "root"}
  /\ Mounts["health"] = <<Pattern("GET", <<"healthz">>), Pattern("GET", <<"readyz">>)>>
  /\ Mounts["openapi"] = mountOpenAPI
  /\ Mounts["metadata"] = <<Pattern("GET", <<".well-known", "oauth-protected-resource">>),
                            Pattern("GET", <<".well-known", "oauth-authorization-server">>)>>
  /\ Mounts["login"] = BrowserAuth_Mount
  /\ Mounts["api"] = PortalAPI_Mount
  /\ Mounts["spa"] = <<Tree("GET", <<"portal">>)>>
  /\ Mounts["root"] = <<Tree("GET", <<>>)>>
<1>1. DOMAIN Mounts =
        DOMAIN Routes \cup {"health", "openapi", "metadata", "login", "api", "spa", "root"}
  BY Tables DEF Mounts
<1> QED
  BY <1>1 DEF Mounts

\* What makes a pattern headed by a word.
LEMMA HeadedBy ==
  ASSUME NEW part, NEW j, NEW p, NEW q, NEW head, p.path = q, p.tree = TRUE \/ p.tree = FALSE,
         IsList(q), Len(q) >= 1, q[1] = head, head \notin Wildcards, HeadOf(part, j, head)
  PROVE  Headed(part, j, p)
  BY DEF Headed, IsPattern

\* Every pattern but the root is headed by a word that tells its part.
LEMMA Heads ==
  ASSUME NEW part \in DOMAIN Mounts, part # "root", NEW j \in DOMAIN Mounts[part]
  PROVE  Headed(part, j, Mounts[part][j])
<1> DEFINE p == Mounts[part][j]
<1> SUFFICES Headed(part, j, p)
  OBVIOUS
<1>1. CASE part \in DOMAIN Routes
  <2> DEFINE a == Routes[part][j]
  <2>1. GroupTable(part, Routes[part], Mounts[part])
    BY <1>1, Tables
  <2>2. RowOf(part, a, p)
    BY <2>1 DEF GroupTable
  <2> HIDE DEF a
  <2> HIDE DEF p
  <2>3. IsRoutePath(a.path) /\ p.path = a.path /\ p.tree = FALSE
    BY <2>2 DEF RowOf, Pattern
  <2>4. IsList(a.path) /\ Len(a.path) >= 1 /\ a.path[1] = "v1"
    BY <2>3 DEF IsRoutePath
  <2>5. "v1" \notin Wildcards /\ HeadOf(part, j, "v1")
    BY <1>1 DEF Wildcards, HeadOf
  <2> QED
    BY <2>3, <2>4, <2>5, HeadedBy
<1>2. CASE part = "health"
  <2> DEFINE q == p.path
  <2>1. \/ (j = 1 /\ q = <<"healthz">>)
        \/ (j = 2 /\ q = <<"readyz">>)
    BY <1>2, Parts DEF Pattern
  <2>2. p.tree = FALSE
    BY <1>2, Parts DEF Pattern
  <2> HIDE DEF p
  <2>3. p.path = q
    OBVIOUS
  <2> HIDE DEF q
  <2>4. IsList(q)
    BY <2>1, Lists, Zenon
  <2>5. Len(q) >= 1 /\ q[1] \notin Wildcards /\ HeadOf(part, j, q[1])
    BY <1>2, <2>1 DEF Wildcards, HeadOf
  <2> QED
    BY <2>2, <2>3, <2>4, <2>5, HeadedBy, Zenon
<1>3. CASE part = "openapi"
  <2> DEFINE q == p.path
  <2>1. \/ (j = 1 /\ q = <<"openapi.json">>)
        \/ (j = 2 /\ q = <<"openapi.yaml">>)
        \/ (j = 3 /\ q = <<"docs">>)
    BY <1>3, Parts DEF Pattern, mountOpenAPI
  <2>2. p.tree = FALSE
    BY <1>3, Parts DEF Pattern, mountOpenAPI
  <2> HIDE DEF p
  <2>3. p.path = q
    OBVIOUS
  <2> HIDE DEF q
  <2>4. IsList(q)
    BY <2>1, Lists, Zenon
  <2>5. Len(q) >= 1 /\ q[1] \notin Wildcards /\ HeadOf(part, j, q[1])
    BY <1>3, <2>1 DEF Wildcards, HeadOf
  <2> QED
    BY <2>2, <2>3, <2>4, <2>5, HeadedBy, Zenon
<1>4. CASE part = "metadata"
  <2> DEFINE q == p.path
  <2>1. q = <<".well-known", q[2]>>
    BY <1>4, Parts DEF Pattern
  <2>2. p.tree = FALSE
    BY <1>4, Parts DEF Pattern
  <2> HIDE DEF p
  <2>3. p.path = q
    OBVIOUS
  <2> HIDE DEF q
  <2>4. IsList(q)
    BY <2>1, Lists, Zenon
  <2>5. Len(q) >= 1 /\ q[1] = ".well-known"
    BY <2>1
  <2>6. q[1] \notin Wildcards /\ HeadOf(part, j, q[1])
    BY <1>4, <2>1, <2>5 DEF Wildcards, HeadOf
  <2> QED
    BY <2>2, <2>3, <2>4, <2>5, <2>6, HeadedBy, Zenon
<1>5. CASE part = "login"
  <2> DEFINE q == p.path
  <2>1. q = <<"portal", q[2], q[3]>>
    BY <1>5, Parts DEF Pattern, BrowserAuth_Mount
  <2>2. p.tree = FALSE
    BY <1>5, Parts DEF Pattern, BrowserAuth_Mount
  <2> HIDE DEF p
  <2>3. p.path = q
    OBVIOUS
  <2> HIDE DEF q
  <2>4. IsList(q)
    BY <2>1, Lists, Zenon
  <2>5. Len(q) >= 1 /\ q[1] = "portal"
    BY <2>1
  <2>6. q[1] \notin Wildcards /\ HeadOf(part, j, q[1])
    BY <1>5, <2>1, <2>5 DEF Wildcards, HeadOf
  <2> QED
    BY <2>2, <2>3, <2>4, <2>5, <2>6, HeadedBy, Zenon
<1>6. CASE part = "api"
  <2>1. IsPattern(p) /\ p.path[1] = "api" /\ Len(p.path) \in 4..6
    BY <1>6, Parts, APIRows
  <2>2. "api" \notin Wildcards /\ HeadOf(part, j, "api")
    BY <1>6 DEF Wildcards, HeadOf
  <2> QED
    BY <2>1, <2>2 DEF Headed
<1>7. CASE part = "spa"
  <2> DEFINE q == p.path
  <2>1. j = 1 /\ q = <<"portal">>
    BY <1>7, Parts DEF Tree
  <2>2. p.tree = TRUE
    BY <1>7, Parts DEF Tree
  <2> HIDE DEF p
  <2>3. p.path = q
    OBVIOUS
  <2> HIDE DEF q
  <2>4. IsList(q)
    BY <2>1, Lists, Zenon
  <2>5. Len(q) >= 1 /\ q[1] = "portal"
    BY <2>1
  <2>6. q[1] \notin Wildcards /\ HeadOf(part, j, q[1])
    BY <1>7, <2>1, <2>5 DEF Wildcards, HeadOf
  <2> QED
    BY <2>2, <2>3, <2>4, <2>5, <2>6, HeadedBy, Zenon
<1> QED
  BY <1>1, <1>2, <1>3, <1>4, <1>5, <1>6, <1>7, Parts

\* No two patterns of the parts of the mux conflict, whichever parts it has.
LEMMA NoConflicts ==
  ASSUME NEW s \in DOMAIN Mounts, NEW j \in DOMAIN Mounts[s],
         NEW t \in DOMAIN Mounts, NEW l \in DOMAIN Mounts[t], s # t \/ j # l
  PROVE  ~Conflict(Mounts[s][j], Mounts[t][l])
<1> DEFINE p == Mounts[s][j]
           r == Mounts[t][l]
<1> SUFFICES ~Conflict(p, r)
  OBVIOUS
<1>1. s # "root" => Headed(s, j, p)
  BY Heads
<1>2. t # "root" => Headed(t, l, r)
  BY Heads
<1>3. CASE s = "root" \/ t = "root"
  <2>1. ASSUME NEW q, q = Tree("GET", <<>>)
        PROVE  IsPattern(q) /\ q.tree = TRUE /\ q.method = "GET" /\ Len(q.path) = 0
    <3>1. q.path = <<>> /\ q.tree = TRUE /\ q.method = "GET"
      BY <2>1 DEF Tree
    <3>2. IsList(<<>>)
      BY Lists
    <3> QED
      BY <3>1, <3>2 DEF IsPattern
  <2>2. ASSUME NEW q, q = Tree("GET", <<>>), NEW a, NEW part, NEW k, Headed(part, k, a)
        PROVE  ~Conflict(q, a) /\ ~Conflict(a, q)
    <3>1. IsPattern(q) /\ q.tree = TRUE /\ q.method = "GET" /\ Len(q.path) = 0
      BY <2>1, <2>2
    <3>2. IsPattern(a) /\ Len(a.path) >= 1
      BY <2>2 DEF Headed
    <3>3. Len(q.path) < Len(a.path) /\ 1..Len(q.path) = {}
      BY <3>1, <3>2 DEF IsPattern, IsList
    <3> QED
      BY <3>1, <3>2, <3>3, BelowTree
  <2>3. s = "root" => p = Tree("GET", <<>>) /\ j = 1
    BY Parts
  <2>4. t = "root" => r = Tree("GET", <<>>) /\ l = 1
    BY Parts
  <2> HIDE DEF p
  <2> HIDE DEF r
  <2> QED
    BY <1>1, <1>2, <1>3, <2>2, <2>3, <2>4
<1>4. ASSUME s # "root", t # "root", p.path[1] # r.path[1]
      PROVE  ~Conflict(p, r)
  <2> HIDE DEF p
  <2> HIDE DEF r
  <2> QED
    BY <1>1, <1>2, <1>4, DifferAt DEF Headed
<1>5. ASSUME s # "root", t # "root", p.path[1] = r.path[1]
      PROVE  \/ s \in DOMAIN Routes /\ t \in DOMAIN Routes
             \/ s = "metadata" /\ t = "metadata"
             \/ s = "api" /\ t = "api"
             \/ s \in {"login", "spa"} /\ t \in {"login", "spa"}
  <2> HIDE DEF p
  <2> HIDE DEF r
  <2>1. HeadOf(s, j, p.path[1]) /\ HeadOf(t, l, p.path[1])
    BY <1>1, <1>2, <1>5 DEF Headed
  <2> QED
    BY <2>1 DEF HeadOf
<1>6. CASE s \in DOMAIN Routes /\ t \in DOMAIN Routes
  BY <1>6, EndpointsDoNotConflict
<1>7. CASE s = "metadata" /\ t = "metadata"
  <2>1. /\ p.path[2] # r.path[2] /\ p.path[2] \notin Wildcards /\ r.path[2] \notin Wildcards
        /\ Len(p.path) = 2 /\ Len(r.path) = 2
    BY <1>7, Parts DEF Pattern, Wildcards
  <2>2. IsPattern(p) /\ IsPattern(r)
    BY <1>1, <1>2, <1>7 DEF Headed
  <2> HIDE DEF p
  <2> HIDE DEF r
  <2> QED
    BY <2>1, <2>2, DifferAt
<1>8. CASE s = "api" /\ t = "api"
  BY <1>8, Parts, APIDoesNotConflict
<1>9. CASE s = "login" /\ t = "login"
  <2>1. /\ p.path[3] # r.path[3] /\ p.path[3] \notin Wildcards /\ r.path[3] \notin Wildcards
        /\ Len(p.path) = 3 /\ Len(r.path) = 3
    BY <1>9, Parts DEF Pattern, Wildcards, BrowserAuth_Mount
  <2>2. IsPattern(p) /\ IsPattern(r)
    BY <1>1, <1>2, <1>9 DEF Headed
  <2> HIDE DEF p
  <2> HIDE DEF r
  <2> QED
    BY <2>1, <2>2, DifferAt
<1>10. CASE s = "spa" /\ t = "spa"
  BY <1>10, Parts
<1>11. ASSUME NEW k \in DOMAIN Mounts["login"], NEW a, a = Mounts["login"][k],
              NEW q, q = Mounts["spa"][1]
       PROVE  ~Conflict(q, a) /\ ~Conflict(a, q)
  <2>1. IsPattern(a) /\ IsPattern(q) /\ a.path[1] \notin Wildcards /\ q.path[1] \notin Wildcards
    BY <1>11, Heads, Parts DEF Headed
  <2>2. Len(a.path) = 3
    BY <1>11, Parts DEF Pattern, BrowserAuth_Mount
  <2>3. q.tree = TRUE /\ q.method = "GET" /\ Len(q.path) = 1
    BY <1>11, Parts DEF Tree
  <2>4. \A m \in 1..Len(q.path) : m = 1
    BY <2>3
  <2>5. Len(q.path) < Len(a.path)
    BY <2>2, <2>3
  <2> QED
    BY <2>1, <2>3, <2>4, <2>5, BelowTree
<1>12. CASE s = "login" /\ t = "spa"
  BY <1>11, <1>12, Parts
<1>13. CASE s = "spa" /\ t = "login"
  BY <1>11, <1>13, Parts
<1> HIDE DEF p
<1> HIDE DEF r
<1> QED
  BY <1>3, <1>4, <1>5, <1>6, <1>7, <1>8, <1>9, <1>10, <1>12, <1>13

-----------------------------------------------------------------------------
(* The decoded path of a request.                                          *)

IsPath(segs) ==
  IsList(segs) /\ \A k \in 1..Len(segs) : IsList(segs[k]) /\ Len(segs[k]) >= 1

Prefix(k) == {<<l, 1>> : l \in 1..k}

\* There are k of the first k places.
LEMMA PrefixSize ==
  ASSUME NEW k \in Nat
  PROVE  IsFiniteSet(Prefix(k)) /\ Cardinality(Prefix(k)) = k
<1> DEFINE f == [l \in 1..k |-> <<l, 1>>]
<1>1. f \in Bijection(1..k, Prefix(k))
  BY DEF Bijection, Injection, Surjection, IsInjective, Prefix
<1>2. ExistsBijection(1..k, Prefix(k))
  BY <1>1 DEF ExistsBijection
<1> QED
  BY <1>2, FS_NatBijection, FS_CountingElements

\* The first m segments have one piece each, which is not empty, and there is at
\* most one more segment: the decoded path begins with those pieces.
Splits(segs, m, path) ==
  /\ Len(path) \in Nat /\ Len(path) >= m
  /\ \A k \in 1..m : path[k] = segs[k][1]
  /\ m = Len(segs) => Len(path) = m

\* splitPathSegments on a path whose first m segments are plain words, with one
\* segment more at most: those words, and what the last segment decodes to.
LEMMA Split ==
  ASSUME NEW segs, IsPath(segs), NEW m \in Nat, m <= Len(segs), Len(segs) <= m + 1,
         \A k \in 1..m : Len(segs[k]) = 1 /\ segs[k][1] # Empty
  PROVE  Splits(segs, m, splitPathSegments(segs))
<1> DEFINE P == {p \in Places(segs) : segs[p[1]][p[2]] # Empty}
           rank(p) == Cardinality({q \in P : Earlier(q, p)})
           nth(k) == CHOOSE p \in P : rank(p) = k - 1
           path == [k \in 1..Cardinality(P) |-> segs[nth(k)[1]][nth(k)[2]]]
<1>1. splitPathSegments(segs) = path
  BY DEF splitPathSegments
<1>2. /\ \A p \in P : /\ p = <<p[1], p[2]>> /\ p[1] \in 1..Len(segs) /\ p[2] \in 1..Len(segs[p[1]])
                      /\ Len(segs[p[1]]) \in Nat
      /\ \A k \in 1..Len(segs), l \in Nat :
           l \in 1..Len(segs[k]) /\ segs[k][l] # Empty => <<k, l>> \in P
  BY DEF Places, IsPath, IsList
<1>3. Len(segs) \in Nat
  BY DEF IsPath, IsList
<1> HIDE DEF P
<1>4. ASSUME NEW p \in P, p[1] <= m
      PROVE  p = <<p[1], 1>>
  <2>1. p[1] \in 1..m
    BY <1>2, <1>3, <1>4
  <2>2. p = <<p[1], p[2]>> /\ p[2] \in 1..Len(segs[p[1]])
    BY <1>2
  <2>3. Len(segs[p[1]]) = 1
    BY <2>1
  <2>4. p[2] = 1
    BY <2>2, <2>3
  <2> QED
    BY <2>2, <2>4, Zenon
<1>5. ASSUME NEW k \in 1..m
      PROVE  <<k, 1>> \in P
  <2>1. k \in 1..Len(segs) /\ 1 \in 1..Len(segs[k]) /\ segs[k][1] # Empty
    BY <1>3
  <2> QED
    BY <1>2, <2>1
<1>6. Prefix(m) \subseteq P
  BY <1>5 DEF Prefix
<1>7. IsFiniteSet(P)
  <2>1. CASE m = Len(segs)
    <3>1. P \subseteq Prefix(m)
      BY <1>2, <1>3, <1>4, <2>1 DEF Prefix
    <3> QED
      BY <3>1, PrefixSize, FS_Subset
  <2>2. CASE Len(segs) = m + 1
    <3> DEFINE last == {m + 1} \X (1..Len(segs[m + 1]))
    <3>1. Len(segs[m + 1]) \in Nat
      BY <2>2 DEF IsPath, IsList
    <3>2. IsFiniteSet(last)
      <4>1. IsFiniteSet({m + 1}) /\ IsFiniteSet(1..Len(segs[m + 1]))
        <5>1. 1 \in Int /\ Len(segs[m + 1]) \in Int
          BY <3>1
        <5> QED
          BY <5>1, FS_Singleton, FS_Interval, Zenon
      <4> QED
        BY <4>1, FS_Product, Zenon
    <3>3. P \subseteq Prefix(m) \cup last
      BY <1>2, <1>3, <1>4, <2>2 DEF Prefix
    <3> HIDE DEF last
    <3> QED
      BY <3>2, <3>3, PrefixSize, FS_Union, FS_Subset
  <2> QED
    BY <1>3, <2>1, <2>2
<1>8. Cardinality(P) \in Nat /\ Cardinality(P) >= m
  BY <1>6, <1>7, PrefixSize, FS_CardinalityType, FS_Subset
<1>9. ASSUME NEW k \in 1..m
      PROVE  rank(<<k, 1>>) = k - 1
  <2>1. {q \in P : Earlier(q, <<k, 1>>)} = Prefix(k - 1)
    <3>1. ASSUME NEW q \in P, Earlier(q, <<k, 1>>)
          PROVE  q \in Prefix(k - 1)
      <4>1. q[1] < k
        BY <1>2, <1>3, <3>1 DEF Earlier
      <4> QED
        BY <1>2, <1>3, <1>4, <4>1 DEF Prefix
    <3>2. ASSUME NEW q \in Prefix(k - 1)
          PROVE  q \in P /\ Earlier(q, <<k, 1>>)
      BY <1>5, <3>2 DEF Prefix, Earlier
    <3> QED
      BY <3>1, <3>2
  <2>2. k - 1 \in Nat
    OBVIOUS
  <2> QED
    BY <2>1, <2>2, PrefixSize
<1>10. ASSUME NEW p \in P, p[1] > m
       PROVE  rank(p) >= m
  <2> DEFINE E == {q \in P : Earlier(q, p)}
  <2>1. Prefix(m) \subseteq E
    BY <1>2, <1>3, <1>5, <1>10 DEF Prefix, Earlier
  <2>2. IsFiniteSet(E)
    BY <1>7, FS_Subset
  <2> QED
    BY <2>1, <2>2, PrefixSize, FS_Subset, FS_CardinalityType
<1>11. ASSUME NEW k \in 1..m
       PROVE  nth(k) = <<k, 1>>
  <2>1. ASSUME NEW p \in P, rank(p) = k - 1
        PROVE  p = <<k, 1>>
    <3>1. CASE p[1] <= m
      <4>1. p = <<p[1], 1>> /\ p[1] \in 1..m
        BY <1>2, <1>3, <1>4, <3>1
      <4>2. rank(p) = p[1] - 1
        BY <1>9, <4>1
      <4> QED
        BY <2>1, <4>1, <4>2
    <3>2. CASE p[1] > m
      BY <1>10, <2>1, <3>2
    <3> QED
      BY <1>2, <1>3, <3>1, <3>2
  <2>2. <<k, 1>> \in P /\ rank(<<k, 1>>) = k - 1
    BY <1>5, <1>9
  <2> HIDE DEF rank
  <2> QED
    BY <2>1, <2>2
<1> HIDE DEF nth
<1>12. \A k \in 1..m : path[k] = segs[k][1]
  BY <1>8, <1>11
<1>13. Len(path) = Cardinality(P)
  BY <1>8
<1>14. ASSUME m = Len(segs) PROVE Cardinality(P) = m
  <2>1. P \subseteq Prefix(m)
    BY <1>2, <1>3, <1>4, <1>14 DEF Prefix
  <2> QED
    BY <1>6, <2>1, P = Prefix(m), PrefixSize
<1> QED
  BY <1>1, <1>8, <1>12, <1>13, <1>14 DEF Splits

-----------------------------------------------------------------------------
(* The registry and the mux of a state.                                    *)

\* Registry.Add adds every group once.
GroupsOnce ==
  /\ groups \in Seq(DOMAIN Routes)
  /\ \A k, l \in 1..Len(groups) : groups[k] = groups[l] => k = l

PatternAt(p) == Pattern(meta(p).method, meta(p).path)

IsPlace(p) ==
  /\ p = <<p[1], p[2]>> /\ p[1] \in 1..Len(groups)
  /\ groups[p[1]] \in DOMAIN Routes /\ p[2] \in DOMAIN Routes[groups[p[1]]]
  /\ meta(p) = Routes[groups[p[1]]][p[2]]
  /\ meta(p).name \in OwnNames[groups[p[1]]] /\ meta(p).method \in Methods
  /\ IsRoutePath(meta(p).path)
  /\ Mounts[groups[p[1]]][p[2]] = PatternAt(p)

\* A place of the registry is a row of the table of an enabled group.
LEMMA PlaceIs ==
  ASSUME GroupsOnce, NEW p \in Places(All)
  PROVE  IsPlace(p)
<1>1. /\ p = <<p[1], p[2]>> /\ p[1] \in 1..Len(groups)
      /\ groups[p[1]] \in DOMAIN Routes /\ p[2] \in DOMAIN Routes[groups[p[1]]]
      /\ meta(p) = Routes[groups[p[1]]][p[2]]
  BY DEF Places, All, meta, GroupsOnce
<1>2. GroupTable(groups[p[1]], Routes[groups[p[1]]], Mounts[groups[p[1]]])
  BY <1>1, Tables
<1>3. RowOf(groups[p[1]], meta(p), Mounts[groups[p[1]]][p[2]])
  BY <1>1, <1>2 DEF GroupTable
<1> QED
  BY <1>1, <1>3 DEF IsPlace, RowOf, PatternAt

\* Every row of an enabled group has a place.
LEMMA PlaceOf ==
  ASSUME GroupsOnce, NEW k \in 1..Len(groups), NEW l \in DOMAIN Routes[groups[k]]
  PROVE  <<k, l>> \in Places(All)
<1>1. k \in DOMAIN All /\ l \in DOMAIN All[k]
  BY DEF All, GroupsOnce
<1> QED
  BY <1>1 DEF Places

\* Routes with one name, or with one method and path, are one route.
LEMMA SamePlace ==
  ASSUME GroupsOnce, NEW p \in Places(All), NEW q \in Places(All),
         \/ meta(p).name = meta(q).name
         \/ meta(p).method = meta(q).method /\ meta(p).path = meta(q).path
  PROVE  p = q
<1>1. IsPlace(p) /\ IsPlace(q)
  BY PlaceIs
<1>2. groups[p[1]] = groups[q[1]] /\ p[2] = q[2]
  BY <1>1, OnePlace DEF IsPlace
<1>3. p[1] = q[1]
  BY <1>1, <1>2 DEF IsPlace, GroupsOnce
<1> QED
  BY <1>1, <1>2, <1>3 DEF IsPlace

\* The patterns of the endpoints are those of the places of the registry.
LEMMA PatternsOfPlaces ==
  ASSUME GroupsOnce
  PROVE  EndpointPatterns = {PatternAt(p) : p \in Places(All)}
<1>1. ASSUME NEW p \in Places(All)
      PROVE  PatternAt(p) \in EndpointPatterns
  <2>1. IsPlace(p)
    BY <1>1, PlaceIs
  <2>2. GroupTable(groups[p[1]], Routes[groups[p[1]]], Mounts[groups[p[1]]])
    BY <2>1, Tables DEF IsPlace
  <2>3. p[2] \in DOMAIN Mounts[groups[p[1]]] /\ p[1] \in DOMAIN groups
    BY <2>1, <2>2 DEF IsPlace, GroupTable, GroupsOnce
  <2>4. groups[p[1]] \in Range(groups) /\ PatternAt(p) \in Range(Mounts[groups[p[1]]])
    BY <2>1, <2>3 DEF Range, IsPlace
  <2> QED
    BY <2>4 DEF EndpointPatterns
<1>2. ASSUME NEW e \in EndpointPatterns
      PROVE  \E p \in Places(All) : e = PatternAt(p)
  <2>1. PICK g \in Range(groups) : e \in Range(Mounts[g])
    BY <1>2 DEF EndpointPatterns
  <2>2. PICK k \in 1..Len(groups) : g = groups[k]
    BY <2>1 DEF Range, GroupsOnce
  <2>3. PICK l \in DOMAIN Mounts[g] : e = Mounts[g][l]
    BY <2>1 DEF Range
  <2>4. GroupTable(g, Routes[g], Mounts[g])
    BY <2>2, Tables DEF GroupsOnce
  <2>5. l \in DOMAIN Routes[g]
    BY <2>3, <2>4 DEF GroupTable
  <2>6. <<k, l>> \in Places(All)
    BY <2>2, <2>5, PlaceOf
  <2>7. IsPlace(<<k, l>>)
    BY <2>6, PlaceIs
  <2> QED
    BY <2>2, <2>3, <2>6, <2>7 DEF IsPlace
<1> QED
  BY <1>1, <1>2

Elsewhere(x) ==
  x = Tree("GET", <<>>) \/ (Len(x.path) >= 1 /\ x.path[1] \notin Wildcards \cup {"v1"})

\* The patterns of the mux are those of the enabled groups and some elsewhere.
LEMMA OtherPatterns ==
  ASSUME GroupsOnce
  PROVE  /\ EndpointPatterns \subseteq Patterns
         /\ \A x \in Patterns : x \in EndpointPatterns \/ Elsewhere(x)
<1>1. Range(groups) \subseteq DOMAIN Routes
  BY DEF Range, GroupsOnce
<1>2. /\ Range(groups) \subseteq DOMAIN BuildMux
      /\ DOMAIN BuildMux \subseteq Range(groups) \cup (DOMAIN Mounts \ DOMAIN Routes)
      /\ \A part \in DOMAIN BuildMux : BuildMux[part] = Mounts[part]
  BY Parts, Tables DEF BuildMux, PortalParts
<1>3. ASSUME NEW e \in EndpointPatterns
      PROVE  e \in Patterns
  <2>1. PICK g \in Range(groups) : e \in Range(Mounts[g])
    BY <1>3 DEF EndpointPatterns
  <2>2. PICK l \in DOMAIN Mounts[g] : e = Mounts[g][l]
    BY <2>1 DEF Range
  <2>3. <<g, l>> \in Places(BuildMux) /\ e = BuildMux[g][l]
    BY <1>2, <2>1, <2>2 DEF Places
  <2> QED
    BY <2>3 DEF Patterns
<1>4. ASSUME NEW x \in Patterns, x \notin EndpointPatterns
      PROVE  Elsewhere(x)
  <2>1. PICK p \in Places(BuildMux) : x = BuildMux[p[1]][p[2]]
    BY <1>4 DEF Patterns
  <2>2. PICK s \in DOMAIN BuildMux : p[1] = s /\ p[2] \in DOMAIN BuildMux[s]
    BY <2>1 DEF Places
  <2> DEFINE l == p[2]
  <2>3. s \in DOMAIN BuildMux /\ l \in DOMAIN Mounts[s] /\ x = Mounts[s][l]
    BY <1>2, <2>1, <2>2
  <2>4. s \notin Range(groups)
    BY <1>4, <2>3 DEF EndpointPatterns, Range
  <2>5. s \in DOMAIN Mounts /\ s \notin DOMAIN Routes
    BY <1>2, <2>3, <2>4
  <2>6. CASE s = "root"
    BY <2>3, <2>6, Parts DEF Elsewhere
  <2>7. CASE s # "root"
    <3>1. Headed(s, l, x)
      BY <2>3, <2>5, <2>7, Heads
    <3>2. x.path[1] # "v1"
      BY <2>5, <3>1 DEF Headed, HeadOf
    <3> QED
      BY <3>1, <3>2 DEF Headed, Elsewhere
  <2> QED
    BY <2>6, <2>7
<1> QED
  BY <1>3, <1>4

\* The mux takes every pattern that BuildMux registers.
LEMMA NoPanic ==
  ASSUME GroupsOnce
  PROVE  ~Panics
<1>1. /\ DOMAIN BuildMux \subseteq DOMAIN Mounts
      /\ \A part \in DOMAIN BuildMux : BuildMux[part] = Mounts[part]
  <2>1. Range(groups) \subseteq DOMAIN Routes
    BY DEF Range, GroupsOnce
  <2> QED
    BY <2>1, Parts DEF BuildMux, PortalParts
<1>2. ASSUME NEW p \in Places(BuildMux), NEW q \in Places(BuildMux), p # q
      PROVE  ~Conflict(BuildMux[p[1]][p[2]], BuildMux[q[1]][q[2]])
  <2>1. /\ p = <<p[1], p[2]>> /\ p[1] \in DOMAIN BuildMux /\ p[2] \in DOMAIN BuildMux[p[1]]
        /\ q = <<q[1], q[2]>> /\ q[1] \in DOMAIN BuildMux /\ q[2] \in DOMAIN BuildMux[q[1]]
    BY <1>2 DEF Places
  <2>2. p[1] # q[1] \/ p[2] # q[2]
    BY <1>2, <2>1
  <2> QED
    BY <1>1, <2>1, <2>2, NoConflicts
<1> QED
  BY <1>2 DEF Panics

-----------------------------------------------------------------------------
(* The pattern that gets a request.                                        *)

Fits(path, segs) ==
  /\ Len(path) = Len(segs)
  /\ \A k \in 1..Len(path) : path[k] \in Wildcards \/ <<path[k]>> = segs[k]

Hits(r) == {p \in Patterns : Matches(p, r)}

\* A pattern of a group gets a request for its method that fits its path.
LEMMA EndpointMatches ==
  ASSUME NEW p, NEW r
  PROVE  Matches(PatternAt(p), r) <=> /\ MethodCovers(meta(p).method, r.method)
                                      /\ r.slash = FALSE /\ Fits(meta(p).path, r.segs)
<1> DEFINE e == PatternAt(p)
<1>1. e.method = meta(p).method /\ e.path = meta(p).path /\ e.tree = FALSE
  BY DEF PatternAt, Pattern
<1> HIDE DEF e
<1>2. Matches(e, r) <=> /\ MethodCovers(meta(p).method, r.method)
                        /\ r.slash = FALSE /\ Fits(meta(p).path, r.segs)
  BY <1>1 DEF Matches, Fits
<1> QED
  BY <1>2 DEF e

\* One path of a route at most fits a request.
LEMMA OneFit ==
  ASSUME NEW p, IsRoutePath(p), NEW q, IsRoutePath(q), NEW segs, Fits(p, segs), Fits(q, segs)
  PROVE  p = q
<1>1. Len(p) = Len(q)
  BY DEF Fits
<1>2. ASSUME NEW k \in 1..Len(p), p[k] \notin Wildcards, q[k] \notin Wildcards
      PROVE  p[k] = q[k]
  <2>1. <<p[k]>> = <<q[k]>>
    BY <1>1, <1>2 DEF Fits
  <2> QED
    BY <2>1
<1> QED
  BY <1>1, <1>2, OnePath

\* When a pattern of an endpoint gets a request, the best one that does is a pattern
\* of an endpoint, with the same path, and with the method of the request if any has.
BestAt(b, r) ==
  /\ Best(Hits(r)) = {PatternAt(b)} /\ Matches(PatternAt(b), r)
  /\ \/ meta(b).method = r.method
     \/ \A q \in Places(All) : Matches(PatternAt(q), r) => meta(q).method # r.method

\* If a route fits a request the most specific pattern is that of a route with the
\* same path.
LEMMA BestHit ==
  ASSUME GroupsOnce, NEW r, NEW p \in Places(All), Matches(PatternAt(p), r)
  PROVE  \E b \in Places(All) : BestAt(b, r) /\ meta(b).path = meta(p).path
<1>1. PICK b \in Places(All) :
        /\ Matches(PatternAt(b), r)
        /\ \/ meta(b).method = r.method
           \/ \A q \in Places(All) : Matches(PatternAt(q), r) => meta(q).method # r.method
  OBVIOUS
<1>2. ASSUME NEW q \in Places(All), Matches(PatternAt(q), r)
      PROVE  meta(q).path = meta(b).path /\ MethodCovers(meta(q).method, r.method)
  <2>1. IsRoutePath(meta(q).path) /\ IsRoutePath(meta(b).path)
    BY PlaceIs DEF IsPlace
  <2>2. /\ Fits(meta(q).path, r.segs) /\ Fits(meta(b).path, r.segs)
        /\ MethodCovers(meta(q).method, r.method)
    BY <1>1, <1>2, EndpointMatches
  <2> QED
    BY <2>1, <2>2, OneFit
<1>3. /\ IsRoutePath(meta(b).path) /\ r.segs[1] = <<"v1">>
      /\ Len(meta(b).path) >= 2 /\ Len(r.segs) = Len(meta(b).path)
  <2>1. IsRoutePath(meta(b).path)
    BY PlaceIs DEF IsPlace
  <2>2. Fits(meta(b).path, r.segs)
    BY <1>1, EndpointMatches
  <2>3. 1 \in 1..Len(meta(b).path) /\ meta(b).path[1] = "v1" /\ "v1" \notin Wildcards
    BY <2>1 DEF IsRoutePath, Wildcards
  <2> QED
    BY <2>1, <2>2, <2>3 DEF Fits, IsRoutePath
<1>4. ASSUME NEW x \in Hits(r)
      PROVE  \/ x = Tree("GET", <<>>) /\ MethodCovers("GET", r.method)
             \/ \E q \in Places(All) : /\ x = PatternAt(q) /\ Matches(PatternAt(q), r)
                                       /\ meta(q).path = meta(b).path
  <2>1. x \in Patterns /\ Matches(x, r)
    BY <1>4 DEF Hits
  <2>2. CASE x \in EndpointPatterns
    <3>1. PICK q \in Places(All) : x = PatternAt(q)
      BY <2>2, PatternsOfPlaces
    <3> QED
      BY <1>2, <2>1, <3>1
  <2>3. CASE x = Tree("GET", <<>>)
    <3>1. x.method = "GET"
      BY <2>3 DEF Tree
    <3> QED
      BY <2>1, <2>3, <3>1 DEF Matches
  <2>4. CASE Len(x.path) >= 1 /\ x.path[1] \notin Wildcards \cup {"v1"}
    <3>1. \/ Len(x.path) < Len(r.segs)
          \/ Len(x.path) = Len(r.segs)
      BY <2>1, Zenon DEF Matches
    <3>2. \A k \in 1..Len(x.path) : x.path[k] \in Wildcards \/ <<x.path[k]>> = r.segs[k]
      BY <2>1, Zenon DEF Matches
    <3>3. 1 \in 1..Len(x.path)
      BY <1>3, <2>4, <3>1 DEF IsRoutePath
    <3>4. <<x.path[1]>> = <<"v1">>
      BY <1>3, <2>4, <3>2, <3>3
    <3> QED
      BY <2>4, <3>4
  <2> QED
    BY <2>1, <2>2, <2>3, <2>4, OtherPatterns DEF Elsewhere
<1> DEFINE e == PatternAt(b)
<1>5. /\ e.method = meta(b).method /\ e.path = meta(b).path /\ e.tree = FALSE
      /\ MethodCovers(e.method, r.method)
  BY <1>1, <1>2 DEF PatternAt, Pattern
<1>6. e \in Hits(r)
  BY <1>1, PatternsOfPlaces, OtherPatterns DEF Hits
<1>7. ASSUME NEW x \in Hits(r)
      PROVE  Covers(x, e)
  <2>1. CASE x = Tree("GET", <<>>) /\ MethodCovers("GET", r.method)
    <3>1. x.method = "GET" /\ x.tree = TRUE /\ Len(x.path) = 0
      BY <2>1 DEF Tree
    <3>2. MethodCovers("GET", e.method)
      BY <1>5, <2>1 DEF MethodCovers
    <3>3. Len(x.path) < Len(e.path) /\ 1..Len(x.path) = {}
      BY <1>3, <1>5, <3>1
    <3> HIDE DEF e
    <3> QED
      BY <3>1, <3>2, <3>3 DEF Covers
  <2>2. ASSUME NEW q \in Places(All), x = PatternAt(q), Matches(PatternAt(q), r),
               meta(q).path = meta(b).path
        PROVE  Covers(x, e)
    <3>1. x.method = meta(q).method /\ x.path = meta(b).path /\ x.tree = FALSE
      BY <2>2 DEF PatternAt, Pattern
    <3>2. MethodCovers(x.method, e.method)
      BY <1>1, <1>2, <1>5, <2>2, <3>1 DEF MethodCovers
    <3>3. \A k \in 1..Len(x.path) : SegmentCovers(x.path[k], e.path[k])
      BY <1>5, <3>1 DEF SegmentCovers
    <3> HIDE DEF e
    <3> QED
      BY <1>5, <3>1, <3>2, <3>3 DEF Covers
  <2> QED
    BY <1>4, <1>7, <2>1, <2>2
<1>8. ASSUME NEW x \in Hits(r), \A y \in Hits(r) : Covers(y, x)
      PROVE  x = e
  <2>1. Covers(e, x)
    BY <1>6, <1>8
  <2>2. x # Tree("GET", <<>>)
    <3>1. ASSUME x = Tree("GET", <<>>) PROVE FALSE
      <4>1. Len(x.path) = 0
        BY <3>1 DEF Tree
      <4>2. Len(e.path) = Len(x.path) \/ Len(e.path) < Len(x.path)
        BY <2>1, Zenon DEF Covers
      <4> QED
        BY <1>3, <1>5, <4>1, <4>2
    <3> QED
      BY <3>1
  <2>3. PICK q \in Places(All) : /\ x = PatternAt(q) /\ Matches(PatternAt(q), r)
                                 /\ meta(q).path = meta(b).path
    BY <1>4, <2>2
  <2>4. x.method = meta(q).method /\ MethodCovers(e.method, x.method)
    BY <2>1, <2>3 DEF Covers, PatternAt, Pattern
  <2>5. MethodCovers(x.method, r.method)
    BY <1>2, <2>3, <2>4
  <2>6. meta(q).method = meta(b).method
    BY <1>1, <1>5, <2>3, <2>4, <2>5 DEF MethodCovers
  <2> QED
    BY <2>3, <2>6 DEF PatternAt
<1> HIDE DEF e
<1>9. Best(Hits(r)) = {e}
  BY <1>6, <1>7, <1>8 DEF Best
<1> QED
  BY <1>1, <1>2, <1>9 DEF e, BestAt

-----------------------------------------------------------------------------
(* The route that the registry finds.                                      *)

Found(method, segs) ==
  {p \in Places(All) : /\ meta(p).method = method
                       /\ matchSegments(meta(p).path, splitPathSegments(segs))}

\* The registry finds the route that the decoded path fits.
LEMMA RouteFound ==
  ASSUME GroupsOnce, NEW method, NEW segs, NEW p \in Found(method, segs)
  PROVE  RouteForRequest(method, segs) = <<groups[p[1]], meta(p).name>>
<1>1. ASSUME NEW q \in Found(method, segs)
      PROVE  q = p
  <2>1. /\ q \in Places(All) /\ p \in Places(All)
        /\ meta(q).method = meta(p).method
        /\ matchSegments(meta(q).path, splitPathSegments(segs))
        /\ matchSegments(meta(p).path, splitPathSegments(segs))
    BY <1>1 DEF Found
  <2>2. IsRoutePath(meta(q).path) /\ IsRoutePath(meta(p).path)
    BY <2>1, PlaceIs DEF IsPlace
  <2> DEFINE a == meta(q).path
             b == meta(p).path
  <2> HIDE DEF a
  <2> HIDE DEF b
  <2>3. /\ Len(a) = Len(b)
        /\ \A k \in 1..Len(a) : a[k] \in Wildcards \/ b[k] \in Wildcards \/ a[k] = b[k]
    BY <2>1 DEF matchSegments, a, b
  <2>4. a = b
    BY <2>2, <2>3, OnePath DEF a, b
  <2> QED
    BY <2>1, <2>4, SamePlace DEF a, b
<1>2. Found(method, segs) = {p}
  BY <1>1
<1>3. First({p}) = p
  BY DEF First
<1>4. RouteForRequest(method, segs) =
        IF Found(method, segs) = {} THEN NoRoute
        ELSE <<groups[First(Found(method, segs))[1]], meta(First(Found(method, segs))).name>>
  BY DEF RouteForRequest, Found
<1> QED
  BY <1>2, <1>3, <1>4

\* It finds none if the decoded path fits none.
LEMMA NoRouteFound ==
  ASSUME NEW method, NEW segs, Found(method, segs) = {}
  PROVE  RouteForRequest(method, segs) = NoRoute
  BY DEF RouteForRequest, Found

\* What the registry makes of a path that the mux has matched.
LEMMA Decoded ==
  ASSUME NEW segs, IsPath(segs), NEW path, IsRoutePath(path), Fits(path, segs),
         NEW s, s = splitPathSegments(segs)
  PROVE  /\ Len(s) = Len(segs) => matchSegments(path, s)
         /\ \A q : IsRoutePath(q) /\ matchSegments(q, s) => Len(s) = Len(segs)
<1> DEFINE len == Len(path)
<1>1. len \in 2..4 /\ Len(segs) = len
  BY DEF IsRoutePath, Fits
<1>2. ASSUME NEW k \in 1..len, path[k] \notin Wildcards
      PROVE  Len(segs[k]) = 1 /\ segs[k][1] = path[k] /\ segs[k][1] # Empty
  <2>1. segs[k] = <<path[k]>> /\ path[k] # Empty
    BY <1>2 DEF Fits, IsRoutePath
  <2> QED
    BY <2>1
<1>3. \A k \in 1..len : k < len => path[k] \notin Wildcards
  BY <1>1 DEF IsRoutePath
<1> HIDE DEF len
<1>4. /\ Len(s) \in Nat /\ Len(s) >= len - 1
      /\ \A k \in 1..len : k < len => s[k] = path[k]
  <2>1. \A k \in 1..(len - 1) : Len(segs[k]) = 1 /\ segs[k][1] = path[k] /\ segs[k][1] # Empty
    BY <1>1, <1>2, <1>3
  <2>2. len - 1 \in Nat /\ len - 1 <= Len(segs) /\ Len(segs) <= (len - 1) + 1
    BY <1>1
  <2>3. Splits(segs, len - 1, s)
    BY <2>1, <2>2, Split
  <2> QED
    BY <1>1, <2>1, <2>3 DEF Splits
<1>5. CASE path[len] \notin Wildcards
  <2>1. \A k \in 1..len : Len(segs[k]) = 1 /\ segs[k][1] = path[k] /\ segs[k][1] # Empty
    BY <1>1, <1>2, <1>3, <1>5
  <2>2. len \in Nat /\ len <= Len(segs) /\ Len(segs) <= len + 1
    BY <1>1
  <2>3. Splits(segs, len, s)
    BY <2>1, <2>2, Split
  <2>4. Len(s) = len /\ \A k \in 1..len : s[k] = path[k]
    BY <1>1, <2>1, <2>3 DEF Splits
  <2> QED
    BY <1>1, <2>4 DEF matchSegments, len
<1>6. CASE path[len] \in Wildcards
  <2>1. len = 3 /\ path[2] \in {"fixed", "status"} /\ s[2] = path[2]
    <3>1. len \in 1..len
      BY <1>1
    <3>2. len = 3 /\ path[2] \in {"fixed", "status"}
      BY <1>6, <3>1 DEF IsRoutePath, len
    <3> QED
      BY <1>4, <3>2
  <2>2. ASSUME Len(s) = Len(segs)
        PROVE  matchSegments(path, s)
    <3>1. \A k \in 1..len : path[k] \in Wildcards \/ path[k] = s[k]
      BY <1>1, <1>4, <1>6
    <3> QED
      BY <1>1, <2>2, <3>1 DEF matchSegments, len
  <2>3. ASSUME NEW q, IsRoutePath(q), matchSegments(q, s)
        PROVE  Len(s) = Len(segs)
    <3>1. Len(q) \in 2..4 /\ Len(q) = Len(s) /\ q[2] \notin Wildcards
      BY <2>3 DEF IsRoutePath, matchSegments
    <3>2. q[2] = s[2]
      BY <2>3, <3>1 DEF matchSegments
    <3>3. Len(q) = 3
      BY <2>1, <2>3, <3>2 DEF IsRoutePath
    <3> QED
      BY <1>1, <2>1, <3>1, <3>3
  <2> QED
    BY <2>2, <2>3
<1> QED
  BY <1>5, <1>6

\* A path without escaped slashes and empty segments is what it was.
LEMMA DecodedPlain ==
  ASSUME NEW segs, IsPath(segs), \A k \in 1..Len(segs) : Len(segs[k]) = 1 /\ segs[k][1] # Empty,
         NEW s, s = splitPathSegments(segs)
  PROVE  /\ Len(s) = Len(segs)
         /\ \A q : IsRoutePath(q) /\ matchSegments(q, s) => Fits(q, segs)
<1>1. Len(segs) \in Nat
  BY DEF IsPath, IsList
<1>2. Splits(segs, Len(segs), s)
  BY <1>1, Split
<1>3. Len(s) = Len(segs) /\ \A k \in 1..Len(segs) : s[k] = segs[k][1]
  BY <1>2 DEF Splits
<1>4. ASSUME NEW k \in 1..Len(segs)
      PROVE  segs[k] = <<segs[k][1]>>
  <2>1. IsList(segs[k]) /\ Len(segs[k]) = 1
    BY DEF IsPath
  <2> QED
    BY <2>1 DEF IsList
<1>5. ASSUME NEW q, IsRoutePath(q), matchSegments(q, s)
      PROVE  Fits(q, segs)
  BY <1>3, <1>4, <1>5 DEF matchSegments, Fits
<1> QED
  BY <1>3, <1>5

-----------------------------------------------------------------------------
(* The answer to a request.                                                *)

\* AuditNamesTheRoute, of a request and its answer.
RowNames(r, a) ==
  IF r.method = a.pattern.method /\ Len(splitPathSegments(r.segs)) = Len(r.segs)
  THEN \E p \in Places(All) : /\ a.row = <<groups[p[1]], meta(p).name>>
                              /\ meta(p).method = a.pattern.method
                              /\ meta(p).path = a.pattern.path
  ELSE a.row = NoRoute

\* The row of a request that the pattern at b gets.
LEMMA RowOfBest ==
  ASSUME GroupsOnce, NEW r, IsPath(r.segs), NEW b \in Places(All), BestAt(b, r),
         NEW a, a.pattern = PatternAt(b), a.row = RouteForRequest(r.method, r.segs)
  PROVE  RowNames(r, a)
<1> DEFINE s == splitPathSegments(r.segs)
           path == meta(b).path
<1>1. IsRoutePath(path)
  BY PlaceIs DEF IsPlace
<1>2. r.slash = FALSE /\ Fits(path, r.segs)
  BY EndpointMatches DEF BestAt
<1>3. /\ Len(s) = Len(r.segs) => matchSegments(path, s)
      /\ \A q : IsRoutePath(q) /\ matchSegments(q, s) => Len(s) = Len(r.segs)
  BY <1>1, <1>2, Decoded
<1>4. a.pattern.method = meta(b).method /\ a.pattern.path = path
  BY DEF PatternAt, Pattern
<1>5. CASE r.method = meta(b).method /\ Len(s) = Len(r.segs)
  <2>1. b \in Found(r.method, r.segs)
    BY <1>3, <1>5 DEF Found
  <2>2. a.row = <<groups[b[1]], meta(b).name>>
    BY <2>1, RouteFound
  <2> QED
    BY <1>4, <1>5, <2>2 DEF RowNames
<1>6. CASE ~(r.method = meta(b).method /\ Len(s) = Len(r.segs))
  <2>1. ASSUME NEW q \in Found(r.method, r.segs)
        PROVE  FALSE
    <3> DEFINE other == meta(q).path
    <3>1. q \in Places(All) /\ meta(q).method = r.method /\ matchSegments(other, s)
      BY <2>1 DEF Found
    <3>2. IsRoutePath(other)
      BY <3>1, PlaceIs DEF IsPlace
    <3>3. Len(s) = Len(r.segs) /\ matchSegments(path, s)
      BY <1>3, <3>1, <3>2
    <3>4. other = path
      <4> HIDE DEF other
      <4> HIDE DEF path
      <4>1. /\ Len(other) = Len(path)
            /\ \A k \in 1..Len(other) :
                 other[k] \in Wildcards \/ path[k] \in Wildcards \/ other[k] = path[k]
        BY <3>1, <3>3 DEF matchSegments
      <4> QED
        BY <1>1, <3>2, <4>1, OnePath
    <3>5. Matches(PatternAt(q), r)
      BY <1>2, <3>1, <3>4, EndpointMatches DEF MethodCovers
    <3> QED
      BY <1>6, <3>1, <3>3, <3>5 DEF BestAt
  <2>2. a.row = NoRoute
    BY <2>1, NoRouteFound
  <2> QED
    BY <1>4, <1>6, <2>2 DEF RowNames
<1> QED
  BY <1>5, <1>6

WellServed(r, a) ==
  /\ a.to \in {"redirect", "no_method", "other", "endpoint"}
  /\ a.to = "endpoint" => RowNames(r, a)
  /\ Unclean(r) => a.to = "redirect"
  /\ \A p \in Places(All) :
       Matches(PatternAt(p), r) /\ ~Unclean(r) =>
         /\ a.to = "endpoint"
         /\ meta(p).method = r.method /\ Len(splitPathSegments(r.segs)) = Len(r.segs) =>
              a.row = <<groups[p[1]], meta(p).name>>

\* What ServeHTTP answers.
LEMMA Serves ==
  ASSUME GroupsOnce, NEW r, IsPath(r.segs), NEW a, a = ServeHTTP(r)
  PROVE  WellServed(r, a)
<1> DEFINE best == Best(Hits(r))
<1>1. \/ a.to = "redirect" /\ (RootOfTree(r) \/ Unclean(r))
      \/ a.to = "no_method" /\ Hits(r) = {} /\ ~Unclean(r)
      \/ a.to = "other" /\ best \cap EndpointPatterns = {} /\ ~Unclean(r)
      \/ /\ a.to = "endpoint" /\ best \cap EndpointPatterns # {} /\ ~Unclean(r)
         /\ a.pattern = (CHOOSE p \in best : TRUE)
         /\ a.row = RouteForRequest(r.method, r.segs)
  <2> HIDE DEF best
  <2>1. a = IF RootOfTree(r) \/ Unclean(r) THEN [NoAnswer EXCEPT !.to = "redirect"]
            ELSE IF Hits(r) = {} THEN [NoAnswer EXCEPT !.to = "no_method"]
            ELSE IF best \cap EndpointPatterns = {} THEN [NoAnswer EXCEPT !.to = "other"]
            ELSE [to |-> "endpoint", pattern |-> CHOOSE p \in best : TRUE,
                  row |-> RouteForRequest(r.method, r.segs)]
    BY DEF ServeHTTP, Hits, best
  <2> QED
    BY <2>1 DEF NoAnswer
<1>2. ASSUME NEW p \in Places(All), Matches(PatternAt(p), r)
      PROVE  /\ ~RootOfTree(r) /\ PatternAt(p) \in Hits(r)
             /\ \E b \in Places(All) : BestAt(b, r) /\ meta(b).path = meta(p).path
  <2>1. PatternAt(p) \in Hits(r) /\ PatternAt(p) \in Patterns
    BY <1>2, PatternsOfPlaces, OtherPatterns DEF Hits
  <2>2. PatternAt(p).tree = FALSE
    BY DEF PatternAt, Pattern
  <2>3. ~RootOfTree(r)
    BY <1>2, <2>1, <2>2 DEF RootOfTree
  <2> QED
    BY <1>2, <2>1, <2>3, BestHit
<1> HIDE DEF best
<1>3. ASSUME NEW b \in Places(All), BestAt(b, r), a.to = "endpoint"
      PROVE  RowNames(r, a) /\ a.pattern = PatternAt(b)
  <2>1. a.pattern = PatternAt(b) /\ a.row = RouteForRequest(r.method, r.segs)
    BY <1>1, <1>3 DEF BestAt, best
  <2> QED
    BY <1>3, <2>1, RowOfBest
<1>4. ASSUME a.to = "endpoint"
      PROVE  RowNames(r, a)
  <2>1. PICK x \in EndpointPatterns : x \in best
    BY <1>1, <1>4
  <2>2. PICK p \in Places(All) : x = PatternAt(p)
    BY <2>1, PatternsOfPlaces
  <2>3. Matches(PatternAt(p), r)
    BY <2>1, <2>2 DEF best, Best, Hits
  <2> QED
    BY <1>2, <1>3, <1>4, <2>3
<1>5. ASSUME NEW p \in Places(All), Matches(PatternAt(p), r), ~Unclean(r)
      PROVE  /\ a.to = "endpoint"
             /\ meta(p).method = r.method /\ Len(splitPathSegments(r.segs)) = Len(r.segs) =>
                  a.row = <<groups[p[1]], meta(p).name>>
  <2>1. PICK b \in Places(All) : BestAt(b, r) /\ meta(b).path = meta(p).path
    BY <1>2, <1>5
  <2>2. best \cap EndpointPatterns # {}
    BY <2>1, PatternsOfPlaces DEF BestAt, best
  <2>3. a.to = "endpoint"
    BY <1>1, <1>2, <1>5, <2>2
  <2>4. ASSUME meta(p).method = r.method, Len(splitPathSegments(r.segs)) = Len(r.segs)
        PROVE  a.row = <<groups[p[1]], meta(p).name>>
    <3>1. meta(b).method = r.method
      BY <1>5, <2>1, <2>4 DEF BestAt
    <3>2. b = p
      BY <2>1, <2>4, <3>1, SamePlace
    <3>3. RowNames(r, a) /\ a.pattern = PatternAt(p)
      BY <1>3, <2>1, <2>3, <3>2
    <3>4. a.pattern.method = meta(p).method /\ a.pattern.path = meta(p).path
      BY <3>3 DEF PatternAt, Pattern
    <3>5. PICK q \in Places(All) : /\ a.row = <<groups[q[1]], meta(q).name>>
                                   /\ meta(q).method = meta(p).method
                                   /\ meta(q).path = meta(p).path
      BY <2>4, <3>3, <3>4 DEF RowNames
    <3>6. q = p
      BY <3>5, SamePlace
    <3> QED
      BY <3>5, <3>6
  <2> QED
    BY <2>3, <2>4
<1> QED
  BY <1>1, <1>4, <1>5 DEF WellServed

-----------------------------------------------------------------------------
(* The inductive invariant.                                                *)

\* The two last parts of CatalogueIsServed, of a request, its answer and the route
\* that Try-It was asked for.
Reaches(r, a, t) ==
  /\ a.to # "bad_params" /\ Plain(r) /\ ~Unclean(r) /\ ~r.slash
  /\ RouteForRequest(r.method, r.segs) # NoRoute
  => a.to = IF r.method = "OPTIONS" /\ t = NoRoute THEN "preflight" ELSE "endpoint"

ReachesTried(r, a, t) ==
  t # NoRoute /\ r.method = findRoute(t[1], t[2]).method =>
    a.row = t \/ a.to = "bad_params" \/ (a.to = "redirect" /\ Unclean(r))

Answered(r, a, t) ==
  /\ a # NoAnswer
  /\ a.to = "endpoint" => RowNames(r, a)
  /\ Reaches(r, a, t) /\ ReachesTried(r, a, t)

RInv ==
  /\ GroupsOnce
  /\ stage \in {"registry", "documented", "serving"}
  /\ IF answer = NoAnswer THEN tried = NoRoute
     ELSE stage = "serving" /\ Answered(request, answer, tried)

IsRequest(r) == IsPath(r.segs) /\ r.slash \in BOOLEAN

\* A plain request for a route of the catalogue reaches it.
LEMMA PlainReaches ==
  ASSUME GroupsOnce, NEW r, IsRequest(r), NEW a, WellServed(r, a),
         Plain(r), ~Unclean(r), ~r.slash, RouteForRequest(r.method, r.segs) # NoRoute
  PROVE  a.to = "endpoint"
<1> DEFINE s == splitPathSegments(r.segs)
<1>1. PICK p \in Places(All) : meta(p).method = r.method /\ matchSegments(meta(p).path, s)
  BY NoRouteFound DEF Found
<1>2. IsRoutePath(meta(p).path)
  BY <1>1, PlaceIs DEF IsPlace
<1>3. ASSUME NEW k \in 1..Len(r.segs)
      PROVE  Len(r.segs[k]) = 1 /\ r.segs[k][1] # Empty
  <2>1. Len(r.segs[k]) = 1 /\ IsList(r.segs[k])
    BY <1>3 DEF Plain, IsRequest, IsPath
  <2>2. r.segs[k] = <<r.segs[k][1]>>
    BY <2>1 DEF IsList
  <2>3. r.segs[k] # <<Empty>>
    BY <1>3 DEF Unclean
  <2> QED
    BY <2>1, <2>2, <2>3
<1>4. Fits(meta(p).path, r.segs)
  BY <1>1, <1>2, <1>3, DecodedPlain DEF IsRequest
<1>5. Matches(PatternAt(p), r)
  BY <1>1, <1>4, EndpointMatches DEF IsRequest, MethodCovers
<1> QED
  BY <1>5 DEF WellServed

\* The empty sequence and a sequence of one are lists.
LEMMA ShortLists == IsList(<<>>) /\ \A x : IsList(<<x>>) /\ Len(<<x>>) >= 1
<1>1. <<>> \in Seq({}) /\ \A x : <<x>> \in Seq({x}) /\ Len(<<x>>) >= 1
  OBVIOUS
<1> QED
  BY <1>1, List

\* No route is found for the root.
LEMMA RootHasNoRoute ==
  ASSUME GroupsOnce, NEW method
  PROVE  RouteForRequest(method, <<>>) = NoRoute
<1>1. IsPath(<<>>)
  <2>1. \A k \in 1..Len(<<>>) : FALSE
    OBVIOUS
  <2> QED
    BY <2>1, ShortLists, Zenon DEF IsPath
<1>2. Len(splitPathSegments(<<>>)) = 0
  <2>1. Len(<<>>) = 0 /\ \A k \in 1..Len(<<>>) : FALSE
    OBVIOUS
  <2> QED
    BY <1>1, <2>1, DecodedPlain
<1>3. ASSUME NEW p \in Found(method, <<>>)
      PROVE  FALSE
  <2>1. p \in Places(All) /\ Len(meta(p).path) = 0
    BY <1>2, <1>3 DEF Found, matchSegments
  <2>2. IsRoutePath(meta(p).path)
    BY <2>1, PlaceIs DEF IsPlace
  <2> QED
    BY <2>1, <2>2 DEF IsRoutePath
<1> QED
  BY <1>3, NoRouteFound

\* The answer to a request from the wire is as the two properties want it.
LEMMA WireAnswers ==
  ASSUME GroupsOnce, NEW r, IsRequest(r), NEW a,
         \/ r.method = "OPTIONS" /\ a = [NoAnswer EXCEPT !.to = "preflight"]
         \/ isBrowserRoot(r) /\ a = [NoAnswer EXCEPT !.to = "redirect"]
         \/ r.method # "OPTIONS" /\ a = ServeHTTP(r)
  PROVE  Answered(r, a, NoRoute)
<1>1. NoAnswer.to = "none"
  BY DEF NoAnswer
<1>2. CASE r.method = "OPTIONS" /\ a = [NoAnswer EXCEPT !.to = "preflight"]
  <2>1. a.to = "preflight"
    BY <1>2 DEF NoAnswer
  <2> QED
    BY <1>1, <1>2, <2>1 DEF Answered, Reaches, ReachesTried
<1>3. CASE isBrowserRoot(r) /\ a = [NoAnswer EXCEPT !.to = "redirect"]
  <2>1. a.to = "redirect" /\ r.segs = <<>>
    BY <1>3 DEF NoAnswer, isBrowserRoot
  <2>2. RouteForRequest(r.method, r.segs) = NoRoute
    BY <2>1, RootHasNoRoute
  <2> QED
    BY <1>1, <2>1, <2>2 DEF Answered, Reaches, ReachesTried
<1>4. CASE r.method # "OPTIONS" /\ a = ServeHTTP(r)
  <2>1. WellServed(r, a)
    BY <1>4, Serves DEF IsRequest
  <2>2. a # NoAnswer /\ (a.to = "endpoint" => RowNames(r, a))
    BY <1>1, <2>1 DEF WellServed
  <2>3. Reaches(r, a, NoRoute)
    BY <1>4, <2>1, PlainReaches DEF Reaches
  <2> QED
    BY <2>2, <2>3 DEF Answered, ReachesTried
<1> QED
  BY <1>2, <1>3, <1>4

\* What depends on the registry alone.
LEMMA SameRegistry ==
  ASSUME groups' = groups
  PROVE  /\ All' = All /\ \A p : meta(p)' = meta(p)
         /\ \A method, segs : RouteForRequest(method, segs)' = RouteForRequest(method, segs)
         /\ \A g, name : findRoute(g, name)' = findRoute(g, name)
<1>1. All' = All
  BY DEF All
<1>2. \A p : meta(p)' = meta(p)
  BY <1>1 DEF meta
<1>3. ASSUME NEW method, NEW segs
      PROVE  RouteForRequest(method, segs)' = RouteForRequest(method, segs)
  BY <1>1, <1>2 DEF RouteForRequest
<1>4. ASSUME NEW g, NEW name
      PROVE  findRoute(g, name)' = findRoute(g, name)
  BY <1>1, <1>2 DEF findRoute
<1> QED
  BY <1>1, <1>2, <1>3, <1>4

\* The invariant depends on nothing but the variables of Routing.
LEMMA Stutter ==
  ASSUME RInv, UNCHANGED rvars
  PROVE  RInv'
<1>1. groups' = groups
  BY DEF rvars
<1>2. GroupsOnce'
  BY <1>1 DEF RInv, GroupsOnce
<1>3. answer # NoAnswer => Answered(request, answer, tried)'
  BY <1>1, SameRegistry DEF RInv, rvars, Answered, RowNames, Reaches, ReachesTried
<1> QED
  BY <1>2, <1>3 DEF RInv, rvars

\* A request from the wire keeps the invariant.
LEMMA WireStep ==
  ASSUME RInv, NEW r, IsRequest(r), Wire(r)
  PROVE  RInv'
<1> DEFINE preflight == [NoAnswer EXCEPT !.to = "preflight"]
           redirect == [NoAnswer EXCEPT !.to = "redirect"]
<1>1. /\ stage = "serving" /\ stage' = "serving" /\ groups' = groups
      /\ request' = r /\ tried = NoRoute /\ tried' = NoRoute
  BY DEF Wire, Idle, RInv
<1>2. \/ r.method = "OPTIONS" /\ answer' = preflight
      \/ isBrowserRoot(r) /\ answer' = redirect
      \/ r.method # "OPTIONS" /\ answer' = ServeHTTP(r)
  BY DEF Wire
<1> HIDE DEF preflight
<1> HIDE DEF redirect
<1>3. PICK a : /\ answer' = a
               /\ \/ r.method = "OPTIONS" /\ a = preflight
                  \/ isBrowserRoot(r) /\ a = redirect
                  \/ r.method # "OPTIONS" /\ a = ServeHTTP(r)
  BY <1>2
<1>4. Answered(r, a, NoRoute)
  BY <1>3, WireAnswers DEF RInv, preflight, redirect
<1>5. Answered(request, answer, tried)'
  BY <1>1, <1>3, <1>4, SameRegistry DEF Answered, RowNames, Reaches, ReachesTried
<1>6. GroupsOnce'
  BY <1>1 DEF RInv, GroupsOnce
<1>7. answer' # NoAnswer
  BY <1>3, <1>4 DEF Answered
<1> QED
  BY <1>1, <1>5, <1>6, <1>7 DEF RInv

\* A group has a name.
LEMMA GroupNames ==
  ASSUME NEW g \in DOMAIN Routes
  PROVE  g # Empty
<1>1. \A w \in {"identity", "data", "failure", "echo", "streaming", "pagination", "methods",
                "security", "export"} : w # Empty
  BY Zenon DEF Empty
<1> QED
  BY <1>1, Tables

\* findRoute finds the route whose names it is given.
LEMMA RouteIsFound ==
  ASSUME GroupsOnce, NEW p \in Places(All)
  PROVE  findRoute(groups[p[1]], meta(p).name) = meta(p)
<1> DEFINE found == {q \in Places(All) : groups[q[1]] = groups[p[1]] /\ meta(q).name = meta(p).name}
<1>1. found = {p}
  BY SamePlace
<1>2. First({p}) = p
  BY DEF First
<1> QED
  BY <1>1, <1>2 DEF findRoute

\* The request that Try-It makes for the route at p.
Substituted(p, value) == substitutePathParams(meta(p).path, value)

\* A path with its parameter substituted fits the route it was made from.
LEMMA SubstitutedIsPath ==
  ASSUME GroupsOnce, NEW p \in Places(All), NEW value \in Segments
  PROVE  /\ IsPath(Substituted(p, value))
         /\ Fits(meta(p).path, Substituted(p, value))
         /\ \A k \in 1..Len(Substituted(p, value)) :
              \/ meta(p).path[k] \in Wildcards /\ Substituted(p, value)[k] = value
              \/ meta(p).path[k] # Empty /\ Substituted(p, value)[k] = <<meta(p).path[k]>>
<1> DEFINE path == meta(p).path
           segs == [k \in 1..Len(path) |-> IF path[k] \in Wildcards THEN value ELSE <<path[k]>>]
<1>1. IsRoutePath(path)
  BY PlaceIs DEF IsPlace
<1>2. Substituted(p, value) = segs
  BY DEF Substituted, substitutePathParams
<1>3. Len(path) \in Nat /\ \A k \in 1..Len(path) : path[k] # Empty
  BY <1>1 DEF IsRoutePath, IsList
<1> HIDE DEF path
<1>4. IsList(value) /\ Len(value) >= 1
  <2>1. value \in Seq(STRING) /\ value # <<>>
    BY DEF Segments
  <2>2. Len(value) >= 1
    BY <2>1
  <2> QED
    BY <2>1, <2>2, List
<1>5. IsList(segs) /\ Len(segs) = Len(path)
  BY <1>3 DEF IsList
<1>6. ASSUME NEW k \in 1..Len(path)
      PROVE  /\ IsList(segs[k]) /\ Len(segs[k]) >= 1
             /\ \/ path[k] \in Wildcards /\ segs[k] = value
                \/ path[k] # Empty /\ segs[k] = <<path[k]>>
             /\ path[k] \in Wildcards \/ <<path[k]>> = segs[k]
  <2>1. IsList(<<path[k]>>) /\ Len(<<path[k]>>) >= 1
    BY ShortLists, Zenon
  <2>2. segs[k] = IF path[k] \in Wildcards THEN value ELSE <<path[k]>>
    BY <1>6
  <2> HIDE DEF segs
  <2> QED
    BY <1>3, <1>4, <1>6, <2>1, <2>2
<1> HIDE DEF segs
<1>7. IsPath(segs) /\ Fits(path, segs)
  BY <1>5, <1>6 DEF IsPath, Fits
<1> QED
  BY <1>2, <1>5, <1>6, <1>7 DEF path

\* The answer to a Try-It is as the two properties want it.
LEMMA TryItAnswers ==
  ASSUME GroupsOnce, NEW p \in Places(All), NEW value \in Segments,
         NEW t, t = <<groups[p[1]], meta(p).name>>,
         NEW r, r.segs = Substituted(p, value), r.slash = FALSE, NEW a,
         \/ a = [NoAnswer EXCEPT !.to = "bad_params"]
         \/ /\ a = ServeHTTP(r)
            /\ Wildcards \cap Range(meta(p).path) # {} => value # <<Empty>> /\ Len(value) <= 1
  PROVE  Answered(r, a, t)
<1>1. NoAnswer.to = "none"
  BY DEF NoAnswer
<1>2. t # NoRoute
  <2>1. groups[p[1]] # Empty
    BY PlaceIs, GroupNames DEF IsPlace
  <2>2. t[1] = groups[p[1]] /\ NoRoute[1] = Empty
    BY DEF NoRoute
  <2> QED
    BY <2>1, <2>2
<1>3. findRoute(t[1], t[2]) = meta(p)
  BY RouteIsFound
<1>4. /\ IsPath(r.segs) /\ Fits(meta(p).path, r.segs)
      /\ \A k \in 1..Len(r.segs) :
           \/ meta(p).path[k] \in Wildcards /\ r.segs[k] = value
           \/ meta(p).path[k] # Empty /\ r.segs[k] = <<meta(p).path[k]>>
  BY SubstitutedIsPath, Zenon
<1>5. IsRequest(r)
  BY <1>4 DEF IsRequest
<1>6. CASE a = [NoAnswer EXCEPT !.to = "bad_params"]
  <2>1. a.to = "bad_params"
    BY <1>6 DEF NoAnswer
  <2> QED
    BY <1>1, <2>1 DEF Answered, Reaches, ReachesTried
<1>7. CASE /\ a = ServeHTTP(r)
           /\ Wildcards \cap Range(meta(p).path) # {} => value # <<Empty>> /\ Len(value) <= 1
  <2>1. WellServed(r, a)
    BY <1>4, <1>7, Serves
  <2>2. a # NoAnswer /\ (a.to = "endpoint" => RowNames(r, a))
    BY <1>1, <2>1 DEF WellServed
  <2>3. Reaches(r, a, t)
    BY <1>2, <1>5, <2>1, PlainReaches DEF Reaches
  <2>4. ASSUME r.method = meta(p).method, ~Unclean(r)
        PROVE  a.row = t
    <3>1. Matches(PatternAt(p), r)
      BY <1>4, <2>4, EndpointMatches DEF MethodCovers
    <3>2. ASSUME NEW k \in 1..Len(r.segs)
          PROVE  Len(r.segs[k]) = 1 /\ r.segs[k][1] # Empty
      <4>1. CASE meta(p).path[k] # Empty /\ r.segs[k] = <<meta(p).path[k]>>
        BY <4>1
      <4>2. CASE meta(p).path[k] \in Wildcards /\ r.segs[k] = value
        <5>1. IsRoutePath(meta(p).path)
          BY PlaceIs DEF IsPlace
        <5>2. k \in DOMAIN meta(p).path
          BY <1>4, <3>2, <5>1 DEF Fits, IsRoutePath, IsList
        <5>3. Wildcards \cap Range(meta(p).path) # {}
          BY <4>2, <5>2 DEF Range
        <5>4. IsList(value) /\ Len(value) >= 1
          BY <1>4, <3>2, <4>2 DEF IsPath
        <5>5. Len(value) = 1 /\ value # <<Empty>>
          BY <1>7, <5>3, <5>4 DEF IsList
        <5>6. value = <<value[1]>>
          BY <5>4, <5>5 DEF IsList
        <5> QED
          BY <4>2, <5>5, <5>6
      <4> QED
        BY <1>4, <3>2, <4>1, <4>2
    <3>3. Len(splitPathSegments(r.segs)) = Len(r.segs)
      BY <1>4, <3>2, DecodedPlain
    <3> QED
      BY <2>1, <2>4, <3>1, <3>3 DEF WellServed
  <2>5. ReachesTried(r, a, t)
    BY <1>3, <2>1, <2>4 DEF ReachesTried, WellServed
  <2> QED
    BY <2>2, <2>3, <2>5 DEF Answered
<1> QED
  BY <1>6, <1>7

\* A Try-It keeps the invariant.
LEMMA TryItStep ==
  ASSUME RInv, NEW p \in Places(All), NEW verb, NEW value \in Segments, TryIt(p, verb, value)
  PROVE  RInv'
<1> DEFINE bad == [NoAnswer EXCEPT !.to = "bad_params"]
           asked == <<groups[p[1]], meta(p).name>>
           req1 == [NoRequest EXCEPT !.method = IF verb = Empty THEN meta(p).method ELSE verb,
                                     !.segs = Substituted(p, value)]
           guarded == Wildcards \cap Range(meta(p).path) # {} =>
                        value # <<Empty>> /\ Len(value) <= 1
<1>1. GroupsOnce /\ IsList(value) /\ Len(value) \in Nat
  <2>1. value \in Seq(STRING)
    BY DEF Segments
  <2> QED
    BY <2>1, List DEF RInv, IsList
<1>2. findRoute(groups[p[1]], meta(p).name) = meta(p)
  BY <1>1, RouteIsFound
<1>3. /\ Idle /\ tried' = asked /\ request' = req1
      /\ stage' = stage /\ groups' = groups
      /\ answer' = bad \/ (answer' = ServeHTTP(req1) /\ guarded)
  <2> DEFINE route == findRoute(asked[1], asked[2])
  <2>1. route = meta(p)
    BY <1>2
  <2> HIDE DEF route
  <2>2. /\ Idle /\ tried' = asked /\ stage' = stage /\ groups' = groups
        /\ request' = [NoRequest EXCEPT !.method = IF verb = Empty THEN route.method ELSE verb,
                                        !.segs = substitutePathParams(route.path, value)]
        /\ answer' = IF /\ Wildcards \cap Range(route.path) # {}
                        /\ value = <<Empty>> \/ Len(value) > 1
                     THEN bad ELSE ServeHTTP(request')
    BY DEF TryIt, route
  <2>3. request' = req1
    BY <2>1, <2>2 DEF Substituted
  <2> HIDE DEF req1
  <2>4. answer' = bad \/ (answer' = ServeHTTP(req1) /\ guarded)
    BY <1>1, <2>1, <2>2, <2>3
  <2> QED
    BY <2>2, <2>3, <2>4
<1>4. req1.segs = Substituted(p, value) /\ req1.slash = FALSE
  BY DEF NoRequest
<1> HIDE DEF bad
<1> HIDE DEF asked
<1> HIDE DEF req1
<1> HIDE DEF guarded
<1>5. PICK a, r, t : /\ answer' = a /\ request' = r /\ tried' = t
                     /\ r = req1 /\ t = asked
                     /\ a = bad \/ (a = ServeHTTP(r) /\ guarded)
  BY <1>3
<1>6. Answered(r, a, t)
  BY <1>1, <1>4, <1>5, TryItAnswers DEF bad, asked, guarded
<1>7. Answered(request, answer, tried)'
  BY <1>3, <1>5, <1>6, SameRegistry DEF Answered, RowNames, Reaches, ReachesTried
<1>8. GroupsOnce'
  BY <1>1, <1>3 DEF GroupsOnce
<1>9. answer' # NoAnswer
  BY <1>5, <1>6 DEF Answered
<1>10. stage' = "serving"
  BY <1>3 DEF Idle
<1> QED
  BY <1>7, <1>8, <1>9, <1>10 DEF RInv

\* Adding a group keeps the invariant.
LEMMA AddStep ==
  ASSUME RInv, Add
  PROVE  RInv'
<1>1. PICK k \in 1..Len(buildRegistry) :
        /\ buildRegistry[k] \notin Range(groups)
        /\ groups' = Append(groups, buildRegistry[k])
  BY DEF Add
<1>2. buildRegistry[k] \in DOMAIN Routes
  BY Tables DEF buildRegistry
<1>3. GroupsOnce'
  <2>1. groups \in Seq(DOMAIN Routes) /\ Len(groups) \in Nat
    BY DEF RInv, GroupsOnce
  <2>2. groups' \in Seq(DOMAIN Routes) /\ Len(groups') = Len(groups) + 1
    BY <1>1, <1>2, <2>1
  <2>3. ASSUME NEW l \in 1..Len(groups)
        PROVE  groups'[l] = groups[l] /\ groups[l] # buildRegistry[k]
    BY <1>1, <2>1, <2>3 DEF Range
  <2>4. groups'[Len(groups) + 1] = buildRegistry[k]
    BY <1>1, <2>1
  <2>5. ASSUME NEW l \in 1..Len(groups'), NEW m \in 1..Len(groups'), groups'[l] = groups'[m]
        PROVE  l = m
    BY <2>1, <2>2, <2>3, <2>4, <2>5 DEF RInv, GroupsOnce
  <2> QED
    BY <2>2, <2>5 DEF GroupsOnce
<1>4. stage = "registry" /\ stage' = stage /\ answer' = answer /\ tried' = tried
  BY DEF Add
<1> QED
  BY <1>3, <1>4 DEF RInv

\* SelfCheck passes: a method of the tables has a place in the document.
LEMMA Documented ==
  ASSUME GroupsOnce
  PROVE  SelfCheck
<1>1. \A p \in Places(All) : assignOperation(meta(p).method)
  BY PlaceIs DEF IsPlace, assignOperation, Methods
<1>2. ASSUME NEW x \in registryRouteSet
      PROVE  assignOperation(x[1])
  <2>1. PICK p \in Places(All) : x = <<meta(p).method, meta(p).path>>
    BY <1>2 DEF registryRouteSet
  <2> QED
    BY <1>1, <2>1
<1> QED
  BY <1>2 DEF SelfCheck, docRouteSet

\* Documenting and mounting keep it: SelfCheck passes and the mux does not panic.
LEMMA BuildStep ==
  ASSUME RInv, Document \/ Mount
  PROVE  RInv'
<1>1. /\ stage \in {"registry", "documented"} /\ stage' \in {"documented", "serving"}
      /\ groups' = groups /\ answer' = answer /\ tried' = tried
  BY Documented, NoPanic DEF Document, Mount, RInv
<1>2. GroupsOnce'
  BY <1>1 DEF RInv, GroupsOnce
<1> QED
  BY <1>1, <1>2 DEF RInv

\* The invariant holds at the start.
LEMMA RInitOK == RInit => RInv
<1> SUFFICES ASSUME RInit PROVE RInv
  OBVIOUS
<1>1. groups \in Seq(DOMAIN Routes) /\ Len(groups) = 0
  BY DEF RInit
<1> QED
  BY <1>1 DEF RInit, RInv, GroupsOnce

\* Every step of Routing keeps it.
LEMMA RNextOK ==
  ASSUME RInv, RNext
  PROVE  RInv'
<1>1. CASE Add
  BY <1>1, AddStep
<1>2. CASE Document \/ Mount
  BY <1>2, BuildStep
<1>3. ASSUME NEW r \in Requests, Wire(r)
      PROVE  RInv'
  <2>1. r.segs \in Seq(Segments) /\ r.slash \in BOOLEAN
    BY RoutingAssumption
  <2>2. ASSUME NEW k \in 1..Len(r.segs)
        PROVE  IsList(r.segs[k]) /\ Len(r.segs[k]) >= 1
    <3>1. r.segs[k] \in Seq(STRING) /\ r.segs[k] # <<>>
      BY <2>1, <2>2 DEF Segments
    <3> QED
      BY <3>1, List
  <2>3. IsRequest(r)
    BY <2>1, <2>2, List DEF IsRequest, IsPath
  <2> QED
    BY <1>3, <2>3, WireStep
<1>4. ASSUME NEW p \in Places(All), NEW verb \in Verbs, NEW value \in Values,
             TryIt(p, verb, value)
      PROVE  RInv'
  BY <1>4, TryItStep, RoutingAssumption
<1> QED
  BY <1>1, <1>2, <1>3, <1>4 DEF RNext

\* What the invariant says of the audit row.
LEMMA NamesTheRoute == RInv => AuditNamesTheRoute
<1> SUFFICES ASSUME RInv, answer.to = "endpoint"
             PROVE  RowNames(request, answer)
  BY Zenon DEF AuditNamesTheRoute, RowNames
<1>1. NoAnswer.to = "none"
  BY DEF NoAnswer
<1> QED
  BY <1>1 DEF RInv, Answered

\* What it says of the catalogue and of the requests for its routes.
LEMMA IsServed == RInv => CatalogueIsServed
<1> SUFFICES ASSUME RInv
             PROVE  CatalogueIsServed
  OBVIOUS
<1>1. stage \notin {"mismatch", "panic"}
  BY DEF RInv
<1>2. {<<p.method, p.path>> : p \in EndpointPatterns} = registryRouteSet
  <2>1. \A p : PatternAt(p).method = meta(p).method /\ PatternAt(p).path = meta(p).path
    BY DEF PatternAt, Pattern
  <2>2. EndpointPatterns = {PatternAt(p) : p \in Places(All)}
    BY PatternsOfPlaces DEF RInv
  <2> QED
    BY <2>1, <2>2 DEF registryRouteSet
<1>3. \A p, q \in Places(All) : meta(p).name = meta(q).name => p = q
  BY SamePlace DEF RInv
<1>4. answer # NoAnswer => Reaches(request, answer, tried) /\ ReachesTried(request, answer, tried)
  BY DEF RInv, Answered
<1>5. answer = NoAnswer => tried = NoRoute
  BY DEF RInv
<1> QED
  BY <1>1, <1>2, <1>3, <1>4, <1>5, Zenon DEF CatalogueIsServed, Reaches, ReachesTried

\* The invariant holds of Routing.
LEMMA RInvariant == RSpec => []RInv
<1>1. RInv /\ UNCHANGED rvars => RInv'
  BY Stutter
<1>2. RInv /\ RNext => RInv'
  BY RNextOK
<1> QED
  BY RInitOK, <1>1, <1>2, PTL DEF RSpec

\* Whatever groups are enabled and whatever is sent, the audit row of a request
\* names the route whose pattern served it, or none in the two cases where the
\* catalogue has no such route.
THEOREM EveryRowNamesItsRoute == RSpec => []AuditNamesTheRoute
BY NamesTheRoute, RInvariant, PTL

\* For every set of enabled groups, with and without the portal, Build passes its
\* self-check and the mux does not panic; what is mounted is what is listed; a
\* request for a route of the catalogue reaches it, and so does a Try-It.
THEOREM EveryRouteIsServed == RSpec => []CatalogueIsServed
BY IsServed, RInvariant, PTL
=============================================================================
