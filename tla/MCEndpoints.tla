---------------------------- MODULE MCEndpoints -----------------------------
(* A small instance of Endpoints.  Every pair of groups meets in some setup,   *)
(* as does every group with the portal.  The requests are each verb on each    *)
(* path of the catalogue, with plain and escaped parameters, and paths         *)
(* that no route has.  The bounds of the handlers are small, and parameters    *)
(* lie on both sides of them; rows of big-body have their real length.         *)
EXTENDS Endpoints, FiniteSets

MCSetups ==
  {s \in [enabled : SUBSET DOMAIN Routes, portal : BOOLEAN, login : BOOLEAN] :
     /\ Cardinality(s.enabled) \in {0, 2, 9}
     /\ s.login => s.portal
     /\ Cardinality(s.enabled) = 2 => s.portal = s.login}

Paths == {r.path : r \in UNION {Range(Routes[g]) : g \in DOMAIN Routes}}
Filled(path, value) == [k \in 1..Len(path) |-> IF path[k] \in Wildcards THEN value ELSE <<path[k]>>]

MCSegs ==
  {Filled(path, value) : path \in Paths,
                         value \in {<<"code">>, <<"a", "b">>, <<"", "a">>, <<"", "">>, <<"..">>}}
  \cup {<<>>, <<<<"portal">>>>, <<<<"portal">>, <<"x">>>>, <<<<"healthz">>>>,
        <<<<"v1">>, <<"">>, <<"echo">>>>, <<<<"v1">>, <<"fixed">>>>, <<<<"v1", "echo">>>>,
        <<<<"api">>, <<"v1">>, <<"portal">>, <<"endpoints">>, <<"a">>>>}

MCRequests ==
  {r \in [method : Range(supportedMethods) \cup {"TRACE"}, segs : MCSegs, slash : BOOLEAN,
          html : BOOLEAN] :
     /\ r.html => r.segs = <<>>
     /\ r.segs = <<>> => r.slash
     /\ r.slash => Len(r.segs) < 3}

MCValues == {<<"a">>, <<"">>, <<"a", "b">>, <<"..">>}

MCRaw == {Absent, Malformed, Overflow, -1} \cup 0..5 \cup {9}
MCCodes == {Malformed, Overflow, 99, 100, 101, 103, 200, 204, 400, 499, 599, 600}

MCPositions == {Absent, Malformed} \cup {-64, -1} \cup 0..8 \cup 30..33 \cup 60..63
MCSizes == {Absent, Overflow, -1} \cup 0..5 \cup {63}
MCTotals == {Absent, Malformed, -64} \cup 0..8
=============================================================================
