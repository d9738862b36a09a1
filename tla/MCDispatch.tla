----------------------------- MODULE MCDispatch -----------------------------
(* A small instance of Dispatch: capture and replay limit are equal, as the  *)
(* defaults are (1 MiB), and bodies of one byte less, as many and more are   *)
(* moved in chunks of two.                                                   *)
EXTENDS Dispatch, TLC

Symmetry == Permutations(Procs)

MCRoutes == [echo |-> [reads |-> 4, writes |-> 2, waits |-> "never"],
             longRunning |-> [reads |-> 0, writes |-> 1, waits |-> "first"],
             stream |-> [reads |-> 1, writes |-> 3, waits |-> "between"]]

Req(route, creds, size, marker) ==
  [route |-> route, creds |-> creds, redacted |-> FALSE, size |-> size, marker |-> marker]

MCWireRequests ==
  {Req("echo", {}, size, 0) : size \in {2, 3}}
    \cup {Req("longRunning", {"authorization", "cookie"}, 1, 0), Req("stream", {"api_key"}, 2, 0)}

MCTryItRequests ==
  {Req("stream", {"authorization", "cookie"}, 0, 0), Req("echo", {"x-api-key"}, 3, 1)}
=============================================================================
