----------------------------- MODULE MCRunState -----------------------------
(* RunState on small instances: two attempts and one finish_run. *)
EXTENDS RunState, TLC

CONSTANTS a1, a2, f1, h1, h2

\* Each attempt on a host of its own; finish_run is called next to the first.
TwoHosts == (a1 :> h1) @@ (a2 :> h2) @@ (f1 :> h1)

\* Everybody on one host, over one local copy.
OneHost == (a1 :> h1) @@ (a2 :> h1) @@ (f1 :> h1)
=============================================================================
