---------------------------- MODULE MCSweepClaims ---------------------------
(* SweepClaims on small instances. *)
EXTENDS SweepClaims, TLC

CONSTANTS a1, a2, h1, h2

\* One agent per host.
EachItsOwn == (a1 :> h1) @@ (a2 :> h2)
=============================================================================
