----------------------------- MODULE MCStreams ------------------------------
(* Streams on small instances: two processes of the owning copy, or one of it
   and one of a copy of the record. *)
EXTENDS Streams, TLC

CONSTANTS p1, p2

Both    == (p1 :> "orig") @@ (p2 :> "orig")
OneEach == (p1 :> "orig") @@ (p2 :> "copy")
AnyCrew == {Both, OneEach}
OneCopy == {Both}
=============================================================================
