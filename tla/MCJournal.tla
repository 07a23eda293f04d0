----------------------------- MODULE MCJournal ------------------------------
(* Journal on a small instance. *)
EXTENDS Journal

CONSTANTS r1, r2
=============================================================================
