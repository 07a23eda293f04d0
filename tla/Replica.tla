------------------------------ MODULE Replica -------------------------------
(***************************************************************************)
(* What shipping a stream promises: "Both only ever grow and the remote    *)
(* one is a replica of a prefix of the local one" (cached_logs.py).  A     *)
(* stream is its number of entries, and so is a prefix of it.              *)
(***************************************************************************)
EXTENDS Naturals

VARIABLES
    written,   \* what the owner appended
    shown      \* the prefix that the remote's objects, read together, hold

Init == written = 0 /\ shown = 0

Append == written' = written + 1 /\ UNCHANGED shown

Show == shown' \in (shown + 1) .. written /\ UNCHANGED written

Next == Append \/ Show

Spec == Init /\ [][Next]_<<written, shown>>
=============================================================================
