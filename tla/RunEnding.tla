----------------------------- MODULE RunEnding ------------------------------
(***************************************************************************)
(* What the writers of a run's state promise together, whatever the number *)
(* of copies, threads and retries: a run is ended by one ending at a time, *)
(* each ending takes effect at most once, and one that stands goes away    *)
(* only for an attempt that was opened on it (reopen=True) or under a      *)
(* finish_run with force=True.                                             *)
(***************************************************************************)
CONSTANTS Attempts, Finishers, None

VARIABLES
    winner,   \* the ending that stands, None while the run has not ended
    ended,    \* the endings that have ever stood
    grant,    \* the ending an attempt was opened on and may still replace
    forced    \* finish_run calls with force=True

vars == <<winner, ended, grant, forced>>

Init ==
    /\ winner = None
    /\ ended = {}
    /\ grant = [a \in Attempts |-> None]
    /\ forced = {}

\* An attempt reopens the ending w, or a call asks for force.
Grant(a, w) ==
    /\ grant[a] = None
    /\ grant' = [grant EXCEPT ![a] = w]
    /\ UNCHANGED <<winner, ended, forced>>

AskForce(f) ==
    /\ forced' = forced \cup {f}
    /\ UNCHANGED <<winner, ended, grant>>

\* A grant is spent with the attempt's first write, if that write is known to
\* have landed.
Spend(i) == \/ UNCHANGED grant
            \/ i \in Attempts /\ grant' = [grant EXCEPT ![i] = None]

End(i) ==
    /\ i \notin ended
    /\ \/ winner = None
       \/ i \in Attempts /\ winner = grant[i]
       \/ i \in forced
    /\ winner' = i
    /\ ended' = ended \cup {i}
    /\ Spend(i)
    /\ UNCHANGED forced

Reopen(a) ==
    /\ winner = None \/ winner = grant[a]
    /\ winner' = None
    /\ Spend(a)
    /\ UNCHANGED <<ended, forced>>

Next ==
    \/ \E a \in Attempts, w \in Attempts \cup Finishers : Grant(a, w)
    \/ \E f \in Finishers : AskForce(f)
    \/ \E i \in Attempts \cup Finishers : End(i)
    \/ \E a \in Attempts : Reopen(a)

Spec == Init /\ [][Next]_vars
=============================================================================
