----------------------------- MODULE MCReleases -----------------------------
(* Releases on small instances: two clones. *)
EXTENDS Releases, TLC

CONSTANTS c1, c2

Symmetry == Permutations(Clones)

Names == <<"beta", "rc">>

Flags(mode, orm, pr) == [mode |-> mode, orm |-> orm, pr |-> pr]

\* --orm patch with and without --pr rc; -r minor --pr beta
AllArgs == {Flags(Unset, "patch", "rc"), Flags(Unset, "patch", Unset),
            Flags("minor", Unset, "beta")}

\* The clock of one of the clones is two seconds behind.
OneSlow == {f \in [Clones -> {0, 2}] : \E c \in Clones : {d \in Clones : f[d] = 2} = {c}}
=============================================================================
