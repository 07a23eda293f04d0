------------------------------- MODULE MCStamp ------------------------------
(* Stamp on small instances. *)
EXTENDS Stamp

CONSTANTS c1, c2, main, dev, auth, web

\* All on one branch, or one clone on another.
OneBranch   == (c1 :> main) @@ (c2 :> main)
TwoBranches == (c1 :> main) @@ (c2 :> dev)

BothLayouts == {OneBranch, TwoBranches}
SameBranch  == {OneBranch}

\* All stamp one app, or each its own service of the root app.
OneApp  == [c \in Clones |-> {auth}]
TwoApps == (c1 :> {auth}) @@ (c2 :> {web})
=============================================================================
