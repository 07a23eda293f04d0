----------------------------- MODULE SweepClaims ----------------------------
(***************************************************************************)
(* The agents of a sweep share its trials with no server and no lock: a    *)
(* trial slot is a record that exactly one agent creates                   *)
(* (vmn_exp.core.sweep.claims, cli.sweep.agent).  On a local-first store a *)
(* claim is made on the host's local copy first, then on the remote, and   *)
(* taken back locally when the remote refuses or fails it                  *)
(* (CachedSnapshotStorage.create_exclusive).                               *)
(*                                                                         *)
(* A slot <<t, k>> is attempt k at trial t: the record t<T>, or t<T>.a<K>. *)
(***************************************************************************)
EXTENDS Integers, FiniteSets

CONSTANTS
    Agents,
    Hosts,
    HostOf,       \* the host of an agent
    Remote,       \* the side all hosts share
    HasLocal,     \* the storage has a local side
    HasRemote,    \* the storage has a remote
    Limit,        \* trial_limit of the sweep's spec
    MaxTries,     \* _MAX_ATTEMPTS of one claim_next_trial
    MaxRetry,     \* bound on the attempts at one trial
    MaxFaults     \* bound on failed remote calls

Sides == Hosts \cup {Remote}
Slots == Nat \X Nat

ASSUME SweepAssumption ==
    /\ Remote \notin Hosts
    /\ HostOf \in [Agents -> Hosts]
    /\ HasLocal \in BOOLEAN /\ HasRemote \in BOOLEAN
    /\ HasLocal \/ HasRemote
    /\ ~HasRemote => \A a, b \in Agents : HostOf[a] = HostOf[b]
    /\ Limit \in Nat /\ MaxTries \in Nat /\ MaxRetry \in Nat /\ MaxFaults \in Nat

\* The side on which a slot is held for everybody.
SharedOf(a) == IF HasRemote THEN Remote ELSE HostOf[a]

VARIABLES
    slots,    \* the slot records on every side, complete or not
    pc,       \* where each agent is
    todo,     \* the retries an agent still tries to claim, from the rows it read
    n,        \* the index claim_next_trial goes on from
    tries,    \* rounds of claim_next_trial
    slot,     \* the slot an agent is claiming, or runs
    own,      \* history: the slots whose claim an agent won
    runs,     \* the runs of the sweep: slot and status
    faults    \* remote calls that have failed

vars == <<slots, pc, todo, n, tries, slot, own, runs, faults>>

\* "exhausted": no trial was left; "left": a signal or the agent's count stopped
\* it; "raised": claim_next_trial gave up; "dead": killed, or a call failed.
Stages == {"idle", "retry", "list", "local", "remote", "undo", "fail", "claimed",
           "running", "exhausted", "left", "raised", "dead"}

TypeOK ==
    /\ slots \in [Sides -> SUBSET Slots]
    /\ pc \in [Agents -> Stages]
    /\ todo \in [Agents -> SUBSET Slots]
    /\ n \in [Agents -> Nat]
    /\ tries \in [Agents -> Nat]
    /\ slot \in [Agents -> Slots]
    /\ own \in [Agents -> SUBSET Slots]
    /\ runs \in SUBSET [slot : Slots, status : {"running", "succeeded", "failed"}]
    /\ faults \in Nat

Init ==
    /\ slots = [s \in Sides |-> {}]
    /\ pc = [a \in Agents |-> "idle"]
    /\ todo = [a \in Agents |-> {}]
    /\ n = [a \in Agents |-> 0]
    /\ tries = [a \in Agents |-> 0]
    /\ slot = [a \in Agents |-> <<0, 0>>]
    /\ own = [a \in Agents |-> {}]
    /\ runs = {}
    /\ faults = 0

Go(a, at) == pc' = [pc EXCEPT ![a] = at]

-----------------------------------------------------------------------------
(***************************************************************************)
(* Choosing a slot: _next_claim.                                           *)
(***************************************************************************)

\* Mutant: the attempt before.
NextAttemptBefore(r) == <<r.slot[1], r.slot[2] - 1>>

\* Mutant: a retry skips an attempt.
NextAttemptTwice(r) == <<r.slot[1], r.slot[2] + 2>>

NextAttempt(r) == <<r.slot[1], r.slot[2] + 1>>

\* retry_slots: the trials whose latest attempt failed, or is taken for stuck
\* (its heartbeat went stale: any running one may be).
Retryable ==
    {r \in runs :
        /\ \A q \in runs : q.slot[1] = r.slot[1] => q.slot[2] <= r.slot[2]
        /\ r.status # "succeeded"
        /\ r.slot[2] < MaxRetry}

\* The agent retries the ones it does not take for live or for stopped early;
\* none without --retry-failed.
ReadRows(a) ==
    /\ pc[a] = "idle"
    /\ \E rows \in SUBSET Retryable :
          todo' = [todo EXCEPT ![a] = {NextAttempt(r) : r \in rows}]
    /\ n' = [n EXCEPT ![a] = 0]
    /\ tries' = [tries EXCEPT ![a] = 0]
    /\ Go(a, "retry")
    /\ UNCHANGED <<slots, slot, own, runs, faults>>

\* claim_retry(attempt=...): exactly the next attempt, in trial order.
TryRetry(a) ==
    /\ pc[a] = "retry"
    /\ \E s \in todo[a] :
          /\ \A q \in todo[a] : s[1] <= q[1]
          /\ slot' = [slot EXCEPT ![a] = s]
          /\ todo' = [todo EXCEPT ![a] = @ \ {s}]
    /\ Go(a, IF HasLocal THEN "local" ELSE "remote")
    /\ UNCHANGED <<slots, n, tries, own, runs, faults>>

NoRetry(a) ==
    /\ pc[a] = "retry"
    /\ todo[a] = {}
    /\ Go(a, "list")
    /\ UNCHANGED <<slots, todo, n, tries, slot, own, runs, faults>>

\* claimed_trials: one listing, the union of the sides on a local-first store.
\* A remote listing may lag the claims made there.  No claimed index reaches
\* Limit, so the index after them is Limit at most.
Listing(a, seen) == (IF HasLocal THEN slots[HostOf[a]] ELSE {}) \cup seen

\* Mutant: the index already lost is tried again when the listing lags.
AfterRelist(taken, m, k) ==
    /\ \A s \in taken : s[1] < k
    /\ k > 0 => \E s \in taken : s[1] = k - 1

\* Mutant: an empty sweep starts at its second trial.
AfterDefault(taken, m, k) ==
    /\ k >= m /\ k >= 1
    /\ \A s \in taken : s[1] < k
    /\ k > m /\ k > 1 => \E s \in taken : s[1] = k - 1

\* k = max(max(taken, default=-1) + 1, m)
After(taken, m, k) ==
    /\ k >= m
    /\ \A s \in taken : s[1] < k
    /\ k > m => \E s \in taken : s[1] = k - 1

List(a) ==
    /\ pc[a] = "list"
    /\ tries[a] < MaxTries
    /\ tries' = [tries EXCEPT ![a] = @ + 1]
    /\ \E seen \in SUBSET slots[Remote], k \in 0 .. Limit :
          /\ After(Listing(a, seen), n[a], k)
          /\ n' = [n EXCEPT ![a] = k]
          /\ \/ k = Limit /\ Go(a, "exhausted") /\ UNCHANGED slot
             \/ /\ k < Limit
                /\ slot' = [slot EXCEPT ![a] = <<k, 0>>]
                /\ Go(a, IF HasLocal THEN "local" ELSE "remote")
    /\ UNCHANGED <<slots, todo, own, runs, faults>>

\* RuntimeError after _MAX_ATTEMPTS rounds.
GiveUp(a) ==
    /\ pc[a] = "list"
    /\ tries[a] = MaxTries
    /\ Go(a, "raised")
    /\ UNCHANGED <<slots, todo, n, tries, slot, own, runs, faults>>

-----------------------------------------------------------------------------
(***************************************************************************)
(* Claiming it: create_exclusive.                                          *)
(***************************************************************************)

\* The claim is lost: the next retry, or the next index.
LoseTo(a) ==
    /\ n' = IF slot[a][2] = 0 THEN [n EXCEPT ![a] = slot[a][1] + 1] ELSE n
    /\ Go(a, IF slot[a][2] = 0 THEN "list" ELSE "retry")

Win(a) ==
    /\ own' = [own EXCEPT ![a] = @ \cup {slot[a]}]
    /\ Go(a, "claimed")

ClaimLocal(a) ==
    /\ pc[a] = "local"
    /\ IF slot[a] \in slots[HostOf[a]]
       THEN LoseTo(a) /\ UNCHANGED <<slots, own>>
       ELSE /\ slots' = [slots EXCEPT ![HostOf[a]] = @ \cup {slot[a]}]
            /\ IF HasRemote THEN Go(a, "remote") /\ UNCHANGED own ELSE Win(a)
            /\ UNCHANGED n
    /\ UNCHANGED <<todo, tries, slot, runs, faults>>

\* Mutant: a remote that holds the slot already does not refuse it.
ClaimRemoteAnyway(a) ==
    /\ pc[a] = "remote"
    /\ slots' = [slots EXCEPT ![Remote] = @ \cup {slot[a]}]
    /\ Win(a)
    /\ UNCHANGED <<todo, n, tries, slot, runs, faults>>

ClaimRemote(a) ==
    /\ pc[a] = "remote"
    /\ IF slot[a] \in slots[Remote]
       THEN /\ IF HasLocal THEN Go(a, "undo") /\ UNCHANGED n ELSE LoseTo(a)
            /\ UNCHANGED <<slots, own>>
       ELSE /\ slots' = [slots EXCEPT ![Remote] = @ \cup {slot[a]}]
            /\ Win(a)
            /\ UNCHANGED n
    /\ UNCHANGED <<todo, tries, slot, runs, faults>>

\* The remote call raises, its claim landed or not.
ClaimFault(a) ==
    /\ pc[a] = "remote"
    /\ faults < MaxFaults
    /\ faults' = faults + 1
    /\ \/ UNCHANGED slots
       \/ slots' = [slots EXCEPT ![Remote] = @ \cup {slot[a]}]
    /\ Go(a, IF HasLocal THEN "fail" ELSE "dead")
    /\ UNCHANGED <<todo, n, tries, slot, own, runs>>

\* Mutant: the claim is deleted from the whole store, not from its local side.
UndoEverywhere(a) ==
    /\ pc[a] \in {"undo", "fail"}
    /\ slots' = [slots EXCEPT ![HostOf[a]] = @ \ {slot[a]}, ![Remote] = @ \ {slot[a]}]
    /\ IF pc[a] = "undo" THEN LoseTo(a) ELSE Go(a, "dead") /\ UNCHANGED n
    /\ UNCHANGED <<todo, tries, slot, own, runs, faults>>

\* The local claim is deleted; then the next slot is tried, or the call raises.
Undo(a) ==
    /\ pc[a] \in {"undo", "fail"}
    /\ slots' = [slots EXCEPT ![HostOf[a]] = @ \ {slot[a]}]
    /\ IF pc[a] = "undo" THEN LoseTo(a) ELSE Go(a, "dead") /\ UNCHANGED n
    /\ UNCHANGED <<todo, tries, slot, own, runs, faults>>

-----------------------------------------------------------------------------
(***************************************************************************)
(* Running it: _run_trial.                                                 *)
(***************************************************************************)

\* The run is created and attached to the claim, or the agent returns 1.
CreateRun(a) ==
    /\ pc[a] = "claimed"
    /\ \/ /\ runs' = runs \cup {[slot |-> slot[a], status |-> "running"]}
          /\ Go(a, "running")
       \/ Go(a, "dead") /\ UNCHANGED runs
    /\ UNCHANGED <<slots, todo, n, tries, slot, own, faults>>

\* The trial ends; the agent goes on, or a signal or its count stops it.
EndTrial(a) ==
    /\ pc[a] = "running"
    /\ \E status \in {"succeeded", "failed"} :
          runs' = (runs \ {[slot |-> slot[a], status |-> "running"]})
                     \cup {[slot |-> slot[a], status |-> status]}
    /\ \E at \in {"idle", "left"} : Go(a, at)
    /\ UNCHANGED <<slots, todo, n, tries, slot, own, faults>>

\* The agent is killed; its claim, if any, stays.
Die(a) ==
    /\ pc[a] \notin {"exhausted", "left", "raised", "dead"}
    /\ Go(a, "dead")
    /\ UNCHANGED <<slots, todo, n, tries, slot, own, runs, faults>>

Step(a) ==
    \/ ReadRows(a) \/ TryRetry(a) \/ NoRetry(a) \/ List(a) \/ GiveUp(a)
    \/ ClaimLocal(a) \/ ClaimRemote(a) \/ Undo(a) \/ CreateRun(a) \/ EndTrial(a)

Next == \E a \in Agents : Step(a) \/ ClaimFault(a) \/ Die(a)

Spec == Init /\ [][Next]_vars

\* An agent that is not killed goes on with its loop.
FairSpec == Spec /\ \A a \in Agents : WF_vars(Step(a))

-----------------------------------------------------------------------------
(***************************************************************************)
(* Properties.                                                             *)
(***************************************************************************)

\* "Exactly one agent owns trial N", and of two retriers only one gets an
\* attempt: no slot is won twice, not even after its owner died, whatever the
\* listings show and although a refused claim is taken back on the local side.
OneOwner ==
    \A a, b \in Agents : a # b => own[a] \cap own[b] = {}

\* A slot an agent won stays taken on the side everybody claims on: no undo of
\* another agent's claim frees it.
OwnedIsTaken ==
    \A a \in Agents : own[a] \subseteq slots[SharedOf(a)]

\* A trial is carried out at most once per attempt, a retry follows its trial's
\* previous attempt, and no trial is beyond the sweep's limit.
RunsAreClaimed ==
    /\ \A r, q \in runs : r.slot = q.slot => r = q
    /\ \A r \in runs :
          /\ r.slot[1] < Limit
          /\ r.slot[2] > 0 => \E q \in runs : q.slot = <<r.slot[1], r.slot[2] - 1>>
          /\ \E a \in Agents : r.slot \in own[a]

\* "Never retry an index already lost": claim_next_trial gives up only when it
\* lost as many indices as it has rounds, however far the listings lag and
\* however many agents race; a sweep with fewer trials never makes it give up.
NeverGivesUp ==
    \A a \in Agents : pc[a] = "raised" => n[a] >= MaxTries

\* No agent was killed and no call failed.
Healthy == faults = 0 /\ \A a \in Agents : pc[a] # "dead"

\* Every trial of a sweep is run in the end: once the agents stop, and none of
\* them was killed, failed or stopped early, every index has a finished run.
SweepCovers ==
    <>[](\/ ~Healthy
         \/ \E a \in Agents : pc[a] \in {"left", "raised"}
         \/ \A t \in 0 .. (Limit - 1) :
               \E r \in runs : r.slot = <<t, 0>> /\ r.status # "running")
=============================================================================
