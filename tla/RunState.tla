------------------------------ MODULE RunState ------------------------------
(***************************************************************************)
(* How the attempts at one run, and the callers of finish_run outside it,  *)
(* share the run's run_state.yml (vmn_exp.core.state_cas,                  *)
(* sdk.state_publisher, sdk.run, sdk.resume, core.run_finish).             *)
(*                                                                         *)
(* Every process has a local copy of the record on its host and uploads to *)
(* one remote; a store may also be local only (HasRemote = FALSE) or       *)
(* remote only (HasLocal = FALSE).  A run state is reduced to what the     *)
(* writers decide by: the state field, the attempt that wrote it and its   *)
(* heartbeat_seq, which keeps the contents of two writes apart.  The       *)
(* version token of a file (an ETag, a generation, a content hash) is its  *)
(* content; NoFile is both the absent file and its token, NO_FILE.         *)
(***************************************************************************)
EXTENDS Naturals

CONSTANTS
    Attempts,    \* processes that open the run (start_run): attempt ids
    Finishers,   \* finish_run calls from outside the run: their attempt ids
    Hosts,       \* hosts, each with a local copy of the record
    HostOf,      \* the host of an attempt or a finisher
    Remote,      \* the side all hosts share
    NoFile,      \* no run_state.yml
    HasLocal,    \* the storage has a local side
    HasRemote,   \* the storage has a remote
    Rounds,      \* _ROUNDS: conditional writes tried before giving up
    MaxSeq,      \* bound on heartbeats
    MaxFaults    \* bound on failed remote calls

Ids   == Attempts \cup Finishers
Sides == Hosts \cup {Remote}

ASSUME RunStateAssumption ==
    /\ Attempts \cap Finishers = {}
    /\ Hosts # {} /\ Remote \notin Hosts
    /\ \A i \in Ids : HostOf[i] \in Hosts
    /\ HasLocal \in BOOLEAN /\ HasRemote \in BOOLEAN
    /\ HasLocal \/ HasRemote
    /\ ~HasRemote => \A i, j \in Ids : HostOf[i] = HostOf[j]
    /\ Rounds \in Nat \ {0} /\ MaxSeq \in Nat /\ MaxFaults \in Nat

States == [st : {"running", "finished", "released"}, attempt : Ids, seq : Nat]

ASSUME NoFileAssumption == NoFile \notin States

Files == States \cup {NoFile}

\* The side on which a run ends for everybody: its remote, else the store.
SharedOf(i) == IF HasRemote THEN Remote ELSE HostOf[i]

Finished(s) == s # NoFile /\ s.st = "finished"
Final(s)    == s.st # "running"

\* Mutant: nobody looks who ended the run.
finished_by_nobody(stored, attempt) == FALSE

\* Whether stored is a final state that attempt did not write.
finished_by_another(stored, attempt) == Finished(stored) /\ stored.attempt # attempt

(***************************************************************************)
(* One compare-and-swap in progress: the state to write, the token the     *)
(* write is conditional on, and the rounds already refused.                *)
(***************************************************************************)
Idle == [pc |-> "idle", item |-> NoFile, token |-> NoFile, round |-> 0]
Cas  == [pc : {"idle", "load", "save", "winner", "copy"},
         item : Files, token : Files, round : Nat]

VARIABLES
    store,       \* the run_state.yml on every side
    pc,          \* where each attempt is in its life
    prior,       \* the state each attempt resumes (NoFile: a new run)
    mine,        \* Run._state of each attempt
    tok,         \* RunStatePublisher._tokens: NoFile before a side's first write
    superseded,  \* RunStatePublisher.superseded
    pending,     \* the slot of the Coalescing upload worker
    main,        \* the CAS of each attempt's publishing thread, on its local side
    up,          \* the CAS of each attempt's upload worker, on the remote
    fin,         \* the CAS of each finish_run
    call,        \* where each finish_run is, and the force it was given
    faults,      \* remote calls that have failed
    failed,      \* history: attempts with a write lost to a fault or contention
    landed       \* history: who wrote a final state on the shared side

attemptVars == <<pc, prior, mine, tok, superseded>>
vars == <<store, attemptVars, pending, main, up, fin, call, faults, failed, landed>>

Stages == {"new", "refused", "opening", "running", "closing", "draining",
           "won", "lost", "late", "detached", "dead"}
Calls  == [at : {"new", "checked", "done", "refused", "dead"},
           force : {"no", "live", "all"}]

TypeOK ==
    /\ store \in [Sides -> Files]
    /\ pc \in [Attempts -> Stages]
    /\ prior \in [Attempts -> Files]
    /\ mine \in [Attempts -> Files]
    /\ tok \in [Attempts -> [Sides -> Files]]
    /\ superseded \in [Attempts -> BOOLEAN]
    /\ pending \in [Attempts -> Files]
    /\ main \in [Attempts -> Cas]
    /\ up \in [Attempts -> Cas]
    /\ fin \in [Finishers -> Cas]
    /\ call \in [Finishers -> Calls]
    /\ faults \in Nat
    /\ failed \in SUBSET Attempts
    /\ landed \in SUBSET Ids

Init ==
    /\ store = [s \in Sides |-> NoFile]
    /\ pc = [a \in Attempts |-> "new"]
    /\ prior = [a \in Attempts |-> NoFile]
    /\ mine = [a \in Attempts |-> NoFile]
    /\ tok = [a \in Attempts |-> [s \in Sides |-> NoFile]]
    /\ superseded = [a \in Attempts |-> FALSE]
    /\ pending = [a \in Attempts |-> NoFile]
    /\ main = [a \in Attempts |-> Idle]
    /\ up = [a \in Attempts |-> Idle]
    /\ fin = [f \in Finishers |-> Idle]
    /\ call = [f \in Finishers |-> [at |-> "new", force |-> "no"]]
    /\ faults = 0
    /\ failed = {}
    /\ landed = {}

-----------------------------------------------------------------------------
(***************************************************************************)
(* Reading and writing a side.                                             *)
(***************************************************************************)

\* CachedSnapshotStorage.load_file: the local copy, else the remote's.
LoadFile(i) ==
    IF HasLocal /\ store[HostOf[i]] # NoFile THEN store[HostOf[i]]
    ELSE IF HasRemote THEN store[Remote] ELSE NoFile

\* load_run_state "never raises": a remote read that fails is taken for no state.
LoadRunState(i, s) ==
    \/ s = LoadFile(i) /\ UNCHANGED faults
    \/ /\ s = NoFile
       /\ HasRemote /\ (HasLocal => store[HostOf[i]] = NoFile)
       /\ faults < MaxFaults /\ faults' = faults + 1

Write(side, s) == store' = [store EXCEPT ![side] = s]

\* landed gains the writer of a final state that reaches the shared side.
Record(i, side, s) ==
    landed' = IF side = SharedOf(i) /\ Finished(s) THEN landed \cup {s.attempt}
              ELSE landed

\* Mutant: any final state may be replaced by an attempt that resumes one.
LostUnlessResuming(a, side, stored) ==
    /\ finished_by_another(stored, a)
    /\ ~(tok[a][side] = NoFile /\ Finished(prior[a]))

\* RunStatePublisher._unless_lost: the stored final state that an attempt may
\* not replace.  The one it resumes it may, on its first write to the side.
Lost(a, side, stored) ==
    /\ finished_by_another(stored, a)
    /\ ~ /\ tok[a][side] = NoFile
         /\ Finished(prior[a])
         /\ stored.attempt = prior[a].attempt

\* RunStatePublisher._seed: the first round of a CAS needs no read while the
\* attempt's own last write is current, nor for a new run's first write.
Begin(a, side, s) ==
    [pc    |-> IF tok[a][side] # NoFile \/ prior[a] = NoFile THEN "save" ELSE "load",
     item  |-> s,
     token |-> tok[a][side],
     round |-> 0]

\* The CAS goes on at p; it has read the state it will be conditional on.
GoTo(c, p)    == [pc |-> p, item |-> c.item, token |-> c.token, round |-> c.round]
Loaded(c, s)  == [pc |-> "save", item |-> c.item, token |-> s, round |-> c.round]

\* Mutant: a refused save is tried again on the token it was refused for.
RefusedNoReload(c) == GoTo(c, "save")

\* A refused save: read again, or StateContendedError after the last round.
Contended(c) == c.round + 1 = Rounds
Refused(c)   == [pc |-> "load", item |-> c.item, token |-> c.token, round |-> c.round + 1]

-----------------------------------------------------------------------------
(***************************************************************************)
(* An attempt's publishing thread: start_run, heartbeats, finish, release. *)
(***************************************************************************)

\* Where an attempt is once a publication it made at a stage has returned.
After(at) == CASE at = "opening" -> "running"
               [] at = "closing" -> "draining"
               [] OTHER          -> at

\* RunStatePublisher.publish: the CAS on the local side, or the upload slot when the
\* store is remote only.
Publish(a, s, at) ==
    /\ mine' = [mine EXCEPT ![a] = s]
    /\ IF HasLocal
       THEN /\ main' = [main EXCEPT ![a] = Begin(a, HostOf[a], s)]
            /\ pc' = [pc EXCEPT ![a] = at]
            /\ UNCHANGED pending
       ELSE /\ pending' = [pending EXCEPT ![a] = s]
            /\ pc' = [pc EXCEPT ![a] = After(at)]
            /\ UNCHANGED main

\* start_run(run_id=..., reopen=...): the state is read, a finished run is
\* refused unless reopen is set, and the resumed state continues heartbeat_seq
\* (without one it starts at 0, or at 1: the number alone tells nothing apart).
ReadPrior(a) ==
    /\ pc[a] = "new"
    /\ \E s \in {LoadFile(a), NoFile} :
          LoadRunState(a, s) /\ prior' = [prior EXCEPT ![a] = s]

StartRun(a) ==
    /\ ReadPrior(a)
    /\ \E reopen \in BOOLEAN : Finished(prior'[a]) => reopen
    /\ pc' = [pc EXCEPT ![a] = "opening"]
    /\ mine' = [mine EXCEPT ![a] =
                   [st |-> "running", attempt |-> a,
                    seq |-> IF prior'[a] = NoFile THEN 0 ELSE prior'[a].seq + 1]]
    /\ UNCHANGED <<store, tok, superseded, pending, main, up, fin, call, failed, landed>>

RefuseReopen(a) ==
    /\ ReadPrior(a)
    /\ Finished(prior'[a])
    /\ pc' = [pc EXCEPT ![a] = "refused"]
    /\ UNCHANGED <<store, mine, tok, superseded, pending, main, up, fin, call,
                   failed, landed>>

\* Run._open: the first publication.
Open(a) ==
    /\ pc[a] = "opening" /\ main[a] = Idle
    /\ Publish(a, mine[a], "opening")
    /\ UNCHANGED <<store, prior, tok, superseded, up, fin, call, faults, failed, landed>>

\* Run._publish_heartbeat, dropped once the attempt is superseded.
Beat(a) ==
    /\ pc[a] = "running" /\ main[a] = Idle
    /\ ~superseded[a]
    /\ mine[a].seq < MaxSeq
    /\ Publish(a, [mine[a] EXCEPT !.seq = @ + 1], "running")
    /\ UNCHANGED <<store, prior, tok, superseded, up, fin, call, faults, failed, landed>>

\* Run._close_attempt: the heartbeat thread is joined, then the outcome of
\* finish() or release() is published.
Close(a) ==
    /\ pc[a] = "running" /\ main[a] = Idle
    /\ \E outcome \in {"finished", "released"} :
          Publish(a, [mine[a] EXCEPT !.st = outcome], "closing")
    /\ UNCHANGED <<store, prior, tok, superseded, up, fin, call, faults, failed, landed>>

\* Run.detach: nothing more is written; a write in flight may still land.
Detach(a) ==
    /\ pc[a] = "running" /\ main[a] = Idle
    /\ pc' = [pc EXCEPT ![a] = "detached"]
    /\ pending' = [pending EXCEPT ![a] = NoFile]
    /\ UNCHANGED <<store, prior, mine, tok, superseded, main, up, fin, call,
                   faults, failed, landed>>

\* Where the thread goes on once publish() returns, or raises: an error of the
\* first publication fails start_run, any other is logged and swallowed.
AfterPublish(a, raised) ==
    pc' = [pc EXCEPT ![a] = IF pc[a] = "opening" /\ raised THEN "dead" ELSE After(pc[a])]

MainLoad(a) ==
    LET stored == store[HostOf[a]] IN
    /\ main[a].pc = "load"
    /\ IF Lost(a, HostOf[a], stored)
       THEN /\ superseded' = [superseded EXCEPT ![a] = TRUE]
            /\ main' = [main EXCEPT ![a] = Idle]
            /\ AfterPublish(a, FALSE)
       ELSE /\ main' = [main EXCEPT ![a] = Loaded(main[a], stored)]
            /\ UNCHANGED <<superseded, pc>>
    /\ UNCHANGED <<store, prior, mine, tok, pending, up, fin, call, faults, failed, landed>>

MainSave(a) ==
    LET c == main[a] IN
    /\ c.pc = "save"
    /\ store[HostOf[a]] = c.token
    /\ Write(HostOf[a], c.item)
    /\ Record(a, HostOf[a], c.item)
    /\ tok' = [tok EXCEPT ![a][HostOf[a]] = c.item]
    /\ pending' = IF HasRemote THEN [pending EXCEPT ![a] = c.item] ELSE pending
    /\ main' = [main EXCEPT ![a] = Idle]
    /\ AfterPublish(a, FALSE)
    /\ UNCHANGED <<prior, mine, superseded, up, fin, call, faults, failed>>

MainRefused(a) ==
    LET c == main[a] IN
    /\ c.pc = "save"
    /\ store[HostOf[a]] # c.token
    /\ IF Contended(c)
       THEN /\ main' = [main EXCEPT ![a] = Idle]
            /\ failed' = failed \cup {a}
            /\ AfterPublish(a, TRUE)
       ELSE /\ main' = [main EXCEPT ![a] = Refused(c)]
            /\ UNCHANGED <<failed, pc>>
    /\ UNCHANGED <<store, prior, mine, tok, superseded, pending, up, fin, call,
                   faults, landed>>

\* Mutant: a job the worker has taken is not waited for.
DrainedQueue(a) == pending[a] = NoFile

\* finish() or release() returns not superseded, once the upload worker has
\* drained or the deadline has passed ("late").
Drained(a) == pending[a] = NoFile /\ up[a] = Idle

Return(a) ==
    /\ pc[a] = "draining"
    /\ pc' = [pc EXCEPT ![a] = IF superseded[a] THEN "lost"
                               ELSE IF Drained(a) THEN "won" ELSE "late"]
    /\ UNCHANGED <<store, prior, mine, tok, superseded, pending, main, up, fin, call,
                   faults, failed, landed>>

\* The process is killed: its threads and what they had queued are gone.  (The
\* end of a process that has nothing left to write changes nothing.)
Die(a) ==
    /\ \/ pc[a] \in {"opening", "running", "closing", "draining"}
       \/ pc[a] \in {"late", "lost", "detached"} /\ ~Drained(a)
    /\ pc' = [pc EXCEPT ![a] = "dead"]
    /\ pending' = [pending EXCEPT ![a] = NoFile]
    /\ main' = [main EXCEPT ![a] = Idle]
    /\ up' = [up EXCEPT ![a] = Idle]
    /\ UNCHANGED <<store, prior, mine, tok, superseded, fin, call, faults, failed, landed>>

-----------------------------------------------------------------------------
(***************************************************************************)
(* An attempt's upload worker: RunStatePublisher._upload in a Coalescing.  *)
(***************************************************************************)

\* Mutant: a superseded attempt uploads nothing, not even its final state.
UpTakeNoFinal(a) ==
    /\ up[a] = Idle
    /\ pending[a] # NoFile
    /\ pending' = [pending EXCEPT ![a] = NoFile]
    /\ up' = IF superseded[a] THEN up
             ELSE [up EXCEPT ![a] = Begin(a, Remote, pending[a])]
    /\ UNCHANGED <<store, attemptVars, main, fin, call, faults, failed, landed>>

\* Coalescing._next: the newest pending state; a superseded attempt uploads
\* only its final one.
UpTake(a) ==
    /\ up[a] = Idle
    /\ pending[a] # NoFile
    /\ pending' = [pending EXCEPT ![a] = NoFile]
    /\ up' = IF superseded[a] /\ ~Final(pending[a]) THEN up
             ELSE [up EXCEPT ![a] = Begin(a, Remote, pending[a])]
    /\ UNCHANGED <<store, attemptVars, main, fin, call, faults, failed, landed>>

UpLoad(a) ==
    LET stored == store[Remote] IN
    /\ up[a].pc = "load"
    /\ IF Lost(a, Remote, stored)
       THEN /\ superseded' = [superseded EXCEPT ![a] = TRUE]
            /\ up' = IF Final(up[a].item) /\ HasLocal
                     THEN [up EXCEPT ![a] = GoTo(up[a], "winner")]
                     ELSE [up EXCEPT ![a] = Idle]
       ELSE /\ up' = [up EXCEPT ![a] = Loaded(up[a], stored)]
            /\ UNCHANGED superseded
    /\ UNCHANGED <<store, pc, prior, mine, tok, pending, main, fin, call,
                   faults, failed, landed>>

UpSave(a) ==
    LET c == up[a] IN
    /\ c.pc = "save"
    /\ store[Remote] = c.token
    /\ Write(Remote, c.item)
    /\ Record(a, Remote, c.item)
    /\ tok' = [tok EXCEPT ![a][Remote] = c.item]
    /\ up' = [up EXCEPT ![a] = Idle]
    /\ UNCHANGED <<pc, prior, mine, superseded, pending, main, fin, call, faults, failed>>

UpRefused(a) ==
    LET c == up[a] IN
    /\ c.pc = "save"
    /\ store[Remote] # c.token
    /\ IF Contended(c)
       THEN /\ up' = [up EXCEPT ![a] = Idle]
            /\ failed' = failed \cup {a}
       ELSE /\ up' = [up EXCEPT ![a] = Refused(c)]
            /\ UNCHANGED failed
    /\ UNCHANGED <<store, attemptVars, pending, main, fin, call, faults, landed>>

\* RunStatePublisher._cache_winner: the remote's winner replaces the loser's
\* local final state, unconditionally.
UpWinner(a) ==
    /\ up[a].pc = "winner"
    /\ up' = [up EXCEPT ![a] = [pc |-> "copy", item |-> store[Remote], token |-> NoFile, round |-> 0]]
    /\ UNCHANGED <<store, attemptVars, pending, main, fin, call, faults, failed, landed>>

UpCopy(a) ==
    /\ up[a].pc = "copy"
    /\ Write(HostOf[a], up[a].item)
    /\ up' = [up EXCEPT ![a] = Idle]
    /\ UNCHANGED <<attemptVars, pending, main, fin, call, faults, failed, landed>>

\* A remote call raises; Coalescing drops the job.  A conditional write may
\* have landed before its answer was lost.
UpFault(a) ==
    /\ up[a].pc \in {"load", "save", "winner"}
    /\ faults < MaxFaults
    /\ faults' = faults + 1
    /\ failed' = failed \cup {a}
    /\ up' = [up EXCEPT ![a] = Idle]
    /\ \/ UNCHANGED <<store, landed>>
       \/ /\ up[a].pc = "save" /\ store[Remote] = up[a].token
          /\ Write(Remote, up[a].item)
          /\ Record(a, Remote, up[a].item)
    /\ UNCHANGED <<attemptVars, pending, main, fin, call>>

-----------------------------------------------------------------------------
(***************************************************************************)
(* finish_run from outside the run.                                        *)
(***************************************************************************)

\* _refuse_unfinishable: live is what derive_status makes of the heartbeat's
\* age, which no state here determines.
Unfinishable(force, s, live) ==
    /\ force # "all"
    /\ s # NoFile
    /\ \/ s.st = "running" /\ live /\ force = "no"
       \/ s.st = "finished"

\* Mutant: the derived status is stored instead of the state.
final_state_status(f, s) ==
    [st |-> "failed", attempt |-> f, seq |-> IF s = NoFile THEN 0 ELSE s.seq]

\* final_state: the caller's ending, continuing the prior state.
final_state(f, s) ==
    [st |-> "finished", attempt |-> f, seq |-> IF s = NoFile THEN 0 ELSE s.seq]

\* The call returns or raises.
Ended(f, at) == [at |-> at, force |-> call[f].force]

\* finish_run up to its compare-and-swap: the first check of the state.
FinishRun(f) ==
    /\ call[f].at = "new"
    /\ \E force \in {"no", "live", "all"}, live \in BOOLEAN, s \in {LoadFile(f), NoFile} :
          /\ LoadRunState(f, s)
          /\ IF Unfinishable(force, s, live)
             THEN /\ call' = [call EXCEPT ![f] = [at |-> "refused", force |-> force]]
                  /\ UNCHANGED fin
             ELSE /\ call' = [call EXCEPT ![f] = [at |-> "checked", force |-> force]]
                  /\ fin' = [fin EXCEPT ![f] = GoTo(Idle, "load")]
    /\ UNCHANGED <<store, attemptVars, pending, main, up, failed, landed>>

FinLoad(f) ==
    LET stored == store[SharedOf(f)] IN
    /\ fin[f].pc = "load"
    /\ \E live \in BOOLEAN :
          IF Unfinishable(call[f].force, stored, live)
          THEN /\ fin' = [fin EXCEPT ![f] = Idle]
               /\ call' = [call EXCEPT ![f] = Ended(f, "refused")]
          ELSE /\ fin' = [fin EXCEPT ![f] = [pc |-> "save", item |-> final_state(f, stored),
                                          token |-> stored, round |-> fin[f].round]]
               /\ UNCHANGED call
    /\ UNCHANGED <<store, attemptVars, pending, main, up, faults, failed, landed>>

FinSave(f) ==
    LET c == fin[f] IN
    /\ c.pc = "save"
    /\ store[SharedOf(f)] = c.token
    /\ Write(SharedOf(f), c.item)
    /\ Record(f, SharedOf(f), c.item)
    /\ IF HasLocal /\ HasRemote
       THEN /\ fin' = [fin EXCEPT ![f] = GoTo(c, "copy")]
            /\ UNCHANGED call
       ELSE /\ fin' = [fin EXCEPT ![f] = Idle]
            /\ call' = [call EXCEPT ![f] = Ended(f, "done")]
    /\ UNCHANGED <<attemptVars, pending, main, up, faults, failed>>

FinRefused(f) ==
    LET c == fin[f] IN
    /\ c.pc = "save"
    /\ store[SharedOf(f)] # c.token
    /\ IF Contended(c)
       THEN /\ fin' = [fin EXCEPT ![f] = Idle]
            /\ call' = [call EXCEPT ![f] = Ended(f, "dead")]
       ELSE /\ fin' = [fin EXCEPT ![f] = Refused(c)]
            /\ UNCHANGED call
    /\ UNCHANGED <<store, attemptVars, pending, main, up, faults, failed, landed>>

\* _save_final's copy of the state to the local side, unconditional.
FinCopy(f) ==
    /\ fin[f].pc = "copy"
    /\ Write(HostOf[f], fin[f].item)
    /\ fin' = [fin EXCEPT ![f] = Idle]
    /\ call' = [call EXCEPT ![f] = Ended(f, "done")]
    /\ UNCHANGED <<attemptVars, pending, main, up, faults, failed, landed>>

\* The caller is killed, or a call of its raises.
FinDie(f) ==
    /\ call[f].at = "checked"
    /\ fin' = [fin EXCEPT ![f] = Idle]
    /\ call' = [call EXCEPT ![f] = Ended(f, "dead")]
    /\ UNCHANGED <<store, attemptVars, pending, main, up, faults, failed, landed>>

-----------------------------------------------------------------------------
Next ==
    \/ \E a \in Attempts :
          \/ StartRun(a) \/ RefuseReopen(a) \/ Open(a) \/ Beat(a) \/ Close(a)
          \/ Detach(a) \/ MainLoad(a) \/ MainSave(a) \/ MainRefused(a)
          \/ Return(a) \/ Die(a)
          \/ UpTake(a) \/ UpLoad(a) \/ UpSave(a) \/ UpRefused(a)
          \/ UpWinner(a) \/ UpCopy(a) \/ UpFault(a)
    \/ \E f \in Finishers :
          \/ FinishRun(f) \/ FinLoad(f) \/ FinSave(f) \/ FinRefused(f)
          \/ FinCopy(f) \/ FinDie(f)

Spec == Init /\ [][Next]_vars

\* The threads keep running: a CAS in progress goes on, the upload worker takes
\* what is pending and finish() returns.  Nothing makes an attempt beat, close
\* or die, a call fail, or anyone call finish_run.
Fairness ==
    /\ \A a \in Attempts :
          /\ WF_vars(Open(a))
          /\ WF_vars(MainLoad(a) \/ MainSave(a) \/ MainRefused(a))
          /\ WF_vars(UpTake(a) \/ UpLoad(a) \/ UpSave(a) \/ UpRefused(a)
                     \/ UpWinner(a) \/ UpCopy(a))
          /\ WF_vars(Return(a))
    /\ \A f \in Finishers : WF_vars(FinLoad(f) \/ FinSave(f) \/ FinRefused(f) \/ FinCopy(f))

FairSpec == Spec /\ Fairness

-----------------------------------------------------------------------------
(***************************************************************************)
(* Properties.                                                             *)
(***************************************************************************)

\* Who may replace the final state on side s.
MayReplace(i, s) ==
    \/ i = store[s].attempt
    \/ /\ i \in Attempts
       /\ tok[i][s] = NoFile
       /\ Finished(prior[i]) /\ prior[i].attempt = store[s].attempt
    \/ i \in Finishers /\ call[i].force = "all"

EndingKeptBy(s) ==
    Finished(store[s]) /\ store'[s] # store[s] =>
       store'[s] # NoFile /\ MayReplace(store'[s].attempt, s)

\* "A later finish or release by another attempt, or a finish_run from outside
\* the run, must not erase the winner's exit code" (state_cas.py): on the shared
\* side a final state is replaced by another writer's only when that writer is
\* an attempt reopening that very ending with its first write there, or a
\* finish_run with force=True.
EndingKept == [][\A i \in Ids : EndingKeptBy(SharedOf(i))]_vars

\* Run.finish returns True only to an attempt whose own ending reached the
\* shared state, unless its upload was still in flight or failed; and False, or
\* a release returns False, only when somebody else did end the run: on the
\* shared side, or first on the local copy that another attempt on this host
\* shares with it.
FinishTellsTheTruth ==
    \A a \in Attempts :
       /\ pc[a] = "won" /\ Finished(mine[a]) /\ a \notin failed => a \in landed
       /\ pc[a] = "lost" =>
             \/ landed \ {a} # {}
             \/ \E b \in Attempts \ {a} : HostOf[b] = HostOf[a] /\ Finished(mine[b])

\* An ending a host's own copy shows is one that reached the shared state, once
\* the attempts on that host have uploaded what they had: the losing attempt's
\* copy is replaced by the winner's (_cache_winner).
LocalEndingIsReal ==
    \A h \in Hosts :
       /\ Finished(store[h])
       /\ \A a \in Attempts : HostOf[a] = h =>
             Drained(a) /\ main[a] = Idle /\ a \notin failed /\ pc[a] # "dead"
       => store[h].attempt \in landed

\* An attempt that finishes gets the run ended for everybody, by its own ending
\* or another's, unless a process was killed or a write failed on the way: the
\* conditional writes do not keep refusing each other for ever.
FinishEndsRun ==
    \A a \in Attempts :
       pc[a] \in {"closing", "draining"} /\ Finished(mine[a])
          ~> landed # {} \/ failed # {} \/ \E b \in Attempts : pc[b] = "dead"

-----------------------------------------------------------------------------
(***************************************************************************)
(* The abstract specification, read off the shared side.                   *)
(***************************************************************************)
Shared == IF HasRemote THEN Remote ELSE CHOOSE h \in Hosts : \A i \in Ids : HostOf[i] = h

Ending == INSTANCE RunEnding WITH
    None   <- NoFile,
    winner <- IF Finished(store[Shared]) THEN store[Shared].attempt ELSE NoFile,
    ended  <- landed,
    grant  <- [a \in Attempts |->
                 IF Finished(prior[a]) /\ tok[a][Shared] = NoFile /\ pc[a] # "refused"
                 THEN prior[a].attempt ELSE NoFile],
    forced <- {f \in Finishers : call[f].force = "all"}

\* The publishers, upload workers and finish_run calls together implement the
\* promise of RunEnding: endings one at a time, each at most once, replaced only
\* under a reopen or a force.
ImplementsRunEnding == Ending!Spec

=============================================================================
