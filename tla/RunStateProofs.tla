--------------------------- MODULE RunStateProofs ---------------------------
(***************************************************************************)
(* For every set of attempts, finish_run calls and hosts: the state of     *)
(* RunState is well typed, and an ending that stands on the shared side is *)
(* erased only under a reopen or a force (EndingKept).  Then where an      *)
(* ending is on its way, and what follows.                                 *)
(***************************************************************************)
EXTENDS RunState, TLAPS

(***************************************************************************)
(* The inductive invariant.                                                *)
(***************************************************************************)

\* What an attempt writes, has queued or wrote last carries its own id.
Owned(a) ==
    /\ pc[a] \notin {"new", "refused"} => mine[a] # NoFile /\ mine[a].attempt = a
    /\ pending[a] # NoFile => pending[a].attempt = a
    /\ \A s \in Sides : tok[a][s] # NoFile => tok[a][s].attempt = a
    /\ main[a].pc \in {"load", "save"} => main[a].item # NoFile /\ main[a].item.attempt = a
    /\ up[a].pc \in {"load", "save"} => up[a].item # NoFile /\ up[a].item.attempt = a

\* Which threads can be busy: none before the prior state is read, no upload
\* without a remote.
Threads(a) ==
    /\ pc[a] = "new" => main[a] = Idle /\ up[a] = Idle /\ pending[a] = NoFile
    /\ ~HasRemote => up[a] = Idle /\ pending[a] = NoFile
    /\ main[a].pc \in {"idle", "load", "save"}

\* The decision a conditional write rests on: what its token stands for is not
\* an ending the attempt may not replace.
Decided(a) ==
    /\ main[a].pc = "save" => ~Lost(a, HostOf[a], main[a].token)
    /\ up[a].pc = "save" => ~Lost(a, Remote, up[a].token)

\* The same for a finish_run call: a finished run only under force=True, and a
\* copy to the local side only next to a remote.
FinDecided(f) ==
    /\ fin[f].pc # "idle" => call[f].at = "checked"
    /\ fin[f].pc = "copy" => HasRemote
    /\ fin[f].pc = "save" => /\ fin[f].item # NoFile /\ fin[f].item.attempt = f
                             /\ Finished(fin[f].token) => call[f].force = "all"

AInv(a) == Owned(a) /\ Threads(a) /\ Decided(a)

IInv == /\ TypeOK
        /\ \A a \in Attempts : AInv(a)
        /\ \A f \in Finishers : FinDecided(f)

-----------------------------------------------------------------------------
(***************************************************************************)
(* What the steps of a compare-and-swap make of its record.                *)
(***************************************************************************)
\* A CAS that has loaded, goes on or was refused is a CAS on the same state
\* (compare_and_save_token); an idle one has none.
LEMMA CasFacts ==
    ASSUME NEW c \in Cas, NEW s \in Files
    PROVE  /\ Idle \in Cas /\ Idle.pc = "idle" /\ c.item \in Files /\ c.token \in Files
           /\ Loaded(c, s) \in Cas
           /\ Loaded(c, s).pc = "save" /\ Loaded(c, s).item = c.item /\ Loaded(c, s).token = s
           /\ \A p \in {"load", "winner", "copy"} :
                 GoTo(c, p) \in Cas /\ GoTo(c, p).pc = p /\ GoTo(c, p).item = c.item
           /\ Refused(c) \in Cas /\ Refused(c).pc = "load" /\ Refused(c).item = c.item
BY DEF Idle, Cas, Files, Loaded, GoTo, Refused

\* The first round of a publication (RunStatePublisher._seed) is conditional on
\* the attempt's own last write to the side, which it may replace.
LEMMA BeginFacts ==
    ASSUME IInv, NEW a \in Attempts, NEW side \in Sides, NEW s \in States
    PROVE  /\ Begin(a, side, s) \in Cas
           /\ Begin(a, side, s).pc \in {"load", "save"}
           /\ Begin(a, side, s).item = s
           /\ Begin(a, side, s).token = tok[a][side]
           /\ ~Lost(a, side, tok[a][side])
<1>1. tok[a][side] \in Files
  BY DEF IInv, TypeOK
<1>2. tok[a][side] # NoFile => tok[a][side].attempt = a
  BY DEF IInv, AInv, Owned
<1> QED BY <1>1, <1>2 DEF Begin, Cas, Files, Lost, finished_by_another, Finished

\* A run state is not the absent file.
LEMMA StateFacts ==
    /\ \A s \in States : s # NoFile /\ s \in Files
    /\ \A s \in Files : s # NoFile => s \in States
BY NoFileAssumption DEF Files

\* A heartbeat leaves the attempt running.
LEMMA AfterRunning == After("running") = "running"
BY DEF After

\* A later heartbeat and an outcome are run states of the same attempt.
LEMMA Later ==
    ASSUME NEW s \in States
    PROVE  /\ [s EXCEPT !.seq = @ + 1] \in States
           /\ [s EXCEPT !.seq = @ + 1].attempt = s.attempt
           /\ \A o \in {"finished", "released"} :
                 [s EXCEPT !.st = o] \in States /\ [s EXCEPT !.st = o].attempt = s.attempt
BY DEF States

\* A step that leaves everything of an attempt alone preserves its invariant.
LEMMA Frame ==
    ASSUME NEW b \in Attempts, AInv(b),
           UNCHANGED <<pc[b], prior[b], mine[b], tok[b], pending[b], main[b], up[b]>>
    PROVE  AInv(b)'
BY DEF AInv, Owned, Threads, Decided, Lost, finished_by_another, Finished, Idle

\* The initial states satisfy the inductive invariant: no file, no thread busy.
LEMMA InitIInv == Init => IInv
BY RunStateAssumption
   DEF Init, IInv, AInv, TypeOK, Owned, Threads, Decided, FinDecided, Files, Idle, Cas, Sides,
       Stages, Calls

\* A step of an attempt's publishing thread (start_run, heartbeat, finish, release,
\* detach, or its death) preserves the inductive invariant.
LEMMA PublisherStep ==
    ASSUME IInv, NEW a \in Attempts,
           \/ StartRun(a) \/ RefuseReopen(a) \/ Open(a) \/ Beat(a) \/ Close(a)
           \/ Detach(a) \/ MainLoad(a) \/ MainSave(a) \/ MainRefused(a) \/ Return(a)
           \/ Die(a)
    PROVE  IInv'
<1>h. HostOf[a] \in Sides /\ HostOf[a] # Remote /\ SharedOf(a) \in Sides
  BY RunStateAssumption DEF SharedOf, Sides, Ids
<1>1. CASE StartRun(a)
  <2>a. LoadFile(a) \in Files
    BY <1>h DEF LoadFile, IInv, TypeOK, Files, Sides
  <2>b. /\ prior'[a] \in Files /\ prior' = [prior EXCEPT ![a] = prior'[a]]
        /\ pc[a] = "new" /\ faults' \in Nat
    BY <1>1, <2>a DEF StartRun, ReadPrior, LoadRunState, IInv, TypeOK, Files
  <2>c. mine'[a] \in States /\ mine'[a].attempt = a /\ mine' = [mine EXCEPT ![a] = mine'[a]]
    BY <1>1, <2>b, StateFacts DEF StartRun, States, Ids, IInv, TypeOK
  <2>d. main[a].pc = "idle" /\ up[a].pc = "idle"
    BY <1>1 DEF StartRun, ReadPrior, IInv, AInv, Threads, Idle
  <2>1. TypeOK'
    BY <1>1, <1>h, <2>a, <2>b, <2>c, <2>d, StateFacts DEF StartRun, ReadPrior, attemptVars, IInv, TypeOK, Finished, Ids, Sides, Stages, States
  <2>2. Owned(a)'
    BY <1>1, <1>h, <2>a, <2>b, <2>c, <2>d, StateFacts DEF StartRun, ReadPrior, attemptVars, IInv, TypeOK, AInv, Owned
  <2>3. Threads(a)'
    BY <1>1, RunStateAssumption, <2>a, <2>b, <2>c, <2>d DEF StartRun, ReadPrior, attemptVars, IInv, TypeOK, AInv, Threads
  <2>4. Decided(a)'
    BY <1>1, <1>h, <2>a, <2>b, <2>c, <2>d DEF StartRun, ReadPrior, attemptVars, IInv, TypeOK, AInv, Owned, Threads, Decided,
       Lost, finished_by_another, Finished
  <2>5. \A b \in Attempts \ {a} : AInv(b)'
    BY <1>1, Frame DEF StartRun, ReadPrior, attemptVars, IInv, TypeOK
  <2>6. \A g \in Finishers : FinDecided(g)'
    BY <1>1 DEF StartRun, ReadPrior, attemptVars, IInv, FinDecided, Finished
  <2> QED BY <2>1, <2>2, <2>3, <2>4, <2>5, <2>6 DEF IInv, AInv
<1>2. CASE RefuseReopen(a)
  <2>a. LoadFile(a) \in Files
    BY <1>h DEF LoadFile, IInv, TypeOK, Files, Sides
  <2>b. /\ prior'[a] \in Files /\ prior' = [prior EXCEPT ![a] = prior'[a]]
        /\ pc[a] = "new" /\ faults' \in Nat
    BY <1>2, <2>a DEF RefuseReopen, ReadPrior, LoadRunState, IInv, TypeOK, Files
  <2>c. main[a].pc = "idle" /\ up[a].pc = "idle"
    BY <1>2 DEF RefuseReopen, ReadPrior, IInv, AInv, Threads, Idle
  <2>1. TypeOK'
    BY <1>2, <1>h, <2>a, <2>b, <2>c, StateFacts DEF RefuseReopen, ReadPrior, attemptVars, IInv, TypeOK, Finished, Ids, Sides, Stages, States
  <2>2. Owned(a)'
    BY <1>2, <1>h, <2>a, <2>b, <2>c, StateFacts DEF RefuseReopen, ReadPrior, attemptVars, IInv, TypeOK, AInv, Owned
  <2>3. Threads(a)'
    BY <1>2, RunStateAssumption, <2>a, <2>b, <2>c DEF RefuseReopen, ReadPrior, attemptVars, IInv, TypeOK, AInv, Threads
  <2>4. Decided(a)'
    BY <1>2, <1>h, <2>a, <2>b, <2>c DEF RefuseReopen, ReadPrior, attemptVars, IInv, TypeOK, AInv, Owned, Threads, Decided,
       Lost, finished_by_another, Finished
  <2>5. \A b \in Attempts \ {a} : AInv(b)'
    BY <1>2, Frame DEF RefuseReopen, ReadPrior, attemptVars, IInv, TypeOK
  <2>6. \A g \in Finishers : FinDecided(g)'
    BY <1>2 DEF RefuseReopen, ReadPrior, attemptVars, IInv, FinDecided, Finished
  <2> QED BY <2>1, <2>2, <2>3, <2>4, <2>5, <2>6 DEF IInv, AInv
<1>3. CASE Open(a)
  <2>a. mine[a] \in States /\ mine[a].attempt = a
    BY <1>3, StateFacts DEF Open, IInv, TypeOK, AInv, Owned
  <2>b. mine'[a] \in States /\ mine'[a].attempt = a /\ mine' = [mine EXCEPT ![a] = mine'[a]]
    BY <1>3, <2>a DEF Open, Publish, IInv, TypeOK
  <2>c. /\ Begin(a, HostOf[a], mine'[a]) \in Cas
        /\ Begin(a, HostOf[a], mine'[a]).pc \in {"load", "save"}
        /\ Begin(a, HostOf[a], mine'[a]).item = mine'[a]
        /\ Begin(a, HostOf[a], mine'[a]).token = tok[a][HostOf[a]]
        /\ ~Lost(a, HostOf[a], tok[a][HostOf[a]])
    BY <1>h, <2>b, BeginFacts
  <2>d. /\ HasLocal => main' = [main EXCEPT ![a] = Begin(a, HostOf[a], mine'[a])]
        /\ ~HasLocal => main' = main
        /\ HasLocal => pending' = pending
        /\ ~HasLocal => pending' = [pending EXCEPT ![a] = mine'[a]]
    BY <1>3, <2>b DEF Open, Publish, IInv, TypeOK
  <2>e. /\ HasLocal => pc' = [pc EXCEPT ![a] = "opening"]
        /\ ~HasLocal => pc' = [pc EXCEPT ![a] = After("opening")]
    BY <1>3 DEF Open, Publish
  <2>f. pc' \in [Attempts -> Stages] /\ pc'[a] \in Stages \ {"new", "refused"}
        /\ main' \in [Attempts -> Cas] /\ pending' \in [Attempts -> Files]
    BY <2>b, <2>c, <2>d, <2>e, StateFacts DEF After, IInv, TypeOK, Stages
  <2>1. TypeOK'
    BY <1>3, <1>h, <2>a, <2>b, <2>c, <2>d, <2>e, <2>f, StateFacts DEF Open, attemptVars, IInv, TypeOK, Finished, Ids, Sides, Stages, States
  <2>2. Owned(a)'
    BY <1>3, <1>h, <2>a, <2>b, <2>c, <2>d, <2>e, <2>f, StateFacts DEF Open, Publish, attemptVars, IInv, TypeOK, AInv, Owned
  <2>3. Threads(a)'
    BY <1>3, RunStateAssumption, <2>a, <2>b, <2>c, <2>d, <2>e, <2>f DEF Open, Publish, attemptVars, IInv, TypeOK, AInv, Threads
  <2>4. Decided(a)'
    BY <1>3, <1>h, <2>a, <2>b, <2>c, <2>d, <2>e, <2>f DEF Open, Publish, attemptVars, IInv, TypeOK, AInv, Owned, Threads, Decided,
       Lost, finished_by_another, Finished
  <2>5. \A b \in Attempts \ {a} : AInv(b)'
    BY <1>3, Frame DEF Open, Publish, attemptVars, IInv, TypeOK
  <2>6. \A g \in Finishers : FinDecided(g)'
    BY <1>3 DEF Open, Publish, attemptVars, IInv, FinDecided, Finished
  <2> QED BY <2>1, <2>2, <2>3, <2>4, <2>5, <2>6 DEF IInv, AInv
<1>4. CASE Beat(a)
  <2>a. mine[a] \in States /\ mine[a].attempt = a
    BY <1>4, StateFacts DEF Beat, IInv, TypeOK, AInv, Owned
  <2>b. mine'[a] \in States /\ mine'[a].attempt = a /\ mine' = [mine EXCEPT ![a] = mine'[a]]
    BY <1>4, <2>a, Later DEF Beat, Publish, IInv, TypeOK
  <2>c. /\ Begin(a, HostOf[a], mine'[a]) \in Cas
        /\ Begin(a, HostOf[a], mine'[a]).pc \in {"load", "save"}
        /\ Begin(a, HostOf[a], mine'[a]).item = mine'[a]
        /\ Begin(a, HostOf[a], mine'[a]).token = tok[a][HostOf[a]]
        /\ ~Lost(a, HostOf[a], tok[a][HostOf[a]])
    BY <1>h, <2>b, BeginFacts
  <2>d. /\ HasLocal => main' = [main EXCEPT ![a] = Begin(a, HostOf[a], mine'[a])]
        /\ ~HasLocal => main' = main
        /\ HasLocal => pending' = pending
        /\ ~HasLocal => pending' = [pending EXCEPT ![a] = mine'[a]]
    BY <1>4, <2>b DEF Beat, Publish, IInv, TypeOK
  <2>e. /\ HasLocal => pc' = [pc EXCEPT ![a] = "running"]
        /\ ~HasLocal => pc' = [pc EXCEPT ![a] = After("running")]
    BY <1>4 DEF Beat, Publish
  <2>f. pc' \in [Attempts -> Stages] /\ pc'[a] \in Stages \ {"new", "refused"}
        /\ main' \in [Attempts -> Cas] /\ pending' \in [Attempts -> Files]
    <3>1. pc' \in [Attempts -> Stages] /\ pc'[a] \in Stages \ {"new", "refused"}
      BY <2>e, AfterRunning DEF IInv, TypeOK, Stages
    <3>2. main' \in [Attempts -> Cas]
      BY <2>c, <2>d DEF IInv, TypeOK
    <3>3. pending' \in [Attempts -> Files]
      BY <2>b, <2>d, StateFacts DEF IInv, TypeOK
    <3> QED BY <3>1, <3>2, <3>3
  <2>u. UNCHANGED <<store, prior, tok, superseded, up, fin, call, faults, failed, landed>>
    BY <1>4 DEF Beat
  <2>1. TypeOK'
    BY <2>b, <2>f, <2>u, StateFacts DEF IInv, TypeOK
  <2>2. Owned(a)'
    BY <1>h, <2>b, <2>c, <2>d, <2>f, <2>u, StateFacts DEF IInv, TypeOK, AInv, Owned
  <2>3. Threads(a)'
    BY <1>4, RunStateAssumption, <2>a, <2>b, <2>c, <2>d, <2>e, <2>f DEF Beat, Publish, attemptVars, IInv, TypeOK, AInv, Threads
  <2>4. Decided(a)'
    BY <1>4, <1>h, <2>a, <2>b, <2>c, <2>d, <2>e, <2>f DEF Beat, Publish, attemptVars, IInv, TypeOK, AInv, Owned, Threads, Decided,
       Lost, finished_by_another, Finished
  <2>5. \A b \in Attempts \ {a} : AInv(b)'
    BY <1>4, Frame DEF Beat, Publish, attemptVars, IInv, TypeOK
  <2>6. \A g \in Finishers : FinDecided(g)'
    BY <1>4 DEF Beat, Publish, attemptVars, IInv, FinDecided, Finished
  <2> QED BY <2>1, <2>2, <2>3, <2>4, <2>5, <2>6 DEF IInv, AInv
<1>5. CASE Close(a)
  <2>a. mine[a] \in States /\ mine[a].attempt = a
    BY <1>5, StateFacts DEF Close, IInv, TypeOK, AInv, Owned
  <2>o. PICK o \in {"finished", "released"} : Publish(a, [mine[a] EXCEPT !.st = o], "closing")
    BY <1>5 DEF Close
  <2>p. [mine[a] EXCEPT !.st = o] \in States /\ [mine[a] EXCEPT !.st = o].attempt = a
    BY <2>a, Later
  <2>b. mine'[a] \in States /\ mine'[a].attempt = a /\ mine' = [mine EXCEPT ![a] = mine'[a]]
    BY <2>o, <2>p DEF Publish, IInv, TypeOK
  <2>c. /\ Begin(a, HostOf[a], mine'[a]) \in Cas
        /\ Begin(a, HostOf[a], mine'[a]).pc \in {"load", "save"}
        /\ Begin(a, HostOf[a], mine'[a]).item = mine'[a]
        /\ Begin(a, HostOf[a], mine'[a]).token = tok[a][HostOf[a]]
        /\ ~Lost(a, HostOf[a], tok[a][HostOf[a]])
    BY <1>h, <2>b, BeginFacts
  <2>d. /\ HasLocal => main' = [main EXCEPT ![a] = Begin(a, HostOf[a], mine'[a])]
        /\ ~HasLocal => main' = main
        /\ HasLocal => pending' = pending
        /\ ~HasLocal => pending' = [pending EXCEPT ![a] = mine'[a]]
    BY <1>5, <2>b DEF Close, Publish, IInv, TypeOK
  <2>e. /\ HasLocal => pc' = [pc EXCEPT ![a] = "closing"]
        /\ ~HasLocal => pc' = [pc EXCEPT ![a] = After("closing")]
    BY <1>5 DEF Close, Publish
  <2>f. pc' \in [Attempts -> Stages] /\ pc'[a] \in Stages \ {"new", "refused"}
        /\ main' \in [Attempts -> Cas] /\ pending' \in [Attempts -> Files]
    <3>1. pc' \in [Attempts -> Stages] /\ pc'[a] \in Stages \ {"new", "refused"}
      BY <2>e, StateFacts DEF After, IInv, TypeOK, Stages
    <3>2. main' \in [Attempts -> Cas]
      BY <2>c, <2>d DEF IInv, TypeOK
    <3>3. pending' \in [Attempts -> Files]
      BY <2>b, <2>d, StateFacts DEF IInv, TypeOK
    <3> QED BY <3>1, <3>2, <3>3
  <2>u. UNCHANGED <<store, prior, tok, superseded, up, fin, call, faults, failed, landed>>
    BY <1>5 DEF Close
  <2>1. TypeOK'
    BY <2>b, <2>f, <2>u, StateFacts DEF IInv, TypeOK
  <2>2. Owned(a)'
    BY <1>h, <2>b, <2>c, <2>d, <2>f, <2>u, StateFacts DEF IInv, TypeOK, AInv, Owned
  <2>3. Threads(a)'
    BY <1>5, RunStateAssumption, <2>a, <2>b, <2>c, <2>d, <2>e, <2>f DEF Close, Publish, attemptVars, IInv, TypeOK, AInv, Threads
  <2>4. Decided(a)'
    BY <1>5, <1>h, <2>a, <2>b, <2>c, <2>d, <2>e, <2>f DEF Close, Publish, attemptVars, IInv, TypeOK, AInv, Owned, Threads, Decided,
       Lost, finished_by_another, Finished
  <2>5. \A b \in Attempts \ {a} : AInv(b)'
    BY <1>5, Frame DEF Close, Publish, attemptVars, IInv, TypeOK
  <2>6. \A g \in Finishers : FinDecided(g)'
    BY <1>5 DEF Close, Publish, attemptVars, IInv, FinDecided, Finished
  <2> QED BY <2>1, <2>2, <2>3, <2>4, <2>5, <2>6 DEF IInv, AInv
<1>6. CASE Detach(a)
  <2>a. Idle \in Cas /\ Idle.pc = "idle" /\ NoFile \in Files
    BY DEF Idle, Cas, Files
  <2>b. pc'[a] \notin {"new", "refused"} => mine[a] # NoFile /\ mine[a].attempt = a
    BY <1>6 DEF Detach, IInv, TypeOK, AInv, Owned
  <2>1. TypeOK'
    BY <1>6, <1>h, <2>a, <2>b, StateFacts DEF Detach, attemptVars, IInv, TypeOK, Finished, Ids, Sides, Stages, States
  <2>2. Owned(a)'
    BY <1>6, <1>h, <2>a, <2>b, StateFacts DEF Detach, attemptVars, IInv, TypeOK, AInv, Owned
  <2>3. Threads(a)'
    BY <1>6, RunStateAssumption, <2>a, <2>b DEF Detach, attemptVars, IInv, TypeOK, AInv, Threads
  <2>4. Decided(a)'
    BY <1>6, <1>h, <2>a, <2>b DEF Detach, attemptVars, IInv, TypeOK, AInv, Owned, Threads, Decided,
       Lost, finished_by_another, Finished
  <2>5. \A b \in Attempts \ {a} : AInv(b)'
    BY <1>6, Frame DEF Detach, attemptVars, IInv, TypeOK
  <2>6. \A g \in Finishers : FinDecided(g)'
    BY <1>6 DEF Detach, attemptVars, IInv, FinDecided, Finished
  <2> QED BY <2>1, <2>2, <2>3, <2>4, <2>5, <2>6 DEF IInv, AInv
<1>7. CASE MainLoad(a)
  <2>a. main[a] \in Cas /\ store[HostOf[a]] \in Files
    BY <1>h DEF IInv, TypeOK, Sides
  <2>b. /\ Idle \in Cas /\ Idle.pc = "idle" /\ main[a].item \in Files
    BY <2>a, CasFacts
  <2>c. /\ Loaded(main[a], store[HostOf[a]]) \in Cas
        /\ Loaded(main[a], store[HostOf[a]]).pc = "save" /\ Loaded(main[a], store[HostOf[a]]).item = main[a].item
        /\ Loaded(main[a], store[HostOf[a]]).token = store[HostOf[a]]
    BY <2>a, CasFacts
  <2>d. pc'[a] \notin {"new", "refused"} => mine[a] # NoFile /\ mine[a].attempt = a
    BY <1>7 DEF MainLoad, AfterPublish, After, IInv, TypeOK, AInv, Owned
  <2>e. /\ main' \in [Attempts -> Cas]
        /\ pc' \in [Attempts -> Stages]
        /\ pc'[a] \notin {"new", "refused"} \/ pc'[a] = pc[a]
    BY <1>7, <2>a, <2>b, <2>c DEF MainLoad, AfterPublish, After, IInv, TypeOK, Stages
  <2>1. TypeOK'
    BY <1>7, <1>h, <2>a, <2>b, <2>c, <2>d, <2>e, StateFacts DEF MainLoad, AfterPublish, After, attemptVars, IInv, TypeOK, Finished, Ids, Sides, Stages, States
  <2>2. Owned(a)'
    BY <1>7, <1>h, <2>a, <2>b, <2>c, <2>d, <2>e, StateFacts DEF MainLoad, AfterPublish, After, attemptVars, IInv, TypeOK, AInv, Owned
  <2>3. Threads(a)'
    BY <1>7, RunStateAssumption, <2>a, <2>b, <2>c, <2>d, <2>e DEF MainLoad, AfterPublish, After, attemptVars, IInv, TypeOK, AInv, Threads
  <2>4. Decided(a)'
    BY <1>7, <1>h, <2>a, <2>b, <2>c, <2>d, <2>e DEF MainLoad, AfterPublish, After, attemptVars, IInv, TypeOK, AInv, Owned, Threads, Decided,
       Lost, finished_by_another, Finished
  <2>5. \A b \in Attempts \ {a} : AInv(b)'
    BY <1>7, Frame DEF MainLoad, AfterPublish, After, attemptVars, IInv, TypeOK
  <2>6. \A g \in Finishers : FinDecided(g)'
    BY <1>7 DEF MainLoad, AfterPublish, After, attemptVars, IInv, FinDecided, Finished
  <2> QED BY <2>1, <2>2, <2>3, <2>4, <2>5, <2>6 DEF IInv, AInv
<1>8. CASE MainSave(a)
  <2>a. main[a] \in Cas /\ store[HostOf[a]] \in Files
    BY <1>h DEF IInv, TypeOK, Sides
  <2>b. /\ Idle \in Cas /\ Idle.pc = "idle" /\ main[a].item \in Files
    BY <2>a, CasFacts
  <2>c. main[a].pc = "save" => main[a].item \in States /\ main[a].item.attempt = a
    BY <2>b, StateFacts DEF IInv, AInv, Owned
  <2>1. TypeOK'
    BY <1>8, <1>h, <2>a, <2>b, <2>c, StateFacts DEF MainSave, AfterPublish, After, Write, Record, attemptVars, IInv, TypeOK, Finished, Ids, Sides, Stages, States
  <2>2. Owned(a)'
    BY <1>8, <1>h, <2>a, <2>b, <2>c, StateFacts DEF MainSave, AfterPublish, After, Write, Record, attemptVars, IInv, TypeOK, AInv, Owned
  <2>3. Threads(a)'
    BY <1>8, RunStateAssumption, <2>a, <2>b, <2>c DEF MainSave, AfterPublish, After, Write, Record, attemptVars, IInv, TypeOK, AInv, Threads
  <2>4. Decided(a)'
    BY <1>8, <1>h, <2>a, <2>b, <2>c DEF MainSave, AfterPublish, After, Write, Record, attemptVars, IInv, TypeOK, AInv, Owned, Threads, Decided,
       Lost, finished_by_another, Finished
  <2>5. \A b \in Attempts \ {a} : AInv(b)'
    BY <1>8, Frame DEF MainSave, AfterPublish, After, Write, Record, attemptVars, IInv, TypeOK
  <2>6. \A g \in Finishers : FinDecided(g)'
    BY <1>8 DEF MainSave, AfterPublish, After, Write, Record, attemptVars, IInv, FinDecided, Finished
  <2> QED BY <2>1, <2>2, <2>3, <2>4, <2>5, <2>6 DEF IInv, AInv
<1>9. CASE MainRefused(a)
  <2>a. main[a] \in Cas /\ store[HostOf[a]] \in Files
    BY <1>h DEF IInv, TypeOK, Sides
  <2>b. /\ Idle \in Cas /\ Idle.pc = "idle" /\ main[a].item \in Files
    BY <2>a, CasFacts
  <2>c. Refused(main[a]) \in Cas /\ Refused(main[a]).pc = "load" /\ Refused(main[a]).item = main[a].item
    BY <2>a, CasFacts
  <2>d. pc'[a] \notin {"new", "refused"} => mine[a] # NoFile /\ mine[a].attempt = a
    BY <1>9 DEF MainRefused, AfterPublish, After, IInv, TypeOK, AInv, Owned
  <2>e. /\ main' \in [Attempts -> Cas]
        /\ pc' \in [Attempts -> Stages]
        /\ pc'[a] \notin {"new", "refused"} \/ pc'[a] = pc[a]
    BY <1>9, <2>a, <2>b, <2>c DEF MainRefused, AfterPublish, After, IInv, TypeOK, Stages
  <2>1. TypeOK'
    BY <1>9, <1>h, <2>a, <2>b, <2>c, <2>d, <2>e, StateFacts DEF MainRefused, AfterPublish, After, attemptVars, IInv, TypeOK, Finished, Ids, Sides, Stages, States
  <2>2. Owned(a)'
    BY <1>9, <1>h, <2>a, <2>b, <2>c, <2>d, <2>e, StateFacts DEF MainRefused, AfterPublish, After, attemptVars, IInv, TypeOK, AInv, Owned
  <2>3. Threads(a)'
    BY <1>9, RunStateAssumption, <2>a, <2>b, <2>c, <2>d, <2>e DEF MainRefused, AfterPublish, After, attemptVars, IInv, TypeOK, AInv, Threads
  <2>4. Decided(a)'
    BY <1>9, <1>h, <2>a, <2>b, <2>c, <2>d, <2>e DEF MainRefused, AfterPublish, After, attemptVars, IInv, TypeOK, AInv, Owned, Threads, Decided,
       Lost, finished_by_another, Finished
  <2>5. \A b \in Attempts \ {a} : AInv(b)'
    BY <1>9, Frame DEF MainRefused, AfterPublish, After, attemptVars, IInv, TypeOK
  <2>6. \A g \in Finishers : FinDecided(g)'
    BY <1>9 DEF MainRefused, AfterPublish, After, attemptVars, IInv, FinDecided, Finished
  <2> QED BY <2>1, <2>2, <2>3, <2>4, <2>5, <2>6 DEF IInv, AInv
<1>10. CASE Return(a)
  <2>1. TypeOK'
    BY <1>10, <1>h, StateFacts DEF Return, attemptVars, IInv, TypeOK, Finished, Ids, Sides, Stages, States
  <2>2. Owned(a)'
    BY <1>10, <1>h, StateFacts DEF Return, attemptVars, IInv, TypeOK, AInv, Owned
  <2>3. Threads(a)'
    BY <1>10, RunStateAssumption DEF Return, attemptVars, IInv, TypeOK, AInv, Threads
  <2>4. Decided(a)'
    BY <1>10, <1>h DEF Return, attemptVars, IInv, TypeOK, AInv, Owned, Threads, Decided,
       Lost, finished_by_another, Finished
  <2>5. \A b \in Attempts \ {a} : AInv(b)'
    BY <1>10, Frame DEF Return, attemptVars, IInv, TypeOK
  <2>6. \A g \in Finishers : FinDecided(g)'
    BY <1>10 DEF Return, attemptVars, IInv, FinDecided, Finished
  <2> QED BY <2>1, <2>2, <2>3, <2>4, <2>5, <2>6 DEF IInv, AInv
<1>11. CASE Die(a)
  <2>a. Idle \in Cas /\ Idle.pc = "idle" /\ NoFile \in Files
    BY DEF Idle, Cas, Files
  <2>b. pc'[a] \notin {"new", "refused"} => mine[a] # NoFile /\ mine[a].attempt = a
    BY <1>11 DEF Die, IInv, TypeOK, AInv, Owned
  <2>1. TypeOK'
    BY <1>11, <1>h, <2>a, <2>b, StateFacts DEF Die, attemptVars, IInv, TypeOK, Finished, Ids, Sides, Stages, States
  <2>2. Owned(a)'
    BY <1>11, <1>h, <2>a, <2>b, StateFacts DEF Die, attemptVars, IInv, TypeOK, AInv, Owned
  <2>3. Threads(a)'
    BY <1>11, RunStateAssumption, <2>a, <2>b DEF Die, attemptVars, IInv, TypeOK, AInv, Threads
  <2>4. Decided(a)'
    BY <1>11, <1>h, <2>a, <2>b DEF Die, attemptVars, IInv, TypeOK, AInv, Owned, Threads, Decided,
       Lost, finished_by_another, Finished
  <2>5. \A b \in Attempts \ {a} : AInv(b)'
    BY <1>11, Frame DEF Die, attemptVars, IInv, TypeOK
  <2>6. \A g \in Finishers : FinDecided(g)'
    BY <1>11 DEF Die, attemptVars, IInv, FinDecided, Finished
  <2> QED BY <2>1, <2>2, <2>3, <2>4, <2>5, <2>6 DEF IInv, AInv
<1> QED BY <1>1, <1>2, <1>3, <1>4, <1>5, <1>6, <1>7, <1>8, <1>9, <1>10, <1>11

\* A step of an attempt's upload worker preserves the inductive invariant.
LEMMA UploaderStep ==
    ASSUME IInv, NEW a \in Attempts,
           \/ UpTake(a) \/ UpLoad(a) \/ UpSave(a) \/ UpRefused(a) \/ UpWinner(a)
           \/ UpCopy(a) \/ UpFault(a)
    PROVE  IInv'
<1>h. HostOf[a] \in Sides /\ HostOf[a] # Remote /\ SharedOf(a) \in Sides
  BY RunStateAssumption DEF SharedOf, Sides, Ids
<1>1. CASE UpTake(a)
  <2>a. pending[a] \in States /\ pending[a].attempt = a
    BY <1>1, StateFacts DEF UpTake, IInv, TypeOK, AInv, Owned
  <2>b. /\ Begin(a, Remote, pending[a]) \in Cas
        /\ Begin(a, Remote, pending[a]).pc \in {"load", "save"}
        /\ Begin(a, Remote, pending[a]).item = pending[a]
        /\ Begin(a, Remote, pending[a]).token = tok[a][Remote]
        /\ ~Lost(a, Remote, tok[a][Remote])
    BY <2>a, BeginFacts DEF Sides
  <2>c. up' \in [Attempts -> Cas] /\ pending' \in [Attempts -> Files]
    BY <1>1, <2>b DEF UpTake, IInv, TypeOK, Files
  <2>1. TypeOK'
    BY <1>1, <1>h, <2>a, <2>b, <2>c, StateFacts DEF UpTake, attemptVars, IInv, TypeOK, Finished, Ids, Sides, Stages, States
  <2>2. Owned(a)'
    BY <1>1, <1>h, <2>a, <2>b, <2>c, StateFacts DEF UpTake, attemptVars, IInv, TypeOK, AInv, Owned
  <2>3. Threads(a)'
    BY <1>1, RunStateAssumption, <2>a, <2>b, <2>c DEF UpTake, attemptVars, IInv, TypeOK, AInv, Threads
  <2>4. Decided(a)'
    BY <1>1, <1>h, <2>a, <2>b, <2>c DEF UpTake, attemptVars, IInv, TypeOK, AInv, Owned, Threads, Decided,
       Lost, finished_by_another, Finished
  <2>5. \A b \in Attempts \ {a} : AInv(b)'
    BY <1>1, Frame DEF UpTake, attemptVars, IInv, TypeOK
  <2>6. \A g \in Finishers : FinDecided(g)'
    BY <1>1 DEF UpTake, attemptVars, IInv, FinDecided, Finished
  <2> QED BY <2>1, <2>2, <2>3, <2>4, <2>5, <2>6 DEF IInv, AInv
<1>2. CASE UpLoad(a)
  <2>a. up[a] \in Cas /\ store[Remote] \in Files
    BY <1>h DEF IInv, TypeOK, Sides
  <2>b. /\ Idle \in Cas /\ Idle.pc = "idle" /\ up[a].item \in Files
    BY <2>a, CasFacts
  <2>c. /\ Loaded(up[a], store[Remote]) \in Cas
        /\ Loaded(up[a], store[Remote]).pc = "save" /\ Loaded(up[a], store[Remote]).item = up[a].item
        /\ Loaded(up[a], store[Remote]).token = store[Remote]
    BY <2>a, CasFacts
  <2>d. GoTo(up[a], "winner") \in Cas /\ GoTo(up[a], "winner").pc = "winner"
    BY <2>a, CasFacts
  <2>1. TypeOK'
    BY <1>2, <1>h, <2>a, <2>b, <2>c, <2>d, StateFacts DEF UpLoad, attemptVars, IInv, TypeOK, Finished, Ids, Sides, Stages, States
  <2>2. Owned(a)'
    BY <1>2, <1>h, <2>a, <2>b, <2>c, <2>d, StateFacts DEF UpLoad, attemptVars, IInv, TypeOK, AInv, Owned
  <2>3. Threads(a)'
    BY <1>2, RunStateAssumption, <2>a, <2>b, <2>c, <2>d DEF UpLoad, attemptVars, IInv, TypeOK, AInv, Threads
  <2>4. Decided(a)'
    BY <1>2, <1>h, <2>a, <2>b, <2>c, <2>d DEF UpLoad, attemptVars, IInv, TypeOK, AInv, Owned, Threads, Decided,
       Lost, finished_by_another, Finished
  <2>5. \A b \in Attempts \ {a} : AInv(b)'
    BY <1>2, Frame DEF UpLoad, attemptVars, IInv, TypeOK
  <2>6. \A g \in Finishers : FinDecided(g)'
    BY <1>2 DEF UpLoad, attemptVars, IInv, FinDecided, Finished
  <2> QED BY <2>1, <2>2, <2>3, <2>4, <2>5, <2>6 DEF IInv, AInv
<1>3. CASE UpSave(a)
  <2>a. up[a] \in Cas /\ store[Remote] \in Files
    BY <1>h DEF IInv, TypeOK, Sides
  <2>b. /\ Idle \in Cas /\ Idle.pc = "idle" /\ up[a].item \in Files
    BY <2>a, CasFacts
  <2>c. up[a].pc = "save" => up[a].item \in States /\ up[a].item.attempt = a
    BY <2>b, StateFacts DEF IInv, AInv, Owned
  <2>1. TypeOK'
    BY <1>3, <1>h, <2>a, <2>b, <2>c, StateFacts DEF UpSave, Write, Record, attemptVars, IInv, TypeOK, Finished, Ids, Sides, Stages, States
  <2>2. Owned(a)'
    BY <1>3, <1>h, <2>a, <2>b, <2>c, StateFacts DEF UpSave, Write, Record, attemptVars, IInv, TypeOK, AInv, Owned
  <2>3. Threads(a)'
    BY <1>3, RunStateAssumption, <2>a, <2>b, <2>c DEF UpSave, Write, Record, attemptVars, IInv, TypeOK, AInv, Threads
  <2>4. Decided(a)'
    BY <1>3, <1>h, <2>a, <2>b, <2>c DEF UpSave, Write, Record, attemptVars, IInv, TypeOK, AInv, Owned, Threads, Decided,
       Lost, finished_by_another, Finished
  <2>5. \A b \in Attempts \ {a} : AInv(b)'
    BY <1>3, Frame DEF UpSave, Write, Record, attemptVars, IInv, TypeOK
  <2>6. \A g \in Finishers : FinDecided(g)'
    BY <1>3 DEF UpSave, Write, Record, attemptVars, IInv, FinDecided, Finished
  <2> QED BY <2>1, <2>2, <2>3, <2>4, <2>5, <2>6 DEF IInv, AInv
<1>4. CASE UpRefused(a)
  <2>a. up[a] \in Cas /\ store[Remote] \in Files
    BY <1>h DEF IInv, TypeOK, Sides
  <2>b. /\ Idle \in Cas /\ Idle.pc = "idle" /\ up[a].item \in Files
    BY <2>a, CasFacts
  <2>c. Refused(up[a]) \in Cas /\ Refused(up[a]).pc = "load" /\ Refused(up[a]).item = up[a].item
    BY <2>a, CasFacts
  <2>1. TypeOK'
    BY <1>4, <1>h, <2>a, <2>b, <2>c, StateFacts DEF UpRefused, attemptVars, IInv, TypeOK, Finished, Ids, Sides, Stages, States
  <2>2. Owned(a)'
    BY <1>4, <1>h, <2>a, <2>b, <2>c, StateFacts DEF UpRefused, attemptVars, IInv, TypeOK, AInv, Owned
  <2>3. Threads(a)'
    BY <1>4, RunStateAssumption, <2>a, <2>b, <2>c DEF UpRefused, attemptVars, IInv, TypeOK, AInv, Threads
  <2>4. Decided(a)'
    BY <1>4, <1>h, <2>a, <2>b, <2>c DEF UpRefused, attemptVars, IInv, TypeOK, AInv, Owned, Threads, Decided,
       Lost, finished_by_another, Finished
  <2>5. \A b \in Attempts \ {a} : AInv(b)'
    BY <1>4, Frame DEF UpRefused, attemptVars, IInv, TypeOK
  <2>6. \A g \in Finishers : FinDecided(g)'
    BY <1>4 DEF UpRefused, attemptVars, IInv, FinDecided, Finished
  <2> QED BY <2>1, <2>2, <2>3, <2>4, <2>5, <2>6 DEF IInv, AInv
<1>5. CASE UpWinner(a)
  <2>a. up[a] \in Cas /\ store[Remote] \in Files
    BY <1>h DEF IInv, TypeOK, Sides
  <2>b. /\ Idle \in Cas /\ Idle.pc = "idle" /\ up[a].item \in Files
    BY <2>a, CasFacts
  <2>c. [pc |-> "copy", item |-> store[Remote], token |-> NoFile, round |-> 0] \in Cas
    BY <2>a, StateFacts DEF Cas, Files
  <2>1. TypeOK'
    BY <1>5, <1>h, <2>a, <2>b, <2>c, StateFacts DEF UpWinner, attemptVars, IInv, TypeOK, Finished, Ids, Sides, Stages, States
  <2>2. Owned(a)'
    BY <1>5, <1>h, <2>a, <2>b, <2>c, StateFacts DEF UpWinner, attemptVars, IInv, TypeOK, AInv, Owned
  <2>3. Threads(a)'
    BY <1>5, RunStateAssumption, <2>a, <2>b, <2>c DEF UpWinner, attemptVars, IInv, TypeOK, AInv, Threads
  <2>4. Decided(a)'
    BY <1>5, <1>h, <2>a, <2>b, <2>c DEF UpWinner, attemptVars, IInv, TypeOK, AInv, Owned, Threads, Decided,
       Lost, finished_by_another, Finished
  <2>5. \A b \in Attempts \ {a} : AInv(b)'
    BY <1>5, Frame DEF UpWinner, attemptVars, IInv, TypeOK
  <2>6. \A g \in Finishers : FinDecided(g)'
    BY <1>5 DEF UpWinner, attemptVars, IInv, FinDecided, Finished
  <2> QED BY <2>1, <2>2, <2>3, <2>4, <2>5, <2>6 DEF IInv, AInv
<1>6. CASE UpCopy(a)
  <2>a. up[a] \in Cas /\ store[Remote] \in Files
    BY <1>h DEF IInv, TypeOK, Sides
  <2>b. /\ Idle \in Cas /\ Idle.pc = "idle" /\ up[a].item \in Files
    BY <2>a, CasFacts
  <2>1. TypeOK'
    BY <1>6, <1>h, <2>a, <2>b, StateFacts DEF UpCopy, Write, attemptVars, IInv, TypeOK, Finished, Ids, Sides, Stages, States
  <2>2. Owned(a)'
    BY <1>6, <1>h, <2>a, <2>b, StateFacts DEF UpCopy, Write, attemptVars, IInv, TypeOK, AInv, Owned
  <2>3. Threads(a)'
    BY <1>6, RunStateAssumption, <2>a, <2>b DEF UpCopy, Write, attemptVars, IInv, TypeOK, AInv, Threads
  <2>4. Decided(a)'
    BY <1>6, <1>h, <2>a, <2>b DEF UpCopy, Write, attemptVars, IInv, TypeOK, AInv, Owned, Threads, Decided,
       Lost, finished_by_another, Finished
  <2>5. \A b \in Attempts \ {a} : AInv(b)'
    BY <1>6, Frame DEF UpCopy, Write, attemptVars, IInv, TypeOK
  <2>6. \A g \in Finishers : FinDecided(g)'
    BY <1>6 DEF UpCopy, Write, attemptVars, IInv, FinDecided, Finished
  <2> QED BY <2>1, <2>2, <2>3, <2>4, <2>5, <2>6 DEF IInv, AInv
<1>7. CASE UpFault(a)
  <2>a. up[a] \in Cas /\ store[Remote] \in Files
    BY <1>h DEF IInv, TypeOK, Sides
  <2>b. /\ Idle \in Cas /\ Idle.pc = "idle" /\ up[a].item \in Files
    BY <2>a, CasFacts
  <2>c. up[a].pc = "save" => up[a].item \in States /\ up[a].item.attempt = a
    BY <2>b, StateFacts DEF IInv, AInv, Owned
  <2>d. store' \in [Sides -> Files] /\ landed' \in SUBSET Ids
    BY <1>7, <1>h, <2>b, <2>c, StateFacts DEF UpFault, Write, Record, IInv, TypeOK, States, Finished, Sides
  <2>1. TypeOK'
    BY <1>7, <1>h, <2>a, <2>b, <2>c, <2>d, StateFacts DEF UpFault, attemptVars, IInv, TypeOK, Finished, Ids, Sides, Stages, States
  <2>2. Owned(a)'
    BY <1>7, <1>h, <2>a, <2>b, <2>c, <2>d, StateFacts DEF UpFault, Write, Record, attemptVars, IInv, TypeOK, AInv, Owned
  <2>3. Threads(a)'
    BY <1>7, RunStateAssumption, <2>a, <2>b, <2>c, <2>d DEF UpFault, Write, Record, attemptVars, IInv, TypeOK, AInv, Threads
  <2>4. Decided(a)'
    BY <1>7, <1>h, <2>a, <2>b, <2>c, <2>d DEF UpFault, Write, Record, attemptVars, IInv, TypeOK, AInv, Owned, Threads, Decided,
       Lost, finished_by_another, Finished
  <2>5. \A b \in Attempts \ {a} : AInv(b)'
    BY <1>7, Frame DEF UpFault, Write, Record, attemptVars, IInv, TypeOK
  <2>6. \A g \in Finishers : FinDecided(g)'
    BY <1>7 DEF UpFault, Write, Record, attemptVars, IInv, FinDecided, Finished
  <2> QED BY <2>1, <2>2, <2>3, <2>4, <2>5, <2>6 DEF IInv, AInv
<1> QED BY <1>1, <1>2, <1>3, <1>4, <1>5, <1>6, <1>7

\* A step of a finish_run call preserves the inductive invariant.
LEMMA FinisherStep ==
    ASSUME IInv, NEW f \in Finishers,
           \/ FinishRun(f) \/ FinLoad(f) \/ FinSave(f) \/ FinRefused(f) \/ FinCopy(f)
           \/ FinDie(f)
    PROVE  IInv'
<1>h. HostOf[f] \in Sides /\ HostOf[f] # Remote /\ SharedOf(f) \in Sides
  BY RunStateAssumption DEF SharedOf, Sides, Ids
<1>1. CASE FinishRun(f)
  <2>a. fin[f] \in Cas /\ store[SharedOf(f)] \in Files
    BY <1>h DEF IInv, TypeOK
  <2>b. /\ Idle \in Cas /\ Idle.pc = "idle" /\ fin[f].item \in Files
    BY <2>a, CasFacts
  <2>c. call[f].force \in {"no", "live", "all"}
    BY DEF IInv, TypeOK, Calls
  <2>d. GoTo(Idle, "load") \in Cas /\ GoTo(Idle, "load").pc = "load"
    BY <2>a, <2>b, CasFacts
  <2>e. fin' \in [Finishers -> Cas] /\ call' \in [Finishers -> Calls]
    <3>1. PICK force \in {"no", "live", "all"}, live \in BOOLEAN, s \in {LoadFile(f), NoFile} :
            IF Unfinishable(force, s, live)
            THEN /\ call' = [call EXCEPT ![f] = [at |-> "refused", force |-> force]]
                 /\ UNCHANGED fin
            ELSE /\ call' = [call EXCEPT ![f] = [at |-> "checked", force |-> force]]
                 /\ fin' = [fin EXCEPT ![f] = GoTo(Idle, "load")]
      BY <1>1 DEF FinishRun
    <3>2. \A at \in {"refused", "checked"} : [at |-> at, force |-> force] \in Calls
      BY DEF Calls
    <3> QED BY <2>d, <3>1, <3>2 DEF IInv, TypeOK
  <2>f. faults' \in Nat
    BY <1>1 DEF FinishRun, LoadRunState, IInv, TypeOK
  <2>1. TypeOK'
    BY <1>1, <1>h, <2>a, <2>b, <2>c, <2>d, <2>e, <2>f, StateFacts DEF FinishRun, attemptVars, IInv, TypeOK, Finished, Ids, Sides, Stages, States
  <2>2. FinDecided(f)'
    BY <1>1, <2>a, <2>b, <2>c, <2>d, <2>e, StateFacts DEF FinishRun, attemptVars, IInv, TypeOK, FinDecided, Unfinishable, Finished
  <2>3. \A g \in Finishers \ {f} : FinDecided(g)'
    BY <1>1 DEF FinishRun, IInv, TypeOK, FinDecided, Finished
  <2>4. \A b \in Attempts : AInv(b)'
    BY <1>1, Frame DEF FinishRun, attemptVars, IInv
  <2> QED BY <2>1, <2>2, <2>3, <2>4 DEF IInv
<1>2. CASE FinLoad(f)
  <2>a. fin[f] \in Cas /\ store[SharedOf(f)] \in Files
    BY <1>h DEF IInv, TypeOK
  <2>b. /\ Idle \in Cas /\ Idle.pc = "idle" /\ fin[f].item \in Files
    BY <2>a, CasFacts
  <2>c. call[f].force \in {"no", "live", "all"}
    BY DEF IInv, TypeOK, Calls
  <2>d. final_state(f, store[SharedOf(f)]) \in States
        /\ final_state(f, store[SharedOf(f)]).attempt = f
    BY <2>a, StateFacts DEF final_state, States, Ids
  <2>e. [pc |-> "save", item |-> final_state(f, store[SharedOf(f)]),
          token |-> store[SharedOf(f)], round |-> fin[f].round] \in Cas
    BY <2>a, <2>d, StateFacts DEF Cas
  <2>f. fin' \in [Finishers -> Cas] /\ call' \in [Finishers -> Calls]
    <3>1. \/ fin' = [fin EXCEPT ![f] = Idle] /\ call' = [call EXCEPT ![f] = Ended(f, "refused")]
          \/ /\ fin' = [fin EXCEPT ![f] =
                          [pc |-> "save", item |-> final_state(f, store[SharedOf(f)]),
                           token |-> store[SharedOf(f)], round |-> fin[f].round]]
             /\ UNCHANGED call
      BY <1>2 DEF FinLoad
    <3>2. \A at \in {"done", "refused", "dead"} : Ended(f, at) \in Calls
      BY <2>c DEF Ended, Calls
    <3> QED BY <2>b, <2>e, <3>1, <3>2 DEF IInv, TypeOK
  <2>1. TypeOK'
    BY <1>2, <1>h, <2>a, <2>b, <2>c, <2>d, <2>e, <2>f, StateFacts DEF FinLoad, Ended, attemptVars, IInv, TypeOK, Finished, Ids, Sides, Stages, States
  <2>2. FinDecided(f)'
    BY <1>2, <2>a, <2>b, <2>c, <2>d, <2>e, <2>f, StateFacts DEF FinLoad, Ended, attemptVars, IInv, TypeOK, FinDecided, Unfinishable, Finished
  <2>3. \A g \in Finishers \ {f} : FinDecided(g)'
    BY <1>2 DEF FinLoad, Ended, IInv, TypeOK, FinDecided, Finished
  <2>4. \A b \in Attempts : AInv(b)'
    BY <1>2, Frame DEF FinLoad, Ended, attemptVars, IInv
  <2> QED BY <2>1, <2>2, <2>3, <2>4 DEF IInv
<1>3. CASE FinSave(f)
  <2>a. fin[f] \in Cas /\ store[SharedOf(f)] \in Files
    BY <1>h DEF IInv, TypeOK
  <2>b. /\ Idle \in Cas /\ Idle.pc = "idle" /\ fin[f].item \in Files
    BY <2>a, CasFacts
  <2>c. call[f].force \in {"no", "live", "all"}
    BY DEF IInv, TypeOK, Calls
  <2>d. GoTo(fin[f], "copy") \in Cas /\ GoTo(fin[f], "copy").pc = "copy"
    BY <2>a, CasFacts
  <2>e. fin[f].pc = "save" => fin[f].item \in States /\ fin[f].item.attempt = f
    BY <2>b, StateFacts DEF IInv, FinDecided
  <2>f. fin' \in [Finishers -> Cas] /\ call' \in [Finishers -> Calls]
    <3>1. \/ fin' = [fin EXCEPT ![f] = GoTo(fin[f], "copy")] /\ UNCHANGED call
          \/ fin' = [fin EXCEPT ![f] = Idle] /\ call' = [call EXCEPT ![f] = Ended(f, "done")]
      BY <1>3 DEF FinSave
    <3>2. \A at \in {"done", "refused", "dead"} : Ended(f, at) \in Calls
      BY <2>c DEF Ended, Calls
    <3> QED BY <2>b, <2>d, <3>1, <3>2 DEF IInv, TypeOK
  <2>1. TypeOK'
    BY <1>3, <1>h, <2>a, <2>b, <2>c, <2>d, <2>e, <2>f, StateFacts DEF FinSave, Write, Record, Ended, attemptVars, IInv, TypeOK, Finished, Ids, Sides, Stages, States
  <2>2. FinDecided(f)'
    BY <1>3, <2>a, <2>b, <2>c, <2>d, <2>e, <2>f, StateFacts DEF FinSave, Write, Record, Ended, attemptVars, IInv, TypeOK, FinDecided, Unfinishable, Finished
  <2>3. \A g \in Finishers \ {f} : FinDecided(g)'
    BY <1>3 DEF FinSave, Write, Record, Ended, IInv, TypeOK, FinDecided, Finished
  <2>4. \A b \in Attempts : AInv(b)'
    BY <1>3, Frame DEF FinSave, Write, Record, Ended, attemptVars, IInv
  <2> QED BY <2>1, <2>2, <2>3, <2>4 DEF IInv
<1>4. CASE FinRefused(f)
  <2>a. fin[f] \in Cas /\ store[SharedOf(f)] \in Files
    BY <1>h DEF IInv, TypeOK
  <2>b. /\ Idle \in Cas /\ Idle.pc = "idle" /\ fin[f].item \in Files
    BY <2>a, CasFacts
  <2>c. call[f].force \in {"no", "live", "all"}
    BY DEF IInv, TypeOK, Calls
  <2>d. Refused(fin[f]) \in Cas /\ Refused(fin[f]).pc = "load"
    BY <2>a, CasFacts
  <2>e. fin' \in [Finishers -> Cas] /\ call' \in [Finishers -> Calls]
    <3>1. \/ fin' = [fin EXCEPT ![f] = Refused(fin[f])] /\ UNCHANGED call
          \/ fin' = [fin EXCEPT ![f] = Idle] /\ call' = [call EXCEPT ![f] = Ended(f, "dead")]
      BY <1>4 DEF FinRefused
    <3>2. \A at \in {"done", "refused", "dead"} : Ended(f, at) \in Calls
      BY <2>c DEF Ended, Calls
    <3> QED BY <2>b, <2>d, <3>1, <3>2 DEF IInv, TypeOK
  <2>1. TypeOK'
    BY <1>4, <1>h, <2>a, <2>b, <2>c, <2>d, <2>e, StateFacts DEF FinRefused, Ended, attemptVars, IInv, TypeOK, Finished, Ids, Sides, Stages, States
  <2>2. FinDecided(f)'
    BY <1>4, <2>a, <2>b, <2>c, <2>d, <2>e, StateFacts DEF FinRefused, Ended, attemptVars, IInv, TypeOK, FinDecided, Unfinishable, Finished
  <2>3. \A g \in Finishers \ {f} : FinDecided(g)'
    BY <1>4 DEF FinRefused, Ended, IInv, TypeOK, FinDecided, Finished
  <2>4. \A b \in Attempts : AInv(b)'
    BY <1>4, Frame DEF FinRefused, Ended, attemptVars, IInv
  <2> QED BY <2>1, <2>2, <2>3, <2>4 DEF IInv
<1>5. CASE FinCopy(f)
  <2>a. fin[f] \in Cas /\ store[SharedOf(f)] \in Files
    BY <1>h DEF IInv, TypeOK
  <2>b. /\ Idle \in Cas /\ Idle.pc = "idle" /\ fin[f].item \in Files
    BY <2>a, CasFacts
  <2>c. call[f].force \in {"no", "live", "all"}
    BY DEF IInv, TypeOK, Calls
  <2>d. fin' \in [Finishers -> Cas] /\ call' \in [Finishers -> Calls]
    BY <1>5, <2>a, <2>b, <2>c DEF FinCopy, Ended, IInv, TypeOK, Calls
  <2>1. TypeOK'
    BY <1>5, <1>h, <2>a, <2>b, <2>c, <2>d, StateFacts DEF FinCopy, Write, Ended, attemptVars, IInv, TypeOK, Finished, Ids, Sides, Stages, States
  <2>2. FinDecided(f)'
    BY <1>5, <2>a, <2>b, <2>c, <2>d, StateFacts DEF FinCopy, Write, Ended, attemptVars, IInv, TypeOK, FinDecided, Unfinishable, Finished
  <2>3. \A g \in Finishers \ {f} : FinDecided(g)'
    BY <1>5 DEF FinCopy, Write, Ended, IInv, TypeOK, FinDecided, Finished
  <2>4. \A b \in Attempts : AInv(b)'
    BY <1>5, Frame DEF FinCopy, Write, Ended, attemptVars, IInv
  <2> QED BY <2>1, <2>2, <2>3, <2>4 DEF IInv
<1>6. CASE FinDie(f)
  <2>a. fin[f] \in Cas /\ store[SharedOf(f)] \in Files
    BY <1>h DEF IInv, TypeOK
  <2>b. /\ Idle \in Cas /\ Idle.pc = "idle" /\ fin[f].item \in Files
    BY <2>a, CasFacts
  <2>c. call[f].force \in {"no", "live", "all"}
    BY DEF IInv, TypeOK, Calls
  <2>d. fin' \in [Finishers -> Cas] /\ call' \in [Finishers -> Calls]
    BY <1>6, <2>a, <2>b, <2>c DEF FinDie, Ended, IInv, TypeOK, Calls
  <2>1. TypeOK'
    BY <1>6, <1>h, <2>a, <2>b, <2>c, <2>d, StateFacts DEF FinDie, Ended, attemptVars, IInv, TypeOK, Finished, Ids, Sides, Stages, States
  <2>2. FinDecided(f)'
    BY <1>6, <2>a, <2>b, <2>c, <2>d, StateFacts DEF FinDie, Ended, attemptVars, IInv, TypeOK, FinDecided, Unfinishable, Finished
  <2>3. \A g \in Finishers \ {f} : FinDecided(g)'
    BY <1>6 DEF FinDie, Ended, IInv, TypeOK, FinDecided, Finished
  <2>4. \A b \in Attempts : AInv(b)'
    BY <1>6, Frame DEF FinDie, Ended, attemptVars, IInv
  <2> QED BY <2>1, <2>2, <2>3, <2>4 DEF IInv
<1> QED BY <1>1, <1>2, <1>3, <1>4, <1>5, <1>6

-----------------------------------------------------------------------------
\* Every step preserves the inductive invariant.
LEMMA NextIInv == IInv /\ [Next]_vars => IInv'
<1> SUFFICES ASSUME IInv, [Next]_vars PROVE IInv'
  OBVIOUS
<1>1. CASE Next
  BY <1>1, PublisherStep, UploaderStep, FinisherStep DEF Next
<1>2. CASE UNCHANGED vars
  <2>1. TypeOK'
    BY <1>2 DEF vars, attemptVars, IInv, TypeOK
  <2>2. \A a \in Attempts : AInv(a)'
    BY <1>2, Frame DEF vars, attemptVars, IInv
  <2>3. \A f \in Finishers : FinDecided(f)'
    BY <1>2 DEF vars, IInv, FinDecided, Finished
  <2> QED BY <2>1, <2>2, <2>3 DEF IInv
<1> QED BY <1>1, <1>2

\* The threads of RunState only ever hold what the code gives them to hold, and
\* every conditional write rests on a valid decision.
THEOREM Invariance == Spec => []IInv
<1>1. Init => IInv
  BY InitIInv
<1>2. IInv /\ [Next]_vars => IInv'
  BY NextIInv
<1> QED BY <1>1, <1>2, PTL DEF Spec

\* Type correctness of the shared files and of every thread's state.
THEOREM TypeCorrect == Spec => []TypeOK
<1>1. IInv => TypeOK
  BY DEF IInv
<1> QED BY <1>1, Invariance, PTL

(***************************************************************************)
(* The ending that stands.                                                 *)
(***************************************************************************)
\* A write that its token admits on the shared side replaces an ending only if
\* its writer may.
LEMMA SavedOver ==
    ASSUME IInv, NEW a \in Attempts, NEW s \in Sides, NEW c \in Cas,
           c.item # NoFile, c.item.attempt = a, c.token = store[s],
           ~Lost(a, s, c.token), store' = [store EXCEPT ![s] = c.item]
    PROVE  EndingKeptBy(s)
BY DEF EndingKeptBy, MayReplace, Lost, finished_by_another, IInv, TypeOK

\* No step of any process erases an ending that stands on the shared side.
LEMMA KeptStep ==
    ASSUME IInv, Next, NEW i \in Ids
    PROVE  EndingKeptBy(SharedOf(i))
<1> DEFINE s == SharedOf(i)
<1>0. store'[s] = store[s] => EndingKeptBy(s)
  BY DEF EndingKeptBy
<1>h. \A j \in Ids : HostOf[j] \in Sides /\ HostOf[j] # Remote /\ SharedOf(j) = s
  BY RunStateAssumption DEF SharedOf, Sides, Ids
<1>s. s \in Sides
  BY RunStateAssumption DEF SharedOf, Sides, Ids
<1>t. store \in [Sides -> Files]
  BY DEF IInv, TypeOK
<1> HIDE DEF s
<1>1. ASSUME NEW a \in Attempts, MainSave(a) PROVE EndingKeptBy(s)
  <2>1. CASE s = HostOf[a]
    <3>1. main[a] \in Cas /\ ~Lost(a, s, main[a].token)
      BY <1>1, <2>1 DEF MainSave, IInv, TypeOK, AInv, Decided
    <3>2. main[a].item # NoFile /\ main[a].item.attempt = a /\ main[a].token = store[s]
          /\ store' = [store EXCEPT ![s] = main[a].item]
      BY <1>1, <2>1 DEF MainSave, Write, IInv, AInv, Owned
    <3> QED BY <1>s, <3>1, <3>2, SavedOver
  <2>2. CASE s # HostOf[a]
    BY <1>1, <1>0, <1>s, <1>t, <2>2 DEF MainSave, Write
  <2> QED BY <2>1, <2>2
<1>2. ASSUME NEW a \in Attempts, up[a].pc = "save", store[Remote] = up[a].token,
             Write(Remote, up[a].item)
      PROVE  EndingKeptBy(s)
  <2>1. CASE s = Remote
    <3>1. up[a] \in Cas /\ ~Lost(a, s, up[a].token)
      BY <1>2, <2>1 DEF IInv, TypeOK, AInv, Decided
    <3>2. up[a].item # NoFile /\ up[a].item.attempt = a /\ up[a].token = store[s]
          /\ store' = [store EXCEPT ![s] = up[a].item]
      BY <1>2, <2>1 DEF Write, IInv, AInv, Owned
    <3> QED BY <1>s, <3>1, <3>2, SavedOver
  <2>2. CASE s # Remote
    BY <1>2, <1>0, <1>s, <1>t, <2>2 DEF Write
  <2> QED BY <2>1, <2>2
<1>3. ASSUME NEW a \in Attempts, UpCopy(a) PROVE EndingKeptBy(s)
  <2>1. HasRemote
    BY <1>3 DEF UpCopy, IInv, AInv, Threads, Idle
  <2>2. a \in Ids /\ s = Remote /\ s # HostOf[a]
    BY <1>h, <2>1 DEF SharedOf, Ids
  <2> QED BY <1>3, <1>0, <1>s, <1>t, <2>2 DEF UpCopy, Write
<1>4. ASSUME NEW f \in Finishers, FinSave(f) PROVE EndingKeptBy(s)
  <2>1. SharedOf(f) = s
    BY <1>h DEF Ids
  <2>2. /\ fin[f].item # NoFile /\ fin[f].item.attempt = f
        /\ fin[f].token = store[s] /\ store' = [store EXCEPT ![s] = fin[f].item]
        /\ Finished(store[s]) => call[f].force = "all"
    BY <1>4, <2>1 DEF FinSave, Write, IInv, FinDecided
  <2> QED BY <1>s, <1>t, <2>2 DEF EndingKeptBy, MayReplace
<1>5. ASSUME NEW f \in Finishers, FinCopy(f) PROVE EndingKeptBy(s)
  <2>1. HasRemote
    BY <1>5 DEF FinCopy, IInv, FinDecided
  <2>2. f \in Ids /\ s = Remote /\ s # HostOf[f]
    BY <1>h, <2>1 DEF SharedOf, Ids
  <2> QED BY <1>5, <1>0, <1>s, <1>t, <2>2 DEF FinCopy, Write
<1>6. ASSUME NEW a \in Attempts, UpSave(a) PROVE EndingKeptBy(s)
  BY <1>2, <1>6 DEF UpSave
<1>7. ASSUME NEW a \in Attempts, UpFault(a) PROVE EndingKeptBy(s)
  <2>1. CASE store' = store
    BY <1>0, <2>1
  <2>2. CASE up[a].pc = "save" /\ store[Remote] = up[a].token /\ Write(Remote, up[a].item)
    BY <1>2, <2>2
  <2> QED BY <1>7, <2>1, <2>2 DEF UpFault
<1>8. ASSUME NEW a \in Attempts,
             \/ StartRun(a) \/ RefuseReopen(a) \/ Open(a) \/ Beat(a) \/ Close(a)
             \/ Detach(a) \/ MainLoad(a) \/ MainRefused(a) \/ Return(a) \/ Die(a)
             \/ UpTake(a) \/ UpLoad(a) \/ UpRefused(a) \/ UpWinner(a)
      PROVE  store' = store
  BY <1>8 DEF StartRun, RefuseReopen, Open, Beat, Close, Detach, MainLoad, MainRefused,
              Return, Die, UpTake, UpLoad, UpRefused, UpWinner
<1>9. ASSUME NEW f \in Finishers, FinishRun(f) \/ FinLoad(f) \/ FinRefused(f) \/ FinDie(f)
      PROVE  store' = store
  BY <1>9 DEF FinishRun, FinLoad, FinRefused, FinDie
<1> QED
  <2>1. EndingKeptBy(s)
    BY <1>0, <1>1, <1>3, <1>4, <1>5, <1>6, <1>7, <1>8, <1>9 DEF Next
  <2> QED BY <2>1 DEF s

\* For any number of attempts, finish_run calls and hosts, with or without a
\* remote, under any interleaving, crash and lost answer: the winner's exit code
\* is erased only by an attempt that reopened it or a finish_run with force=True.
THEOREM EndingIsKept == Spec => EndingKept
<1>1. IInv /\ [Next]_vars => [\A i \in Ids : EndingKeptBy(SharedOf(i))]_vars
  BY KeptStep
<1> QED BY <1>1, Invariance, PTL DEF Spec, EndingKept

-----------------------------------------------------------------------------
(***************************************************************************)
(* For every set of attempts, finish_run calls and hosts: an attempt's     *)
(* ending travels from its thread to its upload worker to the shared side  *)
(* and is in one place at a time.  From this follow that the publishers,   *)
(* workers and finish_run calls implement RunEnding, that finish() tells   *)
(* the truth, and that a host's copy shows only endings that are real.     *)
(***************************************************************************)

(***************************************************************************)
(* The inductive invariant of endings.                                     *)
(***************************************************************************)

\* Where an attempt's ending may be on its way.
InMain(a)    == main[a].pc \in {"load", "save"} /\ Finished(main[a].item)
InPending(a) == Finished(pending[a])
InUp(a)      == up[a].pc \in {"load", "save"} /\ Finished(up[a].item)

\* The stages after an attempt's outcome is published.
Done == {"draining", "won", "lost", "late", "dead"}

\* What each stage of an attempt's life allows: the state it publishes is
\* "running" until it closes, and nothing is published after that.
Life(a) ==
    /\ pc[a] = "new" => prior[a] = NoFile /\ mine[a] = NoFile
    /\ pc[a] = "refused" => main[a].pc = "idle" /\ up[a].pc = "idle" /\ pending[a] = NoFile
                            /\ mine[a] = NoFile
    /\ pc[a] \in {"opening", "running"} => mine[a].st = "running"
    /\ pc[a] = "closing" => main[a].pc # "idle"
    /\ main[a].pc # "idle" =>
          HasLocal /\ main[a].item = mine[a] /\ pc[a] \in {"opening", "running", "closing"}
    /\ pc[a] = "won" => Drained(a) /\ ~superseded[a]
    /\ pc[a] = "lost" => superseded[a]

\* The ending is in one place at a time; once it is on the shared side nothing
\* of the attempt is on its way any more.
OnePlace(a) ==
    /\ InPending(a) => pc[a] \in Done
    /\ InUp(a) => pc[a] \in Done /\ pending[a] = NoFile
    /\ a \in landed => pc[a] \in Done /\ pending[a] = NoFile /\ up[a].pc = "idle"

\* An attempt that closed with an ending still has it on its way, unless it
\* landed, a call failed, or another attempt's came first.
NotForgotten(a) ==
    pc[a] \in {"draining", "won", "late"} /\ Finished(mine[a]) /\ a \notin failed
       /\ ~superseded[a]
    => InPending(a) \/ InUp(a) \/ a \in landed

\* A state that an upload worker copies from the remote, and what superseded an
\* attempt, are real.
Beaten(a) ==
    superseded[a] =>
       \/ landed \ {a} # {}
       \/ \E b \in Attempts \ {a} : HostOf[b] = HostOf[a] /\ Finished(mine[b])

CopyReal(a) == up[a].pc = "copy" /\ Finished(up[a].item) => up[a].item.attempt \in landed

\* An ending on the shared side has landed.  One on a host's own copy has, or is
\* the ending of an attempt there that is not through with it.
SharedReal == \A i \in Ids : Finished(store[SharedOf(i)]) => store[SharedOf(i)].attempt \in landed

Unsettled(b) ==
    \/ InPending(b) \/ InUp(b) \/ up[b].pc \in {"winner", "copy"}
    \/ b \in failed \/ pc[b] = "dead"

LocalReal(h) ==
    Finished(store[h]) =>
       \/ store[h].attempt \in landed
       \/ /\ HasLocal /\ store[h].attempt \in Attempts /\ HostOf[store[h].attempt] = h
          /\ Finished(mine[store[h].attempt]) /\ Unsettled(store[h].attempt)

\* A finish_run call writes its ending once.
CallOnce(f) ==
    /\ call[f].at = "new" => call[f].force = "no"
    /\ call[f].at = "new" \/ fin[f].pc \in {"load", "save"} => f \notin landed
    /\ fin[f].pc = "save" => Finished(fin[f].item)
    /\ fin[f].pc = "copy" => fin[f].item # NoFile /\ fin[f].item.attempt \in landed

EInv(a) == Life(a) /\ OnePlace(a) /\ NotForgotten(a)

RInv == /\ \A a \in Attempts : EInv(a)
        /\ \A a \in Attempts : Beaten(a) /\ CopyReal(a)
        /\ SharedReal
        /\ \A h \in Hosts : LocalReal(h)
        /\ \A f \in Finishers : CallOnce(f)

-----------------------------------------------------------------------------
(***************************************************************************)
(* The steps of an attempt, for the attempt itself.                        *)
(***************************************************************************)
\* A step that leaves everything of an attempt alone preserves what the
\* invariant says of it alone.
LEMMA EFrame ==
    ASSUME NEW b \in Attempts, EInv(b),
           UNCHANGED <<pc[b], prior[b], mine[b], superseded[b], pending[b], main[b], up[b]>>,
           b \in landed' <=> b \in landed, b \in failed' <=> b \in failed
    PROVE  EInv(b)'
BY DEF EInv, Life, OnePlace, NotForgotten, InPending, InUp, Drained, Finished

\* The parts of the invariants that speak of one attempt, with its types.
Own(a) ==
    /\ pc[a] \in Stages /\ prior[a] \in Files /\ mine[a] \in Files /\ pending[a] \in Files
    /\ superseded[a] \in BOOLEAN /\ main[a] \in Cas /\ up[a] \in Cas
    /\ AInv(a) /\ EInv(a)

\* They hold of every attempt.
LEMMA OwnFacts ==
    ASSUME IInv, RInv, NEW a \in Attempts
    PROVE  Own(a)
BY DEF IInv, RInv, TypeOK, Own

\* The publishing thread of an attempt before it closes.
LEMMA StartKeeps ==
    ASSUME IInv, RInv, NEW a \in Attempts, StartRun(a) \/ RefuseReopen(a)
    PROVE  EInv(a)'
<1>1. Own(a) BY OwnFacts
<1>2. pc[a] = "new" /\ main[a].pc = "idle" /\ up[a].pc = "idle" /\ pending[a] = NoFile
  BY <1>1 DEF StartRun, RefuseReopen, ReadPrior, Own, AInv, Threads, Idle
<1>3. UNCHANGED <<main, up, pending, landed, failed, superseded>>
  BY DEF StartRun, RefuseReopen
<1>4. CASE StartRun(a)
  <2>1. pc'[a] = "opening" /\ mine'[a].st = "running"
    BY <1>4 DEF StartRun, IInv, TypeOK
  <2> QED BY <1>1, <1>2, <1>3, <2>1 DEF Own, EInv, Life, OnePlace, NotForgotten, InPending, InUp, Drained, Finished, Done
<1>5. CASE RefuseReopen(a)
  <2>1. pc'[a] = "refused" /\ mine'[a] = mine[a]
    BY <1>5 DEF RefuseReopen, IInv, TypeOK
  <2> QED BY <1>1, <1>2, <1>3, <2>1 DEF Own, EInv, Life, OnePlace, NotForgotten, InPending, InUp, Drained, Finished, Done
<1> QED BY <1>4, <1>5

\* Its publications: the first one, a heartbeat, the outcome.
LEMMA PublishKeeps ==
    ASSUME IInv, RInv, NEW a \in Attempts, Open(a) \/ Beat(a) \/ Close(a)
    PROVE  EInv(a)'
<1>1. Own(a) BY OwnFacts
<1>2. /\ pc[a] \in {"opening", "running"} /\ main[a].pc = "idle"
      /\ UNCHANGED <<up, landed, failed, superseded, prior>>
      /\ mine[a] \in States
  BY <1>1, StateFacts DEF Open, Beat, Close, Idle, Own, AInv, Owned
<1>3. \E at \in {"opening", "running", "closing"}, s \in States :
         Publish(a, s, at) /\ (at # "closing" => s.st = "running")
  <2>1. CASE Open(a) BY <1>1, <1>2, <2>1 DEF Open, Own, EInv, Life
  <2>2. CASE Beat(a)
    <3>1. [mine[a] EXCEPT !.seq = @ + 1] \in States /\ [mine[a] EXCEPT !.seq = @ + 1].st = mine[a].st
      BY <1>2 DEF States
    <3> QED BY <1>1, <1>2, <2>2, <3>1 DEF Beat, Own, EInv, Life
  <2>3. CASE Close(a)
    <3>1. PICK o \in {"finished", "released"} : Publish(a, [mine[a] EXCEPT !.st = o], "closing")
      BY <2>3 DEF Close
    <3> QED BY <1>2, <3>1, Later
  <2> QED BY <2>1, <2>2, <2>3
<1>4. PICK at \in {"opening", "running", "closing"}, s \in States :
         Publish(a, s, at) /\ (at # "closing" => s.st = "running")
  BY <1>3
<1>5. mine'[a] = s BY <1>4 DEF Publish, IInv, TypeOK
<1>6. a \notin landed /\ ~InPending(a) /\ ~InUp(a)
  BY <1>1, <1>2 DEF Own, EInv, OnePlace, Done
<1>7. CASE HasLocal
  <2>1. main'[a] = Begin(a, HostOf[a], s) /\ pc'[a] = at /\ pending' = pending
    BY <1>4, <1>7 DEF Publish, IInv, TypeOK
  <2>2. main'[a].pc # "idle" /\ main'[a].item = s
    BY <2>1 DEF Begin
  <2> QED BY <1>1, <1>2, <1>4, <1>5, <1>6, <1>7, <2>1, <2>2
          DEF Own, EInv, Life, OnePlace, NotForgotten, InPending, InUp, Drained, Finished, Done
<1>8. CASE ~HasLocal
  <2>1. main' = main /\ pc'[a] = After(at) /\ pending'[a] = s
    BY <1>4, <1>8 DEF Publish, IInv, TypeOK
  <2>2. /\ at = "closing" => pc'[a] = "draining"
        /\ at # "closing" => pc'[a] = "running"
    BY <2>1 DEF After
  <2>3. InUp(a)' = InUp(a) BY <1>2 DEF InUp, Finished
  <2>4. s # NoFile BY StateFacts
  <2>5. Life(a)' BY <1>1, <1>2, <1>4, <1>5, <2>1, <2>2 DEF Own, EInv, Life
  <2>6. OnePlace(a)' BY <1>2, <1>4, <1>6, <2>1, <2>2, <2>3 DEF OnePlace, InPending, Finished, Done
  <2>7. NotForgotten(a)' BY <1>5, <2>1, <2>2, <2>4 DEF NotForgotten, InPending, Finished
  <2> QED BY <2>5, <2>6, <2>7 DEF EInv
<1> QED BY <1>7, <1>8

\* The compare-and-swap of its thread: what it saves goes to the upload slot,
\* or, without a remote, has landed.
LEMMA MainKeeps ==
    ASSUME IInv, RInv, NEW a \in Attempts, MainLoad(a) \/ MainSave(a) \/ MainRefused(a)
    PROVE  EInv(a)'
<1>1. Own(a) BY OwnFacts
<1>2. /\ main[a].pc \in {"load", "save"} /\ main[a].pc # "idle"
      /\ UNCHANGED <<up, prior, mine>>
  BY DEF MainLoad, MainSave, MainRefused
<1>3. /\ HasLocal /\ main[a].item = mine[a] /\ mine[a] # NoFile /\ mine[a].attempt = a
      /\ pc[a] \in {"opening", "running", "closing"}
  BY <1>1, <1>2 DEF Own, EInv, Life, AInv, Owned
<1>4. a \notin landed /\ ~InPending(a) /\ ~InUp(a) /\ InUp(a)' = InUp(a)
  BY <1>1, <1>2, <1>3 DEF Own, EInv, OnePlace, Done, InUp, Finished
<1>5. /\ Idle.pc = "idle"
      /\ \A s \in Files : /\ Loaded(main[a], s).pc # "idle"
                          /\ Loaded(main[a], s).item = main[a].item
      /\ Refused(main[a]).pc # "idle" /\ Refused(main[a]).item = main[a].item
  BY <1>1, CasFacts DEF Own
<1>6. ASSUME main'[a] = Idle, AfterPublish(a, FALSE) \/ AfterPublish(a, TRUE)
      PROVE  /\ pc'[a] \in {"running", "draining", "dead"}
             /\ pc'[a] \in {"opening", "running"} => mine[a].st = "running"
             /\ pc'[a] = "draining" => pc[a] = "closing"
             /\ pc'[a] # "draining" => mine[a].st = "running"
  BY <1>1, <1>3, <1>6 DEF AfterPublish, After, IInv, TypeOK, Own, EInv, Life
<1>7. CASE MainLoad(a)
  <2>0. UNCHANGED <<pending, landed, failed>> BY <1>7 DEF MainLoad
  <2>1. CASE Lost(a, HostOf[a], store[HostOf[a]])
    <3>1. main'[a] = Idle /\ AfterPublish(a, FALSE) /\ superseded'[a]
      BY <1>7, <2>1 DEF MainLoad, IInv, TypeOK
    <3> QED BY <1>2, <1>3, <1>4, <1>5, <1>6, <2>0, <3>1
            DEF EInv, Life, OnePlace, NotForgotten, InPending, Finished, Done
  <2>2. CASE ~Lost(a, HostOf[a], store[HostOf[a]])
    <3>1. /\ main'[a] = Loaded(main[a], store[HostOf[a]])
          /\ UNCHANGED <<superseded, pc>>
      BY <1>7, <2>2 DEF MainLoad, IInv, TypeOK
    <3>2. store[HostOf[a]] \in Files
      BY RunStateAssumption DEF IInv, TypeOK, Sides, Ids
    <3>3. main'[a].pc # "idle" /\ main'[a].item = main[a].item BY <1>5, <3>1, <3>2
    <3> QED BY <1>1, <1>2, <1>3, <1>4, <2>0, <3>1, <3>3
            DEF Own, EInv, Life, OnePlace, NotForgotten, InPending, Finished, Done
  <2> QED BY <2>1, <2>2
<1>8. CASE MainSave(a)
  <2>1. /\ main'[a] = Idle /\ AfterPublish(a, FALSE)
        /\ HasRemote => pending'[a] = mine[a]
        /\ ~HasRemote => pending'[a] = pending[a]
        /\ UNCHANGED <<superseded, failed>>
    BY <1>3, <1>8 DEF MainSave, IInv, TypeOK
  <2>2. /\ a \in landed' <=> ~HasRemote /\ Finished(mine[a])
    BY <1>3, <1>4, <1>8, RunStateAssumption DEF MainSave, Record, SharedOf, Ids
  <2>3. ~HasRemote => pending[a] = NoFile /\ up[a].pc = "idle"
    BY <1>1 DEF Own, AInv, Threads, Idle
  <2>4. Life(a)'
    BY <1>3, <1>2, <1>5, <1>6, <2>1 DEF Life
  <2>5. OnePlace(a)'
    BY <1>2, <1>4, <1>6, <2>1, <2>2, <2>3 DEF OnePlace, InPending, Finished, Done
  <2>6. NotForgotten(a)'
    BY <1>2, <1>6, <2>1, <2>2 DEF NotForgotten, InPending, Finished
  <2> QED BY <2>4, <2>5, <2>6 DEF EInv
<1>9. CASE MainRefused(a)
  <2>0. UNCHANGED <<pending, landed, superseded>> BY <1>9 DEF MainRefused
  <2>1. CASE Contended(main[a])
    <3>1. main'[a] = Idle /\ AfterPublish(a, TRUE) /\ a \in failed'
      BY <1>9, <2>1 DEF MainRefused, IInv, TypeOK
    <3> QED BY <1>2, <1>3, <1>4, <1>5, <1>6, <2>0, <3>1
            DEF EInv, Life, OnePlace, NotForgotten, InPending, Finished, Done
  <2>2. CASE ~Contended(main[a])
    <3>1. main'[a] = Refused(main[a]) /\ UNCHANGED <<failed, pc>>
      BY <1>9, <2>2 DEF MainRefused, IInv, TypeOK
    <3> QED BY <1>1, <1>2, <1>3, <1>4, <1>5, <2>0, <3>1
            DEF Own, EInv, Life, OnePlace, NotForgotten, InPending, Finished, Done
  <2> QED BY <2>1, <2>2
<1> QED BY <1>7, <1>8, <1>9

\* A detached attempt had no ending; finish() or release() returns; a process
\* is killed with what it had queued.
LEMMA LeaveKeeps ==
    ASSUME IInv, RInv, NEW a \in Attempts, Detach(a) \/ Return(a) \/ Die(a)
    PROVE  EInv(a)'
<1>1. Own(a) BY OwnFacts
<1>2. Idle.pc = "idle" BY DEF Idle
<1>3. CASE Detach(a)
  <2>1. /\ pc[a] = "running" /\ pc'[a] = "detached" /\ pending'[a] = NoFile /\ main[a].pc = "idle"
        /\ UNCHANGED <<prior, mine, superseded, main, up, failed, landed>>
    BY <1>2, <1>3 DEF Detach, IInv, TypeOK
  <2> QED BY <1>1, <2>1 DEF Own, EInv, Life, OnePlace, NotForgotten, InPending, InUp, Finished, Done
<1>4. CASE Return(a)
  <2>1. /\ pc[a] = "draining"
        /\ pc'[a] = IF superseded[a] THEN "lost" ELSE IF Drained(a) THEN "won" ELSE "late"
        /\ UNCHANGED <<prior, mine, superseded, main, up, pending, failed, landed>>
    BY <1>4 DEF Return, IInv, TypeOK
  <2> QED BY <1>1, <2>1
          DEF Own, EInv, Life, OnePlace, NotForgotten, InPending, InUp, Drained, Finished, Done
<1>5. CASE Die(a)
  <2>1. /\ pc'[a] = "dead" /\ pending'[a] = NoFile /\ main'[a] = Idle /\ up'[a] = Idle
        /\ UNCHANGED <<prior, mine, superseded, failed, landed>>
    BY <1>5 DEF Die, IInv, TypeOK
  <2> QED BY <1>1, <1>2, <2>1
          DEF Own, EInv, Life, OnePlace, NotForgotten, InPending, InUp, Drained, Finished, Done
<1> QED BY <1>3, <1>4, <1>5

\* The upload worker takes what is pending.
LEMMA TakeKeeps ==
    ASSUME IInv, RInv, NEW a \in Attempts, UpTake(a)
    PROVE  EInv(a)'
<1>1. Own(a) BY OwnFacts
<1>2. /\ up[a] = Idle /\ up[a].pc = "idle" /\ pending[a] # NoFile /\ pending'[a] = NoFile
      /\ UNCHANGED <<pc, prior, mine, superseded, main, failed, landed>>
  BY DEF UpTake, Idle, attemptVars, IInv, TypeOK
<1>3. a \notin landed /\ pc[a] # "won" /\ pc[a] # "refused"
  BY <1>1, <1>2 DEF Own, EInv, OnePlace, Life, Drained
<1>4. CASE superseded[a] /\ ~Final(pending[a])
  <2>1. up' = up /\ ~InPending(a)
    BY <1>4 DEF UpTake, InPending, Finished, Final
  <2> QED BY <1>1, <1>2, <1>3, <1>4, <2>1
          DEF Own, EInv, Life, OnePlace, NotForgotten, InPending, InUp, Finished, Done
<1>5. CASE ~(superseded[a] /\ ~Final(pending[a]))
  <2>1. up'[a] = Begin(a, Remote, pending[a])
    BY <1>5 DEF UpTake, IInv, TypeOK
  <2>2. up'[a].item = pending[a] /\ up'[a].pc \in {"load", "save"}
    BY <2>1 DEF Begin
  <2> QED BY <1>1, <1>2, <1>3, <2>2
          DEF Own, EInv, Life, OnePlace, NotForgotten, InPending, InUp, Finished, Done
<1> QED BY <1>4, <1>5

\* Its compare-and-swap on the remote, its failures, and the copy of the winner.
LEMMA UpKeeps ==
    ASSUME IInv, RInv, NEW a \in Attempts,
           \/ UpLoad(a) \/ UpSave(a) \/ UpRefused(a) \/ UpWinner(a) \/ UpCopy(a) \/ UpFault(a)
    PROVE  EInv(a)'
<1>1. Own(a) BY OwnFacts
<1>2. /\ up[a].pc \in {"load", "save", "winner", "copy"}
      /\ UNCHANGED <<pc, prior, mine, pending, main>>
  BY DEF UpLoad, UpSave, UpRefused, UpWinner, UpCopy, UpFault, attemptVars
<1>3. HasRemote /\ a \notin landed /\ pc[a] # "won" /\ pc[a] # "refused"
  BY <1>1, <1>2 DEF Own, EInv, OnePlace, Life, Drained, AInv, Threads, Idle
<1>4. /\ Idle.pc = "idle"
      /\ \A s \in Files : /\ Loaded(up[a], s).pc = "save"
                          /\ Loaded(up[a], s).item = up[a].item
      /\ Refused(up[a]).pc = "load" /\ Refused(up[a]).item = up[a].item
      /\ GoTo(up[a], "winner").pc = "winner"
  BY <1>1, CasFacts DEF Own
<1>5. ASSUME \/ a \in landed' /\ InUp(a)
             \/ a \notin landed' /\ (a \in failed' \/ superseded'[a] \/ ~InUp(a)),
             up'[a].pc \in {"idle", "winner", "copy"}, a \in landed' => up'[a].pc = "idle",
             failed \subseteq failed', superseded[a] => superseded'[a],
             superseded'[a] \in BOOLEAN
      PROVE  EInv(a)'
  <2>1. ~InUp(a)' BY <1>5 DEF InUp
  <2>2. Life(a)' BY <1>1, <1>2, <1>3, <1>5 DEF Own, EInv, Life
  <2>3. OnePlace(a)' BY <1>1, <1>2, <1>5, <2>1 DEF Own, EInv, OnePlace, InPending, Finished
  <2>4. NotForgotten(a)' BY <1>1, <1>2, <1>3, <1>5, <2>1 DEF Own, EInv, NotForgotten, InPending, Finished
  <2> QED BY <2>2, <2>3, <2>4 DEF EInv
<1>6. ASSUME UNCHANGED <<superseded, failed, landed>>, up'[a].pc \in {"load", "save"},
             up'[a].item = up[a].item, up[a].pc \in {"load", "save"}
      PROVE  EInv(a)'
  BY <1>1, <1>2, <1>3, <1>6
     DEF Own, EInv, Life, OnePlace, NotForgotten, InPending, InUp, Finished, Done
<1>7. ASSUME up[a].pc = "save", Record(a, Remote, up[a].item)
      PROVE  a \in landed' <=> InUp(a)
  <2>1. up[a].item # NoFile /\ up[a].item.attempt = a
    BY <1>1, <1>7 DEF Own, AInv, Owned
  <2>2. SharedOf(a) = Remote BY <1>3 DEF SharedOf
  <2> QED BY <1>3, <1>7, <2>1, <2>2 DEF Record, InUp
<1>8. CASE UpLoad(a)
  <2>0. UNCHANGED <<failed, landed>> /\ up[a].pc = "load" BY <1>8 DEF UpLoad
  <2>1. CASE Lost(a, Remote, store[Remote])
    <3>1. superseded'[a] = TRUE /\ up'[a] \in {GoTo(up[a], "winner"), Idle}
      BY <1>8, <2>1 DEF UpLoad, IInv, TypeOK
    <3> QED BY <1>3, <1>4, <1>5, <2>0, <3>1
  <2>2. CASE ~Lost(a, Remote, store[Remote])
    <3>1. up'[a] = Loaded(up[a], store[Remote]) /\ superseded' = superseded
      BY <1>8, <2>2 DEF UpLoad, IInv, TypeOK
    <3>2. store[Remote] \in Files BY DEF IInv, TypeOK, Sides
    <3> QED BY <1>4, <1>6, <2>0, <3>1, <3>2
  <2> QED BY <2>1, <2>2
<1>9. CASE UpSave(a)
  <2>1. /\ up[a].pc = "save" /\ Record(a, Remote, up[a].item) /\ up'[a] = Idle
        /\ UNCHANGED <<superseded, failed>>
    BY <1>9 DEF UpSave, IInv, TypeOK
  <2> QED BY <1>1, <1>4, <1>5, <1>7, <2>1 DEF Own
<1>10. CASE UpRefused(a)
  <2>1. CASE Contended(up[a])
    <3>1. up'[a] = Idle /\ a \in failed' /\ failed \subseteq failed' /\ UNCHANGED <<landed, superseded>>
      BY <1>10, <2>1 DEF UpRefused, IInv, TypeOK, attemptVars
    <3> QED BY <1>1, <1>3, <1>4, <1>5, <3>1 DEF Own
  <2>2. CASE ~Contended(up[a])
    <3>1. /\ up'[a] = Refused(up[a]) /\ up[a].pc = "save"
          /\ UNCHANGED <<landed, superseded, failed>>
      BY <1>10, <2>2 DEF UpRefused, IInv, TypeOK, attemptVars
    <3> QED BY <1>4, <1>6, <3>1
  <2> QED BY <2>1, <2>2
<1>11. CASE UpWinner(a) \/ UpCopy(a)
  <2>1. /\ up[a].pc \in {"winner", "copy"} /\ up'[a].pc \in {"copy", "idle"}
        /\ UNCHANGED <<landed, superseded, failed>>
    BY <1>11 DEF UpWinner, UpCopy, IInv, TypeOK, attemptVars, Idle
  <2> QED BY <1>1, <1>3, <1>5, <2>1 DEF Own, InUp
<1>12. CASE UpFault(a)
  <2>1. /\ up'[a] = Idle /\ a \in failed' /\ failed \subseteq failed' /\ UNCHANGED superseded
        /\ \/ UNCHANGED landed
           \/ up[a].pc = "save" /\ Record(a, Remote, up[a].item)
    BY <1>12 DEF UpFault, IInv, TypeOK, attemptVars
  <2> QED BY <1>1, <1>3, <1>4, <1>5, <1>7, <2>1 DEF Own
<1> QED BY <1>8, <1>9, <1>10, <1>11, <1>12

-----------------------------------------------------------------------------
(***************************************************************************)
(* A step seen by the others.                                              *)
(***************************************************************************)
PublisherDoes(a) ==
    \/ StartRun(a) \/ RefuseReopen(a) \/ Open(a) \/ Beat(a) \/ Close(a) \/ Detach(a)
    \/ MainLoad(a) \/ MainSave(a) \/ MainRefused(a) \/ Return(a) \/ Die(a)

UploaderDoes(a) ==
    \/ UpTake(a) \/ UpLoad(a) \/ UpSave(a) \/ UpRefused(a) \/ UpWinner(a) \/ UpCopy(a)
    \/ UpFault(a)

CallDoes(f) ==
    \/ FinishRun(f) \/ FinLoad(f) \/ FinSave(f) \/ FinRefused(f) \/ FinCopy(f) \/ FinDie(f)

\* Everybody has one shared side, which is not a host's copy next to a remote.
LEMMA SharedFacts ==
    ASSUME NEW i \in Ids, NEW j \in Ids
    PROVE  /\ SharedOf(i) = SharedOf(j) /\ SharedOf(i) \in Sides /\ Remote \in Sides
           /\ HostOf[i] \in Hosts /\ HostOf[i] \in Sides /\ HostOf[i] # Remote
           /\ HasRemote => SharedOf(i) = Remote
           /\ ~HasRemote => SharedOf(i) = HostOf[i]
BY RunStateAssumption DEF SharedOf, Sides

\* Whoever writes a final state on the shared side has landed.
LEMMA Recorded ==
    ASSUME NEW i, NEW side, NEW s, s # NoFile, s.attempt = i, Record(i, side, s)
    PROVE  /\ landed' = landed \/ landed' = landed \cup {i}
           /\ side = SharedOf(i) /\ Finished(s) => i \in landed'
BY DEF Record

\* A step of an attempt changes nothing of another one.
LEMMA PublisherAside ==
    ASSUME IInv, RInv, NEW a \in Attempts, PublisherDoes(a)
    PROVE  /\ \A b \in Attempts \ {a} :
                 UNCHANGED <<pc[b], prior[b], mine[b], superseded[b], pending[b], main[b], up[b],
                             tok[b]>>
           /\ failed' = failed \/ failed' = failed \cup {a}
           /\ landed' = landed \/ landed' = landed \cup {a}
           /\ UNCHANGED <<fin, call>>
<1>1. CASE MainSave(a)
  <2>1. main[a].item # NoFile /\ main[a].item.attempt = a
    BY <1>1 DEF MainSave, IInv, AInv, Owned
  <2>2. landed' = landed \/ landed' = landed \cup {a}
    BY <1>1, <2>1, Recorded DEF MainSave
  <2> QED BY <1>1, <2>2 DEF MainSave, AfterPublish, IInv, TypeOK
<1>2. CASE StartRun(a) \/ RefuseReopen(a)
  BY <1>2 DEF StartRun, RefuseReopen, ReadPrior, IInv, TypeOK
<1>3. CASE Open(a) \/ Beat(a) \/ Close(a)
  BY <1>3 DEF Open, Beat, Close, Publish, IInv, TypeOK
<1>4. CASE Detach(a) \/ Return(a) \/ Die(a)
  BY <1>4 DEF Detach, Return, Die, IInv, TypeOK
<1>5. CASE MainLoad(a)
  BY <1>5 DEF MainLoad, AfterPublish, IInv, TypeOK
<1>6. CASE MainRefused(a)
  BY <1>6 DEF MainRefused, AfterPublish, IInv, TypeOK
<1> QED BY <1>1, <1>2, <1>3, <1>4, <1>5, <1>6 DEF PublisherDoes

\* Nor does a step of its upload worker.
LEMMA UploaderAside ==
    ASSUME IInv, RInv, NEW a \in Attempts, UploaderDoes(a)
    PROVE  /\ \A b \in Attempts \ {a} :
                 UNCHANGED <<pc[b], prior[b], mine[b], superseded[b], pending[b], main[b], up[b],
                             tok[b]>>
           /\ failed' = failed \/ failed' = failed \cup {a}
           /\ landed' = landed \/ landed' = landed \cup {a}
           /\ UNCHANGED <<fin, call, mine, prior>>
<1>1. CASE UpSave(a) \/ UpFault(a)
  <2>1. up[a].pc = "save" => up[a].item # NoFile /\ up[a].item.attempt = a
    BY DEF IInv, AInv, Owned
  <2>2. landed' = landed \/ landed' = landed \cup {a}
    BY <1>1, <2>1, Recorded DEF UpSave, UpFault
  <2> QED BY <1>1, <2>2 DEF UpSave, UpFault, attemptVars, IInv, TypeOK
<1>2. CASE UpTake(a) \/ UpLoad(a)
  BY <1>2 DEF UpTake, UpLoad, attemptVars, IInv, TypeOK
<1>3. CASE UpRefused(a) \/ UpWinner(a) \/ UpCopy(a)
  BY <1>3 DEF UpRefused, UpWinner, UpCopy, attemptVars, IInv, TypeOK
<1> QED BY <1>1, <1>2, <1>3 DEF UploaderDoes

\* A finish_run call changes nothing of an attempt, nor of another call.
LEMMA CallAside ==
    ASSUME IInv, RInv, NEW f \in Finishers, CallDoes(f)
    PROVE  /\ UNCHANGED <<attemptVars, pending, main, up, failed>>
           /\ \A g \in Finishers \ {f} : UNCHANGED <<fin[g], call[g]>>
           /\ landed' = landed \/ landed' = landed \cup {f}
<1>1. CASE FinSave(f)
  <2>1. fin[f].item # NoFile /\ fin[f].item.attempt = f
    BY <1>1 DEF FinSave, IInv, FinDecided
  <2>2. landed' = landed \/ landed' = landed \cup {f}
    BY <1>1, <2>1, Recorded DEF FinSave
  <2> QED BY <1>1, <2>2 DEF FinSave, IInv, TypeOK
<1>2. CASE FinishRun(f)
  BY <1>2 DEF FinishRun, IInv, TypeOK
<1>3. CASE FinLoad(f)
  BY <1>3 DEF FinLoad, IInv, TypeOK
<1>4. CASE FinRefused(f) \/ FinCopy(f) \/ FinDie(f)
  BY <1>4 DEF FinRefused, FinCopy, FinDie, IInv, TypeOK
<1> QED BY <1>1, <1>2, <1>3, <1>4 DEF CallDoes

\* What has happened stays so: endings that landed, calls that failed, and the
\* ending an attempt decided on.
Goes(landed1, failed1, mine1) ==
    /\ landed \subseteq landed1 /\ failed \subseteq failed1
    /\ \A b \in Attempts : Finished(mine[b]) => Finished(mine1[b])

\* Every attempt is still in a lawful state, and what has happened stays so.
LEMMA EveryAttempt ==
    ASSUME IInv, RInv, Next
    PROVE  /\ \A b \in Attempts : EInv(b)'
           /\ Goes(landed', failed', mine')
<1>0. \A b \in Attempts : EInv(b) BY DEF RInv
<1>1. ASSUME NEW a \in Attempts, PublisherDoes(a)
      PROVE  (\A b \in Attempts : EInv(b)') /\ Goes(landed', failed', mine')
  <2>1. EInv(a)'
    BY <1>1, StartKeeps, PublishKeeps, MainKeeps, LeaveKeeps DEF PublisherDoes
  <2>2. \A b \in Attempts \ {a} : EInv(b)'
    BY <1>0, <1>1, PublisherAside, EFrame
  <2>3. Finished(mine[a]) => Finished(mine'[a])
    <3>1. pc[a] \in {"new", "opening", "running"} => ~Finished(mine[a])
      BY <1>0 DEF EInv, Life, Finished
    <3>2. pc[a] \notin {"new", "opening", "running"} => mine' = mine
      BY <1>1 DEF PublisherDoes, StartRun, RefuseReopen, ReadPrior, Open, Beat, Close, Detach,
                  MainLoad, MainSave, MainRefused, Return, Die
    <3> QED BY <3>1, <3>2
  <2> QED BY <1>1, <2>1, <2>2, <2>3, PublisherAside DEF Goes
<1>2. ASSUME NEW a \in Attempts, UploaderDoes(a)
      PROVE  (\A b \in Attempts : EInv(b)') /\ Goes(landed', failed', mine')
  <2>1. EInv(a)' BY <1>2, TakeKeeps, UpKeeps DEF UploaderDoes
  <2>2. \A b \in Attempts \ {a} : EInv(b)'
    BY <1>0, <1>2, UploaderAside, EFrame
  <2> QED BY <1>2, <2>1, <2>2, UploaderAside DEF Goes
<1>3. ASSUME NEW f \in Finishers, CallDoes(f)
      PROVE  (\A b \in Attempts : EInv(b)') /\ Goes(landed', failed', mine')
  <2>1. \A b \in Attempts : b # f BY RunStateAssumption
  <2>2. \A b \in Attempts : EInv(b)'
    BY <1>0, <1>3, <2>1, CallAside, EFrame DEF attemptVars
  <2> QED BY <1>3, <2>2, CallAside DEF Goes, attemptVars
<1> QED BY <1>1, <1>2, <1>3 DEF Next, PublisherDoes, UploaderDoes, CallDoes

-----------------------------------------------------------------------------
(***************************************************************************)
(* What superseded an attempt is real, and so is what is stored.           *)
(***************************************************************************)
\* An attempt is superseded by an ending it has read, on its host or the remote.
LEMMA BeatenStep ==
    ASSUME IInv, RInv, Next, NEW b \in Attempts
    PROVE  Beaten(b)'
<1>1. Goes(landed', failed', mine') BY EveryAttempt
<1>2. CASE superseded[b]
  <2>1. Beaten(b) BY DEF RInv
  <2> QED BY <1>1, <1>2, <2>1 DEF Beaten, Goes
<1>3. CASE ~superseded[b] /\ superseded'[b]
  <2>1. \/ MainLoad(b) /\ Lost(b, HostOf[b], store[HostOf[b]])
        \/ UpLoad(b) /\ Lost(b, Remote, store[Remote])
    <3>1. ASSUME NEW a \in Attempts \ {b} PROVE ~PublisherDoes(a) /\ ~UploaderDoes(a)
      BY <1>3, <3>1, PublisherAside, UploaderAside
    <3>2. ASSUME NEW f \in Finishers PROVE ~CallDoes(f)
      BY <1>3, <3>2, CallAside DEF attemptVars
    <3>3. PublisherDoes(b) \/ UploaderDoes(b)
      BY <3>1, <3>2 DEF Next, PublisherDoes, UploaderDoes, CallDoes
    <3>4. superseded' # superseded BY <1>3
    <3>5. MainLoad(b) \/ UpLoad(b)
      BY <3>3, <3>4 DEF PublisherDoes, UploaderDoes, StartRun, RefuseReopen, ReadPrior, Open,
         Beat, Close, Detach, MainSave, MainRefused, Return, Die, UpTake,
         UpSave, UpRefused, UpWinner, UpCopy, UpFault, attemptVars
    <3>6. MainLoad(b) /\ ~Lost(b, HostOf[b], store[HostOf[b]]) => superseded' = superseded
      BY DEF MainLoad
    <3>7. UpLoad(b) /\ ~Lost(b, Remote, store[Remote]) => superseded' = superseded
      BY DEF UpLoad
    <3> QED BY <3>4, <3>5, <3>6, <3>7
  <2>2. CASE Lost(b, HostOf[b], store[HostOf[b]])
    <3>1. HostOf[b] \in Hosts BY SharedFacts DEF Ids
    <3>2. LocalReal(HostOf[b]) BY <3>1 DEF RInv
    <3>3. /\ Finished(store[HostOf[b]]) /\ store[HostOf[b]].attempt # b
      BY <2>2 DEF Lost, finished_by_another
    <3> QED BY <1>1, <3>2, <3>3 DEF LocalReal, Beaten, Goes
  <2>3. CASE UpLoad(b) /\ Lost(b, Remote, store[Remote])
    <3>1. HasRemote BY <2>3 DEF UpLoad, IInv, AInv, Threads, Idle
    <3>2. b \in Ids /\ SharedOf(b) = Remote BY <3>1 DEF SharedOf, Ids
    <3>3. /\ Finished(store[Remote]) /\ store[Remote].attempt # b
      BY <2>3 DEF Lost, finished_by_another
    <3>4. store[Remote].attempt \in landed BY <3>2, <3>3 DEF RInv, SharedReal
    <3> QED BY <1>1, <3>3, <3>4 DEF Beaten, Goes
  <2> QED BY <2>1, <2>2, <2>3
<1>4. CASE ~superseded'[b] BY <1>4 DEF Beaten
<1> QED BY <1>2, <1>3, <1>4

\* The winner that an upload worker copies to its host stood on the remote.
LEMMA CopyRealStep ==
    ASSUME IInv, RInv, Next, NEW b \in Attempts
    PROVE  CopyReal(b)'
<1>1. Goes(landed', failed', mine') BY EveryAttempt
<1>2. CASE up'[b] = up[b]
  <2>1. CopyReal(b) BY DEF RInv
  <2> QED BY <1>1, <1>2, <2>1 DEF CopyReal, Goes, Finished
<1>3. CASE UpWinner(b)
  <2>1. HasRemote BY <1>3 DEF UpWinner, IInv, AInv, Threads, Idle
  <2>2. b \in Ids /\ SharedOf(b) = Remote BY <2>1 DEF SharedOf, Ids
  <2>3. Finished(store[Remote]) => store[Remote].attempt \in landed BY <2>2 DEF RInv, SharedReal
  <2>4. up'[b].item = store[Remote] BY <1>3 DEF UpWinner, IInv, TypeOK
  <2> QED BY <1>1, <2>3, <2>4 DEF CopyReal, Goes, Finished
<1>4. CASE up'[b] # up[b] /\ ~UpWinner(b)
  <2>1. ASSUME NEW a \in Attempts \ {b} PROVE ~PublisherDoes(a) /\ ~UploaderDoes(a)
    BY <1>4, <2>1, PublisherAside, UploaderAside
  <2>2. ASSUME NEW f \in Finishers PROVE ~CallDoes(f)
    BY <1>4, <2>2, CallAside
  <2>3. PublisherDoes(b) \/ UploaderDoes(b)
    BY <2>1, <2>2 DEF Next, PublisherDoes, UploaderDoes, CallDoes
  <2>4. Die(b) \/ UpTake(b) \/ UpLoad(b) \/ UpSave(b) \/ UpRefused(b) \/ UpCopy(b) \/ UpFault(b)
    BY <1>4, <2>3 DEF PublisherDoes, UploaderDoes, StartRun, RefuseReopen, Open,
               Beat, Close, Detach, MainLoad, MainSave, MainRefused, Return
  <2>5. up[b] \in Cas /\ store[Remote] \in Files BY DEF IInv, TypeOK, Sides
  <2>6. /\ Idle.pc = "idle" /\ Loaded(up[b], store[Remote]).pc = "save"
        /\ Refused(up[b]).pc = "load" /\ GoTo(up[b], "winner").pc = "winner"
        /\ Begin(b, Remote, pending[b]).pc \in {"load", "save"}
    BY <2>5, CasFacts DEF Begin
  <2>7. up'[b] \in {Idle, Loaded(up[b], store[Remote]), Refused(up[b]), GoTo(up[b], "winner"),
                    Begin(b, Remote, pending[b])}
    BY <1>4, <2>4 DEF Die, UpTake, UpLoad, UpSave, UpRefused, UpCopy, UpFault, IInv, TypeOK
  <2> QED BY <2>6, <2>7 DEF CopyReal
<1> QED BY <1>2, <1>3, <1>4

\* What a step writes: the side, the state and its writer.
Writes(side, s) == store' = [store EXCEPT ![side] = s]

\* A step that writes is a save or a copy of an attempt or of a call.
LEMMA WriteCases ==
    ASSUME IInv, RInv, Next
    PROVE  \/ store' = store
           \/ \E a \in Attempts :
                 \/ MainSave(a) /\ Writes(HostOf[a], main[a].item)
                 \/ /\ UpSave(a) \/ UpFault(a)
                    /\ up[a].pc = "save" /\ store[Remote] = up[a].token
                    /\ Writes(Remote, up[a].item) /\ Record(a, Remote, up[a].item)
                 \/ UpCopy(a) /\ Writes(HostOf[a], up[a].item)
           \/ \E f \in Finishers :
                 \/ FinSave(f) /\ Writes(SharedOf(f), fin[f].item)
                 \/ FinCopy(f) /\ Writes(HostOf[f], fin[f].item)
<1>1. ASSUME NEW a \in Attempts,
             \/ StartRun(a) \/ RefuseReopen(a) \/ Open(a) \/ Beat(a) \/ Close(a)
             \/ Detach(a) \/ MainLoad(a) \/ MainRefused(a) \/ Return(a) \/ Die(a)
             \/ UpTake(a) \/ UpLoad(a) \/ UpRefused(a) \/ UpWinner(a)
      PROVE  store' = store
  BY <1>1 DEF StartRun, RefuseReopen, Open, Beat, Close, Detach, MainLoad, MainRefused,
              Return, Die, UpTake, UpLoad, UpRefused, UpWinner
<1>2. ASSUME NEW f \in Finishers, FinishRun(f) \/ FinLoad(f) \/ FinRefused(f) \/ FinDie(f)
      PROVE  store' = store
  BY <1>2 DEF FinishRun, FinLoad, FinRefused, FinDie
<1>3. ASSUME NEW a \in Attempts, MainSave(a)
      PROVE  Writes(HostOf[a], main[a].item)
  BY <1>3 DEF MainSave, Write, Writes
<1>4. ASSUME NEW a \in Attempts, UpSave(a) \/ UpFault(a), store' # store
      PROVE  /\ up[a].pc = "save" /\ store[Remote] = up[a].token
             /\ Writes(Remote, up[a].item) /\ Record(a, Remote, up[a].item)
  BY <1>4 DEF UpSave, UpFault, Write, Writes
<1>5. ASSUME NEW a \in Attempts, UpCopy(a)
      PROVE  Writes(HostOf[a], up[a].item)
  BY <1>5 DEF UpCopy, Write, Writes
<1>6. ASSUME NEW f \in Finishers
      PROVE  /\ FinSave(f) => Writes(SharedOf(f), fin[f].item)
             /\ FinCopy(f) => Writes(HostOf[f], fin[f].item)
  BY DEF FinSave, FinCopy, Write, Writes
<1> QED BY <1>1, <1>2, <1>3, <1>4, <1>5, <1>6 DEF Next

\* Nothing but a recorded write puts an ending on the shared side.
LEMMA SharedRealStep ==
    ASSUME IInv, RInv, Next
    PROVE  SharedReal'
<1> SUFFICES ASSUME NEW i \in Ids, Finished(store'[SharedOf(i)])
             PROVE  store'[SharedOf(i)].attempt \in landed'
  BY DEF SharedReal, Finished
<1> DEFINE s == SharedOf(i)
<1>0. landed \subseteq landed' BY EveryAttempt DEF Goes
<1>1. store \in [Sides -> Files] /\ s \in Sides BY SharedFacts DEF IInv, TypeOK
<1>2. CASE store'[s] = store[s]
  BY <1>0, <1>2 DEF RInv, SharedReal
<1>3. ASSUME NEW a \in Attempts, MainSave(a), Writes(HostOf[a], main[a].item), store'[s] # store[s]
      PROVE  store'[s].attempt \in landed'
  <2>1. main[a].item # NoFile /\ main[a].item.attempt = a /\ Record(a, HostOf[a], main[a].item)
    BY <1>3 DEF MainSave, IInv, AInv, Owned
  <2>2. HostOf[a] = SharedOf(a) /\ store'[s] = main[a].item
    BY <1>1, <1>3, SharedFacts DEF Writes, Ids
  <2> QED BY <2>1, <2>2, Recorded DEF s
<1>4. ASSUME NEW a \in Attempts, up[a].pc = "save", Writes(Remote, up[a].item),
             Record(a, Remote, up[a].item), store'[s] # store[s]
      PROVE  store'[s].attempt \in landed'
  <2>1. up[a].item # NoFile /\ up[a].item.attempt = a
    BY <1>4 DEF IInv, AInv, Owned
  <2>2. s = Remote /\ SharedOf(a) = Remote /\ store'[s] = up[a].item
    BY <1>1, <1>4, SharedFacts DEF Writes, Ids
  <2> QED BY <1>4, <2>1, <2>2, Recorded DEF s
<1>5. ASSUME NEW a \in Attempts, UpCopy(a), Writes(HostOf[a], up[a].item)
      PROVE  store'[s] = store[s]
  <2>1. HasRemote BY <1>5 DEF UpCopy, IInv, AInv, Threads, Idle
  <2> QED BY <1>1, <1>5, <2>1, SharedFacts DEF Writes, Ids
<1>6. ASSUME NEW f \in Finishers, FinSave(f), Writes(SharedOf(f), fin[f].item)
      PROVE  store'[s].attempt \in landed'
  <2>1. /\ fin[f].item # NoFile /\ fin[f].item.attempt = f /\ Finished(fin[f].item)
        /\ Record(f, SharedOf(f), fin[f].item)
    BY <1>6 DEF FinSave, IInv, FinDecided, RInv, CallOnce
  <2>2. s = SharedOf(f) BY SharedFacts DEF Ids
  <2>3. store'[s] = fin[f].item BY <1>1, <1>6, <2>2 DEF Writes
  <2> QED BY <2>1, <2>3, Recorded
<1>7. ASSUME NEW f \in Finishers, FinCopy(f), Writes(HostOf[f], fin[f].item)
      PROVE  store'[s] = store[s]
  <2>1. HasRemote BY <1>7 DEF FinCopy, IInv, FinDecided
  <2> QED BY <1>1, <1>7, <2>1, SharedFacts DEF Writes, Ids
<1> QED
  <2>1. store'[s].attempt \in landed'
    BY <1>2, <1>3, <1>4, <1>5, <1>6, <1>7, WriteCases
  <2> QED BY <2>1 DEF s

\* An attempt is through with an ending it stored on its host only when that
\* landed or its worker has put the winner's there instead.
LEMMA UnsettledStays ==
    ASSUME IInv, RInv, Next, NEW b \in Attempts, Unsettled(b), HasLocal, ~UpCopy(b)
    PROVE  Unsettled(b)' \/ b \in landed'
<1>1. Own(b) BY OwnFacts
<1>2. failed \subseteq failed' /\ landed \subseteq landed' BY EveryAttempt DEF Goes
<1>3. CASE UNCHANGED <<pc[b], pending[b], up[b]>>
  BY <1>2, <1>3 DEF Unsettled, InPending, InUp, Finished
<1>4. ASSUME PublisherDoes(b) PROVE Unsettled(b)'
  <2>1. CASE UNCHANGED <<pending, up>> /\ pc[b] # "dead"
    BY <1>2, <2>1 DEF Unsettled, InPending, InUp, Finished
  <2>2. CASE Die(b)
    BY <2>2 DEF Die, Unsettled, IInv, TypeOK
  <2>3. CASE pc[b] = "dead" /\ pc'[b] = "dead" BY <2>3 DEF Unsettled
  <2>4. pc[b] = "dead" => ~PublisherDoes(b)
    <3>1. pc[b] = "dead" => main[b].pc = "idle" BY <1>1 DEF Own, EInv, Life
    <3> QED BY <3>1 DEF PublisherDoes, StartRun, RefuseReopen, ReadPrior, Open, Beat, Close, Detach,
               MainLoad, MainSave, MainRefused, Return, Die
  <2>5. CASE (Open(b) \/ Beat(b) \/ Close(b) \/ Detach(b) \/ MainSave(b)) /\ up'[b] = up[b]
    <3>1. pc[b] \notin Done
      BY <1>1, <2>5 DEF Open, Beat, Close, Detach, MainSave, Done, Own, EInv, Life
    <3>2. ~InPending(b) BY <1>1, <3>1 DEF Own, EInv, OnePlace
    <3>3. pc[b] # "dead" BY <3>1 DEF Done
    <3> QED BY <1>2, <2>5, <3>2, <3>3 DEF Unsettled, InUp, Finished
  <2>6. /\ StartRun(b) \/ RefuseReopen(b) \/ MainLoad(b) \/ MainRefused(b) \/ Return(b)
           => UNCHANGED <<pending, up>>
        /\ Open(b) \/ Beat(b) \/ Close(b) \/ Detach(b) \/ MainSave(b) => up' = up
    BY DEF StartRun, RefuseReopen, MainLoad, MainRefused, Return, Open, Beat, Close, Detach,
           MainSave
  <2> QED BY <1>4, <2>1, <2>2, <2>4, <2>5, <2>6 DEF PublisherDoes
<1>5. ASSUME UploaderDoes(b) PROVE Unsettled(b)' \/ b \in landed'
  <2>0. CASE b \in failed' \/ pc[b] = "dead"
    <3>1. pc' = pc BY <1>5 DEF UploaderDoes, UpTake, UpLoad, UpSave, UpRefused, UpWinner, UpCopy, UpFault,
                               attemptVars
    <3> QED BY <2>0, <3>1 DEF Unsettled
  <2>1. CASE UpTake(b)
    <3>1. up[b].pc = "idle" BY <2>1 DEF UpTake, Idle
    <3>2. CASE InPending(b)
      <4>1. Final(pending[b]) BY <3>2 DEF InPending, Finished, Final
      <4>2. up'[b] = Begin(b, Remote, pending[b]) BY <2>1, <4>1 DEF UpTake, IInv, TypeOK
      <4>3. InUp(b)' BY <3>2, <4>2 DEF InUp, InPending, Begin, Finished
      <4> QED BY <4>3 DEF Unsettled
    <3> QED BY <1>2, <2>0, <3>1, <3>2 DEF Unsettled, InUp
  <2>2. CASE UpLoad(b)
    <3>1. up[b].pc = "load" /\ pending' = pending BY <2>2 DEF UpLoad
    <3>2. CASE InPending(b) BY <3>1, <3>2 DEF Unsettled, InPending, Finished
    <3>3. CASE InUp(b)
      <4>1. Final(up[b].item) BY <3>3 DEF InUp, Finished, Final
      <4>2. up'[b] \in {GoTo(up[b], "winner"), Loaded(up[b], store[Remote])}
        BY <2>2, <4>1 DEF UpLoad, IInv, TypeOK
      <4>3. up'[b].pc = "winner" \/ (up'[b].pc = "save" /\ up'[b].item = up[b].item)
        BY <4>2 DEF GoTo, Loaded
      <4> QED BY <3>3, <4>3 DEF Unsettled, InUp, Finished
    <3> QED BY <1>2, <2>0, <3>1, <3>2, <3>3 DEF Unsettled
  <2>3. CASE UpSave(b)
    <3>1. up[b].pc = "save" /\ pending' = pending /\ Record(b, Remote, up[b].item)
      BY <2>3 DEF UpSave
    <3>2. CASE InPending(b) BY <3>1, <3>2 DEF Unsettled, InPending, Finished
    <3>3. CASE InUp(b)
      <4>1. up[b].item # NoFile /\ up[b].item.attempt = b /\ HasRemote
        BY <1>1, <3>1 DEF Own, AInv, Owned, Threads, Idle
      <4>2. SharedOf(b) = Remote BY <4>1 DEF SharedOf
      <4> QED BY <3>1, <3>3, <4>1, <4>2, Recorded DEF InUp
    <3> QED BY <1>2, <2>0, <3>1, <3>2, <3>3 DEF Unsettled
  <2>4. CASE UpRefused(b)
    <3>1. CASE Contended(up[b]) BY <2>0, <2>4, <3>1 DEF UpRefused
    <3>2. CASE ~Contended(up[b])
      <4>1. up'[b] = Refused(up[b]) /\ up[b].pc = "save" /\ pending' = pending /\ up[b] \in Cas
        BY <2>4, <3>2 DEF UpRefused, IInv, TypeOK
      <4>2. up'[b].pc = "load" /\ up'[b].item = up[b].item BY <4>1 DEF Refused
      <4> QED BY <1>2, <2>0, <4>1, <4>2 DEF Unsettled, InUp, InPending, Finished
    <3> QED BY <3>1, <3>2
  <2>5. CASE UpWinner(b)
    <3>1. up'[b].pc = "copy" BY <2>5 DEF UpWinner, IInv, TypeOK
    <3> QED BY <3>1 DEF Unsettled
  <2>6. CASE UpFault(b) BY <2>0, <2>6 DEF UpFault
  <2> QED BY <1>5, <2>1, <2>2, <2>3, <2>4, <2>5, <2>6 DEF UploaderDoes
<1>6. ASSUME NEW a \in Attempts \ {b}, PublisherDoes(a) \/ UploaderDoes(a)
      PROVE  UNCHANGED <<pc[b], pending[b], up[b]>>
  BY <1>6, PublisherAside, UploaderAside
<1>7. ASSUME NEW f \in Finishers, CallDoes(f) PROVE UNCHANGED <<pc[b], pending[b], up[b]>>
  BY <1>7, CallAside DEF attemptVars
<1>8. \/ \E a \in Attempts : PublisherDoes(a) \/ UploaderDoes(a)
      \/ \E f \in Finishers : CallDoes(f)
  BY DEF Next, PublisherDoes, UploaderDoes, CallDoes
<1> QED BY <1>3, <1>4, <1>5, <1>6, <1>7, <1>8

\* What is on a host's copy has landed, or is an ending its attempt is not
\* through with.
LEMMA LocalRealStep ==
    ASSUME IInv, RInv, Next, NEW h \in Hosts
    PROVE  LocalReal(h)'
<1>0. Goes(landed', failed', mine') BY EveryAttempt
<1>1. h \in Sides /\ h # Remote /\ store \in [Sides -> Files]
  BY RunStateAssumption DEF Sides, IInv, TypeOK
<1>2. LocalReal(h) BY DEF RInv
<1>3. ASSUME NEW a \in Attempts, MainSave(a), Writes(HostOf[a], main[a].item), HostOf[a] = h
      PROVE  LocalReal(h)'
  <2>1. /\ main[a].item # NoFile /\ main[a].item.attempt = a /\ main[a].item = mine[a] /\ HasLocal
    BY <1>3, OwnFacts DEF MainSave, Own, EInv, Life, AInv, Owned
  <2>2. store'[h] = mine[a] /\ mine' = mine BY <1>1, <1>3, <2>1 DEF Writes, MainSave
  <2>3. CASE HasRemote
    <3>1. pending'[a] = mine[a] BY <1>3, <2>1, <2>3 DEF MainSave, IInv, TypeOK
    <3> QED BY <1>3, <2>1, <2>2, <3>1 DEF LocalReal, Unsettled, InPending, Finished
  <2>4. CASE ~HasRemote
    <3>1. SharedOf(a) = h /\ Record(a, h, main[a].item) BY <1>3, <2>4 DEF SharedOf, MainSave
    <3>2. Finished(mine[a]) => a \in landed' BY <2>1, <3>1, Recorded
    <3> QED BY <2>1, <2>2, <3>2 DEF LocalReal, Finished
  <2> QED BY <2>3, <2>4
<1>4. ASSUME NEW a \in Attempts, UpCopy(a), Writes(HostOf[a], up[a].item), HostOf[a] = h
      PROVE  LocalReal(h)'
  <2>1. store'[h] = up[a].item BY <1>1, <1>4 DEF Writes
  <2>2. CopyReal(a) /\ up[a].pc = "copy" BY <1>4 DEF RInv, UpCopy
  <2> QED BY <1>0, <2>1, <2>2 DEF LocalReal, CopyReal, Goes, Finished
<1>5. ASSUME NEW f \in Finishers, FinSave(f), Writes(SharedOf(f), fin[f].item), SharedOf(f) = h
      PROVE  LocalReal(h)'
  <2>1. store'[h] = fin[f].item BY <1>1, <1>5 DEF Writes
  <2>2. /\ fin[f].item # NoFile /\ fin[f].item.attempt = f /\ Finished(fin[f].item)
        /\ Record(f, SharedOf(f), fin[f].item)
    BY <1>5 DEF FinSave, IInv, FinDecided, RInv, CallOnce
  <2> QED BY <2>1, <2>2, Recorded DEF LocalReal
<1>6. ASSUME NEW f \in Finishers, FinCopy(f), Writes(HostOf[f], fin[f].item), HostOf[f] = h
      PROVE  LocalReal(h)'
  <2>1. store'[h] = fin[f].item BY <1>1, <1>6 DEF Writes
  <2>2. fin[f].item.attempt \in landed BY <1>6 DEF FinCopy, RInv, CallOnce
  <2> QED BY <1>0, <2>1, <2>2 DEF LocalReal, Goes
<1>7. ASSUME store'[h] = store[h], \A a \in Attempts : HostOf[a] = h => ~UpCopy(a)
      PROVE  LocalReal(h)'
  BY <1>0, <1>2, <1>7, UnsettledStays DEF LocalReal, Goes, Finished
<1>8. ASSUME NEW a \in Attempts, UpCopy(a) PROVE Writes(HostOf[a], up[a].item)
  BY <1>8 DEF UpCopy, Write, Writes
<1>9. ASSUME NEW side, NEW s, Writes(side, s), side # h PROVE store'[h] = store[h]
  BY <1>1, <1>9 DEF Writes
<1> QED BY <1>1, <1>3, <1>4, <1>5, <1>6, <1>7, <1>8, <1>9, WriteCases

\* A finish_run call that has not saved its ending has not landed.
LEMMA CallOnceStep ==
    ASSUME IInv, RInv, Next, NEW g \in Finishers
    PROVE  CallOnce(g)'
<1>0. landed \subseteq landed' BY EveryAttempt DEF Goes
<1>1. CallOnce(g) BY DEF RInv
<1>2. ASSUME UNCHANGED <<fin[g], call[g]>>, g \in landed' => g \in landed
      PROVE  CallOnce(g)'
  BY <1>0, <1>1, <1>2 DEF CallOnce, Finished
<1>3. ASSUME NEW a \in Attempts, PublisherDoes(a) \/ UploaderDoes(a) PROVE CallOnce(g)'
  <2>1. a # g BY RunStateAssumption
  <2> QED BY <1>2, <1>3, <2>1, PublisherAside, UploaderAside
<1>4. ASSUME NEW f \in Finishers \ {g}, CallDoes(f) PROVE CallOnce(g)'
  BY <1>2, <1>4, CallAside
<1>5. ASSUME CallDoes(g) PROVE CallOnce(g)'
  <2>0. fin[g] \in Cas /\ call[g] \in Calls /\ fin \in [Finishers -> Cas] /\ call \in [Finishers -> Calls]
    BY DEF IInv, TypeOK
  <2>1. CASE FinishRun(g)
    <3>1. /\ call[g].at = "new" /\ landed' = landed
          /\ call'[g].at \in {"refused", "checked"} /\ fin'[g] \in {fin[g], GoTo(Idle, "load")}
      BY <2>0, <2>1 DEF FinishRun
    <3>2. GoTo(Idle, "load").pc = "load" BY DEF GoTo
    <3>3. fin[g].pc = "idle" BY <3>1 DEF IInv, FinDecided
    <3> QED BY <1>1, <3>1, <3>2, <3>3 DEF CallOnce
  <2>2. CASE FinLoad(g)
    <3>1. /\ fin[g].pc = "load" /\ landed' = landed /\ call[g].at = "checked"
      BY <2>2 DEF FinLoad, IInv, FinDecided
    <3>2. call'[g].at \in {"checked", "refused"}
      BY <2>0, <2>2, <3>1 DEF FinLoad, Ended
    <3>3. \/ fin'[g].pc = "idle"
          \/ fin'[g].pc = "save" /\ fin'[g].item = final_state(g, store[SharedOf(g)])
      BY <2>0, <2>2 DEF FinLoad, Idle
    <3>4. Finished(final_state(g, store[SharedOf(g)]))
      <4>1. SharedOf(g) \in Sides /\ g \in Ids BY SharedFacts DEF Ids
      <4>2. store[SharedOf(g)] \in Files BY <4>1 DEF IInv, TypeOK
      <4>3. final_state(g, store[SharedOf(g)]) \in States
        BY <4>1, <4>2, StateFacts DEF final_state, States
      <4> QED BY <4>3, StateFacts DEF Finished, final_state
    <3> QED BY <1>1, <3>1, <3>2, <3>3, <3>4 DEF CallOnce, Finished
  <2>3. CASE FinSave(g)
    <3>1. /\ fin[g].pc = "save" /\ Finished(fin[g].item) /\ fin[g].item # NoFile
          /\ fin[g].item.attempt = g /\ call[g].at = "checked"
      BY <1>1, <2>3 DEF FinSave, IInv, FinDecided, CallOnce
    <3>2. g \in landed' BY <2>3, <3>1, Recorded DEF FinSave
    <3>3. \/ fin'[g] = GoTo(fin[g], "copy") /\ call'[g].at = "checked"
          \/ fin'[g] = Idle /\ call'[g].at = "done"
      BY <2>0, <2>3, <3>1 DEF FinSave, Ended
    <3>4. /\ GoTo(fin[g], "copy").pc = "copy" /\ GoTo(fin[g], "copy").item = fin[g].item
          /\ Idle.pc = "idle"
      BY DEF GoTo, Idle
    <3> QED BY <3>1, <3>2, <3>3, <3>4 DEF CallOnce
  <2>4. CASE FinRefused(g)
    <3>1. fin[g].pc = "save" /\ landed' = landed /\ call[g].at = "checked"
      BY <2>4 DEF FinRefused, IInv, FinDecided
    <3>2. fin'[g] \in {Idle, Refused(fin[g])} /\ call'[g].at \in {"checked", "dead"}
      BY <2>0, <2>4, <3>1 DEF FinRefused, Ended
    <3>3. Idle.pc = "idle" /\ Refused(fin[g]).pc = "load" BY DEF Idle, Refused
    <3> QED BY <1>1, <3>1, <3>2, <3>3 DEF CallOnce
  <2>5. CASE FinCopy(g) \/ FinDie(g)
    <3>1. fin'[g].pc = "idle" /\ call'[g].at \in {"done", "dead"}
      BY <2>0, <2>5 DEF FinCopy, FinDie, Ended, Idle
    <3> QED BY <3>1 DEF CallOnce
  <2> QED BY <1>5, <2>1, <2>2, <2>3, <2>4, <2>5 DEF CallDoes
<1>6. \/ \E a \in Attempts : PublisherDoes(a) \/ UploaderDoes(a)
      \/ \E f \in Finishers : CallDoes(f)
  BY DEF Next, PublisherDoes, UploaderDoes, CallDoes
<1> QED BY <1>3, <1>4, <1>5, <1>6

-----------------------------------------------------------------------------
(***************************************************************************)
(* The theorems.                                                           *)
(***************************************************************************)
\* Nothing is on its way in the beginning.
LEMMA InitRInv == Init => RInv
<1> SUFFICES ASSUME Init PROVE RInv
  OBVIOUS
<1>1. \A s \in Sides : store[s] = NoFile BY DEF Init
<1>2. SharedReal BY <1>1, SharedFacts DEF SharedReal, Finished
<1>3. \A h \in Hosts : LocalReal(h) BY <1>1 DEF LocalReal, Finished, Sides
<1>4. \A a \in Attempts : EInv(a) /\ Beaten(a) /\ CopyReal(a)
  BY DEF Init, EInv, Life, OnePlace, NotForgotten, Beaten, CopyReal, InPending, InUp, Idle, Finished
<1>5. \A f \in Finishers : CallOnce(f) BY DEF Init, CallOnce, Idle
<1> QED BY <1>2, <1>3, <1>4, <1>5 DEF RInv

\* Every step of every process keeps an ending in one place at a time.
LEMMA NextRInv == IInv /\ RInv /\ [Next]_vars => RInv'
<1>1. CASE IInv /\ RInv /\ Next
  BY <1>1, EveryAttempt, BeatenStep, CopyRealStep, SharedRealStep, LocalRealStep, CallOnceStep
     DEF RInv
<1>2. CASE RInv /\ UNCHANGED vars
  <2>1. \A a \in Attempts : EInv(a)' BY <1>2, EFrame DEF RInv, vars, attemptVars
  <2>2. \A a \in Attempts : Beaten(a)' /\ CopyReal(a)'
    BY <1>2 DEF RInv, vars, attemptVars, Beaten, CopyReal, Finished
  <2>3. SharedReal' BY <1>2 DEF RInv, vars, SharedReal, Finished
  <2>4. \A h \in Hosts : LocalReal(h)'
    BY <1>2 DEF RInv, vars, attemptVars, LocalReal, Unsettled, InPending, InUp, Finished
  <2>5. \A f \in Finishers : CallOnce(f)' BY <1>2 DEF RInv, vars, CallOnce, Finished
  <2> QED BY <2>1, <2>2, <2>3, <2>4, <2>5 DEF RInv
<1> QED BY <1>1, <1>2

\* In every reachable state each attempt's ending is in one place: with its
\* thread, in its upload slot, with its worker, or on the shared side.
THEOREM EndingsInvariance == Spec => [](IInv /\ RInv)
<1>1. Init => IInv /\ RInv BY InitIInv, InitRInv
<1>2. IInv /\ RInv /\ [Next]_vars => (IInv /\ RInv)' BY NextIInv, NextRInv
<1> QED BY <1>1, <1>2, PTL DEF Spec

\* finish() returns True only to an attempt whose ending reached the shared
\* state, or whose upload failed or was late; and False only when somebody else
\* ended the run, for any number of attempts, calls and hosts.
THEOREM FinishTellsTheTruthAlways == Spec => []FinishTellsTheTruth
<1>1. IInv /\ RInv => FinishTellsTheTruth
  <2> SUFFICES ASSUME IInv, RInv, NEW a \in Attempts
               PROVE  /\ pc[a] = "won" /\ Finished(mine[a]) /\ a \notin failed => a \in landed
                      /\ pc[a] = "lost" =>
                            \/ landed \ {a} # {}
                            \/ \E b \in Attempts \ {a} :
                                  HostOf[b] = HostOf[a] /\ Finished(mine[b])
    BY DEF FinishTellsTheTruth
  <2>1. EInv(a) /\ Beaten(a) BY DEF RInv
  <2>2. pc[a] = "won" => ~superseded[a] /\ ~InPending(a) /\ ~InUp(a)
    BY <2>1 DEF EInv, Life, Drained, InPending, InUp, Idle, Finished
  <2> QED BY <2>1, <2>2 DEF EInv, Life, NotForgotten, Beaten
<1> QED BY <1>1, EndingsInvariance, PTL

\* An ending that a host's copy shows, once the attempts there are through and
\* none of their calls failed, is one that reached the shared side.
THEOREM LocalEndingIsRealAlways == Spec => []LocalEndingIsReal
<1>1. IInv /\ RInv => LocalEndingIsReal
  <2> SUFFICES ASSUME IInv, RInv, NEW h \in Hosts, Finished(store[h]),
                      \A a \in Attempts : HostOf[a] = h =>
                         Drained(a) /\ main[a] = Idle /\ a \notin failed /\ pc[a] # "dead"
               PROVE  store[h].attempt \in landed
    BY DEF LocalEndingIsReal
  <2>1. LocalReal(h) BY DEF RInv
  <2>2. \A a \in Attempts : HostOf[a] = h => ~Unsettled(a)
    BY DEF Unsettled, Drained, InPending, InUp, Idle, Finished
  <2> QED BY <2>1, <2>2 DEF LocalReal
<1> QED BY <1>1, EndingsInvariance, PTL

-----------------------------------------------------------------------------
(***************************************************************************)
(* The half of FinishEndsRun that is about what the threads do: no ending  *)
(* is given up for another that is given up in turn.  Who steps back, from *)
(* its host's copy or the remote, steps back for an ending that landed or  *)
(* that is on its way there.                                               *)
(***************************************************************************)

\* The run has ended for everybody, a write was lost to a fault or to
\* contention, or a process was killed.
Gone == landed # {} \/ failed # {} \/ \E b \in Attempts : pc[b] = "dead"

\* An ending is in an upload slot or with an upload worker.
OnItsWay == \E b \in Attempts : InPending(b) \/ InUp(b)

\* An attempt with an ending has closed; a worker copies a winner only once
\* there is one; and an attempt was superseded by an ending that will land.
GivesWay(a) ==
    /\ Finished(mine[a]) => pc[a] \in {"closing"} \cup Done
    /\ up[a].pc \in {"winner", "copy"} => landed # {}
    /\ superseded[a] => Gone \/ OnItsWay

GInv == \A a \in Attempts : GivesWay(a)

\* Nothing is being published anywhere.
Settled == \A a \in Attempts : main[a] = Idle /\ Drained(a)

\* What has gone stays gone.
LEMMA GoneStays ==
    ASSUME IInv, RInv, Next, Gone
    PROVE  Gone'
<1>1. landed \subseteq landed' /\ failed \subseteq failed' BY EveryAttempt DEF Goes
<1>2. ASSUME NEW b \in Attempts, pc[b] = "dead" PROVE pc'[b] = "dead"
  <2>1. Own(b) BY OwnFacts
  <2>2. main[b].pc = "idle" BY <1>2, <2>1 DEF Own, EInv, Life
  <2>3. ~PublisherDoes(b)
    BY <1>2, <2>2 DEF PublisherDoes, StartRun, RefuseReopen, ReadPrior, Open, Beat, Close, Detach,
               MainLoad, MainSave, MainRefused, Return, Die
  <2>4. \A a \in Attempts \ {b} : PublisherDoes(a) => pc'[b] = pc[b]
    BY PublisherAside
  <2>5. \A a \in Attempts : UploaderDoes(a) => pc' = pc
    BY DEF UploaderDoes, UpTake, UpLoad, UpSave, UpRefused, UpWinner, UpCopy, UpFault, attemptVars
  <2>6. \A f \in Finishers : CallDoes(f) => pc' = pc
    BY CallAside DEF attemptVars
  <2> QED BY <1>2, <2>3, <2>4, <2>5, <2>6 DEF Next, PublisherDoes, UploaderDoes, CallDoes
<1> QED BY <1>1, <1>2 DEF Gone

\* The ending of another attempt, read on a host's copy or on the remote.
LEMMA OtherEnding ==
    ASSUME IInv, RInv, GInv, NEW h \in Hosts, Finished(store[h])
    PROVE  Gone \/ OnItsWay
<1>1. LocalReal(h) BY DEF RInv
<1>2. CASE store[h].attempt \in landed BY <1>2 DEF Gone
<1>3. CASE store[h].attempt \in Attempts /\ Unsettled(store[h].attempt)
  BY <1>3 DEF Unsettled, GInv, GivesWay, Gone, OnItsWay
<1> QED BY <1>1, <1>2, <1>3 DEF LocalReal

\* An ending that the remote shows has landed.
LEMMA RemoteEnding ==
    ASSUME IInv, RInv, NEW b \in Attempts, HasRemote, Finished(store[Remote])
    PROVE  landed # {}
<1>1. b \in Ids /\ SharedOf(b) = Remote BY DEF SharedOf, Ids
<1> QED BY <1>1 DEF RInv, SharedReal

\* An ending on its way gets there, or another was there before it, or a write
\* fails or the process is killed.
LEMMA StaysOnItsWay ==
    ASSUME IInv, RInv, GInv, Next, OnItsWay
    PROVE  Gone' \/ OnItsWay'
<1>0. failed \subseteq failed' /\ landed \subseteq landed' BY EveryAttempt DEF Goes
<1>1. PICK b \in Attempts : InPending(b) \/ InUp(b) BY DEF OnItsWay
<1>2. Own(b) /\ GivesWay(b) BY OwnFacts DEF GInv
<1> SUFFICES ASSUME ~Gone' PROVE (InPending(b) \/ InUp(b))'
  BY DEF OnItsWay
<1>3. b \notin failed' /\ landed' = {} /\ pc'[b] # "dead"
  BY DEF Gone
<1>4. up[b].pc \notin {"winner", "copy"}
  BY <1>0, <1>2, <1>3 DEF GivesWay
<1>5. CASE UNCHANGED <<pending[b], up[b]>>
  BY <1>1, <1>5 DEF InPending, InUp, Finished
<1>6. ASSUME PublisherDoes(b) PROVE UNCHANGED <<pending[b], up[b]>>
  <2>1. pc[b] \in Done
    BY <1>1, <1>2 DEF Own, EInv, OnePlace
  <2>2. main[b].pc = "idle"
    BY <1>2, <2>1 DEF Own, EInv, Life, Done
  <2>3. ~Die(b)
    BY <1>3 DEF Die, IInv, TypeOK
  <2> QED
    BY <1>6, <2>1, <2>2, <2>3
       DEF PublisherDoes, StartRun, RefuseReopen, ReadPrior, Open, Beat, Close, Detach,
           MainLoad, MainSave, MainRefused, Return, Done
<1>7. ASSUME UploaderDoes(b) PROVE (InPending(b) \/ InUp(b))'
  <2>1. CASE UpTake(b)
    <3>1. up[b].pc = "idle" BY <2>1 DEF UpTake, Idle
    <3>2. InPending(b) BY <1>1, <3>1 DEF InUp
    <3>3. Final(pending[b]) BY <3>2 DEF InPending, Finished, Final
    <3>4. up'[b] = Begin(b, Remote, pending[b]) BY <2>1, <3>3 DEF UpTake, IInv, TypeOK
    <3> QED BY <3>2, <3>4 DEF InUp, InPending, Begin, Finished
  <2>2. CASE UpLoad(b)
    <3>1. up[b].pc = "load" /\ pending' = pending /\ HasRemote
      BY <1>2, <2>2 DEF UpLoad, Own, AInv, Threads, Idle
    <3>2. ~Lost(b, Remote, store[Remote])
      BY <1>0, <1>3, <3>1, RemoteEnding DEF Lost, finished_by_another
    <3>3. up'[b] = Loaded(up[b], store[Remote])
      BY <2>2, <3>2 DEF UpLoad, IInv, TypeOK
    <3> QED BY <1>1, <3>1, <3>3 DEF InUp, InPending, Loaded, Finished
  <2>3. CASE UpSave(b)
    <3>1. up[b].pc = "save" /\ pending' = pending /\ Record(b, Remote, up[b].item)
      BY <2>3 DEF UpSave
    <3>2. CASE InPending(b) BY <3>1, <3>2 DEF InPending, Finished
    <3>3. CASE InUp(b)
      <4>1. up[b].item # NoFile /\ up[b].item.attempt = b /\ HasRemote
        BY <1>2, <3>1 DEF Own, AInv, Owned, Threads, Idle
      <4>2. SharedOf(b) = Remote BY <4>1 DEF SharedOf
      <4>3. b \in landed' BY <3>1, <3>3, <4>1, <4>2, Recorded DEF InUp
      <4> QED BY <1>3, <4>3
    <3> QED BY <1>1, <3>2, <3>3
  <2>4. CASE UpRefused(b)
    <3>1. ~Contended(up[b]) BY <1>3, <2>4 DEF UpRefused
    <3>2. up'[b] = Refused(up[b]) /\ up[b].pc = "save" /\ pending' = pending
      BY <2>4, <3>1 DEF UpRefused, IInv, TypeOK
    <3> QED BY <1>1, <3>2 DEF Refused, InUp, InPending, Finished
  <2>5. ~UpWinner(b) /\ ~UpCopy(b) BY <1>4 DEF UpWinner, UpCopy
  <2>6. ~UpFault(b) BY <1>3 DEF UpFault
  <2> QED BY <1>7, <2>1, <2>2, <2>3, <2>4, <2>5, <2>6 DEF UploaderDoes
<1>8. ASSUME NEW a \in Attempts \ {b}, PublisherDoes(a) \/ UploaderDoes(a)
      PROVE  UNCHANGED <<pending[b], up[b]>>
  BY <1>8, PublisherAside, UploaderAside
<1>9. ASSUME NEW f \in Finishers, CallDoes(f) PROVE UNCHANGED <<pending[b], up[b]>>
  BY <1>9, CallAside DEF attemptVars
<1>10. \/ \E a \in Attempts : PublisherDoes(a) \/ UploaderDoes(a)
       \/ \E f \in Finishers : CallDoes(f)
  BY DEF Next, PublisherDoes, UploaderDoes, CallDoes
<1> QED BY <1>5, <1>6, <1>7, <1>8, <1>9, <1>10

\* A step keeps what an attempt gave way to.
LEMMA GivesWayStep ==
    ASSUME IInv, RInv, GInv, Next, NEW b \in Attempts
    PROVE  GivesWay(b)'
<1>0. landed \subseteq landed' BY EveryAttempt DEF Goes
<1>1. Own(b) /\ GivesWay(b) BY OwnFacts DEF GInv
<1>2. Gone \/ OnItsWay => Gone' \/ OnItsWay'
  BY GoneStays, StaysOnItsWay
<1>3. CASE UNCHANGED <<pc[b], mine[b], superseded[b], up[b]>>
  BY <1>0, <1>1, <1>2, <1>3 DEF GivesWay, Finished
<1>4. ASSUME PublisherDoes(b) PROVE GivesWay(b)'
  <2>1. up'[b].pc \in {"winner", "copy"} => landed' # {}
    <3>1. up'[b] = up[b] \/ up'[b] = Idle
      BY <1>4 DEF PublisherDoes, StartRun, RefuseReopen, ReadPrior, Open, Beat, Close, Detach,
                  MainLoad, MainSave, MainRefused, Return, Die, IInv, TypeOK
    <3> QED BY <1>0, <1>1, <3>1 DEF GivesWay, Idle
  <2>2. superseded'[b] => Gone' \/ OnItsWay'
    <3>1. CASE superseded[b] BY <1>1, <1>2, <3>1 DEF GivesWay
    <3>2. CASE ~superseded[b] /\ superseded'[b]
      <4>1. MainLoad(b) /\ Lost(b, HostOf[b], store[HostOf[b]])
        <5>1. superseded' # superseded BY <3>2
        <5>2. MainLoad(b)
          BY <1>4, <5>1 DEF PublisherDoes, StartRun, RefuseReopen, ReadPrior, Open, Beat, Close,
                            Detach, MainSave, MainRefused, Return, Die
        <5>3. ~Lost(b, HostOf[b], store[HostOf[b]]) => superseded' = superseded
          BY <5>2 DEF MainLoad
        <5> QED BY <5>1, <5>2, <5>3
      <4>2. HostOf[b] \in Hosts BY SharedFacts DEF Ids
      <4>3. Finished(store[HostOf[b]]) BY <4>1 DEF Lost, finished_by_another
      <4> QED BY <1>2, <4>2, <4>3, OtherEnding
    <3> QED BY <3>1, <3>2
  <2>3. Finished(mine'[b]) => pc'[b] \in {"closing"} \cup Done
    <3>0. pc \in [Attempts -> Stages] /\ mine \in [Attempts -> Files]
      BY DEF IInv, TypeOK
    <3>1. CASE StartRun(b)
      <4>1. mine'[b].st = "running" BY <3>0, <3>1 DEF StartRun
      <4> QED BY <4>1 DEF Finished
    <3>2. CASE RefuseReopen(b)
      <4>1. mine'[b] = NoFile
        BY <1>1, <3>2 DEF RefuseReopen, ReadPrior, Own, EInv, Life
      <4> QED BY <4>1 DEF Finished
    <3>3. CASE Open(b) \/ Beat(b)
      <4>1. mine[b].st = "running"
        BY <1>1, <3>3 DEF Open, Beat, Own, EInv, Life
      <4>2. mine[b] # NoFile /\ mine[b] \in States
        BY <1>1, <3>0, <3>3 DEF Open, Beat, Own, AInv, Owned, Files
      <4>3. mine'[b] \in {mine[b], [mine[b] EXCEPT !.seq = @ + 1]}
        BY <3>0, <3>3 DEF Open, Beat, Publish
      <4>4. mine'[b].st = "running"
        BY <4>1, <4>2, <4>3 DEF States
      <4> QED BY <4>4 DEF Finished
    <3>4. CASE Close(b)
      <4>1. pc'[b] \in {"closing", "draining"}
        BY <3>0, <3>4 DEF Close, Publish, After
      <4> QED BY <4>1 DEF Done
    <3>5. CASE Detach(b)
      <4>1. mine' = mine /\ mine[b].st = "running"
        BY <1>1, <3>5 DEF Detach, Own, EInv, Life
      <4> QED BY <4>1 DEF Finished
    <3>6. CASE MainLoad(b) \/ MainSave(b) \/ MainRefused(b)
      <4>1. mine' = mine BY <3>6 DEF MainLoad, MainSave, MainRefused
      <4>2. pc[b] = "closing" => pc'[b] \in {"closing", "draining"}
        BY <3>0, <3>6 DEF MainLoad, MainSave, MainRefused, AfterPublish, After
      <4>3. pc[b] \notin Done
        <5>1. main[b].pc # "idle" BY <3>6 DEF MainLoad, MainSave, MainRefused
        <5> QED BY <1>1, <5>1 DEF Own, EInv, Life, Done
      <4> QED BY <1>1, <4>1, <4>2, <4>3 DEF GivesWay, Done
    <3>7. CASE Return(b) \/ Die(b)
      <4>1. pc'[b] \in Done BY <3>0, <3>7 DEF Return, Die, Done
      <4> QED BY <4>1
    <3> QED BY <1>4, <3>1, <3>2, <3>3, <3>4, <3>5, <3>6, <3>7 DEF PublisherDoes
  <2> QED BY <2>1, <2>2, <2>3 DEF GivesWay
<1>5. ASSUME UploaderDoes(b) PROVE GivesWay(b)'
  <2>1. pc' = pc /\ mine' = mine
    BY <1>5 DEF UploaderDoes, UpTake, UpLoad, UpSave, UpRefused, UpWinner, UpCopy, UpFault,
                attemptVars
  <2>2. CASE UpLoad(b) /\ Lost(b, Remote, store[Remote])
    <3>1. HasRemote BY <1>1, <2>2 DEF UpLoad, Own, AInv, Threads, Idle
    <3>2. landed # {}
      BY <2>2, <3>1, RemoteEnding DEF Lost, finished_by_another
    <3> QED BY <1>0, <1>1, <2>1, <3>2 DEF GivesWay, Gone, Finished
  <2>3. CASE ~(UpLoad(b) /\ Lost(b, Remote, store[Remote]))
    <3>1. superseded' = superseded
      BY <1>5, <2>3 DEF UploaderDoes, UpTake, UpLoad, UpSave, UpRefused, UpWinner, UpCopy, UpFault,
                        attemptVars
    <3>2. up'[b].pc \in {"winner", "copy"} => up[b].pc \in {"winner", "copy"}
      <4>1. up[b] \in Cas /\ store[Remote] \in Files BY DEF IInv, TypeOK, Sides
      <4>2. /\ Idle.pc = "idle" /\ Loaded(up[b], store[Remote]).pc = "save"
            /\ Refused(up[b]).pc = "load"
            /\ Begin(b, Remote, pending[b]).pc \in {"load", "save"}
        BY <4>1, CasFacts DEF Begin
      <4>3. UpWinner(b) => up[b].pc = "winner" BY DEF UpWinner
      <4>4. ~UpWinner(b) => up'[b] \in {up[b], Idle, Loaded(up[b], store[Remote]), Refused(up[b]),
                                        Begin(b, Remote, pending[b])}
        BY <1>5, <2>3 DEF UploaderDoes, UpTake, UpLoad, UpSave, UpRefused, UpCopy, UpFault,
                          IInv, TypeOK
      <4> QED BY <4>2, <4>3, <4>4
    <3> QED BY <1>0, <1>1, <1>2, <2>1, <3>1, <3>2 DEF GivesWay, Finished
  <2> QED BY <2>2, <2>3
<1>6. ASSUME NEW a \in Attempts \ {b}, PublisherDoes(a) \/ UploaderDoes(a)
      PROVE  UNCHANGED <<pc[b], mine[b], superseded[b], up[b]>>
  BY <1>6, PublisherAside, UploaderAside
<1>7. ASSUME NEW f \in Finishers, CallDoes(f)
      PROVE  UNCHANGED <<pc[b], mine[b], superseded[b], up[b]>>
  BY <1>7, CallAside DEF attemptVars
<1>8. \/ \E a \in Attempts : PublisherDoes(a) \/ UploaderDoes(a)
      \/ \E f \in Finishers : CallDoes(f)
  BY DEF Next, PublisherDoes, UploaderDoes, CallDoes
<1> QED BY <1>3, <1>4, <1>5, <1>6, <1>7, <1>8

\* Once the threads have nothing left to publish, whoever closed with an ending
\* has ended the run, or somebody else has, or something failed.
LEMMA SettledGone ==
    ASSUME IInv, RInv, GInv, Settled, NEW a \in Attempts, Finished(mine[a])
    PROVE  Gone
<1>1. Own(a) /\ GivesWay(a) BY OwnFacts DEF GInv
<1>2. ~OnItsWay
  BY DEF OnItsWay, Settled, Drained, InPending, InUp, Idle, Finished
<1>3. main[a].pc = "idle" BY DEF Settled, Idle
<1>4. pc[a] \in Done
  BY <1>1, <1>3 DEF GivesWay, Own, EInv, Life
<1>5. CASE superseded[a] BY <1>1, <1>2, <1>5 DEF GivesWay
<1>6. CASE pc[a] \in {"draining", "won", "late"} /\ ~superseded[a]
  BY <1>1, <1>2, <1>6 DEF Own, EInv, NotForgotten, OnItsWay, Gone
<1>7. CASE pc[a] = "lost" BY <1>1, <1>5, <1>7 DEF Own, EInv, Life
<1>8. CASE pc[a] = "dead" BY <1>8 DEF Gone
<1> QED BY <1>4, <1>5, <1>6, <1>7, <1>8 DEF Done

\* FinishEndsRun, of every behaviour in which the threads have nothing left to
\* publish again and again, with no fairness: whatever gives way to whatever,
\* and however the compare-and-swaps interleave, an attempt that finishes has
\* the run ended by somebody's ending, unless a write failed or a process was
\* killed.  For FairSpec, that a compare-and-swap comes to an end is what is
\* left to its fairness.
THEOREM SettledRunEnds == Spec /\ []<>Settled => FinishEndsRun
<1> SUFFICES ASSUME NEW a \in Attempts
             PROVE  Spec /\ []<>Settled =>
                       (pc[a] \in {"closing", "draining"} /\ Finished(mine[a])
                          ~> landed # {} \/ failed # {} \/ \E b \in Attempts : pc[b] = "dead")
  BY DEF FinishEndsRun
<1>1. Init => GInv
  <2> SUFFICES ASSUME Init, NEW b \in Attempts PROVE GivesWay(b)
    BY DEF GInv
  <2>1. mine[b] = NoFile /\ up[b].pc = "idle" BY DEF Init, Idle
  <2>2. superseded[b] = FALSE BY DEF Init
  <2> QED BY <2>1, <2>2 DEF GivesWay, Finished
<1>2. IInv /\ RInv /\ GInv /\ [Next]_vars => GInv'
  <2>1. CASE IInv /\ RInv /\ GInv /\ Next
    BY <2>1, GivesWayStep DEF GInv
  <2>2. CASE GInv /\ UNCHANGED vars
    <3>1. (Gone \/ OnItsWay) => (Gone \/ OnItsWay)'
      BY <2>2 DEF vars, attemptVars, Gone, OnItsWay, InPending, InUp, Finished
    <3>2. ASSUME NEW b \in Attempts PROVE GivesWay(b)'
      BY <2>2, <3>1 DEF vars, attemptVars, GInv, GivesWay, Finished
    <3> QED BY <3>2 DEF GInv
  <2> QED BY <2>1, <2>2
<1>3. IInv /\ RInv /\ Finished(mine[a]) /\ [Next]_vars => Finished(mine[a])'
  BY EveryAttempt DEF Goes, vars, attemptVars, Finished
<1>4. IInv /\ RInv /\ GInv /\ Settled /\ Finished(mine[a]) => Gone
  BY SettledGone
<1>5. Gone <=> landed # {} \/ failed # {} \/ \E b \in Attempts : pc[b] = "dead"
  BY DEF Gone
<1> QED BY <1>1, <1>2, <1>3, <1>4, <1>5, EndingsInvariance, PTL DEF Spec

-----------------------------------------------------------------------------
(***************************************************************************)
(* The refinement: what RunEnding's variables are made of.                 *)
(***************************************************************************)
Winner  == IF Finished(store[Shared]) THEN store[Shared].attempt ELSE NoFile
Granted == [a \in Attempts |->
              IF Finished(prior[a]) /\ tok[a][Shared] = NoFile /\ pc[a] # "refused"
              THEN prior[a].attempt ELSE NoFile]
Forced  == {f \in Finishers : call[f].force = "all"}

\* The shared side is everybody's.
LEMMA SharedIs ==
    /\ Shared \in Sides
    /\ \A i \in Ids : Shared = SharedOf(i)
<1>1. CASE HasRemote BY <1>1 DEF Shared, SharedOf, Sides
<1>2. CASE ~HasRemote
  <2>1. \E h \in Hosts : \A i \in Ids : HostOf[i] = h BY <1>2, RunStateAssumption
  <2>2. Shared \in Hosts /\ \A i \in Ids : HostOf[i] = Shared BY <1>2, <2>1 DEF Shared
  <2> QED BY <1>2, <2>2 DEF SharedOf, Sides
<1> QED BY <1>1, <1>2

\* A step that leaves alone the shared file, what landed, the grants and the
\* forces is none of RunEnding.
LEMMA Unseen ==
    ASSUME store'[Shared] = store[Shared], landed' = landed, UNCHANGED <<prior, call>>,
           \A b \in Attempts : /\ tok'[b][Shared] = tok[b][Shared]
                               /\ pc'[b] = "refused" <=> pc[b] = "refused"
    PROVE  UNCHANGED Ending!vars
<1>1. Winner' = Winner BY DEF Winner, Finished
<1>2. Granted' = Granted BY DEF Granted, Finished
<1>3. Forced' = Forced BY DEF Forced
<1> QED BY <1>1, <1>2, <1>3 DEF Ending!vars, Winner, Granted, Forced

\* An attempt's conditional write on the shared side is an End of its, or, when
\* what it writes is not an ending, a Reopen.
LEMMA AttemptWrites ==
    ASSUME IInv, RInv, NEW a \in Attempts, NEW item, item # NoFile, item.attempt = a,
           a \notin landed, pc[a] # "refused", ~Lost(a, Shared, store[Shared]),
           store' = [store EXCEPT ![Shared] = item],
           landed' = IF Finished(item) THEN landed \cup {a} ELSE landed,
           tok' = tok \/ tok' = [tok EXCEPT ![a][Shared] = item],
           UNCHANGED <<prior, call>>,
           \A b \in Attempts : pc'[b] = "refused" <=> pc[b] = "refused"
    PROVE  Ending!End(a) \/ Ending!Reopen(a)
<1>0. Shared \in Sides /\ a \in Ids /\ Shared = SharedOf(a) BY SharedIs DEF Ids
<1>1. store'[Shared] = item BY <1>0 DEF IInv, TypeOK
<1>2. Winner = NoFile \/ Winner = Granted[a]
  <2>1. CASE Finished(store[Shared])
    <3>1. store[Shared].attempt # a BY <1>0, <2>1 DEF RInv, SharedReal
    <3> QED BY <2>1, <3>1 DEF Lost, finished_by_another, Winner, Granted
  <2> QED BY <2>1 DEF Winner
<1>3. Granted' = Granted \/ Granted' = [Granted EXCEPT ![a] = NoFile]
  <2>1. CASE tok' = tok BY <2>1 DEF Granted, Finished
  <2>2. CASE tok' = [tok EXCEPT ![a][Shared] = item]
    <3>1. tok'[a][Shared] = item /\ \A b \in Attempts \ {a} : tok'[b] = tok[b]
      BY <1>0, <2>2 DEF IInv, TypeOK
    <3>2. Granted'[a] = NoFile /\ \A b \in Attempts \ {a} : Granted'[b] = Granted[b]
      BY <3>1 DEF Granted, Finished
    <3> QED BY <3>2 DEF Granted
  <2> QED BY <2>1, <2>2
<1>4. Forced' = Forced BY DEF Forced
<1>5. CASE Finished(item)
  <2>1. Winner' = a BY <1>1, <1>5 DEF Winner, Finished
  <2>2. Ending!End(a)
    BY <1>2, <1>3, <1>4, <1>5, <2>1 DEF Ending!End, Ending!Spend, Winner, Granted, Forced
  <2> QED BY <2>2
<1>6. CASE ~Finished(item)
  <2>1. Winner' = NoFile BY <1>1, <1>6 DEF Winner, Finished
  <2>2. Ending!Reopen(a)
    BY <1>2, <1>3, <1>4, <1>6, <2>1 DEF Ending!Reopen, Ending!Spend, Winner, Granted, Forced
  <2> QED BY <2>2
<1> QED BY <1>5, <1>6

\* start_run is the Grant of the ending it was opened on, or nothing.
LEMMA StartRefines ==
    ASSUME IInv, RInv, NEW a \in Attempts, StartRun(a) \/ RefuseReopen(a)
    PROVE  (\E w \in Ids : Ending!Grant(a, w)) \/ UNCHANGED Ending!vars
<1>1. /\ pc[a] = "new" /\ prior[a] = NoFile
      /\ UNCHANGED <<store, landed, call, tok>> /\ prior' \in [Attempts -> Files]
      /\ \A b \in Attempts \ {a} : prior'[b] = prior[b] /\ pc'[b] = pc[b]
  <2>1. LoadFile(a) \in Files
    BY SharedFacts DEF LoadFile, IInv, TypeOK, Files, Sides, Ids
  <2>2. pc[a] = "new" /\ EInv(a) BY DEF RInv, StartRun, RefuseReopen, ReadPrior
  <2>3. PICK s \in {LoadFile(a), NoFile} : prior' = [prior EXCEPT ![a] = s]
    BY DEF StartRun, RefuseReopen, ReadPrior
  <2>4. s \in Files BY <2>1 DEF Files
  <2>5. \E at \in Stages : pc' = [pc EXCEPT ![a] = at]
    BY DEF StartRun, RefuseReopen, Stages
  <2> QED BY <2>2, <2>3, <2>4, <2>5 DEF StartRun, RefuseReopen, IInv, TypeOK, EInv, Life
<1>2. Winner' = Winner /\ Forced' = Forced BY <1>1 DEF Winner, Forced, Finished
<1>3. Granted[a] = NoFile BY <1>1 DEF Granted, Finished
<1>4. \A b \in Attempts \ {a} : Granted'[b] = Granted[b] BY <1>1 DEF Granted, Finished
<1>5. CASE Granted'[a] = NoFile
  <2>1. Granted' = Granted BY <1>3, <1>4, <1>5 DEF Granted
  <2> QED BY <1>1, <1>2, <2>1 DEF Ending!vars, Winner, Granted, Forced
<1>6. CASE Granted'[a] # NoFile
  <2>1. Finished(prior'[a]) /\ Granted'[a] = prior'[a].attempt BY <1>6 DEF Granted, Finished
  <2>2. prior'[a] \in States BY <1>1, <2>1, StateFacts DEF Finished
  <2>3. PICK w \in Ids : w = Granted'[a] BY <2>1, <2>2 DEF States
  <2>4. Granted' = [Granted EXCEPT ![a] = w]
    <3>1. \A b \in Attempts : Granted'[b] = IF b = a THEN w ELSE Granted[b] BY <1>4, <2>3
    <3>2. /\ Granted' = [b \in Attempts |-> Granted'[b]]
          /\ Granted = [b \in Attempts |-> Granted[b]]
      BY DEF Granted
    <3> QED BY <3>1, <3>2
  <2>5. Ending!Grant(a, w)
    BY <1>1, <1>2, <1>3, <2>4 DEF Ending!Grant, Winner, Granted, Forced
  <2> QED BY <2>5
<1> QED BY <1>5, <1>6

\* A publisher's save is seen only when its side is the shared one.
LEMMA MainSaveRefines ==
    ASSUME IInv, RInv, NEW a \in Attempts, MainSave(a)
    PROVE  Ending!End(a) \/ Ending!Reopen(a) \/ UNCHANGED Ending!vars
<1>1. Own(a) BY OwnFacts
<1>2. /\ main[a].pc = "save" /\ main[a].item # NoFile /\ main[a].item.attempt = a
      /\ pc[a] \in {"opening", "running", "closing"} /\ a \notin landed
      /\ ~Lost(a, HostOf[a], main[a].token)
  BY <1>1 DEF MainSave, Own, AInv, Owned, Decided, EInv, Life, OnePlace, Done
<1>3. /\ main[a].token = store[HostOf[a]] /\ store' = [store EXCEPT ![HostOf[a]] = main[a].item]
      /\ Record(a, HostOf[a], main[a].item)
      /\ tok' = [tok EXCEPT ![a][HostOf[a]] = main[a].item]
      /\ UNCHANGED <<prior, call>>
  BY DEF MainSave, Write
<1>4. \A b \in Attempts : pc'[b] = "refused" <=> pc[b] = "refused"
  BY <1>2 DEF MainSave, AfterPublish, After, IInv, TypeOK
<1>5. Shared = SharedOf(a) /\ Shared \in Sides /\ HostOf[a] \in Sides BY SharedIs, SharedFacts DEF Ids
<1>6. CASE Shared = HostOf[a]
  <2>1. landed' = IF Finished(main[a].item) THEN landed \cup {a} ELSE landed
    BY <1>2, <1>3, <1>5, <1>6 DEF Record
  <2> QED BY <1>2, <1>3, <1>4, <1>6, <2>1, AttemptWrites
<1>7. CASE Shared # HostOf[a]
  <2>1. landed' = landed /\ store'[Shared] = store[Shared]
    BY <1>3, <1>5, <1>7 DEF Record, IInv, TypeOK
  <2>2. \A b \in Attempts : tok'[b][Shared] = tok[b][Shared]
    BY <1>3, <1>5, <1>7 DEF IInv, TypeOK
  <2> QED BY <1>3, <1>4, <2>1, <2>2, Unseen
<1> QED BY <1>6, <1>7

\* A worker's save, or one whose answer was lost, is an End or a Reopen.
LEMMA UpSaveRefines ==
    ASSUME IInv, RInv, NEW a \in Attempts, UpSave(a) \/ UpFault(a)
    PROVE  Ending!End(a) \/ Ending!Reopen(a) \/ UNCHANGED Ending!vars
<1>1. Own(a) BY OwnFacts
<1>2. /\ up[a].pc # "idle" /\ HasRemote /\ a \notin landed /\ pc[a] # "refused"
      /\ up[a].pc = "save" => /\ up[a].item # NoFile /\ up[a].item.attempt = a
                              /\ ~Lost(a, Remote, up[a].token)
  BY <1>1 DEF UpSave, UpFault, Own, AInv, Owned, Threads, Decided, EInv, Life, OnePlace, Idle
<1>3. Shared = Remote /\ SharedOf(a) = Remote BY <1>2 DEF Shared, SharedOf
<1>4. UNCHANGED <<prior, call, pc>> BY DEF UpSave, UpFault, attemptVars
<1>5. CASE UNCHANGED <<store, landed, tok>> BY <1>4, <1>5, Unseen
<1>6. CASE ~UNCHANGED <<store, landed, tok>>
  <2>1. /\ up[a].pc = "save" /\ store[Remote] = up[a].token
        /\ store' = [store EXCEPT ![Remote] = up[a].item] /\ Record(a, Remote, up[a].item)
        /\ tok' = tok \/ tok' = [tok EXCEPT ![a][Remote] = up[a].item]
    BY <1>6 DEF UpSave, UpFault, Write, attemptVars
  <2>2. landed' = IF Finished(up[a].item) THEN landed \cup {a} ELSE landed
    BY <1>2, <1>3, <2>1 DEF Record
  <2> QED BY <1>2, <1>3, <1>4, <2>1, <2>2, AttemptWrites
<1> QED BY <1>5, <1>6

\* The other steps of an attempt are none of RunEnding.
LEMMA AttemptUnseen ==
    ASSUME IInv, RInv, NEW a \in Attempts,
           \/ Open(a) \/ Beat(a) \/ Close(a) \/ Detach(a) \/ MainLoad(a) \/ MainRefused(a)
           \/ Return(a) \/ Die(a) \/ UpTake(a) \/ UpLoad(a) \/ UpRefused(a) \/ UpWinner(a)
           \/ UpCopy(a)
    PROVE  UNCHANGED Ending!vars
<1>1. Own(a) BY OwnFacts
<1>2. UNCHANGED <<landed, prior, call, tok>>
  BY DEF Open, Beat, Close, Detach, MainLoad, MainRefused, Return, Die, UpTake, UpLoad, UpRefused,
         UpWinner, UpCopy, attemptVars
<1>3. store'[Shared] = store[Shared]
  <2>1. CASE UpCopy(a)
    <3>1. HasRemote BY <1>1, <2>1 DEF UpCopy, Own, AInv, Threads, Idle
    <3>2. Shared = Remote /\ HostOf[a] # Remote BY <3>1, SharedFacts DEF Shared, Ids
    <3> QED BY <2>1, <3>2, SharedIs DEF UpCopy, Write, IInv, TypeOK
  <2> QED BY <2>1 DEF Open, Beat, Close, Detach, MainLoad, MainRefused, Return, Die, UpTake, UpLoad,
                      UpRefused, UpWinner
<1>4. \A b \in Attempts : pc'[b] = "refused" <=> pc[b] = "refused"
  <2>1. main[a].pc # "idle" => pc[a] \in {"opening", "running", "closing"}
    BY <1>1 DEF Own, EInv, Life
  <2>2. CASE UpTake(a) \/ UpLoad(a) \/ UpRefused(a) \/ UpWinner(a) \/ UpCopy(a)
    BY <2>2 DEF UpTake, UpLoad, UpRefused, UpWinner, UpCopy, attemptVars
  <2>3. CASE Open(a) \/ Beat(a) \/ Close(a)
    BY <2>3 DEF Open, Beat, Close, Publish, After, IInv, TypeOK
  <2>4. CASE Detach(a) \/ Return(a) \/ Die(a)
    BY <2>4 DEF Detach, Return, Die, IInv, TypeOK
  <2>5. CASE MainLoad(a) BY <2>1, <2>5 DEF MainLoad, AfterPublish, After, IInv, TypeOK
  <2>6. CASE MainRefused(a) BY <2>1, <2>6 DEF MainRefused, AfterPublish, After, IInv, TypeOK
  <2> QED BY <2>2, <2>3, <2>4, <2>5, <2>6
<1> QED BY <1>2, <1>3, <1>4, Unseen

\* A finish_run call asks for force, ends the run with its save, or is unseen.
LEMMA CallRefines ==
    ASSUME IInv, RInv, NEW f \in Finishers, CallDoes(f)
    PROVE  Ending!AskForce(f) \/ Ending!End(f) \/ UNCHANGED Ending!vars
<1>0. call \in [Finishers -> Calls] /\ call[f] \in Calls BY DEF IInv, TypeOK
<1>1. UNCHANGED <<pc, prior, tok>> /\ \A g \in Finishers \ {f} : call'[g] = call[g]
  BY CallAside DEF attemptVars
<1>2. Granted' = Granted BY <1>1 DEF Granted, Finished
<1>3. CASE FinSave(f)
  <2>1. /\ fin[f].pc = "save" /\ fin[f].item # NoFile /\ fin[f].item.attempt = f
        /\ Finished(fin[f].item) /\ f \notin landed
        /\ Finished(fin[f].token) => call[f].force = "all"
    BY <1>3 DEF FinSave, IInv, FinDecided, RInv, CallOnce
  <2>2. Shared = SharedOf(f) /\ Shared \in Sides BY SharedIs DEF Ids
  <2>3. /\ store[Shared] = fin[f].token /\ store' = [store EXCEPT ![Shared] = fin[f].item]
        /\ landed' = landed \cup {f}
    BY <1>3, <2>1, <2>2 DEF FinSave, Write, Record
  <2>4. Winner' = f BY <2>1, <2>2, <2>3 DEF Winner, Finished, IInv, TypeOK
  <2>5. call'[f].force = call[f].force BY <1>0, <1>3 DEF FinSave, Ended
  <2>6. Forced' = Forced BY <1>1, <2>5 DEF Forced
  <2>7. Winner = NoFile \/ f \in Forced BY <2>1, <2>3 DEF Winner, Forced
  <2>8. Ending!End(f)
    BY <1>2, <2>1, <2>3, <2>4, <2>6, <2>7 DEF Ending!End, Ending!Spend, Winner, Granted, Forced
  <2> QED BY <2>8
<1>4. ASSUME ~FinSave(f) PROVE store'[Shared] = store[Shared] /\ landed' = landed
  <2>1. CASE FinCopy(f)
    <3>1. HasRemote BY <2>1 DEF FinCopy, IInv, FinDecided
    <3>2. Shared = Remote /\ HostOf[f] # Remote BY <3>1, SharedFacts DEF Shared, Ids
    <3> QED BY <2>1, <3>2, SharedIs DEF FinCopy, Write, IInv, TypeOK
  <2> QED BY <1>4, <2>1 DEF CallDoes, FinishRun, FinLoad, FinRefused, FinDie
<1>5. CASE FinishRun(f)
  <2>0. ~FinSave(f) BY <1>5 DEF FinishRun, FinSave, IInv, FinDecided
  <2>1. call[f].force = "no" BY <1>5 DEF FinishRun, RInv, CallOnce
  <2>2. Winner' = Winner BY <1>4, <2>0 DEF Winner, Finished
  <2>3. Forced' = Forced \/ Forced' = Forced \cup {f} BY <1>1, <2>1 DEF Forced
  <2>4. CASE Forced' = Forced
    BY <1>2, <1>4, <2>0, <2>2, <2>4 DEF Ending!vars, Winner, Granted, Forced
  <2>5. CASE Forced' = Forced \cup {f}
    BY <1>2, <1>4, <2>0, <2>2, <2>5 DEF Ending!AskForce, Winner, Granted, Forced
  <2> QED BY <2>3, <2>4, <2>5
<1>6. CASE ~FinSave(f) /\ ~FinishRun(f)
  <2>1. call'[f].force = call[f].force
    BY <1>0, <1>6 DEF CallDoes, FinLoad, FinRefused, FinCopy, FinDie, Ended
  <2>2. Forced' = Forced BY <1>1, <2>1 DEF Forced
  <2>3. Winner' = Winner BY <1>4, <1>6 DEF Winner, Finished
  <2> QED BY <1>2, <1>4, <1>6, <2>2, <2>3 DEF Ending!vars, Winner, Granted, Forced
<1> QED BY <1>3, <1>5, <1>6

\* Every step of the publishers, workers and calls is a step of RunEnding, or
\* none.
LEMMA StepRefines ==
    ASSUME IInv, RInv, Next
    PROVE  Ending!Next \/ UNCHANGED Ending!vars
<1>1. ASSUME NEW a \in Attempts, PublisherDoes(a) \/ UploaderDoes(a)
      PROVE  \/ \E w \in Attempts \cup Finishers : Ending!Grant(a, w)
             \/ Ending!End(a) \/ Ending!Reopen(a) \/ UNCHANGED Ending!vars
  BY <1>1, StartRefines, MainSaveRefines, UpSaveRefines, AttemptUnseen
     DEF PublisherDoes, UploaderDoes, Ids
<1>2. \/ \E a \in Attempts : PublisherDoes(a) \/ UploaderDoes(a)
      \/ \E f \in Finishers : CallDoes(f)
  BY DEF Next, PublisherDoes, UploaderDoes, CallDoes
<1> QED BY <1>1, <1>2, CallRefines DEF Ending!Next

\* For any number of attempts, finish_run calls and hosts, with or without a
\* remote, through crashes and lost answers: the detailed protocol keeps the
\* promise of RunEnding, one ending at a time, each at most once, replaced only
\* under a reopen or a force.
THEOREM ImplementsRunEndingAlways == Spec => ImplementsRunEnding
<1>1. Init => Ending!Init
  <2> SUFFICES ASSUME Init PROVE Ending!Init
    OBVIOUS
  <2>1. Winner = NoFile BY SharedIs DEF Init, Winner, Finished
  <2>2. Granted = [a \in Attempts |-> NoFile] BY DEF Init, Granted, Finished
  <2>3. Forced = {} BY DEF Init, Forced
  <2>4. landed = {} BY DEF Init
  <2> QED BY <2>1, <2>2, <2>3, <2>4 DEF Ending!Init, Winner, Granted, Forced
<1>2. IInv /\ RInv /\ [Next]_vars => [Ending!Next]_(Ending!vars)
  <2>1. UNCHANGED vars => UNCHANGED Ending!vars
    BY Unseen DEF vars, attemptVars
  <2> QED BY <2>1, StepRefines
<1> QED BY <1>1, <1>2, EndingsInvariance, PTL DEF Spec, ImplementsRunEnding, Ending!Spec
=============================================================================
