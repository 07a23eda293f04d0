------------------------------ MODULE Streams -------------------------------
(***************************************************************************)
(* One log or metric stream of a run: the local file its owner appends to, *)
(* the objects shipped from it to the remote, and their compaction         *)
(* (vmn_exp.storage.cached_logs, cached_metrics, s3_logs, s3_metrics,      *)
(* core.logfiles, core.metric_files, core.adopt).                          *)
(*                                                                         *)
(* The processes of the owning copy of the record ship one at a time,      *)
(* under its ship lock.  A segment is created only if its key is free, so  *)
(* a request that was given up and lands late does no harm.  A merged      *)
(* object (a log's "0-last", a metric stream's .vmx) hides the segments up *)
(* to its last one, which are deleted next.  A copy of the directory may   *)
(* adopt the stream when the original is gone, another clone may compact   *)
(* the metrics it finds on the remote, and a reader lists and then fetches.*)
(*                                                                         *)
(* Entries (log lines, metric blocks) are numbered in the order they are   *)
(* appended; an object holds the entries from + 1 .. to.  Objects that are *)
(* read together are contiguous (RemoteIsPrefix), so the bytes the remote  *)
(* holds are where the last of them ends.                                  *)
(***************************************************************************)
EXTENDS Integers, FiniteSets

CONSTANTS
    Kinds,       \* the kinds of stream: "log", "metrics"
    Procs,       \* the processes that sync the stream
    Crews,       \* which record copy, "orig" or "copy", each process may belong to
    Guests,      \* who else is there: a "reader", another clone that compacts ("far")
    Late,        \* kinds whose given up requests may land later
    Rollup,      \* LIVE_ROLLUP_SEGMENTS
    Lag,         \* LIVE_ROLLUP_LAG, of metrics
    Attempts,    \* _SHIP_ATTEMPTS
    MaxEntries,  \* bound on the entries of the stream
    MaxFailures  \* bound on failed requests and killed processes

Copies == {"orig", "copy"}
None == "none"

ASSUME StreamsAssumption ==
    /\ Kinds \subseteq {"log", "metrics"} /\ Late \subseteq Kinds
    /\ Guests \subseteq {"reader", "far"}
    /\ Crews \subseteq [Procs -> Copies] /\ None \notin Procs
    /\ Rollup \in Nat \ {0} /\ Lag \in Nat \ {0} /\ Attempts \in Nat \ {0}
    /\ MaxEntries \in Nat /\ MaxFailures \in Nat

VARIABLES
    kind,
    guest,     \* who else is there
    copyOf,    \* the record copy of each process
    file,      \* entries in the stream's local file of each copy (0: no file)
    state,     \* its .ship state: what the remote holds of the stream
    lock,      \* the holder of its ship lock
    owns,      \* the copies that own the stream
    retired,   \* whether the stream is appended to no more
    sealed,    \* copies whose file is the compacted .vmx
    finished,  \* the run has finished
    objs,      \* the stream's objects on the remote
    flight,    \* requests that were given up and have not landed
    proc,      \* the sync or compaction of each process
    once,      \* processes that compacted the finished log (_compacted)
    far,       \* another clone's compaction
    read,      \* a reader's listing and fetches
    failures

vars == <<kind, guest, copyOf, file, state, lock, owns, retired, sealed, finished, objs, flight, proc,
          once, far, read, failures>>

\* merged: a compacted object, of the segments up to last.  resume: an owner
\* without a ship state can tell from it where the stream goes on.
Objects == [merged : BOOLEAN, last : Nat, resume : BOOLEAN, from : Nat, to : Nat]
Held    == [to : Nat, next : Nat]
NoState == [to |-> 0, next |-> -1]
INDEXED == [to |-> -1, next |-> -1]
Names   == SUBSET (BOOLEAN \X Nat)

Name(o) == <<o.merged, o.last>>
Segment(seq, from, to) ==
    [merged |-> FALSE, last |-> seq, resume |-> TRUE, from |-> from, to |-> to]
Nothing == Segment(0, 0, 0)
Merged(last, to, resume) ==
    [merged |-> TRUE, last |-> last, resume |-> resume, from |-> 0, to |-> to]

\* What a process is at: its request, the keys it has listed or will delete,
\* and the bytes of the file it saw before it took the lock.
Rest(at) == [at |-> at, obj |-> Nothing, keys |-> {}, size |-> 0, tries |-> 0]
Stages == {"idle", "dead", "lock", "ship", "put", "list", "get", "create", "plan",
           "rollup", "build", "replace", "delete", "seal"}

\* What a reader has still to fetch, where the entries it has end, what is
\* wrong with them, and where the stream ended when it began.
Reader(at, flaw) == [at |-> at, todo |-> {}, upto |-> 0, base |-> 0, flaw |-> flaw]

TypeOK ==
    /\ kind \in Kinds /\ guest \in Guests /\ copyOf \in Crews
    /\ file \in [Copies -> Nat]
    /\ state \in [Copies -> Held \cup {NoState, INDEXED}]
    /\ lock \in [Copies -> Procs \cup {None}]
    /\ owns \subseteq Copies /\ sealed \subseteq Copies
    /\ retired \in BOOLEAN /\ finished \in BOOLEAN
    /\ objs \subseteq Objects
    /\ flight \subseteq [op : {"create", "put", "delete"}, obj : Objects]
    /\ \A p \in Procs : proc[p] \in
          [at : Stages, obj : Objects, keys : Names, size : Nat, tries : 0 .. Attempts]
    /\ once \subseteq Procs
    /\ far \in [at : {"idle", "get", "create", "delete"}, obj : Objects, keys : Names]
    /\ read \in [at : {"idle", "get", "done"}, todo : SUBSET Objects, upto : Nat, base : Nat,
                 flaw : {"none", "gap", "twice"}]
    /\ failures \in Nat

Init ==
    /\ kind \in Kinds /\ guest \in Guests /\ copyOf \in Crews
    /\ file = [c \in Copies |-> 0]
    /\ state = [c \in Copies |-> NoState]
    /\ lock = [c \in Copies |-> None]
    /\ owns = {"orig"}
    /\ retired = FALSE /\ sealed = {} /\ finished = FALSE
    /\ objs = {} /\ flight = {}
    /\ proc = [p \in Procs |-> Rest("idle")]
    /\ once = {}
    /\ far = [at |-> "idle", obj |-> Nothing, keys |-> {}]
    /\ read = Reader("idle", "none")
    /\ failures = 0

-----------------------------------------------------------------------------
(***************************************************************************)
(* The objects on the remote.                                              *)
(***************************************************************************)

Hides(m, o) == m.merged /\ m # o /\ o.last <= m.last

\* visible_spans, group_metric_names: the widest merged object and the segments
\* past it.
Visible(S) == {o \in S : \A m \in S : ~Hides(m, o)}

\* The end of the stream there, and the last segment that is held or covered.
End(S)     == CHOOSE n \in {0} \cup {o.to : o \in S} : \A o \in S : o.to <= n
LastSeq(S) == CHOOSE n \in {-1} \cup {o.last : o \in S} : \A o \in S : o.last <= n
Shown      == End(Visible(objs))

There(name) == \E o \in objs : Name(o) = name

\* superseded: what a .vmx that covers up to last hides.
Superseded(S, last) ==
    {Name(o) : o \in {q \in S : IF q.merged THEN q.last < last ELSE q.last <= last}}

\* A request takes effect: a create only if the key is free.
Landed(op, obj) ==
    CASE op = "create" -> IF There(Name(obj)) THEN objs ELSE objs \cup {obj}
      [] op = "put"    -> {o \in objs : Name(o) # Name(obj)} \cup {obj}
      [] op = "delete" -> {o \in objs : Name(o) # Name(obj)}

-----------------------------------------------------------------------------
(***************************************************************************)
(* The owner's processes: sync_log_to_remote, sync_metrics_to_remote.      *)
(***************************************************************************)

\* What stays as it was in Init.
env == <<kind, guest, copyOf>>

copyVars  == <<env, file, owns, retired, sealed, finished>>
otherVars == <<flight, far, read>>

Set(p, r)   == proc' = [proc EXCEPT ![p] = r]
Go(p, at)   == Set(p, [proc[p] EXCEPT !.at = at])
Take(p)     == lock[copyOf[p]] = None /\ lock' = [lock EXCEPT ![copyOf[p]] = p]
Release(p)  == lock' = [c \in Copies |-> IF lock[c] = p THEN None ELSE lock[c]]
Keep(p, st) == state' = [state EXCEPT ![copyOf[p]] = st]

Append ==
    /\ "orig" \in owns /\ ~retired
    /\ \E p \in Procs : copyOf[p] = "orig" /\ proc[p].at # "dead"
    /\ file["orig"] < MaxEntries
    /\ file' = [file EXCEPT !["orig"] = @ + 1]
    /\ UNCHANGED <<env, state, lock, owns, retired, sealed, finished, objs, proc, once,
                   otherVars, failures>>

\* Of a run's end only the log takes notice: metrics are compacted by Compact.
Finish ==
    /\ kind = "log" /\ ~finished
    /\ finished' = TRUE
    /\ UNCHANGED <<env, file, state, lock, owns, retired, sealed, objs, proc, once,
                   otherVars, failures>>

\* The size of the local file is read before the lock is taken.
Sync(p) ==
    /\ proc[p].at = "idle"
    /\ copyOf[p] \in owns /\ file[copyOf[p]] > 0
    /\ Set(p, [Rest("lock") EXCEPT !.size = IF kind = "log" THEN file[copyOf[p]] ELSE 0])
    /\ UNCHANGED <<copyVars, state, lock, objs, once, otherVars, failures>>

Lock(p) ==
    /\ proc[p].at = "lock"
    /\ Take(p)
    /\ Go(p, "ship")
    /\ UNCHANGED <<copyVars, state, objs, once, otherVars, failures>>

\* The lock is waited for LOCK_WAIT_SEC at most: the next sync tries again.
GiveUp(p) ==
    /\ proc[p].at = "lock" /\ lock[copyOf[p]] # None
    /\ Set(p, Rest("idle"))
    /\ UNCHANGED <<copyVars, state, lock, objs, once, otherVars, failures>>

\* live_rollup_due; a big stream, a finalizer or an exit flush has none.
Due(seq) == seq > 0 /\ seq % Rollup = 0

\* The stream is shipped (seq: the segment it took, or -1).  Under the lock a
\* log is compacted once the run has finished, or rolled up; metrics are
\* rolled up after the lock is given back.
Shipped(p, seq, to) ==
    LET rolled == [Rest("plan") EXCEPT !.obj = Segment(seq, to, to)]
    IN \/ kind = "log" /\ finished /\ p \notin once /\ Set(p, Rest("list")) /\ UNCHANGED lock
       \/ kind = "log" /\ ~finished /\ Due(seq) /\ Set(p, Rest("list")) /\ UNCHANGED lock
       \/ kind = "metrics" /\ Due(seq - Lag) /\ Set(p, rolled) /\ Release(p)
       \/ /\ ~(kind = "log" /\ finished /\ p \notin once)
          /\ Set(p, Rest("idle")) /\ Release(p)

\* Mutant: the next segment is the last one.
ListedLast == [to |-> Shown, next |-> LastSeq(Visible(objs))]

\* What the remote's listing says it holds of the stream.
Listed == [to |-> Shown, next |-> LastSeq(Visible(objs)) + 1]

Known(p) == state[copyOf[p]] \notin {NoState, INDEXED}

\* Another copy compacted the metrics: nothing tells where their stream goes on.
Unresumable(p) ==
    kind = "metrics" /\ ~Known(p) /\ \E o \in Visible(objs) : o.merged /\ ~o.resume

\* _ship_stream, _ship_blocks up to the upload, during which the ship state is
\* forgotten.
Ship(p) ==
    LET c    == copyOf[p]
        held == IF Known(p) THEN state[c] ELSE Listed
    IN /\ proc[p].at = "ship"
       /\ c \notin sealed /\ ~Unresumable(p)
       /\ IF file[c] <= held.to \/ (kind = "log" /\ proc[p].size <= held.to)
          THEN Keep(p, held) /\ Shipped(p, -1, 0)
          ELSE /\ Keep(p, NoState)
               /\ Set(p, [proc[p] EXCEPT !.at = "put",
                                         !.obj = Segment(held.next, held.to, file[c])])
               /\ UNCHANGED lock
       /\ UNCHANGED <<copyVars, objs, once, otherVars, failures>>

\* Mutant: all the file has now is taken as shipped.
HoldsFile(p, o) == [to |-> file[copyOf[p]], next |-> o.last + 1]

\* What the remote holds once it has o.
Holds(p, o) == [to |-> o.to, next |-> o.last + 1]

\* _ship, create_log_segment, create_metric_segment; a key that is taken means
\* listing again.
Upload(p) ==
    LET o == proc[p].obj
    IN /\ proc[p].at = "put"
       /\ IF There(Name(o))
          THEN /\ IF proc[p].tries + 1 = Attempts THEN Set(p, Rest("idle")) /\ Release(p)
                  ELSE /\ Set(p, [proc[p] EXCEPT !.at = "ship", !.tries = @ + 1])
                       /\ UNCHANGED lock
               /\ UNCHANGED <<objs, state>>
          ELSE /\ objs' = Landed("create", o)
               /\ Keep(p, Holds(p, o))
               /\ Shipped(p, o.last, o.to)
       /\ UNCHANGED <<copyVars, once, otherVars, failures>>

-----------------------------------------------------------------------------
(***************************************************************************)
(* Compaction by the owner: of a log (compact_log_segments), the rollup of *)
(* live metrics (_roll_up_metrics), and of metrics at a writer's end or    *)
(* after another copy's compaction (compact_writer, _recompact).           *)
(***************************************************************************)

\* The compaction is over: the lock is given back.  (A log's is not repeated.)
Over(p) == Set(p, Rest("idle")) /\ Release(p)
Once(p) == once' = IF kind = "log" THEN once \cup {p} ELSE once

\* Mutant: the merged object is named after the next segment.
MergeOfNext(S) == Merged(LastSeq(S) + 1, End(S), TRUE)

MergeOf(S) == Merged(LastSeq(S), End(S), TRUE)

MergeList(p) ==
    LET V == Visible(objs)
    IN /\ proc[p].at = "list"
       /\ IF Cardinality(V) < 2
          THEN Once(p) /\ Over(p)
          ELSE /\ Set(p, [Rest("get") EXCEPT !.obj = MergeOf(V), !.keys = {Name(o) : o \in V}])
               /\ UNCHANGED <<once, lock>>
       /\ UNCHANGED <<copyVars, state, objs, otherVars, failures>>

\* An object that is gone ends the compaction.
MergeGet(p) ==
    /\ proc[p].at = "get"
    /\ IF \A k \in proc[p].keys : There(k) THEN Go(p, "create") /\ UNCHANGED <<once, lock>>
       ELSE Once(p) /\ Over(p)
    /\ UNCHANGED <<copyVars, state, objs, otherVars, failures>>

\* The merged object is created, if nobody did, before anything is deleted.
MergeCreate(p) ==
    LET o == proc[p].obj
    IN /\ proc[p].at = "create"
       /\ IF There(Name(o))
          THEN Once(p) /\ Over(p) /\ UNCHANGED objs
          ELSE /\ objs' = Landed("create", o)
               /\ Set(p, [proc[p] EXCEPT !.at = "delete",
                          !.keys = IF kind = "log" THEN @ ELSE Superseded(objs', o.last)])
               /\ UNCHANGED <<once, lock>>
       /\ UNCHANGED <<copyVars, state, otherVars, failures>>

\* _delete_keys, one by one.  A .vmx built from the local file then replaces it.
Delete(p) ==
    LET left == {k \in proc[p].keys : There(k)}
    IN /\ proc[p].at = "delete"
       /\ \/ /\ \E k \in left : objs' = {o \in objs : Name(o) # k}
             /\ UNCHANGED <<state, proc, once, lock>>
          \/ /\ left = {} /\ proc[p].obj.resume
             /\ Once(p) /\ Over(p)
             /\ UNCHANGED <<state, objs>>
          \/ /\ left = {} /\ ~proc[p].obj.resume
             /\ Keep(p, INDEXED)
             /\ Go(p, "seal")
             /\ UNCHANGED <<objs, once, lock>>
       /\ UNCHANGED <<copyVars, otherVars, failures>>

\* metric_rollup.plan: up to Lag segments before the one that was shipped, when
\* the ones after it are listed; built from the local file.
Plan(p) ==
    LET seq    == proc[p].obj.last
        covers == seq - Lag
        later  == {o \in Visible(objs) : ~o.merged /\ o.last \in (covers + 1) .. seq}
        upto   == {o.from : o \in {q \in later : q.last = covers + 1}}
    IN /\ proc[p].at = "plan"
       /\ IF Cardinality(later) = Lag /\ copyOf[p] \notin sealed
          THEN Set(p, [Rest("rollup") EXCEPT
                          !.obj = Merged(covers, CHOOSE n \in upto : TRUE, TRUE)])
          ELSE Set(p, Rest("idle"))
       /\ UNCHANGED <<copyVars, state, lock, objs, once, otherVars, failures>>

\* Under the lock again: put unless the stream was compacted, or its ship state
\* lost, meanwhile.
RollUp(p) ==
    /\ proc[p].at = "rollup"
    /\ IF Known(p) /\ state[copyOf[p]].to >= proc[p].obj.to
       THEN Take(p) /\ Go(p, "create")
       ELSE lock[copyOf[p]] = None /\ Set(p, Rest("idle")) /\ UNCHANGED lock
    /\ UNCHANGED <<copyVars, state, objs, once, otherVars, failures>>

\* compact_writer in the owner's copy: at the writer's end, for a seal, by
\* `vmn-exp compact`; and by a sync that finds another copy's .vmx.
Compact(p) ==
    /\ kind = "metrics"
    /\ \/ /\ proc[p].at = "idle"
          /\ copyOf[p] \in owns \ sealed /\ file[copyOf[p]] > 0
          /\ Take(p)
       \/ proc[p].at = "ship" /\ copyOf[p] \notin sealed /\ Unresumable(p) /\ UNCHANGED lock
    /\ Set(p, Rest("build"))
    /\ UNCHANGED <<copyVars, state, objs, once, otherVars, failures>>

\* Mutant: the stream is not retired.
BuildLive(p) ==
    /\ proc[p].at = "build"
    /\ Keep(p, NoState)
    /\ Set(p, [Rest("replace") EXCEPT
                  !.obj = Merged(IF objs = {} THEN 0 ELSE LastSeq(Visible(objs)),
                                 file[copyOf[p]], FALSE)])
    /\ UNCHANGED <<env, file, retired, owns, sealed, finished, lock, objs, once, otherVars,
                   failures>>

\* The stream is retired, then built from the whole local file; it covers every
\* segment the remote holds (CachedMetrics.put_indexed).
Build(p) ==
    /\ proc[p].at = "build"
    /\ retired' = TRUE
    /\ Keep(p, NoState)
    /\ Set(p, [Rest("replace") EXCEPT
                  !.obj = Merged(IF objs = {} THEN 0 ELSE LastSeq(Visible(objs)),
                                 file[copyOf[p]], FALSE)])
    /\ UNCHANGED <<env, file, owns, sealed, finished, lock, objs, once, otherVars, failures>>

\* _ship_indexed: the file is a .vmx that the remote is not known to hold.
ShipIndexed(p) ==
    LET c == copyOf[p]
    IN /\ proc[p].at = "ship" /\ c \in sealed
       /\ IF state[c] = INDEXED THEN Over(p)
          ELSE /\ Set(p, [Rest("replace") EXCEPT
                             !.obj = Merged(LastSeq(Visible(objs)), file[c], FALSE)])
               /\ UNCHANGED lock
       /\ UNCHANGED <<copyVars, state, objs, once, otherVars, failures>>

\* S3Metrics.put_indexed with replace.
Replace(p) ==
    /\ proc[p].at = "replace"
    /\ objs' = Landed("put", proc[p].obj)
    /\ Set(p, [proc[p] EXCEPT !.at = "delete",
                              !.keys = Superseded(objs', proc[p].obj.last)])
    /\ UNCHANGED <<copyVars, state, lock, once, otherVars, failures>>

\* The local file becomes the .vmx.  A sync that compacted forgets the ship
\* state that it holds itself.
Seal(p) ==
    /\ proc[p].at = "seal"
    /\ sealed' = sealed \cup {copyOf[p]}
    /\ \E st \in {INDEXED, NoState} : Keep(p, st)
    /\ Over(p)
    /\ UNCHANGED <<env, file, owns, retired, finished, objs, once, otherVars, failures>>

-----------------------------------------------------------------------------
(***************************************************************************)
(* Failures.                                                               *)
(***************************************************************************)

\* The request a process is waiting for.
Requests(p) ==
    CASE proc[p].at \in {"put", "create"} -> {[op |-> "create", obj |-> proc[p].obj]}
      [] proc[p].at = "replace" -> {[op |-> "put", obj |-> proc[p].obj]}
      [] proc[p].at = "delete" ->
            {[op |-> "delete", obj |-> o] : o \in {q \in objs : Name(q) \in proc[p].keys}}
      [] OTHER -> {}

\* A request that fails did not get there, did, or will.
Outcome(p) ==
    \/ UNCHANGED <<objs, flight>>
    \/ \E r \in Requests(p) : objs' = Landed(r.op, r.obj) /\ UNCHANGED flight
    \/ /\ kind \in Late
       /\ \E r \in Requests(p) : flight' = flight \cup {r}
       /\ UNCHANGED objs

\* A call raises, or the process is killed; the lock goes with it, what the
\* ship state forgot stays forgotten.
Fail(p) ==
    /\ failures < MaxFailures /\ failures' = failures + 1
    /\ proc[p].at \notin {"dead", "lock"}
    /\ \E at \in IF proc[p].at = "idle" THEN {"dead"} ELSE {"idle", "dead"} : Set(p, Rest(at))
    /\ Outcome(p)
    /\ Release(p)
    /\ UNCHANGED <<copyVars, state, once, far, read>>

\* Another process of the copy, or the run that is resumed there.
Restart(p) ==
    /\ proc[p].at = "dead" /\ copyOf[p] \in owns
    /\ Set(p, Rest("idle"))
    /\ once' = once \ {p}
    /\ UNCHANGED <<copyVars, state, lock, objs, otherVars, failures>>

Land ==
    /\ \E r \in flight : objs' = Landed(r.op, r.obj) /\ flight' = flight \ {r}
    /\ UNCHANGED <<copyVars, state, lock, proc, once, far, read, failures>>

-----------------------------------------------------------------------------
(***************************************************************************)
(* Copies of the record: cp -r, and `vmn-exp push --adopt`.                *)
(***************************************************************************)

\* The stream is inherited, with its ship state.
CopyRecord ==
    /\ file["copy"] = 0 /\ file["orig"] > 0 /\ owns = {"orig"}
    /\ \E p \in Procs : copyOf[p] = "copy"
    /\ file' = [file EXCEPT !["copy"] = file["orig"]]
    /\ state' = [state EXCEPT !["copy"] = state["orig"]]
    /\ sealed' = IF "orig" \in sealed THEN Copies ELSE sealed
    /\ UNCHANGED <<env, lock, owns, retired, finished, objs, proc, once, otherVars, failures>>

\* adopt_streams, once the original "is gone or will never write again": the
\* file catches up with the remote, or goes when a .vmx there holds it all.
Adopt(p) ==
    LET indexed == kind = "metrics" /\ \E o \in Visible(objs) : o.merged
    IN /\ proc[p].at = "idle" /\ copyOf[p] = "copy" /\ lock["copy"] = None
       /\ owns = {"orig"} /\ file["copy"] > 0
       /\ \A q \in Procs : copyOf[q] = "orig" => proc[q].at = "dead"
       /\ indexed => Shown >= file["copy"]
       /\ file' = [file EXCEPT !["copy"] = IF indexed THEN 0
                                           ELSE IF Shown > @ THEN Shown ELSE @]
       /\ sealed' = IF indexed THEN sealed \ {"copy"} ELSE sealed
       /\ state' = [state EXCEPT !["copy"] = NoState]
       /\ owns' = {"copy"} /\ retired' = TRUE
       /\ UNCHANGED <<env, lock, finished, objs, proc, once, otherVars, failures>>

-----------------------------------------------------------------------------
(***************************************************************************)
(* Another clone: `vmn-exp compact` of what the remote holds of metrics.   *)
(***************************************************************************)

farRest == [at |-> "idle", obj |-> Nothing, keys |-> {}]
OnlyFar == UNCHANGED <<copyVars, state, lock, flight, proc, once, read, failures>>

FarList ==
    LET V == Visible(objs)
    IN /\ kind = "metrics" /\ guest = "far" /\ far.at = "idle"
       /\ \E o \in V : ~o.merged
       /\ far' = [at |-> "get", obj |-> Merged(LastSeq(V), End(V), FALSE),
                  keys |-> {Name(o) : o \in V}]
       /\ UNCHANGED objs /\ OnlyFar

\* An object that is gone has the stream listed again.
FarGet ==
    /\ far.at = "get"
    /\ far' = IF \A k \in far.keys : There(k) THEN [far EXCEPT !.at = "create"] ELSE farRest
    /\ UNCHANGED objs /\ OnlyFar

FarCreate ==
    /\ far.at = "create"
    /\ IF There(Name(far.obj)) THEN far' = farRest /\ UNCHANGED objs
       ELSE /\ objs' = Landed("create", far.obj)
            /\ far' = [far EXCEPT !.at = "delete", !.keys = Superseded(objs', far.obj.last)]
    /\ OnlyFar

FarDelete ==
    LET left == {k \in far.keys : There(k)}
    IN /\ far.at = "delete"
       /\ \/ \E k \in left : objs' = {o \in objs : Name(o) # k} /\ UNCHANGED far
          \/ left = {} /\ far' = farRest /\ UNCHANGED objs
       /\ OnlyFar

Far == FarList \/ FarGet \/ FarCreate \/ FarDelete

-----------------------------------------------------------------------------
(***************************************************************************)
(* A reader: load_logs_by_writer, and relisted reads of metrics.           *)
(***************************************************************************)

OnlyRead == UNCHANGED <<copyVars, state, lock, objs, flight, proc, once, far, failures>>

ReadList ==
    /\ guest = "reader" /\ read.at = "idle" /\ objs # {}
    /\ read' = [Reader("get", "none") EXCEPT !.todo = Visible(objs), !.base = Shown]
    /\ OnlyRead

\* The entries of an object are added to those that were read.
Flaw(o) == IF o.from < read.upto THEN "twice"
           ELSE IF read.flaw = "none" /\ o.from > read.upto THEN "gap" ELSE read.flaw

\* Mutant: an object that is gone is passed over.
MissingSkipped(o) == [read EXCEPT !.todo = @ \ {o}]

\* An object that is gone is passed over in a log (load_logs_by_writer), and has
\* metrics listed again (relisted).
Missing(o) ==
    IF kind = "metrics" THEN Reader("idle", "none") ELSE [read EXCEPT !.todo = @ \ {o}]

\* The objects are fetched one after another (the order does not matter: they
\* go in any order).
ReadGet ==
    /\ read.at = "get" /\ read.todo # {}
    /\ \E o \in read.todo :
          LET found == {q \in objs : Name(q) = Name(o)}
          IN /\ \A q \in read.todo : o.last <= q.last
             /\ \/ found = {} /\ read' = Missing(o)
                \/ \E q \in found :
                      read' = [read EXCEPT !.todo = @ \ {o}, !.flaw = Flaw(q), !.upto = q.to]
    /\ OnlyRead

\* The log, or the series, is complete.
ReadEnd ==
    /\ read.at = "get" /\ read.todo = {}
    /\ read' = Reader("done", IF read.flaw = "none" /\ read.upto < read.base THEN "gap"
                              ELSE read.flaw)
    /\ OnlyRead

-----------------------------------------------------------------------------
Step(p) ==
    \/ Sync(p) \/ Lock(p) \/ Ship(p) \/ Upload(p) \/ MergeList(p) \/ MergeGet(p)
    \/ MergeCreate(p) \/ Delete(p) \/ Plan(p) \/ RollUp(p) \/ Build(p) \/ ShipIndexed(p)
    \/ Replace(p) \/ Seal(p)

Next ==
    \/ Append \/ Finish \/ Land \/ CopyRecord \/ Far \/ ReadList \/ ReadGet \/ ReadEnd
    \/ \E p \in Procs : Step(p) \/ GiveUp(p) \/ Compact(p) \/ Fail(p) \/ Restart(p) \/ Adopt(p)

Spec == Init /\ [][Next]_vars

\* A process that runs goes on, and syncs again (the heartbeat loop).
FairSpec == Spec /\ \A p \in Procs : WF_vars(Step(p) \/ (proc[p].at = "ship" /\ Compact(p)))

-----------------------------------------------------------------------------
(***************************************************************************)
(* Properties.                                                             *)
(***************************************************************************)

\* Objects follow one another without a gap or an overlap.
Contiguous(S) ==
    \A o \in S : \/ o.from = 0 /\ \A q \in S : o.last <= q.last
                 \/ \E q \in S : q.last < o.last /\ q.to = o.from

\* The size of the file is read before the lock is taken, so a second process of
\* the copy may take a listing for all there is to ship while an upload that was
\* given up is still to land; if the finished log is then merged with it, the
\* ship state goes on from before the merge, under a number that the merge hides.
\* Where nothing lands late, or each copy has one process, or until the run has
\* finished, a ship state is exact.
Exact ==
    kind \in Late /\ finished => \A p, q \in Procs : copyOf[p] = copyOf[q] => p = q

\* What the remote's objects hold, read together, is a prefix of the stream:
\* no entry is lost, shown twice or out of order, whichever request of a ship
\* or a compaction fails, is cut short by a crash or, of a log, lands late
\* (where the stream is Exact).
RemoteIsPrefix ==
    /\ Exact => Contiguous(Visible(objs))
    /\ Shown <= file["orig"]

\* "Both only ever grow": shipping implements Replica; a compaction, a rollup
\* and an adoption change nothing a reader of the remote sees, except that
\* more of the stream is there.
Source == INSTANCE Replica WITH written <- file["orig"], shown <- Shown
ImplementsReplica == Source!Spec

\* A read of metrics that raced rollups and compactions is whole, up to what
\* was there when it began, and shows no entry twice.  (A read of a log has no
\* second listing: a segment that is merged away after the listing is missing.)
ReadsAreSound == kind = "metrics" => read.flaw = "none"

Arrived(p) == proc[p].at = "dead" \/ copyOf[p] \notin owns \/ file[copyOf[p]] <= Shown

\* Every entry reaches the remote in the end, if a process of the owning copy
\* keeps running: what a failed, a raced or a killed ship left behind is found
\* by a later one, and nothing that is there stays hidden.
AllShipped == \A p \in Procs : []<>(Exact => Arrived(p))
=============================================================================
