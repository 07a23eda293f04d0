------------------------------ MODULE Registry ------------------------------
(***************************************************************************)
(* The model registry of vmn-exp: one model, its version records, its      *)
(* audit log of alias moves and status changes, and the prune that spares  *)
(* the runs that live versions name.                                       *)
(*                                                                         *)
(* Every host has a local copy in front of one remote store.  A record is  *)
(* claimed locally, then on the remote (a conditional put), then its       *)
(* metadata is written, which makes it visible (CachedSnapshotStorage and  *)
(* S3Records.create_exclusive).  The log has one stream per writer; a      *)
(* writer appends to its own local stream and ships it; a reader folds     *)
(* what the remote holds with its own stream.                              *)
(*                                                                         *)
(* Slot 0 is the header record, slot n > 0 is version record v<n>.         *)
(***************************************************************************)
EXTENDS Integers, FiniteSets, FiniteSetsExt

CONSTANTS
    Hosts,         \* a set of numbers: writer ids are compared
    Runs,
    Aliases,
    Moved,         \* the versions that moves are about
    None,          \* no run, no kind
    MaxVersions,   \* bound on version numbers
    MaxTries,      \* _MAX_REGISTER_RETRIES: 200
    MaxClock,      \* bound on what a clock shows
    MaxOps,        \* bound on registrations, moves and prunes together
    MaxFailures    \* bound on failed calls of the remote and killed processes together

ASSUME RegistryAssumption ==
    /\ Hosts \subseteq Nat /\ IsFiniteSet(Hosts)
    /\ None \notin Runs
    /\ Moved \subseteq Nat \ {0}
    /\ \A b \in {MaxVersions, MaxTries, MaxClock, MaxOps, MaxFailures} : b \in Nat

VARIABLES
    remote,   \* the remote's records
    local,    \* every host's copies
    sent,     \* the entries the remote holds
    own,      \* every host's own stream
    runs,     \* the experiment runs that are not pruned
    cache,    \* _RUN_MODELS of every host
    op,       \* what every host's process is doing
    regd,     \* history: the registrations that returned
    crashed,  \* history: hosts a process of which was killed
    left      \* what is left of the bounds

vars == <<remote, local, sent, own, runs, cache, op, regd, crashed, left>>
records == <<remote, local>>
log     == <<sent, own>>

Header   == 0
Versions == 1 .. MaxVersions
Slots    == {Header} \cup Versions
Kinds    == {"model", "dataset"}
Absent   == 0       \* an alias that is removed, or expected to be absent
AnyVersion == -1      \* no expect
Deleted  == 0
Active   == 1       \* deprecated counts as active for everything here

Free == [st |-> "free", val |-> None, by |-> None]
Record(st, val, h) == [st |-> st, val |-> val, by |-> h]
RecordOf(vals) == {Free} \cup [st : {"claim"}, val : {None}, by : Hosts]
                        \cup [st : {"whole"}, val : vals, by : Hosts]

\* An alias move or a status change, and the entry that records one.
Moves == [t : {"alias"}, k : Aliases, v : {Absent} \cup Moved]
            \cup [t : {"status"}, k : Moved, v : {Deleted, Active}]
EntryType == [ts : Nat, w : Hosts, pos : Nat, m : Moves]

\* What registry_listing returns: whether the header is listed, the versions
\* that are, and the log.
Listings == [hdr : BOOLEAN, vs : SUBSET Versions, log : SUBSET EntryType]

\* A cache that is empty is told from every listing.
ASSUME NoneAssumption == None \notin Listings

NoMove  == [t |-> "none", k |-> None, v |-> Absent]
NoCache == [key |-> None, refs |-> {}, blind |-> FALSE]

\* saw: what it read of the log; before: what the remote held then; blind: the
\* remote could not be read; due: the versions a prune has to respect.
Idle == [at |-> "idle", kind |-> None, run |-> None, slot |-> Header, tries |-> 0,
         floor |-> 0, m |-> NoMove, saw |-> {}, before |-> {}, blind |-> FALSE,
         key |-> None, refs |-> {}, due |-> {}]

Stages == {"idle", "local", "claim", "write", "kind", "dedupe", "list", "gaveup",
           "append", "flush", "scan", "delete"}

TypeOK ==
    /\ \A c \in {remote} \cup {local[h] : h \in Hosts} :
          DOMAIN c = Slots /\ \A s \in Slots :
             c[s] \in RecordOf(IF s = Header THEN Kinds ELSE Runs)
    /\ sent \subseteq EntryType
    /\ own \in [Hosts -> SUBSET EntryType]
    /\ sent \subseteq UNION {own[h] : h \in Hosts}
    /\ runs \subseteq Runs
    /\ \A h \in Hosts : op[h].at \in Stages /\ op[h].slot \in Slots
                        /\ op[h].tries \in 0 .. MaxTries /\ op[h].due \subseteq Versions
                        /\ op[h].refs \subseteq Runs /\ cache[h].refs \subseteq Runs
    /\ regd \subseteq [n : Versions, run : Runs, floor : {0} \cup Versions]
    /\ crashed \subseteq Hosts
    /\ left \in [{"ops", "failures"} -> Nat]

Init ==
    /\ remote = [s \in Slots |-> Free]
    /\ local = [h \in Hosts |-> [s \in Slots |-> Free]]
    /\ sent = {}
    /\ own = [h \in Hosts |-> {}]
    /\ runs = Runs
    /\ cache = [h \in Hosts |-> NoCache]
    /\ op = [h \in Hosts |-> Idle]
    /\ regd = {}
    /\ crashed = {}
    /\ left = [ops |-> MaxOps, failures |-> MaxFailures]

Spend(b) == left[b] > 0 /\ left' = [left EXCEPT ![b] = @ - 1]
Go(h, at) == op' = [op EXCEPT ![h].at = at]
End(h)    == op' = [op EXCEPT ![h] = Idle]

-----------------------------------------------------------------------------
(***************************************************************************)
(* fold.py: the latest entry by (ts, writer, pos).                         *)
(***************************************************************************)

\* _sort_key
Before(d, e) ==
    \/ d.ts < e.ts
    \/ d.ts = e.ts /\ d.w < e.w
    \/ d.ts = e.ts /\ d.w = e.w /\ d.pos < e.pos

\* _keep_latest, fold_registry: the value of k, or what it is without an entry.
Fold(es, t, k, without) ==
    LET about == {e \in es : e.m.t = t /\ e.m.k = k}
    IN IF about = {} THEN without
       ELSE (CHOOSE e \in about : \A d \in about : ~Before(e, d)).m.v

AliasOf(es, a) == Fold(es, "alias", a, Absent)
IsLive(es, n)  == Fold(es, "status", n, Active) # Deleted

\* Mutant: only what the remote holds.
SeenSent(h) == sent

\* load_merged_log: the remote's streams and the host's own.  When the remote
\* fails, a host that has entries of its own makes do with them (Read).
Seen(h) == sent \cup own[h]

Read(h, es, blind) ==
    \/ es = Seen(h) /\ ~blind /\ UNCHANGED left
    \/ es = own[h] /\ es # {} /\ blind /\ Spend("failures")

\* load_file: the local copy first.
Reads(h, s) ==
    IF local[h][s].st = "whole" THEN local[h][s].val
    ELSE IF remote[s].st = "whole" THEN remote[s].val ELSE None

\* list_record_names: claims included.
Taken(h) == {n \in Versions : local[h][n].st # "free" \/ remote[n].st # "free"}

\* list_files, model_records: the complete ones.
Listed(h, s) == local[h][s].st = "whole" \/ remote[s].st = "whole"

-----------------------------------------------------------------------------
(***************************************************************************)
(* register_model and register_dataset: ensure_model, then                 *)
(* register_version.                                                       *)
(***************************************************************************)

Register(h) ==
    /\ op[h].at = "idle"
    /\ Spend("ops")
    /\ \E kind \in Kinds, r \in runs :
          op' = [op EXCEPT ![h] = [Idle EXCEPT
                    !.at = "local", !.kind = kind, !.run = r,
                    !.floor = Max({0} \cup {x.n : x \in regd})]]
    /\ UNCHANGED <<records, log, runs, cache, regd, crashed>>

\* What comes after the header.
AfterHeader(h) == Go(h, IF op[h].kind = "dataset" THEN "dedupe" ELSE "list")

\* create_exclusive returned False: the header is there; a version is looked for
\* again.
Collide(h) ==
    IF op[h].slot = Header THEN Go(h, "kind")
    ELSE op' = [op EXCEPT ![h].at = "list", ![h].tries = @ + 1]

\* Mutant: the header says what the version is.
ValueRun(h) == op[h].run

Value(h) == IF op[h].slot = Header THEN op[h].kind ELSE op[h].run

CreateLocal(h) ==
    LET s == op[h].slot
    IN /\ op[h].at = "local"
       /\ IF local[h][s].st # "free" THEN Collide(h) /\ UNCHANGED local
          ELSE /\ local' = [local EXCEPT ![h][s] = Record("whole", Value(h), h)]
               /\ Go(h, "claim")
       /\ UNCHANGED <<remote, log, runs, cache, regd, crashed, left>>

\* Mutant: the claim is not conditional.
ClaimRemoteOver(h) ==
    LET s == op[h].slot
    IN /\ op[h].at = "claim"
       /\ remote' = [remote EXCEPT ![s] = Record("claim", None, h)]
       /\ Go(h, "write")
       /\ UNCHANGED <<local, log, runs, cache, regd, crashed, left>>

\* The remote's claim; the loser takes its local record back.
ClaimRemote(h) ==
    LET s == op[h].slot
    IN /\ op[h].at = "claim"
       /\ IF remote[s].st # "free"
          THEN /\ local' = [local EXCEPT ![h][s] = Free]
               /\ Collide(h)
               /\ UNCHANGED remote
          ELSE /\ remote' = [remote EXCEPT ![s] = Record("claim", None, h)]
               /\ Go(h, "write")
               /\ UNCHANGED local
       /\ UNCHANGED <<log, runs, cache, regd, crashed, left>>

WriteRemote(h) ==
    LET s == op[h].slot
    IN /\ op[h].at = "write"
       /\ remote' = [remote EXCEPT ![s] = Record("whole", Value(h), h)]
       /\ IF s = Header THEN AfterHeader(h) /\ UNCHANGED regd
          ELSE /\ End(h)
               /\ regd' = regd \cup {[n |-> s, run |-> op[h].run, floor |-> op[h].floor]}
       /\ UNCHANGED <<local, log, runs, cache, crashed, left>>

\* A call of the remote fails, on the way there or on the way back: the local
\* record is taken back and the registration fails.
CreateFault(h) ==
    LET s == op[h].slot
    IN /\ Spend("failures")
       /\ \/ op[h].at \in {"claim", "write"} /\ UNCHANGED remote
          \/ /\ op[h].at = "claim" /\ remote[s].st = "free"
             /\ remote' = [remote EXCEPT ![s] = Record("claim", None, h)]
          \/ /\ op[h].at = "write"
             /\ remote' = [remote EXCEPT ![s] = Record("whole", Value(h), h)]
       /\ local' = [local EXCEPT ![h][s] = Free]
       /\ End(h)
       /\ UNCHANGED <<log, runs, cache, regd, crashed>>

\* model_kind: a header of the other kind refuses; one without metadata does not.
CheckKind(h) ==
    /\ op[h].at = "kind"
    /\ IF Reads(h, Header) \notin {None, op[h].kind} THEN End(h) ELSE AfterHeader(h)
    /\ UNCHANGED <<records, log, runs, cache, regd, crashed, left>>

\* version_with_digest: a live version of the same data is returned as it is.
Dedupe(h) ==
    /\ op[h].at = "dedupe"
    /\ \E blind \in BOOLEAN, es \in {Seen(h), own[h]} :
          /\ Read(h, es, blind)
          /\ IF \E n \in Versions : Listed(h, n) /\ IsLive(es, n) /\ Reads(h, n) = op[h].run
             THEN End(h) ELSE Go(h, "list")
    /\ UNCHANGED <<records, log, runs, cache, regd, crashed>>

\* Mutant: the lowest number that is free.
NextNumberLowest(h) == Min((Versions \cup {MaxVersions + 1}) \ Taken(h))

\* Mutant: abandoned claims do not count, and nothing moves on from a collision.
NextNumberWhole(h) == Max({0} \cup {n \in Versions : Listed(h, n)}) + 1

\* After every number that is taken, and after the one that just collided.
NextNumber(h) == Max({0, op[h].slot} \cup Taken(h)) + 1

List(h) ==
    /\ op[h].at = "list"
    /\ IF op[h].tries = MaxTries THEN Go(h, "gaveup")
       ELSE /\ NextNumber(h) \in Versions
            /\ op' = [op EXCEPT ![h].at = "local", ![h].slot = NextNumber(h)]
    /\ UNCHANGED <<records, log, runs, cache, regd, crashed, left>>

-----------------------------------------------------------------------------
(***************************************************************************)
(* set_alias, remove_alias, set_version_status: read, check, append, ship. *)
(***************************************************************************)

\* _check_expect, and the refusal to delete what an alias points at.
Allowed(es, m, expect) ==
    IF m.t = "alias" THEN expect = AnyVersion \/ AliasOf(es, m.k) = expect
    ELSE m.v = Deleted => \A a \in Aliases : AliasOf(es, a) # m.k

ReadLog(h) ==
    /\ op[h].at = "idle"
    /\ left.ops > 0
    /\ \E m \in Moves, expect \in {AnyVersion, Absent} \cup Moved,
          blind \in BOOLEAN, es \in {Seen(h), own[h]} :
          /\ m.t = "status" => expect = AnyVersion
          /\ Allowed(es, m, expect)
          /\ \/ es = Seen(h) /\ ~blind
                /\ left' = [left EXCEPT !.ops = @ - 1]
             \/ es = own[h] /\ es # {} /\ blind /\ left.failures > 0
                /\ left' = [left EXCEPT !.ops = @ - 1, !.failures = @ - 1]
          /\ op' = [op EXCEPT ![h] = [Idle EXCEPT !.at = "append", !.m = m, !.saw = es,
                                                  !.before = sent, !.blind = blind]]
    /\ UNCHANGED <<records, log, runs, cache, regd, crashed>>

\* Mutant: the clock alone.
NextTsClock(h, now) == now

\* next_ts: after everything that was read, whatever the clock says.
NextTs(h, now) == Max({now} \cup {e.ts + 1 : e \in op[h].saw})

WriterPos(h) == Cardinality({e \in op[h].saw : e.w = h})

\* _ensure_local_record: an entry needs its record; without one it is dropped,
\* and nobody is told.
AppendEntry(h) ==
    /\ op[h].at = "append"
    /\ IF Reads(h, Header) = None THEN End(h) /\ UNCHANGED <<local, own>>
       ELSE /\ \E now \in 0 .. MaxClock :
                  own' = [own EXCEPT ![h] = @ \cup
                            {[ts |-> NextTs(h, now), w |-> h, pos |-> WriterPos(h),
                              m |-> op[h].m]}]
            /\ local' = IF local[h][Header].st = "whole" THEN local
                        ELSE [local EXCEPT ![h][Header] = remote[Header]]
            /\ Go(h, "flush")
    /\ UNCHANGED <<remote, sent, runs, cache, regd, crashed, left>>

\* RemotePresence: a record the remote does not hold, or holds from another
\* host, is not written there.
Holds(h) ==
    remote[Header].st = "whole" /\ remote[Header].by = local[h][Header].by

\* What has been shipped; a prune need not respect what was deleted meanwhile.
Ship(h, es) ==
    /\ sent' = es
    /\ op' = [g \in Hosts |->
                IF g = h THEN Idle
                ELSE [op[g] EXCEPT !.due = {n \in @ : IsLive(es \cup own[g], n)}]]

\* flush_log: everything the host has not shipped yet.
Flush(h) ==
    /\ op[h].at = "flush"
    /\ Ship(h, IF Holds(h) THEN sent \cup own[h] ELSE sent)
    /\ UNCHANGED <<records, own, runs, cache, regd, crashed, left>>

\* It fails, and so does the call; the entry stays in the local stream.
FlushFault(h) ==
    /\ op[h].at = "flush"
    /\ Holds(h)
    /\ Spend("failures")
    /\ \E es \in {sent, sent \cup own[h]} : Ship(h, es)
    /\ UNCHANGED <<records, own, runs, cache, regd, crashed>>

-----------------------------------------------------------------------------
(***************************************************************************)
(* prune: registered_runs, then the deletion.                              *)
(***************************************************************************)

\* registry_listing, and the key of _run_models.
Listing(h) ==
    [hdr |-> Listed(h, Header), vs |-> {n \in Versions : Listed(h, n)}, log |-> Seen(h)]

\* History: the versions a prune that begins now has to respect.
Due(h) == {n \in Versions : remote[n].st = "whole" /\ IsLive(sent, n) /\ IsLive(Seen(h), n)}

PruneList(h) ==
    /\ op[h].at = "idle"
    /\ Spend("ops")
    /\ \E r \in runs :
          LET p == [Idle EXCEPT !.run = r, !.key = Listing(h), !.due = Due(h)]
          IN op' = [op EXCEPT ![h] =
                      IF cache[h].key = Listing(h)
                      THEN [p EXCEPT !.at = "delete", !.refs = cache[h].refs,
                                     !.blind = cache[h].blind]
                      ELSE [p EXCEPT !.at = "scan"]]
    /\ UNCHANGED <<records, log, runs, cache, regd, crashed>>

\* Mutant: what was scanned is cached under what is listed afterwards.
CacheKeyAfter(h) == Listing(h)

CacheKey(h) == op[h].key

\* _live_versions: of the models whose header is listed, the versions listed
\* that the log, read now, does not delete.
Scan(h) ==
    /\ op[h].at = "scan"
    /\ \E blind \in BOOLEAN, es \in {Seen(h), own[h]} :
          /\ Read(h, es, blind)
          /\ LET refs == IF ~op[h].key.hdr THEN {}
                         ELSE {Reads(h, n) : n \in {v \in op[h].key.vs : IsLive(es, v)}}
             IN /\ cache' = [cache EXCEPT ![h] =
                               [key |-> CacheKey(h), refs |-> refs, blind |-> blind]]
                /\ op' = [op EXCEPT ![h].at = "delete", ![h].refs = refs, ![h].blind = blind]
    /\ UNCHANGED <<records, log, runs, regd, crashed>>

\* _apply_guards, _finish: a dry run, and a reader of run_models, deletes nothing.
Delete(h) ==
    /\ op[h].at = "delete"
    /\ \/ UNCHANGED runs
       \/ op[h].run \notin op[h].refs /\ runs' = runs \ {op[h].run}
    /\ End(h)
    /\ UNCHANGED <<records, log, cache, regd, crashed, left>>

-----------------------------------------------------------------------------
\* The process is killed.  A local record may have no metadata yet.
Crash(h) ==
    /\ op[h].at \notin {"idle", "gaveup"}
    /\ Spend("failures")
    /\ \/ UNCHANGED local
       \/ /\ op[h].at = "claim"
          /\ local' = [local EXCEPT ![h][op[h].slot] = Record("claim", None, h)]
    /\ End(h)
    /\ cache' = [cache EXCEPT ![h] = NoCache]
    /\ crashed' = crashed \cup {h}
    /\ UNCHANGED <<remote, log, runs, regd>>

RegisterStep(h) ==
    \/ CreateLocal(h) \/ ClaimRemote(h) \/ WriteRemote(h) \/ CheckKind(h)
    \/ Dedupe(h) \/ List(h)

Step(h) ==
    \/ RegisterStep(h) \/ CreateFault(h)
    \/ AppendEntry(h) \/ Flush(h) \/ FlushFault(h)
    \/ Scan(h) \/ Delete(h)

Next == \E h \in Hosts :
    Register(h) \/ ReadLog(h) \/ PruneList(h) \/ Step(h) \/ Crash(h)

Spec == Init /\ [][Next]_vars

-----------------------------------------------------------------------------
(***************************************************************************)
(* Properties.                                                             *)
(***************************************************************************)

\* A version number that was returned names one run for good, on every host
\* that registers nothing under it just then and was never killed: "immutable;
\* claimed atomically ...; numbers never reused" (registry/store.py).
OneRunPerVersion ==
    /\ \A x, y \in regd : x.n = y.n => x.run = y.run
    /\ \A x \in regd : remote[x.n].st = "whole" /\ remote[x.n].val = x.run
    /\ \A x \in regd, h \in Hosts :
          Reads(h, x.n) = x.run \/ op[h].slot = x.n \/ h \in crashed

\* A registration gets a number above all that were returned before it began, so
\* that model@latest never goes back.
NumbersGrow == \A x \in regd : x.n > x.floor

\* No registration runs out of retries, whoever races it and whatever claims
\* crashed registrations left behind.
NeverGivesUp == \A h \in Hosts : op[h].at # "gaveup"

\* The order of the fold is total: no two entries have the same key, so every
\* reader of the same entries sees the same aliases ("chunking-invariant",
\* registry/fold.py), whatever the clocks say and whatever failed to ship; of one
\* process per host, since two that share a writer id append to one stream.
KeysUnique ==
    LET es == UNION {own[h] : h \in Hosts}
    IN \A d, e \in es : d # e => Before(d, e) \/ Before(e, d)

\* When a move returns, every reader sees it, unless it is beaten by an entry
\* that was not there when the move read the log: a clock that is behind does
\* not lose a move to one it has replaced.
MoveTakesEffect ==
    [][\A h \in Hosts :
          (op[h].at = "flush" /\ Flush(h) /\ ~op[h].blind /\ Holds(h)) =>
             \/ Fold(sent', op[h].m.t, op[h].m.k, AnyVersion) = op[h].m.v
             \/ \E e \in sent' \ op[h].before :
                   e.m.t = op[h].m.t /\ e.m.k = op[h].m.k /\ e.w # h]_vars

\* A prune never deletes a run that a live version named all along since the
\* prune began, though another process registers, deletes and restores versions
\* while it lists and scans, and though it may answer from its cache: once the
\* model's header is there to be listed, on a host without a record that a
\* killed registration left under a number another host has won since, and
\* when its reads got through (a blind one sees only its own host's entries).
PruneSpares ==
    [][\A r \in runs \ runs' : \E h \in Hosts :
          /\ op[h].at = "delete" /\ op[h].run = r
          /\ \/ op[h].blind \/ h \in crashed \/ ~op[h].key.hdr
             \/ \A n \in op[h].due : remote[n].val # r]_vars

\* The same of every model: registered_runs names the runs "referenced by any
\* non-deleted version of any model - used by prune to refuse deletion of
\* registered runs" (registry/view.py); blind prunes are excepted here too.
PruneProtects ==
    [][\A r \in runs \ runs' : \E h \in Hosts :
          /\ op[h].at = "delete" /\ op[h].run = r
          /\ op[h].blind \/ h \in crashed \/ \A n \in op[h].due : remote[n].val # r]_vars
=============================================================================
