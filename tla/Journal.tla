------------------------------ MODULE Journal -------------------------------
(***************************************************************************)
(* The change journal of a store and the index that follows it             *)
(* (vmn_exp.storage.journal, core.journal_reader, ui.journal_follow,       *)
(* core.index, core.index_sweep*, core.index_relist,                       *)
(* core.index_journal_mark).                                               *)
(*                                                                         *)
(* A writer changes a record and then puts a note that names it, under its *)
(* own clock; a put that fails goes out later.  The journal's thread reads *)
(* new notes and hints the index; the index's refresh takes hints, lists   *)
(* the records, reads them and saves them with its mark, the position of   *)
(* the journal they stand at.  A restarted server goes on from the saved   *)
(* records and replays the journal from the mark.                          *)
(*                                                                         *)
(* A record is the number of its last write (a delete is one).  Times are  *)
(* ages, counted in units of the clock and capped: what is older than the  *)
(* journal keeps is all the same.  Left out: what finds a change that no   *)
(* note tells of (the consistency check's slices, the names listing after  *)
(* an overflow) and the listing of live records; the records here are      *)
(* settled and only the journal names them.                                *)
(***************************************************************************)
EXTENDS Integers, FiniteSets

CONSTANTS
    Keys,          \* the app's records
    Old,           \* those written before, without a note, and no more
    Skew,          \* skew_window_sec
    Rescan,        \* rescan_sec
    Minute,        \* the window of the ticks between two rescans
    Retain,        \* retain_sec
    Lag,           \* the longest the journal's thread goes without a tick
    Margin,        \* REPLAY_MARGIN_SEC
    SaveEvery,     \* SAVE_EVERY_MS
    Ahead,         \* by how much writers' clocks may be fast
    HintBatch,     \* HINTS_PER_REFRESH
    Behinds,       \* whether full listings run behind serving (a remote store)
    MaxWrites,     \* bound on writes
    MaxFaults      \* bound on faults and restarts

ASSUME JournalAssumption ==
    /\ {Lag, Skew, Rescan, Minute, SaveEvery, HintBatch} \subseteq Nat \ {0}
    /\ {Retain, Margin, Ahead, MaxWrites, MaxFaults} \subseteq Nat
    /\ Rescan <= Skew /\ Skew + Margin <= Retain
    /\ Behinds \subseteq BOOLEAN /\ Old \subseteq Keys

VARIABLES
    behind,    \* full listings run behind serving
    disk,      \* the records in the store
    pend,      \* notes that are queued in a writer
    notes,     \* the journal
    reader,    \* the journal's reader: last_seen, the last rescan
    ticking,   \* a tick is under way, its replays are done
    watched,   \* the index is routed to
    replay,    \* the mark the next tick replays the journal from
    sweep,     \* the listing policy: see InitSweep
    hinted,    \* hints not taken yet
    relist,    \* the listing behind serving: see NoRelisting
    refresh,   \* the refresh under way, and the records it found
    mem,       \* the index's records
    stored,    \* the records in the index's store
    mark,      \* the journal mark in the index's store
    aside,     \* records set aside unread, and whether their retry is due
    odd,       \* what went wrong with a record's notes or reads (history)
    faults

vars == <<behind, disk, pend, notes, reader, ticking, watched, replay, sweep, hinted,
          relist, refresh, mem, stored, mark, aside, odd, faults>>

NoAge == -1
Cap   == Retain + 1
Ages  == {NoAge} \cup 0 .. Cap
Notes == [key : Keys, ver : Nat, age : (0 - Ahead) .. Cap, read : BOOLEAN]

\* full: a full listing was made (_last_full).  reached: how far the hints so
\* far reach (_hint_mark); taken: those that were taken (mark_taken); before:
\* at the last refresh that succeeded.
InitSweep == [full |-> FALSE, awaiting |-> FALSE, resuming |-> FALSE,
              reached |-> NoAge, taken |-> NoAge, before |-> NoAge]

\* todo: names to list; ready: records listed, not handed over; seen: those
\* the refresh listed itself since it began.
NoRelisting == [on |-> FALSE, named |-> FALSE, todo |-> {}, ready |-> {}, refused |-> {},
                seen |-> {}]

\* took: the records it would be given again as hints (_taken); whole: it is a
\* full listing, which is redone whole (_listed_full).
Resting == [at |-> "idle", found |-> [k \in Keys |-> 0], took |-> {}, whole |-> FALSE]
InitReader == [last |-> NoAge, rescan |-> NoAge]
NoneAside == [k \in Keys |-> "no"]

TypeOK ==
    /\ behind \in Behinds
    /\ disk \in [Keys -> Nat] /\ mem \in [Keys -> Nat] /\ stored \in [Keys -> Nat]
    /\ pend \subseteq Notes /\ notes \subseteq Notes
    /\ reader \in [last : Ages, rescan : {NoAge} \cup 0 .. Rescan]
    /\ ticking \in BOOLEAN /\ watched \in BOOLEAN /\ replay \in Ages /\ mark \in Ages
    /\ sweep \in [full : BOOLEAN, awaiting : BOOLEAN, resuming : BOOLEAN,
                  reached : Ages, taken : Ages, before : Ages]
    /\ hinted \subseteq Keys
    /\ relist \in [on : BOOLEAN, named : BOOLEAN, todo : SUBSET Keys,
                   ready : SUBSET (Keys \X Nat), refused : SUBSET Keys, seen : SUBSET Keys]
    /\ refresh \in [at : {"idle", "save"}, found : [Keys -> Nat],
                    took : SUBSET Keys, whole : BOOLEAN]
    /\ aside \in [Keys -> {"no", "waits", "due"}]
    /\ odd \in [Keys -> SUBSET {"late", "dropped", "aside", "refused", "lost"}]
    /\ faults \in Nat

Init ==
    /\ behind \in Behinds
    /\ disk = [k \in Keys |-> IF k \in Old THEN 1 ELSE 0]
    /\ pend = {} /\ notes = {}
    /\ reader = InitReader /\ ticking = FALSE
    /\ watched = FALSE /\ replay = NoAge
    /\ sweep = InitSweep /\ hinted = {} /\ relist = NoRelisting
    /\ refresh = Resting
    /\ mem = [k \in Keys |-> 0] /\ stored = [k \in Keys |-> 0]
    /\ mark = NoAge
    /\ aside = NoneAside
    /\ odd = [k \in Keys |-> {}]
    /\ faults = 0

store   == <<disk, pend, notes>>
journal == <<reader, ticking, watched, replay>>
index   == <<sweep, hinted, relist, refresh, mem, stored, mark, aside>>
env     == <<behind, faults>>

Least(a, b) == IF a <= b THEN a ELSE b
Most(a, b)  == IF a >= b THEN a ELSE b
Fault == faults < MaxFaults /\ faults' = faults + 1
Went(k, what) == [odd EXCEPT ![k] = @ \cup {what}]

-----------------------------------------------------------------------------
(***************************************************************************)
(* The store's writers: _journaled_write, _JournalState.                   *)
(***************************************************************************)

\* The record is written; then a note is queued under the writer's clock.
Write(k) ==
    /\ k \notin Old /\ disk[k] < MaxWrites
    /\ disk' = [disk EXCEPT ![k] = @ + 1]
    /\ \E fast \in 0 .. Ahead :
          pend' = pend \cup {[key |-> k, ver |-> disk'[k], age |-> 0 - fast, read |-> FALSE]}
    /\ UNCHANGED <<env, notes, journal, index, odd>>

\* flush: at once, or with a later write or at exit when its puts failed.  The
\* reader's windows let a note come this late: a rescan may be Rescan away.
Put(n) ==
    /\ n \in pend
    /\ pend' = pend \ {n} /\ notes' = notes \cup {n}
    /\ odd' = IF n.age <= Skew - Rescan THEN odd ELSE Went(n.key, "late")
    /\ UNCHANGED <<env, disk, journal, index>>

\* The writer is killed with its queue.
Kill ==
    /\ pend # {} /\ Fault
    /\ pend' = {}
    /\ odd' = [k \in Keys |-> IF \E n \in pend : n.key = k THEN odd[k] \cup {"late"} ELSE odd[k]]
    /\ UNCHANGED <<behind, disk, notes, journal, index>>

\* Time passes; notes older than Retain are pruned (prune_journal).  A unit is
\* long for a tick; while the index is watched ticks end at least every Lag.
Older(a) == IF a = NoAge THEN NoAge ELSE Least(a + 1, Cap)
Aged(S)  == {[n EXCEPT !.age = Least(n.age + 1, Cap)] : n \in S}

Time ==
    /\ ~ticking /\ (watched => reader.last \in 0 .. Lag - 1)
    /\ pend' = Aged(pend)
    /\ notes' = Aged({n \in notes : n.age < Retain})
    /\ reader' = [last |-> Older(reader.last), rescan |-> Least(Older(reader.rescan), Rescan)]
    /\ replay' = Older(replay) /\ mark' = Older(mark)
    /\ sweep' = [sweep EXCEPT !.reached = Older(@), !.taken = Older(@), !.before = Older(@)]
    /\ aside' = [k \in Keys |-> IF aside[k] = "no" THEN "no" ELSE "due"]
    /\ UNCHANGED <<env, disk, ticking, watched, hinted, relist, refresh, mem, stored, odd>>

-----------------------------------------------------------------------------
(***************************************************************************)
(* The journal's thread: WorkspaceJournal.tick, watch and unwatch.         *)
(***************************************************************************)

\* Notes the partitions up to limit back hold.
Within(limit) == {n \in notes : n.age \in 0 .. Least(limit, Retain)}

\* _route.
Routed(N) == hinted \cup {n.key : n \in N}

onlyTick == <<env, disk, pend, relist, refresh, mem, stored, mark, aside>>

\* _replay: a reader of its own, from the mark.
TickReplay ==
    LET found == IF watched /\ replay # NoAge THEN Within(replay + Skew) ELSE {}
    IN /\ ~ticking /\ ticking' = TRUE
       /\ hinted' = Routed(found)
       /\ replay' = NoAge
       /\ UNCHANGED <<onlyTick, notes, reader, watched, sweep, odd>>

Full == reader.rescan \in {NoAge, Rescan}

\* JournalReader.tick, _listed_from: from the skew window before last_seen,
\* every Rescan; else the last minute.
Window ==
    IF Full THEN Most(reader.last, 0) + Skew ELSE Least(Most(reader.last, 0) + Skew, Minute)

\* Mutant: the rescan is counted from the last tick.
RescannedLast == IF Full THEN reader.last ELSE reader.rescan

Rescanned   == IF Full THEN 0 ELSE reader.rescan
MarkRead(N) == notes' = {IF n \in N THEN [n EXCEPT !.read = TRUE] ELSE n : n \in notes}

\* The index is told how far its hints reach, unless it was watched since the
\* tick began: it is replayed next.
Tells == watched /\ replay = NoAge

\* The new notes are hinted, then journal_at.
TickRead ==
    LET found == {n \in Within(Window) : ~n.read}
        sent  == IF watched THEN found ELSE {}
    IN /\ ticking /\ ticking' = FALSE
       /\ MarkRead(found)
       /\ reader' = [last |-> 0, rescan |-> Rescanned]
       /\ hinted' = Routed(sent)
       /\ sweep' = [sweep EXCEPT !.reached = IF Tells THEN 0 ELSE @,
                                 !.awaiting = @ /\ ~Tells]
       /\ UNCHANGED <<onlyTick, replay, watched, odd>>

\* The listing of a partition fails: the notes of the older ones have been
\* accepted as seen and are not hinted, and the tick ends.  It counts as the
\* rescan, and the next may not reach the old ones among the others.
TickFails ==
    /\ ticking /\ ticking' = FALSE /\ Fault
    /\ \E upto \in 0 .. Retain :
          LET missed  == {n \in Within(Window) : ~n.read}
              seen    == {n \in missed : n.age > upto}
              dropped == seen \cup {n \in missed : Full /\ n.age > Skew - Rescan}
          IN /\ MarkRead(seen)
             /\ odd' = [k \in Keys |-> IF \E n \in dropped : n.key = k
                                       THEN odd[k] \cup {"dropped"} ELSE odd[k]]
    /\ reader' = [reader EXCEPT !.rescan = Rescanned]
    /\ UNCHANGED <<behind, disk, pend, replay, watched, index>>

\* resume_journal: the journal still holds everything since the mark.
Resumable == mark # NoAge /\ mark + Skew + Margin <= Retain

Watch ==
    /\ ~watched /\ watched' = TRUE
    /\ IF Resumable
       THEN /\ replay' = mark
            /\ sweep' = [sweep EXCEPT !.resuming = TRUE, !.awaiting = TRUE]
       ELSE /\ sweep' = [sweep EXCEPT !.full = FALSE, !.resuming = FALSE]
            /\ UNCHANGED replay
    /\ UNCHANGED <<env, store, reader, ticking, hinted, relist, refresh, mem, stored,
                   mark, aside, odd>>

-----------------------------------------------------------------------------
(***************************************************************************)
(* The index's refresh: _refresh_from_storage, Sweep._journaled_listing.   *)
(***************************************************************************)

onlyRefresh == <<behind, store, journal>>

\* Mutant: a record that was set aside is not read again.
WaitingHints == hinted

\* The hints, and the records set aside whose retry is due.
Waiting == hinted \cup {k \in Keys : aside[k] = "due"}

\* _take_hints: when no hint is left behind, the records taken reach as far as
\* the hints.
Batches ==
    IF Cardinality(Waiting) <= HintBatch THEN {Waiting}
    ELSE {B \in SUBSET Waiting : Cardinality(B) = HintBatch}

\* Mutant: the mark moves with every batch.
TakenAlways(B) == sweep.reached

Taken(B) == IF B = Waiting THEN sweep.reached ELSE sweep.taken

\* A full listing is due: none was made, and the index does not resume.
FullDue == ~sweep.full /\ ~sweep.resuming

\* _begin_journaled.
Begun(B) == [sweep EXCEPT !.taken = Taken(B), !.full = @ \/ sweep.resuming,
                          !.resuming = FALSE]

\* A refresh holds the index's lock: what others do while it takes its hints
\* and lists counts as done before or after.
Starts(B) == watched /\ refresh.at = "idle" /\ hinted' = Waiting \ B

\* Records that are listed are read, but for the ones set aside whose retry is
\* not due; one that fails is set aside.
Found(S, ver, took, whole) ==
    LET read == {k \in S : aside[k] # "waits"}
    IN \E bad \in SUBSET read :
          /\ bad = {} \/ (Cardinality(bad) = 1 /\ faults < MaxFaults)
          /\ faults' = faults + Cardinality(bad)
          /\ refresh' = [at |-> "save", took |-> took, whole |-> whole,
                         found |-> [k \in Keys |-> IF k \in read \ bad THEN ver[k] ELSE 0]]
          /\ aside' = [k \in Keys |-> IF k \in bad THEN "waits"
                                      ELSE IF k \in read THEN "no" ELSE aside[k]]
          /\ odd' = [k \in Keys |-> IF k \in bad THEN odd[k] \cup {"aside"} ELSE odd[k]]

\* A full listing.
ListAll ==
    /\ FullDue /\ ~behind
    /\ \E B \in Batches :
          /\ Starts(B) /\ sweep' = [Begun(B) EXCEPT !.full = TRUE]
          /\ Found(Keys, disk, B, TRUE)
    /\ UNCHANGED <<onlyRefresh, relist, mem, stored, mark>>

\* One behind serving begins.
ListBehind ==
    /\ FullDue /\ behind /\ ~relist.on
    /\ \E B \in Batches :
          /\ Starts(B) /\ sweep' = Begun(B)
          /\ relist' = [NoRelisting EXCEPT !.on = TRUE, !.seen = B]
          /\ Found(B, disk, B, FALSE)
    /\ UNCHANGED <<onlyRefresh, mem, stored, mark>>

RelistDone == relist.named /\ relist.todo = {}

\* The hinted records, and what the relisting under way listed; chunks that it
\* could not list become hints.
ListRelisted ==
    /\ relist.on
    /\ \E B \in Batches :
          LET seen   == relist.seen \cup B
              handed == {r \in relist.ready : r[1] \notin seen}
              listed == B \cup {r[1] : r \in handed}
              ver    == [k \in Keys |-> IF k \in B THEN disk[k]
                                        ELSE (CHOOSE r \in handed : r[1] = k)[2]]
          IN /\ watched /\ refresh.at = "idle"
             /\ hinted' = (Waiting \ B) \cup relist.refused
             /\ sweep' = [Begun(B) EXCEPT !.full = @ \/ RelistDone]
             /\ relist' = IF RelistDone THEN NoRelisting
                          ELSE [relist EXCEPT !.ready = {}, !.refused = {}, !.seen = seen]
             /\ Found(listed, ver, listed, FALSE)
    /\ UNCHANGED <<onlyRefresh, mem, stored, mark>>

\* The hinted records alone.
ListHinted ==
    /\ ~FullDue /\ ~relist.on
    /\ \E B \in Batches : Starts(B) /\ sweep' = Begun(B) /\ Found(B, disk, B, FALSE)
    /\ UNCHANGED <<onlyRefresh, relist, mem, stored, mark>>

\* SweepRetake.failed.
Failed(B) == hinted' = Waiting /\ sweep' = [Begun(B) EXCEPT !.taken = sweep.before]

\* A listing fails, or the relisting did.
ListFails ==
    /\ watched /\ refresh.at = "idle" /\ Fault
    /\ \E B \in Batches : Failed(B)
    /\ relist' \in {relist, NoRelisting}
    /\ UNCHANGED <<onlyRefresh, refresh, mem, stored, mark, aside, odd>>

\* persistable_mark.
Persistable ==
    IF ~sweep.full \/ sweep.awaiting \/ relist.on THEN NoAge ELSE sweep.taken

\* JournalMark.puts.
MarkDue(to, changed) ==
    /\ to # NoAge
    /\ mark = NoAge \/ to < mark
    /\ changed \/ mark = NoAge \/ mark - to >= SaveEvery

Applied == [k \in Keys |-> Most(mem[k], refresh.found[k])]
Changed == \E k \in Keys : refresh.found[k] > mem[k]

\* _apply and _persist: the records, with what an earlier save left, and the
\* mark in one transaction.
Save ==
    /\ refresh.at = "save"
    /\ mem' = Applied
    /\ stored' = Applied
    /\ mark' = IF MarkDue(Persistable, Changed) THEN Persistable ELSE mark
    /\ sweep' = [sweep EXCEPT !.before = sweep.taken]
    /\ refresh' = Resting
    /\ UNCHANGED <<onlyRefresh, faults, hinted, relist, aside, odd>>

\* A save that stops on the way has saved some of the records, not the mark,
\* which goes with the last of them; PendingSave keeps the others.
SavesSome ==
    /\ UNCHANGED mark
    /\ \E part \in SUBSET Keys :
          stored' = [k \in Keys |-> IF k \in part THEN Applied[k] ELSE stored[k]]

\* The index's store refuses a save.
SaveFails ==
    /\ refresh.at = "save" /\ Fault
    /\ mem' = Applied /\ SavesSome
    /\ sweep' = [sweep EXCEPT !.before = sweep.taken]
    /\ refresh' = Resting
    /\ UNCHANGED <<onlyRefresh, hinted, relist, aside, odd>>

\* Or raises: the refresh has failed, and what it took is hinted again.
SaveRaises ==
    /\ refresh.at = "save" /\ Fault
    /\ mem' = Applied /\ SavesSome
    /\ hinted' = hinted \cup refresh.took
    /\ sweep' = [sweep EXCEPT !.taken = sweep.before, !.full = @ /\ ~refresh.whole]
    /\ refresh' = Resting
    /\ UNCHANGED <<onlyRefresh, relist, aside, odd>>

-----------------------------------------------------------------------------
(***************************************************************************)
(* The thread of a relisting, and a restart of the server.                 *)
(***************************************************************************)

onlyRelist == <<behind, store, journal, sweep, refresh, mem, stored,
                mark, aside>>

RelistNames ==
    /\ relist.on /\ ~relist.named
    /\ relist' = [relist EXCEPT !.named = TRUE,
                                !.todo = {k \in Keys : disk[k] > 0 \/ mem[k] > 0}]
    /\ UNCHANGED <<onlyRelist, faults, hinted, odd>>

RelistFiles(k) ==
    /\ k \in relist.todo
    /\ relist' = [relist EXCEPT !.todo = @ \ {k}, !.ready = @ \cup {<<k, disk[k]>>}]
    /\ UNCHANGED <<onlyRelist, faults, hinted, odd>>

\* A chunk that keeps failing is left to a hint.
RelistRefused(k) ==
    /\ k \in relist.todo /\ Fault
    /\ relist' = [relist EXCEPT !.todo = @ \ {k}, !.refused = @ \cup {k}]
    /\ odd' = Went(k, "refused")
    /\ UNCHANGED <<onlyRelist, hinted>>

\* The reader goes on from the cursor it saved last.
Restart ==
    /\ Fault
    /\ \E cursor \in IF reader.last = NoAge THEN {NoAge} ELSE reader.last .. Cap :
          reader' = [last |-> cursor, rescan |-> NoAge]
    /\ notes' = {[n EXCEPT !.read = FALSE] : n \in notes}
    /\ ticking' = FALSE /\ watched' = FALSE /\ replay' = NoAge
    /\ sweep' = InitSweep /\ hinted' = {} /\ relist' = NoRelisting /\ refresh' = Resting
    /\ mem' = stored
    /\ aside' = NoneAside
    /\ odd' = [k \in Keys |-> IF odd[k] \cap {"aside", "refused"} = {} THEN odd[k]
                              ELSE odd[k] \cup {"lost"}]
    /\ UNCHANGED <<behind, disk, pend, stored, mark>>

-----------------------------------------------------------------------------
Tick    == TickReplay \/ TickRead
Refresh == ListAll \/ ListBehind \/ ListRelisted \/ ListHinted \/ Save
Relist  == RelistNames \/ \E k \in Keys : RelistFiles(k)

Next ==
    \/ \E k \in Keys : Write(k) \/ RelistFiles(k) \/ RelistRefused(k)
    \/ \E n \in pend : Put(n)
    \/ Kill \/ Time \/ Tick \/ TickFails \/ Watch
    \/ Refresh \/ ListFails \/ SaveFails \/ SaveRaises \/ RelistNames \/ Restart

Spec == Init /\ [][Next]_vars

\* The clock moves; the journal's thread, the refresh loop and a relisting's
\* thread go on; somebody asks for the index.
FairSpec ==
    /\ Spec
    /\ SF_vars(Time) /\ WF_vars(Tick) /\ WF_vars(Refresh) /\ WF_vars(Relist) /\ WF_vars(Watch)

-----------------------------------------------------------------------------
(***************************************************************************)
(* Properties.                                                             *)
(***************************************************************************)

\* What the saved records lack of a note, a replay from the mark names again.
Replayed(n) == stored[n.key] >= n.ver \/ ~Resumable \/ n.age <= mark + Skew

\* The mark "never vouches for records the store lacks": a restart that goes on
\* from it finds every change that was noted in time and read, whatever fails or
\* is cut short.  Not so the changes whose notes a failed tick dropped, or whose
\* read was put off: those the mark has passed.
RestartFindsAll == \A n \in notes : odd[n.key] = {} => Replayed(n)

\* What the index knows is what is there, but for changes no note in the
\* journal tells of in time, that a failed tick dropped, or that were not read
\* yet when the server stopped: those are for the consistency check.
UpToDate(k) ==
    \/ mem[k] = disk[k]
    \/ odd[k] \cap {"late", "dropped", "lost"} # {}
    \/ \E n \in pend : n.key = k

\* Every change that its note announces shows in the end, through failed
\* listings, reads and saves, a full listing under way, and restarts.
AllShown == []<>(\A k \in Keys : UpToDate(k))
=============================================================================
