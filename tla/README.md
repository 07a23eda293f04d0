# A TLA+ verification of vmn and vmn-exp

vmn versions applications with nothing but git: `vmn stamp` computes the next
version of an app from the tags a clone knows, commits it, tags it and pushes.
vmn-exp tracks experiments with nothing but a file or object store: runs,
sweeps and models are records that many processes on many hosts write with no
server between them. What makes both hard is the same: **there is no
coordinator**. Every decision is taken on state that may be stale, and is made
good by an operation the store can refuse (a push, a conditional write, an
exclusive create) plus the undoing or repeating of what came before it. These
modules model that.

Paths below are relative to `src/packages/`: `vmn` is `vmn/src/version_stamp`,
`sdk` is `vmn-exp-sdk/src/vmn_exp`, `exp` is `vmn-exp/src/vmn_exp`.

## 1. The system

| Component | State | Operations | Interacts with |
|---|---|---|---|
| **Stamping** (vmn `cli/commands.py`, `stamping/`, `backends/`) | version commits and annotated tags in a clone and its remote; the version file; the fetch cache | `stamp`, `release`, `add`, `init`, `init-app`; pull, push, revert | the git remote, and through it other clones; `.vmn` files |
| **Repository lock** (vmn `cli/entry.py`, `core/repo_lock.py`) | a file lock per clone | acquire around a command | makes a clone's commands sequential |
| **Version arithmetic** (vmn `stamping/base.py`, `core/version_math.py`) | none | `advance_version`, `increase_octet`, parsing and serializing | stamping, release, show |
| **goto, worktrees, snapshots, dev versions** (vmn `cli/output.py`, `cli/worktree_*.py`, `snapshot/`, `devversion/`) | working trees of several repositories | check out, clone, capture, apply | git |
| **Run state** (sdk `core/state_cas.py`, `sdk/state_publisher.py`, `sdk/run.py`, `sdk/resume.py`, `core/run_finish.py`) | `run_state.yml` on every host and on the remote; tokens, upload slot and superseded flag of every process | `start_run`, heartbeat, `finish`, `release`, `detach`, `finish_run` | the storage; heartbeat and upload threads |
| **Sweeps** (sdk `core/sweep/`, exp `cli/sweep/agent.py`) | one record per claimed trial attempt | `claim_next_trial`, `claim_retry`, the agent loop | `create_exclusive` of the storage, runs |
| **Storage** (sdk `storage/`) | records, files, logs; a local side and a remote | `create_exclusive`, `save_file_if_match`, `load_file`, listings | everything in vmn-exp |
| **Log streams** (sdk `storage/buffered.py`, `cached_logs.py`, `ship_state.py`, `stream_owner.py`) | per-writer logs, ship offsets, stream owners | append, ship, adopt, retire | storage |
| **Journal and index** (sdk `storage/journal.py`, `core/journal_reader.py`, `core/index*.py`) | change notes; a cache of the store | note a write, follow, relist | storage, server |
| **Model registry** (sdk `registry/`, exp `cli/prune.py`) | version records; per-writer alias and status logs; the cache of run models | `register_version`, `set_alias`, `set_version_status`, prune | `create_exclusive`, logs, runs |
| **Run allocation, push** (sdk `core/writer.py`, `core/push_*.py`) | run records; a push ledger | create, push an offline run | `create_exclusive`, storage |
| **Reports, alerts, integrations, importers** (sdk `reports/`, `core/alerts/`, `integrations/`, exp `importers/`) | records of one writer | write | storage |
| **Server and web UI** (exp `ui/`, `webui/`) | caches, sessions, an elected refresher | HTTP reads, refresh | index, Postgres |

What must be right, component by component:

* *Stamping*: a number names one commit; versions grow along a branch; a version
  is published whole or not at all; a failed stamp leaves nothing behind; a
  stamp ends, and with `--pull` it gets through.
* *Run state*: a run is ended once, and the end is not erased; `finish()` tells
  its caller the truth; what a host shows as the end is the end.
* *Sweeps*: a trial attempt has one owner; none is skipped; all are run.
* *Releases*: a release that was reported is on the remote; versions and
  prerelease numbers rise along a branch; no prerelease follows a release.
* *Registry*: a version number names one run for good; every reader folds the same
  entries to the same aliases; a move takes effect; a prune spares registered runs.
* *Streams*: what the remote shows is a prefix of what was written, never less than
  before, and in the end all of it.
* *Journal and index*: every noted change shows in the end, and a restart finds what
  the saved records lack.

The hard behaviours, listed line by line as `hazards` in `PROJECT.json`: races
for a number or a name; state read, then used after a pull or another writer's
step; writes whose answer is lost; undo by name of what someone else may own;
processes killed between two steps; retries with a limit.

## 2. Plan

Done: `RunState` (with `RunEnding`, its abstract specification, and `RunStateProofs`),
`SweepClaims` (with `SweepClaimsProofs`), `Stamp` (with `StampProofs`), `Releases` (with
`ReleasesProofs`), `Registry` (with `RegistryProofs`), `Streams` (with `Replica`, its
abstract specification, and `StreamsProofs`) and `Journal` (with `JournalProofs`).
`DataLemmas` has the facts about finite sets that several of the proofs need.

Next, in this order:

1. `Push`: the ledger of `vmn-exp push` and the allocation of run names
   (`core/writer.py`, `core/push_*.py`).
2. `Election`: the elected refresher and the relay of notes to the other servers
   (`ui/pg_election.py`, `ui/elected_index.py`, `WorkspaceJournal.receive`).
3. `Goto`: the parallel checkout of dependencies and its partial failure.

## 3. The modules

### RunState, RunEnding

`RunState` models everything that writes the `run_state.yml` of one run.
`store[s]` is the file on side `s`, a host's local copy or the remote. A state is
reduced to its `state` field, the attempt that wrote it and `heartbeat_seq`; the
version token of a file is its content, which the attempt and the sequence number
make unique. An *attempt* is a process that opens the run. Its life is `pc`:

| Action | Code |
|---|---|
| `StartRun`, `RefuseReopen` | `start_run` with `run_id=`: `resume.locate`, `check_reopenable`, `resumed_state`; a read that fails counts as no state (`load_run_state`) |
| `Open`, `Beat`, `Close`, `Detach`, `Return` | `Run._open`, `_publish_heartbeat`, `finish`/`release` through `_close_attempt`, `detach`, and what they return |
| `MainLoad`, `MainSave`, `MainRefused` | a round of `compare_and_save_token` on the local side, in the publishing thread |
| `UpTake` ... `UpFault` | the `Coalescing` upload worker: take the newest pending state, a round on the remote, the copy of the winner, a failing call |
| `FinishRun` ... `FinDie` | `finish_run` from outside: first check, CAS on the shared side, copy to the local side |
| `Die` | a killed process: `pending` and both CAS records are gone, the files stay |

Reading, deciding and writing are separate steps; each single file operation is
atomic, as the stores make it (an S3 conditional put, a local write under a lock
file). `derive_status` depends on wall clocks, so whether a run counts as live is
any Boolean. The run's record is assumed to exist on the remote (`remote_for`).
The same module covers the three storage layouts: local-first
(`HasLocal /\ HasRemote`), remote only, local only.

`RunEnding` is the promise without copies, threads and retries: one ending stands
at a time, each ending takes effect at most once, and it is replaced only under a
`reopen` that was given on that ending or a `force=True`. `ImplementsRunEnding`
maps the shared side to it.

### SweepClaims

Agents claim trial slots `<<trial, attempt>>` by creating a record exclusively, on
a local-first store first on the host's side and then on the remote, with the undo
of the local claim when the remote refuses it (`Undo`, stages `undo` and `fail`).
`ReadRows`, `TryRetry`, `NoRetry` are `_next_claim` and `claim_retry`; `List` and
`GiveUp` are the rounds of `claim_next_trial`; `CreateRun`, `EndTrial`, `Die` are
`_run_trial`. A remote listing may lag: `List` sees any subset of the remote's
claims. Whether a running trial looks stuck is any choice, since it is decided by
a heartbeat's age.

### Stamp

Clones share a remote with branches and tags. A branch is the sequence of its
commits; a version commit records the app's version, the root app's version and
the user changeset it versions. `cmd[c]` is the stamp command of clone `c`; the
repository lock is why there is one. `Start` is `handle_stamp` up to the match
check, `Fetch` the cached fetch, `PullFirst` the pull of `--pull`; `StampVersion`,
`PublishCommit`, `CreateTags`, `Push` are an attempt of `_stamp_version`, and
`Revert`, `Refetch`, `Repull` its undoing and retry, with the error codes of
`publish_stamp` (1: a tag exists, retried from the number tried; 2: the push
failed, retried after a pull or given up). `PushFault` fails a push before or after
the server applied it. `Crash` kills a command anywhere. `UserCommit`, `UserPull`,
`UserReset` and the server's rules for refs are git's, modelled from how
`git_ops.py` uses it. Which branch each clone is on, and whether the server takes
atomic pushes, is chosen in `Init` from `Layouts` and `Servers`. Versions are one
octet; release modes and prereleases are the subject of `Releases`.

### Releases

The version arithmetic and the commands that need it. A version is a base of two
octets (the others follow the same rule), a prerelease name and a number; a tag has
its version, a date and the `prerelease_count` of its message, and whether it bears
metadata. `Increase` is `increase_octet`, `Advance` is `advance_version`, `Plan` the
choice `handle_stamp` makes for `--orm`, `Refuses` the checks of `stamp_app_version`,
`Attempt` a pass of the loop of `_stamp_version` and `Attempts` the loop (a recursive
function over its passes). `Latest`
is the tag git lists last, by the tagger's date, which `Date` takes from a clock that
may be behind and moves off the newest known second.

Clones work on a branch each and know the tags they fetched last (`Fetch`, or the
fetch of a command, which the cache may skip). `Refetched` is what a try that failed
leaves: its tag is deleted and the tags are fetched again, so that the next try of the
same stamp may know more. `Globbed` is the prefix listing that `--orm` looks for
prereleases with; it also finds `0.0.10` for `0.0.1`, which takes more versions than TLC's
bounds have. `Stamp` and `ReleaseStamp` are one step
each, because `Stamp.tla` has the interleavings of a stamp. `ReleaseVersion` and `Add`
make their tag (`Tag`) and push it in a step of its own (`PushTag`), so another clone
may release the same version in between; a push that fails deletes the tag
(`Dropped`). `Kill` leaves it behind.

### Registry

One model: a header record (slot 0) and a version record per number, on every host's
local copy and on the remote. `Register` to `List` are `register_model` and
`register_dataset`: `ensure_model`, the dedupe by digest, and the rounds of
`register_version`, each an exclusive creation that is a local record, then the
remote's claim, then its metadata. `ReadLog`, `AppendEntry`, `Flush` are `set_alias`,
`remove_alias` and `set_version_status`: read and decide, append to the host's own
stream, ship it. `Before` and `Fold` are the order and the fold of `fold.py`, `NextTs`
the time of a new entry whatever the clock says. `PruneList`, `Scan`, `Delete` are the
prune with the cache of `_run_models`. A remote call may fail on its way there or back
(`CreateFault`, `FlushFault`, a `blind` read), a process may be killed (`Crash`).

### Streams, Replica

One log or metric stream of a run: the owner's file, its `.ship` state, and the
objects on the remote. Entries are numbered, so an object is an interval `from + 1 ..
to` and its name, a segment's number or the last one a merged object covers. `Sync`,
`Lock`, `Ship`, `Upload` are a sync: under the ship lock, from the ship state or a
listing, the rest of the file goes into a segment that is created only if its key is
free. `MergeList` to `Delete` merge a log or a rollup of live metrics: the merged
object first, then the deletions, one by one. `Compact`, `Build`, `Replace`, `Seal`
are a writer's compaction of its metrics into one `.vmx`; `FarList` to `FarDelete` are
`vmn-exp compact` in another clone, which has only the remote. `CopyRecord` and
`Adopt` are a copied record directory and `push --adopt`. `ReadList` to `ReadEnd` is a
reader that lists and fetches. A request that fails did not get there, did, or lands
later (`flight`).

`Replica` is the promise of `cached_logs.py` ("Both only ever grow and the remote one
is a replica of a prefix of the local one") with two counters. `ImplementsReplica` maps
the remote to what its visible objects, read together, hold: a compaction, a rollup, an
adoption are stuttering steps or show more.

### Journal

A record is the number of its last write, and a note names a record under its
writer's clock. Times are ages in units of the clock, capped at what the journal keeps.
`Write`, `Put`, `Kill` are the writers; `TickReplay`, `TickRead`, `TickFails`, `Watch`
the journal's thread with the reader's windows (the last minute, the skew window every
rescan) and the replay from a saved mark; `ListAll`, `ListBehind`, `ListRelisted`,
`ListHinted`, `ListFails` the listing policies of a refresh, `Found` the reading of what
was listed with the records that are set aside, `Save` the transaction
of records and mark, `SaveFails` a save that answers `False`, `SaveRaises` one that raises
and has its hints taken again, each after some of its chunks were saved; `RelistNames`, `RelistFiles`, `RelistRefused` the thread of a
listing behind serving; `Restart` a new server on the saved records and cursor. `odd`
is a history variable: what happened to a record's notes and reads for which the code
relies on the consistency check, which is not modelled.

## 4. What the runs check

Two of the twelve runs show a violation; the others pass. `CHECK_DEADLOCK FALSE` is in
every configuration of a system that stops: runs end, sweeps are exhausted, commands and
their bounds run out. `Journal` and `Releases` never stop, and are checked for deadlock.

| Run | Distinct states | Checks |
|---|---|---|
| `RunStateOutside` | 1.4 M | two attempts on two hosts, a `finish_run` from outside: `TypeOK`, `EndingKept`, `LocalEndingIsReal` |
| `RunStateOneHost` | 1.9 M | two attempts that share a host's copy and the remote, heartbeats, one failing remote call: `FinishTellsTheTruth`, `ImplementsRunEnding` |
| `RunStateRemote` | 308 k | remote-only store, heartbeats, one fault, fairness: `FinishEndsRun` |
| `Sweep` | 174 k | two agents on two hosts, lagging listings, retries, a fault, fairness: `TypeOK`, `OneOwner`, `OwnedIsTaken`, `RunsAreClaimed`, `NeverGivesUp`, `SweepCovers` |
| `Stamp` | 1.5 M | two clones on one branch or two, a service of a root app, with and without `--pull`, a failing call or a kill: `TypeOK`, `OneCommitPerVersion`, `VersionsGrow`, `PublishedWhole`, `RolledBack` |
| `StampServices` | 76 k | two services of a root app on one branch with `--pull`, servers with and without atomic pushes, fairness: `RolledBack`, `PullGetsThrough`, `StampEnds` |
| `Releases` | 604 k | two clones with a branch each, one clock behind, `--orm patch` with and without `--pr`, `-r minor --pr`, release, add, a failed push or a kill: `TypeOK`, `ReleaseTellsTheTruth`, `VersionsGrow`, `NoPrereleaseAfterRelease`, `StampGoesOn` |
| `Registry` | 6.4 M | two hosts, two runs, one alias, four operations, a failed call or a kill: `TypeOK`, `OneRunPerVersion`, `NumbersGrow`, `NeverGivesUp`, `KeysUnique`, `MoveTakesEffect`, `PruneSpares` |
| `Streams` | 1.3 M | a log or metrics, two processes of one copy or one of each, a reader or a far compactor, a failed, late or killed request, fairness: `TypeOK`, `RemoteIsPrefix`, `ReadsAreSound`, `ImplementsReplica`, `AllShipped` |
| `Journal` | 715 k | one record that is written, one that is not, listings in front of and behind serving, a fault or restart, fairness: `TypeOK`, `RestartFindsAll`, `AllShown` |
| `RegistryHeader` | violated | `registered_runs` names the runs of "any non-deleted version of any model" |
| `ReleasesOrm` | violated | `--orm` "only advances if no prerelease exists at the target" |

`EndingKept` and `OneOwner` are run on local-first stores only; for remote-only and
local-only stores the proofs of section 5 cover them, which are for every layout.

Every property of a passing run has a mutant of a mapped definition in
`PROJECT.json`, a plausible mistake in that code, under which the run fails; the
mutated operators stand before the definitions they replace, marked `Mutant`.

**Bounds.**

* RunState: two attempts and one outside caller are what the code's races are between;
  a third attempt repeats one of them and is covered by the proof of `EndingKept`.
  `Rounds = 2` (the code: 8) makes giving up reachable. `MaxSeq` is 0 or 1: one
  heartbeat is enough to move a token.
* SweepClaims: two trials and two rounds (the code: 100) let an agent lose every index.
  Several agents of one host are covered by the proof of `OneOwner`.
* Stamp: two clones with a user commit each, and `Retries` as in the code (3); with 2 the
  run that checks liveness is smaller and still retries. One fault or kill suffices to
  leave each intermediate state behind.
* Releases: four tags on the remote, the initial one included: a prerelease, its
  release or a second prerelease of another branch, and what follows. One tag with
  metadata and one fault. Two seconds of lag put a new tag before an older one.
* Registry: four operations are two registrations, a move and a prune, or two moves
  next to a registration and a prune. Two version numbers; the clocks show 0 or 1; three
  retries (the code: 200). Runs are interchangeable, and a symmetry set.
* Streams: three entries make two segments, a rollup and a segment after it, with
  `Rollup = 1` and `Lag = 1` (the code rolls up every so many segments). Two attempts at
  a free key. Late requests are modelled for logs only: a replacing put of metrics that
  lands late may undo a newer one.
* Journal: a skew window of two units with a rescan every unit, a journal that keeps
  three; one hint per refresh, so that a due retry and a hint do not fit together.

**Fairness.** `RunState`: threads that are alive keep running, so a CAS in progress
and the upload worker go on and `finish()` returns; nobody has to heartbeat, finish,
die, fail or call `finish_run`. `SweepClaims` and `Stamp`: a live agent or command
takes its next step; faults, deaths and users are not fair. `Streams`: a live process
takes its next step and syncs again, which the heartbeat loop does; nobody has to
append, compact of itself, read or adopt, and a killed process need not restart.
`Journal`: the journal's thread, the refresh loop, the thread of a relisting and the
first request for the index go on, and the clock moves (strongly fair, because it stands
still during a tick, and ticks recur); writers, faults and restarts are not fair. All the
rest is weak fairness, which is what an operating system that schedules a thread gives.

**What the violations show.**

* `RegistryHeader`: a model is listed when its header record is complete. A registration
  cut short while it creates the header leaves a header that is only claimed on the
  remote, or that only its own host has. The next registration takes it for a header of
  unknown kind and goes on; its versions are returned and can be resolved by number, but
  on the other hosts no listing names the model, `registered_runs` does not read its
  versions, and a prune deletes the runs they name. `PruneSpares` is the same statement
  for models whose header is listed, and holds.
* `ReleasesOrm`: one branch stamps `--orm patch --pr rc`, another, still at the release
  before, stamps `--orm patch`. The target is a release, whose `prerelease_count` is
  empty, a prerelease of it exists, and the lookup of the counter raises `KeyError`.
  `handle_stamp` does not handle it; the catch-all of `vmn_run` (`cli/entry.py:263`) turns
  it into exit code 1, and nothing is stamped.

**What the properties leave out**, because the code does not give it:

* `claim_next_trial` takes `max(taken) + 1`. A trial whose claim a remote fault undid
  stays free below later claims, so `SweepCovers` is about executions
  without faults.
* A stamp looks for a matching version before it pulls, so a clone that loses the race
  for a commit stamps a second version on top of the winner's.
* The root version is counted from HEAD and root tags are shared: once another branch is
  three root versions ahead, `stamp --pull` fails. `PullGetsThrough` is about one branch.
* On a server without atomic pushes a push may be applied in part; then only `RolledBack`
  and `StampEnds` are claimed.
* The root version is a "monotonic composition version" (`README.md:52`), and so
  `VersionsGrow` says, as long as no stamp was killed. A killed stamp leaves its root tag
  in its clone, which then skips that number. Another clone that had tried the number
  keeps it over a retry (`override_main_current_version` is refreshed on a tag conflict
  and not on a refused push, `cli/commands.py:694-714`) and takes it on top of the higher
  one. It takes three clones on two branches, more than the run has; the attempt to prove
  the property without the exception showed it.
* `StampGoesOn` lets a stamp be refused over a release that is news: a tag that comes with
  the fetch between two tries, of the version `--orm` leads to. The stamp goes on with the
  number it had tried (`Attempts`) and finds its version released.
* The upload worker does not repeat a failed final upload, and a final state that was
  refused `_ROUNDS` times is dropped. `FinishTellsTheTruth` exempts the attempts whose
  upload failed, and `FinishEndsRun` counts both as failed writes: the shared state says
  `running` until a resume or `finish_run` writes it.
* A release killed before its push is taken for done by the next `vmn release`
  (`ReleaseTellsTheTruth` excludes that clone).
* A registration killed between its local record and the remote claim leaves its host a
  version record of its own; another host may register that number differently, and the
  first host goes on to read its own (`OneRunPerVersion`, `PruneSpares` exclude it).
  A prune whose read of the log did not get through (`blind`) knows its own host's entries
  only, and `PruneSpares` exempts it.
  `expect` of `set_alias` is checked on what was read and not when the entry is appended.
* A log's file is measured before the ship lock is taken (`cached_logs.py:193`). A second
  process of the copy may therefore find nothing to ship, and keep a listing as the ship
  state, while an upload that another one gave up is still to land. When it lands and the
  finished log is merged with it, the ship state goes on under a number that the merge
  hides. So the first part of `RemoteIsPrefix`, and `AllShipped`, are about `Exact`
  streams: those of a run that goes on, those whose requests do not land late, and those
  of which each copy has one process. It takes four entries, more than the run has; the
  search for the inductive invariant showed it.
* A reader of a log that races a merge may miss lines until it reads again
  (`ReadsAreSound` is about metrics). Adoption while the original still writes is outside
  its contract.
* Notes that come later than the reader's windows allow, that a failed tick dropped, or
  whose read was set aside when the server stopped are left to the consistency check. A
  failed tick drops the notes it had accepted before its listing failed
  (`journal_reader.py:111`) and, if it was a rescan, those too old for the next one.

## 5. What is proved

Checked by TLAPS for every value of the constants under the assumptions named in the
modules (`RunStateAssumption`, `NoFileAssumption`, `SweepAssumption`,
`RegistryAssumption`, `NoneAssumption`, `StampAssumption`, `StreamsAssumption`,
`ReleasesAssumption`, `JournalAssumption`). The sets may be of any size
(hosts, clones, apps and branches finite); the assumptions say that a remote is not a
host, that every process has a host, that without a remote all are on the same one, that
bounds are numbers, that the marks for "nothing" are not among the values they stand
beside, and that a journal keeps its notes for longer than its windows reach. Every inductive invariant below was an invariant of the component's runs before
it was proved.

**Run state** (`RunStateProofs`).

* `TypeCorrect`, and `EndingIsKept` (`Spec => EndingKept`): on the shared side a final
  state is replaced by another writer's only by an attempt reopening that very ending
  with its first write there, or by a forced `finish_run`. `EndingKept` is a statement
  about steps; what makes it true is the state of every write in progress. The inductive
  invariant `IInv` says so: besides the types, `Owned` (what an attempt writes, has
  queued or wrote last carries its own id), `Threads` (which threads can be busy) and
  `Decided` (the token a conditional write is waiting on is not an ending the attempt
  may not replace), with `FinDecided` for `finish_run`. A save happens only while the
  stored state *is* the token, so the decision carries over to it.

**Endings** (`RunStateProofs`, second part).

* `FinishTellsTheTruthAlways`, `LocalEndingIsRealAlways`. They follow an ending on its way,
  so the invariant `RInv` is about where it is: with its own thread, queued, in the upload
  worker, or landed, and in one of these at a time (`OnePlace`), in none only after a
  failed call or a defeat (`NotForgotten`); a defeat has a cause (`Beaten`), and a copy of
  an ending is of one that landed, or its attempt is not through with it (`CopyReal`,
  `SharedReal`, `LocalReal`). `CallOnce` says the same of a `finish_run`.
* `ImplementsRunEndingAlways` (`Spec => ImplementsRunEnding`): the refinement. The
  initial states map to the initial state of `RunEnding`; a step maps to `End` when it
  saves an ending on the shared side, to `Reopen` when an opening attempt replaces one
  that it was allowed to, to `Grant` and `AskForce` when that permission is given, and to a
  stutter otherwise.
  `AttemptWrites` needs `EndingKept` for the replaced state and `OnePlace` for "at most
  once".
* `SettledRunEnds` (`Spec /\ []<>Settled => FinishEndsRun`): what is hard in
  `FinishEndsRun` is that writers give way to one another, and that might go round in a
  circle. `GivesWay` says that it does not: an attempt is superseded only by an ending that
  has landed or is on its way. So once nothing is left to publish (`Settled`) an ending has
  landed, or a write failed or a process was killed. It needs no fairness; that publishing
  comes to rest again and again is what the fairness of `FairSpec` is for.

**Sweeps** (`SweepClaimsProofs`).

* `TypeCorrect`, `OneOwnerAlways`, `OwnedStaysTaken`: no slot is won twice, and one that
  was won stays taken on the shared side. They are proved together: a slot is won only
  when it is not taken, and every owned slot is taken. `Sided` adds that the remote
  stages occur only with a remote, and the undo only with a local side next to it, so that
  no undo touches the shared side.
* `GivesUpOnlyLate`, `RunsAreClaimedAlways`: the index an agent tries is at least the
  number of its rounds, and a run is of a slot its agent owns, so `OneOwner` makes it the
  only one.
* `CoveredAlways`, `StoppedCovers` (`Spec /\ <>Stopped => SweepCovers`, if there are
  agents). Without faults no agent skips a trial: every index below one that a side holds
  (`NoGap`) or an agent tries (`Past`) is taken on the shared side or is with an agent whose
  claim is about to go there; and a slot that an agent won has its run, or the agent is
  about to create it (`Used`). So when an agent finds the sweep exhausted and all have
  stopped, every trial has a run, and it is over. That the agents stop is all that
  fairness is needed for.

**Registry** (`RegistryProofs`).

* `TypeCorrect`, `OneRunPerVersionAlways`, `NumbersGrowAlways`. `Work` says where a
  registration has come to and what it has put where; `Copies` that a host's copy of a
  version is the remote's unless it is just creating it; `Returned` that a number that was
  returned is a whole record of its run on the remote, which nothing removes.
* `NeverGivesUpAlways`, if there are fewer versions than tries: the number of tries of a
  registration never exceeds the number it tries.
* `KeysUniqueAlways`: a writer's entries have the positions below their count (`Stream`),
  and a writer always sees its own (`Moving`), so the position it takes is new.
* `MoveTakesEffectAlways`, `PruneSparesAlways`, the action properties: the entry to be
  flushed is later than all the move has read; the cache of run models is right for the
  log it was built from, and a log with the same entries has the same live versions
  (`Pruning`, `Cached`).

**Stamp** (`StampProofs`).

* `TypeCorrect`, `RolledBackAlways`, on any server: `BaseInv` says that a clone's branch is
  a prefix of the remote's plus at most the one commit being made (`Local`), that names are
  given once on the remote (`Distinct`), and which tags are the command's own at each
  stage (`Undone`).
* `PublishedWholeAlways`, `OneCommitPerVersionAlways`, `VersionsGrowAlways`, on a server with
  atomic pushes. `WholeInv` adds that a clone has the tags of the versions it has checked
  out (`Known`), that the number it tries is above them (`Above`), that a commit nobody
  published is in one clone only (`Private`), and that the root versions have no gap as
  long as no stamp was killed (`RootInv`); so a root version that is new is above all
  others.
* `PullGetsThroughAlways`, if a stamp may retry at all (the code: 3 times) and, where there
  is a root app, all clones are on one branch, which is where the property holds (section
  4). Its invariant `CalmPull` follows a stamp that nobody disturbed: once it has fetched
  and pulled, its clone has the remote's tags and its branch's commits, so the version and
  the root version it chooses are above all the remote has (`Reached`: every commit is on
  that branch, and so is the last root version), and no tag and no push is refused.
* `StampRunsOut` (`Spec => [][RunsOut]_vars`): a stamp takes at most seven steps for every
  retry and three more, whatever fails. `StepsLeft` is the variant: each step of a command
  lowers it, no other clone raises it. `StampEnds` follows from it with the fairness that a
  live command takes its next step.

**Streams** (`StreamsProofs`), under the hypothesis `"metrics" \notin Late`: late requests
are those of logs, as in the run. A replacing put of metrics that lands late may undo a
newer one (section 4), and then TLC refutes `ImplementsReplica`.

* `TypeCorrect`, `RemoteIsPrefixAlways`, `ReadsAreSoundAlways`. The invariant `IInv` has a
  part for each thing a step relies on:
  * `OnRemote`: the objects are sound (one per name, no number missing below the last,
    what is visible ends in the order of its numbers) and, where ship states are exact,
    in a chain;
  * `Requested`: a segment that may yet land, now or late, has a number that is taken or
    the next one, and then it begins where the remote ends; a merged object ends where its
    last segment does, or is covered already; what is to be deleted is hidden;
  * `Owned`, `Working`: one copy owns the stream and one process of it works at a time;
    the copy's file has all that the remote shows of metrics;
  * `Stated`, `Shipping`, `Replacing`: what a ship state, a size that was read before the
    lock, and a compaction of the whole file say of the remote is true when it is used.
    This is where `Exact` comes from: without it `Stated` is not inductive, and the
    counterexample is the one of section 4;
  * `Agreed`, `Reading`: merged objects of the same segments hold the same entries, or the
    later one is a compaction of the whole stream, after which nothing is shipped
    (`Final`); what a reader has listed and not fetched goes on where it is.

  A step has one of five effects on the objects (`Effect`), and for each a lemma about sets
  of objects says that they stay sound (`AddSegment`, `AddMerged`, `PutMerged`,
  `DeleteHidden`).
* `ImplementsReplicaAlways` (`Spec => ImplementsReplica`): the refinement. `Append` maps to
  `Append`; the next segment that arrives and a compaction of the whole file that shows
  more map to `Show`, all else to a stutter (`RemoteGrows`).
* `ClaimsAlways`, `ToldArrives`. A sync ships nothing when its ship state says that all is
  there, so a ship state that says too much would lose entries for good. `Claims`: it never
  says more than the remote shows, and a sealed file is kept as `INDEXED` only once its
  object shows all of it. `ToldArrives` draws the conclusion: if each process's ship state
  comes to have the whole file again and again (`Told`), then `AllShipped`. Fairness is
  needed for a sync to get that far, never for the remote to agree.

**Releases** (`ReleasesProofs`).

* `TypeCorrect`, `ReleaseTellsTheTruthAlways`, `VersionsGrowAlways`. Nothing keeps a clone's
  tags up to date, so the invariant `IInv` says what even old ones are good for:
  * `Sound`, of the remote's tags and of each clone's: a name is given once; with a
    prerelease its smaller numbers are there; a counter in a tag is the number of a tag;
  * `Local`: the prereleases a clone knows are on the remote. So are its releases and its
    metadata, but for the tag it is about to push and those a killed command left. And it
    knows the tag of every version on its branch, which no failed push takes away.

  `VersionsGrow` follows because a number that is not above one on the branch would, by
  `Sound`, be that of a tag the clone knows, and the loop of `_stamp_version` does not end
  well with such a number. Its argument does not look at the dates: it holds for any order
  in which git may list the tags, as long as there is a last one (`LatestIs`), and for any
  number of passes of the loop (`LoopIs`).
* `NoPrereleaseAfterReleaseAlways`, `StampGoesOnAlways`, the action properties: between two
  tries the clone's tags change, but only to other sound ones (`Views`), which is all the
  argument needs; and what the loop came to (`Result`) remembers the version its last pass began with, and so what that pass
  looked for among the tags. A stamp that begins with a release is refused over another
  version's release at most, which it then learned on its way (`News`).

**Journal** (`JournalProofs`).

* `TypeCorrect`, `RestartFindsAllAlways`. The saved mark says of every change, at once, that
  it is saved or that a replay from the mark names its note again; so the invariant `IInv`
  follows a change from its note to the saved records:
  * `Replaying`: until the replay that follows a restart, what the index lacks is no older
    than its mark reaches back to;
  * `Following`, its heart: after that, or after a full listing began, a note is hinted
    (`Known`), or a listing behind serving will find its record, or has it and has not
    handed it over (`Listing`), or the reader has not read it and its next rescan comes in
    time (`Timely`). And a note that the hints do not have is young enough to be
    named by a replay from `reached`, and one that the index does not have by a replay from
    `taken`;
  * `Noted`, `Indexed`, `Relisted`: what notes, records, marks and a relisting say of one
    another. `Indexed` has the reason why a mark is told only by an index that has replayed
    what it missed, and why a failed listing may put `taken` back to `before`.

  Each action then keeps one note followed (`FollowedAges`, `FollowedReads`,
  `FollowedReplay`, `FollowedLists`, `FollowedRest`): time moves a note and the bound it is
  below by one unit; a tick that misses a note leaves it to the next rescan
  (`MissedIsTimely`); a batch that leaves no hint behind has the records of all that were
  hinted. From `Following`, a save with its mark keeps `RestartFindsAll`. The proof needs
  neither the margin of the replay nor a bound on the time between two ticks: a reader
  that was away looks back that much further. It needs that a note put in time is at most
  `Skew - Rescan` old, which is what `odd` says of a note that is not "late".
* `PromisedAlways`, `QuietShows`: no change is forgotten, if `Lag <= Margin + 1`. These two
  are where the margin of a replay counts: ticks may be late by the margin and one unit,
  and TLC finds a change forgotten when they may be later (`Margin = 0`, `Lag = 2`). The
  code's margin is an hour (`ui/journal_follow.py:40`), its ticks come every few seconds.
  `Promised` says of the last write of each record, unless its note came late, was dropped
  by a failed tick or was lost at a restart (`odd`), that a note of it is queued, or unread
  and due for the next rescan, or that it is hinted, set aside, being listed, or in the
  index, or that a replay from the mark will still name it; and that what a mark vouches
  for is there. The rest of the invariant `KInv` is `OnTime`, that a replay comes before
  the notes it needs are pruned, and `Kept`: nothing is newer than the store's record.
  `QuietShows` draws the conclusion: an index that follows hints and has none left, nor a
  replay, retry, listing or save to do (`Quiet`), shows everything. `AllShown` follows for
  every execution in which it catches up again and again. The clock and the threads need
  fairness to catch up; that nothing was lost on the way needs none.

Only model-checked:

* `StampEnds`: liveness under fairness is out of the prover's reach, which has no `ENABLED`
  and no induction over a variant. The variant itself is proved (`StampRunsOut`).
* The fairness half of `FinishEndsRun`, `SweepCovers`, `AllShipped` and `AllShown`: that
  publishing settles, that agents stop, that a sync gets as far as its ship state, that the
  index catches up (`Quiet` comes again and again in the runs' bounds under `FairSpec`).
  The theorems above take it as a hypothesis; the runs check the properties themselves.

## 6. What is not modelled

* Planned: the push of offline runs and the allocation of run names, the election of the
  refreshing server, `goto` (section 2).
* Of the modelled components: dependencies on other repositories, version backends,
  overrides and dry runs of `stamp`; the whitelist of release branches; the uses of a
  model version; the in-memory buffer of logs; half-written lines; live records, overflow
  and the consistency check of a journaled index, and the index that follows no journal.
  Two processes of a host that share a writer id (`core/writer.py:77`) and so append to one
  stream of the registry's log. The listing of a metric stream's local files before the
  ship lock (`cached_metrics.py:186`): if the stream is compacted in between, it is put
  once more as it is. And a `.vmx` that is built while the remote is out of reach
  (`cached_metrics.py:148`) and goes up with a later sync: in `Streams` a compaction that
  does not reach the remote seals nothing.
  The wall clock is abstracted to any outcome wherever a decision depends on it.
* Not planned: the web UI and HTTP handlers, texts, the configuration editor, shell
  completion and the changelog (presentation), importers and integrations (adapters), the
  SDK calls of the other object stores (I/O behind the same conditional operations), the
  SQL of the index, queries and folds over metrics (data without an order of steps to get
  wrong), snapshots and development versions (their data is a working tree). They are most
  of the repository's lines.
