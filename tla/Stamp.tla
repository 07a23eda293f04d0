------------------------------- MODULE Stamp --------------------------------
(***************************************************************************)
(* `vmn stamp` of several clones that share one git remote.                *)
(*                                                                         *)
(* A stamp is a version commit plus an annotated tag for the app and, for  *)
(* a service of a root app, one for the root app (publish_stamp).  No      *)
(* server hands out the numbers: a clone computes them from the tags it    *)
(* knows, commits, tags, and pushes; the remote refuses a branch that is   *)
(* not a fast-forward and a tag that exists; then the clone undoes its     *)
(* commit and its tags and, with luck, tries again (_stamp_version).  A    *)
(* clone's file lock excludes a second command on the same clone.          *)
(*                                                                         *)
(* Versions are one release octet (release_mode patch of one minor line).  *)
(* A branch is the sequence of its commits.                                *)
(***************************************************************************)
EXTENDS Integers, Sequences, FiniteSets, SequencesExt

CONSTANTS
    Clones,
    Branches,
    Apps,
    Layouts,      \* which branch each clone is on: the cases to look at
    AppsOf,       \* the apps a clone stamps
    HasRoot,      \* the apps are services of a root app
    Servers,      \* the servers: whether push --atomic is supported
    Retries,      \* retries of _stamp_version: 3
    Pull,         \* the values of --pull in use
    MaxUser,      \* bound on user commits
    MaxFaults     \* bound on failed git calls and killed commands

Root == "root"      \* the kind of a root app's tags
None == -1          \* no --orv, or no version yet

ASSUME StampAssumption ==
    /\ Layouts \subseteq [Clones -> Branches] /\ AppsOf \in [Clones -> SUBSET Apps]
    /\ {Root, "user", "init"} \cap Apps = {}
    /\ IsFiniteSet(Apps) /\ Apps # {} /\ IsFiniteSet(Clones)
    /\ IsFiniteSet(Branches) /\ Branches # {}
    /\ HasRoot \in BOOLEAN /\ Servers \subseteq BOOLEAN /\ Pull \subseteq BOOLEAN
    /\ Retries \in Nat /\ MaxUser \in Nat /\ MaxFaults \in Nat

VARIABLES
    atomic,    \* whether the remote supports push --atomic
    branchOf,  \* the branch a clone is on
    heads,     \* the remote's branches
    rtags,     \* the remote's tags
    head,      \* the checked out branch of every clone
    track,     \* its remote-tracking branch
    tags,      \* its tags
    cmd,       \* its stamp command: where it is and what it holds
    calm,      \* history: nothing failed for, or came between, the command so far
    users, faults, crashes

vars == <<atomic, branchOf, heads, rtags, head, track, tags, cmd, calm, users, faults, crashes>>
setup == <<atomic, branchOf>>
remote == <<setup, heads, rtags>>
bounds == <<users, faults, crashes>>

\* from: the user changeset a version commit says it versions (for a user
\* commit: itself).
Commits == [id : Nat, app : Apps \cup {"user", "init"}, ver : Nat, root : Nat, from : Nat]
Tags    == [kind : Apps \cup {Root}, n : Nat, on : Commits]
Resting == {"idle", "stamped", "failed", "crashed"}
Stages  == Resting \cup {"fetch", "pull", "stamp", "commit", "tag", "push",
                         "revert", "refetch", "repull"}

TypeOK ==
    /\ atomic \in BOOLEAN /\ branchOf \in Layouts
    /\ heads \in [Branches -> Seq(Commits)]
    /\ rtags \subseteq Tags
    /\ head \in [Clones -> Seq(Commits)]
    /\ track \in [Clones -> Seq(Commits)]
    /\ tags \in [Clones -> SUBSET Tags]
    /\ \A c \in Clones : cmd[c] \in
          [at : Stages, app : Apps, pull : BOOLEAN, from : Nat, base : Nat, orv : Nat \cup {None},
           ver : Nat, root : Nat, left : 0 .. Retries, err : 0 .. 2]
    /\ calm \in [Clones -> BOOLEAN]
    /\ users \in Nat /\ faults \in Nat /\ crashes \in Nat

\* What init_repo and then _init_app leave, app by app: the version each starts
\* from, and the root app's next version, on a commit of vmn's own.
InitCommit(i) == [id |-> i, app |-> "init", ver |-> 0, root |-> IF i > 1 THEN i - 1 ELSE 0,
                  from |-> 0]
InitBranch == [i \in 1 .. Cardinality(Apps) + 1 |-> InitCommit(i - 1)]
InitTags   ==
    LET order == SetToSeq(Apps)
    IN {[kind |-> order[i], n |-> 0, on |-> InitCommit(i)] : i \in 1 .. Len(order)}
          \cup {[kind |-> Root, n |-> i - 1, on |-> InitCommit(i)] :
                   i \in IF HasRoot THEN 1 .. Len(order) ELSE {}}

Rest(at, app, pull) ==
    [at |-> at, app |-> app, pull |-> pull, from |-> 0, base |-> 0, orv |-> None,
     ver |-> 0, root |-> 0, left |-> 0, err |-> 0]

Init ==
    /\ atomic \in Servers /\ branchOf \in Layouts
    /\ heads = [b \in Branches |-> InitBranch]
    /\ rtags = InitTags
    /\ head = [c \in Clones |-> InitBranch]
    /\ track = [c \in Clones |-> InitBranch]
    /\ tags = [c \in Clones |-> InitTags]
    /\ cmd = [c \in Clones |-> Rest("idle", CHOOSE app \in Apps : TRUE, FALSE)]
    /\ calm = [c \in Clones |-> FALSE]
    /\ users = 0 /\ faults = 0 /\ crashes = 0

-----------------------------------------------------------------------------
(***************************************************************************)
(* What a clone knows.                                                     *)
(***************************************************************************)

CommitsOf(s) == {s[i] : i \in 1 .. Len(s)}
Named(t, k, n) == t.kind = k /\ t.n = n

\* The hash of a new commit: none that is in use.  The lowest, so that commits
\* that were dropped leave no trace.
NewId ==
    LET all == UNION ({CommitsOf(heads[b]) : b \in Branches}
                         \cup {CommitsOf(head[c]) \cup {t.on : t \in tags[c]} : c \in Clones}
                         \cup {{t.on : t \in rtags}})
        used == {x.id : x \in all}
    IN Min((0 .. Cardinality(used)) \ used)

\* verstr_from_file: the app's version in the checked out version file.
verstr_from_file(c, app) ==
    LET own == {i \in 1 .. Len(head[c]) : head[c][i].app = app}
    IN IF own = {} THEN 0 ELSE head[c][Max(own)].ver

\* get_last_user_changeset: what HEAD versions, if HEAD is a tagged version
\* commit; else HEAD.
last_user_changeset(c) ==
    IF \E t \in tags[c] : t.on = Last(head[c]) THEN Last(head[c]).from
    ELSE Last(head[c]).id

\* find_matching_version: the version in the file is tagged, is not the initial
\* one, and versions the user changeset that is checked out.
Matched(c, app) ==
    \E t \in tags[c] :
       /\ Named(t, app, verstr_from_file(c, app))
       /\ t.on.app # "init"
       /\ t.on.from = last_user_changeset(c)

\* check_for_outgoing_changes
Outgoing(c) == ~IsPrefix(head[c], track[c])

\* git fetch --tags: a tag that is here already is not overwritten, and fails
\* the call (Clobbered) when it is another one there.
Fetched(c) ==
    tags[c] \cup {t \in rtags : \A u \in tags[c] : ~Named(u, t.kind, t.n)}
Clobbered(c) ==
    \E t \in rtags : \E u \in tags[c] : Named(u, t.kind, t.n) /\ u # t

\* git pull --ff-only: HEAD and the tags of what came with it.
Follow(c, ts, h) ==
    ts \cup {t \in rtags : /\ t.on \in CommitsOf(h)
                           /\ \A u \in ts : ~Named(u, t.kind, t.n)}

-----------------------------------------------------------------------------
(***************************************************************************)
(* Users.                                                                  *)
(***************************************************************************)

\* Somebody else changed the remote.
Disturb(c) == calm' = [d \in Clones |-> calm[d] /\ d = c]

\* A user commits on an up to date clone and pushes.
UserCommit(c) ==
    LET b == branchOf[c]
        u == [id |-> NewId, app |-> "user", ver |-> 0, root |-> 0, from |-> NewId]
    IN /\ cmd[c].at \in Resting
       /\ users < MaxUser
       /\ head[c] = heads[b]
       /\ heads' = [heads EXCEPT ![b] = Append(@, u)]
       /\ head' = [head EXCEPT ![c] = Append(@, u)]
       /\ track' = [track EXCEPT ![c] = head'[c]]
       /\ users' = users + 1
       /\ Disturb(c)
       /\ UNCHANGED <<setup, rtags, tags, cmd, faults, crashes>>

\* A user pulls.
UserPull(c) ==
    LET h == heads[branchOf[c]]
    IN /\ cmd[c].at \in Resting
       /\ IsStrictPrefix(head[c], h)
       /\ head' = [head EXCEPT ![c] = h]
       /\ track' = [track EXCEPT ![c] = h]
       /\ tags' = [tags EXCEPT ![c] = Follow(c, @, h)]
       /\ UNCHANGED <<remote, cmd, calm, bounds>>

\* After a crash the user drops the version commit that was not pushed
\* (git reset --hard @{upstream}); its tags stay.
UserReset(c) ==
    /\ cmd[c].at = "crashed"
    /\ Outgoing(c)
    /\ head' = [head EXCEPT ![c] = track[c]]
    /\ UNCHANGED <<remote, track, tags, cmd, calm, bounds>>

-----------------------------------------------------------------------------
(***************************************************************************)
(* handle_stamp, up to the first attempt.                                  *)
(***************************************************************************)

Go(c, at)   == cmd' = [cmd EXCEPT ![c].at = at]
End(c, at)  == cmd' = [cmd EXCEPT ![c] = Rest(at, @.app, @.pull)]

\* A git call of c fails.
Fault(c) ==
    /\ faults + crashes < MaxFaults
    /\ faults' = faults + 1
    /\ calm' = [calm EXCEPT ![c] = FALSE]
    /\ UNCHANGED <<users, crashes>>

Quiet == UNCHANGED <<calm, bounds>>

Start(c) ==
    /\ cmd[c].at \in Resting
    /\ ~Outgoing(c)
    /\ \E app \in AppsOf[c], pull \in Pull :
       /\ ~Matched(c, app)
       /\ cmd' = [cmd EXCEPT ![c] =
             [at |-> "fetch", app |-> app, pull |-> pull, from |-> last_user_changeset(c),
              base |-> verstr_from_file(c, app), orv |-> None, ver |-> 0, root |-> 0,
              left |-> Retries, err |-> 0]]
    /\ calm' = [calm EXCEPT ![c] = TRUE]
    /\ UNCHANGED <<remote, head, track, tags, bounds>>

\* perform_cached_fetch: skipped while the last one is recent.
Fetch(c) ==
    /\ cmd[c].at = "fetch"
    /\ \/ /\ UNCHANGED <<track, tags>>
          /\ Quiet
          /\ Go(c, IF cmd[c].pull THEN "pull" ELSE "stamp")
       \/ /\ tags' = [tags EXCEPT ![c] = Fetched(c)]
          /\ track' = [track EXCEPT ![c] = heads[branchOf[c]]]
          /\ Quiet
          /\ IF Clobbered(c) THEN End(c, "failed")
             ELSE Go(c, IF cmd[c].pull THEN "pull" ELSE "stamp")
       \/ UNCHANGED <<track, tags>> /\ Fault(c) /\ End(c, "failed")
    /\ UNCHANGED <<remote, head>>

\* _retrieve_stamp_updates: a forced fetch, then pull --ff-only.
PullFirst(c) ==
    LET h == heads[branchOf[c]]
    IN /\ cmd[c].at = "pull"
       /\ \/ /\ ~Clobbered(c) /\ IsPrefix(head[c], h)
             /\ tags' = [tags EXCEPT ![c] = Fetched(c)]
             /\ track' = [track EXCEPT ![c] = h]
             /\ head' = [head EXCEPT ![c] = h]
             /\ Quiet
             /\ Go(c, "stamp")
          \/ /\ Clobbered(c)
             /\ tags' = [tags EXCEPT ![c] = Fetched(c)]
             /\ track' = [track EXCEPT ![c] = h]
             /\ UNCHANGED head
             /\ Quiet
             /\ End(c, "failed")
          \/ UNCHANGED <<head, track, tags>> /\ Fault(c) /\ End(c, "failed")
       /\ UNCHANGED remote

-----------------------------------------------------------------------------
(***************************************************************************)
(* _stamp_version: the loop around publish_stamp.                          *)
(***************************************************************************)

\* Mutant: the lowest number without a tag.
NextVersionFree(c) ==
    Min({v \in 1 .. (Cardinality(tags[c]) + 1) :
            \A t \in tags[c] : ~Named(t, cmd[c].app, v)})

\* advance_version, increase_octet: above every tag of the app that is known.
NextVersion(c) ==
    Max({cmd[c].base} \cup {t.n : t \in {u \in tags[c] : u.kind = cmd[c].app}}) + 1

\* _next_root_state: after --orv or what the last attempt tried, or else after
\* the latest root version that HEAD reaches.
ReachableRoots(c) ==
    {t.n : t \in {u \in tags[c] : u.kind = Root /\ u.on \in CommitsOf(head[c])}}

\* Mutant: after the latest root version this app was stamped with.
NextRootOwn(c) ==
    LET own == {t.n : t \in {u \in tags[c] : /\ u.kind = Root
                                             /\ u.on \in CommitsOf(head[c])
                                             /\ u.on.app \in {cmd[c].app, "init"}}}
    IN IF ~HasRoot THEN 0
       ELSE IF cmd[c].orv # None THEN cmd[c].orv + 1 ELSE Max(own) + 1

NextRoot(c) ==
    IF ~HasRoot THEN 0
    ELSE IF cmd[c].orv # None THEN cmd[c].orv + 1 ELSE Max(ReachableRoots(c)) + 1

\* Mutant: an attempt is counted twice.
CountTwice(c) == cmd[c].left - 2

Count(c) == cmd[c].left - 1

\* stamp_app_version and stamp_root_app_version.
StampVersion(c) ==
    /\ cmd[c].at = "stamp"
    /\ IF cmd[c].left = 0 \/ (HasRoot /\ ReachableRoots(c) = {})
       THEN End(c, "failed")
       ELSE cmd' = [cmd EXCEPT ![c].at = "commit", ![c].left = Count(c),
                               ![c].ver = NextVersion(c), ![c].root = NextRoot(c)]
    /\ UNCHANGED <<remote, head, track, tags, calm, bounds>>

\* The names of the tags of the stamp (_publish_tag_names).
Names(c) ==
    {<<cmd[c].app, cmd[c].ver>>} \cup (IF HasRoot THEN {<<Root, cmd[c].root>>} ELSE {})

Bears(t, names) == <<t.kind, t.n>> \in names
TagsOn(c, x) == {[kind |-> m[1], n |-> m[2], on |-> x] : m \in Names(c)}

\* _write_stamp_files, publish_commit; what fails is undone and not retried.
PublishCommit(c) ==
    LET x == [id |-> NewId, app |-> cmd[c].app, ver |-> cmd[c].ver, root |-> cmd[c].root,
              from |-> cmd[c].from]
    IN /\ cmd[c].at = "commit"
       /\ \/ /\ head' = [head EXCEPT ![c] = Append(@, x)]
             /\ Go(c, "tag")
             /\ Quiet
          \/ Fault(c) /\ End(c, "failed") /\ UNCHANGED head
       /\ UNCHANGED <<remote, track, tags>>

\* _create_tags: the app's tag, then the root app's.  A tag that exists fails
\* the stamp with error 1.
CreateTags(c) ==
    LET x == Last(head[c])
        taken == {m \in Names(c) : \E t \in tags[c] : Named(t, m[1], m[2])}
        made == IF taken = {} THEN TagsOn(c, x)
                ELSE {t \in TagsOn(c, x) : t.kind # Root /\ <<t.kind, t.n>> \notin taken}
    IN /\ cmd[c].at = "tag"
       /\ tags' = [tags EXCEPT ![c] = @ \cup made]
       /\ IF taken = {} THEN Go(c, "push")
          ELSE cmd' = [cmd EXCEPT ![c].at = "revert", ![c].err = 1]
       /\ UNCHANGED <<remote, head, track, calm, bounds>>

\* What the remote makes of a push.
FastForward(c) == IsPrefix(heads[branchOf[c]], head[c])

\* Mutant: the tags are pushed by force.
NewTagsForced(c) == TagsOn(c, Last(head[c]))

\* The tags of the push that the remote has no other of that name for.
NewTags(c) == {t \in TagsOn(c, Last(head[c])) : \A u \in rtags : ~Named(u, t.kind, t.n)}

\* Mutant: the tags are pushed whatever becomes of the branch.
AcceptedTagsFirst(c) ==
    [branch |-> FastForward(c) /\ NewTags(c) = TagsOn(c, Last(head[c])),
     tags |-> NewTags(c)]

\* An atomic push updates every ref or none; without it, each one it can.
Accepted(c) ==
    IF atomic /\ ~(FastForward(c) /\ NewTags(c) = TagsOn(c, Last(head[c])))
    THEN [branch |-> FALSE, tags |-> {}]
    ELSE [branch |-> FastForward(c), tags |-> NewTags(c)]

Whole(c) == Accepted(c).branch /\ Accepted(c).tags = TagsOn(c, Last(head[c]))

Land(c) ==
    /\ heads' = IF Accepted(c).branch THEN [heads EXCEPT ![branchOf[c]] = head[c]] ELSE heads
    /\ rtags' = rtags \cup Accepted(c).tags
    /\ track' = IF Accepted(c).branch THEN [track EXCEPT ![c] = head[c]] ELSE track

\* Mutant: a push that is refused is tried again as it is.
PushAgain(c) ==
    /\ cmd[c].at = "push"
    /\ Land(c)
    /\ IF Whole(c) THEN End(c, "stamped") ELSE UNCHANGED cmd
    /\ IF Accepted(c).branch \/ Accepted(c).tags # {} THEN Disturb(c) ELSE UNCHANGED calm
    /\ UNCHANGED <<setup, head, tags, bounds>>

\* _push_published_refs; a push that fails is error 2.
Push(c) ==
    /\ cmd[c].at = "push"
    /\ Land(c)
    /\ IF Whole(c) THEN End(c, "stamped")
       ELSE cmd' = [cmd EXCEPT ![c].at = "revert", ![c].err = 2]
    /\ IF Accepted(c).branch \/ Accepted(c).tags # {} THEN Disturb(c) ELSE UNCHANGED calm
    /\ UNCHANGED <<setup, head, tags, bounds>>

\* The push fails on the way there, or on the way back.
PushFault(c) ==
    /\ cmd[c].at = "push"
    /\ \/ UNCHANGED <<heads, rtags>>
       \/ /\ heads' = IF Accepted(c).branch
                      THEN [heads EXCEPT ![branchOf[c]] = head[c]] ELSE heads
          /\ rtags' = rtags \cup Accepted(c).tags
    /\ faults + crashes < MaxFaults /\ faults' = faults + 1
    /\ calm' = [d \in Clones |-> FALSE]
    /\ cmd' = [cmd EXCEPT ![c].at = "revert", ![c].err = 2]
    /\ UNCHANGED <<setup, head, track, tags, users, crashes>>

\* Mutant: the tags of a failed push stay.
RevertKeepsTags(c) ==
    /\ cmd[c].at = "revert"
    /\ head' = [head EXCEPT ![c] = Front(@)]
    /\ Go(c, "refetch")
    /\ UNCHANGED <<remote, track, tags, calm, bounds>>

\* _revert, _drop_vmn_commit: reset --hard HEAD~1 and delete the tags by name,
\* one that was there before included.
Revert(c) ==
    /\ cmd[c].at = "revert"
    /\ head' = [head EXCEPT ![c] = Front(@)]
    /\ tags' = [tags EXCEPT ![c] = {t \in @ : ~Bears(t, Names(c))}]
    /\ Go(c, "refetch")
    /\ UNCHANGED <<remote, track, calm, bounds>>

\* Its last step, fetch --tags, whose failure is ignored; then _stamp_version
\* goes on from what it tried (error 1), pulls (error 2 with --pull) or stops.
Refetch(c) ==
    /\ cmd[c].at = "refetch"
    /\ \/ /\ tags' = [tags EXCEPT ![c] = Fetched(c)]
          /\ track' = [track EXCEPT ![c] = heads[branchOf[c]]]
          /\ Quiet
       \/ UNCHANGED <<track, tags>> /\ Fault(c)
    /\ \/ /\ cmd[c].err = 1
          /\ cmd' = [cmd EXCEPT ![c].at = "stamp", ![c].base = cmd[c].ver,
                                ![c].orv = IF HasRoot THEN cmd[c].root ELSE None]
       \/ cmd[c].err = 2 /\ cmd[c].pull /\ Go(c, "repull")
       \/ cmd[c].err = 2 /\ ~cmd[c].pull /\ End(c, "failed")
    /\ UNCHANGED <<remote, head>>

\* retrieve_remote_changes; a failure is logged and the retry goes on.
Repull(c) ==
    LET h == heads[branchOf[c]]
    IN /\ cmd[c].at = "repull"
       /\ Go(c, "stamp")
       /\ \/ /\ IsPrefix(head[c], h)
             /\ head' = [head EXCEPT ![c] = h]
             /\ track' = [track EXCEPT ![c] = h]
             /\ tags' = [tags EXCEPT ![c] = Follow(c, @, h)]
             /\ Quiet
          \/ UNCHANGED <<head, track, tags>> /\ Fault(c)
       /\ UNCHANGED remote

\* The command is killed; nothing is undone.
Crash(c) ==
    /\ cmd[c].at \notin Resting
    /\ faults + crashes < MaxFaults
    /\ crashes' = crashes + 1
    /\ End(c, "crashed")
    /\ calm' = [calm EXCEPT ![c] = FALSE]
    /\ UNCHANGED <<remote, head, track, tags, users, faults>>

Step(c) ==
    \/ Fetch(c) \/ PullFirst(c) \/ StampVersion(c) \/ PublishCommit(c) \/ CreateTags(c)
    \/ Push(c) \/ PushFault(c) \/ Revert(c) \/ Refetch(c) \/ Repull(c)

User(c) == UserCommit(c) \/ UserPull(c) \/ UserReset(c)

Next == \E c \in Clones : Start(c) \/ Step(c) \/ Crash(c) \/ User(c)

Spec == Init /\ [][Next]_vars

\* A command that runs goes on.
FairSpec == Spec /\ \A c \in Clones : WF_vars(Step(c))

-----------------------------------------------------------------------------
(***************************************************************************)
(* Properties.                                                             *)
(***************************************************************************)

IsVersion(x) == x.app \in Apps
Published == UNION {CommitsOf(heads[b]) : b \in Branches}

\* A version of an app, and a version of the root app, names one commit in the
\* whole repository, whichever clones raced for it on whichever branches.
OneCommitPerVersion ==
    \A x, y \in {z \in Published : IsVersion(z)} :
       x # y => /\ x.app = y.app => x.ver # y.ver
                /\ HasRoot => x.root # y.root

\* Versions grow along every branch: of the app, and of the root app, which is
\* a "monotonic composition version" (README).  The tag that a killed stamp left
\* behind makes its clone skip a root version, which another clone may have tried
\* meanwhile and then takes, on top of a higher one.
VersionsGrow ==
    \A b \in Branches : \A i, j \in 1 .. Len(heads[b]) :
       LET x == heads[b][i]
           y == heads[b][j]
       IN i < j /\ IsVersion(x) /\ IsVersion(y) =>
             /\ x.app = y.app => x.ver < y.ver
             /\ HasRoot /\ crashes = 0 => x.root < y.root

\* With an atomic push a version is published as a whole: a version commit on
\* a remote branch has all its tags there, and a tag there is on such a commit.
PublishedWhole == atomic =>
    /\ \A t \in rtags : t.on \in Published
    /\ \A x \in Published : IsVersion(x) =>
          /\ [kind |-> x.app, n |-> x.ver, on |-> x] \in rtags
          /\ HasRoot => [kind |-> Root, n |-> x.root, on |-> x] \in rtags

\* "vmn rolls back newly created local release state when publication fails"
\* (README): between commands a clone that was never killed has no commit and
\* no tag the remote does not have.
RolledBack ==
    crashes = 0 => \A c \in Clones : cmd[c].at \in Resting =>
       IsPrefix(head[c], heads[branchOf[c]]) /\ tags[c] \subseteq rtags

\* With an atomic push, `stamp --pull` gets through when nothing fails and
\* nobody comes between: on one branch no leftover of earlier stamps or of other
\* services of the root app keeps a clone from stamping.
PullGetsThrough ==
    atomic /\ crashes = 0 => \A c \in Clones :
       cmd[c].at = "failed" /\ cmd[c].pull => ~calm[c]

\* Every stamp comes to an end, retries and failures included.
StampEnds ==
    \A c \in Clones : cmd[c].at \notin Resting ~> cmd[c].at \in Resting
=============================================================================
