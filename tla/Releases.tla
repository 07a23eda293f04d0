------------------------------ MODULE Releases ------------------------------
(***************************************************************************)
(* Prereleases, releases and build metadata: `vmn stamp` with -r, --orm    *)
(* and --pr, `vmn release` with and without --stamp, and `vmn add`, of     *)
(* clones that each work on a branch of their own and share the tags of    *)
(* one remote (cli.commands, stamping.base, stamping.publisher,            *)
(* backends.git_ops).                                                      *)
(*                                                                         *)
(* Which version comes next is computed from the tags a clone knows, and   *)
(* they may be old: a fetch is skipped while the last one is recent.  A    *)
(* stamp is one step here (its commit, tags, push and rollback are the     *)
(* subject of Stamp); a release and an addition tag first and push then.   *)
(* A stamp comes after new commits of the user, and nothing is left of     *)
(* them when they were not stamped: the user may drop them again.          *)
(***************************************************************************)
EXTENDS Integers, Sequences, FiniteSets, SequencesExt

CONSTANTS
    Clones,
    PreOrder,    \* the prerelease names in use, in the order git sorts them
    Modes,       \* the release modes in use: "minor", "patch"
    Args,        \* the flags vmn stamp is called with: [mode, orm, pr]
    Lags,        \* how far each clone's clock is behind, in seconds: the cases
    Retries,     \* retries of _stamp_version: 3
    MaxTags,     \* bound on the tags of the remote
    MaxAdds,     \* bound on those with metadata
    MaxFaults    \* bound on failed pushes and killed commands

Release == "release"
Nobody  == "nobody"
Unset   == "none"      \* a flag that is not given
Pres    == Range(PreOrder)

ASSUME ReleasesAssumption ==
    /\ PreOrder \in Seq(Pres) /\ {Release, Unset} \cap Pres = {}
    /\ Modes \subseteq {"minor", "patch"}
    /\ Args \subseteq [mode : Modes \cup {Unset}, orm : Modes \cup {Unset}, pr : Pres \cup {Unset}]
    /\ \A a \in Args : a.mode = Unset \/ a.orm = Unset
    /\ Lags \subseteq [Clones -> Nat] /\ Retries \in Nat /\ MaxTags \in Nat
    /\ MaxAdds \in Nat /\ MaxFaults \in Nat

VARIABLES
    rtags,    \* the remote's tags
    tags,     \* the tags of every clone
    branch,   \* the versions stamped on each clone's branch, in order
    cmd,      \* the tag a release or an addition is about to push
    res,      \* the command that just ended: whose, how, and the tag it stands for
    lag,      \* how far its clock is behind
    now, faults,
    killed    \* history: a tag was left behind by a killed command

vars == <<rtags, tags, branch, cmd, res, lag, now, faults, killed>>

\* A base version of two octets; a prerelease has a number, a release has none.
Versions ==
    {v \in [base : Nat \X Nat, pre : Pres \cup {Release}, n : Nat] : v.pre = Release <=> v.n = 0}
Counts   == [Pres -> Nat]       \* prerelease_count; 0 for a name it lacks
\* on: the clone and the place on its branch; the initial version is on no
\* clone's own.
Tags     == [ver : Versions, meta : BOOLEAN, on : (Clones \cup {Nobody}) \X Nat,
             at : Int, count : Counts]
Idle     == <<>>
Outcomes == {"none", "ok", "released", "KeyError"}

TypeOK ==
    /\ rtags \subseteq Tags
    /\ tags \in [Clones -> SUBSET Tags]
    /\ branch \in [Clones -> Seq(Versions)]
    /\ \A c \in Clones : Len(cmd[c]) <= 1 /\ cmd[c] \in Seq(Tags)
    /\ res \in [by : Clones \cup {Nobody}, out : Outcomes, ver : Versions, meta : BOOLEAN]
    /\ lag \in Lags
    /\ now \in Nat /\ faults \in 0 .. MaxFaults
    /\ killed \in SUBSET Clones

\* Mutant: the prerelease number stays.
BaseOfNumbered(v) == [v EXCEPT !.pre = Release]

\* get_base_vmn_version
BaseOf(v)   == [base |-> v.base, pre |-> Release, n |-> 0]

Initial     == [base |-> <<0, 0>>, pre |-> Release, n |-> 0]
Nothing     == [by |-> Nobody, out |-> "none", ver |-> Initial, meta |-> FALSE]
NoCounts    == [p \in Pres |-> 0]
Named(t, v, meta) == t.ver = v /\ t.meta = meta
Exists(ts, v, meta) == \E t \in ts : Named(t, v, meta)
TagOf(ts, v, meta) == CHOOSE t \in ts : Named(t, v, meta)

Init ==
    LET t == [ver |-> Initial, meta |-> FALSE, on |-> <<Nobody, 0>>,
              at |-> 0, count |-> NoCounts]
    IN /\ rtags = {t}
       /\ tags = [c \in Clones |-> {t}]
       /\ branch = [c \in Clones |-> <<>>]
       /\ cmd = [c \in Clones |-> Idle]
       /\ res = Nothing
       /\ lag \in Lags
       /\ now = 0 /\ faults = 0
       /\ killed = {}

-----------------------------------------------------------------------------
(***************************************************************************)
(* What a clone knows.                                                     *)
(***************************************************************************)

\* verstr_from_file
File(c) == IF branch[c] = <<>> THEN Initial ELSE Last(branch[c])

\* git fetch --tags: a tag that is here already is not overwritten, and fails
\* the call (Clobbered) when it is another one there.
FetchedTo(ts) == ts \cup {t \in rtags : ~Exists(ts, t.ver, t.meta)}
Fetched(c)   == FetchedTo(tags[c])
Clobbered(c) == \E t \in rtags, u \in tags[c] : Named(u, t.ver, t.meta) /\ u # t

\* _drop_vmn_commit, after a try at v that failed: the tag of that name is
\* deleted and the tags are fetched; that the fetch failed is not told.
Refetched(ts, v) == FetchedTo({t \in ts : ~Named(t, v, FALSE)})

\* _list_tags by taggerdate, then by name.
Rank(v) == IF v.pre = Release THEN 0 ELSE CHOOSE i \in 1 .. Len(PreOrder) : PreOrder[i] = v.pre
Key(t)  == <<t.at, Rank(t.ver), t.ver.n, IF t.meta THEN 1 ELSE 0>>
Before(t, u) ==
    \E i \in 1 .. 4 : Key(t)[i] < Key(u)[i] /\ \A j \in 1 .. i - 1 : Key(t)[j] = Key(u)[j]

\* get_latest_available_tag
Latest(ts) == CHOOSE t \in ts : \A u \in ts \ {t} : Before(u, t)

Prereleases(ts, base) == {t \in ts : t.ver.base = base /\ t.ver.pre # Release}

\* Mutant: the version in the file, released or not.
FromFile(c) == File(c)

\* Mutant: the release made last, on whichever branch.
FromRelease(c) == Latest({t \in tags[c] : t.ver.pre = Release}).ver

\* _determine_initial_version: the version in the file or, when its commit
\* was released, the release.
From(c) ==
    LET own == TagOf(tags[c], File(c), FALSE)
    IN IF \E t \in tags[c] : Named(t, BaseOf(File(c)), FALSE) /\ t.on = own.on
       THEN BaseOf(File(c)) ELSE File(c)

\* The date of a new tag: another second than that of the newest known
\* (_wait_for_new_tagger_second).
Date(c, ts) ==
    LET d == now + 1 - lag[c]
    IN IF d = Max({t.at : t \in ts}) THEN d + 1 ELSE d

-----------------------------------------------------------------------------
(***************************************************************************)
(* The arithmetic.                                                         *)
(***************************************************************************)

\* increase_octet over the tags that match the octets before it (globally).
Increase(ts, base, mode, globally) ==
    LET peers == IF globally THEN {t.ver.base : t \in ts} ELSE {}
    IN IF mode = "minor" THEN <<Max({base[1]} \cup {b[1] : b \in peers}) + 1, 0>>
       ELSE <<base[1], Max({base[2]} \cup {b[2] : b \in {p \in peers : p[1] = base[1]}}) + 1>>

\* advance_version: the next version and its prerelease_count.
Advance(ts, v, mode, pr, globally) ==
    LET base == IF mode = Unset THEN v.base ELSE Increase(ts, v.base, mode, globally)
        pre  == IF pr # Unset THEN pr ELSE IF mode # Unset THEN Release ELSE v.pre
        made == Prereleases(ts, base)
        known == IF made = {} THEN NoCounts ELSE Latest(made).count
        rcn  == IF pre = v.pre THEN v.n ELSE 0
        count == IF mode # Unset THEN [NoCounts EXCEPT ![pre] = 1]
                 ELSE [known EXCEPT ![pre] = Max({@, rcn}) + 1]
    IN IF pre = Release
       THEN [ver |-> [base |-> base, pre |-> Release, n |-> 0], count |-> NoCounts]
       ELSE [ver |-> [base |-> base, pre |-> pre, n |-> count[pre]], count |-> count]

\* The tags of c are listed by a prefix: those of b, and those whose last octet
\* begins with b's digits.
Globbed(b, c) ==
    /\ c[1] = b[1]
    /\ c[2] = b[2] \/ (b[2] # 0 /\ \E k \in 1 .. c[2] : c[2] \div 10^k = b[2])

\* handle_stamp, --orm: from a release, go on with the prereleases of the
\* version it leads to; act as -r when there are none, or it was released.
Plan(ts, from, a) ==
    LET next == Advance(ts, from, a.orm, a.pr, FALSE)
        some == \E t \in ts : Globbed(next.ver.base, t.ver.base)
        released == Exists(ts, BaseOf(next.ver), FALSE)
    IN IF a.orm = Unset \/ from.pre # Release THEN [mode |-> a.mode, from |-> from]
       ELSE IF released \/ ~some THEN [mode |-> a.orm, from |-> from]
       ELSE [mode |-> Unset, from |-> [next.ver EXCEPT !.n = @ - 1]]

\* The prerelease_count of a release is empty: its entry is looked up in vain.
Fails(ts, from, a) ==
    /\ a.orm # Unset /\ from.pre = Release /\ a.pr = Unset
    /\ Plan(ts, from, a).mode = Unset

\* Mutant: nobody looks for the release.
RefusesReleased(ts, v, mode) ==
    IF v.pre = Release /\ mode = Unset THEN "mode" ELSE "ok"

\* stamp_app_version, before it advances.
Refuses(ts, v, mode) ==
    IF v.pre = Release /\ mode = Unset THEN "mode"
    ELSE IF v.pre # Release /\ mode = Unset /\ Exists(ts, BaseOf(v), FALSE) THEN "released"
    ELSE "ok"

\* One pass of the loop of _stamp_version, on the tags known by then: a version
\* whose tag exists is tried again, after a fetch, and advanced.
Attempt(last, mode, pr) ==
    LET why == Refuses(last.ts, last.ver, mode)
        new == Advance(last.ts, last.ver, mode, pr, TRUE)
        taken == Exists(last.ts, new.ver, FALSE)
    IN IF last.out # "taken" THEN last
       ELSE IF why # "ok" THEN [last EXCEPT !.out = why]
       ELSE [ts |-> IF taken THEN Refetched(last.ts, new.ver) ELSE last.ts,
             ver |-> new.ver, count |-> new.count, out |-> IF taken THEN "taken" ELSE "ok"]

\* Retries passes in all, of a clone that knows ts.
Attempts(ts, from, mode, pr) ==
    LET try[k \in 0 .. Retries] ==
           IF k = 0 THEN [ts |-> ts, ver |-> from, count |-> NoCounts, out |-> "taken"]
           ELSE Attempt(try[k - 1], mode, pr)
    IN try[Retries]

-----------------------------------------------------------------------------
(***************************************************************************)
(* The commands.  A clone's lock lets one of them run at a time.           *)
(***************************************************************************)

Done(c, v, meta) == res' = [by |-> c, out |-> "ok", ver |-> v, meta |-> meta]
Quiet            == res' = Nothing

\* A command fails; two of the failures are told apart.
Fail(c, out) ==
    res' = IF out \in Outcomes THEN [Nothing EXCEPT !.by = c, !.out = out] ELSE Nothing

Alone(c) == cmd[c] = Idle

Fetch(c) ==
    /\ Alone(c)
    /\ tags' = [tags EXCEPT ![c] = Fetched(c)]
    /\ Quiet
    /\ UNCHANGED <<rtags, branch, cmd, lag, now, faults, killed>>

\* The stamp of c that came to version t.ver, knowing t.ts: commit, tag and push,
\* all undone when the remote has a tag of that name.
Publish(c, t) ==
    /\ \/ /\ t.out # "ok"
          /\ tags' = [tags EXCEPT ![c] = t.ts]
          /\ Fail(c, t.out)
          /\ UNCHANGED <<rtags, branch, now>>
       \/ /\ t.out = "ok" /\ Exists(rtags, t.ver, FALSE)
          /\ tags' = [tags EXCEPT ![c] = Refetched(t.ts, t.ver)]
          /\ Fail(c, "refused")
          /\ UNCHANGED <<rtags, branch, now>>
       \/ /\ t.out = "ok" /\ ~Exists(rtags, t.ver, FALSE)
          /\ Cardinality(rtags) < MaxTags
          /\ LET made == [ver |-> t.ver, meta |-> FALSE, on |-> <<c, Len(branch[c]) + 1>>,
                          at |-> Date(c, t.ts), count |-> t.count]
             IN /\ rtags' = rtags \cup {made}
                /\ tags' = [tags EXCEPT ![c] = t.ts \cup {made}]
                /\ now' = Max({now, made.at + lag[c]})
          /\ branch' = [branch EXCEPT ![c] = Append(@, t.ver)]
          /\ Done(c, t.ver, FALSE)
    /\ UNCHANGED <<cmd, lag, faults, killed>>

\* perform_cached_fetch, which fails over a tag that differs; the rest of the
\* command works on the tags ts.
WithFetch(c, Do(_)) ==
    \/ \E ts \in {tags[c]} \cup {u \in {Fetched(c)} : ~Clobbered(c)} : Do(ts)
    \/ /\ Clobbered(c)
       /\ tags' = [tags EXCEPT ![c] = Fetched(c)]
       /\ Fail(c, "failed")
       /\ UNCHANGED <<rtags, branch, cmd, lag, now, faults, killed>>

\* handle_stamp of new commits: the version the command starts from is known
\* before the fetch.
Stamp(c) ==
    /\ Alone(c)
    /\ \E a \in Args, from \in {From(c)} :
          LET Do(ts) ==
                 \E p \in {Plan(ts, from, a)} :
                    IF Fails(ts, from, a)
                    THEN Publish(c, [ts |-> ts, ver |-> from, count |-> NoCounts,
                                     out |-> "KeyError"])
                    ELSE \E t \in {Attempts(ts, p.from, p.mode, a.pr)} : Publish(c, t)
          IN WithFetch(c, Do)

\* handle_release --stamp, with the version commit checked out: a prerelease
\* that was not released.
ReleaseStamp(c) ==
    /\ Alone(c) /\ From(c).pre # Release
    /\ LET Do(ts) == \E t \in {Attempts(ts, File(c), Unset, Release)} : Publish(c, t)
       IN WithFetch(c, Do)

\* GitBackend.tag: the tag is made here; the push follows.
Tag(c, t, v, meta) ==
    LET made == [t EXCEPT !.ver = v, !.meta = meta, !.at = Date(c, tags[c])]
    IN IF Exists(tags[c], v, meta)
       THEN /\ Fail(c, "failed")
            /\ UNCHANGED <<tags, cmd>>
       ELSE /\ Cardinality(rtags) < MaxTags
            /\ tags' = [tags EXCEPT ![c] = @ \cup {made}]
            /\ cmd' = [cmd EXCEPT ![c] = <<made>>]
            /\ Quiet

\* handle_release of a version that is known here: there is nothing to do when
\* its commit bears the release.
ReleaseVersion(c) ==
    /\ Alone(c)
    /\ \E t \in tags[c] :
          LET v == BaseOf(t.ver)
          IN /\ ~t.meta
             /\ IF \E u \in tags[c] : Named(u, v, FALSE) /\ u.on = t.on
                THEN Done(c, v, FALSE) /\ UNCHANGED <<tags, cmd>>
                ELSE Tag(c, t, v, FALSE)
    /\ UNCHANGED <<rtags, branch, lag, now, faults, killed>>

\* handle_add, add_metadata_to_version; of a prerelease, whose counters count.
Add(c) ==
    /\ Alone(c)
    /\ \E t \in tags[c] :
          /\ ~t.meta /\ t.ver.pre # Release
          /\ IF Exists(tags[c], t.ver, TRUE)
             THEN Done(c, t.ver, TRUE) /\ UNCHANGED <<tags, cmd>>
             ELSE /\ Cardinality({u \in tags[c] \cup rtags : u.meta}) < MaxAdds
                  /\ Tag(c, t, t.ver, TRUE)
    /\ UNCHANGED <<rtags, branch, lag, now, faults, killed>>

\* Mutant: the tag stays when its push fails.
DroppedNever(c) == tags[c]

\* delete_tag after a push that failed.
Dropped(c) == tags[c] \ {cmd[c][1]}

\* The push of the tag: refused when the remote has one of that name; with a
\* fault it fails, whether or not it got there.
PushTag(c) ==
    LET t == cmd[c][1]
        free == ~Exists(rtags, t.ver, t.meta)
    IN /\ ~Alone(c)
       /\ cmd' = [cmd EXCEPT ![c] = Idle]
       /\ \/ /\ free
             /\ rtags' = rtags \cup {t}
             /\ Done(c, t.ver, t.meta)
             /\ UNCHANGED <<tags, faults>>
          \/ /\ ~free
             /\ tags' = [tags EXCEPT ![c] = Dropped(c)]
             /\ Fail(c, "failed")
             /\ UNCHANGED <<rtags, faults>>
          \/ /\ faults < MaxFaults
             /\ faults' = faults + 1
             /\ rtags' \in {rtags} \cup (IF free THEN {rtags \cup {t}} ELSE {})
             /\ tags' = [tags EXCEPT ![c] = Dropped(c)]
             /\ Fail(c, "failed")
       /\ now' = IF rtags' = rtags THEN now ELSE Max({now, t.at + lag[c]})
       /\ UNCHANGED <<branch, lag, killed>>

\* The command is killed before its push, or cannot delete its tag after it.
Kill(c) ==
    /\ ~Alone(c)
    /\ faults < MaxFaults
    /\ faults' = faults + 1
    /\ cmd' = [cmd EXCEPT ![c] = Idle]
    /\ killed' = killed \cup {c}
    /\ Quiet
    /\ UNCHANGED <<rtags, tags, branch, lag, now>>

Next ==
    \E c \in Clones :
       \/ Fetch(c)
       \/ Stamp(c) \/ ReleaseStamp(c) \/ ReleaseVersion(c) \/ Add(c)
       \/ PushTag(c) \/ Kill(c)

Spec == Init /\ [][Next]_vars

-----------------------------------------------------------------------------
(***************************************************************************)
(* What must hold.                                                         *)
(***************************************************************************)

\* A `vmn release` or `vmn add` that reported success is on the remote, under
\* that name and on the commit this clone takes it for, whatever the others
\* released, and whichever pushes failed or came to nothing, before it
\* (GitBackend.tag).  A killed command's tag is the exception: a later release
\* finds it and has nothing to do.
ReleaseTellsTheTruth ==
    res.out = "ok" /\ res.by \notin killed =>
       \E t \in rtags \cap tags[res.by] : Named(t, res.ver, res.meta)

\* Along a branch, base versions never fall, the numbers of a prerelease name
\* rise, and nothing of a version follows its stamped release, for all that
\* the tags are stale, dated by other clocks or masked by metadata
\* (advance_version).
VersionsGrow ==
    \A c \in Clones : \A i, j \in 1 .. Len(branch[c]) :
       LET v == branch[c][i]
           w == branch[c][j]
       IN i < j =>
             /\ \/ v.base[1] < w.base[1]
                \/ v.base[1] = w.base[1] /\ v.base[2] <= w.base[2]
             /\ v.base = w.base => v.pre # Release
             /\ v.base = w.base /\ v.pre = w.pre => v.n < w.n

\* A clone that knows a version's release stamps no prerelease of it, on
\* whichever branch it was released (stamp_app_version, handle_stamp).
NoPrereleaseAfterRelease ==
    [][\A t \in rtags' \ rtags :
          ~t.meta /\ t.ver.pre # Release =>
             ~Exists(tags'[t.on[1]], BaseOf(t.ver), FALSE)]_vars

\* A stamp is refused because its version was released only when that release
\* is news, or is on another commit than the one the branch's version is on:
\* after `vmn release` of the version checked out the next stamp goes on from
\* the release (_determine_initial_version).  News are also the releases of
\* another version, the one --orm leads to, that come with the fetch between
\* two tries.
StampGoesOn ==
    [][res'.out = "released" =>
          LET c == res'.by
          IN \/ ~\E t, u \in tags[c] : /\ Named(t, File(c), FALSE)
                                       /\ Named(u, BaseOf(File(c)), FALSE)
                                       /\ t.on = u.on
             \/ \E u \in tags'[c] \ tags[c] :
                   ~u.meta /\ u.ver.pre = Release /\ u.ver.base # File(c).base]_vars

\* README: --orm "only advances if no prerelease exists at the target": when
\* one exists, the stamp goes on from it.
OptionalModeStamps == res.out # "KeyError"
=============================================================================
