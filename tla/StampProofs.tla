---------------------------- MODULE StampProofs -----------------------------
(***************************************************************************)
(* What a stamp promises, for any clones, branches, apps, retries and      *)
(* faults.                                                                 *)
(***************************************************************************)
EXTENDS Stamp, DataLemmas, SequenceTheorems

CmdType ==
    [at : Stages, app : Apps, pull : BOOLEAN, from : Nat, base : Nat, orv : Nat \cup {None},
     ver : Nat, root : Nat, left : 0 .. Retries, err : 0 .. 2]

\* The types, finitely many tags, and no branch without a commit.
Typed ==
    /\ atomic \in BOOLEAN /\ branchOf \in Layouts
    /\ heads \in [Branches -> Seq(Commits)]
    /\ rtags \subseteq Tags
    /\ head \in [Clones -> Seq(Commits)]
    /\ track \in [Clones -> Seq(Commits)]
    /\ tags \in [Clones -> SUBSET Tags]
    /\ cmd \in [Clones -> CmdType]
    /\ calm \in [Clones -> BOOLEAN]
    /\ users \in Nat /\ faults \in Nat /\ crashes \in Nat
    /\ IsFiniteSet(rtags) /\ \A c \in Clones : IsFiniteSet(tags[c])
    /\ \A b \in Branches : heads[b] # <<>>
    /\ \A c \in Clones : head[c] # <<>> /\ track[c] # <<>>

\* A version commit is made, and not pushed or taken back.
Making(c) == cmd[c].at \in {"tag", "push", "revert"}

\* What a clone has checked out, and knows of the branch, is the remote's; a
\* stamp adds one commit.
Local(c) ==
    /\ IsPrefix(track[c], heads[branchOf[c]])
    /\ ~Making(c) /\ cmd[c].at # "crashed" => IsPrefix(head[c], heads[branchOf[c]])
    /\ Making(c) =>
          /\ Front(head[c]) # <<>> /\ IsPrefix(Front(head[c]), heads[branchOf[c]])
          /\ Last(head[c]).app = cmd[c].app
          /\ Last(head[c]).ver = cmd[c].ver /\ Last(head[c]).root = cmd[c].root
    /\ cmd[c].at = "crashed" => crashes # 0

\* The tags that are to be taken back if the stamp fails.
Undone(c) == crashes = 0 =>
    /\ cmd[c].at \notin {"push", "revert"} => tags[c] \subseteq rtags
    /\ cmd[c].at = "push" => tags[c] \subseteq rtags \cup TagsOn(c, Last(head[c]))
    /\ cmd[c].at = "revert" => \A t \in tags[c] : t \in rtags \/ Bears(t, Names(c))

\* A name is given once on the remote.
Distinct == \A t, u \in rtags : Named(t, u.kind, u.n) => t = u

BaseInv == Typed /\ Distinct /\ \A c \in Clones : Local(c) /\ Undone(c)

-----------------------------------------------------------------------------
\* The versions of the commits S have their tag in ts.
KnownIn(ts, S) ==
    \A x \in S : IsVersion(x) => \E t \in ts : Named(t, x.app, x.ver)

\* What only one clone has was never published.
Private ==
    \A c, d \in Clones : c # d => CommitsOf(head[c]) \cap CommitsOf(head[d]) \subseteq Published

\* A clone knows the versions it has checked out and those it knows the branch
\* to have; what it is about to stamp is above them.
Known(c) ==
    /\ KnownIn(tags[c], CommitsOf(track[c]))
    /\ cmd[c].at \notin {"tag", "crashed"} => KnownIn(tags[c], CommitsOf(head[c]))
    /\ cmd[c].at = "tag" => /\ KnownIn(tags[c], CommitsOf(Front(head[c])))
                            /\ ~(CommitsOf(head[c]) \subseteq Published)
    /\ cmd[c].at = "crashed" =>
          KnownIn(tags[c], CommitsOf(head[c])) \/ ~(CommitsOf(head[c]) \subseteq Published)

Above(c) ==
    /\ cmd[c].at \in {"commit", "tag"} =>
          \A t \in tags[c] : t.kind = cmd[c].app => t.n < cmd[c].ver
    /\ cmd[c].at = "commit" \/ Making(c) =>
          \A x \in CommitsOf(track[c]) \cup
                      CommitsOf(IF Making(c) THEN Front(head[c]) ELSE head[c]) :
             x.app = cmd[c].app => x.ver < cmd[c].ver

\* The root versions below k all have a tag in ts.
GivenBelow(ts, k) == \A j \in Nat : j < k => \E t \in ts : Named(t, Root, j)

\* The root versions are given one after the other, if no command was killed.
Gapless(c) ==
    /\ cmd[c].orv # None => GivenBelow(rtags, cmd[c].orv + 1)
    /\ cmd[c].at = "commit" \/ Making(c) => GivenBelow(rtags, cmd[c].root)
    /\ cmd[c].at \in {"revert", "refetch"} /\ cmd[c].err = 1 => GivenBelow(rtags, cmd[c].root + 1)

RootInv == atomic /\ HasRoot /\ crashes = 0 =>
    /\ \A t \in rtags : t.kind = Root => GivenBelow(rtags, t.n)
    /\ \A c \in Clones : Gapless(c)

\* What an atomic server adds.
WholeInv ==
    /\ PublishedWhole /\ RootInv
    /\ atomic => VersionsGrow /\ Private /\ \A c \in Clones : Known(c) /\ Above(c)

IInv == BaseInv /\ WholeInv

-----------------------------------------------------------------------------
(***************************************************************************)
(* Sequences: prefixes, what is appended, and all but the last element.    *)
(***************************************************************************)

\* A prefix, element by element.
LEMMA PrefixIs ==
    ASSUME NEW S, NEW s \in Seq(S), NEW t \in Seq(S)
    PROVE  IsPrefix(s, t) <=> Len(s) <= Len(t) /\ \A i \in 1 .. Len(s) : s[i] = t[i]
<1> USE LenProperties
<1> SUFFICES ASSUME Len(s) <= Len(t)
             PROVE  SubSeq(s, 1, Len(s)) = SubSeq(t, 1, Len(s)) <=>
                       \A i \in 1 .. Len(s) : s[i] = t[i]
  BY DEF IsPrefix
<1>1. SubSeq(s, 1, Len(s)) = s
  BY SubSeqFull
<1>2. SubSeq(t, 1, Len(s)) = [i \in 1 .. Len(s) |-> t[i]]
  BY SubSeqProperties
<1>3. s = [i \in 1 .. Len(s) |-> s[i]]
  OBVIOUS
<1> QED BY <1>1, <1>2, <1>3

\* A sequence is a prefix of itself.
LEMMA PrefixRefl ==
    ASSUME NEW S, NEW s \in Seq(S)
    PROVE  IsPrefix(s, s)
BY DEF IsPrefix

\* Prefixes of prefixes.
LEMMA PrefixTrans ==
    ASSUME NEW S, NEW s \in Seq(S), NEW t \in Seq(S), NEW u \in Seq(S),
           IsPrefix(s, t), IsPrefix(t, u)
    PROVE  IsPrefix(s, u)
<1>1. Len(s) <= Len(t) /\ \A i \in 1 .. Len(s) : s[i] = t[i]
  BY PrefixIs
<1>2. Len(t) <= Len(u) /\ \A i \in 1 .. Len(t) : t[i] = u[i]
  BY PrefixIs
<1>3. Len(s) <= Len(u) /\ \A i \in 1 .. Len(s) : s[i] = u[i]
  BY <1>1, <1>2, LenProperties
<1> QED BY <1>3, PrefixIs

\* A sequence and one more element.
LEMMA AppendIs ==
    ASSUME NEW S, NEW s \in Seq(S), NEW x \in S
    PROVE  /\ Append(s, x) \in Seq(S) /\ Append(s, x) # <<>>
           /\ IsPrefix(s, Append(s, x))
           /\ Front(Append(s, x)) = s /\ Last(Append(s, x)) = x
<1>1. Append(s, x) \in Seq(S) /\ Len(Append(s, x)) = Len(s) + 1 /\ Len(s) \in Nat
  BY AppendProperties, LenProperties
<1>2. \A i \in 1 .. Len(s) : Append(s, x)[i] = s[i]
  BY AppendProperties
<1>3. Append(s, x)[Len(s) + 1] = x
  BY AppendProperties
<1>4. IsPrefix(s, Append(s, x))
  <2> DEFINE t == Append(s, x)
  <2>1. t \in Seq(S) /\ Len(s) <= Len(t) /\ \A i \in 1 .. Len(s) : s[i] = t[i]
    BY <1>1, <1>2
  <2> HIDE DEF t
  <2>2. IsPrefix(s, t) BY <2>1, PrefixIs
  <2> QED BY <2>2 DEF t
<1>5. Front(Append(s, x)) = s
  <2>1. Front(Append(s, x)) = SubSeq(Append(s, x), 1, Len(s))
    BY <1>1 DEF Front
  <2>2. Front(Append(s, x)) = [i \in 1 .. Len(s) |-> Append(s, x)[i]]
    BY <1>1, <2>1, SubSeqProperties
  <2>3. s = [i \in 1 .. Len(s) |-> s[i]]
    BY LenProperties
  <2> QED BY <1>2, <2>2, <2>3
<1> QED BY <1>1, <1>3, <1>4, <1>5, EmptySeq DEF Last

\* A sequence without its last element.
LEMMA FrontIs ==
    ASSUME NEW S, NEW s \in Seq(S), s # <<>>
    PROVE  /\ Front(s) \in Seq(S) /\ Last(s) \in S
           /\ Len(s) # 0 /\ Len(Front(s)) = Len(s) - 1 /\ IsPrefix(Front(s), s)
<1>1. Len(s) \in Nat /\ Len(s) # 0
  BY LenProperties, EmptySeq
<1>2. Front(s) \in Seq(S) /\ Len(Front(s)) = Len(s) - 1
  <2>1. \A i \in 1 .. Len(s) - 1 : s[i] \in S
    BY <1>1, ElementOfSeq
  <2> DEFINE n == Len(s) - 1
  <2>2. n \in Int /\ n >= 0
    BY <1>1
  <2>3. \A i \in 1 .. n : s[i] \in S
    BY <2>1
  <2> HIDE DEF n
  <2>4. SubSeq(s, 1, n) \in Seq(S) /\ Len(SubSeq(s, 1, n)) = IF 1 <= n THEN n - 1 + 1 ELSE 0
    BY <2>2, <2>3, SubSeqProperties
  <2>5. Len(SubSeq(s, 1, n)) = n
    BY <2>2, <2>4
  <2> QED BY <2>4, <2>5, Zenon DEF Front, n
<1>3. \A i \in 1 .. Len(s) - 1 : Front(s)[i] = s[i]
  BY <1>1, SubSeqProperties DEF Front
<1>4. IsPrefix(Front(s), s)
  BY <1>1, <1>2, <1>3, PrefixIs
<1> QED BY <1>1, <1>2, <1>4, ElementOfSeq DEF Last

\* Between a sequence and its front there is nothing.
LEMMA FrontOrAll ==
    ASSUME NEW S, NEW s \in Seq(S), NEW t \in Seq(S), s # <<>>,
           IsPrefix(Front(s), t), IsPrefix(t, s)
    PROVE  t = Front(s) \/ t = s
<1> DEFINE f == Front(s)
<1>1. f \in Seq(S) /\ Len(f) = Len(s) - 1 /\ Len(s) \in Nat /\ Len(t) \in Nat
  BY FrontIs, LenProperties
<1>2. Len(f) <= Len(t) /\ \A i \in 1 .. Len(f) : f[i] = t[i]
  BY <1>1, PrefixIs
<1>3. Len(t) <= Len(s) /\ \A i \in 1 .. Len(t) : t[i] = s[i]
  BY PrefixIs
<1>4. CASE Len(t) = Len(s)
  BY <1>3, <1>4, SeqEqual
<1>5. CASE Len(t) = Len(f)
  BY <1>1, <1>2, <1>5, SeqEqual
<1> QED BY <1>1, <1>2, <1>3, <1>4, <1>5

-----------------------------------------------------------------------------
(***************************************************************************)
(* The operators.                                                          *)
(***************************************************************************)

\* The commits of a branch, of its prefixes and of its extensions.
LEMMA CommitsOfIs ==
    ASSUME NEW s \in Seq(Commits)
    PROVE  /\ CommitsOf(s) \subseteq Commits /\ IsFiniteSet(CommitsOf(s))
           /\ \A t \in Seq(Commits) : IsPrefix(s, t) => CommitsOf(s) \subseteq CommitsOf(t)
           /\ \A x \in Commits : CommitsOf(Append(s, x)) = CommitsOf(s) \cup {x}
           /\ s # <<>> => CommitsOf(s) = CommitsOf(Front(s)) \cup {Last(s)}
<1>1. CommitsOf(s) \subseteq Commits
  BY ElementOfSeq DEF CommitsOf
<1>2. IsFiniteSet(CommitsOf(s))
  <2>1. DOMAIN s = 1 .. Len(s) /\ Len(s) \in Nat /\ s = [i \in 1 .. Len(s) |-> s[i]]
    BY LenProperties
  <2>2. IsFiniteSet(1 .. Len(s))
    <3>1. 1 \in Int /\ Len(s) \in Int BY <2>1
    <3> QED BY <3>1, FS_Interval, Zenon
  <2>3. IsFiniteSet({s[i] : i \in 1 .. Len(s)})
    BY <2>1, <2>2, ImageFinite, Zenon
  <2> QED BY <2>1, <2>3 DEF CommitsOf
<1>3. ASSUME NEW t \in Seq(Commits), IsPrefix(s, t)
      PROVE  CommitsOf(s) \subseteq CommitsOf(t)
  <2>1. Len(s) <= Len(t) /\ Len(s) \in Nat /\ Len(t) \in Nat
           /\ \A i \in 1 .. Len(s) : s[i] = t[i]
    BY <1>3, PrefixIs, LenProperties
  <2>2. \A i \in 1 .. Len(s) : i \in 1 .. Len(t)
    BY <2>1
  <2> QED BY <2>1, <2>2 DEF CommitsOf
<1>4. ASSUME NEW x \in Commits
      PROVE  CommitsOf(Append(s, x)) = CommitsOf(s) \cup {x}
  <2> DEFINE n == Len(s) t == Append(s, x)
  <2>1. n \in Nat /\ Len(t) = n + 1 /\ t[n + 1] = x /\ \A i \in 1 .. n : t[i] = s[i]
    BY AppendProperties, LenProperties
  <2> HIDE DEF n, t
  <2>2. \A i \in 1 .. Len(t) : i \in 1 .. n \/ i = n + 1
    BY <2>1
  <2>3. n + 1 \in 1 .. Len(t) /\ \A i \in 1 .. n : i \in 1 .. Len(t)
    BY <2>1
  <2>4. CommitsOf(t) = CommitsOf(s) \cup {x}
    BY <2>1, <2>2, <2>3 DEF CommitsOf, n
  <2> QED BY <2>4 DEF t
<1>5. ASSUME s # <<>>
      PROVE  CommitsOf(s) = CommitsOf(Front(s)) \cup {Last(s)}
  <2> DEFINE n == Len(s) t == Front(s)
  <2>1. n \in Nat \ {0} /\ Len(t) = n - 1 /\ t \in Seq(Commits) /\ IsPrefix(t, s)
    BY <1>5, FrontIs, LenProperties
  <2>2. \A i \in 1 .. Len(t) : t[i] = s[i]
    BY <2>1, PrefixIs
  <2> HIDE DEF n, t
  <2>3. \A i \in 1 .. n : i \in 1 .. Len(t) \/ i = n
    BY <2>1
  <2>4. n \in 1 .. n /\ \A i \in 1 .. Len(t) : i \in 1 .. n
    BY <2>1
  <2>5. CommitsOf(s) = CommitsOf(t) \cup {s[n]}
    BY <2>2, <2>3, <2>4 DEF CommitsOf, n
  <2> QED BY <2>5 DEF t, n, Last
<1> QED BY <1>1, <1>2, <1>3, <1>4, <1>5

\* A commit of a branch, or under a tag.
InUse ==
    UNION ({CommitsOf(heads[b]) : b \in Branches}
              \cup {CommitsOf(head[c]) \cup {t.on : t \in tags[c]} : c \in Clones}
              \cup {{t.on : t \in rtags}})

\* The hash of a new commit is that of no other.
LEMMA NewIdIs ==
    ASSUME Typed
    PROVE  /\ NewId \in Nat
           /\ \A x \in InUse : x.id # NewId
<1> DEFINE Hs == {CommitsOf(heads[b]) : b \in Branches}
           Cs == {CommitsOf(head[c]) \cup {t.on : t \in tags[c]} : c \in Clones}
           Ts == {{t.on : t \in rtags}}
<1>1. ASSUME NEW T \in SUBSET Tags, IsFiniteSet(T)
      PROVE  IsFiniteSet({t.on : t \in T}) /\ {t.on : t \in T} \subseteq Commits
  <2> DEFINE f == [t \in T |-> t.on]
  <2>1. IsFiniteSet({f[t] : t \in T})
    <3>1. f = [t \in T |-> f[t]] OBVIOUS
    <3> HIDE DEF f
    <3> QED BY <1>1, <3>1, ImageFinite, Zenon
  <2> QED BY <2>1 DEF Tags
<1>2. IsFiniteSet(Hs) /\ \A X \in Hs : IsFiniteSet(X) /\ X \subseteq Commits
  <2> DEFINE f == [b \in Branches |-> CommitsOf(heads[b])]
  <2>1. IsFiniteSet({f[b] : b \in Branches})
    <3>1. f = [b \in Branches |-> f[b]] OBVIOUS
    <3>2. IsFiniteSet(Branches) BY StampAssumption
    <3> HIDE DEF f
    <3> QED BY <3>1, <3>2, ImageFinite, Zenon
  <2>2. \A b \in Branches : heads[b] \in Seq(Commits)
    BY DEF Typed
  <2>3. \A b \in Branches : IsFiniteSet(CommitsOf(heads[b])) /\ CommitsOf(heads[b]) \subseteq Commits
    BY <2>2, CommitsOfIs
  <2> QED BY <2>1, <2>3
<1>3. IsFiniteSet(Cs) /\ \A X \in Cs : IsFiniteSet(X) /\ X \subseteq Commits
  <2> DEFINE f == [c \in Clones |-> CommitsOf(head[c]) \cup {t.on : t \in tags[c]}]
  <2>1. IsFiniteSet({f[c] : c \in Clones})
    <3>1. f = [c \in Clones |-> f[c]] OBVIOUS
    <3>2. IsFiniteSet(Clones) BY StampAssumption
    <3> HIDE DEF f
    <3> QED BY <3>1, <3>2, ImageFinite, Zenon
  <2>2. ASSUME NEW c \in Clones
        PROVE  IsFiniteSet(f[c]) /\ f[c] \subseteq Commits
    <3>1. head[c] \in Seq(Commits) /\ tags[c] \in SUBSET Tags /\ IsFiniteSet(tags[c])
      BY DEF Typed
    <3>2. IsFiniteSet(CommitsOf(head[c])) /\ CommitsOf(head[c]) \subseteq Commits
      BY <3>1, CommitsOfIs
    <3>3. IsFiniteSet({t.on : t \in tags[c]}) /\ {t.on : t \in tags[c]} \subseteq Commits
      BY <1>1, <3>1
    <3> QED BY <3>2, <3>3, FS_Union
  <2> QED BY <2>1, <2>2
<1>4. IsFiniteSet(Ts) /\ \A X \in Ts : IsFiniteSet(X) /\ X \subseteq Commits
  BY <1>1, FS_Singleton DEF Typed
<1>5. IsFiniteSet(InUse) /\ InUse \subseteq Commits
  <2> HIDE DEF Hs, Cs, Ts
  <2>1. IsFiniteSet(Hs \cup Cs \cup Ts)
    BY <1>2, <1>3, <1>4, FS_Union
  <2>2. \A X \in Hs \cup Cs \cup Ts : IsFiniteSet(X) /\ X \subseteq Commits
    BY <1>2, <1>3, <1>4
  <2>3. IsFiniteSet(UNION (Hs \cup Cs \cup Ts)) /\ UNION (Hs \cup Cs \cup Ts) \subseteq Commits
    BY <2>1, <2>2, FS_UNION
  <2> QED BY <2>3 DEF InUse, Hs, Cs, Ts
<1> DEFINE used == {x.id : x \in InUse}
           free == (0 .. Cardinality(used)) \ used
<1>6. IsFiniteSet(used) /\ used \subseteq Nat
  <2> DEFINE f == [x \in InUse |-> x.id]
  <2>1. IsFiniteSet({f[x] : x \in InUse})
    <3>1. f = [x \in InUse |-> f[x]] OBVIOUS
    <3> HIDE DEF f
    <3> QED BY <1>5, <3>1, ImageFinite, Zenon
  <2> QED BY <1>5, <2>1 DEF Commits
<1>7. free # {} /\ free \in SUBSET Nat
  <2> HIDE DEF used
  <2>1. Cardinality(used) \in Nat
    BY <1>6, FS_CardinalityType
  <2>2. ASSUME 0 .. Cardinality(used) \subseteq used PROVE FALSE
    <3>1. Cardinality(0 .. Cardinality(used)) <= Cardinality(used)
      BY <1>6, <2>2, FS_Subset
    <3>2. Cardinality(0 .. Cardinality(used)) = Cardinality(used) + 1
      BY <2>1, FS_Interval
    <3> QED BY <2>1, <3>1, <3>2
  <2> QED BY <2>1, <2>2
<1>8. Min(free) \in free
  <2> HIDE DEF free
  <2> QED BY <1>7, MinIs
<1>9. NewId = Min(free)
  BY DEF NewId, InUse
<1> QED BY <1>7, <1>8, <1>9

\* What a command holds when it is not running.
LEMMA RestIs ==
    ASSUME NEW at \in Stages, NEW app \in Apps, NEW pull \in BOOLEAN
    PROVE  /\ Rest(at, app, pull) \in CmdType /\ Rest(at, app, pull).at = at
           /\ Rest(at, app, pull).orv = None
BY StampAssumption DEF Rest, CmdType, None

\* The tags of a stamp: the app's and the root app's.
LEMMA TagsOnIs ==
    ASSUME NEW c \in Clones, NEW x \in Commits, cmd[c] \in CmdType
    PROVE  /\ TagsOn(c, x) =
                 {[kind |-> cmd[c].app, n |-> cmd[c].ver, on |-> x]}
                    \cup (IF HasRoot THEN {[kind |-> Root, n |-> cmd[c].root, on |-> x]} ELSE {})
           /\ TagsOn(c, x) \subseteq Tags /\ IsFiniteSet(TagsOn(c, x))
           /\ \A t \in Tags : Bears(t, Names(c)) <=>
                 Named(t, cmd[c].app, cmd[c].ver) \/ (HasRoot /\ Named(t, Root, cmd[c].root))
<1> DEFINE a == [kind |-> cmd[c].app, n |-> cmd[c].ver, on |-> x]
           r == [kind |-> Root, n |-> cmd[c].root, on |-> x]
<1>1. TagsOn(c, x) = {a} \cup (IF HasRoot THEN {r} ELSE {})
  <2>1. CASE HasRoot
    BY <2>1 DEF TagsOn, Names
  <2>2. CASE ~HasRoot
    BY <2>2 DEF TagsOn, Names
  <2> QED BY <2>1, <2>2
<1>2. a \in Tags /\ r \in Tags
  BY DEF Tags, CmdType
<1>3. IsFiniteSet({a} \cup (IF HasRoot THEN {r} ELSE {}))
  <2> HIDE DEF a, r
  <2>1. IsFiniteSet({a}) /\ IsFiniteSet({r}) /\ IsFiniteSet({})
    BY FS_Singleton, FS_EmptySet
  <2> QED BY <2>1, FS_Union
<1>4. ASSUME NEW t \in Tags
      PROVE  Bears(t, Names(c)) <=>
                 Named(t, cmd[c].app, cmd[c].ver) \/ (HasRoot /\ Named(t, Root, cmd[c].root))
  BY DEF Bears, Names, Named
<1> QED BY <1>1, <1>2, <1>3, <1>4

\* What a fetch adds, and what it leaves.
LEMMA FetchedIs ==
    ASSUME Typed, NEW c \in Clones
    PROVE  /\ tags[c] \subseteq Fetched(c) /\ Fetched(c) \subseteq tags[c] \cup rtags
           /\ Fetched(c) \subseteq Tags /\ IsFiniteSet(Fetched(c))
           /\ \A t \in rtags : \E u \in Fetched(c) : Named(u, t.kind, t.n)
<1>1. tags[c] \subseteq Fetched(c) /\ Fetched(c) \subseteq tags[c] \cup rtags
  BY DEF Fetched
<1>2. IsFiniteSet(tags[c] \cup rtags) /\ tags[c] \cup rtags \subseteq Tags
  BY FS_Union DEF Typed
<1>3. IsFiniteSet(Fetched(c))
  BY <1>1, <1>2, FS_Subset
<1>4. \A t \in rtags : \E u \in Fetched(c) : Named(u, t.kind, t.n)
  BY DEF Fetched, Named
<1> QED BY <1>1, <1>2, <1>3, <1>4

\* The same of a pull.
LEMMA FollowIs ==
    ASSUME Typed, NEW c \in Clones, NEW h
    PROVE  /\ tags[c] \subseteq Follow(c, tags[c], h)
           /\ Follow(c, tags[c], h) \subseteq tags[c] \cup rtags
           /\ Follow(c, tags[c], h) \subseteq Tags /\ IsFiniteSet(Follow(c, tags[c], h))
           /\ \A t \in rtags : t.on \in CommitsOf(h) =>
                 \E u \in Follow(c, tags[c], h) : Named(u, t.kind, t.n)
<1>1. /\ tags[c] \subseteq Follow(c, tags[c], h)
      /\ Follow(c, tags[c], h) \subseteq tags[c] \cup rtags
  BY DEF Follow
<1>2. IsFiniteSet(tags[c] \cup rtags) /\ tags[c] \cup rtags \subseteq Tags
  BY FS_Union DEF Typed
<1>3. IsFiniteSet(Follow(c, tags[c], h))
  BY <1>1, <1>2, FS_Subset
<1>4. \A t \in rtags : t.on \in CommitsOf(h) =>
         \E u \in Follow(c, tags[c], h) : Named(u, t.kind, t.n)
  BY DEF Follow, Named
<1> QED BY <1>1, <1>2, <1>3, <1>4

\* The numbers of some of finitely many tags.
LEMMA NumbersAre ==
    ASSUME NEW T \in SUBSET Tags, IsFiniteSet(T), NEW U \in SUBSET T
    PROVE  IsFiniteSet({t.n : t \in U}) /\ {t.n : t \in U} \subseteq Nat
<1> DEFINE f == [t \in U |-> t.n]
<1>1. IsFiniteSet(U)
  BY FS_Subset
<1>2. f = [t \in U |-> f[t]]
  OBVIOUS
<1>3. IsFiniteSet({f[t] : t \in U})
  <2> HIDE DEF f
  <2> QED BY <1>1, <1>2, ImageFinite, Zenon
<1> QED BY <1>3 DEF Tags

\* What a command reads from the version file and of HEAD is a number.
LEMMA ReadsAre ==
    ASSUME Typed, NEW c \in Clones, NEW app
    PROVE  verstr_from_file(c, app) \in Nat /\ last_user_changeset(c) \in Nat
<1> DEFINE own == {i \in 1 .. Len(head[c]) : head[c][i].app = app}
<1>1. head[c] \in Seq(Commits) /\ head[c] # <<>> /\ Len(head[c]) \in Nat
  BY LenProperties DEF Typed
<1>2. own # {} => Max(own) \in own
  <2>1. IsFiniteSet(1 .. Len(head[c]))
    <3>1. 1 \in Int /\ Len(head[c]) \in Int BY <1>1
    <3> QED BY <3>1, FS_Interval, Zenon
  <2>2. own \in SUBSET (1 .. Len(head[c])) /\ own \in SUBSET Int
    BY <1>1
  <2> HIDE DEF own
  <2>3. IsFiniteSet(own) BY <2>1, <2>2, FS_Subset
  <2> QED BY <2>2, <2>3, MaxIs
<1>3. \A i \in own : head[c][i] \in Commits
  BY <1>1, ElementOfSeq
<1>4. Last(head[c]) \in Commits
  BY <1>1, FrontIs
<1>5. verstr_from_file(c, app) = IF own = {} THEN 0 ELSE head[c][Max(own)].ver
  BY DEF verstr_from_file
<1>6. verstr_from_file(c, app) \in Nat
  <2>1. CASE own = {} BY <1>5, <2>1
  <2>2. CASE own # {}
    <3>1. head[c][Max(own)] \in Commits BY <1>2, <1>3, <2>2
    <3> QED BY <1>5, <2>2, <3>1 DEF Commits
  <2> QED BY <2>1, <2>2
<1>7. last_user_changeset(c) \in Nat
  BY <1>4 DEF last_user_changeset, Commits
<1> QED BY <1>6, <1>7

\* The next version of an app is above all the clone knows of.
LEMMA NextVersionIs ==
    ASSUME Typed, NEW c \in Clones
    PROVE  /\ NextVersion(c) \in Nat
           /\ \A t \in tags[c] : t.kind = cmd[c].app => t.n < NextVersion(c)
<1> DEFINE U == {u \in tags[c] : u.kind = cmd[c].app}
           N == {t.n : t \in U}
           M == {cmd[c].base} \cup N
<1>1. tags[c] \in SUBSET Tags /\ IsFiniteSet(tags[c]) /\ cmd[c].base \in Nat
  BY DEF Typed, CmdType
<1>2. IsFiniteSet(N) /\ N \subseteq Nat
  BY <1>1, NumbersAre, Zenon
<1>3. IsFiniteSet(M) /\ M \subseteq Nat /\ M # {}
  <2> HIDE DEF N
  <2> QED BY <1>1, <1>2, FS_Singleton, FS_Union
<1>4. Max(M) \in M /\ \A k \in M : k <= Max(M)
  <2> HIDE DEF M
  <2>1. M \in SUBSET Int BY <1>3
  <2> QED BY <1>3, <2>1, MaxIs, Zenon
<1>5. NextVersion(c) = Max(M) + 1
  BY DEF NextVersion
<1>6. \A t \in tags[c] : t.kind = cmd[c].app => t.n \in M
  OBVIOUS
<1> HIDE DEF M
<1>7. Max(M) \in Nat
  BY <1>3, <1>4
<1>8. ASSUME NEW t \in tags[c], t.kind = cmd[c].app
      PROVE  t.n < NextVersion(c)
  <2>1. t.n \in Nat /\ t.n <= Max(M) BY <1>3, <1>4, <1>6, <1>8
  <2> QED BY <1>5, <1>7, <2>1
<1> QED BY <1>5, <1>7, <1>8

\* The next root version.
LEMMA NextRootIs ==
    ASSUME Typed, NEW c \in Clones, HasRoot => ReachableRoots(c) # {}
    PROVE  /\ NextRoot(c) \in Nat
           /\ HasRoot /\ cmd[c].orv # None => NextRoot(c) = cmd[c].orv + 1
           /\ HasRoot /\ cmd[c].orv = None =>
                 /\ \A n \in ReachableRoots(c) : n < NextRoot(c)
                 /\ \E n \in ReachableRoots(c) : NextRoot(c) = n + 1
<1> DEFINE U == {u \in tags[c] : u.kind = Root /\ u.on \in CommitsOf(head[c])}
           N == ReachableRoots(c)
<1>1. tags[c] \in SUBSET Tags /\ IsFiniteSet(tags[c]) /\ cmd[c].orv \in Nat \cup {None}
  BY DEF Typed, CmdType
<1>2. IsFiniteSet(N) /\ N \subseteq Nat
  <2>1. N = {t.n : t \in U} BY DEF ReachableRoots
  <2> QED BY <1>1, <2>1, NumbersAre
<1> HIDE DEF N
<1>3. N # {} => Max(N) \in N /\ \A k \in N : k <= Max(N)
  <2>1. N \in SUBSET Int BY <1>2
  <2> QED BY <1>2, <2>1, MaxIs, Zenon
<1>4. NextRoot(c) =
         IF ~HasRoot THEN 0 ELSE IF cmd[c].orv # None THEN cmd[c].orv + 1 ELSE Max(N) + 1
  BY DEF NextRoot, N
<1>5. HasRoot => N # {}
  BY DEF N
<1>6. /\ NextRoot(c) \in Nat
      /\ HasRoot /\ cmd[c].orv # None => NextRoot(c) = cmd[c].orv + 1
      /\ HasRoot /\ cmd[c].orv = None =>
            (\A n \in N : n < NextRoot(c)) /\ (\E n \in N : NextRoot(c) = n + 1)
  <2>1. CASE HasRoot /\ cmd[c].orv = None
    <3>1. Max(N) \in N /\ \A k \in N : k <= Max(N) BY <1>3, <1>5, <2>1
    <3>2. NextRoot(c) = Max(N) + 1 BY <1>4, <2>1
    <3> QED BY <1>2, <2>1, <3>1, <3>2
  <2>2. CASE HasRoot /\ cmd[c].orv # None
    BY <1>1, <1>4, <2>2
  <2>3. CASE ~HasRoot
    BY <1>4, <2>3
  <2> QED BY <2>1, <2>2, <2>3
<1> QED BY <1>6 DEF N

-----------------------------------------------------------------------------
(***************************************************************************)
(* The types, and what a step of one clone leaves alone.                   *)
(***************************************************************************)

\* A step of c touches no other clone, and only adds to the remote.
Alone(c) ==
    /\ UNCHANGED setup
    /\ \A d \in Clones \ {c} : /\ head'[d] = head[d] /\ track'[d] = track[d]
                               /\ tags'[d] = tags[d] /\ cmd'[d] = cmd[d]
    /\ \A b \in Branches : IsPrefix(heads[b], heads'[b])
    /\ rtags \subseteq rtags'
    /\ crashes # 0 => crashes' # 0

\* Where the command of c goes.
LEMMA GoIs ==
    ASSUME Typed, NEW c \in Clones, NEW at \in Stages, Go(c, at)
    PROVE  /\ cmd' \in [Clones -> CmdType] /\ cmd'[c] = [cmd[c] EXCEPT !.at = at]
           /\ cmd'[c].at = at /\ cmd'[c].app = cmd[c].app /\ cmd'[c].ver = cmd[c].ver
           /\ cmd'[c].root = cmd[c].root /\ cmd'[c].orv = cmd[c].orv
           /\ cmd'[c].err = cmd[c].err /\ cmd'[c].base = cmd[c].base
           /\ \A d \in Clones \ {c} : cmd'[d] = cmd[d]
<1>1. cmd \in [Clones -> CmdType] BY DEF Typed
<1>2. cmd' = [cmd EXCEPT ![c].at = at] BY DEF Go
<1>3. [cmd[c] EXCEPT !.at = at] \in CmdType BY <1>1 DEF CmdType
<1>4. cmd[c] \in CmdType BY <1>1
<1>5. LET r == [cmd[c] EXCEPT !.at = at]
      IN /\ r.at = at /\ r.app = cmd[c].app /\ r.ver = cmd[c].ver /\ r.root = cmd[c].root
         /\ r.orv = cmd[c].orv /\ r.err = cmd[c].err /\ r.base = cmd[c].base
  BY <1>4 DEF CmdType
<1>6. cmd'[c] = [cmd[c] EXCEPT !.at = at] BY <1>1, <1>2
<1>7. cmd' \in [Clones -> CmdType] BY <1>1, <1>2, <1>3
<1>8. \A d \in Clones \ {c} : cmd'[d] = cmd[d] BY <1>1, <1>2
<1> QED BY <1>5, <1>6, <1>7, <1>8

\* How a command ends: at rest, with no root version left over from its
\* attempts.
LEMMA EndIs ==
    ASSUME Typed, NEW c \in Clones, NEW at \in Stages, End(c, at)
    PROVE  /\ cmd' \in [Clones -> CmdType] /\ cmd'[c].at = at /\ cmd'[c].orv = None
           /\ \A d \in Clones \ {c} : cmd'[d] = cmd[d]
<1>1. cmd \in [Clones -> CmdType] BY DEF Typed
<1>2. cmd[c].app \in Apps /\ cmd[c].pull \in BOOLEAN BY <1>1 DEF CmdType
<1> DEFINE r == Rest(at, cmd[c].app, cmd[c].pull)
<1>3. r \in CmdType /\ r.at = at /\ r.orv = None BY <1>2, RestIs
<1>4. cmd' = [cmd EXCEPT ![c] = r] BY DEF End
<1> HIDE DEF r
<1> QED BY <1>1, <1>3, <1>4

\* What it takes for a step to keep the types.
LEMMA StepIs ==
    ASSUME Typed, NEW c \in Clones, UNCHANGED setup,
           heads' \in [Branches -> Seq(Commits)], \A b \in Branches : heads'[b] # <<>>,
           \A b \in Branches : IsPrefix(heads[b], heads'[b]),
           rtags' \subseteq Tags, IsFiniteSet(rtags'), rtags \subseteq rtags',
           NEW h \in Seq(Commits), h # <<>>, head' = [head EXCEPT ![c] = h],
           NEW k \in Seq(Commits), k # <<>>, track' = [track EXCEPT ![c] = k],
           NEW T \in SUBSET Tags, IsFiniteSet(T), tags' = [tags EXCEPT ![c] = T],
           cmd' \in [Clones -> CmdType], \A d \in Clones \ {c} : cmd'[d] = cmd[d],
           calm' \in [Clones -> BOOLEAN], users' \in Nat, faults' \in Nat, crashes' \in Nat,
           crashes # 0 => crashes' # 0
    PROVE  Typed' /\ Alone(c) /\ head'[c] = h /\ track'[c] = k /\ tags'[c] = T
<1>1. /\ head \in [Clones -> Seq(Commits)] /\ track \in [Clones -> Seq(Commits)]
      /\ tags \in [Clones -> SUBSET Tags]
      /\ \A d \in Clones : head[d] # <<>> /\ track[d] # <<>> /\ IsFiniteSet(tags[d])
  BY DEF Typed
<1>2. /\ head' \in [Clones -> Seq(Commits)] /\ head'[c] = h
      /\ \A d \in Clones \ {c} : head'[d] = head[d]
  BY <1>1
<1>3. /\ track' \in [Clones -> Seq(Commits)] /\ track'[c] = k
      /\ \A d \in Clones \ {c} : track'[d] = track[d]
  BY <1>1
<1>4. /\ tags' \in [Clones -> SUBSET Tags] /\ tags'[c] = T
      /\ \A d \in Clones \ {c} : tags'[d] = tags[d]
  BY <1>1
<1>5. atomic' \in BOOLEAN /\ branchOf' \in Layouts
  BY DEF Typed, setup
<1>6. \A d \in Clones : head'[d] # <<>> /\ track'[d] # <<>> /\ IsFiniteSet(tags'[d])
  BY <1>1, <1>2, <1>3, <1>4
<1>7. Typed'
  BY <1>2, <1>3, <1>4, <1>5, <1>6 DEF Typed
<1>8. Alone(c)
  BY <1>2, <1>3, <1>4 DEF Alone
<1> QED BY <1>2, <1>3, <1>4, <1>7, <1>8

\* The parts of Typed about one clone and its branch.
LEMMA PartsAre ==
    ASSUME Typed, NEW c \in Clones
    PROVE  /\ branchOf[c] \in Branches
           /\ heads[branchOf[c]] \in Seq(Commits) /\ heads[branchOf[c]] # <<>>
           /\ head[c] \in Seq(Commits) /\ head[c] # <<>> /\ Last(head[c]) \in Commits
           /\ track[c] \in Seq(Commits) /\ track[c] # <<>>
           /\ tags[c] \in SUBSET Tags /\ IsFiniteSet(tags[c])
           /\ cmd[c] \in CmdType
           /\ head = [head EXCEPT ![c] = head[c]] /\ track = [track EXCEPT ![c] = track[c]]
           /\ tags = [tags EXCEPT ![c] = tags[c]]
<1>1. branchOf[c] \in Branches
  BY StampAssumption DEF Typed
<1>2. head[c] \in Seq(Commits) /\ head[c] # <<>>
  BY DEF Typed
<1>3. Last(head[c]) \in Commits
  BY <1>2, FrontIs
<1>4. heads[branchOf[c]] \in Seq(Commits) /\ heads[branchOf[c]] # <<>>
  BY <1>1 DEF Typed
<1> QED BY <1>1, <1>2, <1>3, <1>4 DEF Typed

\* The branches of the remote when they do not change.
LEMMA SameHeads ==
    ASSUME Typed, heads' = heads
    PROVE  /\ heads' \in [Branches -> Seq(Commits)] /\ \A b \in Branches : heads'[b] # <<>>
           /\ \A b \in Branches : IsPrefix(heads[b], heads'[b])
BY PrefixRefl DEF Typed

\* One branch of the remote grows.
LEMMA HeadsPut ==
    ASSUME Typed, NEW b \in Branches, NEW h \in Seq(Commits), IsPrefix(heads[b], h),
           heads' = [heads EXCEPT ![b] = h]
    PROVE  /\ heads' \in [Branches -> Seq(Commits)] /\ \A a \in Branches : heads'[a] # <<>>
           /\ \A a \in Branches : IsPrefix(heads[a], heads'[a])
           /\ heads'[b] = h /\ \A a \in Branches \ {b} : heads'[a] = heads[a]
<1>1. heads \in [Branches -> Seq(Commits)] /\ \A a \in Branches : heads[a] # <<>>
  BY DEF Typed
<1>2. h # <<>>
  <2>1. Len(heads[b]) <= Len(h) BY <1>1, PrefixIs
  <2>2. Len(heads[b]) \in Nat /\ Len(heads[b]) # 0 BY <1>1, EmptySeq, LenProperties
  <2>3. Len(<<>>) = 0 BY EmptySeq
  <2> QED BY <2>1, <2>2, <2>3
<1>3. heads' \in [Branches -> Seq(Commits)] /\ heads'[b] = h
         /\ \A a \in Branches \ {b} : heads'[a] = heads[a]
  BY <1>1
<1>4. \A a \in Branches : IsPrefix(heads[a], heads'[a])
  BY <1>1, <1>3, PrefixRefl
<1> QED BY <1>1, <1>2, <1>3, <1>4

\* What a push may change: the tags are new names, the branch a fast-forward;
\* on an atomic server both or neither.
LEMMA AcceptedIs ==
    ASSUME Typed, NEW c \in Clones
    PROVE  /\ Accepted(c).tags \subseteq TagsOn(c, Last(head[c]))
           /\ Accepted(c).tags \subseteq Tags /\ IsFiniteSet(Accepted(c).tags)
           /\ \A t \in Accepted(c).tags : \A u \in rtags : ~Named(u, t.kind, t.n)
           /\ Accepted(c).branch \in BOOLEAN
           /\ Accepted(c).branch => IsPrefix(heads[branchOf[c]], head[c])
           /\ atomic /\ Accepted(c).branch => Accepted(c).tags = TagsOn(c, Last(head[c]))
           /\ atomic /\ ~Accepted(c).branch => Accepted(c).tags = {}
<1> DEFINE A == Accepted(c) O == TagsOn(c, Last(head[c]))
<1>1. A = IF atomic /\ ~(FastForward(c) /\ NewTags(c) = O)
          THEN [branch |-> FALSE, tags |-> {}]
          ELSE [branch |-> FastForward(c), tags |-> NewTags(c)]
  BY DEF Accepted
<1>2. O \subseteq Tags /\ IsFiniteSet(O)
  BY PartsAre, TagsOnIs
<1>3. NewTags(c) \subseteq O /\ \A t \in NewTags(c) : \A u \in rtags : ~Named(u, t.kind, t.n)
  BY DEF NewTags
<1>4. FastForward(c) \in BOOLEAN /\ (FastForward(c) => IsPrefix(heads[branchOf[c]], head[c]))
  BY DEF FastForward, IsPrefix
<1> HIDE DEF O
<1>5. CASE atomic /\ ~(FastForward(c) /\ NewTags(c) = O)
  <2>1. A = [branch |-> FALSE, tags |-> {}]
    BY <1>1, <1>5, Zenon
  <2> QED BY <2>1, FS_EmptySet DEF O
<1>6. CASE ~(atomic /\ ~(FastForward(c) /\ NewTags(c) = O))
  <2>1. A = [branch |-> FastForward(c), tags |-> NewTags(c)]
    BY <1>1, <1>6, Zenon
  <2>2. IsFiniteSet(NewTags(c))
    BY <1>2, <1>3, FS_Subset
  <2> QED BY <1>2, <1>3, <1>4, <1>6, <2>1, <2>2 DEF O
<1> QED BY <1>5, <1>6

\* The remote after a push that arrived.
LEMMA LandIs ==
    ASSUME Typed, Distinct, NEW c \in Clones,
           heads' = IF Accepted(c).branch
                    THEN [heads EXCEPT ![branchOf[c]] = head[c]] ELSE heads,
           rtags' = rtags \cup Accepted(c).tags
    PROVE  /\ heads' \in [Branches -> Seq(Commits)] /\ \A b \in Branches : heads'[b] # <<>>
           /\ \A b \in Branches : IsPrefix(heads[b], heads'[b])
           /\ rtags' \subseteq Tags /\ IsFiniteSet(rtags') /\ rtags \subseteq rtags'
           /\ Distinct'
           /\ Accepted(c).branch => heads'[branchOf[c]] = head[c]
<1>1. rtags \in SUBSET Tags /\ IsFiniteSet(rtags) BY DEF Typed
<1>2. rtags' \subseteq Tags /\ IsFiniteSet(rtags') /\ rtags \subseteq rtags'
  BY <1>1, AcceptedIs, FS_Union
<1>3. Distinct'
  <2>1. \A t, u \in Accepted(c).tags : Named(t, u.kind, u.n) => t = u
    <3>1. \A t, u \in TagsOn(c, Last(head[c])) : Named(t, u.kind, u.n) => t = u
      <4>1. cmd[c].app # Root BY PartsAre, StampAssumption DEF CmdType
      <4>2. TagsOn(c, Last(head[c])) =
               {[kind |-> cmd[c].app, n |-> cmd[c].ver, on |-> Last(head[c])]} \cup
               (IF HasRoot THEN {[kind |-> Root, n |-> cmd[c].root, on |-> Last(head[c])]}
                ELSE {})
        BY PartsAre, TagsOnIs
      <4> QED BY <4>1, <4>2 DEF Named
    <3> QED BY <3>1, AcceptedIs
  <2> QED BY <2>1, AcceptedIs DEF Distinct, Named
<1>4. CASE Accepted(c).branch
  <2>1. IsPrefix(heads[branchOf[c]], head[c]) BY <1>4, AcceptedIs
  <2> QED BY <1>2, <1>3, <1>4, <2>1, HeadsPut, PartsAre
<1>5. CASE ~Accepted(c).branch
  BY <1>2, <1>3, <1>5, SameHeads
<1> QED BY <1>4, <1>5, AcceptedIs

-----------------------------------------------------------------------------
(***************************************************************************)
(* Every step of a clone keeps BaseInv.                                    *)
(***************************************************************************)

Keeps(c) == Typed' /\ Alone(c) /\ Distinct' /\ Local(c)' /\ Undone(c)'

\* The remote when a step leaves it alone.
LEMMA SameRemote ==
    ASSUME Typed, Distinct, UNCHANGED remote
    PROVE  /\ UNCHANGED setup /\ heads' = heads /\ rtags' = rtags /\ Distinct'
           /\ heads' \in [Branches -> Seq(Commits)] /\ \A b \in Branches : heads'[b] # <<>>
           /\ \A b \in Branches : IsPrefix(heads[b], heads'[b])
           /\ rtags' \subseteq Tags /\ IsFiniteSet(rtags') /\ rtags \subseteq rtags'
<1>1. UNCHANGED setup /\ heads' = heads /\ rtags' = rtags BY DEF remote
<1>2. Distinct' BY <1>1 DEF Distinct
<1>3. rtags' \subseteq Tags /\ IsFiniteSet(rtags') /\ rtags \subseteq rtags' BY <1>1 DEF Typed
<1> QED BY <1>1, <1>2, <1>3, SameHeads

\* A step that leaves the remote alone.
LEMMA QuietStep ==
    ASSUME BaseInv, NEW c \in Clones, UNCHANGED remote,
           NEW h \in Seq(Commits), h # <<>>, head' = [head EXCEPT ![c] = h],
           NEW k \in Seq(Commits), k # <<>>, track' = [track EXCEPT ![c] = k],
           NEW T \in SUBSET Tags, IsFiniteSet(T), tags' = [tags EXCEPT ![c] = T],
           cmd' \in [Clones -> CmdType], \A d \in Clones \ {c} : cmd'[d] = cmd[d],
           calm' \in [Clones -> BOOLEAN], users' \in Nat, faults' \in Nat, crashes' \in Nat,
           crashes # 0 => crashes' # 0
    PROVE  /\ Typed' /\ Alone(c) /\ Distinct' /\ head'[c] = h /\ track'[c] = k /\ tags'[c] = T
           /\ heads' = heads /\ rtags' = rtags /\ branchOf' = branchOf
<1>0. Typed /\ Distinct BY DEF BaseInv
<1>1. /\ UNCHANGED setup /\ heads' = heads /\ rtags' = rtags /\ Distinct'
      /\ heads' \in [Branches -> Seq(Commits)] /\ \A b \in Branches : heads'[b] # <<>>
      /\ \A b \in Branches : IsPrefix(heads[b], heads'[b])
      /\ rtags' \subseteq Tags /\ IsFiniteSet(rtags') /\ rtags \subseteq rtags'
  BY <1>0, SameRemote
<1>2. Typed' /\ Alone(c) /\ head'[c] = h /\ track'[c] = k /\ tags'[c] = T
  BY <1>0, <1>1, StepIs
<1> QED BY <1>1, <1>2 DEF setup

\* One after which the clone has nothing of its own.
LEMMA SettledStep ==
    ASSUME BaseInv, NEW c \in Clones, UNCHANGED remote,
           NEW h \in Seq(Commits), h # <<>>, head' = [head EXCEPT ![c] = h],
           NEW k \in Seq(Commits), k # <<>>, track' = [track EXCEPT ![c] = k],
           NEW T \in SUBSET Tags, IsFiniteSet(T), tags' = [tags EXCEPT ![c] = T],
           cmd' \in [Clones -> CmdType], \A d \in Clones \ {c} : cmd'[d] = cmd[d],
           calm' \in [Clones -> BOOLEAN], users' \in Nat, faults' \in Nat, crashes' = crashes,
           cmd'[c].at \notin {"tag", "push", "revert"},
           cmd'[c].at = "crashed" => crashes # 0,
           cmd'[c].at = "crashed" \/ IsPrefix(h, heads[branchOf[c]]),
           IsPrefix(k, heads[branchOf[c]]),
           crashes = 0 => T \subseteq rtags
    PROVE  Keeps(c)
<1>1. crashes' \in Nat /\ (crashes # 0 => crashes' # 0)
  BY DEF BaseInv, Typed
<1>2. /\ Typed' /\ Alone(c) /\ Distinct' /\ head'[c] = h /\ track'[c] = k /\ tags'[c] = T
      /\ heads' = heads /\ rtags' = rtags /\ branchOf' = branchOf
  BY <1>1, QuietStep
<1>3. Local(c)' /\ Undone(c)'
  BY <1>2 DEF Local, Undone, Making
<1> QED BY <1>2, <1>3 DEF Keeps

\* What a command that has made no commit starts from.
LEMMA BeforeIs ==
    ASSUME BaseInv, NEW c \in Clones
    PROVE  /\ IsPrefix(track[c], heads[branchOf[c]])
           /\ cmd[c].at \notin {"tag", "push", "revert", "crashed"} =>
                 IsPrefix(head[c], heads[branchOf[c]])
           /\ cmd[c].at \notin {"push", "revert"} /\ crashes = 0 => tags[c] \subseteq rtags
BY DEF BaseInv, Local, Undone, Making

\* The start of a stamp keeps what the invariant says of any server.
LEMMA StartKeeps ==
    ASSUME BaseInv, NEW c \in Clones, Start(c)
    PROVE  Keeps(c)
<1> USE PartsAre
<1>0. Typed /\ Distinct BY DEF BaseInv
<1>1. PICK app \in AppsOf[c], pull \in Pull :
         cmd' = [cmd EXCEPT ![c] =
             [at |-> "fetch", app |-> app, pull |-> pull, from |-> last_user_changeset(c),
              base |-> verstr_from_file(c, app), orv |-> None, ver |-> 0, root |-> 0,
              left |-> Retries, err |-> 0]]
  BY DEF Start
<1> DEFINE r == [at |-> "fetch", app |-> app, pull |-> pull, from |-> last_user_changeset(c),
                 base |-> verstr_from_file(c, app), orv |-> None, ver |-> 0, root |-> 0,
                 left |-> Retries, err |-> 0]
<1>2. r \in CmdType /\ r.at = "fetch"
  <2>1. app \in Apps /\ pull \in BOOLEAN BY StampAssumption
  <2>2. last_user_changeset(c) \in Nat /\ verstr_from_file(c, app) \in Nat
    BY <1>0, ReadsAre
  <2> QED BY <2>1, <2>2, StampAssumption DEF CmdType, Stages, Resting
<1>3. cmd' \in [Clones -> CmdType] /\ cmd'[c].at = "fetch"
         /\ \A d \in Clones \ {c} : cmd'[d] = cmd[d]
  <2>1. cmd \in [Clones -> CmdType] BY <1>0 DEF Typed
  <2>2. cmd' = [cmd EXCEPT ![c] = r] BY <1>1
  <2> HIDE DEF r
  <2> QED BY <1>2, <2>1, <2>2
<1>4. /\ cmd[c].at \in Resting /\ ~Outgoing(c) /\ UNCHANGED remote
      /\ head' = head /\ track' = track /\ tags' = tags
      /\ users' = users /\ faults' = faults /\ crashes' = crashes
      /\ calm' = [calm EXCEPT ![c] = TRUE]
  BY DEF Start, bounds
<1>5. calm' \in [Clones -> BOOLEAN] /\ users' \in Nat /\ faults' \in Nat /\ crashes' \in Nat
  BY <1>0, <1>4 DEF Typed
<1>6. IsPrefix(head[c], heads[branchOf[c]])
  <2>1. IsPrefix(head[c], track[c]) BY <1>4 DEF Outgoing
  <2> QED BY <1>0, <2>1, BeforeIs, PrefixTrans
<1>7. crashes = 0 => tags[c] \subseteq rtags
  BY <1>4, BeforeIs DEF Resting
<1>8. IsPrefix(track[c], heads[branchOf[c]])
  BY BeforeIs
<1>9. /\ head' = [head EXCEPT ![c] = head[c]] /\ track' = [track EXCEPT ![c] = track[c]]
      /\ tags' = [tags EXCEPT ![c] = tags[c]]
  BY <1>0, <1>4
<1> QED BY <1>0, <1>3, <1>4, <1>5, <1>6, <1>7, <1>8, <1>9, SettledStep

\* A git call that works, or fails.
LEMMA CalmIs ==
    ASSUME Typed, NEW c \in Clones, Quiet \/ Fault(c)
    PROVE  /\ calm' \in [Clones -> BOOLEAN] /\ users' \in Nat /\ faults' \in Nat
           /\ crashes' = crashes
<1>1. calm \in [Clones -> BOOLEAN] /\ users \in Nat /\ faults \in Nat
  BY DEF Typed
<1>2. CASE Quiet
  BY <1>1, <1>2 DEF Quiet, bounds
<1>3. CASE Fault(c)
  BY <1>1, <1>3 DEF Fault
<1> QED BY <1>2, <1>3

\* A branch that is checked out as the remote has it.
LEMMA HeadIs ==
    ASSUME Typed, NEW c \in Clones
    PROVE  IsPrefix(heads[branchOf[c]], heads[branchOf[c]])
BY PartsAre, PrefixRefl

\* The cached fetch (perform_cached_fetch) keeps what the invariant says of
\* any server.
LEMMA FetchKeeps ==
    ASSUME BaseInv, NEW c \in Clones, Fetch(c)
    PROVE  Keeps(c)
<1> DEFINE b == branchOf[c]
           to == IF cmd[c].pull THEN "pull" ELSE "stamp"
<1>0. Typed /\ Distinct BY DEF BaseInv
<1>1. cmd[c].at = "fetch" /\ UNCHANGED remote /\ head' = head BY DEF Fetch
<1>2. /\ IsPrefix(head[c], heads[b]) /\ IsPrefix(track[c], heads[b])
      /\ crashes = 0 => tags[c] \subseteq rtags
  BY <1>1, BeforeIs
<1>3. head' = [head EXCEPT ![c] = head[c]] BY <1>0, <1>1, PartsAre
<1>4. to \in Stages /\ "failed" \in Stages /\ to # "crashed" BY DEF Stages, Resting
<1>5. ASSUME Go(c, to) \/ End(c, "failed")
      PROVE  /\ cmd' \in [Clones -> CmdType] /\ \A d \in Clones \ {c} : cmd'[d] = cmd[d]
             /\ cmd'[c].at \in {"pull", "stamp", "failed"}
  BY <1>0, <1>4, <1>5, GoIs, EndIs
<1>6. CASE track' = track /\ tags' = tags /\ ((Quiet /\ Go(c, to)) \/ (Fault(c) /\ End(c, "failed")))
  <2>1. track' = [track EXCEPT ![c] = track[c]] /\ tags' = [tags EXCEPT ![c] = tags[c]]
    BY <1>0, <1>6, PartsAre
  <2>2. /\ calm' \in [Clones -> BOOLEAN] /\ users' \in Nat /\ faults' \in Nat
        /\ crashes' = crashes
    BY <1>0, <1>6, CalmIs
  <2> QED BY <1>0, <1>1, <1>2, <1>3, <1>5, <1>6, <2>1, <2>2, PartsAre, SettledStep
<1>7. CASE /\ tags' = [tags EXCEPT ![c] = Fetched(c)] /\ track' = [track EXCEPT ![c] = heads[b]]
           /\ Quiet /\ (Go(c, to) \/ End(c, "failed"))
  <2>1. /\ Fetched(c) \subseteq Tags /\ IsFiniteSet(Fetched(c))
        /\ crashes = 0 => Fetched(c) \subseteq rtags
    BY <1>0, <1>2, FetchedIs
  <2>2. /\ calm' \in [Clones -> BOOLEAN] /\ users' \in Nat /\ faults' \in Nat
        /\ crashes' = crashes
    BY <1>0, <1>7, CalmIs
  <2> QED BY <1>0, <1>1, <1>2, <1>3, <1>5, <1>7, <2>1, <2>2, PartsAre, HeadIs, SettledStep
<1>8. \/ track' = track /\ tags' = tags /\ Quiet /\ Go(c, to)
      \/ /\ tags' = [tags EXCEPT ![c] = Fetched(c)] /\ track' = [track EXCEPT ![c] = heads[b]]
         /\ Quiet /\ (Go(c, to) \/ End(c, "failed"))
      \/ track' = track /\ tags' = tags /\ Fault(c) /\ End(c, "failed")
  BY DEF Fetch
<1> HIDE DEF to, b
<1> QED BY <1>6, <1>7, <1>8, Zenon

\* The pull before the first attempt (_retrieve_stamp_updates) keeps what the
\* invariant says of any server.
LEMMA PullFirstKeeps ==
    ASSUME BaseInv, NEW c \in Clones, PullFirst(c)
    PROVE  Keeps(c)
<1> DEFINE b == branchOf[c]
<1>0. Typed /\ Distinct BY DEF BaseInv
<1>1. cmd[c].at = "pull" /\ UNCHANGED remote BY DEF PullFirst
<1>2. /\ IsPrefix(head[c], heads[b]) /\ IsPrefix(track[c], heads[b])
      /\ crashes = 0 => tags[c] \subseteq rtags
  BY <1>1, BeforeIs
<1>3. "stamp" \in Stages /\ "failed" \in Stages BY DEF Stages, Resting
<1>4. ASSUME Go(c, "stamp") \/ End(c, "failed")
      PROVE  /\ cmd' \in [Clones -> CmdType] /\ \A d \in Clones \ {c} : cmd'[d] = cmd[d]
             /\ cmd'[c].at \in {"stamp", "failed"}
  BY <1>0, <1>3, <1>4, GoIs, EndIs
<1>5. /\ Fetched(c) \subseteq Tags /\ IsFiniteSet(Fetched(c))
      /\ crashes = 0 => Fetched(c) \subseteq rtags
  BY <1>0, <1>2, FetchedIs
<1>6. CASE /\ tags' = [tags EXCEPT ![c] = Fetched(c)] /\ track' = [track EXCEPT ![c] = heads[b]]
           /\ head' = [head EXCEPT ![c] = heads[b]] /\ Quiet /\ Go(c, "stamp")
  BY <1>0, <1>1, <1>2, <1>4, <1>5, <1>6, CalmIs, PartsAre, HeadIs, SettledStep
<1>7. CASE /\ tags' = [tags EXCEPT ![c] = Fetched(c)] /\ track' = [track EXCEPT ![c] = heads[b]]
           /\ UNCHANGED head /\ Quiet /\ End(c, "failed")
  <2>1. head' = [head EXCEPT ![c] = head[c]] BY <1>0, <1>7, PartsAre
  <2> QED BY <1>0, <1>1, <1>2, <1>4, <1>5, <1>7, <2>1, CalmIs, PartsAre, HeadIs, SettledStep
<1>8. CASE UNCHANGED <<head, track, tags>> /\ Fault(c) /\ End(c, "failed")
  <2>1. /\ head' = [head EXCEPT ![c] = head[c]] /\ track' = [track EXCEPT ![c] = track[c]]
        /\ tags' = [tags EXCEPT ![c] = tags[c]]
    BY <1>0, <1>8, PartsAre
  <2> QED BY <1>0, <1>1, <1>2, <1>4, <1>8, <2>1, CalmIs, PartsAre, SettledStep
<1> QED BY <1>6, <1>7, <1>8 DEF PullFirst

\* The choice of the next versions (stamp_app_version) keeps what the
\* invariant says of any server.
LEMMA StampVersionKeeps ==
    ASSUME BaseInv, NEW c \in Clones, StampVersion(c)
    PROVE  Keeps(c)
<1> DEFINE b == branchOf[c]
<1>0. Typed /\ Distinct BY DEF BaseInv
<1>1. /\ cmd[c].at = "stamp" /\ UNCHANGED remote /\ Quiet
      /\ head' = head /\ track' = track /\ tags' = tags
  BY DEF StampVersion, Quiet
<1>2. /\ IsPrefix(head[c], heads[b]) /\ IsPrefix(track[c], heads[b])
      /\ crashes = 0 => tags[c] \subseteq rtags
  BY <1>1, BeforeIs
<1>3. /\ cmd' \in [Clones -> CmdType] /\ \A d \in Clones \ {c} : cmd'[d] = cmd[d]
      /\ cmd'[c].at \in {"failed", "commit"}
  <2>1. CASE End(c, "failed")
    <3>1. "failed" \in Stages BY DEF Stages, Resting
    <3> QED BY <1>0, <2>1, <3>1, EndIs
  <2>2. CASE /\ ~(cmd[c].left = 0 \/ (HasRoot /\ ReachableRoots(c) = {}))
             /\ cmd' = [cmd EXCEPT ![c].at = "commit", ![c].left = Count(c),
                               ![c].ver = NextVersion(c), ![c].root = NextRoot(c)]
    <3>1. cmd \in [Clones -> CmdType] BY <1>0 DEF Typed
    <3>2. NextVersion(c) \in Nat /\ NextRoot(c) \in Nat
      BY <1>0, <2>2, NextVersionIs, NextRootIs
    <3>3. Count(c) \in 0 .. Retries BY <2>2, <3>1, StampAssumption DEF Count, CmdType
    <3> DEFINE r == [cmd[c] EXCEPT !.at = "commit", !.left = Count(c),
                                   !.ver = NextVersion(c), !.root = NextRoot(c)]
    <3>4. r \in CmdType /\ r.at = "commit" BY <3>1, <3>2, <3>3 DEF CmdType, Stages
    <3>5. cmd' = [cmd EXCEPT ![c] = r] BY <2>2, <3>1
    <3> HIDE DEF r
    <3> QED BY <3>1, <3>4, <3>5
  <2> QED BY <2>1, <2>2 DEF StampVersion
<1>4. /\ head' = [head EXCEPT ![c] = head[c]] /\ track' = [track EXCEPT ![c] = track[c]]
      /\ tags' = [tags EXCEPT ![c] = tags[c]]
  BY <1>0, <1>1, PartsAre
<1> QED BY <1>0, <1>1, <1>2, <1>3, <1>4, CalmIs, PartsAre, SettledStep

\* The version commit (publish_commit) keeps what the invariant says of any
\* server.
LEMMA PublishCommitKeeps ==
    ASSUME BaseInv, NEW c \in Clones, PublishCommit(c)
    PROVE  Keeps(c)
<1> DEFINE b == branchOf[c]
           x == [id |-> NewId, app |-> cmd[c].app, ver |-> cmd[c].ver, root |-> cmd[c].root,
                 from |-> cmd[c].from]
<1>0. Typed /\ Distinct BY DEF BaseInv
<1>1. cmd[c].at = "commit" /\ UNCHANGED remote /\ track' = track /\ tags' = tags
  BY DEF PublishCommit
<1>2. /\ IsPrefix(head[c], heads[b]) /\ IsPrefix(track[c], heads[b])
      /\ crashes = 0 => tags[c] \subseteq rtags
  BY <1>1, BeforeIs
<1>3. track' = [track EXCEPT ![c] = track[c]] /\ tags' = [tags EXCEPT ![c] = tags[c]]
  BY <1>0, <1>1, PartsAre
<1>4. "tag" \in Stages /\ "failed" \in Stages BY DEF Stages, Resting
<1>5. CASE head' = [head EXCEPT ![c] = Append(@, x)] /\ Go(c, "tag") /\ Quiet
  <2> DEFINE h == Append(head[c], x)
  <2>1. x \in Commits
    <3>1. cmd[c] \in CmdType /\ NewId \in Nat BY <1>0, PartsAre, NewIdIs
    <3> QED BY <3>1 DEF Commits, CmdType
  <2>2. h \in Seq(Commits) /\ h # <<>> /\ Front(h) = head[c] /\ Last(h) = x
    BY <1>0, <2>1, PartsAre, AppendIs
  <2>3. head' = [head EXCEPT ![c] = h]
    BY <1>5
  <2>4. x.app = cmd[c].app /\ x.ver = cmd[c].ver /\ x.root = cmd[c].root
    OBVIOUS
  <2>5. /\ cmd' \in [Clones -> CmdType] /\ \A d \in Clones \ {c} : cmd'[d] = cmd[d]
        /\ cmd'[c].at = "tag" /\ cmd'[c].app = cmd[c].app /\ cmd'[c].ver = cmd[c].ver
        /\ cmd'[c].root = cmd[c].root
    BY <1>0, <1>4, <1>5, GoIs
  <2>6. /\ calm' \in [Clones -> BOOLEAN] /\ users' \in Nat /\ faults' \in Nat
        /\ crashes' = crashes /\ crashes' \in Nat
    BY <1>0, <1>5, CalmIs DEF Typed
  <2> HIDE DEF h, x
  <2>7. /\ Typed' /\ Alone(c) /\ Distinct' /\ head'[c] = h /\ track'[c] = track[c]
        /\ tags'[c] = tags[c] /\ heads' = heads /\ rtags' = rtags /\ branchOf' = branchOf
    <3>1. /\ track[c] \in Seq(Commits) /\ track[c] # <<>>
          /\ tags[c] \in SUBSET Tags /\ IsFiniteSet(tags[c])
          /\ crashes # 0 => crashes' # 0
      BY <1>0, <2>6, PartsAre
    <3> QED BY <1>1, <1>3, <2>2, <2>3, <2>5, <2>6, <3>1, QuietStep
  <2>8. Front(head'[c]) # <<>>
    BY <1>0, <2>2, <2>7, PartsAre
  <2>9. Local(c)' /\ Undone(c)'
    <3>1. /\ Last(head'[c]).app = cmd'[c].app /\ Last(head'[c]).ver = cmd'[c].ver
          /\ Last(head'[c]).root = cmd'[c].root
      BY <2>2, <2>4, <2>5, <2>7
    <3>2. IsPrefix(Front(head'[c]), heads'[b]) /\ IsPrefix(track'[c], heads'[b])
      BY <1>2, <2>2, <2>7
    <3>3. crashes' = 0 => tags'[c] \subseteq rtags'
      BY <1>2, <2>6, <2>7
    <3>4. branchOf'[c] = b /\ cmd'[c].at = "tag"
      BY <2>5, <2>7
    <3> HIDE DEF b
    <3> QED BY <2>8, <3>1, <3>2, <3>3, <3>4 DEF Local, Undone, Making
  <2> QED BY <2>7, <2>9 DEF Keeps
<1>6. CASE Fault(c) /\ End(c, "failed") /\ UNCHANGED head
  <2>1. head' = [head EXCEPT ![c] = head[c]] BY <1>0, <1>6, PartsAre
  <2>2. /\ cmd' \in [Clones -> CmdType] /\ \A d \in Clones \ {c} : cmd'[d] = cmd[d]
        /\ cmd'[c].at = "failed"
    BY <1>0, <1>4, <1>6, EndIs
  <2> QED BY <1>0, <1>1, <1>2, <1>3, <1>6, <2>1, <2>2, CalmIs, PartsAre, SettledStep
<1> QED BY <1>5, <1>6 DEF PublishCommit

\* The command of c goes to revert with an error.
LEMMA ErrIs ==
    ASSUME Typed, NEW c \in Clones, NEW e \in 0 .. 2,
           cmd' = [cmd EXCEPT ![c].at = "revert", ![c].err = e]
    PROVE  /\ cmd' \in [Clones -> CmdType] /\ \A d \in Clones \ {c} : cmd'[d] = cmd[d]
           /\ cmd'[c].at = "revert" /\ cmd'[c].err = e /\ cmd'[c].app = cmd[c].app
           /\ cmd'[c].ver = cmd[c].ver /\ cmd'[c].root = cmd[c].root
           /\ cmd'[c].orv = cmd[c].orv
<1> DEFINE r == [cmd[c] EXCEPT !.at = "revert", !.err = e]
<1>1. cmd \in [Clones -> CmdType] /\ cmd[c] \in CmdType BY DEF Typed
<1>2. /\ r \in CmdType /\ r.at = "revert" /\ r.err = e /\ r.app = cmd[c].app
      /\ r.ver = cmd[c].ver /\ r.root = cmd[c].root /\ r.orv = cmd[c].orv
  BY <1>1 DEF CmdType, Stages
<1>3. cmd' = [cmd EXCEPT ![c] = r] BY <1>1
<1> HIDE DEF r
<1> QED BY <1>1, <1>2, <1>3

\* A stamp that has its commit and keeps it.
LEMMA MadeIs ==
    ASSUME BaseInv, NEW c \in Clones, Making(c), Making(c)', branchOf' = branchOf,
           head'[c] = head[c], IsPrefix(track'[c], heads'[branchOf[c]]), Typed', Alone(c),
           cmd'[c].app = cmd[c].app, cmd'[c].ver = cmd[c].ver, cmd'[c].root = cmd[c].root
    PROVE  Local(c)'
<1>1. branchOf[c] \in Branches /\ IsPrefix(heads[branchOf[c]], heads'[branchOf[c]])
  BY PartsAre DEF BaseInv, Alone
<1>2. Front(head[c]) # <<>> /\ IsPrefix(Front(head[c]), heads[branchOf[c]])
  BY DEF BaseInv, Local
<1>3. Front(head[c]) \in Seq(Commits) /\ heads'[branchOf[c]] \in Seq(Commits)
  BY <1>1, PartsAre, FrontIs DEF BaseInv, Typed
<1>4. IsPrefix(Front(head[c]), heads'[branchOf[c]])
  BY <1>1, <1>2, <1>3, PrefixTrans, PartsAre DEF BaseInv
<1> QED BY <1>2, <1>4 DEF BaseInv, Local, Making

\* The creation of the tags (_create_tags) keeps what the invariant says of
\* any server.
LEMMA CreateTagsKeeps ==
    ASSUME BaseInv, NEW c \in Clones, CreateTags(c)
    PROVE  Keeps(c)
<1> DEFINE x == Last(head[c])
           taken == {m \in Names(c) : \E t \in tags[c] : Named(t, m[1], m[2])}
           made == IF taken = {} THEN TagsOn(c, x)
                   ELSE {t \in TagsOn(c, x) : t.kind # Root /\ <<t.kind, t.n>> \notin taken}
<1>0. Typed /\ Distinct BY DEF BaseInv
<1>1. /\ cmd[c].at = "tag" /\ UNCHANGED remote /\ Quiet /\ head' = head /\ track' = track
      /\ tags' = [tags EXCEPT ![c] = tags[c] \cup made]
      /\ IF taken = {} THEN Go(c, "push")
         ELSE cmd' = [cmd EXCEPT ![c].at = "revert", ![c].err = 1]
  BY DEF CreateTags, Quiet
<1>2. made \subseteq TagsOn(c, x) /\ (taken = {} => made = TagsOn(c, x))
  OBVIOUS
<1> HIDE DEF made, taken
<1>3. /\ cmd' \in [Clones -> CmdType] /\ \A d \in Clones \ {c} : cmd'[d] = cmd[d]
      /\ cmd'[c].at \in {"push", "revert"} /\ cmd'[c].app = cmd[c].app
      /\ cmd'[c].ver = cmd[c].ver /\ cmd'[c].root = cmd[c].root
  <2>1. CASE taken = {}
    <3>1. "push" \in Stages BY DEF Stages
    <3> QED BY <1>0, <1>1, <2>1, <3>1, GoIs
  <2>2. CASE taken # {}
    BY <1>0, <1>1, <2>2, ErrIs
  <2> QED BY <2>1, <2>2
<1>4. /\ TagsOn(c, x) \subseteq Tags /\ IsFiniteSet(TagsOn(c, x))
      /\ \A t \in TagsOn(c, x) : Bears(t, Names(c))
  <2>1. x \in Commits /\ cmd[c] \in CmdType BY <1>0, PartsAre
  <2> HIDE DEF x
  <2>2. TagsOn(c, x) \subseteq Tags /\ IsFiniteSet(TagsOn(c, x)) BY <2>1, TagsOnIs
  <2>3. \A t \in TagsOn(c, x) : Bears(t, Names(c)) BY DEF TagsOn, Bears, Names
  <2> QED BY <2>2, <2>3
<1>5. IsFiniteSet(tags[c] \cup made) /\ tags[c] \cup made \in SUBSET Tags
  <2>1. IsFiniteSet(made) BY <1>2, <1>4, FS_Subset
  <2> QED BY <1>0, <1>2, <1>4, <2>1, PartsAre, FS_Union
<1>6. /\ calm' \in [Clones -> BOOLEAN] /\ users' \in Nat /\ faults' \in Nat
      /\ crashes' = crashes /\ crashes' \in Nat
  BY <1>0, <1>1, CalmIs DEF Typed
<1>7. head' = [head EXCEPT ![c] = head[c]] /\ track' = [track EXCEPT ![c] = track[c]]
  BY <1>0, <1>1, PartsAre
<1>8. /\ Typed' /\ Alone(c) /\ Distinct' /\ head'[c] = head[c] /\ track'[c] = track[c]
      /\ tags'[c] = tags[c] \cup made
      /\ heads' = heads /\ rtags' = rtags /\ branchOf' = branchOf
  <2> DEFINE T == tags[c] \cup made
  <2>1. /\ track[c] \in Seq(Commits) /\ track[c] # <<>>
        /\ head[c] \in Seq(Commits) /\ head[c] # <<>>
        /\ crashes # 0 => crashes' # 0
    BY <1>0, <1>6, PartsAre
  <2>2. tags' = [tags EXCEPT ![c] = T] /\ T \in SUBSET Tags /\ IsFiniteSet(T) /\ UNCHANGED remote
    BY <1>1, <1>5
  <2> HIDE DEF T
  <2>3. /\ Typed' /\ Alone(c) /\ Distinct' /\ head'[c] = head[c] /\ track'[c] = track[c]
        /\ tags'[c] = T
        /\ heads' = heads /\ rtags' = rtags /\ branchOf' = branchOf
    <3>1. cmd' \in [Clones -> CmdType] /\ \A d \in Clones \ {c} : cmd'[d] = cmd[d]
      BY <1>3
    <3>2. /\ calm' \in [Clones -> BOOLEAN] /\ users' \in Nat /\ faults' \in Nat
          /\ crashes' \in Nat
      BY <1>6
    <3> QED BY <1>7, <2>1, <2>2, <3>1, <3>2, QuietStep
  <2> QED BY <2>3 DEF T
<1>9. Local(c)'
  <2>1. Making(c) /\ Making(c)' BY <1>1, <1>3 DEF Making
  <2>2. IsPrefix(track'[c], heads'[branchOf[c]]) BY <1>8, BeforeIs
  <2> QED BY <1>3, <1>8, <2>1, <2>2, MadeIs
<1>10. Undone(c)'
  <2>1. Names(c)' = Names(c) /\ TagsOn(c, x)' = TagsOn(c, x)
    BY <1>3, <1>8 DEF Names, TagsOn
  <2>2. crashes = 0 => tags[c] \subseteq rtags BY <1>1, BeforeIs
  <2>3. TagsOn(c, Last(head[c]))' = TagsOn(c, Last(head[c])) BY <1>8, <2>1
  <2>4. Undone(c)' = (crashes' = 0 =>
            /\ cmd'[c].at \notin {"push", "revert"} => tags'[c] \subseteq rtags'
            /\ cmd'[c].at = "push" => tags'[c] \subseteq rtags' \cup TagsOn(c, x)
            /\ cmd'[c].at = "revert" => \A t \in tags'[c] : t \in rtags' \/ Bears(t, Names(c)))
    BY <2>1, <2>3 DEF Undone
  <2>5. \A t \in tags'[c] : t \in tags[c] \/ (t \in TagsOn(c, x) /\ Bears(t, Names(c)))
    BY <1>2, <1>4, <1>8
  <2> HIDE DEF x
  <2> QED BY <1>3, <1>6, <1>8, <2>2, <2>4, <2>5
<1> QED BY <1>8, <1>9, <1>10 DEF Keeps

\* The revert of a stamp that failed keeps what the invariant says of any
\* server.
LEMMA RevertKeeps ==
    ASSUME BaseInv, NEW c \in Clones, Revert(c)
    PROVE  Keeps(c)
<1> DEFINE h == Front(head[c])
           T == {t \in tags[c] : ~Bears(t, Names(c))}
<1>0. Typed /\ Distinct BY DEF BaseInv
<1>1. /\ cmd[c].at = "revert" /\ UNCHANGED remote /\ Quiet /\ track' = track
      /\ head' = [head EXCEPT ![c] = h] /\ tags' = [tags EXCEPT ![c] = T]
      /\ Go(c, "refetch")
  BY DEF Revert, Quiet
<1>2. h # <<>> /\ IsPrefix(h, heads[branchOf[c]]) /\ IsPrefix(track[c], heads[branchOf[c]])
  BY <1>1 DEF BaseInv, Local, Making
<1>3. h \in Seq(Commits)
  BY <1>0, PartsAre, FrontIs
<1>4. T \in SUBSET Tags /\ IsFiniteSet(T)
  BY <1>0, PartsAre, FS_Subset
<1>5. crashes = 0 => T \subseteq rtags
  BY <1>1 DEF BaseInv, Undone
<1> HIDE DEF h, T
<1>6. /\ cmd' \in [Clones -> CmdType] /\ \A d \in Clones \ {c} : cmd'[d] = cmd[d]
      /\ cmd'[c].at = "refetch"
  <2>1. "refetch" \in Stages BY DEF Stages
  <2> QED BY <1>0, <1>1, <2>1, GoIs
<1>7. /\ calm' \in [Clones -> BOOLEAN] /\ users' \in Nat /\ faults' \in Nat
      /\ crashes' = crashes
  BY <1>0, <1>1, CalmIs
<1>8. track' = [track EXCEPT ![c] = track[c]] /\ track[c] \in Seq(Commits) /\ track[c] # <<>>
  BY <1>0, <1>1, PartsAre
<1> QED BY <1>1, <1>2, <1>3, <1>4, <1>5, <1>6, <1>7, <1>8, SettledStep

\* The fetch before a retry keeps what the invariant says of any server.
LEMMA RefetchKeeps ==
    ASSUME BaseInv, NEW c \in Clones, Refetch(c)
    PROVE  Keeps(c)
<1> DEFINE b == branchOf[c]
<1>0. Typed /\ Distinct BY DEF BaseInv
<1>1. cmd[c].at = "refetch" /\ UNCHANGED remote /\ head' = head BY DEF Refetch
<1>2. /\ IsPrefix(head[c], heads[b]) /\ IsPrefix(track[c], heads[b])
      /\ crashes = 0 => tags[c] \subseteq rtags
  BY <1>1, BeforeIs
<1>3. /\ head' = [head EXCEPT ![c] = head[c]]
      /\ head[c] \in Seq(Commits) /\ head[c] # <<>>
  BY <1>0, <1>1, PartsAre
<1>4. /\ cmd' \in [Clones -> CmdType] /\ \A d \in Clones \ {c} : cmd'[d] = cmd[d]
      /\ cmd'[c].at \in {"stamp", "repull", "failed"}
  <2>1. "repull" \in Stages /\ "failed" \in Stages BY DEF Stages, Resting
  <2>2. CASE Go(c, "repull") BY <1>0, <2>1, <2>2, GoIs
  <2>3. CASE End(c, "failed") BY <1>0, <2>1, <2>3, EndIs
  <2>4. CASE cmd' = [cmd EXCEPT ![c].at = "stamp", ![c].base = cmd[c].ver,
                                ![c].orv = IF HasRoot THEN cmd[c].root ELSE None]
    <3> DEFINE r == [cmd[c] EXCEPT !.at = "stamp", !.base = cmd[c].ver,
                                   !.orv = IF HasRoot THEN cmd[c].root ELSE None]
    <3>1. cmd \in [Clones -> CmdType] BY <1>0 DEF Typed
    <3>2. r \in CmdType /\ r.at = "stamp" BY <3>1 DEF CmdType, Stages
    <3>3. cmd' = [cmd EXCEPT ![c] = r] BY <2>4, <3>1
    <3> HIDE DEF r
    <3> QED BY <3>1, <3>2, <3>3
  <2> QED BY <2>2, <2>3, <2>4 DEF Refetch
<1>5. CASE /\ tags' = [tags EXCEPT ![c] = Fetched(c)] /\ track' = [track EXCEPT ![c] = heads[b]]
           /\ Quiet
  <2>1. /\ Fetched(c) \in SUBSET Tags /\ IsFiniteSet(Fetched(c))
        /\ crashes = 0 => Fetched(c) \subseteq rtags
    BY <1>0, <1>2, FetchedIs
  <2>2. /\ calm' \in [Clones -> BOOLEAN] /\ users' \in Nat /\ faults' \in Nat
        /\ crashes' = crashes
    BY <1>0, <1>5, CalmIs
  <2>3. heads[b] \in Seq(Commits) /\ heads[b] # <<>> /\ IsPrefix(heads[b], heads[b])
    BY <1>0, PartsAre, HeadIs
  <2> QED BY <1>1, <1>2, <1>3, <1>4, <1>5, <2>1, <2>2, <2>3, SettledStep
<1>6. CASE track' = track /\ tags' = tags /\ Fault(c)
  <2>1. /\ track' = [track EXCEPT ![c] = track[c]] /\ tags' = [tags EXCEPT ![c] = tags[c]]
        /\ track[c] \in Seq(Commits) /\ track[c] # <<>>
        /\ tags[c] \in SUBSET Tags /\ IsFiniteSet(tags[c])
    BY <1>0, <1>6, PartsAre
  <2>2. /\ calm' \in [Clones -> BOOLEAN] /\ users' \in Nat /\ faults' \in Nat
        /\ crashes' = crashes
    BY <1>0, <1>6, CalmIs
  <2> QED BY <1>1, <1>2, <1>3, <1>4, <2>1, <2>2, SettledStep
<1> QED BY <1>5, <1>6 DEF Refetch

\* The pull before a retry keeps what the invariant says of any server.
LEMMA RepullKeeps ==
    ASSUME BaseInv, NEW c \in Clones, Repull(c)
    PROVE  Keeps(c)
<1> DEFINE h == heads[branchOf[c]]
           T == Follow(c, tags[c], h)
<1>0. Typed /\ Distinct BY DEF BaseInv
<1>1. cmd[c].at = "repull" /\ UNCHANGED remote /\ Go(c, "stamp") BY DEF Repull
<1>2. /\ IsPrefix(head[c], h) /\ IsPrefix(track[c], h)
      /\ crashes = 0 => tags[c] \subseteq rtags
  BY <1>1, BeforeIs
<1>3. /\ cmd' \in [Clones -> CmdType] /\ \A d \in Clones \ {c} : cmd'[d] = cmd[d]
      /\ cmd'[c].at = "stamp"
  <2>1. "stamp" \in Stages BY DEF Stages
  <2> QED BY <1>0, <1>1, <2>1, GoIs
<1>4. Quiet \/ Fault(c) =>
         /\ calm' \in [Clones -> BOOLEAN] /\ users' \in Nat /\ faults' \in Nat
         /\ crashes' = crashes
  BY <1>0, CalmIs
<1>5. CASE /\ head' = [head EXCEPT ![c] = h] /\ track' = [track EXCEPT ![c] = h]
           /\ tags' = [tags EXCEPT ![c] = T] /\ Quiet
  <2>1. T \in SUBSET Tags /\ IsFiniteSet(T) /\ (crashes = 0 => T \subseteq rtags)
    BY <1>0, <1>2, FollowIs
  <2>2. h \in Seq(Commits) /\ h # <<>> /\ IsPrefix(h, h)
    BY <1>0, PartsAre, HeadIs
  <2> HIDE DEF T
  <2> QED BY <1>1, <1>3, <1>4, <1>5, <2>1, <2>2, SettledStep
<1>6. CASE head' = head /\ track' = track /\ tags' = tags /\ Fault(c)
  <2>1. /\ head' = [head EXCEPT ![c] = head[c]] /\ track' = [track EXCEPT ![c] = track[c]]
        /\ tags' = [tags EXCEPT ![c] = tags[c]]
        /\ head[c] \in Seq(Commits) /\ head[c] # <<>>
        /\ track[c] \in Seq(Commits) /\ track[c] # <<>>
        /\ tags[c] \in SUBSET Tags /\ IsFiniteSet(tags[c])
    BY <1>0, <1>6, PartsAre
  <2> QED BY <1>1, <1>2, <1>3, <1>4, <1>6, <2>1, SettledStep
<1>7. \/ /\ head' = [head EXCEPT ![c] = h] /\ track' = [track EXCEPT ![c] = h]
         /\ tags' = [tags EXCEPT ![c] = T] /\ Quiet
      \/ head' = head /\ track' = track /\ tags' = tags /\ Fault(c)
  BY DEF Repull
<1> HIDE DEF h, T
<1> QED BY <1>5, <1>6, <1>7

\* A user's pull keeps what the invariant says of any server.
LEMMA UserPullKeeps ==
    ASSUME BaseInv, NEW c \in Clones, UserPull(c)
    PROVE  Keeps(c)
<1> DEFINE h == heads[branchOf[c]]
           T == Follow(c, tags[c], h)
<1>0. Typed /\ Distinct BY DEF BaseInv
<1>1. /\ cmd[c].at \in Resting /\ UNCHANGED remote /\ cmd' = cmd /\ Quiet
      /\ head' = [head EXCEPT ![c] = h] /\ track' = [track EXCEPT ![c] = h]
      /\ tags' = [tags EXCEPT ![c] = T]
  BY DEF UserPull, Quiet
<1>2. crashes = 0 => tags[c] \subseteq rtags
  BY <1>1, BeforeIs DEF Resting
<1>3. /\ cmd' \in [Clones -> CmdType] /\ \A d \in Clones \ {c} : cmd'[d] = cmd[d]
      /\ cmd'[c].at \notin {"tag", "push", "revert"} /\ (cmd'[c].at = "crashed" => crashes # 0)
  BY <1>0, <1>1 DEF Typed, BaseInv, Local, Resting
<1>4. /\ calm' \in [Clones -> BOOLEAN] /\ users' \in Nat /\ faults' \in Nat
      /\ crashes' = crashes
  BY <1>0, <1>1, CalmIs
<1>5. T \in SUBSET Tags /\ IsFiniteSet(T) /\ (crashes = 0 => T \subseteq rtags)
  BY <1>0, <1>2, FollowIs
<1>6. h \in Seq(Commits) /\ h # <<>> /\ IsPrefix(h, h)
  BY <1>0, PartsAre, HeadIs
<1> HIDE DEF T
<1> QED BY <1>1, <1>3, <1>4, <1>5, <1>6, SettledStep

\* A user's reset after a crash keeps what the invariant says of any server.
LEMMA UserResetKeeps ==
    ASSUME BaseInv, NEW c \in Clones, UserReset(c)
    PROVE  Keeps(c)
<1>0. Typed /\ Distinct BY DEF BaseInv
<1>1. /\ cmd[c].at = "crashed" /\ UNCHANGED remote /\ cmd' = cmd /\ Quiet
      /\ head' = [head EXCEPT ![c] = track[c]] /\ track' = track /\ tags' = tags
  BY DEF UserReset, Quiet
<1>2. /\ cmd' \in [Clones -> CmdType] /\ \A d \in Clones \ {c} : cmd'[d] = cmd[d]
      /\ cmd'[c].at = "crashed" /\ crashes # 0
  BY <1>0, <1>1 DEF Typed, BaseInv, Local
<1>3. /\ calm' \in [Clones -> BOOLEAN] /\ users' \in Nat /\ faults' \in Nat
      /\ crashes' = crashes
  BY <1>0, <1>1, CalmIs
<1>4. /\ track' = [track EXCEPT ![c] = track[c]] /\ tags' = [tags EXCEPT ![c] = tags[c]]
      /\ track[c] \in Seq(Commits) /\ track[c] # <<>>
      /\ tags[c] \in SUBSET Tags /\ IsFiniteSet(tags[c])
  BY <1>0, <1>1, PartsAre
<1>5. IsPrefix(track[c], heads[branchOf[c]])
  BY BeforeIs
<1> QED BY <1>1, <1>2, <1>3, <1>4, <1>5, SettledStep

\* A kill keeps what the invariant says of any server.
LEMMA CrashKeeps ==
    ASSUME BaseInv, NEW c \in Clones, Crash(c)
    PROVE  Keeps(c)
<1>0. Typed /\ Distinct BY DEF BaseInv
<1>1. /\ UNCHANGED remote /\ End(c, "crashed") /\ head' = head /\ track' = track /\ tags' = tags
      /\ calm' = [calm EXCEPT ![c] = FALSE] /\ crashes' = crashes + 1
      /\ users' = users /\ faults' = faults
  BY DEF Crash
<1>2. /\ cmd' \in [Clones -> CmdType] /\ \A d \in Clones \ {c} : cmd'[d] = cmd[d]
      /\ cmd'[c].at = "crashed"
  <2>1. "crashed" \in Stages BY DEF Stages, Resting
  <2> QED BY <1>0, <1>1, <2>1, EndIs
<1>3. /\ calm' \in [Clones -> BOOLEAN] /\ users' \in Nat /\ faults' \in Nat
      /\ crashes' \in Nat /\ crashes' # 0
  BY <1>0, <1>1 DEF Typed
<1>4. /\ head' = [head EXCEPT ![c] = head[c]] /\ track' = [track EXCEPT ![c] = track[c]]
      /\ tags' = [tags EXCEPT ![c] = tags[c]]
      /\ head[c] \in Seq(Commits) /\ head[c] # <<>>
      /\ track[c] \in Seq(Commits) /\ track[c] # <<>>
      /\ tags[c] \in SUBSET Tags /\ IsFiniteSet(tags[c])
  BY <1>0, <1>1, PartsAre
<1>5. /\ Typed' /\ Alone(c) /\ Distinct' /\ track'[c] = track[c]
      /\ heads' = heads /\ branchOf' = branchOf
  BY <1>1, <1>2, <1>3, <1>4, QuietStep
<1>6. Local(c)' /\ Undone(c)'
  BY <1>2, <1>3, <1>5, BeforeIs DEF Local, Undone, Making
<1> QED BY <1>5, <1>6 DEF Keeps

\* A user's commit keeps what the invariant says of any server.
LEMMA UserCommitKeeps ==
    ASSUME BaseInv, NEW c \in Clones, UserCommit(c)
    PROVE  Keeps(c)
<1> DEFINE b == branchOf[c]
           u == [id |-> NewId, app |-> "user", ver |-> 0, root |-> 0, from |-> NewId]
           h == Append(head[c], u)
<1>0. Typed /\ Distinct BY DEF BaseInv
<1>1. /\ cmd[c].at \in Resting /\ head[c] = heads[b]
      /\ heads' = [heads EXCEPT ![b] = h] /\ head' = [head EXCEPT ![c] = h]
      /\ track' = [track EXCEPT ![c] = head'[c]]
      /\ users' = users + 1 /\ calm' = [d \in Clones |-> calm[d] /\ d = c]
      /\ UNCHANGED setup /\ rtags' = rtags /\ tags' = tags /\ cmd' = cmd
      /\ faults' = faults /\ crashes' = crashes
  <2>1. heads' = [heads EXCEPT ![b] = Append(heads[b], u)] /\ head[c] = heads[b]
    BY DEF UserCommit
  <2>2. head' = [head EXCEPT ![c] = Append(head[c], u)]
    BY DEF UserCommit
  <2> QED BY <2>1, <2>2 DEF UserCommit, Disturb
<1>2. /\ h \in Seq(Commits) /\ h # <<>> /\ IsPrefix(head[c], h)
  <2>1. u \in Commits BY <1>0, NewIdIs DEF Commits
  <2> QED BY <1>0, <2>1, PartsAre, AppendIs
<1> HIDE DEF h, u
<1>3. track' = [track EXCEPT ![c] = h]
  BY <1>0, <1>1 DEF Typed
<1>4. /\ heads' \in [Branches -> Seq(Commits)] /\ \A a \in Branches : heads'[a] # <<>>
      /\ \A a \in Branches : IsPrefix(heads[a], heads'[a])
      /\ heads'[b] = h
  <2>1. b \in Branches /\ IsPrefix(heads[b], h) BY <1>0, <1>1, <1>2, PartsAre
  <2> QED BY <1>0, <1>1, <1>2, <2>1, HeadsPut
<1>5. /\ rtags' \subseteq Tags /\ IsFiniteSet(rtags') /\ rtags \subseteq rtags'
      /\ cmd' \in [Clones -> CmdType] /\ \A d \in Clones \ {c} : cmd'[d] = cmd[d]
      /\ users' \in Nat /\ faults' \in Nat /\ crashes' \in Nat /\ (crashes # 0 => crashes' # 0)
  BY <1>0, <1>1 DEF Typed
<1>6. calm' \in [Clones -> BOOLEAN]
  BY <1>1
<1>7. /\ tags' = [tags EXCEPT ![c] = tags[c]]
      /\ tags[c] \in SUBSET Tags /\ IsFiniteSet(tags[c])
  BY <1>0, <1>1, PartsAre
<1>8. Typed' /\ Alone(c) /\ head'[c] = h /\ track'[c] = h /\ tags'[c] = tags[c]
  BY <1>0, <1>1, <1>2, <1>3, <1>4, <1>5, <1>6, <1>7, StepIs
<1>9. Local(c)' /\ Undone(c)'
  <2>1. /\ branchOf' = branchOf /\ cmd'[c] = cmd[c]
        /\ cmd[c].at \notin {"tag", "push", "revert"} /\ (cmd[c].at = "crashed" => crashes # 0)
    BY <1>1 DEF setup, Resting, BaseInv, Local
  <2>2. crashes = 0 => tags[c] \subseteq rtags BY <2>1, BeforeIs
  <2>3. IsPrefix(h, h) BY <1>2, PrefixRefl
  <2> QED BY <1>1, <1>4, <1>8, <2>1, <2>2, <2>3 DEF Local, Undone, Making
<1>10. Distinct' BY <1>0, <1>1 DEF Distinct
<1> QED BY <1>8, <1>9, <1>10 DEF Keeps

\* The push of a stamp that has its tags, whatever becomes of it.
LEMMA PushedKeeps ==
    ASSUME BaseInv, NEW c \in Clones, cmd[c].at = "push", UNCHANGED setup,
           heads' \in [Branches -> Seq(Commits)], \A b \in Branches : heads'[b] # <<>>,
           \A b \in Branches : IsPrefix(heads[b], heads'[b]),
           rtags' \subseteq Tags, IsFiniteSet(rtags'), rtags \subseteq rtags', Distinct',
           head' = head, tags' = tags, crashes' = crashes,
           NEW k \in Seq(Commits), k # <<>>, track' = [track EXCEPT ![c] = k],
           IsPrefix(k, heads'[branchOf[c]]),
           calm' \in [Clones -> BOOLEAN], users' \in Nat, faults' \in Nat,
           \/ cmd' = [cmd EXCEPT ![c].at = "revert", ![c].err = 2]
           \/ /\ End(c, "stamped") /\ heads'[branchOf[c]] = head[c]
              /\ TagsOn(c, Last(head[c])) \subseteq rtags'
    PROVE  Keeps(c)
<1> DEFINE O == TagsOn(c, Last(head[c]))
<1>0. Typed /\ Distinct BY DEF BaseInv
<1>1. /\ head' = [head EXCEPT ![c] = head[c]] /\ tags' = [tags EXCEPT ![c] = tags[c]]
      /\ head[c] \in Seq(Commits) /\ head[c] # <<>>
      /\ tags[c] \in SUBSET Tags /\ IsFiniteSet(tags[c])
  BY <1>0, PartsAre
<1>2. /\ cmd' \in [Clones -> CmdType] /\ \A d \in Clones \ {c} : cmd'[d] = cmd[d]
  <2>1. "stamped" \in Stages BY DEF Stages, Resting
  <2> QED BY <1>0, <2>1, EndIs, ErrIs
<1>3. crashes' \in Nat /\ (crashes # 0 => crashes' # 0)
  BY <1>0 DEF Typed
<1>4. Typed' /\ Alone(c) /\ head'[c] = head[c] /\ track'[c] = k /\ tags'[c] = tags[c]
  BY <1>0, <1>1, <1>2, <1>3, StepIs
<1>5. branchOf' = branchOf BY DEF setup
<1>6. crashes = 0 => tags[c] \subseteq rtags \cup O
  BY DEF BaseInv, Undone
<1>7. CASE cmd' = [cmd EXCEPT ![c].at = "revert", ![c].err = 2]
  <2>1. /\ cmd'[c].at = "revert" /\ cmd'[c].app = cmd[c].app
        /\ cmd'[c].ver = cmd[c].ver /\ cmd'[c].root = cmd[c].root
    <3>1. 2 \in 0 .. 2 OBVIOUS
    <3> QED BY <1>0, <1>7, <3>1, ErrIs, Zenon
  <2>2. Local(c)'
    <3>1. Making(c) /\ Making(c)' BY <2>1 DEF Making
    <3> QED BY <1>4, <1>5, <2>1, <3>1, MadeIs
  <2>3. Undone(c)'
    <3>1. Names(c)' = Names(c) BY <2>1 DEF Names
    <3>2. \A t \in O : Bears(t, Names(c)) BY DEF TagsOn, Bears, Names
    <3> HIDE DEF O
    <3>3. crashes' = 0 => \A t \in tags'[c] : t \in rtags' \/ Bears(t, Names(c))
      BY <1>4, <1>6, <3>2
    <3> QED BY <2>1, <3>1, <3>3 DEF Undone
  <2> QED BY <1>4, <2>2, <2>3 DEF Keeps
<1>8. CASE /\ End(c, "stamped") /\ heads'[branchOf[c]] = head[c] /\ O \subseteq rtags'
  <2>1. cmd'[c].at = "stamped"
    <3>1. "stamped" \in Stages BY DEF Stages, Resting
    <3> QED BY <1>0, <1>8, <3>1, EndIs
  <2>2. IsPrefix(head[c], head[c]) BY <1>1, PrefixRefl
  <2>3. crashes = 0 => tags[c] \subseteq rtags' BY <1>6, <1>8
  <2> HIDE DEF O
  <2>4. IsPrefix(head'[c], heads'[branchOf'[c]]) /\ IsPrefix(track'[c], heads'[branchOf'[c]])
    BY <1>4, <1>5, <1>8, <2>2
  <2>5. Local(c)'
    BY <2>1, <2>4 DEF Local, Making
  <2>6. Undone(c)'
    BY <1>4, <2>1, <2>3 DEF Undone
  <2> QED BY <1>4, <2>5, <2>6 DEF Keeps
<1> QED BY <1>7, <1>8

\* The push keeps what the invariant says of any server.
LEMMA PushKeeps ==
    ASSUME BaseInv, NEW c \in Clones, Push(c)
    PROVE  Keeps(c)
<1> DEFINE b == branchOf[c]
<1>0. Typed /\ Distinct BY DEF BaseInv
<1>1. /\ cmd[c].at = "push" /\ UNCHANGED setup /\ head' = head /\ tags' = tags
      /\ users' = users /\ faults' = faults /\ crashes' = crashes
      /\ heads' = IF Accepted(c).branch THEN [heads EXCEPT ![b] = head[c]] ELSE heads
      /\ rtags' = rtags \cup Accepted(c).tags
      /\ track' = IF Accepted(c).branch THEN [track EXCEPT ![c] = head[c]] ELSE track
      /\ \/ Whole(c) /\ End(c, "stamped")
         \/ cmd' = [cmd EXCEPT ![c].at = "revert", ![c].err = 2]
      /\ Disturb(c) \/ UNCHANGED calm
  BY DEF Push, Land, bounds
<1>2. /\ heads' \in [Branches -> Seq(Commits)] /\ \A a \in Branches : heads'[a] # <<>>
      /\ \A a \in Branches : IsPrefix(heads[a], heads'[a])
      /\ rtags' \subseteq Tags /\ IsFiniteSet(rtags') /\ rtags \subseteq rtags'
      /\ Distinct'
      /\ Accepted(c).branch => heads'[b] = head[c]
  BY <1>0, <1>1, LandIs
<1>3. calm' \in [Clones -> BOOLEAN] /\ users' \in Nat /\ faults' \in Nat
  <2>1. calm \in [Clones -> BOOLEAN] /\ users \in Nat /\ faults \in Nat BY <1>0 DEF Typed
  <2> QED BY <1>1, <2>1 DEF Disturb
<1>4. \/ cmd' = [cmd EXCEPT ![c].at = "revert", ![c].err = 2]
      \/ /\ End(c, "stamped") /\ heads'[b] = head[c]
         /\ TagsOn(c, Last(head[c])) \subseteq rtags'
  BY <1>1, <1>2 DEF Whole
<1>5. b \in Branches /\ head[c] \in Seq(Commits) /\ head[c] # <<>>
         /\ track[c] \in Seq(Commits) /\ track[c] # <<>> /\ heads[b] \in Seq(Commits)
         /\ heads'[b] \in Seq(Commits) /\ IsPrefix(heads[b], heads'[b])
  BY <1>0, <1>2, PartsAre
<1> DEFINE k == IF Accepted(c).branch THEN head[c] ELSE track[c]
<1>6. k \in Seq(Commits) /\ k # <<>> /\ IsPrefix(k, heads'[b])
         /\ track' = [track EXCEPT ![c] = k]
  <2>1. CASE Accepted(c).branch
    BY <1>1, <1>2, <1>5, <2>1, PrefixRefl
  <2>2. CASE ~Accepted(c).branch
    <3>1. track = [track EXCEPT ![c] = track[c]] BY <1>0, PartsAre
    <3>2. IsPrefix(track[c], heads[b]) BY BeforeIs
    <3> QED BY <1>1, <1>5, <2>2, <3>1, <3>2, PrefixTrans
  <2> QED BY <2>1, <2>2
<1> HIDE DEF k
<1> QED BY <1>1, <1>2, <1>3, <1>4, <1>6, PushedKeeps

\* A push that fails keeps what the invariant says of any server.
LEMMA PushFaultKeeps ==
    ASSUME BaseInv, NEW c \in Clones, PushFault(c)
    PROVE  Keeps(c)
<1> DEFINE b == branchOf[c]
<1>0. Typed /\ Distinct BY DEF BaseInv
<1>1. /\ cmd[c].at = "push" /\ UNCHANGED setup /\ head' = head /\ tags' = tags /\ track' = track
      /\ users' = users /\ faults' = faults + 1 /\ crashes' = crashes
      /\ cmd' = [cmd EXCEPT ![c].at = "revert", ![c].err = 2]
      /\ calm' = [d \in Clones |-> FALSE]
      /\ \/ heads' = heads /\ rtags' = rtags
         \/ /\ heads' = IF Accepted(c).branch THEN [heads EXCEPT ![b] = head[c]] ELSE heads
            /\ rtags' = rtags \cup Accepted(c).tags
  BY DEF PushFault
<1>2. /\ heads' \in [Branches -> Seq(Commits)] /\ \A a \in Branches : heads'[a] # <<>>
      /\ \A a \in Branches : IsPrefix(heads[a], heads'[a])
      /\ rtags' \subseteq Tags /\ IsFiniteSet(rtags') /\ rtags \subseteq rtags'
      /\ Distinct'
  <2>1. CASE heads' = heads /\ rtags' = rtags
    <3>1. UNCHANGED remote BY <1>1, <2>1 DEF remote
    <3> QED BY <1>0, <3>1, SameRemote
  <2>2. CASE /\ heads' = IF Accepted(c).branch THEN [heads EXCEPT ![b] = head[c]] ELSE heads
             /\ rtags' = rtags \cup Accepted(c).tags
    BY <1>0, <2>2, LandIs
  <2> QED BY <1>1, <2>1, <2>2
<1>3. calm' \in [Clones -> BOOLEAN] /\ users' \in Nat /\ faults' \in Nat
  <2>1. calm \in [Clones -> BOOLEAN] /\ users \in Nat /\ faults \in Nat BY <1>0 DEF Typed
  <2> QED BY <1>1, <2>1
<1>4. track' = [track EXCEPT ![c] = track[c]] /\ track[c] \in Seq(Commits) /\ track[c] # <<>>
  BY <1>0, <1>1, PartsAre
<1>5. IsPrefix(track[c], heads'[b])
  <2>1. b \in Branches /\ heads[b] \in Seq(Commits) BY <1>0, PartsAre
  <2>2. heads'[b] \in Seq(Commits) /\ IsPrefix(heads[b], heads'[b]) BY <1>2, <2>1
  <2> QED BY <1>4, <2>1, <2>2, BeforeIs, PrefixTrans
<1> QED BY <1>1, <1>2, <1>3, <1>4, <1>5, PushedKeeps

-----------------------------------------------------------------------------
(***************************************************************************)
(* BaseInv is an invariant, whatever the server.                           *)
(***************************************************************************)

\* What a step of one clone leaves of the others.
LEMMA OthersKeep ==
    ASSUME BaseInv, NEW c \in Clones, Keeps(c)
    PROVE  BaseInv'
<1>0. Typed /\ Typed' /\ Alone(c) /\ Distinct' /\ Local(c)' /\ Undone(c)'
  BY DEF BaseInv, Keeps
<1>1. ASSUME NEW d \in Clones \ {c}
      PROVE  Local(d)' /\ Undone(d)'
  <2> DEFINE b == branchOf[d]
  <2>1. Local(d) /\ Undone(d) BY DEF BaseInv
  <2>2. /\ branchOf' = branchOf /\ head'[d] = head[d] /\ track'[d] = track[d]
        /\ tags'[d] = tags[d] /\ cmd'[d] = cmd[d]
        /\ rtags \subseteq rtags' /\ (crashes # 0 => crashes' # 0)
    BY <1>0 DEF Alone, setup
  <2>3. /\ b \in Branches /\ heads[b] \in Seq(Commits) /\ heads'[b] \in Seq(Commits)
        /\ head[d] \in Seq(Commits) /\ head[d] # <<>> /\ track[d] \in Seq(Commits)
        /\ Front(head[d]) \in Seq(Commits)
    BY <1>0, PartsAre, FrontIs DEF Typed
  <2>4. IsPrefix(heads[b], heads'[b])
    BY <1>0, <2>3 DEF Alone
  <2>5. IsPrefix(track[d], heads[b]) => IsPrefix(track[d], heads'[b])
    BY <2>3, <2>4, PrefixTrans
  <2>6. IsPrefix(head[d], heads[b]) => IsPrefix(head[d], heads'[b])
    BY <2>3, <2>4, PrefixTrans
  <2>7. IsPrefix(Front(head[d]), heads[b]) => IsPrefix(Front(head[d]), heads'[b])
    BY <2>3, <2>4, PrefixTrans
  <2>8. Local(d)'
    BY <2>1, <2>2, <2>5, <2>6, <2>7 DEF Local, Making
  <2>9. Undone(d)'
    <3>1. Names(d)' = Names(d) /\ TagsOn(d, Last(head[d]))' = TagsOn(d, Last(head[d]))
      BY <2>2 DEF Names, TagsOn
    <3> QED BY <2>1, <2>2, <3>1 DEF Undone
  <2> QED BY <2>8, <2>9
<1> QED BY <1>0, <1>1 DEF BaseInv

\* Nothing changes.
LEMMA BaseStutters ==
    ASSUME BaseInv, UNCHANGED vars
    PROVE  BaseInv'
<1>1. /\ UNCHANGED <<setup, heads, rtags, head, track, tags, cmd, crashes>>
      /\ atomic' = atomic /\ branchOf' = branchOf /\ calm' = calm /\ users' = users
      /\ faults' = faults
  BY DEF vars, setup
<1>2. Typed' BY <1>1 DEF BaseInv, Typed
<1>3. Distinct' BY <1>1 DEF BaseInv, Distinct
<1>4. \A c \in Clones : Local(c)' BY <1>1 DEF BaseInv, Local, Making
<1>5. \A c \in Clones : Undone(c)' BY <1>1 DEF BaseInv, Undone, TagsOn, Names, Bears
<1> QED BY <1>2, <1>3, <1>4, <1>5 DEF BaseInv

\* Every step.
LEMMA StepKeeps ==
    ASSUME BaseInv, NEW c \in Clones, Start(c) \/ Step(c) \/ Crash(c) \/ User(c)
    PROVE  Keeps(c)
BY StartKeeps, FetchKeeps, PullFirstKeeps, StampVersionKeeps, PublishCommitKeeps,
   CreateTagsKeeps, PushKeeps, PushFaultKeeps, RevertKeeps, RefetchKeeps, RepullKeeps,
   CrashKeeps, UserCommitKeeps, UserPullKeeps, UserResetKeeps DEF Step, User

\* Every step keeps the part of the invariant that holds of any server.
LEMMA BaseNext ==
    ASSUME BaseInv, [Next]_vars
    PROVE  BaseInv'
<1>1. CASE UNCHANGED vars BY <1>1, BaseStutters
<1>2. ASSUME NEW c \in Clones, Start(c) \/ Step(c) \/ Crash(c) \/ User(c)
      PROVE  BaseInv'
  BY <1>2, StepKeeps, OthersKeep
<1> QED BY <1>1, <1>2 DEF Next

\* What init_repo and _init_app leave.
LEMMA InitialIs ==
    /\ InitBranch \in Seq(Commits) /\ InitBranch # <<>>
    /\ InitTags \subseteq Tags /\ IsFiniteSet(InitTags)
    /\ \A t, u \in InitTags : Named(t, u.kind, u.n) => t = u
    /\ \A t \in InitTags : t.on \in CommitsOf(InitBranch)
    /\ \A x \in CommitsOf(InitBranch) : ~IsVersion(x)
    /\ HasRoot => \E t \in InitTags : t.kind = Root
<1> DEFINE n == Cardinality(Apps)
           order == SetToSeq(Apps)
<1>1. n \in Nat
  BY StampAssumption, FS_CardinalityType
<1>2. order \in [1 .. n -> Apps] /\ \A i, j \in 1 .. n : order[i] = order[j] => i = j
  <2>1. PICK m \in Nat : ExistsBijection(1 .. m, Apps)
    BY StampAssumption, FS_NatBijection
  <2>2. m = n BY <2>1, FS_CountingElements
  <2>3. PICK f : f \in Bijection(1 .. n, Apps) BY <2>1, <2>2 DEF ExistsBijection
  <2>4. f \in [1 .. n -> Apps] /\ IsInjective(f)
    BY <2>3 DEF Bijection, Injection, IsInjective
  <2>5. order \in [1 .. n -> Apps] /\ IsInjective(order)
    BY <2>4 DEF SetToSeq
  <2> HIDE DEF order
  <2> QED BY <2>5 DEF IsInjective
<1>3. Len(order) = n
  <2> HIDE DEF order, n
  <2> QED BY <1>1, <1>2
<1>4. \A i \in Nat : InitCommit(i) \in Commits /\ ~IsVersion(InitCommit(i))
  BY StampAssumption DEF InitCommit, Commits, IsVersion
<1>5. /\ InitBranch \in Seq(Commits) /\ Len(InitBranch) = n + 1
      /\ \A i \in 1 .. n + 1 : InitBranch[i] = InitCommit(i - 1)
  <2> HIDE DEF n
  <2>1. InitBranch = [i \in 1 .. n + 1 |-> InitCommit(i - 1)] BY DEF InitBranch, n
  <2>2. InitBranch \in [1 .. n + 1 -> Commits] BY <1>1, <1>4, <2>1
  <2> QED BY <1>1, <2>1, <2>2
<1>6. InitBranch # <<>>
  <2> HIDE DEF n
  <2> QED BY <1>1, <1>5
<1>7. \A i \in 1 .. n : InitCommit(i) \in CommitsOf(InitBranch)
  <2> HIDE DEF n
  <2>1. \A i \in 1 .. n : i + 1 \in 1 .. Len(InitBranch) /\ InitBranch[i + 1] = InitCommit(i)
    BY <1>1, <1>5
  <2> QED BY <2>1 DEF CommitsOf
<1>8. \A x \in CommitsOf(InitBranch) : ~IsVersion(x)
  <2> HIDE DEF n
  <2>1. \A i \in 1 .. n + 1 : ~IsVersion(InitBranch[i])
    BY <1>1, <1>4, <1>5
  <2> QED BY <1>5, <2>1 DEF CommitsOf
<1> DEFINE A == [i \in 1 .. n |-> [kind |-> order[i], n |-> 0, on |-> InitCommit(i)]]
           R == [i \in 1 .. n |-> [kind |-> Root, n |-> i - 1, on |-> InitCommit(i)]]
           D == IF HasRoot THEN 1 .. n ELSE {}
<1>9. InitTags = {A[i] : i \in 1 .. n} \cup {R[i] : i \in D}
  BY <1>3 DEF InitTags
<1>10. IsFiniteSet({A[i] : i \in 1 .. n}) /\ IsFiniteSet({R[i] : i \in 1 .. n})
  <2>1. IsFiniteSet(1 .. n)
    <3>1. 1 \in Int /\ n \in Int BY <1>1
    <3> QED BY <3>1, FS_Interval, Zenon
  <2>2. A = [i \in 1 .. n |-> A[i]] /\ R = [i \in 1 .. n |-> R[i]] OBVIOUS
  <2> HIDE DEF A, R, n
  <2> QED BY <2>1, <2>2, ImageFinite, Zenon
<1>11. IsFiniteSet(InitTags)
  <2>1. {R[i] : i \in D} \in SUBSET {R[i] : i \in 1 .. n} OBVIOUS
  <2>2. IsFiniteSet({R[i] : i \in D}) BY <1>10, <2>1, FS_Subset, Zenon
  <2> HIDE DEF A, R, n, D
  <2> QED BY <1>9, <1>10, <2>2, FS_Union
<1>12. \A i \in 1 .. n : /\ A[i] \in Tags /\ A[i].kind \in Apps /\ A[i].on = InitCommit(i)
                         /\ R[i] \in Tags /\ R[i].kind = Root /\ R[i].on = InitCommit(i)
                         /\ A[i].kind = order[i] /\ R[i].n = i - 1
  <2> HIDE DEF n, order
  <2> QED BY <1>1, <1>2, <1>4 DEF Tags
<1>13. D \subseteq 1 .. n OBVIOUS
<1> HIDE DEF A, R, n, D, order
<1>14. InitTags \subseteq Tags /\ \A t \in InitTags : t.on \in CommitsOf(InitBranch)
  BY <1>7, <1>9, <1>12, <1>13
<1>15. ASSUME NEW t \in InitTags, NEW u \in InitTags, Named(t, u.kind, u.n)
       PROVE  t = u
  <2>0. t.kind = u.kind /\ t.n = u.n /\ Root \notin Apps BY <1>15, StampAssumption DEF Named
  <2>1. CASE t.kind = Root
    <3>1. PICK i \in 1 .. n, j \in 1 .. n : t = R[i] /\ u = R[j]
      BY <1>9, <1>12, <1>13, <2>0, <2>1
    <3>2. i = j BY <1>1, <1>12, <2>0, <3>1
    <3> QED BY <3>1, <3>2
  <2>2. CASE t.kind # Root
    <3>1. PICK i \in 1 .. n, j \in 1 .. n : t = A[i] /\ u = A[j]
      BY <1>9, <1>12, <1>13, <2>0, <2>2
    <3>2. i = j BY <1>2, <1>12, <2>0, <3>1
    <3> QED BY <3>1, <3>2
  <2> QED BY <2>1, <2>2
<1>16. HasRoot => \E t \in InitTags : t.kind = Root
  <2>1. n # 0 BY StampAssumption, FS_EmptySet DEF n
  <2>2. 1 \in 1 .. n BY <1>1, <2>1
  <2>3. HasRoot => R[1] \in InitTags BY <1>9, <2>2 DEF D
  <2> QED BY <1>12, <2>2, <2>3
<1> QED BY <1>5, <1>6, <1>8, <1>11, <1>14, <1>15, <1>16

\* It holds in the beginning.
LEMMA BaseInit ==
    ASSUME Init
    PROVE  BaseInv
<1> DEFINE a == CHOOSE app \in Apps : TRUE
           r == Rest("idle", a, FALSE)
<1>1. r \in CmdType /\ r.at = "idle"
  <2>1. a \in Apps BY StampAssumption
  <2>2. "idle" \in Stages BY DEF Stages, Resting
  <2> HIDE DEF a
  <2> QED BY <2>1, <2>2, RestIs
<1>2. cmd = [c \in Clones |-> r] BY DEF Init
<1> HIDE DEF r
<1>3. Typed
  BY <1>1, <1>2, InitialIs, StampAssumption DEF Init, Typed
<1>4. Distinct
  BY InitialIs DEF Init, Distinct
<1>5. ASSUME NEW c \in Clones
      PROVE  Local(c) /\ Undone(c)
  <2>1. branchOf[c] \in Branches /\ cmd[c].at = "idle"
    BY <1>1, <1>2, <1>3, PartsAre
  <2>2. /\ head[c] = InitBranch /\ track[c] = InitBranch /\ heads[branchOf[c]] = InitBranch
        /\ tags[c] = rtags
    BY <2>1 DEF Init
  <2>3. IsPrefix(InitBranch, InitBranch) BY InitialIs, PrefixRefl
  <2> QED BY <2>1, <2>2, <2>3 DEF Local, Undone, Making
<1> QED BY <1>3, <1>4, <1>5 DEF BaseInv

\* The parts of the invariant that need no atomic push hold in every state.
THEOREM BaseInvariance == Spec => []BaseInv
<1>1. Init => BaseInv BY BaseInit
<1>2. BaseInv /\ [Next]_vars => BaseInv' BY BaseNext
<1> QED BY <1>1, <1>2, PTL DEF Spec

\* Type correctness: the branches, the tags and what a command holds.
THEOREM TypeCorrect == Spec => []TypeOK
<1>1. BaseInv => TypeOK
  BY DEF BaseInv, Typed, TypeOK, CmdType
<1> QED BY <1>1, BaseInvariance, PTL

\* A clone none of whose commands was killed has, between commands, no commit and
\* no tag that the remote does not have (_revert, publish_stamp), on any server,
\* however the pushes of the clones interleave and fail.
THEOREM RolledBackAlways == Spec => []RolledBack
<1>1. BaseInv => RolledBack
  BY DEF BaseInv, Local, Undone, RolledBack, Resting, Making
<1> QED BY <1>1, BaseInvariance, PTL

-----------------------------------------------------------------------------
(***************************************************************************)
(* An atomic push.                                                         *)
(***************************************************************************)

Unmoved == heads' = heads /\ rtags' = rtags

\* The push of c arrived.
Landed(c) ==
    /\ cmd[c].at = "push" /\ IsPrefix(heads[branchOf[c]], head[c])
    /\ heads' = [heads EXCEPT ![branchOf[c]] = head[c]]
    /\ rtags' = rtags \cup TagsOn(c, Last(head[c]))
    /\ \A t \in TagsOn(c, Last(head[c])) : \A u \in rtags : ~Named(u, t.kind, t.n)

\* The remote changes by a user's commit, or by a push that arrived as a whole.
LEMMA RemoteSteps ==
    ASSUME BaseInv, atomic, NEW c \in Clones, Start(c) \/ Step(c) \/ Crash(c) \/ User(c)
    PROVE  Unmoved \/ UserCommit(c) \/ Landed(c)
<1>0. Typed BY DEF BaseInv
<1>1. ASSUME cmd[c].at = "push",
             heads' = IF Accepted(c).branch THEN [heads EXCEPT ![branchOf[c]] = head[c]] ELSE heads,
             rtags' = rtags \cup Accepted(c).tags
      PROVE  Unmoved \/ Landed(c)
  <2>1. CASE Accepted(c).branch
    <3>1. /\ Accepted(c).tags = TagsOn(c, Last(head[c]))
          /\ IsPrefix(heads[branchOf[c]], head[c])
          /\ \A t \in Accepted(c).tags : \A u \in rtags : ~Named(u, t.kind, t.n)
      BY <1>0, <2>1, AcceptedIs
    <3> QED BY <1>1, <2>1, <3>1 DEF Landed
  <2>2. CASE ~Accepted(c).branch
    <3>1. Accepted(c).tags = {} BY <1>0, <2>2, AcceptedIs
    <3> QED BY <1>1, <2>2, <3>1 DEF Unmoved
  <2> QED BY <2>1, <2>2
<1>2. CASE Push(c)
  BY <1>1, <1>2 DEF Push, Land
<1>3. CASE PushFault(c)
  BY <1>1, <1>3 DEF PushFault, Unmoved
<1>4. CASE UserCommit(c)
  BY <1>4
<1>5. CASE ~(Push(c) \/ PushFault(c) \/ UserCommit(c))
  <2>1. UNCHANGED remote
    BY <1>5 DEF Step, User, Start, Crash, Fetch, PullFirst, StampVersion, PublishCommit,
                CreateTags, Revert, Refetch, Repull, UserPull, UserReset
  <2> QED BY <2>1 DEF remote, Unmoved
<1> QED BY <1>2, <1>3, <1>4, <1>5

\* A user's commit.
Fresh == [id |-> NewId, app |-> "user", ver |-> 0, root |-> 0, from |-> NewId]

\* What is published by each.
LEMMA PublishedSteps ==
    ASSUME BaseInv, NEW c \in Clones
    PROVE  /\ Unmoved => Published' = Published
           /\ UserCommit(c) => Published' = Published \cup {Fresh} /\ Fresh \notin InUse
           /\ Landed(c) => Published' = Published \cup {Last(head[c])}
                              /\ CommitsOf(head[c]) \subseteq Published'
<1> DEFINE b == branchOf[c]
<1>0. Typed /\ b \in Branches /\ heads \in [Branches -> Seq(Commits)]
  BY PartsAre DEF BaseInv, Typed
<1>1. ASSUME Unmoved PROVE Published' = Published
  BY <1>1 DEF Unmoved, Published
<1>2. ASSUME NEW x, NEW h, heads' = [heads EXCEPT ![b] = h],
             CommitsOf(h) = CommitsOf(heads[b]) \cup {x}
      PROVE  Published' = Published \cup {x}
  <2>1. heads'[b] = h /\ \A a \in Branches \ {b} : heads'[a] = heads[a]
    BY <1>0, <1>2
  <2>2. \A a \in Branches : CommitsOf(heads'[a]) =
           IF a = b THEN CommitsOf(heads[a]) \cup {x} ELSE CommitsOf(heads[a])
    BY <1>2, <2>1
  <2>3. Published' = UNION {CommitsOf(heads'[a]) : a \in Branches}
    BY DEF Published
  <2> QED BY <1>0, <2>2, <2>3 DEF Published
<1>3. ASSUME UserCommit(c)
      PROVE  Published' = Published \cup {Fresh} /\ Fresh \notin InUse
  <2>1. Fresh \in Commits /\ Fresh \notin InUse
    BY <1>0, NewIdIs DEF Fresh, Commits
  <2>2. heads' = [heads EXCEPT ![b] = Append(heads[b], Fresh)]
    BY <1>3 DEF UserCommit, Fresh
  <2>3. CommitsOf(Append(heads[b], Fresh)) = CommitsOf(heads[b]) \cup {Fresh}
    BY <1>0, <2>1, CommitsOfIs
  <2> QED BY <1>2, <2>1, <2>2, <2>3
<1>4. ASSUME Landed(c)
      PROVE  /\ Published' = Published \cup {Last(head[c])}
             /\ CommitsOf(head[c]) \subseteq Published'
  <2>1. /\ heads' = [heads EXCEPT ![b] = head[c]] /\ IsPrefix(heads[b], head[c])
        /\ IsPrefix(Front(head[c]), heads[b])
    BY <1>4 DEF Landed, BaseInv, Local, Making
  <2>2. /\ head[c] \in Seq(Commits) /\ head[c] # <<>> /\ heads[b] \in Seq(Commits)
        /\ Front(head[c]) \in Seq(Commits)
    BY <1>0, PartsAre, FrontIs
  <2>3. /\ CommitsOf(head[c]) = CommitsOf(Front(head[c])) \cup {Last(head[c])}
        /\ CommitsOf(Front(head[c])) \subseteq CommitsOf(heads[b])
        /\ CommitsOf(heads[b]) \subseteq CommitsOf(head[c])
    BY <2>1, <2>2, CommitsOfIs
  <2>4. CommitsOf(head[c]) = CommitsOf(heads[b]) \cup {Last(head[c])}
    BY <2>3
  <2>5. Published' = Published \cup {Last(head[c])}
    BY <1>2, <2>1, <2>4
  <2>6. CommitsOf(heads[b]) \subseteq Published
    BY <1>0 DEF Published
  <2> QED BY <2>4, <2>5, <2>6
<1> QED BY <1>1, <1>3, <1>4

\* The tags of a version commit are its names.
LEMMA LandedTags ==
    ASSUME BaseInv, NEW c \in Clones, Landed(c)
    PROVE  LET x == Last(head[c])
           IN /\ x \in Commits /\ IsVersion(x) /\ x.app # Root
              /\ x.app = cmd[c].app /\ x.ver = cmd[c].ver /\ x.root = cmd[c].root
              /\ TagsOn(c, x) = {[kind |-> x.app, n |-> x.ver, on |-> x]} \cup
                    (IF HasRoot THEN {[kind |-> Root, n |-> x.root, on |-> x]} ELSE {})
<1> DEFINE x == Last(head[c])
<1>1. x \in Commits /\ cmd[c] \in CmdType BY PartsAre DEF BaseInv
<1>2. x.app = cmd[c].app /\ x.ver = cmd[c].ver /\ x.root = cmd[c].root
  BY DEF BaseInv, Local, Making, Landed
<1>3. cmd[c].app \in Apps BY <1>1 DEF CmdType
<1> HIDE DEF x
<1>4. IsVersion(x) /\ x.app # Root BY <1>2, <1>3, StampAssumption DEF IsVersion
<1>5. TagsOn(c, x) = {[kind |-> x.app, n |-> x.ver, on |-> x]} \cup
                    (IF HasRoot THEN {[kind |-> Root, n |-> x.root, on |-> x]} ELSE {})
  BY <1>1, <1>2, TagsOnIs
<1> QED BY <1>1, <1>2, <1>4, <1>5 DEF x

\* On an atomic server commits and tags are published together.
LEMMA WholeNext ==
    ASSUME BaseInv, PublishedWhole, [Next]_vars
    PROVE  PublishedWhole'
<1>1. CASE UNCHANGED vars
  BY <1>1 DEF vars, PublishedWhole, Published
<1>2. ASSUME NEW c \in Clones, Start(c) \/ Step(c) \/ Crash(c) \/ User(c)
      PROVE  PublishedWhole'
  <2>0. atomic' = atomic
    BY <1>2, StepKeeps DEF Keeps, Alone, setup
  <2> SUFFICES ASSUME atomic
               PROVE  PublishedWhole'
    BY <2>0 DEF PublishedWhole
  <2>1. CASE Unmoved
    BY <2>0, <2>1, PublishedSteps DEF Unmoved, PublishedWhole
  <2>2. CASE UserCommit(c)
    <3>1. Published' = Published \cup {Fresh} /\ ~IsVersion(Fresh) /\ rtags' = rtags
      BY <2>2, PublishedSteps, StampAssumption DEF Fresh, IsVersion, UserCommit
    <3> QED BY <3>1 DEF PublishedWhole
  <2>3. CASE Landed(c)
    <3> DEFINE x == Last(head[c])
    <3>1. Published' = Published \cup {x} /\ rtags' = rtags \cup TagsOn(c, x)
      BY <2>3, PublishedSteps DEF Landed
    <3>2. TagsOn(c, x) = {[kind |-> x.app, n |-> x.ver, on |-> x]} \cup
                    (IF HasRoot THEN {[kind |-> Root, n |-> x.root, on |-> x]} ELSE {})
      BY <2>3, LandedTags
    <3> HIDE DEF x
    <3>3. \A t \in rtags' : t.on \in Published'
      BY <3>1, <3>2 DEF PublishedWhole
    <3>4. \A y \in Published' : IsVersion(y) =>
             /\ [kind |-> y.app, n |-> y.ver, on |-> y] \in rtags'
             /\ HasRoot => [kind |-> Root, n |-> y.root, on |-> y] \in rtags'
      BY <3>1, <3>2 DEF PublishedWhole
    <3> QED BY <3>3, <3>4 DEF PublishedWhole
  <2> QED BY <1>2, <2>1, <2>2, <2>3, RemoteSteps
<1> QED BY <1>1, <1>2 DEF Next

\* What is published in the beginning is whole.
LEMMA WholeInit ==
    ASSUME Init
    PROVE  PublishedWhole
<1>1. Published = CommitsOf(InitBranch)
  BY StampAssumption DEF Init, Published
<1> QED BY <1>1, InitialIs DEF Init, PublishedWhole

\* On an atomic server a version is published as a whole, whichever pushes are
\* refused, lost or answered too late: commit and tags, or nothing
\* (_push_published_refs).
THEOREM PublishedWholeAlways == Spec => []PublishedWhole
<1>1. Init => PublishedWhole BY WholeInit
<1>2. BaseInv /\ PublishedWhole /\ [Next]_vars => PublishedWhole' BY WholeNext
<1> QED BY <1>1, <1>2, BaseInvariance, PTL DEF Spec

\* On an atomic server a version of an app, and one of the root app, names one
\* commit, however many clones race for it on however many branches.
THEOREM OneCommitPerVersionAlways == Spec => [](atomic => OneCommitPerVersion)
<1>1. BaseInv /\ PublishedWhole => (atomic => OneCommitPerVersion)
  <2> SUFFICES ASSUME BaseInv, PublishedWhole, atomic,
                      NEW x \in Published, NEW y \in Published,
                      IsVersion(x), IsVersion(y), x # y
               PROVE  (x.app = y.app => x.ver # y.ver) /\ (HasRoot => x.root # y.root)
    BY DEF OneCommitPerVersion
  <2> DEFINE X == [kind |-> x.app, n |-> x.ver, on |-> x]
             Y == [kind |-> y.app, n |-> y.ver, on |-> y]
             U == [kind |-> Root, n |-> x.root, on |-> x]
             V == [kind |-> Root, n |-> y.root, on |-> y]
  <2>1. X \in rtags /\ Y \in rtags /\ X # Y /\ U # V /\ (HasRoot => U \in rtags /\ V \in rtags)
    BY DEF PublishedWhole
  <2>2. /\ x.app = y.app /\ x.ver = y.ver => Named(X, Y.kind, Y.n)
        /\ x.root = y.root => Named(U, V.kind, V.n)
    BY DEF Named
  <2> HIDE DEF X, Y, U, V
  <2> QED BY <2>1, <2>2 DEF BaseInv, Distinct
<1> QED BY <1>1, BaseInvariance, PublishedWholeAlways, PTL

-----------------------------------------------------------------------------
(***************************************************************************)
(* What a clone knows of the versions, on an atomic server.                *)
(***************************************************************************)

\* More tags, fewer commits.
LEMMA KnownMore ==
    ASSUME NEW S, NEW T, NEW s, NEW t, KnownIn(s, S), s \subseteq t, T \subseteq S
    PROVE  KnownIn(t, T)
BY DEF KnownIn

\* A clone that has the tags of the published commits knows them.
LEMMA KnownPublished ==
    ASSUME PublishedWhole, atomic, NEW S \in SUBSET Published, NEW ts,
           \A t \in rtags : t.on \in S => \E u \in ts : Named(u, t.kind, t.n)
    PROVE  KnownIn(ts, S)
<1> SUFFICES ASSUME NEW x \in S, IsVersion(x)
             PROVE  \E u \in ts : Named(u, x.app, x.ver)
  BY DEF KnownIn
<1>1. [kind |-> x.app, n |-> x.ver, on |-> x] \in rtags BY DEF PublishedWhole
<1> QED BY <1>1

\* What is on the branch, and what of it a clone has.
LEMMA OnBranch ==
    ASSUME Typed, NEW c \in Clones
    PROVE  /\ CommitsOf(heads[branchOf[c]]) \subseteq Published
           /\ IsPrefix(head[c], heads[branchOf[c]]) => CommitsOf(head[c]) \subseteq Published
           /\ IsPrefix(track[c], heads[branchOf[c]]) => CommitsOf(track[c]) \subseteq Published
<1>1. branchOf[c] \in Branches /\ heads[branchOf[c]] \in Seq(Commits)
         /\ head[c] \in Seq(Commits) /\ track[c] \in Seq(Commits)
  BY PartsAre
<1>2. CommitsOf(heads[branchOf[c]]) \subseteq Published
  BY <1>1 DEF Published
<1> QED BY <1>1, <1>2, CommitsOfIs

\* The versions of what is checked out as it was published are known.
LEMMA HeadKnown ==
    ASSUME BaseInv, NEW c \in Clones, Known(c),
           \/ cmd[c].at \notin {"tag", "crashed"}
           \/ cmd[c].at = "crashed" /\ IsPrefix(head[c], heads[branchOf[c]])
    PROVE  KnownIn(tags[c], CommitsOf(head[c]))
BY OnBranch DEF BaseInv, Known

\* A clone that holds no version commit of its own.
LEMMA SeenIs ==
    ASSUME NEW c \in Clones, cmd'[c].at \notin {"commit", "tag", "push", "revert"},
           KnownIn(tags'[c], CommitsOf(track'[c])), KnownIn(tags'[c], CommitsOf(head'[c]))
    PROVE  Known(c)' /\ Above(c)'
BY DEF Known, Above, Making, KnownIn, CommitsOf, IsVersion

\* The start of a stamp leaves the clone knowing the versions it has, and
\* stamping above them.
LEMMA StartSees ==
    ASSUME BaseInv, NEW c \in Clones, Known(c), Start(c)
    PROVE  Known(c)' /\ Above(c)'
<1>0. Typed /\ cmd \in [Clones -> CmdType] BY DEF BaseInv, Typed
<1>1. /\ cmd[c].at \in Resting /\ ~Outgoing(c) /\ head' = head /\ track' = track /\ tags' = tags
  BY DEF Start
<1>2. cmd'[c].at = "fetch" BY <1>0 DEF Start
<1>3. IsPrefix(head[c], heads[branchOf[c]])
  <2>1. IsPrefix(head[c], track[c]) /\ IsPrefix(track[c], heads[branchOf[c]])
    BY <1>1, BeforeIs DEF Outgoing
  <2> QED BY <1>0, <2>1, PartsAre, PrefixTrans
<1>4. KnownIn(tags[c], CommitsOf(head[c])) BY <1>1, <1>3, HeadKnown DEF Resting
<1>5. KnownIn(tags[c], CommitsOf(track[c])) BY DEF Known
<1> QED BY <1>1, <1>2, <1>4, <1>5, SeenIs

\* The tags that a fetch and a pull bring.
LEMMA FetchedKnown ==
    ASSUME Typed, PublishedWhole, atomic, NEW c \in Clones
    PROVE  LET h == heads[branchOf[c]]
           IN /\ KnownIn(Fetched(c), CommitsOf(h))
              /\ KnownIn(Follow(c, tags[c], h), CommitsOf(h))
              /\ \A S : KnownIn(tags[c], S) => /\ KnownIn(Fetched(c), S)
                                               /\ KnownIn(Follow(c, tags[c], h), S)
<1> DEFINE h == heads[branchOf[c]]
<1>1. CommitsOf(h) \in SUBSET Published BY OnBranch
<1>2. \A t \in rtags : \E u \in Fetched(c) : Named(u, t.kind, t.n) BY FetchedIs
<1>3. \A t \in rtags : t.on \in CommitsOf(h) =>
         \E u \in Follow(c, tags[c], h) : Named(u, t.kind, t.n)
  BY FollowIs
<1>4. tags[c] \subseteq Fetched(c) /\ tags[c] \subseteq Follow(c, tags[c], h)
  BY FetchedIs, FollowIs
<1>5. KnownIn(Fetched(c), CommitsOf(h)) BY <1>1, <1>2, KnownPublished
<1>6. KnownIn(Follow(c, tags[c], h), CommitsOf(h)) BY <1>1, <1>3, KnownPublished
<1>7. \A S : KnownIn(tags[c], S) => KnownIn(Fetched(c), S) /\ KnownIn(Follow(c, tags[c], h), S)
  BY <1>4 DEF KnownIn
<1> QED BY <1>5, <1>6, <1>7

\* A step that leaves what is checked out and known, or gets it from the remote
\* with its tags.
LEMMA GetSees ==
    ASSUME BaseInv, PublishedWhole, atomic, NEW c \in Clones,
           KnownIn(tags[c], CommitsOf(head[c])), KnownIn(tags[c], CommitsOf(track[c])),
           cmd'[c].at \notin {"commit", "tag", "push", "revert"},
           LET h == heads[branchOf[c]]
           IN \/ tags'[c] = tags[c] /\ head'[c] \in {head[c], track[c]} /\ track'[c] = track[c]
              \/ /\ tags'[c] \in {Fetched(c), Follow(c, tags[c], h)}
                 /\ head'[c] \in {head[c], h} /\ track'[c] \in {track[c], h}
    PROVE  Known(c)' /\ Above(c)'
<1> DEFINE h == heads[branchOf[c]]
<1>1. CASE tags'[c] = tags[c] /\ head'[c] \in {head[c], track[c]} /\ track'[c] = track[c]
  BY <1>1, SeenIs
<1>2. CASE /\ tags'[c] \in {Fetched(c), Follow(c, tags[c], h)}
           /\ head'[c] \in {head[c], h} /\ track'[c] \in {track[c], h}
  <2>1. /\ KnownIn(tags'[c], CommitsOf(h)) /\ KnownIn(tags'[c], CommitsOf(head[c]))
        /\ KnownIn(tags'[c], CommitsOf(track[c]))
    BY <1>2, FetchedKnown DEF BaseInv
  <2> QED BY <1>2, <2>1, SeenIs
<1> QED BY <1>1, <1>2

\* The cached fetch (perform_cached_fetch) leaves the clone knowing the
\* versions it has, and stamping above them.
LEMMA FetchSees ==
    ASSUME BaseInv, PublishedWhole, atomic, NEW c \in Clones, Known(c), Fetch(c)
    PROVE  Known(c)' /\ Above(c)'
<1> DEFINE h == heads[branchOf[c]]
<1>0. /\ Typed /\ track \in [Clones -> Seq(Commits)] /\ tags \in [Clones -> SUBSET Tags]
  BY DEF BaseInv, Typed
<1>1. cmd[c].at = "fetch" /\ head' = head BY DEF Fetch
<1>2. KnownIn(tags[c], CommitsOf(head[c])) /\ KnownIn(tags[c], CommitsOf(track[c]))
  BY <1>1, HeadKnown DEF Known
<1>3. \/ tags'[c] = tags[c] /\ track'[c] = track[c]
      \/ tags'[c] = Fetched(c) /\ track'[c] = h
  BY <1>0 DEF Fetch
<1>4. cmd'[c].at \in {"pull", "stamp", "failed"}
  <2> DEFINE to == IF cmd[c].pull THEN "pull" ELSE "stamp"
  <2>1. to \in Stages /\ "failed" \in Stages /\ to \in {"pull", "stamp"} BY DEF Stages, Resting
  <2>2. Go(c, to) \/ End(c, "failed") BY DEF Fetch
  <2> HIDE DEF to
  <2> QED BY <1>0, <2>1, <2>2, GoIs, EndIs
<1> QED BY <1>1, <1>2, <1>3, <1>4, GetSees

\* The pull before the first attempt (_retrieve_stamp_updates) leaves the
\* clone knowing the versions it has, and stamping above them.
LEMMA PullFirstSees ==
    ASSUME BaseInv, PublishedWhole, atomic, NEW c \in Clones, Known(c), PullFirst(c)
    PROVE  Known(c)' /\ Above(c)'
<1> DEFINE h == heads[branchOf[c]]
<1>0. /\ Typed /\ track \in [Clones -> Seq(Commits)] /\ tags \in [Clones -> SUBSET Tags]
      /\ head \in [Clones -> Seq(Commits)]
  BY DEF BaseInv, Typed
<1>1. cmd[c].at = "pull" BY DEF PullFirst
<1>2. KnownIn(tags[c], CommitsOf(head[c])) /\ KnownIn(tags[c], CommitsOf(track[c]))
  BY <1>1, HeadKnown DEF Known
<1>3. \/ tags'[c] = tags[c] /\ track'[c] = track[c] /\ head'[c] = head[c]
      \/ tags'[c] = Fetched(c) /\ track'[c] = h /\ head'[c] \in {head[c], h}
  BY <1>0 DEF PullFirst
<1>4. cmd'[c].at \in {"stamp", "failed"}
  <2>1. "stamp" \in Stages /\ "failed" \in Stages BY DEF Stages, Resting
  <2>2. Go(c, "stamp") \/ End(c, "failed") BY DEF PullFirst
  <2> QED BY <1>0, <2>1, <2>2, GoIs, EndIs
<1> QED BY <1>2, <1>3, <1>4, GetSees

\* The fetch before a retry leaves the clone knowing the versions it has, and
\* stamping above them.
LEMMA RefetchSees ==
    ASSUME BaseInv, PublishedWhole, atomic, NEW c \in Clones, Known(c), Refetch(c)
    PROVE  Known(c)' /\ Above(c)'
<1> DEFINE h == heads[branchOf[c]]
<1>0. /\ Typed /\ track \in [Clones -> Seq(Commits)] /\ tags \in [Clones -> SUBSET Tags]
      /\ cmd \in [Clones -> CmdType]
  BY DEF BaseInv, Typed
<1>1. cmd[c].at = "refetch" /\ head' = head BY DEF Refetch
<1>2. KnownIn(tags[c], CommitsOf(head[c])) /\ KnownIn(tags[c], CommitsOf(track[c]))
  BY <1>1, HeadKnown DEF Known
<1>3. \/ tags'[c] = tags[c] /\ track'[c] = track[c]
      \/ tags'[c] = Fetched(c) /\ track'[c] = h
  BY <1>0 DEF Refetch
<1>4. cmd'[c].at \in {"stamp", "repull", "failed"}
  <2>1. "repull" \in Stages /\ "failed" \in Stages BY DEF Stages, Resting
  <2>2. CASE Go(c, "repull") \/ End(c, "failed") BY <1>0, <2>1, <2>2, GoIs, EndIs
  <2>3. CASE cmd' = [cmd EXCEPT ![c].at = "stamp", ![c].base = cmd[c].ver,
                                ![c].orv = IF HasRoot THEN cmd[c].root ELSE None]
    BY <1>0, <2>3 DEF CmdType
  <2> QED BY <2>2, <2>3 DEF Refetch
<1> QED BY <1>1, <1>2, <1>3, <1>4, GetSees

\* The pull before a retry leaves the clone knowing the versions it has, and
\* stamping above them.
LEMMA RepullSees ==
    ASSUME BaseInv, PublishedWhole, atomic, NEW c \in Clones, Known(c), Repull(c)
    PROVE  Known(c)' /\ Above(c)'
<1> DEFINE h == heads[branchOf[c]]
<1>0. /\ Typed /\ track \in [Clones -> Seq(Commits)] /\ tags \in [Clones -> SUBSET Tags]
      /\ head \in [Clones -> Seq(Commits)]
  BY DEF BaseInv, Typed
<1>1. cmd[c].at = "repull" BY DEF Repull
<1>2. KnownIn(tags[c], CommitsOf(head[c])) /\ KnownIn(tags[c], CommitsOf(track[c]))
  BY <1>1, HeadKnown DEF Known
<1>3. \/ tags'[c] = tags[c] /\ track'[c] = track[c] /\ head'[c] = head[c]
      \/ tags'[c] = Follow(c, tags[c], h) /\ track'[c] = h /\ head'[c] = h
  BY <1>0 DEF Repull
<1>4. cmd'[c].at = "stamp"
  <2>1. "stamp" \in Stages BY DEF Stages
  <2> QED BY <1>0, <2>1, GoIs DEF Repull
<1> QED BY <1>2, <1>3, <1>4, GetSees

\* A user's pull leaves the clone knowing the versions it has, and stamping
\* above them.
LEMMA UserPullSees ==
    ASSUME BaseInv, PublishedWhole, atomic, NEW c \in Clones, Known(c), UserPull(c)
    PROVE  Known(c)' /\ Above(c)'
<1> DEFINE h == heads[branchOf[c]]
<1>0. /\ Typed /\ track \in [Clones -> Seq(Commits)] /\ tags \in [Clones -> SUBSET Tags]
      /\ head \in [Clones -> Seq(Commits)]
  BY DEF BaseInv, Typed
<1>1. /\ cmd[c].at \in Resting /\ IsPrefix(head[c], h) /\ cmd' = cmd
      /\ tags'[c] = Follow(c, tags[c], h) /\ track'[c] = h /\ head'[c] = h
  BY <1>0 DEF UserPull, IsStrictPrefix
<1>2. KnownIn(tags[c], CommitsOf(head[c])) /\ KnownIn(tags[c], CommitsOf(track[c]))
  BY <1>1, HeadKnown DEF Known, Resting
<1>3. cmd'[c].at \notin {"commit", "tag", "push", "revert"} BY <1>1 DEF Resting
<1> QED BY <1>1, <1>2, <1>3, GetSees

\* A user's reset after a crash leaves the clone knowing the versions it has,
\* and stamping above them.
LEMMA UserResetSees ==
    ASSUME BaseInv, NEW c \in Clones, Known(c), UserReset(c)
    PROVE  Known(c)' /\ Above(c)'
<1>1. /\ cmd'[c].at = "crashed" /\ tags'[c] = tags[c] /\ track'[c] = track[c]
      /\ head'[c] = track[c]
  BY DEF UserReset, BaseInv, Typed
<1>2. KnownIn(tags[c], CommitsOf(track[c])) BY DEF Known
<1> QED BY <1>1, <1>2, SeenIs

\* Known(c) after a step.
LEMMA KnownPrime ==
    ASSUME NEW c \in Clones
    PROVE  Known(c)' <=>
             /\ KnownIn(tags'[c], CommitsOf(track'[c]))
             /\ cmd'[c].at \notin {"tag", "crashed"} => KnownIn(tags'[c], CommitsOf(head'[c]))
             /\ cmd'[c].at = "tag" => /\ KnownIn(tags'[c], CommitsOf(Front(head'[c])))
                                      /\ ~(CommitsOf(head'[c]) \subseteq Published')
             /\ cmd'[c].at = "crashed" => \/ KnownIn(tags'[c], CommitsOf(head'[c]))
                                          \/ ~(CommitsOf(head'[c]) \subseteq Published')
BY DEF Known, KnownIn, CommitsOf, IsVersion

\* The choice of the next versions (stamp_app_version) leaves the clone
\* knowing the versions it has, and stamping above them.
LEMMA StampVersionSees ==
    ASSUME BaseInv, NEW c \in Clones, Known(c), StampVersion(c)
    PROVE  Known(c)' /\ Above(c)'
<1>0. Typed /\ cmd \in [Clones -> CmdType] /\ cmd[c] \in CmdType BY DEF BaseInv, Typed
<1>1. /\ cmd[c].at = "stamp" /\ tags' = tags /\ track' = track /\ head' = head
  BY DEF StampVersion
<1>2. KnownIn(tags[c], CommitsOf(head[c])) /\ KnownIn(tags[c], CommitsOf(track[c]))
  BY <1>1, HeadKnown DEF Known
<1>3. CASE End(c, "failed")
  <2>1. "failed" \in Stages BY DEF Stages, Resting
  <2>2. cmd'[c].at = "failed" BY <1>0, <1>3, <2>1, EndIs
  <2> QED BY <1>1, <1>2, <2>2, SeenIs
<1>4. CASE cmd' = [cmd EXCEPT ![c].at = "commit", ![c].left = Count(c),
                              ![c].ver = NextVersion(c), ![c].root = NextRoot(c)]
  <2>1. cmd'[c].at = "commit" /\ cmd'[c].app = cmd[c].app /\ cmd'[c].ver = NextVersion(c)
    BY <1>0, <1>4 DEF CmdType
  <2>2. /\ NextVersion(c) \in Nat
        /\ \A t \in tags[c] : t.kind = cmd[c].app => t.n < NextVersion(c)
    BY <1>0, NextVersionIs
  <2>3. \A x \in CommitsOf(track[c]) \cup CommitsOf(head[c]) :
           x.app = cmd[c].app => x.ver < NextVersion(c)
    <3> SUFFICES ASSUME NEW x \in CommitsOf(track[c]) \cup CommitsOf(head[c]), x.app = cmd[c].app
                 PROVE  x.ver < NextVersion(c)
      OBVIOUS
    <3>1. IsVersion(x) BY <1>0 DEF IsVersion, CmdType
    <3>2. PICK t \in tags[c] : Named(t, x.app, x.ver) BY <1>2, <3>1 DEF KnownIn
    <3> QED BY <2>2, <3>2 DEF Named
  <2>4. Known(c)'
    <3>1. KnownIn(tags'[c], CommitsOf(head'[c])) /\ KnownIn(tags'[c], CommitsOf(track'[c]))
      BY <1>1, <1>2
    <3> QED BY <2>1, <3>1 DEF Known, KnownIn, CommitsOf, IsVersion
  <2>5. Above(c)'
    <3>1. ~Making(c)' BY <2>1 DEF Making
    <3> QED BY <1>1, <2>1, <2>2, <2>3, <3>1 DEF Above, CommitsOf
  <2> QED BY <2>4, <2>5
<1> QED BY <1>3, <1>4 DEF StampVersion

\* The version commit (publish_commit) leaves the clone knowing the versions
\* it has, and stamping above them.
LEMMA PublishCommitSees ==
    ASSUME BaseInv, NEW c \in Clones, Known(c), Above(c), PublishCommit(c)
    PROVE  Known(c)' /\ Above(c)'
<1> DEFINE x == [id |-> NewId, app |-> cmd[c].app, ver |-> cmd[c].ver, root |-> cmd[c].root,
                 from |-> cmd[c].from]
<1>0. Typed /\ cmd[c] \in CmdType /\ head \in [Clones -> Seq(Commits)] BY DEF BaseInv, Typed
<1>1. /\ cmd[c].at = "commit" /\ tags' = tags /\ track' = track /\ Published' = Published
  BY DEF PublishCommit, remote, Published
<1>2. KnownIn(tags[c], CommitsOf(head[c])) /\ KnownIn(tags[c], CommitsOf(track[c]))
  BY <1>1, HeadKnown DEF Known
<1>3. CASE End(c, "failed") /\ UNCHANGED head
  <2>1. "failed" \in Stages BY DEF Stages, Resting
  <2>2. cmd'[c].at = "failed" BY <1>0, <1>3, <2>1, EndIs
  <2> QED BY <1>1, <1>2, <1>3, <2>2, SeenIs
<1>4. CASE head' = [head EXCEPT ![c] = Append(head[c], x)] /\ Go(c, "tag")
  <2>1. "tag" \in Stages BY DEF Stages
  <2>2. cmd'[c].at = "tag" /\ cmd'[c].app = cmd[c].app /\ cmd'[c].ver = cmd[c].ver
    BY <1>0, <1>4, <2>1, GoIs
  <2>3. x \in Commits /\ x \notin Published
    <3>1. NewId \in Nat /\ \A y \in InUse : y.id # NewId BY <1>0, NewIdIs
    <3>2. Published \subseteq InUse BY DEF Published, InUse
    <3> QED BY <1>0, <3>1, <3>2 DEF Commits, CmdType
  <2> HIDE DEF x
  <2>4. head'[c] = Append(head[c], x) BY <1>0, <1>4
  <2>5. x \in CommitsOf(head'[c]) /\ Front(head'[c]) = head[c]
    BY <1>0, <2>3, <2>4, CommitsOfIs, AppendIs
  <2>6. Known(c)'
    <3>1. KnownIn(tags'[c], CommitsOf(track'[c])) BY <1>1, <1>2
    <3>2. ~(CommitsOf(head'[c]) \subseteq Published') BY <1>1, <2>3, <2>5
    <3>3. KnownIn(tags'[c], CommitsOf(Front(head'[c]))) BY <1>1, <1>2, <2>5
    <3> QED BY <2>2, <3>1, <3>2, <3>3, KnownPrime
  <2>7. Above(c)'
    <3>1. Making(c)' /\ ~Making(c) BY <1>1, <2>2 DEF Making
    <3>2. \A t \in tags[c] : t.kind = cmd[c].app => t.n < cmd[c].ver BY <1>1 DEF Above
    <3>3. \A y \in CommitsOf(track[c]) \cup CommitsOf(head[c]) :
             y.app = cmd[c].app => y.ver < cmd[c].ver
      BY <1>1, <3>1 DEF Above
    <3> QED BY <1>1, <2>2, <2>5, <3>1, <3>2, <3>3 DEF Above, CommitsOf
  <2> QED BY <2>6, <2>7
<1> QED BY <1>3, <1>4 DEF PublishCommit

\* The creation of the tags (_create_tags) leaves the clone knowing the
\* versions it has, and stamping above them.
LEMMA CreateTagsSees ==
    ASSUME BaseInv, NEW c \in Clones, Known(c), Above(c), CreateTags(c)
    PROVE  Known(c)' /\ Above(c)'
<1> DEFINE x == Last(head[c])
           taken == {m \in Names(c) : \E t \in tags[c] : Named(t, m[1], m[2])}
           made == IF taken = {} THEN TagsOn(c, x)
                   ELSE {t \in TagsOn(c, x) : t.kind # Root /\ <<t.kind, t.n>> \notin taken}
           own == [kind |-> cmd[c].app, n |-> cmd[c].ver, on |-> x]
<1>0. /\ Typed /\ cmd[c] \in CmdType /\ tags \in [Clones -> SUBSET Tags]
      /\ head[c] \in Seq(Commits) /\ head[c] # <<>> /\ x \in Commits
  BY PartsAre DEF BaseInv, Typed
<1>1. /\ cmd[c].at = "tag" /\ head' = head /\ track' = track
      /\ tags' = [tags EXCEPT ![c] = tags[c] \cup made]
      /\ IF taken = {} THEN Go(c, "push")
         ELSE cmd' = [cmd EXCEPT ![c].at = "revert", ![c].err = 1]
  BY DEF CreateTags
<1>2. own \in made
  <2>1. own \in TagsOn(c, x) BY <1>0, TagsOnIs
  <2>2. own.kind # Root BY <1>0, StampAssumption DEF CmdType
  <2>3. <<own.kind, own.n>> \notin taken
    <3>1. \A t \in tags[c] : t.kind = cmd[c].app => t.n < cmd[c].ver /\ t.n \in Nat
      BY <1>0, <1>1 DEF Above, Tags
    <3>2. cmd[c].ver \in Nat BY <1>0 DEF CmdType
    <3>3. ~\E t \in tags[c] : Named(t, cmd[c].app, cmd[c].ver) BY <3>1, <3>2 DEF Named
    <3> QED BY <3>3
  <2> QED BY <2>1, <2>2, <2>3
<1> HIDE DEF taken, made
<1>3. tags'[c] = tags[c] \cup made BY <1>0, <1>1
<1>4. cmd'[c].at \in {"push", "revert"} /\ cmd'[c].app = cmd[c].app /\ cmd'[c].ver = cmd[c].ver
  <2>1. CASE taken = {}
    <3>1. "push" \in Stages BY DEF Stages
    <3> QED BY <1>0, <1>1, <2>1, <3>1, GoIs
  <2>2. CASE taken # {}
    BY <1>0, <1>1, <2>2, ErrIs
  <2> QED BY <2>1, <2>2
<1>5. Known(c)'
  <2>1. KnownIn(tags'[c], CommitsOf(track'[c])) BY <1>1, <1>3 DEF Known, KnownIn
  <2>2. KnownIn(tags'[c], CommitsOf(head'[c]))
    <3>1. KnownIn(tags[c], CommitsOf(Front(head[c]))) BY <1>1 DEF Known
    <3>2. CommitsOf(head[c]) = CommitsOf(Front(head[c])) \cup {x} BY <1>0, CommitsOfIs
    <3>3. x.app = cmd[c].app /\ x.ver = cmd[c].ver BY <1>1 DEF BaseInv, Local, Making
    <3>4. Named(own, x.app, x.ver) BY <3>3 DEF Named
    <3> HIDE DEF x, own
    <3> QED BY <1>1, <1>2, <1>3, <3>1, <3>2, <3>4 DEF KnownIn
  <2> QED BY <1>4, <2>1, <2>2, KnownPrime
<1>6. Above(c)'
  <2>1. Making(c)' /\ Making(c) BY <1>1, <1>4 DEF Making
  <2>2. \A y \in CommitsOf(track[c]) \cup CommitsOf(Front(head[c])) :
           y.app = cmd[c].app => y.ver < cmd[c].ver
    BY <1>1, <2>1 DEF Above
  <2> QED BY <1>1, <1>4, <2>1, <2>2 DEF Above, CommitsOf
<1> QED BY <1>5, <1>6

\* A push that did not arrive, or of which no answer came.
LEMMA RefusedSees ==
    ASSUME BaseInv, NEW c \in Clones, Known(c), Above(c), cmd[c].at = "push",
           head' = head, track' = track, tags' = tags,
           cmd' = [cmd EXCEPT ![c].at = "revert", ![c].err = 2]
    PROVE  Known(c)' /\ Above(c)'
<1>1. cmd'[c].at = "revert" /\ cmd'[c].app = cmd[c].app /\ cmd'[c].ver = cmd[c].ver
  <2>1. 2 \in 0 .. 2 /\ Typed BY DEF BaseInv
  <2> QED BY <2>1, ErrIs, Zenon
<1>2. Known(c)'
  <2>1. KnownIn(tags'[c], CommitsOf(track'[c])) /\ KnownIn(tags'[c], CommitsOf(head'[c]))
    BY DEF Known
  <2> QED BY <1>1, <2>1, KnownPrime
<1>3. Above(c)'
  <2>1. Making(c)' /\ Making(c) BY <1>1 DEF Making
  <2>2. \A y \in CommitsOf(track[c]) \cup CommitsOf(Front(head[c])) :
           y.app = cmd[c].app => y.ver < cmd[c].ver
    BY <2>1 DEF Above
  <2> QED BY <1>1, <2>1, <2>2 DEF Above, CommitsOf
<1> QED BY <1>2, <1>3

\* The push leaves the clone knowing the versions it has, and stamping above
\* them.
LEMMA PushSees ==
    ASSUME BaseInv, atomic, NEW c \in Clones, Known(c), Above(c), Push(c)
    PROVE  Known(c)' /\ Above(c)'
<1>0. Typed /\ track \in [Clones -> Seq(Commits)] BY DEF BaseInv, Typed
<1>1. /\ cmd[c].at = "push" /\ head' = head /\ tags' = tags
      /\ track' = IF Accepted(c).branch THEN [track EXCEPT ![c] = head[c]] ELSE track
  BY DEF Push, Land
<1>2. CASE Whole(c)
  <2>1. "stamped" \in Stages BY DEF Stages, Resting
  <2>2. cmd'[c].at = "stamped" BY <1>0, <1>2, <2>1, EndIs DEF Push
  <2>3. track'[c] = head[c] BY <1>0, <1>1, <1>2 DEF Whole
  <2>4. KnownIn(tags[c], CommitsOf(head[c])) BY <1>1 DEF Known
  <2> QED BY <1>1, <2>2, <2>3, <2>4, SeenIs
<1>3. CASE ~Whole(c)
  <2>1. ~Accepted(c).branch BY <1>0, <1>3, AcceptedIs DEF Whole
  <2>2. track' = track BY <1>1, <2>1
  <2>3. cmd' = [cmd EXCEPT ![c].at = "revert", ![c].err = 2] BY <1>3 DEF Push
  <2> QED BY <1>1, <2>2, <2>3, RefusedSees
<1> QED BY <1>2, <1>3

\* A push that fails leaves the clone knowing the versions it has, and
\* stamping above them.
LEMMA PushFaultSees ==
    ASSUME BaseInv, NEW c \in Clones, Known(c), Above(c), PushFault(c)
    PROVE  Known(c)' /\ Above(c)'
BY RefusedSees DEF PushFault

\* The revert of a stamp that failed leaves the clone knowing the versions it
\* has, and stamping above them.
LEMMA RevertSees ==
    ASSUME BaseInv, NEW c \in Clones, Known(c), Above(c), Revert(c)
    PROVE  Known(c)' /\ Above(c)'
<1>0. /\ Typed /\ cmd[c] \in CmdType /\ tags \in [Clones -> SUBSET Tags] /\ tags[c] \subseteq Tags
      /\ head[c] \in Seq(Commits) /\ head[c] # <<>> /\ head \in [Clones -> Seq(Commits)]
      /\ Last(head[c]) \in Commits /\ track[c] \in Seq(Commits) /\ Front(head[c]) \in Seq(Commits)
  BY PartsAre, FrontIs DEF BaseInv, Typed
<1>1. /\ cmd[c].at = "revert" /\ track' = track /\ head'[c] = Front(head[c])
      /\ tags'[c] = {t \in tags[c] : ~Bears(t, Names(c))} /\ Go(c, "refetch")
  BY <1>0 DEF Revert
<1>2. cmd'[c].at = "refetch"
  <2>1. "refetch" \in Stages BY DEF Stages
  <2> QED BY <1>0, <1>1, <2>1, GoIs
<1>3. Making(c) BY <1>1 DEF Making
<1>4. ASSUME NEW S, KnownIn(tags[c], S), S \subseteq Commits,
             \A y \in S : y.app = cmd[c].app => y.ver < cmd[c].ver
      PROVE  KnownIn(tags'[c], S)
  <2> SUFFICES ASSUME NEW y \in S, IsVersion(y)
               PROVE  \E t \in tags'[c] : Named(t, y.app, y.ver)
    BY DEF KnownIn
  <2>1. PICK t \in tags[c] : Named(t, y.app, y.ver) BY <1>4 DEF KnownIn
  <2>2. t \in Tags /\ y \in Commits /\ t.kind = y.app /\ t.n = y.ver BY <1>0, <1>4, <2>1 DEF Named
  <2>3. ~Named(t, cmd[c].app, cmd[c].ver)
    <3>1. cmd[c].ver \in Nat /\ y.ver \in Nat BY <1>0, <2>2 DEF CmdType, Commits
    <3>2. y.app = cmd[c].app => y.ver < cmd[c].ver BY <1>4
    <3> QED BY <2>2, <3>1, <3>2 DEF Named
  <2>4. ~Named(t, Root, cmd[c].root) BY <2>2, StampAssumption DEF Named, IsVersion
  <2>5. ~Bears(t, Names(c)) BY <1>0, <2>2, <2>3, <2>4, TagsOnIs
  <2> QED BY <1>1, <2>1, <2>5
<1>5. \A y \in CommitsOf(track[c]) \cup CommitsOf(Front(head[c])) :
         y.app = cmd[c].app => y.ver < cmd[c].ver
  BY <1>1, <1>3 DEF Above
<1>6. KnownIn(tags'[c], CommitsOf(track'[c]))
  <2>1. KnownIn(tags[c], CommitsOf(track[c])) BY DEF Known
  <2>2. CommitsOf(track[c]) \subseteq Commits BY <1>0, CommitsOfIs
  <2> QED BY <1>1, <1>4, <1>5, <2>1, <2>2
<1>7. KnownIn(tags'[c], CommitsOf(head'[c]))
  <2>1. KnownIn(tags[c], CommitsOf(head[c])) BY <1>1 DEF Known
  <2>2. CommitsOf(Front(head[c])) \subseteq CommitsOf(head[c]) BY <1>0, CommitsOfIs
  <2>3. KnownIn(tags[c], CommitsOf(Front(head[c]))) BY <2>1, <2>2 DEF KnownIn
  <2>4. CommitsOf(Front(head[c])) \subseteq Commits BY <1>0, CommitsOfIs
  <2> QED BY <1>1, <1>4, <1>5, <2>3, <2>4
<1> QED BY <1>2, <1>6, <1>7, SeenIs

\* A kill leaves the clone knowing the versions it has, and stamping above
\* them.
LEMMA CrashSees ==
    ASSUME BaseInv, NEW c \in Clones, Known(c), Crash(c)
    PROVE  Known(c)' /\ Above(c)'
<1>1. /\ cmd[c].at \notin Resting /\ head' = head /\ track' = track /\ tags' = tags
      /\ Published' = Published
  BY DEF Crash, remote, Published
<1>2. cmd'[c].at = "crashed"
  <2>1. "crashed" \in Stages /\ Typed BY DEF Stages, Resting, BaseInv
  <2> QED BY <2>1, EndIs DEF Crash
<1>3. /\ KnownIn(tags[c], CommitsOf(track[c]))
      /\ KnownIn(tags[c], CommitsOf(head[c])) \/ ~(CommitsOf(head[c]) \subseteq Published)
  BY DEF Known
<1>4. Known(c)' BY <1>1, <1>2, <1>3, KnownPrime
<1>5. Above(c)' BY <1>2 DEF Above, Making
<1> QED BY <1>4, <1>5

\* A user's commit leaves the clone knowing the versions it has, and stamping
\* above them.
LEMMA UserCommitSees ==
    ASSUME BaseInv, NEW c \in Clones, Known(c), UserCommit(c)
    PROVE  Known(c)' /\ Above(c)'
<1>0. /\ Typed /\ head \in [Clones -> Seq(Commits)] /\ track \in [Clones -> Seq(Commits)]
  BY DEF BaseInv, Typed
<1>1. /\ cmd[c].at \in Resting /\ cmd' = cmd /\ tags' = tags
      /\ head[c] = heads[branchOf[c]] /\ head'[c] = Append(head[c], Fresh) /\ track'[c] = head'[c]
  BY <1>0 DEF UserCommit, Fresh
<1>2. IsPrefix(head[c], heads[branchOf[c]]) BY <1>0, <1>1, HeadIs
<1>3. KnownIn(tags[c], CommitsOf(head[c])) BY <1>1, <1>2, HeadKnown DEF Resting
<1>4. Fresh \in Commits /\ ~IsVersion(Fresh)
  BY <1>0, NewIdIs, StampAssumption DEF Fresh, Commits, IsVersion
<1>5. CommitsOf(head'[c]) = CommitsOf(head[c]) \cup {Fresh} BY <1>0, <1>1, <1>4, CommitsOfIs
<1>6. KnownIn(tags'[c], CommitsOf(head'[c])) BY <1>1, <1>3, <1>4, <1>5 DEF KnownIn
<1>7. cmd'[c].at \notin {"commit", "tag", "push", "revert"} BY <1>1 DEF Resting
<1> QED BY <1>1, <1>6, <1>7, SeenIs

\* What a clone checks out: what it had, what is published, or a new commit.
LEMMA HeadSteps ==
    ASSUME BaseInv, NEW c \in Clones, Start(c) \/ Step(c) \/ Crash(c) \/ User(c)
    PROVE  \A y \in CommitsOf(head'[c]) :
              y \in CommitsOf(head[c]) \/ y \in Published' \/ y \notin InUse
<1> DEFINE h == heads[branchOf[c]]
<1>0. /\ Typed /\ head \in [Clones -> Seq(Commits)] /\ head[c] \in Seq(Commits)
      /\ head[c] # <<>> /\ cmd[c] \in CmdType
  BY PartsAre DEF BaseInv, Typed
<1>1. CASE UserCommit(c)
  <2>1. head'[c] = Append(head[c], Fresh) BY <1>0, <1>1 DEF UserCommit, Fresh
  <2>2. Fresh \in Commits /\ Fresh \notin InUse BY <1>0, NewIdIs DEF Fresh, Commits
  <2>3. CommitsOf(head'[c]) = CommitsOf(head[c]) \cup {Fresh} BY <1>0, <2>1, <2>2, CommitsOfIs
  <2> QED BY <2>2, <2>3
<1>2. CASE PublishCommit(c)
  <2> DEFINE x == [id |-> NewId, app |-> cmd[c].app, ver |-> cmd[c].ver,
                   root |-> cmd[c].root, from |-> cmd[c].from]
  <2>1. head'[c] = head[c] \/ head'[c] = Append(head[c], x) BY <1>0, <1>2 DEF PublishCommit
  <2>2. x \in Commits /\ x \notin InUse BY <1>0, NewIdIs DEF Commits, CmdType
  <2> HIDE DEF x
  <2>3. CommitsOf(Append(head[c], x)) = CommitsOf(head[c]) \cup {x} BY <1>0, <2>2, CommitsOfIs
  <2> QED BY <2>1, <2>2, <2>3
<1>3. CASE Revert(c)
  <2>1. head'[c] = Front(head[c]) BY <1>0, <1>3 DEF Revert
  <2> QED BY <1>0, <2>1, CommitsOfIs
<1>4. CASE PullFirst(c) \/ Repull(c) \/ UserPull(c) \/ UserReset(c)
  <2>1. head'[c] \in {head[c], h, track[c]}
    BY <1>0, <1>4 DEF PullFirst, Repull, UserPull, UserReset
  <2>2. Published' = Published
    BY <1>4 DEF PullFirst, Repull, UserPull, UserReset, remote, Published
  <2>3. CommitsOf(h) \subseteq Published /\ CommitsOf(track[c]) \subseteq Published
    BY <1>0, OnBranch, BeforeIs
  <2> QED BY <2>1, <2>2, <2>3
<1>5. CASE \/ Start(c) \/ Fetch(c) \/ StampVersion(c) \/ CreateTags(c) \/ Push(c)
           \/ PushFault(c) \/ Refetch(c) \/ Crash(c)
  BY <1>5 DEF Start, Fetch, StampVersion, CreateTags, Push, PushFault, Refetch, Crash
<1> QED BY <1>1, <1>2, <1>3, <1>4, <1>5 DEF Step, User

\* What is published stays so.
LEMMA PublishedMore ==
    ASSUME BaseInv, atomic, NEW c \in Clones, Start(c) \/ Step(c) \/ Crash(c) \/ User(c)
    PROVE  /\ Published \subseteq Published'
           /\ \A y \in Published' : y \in Published \/ y \notin InUse \/ y \in CommitsOf(head[c])
<1>1. head[c] \in Seq(Commits) /\ head[c] # <<>> BY PartsAre DEF BaseInv
<1>2. Last(head[c]) \in CommitsOf(head[c]) BY <1>1, CommitsOfIs
<1> QED BY <1>2, RemoteSteps, PublishedSteps

\* The commits that a clone has checked out are in use.
LEMMA HeadInUse ==
    ASSUME NEW d \in Clones
    PROVE  CommitsOf(head[d]) \subseteq InUse
<1> DEFINE Hs == {CommitsOf(heads[b]) : b \in Branches}
           Cs == {CommitsOf(head[c]) \cup {t.on : t \in tags[c]} : c \in Clones}
           Ts == {{t.on : t \in rtags}}
           X == CommitsOf(head[d]) \cup {t.on : t \in tags[d]}
<1>1. X \in Cs OBVIOUS
<1>2. InUse = UNION (Hs \cup Cs \cup Ts) BY DEF InUse
<1>3. CommitsOf(head[d]) \subseteq X OBVIOUS
<1> HIDE DEF Hs, Cs, Ts, X
<1> QED BY <1>1, <1>2, <1>3

\* With an atomic push, a commit two clones have was published.
LEMMA PrivateNext ==
    ASSUME BaseInv, atomic, Private, NEW c \in Clones,
           Start(c) \/ Step(c) \/ Crash(c) \/ User(c)
    PROVE  Private'
<1>0. Alone(c) BY StepKeeps DEF Keeps
<1>1. \A d \in Clones \ {c} : CommitsOf(head[d]) \subseteq InUse BY HeadInUse
<1>2. ASSUME NEW d \in Clones \ {c}, NEW y \in CommitsOf(head'[c]), y \in CommitsOf(head[d])
      PROVE  y \in Published'
  BY <1>1, <1>2, HeadSteps, PublishedMore DEF Private
<1>3. \A d \in Clones \ {c} : head'[d] = head[d] BY <1>0 DEF Alone
<1>4. ASSUME NEW d \in Clones, NEW e \in Clones, d # e,
             NEW y \in CommitsOf(head'[d]), y \in CommitsOf(head'[e])
      PROVE  y \in Published'
  <2>1. CASE d # c /\ e # c
    BY <1>3, <1>4, <2>1, PublishedMore DEF Private
  <2>2. CASE d = c
    BY <1>2, <1>3, <1>4, <2>2
  <2>3. CASE e = c
    BY <1>2, <1>3, <1>4, <2>3
  <2> QED BY <2>1, <2>2, <2>3
<1> QED BY <1>4 DEF Private, CommitsOf

\* A step of another clone leaves what d knows.
LEMMA OthersSee ==
    ASSUME BaseInv, atomic, Private, NEW c \in Clones,
           Start(c) \/ Step(c) \/ Crash(c) \/ User(c),
           NEW d \in Clones \ {c}, Known(d), Above(d)
    PROVE  Known(d)' /\ Above(d)'
<1>1. /\ head'[d] = head[d] /\ track'[d] = track[d] /\ tags'[d] = tags[d] /\ cmd'[d] = cmd[d]
  BY StepKeeps DEF Keeps, Alone
<1>2. ASSUME ~(CommitsOf(head[d]) \subseteq Published)
      PROVE  ~(CommitsOf(head[d]) \subseteq Published')
  <2>1. PICK y \in CommitsOf(head[d]) : y \notin Published BY <1>2
  <2>2. y \in InUse BY HeadInUse
  <2>3. y \notin CommitsOf(head[c]) BY <2>1 DEF Private
  <2>4. y \notin Published' BY <2>1, <2>2, <2>3, PublishedMore
  <2> QED BY <2>4
<1>3. Known(d)' BY <1>1, <1>2, KnownPrime DEF Known
<1>4. Above(d)' BY <1>1 DEF Above, Making, CommitsOf
<1> QED BY <1>3, <1>4

\* Every step of a clone leaves it knowing its versions.
LEMMA StepSees ==
    ASSUME BaseInv, PublishedWhole, atomic, NEW c \in Clones, Known(c), Above(c),
           Start(c) \/ Step(c) \/ Crash(c) \/ User(c)
    PROVE  Known(c)' /\ Above(c)'
BY StartSees, FetchSees, PullFirstSees, StampVersionSees, PublishCommitSees, CreateTagsSees,
   PushSees, PushFaultSees, RevertSees, RefetchSees, RepullSees, CrashSees, UserCommitSees,
   UserPullSees, UserResetSees DEF Step, User

-----------------------------------------------------------------------------
(***************************************************************************)
(* The root versions, on an atomic server, while no command was killed.    *)
(***************************************************************************)

\* A number that is given stays given.
LEMMA GivenMore ==
    ASSUME NEW k, NEW s, NEW t, s \subseteq t, GivenBelow(s, k)
    PROVE  GivenBelow(t, k)
BY DEF GivenBelow

\* The next one after a given number.
LEMMA GivenNext ==
    ASSUME NEW t \in rtags, t.kind = Root, t.n \in Nat, GivenBelow(rtags, t.n)
    PROVE  GivenBelow(rtags, t.n + 1)
<1> SUFFICES ASSUME NEW j \in Nat, j < t.n + 1
             PROVE  \E u \in rtags : Named(u, Root, j)
  BY DEF GivenBelow
<1>1. CASE j < t.n BY <1>1 DEF GivenBelow
<1>2. CASE j = t.n BY <1>2 DEF Named
<1> QED BY <1>1, <1>2

\* Gapless(c) after a step.
LEMMA GaplessPrime ==
    ASSUME NEW c \in Clones
    PROVE  Gapless(c)' <=>
              /\ cmd'[c].orv # None => GivenBelow(rtags', cmd'[c].orv + 1)
              /\ cmd'[c].at \in {"commit", "tag", "push", "revert"} =>
                    GivenBelow(rtags', cmd'[c].root)
              /\ cmd'[c].at \in {"revert", "refetch"} /\ cmd'[c].err = 1 =>
                    GivenBelow(rtags', cmd'[c].root + 1)
BY DEF Gapless, Making, GivenBelow, Named

\* The commands that only go on.
LEMMA GoGapless ==
    ASSUME BaseInv, NEW c \in Clones, Gapless(c), rtags \subseteq rtags',
           NEW at \in Stages, Go(c, at),
           \/ at \in {"pull", "stamp", "repull"}
           \/ cmd[c].at = "commit" /\ at = "tag"
           \/ cmd[c].at = "tag" /\ at = "push"
           \/ cmd[c].at = "revert" /\ at = "refetch"
    PROVE  Gapless(c)'
<1>1. /\ cmd'[c].at = at /\ cmd'[c].root = cmd[c].root /\ cmd'[c].orv = cmd[c].orv
      /\ cmd'[c].err = cmd[c].err
  BY GoIs DEF BaseInv
<1>2. \A k : GivenBelow(rtags, k) => GivenBelow(rtags', k) BY GivenMore
<1> QED BY <1>1, <1>2, GaplessPrime DEF Gapless, Making

\* Those that end.
LEMMA EndGapless ==
    ASSUME BaseInv, NEW c \in Clones, NEW at \in Resting, End(c, at)
    PROVE  Gapless(c)'
<1>1. at \in Stages BY DEF Stages
<1>2. cmd'[c].at = at /\ cmd'[c].orv = None BY <1>1, EndIs DEF BaseInv
<1> QED BY <1>2, GaplessPrime DEF Resting

\* A push that failed.
LEMMA ErrGapless ==
    ASSUME BaseInv, NEW c \in Clones, Gapless(c), rtags \subseteq rtags', cmd[c].at = "push",
           cmd' = [cmd EXCEPT ![c].at = "revert", ![c].err = 2]
    PROVE  Gapless(c)'
<1>1. /\ cmd'[c].at = "revert" /\ cmd'[c].err = 2
      /\ cmd'[c].root = cmd[c].root /\ cmd'[c].orv = cmd[c].orv
  <2>1. 2 \in 0 .. 2 /\ Typed BY DEF BaseInv
  <2> QED BY <2>1, ErrIs, Zenon
<1>2. \A k : GivenBelow(rtags, k) => GivenBelow(rtags', k) BY GivenMore
<1> QED BY <1>1, <1>2, GaplessPrime DEF Gapless, Making

\* The next root version comes after given ones.
LEMMA StampVersionGapless ==
    ASSUME BaseInv, HasRoot, crashes = 0, NEW c \in Clones, Gapless(c),
           \A t \in rtags : t.kind = Root => GivenBelow(rtags, t.n),
           StampVersion(c)
    PROVE  Gapless(c)'
<1>0. Typed /\ cmd \in [Clones -> CmdType] /\ cmd[c] \in CmdType BY DEF BaseInv, Typed
<1>1. cmd[c].at = "stamp" /\ rtags' = rtags BY DEF StampVersion, remote
<1>2. CASE End(c, "failed")
  <2>1. "failed" \in Resting BY DEF Resting
  <2> QED BY <1>2, <2>1, EndGapless
<1>3. CASE /\ ReachableRoots(c) # {}
           /\ cmd' = [cmd EXCEPT ![c].at = "commit", ![c].left = Count(c),
                                 ![c].ver = NextVersion(c), ![c].root = NextRoot(c)]
  <2>1. cmd'[c].at = "commit" /\ cmd'[c].root = NextRoot(c) /\ cmd'[c].orv = cmd[c].orv
    BY <1>0, <1>3 DEF CmdType
  <2>2. GivenBelow(rtags, NextRoot(c))
    <3>1. CASE cmd[c].orv # None
      <4>1. NextRoot(c) = cmd[c].orv + 1 BY <1>0, <1>3, <3>1, NextRootIs
      <4> QED BY <3>1, <4>1 DEF Gapless
    <3>2. CASE cmd[c].orv = None
      <4>1. PICK n \in ReachableRoots(c) : NextRoot(c) = n + 1
        BY <1>0, <1>3, <3>2, NextRootIs
      <4>2. PICK t \in tags[c] : t.kind = Root /\ t.n = n BY <4>1 DEF ReachableRoots
      <4>3. t \in rtags BY <1>1, BeforeIs
      <4>4. t.n \in Nat BY <1>0, <4>3 DEF Typed, Tags
      <4> QED BY <4>1, <4>2, <4>3, <4>4, GivenNext
    <3> QED BY <3>1, <3>2
  <2>3. cmd[c].orv # None => GivenBelow(rtags, cmd[c].orv + 1) BY DEF Gapless
  <2> QED BY <1>1, <2>1, <2>2, <2>3, GaplessPrime
<1> QED BY <1>2, <1>3 DEF StampVersion

\* A root tag that is taken here is given on the remote.
LEMMA CreateTagsGapless ==
    ASSUME BaseInv, crashes = 0, NEW c \in Clones, Gapless(c), Above(c),
           \A t \in rtags : t.kind = Root => GivenBelow(rtags, t.n),
           CreateTags(c)
    PROVE  Gapless(c)'
<1> DEFINE taken == {m \in Names(c) : \E t \in tags[c] : Named(t, m[1], m[2])}
<1>0. Typed /\ cmd[c] \in CmdType /\ tags[c] \subseteq Tags BY PartsAre DEF BaseInv
<1>1. cmd[c].at = "tag" /\ rtags' = rtags BY DEF CreateTags, remote
<1>2. IF taken = {} THEN Go(c, "push")
      ELSE cmd' = [cmd EXCEPT ![c].at = "revert", ![c].err = 1]
  BY DEF CreateTags
<1>3. CASE taken = {}
  <2>1. "push" \in Stages BY DEF Stages
  <2> QED BY <1>1, <1>2, <1>3, <2>1, GoGapless
<1>4. CASE taken # {}
  <2>1. PICK m \in Names(c), t \in tags[c] : Named(t, m[1], m[2]) BY <1>4
  <2>2. t.kind # cmd[c].app \/ t.n # cmd[c].ver
    <3>1. t.kind = cmd[c].app => t.n < cmd[c].ver BY <1>1 DEF Above
    <3>2. t.n \in Nat /\ cmd[c].ver \in Nat BY <1>0 DEF Tags, CmdType
    <3> QED BY <3>1, <3>2
  <2>3. t.kind = Root /\ t.n = cmd[c].root
    BY <2>1, <2>2 DEF Names, Named
  <2>4. t \in rtags BY <1>1, BeforeIs
  <2>5. GivenBelow(rtags, cmd[c].root + 1)
    <3>1. t.n \in Nat BY <1>0 DEF Tags
    <3> QED BY <2>3, <2>4, <3>1, GivenNext
  <2>6. cmd' = [cmd EXCEPT ![c].at = "revert", ![c].err = 1] BY <1>2, <1>4
  <2> HIDE DEF taken
  <2>7. /\ cmd'[c].at = "revert" /\ cmd'[c].err = 1
        /\ cmd'[c].root = cmd[c].root /\ cmd'[c].orv = cmd[c].orv
    <3>1. 1 \in 0 .. 2 OBVIOUS
    <3> QED BY <1>0, <2>6, <3>1, ErrIs, Zenon
  <2> QED BY <1>1, <2>5, <2>7, GaplessPrime DEF Gapless, Making
<1> QED BY <1>3, <1>4

\* The root version a retry goes on from is given on the remote.
LEMMA RefetchGapless ==
    ASSUME BaseInv, HasRoot, NEW c \in Clones, Gapless(c), Refetch(c)
    PROVE  Gapless(c)'
<1>0. Typed /\ cmd \in [Clones -> CmdType] /\ cmd[c] \in CmdType BY DEF BaseInv, Typed
<1>1. cmd[c].at = "refetch" /\ rtags' = rtags BY DEF Refetch, remote
<1>2. CASE /\ cmd[c].err = 1
           /\ cmd' = [cmd EXCEPT ![c].at = "stamp", ![c].base = cmd[c].ver,
                                 ![c].orv = IF HasRoot THEN cmd[c].root ELSE None]
  <2>1. cmd'[c].at = "stamp" /\ cmd'[c].orv = cmd[c].root BY <1>0, <1>2 DEF CmdType
  <2>2. GivenBelow(rtags, cmd[c].root + 1) BY <1>1, <1>2 DEF Gapless
  <2> QED BY <1>1, <2>1, <2>2, GaplessPrime
<1>3. CASE Go(c, "repull")
  <2>1. "repull" \in Stages BY DEF Stages
  <2> QED BY <1>1, <1>3, <2>1, GoGapless
<1>4. CASE End(c, "failed")
  <2>1. "failed" \in Resting BY DEF Resting
  <2> QED BY <1>4, <2>1, EndGapless
<1> QED BY <1>2, <1>3, <1>4 DEF Refetch

\* Every step of a clone, and of the others.
LEMMA StepGapless ==
    ASSUME BaseInv, atomic, HasRoot, crashes = 0, NEW c \in Clones, Gapless(c), Above(c),
           \A t \in rtags : t.kind = Root => GivenBelow(rtags, t.n),
           Start(c) \/ Step(c) \/ Crash(c) \/ User(c)
    PROVE  Gapless(c)'
<1>0. /\ Typed /\ cmd \in [Clones -> CmdType] /\ rtags \subseteq rtags'
      /\ "failed" \in Resting /\ "crashed" \in Resting /\ "stamped" \in Resting
      /\ "pull" \in Stages /\ "stamp" \in Stages /\ "tag" \in Stages /\ "refetch" \in Stages
  BY StepKeeps DEF BaseInv, Typed, Keeps, Alone, Resting, Stages
<1>1. CASE Start(c)
  <2>1. cmd'[c].at = "fetch" /\ cmd'[c].orv = None BY <1>0, <1>1 DEF Start
  <2> QED BY <2>1, GaplessPrime
<1>2. CASE Fetch(c)
  <2> DEFINE to == IF cmd[c].pull THEN "pull" ELSE "stamp"
  <2>1. Go(c, to) \/ End(c, "failed") BY <1>2 DEF Fetch
  <2>2. to \in {"pull", "stamp"} OBVIOUS
  <2> HIDE DEF to
  <2> QED BY <1>0, <2>1, <2>2, GoGapless, EndGapless
<1>3. CASE PullFirst(c)
  <2>1. Go(c, "stamp") \/ End(c, "failed") BY <1>3 DEF PullFirst
  <2> QED BY <1>0, <2>1, GoGapless, EndGapless
<1>4. CASE StampVersion(c) BY <1>4, StampVersionGapless
<1>5. CASE PublishCommit(c)
  <2>1. cmd[c].at = "commit" /\ (Go(c, "tag") \/ End(c, "failed")) BY <1>5 DEF PublishCommit
  <2> QED BY <1>0, <2>1, GoGapless, EndGapless
<1>6. CASE CreateTags(c) BY <1>6, CreateTagsGapless
<1>7. CASE Push(c) \/ PushFault(c)
  <2>1. /\ cmd[c].at = "push"
        /\ \/ End(c, "stamped")
           \/ cmd' = [cmd EXCEPT ![c].at = "revert", ![c].err = 2]
    BY <1>7 DEF Push, PushFault
  <2> QED BY <1>0, <2>1, ErrGapless, EndGapless
<1>8. CASE Revert(c)
  <2>1. cmd[c].at = "revert" /\ Go(c, "refetch") BY <1>8 DEF Revert
  <2> QED BY <1>0, <2>1, GoGapless
<1>9. CASE Refetch(c) BY <1>9, RefetchGapless
<1>10. CASE Repull(c)
  <2>1. Go(c, "stamp") BY <1>10 DEF Repull
  <2> QED BY <1>0, <2>1, GoGapless
<1>11. CASE Crash(c)
  <2>1. End(c, "crashed") BY <1>11 DEF Crash
  <2> QED BY <1>0, <2>1, EndGapless
<1>12. CASE User(c)
  <2>1. cmd' = cmd BY <1>12 DEF User, UserCommit, UserPull, UserReset
  <2>2. \A k : GivenBelow(rtags, k) => GivenBelow(rtags', k) BY <1>0, GivenMore
  <2> QED BY <2>1, <2>2, GaplessPrime DEF Gapless, Making
<1> QED BY <1>1, <1>2, <1>3, <1>4, <1>5, <1>6, <1>7, <1>8, <1>9, <1>10, <1>11, <1>12 DEF Step

\* Every step keeps the root versions on the remote without a gap.
LEMMA RootNext ==
    ASSUME BaseInv, RootInv, atomic => \A c \in Clones : Above(c), [Next]_vars
    PROVE  RootInv'
<1>1. CASE UNCHANGED vars
  BY <1>1 DEF vars, RootInv, Gapless, Making, GivenBelow
<1>2. ASSUME NEW c \in Clones, Start(c) \/ Step(c) \/ Crash(c) \/ User(c)
      PROVE  RootInv'
  <2>0. /\ Typed /\ Alone(c) /\ atomic' = atomic /\ rtags \subseteq rtags'
        /\ crashes # 0 => crashes' # 0
    BY <1>2, StepKeeps DEF BaseInv, Keeps, Alone, setup
  <2> SUFFICES ASSUME atomic, HasRoot, crashes = 0
               PROVE  /\ \A t \in rtags' : t.kind = Root => GivenBelow(rtags', t.n)
                      /\ \A d \in Clones : Gapless(d)'
    BY <2>0 DEF RootInv, GivenBelow
  <2>1. \A k : GivenBelow(rtags, k) => GivenBelow(rtags', k) BY <2>0, GivenMore
  <2>2. ASSUME NEW d \in Clones PROVE Gapless(d)'
    <3>1. CASE d = c BY <1>2, <3>1, StepGapless DEF RootInv
    <3>2. CASE d # c
      <4>1. cmd'[d] = cmd[d] BY <2>0, <3>2 DEF Alone
      <4> QED BY <2>1, <4>1, GaplessPrime DEF RootInv, Gapless, Making
    <3> QED BY <3>1, <3>2
  <2>3. ASSUME NEW t \in rtags', t.kind = Root PROVE GivenBelow(rtags', t.n)
    <3>1. CASE t \in rtags BY <2>1, <2>3, <3>1 DEF RootInv
    <3>2. CASE t \notin rtags
      <4>1. Landed(c) BY <1>2, <3>2, RemoteSteps DEF Unmoved, UserCommit
      <4>2. t \in TagsOn(c, Last(head[c])) BY <3>2, <4>1 DEF Landed
      <4>3. t.n = cmd[c].root /\ cmd[c].at = "push"
        <5> DEFINE x == Last(head[c])
        <5>1. /\ x.app # Root /\ x.root = cmd[c].root
              /\ TagsOn(c, x) = {[kind |-> x.app, n |-> x.ver, on |-> x]} \cup
                    (IF HasRoot THEN {[kind |-> Root, n |-> x.root, on |-> x]} ELSE {})
          BY <4>1, LandedTags
        <5> HIDE DEF x
        <5>2. t \in {[kind |-> x.app, n |-> x.ver, on |-> x],
                     [kind |-> Root, n |-> x.root, on |-> x]}
          BY <4>2, <5>1 DEF x
        <5>3. t.n = cmd[c].root BY <2>3, <5>1, <5>2
        <5> QED BY <4>1, <5>3 DEF Landed
      <4>4. GivenBelow(rtags, cmd[c].root) BY <4>3 DEF RootInv, Gapless, Making
      <4> QED BY <2>1, <4>3, <4>4
    <3> QED BY <3>1, <3>2
  <2> QED BY <2>2, <2>3
<1> QED BY <1>1, <1>2 DEF Next

-----------------------------------------------------------------------------
(***************************************************************************)
(* Versions grow.                                                          *)
(***************************************************************************)

\* Along a branch, with or without the root versions.
Growing(s, roots) ==
    \A i, j \in 1 .. Len(s) :
       i < j /\ IsVersion(s[i]) /\ IsVersion(s[j]) =>
          /\ s[i].app = s[j].app => s[i].ver < s[j].ver
          /\ roots => s[i].root < s[j].root

\* One more commit.
LEMMA GrowsByOne ==
    ASSUME NEW s \in Seq(Commits), s # <<>>, NEW roots, Growing(Front(s), roots),
           IsVersion(Last(s)) => \A x \in CommitsOf(Front(s)) : IsVersion(x) =>
              /\ x.app = Last(s).app => x.ver < Last(s).ver
              /\ roots => x.root < Last(s).root
    PROVE  Growing(s, roots)
<1> DEFINE f == Front(s)
<1>1. /\ f \in Seq(Commits) /\ Len(f) = Len(s) - 1 /\ Len(s) \in Nat /\ Len(s) # 0
      /\ \A i \in 1 .. Len(f) : f[i] = s[i]
  <2>1. f \in Seq(Commits) /\ Len(f) = Len(s) - 1 /\ Len(s) \in Nat /\ Len(s) # 0
           /\ IsPrefix(f, s)
    BY FrontIs, LenProperties
  <2> HIDE DEF f
  <2>2. \A i \in 1 .. Len(f) : f[i] = s[i] BY <2>1, PrefixIs
  <2> QED BY <2>1, <2>2
<1>2. Last(s) = s[Len(s)] BY DEF Last
<1> SUFFICES ASSUME NEW i \in 1 .. Len(s), NEW j \in 1 .. Len(s),
                    i < j, IsVersion(s[i]), IsVersion(s[j])
             PROVE  /\ s[i].app = s[j].app => s[i].ver < s[j].ver
                    /\ roots => s[i].root < s[j].root
  BY DEF Growing
<1> HIDE DEF f
<1>3. i \in 1 .. Len(f) /\ f[i] = s[i] BY <1>1
<1>4. CASE j = Len(s)
  <2>1. s[i] \in CommitsOf(f) BY <1>3 DEF CommitsOf
  <2>2. s[j] = Last(s) BY <1>2, <1>4
  <2>3. s[i] \in CommitsOf(Front(s)) BY <2>1 DEF f
  <2> QED BY <2>2, <2>3
<1>5. CASE j # Len(s)
  <2>1. j \in 1 .. Len(f)
    <3>1. Len(f) = Len(s) - 1 /\ Len(s) \in Nat BY <1>1
    <3> QED BY <1>5, <3>1
  <2>2. f[j] = s[j] BY <1>1, <2>1
  <2> QED BY <1>3, <2>1, <2>2 DEF Growing, f
<1> QED BY <1>4, <1>5

\* Every step keeps the versions growing along each branch.
LEMMA GrowNext ==
    ASSUME BaseInv, PublishedWhole, RootInv, atomic, VersionsGrow, NEW c \in Clones, Above(c),
           Start(c) \/ Step(c) \/ Crash(c) \/ User(c)
    PROVE  VersionsGrow'
<1> DEFINE b == branchOf[c]
           roots == HasRoot /\ crashes = 0
<1>0. /\ Typed /\ Typed' /\ Alone(c) /\ (crashes # 0 => crashes' # 0) /\ b \in Branches
      /\ head[c] \in Seq(Commits) /\ head[c] # <<>>
      /\ heads[b] \in Seq(Commits) /\ heads \in [Branches -> Seq(Commits)]
  BY StepKeeps, PartsAre DEF BaseInv, Keeps, Alone, Typed
<1>1. \A a \in Branches : Growing(heads[a], roots) BY DEF VersionsGrow, Growing
<1> SUFFICES \A a \in Branches : Growing(heads'[a], roots)
  <2> SUFFICES ASSUME \A a \in Branches : Growing(heads'[a], roots)
               PROVE  VersionsGrow'
    OBVIOUS
  <2> QED BY <1>0 DEF VersionsGrow, Growing, IsVersion
<1>2. CASE Unmoved BY <1>1, <1>2 DEF Unmoved
<1>3. CASE UserCommit(c)
  <2> DEFINE s == Append(heads[b], Fresh)
  <2>1. heads' = [heads EXCEPT ![b] = s] BY <1>3 DEF UserCommit, Fresh
  <2>2. Fresh \in Commits /\ ~IsVersion(Fresh)
    BY <1>0, NewIdIs, StampAssumption DEF Fresh, Commits, IsVersion
  <2>3. s \in Seq(Commits) /\ s # <<>> /\ Front(s) = heads[b] /\ Last(s) = Fresh
    BY <1>0, <2>2, AppendIs
  <2> HIDE DEF s, roots
  <2>4. Growing(s, roots) BY <1>0, <1>1, <2>2, <2>3, GrowsByOne
  <2> QED BY <1>0, <1>1, <2>1, <2>4
<1>4. CASE Landed(c)
  <2> DEFINE x == Last(head[c])
             f == Front(head[c])
  <2>1. heads' = [heads EXCEPT ![b] = head[c]] /\ IsPrefix(heads[b], head[c])
           /\ IsPrefix(f, heads[b]) /\ cmd[c].at = "push"
    BY <1>4 DEF Landed, BaseInv, Local, Making
  <2>2. heads[b] = f \/ heads[b] = head[c] BY <1>0, <2>1, FrontOrAll
  <2>3. Growing(head[c], roots)
    <3>1. CASE heads[b] = head[c] BY <1>0, <1>1, <3>1
    <3>2. CASE heads[b] = f
      <4>1. ASSUME NEW y \in CommitsOf(f), IsVersion(y)
            PROVE  /\ y.app = x.app => y.ver < x.ver
                   /\ roots => y.root < x.root
        <5>1. x \in Commits /\ x.app = cmd[c].app /\ x.ver = cmd[c].ver /\ x.root = cmd[c].root
          BY <1>4, LandedTags
        <5>2. y.app = x.app => y.ver < x.ver BY <2>1, <4>1, <5>1 DEF Above, Making
        <5>3. ASSUME roots PROVE y.root < x.root
          <6>1. y \in Published /\ y \in Commits
            BY <1>0, <3>2, <4>1, OnBranch, CommitsOfIs
          <6>2. PICK t \in rtags : t.kind = Root /\ t.n = y.root
            BY <4>1, <5>3, <6>1 DEF PublishedWhole
          <6>3. GivenBelow(rtags, y.root) BY <5>3, <6>2 DEF RootInv
          <6>4. ~\E u \in rtags : Named(u, Root, x.root)
            <7>1. TagsOn(c, x) = {[kind |-> x.app, n |-> x.ver, on |-> x]} \cup
                    (IF HasRoot THEN {[kind |-> Root, n |-> x.root, on |-> x]} ELSE {})
              BY <1>4, LandedTags
            <7>2. [kind |-> Root, n |-> x.root, on |-> x] \in TagsOn(c, x) BY <5>3, <7>1
            <7>3. \A g \in TagsOn(c, x) : \A u \in rtags : ~Named(u, g.kind, g.n)
              BY <1>4 DEF Landed
            <7> HIDE DEF x
            <7> QED BY <7>2, <7>3
          <6>5. y.root \in Nat /\ x.root \in Nat BY <5>1, <6>1 DEF Commits
          <6>6. y.root # x.root BY <6>2, <6>4 DEF Named
          <6>7. ~(x.root < y.root) BY <6>3, <6>4, <6>5 DEF GivenBelow
          <6> QED BY <6>5, <6>6, <6>7
        <5> QED BY <5>2, <5>3
      <4>2. Growing(f, roots) BY <1>0, <1>1, <3>2
      <4> HIDE DEF roots
      <4> QED BY <1>0, <4>1, <4>2, GrowsByOne
    <3> QED BY <2>2, <3>1, <3>2
  <2> HIDE DEF roots
  <2> QED BY <1>0, <1>1, <2>1, <2>3
<1> QED BY <1>2, <1>3, <1>4, RemoteSteps

\* Every step keeps the part of the invariant that an atomic push adds.
LEMMA WholeInvNext ==
    ASSUME IInv, [Next]_vars
    PROVE  WholeInv'
<1>1. PublishedWhole' /\ RootInv' BY WholeNext, RootNext DEF IInv, WholeInv
<1>2. CASE UNCHANGED vars
  <2>1. /\ atomic' = atomic /\ heads' = heads /\ head' = head /\ track' = track /\ tags' = tags
        /\ cmd' = cmd /\ crashes' = crashes
    BY <1>2 DEF vars
  <2>2. VersionsGrow => VersionsGrow' BY <2>1 DEF VersionsGrow
  <2>3. Private => Private' BY <2>1 DEF Private, Published
  <2>4. ASSUME NEW c \in Clones PROVE Known(c) => Known(c)'
    <3>1. Published' = Published BY <2>1 DEF Published
    <3> QED BY <2>1, <3>1, KnownPrime DEF Known
  <2>5. \A c \in Clones : Above(c) => Above(c)' BY <2>1 DEF Above, Making
  <2> QED BY <1>1, <2>1, <2>2, <2>3, <2>4, <2>5 DEF IInv, WholeInv
<1>3. ASSUME NEW c \in Clones, Start(c) \/ Step(c) \/ Crash(c) \/ User(c), atomic
      PROVE  VersionsGrow' /\ Private' /\ \A d \in Clones : Known(d)' /\ Above(d)'
  <2>0. /\ BaseInv /\ PublishedWhole /\ RootInv /\ VersionsGrow /\ Private
        /\ \A d \in Clones : Known(d) /\ Above(d)
    BY <1>3 DEF IInv, WholeInv
  <2>1. VersionsGrow' BY <1>3, <2>0, GrowNext
  <2>2. Private' BY <1>3, <2>0, PrivateNext
  <2>3. \A d \in Clones : Known(d)' /\ Above(d)' BY <1>3, <2>0, StepSees, OthersSee
  <2> QED BY <2>1, <2>2, <2>3
<1>4. ASSUME NEW c \in Clones, Start(c) \/ Step(c) \/ Crash(c) \/ User(c)
      PROVE  WholeInv'
  <2>1. atomic' = atomic BY <1>4, StepKeeps DEF IInv, Keeps, Alone, setup
  <2> QED BY <1>1, <1>3, <1>4, <2>1 DEF WholeInv
<1> QED BY <1>2, <1>4 DEF Next

\* It holds in the beginning.
LEMMA WholeInvInit ==
    ASSUME Init
    PROVE  WholeInv
<1>0. BaseInv BY BaseInit
<1>1. Published = CommitsOf(InitBranch)
  BY StampAssumption DEF Init, Published
<1>2. \A c \in Clones : head[c] = InitBranch /\ track[c] = InitBranch /\ cmd[c].at = "idle"
                           /\ cmd[c].orv = None
  BY DEF Init, Rest
<1>3. ~\E x \in CommitsOf(InitBranch) : IsVersion(x) BY InitialIs
<1>4. VersionsGrow BY <1>3 DEF Init, VersionsGrow, CommitsOf
<1>5. Private BY <1>1, <1>2 DEF Private
<1>6. \A c \in Clones : Known(c) /\ Above(c)
  BY <1>2, <1>3 DEF Known, Above, KnownIn, Making
<1>7. RootInv
  <2>1. \A c \in Clones : Gapless(c) BY <1>2 DEF Gapless, Making
  <2>2. ASSUME HasRoot, NEW t \in InitTags, t.kind = Root, NEW j \in Nat, j < t.n
        PROVE  \E u \in InitTags : Named(u, Root, j)
    <3> DEFINE n == Len(SetToSeq(Apps))
               R(i) == [kind |-> Root, n |-> i - 1, on |-> InitCommit(i)]
    <3>1. InitTags = {[kind |-> SetToSeq(Apps)[i], n |-> 0, on |-> InitCommit(i)] : i \in 1 .. n}
                        \cup {R(i) : i \in 1 .. n}
      BY <2>2 DEF InitTags
    <3>2. t.n # 0 /\ t.n \in Nat BY <2>2, InitialIs DEF Tags
    <3>3. PICK i \in 1 .. n : t = R(i) BY <3>1, <3>2
    <3>4. t.n = i - 1 BY <3>3
    <3>5. j + 1 \in 1 .. n BY <2>2, <3>2, <3>4
    <3>6. R(j + 1) \in InitTags BY <3>1, <3>5
    <3>7. Named(R(j + 1), Root, j) BY DEF Named
    <3> QED BY <3>6, <3>7
  <2> QED BY <2>1, <2>2 DEF Init, RootInv, GivenBelow
<1> QED BY <1>4, <1>5, <1>6, <1>7, WholeInit DEF WholeInv

\* The inductive invariant holds in every state.
THEOREM Invariance == Spec => []IInv
<1>1. Init => IInv BY BaseInit, WholeInvInit DEF IInv
<1>2. IInv /\ [Next]_vars => IInv' BY BaseNext, WholeInvNext DEF IInv
<1> QED BY <1>1, <1>2, PTL DEF Spec

\* On an atomic server the versions of an app grow along every branch, and those
\* of the root app too while no stamp was killed, though every clone computes them
\* from the tags it happens to know (advance_version, _next_root_state).
THEOREM VersionsGrowAlways == Spec => [](atomic => VersionsGrow)
<1>1. IInv => (atomic => VersionsGrow) BY DEF IInv, WholeInv
<1> QED BY <1>1, Invariance, PTL

-----------------------------------------------------------------------------
(***************************************************************************)
(* What `stamp --pull` promises when nothing comes between.                *)
(***************************************************************************)

\* The names that the stamp of c is to give are new on the remote.
NewNames(c) == \A t \in rtags : ~Bears(t, Names(c))

\* While nothing failed for it, nobody changed the remote and no command was
\* killed, a command with --pull is never turned back: once it has pulled, it has
\* what the remote has, and what it adds to it is new there.
CalmPull(c) == calm[c] /\ cmd[c].pull =>
    /\ cmd[c].at \notin {"failed", "revert", "refetch", "repull"}
    /\ cmd[c].at \in {"fetch", "pull", "stamp"} => cmd[c].left # 0 /\ cmd[c].orv = None
    /\ cmd[c].at \in {"stamp", "commit", "tag"} => tags[c] = rtags
    /\ cmd[c].at \in {"stamp", "commit"} => head[c] = heads[branchOf[c]]
    /\ cmd[c].at \in {"tag", "push"} => Front(head[c]) = heads[branchOf[c]]
    /\ cmd[c].at \in {"commit", "tag", "push"} => NewNames(c)

\* Every commit on the remote is on the branch the clones are on, and the root
\* app has a version: a clone that has pulled reaches the last root version.
Reached ==
    /\ \A c \in Clones, b \in Branches : IsPrefix(heads[b], heads[branchOf[c]])
    /\ \E t \in rtags : t.kind = Root

\* All clones are on one branch.
AllOnOneBranch == \A L \in Layouts : \A c, d \in Clones : L[c] = L[d]

CalmInv ==
    /\ HasRoot /\ AllOnOneBranch => Reached
    /\ atomic /\ crashes = 0 /\ (HasRoot => AllOnOneBranch) => \A c \in Clones : CalmPull(c)

\* CalmPull(c) after a step.
LEMMA CalmPrime ==
    ASSUME NEW c \in Clones,
           calm'[c] /\ cmd'[c].pull =>
              /\ cmd'[c].at \notin {"failed", "revert", "refetch", "repull"}
              /\ cmd'[c].at \in {"fetch", "pull", "stamp"} =>
                    cmd'[c].left # 0 /\ cmd'[c].orv = None
              /\ cmd'[c].at \in {"stamp", "commit", "tag"} => tags'[c] = rtags'
              /\ cmd'[c].at \in {"stamp", "commit"} => head'[c] = heads'[branchOf'[c]]
              /\ cmd'[c].at \in {"tag", "push"} => Front(head'[c]) = heads'[branchOf'[c]]
              /\ cmd'[c].at \in {"commit", "tag", "push"} => NewNames(c)'
    PROVE  CalmPull(c)'
BY DEF CalmPull

\* A command keeps its --pull, and what has failed for it has failed.
LEMMA CalmBack ==
    ASSUME Typed, NEW c \in Clones, Step(c) \/ Crash(c) \/ User(c), calm'[c], cmd'[c].pull
    PROVE  calm[c] /\ cmd[c].pull
<1>0. /\ cmd \in [Clones -> CmdType] /\ cmd[c] \in CmdType
      /\ calm \in [Clones -> BOOLEAN]
  BY DEF Typed
<1>1. ASSUME Quiet \/ Fault(c) \/ Disturb(c) \/ calm' = calm PROVE calm[c]
  BY <1>0, <1>1 DEF Quiet, Fault, Disturb
<1>2. calm[c]
  <2>1. CASE PushFault(c) BY <2>1 DEF PushFault
  <2>2. CASE Crash(c) BY <1>0, <2>2 DEF Crash
  <2>3. CASE ~PushFault(c) /\ ~Crash(c)
    <3>1. Quiet \/ Fault(c) \/ Disturb(c) \/ calm' = calm
      BY <2>3 DEF Step, User, Fetch, PullFirst, StampVersion, PublishCommit, CreateTags,
                  Push, Revert, Refetch, Repull, UserCommit, UserPull, UserReset
    <3> QED BY <1>1, <3>1
  <2> QED BY <2>1, <2>2, <2>3
<1> SUFFICES cmd[c].pull
  BY <1>2
<1>3. ASSUME NEW at, Go(c, at) \/ End(c, at) PROVE cmd[c].pull
  <2>1. CASE Go(c, at)
    <3>1. cmd'[c] = [cmd[c] EXCEPT !.at = at] BY <1>0, <2>1 DEF Go
    <3>2. [cmd[c] EXCEPT !.at = at].pull = cmd[c].pull BY <1>0 DEF CmdType
    <3> QED BY <3>1, <3>2
  <2>2. CASE End(c, at)
    <3>1. cmd'[c] = Rest(at, cmd[c].app, cmd[c].pull) BY <1>0, <2>2 DEF End
    <3> QED BY <3>1 DEF Rest
  <2> QED BY <1>3, <2>1, <2>2
<1>4. ASSUME NEW e, cmd' = [cmd EXCEPT ![c].at = "revert", ![c].err = e] PROVE cmd[c].pull
  <2>1. cmd'[c] = [cmd[c] EXCEPT !.at = "revert", !.err = e] BY <1>0, <1>4
  <2>2. [cmd[c] EXCEPT !.at = "revert", !.err = e].pull = cmd[c].pull BY <1>0 DEF CmdType
  <2> QED BY <2>1, <2>2
<1>5. CASE Fetch(c) BY <1>3, <1>5 DEF Fetch
<1>6. CASE PullFirst(c) BY <1>3, <1>6 DEF PullFirst
<1>7. CASE StampVersion(c)
  <2>1. CASE End(c, "failed") BY <1>3, <2>1
  <2>2. CASE cmd' = [cmd EXCEPT ![c].at = "commit", ![c].left = Count(c),
                               ![c].ver = NextVersion(c), ![c].root = NextRoot(c)]
    <3> DEFINE n == Count(c) v == NextVersion(c) r == NextRoot(c)
    <3> HIDE DEF n, v, r
    <3>1. cmd'[c] = [cmd[c] EXCEPT !.at = "commit", !.left = n, !.ver = v, !.root = r]
      BY <1>0, <2>2 DEF n, v, r
    <3>2. [cmd[c] EXCEPT !.at = "commit", !.left = n, !.ver = v, !.root = r].pull = cmd[c].pull
      BY <1>0 DEF CmdType
    <3> QED BY <3>1, <3>2
  <2> QED BY <1>7, <2>1, <2>2 DEF StampVersion
<1>8. CASE PublishCommit(c) BY <1>3, <1>8 DEF PublishCommit
<1>9. CASE CreateTags(c) BY <1>3, <1>4, <1>9 DEF CreateTags
<1>10. CASE Push(c) BY <1>3, <1>4, <1>10 DEF Push
<1>11. CASE PushFault(c) BY <1>4, <1>11 DEF PushFault
<1>12. CASE Revert(c) BY <1>3, <1>12 DEF Revert
<1>13. CASE Refetch(c)
  <2>1. CASE cmd' = [cmd EXCEPT ![c].at = "stamp", ![c].base = cmd[c].ver,
                                ![c].orv = IF HasRoot THEN cmd[c].root ELSE None]
    <3> DEFINE o == IF HasRoot THEN cmd[c].root ELSE None v == cmd[c].ver
    <3> HIDE DEF o, v
    <3>1. cmd'[c] = [cmd[c] EXCEPT !.at = "stamp", !.base = v, !.orv = o]
      BY <1>0, <2>1 DEF o, v
    <3>2. [cmd[c] EXCEPT !.at = "stamp", !.base = v, !.orv = o].pull = cmd[c].pull
      BY <1>0 DEF CmdType
    <3> QED BY <3>1, <3>2
  <2> QED BY <1>3, <1>13, <2>1 DEF Refetch
<1>14. CASE Repull(c) BY <1>3, <1>14 DEF Repull
<1>15. CASE Crash(c) BY <1>3, <1>15 DEF Crash
<1>16. CASE User(c) BY <1>16 DEF User, UserCommit, UserPull, UserReset
<1> QED
  BY <1>5, <1>6, <1>7, <1>8, <1>9, <1>10, <1>11, <1>12, <1>13, <1>14, <1>15, <1>16 DEF Step

\* Whoever changes the remote comes between.
LEMMA CalmOthers ==
    ASSUME Typed, NEW c \in Clones, NEW d \in Clones \ {c},
           Start(d) \/ Step(d) \/ Crash(d) \/ User(d), calm'[c]
    PROVE  calm[c] /\ Unmoved
<1>0. calm \in [Clones -> BOOLEAN] /\ c # d BY DEF Typed
<1>1. CASE Push(d)
  <2>1. CASE Accepted(d).branch \/ Accepted(d).tags # {}
    BY <1>0, <1>1, <2>1 DEF Push, Disturb
  <2>2. CASE ~(Accepted(d).branch \/ Accepted(d).tags # {})
    BY <1>1, <2>2 DEF Push, Land, Unmoved
  <2> QED BY <2>1, <2>2
<1>2. CASE PushFault(d) BY <1>2 DEF PushFault
<1>3. CASE UserCommit(d) BY <1>0, <1>3 DEF UserCommit, Disturb
<1>4. CASE ~(Push(d) \/ PushFault(d) \/ UserCommit(d))
  <2>1. UNCHANGED remote
    BY <1>4 DEF Step, User, Start, Crash, Fetch, PullFirst, StampVersion, PublishCommit,
                CreateTags, Revert, Refetch, Repull, UserPull, UserReset
  <2>2. \/ Quiet \/ Fault(d) \/ calm' = calm
        \/ calm' = [calm EXCEPT ![d] = TRUE] \/ calm' = [calm EXCEPT ![d] = FALSE]
    BY <1>4 DEF Step, User, Start, Crash, Fetch, PullFirst, StampVersion, PublishCommit,
                CreateTags, Revert, Refetch, Repull, UserPull, UserReset
  <2>3. calm[c] BY <1>0, <2>2 DEF Quiet, Fault
  <2> QED BY <2>1, <2>3 DEF remote, Unmoved
<1> QED BY <1>1, <1>2, <1>3, <1>4

\* A clone without tags of its own: its fetch brings the remote's.
LEMMA FetchedAll ==
    ASSUME Distinct, NEW c \in Clones, tags[c] \subseteq rtags
    PROVE  ~Clobbered(c) /\ Fetched(c) = rtags
<1>1. \A t \in rtags : \A u \in tags[c] : Named(u, t.kind, t.n) => u = t
  BY DEF Distinct
<1> QED BY <1>1 DEF Clobbered, Fetched

\* The start of a stamp: all its retries are left.
LEMMA StartCalm ==
    ASSUME Typed, Retries # 0, NEW c \in Clones, Start(c)
    PROVE  CalmPull(c)'
<1>1. PICK app \in AppsOf[c], pull \in Pull :
         cmd' = [cmd EXCEPT ![c] =
             [at |-> "fetch", app |-> app, pull |-> pull, from |-> last_user_changeset(c),
              base |-> verstr_from_file(c, app), orv |-> None, ver |-> 0, root |-> 0,
              left |-> Retries, err |-> 0]]
  BY DEF Start
<1>2. cmd'[c].at = "fetch" /\ cmd'[c].left = Retries /\ cmd'[c].orv = None
  BY <1>1 DEF Typed
<1> QED BY <1>2, CalmPrime

\* What a command that goes on keeps.
LEMMA GoKeeps ==
    ASSUME Typed, NEW c \in Clones, NEW at \in Stages, Go(c, at)
    PROVE  /\ cmd'[c].at = at /\ cmd'[c].left = cmd[c].left /\ cmd'[c].orv = cmd[c].orv
           /\ Names(c)' = Names(c)
<1>1. cmd'[c] = [cmd[c] EXCEPT !.at = at] /\ cmd[c] \in CmdType BY GoIs DEF Typed
<1>2. cmd'[c].left = cmd[c].left BY <1>1 DEF CmdType
<1>3. /\ cmd'[c].at = at /\ cmd'[c].orv = cmd[c].orv
      /\ cmd'[c].app = cmd[c].app /\ cmd'[c].ver = cmd[c].ver /\ cmd'[c].root = cmd[c].root
  BY GoIs
<1> QED BY <1>2, <1>3 DEF Names

\* The cached fetch finds no tag of another name, and goes on to the pull.
LEMMA FetchCalm ==
    ASSUME BaseInv, crashes = 0, NEW c \in Clones, CalmPull(c), calm[c], cmd[c].pull, Fetch(c)
    PROVE  CalmPull(c)'
<1>0. Typed /\ Distinct BY DEF BaseInv
<1>1. cmd[c].at = "fetch" BY DEF Fetch
<1>2. tags[c] \subseteq rtags BY <1>1, BeforeIs
<1>3. ~Clobbered(c) BY <1>0, <1>2, FetchedAll
<1>4. CASE Fault(c)
  <2>1. ~calm'[c] BY <1>0, <1>4 DEF Fault, Typed
  <2> QED BY <2>1 DEF CalmPull
<1>5. CASE Go(c, "pull")
  <2>1. "pull" \in Stages BY DEF Stages
  <2>2. cmd'[c].at = "pull" /\ cmd'[c].left = cmd[c].left /\ cmd'[c].orv = cmd[c].orv
    BY <1>0, <1>5, <2>1, GoKeeps
  <2>3. cmd[c].left # 0 /\ cmd[c].orv = None BY <1>1 DEF CalmPull
  <2> QED BY <2>2, <2>3, CalmPrime
<1> QED BY <1>3, <1>4, <1>5 DEF Fetch

\* The pull brings what the remote has (_retrieve_stamp_updates).
LEMMA PullFirstCalm ==
    ASSUME BaseInv, crashes = 0, NEW c \in Clones, CalmPull(c), calm[c], cmd[c].pull,
           PullFirst(c)
    PROVE  CalmPull(c)'
<1> DEFINE h == heads[branchOf[c]]
<1>0. Typed /\ Distinct BY DEF BaseInv
<1>1. cmd[c].at = "pull" /\ heads' = heads /\ rtags' = rtags /\ branchOf' = branchOf
  BY DEF PullFirst, remote, setup
<1>2. tags[c] \subseteq rtags BY <1>1, BeforeIs
<1>3. ~Clobbered(c) /\ Fetched(c) = rtags BY <1>0, <1>2, FetchedAll
<1>4. CASE Fault(c)
  <2>1. ~calm'[c] BY <1>0, <1>4 DEF Fault, Typed
  <2> QED BY <2>1 DEF CalmPull
<1>5. CASE /\ tags' = [tags EXCEPT ![c] = Fetched(c)] /\ head' = [head EXCEPT ![c] = h]
           /\ Go(c, "stamp")
  <2>1. "stamp" \in Stages BY DEF Stages
  <2>2. cmd'[c].at = "stamp" /\ cmd'[c].left = cmd[c].left /\ cmd'[c].orv = cmd[c].orv
    BY <1>0, <1>5, <2>1, GoKeeps
  <2>3. cmd[c].left # 0 /\ cmd[c].orv = None BY <1>1 DEF CalmPull
  <2>4. tags'[c] = rtags' /\ head'[c] = heads'[branchOf'[c]]
    BY <1>0, <1>1, <1>3, <1>5 DEF Typed
  <2> QED BY <2>2, <2>3, <2>4, CalmPrime
<1> QED BY <1>3, <1>4, <1>5 DEF PullFirst

\* A clone that has the remote's tags reaches every root version.
LEMMA RootsReached ==
    ASSUME BaseInv, PublishedWhole, atomic, Reached, NEW c \in Clones,
           tags[c] = rtags, head[c] = heads[branchOf[c]]
    PROVE  /\ ReachableRoots(c) # {}
           /\ \A t \in rtags : t.kind = Root => t.n \in ReachableRoots(c)
<1> DEFINE h == heads[branchOf[c]]
<1>1. \A t \in rtags : t.on \in Published BY DEF PublishedWhole
<1>2. Published \subseteq CommitsOf(h)
  <2>1. \A b \in Branches : IsPrefix(heads[b], h) BY DEF Reached
  <2>2. h \in Seq(Commits) /\ \A b \in Branches : heads[b] \in Seq(Commits)
    BY PartsAre DEF BaseInv, Typed
  <2> HIDE DEF h
  <2>3. \A b \in Branches : CommitsOf(heads[b]) \subseteq CommitsOf(h)
    BY <2>1, <2>2, CommitsOfIs
  <2> QED BY <2>3 DEF Published
<1>3. \A t \in rtags : t.kind = Root => t.n \in ReachableRoots(c)
  BY <1>1, <1>2 DEF ReachableRoots
<1>4. \E t \in rtags : t.kind = Root BY DEF Reached
<1> QED BY <1>3, <1>4

\* What is chosen is above all that the remote has (advance_version,
\* _next_root_state).
LEMMA StampVersionCalm ==
    ASSUME BaseInv, PublishedWhole, atomic, HasRoot => Reached, NEW c \in Clones,
           CalmPull(c), calm[c], cmd[c].pull, StampVersion(c)
    PROVE  CalmPull(c)'
<1>0. Typed /\ cmd[c] \in CmdType /\ cmd \in [Clones -> CmdType] BY DEF BaseInv, Typed
<1>1. /\ cmd[c].at = "stamp" /\ heads' = heads /\ rtags' = rtags /\ branchOf' = branchOf
      /\ head' = head /\ tags' = tags
  BY DEF StampVersion, remote, setup
<1>2. /\ cmd[c].left # 0 /\ cmd[c].orv = None
      /\ tags[c] = rtags /\ head[c] = heads[branchOf[c]]
  BY <1>1 DEF CalmPull
<1>3. HasRoot => /\ ReachableRoots(c) # {}
                 /\ \A t \in rtags : t.kind = Root => t.n \in ReachableRoots(c)
  BY <1>2, RootsReached
<1>4. cmd' = [cmd EXCEPT ![c].at = "commit", ![c].left = Count(c),
                         ![c].ver = NextVersion(c), ![c].root = NextRoot(c)]
  BY <1>2, <1>3 DEF StampVersion
<1>5. /\ cmd'[c].at = "commit" /\ cmd'[c].app = cmd[c].app
      /\ cmd'[c].ver = NextVersion(c) /\ cmd'[c].root = NextRoot(c)
  <2> DEFINE n == Count(c) v == NextVersion(c) r == NextRoot(c)
  <2>1. cmd' = [cmd EXCEPT ![c] = [cmd[c] EXCEPT !.at = "commit", !.left = n,
                                                 !.ver = v, !.root = r]]
    BY <1>0, <1>4
  <2> HIDE DEF n, v, r
  <2>2. cmd'[c] = [cmd[c] EXCEPT !.at = "commit", !.left = n, !.ver = v, !.root = r]
    BY <1>0, <2>1
  <2>3. /\ cmd'[c].at = "commit" /\ cmd'[c].app = cmd[c].app
        /\ cmd'[c].ver = v /\ cmd'[c].root = r
    BY <1>0, <2>2 DEF CmdType
  <2> QED BY <2>3 DEF n, v, r
<1>6. \A t \in rtags : t.kind = cmd[c].app => t.n < NextVersion(c)
  BY <1>0, <1>2, NextVersionIs
<1>7. HasRoot => \A t \in rtags : t.kind = Root => t.n < NextRoot(c)
  BY <1>0, <1>2, <1>3, NextRootIs
<1>8. \A t \in rtags : t.n \in Nat BY <1>0 DEF Typed, Tags
<1>9. NewNames(c)'
  <2>1. Names(c)' = {<<cmd[c].app, NextVersion(c)>>}
                       \cup (IF HasRoot THEN {<<Root, NextRoot(c)>>} ELSE {})
    BY <1>5 DEF Names
  <2>2. ASSUME NEW t \in rtags PROVE <<t.kind, t.n>> \notin Names(c)'
    <3>1. <<t.kind, t.n>> # <<cmd[c].app, NextVersion(c)>> BY <1>6, <1>8
    <3>2. HasRoot => <<t.kind, t.n>> # <<Root, NextRoot(c)>> BY <1>7, <1>8
    <3> QED BY <2>1, <3>1, <3>2
  <2> QED BY <1>1, <2>2 DEF NewNames, Bears
<1> QED BY <1>1, <1>2, <1>5, <1>9, CalmPrime

\* The version commit comes on top of the remote's branch.
LEMMA PublishCommitCalm ==
    ASSUME BaseInv, NEW c \in Clones, CalmPull(c), calm[c], cmd[c].pull, PublishCommit(c)
    PROVE  CalmPull(c)'
<1> DEFINE x == [id |-> NewId, app |-> cmd[c].app, ver |-> cmd[c].ver, root |-> cmd[c].root,
                 from |-> cmd[c].from]
<1>0. Typed /\ cmd[c] \in CmdType BY DEF BaseInv, Typed
<1>1. /\ cmd[c].at = "commit" /\ heads' = heads /\ rtags' = rtags /\ branchOf' = branchOf
      /\ tags' = tags
  BY DEF PublishCommit, remote, setup
<1>2. tags[c] = rtags /\ head[c] = heads[branchOf[c]] /\ NewNames(c) BY <1>1 DEF CalmPull
<1>3. CASE Fault(c)
  <2>1. ~calm'[c] BY <1>0, <1>3 DEF Fault, Typed
  <2> QED BY <2>1 DEF CalmPull
<1>4. CASE head' = [head EXCEPT ![c] = Append(head[c], x)] /\ Go(c, "tag")
  <2>1. x \in Commits
    <3>1. NewId \in Nat BY <1>0, NewIdIs
    <3> QED BY <1>0, <3>1 DEF Commits, CmdType
  <2> HIDE DEF x
  <2>2. Front(Append(head[c], x)) = head[c] BY <1>0, <2>1, PartsAre, AppendIs
  <2>3. Front(head'[c]) = heads'[branchOf'[c]]
    BY <1>0, <1>1, <1>2, <1>4, <2>2 DEF Typed
  <2>4. cmd'[c].at = "tag" /\ Names(c)' = Names(c)
    <3>1. "tag" \in Stages BY DEF Stages
    <3> QED BY <1>0, <1>4, <3>1, GoKeeps
  <2>5. NewNames(c)' BY <1>1, <1>2, <2>4 DEF NewNames, Bears
  <2> QED BY <1>1, <1>2, <2>3, <2>4, <2>5, CalmPrime
<1> QED BY <1>3, <1>4 DEF PublishCommit

\* No tag of the stamp is taken (_create_tags).
LEMMA CreateTagsCalm ==
    ASSUME BaseInv, NEW c \in Clones, CalmPull(c), calm[c], cmd[c].pull, CreateTags(c)
    PROVE  CalmPull(c)'
<1> DEFINE taken == {m \in Names(c) : \E t \in tags[c] : Named(t, m[1], m[2])}
<1>0. Typed BY DEF BaseInv
<1>1. /\ cmd[c].at = "tag" /\ heads' = heads /\ rtags' = rtags /\ branchOf' = branchOf
      /\ head' = head
  BY DEF CreateTags, remote, setup
<1>2. tags[c] = rtags /\ Front(head[c]) = heads[branchOf[c]] /\ NewNames(c)
  BY <1>1 DEF CalmPull
<1>3. taken = {}
  <2>1. \A t \in rtags : <<t.kind, t.n>> \notin Names(c) BY <1>2 DEF NewNames, Bears
  <2>2. \A m \in Names(c) : m = <<m[1], m[2]>> BY DEF Names
  <2> QED BY <1>2, <2>1, <2>2 DEF Named
<1>4. Go(c, "push") BY <1>3 DEF CreateTags
<1>5. cmd'[c].at = "push" /\ Names(c)' = Names(c)
  <2>1. "push" \in Stages BY DEF Stages
  <2> QED BY <1>0, <1>4, <2>1, GoKeeps
<1>6. NewNames(c)' BY <1>1, <1>2, <1>5 DEF NewNames, Bears
<1> QED BY <1>1, <1>2, <1>5, <1>6, CalmPrime

\* The remote takes the push as a whole (_push_published_refs).
LEMMA PushCalm ==
    ASSUME BaseInv, NEW c \in Clones, CalmPull(c), calm[c], cmd[c].pull, Push(c)
    PROVE  CalmPull(c)'
<1> DEFINE O == TagsOn(c, Last(head[c]))
<1>0. Typed BY DEF BaseInv
<1>1. cmd[c].at = "push" BY DEF Push
<1>2. Front(head[c]) = heads[branchOf[c]] /\ NewNames(c) BY <1>1 DEF CalmPull
<1>3. FastForward(c)
  <2>1. IsPrefix(Front(head[c]), head[c]) BY <1>0, PartsAre, FrontIs
  <2> QED BY <1>2, <2>1 DEF FastForward
<1>4. NewTags(c) = O
  <2>1. \A t \in O : <<t.kind, t.n>> \in Names(c)
    <3>1. \A m \in Names(c) : m = <<m[1], m[2]>> BY DEF Names
    <3> QED BY <3>1 DEF TagsOn
  <2>2. \A u \in rtags : <<u.kind, u.n>> \notin Names(c) BY <1>2 DEF NewNames, Bears
  <2> HIDE DEF O
  <2>3. \A t \in O : \A u \in rtags : ~Named(u, t.kind, t.n) BY <2>1, <2>2 DEF Named
  <2> QED BY <2>3 DEF NewTags, O
<1>5. Whole(c)
  <2>1. Accepted(c) = [branch |-> FastForward(c), tags |-> NewTags(c)]
    BY <1>3, <1>4 DEF Accepted
  <2> QED BY <1>3, <1>4, <2>1 DEF Whole
<1>6. End(c, "stamped") BY <1>5 DEF Push
<1>7. cmd'[c].at = "stamped"
  <2>1. "stamped" \in Stages BY DEF Stages, Resting
  <2> QED BY <1>0, <1>6, <2>1, EndIs
<1> QED BY <1>7, CalmPrime

\* A step of the clone itself.
LEMMA OwnCalm ==
    ASSUME IInv, CalmInv, Retries # 0, atomic, crashes = 0, HasRoot => AllOnOneBranch,
           NEW c \in Clones, Start(c) \/ Step(c) \/ Crash(c) \/ User(c)
    PROVE  CalmPull(c)'
<1>0. /\ BaseInv /\ Typed /\ PublishedWhole /\ (HasRoot => Reached) /\ CalmPull(c)
  BY DEF IInv, WholeInv, BaseInv, CalmInv
<1>1. CASE Start(c) BY <1>0, <1>1, StartCalm
<1>2. CASE Step(c) \/ Crash(c) \/ User(c)
  <2> SUFFICES ASSUME calm'[c], cmd'[c].pull
               PROVE  CalmPull(c)'
    BY DEF CalmPull
  <2>1. calm[c] /\ cmd[c].pull BY <1>0, <1>2, CalmBack
  <2>2. cmd[c].at \notin {"failed", "revert", "refetch", "repull"}
    BY <1>0, <2>1 DEF CalmPull
  <2>3. CASE Fetch(c) BY <1>0, <2>1, <2>3, FetchCalm
  <2>4. CASE PullFirst(c) BY <1>0, <2>1, <2>4, PullFirstCalm
  <2>5. CASE StampVersion(c) BY <1>0, <2>1, <2>5, StampVersionCalm
  <2>6. CASE PublishCommit(c) BY <1>0, <2>1, <2>6, PublishCommitCalm
  <2>7. CASE CreateTags(c) BY <1>0, <2>1, <2>7, CreateTagsCalm
  <2>8. CASE Push(c) BY <1>0, <2>1, <2>8, PushCalm
  <2>9. CASE PushFault(c) BY <2>9 DEF PushFault
  <2>10. CASE Revert(c) \/ Refetch(c) \/ Repull(c) BY <2>2, <2>10 DEF Revert, Refetch, Repull
  <2>11. CASE Crash(c)
    <3>1. ~calm'[c] BY <1>0, <2>11 DEF Crash, Typed
    <3> QED BY <3>1
  <2>12. CASE User(c)
    <3>1. cmd' = cmd /\ cmd[c].at \in {"idle", "stamped", "crashed"}
      BY <2>2, <2>12 DEF User, UserCommit, UserPull, UserReset, Resting
    <3> QED BY <3>1, CalmPrime
  <2> QED BY <1>2, <2>3, <2>4, <2>5, <2>6, <2>7, <2>8, <2>9, <2>10, <2>11, <2>12 DEF Step
<1> QED BY <1>1, <1>2

\* A step of another clone changes nothing for it, or comes between.
LEMMA OtherCalm ==
    ASSUME BaseInv, NEW c \in Clones, NEW d \in Clones \ {c}, CalmPull(c),
           Start(d) \/ Step(d) \/ Crash(d) \/ User(d)
    PROVE  CalmPull(c)'
<1> SUFFICES ASSUME calm'[c]
             PROVE  CalmPull(c)'
  BY DEF CalmPull
<1>1. calm[c] /\ heads' = heads /\ rtags' = rtags
  BY CalmOthers DEF BaseInv, Unmoved
<1>2. /\ head'[c] = head[c] /\ tags'[c] = tags[c] /\ cmd'[c] = cmd[c]
      /\ branchOf' = branchOf
  BY StepKeeps DEF Keeps, Alone, setup
<1>3. NewNames(c)' = NewNames(c) BY <1>1, <1>2 DEF NewNames, Bears, Names
<1> QED BY <1>1, <1>2, <1>3 DEF CalmPull

\* Only the branch of a clone grows by its steps.
LEMMA OneGrows ==
    ASSUME NEW c \in Clones, Start(c) \/ Step(c) \/ Crash(c) \/ User(c)
    PROVE  heads' = heads \/ \E h : heads' = [heads EXCEPT ![branchOf[c]] = h]
<1>1. CASE Push(c) BY <1>1 DEF Push, Land
<1>2. CASE PushFault(c) BY <1>2 DEF PushFault
<1>3. CASE UserCommit(c) BY <1>3 DEF UserCommit
<1>4. CASE ~(Push(c) \/ PushFault(c) \/ UserCommit(c))
  <2>1. UNCHANGED remote
    BY <1>4 DEF Step, User, Start, Crash, Fetch, PullFirst, StampVersion, PublishCommit,
                CreateTags, Revert, Refetch, Repull, UserPull, UserReset
  <2> QED BY <2>1 DEF remote
<1> QED BY <1>1, <1>2, <1>3, <1>4

\* The other branches stay behind the one the clones are on.
LEMMA ReachedNext ==
    ASSUME BaseInv, AllOnOneBranch, Reached, NEW c \in Clones,
           Start(c) \/ Step(c) \/ Crash(c) \/ User(c)
    PROVE  Reached'
<1>0. Typed /\ Typed' /\ Alone(c) BY StepKeeps DEF BaseInv, Keeps
<1>1. ASSUME NEW d \in Clones, NEW b \in Branches
      PROVE  IsPrefix(heads'[b], heads'[branchOf'[d]])
  <2> DEFINE a == branchOf[c]
  <2>1. branchOf' = branchOf /\ branchOf[d] = a /\ a \in Branches
    BY <1>0, PartsAre DEF Alone, setup, Typed, AllOnOneBranch
  <2> HIDE DEF a
  <2>2. /\ heads[b] \in Seq(Commits) /\ heads'[b] \in Seq(Commits)
        /\ heads[a] \in Seq(Commits) /\ heads'[a] \in Seq(Commits)
    BY <1>0, <2>1 DEF Typed
  <2>3. CASE b = a BY <2>1, <2>2, <2>3, PrefixRefl
  <2>4. CASE b # a
    <3>1. heads'[b] = heads[b] BY <1>0, <2>4, OneGrows DEF a, Typed
    <3>2. IsPrefix(heads[b], heads[a]) BY <2>1 DEF Reached
    <3>3. IsPrefix(heads[a], heads'[a]) BY <1>0, <2>1 DEF Alone
    <3> QED BY <2>1, <2>2, <3>1, <3>2, <3>3, PrefixTrans
  <2> QED BY <2>3, <2>4
<1>2. \E t \in rtags' : t.kind = Root BY <1>0 DEF Reached, Alone
<1> QED BY <1>1, <1>2 DEF Reached

\* Every step keeps it.
LEMMA CalmNext ==
    ASSUME IInv, CalmInv, Retries # 0, [Next]_vars
    PROVE  CalmInv'
<1>0. BaseInv BY DEF IInv
<1>1. CASE UNCHANGED vars
  <2>1. /\ atomic' = atomic /\ branchOf' = branchOf /\ heads' = heads /\ rtags' = rtags
        /\ head' = head /\ tags' = tags /\ cmd' = cmd /\ calm' = calm /\ crashes' = crashes
    BY <1>1 DEF vars, setup
  <2>2. Reached => Reached' BY <2>1 DEF Reached
  <2>3. \A c \in Clones : CalmPull(c) => CalmPull(c)'
    BY <2>1 DEF CalmPull, NewNames, Bears, Names
  <2> QED BY <2>1, <2>2, <2>3 DEF CalmInv
<1>2. ASSUME NEW d \in Clones, Start(d) \/ Step(d) \/ Crash(d) \/ User(d)
      PROVE  CalmInv'
  <2>1. HasRoot /\ AllOnOneBranch => Reached' BY <1>0, <1>2, ReachedNext DEF CalmInv
  <2>2. atomic' = atomic /\ (crashes # 0 => crashes' # 0)
    BY <1>0, <1>2, StepKeeps DEF Keeps, Alone, setup
  <2>3. ASSUME atomic, crashes = 0, HasRoot => AllOnOneBranch, NEW c \in Clones
        PROVE  CalmPull(c)'
    <3>1. CASE c = d BY <1>2, <2>3, <3>1, OwnCalm
    <3>2. CASE c # d
      <4>1. CalmPull(c) /\ d \in Clones \ {c} BY <2>3, <3>2 DEF CalmInv
      <4> QED BY <1>0, <1>2, <4>1, OtherCalm
    <3> QED BY <3>1, <3>2
  <2> QED BY <2>1, <2>2, <2>3 DEF CalmInv
<1> QED BY <1>1, <1>2 DEF Next

\* It holds in the beginning.
LEMMA CalmInit ==
    ASSUME Init
    PROVE  CalmInv
<1>1. \A c \in Clones : CalmPull(c) BY DEF Init, CalmPull
<1>2. ASSUME HasRoot PROVE Reached
  <2>1. \A c \in Clones : branchOf[c] \in Branches BY BaseInit, PartsAre DEF BaseInv
  <2>2. \A c \in Clones, b \in Branches : IsPrefix(heads[b], heads[branchOf[c]])
    BY <2>1, InitialIs, PrefixRefl DEF Init
  <2>3. \E t \in InitTags : t.kind = Root BY <1>2, InitialIs
  <2> QED BY <2>2, <2>3 DEF Init, Reached
<1> QED BY <1>1, <1>2 DEF CalmInv

\* `stamp --pull` gets through.
THEOREM PullGetsThroughAlways ==
    ASSUME Retries # 0, HasRoot => AllOnOneBranch
    PROVE  Spec => []PullGetsThrough
<1>1. Init => CalmInv BY CalmInit
<1>2. IInv /\ CalmInv /\ [Next]_vars => CalmInv' BY CalmNext
<1>3. CalmInv => PullGetsThrough BY DEF CalmInv, CalmPull, PullGetsThrough
<1> QED BY <1>1, <1>2, <1>3, Invariance, PTL DEF Spec

-----------------------------------------------------------------------------
(***************************************************************************)
(* Why every stamp ends: a command has only so many steps left.            *)
(***************************************************************************)

\* The steps to the end of an attempt, and seven for every attempt to come.
StepsOf(at) ==
    CASE at \in Resting              -> 0
      [] at = "stamp"                -> 1
      [] at \in {"pull", "repull"}   -> 2
      [] at \in {"fetch", "refetch"} -> 3
      [] at = "revert"               -> 4
      [] at = "push"                 -> 5
      [] at = "tag"                  -> 6
      [] at = "commit"               -> 7

StepsLeft(c) == 7 * cmd[c].left + StepsOf(cmd[c].at)

\* A step of a command brings it nearer to its end, whether its git calls work or
\* fail; nobody else's takes it further away.
RunsOut ==
    \A c \in Clones :
       /\ Step(c) => StepsLeft(c)' < StepsLeft(c)
       /\ cmd[c].at \notin Resting => StepsLeft(c)' <= StepsLeft(c)
       /\ Start(c) => StepsLeft(c)' = 7 * Retries + 3

\* How many steps there are in each stage.
LEMMA StepsAre ==
    /\ \A at \in Resting : StepsOf(at) = 0
    /\ StepsOf("stamp") = 1 /\ StepsOf("pull") = 2 /\ StepsOf("repull") = 2
    /\ StepsOf("fetch") = 3 /\ StepsOf("refetch") = 3 /\ StepsOf("revert") = 4
    /\ StepsOf("push") = 5 /\ StepsOf("tag") = 6 /\ StepsOf("commit") = 7
    /\ \A at \in Stages : StepsOf(at) \in 0 .. 7
    /\ \A at \in Stages \ Resting : StepsOf(at) # 0
BY DEF StepsOf, Stages, Resting

\* A command that goes on keeps its retries; one that ends has none.
LEMMA LeftIs ==
    ASSUME Typed, NEW c \in Clones
    PROVE  /\ cmd[c].left \in Nat /\ cmd[c].at \in Stages
           /\ \A at \in Stages : Go(c, at) =>
                 cmd'[c].at = at /\ cmd'[c].left = cmd[c].left
           /\ \A at \in Resting : End(c, at) => cmd'[c].at = at /\ cmd'[c].left = 0
           /\ \A e : cmd' = [cmd EXCEPT ![c].at = "revert", ![c].err = e] =>
                 cmd'[c].at = "revert" /\ cmd'[c].left = cmd[c].left
<1>0. cmd \in [Clones -> CmdType] /\ cmd[c] \in CmdType BY DEF Typed
<1>1. cmd[c].left \in Nat /\ cmd[c].at \in Stages BY <1>0, StampAssumption DEF CmdType
<1>2. ASSUME NEW at \in Stages, Go(c, at)
      PROVE  cmd'[c].at = at /\ cmd'[c].left = cmd[c].left
  BY <1>2, GoKeeps
<1>3. ASSUME NEW at \in Resting, End(c, at)
      PROVE  cmd'[c].at = at /\ cmd'[c].left = 0
  <2>1. cmd'[c] = Rest(at, cmd[c].app, cmd[c].pull) BY <1>0, <1>3 DEF End
  <2> QED BY <2>1 DEF Rest
<1>4. ASSUME NEW e, cmd' = [cmd EXCEPT ![c].at = "revert", ![c].err = e]
      PROVE  cmd'[c].at = "revert" /\ cmd'[c].left = cmd[c].left
  <2>1. cmd'[c] = [cmd[c] EXCEPT !.at = "revert", !.err = e] BY <1>0, <1>4
  <2> QED BY <1>0, <2>1 DEF CmdType
<1> QED BY <1>1, <1>2, <1>3, <1>4

\* Every step of a command, failures included.
LEMMA StepCloser ==
    ASSUME Typed, NEW c \in Clones, Step(c) \/ Crash(c)
    PROVE  StepsLeft(c)' < StepsLeft(c)
<1> DEFINE n == cmd[c].left
           s == StepsOf(cmd[c].at)
<1>0. /\ n \in Nat /\ s \in 0 .. 7 /\ StepsLeft(c) = 7 * n + s
      /\ StepsLeft(c)' = 7 * cmd'[c].left + StepsOf(cmd'[c].at)
  BY LeftIs, StepsAre DEF StepsLeft
<1>1. ASSUME NEW at \in Resting, End(c, at), cmd[c].at \in Stages \ Resting
      PROVE  StepsLeft(c)' < StepsLeft(c)
  <2>1. cmd'[c].left = 0 /\ StepsOf(cmd'[c].at) = 0 BY <1>1, LeftIs, StepsAre
  <2>2. s # 0 BY <1>1, StepsAre
  <2> HIDE DEF n, s
  <2> QED BY <1>0, <2>1, <2>2
<1>2. ASSUME NEW at \in Stages, StepsOf(at) < s, cmd'[c].at = at, cmd'[c].left = n
      PROVE  StepsLeft(c)' < StepsLeft(c)
  <2>1. StepsOf(at) \in 0 .. 7 BY StepsAre
  <2> HIDE DEF n, s
  <2> QED BY <1>0, <1>2, <2>1
<1>3. ASSUME NEW at \in Stages, StepsOf(at) < s, Go(c, at)
      PROVE  StepsLeft(c)' < StepsLeft(c)
  BY <1>2, <1>3, LeftIs
<1>4. /\ "failed" \in Resting /\ "stamped" \in Resting /\ "crashed" \in Resting
      /\ {"fetch", "pull", "stamp", "commit", "tag", "push", "revert", "refetch", "repull"}
            \subseteq Stages \ Resting
  BY DEF Stages, Resting
<1>5. CASE Fetch(c)
  <2>1. cmd[c].at = "fetch" BY <1>5 DEF Fetch
  <2>2. s = 3 BY <2>1, StepsAre
  <2> HIDE DEF s
  <2> QED BY <1>1, <1>3, <1>4, <1>5, <2>1, <2>2, StepsAre DEF Fetch
<1>6. CASE PullFirst(c)
  <2>1. cmd[c].at = "pull" BY <1>6 DEF PullFirst
  <2>2. s = 2 BY <2>1, StepsAre
  <2> HIDE DEF s
  <2> QED BY <1>1, <1>3, <1>4, <1>6, <2>1, <2>2, StepsAre DEF PullFirst
<1>7. CASE StampVersion(c)
  <2>1. cmd[c].at = "stamp" BY <1>7 DEF StampVersion
  <2>2. s = 1 BY <2>1, StepsAre
  <2>3. CASE End(c, "failed") BY <1>1, <1>4, <2>1, <2>3
  <2>4. CASE /\ n # 0
             /\ cmd' = [cmd EXCEPT ![c].at = "commit", ![c].left = Count(c),
                                   ![c].ver = NextVersion(c), ![c].root = NextRoot(c)]
    <3> DEFINE k == Count(c) v == NextVersion(c) r == NextRoot(c)
    <3>1. cmd \in [Clones -> CmdType] /\ cmd[c] \in CmdType BY DEF Typed
    <3>2. cmd' = [cmd EXCEPT ![c] = [cmd[c] EXCEPT !.at = "commit", !.left = k,
                                                   !.ver = v, !.root = r]]
      BY <2>4, <3>1
    <3>3. k = n - 1 BY DEF Count
    <3> HIDE DEF k, v, r
    <3>4. cmd'[c].at = "commit" /\ cmd'[c].left = k BY <3>1, <3>2 DEF CmdType
    <3>5. StepsOf(cmd'[c].at) = 7 BY <3>4, StepsAre
    <3> HIDE DEF n, s
    <3> QED BY <1>0, <2>2, <2>4, <3>3, <3>4, <3>5
  <2> QED BY <1>7, <2>3, <2>4 DEF StampVersion
<1>8. CASE PublishCommit(c)
  <2>1. cmd[c].at = "commit" BY <1>8 DEF PublishCommit
  <2>2. s = 7 BY <2>1, StepsAre
  <2> HIDE DEF s
  <2> QED BY <1>1, <1>3, <1>4, <1>8, <2>1, <2>2, StepsAre DEF PublishCommit
<1>9. CASE CreateTags(c)
  <2>1. cmd[c].at = "tag" BY <1>9 DEF CreateTags
  <2>2. s = 6 BY <2>1, StepsAre
  <2>3. Go(c, "push") \/ cmd' = [cmd EXCEPT ![c].at = "revert", ![c].err = 1]
    BY <1>9 DEF CreateTags
  <2> HIDE DEF s
  <2> QED BY <1>2, <1>3, <1>4, <2>2, <2>3, StepsAre, LeftIs
<1>10. CASE Push(c) \/ PushFault(c)
  <2>1. cmd[c].at = "push" BY <1>10 DEF Push, PushFault
  <2>2. s = 5 BY <2>1, StepsAre
  <2>3. End(c, "stamped") \/ cmd' = [cmd EXCEPT ![c].at = "revert", ![c].err = 2]
    BY <1>10 DEF Push, PushFault
  <2> HIDE DEF s
  <2> QED BY <1>1, <1>2, <1>4, <2>1, <2>2, <2>3, StepsAre, LeftIs
<1>11. CASE Revert(c)
  <2>1. cmd[c].at = "revert" BY <1>11 DEF Revert
  <2>2. s = 4 BY <2>1, StepsAre
  <2> HIDE DEF s
  <2> QED BY <1>3, <1>4, <1>11, <2>2, StepsAre DEF Revert
<1>12. CASE Refetch(c)
  <2>1. cmd[c].at = "refetch" BY <1>12 DEF Refetch
  <2>2. s = 3 BY <2>1, StepsAre
  <2>3. CASE Go(c, "repull")
    <3> HIDE DEF s
    <3> QED BY <1>3, <1>4, <2>2, <2>3, StepsAre
  <2>4. CASE End(c, "failed") BY <1>1, <1>4, <2>1, <2>4
  <2>5. CASE cmd' = [cmd EXCEPT ![c].at = "stamp", ![c].base = cmd[c].ver,
                                ![c].orv = IF HasRoot THEN cmd[c].root ELSE None]
    <3> DEFINE v == cmd[c].ver o == IF HasRoot THEN cmd[c].root ELSE None
    <3>1. cmd \in [Clones -> CmdType] /\ cmd[c] \in CmdType BY DEF Typed
    <3>2. cmd' = [cmd EXCEPT ![c] = [cmd[c] EXCEPT !.at = "stamp", !.base = v, !.orv = o]]
      BY <2>5, <3>1
    <3> HIDE DEF v, o
    <3>3. cmd'[c].at = "stamp" /\ cmd'[c].left = n BY <3>1, <3>2 DEF CmdType
    <3> HIDE DEF n, s
    <3> QED BY <1>2, <1>4, <2>2, <3>3, StepsAre DEF n
  <2> QED BY <1>12, <2>3, <2>4, <2>5 DEF Refetch
<1>13. CASE Repull(c)
  <2>1. cmd[c].at = "repull" BY <1>13 DEF Repull
  <2>2. s = 2 BY <2>1, StepsAre
  <2> HIDE DEF s
  <2> QED BY <1>3, <1>4, <1>13, <2>2, StepsAre DEF Repull
<1>14. CASE Crash(c)
  <2>1. cmd[c].at \in Stages \ Resting BY <1>14, LeftIs DEF Crash
  <2> QED BY <1>1, <1>4, <1>14, <2>1 DEF Crash
<1> QED BY <1>5, <1>6, <1>7, <1>8, <1>9, <1>10, <1>11, <1>12, <1>13, <1>14 DEF Step

\* The start of a stamp: every retry is left.
LEMMA StartSteps ==
    ASSUME Typed, NEW c \in Clones, Start(c)
    PROVE  StepsLeft(c)' = 7 * Retries + 3
<1>1. PICK app \in AppsOf[c], pull \in Pull :
         cmd' = [cmd EXCEPT ![c] =
             [at |-> "fetch", app |-> app, pull |-> pull, from |-> last_user_changeset(c),
              base |-> verstr_from_file(c, app), orv |-> None, ver |-> 0, root |-> 0,
              left |-> Retries, err |-> 0]]
  BY DEF Start
<1>2. cmd'[c].at = "fetch" /\ cmd'[c].left = Retries
  BY <1>1 DEF Typed
<1>3. StepsOf(cmd'[c].at) = 3 BY <1>2, StepsAre
<1> QED BY <1>2, <1>3 DEF StepsLeft

\* Every step of anybody.
LEMMA RunsOutNext ==
    ASSUME BaseInv, Next
    PROVE  RunsOut
<1> SUFFICES ASSUME NEW c \in Clones
             PROVE  /\ Step(c) => StepsLeft(c)' < StepsLeft(c)
                    /\ cmd[c].at \notin Resting => StepsLeft(c)' <= StepsLeft(c)
                    /\ Start(c) => StepsLeft(c)' = 7 * Retries + 3
  BY DEF RunsOut
<1>0. Typed /\ Typed' BY BaseNext DEF BaseInv
<1>1. Step(c) \/ Crash(c) => StepsLeft(c)' < StepsLeft(c) BY <1>0, StepCloser
<1>2. Start(c) => StepsLeft(c)' = 7 * Retries + 3 BY <1>0, StartSteps
<1>3. StepsLeft(c) \in Nat /\ StepsLeft(c)' \in Nat
  <2>1. StepsLeft(c) \in Nat
    <3>1. cmd[c].left \in Nat /\ cmd[c].at \in Stages BY <1>0, LeftIs
    <3>2. StepsOf(cmd[c].at) \in 0 .. 7 BY <3>1, StepsAre
    <3> QED BY <3>1, <3>2 DEF StepsLeft
  <2>2. cmd'[c].left \in Nat /\ cmd'[c].at \in Stages
    <3>1. cmd'[c] \in CmdType BY <1>0 DEF Typed
    <3> QED BY <3>1, StampAssumption DEF CmdType
  <2>3. StepsOf(cmd'[c].at) \in 0 .. 7 BY <2>2, StepsAre
  <2>4. StepsLeft(c)' \in Nat BY <2>2, <2>3 DEF StepsLeft
  <2> QED BY <2>1, <2>4
<1>4. PICK d \in Clones : Start(d) \/ Step(d) \/ Crash(d) \/ User(d) BY DEF Next
<1>5. cmd[c].at \notin Resting => StepsLeft(c)' <= StepsLeft(c)
  <2>1. CASE c = d /\ (Step(c) \/ Crash(c)) BY <1>1, <1>3, <2>1
  <2>2. CASE c = d /\ (Start(c) \/ User(c))
    BY <2>2 DEF Start, User, UserCommit, UserPull, UserReset, Resting
  <2>3. CASE c # d
    <3>1. cmd'[c] = cmd[c] BY <1>4, <2>3, StepKeeps DEF Keeps, Alone
    <3>2. StepsLeft(c)' = StepsLeft(c) BY <3>1 DEF StepsLeft
    <3> QED BY <1>3, <3>2
  <2> QED BY <1>4, <2>1, <2>2, <2>3
<1> QED BY <1>1, <1>2, <1>5

\* A stamp runs out of steps, however its git calls fail, whatever the other clones
\* and the users do meanwhile, and however often it retries (_stamp_version): it
\* takes at most seven steps for every retry and three more.
THEOREM StampRunsOut == Spec => [][RunsOut]_vars
<1>1. BaseInv /\ [Next]_vars => [RunsOut]_vars BY RunsOutNext
<1> QED BY <1>1, BaseInvariance, PTL DEF Spec
=============================================================================
