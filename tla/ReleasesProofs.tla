--------------------------- MODULE ReleasesProofs ---------------------------
(***************************************************************************)
(* What stamps, releases and additions promise, for any clones, prerelease *)
(* names, flags, clocks, retries and faults.                               *)
(***************************************************************************)
EXTENDS Releases, DataLemmas, SequenceTheorems

\* Version numbers on the way to one: a prerelease may have the number 0.
Drafts == [base : Nat \X Nat, pre : Pres \cup {Release}, n : Nat]

Below(a, b) == a[1] < b[1] \/ (a[1] = b[1] /\ a[2] < b[2])

\* Tags a clone may know: a name is given once; before the number of a prerelease
\* come the smaller ones; a counter is the number of a tag.
Sound(S) ==
    /\ S \subseteq Tags /\ IsFiniteSet(S)
    /\ \A t, u \in S : Named(t, u.ver, u.meta) => t = u
    /\ \A t \in S : \A n \in 1 .. t.ver.n : Exists(S, [t.ver EXCEPT !.n = n], FALSE)
    /\ \A t \in S, p \in Pres :
          t.count[p] # 0 =>
             Exists(S, [base |-> t.ver.base, pre |-> p, n |-> t.count[p]], FALSE)

-----------------------------------------------------------------------------
(***************************************************************************)
(* The tag that is the latest.                                             *)
(***************************************************************************)

\* The places of the prerelease names.
LEMMA RankIs ==
    ASSUME NEW v \in Versions
    PROVE  /\ Rank(v) \in Nat
           /\ v.pre = Release <=> Rank(v) = 0
           /\ v.pre # Release => v.pre = PreOrder[Rank(v)]
<1>1. v.pre \in Pres \cup {Release} BY DEF Versions
<1>2. CASE v.pre = Release BY <1>2 DEF Rank
<1>3. CASE v.pre # Release
  <2>1. PreOrder \in Seq(Pres) BY ReleasesAssumption
  <2>2. \E i \in 1 .. Len(PreOrder) : PreOrder[i] = v.pre
    BY <1>1, <1>3, <2>1 DEF Pres, Range
  <2>3. Rank(v) = CHOOSE i \in 1 .. Len(PreOrder) : PreOrder[i] = v.pre
    BY <1>3 DEF Rank
  <2>4. Rank(v) \in 1 .. Len(PreOrder) /\ PreOrder[Rank(v)] = v.pre
    BY <2>2, <2>3
  <2>5. Len(PreOrder) \in Nat BY <2>1
  <2> QED BY <1>3, <2>4, <2>5
<1> QED BY <1>2, <1>3

\* Which of two tags is the earlier one, written out.
LEMMA BeforeIs ==
    ASSUME NEW t \in Tags, NEW u \in Tags
    PROVE  /\ Rank(t.ver) \in Nat /\ t.ver.n \in Nat /\ t.at \in Int /\ t.meta \in BOOLEAN
           /\ Before(t, u) <=>
                 \/ t.at < u.at
                 \/ t.at = u.at /\ Rank(t.ver) < Rank(u.ver)
                 \/ t.at = u.at /\ Rank(t.ver) = Rank(u.ver) /\ t.ver.n < u.ver.n
                 \/ /\ t.at = u.at /\ Rank(t.ver) = Rank(u.ver) /\ t.ver.n = u.ver.n
                    /\ ~t.meta /\ u.meta
<1>1. t.ver \in Versions /\ u.ver \in Versions BY DEF Tags
<1>2. /\ Rank(t.ver) \in Nat /\ t.ver.n \in Nat /\ t.at \in Int /\ t.meta \in BOOLEAN
      /\ u.meta \in BOOLEAN
  BY <1>1, RankIs DEF Tags, Versions
<1>3. Before(t, u) <=>
         \/ Key(t)[1] < Key(u)[1]
         \/ Key(t)[2] < Key(u)[2] /\ Key(t)[1] = Key(u)[1]
         \/ Key(t)[3] < Key(u)[3] /\ Key(t)[1] = Key(u)[1] /\ Key(t)[2] = Key(u)[2]
         \/ /\ Key(t)[4] < Key(u)[4] /\ Key(t)[1] = Key(u)[1]
            /\ Key(t)[2] = Key(u)[2] /\ Key(t)[3] = Key(u)[3]
  <2> DEFINE At(i) == Key(t)[i] < Key(u)[i] /\ \A j \in 1 .. i - 1 : Key(t)[j] = Key(u)[j]
  <2>1. Before(t, u) <=> \E i \in 1 .. 4 : At(i) BY DEF Before
  <2>2. (\E i \in 1 .. 4 : At(i)) <=> At(1) \/ At(2) \/ At(3) \/ At(4)
    <3>1. \A i \in 1 .. 4 : i = 1 \/ i = 2 \/ i = 3 \/ i = 4 OBVIOUS
    <3> HIDE DEF At
    <3> QED BY <3>1
  <2>3. 1 .. 1 - 1 = {} /\ 1 .. 2 - 1 = {1} /\ 1 .. 3 - 1 = {1, 2} /\ 1 .. 4 - 1 = {1, 2, 3}
    OBVIOUS
  <2>4. At(1) <=> Key(t)[1] < Key(u)[1] BY <2>3
  <2>5. At(2) <=> Key(t)[2] < Key(u)[2] /\ Key(t)[1] = Key(u)[1] BY <2>3
  <2>6. At(3) <=> Key(t)[3] < Key(u)[3] /\ Key(t)[1] = Key(u)[1] /\ Key(t)[2] = Key(u)[2] BY <2>3
  <2>7. At(4) <=> /\ Key(t)[4] < Key(u)[4] /\ Key(t)[1] = Key(u)[1]
                  /\ Key(t)[2] = Key(u)[2] /\ Key(t)[3] = Key(u)[3]
    BY <2>3
  <2> HIDE DEF At
  <2> QED BY <2>1, <2>2, <2>4, <2>5, <2>6, <2>7
<1>4. /\ Key(t)[1] = t.at /\ Key(t)[2] = Rank(t.ver) /\ Key(t)[3] = t.ver.n
      /\ Key(u)[1] = u.at /\ Key(u)[2] = Rank(u.ver) /\ Key(u)[3] = u.ver.n
      /\ Key(t)[4] = IF t.meta THEN 1 ELSE 0
      /\ Key(u)[4] = IF u.meta THEN 1 ELSE 0
  BY DEF Key
<1>5. Key(t)[4] < Key(u)[4] <=> ~t.meta /\ u.meta
  BY <1>4
<1> QED BY <1>2, <1>3, <1>4, <1>5

\* An earlier tag's earlier tags are earlier; of two tags of different names for
\* the same version one is.
LEMMA BeforeOrders ==
    ASSUME NEW x \in Tags, NEW y \in Tags, NEW z \in Tags
    PROVE  /\ Before(x, y) /\ Before(y, z) => Before(x, z)
           /\ x.ver.base = y.ver.base /\ ~Named(x, y.ver, y.meta) => Before(x, y) \/ Before(y, x)
<1> DEFINE R(t) == Rank(t.ver)
           Less(t, u) == \/ t.at < u.at
                         \/ t.at = u.at /\ R(t) < R(u)
                         \/ t.at = u.at /\ R(t) = R(u) /\ t.ver.n < u.ver.n
                         \/ t.at = u.at /\ R(t) = R(u) /\ t.ver.n = u.ver.n /\ ~t.meta /\ u.meta
<1>1. /\ Before(x, y) <=> Less(x, y)
      /\ Before(y, x) <=> Less(y, x)
      /\ Before(y, z) <=> Less(y, z)
      /\ Before(x, z) <=> Less(x, z)
  BY BeforeIs
<1>2. /\ R(x) \in Nat /\ R(y) \in Nat /\ R(z) \in Nat
      /\ x.ver.n \in Nat /\ y.ver.n \in Nat /\ z.ver.n \in Nat
      /\ x.at \in Int /\ y.at \in Int /\ z.at \in Int
      /\ x.meta \in BOOLEAN /\ y.meta \in BOOLEAN /\ z.meta \in BOOLEAN
  BY BeforeIs
<1>3. ASSUME x.ver.base = y.ver.base, ~Named(x, y.ver, y.meta)
      PROVE  ~(R(x) = R(y) /\ x.ver.n = y.ver.n /\ x.meta = y.meta)
  <2>1. x.ver \in Versions /\ y.ver \in Versions BY DEF Tags
  <2>2. R(x) = R(y) => x.ver.pre = y.ver.pre BY <2>1, RankIs
  <2>3. x.ver.pre = y.ver.pre /\ x.ver.n = y.ver.n => x.ver = y.ver
    BY <1>3, <2>1 DEF Versions
  <2> QED BY <1>3, <2>2, <2>3 DEF Named
<1>4. Less(x, y) /\ Less(y, z) => Less(x, z)
  <2> HIDE DEF R
  <2> QED BY <1>2
<1>5. ~(R(x) = R(y) /\ x.ver.n = y.ver.n /\ x.meta = y.meta) => Less(x, y) \/ Less(y, x)
  <2> HIDE DEF R
  <2> QED BY <1>2
<1> HIDE DEF Less, R
<1> QED BY <1>1, <1>3, <1>4, <1>5

\* The prereleases of a version have a latest one: otherwise take a smallest set
\* of them that has none, and leave one tag out.
LEMMA LatestIs ==
    ASSUME NEW S \in SUBSET Tags, IsFiniteSet(S), S # {},
           \A t, u \in S : t.ver.base = u.ver.base /\ (Named(t, u.ver, u.meta) => t = u)
    PROVE  Latest(S) \in S
<1> DEFINE HasLatest(T) == \E x \in T : \A y \in T \ {x} : Before(y, x)
           Bad == {T \in FiniteSubsetsOf(S) : T # {} /\ ~HasLatest(T)}
<1>1. Bad = {} => HasLatest(S)
  BY DEF FiniteSubsetsOf
<1>2. ASSUME Bad # {} PROVE FALSE
  <2>1. IsWellFoundedOn(StrictSubsetOrdering(S), FiniteSubsetsOf(S))
    BY FS_StrictSubsetOrderingWellFounded
  <2>2. PICK T \in Bad : \A U \in Bad : <<U, T>> \notin StrictSubsetOrdering(S)
    <3>1. Bad \subseteq FiniteSubsetsOf(S) OBVIOUS
    <3> HIDE DEF Bad
    <3> QED BY <1>2, <2>1, <3>1, WFMin
  <2>3. PICK t \in T : TRUE
    OBVIOUS
  <2> DEFINE U == T \ {t}
  <2>4. T \subseteq S /\ IsFiniteSet(T) /\ t \in S /\ t \in Tags
    BY DEF FiniteSubsetsOf
  <2>5. U \in FiniteSubsetsOf(S) /\ <<U, T>> \in StrictSubsetOrdering(S)
    <3>1. IsFiniteSet(U) BY <2>4, FS_RemoveElement
    <3> QED BY <2>4, <3>1 DEF FiniteSubsetsOf, StrictSubsetOrdering
  <2>6. CASE U = {}
    <3>1. T \ {t} = {} BY <2>6
    <3>2. \A y \in T \ {t} : Before(y, t) BY <3>1
    <3> QED BY <2>3, <3>2
  <2>7. CASE U # {}
    <3>1. HasLatest(U)
      BY <2>2, <2>5, <2>7
    <3>2. PICK x \in U : \A y \in U \ {x} : Before(y, x)
      BY <3>1
    <3>3. x \in S /\ x \in Tags /\ x # t BY <2>4
    <3>4. Before(x, t) \/ Before(t, x)
      <4>1. ~Named(x, t.ver, t.meta) BY <2>4, <3>3
      <4>2. x.ver.base = t.ver.base BY <2>4, <3>3
      <4> QED BY <2>4, <3>3, <4>1, <4>2, BeforeOrders
    <3>5. CASE Before(t, x)
      <4>1. \A y \in T \ {x} : Before(y, x) BY <3>2, <3>5
      <4> QED BY <4>1, <3>3
    <3>6. CASE Before(x, t)
      <4>1. ASSUME NEW y \in T \ {t} PROVE Before(y, t)
        <5>1. y \in Tags BY <2>4
        <5>2. y = x \/ Before(y, x) BY <3>2
        <5>3. CASE y = x BY <3>6, <5>3
        <5>4. CASE Before(y, x) BY <2>4, <3>3, <3>6, <5>1, <5>4, BeforeOrders
        <5> QED BY <5>2, <5>3, <5>4
      <4> QED BY <2>3, <4>1
    <3> QED BY <3>4, <3>5, <3>6
  <2> QED BY <2>6, <2>7
<1>3. \E t \in S : \A u \in S \ {t} : Before(u, t)
  BY <1>1, <1>2
<1> QED BY <1>3 DEF Latest

\* The larger of two numbers.
LEMMA LargerIs ==
    ASSUME NEW a \in Int, NEW b \in Int
    PROVE  Max({a, b}) \in {a, b} /\ a <= Max({a, b}) /\ b <= Max({a, b})
<1>1. IsFiniteSet({a}) BY FS_Singleton
<1>2. IsFiniteSet({a} \cup {b}) BY <1>1, FS_AddElement
<1>3. {a, b} = {a} \cup {b} OBVIOUS
<1> DEFINE S == {a, b}
<1>4. S \in SUBSET Int /\ IsFiniteSet(S) /\ S # {} BY <1>2, <1>3
<1>5. a \in S /\ b \in S OBVIOUS
<1> HIDE DEF S
<1>6. Max(S) \in S /\ \A x \in S : x <= Max(S) BY <1>4, MaxIs
<1>7. Max(S) \in S /\ a <= Max(S) /\ b <= Max(S) BY <1>5, <1>6
<1> QED BY <1>7 DEF S

-----------------------------------------------------------------------------
(***************************************************************************)
(* The arithmetic.                                                         *)
(***************************************************************************)

\* Finitely many tags have finitely many versions, and those finitely many octets.
LEMMA PartsFinite ==
    ASSUME NEW S, IsFiniteSet(S)
    PROVE  /\ IsFiniteSet({t.ver.base : t \in S})
           /\ IsFiniteSet({b[1] : b \in S})
           /\ IsFiniteSet({b[2] : b \in S})
<1> DEFINE f == [t \in S |-> t.ver.base]
           g == [b \in S |-> b[1]]
           h == [b \in S |-> b[2]]
<1>1. f = [t \in S |-> f[t]] /\ g = [b \in S |-> g[b]] /\ h = [b \in S |-> h[b]]
  OBVIOUS
<1>2. IsFiniteSet({f[t] : t \in S})
  <2> HIDE DEF f
  <2> QED BY <1>1, ImageFinite
<1>3. IsFiniteSet({g[b] : b \in S})
  <2> HIDE DEF g
  <2> QED BY <1>1, ImageFinite
<1>4. IsFiniteSet({h[b] : b \in S})
  <2> HIDE DEF h
  <2> QED BY <1>1, ImageFinite
<1> QED BY <1>2, <1>3, <1>4

\* Base versions are ordered.
LEMMA BelowIs ==
    ASSUME NEW a \in Nat \X Nat, NEW b \in Nat \X Nat, NEW d \in Nat \X Nat
    PROVE  /\ Below(a, b) /\ Below(b, d) => Below(a, d)
           /\ Below(a, b) => a # b /\ ~Below(b, a)
<1>1. /\ a[1] \in Nat /\ a[2] \in Nat /\ b[1] \in Nat /\ b[2] \in Nat
      /\ d[1] \in Nat /\ d[2] \in Nat
  OBVIOUS
<1> QED BY <1>1 DEF Below

\* The first octet grows, or the second; with all the tags in view the result is
\* not the version of any.
LEMMA IncreaseIs ==
    ASSUME NEW ts \in SUBSET Tags, IsFiniteSet(ts), NEW base \in Nat \X Nat,
           NEW mode \in {"minor", "patch"}, NEW globally \in BOOLEAN
    PROVE  /\ Increase(ts, base, mode, globally) \in Nat \X Nat
           /\ Below(base, Increase(ts, base, mode, globally))
           /\ globally => \A t \in ts : t.ver.base # Increase(ts, base, mode, globally)
<1> DEFINE peers == IF globally THEN {t.ver.base : t \in ts} ELSE {}
           Firsts == {base[1]} \cup {b[1] : b \in peers}
           Seconds == {base[2]} \cup {b[2] : b \in {p \in peers : p[1] = base[1]}}
           next == Increase(ts, base, mode, globally)
<1>1. \A t \in ts : t.ver.base \in Nat \X Nat
  BY DEF Tags, Versions
<1>2. IsFiniteSet(peers) /\ \A b \in peers : b \in Nat \X Nat
  <2>1. CASE globally
    <3>1. IsFiniteSet({t.ver.base : t \in ts}) BY PartsFinite
    <3> QED BY <1>1, <2>1, <3>1
  <2>2. CASE ~globally BY <2>2, FS_EmptySet
  <2> QED BY <2>1, <2>2
<1> HIDE DEF peers
<1>3. Firsts \in SUBSET Int /\ IsFiniteSet(Firsts) /\ Firsts # {}
  <2>1. IsFiniteSet({b[1] : b \in peers}) BY <1>2, PartsFinite
  <2>3. IsFiniteSet({b[1] : b \in peers} \cup {base[1]}) BY <2>1, FS_AddElement
  <2>4. Firsts = {b[1] : b \in peers} \cup {base[1]} OBVIOUS
  <2>5. Firsts \in SUBSET Int BY <1>2
  <2> HIDE DEF Firsts
  <2> QED BY <2>3, <2>4, <2>5
<1>4. Seconds \in SUBSET Int /\ IsFiniteSet(Seconds) /\ Seconds # {}
  <2> DEFINE same == {p \in peers : p[1] = base[1]}
  <2>0. IsFiniteSet(same) BY <1>2, FS_Subset
  <2>1. IsFiniteSet({b[2] : b \in same})
    <3> HIDE DEF same
    <3> QED BY <2>0, PartsFinite
  <2>3. IsFiniteSet({b[2] : b \in same} \cup {base[2]}) BY <2>1, FS_AddElement
  <2>4. Seconds = {b[2] : b \in same} \cup {base[2]} OBVIOUS
  <2>5. Seconds \in SUBSET Int BY <1>2
  <2> HIDE DEF Seconds
  <2> QED BY <2>3, <2>4, <2>5
<1>5. next = IF mode = "minor" THEN <<Max(Firsts) + 1, 0>> ELSE <<base[1], Max(Seconds) + 1>>
  BY DEF Increase, peers
<1>6. base[1] \in Nat /\ base[2] \in Nat OBVIOUS
<1>7. CASE mode = "minor"
  <2>1. Max(Firsts) \in Firsts /\ \A x \in Firsts : x <= Max(Firsts)
    <3> HIDE DEF Firsts
    <3> QED BY <1>3, MaxIs
  <2>2. Max(Firsts) \in Int /\ base[1] <= Max(Firsts) /\ \A b \in peers : b[1] <= Max(Firsts)
    BY <1>3, <2>1
  <2> DEFINE m == Max(Firsts)
  <2>3. m \in Nat /\ base[1] <= m /\ \A b \in peers : b[1] <= m BY <1>6, <2>2
  <2>4. next = <<m + 1, 0>> BY <1>5, <1>7
  <2> HIDE DEF m, Firsts
  <2>5. next \in Nat \X Nat /\ next[1] = m + 1 BY <2>3, <2>4
  <2>6. Below(base, next) BY <1>6, <2>3, <2>5 DEF Below
  <2>7. \A b \in peers : b # next BY <1>2, <2>3, <2>5
  <2> QED BY <2>5, <2>6, <2>7 DEF peers
<1>8. CASE mode = "patch"
  <2>1. Max(Seconds) \in Seconds /\ \A x \in Seconds : x <= Max(Seconds)
    <3> HIDE DEF Seconds
    <3> QED BY <1>4, MaxIs
  <2>2. /\ Max(Seconds) \in Int /\ base[2] <= Max(Seconds)
        /\ \A b \in peers : b[1] = base[1] => b[2] <= Max(Seconds)
    BY <1>4, <2>1
  <2> DEFINE m == Max(Seconds)
  <2>3. m \in Nat /\ base[2] <= m /\ \A b \in peers : b[1] = base[1] => b[2] <= m
    BY <1>6, <2>2
  <2>4. next = <<base[1], m + 1>> BY <1>5, <1>8
  <2> HIDE DEF m, Seconds
  <2>5. next \in Nat \X Nat /\ next[1] = base[1] /\ next[2] = m + 1 BY <1>6, <2>3, <2>4
  <2>6. Below(base, next) BY <1>6, <2>3, <2>5 DEF Below
  <2>7. \A b \in peers : b # next BY <1>2, <2>3, <2>5
  <2> QED BY <2>5, <2>6, <2>7 DEF peers
<1> QED BY <1>7, <1>8

\* The counters that are gone on from: those of the version's latest prerelease.
KnownCounts(ts, base) ==
    IF Prereleases(ts, base) = {} THEN NoCounts ELSE Latest(Prereleases(ts, base)).count

\* They are numbers of tags.
LEMMA KnownIs ==
    ASSUME NEW ts, Sound(ts), NEW base \in Nat \X Nat
    PROVE  /\ KnownCounts(ts, base) \in Counts
           /\ \A p \in Pres :
                 KnownCounts(ts, base)[p] # 0 =>
                    Exists(ts, [base |-> base, pre |-> p, n |-> KnownCounts(ts, base)[p]], FALSE)
<1> DEFINE made == Prereleases(ts, base)
<1>1. CASE made = {}
  <2>1. KnownCounts(ts, base) = NoCounts BY <1>1 DEF KnownCounts
  <2> QED BY <2>1 DEF NoCounts, Counts
<1>2. CASE made # {}
  <2>1. made \in SUBSET Tags /\ made \subseteq ts /\ IsFiniteSet(made)
    BY FS_Subset DEF Sound, Prereleases
  <2>2. \A t, u \in made : t.ver.base = u.ver.base /\ (Named(t, u.ver, u.meta) => t = u)
    BY <2>1 DEF Sound, Prereleases
  <2>3. Latest(made) \in made
    <3> HIDE DEF made
    <3> QED BY <1>2, <2>1, <2>2, LatestIs
  <2> DEFINE t == Latest(made)
  <2>4. t \in ts /\ t \in Tags /\ t.ver.base = base BY <2>1, <2>3 DEF Prereleases
  <2>5. KnownCounts(ts, base) = t.count BY <1>2 DEF KnownCounts
  <2> HIDE DEF t, made
  <2>6. t.count \in Counts BY <2>4 DEF Tags
  <2>7. \A p \in Pres : t.count[p] # 0 =>
           Exists(ts, [base |-> t.ver.base, pre |-> p, n |-> t.count[p]], FALSE)
    BY <2>4 DEF Sound
  <2> QED BY <2>4, <2>5, <2>6, <2>7
<1> QED BY <1>1, <1>2

\* The version r follows ts: it is one, the smaller numbers of its prerelease name
\* are there, and its counters are its own number and ones that are there.
Follows(ts, r) ==
    /\ r.ver \in Versions /\ r.count \in Counts
    /\ r.ver.pre # Release =>
          \A n \in 1 .. r.ver.n - 1 : Exists(ts, [r.ver EXCEPT !.n = n], FALSE)
    /\ \A p \in Pres :
          r.count[p] # 0 =>
             \/ p = r.ver.pre /\ r.count[p] = r.ver.n
             \/ Exists(ts, [base |-> r.ver.base, pre |-> p, n |-> r.count[p]], FALSE)

\* What r is to v when an octet is to grow, or none.
Advanced(ts, v, mode, pr, globally, r) ==
    /\ Follows(ts, r)
    /\ mode = Unset => r.ver.base = v.base
    /\ mode # Unset => Below(v.base, r.ver.base) /\ r.ver.n <= 1
    /\ mode # Unset /\ globally => \A t \in ts : t.ver.base # r.ver.base
    /\ r.ver.pre = IF pr # Unset THEN pr ELSE IF mode # Unset THEN Release ELSE v.pre

\* A version is advanced: to another base, or to the next number there.
LEMMA AdvanceIs ==
    ASSUME NEW ts, Sound(ts), NEW v \in Drafts, v.n = 0 \/ Exists(ts, v, FALSE),
           NEW mode \in Modes \cup {Unset}, NEW pr \in Pres \cup {Unset, Release},
           NEW globally \in BOOLEAN
    PROVE  Advanced(ts, v, mode, pr, globally, Advance(ts, v, mode, pr, globally))
<1> DEFINE base == IF mode = Unset THEN v.base ELSE Increase(ts, v.base, mode, globally)
           pre  == IF pr # Unset THEN pr ELSE IF mode # Unset THEN Release ELSE v.pre
           known == KnownCounts(ts, base)
           rcn  == IF pre = v.pre THEN v.n ELSE 0
           count == IF mode # Unset THEN [NoCounts EXCEPT ![pre] = 1]
                    ELSE [known EXCEPT ![pre] = Max({@, rcn}) + 1]
           r == Advance(ts, v, mode, pr, globally)
<1> SUFFICES /\ Follows(ts, r)
             /\ mode = Unset => r.ver.base = v.base
             /\ mode # Unset => Below(v.base, r.ver.base) /\ r.ver.n <= 1
             /\ mode # Unset /\ globally => \A t \in ts : t.ver.base # r.ver.base
             /\ r.ver.pre = pre
  BY DEF Advanced
<1>1. r = IF pre = Release
          THEN [ver |-> [base |-> base, pre |-> Release, n |-> 0], count |-> NoCounts]
          ELSE [ver |-> [base |-> base, pre |-> pre, n |-> count[pre]], count |-> count]
  BY DEF Advance, KnownCounts
<1>2. /\ base \in Nat \X Nat
      /\ mode = Unset => base = v.base
      /\ mode # Unset => Below(v.base, base)
      /\ mode # Unset /\ globally => \A t \in ts : t.ver.base # base
  <2>1. v.base \in Nat \X Nat BY DEF Drafts
  <2>2. mode # Unset => mode \in {"minor", "patch"} BY ReleasesAssumption
  <2>3. ts \in SUBSET Tags /\ IsFiniteSet(ts) BY DEF Sound
  <2> QED BY <2>1, <2>2, <2>3, IncreaseIs
<1> HIDE DEF base
<1>3. pre \in Pres \cup {Release} BY DEF Drafts
<1>4. known \in Counts
      /\ \A p \in Pres : known[p] # 0 => Exists(ts, [base |-> base, pre |-> p, n |-> known[p]], FALSE)
  BY <1>2, KnownIs
<1>5. Release \notin Pres BY ReleasesAssumption
<1> HIDE DEF known
<1>6. CASE pre = Release
  <2>1. r.ver = [base |-> base, pre |-> Release, n |-> 0] /\ r.count = NoCounts BY <1>1, <1>6
  <2>2. Follows(ts, r)
    BY <1>2, <2>1 DEF Follows, Versions, Counts, NoCounts
  <2> QED BY <1>2, <1>6, <2>1, <2>2
<1>7. CASE pre # Release
  <2>0. pre \in Pres BY <1>3, <1>7
  <2>1. r.ver = [base |-> base, pre |-> pre, n |-> count[pre]] /\ r.count = count
    BY <1>1, <1>7
  <2>2. CASE mode # Unset
    <3>1. count = [p \in Pres |-> IF p = pre THEN 1 ELSE 0] BY <2>0, <2>2 DEF NoCounts
    <3> HIDE DEF count, pre
    <3>2. count[pre] = 1 /\ count \in Counts BY <2>0, <3>1 DEF Counts
    <3>3. Follows(ts, r)
      <4>1. r.ver = [base |-> base, pre |-> pre, n |-> 1] BY <2>1, <3>2
      <4>2. r.ver \in Versions BY <1>2, <1>7, <2>0, <4>1 DEF Versions
      <4>3. 1 .. r.ver.n - 1 = {} BY <4>1
      <4>4. \A p \in Pres : r.count[p] # 0 => p = r.ver.pre /\ r.count[p] = r.ver.n
        BY <2>1, <3>1, <4>1
      <4> QED BY <2>1, <3>2, <4>2, <4>3, <4>4 DEF Follows
    <3>4. r.ver.n <= 1 /\ r.ver.pre = pre /\ r.ver.base = base BY <2>1, <3>2
    <3> QED BY <1>2, <2>2, <3>3, <3>4 DEF pre
  <2>3. CASE mode = Unset
    <3> DEFINE top == Max({known[pre], rcn})
    <3>1. count = [known EXCEPT ![pre] = top + 1] BY <2>3
    <3>2. known[pre] \in Nat /\ rcn \in Nat BY <1>4, <2>0 DEF Counts, Drafts
    <3>3. top \in {known[pre], rcn}
      <4>1. known[pre] \in Int /\ rcn \in Int BY <3>2
      <4> HIDE DEF rcn, pre
      <4> QED BY <4>1, LargerIs, Zenon
    <3>4. top \in Nat BY <3>2, <3>3
    <3>5. top # 0 => Exists(ts, [base |-> base, pre |-> pre, n |-> top], FALSE)
      <4>1. CASE top = known[pre] BY <1>4, <2>0, <4>1
      <4>2. CASE top = rcn
        <5>1. top # 0 => pre = v.pre /\ top = v.n BY <4>2
        <5>2. v = [base |-> v.base, pre |-> v.pre, n |-> v.n] BY DEF Drafts
        <5>3. top # 0 => Exists(ts, v, FALSE) BY <5>1
        <5> HIDE DEF top, pre
        <5> QED BY <1>2, <2>3, <5>1, <5>2, <5>3
      <4> QED BY <3>3, <4>1, <4>2
    <3> HIDE DEF top, rcn, count, pre
    <3>6. count \in Counts /\ count[pre] = top + 1 /\ \A p \in Pres : p # pre => count[p] = known[p]
      BY <1>4, <2>0, <3>1, <3>4 DEF Counts
    <3>7. r.ver = [base |-> base, pre |-> pre, n |-> top + 1] BY <2>1, <3>6
    <3>8. r.ver \in Versions BY <1>2, <1>7, <2>0, <3>4, <3>7 DEF Versions
    <3>9. ASSUME NEW n \in 1 .. r.ver.n - 1 PROVE Exists(ts, [r.ver EXCEPT !.n = n], FALSE)
      <4>1. n \in 1 .. top /\ top # 0 BY <3>4, <3>7, <3>9
      <4>2. PICK t \in ts : t.ver = [base |-> base, pre |-> pre, n |-> top]
        BY <3>5, <4>1 DEF Exists, Named
      <4>3. t.ver.n = top BY <4>2
      <4>4. Exists(ts, [t.ver EXCEPT !.n = n], FALSE) BY <4>1, <4>3 DEF Sound
      <4>5. [t.ver EXCEPT !.n = n] = [r.ver EXCEPT !.n = n] BY <3>7, <4>2
      <4> QED BY <4>4, <4>5
    <3>10. \A p \in Pres : r.count[p] # 0 =>
              \/ p = r.ver.pre /\ r.count[p] = r.ver.n
              \/ Exists(ts, [base |-> r.ver.base, pre |-> p, n |-> r.count[p]], FALSE)
      <4>1. r.ver.base = base /\ r.ver.pre = pre /\ r.ver.n = top + 1 /\ r.count = count
        BY <2>1, <3>7
      <4> HIDE DEF r
      <4> QED BY <1>4, <3>6, <4>1
    <3>11. Follows(ts, r) BY <2>1, <3>6, <3>8, <3>9, <3>10 DEF Follows
    <3>12. r.ver.pre = pre /\ r.ver.base = base BY <3>7
    <3> QED BY <1>2, <2>3, <3>11, <3>12 DEF pre
  <2> QED BY <2>2, <2>3
<1> QED BY <1>6, <1>7

-----------------------------------------------------------------------------
(***************************************************************************)
(* The loop of _stamp_version.                                             *)
(***************************************************************************)

\* What every pass keeps, the last one has: if P holds of what the loop begins
\* with and of each pass's result given the one before, then of the loop's.
LEMMA LoopIs ==
    ASSUME NEW ts, NEW from, NEW mode, NEW pr, NEW P, Retries \in Nat,
           [ts |-> ts, ver |-> from, count |-> NoCounts, out |-> "taken"] \in P,
           \A r \in P : Attempt(r, mode, pr) \in P
    PROVE  Attempts(ts, from, mode, pr) \in P
<1> DEFINE First == [ts |-> ts, ver |-> from, count |-> NoCounts, out |-> "taken"]
           Loop(f, n) == f = [k \in 0 .. n |-> IF k = 0 THEN First
                                               ELSE Attempt(f[k - 1], mode, pr)]
<1>1. \A n \in Nat : \E f : Loop(f, n) /\ \A k \in 0 .. n : f[k] \in P
  <2> DEFINE Bad == {n \in Nat : ~\E f : Loop(f, n) /\ \A k \in 0 .. n : f[k] \in P}
  <2> SUFFICES ASSUME Bad # {} PROVE FALSE
    OBVIOUS
  <2>1. PICK m \in Bad : \A n \in Bad : m <= n
    <3>1. Bad \in SUBSET Nat OBVIOUS
    <3> HIDE DEF Bad
    <3> QED BY <3>1, MinIs
  <2>2. CASE m = 0
    <3> DEFINE g == [k \in 0 .. 0 |-> First]
    <3>1. Loop(g, 0) /\ \A k \in 0 .. 0 : g[k] \in P OBVIOUS
    <3> HIDE DEF Loop, First, g
    <3> QED BY <2>1, <2>2, <3>1
  <2>3. CASE m # 0
    <3>1. m - 1 \in Nat /\ m \in Nat BY <2>1, <2>3
    <3>2. PICK f : Loop(f, m - 1) /\ \A k \in 0 .. m - 1 : f[k] \in P
      <4>1. m - 1 \notin Bad
        <5> HIDE DEF Bad
        <5> QED BY <2>1, <3>1
      <4> HIDE DEF Loop
      <4> QED BY <3>1, <4>1
    <3> DEFINE g == [k \in 0 .. m |-> IF k = m THEN Attempt(f[m - 1], mode, pr) ELSE f[k]]
    <3>3. ASSUME NEW k \in 0 .. m PROVE g[k] \in P
      <4> HIDE DEF Loop
      <4>1. m - 1 \in 0 .. m - 1 BY <3>1
      <4>2. f[m - 1] \in P BY <3>2, <4>1
      <4>3. CASE k = m BY <4>2, <4>3
      <4>4. CASE k # m
        <5>1. k \in 0 .. m - 1 BY <3>1, <4>4
        <5> QED BY <3>2, <4>4, <5>1
      <4> QED BY <4>3, <4>4
    <3>4. Loop(g, m)
      <4> SUFFICES ASSUME NEW k \in 0 .. m
                   PROVE  g[k] = IF k = 0 THEN First ELSE Attempt(g[k - 1], mode, pr)
        OBVIOUS
      <4>1. k # 0 => g[k - 1] = f[k - 1] BY <3>1
      <4>2. k # m => g[k] = f[k] /\ f[k] = IF k = 0 THEN First ELSE Attempt(f[k - 1], mode, pr)
        BY <3>1, <3>2
      <4> HIDE DEF First
      <4> QED BY <2>3, <3>1, <4>1, <4>2
    <3> HIDE DEF Loop, g
    <3> QED BY <2>1, <3>3, <3>4
  <2> QED BY <2>2, <2>3
<1> DEFINE try == CHOOSE f : Loop(f, Retries)
<1>2. Attempts(ts, from, mode, pr) = try[Retries]
  BY DEF Attempts
<1>3. Loop(try, Retries)
  <2> HIDE DEF Loop
  <2> QED BY <1>1
<1> HIDE DEF try
<1>4. \A k \in 0 .. Retries : try[k] \in P
  <2> DEFINE Bad == {k \in 0 .. Retries : try[k] \notin P}
  <2> SUFFICES ASSUME Bad # {} PROVE FALSE
    OBVIOUS
  <2>1. PICK m \in Bad : \A n \in Bad : m <= n
    <3>1. Bad \in SUBSET Nat OBVIOUS
    <3> HIDE DEF Bad
    <3> QED BY <3>1, MinIs
  <2>2. m # 0 BY <1>3, <2>1
  <2>3. try[m - 1] \in P /\ m - 1 \in 0 .. Retries BY <2>1, <2>2
  <2>4. try[m] = Attempt(try[m - 1], mode, pr) BY <1>3, <2>1, <2>2
  <2> QED BY <2>1, <2>3, <2>4
<1> QED BY <1>2, <1>4

-----------------------------------------------------------------------------
(***************************************************************************)
(* The inductive invariant.                                                *)
(***************************************************************************)

\* The tag c is about to push, if it has one.
IsPending(c, t) == cmd[c] # Idle /\ t = cmd[c][1]

\* The prereleases of ts that stamps made are the remote's.
Public(ts) == \A t \in ts : ~t.meta /\ t.ver.pre # Release => t \in rtags

\* What a clone knows is the remote's, but for its own releases and additions
\* that are not pushed yet or were left behind, and holds all that was stamped
\* on its branch.
Local(c) ==
    /\ Public(tags[c])
    /\ c \notin killed => \A t \in tags[c] : t \in rtags \/ IsPending(c, t)
    /\ cmd[c] # Idle =>
          cmd[c][1] \in tags[c] /\ (cmd[c][1].meta \/ cmd[c][1].ver.pre = Release)
    /\ \A i \in 1 .. Len(branch[c]) :
          \E t \in tags[c] : Named(t, branch[c][i], FALSE) /\ ~IsPending(c, t)

IInv ==
    /\ TypeOK /\ cmd = [c \in Clones |-> cmd[c]]
    /\ Sound(rtags)
    /\ \A c \in Clones : Sound(tags[c]) /\ Local(c)
    /\ ReleaseTellsTheTruth
    /\ VersionsGrow

-----------------------------------------------------------------------------
(***************************************************************************)
(* Sets of tags that grow and shrink.                                      *)
(***************************************************************************)

\* A fetch adds the remote's tags whose names are not taken.
LEMMA FetchedIs ==
    ASSUME NEW S, NEW T, Sound(S), Sound(T)
    PROVE  /\ Sound(S \cup {t \in T : ~Exists(S, t.ver, t.meta)})
           /\ S \subseteq S \cup {t \in T : ~Exists(S, t.ver, t.meta)}
<1> DEFINE More == {t \in T : ~Exists(S, t.ver, t.meta)}
           U == S \cup More
<1>1. U \subseteq Tags /\ IsFiniteSet(U)
  <2>1. IsFiniteSet(More) BY FS_Subset DEF Sound
  <2> QED BY <2>1, FS_Union DEF Sound
<1>2. ASSUME NEW t \in U, NEW u \in U, Named(t, u.ver, u.meta) PROVE t = u
  BY <1>2 DEF Sound, Exists, Named
<1>3. ASSUME NEW w, Exists(S, w, FALSE) \/ Exists(T, w, FALSE) PROVE Exists(U, w, FALSE)
  BY <1>3 DEF Exists, Named
<1>4. ASSUME NEW t \in U, NEW n \in 1 .. t.ver.n
      PROVE  Exists(U, [t.ver EXCEPT !.n = n], FALSE)
  <2>1. Exists(S, [t.ver EXCEPT !.n = n], FALSE) \/ Exists(T, [t.ver EXCEPT !.n = n], FALSE)
    BY <1>4 DEF Sound
  <2> QED BY <1>3, <2>1
<1>5. ASSUME NEW t \in U, NEW p \in Pres, t.count[p] # 0
      PROVE  Exists(U, [base |-> t.ver.base, pre |-> p, n |-> t.count[p]], FALSE)
  <2> DEFINE w == [base |-> t.ver.base, pre |-> p, n |-> t.count[p]]
  <2>1. Exists(S, w, FALSE) \/ Exists(T, w, FALSE)
    BY <1>5 DEF Sound
  <2> QED BY <1>3, <2>1
<1> QED BY <1>1, <1>2, <1>4, <1>5 DEF Sound

\* A tag of a new name is added whose smaller numbers and counters are there.
LEMMA AddedIs ==
    ASSUME NEW S, Sound(S), NEW t \in Tags, ~Exists(S, t.ver, t.meta),
           \A n \in 1 .. t.ver.n : Exists(S \cup {t}, [t.ver EXCEPT !.n = n], FALSE),
           \A p \in Pres :
              t.count[p] # 0 =>
                 Exists(S \cup {t}, [base |-> t.ver.base, pre |-> p, n |-> t.count[p]], FALSE)
    PROVE  Sound(S \cup {t})
<1> DEFINE U == S \cup {t}
<1>1. U \subseteq Tags /\ IsFiniteSet(U)
  BY FS_AddElement DEF Sound
<1>2. ASSUME NEW x \in U, NEW y \in U, Named(x, y.ver, y.meta) PROVE x = y
  BY <1>2 DEF Sound, Exists, Named
<1>3. ASSUME NEW w, Exists(S, w, FALSE) PROVE Exists(U, w, FALSE)
  BY <1>3 DEF Exists
<1>4. ASSUME NEW x \in U, NEW n \in 1 .. x.ver.n
      PROVE  Exists(U, [x.ver EXCEPT !.n = n], FALSE)
  <2>1. CASE x = t BY <1>4, <2>1
  <2>2. CASE x \in S
    <3>1. Exists(S, [x.ver EXCEPT !.n = n], FALSE) BY <1>4, <2>2 DEF Sound
    <3> QED BY <1>3, <3>1
  <2> QED BY <2>1, <2>2
<1>5. ASSUME NEW x \in U, NEW p \in Pres, x.count[p] # 0
      PROVE  Exists(U, [base |-> x.ver.base, pre |-> p, n |-> x.count[p]], FALSE)
  <2>1. CASE x = t BY <1>5, <2>1
  <2>2. CASE x \in S
    <3> DEFINE w == [base |-> x.ver.base, pre |-> p, n |-> x.count[p]]
    <3>1. Exists(S, w, FALSE) BY <1>5, <2>2 DEF Sound
    <3> QED BY <1>3, <3>1
  <2> QED BY <2>1, <2>2
<1> QED BY <1>1, <1>2, <1>4, <1>5 DEF Sound

\* The same of a set T that has the prereleases of S that stamps made.
LEMMA CopiedIs ==
    ASSUME NEW S, Sound(S), NEW T, Sound(T), NEW t \in S, ~Exists(T, t.ver, t.meta),
           \A u \in S : ~u.meta /\ u.ver.pre # Release => u \in T \cup {t}
    PROVE  Sound(T \cup {t})
<1>1. t \in Tags /\ t.ver \in Versions /\ t.count \in Counts BY DEF Sound, Tags
<1>2. ASSUME NEW w, w.pre # Release, Exists(S, w, FALSE) PROVE Exists(T \cup {t}, w, FALSE)
  BY <1>2 DEF Exists, Named
<1>3. ASSUME NEW n \in 1 .. t.ver.n PROVE Exists(T \cup {t}, [t.ver EXCEPT !.n = n], FALSE)
  <2>1. Exists(S, [t.ver EXCEPT !.n = n], FALSE) BY <1>3 DEF Sound
  <2>2. t.ver.n # 0 /\ t.ver.n \in Nat BY <1>1, <1>3 DEF Versions
  <2>3. [t.ver EXCEPT !.n = n].pre # Release BY <1>1, <2>2 DEF Versions
  <2> QED BY <1>2, <2>1, <2>3
<1>4. ASSUME NEW p \in Pres, t.count[p] # 0
      PROVE  Exists(T \cup {t}, [base |-> t.ver.base, pre |-> p, n |-> t.count[p]], FALSE)
  <2> DEFINE w == [base |-> t.ver.base, pre |-> p, n |-> t.count[p]]
  <2>1. Exists(S, w, FALSE) BY <1>4 DEF Sound
  <2>2. w.pre # Release BY ReleasesAssumption
  <2> HIDE DEF w
  <2>3. Exists(T \cup {t}, w, FALSE) BY <1>2, <2>1, <2>2
  <2> QED BY <2>3 DEF w
<1> QED BY <1>1, <1>3, <1>4, AddedIs

\* A tag with metadata, or of a release, is taken away.
LEMMA DroppedIs ==
    ASSUME NEW S, Sound(S), NEW t, t.meta \/ t.ver.pre = Release
    PROVE  Sound(S \ {t})
<1> DEFINE U == S \ {t}
<1>1. U \subseteq Tags /\ IsFiniteSet(U) /\ U \subseteq S
  BY FS_RemoveElement DEF Sound
<1>2. \A x, y \in U : Named(x, y.ver, y.meta) => x = y
  BY <1>1 DEF Sound
<1>3. ASSUME NEW w, w.pre # Release, Exists(S, w, FALSE) PROVE Exists(U, w, FALSE)
  BY <1>3 DEF Exists, Named
<1>4. ASSUME NEW x \in U, NEW n \in 1 .. x.ver.n
      PROVE  Exists(U, [x.ver EXCEPT !.n = n], FALSE)
  <2>0. x \in S /\ x.ver \in Versions BY <1>1 DEF Sound, Tags
  <2>1. Exists(S, [x.ver EXCEPT !.n = n], FALSE) BY <1>4, <2>0 DEF Sound
  <2>2. x.ver.n # 0 /\ x.ver.n \in Nat BY <1>4, <2>0 DEF Versions
  <2>3. [x.ver EXCEPT !.n = n].pre # Release BY <2>0, <2>2 DEF Versions
  <2> QED BY <1>3, <2>1, <2>3
<1>5. ASSUME NEW x \in U, NEW p \in Pres, x.count[p] # 0
      PROVE  Exists(U, [base |-> x.ver.base, pre |-> p, n |-> x.count[p]], FALSE)
  <2> DEFINE w == [base |-> x.ver.base, pre |-> p, n |-> x.count[p]]
  <2>1. Exists(S, w, FALSE) BY <1>1, <1>5 DEF Sound
  <2>2. w.pre # Release BY ReleasesAssumption
  <2> HIDE DEF w
  <2>3. Exists(U, w, FALSE) BY <1>3, <2>1, <2>2
  <2> QED BY <2>3 DEF w
<1> QED BY <1>1, <1>2, <1>4, <1>5 DEF Sound

-----------------------------------------------------------------------------
(***************************************************************************)
(* What a stamp comes to.                                                  *)
(***************************************************************************)

\* On a branch, w may come after v.
Precedes(v, w) ==
    /\ v.base = w.base \/ Below(v.base, w.base)
    /\ v.base = w.base => v.pre # Release
    /\ v.base = w.base /\ v.pre = w.pre => v.n < w.n

\* VersionsGrow, of one branch.
Grows(b) == \A i, j \in 1 .. Len(b) : i < j => Precedes(b[i], b[j])

\* A branch grows as VersionsGrow says.
LEMMA GrowsIs ==
    ASSUME NEW b \in Seq(Versions)
    PROVE  Grows(b) <=>
              \A i, j \in 1 .. Len(b) :
                 LET v == b[i]
                     w == b[j]
                 IN i < j =>
                       /\ \/ v.base[1] < w.base[1]
                          \/ v.base[1] = w.base[1] /\ v.base[2] <= w.base[2]
                       /\ v.base = w.base => v.pre # Release
                       /\ v.base = w.base /\ v.pre = w.pre => v.n < w.n
<1> SUFFICES ASSUME NEW i \in 1 .. Len(b), NEW j \in 1 .. Len(b)
             PROVE  LET v == b[i]
                        w == b[j]
                    IN Precedes(v, w) <=>
                          /\ \/ v.base[1] < w.base[1]
                             \/ v.base[1] = w.base[1] /\ v.base[2] <= w.base[2]
                          /\ v.base = w.base => v.pre # Release
                          /\ v.base = w.base /\ v.pre = w.pre => v.n < w.n
  BY DEF Grows
<1> DEFINE v == b[i]
           w == b[j]
<1>1. v \in Versions /\ w \in Versions OBVIOUS
<1> HIDE DEF v, w
<1>2. v.base \in Nat \X Nat /\ w.base \in Nat \X Nat BY <1>1 DEF Versions
<1>3. v.base[1] \in Nat /\ v.base[2] \in Nat /\ w.base[1] \in Nat /\ w.base[2] \in Nat
  BY <1>2
<1>4. v.base = w.base <=> v.base[1] = w.base[1] /\ v.base[2] = w.base[2]
  BY <1>2
<1>5. v.base = w.base \/ Below(v.base, w.base) <=>
         v.base[1] < w.base[1] \/ (v.base[1] = w.base[1] /\ v.base[2] <= w.base[2])
  BY <1>3, <1>4 DEF Below
<1> QED BY <1>5 DEF Precedes, v, w

\* The version in the file is the last of the branch, and known to the clone.
LEMMA FileIs ==
    ASSUME IInv, NEW c \in Clones
    PROVE  /\ File(c) \in Versions
           /\ File(c).n = 0 \/ Exists(tags[c], File(c), FALSE)
           /\ \A i \in 1 .. Len(branch[c]) :
                 /\ branch[c][i] \in Versions
                 /\ branch[c][i].base = File(c).base \/ Below(branch[c][i].base, File(c).base)
                 /\ branch[c][i].base = File(c).base /\ File(c).pre # Release =>
                       branch[c][i].pre # Release
<1> DEFINE b == branch[c]
           n == Len(b)
<1>1. b \in Seq(Versions) /\ n \in Nat /\ \A i \in 1 .. n : b[i] \in Versions
  BY DEF IInv, TypeOK
<1>2. CASE b = <<>>
  <2>1. File(c) = Initial /\ 1 .. n = {} BY <1>2 DEF File
  <2>2. Initial \in Versions /\ Initial.n = 0 BY DEF Initial, Versions
  <2> QED BY <2>1, <2>2
<1>3. CASE b # <<>>
  <2>1. n \in 1 .. n /\ n # 0 BY <1>1, <1>3, EmptySeq
  <2>2. File(c) = b[n] BY <1>3 DEF File, Last
  <2>3. Exists(tags[c], b[n], FALSE)
    BY <2>1 DEF IInv, Local, Exists
  <2>4. Grows(b)
    <3>1. VersionsGrow /\ b \in Seq(Versions) BY <1>1 DEF IInv
    <3> QED BY <3>1, GrowsIs DEF VersionsGrow
  <2>5. ASSUME NEW i \in 1 .. n
        PROVE  /\ b[i].base = b[n].base \/ Below(b[i].base, b[n].base)
               /\ b[i].base = b[n].base /\ b[n].pre # Release => b[i].pre # Release
    <3>1. i = n \/ i < n BY <1>1
    <3>2. i < n => Precedes(b[i], b[n]) BY <2>1, <2>4 DEF Grows
    <3> QED BY <3>1, <3>2 DEF Precedes
  <2> HIDE DEF b, n
  <2>6. b[n] \in Versions BY <1>1, <2>1
  <2> QED BY <1>1, <2>2, <2>3, <2>5, <2>6 DEF b, n
<1> QED BY <1>2, <1>3

\* What the loop of a stamp of c may begin with: the version in the file while
\* the base stays, or another one of a later base.
Begins(c, ts, from, mode) ==
    /\ from \in Drafts /\ (from.n = 0 \/ Exists(ts, from, FALSE))
    /\ from.base = File(c).base \/ Below(File(c).base, from.base)
    /\ from.base = File(c).base /\ mode = Unset /\ from.pre # Release => File(c).pre # Release

\* What a command of c may know: what was known before, and tags of the remote.
Views(c) ==
    {ts \in SUBSET (tags[c] \cup rtags) : tags[c] \subseteq ts /\ Sound(ts) /\ Public(ts)}

\* Those tags are sound, and hold those from before.
LEMMA ViewIs ==
    ASSUME NEW c \in Clones, NEW ts \in Views(c)
    PROVE  Sound(ts) /\ tags[c] \subseteq ts /\ Public(ts) /\ ts \subseteq tags[c] \cup rtags
BY DEF Views

\* A fetch keeps it that way.
LEMMA FetchedToIs ==
    ASSUME IInv, NEW c \in Clones, NEW ts \in Views(c)
    PROVE  FetchedTo(ts) \in Views(c) /\ ts \subseteq FetchedTo(ts)
<1>1. Sound(ts) /\ tags[c] \subseteq ts /\ Public(ts) /\ ts \subseteq tags[c] \cup rtags
  BY ViewIs
<1>2. Sound(rtags) BY DEF IInv
<1>3. Sound(FetchedTo(ts)) /\ ts \subseteq FetchedTo(ts) BY <1>1, <1>2, FetchedIs DEF FetchedTo
<1>4. FetchedTo(ts) \subseteq ts \cup rtags BY DEF FetchedTo
<1>5. Public(FetchedTo(ts)) BY <1>1, <1>4 DEF Public
<1> QED BY <1>1, <1>3, <1>4, <1>5 DEF Views

\* The tags of a command's fetch, and those from before it.
LEMMA StartsIs ==
    ASSUME IInv, NEW c \in Clones
    PROVE  tags[c] \in Views(c) /\ Fetched(c) \in Views(c)
<1>1. tags[c] \in Views(c) BY DEF IInv, Local, Views
<1> QED BY <1>1, FetchedToIs DEF Fetched

\* A try at a prerelease that failed takes no tag away: one of its name is the
\* remote's, and comes back.
LEMMA RefetchedIs ==
    ASSUME IInv, NEW c \in Clones, NEW ts \in Views(c), NEW v,
           v.pre # Release \/ ~Exists(ts, v, FALSE)
    PROVE  Refetched(ts, v) \in Views(c) /\ ts \subseteq Refetched(ts, v)
<1> DEFINE kept == {t \in ts : ~Named(t, v, FALSE)}
<1>1. Sound(ts) /\ Sound(rtags) /\ Public(ts) BY ViewIs DEF IInv
<1>2. ts \ kept \subseteq rtags BY <1>1 DEF Public, Exists, Named
<1>3. ASSUME NEW t \in rtags
      PROVE  Exists(kept, t.ver, t.meta) <=> Exists(ts, t.ver, t.meta) /\ t \notin ts \ kept
  <2>1. ASSUME NEW u \in ts, Named(u, t.ver, t.meta), u \notin kept PROVE t = u
    BY <1>1, <1>2, <2>1 DEF Sound, Named
  <2>2. t \in ts \ kept => ~Exists(kept, t.ver, t.meta) BY DEF Exists, Named
  <2> QED BY <2>1, <2>2 DEF Exists
<1>4. Refetched(ts, v) = FetchedTo(ts)
  <2>1. kept \subseteq ts OBVIOUS
  <2>2. \A t \in ts : Exists(ts, t.ver, t.meta) BY DEF Exists, Named
  <2>3. Refetched(ts, v) = kept \cup {t \in rtags : ~Exists(kept, t.ver, t.meta)}
    BY DEF Refetched, FetchedTo
  <2>4. FetchedTo(ts) = ts \cup {t \in rtags : ~Exists(ts, t.ver, t.meta)} BY DEF FetchedTo
  <2> HIDE DEF kept
  <2> QED BY <1>2, <1>3, <2>1, <2>2, <2>3, <2>4
<1> QED BY <1>4, FetchedToIs

-----------------------------------------------------------------------------
(***************************************************************************)
(* Its loop.                                                               *)
(***************************************************************************)

\* What a loop that began with from may come by, when ts are known: the base stays
\* if no octet is to grow, and grows otherwise; a number is there or 0; a release is
\* only left for another base.
OnTheWay(ts, from, mode, v) ==
    /\ v \in Drafts /\ (v.n = 0 \/ Exists(ts, v, FALSE))
    /\ mode = Unset => v.base = from.base
    /\ mode # Unset => v.base = from.base \/ Below(from.base, v.base)
    /\ mode = Unset /\ from.pre = Release => v = from

Passes == [ts : SUBSET Tags, ver : Drafts, count : Counts,
           out : {"taken", "ok", "mode", "released"}]

\* What came of it, for clone c.
Result(c, from, mode, pr, r) ==
    /\ r \in Passes /\ r.ts \in Views(c)
    /\ r.out = "taken" => OnTheWay(r.ts, from, mode, r.ver)
    /\ r.out = "ok" =>
          \E v : /\ OnTheWay(r.ts, from, mode, v) /\ Refuses(r.ts, v, mode) = "ok"
                /\ r.ver = Advance(r.ts, v, mode, pr, TRUE).ver
                /\ r.count = Advance(r.ts, v, mode, pr, TRUE).count
                /\ ~Exists(r.ts, r.ver, FALSE)
    /\ r.out = "released" =>
          \E v : OnTheWay(r.ts, from, mode, v) /\ Refuses(r.ts, v, mode) = "released"

\* A version that is taken is a prerelease: a release would be refused, or of a
\* new base.
LEMMA TakenIs ==
    ASSUME NEW ts, NEW v, NEW mode, NEW pr, NEW new,
           Advanced(ts, v, mode, pr, TRUE, new), Refuses(ts, v, mode) = "ok",
           Exists(ts, new.ver, FALSE)
    PROVE  new.ver.pre # Release
<1> SUFFICES ASSUME new.ver.pre = Release PROVE FALSE
  OBVIOUS
<1>1. CASE mode # Unset
  <2>1. \A t \in ts : t.ver.base # new.ver.base BY <1>1 DEF Advanced
  <2> QED BY <2>1 DEF Exists, Named
<1>2. CASE mode = Unset
  <2>1. v.pre # Release /\ ~Exists(ts, BaseOf(v), FALSE) BY <1>2 DEF Refuses
  <2>2. new.ver.base = v.base /\ new.ver \in Versions BY <1>2 DEF Advanced, Follows
  <2>3. new.ver = BaseOf(v) BY <2>2 DEF Versions, BaseOf
  <2> QED BY <2>1, <2>3
<1> QED BY <1>1, <1>2

\* A pass of the loop keeps what is known of its result.
LEMMA AttemptIs ==
    ASSUME IInv, NEW c \in Clones, NEW from, from.base \in Nat \X Nat,
           NEW mode \in Modes \cup {Unset}, NEW pr \in Pres \cup {Unset, Release},
           NEW r, Result(c, from, mode, pr, r)
    PROVE  Result(c, from, mode, pr, Attempt(r, mode, pr)) /\ r.ts \subseteq Attempt(r, mode, pr).ts
<1> DEFINE ts == r.ts
           v == r.ver
           why == Refuses(ts, v, mode)
           new == Advance(ts, v, mode, pr, TRUE)
           s == Attempt(r, mode, pr)
<1> SUFFICES Result(c, from, mode, pr, s) /\ ts \subseteq s.ts OBVIOUS
<1>1. r \in Passes /\ ts \in Views(c) /\ Sound(ts)
  BY ViewIs DEF Result
<1>2. CASE r.out # "taken"
  <2>1. s = r BY <1>2 DEF Attempt
  <2> QED BY <2>1
<1>3. CASE r.out = "taken" /\ why # "ok"
  <2>1. s = [r EXCEPT !.out = why] BY <1>3 DEF Attempt
  <2>2. why \in {"mode", "released"} BY <1>3 DEF Refuses
  <2>3. OnTheWay(ts, from, mode, v) BY <1>3 DEF Result
  <2>4. s \in Passes /\ s.out = why /\ s.ts = ts
    BY <1>1, <2>1, <2>2 DEF Passes
  <2>5. why = "released" =>
           \E w : OnTheWay(s.ts, from, mode, w) /\ Refuses(s.ts, w, mode) = "released"
    BY <2>3, <2>4
  <2>6. s.out # "taken" /\ s.out # "ok" BY <2>2, <2>4
  <2> HIDE DEF s, v, why, ts
  <2> QED BY <1>1, <2>4, <2>5, <2>6 DEF Result
<1>4. CASE r.out = "taken" /\ why = "ok"
  <2> DEFINE more == Refetched(ts, new.ver)
  <2>1. OnTheWay(ts, from, mode, v) BY <1>4 DEF Result
  <2>2. s = [ts |-> IF Exists(ts, new.ver, FALSE) THEN more ELSE ts,
             ver |-> new.ver, count |-> new.count,
             out |-> IF Exists(ts, new.ver, FALSE) THEN "taken" ELSE "ok"]
    BY <1>4 DEF Attempt
  <2>3. Advanced(ts, v, mode, pr, TRUE, new)
    <3>1. v \in Drafts /\ (v.n = 0 \/ Exists(ts, v, FALSE)) BY <2>1 DEF OnTheWay
    <3> HIDE DEF v, ts
    <3> QED BY <1>1, <3>1, AdvanceIs, Zenon
  <2>4. mode = Unset => from.pre # Release
    BY <1>4, <2>1 DEF Refuses, OnTheWay
  <2>5. Exists(ts, new.ver, FALSE) => more \in Views(c) /\ ts \subseteq more
    <3>1. SUFFICES ASSUME Exists(ts, new.ver, FALSE)
                   PROVE  more \in Views(c) /\ ts \subseteq more
      OBVIOUS
    <3> HIDE DEF new, v, ts
    <3>2. new.ver.pre # Release BY <1>4, <2>3, <3>1, TakenIs DEF why
    <3> QED BY <1>1, <3>2, RefetchedIs
  <2> HIDE DEF new, v, s, ts, more
  <2>6. new.ver \in Drafts /\ new.count \in Counts
    BY <2>3 DEF Advanced, Follows, Versions, Drafts
  <2>7. mode # Unset => Below(from.base, new.ver.base)
    <3>1. v.base \in Nat \X Nat /\ new.ver.base \in Nat \X Nat BY <2>1, <2>6 DEF OnTheWay, Drafts
    <3> QED BY <2>1, <2>3, <3>1 DEF Advanced, OnTheWay, Below
  <2>8. CASE Exists(ts, new.ver, FALSE)
    <3>1. s.out = "taken" /\ s.ver = new.ver /\ s.count = new.count /\ s.ts = more
      BY <2>2, <2>8
    <3>2. Exists(more, new.ver, FALSE) BY <2>5, <2>8 DEF Exists
    <3>3. OnTheWay(more, from, mode, new.ver)
      BY <2>1, <2>3, <2>4, <2>6, <2>7, <3>2 DEF Advanced, OnTheWay
    <3>4. more \in SUBSET Tags BY <2>5, <2>8, ViewIs DEF Sound
    <3>5. s \in Passes
      BY <2>2, <2>6, <2>8, <3>4 DEF Passes
    <3> QED BY <2>5, <2>8, <3>1, <3>3, <3>5 DEF Result
  <2>9. CASE ~Exists(ts, new.ver, FALSE)
    <3>1. s.out = "ok" /\ s.ver = new.ver /\ s.count = new.count /\ s.ts = ts BY <2>2, <2>9
    <3>2. s \in Passes
      <4>1. ts \in SUBSET Tags BY <1>1 DEF Sound
      <4> QED BY <2>2, <2>6, <2>9, <4>1 DEF Passes
    <3>3. /\ Refuses(ts, v, mode) = "ok"
          /\ s.ver = Advance(ts, v, mode, pr, TRUE).ver
          /\ s.count = Advance(ts, v, mode, pr, TRUE).count
          /\ ~Exists(ts, s.ver, FALSE)
      BY <1>4, <2>9, <3>1 DEF new, v, ts
    <3>4. \E w : /\ OnTheWay(s.ts, from, mode, w) /\ Refuses(s.ts, w, mode) = "ok"
                 /\ s.ver = Advance(s.ts, w, mode, pr, TRUE).ver
                 /\ s.count = Advance(s.ts, w, mode, pr, TRUE).count
                 /\ ~Exists(s.ts, s.ver, FALSE)
      BY <2>1, <3>1, <3>3
    <3> QED BY <1>1, <3>1, <3>2, <3>4 DEF Result
  <2> QED BY <2>8, <2>9
<1> QED BY <1>2, <1>3, <1>4

\* The loop comes to a result, and knows no fewer tags than before.
LEMMA AttemptsIs ==
    ASSUME IInv, NEW c \in Clones, NEW ts \in Views(c),
           NEW from \in Drafts, from.n = 0 \/ Exists(ts, from, FALSE),
           NEW mode \in Modes \cup {Unset}, NEW pr \in Pres \cup {Unset, Release}
    PROVE  LET r == Attempts(ts, from, mode, pr)
           IN Result(c, from, mode, pr, r) /\ ts \subseteq r.ts
<1> DEFINE P == {r \in Passes : Result(c, from, mode, pr, r) /\ ts \subseteq r.ts}
           First == [ts |-> ts, ver |-> from, count |-> NoCounts, out |-> "taken"]
<1>1. First \in P
  <2>1. NoCounts \in Counts BY DEF NoCounts, Counts
  <2>2. OnTheWay(ts, from, mode, from) BY DEF OnTheWay
  <2>3. ts \in SUBSET Tags BY ViewIs DEF Sound
  <2>4. First \in Passes BY <2>1, <2>3 DEF Passes
  <2> QED BY <2>2, <2>4 DEF Result
<1>2. \A r \in P : Attempt(r, mode, pr) \in P
  <2> SUFFICES ASSUME NEW r \in P PROVE Attempt(r, mode, pr) \in P
    OBVIOUS
  <2>1. from.base \in Nat \X Nat BY DEF Drafts
  <2>2. Result(c, from, mode, pr, Attempt(r, mode, pr)) /\ r.ts \subseteq Attempt(r, mode, pr).ts
    BY <2>1, AttemptIs
  <2> QED BY <2>2 DEF Result
<1>3. Retries \in Nat BY ReleasesAssumption
<1>4. Attempts(ts, from, mode, pr) \in P
  <2> HIDE DEF P
  <2> QED BY <1>1, <1>2, <1>3, LoopIs
<1> QED BY <1>4

\* The version that is published follows the tags, comes after all there is on
\* the branch, and is no prerelease of a release that is known.
Sequel(c, ts, r) ==
    /\ Follows(ts, r) /\ ~Exists(ts, r.ver, FALSE)
    /\ \A i \in 1 .. Len(branch[c]) : Precedes(branch[c][i], r.ver)
    /\ r.ver.pre # Release => ~Exists(ts, BaseOf(r.ver), FALSE)

\* The loop of a stamp that ends well has found such a version.
LEMMA SequelIs ==
    ASSUME IInv, NEW c \in Clones, NEW known \in Views(c),
           NEW from, NEW mode \in Modes \cup {Unset}, NEW pr \in Pres \cup {Unset, Release},
           Begins(c, known, from, mode), Attempts(known, from, mode, pr).out = "ok"
    PROVE  LET r == Attempts(known, from, mode, pr) IN Sequel(c, r.ts, r)
<1> DEFINE r == Attempts(known, from, mode, pr)
           ts == r.ts
<1> HIDE DEF r
<1>2. Result(c, from, mode, pr, r)
  BY AttemptsIs DEF Begins, r
<1>1. Sound(ts) /\ tags[c] \subseteq ts
  <2>1. ts \in Views(c) BY <1>2 DEF Result
  <2> HIDE DEF ts
  <2> QED BY <2>1, ViewIs
<1>3. PICK v : /\ OnTheWay(ts, from, mode, v) /\ Refuses(ts, v, mode) = "ok"
               /\ r.ver = Advance(ts, v, mode, pr, TRUE).ver
               /\ r.count = Advance(ts, v, mode, pr, TRUE).count
               /\ ~Exists(ts, r.ver, FALSE)
  <2>1. r.out = "ok" BY DEF r
  <2> QED BY <1>2, <2>1 DEF Result
<1> HIDE DEF ts
<1> DEFINE s == Advance(ts, v, mode, pr, TRUE)
<1>4. Advanced(ts, v, mode, pr, TRUE, s)
  <2>1. v \in Drafts /\ (v.n = 0 \/ Exists(ts, v, FALSE)) BY <1>3 DEF OnTheWay
  <2> QED BY <1>1, <2>1, AdvanceIs, Zenon
<1>5. r.ver = s.ver /\ r.count = s.count BY <1>3
<1> HIDE DEF s
<1>6. /\ Follows(ts, r)
      /\ mode = Unset => r.ver.base = v.base
      /\ mode # Unset => Below(v.base, r.ver.base)
      /\ mode # Unset => \A t \in ts : t.ver.base # r.ver.base
  BY <1>4, <1>5 DEF Advanced, Follows
<1>7. r.ver \in Versions BY <1>6 DEF Follows
<1>8. mode = Unset => v.pre # Release /\ ~Exists(ts, BaseOf(v), FALSE)
  BY <1>3 DEF Refuses
<1>9. r.ver.pre # Release => ~Exists(ts, BaseOf(r.ver), FALSE)
  <2>1. CASE mode = Unset
    <3>1. BaseOf(r.ver) = BaseOf(v) BY <1>6, <2>1 DEF BaseOf
    <3> QED BY <1>8, <2>1, <3>1
  <2>2. CASE mode # Unset
    <3>1. BaseOf(r.ver).base = r.ver.base BY DEF BaseOf
    <3> QED BY <1>6, <2>2, <3>1 DEF Exists, Named
  <2> QED BY <2>1, <2>2
<1>10. ASSUME NEW i \in 1 .. Len(branch[c]) PROVE Precedes(branch[c][i], r.ver)
  <2> DEFINE w == branch[c][i]
             f == File(c)
  <2>1. /\ w \in Versions /\ f \in Versions
        /\ w.base = f.base \/ Below(w.base, f.base)
        /\ w.base = f.base /\ f.pre # Release => w.pre # Release
    BY <1>10, FileIs
  <2>2. Exists(ts, w, FALSE)
    BY <1>1, <1>10 DEF IInv, Local, Exists
  <2> SUFFICES Precedes(w, r.ver) OBVIOUS
  <2> HIDE DEF w, f
  <2>3. /\ from.base \in Nat \X Nat /\ v.base \in Nat \X Nat /\ r.ver.base \in Nat \X Nat
        /\ w.base \in Nat \X Nat /\ f.base \in Nat \X Nat
    BY <1>3, <1>7, <2>1 DEF Begins, OnTheWay, Drafts, Versions
  <2>4. from.base = f.base \/ Below(f.base, from.base)
    BY DEF Begins, f
  <2>5. CASE mode # Unset
    <3>1. v.base = from.base \/ Below(from.base, v.base) BY <1>3, <2>5 DEF OnTheWay
    <3>2. Below(v.base, r.ver.base) BY <1>6, <2>5
    <3>3. Below(w.base, r.ver.base)
      <4>1. Below(f.base, r.ver.base)
        <5>1. Below(from.base, r.ver.base) BY <2>3, <3>1, <3>2, BelowIs
        <5> QED BY <2>3, <2>4, <5>1, BelowIs
      <4> QED BY <2>1, <2>3, <4>1, BelowIs
    <3>4. w.base # r.ver.base BY <2>3, <3>3, BelowIs
    <3> QED BY <3>3, <3>4 DEF Precedes
  <2>6. CASE mode = Unset
    <3>1. r.ver.base = v.base /\ v.base = from.base BY <1>3, <1>6, <2>6 DEF OnTheWay
    <3>2. from.pre # Release BY <1>3, <1>8, <2>6 DEF OnTheWay
    <3>3. r.ver.base = f.base \/ Below(f.base, r.ver.base) BY <2>4, <3>1
    <3>4. w.base = r.ver.base \/ Below(w.base, r.ver.base)
      BY <2>1, <2>3, <3>3, BelowIs
    <3>5. w.base = r.ver.base => w.base = f.base
      BY <2>1, <2>3, <3>3, BelowIs
    <3>6. w.base = r.ver.base => w.pre # Release
      <4>1. from.base = f.base => f.pre # Release BY <2>6, <3>2 DEF Begins, f
      <4> QED BY <2>1, <3>1, <3>5, <4>1
    <3>7. ASSUME w.base = r.ver.base, w.pre = r.ver.pre PROVE w.n < r.ver.n
      <4> SUFFICES ASSUME ~(w.n < r.ver.n) PROVE FALSE
        OBVIOUS
      <4>1. w.n \in Nat /\ r.ver.n \in Nat /\ w.pre # Release BY <1>7, <2>1, <3>6, <3>7 DEF Versions
      <4>2. r.ver.n \in 1 .. w.n BY <1>7, <3>7, <4>1 DEF Versions
      <4>3. [w EXCEPT !.n = r.ver.n] = r.ver BY <1>7, <2>1, <3>7 DEF Versions
      <4>4. Exists(ts, [w EXCEPT !.n = r.ver.n], FALSE)
        <5>1. PICK t \in ts : t.ver = w BY <2>2 DEF Exists, Named
        <5> QED BY <1>1, <4>2, <5>1 DEF Sound
      <4> QED BY <1>3, <4>3, <4>4
    <3> QED BY <3>4, <3>6, <3>7 DEF Precedes
  <2> QED BY <2>5, <2>6
<1> QED BY <1>3, <1>6, <1>9, <1>10 DEF Sequel, r, ts

\* The version a stamp starts from is the file's, or its release.
LEMMA FromIs ==
    ASSUME IInv, NEW c \in Clones, NEW ts \in Views(c)
    PROVE  /\ From(c) \in Versions
           /\ From(c).base = File(c).base
           /\ From(c).pre # Release => From(c) = File(c)
           /\ From(c).n = 0 \/ Exists(ts, From(c), FALSE)
<1>1. From(c) = File(c) \/ From(c) = BaseOf(File(c)) BY DEF From
<1>2. File(c) \in Versions /\ (File(c).n = 0 \/ Exists(tags[c], File(c), FALSE)) BY FileIs
<1>3. BaseOf(File(c)) \in Versions /\ BaseOf(File(c)).n = 0 /\ BaseOf(File(c)).pre = Release
      /\ BaseOf(File(c)).base = File(c).base
  BY <1>2 DEF BaseOf, Versions
<1>4. Exists(tags[c], File(c), FALSE) => Exists(ts, File(c), FALSE)
  BY ViewIs DEF Exists
<1> QED BY <1>1, <1>2, <1>3, <1>4

\* What --orm and -r make of it.
LEMMA PlanIs ==
    ASSUME IInv, NEW c \in Clones, NEW ts \in Views(c), NEW a \in Args
    PROVE  LET p == Plan(ts, From(c), a)
           IN /\ p.mode \in Modes \cup {Unset}
              /\ ~Fails(ts, From(c), a) => Begins(c, ts, p.from, p.mode)
              /\ From(c).pre = Release /\ p.mode = Unset =>
                    \/ p.from = From(c)
                    \/ ~Exists(ts, BaseOf(p.from), FALSE) /\ p.from.base # File(c).base
<1> DEFINE from == From(c)
           next == Advance(ts, from, a.orm, a.pr, FALSE)
           some == \E t \in ts : Globbed(next.ver.base, t.ver.base)
           released == Exists(ts, BaseOf(next.ver), FALSE)
           p == Plan(ts, from, a)
<1>1. /\ a.mode \in Modes \cup {Unset} /\ a.orm \in Modes \cup {Unset} /\ a.pr \in Pres \cup {Unset}
      /\ a.mode = Unset \/ a.orm = Unset
  BY ReleasesAssumption
<1>2. /\ from \in Versions /\ from.base = File(c).base
      /\ from.pre # Release => from = File(c)
      /\ from.n = 0 \/ Exists(ts, from, FALSE)
  BY FromIs
<1>3. from \in Drafts BY <1>2 DEF Versions, Drafts
<1>4. Sound(ts) BY ViewIs
<1>5. \A m \in Modes \cup {Unset} : Begins(c, ts, from, m)
  BY <1>2, <1>3 DEF Begins
<1>6. Advanced(ts, from, a.orm, a.pr, FALSE, next)
  <2>1. a.pr \in Pres \cup {Unset, Release} BY <1>1
  <2> HIDE DEF from
  <2> QED BY <1>1, <1>2, <1>3, <1>4, <2>1, AdvanceIs, Zenon
<1>7. p = IF a.orm = Unset \/ from.pre # Release THEN [mode |-> a.mode, from |-> from]
          ELSE IF released \/ ~some THEN [mode |-> a.orm, from |-> from]
          ELSE [mode |-> Unset, from |-> [next.ver EXCEPT !.n = @ - 1]]
  BY DEF Plan
<1> HIDE DEF next, from, p
<1>8. CASE a.orm = Unset \/ from.pre # Release \/ released \/ ~some
  <2>1. p.from = from /\ p.mode \in Modes \cup {Unset}
    <3>1. CASE a.orm = Unset \/ from.pre # Release
      <4>1. p = [mode |-> a.mode, from |-> from] BY <1>7, <3>1
      <4> QED BY <1>1, <4>1
    <3>2. CASE ~(a.orm = Unset \/ from.pre # Release)
      <4>1. p = [mode |-> a.orm, from |-> from] BY <1>7, <1>8, <3>2
      <4> QED BY <1>1, <4>1
    <3> QED BY <3>1, <3>2
  <2>2. Begins(c, ts, p.from, p.mode) BY <1>5, <2>1
  <2> QED BY <2>1, <2>2 DEF p, from
<1>9. CASE ~(a.orm = Unset \/ from.pre # Release \/ released \/ ~some)
  <2>1. p = [mode |-> Unset, from |-> [next.ver EXCEPT !.n = @ - 1]] BY <1>7, <1>9
  <2>2. next.ver \in Versions /\ next.ver.n <= 1 /\ Below(from.base, next.ver.base)
    BY <1>6, <1>9 DEF Advanced, Follows
  <2>3. /\ p.mode = Unset
        /\ p.from = [base |-> next.ver.base, pre |-> next.ver.pre, n |-> next.ver.n - 1]
    BY <2>1, <2>2 DEF Versions
  <2>4. BaseOf(p.from) = BaseOf(next.ver) BY <2>3 DEF BaseOf
  <2>5. ~Exists(ts, BaseOf(p.from), FALSE) BY <1>9, <2>4
  <2>8. File(c).base # p.from.base
    <3>1. File(c).base \in Nat \X Nat BY FileIs DEF Versions
    <3>2. p.from.base \in Nat \X Nat BY <2>2, <2>3 DEF Versions
    <3>3. Below(File(c).base, p.from.base) BY <1>2, <2>2, <2>3
    <3> QED BY <3>1, <3>2, <3>3, BelowIs
  <2>6. ASSUME ~Fails(ts, from, a) PROVE Begins(c, ts, p.from, p.mode)
    <3>1. a.pr # Unset
      BY <1>9, <2>3, <2>6 DEF Fails, p
    <3>2. next.ver.pre \in Pres BY <1>1, <1>6, <3>1 DEF Advanced
    <3>3. next.ver.n = 1
      <4>1. next.ver.pre # Release BY <3>2, ReleasesAssumption
      <4> QED BY <2>2, <4>1 DEF Versions
    <3>4. p.from \in Drafts /\ p.from.n = 0
      BY <2>2, <2>3, <3>3 DEF Versions, Drafts
    <3>5. Below(File(c).base, p.from.base) BY <1>2, <2>2, <2>3
    <3> QED BY <2>8, <3>4, <3>5 DEF Begins
  <2>7. p.mode \in Modes \cup {Unset} BY <2>3
  <2> QED BY <2>5, <2>6, <2>7, <2>8 DEF p, from
<1> QED BY <1>8, <1>9

\* The version the branch of c is at was released on the commit it is on.
OwnReleased(c) ==
    \E t, u \in tags[c] : /\ Named(t, File(c), FALSE)
                          /\ Named(u, BaseOf(File(c)), FALSE)
                          /\ t.on = u.on

\* The next stamp goes on from the release.
LEMMA GoesOnIs ==
    ASSUME IInv, NEW c \in Clones, OwnReleased(c)
    PROVE  From(c).pre = Release
<1>1. PICK t \in tags[c], u \in tags[c] :
         Named(t, File(c), FALSE) /\ Named(u, BaseOf(File(c)), FALSE) /\ t.on = u.on
  BY DEF OwnReleased
<1> DEFINE own == TagOf(tags[c], File(c), FALSE)
<1>2. own \in tags[c] /\ Named(own, File(c), FALSE)
  BY <1>1 DEF TagOf
<1>3. own = t
  BY <1>1, <1>2 DEF IInv, Sound, Named
<1>4. From(c) = BaseOf(File(c))
  BY <1>1, <1>3 DEF From
<1> QED BY <1>4 DEF BaseOf

\* A release of another version is new to c.
News(c, ts) ==
    \E u \in ts \ tags[c] : ~u.meta /\ u.ver.pre = Release /\ u.ver.base # File(c).base

Ends == [ts : SUBSET Tags, ver : Drafts, count : Counts,
         out : {"taken", "ok", "mode", "released", "KeyError"}]

\* A stamp publishes what its loop came to, or nothing: its fetch failed.
Stamped(c) ==
    \/ tags' = [tags EXCEPT ![c] = Fetched(c)] /\ Fail(c, "failed")
       /\ UNCHANGED <<rtags, branch, cmd, lag, now, faults, killed>>
    \/ \E r \in Ends :
          /\ r.ts \in Views(c) /\ Publish(c, r)
          /\ r.out = "ok" => Sequel(c, r.ts, r)
          /\ r.out = "released" => ~OwnReleased(c) \/ News(c, r.ts)

\* That is all that vmn stamp and vmn release --stamp do.
LEMMA StampIs ==
    ASSUME IInv, NEW c \in Clones, Stamp(c) \/ ReleaseStamp(c)
    PROVE  Alone(c) /\ Stamped(c)
<1>0. {tags[c]} \cup {u \in {Fetched(c)} : ~Clobbered(c)} \subseteq Views(c)
  BY StartsIs
<1>1. CASE ReleaseStamp(c)
  <2>1. Alone(c) /\ From(c).pre # Release BY <1>1 DEF ReleaseStamp
  <2>2. CASE /\ tags' = [tags EXCEPT ![c] = Fetched(c)] /\ Fail(c, "failed")
             /\ UNCHANGED <<rtags, branch, cmd, lag, now, faults, killed>>
    BY <2>1, <2>2 DEF Stamped
  <2>3. CASE \E ts \in Views(c) : Publish(c, Attempts(ts, File(c), Unset, Release))
    <3>1. PICK ts \in Views(c) : Publish(c, Attempts(ts, File(c), Unset, Release))
      BY <2>3
    <3> DEFINE r == Attempts(ts, File(c), Unset, Release)
    <3>2. File(c) = From(c) /\ File(c) \in Drafts /\ (File(c).n = 0 \/ Exists(ts, File(c), FALSE))
      BY <2>1, FromIs DEF Versions, Drafts
    <3>3. Begins(c, ts, File(c), Unset) BY <2>1, <3>2 DEF Begins
    <3>4. Unset \in Modes \cup {Unset} /\ Release \in Pres \cup {Unset, Release}
      OBVIOUS
    <3>5. Result(c, File(c), Unset, Release, r) BY <3>2, <3>4, AttemptsIs
    <3>6. r \in Ends /\ r.ts \in Views(c) BY <3>5 DEF Result, Passes, Ends
    <3>7. r.out = "ok" => Sequel(c, r.ts, r) BY <3>3, <3>4, SequelIs
    <3>8. ~OwnReleased(c) BY <2>1, GoesOnIs
    <3>9. Publish(c, r) BY <3>1
    <3> HIDE DEF r
    <3> QED BY <2>1, <3>6, <3>7, <3>8, <3>9 DEF Stamped
  <2> QED BY <1>0, <1>1, <2>2, <2>3 DEF ReleaseStamp, WithFetch
<1>2. CASE Stamp(c)
  <2>1. Alone(c) BY <1>2 DEF Stamp
  <2>2. CASE /\ tags' = [tags EXCEPT ![c] = Fetched(c)] /\ Fail(c, "failed")
             /\ UNCHANGED <<rtags, branch, cmd, lag, now, faults, killed>>
    BY <2>1, <2>2 DEF Stamped
  <2> DEFINE Failing(ts) == [ts |-> ts, ver |-> From(c), count |-> NoCounts, out |-> "KeyError"]
             p(ts, a) == Plan(ts, From(c), a)
             r(ts, a) == Attempts(ts, p(ts, a).from, p(ts, a).mode, a.pr)
  <2>3. CASE \E ts \in Views(c), a \in Args :
                IF Fails(ts, From(c), a) THEN Publish(c, Failing(ts)) ELSE Publish(c, r(ts, a))
    <3>1. PICK ts \in Views(c), a \in Args :
             IF Fails(ts, From(c), a) THEN Publish(c, Failing(ts)) ELSE Publish(c, r(ts, a))
      BY <2>3
    <3>2. CASE Fails(ts, From(c), a)
      <4>1. Publish(c, Failing(ts)) BY <3>1, <3>2
      <4>2. From(c) \in Drafts BY FromIs DEF Versions, Drafts
      <4>3. ts \in SUBSET Tags BY ViewIs DEF Sound
      <4>4. Failing(ts) \in Ends /\ Failing(ts).out = "KeyError" /\ Failing(ts).ts = ts
        BY <4>2, <4>3 DEF NoCounts, Counts, Ends
      <4> HIDE DEF Failing
      <4> QED BY <2>1, <4>1, <4>4 DEF Stamped
    <3>3. CASE ~Fails(ts, From(c), a)
      <4> DEFINE q == p(ts, a)
                 s == r(ts, a)
      <4>1. Publish(c, s) BY <3>1, <3>3
      <4>2. /\ q.mode \in Modes \cup {Unset}
            /\ Begins(c, ts, q.from, q.mode)
            /\ From(c).pre = Release /\ q.mode = Unset =>
                  \/ q.from = From(c)
                  \/ ~Exists(ts, BaseOf(q.from), FALSE) /\ q.from.base # File(c).base
        BY <3>3, PlanIs
      <4>3. a.pr \in Pres \cup {Unset, Release}
        BY ReleasesAssumption
      <4>4. s = Attempts(ts, q.from, q.mode, a.pr) OBVIOUS
      <4> HIDE DEF q, s, p, r
      <4>5. Result(c, q.from, q.mode, a.pr, s) /\ ts \subseteq s.ts
        BY <4>2, <4>3, <4>4, AttemptsIs DEF Begins
      <4>6. s \in Ends /\ s.ts \in Views(c) BY <4>5 DEF Result, Passes, Ends
      <4>7. s.out = "ok" => Sequel(c, s.ts, s) BY <4>2, <4>3, <4>4, SequelIs
      <4>8. ASSUME s.out = "released", OwnReleased(c) PROVE News(c, s.ts)
        <5>1. From(c).pre = Release BY <4>8, GoesOnIs
        <5>2. PICK v : OnTheWay(s.ts, q.from, q.mode, v) /\ Refuses(s.ts, v, q.mode) = "released"
          BY <4>5, <4>8 DEF Result
        <5>3. v.pre # Release /\ q.mode = Unset /\ Exists(s.ts, BaseOf(v), FALSE)
          BY <5>2 DEF Refuses
        <5>4. v.base = q.from.base /\ (q.from.pre = Release => v = q.from)
          BY <5>2, <5>3 DEF OnTheWay
        <5>5. BaseOf(v) = BaseOf(q.from) BY <5>4 DEF BaseOf
        <5>6. ~Exists(ts, BaseOf(v), FALSE) /\ q.from.base # File(c).base
          BY <4>2, <5>1, <5>3, <5>4, <5>5
        <5>7. PICK u \in s.ts : Named(u, BaseOf(v), FALSE) BY <5>3 DEF Exists
        <5>8. u \notin tags[c] BY <5>6, <5>7, ViewIs DEF Exists
        <5>9. ~u.meta /\ u.ver.pre = Release /\ u.ver.base = q.from.base
          BY <5>4, <5>7 DEF Named, BaseOf
        <5> QED BY <5>6, <5>7, <5>8, <5>9 DEF News
      <4> QED BY <2>1, <4>1, <4>6, <4>7, <4>8 DEF Stamped
    <3> QED BY <3>2, <3>3
  <2> QED BY <1>0, <1>2, <2>2, <2>3 DEF Stamp, WithFetch
<1> QED BY <1>1, <1>2

-----------------------------------------------------------------------------
(***************************************************************************)
(* The steps.                                                              *)
(***************************************************************************)

\* It holds at the start.
LEMMA InitInv == Init => IInv
<1> SUFFICES ASSUME Init PROVE IInv
  OBVIOUS
<1> DEFINE t == [ver |-> Initial, meta |-> FALSE, on |-> <<Nobody, 0>>,
                 at |-> 0, count |-> NoCounts]
<1>1. /\ rtags = {t} /\ tags = [c \in Clones |-> {t}] /\ branch = [c \in Clones |-> <<>>]
      /\ cmd = [c \in Clones |-> <<>>] /\ res = Nothing /\ lag \in Lags
      /\ now = 0 /\ faults = 0 /\ killed = {}
  BY DEF Init, Idle
<1>2. Initial \in Versions /\ Initial.n = 0 /\ Initial.pre = Release BY DEF Initial, Versions
<1>3. NoCounts \in Counts BY DEF NoCounts, Counts
<1>4. t \in Tags /\ t.ver = Initial /\ t.count = NoCounts
  <2> HIDE DEF NoCounts, Initial
  <2> QED BY <1>2, <1>3 DEF Tags
<1> HIDE DEF t
<1>5. Sound({t})
  <2>1. IsFiniteSet({t}) BY FS_Singleton
  <2>2. 1 .. t.ver.n = {} BY <1>2, <1>4
  <2>3. \A p \in Pres : t.count[p] = 0 BY <1>4 DEF NoCounts
  <2> QED BY <1>4, <2>1, <2>2, <2>3 DEF Sound
<1>6. TypeOK
  <2>1. Nothing \in [by : Clones \cup {Nobody}, out : Outcomes, ver : Versions, meta : BOOLEAN]
    BY <1>2 DEF Nothing, Outcomes
  <2>2. <<>> \in Seq(Versions) /\ <<>> \in Seq(Tags) /\ Len(<<>>) = 0 OBVIOUS
  <2>3. 0 \in 0 .. MaxFaults BY ReleasesAssumption
  <2> QED BY <1>1, <1>4, <2>1, <2>2, <2>3 DEF TypeOK
<1>7. ASSUME NEW c \in Clones PROVE Sound(tags[c]) /\ Local(c)
  <2>1. tags[c] = {t} /\ branch[c] = <<>> /\ cmd[c] = Idle BY <1>1 DEF Idle
  <2>2. 1 .. Len(branch[c]) = {} BY <2>1
  <2> QED BY <1>1, <1>5, <2>1, <2>2 DEF Local, Public
<1>8. ReleaseTellsTheTruth BY <1>1 DEF ReleaseTellsTheTruth, Nothing
<1>9. VersionsGrow
  <2>1. \A c \in Clones : 1 .. Len(branch[c]) = {} BY <1>1
  <2> QED BY <2>1 DEF VersionsGrow
<1> QED BY <1>1, <1>5, <1>6, <1>7, <1>8, <1>9 DEF IInv

\* What a clone that stands by has stays right when the remote gets more tags,
\* and none of its own commands is killed.
LEMMA StandsBy ==
    ASSUME NEW d \in Clones, Local(d), rtags \subseteq rtags', tags'[d] = tags[d],
           cmd'[d] = cmd[d], branch'[d] = branch[d], d \in killed => d \in killed'
    PROVE  Local(d)'
<1>1. Public(tags[d])' BY DEF Local, Public
<1>2. \A t : IsPending(d, t)' <=> IsPending(d, t) BY DEF IsPending
<1>3. d \notin killed' => \A t \in tags'[d] : t \in rtags' \/ IsPending(d, t)'
  BY <1>2 DEF Local
<1>4. cmd'[d] # Idle =>
         cmd'[d][1] \in tags'[d] /\ (cmd'[d][1].meta \/ cmd'[d][1].ver.pre = Release)
  BY DEF Local
<1>5. \A i \in 1 .. Len(branch'[d]) :
         \E t \in tags'[d] : Named(t, branch'[d][i], FALSE) /\ ~IsPending(d, t)'
  BY <1>2 DEF Local
<1> QED BY <1>1, <1>3, <1>4, <1>5 DEF Local

\* An idle clone takes over the view ts.
LEMMA TakesView ==
    ASSUME IInv, NEW c \in Clones, NEW ts \in Views(c), Alone(c),
           tags' = [tags EXCEPT ![c] = ts], UNCHANGED <<rtags, branch, cmd, killed>>
    PROVE  \A d \in Clones : Sound(tags'[d]) /\ Local(d)'
<1> SUFFICES ASSUME NEW d \in Clones PROVE Sound(tags'[d]) /\ Local(d)'
  OBVIOUS
<1>0. Local(d) /\ Sound(tags[d]) /\ tags \in [Clones -> SUBSET Tags] BY DEF IInv, TypeOK
<1>1. CASE d # c
  <2>1. tags'[d] = tags[d] BY <1>0, <1>1
  <2> QED BY <1>0, <2>1, StandsBy
<1>2. CASE d = c
  <2>1. tags'[c] = ts BY <1>0
  <2>2. Sound(ts) /\ tags[c] \subseteq ts /\ Public(ts) /\ ts \subseteq tags[c] \cup rtags
    BY ViewIs
  <2>3. cmd'[c] = Idle /\ cmd[c] = Idle BY DEF Alone
  <2>4. Public(tags[c])' BY <2>1, <2>2 DEF Public
  <2>5. c \notin killed' => \A t \in tags'[c] : t \in rtags' \/ IsPending(c, t)'
    BY <1>0, <1>2, <2>1, <2>2, <2>3 DEF Local, IsPending
  <2>6. \A i \in 1 .. Len(branch'[c]) :
           \E t \in tags'[c] : Named(t, branch'[c][i], FALSE) /\ ~IsPending(c, t)'
    BY <1>0, <1>2, <2>1, <2>2, <2>3 DEF Local, IsPending
  <2>7. Local(c)' BY <2>3, <2>4, <2>5, <2>6 DEF Local
  <2> QED BY <1>2, <2>1, <2>2, <2>7
<1> QED BY <1>1, <1>2

\* A branch grows by a version that may come after all that is there.
LEMMA AppendGrows ==
    ASSUME NEW b \in Seq(Versions), Grows(b), NEW w \in Versions,
           \A i \in 1 .. Len(b) : Precedes(b[i], w)
    PROVE  Append(b, w) \in Seq(Versions) /\ Grows(Append(b, w))
<1> DEFINE d == Append(b, w)
           n == Len(b)
<1>1. d \in Seq(Versions) /\ n \in Nat /\ Len(d) = n + 1 /\ d[n + 1] = w
      /\ \A i \in 1 .. n : d[i] = b[i]
  BY AppendProperties
<1> HIDE DEF d
<1>2. ASSUME NEW i \in 1 .. n + 1, NEW j \in 1 .. n + 1, i < j PROVE Precedes(d[i], d[j])
  <2>1. i \in 1 .. n /\ (j \in 1 .. n \/ j = n + 1) BY <1>1, <1>2
  <2>2. CASE j = n + 1 BY <1>1, <2>1, <2>2
  <2>3. CASE j \in 1 .. n BY <1>1, <1>2, <2>1, <2>3 DEF Grows
  <2> QED BY <2>1, <2>2, <2>3
<1>3. Grows(d) BY <1>1, <1>2 DEF Grows
<1> QED BY <1>1, <1>3 DEF d

\* The outcomes of commands.
Results == [by : Clones \cup {Nobody}, out : Outcomes, ver : Versions, meta : BOOLEAN]

\* A command ends with an outcome, and with success when it says so.
LEMMA ResultIs ==
    ASSUME NEW c \in Clones
    PROVE  /\ Quiet => res' \in Results /\ res'.out = "none"
           /\ \A out : Fail(c, out) /\ out # "ok" => res' \in Results /\ res'.out # "ok"
           /\ \A v \in Versions, m \in BOOLEAN :
                 Done(c, v, m) =>
                    /\ res' \in Results /\ res'.by = c /\ res'.out = "ok"
                    /\ res'.ver = v /\ res'.meta = m
<1>1. Nothing \in Results /\ Nothing.out = "none"
  BY DEF Nothing, Results, Outcomes, Initial, Versions
<1>2. "ok" \in Outcomes BY DEF Outcomes
<1>3. Quiet => res' \in Results /\ res'.out = "none"
  BY <1>1 DEF Quiet
<1>4. ASSUME NEW out, Fail(c, out), out # "ok" PROVE res' \in Results /\ res'.out # "ok"
  <2>1. CASE out \in Outcomes
    <3>1. res' = [Nothing EXCEPT !.by = c, !.out = out] BY <1>4, <2>1 DEF Fail
    <3> QED BY <1>1, <1>4, <2>1, <3>1 DEF Results
  <2>2. CASE out \notin Outcomes
    <3>1. res' = Nothing BY <1>4, <2>2 DEF Fail
    <3> QED BY <1>1, <3>1
  <2> QED BY <2>1, <2>2
<1>5. ASSUME NEW v \in Versions, NEW m \in BOOLEAN, Done(c, v, m)
      PROVE  res' \in Results /\ res'.by = c /\ res'.out = "ok" /\ res'.ver = v /\ res'.meta = m
  BY <1>2, <1>5 DEF Done, Results
<1> QED BY <1>3, <1>4, <1>5

\* A step after which nothing is reported as done, or what is done is there.
Told == res'.out = "ok" /\ res'.by \notin killed' =>
           \E t \in rtags' \cap tags'[res'.by] : Named(t, res'.ver, res'.meta)

\* That is ReleaseTellsTheTruth after the step.
LEMMA ToldIs == Told => ReleaseTellsTheTruth'
BY DEF Told, ReleaseTellsTheTruth

\* The parts of the invariant after a step that stamps nothing.
LEMMA StampsNothing ==
    ASSUME IInv, res' \in Results, Told, UNCHANGED <<branch, lag>>,
           rtags' \subseteq Tags, tags' \in [Clones -> SUBSET Tags], cmd' \in [Clones -> Seq(Tags)],
           \A c \in Clones : Len(cmd'[c]) <= 1,
           now' \in Nat, faults' \in 0 .. MaxFaults, killed' \in SUBSET Clones,
           Sound(rtags'), \A c \in Clones : Sound(tags'[c]) /\ Local(c)'
    PROVE  IInv'
<1>1. TypeOK' BY DEF IInv, TypeOK, Results
<1>2. VersionsGrow'
  <2>1. VersionsGrow /\ branch' = branch BY DEF IInv
  <2>2. ASSUME NEW c \in Clones PROVE branch[c] \in Seq(Versions) /\ Grows(branch[c])
    <3>1. branch[c] \in Seq(Versions) BY DEF IInv, TypeOK
    <3> QED BY <2>1, <3>1, GrowsIs DEF VersionsGrow
  <2>3. \A c \in Clones : branch'[c] \in Seq(Versions) /\ Grows(branch'[c]) BY <2>1, <2>2
  <2> QED BY <2>3, GrowsIs DEF VersionsGrow
<1>3. ReleaseTellsTheTruth' BY ToldIs
<1> QED BY <1>1, <1>2, <1>3 DEF IInv

\* A view is taken over, and no success reported.
LEMMA ViewStep ==
    ASSUME IInv, NEW c \in Clones, NEW ts \in Views(c), Alone(c),
           tags' = [tags EXCEPT ![c] = ts], res' \in Results, res'.out # "ok",
           UNCHANGED <<rtags, branch, cmd, lag, now, faults, killed>>
    PROVE  IInv'
<1>1. \A d \in Clones : Sound(tags'[d]) /\ Local(d)' BY TakesView
<1>2. ts \subseteq Tags BY ViewIs DEF Sound
<1>3. tags' \in [Clones -> SUBSET Tags] BY <1>2 DEF IInv, TypeOK
<1>4. Told BY DEF Told
<1> QED BY <1>1, <1>3, <1>4, StampsNothing DEF IInv, TypeOK

\* A fetch.
LEMMA FetchStep ==
    ASSUME IInv, NEW c \in Clones, Fetch(c)
    PROVE  IInv'
<1>1. res' \in Results /\ res'.out # "ok" BY ResultIs DEF Fetch
<1>2. Fetched(c) \in Views(c) BY StartsIs
<1> QED BY <1>1, <1>2, ViewStep DEF Fetch

\* A stamp's version is published.
LEMMA PublishStep ==
    ASSUME IInv, NEW c \in Clones, NEW r \in Ends, r.ts \in Views(c), Alone(c),
           r.out = "ok", ~Exists(rtags, r.ver, FALSE), Sequel(c, r.ts, r), Publish(c, r)
    PROVE  IInv'
<1> DEFINE ts == r.ts
           made == [ver |-> r.ver, meta |-> FALSE, on |-> <<c, Len(branch[c]) + 1>>,
                    at |-> Date(c, ts), count |-> r.count]
<1>1. /\ rtags' = rtags \cup {made} /\ tags' = [tags EXCEPT ![c] = ts \cup {made}]
      /\ now' = Max({now, made.at + lag[c]})
      /\ branch' = [branch EXCEPT ![c] = Append(@, r.ver)]
      /\ Done(c, r.ver, FALSE) /\ UNCHANGED <<cmd, lag, faults, killed>>
  BY DEF Publish
<1>0. ts \in Views(c) /\ Sequel(c, ts, r) OBVIOUS
<1> HIDE DEF ts
<1>2. TypeOK /\ branch \in [Clones -> Seq(Versions)] /\ tags \in [Clones -> SUBSET Tags]
  BY DEF IInv, TypeOK
<1>3. Date(c, ts) \in Int /\ now' \in Nat
  <2>1. now \in Nat /\ lag[c] \in Nat BY <1>2, ReleasesAssumption DEF TypeOK
  <2>2. Date(c, ts) \in Int
    <3> DEFINE d == now + 1 - lag[c]
    <3>1. d \in Int BY <2>1
    <3>2. Date(c, ts) = d \/ Date(c, ts) = d + 1 BY DEF Date
    <3> QED BY <3>1, <3>2
  <2>3. now' = Max({now, Date(c, ts) + lag[c]}) BY <1>1
  <2>4. now \in Int /\ Date(c, ts) + lag[c] \in Int BY <2>1, <2>2
  <2>5. now' \in {now, Date(c, ts) + lag[c]} /\ now <= now' BY <2>3, <2>4, LargerIs, Zenon
  <2> QED BY <2>1, <2>2, <2>4, <2>5
<1>4. Follows(ts, r) /\ ~Exists(ts, r.ver, FALSE) BY <1>0 DEF Sequel
<1>5. r.ver \in Versions /\ r.count \in Counts BY <1>4 DEF Follows
<1>6. /\ made \in Tags /\ made.ver = r.ver /\ made.meta = FALSE /\ made.count = r.count
  <2>1. <<c, Len(branch[c]) + 1>> \in (Clones \cup {Nobody}) \X Nat BY <1>2
  <2> QED BY <1>3, <1>5, <2>1 DEF Tags
<1> HIDE DEF made
<1>7. Sound(ts) /\ tags[c] \subseteq ts /\ Public(ts) /\ ts \subseteq tags[c] \cup rtags
  BY <1>0, ViewIs
<1>8. Sound(ts \cup {made})
  <2>1. ASSUME NEW n \in 1 .. made.ver.n
        PROVE  Exists(ts \cup {made}, [made.ver EXCEPT !.n = n], FALSE)
    <3>1. r.ver.n \in Nat /\ (r.ver.pre = Release => r.ver.n = 0) BY <1>5 DEF Versions
    <3>2. r.ver.pre # Release BY <1>6, <3>1
    <3>3. CASE n = r.ver.n
      <4>1. [made.ver EXCEPT !.n = n] = made.ver BY <1>5, <1>6, <3>3 DEF Versions
      <4> QED BY <1>6, <4>1 DEF Exists, Named
    <3>4. CASE n # r.ver.n
      <4>1. n \in 1 .. r.ver.n - 1 BY <1>6, <3>1, <3>4
      <4>2. Exists(ts, [made.ver EXCEPT !.n = n], FALSE) BY <1>4, <1>6, <3>2, <4>1 DEF Follows
      <4> QED BY <4>2 DEF Exists
    <3> QED BY <3>3, <3>4
  <2>2. ASSUME NEW p \in Pres, made.count[p] # 0
        PROVE  Exists(ts \cup {made}, [base |-> made.ver.base, pre |-> p, n |-> made.count[p]], FALSE)
    <3> DEFINE w == [base |-> made.ver.base, pre |-> p, n |-> made.count[p]]
    <3>1. (p = made.ver.pre /\ made.count[p] = made.ver.n) \/ Exists(ts, w, FALSE)
      BY <1>4, <1>6, <2>2 DEF Follows
    <3>2. CASE p = made.ver.pre /\ made.count[p] = made.ver.n
      <4>1. w = made.ver BY <1>5, <1>6, <3>2 DEF Versions
      <4> HIDE DEF w
      <4>2. Exists(ts \cup {made}, w, FALSE) BY <1>6, <4>1 DEF Exists, Named
      <4> QED BY <4>2 DEF w
    <3>3. CASE Exists(ts, w, FALSE) BY <3>3 DEF Exists
    <3> QED BY <3>1, <3>2, <3>3
  <2>3. ~Exists(ts, made.ver, made.meta) BY <1>4, <1>6
  <2> QED BY <1>6, <1>7, <2>1, <2>2, <2>3, AddedIs
<1>9. Sound(rtags \cup {made})
  <2>1. ~Exists(rtags, made.ver, made.meta) BY <1>6
  <2>2. \A u \in ts \cup {made} : ~u.meta /\ u.ver.pre # Release => u \in rtags \cup {made}
    BY <1>7 DEF Public
  <2>3. Sound(rtags) BY DEF IInv
  <2>4. made \in ts \cup {made} OBVIOUS
  <2> QED BY <1>8, <2>1, <2>2, <2>3, <2>4, CopiedIs
<1>10. cmd[c] = Idle /\ cmd' = cmd /\ killed' = killed BY <1>1 DEF Alone
<1>11. ASSUME NEW d \in Clones PROVE Sound(tags'[d]) /\ Local(d)'
  <2>0. Local(d) /\ Sound(tags[d]) BY DEF IInv
  <2>1. CASE d # c
    <3>1. tags'[d] = tags[d] /\ branch'[d] = branch[d] /\ rtags \subseteq rtags'
      BY <1>1, <1>2, <2>1
    <3> QED BY <1>10, <2>0, <3>1, StandsBy
  <2>2. CASE d = c
    <3>1. tags'[c] = ts \cup {made} /\ branch'[c] = Append(branch[c], r.ver) BY <1>1, <1>2
    <3>2. Public(tags[c])' BY <1>1, <1>7, <3>1 DEF Public
    <3>3. \A t : ~IsPending(c, t) /\ ~IsPending(c, t)' BY <1>10 DEF IsPending
    <3>4. c \notin killed' => \A t \in tags'[c] : t \in rtags' \/ IsPending(c, t)'
      BY <1>1, <1>7, <1>10, <2>0, <2>2, <3>1, <3>3 DEF Local
    <3>5. ASSUME NEW i \in 1 .. Len(branch'[c])
          PROVE  \E t \in tags'[c] : Named(t, branch'[c][i], FALSE) /\ ~IsPending(c, t)'
      <4> DEFINE n == Len(branch[c])
      <4>1. /\ n \in Nat /\ Len(branch'[c]) = n + 1 /\ branch'[c][n + 1] = r.ver
            /\ \A k \in 1 .. n : branch'[c][k] = branch[c][k]
        BY <1>2, <1>5, <3>1, AppendProperties
      <4>2. CASE i = n + 1
        <5>1. Named(made, branch'[c][i], FALSE) BY <1>6, <4>1, <4>2 DEF Named
        <5> QED BY <3>1, <3>3, <5>1
      <4>3. CASE i # n + 1
        <5>1. i \in 1 .. n BY <4>1, <4>3
        <5>2. \E t \in tags[c] : Named(t, branch[c][i], FALSE)
          BY <2>0, <2>2, <5>1 DEF Local
        <5> QED BY <1>7, <3>1, <3>3, <4>1, <5>1, <5>2
      <4> QED BY <4>2, <4>3
    <3>6. Local(c)' BY <1>10, <3>2, <3>4, <3>5 DEF Local
    <3> QED BY <1>8, <2>2, <3>1, <3>6
  <2> QED BY <2>1, <2>2
<1>12. VersionsGrow' /\ branch' \in [Clones -> Seq(Versions)]
  <2>1. ASSUME NEW d \in Clones PROVE branch'[d] \in Seq(Versions) /\ Grows(branch'[d])
    <3>1. branch[d] \in Seq(Versions) BY <1>2
    <3>2. Grows(branch[d])
      <4>1. VersionsGrow BY DEF IInv
      <4> QED BY <3>1, <4>1, GrowsIs DEF VersionsGrow
    <3>3. CASE d # c BY <1>1, <1>2, <3>1, <3>2, <3>3
    <3>4. CASE d = c
      <4>1. branch'[c] = Append(branch[c], r.ver) BY <1>1, <1>2
      <4>2. \A i \in 1 .. Len(branch[c]) : Precedes(branch[c][i], r.ver) BY <1>0 DEF Sequel
      <4> QED BY <1>5, <3>1, <3>2, <3>4, <4>1, <4>2, AppendGrows
    <3> QED BY <3>3, <3>4
  <2>2. branch' = [d \in Clones |-> branch'[d]] BY <1>1, <1>2
  <2> QED BY <2>1, <2>2, GrowsIs DEF VersionsGrow
<1>13. res' \in Results /\ ReleaseTellsTheTruth'
  <2>1. res' \in Results /\ res'.by = c /\ res'.ver = r.ver /\ res'.meta = FALSE
    BY <1>1, <1>5, ResultIs
  <2>2. made \in rtags' \cap tags'[c] /\ Named(made, r.ver, FALSE)
    BY <1>1, <1>2, <1>6 DEF Named
  <2>3. Told BY <2>1, <2>2 DEF Told
  <2> QED BY <2>1, <2>3, ToldIs
<1>14. TypeOK'
  <2>1. rtags' \subseteq Tags BY <1>1, <1>9 DEF Sound
  <2>2. tags' \in [Clones -> SUBSET Tags]
    <3>1. ts \cup {made} \subseteq Tags BY <1>8 DEF Sound
    <3> QED BY <1>1, <1>2, <3>1
  <2> QED BY <1>1, <1>2, <1>3, <1>12, <1>13, <2>1, <2>2 DEF TypeOK, Results
<1>15. Sound(rtags') BY <1>1, <1>9
<1>16. cmd' = [d \in Clones |-> cmd'[d]] BY <1>10 DEF IInv
<1> QED BY <1>11, <1>12, <1>13, <1>14, <1>15, <1>16 DEF IInv

\* A stamp, which publishes or comes to nothing.
LEMMA StampStep ==
    ASSUME IInv, NEW c \in Clones, Stamp(c) \/ ReleaseStamp(c)
    PROVE  IInv'
<1>1. Alone(c) /\ Stamped(c) BY StampIs
<1>2. CASE /\ tags' = [tags EXCEPT ![c] = Fetched(c)] /\ Fail(c, "failed")
           /\ UNCHANGED <<rtags, branch, cmd, lag, now, faults, killed>>
  <2>1. res' \in Results /\ res'.out # "ok" BY <1>2, ResultIs
  <2>2. Fetched(c) \in Views(c) BY StartsIs
  <2> QED BY <1>1, <1>2, <2>1, <2>2, ViewStep
<1>3. ASSUME NEW r \in Ends, r.ts \in Views(c), Publish(c, r),
             r.out = "ok" => Sequel(c, r.ts, r)
      PROVE  IInv'
  <2>1. CASE r.out # "ok"
    <3>1. tags' = [tags EXCEPT ![c] = r.ts] /\ Fail(c, r.out)
          /\ UNCHANGED <<rtags, branch, cmd, lag, now, faults, killed>>
      BY <1>3, <2>1 DEF Publish
    <3>2. res' \in Results /\ res'.out # "ok" BY <2>1, <3>1, ResultIs
    <3> QED BY <1>1, <1>3, <3>1, <3>2, ViewStep
  <2>3. CASE r.out = "ok" /\ Exists(rtags, r.ver, FALSE)
    <3> DEFINE ts == Refetched(r.ts, r.ver)
    <3>1. tags' = [tags EXCEPT ![c] = ts] /\ Fail(c, "refused")
          /\ UNCHANGED <<rtags, branch, cmd, lag, now, faults, killed>>
      BY <1>3, <2>3 DEF Publish
    <3>2. res' \in Results /\ res'.out # "ok" BY <3>1, ResultIs
    <3>3. ts \in Views(c) BY <1>3, <2>3, RefetchedIs DEF Sequel
    <3> HIDE DEF ts
    <3> QED BY <1>1, <3>1, <3>2, <3>3, ViewStep
  <2>2. CASE r.out = "ok" /\ ~Exists(rtags, r.ver, FALSE)
    BY <1>1, <1>3, <2>2, PublishStep
  <2> QED BY <2>1, <2>2, <2>3
<1> QED BY <1>1, <1>2, <1>3 DEF Stamped

\* A tag that is made before its push.
LEMMA TagStep ==
    ASSUME IInv, NEW c \in Clones, Alone(c), NEW t \in tags[c], NEW v \in Versions,
           NEW meta \in BOOLEAN, v.base = t.ver.base, meta \/ v.pre = Release,
           (v = t.ver /\ ~t.meta) \/ v.pre = Release,
           Tag(c, t, v, meta), UNCHANGED <<rtags, branch, lag, now, faults, killed>>
    PROVE  IInv'
<1> DEFINE made == [t EXCEPT !.ver = v, !.meta = meta, !.at = Date(c, tags[c])]
<1>1. /\ Sound(tags[c]) /\ Local(c) /\ Sound(rtags) /\ cmd[c] = Idle
      /\ tags \in [Clones -> SUBSET Tags] /\ cmd = [d \in Clones |-> cmd[d]]
      /\ \A d \in Clones : cmd[d] \in Seq(Tags) /\ Len(cmd[d]) <= 1
  BY DEF IInv, Alone, TypeOK
<1>2. CASE Exists(tags[c], v, meta)
  <2>1. Fail(c, "failed") /\ UNCHANGED <<tags, cmd>> BY <1>2 DEF Tag
  <2>2. res' \in Results /\ res'.out # "ok" BY <2>1, ResultIs
  <2>3. tags[c] \in Views(c) BY StartsIs
  <2>4. tags' = [tags EXCEPT ![c] = tags[c]] BY <1>1, <2>1
  <2> QED BY <2>1, <2>2, <2>3, <2>4, ViewStep
<1>3. CASE ~Exists(tags[c], v, meta)
  <2>1. /\ tags' = [tags EXCEPT ![c] = @ \cup {made}]
        /\ cmd' = [cmd EXCEPT ![c] = <<made>>]
        /\ Quiet
    BY <1>3 DEF Tag
  <2>2. /\ made \in Tags /\ made.ver = v /\ made.meta = meta /\ made.count = t.count
    <3>1. t \in Tags BY <1>1 DEF Sound
    <3>2. Date(c, tags[c]) \in Int
      <4>1. now \in Nat /\ lag[c] \in Nat BY ReleasesAssumption DEF IInv, TypeOK
      <4>2. now + 1 - lag[c] \in Int BY <4>1
      <4>3. Date(c, tags[c]) = now + 1 - lag[c] \/ Date(c, tags[c]) = now + 1 - lag[c] + 1
        BY DEF Date
      <4> QED BY <4>2, <4>3
    <3> QED BY <3>1, <3>2 DEF Tags
  <2> HIDE DEF made
  <2> DEFINE new == tags[c] \cup {made}
  <2>3. Sound(new)
    <3>1. \A w : Exists(tags[c], w, FALSE) => Exists(new, w, FALSE) BY DEF Exists
    <3>2. ASSUME NEW n \in 1 .. made.ver.n PROVE Exists(new, [made.ver EXCEPT !.n = n], FALSE)
      <4>1. v = t.ver BY <2>2, <3>2 DEF Versions
      <4>2. Exists(tags[c], [t.ver EXCEPT !.n = n], FALSE) BY <1>1, <2>2, <3>2, <4>1 DEF Sound
      <4> QED BY <2>2, <3>1, <4>1, <4>2
    <3>3. ASSUME NEW p \in Pres, made.count[p] # 0
          PROVE  Exists(new, [base |-> made.ver.base, pre |-> p, n |-> made.count[p]], FALSE)
      <4> DEFINE w == [base |-> made.ver.base, pre |-> p, n |-> made.count[p]]
      <4>1. Exists(tags[c], w, FALSE) BY <1>1, <2>2, <3>3 DEF Sound
      <4> HIDE DEF w
      <4>2. Exists(new, w, FALSE) BY <3>1, <4>1
      <4> QED BY <4>2 DEF w
    <3>4. ~Exists(tags[c], made.ver, made.meta) BY <1>3, <2>2
    <3> QED BY <1>1, <2>2, <3>2, <3>3, <3>4, AddedIs
  <2>4. res' \in Results /\ Told BY <2>1, ResultIs DEF Told
  <2>5. tags' \in [Clones -> SUBSET Tags] /\ tags'[c] = new
    BY <1>1, <2>1, <2>2
  <2>6. cmd' \in [Clones -> Seq(Tags)] /\ cmd'[c] = <<made>> /\ \A d \in Clones : Len(cmd'[d]) <= 1
    <3>1. <<made>> \in Seq(Tags) /\ Len(<<made>>) = 1 BY <2>2
    <3> QED BY <1>1, <2>1, <3>1
  <2>7. ASSUME NEW d \in Clones PROVE Sound(tags'[d]) /\ Local(d)'
    <3>0. Local(d) /\ Sound(tags[d]) BY DEF IInv
    <3>1. CASE d # c
      <4>1. tags'[d] = tags[d] /\ cmd'[d] = cmd[d] BY <1>1, <2>1, <3>1
      <4> QED BY <3>0, <4>1, StandsBy
    <3>2. CASE d = c
      <4>1. Public(tags[c])' BY <1>1, <2>2, <2>5 DEF Local, Public
      <4>2. cmd'[c] # Idle /\ cmd'[c][1] = made /\ \A x : IsPending(c, x)' <=> x = made
        BY <2>6 DEF IsPending, Idle
      <4>3. c \notin killed' => \A x \in tags'[c] : x \in rtags' \/ IsPending(c, x)'
        BY <1>1, <2>5, <4>2 DEF Local, IsPending
      <4>4. made \notin tags[c] BY <1>3, <2>2 DEF Exists, Named
      <4>5. \A i \in 1 .. Len(branch'[c]) :
               \E x \in tags'[c] : Named(x, branch'[c][i], FALSE) /\ ~IsPending(c, x)'
        BY <1>1, <2>5, <4>2, <4>4 DEF Local
      <4>6. Local(c)' BY <2>2, <2>5, <4>1, <4>2, <4>3, <4>5 DEF Local
      <4> QED BY <2>3, <2>5, <3>2, <4>6
    <3> QED BY <3>1, <3>2
  <2>8. Sound(rtags') /\ rtags' \subseteq Tags BY <1>1 DEF Sound
  <2>9. now' \in Nat /\ faults' \in 0 .. MaxFaults /\ killed' \in SUBSET Clones
    BY DEF IInv, TypeOK
  <2> QED BY <2>4, <2>5, <2>6, <2>7, <2>8, <2>9, StampsNothing
<1> QED BY <1>2, <1>3

\* What a clone knows, when nothing was left behind by a killed command, is the
\* remote's: to report a tag it has found is to tell the truth.
LEMMA FoundStep ==
    ASSUME IInv, NEW c \in Clones, Alone(c), NEW u \in tags[c],
           Done(c, u.ver, u.meta), UNCHANGED <<rtags, tags, branch, cmd, lag, now, faults, killed>>
    PROVE  IInv'
<1>1. Sound(tags[c]) /\ Local(c) BY DEF IInv
<1>2. u.ver \in Versions /\ u.meta \in BOOLEAN BY <1>1 DEF Sound, Tags
<1>3. res' \in Results /\ res'.by = c /\ res'.ver = u.ver /\ res'.meta = u.meta
  BY <1>2, ResultIs
<1>4. c \notin killed => u \in rtags BY <1>1 DEF Local, IsPending, Alone
<1>5. Told BY <1>3, <1>4 DEF Told, Named
<1>6. \A d \in Clones : Sound(tags'[d]) /\ Local(d)'
  <2> SUFFICES ASSUME NEW d \in Clones PROVE Sound(tags'[d]) /\ Local(d)'
    OBVIOUS
  <2>1. Local(d) /\ Sound(tags[d]) BY DEF IInv
  <2> QED BY <2>1, StandsBy
<1>7. cmd' \in [Clones -> Seq(Tags)] /\ \A d \in Clones : Len(cmd'[d]) <= 1
  BY DEF IInv, TypeOK
<1> QED BY <1>3, <1>5, <1>6, <1>7, StampsNothing DEF IInv, TypeOK

\* A release makes a tag, or finds one.
LEMMA ReleaseStep ==
    ASSUME IInv, NEW c \in Clones, ReleaseVersion(c)
    PROVE  IInv'
<1>1. Alone(c) /\ UNCHANGED <<rtags, branch, lag, now, faults, killed>> BY DEF ReleaseVersion
<1>2. PICK t \in tags[c] :
         /\ ~t.meta
         /\ IF \E u \in tags[c] : Named(u, BaseOf(t.ver), FALSE) /\ u.on = t.on
            THEN Done(c, BaseOf(t.ver), FALSE) /\ UNCHANGED <<tags, cmd>>
            ELSE Tag(c, t, BaseOf(t.ver), FALSE)
  BY DEF ReleaseVersion
<1>3. CASE \E u \in tags[c] : Named(u, BaseOf(t.ver), FALSE) /\ u.on = t.on
  <2>1. PICK u \in tags[c] : Named(u, BaseOf(t.ver), FALSE) BY <1>3
  <2>2. Done(c, u.ver, u.meta) /\ UNCHANGED <<tags, cmd>> BY <1>2, <1>3, <2>1 DEF Named
  <2> QED BY <1>1, <2>2, FoundStep
<1>4. CASE ~\E u \in tags[c] : Named(u, BaseOf(t.ver), FALSE) /\ u.on = t.on
  <2>1. t.ver \in Versions BY DEF IInv, Sound, Tags
  <2>2. /\ BaseOf(t.ver) \in Versions /\ BaseOf(t.ver).base = t.ver.base
        /\ BaseOf(t.ver).pre = Release
    BY <2>1 DEF BaseOf, Versions
  <2>3. Tag(c, t, BaseOf(t.ver), FALSE) BY <1>2, <1>4
  <2>4. FALSE \in BOOLEAN OBVIOUS
  <2> QED BY <1>1, <2>2, <2>3, <2>4, TagStep
<1> QED BY <1>3, <1>4

\* So does an addition of metadata.
LEMMA AddStep ==
    ASSUME IInv, NEW c \in Clones, Add(c)
    PROVE  IInv'
<1>1. Alone(c) /\ UNCHANGED <<rtags, branch, lag, now, faults, killed>> BY DEF Add
<1>2. PICK t \in tags[c] :
         /\ ~t.meta
         /\ IF Exists(tags[c], t.ver, TRUE)
            THEN Done(c, t.ver, TRUE) /\ UNCHANGED <<tags, cmd>>
            ELSE Tag(c, t, t.ver, TRUE)
  BY DEF Add
<1>3. CASE Exists(tags[c], t.ver, TRUE)
  <2>1. PICK u \in tags[c] : Named(u, t.ver, TRUE) BY <1>3 DEF Exists
  <2>2. Done(c, u.ver, u.meta) /\ UNCHANGED <<tags, cmd>> BY <1>2, <1>3, <2>1 DEF Named
  <2> QED BY <1>1, <2>2, FoundStep
<1>4. CASE ~Exists(tags[c], t.ver, TRUE)
  <2>1. t.ver \in Versions BY DEF IInv, Sound, Tags
  <2>2. Tag(c, t, t.ver, TRUE) BY <1>2, <1>4
  <2>3. TRUE \in BOOLEAN OBVIOUS
  <2> QED BY <1>1, <1>2, <2>1, <2>2, <2>3, TagStep
<1> QED BY <1>3, <1>4

\* What is pushed is on the remote; what is not is taken back, or left by a kill.
LEMMA PushStep ==
    ASSUME IInv, NEW c \in Clones, PushTag(c)
    PROVE  IInv'
<1> DEFINE t == cmd[c][1]
<1>1. /\ cmd[c] # Idle /\ t \in tags[c] /\ (t.meta \/ t.ver.pre = Release)
      /\ Sound(tags[c]) /\ Sound(rtags) /\ Local(c)
      /\ tags \in [Clones -> SUBSET Tags] /\ cmd = [d \in Clones |-> cmd[d]]
      /\ \A d \in Clones : cmd[d] \in Seq(Tags) /\ Len(cmd[d]) <= 1
  BY DEF IInv, TypeOK, Local, PushTag, Alone
<1>2. /\ cmd' = [cmd EXCEPT ![c] = Idle] /\ UNCHANGED <<branch, lag, killed>>
      /\ now' = IF rtags' = rtags THEN now ELSE Max({now, t.at + lag[c]})
  BY DEF PushTag
<1>3. rtags' = rtags \/ (rtags' = rtags \cup {t} /\ ~Exists(rtags, t.ver, t.meta))
  BY DEF PushTag
<1>4. /\ tags' = tags \/ tags' = [tags EXCEPT ![c] = @ \ {t}]
      /\ tags' = tags => rtags' = rtags \cup {t} /\ Done(c, t.ver, t.meta)
      /\ tags' # tags => Fail(c, "failed")
      /\ faults' \in 0 .. MaxFaults
  <2>1. tags[c] \ {t} # tags[c] BY <1>1
  <2>2. [tags EXCEPT ![c] = @ \ {t}] # tags BY <1>1, <2>1
  <2>3. faults \in 0 .. MaxFaults /\ MaxFaults \in Nat
    BY ReleasesAssumption DEF IInv, TypeOK
  <2> QED BY <2>2, <2>3 DEF PushTag, Dropped
<1>5. t \in Tags /\ t.ver \in Versions /\ t.meta \in BOOLEAN BY <1>1 DEF Sound, Tags
<1>6. \A x : IsPending(c, x) <=> x = t BY <1>1 DEF IsPending
<1> HIDE DEF t
<1>7. Sound(rtags')
  <2>1. CASE rtags' = rtags BY <1>1, <2>1
  <2>2. CASE rtags' = rtags \cup {t} /\ ~Exists(rtags, t.ver, t.meta)
    <3>1. \A u \in tags[c] : ~u.meta /\ u.ver.pre # Release => u \in rtags \cup {t}
      BY <1>1 DEF Local, Public
    <3>2. Sound(rtags \cup {t}) BY <1>1, <2>2, <3>1, CopiedIs
    <3> QED BY <2>2, <3>2
  <2> QED BY <1>3, <2>1, <2>2
<1>8. rtags \subseteq rtags' BY <1>3
<1>9. cmd' \in [Clones -> Seq(Tags)] /\ cmd'[c] = Idle /\ \A d \in Clones : Len(cmd'[d]) <= 1
  <2>1. Idle \in Seq(Tags) /\ Len(Idle) = 0 BY DEF Idle
  <2> QED BY <1>1, <1>2, <2>1
<1>10. tags'[c] = tags[c] \/ tags'[c] = tags[c] \ {t} BY <1>1, <1>4
<1>11. ASSUME NEW d \in Clones PROVE Sound(tags'[d]) /\ Local(d)'
  <2>0. Local(d) /\ Sound(tags[d]) BY DEF IInv
  <2>1. CASE d # c
    <3>1. tags'[d] = tags[d] /\ cmd'[d] = cmd[d] BY <1>1, <1>2, <1>4, <2>1
    <3> QED BY <1>2, <1>8, <2>0, <3>1, StandsBy
  <2>2. CASE d = c
    <3>1. Sound(tags'[c])
      <4>1. Sound(tags[c] \ {t}) BY <1>1, DroppedIs
      <4> QED BY <1>1, <1>10, <4>1
    <3>2. Public(tags[c])' BY <1>1, <1>8, <1>10 DEF Local, Public
    <3>3. \A x : ~IsPending(c, x)' BY <1>9 DEF IsPending
    <3>4. c \notin killed' => \A x \in tags'[c] : x \in rtags' \/ IsPending(c, x)'
      <4>1. c \notin killed => \A x \in tags[c] : x \in rtags \/ x = t BY <1>1, <1>6 DEF Local
      <4>2. CASE tags' = tags BY <1>2, <1>4, <4>1, <4>2
      <4>3. CASE tags' # tags
        <5>1. tags'[c] = tags[c] \ {t} BY <1>1, <1>4, <4>3
        <5> QED BY <1>2, <1>8, <4>1, <5>1
      <4> QED BY <4>2, <4>3
    <3>5. ASSUME NEW i \in 1 .. Len(branch'[c])
          PROVE  \E x \in tags'[c] : Named(x, branch'[c][i], FALSE) /\ ~IsPending(c, x)'
      <4>1. PICK x \in tags[c] : Named(x, branch[c][i], FALSE) /\ x # t
        BY <1>1, <1>2, <1>6 DEF Local
      <4>2. x \in tags'[c] BY <1>10, <4>1
      <4> QED BY <1>2, <3>3, <4>1, <4>2
    <3>6. Local(c)' BY <1>9, <3>2, <3>4, <3>5 DEF Local
    <3> QED BY <2>2, <3>1, <3>6
  <2> QED BY <2>1, <2>2
<1>12. res' \in Results /\ Told
  <2>1. CASE tags' = tags
    <3>1. /\ res' \in Results /\ res'.by = c /\ res'.ver = t.ver /\ res'.meta = t.meta
      BY <1>4, <1>5, <2>1, ResultIs
    <3>2. t \in rtags' \cap tags'[c] /\ Named(t, t.ver, t.meta)
      BY <1>1, <1>4, <2>1 DEF Named
    <3> QED BY <3>1, <3>2 DEF Told
  <2>2. CASE tags' # tags
    <3>1. res' \in Results /\ res'.out # "ok" BY <1>4, <2>2, ResultIs
    <3> QED BY <3>1 DEF Told
  <2> QED BY <2>1, <2>2
<1>13. now' \in Nat
  <2>1. now \in Nat /\ lag[c] \in Nat BY ReleasesAssumption DEF IInv, TypeOK
  <2>2. t.at \in Int BY <1>5 DEF Tags
  <2>3. now \in Int /\ t.at + lag[c] \in Int BY <2>1, <2>2
  <2>4. Max({now, t.at + lag[c]}) \in {now, t.at + lag[c]} /\ now <= Max({now, t.at + lag[c]})
    BY <2>3, LargerIs, Zenon
  <2>5. Max({now, t.at + lag[c]}) \in Nat BY <2>1, <2>3, <2>4
  <2> QED BY <1>2, <2>1, <2>5
<1>14. tags' \in [Clones -> SUBSET Tags] BY <1>1, <1>4
<1>15. rtags' \subseteq Tags BY <1>7 DEF Sound
<1>16. killed' \in SUBSET Clones BY <1>2 DEF IInv, TypeOK
<1> QED BY <1>2, <1>4, <1>7, <1>9, <1>11, <1>12, <1>13, <1>14, <1>15, <1>16, StampsNothing

\* A killed command leaves its tag behind.
LEMMA KillStep ==
    ASSUME IInv, NEW c \in Clones, Kill(c)
    PROVE  IInv'
<1>1. /\ cmd' = [cmd EXCEPT ![c] = Idle] /\ killed' = killed \cup {c} /\ Quiet
      /\ faults < MaxFaults /\ faults' = faults + 1
      /\ UNCHANGED <<rtags, tags, branch, lag, now>>
  BY DEF Kill
<1>2. /\ cmd = [d \in Clones |-> cmd[d]] /\ killed \in SUBSET Clones
      /\ \A d \in Clones : cmd[d] \in Seq(Tags) /\ Len(cmd[d]) <= 1
      /\ tags \in [Clones -> SUBSET Tags] /\ rtags \subseteq Tags /\ now \in Nat
      /\ faults \in 0 .. MaxFaults /\ Sound(rtags)
  BY DEF IInv, TypeOK
<1>3. res' \in Results /\ Told
  <2>1. res' \in Results /\ res'.out = "none" BY <1>1, ResultIs
  <2> QED BY <2>1 DEF Told
<1>4. cmd' \in [Clones -> Seq(Tags)] /\ cmd'[c] = Idle /\ \A d \in Clones : Len(cmd'[d]) <= 1
  <2>1. Idle \in Seq(Tags) /\ Len(Idle) = 0 BY DEF Idle
  <2> QED BY <1>1, <1>2, <2>1
<1>5. ASSUME NEW d \in Clones PROVE Sound(tags'[d]) /\ Local(d)'
  <2>0. Local(d) /\ Sound(tags[d]) BY DEF IInv
  <2>1. CASE d # c
    <3>1. cmd'[d] = cmd[d] BY <1>1, <1>2, <2>1
    <3> QED BY <1>1, <2>0, <3>1, StandsBy
  <2>2. CASE d = c
    <3>1. Public(tags[c])' BY <1>1, <2>0, <2>2 DEF Local, Public
    <3>2. \A x : ~IsPending(c, x)' BY <1>4 DEF IsPending
    <3>3. \A i \in 1 .. Len(branch'[c]) :
             \E x \in tags'[c] : Named(x, branch'[c][i], FALSE) /\ ~IsPending(c, x)'
      BY <1>1, <2>0, <2>2, <3>2 DEF Local
    <3>4. Local(c)' BY <1>1, <1>4, <3>1, <3>3 DEF Local
    <3> QED BY <1>1, <2>0, <2>2, <3>4
  <2> QED BY <2>1, <2>2
<1>6. faults' \in 0 .. MaxFaults
  <2>1. MaxFaults \in Nat BY ReleasesAssumption
  <2> QED BY <1>1, <1>2, <2>1
<1> QED BY <1>1, <1>2, <1>3, <1>4, <1>5, <1>6, StampsNothing

\* Nothing happens.
LEMMA StutterStep ==
    ASSUME IInv, UNCHANGED vars
    PROVE  IInv'
<1>1. /\ rtags' = rtags /\ tags' = tags /\ branch' = branch /\ cmd' = cmd /\ res' = res
      /\ lag' = lag /\ now' = now /\ faults' = faults /\ killed' = killed
  BY DEF vars
<1>2. Told BY <1>1 DEF IInv, ReleaseTellsTheTruth, Told
<1>3. \A d \in Clones : Sound(tags'[d]) /\ Local(d)'
  <2> SUFFICES ASSUME NEW d \in Clones PROVE Sound(tags'[d]) /\ Local(d)'
    OBVIOUS
  <2>1. Local(d) /\ Sound(tags[d]) BY DEF IInv
  <2> QED BY <1>1, <2>1, StandsBy
<1>4. res' \in Results BY <1>1 DEF IInv, TypeOK, Results
<1>5. cmd' \in [Clones -> Seq(Tags)] /\ \A d \in Clones : Len(cmd'[d]) <= 1
  BY <1>1 DEF IInv, TypeOK
<1>6. /\ rtags' \subseteq Tags /\ tags' \in [Clones -> SUBSET Tags] /\ now' \in Nat
      /\ faults' \in 0 .. MaxFaults /\ killed' \in SUBSET Clones /\ Sound(rtags')
  BY <1>1 DEF IInv, TypeOK
<1> QED BY <1>1, <1>2, <1>3, <1>4, <1>5, <1>6, StampsNothing

\* The invariant is one of the specification.
LEMMA Invariance == Spec => []IInv
<1>1. IInv /\ [Next]_vars => IInv'
  <2> SUFFICES ASSUME IInv, [Next]_vars PROVE IInv'
    OBVIOUS
  <2>1. ASSUME NEW c \in Clones, Fetch(c) PROVE IInv' BY <2>1, FetchStep
  <2>2. ASSUME NEW c \in Clones, Stamp(c) \/ ReleaseStamp(c) PROVE IInv' BY <2>2, StampStep
  <2>3. ASSUME NEW c \in Clones, ReleaseVersion(c) PROVE IInv' BY <2>3, ReleaseStep
  <2>4. ASSUME NEW c \in Clones, Add(c) PROVE IInv' BY <2>4, AddStep
  <2>5. ASSUME NEW c \in Clones, PushTag(c) PROVE IInv' BY <2>5, PushStep
  <2>6. ASSUME NEW c \in Clones, Kill(c) PROVE IInv' BY <2>6, KillStep
  <2>7. CASE UNCHANGED vars BY <2>7, StutterStep
  <2> QED BY <2>1, <2>2, <2>3, <2>4, <2>5, <2>6, <2>7 DEF Next
<1> QED BY InitInv, <1>1, PTL DEF Spec

-----------------------------------------------------------------------------
(***************************************************************************)
(* What is promised.                                                       *)
(***************************************************************************)

\* Tags, branches and outcomes have their types, whatever is stamped, released
\* and pushed in vain (Releases).
THEOREM TypeCorrect == Spec => []TypeOK
BY Invariance, PTL DEF IInv

\* A release or an addition that reported success is on the remote, where the
\* clone takes it to be, unless one of its commands was killed (GitBackend.tag).
THEOREM ReleaseTellsTheTruthAlways == Spec => []ReleaseTellsTheTruth
BY Invariance, PTL DEF IInv

\* Along a branch base versions never fall, the numbers of a prerelease rise, and
\* nothing of a version follows its release, however old the tags it was computed
\* from and whatever clocks dated them (advance_version, increase_octet).
THEOREM VersionsGrowAlways == Spec => []VersionsGrow
BY Invariance, PTL DEF IInv

\* No prerelease is stamped of a version whose release the clone knows
\* (stamp_app_version, handle_stamp).
THEOREM NoPrereleaseAfterReleaseAlways == Spec => NoPrereleaseAfterRelease
<1> DEFINE Late(t) == Exists(tags'[t.on[1]], BaseOf(t.ver), FALSE)
           Kept == \A t \in rtags' \ rtags : ~t.meta /\ t.ver.pre # Release => ~Late(t)
<1>1. IInv /\ [Next]_vars => Kept
  <2> SUFFICES ASSUME IInv, [Next]_vars, NEW t \in rtags' \ rtags, ~t.meta, t.ver.pre # Release
               PROVE  ~Late(t)
    OBVIOUS
  <2> HIDE DEF Late
  <2>1. PICK c \in Clones : Stamp(c) \/ ReleaseStamp(c) \/ PushTag(c)
    BY DEF Next, vars, Fetch, ReleaseVersion, Add, Kill
  <2>2. CASE PushTag(c)
    <3>1. t = cmd[c][1] /\ cmd[c] # Idle BY <2>2 DEF PushTag, Alone
    <3>2. t.meta \/ t.ver.pre = Release BY <3>1 DEF IInv, Local
    <3> QED BY <3>2
  <2>3. CASE Stamp(c) \/ ReleaseStamp(c)
    <3>1. PICK r \in Ends : Publish(c, r) /\ (r.out = "ok" => Sequel(c, r.ts, r))
      BY <2>3, StampIs DEF Stamped
    <3>2. r.out = "ok" /\ ~Exists(rtags, r.ver, FALSE) BY <3>1 DEF Publish
    <3> DEFINE ts == r.ts
    <3> DEFINE made == [ver |-> r.ver, meta |-> FALSE, on |-> <<c, Len(branch[c]) + 1>>,
                        at |-> Date(c, ts), count |-> r.count]
    <3>3. rtags' = rtags \cup {made} /\ tags' = [tags EXCEPT ![c] = ts \cup {made}]
      BY <3>1, <3>2 DEF Publish
    <3>4. t = made /\ made.ver = r.ver /\ made.on[1] = c BY <3>3
    <3> HIDE DEF made
    <3>5. tags'[c] = ts \cup {made} BY <3>3 DEF IInv, TypeOK
    <3>6. ~Exists(ts, BaseOf(r.ver), FALSE) BY <3>1, <3>2, <3>4 DEF Sequel
    <3>7. ~Named(made, BaseOf(r.ver), FALSE) BY <3>4 DEF Named, BaseOf
    <3> QED BY <3>4, <3>5, <3>6, <3>7 DEF Late, Exists
  <2> QED BY <2>1, <2>2, <2>3
<1>2. IInv /\ [Next]_vars => [Kept]_vars BY <1>1
<1> QED BY Invariance, <1>2, PTL DEF Spec, NoPrereleaseAfterRelease

\* After the version checked out was released a stamp goes on from the release,
\* and is not refused on its account (_determine_initial_version).
THEOREM StampGoesOnAlways == Spec => StampGoesOn
<1> DEFINE Kept ==
              res'.out = "released" =>
                 \/ ~OwnReleased(res'.by)
                 \/ \E u \in tags'[res'.by] \ tags[res'.by] :
                       ~u.meta /\ u.ver.pre = Release /\ u.ver.base # File(res'.by).base
<1>1. IInv /\ [Next]_vars => [Kept]_vars
  <2> SUFFICES ASSUME IInv, Next, res'.out = "released" PROVE Kept
    OBVIOUS
  <2>1. \A c, out : Fail(c, out) /\ out # "released" => res'.out # "released"
    BY DEF Fail, Nothing
  <2>2. ~Quiet BY DEF Quiet, Nothing
  <2>3. \A c, v, meta : ~Done(c, v, meta) BY DEF Done
  <2>4. PICK c \in Clones : Stamp(c) \/ ReleaseStamp(c)
    BY <2>1, <2>2, <2>3 DEF Next, Fetch, ReleaseVersion, Add, Tag, PushTag, Kill
  <2>5. PICK r \in Ends :
           Publish(c, r) /\ (r.out = "released" => ~OwnReleased(c) \/ News(c, r.ts))
    BY <2>1, <2>4, StampIs DEF Stamped
  <2>6. r.out = "released" /\ Fail(c, r.out) /\ tags' = [tags EXCEPT ![c] = r.ts]
    BY <2>1, <2>3, <2>5 DEF Publish
  <2>7. res'.by = c BY <2>6 DEF Fail, Outcomes, Nothing
  <2>8. tags'[c] = r.ts BY <2>6 DEF IInv, TypeOK
  <2> QED BY <2>5, <2>6, <2>7, <2>8 DEF News
<1> QED BY Invariance, <1>1, PTL DEF Spec, StampGoesOn, OwnReleased
=============================================================================
