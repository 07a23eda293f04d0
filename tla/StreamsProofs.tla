---------------------------- MODULE StreamsProofs ---------------------------
(***************************************************************************)
(* What shipping, merging, compacting, adopting and reading a stream       *)
(* promise, for any processes, rollups, attempts, entries and failures.    *)
(***************************************************************************)
EXTENDS Streams, DataLemmas

ProcType == [at : Stages, obj : Objects, keys : Names, size : Nat, tries : 0 .. Attempts]

\* The types, with a record for each process.  A ship that goes on has attempts left.
Typed ==
    /\ TypeOK
    /\ proc \in [Procs -> ProcType]
    /\ \A p \in Procs : proc[p].tries < Attempts

-----------------------------------------------------------------------------
(***************************************************************************)
(* The objects S of a stream.                                              *)
(***************************************************************************)

\* Segments up to n are covered by a merged object.
Covers(S, n) == \E m \in S : m.merged /\ n <= m.last

\* What has the name k is hidden.
Doomed(S, k) == \E m \in S : m.merged /\ (IF k[1] THEN k[2] < m.last ELSE k[2] <= m.last)

\* One object per name; every segment up to the last is there or covered; what
\* is visible ends the later the later its last segment is.
Sound(S) ==
    /\ S \subseteq Objects /\ IsFiniteSet(S)
    /\ \A o, q \in S : Name(o) = Name(q) => o = q
    /\ \A o \in S : IF o.merged THEN o.from = 0 ELSE o.from < o.to
    /\ \A n \in 0 .. LastSeq(S) : Covers(S, n) \/ \E o \in S : Name(o) = <<FALSE, n>>
    /\ \A o, q \in Visible(S) : o.last < q.last => o.to <= q.to

\* A visible segment begins where the one before ends.
Chained(S) ==
    \A o \in Visible(S) : ~o.merged =>
       \/ o.last = 0 /\ o.from = 0
       \/ \E q \in Visible(S) : q.last + 1 = o.last /\ q.to = o.from

Top == LastSeq(objs)

OnRemote ==
    /\ Sound(objs)
    /\ \A o \in Visible(objs) : o.to <= file["orig"]
    /\ Exact => Chained(objs)

-----------------------------------------------------------------------------
(***************************************************************************)
(* Requests that may yet take effect.                                      *)
(***************************************************************************)

LateOnes(op, merged) == {f.obj : f \in {g \in flight : g.op = op /\ g.obj.merged = merged}}
AtWork(ats) == {proc[p].obj : p \in {q \in Procs : proc[q].at \in ats}}

Segments == AtWork({"put"}) \cup LateOnes("create", FALSE)
Merges   == AtWork({"get", "create", "rollup"}) \cup LateOnes("create", TRUE)
               \cup (IF far.at \in {"get", "create"} THEN {far.obj} ELSE {})

\* A segment is the next one, and shows more, or its number is taken.
SegmentOK(o) ==
    /\ ~o.merged /\ o.from < o.to /\ o.to <= file["orig"] /\ o.last <= Top + 1
    /\ o.last = Top + 1 => Shown <= o.to /\ (Exact => o.from = Shown)

\* A merged object ends where its last segment does, if that is not covered.
MergeOK(o) ==
    /\ o.merged /\ o.from = 0
    /\ Covers(objs, o.last) \/ \E q \in objs : ~q.merged /\ q.last = o.last /\ q.to = o.to

Deletes ==
    /\ \A p \in Procs : proc[p].at = "delete" => \A k \in proc[p].keys : Doomed(objs, k)
    /\ \A p \in Procs : kind = "log" /\ proc[p].at \in {"get", "create"} =>
          \A k \in proc[p].keys :
             IF k[1] THEN k[2] < proc[p].obj.last ELSE k[2] <= proc[p].obj.last
    /\ far.at = "delete" => \A k \in far.keys : Doomed(objs, k)
    /\ \A f \in flight : f.op = "delete" => Doomed(objs, Name(f.obj))

Requested ==
    /\ \A o \in Segments : SegmentOK(o)
    /\ \A o \in Merges : MergeOK(o)
    /\ Deletes
    /\ \A f \in flight : f.op # "put" /\ kind \in Late

-----------------------------------------------------------------------------
(***************************************************************************)
(* The copies and their processes.                                         *)
(***************************************************************************)

KnownAt(c) == state[c] \notin {NoState, INDEXED}
Locked == {"ship", "put", "list", "get", "create", "build", "replace", "delete", "seal"}

\* The lock is held where it is needed, and only the owner's processes work.
Working(p) ==
    /\ proc[p].at \in Locked => lock[copyOf[p]] = p
    /\ proc[p].at \notin {"idle", "dead"} => copyOf[p] \in owns /\ file[copyOf[p]] > 0
    /\ proc[p].at \in {"plan", "rollup", "build", "replace", "seal"} => kind = "metrics"
    /\ proc[p].at = "list" => kind = "log"
    /\ proc[p].at = "put" => copyOf[p] \notin sealed
    /\ proc[p].at \in {"get", "create", "rollup"} => proc[p].obj.resume
    /\ proc[p].at = "plan" => proc[p].obj.last > Lag
    /\ proc[p].at \in {"delete", "seal"} => objs # {}
    /\ proc[p].at = "seal" \/ (proc[p].at = "delete" /\ ~proc[p].obj.resume) =>
          kind = "metrics" /\ retired

\* A compaction of the whole file covers all that is there.
Replacing(p) ==
    proc[p].at = "replace" =>
       /\ proc[p].obj.merged /\ proc[p].obj.from = 0 /\ ~proc[p].obj.resume
       /\ proc[p].obj.to = file[copyOf[p]] /\ retired
       /\ proc[p].obj.last = Top \/ (objs = {} /\ proc[p].obj.last = 0)
       /\ ~KnownAt(copyOf[p])

Owned ==
    /\ owns = {"orig"} \/ owns = {"copy"}
    /\ owns = {"copy"} => retired /\ \A p \in Procs : copyOf[p] = "orig" => proc[p].at = "dead"
    /\ file["copy"] <= file["orig"]
    /\ sealed # {} => objs # {} /\ kind = "metrics" /\ retired
    /\ \A c \in sealed : ~KnownAt(c) /\ file[c] > 0
    /\ \A c \in owns : kind = "metrics" /\ file[c] > 0 => Shown <= file[c]

\* An upload that was given up may still be the next segment.
Loose == \E o \in LateOnes("create", FALSE) : o.last = Top + 1

\* No upload overtakes what a process has read.
Still == kind \in Late => \A p, q \in Procs : copyOf[p] = copyOf[q] => p = q

\* Segment seq, from entry from on, goes on where the remote ends, or its key is
\* taken, which will be found out; and no merged object is to hide it.
Fits(seq, from) ==
    /\ ~Covers(objs, seq)
    /\ \/ seq = Top + 1 /\ from = Shown
       \/ kind = "log" /\ \E o \in objs : Name(o) = <<FALSE, seq>>
    /\ \A o \in Merges : o.last < seq

\* What the ship states say.  A copy that adopted the stream writes no more.
Stated ==
    /\ KnownAt("orig") /\ owns = {"orig"} =>
          /\ state["orig"].next <= Top + 1
          /\ Exact => Fits(state["orig"].next, state["orig"].to)
          /\ Exact /\ Still => state["orig"].next = Top + 1 /\ ~Loose
    /\ KnownAt("copy") /\ owns = {"copy"} => state["copy"].to >= file["copy"]

\* A ship, from the size that was read to the upload, and the merge of a log,
\* during which the ship state is and stays exact.
Shipping(p) ==
    /\ proc[p].at = "put" =>
          /\ ~KnownAt(copyOf[p])
          /\ owns = {"copy"} => proc[p].obj.to = file["copy"]
          /\ Exact => Fits(proc[p].obj.last, proc[p].obj.from)
    /\ kind = "log" /\ proc[p].at \in {"lock", "ship", "put"} =>
          /\ owns = {"copy"} => proc[p].size = file["copy"]
          /\ owns = {"orig"} /\ Still =>
                \A o \in LateOnes("create", FALSE) : o.to <= proc[p].size
    /\ kind = "log" /\ Exact /\ owns = {"orig"}
             /\ proc[p].at \in {"list", "get", "create", "delete"} =>
          KnownAt("orig") /\ state["orig"].next = Top + 1 /\ ~Loose

-----------------------------------------------------------------------------
(***************************************************************************)
(* Readers of metrics.                                                     *)
(***************************************************************************)

\* Metrics that were compacted as a whole get no more segments.
Final ==
    /\ \E m \in objs : m.merged /\ ~m.resume /\ m.last = Top
    /\ \A c \in owns : ~KnownAt(c)
    /\ \A p \in Procs : proc[p].at # "put"

\* Two objects of a name are the same, unless a compaction of the whole file
\* replaced one.
Same(o, q) == (q.from = o.from /\ q.to = o.to) \/ (Final /\ o.merged /\ o.last = Top)

Agreed ==
    kind = "metrics" =>
       /\ \A o \in Merges, q \in objs : q.merged /\ q.last = o.last => Same(o, q)
       /\ \A o, q \in Merges : q.last = o.last => q.to = o.to

\* An object that a reader listed and has not fetched.
Pending(o) ==
    /\ o.last <= Top /\ o.to <= Shown
    /\ o.merged => o.from = 0 /\ Covers(objs, o.last)
    /\ \A q \in objs : Name(q) = Name(o) => Same(o, q) /\ q.from = o.from /\ o.to <= q.to
    /\ \A q \in Merges : o.merged /\ q.last = o.last => Same(o, q)

\* What is left of a listing goes on where the reader is, without a gap, to the
\* end that was seen.
Remaining(todo, upto, base) ==
    /\ \A o \in todo :
          \/ o.from = upto /\ \A q \in todo : o.last <= q.last
          \/ \E q \in todo : q.last + 1 = o.last /\ q.to = o.from
    /\ \A o, q \in todo : o.last = q.last => o = q
    /\ IF todo = {} THEN base <= upto
       ELSE \E o \in todo : o.to = base /\ \A q \in todo : q.last <= o.last

Reading ==
    kind = "metrics" =>
       /\ read.flaw = "none"
       /\ read.at = "get" =>
             /\ \A o \in read.todo : Pending(o)
             /\ Remaining(read.todo, read.upto, read.base)

\* Late requests are those of logs: a put of metrics that replaces an object may,
\* if it lands late, undo a newer one.
IInv ==
    /\ "metrics" \notin Late
    /\ Typed /\ OnRemote /\ Requested /\ Owned /\ Stated
    /\ \A p \in Procs : Working(p) /\ Replacing(p) /\ Shipping(p)
    /\ Agreed /\ Reading
-----------------------------------------------------------------------------
(***************************************************************************)
(* The operators.                                                          *)
(***************************************************************************)

\* The fields of an object, and when two have the same name.
LEMMA ObjectIs ==
    ASSUME NEW o \in Objects
    PROVE  /\ o.merged \in BOOLEAN /\ o.resume \in BOOLEAN
           /\ o.last \in Nat /\ o.from \in Nat /\ o.to \in Nat
           /\ \A q \in Objects : Name(o) = Name(q) <=> (o.merged <=> q.merged) /\ o.last = q.last
           /\ \A n : Name(o) = <<FALSE, n>> <=> ~o.merged /\ o.last = n
           /\ \A n : Name(o) = <<TRUE, n>> <=> o.merged /\ o.last = n
<1>1. o.merged \in BOOLEAN /\ o.resume \in BOOLEAN /\ o.last \in Nat /\ o.from \in Nat /\ o.to \in Nat
  BY DEF Objects
<1>2. \A q \in Objects : q.merged \in BOOLEAN
  BY DEF Objects
<1>3. \A a, b, c, d : <<a, b>> = <<c, d>> <=> a = c /\ b = d
  OBVIOUS
<1>4. \A q \in Objects : Name(o) = Name(q) <=> (o.merged <=> q.merged) /\ o.last = q.last
  BY <1>1, <1>2, <1>3, Zenon DEF Name
<1>5. \A n : Name(o) = <<FALSE, n>> <=> ~o.merged /\ o.last = n
  BY <1>1, <1>3, Zenon DEF Name
<1>6. \A n : Name(o) = <<TRUE, n>> <=> o.merged /\ o.last = n
  BY <1>1, <1>3, Zenon DEF Name
<1> QED BY <1>1, <1>4, <1>5, <1>6

\* The last segment that is held or covered.
LEMMA LastSeqIs ==
    ASSUME NEW S \in SUBSET Objects, IsFiniteSet(S)
    PROVE  /\ LastSeq(S) \in Int /\ LastSeq(S) >= -1
           /\ \A o \in S : o.last <= LastSeq(S)
           /\ IF S = {} THEN LastSeq(S) = -1 ELSE \E o \in S : o.last = LastSeq(S)
<1> DEFINE T == {-1} \cup {o.last : o \in S}
<1>0. \A o \in S : o.last \in Nat
  BY DEF Objects
<1>1. IsFiniteSet({o.last : o \in S})
  <2> DEFINE f == [o \in S |-> o.last]
  <2>1. f = [x \in S |-> f[x]] /\ {f[x] : x \in S} = {o.last : o \in S}
    OBVIOUS
  <2>2. IsFiniteSet({f[x] : x \in S})
    <3> HIDE DEF f
    <3> QED BY <2>1, ImageFinite
  <2> QED BY <2>1, <2>2
<1>2. IsFiniteSet(T)
  BY <1>1, FS_AddElement
<1>3. T \in SUBSET Int /\ \A o \in S : o.last \in Nat
  BY <1>0
<1>4. PICK x \in T : \A y \in T : y <= x
  BY <1>2, <1>3, GreatestExists
<1>5. \A o \in S : o.last <= x
  BY <1>4
<1>6. LastSeq(S) \in T /\ \A o \in S : o.last <= LastSeq(S)
  BY <1>4, <1>5 DEF LastSeq
<1>7. CASE S = {} BY <1>6, <1>7
<1>8. CASE S # {} BY <1>3, <1>6, <1>8
<1> QED BY <1>3, <1>6, <1>7, <1>8

\* The end of what the objects hold.
LEMMA EndIs ==
    ASSUME NEW S \in SUBSET Objects, IsFiniteSet(S)
    PROVE  /\ End(S) \in Nat
           /\ \A o \in S : o.to <= End(S)
           /\ IF S = {} THEN End(S) = 0 ELSE \E o \in S : o.to = End(S)
<1> DEFINE T == {0} \cup {o.to : o \in S}
<1>0. \A o \in S : o.to \in Nat
  BY DEF Objects
<1>1. IsFiniteSet({o.to : o \in S})
  <2> DEFINE f == [o \in S |-> o.to]
  <2>1. f = [x \in S |-> f[x]] /\ {f[x] : x \in S} = {o.to : o \in S}
    OBVIOUS
  <2>2. IsFiniteSet({f[x] : x \in S})
    <3> HIDE DEF f
    <3> QED BY <2>1, ImageFinite
  <2> QED BY <2>1, <2>2
<1>2. IsFiniteSet(T)
  BY <1>1, FS_AddElement
<1>3. T \in SUBSET Int /\ T \in SUBSET Nat /\ \A o \in S : o.to \in Nat
  BY <1>0
<1>4. PICK x \in T : \A y \in T : y <= x
  BY <1>2, <1>3, GreatestExists
<1>5. \A o \in S : o.to <= x
  BY <1>4
<1>6. End(S) \in T /\ \A o \in S : o.to <= End(S)
  BY <1>4, <1>5 DEF End
<1>7. CASE S = {} BY <1>6, <1>7
<1>8. CASE S # {}
  <2>1. CASE End(S) = 0
    <3>1. PICK o \in S : TRUE BY <1>8
    <3> QED BY <1>3, <1>6, <2>1, <3>1
  <2> QED BY <1>6, <2>1, <1>8, <1>3
<1> QED BY <1>3, <1>6, <1>7, <1>8

\* What is visible: the widest merged object, and the segments past it.
LEMMA VisibleIs ==
    ASSUME NEW S, Sound(S)
    PROVE  /\ Visible(S) \subseteq S /\ IsFiniteSet(Visible(S))
           /\ \A o \in S : o \in Visible(S) <=> \A m \in S : m.merged /\ m # o => m.last < o.last
           /\ \A o, q \in Visible(S) : o.last = q.last => o = q
           /\ \A o, q \in Visible(S) : o.last < q.last => ~q.merged
           /\ \A o \in S : ~o.merged => (o \in Visible(S) <=> ~Covers(S, o.last))
<1> USE DEF Sound
<1>1. \A o \in S : o \in Objects /\ o.merged \in BOOLEAN /\ o.last \in Nat
  BY ObjectIs
<1>2. Visible(S) \subseteq S /\ IsFiniteSet(Visible(S))
  BY FS_Subset DEF Visible
<1>3. \A o \in S : o \in Visible(S) <=> \A m \in S : m.merged /\ m # o => m.last < o.last
  BY <1>1 DEF Visible, Hides
<1>4. ASSUME NEW o \in Visible(S), NEW q \in Visible(S), o.last = q.last, o # q PROVE FALSE
  <2>1. ~o.merged /\ ~q.merged
    BY <1>1, <1>2, <1>3, <1>4
  <2> QED BY <1>1, <1>2, <1>4, <2>1, ObjectIs
<1>5. \A o, q \in Visible(S) : o.last < q.last => ~q.merged
  BY <1>1, <1>2, <1>3
<1>6. \A o \in S : ~o.merged => (o \in Visible(S) <=> ~Covers(S, o.last))
  BY <1>1, <1>3 DEF Covers
<1> QED BY <1>2, <1>3, <1>4, <1>5, <1>6

\* What is covered is covered by a visible object.
LEMMA WidestIs ==
    ASSUME NEW S, Sound(S), NEW n \in Int, Covers(S, n)
    PROVE  n <= LastSeq(S) /\ \E m \in Visible(S) : m.merged /\ n <= m.last
<1> USE DEF Sound
<1>1. \A o \in S : o \in Objects /\ o.merged \in BOOLEAN /\ o.last \in Nat
  BY ObjectIs
<1> DEFINE M == {o \in S : o.merged}
<1>2. M \subseteq S /\ IsFiniteSet(M) /\ M # {}
  BY FS_Subset DEF Covers
<1>3. PICK m \in M : \A q \in M : q.last <= m.last
  <2>1. M \in SUBSET Objects BY <1>2
  <2> HIDE DEF M
  <2> QED BY <1>2, <2>1, LastSeqIs
<1>4. m \in S /\ m.merged /\ n <= m.last
  BY <1>1, <1>3 DEF Covers
<1>5. \A q \in S : q.merged /\ q # m => q.last < m.last
  <2> SUFFICES ASSUME NEW q \in S, q.merged, q # m PROVE q.last < m.last
    OBVIOUS
  <2>1. q.last <= m.last BY <1>3
  <2>2. q.last # m.last
    <3> SUFFICES ASSUME q.last = m.last PROVE FALSE
      OBVIOUS
    <3>1. q \in Objects /\ m \in Objects /\ (q.merged <=> m.merged) BY <1>1, <1>4
    <3>2. Name(q) = Name(m) BY <3>1, ObjectIs
    <3> QED BY <1>4, <3>2
  <2> QED BY <1>1, <1>4, <2>1, <2>2
<1>6. m \in Visible(S)
  BY <1>4, <1>5, VisibleIs
<1>7. m.last <= LastSeq(S) /\ LastSeq(S) \in Int
  BY <1>4, LastSeqIs
<1> QED BY <1>1, <1>4, <1>6, <1>7

\* The last object is visible, and the others end before it.
LEMMA TopIs ==
    ASSUME NEW S, Sound(S)
    PROVE  /\ LastSeq(Visible(S)) = LastSeq(S)
           /\ S = {} => Visible(S) = {} /\ LastSeq(S) = -1 /\ End(Visible(S)) = 0
           /\ S # {} => /\ LastSeq(S) \in Nat
                        /\ \E o \in Visible(S) : o.last = LastSeq(S) /\ o.to = End(Visible(S))
           /\ \A o \in Visible(S) : o.last <= LastSeq(S) /\ o.to <= End(Visible(S))
           /\ LastSeq(S) \in Int /\ LastSeq(S) >= -1 /\ End(Visible(S)) \in Nat
<1> USE DEF Sound
<1>1. \A o \in S : o \in Objects /\ o.merged \in BOOLEAN /\ o.last \in Nat /\ o.to \in Nat
  BY ObjectIs
<1>2. Visible(S) \in SUBSET Objects /\ Visible(S) \subseteq S /\ IsFiniteSet(Visible(S))
  BY VisibleIs
<1>3. /\ LastSeq(Visible(S)) \in Int /\ LastSeq(S) \in Int /\ LastSeq(S) >= -1
      /\ \A o \in S : o.last <= LastSeq(S)
      /\ \A o \in Visible(S) : o.last <= LastSeq(Visible(S))
  BY <1>2, LastSeqIs
<1>4. End(Visible(S)) \in Nat /\ \A o \in Visible(S) : o.to <= End(Visible(S))
  BY <1>2, EndIs
<1>5. CASE S = {}
  <2>1. Visible(S) = {} BY <1>2, <1>5
  <2> QED BY <1>5, <2>1, <1>2, <1>3, <1>4, LastSeqIs, EndIs
<1>6. CASE S # {}
  <2>1. PICK v \in S : v.last = LastSeq(S)
    BY <1>6, LastSeqIs
  <2>2. PICK o \in Visible(S) : o.last = LastSeq(S)
    <3>1. CASE Covers(S, LastSeq(S))
      <4>1. PICK m \in Visible(S) : m.merged /\ LastSeq(S) <= m.last
        BY <1>3, <3>1, WidestIs
      <4>2. m.last <= LastSeq(S) /\ m.last \in Nat BY <1>1, <1>2, <1>3
      <4>3. m.last = LastSeq(S) BY <1>3, <4>1, <4>2
      <4> QED BY <4>3
    <3>2. CASE ~Covers(S, LastSeq(S))
      <4>1. ~v.merged BY <1>1, <2>1, <3>2 DEF Covers
      <4>2. v \in Visible(S) BY <2>1, <3>2, <4>1, VisibleIs
      <4> QED BY <2>1, <4>2
    <3> QED BY <3>1, <3>2
  <2>3. LastSeq(Visible(S)) = LastSeq(S)
    <3>1. PICK w \in Visible(S) : w.last = LastSeq(Visible(S))
      BY <1>2, <2>2, LastSeqIs
    <3> QED BY <1>2, <1>3, <2>2, <3>1
  <2>4. PICK e \in Visible(S) : e.to = End(Visible(S))
    BY <1>2, <2>2, EndIs
  <2>5. o.to = End(Visible(S))
    <3>1. o.to <= End(Visible(S)) /\ e.last <= o.last
      BY <1>2, <1>3, <1>4, <2>2
    <3>2. e.last = o.last => e = o BY VisibleIs
    <3>3. e.last < o.last => e.to <= o.to OBVIOUS
    <3> QED BY <1>1, <1>2, <1>4, <2>4, <3>1, <3>2, <3>3
  <2> QED BY <1>1, <1>2, <1>3, <1>4, <1>6, <2>1, <2>2, <2>3, <2>5
<1> QED BY <1>5, <1>6

\* Before a visible segment there is another one, or the merged object.
LEMMA BeforeIs ==
    ASSUME NEW S, Sound(S), NEW o \in Visible(S), ~o.merged, o.last # 0
    PROVE  \E q \in Visible(S) : q.last + 1 = o.last
<1> USE DEF Sound
<1>1. \A x \in S : x \in Objects /\ x.merged \in BOOLEAN /\ x.last \in Nat
  BY ObjectIs
<1>2. Visible(S) \subseteq S /\ o.last \in Nat
  BY <1>1, VisibleIs
<1> DEFINE n == o.last - 1
<1>3. n \in 0 .. LastSeq(S) /\ n \in Int
  <2>1. o.last <= LastSeq(S) /\ LastSeq(S) \in Int BY TopIs
  <2> QED BY <1>2, <2>1
<1>4. CASE Covers(S, n)
  <2>1. PICK m \in Visible(S) : m.merged /\ n <= m.last
    BY <1>3, <1>4, WidestIs
  <2>2. m.last < o.last
    BY <1>2, <2>1, VisibleIs
  <2> QED BY <1>1, <1>2, <2>1, <2>2
<1>5. CASE ~Covers(S, n)
  <2>1. PICK q \in S : Name(q) = <<FALSE, n>>
    BY <1>3, <1>5
  <2>2. ~q.merged /\ q.last = n
    BY <1>1, <2>1, ObjectIs
  <2>3. ~Covers(S, q.last) BY <1>5, <2>2
  <2>4. q \in Visible(S) BY <2>1, <2>2, <2>3, VisibleIs
  <2> QED BY <1>2, <2>2, <2>4
<1> QED BY <1>4, <1>5
-----------------------------------------------------------------------------
(***************************************************************************)
(* What a request does to the objects.                                     *)
(***************************************************************************)

\* Nothing that is shown, covered or hidden is lost.
Grown(S, T) ==
    /\ LastSeq(S) <= LastSeq(T) /\ End(Visible(S)) <= End(Visible(T))
    /\ S # {} => T # {}
    /\ \A n \in Int : Covers(S, n) => Covers(T, n)
    /\ \A k \in BOOLEAN \X Nat : Doomed(S, k) => Doomed(T, k)
    /\ \A q \in S : ~q.merged => q \in T \/ Covers(T, q.last)

\* A segment is hidden by a merged object, or it is the next one and visible.
LEMMA AddSegment ==
    ASSUME NEW S, Sound(S), NEW o \in Objects, ~o.merged, o.from < o.to,
           o.last <= LastSeq(S) + 1, \A q \in S : Name(q) # Name(o),
           o.last = LastSeq(S) + 1 => End(Visible(S)) <= o.to
    PROVE  LET T == S \cup {o}
           IN  /\ Sound(T) /\ Grown(S, T)
               /\ \A n \in Int : Covers(T, n) <=> Covers(S, n)
               /\ o.last # LastSeq(S) + 1 =>
                     Visible(T) = Visible(S) /\ LastSeq(T) = LastSeq(S)
               /\ o.last = LastSeq(S) + 1 =>
                     /\ Visible(T) = Visible(S) \cup {o} /\ LastSeq(T) = o.last
                     /\ End(Visible(T)) = o.to
<1> DEFINE T == S \cup {o}
<1>0. S \subseteq Objects /\ IsFiniteSet(S)
  BY DEF Sound
<1>1. \A x \in T : x \in Objects /\ x.merged \in BOOLEAN /\ x.last \in Nat /\ x.to \in Nat
                     /\ x.from \in Nat
  BY <1>0, ObjectIs
<1>2. T \in SUBSET Objects /\ IsFiniteSet(T) /\ T # {}
  BY <1>0, FS_AddElement
<1>3. \A x, y \in T : Name(x) = Name(y) => x = y
  BY DEF Sound
<1>4. \A x \in T : IF x.merged THEN x.from = 0 ELSE x.from < x.to
  BY DEF Sound
<1>5. \A n \in Int : Covers(T, n) <=> Covers(S, n)
  BY DEF Covers
<1>6. \A x \in S : x \in Visible(T) <=> x \in Visible(S)
  BY DEF Visible, Hides
<1>7. o \in Visible(T) <=> ~Covers(S, o.last)
  BY <1>1 DEF Visible, Hides, Covers
<1>8. /\ LastSeq(S) \in Int /\ LastSeq(T) \in Int /\ LastSeq(S) >= -1
      /\ \A x \in S : x.last <= LastSeq(S)
      /\ \A x \in T : x.last <= LastSeq(T)
      /\ \E x \in T : x.last = LastSeq(T)
  BY <1>0, <1>2, LastSeqIs
<1>9. Visible(S) \subseteq S /\ Visible(T) \subseteq T
  BY DEF Visible
<1>10. ASSUME o.last # LastSeq(S) + 1
       PROVE  Covers(S, o.last) /\ LastSeq(T) = LastSeq(S) /\ Visible(T) = Visible(S)
  <2>1. o.last \in 0 .. LastSeq(S) /\ o.last \in Int
    BY <1>1, <1>8, <1>10
  <2>2. \A q \in S : Name(q) # <<FALSE, o.last>>
    BY ObjectIs
  <2>3. Covers(S, o.last)
    BY <2>1, <2>2 DEF Sound
  <2>4. LastSeq(T) = LastSeq(S)
    <3>1. S # {} BY <2>3 DEF Covers
    <3>2. PICK x \in S : x.last = LastSeq(S) BY <1>0, <3>1, LastSeqIs
    <3> QED BY <1>1, <1>8, <2>1, <3>2
  <2>5. Visible(T) = Visible(S)
    BY <1>6, <1>7, <1>9, <2>3
  <2> QED BY <2>3, <2>4, <2>5
<1>11. ASSUME o.last = LastSeq(S) + 1
       PROVE  LastSeq(T) = o.last /\ Visible(T) = Visible(S) \cup {o}
  <2>1. o.last \in Int /\ ~(o.last <= LastSeq(S))
    BY <1>1, <1>8, <1>11
  <2>2. ~Covers(S, o.last)
    BY <2>1, WidestIs
  <2>3. LastSeq(T) = o.last
    BY <1>1, <1>8, <1>11
  <2> QED BY <1>6, <1>7, <1>9, <2>2, <2>3
<1>12. \A n \in 0 .. LastSeq(T) : Covers(T, n) \/ \E x \in T : Name(x) = <<FALSE, n>>
  <2> SUFFICES ASSUME NEW n \in 0 .. LastSeq(T)
               PROVE  Covers(T, n) \/ \E x \in T : Name(x) = <<FALSE, n>>
    OBVIOUS
  <2>1. CASE n \in 0 .. LastSeq(S)
    <3>1. Covers(S, n) \/ \E x \in S : Name(x) = <<FALSE, n>> BY <2>1 DEF Sound
    <3>2. n \in Int OBVIOUS
    <3> QED BY <3>1, <3>2, <1>5
  <2>2. CASE n \notin 0 .. LastSeq(S)
    <3>1. o.last = LastSeq(S) + 1 /\ n = o.last
      BY <1>1, <1>8, <1>10, <1>11, <2>2
    <3>2. Name(o) = <<FALSE, n>> BY <3>1, ObjectIs
    <3> QED BY <3>2
  <2> QED BY <2>1, <2>2
<1>13. \A x, y \in Visible(T) : x.last < y.last => x.to <= y.to
  <2>1. CASE o.last # LastSeq(S) + 1
    BY <2>1, <1>10 DEF Sound
  <2>2. CASE o.last = LastSeq(S) + 1
    <3> SUFFICES ASSUME NEW x \in Visible(T), NEW y \in Visible(T), x.last < y.last
                 PROVE  x.to <= y.to
      OBVIOUS
    <3>0. /\ x \in T /\ y \in T /\ x.last \in Nat /\ y.last \in Nat
          /\ x.to \in Nat /\ y.to \in Nat /\ y.last <= LastSeq(T)
      BY <1>1, <1>8, <1>9
    <3>1. CASE x = o
      <4>1. LastSeq(T) = x.last BY <1>11, <2>2, <3>1
      <4> QED BY <3>0, <4>1
    <3>2. CASE y = o /\ x # o
      <4>1. x \in Visible(S) BY <1>11, <2>2, <3>2
      <4>2. x.to <= End(Visible(S)) /\ End(Visible(S)) \in Nat BY <4>1, TopIs
      <4>3. End(Visible(S)) <= y.to BY <2>2, <3>2
      <4> QED BY <3>0, <4>2, <4>3
    <3>3. CASE x # o /\ y # o
      BY <1>11, <2>2, <3>3 DEF Sound
    <3> QED BY <3>1, <3>2, <3>3
  <2> QED BY <2>1, <2>2
<1>14. Sound(T)
  BY <1>2, <1>3, <1>4, <1>12, <1>13 DEF Sound
<1>15. o.last = LastSeq(S) + 1 => End(Visible(T)) = o.to
  <2> SUFFICES ASSUME o.last = LastSeq(S) + 1 PROVE End(Visible(T)) = o.to
    OBVIOUS
  <2>1. PICK x \in Visible(T) : x.last = LastSeq(T) /\ x.to = End(Visible(T))
    BY <1>2, <1>14, TopIs
  <2>2. x = o
    <3>1. x \in T /\ x.last = LastSeq(S) + 1 BY <1>9, <1>11, <2>1
    <3>2. x \notin S BY <3>1, <1>8
    <3> QED BY <3>1, <3>2
  <2> QED BY <2>1, <2>2
<1>16. Grown(S, T)
  <2>1. LastSeq(S) <= LastSeq(T)
    BY <1>8, <1>10, <1>11
  <2>2. End(Visible(S)) <= End(Visible(T))
    <3>1. End(Visible(S)) \in Nat BY TopIs
    <3> QED BY <1>10, <1>15, <3>1
  <2>3. \A k \in BOOLEAN \X Nat : Doomed(S, k) => Doomed(T, k)
    BY DEF Doomed
  <2> QED BY <1>5, <2>1, <2>2, <2>3 DEF Grown
<1> QED BY <1>5, <1>10, <1>11, <1>14, <1>15, <1>16

\* A merged object is hidden by a wider one, or takes the place of the segments
\* up to its last one.
LEMMA AddMerged ==
    ASSUME NEW S, Sound(S), NEW o \in Objects, o.merged, o.from = 0,
           \A q \in S : Name(q) # Name(o),
           Covers(S, o.last) \/ \E q \in S : ~q.merged /\ q.last = o.last /\ q.to = o.to
    PROVE  LET T == S \cup {o}
           IN  /\ Sound(T) /\ Grown(S, T)
               /\ \A n \in Int : Covers(T, n) => Covers(S, n) \/ n <= o.last
               /\ LastSeq(T) = LastSeq(S) /\ End(Visible(T)) = End(Visible(S))
               /\ \A x \in Visible(T) : x \in Visible(S) \/ \E y \in Visible(S) : y.to = x.to
               /\ Chained(S) => Chained(T)
<1> DEFINE T == S \cup {o}
<1>0. S \subseteq Objects /\ IsFiniteSet(S)
  BY DEF Sound
<1>1. \A x \in T : x \in Objects /\ x.merged \in BOOLEAN /\ x.last \in Nat /\ x.to \in Nat
                     /\ x.from \in Nat
  BY <1>0, ObjectIs
<1>2. T \in SUBSET Objects /\ IsFiniteSet(T) /\ T # {}
  BY <1>0, FS_AddElement
<1>3. \A x, y \in T : Name(x) = Name(y) => x = y
  BY DEF Sound
<1>4. \A x \in T : IF x.merged THEN x.from = 0 ELSE x.from < x.to
  BY DEF Sound
<1>5. \A n \in Int : Covers(S, n) => Covers(T, n)
  BY DEF Covers
<1>6. \A n \in Int : Covers(T, n) => Covers(S, n) \/ n <= o.last
  BY DEF Covers
<1>7. o.last <= LastSeq(S) /\ LastSeq(S) \in Int /\ S # {}
  <2>1. o.last \in Int BY <1>1
  <2>2. Covers(S, o.last) => o.last <= LastSeq(S) BY <2>1, WidestIs
  <2> QED BY <2>2, <1>0, LastSeqIs DEF Covers
<1>8. LastSeq(T) = LastSeq(S)
  <2>1. PICK x \in S : x.last = LastSeq(S) BY <1>0, <1>7, LastSeqIs
  <2>2. x.last <= LastSeq(T) /\ LastSeq(T) \in Int BY <1>2, LastSeqIs
  <2>3. PICK y \in T : y.last = LastSeq(T) BY <1>2, LastSeqIs
  <2>4. y.last <= LastSeq(S) BY <1>0, <1>7, LastSeqIs
  <2> QED BY <1>7, <2>1, <2>2, <2>3, <2>4
<1>9. Visible(S) \subseteq S /\ Visible(T) \subseteq T
  BY DEF Visible
<1>10. ASSUME Covers(S, o.last) PROVE Visible(T) = Visible(S)
  <2>1. o.last \in Int BY <1>1
  <2>2. PICK m \in Visible(S) : m.merged /\ o.last <= m.last
    BY <1>10, <2>1, WidestIs
  <2>3. m.last # o.last /\ m # o /\ m \in S
    BY <1>1, <1>9, <2>2, ObjectIs
  <2>4. o \notin Visible(T)
    BY <1>1, <2>2, <2>3 DEF Visible, Hides
  <2>5. ASSUME NEW x \in Visible(S) PROVE x \in Visible(T)
    <3>1. x \in S /\ x.last \in Nat BY <1>1, <1>9
    <3>2. ~Hides(o, x)
      <4>1. m # x => m.last < x.last BY <2>2, <2>3, <3>1, VisibleIs
      <4> QED BY <1>1, <2>2, <2>3, <3>1, <4>1 DEF Hides
    <3> QED BY <3>1, <3>2 DEF Visible
  <2>6. \A x \in S : x \in Visible(T) => x \in Visible(S)
    BY DEF Visible
  <2> QED BY <1>9, <2>4, <2>5, <2>6
<1>11. ASSUME ~Covers(S, o.last)
       PROVE  \E q \in Visible(S) :
                 /\ ~q.merged /\ q.last = o.last /\ q.to = o.to
                 /\ Visible(T) = {o} \cup {x \in Visible(S) : o.last < x.last}
  <2>1. PICK q \in S : ~q.merged /\ q.last = o.last /\ q.to = o.to
    BY <1>11
  <2>2. q \in Visible(S)
    BY <1>11, <2>1, VisibleIs
  <2>3. \A m \in S : m.merged => m.last < o.last
    BY <1>1, <1>11 DEF Covers
  <2>4. o \in Visible(T)
    BY <1>1, <2>3 DEF Visible, Hides
  <2>5. \A x \in S : x \in Visible(T) <=> x \in Visible(S) /\ o.last < x.last
    BY <1>1, <2>3 DEF Visible, Hides
  <2>6. o \notin Visible(S)
    BY <1>9
  <2> QED BY <1>9, <2>1, <2>2, <2>4, <2>5, <2>6
<1>12. \A n \in 0 .. LastSeq(T) : Covers(T, n) \/ \E x \in T : Name(x) = <<FALSE, n>>
  <2> SUFFICES ASSUME NEW n \in 0 .. LastSeq(S)
               PROVE  Covers(T, n) \/ \E x \in T : Name(x) = <<FALSE, n>>
    BY <1>8
  <2>1. Covers(S, n) \/ \E x \in S : Name(x) = <<FALSE, n>> BY DEF Sound
  <2>2. n \in Int OBVIOUS
  <2> QED BY <2>1, <2>2, <1>5
<1>13. \A x, y \in Visible(T) : x.last < y.last => x.to <= y.to
  <2>1. CASE Covers(S, o.last)
    BY <2>1, <1>10 DEF Sound
  <2>2. CASE ~Covers(S, o.last)
    <3>1. PICK q \in Visible(S) :
                 /\ ~q.merged /\ q.last = o.last /\ q.to = o.to
                 /\ Visible(T) = {o} \cup {x \in Visible(S) : o.last < x.last}
      BY <2>2, <1>11
    <3> SUFFICES ASSUME NEW x \in Visible(T), NEW y \in Visible(T), x.last < y.last
                 PROVE  x.to <= y.to
      OBVIOUS
    <3>2. CASE x = o
      BY <1>1, <1>9, <3>1, <3>2 DEF Sound
    <3>3. CASE y = o
      <4>1. x # o => o.last < x.last BY <3>1
      <4>2. x \in T /\ x.last \in Nat /\ o.last \in Nat BY <1>1, <1>9
      <4> QED BY <3>3, <4>1, <4>2
    <3>4. CASE x # o /\ y # o
      BY <3>1, <3>4 DEF Sound
    <3> QED BY <3>2, <3>3, <3>4
  <2> QED BY <2>1, <2>2
<1>14. Sound(T)
  BY <1>2, <1>3, <1>4, <1>12, <1>13 DEF Sound
<1>15. \A x \in Visible(T) : x \in Visible(S) \/ \E y \in Visible(S) : y.to = x.to
  BY <1>10, <1>11
<1>16. End(Visible(T)) = End(Visible(S))
  <2>1. CASE Covers(S, o.last) BY <2>1, <1>10
  <2>2. CASE ~Covers(S, o.last)
    <3>1. PICK q \in Visible(S) :
                 /\ ~q.merged /\ q.last = o.last /\ q.to = o.to
                 /\ Visible(T) = {o} \cup {x \in Visible(S) : o.last < x.last}
      BY <2>2, <1>11
    <3>2. PICK x \in Visible(T) : x.last = LastSeq(T) /\ x.to = End(Visible(T))
      BY <1>2, <1>14, TopIs
    <3>3. PICK y \in Visible(S) : y.last = LastSeq(S) /\ y.to = End(Visible(S))
      BY <1>7, TopIs
    <3>4. CASE x = o
      <4>1. q.last = y.last BY <1>8, <3>1, <3>2, <3>3, <3>4
      <4>2. q = y BY <4>1, VisibleIs
      <4> QED BY <3>1, <3>2, <3>3, <3>4, <4>2
    <3>5. CASE x # o
      <4>1. x \in Visible(S) /\ x.last = y.last BY <1>8, <3>1, <3>2, <3>3, <3>5
      <4>2. x = y BY <4>1, VisibleIs
      <4> QED BY <3>2, <3>3, <4>2
    <3> QED BY <3>4, <3>5
  <2> QED BY <2>1, <2>2
<1>17. Chained(S) => Chained(T)
  <2> SUFFICES ASSUME Chained(S) PROVE Chained(T)
    OBVIOUS
  <2>1. CASE Covers(S, o.last) BY <2>1, <1>10 DEF Chained
  <2>2. CASE ~Covers(S, o.last)
    <3>1. PICK q \in Visible(S) :
                 /\ ~q.merged /\ q.last = o.last /\ q.to = o.to
                 /\ Visible(T) = {o} \cup {x \in Visible(S) : o.last < x.last}
      BY <2>2, <1>11
    <3> SUFFICES ASSUME NEW x \in Visible(T), ~x.merged
                 PROVE  \/ x.last = 0 /\ x.from = 0
                        \/ \E y \in Visible(T) : y.last + 1 = x.last /\ y.to = x.from
      BY DEF Chained
    <3>2. x \in Visible(S) /\ o.last < x.last /\ x.last \in Nat /\ o.last \in Nat
      BY <1>1, <1>9, <3>1
    <3>3. PICK y \in Visible(S) : y.last + 1 = x.last /\ y.to = x.from
      BY <3>2 DEF Chained
    <3>4. y \in S /\ y.last \in Nat BY <1>1, <1>9
    <3>5. CASE y.last = o.last
      <4>1. y = q BY <3>1, <3>5, VisibleIs
      <4> QED BY <3>1, <3>3, <4>1
    <3>6. CASE y.last # o.last
      <4>1. o.last < y.last BY <3>2, <3>3, <3>4, <3>6
      <4> QED BY <3>1, <3>3, <4>1
    <3> QED BY <3>5, <3>6
  <2> QED BY <2>1, <2>2
<1>18. Grown(S, T)
  <2>1. End(Visible(S)) \in Nat BY TopIs
  <2>2. \A k \in BOOLEAN \X Nat : Doomed(S, k) => Doomed(T, k)
    BY DEF Doomed
  <2> QED BY <1>5, <1>7, <1>8, <1>16, <2>1, <2>2 DEF Grown
<1> QED BY <1>6, <1>8, <1>14, <1>15, <1>16, <1>17, <1>18

\* A segment that goes on where the objects end keeps them in a chain.
LEMMA AddChained ==
    ASSUME NEW S, Sound(S), Chained(S), NEW o \in Objects, ~o.merged, o.from < o.to,
           o.last <= LastSeq(S) + 1, \A q \in S : Name(q) # Name(o),
           o.last = LastSeq(S) + 1 => o.from = End(Visible(S))
    PROVE  Chained(S \cup {o})
<1> DEFINE T == S \cup {o}
<1>1. o.last \in Nat /\ o.from \in Nat /\ o.to \in Nat
  BY ObjectIs
<1>2. End(Visible(S)) \in Nat /\ LastSeq(S) \in Int /\ LastSeq(S) >= -1
  BY TopIs
<1>3. o.last = LastSeq(S) + 1 => End(Visible(S)) <= o.to
  BY <1>1, <1>2
<1>4. /\ o.last # LastSeq(S) + 1 => Visible(T) = Visible(S)
      /\ o.last = LastSeq(S) + 1 => Visible(T) = Visible(S) \cup {o}
  BY <1>3, AddSegment
<1>5. CASE o.last # LastSeq(S) + 1
  BY <1>4, <1>5 DEF Chained
<1>6. CASE o.last = LastSeq(S) + 1
  <2>1. \/ o.last = 0 /\ o.from = 0
        \/ \E q \in Visible(S) : q.last + 1 = o.last /\ q.to = o.from
    <3>1. CASE S = {}
      <4>1. LastSeq(S) = -1 /\ End(Visible(S)) = 0 BY <3>1, TopIs
      <4> QED BY <1>6, <4>1
    <3>2. CASE S # {}
      BY <1>6, <3>2, TopIs
    <3> QED BY <3>1, <3>2
  <2>2. Visible(T) = Visible(S) \cup {o} BY <1>4, <1>6
  <2> HIDE DEF T
  <2>3. ASSUME NEW x \in Visible(T), ~x.merged
        PROVE  \/ x.last = 0 /\ x.from = 0
               \/ \E y \in Visible(T) : y.last + 1 = x.last /\ y.to = x.from
    <3>1. CASE x = o BY <2>1, <2>2, <3>1
    <3>2. CASE x # o
      <4>1. x \in Visible(S) BY <2>2, <3>2
      <4> QED BY <2>2, <2>3, <4>1 DEF Chained
    <3> QED BY <3>1, <3>2
  <2>4. Chained(T) BY <2>3 DEF Chained
  <2> QED BY <2>4 DEF T
<1> QED BY <1>5, <1>6

\* A merged object of all that is there hides the rest.
LEMMA PutMerged ==
    ASSUME NEW S, Sound(S), NEW o \in Objects, o.merged, o.from = 0,
           o.last = LastSeq(S) \/ (S = {} /\ o.last = 0), End(Visible(S)) <= o.to
    PROVE  LET T == {q \in S : Name(q) # Name(o)} \cup {o}
           IN  /\ Sound(T) /\ Grown(S, T) /\ Chained(T)
               /\ LastSeq(T) = o.last /\ End(Visible(T)) = o.to /\ Visible(T) = {o}
<1> DEFINE R == {q \in S : Name(q) # Name(o)}
           T == R \cup {o}
<1>0. S \subseteq Objects /\ IsFiniteSet(S) /\ R \subseteq S
  BY DEF Sound
<1>1. \A x \in T : x \in Objects /\ x.merged \in BOOLEAN /\ x.last \in Nat /\ x.to \in Nat
                     /\ x.from \in Nat
  BY <1>0, ObjectIs
<1>2. T \in SUBSET Objects /\ IsFiniteSet(T) /\ T # {} /\ o \in T
  <2>1. IsFiniteSet(R) BY <1>0, FS_Subset
  <2> QED BY <1>0, <2>1, FS_AddElement
<1>3. \A x, y \in T : Name(x) = Name(y) => x = y
  BY DEF Sound
<1>4. \A x \in T : IF x.merged THEN x.from = 0 ELSE x.from < x.to
  BY DEF Sound
<1>5. \A x \in S : x.last <= o.last /\ x.last \in Nat /\ x.merged \in BOOLEAN
  <2>1. \A x \in S : x.last <= LastSeq(S) BY <1>0, LastSeqIs
  <2>2. \A x \in S : x.last \in Nat /\ x.merged \in BOOLEAN BY <1>0, ObjectIs
  <2> QED BY <2>1, <2>2
<1>6. \A x \in T : x.last <= o.last /\ (x # o /\ x.merged => x.last < o.last)
  <2> SUFFICES ASSUME NEW x \in T
               PROVE  x.last <= o.last /\ (x # o /\ x.merged => x.last < o.last)
    OBVIOUS
  <2>1. CASE x = o BY <1>1, <2>1
  <2>2. CASE x # o
    <3>1. x \in S /\ Name(x) # Name(o) /\ x \in Objects BY <1>0, <2>2
    <3>2. x.merged => x.last # o.last BY <3>1, ObjectIs
    <3> QED BY <1>1, <1>5, <3>1, <3>2
  <2> QED BY <2>1, <2>2
<1> HIDE DEF T
<1>7. LastSeq(T) = o.last
  BY <1>1, <1>2, <1>6, LastSeqIs
<1>8. Visible(T) = {o}
  <2>1. o \in Visible(T) BY <1>1, <1>2, <1>6 DEF Visible, Hides
  <2>2. \A x \in T : x # o => Hides(o, x) BY <1>2, <1>6 DEF Hides
  <2> QED BY <1>2, <2>1, <2>2 DEF Visible
<1>9. \A n \in Int : n <= o.last => Covers(T, n)
  BY <1>2 DEF Covers
<1>10. Sound(T)
  <2>1. \A n \in 0 .. LastSeq(T) : Covers(T, n) BY <1>1, <1>2, <1>7, <1>9
  <2>2. \A x, y \in Visible(T) : x.last < y.last => x.to <= y.to
    BY <1>1, <1>2, <1>8
  <2> QED BY <1>2, <1>3, <1>4, <2>1, <2>2 DEF Sound
<1>11. End(Visible(T)) = o.to
  BY <1>2, <1>8, <1>10, TopIs
<1>12. Chained(T) BY <1>8 DEF Chained
<1>13. Grown(S, T)
  <2>1. LastSeq(S) <= LastSeq(T) BY <1>1, <1>2, <1>7, TopIs
  <2>2. \A n \in Int : Covers(S, n) => Covers(T, n)
    <3> SUFFICES ASSUME NEW n \in Int, Covers(S, n) PROVE n <= o.last
      BY <1>9
    <3> QED BY <1>1, <1>2, <1>5 DEF Covers
  <2>3. \A k \in BOOLEAN \X Nat : Doomed(S, k) => Doomed(T, k)
    <3> SUFFICES ASSUME NEW k \in BOOLEAN \X Nat, Doomed(S, k) PROVE Doomed(T, k)
      OBVIOUS
    <3>1. k[2] \in Nat OBVIOUS
    <3>2. PICK m \in S : m.merged /\ (IF k[1] THEN k[2] < m.last ELSE k[2] <= m.last)
      BY DEF Doomed
    <3>3. m.last <= o.last /\ m.last \in Nat /\ o.last \in Nat BY <1>1, <1>2, <1>5
    <3>4. IF k[1] THEN k[2] < o.last ELSE k[2] <= o.last BY <3>1, <3>2, <3>3
    <3> QED BY <1>2, <3>4 DEF Doomed
  <2>4. \A q \in S : ~q.merged => q \in T \/ Covers(T, q.last)
    BY <1>5, <1>9
  <2> QED BY <1>2, <1>11, <2>1, <2>2, <2>3, <2>4 DEF Grown
<1> QED BY <1>7, <1>8, <1>10, <1>11, <1>12, <1>13 DEF T

\* The deletion of a hidden object shows to nobody.
LEMMA DeleteHidden ==
    ASSUME NEW S, Sound(S), NEW k \in BOOLEAN \X Nat, Doomed(S, k)
    PROVE  LET T == {q \in S : Name(q) # k}
           IN  /\ Sound(T) /\ Grown(S, T) /\ LastSeq(T) = LastSeq(S) /\ Visible(T) = Visible(S)
               /\ \A n \in Int : Covers(T, n) => Covers(S, n)
<1> DEFINE T == {q \in S : Name(q) # k}
<1>0. S \subseteq Objects /\ IsFiniteSet(S) /\ T \subseteq S
  BY DEF Sound
<1>1. \A x \in S : x \in Objects /\ x.merged \in BOOLEAN /\ x.last \in Nat /\ x.to \in Nat
                     /\ x.from \in Nat
  BY <1>0, ObjectIs
<1>2. k[1] \in BOOLEAN /\ k[2] \in Nat /\ k = <<k[1], k[2]>>
  OBVIOUS
<1>3. PICK d \in S : d.merged /\ (IF k[1] THEN k[2] < d.last ELSE k[2] <= d.last)
  BY DEF Doomed
<1>4. PICK m \in Visible(S) : m.merged /\ d.last <= m.last
  <2>1. Covers(S, d.last) /\ d.last \in Int BY <1>1, <1>3 DEF Covers
  <2> QED BY <2>1, WidestIs
<1>5. m \in S /\ (IF k[1] THEN k[2] < m.last ELSE k[2] <= m.last)
  BY <1>1, <1>2, <1>3, <1>4 DEF Visible
<1>6. \A x \in S : Name(x) = k <=> (x.merged <=> k[1]) /\ x.last = k[2]
  <2> SUFFICES ASSUME NEW x \in S PROVE Name(x) = k <=> (x.merged <=> k[1]) /\ x.last = k[2]
    OBVIOUS
  <2>1. CASE k[1] = TRUE
    <3>1. k = <<TRUE, k[2]>> BY <1>2, <2>1, Zenon
    <3>2. Name(x) = <<TRUE, k[2]>> <=> x.merged /\ x.last = k[2] BY <1>1, ObjectIs
    <3> QED BY <2>1, <3>1, <3>2, Zenon
  <2>2. CASE k[1] = FALSE
    <3>1. k = <<FALSE, k[2]>> BY <1>2, <2>2, Zenon
    <3>2. Name(x) = <<FALSE, k[2]>> <=> ~x.merged /\ x.last = k[2] BY <1>1, ObjectIs
    <3> QED BY <2>2, <3>1, <3>2, Zenon
  <2> QED BY <1>2, <2>1, <2>2, Zenon
<1>7. m \in T
  <2>1. ~((m.merged <=> k[1]) /\ m.last = k[2]) BY <1>1, <1>2, <1>4, <1>5
  <2> QED BY <1>5, <1>6, <2>1
<1>8. \A x \in S : x \notin T => Hides(m, x)
  <2> SUFFICES ASSUME NEW x \in S, x \notin T PROVE Hides(m, x)
    OBVIOUS
  <2>1. (x.merged <=> k[1]) /\ x.last = k[2] BY <1>6
  <2>2. x.last <= m.last /\ m # x BY <1>1, <1>2, <1>5, <1>7, <2>1
  <2> QED BY <1>4, <2>2 DEF Hides
<1>9. Visible(T) = Visible(S)
  <2>1. ASSUME NEW x \in Visible(S) PROVE x \in Visible(T)
    <3>1. x \in T BY <1>5, <1>8 DEF Visible
    <3> QED BY <3>1, <1>0 DEF Visible
  <2>2. ASSUME NEW x \in Visible(T) PROVE x \in Visible(S)
    <3>1. x \in T /\ x \in S BY <1>0 DEF Visible
    <3>2. ASSUME NEW y \in S, Hides(y, x) PROVE FALSE
      <4>1. y \notin T BY <3>1, <3>2, <2>2 DEF Visible
      <4>2. Hides(m, y) BY <1>8, <4>1
      <4>3. x.last <= m.last BY <1>1, <1>5, <3>1, <3>2, <4>2 DEF Hides
      <4>4. m # x => Hides(m, x) BY <1>4, <4>3 DEF Hides
      <4>5. m = x BY <4>4, <1>7, <2>2 DEF Visible
      <4>6. Hides(y, m) BY <3>2, <4>5
      <4> QED BY <4>6, <1>4 DEF Visible
    <3> QED BY <3>1, <3>2 DEF Visible
  <2> QED BY <2>1, <2>2
<1>10. \A n \in Int : Covers(T, n) <=> Covers(S, n)
  <2>1. ASSUME NEW n \in Int, Covers(S, n) PROVE Covers(T, n)
    <3>1. PICK w \in Visible(S) : w.merged /\ n <= w.last BY <2>1, WidestIs
    <3>2. w \in T BY <1>9, <3>1 DEF Visible
    <3> QED BY <3>1, <3>2 DEF Covers
  <2> QED BY <1>0, <2>1 DEF Covers
<1> HIDE DEF T
<1>11. T \in SUBSET Objects /\ IsFiniteSet(T)
  BY <1>0, FS_Subset
<1>12. LastSeq(T) = LastSeq(S)
  <2>1. PICK v \in Visible(S) : v.last = LastSeq(S) BY <1>5, TopIs
  <2>2. v \in T BY <1>9 DEF Visible
  <2>3. v.last <= LastSeq(T) /\ LastSeq(T) \in Int BY <1>11, <2>2, LastSeqIs
  <2>4. PICK w \in T : w.last = LastSeq(T) BY <1>11, <2>2, LastSeqIs
  <2>5. w.last <= LastSeq(S) /\ LastSeq(S) \in Int BY <1>0, <2>4, LastSeqIs
  <2> QED BY <2>1, <2>3, <2>4, <2>5
<1>13. Sound(T)
  <2>1. ASSUME NEW n \in 0 .. LastSeq(T)
        PROVE  Covers(T, n) \/ \E x \in T : Name(x) = <<FALSE, n>>
    <3>1. n \in Int OBVIOUS
    <3>2. CASE Covers(S, n) BY <3>1, <3>2, <1>10
    <3>3. CASE ~Covers(S, n)
      <4>1. PICK x \in S : Name(x) = <<FALSE, n>> BY <1>12, <3>3 DEF Sound
      <4>2. ~x.merged /\ x.last = n BY <1>1, <4>1, ObjectIs
      <4>3. x \in Visible(S) BY <3>3, <4>2, VisibleIs
      <4>4. x \in T BY <1>9, <4>3 DEF Visible
      <4> QED BY <4>1, <4>4
    <3> QED BY <3>2, <3>3
  <2> QED BY <1>0, <1>9, <1>11, <2>1 DEF Sound
<1>14. Grown(S, T)
  <2>1. LastSeq(S) \in Int /\ End(Visible(S)) \in Nat BY TopIs
  <2>2. \A j \in BOOLEAN \X Nat : Doomed(S, j) => Doomed(T, j)
    <3> SUFFICES ASSUME NEW j \in BOOLEAN \X Nat, Doomed(S, j) PROVE Doomed(T, j)
      OBVIOUS
    <3>1. j[2] \in Nat OBVIOUS
    <3>2. PICK e \in S : e.merged /\ (IF j[1] THEN j[2] < e.last ELSE j[2] <= e.last)
      BY DEF Doomed
    <3>3. CASE e \in T BY <3>2, <3>3 DEF Doomed
    <3>4. CASE e \notin T
      <4>1. e.last <= m.last BY <1>8, <3>4 DEF Hides
      <4>2. IF j[1] THEN j[2] < m.last ELSE j[2] <= m.last BY <1>1, <1>5, <3>1, <3>2, <4>1
      <4> QED BY <1>4, <1>7, <4>2 DEF Doomed
    <3> QED BY <3>3, <3>4
  <2>3. \A q \in S : ~q.merged => q \in T \/ Covers(T, q.last)
    <3> SUFFICES ASSUME NEW q \in S, q \notin T PROVE Covers(T, q.last)
      OBVIOUS
    <3>1. q.last <= m.last BY <1>8 DEF Hides
    <3> QED BY <1>4, <1>7, <3>1 DEF Covers
  <2> QED BY <1>7, <1>9, <1>10, <1>12, <2>1, <2>2, <2>3 DEF Grown
<1> QED BY <1>9, <1>10, <1>12, <1>13, <1>14 DEF T
-----------------------------------------------------------------------------
(***************************************************************************)
(* What a step does to the remote.                                         *)
(***************************************************************************)

\* A step leaves the objects alone, or one request takes effect.
Added(o) == (\A q \in objs : Name(q) # Name(o)) /\ objs' = objs \cup {o}
Put(o)   == objs' = {q \in objs : Name(q) # Name(o)} \cup {o}
Gone(k)  == Doomed(objs, k) /\ objs' = {q \in objs : Name(q) # k}

Effect ==
    \/ objs' = objs
    \/ \E o \in Segments : Added(o)
    \/ \E o \in Merges : Added(o)
    \/ \E p \in Procs : proc[p].at = "replace" /\ Put(proc[p].obj)
    \/ \E k \in BOOLEAN \X Nat : Gone(k)

\* The request a process waits for has one of these effects.
LEMMA RequestLands ==
    ASSUME IInv, NEW p \in Procs, NEW r \in Requests(p), objs' = Landed(r.op, r.obj)
    PROVE  Effect
<1>0. Typed /\ Requested /\ objs \subseteq Objects
  BY DEF IInv, OnRemote, Sound
<1>1. proc[p] \in ProcType
  BY <1>0 DEF Typed
<1>2. CASE proc[p].at \in {"put", "create"}
  <2>1. r.op = "create" /\ r.obj = proc[p].obj
    BY <1>2 DEF Requests
  <2>2. objs' = objs \/ Added(proc[p].obj)
    BY <2>1 DEF Landed, There, Added
  <2>3. proc[p].obj \in Segments \/ proc[p].obj \in Merges
    BY <1>2 DEF Segments, Merges, AtWork
  <2> QED BY <2>2, <2>3 DEF Effect
<1>3. CASE proc[p].at = "replace"
  <2>1. r.op = "put" /\ r.obj = proc[p].obj
    BY <1>3 DEF Requests
  <2>2. Put(proc[p].obj)
    BY <2>1 DEF Landed, Put
  <2> QED BY <1>3, <2>2 DEF Effect
<1>4. CASE proc[p].at = "delete"
  <2>1. PICK o \in objs : r.op = "delete" /\ r.obj = o /\ Name(o) \in proc[p].keys
    BY <1>4 DEF Requests
  <2>2. Name(o) \in BOOLEAN \X Nat
    BY <1>0, <2>1, ObjectIs DEF Name
  <2>3. Gone(Name(o))
    BY <1>0, <1>4, <2>1 DEF Landed, Gone, Requested, Deletes
  <2> QED BY <2>2, <2>3 DEF Effect
<1>5. CASE proc[p].at \notin {"put", "create", "replace", "delete"}
  BY <1>5 DEF Requests
<1> QED BY <1>2, <1>3, <1>4, <1>5

\* And so has every step.
LEMMA EffectIs ==
    ASSUME IInv, Next
    PROVE  Effect
<1>0. Typed /\ Requested /\ objs \subseteq Objects
  BY DEF IInv, OnRemote, Sound
<1>1. ASSUME NEW p \in Procs, Step(p) \/ GiveUp(p) \/ Compact(p) \/ Fail(p) \/ Restart(p) \/ Adopt(p)
      PROVE  Effect
  <2>1. CASE Upload(p)
    <3>1. CASE There(Name(proc[p].obj))
      BY <2>1, <3>1 DEF Upload, Effect
    <3>2. CASE ~There(Name(proc[p].obj))
      <4>1. Added(proc[p].obj) BY <2>1, <3>2 DEF Upload, Landed, Added, There
      <4>2. proc[p].obj \in Segments BY <2>1 DEF Upload, Segments, AtWork
      <4> QED BY <4>1, <4>2 DEF Effect
    <3> QED BY <3>1, <3>2
  <2>2. CASE MergeCreate(p)
    <3>1. CASE There(Name(proc[p].obj))
      BY <2>2, <3>1 DEF MergeCreate, Effect
    <3>2. CASE ~There(Name(proc[p].obj))
      <4>1. Added(proc[p].obj) BY <2>2, <3>2 DEF MergeCreate, Landed, Added, There
      <4>2. proc[p].obj \in Merges BY <2>2 DEF MergeCreate, Merges, AtWork
      <4> QED BY <4>1, <4>2 DEF Effect
    <3> QED BY <3>1, <3>2
  <2>3. CASE Delete(p)
    <3>1. CASE objs' = objs BY <3>1 DEF Effect
    <3>2. CASE objs' # objs
      <4>1. PICK k \in proc[p].keys : objs' = {o \in objs : Name(o) # k}
        BY <2>3, <3>2 DEF Delete
      <4>2. k \in BOOLEAN \X Nat
        BY <1>0 DEF Typed, ProcType, Names
      <4>3. Gone(k)
        BY <1>0, <2>3, <4>1 DEF Gone, Requested, Deletes, Delete
      <4> QED BY <4>2, <4>3 DEF Effect
    <3> QED BY <3>1, <3>2
  <2>4. CASE Replace(p)
    BY <2>4 DEF Replace, Landed, Effect, Put
  <2>5. CASE Fail(p)
    <3>1. CASE objs' = objs BY <3>1 DEF Effect
    <3>2. CASE objs' # objs
      <4>1. PICK r \in Requests(p) : objs' = Landed(r.op, r.obj)
        BY <2>5, <3>2 DEF Fail, Outcome
      <4> QED BY <4>1, RequestLands
    <3> QED BY <3>1, <3>2
  <2>6. CASE ~(Upload(p) \/ MergeCreate(p) \/ Delete(p) \/ Replace(p) \/ Fail(p))
    <3>1. objs' = objs
      BY <1>1, <2>6 DEF Step, Sync, Lock, Ship, MergeList, MergeGet, Plan, RollUp, Build,
            ShipIndexed, Seal, GiveUp, Compact, Restart, Adopt
    <3> QED BY <3>1 DEF Effect
  <2> QED BY <2>1, <2>2, <2>3, <2>4, <2>5, <2>6
<1>2. CASE Far
  <2>1. CASE FarCreate
    <3>1. CASE There(Name(far.obj))
      BY <2>1, <3>1 DEF FarCreate, Effect
    <3>2. CASE ~There(Name(far.obj))
      <4>1. Added(far.obj) BY <2>1, <3>2 DEF FarCreate, Landed, Added, There
      <4>2. far.obj \in Merges BY <2>1 DEF FarCreate, Merges
      <4> QED BY <4>1, <4>2 DEF Effect
    <3> QED BY <3>1, <3>2
  <2>2. CASE FarDelete
    <3>1. CASE objs' = objs BY <3>1 DEF Effect
    <3>2. CASE objs' # objs
      <4>1. PICK k \in far.keys : objs' = {o \in objs : Name(o) # k}
        BY <2>2, <3>2 DEF FarDelete
      <4>2. k \in BOOLEAN \X Nat
        BY <1>0 DEF Typed, TypeOK, Names
      <4>3. Gone(k)
        BY <1>0, <2>2, <4>1 DEF Gone, Requested, Deletes, FarDelete
      <4> QED BY <4>2, <4>3 DEF Effect
    <3> QED BY <3>1, <3>2
  <2>3. CASE FarList \/ FarGet
    BY <2>3 DEF FarList, FarGet, Effect
  <2> QED BY <1>2, <2>1, <2>2, <2>3 DEF Far
<1>3. CASE Land
  <2>1. PICK f \in flight : objs' = Landed(f.op, f.obj)
    BY <1>3 DEF Land
  <2>2. f \in [op : {"create", "put", "delete"}, obj : Objects]
    BY <1>0 DEF Typed, TypeOK
  <2>3. CASE f.op = "create"
    <3>1. objs' = objs \/ Added(f.obj)
      BY <2>1, <2>3 DEF Landed, There, Added
    <3>2. f.obj.merged \in BOOLEAN BY <2>2, ObjectIs
    <3>3. f.obj \in Segments \/ f.obj \in Merges
      BY <2>3, <3>2 DEF Segments, Merges, LateOnes
    <3> QED BY <3>1, <3>3 DEF Effect
  <2>4. CASE f.op = "delete"
    <3>1. Name(f.obj) \in BOOLEAN \X Nat
      BY <2>2, ObjectIs DEF Name
    <3>2. Gone(Name(f.obj))
      BY <1>0, <2>1, <2>4 DEF Landed, Gone, Requested, Deletes
    <3> QED BY <3>1, <3>2 DEF Effect
  <2> QED BY <1>0, <2>2, <2>3, <2>4 DEF Requested
<1>4. CASE Append \/ Finish \/ CopyRecord \/ ReadList \/ ReadGet \/ ReadEnd
  <2>1. objs' = objs
    BY <1>4 DEF Append, Finish, CopyRecord, ReadList, ReadGet, ReadEnd, OnlyRead
  <2> QED BY <2>1 DEF Effect
<1> QED BY <1>1, <1>2, <1>3, <1>4 DEF Next
-----------------------------------------------------------------------------
(***************************************************************************)
(* What a step leaves alone.                                               *)
(***************************************************************************)

\* Which steps change what.
LEMMA Frames ==
    ASSUME Next
    PROVE  /\ UNCHANGED env
           /\ file' = file \/ Append \/ CopyRecord \/ \E p \in Procs : Adopt(p)
           /\ owns' = owns \/ \E p \in Procs : Adopt(p)
           /\ sealed' = sealed \/ CopyRecord \/ \E p \in Procs : Adopt(p) \/ Seal(p)
           /\ retired' = retired \/ \E p \in Procs : Adopt(p) \/ Build(p)
           /\ finished' = finished \/ Finish
           /\ flight' = flight \/ Land \/ \E p \in Procs : Fail(p)
           /\ far' = far \/ Far
           /\ read' = read \/ ReadList \/ ReadGet \/ ReadEnd
           /\ failures' = failures \/ \E p \in Procs : Fail(p)
<1>1. ASSUME NEW p \in Procs, Step(p) \/ GiveUp(p) \/ Compact(p) \/ Restart(p), ~Build(p), ~Seal(p)
      PROVE  UNCHANGED <<copyVars, otherVars, failures>>
  BY <1>1 DEF Step, Sync, Lock, Ship, Upload, MergeList, MergeGet, MergeCreate, Delete, Plan, RollUp,
     ShipIndexed, Replace, GiveUp, Compact, Restart
<1>2. ASSUME NEW p \in Procs, Fail(p) PROVE UNCHANGED <<copyVars, far, read>>
  BY <1>2 DEF Fail
<1>3. ASSUME NEW p \in Procs, Build(p) PROVE UNCHANGED <<env, file, owns, sealed, finished, otherVars, failures>>
  BY <1>3 DEF Build
<1>4. ASSUME NEW p \in Procs, Seal(p) PROVE UNCHANGED <<env, file, owns, retired, finished, otherVars, failures>>
  BY <1>4 DEF Seal
<1>5. ASSUME NEW p \in Procs, Adopt(p) PROVE UNCHANGED <<env, finished, otherVars, failures>>
  BY <1>5 DEF Adopt
<1>6. Append => UNCHANGED <<env, owns, retired, sealed, finished, otherVars, failures>> BY DEF Append
<1>7. Finish => UNCHANGED <<env, file, owns, retired, sealed, otherVars, failures>> BY DEF Finish
<1>8. CopyRecord => UNCHANGED <<env, owns, retired, finished, otherVars, failures>> BY DEF CopyRecord
<1>9. Land => UNCHANGED <<copyVars, far, read, failures>> BY DEF Land
<1>10. Far => UNCHANGED <<copyVars, flight, read, failures>>
  BY DEF Far, FarList, FarGet, FarCreate, FarDelete, OnlyFar
<1>11. ReadList \/ ReadGet \/ ReadEnd => UNCHANGED <<copyVars, flight, far, failures>>
  BY DEF ReadList, ReadGet, ReadEnd, OnlyRead
<1>12. CASE Append \/ Finish \/ Land \/ CopyRecord \/ Far \/ ReadList \/ ReadGet \/ ReadEnd
  BY <1>6, <1>7, <1>8, <1>9, <1>10, <1>11, <1>12 DEF copyVars, otherVars
<1>13. ASSUME NEW p \in Procs, Step(p) \/ GiveUp(p) \/ Compact(p) \/ Fail(p) \/ Restart(p) \/ Adopt(p)
       PROVE  \/ UNCHANGED <<copyVars, otherVars, failures>>
              \/ Fail(p) /\ UNCHANGED <<copyVars, far, read>>
              \/ Build(p) /\ UNCHANGED <<env, file, owns, sealed, finished, otherVars, failures>>
              \/ Seal(p) /\ UNCHANGED <<env, file, owns, retired, finished, otherVars, failures>>
              \/ Adopt(p) /\ UNCHANGED <<env, finished, otherVars, failures>>
  BY <1>1, <1>2, <1>3, <1>4, <1>5, <1>13
<1>14. CASE \E p \in Procs : Step(p) \/ GiveUp(p) \/ Compact(p) \/ Fail(p) \/ Restart(p) \/ Adopt(p)
  BY <1>13, <1>14 DEF copyVars, otherVars
<1> QED BY <1>12, <1>14 DEF Next

\* The processes' copies stay, files and the run's end only come, and a copy takes
\* the stream over only when the original's processes are dead.
LEMMA FrameIs ==
    ASSUME IInv, Next
    PROVE  /\ kind' = kind /\ guest' = guest /\ copyOf' = copyOf
           /\ file["orig"] \in Nat /\ file["orig"]' \in Nat /\ file["orig"] <= file["orig"]'
           /\ file["orig"]' # file["orig"] => Append
           /\ retired => retired'
           /\ finished => finished'
           /\ Exact' => Exact
           /\ Still' <=> Still
           /\ failures' \in Nat
<1>1. /\ kind' = kind /\ guest' = guest /\ copyOf' = copyOf
  BY Frames DEF env
<1>2. retired => retired'
  BY Frames DEF Build, Adopt
<1>3. finished => finished'
  BY Frames DEF Finish
<1>4. file \in [Copies -> Nat] /\ failures \in Nat /\ "orig" \in Copies
  BY DEF IInv, Typed, TypeOK, Copies
<1>5. file' = file \/ Append \/ file'["orig"] = file["orig"]
  <2>1. file' = file \/ Append \/ CopyRecord \/ \E p \in Procs : Adopt(p)
    BY Frames
  <2>2. CopyRecord => file'["orig"] = file["orig"]
    BY <1>4 DEF CopyRecord
  <2>3. \A p \in Procs : Adopt(p) => file'["orig"] = file["orig"]
    BY <1>4 DEF Adopt
  <2> QED BY <2>1, <2>2, <2>3
<1>6. Append => file'["orig"] = file["orig"] + 1
  BY <1>4 DEF Append
<1>7. Exact' => Exact
  BY <1>1, <1>3 DEF Exact
<1>8. Still' <=> Still
  BY <1>1 DEF Still
<1>9. failures' = failures \/ failures' = failures + 1
  BY Frames DEF Fail
<1> QED BY <1>1, <1>2, <1>3, <1>4, <1>5, <1>6, <1>7, <1>8, <1>9

Acts(p) == Step(p) \/ GiveUp(p) \/ Compact(p) \/ Fail(p) \/ Restart(p)

\* A process that is elsewhere after a step has made it.
LEMMA ActorIs ==
    ASSUME IInv, Next, NEW p \in Procs, proc'[p] # proc[p]
    PROVE  Acts(p)
<1>1. proc' # proc
  OBVIOUS
<1>2. PICK q \in Procs : Step(q) \/ GiveUp(q) \/ Compact(q) \/ Fail(q) \/ Restart(q)
  BY <1>1 DEF Next, Append, Finish, Land, CopyRecord, Far, FarList, FarGet, FarCreate, FarDelete,
     OnlyFar, ReadList, ReadGet, ReadEnd, OnlyRead, Adopt
<1>3. proc \in [Procs -> ProcType]
  BY DEF IInv, Typed
<1>4. proc' = proc \/ \E r : Set(q, r)
  BY <1>2 DEF Step, Sync, Lock, Ship, Shipped, Upload, MergeList, MergeGet, MergeCreate, Over, Go,
     Delete, Plan, RollUp, Build, ShipIndexed, Replace, Seal, GiveUp, Compact, Fail, Restart
<1>5. q = p
  BY <1>1, <1>3, <1>4 DEF Set
<1> QED BY <1>2, <1>5 DEF Acts

\* One process at a time works under the lock.
LEMMA Exclusive ==
    ASSUME IInv, NEW p \in Procs, NEW q \in Procs, proc[p].at \in Locked, proc[q].at \in Locked
    PROVE  p = q
<1>1. Working(p) /\ Working(q) /\ Owned
  BY DEF IInv
<1>2. copyOf[p] = copyOf[q]
  BY <1>1 DEF Working, Owned, Locked
<1> QED BY <1>1, <1>2 DEF Working

\* Nothing of metrics lands late.
LEMMA MetricsPlain ==
    ASSUME IInv, kind = "metrics"
    PROVE  flight = {} /\ Exact /\ Still /\ ~Loose /\ \A m : LateOnes("create", m) = {}
<1>1. flight = {}
  BY DEF IInv, Requested
<1>2. \A m : LateOnes("create", m) = {}
  BY <1>1 DEF LateOnes
<1> QED BY <1>1, <1>2 DEF Loose, Exact, Still, IInv

\* A copy takes the stream over only from dead processes, and at rest itself.
LEMMA OwnersStay ==
    ASSUME IInv, Next
    PROVE  \/ owns' = owns
           \/ /\ owns = {"orig"} /\ owns' = {"copy"} /\ retired' /\ proc' = proc /\ lock' = lock
              /\ objs' = objs /\ flight' = flight
              /\ \A p \in Procs : proc[p].at \in {"idle", "dead"}
              /\ \A p \in Procs : copyOf[p] = "orig" => proc[p].at = "dead"
              /\ state'["copy"] = NoState
              /\ \E p \in Procs : Adopt(p)
<1>1. owns' = owns \/ \E p \in Procs : Adopt(p)
  BY Frames
<1>2. ASSUME NEW p \in Procs, Adopt(p)
      PROVE  /\ owns = {"orig"} /\ owns' = {"copy"} /\ retired' /\ proc' = proc /\ lock' = lock
             /\ objs' = objs /\ flight' = flight /\ state'["copy"] = NoState
             /\ \A q \in Procs : copyOf[q] = "orig" => proc[q].at = "dead"
  <2>1. state \in [Copies -> Held \cup {NoState, INDEXED}] /\ "copy" \in Copies
    BY DEF IInv, Typed, TypeOK, Copies
  <2> QED BY <1>2, <2>1 DEF Adopt, otherVars
<1>3. ASSUME owns = {"orig"}, NEW p \in Procs, copyOf[p] = "orig" => proc[p].at = "dead"
      PROVE  proc[p].at \in {"idle", "dead"}
  <2>1. Working(p) BY DEF IInv
  <2> QED BY <1>3, <2>1 DEF Working
<1> QED BY <1>1, <1>2, <1>3

\* What comes after a ship.
LEMMA ShippedIs ==
    ASSUME IInv, NEW p \in Procs, NEW seq, NEW to, Shipped(p, seq, to)
    PROVE  /\ proc'[p].at \in {"list", "plan", "idle"}
           /\ proc'[p].at = "list" => /\ kind = "log" /\ lock' = lock
                                      /\ (finished \/ Due(seq))
           /\ proc'[p].at = "plan" => /\ kind = "metrics" /\ Due(seq - Lag)
                                      /\ proc'[p].obj = Segment(seq, to, to)
           /\ proc'[p] \in {Rest("list"), Rest("idle"), [Rest("plan") EXCEPT !.obj = Segment(seq, to, to)]}
<1>0. proc \in [Procs -> ProcType] BY DEF IInv, Typed
<1>1. \A r : Set(p, r) => proc'[p] = r BY <1>0 DEF Set
<1>2. Rest("list").at = "list" /\ Rest("idle").at = "idle" BY DEF Rest
<1>3. LET r == [Rest("plan") EXCEPT !.obj = Segment(seq, to, to)]
      IN  r.at = "plan" /\ r.obj = Segment(seq, to, to)
  BY DEF Rest
<1>4. \/ kind = "log" /\ finished /\ Set(p, Rest("list")) /\ lock' = lock
      \/ kind = "log" /\ Due(seq) /\ Set(p, Rest("list")) /\ lock' = lock
      \/ kind = "metrics" /\ Due(seq - Lag) /\ Set(p, [Rest("plan") EXCEPT !.obj = Segment(seq, to, to)])
      \/ Set(p, Rest("idle"))
  BY DEF Shipped
<1> QED BY <1>1, <1>2, <1>3, <1>4

\* While a process works under the lock, the copy is left to it.
LEMMA Bystander ==
    ASSUME IInv, Next, NEW p \in Procs, proc[p].at \in Locked, proc'[p] = proc[p]
    PROVE  /\ copyOf[p] \in owns /\ owns' = owns /\ owns = {copyOf[p]}
           /\ lock'[copyOf[p]] = p
           /\ state'[copyOf[p]] = state[copyOf[p]]
           /\ copyOf[p] \in sealed' <=> copyOf[p] \in sealed
           /\ file'[copyOf[p]] = file[copyOf[p]] \/ (Append /\ copyOf[p] = "orig")
<1> DEFINE c == copyOf[p]
<1>1. Working(p) /\ Owned /\ Typed
  BY DEF IInv
<1>2. c \in owns /\ owns = {c} /\ lock[c] = p /\ proc[p].at \notin {"idle", "dead", "lock", "plan", "rollup"}
  BY <1>1 DEF Working, Owned, Locked
<1>3. /\ file \in [Copies -> Nat] /\ lock \in [Copies -> Procs \cup {None}]
      /\ state \in [Copies -> Held \cup {NoState, INDEXED}] /\ c \in Copies /\ owns \subseteq Copies
      /\ proc \in [Procs -> ProcType]
  BY <1>1, <1>2 DEF Typed, TypeOK
<1>4. owns' = owns
  BY <1>2, OwnersStay
<1>5. p # None
  BY StreamsAssumption
<1>6. CASE Append \/ CopyRecord
  <2>1. CASE Append
    <3>1. file'[c] = file[c] \/ c = "orig" BY <1>3, <2>1 DEF Append
    <3> QED BY <1>2, <1>4, <2>1, <3>1 DEF Append
  <2>2. CASE CopyRecord
    <3>1. c = "orig" BY <1>2, <2>2 DEF CopyRecord
    <3>2. file'[c] = file[c] /\ state'[c] = state[c] BY <1>3, <2>2, <3>1 DEF CopyRecord
    <3>3. c \in sealed' <=> c \in sealed BY <1>3, <2>2, <3>1 DEF CopyRecord
    <3> QED BY <1>2, <1>4, <2>2, <3>1, <3>2, <3>3 DEF CopyRecord
  <2> QED BY <1>6, <2>1, <2>2
<1>7. CASE Finish \/ Land \/ Far \/ ReadList \/ ReadGet \/ ReadEnd
  BY <1>2, <1>4, <1>7 DEF Finish, Land, Far, FarList, FarGet, FarCreate, FarDelete,
     OnlyFar, ReadList, ReadGet, ReadEnd, OnlyRead, copyVars
<1>8. ASSUME NEW q \in Procs, Adopt(q) PROVE FALSE
  <2>1. owns' # owns BY <1>8, <1>2 DEF Adopt
  <2> QED BY <1>4, <2>1
<1>9. ASSUME NEW q \in Procs, Step(q) \/ GiveUp(q) \/ Compact(q) \/ Fail(q) \/ Restart(q)
      PROVE  /\ lock'[c] = p /\ state'[c] = state[c] /\ (c \in sealed' <=> c \in sealed)
             /\ file'[c] = file[c]
  <2>1. CASE q = p
    <3>1. proc[p].at # "delete" => FALSE
      <4> SUFFICES ASSUME proc[p].at # "delete" PROVE proc'[p] # proc[p]
        OBVIOUS
      <4>1. \A r : Set(p, r) => proc'[p] = r BY <1>3 DEF Set
      <4>2. \A at : Rest(at).at = at BY DEF Rest
      <4>3. \A at : Go(p, at) => proc'[p].at = at BY <1>3, <4>1 DEF Go, ProcType
      <4>4. PICK x \in {proc'[p].at} : TRUE OBVIOUS
      <4>5. x # proc[p].at
        <5>1. proc[p].at \in {"ship", "put", "list", "get", "create", "build", "replace", "seal"}
          BY DEF Locked
        <5>2. CASE Upload(p)
          <6>1. proc[p].at = "put" BY <5>2 DEF Upload
          <6>2. Set(p, [proc[p] EXCEPT !.at = "ship", !.tries = @ + 1]) => proc'[p].at = "ship"
            BY <1>3, <4>1 DEF ProcType
          <6>3. Set(p, Rest("idle")) => proc'[p].at = "idle" BY <4>1, <4>2
          <6>4. Shipped(p, proc[p].obj.last, proc[p].obj.to) => proc'[p].at \in {"list", "plan", "idle"}
            BY ShippedIs
          <6> QED BY <4>4, <5>2, <6>1, <6>2, <6>3, <6>4 DEF Upload
        <5>3. CASE Ship(p)
          <6>1. proc[p].at = "ship" BY <5>3 DEF Ship
          <6>2. \A o : Set(p, [proc[p] EXCEPT !.at = "put", !.obj = o]) => proc'[p].at = "put"
            BY <1>3, <4>1 DEF ProcType
          <6>3. Shipped(p, -1, 0) => proc'[p].at \in {"list", "plan", "idle"}
            BY ShippedIs
          <6>4. Shipped(p, -1, 0) \/ \E o : Set(p, [proc[p] EXCEPT !.at = "put", !.obj = o])
            BY <5>3, Zenon DEF Ship
          <6> QED BY <4>4, <6>1, <6>2, <6>3, <6>4
        <5>4. CASE MergeList(p) \/ MergeGet(p) \/ MergeCreate(p)
          <6>1. Over(p) => proc'[p].at = "idle" BY <4>1, <4>2 DEF Over
          <6>2. \A o, k : Set(p, [Rest("get") EXCEPT !.obj = o, !.keys = k]) => proc'[p].at = "get"
            BY <4>1 DEF Rest
          <6>3. \A k : Set(p, [proc[p] EXCEPT !.at = "delete", !.keys = k]) => proc'[p].at = "delete"
            BY <1>3, <4>1 DEF ProcType
          <6>4. MergeList(p) => x # proc[p].at BY <4>4, <6>1, <6>2 DEF MergeList
          <6>5. MergeGet(p) => x # proc[p].at BY <4>3, <4>4, <6>1 DEF MergeGet
          <6>6. MergeCreate(p) => x # proc[p].at
            <7>1. MergeCreate(p) => \/ Over(p)
                                    \/ \E k : Set(p, [proc[p] EXCEPT !.at = "delete", !.keys = k])
              BY Zenon DEF MergeCreate
            <7> QED BY <4>4, <6>1, <6>3, <7>1 DEF MergeCreate
          <6> QED BY <5>4, <6>4, <6>5, <6>6
        <5>5. CASE Build(p) \/ ShipIndexed(p) \/ Replace(p) \/ Seal(p) \/ Compact(p)
          <6>1. Build(p) => x # proc[p].at
            BY <1>3, <4>1, <4>2, <4>3, <4>4 DEF Build, Rest
          <6>2. ShipIndexed(p) => x # proc[p].at
            BY <1>3, <4>1, <4>2, <4>3, <4>4 DEF ShipIndexed, Over, Rest
          <6>3. Replace(p) => x # proc[p].at
            BY <1>3, <4>1, <4>2, <4>3, <4>4 DEF Replace, ProcType
          <6>4. Seal(p) => x # proc[p].at
            BY <1>3, <4>1, <4>2, <4>3, <4>4 DEF Seal, Over
          <6>5. Compact(p) => x # proc[p].at
            BY <1>3, <4>1, <4>2, <4>3, <4>4 DEF Compact
          <6> QED BY <5>5, <6>1, <6>2, <6>3, <6>4, <6>5
        <5>6. CASE Fail(p)
          BY <1>3, <4>1, <4>2, <4>4, <5>1, <5>6 DEF Fail
        <5> QED BY <1>2, <1>9, <2>1, <5>1, <5>2, <5>3, <5>4, <5>5, <5>6
                DEF Step, Sync, Lock, Delete, Plan, RollUp, GiveUp, Restart
      <4> QED BY <4>4, <4>5
    <3>2. proc[p].at = "delete" /\ (Delete(p) \/ Fail(p))
      BY <1>9, <2>1, <3>1 DEF Step, Sync, Lock, Ship, Upload, MergeList, MergeGet, MergeCreate,
         Plan, RollUp, Build, ShipIndexed, Replace, Seal, GiveUp, Compact, Restart
    <3>3. ~Fail(p)
      <4>1. Fail(p) => proc'[p].at # "delete" BY <1>3 DEF Fail, Set, Rest
      <4> QED BY <3>2, <4>1
    <3>4. UNCHANGED <<state, proc, once, lock>>
      <4>1. \A at : Set(p, Rest(at)) => proc'[p].at = at BY <1>3 DEF Set, Rest
      <4>2. Go(p, "seal") => proc'[p].at = "seal" BY <1>3 DEF Go, Set, ProcType
      <4> QED BY <3>2, <3>3, <4>1, <4>2 DEF Delete, Over
    <3> QED BY <1>2, <3>2, <3>3, <3>4 DEF Delete, copyVars
  <2>2. CASE q # p
    <3>1. proc[q].at \notin Locked BY <2>2, Exclusive
    <3>2. proc[q].at \notin {"idle", "dead"} => copyOf[q] = c
      <4>1. Working(q) BY DEF IInv
      <4> QED BY <1>2, <4>1 DEF Working
    <3>3. ~Lock(q)
      <4>1. Lock(q) => lock[c] = None BY <3>2 DEF Lock, Take
      <4> QED BY <1>2, <1>5, <4>1
    <3>4. ~Compact(q)
      <4>1. Compact(q) => lock[c] = None BY <1>2, <3>1 DEF Compact, Take, Locked
      <4> QED BY <1>2, <1>5, <4>1
    <3>5. ~RollUp(q)
      <4>1. RollUp(q) => lock[c] = None BY <3>2 DEF RollUp, Take
      <4> QED BY <1>2, <1>5, <4>1
    <3>6. Sync(q) \/ GiveUp(q) \/ Plan(q) \/ Fail(q) \/ Restart(q)
      BY <1>9, <3>1, <3>3, <3>4, <3>5 DEF Locked, Step, Ship, Upload, MergeList,
         MergeGet, MergeCreate, Delete, Build, ShipIndexed, Replace, Seal
    <3>7. Fail(q) => lock'[c] = lock[c]
      BY <1>2, <1>3, <2>2 DEF Fail, Release
    <3> QED BY <1>2, <3>6, <3>7 DEF Sync, GiveUp, Plan, Fail, Restart, copyVars
  <2> QED BY <2>1, <2>2
<1> QED BY <1>2, <1>4, <1>6, <1>7, <1>8, <1>9 DEF Next
-----------------------------------------------------------------------------
(***************************************************************************)
(* The remote after a step.                                                *)
(***************************************************************************)

\* The next segment arrives, and the remote shows more.
Advance ==
    \E o \in Segments : Added(o) /\ o.last = Top + 1 /\ LastSeq(objs') = o.last
                        /\ End(Visible(objs')) = o.to
\* The whole file replaces what is there.
Swap ==
    \E p \in Procs : /\ proc[p].at = "replace" /\ Put(proc[p].obj) /\ Visible(objs') = {proc[p].obj}
                     /\ LastSeq(objs') = proc[p].obj.last /\ End(Visible(objs')) = proc[p].obj.to

\* Objects that are requested are objects.
LEMMA RequestsTyped ==
    ASSUME IInv
    PROVE  /\ Segments \subseteq Objects /\ Merges \subseteq Objects
           /\ \A p \in Procs : proc[p].obj \in Objects
<1>1. Typed BY DEF IInv
<1>2. \A p \in Procs : proc[p].obj \in Objects
  BY <1>1 DEF Typed, ProcType
<1>3. \A f \in flight : f.obj \in Objects
  BY <1>1 DEF Typed, TypeOK
<1>4. far.obj \in Objects
  BY <1>1 DEF Typed, TypeOK
<1> QED BY <1>2, <1>3, <1>4 DEF Segments, Merges, AtWork, LateOnes

\* The remote's objects stay sound and grow.
LEMMA RemoteMoves ==
    ASSUME IInv, Next
    PROVE  /\ Sound(objs') /\ Grown(objs, objs')
           /\ \A o \in Visible(objs') : o.to <= file["orig"]'
           /\ Exact' => Chained(objs')
           /\ \/ LastSeq(objs') = Top /\ End(Visible(objs')) = Shown
              \/ Advance
              \/ Swap
           /\ \/ Swap
              \/ \A n \in Int : Covers(objs', n) => Covers(objs, n) \/ \E o \in Merges : n <= o.last
<1>0. Sound(objs) /\ (Exact => Chained(objs)) /\ (\A o \in Visible(objs) : o.to <= file["orig"])
  BY DEF IInv, OnRemote
<1>1. /\ file["orig"] \in Nat /\ file["orig"]' \in Nat /\ file["orig"] <= file["orig"]'
      /\ Exact' => Exact
  BY FrameIs
<1>2. \A o \in Visible(objs) : o.to \in Nat
  BY <1>0, ObjectIs DEF Sound, Visible
<1>3. Top \in Int /\ Shown \in Nat /\ Top = LastSeq(objs) /\ Shown = End(Visible(objs)) /\ Top >= -1
  BY <1>0, TopIs DEF Top, Shown
<1>4. CASE objs' = objs
  <2>1. Grown(objs, objs) BY <1>3 DEF Grown
  <2> QED BY <1>0, <1>1, <1>2, <1>3, <1>4, <2>1
<1>5. ASSUME NEW o \in Segments, Added(o)
      PROVE  /\ Sound(objs') /\ Grown(objs, objs')
             /\ \A q \in Visible(objs') : q.to <= file["orig"]'
             /\ Exact' => Chained(objs')
             /\ Advance \/ (LastSeq(objs') = Top /\ End(Visible(objs')) = Shown)
             /\ \A n \in Int : Covers(objs', n) => Covers(objs, n)
  <2>1. o \in Objects BY RequestsTyped
  <2>2. SegmentOK(o) BY DEF IInv, Requested
  <2>3. /\ ~o.merged /\ o.from < o.to /\ o.last <= LastSeq(objs) + 1
        /\ o.last = LastSeq(objs) + 1 => End(Visible(objs)) <= o.to
        /\ o.to <= file["orig"]
        /\ Exact => (o.last = LastSeq(objs) + 1 => o.from = End(Visible(objs)))
    BY <1>3, <2>2 DEF SegmentOK
  <2>4. objs' = objs \cup {o} /\ \A q \in objs : Name(q) # Name(o)
    BY <1>5 DEF Added
  <2>5. /\ Sound(objs') /\ Grown(objs, objs')
        /\ \A n \in Int : Covers(objs', n) <=> Covers(objs, n)
        /\ o.last # LastSeq(objs) + 1 =>
              Visible(objs') = Visible(objs) /\ LastSeq(objs') = LastSeq(objs)
        /\ o.last = LastSeq(objs) + 1 =>
              /\ Visible(objs') = Visible(objs) \cup {o} /\ LastSeq(objs') = o.last
              /\ End(Visible(objs')) = o.to
    BY <1>0, <2>1, <2>3, <2>4, AddSegment
  <2>6. \A q \in Visible(objs') : q.to <= file["orig"]'
    <3>1. o.to \in Nat BY <2>1, ObjectIs
    <3>2. \A q \in Visible(objs') : q \in Visible(objs) \/ q = o BY <2>5
    <3> QED BY <1>0, <1>1, <1>2, <2>3, <3>1, <3>2
  <2>7. Exact' => Chained(objs')
    <3> SUFFICES ASSUME Exact PROVE Chained(objs')
      BY <1>1
    <3>1. Chained(objs) BY <1>0
    <3> QED BY <1>0, <2>1, <2>3, <2>4, <3>1, AddChained
  <2>8. Advance \/ (LastSeq(objs') = Top /\ End(Visible(objs')) = Shown)
    BY <1>3, <1>5, <2>5 DEF Advance
  <2> QED BY <2>5, <2>6, <2>7, <2>8
<1>6. ASSUME NEW o \in Merges, Added(o)
      PROVE  /\ Sound(objs') /\ Grown(objs, objs')
             /\ \A q \in Visible(objs') : q.to <= file["orig"]'
             /\ Exact' => Chained(objs')
             /\ LastSeq(objs') = Top /\ End(Visible(objs')) = Shown
             /\ \A n \in Int : Covers(objs', n) => Covers(objs, n) \/ n <= o.last
  <2>1. o \in Objects BY RequestsTyped
  <2>2. MergeOK(o) BY DEF IInv, Requested
  <2>3. /\ o.merged /\ o.from = 0
        /\ Covers(objs, o.last) \/ \E q \in objs : ~q.merged /\ q.last = o.last /\ q.to = o.to
    BY <2>2 DEF MergeOK
  <2>4. objs' = objs \cup {o} /\ \A q \in objs : Name(q) # Name(o)
    BY <1>6 DEF Added
  <2>5. /\ Sound(objs') /\ Grown(objs, objs')
        /\ \A n \in Int : Covers(objs', n) => Covers(objs, n) \/ n <= o.last
        /\ LastSeq(objs') = LastSeq(objs) /\ End(Visible(objs')) = End(Visible(objs))
        /\ \A x \in Visible(objs') : x \in Visible(objs) \/ \E y \in Visible(objs) : y.to = x.to
        /\ Chained(objs) => Chained(objs')
    BY <1>0, <2>1, <2>3, <2>4, AddMerged
  <2>6. \A q \in Visible(objs') : q.to <= file["orig"]'
    BY <1>0, <1>1, <1>2, <2>5
  <2> QED BY <1>0, <1>1, <1>3, <2>5, <2>6
<1>7. ASSUME NEW p \in Procs, proc[p].at = "replace", Put(proc[p].obj)
      PROVE  /\ Sound(objs') /\ Grown(objs, objs')
             /\ \A q \in Visible(objs') : q.to <= file["orig"]'
             /\ Exact' => Chained(objs')
             /\ Swap
  <2> DEFINE o == proc[p].obj
  <2>1. o \in Objects BY RequestsTyped
  <2>2. Replacing(p) /\ Working(p) /\ Owned /\ Typed BY DEF IInv
  <2>3. /\ o.merged /\ o.from = 0 /\ o.to = file[copyOf[p]]
        /\ o.last = LastSeq(objs) \/ (objs = {} /\ o.last = 0)
    BY <1>3, <1>7, <2>2 DEF Replacing
  <2>4. End(Visible(objs)) <= o.to
    BY <1>3, <1>7, <2>2, <2>3 DEF Working, Owned
  <2>5. objs' = {q \in objs : Name(q) # Name(o)} \cup {o}
    BY <1>7 DEF Put
  <2>6. /\ Sound(objs') /\ Grown(objs, objs') /\ Chained(objs')
        /\ LastSeq(objs') = o.last /\ End(Visible(objs')) = o.to /\ Visible(objs') = {o}
    BY <1>0, <2>1, <2>3, <2>4, <2>5, PutMerged
  <2>7. o.to <= file["orig"]'
    <3>1. file[copyOf[p]] <= file["orig"] /\ file[copyOf[p]] \in Nat
      <4>1. copyOf[p] \in {"orig", "copy"} BY <1>7, <2>2 DEF Working, Owned
      <4>2. file \in [Copies -> Nat] BY <2>2 DEF Typed, TypeOK
      <4> QED BY <1>1, <2>2, <4>1, <4>2 DEF Owned, Copies
    <3> QED BY <1>1, <2>3, <3>1
  <2>8. Swap BY <1>7, <2>6 DEF Swap
  <2> QED BY <2>6, <2>7, <2>8
<1>8. ASSUME NEW k \in BOOLEAN \X Nat, Gone(k)
      PROVE  /\ Sound(objs') /\ Grown(objs, objs')
             /\ \A q \in Visible(objs') : q.to <= file["orig"]'
             /\ Exact' => Chained(objs')
             /\ LastSeq(objs') = Top /\ End(Visible(objs')) = Shown
             /\ \A n \in Int : Covers(objs', n) => Covers(objs, n)
  <2>1. Doomed(objs, k) /\ objs' = {q \in objs : Name(q) # k}
    BY <1>8 DEF Gone
  <2>2. /\ Sound(objs') /\ Grown(objs, objs') /\ LastSeq(objs') = LastSeq(objs)
        /\ Visible(objs') = Visible(objs)
        /\ \A n \in Int : Covers(objs', n) => Covers(objs, n)
    BY <1>0, <2>1, DeleteHidden
  <2>3. Chained(objs) => Chained(objs') BY <2>2 DEF Chained
  <2> QED BY <1>0, <1>1, <1>2, <1>3, <2>2, <2>3
<1>9. Effect BY EffectIs
<1>10. CASE objs' # objs
  <2>1. CASE \E o \in Segments : Added(o) BY <1>5, <2>1
  <2>2. CASE \E o \in Merges : Added(o) BY <1>6, <2>2
  <2>3. CASE \E p \in Procs : proc[p].at = "replace" /\ Put(proc[p].obj) BY <1>7, <2>3
  <2>4. CASE \E k \in BOOLEAN \X Nat : Gone(k) BY <1>8, <2>4
  <2> QED BY <1>9, <1>10, <2>1, <2>2, <2>3, <2>4 DEF Effect
<1> QED BY <1>4, <1>10

\* The same in the terms of the next state.
LEMMA RemoteGrows ==
    ASSUME IInv, Next
    PROVE  /\ OnRemote'
           /\ Top \in Int /\ Top' \in Int /\ -1 <= Top /\ Top <= Top'
           /\ Shown \in Nat /\ Shown' \in Nat /\ Shown <= Shown'
           /\ objs # {} => objs' # {}
           /\ (Top' = Top /\ Shown' = Shown) \/ Advance \/ Swap
<1>1. Sound(objs) BY DEF IInv, OnRemote
<1>2. Top' = LastSeq(objs') /\ Shown' = End(Visible(objs'))
  BY DEF Top, Shown
<1>3. Sound(objs') /\ Grown(objs, objs') BY RemoteMoves
<1>4. OnRemote'
  <2>1. /\ \A o \in Visible(objs') : o.to <= file["orig"]'
        /\ Exact' => Chained(objs')
    BY RemoteMoves
  <2> QED BY <1>3, <2>1 DEF OnRemote
<1>5. Top \in Int /\ -1 <= Top /\ Shown \in Nat
  BY <1>1, TopIs DEF Top, Shown
<1>6. Top' \in Int /\ Shown' \in Nat
  BY <1>2, <1>3, TopIs
<1>7. Top <= Top' /\ Shown <= Shown' /\ (objs # {} => objs' # {})
  BY <1>2, <1>3 DEF Grown, Top, Shown
<1> QED BY <1>2, <1>4, <1>5, <1>6, <1>7, RemoteMoves
-----------------------------------------------------------------------------
(***************************************************************************)
(* What a process has come from.                                           *)
(***************************************************************************)

\* The step that brings a process to each of its stages.
LEMMA MovesTo ==
    ASSUME IInv, Next, NEW p \in Procs, proc'[p] # proc[p]
    PROVE  /\ proc'[p].at = "lock" => Sync(p)
           /\ proc'[p].at = "ship" => Lock(p) \/ Upload(p)
           /\ proc'[p].at = "put" => Ship(p)
           /\ proc'[p].at = "list" => Ship(p) \/ Upload(p)
           /\ proc'[p].at = "plan" => Upload(p)
           /\ proc'[p].at = "get" => MergeList(p)
           /\ proc'[p].at = "create" => MergeGet(p) \/ RollUp(p)
           /\ proc'[p].at = "rollup" => Plan(p)
           /\ proc'[p].at = "build" => Compact(p)
           /\ proc'[p].at = "replace" => Build(p) \/ ShipIndexed(p)
           /\ proc'[p].at = "delete" => MergeCreate(p) \/ Replace(p)
           /\ proc'[p].at = "seal" => Delete(p)
           /\ proc'[p].at \in Stages
<1>0. proc \in [Procs -> ProcType] /\ proc[p] \in ProcType
  BY DEF IInv, Typed
<1>1. \A r : Set(p, r) => proc'[p] = r
  BY <1>0 DEF Set
<1>2. \A at : Set(p, Rest(at)) => proc'[p].at = at
  BY <1>1 DEF Rest
<1>3. \A at : Go(p, at) => proc'[p].at = at
  BY <1>0, <1>1 DEF Go, ProcType
<1>4. Acts(p)
  BY ActorIs
<1>5. ASSUME NEW seq, NEW to, Shipped(p, seq, to)
      PROVE  proc'[p].at \in {"list", "idle", "plan"} /\ (proc'[p].at = "plan" => Due(seq - Lag))
  BY <1>1, <1>2, <1>5 DEF Shipped, Rest
<1>6. Sync(p) => proc'[p].at = "lock"
  BY <1>1 DEF Sync, Rest
<1>7. Lock(p) => proc'[p].at = "ship"
  BY <1>3 DEF Lock
<1>8. Ship(p) => proc'[p].at \in {"put", "list", "idle"}
  <2> SUFFICES ASSUME Ship(p) PROVE proc'[p].at \in {"put", "list", "idle"}
    OBVIOUS
  <2>1. ~Due(-1 - Lag)
    BY StreamsAssumption DEF Due
  <2>2. Shipped(p, -1, 0) \/ \E o : Set(p, [proc[p] EXCEPT !.at = "put", !.obj = o])
    BY DEF Ship
  <2>3. ASSUME NEW o, Set(p, [proc[p] EXCEPT !.at = "put", !.obj = o]) PROVE proc'[p].at = "put"
    BY <1>0, <1>1, <2>3 DEF ProcType
  <2> QED BY <1>5, <2>1, <2>2, <2>3
<1>9. Upload(p) => proc'[p].at \in {"ship", "list", "idle", "plan"}
  <2> SUFFICES ASSUME Upload(p) PROVE proc'[p].at \in {"ship", "list", "idle", "plan"}
    OBVIOUS
  <2>1. \/ Set(p, Rest("idle"))
        \/ Set(p, [proc[p] EXCEPT !.at = "ship", !.tries = @ + 1])
        \/ Shipped(p, proc[p].obj.last, proc[p].obj.to)
    BY DEF Upload
  <2>2. Set(p, [proc[p] EXCEPT !.at = "ship", !.tries = @ + 1]) => proc'[p].at = "ship"
    BY <1>0, <1>1 DEF ProcType
  <2> QED BY <1>2, <1>5, <2>1, <2>2
<1>10. MergeList(p) => proc'[p].at \in {"get", "idle"}
  BY <1>1, <1>2 DEF MergeList, Over, Rest
<1>11. MergeGet(p) => proc'[p].at \in {"create", "idle"}
  BY <1>2, <1>3 DEF MergeGet, Over
<1>12. MergeCreate(p) => proc'[p].at \in {"delete", "idle"}
  BY <1>0, <1>1, <1>2 DEF MergeCreate, Over, ProcType
<1>13. Delete(p) => proc'[p].at \in {"seal", "idle"}
  BY <1>2, <1>3 DEF Delete, Over
<1>14. Plan(p) => proc'[p].at \in {"rollup", "idle"}
  <2>1. \A o : Set(p, [Rest("rollup") EXCEPT !.obj = o]) => proc'[p].at = "rollup"
    BY <1>1 DEF Rest
  <2> QED BY <1>2, <2>1 DEF Plan
<1>15. RollUp(p) => proc'[p].at \in {"create", "idle"}
  BY <1>2, <1>3 DEF RollUp
<1>16. Build(p) \/ ShipIndexed(p) => proc'[p].at \in {"replace", "idle"}
  <2>1. \A o : Set(p, [Rest("replace") EXCEPT !.obj = o]) => proc'[p].at = "replace"
    BY <1>1 DEF Rest
  <2> QED BY <1>2, <2>1 DEF Build, ShipIndexed, Over
<1>17. Replace(p) => proc'[p].at = "delete"
  BY <1>0, <1>1 DEF Replace, ProcType
<1>18. Seal(p) \/ GiveUp(p) \/ Restart(p) => proc'[p].at = "idle"
  BY <1>2 DEF Seal, GiveUp, Restart, Over
<1>19. Compact(p) => proc'[p].at = "build"
  BY <1>2 DEF Compact
<1>20. Fail(p) => proc'[p].at \in {"idle", "dead"}
  BY <1>2 DEF Fail
<1>21. proc'[p].at \in Stages
  BY <1>4, <1>6, <1>7, <1>8, <1>9, <1>10, <1>11, <1>12, <1>13, <1>14, <1>15, <1>16, <1>17,
     <1>18, <1>19, <1>20 DEF Acts, Step, Stages
<1> QED BY <1>4, <1>6, <1>7, <1>8, <1>9, <1>10, <1>11, <1>12, <1>13, <1>14, <1>15, <1>16, <1>17,
           <1>18, <1>19, <1>20, <1>21 DEF Acts, Step

\* What is requested anew: a failed request may come later.
LEMMA NewFlight ==
    ASSUME IInv, Next, NEW f \in flight', f \notin flight
    PROVE  \E p \in Procs : /\ f \in Requests(p) /\ proc'[p].at \in {"idle", "dead"} /\ Fail(p)
                            /\ kind \in Late /\ objs' = objs
<1>1. flight' = flight \/ Land \/ \E p \in Procs : Fail(p)
  BY Frames
<1>2. ~Land
  BY DEF Land
<1>3. PICK p \in Procs : Fail(p)
  BY <1>1, <1>2
<1>4. kind \in Late /\ f \in Requests(p) /\ objs' = objs
  BY <1>3 DEF Fail, Outcome
<1>5. proc \in [Procs -> ProcType]
  BY DEF IInv, Typed
<1>6. \A at : Set(p, Rest(at)) => proc'[p].at = at
  BY <1>5 DEF Set, Rest
<1>7. proc'[p].at \in {"idle", "dead"}
  BY <1>3, <1>6 DEF Fail
<1> QED BY <1>3, <1>4, <1>7

\* A segment is requested by a ship.
LEMMA NewSegment ==
    ASSUME IInv, Next, NEW o \in Segments', o \notin Segments
    PROVE  \E p \in Procs : Ship(p) /\ proc'[p].at = "put" /\ o = proc'[p].obj
<1>1. CASE o \in LateOnes("create", FALSE)'
  <2>1. PICK f \in flight' : f.op = "create" /\ f.obj.merged = FALSE /\ o = f.obj
    BY <1>1 DEF LateOnes
  <2>2. f \notin flight
    BY <2>1 DEF Segments, LateOnes
  <2>3. PICK p \in Procs : f \in Requests(p)
    BY <2>2, NewFlight
  <2>4. proc[p].at \in {"put", "create"} /\ f.obj = proc[p].obj
    BY <2>1, <2>3 DEF Requests
  <2>5. proc[p].at = "create" => proc[p].obj.merged
    BY DEF IInv, Requested, Merges, AtWork, MergeOK
  <2>6. proc[p].at = "put" BY <2>1, <2>4, <2>5
  <2> QED BY <2>1, <2>4, <2>6 DEF Segments, AtWork
<1>2. CASE o \in AtWork({"put"})'
  <2>1. PICK p \in Procs : proc'[p].at = "put" /\ o = proc'[p].obj
    BY <1>2 DEF AtWork
  <2>2. proc'[p] # proc[p]
    BY <2>1 DEF Segments, AtWork
  <2> QED BY <2>1, <2>2, MovesTo
<1> QED BY <1>1, <1>2 DEF Segments

\* A merged object is requested by a merge, a rollup or another clone.
LEMMA NewMerge ==
    ASSUME IInv, Next, NEW o \in Merges', o \notin Merges
    PROVE  \/ \E p \in Procs : MergeList(p) /\ proc'[p].at = "get" /\ o = proc'[p].obj
           \/ \E p \in Procs : Plan(p) /\ proc'[p].at = "rollup" /\ o = proc'[p].obj
           \/ FarList /\ o = far'.obj
<1>0. proc \in [Procs -> ProcType]
  BY DEF IInv, Typed
<1>1. CASE o \in LateOnes("create", TRUE)'
  <2>1. PICK f \in flight' : f.op = "create" /\ f.obj.merged = TRUE /\ o = f.obj
    BY <1>1 DEF LateOnes
  <2>2. f \notin flight
    BY <2>1 DEF Merges, LateOnes
  <2>3. PICK p \in Procs : f \in Requests(p)
    BY <2>2, NewFlight
  <2>4. proc[p].at \in {"put", "create"} /\ f.obj = proc[p].obj
    BY <2>1, <2>3 DEF Requests
  <2>5. proc[p].at = "put" => ~proc[p].obj.merged
    BY DEF IInv, Requested, Segments, AtWork, SegmentOK
  <2>6. proc[p].at = "create" BY <2>1, <2>4, <2>5
  <2> QED BY <2>1, <2>4, <2>6 DEF Merges, AtWork
<1>2. CASE o \in AtWork({"get", "create", "rollup"})'
  <2>1. PICK p \in Procs : proc'[p].at \in {"get", "create", "rollup"} /\ o = proc'[p].obj
    BY <1>2 DEF AtWork
  <2>2. proc'[p] # proc[p]
    BY <2>1 DEF Merges, AtWork
  <2>3. CASE MergeGet(p) \/ RollUp(p)
    <3>1. proc[p].at \in {"get", "rollup"} BY <2>3 DEF MergeGet, RollUp
    <3>2. proc[p].obj \in Merges BY <3>1 DEF Merges, AtWork
    <3>3. Go(p, "create") \/ Set(p, Rest("idle")) BY <2>3 DEF MergeGet, RollUp, Over
    <3>4. Go(p, "create") => proc'[p].obj = proc[p].obj BY <1>0 DEF Go, Set, ProcType
    <3>5. Set(p, Rest("idle")) => proc'[p].at = "idle" BY <1>0 DEF Set, Rest
    <3> QED BY <2>1, <3>2, <3>3, <3>4, <3>5
  <2> QED BY <2>1, <2>2, <2>3, MovesTo
<1>3. CASE far'.at \in {"get", "create"} /\ o = far'.obj
  <2>1. far' # far
    BY <1>3 DEF Merges
  <2>2. FarList \/ FarGet \/ FarCreate \/ FarDelete
    BY <2>1, Frames DEF Far
  <2>3. far \in [at : {"idle", "get", "create", "delete"}, obj : Objects, keys : Names]
    BY DEF IInv, Typed, TypeOK
  <2>4. FarGet => far'.at = "idle" \/ (far.at = "get" /\ far'.obj = far.obj)
    BY <2>3 DEF FarGet, farRest
  <2>5. FarCreate \/ FarDelete => far'.at \in {"idle", "delete"}
    <3>1. \A k : [far EXCEPT !.at = "delete", !.keys = k].at = "delete" BY <2>3
    <3>2. FarCreate => far' = farRest \/ \E k : far' = [far EXCEPT !.at = "delete", !.keys = k]
      BY Zenon DEF FarCreate
    <3>3. FarDelete => far'.at \in {"idle", "delete"} BY <2>3 DEF FarDelete, farRest
    <3>4. ASSUME NEW k, far' = [far EXCEPT !.at = "delete", !.keys = k] PROVE far'.at = "delete"
      BY <3>1, <3>4
    <3>5. farRest.at = "idle" BY DEF farRest
    <3>6. FarCreate => far'.at \in {"idle", "delete"} BY <3>2, <3>4, <3>5
    <3> QED BY <3>3, <3>6
  <2>6. far.at = "get" => far.obj \in Merges
    BY DEF Merges
  <2> QED BY <1>3, <2>2, <2>4, <2>5, <2>6
<1> QED BY <1>1, <1>2, <1>3 DEF Merges
-----------------------------------------------------------------------------
(***************************************************************************)
(* What is requested stays as it must be.                                  *)
(***************************************************************************)

\* A segment that a ship is about to upload: from the ship state, or a listing.
LEMMA ShipIs ==
    ASSUME IInv, NEW p \in Procs, Ship(p)
    PROVE  LET c == copyOf[p]
               o == proc'[p].obj
           IN  /\ c \in owns /\ owns = {c} /\ c \in Copies /\ lock[c] = p /\ proc[p].at = "ship"
               /\ c \notin sealed /\ ~Unresumable(p) /\ objs' = objs /\ flight' = flight
               /\ owns' = owns /\ file' = file /\ copyOf' = copyOf /\ sealed' = sealed
               /\ \E held \in Held :
                     /\ IF KnownAt(c) THEN held = state[c] ELSE held = [to |-> Shown, next |-> Top + 1]
                     /\ \/ /\ file[c] <= held.to \/ (kind = "log" /\ proc[p].size <= held.to)
                           /\ state'[c] = held /\ Shipped(p, -1, 0)
                        \/ /\ file[c] > held.to /\ state'[c] = NoState /\ lock' = lock
                           /\ o = Segment(held.next, held.to, file[c]) /\ proc'[p].at = "put"
                           /\ proc'[p].size = proc[p].size /\ proc'[p].tries = proc[p].tries
<1> DEFINE c == copyOf[p]
           held == IF KnownAt(c) THEN state[c] ELSE [to |-> Shown, next |-> Top + 1]
<1>0. Working(p) /\ Owned /\ Typed /\ Sound(objs)
  BY DEF IInv, OnRemote
<1>1. /\ proc[p].at = "ship" /\ c \notin sealed /\ ~Unresumable(p) /\ objs' = objs /\ flight' = flight
      /\ owns' = owns /\ file' = file /\ copyOf' = copyOf /\ sealed' = sealed
  BY DEF Ship, copyVars, otherVars, env
<1>2. c \in owns /\ owns = {c} /\ lock[c] = p
  BY <1>0, <1>1 DEF Working, Owned, Locked
<1>3. /\ c \in Copies /\ state \in [Copies -> Held \cup {NoState, INDEXED}]
      /\ proc \in [Procs -> ProcType] /\ file[c] \in Nat
  BY <1>0, <1>2 DEF Typed, TypeOK
<1>4. Listed = [to |-> Shown, next |-> Top + 1] /\ Shown \in Nat /\ Top + 1 \in Nat
  BY <1>0, TopIs DEF Listed, Shown, Top
<1>5. held \in Held
  BY <1>3, <1>4 DEF KnownAt, Held
<1>6. (IF Known(p) THEN state[c] ELSE Listed) = held
  BY <1>4 DEF Known, KnownAt
<1>7. held.to \in Nat /\ held.next \in Nat
  BY <1>5 DEF Held
<1>8. \A st : Keep(p, st) => state'[c] = st
  BY <1>3 DEF Keep
<1>9. \A o : Set(p, [proc[p] EXCEPT !.at = "put", !.obj = o]) =>
         /\ proc'[p].obj = o /\ proc'[p].at = "put"
         /\ proc'[p].size = proc[p].size /\ proc'[p].tries = proc[p].tries
  BY <1>3 DEF Set, ProcType
<1> HIDE DEF held
<1>10. \/ /\ file[c] <= held.to \/ (kind = "log" /\ proc[p].size <= held.to)
          /\ Keep(p, held) /\ Shipped(p, -1, 0)
       \/ /\ ~(file[c] <= held.to) /\ Keep(p, NoState) /\ lock' = lock
          /\ Set(p, [proc[p] EXCEPT !.at = "put", !.obj = Segment(held.next, held.to, file[c])])
  BY <1>6 DEF Ship
<1>11. \/ /\ file[c] <= held.to \/ (kind = "log" /\ proc[p].size <= held.to)
          /\ state'[c] = held /\ Shipped(p, -1, 0)
       \/ /\ file[c] > held.to /\ state'[c] = NoState /\ lock' = lock
          /\ proc'[p].obj = Segment(held.next, held.to, file[c]) /\ proc'[p].at = "put"
          /\ proc'[p].size = proc[p].size /\ proc'[p].tries = proc[p].tries
  <2>1. CASE /\ file[c] <= held.to \/ (kind = "log" /\ proc[p].size <= held.to)
             /\ Keep(p, held) /\ Shipped(p, -1, 0)
    <3>1. state'[c] = held BY <1>8, <2>1
    <3> QED BY <2>1, <3>1
  <2>2. CASE /\ ~(file[c] <= held.to) /\ Keep(p, NoState) /\ lock' = lock
             /\ Set(p, [proc[p] EXCEPT !.at = "put", !.obj = Segment(held.next, held.to, file[c])])
    <3>1. state'[c] = NoState BY <1>8, <2>2
    <3>2. file[c] > held.to BY <1>3, <1>7, <2>2
    <3>3. /\ proc'[p].obj = Segment(held.next, held.to, file[c]) /\ proc'[p].at = "put"
          /\ proc'[p].size = proc[p].size /\ proc'[p].tries = proc[p].tries
      BY <1>9, <2>2
    <3> QED BY <2>2, <3>1, <3>2, <3>3
  <2> QED BY <1>10, <2>1, <2>2
<1>12. IF KnownAt(c) THEN held = state[c] ELSE held = [to |-> Shown, next |-> Top + 1]
  BY DEF held
<1> QED BY <1>1, <1>2, <1>3, <1>5, <1>11, <1>12

\* Requested segments are the next one or have taken numbers, after a step too.
LEMMA SegmentsStay ==
    ASSUME IInv, Next, NEW o \in Segments'
    PROVE  SegmentOK(o)'
<1>0. /\ Top \in Int /\ Top' \in Int /\ -1 <= Top /\ Top <= Top'
      /\ Shown \in Nat /\ Shown' \in Nat /\ Shown <= Shown'
      /\ (Top' = Top /\ Shown' = Shown) \/ Advance \/ Swap
  BY RemoteGrows
<1>1. /\ file["orig"] \in Nat /\ file["orig"]' \in Nat /\ file["orig"] <= file["orig"]'
      /\ (Exact' => Exact) /\ kind' = kind
  BY FrameIs
<1>2. CASE o \in Segments
  <2>1. SegmentOK(o) /\ o \in Objects BY <1>2, RequestsTyped DEF IInv, Requested
  <2>2. o.from \in Nat /\ o.to \in Nat /\ o.last \in Nat BY <2>1, ObjectIs
  <2>3. ~Swap \/ (o \notin AtWork({"put"}) /\ flight = {})
    <3> SUFFICES ASSUME NEW q \in Procs, proc[q].at = "replace"
                 PROVE  o \notin AtWork({"put"}) /\ flight = {}
      BY DEF Swap
    <3>1. kind = "metrics" BY DEF IInv, Working
    <3>2. flight = {} BY <3>1, MetricsPlain
    <3>3. \A p \in Procs : proc[p].at # "put" BY Exclusive DEF Locked
    <3> QED BY <3>2, <3>3 DEF AtWork
  <2>4. ~Swap BY <1>2, <2>3 DEF Segments, LateOnes
  <2>5. Top' = Top + 1 \/ (Top' = Top /\ Shown' = Shown)
    BY <1>0, <2>4 DEF Advance, Top
  <2> QED BY <1>0, <1>1, <2>1, <2>2, <2>5 DEF SegmentOK
<1>3. CASE o \notin Segments
  <2>1. PICK p \in Procs : Ship(p) /\ proc'[p].at = "put" /\ o = proc'[p].obj
    BY <1>3, NewSegment
  <2> DEFINE c == copyOf[p]
  <2>2. /\ c \in owns /\ owns = {c} /\ c \in Copies /\ objs' = objs /\ file' = file /\ owns' = owns
    BY <2>1, ShipIs
  <2>3. PICK held \in Held :
                     /\ IF KnownAt(c) THEN held = state[c] ELSE held = [to |-> Shown, next |-> Top + 1]
                     /\ \/ Shipped(p, -1, 0)
                        \/ /\ file[c] > held.to
                           /\ o = Segment(held.next, held.to, file[c])
    BY <2>1, ShipIs
  <2>4. proc \in [Procs -> ProcType] BY DEF IInv, Typed
  <2>5. ~Shipped(p, -1, 0) BY <2>1, <2>4 DEF Shipped, Set, Rest
  <2>6. held.to \in Nat /\ held.next \in Nat /\ file \in [Copies -> Nat]
    BY DEF Held, IInv, Typed, TypeOK
  <2>7. /\ ~o.merged /\ o.from = held.to /\ o.to = file[c] /\ o.last = held.next /\ file[c] > held.to
    BY <2>3, <2>5 DEF Segment
  <2>8. Top' = Top /\ Shown' = Shown BY <2>2 DEF Top, Shown
  <2>9. file[c] <= file["orig"] /\ Shown <= file["orig"]
    <3>1. file["copy"] <= file["orig"] /\ \A x \in Visible(objs) : x.to <= file["orig"]
      BY DEF IInv, Owned, OnRemote
    <3>2. Shown <= file["orig"]
      <4>1. Sound(objs) BY DEF IInv, OnRemote
      <4> QED BY <1>1, <3>1, <4>1, TopIs DEF Shown
    <3> QED BY <1>1, <2>2, <3>1, <3>2 DEF Copies
  <2>10. CASE ~KnownAt(c)
    <3>1. held.to = Shown /\ held.next = Top + 1 BY <2>3, <2>10
    <3> QED BY <1>0, <1>1, <2>2, <2>6, <2>7, <2>8, <2>9, <3>1 DEF SegmentOK
  <2>11. CASE KnownAt(c) /\ c = "copy"
    <3>1. held.to >= file[c] BY <2>2, <2>3, <2>11 DEF IInv, Stated
    <3> QED BY <2>2, <2>6, <2>7, <3>1
  <2>12. CASE KnownAt(c) /\ c = "orig"
    <3>1. held = state["orig"] /\ owns = {"orig"} BY <2>2, <2>3, <2>12
    <3>2. held.next <= Top + 1 /\ (Exact => Fits(held.next, held.to))
      BY <2>12, <3>1 DEF IInv, Stated
    <3>3. held.next = Top + 1 /\ Exact => held.to = Shown
      <4> SUFFICES ASSUME held.next = Top + 1, Exact, held.to # Shown PROVE FALSE
        OBVIOUS
      <4>1. PICK x \in objs : Name(x) = <<FALSE, held.next>>
        BY <3>2 DEF Fits
      <4>2. objs \in SUBSET Objects /\ IsFiniteSet(objs) BY DEF IInv, OnRemote, Sound
      <4>3. x.last = held.next /\ x.last <= LastSeq(objs) BY <4>1, <4>2, ObjectIs, LastSeqIs
      <4> QED BY <1>0, <4>3 DEF Top
    <3> QED BY <1>0, <1>1, <2>2, <2>6, <2>7, <2>8, <2>9, <2>12, <3>2, <3>3 DEF SegmentOK
  <2> QED BY <2>2, <2>10, <2>11, <2>12 DEF Copies
<1> QED BY <1>2, <1>3

\* As many different numbers as an interval has include its first.
LEMMA AllLater ==
    ASSUME NEW L, IsFiniteSet(L), NEW a \in Int, NEW n \in Nat \ {0}, Cardinality(L) = n,
           \A x \in L : x.last \in (a + 1) .. (a + n),
           \A x, y \in L : x.last = y.last => x = y
    PROVE  \E x \in L : x.last = a + 1
<1> SUFFICES ASSUME \A x \in L : x.last # a + 1 PROVE FALSE
  OBVIOUS
<1> DEFINE T == (a + 2) .. (a + n)
           f == [x \in L |-> x.last]
<1>1. f \in [L -> T] BY SMT
<1>2. IsFiniteSet(T) /\ Cardinality(T) = IF a + 2 > a + n THEN 0 ELSE a + n - (a + 2) + 1
  <2>1. ASSUME NEW x \in Int, NEW y \in Int
        PROVE  IsFiniteSet(x .. y) /\ Cardinality(x .. y) = IF x > y THEN 0 ELSE y - x + 1
    BY FS_Interval
  <2>2. PICK b, c : b = a + 2 /\ c = a + n OBVIOUS
  <2>3. b \in Int /\ c \in Int BY <2>2
  <2>4. IsFiniteSet(b .. c) /\ Cardinality(b .. c) = IF b > c THEN 0 ELSE c - b + 1
    BY <2>1, <2>3
  <2> QED BY <2>2, <2>4
<1>3. Cardinality(T) < Cardinality(L)
  BY <1>2
<1>4. \A x \in L : f[x] = x.last
  OBVIOUS
<1> HIDE DEF f, T
<1>5. PICK x, y \in L : x # y /\ f[x] = f[y]
  BY <1>1, <1>2, <1>3, FS_PigeonHole
<1> QED BY <1>4, <1>5

\* A merged object that is requested anew ends where a visible object does.
LEMMA NewMergeIs ==
    ASSUME IInv, Next, NEW o \in Merges', o \notin Merges
    PROVE  /\ objs' = objs /\ o \in Objects /\ o.merged /\ o.from = 0
           /\ \E x \in Visible(objs) : x.last = o.last /\ x.to = o.to
           /\ kind = "metrics" => \E s \in Visible(objs) : ~s.merged
           /\ kind = "metrics" \/ \E p \in Procs : proc[p].at = "list" /\ o.last = Top
<1>0. Sound(objs) /\ Typed BY DEF IInv, OnRemote
<1>1. proc \in [Procs -> ProcType] /\ proc \in [Procs -> ProcType]
  BY <1>0 DEF Typed
<1>2. \A x \in Visible(objs) : x \in objs /\ x \in Objects /\ x.last \in Nat /\ x.to \in Nat /\ x.from \in Nat
         /\ x.merged \in BOOLEAN
  BY <1>0, ObjectIs DEF Sound, Visible
<1> DEFINE V == Visible(objs)
<1>3. /\ LastSeq(V) = Top /\ End(V) = Shown
      /\ V # {} => \E x \in V : x.last = Top /\ x.to = Shown
  BY <1>0, TopIs DEF Top, Shown
<1>4. ASSUME NEW p \in Procs, MergeList(p), proc'[p].at = "get", o = proc'[p].obj
      PROVE  /\ objs' = objs /\ o = MergeOf(V) /\ V # {} /\ kind = "log" /\ proc[p].at = "list"
  <2>1. Working(p) BY DEF IInv
  <2>2. ~Over(p) BY <1>1, <1>4 DEF Over, Set, Rest
  <2>3. \/ Over(p)
        \/ ~(Cardinality(V) < 2) /\ Set(p, [Rest("get") EXCEPT !.obj = MergeOf(V), !.keys = {Name(x) : x \in V}])
    BY <1>4 DEF MergeList
  <2>4. proc'[p] = [Rest("get") EXCEPT !.obj = MergeOf(V), !.keys = {Name(x) : x \in V}]
    BY <1>1, <2>2, <2>3 DEF Set
  <2>5. o = MergeOf(V) BY <1>4, <2>4 DEF Rest
  <2>6. V # {} BY <2>2, <2>3, FS_EmptySet
  <2> QED BY <1>4, <2>1, <2>5, <2>6 DEF MergeList, Working
<1>5. ASSUME FarList, o = far'.obj
      PROVE  /\ objs' = objs /\ o = Merged(LastSeq(V), End(V), FALSE) /\ V # {} /\ kind = "metrics"
             /\ \E s \in V : ~s.merged
  BY <1>5 DEF FarList
<1>6. ASSUME NEW p \in Procs, Plan(p), proc'[p].at = "rollup", o = proc'[p].obj
      PROVE  /\ objs' = objs /\ kind = "metrics"
             /\ \E s, x \in V : ~s.merged /\ o = Merged(x.last, x.to, TRUE)
  <2> DEFINE seq == proc[p].obj.last
             covers == seq - Lag
             later == {y \in V : ~y.merged /\ y.last \in (covers + 1) .. seq}
             upto == {y.from : y \in {q \in later : q.last = covers + 1}}
  <2>1. Working(p) /\ proc[p].at = "plan" /\ objs' = objs BY <1>6 DEF IInv, Plan
  <2>2. kind = "metrics" /\ seq > Lag BY <2>1 DEF Working
  <2>3. proc[p].obj \in Objects BY RequestsTyped
  <2>4. seq \in Nat BY <2>3, ObjectIs
  <2>5. Lag \in Nat \ {0} /\ covers \in Nat /\ covers + 1 \in Nat BY <2>2, <2>4, StreamsAssumption
  <2>6. \A u : Set(p, [Rest("rollup") EXCEPT !.obj = u]) => proc'[p].obj = u
    BY <1>1 DEF Set, Rest
  <2>7. ~Set(p, Rest("idle")) BY <1>1, <1>6 DEF Set, Rest
  <2>8. /\ Cardinality(later) = Lag
        /\ Set(p, [Rest("rollup") EXCEPT !.obj = Merged(covers, CHOOSE n \in upto : TRUE, TRUE)])
    BY <1>6, <2>7 DEF Plan
  <2>9. o = Merged(covers, CHOOSE n \in upto : TRUE, TRUE)
    BY <1>6, <2>6, <2>8
  <2>10. PICK s \in later : s.last = covers + 1
    <3>1. IsFiniteSet(V) /\ \A x, y \in V : x.last = y.last => x = y BY <1>0, VisibleIs
    <3>2. IsFiniteSet(later) BY <3>1, FS_Subset
    <3>3. \A x \in later : x.last \in (covers + 1) .. (covers + Lag) BY <2>4, <2>5
    <3>4. \A x, y \in later : x.last = y.last => x = y BY <3>1
    <3> HIDE DEF later, covers
    <3> QED BY <2>5, <2>8, <3>2, <3>3, <3>4, AllLater
  <2>11. s \in V /\ ~s.merged OBVIOUS
  <2>12. Chained(objs)
    <3>1. Exact BY <2>2, MetricsPlain
    <3> QED BY <3>1 DEF IInv, OnRemote
  <2>13. PICK x \in V : x.last + 1 = s.last /\ x.to = s.from
    BY <2>5, <2>10, <2>11, <2>12 DEF Chained
  <2>14. x.last = covers BY <1>2, <2>5, <2>10, <2>13
  <2>15. upto = {s.from}
    <3>1. \A y \in later : y.last = covers + 1 => y = s BY <1>0, <2>10, VisibleIs
    <3> QED BY <2>10, <3>1
  <2>16. (CHOOSE n \in upto : TRUE) = x.to BY <2>13, <2>15
  <2>17. o = Merged(x.last, x.to, TRUE) BY <2>9, <2>14, <2>16
  <2> QED BY <2>1, <2>2, <2>11, <2>17
<1>7. ASSUME NEW x \in V, NEW r \in BOOLEAN, o = Merged(x.last, x.to, r)
      PROVE  o \in Objects /\ o.merged /\ o.from = 0 /\ o.last = x.last /\ o.to = x.to
  BY <1>2, <1>7 DEF Merged, Objects
<1>8. CASE \E p \in Procs : MergeList(p) /\ proc'[p].at = "get" /\ o = proc'[p].obj
  <2>1. PICK p \in Procs : MergeList(p) /\ proc'[p].at = "get" /\ o = proc'[p].obj BY <1>8
  <2>2. objs' = objs /\ o = MergeOf(V) /\ V # {} /\ kind = "log" /\ proc[p].at = "list" BY <1>4, <2>1
  <2>3. PICK x \in V : x.last = Top /\ x.to = Shown BY <1>3, <2>2
  <2>4. o = Merged(x.last, x.to, TRUE) BY <1>3, <2>2, <2>3 DEF MergeOf
  <2>5. o \in Objects /\ o.merged /\ o.from = 0 /\ o.last = x.last /\ o.to = x.to
    BY <1>7, <2>4
  <2> QED BY <2>2, <2>3, <2>5
<1>9. CASE FarList /\ o = far'.obj
  <2>1. objs' = objs /\ o = Merged(LastSeq(V), End(V), FALSE) /\ V # {} /\ kind = "metrics"
          /\ \E s \in V : ~s.merged BY <1>5, <1>9
  <2>2. PICK x \in V : x.last = Top /\ x.to = Shown BY <1>3, <2>1
  <2>3. o = Merged(x.last, x.to, FALSE) BY <1>3, <2>1, <2>2
  <2>4. o \in Objects /\ o.merged /\ o.from = 0 /\ o.last = x.last /\ o.to = x.to
    BY <1>7, <2>3
  <2> QED BY <2>1, <2>2, <2>4
<1>10. CASE \E p \in Procs : Plan(p) /\ proc'[p].at = "rollup" /\ o = proc'[p].obj
  <2>1. PICK p \in Procs : Plan(p) /\ proc'[p].at = "rollup" /\ o = proc'[p].obj BY <1>10
  <2>2. PICK s, x \in V : ~s.merged /\ o = Merged(x.last, x.to, TRUE) BY <1>6, <2>1
  <2>3. o \in Objects /\ o.merged /\ o.from = 0 /\ o.last = x.last /\ o.to = x.to
    BY <1>7, <2>2
  <2>4. objs' = objs /\ kind = "metrics" BY <1>6, <2>1
  <2> QED BY <2>2, <2>3, <2>4
<1> QED BY <1>8, <1>9, <1>10, NewMerge

\* Requested merged objects stand for a segment that is there, or covered.
LEMMA MergesStay ==
    ASSUME IInv, Next, NEW o \in Merges'
    PROVE  MergeOK(o)' /\ o \in Objects
<1>1. Sound(objs) BY DEF IInv, OnRemote
<1>2. CASE o \in Merges
  <2>1. MergeOK(o) /\ o \in Objects BY <1>2, RequestsTyped DEF IInv, Requested
  <2>2. o.last \in Int
    <3>1. o.last \in Nat BY <2>1, ObjectIs
    <3> QED BY <3>1
  <2>3. Grown(objs, objs') BY RemoteMoves
  <2>4. CASE Covers(objs, o.last)
    <3>1. Covers(objs', o.last) BY <2>2, <2>3, <2>4 DEF Grown
    <3> QED BY <2>1, <3>1 DEF MergeOK
  <2>5. CASE ~Covers(objs, o.last)
    <3>1. PICK q \in objs : ~q.merged /\ q.last = o.last /\ q.to = o.to BY <2>1, <2>5 DEF MergeOK
    <3>2. q \in objs' \/ Covers(objs', q.last) BY <2>3, <3>1 DEF Grown
    <3> QED BY <2>1, <3>1, <3>2 DEF MergeOK
  <2> QED BY <2>4, <2>5
<1>3. CASE o \notin Merges
  <2>1. objs' = objs /\ o \in Objects /\ o.merged /\ o.from = 0 BY <1>3, NewMergeIs
  <2>2. PICK x \in Visible(objs) : x.last = o.last /\ x.to = o.to BY <1>3, NewMergeIs
  <2>3. x \in objs /\ x.last \in Nat /\ x.merged \in BOOLEAN BY <1>1, ObjectIs DEF Visible, Sound
  <2>4. Covers(objs, o.last) \/ \E q \in objs : ~q.merged /\ q.last = o.last /\ q.to = o.to
    BY <2>2, <2>3 DEF Covers
  <2> QED BY <2>1, <2>4 DEF MergeOK
<1> QED BY <1>2, <1>3

\* What a merged object supersedes is hidden by it.
LEMMA SupersededIs ==
    ASSUME NEW S \in SUBSET Objects, NEW m \in S, m.merged, NEW k \in Superseded(S, m.last)
    PROVE  Doomed(S, k)
<1>1. PICK o \in S : k = Name(o) /\ (IF o.merged THEN o.last < m.last ELSE o.last <= m.last)
  BY DEF Superseded
<1>2. k[1] = o.merged /\ k[2] = o.last
  BY <1>1 DEF Name
<1> QED BY <1>1, <1>2 DEF Doomed

\* The keys to be deleted are those of hidden objects.
LEMMA DeletesStay ==
    ASSUME IInv, Next
    PROVE  Deletes'
<1>0. /\ Sound(objs) /\ Typed /\ Deletes /\ proc \in [Procs -> ProcType]
      /\ far \in [at : {"idle", "get", "create", "delete"}, obj : Objects, keys : Names]
  BY DEF IInv, OnRemote, Typed, TypeOK, Requested
<1>1. /\ \A k \in BOOLEAN \X Nat : Doomed(objs, k) => Doomed(objs', k)
      /\ objs' \in SUBSET Objects
  BY RemoteMoves DEF Grown, Sound
<1>2. kind' = kind BY FrameIs
<1>3. ASSUME NEW p \in Procs, proc'[p].at = "delete", NEW k \in proc'[p].keys
      PROVE  Doomed(objs', k)
  <2>1. CASE proc'[p] = proc[p]
    <3>1. k \in BOOLEAN \X Nat BY <1>0, <1>3, <2>1 DEF ProcType, Names
    <3>2. Doomed(objs, k) BY <1>0, <1>3, <2>1 DEF Deletes
    <3> QED BY <1>1, <3>1, <3>2
  <2> DEFINE o == proc[p].obj
  <2>2. CASE MergeCreate(p)
    <3>1. ~Over(p) BY <1>0, <1>3 DEF Over, Set, Rest
    <3>2. proc[p].at = "create" /\ ~There(Name(o)) /\ objs' = Landed("create", o)
      BY <2>2, <3>1 DEF MergeCreate
    <3>3. Set(p, [proc[p] EXCEPT !.at = "delete",
                          !.keys = IF kind = "log" THEN @ ELSE Superseded(objs', o.last)])
      BY <2>2, <3>1, <3>2 DEF MergeCreate
    <3>4. objs' = objs \cup {o} BY <3>2 DEF Landed
    <3>5. o \in objs' /\ o.merged
      <4>1. o \in Merges BY <3>2 DEF Merges, AtWork
      <4> QED BY <3>4, <4>1 DEF IInv, Requested, MergeOK
    <3>6. proc'[p].keys = IF kind = "log" THEN proc[p].keys ELSE Superseded(objs', o.last)
      BY <1>0, <3>3 DEF Set, ProcType
    <3>7. CASE kind = "log"
      <4>1. IF k[1] THEN k[2] < o.last ELSE k[2] <= o.last
        BY <1>0, <1>3, <3>2, <3>6, <3>7 DEF Deletes
      <4> QED BY <3>5, <4>1 DEF Doomed
    <3>8. CASE kind # "log"
      <4>1. k \in Superseded(objs', o.last) BY <1>3, <3>6, <3>8
      <4> QED BY <1>1, <3>5, <4>1, SupersededIs
    <3> QED BY <3>7, <3>8
  <2>3. CASE Replace(p)
    <3>1. proc[p].at = "replace" /\ objs' = Landed("put", o)
          /\ Set(p, [proc[p] EXCEPT !.at = "delete", !.keys = Superseded(objs', o.last)])
      BY <2>3 DEF Replace
    <3>2. o \in objs' BY <3>1 DEF Landed
    <3>3. o.merged BY <3>1 DEF IInv, Replacing
    <3>4. proc'[p].keys = Superseded(objs', o.last) BY <1>0, <3>1 DEF Set, ProcType
    <3>5. k \in Superseded(objs', o.last) BY <1>3, <3>4
    <3> QED BY <1>1, <3>2, <3>3, <3>5, SupersededIs
  <2> QED BY <1>3, <2>1, <2>2, <2>3, MovesTo
<1>4. ASSUME NEW p \in Procs, kind = "log", proc'[p].at \in {"get", "create"}, NEW k \in proc'[p].keys
      PROVE  IF k[1] THEN k[2] < proc'[p].obj.last ELSE k[2] <= proc'[p].obj.last
  <2>1. CASE proc'[p] = proc[p]
    BY <1>0, <1>4, <2>1 DEF Deletes
  <2>2. CASE MergeGet(p)
    <3>1. ~Over(p) BY <1>0, <1>4 DEF Over, Set, Rest
    <3>2. proc[p].at = "get" /\ Go(p, "create") BY <2>2, <3>1 DEF MergeGet
    <3>3. proc'[p].keys = proc[p].keys /\ proc'[p].obj = proc[p].obj
      BY <1>0, <3>2 DEF Go, Set, ProcType
    <3> QED BY <1>0, <1>4, <3>2, <3>3 DEF Deletes
  <2>3. ~RollUp(p)
    <3>1. Working(p) BY DEF IInv
    <3> QED BY <1>4, <3>1 DEF RollUp, Working
  <2>4. CASE MergeList(p)
    <3> DEFINE V == Visible(objs)
    <3>1. ~Over(p) BY <1>0, <1>4 DEF Over, Set, Rest
    <3>2. ~(Cardinality(V) < 2)
            /\ Set(p, [Rest("get") EXCEPT !.obj = MergeOf(V), !.keys = {Name(x) : x \in V}])
      BY <2>4, <3>1 DEF MergeList
    <3>3. proc'[p].obj = MergeOf(V) /\ proc'[p].keys = {Name(x) : x \in V}
      BY <1>0, <3>2 DEF Set, Rest
    <3>4. PICK x \in V : k = Name(x) BY <1>4, <3>3
    <3>5. k[1] = x.merged /\ k[2] = x.last BY <3>4 DEF Name
    <3>6. MergeOf(V).last = LastSeq(objs) BY <1>0, TopIs DEF MergeOf, Merged
    <3>7. x.last <= LastSeq(objs) /\ LastSeq(objs) \in Int BY <1>0, TopIs
    <3>8. V \subseteq objs /\ IsFiniteSet(V) BY <1>0, VisibleIs
    <3>9. PICK y \in V : y # x
      <4>1. Cardinality({x}) = 1 BY FS_Singleton
      <4>2. V # {x} BY <3>2, <4>1
      <4> QED BY <4>2
    <3>10. \A z \in V : z.last \in Nat /\ z.merged \in BOOLEAN /\ z.last <= LastSeq(objs)
      BY <1>0, <3>8, ObjectIs, TopIs DEF Sound
    <3>11. y.last # x.last /\ (y.last < x.last => ~x.merged)
      BY <1>0, <3>9, VisibleIs
    <3>12. x.merged => x.last < LastSeq(objs) BY <3>7, <3>9, <3>10, <3>11
    <3> QED BY <3>3, <3>5, <3>6, <3>7, <3>12
  <2> QED BY <1>4, <2>1, <2>2, <2>3, <2>4, MovesTo
<1>5. ASSUME far'.at = "delete", NEW k \in far'.keys
      PROVE  Doomed(objs', k)
  <2>1. CASE far' = far
    <3>1. k \in BOOLEAN \X Nat BY <1>0, <1>5, <2>1 DEF Names
    <3>2. Doomed(objs, k) BY <1>0, <1>5, <2>1 DEF Deletes
    <3> QED BY <1>1, <3>1, <3>2
  <2>2. CASE far' # far
    <3>1. FarList \/ FarGet \/ FarCreate \/ FarDelete
      BY <2>2, Frames DEF Far
    <3>2. farRest.at = "idle" BY DEF farRest
    <3>3. ~FarList
      <4>1. FarList => \E x, k1 : far' = [at |-> "get", obj |-> x, keys |-> k1]
        BY Zenon DEF FarList
      <4>2. \A x, k1 : [at |-> "get", obj |-> x, keys |-> k1].at = "get" OBVIOUS
      <4> QED BY <1>5, <4>1, <4>2
    <3>4. ~FarGet BY <1>0, <1>5, <3>2 DEF FarGet
    <3>5. ~FarDelete BY <1>5, <2>2, <3>2 DEF FarDelete
    <3> DEFINE o == far.obj
    <3>6. far.at = "create" /\ ~There(Name(o)) /\ objs' = Landed("create", o)
          /\ far' = [far EXCEPT !.at = "delete", !.keys = Superseded(objs', o.last)]
      BY <1>5, <3>1, <3>2, <3>3, <3>4, <3>5 DEF FarCreate
    <3>7. o \in objs' BY <3>6 DEF Landed
    <3>8. o.merged
      <4>1. o \in Merges BY <3>6 DEF Merges
      <4> QED BY <4>1 DEF IInv, Requested, MergeOK
    <3>9. far'.keys = Superseded(objs', o.last) BY <1>0, <3>6
    <3>10. k \in Superseded(objs', o.last) BY <1>5, <3>9
    <3> QED BY <1>1, <3>7, <3>8, <3>10, SupersededIs
  <2> QED BY <2>1, <2>2
<1>6. ASSUME NEW f \in flight', f.op = "delete"
      PROVE  Doomed(objs', Name(f.obj))
  <2>1. CASE f \in flight
    <3>1. Doomed(objs, Name(f.obj)) BY <1>0, <1>6, <2>1 DEF Deletes
    <3>2. f.obj \in Objects BY <1>0, <2>1 DEF Typed, TypeOK
    <3>3. Name(f.obj) \in BOOLEAN \X Nat BY <3>2, ObjectIs DEF Name
    <3> QED BY <1>1, <3>1, <3>3
  <2>2. CASE f \notin flight
    <3>1. PICK p \in Procs : f \in Requests(p) /\ objs' = objs BY <2>2, NewFlight
    <3>2. proc[p].at = "delete" /\ Name(f.obj) \in proc[p].keys
      BY <1>6, <3>1 DEF Requests
    <3> QED BY <1>0, <3>1, <3>2 DEF Deletes
  <2> QED BY <2>1, <2>2
<1>7. /\ \A p \in Procs : proc'[p].at = "delete" => \A k \in proc'[p].keys : Doomed(objs', k)
      /\ \A p \in Procs : kind = "log" /\ proc'[p].at \in {"get", "create"} =>
          \A k \in proc'[p].keys :
             IF k[1] THEN k[2] < proc'[p].obj.last ELSE k[2] <= proc'[p].obj.last
      /\ far'.at = "delete" => \A k \in far'.keys : Doomed(objs', k)
      /\ \A f \in flight' : f.op = "delete" => Doomed(objs', Name(f.obj))
  BY <1>3, <1>4, <1>5, <1>6
<1> QED BY <1>2, <1>7 DEF Deletes

\* All that may yet take effect stays as it must be.
LEMMA RequestedStays ==
    ASSUME IInv, Next
    PROVE  Requested'
<1>1. ASSUME NEW f \in flight' PROVE f.op # "put" /\ kind' \in Late
  <2>0. kind' = kind BY FrameIs
  <2>1. CASE f \in flight BY <2>0, <2>1 DEF IInv, Requested
  <2>2. CASE f \notin flight
    <3>1. PICK p \in Procs : f \in Requests(p) /\ kind \in Late BY <2>2, NewFlight
    <3>2. kind # "metrics" BY <3>1 DEF IInv
    <3>3. proc[p].at # "replace" BY <3>2 DEF IInv, Working
    <3> QED BY <2>0, <3>1, <3>3 DEF Requests
  <2> QED BY <2>1, <2>2
<1> QED BY <1>1, SegmentsStay, MergesStay, DeletesStay DEF Requested
-----------------------------------------------------------------------------
(***************************************************************************)
(* The copies.                                                             *)
(***************************************************************************)

\* A ship state is forgotten, copied, or learnt by a ship.
LEMMA StatesMove ==
    ASSUME IInv, Next, NEW c \in Copies, state'[c] # state[c]
    PROVE  \/ state'[c] \in {NoState, INDEXED}
           \/ CopyRecord /\ c = "copy" /\ state'[c] = state["orig"]
           \/ \E p \in Procs : copyOf[p] = c /\ Ship(p)
           \/ \E p \in Procs : /\ copyOf[p] = c /\ Upload(p) /\ ~There(Name(proc[p].obj))
                               /\ state'[c] = Holds(p, proc[p].obj)
<1>0. state \in [Copies -> Held \cup {NoState, INDEXED}] /\ "copy" \in Copies
  BY DEF IInv, Typed, TypeOK, Copies
<1>1. ASSUME NEW p \in Procs, NEW st, Keep(p, st)
      PROVE  c = copyOf[p] /\ state'[c] = st
  BY <1>0, <1>1 DEF Keep
<1>2. \/ CopyRecord \/ \E p \in Procs : Adopt(p)
      \/ \E p \in Procs : Ship(p) \/ Upload(p) \/ Delete(p) \/ Build(p) \/ Seal(p)
  BY DEF Next, Append, Finish, Land, Far, FarList, FarGet, FarCreate, FarDelete,
     OnlyFar, ReadList, ReadGet, ReadEnd, OnlyRead, Step, Sync, Lock, MergeList,
     MergeGet, MergeCreate, Plan, RollUp, ShipIndexed, Replace, GiveUp, Compact, Fail, Restart
<1>3. CASE CopyRecord
  <2>1. state' = [state EXCEPT !["copy"] = state["orig"]] BY <1>3 DEF CopyRecord
  <2> QED BY <1>0, <1>3, <2>1
<1>4. CASE \E p \in Procs : Adopt(p)
  <2>1. state' = [state EXCEPT !["copy"] = NoState] BY <1>4 DEF Adopt
  <2> QED BY <1>0, <2>1
<1>5. ASSUME NEW p \in Procs, Ship(p) PROVE copyOf[p] = c
  <2>1. \E st : Keep(p, st) BY <1>5 DEF Ship
  <2> QED BY <1>1, <2>1
<1>6. ASSUME NEW p \in Procs, Upload(p)
      PROVE  copyOf[p] = c /\ ~There(Name(proc[p].obj)) /\ state'[c] = Holds(p, proc[p].obj)
  <2>1. ~There(Name(proc[p].obj)) /\ Keep(p, Holds(p, proc[p].obj)) BY <1>6 DEF Upload
  <2> QED BY <1>1, <2>1
<1>7. ASSUME NEW p \in Procs, Delete(p) \/ Build(p) \/ Seal(p)
      PROVE  state'[c] \in {NoState, INDEXED}
  <2>1. \E st \in {NoState, INDEXED} : Keep(p, st) BY <1>7 DEF Delete, Build, Seal
  <2> QED BY <1>1, <2>1
<1> QED BY <1>2, <1>3, <1>4, <1>5, <1>6, <1>7

\* A process that works is the owner's.
LEMMA WorksFor ==
    ASSUME IInv, NEW p \in Procs, proc[p].at \notin {"idle", "dead"}
    PROVE  copyOf[p] \in owns /\ owns = {copyOf[p]} /\ copyOf[p] \in Copies /\ file[copyOf[p]] > 0
<1>1. Working(p) /\ Owned /\ owns \subseteq Copies BY DEF IInv, Typed, TypeOK
<1> QED BY <1>1 DEF Working, Owned

\* One copy owns the stream, and has all that the remote shows of metrics.
LEMMA OwnedStays ==
    ASSUME IInv, Next
    PROVE  Owned'
<1>0. /\ Owned /\ Typed /\ file \in [Copies -> Nat] /\ proc \in [Procs -> ProcType]
      /\ owns \subseteq Copies /\ sealed \subseteq Copies
      /\ state \in [Copies -> Held \cup {NoState, INDEXED}]
  BY DEF IInv, Typed, TypeOK
<1>1. /\ kind' = kind /\ copyOf' = copyOf /\ (retired => retired')
      /\ file["orig"] \in Nat /\ file["orig"]' \in Nat /\ file["orig"] <= file["orig"]'
  BY FrameIs
<1>2. /\ OnRemote /\ Shown \in Nat /\ Shown' \in Nat /\ (objs # {} => objs' # {})
      /\ (Top' = Top /\ Shown' = Shown) \/ Advance \/ Swap
  BY RemoteGrows DEF IInv
<1>3. Shown <= file["orig"]
  BY <1>1, <1>2, TopIs DEF OnRemote, Shown
<1>4. owns' = {"orig"} \/ owns' = {"copy"}
  BY <1>0, OwnersStay DEF Owned
<1>5. ASSUME owns' = {"copy"}
      PROVE  retired' /\ \A p \in Procs : copyOf[p] = "orig" => proc'[p].at = "dead"
  <2>1. CASE owns' # owns
    BY <1>5, <2>1, OwnersStay
  <2>2. CASE owns = {"copy"}
    <3> SUFFICES ASSUME NEW p \in Procs, copyOf[p] = "orig", proc'[p] # proc[p] PROVE FALSE
      BY <1>0, <1>1, <2>2 DEF Owned
    <3>1. proc[p].at = "dead" /\ "orig" \notin owns BY <1>0, <2>2 DEF Owned
    <3>2. Acts(p) BY ActorIs
    <3> QED BY <3>1, <3>2 DEF Acts, Step, Sync, Lock, Ship, Upload, MergeList,
         MergeGet, MergeCreate, Delete, Plan, RollUp, Build, ShipIndexed, Replace, Seal, GiveUp,
         Compact, Fail, Restart
  <2> QED BY <1>5, <2>1, <2>2
<1>6. /\ file'["copy"] <= file'["orig"] /\ file' \in [Copies -> Nat]
      /\ file'["copy"] = file["copy"] \/ owns = {"orig"}
  <2>1. CASE file' = file BY <1>0, <2>1 DEF Owned
  <2>2. CASE Append
    <3>1. file' = [file EXCEPT !["orig"] = file["orig"] + 1] BY <2>2 DEF Append
    <3> QED BY <1>0, <1>1, <3>1 DEF Owned, Copies
  <2>3. CASE CopyRecord
    <3>1. file' = [file EXCEPT !["copy"] = file["orig"]] /\ owns = {"orig"} BY <2>3 DEF CopyRecord
    <3> QED BY <1>0, <1>1, <3>1 DEF Copies
  <2>4. CASE \E p \in Procs : Adopt(p)
    <3>1. owns = {"orig"} /\
          \/ file' = [file EXCEPT !["copy"] = 0]
          \/ file' = [file EXCEPT !["copy"] = IF Shown > file["copy"] THEN Shown ELSE file["copy"]]
      BY <2>4 DEF Adopt
    <3>2. file["copy"] <= file["orig"] BY <1>0 DEF Owned
    <3>3. CASE file' = [file EXCEPT !["copy"] = 0]
      BY <1>0, <1>1, <3>1, <3>3 DEF Copies
    <3>4. CASE file' = [file EXCEPT !["copy"] = IF Shown > file["copy"] THEN Shown ELSE file["copy"]]
      <4>1. file["copy"] \in Nat BY <1>0 DEF Copies
      <4> QED BY <1>0, <1>1, <1>2, <1>3, <3>1, <3>2, <3>4, <4>1 DEF Copies
    <3> QED BY <3>1, <3>3, <3>4
  <2> QED BY <2>1, <2>2, <2>3, <2>4, Frames
<1>7. ASSUME NEW c \in sealed'
      PROVE  /\ objs' # {} /\ kind' = "metrics" /\ retired' /\ c \in Copies
             /\ state'[c] \in {NoState, INDEXED} /\ file'[c] > 0
  <2>1. ASSUME NEW d \in sealed
        PROVE  /\ objs' # {} /\ kind' = "metrics" /\ retired' /\ d \in Copies
               /\ file[d] > 0 /\ state[d] \in {NoState, INDEXED}
    BY <1>0, <1>1, <1>2, <2>1 DEF Owned, KnownAt
  <2>2. CASE CopyRecord
    <3>1. /\ file["copy"] = 0 /\ file["orig"] > 0
          /\ file' = [file EXCEPT !["copy"] = file["orig"]]
          /\ state' = [state EXCEPT !["copy"] = state["orig"]]
          /\ sealed' = IF "orig" \in sealed THEN Copies ELSE sealed
      BY <2>2 DEF CopyRecord
    <3>2. "orig" \in sealed
      <4> SUFFICES ASSUME "orig" \notin sealed PROVE FALSE
        OBVIOUS
      <4>1. c \in sealed /\ c \in Copies /\ c # "orig" BY <1>7, <2>1, <3>1
      <4>2. c = "copy" BY <4>1 DEF Copies
      <4>3. file["copy"] > 0 BY <2>1, <4>1, <4>2
      <4> QED BY <3>1, <4>3
    <3>3. c \in Copies BY <1>7, <3>1, <3>2
    <3>4. "copy" \in Copies /\ "orig" \in Copies BY DEF Copies
    <3>5. CASE c = "copy"
      <4>1. file'[c] = file["orig"] /\ state'[c] = state["orig"] BY <1>0, <3>1, <3>4, <3>5
      <4> QED BY <2>1, <3>1, <3>2, <3>3, <4>1
    <3>6. CASE c = "orig"
      <4>1. file'[c] = file["orig"] /\ state'[c] = state["orig"] BY <1>0, <3>1, <3>4, <3>6
      <4> QED BY <2>1, <3>1, <3>2, <3>3, <4>1
    <3> QED BY <3>3, <3>5, <3>6 DEF Copies
  <2>3. ASSUME NEW p \in Procs, Seal(p)
        PROVE  c \in sealed \/ c = copyOf[p]
    BY <2>3 DEF Seal
  <2>4. ASSUME NEW p \in Procs, Seal(p), c = copyOf[p]
        PROVE  /\ objs' # {} /\ kind' = "metrics" /\ retired' /\ c \in Copies
               /\ state'[c] \in {NoState, INDEXED} /\ file'[c] > 0
    <3>1. proc[p].at = "seal" /\ objs' = objs /\ file' = file /\ retired' = retired
      BY <2>4 DEF Seal
    <3>2. c \in Copies /\ file[c] > 0 BY <2>4, <3>1, WorksFor
    <3>3. objs # {} /\ kind = "metrics" /\ retired
      <4>1. Working(p) BY DEF IInv
      <4> QED BY <3>1, <4>1 DEF Working
    <3>4. state'[c] \in {NoState, INDEXED}
      <4>1. \E st \in {INDEXED, NoState} : state' = [state EXCEPT ![copyOf[p]] = st]
        BY <2>4 DEF Seal, Keep
      <4> QED BY <1>0, <2>4, <3>2, <4>1
    <3> QED BY <1>1, <3>1, <3>2, <3>3, <3>4
  <2>5. CASE c \in sealed /\ ~CopyRecord
    <3>1. /\ objs' # {} /\ kind' = "metrics" /\ retired' /\ c \in Copies
          /\ file[c] > 0 /\ state[c] \in {NoState, INDEXED}
      BY <2>1, <2>5
    <3>2. state'[c] \in {NoState, INDEXED}
      <4> SUFFICES ASSUME state'[c] # state[c] PROVE state'[c] \in {NoState, INDEXED}
        BY <3>1
      <4>1. ASSUME NEW p \in Procs, copyOf[p] = c PROVE ~Ship(p)
        BY <2>5, <4>1 DEF Ship
      <4>2. ASSUME NEW p \in Procs, copyOf[p] = c PROVE ~Upload(p)
        <5>1. Working(p) BY DEF IInv
        <5> QED BY <2>5, <4>2, <5>1 DEF Upload, Working
      <4> QED BY <2>5, <3>1, <4>1, <4>2, StatesMove
    <3>3. file'[c] > 0
      <4>1. CASE c = "orig" BY <1>1, <3>1, <4>1
      <4>2. CASE c = "copy"
        <5>1. CASE file' = file BY <3>1, <5>1
        <5>2. CASE Append BY <1>0, <3>1, <4>2, <5>2 DEF Append
        <5>3. ASSUME NEW p \in Procs, Adopt(p) PROVE file'["copy"] > 0
          <6> DEFINE indexed == kind = "metrics" /\ \E o \in Visible(objs) : o.merged
          <6>1. ~indexed
            <7>1. indexed => sealed' = sealed \ {"copy"} BY <5>3 DEF Adopt
            <7> QED BY <1>7, <4>2, <7>1
          <6>2. file' = [file EXCEPT !["copy"] = IF Shown > file["copy"] THEN Shown ELSE file["copy"]]
            BY <5>3, <6>1 DEF Adopt
          <6> QED BY <1>0, <1>2, <3>1, <4>2, <6>2
        <5> QED BY <2>5, <4>2, <5>1, <5>2, <5>3, Frames
      <4> QED BY <3>1, <4>1, <4>2 DEF Copies
    <3> QED BY <3>1, <3>2, <3>3
  <2>6. CASE c \notin sealed /\ ~CopyRecord
    <3>1. PICK p \in Procs : Adopt(p) \/ Seal(p) BY <1>7, <2>6, Frames
    <3>2. ~Adopt(p) BY <1>7, <2>6 DEF Adopt
    <3> QED BY <2>3, <2>4, <2>6, <3>1, <3>2
  <2> QED BY <2>2, <2>5, <2>6
<1>8. ASSUME NEW c \in owns', kind = "metrics", file'[c] > 0
      PROVE  Shown' <= file'[c]
  <2>1. CASE \E p \in Procs : Adopt(p)
    <3>1. PICK p \in Procs : Adopt(p) BY <2>1
    <3>2. c = "copy" /\ objs' = objs BY <3>1 DEF Adopt
    <3>3. \/ file' = [file EXCEPT !["copy"] = 0]
          \/ file' = [file EXCEPT !["copy"] = IF Shown > file["copy"] THEN Shown ELSE file["copy"]]
      BY <3>1 DEF Adopt
    <3>4. Shown' = Shown BY <3>2 DEF Shown
    <3>5. "copy" \in Copies /\ file["copy"] \in Nat BY <1>0 DEF Copies
    <3>6. file' # [file EXCEPT !["copy"] = 0] BY <1>0, <1>8, <3>2, <3>5
    <3> QED BY <1>0, <1>2, <3>2, <3>3, <3>4, <3>5, <3>6
  <2>2. CASE ~\E p \in Procs : Adopt(p)
    <3>1. owns' = owns /\ owns = {c} /\ c \in Copies
      BY <1>0, <2>2, OwnersStay DEF Owned
    <3>2. file[c] <= file'[c] /\ file[c] \in Nat /\ file'[c] \in Nat
      <4>1. CASE c = "orig" BY <1>1, <4>1
      <4>2. CASE c = "copy"
        <5>1. file'["copy"] = file["copy"] BY <1>6, <3>1, <4>2
        <5> QED BY <1>0, <3>1, <4>2, <5>1
      <4> QED BY <3>1, <4>1, <4>2 DEF Copies
    <3>3. CASE Shown' = Shown
      <4>1. CASE file[c] > 0
        <5>1. Shown <= file[c] BY <1>0, <1>8, <3>1, <4>1 DEF Owned
        <5> QED BY <1>2, <3>2, <3>3, <5>1
      <4>2. CASE file[c] = 0
        <5>1. c = "orig"
          <6>1. file'["copy"] = file["copy"] \/ c = "orig" BY <1>6, <3>1
          <6> QED BY <1>8, <3>1, <4>2, <6>1 DEF Copies
        <5> QED BY <1>2, <1>3, <3>2, <3>3, <5>1
      <4> QED BY <3>2, <4>1, <4>2
    <3>4. CASE Advance
      <4>1. PICK o \in Segments : End(Visible(objs')) = o.to BY <3>4 DEF Advance
      <4>2. Shown' = o.to BY <4>1 DEF Shown
      <4>3. PICK p \in Procs : proc[p].at = "put" /\ o = proc[p].obj
        <5>1. LateOnes("create", FALSE) = {} BY <1>8, MetricsPlain
        <5> QED BY <5>1 DEF Segments, AtWork
      <4>4. copyOf[p] = c BY <3>1, <4>3, WorksFor
      <4>5. o.to <= file[c]
        <5>1. CASE c = "orig" BY <4>1, <5>1 DEF IInv, Requested, SegmentOK
        <5>2. CASE c = "copy"
          <6>1. Shipping(p) BY DEF IInv
          <6>2. o.to = file["copy"] BY <3>1, <4>3, <5>2, <6>1 DEF Shipping
          <6> QED BY <3>2, <5>2, <6>2
        <5> QED BY <3>1, <5>1, <5>2 DEF Copies
      <4> QED BY <1>2, <3>2, <4>2, <4>5
    <3>5. CASE Swap
      <4>1. PICK p \in Procs : proc[p].at = "replace" /\ End(Visible(objs')) = proc[p].obj.to
        BY <3>5 DEF Swap
      <4>2. copyOf[p] = c BY <3>1, <4>1, WorksFor
      <4>3. proc[p].obj.to = file[c] BY <4>1, <4>2 DEF IInv, Replacing
      <4>4. Shown' = file[c] BY <4>1, <4>3 DEF Shown
      <4> QED BY <3>2, <4>4
    <3> QED BY <1>2, <3>3, <3>4, <3>5
  <2> QED BY <2>1, <2>2
<1>9. \A c \in sealed' : ~KnownAt(c)' /\ file'[c] > 0 BY <1>7 DEF KnownAt
<1>10. sealed' # {} => objs' # {} /\ kind' = "metrics" /\ retired' BY <1>7
<1>11. \A c \in owns' : kind' = "metrics" /\ file'[c] > 0 => Shown' <= file'[c]
  BY <1>1, <1>8
<1> QED BY <1>1, <1>4, <1>5, <1>6, <1>9, <1>10, <1>11 DEF Owned

\* The owner's file only grows, by what is appended.
LEMMA OwnerFile ==
    ASSUME IInv, Next, NEW c \in owns, owns' = owns
    PROVE  /\ c \in Copies /\ file[c] \in Nat /\ file'[c] \in Nat /\ file[c] <= file'[c]
           /\ file'[c] = file[c] \/ (Append /\ c = "orig")
<1>0. /\ Owned /\ file \in [Copies -> Nat] /\ owns \subseteq Copies
  BY DEF IInv, Typed, TypeOK
<1>1. /\ file["orig"] \in Nat /\ file["orig"]' \in Nat /\ file["orig"] <= file["orig"]'
      /\ file["orig"]' # file["orig"] => Append
  BY FrameIs
<1>2. CASE c = "orig" BY <1>0, <1>1, <1>2
<1>3. CASE c = "copy"
  <2>1. "copy" \in Copies /\ owns = {"copy"} BY <1>0, <1>3 DEF Owned, Copies
  <2>2. file'["copy"] = file["copy"]
    <3>1. ~CopyRecord /\ ~\E p \in Procs : Adopt(p) BY <2>1 DEF CopyRecord, Adopt
    <3>2. Append => file'["copy"] = file["copy"] BY <1>0, <2>1 DEF Append
    <3> QED BY <3>1, <3>2, Frames
  <2> QED BY <1>0, <1>3, <2>1, <2>2
<1> QED BY <1>0, <1>2, <1>3 DEF Copies

\* Locks are held where they are needed, and only the owner's processes work.
LEMMA WorkingStays ==
    ASSUME IInv, Next, NEW p \in Procs
    PROVE  Working(p)'
<1> DEFINE c == copyOf[p]
<1>0. /\ Working(p) /\ Owned /\ Typed /\ proc \in [Procs -> ProcType] /\ proc[p] \in ProcType
      /\ lock \in [Copies -> Procs \cup {None}]
  BY DEF IInv, Typed, TypeOK
<1>1. kind' = kind /\ copyOf' = copyOf /\ (retired => retired') /\ (objs # {} => objs' # {})
  BY FrameIs, RemoteGrows
<1>2. ASSUME c \in owns, file[c] > 0, owns' = owns PROVE c \in owns' /\ file'[c] > 0
  BY <1>2, OwnerFile
<1>3. CASE proc'[p] = proc[p]
  <2>1. proc[p].at \notin {"idle", "dead"} => c \in owns' /\ file'[c] > 0
    <3> SUFFICES ASSUME proc[p].at \notin {"idle", "dead"} PROVE c \in owns' /\ file'[c] > 0
      OBVIOUS
    <3>1. owns' = owns BY OwnersStay
    <3> QED BY <1>2, <3>1, WorksFor
  <2>2. proc[p].at \in Locked => lock'[c] = p /\ (c \in sealed' <=> c \in sealed)
    BY <1>3, Bystander
  <2>3. proc[p].at = "put" => c \notin sealed'
    BY <1>0, <2>2 DEF Working, Locked
  <2> QED BY <1>0, <1>1, <1>3, <2>1, <2>2, <2>3 DEF Working
<1>4. CASE proc'[p] # proc[p]
  <2>1. owns' = owns BY <1>4, OwnersStay
  <2>2. \A r : Set(p, r) => proc'[p] = r BY <1>0 DEF Set
  <2>3. \A at : Rest(at).at = at /\ Set(p, Rest(at)) => proc'[p].at = at BY <2>2 DEF Rest
  <2>4. \A at : Go(p, at) => proc'[p].at = at /\ proc'[p].obj = proc[p].obj
    BY <1>0, <2>2 DEF Go, ProcType
  <2>5. ~Over(p) \/ proc'[p].at = "idle" BY <2>2 DEF Over, Rest
  <2>6. proc[p].at \notin {"idle", "dead"} => /\ c \in owns' /\ file'[c] > 0 /\ c \in Copies
    BY <1>2, <2>1, WorksFor
  <2>7. Take(p) /\ c \in Copies => lock'[c] = p BY <1>0 DEF Take
  <2>8. proc[p].at \in Locked => lock[c] = p BY <1>0 DEF Working
  <2>9. CASE proc'[p].at \in {"idle", "dead"}
    BY <2>9 DEF Working, Locked
  <2>10. CASE proc'[p].at = "lock"
    <3>1. Sync(p) BY <1>4, <2>10, MovesTo
    <3>2. c \in owns /\ file[c] > 0 BY <3>1 DEF Sync
    <3>3. c \in owns' /\ file'[c] > 0 BY <1>2, <2>1, <3>2
    <3> QED BY <1>1, <2>10, <3>3 DEF Working, Locked
  <2>11. CASE proc'[p].at = "ship"
    <3>1. Lock(p) \/ Upload(p) BY <1>4, <2>11, MovesTo
    <3>2. proc[p].at \notin {"idle", "dead"} BY <3>1 DEF Lock, Upload
    <3>3. lock'[c] = p
      <4>1. CASE Lock(p) BY <2>6, <2>7, <3>2, <4>1 DEF Lock
      <4>2. CASE Upload(p)
        <5>1. proc'[p].at # "idle" /\ ~Shipped(p, proc[p].obj.last, proc[p].obj.to)
          BY <2>11, ShippedIs
        <5>2. ~Set(p, Rest("idle")) BY <2>2, <2>11 DEF Rest
        <5>3. lock' = lock /\ proc[p].at = "put" BY <4>2, <5>1, <5>2 DEF Upload
        <5> QED BY <2>8, <5>3 DEF Locked
      <4> QED BY <3>1, <4>1, <4>2
    <3> QED BY <1>1, <2>6, <2>11, <3>2, <3>3 DEF Working
  <2>12. CASE proc'[p].at = "put"
    <3>1. Ship(p) BY <1>4, <2>12, MovesTo
    <3>2. proc[p].at = "ship" /\ c \notin sealed' BY <3>1, ShipIs
    <3>3. lock' = lock
      <4>1. ~Shipped(p, -1, 0) BY <2>12, ShippedIs
      <4> QED BY <3>1, <4>1 DEF Ship
    <3>4. lock'[c] = p BY <2>8, <3>2, <3>3 DEF Locked
    <3> QED BY <1>1, <2>6, <2>12, <3>2, <3>4 DEF Working
  <2>13. CASE proc'[p].at = "list"
    <3>1. Ship(p) \/ Upload(p) BY <1>4, <2>13, MovesTo
    <3>2. PICK seq, to : Shipped(p, seq, to)
      <4>1. CASE Ship(p)
        <5>1. \A o : Set(p, [proc[p] EXCEPT !.at = "put", !.obj = o]) => proc'[p].at = "put"
          BY <1>0, <2>2 DEF ProcType
        <5> QED BY <2>13, <4>1, <5>1 DEF Ship
      <4>2. CASE Upload(p)
        <5>1. Set(p, [proc[p] EXCEPT !.at = "ship", !.tries = @ + 1]) => proc'[p].at = "ship"
          BY <1>0, <2>2 DEF ProcType
        <5>2. ~Set(p, Rest("idle")) BY <2>2, <2>13 DEF Rest
        <5> QED BY <2>13, <4>2, <5>1, <5>2 DEF Upload
      <4> QED BY <3>1, <4>1, <4>2
    <3>3. kind = "log" /\ lock' = lock BY <2>13, <3>2, ShippedIs
    <3>4. proc[p].at \in Locked /\ proc[p].at \notin {"idle", "dead"}
      BY <3>1 DEF Ship, Upload, Locked
    <3>5. lock'[c] = p BY <2>8, <3>3, <3>4
    <3> QED BY <1>1, <2>6, <2>13, <3>3, <3>4, <3>5 DEF Working
  <2>14. CASE proc'[p].at = "plan"
    <3>1. Upload(p) BY <1>4, <2>14, MovesTo
    <3>2. Shipped(p, proc[p].obj.last, proc[p].obj.to)
      <4>1. Set(p, [proc[p] EXCEPT !.at = "ship", !.tries = @ + 1]) => proc'[p].at = "ship"
        BY <1>0, <2>2 DEF ProcType
      <4>2. ~Set(p, Rest("idle")) BY <2>2, <2>14 DEF Rest
      <4> QED BY <2>14, <3>1, <4>1, <4>2 DEF Upload
    <3>3. /\ kind = "metrics" /\ Due(proc[p].obj.last - Lag)
          /\ proc'[p].obj = Segment(proc[p].obj.last, proc[p].obj.to, proc[p].obj.to)
      BY <2>14, <3>2, ShippedIs
    <3>4. proc[p].obj.last \in Nat /\ Lag \in Nat
      <4>1. proc[p].obj \in Objects BY RequestsTyped
      <4> QED BY <4>1, ObjectIs, StreamsAssumption
    <3>5. proc'[p].obj.last > Lag BY <3>3, <3>4 DEF Due, Segment
    <3>6. proc[p].at = "put" BY <3>1 DEF Upload
    <3> QED BY <1>1, <2>6, <2>14, <3>3, <3>5, <3>6 DEF Working, Locked
  <2>15. CASE proc'[p].at = "get"
    <3>1. MergeList(p) BY <1>4, <2>15, MovesTo
    <3>2. ~Over(p) BY <2>5, <2>15
    <3> DEFINE V == Visible(objs)
    <3>3. proc[p].at = "list" /\ lock' = lock
          /\ Set(p, [Rest("get") EXCEPT !.obj = MergeOf(V), !.keys = {Name(o) : o \in V}])
      BY <3>1, <3>2 DEF MergeList
    <3>4. proc'[p].obj = MergeOf(V) BY <2>2, <3>3 DEF Rest
    <3>5. proc'[p].obj.resume BY <3>4 DEF MergeOf, Merged
    <3>6. lock'[c] = p BY <2>8, <3>3 DEF Locked
    <3> QED BY <1>1, <2>6, <2>15, <3>3, <3>5, <3>6 DEF Working
  <2>16. CASE proc'[p].at = "create"
    <3>1. MergeGet(p) \/ RollUp(p) BY <1>4, <2>16, MovesTo
    <3>2. ~Over(p) /\ ~Set(p, Rest("idle")) BY <2>2, <2>5, <2>16 DEF Rest
    <3>3. Go(p, "create") /\ proc[p].at \in {"get", "rollup"} /\ (lock' = lock \/ Take(p))
          /\ (proc[p].at = "rollup" => Take(p))
      BY <3>1, <3>2 DEF MergeGet, RollUp
    <3>4. proc'[p].obj.resume
      <4>1. proc[p].obj.resume BY <1>0, <3>3 DEF Working
      <4> QED BY <2>4, <3>3, <4>1
    <3>5. lock'[c] = p
      <4>1. c \in Copies BY <2>6, <3>3
      <4> QED BY <2>7, <2>8, <3>3, <4>1 DEF Locked
    <3> QED BY <1>1, <2>6, <2>16, <3>3, <3>4, <3>5 DEF Working
  <2>17. CASE proc'[p].at = "rollup"
    <3>1. Plan(p) BY <1>4, <2>17, MovesTo
    <3>2. ~Set(p, Rest("idle")) BY <2>2, <2>17 DEF Rest
    <3>3. proc[p].at = "plan" /\ \E n, m : Set(p, [Rest("rollup") EXCEPT !.obj = Merged(n, m, TRUE)])
      BY <3>1, <3>2 DEF Plan
    <3>4. kind = "metrics" BY <1>0, <3>3 DEF Working
    <3>5. PICK n, m : Set(p, [Rest("rollup") EXCEPT !.obj = Merged(n, m, TRUE)]) BY <3>3
    <3>6. proc'[p].obj = Merged(n, m, TRUE) BY <2>2, <3>5 DEF Rest
    <3>7. proc'[p].obj.resume BY <3>6 DEF Merged
    <3> QED BY <1>1, <2>6, <2>17, <3>3, <3>4, <3>7 DEF Working, Locked
  <2>18. CASE proc'[p].at = "build"
    <3>1. Compact(p) BY <1>4, <2>18, MovesTo
    <3>2. kind = "metrics" BY <3>1 DEF Compact
    <3>3. c \in owns /\ file[c] > 0
      BY <3>1, WorksFor DEF Compact
    <3>4. c \in owns' /\ file'[c] > 0 BY <1>2, <2>1, <3>3
    <3>5. c \in Copies BY <1>0, <3>3 DEF Typed, TypeOK
    <3>6. lock'[c] = p BY <2>7, <2>8, <3>1, <3>5 DEF Compact, Locked
    <3> QED BY <1>1, <2>18, <3>2, <3>4, <3>6 DEF Working
  <2>19. CASE proc'[p].at = "replace"
    <3>1. Build(p) \/ ShipIndexed(p) BY <1>4, <2>19, MovesTo
    <3>2. proc[p].at \in {"build", "ship"} /\ lock' = lock
      BY <2>5, <2>19, <3>1 DEF Build, ShipIndexed
    <3>3. kind = "metrics"
      <4>1. Build(p) => kind = "metrics" BY <1>0 DEF Build, Working
      <4>2. ShipIndexed(p) => kind = "metrics" BY <1>0 DEF ShipIndexed, Owned
      <4> QED BY <3>1, <4>1, <4>2
    <3>4. lock'[c] = p BY <2>8, <3>2 DEF Locked
    <3> QED BY <1>1, <2>6, <2>19, <3>2, <3>3, <3>4 DEF Working
  <2>20. CASE proc'[p].at = "delete"
    <3>1. MergeCreate(p) \/ Replace(p) BY <1>4, <2>20, MovesTo
    <3>2. proc[p].at \in {"create", "replace"} /\ lock' = lock /\ objs' # {}
      BY <2>5, <2>20, <3>1 DEF MergeCreate, Replace, Landed
    <3>3. proc'[p].obj = proc[p].obj
      <4>1. \A k : Set(p, [proc[p] EXCEPT !.at = "delete", !.keys = k]) => proc'[p].obj = proc[p].obj
        BY <1>0, <2>2 DEF ProcType
      <4>2. CASE Replace(p) BY <4>1, <4>2 DEF Replace
      <4>3. CASE MergeCreate(p)
        <5>1. ~Over(p) BY <2>5, <2>20
        <5>2. \E k : Set(p, [proc[p] EXCEPT !.at = "delete", !.keys = k])
          BY <4>3, <5>1, Zenon DEF MergeCreate
        <5> QED BY <4>1, <5>2
      <4> QED BY <3>1, <4>2, <4>3
    <3>4. ~proc[p].obj.resume => kind = "metrics" /\ retired
      <4>1. proc[p].at = "create" => proc[p].obj.resume BY <1>0 DEF Working
      <4>2. proc[p].at = "replace" => kind = "metrics" /\ retired BY DEF IInv, Working, Replacing
      <4> QED BY <3>2, <4>1, <4>2
    <3>5. lock'[c] = p BY <2>8, <3>2 DEF Locked
    <3> QED BY <1>1, <2>6, <2>20, <3>2, <3>3, <3>4, <3>5 DEF Working
  <2>21. CASE proc'[p].at = "seal"
    <3>1. Delete(p) BY <1>4, <2>21, MovesTo
    <3>2. proc[p].at = "delete" /\ lock' = lock /\ ~proc[p].obj.resume
      BY <1>4, <2>5, <2>21, <3>1 DEF Delete
    <3>3. objs' # {} /\ kind = "metrics" /\ retired BY <1>0, <1>1, <3>2 DEF Working
    <3>4. lock'[c] = p BY <2>8, <3>2 DEF Locked
    <3> QED BY <1>1, <2>6, <2>21, <3>2, <3>3, <3>4 DEF Working
  <2>22. proc'[p].at \in Stages BY <1>4, MovesTo
  <2> QED BY <2>9, <2>10, <2>11, <2>12, <2>13, <2>14, <2>15, <2>16, <2>17, <2>18, <2>19, <2>20, <2>21, <2>22
          DEF Stages
<1> QED BY <1>3, <1>4

\* A compaction of the whole file goes on to cover all that is there.
LEMMA ReplacingStays ==
    ASSUME IInv, Next, NEW p \in Procs
    PROVE  Replacing(p)'
<1> SUFFICES ASSUME proc'[p].at = "replace"
             PROVE  /\ proc'[p].obj.merged /\ proc'[p].obj.from = 0 /\ ~proc'[p].obj.resume
                    /\ proc'[p].obj.to = file'[copyOf'[p]] /\ retired'
                    /\ proc'[p].obj.last = Top' \/ (objs' = {} /\ proc'[p].obj.last = 0)
                    /\ ~KnownAt(copyOf[p])'
  BY DEF Replacing
<1> DEFINE c == copyOf[p]
<1>0. /\ Working(p) /\ Owned /\ Replacing(p) /\ proc \in [Procs -> ProcType] /\ Sound(objs)
      /\ state \in [Copies -> Held \cup {NoState, INDEXED}]
  BY DEF IInv, Typed, TypeOK, OnRemote
<1>1. copyOf' = copyOf /\ (retired => retired') BY FrameIs
<1>2. CASE proc'[p] = proc[p]
  <2>1. /\ state'[c] = state[c] /\ (file'[c] = file[c] \/ Append)
    BY <1>2, Bystander DEF Locked
  <2>2. /\ proc[p].obj.merged /\ proc[p].obj.from = 0 /\ ~proc[p].obj.resume
        /\ proc[p].obj.to = file[c] /\ retired /\ ~KnownAt(c)
        /\ proc[p].obj.last = Top \/ (objs = {} /\ proc[p].obj.last = 0)
    BY <1>0, <1>2 DEF Replacing
  <2>3. file'[c] = file[c] BY <2>1, <2>2 DEF Append
  <2>4. ~KnownAt(c)' BY <1>1, <2>1, <2>2 DEF KnownAt
  <2>5. proc[p].obj.last = Top' \/ (objs' = {} /\ proc[p].obj.last = 0)
    <3>1. (Top' = Top /\ Shown' = Shown) \/ Advance \/ Swap BY RemoteGrows
    <3>2. ~Advance
      <4>1. LateOnes("create", FALSE) = {} BY <1>0, <1>2, MetricsPlain DEF Working
      <4>2. \A q \in Procs : proc[q].at # "put" BY <1>2, Exclusive DEF Locked
      <4> QED BY <4>1, <4>2 DEF Advance, Segments, AtWork
    <3>3. CASE Swap
      <4>1. PICK q \in Procs : proc[q].at = "replace" /\ LastSeq(objs') = proc[q].obj.last
        BY <3>3 DEF Swap
      <4>2. q = p BY <1>2, <4>1, Exclusive DEF Locked
      <4> QED BY <4>1, <4>2 DEF Top
    <3>4. CASE Top' = Top
      <4>1. objs = {} => objs' = {}
        <5>1. Sound(objs') BY RemoteMoves
        <5>2. objs = {} => LastSeq(objs) = -1 BY <1>0, TopIs
        <5>3. objs' # {} => LastSeq(objs') \in Nat BY <5>1, TopIs
        <5>4. LastSeq(objs') = LastSeq(objs) BY <3>4 DEF Top
        <5> QED BY <5>2, <5>3, <5>4
      <4> QED BY <2>2, <3>4, <4>1
    <3> QED BY <3>1, <3>2, <3>3, <3>4
  <2> QED BY <1>1, <1>2, <2>2, <2>3, <2>4, <2>5
<1>3. CASE proc'[p] # proc[p]
  <2>1. Build(p) \/ ShipIndexed(p) BY <1>3, MovesTo
  <2>2. proc[p].at \in {"build", "ship"} BY <2>1 DEF Build, ShipIndexed
  <2>3. c \in Copies BY <2>2, WorksFor
  <2>4. \A o : Set(p, [Rest("replace") EXCEPT !.obj = o]) => proc'[p].obj = o
    BY <1>0 DEF Set, Rest
  <2>5. LastSeq(Visible(objs)) = Top BY <1>0, TopIs DEF Top
  <2>6. CASE Build(p)
    <3>1. /\ proc'[p].obj = Merged(IF objs = {} THEN 0 ELSE LastSeq(Visible(objs)), file[c], FALSE)
          /\ objs' = objs /\ file' = file /\ retired'
      BY <2>4, <2>6 DEF Build
    <3>2. state'[c] = NoState BY <1>0, <2>3, <2>6 DEF Build, Keep
    <3>3. Top' = Top BY <3>1 DEF Top
    <3> QED BY <1>1, <2>5, <3>1, <3>2, <3>3 DEF Merged, KnownAt
  <2>7. CASE ShipIndexed(p)
    <3>1. ~Over(p) BY <1>0 DEF Over, Set, Rest
    <3>2. /\ proc'[p].obj = Merged(LastSeq(Visible(objs)), file[c], FALSE)
          /\ objs' = objs /\ file' = file /\ retired' = retired /\ state' = state /\ c \in sealed
      BY <2>4, <2>7, <3>1 DEF ShipIndexed, copyVars
    <3>3. retired /\ ~KnownAt(c) BY <1>0, <3>2 DEF Owned
    <3>4. Top' = Top BY <3>2 DEF Top
    <3>5. ~KnownAt(c)' BY <1>1, <3>2, <3>3 DEF KnownAt
    <3> QED BY <1>1, <2>5, <3>2, <3>3, <3>4, <3>5 DEF Merged
  <2> QED BY <2>1, <2>6, <2>7
<1> QED BY <1>2, <1>3
-----------------------------------------------------------------------------
(***************************************************************************)
(* The ship states.                                                        *)
(***************************************************************************)

\* After a step, the next segment fits where the remote ends.
LEMMA FitsNext ==
    ASSUME IInv, Next
    PROVE  Fits(Top + 1, Shown)'
<1>1. Sound(objs') BY RemoteMoves
<1>2. Top' = LastSeq(objs') /\ Top' \in Int BY RemoteGrows DEF Top
<1>3. objs' \in SUBSET Objects /\ IsFiniteSet(objs') BY <1>1 DEF Sound
<1>4. ~Covers(objs', Top' + 1)
  <2> SUFFICES ASSUME Covers(objs', Top' + 1) PROVE FALSE
    OBVIOUS
  <2>1. Top' + 1 \in Int BY <1>2
  <2>2. Top' + 1 <= LastSeq(objs') BY <1>1, <2>1, WidestIs
  <2> QED BY <1>2, <2>2
<1>5. ASSUME NEW o \in Merges' PROVE o.last < Top' + 1
  <2>1. MergeOK(o)' /\ o \in Objects BY MergesStay
  <2>2. o.last \in Nat BY <2>1, ObjectIs
  <2>3. o.last \in Int BY <2>2
  <2>4. o.last <= Top'
    <3>1. CASE Covers(objs', o.last) BY <1>1, <1>2, <2>3, <3>1, WidestIs
    <3>2. CASE ~Covers(objs', o.last)
      <4>1. PICK q \in objs' : q.last = o.last BY <2>1, <3>2 DEF MergeOK
      <4> QED BY <1>2, <1>3, <4>1, LastSeqIs
    <3> QED BY <3>1, <3>2
  <2> QED BY <1>2, <2>2, <2>4
<1> QED BY <1>4, <1>5 DEF Fits

\* What fits goes on to fit, or its key is taken.
LEMMA FitsStays ==
    ASSUME IInv, Next, NEW seq \in Nat, NEW from, Fits(seq, from), ~Swap,
           Advance => kind = "log",
           kind = "log" /\ (\E p \in Procs : proc[p].at = "list") => seq = Top + 1
    PROVE  Fits(seq, from)'
<1>0. Sound(objs) /\ Sound(objs') /\ Grown(objs, objs') /\ kind' = kind
  BY RemoteMoves, FrameIs DEF IInv, OnRemote
<1>1. Top \in Int /\ Top' \in Int /\ ((Top' = Top /\ Shown' = Shown) \/ Advance)
  BY RemoteGrows
<1>2. seq \in Int OBVIOUS
<1>3. ~Covers(objs', seq)
  <2> SUFFICES ASSUME Covers(objs', seq) PROVE FALSE
    OBVIOUS
  <2>1. Covers(objs, seq) \/ \E o \in Merges : seq <= o.last
    BY <1>2, RemoteMoves
  <2>2. \A o \in Merges : o.last < seq /\ o.last \in Nat
    BY RequestsTyped, ObjectIs DEF Fits
  <2> QED BY <2>1, <2>2 DEF Fits
<1>4. \/ seq = Top' + 1 /\ from = Shown'
      \/ kind' = "log" /\ \E o \in objs' : Name(o) = <<FALSE, seq>>
  <2>1. CASE seq = Top + 1 /\ from = Shown
    <3>1. CASE Advance
      <4>1. PICK o \in Segments : Added(o) /\ o.last = Top + 1 BY <3>1 DEF Advance
      <4>2. o \in Objects /\ ~o.merged BY RequestsTyped DEF IInv, Requested, SegmentOK
      <4>3. Name(o) = <<FALSE, seq>> BY <2>1, <4>1, <4>2, ObjectIs
      <4> QED BY <1>0, <3>1, <4>1, <4>3 DEF Added
    <3> QED BY <1>1, <2>1, <3>1
  <2>2. CASE kind = "log" /\ \E o \in objs : Name(o) = <<FALSE, seq>>
    <3>1. PICK o \in objs : Name(o) = <<FALSE, seq>> BY <2>2
    <3>2. ~o.merged /\ o.last = seq BY <1>0, <3>1, ObjectIs DEF Sound
    <3>3. o \in objs' BY <1>0, <1>3, <3>2 DEF Grown
    <3> QED BY <1>0, <2>2, <3>1, <3>3
  <2> QED BY <2>1, <2>2 DEF Fits
<1>5. ASSUME NEW o \in Merges' PROVE o.last < seq
  <2>1. CASE o \in Merges BY <2>1 DEF Fits
  <2>2. CASE o \notin Merges
    <3>1. PICK x \in Visible(objs) : x.last = o.last BY <2>2, NewMergeIs
    <3>2. x.last <= Top /\ o.last \in Nat
      <4>1. x \in Objects BY <1>0 DEF Visible, Sound
      <4> QED BY <1>0, <3>1, <4>1, TopIs, ObjectIs DEF Top
    <3>3. CASE kind = "metrics"
      <4>1. seq = Top + 1 BY <3>3 DEF Fits
      <4> QED BY <1>1, <3>1, <3>2, <4>1
    <3>4. CASE kind # "metrics"
      <4>1. \E p \in Procs : proc[p].at = "list" BY <2>2, <3>4, NewMergeIs
      <4>2. kind \in {"log", "metrics"} BY StreamsAssumption DEF IInv, Typed, TypeOK
      <4>3. seq = Top + 1 BY <3>4, <4>1, <4>2
      <4> QED BY <1>1, <3>1, <3>2, <4>3
    <3> QED BY <3>3, <3>4
  <2> QED BY <2>1, <2>2
<1> QED BY <1>3, <1>4, <1>5 DEF Fits

\* A segment that is uploaded: the ship state is that of the remote.
LEMMA UploadIs ==
    ASSUME IInv, Next, NEW p \in Procs, Upload(p), ~There(Name(proc[p].obj))
    PROVE  LET c == copyOf[p]
               o == proc[p].obj
           IN  /\ c \in Copies /\ owns = {c} /\ proc[p].at = "put" /\ o \in Objects
               /\ state'[c] = [to |-> o.to, next |-> o.last + 1] /\ KnownAt(c)'
               /\ owns' = owns /\ file' = file /\ flight' = flight
               /\ o.last <= Top'
               /\ Exact => /\ Top' = o.last /\ Shown' = o.to /\ o.last = Top + 1
                           /\ ~Loose'
<1> DEFINE c == copyOf[p]
           o == proc[p].obj
<1>0. /\ Sound(objs) /\ Sound(objs') /\ Shipping(p)
      /\ state \in [Copies -> Held \cup {NoState, INDEXED}]
  BY RemoteMoves DEF IInv, OnRemote, Typed, TypeOK
<1>1. /\ proc[p].at = "put" /\ objs' = objs \cup {o} /\ Keep(p, Holds(p, o))
      /\ owns' = owns /\ file' = file /\ flight' = flight /\ copyOf' = copyOf
  BY DEF Upload, Landed, copyVars, otherVars, env
<1>2. c \in Copies /\ owns = {c} BY <1>1, WorksFor
<1>3. o \in Objects /\ o.last \in Nat /\ o.to \in Nat /\ o.from \in Nat
  BY RequestsTyped, ObjectIs
<1>4. state'[c] = [to |-> o.to, next |-> o.last + 1]
  BY <1>0, <1>1, <1>2 DEF Keep, Holds
<1>5. KnownAt(c)'
  <2>1. state'[c].next = o.last + 1 BY <1>4
  <2>2. NoState.next = -1 /\ INDEXED.next = -1 BY DEF NoState, INDEXED
  <2>3. o.last + 1 # -1 BY <1>3
  <2> QED BY <1>1, <2>1, <2>2, <2>3 DEF KnownAt
<1>6. Top \in Int /\ Top' \in Int /\ ((Top' = Top /\ Shown' = Shown) \/ Advance \/ Swap)
  BY RemoteGrows
<1>7. o.last <= Top'
  <2>1. objs' \in SUBSET Objects /\ IsFiniteSet(objs') BY <1>0 DEF Sound
  <2>2. o.last <= LastSeq(objs') BY <1>1, <2>1, LastSeqIs
  <2> QED BY <2>2 DEF Top
<1>8. ASSUME Exact PROVE Top' = o.last /\ Shown' = o.to /\ o.last = Top + 1 /\ ~Loose'
  <2>1. Fits(o.last, o.from) BY <1>0, <1>1, <1>8 DEF Shipping
  <2>2. ~o.merged
    <3>1. o \in Segments BY <1>1 DEF Segments, AtWork
    <3> QED BY <3>1 DEF IInv, Requested, SegmentOK
  <2>3. Name(o) = <<FALSE, o.last>> BY <1>3, <2>2, ObjectIs
  <2>4. o.last = Top + 1 BY <2>1, <2>3 DEF Fits, There
  <2>5. ~Swap
    <3>1. \A q \in Procs : proc[q].at # "replace" BY <1>1, Exclusive DEF Locked
    <3> QED BY <3>1 DEF Swap
  <2>6. Advance BY <1>3, <1>6, <1>7, <2>4, <2>5
  <2>7. PICK x \in Segments : Added(x) /\ LastSeq(objs') = x.last /\ End(Visible(objs')) = x.to
    BY <2>6 DEF Advance
  <2>8. x = o
    <3>1. x \in objs' /\ x \notin objs BY <2>7 DEF Added
    <3> QED BY <1>1, <3>1
  <2>9. Top' = o.last /\ Shown' = o.to BY <2>7, <2>8 DEF Top, Shown
  <2>10. ~Loose'
    <3> SUFFICES ASSUME NEW l \in LateOnes("create", FALSE)', l.last = Top' + 1 PROVE FALSE
      BY DEF Loose
    <3>1. l \in Segments BY <1>1 DEF LateOnes, Segments
    <3>2. l.last <= Top + 1 BY <3>1 DEF IInv, Requested, SegmentOK
    <3> QED BY <1>6, <2>4, <2>9, <3>2
  <2> QED BY <2>4, <2>9, <2>10
<1> QED BY <1>1, <1>2, <1>3, <1>4, <1>5, <1>7, <1>8

\* An upload that may land late was at the upload before.
LEMMA NewLate ==
    ASSUME IInv, Next, NEW o \in LateOnes("create", FALSE)', o \notin LateOnes("create", FALSE)
    PROVE  \E p \in Procs : /\ proc[p].at = "put" /\ o = proc[p].obj /\ kind \in Late
                            /\ proc'[p].at \in {"idle", "dead"}
<1>1. PICK f \in flight' : f.op = "create" /\ f.obj.merged = FALSE /\ o = f.obj
  BY DEF LateOnes
<1>2. f \notin flight BY <1>1 DEF LateOnes
<1>3. PICK p \in Procs : f \in Requests(p) /\ proc'[p].at \in {"idle", "dead"} /\ kind \in Late
  BY <1>2, NewFlight
<1>4. proc[p].at \in {"put", "create"} /\ f.obj = proc[p].obj BY <1>1, <1>3 DEF Requests
<1>5. proc[p].at = "create" => proc[p].obj.merged
  BY DEF IInv, Requested, Merges, AtWork, MergeOK
<1> QED BY <1>1, <1>3, <1>4, <1>5

\* Where nothing is to be uploaded, the remote's end stays where it is.
LEMMA EndStays ==
    ASSUME IInv, Next, \A p \in Procs : proc[p].at \notin {"put", "replace"}, ~Loose
    PROVE  Top' = Top /\ Shown' = Shown /\ ~Loose' /\ ~Advance /\ ~Swap
<1>1. (Top' = Top /\ Shown' = Shown) \/ Advance \/ Swap BY RemoteGrows
<1>2. ~Swap BY DEF Swap
<1>3. ~Advance BY DEF Advance, Segments, AtWork, Loose
<1>4. ~Loose'
  <2> SUFFICES ASSUME NEW l \in LateOnes("create", FALSE)', l.last = Top' + 1 PROVE FALSE
    BY DEF Loose
  <2>1. l \in LateOnes("create", FALSE) BY NewLate
  <2> QED BY <1>1, <1>2, <1>3, <2>1 DEF Loose
<1> QED BY <1>1, <1>2, <1>3, <1>4

\* The ship states stay exact.
LEMMA StatedStays ==
    ASSUME IInv, Next
    PROVE  Stated'
<1>0. /\ Stated /\ Sound(objs) /\ "orig" \in Copies /\ "copy" \in Copies
      /\ state \in [Copies -> Held \cup {NoState, INDEXED}] /\ proc \in [Procs -> ProcType]
      /\ file \in [Copies -> Nat]
  BY DEF IInv, OnRemote, Typed, TypeOK, Copies
<1>1. /\ kind' = kind /\ copyOf' = copyOf /\ (Exact' => Exact) /\ (Still' <=> Still)
      /\ file["orig"] \in Nat
  BY FrameIs
<1>2. /\ Top \in Int /\ Top' \in Int /\ -1 <= Top /\ Top <= Top' /\ Shown \in Nat
      /\ (Top' = Top /\ Shown' = Shown) \/ Advance \/ Swap
  BY RemoteGrows
<1>3. NoState.next = -1 /\ INDEXED.next = -1 BY DEF NoState, INDEXED
<1>4. ASSUME KnownAt("copy")', owns' = {"copy"}
      PROVE  state'["copy"].to >= file'["copy"]
  <2>1. state'["copy"] \notin {NoState, INDEXED} BY <1>4 DEF KnownAt
  <2>2. owns' = owns BY <2>1, OwnersStay
  <2>3. "copy" \in owns /\ owns = {"copy"} BY <1>4, <2>2
  <2>4. file'["copy"] = file["copy"] /\ file["copy"] \in Nat BY <2>2, <2>3, OwnerFile
  <2>5. CASE state'["copy"] = state["copy"]
    BY <1>0, <2>1, <2>3, <2>4, <2>5 DEF Stated, KnownAt
  <2>6. CASE state'["copy"] # state["copy"]
    <3>1. ~CopyRecord BY <2>3 DEF CopyRecord
    <3>2. ASSUME NEW p \in Procs, copyOf[p] = "copy", Ship(p)
          PROVE  state'["copy"].to >= file["copy"]
      <4>1. PICK held \in Held :
               /\ file["copy"] <= held.to \/ (kind = "log" /\ proc[p].size <= held.to)
               /\ state'["copy"] = held
        BY <2>1, <3>2, ShipIs
      <4>2. proc[p].at = "ship" BY <3>2 DEF Ship
      <4>3. Shipping(p) BY DEF IInv
      <4>4. kind = "log" => proc[p].size = file["copy"] BY <2>3, <4>2, <4>3 DEF Shipping
      <4>5. held.to \in Nat BY DEF Held
      <4> QED BY <2>4, <4>1, <4>4, <4>5
    <3>3. ASSUME NEW p \in Procs, copyOf[p] = "copy", Upload(p), ~There(Name(proc[p].obj))
          PROVE  state'["copy"].to >= file["copy"]
      <4>0. /\ state'[copyOf[p]] = [to |-> proc[p].obj.to, next |-> proc[p].obj.last + 1]
            /\ proc[p].at = "put"
        BY <3>3, UploadIs
      <4>1. state'["copy"].to = proc[p].obj.to /\ proc[p].at = "put"
        <5>1. state'["copy"] = [to |-> proc[p].obj.to, next |-> proc[p].obj.last + 1] BY <3>3, <4>0
        <5>2. state'["copy"].to = proc[p].obj.to BY <5>1
        <5> QED BY <4>0, <5>2
      <4>2. Shipping(p) BY DEF IInv
      <4>3. proc[p].obj.to = file["copy"] BY <2>3, <4>1, <4>2 DEF Shipping
      <4> QED BY <2>4, <4>1, <4>3
    <3> QED BY <1>0, <2>1, <2>4, <2>6, <3>1, <3>2, <3>3, StatesMove
  <2> QED BY <2>5, <2>6
<1>5. ASSUME KnownAt("orig")', owns' = {"orig"}
      PROVE  /\ state'["orig"].next <= Top' + 1
             /\ Exact' => Fits(state["orig"].next, state["orig"].to)'
             /\ Exact' /\ Still' => state'["orig"].next = Top' + 1 /\ ~Loose'
  <2>1. state'["orig"] \notin {NoState, INDEXED} BY <1>5 DEF KnownAt
  <2>2. owns' = owns /\ owns = {"orig"} BY <1>5, OwnersStay
  <2>3. CASE state'["orig"] = state["orig"]
    <3>1. KnownAt("orig") /\ state["orig"] \in Held BY <1>0, <2>1, <2>3 DEF KnownAt
    <3> DEFINE seq == state["orig"].next
               from == state["orig"].to
    <3>2. seq \in Nat /\ from \in Nat BY <3>1 DEF Held
    <3>3. /\ seq <= Top + 1
          /\ Exact => Fits(seq, from)
          /\ Exact /\ Still => seq = Top + 1 /\ ~Loose
      BY <1>0, <2>2, <3>1 DEF Stated
    <3>4. \A p \in Procs : proc[p].at \notin {"put", "replace"}
      <4> SUFFICES ASSUME NEW p \in Procs, proc[p].at \in {"put", "replace"} PROVE FALSE
        OBVIOUS
      <4>1. copyOf[p] = "orig" BY <2>2, WorksFor
      <4>2. Shipping(p) /\ Replacing(p) BY DEF IInv
      <4> QED BY <3>1, <4>1, <4>2 DEF Shipping, Replacing
    <3>5. seq <= Top' + 1 BY <1>2, <3>2, <3>3
    <3>6. ASSUME Exact' PROVE Fits(seq, from)'
      <4>1. Fits(seq, from) BY <1>1, <3>3, <3>6
      <4>2. ~Swap BY <3>4 DEF Swap
      <4>3. Advance => kind = "log"
        <5> SUFFICES ASSUME kind = "metrics", Advance PROVE FALSE
          BY StreamsAssumption DEF IInv, Typed, TypeOK
        <5>1. ~Loose BY MetricsPlain
        <5> QED BY <3>4, <5>1, EndStays
      <4>4. ASSUME NEW p \in Procs, kind = "log", proc[p].at = "list" PROVE seq = Top + 1
        <5>1. Shipping(p) /\ Exact BY <1>1, <3>6 DEF IInv
        <5> QED BY <2>2, <4>4, <5>1 DEF Shipping
      <4>5. Fits(seq, from)' <=> Fits(state["orig"].next, state["orig"].to)' OBVIOUS
      <4>6. ASSUME NEW a \in Nat, NEW b, a = seq, b = from PROVE Fits(a, b)'
        <5>1. Fits(a, b) BY <4>1, <4>6
        <5> QED BY <4>2, <4>3, <4>4, <4>6, <5>1, FitsStays
      <4>7. seq' = seq /\ from' = from BY <2>3
      <4> HIDE DEF seq, from
      <4>8. PICK a, b : a = seq /\ b = from OBVIOUS
      <4>9. Fits(a, b)' BY <3>2, <4>6, <4>8
      <4>10. a = seq' /\ b = from' BY <4>7, <4>8
      <4> QED BY <4>9, <4>10 DEF Fits
    <3>7. Exact' /\ Still' => seq = Top' + 1 /\ ~Loose'
      BY <1>1, <3>3, <3>4, EndStays
    <3> QED BY <2>3, <3>5, <3>6, <3>7
  <2>4. CASE state'["orig"] # state["orig"]
    <3>1. \/ \E p \in Procs : copyOf[p] = "orig" /\ Ship(p)
          \/ \E p \in Procs : copyOf[p] = "orig" /\ Upload(p) /\ ~There(Name(proc[p].obj))
      BY <1>0, <2>1, <2>4, StatesMove
    <3>2. ASSUME NEW seq, NEW from, seq = Top' + 1, from = Shown',
                 state'["orig"].next = seq, state'["orig"].to = from
          PROVE  Fits(state["orig"].next, state["orig"].to)'
      BY <3>2, FitsNext DEF Fits
    <3>3. ASSUME NEW p \in Procs, copyOf[p] = "orig", Ship(p)
          PROVE  /\ state'["orig"].next = Top' + 1 /\ state'["orig"].to = Shown'
                 /\ Exact' /\ Still' => ~Loose'
      <4>1. PICK held \in Held :
               /\ IF KnownAt("orig") THEN held = state["orig"]
                                     ELSE held = [to |-> Shown, next |-> Top + 1]
               /\ file["orig"] <= held.to \/ (kind = "log" /\ proc[p].size <= held.to)
               /\ state'["orig"] = held
        BY <2>1, <3>3, ShipIs
      <4>2. held = [to |-> Shown, next |-> Top + 1] BY <2>4, <4>1
      <4>3. objs' = objs /\ flight' = flight /\ proc[p].at = "ship" BY <3>3, ShipIs
      <4>4. Top' = Top /\ Shown' = Shown BY <4>3 DEF Top, Shown
      <4>5. ASSUME Exact', Still', NEW l \in LateOnes("create", FALSE)', l.last = Top' + 1
            PROVE  FALSE
        <5>1. l \in LateOnes("create", FALSE) BY <4>3 DEF LateOnes
        <5>2. l \in Segments /\ l \in Objects BY <5>1, RequestsTyped DEF Segments
        <5>3. SegmentOK(l) BY <5>2 DEF IInv, Requested
        <5>4. l.from \in Nat /\ l.to \in Nat BY <5>2, ObjectIs
        <5>5. Shown < l.to /\ l.to <= file["orig"]
          BY <1>1, <1>2, <4>4, <4>5, <5>3, <5>4 DEF SegmentOK
        <5>6. kind = "log" => l.to <= proc[p].size
          <6>1. Shipping(p) BY DEF IInv
          <6> QED BY <1>1, <2>2, <4>3, <4>5, <5>1, <6>1 DEF Shipping
        <5>7. proc[p].size \in Nat BY <1>0 DEF ProcType
        <5>8. held.to = Shown BY <4>2
        <5> QED BY <1>1, <1>2, <4>1, <5>4, <5>5, <5>6, <5>7, <5>8
      <4>6. Exact' /\ Still' => ~Loose' BY <4>5 DEF Loose
      <4>7. state'["orig"] = [to |-> Shown, next |-> Top + 1] BY <4>1, <4>2
      <4>8. state'["orig"].next = Top + 1 /\ state'["orig"].to = Shown BY <4>7
      <4> QED BY <4>4, <4>6, <4>8
    <3>4. CASE \E p \in Procs : copyOf[p] = "orig" /\ Ship(p)
      <4>1. /\ state'["orig"].next = Top' + 1 /\ state'["orig"].to = Shown'
            /\ Exact' /\ Still' => ~Loose'
        BY <3>3, <3>4
      <4>2. state'["orig"].next <= Top' + 1
        <5>1. PICK t : t = Top' OBVIOUS
        <5>2. t \in Int /\ state'["orig"].next = t + 1 BY <1>2, <4>1, <5>1
        <5>3. state'["orig"].next <= t + 1 BY <5>2
        <5> QED BY <5>1, <5>3
      <4>3. Fits(state["orig"].next, state["orig"].to)' BY <3>2, <4>1
      <4> QED BY <4>1, <4>2, <4>3
    <3>5. CASE \E p \in Procs : copyOf[p] = "orig" /\ Upload(p) /\ ~There(Name(proc[p].obj))
      <4>1. PICK p \in Procs : copyOf[p] = "orig" /\ Upload(p) /\ ~There(Name(proc[p].obj)) BY <3>5
      <4> DEFINE o == proc[p].obj
      <4>0. /\ state'[copyOf[p]] = [to |-> o.to, next |-> o.last + 1] /\ o.last <= Top'
            /\ Exact => Top' = o.last /\ Shown' = o.to /\ ~Loose'
            /\ o \in Objects
        BY <4>1, UploadIs
      <4>2. /\ state'["orig"].to = o.to /\ state'["orig"].next = o.last + 1 /\ o.last <= Top'
            /\ Exact => Top' = o.last /\ Shown' = o.to /\ ~Loose'
            /\ o \in Objects
        <5>1. state'["orig"] = [to |-> o.to, next |-> o.last + 1] BY <4>0, <4>1
        <5>2. state'["orig"].to = o.to /\ state'["orig"].next = o.last + 1 BY <5>1
        <5> QED BY <4>0, <5>2
      <4>3. o.last \in Nat BY <4>2, ObjectIs
      <4>4. Exact' => Fits(state["orig"].next, state["orig"].to)'
        BY <1>1, <3>2, <4>2
      <4> QED BY <1>1, <1>2, <4>2, <4>3, <4>4
    <3> QED BY <3>1, <3>4, <3>5
  <2> QED BY <2>3, <2>4
<1> QED BY <1>4, <1>5 DEF Stated

\* While a process is at an upload of metrics, no other segment arrives.
LEMMA PutWaits ==
    ASSUME IInv, Next, kind = "metrics", NEW p \in Procs, proc[p].at = "put", proc'[p] = proc[p]
    PROVE  ~Advance
<1> SUFFICES ASSUME Advance PROVE FALSE
  OBVIOUS
<1>0. proc \in [Procs -> ProcType] BY DEF IInv, Typed
<1>1. PICK o \in Segments : Added(o) BY DEF Advance
<1>2. ~o.merged /\ o \in objs' /\ o \notin objs
  BY <1>1 DEF Added, IInv, Requested, SegmentOK
<1>3. ASSUME NEW q \in Procs, Step(q) \/ GiveUp(q) \/ Compact(q) \/ Fail(q) \/ Restart(q) \/ Adopt(q)
      PROVE  FALSE
  <2>1. Upload(q) \/ MergeCreate(q) \/ Delete(q) \/ Replace(q) \/ Fail(q)
    BY <1>2, <1>3 DEF Step, Sync, Lock, Ship, MergeList, MergeGet, Plan, RollUp, Build,
          ShipIndexed, Seal, GiveUp, Compact, Restart, Adopt
  <2>2. Fail(q) => Requests(q) # {} BY <1>2 DEF Fail, Outcome
  <2>3. proc[q].at \in Locked
    BY <2>1, <2>2 DEF Upload, MergeCreate, Delete, Replace, Requests, Locked
  <2>4. q = p BY <2>3, Exclusive DEF Locked
  <2>5. Upload(p) \/ Fail(p) BY <2>1, <2>4 DEF MergeCreate, Delete, Replace
  <2>6. \A at : Set(p, Rest(at)) => proc'[p].at = at BY <1>0 DEF Set, Rest
  <2>7. ~Fail(p) BY <2>6 DEF Fail
  <2>8. Upload(p) => ~There(Name(proc[p].obj)) BY <1>2 DEF Upload
  <2>9. Upload(p) => Shipped(p, proc[p].obj.last, proc[p].obj.to) BY <2>8 DEF Upload
  <2> QED BY <2>5, <2>7, <2>9, ShippedIs
<1>4. ~Far
  <2>1. ~FarCreate
    <3>1. FarCreate => o = far.obj BY <1>2 DEF FarCreate, Landed
    <3>2. FarCreate => far.obj \in Merges BY DEF FarCreate, Merges
    <3> QED BY <1>2, <3>1, <3>2 DEF IInv, Requested, MergeOK
  <2> QED BY <1>2, <2>1 DEF Far, FarList, FarGet, FarDelete
<1>5. ~Land BY MetricsPlain DEF Land
<1> QED BY <1>2, <1>3, <1>4, <1>5 DEF Next, Append, Finish, CopyRecord, ReadList, ReadGet, ReadEnd, OnlyRead

\* An upload goes on to fit.
LEMMA PutStays ==
    ASSUME IInv, Next, NEW p \in Procs, proc'[p].at = "put"
    PROVE  /\ ~KnownAt(copyOf[p])'
           /\ owns' = {"copy"} => proc'[p].obj.to = file'["copy"]
           /\ Exact' => Fits(proc[p].obj.last, proc[p].obj.from)'
<1>0. /\ copyOf' = copyOf /\ kind' = kind /\ (Exact' => Exact) /\ kind \in {"log", "metrics"}
      /\ proc \in [Procs -> ProcType] /\ file \in [Copies -> Nat]
      /\ state \in [Copies -> Held \cup {NoState, INDEXED}]
  BY FrameIs, StreamsAssumption DEF IInv, Typed, TypeOK
<1>1. CASE proc'[p] = proc[p]
  <2>1. Shipping(p) /\ proc[p].at = "put" BY <1>1 DEF IInv
  <2>2. /\ owns' = owns /\ owns = {copyOf[p]} /\ state'[copyOf[p]] = state[copyOf[p]]
        /\ file'[copyOf[p]] = file[copyOf[p]] \/ copyOf[p] = "orig"
    BY <1>1, <2>1, Bystander DEF Locked
  <2>3. ~KnownAt(copyOf[p])' BY <1>0, <2>1, <2>2 DEF Shipping, KnownAt
  <2>4. owns' = {"copy"} => proc'[p].obj.to = file'["copy"]
    BY <1>1, <2>1, <2>2 DEF Shipping
  <2>5. ASSUME Exact', NEW a, NEW b, a = proc[p].obj.last, b = proc[p].obj.from
        PROVE  Fits(a, b)'
    <3>1. Fits(a, b) BY <1>0, <2>1, <2>5 DEF Shipping
    <3>2. a \in Nat BY <1>0, <2>5, ObjectIs DEF ProcType
    <3>3. \A q \in Procs : proc[q].at \notin {"replace", "list"} BY <2>1, Exclusive DEF Locked
    <3>4. ~Swap BY <3>3 DEF Swap
    <3>5. Advance => kind = "log" BY <1>0, <1>1, <2>1, PutWaits
    <3> QED BY <3>1, <3>2, <3>3, <3>4, <3>5, FitsStays
  <2>6. Exact' => Fits(proc[p].obj.last, proc[p].obj.from)'
    <3> SUFFICES ASSUME Exact' PROVE Fits(proc[p].obj.last, proc[p].obj.from)'
      OBVIOUS
    <3>1. PICK a, b : a = proc[p].obj.last /\ b = proc[p].obj.from OBVIOUS
    <3>2. Fits(a, b)' BY <2>5, <3>1
    <3>3. a = proc'[p].obj.last /\ b = proc'[p].obj.from BY <1>1, <3>1
    <3> QED BY <3>2, <3>3 DEF Fits
  <2> QED BY <2>3, <2>4, <2>6
<1>2. CASE proc'[p] # proc[p]
  <2> DEFINE c == copyOf[p]
  <2>1. Ship(p) BY <1>2, MovesTo
  <2>2. /\ c \in owns /\ owns = {c} /\ c \in Copies /\ objs' = objs /\ owns' = owns /\ file' = file
        /\ proc[p].at = "ship"
    BY <2>1, ShipIs
  <2>3. PICK held \in Held :
           /\ IF KnownAt(c) THEN held = state[c] ELSE held = [to |-> Shown, next |-> Top + 1]
           /\ file[c] > held.to /\ state'[c] = NoState
           /\ proc'[p].obj = Segment(held.next, held.to, file[c])
    <3>1. ASSUME Shipped(p, -1, 0) PROVE FALSE
      BY <3>1, ShippedIs
    <3> QED BY <2>1, <3>1, ShipIs
  <2>4. ~KnownAt(c)' BY <1>0, <2>3 DEF KnownAt
  <2>5. proc'[p].obj.last = held.next /\ proc'[p].obj.from = held.to /\ proc'[p].obj.to = file[c]
    BY <2>3 DEF Segment
  <2>6. owns' = {"copy"} => proc'[p].obj.to = file'["copy"] BY <2>2, <2>5
  <2>7. ASSUME Exact', NEW a, NEW b, a = held.next, b = held.to PROVE Fits(a, b)'
    <3>1. CASE ~KnownAt(c)
      <4>1. held = [to |-> Shown, next |-> Top + 1] BY <2>3, <3>1
      <4>2. held.next = Top + 1 /\ held.to = Shown BY <4>1
      <4>3. Top' = Top /\ Shown' = Shown BY <2>2 DEF Top, Shown
      <4>4. a = Top' + 1 /\ b = Shown' BY <2>7, <4>2, <4>3
      <4> QED BY <4>4, FitsNext DEF Fits
    <3>2. CASE KnownAt(c)
      <4>1. held = state[c] BY <2>3, <3>2
      <4>2. c = "orig"
        <5> SUFFICES ASSUME c = "copy" PROVE FALSE
          BY <2>2 DEF Copies
        <5>1. state["copy"].to >= file["copy"]
          BY <2>2, <3>2 DEF IInv, Stated
        <5>2. held.to \in Nat /\ file["copy"] \in Nat BY <1>0, <2>2 DEF Held
        <5> QED BY <2>3, <4>1, <5>1, <5>2
      <4>3. Fits(a, b)
        BY <1>0, <2>2, <2>7, <3>2, <4>1, <4>2 DEF IInv, Stated
      <4>4. a \in Nat BY <2>7 DEF Held
      <4>5. \A q \in Procs : proc[q].at \notin {"replace", "list"} BY <2>2, Exclusive DEF Locked
      <4>6. ~Swap BY <4>5 DEF Swap
      <4>7. ~Advance BY <2>2 DEF Advance, Added
      <4> QED BY <4>3, <4>4, <4>5, <4>6, <4>7, FitsStays
    <3> QED BY <3>1, <3>2
  <2>8. Exact' => Fits(proc[p].obj.last, proc[p].obj.from)'
    <3> SUFFICES ASSUME Exact' PROVE Fits(proc[p].obj.last, proc[p].obj.from)'
      OBVIOUS
    <3>1. PICK a, b : a = held.next /\ b = held.to OBVIOUS
    <3>2. Fits(a, b)' BY <2>7, <3>1
    <3>3. a = proc'[p].obj.last /\ b = proc'[p].obj.from BY <2>5, <3>1
    <3> QED BY <3>2, <3>3 DEF Fits
  <2> QED BY <1>0, <2>4, <2>6, <2>8
<1> QED BY <1>1, <1>2

\* The size that was read is that of a file that holds all that may land late.
LEMMA SizesStay ==
    ASSUME IInv, Next, NEW p \in Procs, kind = "log", proc'[p].at \in {"lock", "ship", "put"}
    PROVE  /\ owns' = {"copy"} => proc'[p].size = file'["copy"]
           /\ owns' = {"orig"} /\ Still' =>
                 \A o \in LateOnes("create", FALSE)' : o.to <= proc'[p].size
<1>0. /\ copyOf' = copyOf /\ (Still' <=> Still) /\ proc \in [Procs -> ProcType]
      /\ file \in [Copies -> Nat] /\ Shipping(p) /\ Owned
  BY FrameIs DEF IInv, Typed, TypeOK
<1>1. \/ proc[p].at \in {"lock", "ship", "put"} /\ proc'[p].size = proc[p].size
      \/ Sync(p)
  <2>1. CASE proc'[p] = proc[p] BY <2>1
  <2>2. CASE proc'[p] # proc[p]
    <3>1. Sync(p) \/ Lock(p) \/ Upload(p) \/ Ship(p) BY <2>2, MovesTo
    <3>2. \A r : Set(p, r) => proc'[p] = r BY <1>0 DEF Set
    <3>3. CASE Lock(p)
      BY <1>0, <3>2, <3>3 DEF Lock, Go, ProcType
    <3>4. CASE Upload(p)
      <4>1. There(Name(proc[p].obj))
        <5>1. ~There(Name(proc[p].obj)) => Shipped(p, proc[p].obj.last, proc[p].obj.to)
          BY <3>4 DEF Upload
        <5> QED BY <5>1, ShippedIs
      <4>2. proc[p].at = "put" BY <3>4 DEF Upload
      <4>3. Set(p, Rest("idle")) \/ Set(p, [proc[p] EXCEPT !.at = "ship", !.tries = @ + 1])
        BY <3>4, <4>1 DEF Upload
      <4>4. ~Set(p, Rest("idle")) BY <3>2 DEF Rest
      <4> QED BY <1>0, <3>2, <4>2, <4>3, <4>4 DEF ProcType
    <3>5. CASE Ship(p)
      <4>1. ~Shipped(p, -1, 0) BY ShippedIs
      <4> QED BY <3>5, <4>1, ShipIs
    <3> QED BY <3>1, <3>3, <3>4, <3>5
  <2> QED BY <2>1, <2>2
<1>2. CASE Sync(p)
  <2>1. /\ proc'[p].size = file[copyOf[p]] /\ copyOf[p] \in owns /\ owns' = owns /\ file' = file
        /\ flight' = flight
    <3>1. \A r : Set(p, r) => proc'[p] = r BY <1>0 DEF Set
    <3> QED BY <1>2, <3>1 DEF Sync, Rest, copyVars, otherVars
  <2>2. owns = {copyOf[p]} BY <1>0, <2>1 DEF Owned
  <2>3. ASSUME NEW o \in LateOnes("create", FALSE)' PROVE o.to <= file["orig"]
    <3>1. o \in Segments BY <2>1 DEF LateOnes, Segments
    <3> QED BY <3>1 DEF IInv, Requested, SegmentOK
  <2> QED BY <2>1, <2>2, <2>3
<1>3. CASE proc[p].at \in {"lock", "ship", "put"} /\ proc'[p].size = proc[p].size
  <2>1. owns' = owns /\ owns = {copyOf[p]} BY <1>3, OwnersStay, WorksFor
  <2>2. owns = {"copy"} => file'["copy"] = file["copy"]
    BY <2>1, OwnerFile
  <2>3. ASSUME owns = {"orig"}, Still, NEW o \in LateOnes("create", FALSE)'
        PROVE  o.to <= proc[p].size
    <3>1. CASE o \in LateOnes("create", FALSE) BY <1>0, <1>3, <2>3, <3>1 DEF Shipping
    <3>2. CASE o \notin LateOnes("create", FALSE)
      <4>1. PICK q \in Procs : proc[q].at = "put" /\ kind \in Late /\ proc'[q].at \in {"idle", "dead"}
        BY <3>2, NewLate
      <4>2. copyOf[q] = copyOf[p] BY <2>1, <4>1, WorksFor
      <4>3. q = p BY <2>3, <4>1, <4>2 DEF Still
      <4> QED BY <4>1, <4>3
    <3> QED BY <3>1, <3>2
  <2> QED BY <1>0, <1>3, <2>1, <2>2, <2>3 DEF Shipping
<1> QED BY <1>1, <1>2, <1>3

\* While a log is merged, its ship state stays exact.
LEMMA MergingStays ==
    ASSUME IInv, Next, NEW p \in Procs, kind = "log", Exact', owns' = {"orig"},
           proc'[p].at \in {"list", "get", "create", "delete"}
    PROVE  KnownAt("orig")' /\ state'["orig"].next = Top' + 1 /\ ~Loose'
<1>0. /\ copyOf' = copyOf /\ Exact /\ (Still' <=> Still) /\ proc \in [Procs -> ProcType]
      /\ state \in [Copies -> Held \cup {NoState, INDEXED}] /\ Shipping(p) /\ Working(p)
      /\ kind # "metrics"
  BY FrameIs DEF IInv, Typed, TypeOK
<1>1. owns' = owns /\ owns = {"orig"} BY OwnersStay
<1>2. \/ /\ proc[p].at \in {"list", "get", "create", "delete"}
         /\ state'["orig"] = state["orig"]
      \/ proc'[p].at = "list" /\ (Ship(p) \/ Upload(p))
  <2>1. CASE proc'[p] = proc[p]
    <3>1. proc[p].at \in {"list", "get", "create", "delete"} /\ proc[p].at \in Locked
      BY <2>1 DEF Locked
    <3>2. copyOf[p] = "orig" BY <1>1, <3>1, WorksFor
    <3>3. state'[copyOf[p]] = state[copyOf[p]] BY <2>1, <3>1, Bystander
    <3> QED BY <3>1, <3>2, <3>3
  <2>2. CASE proc'[p] # proc[p]
    <3>1. \/ proc'[p].at = "list" /\ (Ship(p) \/ Upload(p))
          \/ MergeList(p) \/ MergeGet(p) \/ RollUp(p) \/ MergeCreate(p) \/ Replace(p)
      BY <2>2, MovesTo
    <3>2. ~RollUp(p) /\ ~Replace(p) BY <1>0 DEF RollUp, Replace, Working
    <3> QED BY <3>1, <3>2 DEF MergeList, MergeGet, MergeCreate
  <2> QED BY <2>1, <2>2
<1>3. CASE proc[p].at \in {"list", "get", "create", "delete"} /\ state'["orig"] = state["orig"]
  <2>1. KnownAt("orig") /\ state["orig"].next = Top + 1 /\ ~Loose
    BY <1>0, <1>1, <1>3 DEF Shipping
  <2>2. \A q \in Procs : proc[q].at \notin {"put", "replace"} BY <1>3, Exclusive DEF Locked
  <2>3. Top' = Top /\ ~Loose' BY <2>1, <2>2, EndStays
  <2> QED BY <1>3, <2>1, <2>3 DEF KnownAt
<1>4. CASE proc'[p].at = "list" /\ Ship(p)
  <2>1. copyOf[p] = "orig" /\ "orig" \in Copies BY <1>1, <1>4, ShipIs
  <2>2. Shipped(p, -1, 0) /\ \E held \in Held : state'["orig"] = held
    BY <1>4, <2>1, ShipIs
  <2>3. finished
    <3>1. ~Due(-1) BY DEF Due
    <3> QED BY <1>4, <2>2, <3>1, ShippedIs
  <2>4. Still BY <1>0, <2>3 DEF Exact, Still
  <2>5. KnownAt("orig")'
    <3>1. PICK held \in Held : state'["orig"] = held BY <2>2
    <3>2. held.next \in Nat /\ NoState.next = -1 /\ INDEXED.next = -1 BY DEF Held, NoState, INDEXED
    <3> QED BY <3>1, <3>2 DEF KnownAt
  <2> QED BY <1>0, <2>4, <2>5, StatedStays DEF Stated
<1>5. CASE proc'[p].at = "list" /\ Upload(p)
  <2>1. ~There(Name(proc[p].obj))
    <3> SUFFICES ASSUME There(Name(proc[p].obj)) PROVE FALSE
      OBVIOUS
    <3>1. \A r : Set(p, r) => proc'[p] = r BY <1>0 DEF Set
    <3>2. Set(p, Rest("idle")) \/ Set(p, [proc[p] EXCEPT !.at = "ship", !.tries = @ + 1])
      BY <1>5 DEF Upload
    <3>3. ~Set(p, Rest("idle")) BY <1>5, <3>1 DEF Rest
    <3>4. ~Set(p, [proc[p] EXCEPT !.at = "ship", !.tries = @ + 1]) BY <1>0, <1>5, <3>1 DEF ProcType
    <3> QED BY <3>2, <3>3, <3>4
  <2> DEFINE o == proc[p].obj
  <2>2. /\ owns = {copyOf[p]} /\ state'[copyOf[p]] = [to |-> o.to, next |-> o.last + 1]
        /\ KnownAt(copyOf[p])' /\ Top' = o.last /\ ~Loose'
    BY <1>0, <1>5, <2>1, UploadIs
  <2>3. copyOf[p] = "orig" BY <1>1, <2>2
  <2>4. state'["orig"] = [to |-> o.to, next |-> o.last + 1] BY <2>2, <2>3
  <2>5. state'["orig"].next = o.last + 1 BY <2>4
  <2> QED BY <1>0, <2>2, <2>3, <2>5 DEF KnownAt
<1> QED BY <1>2, <1>3, <1>4, <1>5

\* A ship, and the merge of a log, go on as they must.
LEMMA ShippingStays ==
    ASSUME IInv, Next, NEW p \in Procs
    PROVE  Shipping(p)'
<1>1. kind' = kind BY FrameIs
<1> QED BY <1>1, PutStays, SizesStay, MergingStays DEF Shipping
-----------------------------------------------------------------------------
(***************************************************************************)
(* Compactions of metrics, and their readers.                              *)
(***************************************************************************)

\* A compaction of the whole stream is all there is to see.
LEMMA FinalIs ==
    ASSUME IInv, Final
    PROVE  \E m \in objs : m.merged /\ ~m.resume /\ m.last = Top /\ Visible(objs) = {m}
<1>0. Sound(objs) BY DEF IInv, OnRemote
<1>1. PICK m \in objs : m.merged /\ ~m.resume /\ m.last = Top BY DEF Final
<1>2. objs \in SUBSET Objects /\ IsFiniteSet(objs) BY <1>0 DEF Sound
<1>3. \A o \in objs : o.last <= Top /\ o.last \in Nat BY <1>2, LastSeqIs, ObjectIs DEF Top
<1>4. \A o \in objs : o.merged /\ o.last = Top => o = m
  <2> SUFFICES ASSUME NEW o \in objs, o.merged, o.last = Top PROVE o = m
    OBVIOUS
  <2>1. o \in Objects /\ m \in Objects BY <1>2
  <2>2. Name(o) = Name(m)
    <3>1. (o.merged <=> m.merged) /\ o.last = m.last BY <1>1
    <3> QED BY <2>1, <3>1, ObjectIs
  <2> QED BY <1>0, <2>2 DEF Sound
<1>5. m \in Visible(objs) BY <1>1, <1>3, <1>4 DEF Visible, Hides
<1>6. \A o \in Visible(objs) : o = m BY <1>1, <1>3 DEF Visible, Hides
<1> QED BY <1>1, <1>5, <1>6

\* Where the metrics were compacted as a whole, no ship goes on.
LEMMA FinalStops ==
    ASSUME IInv, Final, kind = "metrics", NEW p \in Procs
    PROVE  ~Ship(p)
<1> SUFFICES ASSUME Ship(p) PROVE FALSE
  OBVIOUS
<1>1. copyOf[p] \in owns /\ ~Unresumable(p) BY ShipIs
<1>2. ~KnownAt(copyOf[p]) BY <1>1 DEF Final
<1> QED BY <1>1, <1>2, FinalIs DEF Unresumable, Known, KnownAt

\* A replaced object is all there is to see.
LEMMA SwapIs ==
    ASSUME IInv, NEW p \in Procs, proc[p].at = "replace", Put(proc[p].obj)
    PROVE  Swap
<1>0. /\ Sound(objs) /\ Replacing(p) /\ Working(p) /\ Owned /\ kind = "metrics"
  BY DEF IInv, OnRemote, Working
<1>1. proc[p].obj \in Objects BY RequestsTyped
<1>2. Shown <= proc[p].obj.to BY <1>0 DEF Replacing, Working, Owned
<1>3. /\ LastSeq(objs') = proc[p].obj.last /\ End(Visible(objs')) = proc[p].obj.to
      /\ Visible(objs') = {proc[p].obj}
  BY <1>0, <1>1, <1>2, PutMerged DEF Replacing, Put, Top, Shown
<1> QED BY <1>3 DEF Swap

\* A replacement is a compaction of the whole stream.
LEMMA SwapFinal ==
    ASSUME IInv, Next, Swap
    PROVE  Final' /\ kind = "metrics"
<1>1. PICK p \in Procs : /\ proc[p].at = "replace" /\ Put(proc[p].obj)
                         /\ LastSeq(objs') = proc[p].obj.last
  BY DEF Swap
<1>2. /\ Replacing(p) /\ kind = "metrics" /\ copyOf' = copyOf /\ "replace" \in Locked
  BY <1>1, FrameIs DEF IInv, Working, Locked
<1>3. proc[p].obj \in objs' /\ proc[p].obj.merged /\ ~proc[p].obj.resume /\ proc[p].obj.last = Top'
  BY <1>1, <1>2 DEF Put, Replacing, Top
<1>4. \A q \in Procs : proc[q].at \notin {"ship", "put"}
  BY <1>1, Exclusive DEF Locked
<1>5. owns = {copyOf[p]} /\ copyOf[p] \in Copies /\ owns' = owns
  BY <1>1, WorksFor, OwnersStay
<1>6. \A c \in owns' : ~KnownAt(c)'
  <2>1. CASE state'[copyOf[p]] = state[copyOf[p]]
    BY <1>1, <1>2, <1>5, <2>1 DEF Replacing, KnownAt
  <2>2. CASE state'[copyOf[p]] # state[copyOf[p]]
    <3>1. \A q \in Procs : ~Ship(q) /\ ~Upload(q) BY <1>4 DEF Ship, Upload
    <3>2. CopyRecord => copyOf[p] # "copy" BY <1>5 DEF CopyRecord
    <3>3. state'[copyOf[p]] \in {NoState, INDEXED} BY <1>5, <2>2, <3>1, <3>2, StatesMove
    <3> QED BY <1>5, <3>3 DEF KnownAt
  <2> QED BY <2>1, <2>2
<1>7. \A q \in Procs : proc'[q].at # "put"
  <2> SUFFICES ASSUME NEW q \in Procs, proc'[q].at = "put" PROVE FALSE
    OBVIOUS
  <2>1. proc'[q] # proc[q] BY <1>4
  <2>2. Ship(q) BY <2>1, MovesTo
  <2> QED BY <1>4, <2>2 DEF Ship
<1> QED BY <1>2, <1>3, <1>6, <1>7 DEF Final

\* Metrics that were compacted as a whole stay so.
LEMMA FinalStays ==
    ASSUME IInv, Next, Final, kind = "metrics"
    PROVE  Final' /\ Top' = Top
<1>0. Sound(objs) /\ objs \in SUBSET Objects /\ IsFiniteSet(objs) /\ copyOf' = copyOf
  BY FrameIs DEF IInv, OnRemote, Sound
<1>1. PICK m \in objs : m.merged /\ ~m.resume /\ m.last = Top BY FinalIs
<1>2. (Top' = Top /\ Shown' = Shown) \/ Advance \/ Swap BY RemoteGrows
<1>3. ~Advance
  <2>1. Segments = {} BY MetricsPlain DEF Segments, AtWork, Final
  <2> QED BY <2>1 DEF Advance
<1>4. CASE Swap
  <2>1. PICK p \in Procs : proc[p].at = "replace" /\ LastSeq(objs') = proc[p].obj.last
    BY <1>4 DEF Swap
  <2>2. proc[p].obj.last = Top BY <1>1, <2>1 DEF IInv, Replacing
  <2> QED BY <1>4, <2>1, <2>2, SwapFinal DEF Top
<1>5. CASE ~Swap
  <2>1. Top' = Top BY <1>2, <1>3, <1>5
  <2>2. m \in objs'
    <3>1. CASE objs' = objs BY <3>1
    <3>2. ASSUME NEW o, Added(o) PROVE m \in objs' BY <3>2 DEF Added
    <3>3. ASSUME NEW p \in Procs, proc[p].at = "replace", Put(proc[p].obj) PROVE FALSE
      BY <1>5, <3>3, SwapIs
    <3>4. ASSUME NEW k \in BOOLEAN \X Nat, Gone(k) PROVE m \in objs'
      <4>1. PICK x \in objs : x.merged /\ (IF k[1] THEN k[2] < x.last ELSE k[2] <= x.last)
        BY <3>4 DEF Gone, Doomed
      <4>2. x.last <= Top /\ x.last \in Nat /\ m \in Objects /\ m.last \in Nat
        BY <1>0, LastSeqIs, ObjectIs DEF Top
      <4>3. Name(m) = k => k[1] /\ k[2] = Top
        <5>1. <<m.merged, m.last>>[1] = m.merged /\ <<m.merged, m.last>>[2] = m.last OBVIOUS
        <5> QED BY <1>1, <5>1, Zenon DEF Name
      <4>4. Name(m) # k BY <1>1, <4>1, <4>2, <4>3
      <4> QED BY <3>4, <4>4 DEF Gone
    <3> QED BY <3>1, <3>2, <3>3, <3>4, EffectIs DEF Effect
  <2>3. \A c \in owns' : ~KnownAt(c)'
    <3>1. CASE owns' # owns
      BY <3>1, OwnersStay DEF KnownAt
    <3>2. CASE owns' = owns
      <4> SUFFICES ASSUME NEW c \in owns PROVE ~KnownAt(c)'
        BY <3>2
      <4>1. ~KnownAt(c) /\ c \in Copies BY DEF Final, IInv, Typed, TypeOK
      <4>2. \A q \in Procs : ~Ship(q) BY FinalStops
      <4>3. \A q \in Procs : ~Upload(q) BY DEF Final, Upload
      <4>4. CopyRecord => c # "copy" BY DEF CopyRecord
      <4>5. state'[c] = state[c] \/ state'[c] \in {NoState, INDEXED}
        BY <4>1, <4>2, <4>3, <4>4, StatesMove
      <4> QED BY <4>1, <4>5 DEF KnownAt
    <3> QED BY <3>1, <3>2
  <2>4. \A q \in Procs : proc'[q].at # "put"
    <3> SUFFICES ASSUME NEW q \in Procs, proc'[q].at = "put" PROVE FALSE
      OBVIOUS
    <3>1. proc'[q] # proc[q] BY DEF Final
    <3>2. Ship(q) BY <3>1, MovesTo
    <3> QED BY <3>2, FinalStops
  <2> QED BY <1>1, <2>1, <2>2, <2>3, <2>4 DEF Final
<1> QED BY <1>4, <1>5

\* Objects that are the same stay so.
LEMMA SameStays ==
    ASSUME IInv, Next, kind = "metrics", NEW o, NEW q, Same(o, q)
    PROVE  Same(o, q)'
BY FinalStays DEF Same

\* An object that is there after a step, and was not before.
LEMMA NewObject ==
    ASSUME IInv, Next, kind = "metrics", NEW q \in objs', q \notin objs
    PROVE  \/ q \in Segments /\ Added(q) /\ ~q.merged /\ q.last = Top + 1
           \/ q \in Merges /\ Added(q) /\ q.merged /\ q.from = 0
           \/ Swap /\ q.merged /\ q.from = 0 /\ q.last = Top' /\ q.to = Shown'
<1>1. ASSUME NEW o \in Segments, Added(o)
      PROVE  q \in Segments /\ Added(q) /\ ~q.merged /\ q.last = Top + 1
  <2>1. q = o BY <1>1 DEF Added
  <2>2. ~o.merged BY DEF IInv, Requested, SegmentOK
  <2>3. PICK p \in Procs : proc[p].at = "put" /\ o = proc[p].obj
    BY MetricsPlain DEF Segments, AtWork
  <2>4. Fits(o.last, o.from) BY <2>3, MetricsPlain DEF IInv, Shipping
  <2> QED BY <1>1, <2>1, <2>2, <2>4 DEF Fits
<1>2. ASSUME NEW o \in Merges, Added(o)
      PROVE  q \in Merges /\ Added(q) /\ q.merged /\ q.from = 0
  BY <1>2 DEF Added, IInv, Requested, MergeOK
<1>3. ASSUME NEW p \in Procs, proc[p].at = "replace", Put(proc[p].obj)
      PROVE  Swap /\ q.merged /\ q.from = 0 /\ q.last = Top' /\ q.to = Shown'
  <2>1. q = proc[p].obj BY <1>3 DEF Put
  <2>2. Swap BY <1>3, SwapIs
  <2>3. Replacing(p) BY DEF IInv
  <2>4. PICK r \in Procs : /\ proc[r].at = "replace" /\ LastSeq(objs') = proc[r].obj.last
                           /\ End(Visible(objs')) = proc[r].obj.to
    BY <2>2 DEF Swap
  <2>5. r = p BY <1>3, <2>4, Exclusive DEF Locked
  <2> QED BY <1>3, <2>1, <2>2, <2>3, <2>4, <2>5 DEF Replacing, Top, Shown
<1>4. ~ \E k \in BOOLEAN \X Nat : Gone(k) BY DEF Gone
<1> QED BY <1>1, <1>2, <1>3, <1>4, EffectIs DEF Effect

\* Where a merge is begun, the metrics were not compacted as a whole.
LEMMA NewMergeLive ==
    ASSUME IInv, Next, kind = "metrics", NEW o \in Merges', o \notin Merges
    PROVE  ~Final
BY NewMergeIs, FinalIs

\* Requests for merged objects agree with each other and with what is there.
LEMMA AgreedStays ==
    ASSUME IInv, Next
    PROVE  Agreed'
<1>0. kind' = kind BY FrameIs
<1> SUFFICES ASSUME kind = "metrics" PROVE Agreed'
  BY <1>0 DEF Agreed
<1>1. Sound(objs) /\ objs \subseteq Objects /\ Agreed BY DEF IInv, OnRemote, Sound
<1>2. \A o \in Merges' : o \in Objects /\ o.merged /\ o.from = 0 /\ o.last \in Nat
  BY MergesStay, ObjectIs DEF MergeOK
<1>3. \A o \in Merges : o \in Objects /\ o.merged /\ o.from = 0 /\ o.last \in Nat
  BY RequestsTyped, ObjectIs DEF IInv, Requested, MergeOK
<1>4. ASSUME NEW o \in Merges', NEW q \in objs', q.merged, q.last = o.last PROVE Same(o, q)'
  <2>1. CASE o \in Merges /\ q \in objs
    BY <1>1, <1>4, <2>1, SameStays DEF Agreed
  <2>2. CASE o \in Merges /\ q \notin objs
    <3>1. CASE q \in Merges
      BY <1>1, <1>3, <1>4, <2>2, <3>1 DEF Agreed, Same
    <3>2. CASE Swap /\ q.last = Top'
      BY <1>2, <1>4, <3>2, SwapFinal DEF Same
    <3> QED BY <1>4, <2>2, <3>1, <3>2, NewObject
  <2>3. CASE o \notin Merges
    <3>1. objs' = objs /\ \E x \in Visible(objs) : x.last = o.last /\ x.to = o.to
      BY <2>3, NewMergeIs
    <3>2. PICK x \in Visible(objs) : x.last = o.last /\ x.to = o.to BY <3>1
    <3>3. x \in objs /\ q \in objs /\ x \in Objects /\ q \in Objects BY <1>1, <3>1, <3>2 DEF Visible
    <3>4. x = q BY <1>2, <1>4, <3>2, <3>3 DEF Visible, Hides
    <3>5. q.from = 0 BY <1>1, <1>4, <3>3 DEF Sound
    <3> QED BY <1>2, <3>2, <3>4, <3>5 DEF Same
  <2> QED BY <2>1, <2>2, <2>3
<1>5. ASSUME NEW o \in Merges', NEW q \in Merges', q.last = o.last, o \notin Merges, q \in Merges
      PROVE  q.to = o.to
  <2>1. PICK x \in Visible(objs) : x.last = o.last /\ x.to = o.to BY <1>5, NewMergeIs
  <2>2. x \in objs /\ x \in Objects BY <1>1, <2>1 DEF Visible
  <2>3. CASE x.merged
    <3>1. Same(q, x) BY <1>1, <1>5, <2>1, <2>2, <2>3 DEF Agreed
    <3>2. ~Final BY <1>5, NewMergeLive
    <3> QED BY <2>1, <3>1, <3>2 DEF Same
  <2>4. CASE ~x.merged
    <3>1. ~Covers(objs, q.last) BY <1>1, <1>5, <2>1, <2>2, <2>4, VisibleIs
    <3>2. PICK y \in objs : ~y.merged /\ y.last = q.last /\ y.to = q.to
      BY <1>5, <3>1 DEF IInv, Requested, MergeOK
    <3>3. Name(y) = Name(x) BY <1>1, <1>5, <2>1, <2>2, <2>4, <3>2, ObjectIs
    <3> QED BY <1>1, <2>1, <2>2, <3>2, <3>3 DEF Sound
  <2> QED BY <2>3, <2>4
<1>6. ASSUME NEW o \in Merges', NEW q \in Merges', q.last = o.last PROVE q.to = o.to
  <2>1. CASE o \in Merges /\ q \in Merges BY <1>1, <1>6, <2>1 DEF Agreed
  <2>2. CASE o \notin Merges /\ q \in Merges BY <1>5, <1>6, <2>2
  <2>3. CASE o \in Merges /\ q \notin Merges BY <1>5, <1>6, <2>3
  <2>4. CASE o \notin Merges /\ q \notin Merges
    <3>1. PICK x \in Visible(objs) : x.last = o.last /\ x.to = o.to BY <2>4, NewMergeIs
    <3>2. PICK y \in Visible(objs) : y.last = q.last /\ y.to = q.to BY <2>4, NewMergeIs
    <3>3. x = y BY <1>1, <1>6, <3>1, <3>2, VisibleIs
    <3> QED BY <3>1, <3>2, <3>3
  <2> QED BY <2>1, <2>2, <2>3, <2>4
<1> QED BY <1>4, <1>6 DEF Agreed

\* What a reader has still to fetch is there as it was listed, or hidden by what
\* has the same entries.
LEMMA PendingStays ==
    ASSUME IInv, Next, kind = "metrics", NEW o \in Objects, Pending(o)
    PROVE  Pending(o)'
<1>0. /\ Sound(objs) /\ objs \subseteq Objects /\ Grown(objs, objs') /\ o.last \in Nat /\ o.to \in Nat
      /\ o.merged \in BOOLEAN
  BY RemoteMoves, ObjectIs DEF IInv, OnRemote, Sound
<1>1. /\ Top \in Int /\ Top' \in Int /\ Top <= Top' /\ Shown \in Nat /\ Shown' \in Nat
      /\ Shown <= Shown'
  BY RemoteGrows
<1>2. o.last <= Top' /\ o.to <= Shown' BY <1>0, <1>1 DEF Pending
<1>3. o.merged => o.from = 0 /\ Covers(objs', o.last)
  <2>1. o.last \in Int BY <1>0
  <2> QED BY <1>0, <2>1 DEF Pending, Grown
<1>4. ASSUME NEW q \in objs', Name(q) = Name(o)
      PROVE  Same(o, q)' /\ q.from = o.from /\ o.to <= q.to
  <2>1. CASE q \in objs BY <1>4, <2>1, SameStays DEF Pending
  <2>2. CASE q \notin objs
    <3>0. Sound(objs') BY RemoteMoves
    <3>1. q \in Objects BY <3>0 DEF Sound
    <3>2. (q.merged <=> o.merged) /\ q.last = o.last BY <1>4, <3>1, ObjectIs
    <3>3. CASE q.last = Top + 1 BY <1>0, <1>1, <3>2, <3>3 DEF Pending
    <3>4. CASE q \in Merges /\ Added(q) /\ q.merged
      <4>1. Same(o, q) BY <3>2, <3>4 DEF Pending
      <4>2. ~(Final /\ o.last = Top)
        <5> SUFFICES ASSUME Final, o.last = Top PROVE FALSE
          OBVIOUS
        <5>1. PICK m \in objs : m.merged /\ m.last = Top BY DEF Final
        <5>2. m \in Objects /\ (m.merged <=> q.merged) /\ m.last = q.last BY <1>0, <3>2, <3>4, <5>1
        <5>3. Name(m) = Name(q) BY <3>1, <5>2, ObjectIs
        <5> QED BY <3>4, <5>1, <5>3 DEF Added
      <4>3. q.from = o.from /\ q.to = o.to BY <4>1, <4>2 DEF Same
      <4> QED BY <1>0, <4>3 DEF Same
    <3>5. CASE Swap /\ q.merged /\ q.from = 0 /\ q.last = Top' /\ q.to = Shown'
      <4>1. Same(o, q)' BY <3>2, <3>5, SwapFinal DEF Same
      <4> QED BY <1>2, <1>3, <3>2, <3>5, <4>1
    <3> QED BY <2>2, <3>3, <3>4, <3>5, NewObject
  <2> QED BY <2>1, <2>2
<1>5. ASSUME NEW q \in Merges', o.merged, q.last = o.last PROVE Same(o, q)'
  <2>1. CASE q \in Merges BY <1>5, <2>1, SameStays DEF Pending
  <2>2. CASE q \notin Merges
    <3>1. PICK x \in Visible(objs) : x.last = q.last /\ x.to = q.to BY <2>2, NewMergeIs
    <3>2. q.from = 0 BY <2>2, NewMergeIs
    <3>3. ~Final BY <2>2, NewMergeLive
    <3>4. x \in objs /\ x \in Objects BY <1>0, <3>1 DEF Visible
    <3>5. x.merged
      <4>1. Covers(objs, x.last) BY <1>5, <3>1 DEF Pending
      <4> QED BY <1>0, <3>1, <3>4, <4>1, VisibleIs
    <3>6. Name(x) = Name(o)
      <4>1. (x.merged <=> o.merged) /\ x.last = o.last BY <1>5, <3>1, <3>5
      <4> QED BY <3>4, <4>1, ObjectIs
    <3>7. Same(o, x) BY <3>4, <3>6 DEF Pending
    <3>8. x.to = o.to BY <3>3, <3>7 DEF Same
    <3> QED BY <1>3, <1>5, <3>1, <3>2, <3>8 DEF Same
  <2> QED BY <2>1, <2>2
<1> QED BY <1>2, <1>3, <1>4, <1>5 DEF Pending

\* What is visible is whole, and a reader that lists it has it all to fetch.
LEMMA ListingIs ==
    ASSUME IInv, kind = "metrics", objs # {}
    PROVE  /\ \A o \in Visible(objs) : Pending(o)
           /\ Remaining(Visible(objs), 0, Shown)
<1>0. Sound(objs) /\ objs \subseteq Objects /\ Chained(objs) /\ Agreed
  BY MetricsPlain DEF IInv, OnRemote, Sound
<1>1. \A o \in Visible(objs) : o \in objs /\ o \in Objects /\ o.last \in Nat /\ o.merged \in BOOLEAN
  BY <1>0, ObjectIs DEF Visible
<1>2. ASSUME NEW o \in Visible(objs) PROVE Pending(o)
  <2>1. o.last <= Top /\ o.to <= Shown BY <1>0, TopIs DEF Top, Shown
  <2>2. o.merged => o.from = 0 /\ Covers(objs, o.last) BY <1>0, <1>1 DEF Sound, Covers
  <2>3. \A q \in objs : Name(q) = Name(o) => q = o BY <1>0, <1>1 DEF Sound
  <2>4. o.to \in Nat BY <1>1, ObjectIs
  <2>5. \A q \in objs : Name(q) = Name(o) => Same(o, q) /\ q.from = o.from /\ o.to <= q.to
    BY <2>3, <2>4 DEF Same
  <2>6. ASSUME NEW q \in Merges, o.merged, q.last = o.last PROVE Same(o, q)
    <3>1. Same(q, o) BY <1>0, <1>1, <2>6 DEF Agreed
    <3> QED BY <2>6, <3>1 DEF Same
  <2> QED BY <2>1, <2>2, <2>5, <2>6 DEF Pending
<1>3. ASSUME NEW o \in Visible(objs)
      PROVE  \/ o.from = 0 /\ \A q \in Visible(objs) : o.last <= q.last
             \/ \E q \in Visible(objs) : q.last + 1 = o.last /\ q.to = o.from
  <2>1. CASE o.merged
    <3>1. o.from = 0 BY <1>0, <1>1, <2>1 DEF Sound
    <3>2. \A q \in Visible(objs) : ~(q.last < o.last) BY <1>0, <2>1, VisibleIs
    <3> QED BY <1>1, <3>1, <3>2
  <2>2. CASE ~o.merged BY <1>0, <1>1, <2>2 DEF Chained
  <2> QED BY <1>1, <2>1, <2>2
<1>4. \A o, q \in Visible(objs) : o.last = q.last => o = q BY <1>0, VisibleIs
<1>5. Visible(objs) # {} /\ \E o \in Visible(objs) : o.to = Shown /\ \A q \in Visible(objs) : q.last <= o.last
  BY <1>0, TopIs DEF Shown
<1> QED BY <1>2, <1>3, <1>4, <1>5 DEF Remaining

\* A fetched object goes on where the reader is, and the rest where it ends.
LEMMA FetchIs ==
    ASSUME IInv, kind = "metrics", read.at = "get", NEW o \in read.todo,
           \A x \in read.todo : o.last <= x.last, NEW q \in objs, Name(q) = Name(o)
    PROVE  /\ q.from = read.upto
           /\ Remaining(read.todo \ {o}, q.to, read.base)
<1> DEFINE todo == read.todo
<1>0. /\ todo \subseteq Objects /\ read.base \in Nat /\ objs \subseteq Objects /\ Sound(objs)
      /\ Remaining(todo, read.upto, read.base) /\ (\A x \in todo : Pending(x))
  BY DEF IInv, Typed, TypeOK, OnRemote, Sound, Reading
<1>1. \A x \in todo : x.last \in Nat /\ x.to \in Nat BY <1>0, ObjectIs
<1>2. q.to \in Nat BY <1>0, ObjectIs
<1>3. o.from = read.upto BY <1>0, <1>1 DEF Remaining
<1>4. Same(o, q) /\ q.from = o.from /\ o.to <= q.to BY <1>0 DEF Pending
<1>5. \A x \in todo \ {o} : o.last < x.last BY <1>0, <1>1 DEF Remaining
<1>6. ASSUME NEW x \in todo \ {o}
      PROVE  \/ x.from = q.to /\ \A z \in todo \ {o} : x.last <= z.last
             \/ \E z \in todo \ {o} : z.last + 1 = x.last /\ z.to = x.from
  <2>1. PICK y \in todo : y.last + 1 = x.last /\ y.to = x.from
    <3>1. ~ \A z \in todo : x.last <= z.last BY <1>1, <1>5
    <3> QED BY <1>0, <3>1 DEF Remaining
  <2>2. CASE y # o BY <2>1, <2>2
  <2>3. CASE y = o
    <3>1. x.last <= Top /\ Top \in Int
      <4>1. Top \in Int BY <1>0, TopIs DEF Top
      <4> QED BY <1>0, <4>1 DEF Pending
    <3>2. o.last # Top BY <1>1, <2>1, <2>3, <3>1
    <3>3. q.to = o.to BY <1>4, <3>2 DEF Same
    <3>4. \A z \in todo \ {o} : x.last <= z.last BY <1>1, <1>5, <2>1, <2>3
    <3> QED BY <2>1, <2>3, <3>3, <3>4
  <2> QED BY <2>2, <2>3
<1>7. \A x, z \in todo \ {o} : x.last = z.last => x = z BY <1>0 DEF Remaining
<1>8. PICK e \in todo : e.to = read.base /\ \A x \in todo : x.last <= e.last
  BY <1>0 DEF Remaining
<1>9. IF todo \ {o} = {} THEN read.base <= q.to
      ELSE \E x \in todo \ {o} : x.to = read.base /\ \A z \in todo \ {o} : z.last <= x.last
  <2>1. CASE todo \ {o} = {}
    <3>1. e = o BY <2>1
    <3> QED BY <1>4, <1>8, <2>1, <3>1
  <2>2. CASE todo \ {o} # {}
    <3>1. PICK x \in todo \ {o} : TRUE BY <2>2
    <3>2. e # o BY <1>1, <1>5, <1>8, <3>1
    <3> QED BY <1>8, <2>2, <3>2
  <2> QED BY <2>1, <2>2
<1> QED BY <1>3, <1>4, <1>6, <1>7, <1>9 DEF Remaining

\* A read of metrics stays sound.
LEMMA ReadingStays ==
    ASSUME IInv, Next
    PROVE  Reading'
<1>0. kind' = kind BY FrameIs
<1> SUFFICES ASSUME kind = "metrics" PROVE Reading'
  BY <1>0 DEF Reading
<1>1. /\ Reading /\ read.todo \subseteq Objects /\ read.upto \in Nat /\ read.base \in Nat
      /\ read \in [at : {"idle", "get", "done"}, todo : SUBSET Objects, upto : Nat, base : Nat,
                   flaw : {"none", "gap", "twice"}]
  BY DEF IInv, Typed, TypeOK
<1>2. ASSUME NEW o \in Objects, Pending(o) PROVE Pending(o)'
  BY <1>2, PendingStays
<1>3. CASE read' = read
  BY <1>0, <1>1, <1>2, <1>3 DEF Reading
<1>4. CASE ReadList
  <2>1. /\ read'.at = "get" /\ read'.flaw = "none" /\ read'.todo = Visible(objs) /\ read'.upto = 0
        /\ read'.base = Shown /\ objs # {}
    BY <1>4 DEF ReadList, Reader
  <2>2. (\A o \in Visible(objs) : Pending(o)) /\ Remaining(Visible(objs), 0, Shown)
    BY <2>1, ListingIs
  <2>3. \A o \in Visible(objs) : o \in Objects BY DEF Visible, IInv, OnRemote, Sound
  <2>4. \A o \in read'.todo : Pending(o)' BY <1>2, <2>1, <2>2, <2>3
  <2>5. Remaining(read'.todo, read'.upto, read'.base) BY <2>1, <2>2
  <2> QED BY <2>1, <2>4, <2>5 DEF Reading
<1>5. CASE ReadGet
  <2>1. PICK o \in read.todo :
           /\ \A q \in read.todo : o.last <= q.last
           /\ \/ read' = Missing(o)
              \/ \E q \in objs : /\ Name(q) = Name(o)
                                 /\ read' = [read EXCEPT !.todo = @ \ {o}, !.flaw = Flaw(q), !.upto = q.to]
    BY <1>5 DEF ReadGet
  <2>2. read.at = "get" /\ read.flaw = "none" BY <1>1, <1>5 DEF ReadGet, Reading
  <2>3. CASE read' = Missing(o)
    <3>1. read'.at = "idle" /\ read'.flaw = "none" BY <2>3 DEF Missing, Reader
    <3> QED BY <3>1 DEF Reading
  <2>4. ASSUME NEW q \in objs, Name(q) = Name(o),
               read' = [read EXCEPT !.todo = @ \ {o}, !.flaw = Flaw(q), !.upto = q.to]
        PROVE  Reading'
    <3>1. q.from = read.upto /\ Remaining(read.todo \ {o}, q.to, read.base)
      BY <2>1, <2>2, <2>4, FetchIs
    <3>2. Flaw(q) = "none" BY <1>1, <2>2, <3>1 DEF Flaw
    <3>3. /\ read'.at = "get" /\ read'.flaw = "none" /\ read'.todo = read.todo \ {o}
          /\ read'.upto = q.to /\ read'.base = read.base
      BY <1>1, <2>2, <2>4, <3>2
    <3>4. \A x \in read'.todo : Pending(x)' BY <1>1, <1>2, <2>2, <3>3 DEF Reading
    <3>5. Remaining(read'.todo, read'.upto, read'.base) BY <3>1, <3>3
    <3> QED BY <3>3, <3>4, <3>5 DEF Reading
  <2> QED BY <2>1, <2>3, <2>4
<1>6. CASE ReadEnd
  <2>1. read.at = "get" /\ read.flaw = "none" /\ read.base <= read.upto
    BY <1>1, <1>6 DEF ReadEnd, Reading, Remaining
  <2>2. read'.at = "done" /\ read'.flaw = "none" BY <1>1, <1>6, <2>1 DEF ReadEnd, Reader
  <2> QED BY <2>2 DEF Reading
<1>7. read' = read \/ ReadList \/ ReadGet \/ ReadEnd
  BY Frames
<1> QED BY <1>3, <1>4, <1>5, <1>6, <1>7
-----------------------------------------------------------------------------
(***************************************************************************)
(* The types.                                                              *)
(***************************************************************************)

\* A process's record stays one, and a ship that goes on has attempts left.
LEMMA ProcTyped ==
    ASSUME IInv, Next, NEW p \in Procs, proc'[p] # proc[p]
    PROVE  proc'[p] \in ProcType /\ proc'[p].tries < Attempts
<1>0. /\ proc \in [Procs -> ProcType] /\ proc[p].tries < Attempts /\ proc[p] \in ProcType
      /\ Attempts \in Nat \ {0} /\ Lag \in Nat \ {0} /\ Sound(objs) /\ Sound(objs')
      /\ file \in [Copies -> Nat] /\ Owned /\ Working(p)
  BY RemoteMoves, StreamsAssumption DEF IInv, Typed, TypeOK, OnRemote
<1>1. \A r : Set(p, r) => proc'[p] = r BY <1>0 DEF Set
<1>2. \A at \in Stages, o \in Objects, k \in Names, n \in Nat :
         /\ [at |-> at, obj |-> o, keys |-> k, size |-> n, tries |-> 0] \in ProcType
         /\ [at |-> at, obj |-> o, keys |-> k, size |-> n, tries |-> 0].tries < Attempts
  BY <1>0 DEF ProcType
<1>3. Nothing \in Objects /\ {} \in Names BY DEF Nothing, Segment, Objects, Names
<1>4. \A at \in Stages : Rest(at) \in ProcType /\ Rest(at).tries < Attempts
  BY <1>2, <1>3 DEF Rest
<1>5. \A at \in Stages, o \in Objects :
         /\ [Rest(at) EXCEPT !.obj = o] \in ProcType
         /\ [Rest(at) EXCEPT !.obj = o].tries < Attempts
  <2> TAKE at \in Stages, o \in Objects
  <2>1. [Rest(at) EXCEPT !.obj = o] = [at |-> at, obj |-> o, keys |-> {}, size |-> 0, tries |-> 0]
    BY DEF Rest
  <2> QED BY <1>2, <1>3, <2>1
<1>6. \A at \in Stages : Go(p, at) => proc'[p] \in ProcType /\ proc'[p].tries < Attempts
  BY <1>0, <1>1 DEF Go, ProcType
<1>7. {"idle", "dead", "lock", "list", "get", "plan", "rollup", "build", "replace", "create", "seal", "ship",
       "put", "delete"} \subseteq Stages
  BY DEF Stages
<1>8. /\ \A o \in objs : Name(o) \in BOOLEAN \X Nat
      /\ \A o \in objs' : Name(o) \in BOOLEAN \X Nat
  <2>1. \A o \in Objects : Name(o) \in BOOLEAN \X Nat BY ObjectIs DEF Name
  <2> QED BY <1>0, <2>1 DEF Sound
<1>9. CASE GiveUp(p) \/ Compact(p) \/ Restart(p) \/ Fail(p) \/ Seal(p)
  BY <1>1, <1>4, <1>7, <1>9 DEF GiveUp, Compact, Restart, Fail, Seal, Over
<1>10. CASE Sync(p)
  <2>1. PICK n \in Nat : Set(p, [Rest("lock") EXCEPT !.size = n])
    <3>1. 0 \in Nat /\ (copyOf[p] \in owns => file[copyOf[p]] \in Nat)
      BY <1>0 DEF IInv, Typed, TypeOK
    <3> QED BY <1>10, <3>1 DEF Sync
  <2>2. [Rest("lock") EXCEPT !.size = n] = [at |-> "lock", obj |-> Nothing, keys |-> {}, size |-> n, tries |-> 0]
    BY DEF Rest
  <2> QED BY <1>1, <1>2, <1>3, <1>7, <2>1, <2>2
<1>11. CASE Lock(p) BY <1>6, <1>7, <1>11 DEF Lock
<1>12. CASE Ship(p)
  <2>1. CASE Shipped(p, -1, 0)
    <3>1. ~Due(-1 - Lag) BY <1>0 DEF Due
    <3>2. proc'[p].at # "plan" BY <2>1, <3>1, ShippedIs
    <3>3. [Rest("plan") EXCEPT !.obj = Segment(-1, 0, 0)].at = "plan" BY DEF Rest
    <3>4. \/ proc'[p] = Rest("list") \/ proc'[p] = Rest("idle")
          \/ proc'[p] = [Rest("plan") EXCEPT !.obj = Segment(-1, 0, 0)]
      BY <2>1, ShippedIs, Zenon
    <3>5. proc'[p] \in {Rest("list"), Rest("idle")} BY <3>2, <3>3, <3>4, Zenon
    <3> QED BY <1>4, <1>7, <3>5
  <2>2. CASE ~Shipped(p, -1, 0)
    <3>1. PICK held : /\ held \in {state[copyOf[p]], Listed}
                      /\ Set(p, [proc[p] EXCEPT !.at = "put",
                                    !.obj = Segment(held.next, held.to, file[copyOf[p]])])
      BY <1>12, <2>2 DEF Ship
    <3>2. \E h \in Held : proc'[p].obj = Segment(h.next, h.to, file[copyOf[p]]) /\ copyOf[p] \in Copies
      BY <1>12, <2>2, ShipIs
    <3>3. proc'[p].obj \in Objects
      BY <1>0, <3>2 DEF Held, Segment, Objects
    <3>4. proc'[p] = [proc[p] EXCEPT !.at = "put", !.obj = Segment(held.next, held.to, file[copyOf[p]])]
      BY <1>1, <3>1
    <3>5. Segment(held.next, held.to, file[copyOf[p]]) \in Objects BY <1>0, <3>3, <3>4 DEF ProcType
    <3> QED BY <1>0, <1>7, <3>4, <3>5 DEF ProcType
  <2> QED BY <2>1, <2>2
<1>13. CASE Upload(p)
  <2> DEFINE o == proc[p].obj
  <2>1. CASE There(Name(o))
    <3>1. CASE Set(p, Rest("idle")) BY <1>1, <1>4, <1>7, <3>1
    <3>2. CASE proc[p].tries + 1 # Attempts /\ Set(p, [proc[p] EXCEPT !.at = "ship", !.tries = @ + 1])
      <4>1. proc'[p] = [proc[p] EXCEPT !.at = "ship", !.tries = @ + 1] BY <1>1, <3>2
      <4>2. proc[p].tries \in Nat /\ proc[p].tries + 1 \in 0 .. Attempts /\ proc[p].tries + 1 < Attempts
        BY <1>0, <3>2 DEF ProcType
      <4> QED BY <1>0, <1>7, <4>1, <4>2 DEF ProcType
    <3> QED BY <1>13, <2>1, <3>1, <3>2 DEF Upload
  <2>2. CASE ~There(Name(o))
    <3>1. Shipped(p, o.last, o.to) BY <1>13, <2>2 DEF Upload
    <3>2. o \in Objects /\ o.last \in Nat /\ o.to \in Nat BY RequestsTyped, ObjectIs
    <3>3. Segment(o.last, o.to, o.to) \in Objects BY <3>2 DEF Segment, Objects
    <3>4. \/ proc'[p] = Rest("list") \/ proc'[p] = Rest("idle")
          \/ proc'[p] = [Rest("plan") EXCEPT !.obj = Segment(o.last, o.to, o.to)]
      BY <3>1, ShippedIs, Zenon
    <3>5. {"list", "idle", "plan"} \subseteq Stages BY <1>7
    <3> QED BY <1>4, <1>5, <3>3, <3>4, <3>5, Zenon
  <2> QED BY <2>1, <2>2
<1>14. CASE MergeList(p)
  <2>1. CASE Over(p) BY <1>1, <1>4, <1>7, <2>1 DEF Over
  <2>2. CASE ~Over(p)
    <3> DEFINE x == MergeOf(Visible(objs))
               k == {Name(o) : o \in Visible(objs)}
    <3>1. proc'[p] = [Rest("get") EXCEPT !.obj = x, !.keys = k] BY <1>1, <1>14, <2>2 DEF MergeList
    <3>2. proc'[p] = [at |-> "get", obj |-> x, keys |-> k, size |-> 0, tries |-> 0] BY <3>1 DEF Rest
    <3>3. proc'[p].at = "get" /\ proc'[p].obj = x BY <3>2
    <3>4. x \in Merges' BY <3>3 DEF Merges, AtWork
    <3>5. x \in Objects BY <3>4, MergesStay
    <3>6. k \in Names BY <1>8 DEF Names, Visible
    <3> QED BY <1>2, <1>7, <3>2, <3>5, <3>6
  <2> QED BY <2>1, <2>2
<1>15. CASE MergeGet(p)
  BY <1>1, <1>4, <1>6, <1>7, <1>15 DEF MergeGet, Over
<1>16. CASE MergeCreate(p)
  <2>1. CASE Over(p) BY <1>1, <1>4, <1>7, <2>1 DEF Over
  <2>2. CASE ~Over(p)
    <3>1. PICK k \in {proc[p].keys, Superseded(objs', proc[p].obj.last)} :
             proc'[p] = [proc[p] EXCEPT !.at = "delete", !.keys = k]
      BY <1>1, <1>16, <2>2 DEF MergeCreate
    <3>2. Superseded(objs', proc[p].obj.last) \in Names BY <1>8 DEF Names, Superseded
    <3>3. k \in Names BY <1>0, <3>1, <3>2 DEF ProcType
    <3> QED BY <1>0, <1>7, <3>1, <3>3 DEF ProcType
  <2> QED BY <2>1, <2>2
<1>17. CASE Delete(p)
  BY <1>1, <1>4, <1>6, <1>7, <1>17 DEF Delete, Over
<1>18. CASE Plan(p)
  <2>1. CASE Set(p, Rest("idle")) BY <1>1, <1>4, <1>7, <2>1
  <2>2. CASE ~Set(p, Rest("idle"))
    <3>1. PICK x : Set(p, [Rest("rollup") EXCEPT !.obj = x]) BY <1>18, <2>2 DEF Plan
    <3>2. proc'[p] = [Rest("rollup") EXCEPT !.obj = x] BY <1>1, <3>1
    <3>3. proc'[p].at = "rollup" /\ proc'[p].obj = x BY <3>2 DEF Rest
    <3>4. x \in Merges' BY <3>3 DEF Merges, AtWork
    <3>5. x \in Objects BY <3>4, MergesStay
    <3> QED BY <1>5, <1>7, <3>2, <3>5
  <2> QED BY <2>1, <2>2
<1>19. CASE RollUp(p)
  BY <1>1, <1>4, <1>6, <1>7, <1>19 DEF RollUp
<1>20. \A n \in Nat, m \in Nat : Merged(n, m, FALSE) \in Objects BY DEF Merged, Objects
<1>21. copyOf[p] \in owns => file[copyOf[p]] \in Nat BY <1>0 DEF IInv, Typed, TypeOK
<1>22. objs # {} => LastSeq(Visible(objs)) \in Nat BY <1>0, TopIs
<1>23. CASE Build(p)
  <2>1. copyOf[p] \in owns BY <1>0, <1>23 DEF Build, Working
  <2>2. PICK n \in Nat : Set(p, [Rest("replace") EXCEPT !.obj = Merged(n, file[copyOf[p]], FALSE)])
    BY <1>22, <1>23 DEF Build
  <2>3. Merged(n, file[copyOf[p]], FALSE) \in Objects BY <1>20, <1>21, <2>1
  <2> QED BY <1>1, <1>5, <1>7, <2>2, <2>3
<1>24. CASE ShipIndexed(p)
  <2>1. CASE Over(p) BY <1>1, <1>4, <1>7, <2>1 DEF Over
  <2>2. CASE ~Over(p)
    <3>1. copyOf[p] \in owns /\ objs # {} BY <1>0, <1>24 DEF ShipIndexed, Working, Owned
    <3>2. Merged(LastSeq(Visible(objs)), file[copyOf[p]], FALSE) \in Objects BY <1>20, <1>21, <1>22, <3>1
    <3> QED BY <1>1, <1>5, <1>7, <1>24, <2>2, <3>2 DEF ShipIndexed
  <2> QED BY <2>1, <2>2
<1>25. CASE Replace(p)
  <2>1. proc'[p] = [proc[p] EXCEPT !.at = "delete", !.keys = Superseded(objs', proc[p].obj.last)]
    BY <1>1, <1>25 DEF Replace
  <2>2. Superseded(objs', proc[p].obj.last) \in Names BY <1>8 DEF Names, Superseded
  <2> QED BY <1>0, <1>7, <2>1, <2>2 DEF ProcType
<1> QED BY <1>9, <1>10, <1>11, <1>12, <1>13, <1>14, <1>15, <1>16, <1>17, <1>18, <1>19, <1>23, <1>24,
           <1>25, ActorIs DEF Acts, Step

\* Everything keeps its type.
LEMMA TypedStays ==
    ASSUME IInv, Next
    PROVE  Typed'
<1>0. /\ TypeOK /\ proc \in [Procs -> ProcType] /\ (\A p \in Procs : proc[p].tries < Attempts)
      /\ Sound(objs) /\ Sound(objs') /\ "orig" \in Copies /\ "copy" \in Copies
  BY RemoteMoves DEF IInv, Typed, OnRemote, Copies
<1>1. /\ kind' = kind /\ guest' = guest /\ copyOf' = copyOf /\ failures' \in Nat
  BY FrameIs
<1>2. \A p \in Procs : copyOf[p] \in Copies
  BY <1>0, StreamsAssumption DEF TypeOK
<1>3. objs' \subseteq Objects BY <1>0 DEF Sound
<1>4. proc' \in [Procs -> ProcType] /\ \A p \in Procs : proc'[p].tries < Attempts
  <2>1. proc' = proc \/ \E q \in Procs : \E r : Set(q, r)
    <3>1. ASSUME NEW q \in Procs, Step(q) \/ GiveUp(q) \/ Compact(q) \/ Fail(q) \/ Restart(q)
          PROVE  proc' = proc \/ \E r : Set(q, r)
      BY <3>1 DEF Step, Sync, Lock, Ship, Shipped, Upload, MergeList, MergeGet, MergeCreate, Over, Go,
         Delete, Plan, RollUp, Build, ShipIndexed, Replace, Seal, GiveUp, Compact, Fail, Restart
    <3> QED BY <3>1, Zenon DEF Next, Append, Finish, Land, CopyRecord, Far, FarList, FarGet, FarCreate,
       FarDelete, OnlyFar, ReadList, ReadGet, ReadEnd, OnlyRead, Adopt
  <2>2. proc' = [p \in Procs |-> proc'[p]] BY <1>0, <2>1 DEF Set
  <2>3. \A p \in Procs : proc'[p] \in ProcType /\ proc'[p].tries < Attempts BY <1>0, ProcTyped
  <2> QED BY <2>2, <2>3
<1>5. file' \in [Copies -> Nat]
  <2>1. CASE file' = file BY <1>0, <2>1 DEF TypeOK
  <2>2. CASE Append BY <1>0, <2>2 DEF Append, TypeOK
  <2>3. CASE CopyRecord BY <1>0, <2>3 DEF CopyRecord, TypeOK
  <2>4. ASSUME NEW p \in Procs, Adopt(p) PROVE file' \in [Copies -> Nat]
    <3>1. Shown \in Nat BY RemoteGrows
    <3>2. \E n \in Nat : file' = [file EXCEPT !["copy"] = n]
      BY <1>0, <2>4, <3>1 DEF Adopt, TypeOK
    <3> QED BY <1>0, <3>2 DEF TypeOK
  <2> QED BY <2>1, <2>2, <2>3, <2>4, Frames
<1>6. state' \in [Copies -> Held \cup {NoState, INDEXED}]
  <2>1. \/ state' = state \/ CopyRecord
        \/ \E p \in Procs : Adopt(p) \/ \E st : Keep(p, st)
    <3>1. ASSUME NEW p \in Procs, Step(p) \/ GiveUp(p) \/ Compact(p) \/ Fail(p) \/ Restart(p)
          PROVE  state' = state \/ \E st : Keep(p, st)
      <4>1. CASE Ship(p) \/ Upload(p) \/ Delete(p) \/ Build(p) \/ Seal(p)
        BY <4>1, Zenon DEF Ship, Upload, Delete, Build, Seal
      <4>2. CASE ~(Ship(p) \/ Upload(p) \/ Delete(p) \/ Build(p) \/ Seal(p))
        BY <3>1, <4>2 DEF Step, Sync, Lock, MergeList, MergeGet, MergeCreate, Plan, RollUp, ShipIndexed,
           Replace, GiveUp, Compact, Fail, Restart
      <4> QED BY <4>1, <4>2
    <3> QED BY <3>1 DEF Next, Append, Finish, Land, Far, FarList, FarGet, FarCreate, FarDelete,
       OnlyFar, ReadList, ReadGet, ReadEnd, OnlyRead
  <2>2. state' = [c \in Copies |-> state'[c]]
    BY <1>0, <2>1 DEF TypeOK, CopyRecord, Adopt, Keep
  <2>3. ASSUME NEW c \in Copies PROVE state'[c] \in Held \cup {NoState, INDEXED}
    <3>1. CASE state'[c] = state[c] \/ state'[c] = state["orig"] BY <1>0, <3>1 DEF TypeOK
    <3>2. ASSUME NEW p \in Procs, copyOf[p] = c, Ship(p) PROVE state'[c] \in Held \cup {NoState}
      BY <3>2, ShipIs
    <3>3. ASSUME NEW p \in Procs, state'[c] = Holds(p, proc[p].obj) PROVE state'[c] \in Held
      <4>1. proc[p].obj.last \in Nat /\ proc[p].obj.to \in Nat BY RequestsTyped, ObjectIs
      <4> QED BY <3>3, <4>1 DEF Holds, Held
    <3> QED BY <3>1, <3>2, <3>3, StatesMove
  <2> QED BY <2>2, <2>3
<1>7. lock' \in [Copies -> Procs \cup {None}]
  <2>1. lock' = lock \/ \E p \in Procs : Take(p) \/ Release(p)
    <3>1. ASSUME NEW p \in Procs, Step(p) \/ GiveUp(p) \/ Compact(p) \/ Fail(p) \/ Restart(p) \/ Adopt(p)
          PROVE  lock' = lock \/ Take(p) \/ Release(p)
      <4>1. CASE Ship(p) \/ Upload(p) BY <4>1 DEF Ship, Upload, Shipped
      <4>2. CASE MergeList(p) \/ MergeGet(p) \/ MergeCreate(p) \/ Delete(p) \/ ShipIndexed(p) \/ Seal(p)
        BY <4>2 DEF MergeList, MergeGet, MergeCreate, Delete, ShipIndexed, Seal, Over
      <4>3. CASE ~(\/ Ship(p) \/ Upload(p) \/ MergeList(p) \/ MergeGet(p) \/ MergeCreate(p) \/ Delete(p)
                   \/ ShipIndexed(p) \/ Seal(p))
        BY <3>1, <4>3 DEF Step, Sync, Lock, Plan, RollUp, Build, Replace, GiveUp, Compact, Fail, Restart,
           Adopt
      <4> QED BY <4>1, <4>2, <4>3
    <3> QED BY <3>1, Zenon DEF Next, Append, Finish, Land, CopyRecord, Far, FarList, FarGet, FarCreate,
       FarDelete, OnlyFar, ReadList, ReadGet, ReadEnd, OnlyRead
  <2>2. ASSUME NEW p \in Procs, Take(p) PROVE lock' \in [Copies -> Procs \cup {None}]
    BY <1>0, <1>2, <2>2 DEF Take, TypeOK
  <2>3. ASSUME NEW p \in Procs, Release(p) PROVE lock' \in [Copies -> Procs \cup {None}]
    BY <1>0, <2>3 DEF Release, TypeOK
  <2> QED BY <1>0, <2>1, <2>2, <2>3 DEF TypeOK
<1>8. owns' \subseteq Copies /\ sealed' \subseteq Copies
  <2>1. owns' \subseteq Copies BY <1>0, OwnersStay DEF TypeOK
  <2>2. CASE CopyRecord BY <1>0, <2>1, <2>2 DEF CopyRecord, TypeOK
  <2>3. ASSUME NEW p \in Procs, Adopt(p) \/ Seal(p) PROVE sealed' \subseteq Copies
    BY <1>0, <1>2, <2>3 DEF Adopt, Seal, TypeOK
  <2> QED BY <1>0, <2>1, <2>2, <2>3, Frames DEF TypeOK
<1>9. retired' \in BOOLEAN /\ finished' \in BOOLEAN
  <2>1. retired' \in {retired, TRUE}
    BY Frames, Zenon DEF Build, Adopt
  <2>2. finished' \in {finished, TRUE}
    BY Frames, Zenon DEF Finish
  <2> QED BY <1>0, <2>1, <2>2, Zenon DEF TypeOK
<1>10. flight' \subseteq [op : {"create", "put", "delete"}, obj : Objects]
  <2> SUFFICES ASSUME NEW f \in flight', f \notin flight
               PROVE  f \in [op : {"create", "put", "delete"}, obj : Objects]
    BY <1>0 DEF TypeOK
  <2>1. PICK p \in Procs : f \in Requests(p) BY NewFlight
  <2>2. objs \subseteq Objects /\ proc[p].obj \in Objects BY <1>0, RequestsTyped DEF Sound
  <2> QED BY <2>1, <2>2 DEF Requests
<1>11. once' \subseteq Procs
  <2>1. once' = once \/ \E p \in Procs : Once(p) \/ once' = once \ {p}
    <3>1. ASSUME NEW p \in Procs, Step(p) \/ GiveUp(p) \/ Compact(p) \/ Fail(p) \/ Restart(p) \/ Adopt(p)
          PROVE  once' = once \/ Once(p) \/ once' = once \ {p}
      BY <3>1 DEF Step, Sync, Lock, Ship, Upload, MergeList, MergeGet, MergeCreate, Delete, Plan, RollUp,
         Build, ShipIndexed, Replace, Seal, GiveUp, Compact, Fail, Restart, Adopt
    <3> QED BY <3>1, Zenon DEF Next, Append, Finish, Land, CopyRecord, Far, FarList, FarGet, FarCreate,
       FarDelete, OnlyFar, ReadList, ReadGet, ReadEnd, OnlyRead
  <2> QED BY <1>0, <2>1 DEF Once, TypeOK
<1>12. far' \in [at : {"idle", "get", "create", "delete"}, obj : Objects, keys : Names]
  <2>0. /\ far \in [at : {"idle", "get", "create", "delete"}, obj : Objects, keys : Names]
        /\ \A o \in Objects : Name(o) \in BOOLEAN \X Nat
    BY <1>0, ObjectIs DEF TypeOK, Name
  <2>1. farRest \in [at : {"idle", "get", "create", "delete"}, obj : Objects, keys : Names]
    BY DEF farRest, Nothing, Segment, Objects, Names
  <2>2. CASE far' = far BY <2>0, <2>2
  <2>3. CASE FarList
    <3> DEFINE x == Merged(LastSeq(Visible(objs)), End(Visible(objs)), FALSE)
               k == {Name(o) : o \in Visible(objs)}
    <3>1. far' = [at |-> "get", obj |-> x, keys |-> k] BY <2>3 DEF FarList
    <3>2. far'.at = "get" /\ far'.obj = x BY <3>1
    <3>3. x \in Merges' BY <3>2 DEF Merges
    <3>4. x \in Objects BY <3>3, MergesStay
    <3>5. k \in Names BY <1>0, <2>0 DEF Names, Visible, Sound
    <3> HIDE DEF x, k
    <3> QED BY <3>1, <3>4, <3>5
  <2>4. CASE FarGet BY <2>0, <2>1, <2>4 DEF FarGet
  <2>5. CASE FarCreate
    <3>1. Superseded(objs', far.obj.last) \in Names BY <1>3, <2>0 DEF Names, Superseded
    <3> QED BY <2>0, <2>1, <2>5, <3>1 DEF FarCreate
  <2>6. CASE FarDelete BY <2>0, <2>1, <2>6 DEF FarDelete
  <2>7. far' = far \/ FarList \/ FarGet \/ FarCreate \/ FarDelete
    BY Frames DEF Far
  <2> QED BY <2>2, <2>3, <2>4, <2>5, <2>6, <2>7
<1>13. read' \in [at : {"idle", "get", "done"}, todo : SUBSET Objects, upto : Nat, base : Nat,
                  flaw : {"none", "gap", "twice"}]
  <2>0. /\ read \in [at : {"idle", "get", "done"}, todo : SUBSET Objects, upto : Nat, base : Nat,
                     flaw : {"none", "gap", "twice"}]
        /\ Visible(objs) \subseteq Objects /\ objs \subseteq Objects /\ Shown \in Nat
    BY <1>0, RemoteGrows DEF TypeOK, Visible, Sound
  <2>1. CASE read' = read BY <2>0, <2>1
  <2>2. CASE ReadList BY <2>0, <2>2 DEF ReadList, Reader
  <2>3. CASE ReadGet
    <3>1. PICK o \in read.todo :
             \/ read' = Missing(o)
             \/ \E q \in objs : read' = [read EXCEPT !.todo = @ \ {o}, !.flaw = Flaw(q), !.upto = q.to]
      BY <2>3 DEF ReadGet
    <3>2. CASE read' = Missing(o) BY <2>0, <3>2 DEF Missing, Reader
    <3>3. ASSUME NEW q \in objs, read' = [read EXCEPT !.todo = @ \ {o}, !.flaw = Flaw(q), !.upto = q.to]
          PROVE  read' \in [at : {"idle", "get", "done"}, todo : SUBSET Objects, upto : Nat,
                            base : Nat, flaw : {"none", "gap", "twice"}]
      <4>1. q.to \in Nat BY <2>0, ObjectIs
      <4>2. Flaw(q) \in {"none", "gap", "twice"} BY <2>0 DEF Flaw
      <4> QED BY <2>0, <3>3, <4>1, <4>2
    <3> QED BY <3>1, <3>2, <3>3
  <2>4. CASE ReadEnd BY <2>0, <2>4 DEF ReadEnd, Reader
  <2>5. read' = read \/ ReadList \/ ReadGet \/ ReadEnd
    BY Frames
  <2> QED BY <2>1, <2>2, <2>3, <2>4, <2>5
<1>14. \A p \in Procs : proc'[p] \in
          [at : Stages, obj : Objects, keys : Names, size : Nat, tries : 0 .. Attempts]
  BY <1>4 DEF ProcType
<1>15. kind' \in Kinds /\ guest' \in Guests /\ copyOf' \in Crews BY <1>0, <1>1 DEF TypeOK
<1>16. TypeOK'
  BY <1>1, <1>3, <1>5, <1>6, <1>7, <1>8, <1>9, <1>10, <1>11, <1>12, <1>13, <1>14, <1>15 DEF TypeOK
<1> QED BY <1>4, <1>16 DEF Typed
-----------------------------------------------------------------------------
(***************************************************************************)
(* The invariant.                                                          *)
(***************************************************************************)

\* It holds of a stream that nothing was appended to.
LEMMA InitInv ==
    ASSUME Init, "metrics" \notin Late
    PROVE  IInv
<1>1. \A p \in Procs : proc[p] = Rest("idle") BY DEF Init
<1>2. \A p \in Procs : /\ proc[p].at = "idle" /\ proc[p].tries = 0 /\ proc[p] \in ProcType
  <2>1. Nothing \in Objects /\ {} \in Names /\ "idle" \in Stages
    BY DEF Nothing, Segment, Objects, Names, Stages
  <2>2. Rest("idle") \in ProcType BY <2>1, StreamsAssumption DEF Rest, ProcType
  <2> QED BY <1>1, <2>2 DEF Rest
<1>3. Typed
  <2>1. TypeOK
    <3>1. \A p \in Procs : proc[p] \in
             [at : Stages, obj : Objects, keys : Names, size : Nat, tries : 0 .. Attempts]
      BY <1>2 DEF ProcType
    <3>2. far \in [at : {"idle", "get", "create", "delete"}, obj : Objects, keys : Names]
      BY DEF Init, Nothing, Segment, Objects, Names
    <3>3. read \in [at : {"idle", "get", "done"}, todo : SUBSET Objects, upto : Nat, base : Nat,
                    flaw : {"none", "gap", "twice"}]
      BY DEF Init, Reader
    <3> QED BY <3>1, <3>2, <3>3 DEF Init, TypeOK, Copies
  <2>2. proc \in [Procs -> ProcType]
    <3>1. proc = [p \in Procs |-> proc[p]] BY DEF Init
    <3> QED BY <1>2, <3>1
  <2>3. \A p \in Procs : proc[p].tries < Attempts BY <1>2, StreamsAssumption
  <2> QED BY <2>1, <2>2, <2>3 DEF Typed
<1>4. Sound(objs) /\ Visible(objs) = {}
  <2>1. objs = {} BY DEF Init
  <2>2. IsFiniteSet(objs) BY <2>1, FS_EmptySet
  <2>3. LastSeq(objs) = -1 BY <2>1, <2>2, LastSeqIs
  <2>4. 0 .. LastSeq(objs) = {} BY <2>3
  <2> QED BY <2>1, <2>2, <2>4 DEF Sound, Visible
<1>5. Shown = 0
  <2>1. objs = {} BY DEF Init
  <2> QED BY <1>4, <2>1, TopIs DEF Shown
<1>6. OnRemote BY <1>4 DEF OnRemote, Chained
<1>7. Segments = {} /\ Merges = {} /\ LateOnes("create", FALSE) = {}
  BY <1>2 DEF Init, Segments, Merges, AtWork, LateOnes
<1>8. Requested BY <1>2, <1>7 DEF Requested, Deletes, Init
<1>9. ~KnownAt("orig") /\ ~KnownAt("copy") BY DEF Init, KnownAt, Copies
<1>10. Owned
  <2>1. file["orig"] = 0 /\ file["copy"] = 0 BY DEF Init, Copies
  <2> QED BY <2>1 DEF Owned, Init
<1>11. Stated BY <1>9 DEF Stated
<1>12. \A p \in Procs : Working(p) /\ Replacing(p) /\ Shipping(p)
  BY <1>2 DEF Working, Replacing, Shipping, Locked
<1>13. Agreed BY <1>7 DEF Agreed
<1>14. Reading BY DEF Reading, Init, Reader
<1> QED BY <1>3, <1>6, <1>8, <1>10, <1>11, <1>12, <1>13, <1>14 DEF IInv

\* A step keeps it.
LEMMA StepInv ==
    ASSUME IInv, [Next]_vars
    PROVE  IInv'
<1>1. CASE Next
  <2>1. "metrics" \notin Late BY DEF IInv
  <2>2. OnRemote' BY <1>1, RemoteGrows
  <2>3. Typed' /\ Requested' /\ Owned' /\ Stated' /\ Agreed' /\ Reading'
    BY <1>1, TypedStays, RequestedStays, OwnedStays, StatedStays, AgreedStays, ReadingStays
  <2>4. \A p \in Procs : Working(p)' /\ Replacing(p)' /\ Shipping(p)'
    BY <1>1, WorkingStays, ReplacingStays, ShippingStays
  <2> QED BY <2>1, <2>2, <2>3, <2>4 DEF IInv
<1>2. CASE UNCHANGED vars
  <2>1. /\ kind' = kind /\ guest' = guest /\ copyOf' = copyOf /\ file' = file /\ state' = state
        /\ lock' = lock /\ owns' = owns /\ retired' = retired /\ sealed' = sealed
        /\ finished' = finished /\ objs' = objs /\ flight' = flight /\ proc' = proc /\ once' = once
        /\ far' = far /\ read' = read /\ failures' = failures
    BY <1>2 DEF vars
  <2>2. Top' = Top /\ Shown' = Shown /\ (Exact' <=> Exact) /\ (Still' <=> Still)
    BY <2>1 DEF Top, Shown, Exact, Still
  <2>3. Segments' = Segments /\ Merges' = Merges /\ (Loose' <=> Loose)
    BY <2>1, <2>2 DEF Segments, Merges, AtWork, LateOnes, Loose
  <2>4. \A c : KnownAt(c)' <=> KnownAt(c) BY <2>1 DEF KnownAt
  <2>5. Typed' BY <2>1 DEF IInv, Typed, TypeOK
  <2>6. OnRemote' BY <2>1, <2>2 DEF IInv, OnRemote
  <2>7. Requested'
    <3>1. Deletes' BY <2>1 DEF IInv, Requested, Deletes
    <3>2. \A o \in Segments' : SegmentOK(o)' BY <2>1, <2>2, <2>3 DEF IInv, Requested, SegmentOK
    <3>3. \A o \in Merges' : MergeOK(o)' BY <2>1, <2>3 DEF IInv, Requested, MergeOK
    <3> QED BY <2>1, <3>1, <3>2, <3>3 DEF IInv, Requested
  <2>8. Owned' BY <2>1, <2>2, <2>4 DEF IInv, Owned
  <2>9. Stated' BY <2>1, <2>2, <2>3, <2>4 DEF IInv, Stated, Fits
  <2>10. ASSUME NEW p \in Procs PROVE Working(p)' /\ Replacing(p)' /\ Shipping(p)'
    <3>1. Working(p)' BY <2>1 DEF IInv, Working
    <3>2. Replacing(p)' BY <2>1, <2>2, <2>4 DEF IInv, Replacing
    <3>3. Shipping(p)'
      BY <2>1, <2>2, <2>3, <2>4 DEF IInv, Shipping, Fits, LateOnes
    <3> QED BY <3>1, <3>2, <3>3
  <2>11. Final' <=> Final BY <2>1, <2>2, <2>4 DEF Final
  <2>12. Agreed' BY <2>1, <2>2, <2>3, <2>11 DEF IInv, Agreed, Same
  <2>13. Reading' BY <2>1, <2>2, <2>3, <2>11 DEF IInv, Reading, Pending, Same
  <2> QED BY <2>5, <2>6, <2>7, <2>8, <2>9, <2>10, <2>12, <2>13 DEF IInv
<1> QED BY <1>1, <1>2

\* The invariant of a stream: what is on the remote, what may yet land there and
\* what the ship states, the locks and the readers take for granted fit together.
\* Late requests are those of logs (see IInv).
THEOREM Invariance ==
    ASSUME "metrics" \notin Late
    PROVE  Spec => []IInv
<1>1. Init => IInv BY InitInv
<1>2. IInv /\ [Next]_vars => IInv' BY StepInv
<1> QED BY <1>1, <1>2, PTL DEF Spec

\* Everything keeps its type, whatever is shipped, compacted, adopted and read.
THEOREM TypeCorrect ==
    ASSUME "metrics" \notin Late
    PROVE  Spec => []TypeOK
<1>1. IInv => TypeOK BY DEF IInv, Typed
<1> QED BY <1>1, Invariance, PTL

\* The invariant gives it.
LEMMA PrefixIs ==
    ASSUME IInv
    PROVE  RemoteIsPrefix
<1>0. Sound(objs) /\ objs \subseteq Objects /\ file["orig"] \in Nat
  BY DEF IInv, OnRemote, Sound, Typed, TypeOK, Copies
<1>1. \A o \in Visible(objs) : o \in objs /\ o.last \in Nat /\ o.merged \in BOOLEAN
  BY <1>0, ObjectIs DEF Visible
<1>2. ASSUME Exact, NEW o \in Visible(objs)
      PROVE  \/ o.from = 0 /\ \A q \in Visible(objs) : o.last <= q.last
             \/ \E q \in Visible(objs) : q.last < o.last /\ q.to = o.from
  <2>1. CASE o.merged
    <3>1. o.from = 0 BY <1>0, <1>1, <2>1 DEF Sound
    <3>2. \A q \in Visible(objs) : ~(q.last < o.last) BY <1>0, <2>1, VisibleIs
    <3> QED BY <1>1, <3>1, <3>2
  <2>2. CASE ~o.merged
    <3>1. \/ o.last = 0 /\ o.from = 0
          \/ \E q \in Visible(objs) : q.last + 1 = o.last /\ q.to = o.from
      BY <1>2, <2>2 DEF IInv, OnRemote, Chained
    <3> QED BY <1>1, <3>1
  <2> QED BY <1>1, <2>1, <2>2
<1>3. Shown <= file["orig"]
  <2>1. CASE objs = {} BY <1>0, <2>1, TopIs DEF Shown
  <2>2. CASE objs # {}
    <3>1. PICK o \in Visible(objs) : o.to = Shown BY <1>0, <2>2, TopIs DEF Shown
    <3> QED BY <3>1 DEF IInv, OnRemote
  <2> QED BY <2>1, <2>2
<1> QED BY <1>2, <1>3 DEF RemoteIsPrefix, Contiguous

\* What the remote's objects hold, read together, is a prefix of the stream,
\* whichever request of a ship or a compaction fails, is cut short or, of a log,
\* lands late (_ship, compact_log_segments, put_indexed, adopt_streams).
THEOREM RemoteIsPrefixAlways ==
    ASSUME "metrics" \notin Late
    PROVE  Spec => []RemoteIsPrefix
<1>1. IInv => RemoteIsPrefix BY PrefixIs
<1> QED BY <1>1, Invariance, PTL

\* A read of metrics that races rollups, compactions and deletions is whole, up to
\* what was there when it began, and shows no entry twice (relisted).
THEOREM ReadsAreSoundAlways ==
    ASSUME "metrics" \notin Late
    PROVE  Spec => []ReadsAreSound
<1>1. IInv => ReadsAreSound BY DEF IInv, Reading, ReadsAreSound
<1> QED BY <1>1, Invariance, PTL

\* Shipping implements Replica: the file and what the remote shows of it only ever
\* grow, and merges, rollups, deletions and adoptions show to nobody.
THEOREM ImplementsReplicaAlways ==
    ASSUME "metrics" \notin Late
    PROVE  Spec => ImplementsReplica
<1>1. ASSUME Init PROVE Source!Init
  <2>1. IInv /\ objs = {} BY <1>1, InitInv DEF Init
  <2>2. Shown = 0 BY <2>1, TopIs DEF Shown, IInv, OnRemote
  <2>3. file["orig"] = 0 BY <1>1 DEF Init, Copies
  <2> QED BY <2>2, <2>3 DEF Source!Init
<1>2. ASSUME IInv, RemoteIsPrefix', [Next]_vars PROVE [Source!Next]_<<file["orig"], Shown>>
  <2>1. CASE UNCHANGED vars BY <2>1 DEF vars, Shown
  <2>2. CASE Append
    <3>1. file \in [Copies -> Nat] /\ "orig" \in Copies BY <1>2 DEF IInv, Typed, TypeOK, Copies
    <3>2. file'["orig"] = file["orig"] + 1 /\ Shown' = Shown BY <2>2, <3>1 DEF Append, Shown
    <3> QED BY <3>2 DEF Source!Next, Source!Append
  <2>3. CASE Next /\ ~Append
    <3>1. file'["orig"] = file["orig"] /\ file["orig"] \in Nat BY <1>2, <2>3, FrameIs
    <3>2. Shown \in Nat /\ Shown' \in Nat /\ Shown <= Shown' BY <1>2, <2>3, RemoteGrows
    <3>3. Shown' <= file'["orig"] BY <1>2 DEF RemoteIsPrefix
    <3>4. Shown' = Shown \/ Shown' \in (Shown + 1) .. file["orig"] BY <3>1, <3>2, <3>3
    <3> QED BY <3>1, <3>4 DEF Source!Next, Source!Show
  <2> QED BY <1>2, <2>1, <2>2, <2>3
<1>3. Init => Source!Init BY <1>1
<1>4. IInv /\ RemoteIsPrefix' /\ [Next]_vars => [Source!Next]_<<file["orig"], Shown>> BY <1>2
<1> QED BY <1>3, <1>4, Invariance, RemoteIsPrefixAlways, PTL DEF Spec, ImplementsReplica, Source!Spec
-----------------------------------------------------------------------------
(***************************************************************************)
(* What a ship state claims.                                               *)
(***************************************************************************)

\* The whole file of c, which grows no more, is there.
AllThere(c) == retired /\ file[c] <= Shown

\* A ship state claims no more than the remote shows, and the one of a sealed
\* file is kept once its .vmx is there.
Claims ==
    /\ \A c \in owns : /\ Exact /\ KnownAt(c) => state[c].to <= Shown
                       /\ state[c] = INDEXED => AllThere(c)
    /\ \A p \in Procs : proc[p].at = "seal" \/ (proc[p].at = "delete" /\ ~proc[p].obj.resume) =>
          AllThere(copyOf[p])

\* A file that is all there stays so.
LEMMA AllStays ==
    ASSUME IInv, Next, NEW c \in owns, owns' = owns, AllThere(c)
    PROVE  AllThere(c)'
<1>1. file'[c] = file[c] \/ Append BY OwnerFile
<1>2. file'[c] = file[c] BY <1>1 DEF Append, AllThere
<1>3. file[c] \in Nat /\ Shown \in Nat /\ Shown' \in Nat /\ Shown <= Shown' BY OwnerFile, RemoteGrows
<1>4. retired => retired' BY FrameIs
<1> QED BY <1>2, <1>3, <1>4 DEF AllThere

\* A ship state says INDEXED only after the .vmx was put.
LEMMA IndexedBy ==
    ASSUME IInv, Next, NEW c \in owns, owns' = owns, state'[c] = INDEXED, state'[c] # state[c]
    PROVE  \E p \in Procs : /\ copyOf[p] = c
                            /\ proc[p].at = "seal" \/ (proc[p].at = "delete" /\ ~proc[p].obj.resume)
<1>0. /\ state \in [Copies -> Held \cup {NoState, INDEXED}] /\ c \in Copies
      /\ owns = {"orig"} \/ owns = {"copy"}
  BY DEF IInv, Typed, TypeOK, Owned
<1>1. INDEXED.to = -1 /\ NoState.to = 0 /\ \A h \in Held : h.to \in Nat
  BY DEF INDEXED, NoState, Held
<1>2. ASSUME NEW p \in Procs, NEW st, Keep(p, st)
      PROVE  c = copyOf[p] /\ st = INDEXED
  BY <1>0, <1>2 DEF Keep
<1>3. \/ CopyRecord \/ \E p \in Procs : Adopt(p)
      \/ \E p \in Procs : Ship(p) \/ Upload(p) \/ Delete(p) \/ Build(p) \/ Seal(p)
  BY DEF Next, Append, Finish, Land, Far, FarList, FarGet, FarCreate, FarDelete,
     OnlyFar, ReadList, ReadGet, ReadEnd, OnlyRead, Step, Sync, Lock, MergeList,
     MergeGet, MergeCreate, Plan, RollUp, ShipIndexed, Replace, GiveUp, Compact, Fail, Restart
<1>4. ~CopyRecord
  <2> SUFFICES ASSUME CopyRecord PROVE FALSE
    OBVIOUS
  <2>1. state' = [state EXCEPT !["copy"] = state["orig"]] /\ owns = {"orig"} BY DEF CopyRecord
  <2> QED BY <1>0, <2>1
<1>5. ~\E p \in Procs : Adopt(p)
  <2>1. \A p \in Procs : Adopt(p) => owns' # owns BY DEF Adopt
  <2> QED BY <2>1
<1>6. ASSUME NEW p \in Procs, Upload(p) PROVE FALSE
  <2>1. Keep(p, Holds(p, proc[p].obj)) BY <1>0, <1>6 DEF Upload
  <2>2. Holds(p, proc[p].obj).to = -1 BY <1>1, <1>2, <2>1
  <2>3. proc[p].obj.to \in Nat BY RequestsTyped, ObjectIs
  <2> QED BY <2>2, <2>3 DEF Holds
<1>7. ASSUME NEW p \in Procs, Ship(p) PROVE FALSE
  <2>1. copyOf[p] = c
    <3>1. \E st : Keep(p, st) BY <1>7 DEF Ship
    <3> QED BY <1>2, <3>1
  <2>2. state'[c] \in Held \cup {NoState} BY <1>7, <2>1, ShipIs
  <2> QED BY <1>1, <2>2
<1>8. ASSUME NEW p \in Procs, Build(p) PROVE FALSE
  <2>1. Keep(p, NoState) BY <1>8 DEF Build
  <2> QED BY <1>1, <1>2, <2>1
<1>9. ASSUME NEW p \in Procs, Delete(p) \/ Seal(p)
      PROVE  /\ copyOf[p] = c
             /\ proc[p].at = "seal" \/ (proc[p].at = "delete" /\ ~proc[p].obj.resume)
  <2>1. CASE Seal(p)
    <3>1. proc[p].at = "seal" /\ \E st : Keep(p, st) BY <2>1 DEF Seal
    <3> QED BY <1>2, <3>1
  <2>2. CASE Delete(p)
    <3>1. proc[p].at = "delete" /\ ~proc[p].obj.resume /\ Keep(p, INDEXED)
      BY <1>0, <2>2 DEF Delete
    <3> QED BY <1>2, <3>1
  <2> QED BY <1>9, <2>1, <2>2
<1> QED BY <1>3, <1>4, <1>5, <1>6, <1>7, <1>8, <1>9

\* The .vmx that replaces the objects shows the whole file.
LEMMA ReplacedIs ==
    ASSUME IInv, Next, NEW p \in Procs, Replace(p)
    PROVE  copyOf[p] \in owns /\ owns' = owns /\ AllThere(copyOf[p])'
<1> DEFINE o == proc[p].obj
           c == copyOf[p]
<1>1. proc[p].at = "replace" /\ objs' = Landed("put", o) /\ UNCHANGED copyVars
  BY DEF Replace
<1>2. Replacing(p) /\ Owned /\ Sound(objs) BY DEF IInv, OnRemote
<1>3. o \in Objects BY RequestsTyped
<1>4. c \in owns /\ file[c] > 0 /\ kind = "metrics"
  BY <1>1, WorksFor DEF IInv, Working
<1>5. /\ o.merged /\ o.from = 0 /\ o.to = file[c] /\ retired
      /\ o.last = LastSeq(objs) \/ (objs = {} /\ o.last = 0)
  BY <1>1, <1>2 DEF Replacing, Top
<1>6. End(Visible(objs)) <= o.to BY <1>2, <1>4, <1>5 DEF Owned, Shown
<1>7. objs' = {q \in objs : Name(q) # Name(o)} \cup {o} BY <1>1 DEF Landed
<1>8. End(Visible(objs')) = o.to BY <1>2, <1>3, <1>5, <1>6, <1>7, PutMerged
<1>9. file' = file /\ owns' = owns /\ copyOf' = copyOf /\ retired' = retired
  BY <1>1 DEF copyVars, env
<1>10. Shown' = file[c] BY <1>5, <1>8 DEF Shown
<1>11. file[c] \in Nat BY <1>4, <1>9, OwnerFile
<1> QED BY <1>4, <1>5, <1>9, <1>10, <1>11 DEF AllThere

\* A step keeps the claims.
LEMMA ClaimsStay ==
    ASSUME IInv, Claims, [Next]_vars
    PROVE  Claims'
<1>1. CASE UNCHANGED vars
  BY <1>1 DEF vars, Claims, AllThere, KnownAt, Exact, Shown
<1>2. CASE Next /\ owns' # owns
  <2>1. /\ owns' = {"copy"} /\ proc' = proc /\ state'["copy"] = NoState
        /\ \A p \in Procs : proc[p].at \in {"idle", "dead"}
    BY <1>2, OwnersStay
  <2>2. NoState # INDEXED BY DEF NoState, INDEXED
  <2> QED BY <2>1, <2>2 DEF Claims, KnownAt
<1>3. CASE Next /\ owns' = owns
  <2>0. /\ state \in [Copies -> Held \cup {NoState, INDEXED}] /\ owns \subseteq Copies
        /\ proc \in [Procs -> ProcType] /\ Owned
    BY DEF IInv, Typed, TypeOK
  <2>1. Shown \in Nat /\ Shown' \in Nat /\ Shown <= Shown' BY <1>3, RemoteGrows
  <2>2. copyOf' = copyOf /\ (Exact' => Exact) BY <1>3, FrameIs
  <2>3. ASSUME NEW c \in owns, Exact, KnownAt(c)' PROVE state'[c].to <= Shown'
    <3>1. CASE state'[c] = state[c]
      <4>1. KnownAt(c) BY <2>3, <3>1 DEF KnownAt
      <4>2. state[c].to <= Shown BY <2>3, <4>1 DEF Claims
      <4>3. state[c] \in Held BY <2>0, <4>1 DEF KnownAt
      <4> QED BY <2>1, <3>1, <4>2, <4>3 DEF Held
    <3>2. CASE state'[c] # state[c]
      <4>1. c \in Copies BY <2>0
      <4>2. \/ CopyRecord /\ c = "copy"
            \/ \E p \in Procs : copyOf[p] = c /\ Ship(p)
            \/ \E p \in Procs : copyOf[p] = c /\ Upload(p) /\ ~There(Name(proc[p].obj))
        BY <1>3, <2>3, <3>2, <4>1, StatesMove DEF KnownAt
      <4>3. ~(CopyRecord /\ c = "copy") BY <2>0 DEF CopyRecord
      <4>4. ASSUME NEW p \in Procs, copyOf[p] = c, Ship(p) PROVE state'[c].to <= Shown'
        <5>1. state'[c] = [to |-> Shown, next |-> Top + 1] \/ state'[c] \in {state[c], NoState}
          BY <4>4, ShipIs
        <5>2. state'[c].to = Shown BY <2>3, <3>2, <5>1 DEF KnownAt
        <5> QED BY <2>1, <5>2
      <4>5. ASSUME NEW p \in Procs, copyOf[p] = c, Upload(p), ~There(Name(proc[p].obj))
            PROVE  state'[c].to <= Shown'
        <5>1. /\ state'[copyOf[p]] = [to |-> proc[p].obj.to, next |-> proc[p].obj.last + 1]
              /\ Exact => Shown' = proc[p].obj.to
          BY <1>3, <4>5, UploadIs
        <5>2. state'[c].to = proc[p].obj.to BY <4>5, <5>1
        <5> QED BY <2>1, <2>3, <5>1, <5>2
      <4> QED BY <4>2, <4>3, <4>4, <4>5
    <3> QED BY <3>1, <3>2
  <2>4. ASSUME NEW c \in owns, state'[c] = INDEXED PROVE AllThere(c)'
    <3>1. CASE state'[c] = state[c]
      <4>1. AllThere(c) BY <2>4, <3>1 DEF Claims
      <4> QED BY <1>3, <4>1, AllStays
    <3>2. CASE state'[c] # state[c]
      <4>1. PICK p \in Procs :
               /\ copyOf[p] = c
               /\ proc[p].at = "seal" \/ (proc[p].at = "delete" /\ ~proc[p].obj.resume)
        BY <1>3, <2>4, <3>2, IndexedBy
      <4>2. AllThere(c) BY <4>1 DEF Claims
      <4> QED BY <1>3, <4>2, AllStays
    <3> QED BY <3>1, <3>2
  <2>5. ASSUME NEW p \in Procs,
               proc'[p].at = "seal" \/ (proc'[p].at = "delete" /\ ~proc'[p].obj.resume)
        PROVE  AllThere(copyOf[p])'
    <3>1. ASSUME proc[p].at = "seal" \/ (proc[p].at = "delete" /\ ~proc[p].obj.resume)
          PROVE  AllThere(copyOf[p])'
      <4>1. AllThere(copyOf[p]) BY <3>1 DEF Claims
      <4>2. copyOf[p] \in owns BY <3>1, WorksFor
      <4>3. \A c \in owns : AllThere(c) => retired' /\ file'[c] <= Shown'
        BY <1>3, AllStays DEF AllThere
      <4> QED BY <2>2, <4>1, <4>2, <4>3 DEF AllThere
    <3>2. CASE proc'[p] = proc[p] BY <2>5, <3>1, <3>2
    <3>3. CASE proc'[p] # proc[p]
      <4>1. \/ proc'[p].at = "seal" /\ Delete(p)
            \/ proc'[p].at = "delete" /\ ~proc'[p].obj.resume /\ (MergeCreate(p) \/ Replace(p))
        BY <1>3, <2>5, <3>3, MovesTo
      <4>2. CASE proc'[p].at = "seal" /\ Delete(p)
        <5>1. ~Over(p) BY <2>0, <4>2 DEF Over, Set, Rest
        <5>2. proc[p].at = "delete" /\ ~proc[p].obj.resume BY <3>3, <4>2, <5>1 DEF Delete
        <5> QED BY <3>1, <5>2
      <4>3. CASE proc'[p].at = "delete" /\ ~proc'[p].obj.resume /\ MergeCreate(p)
        <5>1. ~Over(p) BY <2>0, <4>3 DEF Over, Set, Rest
        <5>2. \E ks : Set(p, [proc[p] EXCEPT !.at = "delete", !.keys = ks]) BY <4>3, <5>1 DEF MergeCreate
        <5>3. proc'[p].obj = proc[p].obj BY <2>0, <5>2 DEF Set, ProcType
        <5>4. proc[p].obj.resume BY <4>3 DEF MergeCreate, IInv, Working
        <5> QED BY <4>3, <5>3, <5>4
      <4>4. CASE Replace(p) BY <1>3, <4>4, ReplacedIs
      <4> QED BY <4>1, <4>2, <4>3, <4>4
    <3> QED BY <3>2, <3>3
  <2> QED BY <1>3, <2>2, <2>3, <2>4, <2>5 DEF Claims
<1> QED BY <1>1, <1>2, <1>3

\* A ship state claims no more than a reader of the remote sees, whatever fails, is
\* retried, merged, sealed or adopted: what the next sync leaves out is there
\* (_ship_stream, _ship_blocks, put_indexed).
THEOREM ClaimsAlways ==
    ASSUME "metrics" \notin Late
    PROVE  Spec => []Claims
<1>1. Init => Claims
  <2>1. NoState # INDEXED BY DEF NoState, INDEXED
  <2>2. Init => \A c \in owns : state[c] = NoState BY DEF Init, Copies
  <2>3. Init => \A p \in Procs : proc[p].at = "idle" BY DEF Init, Rest
  <2> QED BY <2>1, <2>2, <2>3 DEF Claims, KnownAt
<1>2. IInv /\ Claims /\ [Next]_vars => Claims' BY ClaimsStay
<1> QED BY <1>1, <1>2, Invariance, PTL DEF Spec

\* What a process that is done with its file has in its ship state.
Told(p) ==
    \/ proc[p].at = "dead" \/ copyOf[p] \notin owns \/ file[copyOf[p]] = 0
    \/ state[copyOf[p]] = INDEXED
    \/ KnownAt(copyOf[p]) /\ file[copyOf[p]] <= state[copyOf[p]].to

\* If, again and again, the ship state that a process goes by has the whole file,
\* then the file arrives at the remote: fairness is needed only for a sync to get
\* that far, never for the remote to agree (sync_log_to_remote,
\* sync_metrics_to_remote).
THEOREM ToldArrives ==
    ASSUME "metrics" \notin Late
    PROVE  Spec /\ (\A p \in Procs : []<>Told(p)) => AllShipped
<1>1. ASSUME NEW p \in Procs, IInv, Claims, Told(p) PROVE Exact => Arrived(p)
  <2>0. /\ state \in [Copies -> Held \cup {NoState, INDEXED}] /\ owns \subseteq Copies
        /\ file \in [Copies -> Nat] /\ Shown \in Nat
    BY <1>1, TopIs DEF IInv, Typed, TypeOK, OnRemote, Shown
  <2>1. CASE proc[p].at = "dead" \/ copyOf[p] \notin owns \/ file[copyOf[p]] = 0
    BY <2>0, <2>1 DEF Arrived
  <2>2. CASE copyOf[p] \in owns /\ state[copyOf[p]] = INDEXED
    BY <1>1, <2>2 DEF Claims, AllThere, Arrived
  <2>3. CASE copyOf[p] \in owns /\ KnownAt(copyOf[p]) /\ file[copyOf[p]] <= state[copyOf[p]].to
    <3>1. state[copyOf[p]] \in Held BY <2>0, <2>3 DEF KnownAt
    <3>2. Exact => state[copyOf[p]].to <= Shown BY <1>1, <2>3 DEF Claims
    <3> QED BY <2>0, <2>3, <3>1, <3>2 DEF Held, Arrived
  <2> QED BY <1>1, <2>1, <2>2, <2>3 DEF Told
<1>2. ASSUME NEW p \in Procs PROVE Spec /\ []<>Told(p) => []<>(Exact => Arrived(p))
  <2>1. IInv /\ Claims /\ Told(p) => (Exact => Arrived(p)) BY <1>1
  <2> QED BY <2>1, Invariance, ClaimsAlways, PTL
<1> QED BY <1>2 DEF AllShipped
=============================================================================
