---------------------------- MODULE JournalProofs ----------------------------
(***************************************************************************)
(* What a restarted server can rely on, for any records, windows, lags,    *)
(* batches, clocks that are fast, and faults.                              *)
(***************************************************************************)
EXTENDS Journal, FiniteSetTheorems, TLAPS

-----------------------------------------------------------------------------
(***************************************************************************)
(* The inductive invariant: where a change that was noted is on its way to *)
(* the saved records.                                                      *)
(***************************************************************************)

\* Nothing went wrong with the note of its record.
Clear(n) == odd[n.key] = {}

\* The index has the change, or the refresh under way has found it.
Fetched(n) ==
    \/ mem[n.key] >= n.ver
    \/ refresh.at = "save" /\ refresh.found[n.key] >= n.ver

Known(n) == n.key \in hinted \/ Fetched(n)

\* The listing behind serving will find it, or has found it and not handed it over.
Listing(n) ==
    /\ relist.on /\ n.key \notin relist.seen
    /\ \/ ~relist.named
       \/ n.key \in relist.todo
       \/ \E r \in relist.ready : r[1] = n.key /\ r[2] >= n.ver

\* The reader's next rescan comes in time for it.
Timely(n) ==
    n.age <= IF Full THEN Most(reader.last, 0) + Skew ELSE Skew - Rescan + reader.rescan

\* The index relies on hints, and has replayed what it missed.
Settled ==
    /\ watched /\ replay = NoAge
    /\ sweep.full \/ sweep.resuming \/ relist.on

\* Notes are of writes; only notes that are read are marked, and none is older
\* than the journal keeps.
Noted ==
    /\ \A n \in pend \cup notes : n.ver \in 1 .. disk[n.key]
    /\ \A n \in pend : ~n.read
    /\ \A n \in notes : (n.read => n.age >= 0) /\ (Clear(n) => n.age <= Retain)

\* The records and the marks of the index.
Indexed ==
    /\ \A k \in Keys : stored[k] <= mem[k] /\ (aside[k] # "no" => odd[k] # {})
    /\ relist.on => behind /\ ~sweep.full /\ ~sweep.resuming
    /\ ~watched => replay = NoAge /\ ~sweep.full /\ ~sweep.resuming /\ ~relist.on
    /\ sweep.reached # NoAge \/ sweep.taken # NoAge \/ sweep.before # NoAge =>
          watched /\ replay = NoAge
    /\ refresh.at = "idle" => sweep.before = sweep.taken

\* What a listing behind serving has listed.
Relisted ==
    /\ ~relist.named => relist.todo = {} /\ relist.ready = {}
    /\ \A r \in relist.ready : r[1] \notin relist.todo
    /\ \A r, s \in relist.ready : r[1] = s[1] => r = s

\* Before the replay the index lacks what its mark reaches back to, at most.
Replaying ==
    watched /\ replay # NoAge =>
       \A n \in notes : Clear(n) => Fetched(n) \/ n.age <= replay + Skew

\* After it a note was hinted, or the reader will read it; those the hints, and
\* the records taken now or before, do not reach are younger than what the mark
\* reaches back to.
Following ==
    Settled =>
       \A n \in notes : Clear(n) =>
          /\ Known(n) \/ Listing(n) \/ (~n.read /\ Timely(n))
          /\ sweep.reached # NoAge => Known(n) \/ Listing(n) \/ n.age <= sweep.reached + Skew
          /\ sweep.taken # NoAge => Fetched(n) \/ Listing(n) \/ n.age <= sweep.taken + Skew
          /\ sweep.before # NoAge => Fetched(n) \/ Listing(n) \/ n.age <= sweep.before + Skew

IInv ==
    /\ TypeOK /\ Noted /\ Indexed /\ Relisted
    /\ Replaying /\ Following
    /\ RestartFindsAll

-----------------------------------------------------------------------------
(***************************************************************************)
(* Ages and types.                                                         *)
(***************************************************************************)

\* The bounds.
LEMMA Bounds ==
    /\ Lag \in Nat /\ Skew \in Nat /\ Rescan \in Nat /\ Minute \in Nat /\ Retain \in Nat
    /\ Margin \in Nat /\ Ahead \in Nat
    /\ Skew > 0 /\ Rescan > 0 /\ Rescan <= Skew /\ Skew + Margin <= Retain
    /\ Cap = Retain + 1 /\ NoAge = -1
BY JournalAssumption DEF Cap, NoAge

\* An age grows up to the cap, and with it the bound it is below.
LEMMA OlderIs ==
    ASSUME NEW a \in Ages
    PROVE  /\ Older(a) \in Ages /\ (Older(a) = NoAge <=> a = NoAge)
           /\ a # NoAge => a \in 0 .. Cap /\ Older(a) \in 0 .. Cap
           /\ a # NoAge /\ a < Cap => Older(a) = a + 1
           /\ \A x \in (0 - Ahead) .. Cap :
                 /\ Least(x + 1, Cap) \in (0 - Ahead) .. Cap
                 /\ Least(x + 1, Cap) \in {x + 1, Cap} /\ x <= Least(x + 1, Cap)
                 /\ a # NoAge /\ x <= a + Skew => Least(x + 1, Cap) <= Older(a) + Skew
BY Bounds DEF Ages, Older, Least

\* The types a step relies on.
LEMMA Types ==
    ASSUME TypeOK
    PROVE  /\ \A k \in Keys : disk[k] \in Nat /\ mem[k] \in Nat /\ stored[k] \in Nat
                              /\ refresh.found[k] \in Nat
           /\ \A n \in pend \cup notes :
                 /\ n.key \in Keys /\ n.ver \in Nat /\ n.age \in Int /\ n.age <= Cap
                 /\ n.age \in (0 - Ahead) .. Cap /\ n.read \in BOOLEAN
           /\ reader.last \in Ages /\ reader.rescan \in {NoAge} \cup 0 .. Rescan
           /\ sweep.reached \in Ages /\ sweep.taken \in Ages /\ sweep.before \in Ages
           /\ \A r \in relist.ready : r[1] \in Keys /\ r[2] \in Nat
           /\ relist.todo \subseteq Keys
BY Bounds DEF TypeOK, Notes

\* Ages are numbers.
LEMMA AgesAre == \A a \in Ages : a \in Int /\ (a = NoAge \/ a >= 0) /\ a <= Cap
BY Bounds DEF Ages

\* The journal's notes stay notes when they age.
LEMMA NotesAge ==
    ASSUME NEW N \in SUBSET Notes
    PROVE  Aged(N) \subseteq Notes
<1> SUFFICES ASSUME NEW n \in N PROVE [n EXCEPT !.age = Least(n.age + 1, Cap)] \in Notes
  BY DEF Aged
<1>1. n \in Notes OBVIOUS
<1>2. n.age \in (0 - Ahead) .. Cap BY <1>1 DEF Notes
<1>3. NoAge \in Ages BY DEF Ages
<1>4. Least(n.age + 1, Cap) \in (0 - Ahead) .. Cap BY <1>2, <1>3, OlderIs
<1> QED BY <1>1, <1>4 DEF Notes

\* And when they are read, or a reader begins anew.
LEMMA NotesRead ==
    ASSUME notes \subseteq Notes
    PROVE  /\ \A F : MarkRead(F) => notes' \subseteq Notes
           /\ {[n EXCEPT !.read = FALSE] : n \in notes} \subseteq Notes
<1>1. ASSUME NEW n \in notes, NEW b \in BOOLEAN PROVE [n EXCEPT !.read = b] \in Notes
  BY DEF Notes
<1>2. {[n EXCEPT !.read = FALSE] : n \in notes} \subseteq Notes
  <2>1. FALSE \in BOOLEAN OBVIOUS
  <2> QED BY <1>1, <2>1
<1>3. ASSUME NEW F, MarkRead(F) PROVE notes' \subseteq Notes
  <2>1. \A n \in notes : [n EXCEPT !.read = TRUE] \in Notes
    <3>1. TRUE \in BOOLEAN OBVIOUS
    <3> QED BY <1>1, <3>1
  <2> QED BY <1>3, <2>1 DEF MarkRead
<1> QED BY <1>2, <1>3

\* The hints that are not taken are hints.
LEMMA BatchIs ==
    ASSUME TypeOK, NEW B \in Batches
    PROVE  B \subseteq Waiting /\ Waiting \subseteq Keys /\ B \subseteq Keys
BY DEF Batches, Waiting, TypeOK

\* What a batch makes of the policy.
LEMMA BegunIs ==
    ASSUME TypeOK, NEW B \in Batches
    PROVE  /\ Begun(B).full = (sweep.full \/ sweep.resuming)
           /\ Begun(B).full \in BOOLEAN
           /\ ~Begun(B).resuming /\ Begun(B).resuming \in BOOLEAN
           /\ Begun(B).awaiting = sweep.awaiting
           /\ Begun(B).reached = sweep.reached /\ Begun(B).before = sweep.before
           /\ Begun(B).taken = IF B = Waiting THEN sweep.reached ELSE sweep.taken
           /\ Begun(B) \in [full : BOOLEAN, awaiting : BOOLEAN, resuming : BOOLEAN,
                            reached : Ages, taken : Ages, before : Ages]
<1>1. sweep \in [full : BOOLEAN, awaiting : BOOLEAN, resuming : BOOLEAN,
                 reached : Ages, taken : Ages, before : Ages]
  BY DEF TypeOK
<1>2. Taken(B) = IF B = Waiting THEN sweep.reached ELSE sweep.taken BY DEF Taken
<1>3. Taken(B) \in Ages BY <1>1, <1>2
<1> DEFINE whole == sweep.full \/ sweep.resuming
<1>4. Begun(B) = [sweep EXCEPT !.taken = Taken(B), !.full = whole, !.resuming = FALSE]
  BY DEF Begun
<1>5. whole \in BOOLEAN OBVIOUS
<1> HIDE DEF whole
<1>6. /\ Begun(B).full = whole /\ Begun(B).resuming = FALSE
      /\ Begun(B).awaiting = sweep.awaiting
      /\ Begun(B).reached = sweep.reached /\ Begun(B).before = sweep.before
      /\ Begun(B).taken = Taken(B)
      /\ Begun(B) \in [full : BOOLEAN, awaiting : BOOLEAN, resuming : BOOLEAN,
                       reached : Ages, taken : Ages, before : Ages]
  BY <1>1, <1>3, <1>4, <1>5
<1>7. Begun(B).full = (sweep.full \/ sweep.resuming)
  BY <1>6, Zenon DEF whole
<1> QED BY <1>2, <1>5, <1>6, <1>7

\* A listing reads the records S, of the versions ver, whatever it took for that.
Finds(S, ver) ==
    \E took \in SUBSET Keys, whole \in BOOLEAN : Found(S, ver, took, whole)

\* What a refresh has at hand.
Refreshes == [at : {"idle", "save"}, found : [Keys -> Nat], took : SUBSET Keys, whole : BOOLEAN]

\* A refresh that lists the records S, of the versions ver, has found those it
\* read, and notes what it could not read.
LEMMA FoundIs ==
    ASSUME TypeOK, NEW S \in SUBSET Keys, NEW ver, \A k \in S : ver[k] \in Nat, Finds(S, ver)
    PROVE  /\ refresh' \in Refreshes /\ refresh'.at = "save"
           /\ aside' \in [Keys -> {"no", "waits", "due"}]
           /\ odd' \in [Keys -> SUBSET {"late", "dropped", "aside", "refused", "lost"}]
           /\ faults' \in Nat
           /\ \A k \in Keys :
                 /\ odd[k] \subseteq odd'[k]
                 /\ aside'[k] # "no" => aside[k] # "no" \/ odd'[k] # {}
                 /\ k \in S /\ aside[k] # "waits" /\ odd'[k] = {} => refresh'.found[k] = ver[k]
<1> DEFINE read == {k \in S : aside[k] # "waits"}
<1>0. PICK took \in SUBSET Keys, whole \in BOOLEAN : Found(S, ver, took, whole) BY DEF Finds
<1>1. PICK bad \in SUBSET read :
         /\ bad = {} \/ (Cardinality(bad) = 1 /\ faults < MaxFaults)
         /\ faults' = faults + Cardinality(bad)
         /\ refresh' = [at |-> "save", took |-> took, whole |-> whole,
                        found |-> [k \in Keys |-> IF k \in read \ bad THEN ver[k] ELSE 0]]
         /\ aside' = [k \in Keys |-> IF k \in bad THEN "waits"
                                     ELSE IF k \in read THEN "no" ELSE aside[k]]
         /\ odd' = [k \in Keys |-> IF k \in bad THEN odd[k] \cup {"aside"} ELSE odd[k]]
  BY <1>0 DEF Found
<1>2. /\ aside \in [Keys -> {"no", "waits", "due"}]
      /\ odd \in [Keys -> SUBSET {"late", "dropped", "aside", "refused", "lost"}]
      /\ faults \in Nat
  BY DEF TypeOK
<1>3. Cardinality(bad) \in Nat
  <2>1. bad = {} \/ Cardinality(bad) = 1 BY <1>1
  <2>2. CASE bad = {}
    <3>1. Cardinality({}) = 0 BY FS_EmptySet
    <3>2. Cardinality(bad) = 0 BY <2>2, <3>1
    <3> QED BY <3>2
  <2>3. CASE Cardinality(bad) = 1 BY <2>3
  <2> QED BY <2>1, <2>2, <2>3
<1>4. \A k \in Keys : (IF k \in read \ bad THEN ver[k] ELSE 0) \in Nat
  OBVIOUS
<1> HIDE DEF read
<1>5. refresh' \in Refreshes /\ refresh'.at = "save"
  BY <1>0, <1>1, <1>4 DEF Refreshes
<1>6. /\ aside' \in [Keys -> {"no", "waits", "due"}]
      /\ odd' \in [Keys -> SUBSET {"late", "dropped", "aside", "refused", "lost"}]
      /\ faults' \in Nat
  BY <1>1, <1>2, <1>3
<1>7. ASSUME NEW k \in Keys
      PROVE  /\ odd[k] \subseteq odd'[k]
             /\ aside'[k] # "no" => aside[k] # "no" \/ odd'[k] # {}
             /\ k \in S /\ aside[k] # "waits" /\ odd'[k] = {} => refresh'.found[k] = ver[k]
  BY <1>1 DEF read
<1> QED BY <1>5, <1>6, <1>7

\* What Older makes of the ages of a policy.
LEMMA AgedPolicy ==
    ASSUME TypeOK, sweep' = [sweep EXCEPT !.reached = Older(@), !.taken = Older(@),
                                          !.before = Older(@)]
    PROVE  /\ sweep' \in [full : BOOLEAN, awaiting : BOOLEAN, resuming : BOOLEAN,
                          reached : Ages, taken : Ages, before : Ages]
           /\ sweep'.full = sweep.full /\ sweep'.resuming = sweep.resuming
           /\ sweep'.awaiting = sweep.awaiting
           /\ sweep'.reached = Older(sweep.reached) /\ sweep'.taken = Older(sweep.taken)
           /\ sweep'.before = Older(sweep.before)
<1>1. sweep \in [full : BOOLEAN, awaiting : BOOLEAN, resuming : BOOLEAN,
                 reached : Ages, taken : Ages, before : Ages]
  BY DEF TypeOK
<1>2. Older(sweep.reached) \in Ages /\ Older(sweep.taken) \in Ages /\ Older(sweep.before) \in Ages
  BY <1>1, OlderIs
<1> QED BY <1>1, <1>2

\* The conjuncts of TypeOK that are not of the index's refresh.
LEMMA TypeFrame ==
    ASSUME TypeOK,
           behind' = behind,
           disk' \in [Keys -> Nat], mem' \in [Keys -> Nat], stored' \in [Keys -> Nat],
           pend' \subseteq Notes, notes' \subseteq Notes,
           reader' \in [last : Ages, rescan : {NoAge} \cup 0 .. Rescan],
           ticking' \in BOOLEAN, watched' \in BOOLEAN, replay' \in Ages, mark' \in Ages,
           sweep' \in [full : BOOLEAN, awaiting : BOOLEAN, resuming : BOOLEAN,
                       reached : Ages, taken : Ages, before : Ages],
           hinted' \subseteq Keys,
           relist' \in [on : BOOLEAN, named : BOOLEAN, todo : SUBSET Keys,
                        ready : SUBSET (Keys \X Nat), refused : SUBSET Keys, seen : SUBSET Keys],
           refresh' \in Refreshes,
           aside' \in [Keys -> {"no", "waits", "due"}],
           odd' \in [Keys -> SUBSET {"late", "dropped", "aside", "refused", "lost"}],
           faults' \in Nat
    PROVE  TypeOK'
BY DEF TypeOK, Refreshes

\* Every step of the store, of the journal's thread and of a listing keeps the types.
LEMMA TypeStep ==
    ASSUME TypeOK, [Next]_vars
    PROVE  TypeOK'
<1> DEFINE Whats == {"late", "dropped", "aside", "refused", "lost"}
<1>0. /\ disk \in [Keys -> Nat] /\ mem \in [Keys -> Nat] /\ stored \in [Keys -> Nat]
      /\ pend \subseteq Notes /\ notes \subseteq Notes
      /\ reader \in [last : Ages, rescan : {NoAge} \cup 0 .. Rescan]
      /\ ticking \in BOOLEAN /\ watched \in BOOLEAN /\ replay \in Ages /\ mark \in Ages
      /\ sweep \in [full : BOOLEAN, awaiting : BOOLEAN, resuming : BOOLEAN,
                    reached : Ages, taken : Ages, before : Ages]
      /\ hinted \subseteq Keys
      /\ relist \in [on : BOOLEAN, named : BOOLEAN, todo : SUBSET Keys,
                     ready : SUBSET (Keys \X Nat), refused : SUBSET Keys, seen : SUBSET Keys]
      /\ refresh \in Refreshes
      /\ aside \in [Keys -> {"no", "waits", "due"}]
      /\ odd \in [Keys -> SUBSET Whats] /\ faults \in Nat
  BY DEF TypeOK, Refreshes
<1>1. Fault => faults' \in Nat BY <1>0 DEF Fault
<1>2. NoAge \in Ages /\ 0 \in Ages /\ TRUE \in BOOLEAN /\ FALSE \in BOOLEAN
  BY Bounds DEF Ages
<1>3. \A k \in Keys, what \in Whats : Went(k, what) \in [Keys -> SUBSET Whats]
  BY <1>0 DEF Went
<1>4. \A N \in SUBSET notes : hinted \cup {n.key : n \in N} \subseteq Keys
  BY <1>0 DEF Notes
<1>5. \A F : MarkRead(F) => notes' \subseteq Notes
  BY <1>0, NotesRead, Zenon
<1>6. Rescanned \in {NoAge} \cup 0 .. Rescan
  BY <1>0, Bounds DEF Rescanned
<1>7. NoRelisting \in [on : BOOLEAN, named : BOOLEAN, todo : SUBSET Keys,
                       ready : SUBSET (Keys \X Nat), refused : SUBSET Keys, seen : SUBSET Keys]
  BY <1>2 DEF NoRelisting
<1>8. /\ Resting \in Refreshes
      /\ InitSweep \in [full : BOOLEAN, awaiting : BOOLEAN, resuming : BOOLEAN,
                        reached : Ages, taken : Ages, before : Ages]
      /\ NoneAside \in [Keys -> {"no", "waits", "due"}]
  BY <1>2 DEF Resting, Refreshes, InitSweep, NoneAside
<1>9. Applied \in [Keys -> Nat]
  BY <1>0 DEF Applied, Most, Refreshes
<1>10. ASSUME NEW B \in Batches
       PROVE  /\ Waiting \ B \subseteq Keys /\ Waiting \subseteq Keys /\ B \subseteq Keys
              /\ Begun(B) \in [full : BOOLEAN, awaiting : BOOLEAN, resuming : BOOLEAN,
                               reached : Ages, taken : Ages, before : Ages]
  BY BatchIs, BegunIs
<1> USE DEF store, journal, index, env, onlyTick, onlyRefresh, onlyRelist
<1>11. ASSUME NEW k \in Keys, Write(k) PROVE TypeOK'
  <2>1. disk' \in [Keys -> Nat] /\ disk'[k] \in Nat BY <1>0, <1>11 DEF Write
  <2>2. PICK fast \in 0 .. Ahead :
           pend' = pend \cup {[key |-> k, ver |-> disk'[k], age |-> 0 - fast, read |-> FALSE]}
    BY <1>11 DEF Write
  <2>3. 0 - fast \in (0 - Ahead) .. Cap BY Bounds
  <2>4. [key |-> k, ver |-> disk'[k], age |-> 0 - fast, read |-> FALSE] \in Notes
    BY <1>2, <2>1, <2>3 DEF Notes
  <2>5. pend' \subseteq Notes BY <1>0, <2>2, <2>4
  <2> QED BY <1>0, <1>11, <2>1, <2>5, TypeFrame DEF Write
<1>12. ASSUME NEW n \in pend, Put(n) PROVE TypeOK'
  <2>1. pend' \subseteq Notes /\ notes' \subseteq Notes /\ n.key \in Keys
    BY <1>0, <1>12 DEF Put, Notes
  <2>2. odd' \in [Keys -> SUBSET Whats] BY <1>0, <1>3, <1>12, <2>1 DEF Put
  <2> QED BY <1>0, <1>12, <2>1, <2>2, TypeFrame DEF Put
<1>13. CASE Kill
  <2>1. odd' \in [Keys -> SUBSET Whats] BY <1>0, <1>13 DEF Kill
  <2>2. pend' \subseteq Notes /\ faults' \in Nat BY <1>1, <1>13 DEF Kill
  <2> QED BY <1>0, <1>13, <2>1, <2>2, TypeFrame DEF Kill
<1>14. CASE Time
  <2>1. pend' \subseteq Notes /\ notes' \subseteq Notes
    <3>1. pend' = Aged(pend) /\ notes' = Aged({n \in notes : n.age < Retain}) BY <1>14 DEF Time
    <3>2. {n \in notes : n.age < Retain} \in SUBSET Notes BY <1>0
    <3>3. Aged(pend) \subseteq Notes BY <1>0, NotesAge
    <3>4. Aged({n \in notes : n.age < Retain}) \subseteq Notes BY <1>0, <3>2, NotesAge
    <3> QED BY <3>1, <3>3, <3>4
  <2>2. reader' \in [last : Ages, rescan : {NoAge} \cup 0 .. Rescan]
    <3>1. reader' = [last |-> Older(reader.last), rescan |-> Least(Older(reader.rescan), Rescan)]
      BY <1>14 DEF Time
    <3>2. Older(reader.last) \in Ages BY <1>0, OlderIs
    <3>3. Least(Older(reader.rescan), Rescan) \in {NoAge} \cup 0 .. Rescan
      BY <1>0, Bounds DEF Least, Older
    <3> QED BY <3>1, <3>2, <3>3
  <2>3. replay' \in Ages /\ mark' \in Ages BY <1>0, <1>14, OlderIs DEF Time
  <2>4. sweep' \in [full : BOOLEAN, awaiting : BOOLEAN, resuming : BOOLEAN,
                    reached : Ages, taken : Ages, before : Ages]
    BY <1>14, AgedPolicy DEF Time
  <2>5. aside' \in [Keys -> {"no", "waits", "due"}] BY <1>14 DEF Time
  <2> QED BY <1>0, <1>14, <2>1, <2>2, <2>3, <2>4, <2>5, TypeFrame DEF Time
<1>15. CASE TickReplay
  <2>1. \A limit : Within(limit) \in SUBSET notes BY DEF Within
  <2>2. hinted' \subseteq Keys BY <1>0, <1>4, <1>15, <2>1 DEF TickReplay, Routed
  <2>3. ticking' \in BOOLEAN /\ replay' \in Ages BY <1>2, <1>15 DEF TickReplay
  <2> QED BY <1>0, <1>15, <2>2, <2>3, TypeFrame DEF TickReplay
<1>16. CASE TickRead
  <2> DEFINE found == {n \in Within(Window) : ~n.read}
  <2>1. found \in SUBSET notes /\ {} \in SUBSET notes BY DEF Within
  <2>2. MarkRead(found) /\ hinted' = Routed(IF watched THEN found ELSE {})
        /\ reader' = [last |-> 0, rescan |-> Rescanned]
        /\ sweep' = [sweep EXCEPT !.reached = IF Tells THEN 0 ELSE @,
                                  !.awaiting = @ /\ ~Tells]
    BY <1>16 DEF TickRead
  <2> HIDE DEF found
  <2>3. notes' \subseteq Notes BY <1>5, <2>2
  <2>4. hinted' \subseteq Keys BY <1>4, <2>1, <2>2 DEF Routed
  <2>5. reader' \in [last : Ages, rescan : {NoAge} \cup 0 .. Rescan] BY <1>2, <1>6, <2>2
  <2>6. sweep' \in [full : BOOLEAN, awaiting : BOOLEAN, resuming : BOOLEAN,
                    reached : Ages, taken : Ages, before : Ages]
    <3> DEFINE a == IF Tells THEN 0 ELSE sweep.reached
               w == sweep.awaiting /\ ~Tells
    <3>1. a \in Ages BY <1>0, <1>2
    <3>2. w \in BOOLEAN OBVIOUS
    <3>3. sweep' = [sweep EXCEPT !.reached = a, !.awaiting = w] BY <2>2
    <3> HIDE DEF a, w
    <3> QED BY <1>0, <3>1, <3>2, <3>3
  <2>7. ticking' \in BOOLEAN BY <1>2, <1>16 DEF TickRead
  <2> QED BY <1>0, <1>16, <2>3, <2>4, <2>5, <2>6, <2>7, TypeFrame DEF TickRead
<1>17. CASE TickFails
  <2>1. notes' \subseteq Notes BY <1>5, <1>17 DEF TickFails
  <2>2. odd' \in [Keys -> SUBSET Whats] BY <1>0, <1>17 DEF TickFails
  <2>3. reader' \in [last : Ages, rescan : {NoAge} \cup 0 .. Rescan]
    BY <1>0, <1>6, <1>17 DEF TickFails
  <2>4. ticking' \in BOOLEAN /\ faults' \in Nat BY <1>1, <1>2, <1>17 DEF TickFails
  <2> QED BY <1>0, <1>17, <2>1, <2>2, <2>3, <2>4, TypeFrame DEF TickFails
<1>18. CASE Watch
  <2>1. watched' \in BOOLEAN /\ replay' \in Ages BY <1>0, <1>2, <1>18 DEF Watch
  <2>2. sweep' \in [full : BOOLEAN, awaiting : BOOLEAN, resuming : BOOLEAN,
                    reached : Ages, taken : Ages, before : Ages]
    <3>1. CASE Resumable
      <4>1. sweep' = [sweep EXCEPT !.resuming = TRUE, !.awaiting = TRUE] BY <1>18, <3>1 DEF Watch
      <4> QED BY <1>0, <1>2, <4>1
    <3>2. CASE ~Resumable
      <4>1. sweep' = [sweep EXCEPT !.full = FALSE, !.resuming = FALSE] BY <1>18, <3>2 DEF Watch
      <4> QED BY <1>0, <1>2, <4>1
    <3> QED BY <3>1, <3>2
  <2> QED BY <1>0, <1>18, <2>1, <2>2, TypeFrame DEF Watch
<1>19. ASSUME NEW B \in Batches, NEW S \in SUBSET Keys, NEW ver, \A k \in S : ver[k] \in Nat,
              Finds(S, ver), hinted' \subseteq Keys,
              sweep' \in {Begun(B), [Begun(B) EXCEPT !.full = TRUE],
                          [Begun(B) EXCEPT !.full = @ \/ RelistDone]},
              relist' \in [on : BOOLEAN, named : BOOLEAN, todo : SUBSET Keys,
                           ready : SUBSET (Keys \X Nat), refused : SUBSET Keys, seen : SUBSET Keys],
              UNCHANGED <<onlyRefresh, mem, stored, mark>>
       PROVE  TypeOK'
  <2>1. sweep' \in [full : BOOLEAN, awaiting : BOOLEAN, resuming : BOOLEAN,
                    reached : Ages, taken : Ages, before : Ages]
    <3>1. Begun(B) \in [full : BOOLEAN, awaiting : BOOLEAN, resuming : BOOLEAN,
                        reached : Ages, taken : Ages, before : Ages]
      BY <1>10
    <3>2. ASSUME NEW b \in BOOLEAN
          PROVE  [Begun(B) EXCEPT !.full = b] \in [full : BOOLEAN, awaiting : BOOLEAN,
                    resuming : BOOLEAN, reached : Ages, taken : Ages, before : Ages]
      BY <3>1
    <3>3. (Begun(B).full \/ RelistDone) \in BOOLEAN OBVIOUS
    <3>4. [Begun(B) EXCEPT !.full = @ \/ RelistDone] \in [full : BOOLEAN, awaiting : BOOLEAN,
             resuming : BOOLEAN, reached : Ages, taken : Ages, before : Ages]
      BY <3>2, <3>3, Zenon
    <3> QED BY <1>2, <1>19, <3>1, <3>2, <3>4
  <2>2. /\ refresh' \in Refreshes
        /\ aside' \in [Keys -> {"no", "waits", "due"}]
        /\ odd' \in [Keys -> SUBSET Whats] /\ faults' \in Nat
    BY <1>19, FoundIs
  <2> QED BY <1>0, <1>19, <2>1, <2>2, TypeFrame
<1>20. CASE ListAll
  <2>1. PICK B \in Batches : /\ Starts(B) /\ sweep' = [Begun(B) EXCEPT !.full = TRUE]
                             /\ Found(Keys, disk, B, TRUE)
    BY <1>20 DEF ListAll
  <2>2. hinted' \subseteq Keys BY <1>10, <2>1 DEF Starts
  <2>3. \A k \in Keys : disk[k] \in Nat BY <1>0
  <2>4. Finds(Keys, disk) /\ UNCHANGED <<onlyRefresh, relist, mem, stored, mark>>
    BY <1>10, <1>20, <2>1 DEF ListAll, Finds
  <2>5. Keys \in SUBSET Keys OBVIOUS
  <2> QED BY <1>0, <1>19, <2>1, <2>2, <2>3, <2>4, <2>5
<1>21. CASE ListBehind
  <2>1. PICK B \in Batches :
           /\ Starts(B) /\ sweep' = Begun(B)
           /\ relist' = [NoRelisting EXCEPT !.on = TRUE, !.seen = B]
           /\ Finds(B, disk)
    BY <1>10, <1>21 DEF ListBehind, Finds
  <2>2. hinted' \subseteq Keys /\ B \in SUBSET Keys BY <1>10, <2>1 DEF Starts
  <2>3. \A k \in B : disk[k] \in Nat BY <1>0, <2>2
  <2>4. relist' \in [on : BOOLEAN, named : BOOLEAN, todo : SUBSET Keys,
                     ready : SUBSET (Keys \X Nat), refused : SUBSET Keys, seen : SUBSET Keys]
    BY <1>2, <1>7, <2>1, <2>2
  <2>5. UNCHANGED <<onlyRefresh, mem, stored, mark>> BY <1>21 DEF ListBehind
  <2> QED BY <1>19, <2>1, <2>2, <2>3, <2>4, <2>5
<1>22. CASE ListRelisted
  <2> DEFINE seen(B) == relist.seen \cup B
             handed(B) == {r \in relist.ready : r[1] \notin seen(B)}
             S(B) == B \cup {r[1] : r \in handed(B)}
             ver(B) == [k \in Keys |-> IF k \in B THEN disk[k]
                                       ELSE (CHOOSE r \in handed(B) : r[1] = k)[2]]
  <2>1. PICK B \in Batches :
           /\ hinted' = (Waiting \ B) \cup relist.refused
           /\ sweep' = [Begun(B) EXCEPT !.full = @ \/ RelistDone]
           /\ relist' = IF RelistDone THEN NoRelisting
                        ELSE [relist EXCEPT !.ready = {}, !.refused = {}, !.seen = seen(B)]
           /\ Found(S(B), ver(B), S(B), FALSE)
    BY <1>22 DEF ListRelisted
  <2>2. hinted' \subseteq Keys /\ B \subseteq Keys BY <1>0, <1>10, <2>1
  <2>3. S(B) \in SUBSET Keys BY <1>0, <2>2
  <2>4. ASSUME NEW k \in S(B) PROVE ver(B)[k] \in Nat
    <3>1. k \in Keys BY <2>3, <2>4
    <3>2. CASE k \in B BY <1>0, <3>1, <3>2
    <3>3. CASE k \notin B
      <4>1. \E r \in handed(B) : r[1] = k BY <2>4, <3>3
      <4>2. (CHOOSE r \in handed(B) : r[1] = k) \in handed(B) BY <4>1
      <4>3. handed(B) \subseteq Keys \X Nat BY <1>0
      <4> QED BY <3>1, <3>3, <4>2, <4>3
    <3> QED BY <3>2, <3>3
  <2>5. relist' \in [on : BOOLEAN, named : BOOLEAN, todo : SUBSET Keys,
                     ready : SUBSET (Keys \X Nat), refused : SUBSET Keys, seen : SUBSET Keys]
    <3>1. relist.seen \cup B \in SUBSET Keys BY <1>0, <2>2
    <3> QED BY <1>0, <1>7, <2>1, <3>1
  <2>6. UNCHANGED <<onlyRefresh, mem, stored, mark>> BY <1>22 DEF ListRelisted
  <2> HIDE DEF S, ver
  <2>7. Finds(S(B), ver(B)) BY <2>1, <2>3 DEF Finds
  <2> QED BY <1>19, <2>1, <2>2, <2>3, <2>4, <2>5, <2>6, <2>7
<1>23. CASE ListHinted
  <2>1. PICK B \in Batches : Starts(B) /\ sweep' = Begun(B) /\ Finds(B, disk)
    BY <1>10, <1>23 DEF ListHinted, Finds
  <2>2. hinted' \subseteq Keys /\ B \in SUBSET Keys BY <1>10, <2>1 DEF Starts
  <2>3. \A k \in B : disk[k] \in Nat BY <1>0, <2>2
  <2>4. UNCHANGED <<onlyRefresh, relist, mem, stored, mark>> BY <1>23 DEF ListHinted
  <2> QED BY <1>0, <1>19, <2>1, <2>2, <2>3, <2>4
<1>24. CASE ListFails
  <2>1. PICK B \in Batches : Failed(B) BY <1>24 DEF ListFails
  <2>2. hinted' \subseteq Keys BY <1>10, <2>1 DEF Failed
  <2>3. sweep' \in [full : BOOLEAN, awaiting : BOOLEAN, resuming : BOOLEAN,
                    reached : Ages, taken : Ages, before : Ages]
    <3>1. sweep' = [Begun(B) EXCEPT !.taken = sweep.before] BY <2>1 DEF Failed
    <3> QED BY <1>0, <1>10, <3>1
  <2>4. relist' \in [on : BOOLEAN, named : BOOLEAN, todo : SUBSET Keys,
                     ready : SUBSET (Keys \X Nat), refused : SUBSET Keys, seen : SUBSET Keys]
    BY <1>0, <1>7, <1>24 DEF ListFails
  <2>5. faults' \in Nat BY <1>1, <1>24 DEF ListFails
  <2> QED BY <1>0, <1>24, <2>2, <2>3, <2>4, <2>5, TypeFrame DEF ListFails
<1>25. ASSUME sweep' = [sweep EXCEPT !.before = sweep.taken]
       PROVE  sweep' \in [full : BOOLEAN, awaiting : BOOLEAN, resuming : BOOLEAN,
                          reached : Ages, taken : Ages, before : Ages]
  BY <1>0, <1>25
<1>26. CASE Save
  <2>1. mark' \in Ages
    <3>1. Persistable \in Ages BY <1>0, <1>2 DEF Persistable
    <3> QED BY <1>0, <1>26, <3>1 DEF Save
  <2> QED BY <1>0, <1>8, <1>9, <1>25, <1>26, <2>1, TypeFrame DEF Save
<1>33. ASSUME SavesSome PROVE stored' \in [Keys -> Nat] /\ mark' \in Ages
  BY <1>0, <1>9, <1>33 DEF SavesSome
<1>27. CASE SaveFails
  BY <1>0, <1>1, <1>8, <1>9, <1>25, <1>27, <1>33, TypeFrame DEF SaveFails
<1>34. CASE SaveRaises
  <2> DEFINE f == sweep.full /\ ~refresh.whole
  <2>1. f \in BOOLEAN OBVIOUS
  <2>2. sweep' = [sweep EXCEPT !.taken = sweep.before, !.full = f] BY <1>34 DEF SaveRaises
  <2> HIDE DEF f
  <2>3. sweep' \in [full : BOOLEAN, awaiting : BOOLEAN, resuming : BOOLEAN,
                    reached : Ages, taken : Ages, before : Ages]
    BY <1>0, <2>1, <2>2
  <2>4. hinted' \subseteq Keys BY <1>0, <1>34 DEF SaveRaises, Refreshes
  <2> QED BY <1>0, <1>1, <1>8, <1>9, <1>33, <1>34, <2>3, <2>4, TypeFrame DEF SaveRaises
<1>28. CASE RelistNames
  <2>1. relist' \in [on : BOOLEAN, named : BOOLEAN, todo : SUBSET Keys,
                     ready : SUBSET (Keys \X Nat), refused : SUBSET Keys, seen : SUBSET Keys]
    <3> DEFINE K == {k \in Keys : disk[k] > 0 \/ mem[k] > 0}
    <3>1. K \in SUBSET Keys OBVIOUS
    <3>2. relist' = [relist EXCEPT !.named = TRUE, !.todo = K] BY <1>28 DEF RelistNames
    <3> HIDE DEF K
    <3> QED BY <1>0, <1>2, <3>1, <3>2
  <2> QED BY <1>0, <1>28, <2>1, TypeFrame DEF RelistNames
<1>29. ASSUME NEW k \in Keys, RelistFiles(k) PROVE TypeOK'
  <2>1. relist' \in [on : BOOLEAN, named : BOOLEAN, todo : SUBSET Keys,
                     ready : SUBSET (Keys \X Nat), refused : SUBSET Keys, seen : SUBSET Keys]
    <3>1. <<k, disk[k]>> \in Keys \X Nat BY <1>0
    <3>2. relist.ready \cup {<<k, disk[k]>>} \in SUBSET (Keys \X Nat) BY <1>0, <3>1
    <3>3. relist.todo \ {k} \in SUBSET Keys BY <1>0
    <3> QED BY <1>0, <1>29, <3>2, <3>3 DEF RelistFiles
  <2> QED BY <1>0, <1>29, <2>1, TypeFrame DEF RelistFiles
<1>30. ASSUME NEW k \in Keys, RelistRefused(k) PROVE TypeOK'
  <2>1. relist' \in [on : BOOLEAN, named : BOOLEAN, todo : SUBSET Keys,
                     ready : SUBSET (Keys \X Nat), refused : SUBSET Keys, seen : SUBSET Keys]
    BY <1>0, <1>30 DEF RelistRefused
  <2>2. odd' \in [Keys -> SUBSET Whats] BY <1>3, <1>30 DEF RelistRefused
  <2> QED BY <1>0, <1>1, <1>30, <2>1, <2>2, TypeFrame DEF RelistRefused
<1>31. CASE Restart
  <2>1. reader' \in [last : Ages, rescan : {NoAge} \cup 0 .. Rescan]
    <3>1. PICK cursor \in IF reader.last = NoAge THEN {NoAge} ELSE reader.last .. Cap :
             reader' = [last |-> cursor, rescan |-> NoAge]
      BY <1>31 DEF Restart
    <3>2. cursor \in Ages BY <1>0, Bounds DEF Ages
    <3> QED BY <3>1, <3>2
  <2>2. notes' \subseteq Notes BY <1>0, <1>31, NotesRead DEF Restart
  <2>3. odd' \in [Keys -> SUBSET Whats] BY <1>0, <1>31 DEF Restart
  <2>4. mem' \in [Keys -> Nat] /\ hinted' \subseteq Keys BY <1>0, <1>31 DEF Restart
  <2> QED
    BY <1>0, <1>1, <1>2, <1>7, <1>8, <1>31, <2>1, <2>2, <2>3, <2>4, TypeFrame DEF Restart
<1>32. CASE UNCHANGED vars
  BY <1>0, <1>32, TypeFrame DEF vars
<1> QED
  BY <1>11, <1>12, <1>13, <1>14, <1>15, <1>16, <1>17, <1>18, <1>20, <1>21, <1>22, <1>23,
     <1>24, <1>26, <1>27, <1>28, <1>29, <1>30, <1>31, <1>32, <1>34 DEF Next, Tick, Refresh

-----------------------------------------------------------------------------
(***************************************************************************)
(* Notes, records and marks.                                               *)
(***************************************************************************)

\* A note that is read, or found to be read already.
LEMMA MarkIs ==
    ASSUME TypeOK, NEW F, MarkRead(F), NEW m \in notes'
    PROVE  \E n \in notes : /\ m.key = n.key /\ m.ver = n.ver /\ m.age = n.age
                            /\ m.read = TRUE \/ (m = n /\ n \notin F)
                            /\ n.read \/ n \in F => m.read
                            /\ m.read => n.read \/ n \in F
<1>1. PICK n \in notes : m = IF n \in F THEN [n EXCEPT !.read = TRUE] ELSE n
  BY DEF MarkRead
<1>2. n \in Notes BY DEF TypeOK
<1>3. CASE n \in F
  <2>1. m = [n EXCEPT !.read = TRUE] BY <1>1, <1>3
  <2>2. m.key = n.key /\ m.ver = n.ver /\ m.age = n.age /\ m.read = TRUE
    BY <1>2, <2>1 DEF Notes
  <2> QED BY <1>3, <2>2
<1>4. CASE n \notin F
  <2>1. m = n BY <1>1, <1>4
  <2> QED BY <1>4, <2>1
<1> QED BY <1>3, <1>4

\* A note that ages.
LEMMA AgedIs ==
    ASSUME NEW S \in SUBSET Notes, NEW m \in Aged(S)
    PROVE  \E n \in S : /\ m.key = n.key /\ m.ver = n.ver /\ m.read = n.read
                        /\ m.age = Least(n.age + 1, Cap)
<1>1. PICK n \in S : m = [n EXCEPT !.age = Least(n.age + 1, Cap)] BY DEF Aged
<1>2. n \in Notes OBVIOUS
<1> QED BY <1>1, <1>2 DEF Notes

\* What went wrong is not forgotten.
LEMMA OddGrows ==
    ASSUME TypeOK, [Next]_vars
    PROVE  \A k \in Keys : odd[k] \subseteq odd'[k]
<1>0. odd \in [Keys -> SUBSET {"late", "dropped", "aside", "refused", "lost"}] BY DEF TypeOK
<1> SUFFICES ASSUME NEW k \in Keys PROVE odd[k] \subseteq odd'[k]
  OBVIOUS
<1>1. ASSUME NEW i, NEW what, odd' = Went(i, what) PROVE odd[k] \subseteq odd'[k]
  BY <1>0, <1>1 DEF Went
<1>2. ASSUME NEW n \in pend, Put(n) PROVE odd[k] \subseteq odd'[k]
  BY <1>1, <1>2 DEF Put
<1>3. ASSUME Kill \/ TickFails \/ Restart PROVE odd[k] \subseteq odd'[k]
  BY <1>0, <1>3 DEF Kill, TickFails, Restart
<1>4. ASSUME NEW i \in Keys, RelistRefused(i) PROVE odd[k] \subseteq odd'[k]
  BY <1>1, <1>4 DEF RelistRefused
<1>5. ASSUME NEW S, NEW ver, NEW took, NEW whole, Found(S, ver, took, whole)
      PROVE  odd[k] \subseteq odd'[k]
  BY <1>0, <1>5 DEF Found
<1>6. ASSUME ListAll \/ ListBehind \/ ListRelisted \/ ListHinted PROVE odd[k] \subseteq odd'[k]
  BY <1>5, <1>6 DEF ListAll, ListBehind, ListRelisted, ListHinted
<1>7. ASSUME odd' = odd PROVE odd[k] \subseteq odd'[k]
  BY <1>7
<1> QED
  BY <1>2, <1>3, <1>4, <1>6, <1>7 DEF Next, Tick, Refresh, Write, Time, TickReplay, TickRead,
     Watch, ListFails, Save, SaveFails, SaveRaises, RelistNames, RelistFiles, vars, index

\* The notes of a step that reads, hints, lists or saves are those from before.
LEMMA NotesKeep ==
    ASSUME TypeOK, [Next]_vars, ~Time, ~\E n \in pend : Put(n), NEW m \in notes'
    PROVE  \E n \in notes : /\ m.key = n.key /\ m.ver = n.ver /\ m.age = n.age
                            /\ m.read => n.read \/ n.age >= 0
<1>1. CASE TickRead \/ TickFails
  <2>1. PICK F : MarkRead(F) /\ \A n \in F : n.age >= 0
    <3>1. \A n \in Within(Window) : n.age >= 0
      <4>1. \A n \in Within(Window) : n \in notes /\ n.age \in 0 .. Least(Window, Retain)
        BY DEF Within
      <4> QED BY <4>1, Types
    <3>2. CASE TickRead
      <4> DEFINE F == {n \in Within(Window) : ~n.read}
      <4>1. MarkRead(F) BY <3>2 DEF TickRead
      <4>2. \A n \in F : n.age >= 0 BY <3>1
      <4> QED BY <4>1, <4>2
    <3>3. CASE TickFails
      <4>1. PICK upto \in 0 .. Retain :
               MarkRead({n \in Within(Window) : ~n.read /\ n.age > upto})
        BY <3>3 DEF TickFails
      <4>2. \A m1 \in {n \in Within(Window) : ~n.read /\ n.age > upto} : m1.age >= 0 BY <3>1
      <4> QED BY <4>1, <4>2
    <3> QED BY <1>1, <3>2, <3>3
  <2>2. PICK n \in notes : /\ m.key = n.key /\ m.ver = n.ver /\ m.age = n.age
                           /\ m.read => n.read \/ n \in F
    BY <2>1, MarkIs
  <2> QED BY <2>1, <2>2
<1>2. CASE Restart
  <2>1. PICK n \in notes : m = [n EXCEPT !.read = FALSE] BY <1>2 DEF Restart
  <2>2. n \in Notes BY DEF TypeOK
  <2> QED BY <2>1, <2>2 DEF Notes
<1>3. CASE notes' = notes BY <1>3
<1> QED
  BY <1>1, <1>2, <1>3 DEF Next, Tick, Refresh, Write, Kill, TickReplay, Watch, ListAll,
     ListBehind, ListRelisted, ListHinted, ListFails, Save, SaveFails, SaveRaises, RelistNames,
     RelistFiles, RelistRefused, vars, store, onlyRefresh, onlyRelist

\* The part of the notes.
LEMMA NotedStep ==
    ASSUME TypeOK, Noted, [Next]_vars
    PROVE  Noted'
<1>0. TypeOK' BY TypeStep
<1>1. \A k \in Keys : odd[k] \subseteq odd'[k] BY OddGrows
<1>2. \A n : n.key \in Keys /\ Clear(n)' => Clear(n)
  BY <1>1 DEF Clear
<1>3. ASSUME disk' = disk \/ \E k \in Keys : Write(k),
             \A m \in pend' : (\E n \in pend : m.key = n.key /\ m.ver = n.ver /\ m.read = n.read)
                               \/ (m.ver \in 1 .. disk'[m.key] /\ ~m.read),
             \A m \in notes' : (\E n \in pend \cup notes : m.key = n.key /\ m.ver = n.ver),
             \A m \in notes' : (m.read => m.age >= 0) /\ (Clear(m)' => m.age <= Retain)
      PROVE  Noted'
  <2>1. \A k \in Keys : disk'[k] \in Nat /\ disk[k] \in Nat /\ disk[k] <= disk'[k]
    BY <1>0, <1>3 DEF TypeOK, Write
  <2>2. \A n \in pend \cup notes : n.key \in Keys /\ n.ver \in 1 .. disk[n.key]
    BY DEF Noted, TypeOK, Notes
  <2>3. \A n \in pend \cup notes : n.ver \in 1 .. disk'[n.key]
    BY <2>1, <2>2
  <2>4. ASSUME NEW m \in pend' PROVE m.ver \in 1 .. disk'[m.key] /\ ~m.read
    BY <1>3, <2>3 DEF Noted
  <2>5. ASSUME NEW m \in notes' PROVE m.ver \in 1 .. disk'[m.key]
    BY <1>3, <2>3
  <2> QED BY <1>3, <2>4, <2>5 DEF Noted
<1>4. CASE Time
  <2>1. pend' = Aged(pend) /\ notes' = Aged({n \in notes : n.age < Retain}) /\ odd' = odd
        /\ disk' = disk
    BY <1>4 DEF Time, env
  <2>2. pend \in SUBSET Notes /\ {n \in notes : n.age < Retain} \in SUBSET Notes
    BY DEF TypeOK
  <2>3. ASSUME NEW m \in notes'
        PROVE  /\ \E n \in pend \cup notes : m.key = n.key /\ m.ver = n.ver
               /\ m.read => m.age >= 0
               /\ m.age <= Retain
    <3>1. PICK n \in {n \in notes : n.age < Retain} :
             /\ m.key = n.key /\ m.ver = n.ver /\ m.read = n.read
             /\ m.age = Least(n.age + 1, Cap)
      BY <2>1, <2>2, AgedIs
    <3>2. n.age \in Int /\ (n.read => n.age >= 0) /\ n.age < Retain BY Types DEF Noted
    <3>3. m.age = n.age + 1 BY <3>1, <3>2, Bounds DEF Least
    <3> QED BY <3>1, <3>2, <3>3, Bounds
  <2>4. ASSUME NEW m \in pend'
        PROVE  \E n \in pend : m.key = n.key /\ m.ver = n.ver /\ m.read = n.read
    BY <2>1, <2>2, AgedIs
  <2> QED BY <1>3, <2>1, <2>3, <2>4
<1>5. ASSUME NEW n \in pend, Put(n) PROVE Noted'
  <2>1. /\ pend' = pend \ {n} /\ notes' = notes \cup {n} /\ disk' = disk
        /\ odd' = IF n.age <= Skew - Rescan THEN odd ELSE Went(n.key, "late")
    BY <1>5 DEF Put
  <2>2. n.key \in Keys /\ ~n.read /\ n.age \in Int BY Types DEF Noted
  <2>3. Clear(n)' => n.age <= Retain
    <3>1. CASE n.age <= Skew - Rescan BY <2>2, <3>1, Bounds
    <3>2. CASE ~(n.age <= Skew - Rescan)
      <4>1. odd' = Went(n.key, "late") BY <2>1, <3>2
      <4>2. "late" \in odd'[n.key] BY <2>2, <4>1 DEF Went, TypeOK
      <4> QED BY <4>2 DEF Clear
    <3> QED BY <3>1, <3>2
  <2>4. ASSUME NEW m \in notes
        PROVE  (m.read => m.age >= 0) /\ (Clear(m)' => m.age <= Retain)
    BY <1>2, Types DEF Noted
  <2>5. ASSUME NEW m \in notes'
        PROVE  (m.read => m.age >= 0) /\ (Clear(m)' => m.age <= Retain)
    BY <2>1, <2>2, <2>3, <2>4
  <2> QED BY <1>3, <2>1, <2>5
<1>6. CASE ~Time /\ ~\E n \in pend : Put(n)
  <2>1. ASSUME NEW m \in notes'
        PROVE  /\ \E n \in pend \cup notes : m.key = n.key /\ m.ver = n.ver
               /\ m.read => m.age >= 0
               /\ Clear(m)' => m.age <= Retain
    <3>1. PICK n \in notes : /\ m.key = n.key /\ m.ver = n.ver /\ m.age = n.age
                             /\ m.read => n.read \/ n.age >= 0
      BY <1>6, NotesKeep
    <3>2. n.key \in Keys /\ (n.read => n.age >= 0) /\ (Clear(n) => n.age <= Retain)
      BY Types DEF Noted
    <3>3. Clear(m)' => Clear(n) BY <1>1, <3>1, <3>2 DEF Clear
    <3> QED BY <3>1, <3>2, <3>3
  <2>2. CASE \E k \in Keys : Write(k)
    <3>1. PICK k \in Keys : Write(k) BY <2>2
    <3>2. PICK fast \in 0 .. Ahead :
             pend' = pend \cup {[key |-> k, ver |-> disk'[k], age |-> 0 - fast, read |-> FALSE]}
      BY <3>1 DEF Write
    <3>3. disk'[k] \in 1 .. disk'[k] BY <3>1 DEF Write, TypeOK
    <3>4. \A m \in pend' : (\E n \in pend : m.key = n.key /\ m.ver = n.ver /\ m.read = n.read)
                            \/ (m.ver \in 1 .. disk'[m.key] /\ ~m.read)
      BY <3>2, <3>3
    <3> QED BY <1>3, <2>1, <2>2, <3>4
  <2>3. CASE disk' = disk /\ pend' \subseteq pend
    BY <1>3, <2>1, <2>3
  <2> QED
    BY <1>6, <2>2, <2>3 DEF Next, Tick, Refresh, Kill, TickReplay, TickRead, TickFails, Watch,
       ListAll, ListBehind, ListRelisted, ListHinted, ListFails, Save, SaveFails, SaveRaises,
       RelistNames, RelistFiles, RelistRefused, Restart, vars, store,
       onlyRefresh, onlyRelist, onlyTick
<1> QED BY <1>4, <1>5, <1>6

-----------------------------------------------------------------------------
(***************************************************************************)
(* The listings of a refresh.                                              *)
(***************************************************************************)

\* How a listing that was made of a batch and what a relisting handed over
\* leaves the relisting.
HandsOver(B, S, ver) ==
    LET seen   == relist.seen \cup B
        handed == {r \in relist.ready : r[1] \notin seen}
    IN /\ S = B \cup {r[1] : r \in handed}
       /\ \A r \in handed : ver[r[1]] = r[2]
       /\ relist' = IF RelistDone THEN NoRelisting
                    ELSE [relist EXCEPT !.ready = {}, !.refused = {}, !.seen = seen]

\* A refresh takes the batch B and lists the records S.
Lists(B, S, ver) ==
    /\ B \in Batches /\ B \subseteq S /\ S \in SUBSET Keys
    /\ \A k \in S : ver[k] \in Nat
    /\ \A k \in B : ver[k] = disk[k]
    /\ \A k \in S : ver[k] = disk[k] \/ \E r \in relist.ready : r[1] = k /\ r[2] = ver[k]
    /\ Finds(S, ver)
    /\ watched /\ refresh.at = "idle" /\ Waiting \ B \subseteq hinted'
    /\ sweep'.reached = sweep.reached /\ sweep'.before = sweep.before
    /\ sweep'.taken = IF B = Waiting THEN sweep.reached ELSE sweep.taken
    /\ ~sweep'.resuming
    /\ UNCHANGED <<onlyRefresh, mem, stored, mark>>
    /\ \/ FullDue /\ ~relist.on /\ sweep'.full /\ S = Keys /\ ver = disk /\ relist' = relist
       \/ /\ FullDue /\ ~relist.on /\ ~sweep'.full /\ behind
          /\ relist' = [NoRelisting EXCEPT !.on = TRUE, !.seen = B]
       \/ /\ relist.on /\ relist.refused \subseteq hinted'
          /\ (sweep'.full => RelistDone) /\ HandsOver(B, S, ver)
       \/ ~FullDue /\ ~relist.on /\ sweep'.full /\ relist' = relist

\* That is all the listings do.
LEMMA ListIs ==
    ASSUME TypeOK, Indexed, Relisted, ListAll \/ ListBehind \/ ListRelisted \/ ListHinted
    PROVE  \E B, S, ver : Lists(B, S, ver)
<1>0. /\ \A k \in Keys : disk[k] \in Nat
      /\ \A B \in Batches : B \subseteq Keys
  BY Types, BatchIs
<1>1. ASSUME NEW B \in Batches, sweep' = Begun(B)
      PROVE  /\ sweep'.reached = sweep.reached /\ sweep'.before = sweep.before
             /\ sweep'.taken = IF B = Waiting THEN sweep.reached ELSE sweep.taken
             /\ ~sweep'.resuming
             /\ FullDue => ~sweep'.full
             /\ ~FullDue => sweep'.full
  BY <1>1, BegunIs DEF FullDue
<1>2. ASSUME NEW B \in Batches, NEW b \in BOOLEAN, sweep' = [Begun(B) EXCEPT !.full = b]
      PROVE  /\ sweep'.reached = sweep.reached /\ sweep'.before = sweep.before
             /\ sweep'.taken = IF B = Waiting THEN sweep.reached ELSE sweep.taken
             /\ ~sweep'.resuming
             /\ sweep'.full = b
  BY <1>2, BegunIs
<1>3. CASE ListAll
  <2>1. PICK B \in Batches : /\ Starts(B) /\ sweep' = [Begun(B) EXCEPT !.full = TRUE]
                             /\ Found(Keys, disk, B, TRUE)
    BY <1>3 DEF ListAll
  <2>2. /\ FullDue /\ ~behind /\ Finds(Keys, disk)
        /\ UNCHANGED <<onlyRefresh, relist, mem, stored, mark>>
    BY <1>0, <1>3, <2>1 DEF ListAll, Finds
  <2>3. TRUE \in BOOLEAN OBVIOUS
  <2>4. /\ sweep'.reached = sweep.reached /\ sweep'.before = sweep.before
        /\ sweep'.taken = IF B = Waiting THEN sweep.reached ELSE sweep.taken
        /\ ~sweep'.resuming /\ sweep'.full
    BY <1>2, <2>1, <2>3
  <2>5. watched /\ refresh.at = "idle" /\ Waiting \ B \subseteq hinted' BY <2>1 DEF Starts
  <2>6. ~relist.on BY <2>2 DEF Indexed
  <2>7. Lists(B, Keys, disk) BY <1>0, <2>1, <2>2, <2>4, <2>5, <2>6 DEF Lists
  <2> QED BY <2>7
<1>4. CASE ListBehind
  <2>1. PICK B \in Batches :
           /\ Starts(B) /\ sweep' = Begun(B) /\ Finds(B, disk)
           /\ relist' = [NoRelisting EXCEPT !.on = TRUE, !.seen = B]
    BY <1>0, <1>4 DEF ListBehind, Finds
  <2>2. FullDue /\ behind /\ ~relist.on /\ UNCHANGED <<onlyRefresh, mem, stored, mark>>
    BY <1>4 DEF ListBehind
  <2>3. watched /\ refresh.at = "idle" /\ Waiting \ B \subseteq hinted' BY <2>1 DEF Starts
  <2>4. B \in SUBSET Keys /\ \A k \in B : disk[k] \in Nat BY <1>0
  <2>5. Lists(B, B, disk) BY <1>1, <2>1, <2>2, <2>3, <2>4 DEF Lists
  <2> QED BY <2>5
<1>5. CASE ListRelisted
  <2> DEFINE seen(B) == relist.seen \cup B
             handed(B) == {r \in relist.ready : r[1] \notin seen(B)}
             S(B) == B \cup {r[1] : r \in handed(B)}
             ver(B) == [k \in Keys |-> IF k \in B THEN disk[k]
                                       ELSE (CHOOSE r \in handed(B) : r[1] = k)[2]]
  <2>1. PICK B \in Batches :
           /\ watched /\ refresh.at = "idle"
           /\ hinted' = (Waiting \ B) \cup relist.refused
           /\ sweep' = [Begun(B) EXCEPT !.full = @ \/ RelistDone]
           /\ relist' = IF RelistDone THEN NoRelisting
                        ELSE [relist EXCEPT !.ready = {}, !.refused = {}, !.seen = seen(B)]
           /\ Found(S(B), ver(B), S(B), FALSE)
    BY <1>5 DEF ListRelisted
  <2>2. relist.on /\ UNCHANGED <<onlyRefresh, mem, stored, mark>> BY <1>5 DEF ListRelisted
  <2>3. B \subseteq Keys /\ \A r \in handed(B) : r[1] \in Keys /\ r[2] \in Nat
    BY <1>0, Types
  <2>4. ASSUME NEW r \in handed(B) PROVE ver(B)[r[1]] = r[2]
    <3>1. r[1] \in Keys /\ r[1] \notin B BY <2>3
    <3>2. ver(B)[r[1]] = (CHOOSE q \in handed(B) : q[1] = r[1])[2] BY <3>1
    <3>3. \A q \in handed(B) : q[1] = r[1] => q = r BY DEF Relisted
    <3>4. (CHOOSE q \in handed(B) : q[1] = r[1]) = r BY <3>3
    <3> QED BY <3>2, <3>4
  <2>5. S(B) \in SUBSET Keys BY <2>3
  <2>6. \A k \in B : ver(B)[k] = disk[k] BY <2>3
  <2>7. ASSUME NEW k \in S(B)
        PROVE  /\ ver(B)[k] \in Nat
               /\ ver(B)[k] = disk[k] \/ \E r \in relist.ready : r[1] = k /\ r[2] = ver(B)[k]
    <3>1. CASE k \in B BY <1>0, <2>3, <2>6, <3>1
    <3>2. CASE k \notin B
      <4>1. PICK r \in handed(B) : r[1] = k BY <2>7, <3>2
      <4>2. ver(B)[k] = r[2] BY <2>4, <4>1
      <4> QED BY <2>3, <4>1, <4>2
    <3> QED BY <3>1, <3>2
  <2>8. B \subseteq S(B) OBVIOUS
  <2>9. /\ sweep'.reached = sweep.reached /\ sweep'.before = sweep.before
        /\ sweep'.taken = IF B = Waiting THEN sweep.reached ELSE sweep.taken
        /\ ~sweep'.resuming
        /\ sweep'.full => RelistDone
    <3> DEFINE b == Begun(B).full \/ RelistDone
    <3>1. b \in BOOLEAN /\ sweep' = [Begun(B) EXCEPT !.full = b] BY <2>1
    <3>2. ~Begun(B).full BY <2>2, BegunIs DEF Indexed
    <3> HIDE DEF b
    <3>3. /\ sweep'.reached = sweep.reached /\ sweep'.before = sweep.before
          /\ sweep'.taken = IF B = Waiting THEN sweep.reached ELSE sweep.taken
          /\ ~sweep'.resuming /\ sweep'.full = b
      BY <1>2, <3>1
    <3> QED BY <3>2, <3>3 DEF b
  <2>10. HandsOver(B, S(B), ver(B)) BY <2>1, <2>4 DEF HandsOver
  <2>11. Waiting \ B \subseteq hinted' /\ relist.refused \subseteq hinted' BY <2>1
  <2> HIDE DEF S, ver
  <2>13. Finds(S(B), ver(B)) BY <2>1, <2>5 DEF Finds
  <2>12. Lists(B, S(B), ver(B))
    BY <2>1, <2>13, <2>2, <2>5, <2>6, <2>7, <2>8, <2>9, <2>10, <2>11 DEF Lists
  <2> QED BY <2>12
<1>6. CASE ListHinted
  <2>1. PICK B \in Batches : Starts(B) /\ sweep' = Begun(B) /\ Finds(B, disk)
    BY <1>0, <1>6 DEF ListHinted, Finds
  <2>2. ~FullDue /\ ~relist.on /\ UNCHANGED <<onlyRefresh, relist, mem, stored, mark>>
    BY <1>6 DEF ListHinted
  <2>3. watched /\ refresh.at = "idle" /\ Waiting \ B \subseteq hinted' BY <2>1 DEF Starts
  <2>4. B \in SUBSET Keys /\ \A k \in B : disk[k] \in Nat BY <1>0
  <2>5. Lists(B, B, disk) BY <1>1, <2>1, <2>2, <2>3, <2>4 DEF Lists
  <2> QED BY <2>5
<1> QED BY <1>3, <1>4, <1>5, <1>6

\* A listing that fails.
LEMMA FailedIs ==
    ASSUME TypeOK, Indexed, ListFails
    PROVE  /\ sweep'.full = (sweep.full \/ sweep.resuming) /\ ~sweep'.resuming
           /\ sweep'.reached = sweep.reached /\ sweep'.before = sweep.before
           /\ sweep'.taken = sweep.taken
           /\ hinted \subseteq hinted' /\ relist' \in {relist, NoRelisting}
           /\ watched /\ refresh.at = "idle"
           /\ UNCHANGED <<onlyRefresh, refresh, mem, stored, mark, aside, odd>>
<1>1. PICK B \in Batches : hinted' = Waiting /\ sweep' = [Begun(B) EXCEPT !.taken = sweep.before]
  BY DEF ListFails, Failed
<1>2. /\ relist' \in {relist, NoRelisting} /\ watched /\ refresh.at = "idle"
      /\ UNCHANGED <<onlyRefresh, refresh, mem, stored, mark, aside, odd>>
  BY DEF ListFails
<1>3. sweep'.full = Begun(B).full /\ sweep'.resuming = Begun(B).resuming
      /\ sweep'.reached = Begun(B).reached /\ sweep'.before = Begun(B).before
      /\ sweep'.taken = sweep.before
  BY <1>1, BegunIs
<1>4. sweep.before = sweep.taken BY <1>2 DEF Indexed
<1>5. hinted \subseteq hinted' BY <1>1 DEF Waiting
<1>6. /\ Begun(B).full = (sweep.full \/ sweep.resuming) /\ ~Begun(B).resuming
      /\ Begun(B).reached = sweep.reached /\ Begun(B).before = sweep.before
  BY BegunIs
<1>7. sweep'.full = (sweep.full \/ sweep.resuming) BY <1>3, <1>6, Zenon
<1> QED BY <1>2, <1>3, <1>4, <1>5, <1>6, <1>7

\* A save, whole, cut short or refused.
LEMMA SavesIs ==
    ASSUME TypeOK, Save \/ SaveFails \/ SaveRaises
    PROVE  /\ refresh.at = "save" /\ mem' = Applied /\ refresh' = Resting
           /\ \A k \in Keys : stored'[k] \in {stored[k], Applied[k]}
           /\ (Save /\ stored' = Applied) \/ mark' = mark
           /\ hinted \subseteq hinted'
           /\ (sweep'.full => sweep.full) /\ sweep'.resuming = sweep.resuming
           /\ sweep'.reached = sweep.reached
           /\ \/ sweep'.taken = sweep.taken /\ sweep'.before = sweep.taken
              \/ sweep'.taken = sweep.before /\ sweep'.before = sweep.before
           /\ UNCHANGED <<onlyRefresh, relist, aside, odd>>
<1>1. CASE Save
  <2>1. Applied \in [Keys -> Nat] BY DEF Applied, Most, TypeOK
  <2> QED BY <1>1, <2>1 DEF Save, TypeOK
<1>2. SavesSome => mark' = mark /\ \A k \in Keys : stored'[k] \in {stored[k], Applied[k]}
  BY DEF SavesSome
<1>3. CASE SaveFails
  <2>1. /\ refresh.at = "save" /\ mem' = Applied /\ SavesSome
        /\ sweep' = [sweep EXCEPT !.before = sweep.taken] /\ refresh' = Resting
        /\ UNCHANGED <<onlyRefresh, hinted, relist, aside, odd>>
    BY <1>3 DEF SaveFails
  <2>2. /\ sweep'.full = sweep.full /\ sweep'.resuming = sweep.resuming
        /\ sweep'.reached = sweep.reached /\ sweep'.taken = sweep.taken
        /\ sweep'.before = sweep.taken
    BY <2>1 DEF TypeOK
  <2> QED BY <1>2, <2>1, <2>2
<1>4. CASE SaveRaises
  <2> DEFINE f == sweep.full /\ ~refresh.whole
  <2>1. sweep' = [sweep EXCEPT !.taken = sweep.before, !.full = f] BY <1>4 DEF SaveRaises
  <2>2. f => sweep.full OBVIOUS
  <2> HIDE DEF f
  <2>3. (sweep'.full => sweep.full) /\ sweep'.resuming = sweep.resuming
        /\ sweep'.reached = sweep.reached /\ sweep'.taken = sweep.before
        /\ sweep'.before = sweep.before
    BY <2>1, <2>2 DEF TypeOK
  <2>4. /\ refresh.at = "save" /\ mem' = Applied /\ SavesSome
        /\ hinted \subseteq hinted' /\ refresh' = Resting
        /\ UNCHANGED <<onlyRefresh, relist, aside, odd>>
    BY <1>4 DEF SaveRaises
  <2> QED BY <1>2, <2>3, <2>4
<1> QED BY <1>1, <1>3, <1>4

-----------------------------------------------------------------------------
(***************************************************************************)
(* The steps of the bookkeeping.                                           *)
(***************************************************************************)

\* The part of the index's records and marks.
LEMMA IndexedStep ==
    ASSUME TypeOK, Indexed, Relisted, [Next]_vars
    PROVE  Indexed'
<1>0. /\ TypeOK' /\ \A k \in Keys : odd[k] \subseteq odd'[k]
      /\ \A k \in Keys : mem[k] \in Nat /\ stored[k] \in Nat /\ refresh.found[k] \in Nat
  BY TypeStep, OddGrows, Types
<1>1. ASSUME UNCHANGED <<mem, stored>>,
             \A k \in Keys : aside'[k] # "no" => aside[k] # "no" \/ odd'[k] # {}
      PROVE  \A k \in Keys : stored'[k] <= mem'[k] /\ (aside'[k] # "no" => odd'[k] # {})
  BY <1>0, <1>1 DEF Indexed
<1>2. ASSUME UNCHANGED <<index, behind, watched, replay>>
      PROVE  Indexed'
  BY <1>1, <1>2 DEF Indexed, index
<1>3. CASE \E B, S, ver : Lists(B, S, ver)
  <2>1. PICK B, S, ver : Lists(B, S, ver) BY <1>3
  <2>2. S \in SUBSET Keys /\ (\A k \in S : ver[k] \in Nat) /\ Finds(S, ver) BY <2>1 DEF Lists
  <2>3. refresh'.at = "save" /\ \A k \in Keys : aside'[k] # "no" => aside[k] # "no" \/ odd'[k] # {}
    BY <2>2, FoundIs
  <2>4. \A k \in Keys : stored'[k] <= mem'[k] /\ (aside'[k] # "no" => odd'[k] # {})
    BY <1>1, <2>1, <2>3 DEF Lists
  <2>5. watched /\ watched' /\ behind' = behind /\ replay' = replay
    BY <2>1 DEF Lists, onlyRefresh, journal
  <2>6. sweep'.reached # NoAge \/ sweep'.taken # NoAge \/ sweep'.before # NoAge =>
           watched' /\ replay' = NoAge
    BY <2>1, <2>5 DEF Lists, Indexed
  <2>7. relist'.on => behind' /\ ~sweep'.full /\ ~sweep'.resuming
    <3>1. ~sweep'.resuming BY <2>1 DEF Lists
    <3>2. CASE ~relist.on /\ relist' = relist BY <3>2
    <3>3. CASE ~sweep'.full /\ behind BY <2>5, <3>1, <3>3
    <3>4. CASE relist.on /\ (sweep'.full => RelistDone) /\ HandsOver(B, S, ver)
      <4>1. CASE RelistDone
        <5>1. relist' = NoRelisting BY <3>4, <4>1 DEF HandsOver
        <5> QED BY <5>1 DEF NoRelisting
      <4>2. CASE ~RelistDone BY <2>5, <3>1, <3>4, <4>2 DEF Indexed
      <4> QED BY <4>1, <4>2
    <3> QED BY <2>1, <3>2, <3>3, <3>4 DEF Lists
  <2> QED BY <2>3, <2>4, <2>5, <2>6, <2>7 DEF Indexed
<1>4. CASE ListFails
  <2>1. /\ sweep'.full = (sweep.full \/ sweep.resuming) /\ ~sweep'.resuming
        /\ sweep'.reached = sweep.reached /\ sweep'.before = sweep.before
        /\ sweep'.taken = sweep.taken
        /\ relist' \in {relist, NoRelisting}
        /\ watched /\ refresh.at = "idle"
        /\ UNCHANGED <<onlyRefresh, refresh, mem, stored, mark, aside, odd>>
    BY <1>4, FailedIs
  <2>2. relist'.on => relist.on BY <2>1 DEF NoRelisting
  <2>3. behind' = behind /\ watched' = watched /\ replay' = replay
    BY <2>1 DEF onlyRefresh, journal
  <2>4. \A k \in Keys : stored'[k] <= mem'[k] /\ (aside'[k] # "no" => odd'[k] # {})
    BY <1>1, <2>1
  <2> QED BY <2>1, <2>2, <2>3, <2>4 DEF Indexed
<1>5. CASE Time
  <2>1. /\ sweep' = [sweep EXCEPT !.reached = Older(@), !.taken = Older(@), !.before = Older(@)]
        /\ aside' = [k \in Keys |-> IF aside[k] = "no" THEN "no" ELSE "due"]
        /\ replay' = Older(replay)
        /\ UNCHANGED <<behind, watched, relist, refresh, mem, stored, odd>>
    BY <1>5 DEF Time, env
  <2>2. /\ sweep'.full = sweep.full /\ sweep'.resuming = sweep.resuming
        /\ sweep'.reached = Older(sweep.reached) /\ sweep'.taken = Older(sweep.taken)
        /\ sweep'.before = Older(sweep.before)
    BY <2>1, AgedPolicy
  <2>3. /\ Older(sweep.reached) = NoAge <=> sweep.reached = NoAge
        /\ Older(sweep.taken) = NoAge <=> sweep.taken = NoAge
        /\ Older(sweep.before) = NoAge <=> sweep.before = NoAge
        /\ Older(NoAge) = NoAge
    BY Types, OlderIs DEF Older
  <2>4. \A k \in Keys : aside'[k] # "no" => aside[k] # "no" \/ odd'[k] # {} BY <2>1
  <2> QED BY <1>1, <2>1, <2>2, <2>3, <2>4 DEF Indexed
<1>6. CASE TickRead
  <2>1. /\ sweep' = [sweep EXCEPT !.reached = IF Tells THEN 0 ELSE @,
                                  !.awaiting = @ /\ ~Tells]
        /\ UNCHANGED <<behind, watched, replay, relist, refresh, mem, stored, aside, odd>>
    BY <1>6 DEF TickRead, onlyTick, env
  <2>2. /\ sweep'.full = sweep.full /\ sweep'.resuming = sweep.resuming
        /\ sweep'.taken = sweep.taken /\ sweep'.before = sweep.before
        /\ sweep'.reached = IF Tells THEN 0 ELSE sweep.reached
    <3> DEFINE a == IF Tells THEN 0 ELSE sweep.reached
               w == sweep.awaiting /\ ~Tells
    <3>1. sweep' = [sweep EXCEPT !.reached = a, !.awaiting = w] BY <2>1
    <3>2. a = IF Tells THEN 0 ELSE sweep.reached OBVIOUS
    <3> HIDE DEF a, w
    <3> QED BY <3>1, <3>2 DEF TypeOK
  <2> QED BY <1>1, <2>1, <2>2 DEF Indexed, Tells
<1>7. CASE Watch
  <2>1. /\ ~watched /\ watched'
        /\ UNCHANGED <<behind, relist, refresh, mem, stored, aside, odd>>
    BY <1>7 DEF Watch, env
  <2>2. /\ sweep'.reached = sweep.reached /\ sweep'.taken = sweep.taken
        /\ sweep'.before = sweep.before
    BY <1>7 DEF Watch, TypeOK
  <2> QED BY <1>1, <2>1, <2>2 DEF Indexed
<1>8. CASE Save \/ SaveFails \/ SaveRaises
  <2>1. /\ mem' = Applied /\ \A k \in Keys : stored'[k] \in {stored[k], Applied[k]}
        /\ (sweep'.full => sweep.full) /\ sweep'.resuming = sweep.resuming
        /\ sweep'.reached = sweep.reached
        /\ \/ sweep'.taken = sweep.taken /\ sweep'.before = sweep.taken
           \/ sweep'.taken = sweep.before /\ sweep'.before = sweep.before
        /\ UNCHANGED <<behind, watched, replay, relist, aside, odd>>
    BY <1>8, SavesIs DEF onlyRefresh, journal
  <2>2. \A k \in Keys : Applied[k] \in Nat /\ mem[k] <= Applied[k]
    BY <1>0 DEF Applied, Most
  <2>3. \A k \in Keys : stored'[k] <= mem'[k]
    BY <1>0, <2>1, <2>2 DEF Indexed
  <2>4. ~sweep.full => ~sweep'.full BY <2>1
  <2>5. sweep'.before = sweep'.taken BY <2>1
  <2> QED BY <2>1, <2>3, <2>4, <2>5 DEF Indexed
<1>9. CASE RelistNames \/ \E k \in Keys : RelistFiles(k) \/ RelistRefused(k)
  <2>1. /\ relist'.on = relist.on
        /\ UNCHANGED <<behind, watched, replay, sweep, refresh, mem, stored, aside>>
    <3>1. UNCHANGED onlyRelist /\ relist'.on = relist.on
      BY <1>9 DEF RelistNames, RelistFiles, RelistRefused, TypeOK
    <3> QED BY <3>1 DEF onlyRelist, journal
  <2> QED BY <1>1, <2>1 DEF Indexed
<1>10. CASE Restart
  <2>1. /\ mem' = stored /\ stored' = stored /\ aside' = NoneAside
        /\ sweep' = InitSweep /\ relist' = NoRelisting
    BY <1>10 DEF Restart
  <2>2. replay' = NoAge BY <1>10 DEF Restart
  <2> QED BY <1>0, <2>1, <2>2 DEF Indexed, NoneAside, InitSweep, NoRelisting
<1>11. CASE \/ \E k \in Keys : Write(k)
            \/ \E n \in pend : Put(n)
            \/ Kill \/ TickFails \/ UNCHANGED vars
  <2>1. UNCHANGED <<index, behind, watched, replay>>
    BY <1>11 DEF Write, Put, Kill, TickFails, vars, env, journal, index
  <2> QED BY <1>2, <2>1 DEF Indexed
<1>12. CASE TickReplay
  <2>1. /\ replay' = NoAge
        /\ UNCHANGED <<behind, watched, sweep, relist, refresh, mem, stored, aside, odd>>
    BY <1>12 DEF TickReplay, onlyTick, env
  <2> QED BY <1>1, <2>1 DEF Indexed
<1> QED
  BY <1>3, <1>4, <1>5, <1>6, <1>7, <1>8, <1>9, <1>10, <1>11, <1>12, ListIs
  DEF Next, Tick, Refresh

\* What a relisting that is unchanged, or ended, has listed.
LEMMA RelistedKeeps ==
    ASSUME Relisted, relist' \in {relist, NoRelisting}
    PROVE  Relisted'
BY DEF Relisted, NoRelisting

\* The part of what a listing behind serving has listed.
LEMMA RelistedStep ==
    ASSUME TypeOK, Indexed, Relisted, [Next]_vars
    PROVE  Relisted'
<1>1. CASE \E B, S, ver : Lists(B, S, ver)
  <2>1. PICK B, S, ver : Lists(B, S, ver) BY <1>1
  <2>2. CASE relist' \in {relist, NoRelisting} BY <2>2, RelistedKeeps
  <2>3. CASE relist' = [NoRelisting EXCEPT !.on = TRUE, !.seen = B]
    BY <2>3 DEF Relisted, NoRelisting
  <2>4. CASE HandsOver(B, S, ver)
    <3>1. CASE RelistDone BY <2>2, <2>4, <3>1 DEF HandsOver
    <3>2. CASE ~RelistDone
      <4>1. relist'.named = relist.named /\ relist'.todo = relist.todo /\ relist'.ready = {}
        BY <2>4, <3>2 DEF HandsOver, TypeOK
      <4> QED BY <4>1 DEF Relisted
    <3> QED BY <3>1, <3>2
  <2> QED BY <2>1, <2>2, <2>3, <2>4 DEF Lists
<1>2. CASE RelistNames
  <2>1. relist'.named /\ relist'.ready = relist.ready /\ ~relist.named
    BY <1>2 DEF RelistNames, TypeOK
  <2> QED BY <2>1 DEF Relisted
<1>3. ASSUME NEW k \in Keys, RelistFiles(k) PROVE Relisted'
  <2>1. /\ k \in relist.todo
        /\ relist'.named = relist.named /\ relist'.todo = relist.todo \ {k}
        /\ relist'.ready = relist.ready \cup {<<k, disk[k]>>}
    BY <1>3 DEF RelistFiles, TypeOK
  <2>2. \A r \in relist.ready : r[1] # k BY <2>1 DEF Relisted
  <2>3. <<k, disk[k]>>[1] = k OBVIOUS
  <2>4. \A r \in relist'.ready : r \in relist.ready \/ r = <<k, disk[k]>> BY <2>1
  <2>5. \A r \in relist'.ready : r[1] \notin relist'.todo BY <2>1, <2>3, <2>4 DEF Relisted
  <2>6. \A r, s \in relist'.ready : r[1] = s[1] => r = s BY <2>2, <2>3, <2>4 DEF Relisted
  <2>7. relist'.named BY <2>1 DEF Relisted
  <2> QED BY <2>5, <2>6, <2>7 DEF Relisted
<1>4. ASSUME NEW k \in Keys, RelistRefused(k) PROVE Relisted'
  <2>1. /\ relist'.named = relist.named /\ relist'.todo = relist.todo \ {k}
        /\ relist'.ready = relist.ready
    BY <1>4 DEF RelistRefused, TypeOK
  <2> QED BY <2>1 DEF Relisted
<1>5. CASE relist' \in {relist, NoRelisting} BY <1>5, RelistedKeeps
<1> QED
  BY <1>1, <1>2, <1>3, <1>4, <1>5, ListIs
  DEF Next, Tick, Refresh, Write, Put, Kill, Time, TickReplay, TickRead, TickFails, Watch,
      ListFails, Save, SaveFails, SaveRaises, Restart, vars, index, onlyTick

-----------------------------------------------------------------------------
(***************************************************************************)
(* Where a change is on its way.                                           *)
(***************************************************************************)

\* A note with nothing wrong was there, or is put in time.
LEMMA NoteFrom ==
    ASSUME TypeOK, Noted, [Next]_vars, ~Time, NEW m \in notes', Clear(m)'
    PROVE  \/ \E n \in notes : /\ m.key = n.key /\ m.ver = n.ver /\ m.age = n.age
                               /\ m.read => n.read \/ n.age >= 0
                               /\ Clear(n)
           \/ m \in pend /\ Put(m) /\ ~m.read /\ m.age <= Skew - Rescan
<1>0. /\ TypeOK' /\ \A k \in Keys : odd[k] \subseteq odd'[k]
      /\ \A n \in pend \cup notes : n.key \in Keys
  BY TypeStep, OddGrows, Types
<1>1. \A n \in notes : n.key = m.key => Clear(n)
  BY <1>0 DEF Clear
<1>2. CASE \E n \in pend : Put(n)
  <2>1. PICK n \in pend : Put(n) BY <1>2
  <2>2. /\ notes' = notes \cup {n}
        /\ odd' = IF n.age <= Skew - Rescan THEN odd ELSE Went(n.key, "late")
    BY <2>1 DEF Put
  <2>3. CASE m \in notes BY <1>1, <2>3
  <2>4. CASE m = n
    <3>1. m.age <= Skew - Rescan
      <4> SUFFICES ASSUME ~(n.age <= Skew - Rescan) PROVE FALSE
        BY <2>4
      <4>1. "late" \in odd'[n.key] BY <1>0, <2>2 DEF Went, TypeOK
      <4> QED BY <2>4, <4>1 DEF Clear
    <3> QED BY <2>1, <2>4, <3>1 DEF Noted
  <2> QED BY <2>2, <2>3, <2>4
<1>3. CASE ~\E n \in pend : Put(n)
  BY <1>1, <1>3, NotesKeep
<1> QED BY <1>2, <1>3

\* What the index has, or found, it keeps unless it starts anew.
LEMMA FetchedKeeps ==
    ASSUME TypeOK, [Next]_vars, ~Restart, NEW m, NEW n, m.key = n.key, m.ver = n.ver,
           n.key \in Keys, n.ver \in Nat, Fetched(n)
    PROVE  Fetched(m)'
<1>0. /\ \A k \in Keys : mem[k] \in Nat /\ refresh.found[k] \in Nat
      /\ \A k \in Keys : mem'[k] \in Nat /\ refresh'.found[k] \in Nat
  <2>1. TypeOK' BY TypeStep
  <2> QED BY <2>1 DEF TypeOK
<1>1. CASE UNCHANGED <<mem, refresh>> BY <1>1 DEF Fetched
<1>2. CASE mem' = mem /\ refresh.at = "idle" BY <1>2 DEF Fetched
<1>3. CASE Save \/ SaveFails \/ SaveRaises
  <2>1. mem' = Applied BY <1>3 DEF Save, SaveFails, SaveRaises
  <2>2. Applied[n.key] >= mem[n.key] /\ Applied[n.key] >= refresh.found[n.key]
    BY <1>0 DEF Applied, Most
  <2>3. Applied[n.key] >= n.ver
    <3>1. Applied[n.key] \in Nat BY <1>0 DEF Applied, Most
    <3> QED BY <1>0, <2>2, <3>1 DEF Fetched
  <2> QED BY <2>1, <2>3 DEF Fetched
<1> QED
  BY <1>1, <1>2, <1>3
  DEF Next, Tick, Refresh, Write, Put, Kill, Time, TickReplay, TickRead, TickFails, Watch,
      ListAll, ListBehind, ListRelisted, ListHinted, ListFails, RelistNames, RelistFiles,
      RelistRefused, Starts, vars, index, onlyTick, onlyRelist

\* The part of the replay.
LEMMA ReplayingStep ==
    ASSUME TypeOK, Noted, Indexed, Replaying, RestartFindsAll, [Next]_vars
    PROVE  Replaying'
<1> SUFFICES ASSUME watched', replay' # NoAge, NEW m \in notes', Clear(m)'
             PROVE  Fetched(m)' \/ m.age <= replay' + Skew
  BY DEF Replaying
<1>0. TypeOK' /\ \A k \in Keys : odd[k] \subseteq odd'[k]
  BY TypeStep, OddGrows
<1>1. ~Restart /\ ~TickReplay BY DEF Restart, TickReplay
<1>2. replay \in Ages /\ replay' \in Ages /\ \A n \in notes : n.key \in Keys /\ n.ver \in Nat
  BY <1>0, Types DEF TypeOK
<1>3. CASE Time
  <2>1. /\ notes' = Aged({n \in notes : n.age < Retain}) /\ replay' = Older(replay)
        /\ watched' = watched /\ odd' = odd
    BY <1>3 DEF Time
  <2>2. {n \in notes : n.age < Retain} \in SUBSET Notes BY DEF TypeOK
  <2>3. PICK n \in {n \in notes : n.age < Retain} :
           /\ m.key = n.key /\ m.ver = n.ver /\ m.read = n.read
           /\ m.age = Least(n.age + 1, Cap)
    BY <2>1, <2>2, AgedIs
  <2>4. replay # NoAge BY <1>2, <2>1, OlderIs
  <2>5. Fetched(n) \/ n.age <= replay + Skew BY <2>1, <2>3, <2>4 DEF Replaying, Clear
  <2>6. CASE Fetched(n) BY <1>1, <1>2, <2>3, <2>6, FetchedKeeps
  <2>7. CASE n.age <= replay + Skew
    <3>1. n.age \in (0 - Ahead) .. Cap BY Types
    <3> QED BY <1>2, <2>1, <2>3, <2>4, <2>7, <3>1, OlderIs
  <2> QED BY <2>5, <2>6, <2>7
<1>4. CASE ~Time /\ \E n \in notes : /\ m.key = n.key /\ m.ver = n.ver /\ m.age = n.age
                                     /\ Clear(n)
  <2>1. PICK n \in notes : m.key = n.key /\ m.ver = n.ver /\ m.age = n.age /\ Clear(n)
    BY <1>4
  <2>2. SUFFICES Fetched(n) \/ n.age <= replay' + Skew
    BY <1>1, <1>2, <2>1, FetchedKeeps
  <2>3. CASE Watch
    <3>1. ~watched BY <2>3 DEF Watch
    <3>2. Resumable /\ replay' = mark BY <2>3, <3>1 DEF Watch, Indexed
    <3>3. stored[n.key] >= n.ver \/ n.age <= mark + Skew
      BY <2>1, <3>2 DEF RestartFindsAll, Replayed, Clear
    <3>4. stored[n.key] \in Nat /\ mem[n.key] \in Nat /\ stored[n.key] <= mem[n.key]
      BY <1>2, Types DEF Indexed
    <3> QED BY <1>2, <3>2, <3>3, <3>4 DEF Fetched
  <2>4. CASE UNCHANGED <<watched, replay>> BY <2>1, <2>4 DEF Replaying
  <2> QED
    BY <1>1, <1>4, <2>3, <2>4
    DEF Next, Tick, Refresh, Write, Put, Kill, TickRead, TickFails,
        ListAll, ListBehind, ListRelisted, ListHinted, ListFails, Save, SaveFails, SaveRaises,
        RelistNames, RelistFiles, RelistRefused, vars, journal, onlyRefresh, onlyRelist
<1>5. CASE m \in pend /\ m.age <= Skew - Rescan
  <2>1. m.age \in Int /\ replay' >= 0 BY <1>2, <1>5, Types, AgesAre
  <2>2. replay' \in Int BY <1>2, AgesAre
  <2> QED BY <1>5, <2>1, <2>2, Bounds
<1> QED BY <1>3, <1>4, <1>5, NoteFrom

\* What the second and third parts of Following say of the ages an index tells.
Near(n, age) == age # NoAge => n.age <= age + Skew

\* Following, of one note.
Followed(n) ==
    /\ Known(n) \/ Listing(n) \/ (~n.read /\ Timely(n))
    /\ Known(n) \/ Listing(n) \/ Near(n, sweep.reached)
    /\ Fetched(n) \/ Listing(n) \/ Near(n, sweep.taken)
    /\ Fetched(n) \/ Listing(n) \/ Near(n, sweep.before)

\* The same, said of every note.
LEMMA FollowedIs ==
    /\ Following <=> (Settled => \A n \in notes : Clear(n) => Followed(n))
    /\ Following' <=> (Settled' => \A n \in notes' : Clear(n)' => Followed(n)')
BY DEF Following, Followed, Near

\* Time keeps what is followed: the reader's next rescan comes nearer.
LEMMA FollowedAges ==
    ASSUME TypeOK, Noted, Indexed, Time, [Next]_vars, NEW m \in notes', Clear(m)',
           Settled', Following
    PROVE  Followed(m)'
<1>1. /\ ~ticking /\ (watched => reader.last \in 0 .. Lag - 1)
      /\ notes' = Aged({n \in notes : n.age < Retain})
      /\ reader' = [last |-> Older(reader.last), rescan |-> Least(Older(reader.rescan), Rescan)]
      /\ replay' = Older(replay)
      /\ sweep' = [sweep EXCEPT !.reached = Older(@), !.taken = Older(@), !.before = Older(@)]
      /\ UNCHANGED <<watched, hinted, relist, refresh, mem, odd>>
  BY DEF Time
<1>2. /\ sweep'.full = sweep.full /\ sweep'.resuming = sweep.resuming
      /\ sweep'.reached = Older(sweep.reached) /\ sweep'.taken = Older(sweep.taken)
      /\ sweep'.before = Older(sweep.before)
  BY <1>1, AgedPolicy
<1>3. {n \in notes : n.age < Retain} \in SUBSET Notes BY DEF TypeOK
<1>4. PICK n \in {n \in notes : n.age < Retain} :
         /\ m.key = n.key /\ m.ver = n.ver /\ m.read = n.read
         /\ m.age = Least(n.age + 1, Cap)
  BY <1>1, <1>3, AgedIs
<1>5. /\ n.key \in Keys /\ n.ver \in Nat /\ n.age \in (0 - Ahead) .. Cap
      /\ sweep.reached \in Ages /\ sweep.taken \in Ages /\ sweep.before \in Ages
      /\ reader.last \in Ages /\ reader.rescan \in {NoAge} \cup 0 .. Rescan /\ replay \in Ages
  BY Types DEF TypeOK
<1>6. Clear(n) BY <1>1, <1>4 DEF Clear
<1>7. replay = NoAge BY <1>1, <1>5, OlderIs DEF Settled
<1>8. Settled BY <1>1, <1>2, <1>7 DEF Settled
<1>9. Followed(n) BY <1>6, <1>8, FollowedIs
<1>10. ~Restart BY <1>1, <1>8 DEF Restart, Settled
<1>11. /\ Fetched(n) => Fetched(m)'
       /\ Known(n) => Known(m)'
  <2>1. Fetched(n) => Fetched(m)' BY <1>4, <1>5, <1>10, FetchedKeeps
  <2> QED BY <1>1, <1>4, <2>1 DEF Known
<1>12. Listing(n) => Listing(m)' BY <1>1, <1>4 DEF Listing
<1>13. ASSUME NEW a \in Ages, Near(n, a) PROVE Near(m, Older(a))
  BY <1>4, <1>5, <1>13, OlderIs DEF Near
<1>14. ASSUME Timely(n) PROVE Timely(m)'
  <2>1. m.age <= n.age + 1 /\ m.age \in Int
    BY <1>4, <1>5, Bounds DEF Least
  <2>2. reader.last \in 0 .. Cap /\ reader.last # NoAge /\ Older(reader.last) \in 0 .. Cap
    BY <1>1, <1>5, <1>8, Bounds, OlderIs DEF Settled
  <2>3. reader'.last = Older(reader.last) /\ reader'.rescan = Least(Older(reader.rescan), Rescan)
    BY <1>1
  <2>4. CASE Full
    <3>1. n.age <= reader.last + Skew
      BY <1>14, <2>2, <2>4, Bounds DEF Timely, Most
    <3>2. m.age <= Older(reader.last) + Skew
      BY <1>4, <1>5, <2>2, <3>1, OlderIs
    <3>3. reader'.rescan \in {NoAge, Rescan}
      BY <1>5, <2>3, <2>4, Bounds DEF Full, Older, Least
    <3> QED BY <2>2, <2>3, <3>2, <3>3, Bounds DEF Timely, Most, Full
  <2>5. CASE ~Full
    <3>1. n.age <= Skew - Rescan + reader.rescan BY <1>14, <2>5 DEF Timely
    <3>2. reader.rescan \in 0 .. Rescan /\ reader.rescan < Rescan
      BY <1>5, <2>5, Bounds DEF Full
    <3>3. reader'.rescan = reader.rescan + 1
      BY <2>3, <3>2, Bounds DEF Older, Least
    <3>4. m.age <= Skew - Rescan + reader'.rescan
      BY <1>5, <2>1, <3>1, <3>2, <3>3, Bounds
    <3>5. m.age <= Most(reader'.last, 0) + Skew
      BY <2>1, <2>2, <2>3, <3>2, <3>3, <3>4, Bounds DEF Most
    <3> QED BY <3>4, <3>5 DEF Timely, Full
  <2> QED BY <2>4, <2>5
<1> QED BY <1>2, <1>4, <1>5, <1>9, <1>11, <1>12, <1>13, <1>14 DEF Followed

\* A note with nothing wrong that the reader has not read, and a tick does not
\* find, is timely for the next rescan.
LEMMA MissedIsTimely ==
    ASSUME TypeOK, Noted, NEW n \in notes, Clear(n), ~n.read, Timely(n), n \notin Within(Window)
    PROVE  n.age <= Skew - Rescan + Rescanned /\ Rescanned \in 0 .. Rescan - 1
<1>1. /\ n.age \in Int /\ n.age <= Retain /\ reader.last \in Ages
      /\ reader.rescan \in {NoAge} \cup 0 .. Rescan
  BY Types DEF Noted
<1>2. Most(reader.last, 0) \in Nat BY <1>1, Bounds, AgesAre DEF Most
<1>3. CASE Full
  <2>1. Window = Most(reader.last, 0) + Skew /\ n.age <= Window
    BY <1>3 DEF Window, Timely
  <2>2. n.age \notin 0 .. Least(Window, Retain) BY DEF Within
  <2>3. n.age < 0 BY <1>1, <1>2, <2>1, <2>2, Bounds DEF Least
  <2> QED BY <1>1, <1>3, <2>3, Bounds DEF Rescanned
<1>4. CASE ~Full
  BY <1>1, <1>4, Bounds DEF Rescanned, Full, Timely
<1> QED BY <1>3, <1>4

\* So a tick that reads or fails keeps it followed.
LEMMA FollowedReads ==
    ASSUME TypeOK, Noted, Indexed, Following, TickRead \/ TickFails, [Next]_vars,
           NEW m \in notes', Clear(m)', Settled'
    PROVE  Followed(m)'
<1> DEFINE Missed == {n \in Within(Window) : ~n.read}
<1>1. /\ UNCHANGED <<watched, replay, relist, refresh, mem>>
      /\ reader'.rescan = Rescanned /\ hinted \subseteq hinted'
      /\ sweep'.full = sweep.full /\ sweep'.resuming = sweep.resuming
      /\ sweep'.taken = sweep.taken /\ sweep'.before = sweep.before
  <2>1. CASE TickRead
    <3> DEFINE a == IF Tells THEN 0 ELSE sweep.reached
               w == sweep.awaiting /\ ~Tells
    <3>1. sweep' = [sweep EXCEPT !.reached = a, !.awaiting = w] BY <2>1 DEF TickRead
    <3> HIDE DEF a, w
    <3>2. sweep'.full = sweep.full /\ sweep'.resuming = sweep.resuming
          /\ sweep'.taken = sweep.taken /\ sweep'.before = sweep.before
      BY <3>1 DEF TypeOK
    <3> QED BY <2>1, <3>2 DEF TickRead, Routed, onlyTick
  <2>2. CASE TickFails BY <2>2 DEF TickFails, index, TypeOK
  <2> QED BY <2>1, <2>2
<1>2. Settled BY <1>1 DEF Settled
<1>3. Tells /\ watched /\ replay = NoAge BY <1>2 DEF Settled, Tells
<1>4. PICK F : /\ MarkRead(F) /\ F \subseteq Missed
               /\ \A n \in F : n.key \in hinted' \/ odd'[n.key] # {}
               /\ \A n \in Missed : \/ n.key \in hinted' \/ odd'[n.key] # {}
                                     \/ (TickFails /\ (~Full \/ n.age <= Skew - Rescan))
  <2>1. CASE TickRead
    <3>1. MarkRead(Missed) /\ hinted' = Routed(Missed)
      BY <1>3, <2>1 DEF TickRead
    <3> QED BY <3>1 DEF Routed
  <2>2. CASE TickFails
    <3> DEFINE seen(upto)    == {n \in Missed : n.age > upto}
               dropped(upto) == seen(upto) \cup {n \in Missed : Full /\ n.age > Skew - Rescan}
    <3>1. PICK upto \in 0 .. Retain :
             /\ MarkRead(seen(upto))
             /\ odd' = [k \in Keys |-> IF \E n \in dropped(upto) : n.key = k
                                       THEN odd[k] \cup {"dropped"} ELSE odd[k]]
      BY <2>2 DEF TickFails
    <3>2. \A n \in Missed : n.key \in Keys /\ n.age \in Int BY Types DEF Within
    <3>3. seen(upto) \subseteq Missed /\ seen(upto) \subseteq dropped(upto)
          /\ dropped(upto) \subseteq Missed
      OBVIOUS
    <3>4. \A n \in Missed : n \in dropped(upto) \/ ~Full \/ n.age <= Skew - Rescan
      BY <3>2, Bounds
    <3> HIDE DEF Missed, seen, dropped
    <3>5. \A n \in dropped(upto) : odd'[n.key] # {} BY <3>1, <3>2, <3>3
    <3> QED BY <2>2, <3>1, <3>3, <3>4, <3>5
  <2> QED BY <2>1, <2>2
<1>5. PICK n \in notes : /\ m.key = n.key /\ m.ver = n.ver /\ m.age = n.age
                         /\ m.read => n.read \/ n \in F
  BY <1>4, MarkIs
<1>6. n.key \in Keys /\ n.ver \in Nat /\ n.age \in Int /\ \A k \in Keys : odd[k] \subseteq odd'[k]
  BY Types, OddGrows
<1>7. Clear(n) BY <1>5, <1>6 DEF Clear
<1>8. Followed(n) BY <1>2, <1>7, FollowedIs
<1>9. /\ Fetched(n) => Fetched(m)'
      /\ Known(n) => Known(m)'
      /\ Listing(n) => Listing(m)'
  BY <1>1, <1>5 DEF Fetched, Known, Listing
<1>10. /\ Near(n, sweep.taken) => Near(m, sweep'.taken)
       /\ Near(n, sweep.before) => Near(m, sweep'.before)
  BY <1>1, <1>5 DEF Near
<1>11. ASSUME ~n.read, Timely(n), n \notin Missed
       PROVE  /\ ~m.read /\ Timely(m)' /\ n.age <= Skew
  <2>1. n \notin Within(Window) BY <1>11
  <2>2. n.age <= Skew - Rescan + Rescanned /\ Rescanned \in 0 .. Rescan - 1
    BY <1>7, <1>11, <2>1, MissedIsTimely
  <2>3. ~m.read BY <1>4, <1>5, <1>11
  <2>4. ~Full' /\ m.age <= Skew - Rescan + reader'.rescan
    BY <1>1, <1>5, <2>2, Bounds DEF Full
  <2> QED BY <1>6, <2>2, <2>3, <2>4, Bounds DEF Timely
<1>12. ASSUME n \in Missed, ~Known(m)', Timely(n)
       PROVE  /\ ~m.read /\ Timely(m)' /\ n.age <= Skew
  <2>1. n \notin F /\ (~Full \/ n.age <= Skew - Rescan)
    BY <1>4, <1>5, <1>12 DEF Clear, Known
  <2>2. ~m.read BY <1>5, <1>12, <2>1
  <2>3. reader.rescan \in {NoAge} \cup 0 .. Rescan BY Types
  <2>4. CASE Full
    <3>1. reader'.rescan = 0 BY <1>1, <2>4 DEF Rescanned
    <3>2. ~Full' BY <3>1, Bounds DEF Full
    <3> QED BY <1>5, <1>6, <2>1, <2>2, <2>4, <3>1, <3>2, Bounds DEF Timely
  <2>5. CASE ~Full
    <3>1. reader'.rescan = reader.rescan BY <1>1, <2>5 DEF Rescanned
    <3>2. ~Full' BY <2>5, <3>1 DEF Full
    <3>3. n.age <= Skew - Rescan + reader.rescan BY <1>12, <2>5 DEF Timely
    <3> QED BY <1>5, <1>6, <2>2, <2>3, <3>1, <3>2, <3>3, Bounds DEF Timely
  <2> QED BY <2>4, <2>5
<1>13. Known(m)' \/ Listing(m)' \/ (~m.read /\ Timely(m)' /\ n.age <= Skew)
  BY <1>8, <1>9, <1>11, <1>12 DEF Followed
<1>14. Known(m)' \/ Listing(m)' \/ Near(m, sweep'.reached)
  <2>1. CASE TickRead
    <3> DEFINE a == IF Tells THEN 0 ELSE sweep.reached
               w == sweep.awaiting /\ ~Tells
    <3>1. sweep' = [sweep EXCEPT !.reached = a, !.awaiting = w] BY <2>1 DEF TickRead
    <3>2. a = 0 BY <1>3
    <3> HIDE DEF a, w
    <3>3. sweep'.reached = 0 BY <3>1, <3>2 DEF TypeOK
    <3>4. n.age <= Skew => Near(m, sweep'.reached) BY <1>5, <1>6, <3>3, Bounds DEF Near
    <3> QED BY <1>13, <3>4
  <2>2. CASE TickFails
    <3>1. sweep' = sweep BY <2>2 DEF TickFails, index
    <3>2. Near(n, sweep.reached) => Near(m, sweep'.reached) BY <1>5, <3>1 DEF Near
    <3> QED BY <1>8, <1>9, <3>2 DEF Followed
  <2> QED BY <2>1, <2>2
<1> QED BY <1>8, <1>9, <1>10, <1>13, <1>14 DEF Followed

\* A listing has found the records it lists, when nothing is wrong with them.
LEMMA ListedIsFetched ==
    ASSUME TypeOK, Indexed, Noted, NEW B, NEW S, NEW ver, Lists(B, S, ver),
           NEW n \in notes, Clear(n)', n.key \in S, ver[n.key] >= n.ver
    PROVE  Fetched(n)'
<1>1. S \in SUBSET Keys /\ (\A k \in S : ver[k] \in Nat) /\ Finds(S, ver) BY DEF Lists
<1>2. /\ refresh'.at = "save"
      /\ \A k \in Keys :
            /\ odd[k] \subseteq odd'[k]
            /\ k \in S /\ aside[k] # "waits" /\ odd'[k] = {} => refresh'.found[k] = ver[k]
  BY <1>1, FoundIs
<1>3. n.key \in Keys BY Types
<1>4. odd'[n.key] = {} BY DEF Clear
<1>5. odd[n.key] = {} BY <1>2, <1>3, <1>4
<1>6. aside[n.key] = "no" BY <1>3, <1>5 DEF Indexed
<1>7. refresh'.found[n.key] = ver[n.key] BY <1>2, <1>3, <1>4, <1>6
<1> QED BY <1>2, <1>7 DEF Fetched

\* What is read of a note that is on disk is at least as new.
LEMMA OnDisk ==
    ASSUME TypeOK, Noted, NEW n \in notes
    PROVE  n.key \in Keys /\ n.ver \in Nat /\ disk[n.key] \in Nat /\ disk[n.key] >= n.ver
           /\ n.ver >= 1
BY Types DEF Noted

\* A refresh that lists keeps it followed.
LEMMA FollowedLists ==
    ASSUME TypeOK, Noted, Indexed, Relisted, Following, NEW B, NEW S, NEW ver, Lists(B, S, ver),
           [Next]_vars, NEW n \in notes, Clear(n)', Settled'
    PROVE  Followed(n)'
<1>1. /\ B \in Batches /\ B \subseteq S /\ S \in SUBSET Keys
      /\ \A k \in B : ver[k] = disk[k]
      /\ watched /\ refresh.at = "idle" /\ Waiting \ B \subseteq hinted'
      /\ sweep'.reached = sweep.reached
      /\ sweep'.taken = IF B = Waiting THEN sweep.reached ELSE sweep.taken
      /\ sweep'.before = sweep.before /\ ~sweep'.resuming
      /\ UNCHANGED <<disk, notes, reader, watched, replay, mem>>
  BY DEF Lists, onlyRefresh, store, journal
<1>2. n.key \in Keys /\ disk[n.key] >= n.ver BY OnDisk
<1>3. n.key \in B => Fetched(n)' BY <1>1, <1>2, ListedIsFetched
<1>4. Fetched(n) => Fetched(n)' BY <1>1 DEF Fetched
<1>5. n.key \in hinted => Fetched(n)' \/ (n.key \in hinted' /\ B # Waiting)
  BY <1>1, <1>3 DEF Waiting
<1>6. CASE Fetched(n)' BY <1>6 DEF Followed, Known
<1>7. CASE Listing(n)' BY <1>7 DEF Followed
<1>8. CASE S = Keys /\ ver = disk
  BY <1>2, <1>6, <1>8, ListedIsFetched
<1>9. CASE relist' = [NoRelisting EXCEPT !.on = TRUE, !.seen = B]
  <2>1. relist'.on /\ ~relist'.named /\ relist'.seen = B BY <1>9 DEF NoRelisting
  <2> QED BY <1>3, <1>6, <1>7, <2>1 DEF Listing
<1>10. ASSUME Settled, Listing(n) => Listing(n)' \/ Fetched(n)'
       PROVE  Followed(n)'
  <2>0. Clear(n)
    <3>1. \A k \in Keys : odd[k] \subseteq odd'[k] BY OddGrows
    <3> QED BY <1>2, <3>1 DEF Clear
  <2>1. Followed(n) BY <1>10, <2>0, FollowedIs
  <2>2. CASE ~Listing(n)' /\ ~Fetched(n)'
    <3>1. ~Listing(n) /\ ~Fetched(n) BY <1>4, <1>10, <2>2
    <3>2. Known(n) => n.key \in hinted' /\ B # Waiting
      BY <1>5, <2>2, <3>1 DEF Known
    <3>3. Timely(n) => Timely(n)' BY <1>1 DEF Timely, Full
    <3>4. Near(n, sweep.reached) => Near(n, sweep'.reached) BY <1>1
    <3>5. Known(n)' \/ (~n.read /\ Timely(n)')
      BY <2>1, <3>1, <3>2, <3>3 DEF Followed, Known
    <3>6. Known(n)' \/ Near(n, sweep'.reached)
      BY <2>1, <3>1, <3>2, <3>4 DEF Followed, Known
    <3>7. Near(n, sweep'.taken)
      <4>1. CASE B = Waiting
        <5>1. sweep'.taken = sweep.reached BY <1>1, <4>1
        <5>2. Near(n, sweep.reached) BY <2>1, <3>1, <3>2, <4>1 DEF Followed
        <5> QED BY <5>1, <5>2
      <4>2. CASE B # Waiting
        <5>1. sweep'.taken = sweep.taken BY <1>1, <4>2
        <5>2. Near(n, sweep.taken) BY <2>1, <3>1 DEF Followed
        <5> QED BY <5>1, <5>2
      <4> QED BY <4>1, <4>2
    <3>8. Near(n, sweep'.before) BY <1>1, <2>1, <3>1 DEF Followed
    <3> QED BY <3>5, <3>6, <3>7, <3>8 DEF Followed
  <2> QED BY <1>6, <1>7, <2>2
<1>11. CASE relist.on /\ HandsOver(B, S, ver)
  <2>1. Settled BY <1>1, <1>11 DEF Settled
  <2>2. ASSUME Listing(n), ~Fetched(n)' PROVE Listing(n)'
    <3>1. n.key \notin relist.seen \cup B BY <1>3, <2>2 DEF Listing
    <3>2. CASE \E r \in relist.ready : r[1] = n.key /\ r[2] >= n.ver
      <4>1. PICK r \in relist.ready : r[1] = n.key /\ r[2] >= n.ver BY <3>2
      <4>2. r[1] \in S /\ ver[r[1]] = r[2] BY <1>11, <3>1, <4>1 DEF HandsOver
      <4> QED BY <2>2, <4>1, <4>2, ListedIsFetched
    <3>3. CASE ~relist.named \/ n.key \in relist.todo
      <4>1. ~RelistDone BY <3>3 DEF RelistDone
      <4>2. relist' = [relist EXCEPT !.ready = {}, !.refused = {}, !.seen = relist.seen \cup B]
        BY <1>11, <4>1 DEF HandsOver
      <4>3. relist'.on = relist.on /\ relist'.named = relist.named
            /\ relist'.todo = relist.todo /\ relist'.seen = relist.seen \cup B
        BY <4>2 DEF TypeOK
      <4> QED BY <1>11, <3>1, <3>3, <4>3 DEF Listing
    <3> QED BY <2>2, <3>2, <3>3 DEF Listing
  <2> QED BY <1>10, <2>1, <2>2
<1>12. CASE ~FullDue /\ ~relist.on
  <2>1. Settled BY <1>1, <1>12 DEF Settled, FullDue
  <2> QED BY <1>10, <1>12, <2>1 DEF Listing
<1> QED BY <1>8, <1>9, <1>11, <1>12 DEF Lists

\* A relisting that goes on keeps what it will list, and has.
LEMMA ListingKeeps ==
    ASSUME TypeOK, Noted, NEW n \in notes, Clear(n)', Listing(n),
           RelistNames \/ \E k \in Keys : RelistFiles(k) \/ RelistRefused(k)
    PROVE  Listing(n)'
<1>1. n.key \in Keys /\ disk[n.key] \in Nat /\ disk[n.key] >= n.ver /\ n.ver >= 1 /\ n.ver \in Nat
  BY OnDisk
<1>2. CASE RelistNames
  <2> DEFINE K == {k \in Keys : disk[k] > 0 \/ mem[k] > 0}
  <2>1. relist' = [relist EXCEPT !.named = TRUE, !.todo = K] BY <1>2 DEF RelistNames
  <2>2. n.key \in K BY <1>1
  <2> HIDE DEF K
  <2>3. relist'.on = relist.on /\ relist'.seen = relist.seen /\ relist'.todo = K
    BY <2>1 DEF TypeOK
  <2> QED BY <2>2, <2>3 DEF Listing
<1>3. ASSUME NEW k \in Keys, RelistFiles(k) PROVE Listing(n)'
  <2>1. /\ relist'.on = relist.on /\ relist'.seen = relist.seen /\ relist'.named = relist.named
        /\ relist'.todo = relist.todo \ {k}
        /\ relist'.ready = relist.ready \cup {<<k, disk[k]>>}
    BY <1>3 DEF RelistFiles, TypeOK
  <2>2. CASE n.key = k
    <3>1. <<k, disk[k]>>[1] = n.key /\ <<k, disk[k]>>[2] >= n.ver BY <1>1, <2>2
    <3>2. \E r \in relist'.ready : r[1] = n.key /\ r[2] >= n.ver BY <2>1, <3>1
    <3> QED BY <2>1, <3>2 DEF Listing
  <2>3. CASE n.key # k BY <2>1, <2>3 DEF Listing
  <2> QED BY <2>2, <2>3
<1>4. ASSUME NEW k \in Keys, RelistRefused(k) PROVE Listing(n)'
  <2>1. /\ relist'.on = relist.on /\ relist'.seen = relist.seen /\ relist'.named = relist.named
        /\ relist'.todo = relist.todo \ {k} /\ relist'.ready = relist.ready
        /\ odd' = Went(k, "refused")
    BY <1>4 DEF RelistRefused, TypeOK
  <2>2. n.key # k BY <1>1, <2>1 DEF Clear, Went, TypeOK
  <2> QED BY <2>1, <2>2 DEF Listing
<1> QED BY <1>2, <1>3, <1>4

\* A replay hints what the index lacked, or leaves it to the reader.
LEMMA FollowedReplay ==
    ASSUME TypeOK, Noted, Indexed, Replaying, Following, TickReplay,
           NEW n \in notes, Clear(n), Settled'
    PROVE  Followed(n)'
<1> DEFINE found == IF watched /\ replay # NoAge THEN Within(replay + Skew) ELSE {}
<1>1. /\ hinted' = Routed(found)
      /\ UNCHANGED <<notes, reader, watched, sweep, relist, refresh, mem>>
  BY DEF TickReplay, onlyTick
<1>2. watched BY <1>1 DEF Settled
<1>3. /\ Fetched(n) => Fetched(n)'
      /\ Known(n) => Known(n)'
      /\ Listing(n) => Listing(n)'
      /\ Timely(n) => Timely(n)'
  BY <1>1 DEF Fetched, Known, Listing, Timely, Full, Routed
<1>4. CASE replay = NoAge
  <2>1. Settled BY <1>1, <1>2, <1>4 DEF Settled
  <2>2. Followed(n) BY <2>1, FollowedIs
  <2>3. /\ Near(n, sweep.reached) => Near(n, sweep'.reached)
        /\ Near(n, sweep.taken) => Near(n, sweep'.taken)
        /\ Near(n, sweep.before) => Near(n, sweep'.before)
    BY <1>1
  <2> QED BY <1>3, <2>2, <2>3 DEF Followed
<1>5. CASE replay # NoAge
  <2>1. sweep'.reached = NoAge /\ sweep'.taken = NoAge /\ sweep'.before = NoAge
    BY <1>1, <1>5 DEF Indexed
  <2>2. Fetched(n) \/ n.age <= replay + Skew BY <1>2, <1>5 DEF Replaying
  <2>3. /\ n.age \in Int /\ n.age <= Retain /\ replay \in Nat
        /\ (n.read => n.age >= 0)
        /\ reader.last \in Ages /\ reader.rescan \in {NoAge} \cup 0 .. Rescan
    BY <1>5, Types, Bounds DEF TypeOK, Noted, Ages
  <2>4. SUFFICES Known(n)' \/ (~n.read /\ Timely(n)')
    BY <2>1 DEF Followed, Near
  <2>5. CASE Fetched(n) BY <1>3, <2>5 DEF Known
  <2>6. CASE n.age <= replay + Skew /\ n.age >= 0
    <3>1. n.age \in 0 .. Least(replay + Skew, Retain) BY <2>3, <2>6, Bounds DEF Least
    <3>2. n \in found BY <1>2, <1>5, <3>1 DEF Within
    <3> QED BY <1>1, <3>2 DEF Known, Routed
  <2>7. CASE n.age < 0
    <3>1. Most(reader.last, 0) \in Nat BY <2>3, Bounds DEF Most, Ages
    <3>2. Timely(n) BY <2>3, <2>7, <3>1, Bounds DEF Timely, Full
    <3> QED BY <1>3, <2>3, <2>7, <3>2
  <2> QED BY <2>2, <2>3, <2>5, <2>6, <2>7
<1> QED BY <1>4, <1>5

\* A step that tells the index nothing, and takes no hint, keeps it followed.
LEMMA FollowedRest ==
    ASSUME TypeOK, Noted, Following, [Next]_vars, ~Restart, Settled,
           reader' = reader, hinted \subseteq hinted',
           sweep'.reached = sweep.reached,
           {sweep'.taken, sweep'.before} \subseteq {sweep.taken, sweep.before},
           NEW n \in notes, Clear(n)', Listing(n) => Listing(n)'
    PROVE  Followed(n)'
<1>1. n.key \in Keys /\ n.ver \in Nat BY OnDisk
<1>2. Clear(n)
  <2>1. \A k \in Keys : odd[k] \subseteq odd'[k] BY OddGrows
  <2> QED BY <1>1, <2>1 DEF Clear
<1>3. Followed(n) BY <1>2, FollowedIs
<1>4. Fetched(n) => Fetched(n)' BY <1>1, FetchedKeeps
<1>5. Known(n) => Known(n)' BY <1>4 DEF Known
<1>6. Timely(n) => Timely(n)' BY DEF Timely, Full
<1>7. /\ Near(n, sweep.reached) => Near(n, sweep'.reached)
      /\ Near(n, sweep.taken) /\ Near(n, sweep.before) =>
            Near(n, sweep'.taken) /\ Near(n, sweep'.before)
  OBVIOUS
<1> QED BY <1>3, <1>4, <1>5, <1>6, <1>7 DEF Followed

\* The part of what is hinted and read.
LEMMA FollowingStep ==
    ASSUME TypeOK, Noted, Indexed, Relisted, Replaying, Following, [Next]_vars
    PROVE  Following'
<1> SUFFICES ASSUME Settled', NEW m \in notes', Clear(m)'
             PROVE  Followed(m)'
  BY FollowedIs
<1>0. /\ TypeOK' /\ \A k \in Keys : odd[k] \subseteq odd'[k]
      /\ ~Restart
  BY TypeStep, OddGrows DEF Restart, Settled
<1>1. CASE Time BY <1>1, FollowedAges
<1>2. CASE TickRead \/ TickFails BY <1>2, FollowedReads
<1>3. CASE TickReplay
  <2>1. notes' = notes /\ odd' = odd BY <1>3 DEF TickReplay
  <2> QED BY <1>3, <2>1, FollowedReplay DEF Clear
<1>4. CASE ListAll \/ ListBehind \/ ListRelisted \/ ListHinted
  <2>1. PICK B, S, ver : Lists(B, S, ver) BY <1>4, ListIs
  <2>2. notes' = notes BY <2>1 DEF Lists, onlyRefresh, store
  <2> QED BY <2>1, <2>2, FollowedLists
<1>5. CASE Watch
  <2>1. ~watched BY <1>5 DEF Watch
  <2>2. ~relist.on /\ relist' = relist BY <1>5, <2>1 DEF Watch, Indexed
  <2>3. CASE Resumable
    <3>1. replay' # NoAge BY <1>5, <2>3 DEF Watch, Resumable
    <3> QED BY <3>1 DEF Settled
  <2>4. CASE ~Resumable
    <3>1. ~sweep'.full /\ ~sweep'.resuming BY <1>5, <2>4 DEF Watch, TypeOK
    <3> QED BY <2>2, <3>1 DEF Settled
  <2> QED BY <2>3, <2>4
<1>6. CASE ListFails
  <2>1. /\ sweep'.full = (sweep.full \/ sweep.resuming) /\ ~sweep'.resuming
        /\ sweep'.reached = sweep.reached
        /\ sweep'.taken = sweep.taken /\ sweep'.before = sweep.before
        /\ hinted \subseteq hinted' /\ relist' \in {relist, NoRelisting}
        /\ UNCHANGED <<notes, reader, watched, replay>>
    BY <1>6, FailedIs DEF onlyRefresh, store, journal
  <2>2. relist.on => ~sweep'.full BY <2>1 DEF Indexed
  <2>3. ~NoRelisting.on BY DEF NoRelisting
  <2>4. relist.on => relist' = relist BY <2>1, <2>2, <2>3 DEF Settled
  <2>5. Settled BY <2>1, <2>3, <2>4 DEF Settled
  <2>6. Listing(m) => Listing(m)' BY <2>4 DEF Listing
  <2> QED BY <1>0, <2>1, <2>5, <2>6, FollowedRest
<1>7. CASE RelistNames \/ \E k \in Keys : RelistFiles(k) \/ RelistRefused(k)
  <2>1. UNCHANGED <<notes, reader, watched, replay, sweep, hinted>> /\ relist'.on = relist.on
    <3>1. UNCHANGED <<onlyRelist, hinted>> /\ relist'.on = relist.on
      BY <1>7 DEF RelistNames, RelistFiles, RelistRefused, TypeOK
    <3> QED BY <3>1 DEF onlyRelist, store, journal
  <2>2. Settled BY <2>1 DEF Settled
  <2>3. Listing(m) => Listing(m)' BY <1>7, <2>1, ListingKeeps
  <2> QED BY <1>0, <2>1, <2>2, <2>3, FollowedRest
<1>8. CASE Save \/ SaveFails \/ SaveRaises
  <2>1. /\ UNCHANGED <<notes, reader, watched, replay, relist>> /\ hinted \subseteq hinted'
        /\ (sweep'.full => sweep.full) /\ sweep'.resuming = sweep.resuming
        /\ sweep'.reached = sweep.reached
        /\ \/ sweep'.taken = sweep.taken /\ sweep'.before = sweep.taken
           \/ sweep'.taken = sweep.before /\ sweep'.before = sweep.before
    BY <1>8, SavesIs DEF onlyRefresh, store, journal
  <2>2. {sweep'.taken, sweep'.before} \subseteq {sweep.taken, sweep.before} BY <2>1
  <2>3. Settled BY <2>1, <2>2 DEF Settled
  <2>4. Listing(m) => Listing(m)' BY <2>1 DEF Listing
  <2> QED BY <1>0, <2>1, <2>2, <2>3, <2>4, FollowedRest
<1>9. CASE \/ \E k \in Keys : Write(k)
           \/ \E n \in pend : Put(n)
           \/ Kill \/ UNCHANGED vars
  <2>1. UNCHANGED <<reader, watched, replay, sweep, hinted, relist>>
    BY <1>9 DEF Write, Put, Kill, vars, journal, index
  <2>2. Settled BY <2>1 DEF Settled
  <2>3. CASE m \in notes
    <3>1. Listing(m) => Listing(m)' BY <2>1 DEF Listing
    <3> QED BY <1>0, <2>1, <2>2, <2>3, <3>1, FollowedRest
  <2>4. CASE m \notin notes
    <3>1. \E n \in pend : Put(n)
      BY <1>9, <2>4 DEF Write, Kill, vars
    <3>2. m \in pend /\ m.age <= Skew - Rescan /\ ~m.read
      <4>1. PICK n \in pend : Put(n) BY <3>1
      <4>2. m = n BY <2>4, <4>1 DEF Put
      <4>3. odd' = IF n.age <= Skew - Rescan THEN odd ELSE Went(n.key, "late")
        BY <4>1 DEF Put
      <4>4. n.key \in Keys /\ ~n.read BY Types DEF Noted
      <4>5. odd' = Went(n.key, "late") => "late" \in odd'[n.key]
        BY <4>4 DEF Went, TypeOK
      <4> QED BY <4>2, <4>3, <4>4, <4>5 DEF Clear
    <3>3. /\ m.age \in Int /\ reader.last \in Ages /\ reader.rescan \in {NoAge} \cup 0 .. Rescan
          /\ sweep.reached \in Ages /\ sweep.taken \in Ages /\ sweep.before \in Ages
      BY <3>2, Types
    <3>4. Most(reader.last, 0) \in Nat BY <3>3, Bounds DEF Most, Ages
    <3>5. Timely(m)' BY <2>1, <3>2, <3>3, <3>4, Bounds DEF Timely, Full
    <3>6. Near(m, sweep.reached) /\ Near(m, sweep.taken) /\ Near(m, sweep.before)
      BY <3>2, <3>3, Bounds, AgesAre DEF Near
    <3>7. Near(m, sweep'.reached) /\ Near(m, sweep'.taken) /\ Near(m, sweep'.before)
      BY <2>1, <3>6
    <3> QED BY <3>2, <3>5, <3>7 DEF Followed
  <2> QED BY <2>3, <2>4
<1> QED
  BY <1>0, <1>1, <1>2, <1>3, <1>4, <1>5, <1>6, <1>7, <1>8, <1>9 DEF Next, Tick, Refresh

\* The part of what a restart relies on.
LEMMA RestartStep ==
    ASSUME TypeOK, Noted, Indexed, Following, RestartFindsAll, [Next]_vars
    PROVE  RestartFindsAll'
<1> SUFFICES ASSUME NEW m \in notes', odd'[m.key] = {}, Resumable'
             PROVE  stored'[m.key] >= m.ver \/ m.age <= mark' + Skew
  BY DEF RestartFindsAll, Replayed
<1>0. /\ TypeOK' /\ Clear(m)'
      /\ mark \in Ages /\ mark' \in Ages /\ mark' # NoAge /\ mark' + Skew + Margin <= Retain
      /\ \A k \in Keys : stored[k] \in Nat /\ mem[k] \in Nat /\ refresh.found[k] \in Nat
                         /\ stored'[k] \in Nat
  <2>1. TypeOK' BY TypeStep
  <2> QED BY <2>1, Types DEF TypeOK, Clear, Resumable
<1>1. CASE Time
  <2>1. /\ notes' = Aged({n \in notes : n.age < Retain})
        /\ mark' = Older(mark) /\ stored' = stored /\ odd' = odd
    BY <1>1 DEF Time
  <2>2. {n \in notes : n.age < Retain} \in SUBSET Notes BY DEF TypeOK
  <2>3. PICK n \in {n \in notes : n.age < Retain} :
           /\ m.key = n.key /\ m.ver = n.ver /\ m.age = Least(n.age + 1, Cap)
    BY <2>1, <2>2, AgedIs
  <2>4. mark # NoAge /\ mark \in Int /\ mark <= mark'
    BY <1>0, <2>1, OlderIs, Bounds DEF Older, Least, Ages
  <2>5. Resumable
    <3>1. mark' \in Int /\ mark' + Skew + Margin <= Retain BY <1>0, AgesAre
    <3>2. \A a, b \in Int : a <= b /\ b + Skew + Margin <= Retain => a + Skew + Margin <= Retain
      BY Bounds
    <3> QED BY <2>4, <3>1, <3>2 DEF Resumable
  <2>6. stored[n.key] >= n.ver \/ n.age <= mark + Skew
    BY <2>1, <2>3, <2>5 DEF RestartFindsAll, Replayed
  <2>7. n.age \in (0 - Ahead) .. Cap BY Types
  <2> QED BY <1>0, <2>1, <2>3, <2>4, <2>6, <2>7, OlderIs
<1>2. CASE ~Time /\ \E n \in notes : /\ m.key = n.key /\ m.ver = n.ver /\ m.age = n.age
                                     /\ Clear(n)
  <2>1. PICK n \in notes : m.key = n.key /\ m.ver = n.ver /\ m.age = n.age /\ Clear(n)
    BY <1>2
  <2>2. n.key \in Keys /\ n.ver \in Nat BY Types
  <2>3. Resumable => stored[n.key] >= n.ver \/ n.age <= mark + Skew
    BY <2>1 DEF RestartFindsAll, Replayed, Clear
  <2>4. CASE mark' = mark /\ \A k \in Keys : stored[k] <= stored'[k]
    <3>1. Resumable BY <2>4 DEF Resumable
    <3> QED BY <1>0, <2>1, <2>2, <2>3, <2>4, <3>1
  <2>5. CASE Save
    <3>1. stored' = Applied /\ mark' = IF MarkDue(Persistable, Changed) THEN Persistable ELSE mark
      BY <2>5 DEF Save
    <3>2. /\ refresh.at = "save"
          /\ Applied[n.key] >= mem[n.key] /\ Applied[n.key] >= refresh.found[n.key]
          /\ \A k \in Keys : stored[k] <= Applied[k]
      BY <1>0, <2>2, <2>5 DEF Save, Applied, Most, Indexed
    <3>3. CASE ~MarkDue(Persistable, Changed) BY <2>4, <3>1, <3>2, <3>3
    <3>4. CASE MarkDue(Persistable, Changed)
      <4>1. Persistable # NoAge BY <3>4 DEF MarkDue
      <4>2. mark' = sweep.taken /\ sweep.full /\ ~relist.on /\ sweep.taken # NoAge
        BY <3>1, <3>4, <4>1 DEF Persistable
      <4>3. Settled BY <4>2 DEF Indexed, Settled
      <4>4. Fetched(n) \/ n.age <= sweep.taken + Skew
        BY <2>1, <4>2, <4>3 DEF Following, Listing
      <4>5. Fetched(n) => Applied[n.key] >= n.ver
        <5>1. Applied[n.key] \in Nat BY <1>0, <2>2, <3>1
        <5> QED BY <1>0, <2>2, <3>2, <5>1 DEF Fetched
      <4> QED BY <2>1, <3>1, <4>2, <4>4, <4>5
    <3> QED BY <3>3, <3>4
  <2>6. CASE UNCHANGED <<mark, stored>>
    <3>1. \A k \in Keys : stored[k] <= stored'[k] BY <1>0, <2>6
    <3> QED BY <2>4, <2>6, <3>1
  <2>7. CASE SaveFails \/ SaveRaises
    <3>1. mark' = mark /\ \A k \in Keys : stored'[k] \in {stored[k], Applied[k]}
      BY <2>7, SavesIs DEF SaveFails, SaveRaises, SavesSome
    <3>2. \A k \in Keys : stored[k] <= mem[k] /\ mem[k] <= Applied[k] /\ Applied[k] \in Nat
      BY <1>0 DEF Indexed, Applied, Most
    <3> QED BY <1>0, <2>4, <3>1, <3>2
  <2> QED
    BY <1>2, <2>5, <2>6, <2>7
    DEF Next, Tick, Refresh, Write, Put, Kill, TickReplay, TickRead, TickFails, Watch,
        ListAll, ListBehind, ListRelisted, ListHinted, ListFails, RelistNames, RelistFiles,
        RelistRefused, Restart, vars, index, onlyTick, onlyRelist
<1>3. CASE m \in pend /\ m.age <= Skew - Rescan
  BY <1>0, <1>3, Types, AgesAre, Bounds
<1> QED BY <1>0, <1>1, <1>2, <1>3, NoteFrom

-----------------------------------------------------------------------------
(***************************************************************************)
(* The theorems.                                                           *)
(***************************************************************************)

\* What holds of an index nobody asked for yet.
LEMMA InitIs == Init => IInv
<1> SUFFICES ASSUME Init PROVE IInv OBVIOUS
<1>1. NoAge \in Ages /\ NoAge \in {NoAge} \cup 0 .. Rescan BY DEF Ages
<1>2. TypeOK
  <2>1. /\ reader \in [last : Ages, rescan : {NoAge} \cup 0 .. Rescan]
        /\ sweep \in [full : BOOLEAN, awaiting : BOOLEAN, resuming : BOOLEAN,
                      reached : Ages, taken : Ages, before : Ages]
        /\ relist \in [on : BOOLEAN, named : BOOLEAN, todo : SUBSET Keys,
                       ready : SUBSET (Keys \X Nat), refused : SUBSET Keys, seen : SUBSET Keys]
    BY <1>1 DEF Init, InitReader, InitSweep, NoRelisting
  <2>2. /\ refresh \in [at : {"idle", "save"}, found : [Keys -> Nat],
                        took : SUBSET Keys, whole : BOOLEAN]
        /\ aside \in [Keys -> {"no", "waits", "due"}]
        /\ odd \in [Keys -> SUBSET {"late", "dropped", "aside", "refused", "lost"}]
    BY DEF Init, Resting, NoneAside
  <2> QED BY <1>1, <2>1, <2>2 DEF TypeOK, Init
<1>3. Noted BY DEF Init, Noted
<1>4. Indexed BY DEF Init, Indexed, InitSweep, NoRelisting, Resting, NoneAside
<1>5. Relisted BY DEF Init, Relisted, NoRelisting
<1>6. Replaying /\ Following /\ RestartFindsAll
  BY DEF Init, Replaying, Following, RestartFindsAll
<1> QED BY <1>2, <1>3, <1>4, <1>5, <1>6 DEF IInv

\* The invariant is inductive.
LEMMA NextIs == IInv /\ [Next]_vars => IInv'
<1> SUFFICES ASSUME IInv, [Next]_vars PROVE IInv' OBVIOUS
<1>1. TypeOK /\ Noted /\ Indexed /\ Relisted /\ Replaying /\ Following /\ RestartFindsAll
  BY DEF IInv
<1>2. TypeOK' /\ Noted' BY <1>1, TypeStep, NotedStep
<1>3. Indexed' /\ Relisted' BY <1>1, IndexedStep, RelistedStep
<1>4. Replaying' /\ Following' BY <1>1, ReplayingStep, FollowingStep
<1>5. RestartFindsAll' BY <1>1, RestartStep
<1> QED BY <1>2, <1>3, <1>4, <1>5 DEF IInv

\* In every reachable state, under every fault.
THEOREM Invariance == Spec => []IInv
<1>1. Init => IInv BY InitIs
<1>2. IInv /\ [Next]_vars => IInv' BY NextIs
<1> QED BY <1>1, <1>2, PTL DEF Spec

\* The state of the writers, of the journal's thread and of the index keeps its
\* types, and so do the ages however long the server runs.
THEOREM TypeCorrect == Spec => []TypeOK
<1>1. IInv => TypeOK BY DEF IInv
<1> QED BY <1>1, Invariance, PTL

\* The mark in the index's store never vouches for a record the store lacks: a
\* server that restarts and goes on from it (resume_journal) has, or replays,
\* every change whose note was put in time and read, for any windows that fit
\* one another, any number of records, and any failures.
THEOREM RestartFindsAllAlways == Spec => []RestartFindsAll
<1>1. IInv => RestartFindsAll BY DEF IInv
<1> QED BY <1>1, Invariance, PTL

-----------------------------------------------------------------------------
(***************************************************************************)
(* Every change shows in the end: where the last write of a record is on   *)
(* its way to the index, whatever was set aside or refused meanwhile.      *)
(***************************************************************************)

\* No note of the record came late or was dropped, and no read was put off when
\* the server stopped: UpToDate excepts the others.
Traced(k) == odd[k] \cap {"late", "dropped", "lost"} = {}

\* The notes of its last write.
LastOf(k) == {n \in notes : n.key = k /\ n.ver = disk[k]}
Queued(k) == \E n \in pend : n.key = k /\ n.ver = disk[k]

\* The index has its last write, or the refresh under way has found it.
Has(k) == mem[k] = disk[k] \/ (refresh.at = "save" /\ refresh.found[k] = disk[k])

\* The listing behind serving will find it, or has found it; or leaves it to a hint.
InListing(k) ==
    /\ relist.on /\ k \notin relist.seen
    /\ \/ ~relist.named
       \/ k \in relist.todo
       \/ \E r \in relist.ready : r[1] = k /\ r[2] = disk[k]

Refused(k) == relist.on /\ k \in relist.refused

\* The reader's next rescan finds the note, before it is pruned.
Soon(n) ==
    n.age < IF Full THEN Most(reader.last, 0) + Skew ELSE Skew - Rescan + reader.rescan + 1

Unread(k) == \E n \in LastOf(k) : ~n.read /\ Soon(n)

\* A replay from the mark a names it, or a is too old to be gone on from.
NearBy(k, a) == \E n \in LastOf(k) : n.age < a + Skew
Told(k, a)   == a + Skew > Retain \/ NearBy(k, a)

\* The index relies on hints.
Watching == watched /\ (sweep.full \/ sweep.resuming \/ relist.on)

\* The index will find it without a replay.
Expected(k) ==
    \/ Queued(k) \/ Has(k) \/ k \in hinted \/ aside[k] # "no"
    \/ InListing(k) \/ Refused(k) \/ Unread(k)

Coming(k) == Expected(k) \/ (replay # NoAge /\ NearBy(k, replay))

\* What the marks an index is told, and those it takes, vouch for.
Vouched(k) ==
    /\ sweep.reached # NoAge =>
          Queued(k) \/ Has(k) \/ k \in hinted \/ InListing(k) \/ Told(k, sweep.reached)
    /\ sweep.taken # NoAge =>
          Queued(k) \/ Has(k) \/ InListing(k) \/ Told(k, sweep.taken)
    /\ sweep.before # NoAge =>
          Queued(k) \/ Has(k) \/ InListing(k) \/ Told(k, sweep.before)

\* And the mark in the index's store.
Saved(k) == mark # NoAge => stored[k] = disk[k] \/ Queued(k) \/ Told(k, mark)

Promise(k) ==
    /\ Watching => (Traced(k) => Coming(k)) /\ (odd[k] = {} => Vouched(k))
    /\ odd[k] = {} => Saved(k)

\* No change is forgotten.
Promised == \A k \in Keys : Promise(k)

\* Nothing is newer than the store's; what a relisting refused is remembered; an
\* index that is not watched yet has put nothing off.
Kept ==
    /\ \A k \in Keys : mem[k] <= disk[k] /\ refresh.found[k] <= disk[k]
    /\ \A r \in relist.ready : r[2] <= disk[r[1]]
    /\ \A k \in relist.refused : odd[k] # {}
    /\ ~relist.on => relist = NoRelisting
    /\ \A n \in notes : Traced(n.key) => n.age <= Retain
    /\ ~watched => \A k \in Keys : Traced(k) => odd[k] = {}

\* How long the next tick may be away, at most.
Left == IF ticking \/ reader.last = NoAge THEN Lag ELSE Most(Lag - reader.last, 0)

\* The replay comes before the notes it is to name are pruned: this is what the
\* margin of resume_journal is for.
OnTime == watched /\ replay # NoAge => replay + Skew + Left <= Retain - Margin + Lag

KInv == Kept /\ OnTime /\ Promised

\* What the lemmas below go by.
Sane == TypeOK /\ Noted /\ Indexed /\ Relisted

\* What went wrong stays wrong.
LEMMA TracedBefore ==
    ASSUME TypeOK, [Next]_vars, NEW k \in Keys
    PROVE  /\ Traced(k)' => Traced(k)
           /\ odd'[k] = {} => odd[k] = {}
           /\ odd[k] = {} => Traced(k)
<1>1. odd[k] \subseteq odd'[k] BY OddGrows
<1> QED BY <1>1 DEF Traced

\* A step other than time keeps the notes and their ages.
LEMMA NotesGo ==
    ASSUME TypeOK, [Next]_vars, ~Time, NEW n \in notes
    PROVE  \E m \in notes' : m.key = n.key /\ m.ver = n.ver /\ m.age = n.age
<1>0. n \in Notes BY DEF TypeOK
<1>1. ASSUME NEW F, MarkRead(F)
      PROVE  \E m \in notes' : m.key = n.key /\ m.ver = n.ver /\ m.age = n.age
  <2>1. (IF n \in F THEN [n EXCEPT !.read = TRUE] ELSE n) \in notes' BY <1>1 DEF MarkRead
  <2>2. CASE n \in F
    <3>1. [n EXCEPT !.read = TRUE] \in notes' BY <2>1, <2>2
    <3>2. /\ [n EXCEPT !.read = TRUE].key = n.key /\ [n EXCEPT !.read = TRUE].ver = n.ver
          /\ [n EXCEPT !.read = TRUE].age = n.age
      BY <1>0 DEF Notes
    <3> QED BY <3>1, <3>2
  <2>3. CASE n \notin F BY <2>1, <2>3
  <2> QED BY <2>2, <2>3
<1>2. CASE TickRead \/ TickFails
  <2>1. \E F : MarkRead(F) BY <1>2 DEF TickRead, TickFails
  <2> QED BY <1>1, <2>1
<1>3. CASE Restart
  <2>1. [n EXCEPT !.read = FALSE] \in notes' BY <1>3 DEF Restart
  <2>2. /\ [n EXCEPT !.read = FALSE].key = n.key /\ [n EXCEPT !.read = FALSE].ver = n.ver
        /\ [n EXCEPT !.read = FALSE].age = n.age
    BY <1>0 DEF Notes
  <2> QED BY <2>1, <2>2
<1>4. CASE notes \subseteq notes' BY <1>4
<1> QED
  BY <1>2, <1>3, <1>4 DEF Next, Tick, Refresh, Write, Put, Kill, TickReplay, Watch, ListAll,
     ListBehind, ListRelisted, ListHinted, ListFails, Save, SaveFails, SaveRaises, RelistNames,
     RelistFiles, RelistRefused, vars, store, onlyRefresh, onlyRelist

\* So what a mark tells of it, it still tells.
LEMMA ToldStays ==
    ASSUME TypeOK, [Next]_vars, ~Time, NEW k \in Keys, disk'[k] = disk[k], NEW a
    PROVE  /\ (\E n \in LastOf(k) : n.age < a + Skew) => \E n \in LastOf(k)' : n.age < a + Skew
<1> SUFFICES ASSUME NEW n \in LastOf(k), n.age < a + Skew
             PROVE  \E m \in LastOf(k)' : m.age < a + Skew
  OBVIOUS
<1>1. n \in notes /\ n.key = k /\ n.ver = disk[k] BY DEF LastOf
<1>2. PICK m \in notes' : m.key = n.key /\ m.ver = n.ver /\ m.age = n.age BY <1>1, NotesGo
<1>3. m \in LastOf(k)' BY <1>1, <1>2 DEF LastOf
<1> QED BY <1>2, <1>3

\* A listing has found what it read, or set it aside; what waits goes on waiting.
LEMMA FoundMore ==
    ASSUME TypeOK, NEW S \in SUBSET Keys, NEW ver, Finds(S, ver), NEW k \in Keys
    PROVE  /\ refresh'.at = "save"
           /\ refresh'.found[k] = 0 \/ (k \in S /\ refresh'.found[k] = ver[k])
           /\ k \in S => refresh'.found[k] = ver[k] \/ aside'[k] # "no"
           /\ aside[k] = "waits" => aside'[k] = "waits"
<1> DEFINE read == {i \in S : aside[i] # "waits"}
<1>0. PICK took \in SUBSET Keys, whole \in BOOLEAN : Found(S, ver, took, whole) BY DEF Finds
<1>1. PICK bad \in SUBSET read :
         /\ refresh' = [at |-> "save", took |-> took, whole |-> whole,
                        found |-> [i \in Keys |-> IF i \in read \ bad THEN ver[i] ELSE 0]]
         /\ aside' = [i \in Keys |-> IF i \in bad THEN "waits"
                                     ELSE IF i \in read THEN "no" ELSE aside[i]]
  BY <1>0 DEF Found
<1>2. /\ refresh'.at = "save"
      /\ refresh'.found[k] = IF k \in read \ bad THEN ver[k] ELSE 0
      /\ aside'[k] = IF k \in bad THEN "waits" ELSE IF k \in read THEN "no" ELSE aside[k]
  BY <1>1
<1>3. k \in S <=> (k \in read \/ (k \in S /\ aside[k] = "waits")) OBVIOUS
<1>4. k \in read => aside[k] # "waits" /\ k \in S OBVIOUS
<1>5. bad \subseteq read BY <1>1
<1> HIDE DEF read
<1> QED BY <1>2, <1>3, <1>4, <1>5

\* What an applied refresh leaves is no newer than the store.
LEMMA AppliedIs ==
    ASSUME TypeOK, Kept, NEW k \in Keys
    PROVE  /\ Applied[k] \in Nat /\ Applied[k] <= disk[k]
           /\ mem[k] <= Applied[k] /\ refresh.found[k] <= Applied[k]
<1>1. mem[k] \in Nat /\ refresh.found[k] \in Nat /\ disk[k] \in Nat BY Types
<1>2. mem[k] <= disk[k] /\ refresh.found[k] <= disk[k] BY DEF Kept
<1>3. Applied[k] = Most(mem[k], refresh.found[k]) BY DEF Applied
<1> QED BY <1>1, <1>2, <1>3 DEF Most

\* The records are no newer than the store's.
LEMMA NotNewer ==
    ASSUME Sane, Kept, [Next]_vars, NEW k \in Keys
    PROVE  mem'[k] <= disk'[k] /\ refresh'.found[k] <= disk'[k]
<1>0. TypeOK /\ TypeOK' /\ Noted /\ Indexed /\ Relisted BY TypeStep DEF Sane
<1>1. /\ disk[k] \in Nat /\ disk'[k] \in Nat /\ mem[k] \in Nat /\ refresh.found[k] \in Nat
      /\ stored[k] \in Nat
  BY <1>0 DEF TypeOK
<1>2. mem[k] <= disk[k] /\ refresh.found[k] <= disk[k] /\ stored[k] <= mem[k]
  BY <1>0 DEF Kept, Indexed
<1>3. Resting.found[k] = 0 BY DEF Resting
<1>4. CASE \E i \in Keys : Write(i)
  <2>1. /\ \E i \in Keys : disk' = [disk EXCEPT ![i] = @ + 1]
        /\ UNCHANGED <<mem, refresh>>
    BY <1>4 DEF Write, index
  <2>2. disk[k] <= disk'[k] BY <1>0, <1>1, <2>1 DEF TypeOK
  <2> QED BY <1>1, <1>2, <2>1, <2>2
<1>5. CASE ListAll \/ ListBehind \/ ListRelisted \/ ListHinted
  <2>1. PICK B, S, ver : Lists(B, S, ver) BY <1>0, <1>5, ListIs
  <2>2. /\ S \in SUBSET Keys /\ Finds(S, ver) /\ UNCHANGED <<disk, mem>>
        /\ \A i \in S : ver[i] = disk[i] \/ \E r \in relist.ready : r[1] = i /\ r[2] = ver[i]
    BY <2>1 DEF Lists, onlyRefresh, store
  <2>3. refresh'.found[k] = 0 \/ (k \in S /\ refresh'.found[k] = ver[k])
    BY <1>0, <2>2, FoundMore
  <2>4. k \in S => ver[k] <= disk[k] BY <1>1, <2>2 DEF Kept
  <2> QED BY <1>1, <1>2, <2>2, <2>3, <2>4
<1>6. CASE Save \/ SaveFails \/ SaveRaises
  <2>1. mem' = Applied /\ refresh' = Resting /\ disk' = disk
    BY <1>6 DEF Save, SaveFails, SaveRaises, onlyRefresh, store
  <2>2. Applied[k] <= disk[k] BY <1>0, AppliedIs
  <2> QED BY <1>1, <1>3, <2>1, <2>2
<1>7. CASE Restart
  <2>1. mem' = stored /\ refresh' = Resting /\ disk' = disk BY <1>7 DEF Restart
  <2> QED BY <1>1, <1>2, <1>3, <2>1
<1>8. CASE UNCHANGED <<disk, mem, refresh>> BY <1>2, <1>8
<1> QED
  BY <1>4, <1>5, <1>6, <1>7, <1>8 DEF Next, Tick, Refresh, Put, Kill, Time, TickReplay,
     TickRead, TickFails, Watch, ListFails, RelistNames, RelistFiles, RelistRefused, vars,
     index, store, onlyTick, onlyRefresh, onlyRelist

\* A listing leaves the relisting as it was, begins it, ends it, or takes what it
\* has ready.
LEMMA ListsRelist ==
    ASSUME TypeOK, NEW B, NEW S, NEW ver, Lists(B, S, ver)
    PROVE  \/ relist' \in {relist, NoRelisting}
           \/ relist'.on /\ relist'.ready = {} /\ relist'.refused = {}
<1>1. CASE relist' = [NoRelisting EXCEPT !.on = TRUE, !.seen = B] BY <1>1 DEF NoRelisting
<1>2. CASE relist.on /\ HandsOver(B, S, ver) BY <1>2 DEF HandsOver, TypeOK
<1> QED BY <1>1, <1>2 DEF Lists

\* The relisting's part of Kept.
LEMMA RelistKept ==
    ASSUME Sane, Kept, [Next]_vars
    PROVE  /\ \A r \in relist'.ready : r[2] <= disk'[r[1]]
           /\ \A k \in relist'.refused : odd'[k] # {}
           /\ ~relist'.on => relist' = NoRelisting
<1>0. TypeOK /\ TypeOK' /\ Noted /\ Indexed /\ Relisted /\ \A k \in Keys : odd[k] \subseteq odd'[k]
  BY TypeStep, OddGrows DEF Sane
<1>1. /\ \A r \in relist.ready : r[1] \in Keys /\ r[2] \in Nat /\ r[2] <= disk[r[1]]
      /\ \A k \in relist.refused : k \in Keys /\ odd[k] # {}
      /\ ~relist.on => relist = NoRelisting
  BY <1>0, Types DEF Kept, TypeOK
<1>2. \A k \in Keys : disk[k] \in Nat /\ disk'[k] \in Nat /\ disk[k] <= disk'[k]
  <2>1. ASSUME NEW i \in Keys, Write(i) PROVE \A k \in Keys : disk[k] <= disk'[k]
    BY <1>0, <2>1 DEF Write, TypeOK
  <2>2. disk' = disk \/ \E i \in Keys : Write(i)
    BY DEF Next, Tick, Refresh, Put, Kill, Time, TickReplay, TickRead, TickFails, Watch,
       ListAll, ListBehind, ListRelisted, ListHinted, ListFails, Save, SaveFails, SaveRaises,
       RelistNames, RelistFiles, RelistRefused, Restart, vars, store,
       onlyTick, onlyRefresh, onlyRelist
  <2>3. \A k \in Keys : disk[k] \in Nat /\ disk'[k] \in Nat BY <1>0 DEF TypeOK
  <2> QED BY <2>1, <2>2, <2>3
<1>3. CASE relist' \in {relist, NoRelisting}
  <2>1. NoRelisting.ready = {} /\ NoRelisting.refused = {} BY DEF NoRelisting
  <2>2. CASE relist' = NoRelisting BY <2>1, <2>2
  <2>3. CASE relist' = relist
    <3>1. ASSUME NEW r \in relist.ready PROVE r[2] <= disk'[r[1]]
      <4>1. r[1] \in Keys /\ r[2] \in Nat /\ r[2] <= disk[r[1]] BY <1>1
      <4> QED BY <1>2, <4>1
    <3> QED BY <1>0, <1>1, <2>3, <3>1
  <2> QED BY <1>3, <2>2, <2>3
<1>4. CASE ListAll \/ ListBehind \/ ListRelisted \/ ListHinted
  <2>1. PICK B, S, ver : Lists(B, S, ver) BY <1>0, <1>4, ListIs
  <2>2. \/ relist' \in {relist, NoRelisting}
        \/ relist'.on /\ relist'.ready = {} /\ relist'.refused = {}
    BY <1>0, <2>1, ListsRelist
  <2> QED BY <1>3, <2>2
<1>5. CASE RelistNames
  <2>1. /\ relist.on /\ relist'.on = relist.on /\ relist'.ready = relist.ready
        /\ relist'.refused = relist.refused /\ disk' = disk /\ odd' = odd
    BY <1>0, <1>5 DEF RelistNames, onlyRelist, store, TypeOK
  <2> QED BY <1>1, <2>1
<1>6. ASSUME NEW i \in Keys, RelistFiles(i) \/ RelistRefused(i)
      PROVE  /\ \A r \in relist'.ready : r[2] <= disk'[r[1]]
             /\ \A k \in relist'.refused : odd'[k] # {}
             /\ ~relist'.on => relist' = NoRelisting
  <2>1. i \in relist.todo /\ relist.on
    <3>1. i \in relist.todo BY <1>6 DEF RelistFiles, RelistRefused
    <3>2. NoRelisting.todo = {} BY DEF NoRelisting
    <3> QED BY <1>1, <3>1, <3>2
  <2>2. relist'.on = relist.on /\ disk' = disk
    BY <1>0, <1>6 DEF RelistFiles, RelistRefused, onlyRelist, store, TypeOK
  <2>3. CASE RelistFiles(i)
    <3>1. /\ relist'.ready = relist.ready \cup {<<i, disk[i]>>}
          /\ relist'.refused = relist.refused /\ odd' = odd
      BY <1>0, <2>3 DEF RelistFiles, TypeOK
    <3>2. <<i, disk[i]>>[2] <= disk[<<i, disk[i]>>[1]] BY <1>2
    <3>3. \A r \in relist'.ready : r \in relist.ready \/ r = <<i, disk[i]>> BY <3>1
    <3>4. \A r \in relist'.ready : r[2] <= disk'[r[1]] BY <1>1, <2>2, <3>2, <3>3
    <3> QED BY <1>1, <2>1, <2>2, <3>1, <3>4
  <2>4. CASE RelistRefused(i)
    <3>1. /\ relist'.ready = relist.ready /\ relist'.refused = relist.refused \cup {i}
          /\ odd' = Went(i, "refused")
      BY <1>0, <2>4 DEF RelistRefused, TypeOK
    <3>2. "refused" \in odd'[i] BY <1>0, <3>1 DEF Went, TypeOK
    <3>3. \A k \in relist'.refused : odd'[k] # {} BY <1>0, <1>1, <3>1, <3>2
    <3> QED BY <1>1, <2>1, <2>2, <3>1, <3>3
  <2> QED BY <1>6, <2>3, <2>4
<1> QED
  BY <1>3, <1>4, <1>5, <1>6 DEF Next, Tick, Refresh, Write, Put, Kill, Time, TickReplay,
     TickRead, TickFails, Watch, ListFails, Save, SaveFails, SaveRaises, Restart, vars, index,
     onlyTick

\* The part of what is kept.
LEMMA KeptStep ==
    ASSUME Sane, Kept, [Next]_vars
    PROVE  Kept'
<1>0. /\ TypeOK /\ TypeOK' /\ Noted /\ Indexed /\ Relisted
      /\ \A k \in Keys : (Traced(k)' => Traced(k)) /\ (odd'[k] = {} => odd[k] = {})
      /\ \A k \in Keys : odd[k] \subseteq odd'[k]
  <2>1. TypeOK /\ Noted /\ Indexed /\ Relisted BY DEF Sane
  <2> QED BY <2>1, TypeStep, TracedBefore, OddGrows
<1>1. \A k \in Keys : mem'[k] <= disk'[k] /\ refresh'.found[k] <= disk'[k] BY NotNewer
<1>2. /\ \A r \in relist'.ready : r[2] <= disk'[r[1]]
      /\ \A k \in relist'.refused : odd'[k] # {}
      /\ ~relist'.on => relist' = NoRelisting
  BY RelistKept
<1>3. ASSUME NEW m \in notes', Traced(m.key)' PROVE m.age <= Retain
  <2>1. CASE Time
    <3>1. notes' = Aged({n \in notes : n.age < Retain}) BY <2>1 DEF Time
    <3>2. {n \in notes : n.age < Retain} \in SUBSET Notes BY <1>0 DEF TypeOK
    <3>3. PICK n \in {n \in notes : n.age < Retain} : m.age = Least(n.age + 1, Cap)
      BY <3>1, <3>2, AgedIs
    <3>4. n.age \in Int /\ n.age < Retain BY <1>0, <3>3, Types
    <3> QED BY <3>3, <3>4, Bounds DEF Least
  <2>2. ASSUME NEW n \in pend, Put(n) PROVE m.age <= Retain
    <3>1. /\ notes' = notes \cup {n}
          /\ odd' = IF n.age <= Skew - Rescan THEN odd ELSE Went(n.key, "late")
      BY <2>2 DEF Put
    <3>2. n.key \in Keys /\ n.age \in Int BY <1>0, Types
    <3>3. CASE m = n
      <4>1. odd' = Went(n.key, "late") => "late" \in odd'[n.key]
        BY <1>0, <3>2 DEF Went, TypeOK
      <4>2. n.age <= Skew - Rescan BY <1>3, <3>1, <3>3, <4>1 DEF Traced
      <4> QED BY <3>2, <3>3, <4>2, Bounds
    <3>4. CASE m \in notes
      <4>1. m.key \in Keys BY <1>0, <3>4, Types
      <4> QED BY <1>0, <1>3, <3>4, <4>1 DEF Kept
    <3> QED BY <3>1, <3>3, <3>4
  <2>3. CASE ~Time /\ ~\E n \in pend : Put(n)
    <3>1. PICK n \in notes : m.key = n.key /\ m.age = n.age BY <1>0, <2>3, NotesKeep
    <3>2. n.key \in Keys BY <1>0, Types
    <3> QED BY <1>0, <1>3, <3>1, <3>2 DEF Kept
  <2> QED BY <2>1, <2>2, <2>3
<1>4. ASSUME ~watched', NEW k \in Keys, Traced(k)' PROVE odd'[k] = {}
  <2>1. CASE Restart
    <3>1. odd' = [i \in Keys |-> IF odd[i] \cap {"aside", "refused"} = {} THEN odd[i]
                                 ELSE odd[i] \cup {"lost"}]
      BY <2>1 DEF Restart
    <3>2. odd'[k] = odd[k] /\ odd[k] \cap {"aside", "refused"} = {}
      BY <1>4, <3>1 DEF Traced
    <3>3. odd[k] \subseteq {"late", "dropped", "aside", "refused", "lost"} BY <1>0 DEF TypeOK
    <3> QED BY <1>4, <3>2, <3>3 DEF Traced
  <2>2. CASE ~Restart
    <3>1. ~watched
      BY <1>4, <2>2 DEF Next, Tick, Refresh, Write, Put, Kill, Time, TickReplay, TickRead,
         TickFails, Watch, ListAll, ListBehind, ListRelisted, ListHinted, ListFails, Save,
         SaveFails, SaveRaises, RelistNames, RelistFiles, RelistRefused, vars, journal,
         onlyRefresh, onlyRelist
    <3>2. odd[k] = {} BY <1>0, <1>4, <3>1 DEF Kept
    <3>3. relist.todo = {} BY <1>0, <3>1 DEF Kept, Indexed, NoRelisting
    <3>4. \A n \in pend : n.key \in Keys BY <1>0, Types
    <3>5. odd'[k] = odd[k] \/ Traced(k)' = FALSE \/ odd'[k] = {}
      <4>1. ASSUME NEW n \in pend, Put(n) PROVE odd'[k] = odd[k] \/ "late" \in odd'[k]
        BY <1>0, <3>4, <4>1 DEF Put, Went, TypeOK
      <4>2. CASE Kill
        <5>1. odd'[k] = odd[k] \/ "late" \in odd'[k] BY <4>2 DEF Kill
        <5> QED BY <5>1 DEF Traced
      <4>3. CASE TickFails
        <5>1. \E S \in SUBSET Within(Window) :
                 odd' = [i \in Keys |-> IF \E n \in S : n.key = i
                                       THEN odd[i] \cup {"dropped"} ELSE odd[i]]
          BY <4>3 DEF TickFails
        <5>2. odd'[k] = odd[k] \/ "dropped" \in odd'[k] BY <5>1
        <5> QED BY <5>2 DEF Traced
      <4>4. CASE odd' = odd BY <4>4
      <4>5. ~ListAll /\ ~ListBehind /\ ~ListRelisted /\ ~ListHinted
        BY <3>1 DEF ListAll, ListBehind, ListRelisted, ListHinted, Starts
      <4>6. \A i \in Keys : ~RelistRefused(i) BY <3>3 DEF RelistRefused
      <4>7. CASE \E n \in pend : Put(n) BY <4>1, <4>7 DEF Traced
      <4> QED
        BY <2>2, <4>2, <4>3, <4>4, <4>5, <4>6, <4>7 DEF Next, Tick, Refresh, Write, Time,
           TickReplay, TickRead, Watch, ListFails, Save, SaveFails, SaveRaises, RelistNames,
           RelistFiles, vars
    <3> QED BY <1>4, <3>2, <3>5
  <2> QED BY <2>1, <2>2
<1> QED BY <1>1, <1>2, <1>3, <1>4 DEF Kept

\* The bounds that fit one another: a tick is at most a margin late.
LEMMA Fits ==
    ASSUME Lag <= Margin + 1
    PROVE  Lag - 1 + Skew <= Retain /\ Lag <= Cap /\ Lag \in Nat /\ Lag > 0
BY JournalAssumption, Bounds

\* The part of the replay's time.
LEMMA OnTimeStep ==
    ASSUME Lag <= Margin + 1, TypeOK, Indexed, OnTime, [Next]_vars
    PROVE  OnTime'
<1> SUFFICES ASSUME watched', replay' # NoAge PROVE replay' + Skew + Left' <= Retain - Margin + Lag
  BY DEF OnTime
<1>0. /\ replay \in Ages /\ replay' \in Ages /\ mark \in Ages
      /\ reader.last \in Ages /\ reader'.last \in Ages /\ Lag \in Nat /\ Lag > 0
      /\ ticking \in BOOLEAN /\ ticking' \in BOOLEAN
  <2>1. TypeOK' BY TypeStep
  <2> QED BY <2>1, Fits DEF TypeOK
<1>1. Left \in 0 .. Lag /\ Left' \in 0 .. Lag BY <1>0, Bounds, AgesAre DEF Left, Most
<1>2. replay' \in Int /\ replay \in Int /\ mark \in Int BY <1>0, AgesAre
<1>3. \A a \in Int, x \in 0 .. Lag : a + Skew + Lag <= Retain - Margin + Lag =>
         a + Skew + x <= Retain - Margin + Lag
  BY <1>0, Bounds
<1>4. \A a \in Int : a + Skew + Margin <= Retain => a + Skew + Lag <= Retain - Margin + Lag
  BY <1>0, Bounds
<1>5. ~Restart /\ ~TickReplay BY DEF Restart, TickReplay
<1>6. CASE Time
  <2>1. /\ ~ticking /\ ticking' = ticking /\ watched' = watched /\ replay' = Older(replay)
        /\ reader'.last = Older(reader.last) /\ reader.last \in 0 .. Lag - 1
    BY <1>6 DEF Time
  <2>2. replay # NoAge BY <1>0, <2>1, OlderIs
  <2>3. replay' <= replay + 1 BY <1>2, <2>1, <2>2, Bounds DEF Older, Least
  <2>4. reader'.last = reader.last + 1
    BY <1>0, <2>1, Fits, Bounds DEF Older, Least
  <2>5. Left = Lag - reader.last /\ Left' = Left - 1
    BY <1>0, <2>1, <2>4, Bounds DEF Left, Most
  <2>6. replay + Skew + Left <= Retain - Margin + Lag BY <2>1, <2>2 DEF OnTime
  <2> QED BY <1>1, <1>2, <2>3, <2>5, <2>6, Bounds
<1>7. CASE TickRead \/ TickFails
  <2>1. ticking /\ watched' = watched /\ replay' = replay BY <1>7 DEF TickRead, TickFails
  <2>2. Left = Lag BY <2>1 DEF Left
  <2>3. replay + Skew + Lag <= Retain - Margin + Lag BY <2>1, <2>2 DEF OnTime
  <2>4. replay' = replay BY <2>1
  <2> QED BY <1>1, <1>2, <1>3, <2>3, <2>4
<1>8. CASE Watch
  <2>1. ~watched BY <1>8 DEF Watch
  <2>2. Resumable /\ replay' = mark BY <1>8, <2>1 DEF Watch, Indexed
  <2>3. mark + Skew + Margin <= Retain BY <2>2 DEF Resumable
  <2>4. replay' = mark BY <2>2
  <2> QED BY <1>1, <1>2, <1>3, <1>4, <2>3, <2>4
<1>9. CASE UNCHANGED journal
  <2>1. watched' = watched /\ replay' = replay /\ Left' = Left BY <1>9 DEF journal, Left
  <2> QED BY <2>1 DEF OnTime
<1> QED
  BY <1>5, <1>6, <1>7, <1>8, <1>9 DEF Next, Tick, Refresh, Write, Put, Kill, ListAll,
     ListBehind, ListRelisted, ListHinted, ListFails, Save, SaveFails, SaveRaises, RelistNames,
     RelistFiles, RelistRefused, vars, journal, store, onlyRefresh, onlyRelist

-----------------------------------------------------------------------------
(***************************************************************************)
(* Every step keeps the promise.                                           *)
(***************************************************************************)

\* A write that is queued keeps every promise.
LEMMA QueuedIs ==
    ASSUME NEW k \in Keys, Queued(k)'
    PROVE  Promise(k)'
BY DEF Promise, Coming, Expected, Vouched, Saved

\* A step that adds notes and touches nothing else of a record.
LEMMA PromiseAdds ==
    ASSUME TypeOK, TypeOK', NEW k \in Keys, Promise(k), UNCHANGED <<journal, index>>,
           disk'[k] = disk[k], notes \subseteq notes', Queued(k) => Queued(k)',
           odd[k] \subseteq odd'[k]
    PROVE  Promise(k)'
<1>1. LastOf(k) \subseteq LastOf(k)' BY DEF LastOf
<1>2. UNCHANGED <<reader, watched, replay, sweep, hinted, relist, refresh, mem, stored, mark, aside>>
  BY DEF journal, index
<1>3. /\ Has(k) => Has(k)'
      /\ InListing(k) => InListing(k)'
      /\ Refused(k) => Refused(k)'
      /\ Watching' => Watching
  BY <1>2 DEF Has, InListing, Refused, Watching
<1>4. Unread(k) => Unread(k)' BY <1>1, <1>2 DEF Unread, Soon, Full
<1>5. ASSUME NEW a, NearBy(k, a) PROVE \E n \in LastOf(k)' : n.age < a + Skew
  BY <1>1, <1>5 DEF NearBy
<1>6. replay # NoAge /\ NearBy(k, replay) => replay' # NoAge /\ NearBy(k, replay)'
  BY <1>2, <1>5 DEF NearBy
<1>7. /\ Told(k, sweep.reached) => Told(k, sweep.reached)'
      /\ Told(k, sweep.taken) => Told(k, sweep.taken)'
      /\ Told(k, sweep.before) => Told(k, sweep.before)'
      /\ Told(k, mark) => Told(k, mark)'
  BY <1>2, <1>5 DEF Told, NearBy
<1>8. /\ Traced(k)' => Traced(k)
      /\ odd'[k] = {} => odd[k] = {}
  BY DEF Traced
<1>9. Coming(k) => Coming(k)' BY <1>2, <1>3, <1>4, <1>6 DEF Coming, Expected
<1>10. Vouched(k) => Vouched(k)' BY <1>2, <1>3, <1>7 DEF Vouched
<1>11. Saved(k) => Saved(k)' BY <1>2, <1>7 DEF Saved
<1> QED BY <1>3, <1>8, <1>9, <1>10, <1>11 DEF Promise

\* A note that is put in time will be read, and is named by a replay.
LEMMA PutInTime ==
    ASSUME Sane, TypeOK', NEW n \in pend, n.age <= Skew - Rescan, notes' = notes \cup {n},
           disk' = disk, reader' = reader, NEW k \in Keys, n.key = k, n.ver = disk[k]
    PROVE  Unread(k)' /\ \A a \in Ages \ {NoAge} : \E m \in LastOf(k)' : m.age < a + Skew
<1>1. n \in LastOf(k)' BY DEF LastOf
<1>2. /\ n.age \in Int /\ ~n.read /\ reader.last \in Ages
      /\ reader.rescan \in {NoAge} \cup 0 .. Rescan
  BY Types DEF Sane, Noted
<1>3. Most(reader.last, 0) \in Nat BY <1>2, Bounds, AgesAre DEF Most
<1>4. Soon(n) BY <1>2, <1>3, Bounds DEF Soon, Full
<1>5. Soon(n)' BY <1>4 DEF Soon, Full
<1>6. ASSUME NEW a \in Ages \ {NoAge} PROVE n.age < a + Skew
  <2>1. a \in Int /\ a >= 0 BY AgesAre
  <2> QED BY <1>2, <2>1, Bounds
<1> QED BY <1>1, <1>2, <1>5, <1>6 DEF Unread

\* The store's writers.
LEMMA PromiseWrites ==
    ASSUME Sane, Promised, [Next]_vars, NEW k \in Keys,
           \/ \E i \in Keys : Write(i)
           \/ \E n \in pend : Put(n)
           \/ Kill \/ UNCHANGED vars
    PROVE  Promise(k)'
<1>0. /\ TypeOK /\ TypeOK' /\ odd[k] \subseteq odd'[k] /\ Promise(k)
      /\ UNCHANGED <<journal, index>>
  <2>1. TypeOK BY DEF Sane
  <2>2. UNCHANGED <<journal, index>> BY DEF Write, Put, Kill, vars, journal, index
  <2> QED BY <2>1, <2>2, TypeStep, OddGrows DEF Promised
<1>1. ASSUME NEW i \in Keys, Write(i) PROVE Promise(k)'
  <2>1. PICK fast \in 0 .. Ahead :
           pend' = pend \cup {[key |-> i, ver |-> disk'[i], age |-> 0 - fast, read |-> FALSE]}
    BY <1>1 DEF Write
  <2>2. notes' = notes /\ (i # k => disk'[k] = disk[k])
    BY <1>0, <1>1 DEF Write, TypeOK
  <2>3. CASE i = k
    <3> DEFINE w == [key |-> i, ver |-> disk'[i], age |-> 0 - fast, read |-> FALSE]
    <3>1. w \in pend' /\ w.key = k /\ w.ver = disk'[k] BY <2>1, <2>3
    <3> HIDE DEF w
    <3>2. Queued(k)' BY <3>1 DEF Queued
    <3> QED BY <3>2, QueuedIs
  <2>4. CASE i # k
    <3>1. Queued(k) => Queued(k)' BY <2>1, <2>2, <2>4 DEF Queued
    <3> QED BY <1>0, <2>2, <2>4, <3>1, PromiseAdds
  <2> QED BY <2>3, <2>4
<1>2. ASSUME NEW n \in pend, Put(n) PROVE Promise(k)'
  <2>1. /\ pend' = pend \ {n} /\ notes' = notes \cup {n} /\ disk' = disk
        /\ odd' = IF n.age <= Skew - Rescan THEN odd ELSE Went(n.key, "late")
    BY <1>2 DEF Put
  <2>2. CASE Queued(k) => Queued(k)'
    BY <1>0, <2>1, <2>2, PromiseAdds
  <2>3. CASE Queued(k) /\ ~Queued(k)'
    <3>1. n.key = k /\ n.ver = disk[k] BY <2>1, <2>3 DEF Queued
    <3>2. CASE n.age <= Skew - Rescan
      <4>1. reader' = reader /\ replay' = replay /\ sweep' = sweep /\ mark' = mark
        BY <1>0 DEF journal, index
      <4>2. Unread(k)' /\ \A a \in Ages \ {NoAge} : \E m \in LastOf(k)' : m.age < a + Skew
        BY <1>0, <2>1, <3>1, <3>2, <4>1, PutInTime
      <4>3. /\ sweep.reached \in Ages /\ sweep.taken \in Ages /\ sweep.before \in Ages
            /\ mark \in Ages
        BY <1>0 DEF TypeOK
      <4>4. /\ sweep'.reached # NoAge => Told(k, sweep.reached)'
            /\ sweep'.taken # NoAge => Told(k, sweep.taken)'
            /\ sweep'.before # NoAge => Told(k, sweep.before)'
            /\ mark' # NoAge => Told(k, mark)'
        BY <4>1, <4>2, <4>3 DEF Told, NearBy
      <4> QED BY <4>2, <4>4 DEF Promise, Coming, Expected, Vouched, Saved
    <3>3. CASE ~(n.age <= Skew - Rescan)
      <4>1. "late" \in odd'[k] BY <1>0, <2>1, <3>1, <3>3 DEF Went, TypeOK
      <4> QED BY <4>1 DEF Promise, Traced
    <3> QED BY <3>2, <3>3
  <2> QED BY <2>2, <2>3
<1>3. CASE Kill
  <2>1. disk' = disk /\ notes' = notes BY <1>3 DEF Kill
  <2>2. CASE Queued(k)
    <3>1. "late" \in odd'[k] BY <1>3, <2>2 DEF Kill, Queued
    <3> QED BY <3>1 DEF Promise, Traced
  <2> QED BY <1>0, <2>1, <2>2, PromiseAdds
<1>4. CASE UNCHANGED vars
  <2>1. disk' = disk /\ notes' = notes /\ pend' = pend BY <1>4 DEF vars
  <2>2. Queued(k) => Queued(k)' BY <2>1 DEF Queued
  <2> QED BY <1>0, <2>1, <2>2, PromiseAdds
<1> QED BY <1>1, <1>2, <1>3, <1>4

\* A note that is not pruned grows older.
LEMMA AgesOn ==
    ASSUME TypeOK, Time, NEW k \in Keys, NEW n \in LastOf(k), n.age < Retain
    PROVE  \E m \in LastOf(k)' : m.read = n.read /\ m.age = n.age + 1
<1>1. /\ notes' = Aged({i \in notes : i.age < Retain}) /\ disk' = disk
      /\ n \in notes /\ n.key = k /\ n.ver = disk[k]
  BY DEF Time, LastOf
<1>2. n \in Notes /\ n.age \in Int BY <1>1, Types DEF TypeOK
<1> DEFINE m == [n EXCEPT !.age = Least(n.age + 1, Cap)]
<1>3. m \in notes' BY <1>1 DEF Aged
<1>4. m.key = n.key /\ m.ver = n.ver /\ m.read = n.read /\ m.age = Least(n.age + 1, Cap)
  BY <1>2 DEF Notes
<1>5. m.age = n.age + 1 BY <1>2, <1>4, Bounds DEF Least
<1>6. m \in LastOf(k)' BY <1>1, <1>3, <1>4 DEF LastOf
<1> QED BY <1>4, <1>5, <1>6

\* What a mark tells of it, it tells until the mark is too old.
LEMMA ToldAges ==
    ASSUME TypeOK, Time, NEW k \in Keys, NEW a \in Ages, a # NoAge, Told(k, a)
    PROVE  Older(a) + Skew > Retain \/ \E m \in LastOf(k)' : m.age < Older(a) + Skew
<1>1. a \in 0 .. Cap /\ Older(a) = Least(a + 1, Cap) BY OlderIs DEF Older
<1>2. CASE a + Skew > Retain BY <1>1, <1>2, Bounds DEF Least
<1>3. CASE a + Skew <= Retain
  <2>1. NearBy(k, a) BY <1>1, <1>3, Bounds DEF Told
  <2>2. PICK n \in LastOf(k) : n.age < a + Skew BY <2>1 DEF NearBy
  <2>3. n.age \in Int BY <2>2, Types DEF LastOf
  <2>4. n.age < Retain BY <1>1, <1>3, <2>2, <2>3, Bounds
  <2>5. PICK m \in LastOf(k)' : m.age = n.age + 1 BY <2>4, AgesOn
  <2>6. Older(a) = a + 1 BY <1>1, <1>3, Bounds DEF Least
  <2>7. m.age < Older(a) + Skew BY <1>1, <2>2, <2>3, <2>5, <2>6, Bounds
  <2> QED BY <2>7
<1> QED BY <1>1, <1>2, <1>3, Bounds

\* A note that the reader will find is not pruned before a tick finds it, as long
\* as ticks are not later than the margin allows.
LEMMA SoonAges ==
    ASSUME Lag <= Margin + 1, TypeOK, Time, watched, NEW k \in Keys, NEW n \in LastOf(k),
           Soon(n), ~n.read
    PROVE  Unread(k)'
<1>1. /\ reader.last \in 0 .. Lag - 1
      /\ reader' = [last |-> Older(reader.last), rescan |-> Least(Older(reader.rescan), Rescan)]
  BY DEF Time
<1>2. n.age \in Int /\ reader.last \in Ages /\ reader.rescan \in {NoAge} \cup 0 .. Rescan
  BY Types DEF LastOf
<1>3. reader.last \in Nat /\ reader'.last = reader.last + 1
  BY <1>1, <1>2, Fits, Bounds DEF Older, Least
<1>4. Most(reader.last, 0) = reader.last /\ Most(reader'.last, 0) = reader'.last
  BY <1>3 DEF Most
<1>5. CASE Full
  <2>1. n.age < reader.last + Skew BY <1>4, <1>5 DEF Soon
  <2>2. n.age < Retain BY <1>1, <1>2, <1>3, <2>1, Fits, Bounds
  <2>3. PICK m \in LastOf(k)' : m.read = n.read /\ m.age = n.age + 1 BY <2>2, AgesOn
  <2>4. reader'.rescan \in {NoAge, Rescan}
    BY <1>1, <1>2, <1>5, Bounds DEF Full, Older, Least
  <2>5. m.age < reader'.last + Skew BY <1>2, <1>3, <2>1, <2>3, Bounds
  <2>6. Soon(m)' BY <1>4, <2>4, <2>5 DEF Soon, Full
  <2> QED BY <2>3, <2>6 DEF Unread
<1>6. CASE ~Full
  <2>1. n.age < Skew - Rescan + reader.rescan + 1 BY <1>6 DEF Soon
  <2>2. reader.rescan \in 0 .. Rescan /\ reader.rescan < Rescan
    BY <1>2, <1>6, Bounds DEF Full
  <2>3. n.age < Skew /\ n.age < Retain BY <1>2, <2>1, <2>2, Bounds
  <2>4. PICK m \in LastOf(k)' : m.read = n.read /\ m.age = n.age + 1 BY <2>3, AgesOn
  <2>5. reader'.rescan = reader.rescan + 1
    BY <1>1, <2>2, Bounds DEF Older, Least
  <2>6. m.age < Skew - Rescan + reader'.rescan + 1
    BY <1>2, <2>1, <2>2, <2>4, <2>5, Bounds
  <2>7. m.age < reader'.last + Skew BY <1>2, <1>3, <2>3, <2>4, Bounds
  <2>8. Soon(m)' BY <1>4, <2>6, <2>7 DEF Soon, Full
  <2> QED BY <2>4, <2>8 DEF Unread
<1> QED BY <1>5, <1>6

\* Time.
LEMMA PromiseAges ==
    ASSUME Lag <= Margin + 1, Sane, OnTime, Promised, Time, [Next]_vars, NEW k \in Keys
    PROVE  Promise(k)'
<1>0. /\ TypeOK /\ Indexed /\ TypeOK' /\ Promise(k) BY TypeStep DEF Sane, Promised
<1>1. /\ ~ticking /\ (watched => reader.last \in 0 .. Lag - 1)
      /\ pend' = Aged(pend) /\ replay' = Older(replay) /\ mark' = Older(mark)
      /\ sweep' = [sweep EXCEPT !.reached = Older(@), !.taken = Older(@), !.before = Older(@)]
      /\ aside' = [i \in Keys |-> IF aside[i] = "no" THEN "no" ELSE "due"]
      /\ UNCHANGED <<disk, watched, hinted, relist, refresh, mem, stored, odd>>
  BY DEF Time
<1>2. /\ sweep'.full = sweep.full /\ sweep'.resuming = sweep.resuming
      /\ sweep'.reached = Older(sweep.reached) /\ sweep'.taken = Older(sweep.taken)
      /\ sweep'.before = Older(sweep.before)
  BY <1>0, <1>1, AgedPolicy
<1>3. /\ sweep.reached \in Ages /\ sweep.taken \in Ages /\ sweep.before \in Ages
      /\ mark \in Ages /\ replay \in Ages
  BY <1>0 DEF TypeOK
<1>4. /\ Has(k) => Has(k)'
      /\ InListing(k) => InListing(k)'
      /\ Refused(k) => Refused(k)'
      /\ k \in hinted => k \in hinted'
      /\ aside[k] # "no" => aside'[k] # "no"
      /\ Traced(k)' => Traced(k)
      /\ odd'[k] = odd[k]
      /\ Watching' => Watching /\ watched
  BY <1>1, <1>2 DEF Has, InListing, Refused, Traced, Watching
<1>5. Queued(k) => Queued(k)'
  <2> SUFFICES ASSUME NEW n \in pend, n.key = k, n.ver = disk[k] PROVE Queued(k)'
    BY DEF Queued
  <2>1. n \in Notes BY <1>0 DEF TypeOK
  <2> DEFINE m == [n EXCEPT !.age = Least(n.age + 1, Cap)]
  <2>2. m \in pend' BY <1>1 DEF Aged
  <2>3. m.key = n.key /\ m.ver = n.ver BY <2>1 DEF Notes
  <2> HIDE DEF m
  <2> QED BY <1>1, <2>2, <2>3 DEF Queued
<1>6. watched /\ Unread(k) => Unread(k)' BY <1>0, SoonAges DEF Unread
<1>7. watched /\ replay # NoAge /\ NearBy(k, replay) => replay' # NoAge /\ NearBy(k, replay)'
  <2> SUFFICES ASSUME watched, replay # NoAge, NearBy(k, replay)
               PROVE  replay' # NoAge /\ NearBy(k, replay)'
    OBVIOUS
  <2>1. reader.last \in 0 .. Lag - 1 /\ ~ticking BY <1>1
  <2>2. Left = Lag - reader.last /\ Left >= 1 BY <2>1, Fits, Bounds DEF Left, Most
  <2>3. replay + Skew + Left <= Retain - Margin + Lag BY DEF OnTime
  <2>4. replay \in Nat BY <1>3, AgesAre
  <2>5. replay + Skew <= Retain
    <3>1. Left \in Int BY <2>1, <2>2, Fits
    <3> QED BY <2>2, <2>3, <2>4, <3>1, Fits, Bounds
  <2>6. PICK n \in LastOf(k) : n.age < replay + Skew BY DEF NearBy
  <2>7. n.age \in Int BY <1>0, Types DEF LastOf
  <2>8. n.age < Retain BY <2>4, <2>5, <2>6, <2>7, Bounds
  <2>9. PICK m \in LastOf(k)' : m.age = n.age + 1 BY <1>0, <2>8, AgesOn
  <2>10. Older(replay) = replay + 1 BY <2>4, <2>5, Bounds DEF Older, Least
  <2>11. m.age < replay' + Skew BY <1>1, <2>4, <2>6, <2>7, <2>9, <2>10, Bounds
  <2>12. replay' # NoAge BY <1>1, <1>3, OlderIs
  <2> QED BY <2>11, <2>12 DEF NearBy
<1>8. ASSUME NEW a \in Ages
      PROVE  /\ Older(a) # NoAge => a # NoAge
             /\ Older(a) # NoAge /\ Told(k, a) =>
                   Older(a) + Skew > Retain \/ \E m \in LastOf(k)' : m.age < Older(a) + Skew
  <2>1. Older(a) # NoAge => a # NoAge BY OlderIs
  <2> QED BY <1>0, <2>1, ToldAges
<1>9. /\ sweep'.reached # NoAge => sweep.reached # NoAge
      /\ sweep'.reached # NoAge /\ Told(k, sweep.reached) => Told(k, sweep.reached)'
      /\ sweep'.taken # NoAge => sweep.taken # NoAge
      /\ sweep'.taken # NoAge /\ Told(k, sweep.taken) => Told(k, sweep.taken)'
      /\ sweep'.before # NoAge => sweep.before # NoAge
      /\ sweep'.before # NoAge /\ Told(k, sweep.before) => Told(k, sweep.before)'
      /\ mark' # NoAge => mark # NoAge
      /\ mark' # NoAge /\ Told(k, mark) => Told(k, mark)'
  BY <1>1, <1>2, <1>3, <1>8 DEF Told, NearBy
<1>10. watched /\ Coming(k) => Coming(k)' BY <1>4, <1>5, <1>6, <1>7 DEF Coming, Expected
<1>11. Vouched(k) => Vouched(k)' BY <1>4, <1>5, <1>9 DEF Vouched
<1>12. Saved(k) => Saved(k)' BY <1>1, <1>5, <1>9 DEF Saved
<1> QED BY <1>0, <1>4, <1>10, <1>11, <1>12 DEF Promise

\* A replay hints the last write, or leaves it to the reader.
LEMMA PromiseReplays ==
    ASSUME Sane, Kept, Promised, TickReplay, [Next]_vars, NEW k \in Keys
    PROVE  Promise(k)'
<1> DEFINE found == IF watched /\ replay # NoAge THEN Within(replay + Skew) ELSE {}
<1>0. /\ TypeOK /\ Noted /\ Indexed /\ Promise(k) BY DEF Sane, Promised
<1>1. /\ hinted' = Routed(found) /\ replay' = NoAge
      /\ UNCHANGED <<disk, pend, notes, reader, watched, sweep, relist, refresh, mem, stored,
                     mark, aside, odd>>
  BY DEF TickReplay, onlyTick
<1>2. /\ Queued(k)' = Queued(k) /\ Has(k)' = Has(k) /\ InListing(k)' = InListing(k)
      /\ Refused(k)' = Refused(k) /\ Unread(k)' = Unread(k) /\ Watching' = Watching
      /\ Traced(k)' = Traced(k) /\ Saved(k)' = Saved(k)
      /\ Told(k, sweep.reached)' = Told(k, sweep.reached)
      /\ Told(k, sweep.taken)' = Told(k, sweep.taken)
      /\ Told(k, sweep.before)' = Told(k, sweep.before)
  BY <1>1 DEF Queued, Has, InListing, Refused, Unread, LastOf, Soon, Full, Watching, Traced,
              Saved, Told, NearBy
<1>3. k \in hinted => k \in hinted' BY <1>1 DEF Routed
<1>4. Expected(k) => Expected(k)' BY <1>1, <1>2, <1>3 DEF Expected
<1>5. ASSUME Watching, Traced(k), replay # NoAge, NearBy(k, replay) PROVE Expected(k)'
  <2>1. PICK n \in LastOf(k) : n.age < replay + Skew BY <1>5 DEF NearBy
  <2>2. n \in notes /\ n.key = k BY <2>1 DEF LastOf
  <2>3. /\ n.age \in Int /\ n.age <= Retain /\ replay \in Ages /\ (n.read => n.age >= 0)
        /\ reader.last \in Ages /\ reader.rescan \in {NoAge} \cup 0 .. Rescan
    BY <1>0, <1>5, <2>2, Types DEF Kept, Noted, TypeOK
  <2>4. CASE n.age >= 0
    <3>1. n.age \in 0 .. Least(replay + Skew, Retain)
      BY <2>1, <2>3, <2>4, Bounds, AgesAre DEF Least
    <3>2. n \in found BY <1>5, <2>2, <3>1 DEF Within, Watching
    <3> QED BY <1>1, <2>2, <3>2 DEF Expected, Routed
  <2>5. CASE n.age < 0
    <3>1. Most(reader.last, 0) \in Nat BY <2>3, Bounds, AgesAre DEF Most
    <3>2. Soon(n) BY <2>3, <2>5, <3>1, Bounds DEF Soon, Full
    <3>3. Unread(k) BY <2>1, <2>3, <2>5, <3>2 DEF Unread
    <3> QED BY <1>2, <3>3 DEF Expected
  <2> QED BY <2>3, <2>4, <2>5
<1>6. Vouched(k) => Vouched(k)' BY <1>1, <1>2, <1>3 DEF Vouched
<1> QED BY <1>0, <1>1, <1>2, <1>4, <1>5, <1>6 DEF Promise, Coming

\* A note that is read, or stays as it is.
LEMMA MarkGoes ==
    ASSUME TypeOK, NEW F, MarkRead(F), NEW n \in notes, n \notin F
    PROVE  n \in notes'
BY DEF MarkRead

\* A note that a tick does not find is found by the next rescan.
LEMMA MissedIsSoon ==
    ASSUME TypeOK, NEW n \in notes, n.age <= Retain, Soon(n), n \notin Within(Window)
    PROVE  n.age < Skew - Rescan + Rescanned + 1 /\ Rescanned \in 0 .. Rescan - 1
<1>1. n.age \in Int /\ reader.last \in Ages /\ reader.rescan \in {NoAge} \cup 0 .. Rescan
  BY Types
<1>2. Most(reader.last, 0) \in Nat BY <1>1, Bounds, AgesAre DEF Most
<1>3. CASE Full
  <2>1. Window = Most(reader.last, 0) + Skew /\ n.age < Window BY <1>3 DEF Window, Soon
  <2>2. n.age \notin 0 .. Least(Window, Retain) BY DEF Within
  <2>3. n.age < 0 BY <1>1, <1>2, <2>1, <2>2, Bounds DEF Least
  <2> QED BY <1>1, <1>3, <2>3, Bounds DEF Rescanned
<1>4. CASE ~Full
  BY <1>1, <1>4, Bounds DEF Rescanned, Full, Soon
<1> QED BY <1>3, <1>4

\* So a tick hints what the reader is to find, or drops it, or it is found soon.
LEMMA TickFinds ==
    ASSUME Sane, Kept, [Next]_vars, watched, NEW F, MarkRead(F),
           F \subseteq {n \in Within(Window) : ~n.read},
           \A n \in Within(Window) : ~n.read =>
              \/ n.key \in hinted' \/ ~Traced(n.key)'
              \/ n \notin F /\ (~Full \/ n.age <= Skew - Rescan),
           disk' = disk, reader'.rescan = Rescanned,
           NEW k \in Keys, Traced(k)', Unread(k)
    PROVE  k \in hinted' \/ (Unread(k)' /\ \E n \in LastOf(k) : n.age < Skew)
<1>0. TypeOK /\ TypeOK' /\ (Traced(k)' => Traced(k)) BY TypeStep, TracedBefore DEF Sane
<1>1. PICK n \in LastOf(k) : ~n.read /\ Soon(n) BY DEF Unread
<1>2. n \in notes /\ n.key = k /\ n.ver = disk[k] BY <1>1 DEF LastOf
<1>3. n.age <= Retain /\ n.age \in Int /\ reader.rescan \in {NoAge} \cup 0 .. Rescan
  BY <1>0, <1>2, Types DEF Kept
<1>4. ASSUME n \notin F, n.age < Skew - Rescan + Rescanned + 1, Rescanned \in 0 .. Rescan - 1
      PROVE  Unread(k)' /\ \E i \in LastOf(k) : i.age < Skew
  <2>1. n \in notes' BY <1>0, <1>2, <1>4, MarkGoes
  <2>2. n \in LastOf(k)' BY <1>2, <2>1 DEF LastOf
  <2>3. ~Full' BY <1>4, Bounds DEF Full
  <2>4. Soon(n)' BY <1>4, <2>3 DEF Soon
  <2>5. n.age < Skew BY <1>3, <1>4, Bounds
  <2> QED BY <1>1, <2>2, <2>4, <2>5 DEF Unread
<1>5. CASE n \in Within(Window) /\ n \notin F /\ (~Full \/ n.age <= Skew - Rescan)
  <2>1. CASE Full BY <1>3, <1>4, <1>5, <2>1, Bounds DEF Rescanned
  <2>2. CASE ~Full
    <3>1. Rescanned = reader.rescan /\ reader.rescan \in 0 .. Rescan - 1
      BY <1>3, <2>2, Bounds DEF Rescanned, Full
    <3> QED BY <1>1, <1>4, <1>5, <2>2, <3>1 DEF Soon
  <2> QED BY <2>1, <2>2
<1>6. CASE n \notin Within(Window)
  <2>1. n.age < Skew - Rescan + Rescanned + 1 /\ Rescanned \in 0 .. Rescan - 1
    BY <1>0, <1>1, <1>2, <1>3, <1>6, MissedIsSoon
  <2> QED BY <1>4, <1>6, <2>1
<1> QED BY <1>1, <1>2, <1>5, <1>6

\* A tick that reads, or fails.
LEMMA PromiseReads ==
    ASSUME Sane, Kept, Promised, TickRead \/ TickFails, [Next]_vars, NEW k \in Keys
    PROVE  Promise(k)'
<1>0. /\ TypeOK /\ TypeOK' /\ Indexed /\ Promise(k) /\ ~Time
      /\ (Traced(k)' => Traced(k)) /\ (odd'[k] = {} => odd[k] = {})
      /\ (odd[k] = {} => Traced(k)) /\ (odd'[k] = {} => Traced(k)')
  <2>1. TypeOK /\ Indexed BY DEF Sane
  <2>2. ~Time BY DEF Time, TickRead, TickFails
  <2> QED BY <2>1, <2>2, TypeStep, TracedBefore DEF Promised, Traced
<1>1. /\ UNCHANGED <<disk, pend, watched, replay, relist, refresh, mem, stored, mark, aside>>
      /\ reader'.rescan = Rescanned /\ hinted \subseteq hinted'
      /\ sweep'.full = sweep.full /\ sweep'.resuming = sweep.resuming
      /\ sweep'.taken = sweep.taken /\ sweep'.before = sweep.before
      /\ sweep'.reached = sweep.reached \/ (sweep'.reached = 0 /\ Tells)
  <2>1. CASE TickRead
    <3> DEFINE a == IF Tells THEN 0 ELSE sweep.reached
               w == sweep.awaiting /\ ~Tells
    <3>1. sweep' = [sweep EXCEPT !.reached = a, !.awaiting = w] BY <2>1 DEF TickRead
    <3>2. a = sweep.reached \/ (a = 0 /\ Tells) OBVIOUS
    <3> HIDE DEF a, w
    <3>3. sweep'.full = sweep.full /\ sweep'.resuming = sweep.resuming
          /\ sweep'.taken = sweep.taken /\ sweep'.before = sweep.before
          /\ sweep'.reached = a
      BY <1>0, <3>1 DEF TypeOK
    <3> QED BY <2>1, <3>2, <3>3 DEF TickRead, Routed, onlyTick
  <2>2. CASE TickFails BY <1>0, <2>2 DEF TickFails, index, TypeOK
  <2> QED BY <2>1, <2>2
<1> DEFINE Missed == {n \in Within(Window) : ~n.read}
<1>2. PICK F : /\ MarkRead(F)
               /\ watched => /\ F \subseteq Missed
                             /\ \A n \in Missed :
                                   \/ n.key \in hinted' \/ ~Traced(n.key)'
                                   \/ n \notin F /\ (~Full \/ n.age <= Skew - Rescan)
  <2>1. CASE TickRead
    <3>1. MarkRead(Missed) /\ (watched => hinted' = Routed(Missed)) BY <2>1 DEF TickRead
    <3> QED BY <3>1 DEF Routed
  <2>2. CASE TickFails
    <3> DEFINE seen(upto)    == {n \in Missed : n.age > upto}
               dropped(upto) == seen(upto) \cup {n \in Missed : Full /\ n.age > Skew - Rescan}
    <3>1. PICK upto \in 0 .. Retain :
             /\ MarkRead(seen(upto))
             /\ odd' = [i \in Keys |-> IF \E n \in dropped(upto) : n.key = i
                                       THEN odd[i] \cup {"dropped"} ELSE odd[i]]
      BY <2>2 DEF TickFails
    <3>2. \A n \in Missed : n.key \in Keys /\ n.age \in Int BY <1>0, Types DEF Within
    <3>3. seen(upto) \subseteq Missed /\ seen(upto) \subseteq dropped(upto)
      OBVIOUS
    <3>4. \A n \in Missed : n \in dropped(upto) \/ ~Full \/ n.age <= Skew - Rescan
      BY <3>2, Bounds
    <3> HIDE DEF Missed, seen, dropped
    <3>5. \A n \in Missed : n \in dropped(upto) => "dropped" \in odd'[n.key] BY <3>1, <3>2
    <3>6. \A n \in Missed : n \in dropped(upto) => ~Traced(n.key)' BY <3>5 DEF Traced
    <3> QED BY <3>1, <3>3, <3>4, <3>6
  <2> QED BY <2>1, <2>2
<1>3. /\ Queued(k)' = Queued(k) /\ Has(k)' = Has(k) /\ InListing(k)' = InListing(k)
      /\ Refused(k)' = Refused(k) /\ Watching' = Watching
  BY <1>1 DEF Queued, Has, InListing, Refused, Watching
<1>4. ASSUME NEW a, NearBy(k, a) PROVE \E n \in LastOf(k)' : n.age < a + Skew
  BY <1>0, <1>1, <1>4, ToldStays DEF NearBy
<1>5. /\ replay # NoAge /\ NearBy(k, replay) => replay' # NoAge /\ NearBy(k, replay)'
      /\ Told(k, sweep.taken) => Told(k, sweep.taken)'
      /\ Told(k, sweep.before) => Told(k, sweep.before)'
      /\ Told(k, mark) => Told(k, mark)'
  BY <1>1, <1>4 DEF NearBy, Told
<1>6. Watching => watched BY DEF Watching
<1>7. ASSUME Watching, Traced(k)', Unread(k)
      PROVE  k \in hinted' \/ (Unread(k)' /\ \E n \in LastOf(k) : n.age < Skew)
  BY <1>1, <1>2, <1>6, <1>7, TickFinds
<1>8. Watching /\ Traced(k)' /\ Expected(k) => Expected(k)'
  BY <1>1, <1>3, <1>7 DEF Expected
<1>9. Watching /\ Traced(k)' /\ Coming(k) => Coming(k)' BY <1>5, <1>8 DEF Coming
<1>10. Saved(k) => Saved(k)' BY <1>1, <1>3, <1>5 DEF Saved
<1>11. ASSUME Watching, odd'[k] = {}, Vouched(k), Coming(k) PROVE Vouched(k)'
  <2>1. /\ sweep'.taken # NoAge =>
              Queued(k)' \/ Has(k)' \/ InListing(k)' \/ Told(k, sweep.taken)'
        /\ sweep'.before # NoAge =>
              Queued(k)' \/ Has(k)' \/ InListing(k)' \/ Told(k, sweep.before)'
    BY <1>1, <1>3, <1>5, <1>11 DEF Vouched
  <2>2. CASE sweep'.reached = sweep.reached
    <3>1. Told(k, sweep.reached) => Told(k, sweep.reached)' BY <1>4, <2>2 DEF Told, NearBy
    <3> QED BY <1>1, <1>3, <1>11, <2>1, <2>2, <3>1 DEF Vouched
  <2>3. CASE sweep'.reached = 0 /\ Tells
    <3>1. Expected(k) BY <1>11, <2>3 DEF Coming, Tells
    <3>2. aside[k] = "no" /\ ~Refused(k)
      BY <1>0, <1>11 DEF Indexed, Kept, Refused
    <3>3. (\E n \in LastOf(k) : n.age < Skew) => Told(k, sweep.reached)'
      <4>1. \A n \in LastOf(k) : n.age < Skew => n.age < 0 + Skew BY Bounds
      <4>2. ASSUME \E n \in LastOf(k) : n.age < Skew PROVE NearBy(k, 0)
        BY <4>1, <4>2 DEF NearBy
      <4> QED BY <1>4, <2>3, <4>2 DEF Told, NearBy
    <3>4. Queued(k)' \/ Has(k)' \/ k \in hinted' \/ InListing(k)' \/ Told(k, sweep.reached)'
      BY <1>0, <1>1, <1>3, <1>7, <1>11, <3>1, <3>2, <3>3 DEF Expected
    <3> QED BY <2>1, <3>4 DEF Vouched
  <2> QED BY <1>1, <2>2, <2>3
<1> QED BY <1>0, <1>3, <1>9, <1>10, <1>11 DEF Promise

\* A refresh that lists has found it, or leaves it where it is.
LEMMA PromiseLists ==
    ASSUME Sane, Promised, NEW B, NEW S, NEW ver, Lists(B, S, ver), [Next]_vars, NEW k \in Keys
    PROVE  Promise(k)'
<1>0. /\ TypeOK /\ Indexed /\ Relisted /\ Indexed' /\ Promise(k)
      /\ (Traced(k)' => Traced(k)) /\ (odd'[k] = {} => odd[k] = {})
  <2>1. TypeOK /\ Indexed /\ Relisted BY DEF Sane
  <2> QED BY <2>1, IndexedStep, TracedBefore DEF Promised
<1>1. /\ B \in Batches /\ B \subseteq S /\ S \in SUBSET Keys /\ Finds(S, ver)
      /\ \A i \in B : ver[i] = disk[i]
      /\ watched /\ refresh.at = "idle" /\ Waiting \ B \subseteq hinted'
      /\ sweep'.reached = sweep.reached
      /\ sweep'.taken = IF B = Waiting THEN sweep.reached ELSE sweep.taken
      /\ sweep'.before = sweep.before
      /\ UNCHANGED <<disk, pend, notes, reader, watched, replay, mem, stored, mark>>
  BY DEF Lists, onlyRefresh, store, journal
<1>2. /\ refresh'.at = "save"
      /\ k \in S => refresh'.found[k] = ver[k] \/ aside'[k] # "no"
      /\ aside[k] = "waits" => aside'[k] = "waits"
  BY <1>0, <1>1, FoundMore
<1>3. odd'[k] = {} => aside'[k] = "no" BY <1>0 DEF Indexed
<1> DEFINE Caught == Has(k)' \/ aside'[k] # "no"
<1>4. k \in S /\ ver[k] = disk[k] => Caught BY <1>1, <1>2 DEF Has
<1>5. k \in B => Caught BY <1>1, <1>4
<1>6. Has(k) => Has(k)' BY <1>1 DEF Has
<1>7. k \in Waiting => Caught \/ (k \in hinted' /\ B # Waiting)
  BY <1>1, <1>5
<1>8. k \in hinted \/ aside[k] # "no" => Caught \/ (k \in hinted' /\ B # Waiting)
  <2>1. aside[k] \in {"no", "waits", "due"} BY <1>0 DEF TypeOK
  <2>2. aside[k] = "due" \/ k \in hinted => k \in Waiting BY DEF Waiting
  <2> QED BY <1>2, <1>7, <2>1, <2>2
<1>9. /\ Queued(k)' = Queued(k) /\ Unread(k)' = Unread(k)
      /\ Saved(k)' = Saved(k) /\ NearBy(k, replay)' = NearBy(k, replay)
      /\ Told(k, sweep.reached)' = Told(k, sweep.reached)
      /\ Told(k, sweep.before)' = Told(k, sweep.before)
      /\ sweep'.taken = sweep.taken => Told(k, sweep.taken)' = Told(k, sweep.taken)
      /\ sweep'.taken = sweep.reached => Told(k, sweep.taken)' = Told(k, sweep.reached)
  BY <1>1 DEF Queued, Unread, LastOf, Soon, Full, Saved, Told, NearBy
\* It is enough that the refresh has it, or that the listing will have it ...
<1>10. ASSUME Caught \/ InListing(k)' PROVE Promise(k)'
  <2>1. Coming(k)' BY <1>10 DEF Coming, Expected
  <2>2. odd'[k] = {} => Vouched(k)' BY <1>3, <1>10 DEF Vouched
  <2> QED BY <1>0, <1>9, <2>1, <2>2 DEF Promise
\* ... or that it was promised before.
<1>11. ASSUME Watching, InListing(k) => Caught \/ InListing(k)',
              Refused(k) => k \in hinted'
       PROVE  Promise(k)'
  <2>1. CASE Caught \/ InListing(k)' BY <1>10, <2>1
  <2>2. CASE ~Caught /\ ~InListing(k)'
    <3>1. Coming(k) => Coming(k)'
      BY <1>1, <1>6, <1>8, <1>9, <1>11, <2>2 DEF Coming, Expected
    <3>2. ~Has(k) /\ ~InListing(k) BY <1>6, <1>11, <2>2
    <3>3. ASSUME Vouched(k) PROVE Vouched(k)'
      <4>1. sweep'.reached # NoAge =>
               Queued(k)' \/ k \in hinted' \/ Told(k, sweep.reached)'
        BY <1>1, <1>8, <1>9, <2>2, <3>2, <3>3 DEF Vouched
      <4>2. sweep'.before # NoAge => Queued(k)' \/ Told(k, sweep.before)'
        BY <1>1, <1>9, <3>2, <3>3 DEF Vouched
      <4>3. CASE B = Waiting
        <5>1. sweep'.taken = sweep.reached BY <1>1, <4>3
        <5>2. k \notin hinted BY <1>8, <2>2, <4>3
        <5>3. sweep'.taken # NoAge => Queued(k)' \/ Told(k, sweep.taken)'
          BY <1>9, <3>2, <3>3, <5>1, <5>2 DEF Vouched
        <5> QED BY <4>1, <4>2, <5>3 DEF Vouched
      <4>4. CASE B # Waiting
        <5>1. sweep'.taken = sweep.taken BY <1>1, <4>4
        <5>2. sweep'.taken # NoAge => Queued(k)' \/ Told(k, sweep.taken)'
          BY <1>9, <3>2, <3>3, <5>1 DEF Vouched
        <5> QED BY <4>1, <4>2, <5>2 DEF Vouched
      <4> QED BY <4>3, <4>4
    <3> QED BY <1>0, <1>9, <1>11, <3>1, <3>3 DEF Promise
  <2> QED BY <2>1, <2>2
<1>12. CASE S = Keys /\ ver = disk BY <1>4, <1>10, <1>12
<1>13. CASE relist' = [NoRelisting EXCEPT !.on = TRUE, !.seen = B]
  <2>1. relist'.on /\ ~relist'.named /\ relist'.seen = B BY <1>13 DEF NoRelisting
  <2> QED BY <1>5, <1>10, <2>1 DEF InListing
<1>14. CASE relist.on /\ relist.refused \subseteq hinted' /\ HandsOver(B, S, ver)
  <2>1. Watching BY <1>1, <1>14 DEF Watching
  <2>2. Refused(k) => k \in hinted' BY <1>14 DEF Refused
  <2>3. ASSUME InListing(k), ~Caught PROVE InListing(k)'
    <3>1. k \notin relist.seen \cup B BY <1>5, <2>3 DEF InListing
    <3>2. CASE \E r \in relist.ready : r[1] = k /\ r[2] = disk[k]
      <4>1. PICK r \in relist.ready : r[1] = k /\ r[2] = disk[k] BY <3>2
      <4>2. r[1] \in S /\ ver[r[1]] = r[2] BY <1>14, <3>1, <4>1 DEF HandsOver
      <4> QED BY <1>4, <2>3, <4>1, <4>2
    <3>3. CASE ~relist.named \/ k \in relist.todo
      <4>1. ~RelistDone BY <3>3 DEF RelistDone
      <4>2. relist' = [relist EXCEPT !.ready = {}, !.refused = {}, !.seen = relist.seen \cup B]
        BY <1>14, <4>1 DEF HandsOver
      <4>3. relist'.on = relist.on /\ relist'.named = relist.named
            /\ relist'.todo = relist.todo /\ relist'.seen = relist.seen \cup B
        BY <1>0, <4>2 DEF TypeOK
      <4> QED BY <1>14, <3>1, <3>3, <4>3 DEF InListing
    <3> QED BY <2>3, <3>2, <3>3 DEF InListing
  <2> QED BY <1>11, <2>1, <2>2, <2>3
<1>15. CASE ~FullDue /\ ~relist.on
  <2>1. Watching BY <1>1, <1>15 DEF Watching, FullDue
  <2>2. ~InListing(k) /\ ~Refused(k) BY <1>15 DEF InListing, Refused
  <2> QED BY <1>11, <2>1, <2>2
<1> QED BY <1>12, <1>13, <1>14, <1>15 DEF Lists

\* A refresh that fails before it takes anything.
LEMMA PromiseFails ==
    ASSUME Sane, Promised, ListFails, [Next]_vars, NEW k \in Keys
    PROVE  Promise(k)'
<1>0. TypeOK /\ Indexed /\ Promise(k) BY DEF Sane, Promised
<1>1. /\ sweep'.full = (sweep.full \/ sweep.resuming) /\ ~sweep'.resuming
      /\ sweep'.reached = sweep.reached
      /\ sweep'.taken = sweep.taken /\ sweep'.before = sweep.before
      /\ hinted \subseteq hinted' /\ relist' \in {relist, NoRelisting} /\ watched
      /\ UNCHANGED <<disk, pend, notes, reader, watched, replay, refresh, mem, stored, mark,
                     aside, odd>>
  BY <1>0, FailedIs DEF onlyRefresh, store, journal
<1>2. /\ Queued(k)' = Queued(k) /\ Unread(k)' = Unread(k) /\ Has(k)' = Has(k)
      /\ Saved(k)' = Saved(k) /\ NearBy(k, replay)' = NearBy(k, replay)
      /\ Told(k, sweep.reached)' = Told(k, sweep.reached)
      /\ Told(k, sweep.taken)' = Told(k, sweep.taken)
      /\ Told(k, sweep.before)' = Told(k, sweep.before) /\ Traced(k)' = Traced(k)
  BY <1>1 DEF Queued, Unread, LastOf, Soon, Full, Has, Saved, Told, NearBy, Traced
<1>3. ASSUME Watching' PROVE Watching /\ (relist.on => relist' = relist)
  <2>1. ~NoRelisting.on BY DEF NoRelisting
  <2>2. relist.on => ~sweep'.full BY <1>0, <1>1 DEF Indexed
  <2> QED BY <1>1, <1>3, <2>1, <2>2 DEF Watching
<1>4. ASSUME Watching'
      PROVE  (InListing(k) => InListing(k)') /\ (Refused(k) => Refused(k)')
  BY <1>1, <1>3, <1>4 DEF InListing, Refused
<1>5. Watching' /\ Coming(k) => Coming(k)' BY <1>1, <1>2, <1>4 DEF Coming, Expected
<1>6. Watching' /\ Vouched(k) => Vouched(k)' BY <1>1, <1>2, <1>4 DEF Vouched
<1> QED BY <1>0, <1>1, <1>2, <1>3, <1>5, <1>6 DEF Promise

\* An index that is routed to goes on from what its mark vouches for, or has to
\* list everything first.
LEMMA PromiseWatch ==
    ASSUME Sane, Kept, Promised, Watch, [Next]_vars, NEW k \in Keys
    PROVE  Promise(k)'
<1>0. TypeOK /\ Indexed /\ Promise(k) BY DEF Sane, Promised
<1>1. /\ ~watched /\ UNCHANGED <<disk, pend, notes, reader, hinted, relist, refresh, mem, stored,
                                 mark, aside, odd>>
  BY DEF Watch, store
<1>2. /\ Queued(k)' = Queued(k) /\ Has(k)' = Has(k) /\ Saved(k)' = Saved(k)
      /\ Traced(k)' = Traced(k)
  BY <1>1 DEF Queued, Has, LastOf, Saved, Told, NearBy, Traced
<1>3. ~relist.on /\ sweep.reached = NoAge /\ sweep.taken = NoAge /\ sweep.before = NoAge
  BY <1>0, <1>1 DEF Indexed
<1>4. sweep'.reached = NoAge /\ sweep'.taken = NoAge /\ sweep'.before = NoAge
  BY <1>0, <1>3 DEF Watch, TypeOK
<1>5. CASE Resumable
  <2>1. replay' = mark /\ mark # NoAge /\ mark + Skew + Margin <= Retain
    BY <1>1, <1>5 DEF Watch, Resumable
  <2>2. mark \in Int BY <1>0, AgesAre DEF TypeOK
  <2>3. ~(mark + Skew > Retain) BY <2>1, <2>2, Bounds
  <2>4. Traced(k) => odd[k] = {} BY <1>1 DEF Kept
  <2>5. Traced(k) => stored[k] = disk[k] \/ Queued(k) \/ NearBy(k, mark)
    BY <1>0, <2>1, <2>3, <2>4 DEF Promise, Saved, Told
  <2>6. stored[k] = disk[k] => Has(k)
    <3>1. stored[k] <= mem[k] /\ mem[k] <= disk[k] BY <1>0 DEF Indexed, Kept
    <3>2. stored[k] \in Nat /\ mem[k] \in Nat /\ disk[k] \in Nat BY <1>0, Types
    <3> QED BY <3>1, <3>2 DEF Has
  <2>7. NearBy(k, mark) => NearBy(k, replay)' BY <1>1, <2>1 DEF NearBy, LastOf
  <2>8. Traced(k)' => Coming(k)'
    BY <1>2, <2>1, <2>5, <2>6, <2>7 DEF Coming, Expected
  <2> QED BY <1>0, <1>1, <1>2, <1>4, <2>8 DEF Promise, Vouched
<1>6. CASE ~Resumable
  <2>1. ~sweep'.full /\ ~sweep'.resuming BY <1>0, <1>6 DEF Watch, TypeOK
  <2>2. ~Watching' BY <1>1, <1>3, <2>1 DEF Watching
  <2> QED BY <1>0, <1>1, <1>2, <2>2 DEF Promise
<1> QED BY <1>5, <1>6

\* A refresh is applied, and saved with the mark it vouches for.
LEMMA PromiseSaves ==
    ASSUME Sane, Kept, Promised, Save \/ SaveFails \/ SaveRaises, [Next]_vars, NEW k \in Keys
    PROVE  Promise(k)'
<1>0. TypeOK /\ Indexed /\ Promise(k) BY DEF Sane, Promised
<1>1. /\ mem' = Applied /\ hinted \subseteq hinted' /\ stored'[k] \in {stored[k], Applied[k]}
      /\ (Save /\ stored' = Applied) \/ mark' = mark
      /\ (sweep'.full => sweep.full) /\ sweep'.resuming = sweep.resuming
      /\ sweep'.reached = sweep.reached
      /\ UNCHANGED <<disk, pend, notes, reader, watched, replay, relist, aside, odd>>
  BY <1>0, SavesIs DEF onlyRefresh, store, journal
<1>2. \/ sweep'.taken = sweep.taken /\ sweep'.before = sweep.taken
      \/ sweep'.taken = sweep.before /\ sweep'.before = sweep.before
  BY <1>0, SavesIs
<1>3. /\ Queued(k)' = Queued(k) /\ Unread(k)' = Unread(k) /\ Traced(k)' = Traced(k)
      /\ InListing(k)' = InListing(k) /\ Refused(k)' = Refused(k) /\ (Watching' => Watching)
      /\ NearBy(k, replay)' = NearBy(k, replay)
      /\ Told(k, sweep.reached)' = Told(k, sweep.reached)
  BY <1>1 DEF Queued, Unread, LastOf, Soon, Full, Traced, InListing, Refused, Watching,
              NearBy, Told
<1>4. Has(k) \/ stored[k] = disk[k] => Applied[k] = disk[k]
  <2>1. /\ Applied[k] \in Nat /\ Applied[k] <= disk[k]
        /\ mem[k] <= Applied[k] /\ refresh.found[k] <= Applied[k]
    BY <1>0, AppliedIs
  <2>2. /\ stored[k] \in Nat /\ mem[k] \in Nat /\ disk[k] \in Nat /\ refresh.found[k] \in Nat
        /\ stored[k] <= mem[k]
    BY <1>0, Types DEF Indexed
  <2> QED BY <2>1, <2>2 DEF Has
<1>5. Has(k) => Has(k)' BY <1>1, <1>4 DEF Has
<1>6. Coming(k) => Coming(k)' BY <1>1, <1>3, <1>5 DEF Coming, Expected
<1>7. Vouched(k) => Vouched(k)'
  <2>1. /\ sweep'.taken = sweep.taken => Told(k, sweep.taken)' = Told(k, sweep.taken)
        /\ sweep'.taken = sweep.before => Told(k, sweep.taken)' = Told(k, sweep.before)
        /\ sweep'.before = sweep.taken => Told(k, sweep.before)' = Told(k, sweep.taken)
        /\ sweep'.before = sweep.before => Told(k, sweep.before)' = Told(k, sweep.before)
    BY <1>1 DEF Told, NearBy, LastOf
  <2> QED BY <1>1, <1>2, <1>3, <1>5, <2>1 DEF Vouched
<1>8. ASSUME odd[k] = {} PROVE Saved(k)'
  <2>1. CASE mark' = mark
    <3>1. mark # NoAge => stored[k] = disk[k] \/ Queued(k) \/ Told(k, mark)
      BY <1>0, <1>8 DEF Promise, Saved
    <3>2. stored[k] = disk[k] => stored'[k] = disk'[k] BY <1>1, <1>4, <2>1
    <3>3. Told(k, mark)' = Told(k, mark) BY <1>1, <2>1 DEF Told, NearBy, LastOf
    <3> QED BY <1>3, <2>1, <3>1, <3>2, <3>3 DEF Saved
  <2>2. CASE Save /\ MarkDue(Persistable, Changed)
    <3>1. stored' = Applied /\ mark' = Persistable BY <2>2 DEF Save
    <3>2. Persistable # NoAge BY <2>2 DEF MarkDue
    <3>3. mark' = sweep.taken /\ sweep.full /\ ~relist.on /\ sweep.taken # NoAge
      BY <3>1, <3>2 DEF Persistable
    <3>4. Watching BY <1>0, <3>3 DEF Indexed, Watching
    <3>5. Queued(k) \/ Has(k) \/ Told(k, sweep.taken)
      BY <1>0, <1>8, <3>3, <3>4 DEF Promise, Vouched, InListing
    <3>6. Has(k) => stored'[k] = disk'[k] BY <1>1, <1>4, <3>1
    <3>7. Told(k, sweep.taken) => Told(k, mark)' BY <1>1, <3>3 DEF Told, NearBy, LastOf
    <3> QED BY <1>3, <3>5, <3>6, <3>7 DEF Saved
  <2>3. CASE Save /\ ~MarkDue(Persistable, Changed) BY <2>1, <2>3 DEF Save
  <2> QED BY <1>1, <2>1, <2>2, <2>3
<1> QED BY <1>0, <1>1, <1>3, <1>6, <1>7, <1>8 DEF Promise

\* The thread of a relisting goes on.
LEMMA PromiseRelists ==
    ASSUME Sane, Kept, Promised, [Next]_vars, NEW k \in Keys,
           RelistNames \/ \E i \in Keys : RelistFiles(i) \/ RelistRefused(i)
    PROVE  Promise(k)'
<1>0. /\ TypeOK /\ Indexed /\ Promise(k)
      /\ (Traced(k)' => Traced(k)) /\ (odd'[k] = {} => odd[k] = {})
  <2>1. TypeOK /\ Indexed BY DEF Sane
  <2> QED BY <2>1, TracedBefore DEF Promised
<1>1. /\ relist'.on = relist.on /\ relist'.seen = relist.seen
      /\ UNCHANGED <<disk, pend, notes, reader, watched, replay, sweep, hinted, refresh, mem,
                     stored, mark, aside>>
  <2>1. UNCHANGED <<onlyRelist, hinted>> /\ relist'.on = relist.on /\ relist'.seen = relist.seen
    BY <1>0 DEF RelistNames, RelistFiles, RelistRefused, TypeOK
  <2> QED BY <2>1 DEF onlyRelist, store, journal
<1>2. /\ Queued(k)' = Queued(k) /\ Unread(k)' = Unread(k) /\ Has(k)' = Has(k)
      /\ Saved(k)' = Saved(k) /\ NearBy(k, replay)' = NearBy(k, replay)
      /\ Told(k, sweep.reached)' = Told(k, sweep.reached)
      /\ Told(k, sweep.taken)' = Told(k, sweep.taken)
      /\ Told(k, sweep.before)' = Told(k, sweep.before) /\ Watching' = Watching
  BY <1>1 DEF Queued, Unread, LastOf, Soon, Full, Has, Saved, Told, NearBy, Watching
<1>3. /\ Refused(k) => Refused(k)'
      /\ InListing(k) => InListing(k)' \/ Has(k)' \/ (Refused(k)' /\ odd'[k] # {})
  <2>1. CASE RelistNames
    <3> DEFINE K == {i \in Keys : disk[i] > 0 \/ mem[i] > 0}
    <3>1. relist' = [relist EXCEPT !.named = TRUE, !.todo = K] /\ ~relist.named
      BY <2>1 DEF RelistNames
    <3>2. Has(k) \/ k \in K
      <4>1. disk[k] \in Nat /\ mem[k] \in Nat BY <1>0, Types
      <4> QED BY <4>1 DEF Has
    <3> HIDE DEF K
    <3>3. relist'.todo = K /\ relist'.refused = relist.refused BY <1>0, <3>1 DEF TypeOK
    <3> QED BY <1>1, <1>2, <3>2, <3>3 DEF InListing, Refused
  <2>2. ASSUME NEW i \in Keys, RelistFiles(i)
        PROVE  (Refused(k) => Refused(k)') /\ (InListing(k) => InListing(k)')
    <3>1. /\ relist'.named = relist.named /\ relist'.todo = relist.todo \ {i}
          /\ relist'.ready = relist.ready \cup {<<i, disk[i]>>}
          /\ relist'.refused = relist.refused
      BY <1>0, <2>2 DEF RelistFiles, TypeOK
    <3>2. CASE i = k
      <4>1. <<k, disk[k]>>[1] = k /\ <<k, disk[k]>>[2] = disk[k] OBVIOUS
      <4>2. \E r \in relist'.ready : r[1] = k /\ r[2] = disk'[k] BY <1>1, <3>1, <3>2, <4>1
      <4> QED BY <1>1, <3>1, <4>2 DEF InListing, Refused
    <3>3. CASE i # k BY <1>1, <3>1, <3>3 DEF InListing, Refused
    <3> QED BY <3>2, <3>3
  <2>3. ASSUME NEW i \in Keys, RelistRefused(i)
        PROVE  /\ Refused(k) => Refused(k)'
               /\ InListing(k) => InListing(k)' \/ (Refused(k)' /\ odd'[k] # {})
    <3>1. /\ relist'.named = relist.named /\ relist'.todo = relist.todo \ {i}
          /\ relist'.ready = relist.ready /\ relist'.refused = relist.refused \cup {i}
          /\ odd' = Went(i, "refused")
      BY <1>0, <2>3 DEF RelistRefused, TypeOK
    <3>2. CASE i = k
      <4>1. "refused" \in odd'[k] BY <1>0, <3>1, <3>2 DEF Went, TypeOK
      <4> QED BY <1>1, <3>1, <3>2, <4>1 DEF InListing, Refused
    <3>3. CASE i # k BY <1>1, <3>1, <3>3 DEF InListing, Refused
    <3> QED BY <3>2, <3>3
  <2> QED BY <2>1, <2>2, <2>3
<1>4. Coming(k) => Coming(k)' BY <1>1, <1>2, <1>3 DEF Coming, Expected
<1>5. Vouched(k) /\ odd'[k] = {} => Vouched(k)' BY <1>1, <1>2, <1>3 DEF Vouched
<1> QED BY <1>0, <1>2, <1>4, <1>5 DEF Promise

\* A server that starts anew has the saved mark alone.
LEMMA PromiseRestarts ==
    ASSUME Sane, Promised, Restart, [Next]_vars, NEW k \in Keys
    PROVE  Promise(k)'
<1>0. TypeOK /\ Promise(k) /\ (odd'[k] = {} => odd[k] = {}) /\ ~Time
  <2>1. TypeOK BY DEF Sane
  <2>2. ~Time
    <3>1. faults' = faults + 1 BY DEF Restart, Fault
    <3>2. Time => faults' = faults BY DEF Time, env
    <3> QED BY <2>1, <3>1, <3>2 DEF TypeOK
  <2> QED BY <2>1, <2>2, TracedBefore DEF Promised
<1>1. ~watched' /\ UNCHANGED <<disk, pend, stored, mark>> BY DEF Restart
<1>2. ASSUME NEW a, NearBy(k, a) PROVE \E n \in LastOf(k)' : n.age < a + Skew
  BY <1>0, <1>1, <1>2, ToldStays DEF NearBy
<1>3. Told(k, mark) => Told(k, mark)' BY <1>1, <1>2 DEF Told, NearBy
<1>4. Queued(k)' = Queued(k) BY <1>1 DEF Queued
<1>5. Saved(k) => Saved(k)' BY <1>1, <1>3, <1>4 DEF Saved
<1>6. ~Watching' BY <1>1 DEF Watching
<1> QED BY <1>0, <1>5, <1>6 DEF Promise

\* Every step keeps it.
LEMMA PromisedStep ==
    ASSUME Lag <= Margin + 1, Sane, Kept, OnTime, Promised, [Next]_vars
    PROVE  Promised'
<1> SUFFICES ASSUME NEW k \in Keys PROVE Promise(k)'
  BY DEF Promised
<1>1. CASE ListAll \/ ListBehind \/ ListRelisted \/ ListHinted
  <2>1. PICK B, S, ver : Lists(B, S, ver) BY <1>1, ListIs DEF Sane
  <2> QED BY <2>1, PromiseLists
<1> QED
  BY <1>1, PromiseWrites, PromiseAges, PromiseReplays, PromiseReads, PromiseFails,
     PromiseWatch, PromiseSaves, PromiseRelists, PromiseRestarts DEF Next, Tick, Refresh

\* No change is forgotten: the last write of every record, unless its note came
\* late, was dropped by a failed tick or was lost at a restart, is queued, noted
\* in time for the reader, hinted, set aside, being listed, or in the index, and what the
\* marks vouch for is there (WorkspaceJournal.tick, take_hints, mark_taken,
\* resume_journal).  Ticks may be late by the margin of a replay, and one unit: a
\* note that is due for the next rescan is then not pruned before it.
THEOREM PromisedAlways ==
    ASSUME Lag <= Margin + 1
    PROVE  Spec => []Promised
<1>1. Init => KInv
  <2> SUFFICES ASSUME Init PROVE KInv OBVIOUS
  <2>1. Kept /\ OnTime
    <3>1. \A k \in Keys : mem[k] <= disk[k] /\ refresh.found[k] <= disk[k]
      BY DEF Init, Resting
    <3>2. relist = NoRelisting /\ NoRelisting.ready = {} /\ NoRelisting.refused = {}
      BY DEF Init, NoRelisting
    <3>3. notes = {} /\ ~watched /\ \A k \in Keys : odd[k] = {} BY DEF Init
    <3> QED BY <3>1, <3>2, <3>3 DEF Kept, OnTime
  <2>2. Promised
    <3>1. ~watched /\ mark = NoAge BY DEF Init
    <3> QED BY <3>1 DEF Promised, Promise, Watching, Saved
  <2> QED BY <2>1, <2>2 DEF KInv
<1>2. IInv /\ KInv /\ [Next]_vars => KInv'
  <2> SUFFICES ASSUME IInv, KInv, [Next]_vars PROVE KInv' OBVIOUS
  <2>1. Sane /\ Kept /\ OnTime /\ Promised BY DEF IInv, KInv, Sane
  <2>2. Kept' BY <2>1, KeptStep
  <2>3. OnTime' BY <2>1, OnTimeStep DEF Sane
  <2>4. Promised' BY <2>1, PromisedStep
  <2> QED BY <2>2, <2>3, <2>4 DEF KInv
<1>3. KInv => Promised BY DEF KInv
<1> QED BY <1>1, <1>2, <1>3, Invariance, PTL DEF Spec

\* The index has caught up: it relies on hints, has none left and replays, reads,
\* saves and lists nothing, and the reader has read what its rescans reach.
Quiet ==
    /\ Watching /\ replay = NoAge /\ hinted = {} /\ refresh.at = "idle" /\ ~relist.on
    /\ \A k \in Keys : aside[k] = "no"
    /\ \A n \in notes : n.read \/ ~Soon(n)

\* AllShown, of every behaviour in which the index catches up again and again,
\* with no fairness: when there is nothing left to do, it shows every change that
\* was announced in time, whatever failed and was retried, in whatever order.  For
\* FairSpec, that it catches up is what is left to fairness.
THEOREM QuietShows ==
    ASSUME Lag <= Margin + 1
    PROVE  Spec /\ []<>Quiet => AllShown
<1>1. Promised /\ Quiet => \A k \in Keys : UpToDate(k)
  <2> SUFFICES ASSUME Promised, Quiet, NEW k \in Keys PROVE UpToDate(k)
    OBVIOUS
  <2>1. CASE ~Traced(k) BY <2>1 DEF UpToDate, Traced
  <2>2. CASE Traced(k)
    <3>1. Coming(k) BY <2>2 DEF Promised, Promise, Quiet
    <3>2. ~Unread(k) BY DEF Quiet, Unread, LastOf
    <3>3. Queued(k) \/ Has(k)
      BY <3>1, <3>2 DEF Quiet, Coming, Expected, InListing, Refused
    <3>4. Has(k) => mem[k] = disk[k] BY DEF Has, Quiet
    <3> QED BY <3>3, <3>4 DEF Queued, UpToDate
  <2> QED BY <2>1, <2>2
<1> QED BY <1>1, PromisedAlways, PTL DEF AllShown

=============================================================================
