--------------------------- MODULE RegistryProofs ---------------------------
(***************************************************************************)
(* What the registry promises, for any hosts, runs, aliases and numbers of *)
(* versions, retries, moves and failures.                                  *)
(***************************************************************************)
EXTENDS Registry, DataLemmas

RecType(s) == RecordOf(IF s = Header THEN Kinds ELSE Runs)
AnyRecord  == [st : {"free", "claim", "whole"}, val : {None} \cup Kinds \cup Runs,
               by : {None} \cup Hosts]
OpType ==
    [at : Stages, kind : {None} \cup Kinds, run : {None} \cup Runs, slot : Slots,
     tries : 0 .. MaxTries, floor : {0} \cup Versions, m : {NoMove} \cup Moves,
     saw : SUBSET EntryType, before : SUBSET EntryType, blind : BOOLEAN,
     key : {None} \cup Listings, refs : SUBSET Runs, due : SUBSET Versions]

\* The types, with those of every field.
Typed ==
    /\ remote \in [Slots -> AnyRecord]
    /\ local \in [Hosts -> [Slots -> AnyRecord]]
    /\ \A s \in Slots : remote[s] \in RecType(s) /\ \A h \in Hosts : local[h][s] \in RecType(s)
    /\ sent \subseteq EntryType
    /\ own \in [Hosts -> SUBSET EntryType]
    /\ sent \subseteq UNION {own[h] : h \in Hosts}
    /\ runs \subseteq Runs
    /\ op \in [Hosts -> OpType]
    /\ cache \in [Hosts -> [key : {None} \cup Listings, refs : SUBSET Runs, blind : BOOLEAN]]
    /\ regd \subseteq [n : Versions, run : Runs, floor : {0} \cup Versions]
    /\ crashed \subseteq Hosts
    /\ left \in [{"ops", "failures"} -> Nat]

Registering(h) == op[h].at \in {"local", "claim", "write", "kind", "dedupe", "list", "gaveup"}
Creating(h)    == op[h].at \in {"claim", "write"}

\* A registration: where it has come to, and what it holds.
Work(h) ==
    /\ Registering(h) => op[h].kind \in Kinds /\ op[h].run \in Runs
    /\ ~Registering(h) \/ op[h].at \in {"kind", "dedupe"} => op[h].slot = Header
    /\ op[h].slot = Header => op[h].tries = 0
    /\ op[h].at \in {"local", "claim", "write"} /\ op[h].slot # Header =>
          op[h].tries < op[h].slot /\ op[h].tries < MaxTries
    /\ op[h].tries <= op[h].slot
    /\ op[h].at = "gaveup" => MaxTries <= op[h].slot
    /\ op[h].slot # Header => op[h].floor < op[h].slot
    /\ op[h].floor # 0 => remote[op[h].floor].st # "free"
    /\ Creating(h) => local[h][op[h].slot] = Record("whole", Value(h), h)
    /\ op[h].at = "write" => remote[op[h].slot] = Record("claim", None, h)

\* A copy that a host holds of a version is the remote's, or is about to be.
Copies(h) ==
    \A n \in Versions : h \notin crashed /\ local[h][n].st # "free" =>
       \/ Creating(h) /\ op[h].slot = n
       \/ remote[n].st = "whole" /\ local[h][n] = remote[n]

\* The registrations that returned.
Returned ==
    \A x \in regd : remote[x.n].st = "whole" /\ remote[x.n].val = x.run /\ x.n > x.floor

\* A host's stream, and what a move of it has read and written.
Stream(h) ==
    /\ IsFiniteSet(own[h])
    /\ \A e \in own[h] : e.w = h /\ e.pos < Cardinality(own[h])
    /\ \A d, e \in own[h] : d.pos = e.pos => d = e

Moving(h) ==
    /\ op[h].at \in {"append", "flush"} =>
          op[h].m \in Moves /\ (~op[h].blind => op[h].before \subseteq op[h].saw)
    /\ op[h].at = "append" => IsFiniteSet(op[h].saw) /\ {e \in op[h].saw : e.w = h} = own[h]
    /\ op[h].at = "flush" =>
          \E e \in own[h] : /\ e.m = op[h].m
                            /\ own[h] \ {e} \subseteq op[h].saw
                            /\ \A d \in op[h].saw : d.ts < e.ts

\* What a prune has seen, and what it has cached.
Pruning(h) ==
    /\ op[h].at \notin {"scan", "delete"} => op[h].due = {}
    /\ op[h].at \in {"scan", "delete"} => op[h].key \in Listings
    /\ \A n \in op[h].due : remote[n].st = "whole"
    /\ op[h].at = "scan" =>
          /\ op[h].due \subseteq op[h].key.vs
          /\ op[h].key.log \subseteq Seen(h)
          /\ \A n \in op[h].key.vs : Listed(h, n)
          /\ \A n \in op[h].due : IsLive(Seen(h), n)
    /\ op[h].at = "delete" /\ ~op[h].blind /\ h \notin crashed /\ op[h].key.hdr =>
          \A n \in op[h].due : remote[n].val \in op[h].refs

Cached(h) ==
    \/ cache[h] = NoCache
    \/ /\ cache[h].key \in Listings
       /\ cache[h].key.log \subseteq Seen(h)
       /\ ~cache[h].blind /\ h \notin crashed /\ cache[h].key.hdr =>
             (Seen(h) = cache[h].key.log =>
                \A n \in cache[h].key.vs :
                   /\ remote[n].st = "whole"
                   /\ IsLive(Seen(h), n) => remote[n].val \in cache[h].refs)

IInv ==
    /\ Typed /\ Returned /\ IsFiniteSet(sent)
    /\ \A h \in Hosts : /\ Work(h) /\ Copies(h) /\ Stream(h) /\ Moving(h)
                        /\ Pruning(h) /\ Cached(h)

-----------------------------------------------------------------------------
(***************************************************************************)
(* What the steps do to the record of a host's process.                    *)
(***************************************************************************)

\* The process goes on with all that it holds.
Kept(h) ==
    /\ op'[h].kind = op[h].kind /\ op'[h].run = op[h].run /\ op'[h].slot = op[h].slot
    /\ op'[h].tries = op[h].tries /\ op'[h].floor = op[h].floor
    /\ op'[h].m = op[h].m /\ op'[h].saw = op[h].saw /\ op'[h].before = op[h].before
    /\ op'[h].blind = op[h].blind /\ op'[h].key = op[h].key
    /\ op'[h].refs = op[h].refs

\* The processes of the other hosts stand still.
OnlyOp(h) == op' \in [Hosts -> OpType] /\ \A g \in Hosts \ {h} : op'[g] = op[g]

\* A process at rest.
LEMMA IdleType == Idle \in OpType
BY RegistryAssumption DEF Idle, OpType, Stages, Slots, Versions, Header

\* Go changes the stage only.
LEMMA GoIs ==
    ASSUME Typed, NEW h \in Hosts, NEW at \in Stages, Go(h, at)
    PROVE  OnlyOp(h) /\ op'[h].at = at /\ Kept(h) /\ op'[h].due = op[h].due
<1>1. op \in [Hosts -> OpType] /\ op[h] \in OpType
  BY DEF Typed
<1>2. [op[h] EXCEPT !.at = at] \in OpType
  BY <1>1 DEF OpType
<1>3. op' = [op EXCEPT ![h] = [op[h] EXCEPT !.at = at]]
  BY <1>1 DEF Go
<1>4. OnlyOp(h) /\ op'[h] = [op[h] EXCEPT !.at = at]
  BY <1>1, <1>2, <1>3 DEF OnlyOp
<1> QED BY <1>1, <1>4 DEF OpType, Kept

\* End puts it at rest.
LEMMA EndIs ==
    ASSUME Typed, NEW h \in Hosts, End(h)
    PROVE  OnlyOp(h) /\ op'[h] = Idle
BY IdleType DEF Typed, End, OnlyOp

\* A record that is made.
LEMMA RecordType ==
    ASSUME NEW s \in Slots, NEW h \in Hosts
    PROVE  /\ Free \in RecType(s) /\ Record("claim", None, h) \in RecType(s)
           /\ \A v \in IF s = Header THEN Kinds ELSE Runs :
                 Record("whole", v, h) \in RecType(s)
           /\ RecType(s) \subseteq AnyRecord
BY DEF RecType, RecordOf, Free, Record, AnyRecord

\* A step of a host's process.
HostStep(h) == Register(h) \/ ReadLog(h) \/ PruneList(h) \/ Step(h) \/ Crash(h)

\* The value a registration writes has the type of its record.
LEMMA ValueType ==
    ASSUME Typed, NEW h \in Hosts, Work(h), Registering(h)
    PROVE  /\ op[h].slot \in Slots
           /\ Value(h) \in IF op[h].slot = Header THEN Kinds ELSE Runs
BY DEF Typed, OpType, Work, Value

\* One record of the remote, or one of a host, is replaced.
LEMMA RemoteSet ==
    ASSUME Typed, NEW s \in Slots, NEW r \in RecType(s),
           remote' = [remote EXCEPT ![s] = r]
    PROVE  /\ remote' \in [Slots -> AnyRecord]
           /\ \A q \in Slots : remote'[q] = (IF q = s THEN r ELSE remote[q]) /\ remote'[q] \in RecType(q)
<1>1. r \in AnyRecord BY DEF RecType, RecordOf, AnyRecord, Free
<1> QED BY <1>1 DEF Typed

\* The same of a host's copies.
LEMMA LocalSet ==
    ASSUME Typed, NEW h \in Hosts, NEW s \in Slots, NEW r \in RecType(s),
           local' = [local EXCEPT ![h][s] = r]
    PROVE  /\ local' \in [Hosts -> [Slots -> AnyRecord]]
           /\ \A q \in Slots : local'[h][q] = IF q = s THEN r ELSE local[h][q]
           /\ \A g \in Hosts \ {h} : local'[g] = local[g]
           /\ \A g \in Hosts, q \in Slots : local'[g][q] \in RecType(q)
<1>1. r \in AnyRecord BY DEF RecType, RecordOf, AnyRecord, Free
<1>2. local \in [Hosts -> [Slots -> AnyRecord]] BY DEF Typed
<1>3. local' \in [Hosts -> [Slots -> AnyRecord]] BY <1>1, <1>2
<1>4. \A q \in Slots : local'[h][q] = IF q = s THEN r ELSE local[h][q] BY <1>2
<1>5. \A g \in Hosts \ {h} : local'[g] = local[g] BY <1>2
<1>6. \A g \in Hosts, q \in Slots : local'[g][q] \in RecType(q)
  BY <1>4, <1>5 DEF Typed
<1> QED BY <1>3, <1>4, <1>5, <1>6

\* What a step of a host may do to the remote's records: it takes a free one, or
\* completes one that it has claimed; a complete one is never touched.
RemoteStep(h) ==
    \A s \in Slots :
       \/ remote'[s] = remote[s]
       \/ remote[s] = Free /\ remote'[s].st # "free"
       \/ remote[s] = Record("claim", None, h) /\ remote'[s].st # "free"

\* The records, over a step.
LEMMA Records ==
    ASSUME Typed, NEW h \in Hosts, Work(h), HostStep(h)
    PROVE  /\ remote' \in [Slots -> AnyRecord]
           /\ local' \in [Hosts -> [Slots -> AnyRecord]]
           /\ \A s \in Slots : remote'[s] \in RecType(s)
           /\ \A s \in Slots, g \in Hosts : local'[g][s] \in RecType(s)
           /\ \A g \in Hosts \ {h} : local'[g] = local[g]
           /\ RemoteStep(h)
<1> DEFINE s == op[h].slot
           Goal == /\ remote' \in [Slots -> AnyRecord]
                   /\ local' \in [Hosts -> [Slots -> AnyRecord]]
                   /\ \A q \in Slots : remote'[q] \in RecType(q)
                   /\ \A q \in Slots, g \in Hosts : local'[g][q] \in RecType(q)
                   /\ \A g \in Hosts \ {h} : local'[g] = local[g]
                   /\ RemoteStep(h)
<1>0. s \in Slots /\ Header \in Slots BY DEF Typed, OpType, Slots
<1>1. CASE remote' = remote /\ local' = local
  BY <1>1 DEF Typed, RemoteStep
<1>2. ASSUME NEW q \in Slots, NEW r \in RecType(q), remote' = remote,
             local' = [local EXCEPT ![h][q] = r]
      PROVE  Goal
  BY <1>2, LocalSet DEF Typed, RemoteStep
<1>3. CASE CreateLocal(h)
  <2>1. Registering(h) BY <1>3 DEF CreateLocal, Registering
  <2>2. Record("whole", Value(h), h) \in RecType(s) BY <1>0, <2>1, ValueType, RecordType
  <2> QED BY <1>0, <1>1, <1>2, <1>3, <2>2 DEF CreateLocal
<1>4. CASE ClaimRemote(h)
  <2>1. Free \in RecType(s) /\ Record("claim", None, h) \in RecType(s)
    BY <1>0, RecordType
  <2>2. CASE remote[s].st # "free"
    BY <1>0, <1>2, <1>4, <2>1, <2>2 DEF ClaimRemote
  <2>3. CASE remote[s].st = "free"
    <3>1. remote' = [remote EXCEPT ![s] = Record("claim", None, h)] /\ local' = local
      BY <1>4, <2>3 DEF ClaimRemote
    <3>2. remote[s] = Free BY <1>0, <2>3 DEF Typed, RecType, RecordOf, Free
    <3>3. Record("claim", None, h).st = "claim" BY DEF Record
    <3> QED BY <1>0, <2>1, <3>1, <3>2, <3>3, RemoteSet DEF Typed, RemoteStep
  <2> QED BY <2>2, <2>3
<1>5. ASSUME op[h].at = "write",
             remote' = [remote EXCEPT ![s] = Record("whole", Value(h), h)]
      PROVE  /\ remote' \in [Slots -> AnyRecord]
             /\ \A q \in Slots : remote'[q] \in RecType(q)
             /\ RemoteStep(h)
  <2>1. Record("whole", Value(h), h) \in RecType(s)
    BY <1>0, <1>5, ValueType, RecordType DEF Registering
  <2>2. remote[s] = Record("claim", None, h) BY <1>5 DEF Work
  <2>3. Record("whole", Value(h), h).st = "whole" BY DEF Record
  <2> QED BY <1>0, <1>5, <2>1, <2>2, <2>3, RemoteSet DEF RemoteStep
<1>6. CASE WriteRemote(h)
  BY <1>5, <1>6 DEF WriteRemote, Typed
<1>7. CASE CreateFault(h)
  <2>1. Free \in RecType(s) /\ Record("claim", None, h) \in RecType(s)
    BY <1>0, RecordType
  <2>2. /\ local' \in [Hosts -> [Slots -> AnyRecord]]
        /\ \A g \in Hosts \ {h} : local'[g] = local[g]
        /\ \A q \in Slots, g \in Hosts : local'[g][q] \in RecType(q)
    BY <1>0, <1>7, <2>1, LocalSet DEF CreateFault
  <2>3. CASE remote' = remote
    BY <2>2, <2>3 DEF Typed, RemoteStep
  <2>4. CASE remote[s].st = "free" /\ remote' = [remote EXCEPT ![s] = Record("claim", None, h)]
    <3>1. remote[s] = Free BY <1>0, <2>4 DEF Typed, RecType, RecordOf, Free
    <3>2. Record("claim", None, h).st = "claim" BY DEF Record
    <3> QED BY <1>0, <2>1, <2>2, <2>4, <3>1, <3>2, RemoteSet DEF RemoteStep
  <2>5. CASE op[h].at = "write" /\ remote' = [remote EXCEPT ![s] = Record("whole", Value(h), h)]
    BY <1>5, <2>2, <2>5
  <2> QED BY <1>7, <2>3, <2>4, <2>5 DEF CreateFault
<1>8. CASE AppendEntry(h)
  <2>1. CASE local' = local /\ remote' = remote
    BY <1>1, <2>1
  <2>2. CASE local' = [local EXCEPT ![h][Header] = remote[Header]] /\ remote' = remote
    BY <1>0, <1>2, <2>2 DEF Typed
  <2> QED BY <1>8, <2>1, <2>2 DEF AppendEntry
<1>9. CASE Crash(h)
  <2>1. Record("claim", None, h) \in RecType(s)
    BY <1>0, RecordType
  <2> QED BY <1>0, <1>1, <1>2, <1>9, <2>1 DEF Crash
<1>10. CASE \/ Register(h) \/ CheckKind(h) \/ Dedupe(h) \/ List(h) \/ ReadLog(h)
            \/ Flush(h) \/ FlushFault(h) \/ PruneList(h) \/ Scan(h) \/ Delete(h)
  <2>1. remote' = remote /\ local' = local
    BY <1>10 DEF Register, CheckKind, Dedupe, List, ReadLog, Flush, FlushFault, PruneList,
                 Scan, Delete, records
  <2> QED BY <1>1, <2>1
<1> QED BY <1>3, <1>4, <1>6, <1>7, <1>8, <1>9, <1>10 DEF HostStep, Step, RegisterStep

-----------------------------------------------------------------------------
(***************************************************************************)
(* The numbers.                                                            *)
(***************************************************************************)

\* A set of version numbers, with zero, has a greatest element.
LEMMA GreatestNumber ==
    ASSUME NEW S \in SUBSET (0 .. MaxVersions), S # {}
    PROVE  Max(S) \in S /\ \A x \in S : x <= Max(S)
<1>1. IsFiniteSet(0 .. MaxVersions) BY RegistryAssumption, FS_Interval
<1>2. IsFiniteSet(S) BY <1>1, FS_Subset
<1> QED BY <1>2, MaxIs

\* The floor of a registration: a number that was returned, or none.
LEMMA FloorIs ==
    ASSUME Typed, Returned
    PROVE  LET f == Max({0} \cup {x.n : x \in regd})
           IN /\ f \in {0} \cup Versions
              /\ f # 0 => remote[f].st # "free"
              /\ \A x \in regd : x.n <= f
<1> DEFINE S == {0} \cup {x.n : x \in regd}
<1>1. S \in SUBSET (0 .. MaxVersions)
  BY RegistryAssumption DEF Typed, Versions
<1>2. Max(S) \in S /\ \A x \in S : x <= Max(S)
  BY <1>1, GreatestNumber
<1>3. \A x \in regd : x.n \in Versions /\ remote[x.n].st = "whole"
  BY DEF Typed, Returned
<1> HIDE DEF S
<1>4. Max(S) = 0 \/ \E x \in regd : Max(S) = x.n
  BY <1>2 DEF S
<1>5. \A x \in regd : x.n <= Max(S)
  BY <1>2 DEF S
<1> QED BY <1>3, <1>4, <1>5 DEF S

\* The number that is tried next is above the last one and above all that are taken.
LEMMA NextNumberIs ==
    ASSUME Typed, NEW h \in Hosts
    PROVE  /\ NextNumber(h) \in Nat \ {0}
           /\ NextNumber(h) > op[h].slot
           /\ \A n \in Versions : remote[n].st # "free" => n < NextNumber(h)
<1> DEFINE S == {0, op[h].slot} \cup Taken(h)
<1>1. S \in SUBSET (0 .. MaxVersions)
  BY RegistryAssumption DEF Typed, OpType, Slots, Header, Versions, Taken
<1>2. Max(S) \in S /\ \A x \in S : x <= Max(S)
  BY <1>1, GreatestNumber
<1>3. \A n \in Versions : remote[n].st # "free" => n \in S
  BY DEF Taken
<1> HIDE DEF S
<1>4. Max(S) \in 0 .. MaxVersions /\ op[h].slot \in 0 .. MaxVersions /\ MaxVersions \in Nat
  BY <1>1, <1>2, RegistryAssumption DEF S
<1>5. NextNumber(h) = Max(S) + 1
  BY DEF NextNumber, S
<1>6. op[h].slot <= Max(S)
  BY <1>2 DEF S
<1> QED BY <1>2, <1>3, <1>4, <1>5, <1>6 DEF Versions

-----------------------------------------------------------------------------
(***************************************************************************)
(* The processes, over a step.                                             *)
(***************************************************************************)

\* A process that another one's step leaves alone: but a prune need not respect
\* a version that was deleted since.
Stands(g) ==
    /\ op'[g].at = op[g].at /\ Kept(g) /\ op'[g].due \subseteq op[g].due
    /\ sent' # sent => \A n \in op'[g].due : IsLive(Seen(g)', n)

\* Only the step's own process moves.
LEMMA OnlyOpStands ==
    ASSUME NEW h \in Hosts, OnlyOp(h), sent' = sent
    PROVE  \A g \in Hosts \ {h} : Stands(g)
BY DEF OnlyOp, Stands, Kept

\* Register: a registration begins with the header.
LEMMA RegisterIs ==
    ASSUME Typed, Returned, NEW h \in Hosts, Register(h)
    PROVE  /\ OnlyOp(h) /\ op'[h].at = "local" /\ op'[h].kind \in Kinds /\ op'[h].run \in Runs
           /\ op'[h].slot = Header /\ op'[h].tries = 0 /\ op'[h].due = {}
           /\ op'[h].floor # 0 => remote[op'[h].floor].st # "free"
<1> DEFINE f == Max({0} \cup {x.n : x \in regd})
<1>1. PICK kind \in Kinds, r \in runs :
         op' = [op EXCEPT ![h] = [Idle EXCEPT !.at = "local", !.kind = kind, !.run = r,
                                              !.floor = f]]
  BY DEF Register
<1>2. f \in {0} \cup Versions /\ (f # 0 => remote[f].st # "free")
  BY FloorIs
<1> HIDE DEF f
<1> DEFINE o == [Idle EXCEPT !.at = "local", !.kind = kind, !.run = r, !.floor = f]
<1>3. r \in Runs BY DEF Typed
<1>4. /\ o.at = "local" /\ o.kind = kind /\ o.run = r /\ o.slot = Header /\ o.tries = 0
      /\ o.due = {} /\ o.floor = f
  BY DEF Idle
<1>5. o \in OpType
  BY <1>2, <1>3, IdleType DEF OpType, Stages
<1>6. op'[h] = o /\ OnlyOp(h)
  BY <1>1, <1>5 DEF Typed, OnlyOp
<1> HIDE DEF o
<1> QED BY <1>2, <1>3, <1>4, <1>6

\* Collide: on with the kind, or with another number.
LEMMA CollideIs ==
    ASSUME Typed, NEW h \in Hosts, Work(h), op[h].at \in {"local", "claim"}, Collide(h)
    PROVE  /\ OnlyOp(h) /\ op'[h].due = op[h].due
           /\ op'[h].kind = op[h].kind /\ op'[h].run = op[h].run /\ op'[h].slot = op[h].slot
           /\ op'[h].floor = op[h].floor
           /\ \/ op[h].slot = Header /\ op'[h].at = "kind" /\ op'[h].tries = op[h].tries
              \/ op[h].slot # Header /\ op'[h].at = "list" /\ op'[h].tries = op[h].tries + 1
<1>1. CASE op[h].slot = Header
  BY <1>1, GoIs DEF Collide, Stages, Kept
<1>2. CASE op[h].slot # Header
  <2> DEFINE o == [op[h] EXCEPT !.at = "list", !.tries = @ + 1]
  <2>1. op[h] \in OpType /\ op \in [Hosts -> OpType] BY DEF Typed
  <2>2. op[h].tries + 1 \in 0 .. MaxTries /\ op[h].tries \in Nat
    BY <1>2, <2>1, RegistryAssumption DEF Work, OpType
  <2>3. o \in OpType BY <2>1, <2>2 DEF OpType, Stages
  <2>4. op' = [op EXCEPT ![h] = o] BY <1>2, <2>1 DEF Collide
  <2>5. op'[h] = o /\ OnlyOp(h) BY <2>1, <2>3, <2>4 DEF OnlyOp
  <2>6. /\ o.due = op[h].due /\ o.kind = op[h].kind /\ o.run = op[h].run
        /\ o.slot = op[h].slot /\ o.floor = op[h].floor /\ o.at = "list"
        /\ o.tries = op[h].tries + 1
    BY <2>1 DEF OpType
  <2> HIDE DEF o
  <2> QED BY <1>2, <2>5, <2>6
<1> QED BY <1>1, <1>2

\* List: on with a number, or no further.
LEMMA ListIs ==
    ASSUME Typed, NEW h \in Hosts, Work(h), List(h)
    PROVE  /\ OnlyOp(h) /\ op'[h].due = op[h].due
           /\ op'[h].kind = op[h].kind /\ op'[h].run = op[h].run
           /\ op'[h].floor = op[h].floor /\ op'[h].tries = op[h].tries
           /\ \/ op'[h].at = "gaveup" /\ op'[h].slot = op[h].slot /\ op[h].tries = MaxTries
              \/ /\ op'[h].at = "local" /\ op'[h].slot = NextNumber(h)
                 /\ op[h].tries # MaxTries /\ NextNumber(h) \in Versions
<1>1. CASE op[h].tries = MaxTries
  BY <1>1, GoIs DEF List, Stages, Kept
<1>2. CASE op[h].tries # MaxTries
  <2> DEFINE o == [op[h] EXCEPT !.at = "local", !.slot = NextNumber(h)]
  <2>1. op[h] \in OpType /\ op \in [Hosts -> OpType] BY DEF Typed
  <2>2. NextNumber(h) \in Versions BY <1>2 DEF List
  <2>3. o \in OpType BY <2>1, <2>2 DEF OpType, Stages, Slots
  <2>4. op' = [op EXCEPT ![h] = o] BY <1>2, <2>1 DEF List
  <2>5. op'[h] = o /\ OnlyOp(h) BY <2>1, <2>3, <2>4 DEF OnlyOp
  <2>6. /\ o.due = op[h].due /\ o.kind = op[h].kind /\ o.run = op[h].run
        /\ o.slot = NextNumber(h) /\ o.floor = op[h].floor /\ o.at = "local"
        /\ o.tries = op[h].tries
    BY <2>1 DEF OpType
  <2> HIDE DEF o
  <2> QED BY <1>2, <2>2, <2>5, <2>6
<1> QED BY <1>1, <1>2

\* ReadLog: a move holds what it read.
LEMMA ReadLogIs ==
    ASSUME Typed, NEW h \in Hosts, ReadLog(h)
    PROVE  /\ OnlyOp(h) /\ op'[h].at = "append" /\ op'[h].m \in Moves
           /\ op'[h].saw \in {Seen(h), own[h]} /\ op'[h].before = sent
           /\ ~op'[h].blind => op'[h].saw = Seen(h)
           /\ op'[h].slot = Header /\ op'[h].tries = 0 /\ op'[h].floor = 0 /\ op'[h].due = {}
<1>1. PICK m \in Moves, blind \in BOOLEAN, es \in {Seen(h), own[h]} :
         /\ ~blind => es = Seen(h)
         /\ op' = [op EXCEPT ![h] = [Idle EXCEPT !.at = "append", !.m = m, !.saw = es,
                                                 !.before = sent, !.blind = blind]]
  BY DEF ReadLog
<1> DEFINE o == [Idle EXCEPT !.at = "append", !.m = m, !.saw = es, !.before = sent,
                             !.blind = blind]
<1>2. es \in SUBSET EntryType /\ sent \in SUBSET EntryType
  BY DEF Typed, Seen
<1>3. /\ o.at = "append" /\ o.m = m /\ o.saw = es /\ o.before = sent /\ o.blind = blind
      /\ o.slot = Header /\ o.tries = 0 /\ o.floor = 0 /\ o.due = {}
  BY DEF Idle
<1>4. o \in OpType
  BY <1>2, IdleType DEF OpType, Stages
<1>5. op'[h] = o /\ OnlyOp(h)
  BY <1>1, <1>4 DEF Typed, OnlyOp
<1> HIDE DEF o
<1> QED BY <1>1, <1>3, <1>5

\* Ship: the process is done, and every prune takes notice.
LEMMA ShipIs ==
    ASSUME Typed, NEW h \in Hosts, NEW es, Ship(h, es), own' = own
    PROVE  /\ op' \in [Hosts -> OpType] /\ op'[h] = Idle /\ sent' = es
           /\ \A g \in Hosts \ {h} : Stands(g)
<1>1. op \in [Hosts -> OpType] BY DEF Typed
<1>2. ASSUME NEW g \in Hosts \ {h}
      PROVE  op'[g] \in OpType /\ Stands(g)
  <2> DEFINE live == {n \in op[g].due : IsLive(es \cup own[g], n)}
             o == [op[g] EXCEPT !.due = live]
  <2>1. op[g] \in OpType BY <1>1
  <2>2. live \subseteq op[g].due OBVIOUS
  <2>3. op'[g] = o BY DEF Ship
  <2>4. \A n \in live : IsLive(Seen(g)', n)
    BY DEF Seen, Ship
  <2> HIDE DEF live
  <2>5. o \in OpType BY <2>1, <2>2 DEF OpType
  <2>6. /\ o.at = op[g].at /\ o.kind = op[g].kind /\ o.run = op[g].run /\ o.slot = op[g].slot
        /\ o.tries = op[g].tries /\ o.floor = op[g].floor /\ o.m = op[g].m
        /\ o.saw = op[g].saw /\ o.before = op[g].before /\ o.blind = op[g].blind
        /\ o.key = op[g].key /\ o.refs = op[g].refs /\ o.due = live
    BY <2>1 DEF OpType
  <2> HIDE DEF o
  <2> QED BY <2>2, <2>3, <2>4, <2>5, <2>6 DEF Stands, Kept
<1>3. op'[h] = Idle /\ op'[h] \in OpType BY IdleType DEF Ship
<1>4. op' \in [Hosts -> OpType]
  <2>1. \A g \in Hosts : op'[g] \in OpType BY <1>2, <1>3
  <2>2. op' = [g \in Hosts |-> op'[g]] BY DEF Ship
  <2> QED BY <2>1, <2>2
<1> QED BY <1>2, <1>3, <1>4 DEF Ship

\* Flush and FlushFault ship what they ship.
LEMMA FlushIs ==
    ASSUME Typed, NEW h \in Hosts, Flush(h) \/ FlushFault(h)
    PROVE  /\ op' \in [Hosts -> OpType] /\ op'[h] = Idle
           /\ sent' = sent \/ sent' = sent \cup own[h]
           /\ own' = own
           /\ \A g \in Hosts \ {h} : Stands(g)
<1>1. own' = own BY DEF Flush, FlushFault
<1>2. PICK es \in {sent, sent \cup own[h]} : Ship(h, es)
  BY DEF Flush, FlushFault
<1> QED BY <1>1, <1>2, ShipIs

\* PruneList: a prune holds the listing and, if it is the cached one, what was
\* cached for it.
LEMMA PruneListIs ==
    ASSUME Typed, NEW h \in Hosts, PruneList(h)
    PROVE  /\ OnlyOp(h) /\ op'[h].key = Listing(h) /\ Listing(h) \in Listings
           /\ op'[h].due = Due(h)
           /\ op'[h].run \in Runs /\ op'[h].slot = Header /\ op'[h].tries = 0 /\ op'[h].floor = 0
           /\ \/ op'[h].at = "scan"
              \/ /\ op'[h].at = "delete" /\ cache[h].key = Listing(h)
                 /\ op'[h].refs = cache[h].refs /\ op'[h].blind = cache[h].blind
<1>1. PICK r \in runs :
         LET p == [Idle EXCEPT !.run = r, !.key = Listing(h), !.due = Due(h)]
         IN op' = [op EXCEPT ![h] =
                     IF cache[h].key = Listing(h)
                     THEN [p EXCEPT !.at = "delete", !.refs = cache[h].refs,
                                    !.blind = cache[h].blind]
                     ELSE [p EXCEPT !.at = "scan"]]
  BY DEF PruneList
<1> DEFINE k == Listing(h)
           d == Due(h)
           p == [Idle EXCEPT !.run = r, !.key = k, !.due = d]
           del == [p EXCEPT !.at = "delete", !.refs = cache[h].refs, !.blind = cache[h].blind]
           scan == [p EXCEPT !.at = "scan"]
<1>2. k \in Listings
  BY DEF Typed, Listing, Listings, Listed, Seen
<1>3. d \in SUBSET Versions BY DEF Due
<1>4. cache[h].refs \in SUBSET Runs /\ cache[h].blind \in BOOLEAN /\ r \in Runs
  BY DEF Typed
<1>5. op' = [op EXCEPT ![h] = IF cache[h].key = k THEN del ELSE scan]
  BY <1>1
<1> HIDE DEF k, d
<1>6. p \in OpType /\ p.run = r /\ p.key = k /\ p.due = d /\ p.slot = Header /\ p.tries = 0
      /\ p.floor = 0
  BY <1>2, <1>3, <1>4, IdleType DEF OpType, Idle
<1> HIDE DEF p
<1>7. /\ scan \in OpType /\ scan.run = r /\ scan.key = k /\ scan.due = d /\ scan.slot = Header
      /\ scan.tries = 0 /\ scan.floor = 0 /\ scan.at = "scan"
  BY <1>6 DEF OpType, Stages
<1>8. /\ del \in OpType /\ del.run = r /\ del.key = k /\ del.due = d /\ del.slot = Header
      /\ del.tries = 0 /\ del.floor = 0 /\ del.at = "delete"
      /\ del.refs = cache[h].refs /\ del.blind = cache[h].blind
  BY <1>4, <1>6 DEF OpType, Stages
<1> HIDE DEF scan, del
<1>9. OnlyOp(h) /\ op'[h] = IF cache[h].key = k THEN del ELSE scan
  BY <1>5, <1>7, <1>8 DEF Typed, OnlyOp
<1> QED BY <1>2, <1>4, <1>7, <1>8, <1>9 DEF k, d

\* Scan: the runs named by the versions that were listed and that the log, as it
\* is read now, does not delete.
ScanRefs(h, es) ==
    IF ~op[h].key.hdr THEN {}
    ELSE {Reads(h, n) : n \in {v \in op[h].key.vs : IsLive(es, v)}}

\* A version that is listed names a run.
LEMMA ReadsType ==
    ASSUME Typed, NEW h \in Hosts, NEW n \in Versions, Listed(h, n)
    PROVE  Reads(h, n) \in Runs
<1>1. n \in Slots /\ n # Header BY RegistryAssumption DEF Slots, Versions, Header
<1>2. local[h][n] \in RecordOf(Runs) /\ remote[n] \in RecordOf(Runs)
  BY <1>1 DEF Typed, RecType
<1> QED BY <1>2 DEF Listed, Reads, RecordOf, Free

\* Scan: what it found is held, and cached under what was listed.
LEMMA ScanIs ==
    ASSUME Typed, NEW h \in Hosts, Pruning(h), Scan(h)
    PROVE  \E es \in {Seen(h), own[h]}, blind \in BOOLEAN :
              /\ ~blind => es = Seen(h)
              /\ OnlyOp(h) /\ op'[h].at = "delete" /\ op'[h].blind = blind
              /\ op'[h].refs = ScanRefs(h, es) /\ ScanRefs(h, es) \subseteq Runs
              /\ op'[h].key = op[h].key /\ op'[h].due = op[h].due /\ op'[h].slot = op[h].slot
              /\ op'[h].tries = op[h].tries /\ op'[h].floor = op[h].floor
              /\ cache' = [cache EXCEPT ![h] =
                            [key |-> op[h].key, refs |-> ScanRefs(h, es), blind |-> blind]]
<1>1. PICK blind \in BOOLEAN, es \in {Seen(h), own[h]} :
         /\ Read(h, es, blind)
         /\ cache' = [cache EXCEPT ![h] =
                       [key |-> CacheKey(h), refs |-> ScanRefs(h, es), blind |-> blind]]
         /\ op' = [op EXCEPT ![h].at = "delete", ![h].refs = ScanRefs(h, es),
                             ![h].blind = blind]
  BY DEF Scan, ScanRefs
<1>2. op[h] \in OpType /\ op \in [Hosts -> OpType] BY DEF Typed
<1>3. ScanRefs(h, es) \in SUBSET Runs
  <2>1. op[h].at = "scan" BY DEF Scan
  <2>2. op[h].key \in Listings /\ \A n \in op[h].key.vs : Listed(h, n)
    BY <2>1 DEF Pruning
  <2>3. \A n \in op[h].key.vs : n \in Versions BY <2>2 DEF Listings
  <2> QED BY <2>2, <2>3, ReadsType DEF ScanRefs
<1> DEFINE refs == ScanRefs(h, es)
           o == [op[h] EXCEPT !.at = "delete", !.refs = refs, !.blind = blind]
<1>4. op' = [op EXCEPT ![h] = o] BY <1>1, <1>2
<1>5. refs \in SUBSET Runs BY <1>3
<1> HIDE DEF refs
<1>6. /\ o \in OpType /\ o.at = "delete" /\ o.refs = refs /\ o.blind = blind
      /\ o.key = op[h].key /\ o.due = op[h].due /\ o.slot = op[h].slot
      /\ o.tries = op[h].tries /\ o.floor = op[h].floor
  BY <1>2, <1>5 DEF OpType, Stages
<1> HIDE DEF o
<1>7. OnlyOp(h) /\ op'[h] = o BY <1>2, <1>4, <1>6 DEF OnlyOp
<1>8. ~blind => es = Seen(h) BY <1>1 DEF Read
<1> QED BY <1>1, <1>5, <1>6, <1>7, <1>8 DEF refs, CacheKey

\* The processes over any step: their types, and those that stand.
LEMMA Processes ==
    ASSUME Typed, Returned, NEW h \in Hosts, Work(h), Pruning(h), HostStep(h)
    PROVE  op' \in [Hosts -> OpType] /\ \A g \in Hosts \ {h} : Stands(g)
<1>1. CASE Flush(h) \/ FlushFault(h)
  BY <1>1, FlushIs
<1>2. CASE ~(Flush(h) \/ FlushFault(h))
  <2>1. sent' = sent
    BY <1>2 DEF HostStep, Step, RegisterStep, Register, CreateLocal, ClaimRemote, WriteRemote,
          CreateFault, CheckKind, Dedupe, List, ReadLog, AppendEntry, PruneList, Scan, Delete,
          Crash, log
  <2>2. OnlyOp(h)
    <3>1. CASE Register(h) BY <3>1, RegisterIs
    <3>2. CASE CreateLocal(h)
      BY <3>2, CollideIs, GoIs DEF CreateLocal, Stages
    <3>3. CASE ClaimRemote(h)
      BY <3>3, CollideIs, GoIs DEF ClaimRemote, Stages
    <3>4. CASE WriteRemote(h)
      BY <3>4, EndIs, GoIs DEF WriteRemote, AfterHeader, Stages
    <3>5. CASE CreateFault(h) BY <3>5, EndIs DEF CreateFault
    <3>6. CASE CheckKind(h)
      BY <3>6, EndIs, GoIs DEF CheckKind, AfterHeader, Stages
    <3>7. CASE Dedupe(h) BY <3>7, EndIs, GoIs DEF Dedupe, Stages
    <3>8. CASE List(h) BY <3>8, ListIs
    <3>9. CASE ReadLog(h) BY <3>9, ReadLogIs
    <3>10. CASE AppendEntry(h) BY <3>10, EndIs, GoIs DEF AppendEntry, Stages
    <3>11. CASE PruneList(h) BY <3>11, PruneListIs
    <3>12. CASE Scan(h) BY <3>12, ScanIs
    <3>13. CASE Delete(h) BY <3>13, EndIs DEF Delete
    <3>14. CASE Crash(h) BY <3>14, EndIs DEF Crash
    <3> QED BY <1>2, <3>1, <3>2, <3>3, <3>4, <3>5, <3>6, <3>7, <3>8, <3>9, <3>10, <3>11,
               <3>12, <3>13, <3>14 DEF HostStep, Step, RegisterStep
  <2> QED BY <2>1, <2>2, OnlyOpStands DEF OnlyOp
<1> QED BY <1>1, <1>2

\* What else a step leaves to the others; the log only grows.
LEMMA OthersStand ==
    ASSUME Typed, NEW h \in Hosts, HostStep(h)
    PROVE  /\ \A g \in Hosts \ {h} : /\ own'[g] = own[g] /\ cache'[g] = cache[g]
                                     /\ g \in crashed' <=> g \in crashed
           /\ sent' = sent \/ sent' = sent \cup own[h]
           /\ \A g \in Hosts : own[g] \subseteq own'[g]
           /\ crashed \subseteq crashed'
<1>1. own \in [Hosts -> SUBSET EntryType] /\ DOMAIN cache = Hosts
      /\ cache = [g \in Hosts |-> cache[g]]
  BY DEF Typed
<1>2. CASE AppendEntry(h)
  BY <1>1, <1>2 DEF AppendEntry
<1>3. CASE Scan(h)
  BY <1>1, <1>3 DEF Scan, log
<1>4. CASE Crash(h)
  BY <1>1, <1>4 DEF Crash, log
<1>5. CASE Flush(h) \/ FlushFault(h)
  <2>1. own' = own /\ cache' = cache /\ crashed' = crashed
    BY <1>5 DEF Flush, FlushFault
  <2> QED BY <1>5, <2>1 DEF Flush, FlushFault, Ship
<1>6. CASE ~(AppendEntry(h) \/ Scan(h) \/ Crash(h) \/ Flush(h) \/ FlushFault(h))
  <2>1. own' = own /\ cache' = cache /\ crashed' = crashed /\ sent' = sent
    BY <1>6 DEF HostStep, Step, RegisterStep, Register, CreateLocal, ClaimRemote, WriteRemote,
          CreateFault, CheckKind, Dedupe, List, ReadLog, PruneList, Delete, log
  <2> QED BY <2>1
<1> QED BY <1>2, <1>3, <1>4, <1>5, <1>6

\* What RemoteStep means for a reader: a record that is there stays, a complete
\* one as it is, and another host's claim is another host's.
LEMMA RemoteStays ==
    ASSUME Typed, NEW h \in Hosts, RemoteStep(h)
    PROVE  /\ \A s \in Slots : remote[s].st # "free" => remote'[s].st # "free"
           /\ \A s \in Slots : remote[s].st = "whole" => remote'[s] = remote[s]
           /\ \A s \in Slots, g \in Hosts \ {h} :
                 remote[s] = Record("claim", None, g) => remote'[s] = remote[s]
<1>1. Free.st = "free" BY DEF Free
<1>2. \A g \in Hosts : Record("claim", None, g).st = "claim" /\ Record("claim", None, g).by = g
  BY DEF Record
<1> QED BY <1>1, <1>2 DEF RemoteStep

\* The cache of a host stays good while the log grows: if the log is again, or
\* still, the one that was listed, it never changed.
LEMMA CachedStays ==
    ASSUME Typed, NEW h \in Hosts, NEW g \in Hosts, RemoteStep(g), Cached(h),
           cache'[h] = cache[h], crashed \subseteq crashed', Seen(h) \subseteq Seen(h)'
    PROVE  Cached(h)'
<1>1. CASE cache[h] = NoCache BY <1>1 DEF Cached
<1>2. CASE cache[h] # NoCache
  <2>1. cache[h].key.vs \subseteq Slots
    BY <1>2 DEF Cached, Listings, Slots
  <2>2. Seen(h)' = cache[h].key.log => Seen(h) = cache[h].key.log
    BY <1>2 DEF Cached
  <2>3. \A s \in Slots : remote[s].st = "whole" => remote'[s] = remote[s]
    BY RemoteStays
  <2> QED BY <1>2, <2>1, <2>2, <2>3 DEF Cached
<1> QED BY <1>1, <1>2

\* The parts of the invariant about one host, over a step of another.
LEMMA OthersInv ==
    ASSUME Typed, Returned, NEW h \in Hosts, Work(h), Pruning(h), HostStep(h),
           NEW g \in Hosts \ {h}, Work(g), Copies(g), Stream(g), Moving(g), Pruning(g), Cached(g)
    PROVE  Work(g)' /\ Copies(g)' /\ Stream(g)' /\ Moving(g)' /\ Pruning(g)' /\ Cached(g)'
<1>1. /\ Stands(g) /\ local'[g] = local[g] /\ RemoteStep(h)
      /\ own'[g] = own[g] /\ cache'[g] = cache[g] /\ (g \in crashed' <=> g \in crashed)
      /\ sent \subseteq sent'
  BY Processes, Records, OthersStand
<1>2. /\ \A s \in Slots : remote[s].st # "free" => remote'[s].st # "free"
      /\ \A s \in Slots : remote[s].st = "whole" => remote'[s] = remote[s]
      /\ \A s \in Slots : remote[s] = Record("claim", None, g) => remote'[s] = remote[s]
  BY <1>1, RemoteStays
<1>3. /\ op'[g].at = op[g].at /\ Kept(g) /\ op'[g].due \subseteq op[g].due
  BY <1>1 DEF Stands
<1>4. op[g] \in OpType /\ op[g].slot \in Slots /\ op[g].floor \in {0} \cup Versions
      /\ op[g].due \subseteq Versions /\ Versions \subseteq Slots
  BY DEF Typed, OpType, Slots
<1>5. Seen(g) \subseteq Seen(g)' /\ (sent' = sent => Seen(g)' = Seen(g))
  BY <1>1 DEF Seen
<1>6. Work(g)'
  <2>1. Value(g)' = Value(g) BY <1>3 DEF Kept, Value
  <2> QED BY <1>1, <1>2, <1>3, <1>4, <2>1 DEF Work, Kept, Registering, Creating
<1>7. Copies(g)'
  BY <1>1, <1>2, <1>3, <1>4 DEF Copies, Kept, Creating
<1>8. Stream(g)'
  BY <1>1 DEF Stream
<1>9. Moving(g)'
  BY <1>1, <1>3 DEF Moving, Kept
<1>10. Pruning(g)'
  <2>1. \A n \in op'[g].due : remote'[n].st = "whole" /\ remote'[n] = remote[n]
    BY <1>2, <1>3, <1>4 DEF Pruning
  <2>2. \A n \in Versions : Listed(g, n) => Listed(g, n)'
    BY <1>1, <1>2, <1>4 DEF Listed
  <2>3. op[g].at = "scan" => \A n \in op'[g].due : IsLive(Seen(g)', n)
    BY <1>1, <1>3, <1>5 DEF Pruning, Stands
  <2>4. op[g].at = "scan" => op[g].key.vs \subseteq Versions
    BY DEF Pruning, Listings
  <2> QED BY <1>1, <1>3, <1>5, <2>1, <2>2, <2>3, <2>4 DEF Pruning, Kept
<1>11. Cached(g)'
  BY <1>1, <1>5, OthersStand, CachedStays
<1> QED BY <1>6, <1>7, <1>8, <1>9, <1>10, <1>11

-----------------------------------------------------------------------------
(***************************************************************************)
(* The invariant of the host that takes the step.                          *)
(***************************************************************************)

\* The stages of a registration.
Registration == {"local", "claim", "write", "kind", "dedupe", "list", "gaveup"}

\* A process that moves no alias and prunes nothing.
LEMMA NoLog ==
    ASSUME NEW h \in Hosts, op'[h].at \in Registration \cup {"idle"}, op'[h].due = {}
    PROVE  Moving(h)' /\ Pruning(h)'
BY DEF Moving, Pruning, Registration

\* A process at rest.
LEMMA AtRest ==
    ASSUME NEW h \in Hosts, op'[h] = Idle
    PROVE  Work(h)' /\ Moving(h)' /\ Pruning(h)'
<1>1. /\ op'[h].at = "idle" /\ op'[h].due = {} /\ op'[h].slot = Header /\ op'[h].tries = 0
      /\ op'[h].floor = 0
  BY DEF Idle
<1>2. Work(h)'
  BY <1>1 DEF Work, Registering, Creating, Header
<1> QED BY <1>1, <1>2, NoLog

\* The copies of a host that leaves them alone, and creates nothing.
LEMMA CopiesStay ==
    ASSUME Typed, NEW h \in Hosts, NEW g \in Hosts, RemoteStep(g), Copies(h), ~Creating(h),
           crashed \subseteq crashed', \A n \in Versions : local'[h][n] = local[h][n]
    PROVE  Copies(h)'
<1>1. \A n \in Versions : n \in Slots BY DEF Slots
<1>2. \A n \in Versions : remote[n].st = "whole" => remote'[n] = remote[n]
  BY <1>1, RemoteStays
<1> QED BY <1>2 DEF Copies

\* Steps of a registration.
RegStep(h) == Register(h) \/ RegisterStep(h) \/ CreateFault(h)

\* A registration holds what it needs, from its header to its number.
LEMMA WorkStep ==
    ASSUME Typed, Returned, NEW h \in Hosts, Work(h), Pruning(h), RegStep(h)
    PROVE  Work(h)' /\ Moving(h)' /\ Pruning(h)'
<1>0. /\ op[h] \in OpType /\ op[h].slot \in Slots /\ op[h].slot \in Nat /\ op[h].tries \in Nat
      /\ op[h].floor \in {0} \cup Versions /\ Versions \subseteq Slots /\ Header \in Slots
      /\ op[h].tries \in 0 .. MaxTries /\ MaxTries \in Nat
  BY RegistryAssumption DEF Typed, OpType, Slots, Versions, Header
<1>1. HostStep(h) BY DEF RegStep, HostStep, Step
<1>2. /\ RemoteStep(h) /\ \A s \in Slots : remote[s].st # "free" => remote'[s].st # "free"
  BY <1>1, Records, RemoteStays
<1>3. op[h].floor # 0 => remote'[op[h].floor].st # "free"
  BY <1>0, <1>2 DEF Work
<1>4. op[h].at \notin {"scan", "delete"} => op[h].due = {}
  BY DEF Pruning
<1>5. CASE Register(h)
  <2>1. /\ op'[h].at = "local" /\ op'[h].kind \in Kinds /\ op'[h].run \in Runs
        /\ op'[h].slot = Header /\ op'[h].tries = 0 /\ op'[h].due = {}
        /\ op'[h].floor # 0 => remote[op'[h].floor].st # "free"
    BY <1>5, RegisterIs
  <2>2. remote' = remote BY <1>5 DEF Register, records
  <2>3. Work(h)' BY <2>1, <2>2 DEF Work, Registering, Creating, Header
  <2> QED BY <2>1, <2>3, NoLog DEF Registration
<1>6. CASE CreateLocal(h)
  <2>0. op[h].at = "local" BY <1>6 DEF CreateLocal
  <2>1. CASE local[h][op[h].slot].st # "free"
    <3>1. Collide(h) BY <1>6, <2>1 DEF CreateLocal
    <3>2. /\ op'[h].due = {} /\ op'[h].kind = op[h].kind /\ op'[h].run = op[h].run
          /\ op'[h].slot = op[h].slot /\ op'[h].floor = op[h].floor
          /\ \/ op[h].slot = Header /\ op'[h].at = "kind" /\ op'[h].tries = op[h].tries
             \/ op[h].slot # Header /\ op'[h].at = "list" /\ op'[h].tries = op[h].tries + 1
      BY <1>4, <2>0, <3>1, CollideIs
    <3>3. Work(h)'
      BY <1>0, <1>3, <2>0, <3>2 DEF Work, Registering, Creating, Header
    <3> QED BY <3>2, <3>3, NoLog DEF Registration
  <2>2. CASE local[h][op[h].slot].st = "free"
    <3>1. Go(h, "claim") /\ local' = [local EXCEPT ![h][op[h].slot] = Record("whole", Value(h), h)]
      BY <1>6, <2>2 DEF CreateLocal
    <3>2. op'[h].at = "claim" /\ Kept(h) /\ op'[h].due = {}
      BY <1>4, <2>0, <3>1, GoIs DEF Stages
    <3>3. Value(h)' = Value(h) BY <3>2 DEF Value, Kept
    <3>4. local'[h][op[h].slot] = Record("whole", Value(h), h)
      BY <1>0, <3>1 DEF Typed
    <3>5. Work(h)'
      BY <1>0, <1>3, <2>0, <3>2, <3>3, <3>4 DEF Work, Registering, Creating, Kept
    <3> QED BY <3>2, <3>5, NoLog DEF Registration
  <2> QED BY <2>1, <2>2
<1>7. CASE ClaimRemote(h)
  <2>0. op[h].at = "claim" BY <1>7 DEF ClaimRemote
  <2>1. CASE remote[op[h].slot].st # "free"
    <3>1. Collide(h) BY <1>7, <2>1 DEF ClaimRemote
    <3>2. /\ op'[h].due = {} /\ op'[h].kind = op[h].kind /\ op'[h].run = op[h].run
          /\ op'[h].slot = op[h].slot /\ op'[h].floor = op[h].floor
          /\ \/ op[h].slot = Header /\ op'[h].at = "kind" /\ op'[h].tries = op[h].tries
             \/ op[h].slot # Header /\ op'[h].at = "list" /\ op'[h].tries = op[h].tries + 1
      BY <1>4, <2>0, <3>1, CollideIs
    <3>3. Work(h)'
      BY <1>0, <1>3, <2>0, <3>2 DEF Work, Registering, Creating, Header
    <3> QED BY <3>2, <3>3, NoLog DEF Registration
  <2>2. CASE remote[op[h].slot].st = "free"
    <3>1. /\ Go(h, "write") /\ local' = local
          /\ remote' = [remote EXCEPT ![op[h].slot] = Record("claim", None, h)]
      BY <1>7, <2>2 DEF ClaimRemote
    <3>2. op'[h].at = "write" /\ Kept(h) /\ op'[h].due = {}
      BY <1>4, <2>0, <3>1, GoIs DEF Stages
    <3>3. Value(h)' = Value(h) BY <3>2 DEF Value, Kept
    <3>4. remote'[op[h].slot] = Record("claim", None, h)
      BY <1>0, <3>1 DEF Typed
    <3>5. Work(h)'
      BY <1>0, <1>3, <2>0, <3>1, <3>2, <3>3, <3>4 DEF Work, Registering, Creating, Kept
    <3> QED BY <3>2, <3>5, NoLog DEF Registration
  <2> QED BY <2>1, <2>2
<1>8. ASSUME op[h].at \in {"write", "kind"}, op[h].slot = Header, AfterHeader(h)
      PROVE  Work(h)' /\ Moving(h)' /\ Pruning(h)'
  <2>1. op'[h].at \in {"dedupe", "list"} /\ Kept(h) /\ op'[h].due = {}
    BY <1>4, <1>8, GoIs DEF AfterHeader, Stages
  <2>2. Work(h)'
    BY <1>0, <1>3, <1>8, <2>1 DEF Work, Registering, Creating, Kept, Header
  <2> QED BY <2>1, <2>2, NoLog DEF Registration
<1>9. CASE WriteRemote(h)
  BY <1>8, <1>9, AtRest, EndIs DEF WriteRemote
<1>10. CASE CreateFault(h)
  BY <1>10, AtRest, EndIs DEF CreateFault
<1>11. CASE CheckKind(h)
  BY <1>8, <1>11, AtRest, EndIs DEF CheckKind, Work
<1>12. CASE Dedupe(h)
  <2>1. End(h) \/ Go(h, "list") BY <1>12 DEF Dedupe
  <2>2. CASE End(h) BY <2>2, AtRest, EndIs
  <2>3. CASE Go(h, "list")
    <3>1. op'[h].at = "list" /\ Kept(h) /\ op'[h].due = {} /\ op[h].at = "dedupe"
      BY <1>4, <1>12, <2>3, GoIs DEF Dedupe, Stages
    <3>2. Work(h)'
      BY <1>0, <1>3, <3>1 DEF Work, Registering, Creating, Kept, Header
    <3> QED BY <3>1, <3>2, NoLog DEF Registration
  <2> QED BY <2>1, <2>2, <2>3
<1>13. CASE List(h)
  <2>0. op[h].at = "list" BY <1>13 DEF List
  <2>1. /\ op'[h].due = {} /\ op'[h].kind = op[h].kind /\ op'[h].run = op[h].run
        /\ op'[h].floor = op[h].floor /\ op'[h].tries = op[h].tries
        /\ \/ op'[h].at = "gaveup" /\ op'[h].slot = op[h].slot /\ op[h].tries = MaxTries
           \/ /\ op'[h].at = "local" /\ op'[h].slot = NextNumber(h)
              /\ op[h].tries # MaxTries /\ NextNumber(h) \in Versions
    BY <1>4, <1>13, <2>0, ListIs
  <2>2. /\ NextNumber(h) \in Nat \ {0} /\ NextNumber(h) > op[h].slot
        /\ op[h].floor # 0 => op[h].floor < NextNumber(h)
    BY <1>0, NextNumberIs DEF Work
  <2>3. Work(h)'
    BY <1>0, <1>3, <2>0, <2>1, <2>2 DEF Work, Registering, Creating, Header
  <2> QED BY <2>1, <2>3, NoLog DEF Registration
<1> QED BY <1>5, <1>6, <1>7, <1>9, <1>10, <1>11, <1>12, <1>13 DEF RegStep, RegisterStep

\* The copies of the host that registers: the one it creates becomes the
\* remote's, or is taken back.
LEMMA CopiesStep ==
    ASSUME Typed, Returned, NEW h \in Hosts, Work(h), Copies(h), RegStep(h)
    PROVE  Copies(h)'
<1> DEFINE s == op[h].slot
<1>0. /\ s \in Slots /\ Versions \subseteq Slots /\ Header \notin Versions
      /\ local \in [Hosts -> [Slots -> AnyRecord]] /\ remote \in [Slots -> AnyRecord]
  BY RegistryAssumption DEF Typed, OpType, Slots, Versions, Header
<1>1. HostStep(h) BY DEF RegStep, HostStep, Step
<1>2. RemoteStep(h) /\ crashed' = crashed
  <2>1. crashed' = crashed
    BY DEF RegStep, RegisterStep, Register, CreateLocal, ClaimRemote, WriteRemote, CreateFault,
           CheckKind, Dedupe, List
  <2> QED BY <1>1, <2>1, Records
<1>3. \A q \in Slots : remote[q].st = "whole" => remote'[q] = remote[q]
  BY <1>2, RemoteStays
<1>4. CASE Register(h) \/ CheckKind(h) \/ Dedupe(h) \/ List(h)
  <2>1. ~Creating(h) /\ local' = local
    BY <1>4 DEF Register, CheckKind, Dedupe, List, Creating, records
  <2> QED BY <1>2, <2>1, CopiesStay
<1>5. CASE CreateLocal(h)
  <2>0. ~Creating(h) BY <1>5 DEF CreateLocal, Creating
  <2>1. CASE local[h][s].st # "free"
    <3>1. local' = local BY <1>5, <2>1 DEF CreateLocal
    <3> QED BY <1>2, <2>0, <3>1, CopiesStay
  <2>2. CASE local[h][s].st = "free"
    <3>1. Go(h, "claim") /\ local' = [local EXCEPT ![h][s] = Record("whole", Value(h), h)]
      BY <1>5, <2>2 DEF CreateLocal
    <3>2. op'[h].at = "claim" /\ op'[h].slot = s
      BY <3>1, GoIs DEF Stages, Kept
    <3>3. \A n \in Versions : n # s => local'[h][n] = local[h][n]
      BY <1>0, <3>1
    <3> QED BY <1>0, <1>2, <1>3, <2>0, <3>2, <3>3 DEF Copies, Creating
  <2> QED BY <2>1, <2>2
<1>6. CASE ClaimRemote(h)
  <2>1. CASE remote[s].st # "free"
    <3>1. local' = [local EXCEPT ![h][s] = Free] BY <1>6, <2>1 DEF ClaimRemote
    <3>2. local'[h][s].st = "free" /\ \A n \in Versions : n # s => local'[h][n] = local[h][n]
      BY <1>0, <3>1 DEF Free
    <3> QED BY <1>0, <1>2, <1>3, <3>2 DEF Copies
  <2>2. CASE remote[s].st = "free"
    <3>1. Go(h, "write") /\ local' = local BY <1>6, <2>2 DEF ClaimRemote
    <3>2. op'[h].at = "write" /\ op'[h].slot = s
      BY <3>1, GoIs DEF Stages, Kept
    <3> QED BY <1>0, <1>2, <1>3, <3>1, <3>2 DEF Copies, Creating
  <2> QED BY <2>1, <2>2
<1>7. CASE WriteRemote(h)
  <2>1. /\ local' = local /\ op[h].at = "write"
        /\ remote' = [remote EXCEPT ![s] = Record("whole", Value(h), h)]
    BY <1>7 DEF WriteRemote
  <2>2. /\ local[h][s] = Record("whole", Value(h), h)
        /\ remote'[s] = local'[h][s] /\ remote'[s].st = "whole"
    BY <1>0, <2>1 DEF Work, Creating, Record
  <2> QED BY <1>0, <1>2, <1>3, <2>1, <2>2 DEF Copies
<1>8. CASE CreateFault(h)
  <2>1. local' = [local EXCEPT ![h][s] = Free] BY <1>8 DEF CreateFault
  <2>2. local'[h][s].st = "free" /\ \A n \in Versions : n # s => local'[h][n] = local[h][n]
    BY <1>0, <2>1 DEF Free
  <2> QED BY <1>0, <1>2, <1>3, <2>2 DEF Copies
<1> QED BY <1>4, <1>5, <1>6, <1>7, <1>8 DEF RegStep, RegisterStep

\* What was returned stays, and a number that is returned is the remote's.
LEMMA ReturnedStep ==
    ASSUME Typed, Returned, NEW h \in Hosts, Work(h), HostStep(h)
    PROVE  Returned' /\ regd' \subseteq [n : Versions, run : Runs, floor : {0} \cup Versions]
<1>0. /\ op[h].slot \in Slots /\ op[h].floor \in {0} \cup Versions /\ Versions \subseteq Slots
      /\ regd \subseteq [n : Versions, run : Runs, floor : {0} \cup Versions]
  BY DEF Typed, OpType, Slots
<1>1. \A s \in Slots : remote[s].st = "whole" => remote'[s] = remote[s]
  BY Records, RemoteStays
<1>2. \A x \in regd : remote'[x.n].st = "whole" /\ remote'[x.n].val = x.run /\ x.n > x.floor
  BY <1>0, <1>1 DEF Returned
<1>3. CASE regd' = regd
  BY <1>0, <1>2, <1>3 DEF Returned
<1>4. CASE WriteRemote(h) /\ op[h].slot # Header
  <2> DEFINE s == op[h].slot
             x == [n |-> s, run |-> op[h].run, floor |-> op[h].floor]
  <2>1. regd' = regd \cup {x} /\ remote' = [remote EXCEPT ![s] = Record("whole", Value(h), h)]
    BY <1>4 DEF WriteRemote
  <2>2. s \in Versions /\ op[h].run \in Runs /\ s > op[h].floor /\ Value(h) = op[h].run
    BY <1>0, <1>4, RegistryAssumption
       DEF WriteRemote, Work, Registering, Slots, Versions, Header, Value
  <2>3. remote'[s].st = "whole" /\ remote'[s].val = op[h].run
    BY <1>0, <2>1, <2>2 DEF Typed, Record
  <2>4. x.n = s /\ x.run = op[h].run /\ x.floor = op[h].floor
    OBVIOUS
  <2>5. x \in [n : Versions, run : Runs, floor : {0} \cup Versions]
    BY <1>0, <2>2
  <2> HIDE DEF x
  <2>6. Returned'
    BY <1>2, <2>1, <2>2, <2>3, <2>4 DEF Returned
  <2> QED BY <1>0, <2>1, <2>5, <2>6
<1> QED
  BY <1>3, <1>4
     DEF HostStep, Step, RegisterStep, Register, CreateLocal, ClaimRemote, WriteRemote,
         CreateFault, CheckKind, Dedupe, List, ReadLog, AppendEntry, Flush, FlushFault,
         PruneList, Scan, Delete, Crash

\* next_ts is after everything that was read.
LEMMA NextTsIs ==
    ASSUME Typed, NEW h \in Hosts, IsFiniteSet(op[h].saw), NEW now \in 0 .. MaxClock
    PROVE  NextTs(h, now) \in Nat /\ \A d \in op[h].saw : d.ts < NextTs(h, now)
<1> DEFINE S == op[h].saw
           T == {e.ts + 1 : e \in S}
           f == [e \in S |-> e.ts + 1]
<1>1. \A e \in S : e.ts \in Nat
  BY DEF Typed, OpType, EntryType
<1>2. f \in Surjection(S, T)
  BY DEF Surjection
<1>3. IsFiniteSet(T)
  BY <1>2, FS_Surjection
<1>4. IsFiniteSet({now} \cup T)
  <2>1. IsFiniteSet(T \cup {now}) BY <1>3, FS_AddElement
  <2>2. T \cup {now} = {now} \cup T OBVIOUS
  <2> QED BY <2>1, <2>2
<1>5. T \subseteq Nat /\ now \in Nat
  BY <1>1, RegistryAssumption
<1>6. \A d \in S : d.ts + 1 \in T
  OBVIOUS
<1> HIDE DEF T, f
<1>7. Max({now} \cup T) \in {now} \cup T /\ \A x \in {now} \cup T : x <= Max({now} \cup T)
  BY <1>4, <1>5, MaxIs
<1>8. NextTs(h, now) = Max({now} \cup T)
  BY DEF NextTs, T
<1>9. NextTs(h, now) \in Nat BY <1>5, <1>7, <1>8
<1>10. ASSUME NEW d \in S PROVE d.ts < NextTs(h, now)
  BY <1>1, <1>6, <1>7, <1>8, <1>9
<1> QED BY <1>9, <1>10

\* The entries a host has read of its own are all it has written.
LEMMA OwnEntries ==
    ASSUME Typed, \A g \in Hosts : Stream(g), NEW h \in Hosts
    PROVE  {e \in Seen(h) : e.w = h} = own[h] /\ {e \in own[h] : e.w = h} = own[h]
<1>1. \A e \in own[h] : e.w = h BY DEF Stream
<1>2. \A e \in sent : e.w = h => e \in own[h]
  BY DEF Typed, Stream
<1> QED BY <1>1, <1>2 DEF Seen

\* ReadLog.
LEMMA ReadLogInv ==
    ASSUME Typed, IsFiniteSet(sent), \A g \in Hosts : Stream(g), NEW h \in Hosts, ReadLog(h)
    PROVE  Work(h)' /\ Moving(h)' /\ Pruning(h)'
<1>1. /\ op'[h].at = "append" /\ op'[h].m \in Moves
      /\ op'[h].saw \in {Seen(h), own[h]} /\ op'[h].before = sent
      /\ ~op'[h].blind => op'[h].saw = Seen(h)
      /\ op'[h].slot = Header /\ op'[h].tries = 0 /\ op'[h].floor = 0 /\ op'[h].due = {}
  BY ReadLogIs
<1>2. own' = own BY DEF ReadLog, log
<1>3. IsFiniteSet(own[h]) /\ IsFiniteSet(Seen(h))
  BY FS_Union DEF Stream, Seen
<1>4. {e \in op'[h].saw : e.w = h} = own'[h]
  BY <1>1, <1>2, OwnEntries
<1>5. Moving(h)' BY <1>1, <1>3, <1>4 DEF Moving, Seen
<1>6. Work(h)' BY <1>1 DEF Work, Registering, Creating, Header
<1>7. Pruning(h)' BY <1>1 DEF Pruning
<1> QED BY <1>5, <1>6, <1>7

\* AppendEntry: the entry comes after all that the host read, and after all that
\* it wrote.
LEMMA AppendInv ==
    ASSUME Typed, NEW h \in Hosts, Work(h), Copies(h), Stream(h), Moving(h), Pruning(h),
           AppendEntry(h)
    PROVE  /\ Work(h)' /\ Copies(h)' /\ Stream(h)' /\ Moving(h)' /\ Pruning(h)'
           /\ own' \in [Hosts -> SUBSET EntryType]
<1>0. op[h].at = "append" /\ op[h] \in OpType /\ own \in [Hosts -> SUBSET EntryType]
      /\ Header \notin Versions /\ Versions \subseteq Slots /\ Header \in Slots
  BY DEF AppendEntry, Typed, Header, Versions, Slots
<1>1. RemoteStep(h) /\ crashed' = crashed /\ ~Creating(h)
  BY <1>0, Records DEF HostStep, Step, AppendEntry, Creating
<1>2. \A n \in Versions : local'[h][n] = local[h][n]
  BY <1>0 DEF AppendEntry, Typed
<1>3. Copies(h)' BY <1>1, <1>2, CopiesStay
<1>4. CASE own' = own /\ End(h)
  BY <1>0, <1>3, <1>4, AtRest, EndIs DEF Stream
<1>5. CASE ~(own' = own /\ End(h))
  <2>1. PICK now \in 0 .. MaxClock :
           own' = [own EXCEPT ![h] = @ \cup {[ts |-> NextTs(h, now), w |-> h,
                                              pos |-> WriterPos(h), m |-> op[h].m]}]
    BY <1>5 DEF AppendEntry
  <2> DEFINE e == [ts |-> NextTs(h, now), w |-> h, pos |-> WriterPos(h), m |-> op[h].m]
  <2>2. Go(h, "flush") BY <1>5 DEF AppendEntry
  <2>3. op'[h].at = "flush" /\ Kept(h) /\ op'[h].due = op[h].due
    BY <2>2, GoIs DEF Stages
  <2>4. IsFiniteSet(op[h].saw) /\ {d \in op[h].saw : d.w = h} = own[h] /\ op[h].m \in Moves
    BY <1>0 DEF Moving
  <2>5. WriterPos(h) = Cardinality(own[h]) /\ Cardinality(own[h]) \in Nat /\ IsFiniteSet(own[h])
    BY <2>4, FS_CardinalityType DEF WriterPos, Stream
  <2>6. NextTs(h, now) \in Nat /\ \A d \in op[h].saw : d.ts < NextTs(h, now)
    BY <2>4, NextTsIs
  <2>7. e.ts = NextTs(h, now) /\ e.w = h /\ e.pos = Cardinality(own[h]) /\ e.m = op[h].m
    BY <2>5
  <2>8. e \in EntryType
    BY <2>4, <2>5, <2>6 DEF EntryType
  <2> HIDE DEF e
  <2>9. own'[h] = own[h] \cup {e} /\ own' \in [Hosts -> SUBSET EntryType]
    BY <1>0, <2>1, <2>8 DEF e
  <2>10. e \notin own[h]
    BY <2>5, <2>7 DEF Stream
  <2>11. IsFiniteSet(own'[h]) /\ Cardinality(own'[h]) = Cardinality(own[h]) + 1
    <3>1. /\ IsFiniteSet(own[h] \cup {e})
          /\ Cardinality(own[h] \cup {e}) = IF e \in own[h] THEN Cardinality(own[h])
                                             ELSE Cardinality(own[h]) + 1
      BY <2>5, FS_AddElement
    <3> QED BY <2>9, <2>10, <3>1
  <2>12. \A d \in own[h] : d.pos \in Nat /\ d.pos < Cardinality(own[h]) /\ d.w = h
    BY <1>0 DEF Stream, EntryType
  <2>13. Stream(h)'
    <3>1. \A d \in own'[h] : d.w = h /\ d.pos < Cardinality(own'[h])
      BY <2>5, <2>7, <2>9, <2>11, <2>12
    <3>2. \A c, d \in own[h] : c.pos = d.pos => c = d
      BY DEF Stream
    <3>3. \A c, d \in own'[h] : c.pos = d.pos => c = d
      BY <2>5, <2>7, <2>9, <2>12, <3>2
    <3> QED BY <2>11, <3>1, <3>3 DEF Stream
  <2>14. own'[h] \ {e} \subseteq op[h].saw
    BY <2>4, <2>9
  <2>15. Moving(h)'
    BY <1>0, <2>3, <2>6, <2>7, <2>9, <2>14 DEF Moving, Kept
  <2>16. Work(h)'
    BY <1>0, <2>3 DEF Work, Kept, Registering, Creating, AppendEntry
  <2>17. Pruning(h)'
    BY <1>0, <2>3 DEF Pruning
  <2> QED BY <1>3, <2>9, <2>13, <2>15, <2>16, <2>17
<1> QED BY <1>4, <1>5

\* PruneList: what the prune must respect is listed and live; a cached answer has
\* it, since the log is the one that was scanned.
LEMMA PruneListInv ==
    ASSUME Typed, NEW h \in Hosts, Cached(h), PruneList(h)
    PROVE  Work(h)' /\ Moving(h)' /\ Pruning(h)'
<1>1. /\ op'[h].key = Listing(h) /\ Listing(h) \in Listings /\ op'[h].due = Due(h)
      /\ op'[h].run \in Runs /\ op'[h].slot = Header /\ op'[h].tries = 0 /\ op'[h].floor = 0
      /\ \/ op'[h].at = "scan"
         \/ /\ op'[h].at = "delete" /\ cache[h].key = Listing(h)
            /\ op'[h].refs = cache[h].refs /\ op'[h].blind = cache[h].blind
  BY PruneListIs
<1>2. remote' = remote /\ local' = local /\ Seen(h)' = Seen(h) /\ crashed' = crashed
  BY DEF PruneList, records, log, Seen
<1>3. Work(h)' BY <1>1 DEF Work, Registering, Creating, Header
<1>4. Moving(h)' BY <1>1 DEF Moving
<1>5. \A n \in Due(h) : /\ n \in Versions /\ remote[n].st = "whole" /\ Listed(h, n)
                        /\ IsLive(Seen(h), n)
  BY DEF Due, Listed
<1>6. /\ Listing(h).vs = {n \in Versions : Listed(h, n)} /\ Listing(h).log = Seen(h)
  BY DEF Listing
<1>7. \A n \in Versions : Listed(h, n)' = Listed(h, n)
  BY <1>2 DEF Listed
<1>8. ASSUME op'[h].at = "delete", ~op'[h].blind, h \notin crashed', op'[h].key.hdr,
             NEW n \in op'[h].due
      PROVE  remote'[n].val \in op'[h].refs
  <2>1. cache[h].key = Listing(h) /\ op'[h].refs = cache[h].refs /\ ~cache[h].blind
    BY <1>1, <1>8
  <2>2. cache[h] # NoCache
    BY <1>1, <2>1, NoneAssumption DEF NoCache
  <2>3. \A v \in cache[h].key.vs : IsLive(Seen(h), v) => remote[v].val \in cache[h].refs
    BY <1>1, <1>2, <1>6, <1>8, <2>1, <2>2 DEF Cached
  <2> QED BY <1>1, <1>2, <1>5, <1>6, <1>8, <2>1, <2>3
<1>9. Pruning(h)'
  BY <1>1, <1>2, <1>5, <1>6, <1>7, <1>8 DEF Pruning
<1> QED BY <1>3, <1>4, <1>9

\* Scan: of a host that was never killed, a version that is listed is the
\* remote's, so what is found is what the remote says.
LEMMA ScanInv ==
    ASSUME Typed, NEW h \in Hosts, Work(h), Copies(h), Pruning(h), Scan(h)
    PROVE  Work(h)' /\ Moving(h)' /\ Pruning(h)' /\ Cached(h)'
<1>0. op[h].at = "scan" /\ op[h].key \in Listings /\ ~Creating(h)
  BY DEF Scan, Pruning, Creating
<1>1. PICK es \in {Seen(h), own[h]}, blind \in BOOLEAN :
         /\ ~blind => es = Seen(h)
         /\ op'[h].at = "delete" /\ op'[h].blind = blind
         /\ op'[h].refs = ScanRefs(h, es)
         /\ op'[h].key = op[h].key /\ op'[h].due = op[h].due /\ op'[h].slot = op[h].slot
         /\ op'[h].tries = op[h].tries /\ op'[h].floor = op[h].floor
         /\ cache' = [cache EXCEPT ![h] =
                       [key |-> op[h].key, refs |-> ScanRefs(h, es), blind |-> blind]]
  BY ScanIs
<1>2. remote' = remote /\ local' = local /\ Seen(h)' = Seen(h) /\ crashed' = crashed
  BY DEF Scan, records, log, Seen
<1>3. Work(h)' BY <1>0, <1>1, <1>2 DEF Work, Registering, Creating, Header
<1>4. Moving(h)' BY <1>1 DEF Moving
<1>5. /\ op[h].key.vs \subseteq Versions /\ op[h].due \subseteq op[h].key.vs
      /\ op[h].key.log \subseteq Seen(h) /\ \A n \in op[h].key.vs : Listed(h, n)
      /\ \A n \in op[h].due : IsLive(Seen(h), n)
  BY <1>0 DEF Pruning, Listings
<1>6. ASSUME h \notin crashed, NEW n \in op[h].key.vs
      PROVE  remote[n].st = "whole" /\ Reads(h, n) = remote[n].val
  BY <1>0, <1>5, <1>6 DEF Copies, Listed, Reads
<1>7. ASSUME h \notin crashed, ~blind, op[h].key.hdr, NEW n \in op[h].key.vs, IsLive(Seen(h), n)
      PROVE  remote[n].val \in ScanRefs(h, es)
  BY <1>1, <1>6, <1>7 DEF ScanRefs
<1>8. Pruning(h)'
  BY <1>0, <1>1, <1>2, <1>5, <1>7 DEF Pruning
<1>9. Cached(h)'
  <2>1. cache'[h] = [key |-> op[h].key, refs |-> ScanRefs(h, es), blind |-> blind]
    BY <1>1 DEF Typed
  <2>2. cache'[h].key = op[h].key /\ cache'[h].refs = ScanRefs(h, es) /\ cache'[h].blind = blind
    BY <2>1
  <2> QED BY <1>0, <1>2, <1>5, <1>6, <1>7, <2>2 DEF Cached
<1> QED BY <1>3, <1>4, <1>8, <1>9

\* The parts of the invariant about the host that takes the step.
LEMMA OwnInv ==
    ASSUME IInv, NEW h \in Hosts, HostStep(h)
    PROVE  Work(h)' /\ Copies(h)' /\ Stream(h)' /\ Moving(h)' /\ Pruning(h)' /\ Cached(h)'
<1>0. /\ Typed /\ Returned /\ IsFiniteSet(sent) /\ \A g \in Hosts : Stream(g)
      /\ Work(h) /\ Copies(h) /\ Stream(h) /\ Moving(h) /\ Pruning(h) /\ Cached(h)
  BY DEF IInv
<1>1. RemoteStep(h) /\ crashed \subseteq crashed' /\ Seen(h) \subseteq Seen(h)'
  BY <1>0, Records, OthersStand DEF Seen
<1>2. cache' = cache => Cached(h)'
  BY <1>0, <1>1, CachedStays
<1>3. own' = own => Stream(h)'
  BY <1>0 DEF Stream
<1>4. ~Creating(h) /\ local' = local => Copies(h)'
  BY <1>0, <1>1, CopiesStay
<1>5. CASE RegStep(h)
  <2>1. own' = own /\ cache' = cache
    BY <1>5 DEF RegStep, RegisterStep, Register, CreateLocal, ClaimRemote, WriteRemote,
                CreateFault, CheckKind, Dedupe, List, log
  <2> QED BY <1>0, <1>2, <1>3, <1>5, <2>1, WorkStep, CopiesStep
<1>6. CASE ReadLog(h)
  <2>1. own' = own /\ cache' = cache /\ local' = local /\ ~Creating(h)
    BY <1>6 DEF ReadLog, log, records, Creating
  <2> QED BY <1>0, <1>2, <1>3, <1>4, <1>6, <2>1, ReadLogInv
<1>7. CASE AppendEntry(h)
  <2>1. cache' = cache BY <1>7 DEF AppendEntry
  <2> QED BY <1>0, <1>2, <1>7, <2>1, AppendInv
<1>8. CASE Flush(h) \/ FlushFault(h)
  <2>1. own' = own /\ cache' = cache /\ local' = local /\ ~Creating(h)
    BY <1>8 DEF Flush, FlushFault, records, Creating
  <2> QED BY <1>0, <1>2, <1>3, <1>4, <1>8, <2>1, AtRest, FlushIs
<1>9. CASE PruneList(h)
  <2>1. own' = own /\ cache' = cache /\ local' = local /\ ~Creating(h)
    BY <1>9 DEF PruneList, log, records, Creating
  <2> QED BY <1>0, <1>2, <1>3, <1>4, <1>9, <2>1, PruneListInv
<1>10. CASE Scan(h)
  <2>1. own' = own /\ local' = local /\ ~Creating(h)
    BY <1>10 DEF Scan, log, records, Creating
  <2> QED BY <1>0, <1>3, <1>4, <1>10, <2>1, ScanInv
<1>11. CASE Delete(h)
  <2>1. own' = own /\ cache' = cache /\ local' = local /\ ~Creating(h) /\ End(h)
    BY <1>11 DEF Delete, log, records, Creating
  <2> QED BY <1>0, <1>2, <1>3, <1>4, <2>1, AtRest, EndIs
<1>12. CASE Crash(h)
  <2>1. own' = own /\ End(h) /\ h \in crashed' /\ cache' = [cache EXCEPT ![h] = NoCache]
    BY <1>12 DEF Crash, log
  <2>2. Copies(h)' BY <2>1 DEF Copies
  <2>3. Cached(h)' BY <1>0, <2>1 DEF Cached, Typed
  <2> QED BY <1>0, <1>3, <2>1, <2>2, <2>3, AtRest, EndIs
<1> QED BY <1>5, <1>6, <1>7, <1>8, <1>9, <1>10, <1>11, <1>12 DEF HostStep, Step, RegStep

\* The bounds stay bounds.
LEMMA LeftStep ==
    ASSUME Typed, NEW h \in Hosts, HostStep(h)
    PROVE  left' \in [{"ops", "failures"} -> Nat]
<1> DEFINE B == {"ops", "failures"}
<1>0. left \in [B -> Nat] BY DEF Typed
<1>1. ASSUME NEW b \in B, Spend(b) PROVE left' \in [B -> Nat]
  BY <1>0, <1>1 DEF Spend
<1>2. CASE left' = left BY <1>0, <1>2
<1>3. ASSUME left.ops > 0,
             \/ left' = [left EXCEPT !.ops = @ - 1]
             \/ left.failures > 0 /\ left' = [left EXCEPT !.ops = @ - 1, !.failures = @ - 1]
      PROVE  left' \in [B -> Nat]
  <2>1. left.ops \in Nat /\ left.failures \in Nat BY <1>0
  <2>2. CASE left' = [left EXCEPT !.ops = @ - 1]
    <3>1. left.ops - 1 \in Nat BY <1>3, <2>1
    <3> QED BY <1>0, <2>2, <3>1
  <2>3. CASE left.failures > 0 /\ left' = [left EXCEPT !.ops = @ - 1, !.failures = @ - 1]
    <3>1. left.ops - 1 \in Nat /\ left.failures - 1 \in Nat BY <1>3, <2>1, <2>3
    <3>2. left' = [b \in B |-> left[b] - 1] BY <1>0, <2>3
    <3> QED BY <3>1, <3>2
  <2> QED BY <1>3, <2>2, <2>3
<1>4. CASE Register(h) \/ PruneList(h) BY <1>1, <1>4 DEF Register, PruneList
<1>5. CASE CreateFault(h) \/ FlushFault(h) \/ Crash(h)
  BY <1>1, <1>5 DEF CreateFault, FlushFault, Crash
<1>6. CASE Dedupe(h) \/ Scan(h) BY <1>1, <1>2, <1>6 DEF Dedupe, Scan, Read
<1>7. CASE ReadLog(h) BY <1>3, <1>7 DEF ReadLog
<1>8. CASE \/ CreateLocal(h) \/ ClaimRemote(h) \/ WriteRemote(h) \/ CheckKind(h) \/ List(h)
           \/ AppendEntry(h) \/ Flush(h) \/ Delete(h)
  BY <1>2, <1>8
     DEF CreateLocal, ClaimRemote, WriteRemote, CheckKind, List, AppendEntry, Flush, Delete
<1> QED BY <1>4, <1>5, <1>6, <1>7, <1>8 DEF HostStep, Step, RegisterStep

\* The log: what is shipped was written, and there is finitely much of it.
LEMMA LogStep ==
    ASSUME IInv, NEW h \in Hosts, HostStep(h)
    PROVE  /\ own' \in [Hosts -> SUBSET EntryType] /\ sent' \subseteq EntryType
           /\ sent' \subseteq UNION {own'[g] : g \in Hosts} /\ IsFiniteSet(sent')
<1>0. /\ Typed /\ IsFiniteSet(sent) /\ IsFiniteSet(own[h])
      /\ Work(h) /\ Copies(h) /\ Stream(h) /\ Moving(h) /\ Pruning(h)
  BY DEF IInv, Stream
<1>1. own' \in [Hosts -> SUBSET EntryType]
  <2>1. CASE AppendEntry(h) BY <1>0, <2>1, AppendInv
  <2>2. CASE ~AppendEntry(h)
    <3>1. own' = own
      BY <2>2 DEF HostStep, Step, RegisterStep, Register, CreateLocal, ClaimRemote, WriteRemote,
            CreateFault, CheckKind, Dedupe, List, ReadLog, Flush, FlushFault, PruneList, Scan,
            Delete, Crash, log
    <3> QED BY <1>0, <3>1 DEF Typed
  <2> QED BY <2>1, <2>2
<1>2. (sent' = sent \/ sent' = sent \cup own[h]) /\ \A g \in Hosts : own[g] \subseteq own'[g]
  BY <1>0, OthersStand
<1>3. sent \subseteq EntryType /\ own[h] \subseteq EntryType
      /\ \A e \in sent : \E g \in Hosts : e \in own[g]
  BY <1>0 DEF Typed
<1>4. \A e \in sent' : \E g \in Hosts : e \in own'[g]
  BY <1>2, <1>3
<1>5. IsFiniteSet(sent') BY <1>0, <1>2, FS_Union
<1> QED BY <1>1, <1>2, <1>3, <1>4, <1>5

\* The types, over a step.
LEMMA TypedStep ==
    ASSUME IInv, NEW h \in Hosts, HostStep(h)
    PROVE  Typed'
<1>0. Typed /\ Returned /\ Work(h) /\ Pruning(h) BY DEF IInv
<1>1. /\ remote' \in [Slots -> AnyRecord] /\ local' \in [Hosts -> [Slots -> AnyRecord]]
      /\ \A s \in Slots : remote'[s] \in RecType(s) /\ \A g \in Hosts : local'[g][s] \in RecType(s)
  BY <1>0, Records
<1>2. op' \in [Hosts -> OpType] BY <1>0, Processes
<1>3. regd' \subseteq [n : Versions, run : Runs, floor : {0} \cup Versions]
  BY <1>0, ReturnedStep
<1>4. runs' \subseteq Runs
  <2>1. runs' \subseteq runs
    BY DEF HostStep, Step, RegisterStep, Register, CreateLocal, ClaimRemote, WriteRemote,
           CreateFault, CheckKind, Dedupe, List, ReadLog, AppendEntry, Flush, FlushFault,
           PruneList, Scan, Delete, Crash
  <2> QED BY <1>0, <2>1 DEF Typed
<1>5. crashed' \subseteq Hosts
  <2>1. crashed' \subseteq crashed \cup {h}
    BY DEF HostStep, Step, RegisterStep, Register, CreateLocal, ClaimRemote, WriteRemote,
           CreateFault, CheckKind, Dedupe, List, ReadLog, AppendEntry, Flush, FlushFault,
           PruneList, Scan, Delete, Crash
  <2> QED BY <1>0, <2>1 DEF Typed
<1> DEFINE C == [key : {None} \cup Listings, refs : SUBSET Runs, blind : BOOLEAN]
<1>6. cache' \in [Hosts -> C]
  <2>0. cache \in [Hosts -> C] BY <1>0 DEF Typed
  <2>1. CASE Scan(h)
    <3>1. PICK es \in {Seen(h), own[h]}, blind \in BOOLEAN :
             /\ ScanRefs(h, es) \subseteq Runs
             /\ cache' = [cache EXCEPT ![h] =
                            [key |-> op[h].key, refs |-> ScanRefs(h, es), blind |-> blind]]
      BY <1>0, <2>1, ScanIs
    <3>2. op[h].key \in {None} \cup Listings BY <1>0 DEF Typed, OpType
    <3>3. [key |-> op[h].key, refs |-> ScanRefs(h, es), blind |-> blind] \in C
      BY <3>1, <3>2
    <3> QED BY <2>0, <3>1, <3>3
  <2>2. CASE Crash(h)
    <3>1. NoCache \in C BY DEF NoCache
    <3> QED BY <2>0, <2>2, <3>1 DEF Crash
  <2>3. CASE ~(Scan(h) \/ Crash(h))
    <3>1. cache' = cache
      BY <2>3 DEF HostStep, Step, RegisterStep, Register, CreateLocal, ClaimRemote, WriteRemote,
            CreateFault, CheckKind, Dedupe, List, ReadLog, AppendEntry, Flush, FlushFault,
            PruneList, Delete
    <3> QED BY <2>0, <3>1
  <2> QED BY <2>1, <2>2, <2>3
<1> QED BY <1>1, <1>2, <1>3, <1>4, <1>5, <1>6, LogStep, LeftStep, <1>0 DEF Typed

\* The invariant holds at the start.
LEMMA InitInv ==
    ASSUME Init
    PROVE  IInv
<1>1. Typed
  <2>1. \A s \in Slots : Free \in RecType(s) /\ Free \in AnyRecord
    BY DEF RecType, RecordOf, Free, AnyRecord
  <2>2. NoCache \in [key : {None} \cup Listings, refs : SUBSET Runs, blind : BOOLEAN]
    BY DEF NoCache
  <2>3. left \in [{"ops", "failures"} -> Nat]
    BY RegistryAssumption DEF Init
  <2>4. remote \in [Slots -> AnyRecord] /\ local \in [Hosts -> [Slots -> AnyRecord]]
        /\ \A s \in Slots : remote[s] = Free /\ \A h \in Hosts : local[h][s] = Free
    BY <2>1 DEF Init
  <2> QED BY <2>1, <2>2, <2>3, <2>4, IdleType DEF Init, Typed
<1>2. ASSUME NEW h \in Hosts
      PROVE  Work(h) /\ Copies(h) /\ Stream(h) /\ Moving(h) /\ Pruning(h) /\ Cached(h)
  <2>1. /\ op[h].at = "idle" /\ op[h].due = {} /\ op[h].slot = Header /\ op[h].tries = 0
        /\ op[h].floor = 0
    BY DEF Init, Idle
  <2>2. Work(h) BY <2>1 DEF Work, Registering, Creating, Header
  <2>3. Copies(h)
    <3>1. \A n \in Versions : local[h][n].st = "free" BY DEF Init, Slots, Free
    <3> QED BY <3>1 DEF Copies
  <2>4. Stream(h) BY FS_EmptySet DEF Init, Stream
  <2>5. Moving(h) /\ Pruning(h) BY <2>1 DEF Moving, Pruning
  <2>6. Cached(h) BY DEF Init, Cached
  <2> QED BY <2>2, <2>3, <2>4, <2>5, <2>6
<1>3. Returned /\ IsFiniteSet(sent) BY FS_EmptySet DEF Init, Returned
<1> QED BY <1>1, <1>2, <1>3 DEF IInv

\* Every step keeps the invariant.
LEMMA StepInv ==
    ASSUME IInv, [Next]_vars
    PROVE  IInv'
<1>1. CASE UNCHANGED vars
  <2>0. /\ remote' = remote /\ local' = local /\ sent' = sent /\ own' = own /\ runs' = runs
        /\ cache' = cache /\ op' = op /\ regd' = regd /\ crashed' = crashed /\ left' = left
    BY <1>1 DEF vars
  <2>1. Typed' BY <2>0 DEF IInv, Typed
  <2>2. Returned' BY <2>0 DEF IInv, Returned
  <2>3. ASSUME NEW h \in Hosts
        PROVE  Work(h)' /\ Copies(h)' /\ Stream(h)' /\ Moving(h)' /\ Pruning(h)' /\ Cached(h)'
    <3>0. Work(h) /\ Copies(h) /\ Stream(h) /\ Moving(h) /\ Pruning(h) /\ Cached(h)
      BY DEF IInv
    <3>1. Work(h)' BY <2>0, <3>0 DEF Work, Registering, Creating, Value
    <3>2. Copies(h)' BY <2>0, <3>0 DEF Copies, Creating
    <3>3. Stream(h)' BY <2>0, <3>0 DEF Stream
    <3>4. Moving(h)' BY <2>0, <3>0 DEF Moving
    <3>5. Seen(h)' = Seen(h) /\ \A n : Listed(h, n)' = Listed(h, n)
      BY <2>0 DEF Seen, Listed
    <3>6. Pruning(h)' BY <2>0, <3>0, <3>5 DEF Pruning
    <3>7. Cached(h)' BY <2>0, <3>0, <3>5 DEF Cached
    <3> QED BY <3>1, <3>2, <3>3, <3>4, <3>6, <3>7
  <2> QED BY <2>0, <2>1, <2>2, <2>3 DEF IInv
<1>2. CASE Next
  <2>1. PICK h \in Hosts : HostStep(h) BY <1>2 DEF Next, HostStep
  <2>2. ASSUME NEW g \in Hosts
        PROVE  Work(g)' /\ Copies(g)' /\ Stream(g)' /\ Moving(g)' /\ Pruning(g)' /\ Cached(g)'
    <3>1. CASE g = h BY <2>1, <3>1, OwnInv
    <3>2. CASE g # h BY <2>1, <3>2, OthersInv DEF IInv
    <3> QED BY <3>1, <3>2
  <2>3. Returned' BY <2>1, ReturnedStep DEF IInv
  <2> QED BY <2>1, <2>2, <2>3, TypedStep, LogStep DEF IInv
<1> QED BY <1>1, <1>2

\* The inductive invariant.
THEOREM Invariance == Spec => []IInv
BY InitInv, StepInv, PTL DEF Spec

-----------------------------------------------------------------------------
(***************************************************************************)
(* The properties.                                                         *)
(***************************************************************************)

\* Type correctness of the records, the log, the processes and the caches.
THEOREM TypeCorrect == Spec => []TypeOK
<1>1. ASSUME IInv PROVE TypeOK
  <2>1. Typed BY <1>1 DEF IInv
  <2>2. \A c \in {remote} \cup {local[h] : h \in Hosts} :
           DOMAIN c = Slots /\ \A s \in Slots : c[s] \in RecType(s)
    BY <2>1 DEF Typed
  <2>3. \A h \in Hosts : /\ op[h] \in OpType
                         /\ cache[h].refs \subseteq Runs
    BY <2>1 DEF Typed
  <2> QED BY <2>1, <2>2, <2>3 DEF Typed, TypeOK, OpType, RecType
<1> QED BY <1>1, Invariance, PTL

\* A version number that was returned names one run for good: the conditional put
\* of create_exclusive decides, and the local copy is the remote's.
THEOREM OneRunPerVersionAlways == Spec => []OneRunPerVersion
<1>1. ASSUME IInv PROVE OneRunPerVersion
  <2>1. Typed /\ Returned /\ \A h \in Hosts : Copies(h) BY <1>1 DEF IInv
  <2>2. \A x, y \in regd : x.n = y.n => x.run = y.run BY <2>1 DEF Returned
  <2>3. ASSUME NEW x \in regd, NEW h \in Hosts, op[h].slot # x.n, h \notin crashed
        PROVE  Reads(h, x.n) = x.run
    <3>1. x.n \in Versions /\ remote[x.n].st = "whole" /\ remote[x.n].val = x.run
      BY <2>1 DEF Typed, Returned
    <3>2. local[h][x.n].st = "whole" => local[h][x.n] = remote[x.n]
      BY <2>1, <2>3, <3>1 DEF Copies
    <3> QED BY <3>1, <3>2 DEF Reads
  <2> QED BY <2>1, <2>2, <2>3 DEF OneRunPerVersion, Returned
<1> QED BY <1>1, Invariance, PTL

\* A registration gets a number above all that were returned before it began
\* (next_version lists the claims too).
THEOREM NumbersGrowAlways == Spec => []NumbersGrow
<1>1. IInv => NumbersGrow BY DEF IInv, Returned, NumbersGrow
<1> QED BY <1>1, Invariance, PTL

\* A registration that loses a number goes on above it, so it runs out of its
\* retries only when more versions than retries are there: never, as long as the
\* model has fewer versions than _MAX_REGISTER_RETRIES.
THEOREM NeverGivesUpAlways ==
    ASSUME MaxVersions < MaxTries
    PROVE  Spec => []NeverGivesUp
<1>1. ASSUME IInv PROVE NeverGivesUp
  <2>1. \A h \in Hosts : op[h].slot \in 0 .. MaxVersions
    BY <1>1, RegistryAssumption DEF IInv, Typed, OpType, Slots, Header, Versions
  <2>2. \A h \in Hosts : op[h].at = "gaveup" => MaxTries <= op[h].slot
    BY <1>1 DEF IInv, Work
  <2> QED BY <2>1, <2>2, RegistryAssumption DEF NeverGivesUp
<1> QED BY <1>1, Invariance, PTL

\* The order of the fold is total on all that was ever written, whatever the
\* clocks show: two entries of one writer differ in their place in its stream.
THEOREM KeysUniqueAlways == Spec => []KeysUnique
<1>1. ASSUME IInv PROVE KeysUnique
  <2>1. Typed /\ \A h \in Hosts : Stream(h) BY <1>1 DEF IInv
  <2>2. ASSUME NEW g \in Hosts, NEW h \in Hosts, NEW d \in own[g], NEW e \in own[h], d # e
        PROVE  Before(d, e) \/ Before(e, d)
    <3>1. d.ts \in Nat /\ e.ts \in Nat /\ d.pos \in Nat /\ e.pos \in Nat
      BY <2>1 DEF Typed, EntryType
    <3>2. d.w = g /\ e.w = h /\ g \in Nat /\ h \in Nat
      BY <2>1, RegistryAssumption DEF Stream
    <3>3. g = h => d.pos # e.pos
      BY <2>1, <2>2 DEF Stream
    <3> QED BY <3>1, <3>2, <3>3 DEF Before
  <2> QED BY <2>2 DEF KeysUnique
<1> QED BY <1>1, Invariance, PTL

\* What the fold gives for a key, when one entry of it is later than all others.
LEMMA FoldIs ==
    ASSUME NEW es, NEW t, NEW k, NEW without, NEW e \in es, e.m.t = t, e.m.k = k, e.ts \in Nat,
           e.w \in Nat, e.pos \in Nat,
           \A d \in es : d.m.t = t /\ d.m.k = k /\ d # e => d.ts \in Nat /\ d.ts < e.ts
    PROVE  Fold(es, t, k, without) = e.m.v
<1> DEFINE about == {d \in es : d.m.t = t /\ d.m.k = k}
<1>1. e \in about OBVIOUS
<1>2. \A d \in about : ~Before(e, d) BY DEF Before
<1>3. \A d \in about : d # e => Before(d, e) BY DEF Before
<1> HIDE DEF about
<1> DEFINE x == CHOOSE x \in about : \A d \in about : ~Before(x, d)
<1>4. x \in about /\ \A d \in about : ~Before(x, d) BY <1>1, <1>2
<1>5. x = e BY <1>1, <1>3, <1>4
<1>6. Fold(es, t, k, without) = x.m.v BY <1>1 DEF Fold, about
<1> HIDE DEF x
<1> QED BY <1>5, <1>6

\* When a move returns, it is what every reader of the remote sees, unless an
\* entry that was not there when the move read the log beats it: next_ts is after
\* all that was read, however far the clock is behind.
THEOREM MoveTakesEffectAlways == Spec => MoveTakesEffect
<1> DEFINE Effect(h) ==
              (op[h].at = "flush" /\ Flush(h) /\ ~op[h].blind /\ Holds(h)) =>
                 \/ Fold(sent', op[h].m.t, op[h].m.k, AnyVersion) = op[h].m.v
                 \/ \E e \in sent' \ op[h].before :
                       e.m.t = op[h].m.t /\ e.m.k = op[h].m.k /\ e.w # h
<1>1. ASSUME IInv, NEW h \in Hosts PROVE Effect(h)
  <2>1. SUFFICES ASSUME op[h].at = "flush", Flush(h), ~op[h].blind, Holds(h),
                        \A e \in sent' \ op[h].before :
                           e.m.t = op[h].m.t /\ e.m.k = op[h].m.k => e.w = h
                 PROVE  Fold(sent', op[h].m.t, op[h].m.k, AnyVersion) = op[h].m.v
    OBVIOUS
  <2>2. Typed /\ \A g \in Hosts : Stream(g) /\ Moving(g) BY <1>1 DEF IInv
  <2>3. sent' = sent \cup own[h] BY <2>1 DEF Flush, Ship
  <2>4. op[h].before \subseteq op[h].saw BY <2>1, <2>2 DEF Moving
  <2>5. PICK e \in own[h] : /\ e.m = op[h].m
                            /\ own[h] \ {e} \subseteq op[h].saw
                            /\ \A d \in op[h].saw : d.ts < e.ts
    BY <2>1, <2>2 DEF Moving
  <2>6. e.ts \in Nat /\ e.pos \in Nat /\ e.w = h /\ e.w \in Nat
    BY <2>2, RegistryAssumption DEF Typed, EntryType, Stream
  <2>7. \A d \in sent' : d.w = h => d \in own[h]
    BY <2>2, <2>3 DEF Typed, Stream
  <2>8. \A d \in op[h].saw : d.ts \in Nat
    BY <2>2 DEF Typed, OpType, EntryType
  <2>9. \A d \in sent' : d.m.t = op[h].m.t /\ d.m.k = op[h].m.k /\ d # e =>
                            d.ts \in Nat /\ d.ts < e.ts
    BY <2>1, <2>4, <2>5, <2>7, <2>8
  <2>10. e \in sent' /\ e.m.t = op[h].m.t /\ e.m.k = op[h].m.k BY <2>3, <2>5
  <2>11. Fold(sent', op[h].m.t, op[h].m.k, AnyVersion) = e.m.v
    BY <2>6, <2>9, <2>10, FoldIs
  <2> QED BY <2>5, <2>11
<1>2. IInv => [\A h \in Hosts : Effect(h)]_vars BY <1>1
<1> QED BY <1>2, Invariance, PTL DEF MoveTakesEffect

\* A prune never deletes a run that a live version named all along since it began
\* (_live_versions, _run_models), from the scan or from the cache.
THEOREM PruneSparesAlways == Spec => PruneSpares
<1> DEFINE Spared ==
              \A r \in runs \ runs' : \E h \in Hosts :
                 /\ op[h].at = "delete" /\ op[h].run = r
                 /\ \/ op[h].blind \/ h \in crashed \/ ~op[h].key.hdr
                    \/ \A n \in op[h].due : remote[n].val # r
<1>1. ASSUME IInv, Next PROVE Spared
  <2>1. SUFFICES ASSUME NEW r \in runs \ runs'
                 PROVE  \E h \in Hosts :
                           /\ op[h].at = "delete" /\ op[h].run = r
                           /\ \/ op[h].blind \/ h \in crashed \/ ~op[h].key.hdr
                              \/ \A n \in op[h].due : remote[n].val # r
    OBVIOUS
  <2>2. PICK h \in Hosts : HostStep(h) BY <1>1 DEF Next, HostStep
  <2>3. op[h].at = "delete" /\ op[h].run = r /\ r \notin op[h].refs
    <3>1. runs' # runs BY <2>1
    <3>2. Delete(h)
      BY <2>2, <3>1
         DEF HostStep, Step, RegisterStep, Register, CreateLocal, ClaimRemote, WriteRemote,
             CreateFault, CheckKind, Dedupe, List, ReadLog, AppendEntry, Flush, FlushFault,
             PruneList, Scan, Crash
    <3> QED BY <2>1, <3>1, <3>2 DEF Delete
  <2>4. Pruning(h) BY <1>1 DEF IInv
  <2> QED BY <2>3, <2>4 DEF Pruning
<1>2. IInv /\ [Next]_vars => [Spared]_vars BY <1>1
<1> QED BY <1>2, Invariance, PTL DEF PruneSpares, Spec
=============================================================================
