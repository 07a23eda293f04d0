------------------------- MODULE SweepClaimsProofs --------------------------
(****************************************************************************)
(* For every number of agents, hosts, trials and retries, with or without a *)
(* remote, and whatever fails: a slot has one owner, and keeps it.          *)
(*                                                                          *)
(* The invariant is about the side that is shared: a slot won by an agent   *)
(* is on it (OwnedIsTaken), so a second claim of it is refused; and a claim *)
(* is taken back only when the shared side is not the side it is taken back *)
(* on (Sided), so no undo frees a slot that is owned.  And where no agent   *)
(* was killed, no trial is passed over (CInv).                              *)
(****************************************************************************)
EXTENDS SweepClaims, TLAPS

\* A stage that touches a side is reached only where the storage has it.
Sided(a) ==
    /\ pc[a] = "local" => HasLocal
    /\ pc[a] \in {"remote", "undo", "fail"} => HasRemote

\* Holds the properties and what makes them inductive.
IInv == TypeOK /\ OneOwner /\ OwnedIsTaken /\ \A a \in Agents : Sided(a)

\* The initial state satisfies the invariant.
LEMMA InitIInv == Init => IInv
BY SweepAssumption
   DEF Init, IInv, TypeOK, Stages, Slots, OneOwner, OwnedIsTaken, Sided

\* What a choice of slots does to one agent: nothing that is owned changes, and
\* a stage that touches a side is entered only where there is such a side.
LEMMA Choosing ==
    ASSUME IInv, NEW a \in Agents,
           ReadRows(a) \/ TryRetry(a) \/ NoRetry(a) \/ List(a) \/ GiveUp(a)
               \/ CreateRun(a) \/ EndTrial(a) \/ Die(a)
    PROVE  IInv'
<1>0. TypeOK /\ (\A b \in Agents : Sided(b)) /\ OneOwner /\ OwnedIsTaken
  BY DEF IInv
<1> USE SweepAssumption
<1>1. own' = own /\ slots' = slots
  BY DEF ReadRows, TryRetry, NoRetry, List, GiveUp, CreateRun, EndTrial, Die
<1>2. OneOwner' /\ OwnedIsTaken'
  BY <1>0, <1>1 DEF OneOwner, OwnedIsTaken, SharedOf
<1>3. /\ \E at \in Stages : pc' = [pc EXCEPT ![a] = at]
      /\ pc'[a] = "local" => HasLocal
      /\ pc'[a] \in {"remote", "undo", "fail"} => HasRemote
  <2>1. CASE ReadRows(a) BY <2>1, <1>0 DEF ReadRows, Go, Stages, TypeOK
  <2>2. CASE TryRetry(a) BY <2>2, <1>0 DEF TryRetry, Go, Stages, TypeOK
  <2>3. CASE NoRetry(a)  BY <2>3, <1>0 DEF NoRetry, Go, Stages, TypeOK
  <2>4. CASE List(a)     BY <2>4, <1>0 DEF List, Go, Stages, TypeOK
  <2>5. CASE GiveUp(a)   BY <2>5, <1>0 DEF GiveUp, Go, Stages, TypeOK
  <2>6. CASE CreateRun(a) BY <2>6, <1>0 DEF CreateRun, Go, Stages, TypeOK
  <2>7. CASE EndTrial(a) BY <2>7, <1>0 DEF EndTrial, Go, Stages, TypeOK
  <2>8. CASE Die(a)      BY <2>8, <1>0 DEF Die, Go, Stages, TypeOK
  <2> QED BY <2>1, <2>2, <2>3, <2>4, <2>5, <2>6, <2>7, <2>8
<1>4. \A b \in Agents : Sided(b)'
  BY <1>0, <1>3 DEF Sided, TypeOK
<1>5. TypeOK'
  <2>1. pc' \in [Agents -> Stages] BY <1>0, <1>3 DEF TypeOK
  <2>2. todo' \in [Agents -> SUBSET Slots]
    <3>1. CASE ReadRows(a)
      <4>1. PICK rows \in SUBSET Retryable :
               todo' = [todo EXCEPT ![a] = {NextAttempt(r) : r \in rows}]
        BY <3>1 DEF ReadRows
      <4>2. \A r \in rows : NextAttempt(r) \in Slots
        BY <1>0 DEF Retryable, TypeOK, NextAttempt, Slots
      <4> QED BY <4>1, <4>2, <1>0 DEF TypeOK
    <3>2. CASE TryRetry(a) BY <3>2, <1>0 DEF TryRetry, TypeOK
    <3>3. CASE ~ReadRows(a) /\ ~TryRetry(a)
      BY <3>3, <1>0 DEF NoRetry, List, GiveUp, CreateRun, EndTrial, Die, TypeOK
    <3> QED BY <3>1, <3>2, <3>3
  <2>3. n' \in [Agents -> Nat] /\ tries' \in [Agents -> Nat]
    BY <1>0 DEF ReadRows, TryRetry, NoRetry, List, GiveUp, CreateRun, EndTrial, Die,
                TypeOK
  <2>4. slot' \in [Agents -> Slots]
    <3>1. CASE TryRetry(a) BY <3>1, <1>0 DEF TryRetry, TypeOK
    <3>2. CASE List(a)     BY <3>2, <1>0 DEF List, TypeOK, Slots
    <3>3. CASE ~TryRetry(a) /\ ~List(a)
      BY <3>3, <1>0 DEF ReadRows, NoRetry, GiveUp, CreateRun, EndTrial, Die, TypeOK
    <3> QED BY <3>1, <3>2, <3>3
  <2>5. runs' \in SUBSET [slot : Slots, status : {"running", "succeeded", "failed"}]
    <3>1. slot[a] \in Slots BY <1>0 DEF TypeOK
    <3>2. CASE CreateRun(a) BY <3>1, <3>2, <1>0 DEF CreateRun, TypeOK
    <3>3. CASE EndTrial(a)  BY <3>1, <3>3, <1>0 DEF EndTrial, TypeOK
    <3>4. CASE ~CreateRun(a) /\ ~EndTrial(a)
      BY <3>4, <1>0 DEF ReadRows, TryRetry, NoRetry, List, GiveUp, Die, TypeOK
    <3> QED BY <3>2, <3>3, <3>4
  <2>6. faults' \in Nat
    BY <1>0 DEF ReadRows, TryRetry, NoRetry, List, GiveUp, CreateRun, EndTrial, Die,
                TypeOK
  <2> QED BY <1>0, <1>1, <2>1, <2>2, <2>3, <2>4, <2>5, <2>6 DEF TypeOK
<1> QED BY <1>2, <1>4, <1>5 DEF IInv

\* A claim that is won: the slot was on no side that is shared, so nobody owned
\* it, and it is there now.
LEMMA Winning ==
    ASSUME IInv, NEW a \in Agents,
           slot[a] \notin slots[SharedOf(a)],
           slots' = [slots EXCEPT ![SharedOf(a)] = @ \cup {slot[a]}],
           own' = [own EXCEPT ![a] = @ \cup {slot[a]}]
    PROVE  /\ OneOwner' /\ OwnedIsTaken'
           /\ own' \in [Agents -> SUBSET Slots]
<1>0. TypeOK /\ OneOwner /\ OwnedIsTaken
  BY DEF IInv
<1>1. /\ own \in [Agents -> SUBSET Slots] /\ slot[a] \in Slots
      /\ slots \in [Sides -> SUBSET Slots]
  BY <1>0 DEF TypeOK
<1>2. \A b \in Agents : SharedOf(b) = SharedOf(a) /\ SharedOf(b) \in Sides
  BY SweepAssumption DEF SharedOf, Sides
<1>3. \A b \in Agents : slot[a] \notin own[b]
  BY <1>0, <1>2 DEF OwnedIsTaken
<1>4. \A b \in Agents : own'[b] = IF b = a THEN own[a] \cup {slot[a]} ELSE own[b]
  BY <1>1
<1>5. OneOwner'
  BY <1>0, <1>3, <1>4 DEF OneOwner
<1>6. OwnedIsTaken'
  <2> SUFFICES ASSUME NEW b \in Agents PROVE own'[b] \subseteq slots'[SharedOf(b)]
    BY DEF OwnedIsTaken, SharedOf
  <2>1. slots'[SharedOf(b)] = slots[SharedOf(b)] \cup {slot[a]}
    BY <1>1, <1>2
  <2> QED BY <1>0, <1>4, <2>1 DEF OwnedIsTaken
<1>7. own' \in [Agents -> SUBSET Slots]
  BY <1>1
<1> QED BY <1>5, <1>6, <1>7

\* A claim that is lost, undone or only local yet: what is owned stays on the
\* shared side.
LEMMA Keeping ==
    ASSUME IInv, own' = own,
           \A b \in Agents : slots[SharedOf(b)] \subseteq slots'[SharedOf(b)]
    PROVE  OneOwner' /\ OwnedIsTaken'
BY DEF IInv, OneOwner, OwnedIsTaken, SharedOf

\* A step of create_exclusive.
LEMMA Claiming ==
    ASSUME IInv, NEW a \in Agents,
           ClaimLocal(a) \/ ClaimRemote(a) \/ ClaimFault(a) \/ Undo(a)
    PROVE  IInv'
<1>0. TypeOK /\ (\A b \in Agents : Sided(b))
  BY DEF IInv
<1>1. /\ slots \in [Sides -> SUBSET Slots] /\ slot[a] \in Slots
      /\ own \in [Agents -> SUBSET Slots] /\ pc \in [Agents -> Stages]
      /\ n \in [Agents -> Nat] /\ slot[a][1] + 1 \in Nat
  BY <1>0 DEF TypeOK, Slots
<1>2. /\ Remote \in Sides /\ HostOf[a] \in Sides /\ HostOf[a] # Remote
      /\ \A b \in Agents : SharedOf(b) = IF HasRemote THEN Remote ELSE HostOf[a]
  BY SweepAssumption DEF Sides, SharedOf
<1>3. todo' = todo /\ tries' = tries /\ slot' = slot /\ runs' = runs
  BY DEF ClaimLocal, ClaimRemote, ClaimFault, Undo
<1>4. faults' \in Nat
  BY <1>0 DEF ClaimLocal, ClaimRemote, ClaimFault, Undo, TypeOK
<1>5. /\ \E at \in Stages : pc' = [pc EXCEPT ![a] = at]
      /\ pc'[a] = "local" => HasLocal
      /\ pc'[a] \in {"remote", "undo", "fail"} => HasRemote
  BY <1>0, <1>1 DEF ClaimLocal, ClaimRemote, ClaimFault, Undo, LoseTo, Win, Go, Stages, Sided
<1>6. n' \in [Agents -> Nat]
  BY <1>1 DEF ClaimLocal, ClaimRemote, ClaimFault, Undo, LoseTo
<1>7. slots' \in [Sides -> SUBSET Slots]
  <2>1. CASE ClaimLocal(a)  BY <2>1, <1>1 DEF ClaimLocal
  <2>2. CASE ClaimRemote(a) BY <2>2, <1>1 DEF ClaimRemote
  <2>3. CASE ClaimFault(a)  BY <2>3, <1>1 DEF ClaimFault
  <2>4. CASE Undo(a)        BY <2>4, <1>1 DEF Undo
  <2> QED BY <2>1, <2>2, <2>3, <2>4
<1>8. OneOwner' /\ OwnedIsTaken' /\ own' \in [Agents -> SUBSET Slots]
  <2>1. CASE ClaimLocal(a)
    <3>1. CASE slot[a] \in slots[HostOf[a]]
      BY <2>1, <3>1, <1>1, Keeping DEF ClaimLocal
    <3>2. CASE slot[a] \notin slots[HostOf[a]] /\ HasRemote
      <4>1. own' = own /\ slots'[Remote] = slots[Remote]
        BY <2>1, <3>2, <1>1, <1>2 DEF ClaimLocal
      <4> QED BY <4>1, <3>2, <1>1, <1>2, Keeping
    <3>3. CASE slot[a] \notin slots[HostOf[a]] /\ ~HasRemote
      <4>1. SharedOf(a) = HostOf[a] BY <3>3, <1>2
      <4> QED BY <2>1, <3>3, <4>1, Winning DEF ClaimLocal, Win
    <3> QED BY <3>1, <3>2, <3>3
  <2>2. CASE ClaimRemote(a)
    <3>0. HasRemote /\ SharedOf(a) = Remote
      BY <2>2, <1>0, <1>2 DEF ClaimRemote, Sided
    <3>1. CASE slot[a] \in slots[Remote]
      BY <2>2, <3>1, <1>1, Keeping DEF ClaimRemote
    <3>2. CASE slot[a] \notin slots[Remote]
      BY <2>2, <3>0, <3>2, Winning DEF ClaimRemote, Win
    <3> QED BY <3>1, <3>2
  <2>3. CASE ClaimFault(a)
    <3>1. own' = own /\ slots[Remote] \subseteq slots'[Remote] /\ HasRemote
      BY <2>3, <1>0, <1>1, <1>2 DEF ClaimFault, Sided
    <3> QED BY <3>1, <1>1, <1>2, Keeping
  <2>4. CASE Undo(a)
    <3>1. own' = own /\ slots'[Remote] = slots[Remote] /\ HasRemote
      BY <2>4, <1>0, <1>1, <1>2 DEF Undo, Sided
    <3> QED BY <3>1, <1>1, <1>2, Keeping
  <2> QED BY <2>1, <2>2, <2>3, <2>4
<1>9. TypeOK'
  <2>1. pc' \in [Agents -> Stages] BY <1>1, <1>5
  <2> QED BY <1>0, <1>3, <1>4, <1>6, <1>7, <1>8, <2>1 DEF TypeOK
<1>10. \A b \in Agents : Sided(b)'
  BY <1>0, <1>1, <1>5 DEF Sided
<1> QED BY <1>8, <1>9, <1>10 DEF IInv

\* Every step of every agent keeps the invariant.
THEOREM Invariance == Spec => []IInv
<1>1. Init => IInv
  BY InitIInv
<1>2. IInv /\ [Next]_vars => IInv'
  <2> SUFFICES ASSUME IInv, [Next]_vars PROVE IInv'
    OBVIOUS
  <2>1. CASE Next
    <3>1. PICK a \in Agents : Step(a) \/ ClaimFault(a) \/ Die(a)
      BY <2>1 DEF Next
    <3> QED BY <3>1, Choosing, Claiming DEF Step
  <2>2. CASE UNCHANGED vars
    BY <2>2 DEF vars, IInv, TypeOK, OneOwner, OwnedIsTaken, Sided, SharedOf
  <2> QED BY <2>1, <2>2
<1> QED BY <1>1, <1>2, PTL DEF Spec

\* "Exactly one agent owns trial N" (claims.py), for any number of agents and
\* whatever remote calls fail.
THEOREM OneOwnerAlways == Spec => []OneOwner
BY Invariance, PTL DEF IInv

\* No undo of create_exclusive frees a slot another agent owns.
THEOREM OwnedStaysTaken == Spec => []OwnedIsTaken
BY Invariance, PTL DEF IInv

\* TypeOK, of every behaviour.
THEOREM TypeCorrect == Spec => []TypeOK
BY Invariance, PTL DEF IInv

-----------------------------------------------------------------------------
(****************************************************************************)
(* claim_next_trial never tries an index twice.  A round that loses goes    *)
(* on after the index it lost, so the index is never behind the count of    *)
(* rounds; a retry's claim is not one of those rounds, and has lost none.   *)
(****************************************************************************)

\* An agent that is claiming slot[a], whichever side it is on.
Trying(a) == pc[a] \in {"local", "remote", "undo"}

\* The index is not behind the rounds.
Rounds(a) ==
    /\ \A s \in todo[a] : s[2] > 0
    /\ pc[a] = "retry" => tries[a] = 0
    /\ Trying(a) /\ slot[a][2] > 0 => tries[a] = 0
    /\ Trying(a) /\ slot[a][2] = 0 => slot[a][1] + 1 >= tries[a]
    /\ pc[a] = "list" => n[a] >= tries[a]
    /\ pc[a] = "raised" => n[a] >= MaxTries

\* A step of one agent leaves what the others hold in their hands alone.
LEMMA OthersStand ==
    ASSUME TypeOK, NEW a \in Agents, Step(a) \/ ClaimFault(a) \/ Die(a),
           NEW b \in Agents, b # a
    PROVE  /\ pc'[b] = pc[b] /\ todo'[b] = todo[b] /\ slot'[b] = slot[b]
           /\ n'[b] = n[b] /\ tries'[b] = tries[b] /\ own'[b] = own[b]
<1>1. /\ pc \in [Agents -> Stages] /\ n \in [Agents -> Nat] /\ tries \in [Agents -> Nat]
      /\ todo \in [Agents -> SUBSET Slots] /\ slot \in [Agents -> Slots]
      /\ own \in [Agents -> SUBSET Slots]
  BY DEF TypeOK
<1>2. CASE ReadRows(a)    BY <1>1, <1>2 DEF ReadRows, Go
<1>3. CASE TryRetry(a)    BY <1>1, <1>3 DEF TryRetry, Go
<1>4. CASE NoRetry(a)     BY <1>1, <1>4 DEF NoRetry, Go
<1>5. CASE List(a)        BY <1>1, <1>5 DEF List, Go
<1>6. CASE GiveUp(a)      BY <1>1, <1>6 DEF GiveUp, Go
<1>7. CASE ClaimLocal(a)  BY <1>1, <1>7 DEF ClaimLocal, LoseTo, Win, Go
<1>8. CASE ClaimRemote(a) BY <1>1, <1>8 DEF ClaimRemote, LoseTo, Win, Go
<1>9. CASE ClaimFault(a)  BY <1>1, <1>9 DEF ClaimFault, Go
<1>10. CASE Undo(a)       BY <1>1, <1>10 DEF Undo, LoseTo, Go
<1>11. CASE CreateRun(a)  BY <1>1, <1>11 DEF CreateRun, Go
<1>12. CASE EndTrial(a)   BY <1>1, <1>12 DEF EndTrial, Go
<1>13. CASE Die(a)        BY <1>1, <1>13 DEF Die, Go
<1> QED BY <1>2, <1>3, <1>4, <1>5, <1>6, <1>7, <1>8, <1>9, <1>10, <1>11, <1>12, <1>13
        DEF Step

\* A step of the agent itself keeps its index level with its rounds.
LEMMA RoundsStep ==
    ASSUME TypeOK, NEW a \in Agents, Rounds(a), Step(a) \/ ClaimFault(a) \/ Die(a)
    PROVE  Rounds(a)'
<1>1. /\ pc \in [Agents -> Stages] /\ n \in [Agents -> Nat] /\ tries \in [Agents -> Nat]
      /\ todo \in [Agents -> SUBSET Slots] /\ slot \in [Agents -> Nat \X Nat]
      /\ MaxTries \in Nat
  BY SweepAssumption DEF TypeOK, Slots
<1>2. CASE ReadRows(a)
  <2>1. PICK rows \in SUBSET Retryable :
           todo' = [todo EXCEPT ![a] = {NextAttempt(r) : r \in rows}]
    BY <1>2 DEF ReadRows
  <2>2. \A r \in rows : r.slot \in Nat \X Nat
    BY DEF Retryable, TypeOK, Slots
  <2>3. \A s \in todo'[a] : s[2] > 0
    BY <1>1, <2>1, <2>2 DEF NextAttempt
  <2>4. pc'[a] = "retry" /\ tries'[a] = 0
    BY <1>1, <1>2 DEF ReadRows, Go
  <2> QED BY <2>3, <2>4 DEF Rounds, Trying
<1>3. CASE TryRetry(a)
  <2>1. PICK s \in todo[a] : /\ slot' = [slot EXCEPT ![a] = s]
                             /\ todo' = [todo EXCEPT ![a] = @ \ {s}]
    BY <1>3 DEF TryRetry
  <2>2. pc'[a] \in {"local", "remote"} /\ tries' = tries /\ pc[a] = "retry"
    BY <1>1, <1>3 DEF TryRetry, Go
  <2>3. slot'[a] = s /\ todo'[a] \subseteq todo[a]
    BY <1>1, <2>1
  <2>4. s[2] > 0 /\ ~(s[2] = 0) /\ tries'[a] = 0 /\ \A q \in todo'[a] : q[2] > 0
    BY <2>2, <2>3 DEF Rounds
  <2> QED BY <2>2, <2>3, <2>4 DEF Rounds
<1>4. CASE NoRetry(a) BY <1>1, <1>4 DEF NoRetry, Go, Rounds, Trying
<1>5. CASE List(a)
  <2>1. PICK k \in 0 .. Limit :
           /\ k >= n[a]
           /\ n' = [n EXCEPT ![a] = k]
           /\ \/ Go(a, "exhausted")
              \/ /\ slot' = [slot EXCEPT ![a] = <<k, 0>>]
                 /\ Go(a, IF HasLocal THEN "local" ELSE "remote")
    BY <1>5 DEF List, After
  <2>2. n[a] >= tries[a] /\ tries'[a] = tries[a] + 1 /\ todo' = todo
    BY <1>1, <1>5 DEF List, Rounds
  <2>3. k + 1 >= tries'[a]
    BY <1>1, <2>1, <2>2, SweepAssumption
  <2>4. CASE Go(a, "exhausted")
    BY <1>1, <2>2, <2>4 DEF Go, Rounds, Trying
  <2>5. CASE slot' = [slot EXCEPT ![a] = <<k, 0>>] /\ Go(a, IF HasLocal THEN "local" ELSE "remote")
    <3>1. slot'[a] = <<k, 0>> /\ pc'[a] \in {"local", "remote"}
      BY <1>1, <2>5 DEF Go
    <3> QED BY <2>2, <2>3, <3>1 DEF Rounds, Trying
  <2> QED BY <2>1, <2>4, <2>5
<1>6. CASE GiveUp(a) BY <1>1, <1>6 DEF GiveUp, Go, Rounds, Trying
<1>7. CASE ClaimLocal(a) \/ ClaimRemote(a) \/ Undo(a) \/ ClaimFault(a)
  <2>1. tries' = tries /\ slot' = slot /\ todo' = todo
    BY <1>7 DEF ClaimLocal, ClaimRemote, Undo, ClaimFault
  <2>2. \/ Trying(a) /\ pc'[a] \in {"remote", "undo"}
        \/ pc'[a] \in {"claimed", "fail", "dead"}
        \/ Trying(a) /\ LoseTo(a)
    BY <1>1, <1>7 DEF ClaimLocal, ClaimRemote, Undo, ClaimFault, Win, Go, Trying
  <2>3. CASE Trying(a) /\ pc'[a] \in {"remote", "undo"}
    BY <2>1, <2>3 DEF Rounds, Trying
  <2>4. CASE pc'[a] \in {"claimed", "fail", "dead"}
    BY <2>1, <2>4 DEF Rounds, Trying
  <2>5. CASE Trying(a) /\ LoseTo(a)
    <3>1. slot[a][1] \in Nat /\ slot[a][2] \in Nat BY <1>1
    <3>2. CASE slot[a][2] = 0
      <4>1. n'[a] = slot[a][1] + 1 /\ pc'[a] = "list"
        BY <1>1, <2>5, <3>2 DEF LoseTo, Go
      <4> QED BY <2>1, <2>5, <3>2, <4>1 DEF Rounds, Trying
    <3>3. CASE slot[a][2] > 0
      <4>1. pc'[a] = "retry" /\ tries[a] = 0
        BY <1>1, <2>5, <3>3 DEF LoseTo, Go, Rounds
      <4> QED BY <2>1, <4>1 DEF Rounds, Trying
    <3> QED BY <3>1, <3>2, <3>3
  <2> QED BY <2>2, <2>3, <2>4, <2>5
<1>8. CASE CreateRun(a) \/ EndTrial(a) \/ Die(a)
  <2>1. /\ pc'[a] \in {"running", "dead", "idle", "left"}
        /\ todo' = todo
    BY <1>1, <1>8 DEF CreateRun, EndTrial, Die, Go
  <2> QED BY <2>1 DEF Rounds, Trying
<1> QED BY <1>2, <1>3, <1>4, <1>5, <1>6, <1>7, <1>8 DEF Step

\* "Never retry an index already lost" (claim_next_trial): it raises only after
\* losing _MAX_ATTEMPTS different indices, for any number of agents and any lag
\* of the listings.
THEOREM GivesUpOnlyLate == Spec => []NeverGivesUp
<1> DEFINE All == \A a \in Agents : Rounds(a)
<1>1. Init => All
  BY SweepAssumption DEF Init, Rounds, Trying
<1>2. TypeOK /\ All /\ [Next]_vars => All'
  <2> SUFFICES ASSUME TypeOK, All, [Next]_vars, NEW b \in Agents PROVE Rounds(b)'
    OBVIOUS
  <2>1. CASE Next
    <3>1. PICK a \in Agents : Step(a) \/ ClaimFault(a) \/ Die(a)
      BY <2>1 DEF Next
    <3>2. CASE b = a BY <3>1, <3>2, RoundsStep
    <3>3. CASE b # a BY <3>1, <3>3, OthersStand DEF Rounds, Trying
    <3> QED BY <3>2, <3>3
  <2>2. CASE UNCHANGED vars
    BY <2>2 DEF vars, Rounds, Trying
  <2> QED BY <2>1, <2>2
<1>3. All => NeverGivesUp
  BY DEF Rounds, NeverGivesUp
<1> QED BY <1>1, <1>2, <1>3, TypeCorrect, PTL DEF Spec

-----------------------------------------------------------------------------
(****************************************************************************)
(* A run belongs to a slot that its agent won, and only to that: the claim  *)
(* of a slot that has a run is refused, since that slot is owned and so is  *)
(* taken (IInv).                                                            *)
(****************************************************************************)

\* The slots that have a run.
RunSlots == {r.slot : r \in runs}

\* A slot that may be claimed: of a trial of the sweep, and a retry only of an
\* attempt that was made.
Claimable(s) == s[1] < Limit /\ (s[2] > 0 => <<s[1], s[2] - 1>> \in RunSlots)

\* Where an agent stands with respect to the runs.
Attached(a) ==
    /\ \A s \in todo[a] : Claimable(s)
    /\ Trying(a) \/ pc[a] \in {"claimed", "running"} => Claimable(slot[a])
    /\ pc[a] \in {"claimed", "running"} => slot[a] \in own[a]
    /\ pc[a] = "claimed" => slot[a] \notin RunSlots
    /\ pc[a] = "running" => [slot |-> slot[a], status |-> "running"] \in runs

\* RunsAreClaimed, and what makes it inductive.
RInv == RunsAreClaimed /\ \A a \in Agents : Attached(a)

\* What a step does to the runs: their slots stay, and a run that runs is ended
\* by its agent only.
LEMMA AttachedOthers ==
    ASSUME IInv, NEW a \in Agents, Attached(a), Step(a) \/ ClaimFault(a) \/ Die(a),
           NEW b \in Agents, b # a, Attached(b)
    PROVE  Attached(b)'
<1>0. TypeOK /\ OneOwner BY DEF IInv
<1>1. /\ pc'[b] = pc[b] /\ todo'[b] = todo[b] /\ slot'[b] = slot[b] /\ own'[b] = own[b]
  BY <1>0, OthersStand
<1>2. CASE runs' = runs
  BY <1>1, <1>2 DEF Attached, Trying, Claimable, RunSlots
<1>3. CASE CreateRun(a) /\ runs' = runs \cup {[slot |-> slot[a], status |-> "running"]}
  <2>1. \A s : s \in RunSlots' <=> s \in RunSlots \/ s = slot[a]
    <3>1. [slot |-> slot[a], status |-> "running"].slot = slot[a] OBVIOUS
    <3> QED BY <1>3, <3>1 DEF RunSlots
  <2>2. slot[a] \in own[a]
    BY <1>3 DEF CreateRun, Attached
  <2>3. pc[b] = "claimed" => slot[b] # slot[a]
    BY <1>0, <2>2 DEF OneOwner, Attached
  <2> QED BY <1>1, <1>3, <2>1, <2>3 DEF Attached, Trying, Claimable
<1>4. CASE EndTrial(a)
  <2>1. PICK status \in {"succeeded", "failed"} :
           runs' = (runs \ {[slot |-> slot[a], status |-> "running"]})
                      \cup {[slot |-> slot[a], status |-> status]}
    BY <1>4 DEF EndTrial
  <2>2. slot[a] \in own[a] /\ slot[a] \in RunSlots
    BY <1>4 DEF EndTrial, Attached, RunSlots
  <2>3. \A s : s \in RunSlots' <=> s \in RunSlots
    <3>1. [slot |-> slot[a], status |-> "running"].slot = slot[a]
          /\ [slot |-> slot[a], status |-> status].slot = slot[a]
      OBVIOUS
    <3> QED BY <2>1, <2>2, <3>1 DEF RunSlots
  <2>4. pc[b] = "running" => slot[b] # slot[a]
    BY <1>0, <2>2 DEF OneOwner, Attached
  <2>5. pc[b] = "running" => [slot |-> slot[b], status |-> "running"] \in runs'
    BY <2>1, <2>4 DEF Attached
  <2> QED BY <1>1, <2>3, <2>5 DEF Attached, Trying, Claimable
<1> QED
  BY <1>2, <1>3, <1>4
     DEF Step, ReadRows, TryRetry, NoRetry, List, GiveUp, ClaimLocal, ClaimRemote, Undo,
         ClaimFault, CreateRun, EndTrial, Die

\* The slots an agent picks have a right to be claimed; the one it wins has no
\* run; the run it makes is the only one of its slot.
LEMMA AttachedStep ==
    ASSUME IInv, RInv, NEW a \in Agents, Step(a) \/ ClaimFault(a) \/ Die(a)
    PROVE  Attached(a)'
<1>0. TypeOK /\ OneOwner /\ OwnedIsTaken /\ Attached(a) /\ RunsAreClaimed /\ Sided(a)
  BY DEF IInv, RInv
<1>1. /\ pc \in [Agents -> Stages] /\ todo \in [Agents -> SUBSET Slots]
      /\ slot \in [Agents -> Nat \X Nat] /\ own \in [Agents -> SUBSET Slots]
      /\ Limit \in Nat
  BY <1>0, SweepAssumption DEF TypeOK, Slots
<1>2. CASE ReadRows(a)
  <2>1. PICK rows \in SUBSET Retryable :
           todo' = [todo EXCEPT ![a] = {NextAttempt(r) : r \in rows}]
    BY <1>2 DEF ReadRows
  <2>2. runs' = runs /\ RunSlots' = RunSlots
    BY <1>2 DEF ReadRows, RunSlots
  <2>3. ASSUME NEW r \in rows PROVE Claimable(NextAttempt(r))
    <3>1. r \in runs /\ r.slot \in Nat \X Nat /\ r.slot[1] < Limit
      BY <1>0 DEF Retryable, TypeOK, Slots, RunsAreClaimed
    <3>2. r.slot = <<r.slot[1], r.slot[2] + 1 - 1>> /\ r.slot \in RunSlots
      BY <3>1 DEF RunSlots
    <3> QED BY <3>1, <3>2 DEF NextAttempt, Claimable
  <2>4. \A s \in todo'[a] : Claimable(s)'
    BY <1>1, <2>1, <2>2, <2>3 DEF Claimable
  <2>5. pc'[a] = "retry"
    BY <1>1, <1>2 DEF ReadRows, Go
  <2> QED BY <2>4, <2>5 DEF Attached, Trying
<1>3. CASE TryRetry(a)
  <2>1. PICK s \in todo[a] : /\ slot' = [slot EXCEPT ![a] = s]
                             /\ todo' = [todo EXCEPT ![a] = @ \ {s}]
    BY <1>3 DEF TryRetry
  <2>2. pc'[a] \in {"local", "remote"} /\ RunSlots' = RunSlots
    BY <1>1, <1>3 DEF TryRetry, Go, RunSlots
  <2>3. slot'[a] = s /\ todo'[a] \subseteq todo[a]
    BY <1>1, <2>1
  <2>4. Claimable(s)' /\ \A q \in todo'[a] : Claimable(q)'
    BY <1>0, <2>2, <2>3 DEF Attached, Claimable
  <2> QED BY <2>2, <2>3, <2>4 DEF Attached, Claimable
<1>4. CASE NoRetry(a) \/ GiveUp(a) \/ Die(a)
  <2>1. /\ pc'[a] \in {"list", "raised", "dead"} /\ todo' = todo /\ RunSlots' = RunSlots
    BY <1>1, <1>4 DEF NoRetry, GiveUp, Die, Go, RunSlots
  <2> QED BY <1>0, <2>1 DEF Attached, Trying, Claimable
<1>5. CASE List(a)
  <2>1. PICK k \in 0 .. Limit :
           \/ Go(a, "exhausted")
           \/ /\ k < Limit
              /\ slot' = [slot EXCEPT ![a] = <<k, 0>>]
              /\ Go(a, IF HasLocal THEN "local" ELSE "remote")
    BY <1>5 DEF List
  <2>2. todo' = todo /\ RunSlots' = RunSlots
    BY <1>5 DEF List, RunSlots
  <2>3. CASE Go(a, "exhausted")
    BY <1>0, <1>1, <2>2, <2>3 DEF Go, Attached, Trying, Claimable
  <2>4. CASE /\ k < Limit
             /\ slot' = [slot EXCEPT ![a] = <<k, 0>>]
             /\ Go(a, IF HasLocal THEN "local" ELSE "remote")
    <3>1. slot'[a] = <<k, 0>> /\ pc'[a] \in {"local", "remote"} /\ Claimable(<<k, 0>>)'
      BY <1>1, <2>4 DEF Go, Claimable
    <3> QED BY <1>0, <2>2, <3>1 DEF Attached, Claimable
  <2> QED BY <2>1, <2>3, <2>4
<1>6. CASE ClaimLocal(a) \/ ClaimRemote(a) \/ Undo(a) \/ ClaimFault(a)
  <2>1. slot' = slot /\ todo' = todo /\ runs' = runs /\ RunSlots' = RunSlots
    BY <1>6 DEF ClaimLocal, ClaimRemote, Undo, ClaimFault, RunSlots
  <2>2. \/ pc'[a] \in {"list", "retry", "fail", "dead"}
        \/ Trying(a) /\ pc'[a] \in {"remote", "undo"}
        \/ Trying(a) /\ Win(a) /\ slot[a] \notin slots[SharedOf(a)]
    <3>1. CASE ClaimLocal(a)
      BY <1>0, <1>1, <3>1 DEF ClaimLocal, LoseTo, Win, Go, Trying, SharedOf
    <3>2. CASE ClaimRemote(a)
      BY <1>0, <1>1, <3>2 DEF ClaimRemote, LoseTo, Win, Go, Trying, SharedOf, Sided
    <3>3. CASE Undo(a) \/ ClaimFault(a)
      BY <1>1, <3>3 DEF Undo, ClaimFault, LoseTo, Go
    <3> QED BY <1>6, <3>1, <3>2, <3>3
  <2>3. CASE pc'[a] \in {"list", "retry", "fail", "dead"}
    BY <1>0, <2>1, <2>3 DEF Attached, Trying, Claimable
  <2>4. CASE Trying(a) /\ pc'[a] \in {"remote", "undo"}
    BY <1>0, <2>1, <2>4 DEF Attached, Trying, Claimable
  <2>5. CASE Trying(a) /\ Win(a) /\ slot[a] \notin slots[SharedOf(a)]
    <3>1. pc'[a] = "claimed" /\ slot[a] \in own'[a]
      BY <1>1, <2>5 DEF Win, Go
    <3>2. \A b \in Agents : SharedOf(b) = SharedOf(a)
      BY SweepAssumption DEF SharedOf
    <3>3. \A b \in Agents : slot[a] \notin own[b]
      BY <1>0, <2>5, <3>2 DEF OwnedIsTaken
    <3>4. slot[a] \notin RunSlots
      BY <1>0, <3>3 DEF RunsAreClaimed, RunSlots
    <3> QED BY <1>0, <2>1, <2>5, <3>1, <3>4 DEF Attached, Claimable
  <2> QED BY <2>2, <2>3, <2>4, <2>5
<1>7. CASE CreateRun(a)
  <2>1. slot' = slot /\ todo' = todo /\ own' = own /\ RunSlots \subseteq RunSlots'
    BY <1>7 DEF CreateRun, RunSlots
  <2>2. \/ pc'[a] = "running" /\ [slot |-> slot[a], status |-> "running"] \in runs'
        \/ pc'[a] = "dead"
    BY <1>1, <1>7 DEF CreateRun, Go
  <2>3. \A s : Claimable(s) => Claimable(s)'
    BY <2>1 DEF Claimable
  <2>4. pc[a] = "claimed" BY <1>7 DEF CreateRun
  <2> QED BY <1>0, <2>1, <2>2, <2>3, <2>4 DEF Attached, Trying
<1>8. CASE EndTrial(a)
  <2>0. PICK status \in {"succeeded", "failed"} :
           runs' = (runs \ {[slot |-> slot[a], status |-> "running"]})
                      \cup {[slot |-> slot[a], status |-> status]}
    BY <1>8 DEF EndTrial
  <2>1. todo' = todo /\ RunSlots \subseteq RunSlots'
    <3>1. [slot |-> slot[a], status |-> "running"].slot = slot[a]
          /\ [slot |-> slot[a], status |-> status].slot = slot[a]
      OBVIOUS
    <3> QED BY <1>8, <2>0, <3>1 DEF EndTrial, RunSlots
  <2>2. pc'[a] \in {"idle", "left"}
    BY <1>1, <1>8 DEF EndTrial, Go
  <2>3. \A s : Claimable(s) => Claimable(s)'
    BY <2>1 DEF Claimable
  <2> QED BY <1>0, <2>1, <2>2, <2>3 DEF Attached, Trying
<1> QED BY <1>2, <1>3, <1>4, <1>5, <1>6, <1>7, <1>8 DEF Step

\* The runs themselves, over a step.
LEMMA RunsStep ==
    ASSUME IInv, IInv', RInv, NEW a \in Agents, Step(a) \/ ClaimFault(a) \/ Die(a)
    PROVE  RunsAreClaimed'
<1>0. TypeOK /\ Attached(a) /\ RunsAreClaimed
  BY DEF IInv, RInv
<1>1. \A b \in Agents : own[b] \subseteq own'[b]
  <2>1. own \in [Agents -> SUBSET Slots] BY <1>0 DEF TypeOK
  <2> QED
    BY <2>1 DEF Step, ReadRows, TryRetry, NoRetry, List, GiveUp, ClaimLocal, ClaimRemote,
                Undo, ClaimFault, CreateRun, EndTrial, Die, Win
<1>2. CASE runs' = runs
  BY <1>0, <1>1, <1>2 DEF RunsAreClaimed
<1>3. CASE CreateRun(a) /\ runs' = runs \cup {[slot |-> slot[a], status |-> "running"]}
  <2>1. /\ slot[a] \in own'[a] /\ slot[a] \notin RunSlots /\ Claimable(slot[a])
    BY <1>0, <1>1, <1>3 DEF CreateRun, Attached
  <2>2. \A r, q \in runs' : r.slot = q.slot => r = q
    BY <1>0, <1>3, <2>1 DEF RunsAreClaimed, RunSlots
  <2>3. ASSUME NEW r \in runs'
        PROVE  /\ r.slot[1] < Limit
               /\ r.slot[2] > 0 => \E q \in runs' : q.slot = <<r.slot[1], r.slot[2] - 1>>
               /\ \E b \in Agents : r.slot \in own'[b]
    <3>1. CASE r \in runs BY <1>0, <1>1, <1>3, <3>1 DEF RunsAreClaimed
    <3>2. CASE r.slot = slot[a] BY <1>3, <2>1, <3>2 DEF Claimable, RunSlots
    <3> QED BY <1>3, <3>1, <3>2
  <2> QED BY <2>2, <2>3 DEF RunsAreClaimed
<1>4. CASE EndTrial(a)
  <2>1. PICK status \in {"succeeded", "failed"} :
           runs' = (runs \ {[slot |-> slot[a], status |-> "running"]})
                      \cup {[slot |-> slot[a], status |-> status]}
    BY <1>4 DEF EndTrial
  <2> DEFINE was == [slot |-> slot[a], status |-> "running"]
             is  == [slot |-> slot[a], status |-> status]
  <2>2. was \in runs
    BY <1>0, <1>4 DEF EndTrial, Attached
  <2>3. \A r \in runs : r.slot = slot[a] => r = was
    BY <1>0, <2>2 DEF RunsAreClaimed
  <2>4. \A r, q \in runs' : r.slot = q.slot => r = q
    BY <1>0, <2>1, <2>3 DEF RunsAreClaimed
  <2>5. \A r \in runs' : \E q \in runs : q.slot = r.slot
    BY <2>1, <2>2
  <2>6. \A r \in runs : \E q \in runs' : q.slot = r.slot
    <3>1. is \in runs' /\ is.slot = slot[a] /\ was.slot = slot[a]
      BY <2>1
    <3>2. \A r \in runs : r \in runs' \/ r = was
      BY <2>1
    <3> QED BY <3>1, <3>2
  <2>7. ASSUME NEW r \in runs'
        PROVE  /\ r.slot[1] < Limit
               /\ r.slot[2] > 0 => \E q \in runs' : q.slot = <<r.slot[1], r.slot[2] - 1>>
               /\ \E b \in Agents : r.slot \in own'[b]
    <3>1. PICK o \in runs : o.slot = r.slot BY <2>5
    <3>2. /\ o.slot[1] < Limit
          /\ o.slot[2] > 0 => \E q \in runs : q.slot = <<o.slot[1], o.slot[2] - 1>>
          /\ \E b \in Agents : o.slot \in own[b]
      BY <1>0 DEF RunsAreClaimed
    <3> QED BY <1>1, <2>6, <3>1, <3>2
  <2> QED BY <2>4, <2>7 DEF RunsAreClaimed
<1> QED
  BY <1>2, <1>3, <1>4
     DEF Step, ReadRows, TryRetry, NoRetry, List, GiveUp, ClaimLocal, ClaimRemote, Undo,
         ClaimFault, CreateRun, EndTrial, Die

\* The runs and the slots, of every behaviour.
LEMMA RunsInvariance == Spec => []RInv
<1>1. Init => RInv
  BY DEF Init, RInv, RunsAreClaimed, Attached, Trying
<1>2. IInv /\ IInv' /\ RInv /\ [Next]_vars => RInv'
  <2> SUFFICES ASSUME IInv, IInv', RInv, [Next]_vars PROVE RInv'
    OBVIOUS
  <2>1. CASE Next
    <3>1. PICK a \in Agents : Step(a) \/ ClaimFault(a) \/ Die(a)
      BY <2>1 DEF Next
    <3>2. ASSUME NEW b \in Agents PROVE Attached(b)'
      <4>1. Attached(a) /\ Attached(b) BY DEF RInv
      <4>2. CASE b = a BY <3>1, <4>2, AttachedStep
      <4>3. CASE b # a BY <3>1, <4>1, <4>3, AttachedOthers
      <4> QED BY <4>2, <4>3
    <3> QED BY <3>1, <3>2, RunsStep DEF RInv
  <2>2. CASE UNCHANGED vars
    BY <2>2 DEF vars, RInv, RunsAreClaimed, Attached, Trying, Claimable, RunSlots
  <2> QED BY <2>1, <2>2
<1> QED BY <1>1, <1>2, Invariance, PTL DEF Spec

\* A trial is carried out at most once per attempt, by the agent that won its
\* slot; a retry follows its trial's previous attempt (_run_trial, retry_slots).
THEOREM RunsAreClaimedAlways == Spec => []RunsAreClaimed
BY RunsInvariance, PTL DEF RInv

-----------------------------------------------------------------------------
(****************************************************************************)
(* The half of SweepCovers that is about what agents do: once they have     *)
(* stopped, and nobody was killed, no trial of the sweep was passed over.   *)
(* An agent goes on to an index only past indices that are taken, or about  *)
(* to be taken by an agent that already holds them on its host.             *)
(****************************************************************************)

\* On the side that is shared.
OnShared(s) == \E a \in Agents : s \in slots[SharedOf(a)]

\* The remote is about to be asked for it: it takes the slot, or has it.
Coming(s) == \E a \in Agents : pc[a] = "remote" /\ slot[a] = s

Sure(s) == OnShared(s) \/ Coming(s)

\* The first attempts at the trials below k.
UpTo(k) == \A t \in 0 .. (k - 1) : Sure(<<t, 0>>)

\* No side holds a slot beyond a trial that nobody took.
NoGap == \A side \in Sides : \A s \in slots[side] : UpTo(s[1] + 1)

\* No agent is beyond a trial that nobody took.
Past(a) ==
    /\ UpTo(n[a])
    /\ \A s \in todo[a] : s[2] > 0 /\ UpTo(s[1] + 1)
    /\ Trying(a) => UpTo(slot[a][1])
    /\ Trying(a) /\ slot[a][2] > 0 => UpTo(slot[a][1] + 1)
    /\ pc[a] = "undo" => slot[a] \in slots[Remote]
    /\ pc[a] = "exhausted" => n[a] = Limit

\* A slot on the shared side was won, and one that was won has a run or gets it.
Used(a) ==
    /\ \A s \in slots[SharedOf(a)] : \E b \in Agents : s \in own[b]
    /\ \A s \in own[a] : s \in RunSlots \/ (pc[a] = "claimed" /\ slot[a] = s)

\* A run that runs has its agent.
Running ==
    \A r \in runs : r.status = "running" => \E a \in Agents : pc[a] = "running" /\ slot[a] = r.slot

\* What holds of agents none of which was killed or failed.
CInv == Healthy => NoGap /\ Running /\ \A a \in Agents : Past(a) /\ Used(a)

\* What SweepCovers says, once the agents have stopped.
Covered ==
    /\ Healthy
    /\ \A a \in Agents : pc[a] \in {"exhausted", "left", "raised"}
    /\ \E a \in Agents : pc[a] = "exhausted"
    => \A t \in 0 .. (Limit - 1) :
          \E r \in runs : r.slot = <<t, 0>> /\ r.status # "running"

\* What is on the shared side stays: an undo is for a local side.
LEMMA SharedGrows ==
    ASSUME IInv, NEW a \in Agents, Step(a) \/ ClaimFault(a) \/ Die(a), NEW b \in Agents
    PROVE  slots[SharedOf(b)] \subseteq slots'[SharedOf(b)]
<1>0. /\ slots \in [Sides -> SUBSET Slots] /\ Sided(a)
  BY DEF IInv, TypeOK
<1>1. /\ Remote \in Sides /\ HostOf[a] \in Sides /\ HostOf[a] # Remote
      /\ SharedOf(b) = IF HasRemote THEN Remote ELSE HostOf[a]
  BY SweepAssumption DEF Sides, SharedOf
<1>2. CASE ClaimLocal(a)  BY <1>0, <1>1, <1>2 DEF ClaimLocal
<1>3. CASE ClaimRemote(a) BY <1>0, <1>1, <1>3 DEF ClaimRemote
<1>4. CASE ClaimFault(a)  BY <1>0, <1>1, <1>4 DEF ClaimFault
<1>5. CASE Undo(a)        BY <1>0, <1>1, <1>5 DEF Undo, Sided
<1>6. CASE ReadRows(a) \/ TryRetry(a) \/ NoRetry(a) \/ List(a) \/ GiveUp(a) \/ CreateRun(a) \/ EndTrial(a) \/ Die(a)
  BY <1>6 DEF ReadRows, TryRetry, NoRetry, List, GiveUp, CreateRun, EndTrial, Die
<1> QED BY <1>2, <1>3, <1>4, <1>5, <1>6 DEF Step

\* Health is not regained.
LEMMA HealthBack ==
    ASSUME IInv, NEW a \in Agents, Step(a) \/ ClaimFault(a) \/ Die(a), Healthy'
    PROVE  Healthy /\ Step(a) /\ pc'[a] # "dead" /\ pc[a] # "fail"
<1>0. TypeOK BY DEF IInv
<1>1. pc \in [Agents -> Stages] /\ faults \in Nat /\ faults' = 0 /\ pc'[a] # "dead"
  BY <1>0 DEF TypeOK, Healthy
<1>2. ~ClaimFault(a) BY <1>1 DEF ClaimFault
<1>3. ~Die(a) BY <1>1 DEF Die, Go
<1>4. Step(a) BY <1>2, <1>3
<1>5. faults = 0
  BY <1>1, <1>4 DEF Step, ReadRows, TryRetry, NoRetry, List, GiveUp, ClaimLocal, ClaimRemote, Undo, CreateRun, EndTrial
<1>6. pc[a] # "dead" /\ pc[a] # "fail"
  BY <1>1, <1>4 DEF Step, ReadRows, TryRetry, NoRetry, List, GiveUp, ClaimLocal, ClaimRemote, Undo, CreateRun, EndTrial, Go
<1>7. \A b \in Agents : b # a => pc[b] # "dead"
  <2> SUFFICES ASSUME NEW b \in Agents, b # a PROVE pc[b] # "dead"
    OBVIOUS
  <2>1. pc'[b] = pc[b] BY <1>0, OthersStand
  <2> QED BY <2>1 DEF Healthy
<1> QED BY <1>1, <1>4, <1>5, <1>6, <1>7 DEF Healthy

\* What is sure stays sure.
LEMMA SureStays ==
    ASSUME IInv, NEW a \in Agents, Step(a), Healthy', NEW s, Sure(s)
    PROVE  Sure(s)'
<1>0. TypeOK BY DEF IInv
<1>1. \A b \in Agents : slots[SharedOf(b)] \subseteq slots'[SharedOf(b)]
  BY SharedGrows
<1>2. CASE OnShared(s)
  BY <1>1, <1>2 DEF Sure, OnShared, SharedOf
<1>3. CASE Coming(s)
  <2>1. PICK b \in Agents : pc[b] = "remote" /\ slot[b] = s
    BY <1>3 DEF Coming
  <2>2. CASE b # a
    <3>1. pc'[b] = pc[b] /\ slot'[b] = slot[b] BY <1>0, <2>2, OthersStand
    <3> QED BY <2>1, <3>1 DEF Sure, Coming
  <2>3. CASE b = a
    <3>1. ClaimRemote(a)
      BY <2>1, <2>3 DEF Step, ReadRows, TryRetry, NoRetry, List, GiveUp, ClaimLocal, Undo,
                        CreateRun, EndTrial
    <3>2. /\ HasRemote /\ slots \in [Sides -> SUBSET Slots] /\ Remote \in Sides
          /\ SharedOf(a) = Remote
      BY <2>1, <2>3, <1>0 DEF IInv, Sided, TypeOK, Sides, SharedOf
    <3>3. s \in slots'[Remote]
      BY <2>1, <2>3, <3>1, <3>2 DEF ClaimRemote
    <3> QED BY <3>2, <3>3 DEF Sure, OnShared, SharedOf
  <2> QED BY <2>2, <2>3
<1> QED BY <1>2, <1>3 DEF Sure

\* So do the trials below an index.
LEMMA UpToStays ==
    ASSUME IInv, NEW a \in Agents, Step(a), Healthy', NEW k, UpTo(k)
    PROVE  \A t \in 0 .. (k - 1) : Sure(<<t, 0>>)'
BY SureStays DEF UpTo

\* What a healthy step adds to a side: the slot that its agent is claiming, with
\* its trial's first attempt taken, or on its way to the remote.
LEMMA AddsOne ==
    ASSUME IInv, NEW a \in Agents, Step(a), Healthy', Past(a),
           NEW side \in Sides, NEW s \in slots'[side], s \notin slots[side]
    PROVE  Trying(a) /\ s = slot[a] /\ Sure(s)'
<1>0. /\ slots \in [Sides -> SUBSET Slots] /\ pc \in [Agents -> Stages] /\ Sided(a)
      /\ own \in [Agents -> SUBSET Slots]
  BY DEF IInv, TypeOK
<1>1. ~(ReadRows(a) \/ TryRetry(a) \/ NoRetry(a) \/ List(a) \/ GiveUp(a) \/ CreateRun(a) \/ EndTrial(a))
  BY DEF ReadRows, TryRetry, NoRetry, List, GiveUp, CreateRun, EndTrial
<1>2. ~Undo(a)
  BY <1>0 DEF Undo
<1>3. CASE ClaimLocal(a)
  <2>1. pc[a] = "local" /\ s = slot[a] /\ side = HostOf[a]
    BY <1>0, <1>3 DEF ClaimLocal
  <2>2. CASE HasRemote
    <3>1. pc'[a] = "remote" /\ slot'[a] = slot[a]
      BY <1>0, <1>3, <2>1, <2>2 DEF ClaimLocal, Go
    <3> QED BY <2>1, <3>1 DEF Sure, Coming, Trying
  <2>3. CASE ~HasRemote
    BY <2>1, <2>3 DEF Sure, OnShared, SharedOf, Trying
  <2> QED BY <2>2, <2>3
<1>4. CASE ClaimRemote(a)
  <2>1. pc[a] = "remote" /\ s = slot[a] /\ side = Remote /\ HasRemote
    BY <1>0, <1>4 DEF ClaimRemote, Sided
  <2> QED BY <2>1 DEF Sure, OnShared, SharedOf, Trying
<1> QED BY <1>1, <1>2, <1>3, <1>4 DEF Step

\* No trial is passed over on a side.
LEMMA NoGapStep ==
    ASSUME IInv, NEW a \in Agents, Step(a), Healthy', NoGap, Past(a)
    PROVE  NoGap'
<1> SUFFICES ASSUME NEW side \in Sides, NEW s \in slots'[side],
                    NEW t \in 0 .. ((s[1] + 1) - 1)
             PROVE  Sure(<<t, 0>>)'
  BY DEF NoGap, UpTo
<1>0. /\ slots \in [Sides -> SUBSET Slots] /\ slot[a] \in Nat \X Nat
  BY DEF IInv, TypeOK, Slots
<1>1. CASE s \in slots[side]
  <2>1. UpTo(s[1] + 1) BY <1>1 DEF NoGap
  <2> QED BY <2>1, UpToStays
<1>2. CASE s \notin slots[side]
  <2>1. Trying(a) /\ s = slot[a] /\ Sure(s)' BY <1>2, AddsOne
  <2>2. UpTo(s[1]) /\ (s[2] > 0 => UpTo(s[1] + 1)) /\ s \in Nat \X Nat
    BY <1>0, <2>1 DEF Past
  <2>3. CASE t < s[1]
    <3>1. t \in 0 .. (s[1] - 1) BY <2>2, <2>3
    <3> QED BY <2>2, <3>1, UpToStays
  <2>4. CASE t = s[1] /\ s[2] = 0
    <3>1. s = <<t, 0>> BY <2>2, <2>4
    <3> QED BY <2>1, <3>1
  <2>5. CASE t = s[1] /\ s[2] > 0
    <3> QED BY <2>2, <2>5, UpToStays
  <2>6. t < s[1] \/ t = s[1] BY <2>2
  <2>7. s[2] = 0 \/ s[2] > 0 BY <2>2
  <2> QED BY <2>3, <2>4, <2>5, <2>6, <2>7
<1> QED BY <1>1, <1>2

\* Where the others are.
LEMMA PastOthers ==
    ASSUME IInv, NEW a \in Agents, Step(a), Healthy', NEW b \in Agents, b # a, Past(b)
    PROVE  Past(b)'
<1>0. TypeOK /\ Sided(b) BY DEF IInv
<1>1. /\ pc'[b] = pc[b] /\ todo'[b] = todo[b] /\ slot'[b] = slot[b] /\ n'[b] = n[b]
  BY <1>0, OthersStand
<1>2. /\ UpTo(n[b])
      /\ \A s \in todo[b] : s[2] > 0 /\ UpTo(s[1] + 1)
      /\ Trying(b) => UpTo(slot[b][1])
      /\ Trying(b) /\ slot[b][2] > 0 => UpTo(slot[b][1] + 1)
      /\ pc[b] = "undo" => slot[b] \in slots[Remote]
      /\ pc[b] = "exhausted" => n[b] = Limit
  BY DEF Past
<1>3. UpTo(n[b])'
  BY <1>1, <1>2, UpToStays DEF UpTo
<1>4. \A s \in todo'[b] : s[2] > 0 /\ UpTo(s[1] + 1)'
  BY <1>1, <1>2, UpToStays DEF UpTo
<1>5. Trying(b) => UpTo(slot[b][1])'
  BY <1>1, <1>2, UpToStays DEF UpTo
<1>6. Trying(b) /\ slot[b][2] > 0 => UpTo(slot[b][1] + 1)'
  BY <1>1, <1>2, UpToStays DEF UpTo
<1>7. pc[b] = "undo" => slot[b] \in slots'[Remote]
  <2> SUFFICES ASSUME pc[b] = "undo" PROVE slot[b] \in slots'[Remote]
    OBVIOUS
  <2>1. SharedOf(b) = Remote BY <1>0 DEF Sided, SharedOf
  <2> QED BY <1>2, <2>1, SharedGrows
<1>8. Trying(b)' <=> Trying(b)
  BY <1>1 DEF Trying
<1> QED BY <1>1, <1>2, <1>3, <1>4, <1>5, <1>6, <1>7, <1>8 DEF Past

\* A slot on a side, and what comes after it.
LEMMA TakenUpTo ==
    ASSUME NoGap, NEW side \in Sides, NEW s \in slots[side], s \in Nat \X Nat
    PROVE  UpTo(s[1] + 1) /\ UpTo(s[1])
<1>1. UpTo(s[1] + 1) BY DEF NoGap
<1>2. \A t \in 0 .. (s[1] - 1) : t \in 0 .. ((s[1] + 1) - 1) OBVIOUS
<1> QED BY <1>1, <1>2 DEF UpTo

\* The rows an agent reads are of trials that are taken, and it goes on to an
\* index only past one it saw taken.
LEMMA PastStep ==
    ASSUME IInv, RInv, NEW a \in Agents, Step(a), Healthy, Healthy', NoGap, Past(a)
    PROVE  Past(a)'
<1>0. /\ TypeOK /\ Sided(a) /\ OwnedIsTaken /\ RunsAreClaimed
      /\ pc \in [Agents -> Stages] /\ todo \in [Agents -> SUBSET Slots]
      /\ slot \in [Agents -> Nat \X Nat] /\ n \in [Agents -> Nat]
      /\ slots \in [Sides -> SUBSET (Nat \X Nat)]
  BY DEF IInv, RInv, TypeOK, Slots
<1>1. /\ Remote \in Sides /\ \A b \in Agents : HostOf[b] \in Sides /\ SharedOf(b) \in Sides
  BY SweepAssumption DEF Sides, SharedOf
<1>2. /\ UpTo(n[a])
      /\ \A s \in todo[a] : s[2] > 0 /\ UpTo(s[1] + 1)
      /\ Trying(a) => UpTo(slot[a][1])
      /\ Trying(a) /\ slot[a][2] > 0 => UpTo(slot[a][1] + 1)
      /\ pc[a] = "undo" => slot[a] \in slots[Remote]
      /\ pc[a] = "exhausted" => n[a] = Limit
  BY DEF Past
<1>3. UpTo(n[a]) => \A t \in 0 .. (n[a] - 1) : Sure(<<t, 0>>)'
  BY UpToStays
<1>4. \A s \in todo[a] : \A t \in 0 .. ((s[1] + 1) - 1) : Sure(<<t, 0>>)'
  BY <1>2, UpToStays
<1>5. CASE ReadRows(a)
  <2>1. PICK rows \in SUBSET Retryable :
           todo' = [todo EXCEPT ![a] = {NextAttempt(r) : r \in rows}]
    BY <1>5 DEF ReadRows
  <2>2. pc'[a] = "retry" /\ n'[a] = 0
    BY <1>0, <1>5 DEF ReadRows, Go
  <2>3. ASSUME NEW r \in rows, NEW t \in 0 .. ((NextAttempt(r)[1] + 1) - 1)
        PROVE  NextAttempt(r)[2] > 0 /\ Sure(<<t, 0>>)'
    <3>1. r \in runs /\ r.slot \in Nat \X Nat
      BY <1>0 DEF Retryable, TypeOK, Slots
    <3>2. PICK b \in Agents : r.slot \in own[b]
      BY <1>0, <3>1 DEF RunsAreClaimed
    <3>3. r.slot \in slots[SharedOf(b)]
      BY <1>0, <3>2 DEF OwnedIsTaken
    <3>4. UpTo(r.slot[1] + 1)
      BY <1>1, <3>1, <3>3, TakenUpTo
    <3>5. NextAttempt(r)[1] = r.slot[1] /\ NextAttempt(r)[2] > 0
      BY <3>1 DEF NextAttempt
    <3> QED BY <3>4, <3>5, UpToStays
  <2>4. \A s \in todo'[a] : \E r \in rows : s = NextAttempt(r)
    BY <1>0, <2>1
  <2>5. ASSUME NEW s \in todo'[a] PROVE s[2] > 0 /\ UpTo(s[1] + 1)'
    <3>1. PICK r \in rows : s = NextAttempt(r) BY <2>4
    <3>2. s[2] > 0
      <4>1. r.slot \in Nat \X Nat BY <1>0 DEF Retryable, TypeOK, Slots
      <4> QED BY <3>1, <4>1 DEF NextAttempt
    <3> QED BY <2>3, <3>1, <3>2 DEF UpTo
  <2>6. UpTo(n[a])'
    BY <2>2 DEF UpTo
  <2> QED BY <2>2, <2>5, <2>6 DEF Past, Trying
<1>6. CASE TryRetry(a)
  <2>1. PICK s \in todo[a] : /\ slot' = [slot EXCEPT ![a] = s]
                             /\ todo' = [todo EXCEPT ![a] = @ \ {s}]
    BY <1>6 DEF TryRetry
  <2>2. pc'[a] \in {"local", "remote"} /\ n' = n
    BY <1>0, <1>6 DEF TryRetry, Go
  <2>3. slot'[a] = s /\ todo'[a] \subseteq todo[a] /\ s \in Nat \X Nat
    BY <1>0, <2>1 DEF Slots
  <2>4. \A q \in todo[a] : q[2] > 0 /\ UpTo(q[1] + 1)'
    BY <1>2, <1>4 DEF UpTo
  <2>5. \A t \in 0 .. (s[1] - 1) : t \in 0 .. ((s[1] + 1) - 1)
    BY <2>3
  <2>6. UpTo(slot[a][1])' /\ UpTo(slot[a][1] + 1)'
    BY <1>4, <2>3, <2>5 DEF UpTo
  <2>7. UpTo(n[a])'
    BY <1>2, <1>3, <2>2 DEF UpTo
  <2> QED BY <2>2, <2>3, <2>4, <2>6, <2>7 DEF Past
<1>7. CASE List(a)
  <2>1. PICK seen \in SUBSET slots[Remote], k \in 0 .. Limit :
           /\ After(Listing(a, seen), n[a], k)
           /\ n' = [n EXCEPT ![a] = k]
           /\ \/ k = Limit /\ Go(a, "exhausted")
              \/ /\ slot' = [slot EXCEPT ![a] = <<k, 0>>]
                 /\ Go(a, IF HasLocal THEN "local" ELSE "remote")
    BY <1>7 DEF List
  <2>2. UpTo(k)
    <3>1. CASE k = n[a] BY <1>2, <3>1
    <3>2. CASE k > n[a]
      <4>1. PICK s \in Listing(a, seen) : s[1] = k - 1
        BY <2>1, <3>2 DEF After
      <4>2. PICK side \in Sides : s \in slots[side]
        BY <1>1 DEF Listing
      <4>3. UpTo(s[1] + 1)
        BY <1>0, <4>2, TakenUpTo
      <4>4. s[1] + 1 = k
        BY <4>1, SweepAssumption
      <4> QED BY <4>3, <4>4
    <3>3. k = n[a] \/ k > n[a]
      <4>1. k \in Int /\ n[a] \in Int BY <1>0
      <4>2. k >= n[a] BY <2>1 DEF After
      <4> QED BY <4>1, <4>2
    <3> QED BY <3>1, <3>2, <3>3
  <2>3. \A t \in 0 .. (k - 1) : Sure(<<t, 0>>)'
    BY <2>2, UpToStays
  <2>4. n'[a] = k /\ todo' = todo
    BY <1>0, <1>7, <2>1 DEF List
  <2>5. UpTo(n[a])' /\ \A s \in todo'[a] : s[2] > 0 /\ UpTo(s[1] + 1)'
    BY <1>2, <1>4, <2>3, <2>4 DEF UpTo
  <2>6. CASE k = Limit /\ Go(a, "exhausted")
    BY <1>0, <2>4, <2>5, <2>6 DEF Past, Trying, Go
  <2>7. CASE /\ slot' = [slot EXCEPT ![a] = <<k, 0>>]
             /\ Go(a, IF HasLocal THEN "local" ELSE "remote")
    <3>1. slot'[a] = <<k, 0>> /\ pc'[a] \in {"local", "remote"}
      BY <1>0, <2>7 DEF Go
    <3>2. slot'[a][1] = k /\ slot'[a][2] = 0
      BY <3>1
    <3>3. UpTo(slot[a][1])'
      BY <2>3, <3>2 DEF UpTo
    <3> QED BY <2>5, <3>1, <3>2, <3>3 DEF Past
  <2> QED BY <2>1, <2>6, <2>7
<1>8. CASE NoRetry(a) \/ GiveUp(a) \/ CreateRun(a) \/ EndTrial(a)
  <2>1. /\ todo' = todo /\ n' = n
        /\ pc'[a] \in {"list", "raised", "running", "dead", "idle", "left"}
    BY <1>0, <1>8 DEF NoRetry, GiveUp, CreateRun, EndTrial, Go
  <2>2. UpTo(n[a])' /\ \A s \in todo'[a] : s[2] > 0 /\ UpTo(s[1] + 1)'
    BY <1>2, <1>3, <1>4, <2>1 DEF UpTo
  <2> QED BY <2>1, <2>2 DEF Past, Trying
<1>9. CASE ClaimLocal(a) \/ ClaimRemote(a) \/ Undo(a)
  <2>1. todo' = todo /\ slot' = slot /\ Trying(a)
    <3>1. pc[a] # "fail" BY HealthBack
    <3> QED BY <1>9, <3>1 DEF ClaimLocal, ClaimRemote, Undo, Trying
  <2>2. \A s \in todo'[a] : s[2] > 0 /\ UpTo(s[1] + 1)'
    BY <1>2, <1>4, <2>1 DEF UpTo
  <2>3. \/ LoseTo(a) /\ \E side \in Sides : slot[a] \in slots[side]
        \/ n' = n /\ pc'[a] = "undo" /\ slot[a] \in slots'[Remote]
        \/ n' = n /\ pc'[a] \in {"remote", "claimed"}
    <3>1. CASE ClaimLocal(a)
      BY <1>0, <1>1, <3>1 DEF ClaimLocal, Win, Go
    <3>2. CASE ClaimRemote(a)
      BY <1>0, <1>1, <3>2 DEF ClaimRemote, Win, Go
    <3>3. CASE Undo(a)
      <4>1. pc[a] = "undo" BY <3>3, HealthBack DEF Undo
      <4> QED BY <1>1, <1>2, <3>3, <4>1 DEF Undo
    <3> QED BY <1>9, <3>1, <3>2, <3>3
  <2>4. CASE LoseTo(a) /\ \E side \in Sides : slot[a] \in slots[side]
    <3>1. UpTo(slot[a][1] + 1)
      BY <1>0, <2>4, TakenUpTo
    <3>2. \A t \in 0 .. ((slot[a][1] + 1) - 1) : Sure(<<t, 0>>)'
      BY <3>1, UpToStays
    <3>3. pc'[a] \in {"list", "retry"} /\ n'[a] \in {n[a], slot[a][1] + 1}
      BY <1>0, <2>4 DEF LoseTo, Go
    <3>4. UpTo(n[a])'
      BY <1>2, <1>3, <3>2, <3>3 DEF UpTo
    <3> QED BY <2>2, <3>3, <3>4 DEF Past, Trying
  <2>5. CASE /\ n' = n /\ pc'[a] \in {"undo", "remote", "claimed"}
             /\ pc'[a] = "undo" => slot[a] \in slots'[Remote]
    <3>1. UpTo(n[a])'
      BY <1>2, <1>3, <2>5 DEF UpTo
    <3>2. UpTo(slot[a][1])'
      BY <1>2, <2>1, UpToStays DEF UpTo
    <3>3. slot[a][2] > 0 => UpTo(slot[a][1] + 1)'
      BY <1>2, <2>1, UpToStays DEF UpTo
    <3> QED BY <2>1, <2>2, <2>5, <3>1, <3>2, <3>3 DEF Past
  <2> QED BY <2>3, <2>4, <2>5
<1> QED BY <1>5, <1>6, <1>7, <1>8, <1>9 DEF Step

\* What a healthy step does to the slots that were won and to the runs.
LEMMA RunSlotsGrow ==
    ASSUME IInv, RInv, NEW a \in Agents, Step(a)
    PROVE  RunSlots \subseteq RunSlots'
<1>0. Attached(a) BY DEF RInv
<1>1. CASE runs' = runs BY <1>1 DEF RunSlots
<1>2. CASE runs' = runs \cup {[slot |-> slot[a], status |-> "running"]}
  BY <1>2 DEF RunSlots
<1>3. CASE EndTrial(a)
  <2>1. PICK status \in {"succeeded", "failed"} :
           runs' = (runs \ {[slot |-> slot[a], status |-> "running"]})
                      \cup {[slot |-> slot[a], status |-> status]}
    BY <1>3 DEF EndTrial
  <2>2. [slot |-> slot[a], status |-> "running"].slot = slot[a]
        /\ [slot |-> slot[a], status |-> status].slot = slot[a]
    OBVIOUS
  <2> QED BY <2>1, <2>2 DEF RunSlots
<1> QED
  BY <1>1, <1>2, <1>3
     DEF Step, ReadRows, TryRetry, NoRetry, List, GiveUp, ClaimLocal, ClaimRemote, Undo,
         CreateRun

\* A slot that was won is run, or about to be.
LEMMA UsedStep ==
    ASSUME IInv, RInv, NEW a \in Agents, Step(a), Healthy',
           \A b \in Agents : Past(b) /\ Used(b), NEW b \in Agents
    PROVE  Used(b)'
<1>0. /\ TypeOK /\ Sided(a) /\ Attached(a)
      /\ pc \in [Agents -> Stages] /\ slot \in [Agents -> Slots]
      /\ own \in [Agents -> SUBSET Slots] /\ slots \in [Sides -> SUBSET Slots]
  BY DEF IInv, RInv, TypeOK
<1>1. /\ SharedOf(b) \in Sides /\ SharedOf(a) = SharedOf(b)
      /\ HostOf[a] \in Sides /\ Remote \in Sides
  BY SweepAssumption DEF Sides, SharedOf
<1>2. RunSlots \subseteq RunSlots'
  BY RunSlotsGrow
<1>3. \A c \in Agents : own[c] \subseteq own'[c]
  BY <1>0 DEF Step, ReadRows, TryRetry, NoRetry, List, GiveUp, ClaimLocal, ClaimRemote,
              Undo, CreateRun, EndTrial, Win
<1>4. ASSUME NEW s \in slots'[SharedOf(b)] PROVE \E c \in Agents : s \in own'[c]
  <2>1. CASE s \in slots[SharedOf(b)]
    BY <1>3, <2>1 DEF Used
  <2>2. CASE s \notin slots[SharedOf(b)]
    <3>1. s = slot[a] /\ Trying(a)
      BY <1>1, <2>2, AddsOne
    <3>2. CASE ClaimLocal(a)
      <4>1. ~HasRemote
        <5> SUFFICES ASSUME HasRemote PROVE FALSE
          OBVIOUS
        <5>1. SharedOf(b) = Remote /\ HostOf[a] # Remote
          BY SweepAssumption DEF SharedOf
        <5>2. slots'[Remote] = slots[Remote]
          BY <1>0, <1>1, <3>2, <5>1 DEF ClaimLocal
        <5> QED BY <2>2, <5>1, <5>2
      <4>2. slot[a] \notin slots[HostOf[a]]
        <5>1. SharedOf(b) = HostOf[a] BY <1>1, <4>1 DEF SharedOf
        <5> QED BY <2>2, <3>1, <5>1
      <4>3. s \in own'[a]
        BY <1>0, <3>1, <3>2, <4>1, <4>2 DEF ClaimLocal, Win
      <4> QED BY <4>3
    <3>3. CASE ClaimRemote(a)
      <4>1. HasRemote /\ SharedOf(b) = Remote
        BY <1>0, <3>3 DEF ClaimRemote, Sided, SharedOf
      <4>2. s \in own'[a]
        BY <1>0, <2>2, <3>1, <3>3, <4>1 DEF ClaimRemote, Win
      <4> QED BY <4>2
    <3>4. CASE ~ClaimLocal(a) /\ ~ClaimRemote(a)
      BY <1>0, <1>1, <2>2, <3>4
         DEF Step, ReadRows, TryRetry, NoRetry, List, GiveUp, Undo, CreateRun, EndTrial
    <3> QED BY <3>2, <3>3, <3>4
  <2> QED BY <2>1, <2>2
<1>5. ASSUME NEW s \in own'[b]
      PROVE  s \in RunSlots' \/ (pc'[b] = "claimed" /\ slot'[b] = s)
  <2>1. CASE b # a
    <3>1. pc'[b] = pc[b] /\ slot'[b] = slot[b] /\ own'[b] = own[b]
      BY <1>0, <2>1, OthersStand
    <3> QED BY <1>2, <3>1 DEF Used
  <2>2. CASE b = a
    <3>1. CASE s \notin own[a]
      <4>1. Win(a) /\ slot' = slot
        BY <1>0, <2>2, <3>1
           DEF Step, ReadRows, TryRetry, NoRetry, List, GiveUp, ClaimLocal, ClaimRemote,
               Undo, CreateRun, EndTrial
      <4>2. s = slot[a] /\ pc'[a] = "claimed"
        BY <1>0, <2>2, <3>1, <4>1 DEF Win, Go
      <4> QED BY <2>2, <4>1, <4>2
    <3>2. CASE s \in own[a] /\ s \in RunSlots
      BY <1>2, <3>2
    <3>3. CASE s \in own[a] /\ pc[a] = "claimed" /\ slot[a] = s
      <4>1. CreateRun(a) /\ pc'[a] # "dead"
        <5>1. pc'[a] # "dead" BY HealthBack
        <5> QED
          BY <3>3, <5>1 DEF Step, ReadRows, TryRetry, NoRetry, List, GiveUp, ClaimLocal,
                            ClaimRemote, Undo, EndTrial
      <4>2. runs' = runs \cup {[slot |-> slot[a], status |-> "running"]}
        BY <1>0, <4>1 DEF CreateRun, Go
      <4>3. [slot |-> slot[a], status |-> "running"].slot = slot[a]
        OBVIOUS
      <4> QED BY <3>3, <4>2, <4>3 DEF RunSlots
    <3> QED BY <2>2, <3>1, <3>2, <3>3 DEF Used
  <2> QED BY <2>1, <2>2
<1> QED BY <1>4, <1>5 DEF Used, SharedOf

\* A run goes on running only with its agent.
LEMMA RunningStep ==
    ASSUME IInv, RInv, NEW a \in Agents, Step(a), Healthy', Running
    PROVE  Running'
<1>0. /\ TypeOK /\ pc \in [Agents -> Stages] /\ pc'[a] # "dead"
  BY HealthBack DEF IInv, TypeOK
<1> SUFFICES ASSUME NEW r \in runs', r.status = "running"
             PROVE  \E c \in Agents : pc'[c] = "running" /\ slot'[c] = r.slot
  BY DEF Running
<1>1. ASSUME r \in runs, EndTrial(a) => r.slot # slot[a]
      PROVE  \E c \in Agents : pc'[c] = "running" /\ slot'[c] = r.slot
  <2>1. PICK c \in Agents : pc[c] = "running" /\ slot[c] = r.slot
    BY <1>1 DEF Running
  <2>2. CASE c # a
    <3>1. pc'[c] = pc[c] /\ slot'[c] = slot[c] BY <1>0, <2>2, OthersStand
    <3> QED BY <2>1, <3>1
  <2>3. c # a
    BY <1>1, <2>1 DEF Step, ReadRows, TryRetry, NoRetry, List, GiveUp, ClaimLocal,
                      ClaimRemote, Undo, CreateRun
  <2> QED BY <2>2, <2>3
<1>2. CASE EndTrial(a)
  <2>1. PICK status \in {"succeeded", "failed"} :
           runs' = (runs \ {[slot |-> slot[a], status |-> "running"]})
                      \cup {[slot |-> slot[a], status |-> status]}
    BY <1>2 DEF EndTrial
  <2>2. r \in runs /\ r # [slot |-> slot[a], status |-> "running"]
    <3>1. [slot |-> slot[a], status |-> status].status # "running" BY <2>1
    <3> QED BY <2>1, <3>1
  <2>3. r.slot # slot[a]
    <3>1. r = [slot |-> r.slot, status |-> r.status]
      BY <1>0, <2>2 DEF TypeOK
    <3> QED BY <2>2, <3>1
  <2> QED BY <1>1, <2>2, <2>3
<1>3. CASE CreateRun(a) /\ r \notin runs
  <2>1. runs' = runs \cup {[slot |-> slot[a], status |-> "running"]} /\ slot' = slot
        /\ pc'[a] = "running"
    BY <1>0, <1>3 DEF CreateRun, Go
  <2>2. r = [slot |-> slot[a], status |-> "running"]
    BY <1>3, <2>1
  <2> QED BY <2>1, <2>2
<1>4. CASE r \in runs /\ ~EndTrial(a)
  BY <1>1, <1>4
<1>5. ~EndTrial(a) /\ ~CreateRun(a) => r \in runs
  BY DEF Step, ReadRows, TryRetry, NoRetry, List, GiveUp, ClaimLocal, ClaimRemote, Undo
<1> QED BY <1>2, <1>3, <1>4, <1>5

\* No trial is passed over: once the agents have stopped, and none was killed or
\* failed, and one of them found no trial left, every trial has a finished run.
\* However listings lag, however many agents race, and whatever they retry; that
\* they stop is the other half of SweepCovers.
THEOREM CoveredAlways == Spec => []Covered
<1>1. Init => CInv
  <2> SUFFICES ASSUME Init PROVE NoGap /\ Running /\ \A a \in Agents : Past(a) /\ Used(a)
    BY DEF CInv
  <2>1. NoGap /\ Running
    BY DEF Init, NoGap, Running
  <2>2. ASSUME NEW a \in Agents PROVE Past(a) /\ Used(a)
    <3>1. /\ SharedOf(a) \in Sides /\ UpTo(0)
      BY SweepAssumption DEF SharedOf, Sides, UpTo
    <3> QED BY <3>1 DEF Init, Past, Used, Trying
  <2> QED BY <2>1, <2>2
<1>2. IInv /\ RInv /\ CInv /\ [Next]_vars => CInv'
  <2> SUFFICES ASSUME IInv, RInv, CInv, [Next]_vars, Healthy'
               PROVE  (NoGap /\ Running /\ \A b \in Agents : Past(b) /\ Used(b))'
    BY DEF CInv
  <2>1. CASE Next
    <3>1. PICK a \in Agents : Step(a) \/ ClaimFault(a) \/ Die(a)
      BY <2>1 DEF Next
    <3>2. Healthy /\ Step(a)
      BY <3>1, HealthBack
    <3>3. NoGap /\ Running /\ \A b \in Agents : Past(b) /\ Used(b)
      BY <3>2 DEF CInv
    <3>4. NoGap' BY <3>2, <3>3, NoGapStep
    <3>5. Running' BY <3>2, <3>3, RunningStep
    <3>6. \A b \in Agents : Past(b)'
      BY <3>2, <3>3, PastStep, PastOthers
    <3>7. \A b \in Agents : Used(b)'
      BY <3>2, <3>3, UsedStep
    <3> QED BY <3>4, <3>5, <3>6, <3>7
  <2>2. CASE UNCHANGED vars
    <3>1. Healthy /\ NoGap /\ Running /\ \A b \in Agents : Past(b) /\ Used(b)
      BY <2>2 DEF vars, CInv, Healthy
    <3>2. \A s : Sure(s)' <=> Sure(s)
      BY <2>2 DEF vars, Sure, OnShared, Coming, SharedOf
    <3>3. NoGap' /\ Running'
      BY <2>2, <3>1, <3>2 DEF vars, NoGap, UpTo, Running
    <3>4. ASSUME NEW b \in Agents PROVE Past(b)'
      BY <2>2, <3>1, <3>2 DEF vars, Past, UpTo, Trying
    <3>5. ASSUME NEW b \in Agents PROVE Used(b)'
      BY <2>2, <3>1 DEF vars, Used, SharedOf, RunSlots
    <3> QED BY <3>3, <3>4, <3>5
  <2> QED BY <2>1, <2>2
<1>3. CInv => Covered
  <2> SUFFICES ASSUME CInv, Healthy,
                      \A a \in Agents : pc[a] \in {"exhausted", "left", "raised"},
                      NEW a \in Agents, pc[a] = "exhausted",
                      NEW t \in 0 .. (Limit - 1)
               PROVE  \E r \in runs : r.slot = <<t, 0>> /\ r.status # "running"
    BY DEF Covered
  <2>1. Running /\ \A b \in Agents : Past(b) /\ Used(b)
    BY DEF CInv
  <2>2. Sure(<<t, 0>>)
    BY <2>1 DEF Past, UpTo
  <2>3. PICK b \in Agents : <<t, 0>> \in slots[SharedOf(b)]
    BY <2>2 DEF Sure, OnShared, Coming
  <2>4. PICK c \in Agents : <<t, 0>> \in own[c]
    BY <2>1, <2>3 DEF Used
  <2>5. <<t, 0>> \in RunSlots
    BY <2>1, <2>4 DEF Used
  <2>6. PICK r \in runs : r.slot = <<t, 0>>
    BY <2>5 DEF RunSlots
  <2>7. r.status # "running"
    BY <2>1 DEF Running
  <2> QED BY <2>6, <2>7
<1> QED BY <1>1, <1>2, <1>3, Invariance, RunsInvariance, PTL DEF Spec

\* Every agent has stopped, on its own account or not.
Stopped == \A a \in Agents : pc[a] \in {"exhausted", "left", "raised", "dead"}

\* SweepCovers, of every sweep whose agents stop, with no fairness: that they
\* stop is all that FairSpec's fairness is needed for.
THEOREM StoppedCovers == ASSUME Agents # {} PROVE Spec /\ <>Stopped => SweepCovers
<1> DEFINE P == \/ ~Healthy
                \/ \E a \in Agents : pc[a] \in {"left", "raised"}
                \/ \A t \in 0 .. (Limit - 1) :
                      \E r \in runs : r.slot = <<t, 0>> /\ r.status # "running"
<1>1. Covered /\ Stopped => P
  <2> SUFFICES ASSUME Covered, Stopped, Healthy,
                      \A a \in Agents : pc[a] \notin {"left", "raised"}
               PROVE  \A t \in 0 .. (Limit - 1) :
                         \E r \in runs : r.slot = <<t, 0>> /\ r.status # "running"
    OBVIOUS
  <2>1. \A a \in Agents : pc[a] = "exhausted"
    BY DEF Stopped, Healthy
  <2> QED BY <2>1 DEF Covered
<1>2. Stopped /\ [Next]_vars => Stopped'
  <2> SUFFICES ASSUME Stopped, [Next]_vars PROVE Stopped'
    OBVIOUS
  <2>1. ASSUME NEW a \in Agents PROVE ~(Step(a) \/ ClaimFault(a) \/ Die(a))
    BY DEF Stopped, Step, ReadRows, TryRetry, NoRetry, List, GiveUp, ClaimLocal, ClaimRemote,
           Undo, CreateRun, EndTrial, ClaimFault, Die
  <2>2. UNCHANGED vars
    BY <2>1 DEF Next
  <2> QED BY <2>2 DEF vars, Stopped
<1>3. SweepCovers <=> <>[]P
  BY DEF SweepCovers
<1> HIDE DEF P
<1> QED BY <1>1, <1>2, <1>3, CoveredAlways, PTL DEF Spec
=============================================================================
