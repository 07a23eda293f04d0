----------------------------- MODULE DataLemmas -----------------------------
(***************************************************************************)
(* Facts about finite sets of numbers that the proofs of several           *)
(* components need.                                                        *)
(***************************************************************************)
EXTENDS Integers, FiniteSets, FiniteSetsExt, FiniteSetTheorems, TLAPS

\* A finite set of integers that is not empty has a greatest element: otherwise
\* take a smallest subset that has none, and leave one element out.
LEMMA GreatestExists ==
    ASSUME NEW S \in SUBSET Int, IsFiniteSet(S), S # {}
    PROVE  \E x \in S : \A y \in S : y <= x
<1> DEFINE Bad == {T \in FiniteSubsetsOf(S) : T # {} /\ ~\E x \in T : \A y \in T : y <= x}
<1> SUFFICES ASSUME Bad # {} PROVE FALSE
  BY DEF FiniteSubsetsOf
<1>1. IsWellFoundedOn(StrictSubsetOrdering(S), FiniteSubsetsOf(S))
  BY FS_StrictSubsetOrderingWellFounded
<1>2. PICK T \in Bad : \A U \in Bad : <<U, T>> \notin StrictSubsetOrdering(S)
  <2>1. Bad \subseteq FiniteSubsetsOf(S) OBVIOUS
  <2> HIDE DEF Bad
  <2> QED BY <1>1, <2>1, WFMin
<1>3. PICK t \in T : TRUE
  OBVIOUS
<1> DEFINE U == T \ {t}
<1>4. T \subseteq S /\ IsFiniteSet(T) /\ t \in Int
  BY DEF FiniteSubsetsOf
<1>5. U \in FiniteSubsetsOf(S) /\ <<U, T>> \in StrictSubsetOrdering(S)
  <2>1. IsFiniteSet(U) BY <1>4, FS_RemoveElement
  <2> QED BY <1>4, <2>1 DEF FiniteSubsetsOf, StrictSubsetOrdering
<1>6. CASE U = {}
  <2>1. T = {t} BY <1>6
  <2> QED BY <1>4, <2>1
<1>7. CASE U # {}
  <2>1. PICK x \in U : \A y \in U : y <= x
    BY <1>2, <1>5, <1>7
  <2>2. x \in Int /\ \A y \in T : y = t \/ y \in U
    BY <1>4
  <2>3. CASE x <= t
    BY <1>4, <2>1, <2>2, <2>3
  <2>4. CASE t <= x
    BY <1>4, <2>1, <2>2, <2>4
  <2> QED BY <1>4, <2>2, <2>3, <2>4
<1> QED BY <1>6, <1>7

\* What Max returns.
LEMMA MaxIs ==
    ASSUME NEW S \in SUBSET Int, IsFiniteSet(S), S # {}
    PROVE  Max(S) \in S /\ \A x \in S : x <= Max(S)
BY GreatestExists DEF Max

\* The least element, for sets of naturals.
LEMMA MinIs ==
    ASSUME NEW S \in SUBSET Nat, S # {}
    PROVE  Min(S) \in S /\ \A x \in S : Min(S) <= x
<1>1. PICK n \in S : TRUE
  OBVIOUS
<1> DEFINE T == {k \in (0 - n) .. 0 : 0 - k \in S}
<1>2. IsFiniteSet(T) /\ T # {} /\ T \in SUBSET Int
  <2>1. IsFiniteSet((0 - n) .. 0) BY FS_Interval
  <2>2. IsFiniteSet(T) BY <2>1, FS_Subset
  <2>3. 0 - n \in T OBVIOUS
  <2> QED BY <2>2, <2>3
<1>3. PICK m \in T : \A k \in T : k <= m
  BY <1>2, GreatestExists
<1>4. 0 - m \in S /\ \A x \in S : 0 - m <= x
  <2> SUFFICES ASSUME NEW x \in S PROVE 0 - m <= x
    BY <1>3
  <2>1. CASE x <= n
    <3>1. 0 - x \in T BY <2>1
    <3>2. 0 - x <= m BY <1>3, <3>1
    <3> QED BY <3>2
  <2>2. CASE x > n
    BY <2>2
  <2> QED BY <2>1, <2>2
<1> QED BY <1>4 DEF Min

\* The values of a function on a finite set are finitely many.
LEMMA ImageFinite ==
    ASSUME NEW D, IsFiniteSet(D), NEW f, f = [x \in D |-> f[x]]
    PROVE  IsFiniteSet({f[x] : x \in D})
<1> DEFINE T == {f[x] : x \in D}
<1>1. f \in Surjection(D, T)
  BY DEF Surjection
<1> QED BY <1>1, FS_Surjection
=============================================================================
