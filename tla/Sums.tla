-------------------------------- MODULE Sums --------------------------------
(***************************************************************************)
(* What the sums of the library are: SumFunctionOnSet and MapThenSumSet    *)
(* take the elements of a set one by one in the order of CHOOSE, by a      *)
(* recursive function over the subsets (Folds).  Nothing is assumed of     *)
(* that function: here it is shown to exist, to be determined by its       *)
(* equation, and not to depend on the order.                               *)
(*                                                                         *)
(* The induction is over finite sets.  It goes by a smallest               *)
(* counterexample (SmallestSet), as the statement that is proved cannot be *)
(* handed over to a theorem.                                               *)
(***************************************************************************)
EXTENDS Functions, FiniteSetTheorems, TLAPS

Pick(s) == CHOOSE x \in s : TRUE

\* h is the recursive function by which f is summed over the subsets of S.
Adds(h, f, S) ==
    h = [s \in SUBSET S |-> IF s = {} THEN 0 ELSE f[Pick(s)] + h[s \ {Pick(s)}]]

\* Among subsets of a finite set there is one without a smaller one.
LEMMA SmallestSet ==
    ASSUME NEW S, IsFiniteSet(S), NEW bad \in SUBSET (SUBSET S), bad # {}
    PROVE  \E s \in bad : \A t \in bad : t \subseteq s => t = s
<1>1. IsWellFoundedOn(StrictSubsetOrdering(S), SUBSET S)
  BY FS_StrictSubsetOrderingWellFounded, FS_FiniteSubsetsOfFinite
<1>2. PICK s \in bad : \A t \in bad : ~(<<t, s>> \in StrictSubsetOrdering(S))
  BY <1>1, WFMin
<1>3. ASSUME NEW t \in bad, t \subseteq s
      PROVE  t = s
  BY <1>2, <1>3 DEF StrictSubsetOrdering
<1> QED
  BY <1>3

\* CHOOSE takes an element, if there is one.
LEMMA PickIsElement == \A s : s # {} => Pick(s) \in s
BY DEF Pick

\* One step of the sum.
LEMMA AddsStep ==
    ASSUME NEW h, NEW f, NEW S, Adds(h, f, S), NEW s \in SUBSET S
    PROVE  h[s] = IF s = {} THEN 0 ELSE f[Pick(s)] + h[s \ {Pick(s)}]
BY DEF Adds

\* The equation determines the sums, whatever the set they are part of.
LEMMA SumsAreUnique ==
    ASSUME NEW S, IsFiniteSet(S), NEW A, NEW B, S \subseteq A, S \subseteq B,
           NEW f, NEW g, NEW h, Adds(g, f, A), Adds(h, f, B)
    PROVE  g[S] = h[S]
<1> DEFINE bad == {s \in SUBSET S : g[s] # h[s]}
<1>1. ASSUME bad # {}
      PROVE  FALSE
  <2>1. bad \in SUBSET (SUBSET S)
    OBVIOUS
  <2>2. PICK s \in bad : \A t \in bad : t \subseteq s => t = s
    <3> HIDE DEF bad
    <3> QED
      BY <1>1, <2>1, SmallestSet
  <2>3. s \in SUBSET S /\ s \in SUBSET A /\ s \in SUBSET B /\ g[s] # h[s]
    OBVIOUS
  <2>4. /\ g[s] = IF s = {} THEN 0 ELSE f[Pick(s)] + g[s \ {Pick(s)}]
        /\ h[s] = IF s = {} THEN 0 ELSE f[Pick(s)] + h[s \ {Pick(s)}]
    BY <2>3, AddsStep
  <2>5. s # {}
    BY <2>3, <2>4
  <2>6. Pick(s) \in s
    BY <2>5, PickIsElement
  <2>7. s \ {Pick(s)} \in SUBSET S /\ s \ {Pick(s)} \subseteq s /\ s \ {Pick(s)} # s
    BY <2>3, <2>6
  <2>8. g[s \ {Pick(s)}] = h[s \ {Pick(s)}]
    BY <2>2, <2>7
  <2> QED
    BY <2>3, <2>4, <2>8
<1>2. S \in SUBSET S
  OBVIOUS
<1> QED
  BY <1>1, <1>2

\* The sums exist.
LEMMA SumsExist ==
    ASSUME NEW S, IsFiniteSet(S), NEW f
    PROVE  \E h : Adds(h, f, S)
<1> DEFINE bad == {s \in SUBSET S : ~\E h : Adds(h, f, s)}
<1>1. ASSUME bad # {}
      PROVE  FALSE
  <2>1. bad \in SUBSET (SUBSET S)
    OBVIOUS
  <2>2. PICK s \in bad : \A t \in bad : t \subseteq s => t = s
    <3> HIDE DEF bad
    <3> QED
      BY <1>1, <2>1, SmallestSet
  <2>3. s \in SUBSET S /\ ~\E h : Adds(h, f, s) /\ IsFiniteSet(s)
    BY FS_Subset
  <2> DEFINE Below(t) == CHOOSE h : Adds(h, f, t)
             sum == [t \in SUBSET s |->
                        IF t = {} THEN 0
                        ELSE f[Pick(t)] + Below(t \ {Pick(t)})[t \ {Pick(t)}]]
  <2>4. ASSUME NEW t \in SUBSET s, t # s
        PROVE  Adds(Below(t), f, t)
    <3>1. t \notin bad
      BY <2>2, <2>4
    <3>2. \E h : Adds(h, f, t)
      BY <3>1, <2>3
    <3> QED
      BY <3>2
  <2>5. ASSUME NEW t \in SUBSET s, t # s
        PROVE  sum[t] = Below(t)[t]
    <3>1. Adds(Below(t), f, t)
      BY <2>4, <2>5
    <3> HIDE DEF Below
    <3>2. Below(t)[t] = IF t = {} THEN 0 ELSE f[Pick(t)] + Below(t)[t \ {Pick(t)}]
      BY <3>1, AddsStep
    <3>3. CASE t = {}
      BY <3>2, <3>3
    <3>4. CASE t # {}
      <4> DEFINE r == t \ {Pick(t)}
      <4>1. Pick(t) \in t
        BY <3>4, PickIsElement
      <4>2. r \in SUBSET s /\ r # s /\ r \subseteq t /\ r \subseteq r
        BY <4>1, <2>5
      <4>3. Adds(Below(r), f, r) /\ IsFiniteSet(r)
        BY <4>2, <2>3, <2>4, FS_Subset
      <4>4. Below(r)[r] = Below(t)[r]
        <5> HIDE DEF r
        <5> QED
          BY <3>1, <4>2, <4>3, SumsAreUnique
      <4>5. sum[t] = f[Pick(t)] + Below(r)[r]
        BY <3>4
      <4> QED
        BY <3>2, <3>4, <4>4, <4>5
    <3> QED
      BY <3>3, <3>4
  <2>6. Adds(sum, f, s)
    <3>1. ASSUME NEW t \in SUBSET s
          PROVE  sum[t] = IF t = {} THEN 0 ELSE f[Pick(t)] + sum[t \ {Pick(t)}]
      <4>1. CASE t = {}
        BY <4>1
      <4>2. CASE t # {}
        <5> DEFINE r == t \ {Pick(t)}
        <5>1. Pick(t) \in t
          BY <4>2, PickIsElement
        <5>2. r \in SUBSET s /\ r # s
          BY <5>1
        <5>3. sum[r] = Below(r)[r]
          <6> HIDE DEF r, sum, Below
          <6> QED
            BY <5>2, <2>5
        <5>4. sum[t] = f[Pick(t)] + Below(r)[r]
          BY <4>2
        <5> HIDE DEF sum, Below
        <5> QED
          BY <4>2, <5>3, <5>4
      <4> QED
        BY <4>1, <4>2
    <3>2. sum = [t \in SUBSET s |-> sum[t]]
      OBVIOUS
    <3> HIDE DEF sum
    <3>3. sum = [t \in SUBSET s |-> IF t = {} THEN 0 ELSE f[Pick(t)] + sum[t \ {Pick(t)}]]
      BY <3>1, <3>2
    <3> QED
      BY <3>3 DEF Adds
  <2> QED
    BY <2>3, <2>6
<1>2. S \in SUBSET S
  OBVIOUS
<1> QED
  BY <1>1, <1>2
-----------------------------------------------------------------------------
(* The order does not matter. *)

\* The sum over a smaller set, by the function of a larger one.
LEMMA AddsPart ==
    ASSUME NEW h, NEW f, NEW S, Adds(h, f, S), NEW T \in SUBSET S, IsFiniteSet(T),
           NEW g, Adds(g, f, T)
    PROVE  g[T] = h[T]
BY SumsAreUnique

\* Sums of integers are integers.
LEMMA SumsAreIntegers ==
    ASSUME NEW S, IsFiniteSet(S), NEW f, \A x \in S : f[x] \in Int, NEW h, Adds(h, f, S)
    PROVE  \A s \in SUBSET S : h[s] \in Int
<1> DEFINE bad == {s \in SUBSET S : h[s] \notin Int}
<1> SUFFICES ASSUME bad # {}
             PROVE  FALSE
  OBVIOUS
<1>1. bad \in SUBSET (SUBSET S)
  OBVIOUS
<1>2. PICK s \in bad : \A t \in bad : t \subseteq s => t = s
  <2> HIDE DEF bad
  <2> QED
    BY <1>1, SmallestSet
<1>3. h[s] = IF s = {} THEN 0 ELSE f[Pick(s)] + h[s \ {Pick(s)}]
  BY AddsStep
<1>4. s # {}
  BY <1>3
<1>5. Pick(s) \in s
  BY <1>4, PickIsElement
<1>6. s \ {Pick(s)} \in SUBSET S /\ s \ {Pick(s)} \subseteq s /\ s \ {Pick(s)} # s
  BY <1>5
<1>7. h[s \ {Pick(s)}] \in Int /\ f[Pick(s)] \in Int
  BY <1>2, <1>5, <1>6
<1>8. h[s] \in Int
  BY <1>3, <1>4, <1>7
<1> QED
  BY <1>8

\* Any element may be the last one added.
LEMMA AddsAnyElement ==
    ASSUME NEW S, IsFiniteSet(S), NEW f, \A x \in S : f[x] \in Int, NEW h, Adds(h, f, S),
           NEW T \in SUBSET S, NEW z \in T
    PROVE  h[T] = f[z] + h[T \ {z}]
<1> DEFINE bad == {s \in SUBSET S : \E x \in s : h[s] # f[x] + h[s \ {x}]}
<1> SUFFICES ASSUME bad # {}
             PROVE  FALSE
  <2>1. bad = {} => h[T] = f[z] + h[T \ {z}]
    OBVIOUS
  <2> QED
    BY <2>1
<1>1. bad \in SUBSET (SUBSET S)
  OBVIOUS
<1>2. PICK s \in bad : \A t \in bad : t \subseteq s => t = s
  <2> HIDE DEF bad
  <2> QED
    BY <1>1, SmallestSet
<1>3. PICK x \in s : h[s] # f[x] + h[s \ {x}]
  OBVIOUS
<1> DEFINE y == Pick(s)
<1>4. y \in s /\ h[s] = f[y] + h[s \ {y}]
  <2>1. s # {} /\ s \in SUBSET S
    BY <1>3
  <2>2. h[s] = IF s = {} THEN 0 ELSE f[Pick(s)] + h[s \ {Pick(s)}]
    BY <2>1, AddsStep
  <2> QED
    BY <2>1, <2>2, PickIsElement
<1> HIDE DEF y
<1>5. x # y
  BY <1>3, <1>4
<1>6. ASSUME NEW t \in SUBSET s, t # s, NEW a \in t
      PROVE  h[t] = f[a] + h[t \ {a}]
  BY <1>2, <1>6
<1>7. h[s \ {y}] = f[x] + h[(s \ {y}) \ {x}]
  BY <1>4, <1>5, <1>6
<1>8. h[s \ {x}] = f[y] + h[(s \ {x}) \ {y}]
  BY <1>4, <1>5, <1>6
<1>9. (s \ {y}) \ {x} = (s \ {x}) \ {y}
  OBVIOUS
<1>10. f[x] \in Int /\ f[y] \in Int /\ h[(s \ {x}) \ {y}] \in Int
  <2>1. (s \ {x}) \ {y} \in SUBSET S /\ x \in S /\ y \in S
    BY <1>4
  <2> QED
    BY <2>1, SumsAreIntegers
<1> HIDE DEF bad
<1> DEFINE rest == h[(s \ {x}) \ {y}]
<1>11. h[s] = f[y] + (f[x] + rest)
  BY <1>4, <1>7, <1>9
<1>12. h[s \ {x}] = f[y] + rest
  BY <1>8
<1>13. rest \in Int
  BY <1>10
<1> HIDE DEF rest
<1>14. h[s] = f[x] + h[s \ {x}]
  BY <1>10, <1>11, <1>12, <1>13
<1> QED
  BY <1>3, <1>14
-----------------------------------------------------------------------------
(* SumFunctionOnSet. *)

\* It is the sum.
LEMMA SumAdds ==
    ASSUME NEW S, IsFiniteSet(S), NEW f
    PROVE  \E h : Adds(h, f, S) /\ SumFunctionOnSet(f, S) = h[S]
<1> DEFINE iter == CHOOSE h : Adds(h, f, S)
<1>1. Adds(iter, f, S)
  <2>1. \E h : Adds(h, f, S)
    BY SumsExist
  <2> QED
    BY <2>1
<1>2. SumFunctionOnSet(f, S) = iter[S]
  BY DEF SumFunctionOnSet, FoldFunctionOnSet, MapThenFoldSet, Adds, Pick
<1> HIDE DEF iter
<1> QED
  BY <1>1, <1>2

\* The sum of nothing.
LEMMA SumOfNone ==
    ASSUME NEW f
    PROVE  SumFunctionOnSet(f, {}) = 0
<1>1. PICK h : Adds(h, f, {}) /\ SumFunctionOnSet(f, {}) = h[{}]
  BY SumAdds, FS_EmptySet
<1> QED
  BY <1>1, AddsStep

\* The sum of a set with one element more.
LEMMA SumOfMore ==
    ASSUME NEW S, IsFiniteSet(S), NEW x, x \notin S,
           NEW f, \A y \in S \cup {x} : f[y] \in Int
    PROVE  /\ SumFunctionOnSet(f, S) \in Int
           /\ SumFunctionOnSet(f, S \cup {x}) = SumFunctionOnSet(f, S) + f[x]
<1> DEFINE T == S \cup {x}
<1>1. IsFiniteSet(T) /\ S \in SUBSET T /\ T \in SUBSET T /\ x \in T /\ T \ {x} = S
  BY FS_AddElement
<1> HIDE DEF T
<1>2. PICK g : Adds(g, f, S) /\ SumFunctionOnSet(f, S) = g[S]
  BY SumAdds
<1>3. PICK h : Adds(h, f, T) /\ SumFunctionOnSet(f, T) = h[T]
  BY <1>1, SumAdds
<1>4. g[S] = h[S]
  BY <1>1, <1>2, <1>3, AddsPart
<1>5. \A y \in T : f[y] \in Int
  BY DEF T
<1>6. h[T] = f[x] + h[S] /\ h[S] \in Int
  <2>1. \A s \in SUBSET T : h[s] \in Int
    BY <1>1, <1>3, <1>5, SumsAreIntegers
  <2>2. h[T] = f[x] + h[T \ {x}]
    BY <1>1, <1>3, <1>5, AddsAnyElement
  <2> QED
    BY <1>1, <2>1, <2>2
<1>7. f[x] \in Int
  BY <1>1, <1>5
<1> QED
  BY <1>2, <1>3, <1>4, <1>6, <1>7 DEF T
=============================================================================
