--------------------------- MODULE Rules_proofs -----------------------------
(***************************************************************************)
(* What the pure rules promise for every input: the levels of a signal     *)
(* (signals.py), the paper account (paper_account.py) and the pattern      *)
(* memory (pattern_persist.py). The two lemmas about induction at the      *)
(* beginning are what a proof about a walk, a fold over a list or a finite *)
(* set rests on, here and in the other modules of proofs.                  *)
(***************************************************************************)
EXTENDS PatternMemory, PaperAccount, SignalLevels, FiniteSetTheorems, WellFoundedInduction, TLAPS

\* Induction over a finite set: what holds of the empty set and survives one
\* more element holds of the whole.
LEMMA SetInduction ==
    ASSUME NEW S, IsFiniteSet(S), NEW X,
           {} \in X, \A T \in SUBSET S, e \in S : T \in X => T \union {e} \in X
    PROVE  S \in X
<1> DEFINE Bd == {T \in SUBSET S : T \notin X}
<1> SUFFICES ASSUME Bd # {} PROVE FALSE
  OBVIOUS
<1>1. FiniteSubsetsOf(S) = SUBSET S
  BY FS_FiniteSubsetsOfFinite
<1>2. IsWellFoundedOn(StrictSubsetOrdering(S), SUBSET S)
  BY <1>1, FS_StrictSubsetOrderingWellFounded
<1>3. PICK T \in Bd : \A U \in Bd : <<U, T>> \notin StrictSubsetOrdering(S)
  BY <1>2, WFMin, Zenon
<1>4. PICK e : e \in T
  OBVIOUS
<1>5. T \ {e} \in SUBSET S /\ T \ {e} # T
  BY <1>4
<1>6. <<T \ {e}, T>> \in StrictSubsetOrdering(S)
  BY <1>5 DEF StrictSubsetOrdering
<1>7. T \ {e} \in X
  BY <1>3, <1>5, <1>6
<1>8. (T \ {e}) \union {e} = T
  BY <1>4
<1> QED
  BY <1>3, <1>4, <1>5, <1>7, <1>8

\* Induction over the numbers up to n.
LEMMA UpTo ==
    ASSUME NEW n \in Nat, NEW X, 0 \in X,
           \A m \in 0..(n - 1) : m \in X => m + 1 \in X
    PROVE  n \in X /\ \A m \in 0..n : m \in X
<1> DEFINE Y == {T \in SUBSET (0..n) : T = {} \/ \E m \in T : \A k \in T : m <= k}
<1>1. {} \in Y
  OBVIOUS
<1>2. ASSUME NEW T \in SUBSET (0..n), NEW e \in 0..n, T \in Y PROVE T \union {e} \in Y
  <2>1. CASE T = {}
    BY <2>1
  <2>2. ASSUME NEW m \in T, \A k \in T : m <= k PROVE T \union {e} \in Y
    <3>1. CASE m <= e
      BY <2>2, <3>1
    <3>2. CASE e <= m
      BY <2>2, <3>2
    <3> QED
      BY <3>1, <3>2
  <2> QED
    BY <1>2, <2>1, <2>2
<1>3. IsFiniteSet(0..n)
  BY FS_Interval
<1> DEFINE Bd == {m \in 0..n : m \notin X}
<1>4. ASSUME Bd # {} PROVE FALSE
  <2>1. IsFiniteSet(Bd)
    BY <1>3, FS_Subset
  <2>2. Bd \in Y
    <3> HIDE DEF Y
    <3>1. \A T \in SUBSET Bd, e \in Bd : T \in Y => T \union {e} \in Y
      BY <1>2
    <3> HIDE DEF Bd
    <3> QED
      BY <1>1, <2>1, <3>1, SetInduction
  <2>3. PICK m \in Bd : \A k \in Bd : m <= k
    BY <1>4, <2>2
  <2>4. m # 0 /\ m - 1 \in 0..(n-1) /\ m - 1 \in X
    BY <2>3
  <2> QED
    BY <2>3, <2>4
<1> QED
  BY <1>4

\* Of any sets of elements of a finite set, one has no smaller one among them.
LEMMA SmallestOf ==
    ASSUME NEW S, IsFiniteSet(S), NEW Bd \in SUBSET SUBSET S, Bd # {}
    PROVE  \E T \in Bd : \A U \in Bd : U \in SUBSET T => U = T
<1>1. FiniteSubsetsOf(S) = SUBSET S
  BY FS_FiniteSubsetsOfFinite
<1>2. IsWellFoundedOn(StrictSubsetOrdering(S), SUBSET S)
  BY <1>1, FS_StrictSubsetOrderingWellFounded
<1>3. PICK T \in Bd : \A U \in Bd : <<U, T>> \notin StrictSubsetOrdering(S)
  BY <1>2, WFMin, Zenon
<1>4. ASSUME NEW U \in Bd, U \in SUBSET T, U # T PROVE FALSE
  <2>1. U \in SUBSET S /\ T \in SUBSET S
    OBVIOUS
  <2>2. <<U, T>> \in StrictSubsetOrdering(S)
    BY <1>4, <2>1 DEF StrictSubsetOrdering
  <2> QED
    BY <1>3, <2>2
<1> QED
  BY <1>4

\* Descent in a finite set: what holds of a subset once it holds of all the
\* smaller ones holds of every subset.
LEMMA SetDescent ==
    ASSUME NEW S, IsFiniteSet(S), NEW X,
           \A T \in SUBSET S : (\A U \in SUBSET T : U # T => U \in X) => T \in X
    PROVE  \A T \in SUBSET S : T \in X
<1> DEFINE Bd == {T \in SUBSET S : T \notin X}
<1> SUFFICES ASSUME Bd # {} PROVE FALSE
  OBVIOUS
<1>1. PICK T \in Bd : \A U \in Bd : U \in SUBSET T => U = T
  <2>1. Bd \in SUBSET SUBSET S
    OBVIOUS
  <2> HIDE DEF Bd
  <2> QED
    BY <2>1, SmallestOf
<1>2. ASSUME NEW U \in SUBSET T, U # T PROVE U \in X
  BY <1>1, <1>2
<1>3. T \in SUBSET S /\ T \notin X
  OBVIOUS
<1> QED
  BY <1>2, <1>3

\* it folds every subset s of S: it takes out p[s] and goes on with the rest
IsFold(it, S, base, p, H) ==
    \A s \in SUBSET S : it[s] = IF s = {} THEN base ELSE H[<<s, it[s \ {p[s]}]>>]

\* Such a fold exists over every finite set.
LEMMA FoldExists ==
    ASSUME NEW S, IsFiniteSet(S), NEW V, NEW base \in V,
           NEW p, \A s \in SUBSET S : s # {} => p[s] \in s,
           NEW H \in [(SUBSET S) \X V -> V]
    PROVE  \E it \in [SUBSET S -> V] : IsFold(it, S, base, p, H)
<1> DEFINE D(n) == {s \in SUBSET S : Cardinality(s) <= n}
           Good(it, n) == \A s \in D(n) : it[s] = IF s = {} THEN base ELSE H[<<s, it[s \ {p[s]}]>>]
           X == {n \in 0..Cardinality(S) : \E it \in [D(n) -> V] : Good(it, n)}
<1>0. Cardinality(S) \in Nat /\ \A s \in SUBSET S : IsFiniteSet(s) /\ Cardinality(s) \in Nat
  BY FS_CardinalityType, FS_Subset
<1>1. 0 \in X
  <2>1. D(0) = {{}}
    BY <1>0, FS_EmptySet
  <2>2. [s \in D(0) |-> base] \in [D(0) -> V] /\ Good([s \in D(0) |-> base], 0)
    BY <2>1
  <2> HIDE DEF D
  <2>3. \E it \in [D(0) -> V] : Good(it, 0)
    BY <2>2
  <2> HIDE DEF Good
  <2> QED
    BY <1>0, <2>3
<1>2. ASSUME NEW n \in 0..(Cardinality(S) - 1), n \in X PROVE n + 1 \in X
  <2>1. PICK it \in [D(n) -> V] : Good(it, n)
    BY <1>2
  <2> DEFINE more == [s \in D(n + 1) |-> IF s = {} THEN base ELSE H[<<s, it[s \ {p[s]}]>>]]
  <2>2. ASSUME NEW s \in D(n + 1), s # {} PROVE s \ {p[s]} \in D(n)
    <3>1. s \in SUBSET S /\ IsFiniteSet(s) /\ p[s] \in s
      BY <1>0, <2>2
    <3>2. Cardinality(s \ {p[s]}) = Cardinality(s) - 1
      BY <3>1, FS_RemoveElement
    <3> QED
      BY <1>0, <2>2, <3>1, <3>2
  <2>3. D(n) \subseteq D(n + 1) /\ {} \in D(n)
    BY <1>0, FS_EmptySet
  <2>4. \A s \in D(n) : more[s] = it[s]
    BY <2>1, <2>3
  <2>5. more \in [D(n + 1) -> V]
    <3>1. ASSUME NEW s \in D(n + 1), s # {} PROVE H[<<s, it[s \ {p[s]}]>>] \in V
      <4>1. it[s \ {p[s]}] \in V
        BY <2>1, <2>2, <3>1
      <4> QED
        BY <3>1, <4>1
    <3> HIDE DEF D
    <3> QED
      BY <3>1
  <2>6. Good(more, n + 1)
    <3> HIDE DEF D
    <3> QED
      BY <2>2, <2>4
  <2> HIDE DEF more, D
  <2>7. n + 1 \in 0..Cardinality(S)
    BY <1>0
  <2> QED
    BY <2>5, <2>6, <2>7
<1>3. Cardinality(S) \in X
  <2> HIDE DEF X
  <2> QED
    BY <1>0, <1>1, <1>2, UpTo
<1>4. D(Cardinality(S)) = SUBSET S
  BY <1>0, FS_Subset
<1> HIDE DEF D
<1> QED
  BY <1>3, <1>4 DEF IsFold

\* The sum of a function over a finite set: nothing over the empty set, and
\* whichever element is taken out, its value and the sum over the rest.
LEMMA SumDrop ==
    ASSUME NEW S, IsFiniteSet(S), NEW f \in [S -> Int]
    PROVE  /\ SumFunctionOnSet(f, {}) = 0
           /\ \A T \in SUBSET S :
                 /\ SumFunctionOnSet(f, T) \in Int
                 /\ \A e \in T : SumFunctionOnSet(f, T) = f[e] + SumFunctionOnSet(f, T \ {e})
<1> DEFINE Pick(s) == CHOOSE x \in s : TRUE
           Sums(it, T) == it = [s \in SUBSET T |-> IF s = {} THEN 0 ELSE f[Pick(s)] + it[s \ {Pick(s)}]]
           total(T) == CHOOSE it : Sums(it, T)
<1>1. \A T : SumFunctionOnSet(f, T) = total(T)[T]
  BY DEF SumFunctionOnSet, FoldFunctionOnSet, MapThenFoldSet
<1>2. \A s : s # {} => Pick(s) \in s
  OBVIOUS
<1> HIDE DEF Pick
<1>3. ASSUME NEW T \in SUBSET S
      PROVE  Sums(total(T), T) /\ total(T) \in [SUBSET T -> Int]
  <2>1. IsFiniteSet(T)
    BY FS_Subset
  <2> DEFINE p == [s \in SUBSET T |-> Pick(s)]
             H == [c \in (SUBSET T) \X Int |-> IF c[1] = {} THEN 0 ELSE f[Pick(c[1])] + c[2]]
  <2>2. H \in [(SUBSET T) \X Int -> Int] /\ \A s \in SUBSET T : s # {} => p[s] \in s
    BY <1>2
  <2>3. \E it \in [SUBSET T -> Int] : IsFold(it, T, 0, p, H)
    <3> HIDE DEF p, H
    <3>1. PICK V : V = Int
      OBVIOUS
    <3>2. PICK zero \in V : zero = 0
      BY <3>1
    <3>3. H \in [(SUBSET T) \X V -> V]
      BY <2>2, <3>1
    <3>4. \E it \in [SUBSET T -> V] : IsFold(it, T, zero, p, H)
      BY <2>1, <2>2, <3>3, FoldExists
    <3> QED
      BY <3>1, <3>2, <3>4
  <2>4. PICK it \in [SUBSET T -> Int] : IsFold(it, T, 0, p, H)
    BY <2>3
  <2>5. \A s \in SUBSET T : it[s] = IF s = {} THEN 0 ELSE f[Pick(s)] + it[s \ {Pick(s)}]
    BY <2>4 DEF IsFold
  <2>6. Sums(it, T)
    BY <2>4, <2>5
  <2>7. Sums(total(T), T)
    BY <2>6
  <2> DEFINE t == total(T)
  <2>8. t = [s \in SUBSET T |-> IF s = {} THEN 0 ELSE f[Pick(s)] + t[s \ {Pick(s)}]]
    BY <2>7
  <2> HIDE DEF t
  <2> DEFINE X == {s \in SUBSET T : t[s] \in Int}
  <2>9. ASSUME NEW s \in SUBSET T, \A u \in SUBSET s : u # s => u \in X PROVE s \in X
    <3>1. CASE s = {}
      BY <2>8, <3>1
    <3>2. CASE s # {}
      <4>1. Pick(s) \in s /\ s \ {Pick(s)} \in SUBSET s /\ s \ {Pick(s)} # s
        BY <1>2, <3>2
      <4>2. f[Pick(s)] \in Int /\ t[s \ {Pick(s)}] \in Int
        BY <2>9, <4>1
      <4>3. t[s] = f[Pick(s)] + t[s \ {Pick(s)}]
        BY <2>8, <3>2
      <4> QED
        BY <4>2, <4>3
    <3> QED
      BY <3>1, <3>2
  <2>10. \A s \in SUBSET T : s \in X
    <3> HIDE DEF X
    <3> QED
      BY <2>1, <2>9, SetDescent
  <2>11. t \in [SUBSET T -> Int]
    BY <2>8, <2>10
  <2> QED
    BY <2>7, <2>11 DEF t
<1> HIDE DEF total
<1>4. ASSUME NEW T \in SUBSET S PROVE \A s \in SUBSET T : total(T)[s] = total(S)[s]
  <2> DEFINE X == {s \in SUBSET T : total(T)[s] = total(S)[s]}
  <2>1. Sums(total(T), T) /\ Sums(total(S), S)
    BY <1>3
  <2>2. ASSUME NEW s \in SUBSET T, \A u \in SUBSET s : u # s => u \in X PROVE s \in X
    <3>1. s \in SUBSET S
      OBVIOUS
    <3>2. /\ total(T)[s] = IF s = {} THEN 0 ELSE f[Pick(s)] + total(T)[s \ {Pick(s)}]
          /\ total(S)[s] = IF s = {} THEN 0 ELSE f[Pick(s)] + total(S)[s \ {Pick(s)}]
      BY <2>1, <3>1
    <3>3. s # {} => s \ {Pick(s)} \in X
      BY <1>2, <2>2
    <3> QED
      BY <3>2, <3>3
  <2>3. IsFiniteSet(T)
    BY FS_Subset
  <2>4. \A s \in SUBSET T : s \in X
    <3> HIDE DEF X
    <3> QED
      BY <2>2, <2>3, SetDescent
  <2> QED
    BY <2>4
<1> DEFINE sum == total(S)
<1>5. \A T \in SUBSET S : SumFunctionOnSet(f, T) = sum[T] /\ sum[T] \in Int
  BY <1>1, <1>3, <1>4
<1>6. \A s \in SUBSET S : sum[s] = IF s = {} THEN 0 ELSE f[Pick(s)] + sum[s \ {Pick(s)}]
  BY <1>3
<1> HIDE DEF sum
<1> DEFINE X == {s \in SUBSET S : \A e \in s : sum[s] = f[e] + sum[s \ {e}]}
<1>7. ASSUME NEW s \in SUBSET S, \A u \in SUBSET s : u # s => u \in X PROVE s \in X
  <2> SUFFICES ASSUME NEW e \in s PROVE sum[s] = f[e] + sum[s \ {e}]
    OBVIOUS
  <2> DEFINE c == Pick(s)
  <2>1. c \in s /\ sum[s] = f[c] + sum[s \ {c}]
    BY <1>2, <1>6
  <2> HIDE DEF c
  <2>2. CASE e = c
    BY <2>1, <2>2
  <2>3. CASE e # c
    <3>1. s \ {c} \in SUBSET s /\ s \ {c} # s /\ e \in s \ {c}
      BY <2>1, <2>3
    <3>2. s \ {e} \in SUBSET s /\ s \ {e} # s /\ c \in s \ {e}
      BY <2>1, <2>3
    <3>3. sum[s \ {c}] = f[e] + sum[(s \ {c}) \ {e}]
      BY <1>7, <3>1
    <3>4. sum[s \ {e}] = f[c] + sum[(s \ {e}) \ {c}]
      BY <1>7, <3>2
    <3>5. (s \ {c}) \ {e} = (s \ {e}) \ {c} /\ (s \ {c}) \ {e} \in SUBSET S
      OBVIOUS
    <3>6. f[c] \in Int /\ f[e] \in Int /\ sum[(s \ {c}) \ {e}] \in Int
      BY <1>5, <2>1, <3>5
    <3> DEFINE d == sum[(s \ {c}) \ {e}]
    <3>7. sum[s] = f[c] + (f[e] + d) /\ sum[s \ {e}] = f[c] + d /\ d \in Int
      BY <2>1, <3>3, <3>4, <3>5, <3>6
    <3> HIDE DEF d
    <3> QED
      BY <3>6, <3>7
  <2> QED
    BY <2>2, <2>3
<1>8. \A s \in SUBSET S : s \in X
  <2> HIDE DEF X
  <2> QED
    BY <1>7, SetDescent
<1>9. SumFunctionOnSet(f, {}) = 0
  BY <1>5, <1>6
<1>10. ASSUME NEW T \in SUBSET S, NEW e \in T
       PROVE  SumFunctionOnSet(f, T) = f[e] + SumFunctionOnSet(f, T \ {e})
  <2>1. sum[T] = f[e] + sum[T \ {e}]
    BY <1>8
  <2> QED
    BY <1>5, <2>1
<1> QED
  BY <1>5, <1>9, <1>10

-----------------------------------------------------------------------------
(* What the levels promise for every price                                 *)

\* A product with a positive factor keeps the order.
LEMMA ProductOrder ==
    ASSUME NEW d \in Nat \ {0}, NEW x \in Int, NEW y \in Int, x > y
    PROVE  d * x > d * y
  OBVIOUS

\* atr_rr_tp_ladder: whatever the stop, the factor and the reach, the targets
\* are strictly ordered and within the reach, and the last cap of the second
\* target by the third never binds.
THEOREM LadderOrdered ==
    ASSUME NEW dist \in Nat \ {0}, NEW f \in Nat, NEW max \in Nat \ {0}
    PROVE  LET tps == Ladder(dist, f, max) IN
           /\ 0 < tps[1] /\ tps[1] < tps[2] /\ tps[2] < tps[3]
           /\ tps[3] <= Part * max
           /\ tps[2] = Lesser(20 * dist * Greater(660, 13 * f), 3600 * max)
<1> DEFINE a3 == Greater(840, 18 * f)
           a2 == Greater(660, 13 * f)
           a1 == Greater(600, 10 * f)
           tp3 == Lesser(20 * dist * a3, 6000 * max)
           tp2 == Lesser(20 * dist * a2, 3600 * max)
           tp1 == Lesser(20 * dist * a1, 2100 * max)
<1>1. a1 \in Nat /\ a2 \in Nat /\ a3 \in Nat /\ a1 > 0 /\ a2 > 0
  BY DEF Greater
<1>2. 8 * a3 > 10 * a2
  BY DEF Greater
<1> HIDE DEF a1, a2, a3
<1>3. dist * (8 * a3) > dist * (10 * a2)
  <2>1. 8 * a3 \in Int /\ 10 * a2 \in Int
    BY <1>1
  <2> QED
    BY <1>2, <2>1, ProductOrder
<1>4. dist * a1 > 0 /\ dist * a2 > 0
  BY <1>1, ProductOrder
<1> DEFINE p1 == dist * a1
           p2 == dist * a2
           p3 == dist * a3
<1>5. /\ p1 \in Nat /\ p2 \in Nat /\ p3 \in Nat /\ p1 > 0 /\ p2 > 0
      /\ 8 * p3 > 10 * p2
      /\ 20 * dist * a1 = 20 * p1 /\ 20 * dist * a2 = 20 * p2 /\ 20 * dist * a3 = 20 * p3
  BY <1>1, <1>3, <1>4
<1> HIDE DEF p1, p2, p3
<1>6. /\ tp1 \in Nat /\ tp2 \in Nat /\ tp3 \in Nat
      /\ tp1 > 0 /\ tp2 >= 20 /\ 10 * tp2 < 8 * tp3 /\ tp3 <= 6000 * max
  BY <1>5 DEF Lesser
<1>7. tp2 = Lesser(20 * dist * Greater(660, 13 * f), 3600 * max)
  BY DEF a2
<1>8. Ladder(dist, f, max) = <<Lesser(tp1, (9 * tp2) \div 10), Lesser(tp2, (8 * tp3) \div 10), tp3>>
  BY DEF Ladder, a1, a2, a3
<1> HIDE DEF tp1, tp2, tp3
<1>9. Lesser(tp2, (8 * tp3) \div 10) = tp2
  BY <1>6 DEF Lesser
<1>10. /\ 0 < Lesser(tp1, (9 * tp2) \div 10)
       /\ Lesser(tp1, (9 * tp2) \div 10) < tp2
  BY <1>6 DEF Lesser
<1>11. tp2 < tp3
  BY <1>6
<1> QED
  BY <1>6, <1>7, <1>8, <1>9, <1>10, <1>11 DEF Part

\* clear_stop_of_liquidity: a stop within its cap is never tightened and stays
\* within the cap, and one that moves stands beyond every pool that threatened
\* it.  Of finitely many pools one lies farthest: that is the assumption on worst.
THEOREM ClearNeverTightens ==
    ASSUME NEW entry \in Int, NEW dist \in Int, NEW dir, NEW atr \in Int,
           NEW maxStop \in Int, dist <= maxStop,
           NEW pools, \A p \in pools : p.price \in Int,
           NEW worst \in StopThreats(pools, entry, dist, dir, atr),
           \A p \in StopThreats(pools, entry, dist, dir, atr) :
               Sign(dir) * (entry - p.price) <= Sign(dir) * (entry - worst.price)
    PROVE  LET clear == ClearStop(pools, entry, dist, dir, atr, maxStop) IN
           /\ dist <= clear.dist /\ clear.dist <= maxStop
           /\ clear.moved => \A p \in StopThreats(pools, entry, dist, dir, atr) :
                                 Sign(dir) * (entry - p.price) <= clear.dist
<1> DEFINE threats == StopThreats(pools, entry, dist, dir, atr)
           Gap(p) == Sign(dir) * (entry - p.price)
           gaps == {Gap(p) : p \in threats}
           needed == Max(gaps) + Greater(atr \div 10, (entry * 15) \div 10000)
<1>1. Sign(dir) \in Int
  BY DEF Sign
<1>2. \A p \in threats : Gap(p) \in Int
  BY <1>1 DEF StopThreats
<1>3. \A g \in gaps : Gap(worst) >= g /\ g \in Int
  BY <1>2
<1>4. Gap(worst) \in gaps
  OBVIOUS
<1>5. Max(gaps) \in gaps /\ \A g \in gaps : Max(gaps) >= g
  BY <1>3, <1>4 DEF Max
<1>6. Max(gaps) \in Int /\ \A p \in threats : Gap(p) <= Max(gaps)
  BY <1>2, <1>3, <1>5
<1> HIDE DEF gaps
<1>7. atr \div 10 \in Int /\ (entry * 15) \div 10000 \in Int
  OBVIOUS
<1>8. needed \in Int
  BY <1>6, <1>7 DEF Greater
<1>9. ClearStop(pools, entry, dist, dir, atr, maxStop) =
         IF atr <= 0 \/ threats = {} \/ needed <= dist
         THEN [dist |-> dist, moved |-> FALSE, blocked |-> FALSE]
         ELSE IF needed > maxStop
         THEN [dist |-> dist, moved |-> FALSE, blocked |-> TRUE]
         ELSE [dist |-> needed, moved |-> TRUE, blocked |-> FALSE]
  BY DEF ClearStop, gaps
<1>10. ASSUME ~(atr <= 0)
       PROVE  \A p \in threats : Gap(p) <= needed
  <2>1. Greater(atr \div 10, (entry * 15) \div 10000) >= 0
    BY <1>7, <1>10 DEF Greater
  <2>2. Greater(atr \div 10, (entry * 15) \div 10000) \in Int
    BY <1>7 DEF Greater
  <2> QED
    BY <1>2, <1>6, <2>1, <2>2
<1> HIDE DEF needed, threats, Gap
<1>11. CASE atr <= 0 \/ threats = {} \/ needed <= dist
  BY <1>9, <1>11
<1>12. CASE ~(atr <= 0 \/ threats = {} \/ needed <= dist) /\ needed > maxStop
  BY <1>9, <1>12
<1>13. CASE ~(atr <= 0 \/ threats = {} \/ needed <= dist) /\ ~(needed > maxStop)
  <2>1. dist <= needed /\ needed <= maxStop
    BY <1>8, <1>13
  <2>2. \A p \in threats : Gap(p) <= needed
    BY <1>10, <1>13
  <2>3. ClearStop(pools, entry, dist, dir, atr, maxStop) =
            [dist |-> needed, moved |-> TRUE, blocked |-> FALSE]
    BY <1>9, <1>13
  <2> QED
    BY <2>1, <2>2, <2>3 DEF threats, Gap
<1> QED
  BY <1>11, <1>12, <1>13

-----------------------------------------------------------------------------
(* What every event of the walk keeps true, for every configuration and    *)
(* every row.  The walk is a fold of Step over the events, so these are    *)
(* the base and the step of its induction.                                 *)

Configs == [start : Nat \ {0}, margin : Nat \ {0}, fee : Nat]

Fields == {"equity", "reserved", "active", "ruined", "applied", "fees", "filled", "skipped",
           "most", "peak", "drawdown", "dirty", "ts", "ledger"}
IsAccount(acc) ==
    DOMAIN acc = Fields /\ acc.equity \in Int /\ acc.applied \in Int /\ IsFiniteSet(acc.active)

\* never overdrawn, every open position's margin reserved and nothing else,
\* the balance reconciled with what was applied
Sound(cfg, acc) ==
    /\ acc.equity >= 0
    /\ acc.equity = cfg.start + acc.applied
    /\ acc.reserved = cfg.margin * Cardinality(acc.active)

\* Recording a point of the curve moves no money.
LEMMA FlushKeeps ==
    ASSUME NEW cfg, NEW acc, IsAccount(acc), Sound(cfg, acc)
    PROVE  IsAccount(Flush(acc)) /\ Sound(cfg, Flush(acc)) /\ Flush(acc).active = acc.active
<1>1. /\ DOMAIN Flush(acc) = Fields /\ Flush(acc).active = acc.active
      /\ Flush(acc).equity = acc.equity /\ Flush(acc).applied = acc.applied
      /\ Flush(acc).reserved = acc.reserved
  BY DEF Flush, IsAccount, Fields
<1>2. QED BY <1>1 DEF IsAccount, Sound

\* A position that is opened leaves the account sound, with every margin covered.
LEMMA OpenKeeps ==
    ASSUME NEW cfg \in Configs, NEW acc, IsAccount(acc), Sound(cfg, acc),
           NEW row, row \notin acc.active
    PROVE  LET new == Open(cfg, acc, row) IN
           /\ IsAccount(new) /\ Sound(cfg, new)
           /\ row \in new.active => new.reserved <= new.equity
<1> DEFINE new == Open(cfg, acc, row)
           n == Cardinality(acc.active)
<1>1. cfg.margin \in Nat /\ cfg.fee \in Nat /\ n \in Nat
  BY FS_CardinalityType DEF Configs, IsAccount
<1>2. CASE ~Fundable(cfg, acc)
  <2>1. /\ DOMAIN new = Fields /\ new.active = acc.active /\ new.equity = acc.equity
        /\ new.applied = acc.applied /\ new.reserved = acc.reserved
    BY <1>2 DEF Open, IsAccount, Fields
  <2>2. QED BY <2>1 DEF IsAccount, Sound
<1>3. CASE Fundable(cfg, acc)
  <2>1. /\ DOMAIN new = Fields /\ new.active = acc.active \union {row}
        /\ new.equity = acc.equity - cfg.fee /\ new.applied = acc.applied - cfg.fee
        /\ new.reserved = acc.reserved + cfg.margin
    BY <1>3 DEF Open, IsAccount, Fields
  <2>2. IsFiniteSet(new.active) /\ Cardinality(new.active) = n + 1
    <3>1. IsFiniteSet(acc.active \union {row}) /\ Cardinality(acc.active \union {row}) = n + 1
      BY FS_AddElement DEF IsAccount
    <3> HIDE DEF new
    <3>2. QED BY <2>1, <3>1
  <2>3. /\ cfg.margin * n \in Int /\ cfg.margin * n >= 0
        /\ cfg.margin * (n + 1) = cfg.margin * n + cfg.margin
    BY <1>1
  <2>4. acc.equity - acc.reserved >= cfg.margin + cfg.fee /\ acc.reserved = cfg.margin * n
    BY <1>3 DEF Fundable, Sound
  <2>5. acc.equity \in Int /\ acc.applied \in Int /\ cfg.start \in Int
    BY DEF IsAccount, Configs
  <2> HIDE DEF new, n
  <2>6. new.equity \in Int /\ new.applied \in Int /\ new.equity >= 0
        /\ new.equity = cfg.start + new.applied /\ new.reserved <= new.equity
    BY <1>1, <2>1, <2>3, <2>4, <2>5 DEF Sound
  <2>7. new.reserved = cfg.margin * Cardinality(new.active)
    BY <2>1, <2>2, <2>3, <2>4
  <2>8. QED BY <2>1, <2>2, <2>6, <2>7 DEF IsAccount, Sound, new
<1>4. QED BY <1>2, <1>3

\* A position that is closed leaves the account sound, whatever it returned.
LEMMA CloseKeeps ==
    ASSUME NEW cfg \in Configs, NEW acc, IsAccount(acc), Sound(cfg, acc),
           NEW row, NEW gross \in Int
    PROVE  LET new == Close(cfg, acc, row, gross) IN IsAccount(new) /\ Sound(cfg, new)
<1> DEFINE new == Close(cfg, acc, row, gross)
           n == Cardinality(acc.active)
           delta == IF acc.equity + gross - cfg.fee <= 0 THEN -acc.equity ELSE gross - cfg.fee
<1>1. cfg.margin \in Nat /\ cfg.fee \in Nat /\ n \in Nat
  BY FS_CardinalityType DEF Configs, IsAccount
<1>2. CASE row \notin acc.active
  BY <1>2 DEF Close
<1>3. CASE row \in acc.active
  <2>1. IsFiniteSet(acc.active \ {row}) /\ Cardinality(acc.active \ {row}) = n - 1
    BY <1>3, FS_RemoveElement DEF IsAccount
  <2>2. cfg.margin * (n - 1) = cfg.margin * n - cfg.margin
    BY <1>1
  <2>3. delta \in Int /\ acc.equity + delta >= 0
    BY <1>1 DEF IsAccount
  <2>4. /\ DOMAIN new = Fields /\ new.active = acc.active \ {row}
        /\ new.reserved = acc.reserved - cfg.margin
    BY <1>3 DEF Close, IsAccount, Fields
  <2>5. CASE acc.ruined
    <3>1. new.equity = acc.equity /\ new.applied = acc.applied
      BY <1>3, <2>5 DEF Close, IsAccount, Fields
    <3> HIDE DEF new, n, delta
    <3>2. QED BY <2>1, <2>2, <2>4, <3>1 DEF IsAccount, Sound, new, n
  <2>6. CASE ~acc.ruined
    <3>1. new.equity = acc.equity + delta /\ new.applied = acc.applied + delta
      BY <1>3, <2>6 DEF Close, IsAccount, Fields
    <3>2. acc.equity \in Int /\ acc.applied \in Int /\ cfg.start \in Int
      BY DEF IsAccount, Configs
    <3> HIDE DEF new, n, delta
    <3>3. new.equity \in Int /\ new.applied \in Int /\ new.equity >= 0
          /\ new.equity = cfg.start + new.applied
      BY <2>3, <3>1, <3>2 DEF Sound
    <3>4. new.reserved = cfg.margin * Cardinality(new.active) /\ IsFiniteSet(new.active)
      BY <2>1, <2>2, <2>4 DEF Sound, n
    <3>5. QED BY <2>4, <3>3, <3>4 DEF IsAccount, Sound, new
  <2>7. QED BY <2>5, <2>6
<1>4. QED BY <1>2, <1>3

\* The account of paper_account.build_paper_account starts sound.
THEOREM FreshIsSound ==
    ASSUME NEW cfg \in Configs
    PROVE  IsAccount(Fresh(cfg)) /\ Sound(cfg, Fresh(cfg))
<1>1. IsFiniteSet({}) /\ Cardinality({}) = 0
  BY FS_EmptySet
<1>2. QED BY <1>1 DEF Fresh, Sound, Configs, IsAccount, Fields

\* No event of the walk overdraws the account, reserves anything but the margins
\* of the open positions, or moves the balance without booking it, whatever the
\* return, the fee, the size and the balance (paper_account.py:270-386).
THEOREM StepKeepsSound ==
    ASSUME NEW cfg \in Configs, NEW acc, IsAccount(acc), Sound(cfg, acc),
           NEW ev, ev.gross \in Int, ev.opens => ev.row \notin acc.active
    PROVE  IsAccount(Step(cfg, acc, ev)) /\ Sound(cfg, Step(cfg, acc, ev))
<1> DEFINE now == IF acc.ts # NoTime /\ acc.ts # ev.ts /\ acc.dirty THEN Flush(acc) ELSE acc
           at == [now EXCEPT !.ts = ev.ts]
<1>1. IsAccount(now) /\ Sound(cfg, now) /\ now.active = acc.active
  BY FlushKeeps
<1>2. Step(cfg, acc, ev) = IF ev.opens THEN Open(cfg, at, ev.row)
                                       ELSE Close(cfg, at, ev.row, ev.gross)
  BY DEF Step
<1> HIDE DEF now
<1>3. /\ DOMAIN at = Fields /\ at.active = now.active /\ at.equity = now.equity
      /\ at.applied = now.applied /\ at.reserved = now.reserved
  BY <1>1 DEF IsAccount, Fields
<1> HIDE DEF at
<1>4. IsAccount(at) /\ Sound(cfg, at)
  BY <1>1, <1>3 DEF IsAccount, Sound
<1>5. QED BY <1>1, <1>2, <1>3, <1>4, OpenKeeps, CloseKeeps

\* Only an opening event adds a position, and only its own.
LEMMA StepActive ==
    ASSUME NEW cfg, NEW acc, IsAccount(acc), NEW ev
    PROVE  Step(cfg, acc, ev).active \subseteq acc.active \union (IF ev.opens THEN {ev.row} ELSE {})
<1> DEFINE now == IF acc.ts # NoTime /\ acc.ts # ev.ts /\ acc.dirty THEN Flush(acc) ELSE acc
           at == [now EXCEPT !.ts = ev.ts]
<1>1. now.active = acc.active /\ DOMAIN now = Fields
  BY DEF Flush, IsAccount, Fields
<1> HIDE DEF now
<1>2. at.active = acc.active /\ DOMAIN at = Fields
  BY <1>1 DEF Fields
<1>3. Step(cfg, acc, ev) = IF ev.opens THEN Open(cfg, at, ev.row)
                                       ELSE Close(cfg, at, ev.row, ev.gross)
  BY DEF Step, now
<1> HIDE DEF at
<1>4. Open(cfg, at, ev.row).active \subseteq at.active \union {ev.row}
  BY <1>2 DEF Open, Fields
<1>5. Close(cfg, at, ev.row, ev.gross).active \subseteq at.active
  BY <1>2 DEF Close, Fields
<1> QED
  BY <1>2, <1>3, <1>4, <1>5

\* The walk is the function its recursion describes.
LEMMA WalkDef ==
    ASSUME NEW cfg, NEW E, NEW events \in Seq(E)
    PROVE  /\ Walk(cfg, events)[0] = Fresh(cfg)
           /\ \A i \in 1..Len(events) :
                 Walk(cfg, events)[i] = Step(cfg, Walk(cfg, events)[i - 1], events[i])
<1> DEFINE F(g, n) == g = [i \in 0..n |-> IF i = 0 THEN Fresh(cfg) ELSE Step(cfg, g[i - 1], events[i])]
<1>1. Walk(cfg, events) = CHOOSE g : F(g, Len(events))
  BY DEF Walk
<1>2. \E g : F(g, 0)
  <2>1. F([i \in 0..0 |-> Fresh(cfg)], 0)
    OBVIOUS
  <2> QED
    BY <2>1
<1>3. ASSUME NEW m \in 0..(Len(events) - 1), NEW g, F(g, m) PROVE \E h : F(h, m + 1)
  <2> DEFINE h == [i \in 0..(m+1) |-> IF i = m + 1 THEN Step(cfg, g[m], events[m + 1]) ELSE g[i]]
  <2>1. ASSUME NEW i \in 0..(m + 1)
        PROVE  h[i] = IF i = 0 THEN Fresh(cfg) ELSE Step(cfg, h[i - 1], events[i])
    <3>1. CASE i = m + 1
      BY <1>3, <3>1
    <3>2. CASE i # m + 1
      BY <1>3, <3>2
    <3> QED
      BY <3>1, <3>2
  <2>2. h = [i \in 0..(m+1) |-> h[i]]
    OBVIOUS
  <2> HIDE DEF h
  <2>3. F(h, m + 1)
    BY <2>1, <2>2
  <2> QED
    BY <2>3
<1>4. \E g : F(g, Len(events))
  <2> PICK n \in Nat : n = Len(events)
    OBVIOUS
  <2> DEFINE X == {k \in 0..n : \E g : F(g, k)}
  <2>1. \A m \in 0..(n - 1) : (\E g : F(g, m)) => \E h : F(h, m + 1)
    BY <1>3
  <2> HIDE DEF F
  <2>2. 0 \in X /\ \A m \in 0..(n - 1) : m \in X => m + 1 \in X
    BY <1>2, <2>1
  <2> HIDE DEF X
  <2>3. n \in X
    BY <2>2, UpTo
  <2> QED
    BY <2>3 DEF X
<1>5. F(Walk(cfg, events), Len(events))
  BY <1>1, <1>4
<1>6. Len(events) \in Nat
  OBVIOUS
<1> QED
  BY <1>5, <1>6

(* The account is never overdrawn, keeps every open position's margin      *)
(* reserved and reconciles with what was booked, after every event of a    *)
(* walk and whatever the order of its events, as long as no row opens      *)
(* twice (paper_account.build_paper_account).                              *)
THEOREM AccountStaysSound ==
    ASSUME NEW cfg \in Configs, NEW E, NEW events \in Seq(E),
           \A i \in DOMAIN events : events[i].gross \in Int,
           \A i, j \in DOMAIN events :
              events[i].opens /\ events[j].opens /\ events[i].row = events[j].row => i = j,
           NEW n \in 0..Len(events)
    PROVE  Sound(cfg, Walk(cfg, events)[n])
<1> DEFINE walk == Walk(cfg, events)
           Opened(k) == {events[i].row : i \in {j \in 1..k : events[j].opens}}
           X == {k \in 0..Len(events) :
                    IsAccount(walk[k]) /\ Sound(cfg, walk[k]) /\ walk[k].active \subseteq Opened(k)}
<1>1. Len(events) \in Nat /\ DOMAIN events = 1..Len(events)
  OBVIOUS
<1>2. 0 \in X
  <2>1. walk[0] = Fresh(cfg) /\ Fresh(cfg).active = {}
    BY WalkDef DEF Fresh
  <2> QED
    BY <1>1, <2>1, FreshIsSound
<1>3. ASSUME NEW m \in 0..(Len(events) - 1), m \in X PROVE m + 1 \in X
  <2>1. m + 1 \in 1..Len(events) /\ (m + 1) - 1 = m
    BY <1>1
  <2>2. PICK acc : acc = walk[m]
    OBVIOUS
  <2>3. PICK ev : ev = events[m + 1]
    OBVIOUS
  <2>4. walk[m + 1] = Step(cfg, acc, ev)
    BY <2>1, <2>2, <2>3, WalkDef
  <2>5. IsAccount(acc) /\ Sound(cfg, acc) /\ acc.active \subseteq Opened(m)
    BY <1>3, <2>2
  <2>6. ev.gross \in Int /\ (ev.opens => ev.row \notin acc.active)
    BY <1>1, <2>1, <2>3, <2>5
  <2>7. IsAccount(Step(cfg, acc, ev)) /\ Sound(cfg, Step(cfg, acc, ev))
    BY <2>5, <2>6, StepKeepsSound
  <2>8. Step(cfg, acc, ev).active \subseteq acc.active \union (IF ev.opens THEN {ev.row} ELSE {})
    BY <2>5, StepActive
  <2>9. Step(cfg, acc, ev).active \subseteq Opened(m + 1)
    BY <1>1, <2>1, <2>3, <2>5, <2>8
  <2> QED
    BY <1>1, <2>4, <2>7, <2>9
<1> HIDE DEF X
<1>4. n \in X
  BY <1>1, <1>2, <1>3, UpTo
<1> QED
  BY <1>4 DEF X

-----------------------------------------------------------------------------
(* pattern memory                                                          *)

\* A record taken from a detection carries the key of that detection.
LEMMA RecordKeepsKey ==
    ASSUME NEW p, NEW now PROVE RecordFrom(p, now).key = p.key
BY DEF RecordFrom

\* pattern_persist.reconcile freezes what it tracks: a record that is kept, and
\* whose structure was tracked before the load, is the old record with a new
\* time of sight; no detection of the load has changed a level of it.
THEOREM TrackedIsFrozen ==
    ASSUME NEW fresh, NEW records, NEW candles, NEW price, NEW now,
           NEW r \in Reconcile(fresh, records, candles, price, now).records,
           \E old \in records : old.key = r.key
    PROVE  \E old \in records : r = [old EXCEPT !.lastSeen = now]
<1>1. r \in Survivors(fresh, records, candles, price, now)
  BY DEF Reconcile
<1>2. PICK s \in Tracked(fresh, records, now) : r = [s EXCEPT !.lastSeen = now]
  BY <1>1 DEF Survivors
<1>3. CASE s \in records
  BY <1>2, <1>3
<1>4. CASE s \notin records
  <2>1. PICK i \in Captured(fresh, records) : s = RecordFrom(fresh[i], now)
    BY <1>2, <1>4 DEF Tracked
  <2>2. r.key = s.key
    <3>1. s = [key |-> s.key, direction |-> s.direction, breakTs |-> s.breakTs,
               target |-> s.target, breakLevel |-> s.breakLevel, failLevel |-> s.failLevel,
               apex |-> s.apex, eta |-> s.eta, lastSeen |-> s.lastSeen]
      BY <2>1 DEF RecordFrom
    <3>2. QED BY <3>1, <1>2
  <2>3. s.key = fresh[i].key
    BY <2>1, RecordKeepsKey
  <2>4. \A o \in records : o.key # fresh[i].key
    BY <2>1 DEF Captured, New
  <2>5. QED BY <2>2, <2>3, <2>4
<1>5. QED BY <1>3, <1>4

OneRecordPerKey(records) == \A r, s \in records : r.key = s.key => r = s

\* What is tracked holds one record per key if the stored list does, although one
\* load may detect the same structure several times (pattern_persist.py:337-340).
THEOREM KeysStayUnique ==
    ASSUME NEW Pattern, NEW fresh \in Seq(Pattern), NEW records, NEW now,
           OneRecordPerKey(records)
    PROVE  OneRecordPerKey(Tracked(fresh, records, now))
<1> SUFFICES ASSUME NEW r \in Tracked(fresh, records, now), NEW s \in Tracked(fresh, records, now),
                    r.key = s.key
             PROVE  r = s
  BY DEF OneRecordPerKey
<1>1. \A t \in Tracked(fresh, records, now) \ records :
        \E i \in Captured(fresh, records) : t = RecordFrom(fresh[i], now) /\ t.key = fresh[i].key
  BY RecordKeepsKey DEF Tracked
<1>2. CASE r \in records /\ s \in records
  BY <1>2 DEF OneRecordPerKey
<1>3. CASE r \in records /\ s \notin records
  BY <1>1, <1>3 DEF Captured, New
<1>4. CASE r \notin records /\ s \in records
  BY <1>1, <1>4 DEF Captured, New
<1>5. CASE r \notin records /\ s \notin records
  <2>1. PICK i \in Captured(fresh, records) : r = RecordFrom(fresh[i], now) /\ r.key = fresh[i].key
    BY <1>1, <1>5
  <2>2. PICK j \in Captured(fresh, records) : s = RecordFrom(fresh[j], now) /\ s.key = fresh[j].key
    BY <1>1, <1>5
  <2>3. i \in Nat /\ j \in Nat
    BY <2>1, <2>2 DEF Captured, New
  <2>4. ~(i < j) /\ ~(j < i)
    BY <2>1, <2>2 DEF Captured
  <2>5. QED BY <2>1, <2>2, <2>3, <2>4
<1>6. QED BY <1>2, <1>3, <1>4, <1>5
=============================================================================
