---------------------------- MODULE FoldLemmas -----------------------------
(***************************************************************************)
(* What the folds of the community modules compute.  A fold is a recursive *)
(* function on the subsets of a set; that it exists, is unique and does    *)
(* one step at a time is shown by taking a minimal counterexample.         *)
(***************************************************************************)
EXTENDS Integers, Sequences, FiniteSetsExt, FiniteSetTheorems, TLAPS

(***************************************************************************)
(* g folds S: the value of the empty set is base, and the value of another *)
(* set is what `step` makes of it and of the value without the element it  *)
(* picks.                                                                  *)
(***************************************************************************)
IsFold(g, S, base, pick, step) ==
  g = [s \in SUBSET S |-> IF s = {} THEN base ELSE step[<<s, g[s \ {pick[s]}]>>]]

Picks(pick, S) == \A s \in SUBSET S : s # {} => pick[s] \in s

(* Among some subsets of a finite set, one contains no other. *)
LEMMA MinimalSet ==
  ASSUME NEW S, IsFiniteSet(S), NEW B \in SUBSET (SUBSET S), B # {}
  PROVE  \E T \in B : \A U \in SUBSET T : U # T => U \notin B
<1>1. IsWellFoundedOn(StrictSubsetOrdering(S), FiniteSubsetsOf(S))
  BY FS_StrictSubsetOrderingWellFounded
<1>2. FiniteSubsetsOf(S) = SUBSET S
  BY FS_FiniteSubsetsOfFinite
<1>3. PICK T \in B : \A U \in B : ~(<<U, T>> \in StrictSubsetOrdering(S))
  <2> DEFINE R == StrictSubsetOrdering(S)
             A == FiniteSubsetsOf(S)
  <2>1. IsWellFoundedOn(R, A) /\ B \subseteq A
    BY <1>1, <1>2
  <2> HIDE DEF R, A
  <2>2. \E T \in B : \A U \in B : ~(<<U, T>> \in R)
    BY <2>1, WFMin
  <2> QED
    BY <2>2 DEF R
<1>4. \A U \in B : U \subseteq T /\ U # T => <<U, T>> \in StrictSubsetOrdering(S)
  BY DEF StrictSubsetOrdering
<1>5. \A U \in SUBSET T : U # T => U \notin B
  <2> SUFFICES ASSUME NEW U \in SUBSET T, U # T, U \in B PROVE FALSE
    OBVIOUS
  <2> QED
    BY <1>3, <1>4
<1> QED
  BY <1>5

(* Two folds agree where both are defined. *)
LEMMA FoldUnique ==
  ASSUME NEW S, IsFiniteSet(S), NEW U \in SUBSET S,
         NEW base, NEW pick, NEW step, Picks(pick, S),
         NEW g, IsFold(g, S, base, pick, step),
         NEW h, IsFold(h, U, base, pick, step)
  PROVE  \A s \in SUBSET U : g[s] = h[s]
<1> DEFINE B == {s \in SUBSET U : g[s] # h[s]}
<1>1. SUFFICES ASSUME B # {} PROVE FALSE
  OBVIOUS
<1>2. B \in SUBSET (SUBSET S)
  OBVIOUS
<1>3. PICK T \in B : \A V \in SUBSET T : V # T => V \notin B
  <2> HIDE DEF B
  <2> QED
    BY <1>1, <1>2, MinimalSet
<1>4. T \in SUBSET U /\ T \in SUBSET S
  OBVIOUS
<1>5. /\ g[T] = IF T = {} THEN base ELSE step[<<T, g[T \ {pick[T]}]>>]
      /\ h[T] = IF T = {} THEN base ELSE step[<<T, h[T \ {pick[T]}]>>]
  BY <1>4 DEF IsFold
<1>6. T # {}
  BY <1>5
<1>7. T \ {pick[T]} \in SUBSET T /\ T \ {pick[T]} # T
  BY <1>4, <1>6 DEF Picks
<1>8. g[T \ {pick[T]}] = h[T \ {pick[T]}]
  BY <1>3, <1>7
<1> QED
  BY <1>5, <1>6, <1>8

(* A fold of a set folds its subsets. *)
LEMMA FoldRestricts ==
  ASSUME NEW S, NEW U \in SUBSET S, NEW base, NEW pick, NEW step,
         NEW g, IsFold(g, S, base, pick, step), Picks(pick, S)
  PROVE  IsFold([s \in SUBSET U |-> g[s]], U, base, pick, step)
<1> DEFINE h == [s \in SUBSET U |-> g[s]]
<1>1. ASSUME NEW s \in SUBSET U
      PROVE  h[s] = IF s = {} THEN base ELSE step[<<s, h[s \ {pick[s]}]>>]
  <2>1. s \in SUBSET S /\ s \ {pick[s]} \in SUBSET U
    OBVIOUS
  <2>2. g[s] = IF s = {} THEN base ELSE step[<<s, g[s \ {pick[s]}]>>]
    BY <2>1 DEF IsFold
  <2> QED
    BY <2>1, <2>2
<1>2. h = [s \in SUBSET U |-> IF s = {} THEN base ELSE step[<<s, h[s \ {pick[s]}]>>]]
  BY <1>1
<1> QED
  BY <1>2 DEF IsFold

(* Every finite set has a fold. *)
LEMMA FoldExists ==
  ASSUME NEW S, IsFiniteSet(S), NEW base, NEW pick, NEW step, Picks(pick, S)
  PROVE  \E g : IsFold(g, S, base, pick, step)
<1> DEFINE B == {U \in SUBSET S : ~ \E g : IsFold(g, U, base, pick, step)}
<1>1. SUFFICES ASSUME B # {} PROVE FALSE
  OBVIOUS
<1>2. B \in SUBSET (SUBSET S)
  OBVIOUS
<1>3. PICK T \in B : \A U \in SUBSET T : U # T => U \notin B
  <2> HIDE DEF B
  <2> QED
    BY <1>1, <1>2, MinimalSet
<1>4. T \in SUBSET S /\ IsFiniteSet(T) /\ Picks(pick, T)
  BY FS_Subset DEF Picks
<1> DEFINE F(U) == CHOOSE g : IsFold(g, U, base, pick, step)
           v(U) == F(U)[U]
           g == [s \in SUBSET T |-> IF s = {} THEN base ELSE step[<<s, v(s \ {pick[s]})>>]]
<1>5. ASSUME NEW U \in SUBSET T, U # T
      PROVE  IsFold(F(U), U, base, pick, step)
  <2>1. U \notin B /\ U \in SUBSET S
    BY <1>3, <1>4, <1>5
  <2> QED
    BY <2>1
<1>6. ASSUME NEW U \in SUBSET T, U # T
      PROVE  g[U] = v(U)
  <2>0. IsFold(F(U), U, base, pick, step)
    BY <1>5, <1>6
  <2>1. F(U)[U] = IF U = {} THEN base ELSE step[<<U, F(U)[U \ {pick[U]}]>>]
    <3> HIDE DEF F
    <3> QED
      BY <2>0 DEF IsFold
  <2>2. CASE U = {}
    BY <2>1, <2>2
  <2>3. CASE U # {}
    <3> DEFINE W == U \ {pick[U]}
    <3>1. pick[U] \in U /\ W \in SUBSET U /\ W \in SUBSET T /\ W # T
      BY <1>4, <1>6, <2>3 DEF Picks
    <3>2. IsFold(F(W), W, base, pick, step) /\ IsFold(F(U), U, base, pick, step)
      BY <1>5, <1>6, <3>1
    <3>3. IsFiniteSet(U) /\ Picks(pick, U)
      BY <1>4, FS_Subset DEF Picks
    <3>4. F(U)[W] = F(W)[W]
      <4> HIDE DEF F, W
      <4> QED
        BY <3>1, <3>2, <3>3, FoldUnique
    <3> QED
      BY <2>1, <2>3, <3>4
  <2> QED
    BY <2>2, <2>3
<1>7. ASSUME NEW s \in SUBSET T, s # {}
      PROVE  g[s \ {pick[s]}] = v(s \ {pick[s]})
  <2>1. s \ {pick[s]} \in SUBSET T /\ s \ {pick[s]} # T
    BY <1>4, <1>7 DEF Picks
  <2> HIDE DEF v, g
  <2> QED
    BY <1>6, <2>1
<1>8. IsFold(g, T, base, pick, step)
  <2>1. \A s \in SUBSET T : g[s] = IF s = {} THEN base ELSE step[<<s, g[s \ {pick[s]}]>>]
    <3>1. \A s \in SUBSET T : g[s] = IF s = {} THEN base ELSE step[<<s, v(s \ {pick[s]})>>]
      OBVIOUS
    <3> HIDE DEF v, g
    <3> QED
      BY <3>1, <1>7
  <2>2. g = [s \in SUBSET T |-> g[s]]
    OBVIOUS
  <2> HIDE DEF g
  <2> QED
    BY <2>1, <2>2 DEF IsFold
<1> QED
  BY <1>3, <1>8

(* The values of a fold stay in a set that `step` does not leave. *)
LEMMA FoldType ==
  ASSUME NEW S, IsFiniteSet(S), NEW base, NEW pick, NEW step, Picks(pick, S),
         NEW V, base \in V,
         \A s \in SUBSET S : \A x \in V : s # {} => step[<<s, x>>] \in V,
         NEW g, IsFold(g, S, base, pick, step)
  PROVE  g \in [SUBSET S -> V]
<1> DEFINE B == {s \in SUBSET S : g[s] \notin V}
<1>1. B = {}
  <2>1. SUFFICES ASSUME B # {} PROVE FALSE
    OBVIOUS
  <2>2. PICK T \in B : \A U \in SUBSET T : U # T => U \notin B
    <3>1. B \in SUBSET (SUBSET S)
      OBVIOUS
    <3> HIDE DEF B
    <3> QED
      BY <2>1, <3>1, MinimalSet
  <2>3. g[T] = IF T = {} THEN base ELSE step[<<T, g[T \ {pick[T]}]>>]
    BY DEF IsFold
  <2>4. T # {} => g[T \ {pick[T]}] \in V
    BY <2>2 DEF Picks
  <2> QED
    BY <2>3, <2>4
<1>2. \A s \in SUBSET S : g[s] \in V
  BY <1>1
<1>3. g = [s \in SUBSET S |-> g[s]]
  BY DEF IsFold
<1> QED
  BY <1>2, <1>3

-----------------------------------------------------------------------------
(* Totals. *)

(* The total of the weights of a set. *)
Total(w, S) == MapThenSumSet(LAMBDA x : w[x], S)

IsTotal(g, w, S) ==
  g = [s \in SUBSET S |-> IF s = {} THEN 0
         ELSE w[CHOOSE x \in s : TRUE] + g[s \ {CHOOSE x \in s : TRUE}]]

(* The community operator folds addition. *)
LEMMA TotalIsFold ==
  ASSUME NEW S, IsFiniteSet(S), NEW w, \A x \in S : w[x] \in Nat
  PROVE  \E g : IsTotal(g, w, S) /\ Total(w, S) = g[S]
<1> DEFINE pick == [s \in SUBSET S |-> CHOOSE x \in s : TRUE]
           step == [p \in (SUBSET S) \X Nat |-> w[pick[p[1]]] + p[2]]
           iter[s \in SUBSET S] == IF s = {} THEN 0
                     ELSE w[CHOOSE x \in s : TRUE] + iter[s \ {CHOOSE x \in s : TRUE}]
<1>1. Total(w, S) = iter[S]
  BY DEF Total, MapThenSumSet, MapThenFoldSet
<1>2. /\ Picks(pick, S)
      /\ \A s \in SUBSET S : pick[s] = CHOOSE x \in s : TRUE
      /\ \A s \in SUBSET S, n \in Nat : step[<<s, n>>] = w[pick[s]] + n
  BY DEF Picks
<1> HIDE DEF pick, step
<1>3. PICK g : IsFold(g, S, 0, pick, step)
  BY <1>2, FoldExists
<1>4. g \in [SUBSET S -> Nat]
  <2>1. \A s \in SUBSET S : \A n \in Nat : s # {} => step[<<s, n>>] \in Nat
    BY <1>2 DEF Picks
  <2> QED
    BY <1>2, <1>3, <2>1, FoldType
<1>5. IsTotal(g, w, S)
  <2>1. ASSUME NEW s \in SUBSET S
        PROVE  g[s] = IF s = {} THEN 0
                 ELSE w[CHOOSE x \in s : TRUE] + g[s \ {CHOOSE x \in s : TRUE}]
    <3>1. g[s] = IF s = {} THEN 0 ELSE step[<<s, g[s \ {pick[s]}]>>]
      BY <1>3 DEF IsFold
    <3>2. s \ {pick[s]} \in SUBSET S
      OBVIOUS
    <3>3. g[s \ {pick[s]}] \in Nat
      BY <1>4, <3>2
    <3>4. /\ pick[s] = CHOOSE x \in s : TRUE
          /\ step[<<s, g[s \ {pick[s]}]>>] = w[pick[s]] + g[s \ {pick[s]}]
      BY <1>2, <3>3
    <3> QED
      BY <3>1, <3>4
  <2>2. g = [s \in SUBSET S |-> g[s]]
    BY <1>4
  <2> QED
    BY <2>1, <2>2 DEF IsTotal
<1>6. iter = CHOOSE f : IsTotal(f, w, S)
  BY DEF IsTotal
<1>7. IsTotal(iter, w, S)
  <2> HIDE DEF iter
  <2> QED BY <1>5, <1>6
<1> QED
  <2> HIDE DEF iter
  <2> QED BY <1>1, <1>7

(* A total is a natural number, and that of a smaller set is computed alike. *)
LEMMA TotalUnique ==
  ASSUME NEW S, IsFiniteSet(S), NEW w, \A x \in S : w[x] \in Nat,
         NEW g, IsTotal(g, w, S), NEW U \in SUBSET S
  PROVE  g[U] = Total(w, U) /\ g[U] \in Nat
<1>1. IsFiniteSet(U)
  BY FS_Subset
<1>2. PICK h : IsTotal(h, w, U) /\ Total(w, U) = h[U]
  BY <1>1, TotalIsFold
<1> DEFINE B == {s \in SUBSET U : ~(g[s] = h[s] /\ g[s] \in Nat)}
<1>3. B = {}
  <2>1. SUFFICES ASSUME B # {} PROVE FALSE
    OBVIOUS
  <2>2. PICK T \in B : \A V \in SUBSET T : V # T => V \notin B
    <3>1. B \in SUBSET (SUBSET S)
      OBVIOUS
    <3> HIDE DEF B
    <3> QED
      BY <2>1, <3>1, MinimalSet
  <2> DEFINE x == CHOOSE x \in T : TRUE
  <2>3. T \in SUBSET S /\ T \in SUBSET U
    OBVIOUS
  <2>4. /\ g[T] = IF T = {} THEN 0 ELSE w[x] + g[T \ {x}]
        /\ h[T] = IF T = {} THEN 0 ELSE w[x] + h[T \ {x}]
    BY <1>2, <2>3 DEF IsTotal
  <2>5. CASE T = {}
    BY <2>4, <2>5
  <2>6. CASE T # {}
    <3>1. x \in T
      BY <2>6
    <3>2. g[T \ {x}] = h[T \ {x}] /\ g[T \ {x}] \in Nat
      BY <2>2, <3>1
    <3>3. w[x] \in Nat
      BY <2>3, <3>1
    <3> QED
      BY <2>4, <2>6, <3>2, <3>3
  <2> QED
    BY <2>5, <2>6
<1> QED
  BY <1>2, <1>3

(* A function that folds the weights of a set gives its total. *)
LEMMA TotalIs ==
  ASSUME NEW S, IsFiniteSet(S), NEW w, \A x \in S : w[x] \in Nat,
         NEW g, IsTotal(g, w, S)
  PROVE  g[S] = Total(w, S)
<1>1. S \in SUBSET S
  OBVIOUS
<1> QED
  BY <1>1, TotalUnique

(* The empty set weighs nothing. *)
LEMMA TotalEmpty == ASSUME NEW w PROVE Total(w, {}) = 0
<1>1. PICK g : IsTotal(g, w, {}) /\ Total(w, {}) = g[{}]
  BY TotalIsFold, FS_EmptySet
<1> QED
  BY <1>1 DEF IsTotal

(* A total is a natural number. *)
LEMMA TotalType ==
  ASSUME NEW S, IsFiniteSet(S), NEW w, \A x \in S : w[x] \in Nat
  PROVE  Total(w, S) \in Nat
<1>1. PICK g : IsTotal(g, w, S) /\ Total(w, S) = g[S]
  BY TotalIsFold
<1> QED
  BY <1>1, TotalUnique

(* The element that the operator chooses can be taken out of the total. *)
LEMMA TotalChosen ==
  ASSUME NEW S, IsFiniteSet(S), S # {}, NEW w, \A x \in S : w[x] \in Nat
  PROVE  Total(w, S) = w[CHOOSE x \in S : TRUE] + Total(w, S \ {CHOOSE x \in S : TRUE})
<1> DEFINE x == CHOOSE x \in S : TRUE
<1>1. PICK g : IsTotal(g, w, S) /\ Total(w, S) = g[S]
  BY TotalIsFold
<1>2. S \in SUBSET S /\ S \ {x} \in SUBSET S
  OBVIOUS
<1>3. g[S] = w[x] + g[S \ {x}]
  BY <1>1, <1>2 DEF IsTotal
<1>4. g[S \ {x}] = Total(w, S \ {x})
  <2> HIDE DEF x
  <2> QED BY <1>1, <1>2, TotalUnique
<1> QED
  BY <1>1, <1>3, <1>4

(* So can any other: the order does not matter. *)
LEMMA TotalWithout ==
  ASSUME NEW S, IsFiniteSet(S), NEW w, \A x \in S : w[x] \in Nat, NEW y \in S
  PROVE  Total(w, S) = w[y] + Total(w, S \ {y})
<1> DEFINE B == {s \in SUBSET S : \E z \in s : Total(w, s) # w[z] + Total(w, s \ {z})}
<1>1. B = {}
  <2>1. SUFFICES ASSUME B # {} PROVE FALSE
    OBVIOUS
  <2>2. PICK T \in B : \A U \in SUBSET T : U # T => U \notin B
    <3>1. B \in SUBSET (SUBSET S)
      OBVIOUS
    <3> HIDE DEF B
    <3> QED
      BY <2>1, <3>1, MinimalSet
  <2>3. PICK z \in T : Total(w, T) # w[z] + Total(w, T \ {z})
    OBVIOUS
  <2> DEFINE x == CHOOSE x \in T : TRUE
  <2>4. T \in SUBSET S /\ IsFiniteSet(T) /\ x \in T
    BY <2>3, FS_Subset
  <2>5. Total(w, T) = w[x] + Total(w, T \ {x})
    BY <2>3, <2>4, TotalChosen
  <2>6. z # x
    BY <2>3, <2>5
  <2> HIDE DEF x
  <2>7. /\ T \ {x} \in SUBSET T /\ T \ {x} # T /\ T \ {x} \notin B
        /\ T \ {z} \in SUBSET T /\ T \ {z} # T /\ T \ {z} \notin B
    BY <2>2, <2>3, <2>4
  <2>8. Total(w, T \ {x}) = w[z] + Total(w, (T \ {x}) \ {z})
    BY <2>6, <2>7
  <2>9. Total(w, T \ {z}) = w[x] + Total(w, (T \ {z}) \ {x})
    BY <2>4, <2>6, <2>7
  <2>10. (T \ {x}) \ {z} = (T \ {z}) \ {x}
    OBVIOUS
  <2>11. Total(w, (T \ {x}) \ {z}) \in Nat
    <3>1. IsFiniteSet((T \ {x}) \ {z})
      BY <2>4, FS_Subset
    <3> QED
      BY <2>4, <3>1, TotalType
  <2>12. w[x] \in Nat /\ w[z] \in Nat
    BY <2>4
  <2> QED
    BY <2>3, <2>5, <2>8, <2>9, <2>10, <2>11, <2>12
<1> QED
  BY <1>1

(* A new element adds its weight. *)
LEMMA TotalAdds ==
  ASSUME NEW S, IsFiniteSet(S), NEW w, \A x \in S : w[x] \in Nat,
         NEW y, y \notin S, w[y] \in Nat
  PROVE  Total(w, S \cup {y}) = Total(w, S) + w[y]
<1>1. IsFiniteSet(S \cup {y})
  BY FS_AddElement
<1>2. (S \cup {y}) \ {y} = S
  OBVIOUS
<1>3. Total(w, S \cup {y}) = w[y] + Total(w, S)
  BY <1>1, <1>2, TotalWithout
<1> QED
  BY <1>3, TotalType

(* The total depends on the weights of the set only. *)
LEMMA TotalSame ==
  ASSUME NEW S, IsFiniteSet(S), NEW w, \A x \in S : w[x] \in Nat,
         NEW v, \A x \in S : v[x] = w[x]
  PROVE  Total(v, S) = Total(w, S)
<1>1. PICK g : IsTotal(g, v, S) /\ Total(v, S) = g[S]
  BY TotalIsFold
<1>2. IsTotal(g, w, S)
  <2>1. ASSUME NEW s \in SUBSET S, s # {}
        PROVE  v[CHOOSE x \in s : TRUE] = w[CHOOSE x \in s : TRUE]
    BY <2>1
  <2>2. ASSUME NEW s \in SUBSET S
        PROVE  g[s] = IF s = {} THEN 0
                 ELSE w[CHOOSE x \in s : TRUE] + g[s \ {CHOOSE x \in s : TRUE}]
    BY <1>1, <2>1 DEF IsTotal
  <2>3. g = [s \in SUBSET S |-> g[s]]
    BY <1>1 DEF IsTotal
  <2> QED
    BY <2>2, <2>3 DEF IsTotal
<1> QED
  BY <1>1, <1>2, TotalUnique

(* Disjoint sets add their totals. *)
LEMMA TotalUnion ==
  ASSUME NEW S, IsFiniteSet(S), NEW w, \A x \in S : w[x] \in Nat,
         NEW U \in SUBSET S, NEW V \in SUBSET S, U \cap V = {}
  PROVE  Total(w, U \cup V) = Total(w, U) + Total(w, V)
<1> DEFINE B == {T \in SUBSET V : Total(w, U \cup T) # Total(w, U) + Total(w, T)}
<1>1. B = {}
  <2>1. SUFFICES ASSUME B # {} PROVE FALSE
    OBVIOUS
  <2>2. PICK T \in B : \A W \in SUBSET T : W # T => W \notin B
    <3>1. B \in SUBSET (SUBSET S)
      OBVIOUS
    <3> HIDE DEF B
    <3> QED
      BY <2>1, <3>1, MinimalSet
  <2>3. T \in SUBSET V /\ Total(w, U \cup T) # Total(w, U) + Total(w, T)
    OBVIOUS
  <2>4. IsFiniteSet(U) /\ Total(w, U) \in Nat
    BY FS_Subset, TotalType
  <2>5. T # {}
    <3> SUFFICES ASSUME T = {} PROVE FALSE
      OBVIOUS
    <3>1. U \cup T = U /\ Total(w, T) = 0
      BY TotalEmpty
    <3> QED
      BY <2>3, <2>4, <3>1
  <2>6. PICK y \in T : TRUE
    BY <2>5
  <2> DEFINE R == T \ {y}
  <2>7. Total(w, U \cup R) = Total(w, U) + Total(w, R)
    BY <2>2, <2>6
  <2>8. /\ U \cup T = (U \cup R) \cup {y} /\ y \notin U \cup R
        /\ T = R \cup {y} /\ y \notin R /\ w[y] \in Nat
        /\ \A x \in U \cup R : w[x] \in Nat
    BY <2>3, <2>6
  <2>9. IsFiniteSet(U \cup R) /\ IsFiniteSet(R)
    BY <2>3, FS_Subset
  <2> HIDE DEF R, B
  <2>10. Total(w, (U \cup R) \cup {y}) = Total(w, U \cup R) + w[y]
    BY <2>8, <2>9, TotalAdds
  <2>11. Total(w, R \cup {y}) = Total(w, R) + w[y] /\ Total(w, R) \in Nat
    BY <2>8, <2>9, TotalAdds, TotalType
  <2>12. Total(w, U \cup T) = Total(w, U \cup R) + w[y] /\ Total(w, T) = Total(w, R) + w[y]
    BY <2>8, <2>10, <2>11
  <2>13. w[y] \in Nat
    BY <2>8
  <2> QED
    BY <2>3, <2>4, <2>7, <2>11, <2>12, <2>13
<1>2. V \notin B
  BY <1>1
<1> QED
  BY <1>2

(* Weights of zero have the total zero. *)
LEMMA TotalZero ==
  ASSUME NEW S, IsFiniteSet(S), NEW w, \A x \in S : w[x] = 0
  PROVE  Total(w, S) = 0
<1> DEFINE B == {T \in SUBSET S : Total(w, T) # 0}
<1>1. B = {}
  <2>1. SUFFICES ASSUME B # {} PROVE FALSE
    OBVIOUS
  <2>2. PICK T \in B : \A W \in SUBSET T : W # T => W \notin B
    <3>1. B \in SUBSET (SUBSET S)
      OBVIOUS
    <3> HIDE DEF B
    <3> QED
      BY <2>1, <3>1, MinimalSet
  <2>3. T \in SUBSET S /\ Total(w, T) # 0
    OBVIOUS
  <2>4. T # {}
    BY <2>3, TotalEmpty
  <2>5. PICK y \in T : TRUE
    BY <2>4
  <2>6. Total(w, T \ {y}) = 0
    BY <2>2, <2>5
  <2>7. IsFiniteSet(T) /\ w[y] = 0 /\ \A x \in T : w[x] \in Nat
    BY <2>3, <2>5, FS_Subset
  <2>8. Total(w, T) = w[y] + Total(w, T \ {y})
    BY <2>5, <2>7, TotalWithout
  <2> QED
    BY <2>3, <2>6, <2>7, <2>8
<1>2. S \notin B
  BY <1>1
<1> QED
  BY <1>2

(* What weighs nothing can be left out. *)
LEMMA TotalSupport ==
  ASSUME NEW S, IsFiniteSet(S), NEW w, \A x \in S : w[x] \in Nat,
         NEW U \in SUBSET S, \A x \in S \ U : w[x] = 0
  PROVE  Total(w, S) = Total(w, U)
<1>1. S \ U \in SUBSET S /\ U \cap (S \ U) = {} /\ U \cup (S \ U) = S
  OBVIOUS
<1>2. Total(w, S) = Total(w, U) + Total(w, S \ U)
  <2>1. Total(w, U \cup (S \ U)) = Total(w, U) + Total(w, S \ U)
    BY <1>1, TotalUnion
  <2> QED
    BY <1>1, <2>1
<1>3. Total(w, S \ U) = 0
  BY <1>1, FS_Subset, TotalZero
<1>4. Total(w, U) \in Nat
  BY FS_Subset, TotalType
<1> QED
  BY <1>2, <1>3, <1>4

(* A total may be taken class by class. *)
LEMMA TotalByClass ==
  ASSUME NEW S, IsFiniteSet(S), NEW w, \A x \in S : w[x] \in Nat,
         NEW O, IsFiniteSet(O), NEW class, \A x \in S : class[x] \in O,
         NEW t, \A o \in O : t[o] = Total(w, {x \in S : class[x] = o})
  PROVE  Total(t, O) = Total(w, S)
<1> DEFINE Of(Q) == {x \in S : class[x] \in Q}
           B == {Q \in SUBSET O : Total(t, Q) # Total(w, Of(Q))}
<1>1. ASSUME NEW o \in O
      PROVE  t[o] \in Nat
  <2>1. IsFiniteSet({x \in S : class[x] = o})
    BY FS_Subset
  <2>2. Total(w, {x \in S : class[x] = o}) \in Nat
    BY <2>1, TotalType
  <2> QED
    BY <2>2
<1>2. B = {}
  <2>1. SUFFICES ASSUME B # {} PROVE FALSE
    OBVIOUS
  <2>2. PICK Q \in B : \A W \in SUBSET Q : W # Q => W \notin B
    <3>1. B \in SUBSET (SUBSET O)
      OBVIOUS
    <3> HIDE DEF B
    <3> QED
      BY <2>1, <3>1, MinimalSet
  <2>3. Q \in SUBSET O /\ Total(t, Q) # Total(w, Of(Q))
    OBVIOUS
  <2>4. Q # {}
    <3> SUFFICES ASSUME Q = {} PROVE FALSE
      OBVIOUS
    <3>1. Of(Q) = {}
      OBVIOUS
    <3> QED
      BY <2>3, <3>1, TotalEmpty
  <2>5. PICK o \in Q : TRUE
    BY <2>4
  <2> DEFINE R == Q \ {o}
             C == {x \in S : class[x] = o}
  <2>6. Total(t, R) = Total(w, Of(R))
    BY <2>2, <2>5
  <2>7. Total(t, Q) = t[o] + Total(t, R)
    <3>1. IsFiniteSet(Q) /\ \A q \in Q : t[q] \in Nat
      BY <1>1, <2>3, FS_Subset
    <3> QED
      BY <2>5, <3>1, TotalWithout
  <2>8. t[o] = Total(w, C)
    BY <2>3
  <2>9. C \in SUBSET S /\ Of(R) \in SUBSET S /\ C \cap Of(R) = {} /\ C \cup Of(R) = Of(Q)
    BY <2>5
  <2> HIDE DEF C, R, Of, B
  <2>10. Total(w, C \cup Of(R)) = Total(w, C) + Total(w, Of(R))
    BY <2>9, TotalUnion
  <2> QED
    BY <2>3, <2>6, <2>7, <2>8, <2>9, <2>10
<1>3. O \notin B
  BY <1>2
<1>4. Of(O) = S
  OBVIOUS
<1> HIDE DEF Of
<1> QED
  BY <1>3, <1>4

-----------------------------------------------------------------------------
(* Folds of sequences, from left to right. *)

(* A non-empty set of places has a last one. *)
LEMMA LastPlace ==
  ASSUME NEW n \in Nat, NEW S \in SUBSET (1 .. n), S # {}
  PROVE  Max(S) \in S /\ \A y \in S : Max(S) >= y
<1> DEFINE B == {T \in SUBSET S : T # {} /\ ~ \E x \in T : \A y \in T : x >= y}
<1>1. \E x \in S : \A y \in S : x >= y
  <2>1. SUFFICES ASSUME S \in B PROVE FALSE
    OBVIOUS
  <2>2. IsFiniteSet(S)
    <3>1. IsFiniteSet(1 .. n)
      BY FS_Interval
    <3> QED
      BY <3>1, FS_Subset
  <2>3. PICK T \in B : \A U \in SUBSET T : U # T => U \notin B
    <3>1. B \in SUBSET (SUBSET S) /\ B # {}
      BY <2>1
    <3> HIDE DEF B
    <3> QED
      BY <2>2, <3>1, MinimalSet
  <2>4. T \in SUBSET S /\ T # {} /\ ~ \E x \in T : \A y \in T : x >= y
    BY <2>3
  <2>5. PICK z \in T : TRUE
    BY <2>4
  <2>6. T \ {z} \notin B /\ T \ {z} \in SUBSET S
    BY <2>3, <2>4, <2>5
  <2>7. T \ {z} = {} \/ \E x \in T \ {z} : \A y \in T \ {z} : x >= y
    BY <2>6
  <2>8. T \subseteq Int
    BY <2>4
  <2>9. CASE T \ {z} = {}
    <3>1. \A y \in T : z >= y
      BY <2>5, <2>8, <2>9
    <3> QED
      BY <2>4, <2>5, <3>1
  <2>10. CASE \E x \in T \ {z} : \A y \in T \ {z} : x >= y
    <3>1. PICK x \in T \ {z} : \A y \in T \ {z} : x >= y
      BY <2>10
    <3>2. x \in Int /\ z \in Int
      BY <2>5, <2>8
    <3>3. (\A y \in T : x >= y) \/ (\A y \in T : z >= y)
      BY <2>8, <3>1, <3>2
    <3> QED
      BY <2>4, <2>5, <3>1, <3>3
  <2> QED
    BY <2>7, <2>9, <2>10
<1> QED
  BY <1>1 DEF Max

LEMMA LastOfAll == ASSUME NEW n \in Nat, n # 0 PROVE Max(1 .. n) = n
<1>1. 1 .. n \in SUBSET (1 .. n) /\ 1 .. n # {}
  OBVIOUS
<1>2. Max(1 .. n) \in 1 .. n /\ \A y \in 1 .. n : Max(1 .. n) >= y
  BY <1>1, LastPlace
<1>3. n \in 1 .. n
  OBVIOUS
<1> QED
  BY <1>2, <1>3

(***************************************************************************)
(* g folds the elements of L from left to right: the place that it takes   *)
(* out of a set is the last one.  `step` is a function, so that lemmas can *)
(* speak of it.                                                            *)
(***************************************************************************)
FoldsLeft(g, base, step, L) ==
  \A s \in SUBSET DOMAIN L :
    g[s] = IF s = {} THEN base ELSE step[<<g[s \ {Max(s)}], L[Max(s)]>>]

(* The fold of a sequence: FoldLeft of the operator that `step` tabulates. *)
SeqFold(base, step, L) == (CHOOSE g : FoldsLeft(g, base, step, L))[DOMAIN L]

LEMMA LastOfPlaces ==
  ASSUME NEW E, NEW L \in Seq(E), NEW s \in SUBSET DOMAIN L, s # {}
  PROVE  Max(s) \in s /\ L[Max(s)] \in E
<1>1. DOMAIN L = 1 .. Len(L) /\ Len(L) \in Nat
  OBVIOUS
<1>2. Max(s) \in s
  BY <1>1, LastPlace
<1> QED
  BY <1>1, <1>2

LEMMA FoldLeftExists ==
  ASSUME NEW V, NEW E, NEW base \in V, NEW step \in [V \X E -> V], NEW L \in Seq(E)
  PROVE  \E g \in [SUBSET DOMAIN L -> V] : FoldsLeft(g, base, step, L)
<1> DEFINE S == DOMAIN L
           pick == [s \in SUBSET S |-> Max(s)]
           st == [p \in (SUBSET S) \X V |-> step[<<p[2], L[Max(p[1])]>>]]
<1>1. IsFiniteSet(S)
  <2>1. S = 1 .. Len(L) /\ Len(L) \in Nat
    OBVIOUS
  <2> QED
    BY <2>1, FS_Interval
<1>2. ASSUME NEW s \in SUBSET S, s # {}
      PROVE  Max(s) \in s /\ L[Max(s)] \in E
  BY <1>2, LastOfPlaces
<1>3. Picks(pick, S) /\ \A s \in SUBSET S : pick[s] = Max(s)
  BY <1>2 DEF Picks
<1>4. \A s \in SUBSET S : \A x \in V : st[<<s, x>>] = step[<<x, L[Max(s)]>>]
  OBVIOUS
<1>5. \A s \in SUBSET S : \A x \in V : s # {} => st[<<s, x>>] \in V
  <2> HIDE DEF st
  <2> QED BY <1>2, <1>4
<1> HIDE DEF S, pick, st
<1>6. PICK g : IsFold(g, S, base, pick, st)
  BY <1>1, <1>3, FoldExists
<1>7. g \in [SUBSET S -> V]
  BY <1>1, <1>3, <1>5, <1>6, FoldType
<1>8. ASSUME NEW s \in SUBSET S
      PROVE  g[s] = IF s = {} THEN base ELSE step[<<g[s \ {Max(s)}], L[Max(s)]>>]
  <2>1. g[s] = IF s = {} THEN base ELSE st[<<s, g[s \ {pick[s]}]>>]
    BY <1>6 DEF IsFold
  <2>2. pick[s] = Max(s) /\ s \ {pick[s]} \in SUBSET S
    BY <1>3
  <2>3. g[s \ {pick[s]}] \in V
    BY <1>7, <2>2
  <2>4. st[<<s, g[s \ {pick[s]}]>>] = step[<<g[s \ {Max(s)}], L[Max(s)]>>]
    BY <1>4, <2>2, <2>3
  <2> QED
    BY <2>1, <2>4
<1> QED
  BY <1>7, <1>8 DEF FoldsLeft, S

(* M begins with L. *)
Extends(M, L) == \A i \in DOMAIN L : i \in DOMAIN M /\ M[i] = L[i]

(* Two folds agree on the places that both have. *)
LEMMA FoldLeftUnique ==
  ASSUME NEW base, NEW step, NEW E, NEW L \in Seq(E), NEW M, Extends(M, L),
         NEW g, FoldsLeft(g, base, step, L),
         NEW h, FoldsLeft(h, base, step, M)
  PROVE  \A s \in SUBSET DOMAIN L : h[s] = g[s]
<1> DEFINE S == DOMAIN L
           B == {s \in SUBSET S : h[s] # g[s]}
<1>1. SUFFICES ASSUME B # {} PROVE FALSE
  OBVIOUS
<1>2. IsFiniteSet(S) /\ B \in SUBSET (SUBSET S)
  <2>1. S = 1 .. Len(L) /\ Len(L) \in Nat
    OBVIOUS
  <2> QED
    BY <2>1, FS_Interval
<1>3. PICK T \in B : \A U \in SUBSET T : U # T => U \notin B
  <2> HIDE DEF B, S
  <2> QED BY <1>1, <1>2, MinimalSet
<1>4. T \in SUBSET DOMAIN L /\ T \in SUBSET DOMAIN M /\ h[T] # g[T]
  BY <1>3 DEF Extends
<1>5. /\ g[T] = IF T = {} THEN base ELSE step[<<g[T \ {Max(T)}], L[Max(T)]>>]
      /\ h[T] = IF T = {} THEN base ELSE step[<<h[T \ {Max(T)}], M[Max(T)]>>]
  BY <1>4 DEF FoldsLeft
<1>6. T # {}
  BY <1>4, <1>5
<1>7. Max(T) \in T
  BY <1>4, <1>6, LastOfPlaces
<1>8. M[Max(T)] = L[Max(T)]
  BY <1>4, <1>7 DEF Extends
<1>9. T \ {Max(T)} \notin B /\ T \ {Max(T)} \in SUBSET S
  BY <1>3, <1>4, <1>7
<1>10. h[T \ {Max(T)}] = g[T \ {Max(T)}]
  BY <1>9
<1> QED
  BY <1>4, <1>5, <1>6, <1>8, <1>10

LEMMA SeqFoldIs ==
  ASSUME NEW E, NEW L \in Seq(E), NEW base, NEW step, NEW g, FoldsLeft(g, base, step, L)
  PROVE  SeqFold(base, step, L) = g[DOMAIN L]
<1>1. PICK h : FoldsLeft(h, base, step, L) /\ SeqFold(base, step, L) = h[DOMAIN L]
  BY DEF SeqFold
<1>2. Extends(L, L)
  BY DEF Extends
<1>3. \A s \in SUBSET DOMAIN L : h[s] = g[s]
  BY <1>1, <1>2, FoldLeftUnique
<1> QED
  BY <1>1, <1>3

(* Nothing folds to the base. *)
LEMMA SeqFoldEmpty ==
  ASSUME NEW V, NEW E, NEW base \in V, NEW step \in [V \X E -> V]
  PROVE  SeqFold(base, step, <<>>) = base
<1>1. \E L : L \in Seq(E) /\ L = <<>> /\ DOMAIN L = {}
  <2>1. <<>> \in Seq(E) /\ DOMAIN <<>> = {}
    OBVIOUS
  <2> QED
    BY <2>1
<1>2. PICK L : L \in Seq(E) /\ L = <<>> /\ DOMAIN L = {}
  BY <1>1
<1>3. L \in Seq(E)
  BY <1>2
<1>4. PICK g \in [SUBSET DOMAIN L -> V] : FoldsLeft(g, base, step, L)
  BY ONLY base \in V, step \in [V \X E -> V], <1>3, FoldLeftExists
<1>5. SeqFold(base, step, L) = g[DOMAIN L]
  BY ONLY <1>3, <1>4, SeqFoldIs
<1>6. DOMAIN L \in SUBSET DOMAIN L /\ DOMAIN L = {}
  BY <1>2
<1>7. g[DOMAIN L] = base
  BY <1>4, <1>6 DEF FoldsLeft
<1> QED
  BY <1>2, <1>5, <1>7

(* One element more is one step more. *)
LEMMA SeqFoldExtends ==
  ASSUME NEW V, NEW E, NEW base \in V, NEW step \in [V \X E -> V],
         NEW L \in Seq(E), NEW M \in Seq(E), Extends(M, L),
         NEW i, DOMAIN M = DOMAIN L \cup {i}, i \notin DOMAIN L,
         \A j \in DOMAIN M : i >= j
  PROVE  /\ SeqFold(base, step, M) = step[<<SeqFold(base, step, L), M[i]>>]
         /\ SeqFold(base, step, L) \in V
<1>1. PICK g \in [SUBSET DOMAIN L -> V] : FoldsLeft(g, base, step, L)
  BY FoldLeftExists
<1>2. PICK h \in [SUBSET DOMAIN M -> V] : FoldsLeft(h, base, step, M)
  BY FoldLeftExists
<1>3. SeqFold(base, step, L) = g[DOMAIN L] /\ SeqFold(base, step, M) = h[DOMAIN M]
  <2>1. SeqFold(base, step, L) = g[DOMAIN L]
    BY <1>1, SeqFoldIs
  <2>2. SeqFold(base, step, M) = h[DOMAIN M]
    BY <1>2, SeqFoldIs
  <2> QED
    BY <2>1, <2>2
<1>4. \A s \in SUBSET DOMAIN L : h[s] = g[s]
  BY <1>1, <1>2, FoldLeftUnique
<1>5. Max(DOMAIN M) = i
  <2>1. DOMAIN M = 1 .. Len(M) /\ Len(M) \in Nat
    BY ONLY M \in Seq(E)
  <2>2. i \in DOMAIN M /\ DOMAIN M \in SUBSET DOMAIN M /\ DOMAIN M # {}
    OBVIOUS
  <2>3. Max(DOMAIN M) \in DOMAIN M /\ \A y \in DOMAIN M : Max(DOMAIN M) >= y
    BY ONLY <2>1, <2>2, LastPlace
  <2>4. Max(DOMAIN M) \in Int /\ i \in Int
    BY <2>1, <2>2, <2>3
  <2>5. Max(DOMAIN M) >= i /\ i >= Max(DOMAIN M)
    BY <2>2, <2>3, Zenon
  <2> QED
    BY ONLY <2>4, <2>5
<1>6. DOMAIN M \ {i} = DOMAIN L /\ DOMAIN M # {} /\ DOMAIN M \in SUBSET DOMAIN M
  OBVIOUS
<1>7. h[DOMAIN M] = step[<<h[DOMAIN M \ {Max(DOMAIN M)}], M[Max(DOMAIN M)]>>]
  BY <1>2, <1>6 DEF FoldsLeft
<1>8. h[DOMAIN L] = g[DOMAIN L] /\ g[DOMAIN L] \in V
  BY <1>1, <1>4
<1> QED
  BY <1>3, <1>5, <1>6, <1>7, <1>8

LEMMA SeqFoldAppends ==
  ASSUME NEW V, NEW E, NEW base \in V, NEW step \in [V \X E -> V],
         NEW L \in Seq(E), NEW e \in E
  PROVE  /\ SeqFold(base, step, Append(L, e)) = step[<<SeqFold(base, step, L), e>>]
         /\ SeqFold(base, step, L) \in V
<1>1. Append(L, e) \in Seq(E)
  OBVIOUS
<1>2. \E M \in Seq(E) : M = Append(L, e)
  BY <1>1
<1>3. PICK M \in Seq(E) : M = Append(L, e)
  BY <1>2
<1>4. \E i : /\ DOMAIN M = DOMAIN L \cup {i} /\ i \notin DOMAIN L
             /\ (\A j \in DOMAIN M : i >= j) /\ M[i] = e
  <2>1. /\ DOMAIN M = DOMAIN L \cup {Len(L) + 1} /\ Len(L) + 1 \notin DOMAIN L
        /\ (\A j \in DOMAIN M : Len(L) + 1 >= j) /\ M[Len(L) + 1] = e
    BY <1>3
  <2> QED
    BY ONLY <2>1
<1>5. PICK i : /\ DOMAIN M = DOMAIN L \cup {i} /\ i \notin DOMAIN L
               /\ (\A j \in DOMAIN M : i >= j) /\ M[i] = e
  BY <1>4
<1>6. Extends(M, L)
  BY <1>3 DEF Extends
<1>7. /\ SeqFold(base, step, M) = step[<<SeqFold(base, step, L), M[i]>>]
      /\ SeqFold(base, step, L) \in V
  BY ONLY base \in V, step \in [V \X E -> V], L \in Seq(E), M \in Seq(E), <1>5, <1>6,
          SeqFoldExtends
<1> QED
  BY <1>3, <1>5, <1>7
=============================================================================
