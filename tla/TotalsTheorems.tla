--------------------------- MODULE TotalsTheorems ---------------------------
(***************************************************************************)
(* Facts about Total, for every finite set and every function with natural *)
(* values on it.                                                           *)
(***************************************************************************)
EXTENDS Totals, FiniteSetTheorems, FunctionTheorems, TLAPS

(* Each element contributes a finite set of exactly f[v] units. *)
LEMMA CopiesCount ==
  ASSUME NEW f, NEW v, f[v] \in Nat
  PROVE  IsFiniteSet(Copies(f, v)) /\ Cardinality(Copies(f, v)) = f[v]
<1>1. IsFiniteSet(1 .. f[v]) /\ Cardinality(1 .. f[v]) = f[v]
  BY FS_Interval
<1>2. IsFiniteSet({v}) /\ Cardinality({v}) = 1
  BY FS_Singleton
<1>3. IsFiniteSet({v} \X (1 .. f[v]))
      /\ Cardinality({v} \X (1 .. f[v])) = 1 * f[v]
  BY <1>1, <1>2, FS_Product
<1> QED
  BY <1>3 DEF Copies

(* The range of an operator on a finite set is finite: the instance the     *)
(* sum needs, through the surjection from v to its copies.                  *)
LEMMA UnitsFinite ==
  ASSUME NEW S, IsFiniteSet(S), NEW f, \A v \in S : f[v] \in Nat
  PROVE  IsFiniteSet(Units(f, S))
<1> DEFINE T == {Copies(f, v) : v \in S}
           g == [v \in S |-> Copies(f, v)]
<1>1. g \in Surjection(S, T)
  BY DEF Surjection
<1>2. IsFiniteSet(T)
  BY <1>1, FS_Surjection
<1>3. \A t \in T : IsFiniteSet(t)
  BY CopiesCount
<1>4. IsFiniteSet(UNION T)
  BY <1>2, <1>3, FS_UNION
<1> QED
  BY <1>4 DEF Units

(* A total is a natural number. *)
LEMMA TotalNat ==
  ASSUME NEW S, IsFiniteSet(S), NEW f, \A v \in S : f[v] \in Nat
  PROVE  Total(f, S) \in Nat
BY UnitsFinite, FS_CardinalityType DEF Total

(* Only the values on S matter. *)
LEMMA TotalSame ==
  ASSUME NEW S, NEW f, NEW g, \A v \in S : f[v] = g[v]
  PROVE  Total(f, S) = Total(g, S)
<1>1. Units(f, S) = Units(g, S)
  BY DEF Units, Copies
<1> QED
  BY <1>1 DEF Total

(* Taking an element out of the set takes its value out of the total. *)
LEMMA TotalRemove ==
  ASSUME NEW S, IsFiniteSet(S), NEW f, \A v \in S : f[v] \in Nat, NEW a
  PROVE  /\ Total(f, S \ {a}) \in Nat
         /\ a \in S => Total(f, S) = Total(f, S \ {a}) + f[a]
         /\ a \notin S => Total(f, S) = Total(f, S \ {a})
<1>1. IsFiniteSet(S \ {a})
  BY FS_RemoveElement
<1>2. Total(f, S \ {a}) \in Nat
  BY <1>1, TotalNat
<1>3. ASSUME a \in S PROVE Total(f, S) = Total(f, S \ {a}) + f[a]
  <2>1. Units(f, S) = Units(f, S \ {a}) \cup Copies(f, a)
    BY <1>3 DEF Units
  <2>2. Units(f, S \ {a}) \cap Copies(f, a) = {}
    BY DEF Units, Copies
  <2>3. IsFiniteSet(Units(f, S \ {a}))
    BY <1>1, UnitsFinite
  <2>4. IsFiniteSet(Copies(f, a)) /\ Cardinality(Copies(f, a)) = f[a]
    BY <1>3, CopiesCount
  <2>5. Cardinality(Units(f, S \ {a}) \cup Copies(f, a)) =
          Cardinality(Units(f, S \ {a})) + Cardinality(Copies(f, a))
            - Cardinality(Units(f, S \ {a}) \cap Copies(f, a))
    BY <2>3, <2>4, FS_Union
  <2>6. f[a] \in Nat
    BY <1>3
  <2>7. Cardinality(Units(f, S \ {a}) \cap Copies(f, a)) = 0
    BY <2>2, FS_EmptySet
  <2>8. Cardinality(Units(f, S)) = Cardinality(Units(f, S \ {a})) + f[a]
    <3> DEFINE x == Cardinality(Units(f, S \ {a}))
    <3>1. x \in Nat
      BY <1>2 DEF Total
    <3>2. Cardinality(Units(f, S)) = x + f[a] - 0
      BY <2>1, <2>4, <2>5, <2>7
    <3> HIDE DEF x
    <3>3. Cardinality(Units(f, S)) = x + f[a]
      BY <3>1, <3>2, <2>6
    <3> QED
      BY <3>3 DEF x
  <2> QED
    BY <2>6, <2>8, <1>2 DEF Total
<1>4. ASSUME a \notin S PROVE Total(f, S) = Total(f, S \ {a})
  <2>1. S \ {a} = S
    BY <1>4
  <2> QED
    BY <2>1
<1> QED
  BY <1>2, <1>3, <1>4

(* Where two functions differ in one argument only, so do their totals.     *)
LEMMA TotalPoint ==
  ASSUME NEW S, IsFiniteSet(S), NEW f, NEW g, NEW a \in S,
         \A v \in S : f[v] \in Nat /\ g[v] \in Nat,
         \A v \in S \ {a} : f[v] = g[v]
  PROVE  Total(g, S) + f[a] = Total(f, S) + g[a]
<1>1. Total(f, S \ {a}) \in Nat /\ Total(f, S) = Total(f, S \ {a}) + f[a]
  BY TotalRemove
<1>2. Total(g, S \ {a}) \in Nat /\ Total(g, S) = Total(g, S \ {a}) + g[a]
  BY TotalRemove
<1>3. Total(f, S \ {a}) = Total(g, S \ {a})
  BY TotalSame
<1>4. f[a] \in Nat /\ g[a] \in Nat
  OBVIOUS
<1> QED
  BY <1>1, <1>2, <1>3, <1>4

(* A total over more elements is no smaller. *)
LEMMA TotalSubset ==
  ASSUME NEW S, IsFiniteSet(S), NEW f, \A v \in S : f[v] \in Nat, NEW T \in SUBSET S
  PROVE  Total(f, T) <= Total(f, S)
<1>1. Units(f, T) \in SUBSET Units(f, S)
  BY DEF Units
<1>2. IsFiniteSet(Units(f, S))
  BY UnitsFinite
<1> QED
  BY <1>1, <1>2, FS_Subset DEF Total

(* A total is at least any of its terms. *)
LEMMA TotalBounds ==
  ASSUME NEW S, IsFiniteSet(S), NEW f, \A v \in S : f[v] \in Nat, NEW a \in S
  PROVE  Total(f, S) >= f[a]
<1>1. f[a] \in Nat
  OBVIOUS
<1>2. /\ Total(f, S \ {a}) \in Nat
      /\ Total(f, S) = Total(f, S \ {a}) + f[a]
  BY TotalRemove
<1> QED
  BY <1>1, <1>2

(* A total is zero exactly when all its terms are. *)
LEMMA TotalZero ==
  ASSUME NEW S, IsFiniteSet(S), NEW f, \A v \in S : f[v] \in Nat
  PROVE  Total(f, S) = 0 <=> \A v \in S : f[v] = 0
<1>1. ASSUME Total(f, S) = 0, NEW v \in S PROVE f[v] = 0
  <2>1. f[v] \in Nat
    OBVIOUS
  <2>2. Total(f, S) >= f[v]
    BY TotalBounds
  <2> QED
    BY <1>1, <2>1, <2>2
<1>2. ASSUME \A v \in S : f[v] = 0 PROVE Total(f, S) = 0
  <2>1. \A v \in S : Copies(f, v) = {}
    BY <1>2 DEF Copies
  <2>2. Units(f, S) = {}
    BY <2>1 DEF Units
  <2> QED
    BY <2>2, FS_EmptySet DEF Total
<1> QED
  BY <1>1, <1>2

(* The empty sum. *)
LEMMA TotalEmpty == \A f : Total(f, {}) = 0
<1>1. \A f : Units(f, {}) = {}
  BY DEF Units
<1> QED
  BY <1>1, FS_EmptySet DEF Total

(* A pair of a total is an element of the set and one of its units. *)
LEMMA UnitPair ==
  ASSUME NEW S, NEW f, NEW p
  PROVE  p \in Units(f, S) <=>
           /\ p[1] \in S /\ p[2] \in 1 .. f[p[1]] /\ p = <<p[1], p[2]>>
<1>1. ASSUME p \in Units(f, S)
      PROVE  p[1] \in S /\ p[2] \in 1 .. f[p[1]] /\ p = <<p[1], p[2]>>
  <2>1. PICK v \in S : p \in {v} \X (1 .. f[v])
    BY <1>1 DEF Units, Copies
  <2> QED
    BY <2>1
<1>2. ASSUME p[1] \in S, p[2] \in 1 .. f[p[1]], p = <<p[1], p[2]>>
      PROVE  p \in Units(f, S)
  <2> DEFINE v == p[1]
             i == p[2]
  <2>1. <<v, i>> \in {v} \X (1 .. f[v])
    BY <1>2
  <2>2. p \in Copies(f, v) /\ v \in S
    BY <1>2, <2>1 DEF Copies
  <2> QED
    BY <2>2 DEF Units
<1> QED
  BY <1>1, <1>2

(* The sum of equal terms, and a bound on all terms bounds the sum. *)
LEMMA TotalConstant ==
  ASSUME NEW S, IsFiniteSet(S), NEW m \in Nat, NEW f, \A v \in S : f[v] = m
  PROVE  Total(f, S) = Cardinality(S) * m
<1>1. IsFiniteSet(1 .. m) /\ Cardinality(1 .. m) = m
  BY FS_Interval
<1>2. Units(f, S) = S \X (1 .. m)
  <2>1. \A p : p \in Units(f, S) <=> p \in S \X (1 .. m)
    BY UnitPair
  <2> QED
    BY <2>1
<1> QED
  BY <1>1, <1>2, FS_Product DEF Total

LEMMA TotalAtMost ==
  ASSUME NEW S, IsFiniteSet(S), NEW m \in Nat, NEW f,
         \A v \in S : f[v] \in Nat /\ f[v] <= m
  PROVE  Total(f, S) <= Cardinality(S) * m
<1>1. IsFiniteSet(1 .. m) /\ Cardinality(1 .. m) = m
  BY FS_Interval
<1>2. /\ IsFiniteSet(S \X (1 .. m))
      /\ Cardinality(S \X (1 .. m)) = Cardinality(S) * m
  BY <1>1, FS_Product
<1>3. Units(f, S) \in SUBSET (S \X (1 .. m))
  <2>1. ASSUME NEW p \in Units(f, S) PROVE p \in S \X (1 .. m)
    <3>1. p[1] \in S /\ p[2] \in 1 .. f[p[1]] /\ p = <<p[1], p[2]>>
      BY UnitPair
    <3>2. f[p[1]] \in Nat /\ f[p[1]] <= m
      BY <3>1
    <3>3. p[2] \in 1 .. m
      BY <3>1, <3>2
    <3> QED
      BY <3>1, <3>3
  <2> QED
    BY <2>1
<1> QED
  BY <1>2, <1>3, FS_Subset DEF Total

(* The sum over a set of the sizes of the fibres of g is the size of what g *)
(* maps into the set.                                                       *)
FibreOf(g, C, a) == {c \in C : g[c] = a}
MappedInto(g, C, A) == {c \in C : g[c] \in A}

LEMMA TotalFibres ==
  ASSUME NEW A, NEW C, IsFiniteSet(A), IsFiniteSet(C), NEW g, NEW f,
         \A a \in A : f[a] = Cardinality(FibreOf(g, C, a))
  PROVE  Total(f, A) = Cardinality(MappedInto(g, C, A))
<1> USE DEF FibreOf, MappedInto
<1> DEFINE Fibre(a) == FibreOf(g, C, a)
           Mapped == MappedInto(g, C, A)
           e == [a \in A |-> CHOOSE b : b \in Bijection(1 .. f[a], Fibre(a))]
           m == [p \in Units(f, A) |-> e[p[1]][p[2]]]
<1>1. ASSUME NEW a \in A
      PROVE  f[a] \in Nat /\ e[a] \in Bijection(1 .. f[a], Fibre(a))
  <2>1. IsFiniteSet(Fibre(a))
    BY FS_Subset
  <2>2. /\ Cardinality(Fibre(a)) \in Nat
        /\ ExistsBijection(1 .. Cardinality(Fibre(a)), Fibre(a))
    <3> HIDE DEF Fibre
    <3> QED
      BY <2>1, FS_CardinalityType
  <2>3. \E b : b \in Bijection(1 .. f[a], Fibre(a))
    BY <2>2 DEF ExistsBijection
  <2> QED
    BY <2>2, <2>3
<1> HIDE DEF e, Fibre
<1>2. ASSUME NEW a \in A
      PROVE  /\ \A i \in 1 .. f[a] : e[a][i] \in Fibre(a)
             /\ \A c \in Fibre(a) : \E i \in 1 .. f[a] : e[a][i] = c
             /\ \A i, j \in 1 .. f[a] : e[a][i] = e[a][j] => i = j
  <2> DEFINE b == e[a]
             I == 1 .. f[a]
             T == Fibre(a)
  <2>1. b \in Bijection(I, T)
    BY <1>1
  <2> HIDE DEF b, I, T
  <2>2. /\ \A i \in I : b[i] \in T
        /\ \A i, j \in I : b[i] = b[j] => i = j
    BY <2>1, Fun_BijectionProperties
  <2>3. \A c \in T : \E i \in I : b[i] = c
    BY <2>1 DEF Bijection, Surjection
  <2> QED
    BY <2>2, <2>3 DEF b, I, T
<1>3. \A p \in Units(f, A) : p[1] \in A /\ p[2] \in 1 .. f[p[1]] /\ p = <<p[1], p[2]>>
  BY UnitPair
<1>4. m \in [Units(f, A) -> Mapped]
  BY <1>2, <1>3 DEF Fibre
<1>5. \A p, q \in Units(f, A) : m[p] = m[q] => p = q
  <2> SUFFICES ASSUME NEW p \in Units(f, A), NEW q \in Units(f, A), m[p] = m[q]
               PROVE  p = q
    OBVIOUS
  <2>1. p[1] = q[1]
    BY <1>2, <1>3 DEF Fibre
  <2> QED
    BY <1>2, <1>3, <2>1
<1>6. \A c \in Mapped : \E p \in Units(f, A) : m[p] = c
  <2> SUFFICES ASSUME NEW c \in Mapped PROVE \E p \in Units(f, A) : m[p] = c
    OBVIOUS
  <2>1. g[c] \in A /\ c \in Fibre(g[c])
    BY DEF Fibre
  <2>2. PICK i \in 1 .. f[g[c]] : e[g[c]][i] = c
    BY <1>2, <2>1
  <2>3. <<g[c], i>> \in Units(f, A)
    <3> DEFINE p == <<g[c], i>>
    <3>1. p[1] = g[c] /\ p[2] = i
      OBVIOUS
    <3> HIDE DEF p
    <3>2. p = <<p[1], p[2]>>
      BY <3>1 DEF p
    <3>3. p \in Units(f, A)
      BY <2>1, <3>1, <3>2, UnitPair
    <3> QED
      BY <3>3 DEF p
  <2> QED
    BY <2>2, <2>3
<1>7. m \in Bijection(Units(f, A), Mapped)
  <2> HIDE DEF m, Mapped
  <2>1. m \in Surjection(Units(f, A), Mapped)
    BY <1>4, <1>6 DEF Surjection
  <2> QED
    BY <1>4, <1>5, <2>1, Fun_IsBij
<1>8. IsFiniteSet(Units(f, A))
  BY <1>1, UnitsFinite
<1>9. ExistsBijection(Units(f, A), Mapped)
  BY <1>7 DEF ExistsBijection
<1> HIDE DEF Mapped, m, FibreOf, MappedInto
<1>10. Cardinality(Mapped) = Cardinality(Units(f, A))
  BY <1>8, <1>9, FS_Bijection
<1> QED
  BY <1>10 DEF Mapped, Total

(* Sums add up term by term. *)
LEMMA TotalPlus ==
  ASSUME NEW S, IsFiniteSet(S), NEW f, NEW g, NEW h,
         \A v \in S : f[v] \in Nat /\ g[v] \in Nat /\ h[v] = f[v] + g[v]
  PROVE  Total(h, S) = Total(f, S) + Total(g, S)
<1> DEFINE Upper == Units(h, S) \ Units(f, S)
           m == [p \in Units(g, S) |-> <<p[1], p[2] + f[p[1]]>>]
<1>1. /\ IsFiniteSet(Units(f, S)) /\ IsFiniteSet(Units(g, S))
      /\ IsFiniteSet(Units(h, S))
  BY UnitsFinite
<1>2. Units(f, S) \subseteq Units(h, S)
  BY UnitPair
<1>3. \A p : p \in Upper <=> /\ p[1] \in S /\ p = <<p[1], p[2]>>
                             /\ p[2] \in f[p[1]] + 1 .. f[p[1]] + g[p[1]]
  BY UnitPair
<1>4. \A p \in Units(g, S) : p[1] \in S /\ p[2] \in 1 .. g[p[1]] /\ p = <<p[1], p[2]>>
  BY UnitPair
<1> HIDE DEF Upper
<1>5. \A p \in Units(g, S) : m[p] \in Upper
  <2> SUFFICES ASSUME NEW p \in Units(g, S) PROVE m[p] \in Upper
    OBVIOUS
  <2> DEFINE q == m[p]
  <2>1. q = <<p[1], p[2] + f[p[1]]>>
    OBVIOUS
  <2> HIDE DEF q
  <2>2. q[1] = p[1] /\ q[2] = p[2] + f[p[1]] /\ q = <<q[1], q[2]>>
    BY <2>1
  <2>3. q[1] \in S /\ q[2] \in f[q[1]] + 1 .. f[q[1]] + g[q[1]]
    BY <1>4, <2>2
  <2>4. q \in Upper
    BY <1>3, <2>2, <2>3
  <2> QED
    BY <2>4 DEF q
<1>6. \A p, q \in Units(g, S) : m[p] = m[q] => p = q
  <2> SUFFICES ASSUME NEW p \in Units(g, S), NEW q \in Units(g, S), m[p] = m[q]
               PROVE  p = q
    OBVIOUS
  <2>1. p[1] = q[1] /\ p[2] + f[p[1]] = q[2] + f[q[1]]
    OBVIOUS
  <2>2. /\ p[1] \in S /\ f[p[1]] \in Nat /\ g[p[1]] \in Nat /\ g[q[1]] \in Nat
        /\ p[2] \in 1 .. g[p[1]] /\ q[2] \in 1 .. g[q[1]]
    BY <1>4
  <2>3. p[2] \in Int /\ q[2] \in Int
    BY <2>2
  <2>4. p[2] = q[2]
    BY <2>1, <2>2, <2>3
  <2> QED
    BY <1>4, <2>1, <2>4
<1>7. \A q \in Upper : \E p \in Units(g, S) : m[p] = q
  <2> SUFFICES ASSUME NEW q \in Upper PROVE \E p \in Units(g, S) : m[p] = q
    OBVIOUS
  <2> DEFINE p == <<q[1], q[2] - f[q[1]]>>
  <2>1. q[1] \in S /\ q = <<q[1], q[2]>> /\ q[2] \in f[q[1]] + 1 .. f[q[1]] + g[q[1]]
    BY <1>3
  <2>2. p[1] = q[1] /\ p[2] = q[2] - f[q[1]] /\ p = <<p[1], p[2]>>
    OBVIOUS
  <2> HIDE DEF p
  <2>3. p[2] \in 1 .. g[p[1]] /\ p[2] + f[p[1]] = q[2]
    BY <2>1, <2>2
  <2>4. p \in Units(g, S)
    BY <2>1, <2>2, <2>3, UnitPair
  <2>5. m[p] = q
    BY <2>1, <2>2, <2>3, <2>4
  <2> QED
    BY <2>4, <2>5
<1>8. m \in Bijection(Units(g, S), Upper)
  <2>1. m \in [Units(g, S) -> Upper]
    BY <1>5
  <2> HIDE DEF m
  <2>2. m \in Surjection(Units(g, S), Upper)
    BY <1>7, <2>1 DEF Surjection
  <2> QED
    BY <1>6, <2>1, <2>2, Fun_IsBij
<1>9. Cardinality(Upper) = Cardinality(Units(g, S)) /\ IsFiniteSet(Upper)
  <2>1. ExistsBijection(Units(g, S), Upper)
    BY <1>8 DEF ExistsBijection
  <2> QED
    BY <1>1, <2>1, FS_Bijection
<1>10. /\ Units(h, S) = Units(f, S) \cup Upper
       /\ Units(f, S) \cap Upper = {}
  BY <1>2 DEF Upper
<1>11. Cardinality(Units(h, S)) =
         Cardinality(Units(f, S)) + Cardinality(Upper) - Cardinality({})
  BY <1>1, <1>9, <1>10, FS_Union
<1>12. Cardinality({}) = 0
  BY FS_EmptySet
<1>13. Cardinality(Units(f, S)) \in Nat /\ Cardinality(Units(g, S)) \in Nat
  BY <1>1, FS_CardinalityType
<1> QED
  BY <1>9, <1>11, <1>12, <1>13 DEF Total

=============================================================================
