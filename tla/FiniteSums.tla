------------------------------ MODULE FiniteSums ------------------------------
(***************************************************************************)
(* Induction and sums for the proofs.  The sums of the models are folds,   *)
(* FoldFunctionOnSet and MapThenSumSet, which pick the elements of a set   *)
(* one after the other; here they are unfolded in any order.  Induction is *)
(* over a set of numbers, or of subsets, that is given as a set.           *)
(***************************************************************************)
EXTENDS Naturals, FiniteSets, FiniteSetsExt, Functions, FiniteSetTheorems,
        WellFoundedInduction, TLAPS

\* A set of numbers has a least member.
LEMMA LeastNumber ==
    ASSUME NEW S, S \subseteq Nat, S # {}
    PROVE  \E m \in S : \A n \in S : m <= n
<1>1. PICK m \in S : \A n \in S : ~ (<<n, m>> \in OpToRel(<, Nat))
  BY NatLessThanWellFounded, WFMin
<1>2. \A n \in S : ~ (n < m)
  BY <1>1 DEF OpToRel
<1> QED BY <1>2

\* Induction, of a set of numbers.
LEMMA InductiveSet ==
    ASSUME NEW S, 0 \in S, \A n \in Nat : n \in S => n + 1 \in S
    PROVE  \A n \in Nat : n \in S
<1> DEFINE Missed == {n \in Nat : n \notin S}
<1>1. CASE Missed = {}
  BY <1>1
<1>2. CASE Missed # {}
  <2>1. PICK m \in Missed : \A n \in Missed : m <= n
    <3>1. Missed \subseteq Nat
      OBVIOUS
    <3> HIDE DEF Missed
    <3> QED BY <1>2, <3>1, LeastNumber
  <2>2. m \in Nat /\ m \notin S /\ m # 0
    OBVIOUS
  <2>3. m - 1 \in Nat /\ ~(m <= m - 1)
    BY <2>2
  <2>4. m - 1 \in S
    BY <2>1, <2>3
  <2>5. (m - 1) + 1 \in S
    BY <2>3, <2>4
  <2> QED BY <2>2, <2>5
<1> QED BY <1>1, <1>2

-----------------------------------------------------------------------------
(* Sums over finite sets *)

\* Induction over the subsets of a finite set, of a set of them.
LEMMA SubsetInduction ==
    ASSUME NEW U, IsFiniteSet(U), NEW Good,
           \A T \in SUBSET U : (\A x \in T : T \ {x} \in Good) => T \in Good
    PROVE  \A T \in SUBSET U : T \in Good
<1> DEFINE Missed == {T \in SUBSET U : T \notin Good}
<1>1. SUFFICES ASSUME Missed # {} PROVE FALSE
    OBVIOUS
<1>2. Missed \subseteq FiniteSubsetsOf(U)
    BY FS_Subset DEF FiniteSubsetsOf
<1>3. PICK T \in Missed : \A S \in Missed : ~ (<<S, T>> \in StrictSubsetOrdering(U))
  <2> HIDE DEF Missed
  <2> QED BY <1>1, <1>2, FS_StrictSubsetOrderingWellFounded, WFMin
<1>4. ASSUME NEW x \in T PROVE T \ {x} \in Good
  <2>1. T \ {x} \in SUBSET U /\ T \ {x} \subseteq T /\ T \ {x} # T
      BY <1>4
  <2>2. <<T \ {x}, T>> \in StrictSubsetOrdering(U)
      BY <2>1 DEF StrictSubsetOrdering
  <2> QED BY <1>3, <2>1, <2>2
<1> QED BY <1>3, <1>4

\* The sum of f over a set, the element a fold takes first, and the function on
\* the subsets that the fold evaluates.
TotalOf(f, S) == FoldFunctionOnSet(+, 0, f, S)

Picked(S) == CHOOSE x \in S : TRUE

IsTotal(it, f, S) ==
    it = [s \in SUBSET S |-> IF s = {} THEN 0 ELSE f[Picked(s)] + it[s \ {Picked(s)}]]

LEMMA TotalIs ==
    ASSUME NEW f, NEW S
    PROVE  TotalOf(f, S) = (CHOOSE it : IsTotal(it, f, S))[S]
BY DEF TotalOf, FoldFunctionOnSet, MapThenFoldSet, IsTotal, Picked

LEMMA PickedIn == \A S : S # {} => Picked(S) \in S
BY DEF Picked

\* Two such functions agree where both are defined.
LEMMA TotalsAgree ==
    ASSUME NEW f, NEW S, IsFiniteSet(S), NEW T \in SUBSET S, NEW it, NEW other,
           IsTotal(it, f, S), IsTotal(other, f, T)
    PROVE  \A s \in SUBSET T : it[s] = other[s]
<1> DEFINE Good == {s \in SUBSET T : it[s] = other[s]}
<1>1. ASSUME NEW s \in SUBSET T, \A x \in s : s \ {x} \in Good PROVE s \in Good
  <2>1. CASE s = {}
      BY <2>1 DEF IsTotal
  <2>2. CASE s # {}
    <3>1. Picked(s) \in s /\ s \in SUBSET S
        BY <2>2, PickedIn
    <3>2. /\ it[s] = f[Picked(s)] + it[s \ {Picked(s)}]
          /\ other[s] = f[Picked(s)] + other[s \ {Picked(s)}]
        BY <2>2, <3>1 DEF IsTotal
    <3>3. it[s \ {Picked(s)}] = other[s \ {Picked(s)}]
        BY <1>1, <3>1
    <3> QED BY <3>2, <3>3
  <2> QED BY <2>1, <2>2
<1>2. \A s \in SUBSET T : s \in Good
  <2>1. IsFiniteSet(T)
      BY FS_Subset
  <2> HIDE DEF Good
  <2> QED BY <1>1, <2>1, SubsetInduction
<1> QED BY <1>2

\* The sum over a set is that of its first element and of the rest.
LEMMA TotalUnfolding ==
    ASSUME NEW f, NEW U, IsFiniteSet(U)
    PROVE  \A T \in SUBSET U : /\ IsTotal([s \in SUBSET T |-> TotalOf(f, s)], f, T)
              /\ TotalOf(f, T) = IF T = {} THEN 0 ELSE f[Picked(T)] + TotalOf(f, T \ {Picked(T)})
<1> DEFINE Totals(T) == [s \in SUBSET T |-> TotalOf(f, s)]
<1> DEFINE Good == {T \in SUBSET U : IsTotal(Totals(T), f, T)}
<1>1. ASSUME NEW T \in SUBSET U, \A x \in T : T \ {x} \in Good PROVE T \in Good
  <2> DEFINE j == [s \in SUBSET T |-> IF s # T THEN TotalOf(f, s) ELSE IF T = {} THEN 0
                       ELSE f[Picked(T)] + TotalOf(f, T \ {Picked(T)})]
  <2>1. ASSUME NEW s \in SUBSET T, s # T
        PROVE  TotalOf(f, s) = IF s = {} THEN 0 ELSE f[Picked(s)] + TotalOf(f, s \ {Picked(s)})
    <3>1. PICK x \in T : x \notin s
        BY <2>1
    <3>2. s \in SUBSET (T \ {x}) /\ IsTotal(Totals(T \ {x}), f, T \ {x})
        BY <1>1, <3>1
    <3>3. Totals(T \ {x})[s] = IF s = {} THEN 0 ELSE f[Picked(s)] + Totals(T \ {x})[s \ {Picked(s)}]
      <4> HIDE DEF Totals
      <4> QED BY <3>2 DEF IsTotal
    <3>4. s \ {Picked(s)} \in SUBSET (T \ {x})
        BY <3>2
    <3> QED BY <3>2, <3>3, <3>4
  <2>2. ASSUME NEW s \in SUBSET T
        PROVE  j[s] = IF s = {} THEN 0 ELSE f[Picked(s)] + j[s \ {Picked(s)}]
    <3>1. s # {} => s \ {Picked(s)} \in SUBSET T /\ s \ {Picked(s)} # T
        BY PickedIn
    <3>2. CASE s = T
        BY <3>1, <3>2
    <3>3. CASE s # T
        BY <2>1, <3>1, <3>3
    <3> QED BY <3>2, <3>3
  <2>3. IsTotal(j, f, T)
    <3>1. j = [s \in SUBSET T |-> IF s = {} THEN 0 ELSE f[Picked(s)] + j[s \ {Picked(s)}]]
      <4>1. j = [s \in SUBSET T |-> j[s]]
          OBVIOUS
      <4> HIDE DEF j
      <4> QED BY <2>2, <4>1
    <3> HIDE DEF j
    <3> QED BY <3>1 DEF IsTotal
  <2>4. IsTotal(CHOOSE it : IsTotal(it, f, T), f, T)
    <3> HIDE DEF j
    <3> QED BY <2>3, Zenon
  <2>5. TotalOf(f, T) = j[T]
    <3>1. IsFiniteSet(T) /\ T \in SUBSET T
        BY FS_Subset
    <3> HIDE DEF j
    <3>2. (CHOOSE it : IsTotal(it, f, T))[T] = j[T]
        BY <2>3, <2>4, <3>1, TotalsAgree
    <3> QED BY <3>2, TotalIs
  <2>6. Totals(T) = j
      BY <2>5
  <2> QED BY <2>3, <2>6
<1>2. \A T \in SUBSET U : T \in Good
  <2> HIDE DEF Good
  <2> QED BY <1>1, SubsetInduction
<1>3. ASSUME NEW T \in SUBSET U
      PROVE  TotalOf(f, T) = IF T = {} THEN 0 ELSE f[Picked(T)] + TotalOf(f, T \ {Picked(T)})
  <2>1. IsTotal(Totals(T), f, T)
      BY <1>2
  <2>2. Totals(T)[T] = IF T = {} THEN 0 ELSE f[Picked(T)] + Totals(T)[T \ {Picked(T)}]
    <3> HIDE DEF Totals
    <3> QED BY <2>1 DEF IsTotal
  <2> QED BY <2>2
<1> QED BY <1>2, <1>3

LEMMA TotalUnfolds ==
    ASSUME NEW f, NEW U, IsFiniteSet(U)
    PROVE  \A T \in SUBSET U : TotalOf(f, T) =
              IF T = {} THEN 0 ELSE f[Picked(T)] + TotalOf(f, T \ {Picked(T)})
BY TotalUnfolding

LEMMA TotalExists ==
    ASSUME NEW f, NEW U, IsFiniteSet(U)
    PROVE  \E it : IsTotal(it, f, U)
<1>1. IsTotal([s \in SUBSET U |-> TotalOf(f, s)], f, U)
    BY TotalUnfolding
<1> QED BY <1>1

LEMMA TotalOfNone ==
    ASSUME NEW f PROVE TotalOf(f, {}) = 0
<1>1. \A T \in SUBSET {} : TotalOf(f, T) = IF T = {} THEN 0
              ELSE f[Picked(T)] + TotalOf(f, T \ {Picked(T)})
    BY TotalUnfolds, FS_EmptySet
<1> QED BY <1>1

\* Numbers add up to a number.
LEMMA TotalNat ==
    ASSUME NEW f, NEW U, IsFiniteSet(U), \A o \in U : f[o] \in Nat
    PROVE  \A T \in SUBSET U : TotalOf(f, T) \in Nat
<1> DEFINE Good == {T \in SUBSET U : TotalOf(f, T) \in Nat}
<1>1. ASSUME NEW T \in SUBSET U, \A x \in T : T \ {x} \in Good PROVE T \in Good
  <2>1. CASE T = {}
      BY <2>1, TotalOfNone
  <2>2. CASE T # {}
    <3>1. Picked(T) \in T /\ TotalOf(f, T) = f[Picked(T)] + TotalOf(f, T \ {Picked(T)})
        BY <2>2, PickedIn, TotalUnfolds
    <3>2. TotalOf(f, T \ {Picked(T)}) \in Nat
        BY <1>1, <3>1
    <3> QED BY <3>1, <3>2
  <2> QED BY <2>1, <2>2
<1>2. \A T \in SUBSET U : T \in Good
  <2> HIDE DEF Good
  <2> QED BY <1>1, SubsetInduction
<1> QED BY <1>2

\* The sum over a set is that of any of its elements and of the rest.
LEMMA TotalSplits ==
    ASSUME NEW f, NEW U, IsFiniteSet(U), \A o \in U : f[o] \in Nat
    PROVE  \A T \in SUBSET U : \A x \in T : TotalOf(f, T) = f[x] + TotalOf(f, T \ {x})
<1> DEFINE Good == {T \in SUBSET U : \A x \in T : TotalOf(f, T) = f[x] + TotalOf(f, T \ {x})}
<1>1. ASSUME NEW T \in SUBSET U, \A x \in T : T \ {x} \in Good PROVE T \in Good
  <2>1. SUFFICES ASSUME NEW x \in T PROVE TotalOf(f, T) = f[x] + TotalOf(f, T \ {x})
      OBVIOUS
  <2>2. PICK p \in T : TotalOf(f, T) = f[p] + TotalOf(f, T \ {p})
    <3>1. TotalOf(f, T) = f[Picked(T)] + TotalOf(f, T \ {Picked(T)})
        BY TotalUnfolds
    <3>2. Picked(T) \in T
        BY PickedIn
    <3> QED BY <3>1, <3>2
  <2>3. CASE x # p
    <3> DEFINE rest == (T \ {p}) \ {x}
    <3>1. TotalOf(f, T \ {p}) = f[x] + TotalOf(f, rest)
        BY <1>1, <2>3
    <3>2. (T \ {x}) \ {p} = rest
        OBVIOUS
    <3>3. TotalOf(f, T \ {x}) = f[p] + TotalOf(f, (T \ {x}) \ {p})
        BY <1>1, <2>3
    <3>4. rest \in SUBSET U /\ f[x] \in Nat /\ f[p] \in Nat
        OBVIOUS
    <3> HIDE DEF rest
    <3>5. TotalOf(f, rest) \in Nat
        BY <3>4, TotalNat
    <3>6. \A a, b, c \in Nat : a + (b + c) = b + (a + c)
        OBVIOUS
    <3>7. f[p] + (f[x] + TotalOf(f, rest)) = f[x] + (f[p] + TotalOf(f, rest))
        BY <3>4, <3>5, <3>6
    <3> QED BY <2>2, <3>1, <3>2, <3>3, <3>7, Zenon
  <2> QED BY <2>2, <2>3
<1>2. \A T \in SUBSET U : T \in Good
  <2> HIDE DEF Good
  <2> QED BY <1>1, SubsetInduction
<1> QED BY <1>2

\* A sum depends on the values it adds.
LEMMA TotalSame ==
    ASSUME NEW f, NEW g, NEW S, IsFiniteSet(S), \A o \in S : f[o] = g[o]
    PROVE  TotalOf(f, S) = TotalOf(g, S)
<1> DEFINE Good == {T \in SUBSET S : TotalOf(f, T) = TotalOf(g, T)}
<1>1. ASSUME NEW T \in SUBSET S, \A x \in T : T \ {x} \in Good PROVE T \in Good
  <2>1. CASE T = {}
    <3>1. TotalOf(f, {}) = TotalOf(g, {})
        BY TotalOfNone
    <3> QED BY <2>1, <3>1
  <2>2. CASE T # {}
    <3>1. Picked(T) \in T
        BY <2>2, PickedIn
    <3>2. TotalOf(f, T) = f[Picked(T)] + TotalOf(f, T \ {Picked(T)})
        BY <2>2, TotalUnfolds
    <3>3. TotalOf(g, T) = g[Picked(T)] + TotalOf(g, T \ {Picked(T)})
        BY <2>2, TotalUnfolds
    <3> QED BY <1>1, <3>1, <3>2, <3>3
  <2> QED BY <2>1, <2>2
<1>2. \A T \in SUBSET S : T \in Good
  <2> HIDE DEF Good
  <2> QED BY <1>1, SubsetInduction
<1> QED BY <1>2

LEMMA TotalOfZeros ==
    ASSUME NEW f, NEW S, IsFiniteSet(S), \A x \in S : f[x] = 0
    PROVE  TotalOf(f, S) = 0
<1> DEFINE Good == {T \in SUBSET S : TotalOf(f, T) = 0}
<1>1. ASSUME NEW T \in SUBSET S, \A x \in T : T \ {x} \in Good PROVE T \in Good
  <2>1. CASE T = {}
      BY <2>1, TotalOfNone
  <2>2. CASE T # {}
    <3>1. Picked(T) \in T /\ TotalOf(f, T) = f[Picked(T)] + TotalOf(f, T \ {Picked(T)})
        BY <2>2, PickedIn, TotalUnfolds
    <3> QED BY <1>1, <3>1
  <2> QED BY <2>1, <2>2
<1>2. \A T \in SUBSET S : T \in Good
  <2> HIDE DEF Good
  <2> QED BY <1>1, SubsetInduction
<1> QED BY <1>2

\* A value that grows by one makes a sum grow by at most one.
LEMMA TotalPlusOne ==
    ASSUME NEW f, NEW g, NEW U, IsFiniteSet(U), NEW r \in U,
           \A x \in U : f[x] \in Nat /\ g[x] \in Nat,
           g[r] = f[r] + 1, \A x \in U \ {r} : g[x] = f[x]
    PROVE  \A S \in SUBSET U : /\ TotalOf(f, S) \in Nat
              /\ TotalOf(g, S) = IF r \in S THEN TotalOf(f, S) + 1 ELSE TotalOf(f, S)
<1> SUFFICES ASSUME NEW S \in SUBSET U
             PROVE  /\ TotalOf(f, S) \in Nat
                    /\ TotalOf(g, S) = IF r \in S THEN TotalOf(f, S) + 1 ELSE TotalOf(f, S)
    OBVIOUS
<1>1. IsFiniteSet(S) /\ IsFiniteSet(S \ {r}) /\ S \ {r} \in SUBSET U
    BY FS_Subset
<1>2. TotalOf(f, S) \in Nat /\ TotalOf(f, S \ {r}) \in Nat
    BY <1>1, TotalNat
<1>3. TotalOf(g, S \ {r}) = TotalOf(f, S \ {r})
    BY <1>1, TotalSame
<1>4. CASE r \in S
  <2>1. TotalOf(f, S) = f[r] + TotalOf(f, S \ {r})
      BY <1>4, TotalSplits
  <2>2. TotalOf(g, S) = g[r] + TotalOf(g, S \ {r})
      BY <1>4, TotalSplits
  <2>3. f[r] \in Nat
      OBVIOUS
  <2> QED BY <1>2, <1>3, <1>4, <2>1, <2>2, <2>3
<1>5. CASE r \notin S
  <2>1. S \ {r} = S
      BY <1>5
  <2> QED BY <1>2, <1>3, <1>5, <2>1
<1> QED BY <1>4, <1>5

\* The sum over a part of a set is at most that over the set.
LEMMA TotalOfPart ==
    ASSUME NEW f, NEW g, NEW U, IsFiniteSet(U), NEW S \in SUBSET U,
           \A o \in U : g[o] \in Nat, \A o \in S : f[o] = g[o]
    PROVE  TotalOf(f, S) \in Nat /\ TotalOf(f, S) <= TotalOf(g, U)
<1>1. IsFiniteSet(S) /\ \A o \in S : f[o] \in Nat
    BY FS_Subset
<1>2. TotalOf(f, S) \in Nat
    BY <1>1, TotalNat
<1>3. TotalOf(f, S) = TotalOf(g, S)
    BY <1>1, TotalSame
<1>4. TotalOf(g, S) <= TotalOf(g, U)
  <2> DEFINE Good == {T \in SUBSET U : S \subseteq T => TotalOf(g, S) <= TotalOf(g, T)}
  <2>1. ASSUME NEW T \in SUBSET U, \A x \in T : T \ {x} \in Good PROVE T \in Good
    <3>1. CASE ~ (S \subseteq T)
        BY <3>1
    <3>2. CASE S = T
        BY <3>2, TotalNat
    <3>3. CASE S \subseteq T /\ S # T
      <4>1. PICK x \in T : x \notin S
          BY <3>3
      <4>2. S \subseteq T \ {x} /\ TotalOf(g, S) <= TotalOf(g, T \ {x})
          BY <2>1, <3>3, <4>1
      <4>3. TotalOf(g, T) = g[x] + TotalOf(g, T \ {x})
          BY TotalSplits
      <4>4. TotalOf(g, S) \in Nat /\ TotalOf(g, T \ {x}) \in Nat /\ g[x] \in Nat
          BY TotalNat
      <4> QED BY <4>2, <4>3, <4>4
    <3> QED BY <3>1, <3>2, <3>3
  <2>2. \A T \in SUBSET U : T \in Good
    <3> HIDE DEF Good
    <3> QED BY <2>1, SubsetInduction
  <2> QED BY <2>2
<1> QED BY <1>2, <1>3, <1>4
=============================================================================
