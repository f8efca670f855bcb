------------------------------- MODULE Sommes -------------------------------
(***************************************************************************)
(* Lemmas on induction and on the sums of the community modules            *)
(* (SumFunctionOnSet), for the proofs about quantities, amounts and        *)
(* points.  The induction theorems of the library take an operator as a    *)
(* parameter; those of this module are stated with a set instead, and rest *)
(* on the fact that the natural numbers are well founded.                  *)
(***************************************************************************)
EXTENDS Integers, FiniteSets, Functions, FiniteSetTheorems, WellFoundedInduction, TLAPS

-----------------------------------------------------------------------------
(* Induction *)

\* A set of natural numbers has a least member.
LEMMA PlusPetit ==
  ASSUME NEW T, T \subseteq Nat, T # {}
  PROVE  \E n \in T : \A m \in T : n <= m
<1> DEFINE R == {ss \in Nat \X Nat : ss[1] < ss[2]}
<1>1. IsWellFoundedOn(R, Nat)
  BY NatLessThanWellFounded DEF OpToRel
<1>2. PICK n \in T : \A m \in T : ~(<<m, n>> \in R)
  <2> HIDE DEF R
  <2> QED
    BY <1>1, WFMin
<1>3. \A m \in T : ~(m < n)
  BY <1>2
<1> QED
  BY <1>3

\* Induction: a set that holds 0 and the successor of each of its numbers holds every number.
LEMMA Recurrence ==
  ASSUME NEW T, 0 \in T, \A n \in Nat : n \in T => n + 1 \in T
  PROVE  Nat \subseteq T
<1> SUFFICES ASSUME Nat \ T # {} PROVE FALSE
  OBVIOUS
<1>1. PICK n \in Nat \ T : \A m \in Nat \ T : n <= m
  BY PlusPetit
<1>2. n # 0 /\ n - 1 \in Nat
  BY <1>1
<1>3. n - 1 \in T
  BY <1>1, <1>2
<1> QED
  BY <1>1, <1>2, <1>3

-----------------------------------------------------------------------------
(* The recursive function of MapThenFoldSet *)

\* One step of the sum of f over s, given the sums g of smaller sets.
Pas(f, g, s) ==
  IF s = {} THEN 0 ELSE f[CHOOSE x \in s : TRUE] + g[s \ {CHOOSE x \in s : TRUE}]

\* g gives the sums over the members of Q.
Sommation(f, g, Q) == g = [s \in Q |-> Pas(f, g, s)]

Petits(S, n) == {s \in SUBSET S : Cardinality(s) <= n}

\* A set without one of its members is smaller.
LEMMA SansUn ==
  ASSUME NEW S, IsFiniteSet(S), NEW n \in Nat, NEW s \in Petits(S, n + 1), NEW x \in s
  PROVE  s \ {x} \in Petits(S, n)
<1>1. IsFiniteSet(s) /\ Cardinality(s) \in Nat
  BY FS_Subset, FS_CardinalityType DEF Petits
<1>2. Cardinality(s \ {x}) = Cardinality(s) - 1
  BY <1>1, FS_RemoveElement
<1> QED
  BY <1>1, <1>2 DEF Petits

\* The equation of the sums has one solution at most, on whatever family it is stated.
LEMMA SommationUnique ==
  ASSUME NEW S, IsFiniteSet(S), NEW f, NEW P, NEW Q, NEW g, NEW h,
         SUBSET S \subseteq P, SUBSET S \subseteq Q, Sommation(f, g, P), Sommation(f, h, Q)
  PROVE  \A s \in SUBSET S : g[s] = h[s]
<1> DEFINE T == {n \in Nat : \A s \in Petits(S, n) : g[s] = h[s]}
<1>1. 0 \in T
  <2> SUFFICES ASSUME NEW s \in Petits(S, 0) PROVE g[s] = h[s]
    OBVIOUS
  <2>1. s = {}
    BY FS_Subset, FS_CardinalityType, FS_EmptySet DEF Petits
  <2>2. s \in P /\ s \in Q
    BY DEF Petits
  <2> QED
    BY <2>1, <2>2 DEF Sommation, Pas
<1>2. ASSUME NEW n \in Nat, n \in T PROVE n + 1 \in T
  <2> SUFFICES ASSUME NEW s \in Petits(S, n + 1) PROVE g[s] = h[s]
    OBVIOUS
  <2>1. s \in P /\ s \in Q
    BY DEF Petits
  <2>2. g[s] = Pas(f, g, s) /\ h[s] = Pas(f, h, s)
    BY <2>1 DEF Sommation
  <2>3. CASE s = {}
    BY <2>2, <2>3 DEF Pas
  <2>4. CASE s # {}
    <3> DEFINE x == CHOOSE x \in s : TRUE
    <3>1. x \in s
      BY <2>4
    <3>2. s \ {x} \in Petits(S, n)
      BY <3>1, SansUn
    <3>3. g[s \ {x}] = h[s \ {x}]
      BY <1>2, <3>2
    <3> QED
      BY <2>2, <2>4, <3>3 DEF Pas
  <2> QED
    BY <2>3, <2>4
<1>3. Nat \subseteq T
  <2> HIDE DEF T
  <2> QED
    BY <1>1, <1>2, Recurrence
<1>4. ASSUME NEW s \in SUBSET S PROVE g[s] = h[s]
  <2>1. Cardinality(s) \in Nat
    BY FS_Subset, FS_CardinalityType
  <2>2. s \in Petits(S, Cardinality(s))
    BY <2>1 DEF Petits
  <2> QED
    BY <1>3, <2>1, <2>2
<1> QED
  BY <1>4

\* It has one, built one cardinality after the other.
LEMMA SommationExiste ==
  ASSUME NEW S, IsFiniteSet(S), NEW f
  PROVE  \E g : Sommation(f, g, SUBSET S)
<1> DEFINE T == {n \in Nat : \E g : Sommation(f, g, Petits(S, n))}
<1>1. 0 \in T
  <2> DEFINE g == [s \in Petits(S, 0) |-> 0]
  <2>1. ASSUME NEW s \in Petits(S, 0) PROVE Pas(f, g, s) = 0
    <3>1. s = {}
      BY FS_Subset, FS_CardinalityType, FS_EmptySet DEF Petits
    <3> QED
      BY <3>1 DEF Pas
  <2>2. Sommation(f, g, Petits(S, 0))
    BY <2>1 DEF Sommation
  <2> QED
    BY <2>2
<1>2. ASSUME NEW n \in Nat, n \in T PROVE n + 1 \in T
  <2>1. PICK g : Sommation(f, g, Petits(S, n))
    BY <1>2
  <2> DEFINE h == [s \in Petits(S, n + 1) |-> Pas(f, g, s)]
  <2>2. ASSUME NEW s \in Petits(S, n) PROVE s \in Petits(S, n + 1) /\ h[s] = g[s]
    <3>1. s \in Petits(S, n + 1)
      BY FS_Subset, FS_CardinalityType DEF Petits
    <3> QED
      BY <2>1, <3>1 DEF Sommation
  <2>3. ASSUME NEW s \in Petits(S, n + 1) PROVE Pas(f, g, s) = Pas(f, h, s)
    <3>1. CASE s = {}
      BY <3>1 DEF Pas
    <3>2. CASE s # {}
      <4> DEFINE x == CHOOSE x \in s : TRUE
      <4>1. x \in s
        BY <3>2
      <4>2. s \ {x} \in Petits(S, n)
        BY <4>1, SansUn
      <4>3. g[s \ {x}] = h[s \ {x}]
        BY <2>2, <4>2
      <4> HIDE DEF h
      <4> QED
        BY <3>2, <4>3 DEF Pas
    <3> QED
      BY <3>1, <3>2
  <2>4. Sommation(f, h, Petits(S, n + 1))
    BY <2>3 DEF Sommation
  <2> QED
    BY <2>4
<1>3. Nat \subseteq T
  <2> HIDE DEF T
  <2> QED
    BY <1>1, <1>2, Recurrence
<1>4. Cardinality(S) \in Nat /\ Petits(S, Cardinality(S)) = SUBSET S
  BY FS_Subset, FS_CardinalityType DEF Petits
<1> QED
  BY <1>3, <1>4

-----------------------------------------------------------------------------
(* The sum of f over a finite set *)

\* The fold is that solution, taken at the whole set.
LEMMA SommeEstSommation ==
  ASSUME NEW S, IsFiniteSet(S), NEW f
  PROVE  \E g : Sommation(f, g, SUBSET S) /\ SumFunctionOnSet(f, S) = g[S]
<1> DEFINE h == CHOOSE g : Sommation(f, g, SUBSET S)
<1>1. SumFunctionOnSet(f, S) = (CHOOSE g : g = [s \in SUBSET S |-> Pas(f, g, s)])[S]
  BY Zenon DEF SumFunctionOnSet, FoldFunctionOnSet, MapThenFoldSet, Pas
<1>2. SumFunctionOnSet(f, S) = h[S]
  BY <1>1, Zenon DEF Sommation
<1>3. Sommation(f, h, SUBSET S)
  <2> HIDE DEF h
  <2>1. PICK g : Sommation(f, g, SUBSET S)
    BY SommationExiste
  <2> QED
    BY <2>1, Zenon DEF h
<1> HIDE DEF h
<1> QED
  BY <1>2, <1>3

\* Nothing to add.
LEMMA SommeVide == ASSUME NEW f PROVE SumFunctionOnSet(f, {}) = 0
<1>1. PICK g : Sommation(f, g, SUBSET {}) /\ SumFunctionOnSet(f, {}) = g[{}]
  BY SommeEstSommation, FS_EmptySet
<1> QED
  BY <1>1 DEF Sommation, Pas

\* One solution gives the sums over every subset.
LEMMA SommeDunSousEnsemble ==
  ASSUME NEW S, IsFiniteSet(S), NEW f, NEW g, Sommation(f, g, SUBSET S), NEW T \in SUBSET S
  PROVE  SumFunctionOnSet(f, T) = g[T]
<1>1. IsFiniteSet(T)
  BY FS_Subset
<1>2. PICK h : Sommation(f, h, SUBSET T) /\ SumFunctionOnSet(f, T) = h[T]
  BY <1>1, SommeEstSommation
<1>3. SUBSET T \subseteq SUBSET S /\ T \in SUBSET T
  OBVIOUS
<1> QED
  BY <1>1, <1>2, <1>3, SommationUnique

\* The member that the fold of the community modules takes first.
LEMMA SommePremier ==
  ASSUME NEW S, IsFiniteSet(S), NEW f, S # {}
  PROVE  LET x == CHOOSE x \in S : TRUE IN
         x \in S /\ SumFunctionOnSet(f, S) = f[x] + SumFunctionOnSet(f, S \ {x})
<1>1. PICK g : Sommation(f, g, SUBSET S) /\ SumFunctionOnSet(f, S) = g[S]
  BY SommeEstSommation
<1> DEFINE x == CHOOSE x \in S : TRUE
<1>2. x \in S
  OBVIOUS
<1>3. g[S] = f[x] + g[S \ {x}]
  <2>1. g[S] = Pas(f, g, S)
    BY <1>1 DEF Sommation
  <2> QED
    BY <2>1 DEF Pas
<1>4. SumFunctionOnSet(f, S \ {x}) = g[S \ {x}]
  BY <1>1, SommeDunSousEnsemble
<1> HIDE DEF x
<1>5. SumFunctionOnSet(f, S) = f[x] + SumFunctionOnSet(f, S \ {x})
  BY <1>1, <1>3, <1>4
<1> QED
  BY <1>2, <1>5 DEF x

-----------------------------------------------------------------------------
(* What the proofs use *)

\* Induction over the subsets of a finite set, one element more at a time.
LEMMA RecurrenceEnsembles ==
  ASSUME NEW S, IsFiniteSet(S), NEW F, {} \in F,
         \A T \in SUBSET S, x \in S : T \in F /\ x \notin T => T \cup {x} \in F
  PROVE  SUBSET S \subseteq F
<1> DEFINE N == {n \in Nat : Petits(S, n) \subseteq F}
<1>1. 0 \in N
  <2> SUFFICES ASSUME NEW s \in Petits(S, 0) PROVE s \in F
    OBVIOUS
  <2>1. s = {}
    BY FS_Subset, FS_CardinalityType, FS_EmptySet DEF Petits
  <2> QED
    BY <2>1
<1>2. ASSUME NEW n \in Nat, n \in N PROVE n + 1 \in N
  <2>1. ASSUME NEW s \in Petits(S, n + 1), NEW x \in s PROVE s \in F
    <3>1. s \ {x} \in F
      BY <1>2, SansUn
    <3>2. s \ {x} \in SUBSET S /\ x \in S /\ (s \ {x}) \cup {x} = s
      BY DEF Petits
    <3> QED
      BY <3>1, <3>2
  <2>2. \A s \in Petits(S, n + 1) : s = {} \/ s \in F
    BY <2>1
  <2>3. Petits(S, n + 1) \subseteq F
    BY <2>2
  <2> QED
    BY <2>3
<1>3. Nat \subseteq N
  <2> HIDE DEF N
  <2> QED
    BY <1>1, <1>2, Recurrence
<1>4. ASSUME NEW s \in SUBSET S PROVE s \in F
  <2>1. Cardinality(s) \in Nat /\ s \in Petits(S, Cardinality(s))
    BY FS_Subset, FS_CardinalityType DEF Petits
  <2> QED
    BY <1>3, <2>1
<1> QED
  BY <1>4

\* A sum of integers is an integer, and any of its terms may be taken apart.
LEMMA SommeUn ==
  ASSUME NEW S, IsFiniteSet(S), NEW f, \A x \in S : f[x] \in Int
  PROVE  /\ SumFunctionOnSet(f, S) \in Int
         /\ \A x \in S : SumFunctionOnSet(f, S) = f[x] + SumFunctionOnSet(f, S \ {x})
<1> DEFINE Juste(T) == /\ SumFunctionOnSet(f, T) \in Int
                       /\ \A x \in T : SumFunctionOnSet(f, T) = f[x] + SumFunctionOnSet(f, T \ {x})
           N == {n \in Nat : \A T \in Petits(S, n) : Juste(T)}
<1>1. Juste({})
  BY SommeVide
<1>2. 0 \in N
  <2> SUFFICES ASSUME NEW T \in Petits(S, 0) PROVE Juste(T)
    OBVIOUS
  <2>1. T = {}
    BY FS_Subset, FS_CardinalityType, FS_EmptySet DEF Petits
  <2> QED
    BY <1>1, <2>1
<1>3. ASSUME NEW n \in Nat, n \in N PROVE n + 1 \in N
  <2>a. SUFFICES ASSUME NEW T \in Petits(S, n + 1), T # {} PROVE Juste(T)
    <3> HIDE DEF Juste
    <3>1. \A T \in Petits(S, n + 1) : T = {} \/ Juste(T)
      BY <2>a
    <3>2. \A T \in Petits(S, n + 1) : Juste(T)
      BY <1>1, <3>1
    <3> QED
      BY <3>2
  <2>0. T \subseteq S /\ IsFiniteSet(T)
    BY FS_Subset DEF Petits
  <2>1. PICK y \in T : SumFunctionOnSet(f, T) = f[y] + SumFunctionOnSet(f, T \ {y})
    BY <2>0, <2>a, SommePremier
  <2>2. \A x \in T : T \ {x} \in Petits(S, n) /\ Juste(T \ {x})
    BY <1>3, SansUn
  <2>3. SumFunctionOnSet(f, T) \in Int
    BY <2>0, <2>1, <2>2
  <2>4. ASSUME NEW x \in T, x # y PROVE SumFunctionOnSet(f, T) = f[x] + SumFunctionOnSet(f, T \ {x})
    <3> DEFINE sans == SumFunctionOnSet(f, (T \ {x}) \ {y})
    <3>1. (T \ {y}) \ {x} = (T \ {x}) \ {y}
      OBVIOUS
    <3>2. SumFunctionOnSet(f, T \ {y}) = f[x] + sans
      <4>1. x \in T \ {y}
        BY <2>4
      <4>2. SumFunctionOnSet(f, T \ {y}) = f[x] + SumFunctionOnSet(f, (T \ {y}) \ {x})
        BY <2>2, <4>1
      <4> QED
        BY <3>1, <4>2
    <3>3. SumFunctionOnSet(f, T \ {x}) = f[y] + sans
      <4>1. y \in T \ {x}
        BY <2>4
      <4> QED
        BY <2>2, <4>1
    <3>4. sans \in Int
      <4>1. (T \ {x}) \ {y} \in Petits(S, n)
        <5>1. Cardinality(T \ {x}) \in Nat /\ IsFiniteSet(T \ {x})
          BY <2>0, FS_Subset, FS_CardinalityType
        <5>2. Cardinality((T \ {x}) \ {y}) <= Cardinality(T \ {x})
          BY <5>1, FS_RemoveElement
        <5>3. Cardinality((T \ {x}) \ {y}) \in Nat
          BY <5>1, FS_RemoveElement, FS_CardinalityType
        <5>4. T \ {x} \in Petits(S, n)
          BY <2>2
        <5>5. Cardinality(T \ {x}) <= n /\ (T \ {x}) \ {y} \in SUBSET S
          BY <5>4 DEF Petits
        <5>6. Cardinality((T \ {x}) \ {y}) <= n
          BY <5>1, <5>2, <5>3, <5>5
        <5> QED
          BY <5>5, <5>6 DEF Petits
      <4> QED
        BY <1>3, <4>1
    <3>5. f[x] \in Int /\ f[y] \in Int
      BY <2>0
    <3> HIDE DEF sans
    <3> QED
      BY <2>1, <3>2, <3>3, <3>4, <3>5
  <2> QED
    BY <2>1, <2>3, <2>4
<1>4. Nat \subseteq N
  <2> HIDE DEF N
  <2> QED
    BY <1>2, <1>3, Recurrence
<1>5. Cardinality(S) \in Nat /\ S \in Petits(S, Cardinality(S))
  BY FS_CardinalityType DEF Petits
<1> QED
  BY <1>4, <1>5

\* One member more.
LEMMA SommeAvec ==
  ASSUME NEW S, IsFiniteSet(S), NEW x, x \notin S, NEW f, f[x] \in Int, \A y \in S : f[y] \in Int
  PROVE  SumFunctionOnSet(f, S \cup {x}) = SumFunctionOnSet(f, S) + f[x]
<1>1. IsFiniteSet(S \cup {x}) /\ (S \cup {x}) \ {x} = S
  BY FS_AddElement
<1>2. SumFunctionOnSet(f, S \cup {x}) = f[x] + SumFunctionOnSet(f, S)
  BY <1>1, SommeUn
<1>3. SumFunctionOnSet(f, S) \in Int
  BY SommeUn
<1> QED
  BY <1>2, <1>3

\* Two functions that agree on a set have the same sum over it.
LEMMA SommeEgale ==
  ASSUME NEW S, IsFiniteSet(S), NEW f, NEW g, \A x \in S : f[x] = g[x] /\ f[x] \in Int
  PROVE  SumFunctionOnSet(f, S) = SumFunctionOnSet(g, S)
<1> DEFINE F == {T \in SUBSET S : SumFunctionOnSet(f, T) = SumFunctionOnSet(g, T)}
<1>1. {} \in F
  BY SommeVide
<1>2. ASSUME NEW T \in SUBSET S, NEW x \in S, T \in F, x \notin T PROVE T \cup {x} \in F
  <2>1. IsFiniteSet(T)
    BY FS_Subset
  <2>2. SumFunctionOnSet(f, T \cup {x}) = SumFunctionOnSet(f, T) + f[x]
    BY <1>2, <2>1, SommeAvec
  <2>3. SumFunctionOnSet(g, T \cup {x}) = SumFunctionOnSet(g, T) + g[x]
    <3>1. g[x] \in Int /\ \A y \in T : g[y] \in Int
      OBVIOUS
    <3> QED
      BY <1>2, <2>1, <3>1, SommeAvec
  <2> QED
    BY <1>2, <2>2, <2>3
<1>3. SUBSET S \subseteq F
  <2> HIDE DEF F
  <2> QED
    BY <1>1, <1>2, RecurrenceEnsembles
<1> QED
  BY <1>3

\* Only the term of x changes.
LEMMA SommeChange ==
  ASSUME NEW S, IsFiniteSet(S), NEW f, NEW g, NEW x \in S, g[x] \in Int,
         \A y \in S : f[y] \in Int, \A y \in S \ {x} : g[y] = f[y]
  PROVE  SumFunctionOnSet(g, S) = SumFunctionOnSet(f, S) - f[x] + g[x]
<1>1. IsFiniteSet(S \ {x})
  BY FS_RemoveElement
<1>2. SumFunctionOnSet(g, S \ {x}) = SumFunctionOnSet(f, S \ {x})
  BY <1>1, SommeEgale
<1>3. SumFunctionOnSet(f, S) = f[x] + SumFunctionOnSet(f, S \ {x})
  BY SommeUn
<1>4. SumFunctionOnSet(g, S) = g[x] + SumFunctionOnSet(g, S \ {x})
  BY SommeUn
<1>5. SumFunctionOnSet(f, S \ {x}) \in Int
  BY <1>1, SommeUn
<1> QED
  BY <1>2, <1>3, <1>4, <1>5

\* A sum is below another one when its terms are.
LEMMA SommeBornee ==
  ASSUME NEW S, IsFiniteSet(S), NEW f, NEW g, \A x \in S : f[x] \in Int /\ g[x] \in Int /\ f[x] <= g[x]
  PROVE  SumFunctionOnSet(f, S) <= SumFunctionOnSet(g, S)
<1> DEFINE F == {T \in SUBSET S : SumFunctionOnSet(f, T) <= SumFunctionOnSet(g, T)}
<1>1. {} \in F
  BY SommeVide
<1>2. ASSUME NEW T \in SUBSET S, NEW x \in S, T \in F, x \notin T PROVE T \cup {x} \in F
  <2>1. IsFiniteSet(T)
    BY FS_Subset
  <2>2. /\ SumFunctionOnSet(f, T \cup {x}) = SumFunctionOnSet(f, T) + f[x]
        /\ SumFunctionOnSet(g, T \cup {x}) = SumFunctionOnSet(g, T) + g[x]
    BY <1>2, <2>1, SommeAvec
  <2>3. SumFunctionOnSet(f, T) \in Int /\ SumFunctionOnSet(g, T) \in Int
    BY <2>1, SommeUn
  <2> QED
    BY <1>2, <2>2, <2>3
<1>3. SUBSET S \subseteq F
  <2> HIDE DEF F
  <2> QED
    BY <1>1, <1>2, RecurrenceEnsembles
<1> QED
  BY <1>3

\* A sum of natural numbers is one, and each of its terms is below it.
LEMMA SommeNaturelle ==
  ASSUME NEW S, IsFiniteSet(S), NEW f, \A x \in S : f[x] \in Nat
  PROVE  SumFunctionOnSet(f, S) \in Nat /\ \A x \in S : f[x] <= SumFunctionOnSet(f, S)
<1> DEFINE F == {T \in SUBSET S : SumFunctionOnSet(f, T) \in Nat}
<1>1. {} \in F
  BY SommeVide
<1>2. ASSUME NEW T \in SUBSET S, NEW x \in S, T \in F, x \notin T PROVE T \cup {x} \in F
  <2>1. IsFiniteSet(T)
    BY FS_Subset
  <2>2. f[x] \in Int /\ \A y \in T : f[y] \in Int
    OBVIOUS
  <2>3. SumFunctionOnSet(f, T \cup {x}) = SumFunctionOnSet(f, T) + f[x]
    BY <1>2, <2>1, <2>2, SommeAvec
  <2> QED
    BY <1>2, <2>3
<1>3. SUBSET S \subseteq F
  <2> HIDE DEF F
  <2> QED
    BY <1>1, <1>2, RecurrenceEnsembles
<1>4. ASSUME NEW x \in S PROVE f[x] <= SumFunctionOnSet(f, S)
  <2>1. SumFunctionOnSet(f, S) = f[x] + SumFunctionOnSet(f, S \ {x})
    BY SommeUn
  <2>2. SumFunctionOnSet(f, S \ {x}) \in Nat
    BY <1>3
  <2> QED
    BY <2>1, <2>2
<1> QED
  BY <1>3, <1>4

\* A sum over the image of a set by an injection.
LEMMA SommeImage ==
  ASSUME NEW S, IsFiniteSet(S), NEW f, NEW g, NEW b,
         \A x \in S : f[x] \in Int /\ g[b[x]] = f[x],
         \A x, y \in S : b[x] = b[y] => x = y
  PROVE  SumFunctionOnSet(g, {b[x] : x \in S}) = SumFunctionOnSet(f, S)
<1> DEFINE Image(T) == {b[x] : x \in T}
           F == {T \in SUBSET S : /\ IsFiniteSet(Image(T))
                                  /\ SumFunctionOnSet(g, Image(T)) = SumFunctionOnSet(f, T)}
<1>1. {} \in F
  <2>1. Image({}) = {}
    OBVIOUS
  <2> QED
    BY <2>1, SommeVide, FS_EmptySet
<1>2. ASSUME NEW T \in SUBSET S, NEW x \in S, T \in F, x \notin T PROVE T \cup {x} \in F
  <2>1. IsFiniteSet(T) /\ IsFiniteSet(Image(T)) /\ SumFunctionOnSet(g, Image(T)) = SumFunctionOnSet(f, T)
    BY <1>2, FS_Subset
  <2>2. PICK I, y : I = Image(T) /\ y = b[x]
    OBVIOUS
  <2>3. Image(T \cup {x}) = I \cup {y} /\ y \notin I
    BY <1>2, <2>2
  <2>4. g[y] \in Int /\ g[y] = f[x] /\ \A z \in I : g[z] \in Int
    BY <2>2
  <2>5. f[x] \in Int /\ \A z \in T : f[z] \in Int
    OBVIOUS
  <2>6. SumFunctionOnSet(f, T \cup {x}) = SumFunctionOnSet(f, T) + f[x]
    BY <1>2, <2>1, <2>5, SommeAvec
  <2> HIDE DEF Image
  <2>7. IsFiniteSet(I) /\ SumFunctionOnSet(g, I) = SumFunctionOnSet(f, T)
    BY <2>1, <2>2
  <2>8. SumFunctionOnSet(g, I \cup {y}) = SumFunctionOnSet(g, I) + g[y]
    <3>1. IsFiniteSet(I) /\ y \notin I
      BY <2>3, <2>7
    <3>2. g[y] \in Int
      BY <2>4
    <3>3. \A z \in I : g[z] \in Int
      BY <2>4
    <3> QED
      BY <3>1, <3>2, <3>3, SommeAvec
  <2>9. IsFiniteSet(I \cup {y})
    BY <2>7, FS_AddElement
  <2> QED
    BY <2>3, <2>4, <2>6, <2>7, <2>8, <2>9
<1>3. SUBSET S \subseteq F
  <2> HIDE DEF F
  <2> QED
    BY <1>1, <1>2, RecurrenceEnsembles
<1> QED
  BY <1>3

\* A sum of natural numbers grows with the set it is taken over.
LEMMA SommeInclusion ==
  ASSUME NEW S, IsFiniteSet(S), NEW T \in SUBSET S, NEW f, \A x \in S : f[x] \in Nat
  PROVE  SumFunctionOnSet(f, T) <= SumFunctionOnSet(f, S)
<1> DEFINE R == S \ T
           F == {U \in SUBSET R : SumFunctionOnSet(f, T) <= SumFunctionOnSet(f, T \cup U)}
<1>1. IsFiniteSet(R) /\ IsFiniteSet(T)
  BY FS_Subset
<1>2. SumFunctionOnSet(f, T) \in Int
  BY <1>1, SommeUn
<1>3. {} \in F
  <2>1. T \cup {} = T
    OBVIOUS
  <2> QED
    BY <1>2, <2>1
<1>4. ASSUME NEW U \in SUBSET R, NEW x \in R, U \in F, x \notin U PROVE U \cup {x} \in F
  <2>1. PICK V : V = T \cup U
    OBVIOUS
  <2>2. IsFiniteSet(V) /\ x \notin V /\ f[x] \in Nat /\ (\A y \in V : f[y] \in Int) /\ T \cup (U \cup {x}) = V \cup {x}
    BY <1>4, <2>1, FS_Subset
  <2>3. SumFunctionOnSet(f, V \cup {x}) = SumFunctionOnSet(f, V) + f[x]
    BY <2>2, SommeAvec
  <2>4. SumFunctionOnSet(f, V) \in Int
    BY <2>2, SommeUn
  <2>5. SumFunctionOnSet(f, T) <= SumFunctionOnSet(f, V)
    BY <1>4, <2>1
  <2>6. SumFunctionOnSet(f, T) <= SumFunctionOnSet(f, V \cup {x})
    BY <1>2, <2>2, <2>3, <2>4, <2>5
  <2>7. SumFunctionOnSet(f, T) <= SumFunctionOnSet(f, T \cup (U \cup {x}))
    BY <2>2, <2>6, Zenon
  <2> QED
    BY <2>7
<1>5. SUBSET R \subseteq F
  <2> HIDE DEF F, R
  <2> QED
    BY <1>1, <1>3, <1>4, RecurrenceEnsembles
<1>6. T \cup R = S
  OBVIOUS
<1> QED
  BY <1>5, <1>6

\* The sum of a sum.
LEMMA SommePlus ==
  ASSUME NEW S, IsFiniteSet(S), NEW f, NEW g, NEW h,
         \A x \in S : f[x] \in Int /\ g[x] \in Int /\ h[x] = f[x] + g[x]
  PROVE  SumFunctionOnSet(h, S) = SumFunctionOnSet(f, S) + SumFunctionOnSet(g, S)
<1> DEFINE F == {T \in SUBSET S : SumFunctionOnSet(h, T) = SumFunctionOnSet(f, T) + SumFunctionOnSet(g, T)}
<1>1. {} \in F
  BY SommeVide
<1>2. ASSUME NEW T \in SUBSET S, NEW x \in S, T \in F, x \notin T PROVE T \cup {x} \in F
  <2>1. IsFiniteSet(T) /\ (\A y \in T : h[y] \in Int) /\ h[x] \in Int
    BY FS_Subset
  <2>2. /\ SumFunctionOnSet(f, T \cup {x}) = SumFunctionOnSet(f, T) + f[x]
        /\ SumFunctionOnSet(g, T \cup {x}) = SumFunctionOnSet(g, T) + g[x]
        /\ SumFunctionOnSet(h, T \cup {x}) = SumFunctionOnSet(h, T) + h[x]
    BY <1>2, <2>1, SommeAvec
  <2>3. SumFunctionOnSet(f, T) \in Int /\ SumFunctionOnSet(g, T) \in Int
    BY <2>1, SommeUn
  <2> QED
    BY <1>2, <2>2, <2>3
<1>3. SUBSET S \subseteq F
  <2> HIDE DEF F
  <2> QED
    BY <1>1, <1>2, RecurrenceEnsembles
<1> QED
  BY <1>3

\* Shares rounded down: what each x takes of k, in proportion to f[x] out of b, never
\* adds up to more than the share of the whole.
LEMMA SommeProportion ==
  ASSUME NEW S, IsFiniteSet(S), NEW f, NEW g, NEW b \in Nat, NEW k \in Nat,
         \A x \in S : f[x] \in Int /\ g[x] \in Int /\ b * g[x] <= k * f[x]
  PROVE  b * SumFunctionOnSet(g, S) <= k * SumFunctionOnSet(f, S)
<1> DEFINE F == {T \in SUBSET S : b * SumFunctionOnSet(g, T) <= k * SumFunctionOnSet(f, T)}
<1>1. {} \in F
  BY SommeVide
<1>2. ASSUME NEW T \in SUBSET S, NEW x \in S, T \in F, x \notin T PROVE T \cup {x} \in F
  <2>1. IsFiniteSet(T)
    BY FS_Subset
  <2>2. /\ SumFunctionOnSet(f, T \cup {x}) = SumFunctionOnSet(f, T) + f[x]
        /\ SumFunctionOnSet(g, T \cup {x}) = SumFunctionOnSet(g, T) + g[x]
    BY <1>2, <2>1, SommeAvec
  <2>3. PICK m, n, u, v : m = SumFunctionOnSet(f, T) /\ n = SumFunctionOnSet(g, T) /\ u = f[x] /\ v = g[x]
    OBVIOUS
  <2>4. m \in Int /\ n \in Int /\ u \in Int /\ v \in Int /\ b * n <= k * m /\ b * v <= k * u
    BY <1>2, <2>1, <2>3, SommeUn
  <2>5. b * (n + v) = b * n + b * v /\ k * (m + u) = k * m + k * u
    BY <2>4
  <2>6. b * n \in Int /\ b * v \in Int /\ k * m \in Int /\ k * u \in Int
    BY <2>4
  <2>7. b * (n + v) <= k * (m + u)
    BY <2>4, <2>5, <2>6
  <2> QED
    BY <2>2, <2>3, <2>7
<1>3. SUBSET S \subseteq F
  <2> HIDE DEF F
  <2> QED
    BY <1>1, <1>2, RecurrenceEnsembles
<1> QED
  BY <1>3

\* A sum of zeros.
LEMMA SommeNulle ==
  ASSUME NEW S, IsFiniteSet(S), NEW f, \A x \in S : f[x] = 0
  PROVE  SumFunctionOnSet(f, S) = 0
<1>1. \A x \in S : f[x] \in Int /\ f[x] = f[x] + f[x]
  OBVIOUS
<1>2. PICK n : n = SumFunctionOnSet(f, S)
  OBVIOUS
<1>3. n = n + n
  BY <1>1, <1>2, SommePlus
<1>4. n \in Int
  BY <1>1, <1>2, SommeUn
<1>5. n = 0
  BY <1>3, <1>4
<1> QED
  BY <1>2, <1>5
=============================================================================
