-------------------------------- MODULE Sums --------------------------------
(***************************************************************************)
(* Facts about SumFunctionOnSet, with which the ledger's accounts are      *)
(* compared with their rows, for finite sets of any size.                  *)
(*                                                                         *)
(* The operator is a recursive function of subsets, given by CHOOSE.  That *)
(* the equation has a solution (Solvable) and only one (Agree) is shown by *)
(* induction on the size of a subset, stated with sets of subsets, not     *)
(* with predicates; SumSolves then gives the recursion to all the others.  *)
(***************************************************************************)
EXTENDS Integers, FiniteSets, Functions, FiniteSetsExt, FiniteSetTheorems, WellFoundedInduction, TLAPS

\* A nonempty set of naturals has a least member.
LEMMA Least ==
    ASSUME NEW T \in SUBSET Nat, T # {}
    PROVE  \E n \in T : \A m \in T : n <= m
<1> DEFINE I == {1 .. n : n \in T}
<1>1. I \subseteq FiniteSubsetsOf(Nat) /\ I # {}
  <2>1. ASSUME NEW n \in T PROVE 1 .. n \subseteq Nat /\ IsFiniteSet(1 .. n)
    <3>1. n \in Int /\ 1 \in Int
      OBVIOUS
    <3> QED
      BY <3>1, FS_Interval
  <2> QED
    BY <2>1 DEF FiniteSubsetsOf
<1>2. PICK s \in I : \A t \in I : <<t, s>> \notin StrictSubsetOrdering(Nat)
  BY <1>1, FS_StrictSubsetOrderingWellFounded, WFMin
<1>3. PICK n \in T : s = 1 .. n
  OBVIOUS
<1>4. ASSUME NEW m \in T PROVE n <= m
  <2>1. SUFFICES ASSUME m < n PROVE FALSE
    OBVIOUS
  <2>2. 1 .. m \subseteq s /\ 1 .. m # s /\ s \subseteq Nat /\ 1 .. m \subseteq Nat
    <3>1. n \in s /\ n \notin 1 .. m
      BY <2>1, <1>3
    <3> QED
      BY <2>1, <1>3, <3>1
  <2>3. <<1 .. m, s>> \in StrictSubsetOrdering(Nat)
    BY <2>2 DEF StrictSubsetOrdering
  <2> QED
    BY <2>3, <1>2
<1> QED
  BY <1>4

\* The member a recursion takes first.
Pick(s) == CHOOSE x \in s : TRUE

\* h solves the recursion at s.
Equation(h, g, s) == h[s] = IF s = {} THEN 0 ELSE g[Pick(s)] + h[s \ {Pick(s)}]

\* The recursion inside SumFunctionOnSet.
Body(h, g, S) == [s \in SUBSET S |-> IF s = {} THEN 0 ELSE g[Pick(s)] + h[s \ {Pick(s)}]]

\* What SumFunctionOnSet stands for.
LEMMA Unfold ==
    ASSUME NEW g, NEW S
    PROVE  SumFunctionOnSet(g, S) = (CHOOSE h : h = Body(h, g, S))[S]
  BY DEF SumFunctionOnSet, FoldFunctionOnSet, MapThenFoldSet, Body, Pick

\* A subset without one member is smaller.
LEMMA Smaller ==
    ASSUME NEW s, IsFiniteSet(s), s # {}
    PROVE  /\ Pick(s) \in s
           /\ IsFiniteSet(s \ {Pick(s)})
           /\ Cardinality(s) \in Nat
           /\ Cardinality(s \ {Pick(s)}) = Cardinality(s) - 1
  BY FS_RemoveElement, FS_CardinalityType DEF Pick

Solves(h, g, S, n) ==
    /\ h \in [SUBSET S -> Int]
    /\ \A s \in SUBSET S : Cardinality(s) <= n => Equation(h, g, s)

\* The recursion has a solution up to any size.
LEMMA Solvable ==
    ASSUME NEW S, IsFiniteSet(S), NEW g, \A x \in S : g[x] \in Int,
           NEW n \in Nat
    PROVE  \E h : Solves(h, g, S, n)
<1> DEFINE T == {k \in Nat : ~ \E h : Solves(h, g, S, k)}
<1>1. SUFFICES ASSUME T # {} PROVE FALSE
  OBVIOUS
<1>2. PICK k \in T : \A m \in T : k <= m
  BY <1>1, Least
<1>3. CASE k = 0
  <2> DEFINE h == [s \in SUBSET S |-> 0]
  <2>1. ASSUME NEW s \in SUBSET S, Cardinality(s) <= 0 PROVE s = {}
    BY <2>1, FS_Subset, FS_CardinalityType, FS_EmptySet
  <2>2. Solves(h, g, S, 0)
    BY <2>1 DEF Solves, Equation
  <2> QED
    BY <2>2, <1>3
<1>4. CASE k # 0
  <2>1. k - 1 \in Nat /\ k - 1 \notin T
    BY <1>4, <1>2
  <2>2. PICK h : Solves(h, g, S, k - 1)
    BY <2>1
  <2> DEFINE h2 == Body(h, g, S)
  <2>3. h2 \in [SUBSET S -> Int]
    <3>1. ASSUME NEW s \in SUBSET S, s # {} PROVE Pick(s) \in S /\ s \ {Pick(s)} \in SUBSET S
      BY <3>1 DEF Pick
    <3> QED
      BY <3>1, <2>2 DEF Body, Solves
  <2>4. ASSUME NEW s \in SUBSET S, Cardinality(s) <= k PROVE Equation(h2, g, s)
    <3>1. CASE s = {}
      BY <3>1 DEF Equation, Body
    <3>2. CASE s # {}
      <4> DEFINE t == s \ {Pick(s)}
      <4>1. IsFiniteSet(s)
        BY FS_Subset
      <4>2. t \in SUBSET S /\ Cardinality(t) <= k - 1
        <5>1. Cardinality(s) \in Nat /\ Cardinality(t) = Cardinality(s) - 1
          BY <4>1, <3>2, Smaller
        <5> QED
          BY <5>1, <2>4
      <4>3. Equation(h, g, t)
        BY <4>2, <2>2 DEF Solves
      <4>4. h2[t] = h[t]
        BY <4>3, <4>2 DEF Equation, Body
      <4> QED
        BY <4>4, <3>2 DEF Equation, Body
    <3> QED
      BY <3>1, <3>2
  <2>5. Solves(h2, g, S, k)
    BY <2>3, <2>4 DEF Solves
  <2> QED
    BY <2>5
<1> QED
  BY <1>3, <1>4

\* Two solutions agree.
LEMMA Agree ==
    ASSUME NEW S, IsFiniteSet(S), NEW g, NEW f, \A x \in S : g[x] = f[x],
           NEW h, NEW e,
           \A s \in SUBSET S : Equation(h, g, s) /\ Equation(e, f, s)
    PROVE  h[S] = e[S]
<1> DEFINE T == {k \in Nat : \E s \in SUBSET S : Cardinality(s) = k /\ h[s] # e[s]}
<1>0. Cardinality(S) \in Nat
  BY FS_CardinalityType
<1>1. SUFFICES ASSUME T # {} PROVE FALSE
  BY <1>0
<1>2. PICK k \in T : \A m \in T : k <= m
  BY <1>1, Least
<1>3. PICK s \in SUBSET S : Cardinality(s) = k /\ h[s] # e[s]
  OBVIOUS
<1>4. Equation(h, g, s) /\ Equation(e, f, s)
  OBVIOUS
<1>5. s # {}
  BY <1>3, <1>4 DEF Equation
<1>6. IsFiniteSet(s)
  BY FS_Subset
<1> DEFINE t == s \ {Pick(s)}
<1>7. t \in SUBSET S /\ Cardinality(t) = k - 1 /\ Cardinality(t) \in Nat /\ Pick(s) \in S
  BY <1>5, <1>6, Smaller, <1>3, FS_CardinalityType
<1>8. h[t] = e[t]
  BY <1>7, <1>2
<1> QED
  BY <1>8, <1>7, <1>5, <1>3, <1>4 DEF Equation

\* A solution of the recursion, for all subsets.
IsSum(h, g, S) == h \in [SUBSET S -> Int] /\ \A s \in SUBSET S : Equation(h, g, s)

\* SumFunctionOnSet obeys its recursion.
LEMMA SumSolves ==
    ASSUME NEW S, IsFiniteSet(S), NEW g, \A x \in S : g[x] \in Int
    PROVE  \E h : IsSum(h, g, S) /\ SumFunctionOnSet(g, S) = h[S]
<1>1. Cardinality(S) \in Nat /\ \A s \in SUBSET S : Cardinality(s) <= Cardinality(S)
  BY FS_CardinalityType, FS_Subset
<1>2. PICK h : Solves(h, g, S, Cardinality(S))
  BY <1>1, Solvable
<1>3. IsSum(h, g, S)
  BY <1>1, <1>2 DEF IsSum, Solves
<1>4. h = Body(h, g, S)
  BY <1>3 DEF IsSum, Body, Equation
<1> DEFINE e == CHOOSE f : f = Body(f, g, S)
<1>5. e = Body(e, g, S)
  BY <1>4
<1> HIDE DEF e
<1>6. \A s \in SUBSET S : Equation(e, g, s)
  BY <1>5 DEF Equation, Body
<1>7. h[S] = e[S]
  BY <1>6, <1>3, Agree DEF IsSum
<1>8. SumFunctionOnSet(g, S) = e[S]
  BY Unfold DEF e
<1> QED
  BY <1>3, <1>7, <1>8

\* Nothing sums to zero.
LEMMA SumEmpty ==
    ASSUME NEW g
    PROVE  SumFunctionOnSet(g, {}) = 0
<1>1. IsFiniteSet({})
  BY FS_EmptySet
<1>2. PICK h : IsSum(h, g, {}) /\ SumFunctionOnSet(g, {}) = h[{}]
  BY <1>1, SumSolves
<1> QED
  BY <1>2 DEF IsSum, Equation

\* Integers sum to an integer.
LEMMA SumInt ==
    ASSUME NEW S, IsFiniteSet(S), NEW g, \A x \in S : g[x] \in Int
    PROVE  SumFunctionOnSet(g, S) \in Int
<1>1. PICK h : IsSum(h, g, S) /\ SumFunctionOnSet(g, S) = h[S]
  BY SumSolves
<1> QED
  BY <1>1 DEF IsSum

\* Sums of the same numbers are the same.
LEMMA SumSame ==
    ASSUME NEW S, IsFiniteSet(S), NEW g, NEW f,
           \A x \in S : g[x] \in Int, \A x \in S : f[x] = g[x]
    PROVE  SumFunctionOnSet(f, S) = SumFunctionOnSet(g, S)
<1>1. PICK h : IsSum(h, g, S) /\ SumFunctionOnSet(g, S) = h[S]
  BY SumSolves
<1>2. \A x \in S : f[x] \in Int
  OBVIOUS
<1>3. PICK e : IsSum(e, f, S) /\ SumFunctionOnSet(f, S) = e[S]
  BY <1>2, SumSolves
<1>4. \A s \in SUBSET S : Equation(e, f, s) /\ Equation(h, g, s)
  BY <1>1, <1>3 DEF IsSum
<1>5. e[S] = h[S]
  BY <1>4, Agree
<1> QED
  BY <1>1, <1>3, <1>5

\* Any member can be counted last.
LEMMA AnyLast ==
    ASSUME NEW S, IsFiniteSet(S), NEW g, \A x \in S : g[x] \in Int,
           NEW h, IsSum(h, g, S)
    PROVE  \A s \in SUBSET S : \A x \in s : h[s] = h[s \ {x}] + g[x]
<1> DEFINE Fails(s) == \E x \in s : h[s] # h[s \ {x}] + g[x]
           T == {k \in Nat : \E s \in SUBSET S : Cardinality(s) = k /\ Fails(s)}
<1>0. \A s \in SUBSET S : IsFiniteSet(s) /\ Cardinality(s) \in Nat
  BY FS_Subset, FS_CardinalityType
<1>1. SUFFICES ASSUME T # {} PROVE FALSE
  BY <1>0
<1>2. PICK k \in T : \A m \in T : k <= m
  BY <1>1, Least
<1>3. PICK s \in SUBSET S : Cardinality(s) = k /\ Fails(s)
  OBVIOUS
<1>4. PICK x \in s : h[s] # h[s \ {x}] + g[x]
  BY <1>3
<1> DEFINE p == Pick(s)
<1>5. p \in s
  BY <1>4 DEF Pick
<1>6. h[s] = g[p] + h[s \ {p}]
  BY <1>4 DEF IsSum, Equation
<1>7. \A t \in SUBSET S : h[t] \in Int
  BY DEF IsSum
<1>8. g[x] \in Int /\ g[p] \in Int
  BY <1>5
<1>9. /\ s \ {p} \in SUBSET S /\ s \ {x} \in SUBSET S
      /\ (s \ {x}) \ {p} = (s \ {p}) \ {x}
  OBVIOUS
<1> HIDE DEF p
<1>10. h[s \ {p}] \in Int /\ h[s \ {x}] \in Int /\ h[(s \ {p}) \ {x}] \in Int
  BY <1>7, <1>9
<1>11. p # x
  <2>1. SUFFICES ASSUME p = x PROVE FALSE
    OBVIOUS
  <2>2. h[s] = h[s \ {x}] + g[x]
    BY <2>1, <1>6, <1>8, <1>10
  <2> QED
    BY <2>2, <1>4
<1>12. ASSUME NEW y \in s PROVE ~ Fails(s \ {y})
  <2>1. Cardinality(s \ {y}) = k - 1 /\ s \ {y} \in SUBSET S
    BY <1>0, <1>3, FS_RemoveElement
  <2>2. Cardinality(s \ {y}) \in Nat /\ k \in Nat
    BY <2>1, <1>0
  <2> QED
    BY <2>1, <2>2, <1>2
<1>13. h[s \ {p}] = h[(s \ {p}) \ {x}] + g[x]
  BY <1>12, <1>5, <1>11
<1>14. h[s \ {x}] = h[(s \ {p}) \ {x}] + g[p]
  BY <1>12, <1>5, <1>9, <1>11
<1> QED
  BY <1>4, <1>6, <1>8, <1>10, <1>13, <1>14

\* The members of a set one by one, in any order.
LEMMA SumRemove ==
    ASSUME NEW S, IsFiniteSet(S), NEW g, \A x \in S : g[x] \in Int, NEW x \in S
    PROVE  SumFunctionOnSet(g, S) = SumFunctionOnSet(g, S \ {x}) + g[x]
<1>1. PICK h : IsSum(h, g, S) /\ SumFunctionOnSet(g, S) = h[S]
  BY SumSolves
<1>2. IsFiniteSet(S \ {x})
  BY FS_Subset
<1>3. PICK e : IsSum(e, g, S \ {x}) /\ SumFunctionOnSet(g, S \ {x}) = e[S \ {x}]
  BY <1>2, SumSolves
<1>4. \A s \in SUBSET (S \ {x}) : Equation(e, g, s) /\ Equation(h, g, s)
  BY <1>1, <1>3 DEF IsSum
<1>5. e[S \ {x}] = h[S \ {x}]
  BY <1>2, <1>4, Agree
<1>6. h[S] = h[S \ {x}] + g[x]
  BY <1>1, AnyLast
<1> QED
  BY <1>1, <1>3, <1>5, <1>6

\* A member more adds its number.
LEMMA SumAdd ==
    ASSUME NEW S, IsFiniteSet(S), NEW g, NEW x, x \notin S,
           \A y \in S : g[y] \in Int, g[x] \in Int
    PROVE  SumFunctionOnSet(g, S \cup {x}) = SumFunctionOnSet(g, S) + g[x]
<1>1. IsFiniteSet(S \cup {x}) /\ (S \cup {x}) \ {x} = S
  BY FS_AddElement
<1> DEFINE T == S \cup {x}
<1>2. SumFunctionOnSet(g, T) = SumFunctionOnSet(g, T \ {x}) + g[x]
  BY <1>1, SumRemove
<1> QED
  BY <1>1, <1>2

\* Induction on the size of a finite set, for a set of subsets rather than a
\* predicate: what holds of {} and of a set with one member more holds of S.
LEMMA Growth ==
    ASSUME NEW S, IsFiniteSet(S), NEW F, {} \in F,
           \A s \in SUBSET S : \A x \in S \ s : s \in F => s \cup {x} \in F
    PROVE  S \in F
<1> DEFINE T == {k \in Nat : \E s \in SUBSET S : Cardinality(s) = k /\ s \notin F}
<1>0. \A s \in SUBSET S : IsFiniteSet(s) /\ Cardinality(s) \in Nat
  BY FS_Subset, FS_CardinalityType
<1>1. SUFFICES ASSUME T # {} PROVE FALSE
  BY <1>0
<1>2. PICK k \in T : \A m \in T : k <= m
  BY <1>1, Least
<1>3. PICK s \in SUBSET S : Cardinality(s) = k /\ s \notin F
  OBVIOUS
<1>4. PICK x \in s : TRUE
  BY <1>3
<1> DEFINE r == s \ {x}
<1>5. r \in SUBSET S /\ x \in S \ r /\ s = r \cup {x}
  OBVIOUS
<1>6. Cardinality(r) = k - 1 /\ Cardinality(r) \in Nat
  BY <1>0, <1>3, <1>5, FS_RemoveElement
<1> HIDE DEF r
<1>7. k - 1 \notin T
  BY <1>2
<1>8. r \in F
  BY <1>5, <1>6, <1>7
<1> QED
  BY <1>3, <1>5, <1>8

\* The sum of sums.
LEMMA SumPlus ==
    ASSUME NEW S, IsFiniteSet(S), NEW e, NEW f, NEW g,
           \A x \in S : f[x] \in Int /\ g[x] \in Int /\ e[x] = f[x] + g[x]
    PROVE  SumFunctionOnSet(e, S) = SumFunctionOnSet(f, S) + SumFunctionOnSet(g, S)
<1> DEFINE F == {s \in SUBSET S : SumFunctionOnSet(e, s)
                                   = SumFunctionOnSet(f, s) + SumFunctionOnSet(g, s)}
<1>1. {} \in F
  BY SumEmpty
<1>2. ASSUME NEW s \in SUBSET S, NEW x \in S \ s, s \in F PROVE s \cup {x} \in F
  <2>1. IsFiniteSet(s) /\ s \cup {x} \in SUBSET S
    BY FS_Subset
  <2>2. /\ x \notin s
        /\ \A y \in s : e[y] \in Int /\ f[y] \in Int /\ g[y] \in Int
        /\ e[x] \in Int /\ f[x] \in Int /\ g[x] \in Int
    OBVIOUS
  <2>3. /\ SumFunctionOnSet(e, s \cup {x}) = SumFunctionOnSet(e, s) + e[x]
        /\ SumFunctionOnSet(f, s \cup {x}) = SumFunctionOnSet(f, s) + f[x]
        /\ SumFunctionOnSet(g, s \cup {x}) = SumFunctionOnSet(g, s) + g[x]
    BY <2>1, <2>2, SumAdd
  <2>4. SumFunctionOnSet(f, s) \in Int /\ SumFunctionOnSet(g, s) \in Int
    BY <2>1, <2>2, SumInt
  <2>5. e[x] = f[x] + g[x] /\ f[x] \in Int /\ g[x] \in Int
    OBVIOUS
  <2>6. SumFunctionOnSet(e, s) = SumFunctionOnSet(f, s) + SumFunctionOnSet(g, s)
    BY <1>2
  <2>7. SumFunctionOnSet(e, s \cup {x})
          = SumFunctionOnSet(f, s \cup {x}) + SumFunctionOnSet(g, s \cup {x})
    BY <2>3, <2>4, <2>5, <2>6
  <2> QED
    BY <2>1, <2>7
<1> HIDE DEF F
<1>3. S \in F
  BY <1>1, <1>2, Growth
<1> QED
  BY <1>3 DEF F

\* A set in two parts.
LEMMA SumSplit ==
    ASSUME NEW S, IsFiniteSet(S), NEW g, \A x \in S : g[x] \in Int, NEW T \in SUBSET S
    PROVE  SumFunctionOnSet(g, S) = SumFunctionOnSet(g, T) + SumFunctionOnSet(g, S \ T)
<1> DEFINE R == S \ T
           F == {r \in SUBSET R : SumFunctionOnSet(g, T \cup r)
                                   = SumFunctionOnSet(g, T) + SumFunctionOnSet(g, r)}
<1>0. IsFiniteSet(R) /\ IsFiniteSet(T)
  BY FS_Subset
<1>1. {} \in F
  <2>1. T \cup {} = T /\ SumFunctionOnSet(g, T) \in Int
    BY <1>0, SumInt
  <2> QED
    BY <2>1, SumEmpty
<1>2. ASSUME NEW r \in SUBSET R, NEW x \in R \ r, r \in F PROVE r \cup {x} \in F
  <2> DEFINE u == T \cup r
  <2>1. /\ u \in SUBSET S /\ IsFiniteSet(u) /\ x \notin u /\ IsFiniteSet(r)
        /\ u \cup {x} = T \cup (r \cup {x}) /\ x \notin r /\ x \in S
        /\ \A y \in u : g[y] \in Int
        /\ \A y \in r : g[y] \in Int
        /\ g[x] \in Int
    BY FS_Subset
  <2>2. SumFunctionOnSet(g, u) = SumFunctionOnSet(g, T) + SumFunctionOnSet(g, r)
    BY <1>2
  <2> HIDE DEF u
  <2>3. SumFunctionOnSet(g, u \cup {x}) = SumFunctionOnSet(g, u) + g[x]
    BY <2>1, SumAdd
  <2>4. SumFunctionOnSet(g, r \cup {x}) = SumFunctionOnSet(g, r) + g[x]
    BY <2>1, SumAdd
  <2>5. /\ SumFunctionOnSet(g, T) \in Int /\ SumFunctionOnSet(g, r) \in Int
        /\ g[x] \in Int
    BY <2>1, <1>0, SumInt
  <2>6. SumFunctionOnSet(g, u \cup {x})
          = SumFunctionOnSet(g, T) + SumFunctionOnSet(g, r \cup {x})
    BY <2>2, <2>3, <2>4, <2>5
  <2> QED
    BY <2>1, <2>6
<1> HIDE DEF F
<1>3. R \in F
  BY <1>0, <1>1, <1>2, Growth
<1>4. T \cup R = S
  OBVIOUS
<1> QED
  BY <1>3, <1>4 DEF F

\* What is added to one member is added to the sum.
LEMMA SumUpdate ==
    ASSUME NEW S, IsFiniteSet(S), NEW f, NEW g, NEW x \in S,
           \A y \in S : g[y] \in Int, f[x] \in Int, \A y \in S \ {x} : f[y] = g[y]
    PROVE  SumFunctionOnSet(f, S) = SumFunctionOnSet(g, S) + f[x] - g[x]
<1> DEFINE R == S \ {x}
<1>1. IsFiniteSet(R) /\ R \subseteq S /\ x \notin R
  BY FS_Subset
<1>2. \A y \in S : f[y] \in Int
  OBVIOUS
<1>3. SumFunctionOnSet(f, S) = SumFunctionOnSet(f, R) + f[x]
  BY <1>2, SumRemove
<1>4. SumFunctionOnSet(g, S) = SumFunctionOnSet(g, R) + g[x]
  BY SumRemove
<1> HIDE DEF R
<1>5. SumFunctionOnSet(f, R) = SumFunctionOnSet(g, R)
  <2>1. \A y \in R : g[y] \in Int /\ f[y] = g[y]
    BY <1>1 DEF R
  <2> QED
    BY <1>1, <2>1, SumSame
<1>6. SumFunctionOnSet(g, R) \in Int /\ g[x] \in Int /\ f[x] \in Int
  BY <1>1, SumInt
<1> QED
  BY <1>3, <1>4, <1>5, <1>6

\* The same, of all functions at once.
LEMMA SumUpdateAll ==
    \A S, p, q, x :
        IsFiniteSet(S) /\ x \in S /\ (\A y \in S : p[y] \in Int) /\ q[x] \in Int /\ (\A y \in S \ {x} : q[y] = p[y])
        => SumFunctionOnSet(q, S) = SumFunctionOnSet(p, S) + q[x] - p[x]
  BY SumUpdate

\* No sum of naturals is below one of them.
LEMMA SumNat ==
    ASSUME NEW S, IsFiniteSet(S), NEW g, \A x \in S : g[x] \in Nat
    PROVE  /\ SumFunctionOnSet(g, S) \in Nat
           /\ \A x \in S : g[x] <= SumFunctionOnSet(g, S)
<1> DEFINE F == {s \in SUBSET S : SumFunctionOnSet(g, s) \in Nat}
<1>1. {} \in F
  BY SumEmpty
<1>2. ASSUME NEW s \in SUBSET S, NEW x \in S \ s, s \in F PROVE s \cup {x} \in F
  <2>1. /\ IsFiniteSet(s) /\ s \cup {x} \in SUBSET S /\ x \notin s
        /\ \A y \in s : g[y] \in Int
        /\ g[x] \in Int
    BY FS_Subset
  <2>2. SumFunctionOnSet(g, s \cup {x}) = SumFunctionOnSet(g, s) + g[x]
    BY <2>1, SumAdd
  <2>3. SumFunctionOnSet(g, s) \in Nat /\ g[x] \in Nat
    BY <1>2
  <2>4. SumFunctionOnSet(g, s \cup {x}) \in Nat
    BY <2>2, <2>3
  <2> QED
    BY <2>1, <2>4
<1> HIDE DEF F
<1>3. ASSUME NEW s \in SUBSET S PROVE s \in F
  <2> DEFINE G == F
  <2>1. IsFiniteSet(s) /\ \A u \in SUBSET s : \A x \in s \ u : u \in F => u \cup {x} \in F
    BY <1>2, FS_Subset
  <2> QED
    BY <1>1, <2>1, Growth
<1>4. ASSUME NEW x \in S PROVE g[x] <= SumFunctionOnSet(g, S)
  <2>1. SumFunctionOnSet(g, S) = SumFunctionOnSet(g, S \ {x}) + g[x]
    BY SumRemove
  <2>2. SumFunctionOnSet(g, S \ {x}) \in Nat
    <3>1. S \ {x} \in F
      BY <1>3
    <3> QED
      BY <3>1 DEF F
  <2>3. g[x] \in Nat
    OBVIOUS
  <2> QED
    BY <2>1, <2>2, <2>3
<1>5. S \in F
  BY <1>3
<1> QED
  BY <1>4, <1>5 DEF F

\* Zeros sum to zero.
LEMMA SumZero ==
    ASSUME NEW S, IsFiniteSet(S), NEW g, \A x \in S : g[x] = 0
    PROVE  SumFunctionOnSet(g, S) = 0
<1>1. \A x \in S : g[x] \in Int /\ g[x] = g[x] + g[x]
  OBVIOUS
<1>2. SumFunctionOnSet(g, S) = SumFunctionOnSet(g, S) + SumFunctionOnSet(g, S)
  BY <1>1, SumPlus
<1>3. SumFunctionOnSet(g, S) \in Int
  BY <1>1, SumInt
<1>4. \A n \in Int : n = n + n => n = 0
  OBVIOUS
<1> QED
  BY <1>2, <1>3, <1>4, Zenon

\* What is zero outside a part does not count.
LEMMA SumWithin ==
    ASSUME NEW S, IsFiniteSet(S), NEW T \in SUBSET S, NEW f, NEW g,
           \A x \in T : g[x] \in Int, \A x \in S : f[x] = IF x \in T THEN g[x] ELSE 0
    PROVE  SumFunctionOnSet(f, S) = SumFunctionOnSet(g, T)
<1>1. IsFiniteSet(T) /\ IsFiniteSet(S \ T)
  BY FS_Subset
<1>2. \A x \in S : f[x] \in Int
  OBVIOUS
<1>3. SumFunctionOnSet(f, S) = SumFunctionOnSet(f, T) + SumFunctionOnSet(f, S \ T)
  BY <1>2, SumSplit
<1>4. SumFunctionOnSet(f, S \ T) = 0
  <2>1. \A x \in S \ T : f[x] = 0
    OBVIOUS
  <2> QED
    BY <1>1, <2>1, SumZero
<1>5. SumFunctionOnSet(f, T) = SumFunctionOnSet(g, T)
  <2>1. \A x \in T : f[x] = g[x]
    OBVIOUS
  <2> QED
    BY <1>1, <2>1, SumSame
<1>6. SumFunctionOnSet(g, T) \in Int
  BY <1>1, SumInt
<1> QED
  BY <1>3, <1>4, <1>5, <1>6

\* The same numbers under other names.
LEMMA SumRename ==
    ASSUME NEW S, IsFiniteSet(S), NEW f, NEW g, NEW b,
           \A x \in S : f[x] \in Int /\ f[x] = g[b[x]],
           \A x \in S : \A y \in S : b[x] = b[y] => x = y
    PROVE  /\ IsFiniteSet({b[x] : x \in S})
           /\ SumFunctionOnSet(f, S) = SumFunctionOnSet(g, {b[x] : x \in S})
<1> DEFINE I(s) == {b[x] : x \in s}
           F == {s \in SUBSET S : /\ IsFiniteSet(I(s))
                                   /\ SumFunctionOnSet(f, s) = SumFunctionOnSet(g, I(s))}
<1>1. {} \in F
  <2>1. I({}) = {}
    OBVIOUS
  <2> QED
    BY <2>1, SumEmpty, FS_EmptySet
<1>2. ASSUME NEW s \in SUBSET S, NEW x \in S \ s, s \in F PROVE s \cup {x} \in F
  <2>1. /\ IsFiniteSet(s) /\ s \cup {x} \in SUBSET S /\ x \notin s
        /\ \A y \in s : f[y] \in Int
        /\ f[x] \in Int
    BY FS_Subset
  <2>2. SumFunctionOnSet(f, s \cup {x}) = SumFunctionOnSet(f, s) + f[x]
    BY <2>1, SumAdd
  <2>3. I(s \cup {x}) = I(s) \cup {b[x]} /\ b[x] \notin I(s)
    OBVIOUS
  <2>4. /\ \A z \in I(s) : g[z] \in Int
        /\ g[b[x]] \in Int
    OBVIOUS
  <2>5. IsFiniteSet(I(s)) /\ SumFunctionOnSet(f, s) = SumFunctionOnSet(g, I(s))
    BY <1>2
  <2>6. f[x] = g[b[x]]
    OBVIOUS
  <2> HIDE DEF I
  <2>7. SumFunctionOnSet(g, I(s) \cup {b[x]}) = SumFunctionOnSet(g, I(s)) + g[b[x]]
    BY <2>3, <2>4, <2>5, SumAdd
  <2>8. IsFiniteSet(I(s) \cup {b[x]})
    BY <2>5, FS_AddElement
  <2> QED
    BY <2>1, <2>2, <2>3, <2>5, <2>6, <2>7, <2>8
<1> HIDE DEF F
<1>3. S \in F
  BY <1>1, <1>2, Growth
<1> QED
  BY <1>3 DEF F

-----------------------------------------------------------------------------
\* The smaller of two numbers.
Lesser(a, b) == IF a <= b THEN a ELSE b

\* Min by cases.
LEMMA MinOfTwo ==
    ASSUME NEW a \in Int, NEW b \in Int
    PROVE  Min({a, b}) = Lesser(a, b)
  BY DEF Min, Lesser

\* Max by cases.
LEMMA MaxOfTwo ==
    ASSUME NEW a \in Int, NEW b \in Int
    PROVE  Max({a, b}) = IF a <= b THEN b ELSE a
  BY DEF Max

\* applyOffsets as arithmetic: o is what is outstanding, t what is taken, oldest
\* first, of what is available.  It takes no more than is outstanding or available,
\* and all that is outstanding unless it takes all that is available.
TakenOldestFirst(N, D, a, o, t, B) ==
  /\ N \in Nat /\ D \in SUBSET (1 .. N) /\ a \in Nat
  /\ \A n \in D : o[n] \in Nat
  /\ \A n \in D : B[n] \in SUBSET D /\ \A m \in D : m \in B[n] <=> m < n
  /\ \A n \in D : t[n] = Min({o[n], Max({a - SumFunctionOnSet(o, B[n]), 0})})

\* A settlement that nets offsets oldest first takes no more than is available, no
\* more than each offset has open, and everything that is open when something is left.
LEMMA Greedy ==
    ASSUME NEW N, NEW D, NEW a, NEW o, NEW t, NEW B, TakenOldestFirst(N, D, a, o, t, B)
    PROVE  /\ \A n \in D : t[n] \in Nat /\ t[n] <= o[n]
           /\ SumFunctionOnSet(t, D) \in Nat /\ SumFunctionOnSet(t, D) <= a
           /\ SumFunctionOnSet(t, D) < a => \A n \in D : t[n] = o[n]
<1> DEFINE P(k) == {m \in D : m < k}
           S(k) == SumFunctionOnSet(o, P(k))
<1> USE DEF TakenOldestFirst
<1>0. D \subseteq Int /\ IsFiniteSet(1 .. N)
  <2>1. 1 \in Int /\ N \in Int
    OBVIOUS
  <2> QED
    BY <2>1, FS_Interval
<1>2. IsFiniteSet(D)
  BY <1>0, FS_Subset
<1>1. \A k : IsFiniteSet(P(k)) /\ P(k) \in SUBSET D
  <2>1. \A k : P(k) \in SUBSET D
    OBVIOUS
  <2> QED
    BY <2>1, <1>2, FS_Subset
<1>3. \A k : S(k) \in Nat
  <2>1. ASSUME NEW k PROVE S(k) \in Nat
    <3>1. IsFiniteSet(P(k)) /\ \A n \in P(k) : o[n] \in Nat
      BY <1>1
    <3> QED
      BY <3>1, SumNat
  <2> QED
    BY <2>1
<1>4. ASSUME NEW n \in D
      PROVE  t[n] = Lesser(o[n], IF a <= S(n) THEN 0 ELSE a - S(n))
  <2>1. S(n) \in Nat /\ o[n] \in Nat /\ a - S(n) \in Int
    BY <1>3
  <2> DEFINE r == a - S(n)
  <2>0. B[n] = P(n)
    OBVIOUS
  <2>2. t[n] = Min({o[n], Max({r, 0})})
    BY <2>0
  <2>3. r \in Int /\ (r <= 0 <=> a <= S(n))
    BY <2>1
  <2> HIDE DEF r
  <2>4. Max({r, 0}) = IF r <= 0 THEN 0 ELSE r
    BY <2>3, MaxOfTwo
  <2>5. Max({r, 0}) \in Int
    BY <2>3, <2>4
  <2> DEFINE v == Max({r, 0})
  <2>6. t[n] = Lesser(o[n], v)
    <3>1. t[n] = Min({o[n], v}) /\ v \in Int /\ o[n] \in Int
      BY <2>1, <2>2, <2>5
    <3> HIDE DEF v, TakenOldestFirst
    <3> QED
      BY <3>1, MinOfTwo
  <2> QED
    BY <2>3, <2>4, <2>6 DEF r
<1>5. ASSUME NEW n \in D PROVE t[n] \in Nat /\ t[n] <= o[n]
  <2>1. S(n) \in Nat /\ o[n] \in Nat
    BY <1>3
  <2> QED
    BY <1>4, <2>1 DEF Lesser
<1> DEFINE F == {k \in Nat : k \in 1 .. N + 1
                             /\ SumFunctionOnSet(t, P(k)) # Lesser(S(k), a)}
<1>6. F = {}
  <2>1. SUFFICES ASSUME F # {} PROVE FALSE
    OBVIOUS
  <2>2. PICK k \in F : \A m \in F : k <= m
    BY <2>1, Least
  <2>3. CASE k = 1
    <3>1. \A m \in D : ~ m < 1
      OBVIOUS
    <3>2. P(k) = {}
      BY <2>3, <3>1
    <3>3. S(k) = 0 /\ SumFunctionOnSet(t, P(k)) = 0
      BY <3>2, SumEmpty
    <3> HIDE DEF P
    <3> QED
      BY <3>3 DEF Lesser
  <2>4. CASE k # 1
    <3> DEFINE j == k - 1
    <3>1. j \in 1 .. N /\ j \in Nat /\ j < k
      BY <2>4
    <3>2. SumFunctionOnSet(t, P(j)) = Lesser(S(j), a)
      BY <2>2, <3>1
    <3>3. CASE j \notin D
      <4>1. \A m \in D : m < k <=> m < j
        BY <3>1, <3>3, <1>0
      <4>2. P(k) = P(j)
        BY <4>1
      <4> QED
        BY <4>2, <3>2
    <3>4. CASE j \in D
      <4>0. \A m \in D : (m < k <=> m < j \/ m = j) /\ ~ j < j
        BY <3>1, <3>4, <1>0
      <4>1. P(k) = P(j) \cup {j} /\ j \notin P(j) /\ IsFiniteSet(P(j))
        BY <4>0, <3>4, <1>1
      <4>2. /\ \A n \in P(j) : o[n] \in Int
            /\ \A n \in P(j) : t[n] \in Int
            /\ o[j] \in Int /\ t[j] \in Int /\ o[j] \in Nat /\ t[j] \in Nat
        BY <1>5, <3>4
      <4> HIDE DEF j, P
      <4>7. SumFunctionOnSet(o, P(k)) = SumFunctionOnSet(o, P(j)) + o[j]
        <5> DEFINE c == P(j)
        <5>1. IsFiniteSet(c) /\ j \notin c /\ (\A n \in c : o[n] \in Int) /\ P(k) = c \cup {j}
          BY <4>1, <4>2
        <5> HIDE DEF c
        <5>2. SumFunctionOnSet(o, c \cup {j}) = SumFunctionOnSet(o, c) + o[j]
          BY <4>2, <5>1, SumAdd
        <5> QED
          BY <5>1, <5>2 DEF c
      <4>3. S(k) = S(j) + o[j]
        BY <4>7
      <4>4. SumFunctionOnSet(t, P(k)) = SumFunctionOnSet(t, P(j)) + t[j]
        BY <4>1, <4>2, SumAdd
      <4>5. t[j] = Lesser(o[j], IF a <= S(j) THEN 0 ELSE a - S(j))
        BY <3>4, <1>4
      <4>6. S(j) \in Nat /\ SumFunctionOnSet(t, P(k)) # Lesser(S(k), a)
        BY <1>3
      <4> HIDE DEF S
      <4> QED
        BY <4>2, <4>3, <4>4, <4>5, <4>6, <3>2 DEF Lesser
    <3> QED
      BY <3>3, <3>4
  <2> QED
    BY <2>3, <2>4
<1>7. SumFunctionOnSet(t, D) = Lesser(S(N + 1), a) /\ P(N + 1) = D
  <2>0. \A m \in D : m < N + 1
    OBVIOUS
  <2>1. P(N + 1) = D
    BY <2>0
  <2>2. N + 1 \in Nat /\ N + 1 \in 1 .. N + 1
    OBVIOUS
  <2>3. SumFunctionOnSet(t, P(N + 1)) = Lesser(S(N + 1), a)
    BY <1>6, <2>2
  <2> QED
    BY <2>1, <2>3
<1>8. SumFunctionOnSet(t, D) \in Nat /\ SumFunctionOnSet(t, D) <= a
  <2>1. S(N + 1) \in Nat
    BY <1>3
  <2> QED
    BY <2>1, <1>7 DEF Lesser
<1>9. ASSUME SumFunctionOnSet(t, D) < a, NEW n \in D PROVE t[n] = o[n]
  <2> DEFINE Q == P(n) \cup {n}
  <2>0. ~ n < n
    BY <1>0
  <2>1. Q \in SUBSET D /\ n \notin P(n) /\ IsFiniteSet(P(n)) /\ IsFiniteSet(D \ Q)
    BY <2>0, <1>1, <1>2, FS_Subset
  <2>2. SumFunctionOnSet(o, Q) = S(n) + o[n]
    <3>1. (\A m \in P(n) : o[m] \in Int) /\ o[n] \in Int
      OBVIOUS
    <3> QED
      BY <2>1, <3>1, SumAdd, ZenonT(30)
  <2>3. SumFunctionOnSet(o, D) = SumFunctionOnSet(o, Q) + SumFunctionOnSet(o, D \ Q)
    <3>1. \A m \in D : o[m] \in Int
      OBVIOUS
    <3> HIDE DEF Q
    <3> QED
      BY <2>1, <3>1, <1>2, SumSplit
  <2>4. SumFunctionOnSet(o, D \ Q) \in Nat
    BY <2>1, SumNat
  <2>5. SumFunctionOnSet(o, D) = S(N + 1)
    BY <1>7
  <2>6. S(n) \in Nat /\ S(N + 1) \in Nat /\ o[n] \in Nat
    BY <1>3
  <2> HIDE DEF S, Q
  <2>7. S(n) + o[n] < a
    BY <2>2, <2>3, <2>4, <2>5, <2>6, <1>7, <1>9 DEF Lesser
  <2> QED
    BY <2>6, <2>7, <1>4 DEF Lesser
<1> QED
  BY <1>5, <1>8, <1>9
=============================================================================
