------------------------------- MODULE Totals -------------------------------
(***************************************************************************)
(* Facts about what things add up to, for every function, every finite set *)
(* of indices and every sequence: the finite sums of the community module  *)
(* Functions, the folds that add, the sequences they run over, and the     *)
(* rows executeCore stores for a proposal.                                 *)
(*                                                                         *)
(* The community modules define sums and folds by recursion on sets of     *)
(* indices.  The induction theorems of the library take an operator as a   *)
(* parameter; here induction is over sets: a set of subsets that contains  *)
(* every subset whose proper subsets it contains, contains them all,       *)
(* because proper inclusion of finite sets is well-founded.                *)
(***************************************************************************)
EXTENDS ProposalLogic, FiniteSetTheorems, TLAPS

-----------------------------------------------------------------------------
(* Induction over finite sets *)

\* A family C that contains every T whose proper subsets are in C contains
\* every subset of a finite set.
LEMMA SubsetInduction ==
  ASSUME NEW S, IsFiniteSet(S), NEW C,
         \A T \in SUBSET S : ((SUBSET T) \ {T} \subseteq C) => T \in C
  PROVE  \A T \in SUBSET S : T \in C
<1> DEFINE bad == (SUBSET S) \ C
<1>1. SUFFICES ASSUME bad # {} PROVE FALSE
  OBVIOUS
<1>2. IsWellFoundedOn(StrictSubsetOrdering(S), SUBSET S)
  BY FS_StrictSubsetOrderingWellFounded, FS_FiniteSubsetsOfFinite
<1>3. PICK T \in bad : \A U \in bad : <<U, T>> \notin StrictSubsetOrdering(S)
  <2>1. bad \subseteq SUBSET S
    OBVIOUS
  <2> HIDE DEF bad
  <2> QED
    BY <1>1, <1>2, <2>1, WFMin
<1>4. ASSUME NEW U \in (SUBSET T) \ {T} PROVE U \in C
  <2>1. U \in SUBSET S /\ <<U, T>> \in StrictSubsetOrdering(S)
    BY <1>3 DEF StrictSubsetOrdering
  <2> QED
    BY <1>3, <2>1
<1> QED
  BY <1>3, <1>4

\* In steps of one element: a family that contains {} and, with T, every T
\* with one more element of S contains S.
LEMMA StepInduction ==
  ASSUME NEW S, IsFiniteSet(S), NEW C, {} \in C,
         \A T \in SUBSET S : \A x \in S \ T : T \in C => T \cup {x} \in C
  PROVE  S \in C
<1>1. ASSUME NEW T \in SUBSET S, (SUBSET T) \ {T} \subseteq C PROVE T \in C
  <2>1. CASE T = {}
    BY <2>1
  <2>2. CASE T # {}
    <3>1. PICK x \in T : TRUE
      BY <2>2
    <3>2. T \ {x} \in C /\ T \ {x} \in SUBSET S /\ x \in S \ (T \ {x})
      BY <1>1, <3>1
    <3>3. (T \ {x}) \cup {x} = T
      BY <3>1
    <3>4. (T \ {x}) \cup {x} \in C
      BY <3>2
    <3> QED
      BY <3>3, <3>4
  <2> QED
    BY <2>1, <2>2
<1> QED
  BY <1>1, SubsetInduction

-----------------------------------------------------------------------------
(* The recursion *)

\* The index the sum takes first, and the equation its partial sums satisfy.
First(s) == CHOOSE x \in s : TRUE
PartialSums(g, f, S) ==
  g = [s \in SUBSET S |-> IF s = {} THEN 0 ELSE f[First(s)] + g[s \ {First(s)}]]

LEMMA FirstIn == \A s : s # {} => First(s) \in s
BY DEF First

\* The recursive definition, read as a choice among its solutions.
LEMMA SumIsChosen ==
  ASSUME NEW f, NEW S
  PROVE  SumFunctionOnSet(f, S) = (CHOOSE g : PartialSums(g, f, S))[S]
BY DEF SumFunctionOnSet, FoldFunctionOnSet, MapThenFoldSet, First, PartialSums

LEMMA PartialSumsAt ==
  ASSUME NEW f, NEW g, NEW S, PartialSums(g, f, S), NEW s \in SUBSET S
  PROVE  /\ s = {} => g[s] = 0
         /\ s # {} => g[s] = f[First(s)] + g[s \ {First(s)}]
BY DEF PartialSums

\* Two solutions agree where both are defined.
LEMMA PartialSumsUnique ==
  ASSUME NEW f, NEW A, NEW B, IsFiniteSet(A), NEW g, NEW h,
         PartialSums(g, f, A), PartialSums(h, f, B), B \subseteq A
  PROVE  \A s \in SUBSET B : g[s] = h[s]
<1> DEFINE C == {s \in SUBSET B : g[s] = h[s]}
<1>1. ASSUME NEW T \in SUBSET B, (SUBSET T) \ {T} \subseteq C PROVE T \in C
  <2>1. T \in SUBSET A
    OBVIOUS
  <2>2. CASE T = {}
    BY <2>1, <2>2, PartialSumsAt
  <2>3. CASE T # {}
    <3>1. First(T) \in T
      BY <2>3, FirstIn
    <3>2. T \ {First(T)} \in C
      BY <1>1, <3>1
    <3>3. g[T \ {First(T)}] = h[T \ {First(T)}]
      BY <3>2
    <3>4. g[T] = f[First(T)] + g[T \ {First(T)}]
      BY <2>1, <2>3, PartialSumsAt
    <3>5. h[T] = f[First(T)] + h[T \ {First(T)}]
      BY <2>3, PartialSumsAt
    <3> QED
      BY <3>3, <3>4, <3>5
  <2> QED
    BY <2>2, <2>3
<1>2. IsFiniteSet(B)
  BY FS_Subset
<1> HIDE DEF C
<1>3. \A T \in SUBSET B : T \in C
  BY <1>1, <1>2, SubsetInduction
<1> QED
  BY <1>3 DEF C

\* Over a finite set of indices there is a solution.
LEMMA PartialSumsExist ==
  ASSUME NEW f, NEW S, IsFiniteSet(S)
  PROVE  \E g : PartialSums(g, f, S)
<1> DEFINE C == {T \in SUBSET S : \E g : PartialSums(g, f, T)}
           sol(T) == CHOOSE g : PartialSums(g, f, T)
<1>1. ASSUME NEW T \in SUBSET S, (SUBSET T) \ {T} \subseteq C PROVE T \in C
  <2> DEFINE rest(s) == s \ {First(s)}
             h == [s \in SUBSET T |->
                     IF s = {} THEN 0 ELSE f[First(s)] + sol(rest(s))[rest(s)]]
  <2>1. \A U \in (SUBSET T) \ {T} : PartialSums(sol(U), f, U)
    BY <1>1
  <2>2. ASSUME NEW U \in (SUBSET T) \ {T} PROVE h[U] = sol(U)[U]
    <3>1. PartialSums(sol(U), f, U)
      BY <2>1
    <3> HIDE DEF sol
    <3>2. CASE U = {}
      BY <3>1, <3>2, PartialSumsAt
    <3>3. CASE U # {}
      <4>1. First(U) \in U
        BY <3>3, FirstIn
      <4>2. rest(U) \in (SUBSET T) \ {T} /\ rest(U) \subseteq U
        BY <4>1
      <4>3. sol(rest(U))[rest(U)] = sol(U)[rest(U)]
        <5>1. PartialSums(sol(rest(U)), f, rest(U))
          BY <2>1, <4>2
        <5>2. IsFiniteSet(U)
          BY FS_Subset
        <5> HIDE DEF rest
        <5> QED
          BY <3>1, <4>2, <5>1, <5>2, PartialSumsUnique
      <4>4. sol(U)[U] = f[First(U)] + sol(U)[rest(U)]
        BY <3>1, <3>3, PartialSumsAt
      <4> QED
        BY <3>3, <4>3, <4>4
    <3> QED
      BY <3>2, <3>3
  <2>3. ASSUME NEW s \in SUBSET T, s # {} PROVE h[s] = f[First(s)] + h[rest(s)]
    <3>1. First(s) \in s
      BY <2>3, FirstIn
    <3>2. rest(s) \in (SUBSET T) \ {T}
      BY <3>1
    <3>3. h[rest(s)] = sol(rest(s))[rest(s)]
      BY <2>2, <3>2
    <3>4. h[s] = f[First(s)] + sol(rest(s))[rest(s)]
      BY <2>3
    <3> QED
      BY <3>3, <3>4
  <2>4. {} \in SUBSET T /\ h[{}] = 0
    OBVIOUS
  <2>5. h = [s \in SUBSET T |-> h[s]]
    OBVIOUS
  <2>6. PartialSums(h, f, T)
    <3> HIDE DEF h
    <3>1. \A s \in SUBSET T : h[s] = IF s = {} THEN 0 ELSE f[First(s)] + h[s \ {First(s)}]
      <4> SUFFICES ASSUME NEW s \in SUBSET T
                   PROVE  h[s] = IF s = {} THEN 0 ELSE f[First(s)] + h[s \ {First(s)}]
        OBVIOUS
      <4>1. CASE s = {}
        BY <2>4, <4>1
      <4>2. CASE s # {}
        BY <2>3, <4>2
      <4> QED
        BY <4>1, <4>2
    <3>2. h = [s \in SUBSET T |-> IF s = {} THEN 0 ELSE f[First(s)] + h[s \ {First(s)}]]
      BY <2>5, <3>1, Zenon
    <3> QED
      BY <3>2 DEF PartialSums
  <2> QED
    BY <2>6
<1> HIDE DEF C
<1>2. \A T \in SUBSET S : T \in C
  BY <1>1, SubsetInduction
<1> QED
  BY <1>2 DEF C

\* What the sum is: 0 over no index, and over others the value at the first
\* and the sum over the rest.
LEMMA SumEquation ==
  ASSUME NEW f, NEW S, IsFiniteSet(S)
  PROVE  /\ S = {} => SumFunctionOnSet(f, S) = 0
         /\ S # {} => SumFunctionOnSet(f, S) =
                        f[First(S)] + SumFunctionOnSet(f, S \ {First(S)})
<1> DEFINE sol(T) == CHOOSE g : PartialSums(g, f, T)
           rest == S \ {First(S)}
<1>1. rest \subseteq S /\ IsFiniteSet(rest)
  BY FS_Subset
<1>2. PartialSums(sol(S), f, S) /\ PartialSums(sol(rest), f, rest)
  BY <1>1, PartialSumsExist
<1>3. SumFunctionOnSet(f, S) = sol(S)[S] /\ SumFunctionOnSet(f, rest) = sol(rest)[rest]
  BY SumIsChosen
<1> HIDE DEF sol, rest
<1>4. sol(S)[rest] = sol(rest)[rest]
  BY <1>1, <1>2, PartialSumsUnique
<1>5. /\ S = {} => sol(S)[S] = 0
      /\ S # {} => sol(S)[S] = f[First(S)] + sol(S)[rest]
  <2>1. PartialSums(sol(S), f, S) /\ S \in SUBSET S
    BY <1>2
  <2>2. /\ S = {} => sol(S)[S] = 0
        /\ S # {} => sol(S)[S] = f[First(S)] + sol(S)[S \ {First(S)}]
    BY <2>1, PartialSumsAt
  <2> QED
    BY <2>2 DEF rest
<1> QED
  BY <1>3, <1>4, <1>5 DEF rest

-----------------------------------------------------------------------------
(* Sums of integers *)

\* A sum of integers is an integer.
LEMMA SumType ==
  ASSUME NEW f, NEW S, IsFiniteSet(S), \A x \in S : f[x] \in Int
  PROVE  SumFunctionOnSet(f, S) \in Int
<1> DEFINE C == {T \in SUBSET S : SumFunctionOnSet(f, T) \in Int}
<1>1. ASSUME NEW T \in SUBSET S, (SUBSET T) \ {T} \subseteq C PROVE T \in C
  <2>1. IsFiniteSet(T)
    BY FS_Subset
  <2>2. CASE T = {}
    <3>1. SumFunctionOnSet(f, T) = 0
      BY <2>1, <2>2, SumEquation
    <3> QED
      BY <3>1
  <2>3. CASE T # {}
    <3>1. First(T) \in T
      BY <2>3, FirstIn
    <3>2. T \ {First(T)} \in C
      BY <1>1, <3>1
    <3> QED
      BY <2>1, <2>3, <3>1, <3>2, SumEquation
  <2> QED
    BY <2>2, <2>3
<1> HIDE DEF C
<1>2. \A T \in SUBSET S : T \in C
  BY <1>1, SubsetInduction
<1> QED
  BY <1>2 DEF C

\* Any index may be taken first.
LEMMA SumSplit ==
  ASSUME NEW f, NEW S, IsFiniteSet(S), \A x \in S : f[x] \in Int, NEW x \in S
  PROVE  SumFunctionOnSet(f, S) = f[x] + SumFunctionOnSet(f, S \ {x})
<1> DEFINE sum(T) == SumFunctionOnSet(f, T)
           C == {T \in SUBSET S : \A y \in T : sum(T) = f[y] + sum(T \ {y})}
<1>1. \A T \in SUBSET S : IsFiniteSet(T) /\ sum(T) \in Int
  BY FS_Subset, SumType
<1>2. ASSUME NEW T \in SUBSET S, (SUBSET T) \ {T} \subseteq C PROVE T \in C
  <2> SUFFICES ASSUME NEW y \in T PROVE sum(T) = f[y] + sum(T \ {y})
    OBVIOUS
  <2> DEFINE c == First(T)
  <2>1. c \in T /\ sum(T) = f[c] + sum(T \ {c})
    BY <1>1, FirstIn, SumEquation
  <2> HIDE DEF c
  <2>2. CASE c = y
    BY <2>1, <2>2
  <2>3. CASE c # y
    <3>1. T \ {c} \in C /\ T \ {y} \in C
      BY <1>2, <2>1
    <3> DEFINE R == (T \ {c}) \ {y}
    <3>2. sum(T \ {c}) = f[y] + sum(R)
      BY <2>1, <2>3, <3>1
    <3>3. R = (T \ {y}) \ {c}
      OBVIOUS
    <3>4. sum(T \ {y}) = f[c] + sum(R)
      <4>1. c \in T \ {y}
        BY <2>1, <2>3
      <4>2. sum(T \ {y}) = f[c] + sum((T \ {y}) \ {c})
        BY <3>1, <4>1
      <4> QED
        BY <3>3, <4>2
    <3>5. f[y] \in Int /\ f[c] \in Int /\ sum(R) \in Int
      <4>1. R \in SUBSET S
        OBVIOUS
      <4> QED
        BY <1>1, <2>1, <4>1
    <3> HIDE DEF sum, R
    <3> QED
      BY <2>1, <3>2, <3>4, <3>5
  <2> QED
    BY <2>2, <2>3
<1> HIDE DEF C
<1>3. \A T \in SUBSET S : T \in C
  BY <1>2, SubsetInduction
<1> QED
  BY <1>3 DEF C

\* The sum depends on the values at the indices only.
LEMMA SumSame ==
  ASSUME NEW f, NEW g, NEW S, IsFiniteSet(S), \A x \in S : f[x] = g[x]
  PROVE  SumFunctionOnSet(f, S) = SumFunctionOnSet(g, S)
<1> DEFINE C == {T \in SUBSET S : SumFunctionOnSet(f, T) = SumFunctionOnSet(g, T)}
<1>1. ASSUME NEW T \in SUBSET S, (SUBSET T) \ {T} \subseteq C PROVE T \in C
  <2>1. IsFiniteSet(T)
    BY FS_Subset
  <2>2. CASE T = {}
    BY <2>1, <2>2, SumEquation
  <2>3. CASE T # {}
    <3>1. First(T) \in T
      BY <2>3, FirstIn
    <3>2. T \ {First(T)} \in C
      BY <1>1, <3>1
    <3>3. f[First(T)] = g[First(T)]
      BY <3>1
    <3> QED
      BY <2>1, <2>3, <3>2, <3>3, SumEquation
  <2> QED
    BY <2>2, <2>3
<1> HIDE DEF C
<1>2. \A T \in SUBSET S : T \in C
  BY <1>1, SubsetInduction
<1> QED
  BY <1>2 DEF C

\* Changing the value at one index changes the sum by the difference.
LEMMA SumChange ==
  ASSUME NEW S, IsFiniteSet(S), NEW f \in [S -> Int], NEW g \in [S -> Int],
         NEW x \in S, \A y \in S \ {x} : g[y] = f[y]
  PROVE  SumFunction(g) = SumFunction(f) - f[x] + g[x]
<1> DEFINE rest == S \ {x}
<1>1. IsFiniteSet(rest) /\ rest \subseteq S
  BY FS_Subset
<1>2. SumFunctionOnSet(f, rest) = SumFunctionOnSet(g, rest)
  <2>1. \A y \in rest : f[y] = g[y]
    OBVIOUS
  <2> QED
    BY <1>1, <2>1, SumSame
<1>3. SumFunctionOnSet(f, S) = f[x] + SumFunctionOnSet(f, rest)
  BY SumSplit
<1>4. SumFunctionOnSet(g, S) = g[x] + SumFunctionOnSet(g, rest)
  BY SumSplit
<1>5. SumFunctionOnSet(f, rest) \in Int
  BY <1>1, SumType
<1>6. DOMAIN f = S /\ DOMAIN g = S
  OBVIOUS
<1>7. f[x] \in Int /\ g[x] \in Int
  OBVIOUS
<1> HIDE DEF rest
<1> QED
  BY <1>2, <1>3, <1>4, <1>5, <1>6, <1>7 DEF SumFunction

\* A sum of integers, none of them greater, is not greater.
LEMMA SumMonotone ==
  ASSUME NEW f, NEW g, NEW S, IsFiniteSet(S),
         \A x \in S : f[x] \in Int /\ g[x] \in Int /\ f[x] <= g[x]
  PROVE  SumFunctionOnSet(f, S) <= SumFunctionOnSet(g, S)
<1> DEFINE C == {T \in SUBSET S : SumFunctionOnSet(f, T) <= SumFunctionOnSet(g, T)}
<1>1. ASSUME NEW T \in SUBSET S, (SUBSET T) \ {T} \subseteq C PROVE T \in C
  <2>1. IsFiniteSet(T)
    BY FS_Subset
  <2>2. CASE T = {}
    <3>1. SumFunctionOnSet(f, T) = 0 /\ SumFunctionOnSet(g, T) = 0
      BY <2>1, <2>2, SumEquation
    <3> QED
      BY <3>1
  <2>3. CASE T # {}
    <3> DEFINE c == First(T)
               rest == T \ {c}
    <3>1. c \in T
      BY <2>3, FirstIn
    <3>2. rest \in C
      BY <1>1, <3>1
    <3>3. /\ SumFunctionOnSet(f, T) = f[c] + SumFunctionOnSet(f, rest)
          /\ SumFunctionOnSet(g, T) = g[c] + SumFunctionOnSet(g, rest)
      BY <2>1, <2>3, SumEquation
    <3>4. f[c] \in Int /\ g[c] \in Int /\ f[c] <= g[c]
      BY <3>1
    <3>5. rest \subseteq S /\ IsFiniteSet(rest)
      BY <2>1, FS_Subset
    <3>6. SumFunctionOnSet(f, rest) \in Int /\ SumFunctionOnSet(g, rest) \in Int
      BY <3>5, SumType
    <3>7. SumFunctionOnSet(f, rest) <= SumFunctionOnSet(g, rest)
      BY <3>2
    <3> HIDE DEF c, rest
    <3>8. SumFunctionOnSet(f, T) <= SumFunctionOnSet(g, T)
      BY <3>3, <3>4, <3>6, <3>7
    <3> QED
      BY <3>8
  <2> QED
    BY <2>2, <2>3
<1> HIDE DEF C
<1>2. \A T \in SUBSET S : T \in C
  BY <1>1, SubsetInduction
<1> QED
  BY <1>2 DEF C

\* A sum of zeros is zero.
LEMMA SumZero ==
  ASSUME NEW f, NEW S, IsFiniteSet(S), \A x \in S : f[x] = 0
  PROVE  SumFunctionOnSet(f, S) = 0
<1> DEFINE C == {T \in SUBSET S : SumFunctionOnSet(f, T) = 0}
<1>1. ASSUME NEW T \in SUBSET S, (SUBSET T) \ {T} \subseteq C PROVE T \in C
  <2>1. IsFiniteSet(T)
    BY FS_Subset
  <2>2. CASE T = {}
    BY <2>1, <2>2, SumEquation
  <2>3. CASE T # {}
    <3>1. First(T) \in T
      BY <2>3, FirstIn
    <3>2. T \ {First(T)} \in C
      BY <1>1, <3>1
    <3> QED
      BY <2>1, <2>3, <3>1, <3>2, SumEquation
  <2> QED
    BY <2>2, <2>3
<1> HIDE DEF C
<1>2. \A T \in SUBSET S : T \in C
  BY <1>1, SubsetInduction
<1> QED
  BY <1>2 DEF C

\* A sum of natural numbers is one.
LEMMA SumNat ==
  ASSUME NEW f, NEW S, IsFiniteSet(S), \A x \in S : f[x] \in Nat
  PROVE  SumFunctionOnSet(f, S) \in Nat
<1> DEFINE z == [x \in S |-> 0]
<1>1. \A x \in S : z[x] = 0
  OBVIOUS
<1> HIDE DEF z
<1>2. SumFunctionOnSet(z, S) = 0
  BY <1>1, SumZero
<1>3. \A x \in S : z[x] \in Int /\ f[x] \in Int /\ z[x] <= f[x]
  BY <1>1
<1>4. SumFunctionOnSet(z, S) <= SumFunctionOnSet(f, S)
  BY <1>3, SumMonotone
<1>5. SumFunctionOnSet(f, S) \in Int
  BY <1>3, SumType
<1> QED
  BY <1>2, <1>4, <1>5

\* Sums are linear.
LEMMA SumLinear ==
  ASSUME NEW S, IsFiniteSet(S), NEW a \in Int, NEW b \in Int, NEW f, NEW g, NEW h,
         \A x \in S : f[x] \in Int /\ g[x] \in Int /\ h[x] = a * f[x] + b * g[x]
  PROVE  SumFunctionOnSet(h, S) = a * SumFunctionOnSet(f, S) + b * SumFunctionOnSet(g, S)
<1> DEFINE C == {T \in SUBSET S : SumFunctionOnSet(h, T) =
                   a * SumFunctionOnSet(f, T) + b * SumFunctionOnSet(g, T)}
<1>1. ASSUME NEW T \in SUBSET S, (SUBSET T) \ {T} \subseteq C PROVE T \in C
  <2>1. IsFiniteSet(T)
    BY FS_Subset
  <2>2. CASE T = {}
    <3>1. /\ SumFunctionOnSet(f, T) = 0 /\ SumFunctionOnSet(g, T) = 0
          /\ SumFunctionOnSet(h, T) = 0
      BY <2>1, <2>2, SumEquation
    <3> QED
      BY <3>1
  <2>3. CASE T # {}
    <3> DEFINE c == First(T)
               rest == T \ {c}
               sf == SumFunctionOnSet(f, rest)
               sg == SumFunctionOnSet(g, rest)
               sh == SumFunctionOnSet(h, rest)
    <3>1. c \in T
      BY <2>3, FirstIn
    <3>2. rest \in C
      BY <1>1, <3>1
    <3>3. sh = a * sf + b * sg
      BY <3>2
    <3>4. /\ SumFunctionOnSet(f, T) = f[c] + sf
          /\ SumFunctionOnSet(g, T) = g[c] + sg
          /\ SumFunctionOnSet(h, T) = h[c] + sh
      BY <2>1, <2>3, SumEquation
    <3>5. f[c] \in Int /\ g[c] \in Int /\ h[c] = a * f[c] + b * g[c]
      BY <3>1
    <3>6. sf \in Int /\ sg \in Int
      <4>1. rest \subseteq S /\ IsFiniteSet(rest)
        BY <2>1, FS_Subset
      <4> QED
        BY <4>1, SumType
    <3> DEFINE fc == f[c]
               gc == g[c]
    <3> HIDE DEF c, rest, sf, sg, sh
    <3>7. \A u \in Int, v \in Int : a * (u + v) = a * u + a * v /\ b * (u + v) = b * u + b * v
      OBVIOUS
    <3>8. a * (fc + sf) = a * fc + a * sf /\ b * (gc + sg) = b * gc + b * sg
      BY <3>5, <3>6, <3>7
    <3>9. a * fc \in Int /\ a * sf \in Int /\ b * gc \in Int /\ b * sg \in Int
      BY <3>5, <3>6
    <3>10. h[c] + sh = a * (fc + sf) + b * (gc + sg)
      BY <3>3, <3>5, <3>8, <3>9
    <3>11. SumFunctionOnSet(h, T) =
             a * SumFunctionOnSet(f, T) + b * SumFunctionOnSet(g, T)
      BY <3>4, <3>10
    <3> QED
      BY <3>11
  <2> QED
    BY <2>2, <2>3
<1> HIDE DEF C
<1>2. \A T \in SUBSET S : T \in C
  BY <1>1, SubsetInduction
<1> QED
  BY <1>2 DEF C

\* A sum of n integers, none greater than c, is at most c * n.
LEMMA SumBound ==
  ASSUME NEW S, IsFiniteSet(S), NEW c \in Int, NEW f, \A x \in S : f[x] \in Int /\ f[x] <= c
  PROVE  SumFunctionOnSet(f, S) <= c * Cardinality(S)
<1> DEFINE C == {T \in SUBSET S : SumFunctionOnSet(f, T) <= c * Cardinality(T)}
<1>1. {} \in C
  <2>1. SumFunctionOnSet(f, {}) = 0 /\ Cardinality({}) = 0
    BY FS_EmptySet, SumEquation
  <2> QED
    BY <2>1
<1>2. ASSUME NEW T \in SUBSET S, NEW x \in S \ T, T \in C
      PROVE  T \cup {x} \in C
  <2> DEFINE U == T \cup {x}
             n == Cardinality(T)
             st == SumFunctionOnSet(f, T)
  <2>1. IsFiniteSet(T) /\ n \in Nat /\ IsFiniteSet(U) /\ Cardinality(U) = n + 1
    BY FS_Subset, FS_CardinalityType, FS_AddElement
  <2>2. st \in Int /\ st <= c * n
    BY <1>2, <2>1, SumType
  <2>3. SumFunctionOnSet(f, U) = f[x] + st
    <3>1. U \ {x} = T /\ x \in U /\ \A y \in U : f[y] \in Int
      OBVIOUS
    <3>2. SumFunctionOnSet(f, U) = f[x] + SumFunctionOnSet(f, U \ {x})
      BY <2>1, <3>1, SumSplit
    <3> QED
      BY <3>1, <3>2
  <2>4. f[x] \in Int /\ f[x] <= c
    OBVIOUS
  <2> HIDE DEF U, n, st
  <2>5. c * (n + 1) = c * n + c /\ c * n \in Int
    BY <2>1
  <2>6. SumFunctionOnSet(f, U) <= c * Cardinality(U)
    BY <2>1, <2>2, <2>3, <2>4, <2>5
  <2> QED
    BY <2>6 DEF U
<1> HIDE DEF C
<1>3. S \in C
  BY <1>1, <1>2, StepInduction
<1> QED
  BY <1>3 DEF C

\* A sum of multiples.
LEMMA SumScaled ==
  ASSUME NEW S, IsFiniteSet(S), NEW a \in Int, NEW f, NEW h,
         \A x \in S : f[x] \in Int /\ h[x] = a * f[x]
  PROVE  SumFunctionOnSet(h, S) = a * SumFunctionOnSet(f, S)
<1> DEFINE b == 0
           g == [x \in S |-> 0]
<1>1. b \in Int /\ \A u \in Int, v \in Int : a * u + b * v = a * u
  OBVIOUS
<1>2. \A x \in S : g[x] \in Int
  OBVIOUS
<1>3. \A x \in S : a * f[x] + b * g[x] = a * f[x]
  OBVIOUS
<1> HIDE DEF b, g
<1>4. \A x \in S : f[x] \in Int /\ g[x] \in Int /\ h[x] = a * f[x] + b * g[x]
  BY <1>2, <1>3
<1>5. SumFunctionOnSet(h, S) = a * SumFunctionOnSet(f, S) + b * SumFunctionOnSet(g, S)
  BY <1>1, <1>4, SumLinear
<1>6. SumFunctionOnSet(f, S) \in Int /\ SumFunctionOnSet(g, S) \in Int
  BY <1>2, SumType
<1> QED
  BY <1>1, <1>5, <1>6

LEMMA SumDifference ==
  ASSUME NEW S, IsFiniteSet(S), NEW f, NEW g, NEW h,
         \A x \in S : f[x] \in Int /\ g[x] \in Int /\ h[x] = f[x] - g[x]
  PROVE  SumFunctionOnSet(h, S) = SumFunctionOnSet(f, S) - SumFunctionOnSet(g, S)
<1> DEFINE a == 1
           b == -1
<1>1. a \in Int /\ b \in Int /\ \A u \in Int, v \in Int : a * u + b * v = u - v
  OBVIOUS
<1> HIDE DEF a, b
<1>2. \A x \in S : f[x] \in Int /\ g[x] \in Int /\ h[x] = a * f[x] + b * g[x]
  BY <1>1
<1>3. SumFunctionOnSet(h, S) = a * SumFunctionOnSet(f, S) + b * SumFunctionOnSet(g, S)
  BY <1>1, <1>2, SumLinear
<1>4. SumFunctionOnSet(f, S) \in Int /\ SumFunctionOnSet(g, S) \in Int
  BY SumType
<1> QED
  BY <1>1, <1>3, <1>4

\* A sum of n integers, none less than c, is at least c * n.
LEMMA SumLowerBound ==
  ASSUME NEW S, IsFiniteSet(S), NEW c \in Int, NEW f, \A x \in S : f[x] \in Int /\ c <= f[x]
  PROVE  c * Cardinality(S) <= SumFunctionOnSet(f, S)
<1> DEFINE z == [x \in S |-> 0]
           neg == [x \in S |-> z[x] - f[x]]
           d == -c
           n == Cardinality(S)
<1>1. \A x \in S : z[x] = 0 /\ neg[x] = z[x] - f[x]
  OBVIOUS
<1>2. d \in Int /\ n \in Nat
  BY FS_CardinalityType
<1> HIDE DEF z, neg
<1>3. SumFunctionOnSet(neg, S) = SumFunctionOnSet(z, S) - SumFunctionOnSet(f, S)
  BY <1>1, SumDifference
<1>4. SumFunctionOnSet(z, S) = 0 /\ SumFunctionOnSet(f, S) \in Int
  BY <1>1, SumZero, SumType
<1>5. \A x \in S : neg[x] \in Int /\ neg[x] <= d
  BY <1>1
<1> HIDE DEF d
<1>6. SumFunctionOnSet(neg, S) <= d * Cardinality(S)
  BY <1>2, <1>5, SumBound
<1> HIDE DEF n
<1>7. d * n = -(c * n) /\ c * n \in Int
  BY <1>2 DEF d
<1>8. -SumFunctionOnSet(f, S) <= -(c * n)
  BY <1>3, <1>4, <1>6, <1>7 DEF n
<1>9. c * n <= SumFunctionOnSet(f, S)
  BY <1>4, <1>7, <1>8
<1> QED
  BY <1>9 DEF n

\* Over two sets that share no index, the sums add.
LEMMA SumUnion ==
  ASSUME NEW f, NEW A, NEW B, IsFiniteSet(A), IsFiniteSet(B), A \cap B = {},
         \A x \in A \cup B : f[x] \in Int
  PROVE  SumFunctionOnSet(f, A \cup B) = SumFunctionOnSet(f, A) + SumFunctionOnSet(f, B)
<1> DEFINE sum(T) == SumFunctionOnSet(f, T)
           C == {T \in SUBSET B : sum(A \cup T) = sum(A) + sum(T)}
<1>1. \A T \in SUBSET B : /\ IsFiniteSet(T) /\ IsFiniteSet(A \cup T)
                          /\ sum(T) \in Int /\ sum(A \cup T) \in Int /\ sum(A) \in Int
  <2>1. SUFFICES ASSUME NEW T \in SUBSET B
                 PROVE  /\ IsFiniteSet(T) /\ IsFiniteSet(A \cup T)
                        /\ sum(T) \in Int /\ sum(A \cup T) \in Int /\ sum(A) \in Int
    OBVIOUS
  <2>2. IsFiniteSet(T) /\ IsFiniteSet(A \cup T)
    BY FS_Subset, FS_Union
  <2> QED
    BY <2>2, SumType
<1>2. {} \in C
  <2>1. sum({}) = 0
    BY FS_EmptySet, SumEquation
  <2>2. A \cup {} = A
    OBVIOUS
  <2>3. sum(A \cup {}) = sum(A) /\ sum(A) \in Int
    BY <1>1, <2>2
  <2>4. sum(A \cup {}) = sum(A) + sum({})
    BY <2>1, <2>3
  <2> QED
    BY <2>4
<1>3. ASSUME NEW T \in SUBSET B, NEW x \in B \ T, T \in C PROVE T \cup {x} \in C
  <2>1. T \cup {x} \in SUBSET B /\ x \in T \cup {x} /\ x \in A \cup (T \cup {x})
    OBVIOUS
  <2>2. (T \cup {x}) \ {x} = T /\ (A \cup (T \cup {x})) \ {x} = A \cup T
    OBVIOUS
  <2>3. sum(T \cup {x}) = f[x] + sum(T)
    <3>1. sum(T \cup {x}) = f[x] + sum((T \cup {x}) \ {x})
      BY <1>1, <2>1, SumSplit, ZenonT(30)
    <3> QED
      BY <2>2, <3>1
  <2>4. sum(A \cup (T \cup {x})) = f[x] + sum(A \cup T)
    <3>1. sum(A \cup (T \cup {x})) = f[x] + sum((A \cup (T \cup {x})) \ {x})
      BY <1>1, <2>1, SumSplit, ZenonT(30)
    <3> QED
      BY <2>2, <3>1
  <2>5. sum(A \cup T) = sum(A) + sum(T) /\ f[x] \in Int
    BY <1>3
  <2> HIDE DEF sum
  <2>6. sum(A \cup (T \cup {x})) = sum(A) + sum(T \cup {x})
    BY <1>1, <2>3, <2>4, <2>5
  <2> QED
    BY <2>1, <2>6
<1> HIDE DEF C
<1>4. B \in C
  BY <1>2, <1>3, StepInduction
<1> QED
  BY <1>4 DEF C

\* Over the pairs of one n, the sum is that of the second components.
Pairs(n, D) == {n} \X D

LEMMA SumPairs ==
  ASSUME NEW f, NEW g, NEW n, NEW D, IsFiniteSet(D),
         \A k \in D : f[<<n, k>>] \in Int /\ g[k] = f[<<n, k>>]
  PROVE  IsFiniteSet(Pairs(n, D)) /\ SumFunctionOnSet(f, Pairs(n, D)) = SumFunctionOnSet(g, D)
<1> DEFINE C == {T \in SUBSET D : /\ IsFiniteSet({n} \X T)
                                  /\ SumFunctionOnSet(f, {n} \X T) = SumFunctionOnSet(g, T)}
<1>1. {} \in C
  <2>1. {n} \X {} = {}
    OBVIOUS
  <2> QED
    BY <2>1, FS_EmptySet, SumEquation
<1>2. ASSUME NEW T \in SUBSET D, NEW x \in D \ T, T \in C PROVE T \cup {x} \in C
  <2> DEFINE old == {n} \X T
             new == {n} \X (T \cup {x})
             p == <<n, x>>
  <2>1. new = old \cup {p} /\ p \in new /\ new \ {p} = old
    OBVIOUS
  <2>2. (T \cup {x}) \ {x} = T /\ x \in T \cup {x} /\ IsFiniteSet(T \cup {x})
    BY FS_Subset, FS_AddElement
  <2>3. IsFiniteSet(new)
    <3>1. IsFiniteSet(old)
      BY <1>2
    <3> HIDE DEF old, new, p
    <3>2. IsFiniteSet(old \cup {p})
      BY <3>1, FS_AddElement
    <3> QED
      BY <2>1, <3>2
  <2>4. \A q \in new : f[q] \in Int
    <3>1. SUFFICES ASSUME NEW q \in new PROVE f[q] \in Int
      OBVIOUS
    <3>2. PICK k \in T \cup {x} : q = <<n, k>>
      OBVIOUS
    <3> HIDE DEF new
    <3> QED
      BY <3>2
  <2>5. \A k \in T \cup {x} : g[k] \in Int
    OBVIOUS
  <2>6. SumFunctionOnSet(f, new) = f[p] + SumFunctionOnSet(f, new \ {p})
    <3> HIDE DEF new, p
    <3> QED
      BY <2>1, <2>3, <2>4, SumSplit
  <2>7. SumFunctionOnSet(g, T \cup {x}) = g[x] + SumFunctionOnSet(g, T)
    <3>1. SumFunctionOnSet(g, T \cup {x}) = g[x] + SumFunctionOnSet(g, (T \cup {x}) \ {x})
      BY <2>2, <2>5, SumSplit
    <3> QED
      BY <2>2, <3>1
  <2>8. g[x] = f[p] /\ SumFunctionOnSet(f, old) = SumFunctionOnSet(g, T)
    BY <1>2
  <2>9. SumFunctionOnSet(f, new) = SumFunctionOnSet(g, T \cup {x})
    BY <2>1, <2>6, <2>7, <2>8
  <2> QED
    BY <2>3, <2>9
<1> HIDE DEF C
<1>3. D \in C
  BY <1>1, <1>2, StepInduction
<1> QED
  BY <1>3 DEF C, Pairs

LEMMA SumOfTwo ==
  ASSUME NEW f, f[1] \in Int, f[2] \in Int
  PROVE  SumFunctionOnSet(f, 1 .. 2) = f[1] + f[2]
<1> DEFINE sum(T) == SumFunctionOnSet(f, T)
<1>1. 1 .. 2 = {1, 2} /\ {1, 2} \ {1} = {2} /\ {2} \ {2} = {}
  OBVIOUS
<1>2. IsFiniteSet({}) /\ IsFiniteSet({2}) /\ IsFiniteSet({1, 2})
  <2>1. {1, 2} = {2} \cup {1} /\ {2} = {} \cup {2}
    OBVIOUS
  <2> QED
    BY <2>1, FS_EmptySet, FS_AddElement
<1>3. sum({}) = 0
  BY <1>2, SumEquation
<1>4. sum({2}) = f[2] + sum({2} \ {2})
  BY <1>2, SumSplit
<1>5. sum({1, 2}) = f[1] + sum({1, 2} \ {1})
  BY <1>2, SumSplit
<1> HIDE DEF sum
<1>6. sum(1 .. 2) = sum({1, 2}) /\ sum({1, 2} \ {1}) = sum({2}) /\ sum({2} \ {2}) = sum({})
  BY <1>1, Zenon
<1>7. sum(1 .. 2) = f[1] + (f[2] + 0)
  BY <1>3, <1>4, <1>5, <1>6, Zenon
<1>8. sum(1 .. 2) = f[1] + f[2]
  BY <1>7
<1> QED
  BY <1>8 DEF sum

-----------------------------------------------------------------------------
(* Folds that add *)

\* A fold that adds the value of the first index to what the others give.
AddsUp(g, f, S) ==
  g = [s \in SUBSET S |-> IF s = {} THEN 0 ELSE g[s \ {First(s)}] + f[First(s)]]

\* There is such a fold, and at the whole set it is the sum.
LEMMA AddsUpToSum ==
  ASSUME NEW f, NEW S, IsFiniteSet(S), \A x \in S : f[x] \in Int
  PROVE  /\ \E g : AddsUp(g, f, S)
         /\ \A g : AddsUp(g, f, S) => g[S] = SumFunctionOnSet(f, S)
<1> DEFINE sum == [s \in SUBSET S |-> SumFunctionOnSet(f, s)]
<1>1. \A s \in SUBSET S : IsFiniteSet(s) /\ SumFunctionOnSet(f, s) \in Int
  BY FS_Subset, SumType
<1>2. \A s \in SUBSET S :
        sum[s] = IF s = {} THEN 0 ELSE sum[s \ {First(s)}] + f[First(s)]
  <2>1. SUFFICES ASSUME NEW s \in SUBSET S, s # {}
                 PROVE  sum[s] = sum[s \ {First(s)}] + f[First(s)]
    BY <1>1, SumEquation
  <2>2. First(s) \in s /\ s \ {First(s)} \in SUBSET S
    BY <2>1, FirstIn
  <2>3. sum[s] = f[First(s)] + sum[s \ {First(s)}]
    BY <1>1, <2>1, <2>2, SumEquation
  <2>4. f[First(s)] \in Int /\ sum[s \ {First(s)}] \in Int
    BY <1>1, <2>2
  <2> HIDE DEF sum
  <2> QED BY <2>3, <2>4
<1>3. AddsUp(sum, f, S)
  <2>1. sum = [s \in SUBSET S |-> sum[s]]
    OBVIOUS
  <2> HIDE DEF sum
  <2>2. sum = [s \in SUBSET S |-> IF s = {} THEN 0 ELSE sum[s \ {First(s)}] + f[First(s)]]
    BY <1>2, <2>1, Zenon
  <2> QED BY <2>2 DEF AddsUp
<1>4. ASSUME NEW g, AddsUp(g, f, S)
      PROVE  g[S] = SumFunctionOnSet(f, S)
  <2> DEFINE C == {T \in SUBSET S : g[T] = sum[T]}
  <2>1. \A s \in SUBSET S : g[s] = IF s = {} THEN 0 ELSE g[s \ {First(s)}] + f[First(s)]
    BY <1>4 DEF AddsUp
  <2>2. ASSUME NEW T \in SUBSET S, (SUBSET T) \ {T} \subseteq C
        PROVE  T \in C
    <3>1. CASE T = {}
      BY <1>2, <2>1, <3>1
    <3>2. CASE T # {}
      <4>1. First(T) \in T
        BY <3>2, FirstIn
      <4>2. T \ {First(T)} \in C
        BY <2>2, <4>1
      <4>3. g[T \ {First(T)}] = sum[T \ {First(T)}]
        BY <4>2
      <4>4. g[T] = g[T \ {First(T)}] + f[First(T)]
        BY <2>1, <3>2
      <4> HIDE DEF sum
      <4>5. sum[T] = sum[T \ {First(T)}] + f[First(T)]
        BY <1>2, <3>2
      <4> QED BY <4>3, <4>4, <4>5
    <3> QED BY <3>1, <3>2
  <2> HIDE DEF C, sum
  <2>3. \A T \in SUBSET S : T \in C
    BY <2>2, SubsetInduction
  <2>4. g[S] = sum[S]
    BY <2>3 DEF C
  <2> QED BY <2>4 DEF sum
<1> QED BY <1>3, <1>4

-----------------------------------------------------------------------------
(* Sums in another order *)

\* SetToSeq lists a finite set, each element once.
LEMMA SetToSeqLists ==
  ASSUME NEW S, IsFiniteSet(S)
  PROVE  /\ Cardinality(S) \in Nat
         /\ SetToSeq(S) \in Bijection(1 .. Cardinality(S), S)
         /\ SetToSeq(S) \in Seq(S) /\ Len(SetToSeq(S)) = Cardinality(S)
<1> DEFINE n == Cardinality(S)
           chosen == SetToSeq(S)
<1>1. n \in Nat /\ ExistsBijection(1 .. n, S)
  BY FS_CardinalityType
<1>2. \E f \in [1 .. n -> S] : IsInjective(f)
  BY <1>1 DEF ExistsBijection, Bijection, Injection
<1>3. chosen \in [1 .. n -> S] /\ IsInjective(chosen)
  <2>1. chosen = CHOOSE f \in [1 .. n -> S] : IsInjective(f)
    BY DEF SetToSeq
  <2> HIDE DEF chosen
  <2> QED
    BY <1>2, <2>1
<1> HIDE DEF chosen
<1>4. chosen \in Injection(1 .. n, S)
  BY <1>3 DEF Injection
<1>5. Cardinality(1 .. n) = n
  BY <1>1, FS_Interval
<1> HIDE DEF n
<1>6. chosen \in Surjection(1 .. n, S)
  <2>1. n = Cardinality(S)
    BY DEF n
  <2> QED
    BY <1>4, <1>5, <2>1, FS_Injection
<1>7. chosen \in Bijection(1 .. n, S)
  BY <1>4, <1>6 DEF Bijection
<1>8. chosen \in Seq(S) /\ Len(chosen) = n
  BY <1>1, <1>3
<1> QED
  BY <1>1, <1>7, <1>8 DEF n, chosen

\* A sum does not depend on how its indices are named.
LEMMA SumRenamed ==
  ASSUME NEW D, IsFiniteSet(D), NEW S, NEW b \in Bijection(D, S), NEW f, NEW h,
         \A x \in D : h[x] = f[b[x]] /\ f[b[x]] \in Int
  PROVE  SumFunctionOnSet(h, D) = SumFunctionOnSet(f, S)
<1> DEFINE image(T) == {b[x] : x \in T}
           C == {T \in SUBSET D : /\ IsFiniteSet(image(T))
                                  /\ SumFunctionOnSet(h, T) = SumFunctionOnSet(f, image(T))}
<1>1. /\ b \in [D -> S]
      /\ \A x, y \in D : b[x] = b[y] => x = y
      /\ image(D) = S
  BY DEF Bijection, Injection, Surjection, IsInjective
<1>2. {} \in C
  <2>1. image({}) = {}
    OBVIOUS
  <2> HIDE DEF image
  <2>2. SumFunctionOnSet(h, {}) = 0 /\ SumFunctionOnSet(f, {}) = 0 /\ IsFiniteSet({})
    BY FS_EmptySet, SumEquation
  <2> QED
    BY <2>1, <2>2
<1>3. ASSUME NEW T \in SUBSET D, NEW x \in D \ T, T \in C PROVE T \cup {x} \in C
  <2> DEFINE new == T \cup {x}
             newImage == image(T) \cup {b[x]}
  <2>1. image(new) = newImage /\ b[x] \notin image(T)
    BY <1>1
  <2>2. IsFiniteSet(newImage)
    BY <1>3, FS_AddElement
  <2>3. IsFiniteSet(new) /\ x \in new /\ new \ {x} = T /\ new \in SUBSET D
    BY FS_Subset
  <2>4. b[x] \in newImage /\ newImage \ {b[x]} = image(T)
    BY <2>1
  <2>5. \A y \in new : h[y] \in Int
    BY <2>3
  <2>6. \A y \in newImage : f[y] \in Int
    OBVIOUS
  <2>7. SumFunctionOnSet(h, T) = SumFunctionOnSet(f, image(T)) /\ h[x] = f[b[x]]
    BY <1>3
  <2> HIDE DEF image, new, newImage
  <2>8. SumFunctionOnSet(h, new) = h[x] + SumFunctionOnSet(h, new \ {x})
    BY <2>3, <2>5, SumSplit
  <2>9. SumFunctionOnSet(f, newImage) = f[b[x]] + SumFunctionOnSet(f, newImage \ {b[x]})
    BY <2>2, <2>4, <2>6, SumSplit
  <2>10. SumFunctionOnSet(h, new) = SumFunctionOnSet(f, newImage)
    BY <2>3, <2>4, <2>7, <2>8, <2>9, Zenon
  <2>11. new \in C
    BY <2>1, <2>2, <2>3, <2>10
  <2> QED
    BY <2>11 DEF new
<1> HIDE DEF C
<1>4. D \in C
  BY <1>2, <1>3, StepInduction
<1>5. SumFunctionOnSet(h, D) = SumFunctionOnSet(f, image(D))
  BY <1>4 DEF C
<1> HIDE DEF image
<1> QED
  BY <1>1, <1>5

\* The part of a sum that belongs to each group, where every index has one.
PartOf(f, key, T, a) == [i \in T |-> IF key[i] = a THEN f[i] ELSE 0]

LEMMA SumByGroup ==
  ASSUME NEW S, IsFiniteSet(S), NEW A, IsFiniteSet(A), NEW key \in [S -> A],
         NEW f, \A i \in S : f[i] \in Int
  PROVE  SumFunctionOnSet([a \in A |-> SumFunctionOnSet(PartOf(f, key, S, a), S)], A)
           = SumFunctionOnSet(f, S)
<1> DEFINE part(T) == [a \in A |-> SumFunctionOnSet(PartOf(f, key, T, a), T)]
           C == {T \in SUBSET S : SumFunctionOnSet(part(T), A) = SumFunctionOnSet(f, T)}
<1>1. ASSUME NEW T \in SUBSET S
      PROVE  IsFiniteSet(T) /\ part(T) \in [A -> Int]
             /\ \A a \in A : \A i \in T : PartOf(f, key, T, a)[i] \in Int
  <2>1. IsFiniteSet(T)
    BY FS_Subset
  <2>2. \A a \in A : \A i \in T : PartOf(f, key, T, a)[i] \in Int
    BY DEF PartOf
  <2>3. \A a \in A : SumFunctionOnSet(PartOf(f, key, T, a), T) \in Int
    BY <2>1, <2>2, SumType
  <2> QED
    BY <2>1, <2>2, <2>3
<1>2. {} \in C
  <2>1. IsFiniteSet({}) /\ SumFunctionOnSet(f, {}) = 0
    BY FS_EmptySet, SumEquation
  <2>2. \A a \in A : SumFunctionOnSet(PartOf(f, key, {}, a), {}) = 0
    BY <2>1, SumEquation
  <2>3. \A a \in A : part({})[a] = 0
    BY <2>2
  <2> HIDE DEF part
  <2>4. SumFunctionOnSet(part({}), A) = 0
    BY <2>3, SumZero
  <2> QED
    BY <2>1, <2>4
<1>3. ASSUME NEW T \in SUBSET S, NEW x \in S \ T, T \in C PROVE T \cup {x} \in C
  <2> DEFINE new == T \cup {x}
             k == key[x]
  <2>1. new \in SUBSET S /\ x \in new /\ new \ {x} = T /\ k \in A
    OBVIOUS
  <2> HIDE DEF new, k
  <2>2. ASSUME NEW a \in A
        PROVE  part(new)[a] = part(T)[a] + IF a = k THEN f[x] ELSE 0
    <3> DEFINE g == PartOf(f, key, new, a)
               h == PartOf(f, key, T, a)
    <3>1. SumFunctionOnSet(g, new) = g[x] + SumFunctionOnSet(g, new \ {x})
      <4>1. IsFiniteSet(new) /\ \A i \in new : g[i] \in Int
        BY <1>1, <2>1
      <4> HIDE DEF g
      <4> QED
        BY <2>1, <4>1, SumSplit
    <3>2. SumFunctionOnSet(g, T) = SumFunctionOnSet(h, T)
      <4>1. \A i \in T : g[i] = h[i]
        BY <2>1 DEF PartOf
      <4> HIDE DEF g, h
      <4> QED
        BY <1>1, <4>1, SumSame
    <3>3. g[x] = IF a = k THEN f[x] ELSE 0
      BY <2>1 DEF PartOf, k
    <3>4. part(T)[a] \in Int /\ part(T)[a] = SumFunctionOnSet(h, T)
          /\ part(new)[a] = SumFunctionOnSet(g, new)
      BY <1>1
    <3> HIDE DEF g, h, part
    <3>5. SumFunctionOnSet(g, new) = g[x] + part(T)[a]
      BY <2>1, <3>1, <3>2, <3>4
    <3>6. g[x] \in Int
      BY <3>3, <2>1
    <3> QED
      BY <3>3, <3>4, <3>5, <3>6
  <2>3. part(T) \in [A -> Int] /\ part(new) \in [A -> Int]
    BY <1>1, <2>1
  <2>4. SumFunctionOnSet(f, new) = f[x] + SumFunctionOnSet(f, T)
    <3>1. IsFiniteSet(new) /\ \A i \in new : f[i] \in Int
      BY <1>1, <2>1
    <3> QED
      BY <2>1, <3>1, SumSplit
  <2>5. SumFunctionOnSet(f, T) \in Int /\ f[x] \in Int
    <3>1. IsFiniteSet(T) /\ \A i \in T : f[i] \in Int
      BY <1>1
    <3> QED
      BY <3>1, SumType
  <2>6. SumFunctionOnSet(part(T), A) = SumFunctionOnSet(f, T)
    BY <1>3
  <2> HIDE DEF part
  <2>7. SumFunction(part(new)) = SumFunction(part(T)) - part(T)[k] + part(new)[k]
    <3>1. \A a \in A \ {k} : part(new)[a] = part(T)[a]
      BY <2>2, <2>3
    <3> QED
      BY <2>1, <2>3, <3>1, SumChange
  <2>8. SumFunction(part(new)) = SumFunctionOnSet(part(new), A)
        /\ SumFunction(part(T)) = SumFunctionOnSet(part(T), A)
    BY <2>3 DEF SumFunction
  <2>9. part(new)[k] = part(T)[k] + f[x] /\ part(T)[k] \in Int
    BY <2>1, <2>2, <2>3
  <2>10. SumFunctionOnSet(part(new), A) = SumFunctionOnSet(f, new)
    BY <2>4, <2>5, <2>6, <2>7, <2>8, <2>9
  <2> QED
    BY <2>1, <2>10 DEF new
<1> HIDE DEF C
<1>4. S \in C
  BY <1>2, <1>3, StepInduction
<1> QED
  BY <1>4 DEF C

-----------------------------------------------------------------------------
(* Folds from the left *)

\* Max of a finite set of integers is one of them.
LEMMA MaxIn ==
  ASSUME NEW s \in SUBSET Int, IsFiniteSet(s), s # {}
  PROVE  Max(s) \in s
<1> DEFINE C == {T \in SUBSET s : T # {} => \E x \in T : \A y \in T : x >= y}
<1>1. ASSUME NEW T \in SUBSET s, (SUBSET T) \ {T} \subseteq C PROVE T \in C
  <2>1. SUFFICES ASSUME NEW x \in T PROVE \E m \in T : \A y \in T : m >= y
    OBVIOUS
  <2>2. CASE T = {x}
    BY <2>2
  <2>3. CASE T # {x}
    <3>1. T \ {x} \in C /\ T \ {x} # {}
      BY <1>1, <2>3
    <3>2. PICK m \in T \ {x} : \A y \in T \ {x} : m >= y
      BY <3>1
    <3>3. m \in Int /\ x \in Int /\ \A y \in T : y \in Int
      OBVIOUS
    <3>4. CASE m >= x
      BY <3>2, <3>4
    <3>5. CASE ~(m >= x)
      BY <3>2, <3>3, <3>5
    <3> QED
      BY <3>4, <3>5
  <2> QED
    BY <2>2, <2>3
<1> HIDE DEF C
<1>2. s \in C
  BY <1>1, SubsetInduction
<1> QED
  BY <1>2 DEF C, Max

\* A fold over the indices in s, the greatest one last; step maps an index and
\* what was there before it to what is there after it.
LeftFold(g, step, base, S) ==
  g = [s \in SUBSET S |-> IF s = {} THEN base ELSE step[<<Max(s), g[s \ {Max(s)}]>>]]

\* What holds of the base, and after a step if it held before, holds of every
\* partial result.
LEMMA FoldStays ==
  ASSUME NEW S \in SUBSET Int, IsFiniteSet(S), NEW g, NEW J, g[{}] \in J,
         \A s \in SUBSET S : s # {} /\ g[s \ {Max(s)}] \in J => g[s] \in J
  PROVE  \A s \in SUBSET S : g[s] \in J
<1> DEFINE C == {s \in SUBSET S : g[s] \in J}
<1>1. ASSUME NEW T \in SUBSET S, (SUBSET T) \ {T} \subseteq C PROVE T \in C
  <2>1. CASE T = {}
    BY <2>1
  <2>2. CASE T # {}
    <3>1. Max(T) \in T
      <4>1. T \in SUBSET Int /\ IsFiniteSet(T)
        BY FS_Subset
      <4> QED
        BY <2>2, <4>1, MaxIn
    <3> DEFINE r == T \ {Max(T)}
    <3>2. r \in (SUBSET T) \ {T}
      BY <3>1
    <3> HIDE DEF r
    <3>3. r \in C
      BY <1>1, <3>2
    <3> QED
      BY <2>2, <3>3 DEF r
  <2> QED
    BY <2>1, <2>2
<1> HIDE DEF C
<1>2. \A s \in SUBSET S : s \in C
  BY <1>1, SubsetInduction
<1> QED
  BY <1>2 DEF C

\* Two folds agree where both are defined.
LEMMA LeftFoldUnique ==
  ASSUME NEW A \in SUBSET Int, IsFiniteSet(A), NEW B \in SUBSET A, NEW step, NEW base,
         NEW g, NEW h, LeftFold(g, step, base, A), LeftFold(h, step, base, B)
  PROVE  \A s \in SUBSET B : g[s] = h[s]
<1> DEFINE C == {s \in SUBSET B : g[s] = h[s]}
<1>1. ASSUME NEW T \in SUBSET B, (SUBSET T) \ {T} \subseteq C PROVE T \in C
  <2>1. T \in SUBSET A /\ T \in SUBSET Int /\ IsFiniteSet(T)
    BY FS_Subset
  <2>2. CASE T = {}
    <3>1. g[T] = base /\ h[T] = base
      BY <2>1, <2>2 DEF LeftFold
    <3> QED
      BY <3>1
  <2>3. CASE T # {}
    <3>1. Max(T) \in T
      BY <2>1, <2>3, MaxIn
    <3>2. T \ {Max(T)} \in C
      BY <1>1, <3>1
    <3>3. g[T \ {Max(T)}] = h[T \ {Max(T)}]
      BY <3>2
    <3>4. g[T] = step[<<Max(T), g[T \ {Max(T)}]>>]
      BY <2>1, <2>3 DEF LeftFold
    <3>5. h[T] = step[<<Max(T), h[T \ {Max(T)}]>>]
      BY <2>3 DEF LeftFold
    <3>6. g[T] = h[T]
      BY <3>3, <3>4, <3>5, Zenon
    <3> QED
      BY <3>6
  <2> QED
    BY <2>2, <2>3
<1>2. IsFiniteSet(B)
  BY FS_Subset
<1> HIDE DEF C
<1>3. \A T \in SUBSET B : T \in C
  BY <1>1, <1>2, SubsetInduction
<1> QED
  BY <1>3 DEF C

LEMMA LeftFoldExists ==
  ASSUME NEW S \in SUBSET Int, IsFiniteSet(S), NEW step, NEW base
  PROVE  \E g : LeftFold(g, step, base, S)
<1> DEFINE C == {T \in SUBSET S : \E g : LeftFold(g, step, base, T)}
           sol(T) == CHOOSE g : LeftFold(g, step, base, T)
<1>1. ASSUME NEW T \in SUBSET S, (SUBSET T) \ {T} \subseteq C PROVE T \in C
  <2> DEFINE rest(s) == s \ {Max(s)}
             h == [s \in SUBSET T |->
                     IF s = {} THEN base ELSE step[<<Max(s), sol(rest(s))[rest(s)]>>]]
  <2>1. \A U \in (SUBSET T) \ {T} : LeftFold(sol(U), step, base, U)
    BY <1>1
  <2>2. ASSUME NEW U \in (SUBSET T) \ {T} PROVE h[U] = sol(U)[U]
    <3>1. LeftFold(sol(U), step, base, U)
      BY <2>1
    <3> HIDE DEF sol
    <3>2. CASE U = {}
      BY <3>1, <3>2 DEF LeftFold
    <3>3. CASE U # {}
      <4>1. Max(U) \in U
        <5>1. U \in SUBSET Int /\ IsFiniteSet(U)
          BY FS_Subset
        <5> QED
          BY <3>3, <5>1, MaxIn
      <4>2. /\ rest(U) \in (SUBSET T) \ {T} /\ rest(U) \in SUBSET U
            /\ U \in SUBSET Int /\ IsFiniteSet(U)
        BY <4>1, FS_Subset
      <4>3. sol(rest(U))[rest(U)] = sol(U)[rest(U)]
        <5>1. LeftFold(sol(rest(U)), step, base, rest(U))
          BY <2>1, <4>2
        <5> HIDE DEF rest
        <5> QED
          BY <3>1, <4>2, <5>1, LeftFoldUnique
      <4>4. sol(U)[U] = step[<<Max(U), sol(U)[rest(U)]>>]
        BY <3>1, <3>3 DEF LeftFold
      <4>5. h[U] = step[<<Max(U), sol(rest(U))[rest(U)]>>]
        BY <3>3
      <4> HIDE DEF h, rest
      <4> QED
        BY <4>3, <4>4, <4>5, Zenon
    <3> QED
      BY <3>2, <3>3
  <2>3. ASSUME NEW s \in SUBSET T, s # {} PROVE h[s] = step[<<Max(s), h[rest(s)]>>]
    <3>1. Max(s) \in s
      <4>1. s \in SUBSET Int /\ IsFiniteSet(s)
        BY FS_Subset
      <4> QED
        BY <2>3, <4>1, MaxIn
    <3>2. rest(s) \in (SUBSET T) \ {T}
      BY <3>1
    <3>3. h[rest(s)] = sol(rest(s))[rest(s)]
      BY <2>2, <3>2
    <3>4. h[s] = step[<<Max(s), sol(rest(s))[rest(s)]>>]
      BY <2>3
    <3> HIDE DEF h, rest, sol
    <3> QED
      BY <3>3, <3>4, Zenon
  <2>4. {} \in SUBSET T /\ h[{}] = base
    OBVIOUS
  <2>5. h = [s \in SUBSET T |-> h[s]]
    OBVIOUS
  <2>6. LeftFold(h, step, base, T)
    <3> HIDE DEF h
    <3>1. \A s \in SUBSET T : h[s] = IF s = {} THEN base ELSE step[<<Max(s), h[s \ {Max(s)}]>>]
      <4> SUFFICES ASSUME NEW s \in SUBSET T
                   PROVE  h[s] = IF s = {} THEN base ELSE step[<<Max(s), h[s \ {Max(s)}]>>]
        OBVIOUS
      <4>1. CASE s = {}
        BY <2>4, <4>1
      <4>2. CASE s # {}
        BY <2>3, <4>2
      <4> QED
        BY <4>1, <4>2
    <3>2. h = [s \in SUBSET T |-> IF s = {} THEN base ELSE step[<<Max(s), h[s \ {Max(s)}]>>]]
      BY <2>5, <3>1, Zenon
    <3> QED
      BY <3>2 DEF LeftFold
  <2> QED
    BY <2>6
<1> HIDE DEF C
<1>2. \A T \in SUBSET S : T \in C
  BY <1>1, SubsetInduction
<1> QED
  BY <1>2 DEF C

-----------------------------------------------------------------------------
(* Sequences, and their concatenation *)

\* A set that contains 1 and, with m < n, m + 1 contains 1 .. n.
LEMMA SegmentInduction ==
  ASSUME NEW n \in Nat, NEW G, 1 \in G, \A m \in 1 .. n : m < n /\ m \in G => m + 1 \in G
  PROVE  \A m \in 1 .. n : m \in G
<1> DEFINE C == {T \in SUBSET (1 .. n) : \A m \in 1 .. n : T = 1 .. m => m \in G}
<1>1. IsFiniteSet(1 .. n)
  BY FS_Interval
<1>2. ASSUME NEW T \in SUBSET (1 .. n), (SUBSET T) \ {T} \subseteq C PROVE T \in C
  <2> SUFFICES ASSUME NEW m \in 1 .. n, T = 1 .. m PROVE m \in G
    OBVIOUS
  <2>1. CASE m = 1
    BY <2>1
  <2>2. CASE m # 1
    <3>1. m - 1 \in 1 .. n /\ m - 1 < n /\ (m - 1) + 1 = m
      BY <2>2
    <3>2. 1 .. (m - 1) \in (SUBSET T) \ {T}
      <4>1. 1 .. (m - 1) \subseteq 1 .. m /\ m \in 1 .. m /\ m \notin 1 .. (m - 1)
        OBVIOUS
      <4> QED
        BY <4>1
    <3>3. m - 1 \in G
      BY <1>2, <3>1, <3>2
    <3> QED
      BY <3>1, <3>3
  <2> QED
    BY <2>1, <2>2
<1>3. \A T \in SUBSET (1 .. n) : T \in C
  <2> HIDE DEF C
  <2> QED
    BY <1>1, <1>2, SubsetInduction
<1>4. ASSUME NEW m \in 1 .. n PROVE m \in G
  <2>1. 1 .. m \in SUBSET (1 .. n)
    OBVIOUS
  <2> QED
    BY <1>3, <2>1
<1> QED
  BY <1>4

\* The first m results of FlattenSeq's recursion.
Flattens(f, seqs, m) ==
  f = [i \in 1 .. m |-> IF i = 1 THEN seqs[i] ELSE f[i - 1] \o seqs[i]]

\* The recursion has a solution for every length, ...
LEMMA FlattensExists ==
  ASSUME NEW n \in Nat \ {0}, NEW seqs
  PROVE  \E f : Flattens(f, seqs, n)
<1> DEFINE G == {m \in 1 .. n : \E f : Flattens(f, seqs, m)}
<1>1. 1 \in G
  <2> DEFINE f == [i \in 1 .. 1 |-> seqs[i]]
  <2>1. f = [i \in 1 .. 1 |-> IF i = 1 THEN seqs[i] ELSE f[i - 1] \o seqs[i]]
    OBVIOUS
  <2> HIDE DEF f
  <2>2. Flattens(f, seqs, 1)
    BY <2>1 DEF Flattens
  <2> QED
    BY <2>2
<1>2. ASSUME NEW m \in 1 .. n, m < n, m \in G PROVE m + 1 \in G
  <2>1. PICK f : Flattens(f, seqs, m)
    BY <1>2
  <2> DEFINE g == [i \in 1 .. m + 1 |-> IF i = 1 THEN seqs[i] ELSE f[i - 1] \o seqs[i]]
  <2>2. ASSUME NEW i \in 1 .. m PROVE g[i] = f[i]
    <3>1. f[i] = IF i = 1 THEN seqs[i] ELSE f[i - 1] \o seqs[i]
      BY <2>1 DEF Flattens
    <3>2. i \in 1 .. m + 1
      OBVIOUS
    <3>3. g[i] = IF i = 1 THEN seqs[i] ELSE f[i - 1] \o seqs[i]
      BY <3>2
    <3> QED
      BY <3>1, <3>3
  <2>3. \A i \in 1 .. m + 1 : i # 1 => i - 1 \in 1 .. m
    OBVIOUS
  <2>4. \A i \in 1 .. m + 1 : i # 1 => g[i - 1] = f[i - 1]
    BY <2>2, <2>3
  <2>5. g = [i \in 1 .. m + 1 |-> IF i = 1 THEN seqs[i] ELSE g[i - 1] \o seqs[i]]
    <3> DEFINE h == [i \in 1 .. m + 1 |-> IF i = 1 THEN seqs[i] ELSE g[i - 1] \o seqs[i]]
    <3>1. \A i \in 1 .. m + 1 : g[i] = h[i]
      BY <2>4
    <3> QED
      BY <3>1
  <2> HIDE DEF g
  <2>6. Flattens(g, seqs, m + 1)
    BY <2>5 DEF Flattens
  <2>7. m + 1 \in 1 .. n
    BY <1>2
  <2> QED
    BY <2>6, <2>7
<1>3. n \in 1 .. n
  OBVIOUS
<1>4. n \in G
  <2> HIDE DEF G
  <2> QED
    BY <1>1, <1>2, <1>3, SegmentInduction
<1> QED
  BY <1>4

\* ... which stays in the type of its parts.
LEMMA FlattensType ==
  ASSUME NEW n \in Nat \ {0}, NEW T, NEW seqs, \A i \in 1 .. n : seqs[i] \in Seq(T),
         NEW f, Flattens(f, seqs, n)
  PROVE  f[n] \in Seq(T)
<1> DEFINE G == {m \in 1 .. n : f[m] \in Seq(T)}
<1>1. 1 \in G
  BY DEF Flattens
<1>2. ASSUME NEW m \in 1 .. n, m < n, m \in G PROVE m + 1 \in G
  <2>1. m + 1 \in 1 .. n /\ m + 1 # 1 /\ (m + 1) - 1 = m
    BY <1>2
  <2>2. f[m + 1] = f[m] \o seqs[m + 1]
    BY <2>1 DEF Flattens
  <2>3. f[m] \in Seq(T) /\ seqs[m + 1] \in Seq(T)
    BY <1>2, <2>1
  <2>4. f[m] \o seqs[m + 1] \in Seq(T)
    BY <2>3
  <2> QED
    BY <2>1, <2>2, <2>4
<1>3. n \in 1 .. n
  OBVIOUS
<1>4. n \in G
  <2> HIDE DEF G
  <2> QED
    BY <1>1, <1>2, <1>3, SegmentInduction
<1> QED
  BY <1>4

LEMMA FlattenSeqType ==
  ASSUME NEW T, NEW seqs, Len(seqs) \in Nat \ {0},
         \A i \in 1 .. Len(seqs) : seqs[i] \in Seq(T)
  PROVE  FlattenSeq(seqs) \in Seq(T)
<1> DEFINE n == Len(seqs)
           chosen == CHOOSE f : Flattens(f, seqs, n)
<1>1. FlattenSeq(seqs) = chosen[n]
  BY DEF FlattenSeq, Flattens
<1>2. Flattens(chosen, seqs, n)
  BY FlattensExists
<1> HIDE DEF chosen
<1>3. chosen[n] \in Seq(T)
  BY <1>2, FlattensType
<1> QED
  BY <1>1, <1>3

-----------------------------------------------------------------------------
(***************************************************************************)
(* What Validate guarantees of the rows executeCore stores, for every      *)
(* proposal, every unit and any number of lines.  Validate balances the    *)
(* exact products, the table keeps each product rounded to cents: the rows *)
(* balance when no product was rounded or a single line faces a single     *)
(* line, and otherwise they differ by at most half a cent per line.        *)
(***************************************************************************)
-----------------------------------------------------------------------------
(* The totals are sums *)

Debits(rows) == [i \in DOMAIN rows |-> rows[i].debit]
Credits(rows) == [i \in DOMAIN rows |-> rows[i].credit]
Exacts(lines, rate, isDebit) ==
  [i \in DOMAIN lines |-> IF lines[i].debit = isDebit THEN ExactBase(lines[i], rate) ELSE 0]

LEMMA DebitTotalIsSum ==
  ASSUME NEW rows, IsFiniteSet(DOMAIN rows), \A i \in DOMAIN rows : rows[i].debit \in Int
  PROVE  DebitTotal(rows) = SumFunctionOnSet(Debits(rows), DOMAIN rows)
<1> DEFINE S == DOMAIN rows
           f == Debits(rows)
           P(g) == g = [s \in SUBSET S |->
                          IF s = {} THEN 0 ELSE g[s \ {First(s)}] + rows[First(s)].debit]
<1>1. DebitTotal(rows) = (CHOOSE g : P(g))[S]
  BY DEF DebitTotal, FoldSeq, FoldFunction, FoldFunctionOnSet, MapThenFoldSet, First
<1>2. \A i \in S : f[i] = rows[i].debit /\ f[i] \in Int
  BY DEF Debits
<1> HIDE DEF f
<1>3. \A g : P(g) <=> AddsUp(g, f, S)
  <2>1. \A s \in SUBSET S : s # {} => f[First(s)] = rows[First(s)].debit
    BY <1>2, FirstIn
  <2> QED
    BY <2>1 DEF AddsUp
<1>4. AddsUp(CHOOSE g : P(g), f, S)
  <2>1. \E g : P(g)
    BY <1>2, <1>3, AddsUpToSum
  <2> HIDE DEF P
  <2> QED
    BY <1>3, <2>1
<1> HIDE DEF P
<1> QED
  BY <1>1, <1>2, <1>4, AddsUpToSum DEF f

LEMMA CreditTotalIsSum ==
  ASSUME NEW rows, IsFiniteSet(DOMAIN rows), \A i \in DOMAIN rows : rows[i].credit \in Int
  PROVE  CreditTotal(rows) = SumFunctionOnSet(Credits(rows), DOMAIN rows)
<1> DEFINE S == DOMAIN rows
           f == Credits(rows)
           P(g) == g = [s \in SUBSET S |->
                          IF s = {} THEN 0 ELSE g[s \ {First(s)}] + rows[First(s)].credit]
<1>1. CreditTotal(rows) = (CHOOSE g : P(g))[S]
  BY DEF CreditTotal, FoldSeq, FoldFunction, FoldFunctionOnSet, MapThenFoldSet, First
<1>2. \A i \in S : f[i] = rows[i].credit /\ f[i] \in Int
  BY DEF Credits
<1> HIDE DEF f
<1>3. \A g : P(g) <=> AddsUp(g, f, S)
  <2>1. \A s \in SUBSET S : s # {} => f[First(s)] = rows[First(s)].credit
    BY <1>2, FirstIn
  <2> QED
    BY <2>1 DEF AddsUp
<1>4. AddsUp(CHOOSE g : P(g), f, S)
  <2>1. \E g : P(g)
    BY <1>2, <1>3, AddsUpToSum
  <2> HIDE DEF P
  <2> QED
    BY <1>3, <2>1
<1> HIDE DEF P
<1> QED
  BY <1>1, <1>2, <1>4, AddsUpToSum DEF f

LEMMA ExactTotalIsSum ==
  ASSUME NEW lines, IsFiniteSet(DOMAIN lines), NEW rate, NEW isDebit,
         \A i \in DOMAIN lines : ExactBase(lines[i], rate) \in Int
  PROVE  ExactTotal(lines, rate, isDebit) =
           SumFunctionOnSet(Exacts(lines, rate, isDebit), DOMAIN lines)
<1> DEFINE S == DOMAIN lines
           f == Exacts(lines, rate, isDebit)
           value(i) == IF lines[i].debit = isDebit THEN ExactBase(lines[i], rate) ELSE 0
           P(g) == g = [s \in SUBSET S |->
                          IF s = {} THEN 0 ELSE g[s \ {First(s)}] + value(First(s))]
<1>1. ExactTotal(lines, rate, isDebit) = (CHOOSE g : P(g))[S]
  BY DEF ExactTotal, FoldSeq, FoldFunction, FoldFunctionOnSet, MapThenFoldSet, First
<1>2. \A i \in S : f[i] = value(i) /\ f[i] \in Int
  BY DEF Exacts
<1> HIDE DEF f, value
<1>3. \A g : P(g) <=> AddsUp(g, f, S)
  <2>1. \A s \in SUBSET S : s # {} => f[First(s)] = value(First(s))
    BY <1>2, FirstIn
  <2> QED
    BY <2>1 DEF AddsUp
<1>4. AddsUp(CHOOSE g : P(g), f, S)
  <2>1. \E g : P(g)
    BY <1>2, <1>3, AddsUpToSum
  <2> HIDE DEF P
  <2> QED
    BY <1>3, <2>1
<1> HIDE DEF P
<1> QED
  BY <1>1, <1>2, <1>4, AddsUpToSum DEF f

-----------------------------------------------------------------------------
(* Rounding *)

\* Rounding to a unit is off by at most half of it, and exact on a multiple.
LEMMA RoundToError ==
  ASSUME NEW x \in Nat, NEW u \in Nat \ {0}
  PROVE  /\ RoundTo(x, u) \in Nat
         /\ 2 * u * RoundTo(x, u) - 2 * x <= u
         /\ 2 * x - 2 * u * RoundTo(x, u) <= u
<1> DEFINE a == 2 * x + u
           b == 2 * u
<1>1. a \in Nat /\ b \in Nat /\ b > 0
  OBVIOUS
<1> HIDE DEF a, b
<1>2. /\ a \div b \in Nat
      /\ b * (a \div b) <= a
      /\ a < b * (a \div b) + b
  BY <1>1
<1>3. RoundTo(x, u) = a \div b
  BY DEF RoundTo, a, b
<1> DEFINE q == a \div b
           m == b * q
<1>4. m \in Int /\ m <= 2 * x + u /\ 2 * x + u < m + 2 * u
  BY <1>1, <1>2 DEF a, b
<1>5. m = 2 * u * q
  BY DEF b
<1>6. q \in Nat
  BY <1>2
<1> HIDE DEF q, m
<1> QED
  BY <1>3, <1>4, <1>5, <1>6 DEF q

LEMMA RoundToExact ==
  ASSUME NEW k \in Nat, NEW u \in Nat \ {0}
  PROVE  RoundTo(k * u, u) = k
<1> DEFINE x == k * u
           r == RoundTo(x, u)
<1>1. x \in Nat
  OBVIOUS
<1> HIDE DEF x
<1>2. r \in Nat /\ 2 * u * r - 2 * x <= u /\ 2 * x - 2 * u * r <= u
  BY <1>1, RoundToError
<1> HIDE DEF r
<1>3. u * r - u * k <= u - 1 /\ u * k - u * r <= u - 1
  <2>1. x = u * k /\ u * k \in Nat /\ u * r \in Nat
    BY <1>2 DEF x
  <2>2. 2 * u * r = 2 * (u * r)
    BY <1>2
  <2> QED
    BY <1>2, <2>1, <2>2
<1>4. ~(r >= k + 1)
  <2>1. SUFFICES ASSUME r >= k + 1 PROVE FALSE
    OBVIOUS
  <2>2. u * r >= u * k + u
    BY <1>2, <2>1
  <2> QED
    BY <1>2, <1>3, <2>2
<1>5. ~(k >= r + 1)
  <2>1. SUFFICES ASSUME k >= r + 1 PROVE FALSE
    OBVIOUS
  <2>2. u * k >= u * r + u
    BY <1>2, <2>1
  <2> QED
    BY <1>2, <1>3, <2>2
<1> QED
  BY <1>2, <1>4, <1>5 DEF r, x

\* The quotient is the number whose multiple is the last at or below a.
LEMMA QuotientIs ==
  ASSUME NEW a \in Int, NEW b \in Nat \ {0}, NEW q \in Int, b * q <= a, a < b * q + b
  PROVE  a \div b = q
<1> DEFINE d == a \div b
<1>1. d \in Int /\ b * d <= a /\ a < b * d + b
  OBVIOUS
<1> HIDE DEF d
<1>2. ~(d >= q + 1)
  <2>1. SUFFICES ASSUME d >= q + 1 PROVE FALSE
    OBVIOUS
  <2>2. b * d >= b * q + b
    BY <1>1, <2>1
  <2> QED
    BY <1>1, <2>2
<1>3. ~(q >= d + 1)
  <2>1. SUFFICES ASSUME q >= d + 1 PROVE FALSE
    OBVIOUS
  <2>2. b * q >= b * d + b
    BY <1>1, <2>1
  <2> QED
    BY <1>1, <2>2
<1> QED
  BY <1>1, <1>2, <1>3 DEF d

\* A finer unit rounds the same.
LEMMA RoundToScaled ==
  ASSUME NEW x \in Nat, NEW u \in Nat \ {0}, NEW k \in Nat \ {0}
  PROVE  RoundTo(x * k, u * k) = RoundTo(x, u)
<1> DEFINE a == 2 * x + u
           b == 2 * u
           q == a \div b
<1>1. a \in Nat /\ b \in Nat \ {0}
  OBVIOUS
<1>2. 2 * (x * k) + u * k = a * k /\ 2 * (u * k) = b * k
  OBVIOUS
<1> HIDE DEF a, b
<1>3. q \in Nat /\ b * q <= a /\ a < b * q + b
  BY <1>1
<1> HIDE DEF q
<1>4. a * k \in Int /\ b * k \in Nat \ {0}
  BY <1>1
<1>5. (b * k) * q <= a * k /\ a * k < (b * k) * q + b * k
  <2> DEFINE m == b * q
  <2>1. m \in Nat /\ m <= a /\ a < m + b /\ (b * k) * q = m * k
    BY <1>1, <1>3
  <2> HIDE DEF m
  <2>2. m * k <= a * k
    BY <1>1, <2>1
  <2>3. a * k < m * k + b * k
    <3>1. a * k + k <= (m + b) * k
      <4>1. a + 1 <= m + b
        BY <1>1, <2>1
      <4>2. (a + 1) * k <= (m + b) * k
        BY <1>1, <2>1, <4>1
      <4> QED
        BY <1>1, <2>1, <4>2
    <3> QED
      BY <1>1, <2>1, <3>1
  <2> QED
    BY <2>1, <2>2, <2>3
<1>6. (a * k) \div (b * k) = q
  BY <1>3, <1>4, <1>5, QuotientIs
<1> QED
  BY <1>2, <1>6 DEF RoundTo, q, a, b

-----------------------------------------------------------------------------
(* The rows of a proposal that passes Validate *)

\* Its numbers are what their names say.
LEMMA ValidNumbers ==
  ASSUME NEW p, ProposalNumbers(p), Validate(p)
  PROVE  /\ p.rate \in Nat \ {0}
         /\ Len(p.lines) \in Nat /\ DOMAIN p.lines = 1 .. Len(p.lines)
         /\ IsFiniteSet(DOMAIN p.lines) /\ Cardinality(DOMAIN p.lines) = Len(p.lines)
         /\ \A i \in DOMAIN p.lines :
              /\ p.lines[i].debit \in BOOLEAN
              /\ p.lines[i].amt \in Nat \ {0}
              /\ ExactBase(p.lines[i], p.rate) \in Nat
<1>1. /\ p.rate \in Nat \ {0}
      /\ Len(p.lines) \in Nat /\ DOMAIN p.lines = 1 .. Len(p.lines)
      /\ \A i \in DOMAIN p.lines :
           p.lines[i].debit \in BOOLEAN /\ p.lines[i].amt \in Nat \ {0}
  BY DEF ProposalNumbers, Validate
<1>2. IsFiniteSet(1 .. Len(p.lines)) /\ Cardinality(1 .. Len(p.lines)) = Len(p.lines)
  BY <1>1, FS_Interval
<1>3. \A i \in DOMAIN p.lines : ExactBase(p.lines[i], p.rate) \in Nat
  BY <1>1 DEF ExactBase
<1> QED
  BY <1>1, <1>2, <1>3

\* The unit of an exact product, in cents.
Unit == AmtUnit * RateUnit

LEMMA UnitIsNat == Unit \in Nat \ {0}
BY UnitAssumption DEF Unit

\* A row holds its product, rounded, on its side and nothing on the other.
LEMMA RowSides ==
  ASSUME NEW p, ProposalNumbers(p), Validate(p), NEW i \in DOMAIN p.lines
  PROVE  LET l == p.lines[i]
             row == StoredLines(p)[i]
         IN  /\ row.debit = IF l.debit THEN StoredBase(l, p.rate) ELSE 0
             /\ row.credit = IF l.debit THEN 0 ELSE StoredBase(l, p.rate)
             /\ row.debit \in Nat /\ row.credit \in Nat
             /\ Exacts(p.lines, p.rate, TRUE)[i] =
                  IF l.debit THEN ExactBase(l, p.rate) ELSE 0
             /\ Exacts(p.lines, p.rate, FALSE)[i] =
                  IF l.debit THEN 0 ELSE ExactBase(l, p.rate)
<1>1. p.lines[i].debit \in BOOLEAN /\ ExactBase(p.lines[i], p.rate) \in Nat
  BY ValidNumbers
<1>2. StoredBase(p.lines[i], p.rate) \in Nat
  BY <1>1, UnitIsNat, RoundToError DEF StoredBase, Unit
<1> QED
  BY <1>1, <1>2 DEF StoredLines, StoredLine, Exacts

\* The totals of the rows, and those Validate compares, as sums over the lines.
LEMMA TotalsAreSums ==
  ASSUME NEW p, ProposalNumbers(p), Validate(p)
  PROVE  LET S == DOMAIN p.lines
             rows == StoredLines(p)
         IN  /\ DOMAIN rows = S /\ Len(rows) = Len(p.lines)
             /\ DebitTotal(rows) = SumFunctionOnSet(Debits(rows), S)
             /\ CreditTotal(rows) = SumFunctionOnSet(Credits(rows), S)
             /\ DebitTotal(rows) \in Int /\ CreditTotal(rows) \in Int
             /\ SumFunctionOnSet(Exacts(p.lines, p.rate, TRUE), S) =
                SumFunctionOnSet(Exacts(p.lines, p.rate, FALSE), S)
             /\ SumFunctionOnSet(Exacts(p.lines, p.rate, TRUE), S) \in Int
<1> DEFINE S == DOMAIN p.lines
           rows == StoredLines(p)
<1>1. DOMAIN rows = S /\ Len(rows) = Len(p.lines)
  BY ValidNumbers DEF StoredLines
<1>2. IsFiniteSet(S)
  BY ValidNumbers
<1>3. \A i \in S : rows[i].debit \in Int /\ rows[i].credit \in Int
  <2>1. SUFFICES ASSUME NEW i \in S
                 PROVE  rows[i].debit \in Int /\ rows[i].credit \in Int
    OBVIOUS
  <2>2. rows[i].debit \in Nat /\ rows[i].credit \in Nat
    BY RowSides
  <2> HIDE DEF rows
  <2> QED
    BY <2>2
<1> HIDE DEF rows
<1>4. DebitTotal(rows) = SumFunctionOnSet(Debits(rows), S)
  BY <1>1, <1>2, <1>3, DebitTotalIsSum
<1>5. CreditTotal(rows) = SumFunctionOnSet(Credits(rows), S)
  BY <1>1, <1>2, <1>3, CreditTotalIsSum
<1>6. DebitTotal(rows) \in Int /\ CreditTotal(rows) \in Int
  <2>1. \A i \in S : Debits(rows)[i] \in Int /\ Credits(rows)[i] \in Int
    BY <1>1, <1>3 DEF Debits, Credits
  <2> QED
    BY <1>2, <1>4, <1>5, <2>1, SumType
<1>7. \A i \in S : ExactBase(p.lines[i], p.rate) \in Int
  BY ValidNumbers
<1>8. /\ ExactTotal(p.lines, p.rate, TRUE) = SumFunctionOnSet(Exacts(p.lines, p.rate, TRUE), S)
      /\ ExactTotal(p.lines, p.rate, FALSE) = SumFunctionOnSet(Exacts(p.lines, p.rate, FALSE), S)
  BY <1>2, <1>7, ExactTotalIsSum
<1>9. ExactTotal(p.lines, p.rate, TRUE) = ExactTotal(p.lines, p.rate, FALSE)
  BY DEF Validate, ExactlyBalanced
<1>10. SumFunctionOnSet(Exacts(p.lines, p.rate, TRUE), S) \in Int
  <2>1. \A i \in S : Exacts(p.lines, p.rate, TRUE)[i] \in Int
    BY <1>7 DEF Exacts
  <2> QED
    BY <1>2, <2>1, SumType
<1> QED
  BY <1>1, <1>4, <1>5, <1>6, <1>8, <1>9, <1>10 DEF rows

\* What a row adds to debits less credits, scaled to the unit of the products,
\* and what its line adds before rounding.
Side(p) == [i \in DOMAIN p.lines |-> StoredLines(p)[i].debit - StoredLines(p)[i].credit]
ExactSide(p) ==
  [i \in DOMAIN p.lines |->
     Exacts(p.lines, p.rate, TRUE)[i] - Exacts(p.lines, p.rate, FALSE)[i]]
RoundingError(p) == [i \in DOMAIN p.lines |-> 2 * Unit * Side(p)[i] + (-2) * ExactSide(p)[i]]

\* The rounding errors of the lines add up to the imbalance of the rows, since
\* the products are balanced.
LEMMA ErrorsAddUp ==
  ASSUME NEW p, ProposalNumbers(p), Validate(p)
  PROVE  /\ \A i \in DOMAIN p.lines : RoundingError(p)[i] \in Int
         /\ SumFunctionOnSet(RoundingError(p), DOMAIN p.lines) =
              2 * Unit * (DebitTotal(StoredLines(p)) - CreditTotal(StoredLines(p)))
<1> DEFINE S == DOMAIN p.lines
           rows == StoredLines(p)
           D == DebitTotal(rows)
           C == CreditTotal(rows)
           X == Exacts(p.lines, p.rate, TRUE)
           Y == Exacts(p.lines, p.rate, FALSE)
<1>1. IsFiniteSet(S)
  BY ValidNumbers
<1>2. ASSUME NEW i \in S
      PROVE  /\ Debits(rows)[i] \in Int /\ Credits(rows)[i] \in Int
             /\ Side(p)[i] = Debits(rows)[i] - Credits(rows)[i]
             /\ X[i] \in Int /\ Y[i] \in Int
             /\ ExactSide(p)[i] = X[i] - Y[i]
  <2>1. /\ rows[i].debit \in Nat /\ rows[i].credit \in Nat
        /\ X[i] = IF p.lines[i].debit THEN ExactBase(p.lines[i], p.rate) ELSE 0
        /\ Y[i] = IF p.lines[i].debit THEN 0 ELSE ExactBase(p.lines[i], p.rate)
    BY RowSides
  <2>2. ExactBase(p.lines[i], p.rate) \in Nat
    BY ValidNumbers
  <2>3. X[i] \in Int /\ Y[i] \in Int
    <3> HIDE DEF X, Y
    <3> QED
      BY <2>1, <2>2
  <2>4. i \in DOMAIN rows
    BY TotalsAreSums
  <2>5. Debits(rows)[i] = rows[i].debit /\ Credits(rows)[i] = rows[i].credit
    BY <2>4 DEF Debits, Credits
  <2>6. Side(p)[i] = rows[i].debit - rows[i].credit /\ ExactSide(p)[i] = X[i] - Y[i]
    BY DEF Side, ExactSide
  <2> HIDE DEF rows, X, Y
  <2> QED
    BY <2>1, <2>3, <2>5, <2>6
<1>3. /\ D = SumFunctionOnSet(Debits(rows), S) /\ C = SumFunctionOnSet(Credits(rows), S)
      /\ D \in Int /\ C \in Int
      /\ SumFunctionOnSet(X, S) = SumFunctionOnSet(Y, S) /\ SumFunctionOnSet(X, S) \in Int
  BY TotalsAreSums
<1> HIDE DEF rows, X, Y, D, C
<1>4. SumFunctionOnSet(Side(p), S) = D - C
  BY <1>1, <1>2, <1>3, SumDifference
<1>5. SumFunctionOnSet(ExactSide(p), S) = 0
  <2>1. SumFunctionOnSet(ExactSide(p), S) = SumFunctionOnSet(X, S) - SumFunctionOnSet(Y, S)
    BY <1>1, <1>2, SumDifference
  <2> QED
    BY <1>3, <2>1
<1>6. 2 * Unit \in Int /\ -2 \in Int
  BY UnitIsNat
<1>7. \A i \in S : /\ Side(p)[i] \in Int /\ ExactSide(p)[i] \in Int
                   /\ RoundingError(p)[i] = (2 * Unit) * Side(p)[i] + (-2) * ExactSide(p)[i]
  BY <1>2 DEF RoundingError
<1>8. SumFunctionOnSet(RoundingError(p), S) =
        (2 * Unit) * SumFunctionOnSet(Side(p), S) + (-2) * SumFunctionOnSet(ExactSide(p), S)
  BY <1>1, <1>6, <1>7, SumLinear
<1>9. \A i \in S : RoundingError(p)[i] \in Int
  BY <1>6, <1>7
<1>10. SumFunctionOnSet(RoundingError(p), S) = 2 * Unit * (D - C)
  BY <1>3, <1>4, <1>5, <1>6, <1>8
<1> QED
  BY <1>9, <1>10 DEF D, C, rows

\* A line is off by at most half a cent.
LEMMA ErrorBound ==
  ASSUME NEW p, ProposalNumbers(p), Validate(p), NEW i \in DOMAIN p.lines
  PROVE  RoundingError(p)[i] <= Unit /\ -Unit <= RoundingError(p)[i]
<1> DEFINE x == ExactBase(p.lines[i], p.rate)
           r == RoundTo(x, Unit)
           row == StoredLines(p)[i]
<1>1. x \in Nat /\ p.lines[i].debit \in BOOLEAN
  BY ValidNumbers
<1>2. r \in Nat /\ 2 * Unit * r - 2 * x <= Unit /\ 2 * x - 2 * Unit * r <= Unit
  BY <1>1, UnitIsNat, RoundToError
<1>3. /\ row.debit = IF p.lines[i].debit THEN r ELSE 0
      /\ row.credit = IF p.lines[i].debit THEN 0 ELSE r
      /\ Exacts(p.lines, p.rate, TRUE)[i] = IF p.lines[i].debit THEN x ELSE 0
      /\ Exacts(p.lines, p.rate, FALSE)[i] = IF p.lines[i].debit THEN 0 ELSE x
  BY RowSides DEF StoredBase, Unit
<1>4. RoundingError(p)[i] = 2 * Unit * (row.debit - row.credit)
        + (-2) * (Exacts(p.lines, p.rate, TRUE)[i] - Exacts(p.lines, p.rate, FALSE)[i])
  BY DEF RoundingError, Side, ExactSide
<1> HIDE DEF x, r, row
<1>5. CASE p.lines[i].debit = TRUE
  <2>1. RoundingError(p)[i] = 2 * Unit * (r - 0) + (-2) * (x - 0)
    BY <1>3, <1>4, <1>5
  <2> QED
    BY <1>1, <1>2, <2>1, UnitIsNat
<1>6. CASE p.lines[i].debit = FALSE
  <2>1. RoundingError(p)[i] = 2 * Unit * (0 - r) + (-2) * (0 - x)
    BY <1>3, <1>4, <1>6
  <2>2. 2 * Unit * (0 - r) = -(2 * Unit * r)
    BY <1>2, UnitIsNat
  <2> QED
    BY <1>1, <1>2, <2>1, <2>2, UnitIsNat
<1> QED
  BY <1>1, <1>5, <1>6

\* The rows are out of balance by at most half a cent per line.
THEOREM RowsAlmostBalance ==
  ASSUME NEW p, ProposalNumbers(p), Validate(p)
  PROVE  LET rows == StoredLines(p)
         IN  /\ DebitTotal(rows) \in Int /\ CreditTotal(rows) \in Int
             /\ Len(rows) = Len(p.lines)
             /\ 2 * (DebitTotal(rows) - CreditTotal(rows)) <= Len(rows)
             /\ 2 * (CreditTotal(rows) - DebitTotal(rows)) <= Len(rows)
<1> DEFINE S == DOMAIN p.lines
           n == Len(p.lines)
           D == DebitTotal(StoredLines(p))
           C == CreditTotal(StoredLines(p))
           err == RoundingError(p)
<1>1. IsFiniteSet(S) /\ Cardinality(S) = n /\ n \in Nat
  BY ValidNumbers
<1>2. D \in Int /\ C \in Int /\ Len(StoredLines(p)) = n
  BY TotalsAreSums
<1>3. /\ \A i \in S : err[i] \in Int /\ err[i] <= Unit /\ -Unit <= err[i]
      /\ SumFunctionOnSet(err, S) = 2 * Unit * (D - C)
  BY ErrorsAddUp, ErrorBound
<1>4. Unit \in Int /\ -Unit \in Int
  BY UnitIsNat
<1> HIDE DEF S, D, C, err
<1>5. /\ SumFunctionOnSet(err, S) <= Unit * Cardinality(S)
      /\ (-Unit) * Cardinality(S) <= SumFunctionOnSet(err, S)
  BY <1>1, <1>3, <1>4, SumBound, SumLowerBound
<1> HIDE DEF n
<1>6. 2 * Unit * (D - C) <= Unit * n /\ 2 * Unit * (C - D) <= Unit * n
  <2>1. 2 * Unit * (C - D) = -(2 * Unit * (D - C)) /\ (-Unit) * n = -(Unit * n)
    BY <1>1, <1>2, UnitIsNat
  <2>2. 2 * Unit * (D - C) \in Int /\ Unit * n \in Int
    BY <1>1, <1>2, UnitIsNat
  <2> QED
    BY <1>1, <1>3, <1>5, <2>1, <2>2
<1>7. \A u \in Nat \ {0}, a \in Int, b \in Int : 2 * u * a <= u * b => 2 * a <= b
  <2>1. SUFFICES ASSUME NEW u \in Nat \ {0}, NEW a \in Int, NEW b \in Int, 2 * a >= b + 1
                 PROVE  2 * u * a > u * b
    OBVIOUS
  <2>2. u * (2 * a) >= u * (b + 1)
    BY <2>1
  <2>3. u * (2 * a) = 2 * u * a /\ u * (b + 1) = u * b + u
    OBVIOUS
  <2> QED
    BY <2>2, <2>3
<1>8. 2 * (D - C) <= n /\ 2 * (C - D) <= n
  BY <1>1, <1>2, <1>6, <1>7, UnitIsNat
<1> QED
  BY <1>2, <1>8 DEF D, C, n

\* Every product is a whole number of cents.
WholeCents(p) ==
  \A i \in DOMAIN p.lines : \E k \in Nat : ExactBase(p.lines[i], p.rate) = k * Unit

\* The rows balance when every product is whole cents.
THEOREM WholeCentsBalance ==
  ASSUME NEW p, ProposalNumbers(p), Validate(p),
         WholeCents(p)
  PROVE  DebitTotal(StoredLines(p)) = CreditTotal(StoredLines(p))
<1> DEFINE S == DOMAIN p.lines
           D == DebitTotal(StoredLines(p))
           C == CreditTotal(StoredLines(p))
<1>1. ASSUME NEW i \in S
      PROVE  RoundingError(p)[i] = 0
  <2> DEFINE x == ExactBase(p.lines[i], p.rate)
             r == RoundTo(x, Unit)
             row == StoredLines(p)[i]
  <2>1. x \in Nat /\ p.lines[i].debit \in BOOLEAN
    BY ValidNumbers
  <2>2. r \in Nat /\ Unit * r = x
    <3>1. PICK k \in Nat : x = k * Unit
      BY DEF WholeCents
    <3> HIDE DEF x
    <3>2. RoundTo(k * Unit, Unit) = k
      BY UnitIsNat, RoundToExact
    <3> QED
      BY <3>1, <3>2, UnitIsNat
  <2>3. /\ row.debit = IF p.lines[i].debit THEN r ELSE 0
        /\ row.credit = IF p.lines[i].debit THEN 0 ELSE r
        /\ Exacts(p.lines, p.rate, TRUE)[i] = IF p.lines[i].debit THEN x ELSE 0
        /\ Exacts(p.lines, p.rate, FALSE)[i] = IF p.lines[i].debit THEN 0 ELSE x
    BY RowSides DEF StoredBase, Unit
  <2>4. RoundingError(p)[i] = 2 * Unit * (row.debit - row.credit)
          + (-2) * (Exacts(p.lines, p.rate, TRUE)[i] - Exacts(p.lines, p.rate, FALSE)[i])
    BY DEF RoundingError, Side, ExactSide
  <2> HIDE DEF x, r, row
  <2>5. CASE p.lines[i].debit = TRUE
    <3>1. RoundingError(p)[i] = 2 * Unit * (r - 0) + (-2) * (x - 0)
      BY <2>3, <2>4, <2>5
    <3>2. 2 * Unit * (r - 0) = 2 * (Unit * r)
      BY <2>2, UnitIsNat
    <3> QED
      BY <2>1, <2>2, <3>1, <3>2
  <2>6. CASE p.lines[i].debit = FALSE
    <3>1. RoundingError(p)[i] = 2 * Unit * (0 - r) + (-2) * (0 - x)
      BY <2>3, <2>4, <2>6
    <3>2. 2 * Unit * (0 - r) = -(2 * (Unit * r))
      BY <2>2, UnitIsNat
    <3> QED
      BY <2>1, <2>2, <3>1, <3>2
  <2> QED
    BY <2>1, <2>5, <2>6
<1>2. SumFunctionOnSet(RoundingError(p), S) = 0
  BY <1>1, ValidNumbers, SumZero
<1>3. SumFunctionOnSet(RoundingError(p), S) = 2 * Unit * (D - C)
  BY ErrorsAddUp
<1>4. D \in Int /\ C \in Int
  BY TotalsAreSums
<1> HIDE DEF S, D, C
<1>5. \A u \in Nat \ {0}, d \in Int : 2 * u * d = 0 => d = 0
  OBVIOUS
<1>6. D - C = 0
  BY <1>2, <1>3, <1>4, <1>5, UnitIsNat
<1> QED
  BY <1>4, <1>6 DEF D, C

\* The two rows of a transfer balance, whatever is rounded: one line is a
\* debit, the other a credit, of the same product.
THEOREM TransfersBalance ==
  ASSUME NEW p, ProposalNumbers(p), Validate(p), Len(p.lines) = 2
  PROVE  DebitTotal(StoredLines(p)) = CreditTotal(StoredLines(p))
<1> DEFINE rows == StoredLines(p)
           X == Exacts(p.lines, p.rate, TRUE)
           Y == Exacts(p.lines, p.rate, FALSE)
           e(i) == ExactBase(p.lines[i], p.rate)
           s(i) == StoredBase(p.lines[i], p.rate)
<1>1. DOMAIN p.lines = 1 .. 2 /\ DOMAIN rows = 1 .. 2 /\ 1 \in 1 .. 2 /\ 2 \in 1 .. 2
  <2>1. DOMAIN p.lines = 1 .. 2
    BY DEF ProposalNumbers
  <2>2. DOMAIN rows = DOMAIN p.lines
    BY DEF StoredLines
  <2> QED
    BY <2>1, <2>2
<1>2. ASSUME NEW i \in 1 .. 2
      PROVE  /\ p.lines[i].debit \in BOOLEAN
             /\ e(i) \in Nat \ {0}
             /\ X[i] = IF p.lines[i].debit THEN e(i) ELSE 0
             /\ Y[i] = IF p.lines[i].debit THEN 0 ELSE e(i)
             /\ Debits(rows)[i] = IF p.lines[i].debit THEN s(i) ELSE 0
             /\ Credits(rows)[i] = IF p.lines[i].debit THEN 0 ELSE s(i)
             /\ Debits(rows)[i] \in Int /\ Credits(rows)[i] \in Int
  <2>1. p.lines[i].debit \in BOOLEAN /\ p.lines[i].amt \in Nat \ {0} /\ p.rate \in Nat \ {0}
    BY <1>1, ValidNumbers
  <2>2. e(i) \in Nat \ {0}
    BY <2>1 DEF ExactBase
  <2>3. Debits(rows)[i] = rows[i].debit /\ Credits(rows)[i] = rows[i].credit
    BY <1>1 DEF Debits, Credits
  <2>4. /\ rows[i].debit = IF p.lines[i].debit THEN s(i) ELSE 0
        /\ rows[i].credit = IF p.lines[i].debit THEN 0 ELSE s(i)
        /\ rows[i].debit \in Nat /\ rows[i].credit \in Nat
        /\ X[i] = IF p.lines[i].debit THEN e(i) ELSE 0
        /\ Y[i] = IF p.lines[i].debit THEN 0 ELSE e(i)
    BY <1>1, RowSides
  <2> HIDE DEF rows, X, Y, e, s
  <2> QED
    BY <2>1, <2>2, <2>3, <2>4
<1>3. /\ DebitTotal(rows) = SumFunctionOnSet(Debits(rows), 1 .. 2)
      /\ CreditTotal(rows) = SumFunctionOnSet(Credits(rows), 1 .. 2)
      /\ SumFunctionOnSet(X, 1 .. 2) = SumFunctionOnSet(Y, 1 .. 2)
  BY <1>1, TotalsAreSums
<1>4. e(1) = e(2) => s(1) = s(2)
  BY DEF StoredBase
<1> HIDE DEF rows, X, Y, e, s
<1>5. X[1] \in Int /\ X[2] \in Int /\ Y[1] \in Int /\ Y[2] \in Int
  BY <1>1, <1>2
<1>6. X[1] + X[2] = Y[1] + Y[2]
  BY <1>3, <1>5, SumOfTwo
<1>7. /\ DebitTotal(rows) = Debits(rows)[1] + Debits(rows)[2]
      /\ CreditTotal(rows) = Credits(rows)[1] + Credits(rows)[2]
  BY <1>1, <1>2, <1>3, SumOfTwo
<1>8. p.lines[1].debit # p.lines[2].debit /\ e(1) = e(2)
  BY <1>1, <1>2, <1>6
<1>9. Debits(rows)[1] + Debits(rows)[2] = Credits(rows)[1] + Credits(rows)[2]
  BY <1>1, <1>2, <1>4, <1>8
<1> QED
  BY <1>7, <1>9 DEF rows

\* Normalize makes numbers of what it fills in.
LEMMA NormalizeNumbers ==
  ASSUME NEW p, ProposalNumbers(p), {"rate", "docDate", "lines"} \subseteq DOMAIN p,
         \A i \in DOMAIN p.lines : {"debit", "amt"} \subseteq DOMAIN p.lines[i]
  PROVE  ProposalNumbers(Normalize(p))
<1> DEFINE norm == Normalize(p)
           line(i) == [p.lines[i] EXCEPT !.amt = NormalAmount(p.lines[i].amt)]
           lines == [i \in DOMAIN p.lines |-> line(i)]
<1>1. norm.rate = NormalRate(p.rate) /\ norm.lines = lines
  BY DEF Normalize
<1>2. NormalRate(p.rate) \in Int \cup {Blank, Malformed, OtherZero}
  BY UnitAssumption DEF ProposalNumbers, NormalRate
<1>3. ASSUME NEW i \in DOMAIN p.lines
      PROVE  line(i).debit \in BOOLEAN /\ line(i).amt \in Int \cup {Blank, Malformed}
  <2>1. p.lines[i].debit \in BOOLEAN /\ p.lines[i].amt \in Int \cup {Blank, Malformed}
    BY DEF ProposalNumbers
  <2>2. line(i).amt = NormalAmount(p.lines[i].amt)
    OBVIOUS
  <2>3. "debit" \in DOMAIN p.lines[i] => line(i).debit = p.lines[i].debit
    OBVIOUS
  <2> QED
    BY <2>1, <2>2, <2>3 DEF NormalAmount
<1>4. DOMAIN lines = 1 .. Len(p.lines) /\ Len(p.lines) \in Nat
  BY DEF ProposalNumbers
<1>5. \A i \in DOMAIN lines : lines[i] = line(i)
  OBVIOUS
<1> HIDE DEF norm, line, lines
<1>6. Len(lines) = Len(p.lines)
  BY <1>4
<1> QED
  BY <1>1, <1>2, <1>3, <1>4, <1>5, <1>6 DEF ProposalNumbers, norm
=============================================================================
