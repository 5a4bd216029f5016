------------------------------ MODULE FoldLemmas ------------------------------
(***************************************************************************)
(* Facts about MapThenFoldSet of the community modules, which FoldLeft and *)
(* SumFunctionOnSet are defined with.  The operator that is folded is a    *)
(* constant of this module, for an INSTANCE to give.  That a set is finite *)
(* is put here as what is needed of it, that its subsets can be counted    *)
(* (Counted): each INSTANCE repeats what this module extends.              *)
(***************************************************************************)
EXTENDS Integers, Sequences, Folds, WellFoundedInduction, TLAPS

CONSTANTS
  Op(_, _),   \* what is folded
  Base,       \* the fold of nothing
  Choice(_)   \* the element of a set that is folded last

FoldFrom(base, f, S) == MapThenFoldSet(Op, base, LAMBDA i : f[i], Choice, S)

Fold(f, S) == FoldFrom(Base, f, S)

-----------------------------------------------------------------------------
(* Natural numbers *)

\* A set of natural numbers has a least member.
LEMMA LeastMember ==
  ASSUME NEW S \in SUBSET Nat, S # {}
  PROVE  \E m \in S : \A n \in S : m <= n
<1>1. PICK m \in S : \A n \in S : <<n, m>> \notin OpToRel(<, Nat)
  BY NatLessThanWellFounded, WFMin
<1>2. ASSUME NEW n \in S, n < m PROVE FALSE
  <2>1. <<n, m>> \in Nat \X Nat /\ <<n, m>>[1] < <<n, m>>[2]
    BY <1>2
  <2>2. <<n, m>> \in OpToRel(<, Nat)
    BY <2>1, Zenon DEF OpToRel
  <2>3. QED
    BY <1>1, <2>2
<1>3. QED
  BY <1>2

\* Induction, over a set: what holds of 0 and of the successors holds of all.
LEMMA SetInduction ==
  ASSUME NEW T, 0 \in T, \A n \in Nat : n \in T => n + 1 \in T
  PROVE  \A n \in Nat : n \in T
<1>1. SUFFICES ASSUME Nat \ T # {} PROVE FALSE
  OBVIOUS
<1>2. PICK m \in Nat \ T : \A n \in Nat \ T : m <= n
  BY <1>1, LeastMember
<1>3. m # 0 /\ m - 1 \in Nat /\ m - 1 \in T
  BY <1>2
<1>4. QED
  BY <1>2, <1>3

\* A set of natural numbers that has a bound has a greatest member.
LEMMA GreatestMember ==
  ASSUME NEW S \in SUBSET Nat, S # {}, NEW b \in Nat, \A n \in S : n <= b
  PROVE  \E m \in S : \A n \in S : n <= m
<1> DEFINE Bounds == {k \in Nat : \A n \in S : n <= k}
<1>1. PICK m \in Bounds : \A k \in Bounds : m <= k
  BY LeastMember
<1>2. CASE m \in S
  BY <1>1, <1>2
<1>3. CASE m \notin S
  <2>1. m # 0
    <3>1. PICK n \in S : n <= m
      BY <1>1
    <3>2. n \in Nat /\ n # m
      BY <1>3
    <3>3. QED
      BY <3>1, <3>2
  <2>2. m - 1 \in Nat /\ \A n \in S : n <= m - 1
    BY <1>1, <1>3, <2>1
  <2>3. QED
    BY <1>1, <2>2
<1>4. QED
  BY <1>2, <1>3

-----------------------------------------------------------------------------
(* Folds over finite sets *)

Chooses(S) == \A T \in SUBSET S : T # {} => Choice(T) \in T

\* The number of a set is greater than that of any part of it.
Counts(size, S) ==
  \A T \in SUBSET S : size[T] \in Nat /\ \A U \in SUBSET T : U # T => size[U] < size[T]

Counted(S) == \E size : Counts(size, S)

\* g is the fold of f, from base, on the sets in D.
Solves(g, base, f, D) ==
  g = [T \in D |-> IF T = {} THEN base ELSE Op(f[Choice(T)], g[T \ {Choice(T)}])]

Small(size, S, k) == {T \in SUBSET S : size[T] <= k}

\* Subsets by their size.
LEMMA SmallSets ==
  ASSUME NEW S, NEW size, Counts(size, S), NEW k \in Nat
  PROVE  /\ Small(size, S, k) \subseteq Small(size, S, k + 1)
         /\ \A T \in Small(size, S, 0) : T = {}
         /\ \A T \in Small(size, S, k + 1) : \A x \in T : T \ {x} \in Small(size, S, k)
         /\ size[S] \in Nat /\ Small(size, S, size[S]) = SUBSET S
<1>1. \A T \in SUBSET S : size[T] \in Nat
  BY DEF Counts
<1>2. \A T \in SUBSET S : \A x \in T : /\ size[T \ {x}] \in Nat /\ size[T \ {x}] < size[T]
                                     /\ T \ {x} \in SUBSET S
  <2>1. \A T \in SUBSET S : \A x \in T : T \ {x} \in SUBSET T /\ T \ {x} # T
    OBVIOUS
  <2>2. QED
    BY <1>1, <2>1 DEF Counts
<1>3. Small(size, S, k) \subseteq Small(size, S, k + 1)
  BY <1>1 DEF Small
<1>4. \A T \in Small(size, S, 0) : T = {}
  <2>1. ASSUME NEW T \in SUBSET S, size[T] <= 0, NEW x \in T PROVE FALSE
    <3>1. size[T] \in Nat /\ size[T \ {x}] \in Nat /\ size[T \ {x}] < size[T]
      BY <1>1, <1>2
    <3>2. QED
      BY <2>1, <3>1
  <2>2. QED
    BY <2>1 DEF Small
<1>5. \A T \in Small(size, S, k + 1) : \A x \in T : T \ {x} \in Small(size, S, k)
  <2>1. ASSUME NEW T \in SUBSET S, size[T] <= k + 1, NEW x \in T
        PROVE  T \ {x} \in SUBSET S /\ size[T \ {x}] <= k
    <3>1. size[T] \in Nat /\ size[T \ {x}] \in Nat /\ size[T \ {x}] < size[T]
      BY <1>1, <1>2
    <3>2. QED
      BY <2>1, <3>1
  <2>2. QED
    BY <2>1 DEF Small
<1>6. size[S] \in Nat /\ \A T \in SUBSET S : size[T] <= size[S]
  BY <1>1 DEF Counts
<1>7. QED
  BY <1>3, <1>4, <1>5, <1>6 DEF Small

\* A part of a set can be counted as the set can, and chosen from.
LEMMA CountedParts ==
  ASSUME NEW S, Chooses(S), NEW U \in SUBSET S
  PROVE  /\ Chooses(U)
         /\ \A size : Counts(size, S) => Counts(size, U)
         /\ Counted(S) => Counted(U)
BY DEF Chooses, Counts, Counted

\* The recursion has a solution.
LEMMA SolutionExists ==
  ASSUME NEW S, Counted(S), Chooses(S), NEW base, NEW f
  PROVE  \E g : Solves(g, base, f, SUBSET S)
<1>0. PICK size : Counts(size, S)
  BY DEF Counted
<1> DEFINE Sets(k) == Small(size, S, k)
           K == {k \in Nat : \E g : Solves(g, base, f, Sets(k))}
<1>1. 0 \in K
  <2>1. Solves([T \in Sets(0) |-> base], base, f, Sets(0))
    BY <1>0, SmallSets DEF Solves
  <2>2. QED
    BY <2>1
<1>2. ASSUME NEW k \in Nat, k \in K PROVE k + 1 \in K
  <2>1. PICK g : Solves(g, base, f, Sets(k))
    BY <1>2
  <2> DEFINE h == [T \in Sets(k + 1) |->
                     IF T = {} THEN base ELSE Op(f[Choice(T)], g[T \ {Choice(T)}])]
  <2>2. \A T \in Sets(k) : T \in Sets(k + 1) /\ h[T] = g[T]
    BY <1>0, <2>1, SmallSets DEF Solves
  <2>3. \A T \in Sets(k + 1) : T # {} => h[T \ {Choice(T)}] = g[T \ {Choice(T)}]
    <3>1. \A T \in Sets(k + 1) : T # {} => T \ {Choice(T)} \in Sets(k)
      <4>1. \A T \in Sets(k + 1) : \A x \in T : T \ {x} \in Sets(k)
        BY <1>0, SmallSets
      <4>2. \A T \in Sets(k + 1) : T # {} => Choice(T) \in T
        BY DEF Small, Chooses
      <4> HIDE DEF Sets
      <4>3. QED
        BY <4>1, <4>2
    <3> HIDE DEF Sets, h
    <3>2. QED
      BY <2>2, <3>1
  <2>4. h = [T \in Sets(k + 1) |->
               IF T = {} THEN base ELSE Op(f[Choice(T)], h[T \ {Choice(T)}])]
    BY <2>3
  <2>5. Solves(h, base, f, Sets(k + 1))
    BY <2>4 DEF Solves
  <2>6. k + 1 \in Nat
    OBVIOUS
  <2> HIDE DEF h
  <2>7. QED
    BY <2>5, <2>6
<1>3. size[S] \in K
  <2>1. \A n \in Nat : n \in K
    <3> HIDE DEF K
    <3>1. QED
      BY <1>1, <1>2, SetInduction
  <2>2. QED
    BY <1>0, <2>1, SmallSets
<1>4. Sets(size[S]) = SUBSET S
  BY <1>0, SmallSets
<1>5. QED
  BY <1>3, <1>4

\* Two functions agree on a set.
AlikeOn(U, f, e) == \A x \in U : f[x] = e[x]

\* It has only one, and that depends on the elements alone that are folded.
LEMMA SolutionUnique ==
  ASSUME NEW S, Counted(S), Chooses(S), NEW U \in SUBSET S,
         NEW base, NEW f, NEW g, Solves(g, base, f, SUBSET S),
         NEW e, NEW h, Solves(h, base, e, SUBSET U),
         AlikeOn(U, f, e)
  PROVE  g[U] = h[U]
<1>0. PICK size : Counts(size, U)
  BY CountedParts DEF Counted
<1>1. Chooses(U)
  BY CountedParts
<1> DEFINE Sets(k) == Small(size, U, k)
           K == {k \in Nat : \A T \in Sets(k) : g[T] = h[T]}
<1>2. 0 \in K
  <2>1. \A T \in Sets(0) : T = {}
    BY <1>0, SmallSets
  <2>2. g[{}] = base /\ h[{}] = base
    BY DEF Solves
  <2> HIDE DEF Sets
  <2>3. QED
    BY <2>1, <2>2
<1>3. ASSUME NEW k \in Nat, k \in K PROVE k + 1 \in K
  <2>1. ASSUME NEW T \in Sets(k + 1) PROVE g[T] = h[T]
    <3>1. T \in SUBSET U /\ T \in SUBSET S
      BY DEF Small
    <3>2. CASE T = {}
      BY <3>1, <3>2 DEF Solves
    <3>3. CASE T # {}
      <4>1. T \ {Choice(T)} \in Sets(k) /\ Choice(T) \in U
        BY <1>0, <1>1, <3>1, <3>3, SmallSets DEF Chooses
      <4>2. g[T \ {Choice(T)}] = h[T \ {Choice(T)}] /\ f[Choice(T)] = e[Choice(T)]
        BY <1>3, <4>1 DEF AlikeOn
      <4>3. /\ g[T] = Op(f[Choice(T)], g[T \ {Choice(T)}])
            /\ h[T] = Op(e[Choice(T)], h[T \ {Choice(T)}])
        BY <3>1, <3>3 DEF Solves
      <4>4. QED
        BY <4>2, <4>3
    <3>4. QED
      BY <3>2, <3>3
  <2>2. QED
    BY <2>1
<1>4. \A n \in Nat : n \in K
  <2> HIDE DEF K
  <2>1. QED
    BY <1>2, <1>3, SetInduction
<1>5. size[U] \in K /\ U \in Sets(size[U])
  BY <1>0, <1>4, SmallSets
<1>6. QED
  BY <1>5

\* What MapThenFoldSet chooses is the solution.
LEMMA FoldIsSolution ==
  ASSUME NEW S, Counted(S), Chooses(S), NEW base, NEW f
  PROVE  \E g : Solves(g, base, f, SUBSET S) /\ FoldFrom(base, f, S) = g[S]
<1> DEFINE it == CHOOSE g : g = [T \in SUBSET S |->
                   IF T = {} THEN base ELSE Op(f[Choice(T)], g[T \ {Choice(T)}])]
<1>1. \E g : g = [T \in SUBSET S |->
                   IF T = {} THEN base ELSE Op(f[Choice(T)], g[T \ {Choice(T)}])]
  <2>1. PICK g : Solves(g, base, f, SUBSET S)
    BY SolutionExists
  <2>2. g = [T \in SUBSET S |->
               IF T = {} THEN base ELSE Op(f[Choice(T)], g[T \ {Choice(T)}])]
    BY <2>1 DEF Solves
  <2>3. QED
    BY <2>2, Zenon
<1>2. it = [T \in SUBSET S |->
              IF T = {} THEN base ELSE Op(f[Choice(T)], it[T \ {Choice(T)}])]
  BY <1>1, Zenon
<1>3. FoldFrom(base, f, S) = it[S]
  BY DEF FoldFrom, MapThenFoldSet
<1> HIDE DEF it
<1>4. QED
  BY <1>2, <1>3 DEF Solves

\* The fold of nothing, and that of a set from that of the rest.
LEMMA FoldFromStep ==
  ASSUME NEW S, Counted(S), Chooses(S), NEW base, NEW f
  PROVE  FoldFrom(base, f, S) = IF S = {} THEN base
                      ELSE Op(f[Choice(S)], FoldFrom(base, f, S \ {Choice(S)}))
<1>1. PICK g : Solves(g, base, f, SUBSET S) /\ FoldFrom(base, f, S) = g[S]
  BY FoldIsSolution
<1>2. g[S] = IF S = {} THEN base ELSE Op(f[Choice(S)], g[S \ {Choice(S)}])
  BY <1>1 DEF Solves
<1>3. ASSUME S # {} PROVE g[S \ {Choice(S)}] = FoldFrom(base, f, S \ {Choice(S)})
  <2> DEFINE U == S \ {Choice(S)}
  <2>1. U \in SUBSET S /\ Counted(U) /\ Chooses(U)
    BY CountedParts
  <2>2. PICK h : Solves(h, base, f, SUBSET U) /\ FoldFrom(base, f, U) = h[U]
    BY <2>1, FoldIsSolution
  <2>3. g[U] = h[U]
    <3>1. /\ U \in SUBSET S /\ Solves(g, base, f, SUBSET S) /\ Solves(h, base, f, SUBSET U)
          /\ AlikeOn(U, f, f)
      BY <1>1, <2>1, <2>2 DEF AlikeOn
    <3> HIDE DEF U
    <3>2. QED
      BY <3>1, SolutionUnique
  <2>4. QED
    BY <2>2, <2>3
<1>4. QED
  BY <1>1, <1>2, <1>3

\* A fold depends on the values on the set alone.
LEMMA FoldFromSame ==
  ASSUME NEW S, Counted(S), Chooses(S), NEW base, NEW f, NEW e, \A x \in S : f[x] = e[x]
  PROVE  FoldFrom(base, f, S) = FoldFrom(base, e, S)
<1>1. PICK g : Solves(g, base, f, SUBSET S) /\ FoldFrom(base, f, S) = g[S]
  BY FoldIsSolution
<1>2. PICK h : Solves(h, base, e, SUBSET S) /\ FoldFrom(base, e, S) = h[S]
  BY FoldIsSolution
<1>3. g[S] = h[S]
  <2>1. S \in SUBSET S /\ AlikeOn(S, f, e)
    BY DEF AlikeOn
  <2>2. QED
    BY <1>1, <1>2, <2>1, SolutionUnique
<1>4. QED
  BY <1>1, <1>2, <1>3

\* A fold is that of the set without the element chosen, and of this one last.
THEOREM FoldStep ==
  ASSUME NEW S, Counted(S), Chooses(S), NEW f
  PROVE  Fold(f, S) = IF S = {} THEN Base
                      ELSE Op(f[Choice(S)], Fold(f, S \ {Choice(S)}))
BY FoldFromStep DEF Fold

\* A fold depends on what is folded of the members only.
THEOREM FoldSame ==
  ASSUME NEW S, Counted(S), Chooses(S), NEW f, NEW e, \A x \in S : f[x] = e[x]
  PROVE  Fold(f, S) = Fold(e, S)
BY FoldFromSame DEF Fold

\* A fold stays in a set that the operator keeps.
THEOREM FoldType ==
  ASSUME NEW S, Counted(S), Chooses(S), NEW f, NEW T, Base \in T,
         \A x \in S : f[x] \in T, \A t, u \in T : Op(t, u) \in T
  PROVE  Fold(f, S) \in T
<1>0. PICK size : Counts(size, S)
  BY DEF Counted
<1> DEFINE Sets(k) == Small(size, S, k)
           K == {k \in Nat : \A U \in Sets(k) : Fold(f, U) \in T}
<1>1. 0 \in K
  <2>1. \A U \in Sets(0) : U = {}
    BY <1>0, SmallSets
  <2>2. Fold(f, {}) = Base
    BY CountedParts, FoldStep
  <2> HIDE DEF Sets
  <2>3. QED
    BY <2>1, <2>2
<1>2. ASSUME NEW k \in Nat, k \in K PROVE k + 1 \in K
  <2>1. ASSUME NEW U \in Sets(k + 1) PROVE Fold(f, U) \in T
    <3>1. Counted(U) /\ Chooses(U) /\ U \subseteq S
      BY CountedParts DEF Small
    <3>2. CASE U = {}
      BY <3>1, <3>2, FoldStep
    <3>3. CASE U # {}
      <4>1. U \ {Choice(U)} \in Sets(k) /\ Choice(U) \in S
        BY <1>0, <3>1, <3>3, SmallSets DEF Chooses
      <4>2. Fold(f, U \ {Choice(U)}) \in T
        BY <1>2, <4>1
      <4>3. QED
        BY <3>1, <3>3, <4>1, <4>2, FoldStep
    <3>4. QED
      BY <3>2, <3>3
  <2>2. QED
    BY <2>1
<1>3. \A n \in Nat : n \in K
  <2> HIDE DEF K
  <2>1. QED
    BY <1>1, <1>2, SetInduction
<1>4. size[S] \in K /\ S \in Sets(size[S])
  BY <1>0, <1>3, SmallSets
<1>5. QED
  BY <1>4

\* Where the operator is associative and commutative, any element may be the last.
THEOREM FoldAnyOrder ==
  ASSUME NEW S, Counted(S), Chooses(S), NEW f, NEW T, Base \in T,
         \A x \in S : f[x] \in T, \A t, u \in T : Op(t, u) \in T,
         \A t, u \in T : Op(t, u) = Op(u, t),
         \A t, u, v \in T : Op(t, Op(u, v)) = Op(Op(t, u), v),
         NEW x \in S
  PROVE  Fold(f, S) = Op(f[x], Fold(f, S \ {x}))
<1>0. PICK size : Counts(size, S)
  BY DEF Counted
<1> DEFINE Sets(k) == Small(size, S, k)
           Swaps(U) == \A y \in U : Fold(f, U) = Op(f[y], Fold(f, U \ {y}))
           K == {k \in Nat : \A U \in Sets(k) : Swaps(U)}
<1>1. \A U \in SUBSET S : Counted(U) /\ Chooses(U) /\ Fold(f, U) \in T
  <2>1. \A U \in SUBSET S : Counted(U) /\ Chooses(U)
    BY CountedParts
  <2>2. QED
    BY <2>1, FoldType
<1>2. 0 \in K
  <2>1. \A U \in Sets(0) : U = {}
    BY <1>0, SmallSets
  <2>2. QED
    BY <2>1
<1>3. ASSUME NEW k \in Nat, k \in K PROVE k + 1 \in K
  <2>1. ASSUME NEW U \in Sets(k + 1), NEW y \in U
        PROVE  Fold(f, U) = Op(f[y], Fold(f, U \ {y}))
    <3> DEFINE z == Choice(U)
               R == (U \ {y}) \ {z}
    <3>1. U \in SUBSET S /\ z \in U
      BY <1>1, <2>1 DEF Small, Chooses
    <3>2. Fold(f, U) = Op(f[z], Fold(f, U \ {z}))
      BY <1>1, <2>1, <3>1, FoldStep
    <3>3. CASE y = z
      BY <3>2, <3>3
    <3>4. CASE y # z
      <4>1. U \ {z} \in Sets(k) /\ U \ {y} \in Sets(k)
        BY <1>0, <2>1, <3>1, SmallSets
      <4>2. Fold(f, U \ {z}) = Op(f[y], Fold(f, (U \ {z}) \ {y}))
        BY <1>3, <2>1, <3>4, <4>1
      <4>3. Fold(f, U \ {y}) = Op(f[z], Fold(f, R))
        BY <1>3, <3>1, <3>4, <4>1
      <4>4. (U \ {z}) \ {y} = R
        OBVIOUS
      <4>5. f[y] \in T /\ f[z] \in T /\ Fold(f, R) \in T
        <5>1. R \in SUBSET S /\ y \in S /\ z \in S
          BY <2>1, <3>1
        <5>2. QED
          BY <1>1, <5>1
      <4> DEFINE a == f[y]
                 b == f[z]
                 r == Fold(f, R)
      <4>6. Op(b, Op(a, r)) = Op(a, Op(b, r))
        <5>1. a \in T /\ b \in T /\ r \in T
          BY <4>5
        <5> HIDE DEF a, b, r
        <5>2. Op(b, Op(a, r)) = Op(Op(b, a), r) /\ Op(a, Op(b, r)) = Op(Op(a, b), r)
              /\ Op(a, b) = Op(b, a)
          BY <5>1
        <5>3. QED
          BY <5>2
      <4>7. QED
        BY <3>2, <4>2, <4>3, <4>4, <4>6
    <3>5. QED
      BY <3>3, <3>4
  <2>2. QED
    BY <2>1
<1>4. \A n \in Nat : n \in K
  <2> HIDE DEF K
  <2>1. QED
    BY <1>2, <1>3, SetInduction
<1>5. size[S] \in K /\ S \in Sets(size[S])
  <2>1. size[S] \in Nat
    BY <1>0 DEF Counts
  <2>2. Sets(size[S]) = SUBSET S
    BY <1>0, <2>1, SmallSets
  <2>3. QED
    BY <1>4, <2>1, <2>2
<1>6. QED
  BY <1>5

-----------------------------------------------------------------------------
(* Folds over sequences, from the left *)

\* The elements of a sequence are folded in their order.
TakesLast ==
  \A n \in Nat : Counted(1 .. n) /\ Chooses(1 .. n) /\ (n # 0 => Choice(1 .. n) = n)

\* The fold of no element, from any base.
LEMMA FoldFromNoSeq ==
  ASSUME TakesLast, NEW base
  PROVE  FoldFrom(base, <<>>, DOMAIN <<>>) = base
<1>1. DOMAIN <<>> = 1 .. 0 /\ 1 .. 0 = {}
  OBVIOUS
<1>2. QED
  BY <1>1, FoldFromStep DEF TakesLast

\* The fold with one element more is from the fold without it.
LEMMA FoldFromAppend ==
  ASSUME TakesLast, NEW base, NEW A, NEW s \in Seq(A), NEW e \in A
  PROVE  FoldFrom(base, Append(s, e), DOMAIN Append(s, e)) = Op(e, FoldFrom(base, s, DOMAIN s))
<1> DEFINE t == Append(s, e)
           n == Len(s)
<1>1. /\ n \in Nat /\ DOMAIN s = 1 .. n /\ DOMAIN t = 1 .. n + 1
      /\ t[n + 1] = e /\ \A i \in 1 .. n : t[i] = s[i]
  OBVIOUS
<1> HIDE DEF t, n
<1>2. /\ Counted(1 .. n + 1) /\ Chooses(1 .. n + 1) /\ Choice(1 .. n + 1) = n + 1
      /\ Counted(1 .. n) /\ Chooses(1 .. n)
  BY <1>1 DEF TakesLast
<1>3. (1 .. n + 1) \ {n + 1} = 1 .. n /\ 1 .. n + 1 # {}
  <2>1. n + 1 \in 1 .. n + 1 /\ \A i \in 1 .. n + 1 : i = n + 1 \/ i \in 1 .. n
    BY <1>1
  <2>2. \A i \in 1 .. n : i \in 1 .. n + 1 /\ i # n + 1
    BY <1>1
  <2> DEFINE k == n + 1
             less == 1 .. n
             more == 1 .. k
  <2>3. k \in more /\ (\A i \in more : i = k \/ i \in less) /\ \A i \in less : i \in more /\ i # k
    BY <2>1, <2>2
  <2> HIDE DEF k, less, more
  <2>4. more \ {k} = less
    <3>1. ASSUME NEW i \in more \ {k} PROVE i \in less
      BY <2>3
    <3>2. ASSUME NEW i \in less PROVE i \in more \ {k}
      BY <2>3
    <3>3. QED
      BY <3>1, <3>2
  <2>5. more # {}
    BY <2>3
  <2>6. QED
    BY <2>4, <2>5 DEF k, less, more
<1>4. FoldFrom(base, t, 1 .. n + 1) = Op(t[n + 1], FoldFrom(base, t, 1 .. n))
  <2> DEFINE less == 1 .. n
             more == 1 .. n + 1
  <2>1. Counted(more) /\ Chooses(more) /\ Choice(more) = n + 1 /\ more # {} /\ more \ {n + 1} = less
    BY <1>2, <1>3
  <2> HIDE DEF less, more
  <2>2. FoldFrom(base, t, more) = IF more = {} THEN base
                     ELSE Op(t[Choice(more)], FoldFrom(base, t, more \ {Choice(more)}))
    BY <2>1, FoldFromStep
  <2>3. FoldFrom(base, t, more) = Op(t[n + 1], FoldFrom(base, t, less))
    BY <2>1, <2>2
  <2>4. QED
    BY <2>3 DEF less, more
<1>5. FoldFrom(base, t, 1 .. n) = FoldFrom(base, s, 1 .. n)
  BY <1>1, <1>2, FoldFromSame
<1>6. QED
  BY <1>1, <1>4, <1>5 DEF t

\* The fold of an empty sequence is the base.
THEOREM FoldNoSeq ==
  ASSUME TakesLast
  PROVE  Fold(<<>>, DOMAIN <<>>) = Base
BY FoldFromNoSeq DEF Fold

\* The element at the end of a sequence is folded last.
THEOREM FoldAppend ==
  ASSUME TakesLast, NEW A, NEW s \in Seq(A), NEW e \in A
  PROVE  Fold(Append(s, e), DOMAIN Append(s, e)) = Op(e, Fold(s, DOMAIN s))
BY FoldFromAppend DEF Fold

=============================================================================
