---------------------------- MODULE SimulatorProofs ----------------------------
(***************************************************************************)
(* Theorems about the simulator, for every size of graph, set of worlds,   *)
(* tools, budget, number of environments, cases, baselines and deaths: the *)
(* episodes add up, advantages are returns, checkpoints hold, an exact     *)
(* resume is the training that was saved, and the fixtures' environment    *)
(* does what the episodes' does.                                           *)
(*                                                                         *)
(* IInv is the inductive invariant, in parts: what each mode keeps         *)
(* (ModesOk), the episodes that run (CollectorOk, EvaluationOk, WalkOk),   *)
(* the batch and its advantages (BatchOk, AdvOk), what is on disk and what *)
(* is being written (FilesOk, SavesOk) and the best scores (BestOk).  The  *)
(* parts about episodes rest on EpisodeOk, which a step keeps: above all   *)
(* that the executed actions, replayed from the reset, give the episode    *)
(* again, with its ledger, credits and belief.                             *)
(***************************************************************************)
EXTENDS Simulator, FiniteSetTheorems, WellFoundedInduction, TLAPS

-----------------------------------------------------------------------------
(* Facts about data.                                                         *)

\* A set of numbers that is not empty has a least element.
THEOREM LeastNumber ==
  ASSUME NEW T \in SUBSET Nat, T # {}
  PROVE  \E x \in T : \A y \in T : x <= y
  <1> DEFINE U == {0..n : n \in T}
             R == StrictSubsetOrdering(Nat)
  <1>1. U \subseteq FiniteSubsetsOf(Nat)
    <2> SUFFICES ASSUME NEW n \in T
                 PROVE  0..n \in FiniteSubsetsOf(Nat)
      OBVIOUS
    <2>1. IsFiniteSet(0..n) /\ 0..n \in SUBSET Nat
      BY FS_Interval
    <2> QED BY <2>1 DEF FiniteSubsetsOf
  <1>2. IsWellFoundedOn(R, FiniteSubsetsOf(Nat)) /\ U # {}
    BY FS_StrictSubsetOrderingWellFounded
  <1>3. \A x, y \in T : y < x => <<0..y, 0..x>> \in R
    <2> SUFFICES ASSUME NEW x \in T, NEW y \in T, y < x
                 PROVE  <<0..y, 0..x>> \in R
      OBVIOUS
    <2>1. x \in 0..x /\ x \notin 0..y
      OBVIOUS
    <2>2. 0..y \subseteq 0..x /\ 0..y # 0..x /\ 0..x \in SUBSET Nat
      BY <2>1
    <2> QED BY <2>2 DEF StrictSubsetOrdering
  <1> HIDE DEF R
  <1>4. \A V : V \subseteq FiniteSubsetsOf(Nat) /\ V # {} =>
                 \E x \in V : \A y \in V : ~(<<y, x>> \in R)
    BY <1>2, WFMin
  <1>5. PICK u \in U : \A v \in U : ~(<<v, u>> \in R)
    BY <1>1, <1>2, <1>4
  <1>6. PICK x \in T : u = 0..x
    BY <1>5
  <1>7. \A y \in T : ~(y < x)
    BY <1>3, <1>5, <1>6
  <1> QED BY <1>7

\* ... and a greatest one when it is bounded.
LEMMA GreatestNumber ==
  ASSUME NEW T \in SUBSET Nat, T # {}, NEW n \in Nat, \A x \in T : x <= n
  PROVE  \E x \in T : \A y \in T : y <= x
  <1> DEFINE D == {n - x : x \in T}
  <1>1. D \in SUBSET Nat /\ D # {}
    <2>1. \A x \in T : n - x \in Nat
      OBVIOUS
    <2> QED BY <2>1
  <1>2. PICK d \in D : \A e \in D : d <= e
    BY <1>1, LeastNumber
  <1>3. PICK x \in T : d = n - x
    BY <1>2
  <1>4. \A y \in T : n - x <= n - y
    BY <1>2, <1>3
  <1> QED BY <1>4

\* A set of numbers with zero and the successors of its elements is all of them.
THEOREM NumberInduction ==
  ASSUME NEW P \in SUBSET Nat, 0 \in P, \A n \in P : n + 1 \in P
  PROVE  P = Nat
  <1> SUFFICES ASSUME Nat \ P # {}
               PROVE  FALSE
    OBVIOUS
  <1>1. PICK x \in Nat \ P : \A y \in Nat \ P : x <= y
    BY LeastNumber
  <1>2. x # 0 /\ x - 1 \in Nat /\ ~(x <= x - 1)
    BY <1>1
  <1>3. x - 1 \in P
    BY <1>1, <1>2
  <1> QED BY <1>1, <1>2, <1>3

\* has every finite set.
THEOREM FiniteSetInduction ==
  ASSUME NEW S, IsFiniteSet(S), NEW F \in SUBSET SUBSET S, {} \in F,
         \A T \in F : \A x \in S : T \cup {x} \in F
  PROVE  S \in F
  <1> DEFINE P == {n \in Nat : \A T \in SUBSET S : IsFiniteSet(T) /\ Cardinality(T) = n => T \in F}
  <1>1. 0 \in P
    BY FS_EmptySet
  <1>2. ASSUME NEW n \in P
        PROVE  n + 1 \in P
    <2> SUFFICES ASSUME NEW T \in SUBSET S, IsFiniteSet(T), Cardinality(T) = n + 1
                 PROVE  T \in F
      OBVIOUS
    <2>1. T # {}
      BY FS_EmptySet
    <2>2. PICK x \in T : TRUE
      BY <2>1
    <2>3. /\ IsFiniteSet(T \ {x})
          /\ Cardinality(T \ {x}) = IF x \in T THEN Cardinality(T) - 1 ELSE Cardinality(T)
      BY FS_RemoveElement
    <2>4. T \ {x} \in F
      <3>1. Cardinality(T \ {x}) = n
        BY <2>3
      <3> QED BY <2>3, <3>1
    <2>5. T = (T \ {x}) \cup {x}
      BY <2>2
    <2> QED BY <2>2, <2>4, <2>5
  <1>3. P = Nat
    <2> HIDE DEF P
    <2>1. P \in SUBSET Nat
      BY DEF P
    <2> QED BY <1>1, <1>2, <2>1, NumberInduction
  <1> QED BY <1>3, FS_CardinalityType

(* The folds of the community modules are recursive functions on the subsets   *)
(* of a set: from a set they take the element c[T], and combine it with the    *)
(* value of the rest.                                                          *)
Iterates(S, c, g, base, f) ==
  f = [T \in SUBSET S |-> IF T = {} THEN base ELSE g[<<f[T \ {c[T]}], c[T]>>]]

\* Over a finite set there is such a function, so a fold is what it says.
THEOREM IterationExists ==
  ASSUME NEW S, IsFiniteSet(S), NEW A, NEW base \in A,
         NEW c, \A T \in SUBSET S : T # {} => c[T] \in T,
         NEW g \in [A \X S -> A]
  PROVE  \E f \in [SUBSET S -> A] : Iterates(S, c, g, base, f)
  <1> DEFINE Sized(n) == {T \in SUBSET S : Cardinality(T) <= n}
             Value(f, T) == IF T = {} THEN base ELSE g[<<f[T \ {c[T]}], c[T]>>]
             Good(n, f) == f \in [Sized(n) -> A] /\ \A T \in Sized(n) : f[T] = Value(f, T)
             Ok(n) == \E f : Good(n, f)
             P == {n \in Nat : Ok(n)}
  <1>1. \A T \in SUBSET S : IsFiniteSet(T) /\ Cardinality(T) \in Nat
    BY FS_Subset, FS_CardinalityType
  <1>2. ASSUME NEW T \in SUBSET S, T # {}
        PROVE  /\ c[T] \in T /\ T \ {c[T]} \in SUBSET S
               /\ Cardinality(T \ {c[T]}) = Cardinality(T) - 1
    <2>1. c[T] \in T
      BY <1>2
    <2>2. Cardinality(T \ {c[T]}) = IF c[T] \in T THEN Cardinality(T) - 1 ELSE Cardinality(T)
      BY <1>1, FS_RemoveElement
    <2> QED BY <2>1, <2>2
  <1>3. \A T \in SUBSET S : Cardinality(T) = 0 <=> T = {}
    BY <1>1, FS_EmptySet
  <1>4. ASSUME NEW n \in Nat, NEW f \in [Sized(n) -> A], NEW T \in Sized(n + 1)
        PROVE  Value(f, T) \in A
    <2>1. CASE T = {}
      BY <2>1
    <2>2. CASE T # {}
      <3>1. T \ {c[T]} \in Sized(n) /\ c[T] \in S
        BY <2>2, <1>1, <1>2
      <3>2. <<f[T \ {c[T]}], c[T]>> \in A \X S
        BY <3>1
      <3> QED BY <2>2, <3>2
    <2> QED BY <2>1, <2>2
  <1>5. Ok(0)
    <2> DEFINE h == [T \in Sized(0) |-> base]
    <2>1. \A T \in Sized(0) : T = {}
      BY <1>1, <1>3
    <2>2. Good(0, h)
      BY <2>1
    <2> QED BY <2>2
  <1>6. ASSUME NEW n \in P
        PROVE  Ok(n + 1)
    <2>1. PICK f : Good(n, f)
      OBVIOUS
    <2> DEFINE h == [T \in Sized(n + 1) |-> IF T \in Sized(n) THEN f[T] ELSE Value(f, T)]
    <2>2. h \in [Sized(n + 1) -> A]
      <3>1. \A T \in Sized(n + 1) : Value(f, T) \in A
        BY <1>4, <2>1
      <3> HIDE DEF Value, Sized
      <3> QED BY <3>1, <2>1
    <2>3. ASSUME NEW T \in Sized(n + 1)
          PROVE  h[T] = Value(h, T)
      <3>1. h[T] = Value(f, T)
        <4> HIDE DEF Value
        <4> QED BY <2>1
      <3>2. CASE T = {}
        BY <3>1, <3>2
      <3>3. CASE T # {}
        <4>1. T \ {c[T]} \in Sized(n) /\ T \ {c[T]} \in Sized(n + 1)
          BY <3>3, <1>1, <1>2
        <4>2. h[T \ {c[T]}] = f[T \ {c[T]}]
          BY <4>1
        <4> HIDE DEF h
        <4> QED BY <3>1, <3>3, <4>2
      <3> QED BY <3>2, <3>3
    <2> HIDE DEF h
    <2>4. Good(n + 1, h)
      BY <2>2, <2>3
    <2> QED BY <2>4
  <1>7. P = Nat
    <2> HIDE DEF Ok
    <2>1. 0 \in P /\ (\A n \in P : n + 1 \in P) /\ P \in SUBSET Nat
      BY <1>5, <1>6
    <2> HIDE DEF P
    <2> QED BY <2>1, NumberInduction
  <1>8. Cardinality(S) \in Nat /\ Sized(Cardinality(S)) = SUBSET S
    <2>1. \A T \in SUBSET S : Cardinality(T) <= Cardinality(S)
      BY FS_Subset
    <2> QED BY <2>1, FS_CardinalityType
  <1>9. PICK f : Good(Cardinality(S), f)
    <2>1. Ok(Cardinality(S))
      <3> HIDE DEF Ok, Sized
      <3> QED BY <1>7, <1>8
    <2> HIDE DEF Good
    <2> QED BY <2>1
  <1>10. f \in [SUBSET S -> A] /\ \A T \in SUBSET S : f[T] = Value(f, T)
    <2> HIDE DEF Sized, Value
    <2> QED BY <1>8, <1>9
  <1>11. Iterates(S, c, g, base, f)
    BY <1>10 DEF Iterates
  <1> QED BY <1>10, <1>11

\* The greatest place of a set of places.
LEMMA MaxOfPlaces ==
  ASSUME NEW n \in Nat, NEW T \in SUBSET (1..n), T # {}
  PROVE  Max(T) \in T /\ \A x \in T : x <= Max(T)
  <1>1. \E x \in T : \A y \in T : y <= x
    <2>1. T \in SUBSET Nat /\ \A x \in T : x <= n
      OBVIOUS
    <2> QED BY <2>1, GreatestNumber
  <1>2. \E x \in T : \A y \in T : x >= y
    BY <1>1
  <1> QED BY <1>2 DEF Max

\* The greatest number of 1..n is n, and 1..(n - 1) is what is left without it.
LEMMA MaxOfInterval ==
  ASSUME NEW n \in Nat \ {0}
  PROVE  /\ 1..n # {} /\ Max(1..n) = n /\ (1..n) \ {Max(1..n)} = 1..(n - 1)
  <1>1. n \in 1..n /\ 1..n \in SUBSET (1..n)
    OBVIOUS
  <1>2. Max(1..n) \in 1..n /\ n <= Max(1..n)
    BY <1>1, MaxOfPlaces
  <1>3. Max(1..n) = n
    BY <1>2
  <1> QED BY <1>1, <1>3
-----------------------------------------------------------------------------
(* Sums and products: what is folded does not depend on the order.           *)

First(T) == CHOOSE x \in T : TRUE

(* An operation on whole numbers that may take its left arguments in any order. *)
Exchanges(op) ==
  /\ op \in [Int \X Int -> Int]
  /\ \A x, y, z \in Int : op[<< x, op[<< y, z >>] >>] = op[<< y, op[<< x, z >>] >>]

Plus  == [p \in Int \X Int |-> p[1] + p[2]]
Times == [p \in Int \X Int |-> p[1] * p[2]]
Zero  == 0
One   == 1

\* Sums and products do not depend on the order of what they combine.
LEMMA PlusAndTimes == Exchanges(Plus) /\ Exchanges(Times)
  <1>1. Exchanges(Plus)
    BY DEF Exchanges, Plus
  <1>2. ASSUME NEW x \in Int, NEW y \in Int
        PROVE  x * y \in Int
    OBVIOUS
  <1>3. Times \in [Int \X Int -> Int] /\ \A x, y \in Int : Times[<< x, y >>] = x * y
    <2>1. \A p \in Int \X Int : p[1] * p[2] \in Int
      BY <1>2
    <2> QED BY <2>1 DEF Times
  <1>4. ASSUME NEW x \in Int, NEW y \in Int, NEW z \in Int
        PROVE  x * (y * z) = y * (x * z)
    OBVIOUS
  <1>5. \A x, y, z \in Int : Times[<< x, Times[<< y, z >>] >>] = Times[<< y, Times[<< x, z >>] >>]
    BY <1>2, <1>3, <1>4
  <1> QED BY <1>1, <1>3, <1>5 DEF Exchanges

Folding(D, op, base, f, fold) ==
  /\ fold \in [SUBSET D -> Int]
  /\ \A T \in SUBSET D : fold[T] = IF T = {} THEN base
                                   ELSE op[<< f[First(T)], fold[T \ {First(T)}] >>]

\* Over a finite set every such operation has a fold, one element at a time.
LEMMA FoldingExists ==
  ASSUME NEW D, IsFiniteSet(D), NEW op, Exchanges(op), NEW base \in Int, NEW f \in [D -> Int]
  PROVE  \E fold : Folding(D, op, base, f, fold)
  <1> DEFINE c == [T \in SUBSET D |-> First(T)]
             g == [p \in Int \X D |-> op[<< f[p[2]], p[1] >>]]
             Value(t, T) == IF T = {} THEN base ELSE op[<< f[First(T)], t[T \ {First(T)}] >>]
  <1>1. \A T \in SUBSET D : T # {} => First(T) \in T
    BY DEF First
  <1>2. PICK t \in [SUBSET D -> Int] : Iterates(D, c, g, base, t)
    <2>1. \A T \in SUBSET D : T # {} => c[T] \in T
      BY <1>1
    <2>2. g \in [Int \X D -> Int]
      BY DEF Exchanges
    <2> HIDE DEF c, g
    <2> QED BY <2>1, <2>2, IterationExists
  <1>3. ASSUME NEW T \in SUBSET D
        PROVE  t[T] = Value(t, T)
    <2>1. t[T] = IF T = {} THEN base ELSE g[<< t[T \ {c[T]}], c[T] >>]
      <3> HIDE DEF c, g
      <3> QED BY <1>2 DEF Iterates
    <2>2. CASE T = {}
      BY <2>1, <2>2
    <2>3. CASE T # {}
      <3>1. c[T] = First(T) /\ First(T) \in D /\ T \ {First(T)} \in SUBSET D
        BY <1>1, <2>3
      <3>2. t[T \ {First(T)}] \in Int
        BY <1>2, <3>1
      <3> HIDE DEF c
      <3> QED BY <2>1, <2>3, <3>1, <3>2
    <2> QED BY <2>2, <2>3
  <1> QED BY <1>2, <1>3 DEF Folding

\* Any element of a set may be the one that is taken last.
LEMMA FoldingUnordered ==
  ASSUME NEW D, IsFiniteSet(D), NEW op, Exchanges(op), NEW base \in Int, NEW f \in [D -> Int],
         NEW fold, Folding(D, op, base, f, fold), NEW T \in SUBSET D, NEW x \in T
  PROVE  fold[T] = op[<< f[x], fold[T \ {x}] >>]
  <1> DEFINE AnyLast(U) == \A y \in U : fold[U] = op[<< f[y], fold[U \ {y}] >>]
             P == {n \in Nat : \A U \in SUBSET D : Cardinality(U) = n => AnyLast(U)}
  <1>1. \A U \in SUBSET D : IsFiniteSet(U) /\ Cardinality(U) \in Nat
    BY FS_Subset, FS_CardinalityType
  <1>2. \A U \in SUBSET D : U # {} =>
          First(U) \in U /\ fold[U] = op[<< f[First(U)], fold[U \ {First(U)}] >>]
    BY DEF First, Folding
  <1>3. \A U \in SUBSET D : fold[U] \in Int
    BY DEF Folding
  <1>4. 0 \in P
    <2>1. \A U \in SUBSET D : Cardinality(U) = 0 => U = {}
      BY <1>1, FS_EmptySet
    <2> QED BY <2>1
  <1>5. ASSUME NEW n \in Nat, n \in P
        PROVE  n + 1 \in P
    <2> SUFFICES ASSUME NEW U \in SUBSET D, Cardinality(U) = n + 1, NEW y \in U
                 PROVE  fold[U] = op[<< f[y], fold[U \ {y}] >>]
      OBVIOUS
    <2> DEFINE p == First(U)
               V == U \ {p}
               W == U \ {y}
    <2>1. p \in U /\ fold[U] = op[<< f[p], fold[V] >>]
      BY <1>2
    <2> HIDE DEF p
    <2>2. CASE y = p
      BY <2>1, <2>2
    <2>3. CASE y # p
      <3>1. y \in V /\ p \in W /\ V \in SUBSET D /\ W \in SUBSET D /\ V \ {y} = W \ {p}
        BY <2>1, <2>3
      <3>2. Cardinality(V) = n /\ Cardinality(W) = n
        <4>1. IsFiniteSet(U) /\ p \in U /\ y \in U
          BY <1>1, <2>1
        <4>2. Cardinality(V) = Cardinality(U) - 1 /\ Cardinality(W) = Cardinality(U) - 1
          <5> HIDE DEF P, AnyLast
          <5> QED BY <4>1, FS_RemoveElement
        <4> QED BY <4>2
      <3>3. AnyLast(V) /\ AnyLast(W)
        BY <1>5, <3>1, <3>2
      <3> DEFINE rest == fold[V \ {y}]
      <3>4. rest \in Int /\ f[p] \in Int /\ f[y] \in Int
        BY <1>3, <2>1, <3>1
      <3>5. fold[V] = op[<< f[y], rest >>]
        BY <3>1, <3>3
      <3>6. fold[W] = op[<< f[p], rest >>]
        <4>1. fold[W] = op[<< f[p], fold[W \ {p}] >>]
          <5> HIDE DEF W
          <5> QED BY <3>1, <3>3
        <4> QED BY <3>1, <4>1
      <3> HIDE DEF rest, V, W
      <3>7. fold[U] = op[<< f[y], fold[W] >>]
        BY <2>1, <3>4, <3>5, <3>6 DEF Exchanges
      <3> QED BY <3>7 DEF W
    <2> QED BY <2>2, <2>3
  <1>6. P = Nat
    <2>1. P \in SUBSET Nat /\ \A n \in P : n + 1 \in P
      BY <1>5
    <2> HIDE DEF P
    <2> QED BY <1>4, <2>1, NumberInduction
  <1> QED BY <1>1, <1>6

Product(f) == FoldFunction(LAMBDA x, y : x * y, 1, f)

\* A sum is a fold, and so is a product.
LEMMA SumFolds ==
  ASSUME NEW D, IsFiniteSet(D), NEW f \in [D -> Int], NEW fold, Folding(D, Plus, Zero, f, fold)
  PROVE  SumFunction(f) = fold[D]
  <1> DEFINE Value(t, T) == IF T = {} THEN 0 ELSE f[First(T)] + t[T \ {First(T)}]
             Good(t) == t = [T \in SUBSET D |-> Value(t, T)]
             total == CHOOSE t : Good(t)
  <1>1. \A T \in SUBSET D : T # {} => First(T) \in D /\ T \ {First(T)} \in SUBSET D
    BY DEF First
  <1>2. \A x, y \in Int : Plus[<< x, y >>] = x + y
    BY DEF Plus
  <1>3. ASSUME NEW T \in SUBSET D
        PROVE  fold[T] = Value(fold, T)
    <2>1. CASE T = {}
      BY <2>1 DEF Folding, Zero
    <2>2. CASE T # {}
      <3>1. f[First(T)] \in Int /\ fold[T \ {First(T)}] \in Int
        BY <1>1, <2>2 DEF Folding
      <3> QED BY <1>2, <2>2, <3>1 DEF Folding
    <2> QED BY <2>1, <2>2
  <1>4. Good(fold)
    <2> HIDE DEF Value
    <2> QED BY <1>3 DEF Folding
  <1>5. Good(total)
    <2> HIDE DEF Good
    <2> QED BY <1>4
  <1>6. SumFunction(f) = total[D]
    <2>1. DOMAIN f = D
      OBVIOUS
    <2> QED BY <2>1 DEF SumFunction, SumFunctionOnSet, FoldFunctionOnSet, MapThenFoldSet, First
  <1> DEFINE P == {n \in Nat : \A T \in SUBSET D : Cardinality(T) = n => total[T] = fold[T]}
  <1>7. \A T \in SUBSET D : IsFiniteSet(T) /\ Cardinality(T) \in Nat
    BY FS_Subset, FS_CardinalityType
  <1>8. \A T \in SUBSET D : total[T] = Value(total, T)
    <2> HIDE DEF Value, total
    <2> QED BY <1>5
  <1> HIDE DEF total
  <1>9. 0 \in P
    <2>1. \A T \in SUBSET D : Cardinality(T) = 0 => T = {}
      BY <1>7, FS_EmptySet
    <2>2. total[{}] = fold[{}]
      BY <1>3, <1>8
    <2> QED BY <2>1, <2>2
  <1>10. ASSUME NEW n \in Nat, n \in P
         PROVE  n + 1 \in P
    <2> SUFFICES ASSUME NEW T \in SUBSET D, Cardinality(T) = n + 1
                 PROVE  total[T] = fold[T]
      OBVIOUS
    <2> DEFINE x == First(T)
               U == T \ {x}
    <2>1. T # {}
      <3>1. Cardinality(T) # 0
        OBVIOUS
      <3> HIDE DEF P
      <3> QED BY <3>1, FS_EmptySet
    <2>2. x \in T
      BY <2>1 DEF First
    <2>3. total[T] = f[x] + total[U] /\ fold[T] = f[x] + fold[U]
      BY <1>3, <1>8, <2>1
    <2> HIDE DEF x
    <2>4. U \in SUBSET D /\ Cardinality(U) = n
      <3>1. IsFiniteSet(T) /\ Cardinality(T) \in Nat
        BY <1>7
      <3>2. Cardinality(U) = Cardinality(T) - 1
        <4> HIDE DEF P
        <4> QED BY <2>2, <3>1, FS_RemoveElement
      <3> QED BY <2>2, <3>1, <3>2
    <2>5. total[U] = fold[U]
      BY <1>10, <2>4
    <2> QED BY <2>3, <2>5
  <1>11. P = Nat
    <2>1. P \in SUBSET Nat /\ \A n \in P : n + 1 \in P
      BY <1>10
    <2> HIDE DEF P
    <2> QED BY <1>9, <2>1, NumberInduction
  <1> QED BY <1>6, <1>7, <1>11

\* The library's product is the fold of multiplication.
LEMMA ProductFolds ==
  ASSUME NEW D, IsFiniteSet(D), NEW f \in [D -> Int], NEW fold, Folding(D, Times, One, f, fold)
  PROVE  Product(f) = fold[D]
  <1> DEFINE Value(t, T) == IF T = {} THEN 1 ELSE f[First(T)] * t[T \ {First(T)}]
             Good(t) == t = [T \in SUBSET D |-> Value(t, T)]
             total == CHOOSE t : Good(t)
  <1>1. \A T \in SUBSET D : T # {} => First(T) \in D /\ T \ {First(T)} \in SUBSET D
    BY DEF First
  <1>2. \A x, y \in Int : Times[<< x, y >>] = x * y
    BY DEF Times
  <1>3. ASSUME NEW T \in SUBSET D
        PROVE  fold[T] = Value(fold, T)
    <2>1. CASE T = {}
      BY <2>1 DEF Folding, One
    <2>2. CASE T # {}
      <3>1. f[First(T)] \in Int /\ fold[T \ {First(T)}] \in Int
        BY <1>1, <2>2 DEF Folding
      <3> QED BY <1>2, <2>2, <3>1 DEF Folding
    <2> QED BY <2>1, <2>2
  <1>4. Good(fold)
    <2> HIDE DEF Value
    <2> QED BY <1>3 DEF Folding
  <1>5. Good(total)
    <2> HIDE DEF Good
    <2> QED BY <1>4
  <1>6. Product(f) = total[D]
    <2>1. DOMAIN f = D
      OBVIOUS
    <2> QED BY <2>1 DEF Product, FoldFunction, FoldFunctionOnSet, MapThenFoldSet, First
  <1> DEFINE P == {n \in Nat : \A T \in SUBSET D : Cardinality(T) = n => total[T] = fold[T]}
  <1>7. \A T \in SUBSET D : IsFiniteSet(T) /\ Cardinality(T) \in Nat
    BY FS_Subset, FS_CardinalityType
  <1>8. \A T \in SUBSET D : total[T] = Value(total, T)
    <2> HIDE DEF Value, total
    <2> QED BY <1>5
  <1> HIDE DEF total
  <1>9. 0 \in P
    <2>1. \A T \in SUBSET D : Cardinality(T) = 0 => T = {}
      BY <1>7, FS_EmptySet
    <2>2. total[{}] = fold[{}]
      BY <1>3, <1>8
    <2> QED BY <2>1, <2>2
  <1>10. ASSUME NEW n \in Nat, n \in P
         PROVE  n + 1 \in P
    <2> SUFFICES ASSUME NEW T \in SUBSET D, Cardinality(T) = n + 1
                 PROVE  total[T] = fold[T]
      OBVIOUS
    <2> DEFINE x == First(T)
               U == T \ {x}
    <2>1. T # {}
      <3>1. Cardinality(T) # 0
        OBVIOUS
      <3> HIDE DEF P
      <3> QED BY <3>1, FS_EmptySet
    <2>2. x \in T
      BY <2>1 DEF First
    <2>3. total[T] = f[x] * total[U] /\ fold[T] = f[x] * fold[U]
      BY <1>3, <1>8, <2>1
    <2> HIDE DEF x
    <2>4. U \in SUBSET D /\ Cardinality(U) = n
      <3>1. IsFiniteSet(T) /\ Cardinality(T) \in Nat
        BY <1>7
      <3>2. Cardinality(U) = Cardinality(T) - 1
        <4> HIDE DEF P
        <4> QED BY <2>2, <3>1, FS_RemoveElement
      <3> QED BY <2>2, <3>1, <3>2
    <2>5. total[U] = fold[U]
      BY <1>10, <2>4
    <2> QED BY <2>3, <2>5
  <1>11. P = Nat
    <2>1. P \in SUBSET Nat /\ \A n \in P : n + 1 \in P
      BY <1>10
    <2> HIDE DEF P
    <2> QED BY <1>9, <2>1, NumberInduction
  <1> QED BY <1>6, <1>7, <1>11

\* What is folded over a part of a set is what the fold of the set says there.
LEMMA PartFolds ==
  ASSUME NEW D, NEW op, NEW base, NEW f, NEW fold, Folding(D, op, base, f, fold),
         NEW E \in SUBSET D
  PROVE  Folding(E, op, base, [x \in E |-> f[x]], [T \in SUBSET E |-> fold[T]])
  <1> DEFINE g == [x \in E |-> f[x]]
             part == [T \in SUBSET E |-> fold[T]]
  <1>1. part \in [SUBSET E -> Int]
    BY DEF Folding
  <1>2. ASSUME NEW T \in SUBSET E
        PROVE  part[T] = IF T = {} THEN base ELSE op[<< g[First(T)], part[T \ {First(T)}] >>]
    <2>1. T # {} => First(T) \in E /\ T \ {First(T)} \in SUBSET E
      BY DEF First
    <2>2. fold[T] = IF T = {} THEN base ELSE op[<< f[First(T)], fold[T \ {First(T)}] >>]
      BY DEF Folding
    <2> QED BY <2>1, <2>2
  <1> HIDE DEF g, part
  <1>3. Folding(E, op, base, g, part)
    BY <1>1, <1>2 DEF Folding
  <1> QED BY <1>3 DEF g, part

\* One fold gives the sums over all parts of a finite set.
LEMMA SumParts ==
  ASSUME NEW D, IsFiniteSet(D), NEW f \in [D -> Int]
  PROVE  \E fold : /\ Folding(D, Plus, Zero, f, fold)
                   /\ \A E \in SUBSET D : SumFunction([x \in E |-> f[x]]) = fold[E]
  <1>1. PICK fold : Folding(D, Plus, Zero, f, fold)
    <2>1. Zero \in Int
      BY DEF Zero
    <2> QED BY <2>1, PlusAndTimes, FoldingExists
  <1>2. ASSUME NEW E \in SUBSET D
        PROVE  SumFunction([x \in E |-> f[x]]) = fold[E]
    <2> DEFINE g == [x \in E |-> f[x]]
               part == [T \in SUBSET E |-> fold[T]]
    <2>1. g \in [E -> Int] /\ IsFiniteSet(E) /\ part[E] = fold[E]
      BY FS_Subset
    <2>2. Folding(E, Plus, Zero, g, part)
      BY <1>1, PartFolds
    <2> HIDE DEF g, part
    <2>3. SumFunction(g) = part[E]
      BY <2>1, <2>2, SumFolds
    <2> QED BY <2>1, <2>3 DEF g
  <1> QED BY <1>1, <1>2

\* One fold gives the products over all parts of a finite set.
LEMMA ProductParts ==
  ASSUME NEW D, IsFiniteSet(D), NEW f \in [D -> Int]
  PROVE  \E fold : /\ Folding(D, Times, One, f, fold)
                   /\ \A E \in SUBSET D : Product([x \in E |-> f[x]]) = fold[E]
  <1>1. PICK fold : Folding(D, Times, One, f, fold)
    <2>1. One \in Int
      BY DEF One
    <2> QED BY <2>1, PlusAndTimes, FoldingExists
  <1>2. ASSUME NEW E \in SUBSET D
        PROVE  Product([x \in E |-> f[x]]) = fold[E]
    <2> DEFINE g == [x \in E |-> f[x]]
               part == [T \in SUBSET E |-> fold[T]]
    <2>1. g \in [E -> Int] /\ IsFiniteSet(E) /\ part[E] = fold[E]
      BY FS_Subset
    <2>2. Folding(E, Times, One, g, part)
      BY <1>1, PartFolds
    <2> HIDE DEF g, part
    <2>3. Product(g) = part[E]
      BY <2>1, <2>2, ProductFolds
    <2> QED BY <2>1, <2>3 DEF g
  <1> QED BY <1>1, <1>2

(* The sum and the product of f over T.                                        *)
SumOver(f, T) == SumFunction([x \in T |-> f[x]])
ProductOver(f, T) == Product([x \in T |-> f[x]])

\* One element more adds its value.
LEMMA SumGrows ==
  ASSUME NEW D, IsFiniteSet(D), NEW f \in [D -> Int], NEW T \in SUBSET D
  PROVE  /\ SumOver(f, {}) = 0 /\ SumOver(f, T) \in Int
         /\ \A x \in D \ T : SumOver(f, T \cup {x}) = f[x] + SumOver(f, T)
  <1>1. PICK fold : /\ Folding(D, Plus, Zero, f, fold)
                    /\ \A E \in SUBSET D : SumFunction([x \in E |-> f[x]]) = fold[E]
    BY SumParts
  <1>2. \A E \in SUBSET D : SumOver(f, E) = fold[E] /\ fold[E] \in Int
    BY <1>1 DEF SumOver, Folding
  <1>3. fold[{}] = 0
    BY <1>1 DEF Folding, Zero
  <1>4. ASSUME NEW x \in D \ T
        PROVE  SumOver(f, T \cup {x}) = f[x] + SumOver(f, T)
    <2> DEFINE E == T \cup {x}
    <2>1. E \in SUBSET D /\ x \in E /\ E \ {x} = T
      OBVIOUS
    <2> HIDE DEF E
    <2>2. Zero \in Int
      BY DEF Zero
    <2>3. fold[E] = Plus[<< f[x], fold[E \ {x}] >>]
      BY <1>1, <2>1, <2>2, PlusAndTimes, FoldingUnordered
    <2>4. Plus[<< f[x], fold[T] >>] = f[x] + fold[T]
      BY <1>2 DEF Plus
    <2>5. SumOver(f, E) = f[x] + SumOver(f, T)
      BY <1>2, <2>1, <2>3, <2>4
    <2> QED BY <2>5 DEF E
  <1>5. {} \in SUBSET D
    OBVIOUS
  <1> QED BY <1>2, <1>3, <1>4, <1>5

\* One element more multiplies by its value.
LEMMA ProductGrows ==
  ASSUME NEW D, IsFiniteSet(D), NEW f \in [D -> Int], NEW T \in SUBSET D
  PROVE  /\ ProductOver(f, {}) = 1 /\ ProductOver(f, T) \in Int
         /\ \A x \in D \ T : ProductOver(f, T \cup {x}) = f[x] * ProductOver(f, T)
  <1>1. PICK fold : /\ Folding(D, Times, One, f, fold)
                    /\ \A E \in SUBSET D : Product([x \in E |-> f[x]]) = fold[E]
    BY ProductParts
  <1>2. \A E \in SUBSET D : ProductOver(f, E) = fold[E] /\ fold[E] \in Int
    BY <1>1 DEF ProductOver, Folding
  <1>3. fold[{}] = 1
    BY <1>1 DEF Folding, One
  <1>4. ASSUME NEW x \in D \ T
        PROVE  ProductOver(f, T \cup {x}) = f[x] * ProductOver(f, T)
    <2> DEFINE E == T \cup {x}
    <2>1. E \in SUBSET D /\ x \in E /\ E \ {x} = T
      OBVIOUS
    <2> HIDE DEF E
    <2>2. One \in Int
      BY DEF One
    <2>3. fold[E] = Times[<< f[x], fold[E \ {x}] >>]
      BY <1>1, <2>1, <2>2, PlusAndTimes, FoldingUnordered
    <2>4. Times[<< f[x], fold[T] >>] = f[x] * fold[T]
      BY <1>2 DEF Times
    <2>5. ProductOver(f, E) = f[x] * ProductOver(f, T)
      BY <1>2, <2>1, <2>3, <2>4
    <2> QED BY <2>5 DEF E
  <1>5. {} \in SUBSET D
    OBVIOUS
  <1> QED BY <1>2, <1>3, <1>4, <1>5

\* The product over two sets without a common element.
LEMMA ProductOfUnion ==
  ASSUME NEW D, IsFiniteSet(D), NEW f \in [D -> Int], NEW S \in SUBSET D, NEW T \in SUBSET (D \ S)
  PROVE  ProductOver(f, S \cup T) = ProductOver(f, S) * ProductOver(f, T)
  <1> DEFINE F == {U \in SUBSET T : ProductOver(f, S \cup U) = ProductOver(f, S) * ProductOver(f, U)}
  <1>1. \A U \in SUBSET D : ProductOver(f, U) \in Int
    BY ProductGrows
  <1>2. {} \in F
    <2>1. S \cup {} = S /\ {} \in SUBSET T
      OBVIOUS
    <2>2. ProductOver(f, {}) = 1
      BY ProductGrows
    <2>3. \A m \in Int : m = m * 1
      OBVIOUS
    <2> QED BY <1>1, <2>1, <2>2, <2>3
  <1>3. ASSUME NEW U \in F, NEW x \in T
        PROVE  U \cup {x} \in F
    <2>1. CASE x \in U
      <3>1. U \cup {x} = U
        BY <2>1
      <3> QED BY <3>1
    <2>2. CASE x \notin U
      <3> DEFINE V == U \cup {x}
                 W == S \cup U
                 a == f[x]
                 b == ProductOver(f, S)
                 c == ProductOver(f, U)
      <3>1. /\ V \in SUBSET T /\ W \in SUBSET D /\ U \in SUBSET D /\ x \in D \ U /\ x \in D \ W
            /\ S \cup V = W \cup {x}
        BY <2>2
      <3>2. ProductOver(f, W \cup {x}) = f[x] * ProductOver(f, W)
        <4> HIDE DEF W
        <4> QED BY <3>1, ProductGrows
      <3>3. ProductOver(f, U \cup {x}) = f[x] * ProductOver(f, U)
        BY <3>1, ProductGrows
      <3>4. ProductOver(f, W) = b * c
        OBVIOUS
      <3>5. a \in Int /\ b \in Int /\ c \in Int
        BY <1>1, <3>1
      <3>6. ProductOver(f, S \cup V) = a * (b * c) /\ ProductOver(f, V) = a * c
        BY <3>1, <3>2, <3>3, <3>4
      <3> HIDE DEF a, b, c, V
      <3>7. a * (b * c) = b * (a * c)
        BY <3>5
      <3>8. ProductOver(f, S \cup V) = b * ProductOver(f, V)
        BY <3>6, <3>7
      <3> QED BY <3>1, <3>8 DEF b, V
    <2> QED BY <2>1, <2>2
  <1>4. F \in SUBSET SUBSET T /\ IsFiniteSet(T)
    BY FS_Subset
  <1>5. T \in F
    <2> HIDE DEF F
    <2> QED BY <1>2, <1>3, <1>4, FiniteSetInduction
  <1> QED BY <1>5

-----------------------------------------------------------------------------
(* Probes, records and worlds.                                               *)

\* The constants are what the code's configuration makes them.
LEMMA Constants ==
  /\ N \in Nat \ {0} /\ INITIAL_BUDGET \in Nat /\ MAX_PROBES \in Nat /\ MAX_PROBES > 0
  /\ MAX_SERVICE_SLOTS \in Nat /\ N <= MAX_SERVICE_SLOTS /\ UTILITY \in Int
  /\ 0 \in Services /\ Services \in SUBSET Nat /\ IsFiniteSet(Services)
  <1>1. N \in Nat \ {0} /\ INITIAL_BUDGET \in Nat \ {0} /\ MAX_PROBES \in Nat \ {0}
    BY SimulatorAssumption
  <1>2. IsFiniteSet(0 .. N-1)
    BY <1>1, FS_Interval
  <1> QED BY <1>1, <1>2, SimulatorAssumption DEF Services

Tooling == {"metrics", "logs"}

\* The four templates.
LEMMA Templates ==
  /\ Len(Template) = 4 /\ DOMAIN Template = 1 .. 4
  /\ \A t \in 1 .. 4 : /\ Template[t].tool \in Tooling
                       /\ Template[t].readings \in SUBSET (0 .. 2) /\ Template[t].readings # {}
                       /\ Template[t].cost \in Nat \ {0}
  <1>1. Len(Template) = 4 /\ DOMAIN Template = 1 .. 4
    BY DEF Template
  <1>2. /\ Template[1] = [tool |-> "metrics", readings |-> {0},       cost |-> 1]
        /\ Template[2] = [tool |-> "metrics", readings |-> {0, 1},    cost |-> 2]
        /\ Template[3] = [tool |-> "logs",    readings |-> {0},       cost |-> 2]
        /\ Template[4] = [tool |-> "logs",    readings |-> {0, 1, 2}, cost |-> 4]
    BY DEF Template
  <1>3. \A t \in 1 .. 4 : t = 1 \/ t = 2 \/ t = 3 \/ t = 4
    OBVIOUS
  <1> HIDE DEF Template
  <1>4. ASSUME NEW t \in 1 .. 4
        PROVE  /\ Template[t].tool \in Tooling
               /\ Template[t].readings \in SUBSET (0 .. 2) /\ Template[t].readings # {}
               /\ Template[t].cost \in Nat \ {0}
    BY <1>2, <1>3 DEF Tooling
  <1> QED BY <1>1, <1>4

Probing == {ProbeAction(s, t) : s \in Services, t \in DOMAIN Template}

\* There are finitely many records.
LEMMA RecordsAreFinite == IsFiniteSet(RecordIds)
  <1> DEFINE A == Services \X Tooling
             B == A \X (0 .. 2)
             R == Services \X Tooling \X (0 .. 2)
             f == [b \in B |-> << b[1][1], b[1][2], b[2] >>]
  <1>1. IsFiniteSet(Tooling)
    <2>1. IsFiniteSet({"metrics"})
      BY FS_Singleton
    <2>2. IsFiniteSet({"metrics"} \cup {"logs"})
      BY <2>1, FS_AddElement
    <2> QED BY <2>2 DEF Tooling
  <1>2. IsFiniteSet(0 .. 2)
    <2> DEFINE i == 0
               j == 2
    <2>1. i \in Int /\ j \in Int
      OBVIOUS
    <2> HIDE DEF i, j
    <2>2. IsFiniteSet(i .. j)
      BY <2>1, FS_Interval
    <2> QED BY <2>2 DEF i, j
  <1>3. IsFiniteSet(A)
    BY <1>1, Constants, FS_Product
  <1>4. IsFiniteSet(B)
    <2> HIDE DEF A
    <2> QED BY <1>2, <1>3, FS_Product
  <1>5. f \in Surjection(B, R)
    <2>1. f \in [B -> R]
      OBVIOUS
    <2>2. ASSUME NEW r \in R
          PROVE  \E b \in B : f[b] = r
      <3>1. << << r[1], r[2] >>, r[3] >> \in B
        OBVIOUS
      <3>2. f[<< << r[1], r[2] >>, r[3] >>] = r
        BY <3>1
      <3> QED BY <3>1, <3>2
    <2> HIDE DEF f, B, R
    <2> QED BY <2>1, <2>2 DEF Surjection
  <1>6. IsFiniteSet(R)
    <2> HIDE DEF f, B, R
    <2> QED BY <1>4, <1>5, FS_Surjection
  <1>7. RecordIds \in SUBSET R
    BY Templates DEF RecordIds, EvidenceIds
  <1> HIDE DEF R
  <1> QED BY <1>6, <1>7, FS_Subset

\* A probe's number stands for a service and a template, and is none of the others.
LEMMA Probed ==
  ASSUME NEW a \in Probing
  PROVE  /\ a \in Nat /\ a < STOP /\ a # STOP /\ a \in 0 .. STOP
         /\ Covers(a) \in SUBSET RecordIds /\ CostOf(a) \in Nat \ {0}
  <1>1. PICK s \in Services, t \in DOMAIN Template : a = ProbeAction(s, t)
    BY DEF Probing
  <1>2. t \in 1 .. 4 /\ s \in Nat /\ s <= N - 1 /\ a = 4 * s + t - 1
    BY <1>1, Templates, Constants DEF ProbeAction, Services
  <1>3. a \div 4 = s /\ a % 4 = t - 1 /\ a \in Nat /\ a < 4 * MAX_SERVICE_SLOTS
    BY <1>2, Constants
  <1>4. DecodeProbe(a)[1] = s /\ DecodeProbe(a)[2] = t
    BY <1>2, <1>3, Templates DEF DecodeProbe
  <1>5. Covers(a) \in SUBSET RecordIds /\ CostOf(a) \in Nat \ {0}
    BY <1>1, <1>2, <1>4, Templates DEF Covers, CostOf, RecordIds
  <1>6. STOP = 4 * MAX_SERVICE_SLOTS
    BY Templates DEF STOP
  <1> QED BY <1>3, <1>5, <1>6, Constants

(* The probes that a tool allows, that can be paid for and that tell something. *)
Buyable(tools, credits, seen) ==
  {a \in Probing : /\ Template[DecodeProbe(a)[2]].tool \in tools[DecodeProbe(a)[1]]
                   /\ CostOf(a) <= credits
                   /\ ~ (Covers(a) \subseteq seen)}

\* What may be chosen in an open episode is STOP or one of these.
LEMMA Masked ==
  ASSUME NEW tools, NEW e, ~ Terminated(e)
  PROVE  /\ Mask(tools, e) = {STOP} \union Buyable(tools, e.credits, DOMAIN e.ledger)
         /\ Mask(tools, e) = ActionMask(tools, e.credits, DOMAIN e.ledger, FALSE)
  BY DEF Mask, ActionMask, Probing, Buyable

\* A distance is a number of steps, or none.
LEMMA Distances ==
  ASSUME NEW edges, NEW s, NEW t
  PROVE  Distance(edges, s, t) \in Nat \/ Distance(edges, s, t) = NoPath
  <1> DEFINE within == CHOOSE w : w = [d \in 0 .. N |->
                         IF d = 0 THEN {s} ELSE w[d-1] \union Callees(edges, w[d-1])]
             D == {d \in 0 .. N : t \in within[d]}
  <1>1. Distance(edges, s, t) = IF t \in within[N] THEN Min(D) ELSE NoPath
    BY DEF Distance
  <1>2. N \in 0 .. N /\ D \in SUBSET Nat
    BY Constants
  <1>3. t \in within[N] => D # {}
    <2> HIDE DEF within
    <2> QED BY <1>2
  <1> HIDE DEF within, D
  <1>4. D # {} => Min(D) \in Nat
    <2>1. D # {} => \E x \in D : \A y \in D : x <= y
      BY <1>2, LeastNumber
    <2> QED BY <1>2, <2>1 DEF Min
  <1> QED BY <1>1, <1>3, <1>4

\* A chance is a whole number.
LEMMA Chances ==
  ASSUME NEW distance, distance \in Nat \/ distance = NoPath, NEW busy \in BOOLEAN, NEW tool
  PROVE  Chance(distance, busy, tool) \in Int
  <1> DEFINE quiet == CASE distance = 0 -> 3
                        [] distance > 0 -> 1 + 1 \div distance
                        [] distance = NoPath -> 1
  <1>1. quiet \in Int
    <2>1. CASE distance = 0
      BY <2>1 DEF NoPath
    <2>2. CASE distance \in Nat /\ distance > 0
      <3>1. 1 \div distance \in Int
        BY <2>2
      <3> QED BY <2>2, <3>1 DEF NoPath
    <2>3. CASE distance = NoPath
      BY <2>3 DEF NoPath
    <2> QED BY <2>1, <2>2, <2>3
  <1>2. Chance(distance, busy, tool) =
          IF ~ busy THEN quiet
          ELSE IF tool = "metrics" THEN Min({quiet + 1, SCALE - 1}) ELSE Max({quiet, 2})
    BY DEF Chance
  <1> HIDE DEF quiet
  <1>3. \A x, y \in Int : Min({x, y}) \in Int /\ Max({x, y}) \in Int
    <2> SUFFICES ASSUME NEW x \in Int, NEW y \in Int
                 PROVE  Min({x, y}) \in Int /\ Max({x, y}) \in Int
      OBVIOUS
    <2>1. \E z \in {x, y} : \A v \in {x, y} : z =< v
      OBVIOUS
    <2>2. \E z \in {x, y} : \A v \in {x, y} : z >= v
      OBVIOUS
    <2>3. Min({x, y}) \in {x, y} /\ Max({x, y}) \in {x, y}
      BY <2>1, <2>2 DEF Min, Max
    <2> QED BY <2>3
  <1>4. quiet + 1 \in Int /\ SCALE - 1 \in Int /\ 2 \in Int
    BY <1>1 DEF SCALE
  <1> QED BY <1>1, <1>2, <1>3, <1>4

(* What the proofs use of a game.                                              *)
Playable(g) ==
  /\ g.utility = UTILITY /\ g.scale \in Int
  /\ g.prior \in [Hypotheses -> Int]
  /\ \A h \in Hypotheses : g.chance[h] \in [RecordIds -> Int]

\* The game of a graph that is generated.
LEMMA GamesArePlayable ==
  ASSUME NEW graph \in DOMAIN GameTable
  PROVE  Playable(GameTable[graph])
  <1>1. GameTable[graph] = Game(graph)
    BY DEF GameTable
  <1>2. \A h \in Hypotheses : h.busy \in BOOLEAN
    BY DEF Hypotheses
  <1>3. \A h \in Hypotheses, r \in RecordIds :
          Chance(Distance(graph.edges, r[1], h.cause), h.busy, r[2]) \in Int
    BY <1>2, Distances, Chances
  <1>4. \A h \in Hypotheses : Game(graph).chance[h] =
          [r \in RecordIds |-> Chance(Distance(graph.edges, r[1], h.cause), h.busy, r[2])]
    BY DEF Game
  <1>5. \A h \in Hypotheses : Game(graph).chance[h] \in [RecordIds -> Int]
    BY <1>3, <1>4
  <1>6. /\ Game(graph).utility = UTILITY /\ Game(graph).scale \in Int
        /\ Game(graph).prior \in [Hypotheses -> Int]
    BY DEF Game, SCALE
  <1> QED BY <1>1, <1>5, <1>6 DEF Playable

\* Every world has a generated graph: relabelling it gives its public graph.
LEMMA WorldsAreGenerated ==
  ASSUME NEW d \in Descriptors
  PROVE  LoadCase(d).graph \in DOMAIN GameTable
  <1> DEFINE i == Incidents[d.seed]
             id == [s \in Services |-> s]
             w == GenerateWorld(d.seed)
             p == d.perm
  <1>1. i.edges \in HiddenGraphs /\ p \in Relabellings
    BY SimulatorAssumption DEF Descriptors
  <1>2. \A e \in i.edges : e \in Services \X Services
    BY <1>1 DEF HiddenGraphs
  <1>3. w.graph.entry = 0
    BY Constants DEF GenerateWorld, PublicGraph
  <1>4. w.graph.edges = {<< id[e[1]], id[e[2]] >> : e \in i.edges}
    BY DEF GenerateWorld, PublicGraph
  <1>5. \A e \in i.edges : << id[e[1]], id[e[2]] >> = e
    BY <1>2
  <1> HIDE DEF i, id, w, p
  <1>6. w.graph.edges = i.edges
    BY <1>4, <1>5
  <1>7. LoadCase(d).graph = PublicGraph(i.edges, p)
    BY <1>3, <1>6 DEF LoadCase, Permute, PublicGraph, w, p
  <1> QED BY <1>1, <1>7 DEF GameTable

-----------------------------------------------------------------------------
(* Ledgers and beliefs.                                                      *)

Ledgers == UNION {[R -> BOOLEAN] : R \in SUBSET RecordIds}

\* A ledger says of some records whether they read high.
LEMMA LedgersAre ==
  ASSUME NEW L
  PROVE  L \in Ledgers <=> DOMAIN L \in SUBSET RecordIds /\ L \in [DOMAIN L -> BOOLEAN]
  <1>1. ASSUME L \in Ledgers
        PROVE  DOMAIN L \in SUBSET RecordIds /\ L \in [DOMAIN L -> BOOLEAN]
    <2>1. PICK R \in SUBSET RecordIds : L \in [R -> BOOLEAN]
      BY <1>1 DEF Ledgers
    <2>2. DOMAIN L = R
      BY <2>1
    <2> QED BY <2>1, <2>2
  <1>2. ASSUME DOMAIN L \in SUBSET RecordIds, L \in [DOMAIN L -> BOOLEAN]
        PROVE  L \in Ledgers
    BY <1>2 DEF Ledgers
  <1> QED BY <1>1, <1>2

\* The empty ledger is a function without a record.
LEMMA EmptyLedger ==
  /\ << >> \in Ledgers /\ DOMAIN << >> = {}
  /\ \A f : DOMAIN f = {} /\ f = [x \in DOMAIN f |-> f[x]] => f = << >>
  <1>1. DOMAIN << >> = {}
    OBVIOUS
  <1>2. \A f : DOMAIN f = {} /\ f = [x \in DOMAIN f |-> f[x]] => f = << >>
    OBVIOUS
  <1>3. << >> \in [{} -> BOOLEAN]
    OBVIOUS
  <1>4. << >> \in Ledgers
    <2> DEFINE e == << >>
    <2>1. DOMAIN e = {} /\ e \in [{} -> BOOLEAN]
      BY <1>1, <1>3
    <2> HIDE DEF e
    <2>2. e \in Ledgers
      BY <2>1, LedgersAre
    <2> QED BY <2>2 DEF e
  <1> QED BY <1>1, <1>2, <1>4

(* The chance of each record of M under h.                                     *)
Factors(g, h, M) ==
  [r \in RecordIds |-> IF r \in DOMAIN M /\ M[r] = TRUE THEN g.chance[h][r]
                       ELSE g.scale - g.chance[h][r]]

\* A likelihood is the product of the chances of the records.
LEMMA Likelihoods ==
  ASSUME NEW g, Playable(g), NEW h \in Hypotheses, NEW M \in Ledgers, NEW L \in Ledgers,
         DOMAIN L \subseteq DOMAIN M, \A r \in DOMAIN L : L[r] = M[r]
  PROVE  /\ Factors(g, h, M) \in [RecordIds -> Int]
         /\ Likelihood(g, h, L) = ProductOver(Factors(g, h, M), DOMAIN L)
         /\ Likelihood(g, h, L) \in Int
  <1> DEFINE f == Factors(g, h, M)
             c == g.chance[h]
             T == DOMAIN L
             here == [r \in T |-> IF L[r] THEN c[r] ELSE g.scale - c[r]]
             there == [r \in T |-> f[r]]
  <1>1. T \in SUBSET RecordIds /\ L \in [T -> BOOLEAN] /\ M \in [DOMAIN M -> BOOLEAN]
    BY LedgersAre
  <1>2. c \in [RecordIds -> Int] /\ g.scale \in Int
    BY DEF Playable
  <1>3. f \in [RecordIds -> Int]
    <2> HIDE DEF c
    <2>1. \A r \in RecordIds : c[r] \in Int /\ g.scale - c[r] \in Int
      BY <1>2
    <2> QED BY <2>1 DEF Factors, c
  <1>4. ASSUME NEW r \in T
        PROVE  (IF L[r] THEN c[r] ELSE g.scale - c[r]) = f[r]
    <2>1. f[r] = IF r \in DOMAIN M /\ M[r] = TRUE THEN c[r] ELSE g.scale - c[r]
      BY <1>1 DEF Factors
    <2>2. L[r] = M[r] /\ r \in DOMAIN M
      OBVIOUS
    <2>3. L[r] = TRUE \/ L[r] = FALSE
      BY <1>1
    <2> HIDE DEF f, c
    <2>4. CASE L[r] = TRUE
      BY <2>1, <2>2, <2>4
    <2>5. CASE L[r] = FALSE
      <3>1. ~ (M[r] = TRUE)
        BY <2>2, <2>5
      <3>2. f[r] = g.scale - c[r]
        BY <2>1, <3>1
      <3> QED BY <2>5, <3>2
    <2> QED BY <2>3, <2>4, <2>5
  <1>5. here = there
    <2> HIDE DEF f, c
    <2> QED BY <1>4
  <1>6. Likelihood(g, h, L) = Product(here)
    BY DEF Likelihood, Product
  <1>7. ProductOver(f, T) \in Int
    <2> HIDE DEF f, T
    <2> QED BY <1>1, <1>3, RecordsAreFinite, ProductGrows
  <1> HIDE DEF here
  <1>8. Likelihood(g, h, L) = ProductOver(f, T)
    BY <1>5, <1>6 DEF ProductOver
  <1> HIDE DEF f, T
  <1> QED BY <1>3, <1>7, <1>8 DEF f, T

Beliefs == [Hypotheses -> Int]

\* An update weighs each hypothesis.
LEMMA Updates ==
  ASSUME NEW g, Playable(g), NEW b \in Beliefs, NEW L \in Ledgers
  PROVE  /\ Update(g, b, L) \in Beliefs
         /\ \A h \in Hypotheses : /\ Likelihood(g, h, L) \in Int
                                  /\ Update(g, b, L)[h] = b[h] * Likelihood(g, h, L)
  <1>1. \A h \in Hypotheses : Likelihood(g, h, L) \in Int
    BY Likelihoods
  <1>2. \A x, y \in Int : x * y \in Int
    OBVIOUS
  <1>3. \A h \in Hypotheses : b[h] * Likelihood(g, h, L) \in Int
    BY <1>1, <1>2 DEF Beliefs
  <1>4. Update(g, b, L) = [h \in Hypotheses |-> b[h] * Likelihood(g, h, L)]
    BY DEF Update, Beliefs
  <1> QED BY <1>1, <1>3, <1>4 DEF Beliefs

\* Without a record nothing is learnt.
LEMMA UpdateByNothing ==
  ASSUME NEW g, Playable(g), NEW b \in Beliefs
  PROVE  Update(g, b, << >>) = b
  <1> DEFINE e == << >>
  <1>1. e \in Ledgers /\ DOMAIN e = {}
    BY EmptyLedger
  <1> HIDE DEF e
  <1>2. ASSUME NEW h \in Hypotheses
        PROVE  b[h] * Likelihood(g, h, e) = b[h]
    <2> DEFINE f == Factors(g, h, e)
    <2>1. f \in [RecordIds -> Int] /\ Likelihood(g, h, e) = ProductOver(f, {})
      BY <1>1, Likelihoods
    <2> HIDE DEF f
    <2>2. ProductOver(f, {}) = 1
      BY <2>1, RecordsAreFinite, ProductGrows
    <2>3. b[h] \in Int
      BY DEF Beliefs
    <2> QED BY <2>1, <2>2, <2>3
  <1>3. Update(g, b, e) \in Beliefs /\ \A h \in Hypotheses : Update(g, b, e)[h] = b[h] * Likelihood(g, h, e)
    BY <1>1, Updates
  <1>4. Update(g, b, e) = b
    BY <1>2, <1>3 DEF Beliefs
  <1> QED BY <1>4 DEF e

\* Records that come in two lots count as if they had come in one.
LEMMA UpdateTwice ==
  ASSUME NEW g, Playable(g), NEW b \in Beliefs, NEW L \in Ledgers, NEW U \in Ledgers, NEW M \in Ledgers,
         DOMAIN M = DOMAIN L \cup DOMAIN U, DOMAIN L \cap DOMAIN U = {},
         \A r \in DOMAIN L : L[r] = M[r], \A r \in DOMAIN U : U[r] = M[r]
  PROVE  Update(g, Update(g, b, L), U) = Update(g, b, M)
  <1> DEFINE b2 == Update(g, b, L)
             x(h) == Likelihood(g, h, L)
             y(h) == Likelihood(g, h, U)
             z(h) == Likelihood(g, h, M)
  <1>1. b2 \in Beliefs /\ \A h \in Hypotheses : x(h) \in Int /\ b2[h] = b[h] * x(h)
    BY Updates
  <1>2. /\ Update(g, b, M) \in Beliefs
        /\ \A h \in Hypotheses : z(h) \in Int /\ Update(g, b, M)[h] = b[h] * z(h)
    BY Updates
  <1> HIDE DEF b2
  <1>3. /\ Update(g, b2, U) \in Beliefs
        /\ \A h \in Hypotheses : y(h) \in Int /\ Update(g, b2, U)[h] = b2[h] * y(h)
    BY <1>1, Updates
  <1>4. ASSUME NEW h \in Hypotheses
        PROVE  z(h) = x(h) * y(h)
    <2> DEFINE f == Factors(g, h, M)
               S == DOMAIN L
               T == DOMAIN U
    <2>1. f \in [RecordIds -> Int] /\ z(h) = ProductOver(f, S \cup T)
      BY Likelihoods
    <2>2. x(h) = ProductOver(f, S)
      BY Likelihoods
    <2>3. y(h) = ProductOver(f, T)
      BY Likelihoods
    <2>4. S \in SUBSET RecordIds /\ T \in SUBSET (RecordIds \ S)
      <3>1. S \in SUBSET RecordIds /\ T \in SUBSET RecordIds
        BY LedgersAre
      <3> QED BY <3>1
    <2> HIDE DEF f, S, T, x, y, z
    <2>5. ProductOver(f, S \cup T) = ProductOver(f, S) * ProductOver(f, T)
      BY <2>1, <2>4, RecordsAreFinite, ProductOfUnion
    <2> QED BY <2>1, <2>2, <2>3, <2>5
  <1>5. ASSUME NEW h \in Hypotheses
        PROVE  Update(g, b2, U)[h] = Update(g, b, M)[h]
    <2>1. b[h] \in Int /\ x(h) \in Int /\ y(h) \in Int
      BY <1>1, <1>3 DEF Beliefs
    <2>2. Update(g, b2, U)[h] = (b[h] * x(h)) * y(h)
      BY <1>1, <1>3
    <2>3. Update(g, b, M)[h] = b[h] * (x(h) * y(h))
      BY <1>2, <1>4
    <2> HIDE DEF x, y
    <2> DEFINE i == b[h]
               j == x(h)
               k == y(h)
    <2>4. i \in Int /\ j \in Int /\ k \in Int
      BY <2>1
    <2> HIDE DEF i, j, k
    <2>5. (i * j) * k = i * (j * k)
      BY <2>4
    <2> QED BY <2>2, <2>3, <2>5 DEF i, j, k
  <1> QED BY <1>2, <1>3, <1>5 DEF b2, Beliefs

-----------------------------------------------------------------------------
(* Episodes.                                                                 *)

Worlds  == {LoadCase(d) : d \in Descriptors}
Reasons == {"none", "stop", "budget", "horizon", "no_probe"}

Episodes(cases) ==
  [desc : Descriptors, case : cases, world : Worlds, ledger : Ledgers, belief : Beliefs,
   executed : Seq(Probing), credits : Int, reason : Reasons, return : Int]

\* Every generated world is one the belief has a table for.
LEMMA WorldsAreGames ==
  ASSUME NEW w \in Worlds
  PROVE  Playable(GameTable[w.graph])
  <1>1. PICK d \in Descriptors : w = LoadCase(d)
    BY DEF Worlds
  <1> QED BY <1>1, WorldsAreGenerated, GamesArePlayable

\* An episode begins with nothing known.
LEMMA Resets ==
  ASSUME NEW d \in Descriptors, NEW case
  PROVE  /\ Reset(d, case) \in Episodes({case})
         /\ Reset(d, case).desc = d /\ Reset(d, case).case = case
         /\ Reset(d, case).world = LoadCase(d) /\ Reset(d, case).ledger = << >>
         /\ Reset(d, case).belief = GameTable[LoadCase(d).graph].prior
         /\ Reset(d, case).executed = << >> /\ Reset(d, case).credits = INITIAL_BUDGET
         /\ Reset(d, case).reason = "none" /\ Reset(d, case).return = 0
  <1>1. LoadCase(d) \in Worlds /\ << >> \in Ledgers /\ << >> \in Seq(Probing)
    BY EmptyLedger DEF Worlds
  <1>2. GameTable[LoadCase(d).graph].prior \in Beliefs
    BY <1>1, WorldsAreGames DEF Playable, Beliefs
  <1>3. "none" \in Reasons /\ 0 \in Int /\ INITIAL_BUDGET \in Int
    BY Constants DEF Reasons
  <1> DEFINE b == GameTable[LoadCase(d).graph].prior
             w == LoadCase(d)
             l == << >>
  <1>4. Reset(d, case) = [desc |-> d, case |-> case, world |-> w, ledger |-> l,
           belief |-> b, executed |-> << >>,
           credits |-> INITIAL_BUDGET, reason |-> "none", return |-> 0]
    BY DEF Reset
  <1>5. w \in Worlds /\ b \in Beliefs /\ l \in Ledgers
    BY <1>1, <1>2
  <1> HIDE DEF b, w, l
  <1>6. Reset(d, case) \in Episodes({case})
    BY <1>1, <1>3, <1>4, <1>5 DEF Episodes
  <1> QED BY <1>4, <1>6 DEF b, w, l

(* What a probe reads.                                                         *)
Records(e, a) == [r \in Covers(a) |-> Reading(e.world, r)]

\* Records are ledgers, and so is what they add to one.
LEMMA RecordsAreLedgers ==
  ASSUME NEW cases, NEW e \in Episodes(cases), NEW a \in Probing
  PROVE  /\ Records(e, a) \in Ledgers /\ DOMAIN Records(e, a) = Covers(a)
         /\ \A r \in Covers(a) : Records(e, a)[r] = Reading(e.world, r)
         /\ LedgerAdd(e.ledger, Records(e, a)) \in Ledgers
         /\ Unseen(e.ledger, Records(e, a)) \in Ledgers
  <1> DEFINE R == Records(e, a)
             L == e.ledger
             A == LedgerAdd(L, R)
             U == Unseen(L, R)
  <1>1. Covers(a) \in SUBSET RecordIds
    BY Probed
  <1>2. \A r : Reading(e.world, r) \in BOOLEAN
    BY DEF Reading
  <1>3. DOMAIN R = Covers(a) /\ R \in [DOMAIN R -> BOOLEAN]
    BY <1>2 DEF Records
  <1>4. R \in Ledgers
    <2> HIDE DEF R
    <2> QED BY <1>1, <1>3, LedgersAre
  <1>5. DOMAIN L \in SUBSET RecordIds /\ L \in [DOMAIN L -> BOOLEAN]
    <2>1. L \in Ledgers
      BY DEF Episodes
    <2> HIDE DEF L
    <2> QED BY <2>1, LedgersAre
  <1> HIDE DEF R, L
  <1>6. DOMAIN A = DOMAIN L \cup DOMAIN R /\ A \in [DOMAIN A -> BOOLEAN]
    BY <1>3, <1>5 DEF LedgerAdd
  <1>7. DOMAIN U = DOMAIN R \ DOMAIN L /\ U \in [DOMAIN U -> BOOLEAN]
    BY <1>3, <1>5 DEF Unseen
  <1> HIDE DEF A, U
  <1>8. A \in Ledgers
    <2>1. DOMAIN A \in SUBSET RecordIds
      BY <1>1, <1>3, <1>5, <1>6
    <2> QED BY <1>6, <2>1, LedgersAre
  <1>9. U \in Ledgers
    <2>1. DOMAIN U \in SUBSET RecordIds
      BY <1>1, <1>3, <1>5, <1>7
    <2> QED BY <1>7, <2>1, LedgersAre
  <1>10. \A r \in Covers(a) : R[r] = Reading(e.world, r)
    BY DEF R, Records
  <1> QED BY <1>3, <1>4, <1>8, <1>9, <1>10 DEF A, U, R, L

(* A step with a probe and one with STOP, field by field.                      *)
ProbeFields(tools, cases, e, a, after) ==
  /\ Step(tools, e, a) = after /\ after \in Episodes(cases)
  /\ after.desc = e.desc /\ after.case = e.case /\ after.world = e.world
  /\ after.ledger = LedgerAdd(e.ledger, Records(e, a))
  /\ after.belief = Update(GameOf(e), e.belief, Unseen(e.ledger, Records(e, a)))
  /\ after.executed = Append(e.executed, a)
  /\ after.credits = e.credits - CostOf(a)
  /\ after.reason = ProbeTerminationReason(tools, after.credits, Probes(after), DOMAIN after.ledger)
  /\ after.return = e.return + Score(GameOf(e), after, CostOf(a), after.reason # "none")

StopFields(tools, cases, e, after) ==
  /\ Step(tools, e, STOP) = after /\ after \in Episodes(cases)
  /\ after.desc = e.desc /\ after.case = e.case /\ after.world = e.world
  /\ after.ledger = e.ledger /\ after.belief = e.belief /\ after.executed = e.executed
  /\ after.credits = e.credits /\ after.reason = "stop"
  /\ after.return = e.return + Score(GameOf(e), e, 0, TRUE)

\* A step with a probe reads its records and pays for them.
LEMMA ProbeSteps ==
  ASSUME NEW tools, NEW cases, NEW e \in Episodes(cases), NEW a \in Probing,
         NEW after, after = StepProbe(tools, e, a)
  PROVE  ProbeFields(tools, cases, e, a, after)
  <1> DEFINE R == Records(e, a)
             l == LedgerAdd(e.ledger, R)
             b == Update(GameOf(e), e.belief, Unseen(e.ledger, R))
             x == Append(e.executed, a)
             c == e.credits - CostOf(a)
             p == [e EXCEPT !.ledger = l, !.belief = b, !.credits = c, !.executed = x]
             reason == ProbeTerminationReason(tools, c, Len(x), DOMAIN l)
             prize == Score(GameOf(e), p, CostOf(a), reason # "none")
             f == [p EXCEPT !.reason = reason, !.return = @ + prize]
  <1>1. l \in Ledgers
    BY RecordsAreLedgers
  <1>2. b \in Beliefs
    <2>1. Playable(GameOf(e))
      BY WorldsAreGames DEF Episodes, GameOf
    <2>2. Unseen(e.ledger, R) \in Ledgers /\ e.belief \in Beliefs
      BY RecordsAreLedgers DEF Episodes
    <2> HIDE DEF R
    <2> QED BY <2>1, <2>2, Updates
  <1>3. x \in Seq(Probing) /\ c \in Int /\ CostOf(a) \in Int
    BY Probed DEF Episodes
  <1> HIDE DEF R, l, b, x, c
  <1>4. p \in Episodes(cases)
    BY <1>1, <1>2, <1>3 DEF Episodes
  <1>5. /\ p.desc = e.desc /\ p.case = e.case /\ p.world = e.world /\ p.ledger = l /\ p.belief = b
        /\ p.executed = x /\ p.credits = c /\ p.return = e.return /\ e.return \in Int
    BY DEF Episodes
  <1> HIDE DEF p
  <1>6. reason \in Reasons
    <2>1. Len(x) \in Nat
      BY <1>3
    <2>2. reason \in {"none", "budget", "horizon", "no_probe"}
      BY <1>3, <2>1, Constants DEF ProbeTerminationReason
    <2> HIDE DEF reason
    <2> QED BY <2>2 DEF Reasons
  <1>7. prize \in Int
    <2>1. GameOf(e).utility \in Int
      BY WorldsAreGames, Constants DEF Episodes, GameOf, Playable
    <2> QED BY <1>3, <2>1 DEF Score
  <1> HIDE DEF reason, prize
  <1>8. f \in Episodes(cases)
    <2> DEFINE total == p.return + prize
    <2>1. total \in Int
      BY <1>4, <1>7 DEF Episodes
    <2>2. f = [p EXCEPT !.reason = reason, !.return = total]
      BY <1>4 DEF Episodes
    <2> HIDE DEF total, f
    <2> QED BY <1>4, <1>6, <2>1, <2>2 DEF Episodes
  <1>9. /\ f.desc = e.desc /\ f.case = e.case /\ f.world = e.world /\ f.ledger = l /\ f.belief = b
        /\ f.executed = x /\ f.credits = c /\ f.reason = reason /\ f.return = e.return + prize
    BY <1>4, <1>5 DEF Episodes
  <1>10. StepProbe(tools, e, a) = f
    BY <1>5 DEF StepProbe, p, l, b, x, c, R, Records, reason, prize, Probes
  <1>11. Step(tools, e, a) = StepProbe(tools, e, a) /\ f = after
    BY <1>10, Probed DEF Step
  <1> HIDE DEF f
  <1>12. prize = Score(GameOf(e), f, CostOf(a), f.reason # "none")
    BY <1>5, <1>9 DEF prize, Score
  <1>13. reason = ProbeTerminationReason(tools, f.credits, Probes(f), DOMAIN f.ledger)
    BY <1>9 DEF reason, Probes
  <1>14. /\ f.ledger = LedgerAdd(e.ledger, Records(e, a))
         /\ f.belief = Update(GameOf(e), e.belief, Unseen(e.ledger, Records(e, a)))
         /\ f.executed = Append(e.executed, a) /\ f.credits = e.credits - CostOf(a)
    BY <1>9 DEF l, b, x, c, R
  <1> QED BY <1>8, <1>9, <1>10, <1>11, <1>12, <1>13, <1>14 DEF ProbeFields

\* A step with STOP ends the episode and settles it.
LEMMA StopSteps ==
  ASSUME NEW tools, NEW cases, NEW e \in Episodes(cases), NEW after, after = StepStop(e)
  PROVE  StopFields(tools, cases, e, after)
  <1> DEFINE prize == Score(GameOf(e), e, 0, TRUE)
             f == [e EXCEPT !.reason = "stop", !.return = @ + prize]
  <1>1. prize \in Int
    <2>1. GameOf(e).utility \in Int
      BY WorldsAreGames, Constants DEF Episodes, GameOf, Playable
    <2> QED BY <2>1 DEF Score
  <1>2. StepStop(e) = f /\ Step(tools, e, STOP) = StepStop(e) /\ f = after
    BY DEF StepStop, Step
  <1> HIDE DEF prize
  <1>3. f \in Episodes(cases)
    <2> DEFINE total == e.return + prize
    <2>1. total \in Int /\ "stop" \in Reasons
      BY <1>1 DEF Episodes, Reasons
    <2>2. f = [e EXCEPT !.reason = "stop", !.return = total]
      BY DEF Episodes
    <2> HIDE DEF total, f
    <2> QED BY <2>1, <2>2 DEF Episodes
  <1>4. /\ f.desc = e.desc /\ f.case = e.case /\ f.world = e.world
        /\ f.ledger = e.ledger /\ f.belief = e.belief /\ f.executed = e.executed
        /\ f.credits = e.credits /\ f.reason = "stop" /\ f.return = e.return + prize
    BY DEF Episodes
  <1> HIDE DEF f
  <1> QED BY <1>2, <1>3, <1>4 DEF prize, StopFields

-----------------------------------------------------------------------------
(* Soundness of one episode.                                                 *)

Spent(s) == SumFunction([k \in DOMAIN s |-> CostOf(s[k])])

\* What was spent is a whole number, and one probe more costs what it costs.
LEMMA SpentGrows ==
  ASSUME NEW s \in Seq(Probing)
  PROVE  /\ Spent(s) \in Int /\ Spent(<< >>) = 0
         /\ \A a \in Probing : Spent(Append(s, a)) = Spent(s) + CostOf(a)
  <1>1. \A q \in Seq(Probing) : DOMAIN q = 1 .. Len(q) /\ Len(q) \in Nat
    OBVIOUS
  <1> DEFINE Prices(q) == [k \in 1 .. Len(q) |-> CostOf(q[k])]
  <1>2. ASSUME NEW q \in Seq(Probing)
        PROVE  /\ IsFiniteSet(1 .. Len(q)) /\ Prices(q) \in [1 .. Len(q) -> Int]
               /\ \A n \in 0 .. Len(q) :
                    /\ 1 .. n \in SUBSET (1 .. Len(q))
                    /\ SumOver(Prices(q), 1 .. n) = SumFunction([k \in 1 .. n |-> CostOf(q[k])])
    <2> DEFINE f == Prices(q)
    <2>1. IsFiniteSet(1 .. Len(q))
      BY <1>1, FS_Interval
    <2>2. \A k \in 1 .. Len(q) : q[k] \in Probing /\ CostOf(q[k]) \in Int
      BY <1>1, Probed
    <2>3. ASSUME NEW n \in 0 .. Len(q)
          PROVE  /\ 1 .. n \in SUBSET (1 .. Len(q))
                 /\ SumOver(f, 1 .. n) = SumFunction([k \in 1 .. n |-> CostOf(q[k])])
      <3>1. 1 .. n \in SUBSET (1 .. Len(q))
        BY <1>1
      <3>2. [k \in 1 .. n |-> f[k]] = [k \in 1 .. n |-> CostOf(q[k])]
        BY <3>1
      <3> QED BY <3>1, <3>2 DEF SumOver
    <2> QED BY <2>1, <2>2, <2>3
  <1>3. ASSUME NEW q \in Seq(Probing)
        PROVE  Spent(q) = SumOver(Prices(q), 1 .. Len(q)) /\ Spent(q) \in Int
    <2> DEFINE D == 1 .. Len(q)
    <2>1. Spent(q) = SumFunction([k \in 1 .. Len(q) |-> CostOf(q[k])]) /\ Len(q) \in 0 .. Len(q)
      BY <1>1 DEF Spent
    <2> HIDE DEF Prices
    <2>2. Spent(q) = SumOver(Prices(q), 1 .. Len(q))
      BY <1>2, <2>1
    <2>3. IsFiniteSet(D) /\ Prices(q) \in [D -> Int]
      BY <1>2
    <2> HIDE DEF D
    <2>4. SumOver(Prices(q), D) \in Int
      BY <2>3, SumGrows
    <2> QED BY <2>2, <2>4 DEF D
  <1>4. Spent(<< >>) = 0
    <2> DEFINE q == << >>
               D == 1 .. Len(q)
    <2>1. q \in Seq(Probing) /\ 1 .. Len(q) = {}
      OBVIOUS
    <2> HIDE DEF q, Prices
    <2>2. IsFiniteSet(D) /\ Prices(q) \in [D -> Int] /\ Spent(q) = SumOver(Prices(q), {})
      BY <1>2, <1>3, <2>1
    <2> HIDE DEF D
    <2>3. SumOver(Prices(q), {}) = 0
      BY <2>2, SumGrows
    <2> QED BY <2>2, <2>3 DEF q
  <1>5. ASSUME NEW a \in Probing
        PROVE  Spent(Append(s, a)) = Spent(s) + CostOf(a)
    <2> DEFINE q == Append(s, a)
               n == Len(s)
               D == 1 .. Len(q)
               T == 1 .. n
               m == n + 1
               f == Prices(q)
    <2>1. /\ q \in Seq(Probing) /\ Len(q) = m /\ n \in Nat /\ m \in Nat /\ q[m] = a
          /\ \A k \in 1 .. n : q[k] = s[k]
      OBVIOUS
    <2> HIDE DEF q
    <2>2. T \in SUBSET D /\ m \in D \ T /\ T \cup {m} = D /\ n \in 0 .. Len(q)
      BY <2>1
    <2>3. f[m] = CostOf(a)
      BY <2>1, <2>2
    <2>4. [k \in T |-> CostOf(q[k])] = [k \in DOMAIN s |-> CostOf(s[k])]
      BY <1>1, <2>1
    <2> HIDE DEF Prices
    <2>5. Spent(s) = SumOver(f, T)
      BY <1>2, <2>1, <2>2, <2>4 DEF Spent
    <2>6. IsFiniteSet(D) /\ f \in [D -> Int] /\ Spent(q) = SumOver(f, D)
      BY <1>2, <1>3, <2>1
    <2> HIDE DEF f, D, T, m, n
    <2>7. SumOver(f, T \cup {m}) = f[m] + SumOver(f, T) /\ SumOver(f, T) \in Int
      BY <2>2, <2>6, SumGrows
    <2>8. CostOf(a) \in Int
      BY Probed
    <2>9. Spent(q) = Spent(s) + CostOf(a)
      <3> DEFINE u == SumOver(f, T)
                 v == CostOf(a)
      <3>1. u \in Int /\ v \in Int /\ Spent(q) = v + u
        BY <2>2, <2>3, <2>6, <2>7, <2>8
      <3> HIDE DEF u, v
      <3>2. Spent(q) = u + v
        BY <3>1
      <3> QED BY <2>5, <3>2 DEF u, v
    <2> QED BY <2>9 DEF q
  <1> QED BY <1>3, <1>4, <1>5

(* The records of the executed probes.                                         *)
Covered(s) == UNION {Covers(s[k]) : k \in DOMAIN s}

\* One probe more covers its records besides.
LEMMA CoveredGrows ==
  ASSUME NEW s \in Seq(Probing), NEW a \in Probing
  PROVE  /\ Covered(<< >>) = {} /\ Covered(Append(s, a)) = Covered(s) \cup Covers(a)
  <1> DEFINE q == Append(s, a)
             n == Len(s)
  <1>1. /\ n \in Nat /\ DOMAIN s = 1 .. n /\ DOMAIN q = 1 .. (n + 1) /\ q[n + 1] = a
        /\ \A k \in 1 .. n : q[k] = s[k]
    OBVIOUS
  <1> HIDE DEF q, n
  <1>2. 1 .. (n + 1) = (1 .. n) \cup {n + 1}
    BY <1>1
  <1>3. ASSUME NEW r
        PROVE  r \in Covered(q) <=> r \in Covered(s) \cup Covers(a)
    BY <1>1, <1>2 DEF Covered
  <1> QED BY <1>3 DEF Covered, q

\* A probe's number can be read back.
LEMMA Decodes ==
  ASSUME NEW s \in Services, NEW t \in DOMAIN Template
  PROVE  /\ ProbeAction(s, t) \in Probing
         /\ DecodeProbe(ProbeAction(s, t))[1] = s /\ DecodeProbe(ProbeAction(s, t))[2] = t
         /\ Covers(ProbeAction(s, t)) # {}
  <1> DEFINE a == ProbeAction(s, t)
  <1>1. t \in 1 .. 4 /\ s \in Nat /\ a = 4 * s + t - 1
    BY Templates, Constants DEF ProbeAction
  <1>2. a \div 4 = s /\ a % 4 = t - 1
    BY <1>1
  <1>3. DecodeProbe(a)[1] = s /\ DecodeProbe(a)[2] = t
    BY <1>1, <1>2, Templates DEF DecodeProbe
  <1>4. Covers(a) = {s} \X {Template[t].tool} \X Template[t].readings
    BY <1>3 DEF Covers, EvidenceIds
  <1>5. Template[t].readings # {}
    BY <1>1, Templates
  <1>6. PICK k \in Template[t].readings : TRUE
    BY <1>5
  <1>7. << s, Template[t].tool, k >> \in Covers(a)
    BY <1>4
  <1>8. Covers(a) # {}
    BY <1>7
  <1> QED BY <1>3, <1>8 DEF Probing

(* What every episode owes, and an open one besides: it has a probe left.      *)
EpisodeOk(tools, e) ==
  /\ e \in Episodes({e.case}) /\ e.world = LoadCase(e.desc)
  /\ Sound(e)
  /\ Terminated(e) \/ (Probes(e) < MAX_PROBES /\ Mask(tools, e) # {STOP})

\* A new episode is sound and open.
LEMMA ResetIsOk ==
  ASSUME NEW tools \in {Tools, AllTools}, NEW d \in Descriptors, NEW case
  PROVE  EpisodeOk(tools, Reset(d, case)) /\ ~ Terminated(Reset(d, case))
  <1> DEFINE e == Reset(d, case)
             none == << >>
  <1>1. /\ e \in Episodes({case}) /\ e.desc = d /\ e.case = case /\ e.world = LoadCase(d)
        /\ e.ledger = none /\ e.belief = GameTable[LoadCase(d).graph].prior
        /\ e.executed = none /\ e.credits = INITIAL_BUDGET /\ e.reason = "none" /\ e.return = 0
    BY Resets
  <1>2. none \in Seq(Probing) /\ DOMAIN none = {} /\ Len(none) = 0
    OBVIOUS
  <1> HIDE DEF e, none
  <1>3. Covered(none) = {} /\ Spent(none) = 0
    <2>1. Covered(none) = {}
      BY <1>2 DEF Covered
    <2>2. Spent(none) = 0
      BY <1>2, SpentGrows DEF none
    <2> QED BY <2>1, <2>2
  <1>4. e.ledger = [r \in UNION {Covers(e.executed[k]) : k \in DOMAIN e.executed} |-> Reading(e.world, r)]
    <2> DEFINE f == [r \in Covered(none) |-> Reading(e.world, r)]
    <2>1. DOMAIN f = {} /\ f = [x \in DOMAIN f |-> f[x]]
      BY <1>3
    <2> HIDE DEF f
    <2>2. f = none
      BY <2>1, EmptyLedger DEF none
    <2> QED BY <1>1, <2>2 DEF f, Covered
  <1>5. e.belief = Update(GameOf(e), GameOf(e).prior, e.ledger)
    <2>1. e.world \in Worlds
      BY <1>1 DEF Episodes
    <2>2. Playable(GameOf(e)) /\ GameOf(e).prior \in Beliefs
      BY <2>1, WorldsAreGames DEF GameOf, Playable, Beliefs
    <2>3. e.belief = GameOf(e).prior
      BY <1>1 DEF GameOf
    <2> QED BY <1>1, <2>2, <2>3, UpdateByNothing DEF none
  <1>6. Informed(e)
    BY <1>1, <1>2 DEF Informed
  <1>7. CreditsSpent(e) = 0
    BY <1>1, <1>3 DEF CreditsSpent, Spent
  <1>8. e.return = Score(GameOf(e), e, CreditsSpent(e), Terminated(e)) /\ ~ Terminated(e)
    BY <1>1, <1>7 DEF Score, Terminated
  <1>9. Probes(e) = 0
    BY <1>1, <1>2 DEF Probes
  <1>10. Sound(e)
    <2>1. e.credits = INITIAL_BUDGET - CreditsSpent(e) /\ e.credits >= 0 /\ Probes(e) <= MAX_PROBES
      BY <1>1, <1>7, <1>9, Constants
    <2> QED BY <1>4, <1>5, <1>6, <1>8, <2>1 DEF Sound
  <1>11. Mask(tools, e) # {STOP}
    <2>1. PICK s \in Services, t \in DOMAIN Template :
                 Template[t].tool \in tools[s] /\ Template[t].cost <= INITIAL_BUDGET
      BY ProbeAssumption
    <2> DEFINE a == ProbeAction(s, t)
    <2>2. /\ a \in Probing /\ DecodeProbe(a)[1] = s /\ DecodeProbe(a)[2] = t /\ Covers(a) # {}
      BY Decodes
    <2>3. a # STOP
      <3> HIDE DEF a
      <3> QED BY <2>2, Probed
    <2>4. DOMAIN e.ledger = {}
      BY <1>1, <1>2
    <2>5. CostOf(a) <= e.credits
      BY <1>1, <2>1, <2>2 DEF CostOf
    <2>6. a \in Buyable(tools, e.credits, DOMAIN e.ledger)
      <3>1. ~ (Covers(a) \subseteq DOMAIN e.ledger)
        BY <2>2, <2>4
      <3>2. Template[DecodeProbe(a)[2]].tool \in tools[DecodeProbe(a)[1]]
        BY <2>1, <2>2
      <3> HIDE DEF a
      <3> QED BY <2>2, <2>5, <3>1, <3>2 DEF Buyable
    <2>7. a \in Mask(tools, e)
      BY <1>8, <2>6, Masked
    <2> QED BY <2>3, <2>7
  <1>12. EpisodeOk(tools, e)
    <2>1. Probes(e) < MAX_PROBES
      BY <1>9, Constants
    <2> QED BY <1>1, <1>10, <1>11, <2>1 DEF EpisodeOk
  <1> QED BY <1>8, <1>12 DEF e

\* What is spent and what is won are the return, in either order.
LEMMA Settles ==
  ASSUME NEW spent \in Int, NEW prize \in Int
  PROVE  (0 - spent) + (prize - 0) = prize - spent
  OBVIOUS

\* STOP leaves everything as it is, but for the diagnosis that is rewarded.
LEMMA StopIsSound ==
  ASSUME NEW e, e \in Episodes({e.case}), Sound(e), ~ Terminated(e), NEW f,
         f.world = e.world, f.ledger = e.ledger, f.belief = e.belief, f.executed = e.executed,
         f.credits = e.credits, f.reason = "stop",
         f.return = e.return + Score(GameOf(e), e, 0, TRUE)
  PROVE  Sound(f) /\ Terminated(f)
  <1> DEFINE g == GameOf(e)
             spent == CreditsSpent(e)
             prize == IF Predicted(g, e.belief) = e.world.cause THEN g.utility ELSE 0
  <1>1. GameOf(f) = g /\ CreditsSpent(f) = spent /\ Probes(f) = Probes(e)
    BY DEF GameOf, CreditsSpent, Probes
  <1>2. Informed(f)
    BY DEF Informed, Sound
  <1>3. Terminated(f)
    BY DEF Terminated
  <1>4. spent \in Int /\ prize \in Int
    <2>1. e.executed \in Seq(Probing) /\ e.world \in Worlds
      BY DEF Episodes
    <2>2. g.utility \in Int
      BY <2>1, WorldsAreGames, Constants DEF GameOf, Playable
    <2>3. CreditsSpent(e) = Spent(e.executed)
      BY DEF CreditsSpent, Spent
    <2> HIDE DEF g
    <2> QED BY <2>1, <2>2, <2>3, SpentGrows
  <1>5. e.return = 0 - spent
    BY DEF Sound, Score
  <1>6. Score(g, e, 0, TRUE) = prize - 0 /\ Score(g, f, spent, Terminated(f)) = prize - spent
    BY <1>3 DEF Score
  <1>7. f.return = e.return + Score(g, e, 0, TRUE)
    OBVIOUS
  <1> DEFINE settled == Score(g, f, spent, Terminated(f))
             bonus == Score(g, e, 0, TRUE)
  <1>8. f.return = e.return + bonus /\ bonus = prize - 0 /\ settled = prize - spent
    BY <1>6, <1>7
  <1> HIDE DEF settled, bonus, spent, prize
  <1>9. f.return = settled
    BY <1>4, <1>5, <1>8, Settles
  <1>10. f.return = Score(GameOf(f), f, CreditsSpent(f), Terminated(f))
    BY <1>1, <1>9 DEF settled
  <1>11. /\ f.ledger = [r \in UNION {Covers(f.executed[k]) : k \in DOMAIN f.executed} |->
                           Reading(f.world, r)]
         /\ f.belief = Update(GameOf(f), GameOf(f).prior, f.ledger)
    BY <1>1 DEF Sound
  <1>12. f.credits = INITIAL_BUDGET - CreditsSpent(f) /\ f.credits >= 0 /\ Probes(f) <= MAX_PROBES
    BY <1>1 DEF Sound, spent
  <1> QED BY <1>2, <1>3, <1>10, <1>11, <1>12 DEF Sound

\* A probe that may be chosen adds its records to the ledger, once.
LEMMA ProbeIsSound ==
  ASSUME NEW tools, NEW e, e \in Episodes({e.case}), Sound(e), ~ Terminated(e), Probes(e) < MAX_PROBES,
         NEW a \in Buyable(tools, e.credits, DOMAIN e.ledger), NEW f, f = StepProbe(tools, e, a)
  PROVE  Sound(f)
  <1> DEFINE g == GameOf(e)
             R == Records(e, a)
             L == e.ledger
             U == Unseen(L, R)
             s == e.executed
             w == e.world
             spent == Spent(s)
             cost == CostOf(a)
  <1>1. a \in Probing /\ cost <= e.credits /\ ~ (Covers(a) \subseteq DOMAIN L)
    BY DEF Buyable
  <1>2. /\ f \in Episodes({e.case}) /\ f.world = w /\ f.ledger = LedgerAdd(L, R)
        /\ f.belief = Update(g, e.belief, U) /\ f.executed = Append(s, a)
        /\ f.credits = e.credits - cost
        /\ f.return = e.return + Score(g, f, cost, f.reason # "none")
    <2>1. ProbeFields(tools, {e.case}, e, a, f)
      BY <1>1, ProbeSteps
    <2> QED BY <2>1 DEF ProbeFields
  <1>3. /\ R \in Ledgers /\ DOMAIN R = Covers(a) /\ \A r \in Covers(a) : R[r] = Reading(w, r)
        /\ f.ledger \in Ledgers /\ U \in Ledgers
    BY <1>1, <1>2, RecordsAreLedgers
  <1>4. /\ s \in Seq(Probing) /\ w \in Worlds /\ e.belief \in Beliefs /\ L \in Ledgers
        /\ e.credits \in Int /\ Playable(g) /\ g.prior \in Beliefs
    BY WorldsAreGames DEF Episodes, GameOf, Playable, Beliefs
  <1>5. L = [r \in Covered(s) |-> Reading(w, r)] /\ e.belief = Update(g, g.prior, L)
    BY DEF Sound, Covered
  <1>6. spent \in Int /\ Spent(f.executed) = spent + cost /\ cost \in Nat
        /\ Covered(f.executed) = Covered(s) \cup Covers(a)
    BY <1>1, <1>2, <1>4, SpentGrows, CoveredGrows, Probed
  <1>7. GameOf(f) = g
    BY <1>2 DEF GameOf
  <1> HIDE DEF g, R, U, w, cost, spent
  <1>8. f.ledger = [r \in Covered(f.executed) |-> Reading(f.world, r)]
    <2>1. f.ledger = [r \in DOMAIN L \cup DOMAIN R |-> IF r \in DOMAIN L THEN L[r] ELSE R[r]]
      BY <1>2 DEF LedgerAdd
    <2>2. DOMAIN L \cup DOMAIN R = Covered(f.executed)
      BY <1>3, <1>5, <1>6
    <2>3. \A r \in DOMAIN L \cup DOMAIN R : (IF r \in DOMAIN L THEN L[r] ELSE R[r]) = Reading(f.world, r)
      <3>1. \A r \in DOMAIN L : L[r] = Reading(f.world, r)
        BY <1>2, <1>5
      <3>2. \A r \in DOMAIN R : R[r] = Reading(f.world, r)
        BY <1>2, <1>3
      <3> HIDE DEF L
      <3> QED BY <3>1, <3>2
    <2> HIDE DEF L
    <2> QED BY <2>1, <2>2, <2>3
  <1>9. f.belief = Update(g, g.prior, f.ledger)
    <2>1. DOMAIN f.ledger = DOMAIN L \cup DOMAIN R /\ DOMAIN U = DOMAIN R \ DOMAIN L
      BY <1>2 DEF LedgerAdd, U, Unseen
    <2>2. \A r \in DOMAIN L : L[r] = f.ledger[r]
      BY <1>2 DEF LedgerAdd
    <2>3. \A r \in DOMAIN U : U[r] = f.ledger[r]
      <3>1. \A r \in DOMAIN U : U[r] = R[r] /\ r \notin DOMAIN L /\ r \in DOMAIN R
        BY <2>1 DEF U, Unseen
      <3>2. \A r \in DOMAIN R \ DOMAIN L : f.ledger[r] = R[r]
        BY <1>2 DEF LedgerAdd
      <3> QED BY <2>1, <3>1, <3>2
    <2>4. DOMAIN f.ledger = DOMAIN L \cup DOMAIN U /\ DOMAIN L \cap DOMAIN U = {}
      BY <2>1
    <2> DEFINE M == f.ledger
               p == g.prior
    <2>6. /\ M \in Ledgers /\ U \in Ledgers /\ L \in Ledgers /\ Playable(g) /\ p \in Beliefs
          /\ DOMAIN M = DOMAIN L \cup DOMAIN U /\ DOMAIN L \cap DOMAIN U = {}
          /\ (\A r \in DOMAIN L : L[r] = M[r]) /\ (\A r \in DOMAIN U : U[r] = M[r])
      BY <1>3, <1>4, <2>2, <2>3, <2>4
    <2> HIDE DEF M, L, p
    <2>7. Update(g, Update(g, p, L), U) = Update(g, p, M)
      BY <2>6, UpdateTwice
    <2>5. Update(g, Update(g, g.prior, L), U) = Update(g, g.prior, M)
      BY <2>7 DEF p
    <2> QED BY <1>2, <1>5, <2>5 DEF M
  <1>10. Informed(f)
    <2> DEFINE q == f.executed
               n == Len(s)
    <2>1. /\ n \in Nat /\ DOMAIN q = 1 .. (n + 1) /\ DOMAIN s = 1 .. n /\ q[n + 1] = a
          /\ \A k \in 1 .. n : q[k] = s[k]
      BY <1>2, <1>4
    <2>2. ASSUME NEW k \in DOMAIN q
          PROVE  ~ (Covers(q[k]) \subseteq UNION {Covers(q[j]) : j \in 1 .. k-1})
      <3>1. CASE k = n + 1
        <4>1. UNION {Covers(q[j]) : j \in 1 .. k-1} = Covered(s)
          <5>1. k - 1 = n
            BY <2>1, <3>1
          <5>2. {Covers(q[j]) : j \in 1 .. n} = {Covers(s[j]) : j \in DOMAIN s}
            BY <2>1
          <5> QED BY <5>1, <5>2 DEF Covered
        <4>2. Covered(s) = DOMAIN L
          BY <1>5
        <4> HIDE DEF q, L, s
        <4> QED BY <1>1, <2>1, <3>1, <4>1, <4>2
      <3>2. CASE k # n + 1
        <4>1. k \in 1 .. n /\ \A j \in 1 .. k-1 : j \in 1 .. n
          BY <2>1, <3>2
        <4>2. {Covers(q[j]) : j \in 1 .. k-1} = {Covers(s[j]) : j \in 1 .. k-1}
          BY <2>1, <4>1
        <4>3. ~ (Covers(s[k]) \subseteq UNION {Covers(s[j]) : j \in 1 .. k-1})
          BY <2>1, <4>1 DEF Sound, Informed
        <4>4. q[k] = s[k]
          BY <2>1, <4>1
        <4> HIDE DEF q, s
        <4> QED BY <4>2, <4>3, <4>4
      <3> QED BY <3>1, <3>2
    <2> QED BY <2>2 DEF Informed
  <1>11. CreditsSpent(f) = spent + cost /\ CreditsSpent(e) = spent
    BY <1>6 DEF CreditsSpent, Spent, spent
  <1>12. f.credits = INITIAL_BUDGET - CreditsSpent(f) /\ f.credits >= 0
    <2>1. e.credits = INITIAL_BUDGET - spent
      BY <1>11 DEF Sound
    <2> QED BY <1>1, <1>2, <1>4, <1>6, <1>11, <2>1, Constants
  <1>13. Probes(f) <= MAX_PROBES
    <2>1. Len(f.executed) = Len(s) + 1 /\ Len(s) \in Nat
      BY <1>2, <1>4
    <2> QED BY <2>1, Constants DEF Probes
  <1>14. f.return = Score(GameOf(f), f, CreditsSpent(f), Terminated(f))
    <2> DEFINE prize == IF f.reason # "none" /\ Predicted(g, f.belief) = f.world.cause THEN g.utility ELSE 0
    <2>1. e.return = 0 - spent
      BY <1>11 DEF Sound, Score
    <2>2. Score(g, f, cost, f.reason # "none") = prize - cost
      BY DEF Score
    <2>3. Score(g, f, spent + cost, Terminated(f)) = prize - (spent + cost)
      BY DEF Score, Terminated
    <2>4. prize \in Int
      BY <1>4, Constants DEF Playable
    <2> HIDE DEF prize
    <2>5. f.return = prize - (spent + cost)
      BY <1>2, <1>6, <2>1, <2>2, <2>4
    <2> QED BY <1>7, <1>11, <2>3, <2>5
  <1> QED BY <1>7, <1>8, <1>9, <1>10, <1>12, <1>13, <1>14 DEF Sound, Covered

\* A step that the mask allows keeps an episode sound, and open or ended.
LEMMA StepIsOk ==
  ASSUME NEW tools, NEW e, EpisodeOk(tools, e), NEW a \in Mask(tools, e)
  PROVE  /\ ~ Terminated(e)
         /\ EpisodeOk(tools, Step(tools, e, a))
         /\ Step(tools, e, a).desc = e.desc /\ Step(tools, e, a).case = e.case
         /\ a = STOP => Terminated(Step(tools, e, a))
         /\ a # STOP => a \in Probing /\ Step(tools, e, a).executed = Append(e.executed, a)
         /\ Step(tools, e, a).credits >= 0
         /\ a \in Nat
  <1> DEFINE f == Step(tools, e, a)
  <1>1. ~ Terminated(e)
    BY DEF Mask, ActionMask
  <1>2. /\ e \in Episodes({e.case}) /\ e.world = LoadCase(e.desc) /\ Sound(e)
        /\ Probes(e) < MAX_PROBES /\ Mask(tools, e) # {STOP}
    BY <1>1 DEF EpisodeOk
  <1>3. CASE a = STOP
    <2>1. /\ f \in Episodes({e.case}) /\ f.desc = e.desc /\ f.case = e.case /\ f.world = e.world
          /\ f.ledger = e.ledger /\ f.belief = e.belief /\ f.executed = e.executed
          /\ f.credits = e.credits /\ f.reason = "stop"
          /\ f.return = e.return + Score(GameOf(e), e, 0, TRUE)
      <3> HIDE DEF f
      <3>1. f = StepStop(e)
        BY <1>3 DEF f, Step
      <3>2. StopFields(tools, {e.case}, e, f)
        BY <1>2, <3>1, StopSteps
      <3> QED BY <3>2 DEF StopFields
    <2> HIDE DEF f
    <2>2. Sound(f) /\ Terminated(f)
      BY <1>1, <1>2, <2>1, StopIsSound
    <2>3. EpisodeOk(tools, f)
      BY <1>2, <2>1, <2>2 DEF EpisodeOk
    <2>4. f.credits >= 0
      BY <2>2 DEF Sound
    <2>5. a \in Nat
      BY <1>3, Templates, Constants DEF STOP
    <2> QED BY <1>1, <1>3, <2>1, <2>2, <2>3, <2>4, <2>5 DEF f
  <1>4. CASE a # STOP
    <2>1. a \in Buyable(tools, e.credits, DOMAIN e.ledger) /\ a \in Probing
      BY <1>1, <1>4, Masked DEF Buyable
    <2>2. /\ f = StepProbe(tools, e, a) /\ f \in Episodes({e.case})
          /\ f.desc = e.desc /\ f.case = e.case /\ f.world = e.world
          /\ f.executed = Append(e.executed, a)
          /\ f.reason = ProbeTerminationReason(tools, f.credits, Probes(f), DOMAIN f.ledger)
      <3> HIDE DEF f
      <3>1. f = StepProbe(tools, e, a)
        BY <1>4 DEF f, Step
      <3>2. ProbeFields(tools, {e.case}, e, a, f)
        BY <1>2, <2>1, <3>1, ProbeSteps
      <3> QED BY <3>1, <3>2 DEF ProbeFields
    <2> HIDE DEF f
    <2>3. Sound(f)
      BY <1>1, <1>2, <2>1, <2>2, ProbeIsSound
    <2>4. Terminated(f) \/ (Probes(f) < MAX_PROBES /\ Mask(tools, f) # {STOP})
      <3> SUFFICES ASSUME ~ Terminated(f)
                   PROVE  Probes(f) < MAX_PROBES /\ Mask(tools, f) # {STOP}
        OBVIOUS
      <3>1. f.reason = "none"
        BY DEF Terminated
      <3>2. f.credits \in Int /\ Probes(f) \in Nat
        BY <2>2 DEF Episodes, Probes
      <3>3. /\ f.credits # 0 /\ Probes(f) < MAX_PROBES
            /\ ActionMask(tools, f.credits, DOMAIN f.ledger, FALSE) # {STOP}
        <4> DEFINE c == f.credits
                   n == Probes(f)
                   seen == DOMAIN f.ledger
                   left == ActionMask(tools, c, seen, FALSE)
        <4>1. "none" = ProbeTerminationReason(tools, c, n, seen)
          BY <2>2, <3>1
        <4>2. c \in Int /\ n \in Nat
          BY <3>2
        <4> HIDE DEF c, n, seen
        <4>3. "none" = CASE c = 0 -> "budget"
                         [] c # 0 /\ n >= MAX_PROBES -> "horizon"
                         [] c # 0 /\ n < MAX_PROBES -> IF left = {STOP} THEN "no_probe" ELSE "none"
          BY <4>1 DEF ProbeTerminationReason
        <4> HIDE DEF left
        <4>4. c # 0 /\ n < MAX_PROBES /\ left # {STOP}
          BY <4>2, <4>3, Constants
        <4> QED BY <4>4 DEF c, n, seen, left
      <3>4. Mask(tools, f) = ActionMask(tools, f.credits, DOMAIN f.ledger, FALSE)
        BY Masked
      <3> QED BY <3>3, <3>4
    <2>5. EpisodeOk(tools, f)
      BY <1>2, <2>2, <2>3, <2>4 DEF EpisodeOk
    <2>6. f.credits >= 0
      BY <2>3 DEF Sound
    <2> QED BY <1>1, <1>4, <2>1, <2>2, <2>5, <2>6, Probed DEF f
  <1> QED BY <1>3, <1>4

-----------------------------------------------------------------------------
(* Replays.                                                                  *)

\* A step with a probe stays within the episodes of its case.
LEMMA StepsStay ==
  ASSUME NEW tools, NEW cases, NEW e \in Episodes(cases), NEW a \in Probing
  PROVE  Step(tools, e, a) \in Episodes(cases)
  <1>1. Step(tools, e, a) = StepProbe(tools, e, a)
    BY Probed DEF Step
  <1>2. ProbeFields(tools, cases, e, a, StepProbe(tools, e, a))
    BY ProbeSteps
  <1> QED BY <1>1, <1>2 DEF ProbeFields

(* What the n-th step of a history of probes leads to.                         *)
Retraces(tools, start, s, h) ==
  /\ h[0] = start
  /\ \A i \in 1 .. Len(s) : h[i] = Step(tools, h[i - 1], s[i])

\* A replay takes the steps of the history one after the other.
LEMMA ReplaySteps ==
  ASSUME NEW tools, NEW r, r.desc \in Descriptors, r.executed \in Seq(Probing)
  PROVE  \E h \in [0 .. Len(r.executed) -> Episodes({r.case})] :
           /\ Retraces(tools, Reset(r.desc, r.case), r.executed, h)
           /\ Replay(tools, r) = h[Len(r.executed)]
  <1> DEFINE s == r.executed
             D == DOMAIN s
             E == Episodes({r.case})
             start == Reset(r.desc, r.case)
             iter == CHOOSE f : f = [T \in SUBSET D |->
                       IF T = {} THEN start ELSE Step(tools, f[T \ {Max(T)}], s[Max(T)])]
             c == [T \in SUBSET D |-> Max(T)]
             g == [p \in E \X D |-> Step(tools, p[1], s[p[2]])]
  <1>1. /\ Len(s) \in Nat /\ D = 1 .. Len(s) /\ IsFiniteSet(D)
        /\ \A i \in D : s[i] \in Probing
    <2>1. Len(s) \in Nat /\ D = 1 .. Len(s) /\ \A i \in D : s[i] \in Probing
      OBVIOUS
    <2> DEFINE z == Len(s)
    <2>2. z \in Nat
      BY <2>1
    <2> HIDE DEF z
    <2>3. IsFiniteSet(1 .. z)
      BY <2>2, FS_Interval
    <2> QED BY <2>1, <2>3 DEF z
  <1>2. \A T \in SUBSET D : T # {} => Max(T) \in T
    BY <1>1, MaxOfPlaces
  <1>3. start \in E
    BY Resets
  <1>4. Replay(tools, r) = iter[D]
    BY DEF Replay, FoldLeft, MapThenFoldSet
  <1> HIDE DEF E, start, s
  <1>5. PICK f \in [SUBSET D -> E] : Iterates(D, c, g, start, f)
    <2>1. g \in [E \X D -> E]
      <3>1. \A p \in E \X D : Step(tools, p[1], s[p[2]]) \in E
        BY <1>1, StepsStay DEF E
      <3> HIDE DEF D
      <3> QED BY <3>1
    <2>2. \A T \in SUBSET D : T # {} => c[T] \in T
      BY <1>2
    <2> HIDE DEF c, g, D
    <2> QED BY <1>1, <1>3, <2>1, <2>2, IterationExists
  <1>6. f = [T \in SUBSET D |-> IF T = {} THEN start ELSE Step(tools, f[T \ {Max(T)}], s[Max(T)])]
    <2>1. ASSUME NEW T \in SUBSET D, T # {}
          PROVE  g[<< f[T \ {c[T]}], c[T] >>] = Step(tools, f[T \ {Max(T)}], s[Max(T)])
      <3>1. c[T] = Max(T) /\ << f[T \ {Max(T)}], Max(T) >> \in E \X D
        BY <1>2, <2>1
      <3> HIDE DEF c, D
      <3> QED BY <3>1
    <2> HIDE DEF c, g, D
    <2> QED BY <1>5, <2>1 DEF Iterates
  <1>7. iter = [T \in SUBSET D |-> IF T = {} THEN start ELSE Step(tools, iter[T \ {Max(T)}], s[Max(T)])]
    <2> HIDE DEF D
    <2> QED BY <1>6
  <1> HIDE DEF iter
  <1>8. iter[{}] = start
    BY <1>7
  <1>9. ASSUME NEW n \in 1 .. Len(s)
        PROVE  iter[1..n] = Step(tools, iter[1..(n - 1)], s[n])
    <2>1. 1..n \in SUBSET D /\ n \in Nat \ {0}
      BY <1>1
    <2>2. 1..n # {} /\ Max(1..n) = n /\ (1..n) \ {Max(1..n)} = 1..(n - 1)
      BY <2>1, MaxOfInterval
    <2> HIDE DEF D
    <2> QED BY <1>7, <2>1, <2>2
  <1> DEFINE h == [n \in 0 .. Len(s) |-> iter[1..n]]
             P == {n \in Nat : n <= Len(s) => iter[1..n] \in E}
  <1>10. 0 \in P
    BY <1>3, <1>8
  <1>11. ASSUME NEW n \in P PROVE n + 1 \in P
    <2> SUFFICES ASSUME n + 1 <= Len(s)
                 PROVE  iter[1..(n + 1)] \in E
      OBVIOUS
    <2>1. n + 1 \in 1 .. Len(s) /\ n + 1 - 1 = n /\ iter[1..n] \in E /\ s[n + 1] \in Probing
      BY <1>1
    <2>2. iter[1..(n + 1)] = Step(tools, iter[1..n], s[n + 1])
      BY <1>9, <2>1
    <2>3. Step(tools, iter[1..n], s[n + 1]) \in E
      BY <2>1, StepsStay DEF E
    <2> QED BY <2>2, <2>3
  <1>12. P = Nat
    <2>1. P \in SUBSET Nat
      OBVIOUS
    <2> HIDE DEF P
    <2> QED BY <1>10, <1>11, <2>1, NumberInduction
  <1>13. h \in [0 .. Len(s) -> E] /\ h[0] = start /\ Replay(tools, r) = h[Len(s)]
    BY <1>1, <1>4, <1>8, <1>12
  <1>14. \A i \in 1 .. Len(s) : h[i] = Step(tools, h[i - 1], s[i])
    BY <1>1, <1>9
  <1> HIDE DEF h
  <1> QED BY <1>13, <1>14 DEF Retraces, E, start, s

\* One probe more is one step more.
LEMMA ReplayGrows ==
  ASSUME NEW tools, NEW r, r.desc \in Descriptors, r.executed \in Seq(Probing), NEW a \in Probing,
         NEW q, q.desc = r.desc, q.case = r.case, q.executed = Append(r.executed, a)
  PROVE  Replay(tools, q) = Step(tools, Replay(tools, r), a)
  <1> DEFINE s == r.executed
             m == Append(s, a)
             start == Reset(r.desc, r.case)
             n == Len(s)
  <1>1. m \in Seq(Probing) /\ Len(m) = n + 1 /\ n \in Nat /\ m[n + 1] = a
        /\ \A i \in 1 .. n : m[i] = s[i]
    OBVIOUS
  <1>2. PICK h : Retraces(tools, start, s, h) /\ Replay(tools, r) = h[n]
    BY ReplaySteps
  <1>4. PICK k : Retraces(tools, start, m, k) /\ Replay(tools, q) = k[Len(m)]
    <2>1. q.executed \in Seq(Probing) /\ q.desc \in Descriptors
      BY <1>1
    <2>2. \E k \in [0 .. Len(q.executed) -> Episodes({q.case})] :
            /\ Retraces(tools, Reset(q.desc, q.case), q.executed, k)
            /\ Replay(tools, q) = k[Len(q.executed)]
      BY <2>1, ReplaySteps
    <2> QED BY <2>2
  <1> HIDE DEF n, start, m, s
  <1> DEFINE P == {i \in Nat : i <= n => k[i] = h[i]}
  <1>5. 0 \in P
    BY <1>2, <1>4 DEF Retraces
  <1>6. ASSUME NEW i \in P PROVE i + 1 \in P
    <2> SUFFICES ASSUME i + 1 <= n
                 PROVE  k[i + 1] = h[i + 1]
      OBVIOUS
    <2>1. i + 1 \in 1 .. n /\ i + 1 \in 1 .. Len(m) /\ i + 1 - 1 = i /\ k[i] = h[i]
      BY <1>1
    <2>2. k[i + 1] = Step(tools, k[i], m[i + 1])
      BY <1>4, <2>1 DEF Retraces
    <2>3. h[i + 1] = Step(tools, h[i], s[i + 1])
      BY <1>2, <2>1 DEF Retraces, n
    <2>4. m[i + 1] = s[i + 1]
      BY <1>1, <2>1
    <2> QED BY <2>1, <2>2, <2>3, <2>4
  <1>7. P = Nat
    <2>1. P \in SUBSET Nat
      OBVIOUS
    <2> HIDE DEF P
    <2> QED BY <1>5, <1>6, <2>1, NumberInduction
  <1>8. k[n] = h[n]
    BY <1>1, <1>7
  <1>9. n + 1 \in 1 .. Len(m) /\ n + 1 - 1 = n
    BY <1>1
  <1>10. k[n + 1] = Step(tools, k[n], m[n + 1])
    <2> DEFINE i == n + 1
    <2>1. i \in 1 .. Len(m) /\ i - 1 = n
      BY <1>1
    <2> HIDE DEF i
    <2>2. k[i] = Step(tools, k[i - 1], m[i])
      BY <1>4, <2>1 DEF Retraces
    <2> QED BY <2>1, <2>2 DEF i
  <1> QED BY <1>1, <1>2, <1>4, <1>8, <1>10

\* A replay of nothing is a new episode.
LEMMA ReplayOfNothing ==
  ASSUME NEW tools, NEW r, r.desc \in Descriptors, r.executed = << >>
  PROVE  Replay(tools, r) = Reset(r.desc, r.case)
  <1>1. r.executed \in Seq(Probing) /\ Len(r.executed) = 0
    OBVIOUS
  <1>2. PICK h : /\ Retraces(tools, Reset(r.desc, r.case), r.executed, h)
                 /\ Replay(tools, r) = h[Len(r.executed)]
    BY <1>1, ReplaySteps
  <1> QED BY <1>1, <1>2 DEF Retraces

(* An open episode that is sound and is where its own history leads.           *)
Live(tools, e) ==
  /\ EpisodeOk(tools, e) /\ ~ Terminated(e)
  /\ Replay(tools, e) = e

\* A new episode is live; and so is one that a step has left open.
LEMMA LiveResets ==
  ASSUME NEW tools \in {Tools, AllTools}, NEW d \in Descriptors, NEW case
  PROVE  Live(tools, Reset(d, case))
  <1>1. EpisodeOk(tools, Reset(d, case)) /\ ~ Terminated(Reset(d, case))
    BY ResetIsOk
  <1>2. Replay(tools, Reset(d, case)) = Reset(d, case)
    <2> DEFINE e == Reset(d, case)
    <2>1. e \in Episodes({case}) /\ e.desc = d /\ e.case = case /\ e.executed = << >>
      BY Resets
    <2> HIDE DEF e
    <2>2. Replay(tools, e) = Reset(e.desc, e.case)
      BY <2>1, ReplayOfNothing
    <2> QED BY <2>1, <2>2 DEF e
  <1> QED BY <1>1, <1>2 DEF Live

\* An episode that is open and sound stays so, or ends, with any action of its mask.
LEMMA LiveSteps ==
  ASSUME NEW tools, NEW e, Live(tools, e), NEW a \in Mask(tools, e)
  PROVE  /\ EpisodeOk(tools, Step(tools, e, a))
         /\ ~ Terminated(Step(tools, e, a)) => Live(tools, Step(tools, e, a))
         /\ a \in Nat
  <1> DEFINE f == Step(tools, e, a)
  <1>1. EpisodeOk(tools, e) /\ Replay(tools, e) = e
    BY DEF Live
  <1>2. EpisodeOk(tools, f) /\ f.desc = e.desc /\ f.case = e.case /\ a \in Nat
    BY <1>1, StepIsOk
  <1>3. ASSUME ~ Terminated(f)
        PROVE  Replay(tools, f) = f
    <2>1. a \in Probing /\ f.executed = Append(e.executed, a)
      BY <1>1, <1>3, StepIsOk
    <2>2. e.desc \in Descriptors /\ e.executed \in Seq(Probing)
      BY <1>1 DEF EpisodeOk, Episodes
    <2> HIDE DEF f
    <2>3. Replay(tools, f) = Step(tools, Replay(tools, e), a)
      BY <1>2, <2>1, <2>2, ReplayGrows
    <2> QED BY <1>1, <2>3 DEF f
  <1> QED BY <1>2, <1>3 DEF Live

\* A checkpoint of a live episode gives it back.
LEMMA CheckpointsRestore ==
  ASSUME NEW tools, NEW e, Live(tools, e)
  PROVE  /\ Replay(tools, CheckpointState(tools, e)) = e
         /\ ~ RestoreRefused(tools, CheckpointState(tools, e))
  <1> DEFINE s == CheckpointState(tools, e)
  <1>1. s.desc = e.desc /\ s.case = e.case /\ s.executed = e.executed
        /\ s.observation = Observation(tools, e)
    BY DEF CheckpointState
  <1> HIDE DEF s
  <1>2. Replay(tools, s) = Replay(tools, e)
    BY <1>1 DEF Replay
  <1>3. Replay(tools, s) = e /\ ~ Terminated(e)
    BY <1>2 DEF Live
  <1> QED BY <1>1, <1>3 DEF RestoreRefused, s

-----------------------------------------------------------------------------
(* Advantages.                                                               *)

(* Row t is open-ended if the episode goes on after it: what the critic says   *)
(* of the state it leads to is what the next row begins with, or last at the   *)
(* end of the rollout; an episode that ended is worth nothing more.            *)
Chained(rows, last) ==
  \A t \in 1 .. Len(rows) :
    /\ rows[t].reward \in Int /\ rows[t].value \in Int /\ rows[t].next \in Int
    /\ rows[t].termination \in BOOLEAN
    /\ rows[t].termination => rows[t].next = 0
    /\ ~ rows[t].termination => rows[t].next = IF t = Len(rows) THEN last ELSE rows[t + 1].value

(* Where the episode of row t ends, and what is earned until then.             *)
Ends(rows, t) == {k \in t .. Len(rows) : rows[k].termination}
EndOf(rows, t) == IF Ends(rows, t) = {} THEN Len(rows) ELSE Min(Ends(rows, t))
TailOf(rows, t, last) == IF Ends(rows, t) = {} THEN last ELSE 0
Earned(rows, t) == SumFunction([k \in t .. EndOf(rows, t) |-> rows[k].reward])
Advantage(rows, t, last) == Earned(rows, t) + TailOf(rows, t, last) - rows[t].value

\* The first row that ends an episode, and what is earned up to it.
LEMMA AdvantageSteps ==
  ASSUME NEW rows, Len(rows) \in Nat, NEW last \in Int, Chained(rows, last), NEW t \in 1 .. Len(rows)
  PROVE  /\ Advantage(rows, t, last) \in Int
         /\ rows[t].termination =>
              Advantage(rows, t, last) = rows[t].reward + rows[t].next - rows[t].value
         /\ ~ rows[t].termination /\ t = Len(rows) =>
              Advantage(rows, t, last) = rows[t].reward + rows[t].next - rows[t].value
         /\ ~ rows[t].termination /\ t # Len(rows) =>
              Advantage(rows, t, last) = rows[t].reward + rows[t].next - rows[t].value
                                           + Advantage(rows, t + 1, last)
  <1> DEFINE n == Len(rows)
             D == 1 .. n
             f == [k \in D |-> rows[k].reward]
  <1>1. n \in Nat /\ IsFiniteSet(D) /\ f \in [D -> Int]
    <2>1. n \in Nat
      OBVIOUS
    <2>2. \A k \in D : rows[k].reward \in Int
      BY DEF Chained
    <2> HIDE DEF n
    <2>3. IsFiniteSet(1 .. n)
      BY <2>1, FS_Interval
    <2> QED BY <2>1, <2>2, <2>3
  <1>2. \A j, k \in D : /\ j .. k \in SUBSET D
                        /\ SumFunction([x \in j .. k |-> rows[x].reward]) = SumOver(f, j .. k)
                        /\ SumOver(f, j .. k) \in Int
    <2> SUFFICES ASSUME NEW j \in D, NEW k \in D
                 PROVE  /\ j .. k \in SUBSET D
                        /\ SumFunction([x \in j .. k |-> rows[x].reward]) = SumOver(f, j .. k)
                        /\ SumOver(f, j .. k) \in Int
      OBVIOUS
    <2>1. j .. k \in SUBSET D
      BY <1>1
    <2>2. [x \in j .. k |-> rows[x].reward] = [x \in j .. k |-> f[x]]
      BY <2>1
    <2> DEFINE T == j .. k
    <2>3. T \in SUBSET D
      BY <2>1
    <2> HIDE DEF T, f, D
    <2>4. SumOver(f, T) \in Int
      BY <1>1, <2>3, SumGrows
    <2> QED BY <2>1, <2>2, <2>4 DEF SumOver, T
  <1>3. ASSUME NEW j \in D
        PROVE  EndOf(rows, j) \in j .. n
    <2> DEFINE E == Ends(rows, j)
    <2>1. E \in SUBSET (j .. n) /\ E \in SUBSET Nat
      BY <1>1 DEF Ends
    <2>2. CASE E = {}
      BY <1>1, <2>2 DEF EndOf
    <2>3. CASE E # {}
      <3> HIDE DEF E
      <3>1. \E x \in E : \A y \in E : x <= y
        BY <2>1, <2>3, LeastNumber
      <3>2. Min(E) \in E
        BY <3>1 DEF Min
      <3> QED BY <2>1, <2>3, <3>2 DEF EndOf, E
    <2> QED BY <2>2, <2>3
  <1>4. \A j \in D : Earned(rows, j) = SumOver(f, j .. EndOf(rows, j)) /\ Earned(rows, j) \in Int
    <2> SUFFICES ASSUME NEW j \in D
                 PROVE  Earned(rows, j) = SumOver(f, j .. EndOf(rows, j)) /\ Earned(rows, j) \in Int
      OBVIOUS
    <2>1. EndOf(rows, j) \in D
      BY <1>1, <1>3
    <2> DEFINE k == EndOf(rows, j)
    <2> HIDE DEF k, f, D
    <2>2. SumFunction([x \in j .. k |-> rows[x].reward]) = SumOver(f, j .. k) /\ SumOver(f, j .. k) \in Int
      BY <1>2, <2>1 DEF k
    <2> QED BY <2>2 DEF Earned, k
  <1>5. \A j \in D : rows[j].value \in Int /\ TailOf(rows, j, last) \in Int
    BY DEF Chained, TailOf
  <1>6. ASSUME NEW j \in D, NEW k \in j .. n
        PROVE  SumOver(f, j .. k) = f[j] + SumOver(f, (j + 1) .. k) /\ SumOver(f, (j + 1) .. k) \in Int
    <2> DEFINE T == (j + 1) .. k
    <2>1. T \in SUBSET D /\ j \in D \ T /\ j .. k = T \cup {j}
      BY <1>1
    <2> HIDE DEF T, f, D
    <2>2. SumOver(f, T \cup {j}) = f[j] + SumOver(f, T) /\ SumOver(f, T) \in Int
      BY <1>1, <2>1, SumGrows
    <2> QED BY <2>1, <2>2 DEF T
  <1>7. SumOver(f, {}) = 0
    <2>1. {} \in SUBSET D
      OBVIOUS
    <2> HIDE DEF f, D
    <2> QED BY <1>1, <2>1, SumGrows
  <1> DEFINE r == rows[t].reward
             v == rows[t].value
             x == rows[t].next
  <1>8. r \in Int /\ v \in Int /\ x \in Int /\ f[t] = r /\ t \in D
    BY DEF Chained
  <1> HIDE DEF f, D
  <1>9. ASSUME EndOf(rows, t) = t
        PROVE  Earned(rows, t) = r
    <2>1. (t + 1) .. t = {} /\ t \in t .. n
      BY <1>1 DEF D
    <2>2. SumOver(f, t .. t) = f[t] + SumOver(f, (t + 1) .. t)
      BY <1>6, <1>8, <2>1
    <2>3. SumOver(f, (t + 1) .. t) = 0
      BY <1>7, <2>1
    <2>4. Earned(rows, t) = SumOver(f, t .. t)
      BY <1>4, <1>8, <1>9
    <2> HIDE DEF r
    <2> QED BY <1>8, <2>2, <2>3, <2>4
  <1>10. CASE rows[t].termination
    <2> DEFINE E == Ends(rows, t)
    <2>1. t \in E /\ \A k \in E : t <= k
      BY <1>1, <1>10 DEF Ends
    <2>2. E # {} /\ EndOf(rows, t) = t
      <3>1. E # {} /\ E \in SUBSET Int
        BY <2>1 DEF Ends
      <3> HIDE DEF E
      <3>4. \E j \in E : \A k \in E : j <= k
        BY <2>1
      <3>2. Min(E) \in E /\ \A k \in E : Min(E) <= k
        BY <3>4 DEF Min
      <3>3. Min(E) = t
        <4> DEFINE m == Min(E)
        <4>1. m \in Int /\ t \in Int /\ m <= t /\ t <= m
          BY <2>1, <3>1, <3>2
        <4> HIDE DEF m
        <4>2. m = t
          BY <4>1
        <4> QED BY <4>2 DEF m
      <3> QED BY <3>1, <3>3 DEF EndOf, E
    <2>3. TailOf(rows, t, last) = 0 /\ x = 0
      BY <1>10, <2>2 DEF TailOf, Chained
    <2>4. Advantage(rows, t, last) = r + 0 - v
      BY <1>9, <2>2, <2>3 DEF Advantage
    <2> QED BY <1>8, <1>10, <2>3, <2>4
  <1>11. CASE ~ rows[t].termination /\ t = n
    <2>1. Ends(rows, t) = {}
      BY <1>1, <1>11 DEF Ends
    <2>2. EndOf(rows, t) = t /\ TailOf(rows, t, last) = last /\ x = last
      BY <1>11, <2>1 DEF EndOf, TailOf, Chained
    <2>3. Advantage(rows, t, last) = r + last - v
      BY <1>9, <2>2 DEF Advantage
    <2> QED BY <1>8, <1>11, <2>2, <2>3
  <1>12. CASE ~ rows[t].termination /\ t # n
    <2> DEFINE u == t + 1
    <2>1. u \in D /\ u \in Int
      BY <1>1, <1>8, <1>12 DEF D
    <2>2. Ends(rows, t) = Ends(rows, u)
      BY <1>1, <1>12 DEF Ends
    <2>3. EndOf(rows, t) = EndOf(rows, u) /\ TailOf(rows, t, last) = TailOf(rows, u, last)
      BY <2>2 DEF EndOf, TailOf
    <2>4. x = rows[u].value
      BY <1>12 DEF Chained
    <2> DEFINE e == EndOf(rows, u)
               s == Earned(rows, u)
               z == TailOf(rows, u, last)
               w == rows[u].value
    <2>5. e \in t .. n
      <3>1. e \in u .. n
        BY <1>3, <2>1
      <3> QED BY <1>1, <1>8, <3>1 DEF D
    <2>6. Earned(rows, t) = r + s
      <3>1. Earned(rows, t) = SumOver(f, t .. e)
        BY <1>4, <1>8, <2>3
      <3>2. s = SumOver(f, u .. e)
        BY <1>4, <2>1
      <3>3. SumOver(f, t .. e) = f[t] + SumOver(f, u .. e)
        BY <1>6, <1>8, <2>5
      <3> QED BY <1>8, <3>1, <3>2, <3>3
    <2>7. Advantage(rows, t, last) = (r + s) + z - v /\ Advantage(rows, u, last) = s + z - w
      BY <2>3, <2>6 DEF Advantage
    <2>8. s \in Int /\ z \in Int /\ w \in Int /\ x = w
      BY <1>4, <1>5, <2>1, <2>4
    <2> HIDE DEF s, z, w, e, r, x, v
    <2>9. Advantage(rows, t, last) = r + x - v + Advantage(rows, u, last)
      BY <1>8, <2>7, <2>8
    <2>10. Advantage(rows, t, last) \in Int
      BY <1>8, <2>7, <2>8
    <2> QED BY <1>12, <2>9, <2>10 DEF r, x, v
  <1> QED BY <1>10, <1>11, <1>12 DEF Chained

(* The rows of one environment.                                                *)
Column(rows, i) == [t \in 1 .. Len(rows) |-> rows[t][i]]

\* GAE, run backwards over the rows, gives each its advantage.
LEMMA GaeSteps ==
  ASSUME NEW rows, Len(rows) \in Nat, NEW i, NEW last \in Int, Chained(Column(rows, i), last)
  PROVE  /\ Len(Column(rows, i)) = Len(rows)
         /\ \A t \in 1 .. Len(rows) : Gae(rows, i)[t] = Advantage(Column(rows, i), t, last)
  <1> DEFINE n == Len(rows)
             col == Column(rows, i)
             Delta(t) == rows[t][i].reward + rows[t][i].next - rows[t][i].value
             Value(a, t) == IF t > n THEN 0
                            ELSE rows[t][i].reward + rows[t][i].next - rows[t][i].value
                                   + IF rows[t][i].termination THEN 0 ELSE a[t + 1]
             Good(a) == a = [t \in 1 .. n + 1 |-> Value(a, t)]
             total == CHOOSE a : Good(a)
             w == [t \in 1 .. n + 1 |-> IF t > n THEN 0 ELSE Advantage(col, t, last)]
  <1>1. n \in Nat /\ Len(col) = n /\ \A t \in 1 .. n : col[t] = rows[t][i]
    BY DEF Column
  <1>2. Gae(rows, i) = [t \in 1 .. n |-> total[t]]
    BY DEF Gae
  <1> HIDE DEF col
  <1>3. Chained(col, last) /\ Len(col) \in Nat
    BY <1>1 DEF col
  <1>4. ASSUME NEW t \in 1 .. n
        PROVE  /\ Delta(t) \in Int
               /\ rows[t][i].termination \in BOOLEAN
               /\ Advantage(col, t, last) \in Int
               /\ rows[t][i].termination => Advantage(col, t, last) = Delta(t)
               /\ ~ rows[t][i].termination /\ t = n => Advantage(col, t, last) = Delta(t)
               /\ ~ rows[t][i].termination /\ t # n =>
                    Advantage(col, t, last) = Delta(t) + Advantage(col, t + 1, last)
    <2>1. t \in 1 .. Len(col) /\ col[t] = rows[t][i]
      BY <1>1
    <2>2. /\ col[t].reward \in Int /\ col[t].value \in Int /\ col[t].next \in Int
          /\ col[t].termination \in BOOLEAN
      BY <1>3, <2>1 DEF Chained
    <2>3. Delta(t) = col[t].reward + col[t].next - col[t].value
      BY <2>1
    <2>4. /\ Advantage(col, t, last) \in Int
          /\ col[t].termination =>
               Advantage(col, t, last) = col[t].reward + col[t].next - col[t].value
          /\ ~ col[t].termination /\ t = Len(col) =>
               Advantage(col, t, last) = col[t].reward + col[t].next - col[t].value
          /\ ~ col[t].termination /\ t # Len(col) =>
               Advantage(col, t, last) = col[t].reward + col[t].next - col[t].value
                                            + Advantage(col, t + 1, last)
      BY <1>3, <2>1, AdvantageSteps
    <2> DEFINE delta == Delta(t)
    <2>5. delta = col[t].reward + col[t].next - col[t].value /\ delta \in Int
      BY <2>2, <2>3
    <2> HIDE DEF delta
    <2>6. /\ col[t].termination => Advantage(col, t, last) = delta
          /\ ~ col[t].termination /\ t = n => Advantage(col, t, last) = delta
          /\ ~ col[t].termination /\ t # n => Advantage(col, t, last) = delta + Advantage(col, t + 1, last)
      BY <1>1, <2>4, <2>5
    <2>7. rows[t][i].termination = col[t].termination
      BY <2>1
    <2> QED BY <2>2, <2>4, <2>5, <2>6, <2>7 DEF delta
  <1> HIDE DEF n
  <1>5. ASSUME NEW t \in 1 .. n + 1
        PROVE  w[t] = Value(w, t)
    <2>1. CASE t > n
      BY <2>1
    <2>2. CASE t = n
      <3>1. t \in 1 .. n /\ t + 1 \in 1 .. n + 1 /\ t + 1 > n /\ ~ (t > n)
        BY <1>1, <2>2
      <3>2. w[t] = Advantage(col, t, last) /\ w[t + 1] = 0
        BY <1>1, <3>1
      <3>3. Value(w, t) = Delta(t) + IF rows[t][i].termination THEN 0 ELSE w[t + 1]
        BY <3>1
      <3>4. Advantage(col, t, last) = Delta(t) /\ Delta(t) \in Int
        BY <1>4, <2>2, <3>1
      <3> HIDE DEF Delta, Value, w
      <3> QED BY <3>2, <3>3, <3>4
    <2>3. CASE t < n
      <3>1. t \in 1 .. n /\ t + 1 \in 1 .. n + 1 /\ ~ (t + 1 > n) /\ ~ (t > n) /\ t # n
        BY <1>1, <2>3
      <3>2. w[t] = Advantage(col, t, last) /\ w[t + 1] = Advantage(col, t + 1, last)
        BY <3>1
      <3>3. Value(w, t) = Delta(t) + IF rows[t][i].termination THEN 0 ELSE w[t + 1]
        BY <3>1
      <3>4. Delta(t) \in Int
            /\ Advantage(col, t, last) =
                 Delta(t) + IF rows[t][i].termination THEN 0 ELSE Advantage(col, t + 1, last)
        <4>1. Delta(t) \in Int /\ rows[t][i].termination \in BOOLEAN
          BY <1>4, <3>1
        <4>2. CASE rows[t][i].termination
          <5>1. Advantage(col, t, last) = Delta(t)
            BY <1>4, <3>1, <4>2
          <5> HIDE DEF Delta
          <5> QED BY <4>1, <4>2, <5>1
        <4>3. CASE ~ rows[t][i].termination
          BY <1>4, <3>1, <4>3
        <4> QED BY <4>1, <4>2, <4>3
      <3> HIDE DEF Delta, Value, w
      <3> QED BY <3>2, <3>3, <3>4
    <2> QED BY <1>1, <2>1, <2>2, <2>3
  <1>6. Good(w)
    <2> HIDE DEF Value
    <2>1. w = [t \in 1 .. n + 1 |-> w[t]]
      OBVIOUS
    <2> HIDE DEF w
    <2> QED BY <1>5, <2>1
  <1> HIDE DEF Value
  <1>7. Good(total)
    <2> HIDE DEF w
    <2>1. \E a : Good(a)
      BY <1>6
    <2> HIDE DEF Good
    <2> QED BY <2>1
  <1> HIDE DEF total, w
  <1>8. \A t \in 1 .. n + 1 : w[t] = Value(w, t) /\ total[t] = Value(total, t)
    BY <1>5, <1>7
  <1> HIDE DEF Good
  <1> DEFINE P == {m \in Nat : m <= n => total[n + 1 - m] = w[n + 1 - m]}
  <1>9. 0 \in P
    <2> DEFINE t == n + 1
    <2>1. t \in 1 .. n + 1 /\ t > n /\ n + 1 - 0 = t
      BY <1>1
    <2> HIDE DEF t
    <2>2. total[t] = w[t]
      BY <1>8, <2>1 DEF Value
    <2> QED BY <2>1, <2>2
  <1>10. ASSUME NEW m \in P PROVE m + 1 \in P
    <2> SUFFICES ASSUME m + 1 <= n
                 PROVE  total[n + 1 - (m + 1)] = w[n + 1 - (m + 1)]
      OBVIOUS
    <2> DEFINE t == n + 1 - (m + 1)
               u == n + 1 - m
    <2>1. t \in 1 .. n + 1 /\ u = t + 1 /\ t \in Int /\ total[u] = w[u]
      BY <1>1
    <2> HIDE DEF t, u
    <2>2. Value(total, t) = Value(w, t)
      BY <2>1 DEF Value
    <2>3. total[t] = w[t]
      BY <1>8, <2>1, <2>2
    <2> QED BY <2>3 DEF t
  <1>11. P = Nat
    <2>1. P \in SUBSET Nat
      OBVIOUS
    <2> HIDE DEF P
    <2> QED BY <1>9, <1>10, <2>1, NumberInduction
  <1>12. ASSUME NEW t \in 1 .. n
         PROVE  Gae(rows, i)[t] = Advantage(col, t, last)
    <2> DEFINE m == n + 1 - t
    <2>1. m \in Nat /\ m <= n /\ n + 1 - m = t /\ t \in 1 .. n + 1 /\ ~ (t > n)
      BY <1>1
    <2> HIDE DEF m
    <2>2. total[t] = w[t]
      BY <1>11, <2>1
    <2>3. w[t] = Advantage(col, t, last)
      BY <2>1 DEF w
    <2> QED BY <1>2, <2>2, <2>3
  <1> QED BY <1>1, <1>12 DEF n, col

-----------------------------------------------------------------------------
(* The inductive invariant.                                                  *)

(* Which phases a command has.                                                 *)
Training == {"collect", "learn", "updated", "failed", "validating", "boundary", "done"}
SavingPhases == {"save_latest", "save_best", "write_best", "saved", "dead"}
ModesOk ==
  /\ mode \in {"train", "managed", "evaluate", "fixture", "validate"}
  /\ mode = "train" => phase \in Training
  /\ mode = "managed" => phase \in Training \union SavingPhases
  /\ mode \in {"evaluate", "fixture", "validate"} => phase \in {mode, "done"}

(* The collector's episodes are live; a dead process has none.                 *)
CaseIds == Envs \X Nat
Crew(tools, team) ==
  /\ team = [i \in Envs |-> team[i]]
  /\ \A i \in Envs : Live(tools, team[i]) /\ team[i].case \in CaseIds
CollectorOk ==
  /\ policy \in Nat
  /\ phase # "dead" => Crew(Available, envs) /\ draws \in [Envs -> Nat \ {0}]
  /\ phase = "dead" => envs = << >> /\ batch = << >>

(* The rollout: each environment's rows hang together.                         *)
Rows == [action : Nat, case : CaseIds, reward : Int, value : Int, next : Int, termination : BOOLEAN]
BatchOk ==
  /\ batch \in Seq([Envs -> Rows])
  /\ \A i \in Envs : Chained(Column(batch, i), Critic(policy, envs[i]))
AdvOk == phase \in {"learn", "updated"} => adv = [i \in Envs |-> Gae(batch, i)]

(* A whole file holds what the history says was saved, and that was live.      *)
Files == {"latest", "best"}
Matches(p, s) ==
  /\ s = [envs |-> s.envs, draws |-> s.draws, policy |-> s.policy, update |-> s.update]
  /\ Crew(Tools, s.envs) /\ s.draws \in [Envs -> Nat \ {0}] /\ s.policy \in Nat
  /\ p.policy = s.policy /\ p.update = s.update /\ p.rng = s.draws
  /\ p.envs = [i \in Envs |-> CheckpointState(Tools, s.envs[i])]
FilesOk ==
  /\ DOMAIN disk = Files /\ DOMAIN snap = Files
  /\ \A file \in Files : disk[file].state = "whole" => Matches(disk[file], snap[file])

(* The best file goes with the manager's score, and with that of the latest    *)
(* file but while the best one is still to be written.                         *)
BestIs(score) ==
  /\ disk["best"].state # "none"
  /\ disk["best"].state = "whole" => disk["best"].score = score
BestPending == phase \in {"save_best", "write_best"}
SavesOk ==
  /\ lostBest \in BOOLEAN
  /\ manager # NoScore /\ lostBest = FALSE => BestIs(manager)
  /\ BestPending => IsBest /\ disk["latest"].state = "whole" /\ disk["latest"].score = saving
  /\ disk["latest"].state = "whole" /\ disk["latest"].score # NoScore
       /\ lostBest = FALSE /\ ~ BestPending => BestIs(disk["latest"].score)

(* How far run_training's best may trail, counted from each validation.        *)
Slack == IF phase = "validating" THEN 0 ELSE 1
BestOk ==
  mode = "train" =>
    /\ best.score \in Int
    /\ \A v \in validated :
         /\ v.score \in Int /\ v.policy \in Int
         /\ v.score <= best.score + TIE_TOLERANCE * (policy - v.policy + Slack)

(* The evaluation's totals, and the random walk's episode.                     *)
Tallies == [episodes : Int, correct : Int, return : Int, credits : Int]
Settled(t) == t.return = UTILITY * t.correct - t.credits
EvaluationOk ==
  mode = "evaluate" =>
    /\ ev = [suite |-> ev.suite, m |-> ev.m, c |-> ev.c, picked |-> ev.picked, e |-> ev.e,
             totals |-> ev.totals]
    /\ ev.suite \in Seq(Methods) /\ ev.m \in Nat \ {0} /\ ev.c \in DOMAIN Cases
    /\ Live(Tools, ev.e)
    /\ ev.totals \in [DOMAIN ev.suite -> Tallies]
    /\ \A m \in DOMAIN ev.suite : ev.suite[m].kind # "full_information" => Settled(ev.totals[m])
WalkOk ==
  mode = "validate" =>
    /\ ev = [d |-> ev.d, report |-> ev.report, e |-> ev.e, steps |-> ev.steps, bad |-> ev.bad]
    /\ ev.d \in Descriptors /\ Live(AllTools, ev.e) /\ ev.bad = {}

IInv ==
  /\ ModesOk /\ CollectorOk /\ BatchOk /\ AdvOk /\ FilesOk /\ SavesOk /\ BestOk
  /\ EvaluationOk /\ WalkOk

-----------------------------------------------------------------------------

\* One row more hangs together with the others if it begins where they ended.
LEMMA ChainGrows ==
  ASSUME NEW rows \in Seq([Envs -> Rows]), NEW i \in Envs, NEW last, Chained(Column(rows, i), last),
         NEW row \in [Envs -> Rows], row[i].value = last, NEW end,
         row[i].termination => row[i].next = 0, ~ row[i].termination => row[i].next = end
  PROVE  Chained(Column(Append(rows, row), i), end)
  <1> DEFINE n == Len(rows)
             more == Append(rows, row)
             old == Column(rows, i)
             new == Column(more, i)
  <1>1. /\ n \in Nat /\ Len(more) = n + 1 /\ more[n + 1] = row
        /\ \A t \in 1 .. n : more[t] = rows[t]
    OBVIOUS
  <1> HIDE DEF more, n
  <1>2. /\ Len(old) = n /\ Len(new) = n + 1 /\ new[n + 1] = row[i]
        /\ \A t \in 1 .. n : new[t] = old[t]
    <2>1. n + 1 \in 1 .. n + 1 /\ \A t \in 1 .. n : t \in 1 .. n + 1
      BY <1>1
    <2>2. old = [t \in 1 .. n |-> rows[t][i]] /\ new = [t \in 1 .. n + 1 |-> more[t][i]]
      BY <1>1 DEF Column, n
    <2> HIDE DEF old, new
    <2> QED BY <1>1, <2>1, <2>2
  <1> HIDE DEF old, new
  <1>3. /\ row[i].reward \in Int /\ row[i].value \in Int /\ row[i].next \in Int
        /\ row[i].termination \in BOOLEAN
    BY DEF Rows
  <1>4. ASSUME NEW t \in 1 .. n + 1
        PROVE  /\ new[t].reward \in Int /\ new[t].value \in Int /\ new[t].next \in Int
               /\ new[t].termination \in BOOLEAN
               /\ new[t].termination => new[t].next = 0
               /\ ~ new[t].termination => new[t].next = IF t = n + 1 THEN end ELSE new[t + 1].value
    <2>1. CASE t = n + 1
      BY <1>2, <1>3, <2>1
    <2>2. CASE t # n + 1
      <3>1. t \in 1 .. n /\ new[t] = old[t] /\ t \in 1 .. Len(old)
        BY <1>1, <1>2, <2>2
      <3>2. /\ old[t].reward \in Int /\ old[t].value \in Int /\ old[t].next \in Int
            /\ old[t].termination \in BOOLEAN
            /\ old[t].termination => old[t].next = 0
            /\ ~ old[t].termination => old[t].next = IF t = n THEN last ELSE old[t + 1].value
        BY <1>2, <3>1 DEF Chained, old
      <3>3. new[t + 1].value = IF t = n THEN last ELSE old[t + 1].value
        <4>1. CASE t = n
          BY <1>2, <4>1
        <4>2. CASE t # n
          <5>1. t + 1 \in 1 .. n
            BY <1>1, <3>1, <4>2
          <5> QED BY <1>2, <4>2, <5>1
        <4> QED BY <4>1, <4>2
      <3> QED BY <2>2, <3>1, <3>2, <3>3
    <2> QED BY <2>1, <2>2
  <1>5. Chained(new, end)
    BY <1>2, <1>4 DEF Chained
  <1> QED BY <1>5 DEF new, more

\* Rows that are not there hang together with anything.
LEMMA ChainStarts ==
  ASSUME NEW i, NEW last
  PROVE  Chained(Column(<< >>, i), last) /\ << >> \in Seq([Envs -> Rows])
  <1>1. Len(Column(<< >>, i)) = 0
    BY DEF Column
  <1> QED BY <1>1 DEF Chained

\* A walk that keeps to the mask violates nothing.
LEMMA NoViolations ==
  ASSUME NEW e, Live(AllTools, e), NEW a \in Mask(AllTools, e)
  PROVE  Violations(e, a, Step(AllTools, e, a)) = {}
  <1> DEFINE f == Step(AllTools, e, a)
  <1>1. EpisodeOk(AllTools, e) /\ ~ Terminated(e)
    BY DEF Live
  <1>2. f.credits \in Int /\ f.credits >= 0
    <2>1. EpisodeOk(AllTools, f) /\ f.credits >= 0
      BY <1>1, StepIsOk
    <2> HIDE DEF f
    <2> QED BY <2>1 DEF EpisodeOk, Episodes
  <1>3. ~ Refused(AllTools, e, a)
    BY DEF Refused
  <1>4. STOP \in Mask(AllTools, e)
    BY <1>1, Masked
  <1>5. ASSUME NEW b \in Mask(AllTools, e), b # STOP
        PROVE  DecodeProbe(b)[1] \in Services
    <2>1. b \in Probing
      BY <1>1, <1>5, Masked DEF Buyable
    <2>2. PICK s \in Services, t \in DOMAIN Template : b = ProbeAction(s, t)
      BY <2>1 DEF Probing
    <2> QED BY <2>2, Decodes
  <1>6. Terminated(f) => Refused(AllTools, f, STOP)
    BY DEF Refused, Mask, ActionMask
  <1> HIDE DEF f
  <1>7. ~ (f.credits < 0)
    BY <1>2
  <1> SUFFICES ASSUME NEW v \in Violations(e, a, f)
               PROVE  FALSE
    BY DEF f
  <1>8. CASE v = "mask"
    BY <1>3, <1>8 DEF Violations
  <1>9. CASE v = "budget"
    BY <1>7, <1>9 DEF Violations
  <1>10. CASE v = "padded"
    BY <1>5, <1>10 DEF Violations
  <1>11. CASE v = "no_stop"
    BY <1>4, <1>11 DEF Violations
  <1>12. CASE v = "payout"
    BY <1>6, <1>12 DEF Violations
  <1> QED BY <1>8, <1>9, <1>10, <1>11, <1>12 DEF Violations

\* What the critic says is a number.
LEMMA CriticIsWhole ==
  ASSUME NEW tools, NEW e, EpisodeOk(tools, e), policy \in Nat
  PROVE  Critic(policy, e) \in Int /\ e.return \in Int /\ e.credits \in Int
  BY DEF Critic, EpisodeOk, Episodes

\* The draws give descriptors.
LEMMA DrawsGive ==
  ASSUME NEW tools \in {Tools, AllTools}, NEW i \in Envs, NEW k \in Nat \ {0}
  PROVE  Live(tools, FreshEnv(i, k)) /\ FreshEnv(i, k).case \in CaseIds
  <1> DEFINE s == Draws[i]
             d == Draw(i, k)
  <1>1. s \in Seq(Descriptors) /\ s # << >>
    BY SimulatorAssumption
  <1>2. Len(s) \in Nat \ {0} /\ \A j \in 1 .. Len(s) : s[j] \in Descriptors
    <2> HIDE DEF s
    <2> QED BY <1>1
  <1> DEFINE n == Len(s)
             j == 1 + ((k - 1) % n)
  <1>3. j \in 1 .. n
    <2>1. n \in Nat \ {0} /\ k - 1 \in Nat
      BY <1>2
    <2> HIDE DEF n
    <2> QED BY <2>1
  <1>4. d \in Descriptors
    <2>1. d = s[j]
      BY DEF Draw
    <2> HIDE DEF j, n, d, s
    <2> QED BY <1>2, <1>3, <2>1 DEF n
  <1>5. FreshEnv(i, k) = Reset(d, << i, k >>)
    BY DEF FreshEnv, CaseId
  <1>6. << i, k >> \in CaseIds
    BY DEF CaseIds
  <1> HIDE DEF d
  <1> DEFINE id == << i, k >>
  <1> HIDE DEF id
  <1>7. Live(tools, Reset(d, id)) /\ Reset(d, id) \in Episodes({id}) /\ Reset(d, id).case = id
    BY <1>4, LiveResets, Resets
  <1> QED BY <1>5, <1>6, <1>7 DEF id

\* What a command starts from.
LEMMA InitOk == Init => IInv
  <1> SUFFICES ASSUME Init PROVE IInv
    OBVIOUS
  <1> DEFINE none == << >>
  <1>1. mode \in {"train", "managed", "evaluate", "fixture", "validate"}
    BY DEF Init
  <1>2. phase = IF mode \in {"train", "managed"} THEN "collect" ELSE mode
    BY DEF Init
  <1>3. ModesOk
    BY <1>1, <1>2 DEF ModesOk, Training, SavingPhases
  <1>4. phase # "dead" /\ phase \notin {"learn", "updated", "save_best", "write_best", "validating"}
    BY <1>1, <1>2
  <1>5. CollectorOk
    <2>1. policy = 0 /\ draws = [i \in Envs |-> 1] /\ envs = [i \in Envs |-> FreshEnv(i, 1)]
      BY DEF Init
    <2>2. Available \in {Tools, AllTools}
      BY DEF Available
    <2>3. \A i \in Envs : Live(Available, FreshEnv(i, One)) /\ FreshEnv(i, One).case \in CaseIds
      <3>1. One \in Nat \ {0}
        BY DEF One
      <3> HIDE DEF Available
      <3> QED BY <2>2, <3>1, DrawsGive
    <2>4. Crew(Available, envs)
      BY <2>1, <2>3 DEF Crew, One
    <2>5. draws \in [Envs -> Nat \ {0}]
      BY <2>1
    <2> QED BY <1>4, <2>1, <2>4, <2>5 DEF CollectorOk
  <1>6. BatchOk
    <2>1. batch = none
      BY DEF Init
    <2>2. none \in Seq([Envs -> Rows]) /\ \A i : Chained(Column(none, i), Critic(policy, envs[i]))
      BY ChainStarts
    <2> HIDE DEF none
    <2> QED BY <2>1, <2>2 DEF BatchOk
  <1>7. AdvOk
    BY <1>4 DEF AdvOk
  <1>8. FilesOk /\ SavesOk
    <2>1. /\ disk = [file \in Files |-> NoPayload] /\ snap = [file \in Files |-> NoPayload]
          /\ manager = NoScore /\ saving = NoScore /\ lostBest = FALSE
      BY DEF Init, Files
    <2>2. \A file \in Files : disk[file].state = "none"
      BY <2>1 DEF NoPayload
    <2>3. "latest" \in Files /\ "best" \in Files
      BY DEF Files
    <2>4. FilesOk
      BY <2>1, <2>2 DEF FilesOk
    <2>5. SavesOk
      BY <1>4, <2>1, <2>2, <2>3 DEF SavesOk, BestPending
    <2> QED BY <2>4, <2>5
  <1>9. BestOk
    <2>1. PICK score \in Scores, cost \in Costs :
             best = [score |-> score, cost |-> cost, policy |-> 0] /\ validated = {best} /\ policy = 0
      BY DEF Init
    <2>2. best.score = score /\ best.policy = 0 /\ score \in Int /\ TIE_TOLERANCE \in Nat
      BY <2>1, SimulatorAssumption
    <2>3. Slack = 1
      BY <1>4 DEF Slack
    <2>4. best.score <= best.score + TIE_TOLERANCE * (0 - 0 + 1)
      BY <2>2
    <2>5. \A v \in validated : v = best
      BY <2>1
    <2> QED BY <2>1, <2>2, <2>3, <2>4, <2>5 DEF BestOk
  <1>10. EvaluationOk
    <2> SUFFICES ASSUME mode = "evaluate" PROVE EvaluationOk
      BY DEF EvaluationOk
    <2>1. ev \in {[suite |-> suite, m |-> 1, c |-> 1, picked |-> 0,
                   e |-> Reset(Cases[1], CaseId(0, 1)),
                   totals |-> [m \in DOMAIN suite |-> NoTotals]] : suite \in Suites}
      BY DEF Init
    <2>2. PICK suite \in Suites :
            ev = [suite |-> suite, m |-> 1, c |-> 1, picked |-> 0,
                  e |-> Reset(Cases[1], CaseId(0, 1)),
                  totals |-> [m \in DOMAIN suite |-> NoTotals]]
      BY <2>1
    <2>3. 1 \in DOMAIN Cases /\ Cases[1] \in Descriptors /\ suite \in Seq(Methods)
      BY SimulatorAssumption
    <2>4. Live(Tools, Reset(Cases[1], CaseId(0, 1)))
      <3> DEFINE d == Cases[1]
                 id == CaseId(0, 1)
      <3>1. d \in Descriptors /\ Tools \in {Tools, AllTools}
        BY <2>3
      <3> HIDE DEF d, id
      <3>2. Live(Tools, Reset(d, id))
        BY <3>1, LiveResets
      <3> QED BY <3>2 DEF d, id
    <2>5. NoTotals \in Tallies /\ Settled(NoTotals)
      BY Constants DEF NoTotals, Tallies, Settled
    <2> HIDE DEF NoTotals
    <2>6. /\ ev = [suite |-> ev.suite, m |-> ev.m, c |-> ev.c, picked |-> ev.picked, e |-> ev.e,
                   totals |-> ev.totals]
          /\ ev.suite = suite /\ ev.m = 1 /\ ev.c = 1 /\ ev.e = Reset(Cases[1], CaseId(0, 1))
          /\ ev.totals = [m \in DOMAIN suite |-> NoTotals]
      BY <2>2
    <2> QED BY <2>3, <2>4, <2>5, <2>6 DEF EvaluationOk
  <1>11. WalkOk
    <2> SUFFICES ASSUME mode = "validate" PROVE WalkOk
      BY DEF WalkOk
    <2>1. ev \in {[d |-> Cases[c], report |-> << >>, e |-> Reset(Cases[c], << 0, 0 >>),
                   steps |-> 0, bad |-> {}] : c \in DOMAIN Cases}
      BY DEF Init
    <2>2. PICK c \in DOMAIN Cases :
            ev = [d |-> Cases[c], report |-> << >>, e |-> Reset(Cases[c], << 0, 0 >>),
                  steps |-> 0, bad |-> {}]
      BY <2>1
    <2> DEFINE d == Cases[c]
               id == << 0, 0 >>
    <2>3. d \in Descriptors /\ AllTools \in {Tools, AllTools}
      BY SimulatorAssumption
    <2>4. ev = [d |-> d, report |-> none, e |-> Reset(d, id), steps |-> 0, bad |-> {}]
      BY <2>2
    <2> HIDE DEF d, id, none
    <2>5. Live(AllTools, Reset(d, id))
      BY <2>3, LiveResets
    <2>6. /\ ev = [d |-> ev.d, report |-> ev.report, e |-> ev.e, steps |-> ev.steps, bad |-> ev.bad]
          /\ ev.d = d /\ ev.e = Reset(d, id) /\ ev.bad = {}
      BY <2>4
    <2> QED BY <2>3, <2>5, <2>6 DEF WalkOk
  <1> QED BY <1>3, <1>5, <1>6, <1>7, <1>8, <1>9, <1>10, <1>11 DEF IInv

(* The steps that concern neither collection nor saving.                       *)
Aside == Decide \/ Reference \/ Report \/ StartWorld \/ PlayOptimal \/ RunCheck \/ WalkStep
           \/ EndValidation

\* They belong to the commands that do not train.
LEMMA AsideSteps ==
  ASSUME Aside
  PROVE  /\ UNCHANGED << mode, train >>
         /\ phase \in {"evaluate", "fixture", "validate"} /\ phase' \in {phase, "done"}
  <1>1. CASE Decide
    BY <1>1 DEF Decide
  <1>2. CASE Reference
    BY <1>2 DEF Reference
  <1>3. CASE Report
    BY <1>3 DEF Report
  <1>4. CASE StartWorld
    BY <1>4 DEF StartWorld
  <1>5. CASE PlayOptimal
    BY <1>5 DEF PlayOptimal
  <1>6. CASE RunCheck
    BY <1>6 DEF RunCheck
  <1>7. CASE WalkStep
    BY <1>7 DEF WalkStep
  <1>8. CASE EndValidation
    BY <1>8 DEF EndValidation
  <1> QED BY <1>1, <1>2, <1>3, <1>4, <1>5, <1>6, <1>7, <1>8 DEF Aside

(* A resume, from whichever file and however.                                  *)
Resumes == \E file \in Files, exact \in BOOLEAN : Resume(file, exact)

\* Every step is one of these.
LEMMA Steps ==
  ASSUME [Next]_vars
  PROVE  \/ Collect \/ ComputeAdvantages \/ PpoEpoch \/ FinishUpdate \/ Validate \/ Continue
         \/ WriteLatest \/ WriteBest \/ Saved \/ Die \/ Resumes \/ Aside
         \/ UNCHANGED vars
  BY DEF Next, Resumes, Files, Aside

\* A command keeps to its phases.
LEMMA ModesStep ==
  ASSUME ModesOk, [Next]_vars
  PROVE  ModesOk'
  <1>1. CASE Collect
    BY <1>1 DEF ModesOk, Collect
  <1>2. CASE ComputeAdvantages
    BY <1>2 DEF ModesOk, ComputeAdvantages, Training
  <1>3. CASE PpoEpoch
    <2>1. phase' \in Training
      <3>1. PICK kl \in {"within", "over", "not_finite"} :
              phase' = CASE kl = "not_finite" -> "failed"
                         [] kl = "over" -> "updated"
                         [] kl = "within" -> IF epoch' = UPDATE_EPOCHS THEN "updated" ELSE "learn"
        BY <1>3 DEF PpoEpoch
      <3> QED BY <3>1 DEF Training
    <2>2. phase = "learn" /\ mode' = mode
      BY <1>3 DEF PpoEpoch
    <2> QED BY <2>1, <2>2 DEF ModesOk
  <1>4. CASE FinishUpdate
    BY <1>4 DEF ModesOk, FinishUpdate, Training
  <1>5. CASE Validate
    BY <1>5 DEF ModesOk, Validate, Training
  <1>6. CASE Continue
    BY <1>6 DEF ModesOk, Continue, Training
  <1>7. CASE WriteLatest
    BY <1>7 DEF ModesOk, WriteLatest, SavingPhases
  <1>8. CASE WriteBest
    BY <1>8 DEF ModesOk, WriteBest, Training, SavingPhases
  <1>9. CASE Saved
    BY <1>9 DEF ModesOk, Saved, Training
  <1>10. CASE Die
    BY <1>10 DEF ModesOk, Die, SavingPhases
  <1>11. CASE Resumes
    <2>1. phase = "dead" /\ phase' \in {"collect", "done"} /\ mode' = mode
      BY <1>11 DEF Resumes, Resume
    <2> QED BY <2>1 DEF ModesOk, Training
  <1>12. CASE Aside
    <2>1. /\ mode' = mode /\ phase \in {"evaluate", "fixture", "validate"} /\ phase' \in {phase, "done"}
      BY <1>12, AsideSteps
    <2> QED BY <2>1 DEF ModesOk, Training, SavingPhases
  <1>13. CASE UNCHANGED vars
    BY <1>13 DEF ModesOk, vars
  <1> QED BY <1>1, <1>2, <1>3, <1>4, <1>5, <1>6, <1>7, <1>8, <1>9, <1>10, <1>11, <1>12, <1>13, Steps

\* What one step of the collector leaves: live episodes, and a row that goes on
\* from where the last one ended.
LEMMA CollectGives ==
  ASSUME ModesOk, CollectorOk, Collect
  PROVE  /\ Available = Tools /\ Crew(Tools, envs') /\ draws' \in [Envs -> Nat \ {0}]
         /\ \E row \in [Envs -> Rows] :
              /\ batch' = Append(batch, row)
              /\ \A i \in Envs :
                   /\ row[i].value = Critic(policy, envs[i])
                   /\ row[i].termination => row[i].next = 0
                   /\ ~ row[i].termination => row[i].next = Critic(policy, envs'[i])
  <1>1. phase = "collect"
    BY DEF Collect
  <1>2. Available = Tools
    BY <1>1 DEF ModesOk, Available
  <1>3. Crew(Tools, envs) /\ draws \in [Envs -> Nat \ {0}] /\ policy \in Nat
    BY <1>1, <1>2 DEF CollectorOk
  <1>4. PICK acts \in [Envs -> 0 .. STOP] :
          /\ \A i \in Envs : acts[i] \in Act(i)
          /\ batch' = Append(batch, [i \in Envs |->
                               Row(envs[i], acts[i], Step(Tools, envs[i], acts[i]))])
          /\ draws' = [i \in Envs |-> draws[i] + IF Terminated(Step(Tools, envs[i], acts[i])) THEN 1 ELSE 0]
          /\ envs' = [i \in Envs |-> IF Terminated(Step(Tools, envs[i], acts[i]))
                                     THEN FreshEnv(i, draws'[i]) ELSE Step(Tools, envs[i], acts[i])]
    BY DEF Collect
  <1> DEFINE next(i) == Step(Tools, envs[i], acts[i])
             row == [i \in Envs |-> Row(envs[i], acts[i], next(i))]
  <1>5. ASSUME NEW i \in Envs
        PROVE  /\ EpisodeOk(Tools, envs[i]) /\ EpisodeOk(Tools, next(i))
               /\ next(i).case = envs[i].case /\ envs[i].case \in CaseIds /\ acts[i] \in Nat
               /\ ~ Terminated(next(i)) => Live(Tools, next(i))
    <2> DEFINE e == envs[i]
               a == acts[i]
    <2>1. Live(Tools, e) /\ e.case \in CaseIds /\ a \in Mask(Tools, e)
      BY <1>3, <1>4 DEF Crew, Act
    <2> HIDE DEF e, a
    <2>2. EpisodeOk(Tools, e)
      BY <2>1 DEF Live
    <2>3. Step(Tools, e, a).case = e.case
      BY <2>1, <2>2, StepIsOk
    <2>4. /\ EpisodeOk(Tools, Step(Tools, e, a)) /\ a \in Nat
          /\ ~ Terminated(Step(Tools, e, a)) => Live(Tools, Step(Tools, e, a))
      BY <2>1, LiveSteps
    <2> QED BY <2>1, <2>2, <2>3, <2>4 DEF e, a
  <1>6. draws' \in [Envs -> Nat \ {0}]
    <2>1. \A i \in Envs : draws[i] + (IF Terminated(Step(Tools, envs[i], acts[i])) THEN 1 ELSE 0) \in Nat \ {0}
      BY <1>3
    <2> QED BY <1>4, <2>1
  <1>7. ASSUME NEW i \in Envs
        PROVE  /\ Live(Tools, envs'[i]) /\ envs'[i].case \in CaseIds
               /\ ~ Terminated(next(i)) => envs'[i] = next(i)
    <2> DEFINE k == draws'[i]
               f == next(i)
    <2>1. envs'[i] = IF Terminated(f) THEN FreshEnv(i, k) ELSE f
      BY <1>4
    <2>2. k \in Nat \ {0} /\ Tools \in {Tools, AllTools}
      BY <1>6
    <2>3. f.case \in CaseIds /\ ~ Terminated(f) => Live(Tools, f)
      BY <1>5
    <2>4. f.case \in CaseIds
      BY <1>5
    <2> HIDE DEF k, f
    <2>5. Live(Tools, FreshEnv(i, k)) /\ FreshEnv(i, k).case \in CaseIds
      BY <2>2, DrawsGive
    <2>6. ~ Terminated(f) => Live(Tools, f)
      BY <2>3, <2>4
    <2> QED BY <2>1, <2>4, <2>5, <2>6 DEF f
  <1>8. Crew(Tools, envs')
    <2>1. envs' = [i \in Envs |-> envs'[i]]
      BY <1>4
    <2> QED BY <1>7, <2>1 DEF Crew
  <1>9. ASSUME NEW i \in Envs
        PROVE  /\ row[i] \in Rows
               /\ row[i].value = Critic(policy, envs[i])
               /\ row[i].termination => row[i].next = 0
               /\ ~ row[i].termination => row[i].next = Critic(policy, envs'[i])
    <2> DEFINE e == envs[i]
               f == next(i)
               a == acts[i]
               over == Terminated(f)
               v == Critic(policy, e)
               x == IF over THEN 0 ELSE Critic(policy, f)
               gain == f.return - e.return
    <2>1. EpisodeOk(Tools, e) /\ EpisodeOk(Tools, f) /\ e.case \in CaseIds /\ a \in Nat
      BY <1>5
    <2>2. row[i] = Row(e, a, f)
      OBVIOUS
    <2>3. ~ over => envs'[i] = f
      BY <1>7
    <2> HIDE DEF e, f, a, row
    <2>4. v \in Int /\ Critic(policy, f) \in Int /\ e.return \in Int /\ f.return \in Int
      BY <1>3, <2>1, CriticIsWhole
    <2>5. gain \in Int /\ x \in Int
      BY <2>4
    <2>6. over \in BOOLEAN
      BY DEF Terminated
    <2>7. row[i] = [action |-> a, case |-> e.case, reward |-> gain, value |-> v, next |-> x,
                    termination |-> over]
      BY <2>2 DEF Row
    <2>8. over => x = 0
      OBVIOUS
    <2>9. ~ over => x = Critic(policy, envs'[i])
      BY <2>3
    <2> HIDE DEF v, x, gain, over
    <2>10. row[i] \in Rows
      BY <2>1, <2>4, <2>5, <2>6, <2>7 DEF Rows
    <2> QED BY <2>7, <2>8, <2>9, <2>10 DEF v, e
  <1>10. batch' = Append(batch, row) /\ row = [i \in Envs |-> row[i]]
    BY <1>4
  <1> HIDE DEF row
  <1>11. row \in [Envs -> Rows]
    BY <1>9, <1>10
  <1> QED BY <1>2, <1>6, <1>8, <1>9, <1>10, <1>11

\* Episodes stay live; a resume brings back live ones.
LEMMA CollectorStep ==
  ASSUME ModesOk, CollectorOk, FilesOk, [Next]_vars
  PROVE  CollectorOk'
  <1>1. CASE Collect
    <2>1. Available = Tools /\ Crew(Tools, envs') /\ draws' \in [Envs -> Nat \ {0}]
      BY <1>1, CollectGives
    <2>2. mode' = mode /\ policy' = policy /\ phase' = phase /\ phase = "collect"
      BY <1>1 DEF Collect
    <2>3. Available' = Tools
      BY <2>1, <2>2 DEF Available
    <2>4. Crew(Available', envs')
      BY <2>1, <2>3
    <2> QED BY <2>1, <2>2, <2>4 DEF CollectorOk
  <1>2. ASSUME mode' = mode, policy' \in Nat, envs' = envs, draws' = draws, phase # "dead", phase' # "dead"
        PROVE  CollectorOk'
    <2>1. Available' = Available
      BY <1>2 DEF Available
    <2>2. Crew(Available', envs') /\ draws' \in [Envs -> Nat \ {0}]
      BY <1>2, <2>1 DEF CollectorOk
    <2> QED BY <1>2, <2>2 DEF CollectorOk
  <1>3. CASE FinishUpdate
    <2>1. policy' \in Nat
      BY <1>3 DEF FinishUpdate, CollectorOk
    <2>2. phase = "updated" /\ phase' # "dead" /\ mode' = mode /\ envs' = envs /\ draws' = draws
      BY <1>3 DEF FinishUpdate
    <2> QED BY <1>2, <2>1, <2>2
  <1>4. CASE ComputeAdvantages \/ PpoEpoch \/ Validate \/ Continue \/ WriteLatest \/ WriteBest \/ Saved
    <2>1. mode' = mode /\ policy' = policy /\ envs' = envs /\ draws' = draws
      BY <1>4 DEF ComputeAdvantages, PpoEpoch, Validate, Continue, WriteLatest, WriteBest, Saved
    <2>2. phase # "dead"
      BY <1>4 DEF ComputeAdvantages, PpoEpoch, Validate, Continue, WriteLatest, WriteBest, Saved
    <2>3. phase' # "dead"
      <3>1. CASE PpoEpoch
        <4>1. PICK kl \in {"within", "over", "not_finite"} :
                phase' = CASE kl = "not_finite" -> "failed"
                           [] kl = "over" -> "updated"
                           [] kl = "within" -> IF epoch' = UPDATE_EPOCHS THEN "updated" ELSE "learn"
          BY <3>1 DEF PpoEpoch
        <4> QED BY <4>1
      <3>2. CASE ComputeAdvantages \/ Validate \/ Continue \/ WriteLatest \/ WriteBest \/ Saved
        BY <3>2 DEF ComputeAdvantages, Validate, Continue, WriteLatest, WriteBest, Saved
      <3> QED BY <1>4, <3>1, <3>2
    <2>4. policy' \in Nat
      BY <2>1 DEF CollectorOk
    <2> QED BY <1>2, <2>1, <2>2, <2>3, <2>4
  <1>5. CASE Die
    BY <1>5 DEF Die, CollectorOk
  <1>6. CASE Resumes
    <2>1. PICK file \in Files, exact \in BOOLEAN : Resume(file, exact)
      BY <1>6 DEF Resumes
    <2> DEFINE p == disk[file]
               s == snap[file]
    <2>2. /\ phase = "dead" /\ p.state = "whole" /\ mode' = mode /\ policy' = p.policy
          /\ draws' = IF exact THEN p.rng ELSE [i \in Envs |-> 1]
          /\ envs' = [i \in Envs |-> IF exact THEN Replay(Tools, p.envs[i]) ELSE FreshEnv(i, 1)]
          /\ phase' # "dead"
      BY <2>1 DEF Resume
    <2>3. Matches(p, s)
      BY <2>2 DEF FilesOk
    <2>4. Available' = Tools
      BY <2>2 DEF ModesOk, Available, Training
    <2> HIDE DEF p, s
    <2>5. policy' \in Nat
      BY <2>2, <2>3 DEF Matches
    <2>6. draws' \in [Envs -> Nat \ {0}]
      BY <2>2, <2>3 DEF Matches
    <2>7. ASSUME NEW i \in Envs
          PROVE  Live(Tools, envs'[i]) /\ envs'[i].case \in CaseIds
      <3>1. CASE exact = TRUE
        <4> DEFINE e == s.envs[i]
        <4>1. Live(Tools, e) /\ e.case \in CaseIds /\ p.envs[i] = CheckpointState(Tools, e)
          BY <2>3 DEF Matches, Crew
        <4>2. envs'[i] = Replay(Tools, p.envs[i])
          BY <2>2, <3>1
        <4> HIDE DEF e
        <4>3. Replay(Tools, CheckpointState(Tools, e)) = e
          BY <4>1, CheckpointsRestore
        <4> QED BY <4>1, <4>2, <4>3
      <3>2. CASE exact = FALSE
        <4>1. envs'[i] = FreshEnv(i, One)
          BY <2>2, <3>2 DEF One
        <4>2. One \in Nat \ {0} /\ Tools \in {Tools, AllTools}
          BY DEF One
        <4> QED BY <4>1, <4>2, DrawsGive
      <3> QED BY <3>1, <3>2
    <2>8. Crew(Tools, envs')
      <3>1. envs' = [i \in Envs |-> envs'[i]]
        BY <2>2
      <3> QED BY <2>7, <3>1 DEF Crew
    <2> QED BY <2>2, <2>4, <2>5, <2>6, <2>8 DEF CollectorOk
  <1>7. CASE Aside
    <2>1. mode' = mode /\ policy' = policy /\ envs' = envs /\ draws' = draws
      BY <1>7, AsideSteps DEF train
    <2>2. phase # "dead" /\ phase' # "dead"
      BY <1>7, AsideSteps
    <2>3. policy' \in Nat
      BY <2>1 DEF CollectorOk
    <2> QED BY <1>2, <2>1, <2>2, <2>3
  <1>8. CASE UNCHANGED vars
    <2>1. UNCHANGED << mode, phase, envs, draws, batch, policy >>
      BY <1>8 DEF vars, train
    <2> QED BY <2>1 DEF CollectorOk, Available
  <1> QED BY <1>1, <1>3, <1>4, <1>5, <1>6, <1>7, <1>8, Steps

\* The rows go on hanging together.
LEMMA BatchStep ==
  ASSUME ModesOk, CollectorOk, BatchOk, [Next]_vars
  PROVE  BatchOk'
  <1> DEFINE none == << >>
  <1>1. CASE Collect
    <2>1. PICK row \in [Envs -> Rows] :
            /\ batch' = Append(batch, row)
            /\ \A i \in Envs :
                 /\ row[i].value = Critic(policy, envs[i])
                 /\ row[i].termination => row[i].next = 0
                 /\ ~ row[i].termination => row[i].next = Critic(policy, envs'[i])
      BY <1>1, CollectGives
    <2>2. policy' = policy
      BY <1>1 DEF Collect
    <2>3. batch' \in Seq([Envs -> Rows])
      BY <2>1 DEF BatchOk
    <2>4. ASSUME NEW i \in Envs
          PROVE  Chained(Column(batch', i), Critic(policy', envs'[i]))
      <3> DEFINE last == Critic(policy, envs[i])
                 end == Critic(policy, envs'[i])
      <3>2. /\ batch \in Seq([Envs -> Rows]) /\ Chained(Column(batch, i), last)
            /\ row[i].value = last
        BY <2>1 DEF BatchOk
      <3>3. (row[i].termination => row[i].next = 0) /\ (~ row[i].termination => row[i].next = end)
        BY <2>1
      <3>4. Critic(policy', envs'[i]) = end
        BY <2>2
      <3> HIDE DEF last, end
      <3>5. Chained(Column(Append(batch, row), i), end)
        BY <3>2, <3>3, ChainGrows
      <3> QED BY <2>1, <3>4, <3>5
    <2> QED BY <2>3, <2>4 DEF BatchOk
  <1>2. ASSUME batch' = none
        PROVE  BatchOk'
    <2>1. none \in Seq([Envs -> Rows]) /\ \A i : Chained(Column(none, i), Critic(policy', envs'[i]))
      BY ChainStarts
    <2> HIDE DEF none
    <2> QED BY <1>2, <2>1 DEF BatchOk
  <1>3. CASE FinishUpdate \/ Die
    <2>1. batch' = none
      BY <1>3 DEF FinishUpdate, Die
    <2> QED BY <1>2, <2>1
  <1>4. CASE Resumes
    <2>1. phase = "dead" /\ batch' = batch
      BY <1>4 DEF Resumes, Resume
    <2>2. batch' = none
      BY <2>1 DEF CollectorOk
    <2> QED BY <1>2, <2>2
  <1>5. ASSUME UNCHANGED << batch, policy, envs >>
        PROVE  BatchOk'
    BY <1>5 DEF BatchOk, Critic
  <1>6. CASE ComputeAdvantages \/ PpoEpoch \/ Validate \/ Continue \/ WriteLatest \/ WriteBest \/ Saved
    <2>1. UNCHANGED << batch, policy, envs >>
      BY <1>6 DEF ComputeAdvantages, PpoEpoch, Validate, Continue, WriteLatest, WriteBest, Saved
    <2> QED BY <1>5, <2>1
  <1>7. CASE Aside
    <2>1. UNCHANGED << batch, policy, envs >>
      BY <1>7, AsideSteps DEF train
    <2> QED BY <1>5, <2>1
  <1>8. CASE UNCHANGED vars
    <2>1. UNCHANGED << batch, policy, envs >>
      BY <1>8 DEF vars, train
    <2> QED BY <1>5, <2>1
  <1> QED BY <1>1, <1>3, <1>4, <1>6, <1>7, <1>8, Steps

\* The advantages are of the rollout that is learnt from.
LEMMA AdvStep ==
  ASSUME ModesOk, AdvOk, [Next]_vars
  PROVE  AdvOk'
  <1>1. CASE ComputeAdvantages
    BY <1>1 DEF ComputeAdvantages, AdvOk
  <1>2. CASE PpoEpoch
    BY <1>2 DEF PpoEpoch, AdvOk
  <1>3. CASE Collect \/ FinishUpdate \/ Validate \/ Continue \/ WriteLatest \/ WriteBest \/ Saved \/ Die
    <2>1. phase' \notin {"learn", "updated"}
      BY <1>3 DEF Collect, FinishUpdate, Validate, Continue, WriteLatest, WriteBest, Saved, Die
    <2> QED BY <2>1 DEF AdvOk
  <1>4. CASE Resumes
    <2>1. phase' \in {"collect", "done"}
      BY <1>4 DEF Resumes, Resume
    <2> QED BY <2>1 DEF AdvOk
  <1>5. CASE Aside
    <2>1. phase' \in {"evaluate", "fixture", "validate", "done"}
      BY <1>5, AsideSteps
    <2> QED BY <2>1 DEF AdvOk
  <1>6. CASE UNCHANGED vars
    <2>1. UNCHANGED << phase, adv, batch >>
      BY <1>6 DEF vars, train
    <2> QED BY <2>1 DEF AdvOk
  <1> QED BY <1>1, <1>2, <1>3, <1>4, <1>5, <1>6, Steps

\* What is saved is the collector, and it is live.
LEMMA PayloadMatches ==
  ASSUME CollectorOk, Available = Tools, phase # "dead"
  PROVE  Matches(Payload, Snapshot) /\ Payload.state = "whole"
         /\ Payload.score = IF IsBest THEN saving ELSE manager
  <1> DEFINE s == Snapshot
             p == Payload
  <1>1. Crew(Tools, envs) /\ draws \in [Envs -> Nat \ {0}] /\ policy \in Nat
    BY DEF CollectorOk
  <1>2. /\ s = [envs |-> s.envs, draws |-> s.draws, policy |-> s.policy, update |-> s.update]
        /\ s.envs = envs /\ s.draws = draws /\ s.policy = policy /\ s.update = update
    BY DEF Snapshot
  <1>3. /\ p.state = "whole" /\ p.policy = policy /\ p.update = update /\ p.rng = draws
        /\ p.score = (IF IsBest THEN saving ELSE manager)
        /\ p.envs = [i \in Envs |-> CheckpointState(Tools, envs[i])]
    BY DEF Payload
  <1> HIDE DEF s, p
  <1>4. Matches(p, s)
    BY <1>1, <1>2, <1>3 DEF Matches
  <1> QED BY <1>3, <1>4 DEF p, s

\* A file that is whole matches what the history says.
LEMMA FilesStep ==
  ASSUME ModesOk, CollectorOk, FilesOk, [Next]_vars
  PROVE  FilesOk'
  <1>1. ASSUME UNCHANGED << disk, snap >>
        PROVE  FilesOk'
    BY <1>1 DEF FilesOk, Matches, Crew
  <1>2. ASSUME NEW file \in Files, disk' = [disk EXCEPT ![file] = Torn], snap' = snap
        PROVE  FilesOk'
    <2>1. DOMAIN disk' = Files /\ DOMAIN snap' = Files
      BY <1>2 DEF FilesOk
    <2>2. ASSUME NEW f \in Files, disk'[f].state = "whole"
          PROVE  Matches(disk'[f], snap'[f])
      <3>1. f # file
        BY <1>2, <2>2 DEF FilesOk, Torn
      <3>2. disk'[f] = disk[f] /\ snap'[f] = snap[f]
        BY <1>2, <3>1 DEF FilesOk
      <3>3. Matches(disk[f], snap[f])
        BY <2>2, <3>2 DEF FilesOk
      <3> QED BY <3>2, <3>3
    <2>3. \A f \in Files : disk'[f].state = "whole" => Matches(disk'[f], snap'[f])
      BY <2>2
    <2> QED BY <2>1, <2>3 DEF FilesOk, Matches, Crew
  <1>3. ASSUME NEW file \in Files, disk' = [disk EXCEPT ![file] = Payload],
               snap' = [snap EXCEPT ![file] = Snapshot], phase # "dead", Available = Tools
        PROVE  FilesOk'
    <2>1. DOMAIN disk' = Files /\ DOMAIN snap' = Files
      BY <1>3 DEF FilesOk
    <2>2. ASSUME NEW f \in Files, disk'[f].state = "whole"
          PROVE  Matches(disk'[f], snap'[f])
      <3>1. CASE f = file
        <4>1. disk'[f] = Payload /\ snap'[f] = Snapshot
          BY <1>3, <3>1 DEF FilesOk
        <4> QED BY <1>3, <4>1, PayloadMatches
      <3>2. CASE f # file
        <4>1. disk'[f] = disk[f] /\ snap'[f] = snap[f]
          BY <1>3, <3>2 DEF FilesOk
        <4>2. Matches(disk[f], snap[f])
          BY <2>2, <4>1 DEF FilesOk
        <4> QED BY <4>1, <4>2
      <3> QED BY <3>1, <3>2
    <2>3. \A f \in Files : disk'[f].state = "whole" => Matches(disk'[f], snap'[f])
      BY <2>2
    <2> QED BY <2>1, <2>3 DEF FilesOk, Matches, Crew
  <1>4. "latest" \in Files /\ "best" \in Files
    BY DEF Files
  <1>5. CASE WriteLatest
    <2>1. mode = "managed" /\ phase \in {"boundary", "save_latest"}
      BY <1>5 DEF WriteLatest
    <2>2. phase # "dead" /\ Available = Tools
      BY <2>1 DEF Available
    <2>3. \/ disk' = [disk EXCEPT !["latest"] = Torn] /\ snap' = snap
          \/ disk' = [disk EXCEPT !["latest"] = Payload] /\ snap' = [snap EXCEPT !["latest"] = Snapshot]
      BY <1>5 DEF WriteLatest
    <2> QED BY <1>2, <1>3, <1>4, <2>2, <2>3
  <1>6. CASE WriteBest
    <2>1. phase \in {"save_best", "write_best"}
      BY <1>6 DEF WriteBest
    <2>2. phase # "dead" /\ Available = Tools
      BY <2>1 DEF ModesOk, Available
    <2>3. \/ disk' = [disk EXCEPT !["best"] = Torn] /\ snap' = snap
          \/ disk' = [disk EXCEPT !["best"] = Payload] /\ snap' = [snap EXCEPT !["best"] = Snapshot]
      BY <1>6 DEF WriteBest
    <2> QED BY <1>2, <1>3, <1>4, <2>2, <2>3
  <1>7. CASE Collect \/ ComputeAdvantages \/ PpoEpoch \/ FinishUpdate \/ Validate \/ Continue \/ Saved \/ Die
    <2>1. UNCHANGED << disk, snap >>
      BY <1>7 DEF Collect, ComputeAdvantages, PpoEpoch, FinishUpdate, Validate, Continue, Saved, Die
    <2> QED BY <1>1, <2>1
  <1>8. CASE Resumes
    <2>1. UNCHANGED << disk, snap >>
      BY <1>8 DEF Resumes, Resume
    <2> QED BY <1>1, <2>1
  <1>9. CASE Aside
    <2>1. UNCHANGED << disk, snap >>
      BY <1>9, AsideSteps DEF train
    <2> QED BY <1>1, <2>1
  <1>10. CASE UNCHANGED vars
    <2>1. UNCHANGED << disk, snap >>
      BY <1>10 DEF vars, train
    <2> QED BY <1>1, <2>1
  <1> QED BY <1>5, <1>6, <1>7, <1>8, <1>9, <1>10, Steps

\* The best file keeps up with the scores, except across a death between the
\* two files of one save.
LEMMA SavesStep ==
  ASSUME ModesOk, CollectorOk, FilesOk, SavesOk, [Next]_vars
  PROVE  SavesOk'
  <1>1. ASSUME UNCHANGED << disk, manager, lostBest >>, ~ BestPending, ~ BestPending'
        PROVE  SavesOk'
    <2>1. \A x : BestIs(x) => BestIs(x)'
      BY <1>1 DEF BestIs
    <2> QED BY <1>1, <2>1 DEF SavesOk, BestIs
  <1>2. CASE Collect \/ ComputeAdvantages \/ FinishUpdate \/ Validate \/ Continue \/ Saved
    <2>1. UNCHANGED << disk, manager, lostBest >>
      BY <1>2 DEF Collect, ComputeAdvantages, FinishUpdate, Validate, Continue, Saved
    <2>2. phase \notin {"save_best", "write_best"} /\ phase' \notin {"save_best", "write_best"}
      BY <1>2 DEF Collect, ComputeAdvantages, FinishUpdate, Validate, Continue, Saved
    <2> QED BY <1>1, <2>1, <2>2 DEF BestPending
  <1>3. CASE PpoEpoch
    <2>1. UNCHANGED << disk, manager, lostBest >> /\ phase = "learn"
      BY <1>3 DEF PpoEpoch
    <2>2. PICK kl \in {"within", "over", "not_finite"} :
            phase' = CASE kl = "not_finite" -> "failed"
                       [] kl = "over" -> "updated"
                       [] kl = "within" -> IF epoch' = UPDATE_EPOCHS THEN "updated" ELSE "learn"
      BY <1>3 DEF PpoEpoch
    <2>3. phase' \in {"failed", "updated", "learn"}
      BY <2>2
    <2> QED BY <1>1, <2>1, <2>3 DEF BestPending
  <1>4. CASE WriteLatest
    <2>1. /\ phase \in {"boundary", "save_latest"} /\ mode = "managed"
          /\ UNCHANGED << manager, lostBest, saving >>
      BY <1>4 DEF WriteLatest
    <2>2. ~ BestPending /\ phase # "dead" /\ Available = Tools
      BY <2>1 DEF BestPending, Available
    <2>3. "latest" \in DOMAIN disk /\ "best" \in DOMAIN disk
      BY DEF FilesOk, Files
    <2>4. disk'["best"] = disk["best"]
      BY <1>4, <2>3 DEF WriteLatest
    <2>5. \A x : BestIs(x) => BestIs(x)'
      BY <2>4 DEF BestIs
    <2>6. CASE phase = "boundary"
      <3>1. disk'["latest"] = Torn /\ phase' = "save_latest"
        BY <1>4, <2>3, <2>6 DEF WriteLatest
      <3>2. ~ BestPending' /\ disk'["latest"].state = "torn"
        BY <3>1 DEF BestPending, Torn
      <3> QED BY <2>1, <2>5, <3>2 DEF SavesOk, BestIs
    <2>7. CASE phase = "save_latest"
      <3>1. disk'["latest"] = Payload /\ phase' = IF IsBest THEN "save_best" ELSE "saved"
        BY <1>4, <2>3, <2>7 DEF WriteLatest
      <3>2. Payload.state = "whole" /\ Payload.score = IF IsBest THEN saving ELSE manager
        BY <2>2, PayloadMatches
      <3>3. IsBest' = IsBest
        BY <2>1 DEF IsBest
      <3>4. CASE IsBest
        <4>1. phase' = "save_best" /\ disk'["latest"].state = "whole" /\ disk'["latest"].score = saving'
          BY <2>1, <3>1, <3>2, <3>4
        <4>2. BestPending' /\ IsBest'
          BY <3>3, <3>4, <4>1 DEF BestPending
        <4> QED BY <2>1, <2>5, <4>1, <4>2 DEF SavesOk, BestIs
      <3>5. CASE ~ IsBest
        <4>1. phase' = "saved" /\ disk'["latest"].score = manager
          BY <3>1, <3>2, <3>5
        <4>2. ~ BestPending'
          BY <4>1 DEF BestPending
        <4> QED BY <2>1, <2>5, <4>1, <4>2 DEF SavesOk, BestIs
      <3> QED BY <3>4, <3>5
    <2> QED BY <2>1, <2>6, <2>7
  <1>5. CASE WriteBest
    <2>1. phase \in {"save_best", "write_best"} /\ UNCHANGED << lostBest, saving >>
      BY <1>5 DEF WriteBest
    <2>2. /\ IsBest /\ disk["latest"].state = "whole" /\ disk["latest"].score = saving
          /\ phase # "dead" /\ Available = Tools
      BY <2>1 DEF SavesOk, BestPending, ModesOk, Available
    <2>3. "latest" \in DOMAIN disk /\ "best" \in DOMAIN disk
      BY DEF FilesOk, Files
    <2>4. disk'["latest"] = disk["latest"]
      BY <1>5, <2>3 DEF WriteBest
    <2>5. CASE phase = "save_best"
      <3>1. disk'["best"] = Torn /\ phase' = "write_best" /\ manager' = manager
        BY <1>5, <2>3, <2>5 DEF WriteBest
      <3>2. \A x : BestIs(x)'
        BY <3>1 DEF BestIs, Torn
      <3>3. IsBest'
        BY <2>1, <2>2, <3>1 DEF IsBest
      <3>4. BestPending'
        BY <3>1 DEF BestPending
      <3> QED BY <2>1, <2>2, <2>4, <3>2, <3>3, <3>4 DEF SavesOk, BestIs
    <2>6. CASE phase = "write_best"
      <3>1. disk'["best"] = Payload /\ phase' = "saved" /\ manager' = saving
        BY <1>5, <2>3, <2>6 DEF WriteBest
      <3>2. Payload.state = "whole" /\ Payload.score = saving
        BY <2>2, PayloadMatches
      <3>3. BestIs(saving)'
        BY <2>1, <3>1, <3>2 DEF BestIs
      <3>4. ~ BestPending'
        BY <3>1 DEF BestPending
      <3> QED BY <2>1, <2>2, <2>4, <3>1, <3>3, <3>4 DEF SavesOk, BestIs
    <2> QED BY <2>1, <2>5, <2>6
  <1>6. CASE Die
    <2>1. /\ disk' = disk /\ manager' = NoScore /\ phase' = "dead"
          /\ lostBest' = (lostBest \/ phase \in {"save_best", "write_best"})
      BY <1>6 DEF Die
    <2>2. ~ BestPending'
      BY <2>1 DEF BestPending
    <2>3. lostBest' \in BOOLEAN /\ (lostBest' = FALSE => lostBest = FALSE /\ ~ BestPending)
      BY <2>1 DEF SavesOk, BestPending
    <2>4. \A x : BestIs(x) => BestIs(x)'
      BY <2>1 DEF BestIs
    <2> QED BY <2>1, <2>2, <2>3, <2>4 DEF SavesOk, BestIs
  <1>7. CASE Resumes
    <2>1. PICK file \in Files, exact \in BOOLEAN : Resume(file, exact)
      BY <1>7 DEF Resumes
    <2>2. /\ phase = "dead" /\ disk[file].state = "whole" /\ UNCHANGED << disk, lostBest >>
          /\ manager' = disk[file].score /\ phase' \in {"collect", "done"}
      BY <2>1 DEF Resume
    <2>3. ~ BestPending /\ ~ BestPending'
      BY <2>2 DEF BestPending
    <2>4. \A x : BestIs(x) => BestIs(x)'
      BY <2>2 DEF BestIs
    <2>5. manager' # NoScore /\ lostBest = FALSE => BestIs(manager')
      <3>1. CASE file = "latest"
        BY <2>2, <2>3, <3>1 DEF SavesOk
      <3>2. CASE file = "best"
        BY <2>2, <3>2 DEF BestIs
      <3> QED BY <3>1, <3>2 DEF Files
    <2> QED BY <2>2, <2>3, <2>4, <2>5 DEF SavesOk, BestIs
  <1>8. CASE Aside
    <2>1. UNCHANGED << disk, manager, lostBest >>
      BY <1>8, AsideSteps DEF train
    <2>2. ~ BestPending /\ ~ BestPending'
      BY <1>8, AsideSteps DEF BestPending
    <2> QED BY <1>1, <2>1, <2>2
  <1>9. CASE UNCHANGED vars
    <2>1. UNCHANGED << phase, disk, manager, saving, lostBest >>
      BY <1>9 DEF vars, train
    <2> QED BY <2>1 DEF SavesOk, BestIs, BestPending, IsBest
  <1> QED BY <1>2, <1>3, <1>4, <1>5, <1>6, <1>7, <1>8, <1>9, Steps

\* One tolerance more for one validation more.
LEMMA Trails ==
  ASSUME NEW tol \in Nat, NEW x \in Int
  PROVE  tol * (x + 1) = tol * x + tol /\ tol * x \in Int
  OBVIOUS

\* run_training's best trails by the tolerance, once more at each validation.
LEMMA BestStep ==
  ASSUME ModesOk, CollectorOk, BestOk, [Next]_vars
  PROVE  BestOk'
  <1> SUFFICES ASSUME mode' = "train" PROVE BestOk'
    BY DEF BestOk
  <1> DEFINE tol == TIE_TOLERANCE
  <1>1. tol \in Nat /\ Scores \subseteq Int
    BY SimulatorAssumption
  <1> HIDE DEF tol
  <1>2. ASSUME mode' = mode, UNCHANGED << best, validated, policy >>,
               phase' # "validating" \/ phase = "validating"
        PROVE  BestOk'
    <2>1. CASE Slack' = Slack
      BY <1>2, <2>1 DEF BestOk
    <2>2. CASE Slack' # Slack
      <3>1. Slack = 0 /\ Slack' = 1
        BY <1>2, <2>2 DEF Slack
      <3>2. ASSUME NEW v \in validated
            PROVE  /\ v.score \in Int /\ v.policy \in Int /\ best.score \in Int
                   /\ v.score <= best.score + TIE_TOLERANCE * (policy - v.policy + 1)
        <4>1. /\ v.score \in Int /\ v.policy \in Int /\ best.score \in Int
              /\ v.score <= best.score + TIE_TOLERANCE * (policy - v.policy + Slack)
          BY <1>2 DEF BestOk
        <4>2. policy \in Nat
          BY DEF CollectorOk
        <4> DEFINE x == policy - v.policy
        <4>3. x \in Int /\ x + Slack = x
          BY <3>1, <4>1, <4>2
        <4> HIDE DEF x
        <4>4. tol * (x + 1) = tol * x + tol /\ tol * x \in Int
          BY <1>1, <4>3, Trails
        <4> DEFINE y == tol * x
                   z == tol * (x + 1)
        <4>5. v.score <= best.score + y
          BY <4>1, <4>3 DEF tol, x
        <4>6. z = y + tol /\ y \in Int
          BY <4>4
        <4> HIDE DEF y, z
        <4>7. v.score <= best.score + z
          BY <1>1, <4>1, <4>5, <4>6
        <4> QED BY <4>1, <4>7 DEF z, x, tol
      <3> QED BY <1>2, <3>1, <3>2 DEF BestOk
    <2> QED BY <2>1, <2>2
  <1>3. CASE Collect \/ ComputeAdvantages \/ Continue \/ WriteLatest \/ WriteBest \/ Saved
    <2>1. mode' = mode /\ UNCHANGED << best, validated, policy >>
      BY <1>3 DEF Collect, ComputeAdvantages, Continue, WriteLatest, WriteBest, Saved
    <2>2. phase' # "validating"
      BY <1>3 DEF Collect, ComputeAdvantages, Continue, WriteLatest, WriteBest, Saved
    <2> QED BY <1>2, <2>1, <2>2
  <1>4. CASE PpoEpoch
    <2>1. mode' = mode /\ UNCHANGED << best, validated, policy >>
      BY <1>4 DEF PpoEpoch
    <2>2. PICK kl \in {"within", "over", "not_finite"} :
            phase' = CASE kl = "not_finite" -> "failed"
                       [] kl = "over" -> "updated"
                       [] kl = "within" -> IF epoch' = UPDATE_EPOCHS THEN "updated" ELSE "learn"
      BY <1>4 DEF PpoEpoch
    <2>3. phase' # "validating"
      BY <2>2
    <2> QED BY <1>2, <2>1, <2>3
  <1>5. CASE FinishUpdate
    <2>1. mode' = mode /\ UNCHANGED << best, validated >> /\ policy' = policy + 1 /\ phase = "updated"
      BY <1>5 DEF FinishUpdate
    <2>2. Slack = 1 /\ Slack' \in {0, 1} /\ policy \in Nat /\ mode = "train"
      BY <2>1 DEF Slack, CollectorOk
    <2>3. ASSUME NEW v \in validated
          PROVE  /\ v.score \in Int /\ v.policy \in Int /\ best.score \in Int
                 /\ v.score <= best.score + TIE_TOLERANCE * (policy' - v.policy + Slack')
      <3>1. /\ v.score \in Int /\ v.policy \in Int /\ best.score \in Int
            /\ v.score <= best.score + TIE_TOLERANCE * (policy - v.policy + Slack)
        BY <2>2 DEF BestOk
      <3> DEFINE x == policy - v.policy + 1
                 y == tol * x
      <3>2. x \in Int /\ policy - v.policy + Slack = x
        BY <2>2, <3>1
      <3>3. v.score <= best.score + y
        BY <3>1, <3>2 DEF tol
      <3>4. CASE Slack' = 0
        <4>1. policy' - v.policy + Slack' = x
          BY <2>1, <2>2, <3>1, <3>4
        <4> HIDE DEF x
        <4> QED BY <3>1, <3>3, <4>1 DEF tol
      <3>5. CASE Slack' = 1
        <4>1. policy' - v.policy + Slack' = x + 1
          BY <2>1, <2>2, <3>1, <3>5
        <4> HIDE DEF x
        <4>2. tol * (x + 1) = y + tol /\ y \in Int
          BY <1>1, <3>2, Trails
        <4> DEFINE z == tol * (x + 1)
        <4>3. z = y + tol
          BY <4>2
        <4> HIDE DEF y, z
        <4>4. v.score <= best.score + z
          BY <1>1, <3>1, <3>3, <4>2, <4>3
        <4> QED BY <3>1, <4>1, <4>4 DEF z, tol
      <3> QED BY <2>2, <3>4, <3>5
    <2>4. best.score \in Int
      BY <2>2 DEF BestOk
    <2> QED BY <2>1, <2>3, <2>4 DEF BestOk
  <1>6. CASE Validate
    <2>1. mode' = mode /\ mode = "train" /\ phase = "validating" /\ phase' = "boundary" /\ policy' = policy
      BY <1>6 DEF Validate
    <2>2. PICK score \in Scores, cost \in Costs :
            /\ validated' = validated \union {[score |-> score, cost |-> cost, policy |-> policy]}
            /\ best' = IF IsBetter(score, cost) THEN [score |-> score, cost |-> cost, policy |-> policy]
                       ELSE best
      BY <1>6, <2>1 DEF Validate
    <2> DEFINE result == [score |-> score, cost |-> cost, policy |-> policy]
    <2>3. result.score = score /\ result.policy = policy /\ score \in Int /\ policy \in Nat
      BY <1>1 DEF CollectorOk
    <2> HIDE DEF result
    <2>4. Slack = 0 /\ Slack' = 1
      BY <2>1 DEF Slack
    <2>5. best.score \in Int
      BY <2>1 DEF BestOk
    <2>6. /\ best'.score \in Int
          /\ best.score <= best'.score + tol
          /\ score <= best'.score + tol
      <3>1. CASE IsBetter(score, cost)
        <4>1. best'.score = score
          BY <2>2, <2>3, <3>1 DEF result
        <4>2. best.score <= score + tol
          BY <1>1, <2>3, <2>5, <3>1 DEF IsBetter, Gap, tol
        <4> QED BY <1>1, <2>3, <4>1, <4>2
      <3>2. CASE ~ IsBetter(score, cost)
        <4>1. best' = best
          BY <2>2, <3>2
        <4>2. score <= best.score + tol
          BY <1>1, <2>3, <2>5, <3>2 DEF IsBetter, tol
        <4> QED BY <1>1, <2>5, <4>1, <4>2
      <3> QED BY <3>1, <3>2
    <2>7. ASSUME NEW v \in validated'
          PROVE  /\ v.score \in Int /\ v.policy \in Int
                 /\ v.score <= best'.score + TIE_TOLERANCE * (policy' - v.policy + Slack')
      <3>1. CASE v = result
        <4>1. policy' - v.policy + Slack' = 1 /\ v.score = score /\ v.policy = policy
          BY <2>1, <2>3, <2>4, <3>1
        <4>2. tol * 1 = tol
          BY <1>1
        <4> QED BY <2>3, <2>6, <4>1, <4>2 DEF tol
      <3>2. CASE v \in validated
        <4>1. /\ v.score \in Int /\ v.policy \in Int
              /\ v.score <= best.score + TIE_TOLERANCE * (policy - v.policy + Slack)
          BY <2>1, <3>2 DEF BestOk
        <4> DEFINE x == policy - v.policy
                   y == tol * x
                   z == tol * (x + 1)
        <4>2. x \in Int /\ policy - v.policy + Slack = x /\ policy' - v.policy + Slack' = x + 1
          BY <2>1, <2>3, <2>4, <4>1
        <4> HIDE DEF x
        <4>3. v.score <= best.score + y
          BY <4>1, <4>2 DEF tol
        <4>4. z = y + tol /\ y \in Int
          BY <1>1, <4>2, Trails
        <4> HIDE DEF y, z
        <4>5. v.score <= best'.score + z
          BY <1>1, <2>5, <2>6, <4>1, <4>3, <4>4
        <4> QED BY <4>1, <4>2, <4>5 DEF z, tol
      <3> QED BY <2>2, <3>1, <3>2 DEF result
    <2> QED BY <2>6, <2>7 DEF BestOk
  <1>7. CASE Die
    BY <1>7 DEF Die
  <1>8. CASE Resumes
    <2>1. phase = "dead" /\ mode' = mode
      BY <1>8 DEF Resumes, Resume
    <2> QED BY <2>1 DEF ModesOk, Training
  <1>9. CASE Aside
    <2>1. mode' = mode /\ phase \in {"evaluate", "fixture", "validate"}
      BY <1>9, AsideSteps
    <2> QED BY <2>1 DEF ModesOk, Training
  <1>10. CASE UNCHANGED vars
    <2>1. mode' = mode /\ UNCHANGED << best, validated, policy >> /\ phase' = phase
      BY <1>10 DEF vars, train
    <2> QED BY <1>2, <2>1
  <1> QED BY <1>3, <1>4, <1>5, <1>6, <1>7, <1>8, <1>9, <1>10, Steps

\* The training commands leave an evaluation and a walk alone.
LEMMA EvKept ==
  ASSUME ModesOk, [Next]_vars
  PROVE  Aside \/ (mode' = mode /\ ev' = ev)
  <1>1. CASE Collect \/ ComputeAdvantages \/ PpoEpoch \/ FinishUpdate \/ Validate \/ Continue
    BY <1>1 DEF Collect, ComputeAdvantages, PpoEpoch, FinishUpdate, Validate, Continue
  <1>2. CASE WriteLatest \/ WriteBest \/ Saved \/ Die
    BY <1>2 DEF WriteLatest, WriteBest, Saved, Die
  <1>3. CASE Resumes
    BY <1>3 DEF Resumes, Resume
  <1>4. CASE UNCHANGED vars
    BY <1>4 DEF vars
  <1> QED BY <1>1, <1>2, <1>3, <1>4, Steps

\* A finished diagnosis settles as its tally does.
LEMMA Tallied ==
  ASSUME NEW e, EpisodeOk(Tools, e), Terminated(e), NEW t \in Tallies, Settled(t), NEW right,
         right = (Predicted(GameOf(e), e.belief) = e.world.cause)
  PROVE  /\ Tally(t, right, e.return, INITIAL_BUDGET - e.credits) \in Tallies
         /\ Settled(Tally(t, right, e.return, INITIAL_BUDGET - e.credits))
  <1> DEFINE g == GameOf(e)
             spent == CreditsSpent(e)
             ret == e.return
             cost == INITIAL_BUDGET - e.credits
             u == Tally(t, right, ret, cost)
             k == IF right THEN 1 ELSE 0
             prize == IF right THEN UTILITY ELSE 0
  <1>1. e \in Episodes({e.case}) /\ Sound(e)
    BY DEF EpisodeOk
  <1>2. ret \in Int /\ cost \in Int /\ e.world \in Worlds /\ e.credits \in Int
    BY <1>1, Constants DEF Episodes
  <1>3. g.utility = UTILITY /\ UTILITY \in Int /\ INITIAL_BUDGET \in Int
    BY <1>2, WorldsAreGames, Constants DEF GameOf, Playable
  <1>4. e.credits = INITIAL_BUDGET - spent
    BY <1>1 DEF Sound
  <1>5. spent \in Int
    <2>1. CreditsSpent(e) = Spent(e.executed) /\ e.executed \in Seq(Probing)
      BY <1>1 DEF CreditsSpent, Spent, Episodes
    <2> QED BY <2>1, SpentGrows
  <1>6. ret = prize - spent
    BY <1>1, <1>3 DEF Sound, Score
  <1>7. /\ t.episodes \in Int /\ t.correct \in Int /\ t.return \in Int /\ t.credits \in Int
        /\ t.return = UTILITY * t.correct - t.credits
    BY DEF Tallies, Settled
  <1>8. k \in Int /\ prize \in Int /\ prize = UTILITY * k
    BY <1>3
  <1>9. u = [episodes |-> t.episodes + 1, correct |-> t.correct + k, return |-> t.return + ret,
             credits |-> t.credits + cost]
    BY DEF Tally
  <1> HIDE DEF g, spent, ret, cost, k, prize, u
  <1>10. cost = spent
    BY <1>2, <1>3, <1>4, <1>5 DEF cost
  <1>11. u \in Tallies
    <2>1. /\ t.episodes + 1 \in Int /\ t.correct + k \in Int /\ t.return + ret \in Int
          /\ t.credits + cost \in Int
      BY <1>2, <1>7, <1>8
    <2> QED BY <1>9, <2>1 DEF Tallies
  <1>12. u.return = t.return + ret /\ u.correct = t.correct + k /\ u.credits = t.credits + cost
    BY <1>9
  <1>13. UTILITY * u.correct = UTILITY * t.correct + UTILITY * k
    <2> DEFINE c == t.correct
    <2>1. c \in Int /\ u.correct = c + k
      BY <1>7, <1>12
    <2> HIDE DEF c
    <2>2. UTILITY * (c + k) = UTILITY * c + UTILITY * k
      BY <1>3, <1>8, <2>1
    <2> QED BY <2>1, <2>2 DEF c
  <1> DEFINE a == UTILITY * t.correct
             b == UTILITY * u.correct
  <1>14. a \in Int /\ b = a + prize /\ t.return = a - t.credits
    BY <1>3, <1>7, <1>8, <1>13
  <1> HIDE DEF a, b
  <1>15. u.return = b - u.credits
    BY <1>5, <1>6, <1>7, <1>8, <1>10, <1>12, <1>14
  <1> QED BY <1>11, <1>15 DEF Settled, b, u, ret, cost

\* The next case, or the next method, starts with a new episode.
LEMMA NextCases ==
  ASSUME EvaluationOk, mode = "evaluate", mode' = mode,
         NEW totals \in [DOMAIN ev.suite -> Tallies],
         \A m \in DOMAIN ev.suite : ev.suite[m].kind # "full_information" => Settled(totals[m]),
         ev' = NextCase(totals)
  PROVE  EvaluationOk'
  <1> DEFINE last == ev.c = Len(Cases)
             c == IF last THEN 1 ELSE ev.c + 1
             m2 == IF last THEN ev.m + 1 ELSE ev.m
             d == Cases[c]
             id == CaseId(0, c)
  <1>1. /\ ev = [suite |-> ev.suite, m |-> ev.m, c |-> ev.c, picked |-> ev.picked, e |-> ev.e,
                 totals |-> ev.totals]
        /\ ev.suite \in Seq(Methods) /\ ev.m \in Nat \ {0} /\ ev.c \in DOMAIN Cases
    BY DEF EvaluationOk
  <1>2. Cases \in Seq(Descriptors) /\ Cases # << >>
    BY SimulatorAssumption
  <1>3. Len(Cases) \in Nat \ {0} /\ DOMAIN Cases = 1 .. Len(Cases)
    BY <1>2
  <1>4. c \in DOMAIN Cases /\ m2 \in Nat \ {0}
    BY <1>1, <1>3
  <1>5. d \in Descriptors /\ Tools \in {Tools, AllTools}
    <2> HIDE DEF c
    <2> QED BY <1>2, <1>4
  <1>6. /\ ev'.suite = ev.suite /\ ev'.m = m2 /\ ev'.c = c /\ ev'.totals = totals
        /\ ev'.e = Reset(d, id)
        /\ ev' = [suite |-> ev'.suite, m |-> ev'.m, c |-> ev'.c, picked |-> ev'.picked,
                  e |-> ev'.e, totals |-> ev'.totals]
    <2>1. ev' = [ev EXCEPT !.m = m2, !.c = c, !.picked = 0, !.totals = totals, !.e = Reset(d, id)]
      BY <1>1 DEF NextCase
    <2> HIDE DEF m2, c, d, id
    <2> DEFINE s == ev.suite
               e2 == Reset(d, id)
    <2>2. ev' = [suite |-> s, m |-> m2, c |-> c, picked |-> 0, e |-> e2, totals |-> totals]
      BY <1>1, <2>1
    <2> HIDE DEF s, e2
    <2> QED BY <2>2 DEF s, e2
  <1> HIDE DEF c, m2, d, id
  <1>7. Live(Tools, Reset(d, id))
    BY <1>5, LiveResets
  <1> QED BY <1>1, <1>4, <1>6, <1>7 DEF EvaluationOk

\* The totals of a method are those of its diagnoses.
LEMMA EvaluationStep ==
  ASSUME ModesOk, EvaluationOk, [Next]_vars
  PROVE  EvaluationOk'
  <1>1. ASSUME mode' = mode, ev' = ev
        PROVE  EvaluationOk'
    BY <1>1 DEF EvaluationOk
  <1> SUFFICES ASSUME Aside, mode = "evaluate", mode' = mode
               PROVE  EvaluationOk'
    <2>1. CASE Aside
      <3>1. mode' = mode
        BY <2>1, AsideSteps
      <3>2. mode # "evaluate" => EvaluationOk'
        BY <3>1 DEF EvaluationOk
      <3> QED BY <2>1, <3>1, <3>2
    <2> QED BY <1>1, <2>1, EvKept
  <1>2. /\ ev = [suite |-> ev.suite, m |-> ev.m, c |-> ev.c, picked |-> ev.picked, e |-> ev.e,
                 totals |-> ev.totals]
        /\ ev.suite \in Seq(Methods) /\ ev.m \in Nat \ {0} /\ ev.c \in DOMAIN Cases
        /\ Live(Tools, ev.e)
        /\ ev.totals \in [DOMAIN ev.suite -> Tallies]
        /\ \A m \in DOMAIN ev.suite : ev.suite[m].kind # "full_information" => Settled(ev.totals[m])
    BY DEF EvaluationOk
  <1>3. CASE Decide
    <2>1. PICK a \in SelectAction(ev.suite[ev.m], ev.e, ev.picked) :
            /\ ~ Refused(Tools, ev.e, a)
            /\ ev' = IF Terminated(Step(Tools, ev.e, a))
                     THEN NextCase([ev.totals EXCEPT ![ev.m] =
                            Tally(@, Predicted(GameOf(Step(Tools, ev.e, a)), Step(Tools, ev.e, a).belief)
                                       = Step(Tools, ev.e, a).world.cause,
                                  Step(Tools, ev.e, a).return,
                                  INITIAL_BUDGET - Step(Tools, ev.e, a).credits)])
                     ELSE [ev EXCEPT !.e = Step(Tools, ev.e, a), !.picked = @ + 1]
      BY <1>3 DEF Decide
    <2> DEFINE e == Step(Tools, ev.e, a)
               right == Predicted(GameOf(e), e.belief) = e.world.cause
               old == ev.totals[ev.m]
               t == Tally(old, right, e.return, INITIAL_BUDGET - e.credits)
               totals == [ev.totals EXCEPT ![ev.m] = t]
    <2>2. ev.m \in DOMAIN ev.suite
      <3>1. ev.m <= Len(ev.suite)
        BY <1>3 DEF Decide
      <3> QED BY <1>2, <3>1
    <2>3. EpisodeOk(Tools, e) /\ (~ Terminated(e) => Live(Tools, e))
      <3>1. a \in Mask(Tools, ev.e)
        BY <2>1 DEF Refused
      <3> QED BY <1>2, <3>1, LiveSteps
    <2>4. CASE Terminated(e)
      <3>1. ev' = NextCase(totals)
        BY <2>1, <2>4
      <3>2. old \in Tallies /\ Settled(old)
        <4>1. ev.suite[ev.m].kind # "full_information"
          BY <1>3 DEF Decide
        <4> QED BY <1>2, <2>2, <4>1
      <3> HIDE DEF e, old, totals
      <3>3. t \in Tallies /\ Settled(t)
        BY <2>3, <2>4, <3>2, Tallied
      <3> HIDE DEF t
      <3>4. /\ totals \in [DOMAIN ev.suite -> Tallies]
            /\ \A m \in DOMAIN ev.suite : ev.suite[m].kind # "full_information" => Settled(totals[m])
        BY <1>2, <2>2, <3>3 DEF totals
      <3> QED BY <3>1, <3>4, NextCases
    <2>5. CASE ~ Terminated(e)
      <3>1. ev' = [ev EXCEPT !.e = e, !.picked = @ + 1]
        BY <2>1, <2>5
      <3> HIDE DEF e
      <3> DEFINE s == ev.suite
                 m1 == ev.m
                 c1 == ev.c
                 p1 == ev.picked + 1
                 t1 == ev.totals
      <3>2. ev' = [suite |-> s, m |-> m1, c |-> c1, picked |-> p1, e |-> e, totals |-> t1]
        BY <1>2, <3>1
      <3> HIDE DEF s, m1, c1, p1, t1
      <3>3. /\ ev' = [suite |-> ev'.suite, m |-> ev'.m, c |-> ev'.c, picked |-> ev'.picked,
                      e |-> ev'.e, totals |-> ev'.totals]
            /\ ev'.suite = s /\ ev'.m = m1 /\ ev'.c = c1 /\ ev'.e = e /\ ev'.totals = t1
        BY <3>2
      <3> QED BY <1>2, <2>3, <2>5, <3>3 DEF EvaluationOk, s, m1, c1, t1
    <2> QED BY <2>4, <2>5
  <1>4. CASE Reference
    <2> DEFINE w == LoadCase(Cases[ev.c])
               t == Tally(ev.totals[ev.m], FullInformation(w) = w.cause, 0, 0)
               totals == [ev.totals EXCEPT ![ev.m] = t]
    <2>1. ev' = NextCase(totals) /\ ev.m <= Len(ev.suite) /\ ev.suite[ev.m].kind = "full_information"
      BY <1>4 DEF Reference
    <2>2. ev.m \in DOMAIN ev.suite
      BY <1>2, <2>1
    <2>3. t \in Tallies
      <3> DEFINE old == ev.totals[ev.m]
                 k == IF FullInformation(w) = w.cause THEN 1 ELSE 0
      <3>1. old \in Tallies
        BY <1>2, <2>2
      <3>2. t = [episodes |-> old.episodes + 1, correct |-> old.correct + k,
                 return |-> old.return + 0, credits |-> old.credits + 0] /\ k \in Int
        BY DEF Tally
      <3> HIDE DEF t, k, old
      <3>3. /\ old.episodes + 1 \in Int /\ old.correct + k \in Int /\ old.return + 0 \in Int
            /\ old.credits + 0 \in Int
        BY <3>1, <3>2 DEF Tallies
      <3> QED BY <3>2, <3>3 DEF Tallies
    <2> HIDE DEF t
    <2>4. /\ totals \in [DOMAIN ev.suite -> Tallies]
          /\ \A m \in DOMAIN ev.suite : ev.suite[m].kind # "full_information" => Settled(totals[m])
      BY <1>2, <2>1, <2>2, <2>3
    <2> HIDE DEF totals
    <2> QED BY <2>1, <2>4, NextCases
  <1>5. CASE Report
    BY <1>1, <1>5 DEF Report
  <1>6. CASE StartWorld \/ PlayOptimal
    <2>1. phase = "fixture"
      BY <1>6 DEF StartWorld, PlayOptimal
    <2> QED BY <2>1 DEF ModesOk
  <1>7. CASE RunCheck \/ WalkStep \/ EndValidation
    <2>1. phase = "validate"
      BY <1>7 DEF RunCheck, WalkStep, EndValidation
    <2> QED BY <2>1 DEF ModesOk
  <1> QED BY <1>3, <1>4, <1>5, <1>6, <1>7 DEF Aside

\* The random walk stays on live episodes, and finds nothing wrong.
LEMMA WalkingStep ==
  ASSUME ModesOk, WalkOk, [Next]_vars
  PROVE  WalkOk'
  <1>1. ASSUME mode' = mode, ev' = ev
        PROVE  WalkOk'
    BY <1>1 DEF WalkOk
  <1> SUFFICES ASSUME Aside, mode = "validate", mode' = mode
               PROVE  WalkOk'
    <2>1. CASE Aside
      <3>1. mode' = mode
        BY <2>1, AsideSteps
      <3>2. mode # "validate" => WalkOk'
        BY <3>1 DEF WalkOk
      <3> QED BY <2>1, <3>1, <3>2
    <2> QED BY <1>1, <2>1, EvKept
  <1>2. /\ ev = [d |-> ev.d, report |-> ev.report, e |-> ev.e, steps |-> ev.steps, bad |-> ev.bad]
        /\ ev.d \in Descriptors /\ Live(AllTools, ev.e) /\ ev.bad = {}
    BY DEF WalkOk
  <1> DEFINE d == ev.d
  <1>3. CASE RunCheck
    <2> DEFINE r2 == Append(ev.report, Checks(ev.d)[Len(ev.report) + 1])
               e1 == ev.e
               s1 == ev.steps
               b1 == ev.bad
    <2>1. ev' = [ev EXCEPT !.report = r2]
      BY <1>3 DEF RunCheck
    <2> HIDE DEF r2
    <2>2. ev' = [d |-> d, report |-> r2, e |-> e1, steps |-> s1, bad |-> b1]
      BY <1>2, <2>1
    <2> HIDE DEF d, e1, s1, b1
    <2>3. /\ ev' = [d |-> ev'.d, report |-> ev'.report, e |-> ev'.e, steps |-> ev'.steps, bad |-> ev'.bad]
          /\ ev'.d = d /\ ev'.e = e1 /\ ev'.bad = b1
      BY <2>2
    <2> QED BY <1>2, <2>3 DEF WalkOk, d, e1, b1
  <1>4. CASE WalkStep
    <2>1. PICK a \in Mask(AllTools, ev.e) :
            ev' = [ev EXCEPT !.bad = @ \union Violations(ev.e, a, Step(AllTools, ev.e, a)),
                             !.steps = @ + 1,
                             !.e = IF Terminated(Step(AllTools, ev.e, a)) THEN Reset(ev.d, << 0, 0 >>)
                                   ELSE Step(AllTools, ev.e, a)]
      BY <1>4 DEF WalkStep
    <2> DEFINE f == Step(AllTools, ev.e, a)
               id == << 0, 0 >>
               e2 == IF Terminated(f) THEN Reset(d, id) ELSE f
               b2 == ev.bad \union Violations(ev.e, a, f)
               s2 == ev.steps + 1
               r1 == ev.report
    <2>2. b2 = {}
      BY <1>2, NoViolations
    <2>3. ev' = [d |-> d, report |-> r1, e |-> e2, steps |-> s2, bad |-> b2]
      <3>1. ev' = [ev EXCEPT !.bad = b2, !.steps = s2, !.e = e2]
        BY <1>2, <2>1
      <3> HIDE DEF b2, s2, e2
      <3> QED BY <1>2, <3>1
    <2>4. Live(AllTools, e2)
      <3>1. ~ Terminated(f) => Live(AllTools, f)
        BY <1>2, LiveSteps
      <3>2. d \in Descriptors /\ AllTools \in {Tools, AllTools}
        BY <1>2
      <3> HIDE DEF f, d, id
      <3>3. Live(AllTools, Reset(d, id))
        BY <3>2, LiveResets
      <3> QED BY <3>1, <3>3
    <2> HIDE DEF d, f, id, e2, b2, s2, r1
    <2>5. /\ ev' = [d |-> ev'.d, report |-> ev'.report, e |-> ev'.e, steps |-> ev'.steps, bad |-> ev'.bad]
          /\ ev'.d = d /\ ev'.e = e2 /\ ev'.bad = b2
      BY <2>3
    <2> QED BY <1>2, <2>2, <2>4, <2>5 DEF WalkOk, d
  <1>5. CASE EndValidation
    BY <1>1, <1>5 DEF EndValidation
  <1>6. CASE StartWorld \/ PlayOptimal
    <2>1. phase = "fixture"
      BY <1>6 DEF StartWorld, PlayOptimal
    <2> QED BY <2>1 DEF ModesOk
  <1>7. CASE Decide \/ Reference \/ Report
    <2>1. phase = "evaluate"
      BY <1>7 DEF Decide, Reference, Report
    <2> QED BY <2>1 DEF ModesOk
  <1> QED BY <1>3, <1>4, <1>5, <1>6, <1>7 DEF Aside

\* The invariant is inductive.
THEOREM Inductive == Spec => []IInv
  <1>1. Init => IInv
    BY InitOk
  <1>2. IInv /\ [Next]_vars => IInv'
    BY ModesStep, CollectorStep, BatchStep, AdvStep, FilesStep, SavesStep, BestStep, EvaluationStep,
       WalkingStep DEF IInv
  <1> QED BY <1>1, <1>2, PTL DEF Spec

-----------------------------------------------------------------------------
(* The theorems.                                                             *)

\* Every episode adds up, and so do the totals of every method: the ledger, the
\* mask, the belief, the credits and the return agree in the collector, in an
\* evaluation and on a random walk, for every incident, probe order and number
\* of environments.
THEOREM EpisodesAddUp == Spec => []EpisodesAreSound
  <1> SUFFICES ASSUME IInv PROVE EpisodesAreSound
    BY Inductive, PTL
  <1>1. ASSUME NEW e \in Running
        PROVE  Live(Available, e)
    <2>1. CASE e \in {envs[i] : i \in DOMAIN envs}
      <3>1. phase # "dead"
        <4>1. phase = "dead" => DOMAIN envs = {}
          BY EmptyLedger DEF IInv, CollectorOk
        <4> QED BY <2>1, <4>1
      <3>2. Crew(Available, envs)
        BY <3>1 DEF IInv, CollectorOk
      <3>3. DOMAIN envs = Envs
        BY <3>2 DEF Crew
      <3> QED BY <2>1, <3>2, <3>3 DEF Crew
    <2>2. CASE mode = "evaluate" /\ e = ev.e
      BY <2>2 DEF IInv, EvaluationOk, Available
    <2>3. CASE mode = "validate" /\ e = ev.e
      BY <2>3 DEF IInv, WalkOk, Available
    <2> QED BY <2>1, <2>2, <2>3 DEF Running
  <1>2. \A e \in Running : Sound(e) /\ (Terminated(e) \/ Mask(Available, e) # {STOP})
    BY <1>1 DEF Live, EpisodeOk
  <1>3. ASSUME mode = "evaluate", NEW m \in DOMAIN ev.suite, ev.suite[m].kind # "full_information"
        PROVE  ev.totals[m].return = UTILITY * ev.totals[m].correct - ev.totals[m].credits
    BY <1>3 DEF IInv, EvaluationOk, Settled
  <1> QED BY <1>2, <1>3 DEF EpisodesAreSound

\* For every length of rollout and number of environments GAE gives each row
\* what its own episode earns until it ends, or until the rollout does.
THEOREM AdvantagesAreReturns == Spec => []AdvantageIsReturnToBoundary
  <1> SUFFICES ASSUME IInv PROVE AdvantageIsReturnToBoundary
    BY Inductive, PTL
  <1> SUFFICES ASSUME phase \in {"learn", "updated"}, NEW i \in Envs, NEW t \in 1 .. Len(batch)
               PROVE  LET ends == {k \in t .. Len(batch) : batch[k][i].termination}
                          end  == IF ends = {} THEN Len(batch) ELSE Min(ends)
                          tail == IF ends = {} THEN Critic(policy, envs[i]) ELSE 0
                      IN adv[i][t] = RewardsTo(i, t, end) + tail - batch[t][i].value
    BY DEF AdvantageIsReturnToBoundary
  <1> DEFINE ends == {k \in t .. Len(batch) : batch[k][i].termination}
             end  == IF ends = {} THEN Len(batch) ELSE Min(ends)
             last == Critic(policy, envs[i])
             tail == IF ends = {} THEN last ELSE 0
             n == Len(batch)
             col == Column(batch, i)
  <1>1. n \in Nat /\ Chained(col, last) /\ adv[i] = Gae(batch, i)
    BY DEF IInv, BatchOk, AdvOk
  <1>2. last \in Int
    <2>1. Live(Available, envs[i]) /\ policy \in Nat
      BY DEF IInv, CollectorOk, Crew
    <2> QED BY <2>1, CriticIsWhole DEF Live
  <1>3. Len(col) = n /\ adv[i][t] = Advantage(col, t, last)
    <2> HIDE DEF last
    <2> QED BY <1>1, <1>2, GaeSteps
  <1>4. \A k \in 1 .. n : col[k] = batch[k][i]
    BY DEF Column
  <1>5. ends = Ends(col, t)
    <2> HIDE DEF col
    <2>1. \A k \in t .. n : k \in 1 .. n
      BY <1>1
    <2> QED BY <1>3, <1>4, <2>1 DEF Ends
  <1>6. end = EndOf(col, t) /\ tail = TailOf(col, t, last)
    <2> HIDE DEF ends, col, last
    <2> QED BY <1>3, <1>5 DEF EndOf, TailOf
  <1>7. end <= n /\ end \in Int
    <2> DEFINE E == ends
    <2>1. E \in SUBSET (t .. n) /\ E \in SUBSET Nat
      BY <1>1
    <2>2. CASE E = {}
      BY <1>1, <2>2
    <2>3. CASE E # {}
      <3> HIDE DEF E
      <3>1. \E x \in E : \A y \in E : x <= y
        BY <2>1, <2>3, LeastNumber
      <3>2. Min(E) \in E
        BY <3>1 DEF Min
      <3> QED BY <1>1, <2>1, <2>3, <3>2 DEF E
    <2> QED BY <2>2, <2>3
  <1> HIDE DEF end, tail, ends, col, last
  <1>8. RewardsTo(i, t, end) = Earned(col, t)
    <2>1. \A k \in t .. end : k \in 1 .. n
      BY <1>1, <1>7
    <2>2. [k \in t .. end |-> batch[k][i].reward] = [k \in t .. end |-> col[k].reward]
      BY <1>4, <2>1
    <2> QED BY <1>6, <2>2 DEF RewardsTo, Earned
  <1>9. adv[i][t] = RewardsTo(i, t, end) + tail - batch[t][i].value
    BY <1>3, <1>4, <1>6, <1>8 DEF Advantage
  <1> QED BY <1>9 DEF end, tail, ends, last

\* Whenever the process may die, a checkpoint that is whole can be resumed from
\* and the best file holds the manager's score, unless a death fell between the
\* two files of one save; run_training's best never trails by more than the
\* tolerance for each validation.
THEOREM CheckpointsHold == Spec => []CheckpointsAreSound
  <1> SUFFICES ASSUME IInv PROVE CheckpointsAreSound
    BY Inductive, PTL
  <1>1. CheckpointsResume
    <2> SUFFICES ASSUME NEW file \in Files, disk[file].state = "whole", NEW i \in Envs
                 PROVE  ~ RestoreRefused(Tools, disk[file].envs[i])
      BY DEF CheckpointsResume, Files
    <2> DEFINE p == disk[file]
               s == snap[file]
               e == s.envs[i]
    <2>1. Matches(p, s)
      BY DEF IInv, FilesOk
    <2> HIDE DEF p, s
    <2>2. Live(Tools, e) /\ p.envs[i] = CheckpointState(Tools, e)
      BY <2>1 DEF Matches, Crew
    <2> HIDE DEF e
    <2>3. ~ RestoreRefused(Tools, CheckpointState(Tools, e))
      BY <2>2, CheckpointsRestore
    <2> QED BY <2>2, <2>3 DEF p
  <1>2. manager # NoScore /\ ~ lostBest =>
          disk["best"].state # "none" /\ (disk["best"].state = "whole" => disk["best"].score = manager)
    BY DEF IInv, SavesOk, BestIs
  <1>3. ASSUME mode = "train", NEW v \in validated
        PROVE  v.score <= best.score + TIE_TOLERANCE * (1 + policy - v.policy)
    <2> DEFINE tol == TIE_TOLERANCE
               x == policy - v.policy
    <2>1. /\ v.score \in Int /\ v.policy \in Int /\ best.score \in Int /\ policy \in Nat
          /\ v.score <= best.score + tol * (x + Slack)
      BY <1>3 DEF IInv, BestOk, CollectorOk
    <2>2. tol \in Nat
      BY SimulatorAssumption
    <2>3. x \in Int /\ 1 + policy - v.policy = x + 1
      BY <2>1
    <2> HIDE DEF tol, x
    <2>4. v.score <= best.score + tol * (x + 1)
      <3>1. CASE Slack = 1
        BY <2>1, <3>1
      <3>2. CASE Slack = 0
        <4> DEFINE y == tol * x
                   z == tol * (x + 1)
        <4>1. z = y + tol /\ y \in Int
          BY <2>2, <2>3, Trails
        <4>2. x + Slack = x
          BY <2>3, <3>2
        <4>3. v.score <= best.score + y
          BY <2>1, <4>2
        <4> HIDE DEF y, z
        <4>4. v.score <= best.score + z
          BY <2>1, <2>2, <4>1, <4>3
        <4> QED BY <4>4 DEF z
      <3> QED BY <3>1, <3>2 DEF Slack
    <2> QED BY <2>3, <2>4 DEF tol
  <1> QED BY <1>1, <1>2, <1>3 DEF CheckpointsAreSound, BestIsOnDisk

\* An exact resume gives back the very collector that was saved.
THEOREM ResumesAreExact == Spec => ResumeIsExact
  <1>1. ASSUME IInv, [Next]_vars, NEW file \in Files, Resume(file, TRUE)
        PROVE  [envs |-> envs', draws |-> draws', policy |-> policy', update |-> update'] = snap[file]
    <2> DEFINE p == disk[file]
               s == snap[file]
    <2>1. /\ p.state = "whole" /\ policy' = p.policy /\ update' = p.update /\ draws' = p.rng
          /\ envs' = [i \in Envs |-> Replay(Tools, p.envs[i])]
      BY <1>1 DEF Resume
    <2>2. Matches(p, s)
      BY <1>1, <2>1 DEF IInv, FilesOk
    <2> HIDE DEF p, s
    <2>3. ASSUME NEW i \in Envs
          PROVE  Replay(Tools, p.envs[i]) = s.envs[i]
      <3> DEFINE e == s.envs[i]
      <3>1. Live(Tools, e) /\ p.envs[i] = CheckpointState(Tools, e)
        BY <2>2 DEF Matches, Crew
      <3> HIDE DEF e
      <3>2. Replay(Tools, CheckpointState(Tools, e)) = e
        BY <3>1, CheckpointsRestore
      <3> QED BY <3>1, <3>2 DEF e
    <2>4. envs' = s.envs
      <3>1. s.envs = [i \in Envs |-> s.envs[i]]
        BY <2>2 DEF Matches, Crew
      <3> QED BY <2>1, <2>3, <3>1
    <2>5. policy' = s.policy /\ update' = s.update /\ draws' = s.draws
      BY <2>1, <2>2 DEF Matches
    <2>6. s = [envs |-> s.envs, draws |-> s.draws, policy |-> s.policy, update |-> s.update]
      BY <2>2 DEF Matches
    <2> QED BY <2>4, <2>5, <2>6 DEF s
  <1>2. IInv /\ [Next]_vars =>
          [\A file \in {"latest", "best"} :
             Resume(file, TRUE) => [envs |-> envs', draws |-> draws',
                                    policy |-> policy', update |-> update'] = snap[file]]_vars
    BY <1>1 DEF Files
  <1> QED BY <1>2, Inductive, PTL DEF Spec, ResumeIsExact

\* The random walk of the validation command finds no violation, whatever the
\* case and however long it walks.
WalkFindsNothing == mode = "validate" => ev.bad = {}
THEOREM WalksAreClean == Spec => []WalkFindsNothing
  <1>1. IInv => WalkFindsNothing
    BY DEF IInv, WalkOk, WalkFindsNothing
  <1> QED BY <1>1, Inductive, PTL

-----------------------------------------------------------------------------
(* The fixtures' environment beside the episodes'.                           *)

\* A likelihood looks at a game's chances and its scale only.
LEMMA SameLikelihood ==
  ASSUME NEW f, NEW g, f.chance = g.chance, f.scale = g.scale, NEW h, NEW L
  PROVE  Likelihood(f, h, L) = Likelihood(g, h, L)
  <1> DEFINE T == DOMAIN L
             c == f.chance[h]
             d == g.chance[h]
             ours == [r \in T |-> IF L[r] THEN c[r] ELSE f.scale - c[r]]
             theirs == [r \in T |-> IF L[r] THEN d[r] ELSE g.scale - d[r]]
  <1>1. ours = theirs
    OBVIOUS
  <1>2. Likelihood(f, h, L) = Product(ours)
    BY ZenonT(30) DEF Likelihood, Product
  <1>3. Likelihood(g, h, L) = Product(theirs)
    BY ZenonT(30) DEF Likelihood, Product
  <1> HIDE DEF ours, theirs
  <1> QED BY <1>1, <1>2, <1>3

\* And so does an update.
LEMMA SameUpdate ==
  ASSUME NEW f, NEW g, f.chance = g.chance, f.scale = g.scale, NEW b, NEW L
  PROVE  Update(f, b, L) = Update(g, b, L)
  <1> DEFINE x == [h \in DOMAIN b |-> b[h] * Likelihood(f, h, L)]
             y == [h \in DOMAIN b |-> b[h] * Likelihood(g, h, L)]
  <1>1. \A h : Likelihood(f, h, L) = Likelihood(g, h, L)
    BY SameLikelihood
  <1>2. x = y
    BY <1>1
  <1> QED BY <1>2 DEF Update

\* A score looks at what is served, what a diagnosis is worth, the belief and the cause.
LEMMA SameScore ==
  ASSUME NEW f, NEW g, f.services = g.services, f.utility = g.utility,
         NEW d, NEW e, d.belief = e.belief, d.world.cause = e.world.cause, NEW c, NEW t
  PROVE  Score(f, d, c, t) = Score(g, e, c, t)
  <1>1. \A b : Confidence(f, b) = Confidence(g, b)
    BY DEF Confidence
  <1>2. Predicted(f, d.belief) = Predicted(g, e.belief)
    <2> DEFINE b == e.belief
               x == {s \in f.services : Mass(b, s) = Confidence(f, b)}
               y == {s \in g.services : Mass(b, s) = Confidence(g, b)}
    <2>1. x = y
      BY <1>1
    <2>2. Predicted(f, b) = Min(x) /\ Predicted(g, b) = Min(y)
      BY DEF Predicted
    <2> HIDE DEF x, y
    <2> QED BY <2>1, <2>2
  <1> QED BY <1>2 DEF Score

(* What of a fixture is the incident's own game.                               *)
Twin(tools, e, f) ==
  /\ f.services = GameOf(e).services /\ f.scale = GameOf(e).scale
  /\ f.utility = GameOf(e).utility /\ f.chance = GameOf(e).chance
  /\ f.max_probes = MAX_PROBES
  /\ DOMAIN f.probes = {a \in Probing : Template[DecodeProbe(a)[2]].tool \in tools[DecodeProbe(a)[1]]}
  /\ \A a \in DOMAIN f.probes : f.probes[a].cost = CostOf(a) /\ f.probes[a].ids = Covers(a)

\* The game of an incident as a fixture is its twin.
LEMMA FixtureIsTwin ==
  ASSUME NEW tools, NEW e, e.world \in Worlds
  PROVE  Twin(tools, e, AsFixture(tools, e))
  <1> DEFINE f == AsFixture(tools, e)
             A == {a \in Probing : Template[DecodeProbe(a)[2]].tool \in tools[DecodeProbe(a)[1]]}
  <1>1. GameOf(e) = Game(e.world.graph)
    <2>1. PICK d \in Descriptors : e.world = LoadCase(d)
      BY DEF Worlds
    <2>2. e.world.graph \in DOMAIN GameTable
      BY <2>1, WorldsAreGenerated
    <2> QED BY <2>2 DEF GameOf, GameTable
  <1>2. GameOf(e).services = Services /\ GameOf(e).scale = SCALE /\ GameOf(e).utility = UTILITY
    BY <1>1 DEF Game
  <1>3. /\ f.services = Services /\ f.scale = SCALE /\ f.utility = UTILITY
        /\ f.chance = GameOf(e).chance /\ f.max_probes = MAX_PROBES
        /\ f.probes = [a \in A |-> [cost |-> CostOf(a), ids |-> Covers(a)]]
    BY DEF AsFixture, Probing
  <1> HIDE DEF f, A
  <1>4. DOMAIN f.probes = A /\ \A a \in A : f.probes[a].cost = CostOf(a) /\ f.probes[a].ids = Covers(a)
    BY <1>3
  <1> QED BY <1>2, <1>3, <1>4 DEF Twin, A, f

\* What a fixture allows in an open episode is what its twin does, but for STOP.
LEMMA TwinsAllowAlike ==
  ASSUME NEW tools, NEW e, NEW f, Twin(tools, e, f), NEW d, ~ Terminated(d),
         Probes(d) \in Nat
  PROVE  ProbeMask(f, d) = IF Probes(d) < MAX_PROBES THEN Buyable(tools, d.credits, DOMAIN d.ledger) ELSE {}
  <1>1. MAX_PROBES \in Nat
    BY Constants
  <1>2. ProbeMask(f, d) = {a \in DOMAIN f.probes :
           /\ MAX_PROBES - Probes(d) > 0 /\ CostOf(a) <= d.credits
           /\ ~ (Covers(a) \subseteq DOMAIN d.ledger)}
    BY DEF ProbeMask, FeasibleProbes, Twin
  <1>3. MAX_PROBES - Probes(d) > 0 <=> Probes(d) < MAX_PROBES
    BY <1>1
  <1> QED BY <1>2, <1>3 DEF Twin, Buyable

(* Two episodes that read alike.                                               *)
Alike(d, e) ==
  /\ Terminated(d) = Terminated(e) /\ d.return = e.return
  /\ d.ledger = e.ledger /\ d.belief = e.belief /\ d.credits = e.credits

\* A probe does the same in a fixture as in the episode.
LEMMA TwinsProbeAlike ==
  ASSUME NEW tools, NEW e, EpisodeOk(tools, e), ~ Terminated(e), NEW f, Twin(tools, e, f),
         NEW a \in DOMAIN f.probes
  PROVE  Alike(FixtureProbe(f, e, a), StepProbe(tools, e, a))
  <1> DEFINE R == Records(e, a)
             l == LedgerAdd(e.ledger, R)
             b == Update(f, e.belief, Unseen(e.ledger, R))
             x == Append(e.executed, a)
             c == e.credits - CostOf(a)
             p == [e EXCEPT !.ledger = l, !.belief = b, !.credits = c, !.executed = x]
             terminal == p.credits = 0 \/ Probes(p) >= MAX_PROBES \/ ProbeMask(f, p) = {}
             prize == Score(f, p, CostOf(a), terminal)
             y == [p EXCEPT !.reason = IF terminal THEN "terminal" ELSE "none", !.return = @ + prize]
             after == StepProbe(tools, e, a)
             cases == {e.case}
  <1>1. e \in Episodes(cases) /\ a \in Probing /\ e.reason = "none"
    BY DEF EpisodeOk, Twin, Terminated
  <1>2. ProbeFields(tools, cases, e, a, after)
    BY <1>1, ProbeSteps
  <1>3. RecordsFor(e.world, f.probes[a].ids) = R /\ f.probes[a].cost = CostOf(a) /\ f.max_probes = MAX_PROBES
    <2>1. \A r : Reading(e.world, r) = (r \in e.world.high)
      BY DEF Reading
    <2> QED BY <2>1 DEF Twin, RecordsFor, Records
  <1>4. FixtureProbe(f, e, a) = y
    BY <1>3 DEF FixtureProbe
  <1>5. b = Update(GameOf(e), e.belief, Unseen(e.ledger, R))
    BY SameUpdate DEF Twin
  <1>6. x \in Seq(Probing) /\ Len(x) \in Nat /\ c \in Int
    BY <1>1, Probed DEF Episodes
  <1> HIDE DEF R, l, b, x, c
  <1>7. /\ p.ledger = l /\ p.belief = b /\ p.credits = c /\ p.executed = x
        /\ p.reason = "none" /\ p.world = e.world /\ p.return = e.return
        /\ p \in Episodes(cases)
    <2>1. l \in Ledgers /\ b \in Beliefs
      BY <1>2, <1>5 DEF ProbeFields, Episodes, R, l, b
    <2> QED BY <1>1, <1>6, <2>1 DEF Episodes
  <1> HIDE DEF p, prize
  <1>8. /\ y.ledger = l /\ y.belief = b /\ y.credits = c /\ y.return = e.return + prize
        /\ y.reason = IF terminal THEN "terminal" ELSE "none"
    BY <1>7 DEF Episodes
  <1> HIDE DEF after
  <1>9. /\ after.ledger = l /\ after.belief = b /\ after.credits = c /\ Probes(after) = Len(x)
        /\ after.reason = ProbeTerminationReason(tools, c, Len(x), DOMAIN l)
        /\ after.return = e.return + Score(GameOf(e), after, CostOf(a), after.reason # "none")
        /\ after.world = e.world
    BY <1>2, <1>5 DEF ProbeFields, Probes, R, l, b, x, c
  <1>10. terminal <=> after.reason # "none"
    <2> DEFINE open == Buyable(tools, c, DOMAIN l)
    <2>1. ~ Terminated(p) /\ Probes(p) = Len(x)
      BY <1>7 DEF Terminated, Probes
    <2>2. ProbeMask(f, p) = IF Len(x) < MAX_PROBES THEN open ELSE {}
      BY <1>6, <1>7, <2>1, TwinsAllowAlike
    <2>3. ActionMask(tools, c, DOMAIN l, FALSE) = {STOP} \union open
      BY DEF ActionMask, Buyable, Probing
    <2>4. STOP \notin open
      BY Probed DEF Buyable
    <2> HIDE DEF open
    <2>5. ActionMask(tools, c, DOMAIN l, FALSE) = {STOP} <=> open = {}
      BY <2>3, <2>4
    <2>6. terminal <=> c = 0 \/ Len(x) >= MAX_PROBES \/ open = {}
      BY <1>6, <1>7, <2>1, <2>2, Constants
    <2> HIDE DEF terminal
    <2> DEFINE n == Len(x)
    <2>7. n \in Nat /\ after.reason = ProbeTerminationReason(tools, c, n, DOMAIN l)
      BY <1>6, <1>9
    <2>8. terminal <=> c = 0 \/ n >= MAX_PROBES \/ open = {}
      BY <2>6
    <2> DEFINE left == ActionMask(tools, c, DOMAIN l, FALSE)
    <2> HIDE DEF n
    <2>9. after.reason = CASE c = 0 -> "budget"
                           [] c # 0 /\ n >= MAX_PROBES -> "horizon"
                           [] c # 0 /\ n < MAX_PROBES -> IF left = {STOP} THEN "no_probe" ELSE "none"
      BY <2>7 DEF ProbeTerminationReason
    <2>10. left = {STOP} <=> open = {}
      BY <2>5
    <2> HIDE DEF left
    <2> QED BY <1>6, <2>7, <2>8, <2>9, <2>10, Constants
  <1> HIDE DEF terminal, y
  <1>11. prize = Score(GameOf(e), after, CostOf(a), after.reason # "none")
    <2> DEFINE t == after.reason # "none"
    <2>1. terminal = t
      BY <1>10 DEF terminal
    <2>2. p.belief = after.belief /\ p.world.cause = after.world.cause
      BY <1>7, <1>9
    <2>3. Score(f, p, CostOf(a), t) = Score(GameOf(e), after, CostOf(a), t)
      <3> HIDE DEF t
      <3> QED BY <2>2, SameScore DEF Twin
    <2> QED BY <2>1, <2>3 DEF prize
  <1>12. Terminated(y) = Terminated(after)
    BY <1>8, <1>10 DEF Terminated
  <1> QED BY <1>4, <1>8, <1>9, <1>11, <1>12 DEF Alike, after

\* And so does STOP.
LEMMA TwinsStopAlike ==
  ASSUME NEW tools, NEW e, EpisodeOk(tools, e), NEW f, Twin(tools, e, f)
  PROVE  Alike(FixtureStop(f, e), StepStop(e))
  <1>1. \A t : Score(f, e, 0, t) = Score(GameOf(e), e, 0, t)
    <2> DEFINE c == 0
    <2> HIDE DEF c
    <2>1. \A t : Score(f, e, c, t) = Score(GameOf(e), e, c, t)
      BY SameScore DEF Twin
    <2> QED BY <2>1 DEF c
  <1>2. FixtureStop(f, e) = StepStop(e)
    BY <1>1 DEF FixtureStop, StepStop
  <1> QED BY <1>2 DEF Alike

\* The fixtures' environment and the episodes', two programs of their own, allow
\* the same actions and do the same with them, in every state that an
\* evaluation comes to.
THEOREM EnvironmentsAgree == Spec => []StepsAgree
  <1> SUFFICES ASSUME IInv, Open PROVE StepsAgree
    BY Inductive, PTL DEF StepsAgree
  <1> DEFINE e == ev.e
             f == AsFixture(Tools, e)
  <1>1. EpisodeOk(Tools, e) /\ ~ Terminated(e)
    BY DEF IInv, EvaluationOk, Open, Live
  <1>2. e \in Episodes({e.case}) /\ e.world \in Worlds
    BY <1>1 DEF EpisodeOk, Episodes
  <1>3. Twin(Tools, e, f)
    BY <1>2, FixtureIsTwin
  <1> HIDE DEF f, e
  <1>4. Mask(Tools, e) = {STOP} \union Buyable(Tools, e.credits, DOMAIN e.ledger)
    BY <1>1, Masked
  <1>5. Probes(e) \in Nat /\ Probes(e) < MAX_PROBES
    BY <1>1, <1>2 DEF EpisodeOk, Episodes, Probes
  <1>6. ProbeMask(f, e) = Buyable(Tools, e.credits, DOMAIN e.ledger)
    BY <1>1, <1>3, <1>5, TwinsAllowAlike
  <1>7. ASSUME NEW a \in Mask(Tools, e)
        PROVE  Alike(FixtureStep(f, e, a), Step(Tools, e, a))
    <2>1. CASE a = STOP
      <3>1. Alike(FixtureStop(f, e), StepStop(e))
        BY <1>1, <1>3, TwinsStopAlike
      <3> QED BY <2>1, <3>1 DEF FixtureStep, Step
    <2>2. CASE a # STOP
      <3>1. a \in DOMAIN f.probes
        BY <1>3, <1>4, <2>2 DEF Buyable, Twin
      <3>2. Alike(FixtureProbe(f, e, a), StepProbe(Tools, e, a))
        BY <1>1, <1>3, <3>1, TwinsProbeAlike
      <3> QED BY <2>2, <3>2 DEF FixtureStep, Step
    <2> QED BY <2>1, <2>2
  <1> QED BY <1>4, <1>6, <1>7 DEF StepsAgree, Alike, e, f
===============================================================================
