---------------------------- MODULE ExperimentProofs ----------------------------
(***************************************************************************)
(* Theorems about the frozen experiment, for any catalogue, prices,        *)
(* incidents, draws, policies, scopes and methods: its investigations are  *)
(* sound, its summaries agree, its learners are exact, its checkpoints are *)
(* the uninterrupted run, its seals are exact and its reserved results are *)
(* kept.  Each mode has an invariant of its own.                           *)
(*                                                                         *)
(* PipelineInv: ScopeInv ties each file of a scope to the source that made *)
(* it and to the command that is at work on it.                            *)
(* TrainInv: a training process holds the uninterrupted run after as many  *)
(* episodes, or one episode more that is still to be validated, and so do  *)
(* its checkpoints.  What the uninterrupted run has learnt (LearnerOk)     *)
(* follows by induction on its episodes, and on the steps of an episode    *)
(* (LearnOk: what is owed of a trace while its next reward is unknown).    *)
(* PlayInv: a method that draws no lots came by its trail (Trail), the     *)
(* choices it makes from the reset on; two trails that agree on what the   *)
(* first one bought are one.  A summary adds up by groups (TotalOfGroups). *)
(***************************************************************************)
EXTENDS Experiment, FiniteSetTheorems, WellFoundedInduction, TLAPS

-----------------------------------------------------------------------------
(* Facts about data.                                                         *)

\* A set of numbers that is not empty has a least element.
THEOREM LeastNumber ==
  ASSUME NEW T \in SUBSET Nat, T # {}
  PROVE  \E x \in T : \A y \in T : x <= y
  <1> DEFINE U == {0..n : n \in T}
             R == StrictSubsetOrdering(Nat)
  <1>1. U \subseteq FiniteSubsetsOf(Nat)
    <2> SUFFICES ASSUME NEW n \in T
                 PROVE  0..n \in FiniteSubsetsOf(Nat)
      OBVIOUS
    <2>1. IsFiniteSet(0..n) /\ 0..n \in SUBSET Nat
      BY FS_Interval
    <2> QED BY <2>1 DEF FiniteSubsetsOf
  <1>2. IsWellFoundedOn(R, FiniteSubsetsOf(Nat)) /\ U # {}
    BY FS_StrictSubsetOrderingWellFounded
  <1>3. \A x, y \in T : y < x => <<0..y, 0..x>> \in R
    <2> SUFFICES ASSUME NEW x \in T, NEW y \in T, y < x
                 PROVE  <<0..y, 0..x>> \in R
      OBVIOUS
    <2>1. x \in 0..x /\ x \notin 0..y
      OBVIOUS
    <2>2. 0..y \subseteq 0..x /\ 0..y # 0..x /\ 0..x \in SUBSET Nat
      BY <2>1
    <2> QED BY <2>2 DEF StrictSubsetOrdering
  <1> HIDE DEF R
  <1>4. \A V : V \subseteq FiniteSubsetsOf(Nat) /\ V # {} =>
                 \E x \in V : \A y \in V : ~(<<y, x>> \in R)
    BY <1>2, WFMin
  <1>5. PICK u \in U : \A v \in U : ~(<<v, u>> \in R)
    BY <1>1, <1>2, <1>4
  <1>6. PICK x \in T : u = 0..x
    BY <1>5
  <1>7. \A y \in T : ~(y < x)
    BY <1>3, <1>5, <1>6
  <1> QED BY <1>7

\* A set of numbers with zero and the successors of its elements is all of them.
THEOREM NumberInduction ==
  ASSUME NEW P \in SUBSET Nat, 0 \in P, \A n \in P : n + 1 \in P
  PROVE  P = Nat
  <1> SUFFICES ASSUME Nat \ P # {}
               PROVE  FALSE
    OBVIOUS
  <1>1. PICK x \in Nat \ P : \A y \in Nat \ P : x <= y
    BY LeastNumber
  <1>2. x # 0 /\ x - 1 \in Nat /\ ~(x <= x - 1)
    BY <1>1
  <1>3. x - 1 \in P
    BY <1>1, <1>2
  <1> QED BY <1>1, <1>2, <1>3

\* has every finite set.
THEOREM FiniteSetInduction ==
  ASSUME NEW S, IsFiniteSet(S), NEW F \in SUBSET SUBSET S, {} \in F,
         \A T \in F : \A x \in S : T \cup {x} \in F
  PROVE  S \in F
  <1> DEFINE P == {n \in Nat : \A T \in SUBSET S : IsFiniteSet(T) /\ Cardinality(T) = n => T \in F}
  <1>1. 0 \in P
    BY FS_EmptySet
  <1>2. ASSUME NEW n \in P
        PROVE  n + 1 \in P
    <2> SUFFICES ASSUME NEW T \in SUBSET S, IsFiniteSet(T), Cardinality(T) = n + 1
                 PROVE  T \in F
      OBVIOUS
    <2>1. T # {}
      BY FS_EmptySet
    <2>2. PICK x \in T : TRUE
      BY <2>1
    <2>3. /\ IsFiniteSet(T \ {x})
          /\ Cardinality(T \ {x}) = IF x \in T THEN Cardinality(T) - 1 ELSE Cardinality(T)
      BY FS_RemoveElement
    <2>4. T \ {x} \in F
      <3>1. Cardinality(T \ {x}) = n
        BY <2>3
      <3> QED BY <2>3, <3>1
    <2>5. T = (T \ {x}) \cup {x}
      BY <2>2
    <2> QED BY <2>2, <2>4, <2>5
  <1>3. P = Nat
    <2> HIDE DEF P
    <2>1. P \in SUBSET Nat
      BY DEF P
    <2> QED BY <1>1, <1>2, <2>1, NumberInduction
  <1> QED BY <1>3, FS_CardinalityType

(* The folds of the community modules are recursive functions on the subsets   *)
(* of a set: from a set they take the element c[T], and combine it with the    *)
(* value of the rest.                                                          *)
Iterates(S, c, g, base, f) ==
  f = [T \in SUBSET S |-> IF T = {} THEN base ELSE g[<<f[T \ {c[T]}], c[T]>>]]

\* Over a finite set there is such a function, so a fold is what it says.
THEOREM IterationExists ==
  ASSUME NEW S, IsFiniteSet(S), NEW A, NEW base \in A,
         NEW c, \A T \in SUBSET S : T # {} => c[T] \in T,
         NEW g \in [A \X S -> A]
  PROVE  \E f \in [SUBSET S -> A] : Iterates(S, c, g, base, f)
  <1> DEFINE Sized(n) == {T \in SUBSET S : Cardinality(T) <= n}
             Value(f, T) == IF T = {} THEN base ELSE g[<<f[T \ {c[T]}], c[T]>>]
             Good(n, f) == f \in [Sized(n) -> A] /\ \A T \in Sized(n) : f[T] = Value(f, T)
             Ok(n) == \E f : Good(n, f)
             P == {n \in Nat : Ok(n)}
  <1>1. \A T \in SUBSET S : IsFiniteSet(T) /\ Cardinality(T) \in Nat
    BY FS_Subset, FS_CardinalityType
  <1>2. ASSUME NEW T \in SUBSET S, T # {}
        PROVE  /\ c[T] \in T /\ T \ {c[T]} \in SUBSET S
               /\ Cardinality(T \ {c[T]}) = Cardinality(T) - 1
    <2>1. c[T] \in T
      BY <1>2
    <2>2. Cardinality(T \ {c[T]}) = IF c[T] \in T THEN Cardinality(T) - 1 ELSE Cardinality(T)
      BY <1>1, FS_RemoveElement
    <2> QED BY <2>1, <2>2
  <1>3. \A T \in SUBSET S : Cardinality(T) = 0 <=> T = {}
    BY <1>1, FS_EmptySet
  <1>4. ASSUME NEW n \in Nat, NEW f \in [Sized(n) -> A], NEW T \in Sized(n + 1)
        PROVE  Value(f, T) \in A
    <2>1. CASE T = {}
      BY <2>1
    <2>2. CASE T # {}
      <3>1. T \ {c[T]} \in Sized(n) /\ c[T] \in S
        BY <2>2, <1>1, <1>2
      <3>2. <<f[T \ {c[T]}], c[T]>> \in A \X S
        BY <3>1
      <3> QED BY <2>2, <3>2
    <2> QED BY <2>1, <2>2
  <1>5. Ok(0)
    <2> DEFINE h == [T \in Sized(0) |-> base]
    <2>1. \A T \in Sized(0) : T = {}
      BY <1>1, <1>3
    <2>2. Good(0, h)
      BY <2>1
    <2> QED BY <2>2
  <1>6. ASSUME NEW n \in P
        PROVE  Ok(n + 1)
    <2>1. PICK f : Good(n, f)
      OBVIOUS
    <2> DEFINE h == [T \in Sized(n + 1) |-> IF T \in Sized(n) THEN f[T] ELSE Value(f, T)]
    <2>2. h \in [Sized(n + 1) -> A]
      <3>1. \A T \in Sized(n + 1) : Value(f, T) \in A
        BY <1>4, <2>1
      <3> HIDE DEF Value, Sized
      <3> QED BY <3>1, <2>1
    <2>3. ASSUME NEW T \in Sized(n + 1)
          PROVE  h[T] = Value(h, T)
      <3>1. h[T] = Value(f, T)
        <4> HIDE DEF Value
        <4> QED BY <2>1
      <3>2. CASE T = {}
        BY <3>1, <3>2
      <3>3. CASE T # {}
        <4>1. T \ {c[T]} \in Sized(n) /\ T \ {c[T]} \in Sized(n + 1)
          BY <3>3, <1>1, <1>2
        <4>2. h[T \ {c[T]}] = f[T \ {c[T]}]
          BY <4>1
        <4> HIDE DEF h
        <4> QED BY <3>1, <3>3, <4>2
      <3> QED BY <3>2, <3>3
    <2> HIDE DEF h
    <2>4. Good(n + 1, h)
      BY <2>2, <2>3
    <2> QED BY <2>4
  <1>7. P = Nat
    <2> HIDE DEF Ok
    <2>1. 0 \in P /\ (\A n \in P : n + 1 \in P) /\ P \in SUBSET Nat
      BY <1>5, <1>6
    <2> HIDE DEF P
    <2> QED BY <2>1, NumberInduction
  <1>8. Cardinality(S) \in Nat /\ Sized(Cardinality(S)) = SUBSET S
    <2>1. \A T \in SUBSET S : Cardinality(T) <= Cardinality(S)
      BY FS_Subset
    <2> QED BY <2>1, FS_CardinalityType
  <1>9. PICK f : Good(Cardinality(S), f)
    <2>1. Ok(Cardinality(S))
      <3> HIDE DEF Ok, Sized
      <3> QED BY <1>7, <1>8
    <2> HIDE DEF Good
    <2> QED BY <2>1
  <1>10. f \in [SUBSET S -> A] /\ \A T \in SUBSET S : f[T] = Value(f, T)
    <2> HIDE DEF Sized, Value
    <2> QED BY <1>8, <1>9
  <1>11. Iterates(S, c, g, base, f)
    BY <1>10 DEF Iterates
  <1> QED BY <1>10, <1>11

(* f goes from base, by g, through the places of a sequence.                  *)
Recursion(m, base, g, f) == f = [k \in 0 .. m |-> IF k = 0 THEN base ELSE g[<< f[k - 1], k >>]]

\* A recursion over the places of a sequence has a solution.
LEMMA RecursionExists ==
  ASSUME NEW m \in Nat, NEW A, NEW base \in A, NEW g \in [A \X (1 .. m) -> A]
  PROVE  \E f \in [0 .. m -> A] : Recursion(m, base, g, f)
  <1> DEFINE Good(n, f) == /\ f \in [0 .. n -> A] /\ f[0] = base
                           /\ \A k \in 1 .. n : f[k] = g[<< f[k - 1], k >>]
             P == {n \in Nat : n <= m => \E f : Good(n, f)}
  <1>1. 0 \in P
    <2>1. Good(0, [k \in 0 .. 0 |-> base])
      OBVIOUS
    <2> HIDE DEF Good
    <2> QED BY <2>1
  <1>2. ASSUME NEW n \in Nat, n \in P, n + 1 <= m
        PROVE  \E f : Good(n + 1, f)
    <2>1. PICK f : Good(n, f)
      <3> HIDE DEF Good
      <3> QED BY <1>2
    <2> DEFINE h == [k \in 0 .. n + 1 |-> IF k = n + 1 THEN g[<< f[n], n + 1 >>] ELSE f[k]]
    <2>2. f[n] \in A /\ n + 1 \in 1 .. m
      BY <1>2, <2>1
    <2>3. g[<< f[n], n + 1 >>] \in A
      BY <2>2
    <2>4. h \in [0 .. n + 1 -> A] /\ h[0] = base
      BY <2>1, <2>3
    <2>5. ASSUME NEW k \in 1 .. n + 1
          PROVE  h[k] = g[<< h[k - 1], k >>]
      <3>1. CASE k = n + 1
        BY <3>1, <2>1
      <3>2. CASE k \in 1 .. n
        <4>1. h[k] = f[k] /\ h[k - 1] = f[k - 1]
          BY <3>2
        <4> HIDE DEF h
        <4> QED BY <4>1, <3>2, <2>1
      <3> QED BY <3>1, <3>2
    <2> HIDE DEF h
    <2>6. Good(n + 1, h)
      BY <2>4, <2>5
    <2> HIDE DEF Good
    <2> QED BY <2>6
  <1>3. m \in P
    <2>1. P \in SUBSET Nat
      OBVIOUS
    <2>2. \A n \in P : n + 1 \in P
      <3> HIDE DEF Good
      <3> QED BY <1>2
    <2> HIDE DEF P
    <2> QED BY <1>1, <2>1, <2>2, NumberInduction
  <1>4. PICK f : Good(m, f)
    <2> HIDE DEF Good
    <2> QED BY <1>3
  <1>5. f = [k \in 0 .. m |-> IF k = 0 THEN base ELSE g[<< f[k - 1], k >>]]
    BY <1>4
  <1> QED BY <1>4, <1>5 DEF Recursion

\* Appending adds one element to the range.
LEMMA RangeOfAppend ==
  ASSUME NEW T, NEW q \in Seq(T), NEW e
  PROVE  Range(Append(q, e)) = Range(q) \union {e}
  <1>1. /\ Len(q) \in Nat /\ DOMAIN q = 1 .. Len(q)
        /\ DOMAIN Append(q, e) = 1 .. Len(q) + 1
    OBVIOUS
  <1>2. \A i \in 1 .. Len(q) : Append(q, e)[i] = q[i]
    OBVIOUS
  <1>3. Append(q, e)[Len(q) + 1] = e
    OBVIOUS
  <1> QED BY <1>1, <1>2, <1>3 DEF Range

\* What a filter leaves is what was there and is in the set.
LEMMA OnlyKeeps ==
  ASSUME NEW T, NEW s \in Seq(T), NEW S
  PROVE  /\ Only(s, S) \in Seq(T)
         /\ Range(Only(s, S)) = Range(s) \intersect S
  <1> DEFINE n == Len(s)
             Q == Seq(T)
             add(k) == IF s[k] \in S THEN << s[k] >> ELSE << >>
             Good(f) == f = [k \in 0 .. n |-> IF k = 0 THEN << >> ELSE f[k - 1] \o add(k)]
             g == [p \in Q \X (1 .. n) |-> p[1] \o add(p[2])]
             only == CHOOSE f : Good(f)
             Held(k) == {s[i] : i \in 1 .. k} \intersect S
             P == {k \in Nat : k <= n => only[k] \in Q /\ Range(only[k]) = Held(k)}
  <1>1. n \in Nat /\ DOMAIN s = 1 .. n /\ \A k \in 1 .. n : s[k] \in T
    OBVIOUS
  <1>2. Only(s, S) = only[n]
    BY DEF Only
  <1>3. << >> \in Q /\ \A q \in Q, k \in 1 .. n : q \o add(k) \in Q
    BY <1>1
  <1>4. \A k \in 1 .. n : IF s[k] \in S THEN \A q \in Q : q \o add(k) = Append(q, s[k])
                                        ELSE \A q \in Q : q \o add(k) = q
    BY <1>1
  <1>5. \A q \in Q, e \in T : Range(Append(q, e)) = Range(q) \union {e}
    BY RangeOfAppend
  <1>6. Range(<< >>) = {}
    BY DEF Range
  <1> HIDE DEF n, Q, add
  <1>7. Good(only)
    <2>1. g \in [Q \X (1 .. n) -> Q]
      BY <1>3
    <2>2. PICK f \in [0 .. n -> Q] : Recursion(n, << >>, g, f)
      <3>1. n \in Nat /\ << >> \in Q
        BY <1>1, <1>3
      <3> HIDE DEF g
      <3> QED BY <3>1, <2>1, RecursionExists
    <2>3. ASSUME NEW k \in 0 .. n, k # 0
          PROVE  g[<< f[k - 1], k >>] = f[k - 1] \o add(k)
      <3>1. n \in Nat /\ f \in [0 .. n -> Q]
        BY <1>1, <2>2
      <3>2. k \in 1 .. n /\ f[k - 1] \in Q
        BY <2>3, <3>1
      <3> QED BY <3>2
    <2> HIDE DEF g
    <2>4. Good(f)
      BY <2>2, <2>3 DEF Recursion
    <2> HIDE DEF Good
    <2> QED BY <2>4
  <1>8. only[0] = << >> /\ \A k \in 1 .. n : only[k] = only[k - 1] \o add(k)
    <2>1. n \in Nat
      BY <1>1
    <2> HIDE DEF only, n
    <2> QED BY <2>1, <1>7
  <1> HIDE DEF only, Good
  <1>9. 0 \in P
    <2>1. Held(0) = {}
      <3>1. 1 .. 0 = {}
        OBVIOUS
      <3> QED BY <3>1
    <2> HIDE DEF Held
    <2>2. only[0] \in Q /\ Range(only[0]) = Held(0)
      BY <1>8, <1>3, <1>6, <2>1
    <2> QED BY <2>2
  <1>10. ASSUME NEW k \in Nat, k \in P, k + 1 <= n
         PROVE  only[k + 1] \in Q /\ Range(only[k + 1]) = Held(k + 1)
    <2>1. k + 1 \in 1 .. n /\ k <= n /\ k + 1 - 1 = k
      BY <1>1, <1>10
    <2>2. only[k] \in Q /\ Range(only[k]) = Held(k)
      BY <1>10, <2>1
    <2>3. Held(k + 1) = Held(k) \union ({s[k + 1]} \intersect S)
      <3>1. 1 .. k + 1 = (1 .. k) \union {k + 1}
        OBVIOUS
      <3> QED BY <3>1
    <2> HIDE DEF Held, P
    <2>4. only[k + 1] = only[k] \o add(k + 1)
      <3>1. PICK j \in 1 .. n : j = k + 1 /\ j - 1 = k
        BY <2>1
      <3>2. only[j] = only[j - 1] \o add(j)
        BY <1>8, <3>1
      <3> QED BY <3>1, <3>2
    <2>5. CASE s[k + 1] \in S
      <3>1. s[k + 1] \in T
        BY <1>1, <2>1
      <3>2. only[k + 1] = Append(only[k], s[k + 1])
        BY <2>1, <2>4, <2>5, <2>2, <1>4
      <3>3. only[k + 1] \in Q
        BY <2>1, <2>2, <2>4, <1>3
      <3>4. Range(only[k + 1]) = Range(only[k]) \union {s[k + 1]}
        BY <2>2, <3>1, <3>2, <1>5
      <3> QED BY <2>2, <2>3, <2>5, <3>3, <3>4
    <2>6. CASE s[k + 1] \notin S
      <3>1. only[k + 1] = only[k]
        BY <2>1, <2>4, <2>6, <2>2, <1>4
      <3> QED BY <2>2, <2>3, <2>6, <3>1
    <2> QED BY <2>5, <2>6
  <1>11. P = Nat
    <2>1. P \in SUBSET Nat /\ \A k \in P : k + 1 \in P
      <3> HIDE DEF Held
      <3> QED BY <1>10
    <2> HIDE DEF P
    <2> QED BY <1>9, <2>1, NumberInduction
  <1>12. only[n] \in Q /\ Range(only[n]) = Held(n)
    <2>1. n \in P
      <3> HIDE DEF P
      <3> QED BY <1>1, <1>11
    <2> QED BY <2>1, <1>1
  <1>13. Held(n) = Range(s) \intersect S
    BY <1>1 DEF Range
  <1> QED BY <1>2, <1>12, <1>13 DEF Q

-----------------------------------------------------------------------------
(* The pipeline: what its files and its processes are, command by command.   *)

Sources == {1, 2}
Bundles(s) == Range(Derived[s])
Kept == [kind : {"report"}, results : UNION {[D -> Sources] : D \in SUBSET Range(Methods)}, passed : BOOLEAN]
Reports == {NoReport, Failure} \union Kept
FilesOf(s) ==
  [derivation : 0 .. 2, bundles : [Bundles(s) -> 0 .. 2], pending : SUBSET Bundles(s),
   sealed : BOOLEAN, model : BOOLEAN, reference : {"none"} \union Gates[s],
   training : [source : 0 .. 2, latest : Nat],
   validation : [source : 0 .. 2, done : SUBSET Range(Methods)],
   frozen : 0 .. 2, test : Reports, challenge : Reports]
Commands == {"encode", "train", "validate", "test", "challenge"}
Processes(s) == {Idle} \union [cmd : Commands, source : Sources, at : {0} \union Bundles(s)]

DerivedByOne(s, files, proc) ==
  /\ proc.cmd = "encode" => ~ files.sealed /\ proc.source = files.derivation
  /\ \A i \in Bundles(s) : files.bundles[i] \in {0, files.derivation}
  /\ files.sealed => \A i \in Bundles(s) : files.bundles[i] = files.derivation

SealedTogether(files, proc, seal) ==
  /\ proc.cmd = "validate" => files.frozen = 0
  /\ seal # 0 => files.frozen = seal

MadeBySeal(report, field, proc, seal) ==
  /\ Report(report) => seal # 0 /\ Range(report.results) \subseteq {seal}
  /\ proc.cmd = field => seal # 0 /\ proc.source = seal /\ Unfinished(report)

InOrder(files, proc) ==
  /\ proc.cmd = "test" => Report(files.test)
  /\ proc.cmd = "challenge" \/ Report(files.challenge) => Passed(files.test)

ScopeInv(s, files, proc, seal) ==
  /\ files \in FilesOf(s) /\ proc \in Processes(s)
  /\ DerivedByOne(s, files, proc)
  /\ SealedTogether(files, proc, seal)
  /\ MadeBySeal(files.test, "test", proc, seal) /\ MadeBySeal(files.challenge, "challenge", proc, seal)
  /\ InOrder(files, proc)

PipelineInv ==
  mode = "pipeline" =>
    /\ source \in Sources /\ joint \in 0 .. 2
    /\ disk = [s \in Scopes |-> disk[s]] /\ procs = [s \in Scopes |-> procs[s]]
    /\ \A s \in Scopes : ScopeInv(s, disk[s], procs[s], joint)

(* What a command does to its own scope, and to no other.                      *)
Writes(s, files, proc) ==
  /\ disk' = [disk EXCEPT ![s] = files] /\ procs' = [procs EXCEPT ![s] = proc]
  /\ UNCHANGED << mode, joint, source >>

\* A command that keeps its own scope in order keeps the pipeline in order.
LEMMA WritesKeep ==
  ASSUME PipelineInv, mode = "pipeline", NEW s \in Scopes, NEW files, NEW proc,
         Writes(s, files, proc), ScopeInv(s, files, proc, joint)
  PROVE  PipelineInv'
  <1>1. \A t \in Scopes : ScopeInv(t, disk'[t], procs'[t], joint)
    <2> HIDE DEF ScopeInv
    <2> QED BY DEF PipelineInv, Writes
  <1> HIDE DEF ScopeInv
  <1> QED BY <1>1 DEF PipelineInv, Writes

\* The first missing bundle is one of the scope's, and missing; none missing
\* means that all are there.
LEMMA MissingBundles ==
  ASSUME NEW s \in Scopes
  PROVE  /\ Missing(s) # << >> => Head(Missing(s)) \in Bundles(s) /\ disk[s].bundles[Head(Missing(s))] = 0
         /\ Missing(s) = << >> => \A i \in Bundles(s) : disk[s].bundles[i] # 0
  <1> DEFINE S == {i \in Range(Derived[s]) : disk[s].bundles[i] = 0}
             N == Nat \ {0}
  <1>1. Derived[s] \in Seq(N)
    BY ExperimentAssumption
  <1> HIDE DEF N
  <1>2. Missing(s) \in Seq(N) /\ Range(Missing(s)) = Range(Derived[s]) \intersect S
    BY <1>1, OnlyKeeps DEF Missing
  <1>3. Missing(s) # << >> => Head(Missing(s)) \in Range(Missing(s))
    BY <1>2 DEF Range
  <1>4. Missing(s) = << >> => Range(Missing(s)) = {}
    BY DEF Range
  <1> HIDE DEF Missing
  <1> QED BY <1>2, <1>3, <1>4 DEF Bundles

\* The first method awaited is one that is not done.
LEMMA AwaitingMethods ==
  ASSUME NEW done
  PROVE  /\ Awaiting(done) # << >> => Head(Awaiting(done)) \in Range(Methods) \ done
         /\ Awaiting(done) = << >> => Range(Methods) \subseteq done
  <1>1. Methods \in Seq(STRING)
    BY ExperimentAssumption
  <1>2. Awaiting(done) \in Seq(STRING) /\ Range(Awaiting(done)) = Range(Methods) \ done
    BY <1>1, OnlyKeeps DEF Awaiting
  <1>3. Awaiting(done) # << >> => Head(Awaiting(done)) \in Range(Awaiting(done))
    BY <1>2 DEF Range
  <1>4. Awaiting(done) = << >> => Range(Awaiting(done)) = {}
    BY DEF Range
  <1> HIDE DEF Awaiting
  <1> QED BY <1>2, <1>3, <1>4

\* A process that ends leaves its scope in order.
LEMMA IdleScope ==
  ASSUME NEW s, NEW files, NEW proc, NEW seal, ScopeInv(s, files, proc, seal)
  PROVE  ScopeInv(s, files, Idle, seal)
  BY DEF ScopeInv, Processes, Idle, DerivedByOne, SealedTogether, MadeBySeal, InOrder

\* A report that has just begun has no results.
LEMMA NewReport == Begun \in Kept /\ Begun.results = << >> /\ Range(<< >>) = {}
  <1>1. << >> \in [{} -> Sources] /\ Range(<< >>) = {}
    BY DEF Range
  <1> QED BY <1>1 DEF Begun, Kept

\* A bundle is written under its pending name, or the command ends.
LEMMA WriteBundleKeeps ==
  ASSUME PipelineInv, NEW s \in Scopes, WriteBundle(s)
  PROVE  PipelineInv'
  <1>1. /\ mode = "pipeline" /\ ScopeInv(s, disk[s], procs[s], joint)
        /\ source \in Sources /\ joint \in 0 .. 2
    BY DEF PipelineInv, WriteBundle, Running
  <1> DEFINE i == Head(Missing(s))
  <1>2. i \in Bundles(s)
    BY MissingBundles DEF WriteBundle
  <1>3. CASE i \in disk[s].pending
    <2>1. Writes(s, disk[s], Idle)
      BY <1>3 DEF Writes, WriteBundle, End, Become, PipelineOnly, PipelineInv, Running
    <2>2. ScopeInv(s, disk[s], Idle, joint)
      BY <1>1, IdleScope
    <2> QED BY <1>1, <2>1, <2>2, WritesKeep
  <1>4. CASE i \notin disk[s].pending
    <2> DEFINE files == [disk[s] EXCEPT !.pending = @ \union {i}]
               proc == [procs[s] EXCEPT !.at = i]
    <2>1. Writes(s, files, proc)
      BY <1>4 DEF Writes, WriteBundle, Put, PipelineOnly, PipelineInv, Running
    <2>2. ScopeInv(s, files, proc, joint)
      <3> HIDE DEF i
      <3>0. procs[s].cmd = "encode" /\ procs[s] # Idle
        BY DEF WriteBundle, Running, Idle
      <3>1. files \in FilesOf(s) /\ proc \in Processes(s)
        BY <1>1, <1>2, <3>0 DEF ScopeInv, FilesOf, Processes
      <3>2. DerivedByOne(s, files, proc)
        BY <1>1, <3>0 DEF ScopeInv, FilesOf, Processes, DerivedByOne
      <3>3. SealedTogether(files, proc, joint)
        BY <1>1, <3>0 DEF ScopeInv, FilesOf, Processes, SealedTogether
      <3>4. MadeBySeal(files.test, "test", proc, joint) /\ MadeBySeal(files.challenge, "challenge", proc, joint)
        BY <1>1, <3>0 DEF ScopeInv, FilesOf, Processes, MadeBySeal
      <3>5. InOrder(files, proc)
        BY <1>1, <3>0 DEF ScopeInv, FilesOf, Processes, InOrder
      <3> QED BY <3>1, <3>2, <3>3, <3>4, <3>5 DEF ScopeInv
    <2> HIDE DEF files, proc
    <2> QED BY <1>1, <2>1, <2>2, WritesKeep
  <1> QED BY <1>3, <1>4

\* A derivation starts.
LEMMA StartEncodeKeeps ==
  ASSUME PipelineInv, NEW s \in Scopes, StartEncode(s)
  PROVE  PipelineInv'
  <1> DEFINE files == [disk[s] EXCEPT !.derivation = source]
             proc == [cmd |-> "encode", source |-> source, at |-> 0]
  <1>1. /\ mode = "pipeline" /\ ScopeInv(s, disk[s], procs[s], joint)
        /\ source \in Sources /\ joint \in 0 .. 2
    BY DEF PipelineInv, StartEncode, Start
  <1>8. Writes(s, files, proc)
    BY DEF Writes, PipelineInv, PipelineOnly, StartEncode, Start, Become, Put
  <1>9. ScopeInv(s, files, proc, joint)
    <2>1. files \in FilesOf(s) /\ proc \in Processes(s)
      BY <1>1 DEF ScopeInv, FilesOf, Processes, Idle, Sources, Commands
    <2>2. DerivedByOne(s, files, proc)
      BY <1>1 DEF ScopeInv, FilesOf, DerivedByOne, Idle, StartEncode, DerivationOpens
    <2>3. SealedTogether(files, proc, joint)
      BY <1>1 DEF ScopeInv, FilesOf, SealedTogether, Idle, StartEncode, DerivationOpens
    <2>4. MadeBySeal(files.test, "test", proc, joint)
      BY <1>1
         DEF ScopeInv, FilesOf, SealedTogether, MadeBySeal, Idle, InOrder, StartEncode,
             DerivationOpens
    <2>5. MadeBySeal(files.challenge, "challenge", proc, joint)
      BY <1>1
         DEF ScopeInv, FilesOf, SealedTogether, MadeBySeal, Idle, InOrder, StartEncode,
             DerivationOpens
    <2>6. InOrder(files, proc)
      BY <1>1 DEF ScopeInv, FilesOf, InOrder, Idle, StartEncode, DerivationOpens
    <2> QED BY <2>1, <2>2, <2>3, <2>4, <2>5, <2>6 DEF ScopeInv
  <1> HIDE DEF files, proc
  <1> QED BY <1>1, <1>8, <1>9, WritesKeep

\* A bundle gets its name.
LEMMA PublishBundleKeeps ==
  ASSUME PipelineInv, NEW s \in Scopes, PublishBundle(s)
  PROVE  PipelineInv'
  <1> DEFINE files == [disk[s] EXCEPT !.pending = @ \ {procs[s].at}, !.bundles[procs[s].at] = procs[s].source]
             proc == [procs[s] EXCEPT !.at = 0]
  <1>1. /\ mode = "pipeline" /\ ScopeInv(s, disk[s], procs[s], joint)
        /\ source \in Sources /\ joint \in 0 .. 2
    BY DEF PipelineInv, PublishBundle, Running
  <1>2. procs[s].cmd = "encode" /\ procs[s] # Idle /\ procs[s].at \in Bundles(s) /\ procs[s].source \in Sources
    BY <1>1 DEF PublishBundle, Running, Idle, ScopeInv, Processes
  <1>8. Writes(s, files, proc)
    BY DEF Writes, PipelineInv, PipelineOnly, PublishBundle, Running
  <1>9. ScopeInv(s, files, proc, joint)
    <2>1. files \in FilesOf(s) /\ proc \in Processes(s)
      <3>1. procs[s].source \in 0 .. 2 /\ disk[s] \in FilesOf(s)
        BY <1>1, <1>2 DEF ScopeInv, Sources
      <3>2. [disk[s].bundles EXCEPT ![procs[s].at] = procs[s].source] \in [Bundles(s) -> 0 .. 2]
        BY <3>1, <1>2 DEF FilesOf
      <3>3. files.bundles = [disk[s].bundles EXCEPT ![procs[s].at] = procs[s].source]
        BY <3>1 DEF FilesOf
      <3>4. files \in FilesOf(s)
        BY <3>1, <3>2 DEF FilesOf
      <3> QED BY <1>1, <1>2, <3>4 DEF ScopeInv, Processes
    <2>2. DerivedByOne(s, files, proc)
      BY <1>1, <1>2 DEF ScopeInv, FilesOf, DerivedByOne, Idle, Processes
    <2>3. SealedTogether(files, proc, joint)
      BY <1>1, <1>2 DEF ScopeInv, FilesOf, SealedTogether, Idle, Processes
    <2>4. MadeBySeal(files.test, "test", proc, joint)
      BY <1>1, <1>2 DEF ScopeInv, FilesOf, SealedTogether, MadeBySeal, Idle, InOrder, Processes
    <2>5. MadeBySeal(files.challenge, "challenge", proc, joint)
      BY <1>1, <1>2 DEF ScopeInv, FilesOf, SealedTogether, MadeBySeal, Idle, InOrder, Processes
    <2>6. InOrder(files, proc)
      BY <1>1, <1>2 DEF ScopeInv, FilesOf, InOrder, Idle, Processes
    <2> QED BY <2>1, <2>2, <2>3, <2>4, <2>5, <2>6 DEF ScopeInv
  <1> HIDE DEF files, proc
  <1> QED BY <1>1, <1>8, <1>9, WritesKeep

\* A derivation is sealed.
LEMMA SealDerivationKeeps ==
  ASSUME PipelineInv, NEW s \in Scopes, SealDerivation(s)
  PROVE  PipelineInv'
  <1> DEFINE files == [disk[s] EXCEPT !.sealed = TRUE]
             proc == Idle
  <1>1. /\ mode = "pipeline" /\ ScopeInv(s, disk[s], procs[s], joint)
        /\ source \in Sources /\ joint \in 0 .. 2
    BY DEF PipelineInv, SealDerivation, Running
  <1>2. procs[s].cmd = "encode" /\ \A i \in Bundles(s) : disk[s].bundles[i] # 0
    BY MissingBundles DEF SealDerivation, Running
  <1>8. Writes(s, files, proc)
    BY DEF Writes, PipelineInv, PipelineOnly, SealDerivation, End, Become, Put
  <1>9. ScopeInv(s, files, proc, joint)
    <2>1. files \in FilesOf(s) /\ proc \in Processes(s)
      BY <1>1, <1>2 DEF ScopeInv, FilesOf, Processes, Idle, Sources, Commands
    <2>2. DerivedByOne(s, files, proc)
      BY <1>1, <1>2 DEF ScopeInv, FilesOf, DerivedByOne, Idle
    <2>3. SealedTogether(files, proc, joint)
      BY <1>1, <1>2 DEF ScopeInv, FilesOf, SealedTogether, Idle
    <2>4. MadeBySeal(files.test, "test", proc, joint)
      BY <1>1, <1>2 DEF ScopeInv, FilesOf, SealedTogether, MadeBySeal, Idle, InOrder
    <2>5. MadeBySeal(files.challenge, "challenge", proc, joint)
      BY <1>1, <1>2 DEF ScopeInv, FilesOf, SealedTogether, MadeBySeal, Idle, InOrder
    <2>6. InOrder(files, proc)
      BY <1>1, <1>2 DEF ScopeInv, FilesOf, InOrder, Idle
    <2> QED BY <2>1, <2>2, <2>3, <2>4, <2>5, <2>6 DEF ScopeInv
  <1> HIDE DEF files, proc
  <1> QED BY <1>1, <1>8, <1>9, WritesKeep

\* A dataset is fitted.
LEMMA FitDatasetKeeps ==
  ASSUME PipelineInv, NEW s \in Scopes, FitDataset(s)
  PROVE  PipelineInv'
  <1> DEFINE files == [disk[s] EXCEPT !.model = TRUE]
             proc == procs[s]
  <1>1. /\ mode = "pipeline" /\ ScopeInv(s, disk[s], procs[s], joint)
        /\ source \in Sources /\ joint \in 0 .. 2
    BY DEF PipelineInv, FitDataset, Start
  <1>8. Writes(s, files, proc)
    BY DEF Writes, PipelineInv, PipelineOnly, FitDataset, Put
  <1>9. ScopeInv(s, files, proc, joint)
    <2>1. files \in FilesOf(s) /\ proc \in Processes(s)
      BY <1>1 DEF ScopeInv, FilesOf, Processes, Idle, Sources, Commands
    <2>2. DerivedByOne(s, files, proc)
      BY <1>1 DEF ScopeInv, FilesOf, DerivedByOne, Idle
    <2>3. SealedTogether(files, proc, joint)
      BY <1>1 DEF ScopeInv, FilesOf, SealedTogether, Idle
    <2>4. MadeBySeal(files.test, "test", proc, joint)
      BY <1>1 DEF ScopeInv, FilesOf, SealedTogether, MadeBySeal, Idle, InOrder
    <2>5. MadeBySeal(files.challenge, "challenge", proc, joint)
      BY <1>1 DEF ScopeInv, FilesOf, SealedTogether, MadeBySeal, Idle, InOrder
    <2>6. InOrder(files, proc)
      BY <1>1 DEF ScopeInv, FilesOf, InOrder, Idle
    <2> QED BY <2>1, <2>2, <2>3, <2>4, <2>5, <2>6 DEF ScopeInv
  <1> HIDE DEF files, proc
  <1> QED BY <1>1, <1>8, <1>9, WritesKeep

\* The gate is asked.
LEMMA ReferenceKeeps ==
  ASSUME PipelineInv, NEW s \in Scopes, Reference(s)
  PROVE  PipelineInv'
  <1>1. /\ mode = "pipeline" /\ ScopeInv(s, disk[s], procs[s], joint)
        /\ source \in Sources /\ joint \in 0 .. 2
    BY DEF PipelineInv, Reference, Start
  <1>2. PICK verdict \in Gates[s] : Put(s, "reference", verdict)
    BY DEF Reference
  <1> DEFINE files == [disk[s] EXCEPT !.reference = verdict]
  <1>8. Writes(s, files, procs[s])
    BY <1>2 DEF Writes, PipelineInv, PipelineOnly, Reference, Put
  <1>9. ScopeInv(s, files, procs[s], joint)
    BY <1>1 DEF ScopeInv, FilesOf, DerivedByOne, SealedTogether, MadeBySeal, InOrder
  <1> HIDE DEF files
  <1> QED BY <1>1, <1>8, <1>9, WritesKeep

\* The train command starts.
LEMMA StartTrainKeeps ==
  ASSUME PipelineInv, NEW s \in Scopes, StartTrain(s)
  PROVE  PipelineInv'
  <1> DEFINE files == disk[s]
             proc == [cmd |-> "train", source |-> source, at |-> 0]
  <1>1. /\ mode = "pipeline" /\ ScopeInv(s, disk[s], procs[s], joint)
        /\ source \in Sources /\ joint \in 0 .. 2
    BY DEF PipelineInv, StartTrain, Start
  <1>8. Writes(s, files, proc)
    BY DEF Writes, PipelineInv, PipelineOnly, StartTrain, Start, Become
  <1>9. ScopeInv(s, files, proc, joint)
    <2>1. files \in FilesOf(s) /\ proc \in Processes(s)
      BY <1>1 DEF ScopeInv, FilesOf, Processes, Idle, Sources, Commands
    <2>2. DerivedByOne(s, files, proc)
      BY <1>1 DEF ScopeInv, FilesOf, DerivedByOne, Idle, StartTrain, Idle
    <2>3. SealedTogether(files, proc, joint)
      BY <1>1 DEF ScopeInv, FilesOf, SealedTogether, Idle, StartTrain, Idle
    <2>4. MadeBySeal(files.test, "test", proc, joint)
      BY <1>1 DEF ScopeInv, FilesOf, SealedTogether, MadeBySeal, Idle, InOrder, StartTrain, Idle
    <2>5. MadeBySeal(files.challenge, "challenge", proc, joint)
      BY <1>1 DEF ScopeInv, FilesOf, SealedTogether, MadeBySeal, Idle, InOrder, StartTrain, Idle
    <2>6. InOrder(files, proc)
      BY <1>1 DEF ScopeInv, FilesOf, InOrder, Idle, StartTrain, Idle
    <2> QED BY <2>1, <2>2, <2>3, <2>4, <2>5, <2>6 DEF ScopeInv
  <1> HIDE DEF files, proc
  <1> QED BY <1>1, <1>8, <1>9, WritesKeep

\* The validate command starts.
LEMMA StartValidationKeeps ==
  ASSUME PipelineInv, NEW s \in Scopes, StartValidation(s)
  PROVE  PipelineInv'
  <1> DEFINE files == disk[s]
             proc == [cmd |-> "validate", source |-> source, at |-> 0]
  <1>1. /\ mode = "pipeline" /\ ScopeInv(s, disk[s], procs[s], joint)
        /\ source \in Sources /\ joint \in 0 .. 2
    BY DEF PipelineInv, StartValidation, Start
  <1>8. Writes(s, files, proc)
    BY DEF Writes, PipelineInv, PipelineOnly, StartValidation, Start, Become
  <1>9. ScopeInv(s, files, proc, joint)
    <2>1. files \in FilesOf(s) /\ proc \in Processes(s)
      BY <1>1 DEF ScopeInv, FilesOf, Processes, Idle, Sources, Commands
    <2>2. DerivedByOne(s, files, proc)
      BY <1>1 DEF ScopeInv, FilesOf, DerivedByOne, Idle, StartValidation, ValidationOpens
    <2>3. SealedTogether(files, proc, joint)
      BY <1>1 DEF ScopeInv, FilesOf, SealedTogether, Idle, StartValidation, ValidationOpens
    <2>4. MadeBySeal(files.test, "test", proc, joint)
      BY <1>1
         DEF ScopeInv, FilesOf, SealedTogether, MadeBySeal, Idle, InOrder, StartValidation,
             ValidationOpens
    <2>5. MadeBySeal(files.challenge, "challenge", proc, joint)
      BY <1>1
         DEF ScopeInv, FilesOf, SealedTogether, MadeBySeal, Idle, InOrder, StartValidation,
             ValidationOpens
    <2>6. InOrder(files, proc)
      BY <1>1 DEF ScopeInv, FilesOf, InOrder, Idle, StartValidation, ValidationOpens
    <2> QED BY <2>1, <2>2, <2>3, <2>4, <2>5, <2>6 DEF ScopeInv
  <1> HIDE DEF files, proc
  <1> QED BY <1>1, <1>8, <1>9, WritesKeep

\* The challenge command starts.
LEMMA StartChallengeKeeps ==
  ASSUME PipelineInv, NEW s \in Scopes, StartChallenge(s)
  PROVE  PipelineInv'
  <1> DEFINE files == disk[s]
             proc == [cmd |-> "challenge", source |-> source, at |-> 0]
  <1>1. /\ mode = "pipeline" /\ ScopeInv(s, disk[s], procs[s], joint)
        /\ source \in Sources /\ joint \in 0 .. 2
    BY DEF PipelineInv, StartChallenge, Start
  <1>8. Writes(s, files, proc)
    BY DEF Writes, PipelineInv, PipelineOnly, StartChallenge, Start, Become
  <1>9. ScopeInv(s, files, proc, joint)
    <2>1. files \in FilesOf(s) /\ proc \in Processes(s)
      BY <1>1 DEF ScopeInv, FilesOf, Processes, Idle, Sources, Commands
    <2>2. DerivedByOne(s, files, proc)
      BY <1>1
         DEF ScopeInv, FilesOf, DerivedByOne, Idle, StartChallenge, ChallengeOpens, Passed,
             Unfinished, Report
    <2>3. SealedTogether(files, proc, joint)
      BY <1>1
         DEF ScopeInv, FilesOf, SealedTogether, Idle, StartChallenge, ChallengeOpens, Passed,
             Unfinished, Report
    <2>4. MadeBySeal(files.test, "test", proc, joint)
      BY <1>1
         DEF ScopeInv, FilesOf, SealedTogether, MadeBySeal, Idle, InOrder, StartChallenge,
             ChallengeOpens, Passed, Unfinished, Report
    <2>5. MadeBySeal(files.challenge, "challenge", proc, joint)
      BY <1>1
         DEF ScopeInv, FilesOf, SealedTogether, MadeBySeal, Idle, InOrder, StartChallenge,
             ChallengeOpens, Passed, Unfinished, Report
    <2>6. InOrder(files, proc)
      BY <1>1
         DEF ScopeInv, FilesOf, InOrder, Idle, StartChallenge, ChallengeOpens, Passed,
             Unfinished, Report
    <2> QED BY <2>1, <2>2, <2>3, <2>4, <2>5, <2>6 DEF ScopeInv
  <1> HIDE DEF files, proc
  <1> QED BY <1>1, <1>8, <1>9, WritesKeep

\* An interval is trained.
LEMMA TrainIntervalKeeps ==
  ASSUME PipelineInv, NEW s \in Scopes, TrainInterval(s)
  PROVE  PipelineInv'
  <1> DEFINE files == [disk[s] EXCEPT !.training = [source |-> procs[s].source,
                                                    latest |-> disk[s].training.latest + 1]]
             proc == IF disk[s].training.latest + 1 = INTERVALS THEN Idle ELSE procs[s]
  <1>1. /\ mode = "pipeline" /\ ScopeInv(s, disk[s], procs[s], joint)
        /\ source \in Sources /\ joint \in 0 .. 2
    BY DEF PipelineInv, TrainInterval, Running
  <1>2. procs[s].cmd = "train" /\ procs[s] # Idle /\ procs[s].source \in Sources
    BY <1>1 DEF TrainInterval, Running, Idle, ScopeInv, Processes
  <1>3. procs' = [procs EXCEPT ![s] = proc]
    <2>1. procs = [t \in Scopes |-> procs[t]]
      BY <1>1 DEF PipelineInv
    <2>2. CASE disk[s].training.latest + 1 = INTERVALS
      BY <2>2 DEF TrainInterval, End, Become
    <2>3. CASE disk[s].training.latest + 1 # INTERVALS
      BY <2>1, <2>3 DEF TrainInterval
    <2> QED BY <2>2, <2>3
  <1>8. Writes(s, files, proc)
    BY <1>3 DEF Writes, PipelineInv, PipelineOnly, TrainInterval, End, Become, Put
  <1>9. ScopeInv(s, files, proc, joint)
    <2>1. files \in FilesOf(s) /\ proc \in Processes(s)
      BY <1>1, <1>2 DEF ScopeInv, FilesOf, Processes, Idle, Sources, Commands
    <2>2. DerivedByOne(s, files, proc)
      BY <1>1, <1>2 DEF ScopeInv, FilesOf, DerivedByOne, Idle
    <2>3. SealedTogether(files, proc, joint)
      BY <1>1, <1>2 DEF ScopeInv, FilesOf, SealedTogether, Idle
    <2>4. MadeBySeal(files.test, "test", proc, joint)
      BY <1>1, <1>2 DEF ScopeInv, FilesOf, SealedTogether, MadeBySeal, Idle, InOrder
    <2>5. MadeBySeal(files.challenge, "challenge", proc, joint)
      BY <1>1, <1>2 DEF ScopeInv, FilesOf, SealedTogether, MadeBySeal, Idle, InOrder
    <2>6. InOrder(files, proc)
      BY <1>1, <1>2 DEF ScopeInv, FilesOf, InOrder, Idle
    <2> QED BY <2>1, <2>2, <2>3, <2>4, <2>5, <2>6 DEF ScopeInv
  <1> HIDE DEF files, proc
  <1> QED BY <1>1, <1>8, <1>9, WritesKeep

\* A method is evaluated.
LEMMA EvaluateValidationKeeps ==
  ASSUME PipelineInv, NEW s \in Scopes, EvaluateValidation(s)
  PROVE  PipelineInv'
  <1>1. /\ mode = "pipeline" /\ ScopeInv(s, disk[s], procs[s], joint)
        /\ source \in Sources /\ joint \in 0 .. 2
    BY DEF PipelineInv, EvaluateValidation, Running
  <1> DEFINE name == Head(Awaiting(disk[s].validation.done))
  <1>2. name \in Range(Methods)
    BY AwaitingMethods DEF EvaluateValidation
  <1>3. CASE Loads(s, name)
    <2> DEFINE files == [disk[s] EXCEPT !.validation = [source |-> procs[s].source,
                                                     done |-> disk[s].validation.done \union {name}]]
    <2>1. Writes(s, files, procs[s])
      BY <1>3 DEF Writes, PipelineInv, PipelineOnly, EvaluateValidation, Put, Running
    <2>2. procs[s].source \in Sources
      BY <1>1 DEF EvaluateValidation, Running, Idle, ScopeInv, Processes
    <2> HIDE DEF name
    <2>3. files \in FilesOf(s)
      BY <1>1, <1>2, <2>2 DEF ScopeInv, FilesOf, Sources
    <2>4. ScopeInv(s, files, procs[s], joint)
      BY <1>1, <2>3 DEF ScopeInv, FilesOf, DerivedByOne, SealedTogether, MadeBySeal, InOrder
    <2> HIDE DEF files
    <2> QED BY <1>1, <2>1, <2>4, WritesKeep
  <1>4. CASE ~ Loads(s, name)
    <2>1. Writes(s, disk[s], Idle)
      BY <1>4 DEF Writes, PipelineInv, PipelineOnly, EvaluateValidation, End, Become, Running
    <2>2. ScopeInv(s, disk[s], Idle, joint)
      BY <1>1, IdleScope
    <2> QED BY <1>1, <2>1, <2>2, WritesKeep
  <1> QED BY <1>3, <1>4

\* The methods of a scope are sealed.
LEMMA FreezeKeeps ==
  ASSUME PipelineInv, NEW s \in Scopes, Freeze(s)
  PROVE  PipelineInv'
  <1> DEFINE files == [disk[s] EXCEPT !.frozen = source]
             proc == Idle
  <1>1. /\ mode = "pipeline" /\ ScopeInv(s, disk[s], procs[s], joint)
        /\ source \in Sources /\ joint \in 0 .. 2
    BY DEF PipelineInv, Freeze, Running
  <1>2. procs[s].cmd = "validate"
    BY DEF Freeze, Running
  <1>8. Writes(s, files, proc)
    BY DEF Writes, PipelineInv, PipelineOnly, Freeze, End, Become, Put
  <1>9. ScopeInv(s, files, proc, joint)
    <2>1. files \in FilesOf(s) /\ proc \in Processes(s)
      BY <1>1, <1>2 DEF ScopeInv, FilesOf, Processes, Idle, Sources, Commands
    <2>2. DerivedByOne(s, files, proc)
      BY <1>1, <1>2 DEF ScopeInv, FilesOf, DerivedByOne, Idle, SealedTogether
    <2>3. SealedTogether(files, proc, joint)
      BY <1>1, <1>2 DEF ScopeInv, FilesOf, SealedTogether, Idle, SealedTogether
    <2>4. MadeBySeal(files.test, "test", proc, joint)
      BY <1>1, <1>2 DEF ScopeInv, FilesOf, SealedTogether, MadeBySeal, Idle, InOrder, SealedTogether
    <2>5. MadeBySeal(files.challenge, "challenge", proc, joint)
      BY <1>1, <1>2 DEF ScopeInv, FilesOf, SealedTogether, MadeBySeal, Idle, InOrder, SealedTogether
    <2>6. InOrder(files, proc)
      BY <1>1, <1>2 DEF ScopeInv, FilesOf, InOrder, Idle, SealedTogether
    <2> QED BY <2>1, <2>2, <2>3, <2>4, <2>5, <2>6 DEF ScopeInv
  <1> HIDE DEF files, proc
  <1> QED BY <1>1, <1>8, <1>9, WritesKeep

\* The test command starts.
LEMMA StartTestKeeps ==
  ASSUME PipelineInv, NEW s \in Scopes, StartTest(s)
  PROVE  PipelineInv'
  <1> DEFINE files == [disk[s] EXCEPT !.test = IF @ = NoReport THEN Begun ELSE @]
             proc == [cmd |-> "test", source |-> source, at |-> 0]
  <1>1. /\ mode = "pipeline" /\ ScopeInv(s, disk[s], procs[s], joint)
        /\ source \in Sources /\ joint \in 0 .. 2
    BY DEF PipelineInv, StartTest, Start
  <1>2. joint = source /\ joint # 0 /\ Unfinished(files.test) /\ Report(files.test)
    BY <1>1 DEF StartTest, TestOpens, Unfinished, Report, Begun, NoReport, Sources
  <1>3. ~ Report(disk[s].challenge)
    BY <1>1 DEF StartTest, TestOpens, Unfinished, Report, Passed, NoReport, ScopeInv, InOrder
  <1>4. Range(files.test.results) \subseteq {joint} /\ files.test \in Reports
    <2>1. CASE disk[s].test = NoReport
      BY <2>1, NewReport DEF Reports, Begun
    <2>2. CASE disk[s].test # NoReport
      <3>1. files.test = disk[s].test /\ files.test \in Reports
        BY <1>1, <2>2 DEF ScopeInv, FilesOf
      <3> HIDE DEF files
      <3> QED BY <1>1, <1>2, <3>1 DEF ScopeInv, MadeBySeal
    <2> QED BY <2>1, <2>2
  <1>5. disk' = [disk EXCEPT ![s] = files]
    <2>1. CASE disk[s].test = NoReport
      BY <2>1 DEF StartTest, Put
    <2>2. CASE disk[s].test # NoReport
      <3>1. files = disk[s]
        BY <1>1, <2>2 DEF ScopeInv, FilesOf
      <3> HIDE DEF files
      <3> QED BY <1>1, <2>2, <3>1 DEF StartTest, PipelineInv
    <2> QED BY <2>1, <2>2
  <1>8. Writes(s, files, proc)
    BY <1>5 DEF Writes, PipelineInv, PipelineOnly, StartTest, Start, Become, Put
  <1>9. ScopeInv(s, files, proc, joint)
    <2>1. files \in FilesOf(s) /\ proc \in Processes(s)
      BY <1>1, <1>2, <1>3, <1>4 DEF ScopeInv, FilesOf, Processes, Idle, Sources, Commands
    <2>2. DerivedByOne(s, files, proc)
      BY <1>1, <1>2, <1>3, <1>4 DEF ScopeInv, FilesOf, DerivedByOne, Idle
    <2>3. SealedTogether(files, proc, joint)
      BY <1>1, <1>2, <1>3, <1>4 DEF ScopeInv, FilesOf, SealedTogether, Idle
    <2>4. MadeBySeal(files.test, "test", proc, joint)
      BY <1>1, <1>2, <1>3, <1>4 DEF ScopeInv, FilesOf, SealedTogether, MadeBySeal, Idle, InOrder
    <2>5. MadeBySeal(files.challenge, "challenge", proc, joint)
      BY <1>1, <1>2, <1>3, <1>4 DEF ScopeInv, FilesOf, SealedTogether, MadeBySeal, Idle, InOrder
    <2>6. InOrder(files, proc)
      BY <1>1, <1>2, <1>3, <1>4 DEF ScopeInv, FilesOf, InOrder, Idle
    <2> QED BY <2>1, <2>2, <2>3, <2>4, <2>5, <2>6 DEF ScopeInv
  <1> HIDE DEF files, proc
  <1> QED BY <1>1, <1>8, <1>9, WritesKeep

\* A test that does not open is refused.
LEMMA RefuseTestKeeps ==
  ASSUME PipelineInv, NEW s \in Scopes, RefuseTest(s)
  PROVE  PipelineInv'
  <1> DEFINE files == [disk[s] EXCEPT !.test = IF @ = NoReport THEN Failure ELSE @]
             proc == procs[s]
  <1>1. /\ mode = "pipeline" /\ ScopeInv(s, disk[s], procs[s], joint)
        /\ source \in Sources /\ joint \in 0 .. 2
    BY DEF PipelineInv, RefuseTest, Start
  <1>5. disk' = [disk EXCEPT ![s] = files]
    <2>1. CASE disk[s].test = NoReport
      BY <2>1 DEF RefuseTest, FailureReport, Put
    <2>2. CASE disk[s].test # NoReport
      <3>1. files = disk[s]
        BY <1>1, <2>2 DEF ScopeInv, FilesOf
      <3> HIDE DEF files
      <3> QED BY <1>1, <2>2, <3>1 DEF RefuseTest, FailureReport, PipelineInv
    <2> QED BY <2>1, <2>2
  <1>8. Writes(s, files, proc)
    BY <1>1, <1>5 DEF Writes, PipelineInv, PipelineOnly, RefuseTest, Put, FailureReport
  <1>9. ScopeInv(s, files, proc, joint)
    <2>1. files \in FilesOf(s) /\ proc \in Processes(s)
      BY <1>1 DEF ScopeInv, FilesOf, Processes, Reports
    <2>2. DerivedByOne(s, files, proc)
      BY <1>1
         DEF ScopeInv, FilesOf, DerivedByOne, Idle, RefuseTest, RefuseChallenge, NoReport,
             Failure, Report, Passed, Unfinished
    <2>3. SealedTogether(files, proc, joint)
      BY <1>1
         DEF ScopeInv, FilesOf, SealedTogether, Idle, RefuseTest, RefuseChallenge, NoReport,
             Failure, Report, Passed, Unfinished
    <2>4. MadeBySeal(files.test, "test", proc, joint)
      BY <1>1
         DEF ScopeInv, FilesOf, SealedTogether, MadeBySeal, Idle, InOrder, RefuseTest,
             RefuseChallenge, NoReport, Failure, Report, Passed, Unfinished
    <2>5. MadeBySeal(files.challenge, "challenge", proc, joint)
      BY <1>1
         DEF ScopeInv, FilesOf, SealedTogether, MadeBySeal, Idle, InOrder, RefuseTest,
             RefuseChallenge, NoReport, Failure, Report, Passed, Unfinished
    <2>6. InOrder(files, proc)
      BY <1>1
         DEF ScopeInv, FilesOf, InOrder, Idle, RefuseTest, RefuseChallenge, NoReport, Failure,
             Report, Passed, Unfinished
    <2> QED BY <2>1, <2>2, <2>3, <2>4, <2>5, <2>6 DEF ScopeInv
  <1> HIDE DEF files, proc
  <1> QED BY <1>1, <1>8, <1>9, WritesKeep

\* A challenge that does not open is refused.
LEMMA RefuseChallengeKeeps ==
  ASSUME PipelineInv, NEW s \in Scopes, RefuseChallenge(s)
  PROVE  PipelineInv'
  <1> DEFINE files == [disk[s] EXCEPT !.challenge = IF @ = NoReport THEN Failure ELSE @]
             proc == procs[s]
  <1>1. /\ mode = "pipeline" /\ ScopeInv(s, disk[s], procs[s], joint)
        /\ source \in Sources /\ joint \in 0 .. 2
    BY DEF PipelineInv, RefuseChallenge, Start
  <1>5. disk' = [disk EXCEPT ![s] = files]
    <2>1. CASE disk[s].challenge = NoReport
      BY <2>1 DEF RefuseChallenge, FailureReport, Put
    <2>2. CASE disk[s].challenge # NoReport
      <3>1. files = disk[s]
        BY <1>1, <2>2 DEF ScopeInv, FilesOf
      <3> HIDE DEF files
      <3> QED BY <1>1, <2>2, <3>1 DEF RefuseChallenge, FailureReport, PipelineInv
    <2> QED BY <2>1, <2>2
  <1>8. Writes(s, files, proc)
    BY <1>1, <1>5 DEF Writes, PipelineInv, PipelineOnly, RefuseChallenge, Put, FailureReport
  <1>9. ScopeInv(s, files, proc, joint)
    <2>1. files \in FilesOf(s) /\ proc \in Processes(s)
      BY <1>1 DEF ScopeInv, FilesOf, Processes, Reports
    <2>2. DerivedByOne(s, files, proc)
      BY <1>1
         DEF ScopeInv, FilesOf, DerivedByOne, Idle, RefuseTest, RefuseChallenge, NoReport,
             Failure, Report, Passed, Unfinished
    <2>3. SealedTogether(files, proc, joint)
      BY <1>1
         DEF ScopeInv, FilesOf, SealedTogether, Idle, RefuseTest, RefuseChallenge, NoReport,
             Failure, Report, Passed, Unfinished
    <2>4. MadeBySeal(files.test, "test", proc, joint)
      BY <1>1
         DEF ScopeInv, FilesOf, SealedTogether, MadeBySeal, Idle, InOrder, RefuseTest,
             RefuseChallenge, NoReport, Failure, Report, Passed, Unfinished
    <2>5. MadeBySeal(files.challenge, "challenge", proc, joint)
      BY <1>1
         DEF ScopeInv, FilesOf, SealedTogether, MadeBySeal, Idle, InOrder, RefuseTest,
             RefuseChallenge, NoReport, Failure, Report, Passed, Unfinished
    <2>6. InOrder(files, proc)
      BY <1>1
         DEF ScopeInv, FilesOf, InOrder, Idle, RefuseTest, RefuseChallenge, NoReport, Failure,
             Report, Passed, Unfinished
    <2> QED BY <2>1, <2>2, <2>3, <2>4, <2>5, <2>6 DEF ScopeInv
  <1> HIDE DEF files, proc
  <1> QED BY <1>1, <1>8, <1>9, WritesKeep

\* A result that is recorded is added to those that were there.
LEMMA RecordedResult ==
  ASSUME NEW r \in Kept, NEW name \in Range(Methods), NEW made \in Sources,
         NEW q, q = Entered(r, name, made)
  PROVE  /\ q \in Kept /\ Report(q) /\ q.passed = r.passed
         /\ Range(q.results) \subseteq Range(r.results) \union {made}
         /\ name \notin DOMAIN r.results => Restrict(q.results, DOMAIN r.results) = r.results
  <1> DEFINE old == r.results
             new == [x \in (DOMAIN old) \union {name} |-> IF x = name THEN made ELSE old[x]]
  <1>1. PICK D \in SUBSET Range(Methods) : old \in [D -> Sources]
    BY DEF Kept
  <1>2. r.kind = "report" /\ r.passed \in BOOLEAN /\ DOMAIN old = D
    BY <1>1 DEF Kept
  <1>3. q = [kind |-> "report", results |-> new, passed |-> r.passed]
    BY <1>2 DEF Kept, Entered
  <1> HIDE DEF old
  <1>4. new = [x \in D \union {name} |-> IF x = name THEN made ELSE old[x]]
    BY <1>2
  <1>5. new \in [D \union {name} -> Sources] /\ D \union {name} \in SUBSET Range(Methods)
    BY <1>1, <1>4
  <1>6. Range(new) \subseteq Range(old) \union {made}
    BY <1>2, <1>4 DEF Range
  <1>7. name \notin D => Restrict(new, D) = old
    <2>1. old = [x \in D |-> old[x]]
      BY <1>1
    <2>2. name \notin D => \A x \in D : new[x] = old[x]
      BY <1>4
    <2> HIDE DEF new
    <2> QED BY <2>1, <2>2 DEF Restrict
  <1> HIDE DEF new
  <1> QED BY <1>2, <1>3, <1>5, <1>6, <1>7 DEF Kept, Report, old

\* A method of the reserved test is evaluated.
LEMMA EvaluateTestKeeps ==
  ASSUME PipelineInv, NEW s \in Scopes, Evaluate(s, "test")
  PROVE  PipelineInv'
  <1> DEFINE name == Head(Awaiting(Results(disk[s].test)))
  <1>1. mode = "pipeline" /\ ScopeInv(s, disk[s], procs[s], joint) /\ procs[s].cmd = "test"
    BY DEF PipelineInv, Evaluate, Running
  <1>2. /\ joint # 0 /\ procs[s].source = joint /\ Report(disk[s].test) /\ disk[s].test \in Kept
        /\ Range(disk[s].test.results) \subseteq {joint} /\ ~ disk[s].test.passed
        /\ procs[s].source \in Sources
    BY <1>1 DEF ScopeInv, MadeBySeal, InOrder, FilesOf, Reports, NoReport, Failure, Report,
                Unfinished, Processes, Idle
  <1>3. name \in Range(Methods)
    BY AwaitingMethods DEF Evaluate
  <1>4. CASE Loads(s, name)
    <2> DEFINE report == Entered(disk[s].test, name, procs[s].source)
               files == [disk[s] EXCEPT !.test = report]
    <2>1. Writes(s, files, procs[s])
      BY <1>1, <1>2, <1>4 DEF Writes, PipelineInv, PipelineOnly, Evaluate, Put, Recorded
    <2> HIDE DEF name
    <2>2. /\ report \in Kept /\ Report(report) /\ report.passed = disk[s].test.passed
          /\ Range(report.results) \subseteq Range(disk[s].test.results) \union {procs[s].source}
      <3> DEFINE before == disk[s].test
                 made == procs[s].source
      <3>1. before \in Kept /\ made \in Sources
        BY <1>2
      <3> HIDE DEF before, made
      <3>2. LET q == Entered(before, name, made)
            IN /\ q \in Kept /\ Report(q) /\ q.passed = before.passed
               /\ Range(q.results) \subseteq Range(before.results) \union {made}
        BY <1>3, <3>1, RecordedResult
      <3> QED BY <3>2 DEF before, made
    <2> HIDE DEF report
    <2>3. files.test = report /\ files \in FilesOf(s)
      BY <1>1, <2>2 DEF ScopeInv, FilesOf, Reports
    <2>4. ScopeInv(s, files, procs[s], joint)
      <3>1. DerivedByOne(s, files, procs[s]) /\ SealedTogether(files, procs[s], joint)
        BY <1>1 DEF ScopeInv, FilesOf, DerivedByOne, SealedTogether
      <3>2. MadeBySeal(files.test, "test", procs[s], joint)
        BY <1>2, <2>2, <2>3 DEF MadeBySeal, Unfinished
      <3>3. MadeBySeal(files.challenge, "challenge", procs[s], joint)
        BY <1>1 DEF ScopeInv, FilesOf, MadeBySeal
      <3>4. ~ Passed(disk[s].test)
        BY <1>2 DEF Passed
      <3>5. InOrder(files, procs[s])
        BY <1>1, <2>2, <2>3, <3>4 DEF ScopeInv, FilesOf, InOrder
      <3> QED BY <1>1, <2>3, <3>1, <3>2, <3>3, <3>5 DEF ScopeInv
    <2> HIDE DEF files
    <2> QED BY <1>1, <2>1, <2>4, WritesKeep
  <1>5. CASE ~ Loads(s, name)
    <2>1. Writes(s, disk[s], Idle)
      BY <1>1, <1>2, <1>5 DEF Writes, PipelineInv, PipelineOnly, Evaluate, End, Become, FailureReport,
                              Report, NoReport
    <2>2. ScopeInv(s, disk[s], Idle, joint)
      BY <1>1, IdleScope
    <2> QED BY <1>1, <2>1, <2>2, WritesKeep
  <1> QED BY <1>4, <1>5

\* A cell of the challenge is evaluated.
LEMMA EvaluateChallengeKeeps ==
  ASSUME PipelineInv, NEW s \in Scopes, Evaluate(s, "challenge")
  PROVE  PipelineInv'
  <1> DEFINE name == Head(Awaiting(Results(disk[s].challenge)))
             before == IF Report(disk[s].challenge) THEN disk[s].challenge ELSE Begun
  <1>1. mode = "pipeline" /\ ScopeInv(s, disk[s], procs[s], joint) /\ procs[s].cmd = "challenge"
    BY DEF PipelineInv, Evaluate, Running
  <1>2. /\ joint # 0 /\ procs[s].source = joint /\ procs[s].source \in Sources
        /\ Passed(disk[s].test) /\ Unfinished(disk[s].challenge)
    BY <1>1 DEF ScopeInv, MadeBySeal, InOrder, Processes, Idle
  <1>3. /\ before \in Kept /\ ~ before.passed /\ Range(before.results) \subseteq {joint}
    BY <1>1, <1>2, NewReport
       DEF Begun, ScopeInv, MadeBySeal, FilesOf, Reports, NoReport, Failure, Report,
                                 Unfinished
  <1>4. name \in Range(Methods)
    BY AwaitingMethods DEF Evaluate
  <1>5. CASE Loads(s, name)
    <2> DEFINE report == Entered(before, name, procs[s].source)
               files == [disk[s] EXCEPT !.challenge = report]
    <2>1. Writes(s, files, procs[s])
      BY <1>1, <1>5 DEF Writes, PipelineInv, PipelineOnly, Evaluate, Put, Recorded
    <2> HIDE DEF name, before
    <2>2. /\ report \in Kept /\ Report(report) /\ report.passed = before.passed
          /\ Range(report.results) \subseteq Range(before.results) \union {procs[s].source}
      BY <1>2, <1>3, <1>4, RecordedResult
    <2> HIDE DEF report
    <2>3. files.challenge = report /\ files \in FilesOf(s)
      BY <1>1, <2>2 DEF ScopeInv, FilesOf, Reports
    <2>4. ScopeInv(s, files, procs[s], joint)
      <3>1. DerivedByOne(s, files, procs[s]) /\ SealedTogether(files, procs[s], joint)
        BY <1>1 DEF ScopeInv, FilesOf, DerivedByOne, SealedTogether
      <3>2. MadeBySeal(files.challenge, "challenge", procs[s], joint)
        BY <1>2, <1>3, <2>2, <2>3 DEF MadeBySeal, Unfinished
      <3>3. MadeBySeal(files.test, "test", procs[s], joint)
        BY <1>1 DEF ScopeInv, FilesOf, MadeBySeal
      <3>4. InOrder(files, procs[s])
        BY <1>1, <1>2 DEF ScopeInv, FilesOf, InOrder
      <3> QED BY <1>1, <2>3, <3>1, <3>2, <3>3, <3>4 DEF ScopeInv
    <2> HIDE DEF files
    <2> QED BY <1>1, <2>1, <2>4, WritesKeep
  <1>6. CASE ~ Loads(s, name)
    <2> DEFINE files == [disk[s] EXCEPT !.challenge = IF @ = NoReport THEN Failure ELSE @]
    <2>0. disk' = [disk EXCEPT ![s] = files]
      <3>1. CASE disk[s].challenge = NoReport
        BY <1>6, <3>1 DEF Evaluate, FailureReport, Put
      <3>2. CASE disk[s].challenge # NoReport
        <4>1. files = disk[s]
          BY <1>1, <3>2 DEF ScopeInv, FilesOf
        <4> HIDE DEF files
        <4> QED BY <1>1, <1>6, <3>2, <4>1 DEF Evaluate, FailureReport, PipelineInv
      <3> QED BY <3>1, <3>2
    <2>1. Writes(s, files, Idle)
      BY <1>6, <2>0 DEF Writes, PipelineOnly, Evaluate, End, Become
    <2>2. ScopeInv(s, files, Idle, joint)
      <3>1. files \in FilesOf(s) /\ Idle \in Processes(s)
        BY <1>1 DEF ScopeInv, FilesOf, Processes, Reports
      <3>2. DerivedByOne(s, files, Idle) /\ SealedTogether(files, Idle, joint)
        BY <1>1 DEF ScopeInv, FilesOf, DerivedByOne, SealedTogether, Idle
      <3>3. MadeBySeal(files.test, "test", Idle, joint)
        BY <1>1 DEF ScopeInv, FilesOf, MadeBySeal, Idle
      <3>4. MadeBySeal(files.challenge, "challenge", Idle, joint)
        BY <1>1 DEF ScopeInv, FilesOf, MadeBySeal, Idle, Report, Failure
      <3>5. InOrder(files, Idle)
        BY <1>1, <1>2 DEF ScopeInv, FilesOf, InOrder, Idle
      <3> QED BY <3>1, <3>2, <3>3, <3>4, <3>5 DEF ScopeInv
    <2> HIDE DEF files
    <2> QED BY <1>1, <2>1, <2>2, WritesKeep
  <1> QED BY <1>5, <1>6

\* A reserved report is completed.
LEMMA CompletesReport ==
  ASSUME NEW s \in Scopes, NEW field \in {"test", "challenge"}, PipelineInv, Complete(s, field)
  PROVE  Report(disk[s][field]) /\ disk[s][field] \in Kept
  <1>1. Report(disk[s][field])
    <2>1. Results(disk[s][field]) # {}
      <3>1. Methods # << >> /\ Methods \in Seq(STRING)
        BY ExperimentAssumption
      <3>2. Range(Methods) # {}
        <4>1. 1 \in DOMAIN Methods
          BY <3>1
        <4> QED BY <4>1 DEF Range
      <3> QED BY <3>2, AwaitingMethods DEF Complete
    <2> QED BY <2>1 DEF Results
  <1>2. disk[s][field] \in Reports
    BY DEF PipelineInv, Complete, Running, ScopeInv, FilesOf
  <1> QED BY <1>1, <1>2 DEF Reports, Report, NoReport, Failure

\* The reserved test is completed.
LEMMA CompleteTestKeeps ==
  ASSUME PipelineInv, NEW s \in Scopes, Complete(s, "test")
  PROVE  PipelineInv'
  <1> DEFINE report == [disk[s].test EXCEPT !.passed = TRUE]
             files == [disk[s] EXCEPT !.test = report]
  <1>1. mode = "pipeline" /\ ScopeInv(s, disk[s], procs[s], joint) /\ procs[s].cmd = "test"
    BY DEF PipelineInv, Complete, Running
  <1>2. Report(disk[s].test) /\ disk[s].test \in Kept
    BY CompletesReport
  <1>3. report \in Kept /\ Report(report) /\ report.results = disk[s].test.results /\ report.passed
    BY <1>2 DEF Kept, Report
  <1>4. Writes(s, files, Idle)
    BY DEF Writes, PipelineOnly, Complete, Put, End, Become
  <1> HIDE DEF report
  <1>5. files.test = report /\ files \in FilesOf(s) /\ Idle \in Processes(s)
    BY <1>1, <1>3 DEF ScopeInv, FilesOf, Processes, Reports
  <1>6. ScopeInv(s, files, Idle, joint)
    <2>1. DerivedByOne(s, files, Idle) /\ SealedTogether(files, Idle, joint)
      BY <1>1 DEF ScopeInv, FilesOf, DerivedByOne, SealedTogether, Idle
    <2>2. MadeBySeal(files.test, "test", Idle, joint)
      BY <1>1, <1>2, <1>3, <1>5 DEF ScopeInv, MadeBySeal, Idle
    <2>3. MadeBySeal(files.challenge, "challenge", Idle, joint)
      BY <1>1 DEF ScopeInv, FilesOf, MadeBySeal, Idle
    <2>4. InOrder(files, Idle)
      BY <1>3, <1>5 DEF InOrder, Idle, Passed
    <2> QED BY <1>5, <2>1, <2>2, <2>3, <2>4 DEF ScopeInv
  <1> HIDE DEF files
  <1> QED BY <1>1, <1>4, <1>6, WritesKeep

\* The challenge is completed.
LEMMA CompleteChallengeKeeps ==
  ASSUME PipelineInv, NEW s \in Scopes, Complete(s, "challenge")
  PROVE  PipelineInv'
  <1> DEFINE report == [disk[s].challenge EXCEPT !.passed = TRUE]
             files == [disk[s] EXCEPT !.challenge = report]
  <1>1. mode = "pipeline" /\ ScopeInv(s, disk[s], procs[s], joint) /\ procs[s].cmd = "challenge"
    BY DEF PipelineInv, Complete, Running
  <1>2. Report(disk[s].challenge) /\ disk[s].challenge \in Kept
    BY CompletesReport
  <1>3. report \in Kept /\ Report(report) /\ report.results = disk[s].challenge.results /\ report.passed
    BY <1>2 DEF Kept, Report
  <1>4. Writes(s, files, Idle)
    BY DEF Writes, PipelineOnly, Complete, Put, End, Become
  <1> HIDE DEF report
  <1>5. files.challenge = report /\ files \in FilesOf(s) /\ Idle \in Processes(s)
    BY <1>1, <1>3 DEF ScopeInv, FilesOf, Processes, Reports
  <1>6. ScopeInv(s, files, Idle, joint)
    <2>1. DerivedByOne(s, files, Idle) /\ SealedTogether(files, Idle, joint)
      BY <1>1 DEF ScopeInv, FilesOf, DerivedByOne, SealedTogether, Idle
    <2>2. MadeBySeal(files.challenge, "challenge", Idle, joint)
      BY <1>1, <1>2, <1>3, <1>5 DEF ScopeInv, MadeBySeal, Idle
    <2>3. MadeBySeal(files.test, "test", Idle, joint)
      BY <1>1 DEF ScopeInv, FilesOf, MadeBySeal, Idle
    <2>4. InOrder(files, Idle)
      BY <1>1 DEF ScopeInv, FilesOf, InOrder, Idle
    <2> QED BY <1>5, <2>1, <2>2, <2>3, <2>4 DEF ScopeInv
  <1> HIDE DEF files
  <1> QED BY <1>1, <1>4, <1>6, WritesKeep

\* Both scopes are sealed at once, when no reserved file can exist yet.
LEMMA SealBothKeeps ==
  ASSUME PipelineInv, SealBoth
  PROVE  PipelineInv'
  <1>1. mode = "pipeline" /\ joint = 0 /\ joint' = source /\ source \in Sources
    BY DEF PipelineInv, SealBoth
  <1>2. ASSUME NEW s \in Scopes
        PROVE  ScopeInv(s, disk[s], procs[s], joint')
    <2>1. ScopeInv(s, disk[s], procs[s], joint) /\ disk[s].frozen = source
      BY <1>1 DEF PipelineInv, SealBoth
    <2>2. SealedTogether(disk[s], procs[s], joint')
      BY <1>1, <2>1 DEF ScopeInv, SealedTogether
    <2>3. MadeBySeal(disk[s].test, "test", procs[s], joint')
      BY <1>1, <2>1 DEF ScopeInv, MadeBySeal
    <2>4. MadeBySeal(disk[s].challenge, "challenge", procs[s], joint')
      BY <1>1, <2>1 DEF ScopeInv, MadeBySeal
    <2> QED BY <2>1, <2>2, <2>3, <2>4 DEF ScopeInv
  <1> HIDE DEF ScopeInv
  <1>3. UNCHANGED << mode, disk, procs, source >> /\ joint' \in 0 .. 2
    BY <1>1 DEF SealBoth, Sources
  <1> QED BY <1>1, <1>2, <1>3 DEF PipelineInv

\* An edit of the source tree touches no file and no process.
LEMMA EditKeeps ==
  ASSUME PipelineInv, Edit
  PROVE  PipelineInv'
  <1>1. mode = "pipeline" /\ source' \in Sources
    BY DEF PipelineInv, Edit, Sources
  <1> QED BY <1>1 DEF PipelineInv, Edit

\* A process that dies leaves its files.
LEMMA DieKeeps ==
  ASSUME PipelineInv, NEW s \in Scopes, Die(s)
  PROVE  PipelineInv'
  <1>1. mode = "pipeline" /\ ScopeInv(s, disk[s], procs[s], joint)
    BY DEF PipelineInv, Die
  <1>2. Writes(s, disk[s], Idle)
    BY DEF Writes, Die, End, Become, PipelineInv
  <1>3. ScopeInv(s, disk[s], Idle, joint)
    BY <1>1, IdleScope
  <1> QED BY <1>1, <1>2, <1>3, WritesKeep

\* Outside the pipeline nothing is claimed, and no step enters it.
LEMMA OtherModesKeep ==
  ASSUME PipelineInv, Session \/ Training \/ TrainerDies
  PROVE  PipelineInv'
  <1>1. mode # "pipeline" /\ mode' = mode
    BY DEF Session, Training, TrainerDies, Fit, BeginIncident, Investigate, ScoreIncident,
           StartTraining, TrainEpisode, ValidateRun, SaveRun
  <1> QED BY <1>1 DEF PipelineInv

\* The files of a scope that has just begun.
LEMMA PipelineStarts == Init => PipelineInv
  <1> SUFFICES ASSUME Init, mode = "pipeline"
               PROVE  PipelineInv
    BY DEF PipelineInv
  <1>1. /\ disk = [s \in Scopes |-> NoFiles(s)] /\ procs = [s \in Scopes |-> Idle]
        /\ joint = 0 /\ source = 1
    BY DEF Init
  <1>2. ASSUME NEW s \in Scopes
        PROVE  ScopeInv(s, NoFiles(s), Idle, 0)
    <2>1. NoFiles(s) \in FilesOf(s)
      BY DEF NoFiles, FilesOf, NoTraining, Reports, Bundles
    <2>2. DerivedByOne(s, NoFiles(s), Idle) /\ SealedTogether(NoFiles(s), Idle, 0)
      BY DEF DerivedByOne, SealedTogether, NoFiles, Idle, Bundles
    <2>3. /\ MadeBySeal(NoFiles(s).test, "test", Idle, 0)
          /\ MadeBySeal(NoFiles(s).challenge, "challenge", Idle, 0)
      BY DEF MadeBySeal, NoFiles, Idle, NoReport, Report
    <2>4. InOrder(NoFiles(s), Idle)
      BY DEF InOrder, NoFiles, Idle, NoReport, Report
    <2> QED BY <2>1, <2>2, <2>3, <2>4 DEF ScopeInv, Processes
  <1> HIDE DEF ScopeInv
  <1>3. \A s \in Scopes : disk[s] = NoFiles(s) /\ procs[s] = Idle
    BY <1>1
  <1>4. source \in Sources /\ joint \in 0 .. 2
    BY <1>1 DEF Sources
  <1>5. disk = [s \in Scopes |-> disk[s]] /\ procs = [s \in Scopes |-> procs[s]]
    BY <1>1
  <1> QED BY <1>1, <1>2, <1>3, <1>4, <1>5 DEF PipelineInv

\* Every step keeps the pipeline in order.
LEMMA PipelineKeeps ==
  ASSUME PipelineInv, [Next]_vars
  PROVE  PipelineInv'
  <1>1. CASE Session \/ Training \/ TrainerDies
    BY <1>1, OtherModesKeep
  <1>2. CASE SealBoth
    BY <1>2, SealBothKeeps
  <1>3. CASE Edit
    BY <1>3, EditKeeps
  <1>4. ASSUME NEW s \in Scopes, Command(s)
        PROVE  PipelineInv'
    <2>1. CASE StartEncode(s) \/ WriteBundle(s) \/ PublishBundle(s) \/ SealDerivation(s)
      BY <2>1, StartEncodeKeeps, WriteBundleKeeps, PublishBundleKeeps, SealDerivationKeeps
    <2>2. CASE FitDataset(s) \/ Reference(s) \/ StartTrain(s) \/ TrainInterval(s)
      BY <2>2, FitDatasetKeeps, ReferenceKeeps, StartTrainKeeps, TrainIntervalKeeps
    <2>3. CASE StartValidation(s) \/ EvaluateValidation(s) \/ Freeze(s)
      BY <2>3, StartValidationKeeps, EvaluateValidationKeeps, FreezeKeeps
    <2>4. CASE StartTest(s) \/ StartChallenge(s)
      BY <2>4, StartTestKeeps, StartChallengeKeeps
    <2>5. CASE \E field \in {"test", "challenge"} : Evaluate(s, field) \/ Complete(s, field)
      <3>1. \/ Evaluate(s, "test") \/ Evaluate(s, "challenge")
            \/ Complete(s, "test") \/ Complete(s, "challenge")
        BY <2>5
      <3> QED BY <3>1, EvaluateTestKeeps, EvaluateChallengeKeeps, CompleteTestKeeps, CompleteChallengeKeeps
    <2> QED BY <1>4, <2>1, <2>2, <2>3, <2>4, <2>5 DEF Command
  <1>5. ASSUME NEW s \in Scopes, RefuseTest(s) \/ RefuseChallenge(s) \/ Die(s)
        PROVE  PipelineInv'
    BY <1>5, RefuseTestKeeps, RefuseChallengeKeeps, DieKeeps
  <1>6. CASE UNCHANGED vars
    <2>1. UNCHANGED << mode, disk, procs, joint, source >>
      BY <1>6 DEF vars
    <2> QED BY <2>1 DEF PipelineInv
  <1> QED BY <1>1, <1>2, <1>3, <1>4, <1>5, <1>6 DEF Next

\* What is in order is sealed as it was derived, reserved under one seal.
LEMMA InOrderIsExact == PipelineInv => SealsAreExact
  <1> SUFFICES ASSUME PipelineInv, mode = "pipeline", NEW s \in Scopes
               PROVE  LET files == disk[s]
                          reserved == {files[f] : f \in {g \in {"test", "challenge"} : Report(files[g])}}
                      IN /\ files.sealed => \A i \in DOMAIN files.bundles : files.bundles[i] = files.derivation
                         /\ reserved # {} => joint # 0 /\ \A t \in Scopes : disk[t].frozen = joint
                         /\ \A r \in reserved : Range(r.results) \subseteq {joint}
                         /\ Report(files.challenge) => Passed(files.test)
    BY DEF SealsAreExact
  <1>1. \A t \in Scopes : ScopeInv(t, disk[t], procs[t], joint)
    BY DEF PipelineInv
  <1>2. joint # 0 => \A t \in Scopes : disk[t].frozen = joint
    BY <1>1 DEF ScopeInv, SealedTogether
  <1>3. disk[s].sealed => \A i \in DOMAIN disk[s].bundles : disk[s].bundles[i] = disk[s].derivation
    BY <1>1 DEF ScopeInv, DerivedByOne, FilesOf
  <1>4. \A f \in {"test", "challenge"} :
          Report(disk[s][f]) => joint # 0 /\ Range(disk[s][f].results) \subseteq {joint}
    BY <1>1 DEF ScopeInv, MadeBySeal
  <1>5. Report(disk[s].challenge) => Passed(disk[s].test)
    BY <1>1 DEF ScopeInv, InOrder
  <1> QED BY <1>2, <1>3, <1>4, <1>5

\* Seals: a sealed dataset was derived whole by one source; a reserved result
\* exists only when every scope's methods were sealed together, and the code
\* that made it is the sealed code.
THEOREM SealsHold == Spec => []SealsAreExact
  <1>1. Init => PipelineInv
    BY PipelineStarts
  <1>2. PipelineInv /\ [Next]_vars => PipelineInv'
    BY PipelineKeeps
  <1>3. PipelineInv => SealsAreExact
    BY InOrderIsExact
  <1> QED BY <1>1, <1>2, <1>3, PTL DEF Spec

-----------------------------------------------------------------------------
(* What a step may do to a reserved report.                                  *)

Grows(old, new) ==
  Report(old) => /\ Report(new)
                 /\ Restrict(new.results, DOMAIN old.results) = old.results
                 /\ old.passed => new = old

ReportsGrow(old, new) == Grows(old.test, new.test) /\ Grows(old.challenge, new.challenge)

\* A report that is not touched is kept.
LEMMA SameReport ==
  ASSUME NEW r \in Reports
  PROVE  Grows(r, r)
  <1> SUFFICES ASSUME Report(r)
               PROVE  Restrict(r.results, DOMAIN r.results) = r.results
    BY DEF Grows
  <1>1. r \in Kept
    BY DEF Report, Reports, NoReport, Failure
  <1>2. PICK D \in SUBSET Range(Methods) : r.results \in [D -> Sources]
    BY <1>1 DEF Kept
  <1> QED BY <1>2 DEF Restrict

\* ... in a scope that no command touches.
LEMMA SameFiles ==
  ASSUME NEW s, NEW files \in FilesOf(s)
  PROVE  ReportsGrow(files, files)
  <1>1. files.test \in Reports /\ files.challenge \in Reports
    BY DEF FilesOf
  <1> QED BY <1>1, SameReport DEF ReportsGrow

\* Reserved reports are kept when every scope's reports are.
LEMMA KeptByScope ==
  ASSUME \A s \in Scopes : ReportsGrow(disk[s], disk'[s])
  PROVE  ReservedKept
  BY DEF ReservedKept, ReportsGrow, Grows

\* A command that leaves the reports alone keeps them.
LEMMA KeptByOthers ==
  ASSUME PipelineInv, mode = "pipeline",
         \A t \in Scopes : disk'[t].test = disk[t].test /\ disk'[t].challenge = disk[t].challenge
  PROVE  ReservedKept
  <1>1. \A t \in Scopes : disk[t].test \in Reports /\ disk[t].challenge \in Reports
    BY DEF PipelineInv, ScopeInv, FilesOf
  <1>2. \A t \in Scopes : ReportsGrow(disk[t], disk'[t])
    BY <1>1, SameReport DEF ReportsGrow
  <1> QED BY <1>2, KeptByScope

\* A command that writes one of a scope's reports.
LEMMA KeptByReport ==
  ASSUME PipelineInv, mode = "pipeline", NEW s \in Scopes, NEW field \in {"test", "challenge"}, NEW new,
         disk' = [disk EXCEPT ![s][field] = new], Grows(disk[s][field], new)
  PROVE  ReservedKept
  <1>1. \A t \in Scopes : disk[t] \in FilesOf(t) /\ disk[t].test \in Reports /\ disk[t].challenge \in Reports
    BY DEF PipelineInv, ScopeInv, FilesOf
  <1>2. ASSUME NEW t \in Scopes
        PROVE  ReportsGrow(disk[t], disk'[t])
    <2>1. Grows(disk[t].test, disk[t].test) /\ Grows(disk[t].challenge, disk[t].challenge)
      BY <1>1, SameReport
    <2>2. CASE t # s
      <3>1. disk'[t] = disk[t]
        BY <2>2 DEF PipelineInv
      <3> QED BY <2>1, <3>1 DEF ReportsGrow
    <2>3. CASE t = s
      <3>1. disk'[s] = [disk[s] EXCEPT ![field] = new]
        BY DEF PipelineInv
      <3>2. CASE field = "test"
        <4>1. disk'[s].test = new /\ disk'[s].challenge = disk[s].challenge
          BY <1>1, <3>1, <3>2 DEF FilesOf
        <4> QED BY <2>1, <2>3, <3>2, <4>1 DEF ReportsGrow
      <3>3. CASE field = "challenge"
        <4>1. disk'[s].challenge = new /\ disk'[s].test = disk[s].test
          BY <1>1, <3>1, <3>3 DEF FilesOf
        <4> QED BY <2>1, <2>3, <3>3, <4>1 DEF ReportsGrow
      <3> QED BY <3>2, <3>3
    <2> QED BY <2>2, <2>3
  <1> QED BY <1>2, KeptByScope

\* What is left of a command that raised is no report, or the report there was.
LEMMA KeptByFailure ==
  ASSUME PipelineInv, mode = "pipeline", NEW s \in Scopes, NEW field \in {"test", "challenge"},
         FailureReport(s, field)
  PROVE  ReservedKept
  <1>1. CASE disk[s][field] = NoReport
    <2>1. Grows(disk[s][field], Failure)
      BY <1>1 DEF Grows, NoReport, Report
    <2> QED BY <1>1, <2>1, KeptByReport DEF FailureReport, Put
  <1>2. CASE disk[s][field] # NoReport
    <2>1. disk' = disk
      BY <1>2 DEF FailureReport
    <2> QED BY <2>1, KeptByOthers
  <1> QED BY <1>1, <1>2

\* Derivation, fitting, the gate, training and validation.
LEMMA KeptByPreparation ==
  ASSUME PipelineInv, mode = "pipeline", NEW s \in Scopes,
         \/ StartEncode(s) \/ WriteBundle(s) \/ PublishBundle(s) \/ SealDerivation(s)
         \/ FitDataset(s) \/ Reference(s) \/ StartTrain(s) \/ TrainInterval(s)
         \/ StartValidation(s) \/ EvaluateValidation(s) \/ Freeze(s) \/ StartChallenge(s)
  PROVE  ReservedKept
  <1> DEFINE Same == \A t \in Scopes : disk'[t].test = disk[t].test /\ disk'[t].challenge = disk[t].challenge
  <1> SUFFICES Same
    BY KeptByOthers
  <1>1. disk = [t \in Scopes |-> disk[t]] /\ disk[s] \in FilesOf(s)
    BY DEF PipelineInv, ScopeInv
  <1>2. ASSUME NEW f \in {"derivation", "pending", "sealed", "model", "reference", "training",
                          "validation", "frozen"},
               NEW v, Put(s, f, v)
        PROVE  Same
    BY <1>1, <1>2 DEF Put, FilesOf
  <1>3. CASE disk' = disk
    BY <1>3
  <1>4. CASE StartEncode(s)
    BY <1>2, <1>4 DEF StartEncode
  <1>5. CASE WriteBundle(s)
    <2>1. disk' = disk \/ \E v : Put(s, "pending", v)
      BY <1>5 DEF WriteBundle
    <2> QED BY <1>2, <1>3, <2>1
  <1>6. CASE PublishBundle(s)
    BY <1>1, <1>6 DEF PublishBundle, FilesOf
  <1>7. CASE SealDerivation(s)
    BY <1>2, <1>7 DEF SealDerivation
  <1>8. CASE FitDataset(s)
    BY <1>2, <1>8 DEF FitDataset
  <1>9. CASE Reference(s)
    BY <1>2, <1>9 DEF Reference
  <1>10. CASE TrainInterval(s)
    BY <1>2, <1>10 DEF TrainInterval
  <1>11. CASE EvaluateValidation(s)
    <2>1. disk' = disk \/ \E v : Put(s, "validation", v)
      BY <1>11 DEF EvaluateValidation
    <2> QED BY <1>2, <1>3, <2>1
  <1>12. CASE Freeze(s)
    BY <1>2, <1>12 DEF Freeze
  <1>13. CASE StartTrain(s) \/ StartValidation(s) \/ StartChallenge(s)
    BY <1>3, <1>13 DEF StartTrain, StartValidation, StartChallenge
  <1> QED BY <1>4, <1>5, <1>6, <1>7, <1>8, <1>9, <1>10, <1>11, <1>12, <1>13

\* The commands that write reserved results.
LEMMA KeptByReserved ==
  ASSUME PipelineInv, mode = "pipeline", NEW s \in Scopes, NEW field \in {"test", "challenge"},
         Evaluate(s, field) \/ Complete(s, field)
  PROVE  ReservedKept
  <1>1. disk[s][field] \in Reports
    BY DEF PipelineInv, ScopeInv, FilesOf
  <1>2. procs[s].cmd = field /\ procs[s].source \in Sources /\ Unfinished(disk[s][field])
    BY DEF PipelineInv, ScopeInv, MadeBySeal, Evaluate, Complete, Running, Processes, Idle
  <1>3. CASE Evaluate(s, field)
    <2> DEFINE name == Head(Awaiting(Results(disk[s][field])))
               before == IF Report(disk[s][field]) THEN disk[s][field] ELSE Begun
               made == procs[s].source
               new == Entered(before, name, made)
    <2>1. name \in Range(Methods) \ Results(disk[s][field])
      BY <1>3, AwaitingMethods DEF Evaluate
    <2>2. before \in Kept /\ made \in Sources
      BY <1>1, <1>2, NewReport DEF Reports, Report, NoReport, Failure
    <2>3. CASE Loads(s, name)
      <3>1. disk' = [disk EXCEPT ![s][field] = new]
        BY <1>3, <2>3 DEF Evaluate, Put, Recorded
      <3>2. Grows(disk[s][field], new)
        <4> SUFFICES ASSUME Report(disk[s][field])
                     PROVE  Grows(disk[s][field], new)
          BY DEF Grows
        <4>1. before = disk[s][field] /\ name \notin DOMAIN before.results /\ ~ before.passed
          BY <1>2, <2>1 DEF Results, Unfinished
        <4> HIDE DEF name, before, made
        <4>2. Report(new) /\ Restrict(new.results, DOMAIN before.results) = before.results
          <5>1. LET q == Entered(before, name, made)
                IN Report(q) /\ Restrict(q.results, DOMAIN before.results) = before.results
            BY <2>1, <2>2, <4>1, RecordedResult
          <5> QED BY <5>1
        <4> HIDE DEF new
        <4> QED BY <4>1, <4>2 DEF Grows
      <3> HIDE DEF new
      <3> QED BY <3>1, <3>2, KeptByReport
    <2>4. CASE ~ Loads(s, name)
      <3>1. FailureReport(s, field)
        BY <1>3, <2>4 DEF Evaluate
      <3> QED BY <3>1, KeptByFailure
    <2> QED BY <2>3, <2>4
  <1>4. CASE Complete(s, field)
    <2> DEFINE old == disk[s][field]
               new == [old EXCEPT !.passed = TRUE]
    <2>1. Report(old) /\ old \in Kept
      BY <1>4, CompletesReport
    <2>2. Grows(old, old)
      BY <1>1, SameReport
    <2>3. disk' = [disk EXCEPT ![s][field] = new]
      BY <1>4 DEF Complete, Put
    <2>4. ~ old.passed
      BY <1>2, <2>1 DEF Unfinished
    <2> HIDE DEF old
    <2>5. new.results = old.results /\ Report(new)
      BY <2>1 DEF Kept, Report
    <2> HIDE DEF new
    <2>6. Grows(old, new)
      BY <2>1, <2>2, <2>4, <2>5 DEF Grows
    <2> QED BY <2>3, <2>6, KeptByReport DEF old
  <1> QED BY <1>3, <1>4

\* The test's first write is an empty report in a place that was free.
LEMMA KeptByStartTest ==
  ASSUME PipelineInv, mode = "pipeline", NEW s \in Scopes, StartTest(s)
  PROVE  ReservedKept
  <1>1. CASE disk[s].test = NoReport
    <2>1. Grows(disk[s].test, Begun)
      BY <1>1 DEF Grows, NoReport, Report
    <2>2. disk' = [disk EXCEPT ![s]["test"] = Begun]
      BY <1>1 DEF StartTest, Put
    <2> QED BY <2>1, <2>2, KeptByReport
  <1>2. CASE disk[s].test # NoReport
    <2>1. disk' = disk
      BY <1>2 DEF StartTest
    <2> QED BY <2>1, KeptByOthers
  <1> QED BY <1>1, <1>2

\* No step loses or changes a reserved result.
LEMMA StepsKeepReserved ==
  ASSUME PipelineInv, [Next]_vars
  PROVE  ReservedKept
  <1> SUFFICES ASSUME mode = "pipeline"
               PROVE  ReservedKept
    BY DEF ReservedKept
  <1>1. CASE Session \/ Training \/ TrainerDies
    BY <1>1 DEF Session, Training, TrainerDies, Fit, BeginIncident, Investigate, ScoreIncident,
                StartTraining, TrainEpisode, ValidateRun, SaveRun
  <1>2. CASE SealBoth \/ Edit \/ UNCHANGED vars
    <2>1. disk' = disk
      BY <1>2 DEF SealBoth, Edit, vars
    <2> QED BY <2>1, KeptByOthers
  <1>3. ASSUME NEW s \in Scopes, Command(s)
        PROVE  ReservedKept
    <2>1. CASE \E field \in {"test", "challenge"} : Evaluate(s, field) \/ Complete(s, field)
      BY <2>1, KeptByReserved
    <2>2. CASE StartTest(s)
      BY <2>2, KeptByStartTest
    <2>3. CASE \/ StartEncode(s) \/ WriteBundle(s) \/ PublishBundle(s) \/ SealDerivation(s)
               \/ FitDataset(s) \/ Reference(s) \/ StartTrain(s) \/ TrainInterval(s)
               \/ StartValidation(s) \/ EvaluateValidation(s) \/ Freeze(s) \/ StartChallenge(s)
      BY <2>3, KeptByPreparation
    <2> QED BY <1>3, <2>1, <2>2, <2>3 DEF Command
  <1>4. ASSUME NEW s \in Scopes, RefuseTest(s) \/ RefuseChallenge(s) \/ Die(s)
        PROVE  ReservedKept
    <2>1. CASE Die(s)
      <3>1. disk' = disk
        BY <2>1 DEF Die
      <3> QED BY <3>1, KeptByOthers
    <2>2. CASE RefuseTest(s)
      BY <2>2, KeptByFailure DEF RefuseTest
    <2>3. CASE RefuseChallenge(s)
      BY <2>3, KeptByFailure DEF RefuseChallenge
    <2> QED BY <1>4, <2>1, <2>2, <2>3
  <1> QED BY <1>1, <1>2, <1>3, <1>4 DEF Next

\* Reserved results: a death, an edit, a refused command or a resumption never
\* loses or changes one that was written.
THEOREM ReservedResultsAreKept == Spec => ReservedIsKept
  <1>1. Init => PipelineInv
    BY PipelineStarts
  <1>2. PipelineInv /\ [Next]_vars => PipelineInv'
    BY PipelineKeeps
  <1>3. PipelineInv /\ [Next]_vars => [ReservedKept]_vars
    BY StepsKeepReserved
  <1> QED BY <1>1, <1>2, <1>3, PTL DEF Spec, ReservedIsKept

-----------------------------------------------------------------------------
(* The uninterrupted run.                                                    *)

\* The uninterrupted run is the recursion it says: it starts anew, and every
\* episode continues the one before.
LEMMA ReferenceSteps ==
  ASSUME NEW model, NEW task, NEW method
  PROVE  /\ ReferenceRun(model, task, method, 0) = NewRun(method)
         /\ \A n \in Nat : ReferenceRun(model, task, method, n + 1)
                             = Continued(model, task, method, ReferenceRun(model, task, method, n))
  <1> DEFINE C(r) == Continued(model, task, method, r)
             base == NewRun(method)
             Prefix(n, f) == f = [k \in 0 .. n |-> IF k = 0 THEN base ELSE C(f[k - 1])]
             Whole(f) == f = [k \in Nat |-> IF k = 0 THEN base ELSE C(f[k - 1])]
             P == {n \in Nat : \E f : Prefix(n, f)}
             F == [n \in Nat |-> (CHOOSE f : Prefix(n, f))[n]]
             run == CHOOSE f : Whole(f)
  <1>1. \A k : ReferenceRun(model, task, method, k) = run[k]
    BY DEF ReferenceRun
  <1> HIDE DEF C, base
  <1>2. \A n \in Nat : \A f : Prefix(n, f) => f[0] = base /\ \A k \in 1 .. n : f[k] = C(f[k - 1])
    OBVIOUS
  <1>3. 0 \in P
    <2> DEFINE h == [k \in 0 .. 0 |-> base]
    <2>1. Prefix(0, h)
      OBVIOUS
    <2> HIDE DEF Prefix, h
    <2> QED BY <2>1
  <1>4. ASSUME NEW n \in Nat, NEW f, Prefix(n, f)
        PROVE  \E g : Prefix(n + 1, g)
    <2> DEFINE h == [k \in 0 .. n + 1 |-> IF k = n + 1 THEN C(f[n]) ELSE f[k]]
    <2>1. ASSUME NEW k \in 0 .. n + 1
          PROVE  h[k] = IF k = 0 THEN base ELSE C(h[k - 1])
      <3>1. CASE k = n + 1
        <4>1. k - 1 = n /\ h[n] = f[n] /\ h[k] = C(f[n]) /\ k # 0
          BY <3>1
        <4> HIDE DEF h
        <4> QED BY <4>1
      <3>2. CASE k \in 1 .. n
        <4>1. h[k] = f[k] /\ h[k - 1] = f[k - 1] /\ k # 0
          BY <3>2
        <4>2. f[k] = C(f[k - 1])
          BY <3>2, <1>2, <1>4
        <4> HIDE DEF h
        <4> QED BY <4>1, <4>2
      <3>3. CASE k = 0
        <4>1. h[0] = f[0]
          OBVIOUS
        <4>2. f[0] = base
          BY <1>2, <1>4
        <4> HIDE DEF h
        <4> QED BY <3>3, <4>1, <4>2
      <3> QED BY <3>1, <3>2, <3>3
    <2>2. h = [k \in 0 .. n + 1 |-> h[k]]
      OBVIOUS
    <2> HIDE DEF h
    <2>3. Prefix(n + 1, h)
      BY <2>1, <2>2
    <2> HIDE DEF Prefix
    <2> QED BY <2>3
  <1>5. P = Nat
    <2> HIDE DEF Prefix
    <2>1. P \in SUBSET Nat /\ \A n \in P : n + 1 \in P
      BY <1>4
    <2> HIDE DEF P
    <2> QED BY <1>3, <2>1, NumberInduction
  <1> DEFINE pre(n) == CHOOSE f : Prefix(n, f)
  <1>6. \A n \in Nat : Prefix(n, pre(n))
    <2> HIDE DEF Prefix
    <2> QED BY <1>5
  <1> HIDE DEF Prefix, pre
  <1>7. ASSUME NEW n \in Nat
        PROVE  pre(n + 1)[n] = pre(n)[n]
    <2> DEFINE p == pre(n)
               q == pre(n + 1)
               Q == {k \in Nat : k <= n => p[k] = q[k]}
    <2>1. /\ p[0] = base /\ \A k \in 1 .. n : p[k] = C(p[k - 1])
          /\ q[0] = base /\ \A k \in 1 .. n + 1 : q[k] = C(q[k - 1])
      <3>1. n + 1 \in Nat
        OBVIOUS
      <3> QED BY <1>2, <1>6, <3>1
    <2> HIDE DEF p, q
    <2>2. 0 \in Q
      BY <2>1
    <2>3. ASSUME NEW k \in Nat, k \in Q
          PROVE  k + 1 \in Q
      <3> SUFFICES ASSUME k + 1 <= n
                   PROVE  p[k + 1] = q[k + 1]
        OBVIOUS
      <3>1. PICK j \in 1 .. n : j = k + 1 /\ j - 1 = k /\ j \in 1 .. n + 1
        OBVIOUS
      <3>2. p[k] = q[k]
        BY <2>3
      <3> QED BY <2>1, <3>1, <3>2
    <2>4. Q = Nat
      <3>1. Q \in SUBSET Nat /\ \A k \in Q : k + 1 \in Q
        BY <2>3
      <3> HIDE DEF Q
      <3> QED BY <2>2, <3>1, NumberInduction
    <2>5. p[n] = q[n]
      BY <2>4
    <2> QED BY <2>5 DEF p, q
  <1>8. Whole(F)
    <2>1. \A n \in Nat : F[n] = pre(n)[n]
      BY DEF pre, Prefix
    <2>2. F = [n \in Nat |-> F[n]]
      OBVIOUS
    <2> HIDE DEF F
    <2>3. F[0] = base
      BY <1>2, <1>6, <2>1
    <2>4. ASSUME NEW n \in Nat, n # 0
          PROVE  F[n] = C(F[n - 1])
      <3>1. n \in 1 .. n /\ n - 1 \in Nat /\ n - 1 + 1 = n
        BY <2>4
      <3>2. pre(n)[n] = C(pre(n)[n - 1])
        BY <1>2, <1>6, <3>1
      <3>3. PICK m \in Nat : m = n - 1 /\ m + 1 = n
        BY <3>1
      <3>4. pre(n)[m] = pre(m)[m]
        BY <1>7, <3>3
      <3> QED BY <2>1, <3>2, <3>3, <3>4
    <2> QED BY <2>2, <2>3, <2>4
  <1>9. Whole(run)
    <2> HIDE DEF Whole, F
    <2> QED BY <1>8
  <1>10. run[0] = base /\ \A n \in Nat : run[n + 1] = C(run[n])
    <2> HIDE DEF run
    <2>1. \A k \in Nat : run[k] = IF k = 0 THEN base ELSE C(run[k - 1])
      BY <1>9
    <2> HIDE DEF Whole
    <2>2. ASSUME NEW n \in Nat
          PROVE  run[n + 1] = C(run[n])
      <3>1. PICK k \in Nat : k = n + 1 /\ k - 1 = n /\ k # 0
        OBVIOUS
      <3> QED BY <2>1, <3>1
    <2> QED BY <2>1, <2>2
  <1> HIDE DEF run
  <1>11. \A n \in Nat : ReferenceRun(model, task, method, n + 1) = C(ReferenceRun(model, task, method, n))
    BY <1>1, <1>10
  <1> QED BY <1>1, <1>10, <1>11 DEF base, C

\* What a scope runs is of the pipeline.
LEMMA CommandsAreOfThePipeline ==
  ASSUME NEW s \in Scopes, Command(s) \/ RefuseTest(s) \/ RefuseChallenge(s) \/ Die(s)
  PROVE  mode = "pipeline" /\ mode' = mode
  <1>1. CASE StartEncode(s) \/ StartTrain(s) \/ StartValidation(s) \/ StartTest(s) \/ StartChallenge(s)
    BY <1>1 DEF StartEncode, StartTrain, StartValidation, StartTest, StartChallenge, Start, PipelineOnly
  <1>2. CASE \/ WriteBundle(s) \/ PublishBundle(s) \/ SealDerivation(s) \/ TrainInterval(s)
             \/ EvaluateValidation(s) \/ Freeze(s)
    BY <1>2 DEF WriteBundle, PublishBundle, SealDerivation, TrainInterval, EvaluateValidation, Freeze,
                Running, PipelineOnly
  <1>3. CASE \E field \in {"test", "challenge"} : Evaluate(s, field) \/ Complete(s, field)
    BY <1>3 DEF Evaluate, Complete, Running, PipelineOnly
  <1>4. CASE FitDataset(s) \/ Reference(s) \/ RefuseTest(s) \/ RefuseChallenge(s) \/ Die(s)
    BY <1>4 DEF FitDataset, Reference, RefuseTest, RefuseChallenge, Die, PipelineOnly
  <1> QED BY <1>1, <1>2, <1>3, <1>4 DEF Command

\* A step keeps its mode, and outside of play, training and encoding the scene.
LEMMA ModesAreKept ==
  ASSUME [Next]_vars
  PROVE  /\ mode' = mode
         /\ mode = "play" => BeginIncident \/ Investigate \/ ScoreIncident \/ scene' = scene
         /\ mode = "encode" => Fit \/ scene' = scene
  <1>1. CASE Session
    BY <1>1 DEF Session, Fit, BeginIncident, Investigate, ScoreIncident
  <1>2. CASE Training \/ TrainerDies
    BY <1>2 DEF Training, TrainerDies, StartTraining, TrainEpisode, ValidateRun, SaveRun
  <1>3. CASE SealBoth \/ Edit
    BY <1>3 DEF SealBoth, Edit
  <1>4. CASE \E s \in Scopes : Command(s) \/ RefuseTest(s) \/ RefuseChallenge(s) \/ Die(s)
    BY <1>4, CommandsAreOfThePipeline
  <1>5. CASE UNCHANGED vars
    BY <1>5 DEF vars
  <1> QED BY <1>1, <1>2, <1>3, <1>4, <1>5 DEF Next

-----------------------------------------------------------------------------
(* Training.                                                                 *)

RunFields == {"episode", "sampler", "metrics", "selection", "trace", "counts", "learner"}

\* A run that starts anew has no episode and no selection.
LEMMA NewRunIsEmpty ==
  ASSUME NEW method
  PROVE  /\ DOMAIN NewRun(method) = RunFields
         /\ NewRun(method).episode = 0 /\ NewRun(method).selection = NoSelection
  BY DEF NewRun, RunFields

\* An episode is counted, and selects nothing.
LEMMA EpisodeCounts ==
  ASSUME NEW model, NEW task, NEW method, NEW run, DOMAIN run = RunFields
  PROVE  LET after == Episode(model, task, method, run)
         IN /\ DOMAIN after = RunFields
            /\ after.episode = run.episode + 1 /\ after.selection = run.selection
  <1> DEFINE i == SampleIncident(task, run.sampler)
             counted == [run EXCEPT !.episode = @ + 1, !.sampler = @ + DRAWS_PER_EPISODE,
                                    !.counts[i] = @ + 1]
             learnt == LearnEpisode(model, method, i, run.learner)
             neural == NeuralEpisode(model, i, counted.learner)
  <1>1. /\ DOMAIN counted = RunFields
        /\ counted.episode = run.episode + 1 /\ counted.selection = run.selection
    BY DEF RunFields
  <1>2. Episode(model, task, method, run) =
          IF method = "dqn" THEN [counted EXCEPT !.learner = neural]
          ELSE [counted EXCEPT !.learner = learnt.policy, !.trace = learnt.trace]
    BY DEF Episode, EpisodeOn
  <1> HIDE DEF counted, learnt, neural
  <1> QED BY <1>1, <1>2 DEF RunFields

\* A validation appends its metrics, and selects this episode or keeps the
\* selection there was.
LEMMA ValidationSelects ==
  ASSUME NEW method, NEW run, DOMAIN run = RunFields
  PROVE  LET after == Validated(method, run)
         IN /\ DOMAIN after = RunFields /\ after.episode = run.episode
            /\ Selects(method, run) => after.selection.episode = run.episode
            /\ ~ Selects(method, run) => after.selection = run.selection
  BY DEF Validated, RunFields

\* A run continues by one episode, and selects it or keeps its selection.
LEMMA ContinuedCounts ==
  ASSUME NEW model, NEW task, NEW method, NEW run, DOMAIN run = RunFields, run.episode \in Nat
  PROVE  LET after == Continued(model, task, method, run)
         IN /\ DOMAIN after = RunFields /\ after.episode = run.episode + 1
            /\ after.selection = run.selection \/ after.selection.episode = run.episode + 1
  <1> DEFINE after == Episode(model, task, method, run)
  <1>1. DOMAIN after = RunFields /\ after.episode = run.episode + 1 /\ after.selection = run.selection
    BY EpisodeCounts
  <1>2. Continued(model, task, method, run) = IF ValidationDue(after) THEN Validated(method, after) ELSE after
    BY DEF Continued, Judged
  <1> HIDE DEF after
  <1>3. LET v == Validated(method, after)
        IN /\ DOMAIN v = RunFields /\ v.episode = run.episode + 1
           /\ v.selection = run.selection \/ v.selection.episode = run.episode + 1
    BY <1>1, ValidationSelects
  <1> QED BY <1>1, <1>2, <1>3

\* The uninterrupted run after n episodes has counted n, and selected one of them.
LEMMA ReferenceCounts ==
  ASSUME NEW model, NEW task, NEW method, NEW n \in Nat
  PROVE  LET run == ReferenceRun(model, task, method, n)
         IN DOMAIN run = RunFields /\ run.episode = n /\ run.selection.episode \in 0 .. n
  <1> DEFINE R(k) == ReferenceRun(model, task, method, k)
             Good(k) == DOMAIN R(k) = RunFields /\ R(k).episode = k /\ R(k).selection.episode \in 0 .. k
             P == {k \in Nat : Good(k)}
  <1>1. R(0) = NewRun(method) /\ \A k \in Nat : R(k + 1) = Continued(model, task, method, R(k))
    BY ReferenceSteps
  <1> HIDE DEF R
  <1>2. 0 \in P
    BY <1>1, NewRunIsEmpty DEF NoSelection
  <1>3. ASSUME NEW k \in Nat, Good(k)
        PROVE  Good(k + 1)
    <2>1. /\ DOMAIN R(k + 1) = RunFields /\ R(k + 1).episode = R(k).episode + 1
          /\ R(k + 1).selection = R(k).selection \/ R(k + 1).selection.episode = R(k).episode + 1
      BY <1>1, <1>3, ContinuedCounts
    <2> QED BY <1>3, <2>1
  <1>4. P = Nat
    <2> HIDE DEF Good
    <2>1. P \in SUBSET Nat /\ \A k \in P : k + 1 \in P
      BY <1>3
    <2> HIDE DEF P
    <2> QED BY <1>2, <2>1, NumberInduction
  <1> QED BY <1>4 DEF R

-----------------------------------------------------------------------------
(* How far a training process is from the uninterrupted run.                 *)

Exact(s, run) == run.episode \in Nat /\ run = ReferenceRun(s.model, s.task, s.method, run.episode)

(* The best checkpoint is there, and not behind what the run has selected.     *)
Selected(run, best) ==
  run.selection.episode # 0 => best # NoRun /\ best.episode >= run.selection.episode

(* Between an episode and its validation.                                      *)
Unvalidated(s, run) ==
  \E n \in Nat : /\ run = Episode(s.model, s.task, s.method, ReferenceRun(s.model, s.task, s.method, n))
                 /\ ValidationDue(run)

Processing(s, latest, best) ==
  /\ s.at = "idle" => s.run = NoRun
  /\ s.at \in {"episode", "save"} => Exact(s, s.run)
  /\ s.at = "validate" => Unvalidated(s, s.run)
  /\ s.at # "idle" => Selected(s.run, best) /\ s.run.episode \in Nat
  /\ s.at # "idle" /\ latest # NoRun => latest.episode <= s.run.episode

Stored(s, latest, best) ==
  /\ latest # NoRun => Exact(s, latest) /\ Selected(latest, best)
  /\ best # NoRun => Exact(s, best) /\ best.selection.episode = best.episode

TrainInv ==
  mode = "train" =>
    /\ DOMAIN scene = {"task", "model", "method", "run", "at", "stop"}
    /\ scene.at \in {"idle", "episode", "validate", "save"}
    /\ disk = [latest |-> disk.latest, best |-> disk.best]
    /\ Processing(scene, disk.latest, disk.best)
    /\ Stored(scene, disk.latest, disk.best)

\* Training starts with nothing.
LEMMA TrainingStarts == Init => TrainInv
  <1> SUFFICES ASSUME Init, mode = "train"
               PROVE  TrainInv
    BY DEF TrainInv
  <1>1. PICK r \in Runs : scene = TrainScene(r[1], r[2]) /\ disk = NoCheckpoints
    BY DEF Init
  <1>2. /\ DOMAIN scene = {"task", "model", "method", "run", "at", "stop"}
        /\ scene.at = "idle" /\ scene.run = NoRun
        /\ disk = [latest |-> NoRun, best |-> NoRun]
    BY <1>1 DEF TrainScene, NoCheckpoints
  <1>3. Processing(scene, NoRun, NoRun)
    BY <1>2 DEF Processing
  <1>4. Stored(scene, NoRun, NoRun)
    BY DEF Stored
  <1> QED BY <1>2, <1>3, <1>4 DEF TrainInv

\* A process that starts goes on from the saved run, or anew.
LEMMA StartTrainingKeeps ==
  ASSUME TrainInv, StartTraining
  PROVE  TrainInv'
  <1> DEFINE run == IF disk.latest = NoRun THEN NewRun(scene.method) ELSE disk.latest
  <1>1. PICK stop \in Stops : scene' = [scene EXCEPT !.run = run, !.at = "episode", !.stop = stop]
    BY DEF StartTraining
  <1>2. mode = "train" /\ UNCHANGED << mode, disk >>
    BY DEF StartTraining
  <1>3. /\ DOMAIN scene' = {"task", "model", "method", "run", "at", "stop"}
        /\ scene'.run = run /\ scene'.at = "episode"
        /\ scene'.task = scene.task /\ scene'.model = scene.model /\ scene'.method = scene.method
    BY <1>1, <1>2 DEF TrainInv
  <1>4. /\ Exact(scene, run) /\ Selected(run, disk.best)
        /\ (disk.latest # NoRun => disk.latest.episode <= run.episode)
    <2>1. CASE disk.latest = NoRun
      <3>1. run = NewRun(scene.method) /\ run.episode = 0 /\ run.selection.episode = 0
        BY <2>1, NewRunIsEmpty DEF NoSelection
      <3>2. run = ReferenceRun(scene.model, scene.task, scene.method, 0)
        BY <3>1, ReferenceSteps
      <3> HIDE DEF run
      <3> QED BY <2>1, <3>1, <3>2 DEF Exact, Selected
    <2>2. CASE disk.latest # NoRun
      BY <1>2, <2>2 DEF TrainInv, Stored, Exact
    <2> QED BY <2>1, <2>2
  <1> HIDE DEF run
  <1>5. Processing(scene', disk.latest, disk.best)
    BY <1>3, <1>4 DEF Processing, Exact
  <1>6. Stored(scene', disk.latest, disk.best)
    BY <1>2, <1>3 DEF TrainInv, Stored, Exact
  <1> QED BY <1>2, <1>3, <1>5, <1>6 DEF TrainInv

\* An episode is trained.
LEMMA TrainEpisodeKeeps ==
  ASSUME TrainInv, TrainEpisode
  PROVE  TrainInv'
  <1> DEFINE run == Episode(scene.model, scene.task, scene.method, scene.run)
             n == scene.run.episode
  <1>1. mode = "train" /\ UNCHANGED << mode, disk >> /\ scene.at = "episode"
    BY DEF TrainEpisode
  <1>2. scene' = [scene EXCEPT !.run = run, !.at = IF ValidationDue(run) THEN "validate" ELSE "save"]
    BY DEF TrainEpisode
  <1>3. Exact(scene, scene.run) /\ Selected(scene.run, disk.best) /\ n \in Nat
        /\ (disk.latest # NoRun => disk.latest.episode <= n)
    BY <1>1 DEF TrainInv, Processing
  <1>4. scene.run = ReferenceRun(scene.model, scene.task, scene.method, n)
    BY <1>3 DEF Exact
  <1>5. DOMAIN scene.run = RunFields
    BY <1>3, <1>4, ReferenceCounts
  <1>6. run.episode = n + 1 /\ run.selection = scene.run.selection
    BY <1>5, EpisodeCounts
  <1>7. /\ DOMAIN scene' = {"task", "model", "method", "run", "at", "stop"}
        /\ scene'.run = run /\ scene'.at = IF ValidationDue(run) THEN "validate" ELSE "save"
        /\ scene'.task = scene.task /\ scene'.model = scene.model /\ scene'.method = scene.method
    BY <1>1, <1>2 DEF TrainInv
  <1>8. ValidationDue(run) => Unvalidated(scene, run)
    BY <1>3, <1>4 DEF Unvalidated
  <1>9. ~ ValidationDue(run) => Exact(scene, run)
    <2> SUFFICES ASSUME ~ ValidationDue(run)
                 PROVE  Exact(scene, run)
      OBVIOUS
    <2>1. run = Continued(scene.model, scene.task, scene.method, scene.run)
      BY DEF Continued, Judged
    <2>2. run = ReferenceRun(scene.model, scene.task, scene.method, n + 1)
      <3>1. ReferenceRun(scene.model, scene.task, scene.method, n + 1)
              = Continued(scene.model, scene.task, scene.method,
                          ReferenceRun(scene.model, scene.task, scene.method, n))
        <4> HIDE DEF n
        <4> QED BY <1>3, ReferenceSteps
      <3> HIDE DEF run, n
      <3> QED BY <1>4, <2>1, <3>1
    <2> HIDE DEF run, n
    <2> QED BY <1>3, <1>6, <2>2 DEF Exact
  <1> HIDE DEF run, n
  <1>10. Selected(run, disk.best) /\ run.episode \in Nat
         /\ (disk.latest # NoRun => disk.latest.episode <= run.episode)
    <2>1. ASSUME disk.latest # NoRun
          PROVE  disk.latest.episode <= run.episode
      <3>1. disk.latest.episode \in Nat
        BY <1>1, <2>1 DEF TrainInv, Stored, Exact
      <3> QED BY <1>3, <1>6, <2>1, <3>1
    <2> QED BY <1>3, <1>6, <2>1 DEF Selected
  <1>11. Processing(scene', disk.latest, disk.best)
    BY <1>7, <1>8, <1>9, <1>10 DEF Processing, Exact, Unvalidated
  <1>12. Stored(scene', disk.latest, disk.best)
    BY <1>1, <1>7 DEF TrainInv, Stored, Exact
  <1> QED BY <1>1, <1>7, <1>11, <1>12 DEF TrainInv

\* A validation is due after this episode, and writes the best checkpoint.
LEMMA ValidateRunKeeps ==
  ASSUME TrainInv, ValidateRun
  PROVE  TrainInv'
  <1> DEFINE run == Validated(scene.method, scene.run)
             best == IF Selects(scene.method, scene.run) THEN run ELSE disk.best
  <1>1. mode = "train" /\ mode' = mode /\ scene.at = "validate"
        /\ scene' = [scene EXCEPT !.run = run, !.at = "save"]
    BY DEF ValidateRun
  <1>2. disk' = [latest |-> disk.latest, best |-> best]
    BY <1>1 DEF TrainInv, ValidateRun
  <1>3. /\ DOMAIN scene' = {"task", "model", "method", "run", "at", "stop"}
        /\ scene'.run = run /\ scene'.at = "save"
        /\ scene'.task = scene.task /\ scene'.model = scene.model /\ scene'.method = scene.method
    BY <1>1 DEF TrainInv
  <1>4. Selected(scene.run, disk.best) /\ (disk.latest # NoRun => disk.latest.episode <= scene.run.episode)
    BY <1>1 DEF TrainInv, Processing
  <1>5. PICK n \in Nat :
          /\ scene.run = Episode(scene.model, scene.task, scene.method,
                                 ReferenceRun(scene.model, scene.task, scene.method, n))
          /\ ValidationDue(scene.run)
    BY <1>1 DEF TrainInv, Processing, Unvalidated
  <1>6. DOMAIN scene.run = RunFields /\ scene.run.episode = n + 1
        /\ scene.run.selection.episode \in 0 .. n
    BY <1>5, ReferenceCounts, EpisodeCounts
  <1>7. run = ReferenceRun(scene.model, scene.task, scene.method, n + 1)
    <2>1. ReferenceRun(scene.model, scene.task, scene.method, n + 1)
            = Continued(scene.model, scene.task, scene.method,
                        ReferenceRun(scene.model, scene.task, scene.method, n))
      BY ReferenceSteps
    <2>2. Continued(scene.model, scene.task, scene.method,
                    ReferenceRun(scene.model, scene.task, scene.method, n)) = run
      BY <1>5 DEF Continued, Judged
    <2> QED BY <2>1, <2>2
  <1>8. /\ run.episode = n + 1
        /\ Selects(scene.method, scene.run) => run.selection.episode = n + 1
        /\ ~ Selects(scene.method, scene.run) => run.selection = scene.run.selection
    BY <1>6, ValidationSelects
  <1> HIDE DEF run
  <1>9. Exact(scene, run) /\ run.episode \in Nat /\ run # NoRun
    BY <1>7, <1>8 DEF Exact, NoRun
  <1>10. Selected(run, best)
    BY <1>4, <1>8, <1>9 DEF Selected
  <1>11. best # NoRun => Exact(scene, best) /\ best.selection.episode = best.episode
    BY <1>1, <1>8, <1>9 DEF TrainInv, Stored
  <1>12. disk.latest # NoRun => Exact(scene, disk.latest) /\ Selected(disk.latest, best)
    <2> SUFFICES ASSUME disk.latest # NoRun
                 PROVE  Exact(scene, disk.latest) /\ Selected(disk.latest, best)
      OBVIOUS
    <2>1. Exact(scene, disk.latest) /\ Selected(disk.latest, disk.best)
      BY <1>1 DEF TrainInv, Stored
    <2>2. disk.latest.episode \in Nat /\ disk.latest.selection.episode \in 0 .. disk.latest.episode
      BY <2>1, ReferenceCounts DEF Exact
    <2>3. disk.latest.selection.episode <= n + 1
      BY <1>4, <1>6, <2>2
    <2> QED BY <1>8, <1>9, <2>1, <2>2, <2>3 DEF Selected
  <1> HIDE DEF best
  <1>13. Processing(scene', disk.latest, best)
    BY <1>3, <1>4, <1>6, <1>8, <1>9, <1>10 DEF Processing, Exact
  <1>14. Stored(scene', disk.latest, best)
    BY <1>3, <1>11, <1>12 DEF Stored, Exact
  <1> QED BY <1>1, <1>2, <1>3, <1>13, <1>14 DEF TrainInv

\* The latest checkpoint is the run as it is.
LEMMA SaveRunKeeps ==
  ASSUME TrainInv, SaveRun
  PROVE  TrainInv'
  <1> DEFINE latest == IF scene.run.episode % SAVE_EVERY = 0 \/ scene.run.episode = scene.stop
                       THEN scene.run ELSE disk.latest
  <1>1. mode = "train" /\ mode' = mode /\ scene.at = "save"
    BY DEF SaveRun
  <1>2. disk' = [latest |-> latest, best |-> disk.best]
    BY <1>1 DEF TrainInv, SaveRun, SavedState
  <1>3. /\ scene' = [scene EXCEPT !.at = "idle", !.run = NoRun] \/ scene' = [scene EXCEPT !.at = "episode"]
    BY DEF SaveRun
  <1>4. /\ DOMAIN scene' = {"task", "model", "method", "run", "at", "stop"}
        /\ \/ scene'.at = "idle" /\ scene'.run = NoRun
           \/ scene'.at = "episode" /\ scene'.run = scene.run
        /\ scene'.task = scene.task /\ scene'.model = scene.model /\ scene'.method = scene.method
    BY <1>1, <1>3 DEF TrainInv
  <1>5. Exact(scene, scene.run) /\ Selected(scene.run, disk.best) /\ scene.run.episode \in Nat
        /\ (disk.latest # NoRun => disk.latest.episode <= scene.run.episode)
    BY <1>1 DEF TrainInv, Processing
  <1>6. latest = scene.run \/ latest = disk.latest
    OBVIOUS
  <1> HIDE DEF latest
  <1>7. latest # NoRun => latest.episode <= scene.run.episode
    BY <1>5, <1>6
  <1>8. Processing(scene', latest, disk.best)
    BY <1>4, <1>5, <1>7 DEF Processing, Exact
  <1>9. Stored(scene', latest, disk.best)
    BY <1>1, <1>4, <1>5, <1>6 DEF TrainInv, Stored, Exact
  <1> QED BY <1>1, <1>2, <1>4, <1>8, <1>9 DEF TrainInv

\* A trainer that dies leaves its checkpoints.
LEMMA TrainerDiesKeeps ==
  ASSUME TrainInv, TrainerDies
  PROVE  TrainInv'
  <1>1. mode = "train" /\ UNCHANGED << mode, disk >> /\ scene' = [scene EXCEPT !.at = "idle", !.run = NoRun]
    BY DEF TrainerDies
  <1>2. /\ DOMAIN scene' = {"task", "model", "method", "run", "at", "stop"}
        /\ scene'.at = "idle" /\ scene'.run = NoRun
        /\ scene'.task = scene.task /\ scene'.model = scene.model /\ scene'.method = scene.method
    BY <1>1 DEF TrainInv
  <1>3. Processing(scene', disk.latest, disk.best)
    BY <1>2 DEF Processing
  <1>4. Stored(scene', disk.latest, disk.best)
    BY <1>1, <1>2 DEF TrainInv, Stored, Exact
  <1> QED BY <1>1, <1>2, <1>3, <1>4 DEF TrainInv

\* Every step keeps the training process on the uninterrupted run.
LEMMA TrainingKeeps ==
  ASSUME TrainInv, [Next]_vars
  PROVE  TrainInv'
  <1>1. CASE Training \/ TrainerDies
    BY <1>1, StartTrainingKeeps, TrainEpisodeKeeps, ValidateRunKeeps, SaveRunKeeps, TrainerDiesKeeps
       DEF Training
  <1>2. CASE Session
    BY <1>2 DEF Session, Fit, BeginIncident, Investigate, ScoreIncident, TrainInv
  <1>3. CASE SealBoth \/ Edit
    BY <1>3 DEF SealBoth, Edit, TrainInv
  <1>4. ASSUME NEW s \in Scopes, Command(s) \/ RefuseTest(s) \/ RefuseChallenge(s) \/ Die(s)
        PROVE  TrainInv'
    <2>1. mode = "pipeline" /\ mode' = mode
      BY <1>4, CommandsAreOfThePipeline
    <2> QED BY <2>1 DEF TrainInv
  <1>5. CASE UNCHANGED vars
    <2>1. UNCHANGED << mode, scene, disk >>
      BY <1>5 DEF vars
    <2> QED BY <2>1 DEF TrainInv
  <1> QED BY <1>1, <1>2, <1>3, <1>4, <1>5 DEF Next

\* What is stored is the uninterrupted run.
LEMMA StoredIsExact == TrainInv => CheckpointsAreExact
  <1> SUFFICES ASSUME TrainInv, mode = "train"
               PROVE  CheckpointsAreExact
    BY DEF CheckpointsAreExact
  <1>1. Stored(scene, disk.latest, disk.best)
    BY DEF TrainInv
  <1>2. disk.latest # NoRun =>
          disk.latest = ReferenceRun(scene.model, scene.task, scene.method, disk.latest.episode)
    BY <1>1 DEF Stored, Exact
  <1>3. disk.best # NoRun =>
          /\ disk.best = ReferenceRun(scene.model, scene.task, scene.method, disk.best.episode)
          /\ disk.best.selection.episode = disk.best.episode /\ disk.best.episode \in Nat
    BY <1>1 DEF Stored, Exact
  <1>4. disk.latest # NoRun /\ disk.latest.selection.episode # 0
          => disk.best # NoRun /\ disk.best.episode >= disk.latest.selection.episode
    BY <1>1 DEF Stored, Selected
  <1> QED BY <1>2, <1>3, <1>4 DEF CheckpointsAreExact

\* Checkpoints: wherever the process died and was resumed, the saved run is the
\* uninterrupted one, and the best checkpoint is never behind the latest.
THEOREM CheckpointsHold == Spec => []CheckpointsAreExact
  <1>1. Init => TrainInv
    BY TrainingStarts
  <1>2. TrainInv /\ [Next]_vars => TrainInv'
    BY TrainingKeeps
  <1>3. TrainInv => CheckpointsAreExact
    BY StoredIsExact
  <1> QED BY <1>1, <1>2, <1>3, PTL DEF Spec

-----------------------------------------------------------------------------
(* The catalogue and the environment under play.                             *)

Actions == STRING \X STRING \X Nat

\* A catalogue under any challenge: the same probes, other prices.
Catalogue(specs) ==
  /\ DOMAIN specs = 1 .. Len(Specs)
  /\ \A i \in DOMAIN specs : specs[i].id = Specs[i].id /\ specs[i].price \in Nat

\* Probes are triples, and what ends an investigation is not.
LEMMA ToolsAreProbes ==
  /\ Specs \in Seq([id : Actions, price : Nat, codes : SUBSET STRING])
  /\ DOMAIN Specs = 1 .. Len(Specs) /\ Len(Specs) \in Nat
  /\ \A i \in DOMAIN Specs : Specs[i].id \in Tools
  /\ \A a \in Tools : a \in Actions /\ ~ Terminal(a) /\ \E i \in DOMAIN Specs : Specs[i].id = a
  /\ Terminal(STOP) /\ Terminal(DEFER) /\ STOP # DEFER
  <1>1. Specs \in Seq([id : Actions, price : Nat, codes : SUBSET STRING])
    BY CatalogueAssumption DEF Actions
  <1>2. DOMAIN Specs = 1 .. Len(Specs) /\ Len(Specs) \in Nat
    BY <1>1
  <1>3. \A i \in DOMAIN Specs : Specs[i].id \in Actions
    <2> DEFINE R == [id : Actions, price : Nat, codes : SUBSET STRING]
    <2>1. \A r \in R : r.id \in Actions
      OBVIOUS
    <2>2. \A i \in DOMAIN Specs : Specs[i] \in R
      <3>1. Specs \in Seq(R)
        BY <1>1
      <3> HIDE DEF R
      <3> QED BY <3>1
    <2> HIDE DEF R
    <2> QED BY <2>1, <2>2
  <1>4. Tools = {Specs[i].id : i \in DOMAIN Specs}
    BY DEF Tools, Range, Ids
  <1>5. \A a \in Actions : Len(a) = 3
    BY DEF Actions
  <1>6. Terminal(STOP) /\ Terminal(DEFER) /\ STOP # DEFER
    BY DEF Terminal, STOP, DEFER
  <1>7. \A a \in Tools : a \in Actions
    BY <1>3, <1>4
  <1>8. \A a \in Tools : ~ Terminal(a)
    <2> SUFFICES ASSUME NEW a \in Tools
                 PROVE  Len(a) # 1
      BY DEF Terminal
    <2>1. Len(a) = 3
      BY <1>5, <1>7
    <2> QED BY <2>1
  <1> QED BY <1>1, <1>2, <1>4, <1>6, <1>7, <1>8

\* The greater of two numbers.
LEMMA MaxOfTwo ==
  ASSUME NEW a \in Nat, NEW b \in Nat
  PROVE  Max({a, b}) \in Nat
  <1>1. \E x \in {a, b} : \A y \in {a, b} : x >= y
    OBVIOUS
  <1> QED BY <1>1 DEF Max

\* A challenge leaves the catalogue its probes.
LEMMA ChallengedCatalogue ==
  ASSUME NEW scenario
  PROVE  Catalogue(ChallengeSpecs(scenario))
  <1> DEFINE price(x) == CASE scenario = "half-prices" -> Max({1, x \div 2})
                           [] scenario = "double-prices" -> 2 * x
                           [] OTHER -> x
  <1>1. \A x \in Nat : price(x) \in Nat
    <2> TAKE x \in Nat
    <2>1. x \div 2 \in Nat /\ 1 \in Nat /\ 2 * x \in Nat
      OBVIOUS
    <2>2. Max({1, x \div 2}) \in Nat
      BY <2>1, MaxOfTwo
    <2> QED BY <2>1, <2>2
  <1>2. ChallengeSpecs(scenario) = [i \in DOMAIN Specs |-> [Specs[i] EXCEPT !.price = price(Specs[i].price)]]
    BY DEF ChallengeSpecs
  <1> HIDE DEF price
  <1>3. \A i \in DOMAIN Specs : Specs[i].price \in Nat /\ DOMAIN Specs[i] = {"id", "price", "codes"}
    <2> DEFINE R == [id : Actions, price : Nat, codes : SUBSET STRING]
    <2>1. \A r \in R : r.price \in Nat /\ DOMAIN r = {"id", "price", "codes"}
      OBVIOUS
    <2>2. \A i \in DOMAIN Specs : Specs[i] \in R
      <3>1. Specs \in Seq(R)
        BY ToolsAreProbes
      <3> HIDE DEF R
      <3> QED BY <3>1
    <2> HIDE DEF R
    <2> QED BY <2>1, <2>2
  <1> QED BY <1>1, <1>2, <1>3, ToolsAreProbes DEF Catalogue

\* What a probe costs.
LEMMA PriceIsNatural ==
  ASSUME NEW specs, Catalogue(specs), NEW a \in Tools
  PROVE  Price(specs, a) \in Nat
  <1>1. \E i \in DOMAIN specs : specs[i].id = a
    BY ToolsAreProbes DEF Catalogue
  <1> QED BY <1>1 DEF Price, SpecOf, Catalogue

-----------------------------------------------------------------------------
(* The environment.                                                          *)

EnvFields == {"specs", "history", "ledger", "spent", "probes", "decision", "paid"}

Ledger(env) ==
  /\ env.ledger \in Seq(Range(env.ledger))
  /\ IsFiniteSet(Acquired(env)) /\ Cardinality(Acquired(env)) = Len(env.ledger)
  /\ env.spent \in Nat /\ env.spent <= BUDGET /\ env.paid = 0 - LAMBDA_COST * env.spent

Decision(env) ==
  \/ env.decision = NoDecision
  \/ /\ env.decision.kind \in {"DEFER", "DIAGNOSE"}
     /\ env.decision.evidence = [i \in DOMAIN env.ledger |-> env.ledger[i].action]

EnvOk(specs, env) ==
  /\ DOMAIN env = EnvFields /\ env.specs = specs
  /\ Ledger(env) /\ Decision(env)

\* An environment that has just been reset has bought nothing.
LEMMA ResetIsEmpty ==
  ASSUME NEW specs
  PROVE  EnvOk(specs, Reset(specs)) /\ ~ Terminated(Reset(specs)) /\ Acquired(Reset(specs)) = {}
  <1> DEFINE env == Reset(specs)
  <1>1. DOMAIN env = EnvFields /\ env.specs = specs /\ env.decision = NoDecision
    BY DEF Reset, EnvFields
  <1>2. env.ledger = << >> /\ env.spent = 0 /\ env.paid = 0
    BY DEF Reset
  <1>3. Acquired(env) = {}
    BY <1>2 DEF Acquired, Range
  <1>4. BUDGET \in Nat /\ LAMBDA_COST \in Int
    BY TaskAssumption
  <1> HIDE DEF env
  <1>5. env.paid = 0 - LAMBDA_COST * env.spent
    BY <1>2, <1>4
  <1>6. IsFiniteSet({}) /\ Cardinality({}) = 0
    BY FS_EmptySet
  <1>7. env.ledger \in Seq(Range(env.ledger)) /\ Len(env.ledger) = 0
    BY <1>2
  <1>8. Ledger(env)
    BY <1>2, <1>3, <1>4, <1>5, <1>6, <1>7, TaskAssumption DEF Ledger
  <1> QED BY <1>1, <1>3, <1>8 DEF env, EnvOk, Decision, Terminated, NoDecision

\* What the environment accepts: a probe that was not bought and can be paid,
\* or the end.
LEMMA AcceptedActions ==
  ASSUME NEW specs, Catalogue(specs), NEW env, EnvOk(specs, env), NEW a, Accepts(env, a)
  PROVE  /\ ~ Terminated(env)
         /\ Terminal(a) \/ (a \in Tools \ Acquired(env) /\ Price(specs, a) <= BUDGET - env.spent)
  <1>1. Len(Specs) \in Nat /\ \A i \in 1 .. Len(Specs) : Specs[i].id \in Actions
    BY ToolsAreProbes
  <1>2. Ids(specs) \in Seq(Actions)
    BY <1>1 DEF Ids, Catalogue
  <1> DEFINE open == {b \in Tools : Price(specs, b) <= BUDGET - env.spent} \ Acquired(env)
  <1>3. Permitted(env) = Only(Ids(specs), open)
    BY DEF Permitted, EnvOk
  <1>4. Permitted(env) \in Seq(Actions) /\ Range(Permitted(env)) \subseteq open
    BY <1>2, <1>3, OnlyKeeps
  <1>5. a \in Range(Mask(env))
    BY DEF Accepts
  <1>6. ~ Terminated(env)
    <2> SUFFICES ASSUME Terminated(env)
                 PROVE  FALSE
      OBVIOUS
    <2>1. Mask(env) = << >>
      BY DEF Mask
    <2> QED BY <1>5, <2>1 DEF Range
  <1> DEFINE probes == IF env.probes < MAX_PROBES THEN Permitted(env) ELSE << >>
             ends == << STOP, DEFER >>
  <1>7. Mask(env) = probes \o ends
    BY <1>6 DEF Mask
  <1>8. Range(probes) \subseteq open /\ \E T : probes \in Seq(T)
    <2>1. << >> \in Seq(Actions) /\ Range(<< >>) = {}
      BY DEF Range
    <2> HIDE DEF open
    <2> QED BY <1>4, <2>1
  <1>9. \A x \in Range(probes \o ends) : x \in Range(probes) \/ x \in {STOP, DEFER}
    <2>1. PICK T : probes \in Seq(T)
      BY <1>8
    <2> HIDE DEF probes, open
    <2>2. Len(probes) \in Nat /\ DOMAIN probes = 1 .. Len(probes)
      BY <2>1
    <2>3. DOMAIN (probes \o ends) = 1 .. Len(probes) + 2
      BY <2>1
    <2>4. \A i \in 1 .. Len(probes) + 2 :
            (probes \o ends)[i] = IF i <= Len(probes) THEN probes[i] ELSE ends[i - Len(probes)]
      BY <2>1
    <2>5. ends[1] = STOP /\ ends[2] = DEFER
      OBVIOUS
    <2> HIDE DEF ends
    <2> SUFFICES ASSUME NEW i \in 1 .. Len(probes) + 2
                 PROVE  (probes \o ends)[i] \in Range(probes) \/ (probes \o ends)[i] \in {STOP, DEFER}
      BY <2>3 DEF Range
    <2>6. CASE i <= Len(probes)
      BY <2>2, <2>4, <2>6 DEF Range
    <2>7. CASE ~(i <= Len(probes))
      <3>1. i - Len(probes) \in {1, 2}
        BY <2>2, <2>7
      <3> QED BY <2>4, <2>5, <2>7, <3>1
    <2> QED BY <2>6, <2>7
  <1>10. a \in open \/ a \in {STOP, DEFER}
    <2> HIDE DEF probes, open, ends
    <2> QED BY <1>5, <1>7, <1>8, <1>9
  <1> QED BY <1>6, <1>10, ToolsAreProbes

\* An investigation that ends keeps its ledger and names it as its evidence.
LEMMA FinishKeeps ==
  ASSUME NEW specs, NEW model, NEW env, NEW a, NEW reason,
         DOMAIN env = EnvFields, env.specs = specs, Ledger(env)
  PROVE  LET next == Finish(model, env, a, reason)
         IN EnvOk(specs, next) /\ Terminated(next) /\ next.ledger = env.ledger
  <1> DEFINE next == Finish(model, env, a, reason)
  <1>1. /\ DOMAIN next = EnvFields /\ next.specs = specs /\ next.ledger = env.ledger
        /\ next.spent = env.spent /\ next.paid = env.paid
    BY DEF Finish, EnvFields
  <1>2. /\ next.decision.kind \in {"DEFER", "DIAGNOSE"}
        /\ next.decision.evidence = [i \in DOMAIN env.ledger |-> env.ledger[i].action]
    BY DEF Finish, EnvFields
  <1> HIDE DEF next
  <1>3. Acquired(next) = Acquired(env)
    BY <1>1 DEF Acquired
  <1>4. Ledger(next)
    BY <1>1, <1>3 DEF Ledger
  <1>5. Decision(next) /\ Terminated(next)
    BY <1>1, <1>2 DEF Decision, Terminated
  <1> QED BY <1>1, <1>4, <1>5 DEF EnvOk, next

\* A packet that is bought is entered once, and paid.
LEMMA BuyingKeeps ==
  ASSUME NEW specs, Catalogue(specs), NEW env, EnvOk(specs, env),
         NEW a \in Tools \ Acquired(env), NEW symbol, Price(specs, a) <= BUDGET - env.spent
  PROVE  LET next == Bought(env, a, symbol)
         IN /\ DOMAIN next = EnvFields /\ next.specs = specs /\ Ledger(next)
            /\ next.decision = env.decision /\ Acquired(next) = Acquired(env) \union {a}
  <1> DEFINE next == Bought(env, a, symbol)
             entry == [action |-> a, symbol |-> symbol]
             T == Range(env.ledger) \union {entry}
             price == Price(specs, a)
  <1>1. DOMAIN env = EnvFields /\ env.specs = specs /\ Ledger(env)
    BY DEF EnvOk
  <1>2. /\ DOMAIN next = EnvFields /\ next.specs = specs /\ next.ledger = Append(env.ledger, entry)
        /\ next.spent = env.spent + price /\ next.paid = env.paid - LAMBDA_COST * price
        /\ next.decision = env.decision
    BY <1>1 DEF Bought, Acquire, EnvFields
  <1>3. price \in Nat /\ BUDGET \in Nat /\ LAMBDA_COST \in Int
    BY PriceIsNatural, TaskAssumption
  <1> HIDE DEF next, price
  <1>4. env.ledger \in Seq(Range(env.ledger))
    BY <1>1 DEF Ledger
  <1>5. Range(next.ledger) = T
    BY <1>2, <1>4, RangeOfAppend
  <1>6. next.ledger \in Seq(T) /\ Len(next.ledger) = Len(env.ledger) + 1
    BY <1>2, <1>4
  <1>7. Acquired(next) = Acquired(env) \union {a}
    <2>1. entry.action = a
      OBVIOUS
    <2> HIDE DEF entry
    <2> QED BY <1>5, <2>1 DEF Acquired
  <1>8. IsFiniteSet(Acquired(next)) /\ Cardinality(Acquired(next)) = Len(next.ledger)
    BY <1>1, <1>6, <1>7, FS_AddElement DEF Ledger
  <1>9. next.spent \in Nat /\ next.spent <= BUDGET /\ next.paid = 0 - LAMBDA_COST * next.spent
    <2>1. env.spent \in Nat /\ env.paid = 0 - LAMBDA_COST * env.spent /\ price <= BUDGET - env.spent
      BY <1>1 DEF Ledger, price
    <2> DEFINE x == LAMBDA_COST * env.spent
               y == LAMBDA_COST * price
    <2>2. LAMBDA_COST * (env.spent + price) = x + y /\ x \in Int /\ y \in Int
      BY <1>3, <2>1
    <2> HIDE DEF x, y
    <2>3. next.paid = 0 - x - y
      BY <1>2, <2>1 DEF x, y
    <2>4. next.paid = 0 - (x + y)
      BY <2>2, <2>3
    <2>5. next.paid = 0 - LAMBDA_COST * next.spent
      BY <1>2, <2>2, <2>4
    <2> QED BY <1>2, <1>3, <2>1, <2>5
  <1>10. Ledger(next)
    BY <1>5, <1>6, <1>8, <1>9 DEF Ledger
  <1> QED BY <1>2, <1>7, <1>10 DEF next

\* A step keeps the environment in order: it buys what it asks for, once and
\* within the budget, or ends with its ledger as it is.
LEMMA StepKeeps ==
  ASSUME NEW specs, Catalogue(specs), NEW env, EnvOk(specs, env), NEW model, NEW packets,
         NEW a, Accepts(env, a)
  PROVE  LET next == Step(model, env, packets, a)
         IN /\ EnvOk(specs, next) /\ Acquired(env) \subseteq Acquired(next)
            /\ ~ Terminal(a) => a \in Acquired(next)
  <1> DEFINE next == Step(model, env, packets, a)
  <1>1. DOMAIN env = EnvFields /\ env.specs = specs /\ Ledger(env)
    BY DEF EnvOk
  <1>2. ~ Terminated(env)
        /\ (Terminal(a) \/ (a \in Tools \ Acquired(env) /\ Price(specs, a) <= BUDGET - env.spent))
    BY AcceptedActions
  <1>3. CASE Terminal(a)
    <2>1. next = Finish(model, env, a, "voluntary")
      BY <1>3 DEF Step
    <2>2. EnvOk(specs, next) /\ next.ledger = env.ledger
      BY <1>1, <2>1, FinishKeeps
    <2> QED BY <1>3, <2>2 DEF Acquired
  <1>4. CASE ~ Terminal(a)
    <2> DEFINE after == Bought(env, a, packets[a])
               last(why) == Finish(model, after, TerminalAction(model, after), why)
    <2>1. a \in Tools \ Acquired(env) /\ Price(specs, a) <= BUDGET - env.spent
      BY <1>2, <1>4
    <2>2. /\ DOMAIN after = EnvFields /\ after.specs = specs /\ Ledger(after)
          /\ after.decision = env.decision /\ Acquired(after) = Acquired(env) \union {a}
      BY <2>1, BuyingKeeps
    <2>3. next = after \/ \E why : next = last(why)
      BY <1>4 DEF Step, StepWith
    <2> HIDE DEF after
    <2>4. ASSUME next = after
          PROVE  EnvOk(specs, next) /\ Acquired(next) = Acquired(env) \union {a}
      <3>1. env.decision = NoDecision
        BY <1>2 DEF EnvOk, Decision, Terminated
      <3> HIDE DEF next
      <3> QED BY <2>2, <2>4, <3>1 DEF EnvOk, Decision
    <2>5. ASSUME NEW why, next = last(why)
          PROVE  EnvOk(specs, next) /\ Acquired(next) = Acquired(env) \union {a}
      <3>1. EnvOk(specs, last(why)) /\ last(why).ledger = after.ledger
        BY <2>2, FinishKeeps
      <3>2. Acquired(last(why)) = Acquired(after)
        BY <3>1 DEF Acquired
      <3> HIDE DEF last, next
      <3> QED BY <2>2, <2>5, <3>1, <3>2
    <2> HIDE DEF next, last
    <2>6. EnvOk(specs, next) /\ Acquired(next) = Acquired(env) \union {a}
      BY <2>3, <2>4, <2>5
    <2> QED BY <2>6 DEF next
  <1> QED BY <1>3, <1>4

\* A method that draws no lots has one choice.
LEMMA OneChoice ==
  ASSUME NEW model, NEW task, NEW env, NEW def, def.kind \in PolicyKinds \ Lots
  PROVE  \E c : PolicyChoices(model, task, env, def) = {c}
  <1>1. CASE def.kind \in {"stop", "defer", "rule", "transfer"}
    BY <1>1 DEF PolicyChoices, Lots
  <1>2. CASE def.kind \in {"fixed", "generalized", "expanded"}
    BY <1>2 DEF PolicyChoices, Lots
  <1>3. CASE def.kind \in {"dp", "tabular", "hybrid"}
    BY <1>3 DEF PolicyChoices, Lots
  <1> QED BY <1>1, <1>2, <1>3 DEF PolicyKinds

(* What a method that draws no lots chooses.                                   *)
Choice(s, env) == CHOOSE a : a \in PolicyChoices(s.model, s.task, env, s.def)
SpecsOf(s) == ChallengeSpecs(s.scenario)
PacketsOf(s, i) == ChallengePackets(Incidents[i].symbols, s.scenario)

(* t leads from the reset to its n-th environment, under the method's choices. *)
Trail(s, i, t, n) ==
  /\ t[1] = Reset(SpecsOf(s))
  /\ \A k \in 1 .. n - 1 : /\ Accepts(t[k], Choice(s, t[k]))
                           /\ t[k + 1] = Step(s.model, t[k], PacketsOf(s, i), Choice(s, t[k]))

\* Along a trail every environment is in order, and a step never forgets what
\* was bought.
LEMMA TrailKeeps ==
  ASSUME NEW s, NEW i, NEW t, NEW n \in Nat \ {0}, Trail(s, i, t, n)
  PROVE  /\ \A k \in 1 .. n : EnvOk(SpecsOf(s), t[k])
         /\ \A k \in 1 .. n - 1 : /\ ~ Terminated(t[k])
                                  /\ Acquired(t[k]) \subseteq Acquired(t[k + 1])
                                  /\ ~ Terminal(Choice(s, t[k])) => Choice(s, t[k]) \in Acquired(t[k + 1])
  <1> DEFINE specs == SpecsOf(s)
             P == {k \in Nat : k + 1 <= n => EnvOk(specs, t[k + 1])}
  <1>1. Catalogue(specs)
    BY ChallengedCatalogue DEF SpecsOf
  <1>2. t[1] = Reset(specs)
    BY DEF Trail
  <1>3. ASSUME NEW k \in 1 .. n - 1
        PROVE  /\ Accepts(t[k], Choice(s, t[k]))
               /\ t[k + 1] = Step(s.model, t[k], PacketsOf(s, i), Choice(s, t[k]))
    BY DEF Trail
  <1> HIDE DEF specs
  <1>4. ASSUME NEW k \in 1 .. n - 1, EnvOk(specs, t[k])
        PROVE  /\ EnvOk(specs, t[k + 1]) /\ ~ Terminated(t[k])
               /\ Acquired(t[k]) \subseteq Acquired(t[k + 1])
               /\ ~ Terminal(Choice(s, t[k])) => Choice(s, t[k]) \in Acquired(t[k + 1])
    <2> DEFINE a == Choice(s, t[k])
               env == t[k]
    <2>1. Accepts(env, a) /\ EnvOk(specs, env) /\ t[k + 1] = Step(s.model, env, PacketsOf(s, i), a)
      BY <1>3, <1>4
    <2> HIDE DEF a, env
    <2>2. /\ EnvOk(specs, Step(s.model, env, PacketsOf(s, i), a))
          /\ Acquired(env) \subseteq Acquired(Step(s.model, env, PacketsOf(s, i), a))
          /\ ~ Terminal(a) => a \in Acquired(Step(s.model, env, PacketsOf(s, i), a))
      BY <1>1, <2>1, StepKeeps
    <2>3. ~ Terminated(env)
      BY <1>1, <2>1, AcceptedActions
    <2> QED BY <2>1, <2>2, <2>3 DEF a, env
  <1>5. 0 \in P
    <2>1. EnvOk(specs, t[1])
      BY <1>2, ResetIsEmpty
    <2> QED BY <2>1
  <1>6. ASSUME NEW k \in Nat, k \in P
        PROVE  k + 1 \in P
    <2> SUFFICES ASSUME k + 1 + 1 <= n
                 PROVE  EnvOk(specs, t[k + 1 + 1])
      OBVIOUS
    <2>1. PICK j \in 1 .. n - 1 : j = k + 1
      OBVIOUS
    <2>2. EnvOk(specs, t[j])
      BY <1>6, <2>1
    <2> QED BY <1>4, <2>1, <2>2
  <1>7. P = Nat
    <2>1. P \in SUBSET Nat /\ \A k \in P : k + 1 \in P
      BY <1>6
    <2> HIDE DEF P
    <2> QED BY <1>5, <2>1, NumberInduction
  <1>8. ASSUME NEW k \in 1 .. n
        PROVE  EnvOk(specs, t[k])
    <2>1. PICK j \in Nat : j + 1 = k /\ j + 1 <= n
      <3>1. k - 1 \in Nat /\ k - 1 + 1 = k /\ k <= n
        OBVIOUS
      <3> QED BY <3>1
    <2>2. j \in P
      <3> HIDE DEF P
      <3> QED BY <1>7
    <2>3. EnvOk(specs, t[j + 1])
      BY <2>1, <2>2
    <2> QED BY <2>1, <2>3
  <1>9. \A k \in 1 .. n - 1 : k \in 1 .. n
    OBVIOUS
  <1> QED BY <1>4, <1>8, <1>9 DEF specs

\* What was bought anywhere on a trail is in its last ledger.
LEMMA TrailGrows ==
  ASSUME NEW s, NEW i, NEW t, NEW n \in Nat \ {0}, Trail(s, i, t, n), NEW k \in 1 .. n
  PROVE  Acquired(t[k]) \subseteq Acquired(t[n])
  <1> DEFINE P == {m \in Nat : k + m <= n => Acquired(t[k]) \subseteq Acquired(t[k + m])}
  <1>1. \A j \in 1 .. n - 1 : Acquired(t[j]) \subseteq Acquired(t[j + 1])
    BY TrailKeeps
  <1>2. 0 \in P
    OBVIOUS
  <1>3. ASSUME NEW m \in Nat, m \in P
        PROVE  m + 1 \in P
    <2> SUFFICES ASSUME k + (m + 1) <= n
                 PROVE  Acquired(t[k]) \subseteq Acquired(t[k + (m + 1)])
      OBVIOUS
    <2>1. PICK j \in 1 .. n - 1 : j = k + m /\ j + 1 = k + (m + 1)
      OBVIOUS
    <2>2. Acquired(t[k]) \subseteq Acquired(t[j])
      BY <1>3, <2>1
    <2>3. Acquired(t[j]) \subseteq Acquired(t[j + 1])
      BY <1>1
    <2> QED BY <2>1, <2>2, <2>3
  <1>4. P = Nat
    <2>1. P \in SUBSET Nat /\ \A m \in P : m + 1 \in P
      BY <1>3
    <2> HIDE DEF P
    <2> QED BY <1>2, <2>1, NumberInduction
  <1>5. PICK m \in Nat : k + m = n
    <2>1. n - k \in Nat /\ k + (n - k) = n
      OBVIOUS
    <2> QED BY <2>1
  <1>6. Acquired(t[k]) \subseteq Acquired(t[k + m])
    <2>1. m \in P
      <3> HIDE DEF P
      <3> QED BY <1>4
    <2> QED BY <1>5, <2>1
  <1> QED BY <1>5, <1>6

\* Two trails that end, on incidents that agree on what the first one bought,
\* are one.
LEMMA TrailsAgree ==
  ASSUME NEW s, NEW i \in DOMAIN Incidents, NEW j \in DOMAIN Incidents, NEW t, NEW u,
         NEW n \in Nat \ {0}, NEW m \in Nat \ {0}, Trail(s, i, t, n), Trail(s, j, u, m),
         Terminated(t[n]), Terminated(u[m]),
         \A a \in Acquired(t[n]) : Incidents[i].symbols[a] = Incidents[j].symbols[a]
  PROVE  t[n] = u[m]
  <1> DEFINE P == {k \in Nat : k + 1 <= n => k + 1 <= m /\ t[k + 1] = u[k + 1]}
  <1>1. t[1] = u[1]
    BY DEF Trail
  <1>2. 0 \in P
    BY <1>1
  <1>3. \A k \in 1 .. n - 1 : ~ Terminated(t[k])
    BY TrailKeeps
  <1>4. \A k \in 1 .. m - 1 : ~ Terminated(u[k])
    BY TrailKeeps
  <1>5. ASSUME NEW k \in 1 .. n - 1, k <= m, t[k] = u[k]
        PROVE  k + 1 <= m /\ t[k + 1] = u[k + 1]
    <2>1. k # m
      BY <1>3, <1>5
    <2>2. k \in 1 .. m - 1
      BY <1>5, <2>1
    <2> DEFINE env == t[k]
               a == Choice(s, env)
               p == PacketsOf(s, i)
               q == PacketsOf(s, j)
    <2>3. t[k + 1] = Step(s.model, env, p, a)
      BY DEF Trail
    <2>4. u[k + 1] = Step(s.model, env, q, a)
      BY <1>5, <2>2 DEF Trail
    <2>5. Terminal(a) \/ p[a] = q[a]
      <3> SUFFICES ASSUME ~ Terminal(a)
                   PROVE  p[a] = q[a]
        OBVIOUS
      <3>1. a \in Acquired(t[k + 1])
        BY TrailKeeps
      <3>2. k + 1 \in 1 .. n
        OBVIOUS
      <3>3. Acquired(t[k + 1]) \subseteq Acquired(t[n])
        BY <3>2, TrailGrows
      <3>4. Incidents[i].symbols[a] = Incidents[j].symbols[a]
        BY <3>1, <3>3
      <3>5. DOMAIN Incidents[i].symbols = Tools /\ DOMAIN Incidents[j].symbols = Tools
        BY CatalogueAssumption
      <3>6. a \in Tools
        <4>1. Accepts(env, a)
          BY DEF Trail
        <4>2. EnvOk(SpecsOf(s), env)
          <5>1. k \in 1 .. n
            OBVIOUS
          <5> QED BY <5>1, TrailKeeps
        <4>3. Catalogue(SpecsOf(s))
          BY ChallengedCatalogue DEF SpecsOf
        <4> HIDE DEF a, env
        <4> QED BY <4>1, <4>2, <4>3, AcceptedActions
      <3> HIDE DEF a
      <3> QED BY <3>4, <3>5, <3>6 DEF PacketsOf, ChallengePackets
    <2> HIDE DEF env, a, p, q
    <2>6. Step(s.model, env, p, a) = Step(s.model, env, q, a)
      BY <2>5 DEF Step
    <2> QED BY <2>2, <2>3, <2>4, <2>6
  <1>6. ASSUME NEW k \in Nat, k \in P
        PROVE  k + 1 \in P
    <2> SUFFICES ASSUME k + 1 + 1 <= n
                 PROVE  k + 1 + 1 <= m /\ t[k + 1 + 1] = u[k + 1 + 1]
      OBVIOUS
    <2>1. PICK l \in 1 .. n - 1 : l = k + 1
      OBVIOUS
    <2>2. l <= m /\ t[l] = u[l]
      BY <1>6, <2>1
    <2> QED BY <1>5, <2>1, <2>2
  <1>7. P = Nat
    <2>1. P \in SUBSET Nat /\ \A k \in P : k + 1 \in P
      BY <1>6
    <2> HIDE DEF P
    <2> QED BY <1>2, <2>1, NumberInduction
  <1>8. n <= m /\ t[n] = u[n]
    <2>1. PICK k \in Nat : k + 1 = n
      <3>1. n - 1 \in Nat /\ n - 1 + 1 = n
        OBVIOUS
      <3> QED BY <3>1
    <2>2. k \in P
      <3> HIDE DEF P
      <3> QED BY <1>7
    <2> QED BY <2>1, <2>2
  <1>9. n = m
    BY <1>4, <1>8
  <1> QED BY <1>8, <1>9

-----------------------------------------------------------------------------
(* A session of play.                                                        *)

PlayFields == {"task", "model", "def", "scenario", "env", "incident", "todo", "outcomes"}

(* The scene s leads to env on incident i: a method that draws no lots came by *)
(* its own trail.                                                              *)
Reached(s, i, env) ==
  /\ i \in DOMAIN Incidents /\ EnvOk(SpecsOf(s), env)
  /\ s.def.kind \notin Lots =>
       \E n \in Nat \ {0} : \E t : Trail(s, i, t, n) /\ t[n] = env

Scored(s, o) == \E i, env : Reached(s, i, env) /\ Terminated(env) /\ o = ScoreOutcome(i, env)

PlayInv ==
  mode = "play" =>
    /\ DOMAIN scene = PlayFields /\ scene.def.kind \in PolicyKinds
    /\ scene.todo \in Seq(DOMAIN Incidents)
    /\ scene.env = NoEnv \/ Reached(scene, scene.incident, scene.env)
    /\ scene.outcomes \in Seq(Range(scene.outcomes))
    /\ \A o \in Range(scene.outcomes) : Scored(scene, o)

\* What was reached and scored depends on the setting of a scene alone.
LEMMA SameSetting ==
  ASSUME NEW s, NEW r, s.task = r.task, s.model = r.model, s.def = r.def, s.scenario = r.scenario
  PROVE  /\ \A i, env : Reached(s, i, env) => Reached(r, i, env)
         /\ \A o : Scored(s, o) => Scored(r, o)
  <1>1. SpecsOf(s) = SpecsOf(r) /\ \A i : PacketsOf(s, i) = PacketsOf(r, i)
    BY DEF SpecsOf, PacketsOf
  <1>2. \A env : Choice(s, env) = Choice(r, env)
    BY DEF Choice
  <1>3. \A i, t, n : Trail(s, i, t, n) => Trail(r, i, t, n)
    BY <1>1, <1>2 DEF Trail
  <1>4. \A i, env : Reached(s, i, env) => Reached(r, i, env)
    BY <1>1, <1>3 DEF Reached
  <1> QED BY <1>4 DEF Scored

\* A session starts with nothing played.
LEMMA PlayStarts == Init => PlayInv
  <1> SUFFICES ASSUME Init, mode = "play"
               PROVE  PlayInv
    BY DEF PlayInv
  <1>1. PICK p \in Plays : scene = PlayScene(p[1], p[2][1], p[2][2], p[3])
    BY DEF Init
  <1>2. DOMAIN scene = PlayFields /\ scene.def = p[2][2] /\ scene.env = NoEnv /\ scene.outcomes = << >>
        /\ scene.todo = Split(p[1], p[2][1])
    BY <1>1 DEF PlayScene, PlayFields
  <1>3. scene.def.kind \in PolicyKinds
    BY <1>2, ExperimentAssumption
  <1>4. Numbers \in Seq(DOMAIN Incidents)
    <2>1. Len(Incidents) \in Nat /\ DOMAIN Incidents = 1 .. Len(Incidents)
      BY CatalogueAssumption
    <2> QED BY <2>1 DEF Numbers
  <1>5. scene.todo \in Seq(DOMAIN Incidents)
    BY <1>2, <1>4, OnlyKeeps DEF Split
  <1>6. scene.outcomes \in Seq(Range(scene.outcomes)) /\ Range(scene.outcomes) = {}
    BY <1>2 DEF Range
  <1> QED BY <1>2, <1>3, <1>5, <1>6 DEF PlayInv

\* An incident begins with its environment reset.
LEMMA BeginKeeps ==
  ASSUME PlayInv, BeginIncident
  PROVE  PlayInv'
  <1>1. /\ mode = "play" /\ mode' = "play" /\ DOMAIN scene = PlayFields /\ scene.def.kind \in PolicyKinds
        /\ scene.todo \in Seq(DOMAIN Incidents) /\ scene.todo # << >>
        /\ scene' = [scene EXCEPT !.incident = Head(scene.todo), !.todo = Tail(@),
                                  !.env = Reset(SceneSpecs)]
    BY DEF PlayInv, BeginIncident
  <1>2. /\ scene'.task = scene.task /\ scene'.model = scene.model /\ scene'.def = scene.def
        /\ scene'.scenario = scene.scenario /\ scene'.outcomes = scene.outcomes
        /\ scene'.todo = Tail(scene.todo) /\ scene'.incident = Head(scene.todo)
        /\ scene'.env = Reset(SceneSpecs) /\ DOMAIN scene' = PlayFields
    BY <1>1 DEF PlayFields
  <1>3. Head(scene.todo) \in DOMAIN Incidents /\ Tail(scene.todo) \in Seq(DOMAIN Incidents)
    <2> DEFINE T == DOMAIN Incidents
               todo == scene.todo
    <2>1. todo \in Seq(T) /\ todo # << >>
      BY <1>1
    <2> HIDE DEF T, todo
    <2>2. Head(todo) \in T /\ Tail(todo) \in Seq(T)
      BY <2>1
    <2> QED BY <2>2 DEF T, todo
  <1>4. Reached(scene', scene'.incident, scene'.env)
    <2> DEFINE env == Reset(SpecsOf(scene'))
    <2>1. scene'.env = env
      BY <1>2 DEF SceneSpecs, SpecsOf
    <2>2. EnvOk(SpecsOf(scene'), env)
      BY ResetIsEmpty
    <2>3. Trail(scene', scene'.incident, [k \in {1} |-> env], 1)
      BY DEF Trail
    <2> HIDE DEF env
    <2>4. [k \in {1} |-> env][1] = env
      OBVIOUS
    <2> QED BY <1>2, <1>3, <2>1, <2>2, <2>3, <2>4 DEF Reached
  <1>5. \A o \in Range(scene'.outcomes) : Scored(scene', o)
    <2>1. \A o \in Range(scene.outcomes) : Scored(scene, o)
      BY <1>1 DEF PlayInv
    <2>2. \A o : Scored(scene, o) => Scored(scene', o)
      BY <1>2, SameSetting
    <2> QED BY <1>2, <2>1, <2>2
  <1>6. scene'.outcomes \in Seq(Range(scene'.outcomes))
    BY <1>1, <1>2 DEF PlayInv
  <1> QED BY <1>1, <1>2, <1>3, <1>4, <1>5, <1>6 DEF PlayInv

\* One action more is one step more on the trail.
LEMMA InvestigateKeeps ==
  ASSUME PlayInv, Investigate
  PROVE  PlayInv'
  <1>1. /\ mode = "play" /\ mode' = "play" /\ DOMAIN scene = PlayFields /\ scene.def.kind \in PolicyKinds
        /\ scene.env.decision = NoDecision
    BY DEF PlayInv, Investigate
  <1>2. PICK a \in Proposed :
          Accepts(scene.env, a) /\ scene' = [scene EXCEPT !.env = Step(scene.model, @, ScenePackets, a)]
    BY DEF Investigate
  <1> DEFINE next == Step(scene.model, scene.env, PacketsOf(scene, scene.incident), a)
  <1>3. /\ scene'.task = scene.task /\ scene'.model = scene.model /\ scene'.def = scene.def
        /\ scene'.scenario = scene.scenario /\ scene'.outcomes = scene.outcomes
        /\ scene'.todo = scene.todo /\ scene'.incident = scene.incident
        /\ scene'.env = next /\ DOMAIN scene' = PlayFields
    BY <1>1, <1>2 DEF PlayFields, ScenePackets, PacketsOf
  <1>4. scene.env # NoEnv
    BY <1>1 DEF NoEnv, NoDecision
  <1>5. Reached(scene, scene.incident, scene.env)
    BY <1>1, <1>4 DEF PlayInv
  <1>6. EnvOk(SpecsOf(scene), next)
    <2>1. Catalogue(SpecsOf(scene))
      BY ChallengedCatalogue DEF SpecsOf
    <2>2. EnvOk(SpecsOf(scene), scene.env)
      BY <1>5 DEF Reached
    <2> QED BY <1>2, <2>1, <2>2, StepKeeps
  <1>7. Reached(scene, scene.incident, next)
    <2>1. SUFFICES ASSUME scene.def.kind \notin Lots
                   PROVE  \E n \in Nat \ {0} : \E t : Trail(scene, scene.incident, t, n) /\ t[n] = next
      BY <1>5, <1>6 DEF Reached
    <2>0. PICK n \in Nat \ {0} : \E t : Trail(scene, scene.incident, t, n) /\ t[n] = scene.env
      BY <1>5, <2>1 DEF Reached
    <2>2. PICK t : Trail(scene, scene.incident, t, n) /\ t[n] = scene.env
      BY <2>0
    <2>3. a = Choice(scene, scene.env)
      <3> DEFINE def == scene.def
                 model == scene.model
                 task == scene.task
                 env == scene.env
      <3>1. def.kind \in PolicyKinds \ Lots
        BY <1>1, <2>1
      <3> HIDE DEF def, model, task, env
      <3>2. \E c : PolicyChoices(model, task, env, def) = {c}
        BY <3>1, OneChoice
      <3> QED BY <1>2, <3>2 DEF Proposed, Choice, def, model, task, env
    <2> DEFINE u == [k \in 1 .. n + 1 |-> IF k = n + 1 THEN next ELSE t[k]]
               act(k) == Choice(scene, u[k])
    <2>4. u[1] = t[1] /\ u[n] = scene.env /\ u[n + 1] = next
      BY <2>2
    <2>5. \A k \in 1 .. n - 1 : u[k] = t[k] /\ u[k + 1] = t[k + 1]
      OBVIOUS
    <2>6. ASSUME NEW k \in 1 .. n
          PROVE  /\ Accepts(u[k], Choice(scene, u[k]))
                 /\ u[k + 1] = Step(scene.model, u[k], PacketsOf(scene, scene.incident), Choice(scene, u[k]))
      <3>1. CASE k = n
        <4> HIDE DEF u
        <4>1. k + 1 = n + 1
          BY <3>1
        <4> QED BY <1>2, <2>3, <2>4, <3>1, <4>1
      <3>2. CASE k \in 1 .. n - 1
        <4>1. u[k] = t[k] /\ u[k + 1] = t[k + 1]
          BY <2>5, <3>2
        <4> HIDE DEF u
        <4>2. /\ Accepts(t[k], Choice(scene, t[k]))
              /\ t[k + 1] = Step(scene.model, t[k], PacketsOf(scene, scene.incident), Choice(scene, t[k]))
          BY <2>2, <3>2 DEF Trail
        <4> QED BY <4>1, <4>2
      <3> QED BY <3>1, <3>2
    <2>7. u[1] = Reset(SpecsOf(scene))
      BY <2>2, <2>4 DEF Trail
    <2>8. n + 1 \in Nat \ {0} /\ n + 1 - 1 = n
      OBVIOUS
    <2> HIDE DEF u, next
    <2>9. Trail(scene, scene.incident, u, n + 1)
      BY <2>6, <2>7, <2>8 DEF Trail
    <2> QED BY <2>4, <2>8, <2>9
  <1> HIDE DEF next
  <1>8. Reached(scene', scene'.incident, scene'.env)
    BY <1>3, <1>7, SameSetting
  <1>9. \A o \in Range(scene'.outcomes) : Scored(scene', o)
    <2>1. \A o \in Range(scene.outcomes) : Scored(scene, o)
      BY <1>1 DEF PlayInv
    <2>2. \A o : Scored(scene, o) => Scored(scene', o)
      BY <1>3, SameSetting
    <2> QED BY <1>3, <2>1, <2>2
  <1> QED BY <1>1, <1>3, <1>8, <1>9 DEF PlayInv

\* An investigation is scored when it has ended.
LEMMA ScoreKeeps ==
  ASSUME PlayInv, ScoreIncident
  PROVE  PlayInv'
  <1> DEFINE o == ScoreOutcome(scene.incident, scene.env)
  <1>1. /\ mode = "play" /\ mode' = "play" /\ DOMAIN scene = PlayFields /\ scene.def.kind \in PolicyKinds
        /\ scene.env.decision.kind \in {"DEFER", "DIAGNOSE"}
        /\ scene' = [scene EXCEPT !.env = NoEnv, !.incident = Nothing, !.outcomes = Append(@, o)]
    BY DEF PlayInv, ScoreIncident
  <1> HIDE DEF o
  <1>2. /\ scene'.task = scene.task /\ scene'.model = scene.model /\ scene'.def = scene.def
        /\ scene'.scenario = scene.scenario /\ scene'.outcomes = Append(scene.outcomes, o)
        /\ scene'.todo = scene.todo /\ scene'.env = NoEnv /\ DOMAIN scene' = PlayFields
    BY <1>1 DEF PlayFields
  <1>3. scene.env # NoEnv /\ Terminated(scene.env)
    BY <1>1 DEF NoEnv, Terminated
  <1>4. Scored(scene, o)
    BY <1>1, <1>3 DEF PlayInv, Scored, o
  <1>5. /\ Range(scene'.outcomes) = Range(scene.outcomes) \union {o}
        /\ scene'.outcomes \in Seq(Range(scene'.outcomes))
    <2>1. scene.outcomes \in Seq(Range(scene.outcomes))
      BY <1>1 DEF PlayInv
    <2>2. Range(scene'.outcomes) = Range(scene.outcomes) \union {o}
      BY <1>2, <2>1, RangeOfAppend
    <2>3. scene'.outcomes \in Seq(Range(scene.outcomes) \union {o})
      BY <1>2, <2>1
    <2> QED BY <2>2, <2>3
  <1>6. \A q \in Range(scene'.outcomes) : Scored(scene', q)
    <2>1. \A q \in Range(scene.outcomes) : Scored(scene, q)
      BY <1>1 DEF PlayInv
    <2>2. \A q : Scored(scene, q) => Scored(scene', q)
      BY <1>2, SameSetting
    <2> QED BY <1>4, <1>5, <2>1, <2>2
  <1>7. scene'.todo \in Seq(DOMAIN Incidents)
    BY <1>1, <1>2 DEF PlayInv
  <1> QED BY <1>1, <1>2, <1>5, <1>6, <1>7 DEF PlayInv

\* Every step keeps what a session of play relies on.
LEMMA PlayKeeps ==
  ASSUME PlayInv, [Next]_vars
  PROVE  PlayInv'
  <1>1. CASE BeginIncident
    BY <1>1, BeginKeeps
  <1>2. CASE Investigate
    BY <1>2, InvestigateKeeps
  <1>3. CASE ScoreIncident
    BY <1>3, ScoreKeeps
  <1>4. CASE ~ (BeginIncident \/ Investigate \/ ScoreIncident)
    <2>1. mode' = mode /\ (mode = "play" => scene' = scene)
      BY <1>4, ModesAreKept
    <2> QED BY <2>1 DEF PlayInv
  <1> QED BY <1>1, <1>2, <1>3, <1>4

\* In a scene in order, what two outcomes agree on decides both of them.
LEMMA ScoredAgree ==
  ASSUME NEW s, s.def.kind \notin Lots, NEW o, NEW p, Scored(s, o), Scored(s, p), Agree(o, p)
  PROVE  o.decision = p.decision
  <1>1. PICK i, env : Reached(s, i, env) /\ Terminated(env) /\ o = ScoreOutcome(i, env)
    BY DEF Scored
  <1>2. PICK j, other : Reached(s, j, other) /\ Terminated(other) /\ p = ScoreOutcome(j, other)
    BY DEF Scored
  <1>3. PICK n \in Nat \ {0} : \E t : Trail(s, i, t, n) /\ t[n] = env
    BY <1>1 DEF Reached
  <1>4. PICK t : Trail(s, i, t, n) /\ t[n] = env
    BY <1>3
  <1>5. PICK m \in Nat \ {0} : \E u : Trail(s, j, u, m) /\ u[m] = other
    BY <1>2 DEF Reached
  <1>6. PICK u : Trail(s, j, u, m) /\ u[m] = other
    BY <1>5
  <1>7. o.incident = i /\ o.decision = env.decision /\ p.incident = j /\ p.decision = other.decision
    BY <1>1, <1>2 DEF ScoreOutcome
  <1>8. \A a \in Acquired(env) : Incidents[i].symbols[a] = Incidents[j].symbols[a]
    <2>1. env.decision.evidence = [k \in DOMAIN env.ledger |-> env.ledger[k].action]
      BY <1>1 DEF Reached, EnvOk, Decision, Terminated, NoDecision
    <2> SUFFICES ASSUME NEW k \in DOMAIN env.ledger
                 PROVE  Incidents[i].symbols[env.ledger[k].action] = Incidents[j].symbols[env.ledger[k].action]
      BY DEF Acquired, Range
    <2> QED BY <1>7, <2>1 DEF Agree
  <1>9. i \in DOMAIN Incidents /\ j \in DOMAIN Incidents
    BY <1>1, <1>2 DEF Reached
  <1>10. t[n] = u[m]
    BY <1>1, <1>2, <1>4, <1>6, <1>8, <1>9, TrailsAgree
  <1> QED BY <1>4, <1>6, <1>7, <1>10

\* What a session of play relies on makes its investigations sound.
LEMMA PlayIsSound == PlayInv => InvestigationIsSound
  <1> SUFFICES ASSUME PlayInv, mode = "play"
               PROVE  InvestigationIsSound
    BY DEF InvestigationIsSound, Playing
  <1>1. ASSUME Playing({"none", "DEFER", "DIAGNOSE"})
        PROVE  Cardinality(Acquired(scene.env)) = Len(scene.env.ledger) /\ scene.env.spent <= BUDGET
    <2>1. scene.env # NoEnv
      BY <1>1 DEF Playing, NoEnv
    <2> QED BY <2>1 DEF PlayInv, Reached, EnvOk, Ledger
  <1>2. ASSUME scene.def.kind \notin Lots, NEW o \in Range(scene.outcomes), NEW p \in Range(scene.outcomes),
               Agree(o, p)
        PROVE  o.decision = p.decision
    <2>1. Scored(scene, o) /\ Scored(scene, p)
      BY DEF PlayInv
    <2> QED BY <1>2, <2>1, ScoredAgree
  <1> QED BY <1>1, <1>2 DEF InvestigationIsSound

\* Investigation: a ledger holds no action twice and never more than the budget,
\* and a method that draws no lots decides alike on any two incidents that agree
\* on what it bought.
THEOREM InvestigationsAreSound == Spec => []InvestigationIsSound
  <1>1. Init => PlayInv
    BY PlayStarts
  <1>2. PlayInv /\ [Next]_vars => PlayInv'
    BY PlayKeeps
  <1>3. PlayInv => InvestigationIsSound
    BY PlayIsSound
  <1> QED BY <1>1, <1>2, <1>3, PTL DEF Spec

-----------------------------------------------------------------------------
(* Totals: what is added up does not depend on the order it is added in.     *)

First(T) == CHOOSE x \in T : TRUE

Adding(D, f, total) ==
  /\ total \in [SUBSET D -> Int]
  /\ \A T \in SUBSET D : total[T] = IF T = {} THEN 0 ELSE f[First(T)] + total[T \ {First(T)}]

\* A total is where a recursion over the subsets of its places ends.
LEMMA TotalAdds ==
  ASSUME NEW D, IsFiniteSet(D), NEW f \in [D -> Int]
  PROVE  \E total : Adding(D, f, total) /\ Total(f) = total[D]
  <1> DEFINE c == [T \in SUBSET D |-> First(T)]
             g == [p \in Int \X D |-> f[p[2]] + p[1]]
             Value(t, T) == IF T = {} THEN 0 ELSE f[First(T)] + t[T \ {First(T)}]
             Good(t) == t = [T \in SUBSET D |-> Value(t, T)]
             total == CHOOSE t : Good(t)
  <1>1. \A T \in SUBSET D : T # {} => First(T) \in T
    BY DEF First
  <1>2. \E t \in [SUBSET D -> Int] : Iterates(D, c, g, 0, t)
    <2>1. \A T \in SUBSET D : T # {} => c[T] \in T
      BY <1>1
    <2>2. g \in [Int \X D -> Int]
      OBVIOUS
    <2>3. 0 \in Int
      OBVIOUS
    <2> HIDE DEF c, g
    <2> QED BY <2>1, <2>2, <2>3, IterationExists
  <1>3. PICK t \in [SUBSET D -> Int] : Iterates(D, c, g, 0, t)
    BY <1>2
  <1>4. ASSUME NEW T \in SUBSET D
        PROVE  t[T] = Value(t, T)
    <2>1. t[T] = IF T = {} THEN 0 ELSE g[<< t[T \ {c[T]}], c[T] >>]
      <3> HIDE DEF c, g
      <3> QED BY <1>3 DEF Iterates
    <2>2. CASE T = {}
      BY <2>1, <2>2
    <2>3. CASE T # {}
      <3>1. c[T] = First(T) /\ First(T) \in D /\ T \ {First(T)} \in SUBSET D
        BY <1>1, <2>3
      <3>2. t[T \ {First(T)}] \in Int
        BY <1>3, <3>1
      <3> HIDE DEF c
      <3> QED BY <2>1, <2>3, <3>1, <3>2
    <2> QED BY <2>2, <2>3
  <1>5. Good(t)
    <2> HIDE DEF Value
    <2> QED BY <1>3, <1>4
  <1>6. Good(total)
    <2> HIDE DEF Good
    <2> QED BY <1>5
  <1>7. \A T \in SUBSET D : total[T] = t[T]
    <2> HIDE DEF total, First
    <2> DEFINE F == {T \in SUBSET D : total[T] = t[T]}
               P == {n \in Nat : \A T \in SUBSET D : Cardinality(T) = n => T \in F}
    <2>1. \A T \in SUBSET D : IsFiniteSet(T) /\ Cardinality(T) \in Nat
      BY FS_Subset, FS_CardinalityType
    <2>2. \A T \in SUBSET D : total[T] = Value(total, T)
      BY <1>6
    <2>3. 0 \in P
      <3>1. \A T \in SUBSET D : Cardinality(T) = 0 => T = {}
        BY <2>1, FS_EmptySet
      <3>2. {} \in F
        BY <1>4, <2>2
      <3> HIDE DEF F
      <3> QED BY <3>1, <3>2
    <2>4. ASSUME NEW n \in Nat, n \in P
          PROVE  n + 1 \in P
      <3> SUFFICES ASSUME NEW T \in SUBSET D, Cardinality(T) = n + 1
                   PROVE  T \in F
        OBVIOUS
      <3> DEFINE U == T \ {First(T)}
      <3>1. T # {}
        <4>1. Cardinality(T) # 0
          OBVIOUS
        <4> HIDE DEF P, F
        <4> QED BY <4>1, FS_EmptySet
      <3>2. First(T) \in T /\ U \in SUBSET D
        BY <1>1, <3>1
      <3>3. Cardinality(U) = n
        BY <2>1, <3>2, FS_RemoveElement
      <3>4. total[U] = t[U]
        BY <2>4, <3>2, <3>3
      <3> QED BY <1>4, <2>2, <3>1, <3>4
    <2>5. P = Nat
      <3>1. P \in SUBSET Nat /\ \A n \in P : n + 1 \in P
        BY <2>4
      <3> HIDE DEF P
      <3> QED BY <2>3, <3>1, NumberInduction
    <2> QED BY <2>1, <2>5
  <1>8. Total(f) = total[D]
    BY DEF Total, First
  <1>9. Adding(D, f, t)
    BY <1>3, <1>4 DEF Adding
  <1> QED BY <1>7, <1>8, <1>9

\* Any element of a set may be the one that is added last.
LEMMA AddingUnordered ==
  ASSUME NEW D, IsFiniteSet(D), NEW f \in [D -> Int], NEW total, Adding(D, f, total),
         NEW T \in SUBSET D, NEW x \in T
  PROVE  total[T] = f[x] + total[T \ {x}]
  <1> DEFINE AnyLast(U) == \A y \in U : total[U] = f[y] + total[U \ {y}]
             P == {n \in Nat : \A U \in SUBSET D : Cardinality(U) = n => AnyLast(U)}
  <1>1. \A U \in SUBSET D : IsFiniteSet(U) /\ Cardinality(U) \in Nat
    BY FS_Subset, FS_CardinalityType
  <1>2. \A U \in SUBSET D : U # {} => First(U) \in U /\ total[U] = f[First(U)] + total[U \ {First(U)}]
    BY DEF First, Adding
  <1>3. \A U \in SUBSET D : total[U] \in Int
    BY DEF Adding
  <1>4. 0 \in P
    <2>1. \A U \in SUBSET D : Cardinality(U) = 0 => U = {}
      BY <1>1, FS_EmptySet
    <2> QED BY <2>1
  <1>5. ASSUME NEW n \in Nat, n \in P
        PROVE  n + 1 \in P
    <2> SUFFICES ASSUME NEW U \in SUBSET D, Cardinality(U) = n + 1, NEW y \in U
                 PROVE  total[U] = f[y] + total[U \ {y}]
      OBVIOUS
    <2> DEFINE p == First(U)
               V == U \ {p}
               W == U \ {y}
    <2>1. p \in U /\ total[U] = f[p] + total[V]
      BY <1>2
    <2> HIDE DEF p
    <2>2. CASE y = p
      BY <2>1, <2>2
    <2>3. CASE y # p
      <3>1. y \in V /\ p \in W /\ V \in SUBSET D /\ W \in SUBSET D /\ V \ {y} = W \ {p}
        BY <2>1, <2>3
      <3>2. Cardinality(V) = n /\ Cardinality(W) = n
        <4>1. IsFiniteSet(U) /\ p \in U /\ y \in U
          BY <1>1, <2>1
        <4>2. Cardinality(V) = Cardinality(U) - 1 /\ Cardinality(W) = Cardinality(U) - 1
          <5> HIDE DEF P, AnyLast
          <5> QED BY <4>1, FS_RemoveElement
        <4> QED BY <4>2
      <3>3. AnyLast(V) /\ AnyLast(W)
        BY <1>5, <3>1, <3>2
      <3> DEFINE rest == total[V \ {y}]
      <3>4. rest \in Int /\ f[p] \in Int /\ f[y] \in Int
        BY <1>3, <2>1, <3>1
      <3>5. total[V] = f[y] + rest
        BY <3>1, <3>3
      <3>6. total[W] = f[p] + rest
        BY <3>1, <3>3
      <3> HIDE DEF rest, V, W
      <3>7. total[U] = f[y] + total[W]
        BY <2>1, <3>4, <3>5, <3>6
      <3> QED BY <3>7 DEF W
    <2> QED BY <2>2, <2>3
  <1>6. P = Nat
    <2>1. P \in SUBSET Nat /\ \A n \in P : n + 1 \in P
      BY <1>5
    <2> HIDE DEF P
    <2> QED BY <1>4, <2>1, NumberInduction
  <1> QED BY <1>1, <1>6

(* What f adds up to over T.                                                   *)
Part(f, T) == Total([x \in T |-> f[x]])

\* Nothing adds up to nothing, and one more place adds its value.
LEMMA TotalGrows ==
  ASSUME NEW D, IsFiniteSet(D), NEW f \in [D -> Int], NEW E \in SUBSET D
  PROVE  /\ Part(f, {}) = 0 /\ Part(f, E) \in Int
         /\ \A x \in E : Part(f, E) = f[x] + Part(f, E \ {x})
  <1>1. PICK total : Adding(D, f, total)
    BY TotalAdds
  <1>2. ASSUME NEW T \in SUBSET D
        PROVE  Part(f, T) = total[T]
    <2> DEFINE g == [x \in T |-> f[x]]
    <2>1. g \in [T -> Int] /\ IsFiniteSet(T)
      BY FS_Subset
    <2> HIDE DEF g
    <2>2. PICK other : Adding(T, g, other) /\ Total(g) = other[T]
      BY <2>1, TotalAdds
    <2> DEFINE F == {U \in SUBSET T : total[U] = other[U]}
    <2>3. {} \in F
      BY <1>1, <2>2 DEF Adding
    <2>4. ASSUME NEW U \in F, NEW x \in T
          PROVE  U \cup {x} \in F
      <3>1. CASE x \in U
        <4>1. U \cup {x} = U
          BY <3>1
        <4> QED BY <4>1
      <3>2. CASE x \notin U
        <4> DEFINE V == U \cup {x}
        <4>1. V \in SUBSET T /\ V \in SUBSET D /\ x \in V /\ V \ {x} = U
          BY <3>2
        <4> HIDE DEF V
        <4>2. total[V] = f[x] + total[U]
          BY <1>1, <4>1, AddingUnordered
        <4>3. other[V] = g[x] + other[U]
          BY <2>1, <2>2, <4>1, AddingUnordered
        <4>4. g[x] = f[x]
          BY DEF g
        <4>5. V \in F
          BY <4>1, <4>2, <4>3, <4>4
        <4> QED BY <4>5 DEF V
      <3> QED BY <3>1, <3>2
    <2>5. T \in F
      <3>1. F \in SUBSET SUBSET T
        OBVIOUS
      <3> HIDE DEF F
      <3> QED BY <2>1, <2>3, <2>4, <3>1, FiniteSetInduction
    <2> QED BY <2>2, <2>5 DEF g, Part
  <1>3. total[{}] = 0 /\ total[E] \in Int
    BY <1>1 DEF Adding
  <1>4. ASSUME NEW x \in E
        PROVE  total[E] = f[x] + total[E \ {x}]
    BY <1>1, AddingUnordered
  <1>5. {} \in SUBSET D /\ \A x \in E : E \ {x} \in SUBSET D
    OBVIOUS
  <1>6. Part(f, {}) = total[{}]
    BY <1>2, <1>5
  <1> QED BY <1>2, <1>3, <1>4, <1>5, <1>6

\* One place more adds its value.
LEMMA TotalInserts ==
  ASSUME NEW D, IsFiniteSet(D), NEW f \in [D -> Int], NEW T \in SUBSET D, NEW x \in D \ T
  PROVE  /\ Part(f, T) \in Int
         /\ Part(f, T \cup {x}) = f[x] + Part(f, T)
  <1> DEFINE E == T \cup {x}
  <1>1. E \in SUBSET D /\ x \in E /\ E \ {x} = T
    OBVIOUS
  <1> HIDE DEF E
  <1>2. Part(f, E) = f[x] + Part(f, E \ {x})
    BY <1>1, TotalGrows
  <1>3. Part(f, T) \in Int
    BY TotalGrows
  <1> QED BY <1>1, <1>2, <1>3 DEF E

\* The total of sums.
LEMMA TotalOfSums ==
  ASSUME NEW D, IsFiniteSet(D), NEW f \in [D -> Int], NEW g \in [D -> Int]
  PROVE  Total([x \in D |-> f[x] + g[x]]) = Total(f) + Total(g)
  <1> DEFINE h == [x \in D |-> f[x] + g[x]]
             F == {T \in SUBSET D : Part(h, T) = Part(f, T) + Part(g, T)}
  <1>1. h \in [D -> Int] /\ \A x \in D : h[x] = f[x] + g[x] /\ h[x] \in Int /\ f[x] \in Int /\ g[x] \in Int
    OBVIOUS
  <1> HIDE DEF h
  <1>2. {} \in F
    <2>1. Part(h, {}) = 0 /\ Part(f, {}) = 0 /\ Part(g, {}) = 0
      BY <1>1, TotalGrows
    <2> QED BY <2>1
  <1>3. ASSUME NEW T \in F, NEW x \in D
        PROVE  T \cup {x} \in F
    <2>1. CASE x \in T
      <3>1. T \cup {x} = T
        BY <2>1
      <3> QED BY <3>1
    <2>2. CASE x \notin T
      <3>1. x \in D \ T /\ T \in SUBSET D
        BY <2>2
      <3>2. Part(f, T) \in Int /\ Part(f, T \cup {x}) = f[x] + Part(f, T)
        <4> HIDE DEF F
        <4> QED BY <3>1, TotalInserts, f \in [D -> Int]
      <3>3. Part(g, T) \in Int /\ Part(g, T \cup {x}) = g[x] + Part(g, T)
        <4> HIDE DEF F
        <4> QED BY <3>1, TotalInserts
      <3>4. Part(h, T \cup {x}) = h[x] + Part(h, T)
        BY <1>1, <3>1, TotalInserts
      <3>5. Part(h, T) = Part(f, T) + Part(g, T)
        OBVIOUS
      <3>6. Part(h, T \cup {x}) = Part(f, T \cup {x}) + Part(g, T \cup {x})
        BY <1>1, <3>2, <3>3, <3>4, <3>5
      <3> QED BY <3>6
    <2> QED BY <2>1, <2>2
  <1>4. D \in F
    <2>1. F \in SUBSET SUBSET D
      OBVIOUS
    <2> HIDE DEF F
    <2> QED BY <1>2, <1>3, <2>1, FiniteSetInduction
  <1>5. [x \in D |-> f[x]] = f /\ [x \in D |-> g[x]] = g
    OBVIOUS
  <1>6. [x \in D |-> h[x]] = [x \in D |-> f[x] + g[x]]
    BY <1>1
  <1> QED BY <1>4, <1>5, <1>6 DEF Part

\* The total of what is multiplied alike.
LEMMA TotalOfProducts ==
  ASSUME NEW D, IsFiniteSet(D), NEW f \in [D -> Int], NEW c \in Int
  PROVE  Total([x \in D |-> c * f[x]]) = c * Total(f)
  <1> DEFINE h == [x \in D |-> c * f[x]]
             F == {T \in SUBSET D : Part(h, T) = c * Part(f, T)}
  <1>1. h \in [D -> Int] /\ \A x \in D : h[x] = c * f[x] /\ h[x] \in Int /\ f[x] \in Int
    OBVIOUS
  <1> HIDE DEF h
  <1>2. {} \in F
    <2>1. Part(h, {}) = 0 /\ Part(f, {}) = 0
      BY <1>1, TotalGrows
    <2> QED BY <2>1
  <1>3. ASSUME NEW T \in F, NEW x \in D
        PROVE  T \cup {x} \in F
    <2>1. CASE x \in T
      <3>1. T \cup {x} = T
        BY <2>1
      <3> QED BY <3>1
    <2>2. CASE x \notin T
      <3>1. x \in D \ T /\ T \in SUBSET D
        BY <2>2
      <3>2. Part(f, T) \in Int /\ Part(f, T \cup {x}) = f[x] + Part(f, T)
        BY <3>1, TotalInserts
      <3>3. Part(h, T \cup {x}) = h[x] + Part(h, T)
        BY <1>1, <3>1, TotalInserts
      <3>4. Part(h, T) = c * Part(f, T)
        OBVIOUS
      <3>5. c * (f[x] + Part(f, T)) = c * f[x] + c * Part(f, T)
        BY <1>1, <3>2
      <3>6. Part(h, T \cup {x}) = c * Part(f, T \cup {x})
        BY <1>1, <3>2, <3>3, <3>4, <3>5
      <3> QED BY <3>6
    <2> QED BY <2>1, <2>2
  <1>4. D \in F
    <2>1. F \in SUBSET SUBSET D
      OBVIOUS
    <2> HIDE DEF F
    <2> QED BY <1>2, <1>3, <2>1, FiniteSetInduction
  <1>5. [x \in D |-> f[x]] = f
    OBVIOUS
  <1>6. [x \in D |-> h[x]] = [x \in D |-> c * f[x]]
    BY <1>1
  <1> QED BY <1>4, <1>5, <1>6 DEF Part

\* A total of ones counts.
LEMMA TotalOfMarks ==
  ASSUME NEW D, IsFiniteSet(D), NEW S
  PROVE  Total([x \in D |-> IF x \in S THEN 1 ELSE 0]) = Cardinality({x \in D : x \in S})
  <1> DEFINE h == [x \in D |-> IF x \in S THEN 1 ELSE 0]
             Marked(T) == {x \in T : x \in S}
             F == {T \in SUBSET D : Part(h, T) = Cardinality(Marked(T))}
  <1>1. h \in [D -> Int] /\ \A x \in D : h[x] = IF x \in S THEN 1 ELSE 0
    OBVIOUS
  <1> HIDE DEF h
  <1>2. {} \in F
    <2>1. Part(h, {}) = 0
      BY <1>1, TotalGrows
    <2>2. Marked({}) = {}
      OBVIOUS
    <2> HIDE DEF Marked
    <2> QED BY <2>1, <2>2, FS_EmptySet
  <1>3. ASSUME NEW T \in F, NEW x \in D
        PROVE  T \cup {x} \in F
    <2>1. CASE x \in T
      <3>1. T \cup {x} = T
        BY <2>1
      <3> QED BY <3>1
    <2>2. CASE x \notin T
      <3>1. x \in D \ T /\ T \in SUBSET D
        BY <2>2
      <3>2. Part(h, T) \in Int /\ Part(h, T \cup {x}) = h[x] + Part(h, T)
        BY <1>1, <3>1, TotalInserts
      <3>3. IsFiniteSet(Marked(T))
        BY <3>1, FS_Subset
      <3>4. Part(h, T) = Cardinality(Marked(T))
        OBVIOUS
      <3>5. CASE x \in S
        <4>1. Marked(T \cup {x}) = Marked(T) \cup {x} /\ x \notin Marked(T)
          BY <2>2, <3>5
        <4> HIDE DEF Marked
        <4>2. Cardinality(Marked(T \cup {x})) = Cardinality(Marked(T)) + 1
          BY <3>3, <4>1, FS_AddElement
        <4> QED BY <1>1, <3>1, <3>2, <3>4, <3>5, <4>2
      <3>6. CASE x \notin S
        <4>1. Marked(T \cup {x}) = Marked(T)
          BY <3>6
        <4> HIDE DEF Marked
        <4> QED BY <1>1, <3>1, <3>2, <3>4, <3>6, <4>1
      <3> QED BY <3>5, <3>6
    <2> QED BY <2>1, <2>2
  <1>4. D \in F
    <2>1. F \in SUBSET SUBSET D
      OBVIOUS
    <2> HIDE DEF F
    <2> QED BY <1>2, <1>3, <2>1, FiniteSetInduction
  <1>5. [x \in D |-> h[x]] = [x \in D |-> IF x \in S THEN 1 ELSE 0]
    BY <1>1
  <1> QED BY <1>4, <1>5 DEF Part

\* What is added up group by group is added up.
LEMMA TotalOfGroups ==
  ASSUME NEW D, IsFiniteSet(D), NEW f \in [D -> Int], NEW K, IsFiniteSet(K), NEW k \in [D -> K]
  PROVE  Total(f) = Total([c \in K |-> Part(f, {y \in D : k[y] = c})])
  <1> DEFINE Fibre(T, c) == {y \in T : k[y] = c}
             groups(T) == [c \in K |-> Part(f, Fibre(T, c))]
             F == {T \in SUBSET D : Part(f, T) = Total(groups(T))}
  <1>1. ASSUME NEW T \in SUBSET D
        PROVE  /\ groups(T) \in [K -> Int]
               /\ \A c \in K : groups(T)[c] = Part(f, Fibre(T, c)) /\ groups(T)[c] \in Int
    <2>1. ASSUME NEW c \in K
          PROVE  Part(f, Fibre(T, c)) \in Int
      <3>1. Fibre(T, c) \in SUBSET D
        OBVIOUS
      <3> HIDE DEF Fibre
      <3> QED BY <3>1, TotalGrows
    <2> HIDE DEF Fibre
    <2> QED BY <2>1
  <1>2. {} \in F
    <2>1. Part(f, {}) = 0
      BY TotalGrows
    <2>2. \A c \in K : Fibre({}, c) = {}
      OBVIOUS
    <2> HIDE DEF Fibre
    <2>3. groups({}) = [c \in K |-> IF c \in {} THEN 1 ELSE 0]
      BY <2>1, <2>2
    <2>4. Total([c \in K |-> IF c \in {} THEN 1 ELSE 0]) = Cardinality({c \in K : c \in {}})
      BY TotalOfMarks
    <2>5. Cardinality({c \in K : c \in {}}) = 0
      <3>1. {c \in K : c \in {}} = {}
        OBVIOUS
      <3> QED BY <3>1, FS_EmptySet
    <2> HIDE DEF groups
    <2> QED BY <2>1, <2>3, <2>4, <2>5
  <1>3. ASSUME NEW T \in F, NEW x \in D
        PROVE  T \cup {x} \in F
    <2>1. CASE x \in T
      <3>1. T \cup {x} = T
        BY <2>1
      <3> QED BY <3>1
    <2>2. CASE x \notin T
      <3> DEFINE U == T \cup {x}
                 c == k[x]
                 old == groups(T)
                 new == groups(U)
      <3>1. x \in D \ T /\ T \in SUBSET D /\ U \in SUBSET D /\ c \in K
        BY <2>2
      <3>2. Part(f, T) \in Int /\ Part(f, U) = f[x] + Part(f, T)
        <4> HIDE DEF F, U, Fibre, groups, c, old, new
        <4>1. Part(f, T \cup {x}) = f[x] + Part(f, T) /\ Part(f, T) \in Int
          BY <3>1, TotalInserts
        <4> QED BY <4>1 DEF U
      <3>3. Fibre(U, c) = Fibre(T, c) \cup {x} /\ x \in D \ Fibre(T, c) /\ Fibre(T, c) \in SUBSET D
        BY <2>2
      <3>4. Part(f, Fibre(T, c) \cup {x}) = f[x] + Part(f, Fibre(T, c))
        <4> HIDE DEF Fibre
        <4> QED BY <3>3, TotalInserts
      <3>5. \A d \in K \ {c} : Fibre(U, d) = Fibre(T, d)
        OBVIOUS
      <3>6. old \in [K -> Int] /\ new \in [K -> Int]
        <4> HIDE DEF groups, U
        <4> QED BY <1>1, <3>1
      <3>7. new[c] = f[x] + old[c] /\ f[x] \in Int /\ old[c] \in Int
        <4>1. old[c] = Part(f, Fibre(T, c)) /\ new[c] = Part(f, Fibre(U, c)) /\ old[c] \in Int
          <5> HIDE DEF groups, U, Fibre, c
          <5> QED BY <1>1, <3>1
        <4> HIDE DEF groups, U, Fibre, c
        <4> QED BY <3>3, <3>4, <4>1
      <3>8. Part(new, K \ {c}) = Part(old, K \ {c})
        <4>1. \A d \in K \ {c} : new[d] = old[d]
          <5> HIDE DEF U, Fibre, c
          <5> QED BY <3>5
        <4> HIDE DEF old, new
        <4>2. [d \in K \ {c} |-> new[d]] = [d \in K \ {c} |-> old[d]]
          BY <4>1
        <4> QED BY <4>2 DEF Part
      <3> HIDE DEF old, new, U, c
      <3>9. Part(old, K) = old[c] + Part(old, K \ {c}) /\ Part(old, K \ {c}) \in Int
        BY <3>1, <3>6, TotalGrows
      <3>10. Part(new, K) = new[c] + Part(new, K \ {c})
        BY <3>1, <3>6, TotalGrows
      <3>11. Part(old, K) = Total(old) /\ Part(new, K) = Total(new)
        <4>1. [d \in K |-> old[d]] = old /\ [d \in K |-> new[d]] = new
          BY <3>6
        <4> QED BY <4>1 DEF Part
      <3>12. Part(f, T) = Total(old)
        BY DEF old
      <3>13. Part(f, U) = Total(new)
        BY <3>2, <3>7, <3>8, <3>9, <3>10, <3>11, <3>12
      <3> QED BY <3>1, <3>13 DEF U, new
    <2> QED BY <2>1, <2>2
  <1>4. D \in F
    <2>1. F \in SUBSET SUBSET D
      OBVIOUS
    <2> HIDE DEF F
    <2> QED BY <1>2, <1>3, <2>1, FiniteSetInduction
  <1>5. [x \in D |-> f[x]] = f
    OBVIOUS
  <1> QED BY <1>4, <1>5 DEF Part

\* What a function takes from a finite set to is finite.
LEMMA ImageIsFinite ==
  ASSUME NEW D, IsFiniteSet(D), NEW f
  PROVE  IsFiniteSet({f[x] : x \in D})
  <1> DEFINE T == {f[x] : x \in D}
             g == [x \in D |-> f[x]]
  <1>1. g \in Surjection(D, T)
    BY DEF Surjection
  <1> HIDE DEF g, T
  <1>2. IsFiniteSet(T)
    BY <1>1, FS_Surjection
  <1> QED BY <1>2 DEF T

\* What is counted group by group is counted.
LEMMA CountOfGroups ==
  ASSUME NEW D, IsFiniteSet(D), NEW K, IsFiniteSet(K), NEW k \in [D -> K]
  PROVE  Cardinality(D) = Total([c \in K |-> Cardinality({y \in D : k[y] = c})])
  <1> DEFINE one == [x \in D |-> 1]
             Fibre(c) == {y \in D : k[y] = c}
  <1>1. one \in [D -> Int]
    OBVIOUS
  <1>2. Total(one) = Total([c \in K |-> Part(one, {y \in D : k[y] = c})])
    <2> HIDE DEF one
    <2> QED BY <1>1, TotalOfGroups
  <1>3. ASSUME NEW T \in SUBSET D
        PROVE  Part(one, T) = Cardinality(T)
    <2>1. [x \in T |-> one[x]] = [x \in T |-> IF x \in T THEN 1 ELSE 0]
      OBVIOUS
    <2>2. IsFiniteSet(T)
      BY FS_Subset
    <2>3. Total([x \in T |-> IF x \in T THEN 1 ELSE 0]) = Cardinality({x \in T : x \in T})
      BY <2>2, TotalOfMarks
    <2>4. {x \in T : x \in T} = T
      OBVIOUS
    <2> QED BY <2>1, <2>3, <2>4 DEF Part
  <1>4. Part(one, D) = Total(one)
    BY DEF Part
  <1>5. [c \in K |-> Part(one, Fibre(c))] = [c \in K |-> Cardinality(Fibre(c))]
    <2>1. \A c \in K : Fibre(c) \in SUBSET D
      OBVIOUS
    <2> HIDE DEF one, Fibre
    <2> QED BY <1>3, <2>1
  <1>6. Part(one, D) = Cardinality(D)
    BY <1>3
  <1> QED BY <1>2, <1>4, <1>5, <1>6

-----------------------------------------------------------------------------
(* What an outcome earned.                                                   *)

Earns(o) ==
  /\ o.decision.kind \in {"DEFER", "DIAGNOSE"}
  /\ o.credits \in Nat /\ o.return \in Int
  /\ o.return = (IF ~ Diagnosed(o) THEN DEFERRED
                 ELSE IF RootMetrics(o).exact THEN CORRECT ELSE INCORRECT) - LAMBDA_COST * o.credits

\* An outcome earned what its decision is worth, less its credits.
LEMMA OutcomesEarn ==
  ASSUME NEW s, NEW o, Scored(s, o)
  PROVE  Earns(o)
  <1>1. PICK i, env : Reached(s, i, env) /\ Terminated(env) /\ o = ScoreOutcome(i, env)
    BY DEF Scored
  <1>2. /\ o.decision = env.decision /\ o.credits = env.spent
        /\ o.truth = Incidents[i].causes /\ o.return = env.paid + Score(env.decision, o.truth)
    BY <1>1 DEF ScoreOutcome, Return
  <1>3. /\ env.decision.kind \in {"DEFER", "DIAGNOSE"}
        /\ env.spent \in Nat /\ env.paid = 0 - LAMBDA_COST * env.spent
    BY <1>1 DEF Reached, EnvOk, Ledger, Decision, Terminated, NoDecision
  <1> DEFINE worth == Score(env.decision, o.truth)
             cost == LAMBDA_COST * o.credits
  <1>4. worth \in Int /\ cost \in Int
    BY <1>2, <1>3, TaskAssumption DEF Score
  <1>5. o.return = worth - cost
    <2>1. o.return = env.paid + worth /\ env.paid = 0 - cost
      BY <1>2, <1>3
    <2> HIDE DEF worth, cost
    <2> QED BY <1>4, <2>1
  <1>6. worth = IF ~ Diagnosed(o) THEN DEFERRED
                ELSE IF RootMetrics(o).exact THEN CORRECT ELSE INCORRECT
    BY <1>2, <1>3 DEF Score, Diagnosed, RootMetrics
  <1> HIDE DEF worth
  <1>7. o.return \in Int
    <2> HIDE DEF cost
    <2> QED BY <1>4, <1>5
  <1> QED BY <1>2, <1>3, <1>5, <1>6, <1>7 DEF Earns

\* The returns are the utilities of the counted decisions less the credits.
LEMMA ReturnsAddUp ==
  ASSUME NEW outs, NEW n \in Nat, DOMAIN outs = 1 .. n, \A i \in 1 .. n : Earns(outs[i])
  PROVE  LET exact == Cardinality({i \in DOMAIN outs : RootMetrics(outs[i]).exact})
             covered == Cardinality({i \in DOMAIN outs : Diagnosed(outs[i])})
         IN Total([i \in DOMAIN outs |-> outs[i].return])
              = CORRECT * exact + INCORRECT * (covered - exact) + DEFERRED * (n - covered)
                - LAMBDA_COST * Total([i \in DOMAIN outs |-> outs[i].credits])
  <1> DEFINE D == DOMAIN outs
             Exact1 == {i \in D : RootMetrics(outs[i]).exact}
             Cover == {i \in D : Diagnosed(outs[i])}
             e == [i \in D |-> IF i \in Exact1 THEN 1 ELSE 0]
             v == [i \in D |-> IF i \in Cover THEN 1 ELSE 0]
             one == [i \in D |-> IF i \in D THEN 1 ELSE 0]
             credits == [i \in D |-> outs[i].credits]
             a == CORRECT - INCORRECT
             b == INCORRECT - DEFERRED
             minus == 0 - LAMBDA_COST
             ae == [i \in D |-> a * e[i]]
             bv == [i \in D |-> b * v[i]]
             dn == [i \in D |-> DEFERRED * one[i]]
             lc == [i \in D |-> minus * credits[i]]
             s1 == [i \in D |-> ae[i] + bv[i]]
             s2 == [i \in D |-> dn[i] + lc[i]]
             s == [i \in D |-> s1[i] + s2[i]]
  <1>1. IsFiniteSet(D) /\ Cardinality(D) = n
    BY FS_Interval
  <1>2. {CORRECT, INCORRECT, DEFERRED, LAMBDA_COST} \subseteq Int
    BY TaskAssumption
  <1>3. e \in [D -> Int] /\ v \in [D -> Int] /\ one \in [D -> Int]
    OBVIOUS
  <1>4. credits \in [D -> Int]
    BY DEF Earns
  <1>5. a \in Int /\ b \in Int /\ minus \in Int /\ DEFERRED \in Int
    BY <1>2
  <1>6. /\ Total(e) = Cardinality({i \in D : i \in Exact1}) /\ Total(v) = Cardinality({i \in D : i \in Cover})
        /\ Total(one) = Cardinality({i \in D : i \in D})
    <2> HIDE DEF Exact1, Cover, D
    <2> QED BY <1>1, TotalOfMarks
  <1>7. {i \in D : i \in Exact1} = Exact1 /\ {i \in D : i \in Cover} = Cover /\ {i \in D : i \in D} = D
    OBVIOUS
  <1>8. \A i \in D : outs[i].return = s[i]
    <2> SUFFICES ASSUME NEW i \in D
                 PROVE  outs[i].return = s[i]
      OBVIOUS
    <2> DEFINE o == outs[i]
    <2>1. Earns(o)
      OBVIOUS
    <2>2. s[i] = (a * e[i] + b * v[i]) + (DEFERRED * one[i] + minus * o.credits)
      OBVIOUS
    <2>3. /\ e[i] = IF RootMetrics(o).exact THEN 1 ELSE 0
          /\ v[i] = IF Diagnosed(o) THEN 1 ELSE 0
          /\ one[i] = 1
      OBVIOUS
    <2>4. RootMetrics(o).exact => Diagnosed(o)
      BY DEF RootMetrics
    <2> HIDE DEF o, s, e, v, one
    <2>5. minus * o.credits = 0 - LAMBDA_COST * o.credits /\ LAMBDA_COST * o.credits \in Int
      BY <1>2, <2>1 DEF Earns
    <2>6. /\ a * e[i] = IF RootMetrics(o).exact THEN a ELSE 0
          /\ b * v[i] = IF Diagnosed(o) THEN b ELSE 0
          /\ DEFERRED * one[i] = DEFERRED
      BY <1>2, <1>5, <2>3
    <2>7. s[i] = ((IF RootMetrics(o).exact THEN a ELSE 0) + (IF Diagnosed(o) THEN b ELSE 0))
                 + (DEFERRED + (0 - LAMBDA_COST * o.credits))
      BY <2>2, <2>5, <2>6
    <2> DEFINE cost == LAMBDA_COST * o.credits
    <2>8. o.return = (IF ~ Diagnosed(o) THEN DEFERRED
                      ELSE IF RootMetrics(o).exact THEN CORRECT ELSE INCORRECT) - cost /\ cost \in Int
      BY <2>1, <2>5 DEF Earns
    <2>9. s[i] = ((IF RootMetrics(o).exact THEN a ELSE 0) + (IF Diagnosed(o) THEN b ELSE 0))
                 + (DEFERRED + (0 - cost))
      BY <2>7
    <2> HIDE DEF cost
    <2>10. o.return = s[i]
      <3>1. CASE ~ Diagnosed(o)
        BY <1>2, <2>4, <2>8, <2>9, <3>1
      <3>2. CASE RootMetrics(o).exact
        BY <1>2, <2>4, <2>8, <2>9, <3>2
      <3>3. CASE Diagnosed(o) /\ ~ RootMetrics(o).exact
        BY <1>2, <2>8, <2>9, <3>3
      <3> QED BY <3>1, <3>2, <3>3
    <2> QED BY <2>10 DEF o
  <1>9. [i \in D |-> outs[i].return] = s
    <2> DEFINE r == [i \in D |-> outs[i].return]
    <2>1. \A i \in D : r[i] = s[i]
      <3> HIDE DEF s, D
      <3> QED BY <1>8
    <2>2. r = [i \in D |-> r[i]] /\ s = [i \in D |-> s[i]]
      OBVIOUS
    <2> HIDE DEF r, s, D
    <2> QED BY <2>1, <2>2 DEF r
  <1> HIDE DEF e, v, one, credits
  <1>10. /\ Total(ae) = a * Total(e) /\ Total(bv) = b * Total(v)
         /\ Total(dn) = DEFERRED * Total(one) /\ Total(lc) = minus * Total(credits)
    <2> HIDE DEF D, a, b, minus
    <2> QED BY <1>1, <1>3, <1>4, <1>5, TotalOfProducts
  <1>11. ae \in [D -> Int] /\ bv \in [D -> Int] /\ dn \in [D -> Int] /\ lc \in [D -> Int]
    <2> HIDE DEF D, a, b, minus
    <2> QED BY <1>3, <1>4, <1>5
  <1> HIDE DEF ae, bv, dn, lc
  <1>12. s1 \in [D -> Int] /\ s2 \in [D -> Int]
    <2> HIDE DEF D
    <2> QED BY <1>11
  <1>13. Total(s1) = Total(ae) + Total(bv) /\ Total(s2) = Total(dn) + Total(lc)
    <2> HIDE DEF D
    <2> QED BY <1>1, <1>11, TotalOfSums
  <1> HIDE DEF s1, s2
  <1>14. Total(s) = Total(s1) + Total(s2)
    <2> HIDE DEF D
    <2> QED BY <1>1, <1>12, TotalOfSums
  <1>15. Total(credits) \in Int
    <2>1. Part(credits, D) \in Int
      <3> HIDE DEF D
      <3> QED BY <1>1, <1>4, TotalGrows
    <2>2. [i \in D |-> credits[i]] = credits
      BY <1>4
    <2> QED BY <2>1, <2>2 DEF Part
  <1> DEFINE E == Cardinality(Exact1)
             V == Cardinality(Cover)
             C == Total(credits)
  <1>16. E \in Nat /\ V \in Nat
    <2>1. Exact1 \in SUBSET D /\ Cover \in SUBSET D
      OBVIOUS
    <2> HIDE DEF D, Exact1, Cover
    <2> QED BY <1>1, <2>1, FS_Subset, FS_CardinalityType
  <1>17. Total(s) = (a * E + b * V) + (DEFERRED * n + minus * C)
    <2> HIDE DEF s, Exact1, Cover, D, a, b, minus
    <2> QED BY <1>1, <1>6, <1>7, <1>10, <1>13, <1>14
  <1> HIDE DEF E, V, C, s
  <1>18. Total(s) = CORRECT * E + INCORRECT * (V - E) + DEFERRED * (n - V) - LAMBDA_COST * C
    <2>1. a * E = CORRECT * E - INCORRECT * E
      BY <1>2, <1>16
    <2>2. b * V = INCORRECT * V - DEFERRED * V
      BY <1>2, <1>16
    <2>3. minus * C = 0 - LAMBDA_COST * C
      BY <1>2, <1>15 DEF C
    <2>4. INCORRECT * (V - E) = INCORRECT * V - INCORRECT * E /\ DEFERRED * (n - V) = DEFERRED * n - DEFERRED * V
      BY <1>2, <1>16
    <2>5. /\ CORRECT * E \in Int /\ INCORRECT * E \in Int /\ INCORRECT * V \in Int /\ DEFERRED * V \in Int
          /\ DEFERRED * n \in Int /\ LAMBDA_COST * C \in Int
      BY <1>2, <1>15, <1>16 DEF C
    <2> DEFINE p1 == CORRECT * E
               p2 == INCORRECT * E
               p3 == INCORRECT * V
               p4 == DEFERRED * V
               p5 == DEFERRED * n
               p6 == LAMBDA_COST * C
    <2>6. Total(s) = ((p1 - p2) + (p3 - p4)) + (p5 + (0 - p6))
      BY <1>17, <2>1, <2>2, <2>3
    <2>7. {p1, p2, p3, p4, p5, p6} \subseteq Int
      BY <2>5
    <2>8. INCORRECT * (V - E) = p3 - p2 /\ DEFERRED * (n - V) = p5 - p4
      BY <2>4
    <2> HIDE DEF p1, p2, p3, p4, p5, p6
    <2>9. Total(s) = p1 + (p3 - p2) + (p5 - p4) - p6
      BY <2>6, <2>7
    <2> QED BY <2>8, <2>9 DEF p1, p6
  <1> QED BY <1>9, <1>18 DEF E, V, C, credits

\* Returns are added up session by session.
LEMMA SessionsAddUp ==
  ASSUME NEW outs, NEW n \in Nat, DOMAIN outs = 1 .. n, \A i \in 1 .. n : Earns(outs[i])
  PROVE  Total([i \in DOMAIN outs |-> outs[i].return])
           = Total([s \in {o.session : o \in Range(outs)} |->
                      Total([i \in {j \in DOMAIN outs : outs[j].session = s} |-> outs[i].return])])
  <1> DEFINE D == DOMAIN outs
             K == {o.session : o \in Range(outs)}
             k == [i \in D |-> outs[i].session]
             f == [i \in D |-> outs[i].return]
             Of(s) == {j \in D : k[j] = s}
  <1>1. IsFiniteSet(D)
    BY FS_Interval
  <1>2. f \in [D -> Int]
    BY DEF Earns
  <1>3. K = {k[i] : i \in D}
    BY DEF Range
  <1>4. IsFiniteSet(K)
    <2> HIDE DEF D, K, k
    <2> QED BY <1>1, <1>3, ImageIsFinite
  <1>5. k \in [D -> K]
    BY DEF Range
  <1>6. Total(f) = Total([s \in K |-> Part(f, {j \in D : k[j] = s})])
    <2> HIDE DEF D, K, k, f
    <2> QED BY <1>1, <1>2, <1>4, <1>5, TotalOfGroups
  <1>7. ASSUME NEW s \in K
        PROVE  Part(f, Of(s)) = Total([i \in {j \in D : outs[j].session = s} |-> outs[i].return])
    <2>1. Of(s) = {j \in D : outs[j].session = s}
      OBVIOUS
    <2>2. [i \in Of(s) |-> f[i]] = [i \in Of(s) |-> outs[i].return]
      OBVIOUS
    <2> HIDE DEF f, Of, D
    <2> QED BY <2>1, <2>2 DEF Part
  <1>8. [s \in K |-> Part(f, Of(s))]
          = [s \in K |-> Total([i \in {j \in D : outs[j].session = s} |-> outs[i].return])]
    <2> HIDE DEF D, K, f, Of
    <2> QED BY <1>7
  <1> QED BY <1>6, <1>8

\* A cause that was there is named or missed.
LEMMA CausesAddUp ==
  ASSUME NEW outs, NEW n \in Nat, DOMAIN outs = 1 .. n, NEW c
  PROVE  Cardinality({i \in DOMAIN outs : c \in Named(outs[i]) \intersect outs[i].truth})
           + Cardinality({i \in DOMAIN outs : c \in outs[i].truth \ Named(outs[i])})
         = Cardinality({i \in DOMAIN outs : c \in outs[i].truth})
  <1> DEFINE D == DOMAIN outs
             A == {i \in D : c \in Named(outs[i]) \intersect outs[i].truth}
             B == {i \in D : c \in outs[i].truth \ Named(outs[i])}
             T == {i \in D : c \in outs[i].truth}
  <1>1. IsFiniteSet(D)
    BY FS_Interval
  <1>2. A \in SUBSET D /\ B \in SUBSET D /\ A \cup B = T /\ A \cap B = {}
    OBVIOUS
  <1> HIDE DEF A, B, T, D
  <1>3. IsFiniteSet(A) /\ IsFiniteSet(B)
    BY <1>1, <1>2, FS_Subset
  <1>4. Cardinality(A \cup B) = Cardinality(A) + Cardinality(B) - Cardinality(A \cap B)
    BY <1>3, FS_Union
  <1>5. Cardinality(A) \in Nat /\ Cardinality(B) \in Nat /\ Cardinality({}) = 0
    BY <1>3, FS_CardinalityType, FS_EmptySet
  <1>6. Cardinality(A \cup B) = Cardinality(T) /\ Cardinality(A \cap B) = 0
    BY <1>2, <1>5
  <1>7. Cardinality(A) + Cardinality(B) = Cardinality(T)
    BY <1>4, <1>5, <1>6
  <1> QED BY <1>7 DEF A, B, T, D

\* A covered incident is in one cell of the confusion table.
LEMMA ConfusionAddsUp ==
  ASSUME NEW outs, NEW n \in Nat, DOMAIN outs = 1 .. n
  PROVE  Cardinality({i \in DOMAIN outs : Diagnosed(outs[i])})
           = Total([t \in {o.truth : o \in Range(outs)} |->
               Total([d \in {Named(o) : o \in Range(outs)} |->
                 Cardinality({i \in DOMAIN outs :
                   outs[i].truth = t /\ Diagnosed(outs[i]) /\ Named(outs[i]) = d})])])
  <1> DEFINE D == {i \in DOMAIN outs : Diagnosed(outs[i])}
             T == {o.truth : o \in Range(outs)}
             N == {Named(o) : o \in Range(outs)}
             truth == [i \in D |-> outs[i].truth]
             named == [i \in D |-> Named(outs[i])]
             Row(t) == {i \in D : truth[i] = t}
             Cell(t, d) == {i \in DOMAIN outs :
                              outs[i].truth = t /\ Diagnosed(outs[i]) /\ Named(outs[i]) = d}
  <1>1. IsFiniteSet(DOMAIN outs) /\ IsFiniteSet(D)
    <2>1. IsFiniteSet(DOMAIN outs) /\ D \in SUBSET DOMAIN outs
      BY FS_Interval
    <2> HIDE DEF D
    <2> QED BY <2>1, FS_Subset
  <1>2. IsFiniteSet(T) /\ IsFiniteSet(N)
    <2> DEFINE truths == [i \in DOMAIN outs |-> outs[i].truth]
               names == [i \in DOMAIN outs |-> Named(outs[i])]
    <2>1. T = {truths[i] : i \in DOMAIN outs} /\ N = {names[i] : i \in DOMAIN outs}
      BY DEF Range
    <2> HIDE DEF T, N, truths, names
    <2> QED BY <1>1, <2>1, ImageIsFinite
  <1>3. truth \in [D -> T] /\ named \in [D -> N]
    BY DEF Range
  <1>4. Cardinality(D) = Total([t \in T |-> Cardinality({i \in D : truth[i] = t})])
    <2> HIDE DEF D, T, N, truth
    <2> QED BY <1>1, <1>2, <1>3, CountOfGroups
  <1>5. ASSUME NEW t \in T
        PROVE  Cardinality(Row(t)) = Total([d \in N |-> Cardinality(Cell(t, d))])
    <2> DEFINE R == Row(t)
               name == [i \in R |-> Named(outs[i])]
    <2>1. IsFiniteSet(R)
      <3>1. R \in SUBSET D
        OBVIOUS
      <3> HIDE DEF R, D
      <3> QED BY <1>1, <3>1, FS_Subset
    <2>2. name \in [R -> N]
      BY DEF Range
    <2>3. Cardinality(R) = Total([d \in N |-> Cardinality({i \in R : name[i] = d})])
      <3> HIDE DEF R, N, name
      <3> QED BY <1>2, <2>1, <2>2, CountOfGroups
    <2>4. \A d : {i \in R : name[i] = d} = Cell(t, d)
      OBVIOUS
    <2>5. [d \in N |-> Cardinality({i \in R : name[i] = d})] = [d \in N |-> Cardinality(Cell(t, d))]
      <3> HIDE DEF R, N, name, Cell
      <3> QED BY <2>4
    <2> QED BY <2>3, <2>5
  <1>6. [t \in T |-> Cardinality({i \in D : truth[i] = t})]
          = [t \in T |-> Total([d \in N |-> Cardinality(Cell(t, d))])]
    <2> DEFINE cells(t) == Total([d \in N |-> Cardinality(Cell(t, d))])
    <2>1. \A t \in T : Cardinality({i \in D : truth[i] = t}) = cells(t)
      BY <1>5
    <2> HIDE DEF T, cells
    <2>2. [t \in T |-> Cardinality({i \in D : truth[i] = t})] = [t \in T |-> cells(t)]
      <3> HIDE DEF D, truth
      <3> QED BY <2>1
    <2> QED BY <2>2 DEF cells
  <1> QED BY <1>4, <1>6

\* What a session of play relies on makes its summary agree with its outcomes.
LEMMA PlayAddsUp == PlayInv => ScoresAgree
  <1> SUFFICES ASSUME PlayInv, mode = "play"
               PROVE  ScoresAgree
    BY DEF ScoresAgree
  <1> DEFINE outs == scene.outcomes
             n == Len(outs)
             sum == Summarize(outs)
  <1>1. outs \in Seq(Range(outs)) /\ \A o \in Range(outs) : Earns(o)
    BY OutcomesEarn DEF PlayInv
  <1> HIDE DEF outs
  <1>2. n \in Nat /\ DOMAIN outs = 1 .. n /\ \A i \in 1 .. n : Earns(outs[i])
    BY <1>1 DEF Range
  <1>3. /\ sum.count = n
        /\ sum.correct = Cardinality({i \in DOMAIN outs : RootMetrics(outs[i]).exact})
        /\ sum.covered = Cardinality({i \in DOMAIN outs : Diagnosed(outs[i])})
        /\ sum.credits = Total([i \in DOMAIN outs |-> outs[i].credits])
        /\ sum.returns = Total([i \in DOMAIN outs |-> outs[i].return])
    BY DEF Summarize, Count, SumOver
  <1>4. sum.sessions = [s \in {o.session : o \in Range(outs)} |->
          Total([i \in {j \in DOMAIN outs : outs[j].session = s} |-> outs[i].return])]
    BY DEF Summarize
  <1>5. ASSUME NEW c \in DOMAIN sum.roots
        PROVE  /\ sum.roots[c].tp
                    = Cardinality({i \in DOMAIN outs : c \in Named(outs[i]) \intersect outs[i].truth})
               /\ sum.roots[c].fn = Cardinality({i \in DOMAIN outs : c \in outs[i].truth \ Named(outs[i])})
    BY <1>5 DEF Summarize, Count
  <1>6. sum.confusion = [t \in {o.truth : o \in Range(outs)} |->
          [d \in {Named(o) : o \in Range(outs)} |->
            Cardinality({i \in DOMAIN outs : outs[i].truth = t /\ Diagnosed(outs[i]) /\ Named(outs[i]) = d})]]
    BY DEF Summarize, Count
  <1> HIDE DEF sum, n
  <1>7. sum.returns = CORRECT * sum.correct + INCORRECT * (sum.covered - sum.correct)
                      + DEFERRED * (sum.count - sum.covered) - LAMBDA_COST * sum.credits
    BY <1>2, <1>3, ReturnsAddUp
  <1>8. sum.returns = Total(sum.sessions)
    <2> DEFINE parts == [s \in {o.session : o \in Range(outs)} |->
                           Total([i \in {j \in DOMAIN outs : outs[j].session = s} |-> outs[i].return])]
               earned == [i \in DOMAIN outs |-> outs[i].return]
    <2>1. Total(earned) = Total(parts)
      BY <1>2, SessionsAddUp
    <2>2. sum.returns = Total(earned) /\ sum.sessions = parts
      BY <1>3, <1>4
    <2> HIDE DEF earned, parts
    <2> QED BY <2>1, <2>2
  <1>9. \A c \in DOMAIN sum.roots :
          sum.roots[c].tp + sum.roots[c].fn = Cardinality({i \in DOMAIN outs : c \in outs[i].truth})
    BY <1>2, <1>5, CausesAddUp
  <1>10. sum.covered = Total([t \in DOMAIN sum.confusion |-> Total(sum.confusion[t])])
    <2> DEFINE T == {o.truth : o \in Range(outs)}
               row(t) == [d \in {Named(o) : o \in Range(outs)} |->
                            Cardinality({i \in DOMAIN outs :
                              outs[i].truth = t /\ Diagnosed(outs[i]) /\ Named(outs[i]) = d})]
    <2>1. sum.covered = Total([t \in T |-> Total(row(t))])
      BY <1>2, <1>3, ConfusionAddsUp
    <2>2. sum.confusion = [t \in T |-> row(t)]
      BY <1>6
    <2> HIDE DEF T, row
    <2>3. DOMAIN sum.confusion = T /\ [t \in T |-> Total(sum.confusion[t])] = [t \in T |-> Total(row(t))]
      BY <2>2
    <2> QED BY <2>1, <2>3
  <1> QED BY <1>7, <1>8, <1>9, <1>10 DEF ScoresAgree, Count, sum, outs

\* Scoring: what a summary adds up is what its outcomes earned, by session and
\* in all, and no cause is found more often than it was there.
THEOREM SummariesAgree == Spec => []ScoresAgree
  <1>1. Init => PlayInv
    BY PlayStarts
  <1>2. PlayInv /\ [Next]_vars => PlayInv'
    BY PlayKeeps
  <1>3. PlayInv => ScoresAgree
    BY PlayAddsUp
  <1> QED BY <1>1, <1>2, <1>3, PTL DEF Spec

-----------------------------------------------------------------------------
(* Learning.  An episode of either learner is a recursion of one step.       *)

Advance(neural, model, method, i, run) ==
  IF Terminated(run.env) THEN run
  ELSE IF neural THEN NeuralStep(model, i, run) ELSE LearnStep(model, method, i, run)

Advances(n, neural, model, method, i, base, f) ==
  f = [k \in 0 .. n |-> IF k = 0 THEN base ELSE Advance(neural, model, method, i, f[k - 1])]

\* The steps of an episode have a solution.
LEMMA EpisodeExists ==
  ASSUME NEW neural, NEW model, NEW method, NEW i, NEW base, NEW m \in Nat
  PROVE  \E f : Advances(m, neural, model, method, i, base, f)
  <1> DEFINE C(r) == Advance(neural, model, method, i, r)
             Prefix(n, f) == f = [k \in 0 .. n |-> IF k = 0 THEN base ELSE C(f[k - 1])]
             P == {n \in Nat : \E f : Prefix(n, f)}
  <1> HIDE DEF C
  <1>1. \A n \in Nat : \A f : Prefix(n, f) => f[0] = base /\ \A k \in 1 .. n : f[k] = C(f[k - 1])
    OBVIOUS
  <1>2. 0 \in P
    <2> DEFINE h == [k \in 0 .. 0 |-> base]
    <2>1. Prefix(0, h)
      OBVIOUS
    <2> HIDE DEF Prefix, h
    <2> QED BY <2>1
  <1>3. ASSUME NEW n \in Nat, NEW f, Prefix(n, f)
        PROVE  \E g : Prefix(n + 1, g)
    <2> DEFINE h == [k \in 0 .. n + 1 |-> IF k = n + 1 THEN C(f[n]) ELSE f[k]]
    <2>1. ASSUME NEW k \in 0 .. n + 1
          PROVE  h[k] = IF k = 0 THEN base ELSE C(h[k - 1])
      <3>1. CASE k = n + 1
        <4>1. k - 1 = n /\ h[n] = f[n] /\ h[k] = C(f[n]) /\ k # 0
          BY <3>1
        <4> HIDE DEF h
        <4> QED BY <4>1
      <3>2. CASE k \in 1 .. n
        <4>1. h[k] = f[k] /\ h[k - 1] = f[k - 1] /\ k # 0
          BY <3>2
        <4>2. f[k] = C(f[k - 1])
          BY <3>2, <1>1, <1>3
        <4> HIDE DEF h
        <4> QED BY <4>1, <4>2
      <3>3. CASE k = 0
        <4>1. h[0] = f[0]
          OBVIOUS
        <4>2. f[0] = base
          BY <1>1, <1>3
        <4> HIDE DEF h
        <4> QED BY <3>3, <4>1, <4>2
      <3> QED BY <3>1, <3>2, <3>3
    <2>2. h = [k \in 0 .. n + 1 |-> h[k]]
      OBVIOUS
    <2> HIDE DEF h
    <2>3. Prefix(n + 1, h)
      BY <2>1, <2>2
    <2> HIDE DEF Prefix
    <2> QED BY <2>3
  <1>4. P = Nat
    <2> HIDE DEF Prefix
    <2>1. P \in SUBSET Nat /\ \A n \in P : n + 1 \in P
      BY <1>3
    <2> HIDE DEF P
    <2> QED BY <1>2, <2>1, NumberInduction
  <1>5. \E f : Prefix(m, f)
    <2> HIDE DEF Prefix
    <2> QED BY <1>4
  <1> QED BY <1>5 DEF Advances, C

(* Where the learners begin.                                                   *)
LearnBase(policy) ==
  [env |-> Reset(Specs), action |-> Behave(Reset(Specs), policy.rng), pending |-> << >>,
   trace |-> << >>, policy |-> [policy EXCEPT !.rng = @ + 1]]
NeuralBase(trainer) == [env |-> Reset(Specs), trainer |-> trainer]

\* An episode of the tabular learner is where its steps end.
LEMMA LearnEpisodeSteps ==
  ASSUME NEW model, NEW method, NEW i, NEW policy
  PROVE  \E f : /\ f[0] = LearnBase(policy)
                /\ \A k \in 1 .. MAX_PROBES :
                     f[k] = IF Terminated(f[k - 1].env) THEN f[k - 1]
                            ELSE LearnStep(model, method, i, f[k - 1])
                /\ LearnEpisode(model, method, i, policy) = f[MAX_PROBES]
  <1> DEFINE env == Reset(Specs)
             base == [env |-> env, action |-> Behave(env, policy.rng), pending |-> << >>,
                      trace |-> << >>, policy |-> [policy EXCEPT !.rng = @ + 1]]
             Good(f) == f = [n \in 0 .. MAX_PROBES |->
                               IF n = 0 THEN base
                               ELSE LET before == f[n - 1]
                                    IN IF Terminated(before.env) THEN before
                                       ELSE LearnStep(model, method, i, before)]
             run == CHOOSE f : Good(f)
  <1>1. base = LearnBase(policy)
    BY DEF LearnBase
  <1>2. LearnEpisode(model, method, i, policy) = run[MAX_PROBES]
    BY DEF LearnEpisode
  <1>3. \A f : Good(f) <=> Advances(MAX_PROBES, FALSE, model, method, i, LearnBase(policy), f)
    <2> HIDE DEF base
    <2> QED BY <1>1 DEF Advances, Advance
  <1>4. MAX_PROBES \in Nat
    BY TaskAssumption
  <1> HIDE DEF Good
  <1>5. \E f : Good(f)
    BY <1>3, <1>4, EpisodeExists
  <1>6. Good(run)
    BY <1>5
  <1> HIDE DEF run, base
  <1>7. /\ run[0] = base
        /\ \A k \in 1 .. MAX_PROBES :
             run[k] = IF Terminated(run[k - 1].env) THEN run[k - 1] ELSE LearnStep(model, method, i, run[k - 1])
    BY <1>4, <1>6 DEF Good
  <1> QED BY <1>1, <1>2, <1>7

\* An episode of the DQN trainer is where its steps end.
LEMMA NeuralEpisodeSteps ==
  ASSUME NEW model, NEW method, NEW i, NEW trainer
  PROVE  \E f : /\ f[0] = NeuralBase(trainer)
                /\ \A k \in 1 .. MAX_PROBES :
                     f[k] = IF Terminated(f[k - 1].env) THEN f[k - 1] ELSE NeuralStep(model, i, f[k - 1])
                /\ NeuralEpisode(model, i, trainer) = f[MAX_PROBES].trainer
  <1> DEFINE Good(f) == f = [n \in 0 .. MAX_PROBES |->
                               IF n = 0 THEN [env |-> Reset(Specs), trainer |-> trainer]
                               ELSE LET before == f[n - 1]
                                    IN IF Terminated(before.env) THEN before
                                       ELSE NeuralStep(model, i, before)]
             run == CHOOSE f : Good(f)
  <1>1. NeuralEpisode(model, i, trainer) = run[MAX_PROBES].trainer
    BY DEF NeuralEpisode
  <1>2. \A f : Good(f) <=> Advances(MAX_PROBES, TRUE, model, method, i, NeuralBase(trainer), f)
    BY DEF Advances, Advance, NeuralBase
  <1>3. MAX_PROBES \in Nat
    BY TaskAssumption
  <1> HIDE DEF Good
  <1>4. \E f : Good(f)
    BY <1>2, <1>3, EpisodeExists
  <1>5. Good(run)
    BY <1>4
  <1> HIDE DEF run
  <1>6. /\ run[0] = NeuralBase(trainer)
        /\ \A k \in 1 .. MAX_PROBES :
             run[k] = IF Terminated(run[k - 1].env) THEN run[k - 1] ELSE NeuralStep(model, i, run[k - 1])
    BY <1>3, <1>5 DEF Good, NeuralBase
  <1> QED BY <1>1, <1>6

-----------------------------------------------------------------------------
(* An investigation of a learner ends in time: the last probe it may buy is  *)
(* the end.                                                                  *)

InTime(env, n) == DOMAIN env = EnvFields /\ (Terminated(env) \/ (env.probes = n /\ n < MAX_PROBES))

\* A step leads from one moment to the next.
LEMMA StepInTime ==
  ASSUME NEW env, NEW n \in Nat, InTime(env, n), ~ Terminated(env), NEW model, NEW packets, NEW a
  PROVE  InTime(Step(model, env, packets, a), n + 1)
  <1> DEFINE next == Step(model, env, packets, a)
  <1>1. DOMAIN env = EnvFields /\ env.probes = n /\ n < MAX_PROBES /\ MAX_PROBES \in Nat
    BY TaskAssumption DEF InTime
  <1>2. ASSUME NEW e, DOMAIN e = EnvFields, NEW b, NEW reason
        PROVE  DOMAIN Finish(model, e, b, reason) = EnvFields /\ Terminated(Finish(model, e, b, reason))
    BY <1>2 DEF Finish, Terminated, EnvFields
  <1>3. CASE Terminal(a)
    <2>1. next = Finish(model, env, a, "voluntary")
      BY <1>3 DEF Step
    <2> HIDE DEF next
    <2>2. InTime(next, n + 1)
      BY <1>1, <1>2, <2>1 DEF InTime
    <2> QED BY <2>2 DEF next
  <1>4. CASE ~ Terminal(a)
    <2> DEFINE after == Bought(env, a, packets[a])
    <2>1. DOMAIN after = EnvFields /\ after.probes = n + 1
      BY <1>1 DEF Bought, Acquire, EnvFields
    <2> HIDE DEF after
    <2>2. (next = after /\ Len(Mask(after)) > 2) \/ \E b, reason : next = Finish(model, after, b, reason)
      BY <1>4 DEF Step, StepWith, after
    <2>3. n + 1 = MAX_PROBES => Terminated(after) \/ ~ (Len(Mask(after)) > 2)
      <3> SUFFICES ASSUME n + 1 = MAX_PROBES, ~ Terminated(after)
                   PROVE  ~ (Len(Mask(after)) > 2)
        OBVIOUS
      <3>1. Mask(after) = << >> \o << STOP, DEFER >>
        <4>1. ~ (after.probes < MAX_PROBES)
          BY <1>1, <2>1
        <4> QED BY <4>1 DEF Mask
      <3>2. Len(<< >> \o << STOP, DEFER >>) = 2
        OBVIOUS
      <3> QED BY <3>1, <3>2
    <2> HIDE DEF next
    <2>4. InTime(next, n + 1)
      <3>1. CASE next = after /\ Len(Mask(after)) > 2
        <4>1. Terminated(after) \/ n + 1 < MAX_PROBES
          BY <1>1, <2>3, <3>1
        <4> QED BY <2>1, <3>1, <4>1 DEF InTime
      <3>2. CASE \E b, reason : next = Finish(model, after, b, reason)
        BY <1>2, <2>1, <3>2 DEF InTime
      <3> QED BY <2>2, <3>1, <3>2
    <2> QED BY <2>4 DEF next
  <1> QED BY <1>3, <1>4

\* An investigation begins in time.
LEMMA ResetInTime == InTime(Reset(Specs), 0)
  <1>1. DOMAIN Reset(Specs) = EnvFields /\ Reset(Specs).probes = 0
    BY DEF Reset, EnvFields
  <1>2. 0 < MAX_PROBES
    BY TaskAssumption
  <1> QED BY <1>1, <1>2 DEF InTime

(* s ends, n0 places on, with what is wanted.                                  *)
Ends(s, n0, want, n) ==
  /\ s \in Seq(Range(s)) /\ n0 \in Nat /\ n \in Nat /\ DOMAIN want = 1 .. n /\ Len(s) = n0 + n
  /\ \A k \in 1 .. n : s[n0 + k] = want[k]

\* Appending to a sequence.
LEMMA AppendPlaces ==
  ASSUME NEW s, s \in Seq(Range(s)), NEW e
  PROVE  /\ Append(s, e) \in Seq(Range(Append(s, e))) /\ Len(Append(s, e)) = Len(s) + 1 /\ Len(s) \in Nat
         /\ DOMAIN s = 1 .. Len(s) /\ DOMAIN Append(s, e) = 1 .. Len(s) + 1
         /\ \A k \in 1 .. Len(s) : Append(s, e)[k] = s[k]
         /\ Append(s, e)[Len(s) + 1] = e
         /\ Append(s, e) # << >>
         /\ s \o << e >> = Append(s, e)
  <1> DEFINE T == Range(s)
  <1>1. s \in Seq(T)
    OBVIOUS
  <1>2. Range(Append(s, e)) = T \union {e}
    BY RangeOfAppend
  <1> HIDE DEF T
  <1>3. Append(s, e) \in Seq(T \union {e})
    BY <1>1
  <1>4. Append(s, e) \in Seq(Range(Append(s, e)))
    BY <1>2, <1>3
  <1> DEFINE new == Append(s, e)
  <1>5. /\ Len(new) = Len(s) + 1 /\ Len(s) \in Nat
        /\ DOMAIN s = 1 .. Len(s) /\ DOMAIN new = 1 .. Len(s) + 1
        /\ \A k \in 1 .. Len(s) : new[k] = s[k]
        /\ new[Len(s) + 1] = e
    BY <1>1
  <1>6. new # << >>
    BY <1>5
  <1>7. s \o << e >> = new
    BY <1>1
  <1> QED BY <1>4, <1>5, <1>6, <1>7

\* Appending what is wanted next.
LEMMA EndsAppend ==
  ASSUME NEW s, NEW n0, NEW n, NEW old, Ends(s, n0, old, n), NEW new, NEW e,
         DOMAIN new = 1 .. n + 1, \A k \in 1 .. n : new[k] = old[k], new[n + 1] = e
  PROVE  Ends(Append(s, e), n0, new, n + 1)
  <1>1. /\ n0 \in Nat /\ n \in Nat /\ DOMAIN old = 1 .. n /\ Len(s) = n0 + n /\ s \in Seq(Range(s))
        /\ \A k \in 1 .. n : s[n0 + k] = old[k]
    BY DEF Ends
  <1> DEFINE t == Append(s, e)
  <1>2. /\ t \in Seq(Range(t)) /\ Len(t) = Len(s) + 1
        /\ \A k \in 1 .. Len(s) : t[k] = s[k]
        /\ t[Len(s) + 1] = e
    BY <1>1, AppendPlaces
  <1> HIDE DEF t
  <1>3. ASSUME NEW k \in 1 .. n + 1
        PROVE  t[n0 + k] = new[k]
    <2>1. CASE k = n + 1
      <3>1. n0 + k = Len(s) + 1
        BY <1>1, <2>1
      <3> QED BY <1>2, <2>1, <3>1
    <2>2. CASE k \in 1 .. n
      <3>1. PICK j \in 1 .. Len(s) : j = n0 + k
        BY <1>1, <2>2
      <3> QED BY <1>1, <1>2, <2>2, <3>1
    <2> QED BY <1>1, <2>1, <2>2
  <1>4. n + 1 \in Nat /\ Len(t) = n0 + (n + 1)
    BY <1>1, <1>2
  <1>5. Ends(t, n0, new, n + 1)
    BY <1>1, <1>2, <1>3, <1>4 DEF Ends
  <1> QED BY <1>5 DEF t

\* The last places of a sequence that ends with what is wanted are that.
LEMMA EndsIsLast ==
  ASSUME NEW s, NEW n0, NEW n, NEW want, Ends(s, n0, want, n), want = [k \in 1 .. n |-> want[k]]
  PROVE  Len(want) = n /\ LastOf(s, n) = want
  <1>1. /\ n0 \in Nat /\ n \in Nat /\ DOMAIN want = 1 .. n /\ Len(s) = n0 + n /\ s \in Seq(Range(s))
        /\ \A k \in 1 .. n : s[n0 + k] = want[k]
    BY DEF Ends
  <1>2. Len(want) = n
    BY <1>1
  <1>3. Max({1, Len(s) - n + 1}) = n0 + 1
    <2>1. Len(s) - n + 1 = n0 + 1
      BY <1>1
    <2>2. n0 + 1 \in {1, n0 + 1} /\ \A y \in {1, n0 + 1} : n0 + 1 >= y
      BY <1>1
    <2>3. \A x \in {1, n0 + 1} : (\A y \in {1, n0 + 1} : x >= y) => x = n0 + 1
      BY <1>1
    <2> QED BY <2>1, <2>2, <2>3 DEF Max
  <1> DEFINE T == Range(s)
             last == SubSeq(s, n0 + 1, n0 + n)
  <1>4. s \in Seq(T)
    BY <1>1
  <1> HIDE DEF T
  <1>5. /\ last = [k \in 1 .. n |-> s[n0 + k]]
    <2>1. last = [k \in 1 .. n0 + n - (n0 + 1) + 1 |-> s[k + (n0 + 1) - 1]]
      BY <1>1, <1>4
    <2>2. n0 + n - (n0 + 1) + 1 = n /\ \A k \in 1 .. n : k + (n0 + 1) - 1 = n0 + k
      BY <1>1
    <2> HIDE DEF last
    <2>3. last = [k \in 1 .. n |-> s[k + (n0 + 1) - 1]]
      BY <2>1, <2>2
    <2> QED BY <2>2, <2>3
  <1> HIDE DEF last
  <1>6. \A k \in 1 .. n : last[k] = want[k]
    BY <1>1, <1>5
  <1>7. last = [k \in 1 .. n |-> last[k]]
    BY <1>5
  <1>8. last = want
    BY <1>6, <1>7
  <1> QED BY <1>1, <1>2, <1>3, <1>8 DEF LastOf, last

LearnFields == {"env", "action", "pending", "policy", "trace"}

(* What has been learnt of a trace while the state and the action that come    *)
(* next are known: all but what the next reward is still needed for.           *)
Owed(method, trace, state, action) ==
  IF method = "expected-sarsa"
  THEN [k \in 1 .. Len(trace) |->
          LearningUpdate(trace[k], << trace[k].reward >>,
                         << IF k < Len(trace) THEN trace[k + 1].state ELSE state >>)]
  ELSE [k \in 1 .. Len(trace) - 1 |->
          LearningUpdate(trace[k], << trace[k].reward, trace[k + 1].reward >>,
                         IF k + 1 < Len(trace) THEN << trace[k + 2].state, trace[k + 2].action >>
                         ELSE << state, action >>)]

(* n0 is how many updates there were before the episode.                       *)
LearnOk(method, i, n0, r) ==
  /\ DOMAIN r = LearnFields /\ DOMAIN r.policy = {"updates", "rng"}
  /\ r.trace \in Seq(Range(r.trace))
  /\ Terminated(r.env) => Ends(r.policy.updates, n0, ExactUpdates(method, r.trace), Len(r.trace))
  /\ ~ Terminated(r.env) =>
       /\ r.pending = IF r.trace = << >> THEN << >> ELSE << r.trace[Len(r.trace)] >>
       /\ LET want == Owed(method, r.trace, StateKey(i, r.env), r.action)
              n == Len(r.trace)
          IN Ends(r.policy.updates, n0, want, IF method = "expected-sarsa" \/ n = 0 THEN n ELSE n - 1)

\* Expected SARSA: every row is settled at once.
LEMMA ExpectedStep ==
  ASSUME NEW updates, NEW n0, NEW trace, trace \in Seq(Range(trace)), NEW row, NEW state, NEW action,
         Ends(updates, n0, Owed("expected-sarsa", trace, row.state, row.action), Len(trace))
  PROVE  LET after == Append(trace, row)
         IN /\ Ends(updates \o ExpectedUpdates(row, state, TRUE), n0,
                    ExactUpdates("expected-sarsa", after), Len(trace) + 1)
            /\ Ends(updates \o ExpectedUpdates(row, state, FALSE), n0,
                    Owed("expected-sarsa", after, state, action), Len(trace) + 1)
  <1> DEFINE after == Append(trace, row)
             m == Len(trace)
             old == Owed("expected-sarsa", trace, row.state, row.action)
             exact == ExactUpdates("expected-sarsa", after)
             owed == Owed("expected-sarsa", after, state, action)
             last == LearningUpdate(row, << row.reward >>, << >>)
             next == LearningUpdate(row, << row.reward >>, << state >>)
  <1>1. /\ m \in Nat /\ Len(after) = m + 1 /\ DOMAIN after = 1 .. m + 1
        /\ \A k \in 1 .. m : after[k] = trace[k]
        /\ after[m + 1] = row
    BY AppendPlaces
  <1>2. updates \in Seq(Range(updates))
    BY DEF Ends
  <1>3. /\ updates \o << last >> = Append(updates, last) /\ updates \o << next >> = Append(updates, next)
    BY <1>2, AppendPlaces
  <1>4. /\ ExpectedUpdates(row, state, TRUE) = << last >> /\ ExpectedUpdates(row, state, FALSE) = << next >>
    BY DEF ExpectedUpdates
  <1>5. \A k \in 1 .. m : old[k] = LearningUpdate(trace[k], << trace[k].reward >>,
                                    << IF k < m THEN trace[k + 1].state ELSE row.state >>)
    BY DEF Owed
  <1> HIDE DEF after, last, next, old, m
  <1>6. ASSUME NEW k \in 1 .. m
        PROVE  /\ old[k] = LearningUpdate(after[k], << after[k].reward >>, << after[k + 1].state >>)
               /\ k + 1 \in 1 .. m + 1
    <2>1. old[k] = LearningUpdate(trace[k], << trace[k].reward >>,
                                  << IF k < m THEN trace[k + 1].state ELSE row.state >>)
      BY <1>5
    <2>2. after[k] = trace[k] /\ after[k + 1] = IF k < m THEN trace[k + 1] ELSE row
      <3>1. CASE k < m
        <4>1. PICK j \in 1 .. m : j = k + 1
          BY <1>1, <3>1
        <4> QED BY <1>1, <3>1, <4>1
      <3>2. CASE ~ (k < m)
        <4>1. k = m
          BY <1>1, <3>2
        <4> QED BY <1>1, <3>2, <4>1
      <3> QED BY <3>1, <3>2
    <2>3. after[k + 1].state = IF k < m THEN trace[k + 1].state ELSE row.state
      BY <2>2
    <2> QED BY <1>1, <2>1, <2>2, <2>3
  <1>7. /\ DOMAIN exact = 1 .. m + 1 /\ exact[m + 1] = last /\ \A k \in 1 .. m : exact[k] = old[k]
    <2>1. exact = [k \in 1 .. m + 1 |-> TargetOf("expected-sarsa", after, k)]
      BY <1>1 DEF ExactUpdates
    <2>2. ASSUME NEW k \in 1 .. m + 1
          PROVE  TargetOf("expected-sarsa", after, k)
                   = LearningUpdate(after[k], << after[k].reward >>,
                                    IF k + 1 > m + 1 THEN << >> ELSE << after[k + 1].state >>)
      BY <1>1 DEF TargetOf
    <2> HIDE DEF exact
    <2>3. exact[m + 1] = last
      <3>1. m + 1 \in 1 .. m + 1 /\ m + 1 + 1 > m + 1
        BY <1>1
      <3>2. exact[m + 1] = LearningUpdate(after[m + 1], << after[m + 1].reward >>, << >>)
        BY <2>1, <2>2, <3>1
      <3> QED BY <1>1, <3>2 DEF last
    <2>4. ASSUME NEW k \in 1 .. m
          PROVE  exact[k] = old[k]
      <3>1. k \in 1 .. m + 1 /\ ~ (k + 1 > m + 1)
        BY <1>1
      <3>2. exact[k] = LearningUpdate(after[k], << after[k].reward >>, << after[k + 1].state >>)
        BY <2>1, <2>2, <3>1
      <3> QED BY <1>6, <3>2
    <2> QED BY <2>1, <2>3, <2>4
  <1>8. /\ DOMAIN owed = 1 .. m + 1 /\ owed[m + 1] = next /\ \A k \in 1 .. m : owed[k] = old[k]
    <2>1. owed = [k \in 1 .. m + 1 |->
            LearningUpdate(after[k], << after[k].reward >>,
                           << IF k < m + 1 THEN after[k + 1].state ELSE state >>)]
      BY <1>1 DEF Owed
    <2> HIDE DEF owed
    <2>2. owed[m + 1] = next
      <3>1. m + 1 \in 1 .. m + 1 /\ ~ (m + 1 < m + 1)
        BY <1>1
      <3> QED BY <1>1, <2>1, <3>1 DEF next
    <2>3. ASSUME NEW k \in 1 .. m
          PROVE  owed[k] = old[k]
      <3>1. k \in 1 .. m + 1 /\ k < m + 1
        BY <1>1
      <3>2. owed[k] = LearningUpdate(after[k], << after[k].reward >>, << after[k + 1].state >>)
        BY <2>1, <3>1
      <3> QED BY <1>6, <3>2
    <2> QED BY <2>1, <2>2, <2>3
  <1>9. Ends(updates, n0, old, m)
    BY DEF old, m
  <1> HIDE DEF exact, owed
  <1>10. Ends(Append(updates, last), n0, exact, m + 1)
    BY <1>7, <1>9, EndsAppend
  <1>11. Ends(Append(updates, next), n0, owed, m + 1)
    BY <1>8, <1>9, EndsAppend
  <1> QED BY <1>3, <1>4, <1>10, <1>11 DEF m, after, exact, owed

\* Two-step SARSA: the older of two rewards is settled, the end settles both.
LEMMA TwoStepStep ==
  ASSUME NEW method, method # "expected-sarsa", NEW updates, NEW n0, NEW trace, trace \in Seq(Range(trace)),
         NEW row, NEW key, NEW choice, NEW pending,
         pending = IF trace = << >> THEN << >> ELSE << trace[Len(trace)] >>,
         Ends(updates, n0, Owed(method, trace, row.state, row.action),
              IF Len(trace) = 0 THEN 0 ELSE Len(trace) - 1)
  PROVE  LET after == Append(trace, row)
         IN /\ Ends(updates \o TwoStepUpdates(row, key, pending, choice, TRUE), n0,
                    ExactUpdates(method, after), Len(trace) + 1)
            /\ Ends(updates \o TwoStepUpdates(row, key, pending, choice, FALSE), n0,
                    Owed(method, after, key, choice), Len(trace))
  <1> DEFINE after == Append(trace, row)
             m == Len(trace)
             old == Owed(method, trace, row.state, row.action)
             owed == Owed(method, after, key, choice)
             exact == ExactUpdates(method, after)
             last == LearningUpdate(row, << row.reward >>, << >>)
             two == LearningUpdate(trace[m], << trace[m].reward, row.reward >>, << key, choice >>)
             end == LearningUpdate(trace[m], << trace[m].reward, row.reward >>, << >>)
             most == [k \in 1 .. m |-> exact[k]]
             updatesDone == TwoStepUpdates(row, key, pending, choice, TRUE)
             updatesNot == TwoStepUpdates(row, key, pending, choice, FALSE)
  <1>1. /\ m \in Nat /\ DOMAIN old = 1 .. m - 1 /\ DOMAIN owed = 1 .. m /\ DOMAIN exact = 1 .. m + 1
        /\ \A k \in 1 .. m - 1 : owed[k] = old[k] /\ exact[k] = old[k]
        /\ m # 0 => owed[m] = two /\ exact[m] = end
        /\ exact[m + 1] = last
    <2> DEFINE Pair(k) == LearningUpdate(after[k], << after[k].reward, after[k + 1].reward >>,
                                         << after[k + 2].state, after[k + 2].action >>)
    <2>1. /\ m \in Nat /\ Len(after) = m + 1 /\ DOMAIN after = 1 .. m + 1
          /\ \A k \in 1 .. m : after[k] = trace[k]
          /\ after[m + 1] = row
      BY AppendPlaces
    <2>2. old = [k \in 1 .. m - 1 |->
            LearningUpdate(trace[k], << trace[k].reward, trace[k + 1].reward >>,
                           IF k + 1 < m THEN << trace[k + 2].state, trace[k + 2].action >>
                           ELSE << row.state, row.action >>)]
      BY DEF Owed
    <2> HIDE DEF after, last, two, end, most, updatesDone, updatesNot
    <2>3. owed = [k \in 1 .. m |->
            LearningUpdate(after[k], << after[k].reward, after[k + 1].reward >>,
                           IF k + 1 < m + 1 THEN << after[k + 2].state, after[k + 2].action >>
                           ELSE << key, choice >>)]
      <3>1. Len(after) - 1 = m
        BY <2>1
      <3> HIDE DEF m
      <3> QED BY <2>1, <3>1 DEF Owed
    <2>4. exact = [k \in 1 .. m + 1 |-> TargetOf(method, after, k)]
      BY <2>1 DEF ExactUpdates
    <2> HIDE DEF m, old, owed, exact
    <2>5. ASSUME NEW k \in 1 .. m - 1
          PROVE  old[k] = Pair(k)
      <3>1. PICK j \in 1 .. m : j = k
        BY <2>1
      <3>2. PICK l \in 1 .. m : l = k + 1
        BY <2>1
      <3>3. after[k] = trace[k] /\ after[k + 1] = trace[k + 1]
        BY <2>1, <3>1, <3>2
      <3>4. after[k + 2] = IF k + 1 < m THEN trace[k + 2] ELSE row
        <4>1. CASE k + 1 < m
          <5>1. PICK i \in 1 .. m : i = k + 2
            BY <2>1, <4>1
          <5> QED BY <2>1, <4>1, <5>1
        <4>2. CASE ~ (k + 1 < m)
          <5>1. k + 2 = m + 1
            BY <2>1, <4>2
          <5> QED BY <2>1, <4>2, <5>1
        <4> QED BY <4>1, <4>2
      <3>5. old[k] = LearningUpdate(trace[k], << trace[k].reward, trace[k + 1].reward >>,
                                    IF k + 1 < m THEN << trace[k + 2].state, trace[k + 2].action >>
                                    ELSE << row.state, row.action >>)
        BY <2>2
      <3>6. << after[k + 2].state, after[k + 2].action >>
              = IF k + 1 < m THEN << trace[k + 2].state, trace[k + 2].action >> ELSE << row.state, row.action >>
        BY <3>4
      <3> QED BY <3>3, <3>5, <3>6
    <2>6. ASSUME NEW k \in 1 .. m - 1
          PROVE  owed[k] = Pair(k) /\ exact[k] = Pair(k)
      <3>1. k \in 1 .. m /\ k \in 1 .. m + 1 /\ k + 1 < m + 1 /\ k # m + 1 /\ ~ (k + 2 > m + 1)
        BY <2>1
      <3>2. owed[k] = Pair(k)
        BY <2>3, <3>1
      <3>3. TargetOf(method, after, k) = Pair(k)
        BY <2>1, <3>1 DEF TargetOf
      <3> HIDE DEF Pair
      <3> QED BY <2>4, <3>1, <3>2, <3>3
    <2>7. ASSUME m # 0
          PROVE  /\ owed[m] = LearningUpdate(trace[m], << trace[m].reward, row.reward >>, << key, choice >>)
                 /\ exact[m] = LearningUpdate(trace[m], << trace[m].reward, row.reward >>, << >>)
      <3>1. m \in 1 .. m /\ m \in 1 .. m + 1 /\ ~ (m + 1 < m + 1) /\ m # m + 1 /\ m + 2 > m + 1
        BY <2>1, <2>7
      <3>2. after[m] = trace[m] /\ after[m + 1] = row
        BY <2>1, <3>1
      <3>3. TargetOf(method, after, m)
              = LearningUpdate(after[m], << after[m].reward, after[m + 1].reward >>, << >>)
        BY <2>1, <3>1 DEF TargetOf
      <3>4. owed[m] = LearningUpdate(after[m], << after[m].reward, after[m + 1].reward >>, << key, choice >>)
        BY <2>3, <3>1
      <3> QED BY <2>4, <3>1, <3>2, <3>3, <3>4
    <2>8. exact[m + 1] = LearningUpdate(row, << row.reward >>, << >>)
      <3>1. m + 1 \in 1 .. m + 1 /\ m + 1 + 1 > m + 1
        BY <2>1
      <3>2. TargetOf(method, after, m + 1) = LearningUpdate(after[m + 1], << after[m + 1].reward >>, << >>)
        BY <2>1, <3>1 DEF TargetOf
      <3> QED BY <2>1, <2>4, <3>1, <3>2
    <2>9. DOMAIN old = 1 .. m - 1 /\ DOMAIN owed = 1 .. m /\ DOMAIN exact = 1 .. m + 1
      BY <2>2, <2>3, <2>4
    <2>10. \A k \in 1 .. m - 1 : owed[k] = old[k] /\ exact[k] = old[k]
      <3> HIDE DEF Pair
      <3> QED BY <2>5, <2>6
    <2> QED BY <2>1, <2>7, <2>8, <2>9, <2>10 DEF two, end, last
  <1>2. updates \in Seq(Range(updates)) /\ n0 \in Nat
    BY DEF Ends
  <1>3. \A e : updates \o << e >> = Append(updates, e)
    BY <1>2, AppendPlaces
  <1>4. updates \o << >> = updates
    BY <1>2
  <1>5. trace = << >> <=> m = 0
    BY <1>1
  <1>6. CASE m = 0
    <2>1. pending = << >> /\ Ends(updates, n0, old, 0)
      BY <1>5, <1>6
    <2>2. updatesDone = << last >> /\ updatesNot = << >>
      <3>1. updatesDone = << >> \o << last >> /\ updatesNot = << >> \o << >>
        BY <2>1 DEF TwoStepUpdates
      <3> HIDE DEF last, updatesDone, updatesNot
      <3>2. << >> \o << last >> = << last >> /\ << >> \o << >> = << >>
        <4>1. << last >> \in Seq({last}) /\ << >> \in Seq({last})
          OBVIOUS
        <4> QED BY <4>1
      <3> QED BY <3>1, <3>2
    <2> HIDE DEF m, old, owed, exact, last, updatesDone, updatesNot
    <2>3. Ends(updates, n0, owed, 0)
      BY <1>1, <1>6, <2>1 DEF Ends
    <2>4. Ends(Append(updates, last), n0, exact, 0 + 1)
      <3>1. DOMAIN exact = 1 .. 0 + 1 /\ exact[0 + 1] = last /\ \A k \in 1 .. 0 : exact[k] = old[k]
        BY <1>1, <1>6
      <3> QED BY <2>1, <3>1, EndsAppend
    <2>5. Ends(updates \o updatesNot, n0, owed, m) /\ Ends(updates \o updatesDone, n0, exact, m + 1)
      BY <1>3, <1>4, <1>6, <2>2, <2>3, <2>4
    <2> QED BY <2>5 DEF m, owed, exact, updatesDone, updatesNot
  <1>7. CASE m # 0
    <2>1. pending = << trace[m] >> /\ Ends(updates, n0, old, m - 1)
      BY <1>5, <1>7
    <2>2. updatesDone = << end >> \o << last >> /\ updatesNot = << two >>
      <3>1. pending # << >> /\ pending[1] = trace[m]
        BY <2>1
      <3>2. updatesDone = << end >> \o << last >> /\ updatesNot = << two >> \o << >>
        BY <3>1 DEF TwoStepUpdates
      <3> HIDE DEF two, updatesDone, updatesNot
      <3>3. << two >> \o << >> = << two >>
        <4>1. << two >> \in Seq({two})
          OBVIOUS
        <4> QED BY <4>1
      <3> QED BY <3>2, <3>3
    <2> HIDE DEF old, owed, exact, last, two, end, updatesDone, updatesNot
    <2>3. DOMAIN owed = 1 .. m - 1 + 1 /\ owed[m - 1 + 1] = two /\ \A k \in 1 .. m - 1 : owed[k] = old[k]
      BY <1>1, <1>7
    <2>4. DOMAIN most = 1 .. m - 1 + 1 /\ most[m - 1 + 1] = end /\ \A k \in 1 .. m - 1 : most[k] = old[k]
      BY <1>1, <1>7
    <2>5. DOMAIN exact = 1 .. m + 1 /\ exact[m + 1] = last /\ \A k \in 1 .. m : exact[k] = most[k]
      BY <1>1
    <2>6. m - 1 + 1 = m
      BY <1>1
    <2> HIDE DEF m, most
    <2>7. Ends(Append(updates, two), n0, owed, m - 1 + 1)
      BY <2>1, <2>3, EndsAppend
    <2>8. Ends(Append(updates, end), n0, most, m - 1 + 1)
      BY <2>1, <2>4, EndsAppend
    <2>9. Ends(Append(Append(updates, end), last), n0, exact, m + 1)
      BY <2>5, <2>6, <2>8, EndsAppend
    <2>10. updates \o (<< end >> \o << last >>) = Append(Append(updates, end), last)
      <3> DEFINE T == Range(updates) \union {end, last}
      <3>1. updates \in Seq(Range(updates))
        BY <1>2
      <3>2. Range(updates) \subseteq T /\ end \in T /\ last \in T
        OBVIOUS
      <3> HIDE DEF T
      <3>3. updates \in Seq(T)
        BY <3>1, <3>2
      <3>4. << end >> \in Seq(T) /\ << last >> \in Seq(T)
        BY <3>2
      <3>5. << end >> \o << last >> = Append(<< end >>, last)
        BY <3>4
      <3>6. updates \o Append(<< end >>, last) = Append(updates \o << end >>, last)
        BY <3>2, <3>3, <3>4
      <3> QED BY <1>3, <3>5, <3>6
    <2>11. Ends(updates \o updatesNot, n0, owed, m) /\ Ends(updates \o updatesDone, n0, exact, m + 1)
      BY <1>3, <2>2, <2>6, <2>7, <2>9, <2>10
    <2> QED BY <2>11 DEF m, owed, exact, updatesDone, updatesNot
  <1> QED BY <1>6, <1>7

\* One step of a tabular learner keeps what has been learnt exact.
LEMMA LearnStepKeeps ==
  ASSUME NEW method, NEW i, NEW n0, NEW r, LearnOk(method, i, n0, r), ~ Terminated(r.env), NEW model
  PROVE  LearnOk(method, i, n0, LearnStep(model, method, i, r))
  <1> DEFINE next == Step(model, r.env, Incidents[i].symbols, r.action)
             done == Terminated(next)
             key == StateKey(i, next)
             row == [state |-> StateKey(i, r.env), action |-> r.action,
                     reward |-> StepReward(i, r.env, next)]
             choice == IF done THEN STOP ELSE Behave(next, r.policy.rng)
             made(end) == IF method = "expected-sarsa" THEN ExpectedUpdates(row, key, end)
                          ELSE TwoStepUpdates(row, key, r.pending, choice, end)
             m == Len(r.trace)
             after == Append(r.trace, row)
             result == LearnStep(model, method, i, r)
             updates == r.policy.updates \o made(done)
  <1>1. /\ DOMAIN result = LearnFields /\ DOMAIN result.policy = {"updates", "rng"}
        /\ result.env = next /\ result.action = choice /\ result.pending = << row >>
        /\ result.trace = after /\ result.policy.updates = updates
    BY DEF LearnStep, Learnt, LearnFields
  <1>2. r.trace \in Seq(Range(r.trace))
    BY DEF LearnOk
  <1>3. /\ m \in Nat /\ Len(after) = m + 1 /\ after \in Seq(Range(after))
        /\ after # << >> /\ after[m + 1] = row
    <2> HIDE DEF row
    <2> QED BY <1>2, AppendPlaces
  <1>4. row.state = StateKey(i, r.env) /\ row.action = r.action
    OBVIOUS
  <1>5. /\ r.pending = IF r.trace = << >> THEN << >> ELSE << r.trace[m] >>
        /\ Ends(r.policy.updates, n0, Owed(method, r.trace, row.state, row.action),
                IF method = "expected-sarsa" \/ m = 0 THEN m ELSE m - 1)
    <2> HIDE DEF row
    <2> QED BY <1>4 DEF LearnOk
  <1>6. done \in BOOLEAN
    BY DEF Terminated
  <1> HIDE DEF next, done, key, row, choice, m
  <1>7. /\ Ends(r.policy.updates \o made(TRUE), n0, ExactUpdates(method, after), m + 1)
        /\ Ends(r.policy.updates \o made(FALSE), n0, Owed(method, after, key, choice),
                IF method = "expected-sarsa" THEN m + 1 ELSE m)
    <2>1. CASE method = "expected-sarsa"
      <3>1. Ends(r.policy.updates, n0, Owed("expected-sarsa", r.trace, row.state, row.action), Len(r.trace))
        BY <1>5, <2>1 DEF m
      <3>2. /\ Ends(r.policy.updates \o ExpectedUpdates(row, key, TRUE), n0,
                    ExactUpdates("expected-sarsa", after), Len(r.trace) + 1)
            /\ Ends(r.policy.updates \o ExpectedUpdates(row, key, FALSE), n0,
                    Owed("expected-sarsa", after, key, choice), Len(r.trace) + 1)
        BY <1>2, <3>1, ExpectedStep
      <3> QED BY <2>1, <3>2 DEF m
    <2>2. CASE method # "expected-sarsa"
      <3>1. /\ r.pending = IF r.trace = << >> THEN << >> ELSE << r.trace[Len(r.trace)] >>
            /\ Ends(r.policy.updates, n0, Owed(method, r.trace, row.state, row.action),
                    IF Len(r.trace) = 0 THEN 0 ELSE Len(r.trace) - 1)
        BY <1>5, <2>2 DEF m
      <3>2. /\ Ends(r.policy.updates \o TwoStepUpdates(row, key, r.pending, choice, TRUE), n0,
                    ExactUpdates(method, after), Len(r.trace) + 1)
            /\ Ends(r.policy.updates \o TwoStepUpdates(row, key, r.pending, choice, FALSE), n0,
                    Owed(method, after, key, choice), Len(r.trace))
        BY <1>2, <2>2, <3>1, TwoStepStep
      <3> QED BY <2>2, <3>2 DEF m
    <2> QED BY <2>1, <2>2
  <1> HIDE DEF made, after, updates, result
  <1>8. CASE done
    <2>1. Ends(updates, n0, ExactUpdates(method, after), m + 1)
      <3>1. done = TRUE
        BY <1>6, <1>8
      <3> QED BY <1>7, <3>1 DEF updates
    <2>2. /\ Terminated(result.env)
          /\ Ends(result.policy.updates, n0, ExactUpdates(method, result.trace), Len(result.trace))
      BY <1>1, <1>3, <1>8, <2>1 DEF done
    <2>3. LearnOk(method, i, n0, result)
      BY <1>1, <1>3, <2>2 DEF LearnOk
    <2> QED BY <2>3 DEF result
  <1>9. CASE ~ done
    <2>1. Ends(updates, n0, Owed(method, after, key, choice), IF method = "expected-sarsa" THEN m + 1 ELSE m)
      <3>1. done = FALSE
        BY <1>6, <1>9
      <3> QED BY <1>7, <3>1 DEF updates
    <2> DEFINE k == Len(after)
    <2>2. (IF method = "expected-sarsa" THEN m + 1 ELSE m)
            = IF method = "expected-sarsa" \/ k = 0 THEN k ELSE k - 1
      BY <1>3
    <2>3. ~ Terminated(result.env) /\ StateKey(i, result.env) = key /\ result.action = choice
      BY <1>1, <1>9 DEF done, key
    <2>4. result.pending = IF after = << >> THEN << >> ELSE << after[k] >>
      BY <1>1, <1>3
    <2> HIDE DEF k
    <2>5. Ends(updates, n0, Owed(method, after, key, choice),
               IF method = "expected-sarsa" \/ k = 0 THEN k ELSE k - 1)
      BY <2>1, <2>2
    <2>6. LearnOk(method, i, n0, result)
      BY <1>1, <1>3, <2>3, <2>4, <2>5 DEF LearnOk, k
    <2> QED BY <2>6 DEF result
  <1> QED BY <1>8, <1>9

\* An episode of a tabular learner ends, with all of its trace learnt.
LEMMA EpisodeIsLearnt ==
  ASSUME NEW method, NEW i, NEW policy, DOMAIN policy = {"updates", "rng"},
         policy.updates \in Seq(Range(policy.updates)), NEW model
  PROVE  LET r == LearnEpisode(model, method, i, policy)
         IN /\ DOMAIN r.policy = {"updates", "rng"} /\ r.trace \in Seq(Range(r.trace))
            /\ Ends(r.policy.updates, Len(policy.updates), ExactUpdates(method, r.trace), Len(r.trace))
  <1> DEFINE n0 == Len(policy.updates)
             base == LearnBase(policy)
  <1>1. PICK f : /\ f[0] = base
                 /\ \A k \in 1 .. MAX_PROBES :
                      f[k] = IF Terminated(f[k - 1].env) THEN f[k - 1]
                             ELSE LearnStep(model, method, i, f[k - 1])
                 /\ LearnEpisode(model, method, i, policy) = f[MAX_PROBES]
    BY LearnEpisodeSteps
  <1>2. MAX_PROBES \in Nat
    BY TaskAssumption
  <1>4. InTime(base.env, 0) /\ LearnOk(method, i, n0, base)
    <2>1. /\ DOMAIN base = LearnFields /\ DOMAIN base.policy = {"updates", "rng"}
          /\ base.env = Reset(Specs) /\ base.trace = << >> /\ base.pending = << >>
          /\ base.policy.updates = policy.updates
      BY DEF LearnBase, LearnFields
    <2>2. ~ Terminated(Reset(Specs))
      BY ResetIsEmpty
    <2>3. << >> \in Seq(Range(<< >>)) /\ Len(<< >>) = 0
      OBVIOUS
    <2> HIDE DEF base
    <2>4. Ends(policy.updates, n0, Owed(method, << >>, StateKey(i, base.env), base.action), 0)
      <3> DEFINE want == Owed(method, << >>, StateKey(i, base.env), base.action)
      <3>1. DOMAIN want = 1 .. 0
        BY <2>3 DEF Owed
      <3> HIDE DEF want
      <3>2. n0 \in Nat /\ 1 .. 0 = {} /\ n0 + 0 = n0
        OBVIOUS
      <3>3. Ends(policy.updates, n0, want, 0)
        BY <3>1, <3>2 DEF Ends
      <3> QED BY <3>3 DEF want
    <2>5. Ends(base.policy.updates, n0, Owed(method, base.trace, StateKey(i, base.env), base.action),
               IF method = "expected-sarsa" \/ Len(base.trace) = 0 THEN Len(base.trace) ELSE Len(base.trace) - 1)
      BY <2>1, <2>3, <2>4
    <2> HIDE DEF n0
    <2> QED BY <2>1, <2>2, <2>3, <2>5, ResetInTime DEF LearnOk
  <1> DEFINE Good(k) == InTime(f[k].env, k) /\ LearnOk(method, i, n0, f[k])
             P == {k \in Nat : k <= MAX_PROBES => Good(k)}
  <1> HIDE DEF n0, base
  <1>5. 0 \in P
    BY <1>1, <1>4
  <1>6. ASSUME NEW k \in Nat, k \in P, k + 1 <= MAX_PROBES
        PROVE  Good(k + 1)
    <2>1. Good(k)
      BY <1>2, <1>6
    <2>2. f[k + 1] = IF Terminated(f[k].env) THEN f[k] ELSE LearnStep(model, method, i, f[k])
      <3>1. PICK j \in 1 .. MAX_PROBES : j = k + 1 /\ j - 1 = k
        BY <1>2, <1>6
      <3> QED BY <1>1, <3>1
    <2> DEFINE r == f[k]
    <2>3. CASE Terminated(r.env)
      <3>1. f[k + 1] = r
        BY <2>2, <2>3
      <3> QED BY <2>1, <2>3, <3>1 DEF InTime
    <2>4. CASE ~ Terminated(r.env)
      <3>1. f[k + 1] = LearnStep(model, method, i, r)
        BY <2>2, <2>4
      <3>2. InTime(r.env, k) /\ LearnOk(method, i, n0, r)
        BY <2>1
      <3> HIDE DEF r, P, Good
      <3>3. LearnOk(method, i, n0, LearnStep(model, method, i, r))
        BY <2>4, <3>2, LearnStepKeeps
      <3>4. InTime(LearnStep(model, method, i, r).env, k + 1)
        <4>1. LearnStep(model, method, i, r).env = Step(model, r.env, Incidents[i].symbols, r.action)
          BY DEF LearnStep, Learnt
        <4>2. InTime(Step(model, r.env, Incidents[i].symbols, r.action), k + 1)
          BY <2>4, <3>2, StepInTime
        <4> QED BY <4>1, <4>2
      <3> QED BY <3>1, <3>3, <3>4 DEF Good
    <2> QED BY <2>3, <2>4
  <1>7. P = Nat
    <2>1. P \in SUBSET Nat /\ \A k \in P : k + 1 \in P
      <3> HIDE DEF Good
      <3> QED BY <1>6
    <2> HIDE DEF P
    <2> QED BY <1>5, <2>1, NumberInduction
  <1>8. Good(MAX_PROBES)
    <2>1. MAX_PROBES \in P
      <3> HIDE DEF P
      <3> QED BY <1>2, <1>7
    <2> HIDE DEF Good
    <2> QED BY <1>2, <2>1
  <1>9. Terminated(f[MAX_PROBES].env)
    BY <1>2, <1>8 DEF InTime
  <1> QED BY <1>1, <1>8, <1>9 DEF LearnOk, n0

-----------------------------------------------------------------------------
(* The DQN trainer: its buffer and its target network.                       *)

\* Counting up to a period and starting again.
LEMMA Wraps ==
  ASSUME NEW period \in Nat \ {0}, NEW n \in 0 .. period
  PROVE  n % period = IF n = period THEN 0 ELSE n
  <1>1. CASE n = period
    <2>1. n = period * 1 + 0
      BY <1>1
    <2> QED BY <1>1
  <1>2. CASE n # period
    <2>1. n < period /\ n >= 0
      BY <1>2
    <2> QED BY <2>1
  <1> QED BY <1>1, <1>2

Synchronised(n) == (n \div TARGET_SYNC) * TARGET_SYNC

\* The last synchronisation is this gradient step or that of the step before.
LEMMA SynchronisedSteps ==
  ASSUME NEW n \in Nat
  PROVE  /\ Synchronised(0) = 0
         /\ Synchronised(n + 1) = IF (n + 1) % TARGET_SYNC = 0 THEN n + 1 ELSE Synchronised(n)
  <1> DEFINE S == TARGET_SYNC
             q == n \div S
             r == n % S
             q1 == (n + 1) \div S
             r1 == (n + 1) % S
  <1>1. S \in Nat /\ S > 0
    BY LearningAssumption
  <1>2. /\ q \in Nat /\ r \in 0 .. S - 1 /\ n = S * q + r
        /\ q1 \in Nat /\ r1 \in 0 .. S - 1 /\ n + 1 = S * q1 + r1
    BY <1>1
  <1>3. Synchronised(0) = 0
    <2>1. 0 \div S = 0 /\ 0 * S = 0
      BY <1>1
    <2> QED BY <2>1 DEF Synchronised
  <1>4. Synchronised(n) = q * S /\ Synchronised(n + 1) = q1 * S
    BY DEF Synchronised
  <1> HIDE DEF S, q, r, q1, r1
  <1>5. CASE r1 = 0
    <2>1. q1 * S = S * q1
      BY <1>1, <1>2
    <2>2. q1 * S = n + 1
      <3> DEFINE y == S * q1
      <3>1. y \in Nat
        BY <1>1, <1>2
      <3> HIDE DEF y
      <3>2. n + 1 = y + r1
        BY <1>2 DEF y
      <3>3. n + 1 = y
        BY <1>5, <3>1, <3>2
      <3> QED BY <2>1, <3>3 DEF y
    <2> QED BY <1>3, <1>4, <1>5, <2>2 DEF r1, S
  <1>6. CASE r1 # 0
    <2>1. S * q = S * q1
      <3>1. q <= q1 \/ q >= q1 + 1
        BY <1>2
      <3>2. q1 <= q \/ q1 >= q + 1
        BY <1>2
      <3>3. q >= q1 + 1 => S * q >= S * q1 + S
        <4> SUFFICES ASSUME q >= q1 + 1 PROVE S * q >= S * q1 + S
          OBVIOUS
        <4>1. PICK d \in Nat : q = q1 + 1 + d
          <5>1. q - (q1 + 1) \in Nat /\ q = q1 + 1 + (q - (q1 + 1))
            BY <1>2
          <5> QED BY <5>1
        <4>2. S * q = S * q1 + S + S * d /\ S * d \in Nat /\ S * q1 \in Nat
          BY <1>1, <1>2, <4>1
        <4> QED BY <1>1, <4>2
      <3>4. q1 >= q + 1 => S * q1 >= S * q + S
        <4> SUFFICES ASSUME q1 >= q + 1 PROVE S * q1 >= S * q + S
          OBVIOUS
        <4>1. PICK d \in Nat : q1 = q + 1 + d
          <5>1. q1 - (q + 1) \in Nat /\ q1 = q + 1 + (q1 - (q + 1))
            BY <1>2
          <5> QED BY <5>1
        <4>2. S * q1 = S * q + S + S * d /\ S * d \in Nat /\ S * q \in Nat
          BY <1>1, <1>2, <4>1
        <4> QED BY <1>1, <4>2
      <3> DEFINE x == S * q
                 y == S * q1
      <3>5. x \in Nat /\ y \in Nat
        BY <1>1, <1>2
      <3> HIDE DEF x, y
      <3>6. n = x + r /\ n + 1 = y + r1
        BY <1>2 DEF x, y
      <3>7. ~ (x >= y + S) /\ ~ (y >= x + S)
        BY <1>1, <1>2, <1>6, <3>5, <3>6
      <3>8. q = q1
        BY <3>1, <3>2, <3>3, <3>4, <3>7, <1>2 DEF x, y
      <3> QED BY <3>8
    <2>2. q1 * S = q * S
      BY <1>1, <1>2, <2>1
    <2> QED BY <1>3, <1>4, <1>6, <2>2 DEF r1, S
  <1> QED BY <1>5, <1>6

(* A buffer holds the last transitions, the oldest after its cursor.           *)
Holds(buffer, rows) ==
  LET n == Len(rows)
      c == buffer.cursor
  IN /\ DOMAIN buffer = {"rows", "cursor"} /\ rows \in Seq(Range(rows))
     /\ buffer.rows \in Seq(Range(buffer.rows))
     /\ IF n < CAPACITY THEN buffer.rows = rows /\ c = n
        ELSE /\ Len(buffer.rows) = CAPACITY /\ c \in 0 .. CAPACITY - 1
             /\ \A p \in 1 .. c : buffer.rows[p] = rows[n - c + p]
             /\ \A p \in c + 1 .. CAPACITY : buffer.rows[p] = rows[n - c - CAPACITY + p]

\* Replacing a place of a sequence.
LEMMA ReplacePlaces ==
  ASSUME NEW s, s \in Seq(Range(s)), NEW p \in 1 .. Len(s), NEW e
  PROVE  LET t == [s EXCEPT ![p] = e]
         IN /\ t \in Seq(Range(t)) /\ Len(t) = Len(s) /\ t[p] = e
            /\ \A k \in 1 .. Len(s) : k # p => t[k] = s[k]
  <1> DEFINE t == [s EXCEPT ![p] = e]
             n == Len(s)
  <1>1. n \in Nat /\ DOMAIN s = 1 .. n
    OBVIOUS
  <1>2. DOMAIN t = 1 .. n /\ t[p] = e /\ \A k \in 1 .. n : k # p => t[k] = s[k]
    BY <1>1
  <1>3. t = [k \in 1 .. n |-> t[k]]
    BY <1>1
  <1> HIDE DEF t, n
  <1>4. \A k \in 1 .. n : t[k] \in Range(t)
    BY <1>2 DEF Range
  <1>5. t \in Seq(Range(t)) /\ Len(t) = n
    BY <1>1, <1>3, <1>4
  <1> QED BY <1>1, <1>2, <1>5 DEF t, n

\* What a full buffer holds.
LEMMA FullHolds ==
  ASSUME NEW buffer, NEW rows, NEW n \in Nat, NEW c \in 0 .. CAPACITY - 1,
         DOMAIN buffer = {"rows", "cursor"}, rows \in Seq(Range(rows)), Len(rows) = n, buffer.cursor = c,
         buffer.rows \in Seq(Range(buffer.rows)), Len(buffer.rows) = CAPACITY, ~ (n < CAPACITY),
         \A p \in 1 .. c : buffer.rows[p] = rows[n - c + p],
         \A p \in c + 1 .. CAPACITY : buffer.rows[p] = rows[n - c - CAPACITY + p]
  PROVE  Holds(buffer, rows)
  BY DEF Holds

\* Adding a row keeps the buffer on the last transitions.
LEMMA AddKeeps ==
  ASSUME NEW buffer, NEW rows, Holds(buffer, rows), NEW row
  PROVE  Holds(Add(buffer, row), Append(rows, row))
  <1> DEFINE n == Len(rows)
             c == buffer.cursor
             held == buffer.rows
             after == Append(rows, row)
             new == Add(buffer, row)
             N == CAPACITY
  <1>1. N \in Nat /\ N > 0
    BY LearningAssumption
  <1>2. /\ DOMAIN buffer = {"rows", "cursor"} /\ rows \in Seq(Range(rows)) /\ held \in Seq(Range(held))
    BY DEF Holds
  <1>3. /\ after \in Seq(Range(after)) /\ Len(after) = n + 1 /\ n \in Nat
        /\ \A k \in 1 .. n : after[k] = rows[k]
        /\ after[n + 1] = row
    BY <1>2, AppendPlaces
  <1>4. /\ DOMAIN new = {"rows", "cursor"}
        /\ new.rows = IF Len(held) < N THEN Append(held, row) ELSE [held EXCEPT ![c + 1] = row]
        /\ new.cursor = (c + 1) % N
    BY DEF Add
  <1>5. CASE n < N
    <2>1. held = rows /\ c = n
      BY <1>5 DEF Holds
    <2>2. new.rows = after
      BY <1>4, <1>5, <2>1
    <2>3. new.cursor = IF n + 1 = N THEN 0 ELSE n + 1
      <3>1. N \in Nat \ {0} /\ n + 1 \in 0 .. N
        BY <1>1, <1>3, <1>5
      <3>2. (n + 1) % N = IF n + 1 = N THEN 0 ELSE n + 1
        <4> HIDE DEF n, N
        <4> QED BY <3>1, Wraps
      <3> QED BY <1>4, <2>1, <3>2
    <2> HIDE DEF n, c, held, after, new, N
    <2>4. CASE n + 1 = N
      <3> DEFINE k == n + 1
                 z == 0
      <3>1. /\ new.cursor = z /\ k \in Nat /\ z \in 0 .. N - 1 /\ ~ (k < N)
            /\ Len(after) = k /\ Len(new.rows) = N /\ z = 0 /\ k = N
        BY <1>1, <1>3, <2>2, <2>3, <2>4
      <3> HIDE DEF k, z
      <3>2. \A p \in 1 .. z : new.rows[p] = after[k - z + p]
        BY <3>1
      <3>3. \A p \in z + 1 .. N : new.rows[p] = after[k - z - N + p]
        <4> TAKE p \in z + 1 .. N
        <4>1. k - z - N + p = p
          BY <1>1, <3>1
        <4> QED BY <2>2, <4>1
      <3>4. Holds(new, after)
        BY <1>3, <1>4, <2>2, <3>1, <3>2, <3>3, FullHolds DEF N
      <3> QED BY <3>4 DEF new, after
    <2>5. CASE n + 1 # N
      <3>1. new.cursor = n + 1 /\ n + 1 < N
        BY <1>1, <1>3, <1>5, <2>3, <2>5
      <3>2. Holds(new, after)
        BY <1>3, <1>4, <2>2, <3>1 DEF Holds, N
      <3> QED BY <3>2 DEF new, after
    <2> QED BY <2>4, <2>5
  <1>6. CASE ~ (n < N)
    <2>1. /\ Len(held) = N /\ c \in 0 .. N - 1
          /\ \A p \in 1 .. c : held[p] = rows[n - c + p]
          /\ \A p \in c + 1 .. N : held[p] = rows[n - c - N + p]
      BY <1>6 DEF Holds
    <2>2. /\ new.rows \in Seq(Range(new.rows)) /\ Len(new.rows) = N /\ new.rows[c + 1] = row
          /\ \A k \in 1 .. N : k # c + 1 => new.rows[k] = held[k]
      <3> DEFINE p == c + 1
      <3>1. p \in 1 .. Len(held) /\ ~ (Len(held) < N)
        BY <1>1, <2>1
      <3>2. new.rows = [held EXCEPT ![p] = row]
        BY <1>4, <3>1
      <3> HIDE DEF p, held, new, c
      <3>3. LET t == [held EXCEPT ![p] = row]
            IN /\ t \in Seq(Range(t)) /\ Len(t) = Len(held) /\ t[p] = row
               /\ \A k \in 1 .. Len(held) : k # p => t[k] = held[k]
        BY <1>2, <3>1, ReplacePlaces
      <3> QED BY <2>1, <3>2, <3>3 DEF p
    <2>3. new.cursor = IF c + 1 = N THEN 0 ELSE c + 1
      <3>1. N \in Nat \ {0} /\ c + 1 \in 0 .. N
        BY <1>1, <2>1
      <3>2. (c + 1) % N = IF c + 1 = N THEN 0 ELSE c + 1
        <4> HIDE DEF c, N
        <4> QED BY <3>1, Wraps
      <3> QED BY <1>4, <3>2
    <2> HIDE DEF n, c, held, after, new, N
    <2>4. \A p \in 1 .. c : new.rows[p] = after[n - c + p]
      <3> TAKE p \in 1 .. c
      <3>1. p \in 1 .. N /\ p # c + 1 /\ n - c + p \in 1 .. n
        BY <1>1, <1>3, <1>6, <2>1
      <3> QED BY <1>3, <2>1, <2>2, <3>1
    <2>5. \A p \in c + 2 .. N : new.rows[p] = after[n - c - N + p]
      <3> TAKE p \in c + 2 .. N
      <3>1. p \in 1 .. N /\ p # c + 1 /\ p \in c + 1 .. N /\ n - c - N + p \in 1 .. n
        BY <1>1, <1>3, <1>6, <2>1
      <3> QED BY <1>3, <2>1, <2>2, <3>1
    <2>6. ~ (n + 1 < N)
      BY <1>1, <1>3, <1>6
    <2>7. CASE c + 1 = N
      <3> DEFINE k == n + 1
                 z == 0
      <3>1. /\ new.cursor = z /\ k \in Nat /\ z \in 0 .. N - 1 /\ ~ (k < N)
            /\ Len(after) = k /\ z = 0 /\ k = n + 1
        BY <1>1, <1>3, <2>3, <2>6, <2>7
      <3> HIDE DEF k, z
      <3>2. \A p \in 1 .. z : new.rows[p] = after[k - z + p]
        BY <3>1
      <3>3. \A p \in z + 1 .. N : new.rows[p] = after[k - z - N + p]
        <4> TAKE p \in z + 1 .. N
        <4>1. CASE p = c + 1
          <5>1. k - z - N + p = n + 1
            BY <1>1, <1>3, <2>7, <3>1, <4>1
          <5> QED BY <1>3, <2>2, <4>1, <5>1
        <4>2. CASE p # c + 1
          <5>1. p \in 1 .. c /\ k - z - N + p = n - c + p
            BY <1>1, <1>3, <2>1, <2>7, <3>1, <4>2
          <5> QED BY <2>4, <5>1
        <4> QED BY <4>1, <4>2
      <3>4. Holds(new, after)
        BY <1>3, <1>4, <2>2, <3>1, <3>2, <3>3, FullHolds DEF N
      <3> QED BY <3>4 DEF new, after
    <2>8. CASE c + 1 # N
      <3> DEFINE k == n + 1
                 d == c + 1
      <3>1. /\ new.cursor = d /\ k \in Nat /\ d \in 0 .. N - 1 /\ d \in Nat /\ ~ (k < N)
            /\ Len(after) = k /\ d = c + 1 /\ k = n + 1
        BY <1>1, <1>3, <2>1, <2>3, <2>6, <2>8
      <3> HIDE DEF k, d
      <3>2. \A p \in 1 .. d : new.rows[p] = after[k - d + p]
        <4> TAKE p \in 1 .. d
        <4>1. k - d + p = n - c + p
          BY <1>3, <2>1, <3>1
        <4>2. p \in 1 .. c \/ p = c + 1
          BY <2>1, <3>1
        <4>3. p = c + 1 => n - c + p = n + 1
          BY <1>3, <2>1
        <4> QED BY <1>3, <2>2, <2>4, <4>1, <4>2, <4>3
      <3>3. \A p \in d + 1 .. N : new.rows[p] = after[k - d - N + p]
        <4> TAKE p \in d + 1 .. N
        <4>1. k - d - N + p = n - c - N + p /\ p \in c + 2 .. N
          BY <1>1, <1>3, <2>1, <3>1
        <4> QED BY <2>5, <4>1
      <3>4. Holds(new, after)
        BY <1>3, <1>4, <2>2, <3>1, <3>2, <3>3, FullHolds DEF N
      <3> QED BY <3>4 DEF new, after
    <2> QED BY <2>7, <2>8
  <1> QED BY <1>5, <1>6

\* Unrolled from its cursor, the buffer is the last transitions.
LEMMA HoldsIsLast ==
  ASSUME NEW buffer, NEW rows, Holds(buffer, rows)
  PROVE  (IF Len(buffer.rows) < CAPACITY THEN buffer.rows
          ELSE SubSeq(buffer.rows, buffer.cursor + 1, CAPACITY) \o SubSeq(buffer.rows, 1, buffer.cursor))
         = LastOf(rows, CAPACITY)
  <1> DEFINE n == Len(rows)
             c == buffer.cursor
             held == buffer.rows
             N == CAPACITY
             old == SubSeq(held, c + 1, N)
             young == SubSeq(held, 1, c)
             first == Max({1, n - N + 1})
  <1>1. N \in Nat /\ N > 0
    BY LearningAssumption
  <1>2. rows \in Seq(Range(rows)) /\ held \in Seq(Range(held)) /\ n \in Nat
    BY DEF Holds
  <1>3. LastOf(rows, N) = SubSeq(rows, first, n)
    BY DEF LastOf
  <1>4. CASE n < N
    <2>1. held = rows
      BY <1>4 DEF Holds
    <2>2. first = 1
      <3>1. 1 \in {1, n - N + 1} /\ \A y \in {1, n - N + 1} : 1 >= y
        BY <1>1, <1>2, <1>4
      <3>2. \A y \in {1, n - N + 1} : y \in Int
        BY <1>1, <1>2
      <3> QED BY <3>1, <3>2 DEF Max
    <2>3. SubSeq(rows, 1, n) = rows
      BY <1>2
    <2> QED BY <1>3, <1>4, <2>1, <2>2, <2>3
  <1>5. CASE ~ (n < N)
    <2>1. /\ Len(held) = N /\ c \in 0 .. N - 1
          /\ \A p \in 1 .. c : held[p] = rows[n - c + p]
          /\ \A p \in c + 1 .. N : held[p] = rows[n - c - N + p]
      BY <1>5 DEF Holds
    <2>2. first = n - N + 1
      <3>1. n - N + 1 \in {1, n - N + 1} /\ \A y \in {1, n - N + 1} : n - N + 1 >= y
        BY <1>1, <1>2, <1>5
      <3>2. \A y \in {1, n - N + 1} : y \in Int
        BY <1>1, <1>2
      <3> QED BY <3>1, <3>2 DEF Max
    <2> HIDE DEF first
    <2> DEFINE last == SubSeq(rows, first, n)
               T == Range(held)
    <2>3. /\ old \in Seq(T) /\ Len(old) = N - c /\ \A k \in 1 .. N - c : old[k] = held[c + k]
      <3> DEFINE from == c + 1
      <3>1. held \in Seq(T) /\ Len(held) = N /\ from \in 1 .. N /\ N \in Nat
        BY <1>1, <1>2, <2>1
      <3>2. N - from + 1 = N - c /\ N - c \in Nat /\ \A k \in 1 .. N - c : k + from - 1 = c + k
        BY <1>1, <2>1
      <3> HIDE DEF T, held, from, c, N
      <3>3. /\ SubSeq(held, from, N) \in Seq(T)
            /\ SubSeq(held, from, N) = [k \in 1 .. N - from + 1 |-> held[k + from - 1]]
        BY <3>1
      <3>4. /\ SubSeq(held, from, N) \in Seq(T)
            /\ SubSeq(held, from, N) = [k \in 1 .. N - c |-> held[k + from - 1]]
        BY <3>2, <3>3
      <3> DEFINE part == SubSeq(held, from, N)
      <3> HIDE DEF part
      <3>5. part \in Seq(T) /\ Len(part) = N - c /\ \A k \in 1 .. N - c : part[k] = held[c + k]
        <4>1. part \in Seq(T) /\ part = [k \in 1 .. N - c |-> held[k + from - 1]]
          BY <3>4 DEF part
        <4> QED BY <3>2, <4>1
      <3> QED BY <3>5 DEF part, from
    <2>4. /\ young \in Seq(T) /\ Len(young) = c /\ \A k \in 1 .. c : young[k] = held[k]
      BY <1>1, <1>2, <2>1
    <2>5. /\ last \in Seq(Range(rows)) /\ Len(last) = N /\ \A k \in 1 .. N : last[k] = rows[n - N + k]
      BY <1>1, <1>2, <1>5, <2>2
    <2> HIDE DEF old, young, last, T
    <2> DEFINE whole == old \o young
    <2>6. /\ whole \in Seq(T) /\ Len(whole) = N
          /\ \A k \in 1 .. N : whole[k] = IF k <= N - c THEN old[k] ELSE young[k - (N - c)]
      <3> DEFINE x == N - c
      <3>1. x \in Nat /\ x + c = N /\ Len(old) = x /\ Len(young) = c /\ c \in Nat
        BY <1>1, <2>1, <2>3, <2>4
      <3> HIDE DEF x
      <3>2. old \in Seq(T) /\ young \in Seq(T)
        BY <2>3, <2>4
      <3>3. /\ old \o young \in Seq(T) /\ Len(old \o young) = Len(old) + Len(young)
            /\ \A k \in 1 .. Len(old) + Len(young) :
                 (old \o young)[k] = IF k <= Len(old) THEN old[k] ELSE young[k - Len(old)]
        BY <3>2
      <3> HIDE DEF whole
      <3>4. /\ whole \in Seq(T) /\ Len(whole) = x + c
            /\ \A k \in 1 .. x + c : whole[k] = IF k <= x THEN old[k] ELSE young[k - x]
        BY <3>1, <3>3 DEF whole
      <3> QED BY <3>1, <3>4 DEF x
    <2> HIDE DEF whole, n, c, held, N
    <2>7. \A k \in 1 .. N : whole[k] = last[k]
      <3> TAKE k \in 1 .. N
      <3>1. CASE k <= N - c
        <4>1. k \in 1 .. N - c /\ c + k \in c + 1 .. N /\ n - c - N + (c + k) = n - N + k
          BY <1>1, <1>2, <2>1, <3>1
        <4>2. whole[k] = held[c + k]
          BY <2>3, <2>6, <3>1, <4>1
        <4>3. held[c + k] = rows[n - c - N + (c + k)]
          BY <2>1, <4>1
        <4> QED BY <2>5, <4>1, <4>2, <4>3
      <3>2. CASE ~ (k <= N - c)
        <4> DEFINE j == k - (N - c)
        <4>1. j \in 1 .. c /\ n - c + j = n - N + k
          BY <1>1, <1>2, <2>1, <3>2
        <4>2. whole[k] = young[j]
          BY <2>6, <3>2
        <4> HIDE DEF j
        <4>3. young[j] = rows[n - c + j]
          BY <2>1, <2>4, <4>1
        <4> QED BY <2>5, <4>1, <4>2, <4>3
      <3> QED BY <3>1, <3>2
    <2>8. whole = last
      BY <1>1, <2>5, <2>6, <2>7
    <2>9. ~ (Len(held) < N)
      BY <1>1, <2>1
    <2> QED BY <1>3, <2>8, <2>9 DEF whole, last, n, c, held, N, old, young
  <1> QED BY <1>4, <1>5

TrainerFields == {"buffer", "replay_rng", "rng", "transitions", "gradient", "target", "learned"}

(* Each gradient step took its targets from the last synchronised network.     *)
TargetsOk(t) ==
  /\ t.gradient \in Nat /\ t.target = Synchronised(t.gradient)
  /\ t.learned \in Seq(Range(t.learned)) /\ Len(t.learned) = t.gradient
  /\ \A k \in 1 .. t.gradient : \A j \in 1 .. BATCH :
       t.learned[k][j].boot # << >> => t.learned[k][j].boot[3] = Synchronised(k - 1)

TrainerOk(t) ==
  DOMAIN t = TrainerFields /\ Holds(t.buffer, t.transitions) /\ TargetsOk(t)

\* A gradient step leaves the buffer, and takes its targets from the last
\* synchronised network.
LEMMA GradientStepKeeps ==
  ASSUME NEW t, TrainerOk(t)
  PROVE  TrainerOk(GradientStep(t))
  <1> DEFINE rows == Sample(t.buffer.rows, t.replay_rng)
             gradient == t.gradient + 1
             batch == [k \in 1 .. BATCH |-> BellmanTarget(rows[k], t.target)]
             target == IF gradient % TARGET_SYNC = 0 THEN gradient ELSE t.target
             learned == Append(t.learned, batch)
             next == [t EXCEPT !.replay_rng = @ + 1, !.gradient = gradient, !.target = target,
                               !.learned = learned]
  <1>1. GradientStep(t) = t \/ GradientStep(t) = next
    BY DEF GradientStep
  <1>2. /\ DOMAIN t = TrainerFields /\ Holds(t.buffer, t.transitions)
        /\ t.gradient \in Nat /\ t.target = Synchronised(t.gradient)
        /\ t.learned \in Seq(Range(t.learned)) /\ Len(t.learned) = t.gradient
        /\ \A k \in 1 .. t.gradient : \A j \in 1 .. BATCH :
             t.learned[k][j].boot # << >> => t.learned[k][j].boot[3] = Synchronised(k - 1)
    BY DEF TrainerOk, TargetsOk
  <1>3. \A j \in 1 .. BATCH : batch[j].boot # << >> => batch[j].boot[3] = t.target
    BY DEF BellmanTarget
  <1> HIDE DEF batch, rows
  <1>4. /\ learned \in Seq(Range(learned)) /\ Len(learned) = gradient
        /\ \A k \in 1 .. t.gradient : learned[k] = t.learned[k]
        /\ learned[gradient] = batch
    BY <1>2, AppendPlaces
  <1>5. target = Synchronised(gradient)
    BY <1>2, SynchronisedSteps
  <1>6. /\ DOMAIN next = TrainerFields /\ next.buffer = t.buffer /\ next.transitions = t.transitions
        /\ next.gradient = gradient /\ next.target = target /\ next.learned = learned
    BY <1>2 DEF TrainerFields
  <1>7. gradient \in Nat /\ gradient - 1 = t.gradient /\ 1 .. gradient = (1 .. t.gradient) \union {gradient}
    BY <1>2
  <1> HIDE DEF target, learned, next, gradient
  <1>8. \A k \in 1 .. gradient : \A j \in 1 .. BATCH :
          learned[k][j].boot # << >> => learned[k][j].boot[3] = Synchronised(k - 1)
    <2> TAKE k \in 1 .. gradient
    <2>1. CASE k = gradient
      BY <1>2, <1>3, <1>4, <1>7, <2>1
    <2>2. CASE k \in 1 .. t.gradient
      BY <1>2, <1>4, <2>2
    <2> QED BY <1>7, <2>1, <2>2
  <1>9. TrainerOk(next)
    BY <1>2, <1>4, <1>5, <1>6, <1>7, <1>8 DEF TrainerOk, TargetsOk
  <1> QED BY <1>1, <1>9

\* A step of the trainer keeps it.
LEMMA NeuralStepKeeps ==
  ASSUME NEW model, NEW i, NEW run, TrainerOk(run.trainer)
  PROVE  TrainerOk(NeuralStep(model, i, run).trainer)
  <1> DEFINE t == run.trainer
             a == Behave(run.env, t.rng)
             next == Step(model, run.env, Incidents[i].symbols, a)
             row == [state |-> StateKey(i, run.env), action |-> a,
                     reward |-> StepReward(i, run.env, next), next |-> StateKey(i, next),
                     legal |-> Mask(next), terminal |-> Terminated(next)]
             rows == Append(t.transitions, row)
             buffer == Add(t.buffer, row)
             u == [t EXCEPT !.rng = @ + 1, !.transitions = rows, !.buffer = buffer]
  <1>1. NeuralStep(model, i, run).trainer = GradientStep(u)
    BY DEF NeuralStep, Remembered
  <1> HIDE DEF row, t
  <1>2. DOMAIN t = TrainerFields /\ Holds(t.buffer, t.transitions) /\ TargetsOk(t)
    BY DEF TrainerOk, t
  <1>3. Holds(buffer, rows)
    BY <1>2, AddKeeps
  <1> HIDE DEF buffer, rows
  <1>4. /\ DOMAIN u = TrainerFields /\ u.buffer = buffer /\ u.transitions = rows
        /\ u.gradient = t.gradient /\ u.target = t.target /\ u.learned = t.learned
    BY <1>2 DEF TrainerFields
  <1> HIDE DEF u
  <1>5. TargetsOk(u)
    BY <1>2, <1>4 DEF TargetsOk
  <1>6. TrainerOk(u)
    BY <1>3, <1>4, <1>5 DEF TrainerOk
  <1> QED BY <1>1, <1>6, GradientStepKeeps

\* An episode of the trainer keeps it.
LEMMA NeuralEpisodeKeeps ==
  ASSUME NEW model, NEW i, NEW trainer, TrainerOk(trainer)
  PROVE  TrainerOk(NeuralEpisode(model, i, trainer))
  <1> DEFINE base == NeuralBase(trainer)
  <1>1. PICK f : /\ f[0] = base
                 /\ \A k \in 1 .. MAX_PROBES :
                      f[k] = IF Terminated(f[k - 1].env) THEN f[k - 1] ELSE NeuralStep(model, i, f[k - 1])
                 /\ NeuralEpisode(model, i, trainer) = f[MAX_PROBES].trainer
    BY NeuralEpisodeSteps
  <1>2. MAX_PROBES \in Nat
    BY TaskAssumption
  <1> DEFINE Good(k) == TrainerOk(f[k].trainer)
             P == {k \in Nat : k <= MAX_PROBES => Good(k)}
  <1>3. 0 \in P
    <2>1. base.trainer = trainer
      BY DEF NeuralBase
    <2> QED BY <1>1, <2>1
  <1>4. ASSUME NEW k \in Nat, k \in P, k + 1 <= MAX_PROBES
        PROVE  Good(k + 1)
    <2>1. Good(k)
      BY <1>2, <1>4
    <2>2. f[k + 1] = IF Terminated(f[k].env) THEN f[k] ELSE NeuralStep(model, i, f[k])
      <3>1. PICK j \in 1 .. MAX_PROBES : j = k + 1 /\ j - 1 = k
        BY <1>2, <1>4
      <3> QED BY <1>1, <3>1
    <2> DEFINE r == f[k]
    <2>3. TrainerOk(r.trainer) /\ f[k + 1] = IF Terminated(r.env) THEN r ELSE NeuralStep(model, i, r)
      BY <2>1, <2>2
    <2> HIDE DEF r, P
    <2>4. TrainerOk(NeuralStep(model, i, r).trainer)
      BY <2>3, NeuralStepKeeps
    <2> QED BY <2>3, <2>4
  <1>5. P = Nat
    <2>1. P \in SUBSET Nat /\ \A k \in P : k + 1 \in P
      <3> HIDE DEF Good
      <3> QED BY <1>4
    <2> HIDE DEF P
    <2> QED BY <1>3, <2>1, NumberInduction
  <1>6. Good(MAX_PROBES)
    <2>1. MAX_PROBES \in P
      <3> HIDE DEF P
      <3> QED BY <1>2, <1>5
    <2> HIDE DEF Good
    <2> QED BY <1>2, <2>1
  <1> QED BY <1>1, <1>6

(* What a run has learnt.                                                      *)
LearnerOk(method, run) ==
  /\ method = "dqn" => TrainerOk(run.learner)
  /\ method # "dqn" =>
       /\ DOMAIN run.learner = {"updates", "rng"}
       /\ \E n0 : Ends(run.learner.updates, n0, ExactUpdates(method, run.trace), Len(run.trace))

\* A new run has learnt nothing.
LEMMA NewRunHasLearnt ==
  ASSUME NEW method
  PROVE  LearnerOk(method, NewRun(method))
  <1>1. CASE method = "dqn"
    <2> DEFINE t == NewTrainer
    <2>1. NewRun(method).learner = t
      BY <1>1 DEF NewRun
    <2>2. /\ DOMAIN t = TrainerFields /\ t.buffer = NewBuffer /\ t.transitions = << >>
          /\ t.gradient = 0 /\ t.target = 0 /\ t.learned = << >>
      BY DEF NewTrainer, TrainerFields
    <2> HIDE DEF t
    <2>3. Holds(NewBuffer, << >>)
      <3>1. Len(<< >>) = 0 /\ << >> \in Seq(Range(<< >>)) /\ 0 < CAPACITY
        BY LearningAssumption
      <3> QED BY <3>1 DEF Holds, NewBuffer
    <2>4. TargetsOk(t)
      <3>1. Synchronised(0) = 0
        BY SynchronisedSteps
      <3>2. Len(<< >>) = 0 /\ << >> \in Seq(Range(<< >>)) /\ 1 .. 0 = {}
        OBVIOUS
      <3> QED BY <2>2, <3>1, <3>2 DEF TargetsOk
    <2> QED BY <1>1, <2>1, <2>2, <2>3, <2>4 DEF LearnerOk, TrainerOk
  <1>2. CASE method # "dqn"
    <2> DEFINE r == NewRun(method)
    <2>1. r.learner = [updates |-> << >>, rng |-> 0] /\ r.trace = << >>
      BY <1>2 DEF NewRun
    <2> HIDE DEF r
    <2> DEFINE want == ExactUpdates(method, << >>)
    <2>2. DOMAIN want = 1 .. 0 /\ Len(<< >>) = 0 /\ << >> \in Seq(Range(<< >>))
      BY DEF ExactUpdates
    <2> HIDE DEF want
    <2>3. Ends(<< >>, 0, want, 0)
      BY <2>2 DEF Ends
    <2>4. /\ DOMAIN r.learner = {"updates", "rng"}
          /\ Ends(r.learner.updates, 0, ExactUpdates(method, r.trace), Len(r.trace))
      BY <2>1, <2>2, <2>3 DEF want
    <2> QED BY <1>2, <2>4 DEF LearnerOk, r
  <1> QED BY <1>1, <1>2

\* An episode leaves exactly learnt what was.
LEMMA EpisodeLearns ==
  ASSUME NEW model, NEW task, NEW method, NEW run, DOMAIN run = RunFields, LearnerOk(method, run)
  PROVE  LearnerOk(method, Episode(model, task, method, run))
  <1> DEFINE i == SampleIncident(task, run.sampler)
             counted == [run EXCEPT !.episode = @ + 1, !.sampler = @ + DRAWS_PER_EPISODE,
                                    !.counts[i] = @ + 1]
             policy == run.learner
             learnt == LearnEpisode(model, method, i, policy)
             neural == NeuralEpisode(model, i, counted.learner)
             after == Episode(model, task, method, run)
  <1>1. DOMAIN counted = RunFields /\ counted.learner = policy
    BY DEF RunFields
  <1>2. after = IF method = "dqn" THEN [counted EXCEPT !.learner = neural]
                ELSE [counted EXCEPT !.learner = learnt.policy, !.trace = learnt.trace]
    BY DEF Episode, EpisodeOn
  <1> HIDE DEF counted, learnt, after, i
  <1>3. CASE method = "dqn"
    <2>1. TrainerOk(policy)
      BY <1>3 DEF LearnerOk
    <2> HIDE DEF policy
    <2>2. TrainerOk(neural)
      BY <1>1, <2>1, NeuralEpisodeKeeps
    <2> HIDE DEF neural
    <2>3. after.learner = neural
      BY <1>1, <1>2, <1>3 DEF RunFields
    <2> QED BY <1>3, <2>2, <2>3 DEF LearnerOk, after
  <1>4. CASE method # "dqn"
    <2>1. /\ DOMAIN policy = {"updates", "rng"}
          /\ policy.updates \in Seq(Range(policy.updates))
      BY <1>4 DEF LearnerOk, Ends
    <2> HIDE DEF policy
    <2>2. /\ DOMAIN learnt.policy = {"updates", "rng"}
          /\ Ends(learnt.policy.updates, Len(policy.updates), ExactUpdates(method, learnt.trace),
                  Len(learnt.trace))
      BY <2>1, EpisodeIsLearnt DEF learnt
    <2>3. after.learner = learnt.policy /\ after.trace = learnt.trace
      BY <1>1, <1>2, <1>4 DEF RunFields
    <2> QED BY <1>4, <2>2, <2>3 DEF LearnerOk, after
  <1> QED BY <1>3, <1>4

\* A validation learns nothing.
LEMMA ValidationLearnsNothing ==
  ASSUME NEW method, NEW run, DOMAIN run = RunFields, LearnerOk(method, run)
  PROVE  LearnerOk(method, Validated(method, run))
  <1>1. Validated(method, run).learner = run.learner /\ Validated(method, run).trace = run.trace
    BY DEF Validated, RunFields
  <1> QED BY <1>1 DEF LearnerOk

\* The uninterrupted run has learnt exactly, after every episode.
LEMMA ReferenceHasLearnt ==
  ASSUME NEW model, NEW task, NEW method, NEW n \in Nat
  PROVE  LET run == ReferenceRun(model, task, method, n)
         IN DOMAIN run = RunFields /\ LearnerOk(method, run)
  <1> DEFINE R(k) == ReferenceRun(model, task, method, k)
             P == {k \in Nat : LearnerOk(method, R(k))}
  <1>1. R(0) = NewRun(method) /\ \A k \in Nat : R(k + 1) = Continued(model, task, method, R(k))
    BY ReferenceSteps
  <1>2. \A k \in Nat : DOMAIN R(k) = RunFields
    BY ReferenceCounts
  <1> HIDE DEF R
  <1>3. 0 \in P
    BY <1>1, NewRunHasLearnt
  <1>4. ASSUME NEW k \in Nat, LearnerOk(method, R(k))
        PROVE  LearnerOk(method, R(k + 1))
    <2> DEFINE r == R(k)
               after == Episode(model, task, method, r)
    <2>1. DOMAIN r = RunFields /\ LearnerOk(method, r)
      BY <1>2, <1>4
    <2> HIDE DEF r
    <2>2. DOMAIN after = RunFields /\ LearnerOk(method, after)
      BY <2>1, EpisodeCounts, EpisodeLearns
    <2>3. Continued(model, task, method, r) = IF ValidationDue(after) THEN Validated(method, after) ELSE after
      BY DEF Continued, Judged
    <2> HIDE DEF after
    <2>4. LearnerOk(method, Continued(model, task, method, r))
      BY <2>2, <2>3, ValidationLearnsNothing
    <2> QED BY <1>1, <2>4 DEF r
  <1>5. P = Nat
    <2>1. P \in SUBSET Nat /\ \A k \in P : k + 1 \in P
      BY <1>4
    <2> HIDE DEF P
    <2> QED BY <1>3, <2>1, NumberInduction
  <1> QED BY <1>2, <1>5 DEF R

\* What a learner that has learnt exactly holds.
LEMMA LearnerIsExact ==
  ASSUME NEW method, NEW run, LearnerOk(method, run)
  PROVE  LET t == run.learner
             exact == ExactUpdates(method, run.trace)
             rows == t.buffer.rows
         IN IF method # "dqn" THEN LastOf(t.updates, Len(exact)) = exact
            ELSE /\ (IF Len(rows) < CAPACITY THEN rows
                     ELSE SubSeq(rows, t.buffer.cursor + 1, CAPACITY) \o SubSeq(rows, 1, t.buffer.cursor))
                    = LastOf(t.transitions, CAPACITY)
                 /\ \A k \in DOMAIN t.learned : \A j \in 1 .. BATCH :
                      t.learned[k][j].boot # << >> =>
                        t.learned[k][j].boot[3] = ((k - 1) \div TARGET_SYNC) * TARGET_SYNC
  <1> DEFINE t == run.learner
             exact == ExactUpdates(method, run.trace)
             rows == t.buffer.rows
             unrolled == IF Len(rows) < CAPACITY THEN rows
                         ELSE SubSeq(rows, t.buffer.cursor + 1, CAPACITY) \o SubSeq(rows, 1, t.buffer.cursor)
  <1>1. CASE method # "dqn"
    <2> DEFINE n == Len(run.trace)
               updates == t.updates
    <2>1. PICK n0 : Ends(updates, n0, exact, n)
      BY <1>1 DEF LearnerOk
    <2>2. exact = [k \in DOMAIN run.trace |-> exact[k]]
      BY DEF ExactUpdates
    <2> HIDE DEF exact, n, updates
    <2>3. exact = [k \in 1 .. n |-> exact[k]]
      <3>1. DOMAIN exact = 1 .. n
        BY <2>1 DEF Ends
      <3> QED BY <2>2, <3>1
    <2>4. Len(exact) = n /\ LastOf(updates, n) = exact
      BY <2>1, <2>3, EndsIsLast
    <2> QED BY <1>1, <2>4 DEF updates, exact
  <1>2. CASE method = "dqn"
    <2>1. TrainerOk(t)
      BY <1>2 DEF LearnerOk
    <2> HIDE DEF t
    <2>2. Holds(t.buffer, t.transitions) /\ TargetsOk(t)
      BY <2>1 DEF TrainerOk
    <2>3. unrolled = LastOf(t.transitions, CAPACITY)
      BY <2>2, HoldsIsLast
    <2>4. DOMAIN t.learned = 1 .. t.gradient
      BY <2>2 DEF TargetsOk
    <2>5. \A k \in DOMAIN t.learned : \A j \in 1 .. BATCH :
            t.learned[k][j].boot # << >> =>
              t.learned[k][j].boot[3] = ((k - 1) \div TARGET_SYNC) * TARGET_SYNC
      BY <2>2, <2>4 DEF TargetsOk, Synchronised
    <2> HIDE DEF unrolled
    <2> QED BY <1>2, <2>3, <2>5 DEF unrolled, t
  <1> QED BY <1>1, <1>2

\* A training process has learnt exactly, wherever it is.
LEMMA TrainingHasLearnt ==
  ASSUME TrainInv, mode = "train", scene.run # NoRun
  PROVE  LearnerOk(scene.method, scene.run)
  <1> DEFINE model == scene.model
             task == scene.task
             method == scene.method
             run == scene.run
  <1>1. /\ scene.at \in {"idle", "episode", "validate", "save"}
        /\ Processing(scene, disk.latest, disk.best)
    BY DEF TrainInv
  <1>2. Exact(scene, run) \/ Unvalidated(scene, run)
    BY <1>1 DEF Processing
  <1>3. CASE Exact(scene, run)
    <2>1. run.episode \in Nat /\ run = ReferenceRun(model, task, method, run.episode)
      BY <1>3 DEF Exact
    <2> HIDE DEF model, task, method, run
    <2>2. LearnerOk(method, run)
      BY <2>1, ReferenceHasLearnt
    <2> QED BY <2>2 DEF method, run
  <1>4. CASE Unvalidated(scene, run)
    <2>1. PICK n \in Nat : run = Episode(model, task, method, ReferenceRun(model, task, method, n))
      BY <1>4 DEF Unvalidated
    <2> HIDE DEF model, task, method, run
    <2> DEFINE before == ReferenceRun(model, task, method, n)
    <2>2. DOMAIN before = RunFields /\ LearnerOk(method, before)
      BY ReferenceHasLearnt
    <2> HIDE DEF before
    <2>3. LearnerOk(method, Episode(model, task, method, before))
      BY <2>2, EpisodeLearns
    <2> QED BY <2>1, <2>3 DEF before, method, run
  <1> QED BY <1>2, <1>3, <1>4

\* Learning: a tabular learner applies to each step of its last episode exactly
\* the update its method names, with the end of the episode settled; a DQN's
\* buffer is its last transitions, and each gradient step took its targets from
\* the network of the last synchronisation.
THEOREM LearningHolds == Spec => []LearningIsExact
  <1>1. Init => TrainInv
    BY TrainingStarts
  <1>2. TrainInv /\ [Next]_vars => TrainInv'
    BY TrainingKeeps
  <1>3. TrainInv => LearningIsExact
    <2> SUFFICES ASSUME TrainInv, mode = "train", scene.run # NoRun
                 PROVE  LearningIsExact
      BY DEF LearningIsExact
    <2> DEFINE method == scene.method
               run == scene.run
    <2>1. LearnerOk(method, run)
      BY TrainingHasLearnt
    <2> HIDE DEF method, run
    <2>2. LET t == run.learner
              exact == ExactUpdates(method, run.trace)
              rows == t.buffer.rows
          IN IF method # "dqn" THEN LastOf(t.updates, Len(exact)) = exact
             ELSE /\ (IF Len(rows) < CAPACITY THEN rows
                      ELSE SubSeq(rows, t.buffer.cursor + 1, CAPACITY) \o SubSeq(rows, 1, t.buffer.cursor))
                     = LastOf(t.transitions, CAPACITY)
                  /\ \A k \in DOMAIN t.learned : \A j \in 1 .. BATCH :
                       t.learned[k][j].boot # << >> =>
                         t.learned[k][j].boot[3] = ((k - 1) \div TARGET_SYNC) * TARGET_SYNC
      BY <2>1, LearnerIsExact
    <2> QED BY <2>2 DEF LearningIsExact, method, run
  <1> QED BY <1>1, <1>2, <1>3, PTL DEF Spec
=============================================================================
