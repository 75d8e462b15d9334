------------------------ MODULE ProgressiveSessionProofs ------------------------
(***************************************************************************)
(* Theorems about early diagnosis, for every catalogue, cost, diagnostic   *)
(* model and policy: the decision and the repair rest on fresh purchased   *)
(* evidence, a deferral comes after every visible anomaly that could be    *)
(* paid for, and the ledger, its budget and the model's history agree.     *)
(*                                                                         *)
(* IInv adds three things to what the properties say: what the ledger has  *)
(* paid (Paid, a fold over its packets), that the history has one symbol   *)
(* for each tool bought, its latest, and that nothing is decided while     *)
(* the session goes on.                                                    *)
(***************************************************************************)
EXTENDS ProgressiveSession, FiniteSetTheorems, SequenceTheorems, WellFoundedInduction, TLAPS

-----------------------------------------------------------------------------
(* Facts about data.                                                        *)

\* A set of numbers that is not empty has a least element.
THEOREM LeastNumber ==
  ASSUME NEW T \in SUBSET Nat, T # {}
  PROVE  \E x \in T : \A y \in T : x <= y
  <1> DEFINE U == {0..n : n \in T}
             R == StrictSubsetOrdering(Nat)
  <1>1. U \subseteq FiniteSubsetsOf(Nat)
    <2> SUFFICES ASSUME NEW n \in T
                 PROVE  0..n \in FiniteSubsetsOf(Nat)
      OBVIOUS
    <2>1. IsFiniteSet(0..n) /\ 0..n \in SUBSET Nat
      BY FS_Interval
    <2> QED BY <2>1 DEF FiniteSubsetsOf
  <1>2. IsWellFoundedOn(R, FiniteSubsetsOf(Nat)) /\ U # {}
    BY FS_StrictSubsetOrderingWellFounded
  <1>3. \A x, y \in T : y < x => <<0..y, 0..x>> \in R
    <2> SUFFICES ASSUME NEW x \in T, NEW y \in T, y < x
                 PROVE  <<0..y, 0..x>> \in R
      OBVIOUS
    <2>1. x \in 0..x /\ x \notin 0..y
      OBVIOUS
    <2>2. 0..y \subseteq 0..x /\ 0..y # 0..x /\ 0..x \in SUBSET Nat
      BY <2>1
    <2> QED BY <2>2 DEF StrictSubsetOrdering
  <1> HIDE DEF R
  <1>4. \A V : V \subseteq FiniteSubsetsOf(Nat) /\ V # {} =>
                 \E x \in V : \A y \in V : ~(<<y, x>> \in R)
    BY <1>2, WFMin
  <1>5. PICK u \in U : \A v \in U : ~(<<v, u>> \in R)
    BY <1>1, <1>2, <1>4
  <1>6. PICK x \in T : u = 0..x
    BY <1>5
  <1>7. \A y \in T : ~(y < x)
    BY <1>3, <1>5, <1>6
  <1> QED BY <1>7

\* ... and a greatest one when it is bounded.
LEMMA GreatestNumber ==
  ASSUME NEW T \in SUBSET Nat, T # {}, NEW n \in Nat, \A x \in T : x <= n
  PROVE  \E x \in T : \A y \in T : y <= x
  <1> DEFINE D == {n - x : x \in T}
  <1>1. D \in SUBSET Nat /\ D # {}
    <2>1. \A x \in T : n - x \in Nat
      OBVIOUS
    <2> QED BY <2>1
  <1>2. PICK d \in D : \A e \in D : d <= e
    BY <1>1, LeastNumber
  <1>3. PICK x \in T : d = n - x
    BY <1>2
  <1>4. \A y \in T : n - x <= n - y
    BY <1>2, <1>3
  <1> QED BY <1>4

\* A set of numbers with zero and the successors of its elements is all of them.
THEOREM NumberInduction ==
  ASSUME NEW P \in SUBSET Nat, 0 \in P, \A n \in P : n + 1 \in P
  PROVE  P = Nat
  <1> SUFFICES ASSUME Nat \ P # {}
               PROVE  FALSE
    OBVIOUS
  <1>1. PICK x \in Nat \ P : \A y \in Nat \ P : x <= y
    BY LeastNumber
  <1>2. x # 0 /\ x - 1 \in Nat /\ ~(x <= x - 1)
    BY <1>1
  <1>3. x - 1 \in P
    BY <1>1, <1>2
  <1> QED BY <1>1, <1>2, <1>3

(* The folds of the community modules are recursive functions on the        *)
(* subsets of a set: from a set they take the element c[T], and combine it  *)
(* with the value of the rest.                                              *)
Iterates(S, c, g, base, f) ==
  f = [T \in SUBSET S |-> IF T = {} THEN base ELSE g[<<f[T \ {c[T]}], c[T]>>]]

\* Over a finite set there is such a function, so a fold is what it says.
THEOREM IterationExists ==
  ASSUME NEW S, IsFiniteSet(S), NEW A, NEW base \in A,
         NEW c, \A T \in SUBSET S : T # {} => c[T] \in T,
         NEW g \in [A \X S -> A]
  PROVE  \E f \in [SUBSET S -> A] : Iterates(S, c, g, base, f)
  <1> DEFINE Sized(n) == {T \in SUBSET S : Cardinality(T) <= n}
             Value(f, T) == IF T = {} THEN base ELSE g[<<f[T \ {c[T]}], c[T]>>]
             Good(n, f) == f \in [Sized(n) -> A] /\ \A T \in Sized(n) : f[T] = Value(f, T)
             Ok(n) == \E f : Good(n, f)
             P == {n \in Nat : Ok(n)}
  <1>1. \A T \in SUBSET S : IsFiniteSet(T) /\ Cardinality(T) \in Nat
    BY FS_Subset, FS_CardinalityType
  <1>2. ASSUME NEW T \in SUBSET S, T # {}
        PROVE  /\ c[T] \in T /\ T \ {c[T]} \in SUBSET S
               /\ Cardinality(T \ {c[T]}) = Cardinality(T) - 1
    <2>1. c[T] \in T
      BY <1>2
    <2>2. Cardinality(T \ {c[T]}) = IF c[T] \in T THEN Cardinality(T) - 1 ELSE Cardinality(T)
      BY <1>1, FS_RemoveElement
    <2> QED BY <2>1, <2>2
  <1>3. \A T \in SUBSET S : Cardinality(T) = 0 <=> T = {}
    BY <1>1, FS_EmptySet
  <1>4. ASSUME NEW n \in Nat, NEW f \in [Sized(n) -> A], NEW T \in Sized(n + 1)
        PROVE  Value(f, T) \in A
    <2>1. CASE T = {}
      BY <2>1
    <2>2. CASE T # {}
      <3>1. T \ {c[T]} \in Sized(n) /\ c[T] \in S
        BY <2>2, <1>1, <1>2
      <3>2. <<f[T \ {c[T]}], c[T]>> \in A \X S
        BY <3>1
      <3> QED BY <2>2, <3>2
    <2> QED BY <2>1, <2>2
  <1>5. Ok(0)
    <2> DEFINE h == [T \in Sized(0) |-> base]
    <2>1. \A T \in Sized(0) : T = {}
      BY <1>1, <1>3
    <2>2. Good(0, h)
      BY <2>1
    <2> QED BY <2>2
  <1>6. ASSUME NEW n \in P
        PROVE  Ok(n + 1)
    <2>1. PICK f : Good(n, f)
      OBVIOUS
    <2> DEFINE h == [T \in Sized(n + 1) |-> IF T \in Sized(n) THEN f[T] ELSE Value(f, T)]
    <2>2. h \in [Sized(n + 1) -> A]
      <3>1. \A T \in Sized(n + 1) : Value(f, T) \in A
        BY <1>4, <2>1
      <3> HIDE DEF Value, Sized
      <3> QED BY <3>1, <2>1
    <2>3. ASSUME NEW T \in Sized(n + 1)
          PROVE  h[T] = Value(h, T)
      <3>1. h[T] = Value(f, T)
        <4> HIDE DEF Value
        <4> QED BY <2>1
      <3>2. CASE T = {}
        BY <3>1, <3>2
      <3>3. CASE T # {}
        <4>1. T \ {c[T]} \in Sized(n) /\ T \ {c[T]} \in Sized(n + 1)
          BY <3>3, <1>1, <1>2
        <4>2. h[T \ {c[T]}] = f[T \ {c[T]}]
          BY <4>1
        <4> HIDE DEF h
        <4> QED BY <3>1, <3>3, <4>2
      <3> QED BY <3>2, <3>3
    <2> HIDE DEF h
    <2>4. Good(n + 1, h)
      BY <2>2, <2>3
    <2> QED BY <2>4
  <1>7. P = Nat
    <2> HIDE DEF Ok
    <2>1. 0 \in P /\ (\A n \in P : n + 1 \in P) /\ P \in SUBSET Nat
      BY <1>5, <1>6
    <2> HIDE DEF P
    <2> QED BY <2>1, NumberInduction
  <1>8. Cardinality(S) \in Nat /\ Sized(Cardinality(S)) = SUBSET S
    <2>1. \A T \in SUBSET S : Cardinality(T) <= Cardinality(S)
      BY FS_Subset
    <2> QED BY <2>1, FS_CardinalityType
  <1>9. PICK f : Good(Cardinality(S), f)
    <2>1. Ok(Cardinality(S))
      <3> HIDE DEF Ok, Sized
      <3> QED BY <1>7, <1>8
    <2> HIDE DEF Good
    <2> QED BY <2>1
  <1>10. f \in [SUBSET S -> A] /\ \A T \in SUBSET S : f[T] = Value(f, T)
    <2> HIDE DEF Sized, Value
    <2> QED BY <1>8, <1>9
  <1>11. Iterates(S, c, g, base, f)
    BY <1>10 DEF Iterates
  <1> QED BY <1>10, <1>11

\* The greatest place of a set of places.
LEMMA MaxOfPlaces ==
  ASSUME NEW n \in Nat, NEW T \in SUBSET (1..n), T # {}
  PROVE  Max(T) \in T /\ \A x \in T : x <= Max(T)
  <1>1. \E x \in T : \A y \in T : y <= x
    <2>1. T \in SUBSET Nat /\ \A x \in T : x <= n
      OBVIOUS
    <2> QED BY <2>1, GreatestNumber
  <1>2. \E x \in T : \A y \in T : x >= y
    BY <1>1
  <1> QED BY <1>2 DEF Max

\* The elements of a sequence but the one at k, by their places.
LEMMA RemoveAtPlaces ==
  ASSUME NEW S, NEW s \in Seq(S), NEW k \in DOMAIN s
  PROVE  /\ RemoveAt(s, k) \in Seq(S)
         /\ DOMAIN RemoveAt(s, k) = 1..(Len(s) - 1)
         /\ \A i \in 1..(Len(s) - 1) : RemoveAt(s, k)[i] = IF i < k THEN s[i] ELSE s[i + 1]
  <1> DEFINE a == SubSeq(s, 1, k - 1)
             b == SubSeq(s, k + 1, Len(s))
  <1>1. k \in 1..Len(s) /\ Len(s) \in Nat /\ DOMAIN s = 1..Len(s)
    OBVIOUS
  <1>2. a \in Seq(S) /\ Len(a) = k - 1 /\ \A i \in 1..(k - 1) : a[i] = s[i]
    BY <1>1, SubSeqProperties
  <1>3. b \in Seq(S) /\ Len(b) = Len(s) - k /\ \A i \in 1..(Len(s) - k) : b[i] = s[k + i]
    BY <1>1, SubSeqProperties
  <1>4. RemoveAt(s, k) = a \o b
    BY DEF RemoveAt
  <1> HIDE DEF a, b
  <1>5. /\ a \o b \in Seq(S) /\ Len(a \o b) = Len(s) - 1
        /\ \A i \in 1..(Len(s) - 1) : (a \o b)[i] = IF i <= k - 1 THEN a[i] ELSE b[i - (k - 1)]
    <2>1. k - 1 + (Len(s) - k) = Len(s) - 1
      BY <1>1
    <2>2. /\ a \o b \in Seq(S) /\ Len(a \o b) = Len(a) + Len(b)
          /\ \A i \in 1..(Len(a) + Len(b)) :
               (a \o b)[i] = IF i <= Len(a) THEN a[i] ELSE b[i - Len(a)]
      BY <1>2, <1>3, ConcatProperties
    <2> QED BY <2>1, <2>2, <1>2, <1>3
  <1>6. DOMAIN (a \o b) = 1..(Len(s) - 1)
    BY <1>5
  <1>7. ASSUME NEW i \in 1..(Len(s) - 1)
        PROVE  (a \o b)[i] = IF i < k THEN s[i] ELSE s[i + 1]
    <2>1. CASE i < k
      BY <2>1, <1>1, <1>2, <1>5
    <2>2. CASE ~(i < k)
      <3>1. ~(i <= k - 1)
        BY <2>2, <1>1
      <3>2. (a \o b)[i] = b[i - (k - 1)]
        BY <3>1, <1>5
      <3>3. i - (k - 1) \in 1..(Len(s) - k) /\ k + (i - (k - 1)) = i + 1
        BY <2>2, <1>1
      <3> QED BY <3>2, <3>3, <2>2, <1>3
    <2> QED BY <2>1, <2>2
  <1> QED BY <1>4, <1>5, <1>6, <1>7

-----------------------------------------------------------------------------

\* The latest packet of a tool, in any ledger.
LatestIn(s, t) == s[CHOOSE i \in DOMAIN s :
                      s[i].tool = t /\ \A j \in DOMAIN s : s[j].tool = t => j <= i]
Tooled(s) == {s[i].tool : i \in DOMAIN s}
IsLatest(s, t, i) == i \in DOMAIN s /\ s[i].tool = t
                     /\ \A j \in DOMAIN s : s[j].tool = t => j <= i

Paid(s) == FoldLeft(LAMBDA sum, p : sum + Cost[p.tool], 0, s)

LedgerInv ==
  /\ credits <= MaxCredits /\ Len(packets) <= MaxProbes
  /\ credits = Paid(packets)

\* The model's input: one symbol for each tool bought, its latest.
HistoryInv ==
  /\ \A i, j \in DOMAIN history : history[i][1] = history[j][1] => i = j
  /\ \A i \in DOMAIN history :
       history[i][1] \in Bought /\ history[i][2] = Latest(history[i][1]).code
  /\ \A t \in Bought : \E i \in DOMAIN history : history[i][1] = t

\* Nothing is decided while the session goes on, nor when it fails.
ResultInv == pc \notin {"decided", "repair", "cleanup"} => result = Undecided

IInv == /\ TypeOK /\ LedgerInv /\ HistoryInv /\ ResultInv
        /\ GroundedDiagnosis /\ RepairIsGrounded /\ AnomaliesConfirmedFirst

-----------------------------------------------------------------------------
(* The ledger.                                                             *)

\* Every tool with a packet has a latest one, and it is the ledger's answer.
LEMMA LatestExists ==
  ASSUME NEW s \in Seq(Packet), NEW t \in Tooled(s)
  PROVE  \E i \in Nat : IsLatest(s, t, i)
  <1> DEFINE I == {i \in DOMAIN s : s[i].tool = t}
  <1>1. Len(s) \in Nat /\ DOMAIN s = 1..Len(s)
    OBVIOUS
  <1>2. I \in SUBSET Nat /\ I # {} /\ \A i \in I : i <= Len(s)
    BY <1>1 DEF Tooled
  <1>3. PICK i \in I : \A j \in I : j <= i
    <2> HIDE DEF I
    <2> QED BY <1>1, <1>2, GreatestNumber
  <1> QED BY <1>1, <1>3 DEF IsLatest

\* What the last packet of a tool is.
LEMMA LatestIs ==
  ASSUME NEW s \in Seq(Packet), NEW t, NEW i, IsLatest(s, t, i)
  PROVE  LatestIn(s, t) = s[i]
  <1> DEFINE k == CHOOSE k \in DOMAIN s :
                    s[k].tool = t /\ \A j \in DOMAIN s : s[j].tool = t => j <= k
  <1>1. Len(s) \in Nat /\ DOMAIN s = 1..Len(s)
    OBVIOUS
  <1>2. k \in DOMAIN s /\ s[k].tool = t /\ \A j \in DOMAIN s : s[j].tool = t => j <= k
    BY DEF IsLatest
  <1>3. k = i
    <2> HIDE DEF k
    <2> QED BY <1>1, <1>2 DEF IsLatest
  <1> QED BY <1>3 DEF LatestIn

\* A packet that is bought becomes the last of its tool, and of no other.
LEMMA LatestBuy ==
  ASSUME NEW s \in Seq(Packet), NEW p \in Packet
  PROVE  /\ Append(s, p) \in Seq(Packet)
         /\ Tooled(Append(s, p)) = Tooled(s) \cup {p.tool}
         /\ LatestIn(Append(s, p), p.tool) = p
         /\ \A t \in Tooled(s) \ {p.tool} : LatestIn(Append(s, p), t) = LatestIn(s, t)
  <1> DEFINE v == Append(s, p)
  <1>1. /\ Len(s) \in Nat /\ DOMAIN s = 1..Len(s)
        /\ v \in Seq(Packet) /\ DOMAIN v = 1..(Len(s) + 1)
        /\ v[Len(s) + 1] = p /\ \A i \in 1..Len(s) : v[i] = s[i]
    OBVIOUS
  <1> HIDE DEF v
  <1>2. Tooled(v) = Tooled(s) \cup {p.tool}
    <2>1. DOMAIN v = DOMAIN s \cup {Len(s) + 1}
      BY <1>1
    <2> QED BY <1>1, <2>1 DEF Tooled
  <1>3. LatestIn(v, p.tool) = p
    <2>1. IsLatest(v, p.tool, Len(s) + 1)
      BY <1>1 DEF IsLatest
    <2> QED BY <1>1, <2>1, LatestIs
  <1>4. ASSUME NEW t \in Tooled(s) \ {p.tool}
        PROVE  LatestIn(v, t) = LatestIn(s, t)
    <2>1. PICK i \in Nat : IsLatest(s, t, i)
      BY LatestExists
    <2>2. IsLatest(v, t, i) /\ v[i] = s[i]
      BY <1>1, <2>1 DEF IsLatest
    <2> QED BY <1>1, <2>1, <2>2, LatestIs
  <1> QED BY <1>1, <1>2, <1>3, <1>4 DEF v

\* The ledger's operators, on the packets it has.
LEMMA LedgerReads ==
  /\ Bought = Tooled(packets)
  /\ \A t : Latest(t) = LatestIn(packets, t)
  /\ Bought' = Tooled(packets')
  /\ \A t : Latest(t)' = LatestIn(packets', t)
  BY DEF Bought, Tooled, Latest, LatestIn

\* What a ledger has paid is the last of its running totals.
LEMMA PaidSums ==
  ASSUME NEW s \in Seq(Packet)
  PROVE  \E h \in [0..Len(s) -> Nat] :
           /\ h[0] = 0 /\ Paid(s) = h[Len(s)]
           /\ \A i \in 1..Len(s) : h[i] = h[i - 1] + Cost[s[i].tool]
  <1> DEFINE D == DOMAIN s
             iter == CHOOSE f : f = [T \in SUBSET D |->
                       IF T = {} THEN 0 ELSE f[T \ {Max(T)}] + Cost[s[Max(T)].tool]]
             c == [T \in SUBSET D |-> Max(T)]
             g == [a \in Nat \X D |-> a[1] + Cost[s[a[2]].tool]]
  <1>1. /\ Len(s) \in Nat /\ D = 1..Len(s) /\ IsFiniteSet(D)
        /\ \A i \in D : Cost[s[i].tool] \in Nat
    <2>1. \A i \in D : s[i] \in Packet
      OBVIOUS
    <2>2. \A i \in D : Cost[s[i].tool] \in Nat
      BY <2>1, SessionAssumption DEF Packet
    <2> QED BY <2>2, FS_Interval
  <1>2. \A T \in SUBSET D : T # {} => Max(T) \in T /\ \A x \in T : x <= Max(T)
    BY <1>1, MaxOfPlaces
  <1>3. Paid(s) = iter[D]
    BY DEF Paid, FoldLeft, MapThenFoldSet
  <1>4. PICK f \in [SUBSET D -> Nat] : Iterates(D, c, g, 0, f)
    <2>1. g \in [Nat \X D -> Nat]
      BY <1>1
    <2>2. \A T \in SUBSET D : T # {} => c[T] \in T
      BY <1>2
    <2> HIDE DEF c, g, D
    <2> QED BY <1>1, <2>1, <2>2, IterationExists
  <1>5. f = [T \in SUBSET D |-> IF T = {} THEN 0 ELSE f[T \ {Max(T)}] + Cost[s[Max(T)].tool]]
    <2>1. ASSUME NEW T \in SUBSET D, T # {}
          PROVE  g[<<f[T \ {c[T]}], c[T]>>] = f[T \ {Max(T)}] + Cost[s[Max(T)].tool]
      BY <1>2, <2>1
    <2> HIDE DEF c, g, D
    <2> QED BY <1>4, <2>1 DEF Iterates
  <1>6. iter = [T \in SUBSET D |-> IF T = {} THEN 0 ELSE iter[T \ {Max(T)}] + Cost[s[Max(T)].tool]]
    BY <1>5
  <1> HIDE DEF iter
  <1>7. iter[{}] = 0
    BY <1>6
  <1>8. ASSUME NEW n \in 1..Len(s)
        PROVE  iter[1..n] = iter[1..(n - 1)] + Cost[s[n].tool]
    <2>1. 1..n \in SUBSET D /\ n \in 1..n /\ (1..n) \ {n} = 1..(n - 1)
      BY <1>1
    <2>2. Max(1..n) \in 1..n /\ n <= Max(1..n)
      BY <1>2, <2>1
    <2>3. Max(1..n) = n
      BY <2>2
    <2> QED BY <1>6, <2>1, <2>3
  <1> DEFINE h == [n \in 0..Len(s) |-> iter[1..n]]
             P == {n \in Nat : n <= Len(s) => iter[1..n] \in Nat}
  <1>9. 0 \in P
    BY <1>7
  <1>10. ASSUME NEW n \in P PROVE n + 1 \in P
    BY <1>1, <1>8
  <1>11. P = Nat
    <2>1. P \in SUBSET Nat
      OBVIOUS
    <2> HIDE DEF P
    <2> QED BY <1>9, <1>10, <2>1, NumberInduction
  <1>12. h \in [0..Len(s) -> Nat] /\ h[0] = 0 /\ Paid(s) = h[Len(s)]
    BY <1>1, <1>3, <1>7, <1>11
  <1>13. \A i \in 1..Len(s) : h[i] = h[i - 1] + Cost[s[i].tool]
    BY <1>1, <1>8
  <1> HIDE DEF h
  <1> QED BY <1>12, <1>13

\* An empty ledger has paid nothing, and a purchase is paid once.
LEMMA PaidBuy ==
  /\ Paid(<<>>) = 0
  /\ \A s \in Seq(Packet), p \in Packet : Paid(Append(s, p)) = Paid(s) + Cost[p.tool]
  <1>1. Paid(<<>>) = 0
    <2>1. <<>> \in Seq(Packet) /\ Len(<<>>) = 0
      OBVIOUS
    <2> QED BY <2>1, PaidSums
  <1>2. ASSUME NEW s \in Seq(Packet), NEW p \in Packet
        PROVE  Paid(Append(s, p)) = Paid(s) + Cost[p.tool]
    <2> DEFINE v == Append(s, p)
    <2>1. /\ v \in Seq(Packet) /\ Len(v) = Len(s) + 1 /\ Len(s) \in Nat
          /\ v[Len(s) + 1] = p /\ \A i \in 1..Len(s) : v[i] = s[i]
      OBVIOUS
    <2> HIDE DEF v
    <2>2. PICK h : /\ h[0] = 0 /\ Paid(s) = h[Len(s)]
                   /\ \A i \in 1..Len(s) : h[i] = h[i - 1] + Cost[s[i].tool]
      BY PaidSums
    <2>3. PICK k : /\ k[0] = 0 /\ Paid(v) = k[Len(v)]
                   /\ \A i \in 1..Len(v) : k[i] = k[i - 1] + Cost[v[i].tool]
      BY <2>1, PaidSums
    <2> DEFINE P == {n \in Nat : n <= Len(s) => h[n] = k[n]}
    <2>4. 0 \in P
      BY <2>2, <2>3
    <2>5. ASSUME NEW n \in P PROVE n + 1 \in P
      <3> SUFFICES ASSUME n + 1 <= Len(s)
                   PROVE  h[n + 1] = k[n + 1]
        OBVIOUS
      <3>1. n + 1 \in 1..Len(s) /\ n + 1 \in 1..Len(v) /\ n + 1 - 1 = n /\ n <= Len(s)
        BY <2>1
      <3>2. h[n + 1] = h[n] + Cost[s[n + 1].tool] /\ k[n + 1] = k[n] + Cost[v[n + 1].tool]
        BY <2>2, <2>3, <3>1
      <3> QED BY <2>1, <3>1, <3>2
    <2>6. P = Nat
      <3>1. P \in SUBSET Nat
        OBVIOUS
      <3> HIDE DEF P
      <3> QED BY <2>4, <2>5, <3>1, NumberInduction
    <2>7. h[Len(s)] = k[Len(s)]
      BY <2>1, <2>6
    <2>8. k[Len(s) + 1] = k[Len(s)] + Cost[p.tool]
      <3>1. Len(s) + 1 \in 1..Len(v) /\ Len(s) + 1 - 1 = Len(s)
        BY <2>1
      <3> QED BY <2>1, <2>3, <3>1
    <2> QED BY <2>1, <2>2, <2>3, <2>7, <2>8 DEF v
  <1> QED BY <1>1, <1>2

-----------------------------------------------------------------------------
(* The history.                                                            *)

Symbol == Tools \X Reading
Forget(h, t) == RemoveFirstMatch(h, LAMBDA e : e[1] = t)
OneEach(h) == \A i, j \in DOMAIN h : h[i][1] = h[j][1] => i = j

\* Forgetting a tool keeps every other symbol, and only those.
LEMMA ForgetTool ==
  ASSUME NEW h \in Seq(Symbol), OneEach(h), NEW t
  PROVE  /\ Forget(h, t) \in Seq(Symbol) /\ OneEach(Forget(h, t))
         /\ \A i \in DOMAIN Forget(h, t) :
              Forget(h, t)[i][1] # t /\ \E j \in DOMAIN h : Forget(h, t)[i] = h[j]
         /\ \A j \in DOMAIN h : h[j][1] # t =>
              \E i \in DOMAIN Forget(h, t) : Forget(h, t)[i] = h[j]
  <1> DEFINE I == {i \in 1..Len(h) : h[i][1] = t}
             v == Forget(h, t)
  <1>1. Len(h) \in Nat /\ DOMAIN h = 1..Len(h) /\ I \in SUBSET Nat
    OBVIOUS
  <1>2. CASE I = {}
    <2>1. v = h
      BY <1>2 DEF Forget, RemoveFirstMatch
    <2> HIDE DEF v
    <2> QED BY <1>1, <1>2, <2>1 DEF v
  <1>3. CASE I # {}
    <2>1. v = RemoveAt(h, Min(I))
      BY <1>3 DEF Forget, RemoveFirstMatch, SelectInSeq
    <2>2. Min(I) \in I
      <3>1. \E x \in I : \A y \in I : x <= y
        <4> HIDE DEF I
        <4> QED BY <1>1, <1>3, LeastNumber
      <3> HIDE DEF I
      <3> QED BY <3>1 DEF Min
    <2> DEFINE k == Min(I)
               at(i) == IF i < k THEN i ELSE i + 1
    <2> HIDE DEF v, k
    <2>3. k \in DOMAIN h /\ h[k][1] = t
      BY <1>1, <2>2 DEF k
    <2>4. v = RemoveAt(h, k)
      BY <2>1 DEF k
    <2>5. /\ v \in Seq(Symbol) /\ DOMAIN v = 1..(Len(h) - 1)
          /\ \A i \in DOMAIN v : at(i) \in DOMAIN h /\ at(i) # k /\ v[i] = h[at(i)]
      BY <1>1, <2>3, <2>4, RemoveAtPlaces
    <2>6. \A j \in DOMAIN h : j # k => \E i \in DOMAIN v : at(i) = j
      <3> SUFFICES ASSUME NEW j \in DOMAIN h, j # k
                   PROVE  \E i \in DOMAIN v : at(i) = j
        OBVIOUS
      <3>1. CASE j < k
        BY <3>1, <1>1, <2>3, <2>5
      <3>2. CASE ~(j < k)
        <4>1. j - 1 \in DOMAIN v /\ at(j - 1) = j
          BY <3>2, <1>1, <2>3, <2>5
        <4> QED BY <4>1
      <3> QED BY <3>1, <3>2
    <2>7. \A i, j \in DOMAIN v : at(i) = at(j) => i = j
      BY <1>1, <2>3, <2>5
    <2>8. OneEach(v)
      <3> HIDE DEF at
      <3> QED BY <2>5, <2>7 DEF OneEach
    <2>9. \A i \in DOMAIN v : v[i][1] # t /\ \E j \in DOMAIN h : v[i] = h[j]
      <3> HIDE DEF at
      <3> QED BY <2>3, <2>5 DEF OneEach
    <2>10. \A j \in DOMAIN h : h[j][1] # t => \E i \in DOMAIN v : v[i] = h[j]
      <3> HIDE DEF at
      <3> QED BY <2>3, <2>5, <2>6
    <2> QED BY <2>5, <2>8, <2>9, <2>10 DEF v
  <1> QED BY <1>2, <1>3

-----------------------------------------------------------------------------
(* What a turn of advance() can do.                                        *)

\* It diagnoses, buys an observation, is refused one, or gives up.
LEMMA TurnDoes ==
  ASSUME TypeOK, Turn
  PROVE  /\ pc = "advance" /\ ~TooEarly
         /\ \/ \E causes \in SUBSET Causes :
                 Sufficient(causes) /\ Stale = {} /\ Finish("DIAGNOSE", causes, "early_confident")
            \/ \E t \in Ready : Buy(t)
            \/ \E t \in Ready : BuyRefused(t)
            \/ Finish("DEFER", {}, "deadline_or_budget")
            \/ "STOP" \in Options /\ Finish("DEFER", {}, "insufficient_support")
            \/ Wait
  <1>1. PICK causes \in SUBSET Causes, confident \in BOOLEAN :
          \/ Accept(causes, confident) \/ Refresh(causes, confident)
          \/ Exhausted(causes, confident) \/ Probe(causes, confident)
          \/ Terminal(causes, confident)
    BY DEF Turn
  <1>2. CASE Accept(causes, confident)
    BY <1>2 DEF Turn, Accept
  <1>3. CASE Refresh(causes, confident)
    <2>1. FirstBought(Refreshable) \in Refreshable
      <3> DEFINE I == {i \in DOMAIN packets : packets[i].tool \in Refreshable}
      <3>1. I \in SUBSET Nat /\ I # {}
        <4>1. Refreshable # {} /\ Refreshable \subseteq Bought
          BY <1>3 DEF Refresh, Refreshing, Refreshable, Stale
        <4>2. DOMAIN packets \in SUBSET Nat
          BY DEF TypeOK
        <4> QED BY <4>1, <4>2 DEF Bought
      <3>2. PICK i \in I : \A j \in I : i <= j
        <4> HIDE DEF I
        <4> QED BY <3>1, LeastNumber
      <3>3. \E t \in Refreshable : \E k \in DOMAIN packets :
              packets[k].tool = t /\ \A j \in DOMAIN packets : packets[j].tool \in Refreshable => k <= j
        BY <3>2
      <3> QED BY <3>3 DEF FirstBought
    <2>2. Refreshable \subseteq Ready
      BY DEF Refreshable
    <2> QED BY <1>3, <2>1, <2>2 DEF Turn, Refresh
  <1>4. CASE Exhausted(causes, confident)
    BY <1>4 DEF Turn, Exhausted
  <1>5. CASE Probe(causes, confident)
    <2>1. Options \ {"STOP"} \subseteq Ready
      BY DEF Options, Preferred, Unconfirmed, Remaining
    <2> QED BY <1>5, <2>1 DEF Turn, Probe
  <1>6. CASE Terminal(causes, confident)
    BY <1>6 DEF Turn, Terminal
  <1> QED BY <1>1, <1>2, <1>3, <1>4, <1>5, <1>6

\* A policy may propose to stop only when no anomaly in sight can still be bought.
LEMMA StopIsLast ==
  ASSUME TypeOK, "STOP" \in Options
  PROVE  \A t \in Visible : t \in Bought \/ ~Affordable(t)
  <1>1. Unconfirmed = {}
    BY SessionAssumption DEF Options, Preferred, Unconfirmed, Visible
  <1> QED BY <1>1 DEF Unconfirmed, Remaining, Visible, Ready

-----------------------------------------------------------------------------
(* The invariant is preserved.                                             *)

\* The last packet of a tool that was bought is a packet of it.
LEMMA LatestOfBought ==
  ASSUME TypeOK, NEW t \in Bought
  PROVE  Latest(t) \in Packet /\ Latest(t).tool = t
  <1>1. packets \in Seq(Packet) /\ t \in Tooled(packets)
    BY LedgerReads DEF TypeOK
  <1>2. PICK i \in Nat : IsLatest(packets, t, i)
    BY <1>1, LatestExists
  <1>3. Latest(t) = packets[i]
    BY <1>1, <1>2, LatestIs, LedgerReads
  <1> QED BY <1>1, <1>2, <1>3 DEF IsLatest

\* A purchase: the ledger is charged once and the history has the new symbol in
\* place of the old one.
LEMMA BuyStep ==
  ASSUME IInv, pc = "advance", NEW t \in Ready, Buy(t)
  PROVE  IInv'
  <1> DEFINE p == [tool |-> t, code |-> view[t], time |-> end]
             f == Forget(history, t)
  <1>1. /\ TypeOK /\ t \in Tools /\ view[t] \in Reading \ {"unavailable"} /\ end \in Nat
        /\ packets \in Seq(Packet) /\ history \in Seq(Symbol)
    BY DEF IInv, TypeOK, Ready, Symbol
  <1>2. p \in Packet
    BY <1>1 DEF Packet
  <1>3. p.tool = t /\ p.code = view[t]
    OBVIOUS
  <1>4. packets' = Append(packets, p) /\ credits' = credits + Cost[t]
    BY DEF Buy, Charge
  <1>5. history' = Append(f, <<t, view[t]>>)
    BY DEF Buy, Remember, Forget
  <1> HIDE DEF p, f
  <1>6. /\ UNCHANGED <<clock, pc, end, view, result>> /\ pc' = "advance" /\ result' = Undecided
        /\ Affordable(t)
    BY DEF Buy, IInv, ResultInv
  <1>7. /\ packets' \in Seq(Packet) /\ Tooled(packets') = Tooled(packets) \cup {t}
        /\ LatestIn(packets', t) = p
        /\ \A u \in Tooled(packets) \ {t} : LatestIn(packets', u) = LatestIn(packets, u)
    BY <1>1, <1>2, <1>3, <1>4, LatestBuy
  <1>8. OneEach(history)
    BY DEF IInv, HistoryInv, OneEach
  <1>9. /\ f \in Seq(Symbol) /\ OneEach(f)
        /\ \A i \in DOMAIN f : f[i][1] # t /\ \E j \in DOMAIN history : f[i] = history[j]
        /\ \A j \in DOMAIN history : history[j][1] # t => \E i \in DOMAIN f : f[i] = history[j]
    BY <1>1, <1>8, ForgetTool DEF f
  <1>10. /\ history' \in Seq(Symbol) /\ Len(f) \in Nat /\ DOMAIN f = 1..Len(f)
         /\ DOMAIN history' = 1..(Len(f) + 1) /\ history'[Len(f) + 1] = <<t, view[t]>>
         /\ \A i \in 1..Len(f) : history'[i] = f[i]
    <2>1. <<t, view[t]>> \in Symbol
      BY <1>1 DEF Symbol
    <2> QED BY <1>5, <1>9, <2>1
  <1>11. TypeOK'
    <2>1. credits' \in Nat
      BY <1>1, <1>4, SessionAssumption DEF TypeOK
    <2> QED BY <1>1, <1>6, <1>7, <1>10, <2>1 DEF TypeOK, Symbol
  <1>12. LedgerInv'
    <2>1. Len(packets') = Len(packets) + 1 /\ Len(packets) \in Nat
      BY <1>1, <1>2, <1>4
    <2>2. Len(packets') <= MaxProbes /\ credits' <= MaxCredits
      BY <1>4, <1>6, <2>1, SessionAssumption DEF Affordable
    <2>3. credits' = Paid(packets')
      <3>1. credits = Paid(packets)
        BY DEF IInv, LedgerInv
      <3> QED BY <1>1, <1>2, <1>3, <1>4, <3>1, PaidBuy
    <2> QED BY <2>2, <2>3 DEF LedgerInv
  <1>13. HistoryInv'
    <2>1. \A i, j \in DOMAIN history' : history'[i][1] = history'[j][1] => i = j
      <3>1. \A i \in DOMAIN history' : i # Len(f) + 1 => i \in DOMAIN f /\ history'[i] = f[i]
        BY <1>10
      <3>2. history'[Len(f) + 1][1] = t
        BY <1>10
      <3> QED BY <1>9, <3>1, <3>2 DEF OneEach
    <2>2. ASSUME NEW i \in DOMAIN history'
          PROVE  /\ history'[i][1] \in Tooled(packets')
                 /\ history'[i][2] = LatestIn(packets', history'[i][1]).code
      <3>1. CASE i = Len(f) + 1
        BY <3>1, <1>3, <1>7, <1>10
      <3>2. CASE i # Len(f) + 1
        <4>1. i \in DOMAIN f /\ history'[i] = f[i]
          BY <3>2, <1>10
        <4>2. PICK j \in DOMAIN history : f[i] = history[j]
          BY <4>1, <1>9
        <4>3. history[j][1] \in Tooled(packets) /\ history[j][2] = LatestIn(packets, history[j][1]).code
          BY LedgerReads DEF IInv, HistoryInv
        <4>4. f[i][1] # t
          BY <4>1, <1>9
        <4> QED BY <1>7, <4>1, <4>2, <4>3, <4>4
      <3> QED BY <3>1, <3>2
    <2>3. ASSUME NEW u \in Tooled(packets')
          PROVE  \E i \in DOMAIN history' : history'[i][1] = u
      <3>1. CASE u = t
        <4>1. Len(f) + 1 \in DOMAIN history' /\ history'[Len(f) + 1][1] = t
          BY <1>10
        <4> QED BY <3>1, <4>1
      <3>2. CASE u # t
        <4>1. u \in Tooled(packets)
          BY <3>2, <1>7
        <4>2. PICK j \in DOMAIN history : history[j][1] = u
          BY <4>1, LedgerReads DEF IInv, HistoryInv
        <4>3. PICK i \in DOMAIN f : f[i] = history[j]
          BY <3>2, <4>2, <1>9
        <4>4. i \in DOMAIN history' /\ history'[i] = f[i]
          BY <1>10
        <4> QED BY <4>2, <4>3, <4>4
      <3> QED BY <3>1, <3>2
    <2> QED BY <2>1, <2>2, <2>3, LedgerReads DEF HistoryInv
  <1>14. ResultInv' /\ GroundedDiagnosis' /\ RepairIsGrounded' /\ AnomaliesConfirmedFirst'
    BY <1>6 DEF ResultInv, GroundedDiagnosis, RepairIsGrounded, AnomaliesConfirmedFirst, Undecided
  <1> QED BY <1>11, <1>12, <1>13, <1>14 DEF IInv

\* A step that leaves ledger and history alone.
LEMMA SessionStays ==
  ASSUME IInv, UNCHANGED session
  PROVE  /\ LedgerInv' /\ HistoryInv' /\ Bought' = Bought
         /\ \A t : Latest(t)' = Latest(t)
  <1>1. Bought' = Bought /\ \A t : Latest(t)' = Latest(t)
    BY LedgerReads DEF session
  <1> QED BY <1>1 DEF IInv, LedgerInv, HistoryInv, session

\* A diagnosis that advance() accepts is grounded.
LEMMA AcceptStep ==
  ASSUME IInv, ~TooEarly, NEW causes \in SUBSET Causes, Sufficient(causes), Stale = {},
         Finish("DIAGNOSE", causes, "early_confident")
  PROVE  GroundedDiagnosis'
  <1>1. /\ UNCHANGED <<clock, end, view, session>> /\ result' = [kind |-> "DIAGNOSE",
           causes |-> causes, reason |-> "early_confident", at |-> clock]
    BY DEF Finish
  <1>2. result'.at = clock /\ result'.causes = causes
    BY <1>1
  <1>3. Bought' = Bought /\ \A t : Latest(t)' = Latest(t)
    BY <1>1, SessionStays
  <1>4. \A t \in Bought : clock - Latest(t).time <= MaxAge
    <2>1. ASSUME NEW t \in Bought PROVE Latest(t).time \in Nat
      BY LatestOfBought DEF Packet, IInv
    <2>2. clock \in Nat /\ MaxAge \in Nat
      BY SessionAssumption DEF IInv, TypeOK
    <2>3. \A t \in Bought : ~(clock - Latest(t).time > MaxAge)
      BY DEF Stale
    <2> QED BY <2>1, <2>2, <2>3
  <1>5. end >= MinDecision
    BY SessionAssumption DEF TooEarly, IInv, TypeOK
  <1>6. \A t \in DirectTools : view[t] = "anomalous" /\ causes # {} => CauseOf[t] \in causes
    BY SessionAssumption DEF Sufficient, DirectRoots, Visible
  <1>7. causes = {} => end >= MinHealthy /\ Visible = {} /\ packets # <<>>
    BY DEF Sufficient
  <1>8. packets # <<>> => Bought # {}
    BY DEF IInv, TypeOK, Bought
  <1>9. \A c \in causes : \E t \in Bought : CauseOf[t] = c /\ Latest(t).code = "anomalous"
    BY DEF Sufficient, Supported
  <1>10. \A t \in DirectTools : view[t] = "anomalous" => CauseOf[t] \in causes
    BY <1>6, <1>7, SessionAssumption DEF Visible
  <1>11. Visible' = Visible
    BY <1>1 DEF Visible
  <1> QED BY <1>1, <1>2, <1>3, <1>4, <1>5, <1>7, <1>8, <1>9, <1>10, <1>11 DEF GroundedDiagnosis

\* The repair gate lets through what is fresh, owned and seen.
LEMMA GateStep ==
  ASSUME IInv, Gate
  PROVE  RepairIsGrounded'
  <1>1. UNCHANGED <<clock, end, view, session, result>>
    BY DEF Gate
  <1>2. CASE ~RepairSupported
    BY <1>2 DEF Gate, RepairIsGrounded
  <1>3. CASE RepairSupported
    <2>1. result.causes = DOMAIN Owned /\ Stale = {}
      BY <1>3 DEF RepairSupported
    <2>2. ASSUME NEW c \in DOMAIN Owned
          PROVE  \E i \in DOMAIN packets :
                   /\ packets[i].tool = Owned[c] /\ packets[i].code = "anomalous"
                   /\ clock - packets[i].time <= MaxAge
      <3>1. Owned[c] \in Bought /\ Latest(Owned[c]).code = "anomalous"
        BY <1>3 DEF RepairSupported
      <3>2. packets \in Seq(Packet)
        BY DEF IInv, TypeOK
      <3>3. PICK i \in Nat : IsLatest(packets, Owned[c], i)
        BY <3>1, <3>2, LatestExists, LedgerReads
      <3>4. Latest(Owned[c]) = packets[i] /\ i \in DOMAIN packets /\ packets[i].tool = Owned[c]
        BY <3>2, <3>3, LatestIs, LedgerReads DEF IsLatest
      <3>5. packets[i].time \in Nat /\ clock \in Nat /\ MaxAge \in Nat
        <4>1. packets[i] \in Packet
          BY <3>2, <3>4
        <4>2. clock \in Nat /\ MaxAge \in Nat
          BY SessionAssumption DEF IInv, TypeOK
        <4> QED BY <4>1, <4>2 DEF Packet
      <3>6. ~(clock - packets[i].time > MaxAge)
        BY <2>1, <3>1, <3>4 DEF Stale
      <3> QED BY <3>1, <3>4, <3>5, <3>6
    <2> QED BY <1>1, <2>1, <2>2 DEF RepairIsGrounded, session
  <1> QED BY <1>2, <1>3

\* A decision is dated by the clock and closes the session.
LEMMA FinishStep ==
  ASSUME IInv, NEW causes \in SUBSET Causes, NEW kind \in {"DIAGNOSE", "DEFER"},
         NEW reason \in {"early_confident", "deadline_or_budget", "insufficient_support"},
         Finish(kind, causes, reason), pc = "advance",
         reason = "insufficient_support" => "STOP" \in Options,
         kind = "DIAGNOSE" => GroundedDiagnosis'
  PROVE  IInv'
  <1>1. /\ UNCHANGED <<clock, end, view, session>> /\ pc' = "decided"
        /\ result' = [kind |-> kind, causes |-> causes, reason |-> reason, at |-> clock]
    BY DEF Finish
  <1>2. TypeOK'
    <2>1. result' \in Decision
      BY <1>1, SessionAssumption DEF Decision, IInv, TypeOK
    <2> QED BY <1>1, <2>1 DEF IInv, TypeOK, session
  <1>3. /\ LedgerInv' /\ HistoryInv' /\ Bought' = Bought
        /\ \A t : Latest(t)' = Latest(t)
    BY <1>1, SessionStays
  <1>4. GroundedDiagnosis'
    BY <1>1 DEF GroundedDiagnosis
  <1>5. AnomaliesConfirmedFirst'
    <2>1. Visible' = Visible /\ \A t : Affordable(t)' = Affordable(t)
      BY <1>1 DEF Visible, Affordable, session
    <2>2. result'.reason = reason
      BY <1>1
    <2> QED BY <1>3, <2>1, <2>2, StopIsLast DEF AnomaliesConfirmedFirst, IInv
  <1> QED BY <1>1, <1>2, <1>3, <1>4, <1>5 DEF IInv, ResultInv, RepairIsGrounded

\* A step that decides nothing and buys nothing.
LEMMA IdleStep ==
  ASSUME IInv, UNCHANGED <<session, result>>, TypeOK',
         \/ /\ pc' = pc /\ view' = view /\ end' = end
            /\ pc # "repair" \/ clock' = clock
         \/ pc \in {"collect", "advance"} /\ pc' \in {"collect", "advance", "raised", "refused"}
         \/ pc = "decided" /\ pc' \in {"repair", "cleanup"} /\ view' = view
            /\ (pc' = "repair" => RepairIsGrounded')
  PROVE  IInv'
  <1>1. /\ LedgerInv' /\ HistoryInv' /\ Bought' = Bought
        /\ \A t : Latest(t)' = Latest(t)
    BY SessionStays
  <1>2. ResultInv' /\ RepairIsGrounded'
    BY DEF IInv, ResultInv, RepairIsGrounded, session
  <1>3. GroundedDiagnosis'
    BY <1>1 DEF IInv, ResultInv, GroundedDiagnosis, Undecided, Visible
  <1>4. AnomaliesConfirmedFirst'
    <2>1. \A t : Affordable(t)' = Affordable(t)
      BY DEF Affordable, session
    <2> QED BY <1>1, <2>1 DEF IInv, ResultInv, AnomaliesConfirmedFirst, Undecided, Visible
  <1> QED BY <1>1, <1>2, <1>3, <1>4 DEF IInv

\* Every step keeps the invariant.
LEMMA NextStep ==
  ASSUME IInv, [Next]_vars
  PROVE  IInv'
  <1> USE DEF IInv
  <1>1. CASE Tick
    <2>1. TypeOK'
      BY <1>1, SessionAssumption DEF Tick, TypeOK, session
    <2> QED BY <1>1, <2>1, IdleStep DEF Tick, Ended
  <1>2. CASE Snapshot
    <2>1. end' \in 0..Limit
      <3>1. clock \in Nat /\ Limit \in Nat
        BY SessionAssumption DEF TypeOK
      <3>2. \E x \in {clock, Limit} : \A y \in {clock, Limit} : x <= y
        BY <3>1
      <3>3. Min({clock, Limit}) \in {clock, Limit} /\ Min({clock, Limit}) <= Limit
        BY <3>2 DEF Min
      <3> QED BY <1>2, <3>1, <3>3 DEF Snapshot
    <2>2. TypeOK'
      BY <1>2, <2>1 DEF Snapshot, TypeOK, session
    <2> QED BY <1>2, <2>2, IdleStep DEF Snapshot
  <1>3. CASE SnapshotFailed
    <2>1. TypeOK'
      BY <1>3 DEF SnapshotFailed, TypeOK, session, Ended
    <2> QED BY <1>3, <2>1, IdleStep DEF SnapshotFailed
  <1>4. CASE AdvanceEarly
    <2>1. TypeOK'
      BY <1>4 DEF AdvanceEarly, Wait, TypeOK, session
    <2> QED BY <1>4, <2>1, IdleStep DEF AdvanceEarly, Wait
  <1>5. CASE Turn
    <2>1. pc = "advance" /\ ~TooEarly
      BY <1>5, TurnDoes
    <2>2. ASSUME NEW causes \in SUBSET Causes, Sufficient(causes), Stale = {},
                 Finish("DIAGNOSE", causes, "early_confident")
          PROVE  IInv'
      BY <2>1, <2>2, AcceptStep, FinishStep
    <2>3. ASSUME NEW t \in Ready, Buy(t) PROVE IInv'
      BY <2>1, <2>3, BuyStep
    <2>4. ASSUME NEW t \in Ready, BuyRefused(t) PROVE IInv'
      <3>1. TypeOK'
        BY <2>4 DEF BuyRefused, TypeOK, session, Ended
      <3> QED BY <2>1, <2>4, <3>1, IdleStep DEF BuyRefused
    <2>5. CASE Finish("DEFER", {}, "deadline_or_budget")
      BY <2>1, <2>5, FinishStep
    <2>6. CASE "STOP" \in Options /\ Finish("DEFER", {}, "insufficient_support")
      BY <2>1, <2>6, FinishStep
    <2>7. CASE Wait
      <3>1. TypeOK'
        BY <2>7 DEF Wait, TypeOK, session
      <3> QED BY <2>1, <2>7, <3>1, IdleStep DEF Wait
    <2> QED BY <1>5, <2>2, <2>3, <2>4, <2>5, <2>6, <2>7, TurnDoes
  <1>6. CASE TurnFailed
    <2>1. TypeOK'
      BY <1>6 DEF TurnFailed, TypeOK, session, Ended
    <2> QED BY <1>6, <2>1, IdleStep DEF TurnFailed
  <1>7. CASE Gate
    <2>1. TypeOK'
      BY <1>7 DEF Gate, TypeOK, session, Ended
    <2> QED BY <1>7, <2>1, GateStep, IdleStep DEF Gate
  <1>8. CASE Over \/ UNCHANGED vars
    <2>1. TypeOK' /\ UNCHANGED <<session, result, pc, view, end, clock>>
      BY <1>8 DEF Over, vars, TypeOK, session
    <2> QED BY <2>1, IdleStep
  <1> QED BY <1>1, <1>2, <1>3, <1>4, <1>5, <1>6, <1>7, <1>8 DEF Next

-----------------------------------------------------------------------------
(* The theorems.                                                           *)

\* The inductive invariant: ledger, history and decision agree through every turn
\* of ProgressiveSession.advance, whatever model and policy answer.
THEOREM SessionInvariant == Spec => []IInv
  <1>1. Init => IInv
    <2> SUFFICES ASSUME Init PROVE IInv
      OBVIOUS
    <2>1. TypeOK
      BY SessionAssumption DEF Init, TypeOK, Reading, Decision, Undecided
    <2>2. Bought = {} /\ Paid(packets) = 0 /\ Len(packets) = 0
      BY PaidBuy DEF Init, Bought
    <2>3. LedgerInv
      BY <2>2, SessionAssumption DEF Init, LedgerInv
    <2>4. HistoryInv
      BY <2>2 DEF Init, HistoryInv
    <2> QED
      BY <2>1, <2>3, <2>4
      DEF Init, IInv, ResultInv, GroundedDiagnosis, RepairIsGrounded, AnomaliesConfirmedFirst,
          Undecided
  <1>2. IInv /\ [Next]_vars => IInv'
    BY NextStep
  <1> QED
    BY <1>1, <1>2, PTL DEF Spec

\* "fresh purchased evidence and direct support for every predicted cause": what
\* the session accepts, what the controller repairs on, and when a session may
\* give up (early.py, controller.py), for every model, policy and catalogue.
THEOREM SessionDecisionsAreGrounded == Spec => []DecisionsAreGrounded
  <1>1. IInv => DecisionsAreGrounded
    BY DEF IInv, DecisionsAreGrounded
  <1> QED
    BY <1>1, SessionInvariant, PTL

\* "One budget for the entire incident. Refresh replaces a symbol, not its cost":
\* VersionedLedger charges every purchase and stays within its budget, and the
\* model reads exactly the latest symbol of each tool bought.
THEOREM SessionHasOneLedger == Spec => []OneLedger
  <1>1. ASSUME IInv PROVE OneLedger
    <2> USE <1>1 DEF IInv
    <2>1. credits = FoldLeft(LAMBDA sum, p : sum + Cost[p.tool], 0, packets)
      BY DEF LedgerInv, Paid
    <2>2. ToSet(history) = {<<t, Latest(t).code>> : t \in Bought}
      <3>1. \A i \in DOMAIN history : history[i] = <<history[i][1], history[i][2]>>
        BY DEF TypeOK
      <3> QED BY <3>1 DEF HistoryInv, ToSet
    <2>3. Len(history) = Cardinality(Bought)
      <3> DEFINE f == [i \in 1..Len(history) |-> history[i][1]]
      <3>1. Len(history) \in Nat /\ DOMAIN history = 1..Len(history)
        BY DEF TypeOK
      <3>2. f \in Bijection(1..Len(history), Bought)
        BY <3>1 DEF HistoryInv, Bijection, Injection, Surjection, IsInjective
      <3> HIDE DEF f
      <3>3. ExistsBijection(1..Len(history), Bought)
        BY <3>2 DEF ExistsBijection
      <3> QED BY <3>1, <3>3, FS_CountingElements
    <2> QED BY <2>1, <2>2, <2>3 DEF OneLedger, LedgerInv
  <1> QED
    BY <1>1, SessionInvariant, PTL
=============================================================================
