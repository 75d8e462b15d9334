------------------------- MODULE KnowledgeGraphProofs -------------------------
(***************************************************************************)
(* Theorems about the knowledge-graph pipeline, for any services, CALLS    *)
(* edges, hops and writers: a cycle leaves exactly the propagation edges   *)
(* of its anomalies, an expansion of a graph that keeps still finds        *)
(* exactly what is within its reach, and the system message is current.    *)
(*                                                                         *)
(* IInv is the inductive invariant.  CycleInv says what a poll knows of    *)
(* the services it has passed, at each place of a cycle, and that no stale *)
(* edge starts at one of them.  ExpandInv compares an expansion with the   *)
(* balls around its start: it has visited the ball of the hops before, it  *)
(* asked the members of that ball that are not in todo, and its frontier   *)
(* are the anomalies it met outside.  BallNext says that a ball is one     *)
(* step more than the ball before; from it follows that the search, which  *)
(* marks nodes as visited, misses no path (ExpansionEnds).                 *)
(***************************************************************************)
EXTENDS KnowledgeGraph, FiniteSetTheorems, WellFoundedInduction, TLAPS

-----------------------------------------------------------------------------
(* Facts about data.                                                        *)

\* A set of numbers that is not empty has a least element.
THEOREM LeastNumber ==
  ASSUME NEW T \in SUBSET Nat, T # {}
  PROVE  \E x \in T : \A y \in T : x <= y
  <1> DEFINE U == {0..n : n \in T}
             R == StrictSubsetOrdering(Nat)
  <1>1. U \subseteq FiniteSubsetsOf(Nat)
    <2> SUFFICES ASSUME NEW n \in T
                 PROVE  0..n \in FiniteSubsetsOf(Nat)
      OBVIOUS
    <2>1. IsFiniteSet(0..n) /\ 0..n \in SUBSET Nat
      BY FS_Interval
    <2> QED BY <2>1 DEF FiniteSubsetsOf
  <1>2. IsWellFoundedOn(R, FiniteSubsetsOf(Nat)) /\ U # {}
    BY FS_StrictSubsetOrderingWellFounded
  <1>3. \A x, y \in T : y < x => <<0..y, 0..x>> \in R
    <2> SUFFICES ASSUME NEW x \in T, NEW y \in T, y < x
                 PROVE  <<0..y, 0..x>> \in R
      OBVIOUS
    <2>1. x \in 0..x /\ x \notin 0..y
      OBVIOUS
    <2>2. 0..y \subseteq 0..x /\ 0..y # 0..x /\ 0..x \in SUBSET Nat
      BY <2>1
    <2> QED BY <2>2 DEF StrictSubsetOrdering
  <1> HIDE DEF R
  <1>4. \A V : V \subseteq FiniteSubsetsOf(Nat) /\ V # {} =>
                 \E x \in V : \A y \in V : ~(<<y, x>> \in R)
    BY <1>2, WFMin
  <1>5. PICK u \in U : \A v \in U : ~(<<v, u>> \in R)
    BY <1>1, <1>2, <1>4
  <1>6. PICK x \in T : u = 0..x
    BY <1>5
  <1>7. \A y \in T : ~(y < x)
    BY <1>3, <1>5, <1>6
  <1> QED BY <1>7

\* A set of numbers with zero and the successors of its elements is all of them.
THEOREM NumberInduction ==
  ASSUME NEW P \in SUBSET Nat, 0 \in P, \A n \in P : n + 1 \in P
  PROVE  P = Nat
  <1> SUFFICES ASSUME Nat \ P # {}
               PROVE  FALSE
    OBVIOUS
  <1>1. PICK x \in Nat \ P : \A y \in Nat \ P : x <= y
    BY LeastNumber
  <1>2. x # 0 /\ x - 1 \in Nat /\ ~(x <= x - 1)
    BY <1>1
  <1>3. x - 1 \in P
    BY <1>1, <1>2
  <1> QED BY <1>1, <1>2, <1>3

-----------------------------------------------------------------------------

\* The anomalous services, for the times sc, and the edges they should have.
Hot(sc)    == {s \in Service : sc[s] > 0}
EdgesOf(F) == UNION {{s} \X Callers(s) : s \in F}

\* What is reached from s through members of F in at most k hops, and s itself.
Path(F, p, j) == \A i \in 1..j : p[i] \in Neighbours(p[i - 1]) /\ p[i] \in F
Ball(F, s, k) == {s} \cup {n \in Service : \E j \in 1..k : \E p \in [0..j -> Service] :
                             p[0] = s /\ p[j] = n /\ Path(F, p, j)}

\* The writer that is at work has the lease.
LeaseInv == \A w \in Writers : at[w] # "off" => lease = w

\* The cycle has seen the first n - 1 services: it found the anomalous ones among
\* them, and no edge starts at another.
First(n) == {Services[i] : i \in 1..(n - 1)}
Polled(sc, found, edges, n) ==
  /\ found = First(n) \cap Hot(sc)
  /\ \A t \in edges : t[1] \in First(n) => t[1] \in found

CycleInv ==
  /\ triggers \subseteq EdgesOf(Service)
  /\ \A w \in Writers :
       /\ at[w] \in {"poll", "prune"} => /\ cycle.next <= Len(Services)
                                         /\ Polled(since, cycle.found, triggers, cycle.next)
       /\ at[w] = "prune" => since[Services[cycle.next]] = 0
       /\ at[w] \in {"propagate", "link"} => Polled(since, cycle.found, triggers, Len(Services) + 1)
       /\ at[w] = "link" => /\ cycle.links \subseteq EdgesOf(Hot(since))
                            /\ EdgesOf(Hot(since)) \subseteq triggers \cup cycle.links
       /\ at[w] = "sleep" => cycle = NoCycle /\ triggers = EdgesOf(Hot(since))

\* An expansion under way in a graph that kept still: it has seen what is within
\* reach of the hops before, and of this hop as far as it has asked.
Expanding == chat \in {"begin", "expand"} /\ ex.hop > 0 /\ still

Explored(F, e) ==
  /\ Ball(F, e.start, e.hop - 1) \subseteq e.visited
  /\ e.visited \cap F \subseteq Ball(F, e.start, e.hop)
  /\ e.todo \subseteq Ball(F, e.start, e.hop - 1)
  /\ e.frontier = (e.visited \cap F) \ Ball(F, e.start, e.hop - 1)
  /\ \A m \in Ball(F, e.start, e.hop - 1) \ e.todo : Neighbours(m) \subseteq e.visited

Rooted(sc, e) ==
  /\ e.anomalous = e.visited \cap Hot(sc)
  /\ e.anomalous = {} => e.first = 0
  /\ e.anomalous # {} => /\ e.root \in e.anomalous /\ e.first = sc[e.root]
                         /\ \A n \in e.anomalous : e.first <= sc[n]

ExpandInv == Expanding => Explored(Hot(since), ex) /\ Rooted(since, ex)

\* It has not asked anything yet.
Fresh(e) == /\ e.visited = {} /\ e.todo = {} /\ e.frontier = {} /\ e.anomalous = {}
            /\ e.first = 0 /\ e.root = e.start

ChatInv ==
  /\ chat \in {"begin", "expand"} => ex.start \in known
  /\ ex.hop = 0 => Fresh(ex)
  /\ chat = "expand" => missed

IInv == TypeOK /\ LeaseInv /\ CycleInv /\ ExpandInv /\ ChatInv /\ ContextIsCurrent

-----------------------------------------------------------------------------
(* What is within reach.                                                   *)

\* What the assumption on the list of services says of their set.
LEMMA ServiceList ==
  /\ Len(Services) \in Nat \ {0} /\ DOMAIN Services = 1..Len(Services)
  /\ Service = {Services[i] : i \in 1..Len(Services)}
  /\ \A i \in 1..Len(Services) : Services[i] \in Service
  /\ \A i, j \in 1..Len(Services) : Services[i] = Services[j] => i = j
  /\ Service = First(Len(Services) + 1)
  <1>1. Services \in Seq(Service) /\ Len(Services) > 0
        /\ \A i, j \in DOMAIN Services : Services[i] = Services[j] => i = j
    BY GraphAssumption
  <1>2. Len(Services) \in Nat \ {0} /\ DOMAIN Services = 1..Len(Services)
    BY <1>1
  <1>3. Len(Services) + 1 - 1 = Len(Services)
    BY <1>2
  <1> QED BY <1>1, <1>2, <1>3 DEF Service, First

\* No hop reaches but the start.
LEMMA BallZero ==
  ASSUME NEW F, NEW s
  PROVE  Ball(F, s, 0) = {s}
  BY DEF Ball

\* One hop more reaches the anomalous neighbours of what was reached.
LEMMA BallNext ==
  ASSUME NEW F \in SUBSET Service, NEW s \in Service, NEW k \in Nat
  PROVE  Ball(F, s, k + 1) =
           Ball(F, s, k) \cup {n \in F : \E m \in Ball(F, s, k) : n \in Neighbours(m)}
  <1> DEFINE Next1 == {n \in F : \E m \in Ball(F, s, k) : n \in Neighbours(m)}
  <1>1. Ball(F, s, k) \subseteq Ball(F, s, k + 1)
    <2>1. 1..k \subseteq 1..(k + 1)
      OBVIOUS
    <2> QED BY <2>1 DEF Ball
  <1>2. ASSUME NEW n \in Next1
        PROVE  n \in Ball(F, s, k + 1)
    <2>1. PICK m \in Ball(F, s, k) : n \in Neighbours(m)
      OBVIOUS
    <2>2. n \in F /\ n \in Service
      OBVIOUS
    <2>3. PICK j \in 0..k : \E p \in [0..j -> Service] : p[0] = s /\ p[j] = m /\ Path(F, p, j)
      <3>1. CASE m = s
        <4>1. [i \in 0..0 |-> s] \in [0..0 -> Service] /\ [i \in 0..0 |-> s][0] = s
          OBVIOUS
        <4>2. Path(F, [i \in 0..0 |-> s], 0)
          BY DEF Path
        <4>3. 0 \in 0..k
          OBVIOUS
        <4> QED BY <3>1, <4>1, <4>2, <4>3
      <3>2. CASE m # s
        <4>1. \E j \in 1..k : \E p \in [0..j -> Service] : p[0] = s /\ p[j] = m /\ Path(F, p, j)
          BY <2>1, <3>2 DEF Ball
        <4>2. 1..k \subseteq 0..k
          OBVIOUS
        <4> QED BY <4>1, <4>2
      <3> QED BY <3>1, <3>2
    <2>10. PICK p \in [0..j -> Service] : p[0] = s /\ p[j] = m /\ Path(F, p, j)
      BY <2>3
    <2> DEFINE q == [i \in 0..(j + 1) |-> IF i = j + 1 THEN n ELSE p[i]]
    <2>4. j \in Nat /\ j + 1 \in 1..(k + 1)
      OBVIOUS
    <2>5. \A i \in 0..(j + 1) : i # j + 1 => i \in 0..j
      BY <2>4
    <2>6. q \in [0..(j + 1) -> Service] /\ q[j + 1] = n /\ \A i \in 0..j : q[i] = p[i]
      BY <2>2, <2>10, <2>4, <2>5
    <2> HIDE DEF q
    <2>7. Path(F, q, j + 1)
      <3> SUFFICES ASSUME NEW i \in 1..(j + 1)
                   PROVE  q[i] \in Neighbours(q[i - 1]) /\ q[i] \in F
        BY DEF Path
      <3>1. CASE i = j + 1
        <4>1. i - 1 = j /\ j \in 0..j
          BY <2>4, <3>1
        <4> QED BY <2>1, <2>2, <2>10, <2>6, <3>1, <4>1
      <3>2. CASE i # j + 1
        <4>1. i \in 1..j /\ i \in 0..j /\ i - 1 \in 0..j
          BY <2>4, <3>2
        <4> QED BY <2>10, <2>6, <4>1 DEF Path
      <3> QED BY <3>1, <3>2
    <2>8. q[0] = s
      <3>1. 0 \in 0..j
        BY <2>4
      <3> QED BY <2>10, <2>6, <3>1
    <2> QED BY <2>2, <2>4, <2>6, <2>7, <2>8 DEF Ball
  <1>3. ASSUME NEW n \in Ball(F, s, k + 1), n \notin Ball(F, s, k)
        PROVE  n \in Next1
    <2>1. n # s
      BY <1>3 DEF Ball
    <2>7. PICK j \in 1..(k + 1) : \E p \in [0..j -> Service] : p[0] = s /\ p[j] = n /\ Path(F, p, j)
      BY <2>1 DEF Ball
    <2>2. PICK p \in [0..j -> Service] : p[0] = s /\ p[j] = n /\ Path(F, p, j)
      BY <2>7
    <2>3. j = k + 1
      <3>1. n \in Service
        BY <2>1 DEF Ball
      <3>2. j \notin 1..k
        BY <1>3, <2>2, <3>1 DEF Ball
      <3> QED BY <3>2
    <2>4. k \in 0..j /\ k + 1 \in 1..j
      BY <2>3
    <2>5. n \in F /\ n \in Neighbours(p[k])
      <3>1. p[k + 1] \in Neighbours(p[k + 1 - 1]) /\ p[k + 1] \in F
        BY <2>2, <2>4 DEF Path
      <3>2. k + 1 - 1 = k
        OBVIOUS
      <3> QED BY <2>2, <2>3, <3>1, <3>2
    <2>6. p[k] \in Ball(F, s, k)
      <3>1. CASE k = 0
        BY <2>2, <3>1 DEF Ball
      <3>2. CASE k # 0
        <4> DEFINE q == [i \in 0..k |-> p[i]]
        <4>1. 0..k \subseteq 0..j /\ 1..k \subseteq 1..j /\ k \in 1..k /\ 0 \in 0..k /\ k \in 0..k
          BY <2>3, <3>2
        <4>2. q \in [0..k -> Service] /\ \A i \in 0..k : q[i] = p[i]
          BY <2>2, <4>1
        <4> HIDE DEF q
        <4>3. Path(F, q, k)
          <5> SUFFICES ASSUME NEW i \in 1..k
                       PROVE  q[i] \in Neighbours(q[i - 1]) /\ q[i] \in F
            BY DEF Path
          <5>1. i \in 1..j /\ i \in 0..k /\ i - 1 \in 0..k
            BY <4>1
          <5> QED BY <2>2, <4>2, <5>1 DEF Path
        <4>4. q[0] = s /\ q[k] = p[k] /\ p[k] \in Service
          BY <2>2, <4>1, <4>2
        <4> QED BY <4>1, <4>2, <4>3, <4>4 DEF Ball
      <3> QED BY <3>1, <3>2
    <2> QED BY <2>5, <2>6
  <1> HIDE DEF Next1
  <1>4. Ball(F, s, k + 1) = Ball(F, s, k) \cup Next1
    BY <1>1, <1>2, <1>3
  <1> QED BY <1>4 DEF Next1

\* The reach grows with the hops, and once a hop adds nothing no hop does.
LEMMA BallGrows ==
  ASSUME NEW F \in SUBSET Service, NEW s \in Service, NEW k \in Nat, NEW d \in Nat
  PROVE  /\ Ball(F, s, k) \subseteq Ball(F, s, k + d)
         /\ Ball(F, s, k + 1) \subseteq Ball(F, s, k) => Ball(F, s, k + d) = Ball(F, s, k)
  <1> DEFINE B(n) == Ball(F, s, n)
             P == {n \in Nat : /\ B(k) \subseteq B(k + n)
                               /\ B(k + 1) \subseteq B(k) => B(k + n) = B(k)}
  <1>1. 0 \in P
    OBVIOUS
  <1>2. ASSUME NEW n \in P PROVE n + 1 \in P
    <2>1. n \in Nat /\ k + n \in Nat /\ k + (n + 1) = (k + n) + 1
      OBVIOUS
    <2>2. B(k) \subseteq B(k + n) /\ (B(k + 1) \subseteq B(k) => B(k + n) = B(k))
      OBVIOUS
    <2>3. B((k + n) + 1) = B(k + n) \cup {m \in F : \E l \in B(k + n) : m \in Neighbours(l)}
      <3>1. \A x \in Nat :
              Ball(F, s, x + 1) = Ball(F, s, x) \cup {m \in F : \E l \in Ball(F, s, x) : m \in Neighbours(l)}
        BY BallNext
      <3> QED BY <2>1, <3>1
    <2>4. B(k + 1) = B(k) \cup {m \in F : \E l \in B(k) : m \in Neighbours(l)}
      BY BallNext
    <2> HIDE DEF B
    <2>5. B(k) \subseteq B(k + (n + 1))
      BY <2>1, <2>2, <2>3
    <2>6. B(k + 1) \subseteq B(k) => B(k + (n + 1)) = B(k)
      BY <2>1, <2>2, <2>3, <2>4
    <2> QED BY <2>1, <2>5, <2>6
  <1>3. P = Nat
    <2>1. P \in SUBSET Nat
      OBVIOUS
    <2> HIDE DEF P
    <2> QED BY <1>1, <1>2, <2>1, NumberInduction
  <1> QED BY <1>3

\* The same in the words of ExpansionIsExact.
LEMMA BallReached ==
  ASSUME NEW s \in Service
  PROVE  \A n \in Service : \A k : n \in Ball(Hot(since), s, k) <=> n = s \/ Reached(s, n, k)
  BY DEF Ball, Reached, Path, Hot, Flagged

\* A ball holds its centre, and services only.
LEMMA BallIn ==
  ASSUME NEW F, NEW s \in Service, NEW k
  PROVE  s \in Ball(F, s, k) /\ Ball(F, s, k) \subseteq Service
  BY DEF Ball

-----------------------------------------------------------------------------
(* The poll.                                                               *)

\* One service more.
LEMMA PollNext ==
  ASSUME NEW n \in 1..Len(Services), NEW sc, NEW found, NEW edges,
         Polled(sc, found, edges, n),
         NEW sc2, \A s \in Service : s # Services[n] => sc2[s] = sc[s],
         NEW found2, NEW edges2 \in SUBSET edges,
         \/ sc2[Services[n]] > 0 /\ found2 = found \cup {Services[n]}
         \/ ~(sc2[Services[n]] > 0) /\ found2 = found /\ \A t \in edges2 : t[1] # Services[n]
  PROVE  Polled(sc2, found2, edges2, n + 1)
  <1>1. /\ Len(Services) \in Nat /\ n \in Nat
        /\ \A i \in 1..Len(Services) : Services[i] \in Service
        /\ \A i, j \in 1..Len(Services) : Services[i] = Services[j] => i = j
    BY ServiceList
  <1>2. First(n + 1) = First(n) \cup {Services[n]}
    <2>1. 1..(n + 1 - 1) = 1..(n - 1) \cup {n}
      BY <1>1
    <2> QED BY <2>1 DEF First
  <1>3. First(n) \subseteq Service /\ Services[n] \notin First(n) /\ Services[n] \in Service
    <2>1. \A i \in 1..(n - 1) : i \in 1..Len(Services) /\ i # n
      BY <1>1
    <2> QED BY <1>1, <2>1 DEF First
  <1>4. First(n) \cap Hot(sc2) = First(n) \cap Hot(sc)
    BY <1>3 DEF Hot
  <1>5. found2 = First(n + 1) \cap Hot(sc2)
    BY <1>2, <1>3, <1>4 DEF Polled, Hot
  <1>6. \A t \in edges2 : t[1] \in First(n + 1) => t[1] \in found2
    BY <1>2 DEF Polled
  <1> QED BY <1>5, <1>6 DEF Polled

\* The current service may change before it is looked at.
LEMMA PollStays ==
  ASSUME NEW n \in 1..Len(Services), NEW sc, NEW found, NEW edges,
         Polled(sc, found, edges, n),
         NEW sc2, \A s \in Service : s # Services[n] => sc2[s] = sc[s]
  PROVE  Polled(sc2, found, edges, n)
  <1>1. /\ Len(Services) \in Nat /\ n \in Nat
        /\ \A i \in 1..Len(Services) : Services[i] \in Service
        /\ \A i, j \in 1..Len(Services) : Services[i] = Services[j] => i = j
    BY ServiceList
  <1>2. First(n) \subseteq Service /\ Services[n] \notin First(n)
    <2>1. \A i \in 1..(n - 1) : i \in 1..Len(Services) /\ i # n
      BY <1>1
    <2> QED BY <1>1, <2>1 DEF First
  <1>3. First(n) \cap Hot(sc2) = First(n) \cap Hot(sc)
    BY <1>2 DEF Hot
  <1> QED BY <1>3 DEF Polled

\* Nothing is seen before the poll, and everything after it.
LEMMA PollEnds ==
  ASSUME NEW sc, NEW edges
  PROVE  /\ Polled(sc, {}, edges, 1)
         /\ \A found : Polled(sc, found, edges, Len(Services) + 1) /\ edges \subseteq EdgesOf(Service) =>
              found = Hot(sc) /\ edges \subseteq EdgesOf(Hot(sc))
  <1>1. Polled(sc, {}, edges, 1)
    <2>1. First(1) = {}
      BY DEF First
    <2> QED BY <2>1 DEF Polled
  <1>2. ASSUME NEW found, Polled(sc, found, edges, Len(Services) + 1), edges \subseteq EdgesOf(Service)
        PROVE  found = Hot(sc) /\ edges \subseteq EdgesOf(Hot(sc))
    <2>1. Service = First(Len(Services) + 1)
      BY ServiceList
    <2>2. found = Hot(sc)
      BY <1>2, <2>1 DEF Polled, Hot
    <2>3. \A t \in edges : \E s \in Service : t \in {s} \X Callers(s)
      BY <1>2 DEF EdgesOf
    <2>4. \A t \in edges : t[1] \in Service => t[1] \in found
      BY <1>2, <2>1 DEF Polled
    <2>5. ASSUME NEW t \in edges
          PROVE  t \in EdgesOf(Hot(sc))
      <3>1. PICK s \in Service : t \in {s} \X Callers(s)
        BY <2>3
      <3>2. t[1] = s
        BY <3>1
      <3>3. s \in Hot(sc)
        BY <2>2, <2>4, <3>2
      <3> QED BY <3>1, <3>3 DEF EdgesOf
    <2> QED BY <2>2, <2>5
  <1> QED BY <1>1, <1>2

\* The edges of more services are more edges, and all join services.
LEMMA EdgesGrow ==
  /\ \A F \in SUBSET Service : EdgesOf(F) \subseteq EdgesOf(Service)
  /\ EdgesOf({}) = {} /\ EdgesOf(Service) \subseteq Service \X Service
  <1>1. \A F \in SUBSET Service : EdgesOf(F) \subseteq EdgesOf(Service)
    BY DEF EdgesOf
  <1>2. EdgesOf({}) = {}
    BY DEF EdgesOf
  <1>3. \A s \in Service : {s} \X Callers(s) \subseteq Service \X Service
    BY DEF Callers
  <1>4. EdgesOf(Service) \subseteq Service \X Service
    BY <1>3 DEF EdgesOf
  <1> QED BY <1>1, <1>2, <1>4

-----------------------------------------------------------------------------
(* One query of the expansion.                                             *)

\* It adds the new anomalies and may change the root, and nothing else.
LEMMA EarliestTypes ==
  ASSUME NEW e \in [start : Service \cup {Nobody}, visited : SUBSET Service, todo : SUBSET Service,
             frontier : SUBSET Service, anomalous : SUBSET Service,
             root : Service \cup {Nobody}, first : 0..MaxFlags, hop : 0..MaxHops],
         since \in [Service -> 0..MaxFlags], NEW new \in SUBSET Service
  PROVE  LET e2 == NewEarliest(e, new)
         IN  /\ e2 = [e EXCEPT !.anomalous = e2.anomalous, !.root = e2.root, !.first = e2.first]
             /\ e2.anomalous \subseteq Service /\ e2.root \in Service \cup {Nobody}
             /\ e2.first \in 0..MaxFlags
  <1> DEFINE hot == {n \in new : since[n] > 0}
             low == CHOOSE n \in hot : \A m \in hot : since[n] <= since[m]
             e1 == [e EXCEPT !.anomalous = @ \cup hot]
             e2 == NewEarliest(e, new)
  <1>1. MaxFlags \in Nat /\ \A n \in Service : since[n] \in Nat /\ since[n] \in 0..MaxFlags
    BY GraphAssumption
  <1>2. CASE hot = {}
    <2>1. e2 = e
      BY <1>2 DEF NewEarliest
    <2> HIDE DEF e2
    <2> QED BY <2>1 DEF e2
  <1>3. CASE hot # {}
    <2>1. low \in hot
      <3>1. {since[n] : n \in hot} \in SUBSET Nat /\ {since[n] : n \in hot} # {}
        BY <1>1, <1>3
      <3>2. \E x \in {since[n] : n \in hot} : \A y \in {since[n] : n \in hot} : x <= y
        BY <3>1, LeastNumber
      <3>3. \E n \in hot : \A m \in hot : since[n] <= since[m]
        BY <3>2
      <3> HIDE DEF hot
      <3> QED BY <3>3
    <2>2. e2 = Record(e1, low)
      BY <1>3 DEF NewEarliest
    <2>3. since[low] # 0 /\ low \in Service
      BY <1>1, <2>1
    <2>4. hot \subseteq Service
      OBVIOUS
    <2> HIDE DEF low, hot
    <2> DEFINE a == (e.anomalous \cup hot) \cup {low}
               f == IF Earlier(e1, low) THEN since[low] ELSE e.first
               r == IF Earlier(e1, low) THEN low ELSE e.root
    <2>5. e2 = [e EXCEPT !.anomalous = a, !.root = r, !.first = f]
      BY <2>2, <2>3 DEF Record
    <2>6. a \subseteq Service /\ r \in Service \cup {Nobody} /\ f \in 0..MaxFlags
      BY <1>1, <2>3, <2>4
    <2> HIDE DEF a, f, r, e2
    <2> QED BY <2>5, <2>6 DEF e2
  <1> QED BY <1>2, <1>3

\* The earliest of the new anomalies is taken as the root if it came earlier.
LEMMA EarliestIsRoot ==
  ASSUME NEW e, e \in [start : Service \cup {Nobody}, visited : SUBSET Service, todo : SUBSET Service,
             frontier : SUBSET Service, anomalous : SUBSET Service,
             root : Service \cup {Nobody}, first : 0..MaxFlags, hop : 0..MaxHops],
         since \in [Service -> 0..MaxFlags], NEW new \in SUBSET Service,
         Rooted(since, e)
  PROVE  LET e2 == NewEarliest(e, new)
         IN  /\ e2 = [e EXCEPT !.anomalous = e.anomalous \cup (new \cap Hot(since)),
                               !.root = e2.root, !.first = e2.first]
             /\ e2.root \in Service \cup {Nobody} /\ e2.first \in 0..MaxFlags
             /\ Rooted(since, [e2 EXCEPT !.visited = e.visited \cup new])
  <1> DEFINE hot == {n \in new : since[n] > 0}
             low == CHOOSE n \in hot : \A m \in hot : since[n] <= since[m]
             e2 == NewEarliest(e, new)
  <1>1. hot = new \cap Hot(since) /\ hot \subseteq Service
    BY DEF Hot
  <1>2. MaxFlags \in Nat /\ \A s \in Service : since[s] \in Nat /\ since[s] \in 0..MaxFlags
    BY GraphAssumption
  <1>3. CASE hot = {}
    <2>1. e2 = e
      BY <1>3 DEF NewEarliest
    <2>2. (e.visited \cup new) \cap Hot(since) = e.visited \cap Hot(since)
      BY <1>1, <1>3
    <2> HIDE DEF e2
    <2>3. Rooted(since, [e2 EXCEPT !.visited = e.visited \cup new])
      BY <2>1, <2>2 DEF Rooted
    <2>4. e = [e EXCEPT !.anomalous = e.anomalous \cup (new \cap Hot(since)),
                        !.root = e.root, !.first = e.first]
      BY <1>1, <1>3
    <2> QED BY <2>1, <2>3, <2>4 DEF e2
  <1>4. CASE hot # {}
    <2>1. low \in hot /\ \A m \in hot : since[low] <= since[m]
      <3>1. {since[n] : n \in hot} \in SUBSET Nat /\ {since[n] : n \in hot} # {}
        BY <1>1, <1>2, <1>4
      <3>2. \E x \in {since[n] : n \in hot} : \A y \in {since[n] : n \in hot} : x <= y
        BY <3>1, LeastNumber
      <3>3. \E n \in hot : \A m \in hot : since[n] <= since[m]
        BY <3>2
      <3> HIDE DEF hot
      <3> QED BY <3>3
    <2>2. e2 = Record([e EXCEPT !.anomalous = e.anomalous \cup hot], low)
      BY <1>4 DEF NewEarliest
    <2> HIDE DEF low
    <2>3. since[low] > 0 /\ low \in Service /\ low \in new
      BY <1>1, <2>1
    <2> DEFINE early == e.first = 0 \/ since[low] < e.first
    <2>4. e2 = [e EXCEPT !.anomalous = e.anomalous \cup hot,
                         !.root = IF early THEN low ELSE e.root,
                         !.first = IF early THEN since[low] ELSE e.first]
      <3>1. since[low] # 0
        BY <1>2, <2>3
      <3>2. (e.anomalous \cup hot) \cup {low} = e.anomalous \cup hot
        BY <2>1
      <3> HIDE DEF hot
      <3> QED BY <2>2, <3>1, <3>2 DEF Record, Earlier
    <2> HIDE DEF hot, e2
    <2>5. /\ e2.anomalous = e.anomalous \cup hot /\ e2.visited = e.visited
          /\ e2.root = (IF early THEN low ELSE e.root)
          /\ e2.first = (IF early THEN since[low] ELSE e.first)
      BY <2>4
    <2>6. /\ e2 = [e EXCEPT !.anomalous = e.anomalous \cup hot, !.root = e2.root, !.first = e2.first]
          /\ e2.root \in Service \cup {Nobody} /\ e2.first \in 0..MaxFlags
      BY <1>2, <2>3, <2>4, <2>5
    <2> DEFINE e3 == [e2 EXCEPT !.visited = e.visited \cup new]
    <2>7. /\ e3.anomalous = e.anomalous \cup hot /\ e3.visited = e.visited \cup new
          /\ e3.root = (IF early THEN low ELSE e.root)
          /\ e3.first = (IF early THEN since[low] ELSE e.first)
      BY <2>4, <2>5
    <2> HIDE DEF e3
    <2>8. e3.anomalous = e3.visited \cap Hot(since)
      BY <1>1, <2>7 DEF Rooted
    <2>9. e3.anomalous # {}
      BY <2>1, <2>7
    <2>10. /\ e.anomalous \subseteq Service
           /\ e.anomalous = {} => e.first = 0
           /\ e.anomalous # {} => e.root \in e.anomalous /\ e.first = since[e.root] /\ e.first > 0
           /\ \A n \in e.anomalous : e.first <= since[n]
           /\ e.first \in Nat
      BY <1>2 DEF Rooted, Hot
    <2>11. e3.root \in e3.anomalous /\ e3.first = since[e3.root]
      BY <2>1, <2>7, <2>10
    <2>12. \A n \in e3.anomalous : e3.first <= since[n]
      <3>1. \A n \in hot : since[n] \in Nat
        BY <1>1, <1>2
      <3>2. \A n \in e.anomalous : since[n] \in Nat
        BY <1>2, <2>10
      <3>3. since[low] \in Nat
        BY <1>2, <2>3
      <3> QED BY <2>1, <2>7, <2>10, <3>1, <3>2, <3>3
    <2>13. Rooted(since, e3)
      BY <2>8, <2>9, <2>11, <2>12 DEF Rooted
    <2> QED BY <1>1, <2>6, <2>13 DEF e2, e3
  <1> QED BY <1>3, <1>4

-----------------------------------------------------------------------------
(* The writer's steps.                                                     *)

\* What the others' invariants need of a step of the writer.
LEMMA WriterFrame ==
  ASSUME IInv, UNCHANGED talk, still' => still /\ since' = since
  PROVE  ExpandInv' /\ ChatInv' /\ ContextIsCurrent'
  BY DEF IInv, talk, ExpandInv, Expanding, ChatInv, ContextIsCurrent

\* And the other way round.
LEMMA ChatFrame ==
  ASSUME IInv, UNCHANGED <<graph, writer>>
  PROVE  LeaseInv' /\ CycleInv'
  BY DEF IInv, graph, writer, LeaseInv, CycleInv

\* One writer is at work at a time.
LEMMA OneWriter ==
  ASSUME IInv, NEW w \in Writers, at[w] # "off"
  PROVE  /\ lease = w /\ at \in [Writers -> {"off", "poll", "prune", "propagate", "link", "sleep"}]
         /\ \A v \in Writers : v # w => at[v] = "off"
  BY DEF IInv, LeaseInv, TypeOK

\* The writer w goes to label, and nobody else moves.
LEMMA Moves ==
  ASSUME IInv, NEW w \in Writers, at[w] # "off", NEW label, Go(w, label), lease' = lease
  PROVE  /\ at'[w] = label /\ \A v \in Writers : v # w => at'[v] = "off"
         /\ LeaseInv'
  <1>1. /\ lease = w /\ at \in [Writers -> {"off", "poll", "prune", "propagate", "link", "sleep"}]
        /\ \A v \in Writers : v # w => at[v] = "off"
    BY OneWriter
  <1> QED BY <1>1 DEF Go, LeaseInv

\* The current service, and the place the writer goes to after it.
LEMMA AtCurrent ==
  ASSUME IInv, NEW w \in Writers, at[w] \in {"poll", "prune"}
  PROVE  /\ cycle.next \in 1..Len(Services) /\ Current \in Service
         /\ Len(Services) \in Nat /\ cycle.next + 1 \in 1..(Len(Services) + 1)
         /\ ~(cycle.next < Len(Services)) => cycle.next = Len(Services)
         /\ Polled(since, cycle.found, triggers, cycle.next)
  <1>1. cycle.next \in 1..Len(Services) + 1 /\ cycle.next <= Len(Services)
    BY DEF IInv, TypeOK, CycleInv
  <1>2. Len(Services) \in Nat
    BY ServiceList
  <1> QED BY <1>1, <1>2, ServiceList DEF Current, IInv, CycleInv

\* A step from one service to the next keeps the writer's invariants.
LEMMA PollMoves ==
  ASSUME IInv, NEW w \in Writers, at[w] \in {"poll", "prune"}, Onward(w), lease' = lease,
         triggers' \subseteq triggers,
         cycle'.next = cycle.next + 1,
         Polled(since', cycle'.found, triggers', cycle.next + 1)
  PROVE  LeaseInv' /\ CycleInv'
  <1> DEFINE label == IF cycle.next < Len(Services) THEN "poll" ELSE "propagate"
  <1>1. /\ cycle.next \in 1..Len(Services) /\ Len(Services) \in Nat
        /\ ~(cycle.next < Len(Services)) => cycle.next = Len(Services)
    BY AtCurrent
  <1>2. at'[w] = label /\ LeaseInv' /\ \A v \in Writers : v # w => at'[v] = "off"
    BY Moves DEF Onward
  <1>3. triggers' \subseteq EdgesOf(Service)
    BY DEF IInv, CycleInv
  <1>4. CASE cycle.next < Len(Services)
    <2>1. at'[w] = "poll" /\ cycle'.next <= Len(Services)
      BY <1>1, <1>2, <1>4
    <2> QED BY <1>2, <1>3, <2>1 DEF CycleInv
  <1>5. CASE ~(cycle.next < Len(Services))
    <2>1. at'[w] = "propagate" /\ cycle.next = Len(Services)
      BY <1>1, <1>2, <1>5
    <2> QED BY <1>2, <1>3, <2>1 DEF CycleInv
  <1> QED BY <1>4, <1>5

\* The steps of the poll keep them.
LEMMA FlagKeeps ==
  ASSUME IInv, NEW w \in Writers, Flag(w)
  PROVE  LeaseInv' /\ CycleInv'
  <1>1. /\ at[w] = "poll" /\ Onward(w) /\ lease' = lease /\ triggers' = triggers
        /\ cycle' = [cycle EXCEPT !.next = @ + 1, !.found = @ \cup {Current}]
    BY DEF Flag
  <1>2. /\ since \in [Service -> 0..MaxFlags] /\ clock \in 0..MaxFlags /\ MaxFlags \in Nat
        /\ cycle \in [next : 1..Len(Services) + 1, found : SUBSET Service,
                      links : SUBSET (Service \X Service)]
    BY GraphAssumption DEF IInv, TypeOK
  <1>3. cycle.next \in 1..Len(Services) /\ Current \in Service /\ Current = Services[cycle.next]
        /\ Polled(since, cycle.found, triggers, cycle.next)
    BY <1>1, AtCurrent DEF Current
  <1>4. since'[Current] > 0 /\ \A s \in Service : s # Current => since'[s] = since[s]
    <2>1. CASE since[Current] > 0
      BY <2>1 DEF Flag
    <2>2. CASE ~(since[Current] > 0)
      <3>1. clock' = clock + 1 /\ since' = [since EXCEPT ![Current] = clock'] /\ clock + 1 > 0
        BY <1>2, <2>2 DEF Flag
      <3> QED BY <1>2, <1>3, <3>1
    <2> QED BY <2>1, <2>2
  <1>5. cycle'.next = cycle.next + 1 /\ cycle'.found = cycle.found \cup {Current}
    BY <1>1, <1>2
  <1>6. Polled(since', cycle'.found, triggers', cycle.next + 1)
    BY <1>1, <1>3, <1>4, <1>5, PollNext
  <1> QED BY <1>1, <1>5, <1>6, PollMoves

\* Clearing a flag does not move the poll on.
LEMMA UnflagKeeps ==
  ASSUME IInv, NEW w \in Writers, Unflag(w)
  PROVE  LeaseInv' /\ CycleInv'
  <1>1. /\ at[w] = "poll" /\ Go(w, "prune") /\ lease' = lease /\ triggers' = triggers /\ cycle' = cycle
        /\ since' = [since EXCEPT ![Current] = 0]
    BY DEF Unflag
  <1>2. cycle.next \in 1..Len(Services) /\ Current \in Service /\ Current = Services[cycle.next]
        /\ Polled(since, cycle.found, triggers, cycle.next)
    BY <1>1, AtCurrent DEF Current
  <1>3. since'[Current] = 0 /\ \A s \in Service : s # Current => since'[s] = since[s]
    BY <1>1, <1>2 DEF IInv, TypeOK
  <1>4. Polled(since', cycle'.found, triggers', cycle'.next)
    <2>1. Polled(since', cycle.found, triggers, cycle.next)
      BY <1>2, <1>3, PollStays
    <2> QED BY <1>1, <2>1
  <1>5. at'[w] = "prune" /\ LeaseInv' /\ \A v \in Writers : v # w => at'[v] = "off"
    BY <1>1, Moves
  <1> QED BY <1>1, <1>2, <1>3, <1>4, <1>5 DEF CycleInv, IInv

\* Deleting the edges of a service that is clear moves it on.
LEMMA PruneKeeps ==
  ASSUME IInv, NEW w \in Writers, Prune(w)
  PROVE  LeaseInv' /\ CycleInv'
  <1>1. /\ at[w] = "prune" /\ Onward(w) /\ lease' = lease /\ since' = since
        /\ triggers' = {t \in triggers : t[1] # Current}
        /\ cycle' = [cycle EXCEPT !.next = @ + 1]
    BY DEF Prune
  <1>2. cycle.next \in 1..Len(Services) /\ Current = Services[cycle.next]
        /\ Polled(since, cycle.found, triggers, cycle.next) /\ since[Services[cycle.next]] = 0
    BY <1>1, AtCurrent DEF Current, IInv, CycleInv
  <1>3. cycle'.next = cycle.next + 1 /\ cycle'.found = cycle.found
    BY <1>1 DEF IInv, TypeOK
  <1>4. triggers' \in SUBSET triggers /\ \A t \in triggers' : t[1] # Services[cycle.next]
    BY <1>1, <1>2
  <1>5. Polled(since', cycle'.found, triggers', cycle.next + 1)
    BY <1>1, <1>2, <1>3, <1>4, PollNext
  <1> QED BY <1>1, <1>3, <1>4, <1>5, PollMoves

\* The edges of the anomalies replace those of earlier cycles.
LEMMA PropagationKeeps ==
  ASSUME IInv, NEW w \in Writers, Wipe(w) \/ Propagate(w) \/ Link(w) \/ Linked(w)
  PROVE  LeaseInv' /\ CycleInv'
  <1>1. at[w] \in {"propagate", "link"} /\ lease' = lease /\ since' = since
    BY DEF Wipe, Propagate, Link, Linked, graph
  <1>2. /\ Polled(since, cycle.found, triggers, Len(Services) + 1) /\ triggers \subseteq EdgesOf(Service)
        /\ at[w] = "link" => /\ cycle.links \subseteq EdgesOf(Hot(since))
                             /\ EdgesOf(Hot(since)) \subseteq triggers \cup cycle.links
    BY <1>1 DEF IInv, CycleInv
  <1>3. cycle.found = Hot(since) /\ triggers \subseteq EdgesOf(Hot(since))
    BY <1>2, PollEnds
  <1>4. EdgesOf(Hot(since)) \subseteq EdgesOf(Service) /\ EdgesOf({}) = {}
    BY EdgesGrow DEF Hot
  <1>5. cycle \in [next : 1..Len(Services) + 1, found : SUBSET Service,
                   links : SUBSET (Service \X Service)]
    BY DEF IInv, TypeOK
  <1>6. CASE Wipe(w)
    <2>1. at'[w] = "sleep" /\ LeaseInv' /\ \A v \in Writers : v # w => at'[v] = "off"
      BY <1>1, <1>6, Moves DEF Wipe
    <2>2. triggers' = {} /\ cycle' = NoCycle /\ EdgesOf(Hot(since')) = {}
      BY <1>1, <1>3, <1>4, <1>6 DEF Wipe
    <2> QED BY <2>1, <2>2 DEF CycleInv
  <1>7. CASE Propagate(w)
    <2>1. at'[w] = "link" /\ LeaseInv' /\ \A v \in Writers : v # w => at'[v] = "off"
      BY <1>1, <1>7, Moves DEF Propagate
    <2>2. /\ triggers' = triggers /\ cycle'.found = cycle.found
          /\ cycle'.links = EdgesOf(cycle.found)
      BY <1>5, <1>7 DEF Propagate, EdgesOf, graph
    <2> QED BY <1>1, <1>2, <1>3, <2>1, <2>2 DEF CycleInv
  <1>8. CASE Link(w)
    <2>1. at[w] = "link" /\ at' = at
      BY <1>8 DEF Link
    <2>2. LeaseInv' /\ \A v \in Writers : v # w => at'[v] = "off"
      BY <1>1, <2>1, OneWriter DEF IInv, LeaseInv
    <2>3. PICK t \in cycle.links : triggers' = triggers \cup {t} /\ cycle' = [cycle EXCEPT !.links = @ \ {t}]
      BY <1>8 DEF Link
    <2>4. cycle'.found = cycle.found /\ cycle'.links = cycle.links \ {t}
      BY <1>5, <2>3
    <2>5. triggers' \subseteq EdgesOf(Hot(since)) /\ cycle'.links \subseteq EdgesOf(Hot(since))
          /\ EdgesOf(Hot(since)) \subseteq triggers' \cup cycle'.links
      BY <1>2, <1>3, <2>1, <2>3, <2>4
    <2>6. \A x \in triggers' : x[1] \in cycle.found
      <3>1. \A x \in EdgesOf(Hot(since)) : x[1] \in Hot(since)
        BY DEF EdgesOf
      <3> QED BY <1>3, <2>5, <3>1
    <2>7. Polled(since', cycle'.found, triggers', Len(Services) + 1)
      BY <1>1, <1>2, <2>4, <2>6 DEF Polled
    <2> QED BY <1>1, <1>4, <2>1, <2>2, <2>5, <2>7 DEF CycleInv
  <1>9. CASE Linked(w)
    <2>1. at'[w] = "sleep" /\ LeaseInv' /\ \A v \in Writers : v # w => at'[v] = "off"
      BY <1>1, <1>9, Moves DEF Linked
    <2>2. at[w] = "link" /\ triggers' = triggers /\ cycle' = NoCycle /\ cycle.links = {}
      BY <1>9 DEF Linked, graph
    <2>3. triggers = EdgesOf(Hot(since))
      BY <1>2, <1>3, <2>2
    <2> QED BY <1>1, <1>4, <2>1, <2>2, <2>3 DEF CycleInv
  <1> QED BY <1>6, <1>7, <1>8, <1>9

\* A cycle starts from what it finds: it has passed no service.
LEMMA CycleStarts ==
  ASSUME IInv, cycle' = NoCycle, UNCHANGED <<since, triggers>>, NEW w \in Writers,
         at'[w] = "poll", \A v \in Writers : v # w => at'[v] = "off"
  PROVE  CycleInv'
  <1>1. NoCycle.next = 1 /\ NoCycle.found = {} /\ Len(Services) >= 1
    BY ServiceList DEF NoCycle
  <1>2. Polled(since', {}, triggers', 1)
    BY PollEnds
  <1> QED BY <1>1, <1>2 DEF CycleInv, IInv

\* A writer that starts, starts again or ends keeps them too.
LEMMA ComesKeeps ==
  ASSUME IInv, NEW w \in Writers, Start(w) \/ Again(w) \/ Leave(w) \/ Killed(w)
  PROVE  LeaseInv' /\ CycleInv'
  <1>1. UNCHANGED <<since, triggers>>
    BY DEF Start, Again, Leave, Killed, graph
  <1>2. /\ at \in [Writers -> {"off", "poll", "prune", "propagate", "link", "sleep"}]
        /\ Nobody \notin Writers
    BY GraphAssumption DEF IInv, TypeOK
  <1>3. CASE Start(w)
    <2>1. at'[w] = "poll" /\ lease' = w /\ (\A v \in Writers : v # w => at'[v] = "off") /\ cycle' = NoCycle
      BY <1>2, <1>3 DEF Start, Go, IInv, LeaseInv
    <2> QED BY <1>1, <2>1, CycleStarts DEF LeaseInv
  <1>4. CASE Again(w)
    <2>1. at[w] = "sleep" /\ lease' = lease /\ Go(w, "poll") /\ cycle' = cycle
      BY <1>4 DEF Again
    <2>2. cycle' = NoCycle
      BY <2>1 DEF IInv, CycleInv
    <2>3. at'[w] = "poll" /\ LeaseInv' /\ \A v \in Writers : v # w => at'[v] = "off"
      BY <2>1, Moves
    <2> QED BY <1>1, <2>2, <2>3, CycleStarts
  <1>5. CASE Leave(w) \/ Killed(w)
    <2>1. at[w] # "off" /\ at' = [at EXCEPT ![w] = "off"]
      BY <1>5 DEF Leave, Killed, Go
    <2>2. \A v \in Writers : at'[v] = "off"
      BY <1>2, <2>1, OneWriter
    <2> QED BY <1>1, <2>2 DEF LeaseInv, CycleInv, IInv
  <1> QED BY <1>3, <1>4, <1>5

\* Every step of a writer keeps the invariant, but for the types.
LEMMA WriteKeeps ==
  ASSUME IInv, NEW w \in Writers, Write(w)
  PROVE  LeaseInv' /\ CycleInv' /\ ExpandInv' /\ ChatInv' /\ ContextIsCurrent'
  <1>1. LeaseInv' /\ CycleInv'
    BY FlagKeeps, UnflagKeeps, PruneKeeps, PropagationKeeps, ComesKeeps DEF Write, Poll
  <1>2. UNCHANGED talk /\ (Written \/ UNCHANGED <<since, still>>)
    BY DEF Write, Poll, Start, Flag, Unflag, Prune, Wipe, Propagate, Link, Linked, Again, Leave, Killed,
       graph
  <1>3. Written => (still' => still /\ since' = since)
    BY DEF Written
  <1>4. still' => still /\ since' = since
    BY <1>2, <1>3
  <1> QED BY <1>1, <1>2, <1>4, WriterFrame

-----------------------------------------------------------------------------
(* The expansion and the chat.                                             *)

\* What the type invariant says of an expansion.
Expansion == [start : Service \cup {Nobody}, visited : SUBSET Service, todo : SUBSET Service,
              frontier : SUBSET Service, anomalous : SUBSET Service,
              root : Service \cup {Nobody}, first : 0..MaxFlags, hop : 0..MaxHops]

\* The types that the expansion's proofs use.
LEMMA ExpansionTypes ==
  ASSUME IInv
  PROVE  /\ ex \in Expansion /\ MaxHops \in Nat \ {0} /\ MaxFlags \in Nat
         /\ since \in [Service -> 0..MaxFlags] /\ Hot(since) \subseteq Service
         /\ Hot(since) = Flagged /\ Nobody \notin Service
         /\ known \subseteq Service
         /\ chat \in {"begin", "expand"} => ex.start \in Service
  BY GraphAssumption DEF IInv, TypeOK, Expansion, Hot, Flagged, ChatInv

\* The first query visits the ball of no hop, its start.
LEMMA BootstrapKeeps ==
  ASSUME IInv, Bootstrap
  PROVE  ExpandInv' /\ ChatInv' /\ ContextIsCurrent' /\ ex' \in Expansion
  <1>1. /\ chat \in {"begin", "expand"} /\ ex.hop = 0 /\ UNCHANGED <<since, chat, known, msg, missed>>
        /\ ex' = Record([ex EXCEPT !.visited = {ex.start}, !.todo = {ex.start}, !.hop = 1], ex.start)
    BY DEF Bootstrap, graph
  <1>2. /\ ex \in Expansion /\ MaxHops \in Nat \ {0} /\ MaxFlags \in Nat
        /\ since \in [Service -> 0..MaxFlags] /\ Hot(since) \subseteq Service /\ ex.start \in Service
    BY <1>1, ExpansionTypes
  <1>3. Fresh(ex)
    BY <1>1 DEF IInv, ChatInv
  <1> DEFINE s == ex.start
             hot == since[s] > 0
             e == [ex EXCEPT !.visited = {s}, !.todo = {s}, !.hop = 1]
  <1>4. /\ e \in Expansion /\ e.start = s /\ e.visited = {s} /\ e.todo = {s} /\ e.frontier = {}
        /\ e.anomalous = {} /\ e.first = 0 /\ e.hop = 1 /\ e.root = s
    <2>1. /\ ex.visited = {} /\ ex.todo = {} /\ ex.frontier = {} /\ ex.anomalous = {}
          /\ ex.first = 0 /\ ex.root = s
      BY <1>3 DEF Fresh
    <2>2. 1 \in 0..MaxHops
      BY <1>2
    <2> QED BY <1>2, <2>1, <2>2 DEF Expansion
  <1>5. ex' = IF hot THEN [e EXCEPT !.anomalous = {s}, !.root = s, !.first = since[s]] ELSE e
    <2>1. since[s] \in Nat
      BY <1>2
    <2>2. ex' = Record(e, s)
      BY <1>1
    <2> HIDE DEF e
    <2>3. Earlier(e, s) /\ e.anomalous \cup {s} = {s}
      BY <1>4 DEF Earlier
    <2>4. CASE hot
      <3>1. since[s] # 0
        BY <2>1, <2>4
      <3> QED BY <2>2, <2>3, <2>4, <3>1 DEF Record
    <2>5. CASE ~hot
      <3>1. since[s] = 0
        BY <2>1, <2>5
      <3> QED BY <2>2, <2>5, <3>1 DEF Record
    <2> QED BY <2>4, <2>5
  <1> HIDE DEF e
  <1>6. /\ ex' \in Expansion /\ ex'.start = s /\ ex'.visited = {s} /\ ex'.todo = {s} /\ ex'.frontier = {}
        /\ ex'.anomalous = (IF hot THEN {s} ELSE {}) /\ ex'.root = s
        /\ ex'.first = (IF hot THEN since[s] ELSE 0) /\ ex'.hop = 1
    BY <1>2, <1>4, <1>5 DEF Expansion
  <1>7. Ball(Hot(since), s, 0) = {s} /\ s \in Ball(Hot(since), s, 1)
    BY BallZero, BallIn, <1>2
  <1>8. Explored(Hot(since), ex')
    <2>1. 1 - 1 = 0
      OBVIOUS
    <2> QED BY <1>6, <1>7, <2>1 DEF Explored
  <1>9. Rooted(since, ex')
    <2>1. s \in Hot(since) <=> hot
      BY <1>2 DEF Hot
    <2>2. since[s] \in Nat
      BY <1>2
    <2> QED BY <1>6, <2>1, <2>2 DEF Rooted
  <1> QED BY <1>1, <1>6, <1>8, <1>9 DEF ExpandInv, ChatInv, ContextIsCurrent, IInv

\* A query visits the neighbours of one service more.
LEMMA QueryKeeps ==
  ASSUME IInv, Query
  PROVE  ExpandInv' /\ ChatInv' /\ ContextIsCurrent' /\ ex' \in Expansion
  <1>1. /\ chat \in {"begin", "expand"} /\ UNCHANGED <<since, chat, known, msg, missed, still>>
    BY DEF Query, graph
  <1>2. PICK s \in ex.todo :
          LET new == Neighbours(s) \ ex.visited
          IN  ex' = [NewEarliest(ex, new) EXCEPT !.visited = @ \cup new,
                                                 !.todo = @ \ {s},
                                                 !.frontier = @ \cup {n \in new : since[n] > 0}]
    BY DEF Query
  <1>3. /\ ex \in Expansion /\ MaxHops \in Nat \ {0} /\ MaxFlags \in Nat
        /\ since \in [Service -> 0..MaxFlags] /\ Hot(since) \subseteq Service /\ ex.start \in Service
    BY <1>1, ExpansionTypes
  <1> DEFINE new == Neighbours(s) \ ex.visited
             e2 == NewEarliest(ex, new)
             F == Hot(since)
  <1>4. ex.hop \in 1..MaxHops
    <2>1. ex.hop # 0
      BY <1>2 DEF IInv, ChatInv, Fresh
    <2> QED BY <1>3, <2>1 DEF Expansion
  <1>5. new \in SUBSET Service
    BY DEF Neighbours
  <1>6. {n \in new : since[n] > 0} = new \cap F
    BY <1>5 DEF Hot
  <1> HIDE DEF new, F
  <1>7. ex' = [e2 EXCEPT !.visited = @ \cup new, !.todo = @ \ {s}, !.frontier = @ \cup (new \cap F)]
    BY <1>2, <1>6 DEF new
  <1>8. /\ e2 = [ex EXCEPT !.anomalous = e2.anomalous, !.root = e2.root, !.first = e2.first]
        /\ e2.anomalous \subseteq Service /\ e2.root \in Service \cup {Nobody} /\ e2.first \in 0..MaxFlags
    BY <1>3, <1>5, EarliestTypes DEF Expansion
  <1> HIDE DEF e2
  <1>9. /\ ex' \in Expansion /\ ex'.start = ex.start /\ ex'.hop = ex.hop
        /\ ex'.visited = ex.visited \cup new /\ ex'.todo = ex.todo \ {s}
        /\ ex'.frontier = ex.frontier \cup (new \cap F)
        /\ ex'.anomalous = e2.anomalous /\ ex'.root = e2.root /\ ex'.first = e2.first
    BY <1>3, <1>5, <1>7, <1>8 DEF Expansion
  <1>10. ChatInv' /\ ContextIsCurrent'
    BY <1>1, <1>4, <1>9 DEF IInv, ChatInv, ContextIsCurrent
  <1>11. ASSUME still
         PROVE  Explored(F, ex') /\ Rooted(since, ex')
    <2>1. Explored(F, ex) /\ Rooted(since, ex)
      BY <1>1, <1>4, <1>11 DEF IInv, ExpandInv, Expanding, F
    <2>2. Rooted(since, ex')
      <3>1. Rooted(since, [e2 EXCEPT !.visited = ex.visited \cup new])
        BY <1>3, <1>5, <2>1, EarliestIsRoot DEF Expansion, e2
      <3>2. /\ [e2 EXCEPT !.visited = ex.visited \cup new].visited = ex.visited \cup new
            /\ [e2 EXCEPT !.visited = ex.visited \cup new].anomalous = e2.anomalous
            /\ [e2 EXCEPT !.visited = ex.visited \cup new].root = e2.root
            /\ [e2 EXCEPT !.visited = ex.visited \cup new].first = e2.first
        BY <1>3, <1>8 DEF Expansion
      <3> QED BY <1>9, <3>1, <3>2 DEF Rooted
    <2> DEFINE B == Ball(F, ex.start, ex.hop - 1)
               C == Ball(F, ex.start, ex.hop)
    <2>3. C = B \cup {n \in F : \E m \in B : n \in Neighbours(m)}
      <3>1. ex.hop - 1 \in Nat /\ (ex.hop - 1) + 1 = ex.hop
        BY <1>4
      <3>2. \A k \in Nat : Ball(F, ex.start, k + 1) =
              Ball(F, ex.start, k) \cup {n \in F : \E m \in Ball(F, ex.start, k) : n \in Neighbours(m)}
        BY <1>3, BallNext DEF F
      <3> QED BY <3>1, <3>2
    <2>4. /\ B \subseteq ex.visited /\ ex.visited \cap F \subseteq C /\ ex.todo \subseteq B
          /\ ex.frontier = (ex.visited \cap F) \ B
          /\ \A m \in B \ ex.todo : Neighbours(m) \subseteq ex.visited
      BY <2>1 DEF Explored
    <2> HIDE DEF B, C
    <2>5. s \in B /\ \A n \in new : n \in Neighbours(s) /\ n \notin ex.visited
      BY <2>4 DEF new
    <2>6. new \cap F \subseteq C /\ (new \cap F) \cap B = {}
      BY <2>3, <2>4, <2>5
    <2>7. Neighbours(s) \subseteq ex.visited \cup new
      BY DEF new
    <2>8. /\ B \subseteq ex'.visited /\ ex'.visited \cap F \subseteq C /\ ex'.todo \subseteq B
          /\ ex'.frontier = (ex'.visited \cap F) \ B
          /\ \A m \in B \ ex'.todo : Neighbours(m) \subseteq ex'.visited
      BY <1>9, <2>4, <2>6, <2>7
    <2> QED BY <1>9, <2>2, <2>8 DEF Explored, B, C
  <1> QED BY <1>1, <1>9, <1>10, <1>11 DEF ExpandInv, Expanding, F

\* When all are asked, the ball of the next hop has been visited.
LEMMA NextHopKeeps ==
  ASSUME IInv, NextHop
  PROVE  ExpandInv' /\ ChatInv' /\ ContextIsCurrent' /\ ex' \in Expansion
  <1>1. /\ chat \in {"begin", "expand"} /\ UNCHANGED <<since, chat, known, msg, missed, still>>
        /\ ex.todo = {} /\ ex.frontier # {} /\ ex.hop < MaxHops
        /\ ex' = [ex EXCEPT !.todo = ex.frontier, !.frontier = {}, !.hop = @ + 1]
    BY DEF NextHop, graph
  <1>2. /\ ex \in Expansion /\ MaxHops \in Nat \ {0}
        /\ Hot(since) \subseteq Service /\ ex.start \in Service
    BY <1>1, ExpansionTypes
  <1> DEFINE F == Hot(since)
  <1>3. ex.hop \in 1..MaxHops
    <2>1. ex.hop # 0
      BY <1>1 DEF IInv, ChatInv, Fresh
    <2> QED BY <1>2, <2>1 DEF Expansion
  <1>4. /\ ex'.start = ex.start /\ ex'.hop = ex.hop + 1 /\ ex'.visited = ex.visited
        /\ ex'.todo = ex.frontier /\ ex'.frontier = {} /\ ex'.anomalous = ex.anomalous
        /\ ex'.root = ex.root /\ ex'.first = ex.first
    BY <1>1, <1>2 DEF Expansion
  <1>5. ex' \in Expansion
    <2>1. ex.hop + 1 \in 0..MaxHops
      BY <1>1, <1>2, <1>3
    <2> QED BY <1>1, <1>2, <2>1 DEF Expansion
  <1>6. ChatInv' /\ ContextIsCurrent'
    <2>1. ex'.hop # 0
      BY <1>3, <1>4
    <2> QED BY <1>1, <1>4, <2>1 DEF IInv, ChatInv, ContextIsCurrent
  <1>7. ASSUME still
        PROVE  Explored(F, ex') /\ Rooted(since, ex')
    <2>1. Explored(F, ex) /\ Rooted(since, ex)
      BY <1>1, <1>3, <1>7 DEF IInv, ExpandInv, Expanding
    <2>2. Rooted(since, ex')
      BY <1>4, <2>1 DEF Rooted
    <2> DEFINE B == Ball(F, ex.start, ex.hop - 1)
               C == Ball(F, ex.start, ex.hop)
               D == Ball(F, ex.start, ex.hop + 1)
    <2>3. /\ C = B \cup {n \in F : \E m \in B : n \in Neighbours(m)}
          /\ D = C \cup {n \in F : \E m \in C : n \in Neighbours(m)}
      <3>1. ex.hop - 1 \in Nat /\ (ex.hop - 1) + 1 = ex.hop /\ ex.hop \in Nat
        BY <1>3
      <3>2. \A k \in Nat : Ball(F, ex.start, k + 1) =
              Ball(F, ex.start, k) \cup {n \in F : \E m \in Ball(F, ex.start, k) : n \in Neighbours(m)}
        BY <1>2, BallNext
      <3> QED BY <3>1, <3>2
    <2>4. /\ B \subseteq ex.visited /\ ex.visited \cap F \subseteq C
          /\ ex.frontier = (ex.visited \cap F) \ B
          /\ \A m \in B : Neighbours(m) \subseteq ex.visited
      BY <1>1, <2>1 DEF Explored
    <2>5. ex.start \in B
      BY <1>2, BallIn
    <2>6. ex.hop + 1 - 1 = ex.hop
      BY <1>3
    <2> HIDE DEF B, C, D, F
    <2>7. C \subseteq ex.visited /\ C \subseteq F \cup B
      BY <2>3, <2>4
    <2>8. /\ ex.visited \cap F \subseteq D /\ ex.frontier \subseteq C /\ (ex.visited \cap F) \ C = {}
          /\ \A m \in C \ ex.frontier : m \in B
      BY <2>3, <2>4, <2>7
    <2>9. Explored(F, ex')
      <3>1. C = Ball(F, ex'.start, ex'.hop - 1) /\ D = Ball(F, ex'.start, ex'.hop)
        <4>1. ex'.hop = ex.hop + 1 /\ ex'.hop - 1 = ex.hop /\ ex'.start = ex.start
          <5>1. ex'.hop = ex.hop + 1 /\ ex'.start = ex.start
            BY <1>4
          <5>2. ex'.hop - 1 = ex.hop
            BY <1>3, <5>1
          <5> QED BY <5>1, <5>2
        <4> QED BY <4>1 DEF C, D
      <3> QED BY <1>4, <2>4, <2>7, <2>8, <3>1 DEF Explored
    <2> QED BY <2>2, <2>9
  <1> QED BY <1>1, <1>5, <1>6, <1>7 DEF ExpandInv, Expanding

\* A new expansion, and none, are expansions.
LEMMA FreshTypes ==
  /\ NoExpansion \in Expansion /\ NoExpansion.hop = 0 /\ Fresh(NoExpansion)
  /\ \A s \in Service : LET e == [NoExpansion EXCEPT !.start = s, !.root = s]
                        IN  e \in Expansion /\ e.hop = 0 /\ Fresh(e) /\ e.start = s
  <1>1. 0 \in 0..MaxFlags /\ 0 \in 0..MaxHops
    BY GraphAssumption
  <1>2. NoExpansion \in Expansion
    BY <1>1 DEF NoExpansion, Expansion
  <1>3. NoExpansion.hop = 0 /\ Fresh(NoExpansion)
    BY DEF NoExpansion, Fresh
  <1>4. ASSUME NEW s \in Service
        PROVE  LET e == [NoExpansion EXCEPT !.start = s, !.root = s]
               IN  e \in Expansion /\ e.hop = 0 /\ Fresh(e) /\ e.start = s
    BY <1>2, <1>3 DEF Fresh, Expansion
  <1> QED BY <1>2, <1>3, <1>4

\* A new expansion has not asked anything yet.
LEMMA Expands ==
  ASSUME NEW s \in Service, Expand(s)
  PROVE  ex' \in Expansion /\ ex'.start = s /\ ex'.hop = 0 /\ Fresh(ex')
  BY FreshTypes DEF Expand

\* Nor has one that is thrown away.
LEMMA NothingExpands ==
  ASSUME ex' = NoExpansion
  PROVE  ex' \in Expansion /\ ex'.hop = 0 /\ Fresh(ex')
  BY FreshTypes

\* The context that is built is of an alert that is known.
LEMMA BuildKeeps ==
  ASSUME IInv, Build
  PROVE  ExpandInv' /\ ChatInv' /\ ContextIsCurrent' /\ ex' \in Expansion
  <1>1. /\ chat \in {"begin", "expand"} /\ chat' = "watch" /\ known' = known
        /\ msg' = [kind |-> "incident", alerted |-> ex.start, root |-> ex.root]
        /\ missed' = FALSE /\ ex' = NoExpansion
    BY DEF Build
  <1>2. ex.start \in known
    BY <1>1 DEF IInv, ChatInv
  <1>3. msg'.kind = "incident" /\ msg'.alerted = ex.start
    BY <1>1
  <1>5. ex' \in Expansion /\ ex'.hop = 0 /\ Fresh(ex')
    BY <1>1, NothingExpands
  <1>6. ExpandInv' /\ ChatInv'
    BY <1>1, <1>5 DEF ExpandInv, Expanding, ChatInv
  <1>7. ContextIsCurrent'
    BY <1>1, <1>2, <1>3 DEF ContextIsCurrent
  <1> QED BY <1>1, <1>5, <1>6, <1>7

\* The other steps of the chat begin an expansion or throw one away.
LEMMA TalkKeeps ==
  ASSUME IInv, Alert \/ Resolved \/ Begin \/ Quit \/ Swallow
  PROVE  ExpandInv' /\ ChatInv' /\ ContextIsCurrent' /\ ex' \in Expansion
  <1>1. ex \in Expansion /\ Flagged \subseteq Service
    BY ExpansionTypes DEF Flagged
  <1>2. /\ Plain("healthy").kind = "healthy" /\ Plain("resolved").kind = "resolved"
    BY DEF Plain
  <1>3. CASE Alert
    <2>1. PICK s \in Flagged \ known : Expand(s)
      BY <1>3 DEF Alert
    <2>2. s \in Service
      BY <1>1, <2>1
    <2>3. ex' \in Expansion /\ ex'.start = s /\ ex'.hop = 0 /\ Fresh(ex')
      BY <2>1, <2>2, Expands
    <2>4. chat' = "expand" /\ known' = Flagged /\ missed' = TRUE
      BY <1>3 DEF Alert
    <2> QED BY <2>1, <2>3, <2>4 DEF ExpandInv, Expanding, ChatInv, ContextIsCurrent
  <1>4. CASE Resolved
    <2>1. /\ chat = "watch" /\ chat' = "watch" /\ ex' = ex /\ known' = {} /\ msg' = Plain("resolved")
          /\ missed' = FALSE
      BY <1>4 DEF Resolved
    <2> QED BY <1>1, <1>2, <2>1 DEF IInv, ExpandInv, Expanding, ChatInv, ContextIsCurrent
  <1>5. CASE Begin
    <2>1. chat = "off" /\ known' = Flagged /\ missed' = FALSE
      BY <1>5 DEF Begin
    <2>2. CASE Flagged = {}
      <3>1. chat' = "watch" /\ msg' = Plain("healthy") /\ ex' = ex
        BY <1>5, <2>2 DEF Begin
      <3> QED BY <1>1, <1>2, <2>1, <2>2, <3>1 DEF IInv, ExpandInv, Expanding, ChatInv, ContextIsCurrent
    <2>3. CASE Flagged # {}
      <3>1. chat' = "begin" /\ \E s \in Flagged : Expand(s)
        BY <1>5, <2>3 DEF Begin
      <3>2. PICK s \in Flagged : Expand(s)
        BY <3>1
      <3>3. ex' \in Expansion /\ ex'.start = s /\ ex'.hop = 0 /\ Fresh(ex')
        BY <1>1, <3>2, Expands
      <3> QED BY <2>1, <3>1, <3>2, <3>3 DEF ExpandInv, Expanding, ChatInv, ContextIsCurrent
    <2> QED BY <2>2, <2>3
  <1>6. CASE Quit
    <2>1. chat' = "off" /\ ex' = NoExpansion
      BY <1>6 DEF Quit
    <2> QED BY <2>1, NothingExpands DEF ExpandInv, Expanding, ChatInv, ContextIsCurrent
  <1>7. CASE Swallow
    <2>1. /\ chat = "expand" /\ chat' = "watch" /\ ex' = NoExpansion /\ missed' = missed
      BY <1>7 DEF Swallow
    <2>2. missed
      BY <2>1 DEF IInv, ChatInv
    <2> QED BY <2>1, <2>2, NothingExpands DEF ExpandInv, Expanding, ChatInv, ContextIsCurrent
  <1> QED BY <1>3, <1>4, <1>5, <1>6, <1>7

\* When the expansion is over, what it found is what is within its reach.
LEMMA ExpansionEnds ==
  ASSUME IInv
  PROVE  ExpansionIsExact
  <1> SUFFICES ASSUME chat \in {"begin", "expand"}, Expanded, still
               PROVE  /\ ex.anomalous = {n \in Flagged : n = ex.start \/ Reached(ex.start, n, MaxHops)}
                      /\ Capped <=> \E n \in ex.anomalous \ {ex.start} : ~Reached(ex.start, n, MaxHops - 1)
                      /\ ex.anomalous # {} =>
                           ex.root \in ex.anomalous /\ \A n \in ex.anomalous : since[ex.root] <= since[n]
    BY DEF ExpansionIsExact
  <1>1. /\ ex.hop \in 1..MaxHops /\ MaxHops \in Nat /\ ex.start \in Service
        /\ Hot(since) = Flagged /\ Flagged \subseteq Service
        /\ ex.todo = {} /\ (ex.frontier = {} \/ ex.hop = MaxHops)
    BY ExpansionTypes DEF Expanded, Expansion
  <1> DEFINE s == ex.start
             B(k) == Ball(Flagged, s, k)
  <1>2. Explored(Flagged, ex) /\ Rooted(since, ex)
    BY <1>1 DEF IInv, ExpandInv, Expanding
  <1>3. B(ex.hop) = B(ex.hop - 1) \cup {n \in Flagged : \E m \in B(ex.hop - 1) : n \in Neighbours(m)}
    <2>1. ex.hop - 1 \in Nat /\ (ex.hop - 1) + 1 = ex.hop
      BY <1>1
    <2>2. \A k \in Nat : Ball(Flagged, s, k + 1) =
            Ball(Flagged, s, k) \cup {n \in Flagged : \E m \in Ball(Flagged, s, k) : n \in Neighbours(m)}
      BY <1>1, BallNext
    <2> QED BY <2>1, <2>2
  <1>4. \A k : \A n \in Service : n \in B(k) <=> n = s \/ Reached(s, n, k)
    BY <1>1, BallReached
  <1>5. \A k \in Nat, d \in Nat :
          /\ B(k) \subseteq B(k + d)
          /\ B(k + 1) \subseteq B(k) => B(k + d) = B(k)
    BY <1>1, BallGrows
  <1>6. s \in B(ex.hop - 1)
    BY <1>1, BallIn
  <1> HIDE DEF B
  <1>7. /\ B(ex.hop) \subseteq ex.visited /\ ex.visited \cap Flagged \subseteq B(ex.hop)
        /\ ex.frontier = (ex.visited \cap Flagged) \ B(ex.hop - 1)
        /\ B(ex.hop - 1) \subseteq ex.visited
    <2>1. /\ B(ex.hop - 1) \subseteq ex.visited /\ ex.visited \cap Flagged \subseteq B(ex.hop)
          /\ ex.frontier = (ex.visited \cap Flagged) \ B(ex.hop - 1)
          /\ \A m \in B(ex.hop - 1) : Neighbours(m) \subseteq ex.visited
      BY <1>1, <1>2 DEF Explored, B
    <2> QED BY <1>3, <2>1
  <1>8. /\ ex.visited \cap Flagged = B(MaxHops) \cap Flagged
        /\ ex.frontier = {n \in (B(MaxHops) \cap Flagged) : n \notin B(MaxHops - 1)}
    <2>1. CASE ex.hop = MaxHops
      BY <1>7, <2>1
    <2>2. CASE ex.hop # MaxHops
      <3>1. ex.frontier = {} /\ ex.hop < MaxHops
        BY <1>1, <2>2
      <3>2. B(ex.hop) \subseteq B(ex.hop - 1)
        BY <1>3, <1>7, <3>1
      <3> DEFINE k == ex.hop - 1
                 d1 == MaxHops - k
                 d2 == MaxHops - 1 - k
      <3>3. /\ k \in Nat /\ d1 \in Nat /\ d2 \in Nat
            /\ k + d1 = MaxHops /\ k + d2 = MaxHops - 1 /\ k + 1 = ex.hop
        BY <1>1, <3>1
      <3> HIDE DEF k, d1, d2
      <3>4. B(k + 1) \subseteq B(k)
        BY <3>2, <3>3 DEF k
      <3>5. B(MaxHops) = B(k) /\ B(MaxHops - 1) = B(k)
        <4>1. B(k + d1) = B(k) /\ B(k + d2) = B(k)
          BY <1>5, <3>3, <3>4
        <4> QED BY <3>3, <4>1
      <3>6. ex.visited \cap Flagged = B(k) \cap Flagged
        BY <1>7, <3>1 DEF k
      <3> QED BY <3>1, <3>5, <3>6
    <2> QED BY <2>1, <2>2
  <1>9. ex.anomalous = ex.visited \cap Flagged
    BY <1>1, <1>2 DEF Rooted
  <1>10. ex.anomalous = {n \in Flagged : n = s \/ Reached(s, n, MaxHops)}
    BY <1>1, <1>4, <1>8, <1>9
  <1>11. Capped <=> \E n \in ex.anomalous \ {s} : ~Reached(s, n, MaxHops - 1)
    <2>1. s \in B(MaxHops - 1)
      BY <1>1, BallIn DEF B
    <2>2. \A n \in Service : n \in B(MaxHops - 1) <=> n = s \/ Reached(s, n, MaxHops - 1)
      BY <1>4
    <2> QED BY <1>1, <1>8, <1>9, <2>1, <2>2 DEF Capped
  <1>12. ex.anomalous # {} =>
           ex.root \in ex.anomalous /\ \A n \in ex.anomalous : since[ex.root] <= since[n]
    BY <1>2 DEF Rooted
  <1> QED BY <1>10, <1>11, <1>12

-----------------------------------------------------------------------------
(* Types and theorems.                                                     *)

\* What a writer's step does to the types.
LEMMA WriteTypes ==
  ASSUME IInv, NEW w \in Writers, Write(w)
  PROVE  TypeOK'
  <1>1. UNCHANGED talk /\ still' \in BOOLEAN
    <2>1. UNCHANGED talk /\ (Written \/ still' = still)
      BY DEF Write, Poll, Start, Flag, Unflag, Prune, Wipe, Propagate, Link, Linked, Again, Leave, Killed
    <2>2. Written => still' \in BOOLEAN
      BY DEF Written
    <2>3. still \in BOOLEAN
      BY DEF IInv, TypeOK
    <2> QED BY <2>1, <2>2, <2>3
  <1>2. /\ since \in [Service -> 0..MaxFlags] /\ clock \in 0..MaxFlags /\ MaxFlags \in Nat
        /\ triggers \subseteq Service \X Service
        /\ lease \in Writers \cup {Nobody}
        /\ at \in [Writers -> {"off", "poll", "prune", "propagate", "link", "sleep"}]
        /\ cycle \in [next : 1..Len(Services) + 1, found : SUBSET Service,
                      links : SUBSET (Service \X Service)]
        /\ grace \in BOOLEAN
    BY GraphAssumption DEF IInv, TypeOK
  <1>3. at' \in [Writers -> {"off", "poll", "prune", "propagate", "link", "sleep"}]
        /\ lease' \in Writers \cup {Nobody} /\ grace' \in BOOLEAN
    BY <1>2 DEF Write, Poll, Start, Flag, Unflag, Prune, Wipe, Propagate, Link, Linked, Again, Leave, Killed,
       Go, Onward
  <1>4. since' \in [Service -> 0..MaxFlags] /\ clock' \in 0..MaxFlags
    <2>1. CASE Flag(w)
      <3>1. CASE UNCHANGED <<since, clock>>
        BY <1>2, <3>1
      <3>2. CASE clock < MaxFlags /\ clock' = clock + 1 /\ since' = [since EXCEPT ![Current] = clock']
        <4>1. clock' \in 0..MaxFlags
          BY <1>2, <3>2
        <4> QED BY <1>2, <3>2, <4>1
      <3> QED BY <2>1, <3>1, <3>2 DEF Flag
    <2>2. CASE Unflag(w)
      <3>1. 0 \in 0..MaxFlags
        BY <1>2
      <3> QED BY <1>2, <2>2, <3>1 DEF Unflag
    <2>3. CASE UNCHANGED <<since, clock>>
      BY <1>2, <2>3
    <2> QED BY <2>1, <2>2, <2>3 DEF Write, Poll, Start, Prune, Wipe, Propagate, Link, Linked, Again, Leave,
                                   Killed, graph
  <1>5. cycle' \in [next : 1..Len(Services) + 1, found : SUBSET Service,
                    links : SUBSET (Service \X Service)]
    <2>1. at[w] \in {"poll", "prune"} => cycle.next + 1 \in 1..Len(Services) + 1 /\ Current \in Service
      BY AtCurrent
    <2>2. EdgesOf(cycle.found) \subseteq Service \X Service
      BY <1>2, EdgesGrow
    <2>3. NoCycle \in [next : 1..Len(Services) + 1, found : SUBSET Service,
                       links : SUBSET (Service \X Service)]
      <3>1. 1 \in 1..Len(Services) + 1
        BY ServiceList
      <3> QED BY <3>1 DEF NoCycle
    <2>4. CASE Flag(w)
      BY <1>2, <2>1, <2>4 DEF Flag
    <2>5. CASE Prune(w)
      BY <1>2, <2>1, <2>5 DEF Prune
    <2>6. CASE Propagate(w)
      BY <1>2, <2>2, <2>6 DEF Propagate, EdgesOf
    <2>7. CASE Link(w)
      BY <1>2, <2>7 DEF Link
    <2>8. CASE cycle' \in {cycle, NoCycle}
      BY <1>2, <2>3, <2>8
    <2> QED BY <2>4, <2>5, <2>6, <2>7, <2>8
            DEF Write, Poll, Start, Unflag, Wipe, Linked, Again, Leave, Killed
  <1>6. triggers' \subseteq Service \X Service
    <2>1. CycleInv'
      BY WriteKeeps
    <2>2. triggers' \subseteq EdgesOf(Service)
      BY <2>1 DEF CycleInv
    <2> QED BY <2>2, EdgesGrow
  <1> QED BY <1>1, <1>3, <1>4, <1>5, <1>6 DEF IInv, TypeOK, talk

\* A step of the chat keeps the invariant.
LEMMA ReadStep ==
  ASSUME IInv, Retrieve \/ Watch \/ Begin \/ Quit \/ Swallow
  PROVE  IInv'
  <1>1. ExpandInv' /\ ChatInv' /\ ContextIsCurrent' /\ ex' \in Expansion
    BY BootstrapKeeps, QueryKeeps, NextHopKeeps, BuildKeeps, TalkKeeps DEF Retrieve, Watch
  <1>2. UNCHANGED <<graph, writer>>
    BY DEF Retrieve, Watch, Bootstrap, Query, NextHop, Build, Alert, Resolved, Begin, Quit, Swallow
  <1>3. LeaseInv' /\ CycleInv'
    BY <1>2, ChatFrame
  <1>4. Flagged \subseteq Service /\ ex \in Expansion
    BY ExpansionTypes DEF Flagged
  <1>5. /\ chat' \in {"off", "begin", "watch", "expand"} /\ known' \subseteq Service
        /\ missed' \in BOOLEAN /\ still' \in BOOLEAN
    BY <1>4 DEF Retrieve, Watch, Bootstrap, Query, NextHop, Build, Alert, Resolved, Begin, Quit, Swallow,
                IInv, TypeOK
  <1>6. msg' \in [kind : {"healthy", "resolved", "incident"}, alerted : Service \cup {Nobody},
                  root : Service \cup {Nobody}]
    <2>1. Plain("healthy") \in [kind : {"healthy", "resolved", "incident"},
                                alerted : Service \cup {Nobody}, root : Service \cup {Nobody}]
      BY DEF Plain
    <2>2. Plain("resolved") \in [kind : {"healthy", "resolved", "incident"},
                                 alerted : Service \cup {Nobody}, root : Service \cup {Nobody}]
      BY DEF Plain
    <2>3. CASE Build
      <3>1. ex.start \in Service \cup {Nobody} /\ ex.root \in Service \cup {Nobody}
        BY <1>4 DEF Expansion
      <3>2. msg' = [kind |-> "incident", alerted |-> ex.start, root |-> ex.root]
        BY <2>3 DEF Build
      <3> QED BY <3>1, <3>2
    <2>4. CASE msg' \in {msg, Plain("healthy"), Plain("resolved")}
      BY <2>1, <2>2, <2>4 DEF IInv, TypeOK
    <2>5. Build \/ msg' \in {msg, Plain("healthy"), Plain("resolved")}
      BY DEF Retrieve, Watch, Bootstrap, Query, NextHop, Alert, Resolved, Begin, Quit, Swallow
    <2> QED BY <2>3, <2>4, <2>5
  <1>7. TypeOK'
    BY <1>1, <1>2, <1>5, <1>6 DEF IInv, TypeOK, graph, writer, Expansion
  <1> QED BY <1>1, <1>3, <1>7 DEF IInv

\* The invariant holds initially.
LEMMA InvariantInit == Init => IInv
  <1> SUFFICES ASSUME Init PROVE IInv
    OBVIOUS
  <1>1. 0 \in 0..MaxFlags /\ Len(Services) \in Nat \ {0} /\ MaxFlags \in Nat
    BY GraphAssumption, ServiceList
  <1>2. ex \in Expansion /\ Fresh(ex) /\ ex.hop = 0
    BY FreshTypes DEF Init
  <1>3. cycle \in [next : 1..Len(Services) + 1, found : SUBSET Service,
                   links : SUBSET (Service \X Service)]
    <2>1. 1 \in 1..Len(Services) + 1
      BY <1>1
    <2> QED BY <2>1 DEF Init, NoCycle
  <1>4. TypeOK
    BY <1>1, <1>2, <1>3 DEF Init, TypeOK, Plain, Expansion
  <1>5. LeaseInv /\ CycleInv
    BY DEF Init, LeaseInv, CycleInv
  <1>6. ExpandInv /\ ChatInv /\ ContextIsCurrent
    BY <1>2 DEF Init, ExpandInv, Expanding, ChatInv, ContextIsCurrent
  <1> QED BY <1>4, <1>5, <1>6 DEF IInv

\* Every step keeps the invariant.
LEMMA InvariantNext == IInv /\ [Next]_vars => IInv'
  <1> SUFFICES ASSUME IInv, [Next]_vars PROVE IInv'
    OBVIOUS
  <1>1. ASSUME NEW w \in Writers, Write(w)
        PROVE  IInv'
    BY <1>1, WriteKeeps, WriteTypes DEF IInv
  <1>2. CASE Inspected
    <2>1. /\ lease' = Nobody /\ at[lease] = "off" /\ UNCHANGED <<graph, at, cycle, grace, talk, still>>
      BY <1>2 DEF Inspected
    <2>2. LeaseInv' /\ CycleInv'
      BY <2>1 DEF IInv, LeaseInv, CycleInv, graph
    <2>3. ExpandInv' /\ ChatInv' /\ ContextIsCurrent'
      BY <2>1, WriterFrame DEF graph
    <2>4. TypeOK'
      BY <2>1 DEF IInv, TypeOK, graph, talk
    <2> QED BY <2>2, <2>3, <2>4 DEF IInv
  <1>3. CASE Retrieve \/ Watch \/ Begin \/ Quit \/ Swallow
    BY <1>3, ReadStep
  <1>4. CASE UNCHANGED vars
    BY <1>4 DEF vars, graph, writer, talk, IInv, TypeOK, LeaseInv, CycleInv, ExpandInv, Expanding, ChatInv,
       ContextIsCurrent
  <1> QED BY <1>1, <1>2, <1>3, <1>4 DEF Next

\* A cycle that is over has left the edges of its anomalies.
LEMMA PropagationEnds ==
  ASSUME IInv
  PROVE  PropagationIsExact
  BY DEF IInv, CycleInv, PropagationIsExact, EdgesOf, Hot, Flagged

\* The invariant holds always (kg_builder.py, graph_writer.py, retriever.py,
\* llm_chat.py).
THEOREM GraphInvariant == Spec => []IInv
  BY InvariantInit, InvariantNext, PTL DEF Spec

\* What is written into the graph and what is read out of it is exact: the edges
\* after a cycle are those of its anomalies (kg_builder.py:362-402), an expansion
\* finds what is within its hops and the oldest of it (retriever.py:86-215).
THEOREM GraphIsExactTheorem == Spec => []GraphIsExact
  <1>1. IInv => GraphIsExact
    BY PropagationEnds, ExpansionEnds DEF IInv, GraphIsExact
  <1> QED BY <1>1, GraphInvariant, PTL

\* The system message of a waiting chat tells of an incident exactly while it knows
\* of alerts, and of one of them (llm_chat.py:173-188,244-252).
THEOREM ContextIsCurrentTheorem == Spec => []ContextIsCurrent
  <1>1. IInv => ContextIsCurrent
    BY DEF IInv
  <1> QED BY <1>1, GraphInvariant, PTL
=============================================================================
